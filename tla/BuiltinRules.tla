----------------------------- MODULE BuiltinRules -----------------------------
(***************************************************************************)
(* BUILTIN_RULES (rules/builtin_rules.py), and what evaluate_command       *)
(* (cli.py) gathers of a command text before it decides: the step from a   *)
(* text to the Facts and the rules of Decision.                            *)
(***************************************************************************)
EXTENDS CommandRisks

Decisions == INSTANCE Decision

-----------------------------------------------------------------------------
\* Mutant: of the first segment alone.
FirstOperation(command) ==
  IF command.valid /\ command.segments.raws # <<>>
    THEN {AnalyzeOperation(command.segments.raws[1])} ELSE {}

\* _filesystem_analyses: of every segment by itself.
Operations(command) ==
  IF command.valid
    THEN {AnalyzeOperation(command.segments.raws[i]) : i \in DOMAIN command.segments.raws}
    ELSE {}

Targeting(operations, words) ==
  \E operation \in operations :
    operation.operation = "delete" /\ \E target \in operation.targets : Word(target) \in words

\* The four filesystem rules.
FilesystemRules == <<"fs_recursive_delete", "fs_system_path", "fs_root_deletion",
                     "fs_unqualified_glob_delete">>

FilesystemMatches(operations) ==
  LET deletes   == {operation \in operations : operation.operation = "delete"}
      recursive == {operation \in deletes : "recursive" \in operation.flags}
  IN {rule \in ToSet(FilesystemRules) :
        \/ rule = "fs_recursive_delete" /\ recursive # {}
        \/ rule = "fs_system_path" /\ \E operation \in deletes :
                                        \E target \in operation.targets : IsDangerous(target)
        \/ rule = "fs_root_deletion" /\ Targeting(deletes, {"/", "\\", "~"})
        \/ rule = "fs_unqualified_glob_delete" /\ Targeting(recursive, {"*", "/*", "\\*"})}

\* The rules that ask the analysis of the command, or of the statements, for one risk.
RiskRules ==
  <<"cmd_git_force_push", "cmd_recursive_world_writable", "cmd_remote_script_to_shell",
    "cmd_nested_dangerous_execution", "cmd_package_publish_without_context",
    "cmd_destructive_docker", "cmd_cloud_resource_deletion", "cmd_forceful_kubernetes_delete",
    "cmd_disk_overwrite_or_format", "cmd_find_root_delete", "cmd_shell_fork_bomb",
    "cmd_reverse_shell", "cmd_env_to_network", "cmd_sensitive_path_access", "sql_drop_table",
    "sql_drop_database", "sql_truncate", "sql_unqualified_delete", "sql_unqualified_update",
    "sql_tautological_delete", "sql_tautological_update">>

BuiltinRules == FilesystemRules \o RiskRules

Critical ==
  ToSet(FilesystemRules) \cup
  {"cmd_remote_script_to_shell", "cmd_nested_dangerous_execution", "cmd_disk_overwrite_or_format",
   "cmd_find_root_delete", "cmd_shell_fork_bomb", "cmd_reverse_shell", "cmd_env_to_network",
   "sql_drop_table", "sql_drop_database", "sql_truncate"}

\* The rules on the analyses of a text; an analysis that failed has no risks.
RulesOn(analysis) ==
  LET matches == FilesystemMatches(Operations(analysis.command)) \cup analysis.command.risks
                   \cup analysis.sql.risks
  IN [i \in DOMAIN BuiltinRules |->
        [match |-> IF BuiltinRules[i] \in matches THEN "yes" ELSE "no",
         response |-> "block",
         severity |-> IF BuiltinRules[i] \in Critical THEN "CRITICAL" ELSE "HIGH"]]

-----------------------------------------------------------------------------
SafeOperations == {"move", "copy", "chmod", "create_dir", "create_file"}

Highest(risks, scores) == FoldSet(LAMBDA risk, n : Decisions!Larger(scores[risk], n), 0, risks)

\* Mutant: the operators are not looked at.
AloneByCount(command) == Len(command.segments.raws) = 1 /\ command.risks = {}

\* What _can_auto_allow_known_safe_operation asks of the command analysis.
Alone(command) ==
  Len(command.segments.raws) = 1 /\ command.segments.operators = <<>> /\ command.risks = {}

\* The three analyses that evaluate_command starts with.
Analyses(text) ==
  [operation |-> AnalyzeOperation(text), command |-> AnalyzeCommand(text),
   sql |-> AnalyzeSql(Normalized(text))]

\* evaluate_command, up to the engine.
FactsOf(analysis) ==
  [fault |-> FALSE, command |-> analysis.command.valid, sql |-> analysis.sql.valid,
   known |-> analysis.operation.operation \in SafeOperations /\ ~analysis.operation.dangerous,
   plain |-> Alone(analysis.command), sqlPlain |-> analysis.sql.risks = {},
   risk |-> Decisions!Larger(Highest(analysis.command.risks, RiskScores),
                             Highest(analysis.sql.risks, SqlRiskScores))]

\* evaluate_command without further rules, profile or mode.
DecidedOn(analysis) ==
  Decisions!Decide(FactsOf(analysis), RulesOn(analysis), [mode |-> "none", profile |-> "none"])

Verdict(text) == DecidedOn(Analyses(text)).verdict
=============================================================================
