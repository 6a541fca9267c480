------------------------------ MODULE Decision ------------------------------
(***************************************************************************)
(* evaluate_command (cli.py): the verdict on one command, from what the    *)
(* inspectors and the rules say of it, under a profile and a mode          *)
(* (profiles.py); and load_policy (policy.py), which may choose them.      *)
(*                                                                         *)
(* The inspectors and the rules' matchers look at text: here they are the  *)
(* fields of Facts and of Rule.                                            *)
(***************************************************************************)
EXTENDS Integers, Sequences

Facts ==
  [fault    : BOOLEAN,   \* not a string, over the size limit, or an inspector raised
   command  : BOOLEAN,   \* command_analysis.is_valid
   sql      : BOOLEAN,   \* sql_analysis.is_valid
   known    : BOOLEAN,   \* _is_known_safe_operation
   plain    : BOOLEAN,   \* one segment, no operators, no risk flags, not dangerous
   sqlPlain : BOOLEAN,   \* no risk flags, not dangerous
   risk     : 0..100]    \* the larger of both risk scores

\* "raises" is also an element of the list that is not a Rule.
Rule ==
  [match    : {"no", "yes", "raises"},
   response : {"allow", "block", "approval"},
   severity : {"CRITICAL", "HIGH", "MEDIUM", "LOW"}]

Modes == {"none", "strict", "advisory", "approval"}
Profiles == {"none", "solo", "repo", "team", "prod"}
Options == [mode : Modes, profile : Profiles]

Larger(m, n) == IF m >= n THEN m ELSE n

-----------------------------------------------------------------------------
\* Engine.evaluate: the first rule that matches or raises decides.
Deciding(rules) == {i \in DOMAIN rules : rules[i].match # "no"}

\* Mutant: the last one decides.
Last(rules) == CHOOSE i \in Deciding(rules) : \A j \in Deciding(rules) : i >= j

First(rules) == CHOOSE i \in Deciding(rules) : \A j \in Deciding(rules) : i <= j

ResponseVerdict == [allow |-> "allow", block |-> "block", approval |-> "pending_approval"]

EngineVerdict(rules) ==
  IF Deciding(rules) = {} THEN "unknown"
  ELSE IF rules[First(rules)].match = "raises" THEN "error"
  ELSE ResponseVerdict[rules[First(rules)].response]

-----------------------------------------------------------------------------
\* _can_auto_allow_known_safe_operation.
AutoAllows(f) == f.known /\ f.command /\ f.plain /\ f.sql /\ f.sqlPlain

\* _build_inspection_coverage.
MandatoryComplete(f) == ~f.fault /\ f.command /\ f.sql

AllowEligible(f) == MandatoryComplete(f) /\ f.known /\ f.plain /\ f.sqlPlain

SeverityScore == [CRITICAL |-> 100, HIGH |-> 85, MEDIUM |-> 60, LOW |-> 35]

\* _risk_score_for_result.
RiskScore(verdict, f, rules) ==
  IF verdict = "error" THEN 100
  ELSE IF verdict \in {"block", "pending_approval"}
    THEN Larger(f.risk, SeverityScore[rules[First(rules)].severity])
  ELSE f.risk

Result(verdict, source, risk, rule) ==
  [verdict |-> verdict, source |-> source, risk |-> risk, rule |-> rule]

Failed == Result("error", "none", 100, 0)

\* The rule's place in the list, 0 for none.
RuleOf(rules) == IF EngineVerdict(rules) \in {"unknown", "error"} THEN 0 ELSE First(rules)

\* evaluate_command, up to the policy mode.
Evaluated(f, rules) ==
  LET verdict == EngineVerdict(rules)
  IN IF f.fault \/ ~f.command \/ (verdict # "block" /\ ~f.sql) THEN Failed
     ELSE IF verdict = "unknown" /\ AutoAllows(f)
       THEN Result("allow", "auto_known_safe", f.risk, 0)
     ELSE Result(verdict, IF verdict = "allow" THEN "rule" ELSE "none",
                 RiskScore(verdict, f, rules), RuleOf(rules))

-----------------------------------------------------------------------------
\* PROFILES.
ProfileMode == [solo |-> "advisory", repo |-> "strict", team |-> "approval", prod |-> "approval"]
ApprovalThreshold == [none |-> 80, solo |-> 100, repo |-> 90, team |-> 80, prod |-> 60]
BlockThreshold == [none |-> 100, solo |-> 100, repo |-> 90, team |-> 100, prod |-> 100]

SelectedMode(options) ==
  IF options.mode # "none" THEN options.mode
  ELSE IF options.profile # "none" THEN ProfileMode[options.profile]
  ELSE "none"

\* apply_policy_mode.
ApplyMode(result, options) ==
  LET mode      == SelectedMode(options)
      threshold == ApprovalThreshold[options.profile]
  IN IF mode = "strict" /\ result.verdict = "unknown"
       THEN [result EXCEPT !.verdict = "block",
                           !.risk = Larger(@, BlockThreshold[options.profile])]
     ELSE IF mode = "approval" /\ result.verdict = "block" /\ result.risk >= threshold
       THEN [result EXCEPT !.verdict = "pending_approval"]
     ELSE IF mode = "approval" /\ result.verdict = "unknown"
             /\ options.profile \in {"team", "prod"}
       THEN [result EXCEPT !.verdict = "pending_approval", !.risk = Larger(@, threshold)]
     ELSE result

\* _validate_decision.
Validated(result, f) ==
  IF result.verdict = "allow"
     /\ (~MandatoryComplete(f) \/ (result.source = "auto_known_safe" /\ ~AllowEligible(f)))
    THEN Failed ELSE result

Decide(f, rules, options) == Validated(ApplyMode(Evaluated(f, rules), options), f)

-----------------------------------------------------------------------------
\* An embedded signature: none, a checksum, a keyed digest, or one that does not fit.
Signatures == {"none", "checksum", "keyed", "bad"}

\* A rule definition, if there is one.
Definition ==
  [given : BOOLEAN, parses : BOOLEAN, signature : Signatures, rules : Seq(Rule)]

NoDefinition == [given |-> FALSE, parses |-> TRUE, signature |-> "none", rules |-> <<>>]

\* A policy document and where it was found.  It may carry rules and name a rule file,
\* which is read twice: file is what the first reading finds, reread the second.
\* exact: mode and profile are written as PROFILES has them, not in other capitals.
PolicyFile ==
  [source : {"defaults", "explicit", "environment", "repository", "remote"},
   parses : BOOLEAN, signature : Signatures,
   mode : Modes, profile : Profiles, exact : BOOLEAN, strict : {"absent", "true", "false"},
   inline : Definition, file : Definition, reread : Definition]

\* What load_policy returns when it finds no file.
NoPolicy ==
  [source |-> "defaults", parses |-> TRUE, signature |-> "none",
   mode |-> "none", profile |-> "none", exact |-> TRUE, strict |-> "absent",
   inline |-> NoDefinition, file |-> NoDefinition, reread |-> NoDefinition]

\* verify_signed_document: a checksum proves nothing about the author.
Verified(signature, requireSignature) ==
  signature = "keyed" \/ (signature \in {"none", "checksum"} /\ ~requireSignature)

\* RuleFileLoader.load.
FileLoads(definition, requireSignature) ==
  definition.parses /\ Verified(definition.signature, requireSignature)

\* What _load_runtime_options loads: the rule file, and what stands in the document
\* only if it names none.
RulesLoad(policy, requireSignature) ==
  IF policy.file.given THEN FileLoads(policy.reread, requireSignature)
  ELSE policy.inline.given => policy.inline.parses

AppliedRules(policy) ==
  IF policy.file.given THEN policy.reread.rules
  ELSE IF policy.inline.given THEN policy.inline.rules
  ELSE <<>>

\* What the trust check looks at: what stands in the document, and the rule file only if
\* nothing does.
CheckedRules(policy, requireSignature) ==
  IF policy.inline.given THEN policy.inline.rules
  ELSE IF policy.file.given /\ FileLoads(policy.file, requireSignature) THEN policy.file.rules
  ELSE <<>>

LoosePosture(policy) ==
  \/ policy.exact /\ (policy.profile = "solo" \/ policy.mode = "advisory")
  \/ policy.strict = "false"

\* Mutant: its rules are not looked at.
WeakensByPosture(policy, requireSignature) == LoosePosture(policy)

\* _repository_policy_trust_errors.
Weakens(policy, requireSignature) ==
  \/ LoosePosture(policy)
  \/ LET rules == CheckedRules(policy, requireSignature)
     IN \E i \in DOMAIN rules : rules[i].response = "allow"

\* load_policy, and the rules that _load_runtime_options loads after it.
PolicyAccepted(policy, requireSignature, trustRepository) ==
  \/ policy.source = "defaults"
  \/ /\ policy.parses /\ Verified(policy.signature, requireSignature)
     /\ (policy.source = "repository" /\ ~trustRepository) => ~Weakens(policy, requireSignature)
     /\ RulesLoad(policy, requireSignature)

\* _load_runtime_options, when the caller asks for nothing.
OptionsOf(policy) ==
  [profile |-> policy.profile,
   mode |-> IF policy.mode # "none" THEN policy.mode
            ELSE IF policy.strict = "true" THEN "strict" ELSE "none"]

-----------------------------------------------------------------------------
\* The rules that are applied are not those that were checked.
EscapesCheck(policy) ==
  policy.file.given /\ (policy.inline.given \/ policy.reread # policy.file)

\* An allow is earned by complete inspection and either an allow rule that no rule
\* before it contradicts, or, when no rule has anything to say, a known safe
\* operation on its own.
Earned(f, rules) ==
  /\ ~f.fault /\ f.command /\ f.sql
  /\ \/ \E i \in DOMAIN rules :
          /\ rules[i].match = "yes" /\ rules[i].response = "allow"
          /\ \A j \in DOMAIN rules : j < i => rules[j].match = "no"
     \/ /\ \A j \in DOMAIN rules : rules[j].match = "no"
        /\ f.known /\ f.plain /\ f.sqlPlain
=============================================================================
