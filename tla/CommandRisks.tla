----------------------------- MODULE CommandRisks -----------------------------
(***************************************************************************)
(* CommandInspector.analyze_command (inspectors/command.py) after the text *)
(* is split, and FilesystemInspector.analyze_operation                     *)
(* (inspectors/filesystem.py).                                             *)
(*                                                                         *)
(* What the code asks of a word's letters ("starts with a dash", "contains *)
(* an r") is the set of the word's shapes; words that the code names stand *)
(* for themselves.                                                         *)
(***************************************************************************)
EXTENDS SqlText, PathText

CONSTANTS
  Shape,      \* from words to their shapes: see Shapes
  Paths,      \* from words to the paths they spell
  SymbolicModes,  \* from them to their clauses: who gets which permissions
  Encoded,    \* from words to the texts they are the base64 of
  Plain       \* from items to the items, or none, that normalization makes of them

Shapes ==
  {"option",      \* starts with "-"
   "long",        \* starts with "--"
   "r", "f",      \* contains the letter
   "context",     \* a release context flag with its value, "--tag=..."
   "delete-",     \* starts with "delete-"
   "/dev/", "of=/dev/", "mkfs", "/dev/tcp/",
   "credential",  \* contains one of the sensitive markers
   "secret",      \* starts like a file that _has_env_to_network_shape looks for
   "env", "--data", "--upload-file",   \* starts so
   "url",         \* contains http:// or https://
   "sink",        \* ends like a command that connects: curl, wget, nc, ncat, netcat
   "name"}        \* could name a shell function

ASSUME RiskConstants ==
  /\ \A w \in DOMAIN Shape : Shape[w] \subseteq Shapes
  /\ Dashes = {w \in DOMAIN Shape : "long" \in Shape[w]}

Has(w, shape) == w \in DOMAIN Shape /\ shape \in Shape[w]

\* normalize_for_matching: lookalikes become what they look like, invisible
\* characters go.
Normalized(text) ==
  FlattenSeq([i \in DOMAIN text |-> IF text[i] \in DOMAIN Plain THEN Plain[text[i]] ELSE <<text[i]>>])

\* A token as a word; one of several items is no word that the code names.
Word(token) == IF Len(token) = 1 THEN token[1] ELSE "several"

Words(tokens) == [i \in DOMAIN tokens |-> Word(tokens[i])]

OneOf(args, S) == \E i \in DOMAIN args : args[i] \in S
OneHas(args, shape) == \E i \in DOMAIN args : Has(args[i], shape)
Begins(args, first) == IsPrefix(first, args)

-----------------------------------------------------------------------------
\* The matchers of one command, its name and its arguments as words.
GitForcePush(name, args) ==
  name = "git" /\ Begins(args, <<"push">>)
  /\ OneOf(Tail(args), {"--force", "-f", "--force-with-lease"})

\* A short option with an r in it.
HasR(w) == Has(w, "option") /\ ~Has(w, "long") /\ Has(w, "r")
HasF(w) == Has(w, "option") /\ ~Has(w, "long") /\ Has(w, "f")

\* _is_world_writable_mode: every class gets all permissions, by whichever clauses.
WorldWritable(w) ==
  \/ w = "777"
  \/ /\ w \in DOMAIN SymbolicModes
     /\ \A class \in {"u", "g", "o"} :
          {"r", "w", "x"} \subseteq
            UNION {clause.permissions : clause \in
                     {c \in SymbolicModes[w] : class \in c.classes \/ "a" \in c.classes}}

RecursiveWorldWritable(name, args) ==
  /\ name = "chmod" /\ \E i \in DOMAIN args : HasR(args[i])
  /\ \E i \in DOMAIN args : WorldWritable(args[i])

PublishCommand(name, args) ==
  \/ name = "twine" /\ Begins(args, <<"upload">>)
  \/ name \in {"python", "python3", "py"} /\ Begins(args, <<"-m", "twine", "upload">>)
  \/ name \in {"uv", "poetry", "npm", "pnpm"} /\ Begins(args, <<"publish">>)
  \/ name = "yarn" /\ Begins(args, <<"npm", "publish">>)

PublishWithoutContext(name, args) ==
  /\ PublishCommand(name, args) /\ ~OneHas(args, "context")
  /\ ~OneOf(args, {"--access", "--dry-run", "--index-url", "--otp", "--publish-url", "--registry",
                 "--repository", "--repository-url", "--tag", "-r"})

DestructiveDocker(name, args) ==
  name = "docker"
  /\ \/ Begins(args, <<"system", "prune">>) /\ OneOf(args, {"-a", "--all", "--volumes"})
     \/ \E first \in {<<"volume", "rm">>, <<"volume", "prune">>, <<"network", "rm">>} :
          Begins(args, first)
     \/ Begins(args, <<"image", "prune">>) /\ OneOf(args, {"-a", "--all"})
     \/ Begins(args, <<"rm">>) /\ OneOf(args, {"-f", "--force"})
     \/ Begins(args, <<"compose", "down">>) /\ OneOf(args, {"--volumes", "-v", "--rmi"})

CloudDeletion(name, args) ==
  name \in {"aws", "az", "gcloud"}
  /\ \/ Begins(args, <<"s3", "rm">>) /\ OneOf(args, {"--recursive"})
     \/ Begins(args, <<"s3", "rb">>)
     \/ OneOf(args, {"delete", "destroy", "remove", "terminate-instances"})
     \/ OneHas(args, "delete-")

ForcefulKubernetesDelete(name, args) ==
  name \in {"kubectl", "oc"} /\ Begins(args, <<"delete">>)
  /\ OneOf(Tail(args), {"--force", "--now", "--grace-period=0"})

DiskOverwrite(name, args) ==
  \/ name = "dd" /\ OneHas(args, "of=/dev/")
  \/ Has(name, "mkfs") /\ OneHas(args, "/dev/")

\* A root that find starts at is not normalized, only its trailing separators go.
FindRoot(w) ==
  /\ w \in DOMAIN Paths /\ Paths[w][1] = ""
  /\ \/ \A i \in DOMAIN Paths[w] : Paths[w][i] = ""
     \/ Len(Paths[w]) >= 2 /\ Paths[w][2] \in {"etc", "home", "var", "usr", "root", "sys"}

FindRootDelete(name, args) ==
  name = "find" /\ OneOf(args, {"-delete"}) /\ \E i \in DOMAIN args : FindRoot(args[i])

\* Of the tokens, since the marker may be anywhere in one.
CredentialAccess(name, args) ==
  /\ name \in {"cp", "copy", "mv", "move", "rm", "del", "remove-item"}
  /\ \E i \in DOMAIN args : OneHas(args[i], "credential")

-----------------------------------------------------------------------------
\* What is looked for in the text as a whole, whatever the segments.
\* An item, and after it one of that shape.
Pair(text, i, c, shape) ==
  i + 1 <= Len(text) /\ text[i] = c /\ Has(text[i + 1], shape)

ReadsSecret(text) ==
  \E i \in DOMAIN text :
    \/ text[i] = "printenv" \/ Pair(text, i, " ", "env")
    \/ text[i] \in {"cat", "get-content"} /\ i < Len(text) /\ Pair(text, i + 1, " ", "secret")

NetworkSink(text) ==
  \E i \in DOMAIN text :
    \/ Has(text[i], "url")
    \/ Has(text[i], "sink") /\ i < Len(text) /\ text[i + 1] = " "

SendsData(text) ==
  \/ Contains(text, "|")
  \/ \E i \in DOMAIN text : \/ Pair(text, i, " ", "--data") \/ Pair(text, i, " ", "--upload-file")
                            \/ /\ i + 2 <= Len(text)
                               /\ SubSeq(text, i, i + 2) = <<" ", "-d", " ">>

EnvToNetwork(text) == ReadsSecret(text) /\ NetworkSink(text) /\ SendsData(text)

\* A function that calls itself twice, and is called; spaces may stand anywhere.
ForkBomb(text) ==
  LET solid == SelectSeq([i \in DOMAIN text |-> i], LAMBDA i : text[i] \notin Blanks)
      t == [k \in DOMAIN solid |-> text[solid[k]]]
      ends(i) == i = Len(text) \/ text[i + 1] \in Blanks \cup {";", "&", "|"}
  IN \E k \in 1..(Len(t) - 10) :
       /\ Has(t[k], "name") /\ ends(solid[k + 10])
       /\ SubSeq(t, k, k + 10) = <<t[k], "(", ")", "{", t[k], "|", t[k], "&", "}", ";", t[k]>>

\* Where the next word is, if there are blanks before it.
NextWord(text, i) ==
  {j \in (i + 2)..Len(text) : /\ text[j] \notin Blanks
                             /\ \A k \in (i + 1)..(j - 1) : text[k] \in Blanks}

\* From there to the end of the line.
RestOfLine(text, i) == {j \in i..Len(text) : \A k \in i..j : text[k] # "nl"}

ReverseShell(text) ==
  LET shells == {"sh", "bash", "/bin/sh", "/bin/bash"}
      behind(i, option) ==
        UNION {RestOfLine(text, k) : k \in
                 UNION {NextWord(text, j) : j \in {j \in NextWord(text, i) : text[j] = option}}}
  IN \E i \in DOMAIN text :
       \/ text[i] = "bash" /\ \E j \in behind(i, "-i") : Has(text[j], "/dev/tcp/")
       \/ /\ text[i] \in {"nc", "ncat", "netcat"}
          /\ \E j \in UNION {RestOfLine(text, k) : k \in NextWord(text, i)} :
               text[j] \in {"-e", "--exec"} /\ \E k \in NextWord(text, j) : text[k] \in shells
       \/ \E interpreter \in {<<{"python", "python3"}, "-c", "socket.socket">>,
                              <<{"perl"}, "-e", "socket">>, <<{"php"}, "-r", "fsockopen">>} :
            /\ text[i] \in interpreter[1]
            /\ \E j \in behind(i, interpreter[2]) :
                 /\ text[j] = interpreter[3]
                 /\ \E k \in RestOfLine(text, j) : text[k] \in shells

-----------------------------------------------------------------------------
\* The command string of an interpreter's argument list, or nothing.
FlagOf(args, flags) == {i \in DOMAIN args : Word(args[i]) \in flags /\ i < Len(args)}

\* " ".join.
Joined(tokens) ==
  FlattenSeq([i \in DOMAIN tokens |-> IF i = 1 THEN tokens[i] ELSE <<" ">> \o tokens[i]])

Payload(args, flags) ==
  IF FlagOf(args, flags) = {} THEN <<>> ELSE args[Least(FlagOf(args, flags)) + 1]

RestAfter(args, flags) ==
  IF FlagOf(args, flags) = {} THEN <<>>
  ELSE Joined(SubSeq(args, Least(FlagOf(args, flags)) + 1, Len(args)))

InterpreterFlags ==
  [python |-> {"-c"}, python3 |-> {"-c"}, py |-> {"-c"}, node |-> {"-e", "--eval"},
   ruby |-> {"-e"}, perl |-> {"-e"}, php |-> {"-r"}]

\* The first flag of either kind decides; a word that does not decode is passed over.
PowershellPayload(args) ==
  LET plain   == FlagOf(args, {"-c", "-command", "/c", "/command"})
      encoded == {i \in FlagOf(args, {"-encodedcommand", "-enc", "/encodedcommand", "/enc"}) :
                    Word(args[i + 1]) \in DOMAIN Encoded}
      first   == Least(plain \cup encoded)
  IN IF plain \cup encoded = {} THEN <<>>
     ELSE IF first \in plain THEN Joined(SubSeq(args, first + 1, Len(args)))
     ELSE Encoded[Word(args[first + 1])]

\* _nested_command_payload, <<>> for none.
NestedPayload(name, args) ==
  CASE name \in {"sh", "bash", "zsh", "dash", "ksh"} -> Payload(args, {"-c"})
    [] name \in {"cmd", "cmd.exe"} -> RestAfter(args, {"/c", "/k"})
    [] name \in {"pwsh", "pwsh.exe", "powershell", "powershell.exe"} -> PowershellPayload(args)
    [] name \in DOMAIN InterpreterFlags -> Payload(args, InterpreterFlags[name])
    [] OTHER -> <<>>

\* _embedded_command_literals: the first argument of a call that runs a command,
\* unescaped.
Unescaped(text) ==
  LET escapes[i \in 0..Len(text)] ==
        /\ i > 0 /\ i < Len(text) /\ ~escapes[i - 1]
        /\ text[i] = "\\" /\ text[i + 1] \in Quotes \cup {"\\"}
  IN FlattenSeq([i \in DOMAIN text |-> IF escapes[i] THEN <<>> ELSE <<text[i]>>])

Literals(text) ==
  LET opens == {i \in DOMAIN text : /\ text[i] \in {"system(", "exec(", "execSync(", "spawnSync("}
                                    /\ i < Len(text) /\ text[i + 1] \in Quotes}
      closes(i) == {j \in (i + 2)..Len(text) :
                      text[j] = text[i + 1] /\ text[j - 1] # "\\" /\ ~Contains(SubSeq(text, i, j), "nl")}
  IN {Unescaped(SubSeq(text, i + 2, Least(closes(i)) - 1)) : i \in {k \in opens : closes(k) # {}}}

-----------------------------------------------------------------------------
DeleteCommands == {"rm", "remove", "del", "rmdir", "remove-item"}

OperationOf ==
  [delete |-> DeleteCommands, move |-> {"mv", "move", "ren", "rename"},
   copy |-> {"cp", "copy", "xcopy"}, chmod |-> {"chmod", "icacls", "attrib"},
   create_dir |-> {"mkdir", "md"}, create_file |-> {"touch"}]

OptionLike(token, name) ==
  \/ token # <<>> /\ Has(token[1], "option")
  \/ name \in {"del", "rmdir"} /\ Word(token) \in {"/s", "/q"}

\* _target_args: the value of a path option is a target even if it looks like an option.
Targets(name, args) ==
  LET takes(i) == Word(args[i]) \in {"-path", "--path", "-literalpath", "-destination", "-target"}
      value[i \in 0..Len(args)] == i > 1 /\ takes(i - 1) /\ ~value[i - 1]
      kept == {i \in DOMAIN args : value[i] \/ (~takes(i) /\ ~OptionLike(args[i], name))}
  IN {args[i] : i \in kept}

DeleteFlags(args) ==
  {flag \in {"recursive", "force"} : \E i \in DOMAIN args :
     LET w == Word(args[i])
     IN \/ flag = "recursive" /\ (w \in {"--recursive", "-recurse", "/s"} \/ HasR(w))
        \/ flag = "force" /\ (w \in {"--force", "-force", "/q"} \/ HasF(w))}

\* A token as a path.
PathOf(token) == IF Word(token) \in DOMAIN Paths THEN Paths[Word(token)] ELSE <<"some name">>

IsDangerous(token) == token # <<>> /\ DangerousTarget(PathOf(token))

ItemType(args, kind) ==
  \E i \in 1..(Len(args) - 1) : args[i] = "-itemtype" /\ args[i + 1] = kind

\* analyze_operation of a command that is split: what its first segment does.
OperationName(name, args) ==
  IF name = "new-item" /\ ItemType(args, "directory") THEN "create_dir"
  ELSE IF name = "new-item" /\ ItemType(args, "file") THEN "create_file"
  ELSE LET named == {operation \in DOMAIN OperationOf : name \in OperationOf[operation]}
       IN IF named = {} THEN "unknown" ELSE CHOOSE operation \in named : TRUE

NoOperation == [operation |-> "unknown", targets |-> {}, flags |-> {}, dangerous |-> FALSE]

OperationOn(operation, targets, args) ==
  [operation |-> operation, targets |-> targets,
   flags |-> IF operation = "delete" THEN DeleteFlags(args)
             ELSE IF operation = "copy" THEN DeleteFlags(args) \ {"force"} ELSE {},
   dangerous |-> operation = "delete" /\ \E target \in targets : IsDangerous(target)]

OperationOfTokens(tokens) ==
  LET name == Word(tokens[1])
      args == Tail(tokens)
      operation == OperationName(name, Words(args))
      targets == IF operation \in {"delete", "move", "copy", "chmod"}
                   THEN Targets(IF operation = "delete" THEN name ELSE "none", args) ELSE {}
  IN IF tokens = <<>> THEN NoOperation ELSE OperationOn(operation, targets, args)

FirstSegment(segments) ==
  IF ~segments.ok \/ segments.tokens = <<>> THEN <<>> ELSE segments.tokens[1]

AnalyzeOperation(text) == OperationOfTokens(FirstSegment(Segments(Normalized(text))))

-----------------------------------------------------------------------------
RiskScores ==
  [cmd_git_force_push |-> 85, cmd_recursive_world_writable |-> 85,
   cmd_remote_script_to_shell |-> 100, cmd_nested_dangerous_execution |-> 100,
   cmd_package_publish_without_context |-> 75, cmd_destructive_docker |-> 85,
   cmd_cloud_resource_deletion |-> 85, cmd_forceful_kubernetes_delete |-> 85,
   cmd_disk_overwrite_or_format |-> 100, cmd_find_root_delete |-> 100,
   cmd_shell_fork_bomb |-> 100, cmd_reverse_shell |-> 100, cmd_env_to_network |-> 95,
   cmd_sensitive_path_access |-> 80]

\* Mutant: whichever operator is between them.
NextToShell(segments, i) ==
  /\ i < Len(segments.tokens)
  /\ LET nameOf(j) == IF segments.tokens[j] = <<>> THEN "none" ELSE Word(segments.tokens[j][1])
     IN nameOf(i) \in {"curl", "wget"} /\ nameOf(i + 1) \in {"sh", "bash"}

\* _detect_pipeline_risks: the operator at the place of a segment is taken for the one
\* after it, which it is as long as no segment was left out.
PipesToShell(segments, i) ==
  /\ i < Len(segments.tokens) /\ i <= Len(segments.operators) /\ segments.operators[i] = "|"
  /\ LET nameOf(j) == IF segments.tokens[j] = <<>> THEN "none" ELSE Word(segments.tokens[j][1])
     IN nameOf(i) \in {"curl", "wget"} /\ nameOf(i + 1) \in {"sh", "bash"}

\* _detect_segment_risks; danger says which commands in commands are dangerous.
SegmentRisks(danger, tokens) ==
  LET name == Word(tokens[1])
      args == Words(Tail(tokens))
      nested == NestedPayload(name, Tail(tokens))
  IN IF tokens = <<>> THEN {}
     ELSE {risk \in DOMAIN RiskScores :
       \/ risk = "cmd_git_force_push" /\ GitForcePush(name, args)
       \/ risk = "cmd_recursive_world_writable" /\ RecursiveWorldWritable(name, args)
       \/ risk = "cmd_package_publish_without_context" /\ PublishWithoutContext(name, args)
       \/ risk = "cmd_destructive_docker" /\ DestructiveDocker(name, args)
       \/ risk = "cmd_cloud_resource_deletion" /\ CloudDeletion(name, args)
       \/ risk = "cmd_forceful_kubernetes_delete" /\ ForcefulKubernetesDelete(name, args)
       \/ risk = "cmd_disk_overwrite_or_format" /\ DiskOverwrite(name, args)
       \/ risk = "cmd_find_root_delete" /\ FindRootDelete(name, args)
       \/ risk = "cmd_nested_dangerous_execution" /\ danger[nested]
       \/ risk = "cmd_sensitive_path_access" /\ CredentialAccess(name, Tail(tokens))}

\* _detect_full_command_risks.
TextRisks(text) ==
  {risk \in DOMAIN RiskScores :
     \/ risk = "cmd_shell_fork_bomb" /\ ForkBomb(text)
     \/ risk = "cmd_reverse_shell" /\ ReverseShell(text)
     \/ risk = "cmd_env_to_network" /\ EnvToNetwork(text)}

\* _apply_risk_analysis: the risks of all segments together.
Assessed(danger, normal, segments) ==
  [valid |-> segments.ok, segments |-> segments,
   risks |-> IF ~segments.ok \/ segments.tokens = <<>> THEN {}
             ELSE UNION {SegmentRisks(danger, segments.tokens[i]) : i \in DOMAIN segments.tokens}
                  \cup TextRisks(normal)
                  \cup {"cmd_remote_script_to_shell" :
                           i \in {j \in DOMAIN segments.tokens : PipesToShell(segments, j)}}]

\* analyze_command.
CommandAnalysis(danger, text) == Assessed(danger, Normalized(text), Segments(Normalized(text)))

DestroysFiles(operation) ==
  operation.operation = "delete" /\ (operation.dangerous \/ "recursive" \in operation.flags)

DangerousCommand(analysis) ==
  \/ ~analysis.valid \/ analysis.risks # {}
  \/ \E i \in DOMAIN analysis.segments.raws :
       DestroysFiles(AnalyzeOperation(analysis.segments.raws[i]))

\* _nested_payload_is_dangerous: a payload that cannot be read is; of one that is no
\* SQL no risk is known.
NestedDanger[payload \in Seq(STRING)] ==
  /\ Stripped(payload) # <<>>
  /\ \/ DangerousCommand(CommandAnalysis(NestedDanger, payload))
     \/ AnalyzeSql(Normalized(payload)).risks # {}
     \/ \E literal \in Literals(payload) : NestedDanger[literal]

AnalyzeCommand(text) == CommandAnalysis(NestedDanger, text)
=============================================================================
