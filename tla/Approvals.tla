------------------------------ MODULE Approvals ------------------------------
(***************************************************************************)
(* Commands that need an approval: run_command_mode and run_approvals_mode *)
(* (cli.py) over ApprovalStore (approvals.py).  Every call is a process of *)
(* its own; they share one file per approval, which write_text empties     *)
(* before it fills it, and nothing is locked.                              *)
(***************************************************************************)
EXTENDS Decision

CONSTANTS
  Procs,
  Commands,
  Inputs,          \* what inspectors and built-in rules may say of a command, and
                   \* whether redact_record changes its text
  Policies,        \* policy files there may be
  TrustRepository, RequireSignature,   \* options of the command line
  TTL,             \* ttl_seconds
  MaxTime, MaxFaults, MaxEdits         \* bounds

ASSUME ApprovalConstants ==
  /\ \A i \in Inputs : i.facts \in Facts /\ i.rules \in Seq(Rule) /\ i.redacted \in BOOLEAN
  /\ Policies \subseteq PolicyFile
  /\ {TrustRepository, RequireSignature} \subseteq BOOLEAN
  /\ TTL \in Nat \ {0} /\ {MaxTime, MaxFaults, MaxEdits} \subseteq Nat

VARIABLES
  input,      \* what is said of each command
  policy,     \* the policy file
  files,      \* the approval directory: from ids to records
  procs,      \* each process: its phase and what it holds
  now, faults, edits,
  requests,   \* history: the pending records that were written
  lastWord    \* history: under each id, the last decision that was written

vars == <<input, policy, files, procs, now, faults, edits, requests, lastWord>>

Idle == [phase |-> "idle"]

\* A file between the two halves of write_text.
Empty == [status |-> "empty"]

\* What the variables hold: under each id an empty file or a record of that id.
TypeOK ==
  /\ input \in [Commands -> Inputs] /\ policy \in Policies
  /\ now \in 0..MaxTime /\ faults \in 0..MaxFaults /\ edits \in 0..MaxEdits
  /\ DOMAIN procs = Procs
  /\ \A id \in DOMAIN files :
       \/ files[id] = Empty
       \/ files[id].id = id /\ files[id].status \in {"pending", "approved", "denied", "expired"}
  /\ DOMAIN lastWord \subseteq {record.id : record \in requests}

Restrained(p) == procs[p].phase \in {"idle", "shown", "gone"}

Become(p, state) == procs' = [procs EXCEPT ![p] = state]

Init ==
  /\ input \in [Commands -> Inputs]
  /\ policy \in Policies
  /\ files = <<>> /\ procs = [p \in Procs |-> Idle]
  /\ now = 0 /\ faults = 0 /\ edits = 0
  /\ requests = {} /\ lastWord = <<>>

-----------------------------------------------------------------------------
\* What a process that starts now makes of a command.
RulesFor(c) == input[c].rules \o AppliedRules(policy)

ResultFor(c) ==
  [command |-> c, redacted |-> input[c].redacted, policy |-> policy, facts |-> input[c].facts,
   builtin |-> input[c].rules, rules |-> RulesFor(c),
   first |-> Evaluated(input[c].facts, RulesFor(c)).verdict,
   decision |-> Decide(input[c].facts, RulesFor(c), OptionsOf(policy))]

\* The policy entry names the verdict that the mode replaced, or only reports.
Replaced(result) ==
  IF result.first # result.decision.verdict \/ SelectedMode(OptionsOf(result.policy)) = "advisory"
    THEN result.first ELSE "none"

\* _approval_id: of the policy, its posture, source and signature but not its rules;
\* of a rule, its id, which is its place here.  The verdict is not in it.
IdOf(result) ==
  [command |-> result.command, options |-> OptionsOf(result.policy),
   source |-> result.policy.source, signature |-> result.policy.signature,
   risk |-> result.decision.risk, rule |-> result.decision.rule,
   replaced |-> Replaced(result)]

\* _canonical_summary of what is_valid_for_result compares again; the id settles the rest.
Summary(result) ==
  [command |-> result.command, verdict |-> result.decision.verdict,
   rule |-> result.decision.rule, source |-> result.policy.source]

\* redact_record masks parts of some commands.
RedactedSummary(result) ==
  [Summary(result) EXCEPT !.command = IF result.redacted THEN "masked" ELSE @]

NewRecord(result) ==
  [id |-> IdOf(result), status |-> "pending", expires |-> now + TTL,
   summary |-> RedactedSummary(result)]

\* Mutant: the last second still counts.
ExpiredAfter(record) == now > record.expires

\* _is_expired.
Expired(record) == now >= record.expires

-----------------------------------------------------------------------------
\* run_command_mode, up to the approval store; a policy that is refused ends it.
Run(p, c) ==
  /\ Restrained(p) /\ PolicyAccepted(policy, RequireSignature, TrustRepository)
  /\ LET result == ResultFor(c)
     IN Become(p, [phase |-> IF result.decision.verdict = "pending_approval"
                               THEN "asking" ELSE "shown",
                   result |-> result])
  /\ UNCHANGED <<input, policy, files, now, faults, edits, requests, lastWord>>

\* create, up to its write: a record that exists is returned as it is, an empty one
\* does not parse.
Ask(p) ==
  /\ procs[p].phase = "asking"
  /\ LET record == NewRecord(procs[p].result)
     IN Become(p, IF record.id \in DOMAIN files THEN Idle
                  ELSE [phase |-> "emptying", record |-> record])
  /\ UNCHANGED <<input, policy, files, now, faults, edits, requests, lastWord>>

\* Mutant: an approved record is not looked at again.
DecidedOnce(record, status) ==
  [record EXCEPT !.status = IF Expired(record) THEN "expired"
                            ELSE IF record.status = "approved" THEN @ ELSE status]

Decided(record, status) ==
  [record EXCEPT !.status = IF Expired(record) THEN "expired" ELSE status]

\* decide, up to its write.
Review(p, id, status) ==
  /\ Restrained(p) /\ id \in DOMAIN files /\ files[id].status # "empty"
  /\ Become(p, [phase |-> "emptying", record |-> Decided(files[id], status), word |-> status])
  /\ UNCHANGED <<input, policy, files, now, faults, edits, requests, lastWord>>

\* f with v at k, whether k was in its domain or not.
With(f, k, v) == [x \in DOMAIN f \cup {k} |-> IF x = k THEN v ELSE f[x]]

\* The two halves of write_text.
EmptyFile(p) ==
  /\ procs[p].phase = "emptying"
  /\ files' = With(files, procs[p].record.id, Empty)
  /\ Become(p, [procs[p] EXCEPT !.phase = "filling"])
  /\ UNCHANGED <<input, policy, now, faults, edits, requests, lastWord>>

FillFile(p) ==
  LET record == procs[p].record
  IN /\ procs[p].phase = "filling"
     /\ files' = With(files, record.id, record)
     /\ Become(p, Idle)
     /\ IF "word" \in DOMAIN procs[p]
          THEN /\ lastWord' = With(lastWord, record.id, procs[p].word)
               /\ UNCHANGED requests
          ELSE requests' = requests \cup {record} /\ UNCHANGED lastWord
     /\ UNCHANGED <<input, policy, now, faults, edits>>

\* A caller that holds an approval evaluates its command again ...
Recheck(p, c) ==
  /\ Restrained(p) /\ PolicyAccepted(policy, RequireSignature, TrustRepository)
  /\ Become(p, [phase |-> "checking", result |-> ResultFor(c)])
  /\ UNCHANGED <<input, policy, files, now, faults, edits, requests, lastWord>>

\* Mutant: the id is not compared.
FitsById(id, result) ==
  /\ files[id].status = "approved" /\ ~Expired(files[id])
  /\ files[id].summary = Summary(result)

\* is_valid_for_result: the summary of a record whose command was masked fits nothing.
Fits(id, result) ==
  /\ files[id].status = "approved" /\ ~Expired(files[id])
  /\ id = IdOf(result)
  /\ files[id].summary = Summary(result)

\* ... and goes on if the record of the id it was given fits.
Verify(p, id) ==
  /\ procs[p].phase = "checking" /\ id \in DOMAIN files
  /\ Become(p, IF Fits(id, procs[p].result)
                 THEN [phase |-> "gone", result |-> procs[p].result, id |-> id] ELSE Idle)
  /\ UNCHANGED <<input, policy, files, now, faults, edits, requests, lastWord>>

-----------------------------------------------------------------------------
\* A process ends between two of its steps, or the disk refuses a write.
Die(p) ==
  /\ procs[p].phase \in {"emptying", "filling"} /\ faults < MaxFaults
  /\ faults' = faults + 1 /\ Become(p, Idle)
  /\ UNCHANGED <<input, policy, files, now, edits, requests, lastWord>>

SetPolicy ==
  /\ edits < MaxEdits /\ edits' = edits + 1
  /\ policy' \in Policies \ {policy}
  /\ UNCHANGED <<input, files, procs, now, faults, requests, lastWord>>

Tick ==
  /\ now < MaxTime /\ now' = now + 1
  /\ UNCHANGED <<input, policy, files, procs, faults, edits, requests, lastWord>>

Next ==
  \/ \E p \in Procs :
       \/ \E c \in Commands : Run(p, c) \/ Recheck(p, c)
       \/ Ask(p) \/ EmptyFile(p) \/ FillFile(p) \/ Die(p)
       \/ \E id \in DOMAIN files : \/ Verify(p, id)
                                   \/ \E status \in {"approved", "denied"} : Review(p, id, status)
  \/ SetPolicy \/ Tick

Spec == Init /\ [][Next]_vars

-----------------------------------------------------------------------------
\* Whatever policy, profile and mode were in force, a command shown as allowed earned
\* it by complete inspection and by the first rule that spoke (evaluate_command).
AllowIsEarned ==
  \A p \in Procs : LET held == procs[p]
                   IN (held.phase = "shown" /\ held.result.decision.verdict = "allow")
                        => Earned(held.result.facts, held.result.rules)

\* A policy file found in a repository that is not trusted allows nothing that the
\* built-in rules alone do not allow, however it writes its profile and mode
\* (_repository_policy_trust_errors).  Two files are exempt, whose rules are applied
\* unchecked: one that carries rules and names a rule file too, and one whose rule file
\* is rewritten between the two readings.
RepositoryCannotAllow ==
  \A p \in Procs :
    LET held == procs[p]
    IN (/\ held.phase = "shown" /\ held.result.decision.verdict = "allow"
        /\ held.result.policy.source = "repository" /\ ~TrustRepository
        /\ ~EscapesCheck(held.result.policy))
         => Decide(held.result.facts, held.result.builtin, OptionsOf(NoPolicy)).verdict = "allow"

GoesOn(p) == procs[p].phase # "gone" /\ procs'[p].phase = "gone"

\* A process goes on only for a decision that somebody asked about as it is now: the
\* same command, posture, rule, risk and verdict, whatever changed in between
\* (is_valid_for_result).
UseWasAsked ==
  [][\A p \in Procs : GoesOn(p) =>
       \E record \in requests : /\ record.id = IdOf(procs'[p].result)
                                /\ record.summary = Summary(procs'[p].result)]_vars

\* An approval lapses with the request it answers: nobody goes on when every request
\* of that decision has expired (_is_expired in decide and is_valid_for_result).
ApprovalsLapse ==
  [][\A p \in Procs : GoesOn(p) =>
       \E record \in requests : record.id = procs'[p].id /\ now < record.expires]_vars

\* The last word written on a request counts, also when reviews of several people and
\* new requests for it overlap: nobody goes on after a denial (decide).
LastWordHolds ==
  [][\A p \in Procs : GoesOn(p) =>
       procs'[p].id \in DOMAIN lastWord /\ lastWord[procs'[p].id] = "approved"]_vars
=============================================================================
