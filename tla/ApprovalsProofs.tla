--------------------------- MODULE ApprovalsProofs ---------------------------
(***************************************************************************)
(* Proofs about the decision on a command, for every list of rules and     *)
(* whatever the inspectors say, and about the processes that show it, for  *)
(* every set of processes, commands and policy files.                      *)
(***************************************************************************)
EXTENDS Approvals, WellFoundedInduction, TLAPS

-----------------------------------------------------------------------------
(* The first rule that speaks.                                             *)

LEMMA FirstDecides ==
  ASSUME NEW rules \in Seq(Rule), Deciding(rules) # {}
  PROVE  /\ First(rules) \in Deciding(rules)
         /\ \A j \in Deciding(rules) : First(rules) <= j
<1>1. Deciding(rules) \subseteq Nat
  BY DEF Deciding
<1>2. PICK i \in Deciding(rules) :
             \A j \in Deciding(rules) : <<j, i>> \notin OpToRel(<, Nat)
  BY <1>1, WFMin, NatLessThanWellFounded, Zenon
<1>3. \A j \in Deciding(rules) : i \in Nat /\ j \in Nat /\ ~(j < i)
  BY <1>1, <1>2, Zenon DEF OpToRel
<1>4. \A j \in Deciding(rules) : i <= j
  BY <1>3
<1>5. QED
  BY <1>4 DEF First

\* An engine that allows does so for the first rule that speaks.
LEMMA EngineAllows ==
  ASSUME NEW rules \in Seq(Rule), EngineVerdict(rules) = "allow"
  PROVE  \E i \in DOMAIN rules :
           /\ rules[i].match = "yes" /\ rules[i].response = "allow"
           /\ \A j \in DOMAIN rules : j < i => rules[j].match = "no"
<1>1. Deciding(rules) # {} /\ rules[First(rules)].match # "raises"
  BY DEF EngineVerdict
<1>2. ResponseVerdict[rules[First(rules)].response] = "allow"
  BY <1>1 DEF EngineVerdict
<1>3. /\ First(rules) \in DOMAIN rules /\ rules[First(rules)] \in Rule
      /\ rules[First(rules)].match # "no"
      /\ \A j \in Deciding(rules) : First(rules) <= j
  BY <1>1, FirstDecides DEF Deciding
<1>4. rules[First(rules)].match = "yes" /\ rules[First(rules)].response = "allow"
  BY <1>1, <1>2, <1>3 DEF Rule, ResponseVerdict
<1>5. ASSUME NEW j \in DOMAIN rules, j < First(rules)
      PROVE  rules[j].match = "no"
  BY <1>3, <1>5 DEF Deciding
<1>6. QED
  BY <1>3, <1>4, <1>5

-----------------------------------------------------------------------------
(* The decision.                                                           *)

\* No mode turns another verdict into an allow, and none takes an allow back.
LEMMA ModeKeepsAllow ==
  ASSUME NEW f, NEW rules, NEW options
  PROVE  ApplyMode(Evaluated(f, rules), options).verdict = "allow"
           <=> Evaluated(f, rules).verdict = "allow"
<1>1. Evaluated(f, rules) = [verdict |-> Evaluated(f, rules).verdict,
                             source |-> Evaluated(f, rules).source,
                             risk |-> Evaluated(f, rules).risk,
                             rule |-> Evaluated(f, rules).rule]
  BY DEF Evaluated, Failed, Result
<1>2. QED
  BY <1>1 DEF ApplyMode

\* What evaluate_command allows before the mode is applied.
LEMMA EvaluatedAllows ==
  ASSUME NEW f, NEW rules
  PROVE  Evaluated(f, rules).verdict = "allow"
           <=> /\ ~f.fault /\ f.command /\ f.sql
               /\ \/ EngineVerdict(rules) = "allow"
                  \/ EngineVerdict(rules) = "unknown" /\ AutoAllows(f)
BY DEF Evaluated, Failed, Result

\* The validation at the end rejects none of them.
LEMMA DecideAllows ==
  ASSUME NEW f, NEW rules, NEW options
  PROVE  Decide(f, rules, options).verdict = "allow"
           <=> Evaluated(f, rules).verdict = "allow"
<1> DEFINE result == ApplyMode(Evaluated(f, rules), options)
<1>1. Failed.verdict = "error"
  BY DEF Failed, Result
<1>2. ASSUME Evaluated(f, rules).verdict = "allow"
      PROVE  result = Evaluated(f, rules)
  BY <1>2 DEF ApplyMode
<1>3. ASSUME Evaluated(f, rules).verdict = "allow"
      PROVE  /\ MandatoryComplete(f)
             /\ Evaluated(f, rules).source = "auto_known_safe" => AllowEligible(f)
  BY <1>3, EvaluatedAllows
     DEF Evaluated, Failed, Result, MandatoryComplete, AllowEligible, AutoAllows
<1>4. ASSUME Evaluated(f, rules).verdict = "allow"
      PROVE  Decide(f, rules, options).verdict = "allow"
  BY <1>2, <1>3, <1>4 DEF Decide, Validated
<1>5. ASSUME Decide(f, rules, options).verdict = "allow"
      PROVE  result.verdict = "allow"
  BY <1>1, <1>5 DEF Decide, Validated
<1>6. QED
  BY <1>4, <1>5, ModeKeepsAllow

\* An engine that has nothing to say met no rule that does.
LEMMA EngineUnknown ==
  ASSUME NEW rules \in Seq(Rule)
  PROVE  EngineVerdict(rules) = "unknown"
           <=> \A i \in DOMAIN rules : rules[i].match = "no"
<1>1. ASSUME Deciding(rules) = {}
      PROVE  EngineVerdict(rules) = "unknown" /\ \A i \in DOMAIN rules : rules[i].match = "no"
  BY <1>1 DEF EngineVerdict, Deciding
<1>2. ASSUME Deciding(rules) # {}
      PROVE  /\ EngineVerdict(rules) # "unknown"
             /\ \E i \in DOMAIN rules : rules[i].match # "no"
  <2>1. First(rules) \in DOMAIN rules /\ rules[First(rules)] \in Rule
        /\ rules[First(rules)].match # "no"
    BY <1>2, FirstDecides DEF Deciding
  <2>2. rules[First(rules)].response \in {"allow", "block", "approval"}
    BY <2>1 DEF Rule
  <2>3. QED
    BY <1>2, <2>1, <2>2 DEF EngineVerdict, ResponseVerdict
<1>3. QED
  BY <1>1, <1>2

\* For all facts, all lists of rules and every posture: an allow is earned by complete
\* inspection and by the first rule that speaks, or by a known safe operation when
\* none does (evaluate_command, Engine.evaluate, apply_policy_mode).
THEOREM DecisionIsEarned ==
  ASSUME NEW f \in Facts, NEW rules \in Seq(Rule), NEW options,
         Decide(f, rules, options).verdict = "allow"
  PROVE  Earned(f, rules)
<1>1. /\ ~f.fault /\ f.command /\ f.sql
      /\ \/ EngineVerdict(rules) = "allow"
         \/ EngineVerdict(rules) = "unknown" /\ AutoAllows(f)
  BY DecideAllows, EvaluatedAllows
<1>2. CASE EngineVerdict(rules) = "allow"
  BY <1>1, <1>2, EngineAllows DEF Earned
<1>3. CASE EngineVerdict(rules) = "unknown" /\ AutoAllows(f)
  BY <1>1, <1>3, EngineUnknown DEF Earned, AutoAllows
<1>4. QED
  BY <1>1, <1>2, <1>3

-----------------------------------------------------------------------------
(* More rules after the built-in ones.                                     *)

LEMMA FirstAllows ==
  ASSUME NEW rules \in Seq(Rule), NEW i \in DOMAIN rules,
         rules[i].match = "yes", rules[i].response = "allow",
         \A j \in DOMAIN rules : j < i => rules[j].match = "no"
  PROVE  EngineVerdict(rules) = "allow"
<1>1. i \in Deciding(rules)
  BY DEF Deciding
<1>2. First(rules) = i
  <2>1. First(rules) \in DOMAIN rules /\ rules[First(rules)].match # "no" /\ First(rules) <= i
    BY <1>1, FirstDecides DEF Deciding
  <2>2. ~(First(rules) < i)
    BY <2>1
  <2>3. QED
    BY <2>1, <2>2
<1>3. QED
  BY <1>1, <1>2 DEF EngineVerdict, ResponseVerdict

LEMMA MoreRules ==
  ASSUME NEW b \in Seq(Rule), NEW r \in Seq(Rule),
         \A i \in DOMAIN r : r[i].response # "allow"
  PROVE  /\ EngineVerdict(b \o r) = "allow" => EngineVerdict(b) = "allow"
         /\ EngineVerdict(b \o r) = "unknown" => EngineVerdict(b) = "unknown"
<1>1. /\ b \o r \in Seq(Rule)
      /\ \A i \in DOMAIN b : i \in DOMAIN (b \o r) /\ (b \o r)[i] = b[i]
      /\ \A i \in DOMAIN (b \o r) :
           i \in DOMAIN b \/ (i - Len(b) \in DOMAIN r /\ (b \o r)[i] = r[i - Len(b)])
  OBVIOUS
<1>2. ASSUME EngineVerdict(b \o r) = "allow"
      PROVE  EngineVerdict(b) = "allow"
  <2>1. PICK i \in DOMAIN (b \o r) :
          /\ (b \o r)[i].match = "yes" /\ (b \o r)[i].response = "allow"
          /\ \A j \in DOMAIN (b \o r) : j < i => (b \o r)[j].match = "no"
    BY <1>1, <1>2, EngineAllows
  <2>2. i \in DOMAIN b
    BY <1>1, <2>1
  <2>3. QED
    BY <1>1, <2>1, <2>2, FirstAllows
<1>3. ASSUME EngineVerdict(b \o r) = "unknown"
      PROVE  EngineVerdict(b) = "unknown"
  <2>1. \A i \in DOMAIN (b \o r) : (b \o r)[i].match = "no"
    BY <1>1, <1>3, EngineUnknown
  <2>2. \A i \in DOMAIN b : b[i].match = "no"
    BY <1>1, <2>1
  <2>3. QED
    BY <2>2, EngineUnknown
<1>4. QED
  BY <1>2, <1>3

\* For all facts, rules and postures: rules that allow nothing, put after the built-in
\* ones under any profile and mode, allow nothing that these do not allow alone.
THEOREM RulesThatDoNotAllow ==
  ASSUME NEW f \in Facts, NEW b \in Seq(Rule), NEW r \in Seq(Rule),
         \A i \in DOMAIN r : r[i].response # "allow",
         NEW options, NEW others, Decide(f, b \o r, options).verdict = "allow"
  PROVE  Decide(f, b, others).verdict = "allow"
BY DecideAllows, EvaluatedAllows, MoreRules

-----------------------------------------------------------------------------
(* The processes.                                                          *)

\* What a process holds that shows a verdict: a decision on what was said of its
\* command, under a policy file that was accepted.
Shows(result) ==
  /\ result.facts \in Facts /\ result.builtin \in Seq(Rule)
  /\ result.policy \in PolicyFile
  /\ PolicyAccepted(result.policy, RequireSignature, TrustRepository)
  /\ result.rules = result.builtin \o AppliedRules(result.policy)
  /\ \E options : result.decision = Decide(result.facts, result.rules, options)

ShownInv ==
  /\ input \in [Commands -> Inputs] /\ policy \in Policies
  /\ procs = [p \in Procs |-> procs[p]]
  /\ \A p \in Procs : procs[p].phase = "shown" => Shows(procs[p].result)

LEMMA AppliedRulesType ==
  ASSUME NEW file \in PolicyFile
  PROVE  AppliedRules(file) \in Seq(Rule)
<1>1. file.inline.rules \in Seq(Rule) /\ file.reread.rules \in Seq(Rule)
  BY DEF PolicyFile, Definition
<1>2. QED
  BY <1>1 DEF AppliedRules

\* What is applied of a file that does not escape the check was checked.
LEMMA AppliedIsChecked ==
  ASSUME NEW file \in PolicyFile, NEW signed \in BOOLEAN,
         RulesLoad(file, signed), ~EscapesCheck(file)
  PROVE  AppliedRules(file) = CheckedRules(file, signed)
BY DEF RulesLoad, EscapesCheck, AppliedRules, CheckedRules

LEMMA ResultShows ==
  ASSUME ShownInv, NEW c \in Commands, PolicyAccepted(policy, RequireSignature, TrustRepository)
  PROVE  Shows(ResultFor(c))
<1>1. /\ input[c].facts \in Facts /\ input[c].rules \in Seq(Rule) /\ policy \in PolicyFile
  BY ApprovalConstants DEF ShownInv
<1>2. QED
  BY <1>1 DEF Shows, ResultFor, RulesFor

\* A process that takes a step into any other phase keeps the invariant.
LEMMA OtherPhases ==
  ASSUME ShownInv, NEW p \in Procs, NEW state, Become(p, state),
         state.phase = "shown" => Shows(state.result), UNCHANGED <<input, policy>>
  PROVE  ShownInv'
<1>1. /\ procs' = [procs EXCEPT ![p] = state]
      /\ procs = [q \in Procs |-> procs[q]]
  BY DEF Become, ShownInv
<1>2. procs'[p] = state /\ \A q \in Procs \ {p} : procs'[q] = procs[q]
  BY <1>1
<1>3. procs' = [q \in Procs |-> procs'[q]]
  BY <1>1
<1>4. \A q \in Procs : procs'[q].phase = "shown" => Shows(procs'[q].result)
  BY <1>2 DEF ShownInv
<1>5. QED
  BY <1>3, <1>4 DEF ShownInv, Shows

LEMMA ShownInvariant == Spec => []ShownInv
<1>1. Init => ShownInv
  BY DEF Init, ShownInv, Idle
<1>2. ASSUME ShownInv, [Next]_vars
      PROVE  ShownInv'
  <2>1. ASSUME NEW p \in Procs, NEW c \in Commands, Run(p, c)
        PROVE  ShownInv'
    BY <1>2, <2>1, ResultShows, OtherPhases DEF Run
  <2>2. ASSUME NEW p \in Procs, NEW c \in Commands, Recheck(p, c)
        PROVE  ShownInv'
    BY <1>2, <2>2, OtherPhases DEF Recheck
  <2>3. ASSUME NEW p \in Procs, Ask(p)
        PROVE  ShownInv'
    BY <1>2, <2>3, OtherPhases DEF Ask, Idle
  <2>4. ASSUME NEW p \in Procs, EmptyFile(p)
        PROVE  ShownInv'
    <3>1. procs[p].phase = "emptying"
      BY <2>4 DEF EmptyFile
    <3>2. [procs[p] EXCEPT !.phase = "filling"].phase # "shown"
      BY <3>1
    <3>3. QED
      BY <1>2, <2>4, <3>2, OtherPhases DEF EmptyFile
  <2>5. ASSUME NEW p \in Procs, FillFile(p) \/ Die(p)
        PROVE  ShownInv'
    BY <1>2, <2>5, OtherPhases DEF FillFile, Die, Idle
  <2>6. ASSUME NEW p \in Procs, NEW id, Verify(p, id)
        PROVE  ShownInv'
    BY <1>2, <2>6, OtherPhases DEF Verify, Idle
  <2>7. ASSUME NEW p \in Procs, NEW id, NEW status, Review(p, id, status)
        PROVE  ShownInv'
    BY <1>2, <2>7, OtherPhases DEF Review
  <2>8. ASSUME SetPolicy \/ Tick \/ UNCHANGED vars
        PROVE  ShownInv'
    BY <1>2, <2>8 DEF SetPolicy, Tick, vars, ShownInv, Shows
  <2>9. QED
    BY <1>2, <2>1, <2>2, <2>3, <2>4, <2>5, <2>6, <2>7, <2>8 DEF Next
<1>3. QED
  BY <1>1, <1>2, PTL DEF Spec

\* Whatever the commands, rules and policy files, a command that is shown as allowed
\* earned it (evaluate_command).
THEOREM AllowIsEarnedCorrect == Spec => []AllowIsEarned
<1>1. ASSUME ShownInv, NEW p \in Procs, procs[p].phase = "shown",
             procs[p].result.decision.verdict = "allow"
      PROVE  Earned(procs[p].result.facts, procs[p].result.rules)
  <2> DEFINE result == procs[p].result
  <2>1. Shows(result)
    BY <1>1 DEF ShownInv
  <2>2. result.facts \in Facts /\ result.rules \in Seq(Rule)
    BY <2>1, AppliedRulesType DEF Shows
  <2>3. QED
    BY <1>1, <2>1, <2>2, DecisionIsEarned DEF Shows
<1>2. ShownInv => AllowIsEarned
  BY <1>1 DEF AllowIsEarned
<1>3. QED
  BY <1>2, ShownInvariant, PTL

\* Whatever stands in the policy file of a repository that is not trusted, it allows
\* nothing that the built-in rules alone do not allow (load_policy), unless it carries
\* rules beside a rule file or its rule file is rewritten between the two readings.
THEOREM RepositoryCannotAllowCorrect == Spec => []RepositoryCannotAllow
<1>1. ASSUME ShownInv, NEW p \in Procs, procs[p].phase = "shown",
             procs[p].result.decision.verdict = "allow",
             procs[p].result.policy.source = "repository", ~TrustRepository,
             ~EscapesCheck(procs[p].result.policy)
      PROVE  Decide(procs[p].result.facts, procs[p].result.builtin, OptionsOf(NoPolicy)).verdict
               = "allow"
  <2> DEFINE result == procs[p].result
  <2>1. Shows(result)
    BY <1>1 DEF ShownInv
  <2> DEFINE rules == AppliedRules(result.policy)
  <2>2. rules \in Seq(Rule)
    BY <2>1, AppliedRulesType DEF Shows
  <2>3. RulesLoad(result.policy, RequireSignature) /\ ~Weakens(result.policy, RequireSignature)
    BY <1>1, <2>1 DEF Shows, PolicyAccepted
  <2>4. rules = CheckedRules(result.policy, RequireSignature)
    BY <1>1, <2>1, <2>3, AppliedIsChecked, ApprovalConstants DEF Shows
  <2>5. \A i \in DOMAIN rules : rules[i].response # "allow"
    BY <2>3, <2>4 DEF Weakens
  <2>6. QED
    BY <1>1, <2>1, <2>2, <2>5, RulesThatDoNotAllow DEF Shows
<1>2. ShownInv => RepositoryCannotAllow
  BY <1>1 DEF RepositoryCannotAllow
<1>3. QED
  BY <1>2, ShownInvariant, PTL

-----------------------------------------------------------------------------
(* The records.                                                            *)

IsRecord(r) ==
  /\ r = [id |-> r.id, status |-> r.status, expires |-> r.expires, summary |-> r.summary]
  /\ r.expires \in Nat

\* A request was made of which r has the id, the summary and the time.
Backed(r) ==
  /\ IsRecord(r)
  /\ \E q \in requests : q.id = r.id /\ q.expires = r.expires /\ q.summary = r.summary

\* What can be read under an id.
Stands(id) ==
  files[id].status # "empty" =>
    /\ files[id].id = id /\ Backed(files[id])
    /\ files[id].status = "approved" => id \in DOMAIN lastWord /\ lastWord[id] = "approved"

\* What a process that is writing holds: a new request, or a decision on an old one.
Holds(h) ==
  h.phase \in {"emptying", "filling"} =>
    /\ IsRecord(h.record)
    /\ \/ /\ h = [phase |-> h.phase, record |-> h.record]
          /\ h.record.status = "pending"
       \/ /\ h = [phase |-> h.phase, record |-> h.record, word |-> h.word]
          /\ Backed(h.record)
          /\ h.record.status = "approved" => h.word = "approved"

RecordInv ==
  /\ now \in Nat
  /\ procs = [p \in Procs |-> procs[p]]
  /\ \A p \in Procs : Holds(procs[p])
  /\ \A id \in DOMAIN files : Stands(id)

LEMMA ProcessSteps ==
  ASSUME RecordInv, NEW p \in Procs, NEW state, Become(p, state)
  PROVE  /\ procs' = [q \in Procs |-> procs'[q]]
         /\ procs'[p] = state /\ \A q \in Procs \ {p} : procs'[q] = procs[q]
BY DEF Become, RecordInv

\* What was backed stays so when requests are only added.
LEMMA BackedStays ==
  ASSUME requests \subseteq requests', NEW r, Backed(r)
  PROVE  Backed(r)'
BY DEF Backed, IsRecord

LEMMA HoldsStays ==
  ASSUME requests \subseteq requests', NEW h, Holds(h)
  PROVE  Holds(h)'
BY BackedStays DEF Holds, IsRecord

\* A step that writes no file.
LEMMA NoFileStep ==
  ASSUME RecordInv, NEW p \in Procs, NEW state, Become(p, state), Holds(state),
         UNCHANGED <<files, requests, lastWord, now>>
  PROVE  RecordInv'
<1>1. \A q \in Procs : Holds(procs'[q])
  BY ProcessSteps DEF RecordInv
<1>2. \A q \in Procs : Holds(procs[q])'
  BY <1>1, HoldsStays
<1>3. \A id \in DOMAIN files : Stands(id)'
  BY BackedStays DEF RecordInv, Stands
<1>4. QED
  BY <1>2, <1>3, ProcessSteps DEF RecordInv

LEMMA NewRecordHolds ==
  ASSUME RecordInv, NEW result
  PROVE  Holds([phase |-> "emptying", record |-> NewRecord(result)])
<1>1. IsRecord(NewRecord(result)) /\ NewRecord(result).status = "pending"
  BY ApprovalConstants DEF RecordInv, IsRecord, NewRecord
<1>2. QED
  BY <1>1 DEF Holds

LEMMA DecisionHolds ==
  ASSUME RecordInv, NEW id \in DOMAIN files, files[id].status # "empty",
         NEW status \in {"approved", "denied"}
  PROVE  Holds([phase |-> "emptying", record |-> Decided(files[id], status), word |-> status])
<1> DEFINE record == files[id]
           decided == Decided(record, status)
<1>1. IsRecord(record) /\ Backed(record)
  BY DEF RecordInv, Stands, Backed
<1>2. /\ decided = [id |-> record.id, status |-> decided.status, expires |-> record.expires,
                    summary |-> record.summary]
      /\ decided.status \in {"expired", status}
  BY <1>1 DEF IsRecord, Decided
<1>3. IsRecord(decided) /\ Backed(decided)
  BY <1>1, <1>2 DEF IsRecord, Backed
<1>4. QED
  BY <1>2, <1>3 DEF Holds

LEMMA EmptyFileStep ==
  ASSUME RecordInv, NEW p \in Procs, EmptyFile(p)
  PROVE  RecordInv'
<1> DEFINE h == procs[p]
           next == [h EXCEPT !.phase = "filling"]
<1>1. /\ h.phase = "emptying" /\ Become(p, next) /\ Holds(h)
      /\ files' = With(files, h.record.id, Empty)
      /\ UNCHANGED <<requests, lastWord, now>>
  BY DEF EmptyFile, RecordInv
<1>2. Holds(next)
  <2>1. CASE h = [phase |-> h.phase, record |-> h.record] /\ h.record.status = "pending"
    <3>1. next = [phase |-> "filling", record |-> h.record]
      BY <2>1
    <3>2. QED
      BY <1>1, <2>1, <3>1 DEF Holds
  <2>2. CASE /\ h = [phase |-> h.phase, record |-> h.record, word |-> h.word]
             /\ Backed(h.record)
             /\ h.record.status = "approved" => h.word = "approved"
    <3>1. next = [phase |-> "filling", record |-> h.record, word |-> h.word]
      BY <2>2
    <3>2. QED
      BY <1>1, <2>2, <3>1 DEF Holds
  <2>3. QED
    BY <1>1, <2>1, <2>2 DEF Holds
<1>3. \A q \in Procs : Holds(procs[q])'
  BY <1>1, <1>2, ProcessSteps, HoldsStays DEF RecordInv
<1>4. \A id \in DOMAIN files' :
        files'[id] = Empty \/ (id \in DOMAIN files /\ files'[id] = files[id])
  BY <1>1 DEF With
<1>5. \A id \in DOMAIN files' : Stands(id)'
  BY <1>1, <1>4, BackedStays DEF RecordInv, Stands, Empty
<1>6. QED
  BY <1>1, <1>3, <1>5, ProcessSteps DEF RecordInv

LEMMA FillFileStep ==
  ASSUME RecordInv, NEW p \in Procs, FillFile(p)
  PROVE  RecordInv'
<1> SUFFICES ASSUME NEW h, h = procs[p]
             PROVE  RecordInv'
  OBVIOUS
<1> DEFINE record == h.record
<1>1. /\ h.phase = "filling" /\ Become(p, Idle) /\ Holds(h)
      /\ files' = With(files, record.id, record)
      /\ now' = now
  BY DEF FillFile, RecordInv
<1>2. requests \subseteq requests'
  BY DEF FillFile
<1>3. Holds(Idle)
  BY DEF Holds, Idle
<1>4. \A q \in Procs : Holds(procs[q])'
  BY <1>1, <1>2, <1>3, ProcessSteps, HoldsStays DEF RecordInv
<1>5. \A id \in DOMAIN files' :
        \/ id = record.id /\ files'[id] = record
        \/ id # record.id /\ id \in DOMAIN files /\ files'[id] = files[id]
  BY <1>1 DEF With
<1>6. /\ Backed(record)'
      /\ record.status = "approved" =>
           record.id \in DOMAIN lastWord' /\ lastWord'[record.id] = "approved"
      /\ \A id \in DOMAIN lastWord :
           id # record.id => id \in DOMAIN lastWord' /\ lastWord'[id] = lastWord[id]
  <2>1. CASE h = [phase |-> h.phase, record |-> h.record] /\ record.status = "pending"
    <3>1. "word" \notin DOMAIN h
      BY <2>1
    <3>2. requests' = requests \cup {record} /\ lastWord' = lastWord
      BY <3>1 DEF FillFile
    <3>3. QED
      BY <1>1, <2>1, <3>2 DEF Holds, Backed, IsRecord
  <2>2. CASE /\ h = [phase |-> h.phase, record |-> h.record, word |-> h.word]
             /\ Backed(record)
             /\ record.status = "approved" => h.word = "approved"
    <3>1. "word" \in DOMAIN h
      BY <2>2
    <3>2. lastWord' = With(lastWord, record.id, h.word)
      BY <3>1 DEF FillFile
    <3>3. /\ record.id \in DOMAIN lastWord' /\ lastWord'[record.id] = h.word
          /\ \A id \in DOMAIN lastWord :
               id # record.id => id \in DOMAIN lastWord' /\ lastWord'[id] = lastWord[id]
      BY <3>2 DEF With
    <3>4. QED
      BY <1>2, <2>2, <3>3, BackedStays
  <2>3. QED
    BY <1>1, <2>1, <2>2 DEF Holds
<1>7. \A id \in DOMAIN files' : Stands(id)'
  BY <1>2, <1>5, <1>6, BackedStays DEF RecordInv, Stands
<1>8. QED
  BY <1>1, <1>4, <1>7, ProcessSteps DEF RecordInv

LEMMA RecordInvariant == Spec => []RecordInv
<1>1. Init => RecordInv
  BY DEF Init, RecordInv, Idle, Holds
<1>2. ASSUME RecordInv, [Next]_vars
      PROVE  RecordInv'
  <2>1. ASSUME NEW p \in Procs, NEW c \in Commands, Run(p, c) \/ Recheck(p, c)
        PROVE  RecordInv'
    <3>1. ASSUME NEW phase, NEW result, phase \notin {"emptying", "filling"}
          PROVE  Holds([phase |-> phase, result |-> result])
      BY <3>1 DEF Holds
    <3>2. CASE Run(p, c)
      BY <1>2, <3>1, <3>2, NoFileStep DEF Run
    <3>3. CASE Recheck(p, c)
      BY <1>2, <3>1, <3>3, NoFileStep DEF Recheck
    <3>4. QED
      BY <2>1, <3>2, <3>3
  <2>2. ASSUME NEW p \in Procs, Ask(p)
        PROVE  RecordInv'
    <3>1. Holds(Idle)
      BY DEF Holds, Idle
    <3>2. QED
      BY <1>2, <2>2, <3>1, NewRecordHolds, NoFileStep DEF Ask
  <2>3. ASSUME NEW p \in Procs, EmptyFile(p) \/ FillFile(p)
        PROVE  RecordInv'
    BY <1>2, <2>3, EmptyFileStep, FillFileStep
  <2>4. ASSUME NEW p \in Procs, Die(p)
        PROVE  RecordInv'
    <3>1. Holds(Idle)
      BY DEF Holds, Idle
    <3>2. QED
      BY <1>2, <2>4, <3>1, NoFileStep DEF Die
  <2>5. ASSUME NEW p \in Procs, NEW id \in DOMAIN files, Verify(p, id)
        PROVE  RecordInv'
    <3>1. Holds(Idle) /\ \A result : Holds([phase |-> "gone", result |-> result, id |-> id])
      BY DEF Holds, Idle
    <3>2. QED
      BY <1>2, <2>5, <3>1, NoFileStep DEF Verify
  <2>6. ASSUME NEW p \in Procs, NEW id \in DOMAIN files,
               NEW status \in {"approved", "denied"}, Review(p, id, status)
        PROVE  RecordInv'
    BY <1>2, <2>6, DecisionHolds, NoFileStep DEF Review
  <2>7. ASSUME SetPolicy \/ Tick \/ UNCHANGED vars
        PROVE  RecordInv'
    <3>1. UNCHANGED <<procs, files, requests, lastWord>> /\ now' \in Nat
      BY <1>2, <2>7 DEF SetPolicy, Tick, vars, RecordInv
    <3>2. QED
      BY <1>2, <3>1, HoldsStays, BackedStays DEF RecordInv, Stands
  <2>8. QED
    BY <1>2, <2>1, <2>2, <2>3, <2>4, <2>5, <2>6, <2>7 DEF Next
<1>3. QED
  BY <1>1, <1>2, PTL DEF Spec

\* Who goes on has just compared an approved record with its decision.
LEMMA GoingOnIsVerified ==
  ASSUME RecordInv, [Next]_vars, NEW p \in Procs, GoesOn(p)
  PROVE  \E id \in DOMAIN files :
           /\ procs'[p].id = id
           /\ Fits(id, procs'[p].result)
           /\ UNCHANGED <<requests, lastWord, now>>
<1>1. ASSUME NEW q \in Procs, NEW state, Become(q, state), state.phase # "gone"
      PROVE  FALSE
  BY <1>1, ProcessSteps DEF GoesOn
<1>2. ASSUME NEW q \in Procs, NEW id \in DOMAIN files, Verify(q, id)
      PROVE  procs'[p].id = id /\ Fits(id, procs'[p].result) /\ UNCHANGED <<requests, lastWord, now>>
  <2>1. Fits(id, procs[q].result)
    BY <1>1, <1>2 DEF Verify, Idle
  <2>2. Become(q, [phase |-> "gone", result |-> procs[q].result, id |-> id])
    BY <1>2, <2>1 DEF Verify
  <2>3. q = p
    BY <2>2, ProcessSteps DEF GoesOn
  <2>4. procs'[p] = [phase |-> "gone", result |-> procs[q].result, id |-> id]
    BY <2>2, <2>3, ProcessSteps
  <2>5. QED
    BY <1>2, <2>1, <2>4 DEF Verify
<1>3. ASSUME NEW q \in Procs, NEW c \in Commands, Run(q, c) \/ Recheck(q, c)
      PROVE  FALSE
  BY <1>1, <1>3 DEF Run, Recheck
<1>4. ASSUME NEW q \in Procs, Ask(q) \/ FillFile(q) \/ Die(q)
      PROVE  FALSE
  BY <1>1, <1>4 DEF Ask, FillFile, Die, Idle
<1>5. ASSUME NEW q \in Procs, EmptyFile(q)
      PROVE  FALSE
  <2>1. Holds(procs[q]) /\ procs[q].phase = "emptying"
    BY <1>5 DEF EmptyFile, RecordInv
  <2>2. [procs[q] EXCEPT !.phase = "filling"].phase # "gone"
    BY <2>1 DEF Holds
  <2>3. QED
    BY <1>1, <1>5, <2>2 DEF EmptyFile
<1>6. ASSUME NEW q \in Procs, NEW id, NEW status, Review(q, id, status)
      PROVE  FALSE
  BY <1>1, <1>6 DEF Review
<1>7. ASSUME SetPolicy \/ Tick \/ UNCHANGED vars
      PROVE  FALSE
  BY <1>7 DEF SetPolicy, Tick, vars, GoesOn
<1>8. QED
  BY <1>2, <1>3, <1>4, <1>5, <1>6, <1>7 DEF Next

\* Who goes on does so for a decision that somebody asked about as it is now.
THEOREM UseWasAskedCorrect == Spec => UseWasAsked
<1>1. ASSUME RecordInv, [Next]_vars, NEW p \in Procs, GoesOn(p)
      PROVE  \E record \in requests : /\ record.id = IdOf(procs'[p].result)
                                      /\ record.summary = Summary(procs'[p].result)
  BY <1>1, GoingOnIsVerified DEF RecordInv, Stands, Backed, Fits
<1>2. RecordInv /\ [Next]_vars =>
        [\A p \in Procs : GoesOn(p) =>
           \E record \in requests : /\ record.id = IdOf(procs'[p].result)
                                    /\ record.summary = Summary(procs'[p].result)]_vars
  BY <1>1
<1>3. QED
  BY <1>2, RecordInvariant, PTL DEF Spec, UseWasAsked

\* Nobody goes on when every request of that decision has expired.
THEOREM ApprovalsLapseCorrect == Spec => ApprovalsLapse
<1>1. ASSUME RecordInv, [Next]_vars, NEW p \in Procs, GoesOn(p)
      PROVE  \E record \in requests : record.id = procs'[p].id /\ now < record.expires
  <2>1. PICK id \in DOMAIN files : procs'[p].id = id /\ Fits(id, procs'[p].result)
    BY <1>1, GoingOnIsVerified
  <2>2. files[id].id = id /\ Backed(files[id]) /\ ~(now >= files[id].expires)
    BY <1>1, <2>1 DEF RecordInv, Stands, Fits, Expired
  <2>3. now < files[id].expires
    BY <1>1, <2>2 DEF RecordInv, Backed, IsRecord
  <2>4. QED
    BY <2>1, <2>2, <2>3 DEF Backed
<1>2. RecordInv /\ [Next]_vars =>
        [\A p \in Procs : GoesOn(p) =>
           \E record \in requests : record.id = procs'[p].id /\ now < record.expires]_vars
  BY <1>1
<1>3. QED
  BY <1>2, RecordInvariant, PTL DEF Spec, ApprovalsLapse

\* Nobody goes on after a denial, however reviews and requests overlap.
THEOREM LastWordHoldsCorrect == Spec => LastWordHolds
<1>1. ASSUME RecordInv, [Next]_vars, NEW p \in Procs, GoesOn(p)
      PROVE  procs'[p].id \in DOMAIN lastWord /\ lastWord[procs'[p].id] = "approved"
  BY <1>1, GoingOnIsVerified DEF RecordInv, Stands, Fits
<1>2. RecordInv /\ [Next]_vars =>
        [\A p \in Procs : GoesOn(p) =>
           procs'[p].id \in DOMAIN lastWord /\ lastWord[procs'[p].id] = "approved"]_vars
  BY <1>1
<1>3. QED
  BY <1>2, RecordInvariant, PTL DEF Spec, LastWordHolds
=============================================================================
