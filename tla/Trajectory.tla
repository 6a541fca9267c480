----------------------------- MODULE Trajectory -----------------------------
(***************************************************************************)
(* evaluate_trajectory (trajectory.py): the verdict on a run of actions.   *)
(*                                                                         *)
(* An action is what the evaluator says of it and what the heuristics of   *)
(* the module see in its text.  The contract is in the signs: "breach" is  *)
(* an action that breaks it by itself (actor, delegation, target, scope or *)
(* output channel).  The finding about repeated blocked actions is left    *)
(* out: a run it is raised for is blocked already.                         *)
(***************************************************************************)
EXTENDS Naturals, Sequences, FiniteSets

CONSTANTS
  MaxUnknown,      \* max_unknown_actions, or NoLimit
  NoLimit,
  AllowUnknown     \* allow_unknown

ASSUME TrajectoryConstants ==
  /\ MaxUnknown \in Nat \cup {NoLimit} /\ NoLimit \notin Nat
  /\ AllowUnknown \in BOOLEAN

Verdicts == {"allow", "unknown", "pending_approval", "block", "error"}

\* sensitive: names secret-like material; source: reads or derives it.
Signs == {"breach", "sensitive", "source", "egress", "export"}

\* The files an action fetches from outside, and the ones it runs, are names that
\* _normalize_artifact_reference has brought to one spelling.
Action ==
  [verdict : Verdicts, signs : SUBSET Signs, downloads : SUBSET STRING, executes : SUBSET STRING]

Some(run, v) == \E i \in DOMAIN run : run[i].verdict = v

\* An action of the second kind comes after one of the first.
Then(run, first, second) ==
  \E i, j \in DOMAIN run : i < j /\ first \in run[i].signs /\ second \in run[j].signs

\* What one action has fetched a later one runs.
RunsDownload(run) ==
  \E i, j \in DOMAIN run : i < j /\ run[i].downloads \cap run[j].executes # {}

\* An action the contract of the run does not let it take.
Breach(run) == \E i \in DOMAIN run : "breach" \in run[i].signs

\* One action names a secret and sends.
DirectLeak(run) == \E i \in DOMAIN run : {"sensitive", "egress"} \subseteq run[i].signs

\* A finding whose response is "block".
BlockFinding(run) ==
  \/ Breach(run) \/ DirectLeak(run)
  \/ Then(run, "source", "egress")
  \/ Then(run, "export", "egress")
  \/ RunsDownload(run)

\* A finding whose response is "approval".
ApprovalFinding(run) ==
  /\ MaxUnknown # NoLimit
  /\ Cardinality({i \in DOMAIN run : run[i].verdict = "unknown"}) > MaxUnknown

\* _trajectory_verdict.
Verdict(run) ==
  CASE Some(run, "error") -> "error"
    [] ~Some(run, "error") /\ (Some(run, "block") \/ BlockFinding(run)) -> "block"
    [] OTHER ->
         IF Some(run, "pending_approval") \/ ApprovalFinding(run) THEN "pending_approval"
         ELSE IF Some(run, "unknown") THEN "unknown" ELSE "allow"

\* _verdict_allowed.
VerdictAllowed(v) == v = "allow" \/ (AllowUnknown /\ v = "unknown")
=============================================================================
