--------------------------- MODULE RuntimeGateProps ---------------------------
(***************************************************************************)
(* What RuntimeGate promises about one run, over every interleaving of     *)
(* callers, workers, operators, abandoned executions and policy changes.   *)
(***************************************************************************)
EXTENDS RuntimeGate

Busy(w) == pc[w] # "idle"

\* An authorization buys at most one call of the executor: two workers never
\* hold the same one, and a worker about to call the executor holds one whose
\* executor has never been called, whatever was retried or abandoned before.
ExecutesOnce ==
  /\ \A v, w \in Workers :
       v # w /\ Busy(v) /\ Busy(w) => task[v] # task[w]
  /\ \A w \in Workers : pc[w] = "started" => task[w] \notin invoked

\* Why it holds: whatever a worker holds or has called is in the log as started,
\* and the next authorization is none of those.
ExecutionInv ==
  /\ TypeOK
  /\ ExecutesOnce
  /\ AuthsOf(events, "started") \subseteq 1..Len(events)
  /\ invoked \subseteq AuthsOf(events, "started")
  /\ \A w \in Workers : Busy(w) => task[w] \in AuthsOf(events, "started")

\* No sequence of calls builds a log whose references _validate_state_integrity
\* would refuse: the memory store never validates, so the gate itself has to
\* keep starts, outcomes, reconciliations and consumptions paired and ordered.
LogReferencesSound == ReferencesSound(events)

\* The gate never authorizes a new action while the effect of an earlier call is
\* unknown: nobody recorded how it ended, or "unknown" was recorded and nobody
\* reconciled it.  (propose_action and execute_approved; invoked is the history of
\* calls, not the log the code scans.)
NoIssueOverOpenEffect ==
  [][Issued(events') # Issued(events) =>
       \A a \in invoked :
         \/ Reconciled(events, a)
         \/ \E i \in Positions(events, "outcome") :
              /\ events[i].auth = a
              /\ events[i].outcome # "unknown_execution_status"]_vars

StartsNow(w) == pc[w] = "idle" /\ pc'[w] = "started"

\* What runs is what was approved: an action that the contract in force when it
\* starts asks an approval for starts in the commit that consumes a grant which
\* some other identity gave for this action under this contract, which has not
\* expired, and which nothing has revoked or consumed before.  An authorization
\* issued without approval under a laxer contract does not get around it.
ApprovedBeforeStart ==
  [][\A w \in Workers : StartsNow(w) =>
       LET act == events'[Len(events')].action
       IN act \in Contract[policy].approval =>
            \E p \in Positions(events, "approval") :
              /\ events'[Len(events) + 1].type = "approval_consumed"
              /\ events'[Len(events) + 1].approval = p
              /\ events[p].action = act /\ events[p].policy = policy
              /\ now < events[p].expires
              /\ \/ Contract[policy].selfApproval
                 \/ events[p].approver # Principal[act]
              /\ \A i \in DOMAIN events :
                   events[i].type \in {"approval_consumed", "approval_revocation"}
                     => events[i].approval # p]_vars

\* An authorization starts only while it is fresh: no revocation that covers it
\* and no reconciliation of another execution came between its issue and its
\* start.
StartsAreFresh ==
  \A s \in Positions(events, "started") :
    LET a == events[s].auth
    IN \A r \in a..s :
         /\ events[r].type = "revocation" =>
              \/ events[r].auth \notin {0, a}
              \/ events[r].action \notin {NoAction, events[a].action}
         /\ events[r].type = "reconciliation" => events[r].auth = a

StopTypes == {"suspension", "cancel", "resume"}

\* The stop or resume last recorded before position i, 0 if there is none.
LastStop(i) ==
  LET stops == {j \in DOMAIN events : j < i /\ events[j].type \in StopTypes}
  IN IF stops = {} THEN 0 ELSE CHOOSE j \in stops : \A k \in stops : k <= j

\* The status is what the log says: suspended or cancelled exactly when the last
\* suspension, cancellation or resume says so, whatever refusals, outcomes and
\* reconciliations came after it; and nothing was started in between.
StopsAreHonoured ==
  LET last == LastStop(Len(events) + 1)
      in(type) == last # 0 /\ events[last].type = type
  IN /\ status = "suspended" <=> in("suspension")
     /\ status = "cancelled" <=> in("cancel")
     /\ \A s \in Positions(events, "started") :
          LastStop(s) # 0 => events[LastStop(s)].type = "resume"

\* max_actions bounds what a contract can authorize, refused proposals using up
\* the budget too, across approvals and changes of contract.
BudgetRespected ==
  \A q \in Policies :
    Cardinality({i \in Issued(events) : events[i].policy = q})
      <= Contract[q].maxActions

\* A reconciliation releases only a run of which the last thing said, outcomes aside, is
\* that an execution of it is unresolved or uncertain.  A policy, budget or credential
\* refusal that blocked it, or any refusal since, keeps it blocked, however many executions
\* are reconciled.  Said by whom is not looked at: last_reason is a text, so a revocation
\* that its caller happens to word like the gate's own refusal opens the way too.
ReleasesOnlyUncertainty ==
  [][(status = "blocked" /\ status' = "active") =>
       \E i \in DOMAIN events :
         /\ events[i].type \in {"proposal", "revocation", "approval_revocation"}
         /\ events[i].reason \in {"uncertain", "unresolved"}
         /\ \A j \in (i+1)..Len(events) : events[j].type = "outcome"]_vars

-----------------------------------------------------------------------------
(* Liveness.  The event loop runs a ready coroutine and an executor ends    *)
(* (timeout_seconds cancels one that does not); nothing forces a caller, an *)
(* operator or a crash to come.                                             *)

WorkerFairness ==
  \A w \in Workers :
    WF_vars(\/ CallExecutor(w)
            \/ FinishRefused(w)
            \/ \E outcome \in Outcomes \ {"skipped"} : FinishExecution(w, outcome))

\* An operator keeps reconciling what is unresolved.
RecoverySpec ==
  /\ Spec /\ WorkerFairness
  /\ WF_vars(\E a \in UnresolvedAuths(events) : Reconcile(a, "failed"))

\* An execution whose worker is not lost gets its outcome, whatever is revoked,
\* cancelled, suspended, reconciled or recorded by others while it runs, as long as the
\* clock does not step back ("clock" \notin Controls: SQLiteRunStore refuses an outcome
\* that would be older than the last event).
SteadyStartsGetOutcome ==
  \A w \in Steady, a \in 1..MaxEvents :
    (Busy(w) /\ task[w] = a) ~> HasOutcome(events, a)

\* Every start is accounted for in the end, also one whose worker was lost, and in
\* whatever status the run was left.
StartsAreAccounted ==
  \A a \in 1..MaxEvents :
    Started(events, a) ~> (HasOutcome(events, a) \/ Reconciled(events, a))

-----------------------------------------------------------------------------
(* What the documentation says and the code does not do.                   *)

\* README.md:149: unresolved execution states fail before the executor is called.
NoStartOverUnresolved ==
  [][\A w \in Workers :
       StartsNow(w) => ~HasUnresolved(events) /\ ~HasUncertain(events)]_vars

\* ADR-0003: cancellation must prevent later authorization consumption.
CancellationIsFinal ==
  \A s \in Positions(events, "started") :
    \A c \in Positions(events, "cancel") : s < c
=============================================================================
