----------------------------- MODULE RuntimeGate -----------------------------
(***************************************************************************)
(* RuntimeGate (src/agent_circuit_breaker/runtime.py): one run, the calls   *)
(* made on it, and the workers that execute what it authorizes.            *)
(*                                                                         *)
(* Every method of RuntimeGate is one store.update(run_id, updater): the    *)
(* updater sees the whole state and its result replaces it under a lock    *)
(* (InMemoryRunStore) or in one BEGIN IMMEDIATE transaction                 *)
(* (SQLiteRunStore), so a method is one atomic action here, and an updater  *)
(* that raises leaves the run as it was: no step.  What is not atomic is   *)
(* execute_authorized / execute_approved: the "started" event is committed, *)
(* then the executor runs outside any lock, then the outcome is committed; *)
(* anything may happen in between, the end of the process included.        *)
(***************************************************************************)
EXTENDS RunLog, FiniteSets

CONSTANTS
  Contract,     \* [Policies -> contract]: see ContractType
  Principal,    \* [Actions -> identity the action is made in the name of]
  Workers,      \* coroutines or processes that call execute_*
  Steady,       \* the workers that are never lost in the middle of a call
  RunExpiry,    \* expires_at of the run
  ApprovalTTL,  \* ttl_seconds of a granted approval
  Durable,      \* TRUE for SQLiteRunStore, FALSE for InMemoryRunStore
  Controls,     \* operator calls the environment makes
  Wordings,     \* what the callers who must give a reason write as one
  MaxTime,      \* bound on the clock
  MaxEvents     \* bound on the log, outcomes and reconciliations excepted

ControlKinds == {"suspend", "resume", "cancel", "revoke", "contract",
                 "outcome", "clock"}

\* RunContract: the parts the gate itself reads.  validUntil[act] is the time
\* from which _actor_token_valid or _authority_error refuses the action, 0 when
\* its tokens or its capability are wrong from the start.
ContractType ==
  [maxActions   : Nat,
   approval     : SUBSET Actions,      \* _approval_required
   selfApproval : BOOLEAN,             \* allow_self_approval
   validUntil   : [Actions -> Nat]]

ASSUME GateConstants ==
  /\ Contract \in [Policies -> ContractType]
  /\ DOMAIN Principal = Actions
  /\ RunExpiry \in Nat /\ ApprovalTTL \in Nat \ {0}
  /\ Durable \in BOOLEAN
  /\ Steady \subseteq Workers
  /\ Controls \subseteq ControlKinds
  /\ Wordings \subseteq Reasons
  /\ MaxTime \in Nat /\ MaxEvents \in Nat

VARIABLES
  events,       \* RuntimeState.events
  status,       \* RuntimeState.status
  lastReason,   \* RuntimeState.last_reason
  policy,       \* the contract the store holds for the run
  now,          \* the gate's clock
  pc,           \* where each worker is in execute_authorized/_approved
  task,         \* the authorization each busy worker consumed
  invoked       \* history: authorizations whose executor has been called

runVars == <<events, status, lastReason>>
workerVars == <<pc, task, invoked>>
vars == <<events, status, lastReason, policy, now, pc, task, invoked>>

Statuses == {"active", "blocked", "suspended", "cancelled", "expired"}

TypeOK ==
  /\ events \in Seq(EventType)
  /\ status \in Statuses
  /\ lastReason \in Reasons
  /\ policy \in Policies
  /\ now \in Nat
  /\ pc \in [Workers -> {"idle", "started", "running"}]
  /\ task \in [Workers -> Nat]
  /\ invoked \subseteq Nat

\* create_run, as far as its caller sees a run at all
Init ==
  /\ events = <<>>
  /\ status = "active"
  /\ lastReason = "none"
  /\ policy \in Policies
  /\ now = 0
  /\ pc = [w \in Workers |-> "idle"]
  /\ task = [w \in Workers |-> 0]
  /\ invoked = {}

-----------------------------------------------------------------------------
\* Store.update: the new log, status and reason replace the old ones.  SQLite
\* refuses a log that fails _validate_state_integrity; nothing is stored then.
Accepts(log) == Durable => ValidLog(log)

Commit(log, newStatus, reason) ==
  /\ Accepts(log)
  /\ events' = log
  /\ status' = newStatus
  /\ lastReason' = reason

Room(n) == Len(events) + n <= MaxEvents

Ev(type) == Event(type, policy, now)

\* The clauses of _precheck_state, in its order.
Live == status = "active" /\ now < RunExpiry

\* Mutant: off by one.
WithinBudgetOrAt ==
  Cardinality(ActionRecords(events)) <= Contract[policy].maxActions

WithinBudget ==
  Cardinality(ActionRecords(events)) < Contract[policy].maxActions

Authentic(act) == now < Contract[policy].validUntil[act]

Precheck(act) ==
  /\ Live
  /\ WithinBudget
  /\ ~HasUncertain(events)
  /\ ~HasUnresolved(events)
  /\ Authentic(act)

ApprovalRequired(act) == act \in Contract[policy].approval

-----------------------------------------------------------------------------
(* propose_action.  Each refusal is recorded as a proposal too.            *)

Refuse(act, newStatus, reason) ==
  /\ Room(1)
  /\ Commit(Append(events, [Ev("proposal") EXCEPT !.action = act, !.reason = reason]),
            newStatus, reason)
  /\ UNCHANGED <<policy, now, workerVars>>

RefuseInactive(act) == status # "active" /\ Refuse(act, status, "inactive")

RefuseExpired(act) ==
  status = "active" /\ now >= RunExpiry /\ Refuse(act, "expired", "other")

RefuseBudget(act) == Live /\ ~WithinBudget /\ Refuse(act, "blocked", "other")

RefuseUncertain(act) ==
  /\ Live /\ WithinBudget /\ HasUncertain(events)
  /\ Refuse(act, "blocked", "uncertain")

RefuseUnresolved(act) ==
  /\ Live /\ WithinBudget /\ ~HasUncertain(events) /\ HasUnresolved(events)
  /\ Refuse(act, "blocked", "unresolved")

RefuseUnauthentic(act) ==
  /\ Live /\ WithinBudget /\ ~HasUncertain(events) /\ ~HasUnresolved(events)
  /\ ~Authentic(act)
  /\ Refuse(act, "blocked", "other")

\* The trajectory verdict is not "allow".  What evaluate_trajectory says of a
\* history is left open here: it may refuse any action.
RefuseTrajectory(act) == Precheck(act) /\ Refuse(act, "blocked", "other")

\* Allowed, but the contract asks for an approval first: PENDING_APPROVAL.
HoldForApproval(act) ==
  Precheck(act) /\ ApprovalRequired(act) /\ Refuse(act, "active", "other")

Authorize(act) ==
  /\ Precheck(act) /\ ~ApprovalRequired(act) /\ Room(1)
  /\ Commit(Append(events, [Ev("proposal") EXCEPT
                              !.action = act, !.authorized = TRUE,
                              !.auth = Len(events) + 1]),
            "active", "other")
  /\ UNCHANGED <<policy, now, workerVars>>

Propose(act) ==
  \/ RefuseInactive(act)   \/ RefuseExpired(act)    \/ RefuseBudget(act)
  \/ RefuseUncertain(act)  \/ RefuseUnresolved(act) \/ RefuseUnauthentic(act)
  \/ RefuseTrajectory(act) \/ HoldForApproval(act)  \/ Authorize(act)

-----------------------------------------------------------------------------
(* Approvals.                                                              *)

\* grant_approval.  Its reason, as that of the calls below, is the caller's text and
\* becomes last_reason.
GrantApproval(act, approver, reason) ==
  /\ Precheck(act) /\ ApprovalRequired(act) /\ Room(1)
  /\ Contract[policy].selfApproval \/ Principal[act] # approver
  /\ Commit(Append(events, [Ev("approval") EXCEPT
                              !.action = act, !.authorized = TRUE,
                              !.approval = Len(events) + 1,
                              !.expires = now + ApprovalTTL,
                              !.approver = approver, !.reason = reason]),
            status, reason)
  /\ UNCHANGED <<policy, now, workerVars>>

\* revoke_approval looks at nothing but the identifier it is given.
RevokeApproval(p, reason) ==
  /\ p \in Positions(events, "approval") /\ Room(1)
  /\ Commit(Append(events, [Ev("approval_revocation") EXCEPT
                              !.approval = p, !.reason = reason]),
            status, reason)
  /\ UNCHANGED <<policy, now, workerVars>>

-----------------------------------------------------------------------------
(* execute_authorized and execute_approved, run by a worker.               *)

StartedEvent(act, a, p, issuedUnder) ==
  [Ev("started") EXCEPT !.action = act, !.authorized = TRUE, !.auth = a,
                        !.approval = p, !.policy = issuedUnder]

BeginTask(w, a) ==
  /\ pc[w] = "idle"
  /\ pc' = [pc EXCEPT ![w] = "started"]
  /\ task' = [task EXCEPT ![w] = a]
  /\ UNCHANGED <<policy, now, invoked>>

\* Mutant: the policy fingerprint is not compared.
AnyContract(a) == TRUE

\* The contract has not been replaced since authorization a was issued.
SameContract(a) == events[a].policy = policy

\* _mark_execution_started.  Any caller that knows the identifier may try.
StartAuthorized(w, a) ==
  /\ Live /\ Room(1)
  /\ OpenForExecution(events, a)
  /\ ~Started(events, a)
  /\ SameContract(a)
  /\ Commit(Append(events, StartedEvent(events[a].action, a, 0, events[a].policy)),
            status, lastReason)
  /\ BeginTask(w, a)

\* _mark_approved_execution_started: three events in one update.  The trajectory
\* is evaluated again and may refuse: then nothing happens.
StartApproved(w, act, p) ==
  /\ Precheck(act) /\ ApprovalRequired(act) /\ Room(3)
  /\ OpenApproval(events, p, act, policy, now)
  /\ LET a        == Len(events) + 2
         consumed == [Ev("approval_consumed") EXCEPT
                        !.action = act, !.authorized = TRUE, !.approval = p]
         proposal == [Ev("proposal") EXCEPT
                        !.action = act, !.authorized = TRUE, !.auth = a,
                        !.approval = p]
     IN /\ Commit(Append(Append(Append(events, consumed), proposal),
                         StartedEvent(act, a, p, policy)),
                  status, lastReason)
        /\ BeginTask(w, a)

\* The executor is called with the action of the started event.
CallExecutor(w) ==
  /\ pc[w] = "started"
  /\ pc' = [pc EXCEPT ![w] = "running"]
  /\ invoked' = invoked \cup {task[w]}
  /\ UNCHANGED <<runVars, policy, now, task>>

OutcomeEvent(a, outcome) ==
  [Ev("outcome") EXCEPT !.authorized = TRUE, !.auth = a, !.outcome = outcome,
                        !.policy = events[a].policy]

EndTask(w) ==
  /\ pc[w] = "running"
  /\ pc' = [pc EXCEPT ![w] = "idle"]
  /\ task' = [task EXCEPT ![w] = 0]
  /\ UNCHANGED <<policy, now, invoked>>

\* The executor returned, raised, or was cancelled (a timeout of
\* RuntimeToolExecutor.execute); the outcome is recorded.
FinishExecution(w, outcome) ==
  /\ OpenForOutcome(events, task[w])
  /\ Commit(Append(events, OutcomeEvent(task[w], outcome)), status, lastReason)
  /\ EndTask(w)

\* record_outcome raises: somebody recorded an outcome already, or the store
\* refuses the event.
FinishRefused(w) ==
  /\ ~ (/\ OpenForOutcome(events, task[w])
        /\ Accepts(Append(events, OutcomeEvent(task[w], "executed"))))
  /\ EndTask(w)
  /\ UNCHANGED runVars

\* The worker is gone without an outcome: its process died, or its coroutine was
\* cancelled while it waited for the store.  Between the commit of "started" and
\* the call there is a point to die at only when the store runs in a thread.
Abandon(w) ==
  /\ w \notin Steady
  /\ pc[w] = "running" \/ (pc[w] = "started" /\ Durable)
  /\ pc' = [pc EXCEPT ![w] = "idle"]
  /\ task' = [task EXCEPT ![w] = 0]
  /\ UNCHANGED <<runVars, policy, now, invoked>>

-----------------------------------------------------------------------------
(* Calls of the trusted integration and of operators.                      *)

\* record_outcome called directly, for any authorization it matches.
RecordOutcome(a, outcome) ==
  /\ "outcome" \in Controls /\ Room(1)
  /\ OpenForOutcome(events, a)
  /\ Commit(Append(events, OutcomeEvent(a, outcome)), status, lastReason)
  /\ UNCHANGED <<policy, now, workerVars>>

\* Mutant: only a blocked run is reconciled.
ReconcilableIfBlocked(a) ==
  Started(events, a) /\ ~Reconciled(events, a) /\ status = "blocked"

\* A definite outcome does not stand in the way, an earlier reconciliation does.
Reconcilable(a) == Started(events, a) /\ ~Reconciled(events, a)

\* Mutant: the reason of the block is not looked at.
StatusAfterAnyBlock == IF status = "blocked" THEN "active" ELSE status

\* Mutant: every reconciliation reopens the run.
StatusAlwaysActive == "active"

\* Mutant: a status of its own.
StatusReconciled == "reconciled"

StatusAfterReconcile ==
  IF status = "blocked" /\ lastReason \in {"unresolved", "uncertain"}
    THEN "active" ELSE status

Reconcile(a, outcome) ==
  /\ Reconcilable(a)
  /\ Commit(Append(events, [Ev("reconciliation") EXCEPT
                              !.action = events[a].action, !.authorized = TRUE,
                              !.auth = a, !.outcome = outcome,
                              !.policy = events[a].policy,
                              !.approval = events[a].approval]),
            StatusAfterReconcile, "other")
  /\ UNCHANGED <<policy, now, workerVars>>

Control(kind, type, newStatus, reason) ==
  /\ kind \in Controls /\ Room(1)
  /\ Commit(Append(events, [Ev(type) EXCEPT !.reason = reason]), newStatus, reason)
  /\ UNCHANGED <<policy, now, workerVars>>

\* suspend_run and cancel_run accept a run in any status.
SuspendRun(reason) == Control("suspend", "suspension", "suspended", reason)
CancelRun(reason) == Control("cancel", "cancel", "cancelled", reason)
ResumeRun(reason) ==
  status = "suspended" /\ Control("resume", "resume", "active", reason)

\* a = 0 and act = NoAction stand for the filters that are not given.
RevokeAuthorizations(a, act, reason) ==
  /\ "revoke" \in Controls /\ Room(1)
  /\ Commit(Append(events, [Ev("revocation") EXCEPT
                              !.auth = a, !.action = act, !.reason = reason]),
            status, reason)
  /\ UNCHANGED <<policy, now, workerVars>>

\* store.set_contract on a run in use: the events keep their old fingerprints.
SetContract(p) ==
  /\ "contract" \in Controls /\ p # policy
  /\ policy' = p
  /\ UNCHANGED <<runVars, now, workerVars>>

Tick ==
  /\ now < MaxTime
  /\ now' = now + 1
  /\ UNCHANGED <<runVars, policy, workerVars>>

\* time.time is not monotonic.
StepBack ==
  /\ "clock" \in Controls /\ now > 0
  /\ now' = now - 1
  /\ UNCHANGED <<runVars, policy, workerVars>>

-----------------------------------------------------------------------------
WorkerStep(w) ==
  \/ \E a \in Issued(events) : StartAuthorized(w, a)
  \/ \E act \in Actions, p \in Positions(events, "approval") : StartApproved(w, act, p)
  \/ CallExecutor(w)
  \/ \E outcome \in Outcomes \ {"skipped"} : FinishExecution(w, outcome)
  \/ FinishRefused(w)

OperatorStep ==
  \/ \E reason \in Wordings :
       \/ \E act \in Actions, who \in Approvers : GrantApproval(act, who, reason)
       \/ \E p \in Positions(events, "approval") : RevokeApproval(p, reason)
       \/ SuspendRun(reason) \/ ResumeRun(reason) \/ CancelRun(reason)
       \/ \E a \in Issued(events) \cup {0}, act \in Actions \cup {NoAction} :
            RevokeAuthorizations(a, act, reason)
  \/ \E a \in Issued(events), outcome \in Outcomes : RecordOutcome(a, outcome)
  \/ \E a \in Issued(events), outcome \in Outcomes : Reconcile(a, outcome)
  \/ \E p \in Policies : SetContract(p)

Next ==
  \/ \E act \in Actions : Propose(act)
  \/ \E w \in Workers : WorkerStep(w) \/ Abandon(w)
  \/ OperatorStep
  \/ Tick
  \/ StepBack

Spec == Init /\ [][Next]_vars
=============================================================================
