-------------------------- MODULE RuntimeGateProofs --------------------------
(***************************************************************************)
(* Proofs about RuntimeGate for every number of actions, workers, contracts *)
(* and events.                                                             *)
(***************************************************************************)
EXTENDS RuntimeGateProps, TLAPS

-----------------------------------------------------------------------------
(* Scans of a log after one more event.                                    *)

LEMMA PositionsOfAppend ==
  ASSUME NEW log \in Seq(EventType), NEW e \in EventType, NEW type
  PROVE  Positions(Append(log, e), type) =
           IF e.type = type THEN Positions(log, type) \cup {Len(log) + 1}
                            ELSE Positions(log, type)
BY DEF Positions

LEMMA AuthsOfAppend ==
  ASSUME NEW log \in Seq(EventType), NEW e \in EventType, NEW type
  PROVE  AuthsOf(Append(log, e), type) =
           IF e.type = type THEN AuthsOf(log, type) \cup {e.auth}
                            ELSE AuthsOf(log, type)
<1> DEFINE longer == Append(log, e)
<1>1. /\ \A i \in Positions(log, type) : longer[i] = log[i]
      /\ longer[Len(log) + 1] = e
  BY DEF Positions
<1>2. Positions(longer, type) =
        IF e.type = type THEN Positions(log, type) \cup {Len(log) + 1}
                         ELSE Positions(log, type)
  BY PositionsOfAppend
<1> HIDE DEF longer
<1>3. \A x : x \in AuthsOf(longer, type) <=>
             \/ x \in AuthsOf(log, type)
             \/ e.type = type /\ x = e.auth
  <2>1. CASE e.type = type
    BY <1>1, <1>2, <2>1 DEF AuthsOf
  <2>2. CASE e.type # type
    BY <1>1, <1>2, <2>2 DEF AuthsOf
  <2>3. QED
    BY <2>1, <2>2
<1>4. QED
  BY <1>3 DEF longer

LEMMA EventIsTyped ==
  ASSUME NEW type \in EventTypes, NEW p \in Policies, NEW t \in Nat
  PROVE  Event(type, p, t) \in EventType
BY DEF Event, EventType, Reasons, Outcomes

-----------------------------------------------------------------------------
(* Every step of the gate has one of five shapes.                          *)

\* One event was committed; workers and contract are as they were.
LogStep(e) ==
  /\ e \in EventType
  /\ events' = Append(events, e)
  /\ status' \in Statuses
  /\ lastReason' \in Reasons
  /\ UNCHANGED <<policy, now>>

\* An event that is neither a start nor an authorization; calls of operators and
\* callers.
PlainStep ==
  /\ UNCHANGED workerVars
  /\ \E e \in EventType :
       LogStep(e) /\ e.type # "started" /\ (e.type = "proposal" => ~e.authorized)

LEMMA RefuseIsPlain ==
  ASSUME TypeOK, NEW act \in Actions, NEW newStatus \in Statuses,
         NEW reason \in Reasons, Refuse(act, newStatus, reason)
  PROVE  PlainStep
<1> DEFINE e == [Ev("proposal") EXCEPT !.action = act, !.reason = reason]
<1>1. e \in EventType /\ e.type = "proposal" /\ ~e.authorized
  BY DEF TypeOK, Ev, Event, EventType, EventTypes, Reasons, Outcomes
<1>2. events' = Append(events, e) /\ status' = newStatus /\ lastReason' = reason
  BY DEF Refuse, Commit
<1>3. UNCHANGED <<policy, now>> /\ UNCHANGED workerVars
  BY DEF Refuse
<1> HIDE DEF e
<1>4. LogStep(e)
  BY <1>1, <1>2, <1>3 DEF LogStep
<1>5. QED
  BY <1>1, <1>3, <1>4 DEF PlainStep

LEMMA ProposeShape ==
  ASSUME TypeOK, NEW act \in Actions, Propose(act)
  PROVE  PlainStep \/ Authorize(act)
<1>1. status \in Statuses /\ {"inactive", "uncertain", "unresolved", "other"} \subseteq Reasons
  BY DEF TypeOK, Reasons
<1>2. {"active", "blocked", "expired"} \subseteq Statuses
  BY DEF Statuses
<1>3. CASE RefuseInactive(act)
  BY <1>1, <1>3, RefuseIsPlain DEF RefuseInactive
<1>4. CASE RefuseExpired(act)
  BY <1>1, <1>2, <1>4, RefuseIsPlain DEF RefuseExpired
<1>5. CASE RefuseBudget(act)
  BY <1>1, <1>2, <1>5, RefuseIsPlain DEF RefuseBudget
<1>6. CASE RefuseUncertain(act)
  BY <1>1, <1>2, <1>6, RefuseIsPlain DEF RefuseUncertain
<1>7. CASE RefuseUnresolved(act)
  BY <1>1, <1>2, <1>7, RefuseIsPlain DEF RefuseUnresolved
<1>8. CASE RefuseUnauthentic(act)
  BY <1>1, <1>2, <1>8, RefuseIsPlain DEF RefuseUnauthentic
<1>9. CASE RefuseTrajectory(act)
  BY <1>1, <1>2, <1>9, RefuseIsPlain DEF RefuseTrajectory
<1>10. CASE HoldForApproval(act)
  BY <1>1, <1>2, <1>10, RefuseIsPlain DEF HoldForApproval
<1>11. QED
  BY <1>3, <1>4, <1>5, <1>6, <1>7, <1>8, <1>9, <1>10 DEF Propose

LEMMA AuthorizeShape ==
  ASSUME TypeOK, NEW act \in Actions, Authorize(act)
  PROVE  /\ UNCHANGED workerVars
         /\ Precheck(act)
         /\ \E e \in EventType :
              /\ LogStep(e)
              /\ e.type = "proposal" /\ e.authorized /\ e.auth = Len(events) + 1
              /\ e.policy = policy
<1> DEFINE e == [Ev("proposal") EXCEPT !.action = act, !.authorized = TRUE,
                                       !.auth = Len(events) + 1]
<1>1. /\ e \in EventType /\ e.type = "proposal" /\ e.authorized
      /\ e.auth = Len(events) + 1 /\ e.policy = policy
  <2>1. Len(events) + 1 \in Nat /\ now \in Nat /\ policy \in Policies
    BY DEF TypeOK
  <2>2. QED
    BY <2>1 DEF Ev, Event, EventType, EventTypes, Reasons, Outcomes
<1>2. events' = Append(events, e) /\ status' = "active" /\ lastReason' = "other"
  BY DEF Authorize, Commit
<1>3. UNCHANGED <<policy, now>> /\ UNCHANGED workerVars /\ Precheck(act)
  BY DEF Authorize
<1> HIDE DEF e
<1>4. LogStep(e)
  BY <1>1, <1>2, <1>3 DEF LogStep, Statuses, Reasons
<1>5. QED
  BY <1>1, <1>3, <1>4

\* The started event carries its authorization, whatever else was committed.
LEMMA StartedEventIsTyped ==
  ASSUME TypeOK, NEW act \in Actions \cup {NoAction}, NEW a \in Nat, NEW p \in Nat,
         NEW q \in Policies
  PROVE  /\ StartedEvent(act, a, p, q) \in EventType
         /\ StartedEvent(act, a, p, q).type = "started"
         /\ StartedEvent(act, a, p, q).auth = a
BY DEF TypeOK, StartedEvent, Ev, Event, EventType, EventTypes, Reasons, Outcomes

LEMMA StartAuthorizedShape ==
  ASSUME TypeOK, NEW w \in Workers, NEW a \in Issued(events), StartAuthorized(w, a)
  PROVE  /\ BeginTask(w, a)
         /\ a \in 1..Len(events) /\ a \notin AuthsOf(events, "started")
         /\ \E e \in EventType : LogStep(e) /\ e.type = "started" /\ e.auth = a
<1> DEFINE e == StartedEvent(events[a].action, a, 0, events[a].policy)
<1>1. a \in 1..Len(events) /\ a \in Nat /\ 0 \in Nat /\ events[a] \in EventType
  BY DEF TypeOK, Issued, Positions
<1>2. events[a].action \in Actions \cup {NoAction} /\ events[a].policy \in Policies
  BY <1>1 DEF EventType
<1>3. e \in EventType /\ e.type = "started" /\ e.auth = a
  <2> DEFINE act == events[a].action
             q   == events[a].policy
  <2>1. act \in Actions \cup {NoAction} /\ q \in Policies /\ a \in Nat /\ 0 \in Nat
    BY <1>1, <1>2
  <2> HIDE DEF act, q
  <2>2. /\ StartedEvent(act, a, 0, q) \in EventType
        /\ StartedEvent(act, a, 0, q).type = "started" /\ StartedEvent(act, a, 0, q).auth = a
    BY <2>1, StartedEventIsTyped
  <2>3. QED
    BY <2>2 DEF act, q
<1>4. /\ events' = Append(events, e) /\ status' = status /\ lastReason' = lastReason
      /\ BeginTask(w, a) /\ a \notin AuthsOf(events, "started")
  BY DEF StartAuthorized, Commit, Started
<1> HIDE DEF e
<1>5. LogStep(e)
  BY <1>3, <1>4 DEF LogStep, TypeOK, BeginTask
<1>6. QED
  BY <1>1, <1>3, <1>4, <1>5

LEMMA StartApprovedShape ==
  ASSUME TypeOK, NEW w \in Workers, NEW act \in Actions,
         NEW p \in Positions(events, "approval"), StartApproved(w, act, p)
  PROVE  /\ BeginTask(w, Len(events) + 2)
         /\ Precheck(act)
         /\ status' = status /\ lastReason' = lastReason
         /\ \E c, q, s \in EventType :
              /\ events' = Append(Append(Append(events, c), q), s)
              /\ c.type = "approval_consumed" /\ c.approval = p
              /\ q.type = "proposal" /\ q.authorized /\ q.policy = policy
              /\ q.auth = Len(events) + 2
              /\ s.type = "started" /\ s.auth = Len(events) + 2
              /\ s.action = act
<1> DEFINE a == Len(events) + 2
           c == [Ev("approval_consumed") EXCEPT
                   !.action = act, !.authorized = TRUE, !.approval = p]
           q == [Ev("proposal") EXCEPT
                   !.action = act, !.authorized = TRUE, !.auth = a, !.approval = p]
           s == StartedEvent(act, a, p, policy)
<1>1. p \in Nat /\ a \in Nat /\ now \in Nat /\ policy \in Policies
  BY DEF TypeOK, Positions
<1>2. c \in EventType /\ c.type = "approval_consumed" /\ c.approval = p
  BY <1>1 DEF Ev, Event, EventType, EventTypes, Reasons, Outcomes
<1>3. q \in EventType /\ q.type = "proposal" /\ q.authorized /\ q.auth = a
      /\ q.policy = policy
  BY <1>1 DEF Ev, Event, EventType, EventTypes, Reasons, Outcomes
<1>4. s \in EventType /\ s.type = "started" /\ s.auth = a
  BY <1>1, StartedEventIsTyped
<1>5. s.action = act
  BY DEF StartedEvent, Ev, Event
<1>6. /\ events' = Append(Append(Append(events, c), q), s)
      /\ status' = status /\ lastReason' = lastReason
      /\ BeginTask(w, a) /\ Precheck(act)
  BY DEF StartApproved, Commit
<1> HIDE DEF a, c, q, s
<1>7. a = Len(events) + 2
  BY DEF a
<1>8. QED
  BY <1>2, <1>3, <1>4, <1>5, <1>6, <1>7

LEMMA OutcomeEventIsTyped ==
  ASSUME TypeOK, NEW a, OpenForOutcome(events, a), NEW outcome \in Outcomes
  PROVE  /\ a \in 1..Len(events)
         /\ OutcomeEvent(a, outcome) \in EventType
         /\ OutcomeEvent(a, outcome).type = "outcome"
         /\ OutcomeEvent(a, outcome).auth = a
         /\ OutcomeEvent(a, outcome).outcome = outcome
<1>1. a \in 1..Len(events) /\ a \in Nat /\ events[a] \in EventType
  BY DEF TypeOK, OpenForOutcome, Issued, Positions
<1>2. events[a].policy \in Policies /\ policy \in Policies /\ now \in Nat
  BY <1>1 DEF TypeOK, EventType
<1>3. QED
  BY <1>1, <1>2 DEF OutcomeEvent, Ev, Event, EventType, EventTypes, Reasons, Outcomes

LEMMA GrantShape ==
  ASSUME TypeOK, NEW act \in Actions, NEW who \in Approvers, NEW reason \in Wordings,
         GrantApproval(act, who, reason)
  PROVE  PlainStep
<1> DEFINE e == [Ev("approval") EXCEPT
                   !.action = act, !.authorized = TRUE,
                   !.approval = Len(events) + 1,
                   !.expires = now + ApprovalTTL, !.approver = who, !.reason = reason]
<1>1. /\ reason \in Reasons
      /\ Len(events) + 1 \in Nat /\ now \in Nat /\ now + ApprovalTTL \in Nat
      /\ policy \in Policies
  BY GateConstants DEF TypeOK
<1>2. e \in EventType /\ e.type = "approval"
  BY <1>1 DEF Ev, Event, EventType, EventTypes, Reasons, Outcomes
<1>3. /\ events' = Append(events, e) /\ status' = status /\ lastReason' = reason
      /\ UNCHANGED <<policy, now>> /\ UNCHANGED workerVars
  BY DEF GrantApproval, Commit
<1> HIDE DEF e
<1>4. LogStep(e)
  BY <1>1, <1>2, <1>3 DEF LogStep, TypeOK
<1>5. QED
  BY <1>2, <1>3, <1>4 DEF PlainStep

LEMMA RevokeApprovalShape ==
  ASSUME TypeOK, NEW p \in Positions(events, "approval"), NEW reason \in Wordings,
         RevokeApproval(p, reason)
  PROVE  PlainStep
<1> DEFINE e == [Ev("approval_revocation") EXCEPT !.approval = p, !.reason = reason]
<1>1. reason \in Reasons /\ p \in Nat /\ now \in Nat /\ policy \in Policies
  BY GateConstants DEF TypeOK, Positions
<1>2. e \in EventType /\ e.type = "approval_revocation"
  BY <1>1 DEF Ev, Event, EventType, EventTypes, Reasons, Outcomes
<1>3. /\ events' = Append(events, e) /\ status' = status /\ lastReason' = reason
      /\ UNCHANGED <<policy, now>> /\ UNCHANGED workerVars
  BY DEF RevokeApproval, Commit
<1> HIDE DEF e
<1>4. LogStep(e)
  BY <1>1, <1>2, <1>3 DEF LogStep, TypeOK
<1>5. QED
  BY <1>2, <1>3, <1>4 DEF PlainStep

LEMMA RecordOutcomeShape ==
  ASSUME TypeOK, NEW a, NEW outcome \in Outcomes, RecordOutcome(a, outcome)
  PROVE  PlainStep
<1> DEFINE e == OutcomeEvent(a, outcome)
<1>1. e \in EventType /\ e.type = "outcome"
  BY OutcomeEventIsTyped DEF RecordOutcome
<1>2. /\ events' = Append(events, e) /\ status' = status /\ lastReason' = lastReason
      /\ UNCHANGED <<policy, now>> /\ UNCHANGED workerVars
  BY DEF RecordOutcome, Commit
<1> HIDE DEF e
<1>3. LogStep(e)
  BY <1>1, <1>2 DEF LogStep, TypeOK
<1>4. QED
  BY <1>1, <1>2, <1>3 DEF PlainStep

LEMMA ReconcileShape ==
  ASSUME TypeOK, NEW a \in Issued(events), NEW outcome \in Outcomes,
         Reconcile(a, outcome)
  PROVE  PlainStep
<1> DEFINE e == [Ev("reconciliation") EXCEPT
                   !.action = events[a].action, !.authorized = TRUE,
                   !.auth = a, !.outcome = outcome,
                   !.policy = events[a].policy,
                   !.approval = events[a].approval]
<1>1. a \in Nat /\ events[a] \in EventType
  BY DEF TypeOK, Issued, Positions
<1>2. /\ events[a].policy \in Policies /\ policy \in Policies /\ now \in Nat
      /\ events[a].action \in Actions \cup {NoAction} /\ events[a].approval \in Nat
  BY <1>1 DEF TypeOK, EventType
<1>3. e \in EventType /\ e.type = "reconciliation"
  BY <1>1, <1>2 DEF Ev, Event, EventType, EventTypes, Reasons, Outcomes
<1>4. /\ events' = Append(events, e) /\ status' \in Statuses /\ lastReason' = "other"
      /\ UNCHANGED <<policy, now>> /\ UNCHANGED workerVars
  BY DEF Reconcile, Commit, StatusAfterReconcile, TypeOK, Statuses
<1> HIDE DEF e
<1>5. LogStep(e)
  BY <1>3, <1>4 DEF LogStep, Reasons
<1>6. QED
  BY <1>3, <1>4, <1>5 DEF PlainStep

LEMMA ControlShape ==
  ASSUME TypeOK, NEW kind, NEW type \in {"suspension", "cancel", "resume"},
         NEW newStatus \in Statuses, NEW reason \in Wordings,
         Control(kind, type, newStatus, reason)
  PROVE  PlainStep
<1> DEFINE e == [Ev(type) EXCEPT !.reason = reason]
<1>1. reason \in Reasons /\ now \in Nat /\ policy \in Policies /\ type \in EventTypes
  BY GateConstants DEF TypeOK, EventTypes
<1>2. e \in EventType /\ e.type = type
  BY <1>1 DEF Ev, Event, EventType, Reasons, Outcomes
<1>3. /\ events' = Append(events, e) /\ status' = newStatus /\ lastReason' = reason
      /\ UNCHANGED <<policy, now>> /\ UNCHANGED workerVars
  BY DEF Control, Commit
<1> HIDE DEF e
<1>4. LogStep(e)
  BY <1>1, <1>2, <1>3 DEF LogStep
<1>5. QED
  BY <1>2, <1>3, <1>4 DEF PlainStep

LEMMA RevokeAuthorizationsShape ==
  ASSUME TypeOK, NEW a \in Issued(events) \cup {0},
         NEW act \in Actions \cup {NoAction},
         NEW reason \in Wordings, RevokeAuthorizations(a, act, reason)
  PROVE  PlainStep
<1> DEFINE e == [Ev("revocation") EXCEPT !.auth = a, !.action = act, !.reason = reason]
<1>1. reason \in Reasons /\ a \in Nat /\ now \in Nat /\ policy \in Policies
  BY GateConstants DEF TypeOK, Issued, Positions
<1>2. e \in EventType /\ e.type = "revocation"
  BY <1>1 DEF Ev, Event, EventType, EventTypes, Reasons, Outcomes
<1>3. /\ events' = Append(events, e) /\ status' = status /\ lastReason' = reason
      /\ UNCHANGED <<policy, now>> /\ UNCHANGED workerVars
  BY DEF RevokeAuthorizations, Commit
<1> HIDE DEF e
<1>4. LogStep(e)
  BY <1>1, <1>2, <1>3 DEF LogStep, TypeOK
<1>5. QED
  BY <1>2, <1>3, <1>4 DEF PlainStep

\* Calls of operators either commit one plain event or replace the contract.
LEMMA OperatorShape ==
  ASSUME TypeOK, OperatorStep
  PROVE  \/ PlainStep
         \/ policy' \in Policies /\ UNCHANGED <<runVars, now, workerVars>>
<1> {"active", "suspended", "cancelled"} \subseteq Statuses
  BY DEF Statuses
<1>1. CASE \E reason \in Wordings, act \in Actions, who \in Approvers :
             GrantApproval(act, who, reason)
  BY <1>1, GrantShape
<1>2. CASE \E reason \in Wordings, p \in Positions(events, "approval") :
             RevokeApproval(p, reason)
  BY <1>2, RevokeApprovalShape
<1>3. CASE \E a \in Issued(events), outcome \in Outcomes : RecordOutcome(a, outcome)
  BY <1>3, RecordOutcomeShape
<1>4. CASE \E a \in Issued(events), outcome \in Outcomes : Reconcile(a, outcome)
  BY <1>4, ReconcileShape
<1>5. CASE \E reason \in Wordings : SuspendRun(reason) \/ ResumeRun(reason) \/ CancelRun(reason)
  BY <1>5, ControlShape DEF SuspendRun, ResumeRun, CancelRun
<1>6. CASE \E reason \in Wordings, a \in Issued(events) \cup {0}, act \in Actions \cup {NoAction} :
             RevokeAuthorizations(a, act, reason)
  BY <1>6, RevokeAuthorizationsShape
<1>7. CASE \E p \in Policies : SetContract(p)
  BY <1>7 DEF SetContract
<1>8. QED
  BY <1>1, <1>2, <1>3, <1>4, <1>5, <1>6, <1>7 DEF OperatorStep

-----------------------------------------------------------------------------
(* Type correctness.                                                       *)

LEMMA LogStepTyped ==
  ASSUME TypeOK, NEW e, LogStep(e)
  PROVE  /\ events' \in Seq(EventType) /\ status' \in Statuses
         /\ lastReason' \in Reasons /\ policy' \in Policies /\ now' \in Nat
         /\ Len(events') = Len(events) + 1
BY DEF LogStep, TypeOK

LEMMA BeginTaskTyped ==
  ASSUME TypeOK, NEW w \in Workers, NEW a \in Nat, BeginTask(w, a)
  PROVE  /\ pc' \in [Workers -> {"idle", "started", "running"}]
         /\ task' \in [Workers -> Nat] /\ invoked' \subseteq Nat
         /\ policy' \in Policies /\ now' \in Nat
BY DEF BeginTask, TypeOK

LEMMA ApprovedStartTyped ==
  ASSUME TypeOK, NEW c \in EventType, NEW q \in EventType, NEW s \in EventType,
         events' = Append(Append(Append(events, c), q), s)
  PROVE  events' \in Seq(EventType) /\ Len(events') = Len(events) + 3
BY DEF TypeOK

LEMMA TypeInductive == TypeOK /\ [Next]_vars => TypeOK'
<1> SUFFICES ASSUME TypeOK, [Next]_vars PROVE TypeOK'
  OBVIOUS
<1>1. ASSUME PlainStep PROVE TypeOK'
  BY <1>1, LogStepTyped DEF PlainStep, TypeOK, workerVars
<1>2. ASSUME NEW act \in Actions, Propose(act) PROVE TypeOK'
  <2>1. CASE Authorize(act)
    BY <2>1, AuthorizeShape, LogStepTyped DEF TypeOK, workerVars
  <2>2. QED
    BY <1>1, <1>2, <2>1, ProposeShape
<1>3. ASSUME NEW w \in Workers, NEW a \in Issued(events), StartAuthorized(w, a)
      PROVE  TypeOK'
  <2>1. a \in Nat
    BY <1>3, StartAuthorizedShape DEF TypeOK
  <2>2. QED
    BY <1>3, <2>1, StartAuthorizedShape, LogStepTyped, BeginTaskTyped DEF TypeOK
<1>4. ASSUME NEW w \in Workers, NEW act \in Actions,
             NEW p \in Positions(events, "approval"), StartApproved(w, act, p)
      PROVE  TypeOK'
  <2>1. Len(events) + 2 \in Nat
    BY DEF TypeOK
  <2>2. events' \in Seq(EventType) /\ status' \in Statuses /\ lastReason' \in Reasons
    <3>1. PICK c, q, s \in EventType : events' = Append(Append(Append(events, c), q), s)
      BY <1>4, StartApprovedShape
    <3>2. status' = status /\ lastReason' = lastReason
      BY <1>4, StartApprovedShape
    <3>3. QED
      BY <3>1, <3>2, ApprovedStartTyped DEF TypeOK
  <2>3. QED
    BY <1>4, <2>1, <2>2, StartApprovedShape, BeginTaskTyped DEF TypeOK
<1>5. ASSUME NEW w \in Workers, CallExecutor(w) PROVE TypeOK'
  BY <1>5 DEF CallExecutor, runVars, TypeOK
<1>6. ASSUME NEW w \in Workers, NEW outcome \in Outcomes, FinishExecution(w, outcome)
      PROVE  TypeOK'
  <2>1. OutcomeEvent(task[w], outcome) \in EventType
    BY <1>6, OutcomeEventIsTyped DEF FinishExecution
  <2>2. events' = Append(events, OutcomeEvent(task[w], outcome))
    BY <1>6 DEF FinishExecution, Commit
  <2>3. QED
    BY <1>6, <2>1, <2>2 DEF FinishExecution, Commit, EndTask, TypeOK
<1>7. ASSUME NEW w \in Workers, FinishRefused(w) \/ Abandon(w) PROVE TypeOK'
  <2>1. /\ pc' = [pc EXCEPT ![w] = "idle"] /\ task' = [task EXCEPT ![w] = 0]
        /\ UNCHANGED <<policy, now, invoked>> /\ UNCHANGED runVars
    BY <1>7 DEF FinishRefused, Abandon, EndTask
  <2>2. QED
    BY <2>1 DEF runVars, TypeOK
<1>8. ASSUME OperatorStep PROVE TypeOK'
  BY <1>1, <1>8, OperatorShape DEF runVars, workerVars, TypeOK
<1>9. ASSUME Tick \/ StepBack PROVE TypeOK'
  <2>1. now \in Nat /\ now' \in Nat
    BY <1>9 DEF Tick, StepBack, TypeOK
  <2>2. UNCHANGED runVars /\ UNCHANGED workerVars /\ UNCHANGED policy
    BY <1>9 DEF Tick, StepBack
  <2>3. QED
    BY <2>1, <2>2 DEF runVars, workerVars, TypeOK
<1>10. ASSUME UNCHANGED vars PROVE TypeOK'
  BY <1>10 DEF vars, TypeOK
<1>11. QED
  BY <1>2, <1>3, <1>4, <1>5, <1>6, <1>7, <1>8, <1>9, <1>10
     DEF Next, WorkerStep

\* Every reachable state of the gate is well typed, for all constants.
THEOREM TypeCorrect == Spec => []TypeOK
<1>1. Init => TypeOK
  BY DEF Init, TypeOK, Statuses, Reasons
<1>2. QED
  BY <1>1, TypeInductive, PTL DEF Spec

-----------------------------------------------------------------------------
(* One authorization, one call of the executor.                            *)

\* A longer log with the same starts, and workers as they were.
LEMMA QuietKeepsExecution ==
  ASSUME ExecutionInv, TypeOK', UNCHANGED workerVars,
         AuthsOf(events', "started") = AuthsOf(events, "started"),
         Len(events') >= Len(events)
  PROVE  ExecutionInv'
<1>1. Len(events) \in Nat /\ Len(events') \in Nat
  BY DEF ExecutionInv, TypeOK
<1>2. AuthsOf(events', "started") \subseteq 1..Len(events')
  BY <1>1 DEF ExecutionInv
<1>3. QED
  BY <1>2 DEF ExecutionInv, ExecutesOnce, Busy, workerVars

LEMMA PlainKeepsExecution ==
  ASSUME ExecutionInv, TypeOK', UNCHANGED workerVars, NEW e \in EventType,
         LogStep(e), e.type # "started"
  PROVE  ExecutionInv'
<1>1. events' = Append(events, e) /\ events \in Seq(EventType)
  BY DEF LogStep, ExecutionInv, TypeOK
<1>2. AuthsOf(events', "started") = AuthsOf(events, "started")
  BY <1>1, AuthsOfAppend
<1>3. Len(events') >= Len(events)
  BY <1>1
<1>4. QED
  BY <1>2, <1>3, QuietKeepsExecution

\* A worker takes an authorization that no start event names.
LEMMA BeginKeepsExecution ==
  ASSUME ExecutionInv, TypeOK', NEW w \in Workers, NEW a \in 1..Len(events'),
         BeginTask(w, a), a \notin AuthsOf(events, "started"),
         AuthsOf(events', "started") = AuthsOf(events, "started") \cup {a},
         Len(events') >= Len(events)
  PROVE  ExecutionInv'
<1>1. Len(events) \in Nat /\ Len(events') \in Nat
  BY DEF ExecutionInv, TypeOK
<1>2. AuthsOf(events', "started") \subseteq 1..Len(events')
  BY <1>1 DEF ExecutionInv
<1>3. /\ pc' = [pc EXCEPT ![w] = "started"] /\ task' = [task EXCEPT ![w] = a]
      /\ invoked' = invoked /\ pc[w] = "idle"
      /\ pc \in [Workers -> {"idle", "started", "running"}] /\ task \in [Workers -> Nat]
  BY DEF BeginTask, ExecutionInv, TypeOK
<1>4. \A v \in Workers :
        /\ v = w => pc'[v] = "started" /\ task'[v] = a
        /\ v # w => pc'[v] = pc[v] /\ task'[v] = task[v]
  BY <1>3
<1>5. invoked' \subseteq AuthsOf(events', "started") /\ a \notin invoked'
  BY <1>3 DEF ExecutionInv
<1>6. \A v \in Workers : Busy(v)' => task'[v] \in AuthsOf(events', "started")
  BY <1>4 DEF ExecutionInv, Busy
<1>7. \A v \in Workers : v # w /\ Busy(v)' => task'[v] # a
  BY <1>4 DEF ExecutionInv, Busy
<1>8. ExecutesOnce'
  BY <1>3, <1>4, <1>5, <1>7 DEF ExecutionInv, ExecutesOnce, Busy
<1>9. QED
  BY <1>2, <1>5, <1>6, <1>8 DEF ExecutionInv

\* A worker that lets go of its authorization.
LEMMA EndKeepsExecution ==
  ASSUME ExecutionInv, TypeOK', NEW w \in Workers,
         pc' = [pc EXCEPT ![w] = "idle"], task' = [task EXCEPT ![w] = 0],
         invoked' = invoked,
         AuthsOf(events', "started") = AuthsOf(events, "started"),
         Len(events') >= Len(events)
  PROVE  ExecutionInv'
<1>1. Len(events) \in Nat /\ Len(events') \in Nat
  BY DEF ExecutionInv, TypeOK
<1>2. AuthsOf(events', "started") \subseteq 1..Len(events')
  BY <1>1 DEF ExecutionInv
<1>3. \A v \in Workers :
        /\ v = w => pc'[v] = "idle"
        /\ v # w => pc'[v] = pc[v] /\ task'[v] = task[v]
  BY DEF ExecutionInv, TypeOK
<1>4. QED
  BY <1>2, <1>3 DEF ExecutionInv, ExecutesOnce, Busy

LEMMA ExecutionInductive == ExecutionInv /\ [Next]_vars => ExecutionInv'
<1> SUFFICES ASSUME ExecutionInv, [Next]_vars PROVE ExecutionInv'
  OBVIOUS
<1>0. TypeOK /\ TypeOK' /\ events \in Seq(EventType)
  BY TypeInductive DEF ExecutionInv, TypeOK
<1>1. ASSUME PlainStep PROVE ExecutionInv'
  BY <1>0, <1>1, PlainKeepsExecution DEF PlainStep
<1>2. ASSUME NEW act \in Actions, Propose(act) PROVE ExecutionInv'
  <2>1. CASE Authorize(act)
    <3>1. PICK e \in EventType : LogStep(e) /\ e.type = "proposal"
      BY <1>0, <2>1, AuthorizeShape
    <3>2. UNCHANGED workerVars
      BY <1>0, <2>1, AuthorizeShape
    <3>3. QED
      BY <1>0, <3>1, <3>2, PlainKeepsExecution
  <2>2. QED
    BY <1>0, <1>1, <1>2, <2>1, ProposeShape
<1>3. ASSUME NEW w \in Workers, NEW a \in Issued(events), StartAuthorized(w, a)
      PROVE  ExecutionInv'
  <2>1. PICK e \in EventType : LogStep(e) /\ e.type = "started" /\ e.auth = a
    BY <1>0, <1>3, StartAuthorizedShape
  <2>2. /\ BeginTask(w, a) /\ a \in 1..Len(events)
        /\ a \notin AuthsOf(events, "started")
    BY <1>0, <1>3, StartAuthorizedShape
  <2>3. AuthsOf(events', "started") = AuthsOf(events, "started") \cup {a}
    BY <1>0, <2>1, AuthsOfAppend DEF LogStep
  <2>4. Len(events') = Len(events) + 1 /\ a \in 1..Len(events')
    BY <1>0, <2>1, <2>2 DEF LogStep
  <2>5. QED
    BY <1>0, <2>2, <2>3, <2>4, BeginKeepsExecution
<1>4. ASSUME NEW w \in Workers, NEW act \in Actions,
             NEW p \in Positions(events, "approval"), StartApproved(w, act, p)
      PROVE  ExecutionInv'
  <2> DEFINE a == Len(events) + 2
  <2>1. PICK c \in EventType, q \in EventType, s \in EventType :
          /\ events' = Append(Append(Append(events, c), q), s)
          /\ c.type = "approval_consumed" /\ q.type = "proposal"
          /\ s.type = "started" /\ s.auth = a
    BY <1>0, <1>4, StartApprovedShape
  <2>2. BeginTask(w, a)
    BY <1>0, <1>4, StartApprovedShape
  <2>3. AuthsOf(events', "started") = AuthsOf(events, "started") \cup {a}
    <3> DEFINE log1 == Append(events, c)
               log2 == Append(log1, q)
    <3>1. log1 \in Seq(EventType) /\ log2 \in Seq(EventType)
      BY <1>0
    <3>2. AuthsOf(log1, "started") = AuthsOf(events, "started")
      BY <1>0, <2>1, AuthsOfAppend
    <3> HIDE DEF log1
    <3>3. AuthsOf(log2, "started") = AuthsOf(log1, "started")
      BY <2>1, <3>1, AuthsOfAppend
    <3> HIDE DEF log2
    <3>4. AuthsOf(Append(log2, s), "started") = AuthsOf(log2, "started") \cup {s.auth}
      BY <2>1, <3>1, AuthsOfAppend
    <3>5. QED
      BY <2>1, <3>2, <3>3, <3>4 DEF log1, log2
  <2>4. Len(events') = Len(events) + 3 /\ a \in 1..Len(events')
    BY <1>0, <2>1
  <2>5. a \notin AuthsOf(events, "started")
    BY <1>0 DEF ExecutionInv
  <2>6. QED
    BY <1>0, <2>2, <2>3, <2>4, <2>5, BeginKeepsExecution
<1>5. ASSUME NEW w \in Workers, CallExecutor(w) PROVE ExecutionInv'
  <2>1. \A v \in Workers :
          /\ v = w => pc[v] = "started" /\ pc'[v] = "running"
          /\ v # w => pc'[v] = pc[v]
    BY <1>0, <1>5 DEF CallExecutor, TypeOK
  <2>2. events' = events /\ task' = task /\ invoked' = invoked \cup {task[w]}
    BY <1>5 DEF CallExecutor, runVars
  <2>3. task[w] \in AuthsOf(events, "started")
    BY <2>1 DEF ExecutionInv, Busy
  <2>4. ExecutesOnce'
    BY <2>1, <2>2 DEF ExecutionInv, ExecutesOnce, Busy
  <2>5. QED
    BY <1>0, <2>1, <2>2, <2>3, <2>4 DEF ExecutionInv, Busy
<1>6. ASSUME NEW w \in Workers, NEW outcome \in Outcomes, FinishExecution(w, outcome)
      PROVE  ExecutionInv'
  <2> DEFINE e == OutcomeEvent(task[w], outcome)
  <2>1. e \in EventType /\ e.type = "outcome"
    BY <1>0, <1>6, OutcomeEventIsTyped DEF FinishExecution
  <2>2. /\ events' = Append(events, e) /\ pc' = [pc EXCEPT ![w] = "idle"]
        /\ task' = [task EXCEPT ![w] = 0] /\ invoked' = invoked
    BY <1>6 DEF FinishExecution, Commit, EndTask
  <2> HIDE DEF e
  <2>3. AuthsOf(events', "started") = AuthsOf(events, "started")
    BY <1>0, <2>1, <2>2, AuthsOfAppend
  <2>4. Len(events') >= Len(events)
    BY <1>0, <2>1, <2>2
  <2>5. QED
    BY <1>0, <2>2, <2>3, <2>4, EndKeepsExecution
<1>7. ASSUME NEW w \in Workers, FinishRefused(w) \/ Abandon(w) PROVE ExecutionInv'
  <2>1. /\ pc' = [pc EXCEPT ![w] = "idle"] /\ task' = [task EXCEPT ![w] = 0]
        /\ invoked' = invoked /\ events' = events
    BY <1>7 DEF FinishRefused, Abandon, EndTask, runVars
  <2>2. AuthsOf(events', "started") = AuthsOf(events, "started") /\ Len(events') >= Len(events)
    BY <1>0, <2>1
  <2>3. QED
    BY <1>0, <2>1, <2>2, EndKeepsExecution
<1>8. ASSUME events' = events, UNCHANGED workerVars PROVE ExecutionInv'
  <2>1. AuthsOf(events', "started") = AuthsOf(events, "started") /\ Len(events') >= Len(events)
    BY <1>0, <1>8
  <2>2. QED
    BY <1>0, <1>8, <2>1, QuietKeepsExecution
<1>9. ASSUME OperatorStep PROVE ExecutionInv'
  BY <1>0, <1>1, <1>8, <1>9, OperatorShape DEF runVars
<1>10. ASSUME Tick \/ StepBack \/ UNCHANGED vars PROVE ExecutionInv'
  BY <1>8, <1>10 DEF Tick, StepBack, runVars, workerVars, vars
<1>11. QED
  BY <1>2, <1>3, <1>4, <1>5, <1>6, <1>7, <1>9, <1>10
     DEF Next, WorkerStep

LEMMA ExecutionInvariant == Spec => []ExecutionInv
<1>1. Init => ExecutionInv
  BY DEF Init, ExecutionInv, ExecutesOnce, Busy, AuthsOf, Positions, TypeOK,
         Statuses, Reasons
<1>2. QED
  BY <1>1, ExecutionInductive, PTL DEF Spec

\* An authorization buys at most one call of the executor, for any number of
\* workers that retry, are abandoned or crash, in any order with the operators.
THEOREM ExecutesOnceCorrect == Spec => []ExecutesOnce
BY ExecutionInvariant, PTL DEF ExecutionInv

-----------------------------------------------------------------------------
(* No authorization is issued over an open effect.                         *)

LEMMA IssuedOfAppend ==
  ASSUME NEW log \in Seq(EventType), NEW e \in EventType,
         e.type # "proposal" \/ ~e.authorized
  PROVE  Issued(Append(log, e)) = Issued(log)
<1> DEFINE longer == Append(log, e)
<1>1. /\ \A i \in Positions(log, "proposal") : longer[i] = log[i]
      /\ longer[Len(log) + 1] = e
  BY DEF Positions
<1>2. Positions(longer, "proposal") =
        IF e.type = "proposal" THEN Positions(log, "proposal") \cup {Len(log) + 1}
                               ELSE Positions(log, "proposal")
  BY PositionsOfAppend
<1> HIDE DEF longer
<1>3. \A i : i \in Issued(longer) <=> i \in Issued(log)
  <2>1. CASE e.type = "proposal"
    BY <1>1, <1>2, <2>1 DEF Issued
  <2>2. CASE e.type # "proposal"
    BY <1>1, <1>2, <2>2 DEF Issued
  <2>3. QED
    BY <2>1, <2>2
<1>4. QED
  BY <1>3 DEF longer

\* Only two operations issue, and both have passed every precheck.
LEMMA IssueNeedsPrecheck ==
  ASSUME TypeOK, [Next]_vars, Issued(events') # Issued(events)
  PROVE  \E act \in Actions : Precheck(act)
<1>0. events \in Seq(EventType)
  BY DEF TypeOK
<1>1. ASSUME NEW e \in EventType, events' = Append(events, e),
             e.type # "proposal" \/ ~e.authorized
      PROVE  FALSE
  BY <1>0, <1>1, IssuedOfAppend
<1>2. ~PlainStep
  BY <1>1 DEF PlainStep, LogStep
<1>3. events' # events
  OBVIOUS
<1>4. ASSUME NEW act \in Actions, Propose(act) PROVE Precheck(act)
  BY <1>2, <1>4, ProposeShape, AuthorizeShape
<1>5. ASSUME NEW w \in Workers, NEW a \in Issued(events), StartAuthorized(w, a) PROVE FALSE
  <2>1. PICK e \in EventType : LogStep(e) /\ e.type = "started"
    BY <1>5, StartAuthorizedShape
  <2>2. QED
    BY <1>1, <2>1 DEF LogStep
<1>6. ASSUME NEW w \in Workers, NEW act \in Actions,
             NEW p \in Positions(events, "approval"), StartApproved(w, act, p)
      PROVE  Precheck(act)
  BY <1>6, StartApprovedShape
<1>7. ASSUME NEW w \in Workers, NEW outcome \in Outcomes, FinishExecution(w, outcome)
      PROVE  FALSE
  <2>1. OutcomeEvent(task[w], outcome) \in EventType
        /\ OutcomeEvent(task[w], outcome).type = "outcome"
    BY <1>7, OutcomeEventIsTyped DEF FinishExecution
  <2>2. events' = Append(events, OutcomeEvent(task[w], outcome))
    BY <1>7 DEF FinishExecution, Commit
  <2>3. QED
    BY <1>1, <2>1, <2>2
<1>8. ASSUME NEW w \in Workers, CallExecutor(w) \/ FinishRefused(w) \/ Abandon(w)
      PROVE  FALSE
  BY <1>3, <1>8 DEF CallExecutor, FinishRefused, Abandon, runVars
<1>9. ~OperatorStep
  BY <1>2, <1>3, OperatorShape DEF runVars
<1>10. ~Tick /\ ~StepBack /\ ~UNCHANGED vars
  BY <1>3 DEF Tick, StepBack, vars, runVars
<1>11. QED
  BY <1>4, <1>5, <1>6, <1>7, <1>8, <1>9, <1>10 DEF Next, WorkerStep

\* What the two scans of the log say of a call that was made.
LEMMA PrecheckedCallsEnded ==
  ASSUME ExecutionInv, NEW act, Precheck(act), NEW a \in invoked
  PROVE  \/ Reconciled(events, a)
         \/ \E i \in Positions(events, "outcome") :
              /\ events[i].auth = a
              /\ events[i].outcome # "unknown_execution_status"
<1> SUFFICES ASSUME ~Reconciled(events, a)
             PROVE  \E i \in Positions(events, "outcome") :
                      /\ events[i].auth = a
                      /\ events[i].outcome # "unknown_execution_status"
  OBVIOUS
<1>1. a \in AuthsOf(events, "started") /\ a \notin AuthsOf(events, "reconciliation")
  BY DEF ExecutionInv, Reconciled
<1>2. a \in AuthsOf(events, "outcome")
  BY <1>1 DEF Precheck, HasUnresolved, UnresolvedAuths
<1>3. PICK i \in Positions(events, "outcome") : events[i].auth = a
  BY <1>2 DEF AuthsOf
<1>4. a \notin {events[k].auth : k \in {j \in Positions(events, "outcome") :
                              events[j].outcome = "unknown_execution_status"}}
  BY <1>1 DEF Precheck, HasUncertain, UncertainAuths
<1>5. events[i].outcome # "unknown_execution_status"
  BY <1>3, <1>4
<1>6. QED
  BY <1>3, <1>5

\* While it is unknown how some earlier call of an executor ended, no new action
\* is authorized, neither by propose_action nor by execute_approved.
THEOREM NoIssueOverOpenEffectCorrect == Spec => NoIssueOverOpenEffect
<1> DEFINE Ended(a) ==
             \/ Reconciled(events, a)
             \/ \E i \in Positions(events, "outcome") :
                  /\ events[i].auth = a
                  /\ events[i].outcome # "unknown_execution_status"
           A == Issued(events') # Issued(events) => \A a \in invoked : Ended(a)
<1>1. ExecutionInv /\ [Next]_vars => [A]_vars
  BY IssueNeedsPrecheck, PrecheckedCallsEnded DEF ExecutionInv
<1>2. QED
  BY <1>1, ExecutionInvariant, PTL DEF Spec, NoIssueOverOpenEffect

=============================================================================
