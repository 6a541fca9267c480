------------------------- MODULE RuntimeGateLogProofs -------------------------
(***************************************************************************)
(* Proofs about the log of RuntimeGate: what stands in it, in which order,  *)
(* how it and the status of the run go together, and, at the end, that the *)
(* gate implements ExecutionLedger, for every number of actions, workers,  *)
(* contracts and events.                                                   *)
(***************************************************************************)
EXTENDS RuntimeGateProofs, RuntimeGateLedger, FiniteSetTheorems

-----------------------------------------------------------------------------
(* Why each event may be committed, and what becomes of the run with it.    *)

KeepsRun == status' = status /\ lastReason' = lastReason

Justified(e) ==
  /\ e.type # "approval_consumed"
  /\ e.type = "proposal" =>
       /\ e.policy = policy
       /\ e.authorized =>
            /\ e.action \in Actions /\ Precheck(e.action) /\ ~ApprovalRequired(e.action)
            /\ e.auth = Len(events) + 1 /\ e.approval = 0 /\ Room(1)
       /\ \/ status # "active" /\ status' = status
          \/ status = "active" /\ status' \in {"active", "blocked", "expired"}
       /\ lastReason' \in {"uncertain", "unresolved"} => e.reason = lastReason'
  /\ e.type = "started" =>
       /\ e.auth \in Issued(events) /\ OpenForExecution(events, e.auth)
       /\ ~Started(events, e.auth) /\ SameContract(e.auth) /\ Live
       /\ e.action = events[e.auth].action /\ KeepsRun
  /\ e.type = "outcome" => OpenForOutcome(events, e.auth) /\ KeepsRun
  /\ e.type = "reconciliation" =>
       /\ e.auth \in Issued(events) /\ Reconcilable(e.auth)
       /\ status' = StatusAfterReconcile /\ lastReason' = "other"
  /\ e.type = "approval" =>
       /\ e.policy = policy
       /\ Contract[policy].selfApproval \/ Principal[e.action] # e.approver
       /\ Live
  /\ e.type \in {"approval", "approval_revocation", "revocation"} => status' = status
  /\ e.type \in {"approval_revocation", "revocation"} => e.reason = lastReason'
  /\ e.type = "suspension" => status' = "suspended"
  /\ e.type = "cancel" => status' = "cancelled"
  /\ e.type = "resume" => status = "suspended" /\ status' = "active"

\* One event was committed, as it may be.
OneEvent == \E e \in EventType : LogStep(e) /\ Justified(e)

ApprovedStart ==
  \E w \in Workers, act \in Actions, p \in Positions(events, "approval") :
    StartApproved(w, act, p)

\* Only the clock, the contract or the workers changed.
LogRests == UNCHANGED runVars

LEMMA RefusalJustified ==
  ASSUME TypeOK, NEW act \in Actions, NEW newStatus \in Statuses, NEW reason \in Reasons,
         Refuse(act, newStatus, reason),
         \/ status # "active" /\ newStatus = status
         \/ status = "active" /\ newStatus \in {"active", "blocked", "expired"}
  PROVE  OneEvent
<1> DEFINE e == [Ev("proposal") EXCEPT !.action = act, !.reason = reason]
<1>1. /\ e \in EventType /\ e.type = "proposal" /\ ~e.authorized /\ e.policy = policy
      /\ e.reason = reason
  BY DEF TypeOK, Ev, Event, EventType, EventTypes, Reasons, Outcomes
<1>2. /\ events' = Append(events, e) /\ status' = newStatus /\ lastReason' = reason
      /\ UNCHANGED <<policy, now>>
  BY DEF Refuse, Commit
<1> HIDE DEF e
<1>3. LogStep(e)
  BY <1>1, <1>2 DEF LogStep
<1>4. Justified(e)
  BY <1>1, <1>2 DEF Justified
<1>5. QED
  BY <1>1, <1>3, <1>4 DEF OneEvent

LEMMA AuthorizationJustified ==
  ASSUME TypeOK, NEW act \in Actions, Authorize(act)
  PROVE  OneEvent
<1> DEFINE e == [Ev("proposal") EXCEPT !.action = act, !.authorized = TRUE,
                                       !.auth = Len(events) + 1]
<1>1. /\ e \in EventType /\ e.type = "proposal" /\ e.auth = Len(events) + 1
      /\ e.policy = policy /\ e.action = act /\ e.approval = 0
  <2>1. Len(events) + 1 \in Nat /\ now \in Nat /\ policy \in Policies
    BY DEF TypeOK
  <2>2. QED
    BY <2>1 DEF Ev, Event, EventType, EventTypes, Reasons, Outcomes
<1>2. /\ events' = Append(events, e) /\ status' = "active" /\ lastReason' = "other"
      /\ UNCHANGED <<policy, now>> /\ Precheck(act) /\ ~ApprovalRequired(act) /\ Room(1)
  BY DEF Authorize, Commit
<1> HIDE DEF e
<1>3. LogStep(e)
  BY <1>1, <1>2 DEF LogStep, Statuses, Reasons
<1>4. status = "active"
  BY <1>2 DEF Precheck, Live
<1>5. Justified(e)
  BY <1>1, <1>2, <1>4 DEF Justified
<1>6. QED
  BY <1>1, <1>3, <1>5 DEF OneEvent

LEMMA ProposalJustified ==
  ASSUME TypeOK, NEW act \in Actions, Propose(act)
  PROVE  OneEvent
<1>1. status \in Statuses /\ {"inactive", "uncertain", "unresolved", "other"} \subseteq Reasons
  BY DEF TypeOK, Reasons
<1>2. {"active", "blocked", "expired"} \subseteq Statuses
  BY DEF Statuses
<1>3. CASE RefuseInactive(act)
  BY <1>1, <1>3, RefusalJustified DEF RefuseInactive
<1>4. CASE RefuseExpired(act)
  BY <1>1, <1>2, <1>4, RefusalJustified DEF RefuseExpired
<1>5. CASE RefuseBudget(act)
  BY <1>1, <1>2, <1>5, RefusalJustified DEF RefuseBudget, Live
<1>6. CASE RefuseUncertain(act)
  BY <1>1, <1>2, <1>6, RefusalJustified DEF RefuseUncertain, Live
<1>7. CASE RefuseUnresolved(act)
  BY <1>1, <1>2, <1>7, RefusalJustified DEF RefuseUnresolved, Live
<1>8. CASE RefuseUnauthentic(act)
  BY <1>1, <1>2, <1>8, RefusalJustified DEF RefuseUnauthentic, Live
<1>9. CASE RefuseTrajectory(act)
  BY <1>1, <1>2, <1>9, RefusalJustified DEF RefuseTrajectory, Precheck, Live
<1>10. CASE HoldForApproval(act)
  BY <1>1, <1>2, <1>10, RefusalJustified DEF HoldForApproval, Precheck, Live
<1>11. QED
  BY <1>3, <1>4, <1>5, <1>6, <1>7, <1>8, <1>9, <1>10, AuthorizationJustified DEF Propose

LEMMA StartJustified ==
  ASSUME TypeOK, NEW w \in Workers, NEW a \in Issued(events), StartAuthorized(w, a)
  PROVE  OneEvent
<1> DEFINE e == StartedEvent(events[a].action, a, 0, events[a].policy)
<1>1. a \in 1..Len(events) /\ a \in Nat /\ 0 \in Nat /\ events[a] \in EventType
  BY DEF TypeOK, Issued, Positions
<1>2. events[a].action \in Actions \cup {NoAction} /\ events[a].policy \in Policies
  BY <1>1 DEF EventType
<1>3. e \in EventType /\ e.type = "started" /\ e.auth = a
  <2> DEFINE act == events[a].action
             q   == events[a].policy
  <2>1. act \in Actions \cup {NoAction} /\ q \in Policies /\ a \in Nat /\ 0 \in Nat
    BY <1>1, <1>2
  <2> HIDE DEF act, q
  <2>2. /\ StartedEvent(act, a, 0, q) \in EventType
        /\ StartedEvent(act, a, 0, q).type = "started" /\ StartedEvent(act, a, 0, q).auth = a
    BY <2>1, StartedEventIsTyped
  <2>3. QED
    BY <2>2 DEF act, q
<1>4. e.action = events[a].action
  BY DEF StartedEvent, Ev, Event
<1>5. /\ events' = Append(events, e) /\ KeepsRun /\ UNCHANGED <<policy, now>>
      /\ Live /\ OpenForExecution(events, a) /\ ~Started(events, a) /\ SameContract(a)
  BY DEF StartAuthorized, Commit, KeepsRun, BeginTask
<1> HIDE DEF e
<1>6. LogStep(e)
  BY <1>3, <1>5 DEF LogStep, TypeOK, KeepsRun
<1>7. Justified(e)
  BY <1>3, <1>4, <1>5 DEF Justified
<1>8. QED
  BY <1>3, <1>6, <1>7 DEF OneEvent

LEMMA OutcomeJustified ==
  ASSUME TypeOK, NEW a, NEW outcome \in Outcomes, OpenForOutcome(events, a),
         Commit(Append(events, OutcomeEvent(a, outcome)), status, lastReason),
         UNCHANGED <<policy, now>>
  PROVE  OneEvent
<1> DEFINE e == OutcomeEvent(a, outcome)
<1>1. e \in EventType /\ e.type = "outcome" /\ e.auth = a
  BY OutcomeEventIsTyped
<1>2. events' = Append(events, e) /\ KeepsRun
  BY DEF Commit, KeepsRun
<1> HIDE DEF e
<1>3. LogStep(e)
  BY <1>1, <1>2 DEF LogStep, KeepsRun, TypeOK
<1>4. Justified(e)
  BY <1>1, <1>2 DEF Justified
<1>5. QED
  BY <1>1, <1>3, <1>4 DEF OneEvent

LEMMA GrantJustified ==
  ASSUME TypeOK, NEW act \in Actions, NEW who \in Approvers, NEW reason \in Wordings,
         GrantApproval(act, who, reason)
  PROVE  OneEvent
<1> DEFINE e == [Ev("approval") EXCEPT
                   !.action = act, !.authorized = TRUE,
                   !.approval = Len(events) + 1,
                   !.expires = now + ApprovalTTL, !.approver = who, !.reason = reason]
<1>1. /\ reason \in Reasons
      /\ Len(events) + 1 \in Nat /\ now \in Nat /\ now + ApprovalTTL \in Nat
      /\ policy \in Policies
  BY GateConstants DEF TypeOK
<1>2. /\ e \in EventType /\ e.type = "approval" /\ e.policy = policy
      /\ e.action = act /\ e.approver = who
  BY <1>1 DEF Ev, Event, EventType, EventTypes, Reasons, Outcomes
<1>3. /\ events' = Append(events, e) /\ status' = status /\ lastReason' = reason
      /\ UNCHANGED <<policy, now>>
      /\ Contract[policy].selfApproval \/ Principal[act] # who
      /\ Live
  BY DEF GrantApproval, Commit, Precheck
<1> HIDE DEF e
<1>4. LogStep(e)
  BY <1>1, <1>2, <1>3 DEF LogStep, TypeOK
<1>5. Justified(e)
  BY <1>2, <1>3 DEF Justified
<1>6. QED
  BY <1>2, <1>4, <1>5 DEF OneEvent

LEMMA RevokedApprovalJustified ==
  ASSUME TypeOK, NEW p \in Positions(events, "approval"), NEW reason \in Wordings,
         RevokeApproval(p, reason)
  PROVE  OneEvent
<1> DEFINE e == [Ev("approval_revocation") EXCEPT !.approval = p, !.reason = reason]
<1>1. reason \in Reasons /\ p \in Nat /\ now \in Nat /\ policy \in Policies
  BY GateConstants DEF TypeOK, Positions
<1>2. e \in EventType /\ e.type = "approval_revocation" /\ e.reason = reason
  BY <1>1 DEF Ev, Event, EventType, EventTypes, Reasons, Outcomes
<1>3. /\ events' = Append(events, e) /\ status' = status /\ lastReason' = reason
      /\ UNCHANGED <<policy, now>>
  BY DEF RevokeApproval, Commit
<1> HIDE DEF e
<1>4. LogStep(e)
  BY <1>1, <1>2, <1>3 DEF LogStep, TypeOK
<1>5. Justified(e)
  BY <1>2, <1>3 DEF Justified
<1>6. QED
  BY <1>2, <1>4, <1>5 DEF OneEvent

LEMMA ReconciliationJustified ==
  ASSUME TypeOK, NEW a \in Issued(events), NEW outcome \in Outcomes, Reconcile(a, outcome)
  PROVE  OneEvent
<1> DEFINE e == [Ev("reconciliation") EXCEPT
                   !.action = events[a].action, !.authorized = TRUE,
                   !.auth = a, !.outcome = outcome,
                   !.policy = events[a].policy,
                   !.approval = events[a].approval]
<1>1. a \in Nat /\ events[a] \in EventType
  BY DEF TypeOK, Issued, Positions
<1>2. /\ events[a].policy \in Policies /\ policy \in Policies /\ now \in Nat
      /\ events[a].action \in Actions \cup {NoAction} /\ events[a].approval \in Nat
  BY <1>1 DEF TypeOK, EventType
<1>3. e \in EventType /\ e.type = "reconciliation" /\ e.auth = a
  BY <1>1, <1>2 DEF Ev, Event, EventType, EventTypes, Reasons, Outcomes
<1>4. /\ events' = Append(events, e) /\ status' = StatusAfterReconcile
      /\ lastReason' = "other" /\ UNCHANGED <<policy, now>> /\ Reconcilable(a)
  BY DEF Reconcile, Commit
<1>5. StatusAfterReconcile \in Statuses
  BY DEF StatusAfterReconcile, TypeOK, Statuses
<1> HIDE DEF e
<1>6. LogStep(e)
  BY <1>3, <1>4, <1>5 DEF LogStep, Reasons
<1>7. Justified(e)
  BY <1>3, <1>4 DEF Justified
<1>8. QED
  BY <1>3, <1>6, <1>7 DEF OneEvent

LEMMA ControlJustified ==
  ASSUME TypeOK, NEW kind, NEW type \in {"suspension", "cancel", "resume"},
         NEW s \in Statuses, NEW reason \in Wordings, Control(kind, type, s, reason),
         type = "suspension" => s = "suspended",
         type = "cancel" => s = "cancelled",
         type = "resume" => s = "active" /\ status = "suspended"
  PROVE  OneEvent
<1> DEFINE e == [Ev(type) EXCEPT !.reason = reason]
<1>2. reason \in Reasons /\ now \in Nat /\ policy \in Policies /\ type \in EventTypes
  BY GateConstants DEF TypeOK, EventTypes
<1>3. e \in EventType /\ e.type = type
  BY <1>2 DEF Ev, Event, EventType, Reasons, Outcomes
<1>4. /\ events' = Append(events, e) /\ status' = s /\ lastReason' = reason
      /\ UNCHANGED <<policy, now>>
  BY DEF Control, Commit
<1> HIDE DEF e
<1>5. LogStep(e)
  BY <1>2, <1>3, <1>4 DEF LogStep
<1>6. Justified(e)
  BY <1>3, <1>4 DEF Justified
<1>7. QED
  BY <1>3, <1>5, <1>6 DEF OneEvent

LEMMA RevocationJustified ==
  ASSUME TypeOK, NEW a \in Issued(events) \cup {0}, NEW act \in Actions \cup {NoAction},
         NEW reason \in Wordings, RevokeAuthorizations(a, act, reason)
  PROVE  OneEvent
<1> DEFINE e == [Ev("revocation") EXCEPT !.auth = a, !.action = act, !.reason = reason]
<1>1. reason \in Reasons /\ a \in Nat /\ now \in Nat /\ policy \in Policies
  BY GateConstants DEF TypeOK, Issued, Positions
<1>2. e \in EventType /\ e.type = "revocation" /\ e.reason = reason
  BY <1>1 DEF Ev, Event, EventType, EventTypes, Reasons, Outcomes
<1>3. /\ events' = Append(events, e) /\ status' = status /\ lastReason' = reason
      /\ UNCHANGED <<policy, now>>
  BY DEF RevokeAuthorizations, Commit
<1> HIDE DEF e
<1>4. LogStep(e)
  BY <1>1, <1>2, <1>3 DEF LogStep, TypeOK
<1>5. Justified(e)
  BY <1>2, <1>3 DEF Justified
<1>6. QED
  BY <1>2, <1>4, <1>5 DEF OneEvent

\* Every step of the gate commits one event it may commit, starts an approved
\* execution, or leaves the run alone.
LEMMA StepsOfTheLog ==
  ASSUME TypeOK, [Next]_vars
  PROVE  OneEvent \/ ApprovedStart \/ LogRests
<1>1. ASSUME NEW act \in Actions, Propose(act) PROVE OneEvent
  BY <1>1, ProposalJustified
<1>2. ASSUME NEW w \in Workers, WorkerStep(w) \/ Abandon(w)
      PROVE  OneEvent \/ ApprovedStart \/ LogRests
  <2>1. CASE \E a \in Issued(events) : StartAuthorized(w, a)
    BY <2>1, StartJustified
  <2>2. CASE \E act \in Actions, p \in Positions(events, "approval") : StartApproved(w, act, p)
    BY <2>2 DEF ApprovedStart
  <2>3. CASE CallExecutor(w) \/ FinishRefused(w) \/ Abandon(w)
    BY <2>3 DEF CallExecutor, FinishRefused, Abandon, LogRests
  <2>4. CASE \E outcome \in Outcomes \ {"skipped"} : FinishExecution(w, outcome)
    BY <2>4, OutcomeJustified DEF FinishExecution, EndTask
  <2>5. QED
    BY <1>2, <2>1, <2>2, <2>3, <2>4 DEF WorkerStep
<1>3. ASSUME OperatorStep PROVE OneEvent \/ LogRests
  <2>1. CASE \E reason \in Wordings, act \in Actions, who \in Approvers :
               GrantApproval(act, who, reason)
    BY <2>1, GrantJustified
  <2>2. CASE \E reason \in Wordings, p \in Positions(events, "approval") :
               RevokeApproval(p, reason)
    BY <2>2, RevokedApprovalJustified
  <2>3. CASE \E a \in Issued(events), outcome \in Outcomes : RecordOutcome(a, outcome)
    BY <2>3, OutcomeJustified DEF RecordOutcome
  <2>4. CASE \E a \in Issued(events), outcome \in Outcomes : Reconcile(a, outcome)
    BY <2>4, ReconciliationJustified
  <2>5. CASE \E reason \in Wordings : SuspendRun(reason) \/ ResumeRun(reason) \/ CancelRun(reason)
    <3>1. {"active", "suspended", "cancelled"} \subseteq Statuses
      BY DEF Statuses
    <3>2. QED
      BY <2>5, <3>1, ControlJustified DEF SuspendRun, ResumeRun, CancelRun
  <2>6. CASE \E reason \in Wordings, a \in Issued(events) \cup {0}, act \in Actions \cup {NoAction} :
               RevokeAuthorizations(a, act, reason)
    BY <2>6, RevocationJustified
  <2>7. CASE \E p \in Policies : SetContract(p)
    BY <2>7 DEF SetContract, LogRests
  <2>8. QED
    BY <1>3, <2>1, <2>2, <2>3, <2>4, <2>5, <2>6, <2>7 DEF OperatorStep
<1>4. ASSUME Tick \/ StepBack \/ UNCHANGED vars PROVE LogRests
  BY <1>4 DEF Tick, StepBack, vars, LogRests, runVars
<1>5. QED
  BY <1>1, <1>2, <1>3, <1>4 DEF Next

\* The three events of an approved execution, and what they were committed on.
ApprovedEvents(act, p, c, q, s) ==
  /\ events' = Append(Append(Append(events, c), q), s)
  /\ Len(events') = Len(events) + 3
  /\ \A i \in 1..Len(events) : events'[i] = events[i]
  /\ events'[Len(events) + 1] = c /\ events'[Len(events) + 2] = q
  /\ events'[Len(events) + 3] = s
  /\ c.type = "approval_consumed" /\ c.approval = p
  /\ q.type = "proposal" /\ q.authorized /\ q.policy = policy /\ q.action = act
  /\ q.auth = Len(events) + 2 /\ q.approval = p
  /\ s.type = "started" /\ s.auth = Len(events) + 2 /\ s.action = act
  /\ Precheck(act) /\ ApprovalRequired(act) /\ OpenApproval(events, p, act, policy, now)
  /\ Room(3) /\ KeepsRun /\ UNCHANGED <<policy, now>>

LEMMA ApprovedStartEvents ==
  ASSUME TypeOK, ApprovedStart
  PROVE  \E act \in Actions, p \in Positions(events, "approval"), c, q, s \in EventType :
           ApprovedEvents(act, p, c, q, s)
<1>1. PICK w \in Workers, act \in Actions, p \in Positions(events, "approval") :
        StartApproved(w, act, p)
  BY DEF ApprovedStart
<1> DEFINE a == Len(events) + 2
           c == [Ev("approval_consumed") EXCEPT
                   !.action = act, !.authorized = TRUE, !.approval = p]
           q == [Ev("proposal") EXCEPT
                   !.action = act, !.authorized = TRUE, !.auth = a, !.approval = p]
           s == StartedEvent(act, a, p, policy)
<1>2. p \in Nat /\ a \in Nat /\ now \in Nat /\ policy \in Policies
  BY DEF TypeOK, Positions
<1>3. c \in EventType /\ c.type = "approval_consumed" /\ c.approval = p
  BY <1>2 DEF Ev, Event, EventType, EventTypes, Reasons, Outcomes
<1>4. /\ q \in EventType /\ q.type = "proposal" /\ q.authorized /\ q.auth = a
      /\ q.policy = policy /\ q.action = act /\ q.approval = p
  BY <1>2 DEF Ev, Event, EventType, EventTypes, Reasons, Outcomes
<1>5. s \in EventType /\ s.type = "started" /\ s.auth = a
  BY <1>2, StartedEventIsTyped
<1>6. s.action = act
  BY DEF StartedEvent, Ev, Event
<1>7. /\ events' = Append(Append(Append(events, c), q), s) /\ KeepsRun
      /\ UNCHANGED <<policy, now>> /\ Precheck(act) /\ ApprovalRequired(act) /\ Room(3)
      /\ OpenApproval(events, p, act, policy, now)
  BY <1>1 DEF StartApproved, Commit, KeepsRun, BeginTask
<1> HIDE DEF c, q, s
<1>8. /\ Len(events') = Len(events) + 3
      /\ \A i \in 1..Len(events) : events'[i] = events[i]
      /\ events'[Len(events) + 1] = c /\ events'[Len(events) + 2] = q
      /\ events'[Len(events) + 3] = s
  <2>1. events \in Seq(EventType)
    BY DEF TypeOK
  <2>2. QED
    BY <1>3, <1>4, <1>5, <1>7, <2>1
<1>9. ApprovedEvents(act, p, c, q, s)
  BY <1>3, <1>4, <1>5, <1>6, <1>7, <1>8 DEF ApprovedEvents
<1>10. QED
  BY <1>3, <1>4, <1>5, <1>9

LEMMA OneEventLog ==
  ASSUME TypeOK, NEW e \in EventType, LogStep(e)
  PROVE  /\ events' = Append(events, e) /\ events \in Seq(EventType)
         /\ Len(events) \in Nat /\ Len(events') = Len(events) + 1
         /\ \A i \in 1..Len(events) : events'[i] = events[i]
         /\ events'[Len(events) + 1] = e
         /\ UNCHANGED <<policy, now>>
BY DEF LogStep, TypeOK

-----------------------------------------------------------------------------
(* Freshness.                                                              *)

\* What StartsAreFresh says of one start.
FreshStart(s) ==
  LET a == events[s].auth
  IN \A r \in a..s :
       /\ events[r].type = "revocation" =>
            \/ events[r].auth \notin {0, a}
            \/ events[r].action \notin {NoAction, events[a].action}
       /\ events[r].type = "reconciliation" => events[r].auth = a

\* A start in the log stays as fresh as it was.
LEMMA FreshStays ==
  ASSUME ExecutionInv, NEW s \in Positions(events, "started"), FreshStart(s),
         Len(events') \in Nat, Len(events') >= Len(events),
         \A i \in 1..Len(events) : events'[i] = events[i]
  PROVE  FreshStart(s)'
<1>1. s \in 1..Len(events) /\ Len(events) \in Nat
  BY DEF Positions, ExecutionInv, TypeOK
<1>2. events[s].auth \in 1..Len(events)
  BY DEF ExecutionInv, AuthsOf
<1>3. events'[s] = events[s] /\ events'[events[s].auth] = events[events[s].auth]
  BY <1>1, <1>2
<1>4. \A r \in events[s].auth..s : r \in 1..Len(events) /\ events'[r] = events[r]
  BY <1>1, <1>2
<1>5. QED
  BY <1>3, <1>4 DEF FreshStart

LEMMA FreshInductive ==
  ASSUME ExecutionInv, StartsAreFresh, [Next]_vars
  PROVE  StartsAreFresh'
<1> DEFINE n == Len(events)
<1>1. TypeOK /\ events \in Seq(EventType) /\ n \in Nat /\ DOMAIN events = 1..n
  BY DEF ExecutionInv, TypeOK
<1>2. \A s \in Positions(events, "started") : FreshStart(s)
  BY DEF StartsAreFresh, FreshStart
<1>3. SUFFICES ASSUME NEW s \in Positions(events', "started") PROVE FreshStart(s)'
  BY DEF StartsAreFresh, FreshStart
<1>4. CASE OneEvent
  <2>1. PICK e \in EventType : LogStep(e) /\ Justified(e)
    BY <1>4 DEF OneEvent
  <2>2. /\ Len(events') = n + 1 /\ events'[n + 1] = e
        /\ \A i \in 1..n : events'[i] = events[i]
        /\ events' = Append(events, e)
    BY <1>1, <2>1, OneEventLog
  <2>3. CASE s \in Positions(events, "started")
    BY <1>1, <1>2, <2>2, <2>3, FreshStays
  <2>4. CASE s \notin Positions(events, "started")
    <3>1. e.type = "started" /\ s = n + 1
      BY <1>1, <2>2, <2>4, PositionsOfAppend
    <3> DEFINE a == e.auth
    <3>2. /\ a \in Issued(events) /\ ~RevokedAuth(events, a) /\ ~Invalidated(events, a)
      BY <2>1, <3>1 DEF Justified, OpenForExecution
    <3>3. a \in 1..n /\ events[a].type = "proposal"
      BY <1>1, <3>2 DEF Issued, Positions
    <3>4. ASSUME NEW r \in a..s
          PROVE  /\ events'[r].type = "revocation" =>
                      \/ events'[r].auth \notin {0, a}
                      \/ events'[r].action \notin {NoAction, events'[a].action}
                 /\ events'[r].type = "reconciliation" => events'[r].auth = a
      <4>1. CASE r = n + 1
        BY <2>2, <3>1, <4>1
      <4>2. CASE r = a
        BY <2>2, <3>3, <4>2
      <4>3. CASE r \in 1..n /\ r > a
        <5>1. events'[r] = events[r] /\ events'[a] = events[a] /\ r \in DOMAIN events
          BY <1>1, <2>2, <3>3, <4>3
        <5>2. events[r].type = "revocation" => r \in Positions(events, "revocation")
          BY <5>1 DEF Positions
        <5>3. events[r].type = "reconciliation" => r \in Positions(events, "reconciliation")
          BY <5>1 DEF Positions
        <5>4. QED
          BY <3>2, <4>3, <5>1, <5>2, <5>3 DEF RevokedAuth, Invalidated
      <4>4. QED
        BY <1>1, <3>1, <3>3, <4>1, <4>2, <4>3
    <3>5. QED
      BY <2>2, <3>1, <3>4 DEF FreshStart
  <2>5. QED
    BY <2>3, <2>4
<1>5. CASE ApprovedStart
  <2>1. PICK act \in Actions, p \in Positions(events, "approval"), c, q, e \in EventType :
          ApprovedEvents(act, p, c, q, e)
    BY <1>1, <1>5, ApprovedStartEvents
  <2>2. /\ Len(events') = n + 3 /\ events'[n + 1] = c /\ events'[n + 2] = q
        /\ events'[n + 3] = e /\ \A i \in 1..n : events'[i] = events[i]
        /\ c.type = "approval_consumed" /\ q.type = "proposal"
        /\ e.type = "started" /\ e.auth = n + 2
    BY <2>1 DEF ApprovedEvents
  <2>3. s \in 1..(n + 3) /\ events'[s].type = "started"
    <3>1. events' \in Seq(EventType)
      BY <1>1, <2>1 DEF ApprovedEvents
    <3>2. QED
      BY <2>2, <3>1 DEF Positions
  <2>4. CASE s \in 1..n
    <3>1. s \in Positions(events, "started")
      BY <1>1, <2>2, <2>3, <2>4 DEF Positions
    <3>2. QED
      BY <1>1, <1>2, <2>2, <3>1, FreshStays
  <2>5. CASE s = n + 3
    <3>1. \A r \in (n + 2)..(n + 3) : events'[r].type \in {"proposal", "started"}
      BY <1>1, <2>2
    <3>2. QED
      BY <2>2, <2>5, <3>1 DEF FreshStart
  <2>6. QED
    BY <1>1, <2>2, <2>3, <2>4, <2>5
<1>6. CASE LogRests
  BY <1>2, <1>3, <1>6 DEF LogRests, runVars, FreshStart
<1>7. QED
  BY <1>1, <1>4, <1>5, <1>6, StepsOfTheLog

\* No execution starts on an authorization that was revoked, or was outstanding when
\* another execution was reconciled, whoever revokes and whenever a worker comes back.
THEOREM StartsAreFreshCorrect == Spec => []StartsAreFresh
<1>1. Init => StartsAreFresh
  BY DEF Init, StartsAreFresh, Positions
<1>2. ExecutionInv /\ StartsAreFresh /\ [Next]_vars => StartsAreFresh'
  BY FreshInductive
<1>3. QED
  BY <1>1, <1>2, ExecutionInvariant, PTL DEF Spec

-----------------------------------------------------------------------------
(* References.                                                             *)

\* An event that may follow a log without breaking its references.
Fits(log, e) ==
  /\ e.type \in {"started", "outcome", "reconciliation"} =>
       e.auth \in Issued(log) /\ e.auth \notin AuthsOf(log, e.type)
  /\ e.type = "reconciliation" => Started(log, e.auth)
  /\ e.type = "approval_consumed" =>
       e.approval \in Positions(log, "approval") \ ApprovalsOf(log, "approval_consumed")

LEMMA FittingKeepsReferences ==
  ASSUME NEW log \in Seq(EventType), NEW e \in EventType, ReferencesSound(log), Fits(log, e)
  PROVE  ReferencesSound(Append(log, e))
<1> DEFINE n == Len(log)
           longer == Append(log, e)
<1>1. /\ n \in Nat /\ DOMAIN log = 1..n /\ DOMAIN longer = 1..(n + 1)
      /\ longer[n + 1] = e /\ \A i \in 1..n : longer[i] = log[i]
  OBVIOUS
<1>2. \A type : Positions(longer, type) =
        IF e.type = type THEN Positions(log, type) \cup {n + 1} ELSE Positions(log, type)
  BY PositionsOfAppend
<1>3. \A type : Positions(log, type) \subseteq 1..n
  BY DEF Positions
<1> HIDE DEF longer
<1>4. \A i \in Issued(log) : i \in Issued(longer)
  BY <1>1, <1>2, <1>3 DEF Issued
<1>5. ASSUME NEW type \in {"started", "outcome", "reconciliation"}
      PROVE  OncePerAuth(longer, type) /\ NamesIssued(longer, type)
  <2>1. OncePerAuth(log, type) /\ NamesIssued(log, type)
    BY DEF ReferencesSound
  <2>2. CASE e.type # type
    <3>1. Positions(longer, type) = Positions(log, type)
      BY <1>2, <2>2
    <3>2. \A i \in Positions(log, type) : longer[i] = log[i]
      BY <1>1, <1>3
    <3>3. QED
      BY <1>4, <2>1, <3>1, <3>2 DEF OncePerAuth, NamesIssued
  <2>3. CASE e.type = type
    <3>1. Positions(longer, type) = Positions(log, type) \cup {n + 1}
      BY <1>2, <2>3
    <3>2. \A i \in Positions(log, type) : longer[i] = log[i] /\ log[i].auth \in AuthsOf(log, type)
      BY <1>1, <1>3 DEF AuthsOf
    <3>3. e.auth \in Issued(log) /\ e.auth \notin AuthsOf(log, type)
      BY <2>3 DEF Fits
    <3>4. OncePerAuth(longer, type)
      BY <1>1, <2>1, <3>1, <3>2, <3>3 DEF OncePerAuth
    <3>5. e.auth < n + 1
      BY <1>1, <1>3, <3>3 DEF Issued
    <3>6. NamesIssued(longer, type)
      BY <1>1, <1>4, <2>1, <3>1, <3>2, <3>3, <3>5 DEF NamesIssued
    <3>7. QED
      BY <3>4, <3>6
  <2>4. QED
    BY <2>2, <2>3
<1>6. ReconciledAfterStart(longer)
  <2>1. ASSUME NEW i \in Positions(longer, "reconciliation")
        PROVE  \E s \in Positions(longer, "started") : s < i /\ longer[s].auth = longer[i].auth
    <3>1. CASE i \in Positions(log, "reconciliation")
      <4>1. PICK s \in Positions(log, "started") : s < i /\ log[s].auth = log[i].auth
        BY <3>1 DEF ReferencesSound, ReconciledAfterStart
      <4>2. s \in Positions(longer, "started") /\ longer[s] = log[s] /\ longer[i] = log[i]
        BY <1>1, <1>2, <1>3, <3>1
      <4>3. QED
        BY <4>1, <4>2
    <3>2. CASE i \notin Positions(log, "reconciliation")
      <4>1. e.type = "reconciliation" /\ i = n + 1
        BY <1>2, <3>2
      <4>2. PICK s \in Positions(log, "started") : log[s].auth = e.auth
        BY <4>1 DEF Fits, Started, AuthsOf
      <4>3. s \in Positions(longer, "started") /\ s < n + 1 /\ longer[s] = log[s]
        BY <1>1, <1>2, <1>3
      <4>4. QED
        BY <1>1, <4>1, <4>2, <4>3
    <3>3. QED
      BY <3>1, <3>2
  <2>2. QED
    BY <2>1 DEF ReconciledAfterStart
<1>7. ConsumedOnce(longer) /\ ConsumesGranted(longer)
  <2>1. ConsumedOnce(log) /\ ConsumesGranted(log)
    BY DEF ReferencesSound
  <2>2. Positions(log, "approval") \subseteq Positions(longer, "approval")
    BY <1>2
  <2>3. \A i \in Positions(log, "approval_consumed") : longer[i] = log[i]
    BY <1>1, <1>3
  <2>4. CASE e.type # "approval_consumed"
    <3>1. Positions(longer, "approval_consumed") = Positions(log, "approval_consumed")
      BY <1>2, <2>4
    <3>2. QED
      BY <2>1, <2>2, <2>3, <3>1 DEF ConsumedOnce, ConsumesGranted
  <2>5. CASE e.type = "approval_consumed"
    <3>1. Positions(longer, "approval_consumed") =
            Positions(log, "approval_consumed") \cup {n + 1}
      BY <1>2, <2>5
    <3>2. /\ e.approval \in Positions(log, "approval")
          /\ \A i \in Positions(log, "approval_consumed") : log[i].approval # e.approval
      BY <2>5 DEF Fits, ApprovalsOf
    <3>3. e.approval < n + 1
      BY <1>1, <1>3, <3>2
    <3>4. ConsumedOnce(longer)
      BY <1>1, <2>1, <2>3, <3>1, <3>2 DEF ConsumedOnce
    <3>5. ConsumesGranted(longer)
      BY <1>1, <2>1, <2>2, <2>3, <3>1, <3>2, <3>3 DEF ConsumesGranted
    <3>6. QED
      BY <3>4, <3>5
  <2>6. QED
    BY <2>4, <2>5
<1>8. QED
  BY <1>5, <1>6, <1>7 DEF ReferencesSound, longer

LEMMA JustifiedFits ==
  ASSUME NEW e, Justified(e)
  PROVE  Fits(events, e)
BY DEF Justified, Fits, OpenForExecution, OpenForOutcome, HasOutcome, Started, Reconcilable,
       Reconciled

\* The three events of an approved execution fit one after the other.
LEMMA ApprovedEventsFit ==
  ASSUME ExecutionInv, NEW act, NEW p, NEW c \in EventType, NEW q \in EventType,
         NEW s \in EventType, ApprovedEvents(act, p, c, q, s)
  PROVE  /\ Fits(events, c) /\ Fits(Append(events, c), q)
         /\ Fits(Append(Append(events, c), q), s)
<1> DEFINE n == Len(events)
           log1 == Append(events, c)
           log2 == Append(log1, q)
<1>1. events \in Seq(EventType) /\ n \in Nat
  BY DEF ExecutionInv, TypeOK
<1>2. /\ c.type = "approval_consumed" /\ c.approval = p
      /\ q.type = "proposal" /\ q.authorized
      /\ s.type = "started" /\ s.auth = n + 2
      /\ OpenApproval(events, p, act, policy, now)
  BY DEF ApprovedEvents
<1>3. Fits(events, c)
  BY <1>2 DEF Fits, OpenApproval
<1>4. Fits(log1, q)
  BY <1>2 DEF Fits
<1>5. /\ log1 \in Seq(EventType) /\ log2 \in Seq(EventType) /\ Len(log1) = n + 1
      /\ log2[n + 2] = q /\ n + 2 \in DOMAIN log2
  BY <1>1
<1>6. AuthsOf(log2, "started") = AuthsOf(events, "started")
  <2>1. AuthsOf(log1, "started") = AuthsOf(events, "started")
    BY <1>1, <1>2, AuthsOfAppend
  <2> HIDE DEF log1
  <2>2. AuthsOf(log2, "started") = AuthsOf(log1, "started")
    BY <1>2, <1>5, AuthsOfAppend
  <2>3. QED
    BY <2>1, <2>2
<1>7. n + 2 \notin AuthsOf(events, "started")
  BY <1>1 DEF ExecutionInv
<1> HIDE DEF log1, log2
<1>8. n + 2 \in Issued(log2)
  BY <1>2, <1>5 DEF Issued, Positions
<1>9. Fits(log2, s)
  BY <1>2, <1>6, <1>7, <1>8 DEF Fits
<1>10. QED
  BY <1>3, <1>4, <1>9 DEF log1, log2

LEMMA ReferencesInductive ==
  ASSUME ExecutionInv, LogReferencesSound, [Next]_vars
  PROVE  LogReferencesSound'
<1>1. TypeOK /\ events \in Seq(EventType) /\ ReferencesSound(events)
  BY DEF ExecutionInv, TypeOK, LogReferencesSound
<1>2. CASE OneEvent
  <2>1. PICK e \in EventType : LogStep(e) /\ Justified(e)
    BY <1>2 DEF OneEvent
  <2>2. QED
    BY <1>1, <2>1, JustifiedFits, FittingKeepsReferences DEF LogStep, LogReferencesSound
<1>3. CASE ApprovedStart
  <2>1. PICK act \in Actions, p \in Positions(events, "approval"), c, q, s \in EventType :
          ApprovedEvents(act, p, c, q, s)
    BY <1>1, <1>3, ApprovedStartEvents
  <2> DEFINE log1 == Append(events, c)
             log2 == Append(log1, q)
  <2>2. Fits(events, c) /\ Fits(log1, q) /\ Fits(log2, s)
    BY <2>1, ApprovedEventsFit
  <2>3. log1 \in Seq(EventType) /\ log2 \in Seq(EventType) /\ events' = Append(log2, s)
    BY <1>1, <2>1 DEF ApprovedEvents
  <2>4. ReferencesSound(log1)
    BY <1>1, <2>2, FittingKeepsReferences
  <2> HIDE DEF log1
  <2>5. ReferencesSound(log2)
    BY <2>2, <2>3, <2>4, FittingKeepsReferences
  <2> HIDE DEF log2
  <2>6. QED
    BY <2>2, <2>3, <2>5, FittingKeepsReferences DEF LogReferencesSound
<1>4. CASE LogRests
  BY <1>4 DEF LogRests, runVars, LogReferencesSound
<1>5. QED
  BY <1>1, <1>2, <1>3, <1>4, StepsOfTheLog

\* The gate alone, with a store that checks nothing, never builds a log whose
\* references a validating store would refuse.
THEOREM LogReferencesSoundCorrect == Spec => []LogReferencesSound
<1>1. Init => LogReferencesSound
  BY DEF Init, LogReferencesSound, ReferencesSound, OncePerAuth, NamesIssued,
         ReconciledAfterStart, ConsumedOnce, ConsumesGranted, Positions
<1>2. ExecutionInv /\ LogReferencesSound /\ [Next]_vars => LogReferencesSound'
  BY ReferencesInductive
<1>3. QED
  BY <1>1, <1>2, ExecutionInvariant, PTL DEF Spec

-----------------------------------------------------------------------------
(* Stops.                                                                  *)

Latest(stops) == IF stops = {} THEN 0 ELSE CHOOSE j \in stops : \A k \in stops : k <= j

StopsBefore(log, i) == {j \in DOMAIN log : j < i /\ log[j].type \in StopTypes}

LatestBefore(log, i) == Latest(StopsBefore(log, i))

\* The last stop is one, and the status is what it says.
Agrees(log, last, st) ==
  /\ last # 0 => last \in DOMAIN log /\ log[last].type \in StopTypes
  /\ st = "suspended" <=> last # 0 /\ log[last].type = "suspension"
  /\ st = "cancelled" <=> last # 0 /\ log[last].type = "cancel"

\* Before this start the last stop was a resumption, if there was one.
UnderResumption(log, s) ==
  LatestBefore(log, s) # 0 =>
    LatestBefore(log, s) \in DOMAIN log /\ log[LatestBefore(log, s)].type = "resume"

StopInv ==
  /\ Agrees(events, LatestBefore(events, Len(events) + 1), status)
  /\ \A s \in Positions(events, "started") : UnderResumption(events, s)

LEMMA StopInvSuffices == StopInv => StopsAreHonoured
<1>1. \A i : LastStop(i) = LatestBefore(events, i)
  BY DEF LastStop, LatestBefore, Latest, StopsBefore
<1>2. QED
  BY <1>1 DEF StopInv, Agrees, UnderResumption, StopsAreHonoured

\* Where the last stop before a position was does not change.
LEMMA LatestStays ==
  ASSUME NEW log \in Seq(EventType), NEW longer \in Seq(EventType),
         Len(longer) >= Len(log), \A j \in 1..Len(log) : longer[j] = log[j],
         NEW i \in 1..(Len(log) + 1)
  PROVE  LatestBefore(longer, i) = LatestBefore(log, i)
<1>1. StopsBefore(longer, i) = StopsBefore(log, i)
  BY DEF StopsBefore
<1>2. QED
  BY <1>1 DEF LatestBefore

LEMMA LatestAfterStop ==
  ASSUME NEW log \in Seq(EventType), NEW e \in EventType, e.type \in StopTypes
  PROVE  LatestBefore(Append(log, e), Len(log) + 2) = Len(log) + 1
<1> DEFINE n == Len(log)
           stops == StopsBefore(Append(log, e), n + 2)
<1>1. n \in Nat
  OBVIOUS
<1>2. n + 1 \in stops /\ \A k \in stops : k <= n + 1 /\ k \in Nat
  BY <1>1 DEF StopsBefore
<1> HIDE DEF stops
<1>3. \A j \in stops : (\A k \in stops : k <= j) => j = n + 1
  BY <1>1, <1>2
<1>4. (CHOOSE j \in stops : \A k \in stops : k <= j) = n + 1
  BY <1>2, <1>3
<1>5. QED
  BY <1>2, <1>4 DEF Latest, LatestBefore, stops

LEMMA LatestAfterOther ==
  ASSUME NEW log \in Seq(EventType), NEW e \in EventType, e.type \notin StopTypes
  PROVE  LatestBefore(Append(log, e), Len(log) + 2) = LatestBefore(log, Len(log) + 1)
<1>1. StopsBefore(Append(log, e), Len(log) + 2) = StopsBefore(log, Len(log) + 1)
  BY DEF StopsBefore
<1>2. QED
  BY <1>1 DEF LatestBefore

\* One more event: the log and the status still agree if they change together.
LEMMA AgreementAfter ==
  ASSUME NEW log \in Seq(EventType), NEW e \in EventType, NEW before, NEW after,
         Agrees(log, LatestBefore(log, Len(log) + 1), before),
         e.type = "suspension" => after = "suspended",
         e.type = "cancel" => after = "cancelled",
         e.type = "resume" => after \notin {"suspended", "cancelled"},
         e.type \notin StopTypes =>
           \A st \in {"suspended", "cancelled"} : after = st <=> before = st
  PROVE  Agrees(Append(log, e), LatestBefore(Append(log, e), Len(log) + 2), after)
<1> DEFINE n == Len(log)
           longer == Append(log, e)
<1>1. /\ n \in Nat /\ DOMAIN log = 1..n /\ DOMAIN longer = 1..(n + 1)
      /\ longer[n + 1] = e /\ \A i \in 1..n : longer[i] = log[i]
  OBVIOUS
<1>2. CASE e.type \in StopTypes
  <2>1. Agrees(longer, n + 1, after)
    <3> HIDE DEF longer
    <3>1. n + 1 \in DOMAIN longer /\ longer[n + 1].type \in StopTypes /\ n + 1 # 0
      BY <1>1, <1>2
    <3>2. longer[n + 1].type = "suspension" \/ longer[n + 1].type = "cancel"
          \/ longer[n + 1].type = "resume"
      BY <3>1 DEF StopTypes
    <3>3. QED
      BY <1>1, <3>1, <3>2 DEF Agrees
  <2>2. QED
    BY <1>2, <2>1, LatestAfterStop
<1>3. CASE e.type \notin StopTypes
  <2> DEFINE last == LatestBefore(log, n + 1)
  <2>1. Agrees(log, last, before) /\ (last # 0 => longer[last] = log[last])
    BY <1>1 DEF Agrees
  <2> HIDE DEF longer, last
  <2>2. Agrees(longer, last, after)
    BY <1>1, <1>3, <2>1 DEF Agrees
  <2>3. QED
    BY <1>3, <2>2, LatestAfterOther DEF longer, last
<1>4. QED
  BY <1>2, <1>3

\* A start while the run is active, and the starts before it.
LEMMA ResumptionsAfter ==
  ASSUME NEW log \in Seq(EventType), NEW e \in EventType, NEW before,
         Agrees(log, LatestBefore(log, Len(log) + 1), before),
         e.type = "started" => before = "active",
         \A s \in Positions(log, "started") : UnderResumption(log, s)
  PROVE  \A s \in Positions(Append(log, e), "started") : UnderResumption(Append(log, e), s)
<1> DEFINE n == Len(log)
           longer == Append(log, e)
<1> SUFFICES ASSUME NEW s \in Positions(longer, "started") PROVE UnderResumption(longer, s)
  OBVIOUS
<1>1. /\ n \in Nat /\ DOMAIN log = 1..n /\ DOMAIN longer = 1..(n + 1)
      /\ longer \in Seq(EventType) /\ Len(longer) = n + 1
      /\ \A i \in 1..n : longer[i] = log[i]
  OBVIOUS
<1>2. s \in Positions(log, "started") \/ (s = n + 1 /\ e.type = "started")
  BY PositionsOfAppend
<1>3. Positions(log, "started") \subseteq 1..n
  BY DEF Positions
<1> HIDE DEF longer
<1>4. s \in 1..(n + 1)
  BY <1>1, <1>2, <1>3
<1> DEFINE last == LatestBefore(log, s)
<1>5. LatestBefore(longer, s) = last
  BY <1>1, <1>4, LatestStays
<1>6. last # 0 => last \in 1..n /\ log[last].type = "resume"
  <2>1. CASE s \in Positions(log, "started")
    BY <1>1, <2>1 DEF UnderResumption
  <2>2. CASE s = n + 1 /\ e.type = "started"
    BY <1>1, <2>2 DEF Agrees, StopTypes
  <2>3. QED
    BY <1>2, <2>1, <2>2
<1> HIDE DEF last
<1>7. last # 0 => last \in DOMAIN longer /\ longer[last] = log[last]
  BY <1>1, <1>6
<1>8. QED
  BY <1>5, <1>6, <1>7 DEF UnderResumption

LEMMA StopsInductive ==
  ASSUME TypeOK, StopInv, [Next]_vars
  PROVE  StopInv'
<1> DEFINE n == Len(events)
<1>1. events \in Seq(EventType) /\ n \in Nat
  BY DEF TypeOK
<1>2. CASE OneEvent
  <2>1. PICK e \in EventType : LogStep(e) /\ Justified(e)
    BY <1>2 DEF OneEvent
  <2>2. events' = Append(events, e) /\ Len(events') + 1 = n + 2
    BY <1>1, <2>1, OneEventLog
  <2>3. e.type \in EventTypes
    BY DEF EventType
  <2>4. /\ e.type = "suspension" => status' = "suspended"
        /\ e.type = "cancel" => status' = "cancelled"
        /\ e.type = "resume" => status' \notin {"suspended", "cancelled"}
    BY <2>1 DEF Justified
  <2>5. e.type \notin StopTypes =>
          \A st \in {"suspended", "cancelled"} : status' = st <=> status = st
    BY <2>1, <2>3 DEF Justified, KeepsRun, StatusAfterReconcile, StopTypes, EventTypes
  <2>6. e.type = "started" => status = "active"
    BY <2>1 DEF Justified, Live
  <2>7. Agrees(events', LatestBefore(events', n + 2), status')
    BY <1>1, <2>2, <2>4, <2>5, AgreementAfter DEF StopInv
  <2>8. \A s \in Positions(events', "started") : UnderResumption(events', s)
    BY <1>1, <2>2, <2>6, ResumptionsAfter DEF StopInv
  <2>9. QED
    BY <2>2, <2>7, <2>8 DEF StopInv
<1>3. CASE ApprovedStart
  <2>1. PICK act \in Actions, p \in Positions(events, "approval"), c, q, e \in EventType :
          ApprovedEvents(act, p, c, q, e)
    BY <1>3, ApprovedStartEvents
  <2> DEFINE log1 == Append(events, c)
             log2 == Append(log1, q)
  <2>2. /\ events' = Append(log2, e) /\ status' = status /\ status = "active"
        /\ c.type \notin StopTypes /\ q.type \notin StopTypes /\ e.type \notin StopTypes
        /\ c.type # "started" /\ q.type # "started"
    BY <2>1 DEF ApprovedEvents, KeepsRun, Precheck, Live, StopTypes
  <2>3. /\ log1 \in Seq(EventType) /\ Len(log1) = n + 1
        /\ log2 \in Seq(EventType) /\ Len(log2) = n + 2 /\ Len(events') = n + 3
    BY <1>1, <2>2
  <2>4. /\ Agrees(log1, LatestBefore(log1, n + 2), status)
        /\ \A s \in Positions(log1, "started") : UnderResumption(log1, s)
    <3>1. Agrees(log1, LatestBefore(log1, n + 2), status)
      BY <1>1, <2>2, AgreementAfter DEF StopInv, StopTypes
    <3>2. QED
      BY <1>1, <2>2, <3>1, ResumptionsAfter DEF StopInv
  <2> HIDE DEF log1
  <2>5. /\ Agrees(log2, LatestBefore(log2, n + 3), status)
        /\ \A s \in Positions(log2, "started") : UnderResumption(log2, s)
    <3>1. LatestBefore(log1, Len(log1) + 1) = LatestBefore(log1, n + 2) /\ Len(log1) + 2 = n + 3
      BY <1>1, <2>3
    <3>2. Agrees(log2, LatestBefore(log2, n + 3), status)
      BY <2>2, <2>3, <2>4, <3>1, AgreementAfter DEF StopTypes
    <3>3. QED
      BY <2>2, <2>3, <2>4, <3>1, <3>2, ResumptionsAfter
  <2> HIDE DEF log2
  <2>6. /\ Agrees(events', LatestBefore(events', n + 4), status)
        /\ \A s \in Positions(events', "started") : UnderResumption(events', s)
    <3>1. LatestBefore(log2, Len(log2) + 1) = LatestBefore(log2, n + 3) /\ Len(log2) + 2 = n + 4
      BY <1>1, <2>3
    <3>2. Agrees(events', LatestBefore(events', n + 4), status)
      BY <2>2, <2>3, <2>5, <3>1, AgreementAfter DEF StopTypes
    <3>3. QED
      BY <2>2, <2>3, <2>5, <3>1, <3>2, ResumptionsAfter
  <2>7. Len(events') + 1 = n + 4
    BY <1>1, <2>3
  <2>8. QED
    BY <2>2, <2>6, <2>7 DEF StopInv
<1>4. CASE LogRests
  BY <1>4 DEF LogRests, runVars, StopInv
<1>5. QED
  BY <1>2, <1>3, <1>4, StepsOfTheLog

\* The status of a run is what the last suspension, cancellation or resumption in its
\* log says, whatever came after it, and nothing was started while it was stopped.
THEOREM StopsAreHonouredCorrect == Spec => []StopsAreHonoured
<1>1. Init => StopInv
  BY DEF Init, StopInv, Agrees, LatestBefore, Latest, StopsBefore, Positions
<1>2. TypeOK /\ StopInv /\ [Next]_vars => StopInv'
  BY StopsInductive
<1>3. QED
  BY <1>1, <1>2, StopInvSuffices, TypeCorrect, PTL DEF Spec

-----------------------------------------------------------------------------
(* The budget.                                                             *)

IssuedUnder(log, q) == {i \in Issued(log) : log[i].policy = q}

LEMMA PositionsFinite ==
  ASSUME NEW log \in Seq(EventType), NEW S \in SUBSET DOMAIN log
  PROVE  IsFiniteSet(S) /\ Cardinality(S) \in Nat
<1>1. IsFiniteSet(1..Len(log))
  BY FS_Interval
<1>2. S \subseteq 1..Len(log)
  OBVIOUS
<1>3. QED
  BY <1>1, <1>2, FS_Subset, FS_CardinalityType

\* One more event issues at most itself.
LEMMA IssuedUnderAppend ==
  ASSUME NEW log \in Seq(EventType), NEW e \in EventType, NEW q
  PROVE  IssuedUnder(Append(log, e), q) =
           IF e.type = "proposal" /\ e.authorized /\ e.policy = q
             THEN IssuedUnder(log, q) \cup {Len(log) + 1} ELSE IssuedUnder(log, q)
<1> DEFINE longer == Append(log, e)
<1>1. /\ \A i \in Positions(log, "proposal") : longer[i] = log[i]
      /\ longer[Len(log) + 1] = e
  BY DEF Positions
<1>2. Positions(longer, "proposal") =
        IF e.type = "proposal" THEN Positions(log, "proposal") \cup {Len(log) + 1}
                               ELSE Positions(log, "proposal")
  BY PositionsOfAppend
<1> HIDE DEF longer
<1>3. \A i : i \in IssuedUnder(longer, q) <=>
             \/ i \in IssuedUnder(log, q)
             \/ e.type = "proposal" /\ e.authorized /\ e.policy = q /\ i = Len(log) + 1
  <2>1. CASE e.type = "proposal"
    BY <1>1, <1>2, <2>1 DEF Issued, IssuedUnder
  <2>2. CASE e.type # "proposal"
    BY <1>1, <1>2, <2>2 DEF Issued, IssuedUnder
  <2>3. QED
    BY <2>1, <2>2
<1>4. QED
  BY <1>3 DEF longer

\* An authorization under a contract with budget left stays within it.
LEMMA BudgetAfterIssue ==
  ASSUME NEW log \in Seq(EventType), NEW q, NEW max \in Nat,
         Cardinality(ActionRecords(log)) < max
  PROVE  Cardinality(IssuedUnder(log, q) \cup {Len(log) + 1}) <= max
<1>1. /\ IssuedUnder(log, q) \subseteq ActionRecords(log)
      /\ IssuedUnder(log, q) \in SUBSET DOMAIN log /\ ActionRecords(log) \in SUBSET DOMAIN log
  BY DEF IssuedUnder, Issued, ActionRecords, Positions
<1>2. /\ IsFiniteSet(IssuedUnder(log, q)) /\ Cardinality(IssuedUnder(log, q)) \in Nat
      /\ IsFiniteSet(ActionRecords(log)) /\ Cardinality(ActionRecords(log)) \in Nat
  BY <1>1, PositionsFinite
<1>3. Cardinality(IssuedUnder(log, q)) <= Cardinality(ActionRecords(log))
  BY <1>1, <1>2, FS_Subset
<1>4. Len(log) + 1 \notin IssuedUnder(log, q)
  BY <1>1
<1>5. Cardinality(IssuedUnder(log, q) \cup {Len(log) + 1}) = Cardinality(IssuedUnder(log, q)) + 1
  BY <1>2, <1>4, FS_AddElement
<1>6. QED
  BY <1>2, <1>3, <1>5

LEMMA BudgetInductive ==
  ASSUME TypeOK, BudgetRespected, [Next]_vars
  PROVE  BudgetRespected'
<1>1. events \in Seq(EventType) /\ policy \in Policies /\ Len(events) \in Nat
  BY DEF TypeOK
<1>2. \A q \in Policies : Contract[q].maxActions \in Nat
  BY GateConstants DEF ContractType
<1>3. SUFFICES ASSUME NEW q \in Policies
               PROVE  Cardinality(IssuedUnder(events', q)) <= Contract[q].maxActions
  BY DEF BudgetRespected, IssuedUnder
<1>4. Cardinality(IssuedUnder(events, q)) <= Contract[q].maxActions
  BY DEF BudgetRespected, IssuedUnder
<1>5. CASE OneEvent
  <2>1. PICK e \in EventType : LogStep(e) /\ Justified(e)
    BY <1>5 DEF OneEvent
  <2>2. events' = Append(events, e)
    BY <2>1 DEF LogStep
  <2>3. CASE e.type = "proposal" /\ e.authorized /\ e.policy = q
    <3>1. q = policy /\ Cardinality(ActionRecords(events)) < Contract[q].maxActions
      BY <2>1, <2>3 DEF Justified, Precheck, WithinBudget
    <3>2. QED
      BY <1>1, <1>2, <2>2, <2>3, <3>1, IssuedUnderAppend, BudgetAfterIssue
  <2>4. CASE ~(e.type = "proposal" /\ e.authorized /\ e.policy = q)
    BY <1>1, <1>4, <2>2, <2>4, IssuedUnderAppend
  <2>5. QED
    BY <2>3, <2>4
<1>6. CASE ApprovedStart
  <2>1. PICK act \in Actions, p \in Positions(events, "approval"), c, r, s \in EventType :
          ApprovedEvents(act, p, c, r, s)
    BY <1>6, ApprovedStartEvents
  <2> DEFINE log1 == Append(events, c)
             log2 == Append(log1, r)
  <2>2. /\ events' = Append(log2, s) /\ c.type = "approval_consumed" /\ s.type = "started"
        /\ r.policy = policy /\ Cardinality(ActionRecords(events)) < Contract[policy].maxActions
    BY <2>1 DEF ApprovedEvents, Precheck, WithinBudget
  <2>3. /\ log1 \in Seq(EventType) /\ Len(log1) = Len(events) + 1 /\ log2 \in Seq(EventType)
        /\ Positions(log1, "proposal") = Positions(events, "proposal")
    BY <1>1, <2>2, PositionsOfAppend
  <2>4. IssuedUnder(log1, q) = IssuedUnder(events, q)
    BY <1>1, <2>2, IssuedUnderAppend
  <2>5. Cardinality(ActionRecords(log1)) < Contract[policy].maxActions
    BY <2>2, <2>3 DEF ActionRecords
  <2> HIDE DEF log1
  <2>6. IssuedUnder(events', q) = IssuedUnder(log2, q)
    <3> HIDE DEF log2
    <3>1. QED
      BY <2>2, <2>3, IssuedUnderAppend
  <2>7. CASE IssuedUnder(log2, q) = IssuedUnder(log1, q)
    BY <1>4, <2>4, <2>6, <2>7
  <2>8. CASE IssuedUnder(log2, q) # IssuedUnder(log1, q)
    <3>1. IssuedUnder(log2, q) = IssuedUnder(log1, q) \cup {Len(log1) + 1} /\ r.policy = q
      BY <2>3, <2>8, IssuedUnderAppend
    <3>2. QED
      BY <1>2, <2>2, <2>3, <2>5, <2>6, <3>1, BudgetAfterIssue
  <2>9. QED
    BY <2>7, <2>8
<1>7. CASE LogRests
  BY <1>4, <1>7 DEF LogRests, runVars
<1>8. QED
  BY <1>5, <1>6, <1>7, StepsOfTheLog

\* No contract ever authorizes more actions than its budget, however proposals,
\* approved executions and changes of contract follow one another.
THEOREM BudgetRespectedCorrect == Spec => []BudgetRespected
<1>1. Init => BudgetRespected
  <2> SUFFICES ASSUME Init, NEW q \in Policies
               PROVE  Cardinality(IssuedUnder(events, q)) <= Contract[q].maxActions
    BY DEF BudgetRespected, IssuedUnder
  <2>1. IssuedUnder(events, q) = {}
    BY DEF Init, IssuedUnder, Issued, Positions
  <2>2. Contract[q].maxActions \in Nat
    BY GateConstants DEF ContractType
  <2>3. QED
    BY <2>1, <2>2, FS_EmptySet
<1>2. TypeOK /\ BudgetRespected /\ [Next]_vars => BudgetRespected'
  BY BudgetInductive
<1>3. QED
  BY <1>1, <1>2, TypeCorrect, PTL DEF Spec

-----------------------------------------------------------------------------
(* Approvals.                                                              *)

\* What an issue says of the contract it was made under; and who granted approvals.
GrantInv ==
  /\ \A i \in Issued(events) :
       IF events[i].approval = 0
         THEN events[i].action \notin Contract[events[i].policy].approval
         ELSE i \in AuthsOf(events, "started")
  /\ \A p \in Positions(events, "approval") :
       \/ Contract[events[p].policy].selfApproval
       \/ events[p].approver # Principal[events[p].action]

LEMMA GrantInductive ==
  ASSUME TypeOK, GrantInv, [Next]_vars
  PROVE  GrantInv'
<1> DEFINE n == Len(events)
<1>1. events \in Seq(EventType) /\ n \in Nat /\ DOMAIN events = 1..n
  BY DEF TypeOK
<1>2. CASE OneEvent
  <2>1. PICK e \in EventType : LogStep(e) /\ Justified(e)
    BY <1>2 DEF OneEvent
  <2>2. /\ events' = Append(events, e) /\ DOMAIN events' = 1..(n + 1)
        /\ events'[n + 1] = e /\ \A i \in 1..n : events'[i] = events[i]
    BY <1>1, <2>1, OneEventLog
  <2>3. AuthsOf(events, "started") \subseteq AuthsOf(events', "started")
    BY <1>1, <2>2, AuthsOfAppend
  <2>4. ASSUME NEW i \in Issued(events')
        PROVE  IF events'[i].approval = 0
                 THEN events'[i].action \notin Contract[events'[i].policy].approval
                 ELSE i \in AuthsOf(events', "started")
    <3>1. CASE i \in 1..n
      <4>1. i \in Issued(events) /\ events'[i] = events[i]
        BY <1>1, <2>2, <3>1 DEF Issued, Positions
      <4>2. QED
        BY <2>3, <4>1 DEF GrantInv
    <3>2. CASE i = n + 1
      <4>1. e.type = "proposal" /\ e.authorized
        BY <2>2, <3>2 DEF Issued, Positions
      <4>2. QED
        BY <2>1, <2>2, <3>2, <4>1 DEF Justified, ApprovalRequired
    <3>3. QED
      BY <1>1, <2>2, <3>1, <3>2 DEF Issued, Positions
  <2>5. ASSUME NEW p \in Positions(events', "approval")
        PROVE  \/ Contract[events'[p].policy].selfApproval
               \/ events'[p].approver # Principal[events'[p].action]
    <3>1. CASE p \in 1..n
      BY <1>1, <2>2, <3>1 DEF GrantInv, Positions
    <3>2. CASE p = n + 1
      BY <2>1, <2>2, <3>2 DEF Justified, Positions
    <3>3. QED
      BY <1>1, <2>2, <3>1, <3>2 DEF Positions
  <2>6. QED
    BY <2>4, <2>5 DEF GrantInv
<1>3. CASE ApprovedStart
  <2>1. PICK act \in Actions, g \in Positions(events, "approval"), c, q, s \in EventType :
          ApprovedEvents(act, g, c, q, s)
    BY <1>3, ApprovedStartEvents
  <2>2. /\ Len(events') = n + 3 /\ events'[n + 1] = c /\ events'[n + 2] = q
        /\ events'[n + 3] = s /\ \A i \in 1..n : events'[i] = events[i]
        /\ c.type = "approval_consumed" /\ q.type = "proposal" /\ q.approval = g
        /\ s.type = "started" /\ s.auth = n + 2
    BY <2>1 DEF ApprovedEvents
  <2>3. DOMAIN events' = 1..(n + 3)
    <3>1. events' \in Seq(EventType)
      BY <1>1, <2>1 DEF ApprovedEvents
    <3>2. QED
      BY <2>2, <3>1
  <2>4. \A i \in DOMAIN events' : i \in 1..n \/ i = n + 1 \/ i = n + 2 \/ i = n + 3
    BY <1>1, <2>3
  <2>5. n + 2 \in AuthsOf(events', "started")
    BY <1>1, <2>2, <2>3 DEF AuthsOf, Positions
  <2>6. AuthsOf(events, "started") \subseteq AuthsOf(events', "started")
    <3>1. ASSUME NEW i \in Positions(events, "started")
          PROVE  i \in Positions(events', "started") /\ events'[i] = events[i]
      BY <1>1, <2>2, <2>3 DEF Positions
    <3>2. QED
      BY <3>1 DEF AuthsOf
  <2>7. ASSUME NEW i \in Issued(events')
        PROVE  IF events'[i].approval = 0
                 THEN events'[i].action \notin Contract[events'[i].policy].approval
                 ELSE i \in AuthsOf(events', "started")
    <3>1. CASE i \in 1..n
      <4>1. i \in Issued(events) /\ events'[i] = events[i]
        BY <1>1, <2>2, <3>1 DEF Issued, Positions
      <4>2. QED
        BY <2>6, <4>1 DEF GrantInv
    <3>2. CASE i = n + 2
      <4>1. events'[i].approval # 0
        BY <1>1, <2>2, <3>2 DEF Positions
      <4>2. QED
        BY <2>5, <3>2, <4>1
    <3>3. QED
      BY <2>2, <2>4, <3>1, <3>2 DEF Issued, Positions
  <2>8. ASSUME NEW p \in Positions(events', "approval")
        PROVE  \/ Contract[events'[p].policy].selfApproval
               \/ events'[p].approver # Principal[events'[p].action]
    <3>1. p \in 1..n
      BY <2>2, <2>4 DEF Positions
    <3>2. QED
      BY <1>1, <2>2, <3>1 DEF GrantInv, Positions
  <2>9. QED
    BY <2>7, <2>8 DEF GrantInv
<1>4. CASE LogRests
  BY <1>4 DEF LogRests, runVars, GrantInv
<1>5. QED
  BY <1>2, <1>3, <1>4, StepsOfTheLog

\* Only two operations hand an authorization to an idle worker.
LEMMA OnlyStartsStart ==
  ASSUME TypeOK, Next, NEW w \in Workers, StartsNow(w)
  PROVE  \/ \E v \in Workers, a \in Issued(events) : StartAuthorized(v, a)
         \/ ApprovedStart
<1>1. pc' # pc
  BY DEF StartsNow
<1>2. ~PlainStep
  BY <1>1 DEF PlainStep, workerVars
<1>3. \A act \in Actions : ~Propose(act)
  BY <1>1, <1>2, ProposeShape, AuthorizeShape DEF workerVars
<1>4. ~OperatorStep
  BY <1>1, <1>2, OperatorShape DEF workerVars
<1>5. ~Tick /\ ~StepBack
  BY <1>1 DEF Tick, StepBack, workerVars
<1>6. ASSUME NEW v \in Workers, NEW x \in {"idle", "running"}, pc' = [pc EXCEPT ![v] = x]
      PROVE  FALSE
  BY <1>6 DEF StartsNow, TypeOK
<1>7. ASSUME NEW v \in Workers,
             \/ CallExecutor(v) \/ FinishRefused(v) \/ Abandon(v)
             \/ \E outcome \in Outcomes : FinishExecution(v, outcome)
      PROVE  FALSE
  BY <1>6, <1>7 DEF CallExecutor, FinishRefused, Abandon, FinishExecution, EndTask
<1>8. QED
  BY <1>3, <1>4, <1>5, <1>7 DEF Next, WorkerStep, ApprovedStart

\* What the contract in force asks an approval for starts in the step that consumes a
\* fresh one, given by somebody else: an authorization of a laxer contract does not
\* get around it, and neither does an approval consumed or revoked before.
THEOREM ApprovedBeforeStartCorrect == Spec => ApprovedBeforeStart
<1> DEFINE Approved(act) ==
             \E p \in Positions(events, "approval") :
               /\ events'[Len(events) + 1].type = "approval_consumed"
               /\ events'[Len(events) + 1].approval = p
               /\ events[p].action = act /\ events[p].policy = policy
               /\ now < events[p].expires
               /\ \/ Contract[policy].selfApproval
                  \/ events[p].approver # Principal[act]
               /\ \A i \in DOMAIN events :
                    events[i].type \in {"approval_consumed", "approval_revocation"}
                      => events[i].approval # p
           A == \A w \in Workers : StartsNow(w) =>
                  LET act == events'[Len(events')].action
                  IN act \in Contract[policy].approval => Approved(act)
<1>1. ASSUME TypeOK, GrantInv, [Next]_vars, ~UNCHANGED vars,
             NEW w \in Workers, StartsNow(w),
             events'[Len(events')].action \in Contract[policy].approval
      PROVE  Approved(events'[Len(events')].action)
  <2>1. CASE \E v \in Workers, a \in Issued(events) : StartAuthorized(v, a)
    <3>1. PICK v \in Workers, a \in Issued(events) : StartAuthorized(v, a)
      BY <2>1
    <3> DEFINE e == StartedEvent(events[a].action, a, 0, events[a].policy)
    <3>2. a \in 1..Len(events) /\ a \in Nat /\ 0 \in Nat /\ events[a] \in EventType
      BY <1>1 DEF TypeOK, Issued, Positions
    <3>3. events[a].action \in Actions \cup {NoAction} /\ events[a].policy \in Policies
      BY <3>2 DEF EventType
    <3>4. e \in EventType
      BY <1>1, <3>2, <3>3, StartedEventIsTyped
    <3>5. e.action = events[a].action
      BY DEF StartedEvent, Ev, Event
    <3>6. /\ events' = Append(events, e) /\ events[a].policy = policy
          /\ a \notin AuthsOf(events, "started")
      BY <3>1 DEF StartAuthorized, Commit, SameContract, Started
    <3> HIDE DEF e
    <3>7. events'[Len(events')].action = events[a].action
      BY <1>1, <3>4, <3>5, <3>6 DEF TypeOK
    <3>8. events[a].action \notin Contract[policy].approval
      BY <1>1, <3>6 DEF GrantInv
    <3>9. QED
      BY <1>1, <3>7, <3>8
  <2>2. CASE ApprovedStart
    <3>1. PICK act \in Actions, p \in Positions(events, "approval"), c, q, s \in EventType :
            ApprovedEvents(act, p, c, q, s)
      BY <1>1, <2>2, ApprovedStartEvents
    <3>2. /\ events'[Len(events')].action = act
          /\ events'[Len(events) + 1].type = "approval_consumed"
          /\ events'[Len(events) + 1].approval = p
          /\ OpenApproval(events, p, act, policy, now)
      BY <3>1 DEF ApprovedEvents
    <3>3. /\ events[p].action = act /\ events[p].policy = policy /\ now < events[p].expires
          /\ p \notin ApprovalsOf(events, "approval_consumed")
          /\ p \notin ApprovalsOf(events, "approval_revocation")
      BY <3>2 DEF OpenApproval
    <3>4. ASSUME NEW i \in DOMAIN events,
                 events[i].type \in {"approval_consumed", "approval_revocation"}
          PROVE  events[i].approval # p
      BY <3>3, <3>4 DEF ApprovalsOf, Positions
    <3>5. Contract[policy].selfApproval \/ events[p].approver # Principal[act]
      BY <1>1, <3>3 DEF GrantInv
    <3>6. QED
      BY <3>2, <3>3, <3>4, <3>5
  <2>3. QED
    BY <1>1, <2>1, <2>2, OnlyStartsStart
<1>2. TypeOK /\ GrantInv /\ [Next]_vars => [A]_vars
  BY <1>1
<1>3. Init => GrantInv
  BY DEF Init, GrantInv, Issued, Positions
<1>4. TypeOK /\ GrantInv /\ [Next]_vars => GrantInv'
  BY GrantInductive
<1>5. QED
  BY <1>2, <1>3, <1>4, TypeCorrect, PTL DEF Spec, ApprovedBeforeStart


-----------------------------------------------------------------------------
(* Reconciliation.                                                         *)

Doubts == {"uncertain", "unresolved"}

Speaking == {"proposal", "revocation", "approval_revocation"}

\* Nothing but outcomes was recorded since event i said that there is doubt.
BlamedOnDoubt(i) ==
  /\ i \in DOMAIN events /\ events[i].type \in Speaking /\ events[i].reason \in Doubts
  /\ \A j \in (i+1)..Len(events) : events[j].type = "outcome"

BlameInv == status = "blocked" /\ lastReason \in Doubts => \E i \in Nat : BlamedOnDoubt(i)

LEMMA BlameInductive ==
  ASSUME TypeOK, BlameInv, [Next]_vars
  PROVE  BlameInv'
<1>1. CASE OneEvent
  <2>1. PICK e \in EventType : LogStep(e) /\ Justified(e)
    BY <1>1 DEF OneEvent
  <2> DEFINE n == Len(events)
  <2>2. /\ n \in Nat /\ Len(events') = n + 1 /\ events'[n + 1] = e
        /\ \A i \in 1..n : events'[i] = events[i]
        /\ DOMAIN events = 1..n /\ DOMAIN events' = 1..(n + 1)
    BY <2>1, OneEventLog DEF LogStep
  <2> HIDE DEF n
  <2>3. SUFFICES ASSUME status' = "blocked", lastReason' \in Doubts
                 PROVE  \E i \in Nat : BlamedOnDoubt(i)'
    BY DEF BlameInv
  <2>4. CASE e.type \in Speaking
    <3>1. e.reason \in Doubts
      BY <2>1, <2>3, <2>4 DEF Justified, Doubts, Speaking
    <3>2. PICK i \in Nat : i = n + 1
      BY <2>2
    <3>3. BlamedOnDoubt(i)'
      BY <2>2, <2>4, <3>1, <3>2 DEF BlamedOnDoubt
    <3>4. QED
      BY <3>3
  <2>5. CASE e.type \notin Speaking
    <3>1. status = "blocked" /\ lastReason \in Doubts /\ e.type = "outcome"
      <4>1. e.type \in EventTypes
        BY DEF EventType
      <4>2. QED
        BY <2>1, <2>3, <2>5, <4>1 DEF Justified, KeepsRun, EventTypes, Doubts, Speaking, Live
    <3>2. PICK i \in Nat : BlamedOnDoubt(i)
      BY <3>1 DEF BlameInv
    <3>3. i \in 1..n /\ i \in 1..(n + 1) /\ events'[i] = events[i]
      BY <2>2, <3>2 DEF BlamedOnDoubt
    <3>4. ASSUME NEW j \in (i+1)..(n + 1) PROVE events'[j].type = "outcome"
      <4>1. CASE j = n + 1
        BY <2>2, <3>1, <4>1
      <4>2. CASE j \in (i+1)..n
        BY <2>2, <3>2, <3>3, <4>2 DEF BlamedOnDoubt, n
      <4>3. QED
        BY <2>2, <3>3, <4>1, <4>2
    <3>5. BlamedOnDoubt(i)'
      BY <2>2, <3>2, <3>3, <3>4 DEF BlamedOnDoubt
    <3>6. QED
      BY <3>5
  <2>6. QED
    BY <2>4, <2>5
<1>2. CASE ApprovedStart
  BY <1>2, ApprovedStartEvents DEF ApprovedEvents, Precheck, Live, KeepsRun, BlameInv
<1>3. CASE LogRests
  BY <1>3 DEF LogRests, runVars, BlameInv, BlamedOnDoubt
<1>4. QED
  BY <1>1, <1>2, <1>3, StepsOfTheLog

\* What a reconciliation releases is a run of which the last thing said, outcomes aside, is
\* that an execution is unresolved or uncertain, by the gate or by who revoked something
\* in these words: no other refusal is forgotten with it.
THEOREM ReleasesOnlyUncertaintyCorrect == Spec => ReleasesOnlyUncertainty
<1> DEFINE Blamed == \E i \in DOMAIN events :
                       /\ events[i].type \in {"proposal", "revocation", "approval_revocation"}
                       /\ events[i].reason \in {"uncertain", "unresolved"}
                       /\ \A j \in (i+1)..Len(events) : events[j].type = "outcome"
           A == status = "blocked" /\ status' = "active" => Blamed
<1>1. BlameInv /\ status = "blocked" /\ lastReason \in Doubts => Blamed
  BY DEF BlameInv, BlamedOnDoubt, Doubts, Speaking
<1>2. ASSUME TypeOK, BlameInv, [Next]_vars, status = "blocked", status' = "active"
      PROVE  Blamed
  <2>1. CASE OneEvent
    <3>1. PICK e \in EventType : LogStep(e) /\ Justified(e)
      BY <2>1 DEF OneEvent
    <3>2. e.type = "reconciliation"
      <4>1. e.type \in EventTypes
        BY DEF EventType
      <4>2. QED
        BY <1>2, <3>1, <4>1 DEF Justified, KeepsRun, EventTypes
    <3>3. lastReason \in Doubts
      BY <1>2, <3>1, <3>2 DEF Justified, StatusAfterReconcile, Doubts
    <3>4. QED
      BY <1>1, <1>2, <3>3
  <2>2. CASE ApprovedStart
    BY <1>2, <2>2, ApprovedStartEvents DEF ApprovedEvents, Precheck, Live
  <2>3. CASE LogRests
    BY <1>2, <2>3 DEF LogRests, runVars
  <2>4. QED
    BY <1>2, <2>1, <2>2, <2>3, StepsOfTheLog
<1>3. TypeOK /\ BlameInv /\ [Next]_vars => [A]_vars
  BY <1>2
<1>4. Init => BlameInv
  BY DEF Init, BlameInv
<1>5. TypeOK /\ BlameInv /\ [Next]_vars => BlameInv'
  BY BlameInductive
<1>6. QED
  BY <1>3, <1>4, <1>5, TypeCorrect, PTL DEF Spec, ReleasesOnlyUncertainty

-----------------------------------------------------------------------------
(* Implementation of the ledger: the scans after one more event.           *)

Unknown(log) ==
  {log[i].auth : i \in {j \in Positions(log, "outcome") :
                          log[j].outcome = "unknown_execution_status"}}

LiveIn(log) == {a \in Issued(log) : OpenForExecution(log, a)} \ AuthsOf(log, "started")

\* The event issues the authorization at its position; it closes an authorization.
Issues(e) == e.type = "proposal" /\ e.authorized

Closes(log, e, a) ==
  \/ e.type = "outcome" /\ e.auth = a
  \/ e.type = "revocation" /\ e.auth \in {0, a} /\ e.action \in {NoAction, log[a].action}
  \/ e.type = "reconciliation" /\ e.auth # a

LEMMA UnknownOfAppend ==
  ASSUME NEW log \in Seq(EventType), NEW e \in EventType
  PROVE  Unknown(Append(log, e)) =
           IF e.type = "outcome" /\ e.outcome = "unknown_execution_status"
             THEN Unknown(log) \cup {e.auth} ELSE Unknown(log)
<1> DEFINE longer == Append(log, e)
           U(l) == {j \in Positions(l, "outcome") : l[j].outcome = "unknown_execution_status"}
<1>1. /\ \A i \in Positions(log, "outcome") : longer[i] = log[i]
      /\ longer[Len(log) + 1] = e
  BY DEF Positions
<1>2. Positions(longer, "outcome") =
        IF e.type = "outcome" THEN Positions(log, "outcome") \cup {Len(log) + 1}
                              ELSE Positions(log, "outcome")
  BY PositionsOfAppend
<1> HIDE DEF longer
<1>3. /\ \A i \in U(log) : longer[i] = log[i]
      /\ U(longer) = IF e.type = "outcome" /\ e.outcome = "unknown_execution_status"
                       THEN U(log) \cup {Len(log) + 1} ELSE U(log)
  <2>1. \A i \in U(log) : longer[i] = log[i]
    BY <1>1
  <2>2. \A i : i \in U(longer) <=>
          \/ i \in U(log)
          \/ /\ e.type = "outcome" /\ e.outcome = "unknown_execution_status"
             /\ i = Len(log) + 1
    <3>1. CASE e.type = "outcome"
      BY <1>1, <1>2, <3>1
    <3>2. CASE e.type # "outcome"
      BY <1>1, <1>2, <3>2
    <3>3. QED
      BY <3>1, <3>2
  <2>3. QED
    BY <2>1, <2>2
<1>4. /\ Unknown(longer) = {longer[i].auth : i \in U(longer)}
      /\ Unknown(log) = {log[i].auth : i \in U(log)}
  BY DEF Unknown
<1> HIDE DEF U
<1>5. \A x : x \in Unknown(longer) <=>
        \/ x \in Unknown(log)
        \/ e.type = "outcome" /\ e.outcome = "unknown_execution_status" /\ x = e.auth
  <2>1. CASE e.type = "outcome" /\ e.outcome = "unknown_execution_status"
    BY <1>1, <1>3, <1>4, <2>1
  <2>2. CASE ~(e.type = "outcome" /\ e.outcome = "unknown_execution_status")
    BY <1>3, <1>4, <2>2
  <2>3. QED
    BY <2>1, <2>2
<1>6. QED
  BY <1>5 DEF longer

LEMMA IssuedAfter ==
  ASSUME NEW log \in Seq(EventType), NEW e \in EventType
  PROVE  Issued(Append(log, e)) =
           IF Issues(e) THEN Issued(log) \cup {Len(log) + 1} ELSE Issued(log)
<1>1. CASE ~Issues(e)
  BY <1>1, IssuedOfAppend DEF Issues
<1>2. CASE Issues(e)
  <2> DEFINE longer == Append(log, e)
  <2>1. /\ \A i \in Positions(log, "proposal") : longer[i] = log[i]
        /\ longer[Len(log) + 1] = e
    BY DEF Positions
  <2>2. Positions(longer, "proposal") = Positions(log, "proposal") \cup {Len(log) + 1}
    BY <1>2, PositionsOfAppend DEF Issues
  <2> HIDE DEF longer
  <2>3. \A i : i \in Issued(longer) <=> i \in Issued(log) \cup {Len(log) + 1}
    BY <1>2, <2>1, <2>2 DEF Issued, Issues
  <2>4. QED
    BY <1>2, <2>3 DEF longer
<1>3. QED
  BY <1>1, <1>2

LEMMA OpenAfter ==
  ASSUME NEW log \in Seq(EventType), NEW e \in EventType, NEW a \in Issued(log)
  PROVE  OpenForExecution(Append(log, e), a) <=>
           OpenForExecution(log, a) /\ ~Closes(log, e, a)
<1> DEFINE longer == Append(log, e)
<1>1. /\ a \in 1..Len(log) /\ longer[a] = log[a] /\ a < Len(log) + 1
      /\ \A i \in 1..Len(log) : longer[i] = log[i]
      /\ longer[Len(log) + 1] = e
  BY DEF Issued, Positions
<1>2. a \in Issued(longer)
  BY IssuedAfter
<1>3. \A type : Positions(longer, type) =
        IF e.type = type THEN Positions(log, type) \cup {Len(log) + 1} ELSE Positions(log, type)
  BY PositionsOfAppend
<1>4. HasOutcome(longer, a) <=> HasOutcome(log, a) \/ (e.type = "outcome" /\ e.auth = a)
  BY AuthsOfAppend DEF HasOutcome
<1> HIDE DEF longer
<1>5. \A type : \A r \in Positions(log, type) : longer[r] = log[r]
  BY <1>1 DEF Positions
<1>6. RevokedAuth(longer, a) <=>
        \/ RevokedAuth(log, a)
        \/ /\ e.type = "revocation" /\ e.auth \in {0, a}
           /\ e.action \in {NoAction, log[a].action}
  <2>1. CASE e.type = "revocation"
    BY <1>1, <1>3, <1>5, <2>1 DEF RevokedAuth
  <2>2. CASE e.type # "revocation"
    BY <1>1, <1>3, <1>5, <2>2 DEF RevokedAuth
  <2>3. QED
    BY <2>1, <2>2
<1>7. Invalidated(longer, a) <=>
        Invalidated(log, a) \/ (e.type = "reconciliation" /\ e.auth # a)
  <2>1. CASE e.type = "reconciliation"
    BY <1>1, <1>3, <1>5, <2>1 DEF Invalidated
  <2>2. CASE e.type # "reconciliation"
    BY <1>1, <1>3, <1>5, <2>2 DEF Invalidated
  <2>3. QED
    BY <2>1, <2>2
<1>8. QED
  BY <1>2, <1>4, <1>6, <1>7 DEF OpenForExecution, OpenForOutcome, Closes, longer

\* A new authorization is open: nothing later than itself is in the log, and no
\* earlier event names it.
LEMMA NewIsLive ==
  ASSUME NEW log \in Seq(EventType), ReferencesSound(log), NEW e \in EventType, Issues(e)
  PROVE  Len(log) + 1 \in LiveIn(Append(log, e))
<1> DEFINE longer == Append(log, e)
           n == Len(log) + 1
<1>1. n \in Issued(longer)
  BY IssuedAfter
<1>2. \A type \in {"outcome", "started"} : n \notin AuthsOf(longer, type)
  <2>1. \A type \in {"outcome", "started"} : \A i \in Positions(log, type) :
          log[i].auth \in 1..Len(log)
    BY DEF ReferencesSound, NamesIssued, Issued, Positions
  <2>2. \A type \in {"outcome", "started"} : n \notin AuthsOf(log, type)
    BY <2>1 DEF AuthsOf
  <2>3. QED
    BY <2>2, AuthsOfAppend DEF Issues
<1>3. \A type : Positions(longer, type) \subseteq 1..n
  BY DEF Positions
<1>4. ~RevokedAuth(longer, n) /\ ~Invalidated(longer, n)
  BY <1>3 DEF RevokedAuth, Invalidated
<1> HIDE DEF longer
<1>5. QED
  BY <1>1, <1>2, <1>4 DEF LiveIn, OpenForExecution, OpenForOutcome, HasOutcome, longer

LEMMA LiveAfter ==
  ASSUME NEW log \in Seq(EventType), ReferencesSound(log), NEW e \in EventType
  PROVE  LiveIn(Append(log, e)) =
           ({a \in LiveIn(log) : ~Closes(log, e, a)}
              \cup (IF Issues(e) THEN {Len(log) + 1} ELSE {}))
             \ (IF e.type = "started" THEN {e.auth} ELSE {})
<1> DEFINE longer == Append(log, e)
           n == Len(log) + 1
<1>1. AuthsOf(longer, "started") =
        IF e.type = "started" THEN AuthsOf(log, "started") \cup {e.auth}
                              ELSE AuthsOf(log, "started")
  BY AuthsOfAppend
<1>2. \A a \in Issued(log) :
        OpenForExecution(longer, a) <=> OpenForExecution(log, a) /\ ~Closes(log, e, a)
  BY OpenAfter
<1>3. Issued(longer) = IF Issues(e) THEN Issued(log) \cup {n} ELSE Issued(log)
  BY IssuedAfter
<1>4. Issues(e) => n \in LiveIn(longer)
  BY NewIsLive
<1>5. Issues(e) => e.type # "started"
  BY DEF Issues
<1> HIDE DEF longer, n
<1>6. \A a : a \in LiveIn(longer) <=>
        \/ a \in LiveIn(log) /\ ~Closes(log, e, a) /\ ~(e.type = "started" /\ a = e.auth)
        \/ Issues(e) /\ a = n
  BY <1>1, <1>2, <1>3, <1>4 DEF LiveIn
<1>7. QED
  BY <1>5, <1>6 DEF longer, n


-----------------------------------------------------------------------------
(* The steps.                                                              *)

LedgerInv ==
  /\ ExecutionInv
  /\ LogReferencesSound
  /\ Issued(events) \subseteq 1..MaxEvents

\* The sets of the ledger after one event.
LEMMA SetsAfter ==
  ASSUME TypeOK, LogReferencesSound, NEW e \in EventType, LogStep(e)
  PROVE  /\ Issued(events') =
              IF Issues(e) THEN Issued(events) \cup {Len(events) + 1} ELSE Issued(events)
         /\ LiveAuths' =
              ({a \in LiveAuths : ~Closes(events, e, a)}
                 \cup (IF Issues(e) THEN {Len(events) + 1} ELSE {}))
                \ (IF e.type = "started" THEN {e.auth} ELSE {})
         /\ SpentAuths' = IF e.type = "started" THEN SpentAuths \cup {e.auth} ELSE SpentAuths
         /\ ClosedAuths' = IF e.type \in {"outcome", "reconciliation"}
                             THEN ClosedAuths \cup {e.auth} ELSE ClosedAuths
         /\ UnresolvedAuths(events') = SpentAuths' \ ClosedAuths'
         /\ UnresolvedAuths(events) = SpentAuths \ ClosedAuths
         /\ UncertainAuths(events') = Unknown(events') \ AuthsOf(events', "reconciliation")
         /\ UncertainAuths(events) = Unknown(events) \ AuthsOf(events, "reconciliation")
<1>1. events \in Seq(EventType) /\ events' = Append(events, e) /\ ReferencesSound(events)
  BY DEF TypeOK, LogStep, LogReferencesSound
<1>2. LiveAuths = LiveIn(events) /\ LiveAuths' = LiveIn(events')
  BY DEF LiveAuths, LiveIn, SpentAuths
<1>3. \A type : AuthsOf(events', type) =
        IF e.type = type THEN AuthsOf(events, type) \cup {e.auth} ELSE AuthsOf(events, type)
  BY <1>1, AuthsOfAppend
<1>4. /\ SpentAuths' = IF e.type = "started" THEN SpentAuths \cup {e.auth} ELSE SpentAuths
      /\ ClosedAuths' = IF e.type \in {"outcome", "reconciliation"}
                          THEN ClosedAuths \cup {e.auth} ELSE ClosedAuths
  BY <1>3 DEF SpentAuths, ClosedAuths
<1>5. /\ UnresolvedAuths(events') = SpentAuths' \ ClosedAuths'
      /\ UnresolvedAuths(events) = SpentAuths \ ClosedAuths
      /\ UncertainAuths(events') = Unknown(events') \ AuthsOf(events', "reconciliation")
      /\ UncertainAuths(events) = Unknown(events) \ AuthsOf(events, "reconciliation")
  BY DEF UnresolvedAuths, SpentAuths, ClosedAuths, UncertainAuths, Unknown
<1>6. QED
  BY <1>1, <1>2, <1>4, <1>5, IssuedAfter, LiveAfter

\* An authorization that was reconciled was spent.
LEMMA ReconciledWasSpent ==
  ASSUME LogReferencesSound
  PROVE  AuthsOf(events, "reconciliation") \subseteq SpentAuths
BY DEF LogReferencesSound, ReferencesSound, ReconciledAfterStart, AuthsOf, Positions, SpentAuths

LEMMA EventIsLedgerStep ==
  ASSUME LedgerInv, NEW e \in EventType, LogStep(e), Justified(e), invoked' = invoked
  PROVE  [Ledger!Next]_(Ledger!vars)
<1> DEFINE n == Len(events) + 1
           t == e.auth
           rec == AuthsOf(events, "reconciliation")
<1>1. TypeOK /\ LogReferencesSound /\ events \in Seq(EventType) /\ e.type \in EventTypes
  BY DEF LedgerInv, ExecutionInv, TypeOK, EventType
<1>2. /\ Issued(events') = IF Issues(e) THEN Issued(events) \cup {n} ELSE Issued(events)
      /\ LiveAuths' = ({a \in LiveAuths : ~Closes(events, e, a)}
                         \cup (IF Issues(e) THEN {n} ELSE {}))
                        \ (IF e.type = "started" THEN {t} ELSE {})
      /\ SpentAuths' = IF e.type = "started" THEN SpentAuths \cup {t} ELSE SpentAuths
      /\ ClosedAuths' = IF e.type \in {"outcome", "reconciliation"}
                          THEN ClosedAuths \cup {t} ELSE ClosedAuths
      /\ UnresolvedAuths(events') = SpentAuths' \ ClosedAuths'
      /\ UnresolvedAuths(events) = SpentAuths \ ClosedAuths
      /\ UncertainAuths(events') = Unknown(events') \ AuthsOf(events', "reconciliation")
      /\ UncertainAuths(events) = Unknown(events) \ rec
  BY <1>1, SetsAfter
<1>3. /\ Unknown(events') = IF e.type = "outcome" /\ e.outcome = "unknown_execution_status"
                              THEN Unknown(events) \cup {t} ELSE Unknown(events)
      /\ AuthsOf(events', "reconciliation") =
           IF e.type = "reconciliation" THEN rec \cup {t} ELSE rec
  BY <1>1, UnknownOfAppend, AuthsOfAppend DEF LogStep
<1>4. /\ n \notin Issued(events) /\ Issued(events) \subseteq 1..MaxEvents
      /\ rec \subseteq SpentAuths /\ rec \subseteq ClosedAuths
      /\ LiveAuths = LiveIn(events)
  BY <1>1, ReconciledWasSpent DEF Issued, Positions, LedgerInv, ClosedAuths,
     LiveAuths, LiveIn, SpentAuths
<1>5. CASE Issues(e)
  <2>1. n \in 1..MaxEvents /\ HasUncertain(events) = FALSE /\ HasUnresolved(events) = FALSE
    BY <1>1, <1>5 DEF Justified, Issues, Precheck, Room, GateConstants
  <2>2. \A a : ~Closes(events, e, a)
    BY <1>5 DEF Closes, Issues
  <2>3. Ledger!Issue(n)
    BY <1>2, <1>3, <1>4, <1>5, <2>1, <2>2
       DEF Ledger!Issue, Ledger!AllSettled, Issues, HasUncertain, HasUnresolved
  <2>4. QED
    BY <2>1, <2>3 DEF Ledger!Next
<1>6. CASE e.type = "started"
  <2>1. /\ t \in Issued(events) /\ OpenForExecution(events, t) /\ t \notin SpentAuths
        /\ t \notin AuthsOf(events, "outcome")
    BY <1>6 DEF Justified, Started, SpentAuths, OpenForExecution, OpenForOutcome, HasOutcome
  <2>2. t \in LiveAuths /\ t \notin ClosedAuths /\ t \in 1..MaxEvents
    BY <1>4, <2>1 DEF LiveAuths, ClosedAuths, SpentAuths
  <2>3. \A a : ~Closes(events, e, a) /\ ~Issues(e)
    BY <1>6 DEF Closes, Issues
  <2>4. Ledger!Spend(t)
    BY <1>2, <1>3, <1>6, <2>1, <2>2, <2>3 DEF Ledger!Spend
  <2>5. QED
    BY <2>2, <2>4 DEF Ledger!Next
<1>7. CASE e.type = "outcome"
  <2>1. t \in Issued(events) /\ t \notin AuthsOf(events, "outcome") /\ t \in 1..MaxEvents
    BY <1>4, <1>7 DEF Justified, OpenForOutcome, HasOutcome
  <2>2. ~Issues(e) /\ \A a : Closes(events, e, a) <=> a = t
    BY <1>7 DEF Closes, Issues
  <2>3. LiveAuths' = LiveAuths \ {t}
    BY <1>2, <1>7, <2>2
  <2>4. CASE t \in ClosedAuths
    <3>1. t \in rec
      BY <2>1, <2>4 DEF ClosedAuths
    <3>2. t \notin LiveAuths
      BY <1>4, <3>1 DEF LiveAuths
    <3>3. UNCHANGED Ledger!vars
      BY <1>2, <1>3, <1>7, <2>2, <2>3, <2>4, <3>1, <3>2 DEF Ledger!vars
    <3>4. QED
      BY <3>3
  <2>5. CASE t \notin ClosedAuths
    <3>1. t \notin rec
      BY <1>4, <2>5
    <3>2. Ledger!Record(t)
      BY <1>2, <1>3, <1>7, <2>1, <2>2, <2>3, <2>5, <3>1 DEF Ledger!Record
    <3>3. QED
      BY <2>1, <3>2 DEF Ledger!Next
  <2>6. QED
    BY <2>4, <2>5
<1>8. CASE e.type = "reconciliation"
  <2>1. t \in SpentAuths /\ t \in 1..MaxEvents
    BY <1>4, <1>8 DEF Justified, Reconcilable, Started, SpentAuths
  <2>2. ~Issues(e) /\ \A a : Closes(events, e, a) <=> a # t
    BY <1>8 DEF Closes, Issues
  <2>3. LiveAuths' = {}
    <3>1. t \notin LiveAuths
      BY <2>1 DEF LiveAuths
    <3>2. QED
      BY <1>2, <1>8, <2>2, <3>1
  <2>4. Ledger!Reconcile(t)
    BY <1>2, <1>3, <1>8, <2>1, <2>2, <2>3 DEF Ledger!Reconcile
  <2>5. QED
    BY <2>1, <2>4 DEF Ledger!Next
<1>9. CASE e.type = "revocation"
  <2>1. ~Issues(e)
    BY <1>9 DEF Issues
  <2>2. Ledger!Revoke
    BY <1>2, <1>3, <1>9, <2>1 DEF Ledger!Revoke
  <2>3. QED
    BY <2>2 DEF Ledger!Next
<1>10. CASE ~Issues(e) /\ e.type \notin {"started", "outcome", "reconciliation", "revocation"}
  <2>1. \A a : ~Closes(events, e, a)
    BY <1>10 DEF Closes
  <2>2. UNCHANGED Ledger!vars
    BY <1>2, <1>3, <1>10, <2>1 DEF Ledger!vars
  <2>3. QED
    BY <2>2
<1>11. QED
  BY <1>5, <1>6, <1>7, <1>8, <1>9, <1>10


\* An approved execution issues and spends its authorization in one step.
LEMMA ApprovedStartIsLedgerStep ==
  ASSUME LedgerInv, ApprovedStart, invoked' = invoked
  PROVE  [Ledger!Next]_(Ledger!vars)
<1>1. TypeOK /\ events \in Seq(EventType) /\ ReferencesSound(events)
  BY DEF LedgerInv, ExecutionInv, TypeOK, LogReferencesSound
<1>2. PICK act \in Actions, p \in Positions(events, "approval"), c, q, s \in EventType :
        ApprovedEvents(act, p, c, q, s)
  BY <1>1, ApprovedStartEvents
<1> DEFINE log1 == Append(events, c)
           log2 == Append(log1, q)
           t == Len(events) + 2
<1>3. /\ log1 \in Seq(EventType) /\ log2 \in Seq(EventType)
      /\ Len(log1) + 1 = t /\ t \in 1..MaxEvents /\ events' = Append(log2, s)
      /\ c.type = "approval_consumed" /\ ~Issues(c) /\ Issues(q) /\ q.type = "proposal"
      /\ s.type = "started" /\ s.auth = t /\ ~Issues(s)
  BY <1>1, <1>2, GateConstants DEF ApprovedEvents, Issues, Room
<1>4. ReferencesSound(log1) /\ ReferencesSound(log2)
  <2>1. Fits(events, c) /\ Fits(log1, q) /\ Fits(log2, s)
    BY <1>2, ApprovedEventsFit DEF LedgerInv
  <2> HIDE DEF log1
  <2>2. QED
    BY <1>1, <1>2, <1>3, <2>1, FittingKeepsReferences DEF log1
<1>5. /\ \A type : AuthsOf(log1, type) =
           IF c.type = type THEN AuthsOf(events, type) \cup {c.auth} ELSE AuthsOf(events, type)
      /\ Issued(log1) = Issued(events) /\ LiveIn(log1) = LiveIn(events)
      /\ Unknown(log1) = Unknown(events)
  <2>1. \A a : ~Closes(events, c, a)
    BY <1>3 DEF Closes
  <2>2. LiveIn(log1) = LiveIn(events)
    <3>1. c.type # "started"
      BY <1>3
    <3>2. LiveIn(log1) = {a \in LiveIn(events) : ~Closes(events, c, a)}
      BY <1>1, <1>3, <3>1, LiveAfter
    <3>3. QED
      BY <2>1, <3>2
  <2>3. Issued(log1) = Issued(events) /\ Unknown(log1) = Unknown(events)
    BY <1>1, <1>3, IssuedAfter, UnknownOfAppend
  <2>4. QED
    BY <1>1, <2>2, <2>3, AuthsOfAppend
<1> HIDE DEF log1
<1>6. /\ \A type : AuthsOf(log2, type) =
           IF q.type = type THEN AuthsOf(log1, type) \cup {q.auth} ELSE AuthsOf(log1, type)
      /\ Issued(log2) = Issued(log1) \cup {t} /\ LiveIn(log2) = LiveIn(log1) \cup {t}
      /\ Unknown(log2) = Unknown(log1)
  <2>1. \A a : ~Closes(log1, q, a)
    BY <1>3 DEF Closes
  <2>2. QED
    BY <1>3, <1>4, <2>1, AuthsOfAppend, IssuedAfter, LiveAfter, UnknownOfAppend
<1> HIDE DEF log2
<1>7. /\ \A type : AuthsOf(events', type) =
           IF s.type = type THEN AuthsOf(log2, type) \cup {s.auth} ELSE AuthsOf(log2, type)
      /\ Issued(events') = Issued(log2) /\ LiveIn(events') = LiveIn(log2) \ {t}
      /\ Unknown(events') = Unknown(log2)
  <2>1. \A a : ~Closes(log2, s, a)
    BY <1>3 DEF Closes
  <2>2. QED
    BY <1>3, <1>4, <2>1, AuthsOfAppend, IssuedAfter, LiveAfter, UnknownOfAppend
<1>8. t \notin Issued(events)
  BY <1>1 DEF Issued, Positions
<1>9. /\ AuthsOf(events', "started") = AuthsOf(events, "started") \cup {t}
      /\ AuthsOf(events', "outcome") = AuthsOf(events, "outcome")
      /\ AuthsOf(events', "reconciliation") = AuthsOf(events, "reconciliation")
      /\ Unknown(events') = Unknown(events) /\ Issued(events') = Issued(events) \cup {t}
      /\ LiveIn(events') = LiveIn(events) \ {t} /\ t \notin LiveIn(events)
  <2>1. t \notin LiveIn(events)
    BY <1>8 DEF LiveIn
  <2>2. QED
    BY <1>3, <1>5, <1>6, <1>7, <2>1
<1>10. t \notin AuthsOf(events, "outcome") /\ t \notin AuthsOf(events, "reconciliation")
  BY <1>1, <1>8 DEF ReferencesSound, NamesIssued, AuthsOf
<1>11. UnresolvedAuths(events) = {} /\ UncertainAuths(events) = {}
  BY <1>2 DEF ApprovedEvents, Precheck, HasUncertain, HasUnresolved
<1>12. LiveAuths = LiveIn(events) /\ LiveAuths' = LiveIn(events')
  BY DEF LiveAuths, LiveIn, SpentAuths
<1>13. UncertainAuths(events') = Unknown(events') \ AuthsOf(events', "reconciliation")
       /\ UncertainAuths(events) = Unknown(events) \ AuthsOf(events, "reconciliation")
  BY DEF UncertainAuths, Unknown
<1> HIDE DEF t
<1>14. Ledger!Spend(t)
  BY <1>8, <1>9, <1>10, <1>11, <1>12, <1>13
     DEF Ledger!Spend, Ledger!AllSettled, SpentAuths, ClosedAuths, UnresolvedAuths
<1>15. QED
  BY <1>3, <1>14 DEF Ledger!Next

LEMMA CallIsLedgerStep ==
  ASSUME LedgerInv, NEW w \in Workers, CallExecutor(w)
  PROVE  [Ledger!Next]_(Ledger!vars)
<1>1. task[w] \in SpentAuths /\ task[w] \notin invoked
  BY DEF LedgerInv, ExecutionInv, ExecutesOnce, Busy, CallExecutor, SpentAuths
<1>2. task[w] \in 1..MaxEvents
  <2>1. SpentAuths \subseteq Issued(events)
    BY DEF LedgerInv, LogReferencesSound, ReferencesSound, NamesIssued, AuthsOf, SpentAuths
  <2>2. QED
    BY <1>1, <2>1 DEF LedgerInv
<1>3. events' = events /\ invoked' = invoked \cup {task[w]}
  BY DEF CallExecutor, runVars
<1>4. Ledger!Call(task[w])
  BY <1>1, <1>3 DEF Ledger!Call, SpentAuths, LiveAuths, ClosedAuths
<1>5. QED
  BY <1>2, <1>4 DEF Ledger!Next

\* Only one step calls executors, and it leaves the log alone.
LEMMA CallsOfExecutors ==
  ASSUME TypeOK, [Next]_vars
  PROVE  invoked' = invoked \/ \E w \in Workers : CallExecutor(w)
<1>1. PlainStep => invoked' = invoked
  BY DEF PlainStep, workerVars
<1>2. ASSUME NEW act \in Actions, Propose(act) PROVE invoked' = invoked
  BY <1>1, <1>2, ProposeShape, AuthorizeShape DEF workerVars
<1>3. OperatorStep => invoked' = invoked
  BY <1>1, OperatorShape DEF workerVars
<1>4. Tick \/ StepBack \/ UNCHANGED vars => invoked' = invoked
  BY DEF Tick, StepBack, workerVars, vars
<1>5. ASSUME NEW w \in Workers, WorkerStep(w) \/ Abandon(w), ~CallExecutor(w)
      PROVE  invoked' = invoked
  BY <1>5 DEF WorkerStep, StartAuthorized, StartApproved, BeginTask, FinishExecution,
     FinishRefused, EndTask, Abandon
<1>6. QED
  BY <1>2, <1>3, <1>4, <1>5 DEF Next

LEMMA StepIsLedgerStep ==
  ASSUME LedgerInv, [Next]_vars
  PROVE  [Ledger!Next]_(Ledger!vars)
<1>1. TypeOK /\ Len(events) \in Nat
  BY DEF LedgerInv, ExecutionInv, TypeOK
<1>2. CASE \E w \in Workers : CallExecutor(w)
  BY <1>2, CallIsLedgerStep
<1>3. CASE invoked' = invoked /\ OneEvent
  BY <1>3, EventIsLedgerStep DEF OneEvent
<1>4. CASE invoked' = invoked /\ ApprovedStart
  BY <1>4, ApprovedStartIsLedgerStep
<1>5. CASE invoked' = invoked /\ LogRests
  <2>1. events' = events
    BY <1>5 DEF LogRests, runVars
  <2>2. UNCHANGED Ledger!vars
    BY <1>5, <2>1 DEF Ledger!vars, SpentAuths, LiveAuths, ClosedAuths
  <2>3. QED
    BY <2>2
<1>6. QED
  BY <1>1, <1>2, <1>3, <1>4, <1>5, StepsOfTheLog, CallsOfExecutors

\* Authorizations are issued within the bound of the log.
LEMMA IssuedInBound ==
  ASSUME LedgerInv, [Next]_vars
  PROVE  Issued(events') \subseteq 1..MaxEvents
<1>1. TypeOK /\ events \in Seq(EventType)
  BY DEF LedgerInv, ExecutionInv, TypeOK
<1>2. CASE OneEvent
  <2>1. PICK e \in EventType : LogStep(e) /\ Justified(e)
    BY <1>2 DEF OneEvent
  <2>2. Issues(e) => Len(events) + 1 \in 1..MaxEvents
    BY <1>1, <2>1, GateConstants DEF Justified, Issues, Room
  <2>3. QED
    BY <1>1, <2>1, <2>2, IssuedAfter DEF LogStep, LedgerInv
<1>3. CASE ApprovedStart
  <2>1. PICK act \in Actions, p \in Positions(events, "approval"), c, q, s \in EventType :
          ApprovedEvents(act, p, c, q, s)
    BY <1>1, <1>3, ApprovedStartEvents
  <2>2. /\ Len(events) + 3 <= MaxEvents /\ Len(events') = Len(events) + 3
        /\ Len(events) \in Nat /\ MaxEvents \in Nat
    BY <1>1, <2>1, GateConstants DEF ApprovedEvents, Room
  <2>3. QED
    BY <2>2 DEF Issued, Positions
<1>4. CASE LogRests
  BY <1>4 DEF LogRests, runVars, LedgerInv
<1>5. QED
  BY <1>1, <1>2, <1>3, <1>4, StepsOfTheLog

\* Every behaviour of the gate is one of the ledger: whatever the order of proposals,
\* approvals, executions, losses, revocations and reconciliations, scanning the log
\* gives each authorization one life.
THEOREM ImplementsLedgerCorrect == Spec => ImplementsLedger
<1>1. Init => Ledger!Init
  BY DEF Init, Ledger!Init, Issued, Positions, LiveAuths, SpentAuths, ClosedAuths, AuthsOf,
     UnresolvedAuths, UncertainAuths
<1>2. Init => Issued(events) \subseteq 1..MaxEvents
  BY DEF Init, Issued, Positions
<1>3. LedgerInv /\ [Next]_vars => (Issued(events) \subseteq 1..MaxEvents)'
  BY IssuedInBound
<1>4. LedgerInv /\ [Next]_vars => [Ledger!Next]_(Ledger!vars)
  BY StepIsLedgerStep
<1>5. LedgerInv <=> /\ ExecutionInv /\ LogReferencesSound
                    /\ Issued(events) \subseteq 1..MaxEvents
  BY DEF LedgerInv
<1>6. QED
  BY <1>1, <1>2, <1>3, <1>4, <1>5, ExecutionInvariant, LogReferencesSoundCorrect, PTL
     DEF Spec, ImplementsLedger, Ledger!Spec
=============================================================================
