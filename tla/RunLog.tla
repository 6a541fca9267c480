------------------------------- MODULE RunLog -------------------------------
(***************************************************************************)
(* The event log of one run, and the questions runtime.py asks of it.      *)
(*                                                                         *)
(* RuntimeState.events is an append-only tuple of RuntimeEvent.  Nothing   *)
(* else remembers which authorizations were issued, consumed, revoked or   *)
(* resolved: every decision of RuntimeGate scans this log again.  The      *)
(* module holds the scans; RuntimeGate.tla holds the operations.           *)
(*                                                                         *)
(* An action stands for the canonical record RuntimeAction.fingerprint     *)
(* hashes: equal fingerprints are equal elements of Actions.  The random   *)
(* tokens of _new_authorization_id and _new_approval_id are represented by *)
(* the position in the log of the event that carries them first: distinct, *)
(* as 256-bit random tokens are, and never 0.                              *)
(***************************************************************************)
EXTENDS Naturals, Sequences

CONSTANTS
  Actions,     \* the canonical actions a caller may propose
  Policies,    \* the contracts a run may be given (their policy fingerprints)
  Approvers,   \* identities that may grant an approval
  NoAction,    \* the field "action" of an event that has none
  NoOne        \* the approver of an event that is not an approval

ASSUME NoneAreDistinct == NoAction \notin Actions /\ NoOne \notin Approvers

\* RuntimeEvent.reason and RuntimeState.last_reason are texts, of the gate or of whoever
\* calls it.  A later decision tells only two wordings from the rest: "run has unresolved
\* execution" and "run has uncertain execution status".
Reasons == {"none", "inactive", "uncertain", "unresolved", "other"}

Outcomes == {"executed", "failed", "skipped", "unknown_execution_status"}

EventTypes == {"proposal", "started", "outcome", "reconciliation", "approval",
               "approval_consumed", "approval_revocation",
               "suspension", "resume", "revocation", "cancel"}

\* RuntimeEvent.  The fields a later decision reads are kept: wording, verdict
\* text and trajectory findings are not.
EventType ==
  [type       : EventTypes,
   action     : Actions \cup {NoAction},
   authorized : BOOLEAN,
   auth       : Nat,                       \* authorization_id, 0 for None
   approval   : Nat,                       \* approval_id, 0 for None
   policy     : Policies,                  \* policy_fingerprint
   reason     : Reasons,                   \* why, in the words of gate or caller
   outcome    : Outcomes \cup {"none"},
   timestamp  : Nat,
   expires    : Nat,                       \* details.expires_at of an approval
   approver   : Approvers \cup {NoOne}]    \* details.approver of an approval

\* An event of the given type with every optional field at its default.
Event(type, policy, timestamp) ==
  [type |-> type, action |-> NoAction, authorized |-> FALSE, auth |-> 0,
   approval |-> 0, policy |-> policy, reason |-> "none",
   outcome |-> "none", timestamp |-> timestamp, expires |-> 0, approver |-> NoOne]

-----------------------------------------------------------------------------
\* Positions of the events of one type, and the authorizations they name.
Positions(log, type) == {i \in DOMAIN log : log[i].type = type}

AuthsOf(log, type) == {log[i].auth : i \in Positions(log, type)}

ApprovalsOf(log, type) == {log[i].approval : i \in Positions(log, type)}

\* RuntimeState.action_records: every proposal counts, refused ones included.
ActionRecords(log) == Positions(log, "proposal")

\* _authorization_has_terminal_event restricted to "outcome"
HasOutcome(log, a) == a \in AuthsOf(log, "outcome")

\* Mutant: an authorization counts as consumed once its outcome is known.
StartedByOutcome(log, a) == HasOutcome(log, a)

\* _authorization_started
Started(log, a) == a \in AuthsOf(log, "started")

\* Mutant: looks for a terminal outcome instead of a reconciliation.
ReconciledByOutcome(log, a) == HasOutcome(log, a)

\* _authorization_has_reconciliation
Reconciled(log, a) == a \in AuthsOf(log, "reconciliation")

\* Mutant: an execution whose authorization is revoked is no longer waited for.
UnresolvedUnlessRevoked(log) ==
  AuthsOf(log, "started")
    \ (AuthsOf(log, "outcome") \cup AuthsOf(log, "reconciliation")
        \cup AuthsOf(log, "revocation"))

\* _has_unresolved_execution: started without an outcome or a reconciliation
UnresolvedAuths(log) ==
  AuthsOf(log, "started")
    \ (AuthsOf(log, "outcome") \cup AuthsOf(log, "reconciliation"))

\* Mutant: approved executions are not waited for.
HasUnresolvedPlain(log) == \E a \in UnresolvedAuths(log) : log[a].approval = 0

HasUnresolved(log) == UnresolvedAuths(log) # {}

\* _has_uncertain_execution: an unknown outcome nobody has reconciled
UncertainAuths(log) ==
  {log[i].auth : i \in {j \in Positions(log, "outcome") :
                          log[j].outcome = "unknown_execution_status"}}
    \ AuthsOf(log, "reconciliation")

HasUncertain(log) == UncertainAuths(log) # {}

\* Authorizations issued by the gate: authorized proposals.
Issued(log) == {i \in Positions(log, "proposal") : log[i].authorized}

\* Mutant: a revocation without an authorization_id revokes nothing.
RevokedByName(log, a) ==
  \E r \in Positions(log, "revocation") : r > a /\ log[r].auth = a

\* _authorization_revoked, for the authorization issued at position a
RevokedAuth(log, a) ==
  \E r \in Positions(log, "revocation") :
     /\ r > a
     /\ log[r].auth \in {0, a}
     /\ log[r].action \in {NoAction, log[a].action}

\* _authorization_invalidated_by_reconciliation
Invalidated(log, a) ==
  \E r \in Positions(log, "reconciliation") : r > a /\ log[r].auth # a

\* Mutant: record_outcome filters revoked authorizations as execution does.
OpenUnlessRevoked(log, a) ==
  a \in Issued(log) /\ ~HasOutcome(log, a) /\ ~RevokedAuth(log, a)

\* _matching_open_authorization without for_execution: what record_outcome needs
OpenForOutcome(log, a) == a \in Issued(log) /\ ~HasOutcome(log, a)

\* _matching_open_authorization with for_execution=True
OpenForExecution(log, a) ==
  OpenForOutcome(log, a) /\ ~RevokedAuth(log, a) /\ ~Invalidated(log, a)

\* _matching_open_approval: granted for this action under this policy, neither
\* consumed nor revoked, and not yet expired
OpenApproval(log, p, act, policy, now) ==
  /\ p \in Positions(log, "approval")
  /\ p \notin ApprovalsOf(log, "approval_consumed")
  /\ p \notin ApprovalsOf(log, "approval_revocation")
  /\ log[p].action = act
  /\ log[p].policy = policy
  /\ now < log[p].expires

-----------------------------------------------------------------------------
\* _validate_state_integrity, the clauses a sequence of legal calls could break.
\* SQLiteRunStore refuses to load or to commit a log that fails them.

TimestampsMonotonic(log) ==
  \A i, j \in DOMAIN log : i < j => log[i].timestamp <= log[j].timestamp

\* At most one event of this type per authorization.
OncePerAuth(log, type) ==
  \A i, j \in Positions(log, type) : log[i].auth = log[j].auth => i = j

\* Every event of this type names an authorization issued earlier in the log.
NamesIssued(log, type) ==
  \A i \in Positions(log, type) : log[i].auth \in Issued(log) /\ log[i].auth < i

ReconciledAfterStart(log) ==
  \A i \in Positions(log, "reconciliation") :
    \E s \in Positions(log, "started") : s < i /\ log[s].auth = log[i].auth

ConsumedOnce(log) ==
  \A i, j \in Positions(log, "approval_consumed") :
    log[i].approval = log[j].approval => i = j

ConsumesGranted(log) ==
  \A i \in Positions(log, "approval_consumed") :
    log[i].approval \in Positions(log, "approval") /\ log[i].approval < i

NeverConsumedAndRevoked(log) ==
  ApprovalsOf(log, "approval_consumed") \cap
    ApprovalsOf(log, "approval_revocation") = {}

\* The clauses that relate authorizations and approvals to their events.
ReferencesSound(log) ==
  /\ \A type \in {"started", "outcome", "reconciliation"} :
       OncePerAuth(log, type) /\ NamesIssued(log, type)
  /\ ReconciledAfterStart(log)
  /\ ConsumedOnce(log)
  /\ ConsumesGranted(log)

ValidLog(log) ==
  ReferencesSound(log) /\ TimestampsMonotonic(log) /\ NeverConsumedAndRevoked(log)
=============================================================================
