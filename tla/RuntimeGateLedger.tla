-------------------------- MODULE RuntimeGateLedger --------------------------
(***************************************************************************)
(* RuntimeGate implements ExecutionLedger: its sets are what the code's    *)
(* own scans find in the log.                                              *)
(***************************************************************************)
EXTENDS RuntimeGate

SpentAuths == AuthsOf(events, "started")

\* Not consumed, and what _matching_open_authorization(for_execution=True) accepts.
LiveAuths == {a \in Issued(events) : OpenForExecution(events, a)} \ SpentAuths

ClosedAuths == AuthsOf(events, "outcome") \cup AuthsOf(events, "reconciliation")

Ledger == INSTANCE ExecutionLedger WITH
  Tickets  <- 1..MaxEvents,
  issued   <- Issued(events),
  live     <- LiveAuths,
  spent    <- SpentAuths,
  called   <- invoked,
  open     <- UnresolvedAuths(events),
  doubtful <- UncertainAuths(events),
  closed   <- ClosedAuths

\* Every step of the gate is a step of the ledger or changes nothing it keeps:
\* scanning the log for consumed, revoked, stale and unresolved authorizations
\* gives each authorization one life, in which it is spent once, called once and
\* accounted for before the next one is issued.
ImplementsLedger == Ledger!Spec
=============================================================================
