--------------------------- MODULE ExecutionLedger ---------------------------
(***************************************************************************)
(* What an integrator may rely on, without the log: an authorization is a  *)
(* ticket, spent at most once before its executor is called at most once,  *)
(* and every spent ticket has to be accounted for before another ticket is *)
(* issued.  RuntimeGate implements it: RuntimeGateLedger reads these sets  *)
(* off the log.                                                            *)
(***************************************************************************)
CONSTANT Tickets

VARIABLES
  issued,    \* tickets there have been
  live,      \* those that may still be spent
  spent,     \* those that were
  called,    \* those whose executor has been called
  open,      \* spent, and nobody said how it ended
  doubtful,  \* recorded as ended in an unknown way
  closed     \* recorded or reconciled

vars == <<issued, live, spent, called, open, doubtful, closed>>

Init ==
  /\ issued = {} /\ live = {} /\ spent = {} /\ called = {}
  /\ open = {} /\ doubtful = {} /\ closed = {}

AllSettled == open = {} /\ doubtful = {}

Issue(t) ==
  /\ AllSettled /\ t \notin issued
  /\ issued' = issued \cup {t}
  /\ live' = live \cup {t}
  /\ UNCHANGED <<spent, called, open, doubtful, closed>>

Spend(t) ==
  /\ \/ t \in live
     \/ t \notin issued /\ AllSettled         \* issued and spent at once
  /\ issued' = issued \cup {t}
  /\ live' = live \ {t}
  /\ spent' = spent \cup {t}
  /\ open' = open \cup {t}
  /\ UNCHANGED <<called, doubtful, closed>>

Revoke ==
  /\ live' \in SUBSET live
  /\ UNCHANGED <<issued, spent, called, open, doubtful, closed>>

Call(t) ==
  /\ t \in spent \ called
  /\ called' = called \cup {t}
  /\ UNCHANGED <<issued, live, spent, open, doubtful, closed>>

\* How a ticket ended is recorded once.  A ticket nobody spent is used up by it.
Record(t) ==
  /\ t \in issued \ closed
  /\ closed' = closed \cup {t}
  /\ live' = live \ {t}
  /\ open' = open \ {t}
  /\ doubtful' \in {doubtful, doubtful \cup {t}}
  /\ UNCHANGED <<issued, spent, called>>

\* A reconciliation settles a ticket and makes every outstanding one stale.
Reconcile(t) ==
  /\ t \in spent
  /\ closed' = closed \cup {t}
  /\ live' = {}
  /\ open' = open \ {t}
  /\ doubtful' = doubtful \ {t}
  /\ UNCHANGED <<issued, spent, called>>

Next ==
  \/ \E t \in Tickets :
       Issue(t) \/ Spend(t) \/ Call(t) \/ Record(t) \/ Reconcile(t)
  \/ Revoke

Spec == Init /\ [][Next]_vars
=============================================================================
