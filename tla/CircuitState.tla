---------------------------- MODULE CircuitState ----------------------------
(***************************************************************************)
(* One circuit of the state stores (state/models.py, memory.py, sqlite.py, *)
(* redis.py) and the updates StateManager computes for it.                 *)
(*                                                                         *)
(* A transition of a store is atomic and merges the fields it is given;    *)
(* StateManager computes those fields from a read of its own, before.      *)
(* version, failure_count and metadata are left out: no code reads them.   *)
(***************************************************************************)
EXTENDS Naturals, Sequences, SequencesExt

CONSTANTS
  Actions,     \* what sequence_hash tells apart
  NoAction,    \* last_sequence_hash is None
  Window       \* window_seconds

ASSUME CircuitConstants == NoAction \notin Actions /\ Window \in Nat

\* opened_reason; status is "open" exactly when there is one.
OpenedReasons == {"none", "repeated exact sequence", "volume without progress"}

Circuit ==
  [last : Actions \cup {NoAction}, repeats : Nat, opened : OpenedReasons,
   calls : Seq(Nat), progress : Seq(Nat)]

NewCircuit ==
  [last |-> NoAction, repeats |-> 0, opened |-> "none", calls |-> <<>>, progress |-> <<>>]

\* transition: the fields given replace those of the state as it is now.
Transition(c, update) ==
  [field \in DOMAIN c |-> IF field \in DOMAIN update THEN update[field] ELSE c[field]]

\* Mutant: any sequence counts as a repetition.
SequenceOfAny(c, a) == [last |-> a, repeats |-> c.repeats + 1]

\* record_sequence, from the state c it has read.
Sequence(c, a) ==
  [last |-> a, repeats |-> IF c.last = a THEN c.repeats + 1 ELSE 1]

\* now - ts <= window_seconds
Recent(times, now) == SelectSeq(times, LAMBDA t : now <= t + Window)

\* record_tool_call: what has left the window is dropped.
ToolCall(c, now) == [calls |-> Append(Recent(c.calls, now), now)]

\* record_progress: nothing is dropped.
Progress(c, now) == [progress |-> Append(c.progress, now)]

\* open_circuit.
Opened(reason) == [opened |-> reason]
=============================================================================
