--------------------------- MODULE MCGuardPipeline --------------------------
(* Evaluations of one circuit for TLC: two of an engine with two guards, of  *)
(* which one or both keep state in the circuit, and three of an engine with  *)
(* the sequence breaker alone.                                               *)
EXTENDS GuardPipeline

CONSTANTS e1, e2, e3

MCEvaluations == {e1, e2, e3}
MCRegistrations == {{"inspector", "sequence"}, {"sequence", "halting"}, {"sequence"}}
MCCallsOf ==
  [r \in MCRegistrations |-> IF r = {"sequence"} THEN MCEvaluations ELSE {e1, e2}]
=============================================================================
