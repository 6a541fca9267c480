----------------------------- MODULE MCRunStore -----------------------------
(* Small instances of RunStore for TLC: two processes, one of which has two   *)
(* threads at work on its store when there are three callers.                *)
EXTENDS RunStore

CONSTANTS c1, c2, c3, s1, s2, r1, r2

MCStoreOf == [c \in Callers |-> IF c = c3 THEN s2 ELSE s1]

MCMaxVersion == [r \in Runs |-> IF r = r1 THEN 2 ELSE 0]
=============================================================================
