---------------------------- MODULE MCRuntimeGate ----------------------------
(* Small instances of RuntimeGate for TLC: contracts and identities as       *)
(* definitions, everything else in the configuration files.                  *)
EXTENDS RuntimeGateProps, RuntimeGateLedger, TLC

CONSTANTS plain, risky, p1, p2, alice, bob

MCContract1 ==   \* one contract, three actions at most, nothing needs an approval
  [q \in Policies |-> [maxActions |-> 3, approval |-> {},
                       selfApproval |-> FALSE,
                       validUntil |-> [act \in Actions |-> MaxTime + 1]]]

MCContract2 ==   \* p1 is lax; p2 asks an approval for "risky", three actions at most
  [q \in Policies |->
     [maxActions |-> IF q = p2 THEN 3 ELSE MaxEvents,
      approval |-> IF q = p2 THEN {risky} ELSE {},
      selfApproval |-> FALSE,
      validUntil |-> [act \in Actions |-> IF q = p2 THEN MaxTime + 1 ELSE MaxTime]]]

MCPrincipal == [act \in Actions |-> IF act = risky THEN alice ELSE NoOne]

WorkerSymmetry == Permutations(Workers)
=============================================================================
