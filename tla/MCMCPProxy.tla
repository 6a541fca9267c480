----------------------------- MODULE MCMCPProxy -----------------------------
(* A server with two tools for TLC: definitions that stay, change, are       *)
(* suspicious or come twice in one list, one secret, and the calls of a leak *)
(* in two steps.                                                             *)
EXTENDS MCPProxy, TLC

CONSTANTS a, b, old, new, foul

MCUnidentified == {NoId}
MCTools == {a, b}
MCCatalogs ==
  {<< <<a, new>> >>, << <<a, old>>, <<b, foul>> >>, << <<a, new>>, <<a, old>> >>}
Deed(verdict, signs) ==
  <<[verdict |-> verdict, signs |-> signs, downloads |-> {}, executes |-> {}]>>
MCArguments ==
  [stdio |-> {Deed("allow", {"sensitive", "source"}), Deed("unknown", {"egress"})},
   http  |-> {Deed("allow", {})}]
=============================================================================
