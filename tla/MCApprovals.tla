----------------------------- MODULE MCApprovals -----------------------------
(* A command and a few policy files for TLC: rules that block and that ask, a *)
(* policy whose rule changes its response in place, policies of a repository *)
(* that would allow, in the document, in a rule file, in a rule file beside  *)
(* harmless rules and in one that is rewritten, and one that a team's policy *)
(* asks about.                                                               *)
EXTENDS Approvals, TLC

CONSTANTS move

MCSymmetry == Permutations(Procs)

MCFacts ==
  [fault |-> FALSE, command |-> TRUE, sql |-> TRUE, known |-> TRUE, plain |-> TRUE,
   sqlPlain |-> TRUE, risk |-> 0]

Saying(response) == <<[match |-> "yes", response |-> response, severity |-> "HIGH"]>>

MCInputs ==
  {[facts |-> MCFacts, rules |-> <<>>, redacted |-> FALSE],
   [facts |-> [MCFacts EXCEPT !.known = FALSE, !.risk = 40], rules |-> <<>>, redacted |-> FALSE],
   [facts |-> MCFacts, rules |-> Saying("block"), redacted |-> TRUE]}

Rules(response) ==
  [given |-> TRUE, parses |-> TRUE, signature |-> "none", rules |-> Saying(response)]

File(source, profile, inline) ==
  [NoPolicy EXCEPT !.source = source, !.profile = profile, !.inline = inline]

RuleFile(first, second) ==
  [File("repository", "none", NoDefinition) EXCEPT !.file = first, !.reread = second]

MCPolicies ==
  {NoPolicy,
   File("explicit", "team", NoDefinition),
   File("explicit", "prod", NoDefinition),
   File("explicit", "solo", Rules("allow")),
   File("repository", "none", Rules("approval")),
   File("repository", "none", Rules("block")),
   File("repository", "none", Rules("allow")),
   [File("repository", "solo", NoDefinition) EXCEPT !.exact = FALSE],
   RuleFile(Rules("allow"), Rules("allow")),
   RuleFile(Rules("block"), Rules("allow")),
   [RuleFile(Rules("allow"), Rules("allow")) EXCEPT !.inline = Rules("block")]}
=============================================================================
