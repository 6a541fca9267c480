SPECIFICATION Spec
CONSTANTS
  plain = plain
  risky = risky
  p1 = p1
  p2 = p2
  alice = alice
  bob = bob
  NoAction = NoAction
  NoOne = NoOne
  Actions = {plain, risky}
  Policies = {p1}
  Approvers = {}
  Contract <- MCContract1
  Principal <- MCPrincipal
  Workers = {w1, w2}
  Steady = {}
  RunExpiry = 1
  ApprovalTTL = 1
  Durable = FALSE
  Controls = {"suspend", "resume", "cancel", "revoke", "outcome"}
  Wordings = {"other"}
  MaxTime = 1
  MaxEvents = 4
SYMMETRY WorkerSymmetry
CHECK_DEADLOCK FALSE
INVARIANTS TypeOK ExecutesOnce BudgetRespected LogReferencesSound StopsAreHonoured StartsAreFresh
PROPERTIES NoIssueOverOpenEffect
