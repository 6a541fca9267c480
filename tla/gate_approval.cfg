SPECIFICATION Spec
CONSTANTS
  plain = plain
  risky = risky
  p1 = p1
  p2 = p2
  alice = alice
  bob = bob
  NoAction = NoAction
  NoOne = NoOne
  Actions = {risky}
  Policies = {p1, p2}
  Approvers = {alice, bob}
  Contract <- MCContract2
  Principal <- MCPrincipal
  Workers = {w1}
  Steady = {}
  RunExpiry = 3
  ApprovalTTL = 1
  Durable = TRUE
  Controls = {"contract", "clock"}
  Wordings = {"other"}
  MaxTime = 1
  MaxEvents = 5
CHECK_DEADLOCK FALSE
PROPERTIES ApprovedBeforeStart ImplementsLedger
