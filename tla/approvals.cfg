SPECIFICATION Spec
CONSTANTS
  move = move
  Procs = {p, q}
  Commands = {move}
  Inputs <- MCInputs
  Policies <- MCPolicies
  TrustRepository = FALSE
  RequireSignature = FALSE
  TTL = 1
  MaxTime = 1
  MaxFaults = 1
  MaxEdits = 1
SYMMETRY MCSymmetry
CHECK_DEADLOCK FALSE
INVARIANTS AllowIsEarned RepositoryCannotAllow
PROPERTIES UseWasAsked ApprovalsLapse LastWordHolds
