SPECIFICATION FairSpec
CONSTANTS
  a = a
  b = b
  old = old
  new = new
  foul = foul
  Transports = {"stdio", "http"}
  Tools <- MCTools
  NoTool = NoTool
  Secrets = {s}
  Versions = {old, new, foul}
  Poisoned = {foul}
  Catalogs <- MCCatalogs
  Unidentified <- MCUnidentified
  Arguments <- MCArguments
  MaxRequests = 3
  MaxFaults = 1
  MaxUnderway = 2
  MaxUnknown = 1
  NoLimit = NoLimit
  AllowUnknown = TRUE
CHECK_DEADLOCK FALSE
INVARIANTS ReceivedRunIsAllowed OneDefinitionPerTool
PROPERTIES NoCrossToolSecret RefusalIsFinal QuarantineHolds RequestsAreAnswered
