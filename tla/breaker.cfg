SPECIFICATION FairSpec
CONSTANTS
  e1 = e1
  e2 = e2
  e3 = e3
  Evaluations <- MCEvaluations
  CallsOf <- MCCallsOf
  Actions = {a, p}
  ProgressActions = {p}
  NoAction = NoAction
  Registrations <- MCRegistrations
  MaxRepeats = 2
  MaxCalls = 1
  Window = 0
  MaxTime = 1
CHECK_DEADLOCK FALSE
INVARIANTS TripsOnlyOnRepeats LoopsAreBroken
PROPERTIES AllowMeansUnanimous EvaluationsEnd
