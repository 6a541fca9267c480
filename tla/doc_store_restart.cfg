SPECIFICATION Spec
CONSTANTS
  c1 = c1
  c2 = c2
  c3 = c3
  s1 = s1
  s2 = s2
  r1 = r1
  r2 = r2
  Runs = {r1, r2}
  Contracts = {k1, k2}
  Stores = {s1, s2}
  Callers = {c1}
  StoreOf <- MCStoreOf
  NoRow = NoRow
  MaxVersion <- MCMaxVersion
INVARIANTS SurvivesRestart
CHECK_DEADLOCK FALSE
