SPECIFICATION Spec
CONSTANTS
  Writers = {w1, w2}
  Runs = {r1, r2}
  Keys = {k1}
  NoKey = NoKey
  Torn = Torn
  MaxWrites = 3
SYMMETRY WriterSymmetry
INVARIANTS SerialAppendsAreKept CheckpointPinsPrefix RacesAreFound
