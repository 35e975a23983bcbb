SPECIFICATION Spec
CONSTANTS
  r1 = r1  r2 = r2  d1 = d1  d2 = d2
  w1 = w1  w2 = w2  w3 = w3  none = none
  Recurring = {r1}
  Direct = {d1}
  Workers = {w1, w2}
  NoWorker = none
  Kinds <- Everything
  EndSequence = 3
INVARIANT UniqueNumbers
CHECK_DEADLOCK FALSE
VIEW WithoutHistory
SYMMETRY WorkerSymmetry
