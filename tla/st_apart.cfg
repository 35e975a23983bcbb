SPECIFICATION ApartSpec
CONSTANTS
  r1 = r1  r2 = r2  d1 = d1  d2 = d2
  w1 = w1  w2 = w2  w3 = w3  none = none
  Recurring = {r1, r2}
  Direct = {d1, d2}
  Workers = {w1, w2, w3}
  NoWorker = none
  Kinds <- NoEdition
  EndSequence = 3
INVARIANT NumbersAreConsecutive
PROPERTY SettlementIsLedger
CHECK_DEADLOCK FALSE
VIEW WithoutHistory
SYMMETRY WorkerSymmetry
