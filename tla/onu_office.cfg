SPECIFICATION Spec
CONSTANTS
  Serials = {n1, n2}
  Rows = {r1, r2, r3}
  Slots = {1, 2}
  Contracts = {c1}
  Labels = {1}
  Workers = {w1, w2}
  Apart <- Overlapping
  CarefulApart <- Scans
  Asked <- Sensible
  Offices = {TRUE, FALSE}
  NoSerial = NoSerial
  NoOnu = NoOnu
  NoRow = NoRow
  NoContract = NoContract
  NoSlot = NoSlot
SYMMETRY Anonymous
INVARIANTS
  LocationIsTrue
  BlockedIsShut
PROPERTIES
  OthersAreSpared
  AuthorizedForGood
  SubscriberIsKept
