SPECIFICATION ApartSpec
CONSTANTS
  e1 = e1  e2 = e2
  t1 = t1  t2 = t2
  w1 = w1  w2 = w2
  k1 = k1
  d1 = d1  d2 = d2
  u1 = u1  u2 = u2
  Equipment = {e1}
  Technicians = {t1, t2}
  Warehouses = {w1, w2}
  Clients = {k1}
  Dispatches = {d1, d2}
  Users = {u1, u2}
  Amounts = {2}
  Damages = {"FAULTY"}
  Removed <- FaultyToo
  Counted <- CountedSome
  Sold = {"MATERIAL"}
  Superfluous = {}
  MaxMaterial = 2
  MaxLines = 2
CONSTRAINT TwoDraft
SYMMETRY Symmetry
INVARIANTS StockCountsEquipment CustodyMatchesLocation MaterialIsConserved
PROPERTY DispatchIsConsignment
