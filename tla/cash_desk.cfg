SPECIFICATION ScreenSpec
CONSTANTS
  c1 = c1  t1 = t1  r1 = r1  r2 = r2  i1 = i1  i2 = i2
  d1 = d1  j1 = j1  x1 = x1  p1 = p1  p2 = p2
  None = None
  Cashiers = {c1}
  Technicians = {t1}
  Agents = {}
  Registers = {r1, r2}
  Invoices = {i1}
  Amount <- Equal
  Due <- DueOnce
  Deposits = {d1}
  Paid <- Exact
  Days = {j1}
  Expenses = {x1}
  Requests = {p1, p2}
  Remembered = {r1, r2}
  MaxPayments = 2
CONSTRAINT OneOrTheOther
SYMMETRY Symmetry
INVARIANTS TimelySalesAreCounted  ExpensesAreListedOnce
CHECK_DEADLOCK FALSE
