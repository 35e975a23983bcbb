SPECIFICATION UndisturbedSpec
CONSTANTS
  c1 = c1  i1 = i1  i2 = i2
  cron = cron  p1 = p1  p2 = p2
  Contracts = {c1}
  Callers = {cron, p1}
  Cron = cron
  Kinds <- Office
  Invoices = {i1, i2}
  Owner <- OwnedByOne
  Due <- DueInTurn
  Grace <- TwoDays
  AdvanceDays = 1
  Medium <- OnePppoe
  Requests <- NoRequests
  MaxDay = 4
  MaxEpisodes = 2
  MaxAttempts = 1
  MaxJobs = 1
INVARIANTS EpisodesMatch OnlyDebtorsAreCut ManualIsConfirmed
