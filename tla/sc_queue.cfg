SPECIFICATION FairSpec
CONSTANTS
  c1 = c1  c2 = c2  
  p1 = p1  p2 = p2
  Contracts = {c1}
  Callers = {p1}
  Medium <- OnePppoe
  Requests <- Automatic
  MaxAttempts = 1
  MaxJobs = 1
PROPERTY PendingIsRetried
