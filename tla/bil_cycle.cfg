SPECIFICATION Spec
CONSTANTS
  c1 = c1  c2 = c2  cron = cron  office = office  none = none
  Contracts = {c1}
  Workers = {cron, office}
  Cron = cron
  NoContract = none
  Length <- ThreeMonths
  Fixed = 3
  Policies = {"FIXED_30", "ACTUAL_MONTH_DAYS"}
  BillingDays = {1, 2, 4}
  MaxRows = 2
INVARIANTS
  OneInvoicePerPeriod
  EveryPeriodIsBilled
  FirstChargeIsFair
