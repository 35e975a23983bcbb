SPECIFICATION FairSpec
CONSTANTS
  Foreign = {"READ", "REBOOT", "RESET"}
  CrashPoints <- CrashesApart
  MaxAttempts = 2
  MaxVersion = 3
INVARIANTS
  SentOnce
  AppliedIsTrue
PROPERTIES
  NeverBackwards
  WanIsDelivery
  NothingIsForgotten
CHECK_DEADLOCK FALSE
