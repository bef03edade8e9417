SPECIFICATION FairSpec
CONSTANTS
  Thread = {t1, t2, t3}
  ZeroTaken = FALSE
  MaxCalls = 4
  MaxFailures = 1
INVARIANTS OneEach ReleasedOnce
PROPERTY CallReturns
CHECK_DEADLOCK FALSE
