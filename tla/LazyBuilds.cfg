SPECIFICATION FairSpec
CONSTANTS
  Thread = {t1, t2, t3}
  Builds = {TRUE, FALSE}
  Object = 100
  MaxCalls = 3
INVARIANTS FoldedReturns
PROPERTIES CallReturns
