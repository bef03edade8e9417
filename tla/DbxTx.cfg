SPECIFICATION FairSpec
CONSTANTS
  MaxStmt = 3
  IdleCut = FALSE
INVARIANTS ModeAgrees
PROPERTIES IsTransactional QueryReturns
