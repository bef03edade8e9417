SPECIFICATION Spec
CONSTANTS
  MaxStmt = 2
  IdleCut = TRUE
INVARIANTS UndoneIsGone
