SPECIFICATION Spec
CONSTANTS
  Proc = {p1, p2}
  MaxSize = 2
  MaxNum = 3
  MaxLines = 5
  MaxCrashes = 0
INVARIANTS NewestKept
