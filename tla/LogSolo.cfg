SPECIFICATION Spec
CONSTANTS
  Proc = {p1}
  MaxSize = 2
  MaxNum = 4
  MaxLines = 14
  MaxCrashes = 0
INVARIANTS NewestKept AgeOrder
PROPERTIES RefinesRollingLog
