SPECIFICATION FairSpec
CONSTANTS
  s1 = s1
  r1 = r1
  r2 = r2
  Sender = {s1}
  Receiver = {r1, r2}
  MsgMax = 1
  MaxSize = 2
  Capacity = 2
  MaxSends = 3
  MaxRemovals = 1
  MaxFaults = 1
INVARIANTS RefusedIsNotSent
PROPERTIES IsFifo Delivered
CHECK_DEADLOCK FALSE
