SPECIFICATION Spec
CONSTANTS
  s1 = s1
  s2 = s2
  s3 = s3
  Starter = {s1, s2, s3}
  User <- TwoUsers
  NoStdin = {}
  Overlap = FALSE
  Number = 2
  MaxFail = 1
  MaxKill = 3
  None = None
  Shared = Shared
  Sticky = Sticky
INVARIANTS EveryoneCanConnect LeftoversDoNotBlock ServedAfterStart
