SPECIFICATION FairSpec
CONSTANTS
  Host = {h1, h2, h3, h4}
  Origin = o
  File = {f1, f2}
  Stub = Stub
  None = None
  MaxFail = 2
  MaxKill = 1
INVARIANTS ExecutedOnce SourceHasFiles NobodyForgotten SilenceMeansServed Bisection
PROPERTIES Served
