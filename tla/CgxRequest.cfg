SPECIFICATION Spec
CONSTANTS
  MaxReq = 3
  MaxFail = 2
INVARIANTS OwnRequest WholeBody DecodedAsSent NothingIsLost
