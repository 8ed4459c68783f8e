SPECIFICATION LimiterSpec
CONSTANTS
  k1 = k1
  k2 = k2
  Keys = {k1, k2}
  Limit <- MCLimit
  Window <- MCWindow
  MaxTime = 6
INVARIANTS LimiterTypeOK WindowBound NoFalseReject
