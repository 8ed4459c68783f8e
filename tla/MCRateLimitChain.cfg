SPECIFICATION FairSpec
CONSTANTS
  p = p
  q = q
  u = u
  e = e
  r1 = r1
  r2 = r2
  Keys <- MCKeys
  Limit <- MCLimit
  Window <- MCWindow
  MaxTime = 1
  Requests = {r1, r2}
  IPs = {p, q}
  Users = {u}
  Endpoints = {e}
  APILimited = {e}
  Installed = {"ip", "user"}
  Dynamic = TRUE
  NoUser = NoUser
  Nobody = Nobody
INVARIANTS ChainTypeOK WindowBound
PROPERTIES KeepsLimiters Answered
CHECK_DEADLOCK FALSE
