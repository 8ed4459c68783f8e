SPECIFICATION Spec
CONSTANTS
  s = s
  i1 = i1
  i2 = i2
  d1 = d1
  d2 = d2
  t = t
  x = x
  Names = {s}
  Ids = {d1, d2}
  Instances = {i1, i2}
  NameOf <- MCNameOf
  IdOf <- MCIdOf
  NoInstance = NoInstance
  NoId = d2
  Requests = {r1}
  Operators = {o}
  Admins = {a1, a2}
  Targets = {t, x}
  RouteOf <- MCRouteOf
  NoRoute = NoRoute
  Dynamic = TRUE
INVARIANT FlagsAgree
CHECK_DEADLOCK FALSE
