SPECIFICATION Spec
CONSTANTS
  a = a
  b = b
  x = x
  i1 = i1
  i2 = i2
  c1 = c1
  c2 = c2
  w1 = w1
  Names = {a, b}
  Ids = {x}
  Instances = {i1, i2}
  NameOf <- MCNameOf
  IdOf <- MCIdOf
  Configured = {i1}
  Callers = {c1, c2}
  Loop = Loop
  Chans = {w1}
  Nobody = Nobody
  NoInstance = NoInstance
  NoName = NoName
  MaxPending = 1
SYMMETRY Symmetry
INVARIANTS TypeOK Exclusive HandedOutHealthy
PROPERTIES NotifyFreezes Linearizable
CHECK_DEADLOCK FALSE
