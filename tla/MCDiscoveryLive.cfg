\* One name, one pointer, one watcher, no symmetry.
SPECIFICATION FairSpec
CONSTANTS
  a = a
  b = b
  x = x
  i1 = i1
  i2 = i2
  c1 = c1
  c2 = c2
  w1 = w1
  Names = {a}
  Ids = {x}
  Instances = {i1}
  NameOf <- MCNameOf1
  IdOf <- MCIdOf1
  Configured = {}
  Callers = {c1, c2}
  Loop = Loop
  Chans = {w1}
  Nobody = Nobody
  NoInstance = NoInstance
  NoName = NoName
  MaxPending = 1
PROPERTIES CallsReturn LoopEnds SenderEnds UnhealthyRecovers
CHECK_DEADLOCK FALSE
