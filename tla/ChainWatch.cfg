SPECIFICATION Spec
CONSTANTS
  g = g
  a1 = a1
  a2 = a2
  a3 = a3
  a4 = a4
  b2 = b2
  b3 = b3
  o = o
  s = s
  v = v
  NoBlock = NoBlock
  Blocks <- Tree
  Genesis = g
  Parent <- TreeParent
  Height <- TreeHeight
  Below <- TreeBelow
  Things <- AllThings
  Valued <- WithValue
  InBlock <- TreeInBlock
  Faulty <- MayThrow
  MaxPending = 3
INVARIANTS ForkTold DiffRight
PROPERTIES Reported
CHECK_DEADLOCK FALSE
