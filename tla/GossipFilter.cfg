\* Two peers, one channel and its two nodes, four messages.
CONSTANTS
  c1 = c1
  n1 = n1
  n2 = n2
  Channels = {c1}
  Nodes = {n1, n2}
  Peers = {p1, p2}
  NodeOf <- MCNodeOf
  Messages <- MCMessages
  NoMsg = NoMsg
  MaxReceived = 4
SPECIFICATION Spec
CHECK_DEADLOCK FALSE
INVARIANT OnlySigned
PROPERTY NeverOlder
PROPERTY NothingStranded
PROPERTY ClosedStaysOut
