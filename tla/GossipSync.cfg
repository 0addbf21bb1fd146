SPECIFICATION Spec
CONSTANTS
  p1 = p1
  p2 = p2
  Peers <- BothPeers
  Scids <- TwoScids
  ChunkSize = 1
  HighWaterMark = 1
  Negotiated <- OneOrBoth
  MaxReady <- FirstReconnects
INVARIANTS AllEnabled SyncedHasAll
PROPERTIES SyncEnds InboxRead
CHECK_DEADLOCK FALSE
