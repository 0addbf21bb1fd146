SPECIFICATION Spec
CONSTANTS
  Contract <- Contracts
  Channel <- Channels
  Workload <- Programs
  MaxCrashes = 1
  DlcCalls = 3
  GossipCalls = 3
INVARIANTS IndexHasRecord RecordIsIndexed
CHECK_DEADLOCK FALSE
