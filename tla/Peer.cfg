\* Both roles, a remote that sends anything, a user who disconnects at any time.
CONSTANTS
    Roles = {TRUE, FALSE}
    Sends = {"init", "badInit", "ping", "bigPing", "pong", "badPong", "other", "unknown", "junk"}
    HighWaterMark = 1
    PingFloodThreshold = 1
    Budget = 3
    MaxBuffered = 2
SPECIFICATION FairSpec
INVARIANTS
    QuietWhenDown
    ReadyIsCurrent
PROPERTIES
    DisconnectIsFinal
    SilenceNoticed
    NothingStuck
CHECK_DEADLOCK FALSE
