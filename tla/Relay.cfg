\* Replacement, pruning, peers that come and go, a connection that drops.
CONSTANTS
    Peers = {p1, p2}
    Flaky = {p1}
    Messages <- Updates
    MaxQueueLen = 2
SPECIFICATION FairSpec
INVARIANTS
    NothingResent
PROPERTIES
    OnlyReplacementSkips
    Reaches
