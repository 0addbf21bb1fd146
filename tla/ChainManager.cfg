\* Two DLCs, one with a change output, crashes, calls that fail.
CONSTANTS
    a = a
    b = b
    first = first
    second = second
    Dlcs <- Pair
    Cets = {first}
    FirstCet = first
    Refund = refund
    Mutual = mutual
    ClosedBy <- ExecutedAndRefunded
    Change = {a}
    StartHeights = {0, 1}
    Faults = TRUE
    MaxHeight = 3
SPECIFICATION FairSpec
INVARIANTS
    RecordsAreTrue
    ResumeFindsAll
PROPERTIES
    SettledCloseStays
    StartCompletes
