\* Both directions may rotate, before, at and after the middle of a frame.
CONSTANTS
    RotateAt = 3
    HighWaterMark = 2
    Quota <- Crossing
SPECIFICATION FairSpec
INVARIANTS
    NonceFresh
    InStepUntilCrossed
PROPERTIES
    InOrder
    DeliveredUnlessCrossed
CHECK_DEADLOCK FALSE
