SPECIFICATION FairSpec
CONSTANTS
    MaxFrames = 4
    MaxParts = 2
    MaxAhead = 2
    MaxFailures = 1
INVARIANTS
    FrameInvariant
    FlowIsBounded
PROPERTIES
    DeliverySpec
    FramesAreAcknowledged
CHECK_DEADLOCK FALSE
