SPECIFICATION FairSpec
CONSTANTS
    Offers <- AnyOffer
    MaxCallbacks = 2
INVARIANTS
    HubInvariant
    ClosedOncePerStart
PROPERTIES
    StartSettles
    StopSettles
    SilenceIsNoticed
    IsAHubClient
CHECK_DEADLOCK FALSE
