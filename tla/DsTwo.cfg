SPECIFICATION FairSpec
CONSTANTS
    Viewers = {v1, v2}
    Requests = {r1, r2}
    Signalers = {x1, x2, x3}
    None = None
INVARIANTS
    OfferInvariant
    SignalersHaveUsers
    ReadersGetTheirStream
PROPERTIES
    ReadStreamsAreForgotten
CHECK_DEADLOCK FALSE
