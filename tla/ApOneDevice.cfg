SPECIFICATION FairSpec
CONSTANTS
    Devices = {d1}
    Connections = {c1, c2}
    MaxRestarts = 1
    None = None
INVARIANTS
    PresenceInvariant
    NoStaleEntries
    OfflineWhenGone
PROPERTIES
    SteadyDeviceIsReachable
CHECK_DEADLOCK FALSE
