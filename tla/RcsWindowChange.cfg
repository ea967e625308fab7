SPECIFICATION Spec
CONSTANTS
    Sessions = {s1, s2}
    Keys = {k1, k2}
    Desktops = {d1, d2}
    Viewers = {v1}
    EnforceAttendedAccess = {FALSE}
    MaxEvents = 1
    None = None
SYMMETRY Symmetry
INVARIANTS
    CachedUnderOwnKey
    DesktopServesOwnKey
    SessionInvariant
    SignalLostOnlyThroughClone
PROPERTIES
    SessionsKeepTheirPlace
CHECK_DEADLOCK FALSE
