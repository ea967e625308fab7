SPECIFICATION Spec
CONSTANTS
    Sessions = {s1, s2}
    Keys = {k1}
    Desktops = {d1, d2}
    Viewers = {v1}
    EnforceAttendedAccess = {TRUE}
    MaxEvents = 1
    None = None
SYMMETRY Symmetry
INVARIANTS
    RestartOnlyAfterConsent
CHECK_DEADLOCK FALSE
