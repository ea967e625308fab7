SPECIFICATION Spec
CONSTANTS
    Sessions = {s1, s2}
    Keys = {k1}
    Desktops = {d1}
    Viewers = {v1, v2}
    EnforceAttendedAccess = {TRUE, FALSE}
    MaxEvents = 1
    None = None
SYMMETRY Symmetry
INVARIANTS
    OnlyRecreatedAreAttended
    ConsentBeforeCast
    WatchersAreListed
CHECK_DEADLOCK FALSE
