SPECIFICATION FairSpec
CONSTANTS
    Sessions = {s1, s2}
    Keys = {k1}
    Desktops = {d1}
    Viewers = {v1}
    EnforceAttendedAccess = {TRUE, FALSE}
    MaxEvents = 1
    None = None
PROPERTIES
    WaitingViewersAreServed
    AbandonedSessionsAreRemoved
CHECK_DEADLOCK FALSE
