SPECIFICATION FairSpec
CONSTANTS
    MaxLinks = 3
    MaxRelaunches = 1
    Notices = {"denied", "disconnected"}
INVARIANTS
    PageInvariant
    IdlePageSaysSo
    ReasonIsShown
PROPERTIES
    ConnectingEnds
    LinksAreClients
CHECK_DEADLOCK FALSE
