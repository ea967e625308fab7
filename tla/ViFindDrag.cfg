SPECIFICATION Spec
CONSTANTS
    Places = {p1}
    Finger = finger
    Keys = {k1}
    None = None
    MaxPending = 2
    MaxTouches = 2
    Inputs = {"touch"}
INVARIANTS
    DragsAreReleased
CHECK_DEADLOCK FALSE
