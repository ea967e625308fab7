SPECIFICATION Spec
CONSTANTS
    Places = {p1, p2}
    Finger = finger
    Keys = {k1}
    None = None
    MaxPending = 2
    MaxTouches = 3
    Inputs = {"mouse", "touch", "keyboard"}
SYMMETRY Symmetry
INVARIANTS
    InputInvariant
    LastMoveIsSent
    KeysAreReleasedOnBlur
    RightClicksAreFinished
CHECK_DEADLOCK FALSE
