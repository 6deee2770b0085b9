SPECIFICATION Spec
CONSTANTS
    Clip = {c1, c2}
    NoClip = NoClip
    MaxFaults = 0
CHECK_DEADLOCK FALSE
INVARIANT
    ClosedLeavesNothing
