SPECIFICATION FairSpec
CONSTANTS
    Clip = {c1, c2, c3}
    NoClip = NoClip
    MaxFaults = 1
CHECK_DEADLOCK FALSE
INVARIANTS
    TypeOK
    PlaintextAccounted
    PlayedIsKept
    UnplayableDiscarded
PROPERTY
    LoadAnswered
