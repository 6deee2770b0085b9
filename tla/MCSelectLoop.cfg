SPECIFICATION Spec
CONSTANTS
    Segment <- MCSegment
    Bytes <- MCBytes
    NoReading = NoReading
    MaxStamp = 5
    MaxBudget = 8
INVARIANTS
    LoopInv
    LoopSelects
    SurvivorsFit
CHECK_DEADLOCK FALSE
