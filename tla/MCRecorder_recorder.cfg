SPECIFICATION FairSpec
CONSTANTS
    NCameras = 2
    Sees <- MCSees
    Big = {1}
    Untimed = {1, 2}
    MaxLeft = 1
    MaxFaults = 2
CHECK_DEADLOCK FALSE
INVARIANTS
    TypeOK
    OnlyLateSurvives
PROPERTIES
    NoRestartAfterStop
    StallEnds
    RecordingResumes
    ShutdownEnds
