SPECIFICATION FairSpec
CONSTANTS
    NCameras = 1
    Sees <- MCSees
    Big = {1}
    Untimed = {}
    MaxLeft = 2
    MaxFaults = 1
CHECK_DEADLOCK FALSE
PROPERTY
    UnlinkedStallEnds
