SPECIFICATION Spec
CONSTANTS
    MCSegment = {1, 2, 3}
    MCUnit = 2
    MCBigSegments = {}
    MCExtra = 1
    MCUntimed = {}
    Segment <- MCSegment
    Bytes <- MCBytes
    NoReading = NoReading
    Source <- MCSource
    NameRank <- MCNameRank
    UntimedSource <- MCUntimed
    Faults = {}
    MaxFaults = 0
    MaxDriveBytes = 5
    MaxSpoolBytes = 0
    UploadMaxBytes = 0
    MinFreeBytes = 0
    UseTrash = FALSE
    QuotaBytes = 12
    TrashBytes = 0
    AgeCap = FALSE
    FolderReady = TRUE
    Transfers = 1
INVARIANT
    FolderUnderCap
