SPECIFICATION FairSpec
CONSTANTS
    MCSegment = {1}
    MCUnit = 2
    MCBigSegments = {}
    MCExtra = 1
    MCUntimed = {}
    Segment <- MCSegment
    Bytes <- MCBytes
    NoReading = NoReading
    Source <- MCSource
    NameRank <- MCNameRank
    UntimedSource <- MCUntimed
    Faults = {}
    MaxFaults = 0
    MaxDriveBytes = 8
    MaxSpoolBytes = 0
    UploadMaxBytes = 0
    MinFreeBytes = 0
    UseTrash = FALSE
    QuotaBytes = 12
    TrashBytes = 0
    AgeCap = FALSE
    FolderReady = FALSE
    Transfers = 2
PROPERTIES
    Delivered
