SPECIFICATION Spec
CONSTANTS
    MCSegment = {1, 2, 3, 4}
    MCUnit = 1
    MCBigSegments = {}
    MCExtra = 1
    MCUntimed = {}
    Segment <- MCSegment
    Bytes <- MCBytes
    NoReading = NoReading
    Source <- MCSource
    NameRank <- MCNameRank
    UntimedSource <- MCUntimed
    Faults = {}
    MaxFaults = 0
    MaxDriveBytes = 2
    MaxSpoolBytes = 3
    UploadMaxBytes = 0
    MinFreeBytes = 1
    UseTrash = FALSE
    QuotaBytes = 6
    TrashBytes = 4
    AgeCap = TRUE
    FolderReady = TRUE
    Transfers = 2
INVARIANTS
    FolderBound
    RoomForReserve
    QuotaGuard
    DeletedStaysDeleted
PROPERTIES
    OldestDeletedFirst
    RollingWindow
    CheckedLatestFirst
