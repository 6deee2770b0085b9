SPECIFICATION FairSpec
CONSTANTS
    MCSegment = {2, 4}
    MCUnit = 2
    MCBigSegments = {4}
    MCExtra = 1
    MCUntimed = {"b"}
    Segment <- MCSegment
    Bytes <- MCBytes
    NoReading = NoReading
    Source <- MCSource
    NameRank <- MCNameRank
    UntimedSource <- MCUntimed
    Faults = {"crash", "gpg", "unlink", "list", "about", "delete", "transfer", "auth"}
    MaxFaults = 1
    MaxDriveBytes = 5
    MaxSpoolBytes = 4
    UploadMaxBytes = 0
    MinFreeBytes = 1
    UseTrash = FALSE
    QuotaBytes = 12
    TrashBytes = 0
    AgeCap = TRUE
    FolderReady = TRUE
    Transfers = 2
PROPERTIES
    PlaintextDrains
    SpoolCapRecurs
    Delivered
    ExpiredDeleted
