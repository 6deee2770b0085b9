SPECIFICATION BatchFairSpec
CONSTANTS
    MCSegment = {1, 2, 3}
    MCUnit = 1
    MCBigSegments = {}
    MCExtra = 1
    MCUntimed = {"b"}
    Segment <- MCSegment
    Bytes <- MCBytes
    NoReading = NoReading
    Source <- MCSource
    NameRank <- MCNameRank
    UntimedSource <- MCUntimed
    Faults = {"crash", "gpg", "unlink", "list", "delete", "transfer", "auth"}
    MaxFaults = 1
    MaxDriveBytes = 1
    MaxSpoolBytes = 0
    UploadMaxBytes = 0
    MinFreeBytes = 0
    UseTrash = TRUE
    QuotaBytes = 10
    TrashBytes = 0
    AgeCap = FALSE
    FolderReady = FALSE
    Transfers = 1
INVARIANTS
    BatchTypeOK
    BatchBound
PROPERTIES
    KeepsClips
    CycleEndsUnderCap
    PlaintextDrains
    Delivered
