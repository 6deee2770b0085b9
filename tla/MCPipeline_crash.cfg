SPECIFICATION Spec
CONSTANTS
    MCSegment = {1, 2, 3}
    MCUnit = 2
    MCBigSegments = {3}
    MCExtra = 3
    MCUntimed = {}
    Segment <- MCSegment
    Bytes <- MCBytes
    NoReading = NoReading
    Source <- MCSource
    NameRank <- MCNameRank
    UntimedSource <- MCUntimed
    Faults = {"crash", "gpg", "unlink", "list", "delete", "transfer", "auth"}
    MaxFaults = 2
    MaxDriveBytes = 4
    MaxSpoolBytes = 3
    UploadMaxBytes = 0
    MinFreeBytes = 0
    UseTrash = FALSE
    QuotaBytes = 10
    TrashBytes = 0
    AgeCap = FALSE
    FolderReady = TRUE
    Transfers = 2
INVARIANTS
    TypeOK
    NoSilentLoss
    PartialNeverUploaded
    PartHasPlaintext
    OpenSegmentsKept
PROPERTY
    KeepsClips
