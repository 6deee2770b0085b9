------------------------------ MODULE Pipeline ------------------------------
(***************************************************************************)
(* `videobackup run` (main.run_all): the ffmpeg processes, the encrypt     *)
(* thread and the upload thread over one spool and one Drive folder, with  *)
(* crashes of the whole service, gpg and rclone included, and restarts.    *)
(***************************************************************************)
EXTENDS EncryptLoop, UploadLoop

vars == <<spoolVars, encryptVars, uploadVars>>

TypeOK == SpoolTypeOK /\ EncryptTypeOK /\ UploadTypeOK

Init == SpoolInit /\ EncryptInit /\ UploadInit

Record ==
    \E s \in Segment :
        \/ /\ OpenSegment(s) \/ CloseSegment(s) \/ SettleSegment(s) \/ GoQuiet(s)
           /\ UNCHANGED <<encryptVars, uploadVars>>
        \/ /\ ResumeWriting(s)
           /\ TouchedAgain(s)
           /\ UNCHANGED <<epc, cur, uploadVars>>

World ==
    /\ GrantDies \/ Reauthorize \/ GrowOlder
    /\ UNCHANGED <<encryptVars, uploadVars>>

Encrypt == EncryptNext /\ UNCHANGED uploadVars

Upload ==
    /\ UploadNext \/ BatchIntervalPasses \/ PurgeTrash
    /\ UNCHANGED encryptVars

\* The service and its children end: a power cut, systemd stopping the unit's
\* control group, Ctrl-C at the terminal, which signals gpg and rclone too.  The
\* worker threads are daemons and stop wherever they are; the service is
\* started again.  A signal to the Python process alone leaves gpg and rclone
\* running beside the next service: that is not modelled.
CrashRestart ==
    /\ Fault("crash")
    /\ EncryptReset
    /\ UploadReset
    /\ UNCHANGED <<seg, raw, part, spool, remote, folder, auth, trash, clock,
                   cutoff, gone>>

Next == Record \/ World \/ Encrypt \/ Upload \/ CrashRestart

Spec == Init /\ [][Next]_vars

\* ffmpeg cuts every segment, and the mtime of a closed file grows old.
RecordFairness ==
    /\ WF_vars(\E s \in Segment : CloseSegment(s) /\ UNCHANGED <<encryptVars, uploadVars>>)
    /\ WF_vars(\E s \in Segment : SettleSegment(s) /\ UNCHANGED <<encryptVars, uploadVars>>)

\* The two threads run as long as the service does and no call of theirs
\* blocks for ever: the waits are bounded, gpg reads a local file, and rclone
\* ends because of --timeout, --contimeout, --retries and --max-transfer.
ThreadFairness ==
    /\ WF_vars(Encrypt)
    /\ WF_vars(UploadNext /\ UNCHANGED encryptVars)
    /\ WF_vars(BatchIntervalPasses /\ UNCHANGED encryptVars)

FairSpec == Spec /\ RecordFairness /\ ThreadFairness

\* Somebody runs `rclone config reconnect` when the grant is dead.  The code
\* cannot count on it, so it is a premise of the properties that need it and
\* not part of FairSpec.
Attended == WF_vars(Reauthorize /\ UNCHANGED <<encryptVars, uploadVars>>)

-----------------------------------------------------------------------------
(* Safety                                                                  *)

\* No footage is lost silently: a recorded segment is in the raw spool, in the
\* encrypted spool or on Drive, unless a retention pass deleted it.  The
\* plaintext is deleted only after the rename, the encrypted file only after
\* the upload, through crashes, failed gpg runs and failed transfers.
NoSilentLoss ==
    \A s \in Segment : Born(s) => s \in raw \cup Spooled \cup Stored \cup gone

\* What makes the two deletions safe.  rclone knows only files that are still
\* in the spool, and only during a move; one it has confirmed is on Drive; and
\* the plaintext about to be unlinked has reached a later stage.
TransfersHaveSource ==
    \A s \in Segment :
        /\ xfer[s] # "none" => upc = "move"
        /\ xfer[s] \in {"listed", "queued", "inflight", "landed"} => spool[s] > 0
        /\ xfer[s] = "landed" => remote[s] > 0

PlaintextSpare ==
    epc = "unlink" => cur \subseteq Spooled \cup Stored \cup gone

\* encrypt_file's promise: a partial output is never picked up by the
\* uploader.  While gpg runs there is no .gpg of that segment for rclone to
\* list, to move or to find on its list.
PartialNeverUploaded ==
    \A s \in cur : epc = "gpg" => spool[s] = 0 /\ xfer[s] \notin {"inflight", "landed"}

\* A .gpg.part that a crash left behind does not outlive its plaintext, so the
\* next pass overwrites it: nothing else would ever remove it.  Only that of an
\* oversize segment stays for good, when prune_raw_spool takes the plaintext.
PartHasPlaintext == \A s \in part : s \in raw \/ Size(s) > MaxDriveBytes

\* The encrypt stage never takes a segment that ffmpeg is still writing: what
\* is encrypted, stored or being encrypted is closed.
OpenSegmentsKept ==
    \A s \in Segment : Open(s) => spool[s] = 0 /\ remote[s] = 0 /\ s \notin cur

\* A segment some retention pass deleted stays deleted: it does not come back
\* from a copy another stage still had.  Only the plaintext that the encrypt
\* thread is about to unlink may outlive a fast upload and prune.
DeletedStaysDeleted ==
    /\ gone \cap (Spooled \cup Stored) = {}
    /\ \A s \in gone \cap raw : epc = "unlink" /\ s \in cur

\* The threads, gpg, rclone and the crashes implement the life of a clip that
\* ClipLife promises: what they do to the files of a segment is to record it,
\* to store it, to release what Drive has, or to drop it because of a limit.
Clips == INSTANCE ClipLife WITH
             local <- raw \cup Spooled, drive <- Stored, dropped <- gone,
             Slice <- UploadSlice, OtherLimits <- AgeCap \/ MinFreeBytes > 0

KeepsClips == Clips!Spec

-----------------------------------------------------------------------------
(* The Drive folder                                                        *)

MaxSize == CHOOSE n \in {Size(s) : s \in Segment} : \A s \in Segment : Size(s) <= n

\* "Before each upload [...] a pre-upload gate, so the folder lands at/under the
\* cap instead of overshooting it" (README.md:211-214).  It does not, not even
\* while nothing fails: FolderBound says how far the folder can exceed it, and
\* BatchBound where there is no gate.
FolderUnderCap == Bytes[Stored] <= MaxDriveBytes

\* How far the folder can exceed max_drive_bytes: the gate reserves at least
\* one byte and at most a slice, and a soft cutoff ends the transfers in
\* flight when the slice is full.
FolderBound ==
    Bytes[Stored] <= MaxDriveBytes + (UploadSlice - 1) + Transfers * MaxSize - 1

\* A prune deletes the oldest footage: no file it removes from the folder is
\* newer than a file it leaves.
OldestDeletedFirst ==
    [][\A s, t \in Segment :
          (remote[s] > 0 /\ remote'[s] = 0 /\ remote[t] > 0 /\ remote'[t] > 0)
              => remote[s] < remote[t]]_vars

\* A prune keeps the folder a rolling window: a file that is not too old is
\* selected only if it does not fit beside the newer ones once a slice is set
\* aside, in the folder or in what the guard leaves of the account, so a long
\* backlog does not flush the archive.
TooOld(s) == remote[s] < cutoff
OverCap(s) == Bytes[NoOlder(Stored, remote, s)] > MaxDriveBytes - UploadSlice
OverQuota(s) ==
    /\ MinFreeBytes > 0
    /\ Bytes[NoOlder(Stored, remote, s)] + trash + MinFreeBytes
           > QuotaBytes - UploadSlice

RollingWindow ==
    [][upc = "list" /\ upc' = "delete" =>
           \A s \in victims' : TooOld(s) \/ OverCap(s) \/ OverQuota(s)]_vars

\* The quota guard: when an upload is about to start, the account keeps
\* min_free_bytes free after it, or the folder has been emptied for it.
QuotaGuard ==
    upc = "upload" => AccountFree - reserve >= MinFreeBytes \/ Stored = {}

\* The gate: when an upload is about to start there is room for its reserve
\* under the folder cap.
RoomForReserve ==
    upc = "upload" => Bytes[Stored] + reserve <= MaxDriveBytes

\* "newest first; goal is the *latest* footage" (uploader.py:54), as far as
\* --order-by goes without --check-first: of two segments of one camera that
\* rclone has both checked against the folder, the one recorded last is not
\* passed over.  One that is still to be checked may be, and so may one of
\* another camera: a .gpg has the mtime of its encryption, and a pass encrypts
\* in name order.
Starts(s) == xfer[s] = "queued" /\ xfer'[s] = "inflight"

CheckedLatestFirst ==
    [][\A s, t \in Segment :
          (Starts(s) /\ t \in In({"queued"}) /\ Source[s] = Source[t]) => t <= s]_vars

-----------------------------------------------------------------------------
(* Liveness                                                                *)

\* Plaintext does not stay on disk: a closed raw segment is removed, whatever
\* Drive does, even with the grant dead for ever.
PlaintextDrains ==
    \A s \in Segment : seg[s] = "settled" /\ s \in raw ~> s \notin raw

\* Every recorded segment reaches Drive unless a retention pass deletes it,
\* provided somebody renews a dead grant.
Delivered ==
    Attended => \A s \in Segment : Born(s) ~> s \in Stored \cup gone

\* The spool cap is enforced again and again even while nothing is uploaded.
SpoolCapRecurs == []<>(Bytes[Spooled] <= MaxSpoolBytes)

\* Files older than max_age_days leave the folder, even when nothing is
\* recorded any more and there is nothing to upload.
Expired(s) == remote[s] > 0 /\ remote[s] < cutoff
ExpiredDeleted == Attended => \A s \in Segment : Expired(s) ~> ~Expired(s)
=============================================================================
