-------------------------------- MODULE Batch --------------------------------
(***************************************************************************)
(* `videobackup batch-loop` (main.run_batch_loop, run_batch): one thread   *)
(* does what encrypt and upload do concurrently in `videobackup run`, one  *)
(* stage after the other, and prunes after the upload instead of before.   *)
(* A cycle that raises skips its remaining stages.  The steps are those of *)
(* EncryptLoop and UploadLoop.                                             *)
(***************************************************************************)
EXTENDS Pipeline

VARIABLE stage   \* where the cycle is; "rest" is the wait between two

batchVars == <<vars, stage>>

\* due belongs to run_upload_loop and stays FALSE.
BatchTypeOK ==
    /\ TypeOK
    /\ stage \in {"rest", "encrypt", "spool", "upload", "prune"}
    /\ stage \in {"rest", "spool"} => epc = "prune" /\ upc = "prune_spool"
    /\ ~due

BatchInit == Init /\ ~due /\ stage = "rest"

-----------------------------------------------------------------------------
(* run_batch                                                               *)

At(here, next) == stage = here /\ stage' = next

StartCycle == At("rest", "encrypt") /\ UNCHANGED vars

\* prune_raw_spool and encrypt_pending.
EncryptStep ==
    /\ At("encrypt", "encrypt")
    /\ PruneRawSpool \/ ListSegments \/ EncryptSegment
    /\ UNCHANGED uploadVars

EncryptRaises ==
    /\ At("encrypt", "rest")
    /\ GpgMissing \/ PassRaises
    /\ UNCHANGED uploadVars

EncryptDone == At("encrypt", "spool") /\ PassDone /\ UNCHANGED uploadVars

CapSpool == At("spool", "upload") /\ PruneSpool /\ UNCHANGED encryptVars

\* upload_pending: with nothing in the spool it returns at once.
PruneFirst ==   \* mutant: prune comes before upload_pending
    /\ At("upload", "prune")
    /\ upc = "measure"
    /\ upc' = "list"
    /\ UNCHANGED <<spoolVars, encryptVars, due, reserve, victims, xfer>>

StartUpload ==
    /\ upc = "measure"
    /\ \/ Spooled # {} /\ At("upload", "upload") /\ upc' = "upload"
       \/ Spooled = {} /\ At("upload", "prune") /\ upc' = "list"
    /\ UNCHANGED <<spoolVars, encryptVars, due, reserve, victims, xfer>>

Move ==
    /\ At("upload", "upload")
    /\ StartMove \/ Transfer
    /\ UNCHANGED encryptVars

\* rclone's errors are classified: one that says the grant is dead raises
\* RcloneAuthError, any other is logged.
MoveReports ==
    /\ upc = "move"
    /\ In({"inflight", "landed"}) = {}
    /\ Waiting = {} \/ Bytes[In({"moved", "failed", "denied"})] >= UploadSlice
    /\ \/ In({"denied"}) = {} /\ At("upload", "prune") /\ upc' = "list"
       \/ In({"denied"}) # {} /\ At("upload", "rest") /\ upc' = "prune_spool"
    /\ xfer' = NoMove
    /\ UNCHANGED <<spoolVars, encryptVars, due, reserve, victims>>

PruneOnlyLists ==   \* mutant: returns without _delete_remote
    /\ At("prune", "rest")
    /\ ListRemote
    /\ UNCHANGED encryptVars

\* prune(config): reserve_bytes is 0.
Prune ==
    /\ stage = "prune"
    /\ ListRemote \/ DeleteRemote \/ DeleteFails
    /\ stage' = IF upc' = "delete" THEN "prune" ELSE "rest"
    /\ UNCHANGED encryptVars

PruneRaises == At("prune", "rest") /\ ListFails /\ UNCHANGED encryptVars

RunBatch ==
    \/ StartCycle
    \/ EncryptStep
    \/ EncryptRaises
    \/ EncryptDone
    \/ CapSpool
    \/ StartUpload
    \/ Move
    \/ MoveReports
    \/ Prune
    \/ PruneRaises

-----------------------------------------------------------------------------

BatchCrash == CrashRestart /\ ~due' /\ stage' = "rest"

BatchNext ==
    \/ RunBatch
    \/ (Record \/ World \/ (PurgeTrash /\ UNCHANGED encryptVars)) /\ UNCHANGED stage
    \/ BatchCrash

BatchSpec == BatchInit /\ [][BatchNext]_batchVars

\* As in Pipeline: ffmpeg cuts, files grow old, and no call blocks for ever.
BatchFairSpec == BatchSpec /\ RecordFairness /\ WF_batchVars(RunBatch)

-----------------------------------------------------------------------------
(* Properties                                                              *)

\* A cycle that does not raise and whose deletes succeed leaves the folder at
\* or under the cap.
CycleEndsUnderCap ==
    [][stage = "prune" /\ stage' = "rest" /\ auth /\ folder /\ budget' = budget
          => Bytes[Stored]' <= MaxDriveBytes]_batchVars

\* Nothing gates the upload, whatever README.md:211-214 says of the folder (see
\* FolderUnderCap), so between the two stages it is over the cap by what one
\* move transfers.  A failure adds to that what two more moves
\* transfer, and no more: a crash or a failed list or delete skips the prune of
\* one cycle, a dead grant those of the cycle it dies in and of the cycle it is
\* renewed in.
OneMove == UploadSlice - 1 + Transfers * MaxSize
BatchBound ==
    Bytes[Stored] <= MaxDriveBytes + (1 + 2 * (MaxFaults - budget)) * OneMove
=============================================================================
