----------------------------- MODULE UploadLoop -----------------------------
(***************************************************************************)
(* The upload thread (main.run_upload_loop) and the rclone process it      *)
(* runs: cap the encrypted spool, make room on Drive for what this cycle   *)
(* may upload, then move one slice of the spool, newest first.             *)
(* upc = "prune_spool" is the top of the loop; the waits at its bottom are *)
(* the arbitrary delay before the next cycle.                              *)
(***************************************************************************)
EXTENDS Spool

CONSTANT Transfers   \* upload_transfers

ASSUME TransfersAssumption == Transfers \in Nat \ {0}

VARIABLES
    upc,      \* where the upload thread is
    due,      \* batch_interval_seconds have passed since the last prune
    reserve,  \* bytes this cycle may upload; 0 in an idle prune
    victims,  \* Drive files the running prune selected
    xfer      \* rclone's view of each segment in the running move

uploadVars == <<upc, due, reserve, victims, xfer>>

\* "listed": not compared with the folder yet; "queued": to be transferred;
\* "denied": failed because the grant is dead; "failed": for any other reason.
XferStates == {"none", "listed", "queued", "inflight", "landed", "moved",
               "failed", "denied"}

In(states) == {s \in Segment : xfer[s] \in states}
Waiting == In({"listed", "queued"})

UploadTypeOK ==
    /\ upc \in {"prune_spool", "measure", "list", "delete", "upload", "move"}
    /\ due \in BOOLEAN
    /\ reserve \in Nat
    /\ victims \subseteq Segment
    /\ xfer \in [Segment -> XferStates]

NoMove == [s \in Segment |-> "none"]

\* last_prune starts at 0.0 and time.monotonic() at boot: whether a prune is
\* due when the thread starts depends on the uptime.
UploadInit ==
    /\ upc = "prune_spool"
    /\ due \in BOOLEAN
    /\ reserve = 0
    /\ victims = {}
    /\ xfer = NoMove

\* The local listing less D.
SpoolWithout(D) == [s \in Segment |-> IF s \in D THEN 0 ELSE spool[s]]

\* The backlog pass of prune_spool, off when max_spool_bytes is 0.
NoBacklogPass(files) == {}   \* mutant: only the oversize pass
BacklogUncapped(files) ==        \* mutant: 0 is a limit like any other
    SelectForDeletion(files, spool, MaxSpoolBytes, 0)
BacklogVictims(files) ==
    IF MaxSpoolBytes <= 0 THEN {}
    ELSE SelectForDeletion(files, spool, MaxSpoolBytes, 0)

\* prune_spool: drop what could never be uploaded, then the oldest segments
\* over the spool cap.  The second pass runs on the first listing, without
\* the oversize files when at least one of them could be deleted.
PruneSpool ==
    /\ upc = "prune_spool"
    /\ LET oversize == SelectOversize(Spooled, MaxDriveBytes)
       IN  \E failed \in UnlinkFails(Spooled) :
             LET deleted == oversize \ failed
                 files   == IF deleted = {} THEN Spooled ELSE Spooled \ oversize
                 backlog == BacklogVictims(files)
                 dropped == (oversize \cup backlog) \ failed
             IN  /\ failed \subseteq oversize \cup backlog
                 /\ spool' = SpoolWithout(dropped)
                 /\ gone' = gone \cup dropped
                 /\ Spend(failed)
    /\ upc' = "measure"
    /\ UNCHANGED <<seg, raw, part, remote, folder, auth, trash, clock, cutoff,
                   due, reserve, victims, xfer>>

\* _pending_upload_bytes, and what of it one cycle can upload.
PendingUploadBytes == Bytes[Spooled]

ReserveAll == PendingUploadBytes   \* mutant: reserves the whole backlog
ReserveBytes == MinOf(PendingUploadBytes, UploadSlice)

MeasurePending ==
    /\ upc = "measure"
    /\ PendingUploadBytes > 0
    /\ reserve' = ReserveBytes
    /\ upc' = "list"
    /\ UNCHANGED <<spoolVars, due, victims, xfer>>

\* Nothing to upload, and the last prune is a batch interval ago.
IdleSkipsPrune ==   \* mutant: last_prune moves on, prune is not called
    /\ upc = "measure"
    /\ PendingUploadBytes = 0
    /\ due
    /\ due' = FALSE
    /\ upc' = "prune_spool"
    /\ UNCHANGED <<spoolVars, reserve, victims, xfer>>

IdlePrune ==
    /\ upc = "measure"
    /\ PendingUploadBytes = 0
    /\ due
    /\ reserve' = 0
    /\ upc' = "list"
    /\ UNCHANGED <<spoolVars, due, victims, xfer>>

IdlePoll ==
    /\ upc = "measure"
    /\ PendingUploadBytes = 0
    /\ ~due
    /\ upc' = "prune_spool"
    /\ UNCHANGED <<spoolVars, due, reserve, victims, xfer>>

\* batch_interval_seconds pass.
BatchIntervalPasses ==
    /\ ~due
    /\ due' = TRUE
    /\ UNCHANGED <<spoolVars, upc, reserve, victims, xfer>>

-----------------------------------------------------------------------------
(* prune(config, reserve_bytes=reserve)                                    *)

\* remote_about: only consulted for the quota guard, None when it fails.
AboutReading(free) ==
    \/ MinFreeBytes = 0 /\ free = NoReading /\ UNCHANGED budget
    \/ MinFreeBytes > 0 /\ free = AccountFree /\ UNCHANGED budget
    \/ MinFreeBytes > 0 /\ free = NoReading /\ Fault("about")

UnreservedCap(free) ==   \* mutant: prunes to the cap, not below it
    EffectivePruneCap(MaxDriveBytes, 0, Bytes[Stored], free, MinFreeBytes)

PruneCap(free) == EffectivePruneCap(MaxDriveBytes, reserve, Bytes[Stored],
                                    free, MinFreeBytes)

\* prune has nothing left to do: upload, or end an idle cycle.
PruneReturns ==
    /\ due' = FALSE
    /\ upc' = IF reserve > 0 THEN "upload" ELSE "prune_spool"

\* list_remote and the choice of victims; with none, prune returns at once.
ListRemote ==
    /\ upc = "list"
    /\ auth /\ folder
    /\ \E free \in {AccountFree, NoReading} :
          /\ AboutReading(free)
          /\ victims' = SelectForDeletion(Stored, remote, PruneCap(free), cutoff)
    /\ \/ victims' = {} /\ PruneReturns
       \/ victims' # {} /\ upc' = "delete" /\ UNCHANGED due
    /\ UNCHANGED <<seg, raw, part, spool, remote, folder, auth, trash, clock,
                   cutoff, gone, reserve, xfer>>

\* rclone lsjson fails: the grant is dead (RcloneAuthError), the folder does
\* not exist yet, or anything else.  The cycle is over, nothing is uploaded.
ListFails ==
    /\ upc = "list"
    /\ \/ (~auth \/ ~folder) /\ UNCHANGED budget
       \/ Fault("list")
    /\ upc' = "prune_spool"
    /\ reserve' = 0
    /\ UNCHANGED <<seg, raw, part, spool, remote, folder, auth, trash, clock,
                   cutoff, gone, due, victims, xfer>>

DeleteFromDrive(D) ==
    /\ remote' = [s \in Segment |-> IF s \in D THEN 0 ELSE remote[s]]
    /\ gone' = gone \cup D
    /\ trash' = IF UseTrash THEN trash + Bytes[D] ELSE trash

DeleteRemote ==
    /\ upc = "delete"
    /\ auth
    /\ DeleteFromDrive(victims)
    /\ victims' = {}
    /\ PruneReturns
    /\ UNCHANGED <<seg, raw, part, spool, folder, auth, clock, cutoff, budget,
                   reserve, xfer>>

\* rclone delete fails, possibly after deleting some: logged, and prune
\* returns as if nothing had happened.
DeleteFails ==
    /\ upc = "delete"
    /\ \/ ~auth /\ DeleteFromDrive({}) /\ UNCHANGED budget
       \/ /\ Fault("delete")
          /\ \E D \in SUBSET victims : D # victims /\ DeleteFromDrive(D)
    /\ victims' = {}
    /\ PruneReturns
    /\ UNCHANGED <<seg, raw, part, spool, folder, auth, clock, cutoff, reserve,
                   xfer>>

\* Google empties the trash after 30 days.
PurgeTrash ==
    /\ trash > 0
    /\ trash' = 0
    /\ UNCHANGED <<seg, raw, part, spool, remote, folder, auth, clock, cutoff,
                   gone, budget, uploadVars>>

-----------------------------------------------------------------------------
(* upload_pending: one rclone move over the spool                          *)

\* rclone lists *.gpg; a .gpg.part is not included.
StartMove ==
    /\ upc = "upload"
    /\ xfer' = [s \in Segment |-> IF spool[s] > 0 THEN "listed" ELSE "none"]
    /\ upc' = "move"
    /\ UNCHANGED <<spoolVars, due, reserve, victims>>

\* One of the checkers (as many as transfers) finds that the folder has no such
\* file.  Without --check-first the transfers do not wait for the other checks.
Check(s) ==
    /\ upc = "move"
    /\ xfer[s] = "listed"
    /\ remote[s] # spool[s]
    /\ xfer' = [xfer EXCEPT ![s] = "queued"]
    /\ UNCHANGED <<spoolVars, upc, due, reserve, victims>>

\* --max-transfer with --cutoff-mode soft: a transfer starts while the slice
\* is not full, and what is in flight when it fills up ends.
CutoffAtDriveCap(s) ==   \* mutant: the wrong limit for --max-transfer
    Bytes[In({"landed", "moved"})] < MaxDriveBytes
HardCutoff(s) ==         \* mutant: only what fits the rest of the slice
    Bytes[In({"landed", "moved"})] + Size(s) <= UploadSlice
SliceOpen(s) == Bytes[In({"landed", "moved"})] < UploadSlice

\* --order-by modtime,desc with --transfers in parallel: of what has been
\* checked so far, the newest.
StartOldestTransfer(s) ==   \* mutant: --order-by modtime,asc
    /\ upc = "move"
    /\ xfer[s] = "queued"
    /\ \A t \in In({"queued"}) : spool[t] >= spool[s]
    /\ Cardinality(In({"inflight"})) < Transfers
    /\ SliceOpen(s)
    /\ xfer' = [xfer EXCEPT ![s] = "inflight"]
    /\ UNCHANGED <<spoolVars, upc, due, reserve, victims>>

StartTransfer(s) ==
    /\ upc = "move"
    /\ xfer[s] = "queued"
    /\ \A t \in In({"queued"}) : spool[t] <= spool[s]
    /\ Cardinality(In({"inflight"})) < Transfers
    /\ SliceOpen(s)
    /\ xfer' = [xfer EXCEPT ![s] = "inflight"]
    /\ UNCHANGED <<spoolVars, upc, due, reserve, victims>>

\* The upload is confirmed.  The first one creates the folder.
TransferLands(s) ==
    /\ xfer[s] = "inflight"
    /\ auth
    /\ AccountFree >= Size(s)
    /\ xfer' = [xfer EXCEPT ![s] = "landed"]
    /\ remote' = [remote EXCEPT ![s] = spool[s]]
    /\ folder' = TRUE
    /\ UNCHANGED <<seg, raw, part, spool, auth, trash, clock, cutoff, gone,
                   budget, upc, due, reserve, victims>>

\* The retries are used up: dead grant, full account, dead connection.
TransferFails(s) ==
    /\ xfer[s] = "inflight"
    /\ \/ ~auth /\ xfer' = [xfer EXCEPT ![s] = "denied"] /\ UNCHANGED budget
       \/ /\ xfer' = [xfer EXCEPT ![s] = "failed"]
          /\ (AccountFree < Size(s) /\ UNCHANGED budget) \/ Fault("transfer")
    /\ UNCHANGED <<seg, raw, part, spool, remote, folder, auth, trash, clock,
                   cutoff, gone, upc, due, reserve, victims>>

\* move unlinks each source once its upload is confirmed.
UnlinkSource(s) ==
    /\ xfer[s] = "landed"
    /\ xfer' = [xfer EXCEPT ![s] = "moved"]
    /\ spool' = SpoolWithout({s})
    /\ UNCHANGED <<seg, raw, part, remote, folder, auth, trash, clock, cutoff,
                   gone, budget, upc, due, reserve, victims>>

\* The same file is on Drive already (a crash came between the two steps
\* above): rclone only unlinks the source.
SkipIdentical(s) ==
    /\ xfer[s] = "listed"
    /\ auth
    /\ remote[s] = spool[s]
    /\ xfer' = [xfer EXCEPT ![s] = "none"]
    /\ spool' = SpoolWithout({s})
    /\ UNCHANGED <<seg, raw, part, remote, folder, auth, trash, clock, cutoff,
                   gone, budget, upc, due, reserve, victims>>

\* rclone exits: the listing is exhausted or the slice is full.
MoveReturns ==
    /\ upc = "move"
    /\ In({"inflight", "landed"}) = {}
    /\ \/ Waiting = {}
       \/ Bytes[In({"moved", "failed", "denied"})] >= UploadSlice
    /\ xfer' = NoMove
    /\ reserve' = 0
    /\ upc' = "prune_spool"
    /\ UNCHANGED <<spoolVars, due, victims>>

Transfer ==
    \E s \in Segment :
        \/ Check(s)
        \/ StartTransfer(s)
        \/ TransferLands(s)
        \/ TransferFails(s)
        \/ UnlinkSource(s)
        \/ SkipIdentical(s)

UploadNext ==
    \/ PruneSpool
    \/ MeasurePending
    \/ IdlePrune
    \/ IdlePoll
    \/ ListRemote
    \/ ListFails
    \/ DeleteRemote
    \/ DeleteFails
    \/ StartMove
    \/ Transfer
    \/ MoveReturns

\* The service has ended, and its rclone with it (CrashRestart says when that
\* is so): the thread starts over and knows nothing of the last move.
UploadReset ==
    /\ upc' = "prune_spool"
    /\ due' \in BOOLEAN
    /\ reserve' = 0
    /\ victims' = {}
    /\ xfer' = NoMove
=============================================================================
