-------------------------------- MODULE Spool --------------------------------
(***************************************************************************)
(* What the threads of `videobackup run` share: the two spool directories  *)
(* and the Drive folder, with the ffmpeg processes that fill the first and *)
(* the account that holds the last.  ffmpeg, the file system and Drive are *)
(* outside the repository; this module states what the code relies on.     *)
(***************************************************************************)
EXTENDS Retention, FiniteSets

CONSTANTS
    Source,         \* Source[s]: the camera that records segment s
    UntimedSource,  \* cameras whose ffmpeg runs without a read timeout (http)
    Faults,         \* the kinds of failure the environment may produce
    MaxFaults,      \* how many failures one behaviour has (a model bound)
    MaxDriveBytes, MaxSpoolBytes, UploadMaxBytes, MinFreeBytes, UseTrash,
    QuotaBytes,     \* what the account leaves for the folder and the trash
    TrashBytes,     \* what the trash may hold when the service starts
    AgeCap,         \* max_age_days > 0
    FolderReady     \* the Drive folder exists before the first start

FaultKinds == {"crash", "gpg", "unlink", "list", "about", "delete", "transfer",
               "auth"}

\* Segments are numbered in the order ffmpeg opens them.
ASSUME SegmentAssumption == Segment \subseteq Nat
ASSUME SourceAssumption ==
    /\ UntimedSource \subseteq {Source[s] : s \in Segment}
    /\ DOMAIN Source = Segment
ASSUME FaultsAssumption == Faults \subseteq FaultKinds /\ MaxFaults \in Nat
\* What load_config lets through.
ASSUME ConfigAssumption ==
    /\ MaxDriveBytes \in Nat \ {0}
    /\ MaxSpoolBytes \in Nat
    /\ UploadMaxBytes \in Nat
    /\ MinFreeBytes \in Nat
    /\ UseTrash \in BOOLEAN
    /\ AgeCap \in BOOLEAN
    /\ FolderReady \in BOOLEAN
    /\ QuotaBytes \in Nat
    /\ TrashBytes \in Nat

VARIABLES
    seg,     \* what ffmpeg has done with each segment
    raw,     \* the segments linked in the raw directory
    part,    \* the segments with a .gpg.part in the encrypted directory
    spool,   \* mtime of each .gpg in the encrypted directory; 0: no such file
    remote,  \* mtime of each file in the Drive folder; 0: no such file
    folder,  \* the Drive folder exists
    auth,    \* the OAuth grant is alive
    trash,   \* bytes in the Drive trash
    clock,   \* number of files encrypted so far; their mtimes
    cutoff,  \* files with an mtime below it are older than max_age_days
    gone,    \* history: segments a retention pass deleted
    budget   \* failures the environment may still produce

spoolVars == <<seg, raw, part, spool, remote, folder, auth, trash, clock,
               cutoff, gone, budget>>

\* A segment is open while ffmpeg may still write to it, and settled once its
\* mtime is _SETTLE_MARGIN old: "quiet" is both, "closed" is neither.
SegStates == {"unborn", "writing", "quiet", "closed", "settled"}

Open(s) == seg[s] \in {"writing", "quiet"}
Settled(s) == seg[s] \in {"quiet", "settled"}
Born(s) == seg[s] # "unborn"

Spooled == {s \in Segment : spool[s] > 0}
Stored == {s \in Segment : remote[s] > 0}

\* What `rclone about` calls free.
AccountFree == QuotaBytes - Bytes[Stored] - trash

UploadSlice == UploadSliceBytes(UploadMaxBytes, MaxDriveBytes)

SpoolTypeOK ==
    /\ seg \in [Segment -> SegStates]
    /\ raw \subseteq Segment
    /\ part \subseteq Segment
    /\ spool \in [Segment -> 0..clock]
    /\ remote \in [Segment -> 0..clock]
    /\ folder \in BOOLEAN
    /\ auth \in BOOLEAN
    /\ trash \in Nat
    /\ clock \in Nat
    /\ cutoff \in 0..(clock + 1)
    /\ gone \subseteq Segment
    /\ budget \in 0..MaxFaults

SpoolInit ==
    /\ seg = [s \in Segment |-> "unborn"]
    /\ raw = {}
    /\ part = {}
    /\ spool = [s \in Segment |-> 0]
    /\ remote = [s \in Segment |-> 0]
    /\ folder = FolderReady
    /\ auth = TRUE
    /\ trash \in {0, TrashBytes}
    /\ clock = 0
    /\ cutoff = 0
    /\ gone = {}
    /\ budget = MaxFaults

\* The environment spends one of its failures; UNCHANGED budget otherwise.
Fault(kind) == kind \in Faults /\ budget > 0 /\ budget' = budget - 1

\* Failures of unlink: none, or some of the files, for one failure.
UnlinkFails(F) ==
    {{}} \cup (IF "unlink" \in Faults /\ budget > 0 THEN SUBSET F ELSE {})
Spend(failed) == budget' = IF failed = {} THEN budget ELSE budget - 1

-----------------------------------------------------------------------------
(* ffmpeg: one open segment per camera, cut every segment_seconds.         *)

OpenSegment(s) ==
    /\ seg[s] = "unborn"
    /\ \A t \in Segment : Source[t] = Source[s] =>
          /\ ~Open(t)
          /\ t < s => Born(t)
    /\ seg' = [seg EXCEPT ![s] = "writing"]
    /\ raw' = raw \cup {s}
    /\ UNCHANGED <<part, spool, remote, folder, auth, trash, clock, cutoff,
                   gone, budget>>

\* ffmpeg cuts to the next file, exits, or is killed by the watchdog.
CloseSegment(s) ==
    /\ Open(s)
    /\ seg' = [seg EXCEPT ![s] = IF @ = "quiet" THEN "settled" ELSE "closed"]
    /\ UNCHANGED <<raw, part, spool, remote, folder, auth, trash, clock,
                   cutoff, gone, budget>>

\* _SETTLE_MARGIN seconds pass after the last write to a closed file: a
\* camera's files settle in the order they were closed.
SettleSegment(s) ==
    /\ seg[s] = "closed"
    /\ \A t \in Segment : Source[t] = Source[s] /\ t < s => seg[t] = "settled"
    /\ seg' = [seg EXCEPT ![s] = "settled"]
    /\ UNCHANGED <<raw, part, spool, remote, folder, auth, trash, clock,
                   cutoff, gone, budget>>

\* The source sends nothing for _SETTLE_MARGIN seconds and ffmpeg keeps the
\* file open; by then the files closed before have settled.  With
\* `-timeout 10000000` ffmpeg gives up before that.
GoQuiet(s) ==
    /\ Source[s] \in UntimedSource
    /\ seg[s] = "writing"
    /\ \A t \in Segment : Source[t] = Source[s] /\ t < s => seg[t] = "settled"
    /\ seg' = [seg EXCEPT ![s] = "quiet"]
    /\ UNCHANGED <<raw, part, spool, remote, folder, auth, trash, clock,
                   cutoff, gone, budget>>

ResumeWriting(s) ==
    /\ seg[s] = "quiet"
    /\ seg' = [seg EXCEPT ![s] = "writing"]
    /\ UNCHANGED <<raw, part, spool, remote, folder, auth, trash, clock,
                   cutoff, gone, budget>>

-----------------------------------------------------------------------------
(* The Drive account and the calendar.                                     *)

\* Google expires or revokes the refresh token.
GrantDies ==
    /\ auth
    /\ Fault("auth")
    /\ auth' = FALSE
    /\ UNCHANGED <<seg, raw, part, spool, remote, folder, trash, clock,
                   cutoff, gone>>

\* A human runs `rclone config reconnect`.
Reauthorize ==
    /\ ~auth
    /\ auth' = TRUE
    /\ UNCHANGED <<seg, raw, part, spool, remote, folder, trash, clock,
                   cutoff, gone, budget>>

\* Another file passes max_age_days.
GrowOlder ==
    /\ AgeCap
    /\ cutoff <= clock
    /\ cutoff' = cutoff + 1
    /\ UNCHANGED <<seg, raw, part, spool, remote, folder, auth, trash, clock,
                   gone, budget>>
=============================================================================
