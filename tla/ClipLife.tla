------------------------------ MODULE ClipLife ------------------------------
(***************************************************************************)
(* What videobackup promises about the footage, whatever the threads, gpg, *)
(* rclone and the faults do in between: a recorded clip stays on this disk *)
(* until it is on Drive, and only a retention limit that is really         *)
(* exceeded makes one disappear.  Pipeline and Batch implement this.       *)
(***************************************************************************)
EXTENDS Integers

CONSTANTS
    Segment, Bytes,   \* the clips, and the total size of a set of them
    MaxDriveBytes,
    MaxSpoolBytes,    \* 0: no limit
    Slice,            \* room a prune makes for the next upload, at most
    OtherLimits       \* an age limit or a quota guard is configured

VARIABLES
    local,     \* the clips on this disk, as plaintext or encrypted
    drive,     \* the clips in the Drive folder
    dropped    \* the clips a retention pass has deleted

lifeVars == <<local, drive, dropped>>

Init == local = {} /\ drive = {} /\ dropped = {}

Record(s) ==
    /\ s \notin local \cup drive \cup dropped
    /\ local' = local \cup {s}
    /\ UNCHANGED <<drive, dropped>>

Store(s) ==
    /\ s \in local
    /\ drive' = drive \cup {s}
    /\ UNCHANGED <<local, dropped>>

\* Outside retention a clip leaves the disk only once it is on Drive, or when
\* what is left of it is the remains of one already deleted.
Release(s) ==
    /\ s \in drive \cup dropped
    /\ local' = local \ {s}
    /\ UNCHANGED <<drive, dropped>>

\* A retention pass over a spool.  A clip has two files while its plaintext is
\* waiting to be unlinked, so one that is dropped may remain for a moment.
Oversize(s) == Bytes[{s}] > MaxDriveBytes

DropLocal(D) ==
    /\ \/ \A s \in D : Oversize(s)
       \/ MaxSpoolBytes > 0 /\ Bytes[local] > MaxSpoolBytes
    /\ dropped' = dropped \cup D
    /\ \E twice \in SUBSET D : local' = local \ (D \ twice)
    /\ UNCHANGED drive

\* A retention pass over the folder.
DropRemote(D) ==
    /\ OtherLimits \/ Bytes[drive] > MaxDriveBytes - Slice
    /\ dropped' = dropped \cup D
    /\ drive' = drive \ D
    /\ UNCHANGED local

Next ==
    \/ \E s \in Segment : Record(s) \/ Store(s) \/ Release(s)
    \/ \E D \in SUBSET local : DropLocal(D)
    \/ \E D \in SUBSET drive : DropRemote(D)

Spec == Init /\ [][Next]_lifeVars
=============================================================================
