----------------------------- MODULE Retention -----------------------------
(***************************************************************************)
(* The pure selection logic of videobackup/retention.py, and the slice     *)
(* size of videobackup/config.py that feeds it.                            *)
(*                                                                         *)
(* A listing (of the Drive folder or of a spool directory) is a set F of   *)
(* segments with their modification times mt.  Sizes come as a measure on  *)
(* sets of segments: Bytes[S] is the sum of the sizes of the files in S.   *)
(***************************************************************************)
EXTENDS Integers

CONSTANTS
    Segment,    \* the segments the cameras record during a run
    Bytes,      \* Bytes[S]: total size of the segments in S
    NoReading   \* what remote_about returns when it has no answer (None)

ASSUME BytesType == Bytes \in [SUBSET Segment -> Nat]

\* A sum of sizes: nothing weighs nothing, and disjoint sets add up.
ASSUME BytesAdditive ==
    /\ Bytes[{}] = 0
    /\ \A S, T \in SUBSET Segment :
           S \cap T = {} => Bytes[S \cup T] = Bytes[S] + Bytes[T]

\* ffmpeg opens a file when it has a packet to write: no segment is empty.
ASSUME BytesPositive == \A s \in Segment : Bytes[{s}] > 0

ASSUME NoReadingAssumption == NoReading \notin Int

Size(s) == Bytes[{s}]

MinOf(a, b) == IF a <= b THEN a ELSE b
MaxOf(a, b) == IF a >= b THEN a ELSE b

-----------------------------------------------------------------------------

\* Files that could never be stored under max_bytes, even alone.
SelectOversize(F, max_bytes) ==
    IF max_bytes <= 0 THEN {} ELSE {f \in F : Size(f) > max_bytes}

\* The age pass: what was last modified before the cutoff.
AgeVictims(F, mt, cutoff) == {f \in F : mt[f] < cutoff}

\* f and everything in the listing that is newer than f.
NoOlder(F, mt, f) == {g \in F : mt[g] >= mt[f]}

\* The size pass removes the oldest file while the total is over max_bytes:
\* f goes exactly when what is left once every older file is gone is still
\* over the budget.  Module SelectLoop has the loop itself.
NewestVictims(F, mt, max_bytes) ==   \* mutant: pops the newest end
    {f \in F : Bytes[{g \in F : mt[g] <= mt[f]}] > max_bytes}

SizeVictims(F, mt, max_bytes) ==
    {f \in F : Bytes[NoOlder(F, mt, f)] > max_bytes}

AgedOnly(F, mt, max_bytes, cutoff) ==   \* mutant: forgets the size pass
    AgeVictims(F, mt, cutoff)

\* Age first, then size on the survivors.  cutoff = 0 stands for
\* max_age_days = 0: no modification time is below it.
SelectForDeletion(F, mt, max_bytes, cutoff) ==
    LET aged == AgeVictims(F, mt, cutoff)
    IN  aged \cup SizeVictims(F \ aged, mt, max_bytes)

\* The budget the Drive folder is pruned to before reserve_bytes are uploaded.
CapIgnoringUpload(max_drive, reserve_bytes, folder_total, account_free, min_free) ==
    \* mutant: no "- reserve"
    LET cap     == MaxOf(0, max_drive - MaxOf(0, reserve_bytes))
        deficit == min_free - account_free
    IN  IF min_free > 0 /\ account_free # NoReading /\ deficit > 0
        THEN MinOf(cap, MaxOf(0, folder_total - deficit))
        ELSE cap

EffectivePruneCap(max_drive, reserve_bytes, folder_total, account_free, min_free) ==
    LET reserve == MaxOf(0, reserve_bytes)
        cap     == MaxOf(0, max_drive - reserve)
        deficit == min_free - (account_free - reserve)
    IN  IF min_free > 0 /\ account_free # NoReading
        THEN IF deficit > 0
             THEN MinOf(cap, MaxOf(0, folder_total - deficit))
             ELSE cap
        ELSE cap

\* Config.upload_slice_bytes: what one rclone move may transfer.
UploadSliceBytes(upload_max_bytes, max_drive_bytes) ==
    IF upload_max_bytes > 0
    THEN upload_max_bytes
    ELSE MaxOf(1, max_drive_bytes \div 4)
=============================================================================
