----------------------------- MODULE LifeProofs -----------------------------
(***************************************************************************)
(* Pipeline implements ClipLife: every step of the threads, of gpg, rclone *)
(* and ffmpeg and every crash is a step in the life of some clips, or none *)
(* that ClipLife sees.  What retention deletes is deleted for good.        *)
(***************************************************************************)
EXTENDS PruneProofs

Local == raw \cup Spooled

OtherLimits == AgeCap \/ MinFreeBytes > 0

\* What the mapping needs besides SafeInv: a segment has no trace before
\* ffmpeg opens it, gpg works on a plaintext that is there, and a prune that
\* deletes has a reason.
DiskInv ==
    /\ \A s \in Segment : ~Born(s) => s \notin Local \cup Stored \cup gone
    /\ epc = "gpg" => cur \subseteq raw

FolderInv ==
    upc = "delete" => /\ victims \subseteq Stored
                      /\ OtherLimits \/ Bytes[Stored] > MaxDriveBytes - UploadSlice

AgeInv == cutoff > 0 => AgeCap

LifeInv == DiskInv /\ FolderInv /\ AgeInv

-----------------------------------------------------------------------------
(* The strengthening is inductive                                          *)

LEMMA NextAge == TypeOK /\ AgeInv /\ [Next]_vars => AgeInv'
<1> SUFFICES ASSUME TypeOK, AgeInv, [Next]_vars
             PROVE  AgeInv'
    OBVIOUS
<1>1. cutoff' = cutoff \/ AgeCap
    <2>1. CASE Record \/ World \/ CrashRestart \/ UNCHANGED vars
        BY <2>1 DEF Record, OpenSegment, CloseSegment, SettleSegment, GoQuiet,
           ResumeWriting, World, GrantDies, Reauthorize, GrowOlder,
           CrashRestart, vars, spoolVars
    <2>2. CASE Encrypt
        BY <2>2 DEF Encrypt, EncryptNext, EncryptSegment, PruneRawSpool,
           ListSegments, GpgMissing, SkipEncrypted, StartGpg, RenamePart,
           GpgFails, UnlinkPlaintext, PassRaises, PassDone, spoolVars
    <2>3. CASE Upload
        BY <2>3 DEF Upload, UploadNext, Transfer, PruneSpool, MeasurePending,
           IdlePrune, IdlePoll, ListRemote, ListFails, DeleteRemote, DeleteFails,
           StartMove, Check, StartTransfer, TransferLands, TransferFails, UnlinkSource,
           SkipIdentical, MoveReturns, BatchIntervalPasses, PurgeTrash, spoolVars
    <2>4. QED
        BY <2>1, <2>2, <2>3 DEF Next
<1>2. QED
    BY <1>1 DEF AgeInv

\* A prune that has no other limit to enforce selects something only when the
\* folder has no room for a slice.
LEMMA SelectionHasReason ==
    ASSUME TypeOK, ReserveInv, AgeInv, ~OtherLimits,
           NEW free \in {AccountFree, NoReading},
           NEW v \in SelectForDeletion(Stored, remote, PruneCap(free), cutoff)
    PROVE  Bytes[Stored] > MaxDriveBytes - UploadSlice
<1>1. cutoff = 0 /\ MinFreeBytes = 0 /\ MaxDriveBytes \in Nat
    BY ListingTypes, ConfigAssumption DEF AgeInv, OtherLimits
<1>2. PruneCap(free) \in Int /\ PruneCap(free) >= MaxDriveBytes - UploadSlice
    BY <1>1, ListingTypes, UploadSliceNat
       DEF ReserveInv, PruneCap, EffectivePruneCap, MaxOf
<1> DEFINE newer == NoOlder(Stored, remote, v)
<1>3. Bytes[newer] > PruneCap(free)
    BY <1>1, ListingTypes DEF SelectForDeletion, AgeVictims, SizeVictims, NoOlder
<1>4. newer \in SUBSET Stored
    BY DEF NoOlder
<1>5. Bytes[newer] \in Nat /\ Bytes[newer] <= Bytes[Stored]
    BY <1>4, ListingTypes, BytesNat, BytesMonotone
<1> HIDE DEF newer
<1>6. QED
    BY <1>1, <1>2, <1>3, <1>5, ListingTypes, UploadSliceNat

LEMMA NextFolder ==
    TypeOK /\ SafeInv /\ ReserveInv /\ AgeInv /\ FolderInv /\ [Next]_vars => FolderInv'
<1> SUFFICES ASSUME TypeOK, SafeInv, ReserveInv, AgeInv, FolderInv, [Next]_vars
             PROVE  FolderInv'
    OBVIOUS
<1>1. CASE UNCHANGED <<remote, reserve, victims, upc>>
    BY <1>1 DEF FolderInv, Stored, OtherLimits
<1>2. CASE upc' # "delete"
    BY <1>2 DEF FolderInv
<1>3. CASE ListRemote /\ upc' = "delete"
    <2>1. PICK free \in {AccountFree, NoReading} :
             victims' = SelectForDeletion(Stored, remote, PruneCap(free), cutoff)
        BY <1>3 DEF ListRemote
    <2>2. Stored' = Stored /\ victims' # {}
        BY <1>3 DEF ListRemote, PruneReturns, Stored
    <2>3. victims' \subseteq Stored
        BY <2>1, SelectionSubset
    <2>4. OtherLimits \/ Bytes[Stored] > MaxDriveBytes - UploadSlice
        BY <2>1, <2>2, SelectionHasReason
    <2>5. QED
        BY <2>2, <2>3, <2>4 DEF FolderInv, OtherLimits
<1>4. QED
    BY <1>1, <1>2, <1>3, StepKinds
       DEF Gating, MeasurePending, DeleteRemote, DeleteFails, PruneReturns

-----------------------------------------------------------------------------
(* The mapping of a step                                                   *)

LEMMA RecordMaps ==
    ASSUME TypeOK, DiskInv, Record
    PROVE  [Clips!Next]_(Clips!lifeVars) /\ DiskInv'
<1>1. UNCHANGED <<spool, remote, gone, epc, cur>> /\ Spooled' = Spooled /\ Stored' = Stored
    BY DEF Record, OpenSegment, CloseSegment, SettleSegment, GoQuiet,
           ResumeWriting, encryptVars, Spooled, Stored
<1>2. ASSUME NEW s \in Segment, OpenSegment(s)
      PROVE  Clips!Record(s) /\ DiskInv'
    BY <1>1, <1>2 DEF OpenSegment, DiskInv, Local, Born, Clips!Record, TypeOK, SpoolTypeOK
<1>3. CASE raw' = raw /\ \A s \in Segment : Born(s) => Born(s)'
    BY <1>1, <1>3 DEF DiskInv, Local, Clips!lifeVars
<1>4. QED
    BY <1>2, <1>3 DEF Record, CloseSegment, SettleSegment, GoQuiet, ResumeWriting,
       Open, Born, TypeOK, SpoolTypeOK, Clips!Next

\* A step of the threads records nothing: DiskInv is about what they touch.
LEMMA ThreadKeepsDisk ==
    ASSUME DiskInv, seg' = seg,
           Local' \cup Stored' \cup gone' \subseteq Local \cup Stored \cup gone,
           epc' = "gpg" => cur' \subseteq raw'
    PROVE  DiskInv'
BY DEF DiskInv, Born

LEMMA EncryptMaps ==
    ASSUME TypeOK, SafeInv, PartInv, DiskInv, Encrypt
    PROVE  [Clips!Next]_(Clips!lifeVars) /\ DiskInv'
<1>0. /\ EncryptNext /\ UNCHANGED remote /\ Stored' = Stored /\ seg' = seg
      /\ raw \subseteq Segment /\ cur \subseteq Segment /\ todo \subseteq Segment
      /\ spool \in [Segment -> Nat] /\ clock \in Nat
    BY DEF Encrypt, EncryptNext, EncryptSegment, PruneRawSpool, ListSegments,
       GpgMissing, SkipEncrypted, StartGpg, RenamePart, GpgFails, UnlinkPlaintext,
       PassRaises, PassDone, spoolVars, Stored, TypeOK, SpoolTypeOK, EncryptTypeOK
<1>1. CASE PruneRawSpool
    <2>1. PICK D \in SUBSET SelectOversize(raw, MaxDriveBytes) :
             raw' = raw \ D /\ gone' = gone \cup D
        BY <1>1 DEF PruneRawSpool
    <2>2. D \in SUBSET Local /\ \A s \in D : Clips!Oversize(s)
        BY <2>1 DEF SelectOversize, Size, Local, Clips!Oversize
    <2>3. Spooled' = Spooled
        BY <1>1 DEF PruneRawSpool, Spooled
    <2>4. Local' = Local \ (D \ (D \cap Spooled))
        BY <2>1, <2>3 DEF Local
    <2>5. Clips!DropLocal(D)
        BY <1>0, <2>1, <2>2, <2>4, D \cap Spooled \in SUBSET D
           DEF Clips!DropLocal, Local
    <2>6. DiskInv'
        BY <1>0, <1>1, <2>1, <2>2, <2>4, ThreadKeepsDisk DEF PruneRawSpool
    <2>7. QED
        BY <2>2, <2>5, <2>6 DEF Clips!Next, Local
<1>2. CASE Local' = Local /\ gone' = gone /\ (epc' = "gpg" => cur' \subseteq raw')
    BY <1>0, <1>2, ThreadKeepsDisk DEF Clips!lifeVars, Local
<1>3. CASE ListSegments \/ GpgMissing \/ PassRaises \/ PassDone
    <2>1. Local' = Local /\ gone' = gone /\ epc' # "gpg"
        BY <1>3 DEF ListSegments, GpgMissing, PassRaises, PassDone, spoolVars,
                    Local, Spooled
    <2>2. QED
        BY <1>2, <2>1
<1>4. ASSUME NEW s \in Segment, SkipEncrypted(s) \/ StartGpg(s) \/ GpgFails(s)
      PROVE  [Clips!Next]_(Clips!lifeVars) /\ DiskInv'
    <2>1. Spooled' = Spooled /\ gone' = gone
        BY <1>4 DEF SkipEncrypted, StartGpg, GpgFails, Spooled
    <2>2. Local' = Local
        BY <1>0, <1>4, <2>1 DEF SkipEncrypted, StartGpg, GpgFails, Local, Spooled
    <2>3. epc' = "gpg" => cur' \subseteq raw'
        BY <1>0, <1>4 DEF SkipEncrypted, StartGpg, GpgFails, Turn, PartInv
    <2>4. QED
        BY <1>2, <2>1, <2>2, <2>3
<1>5. ASSUME NEW s \in Segment, RenamePart(s)
      PROVE  [Clips!Next]_(Clips!lifeVars) /\ DiskInv'
    <2>1. Spooled' = Spooled \cup {s} /\ raw' = raw /\ gone' = gone
        BY <1>0, <1>5 DEF RenamePart, Spooled
    <2>2. s \in raw /\ epc' # "gpg"
        BY <1>5 DEF RenamePart, DiskInv
    <2>3. QED
        BY <1>2, <2>1, <2>2 DEF Local
<1>6. ASSUME NEW s \in Segment, UnlinkPlaintext(s)
      PROVE  [Clips!Next]_(Clips!lifeVars) /\ DiskInv'
    <2>1. Spooled' = Spooled /\ raw' = raw \ {s} /\ gone' = gone /\ epc' # "gpg"
        BY <1>6 DEF UnlinkPlaintext, Spooled
    <2>2. CASE s \in Spooled
        BY <1>2, <2>1, <2>2 DEF Local
    <2>3. CASE s \notin Spooled
        <3>1. s \in Stored \cup gone
            BY <1>6, <2>3 DEF UnlinkPlaintext, SafeInv, PlaintextSpare
        <3>2. Local' = Local \ {s}
            BY <2>1, <2>3 DEF Local
        <3>3. Clips!Release(s)
            BY <1>0, <2>1, <3>1, <3>2 DEF Clips!Release, Local
        <3>4. DiskInv'
            BY <1>0, <2>1, <3>2, ThreadKeepsDisk
        <3>5. QED
            BY <3>3, <3>4 DEF Clips!Next
    <2>4. QED
        BY <2>2, <2>3
<1>7. QED
    BY <1>0, <1>1, <1>3, <1>4, <1>5, <1>6 DEF EncryptNext, EncryptSegment

\* prune_spool deletes only what is oversize, unless the spool is over its cap.
LEMMA PruneSpoolDrops ==
    ASSUME TypeOK, PruneSpool
    PROVE  \E D \in SUBSET Local :
              Clips!DropLocal(D) /\ Local' \subseteq Local /\ gone' = gone \cup D
<1> DEFINE oversize == SelectOversize(Spooled, MaxDriveBytes)
<1>1. PICK failed \in SUBSET Spooled, files \in SUBSET Spooled :
         LET D == (oversize \cup BacklogVictims(files)) \ failed
         IN  spool' = SpoolWithout(D) /\ gone' = gone \cup D
    BY DEF PruneSpool, UnlinkFails
<1> DEFINE D == (oversize \cup BacklogVictims(files)) \ failed
<1>2. /\ UNCHANGED <<raw, remote>> /\ Stored' = Stored
      /\ raw \subseteq Segment /\ Spooled \subseteq Segment
      /\ spool \in [Segment -> Nat] /\ MaxSpoolBytes \in Nat
    BY ConfigAssumption DEF PruneSpool, Stored, Spooled, TypeOK, SpoolTypeOK
<1>3. D \in SUBSET Spooled
    BY SelectionSubset DEF SelectOversize, BacklogVictims
<1>4. \/ \A s \in D : Clips!Oversize(s)
      \/ MaxSpoolBytes > 0 /\ Bytes[Local] > MaxSpoolBytes
    <2>1. CASE BacklogVictims(files) = {}
        BY <2>1 DEF SelectOversize, Size, Clips!Oversize
    <2>2. CASE BacklogVictims(files) # {}
        <3>1. PICK v \in SelectForDeletion(files, spool, MaxSpoolBytes, 0) : TRUE
            BY <2>2 DEF BacklogVictims
        <3>2. MaxSpoolBytes > 0
            BY <1>2, <2>2 DEF BacklogVictims
        <3>3. Bytes[NoOlder(files, spool, v)] > MaxSpoolBytes
            <4>1. AgeVictims(files, spool, 0) = {}
                BY <1>1, <1>2 DEF AgeVictims
            <4>2. files \ {} = files
                OBVIOUS
            <4>3. QED
                BY <3>1, <4>1, <4>2 DEF SelectForDeletion, SizeVictims
        <3> DEFINE newer == NoOlder(files, spool, v)
        <3>4. newer \in SUBSET Local /\ Local \in SUBSET Segment
            BY <1>2 DEF NoOlder, Local
        <3>5. /\ Bytes[newer] \in Nat /\ Bytes[Local] \in Nat
              /\ Bytes[newer] <= Bytes[Local]
            BY <3>4, BytesNat, BytesMonotone
        <3> HIDE DEF newer
        <3>6. QED
            BY <1>2, <3>2, <3>3, <3>5 DEF newer
    <2>3. QED
        BY <2>1, <2>2
<1>5. Spooled' = Spooled \ D
    BY <1>1, <1>2, <1>3 DEF SpoolWithout, Spooled
<1>6. Local' = Local \ (D \ (D \cap raw))
    BY <1>2, <1>5, <1>3 DEF Local
<1>7. gone' = gone \cup D /\ D \in SUBSET Local
    BY <1>1, <1>3 DEF Local
<1> HIDE DEF D
<1>8. Clips!DropLocal(D)
    BY <1>2, <1>4, <1>6, <1>7, D \cap raw \in SUBSET D DEF Clips!DropLocal, Local
<1>9. QED
    BY <1>6, <1>7, <1>8

LEMMA UploadMaps ==
    ASSUME TypeOK, SafeInv, DiskInv, FolderInv, Upload
    PROVE  [Clips!Next]_(Clips!lifeVars) /\ DiskInv'
<1>0. /\ UNCHANGED <<seg, raw, epc, cur>>
      /\ UploadNext \/ BatchIntervalPasses \/ PurgeTrash
      /\ spool \in [Segment -> Nat] /\ remote \in [Segment -> Nat]
    <2>1. UNCHANGED <<epc, cur>> /\ (UploadNext \/ BatchIntervalPasses \/ PurgeTrash)
        BY DEF Upload, encryptVars
    <2>2. spool \in [Segment -> Nat] /\ remote \in [Segment -> Nat]
        BY DEF TypeOK, SpoolTypeOK
    <2>3. CASE Transfer
        BY <2>3, <2>1, <2>2 DEF Transfer, Check, StartTransfer, TransferLands,
           TransferFails, UnlinkSource, SkipIdentical, spoolVars
    <2>4. CASE ~Transfer
        BY <2>4, <2>1, <2>2 DEF UploadNext, PruneSpool, MeasurePending, IdlePrune,
           IdlePoll, ListRemote, ListFails, DeleteRemote, DeleteFails, StartMove,
           MoveReturns, BatchIntervalPasses, PurgeTrash, spoolVars
    <2>5. QED
        BY <2>3, <2>4
<1>1. epc' = "gpg" => cur' \subseteq raw'
    BY <1>0 DEF DiskInv
<1>2. CASE UNCHANGED <<spool, remote, gone>>
    <2>1. Local' = Local /\ Stored' = Stored
        BY <1>0, <1>2 DEF Local, Stored, Spooled
    <2>2. QED
        BY <1>0, <1>1, <1>2, <2>1, ThreadKeepsDisk DEF Clips!lifeVars, Local
<1>3. CASE PruneSpool
    <2>1. PICK D \in SUBSET Local :
             Clips!DropLocal(D) /\ Local' \subseteq Local /\ gone' = gone \cup D
        BY <1>3, PruneSpoolDrops
    <2>2. Stored' = Stored
        BY <1>3 DEF PruneSpool, Stored
    <2>3. QED
        BY <1>0, <1>1, <2>1, <2>2, ThreadKeepsDisk DEF Clips!Next, Local
<1>4. CASE DeleteRemote \/ DeleteFails
    <2>1. PICK D \in SUBSET victims : DeleteFromDrive(D)
        BY <1>4 DEF DeleteRemote, DeleteFails
    <2>2. Local' = Local
        BY <1>0, <1>4 DEF DeleteRemote, DeleteFails, Local, Spooled
    <2>3. D \in SUBSET Stored /\ Stored' = Stored \ D /\ gone' = gone \cup D
        BY <1>0, <1>4, <2>1
           DEF DeleteRemote, DeleteFails, FolderInv, DeleteFromDrive, Stored
    <2>4. Clips!DropRemote(D)
        BY <1>4, <2>2, <2>3 DEF DeleteRemote, DeleteFails, FolderInv, OtherLimits,
                                Clips!DropRemote, Local
    <2>5. QED
        BY <1>0, <1>1, <2>2, <2>3, <2>4, ThreadKeepsDisk DEF Clips!Next
<1>5. ASSUME NEW s \in Segment, TransferLands(s)
      PROVE  [Clips!Next]_(Clips!lifeVars) /\ DiskInv'
    <2>1. Local' = Local /\ s \in Local /\ spool[s] > 0 /\ gone' = gone
        BY <1>0, <1>5 DEF TransferLands, SafeInv, TransfersHaveSource, Local, Spooled
    <2>2. Stored' = Stored \cup {s}
        BY <1>0, <1>5, <2>1 DEF TransferLands, Stored
    <2>3. Clips!Store(s)
        BY <2>1, <2>2 DEF Clips!Store, Local
    <2>4. QED
        BY <1>0, <1>1, <2>1, <2>2, <2>3, ThreadKeepsDisk DEF Clips!Next
<1>6. ASSUME NEW s \in Segment, UnlinkSource(s) \/ SkipIdentical(s)
      PROVE  [Clips!Next]_(Clips!lifeVars) /\ DiskInv'
    <2>1. s \in Stored /\ Stored' = Stored /\ gone' = gone
        BY <1>0, <1>6 DEF UnlinkSource, SkipIdentical, SafeInv,
                          TransfersHaveSource, Stored
    <2>2. Spooled' = Spooled \ {s}
        BY <1>0, <1>6 DEF UnlinkSource, SkipIdentical, SpoolWithout, Spooled
    <2>3. CASE s \in raw
        BY <1>0, <1>1, <2>1, <2>2, <2>3, ThreadKeepsDisk DEF Local, Clips!lifeVars
    <2>4. CASE s \notin raw
        <3>1. Local' = Local \ {s}
            BY <1>0, <2>2, <2>4 DEF Local
        <3>2. Clips!Release(s)
            BY <2>1, <3>1 DEF Clips!Release, Local
        <3>3. QED
            BY <1>0, <1>1, <2>1, <3>1, <3>2, ThreadKeepsDisk DEF Clips!Next
    <2>5. QED
        BY <2>3, <2>4
<1>7. CASE \/ MeasurePending \/ IdlePrune \/ IdlePoll \/ ListRemote \/ ListFails
           \/ StartMove \/ MoveReturns \/ BatchIntervalPasses \/ PurgeTrash
    BY <1>2, <1>7 DEF MeasurePending, IdlePrune, IdlePoll, ListRemote, ListFails,
       StartMove, MoveReturns, BatchIntervalPasses, PurgeTrash, spoolVars
<1>8. ASSUME NEW s \in Segment, Check(s) \/ StartTransfer(s) \/ TransferFails(s)
      PROVE  [Clips!Next]_(Clips!lifeVars) /\ DiskInv'
    BY <1>2, <1>8 DEF Check, StartTransfer, TransferFails, spoolVars
<1>9. QED
    BY <1>0, <1>3, <1>4, <1>5, <1>6, <1>7, <1>8 DEF UploadNext, Transfer

LEMMA StepMaps ==
    TypeOK /\ SafeInv /\ PartInv /\ DiskInv /\ FolderInv /\ [Next]_vars
        => [Clips!Next]_(Clips!lifeVars) /\ DiskInv'
<1> SUFFICES ASSUME TypeOK, SafeInv, PartInv, DiskInv, FolderInv, [Next]_vars
             PROVE  [Clips!Next]_(Clips!lifeVars) /\ DiskInv'
    OBVIOUS
<1>1. CASE World \/ CrashRestart \/ UNCHANGED vars
    <2>1. /\ UNCHANGED <<seg, raw, spool, remote, gone>>
          /\ epc' = "gpg" => epc = "gpg" /\ cur' = cur
        BY <1>1 DEF World, GrantDies, Reauthorize, GrowOlder, CrashRestart,
                    EncryptReset, vars, spoolVars, encryptVars
    <2>2. Local' = Local /\ Stored' = Stored
        BY <2>1 DEF Local, Stored, Spooled
    <2>3. QED
        BY <2>1, <2>2 DEF DiskInv, Born, Clips!lifeVars, Local
<1>2. QED
    BY <1>1, RecordMaps, EncryptMaps, UploadMaps DEF Next

-----------------------------------------------------------------------------

LEMMA InitLife == Init => Clips!Init /\ LifeInv
BY DEF Init, SpoolInit, EncryptInit, UploadInit, LifeInv, DiskInv, FolderInv,
       AgeInv, Local, Born, Spooled, Stored, Clips!Init

LEMMA NextLife ==
    TypeOK /\ SafeInv /\ PartInv /\ ReserveInv /\ LifeInv /\ [Next]_vars
        => LifeInv' /\ [Clips!Next]_(Clips!lifeVars)
BY NextAge, NextFolder, StepMaps DEF LifeInv

LEMMA LifeInvariant == Spec => [](PartInv /\ LifeInv)
BY InitPart, NextPart, InitLife, NextLife, ReserveBounded, TypeCorrect,
   SafeInvariant, PTL DEF Spec

\* The program implements the life of a clip that ClipLife describes, for any
\* cameras, sizes, limits and faults.
THEOREM ImplementsClipLife == Spec => KeepsClips
BY InitLife, NextLife, LifeInvariant, ReserveBounded, TypeCorrect, SafeInvariant,
   PTL DEF Spec, KeepsClips, Clips!Spec

-----------------------------------------------------------------------------
(* What a retention pass deleted stays deleted                             *)

\* A segment has one copy, but for two moments: its plaintext is about to be
\* unlinked, or its upload is confirmed and rclone is about to unlink the
\* source.  Neither is when a prune looks at the files of the later stage.
TraceInv ==
    /\ \A s \in raw : s \in Spooled \cup Stored \cup gone => epc = "unlink" /\ s \in cur
    /\ \A s \in Spooled \cap Stored : xfer[s] = "landed"
    /\ gone \cap (Spooled \cup Stored) = {}
    /\ \A s, t \in cur : s = t

LEMMA InitTrace == Init => TraceInv
BY DEF Init, SpoolInit, EncryptInit, TraceInv, Spooled, Stored

\* A step after which no segment has left a trace that it had not left before.
LEMMA NoNewTrace ==
    ASSUME TraceInv, raw' \subseteq raw, gone' = gone,
           Spooled' \subseteq Spooled, Stored' \subseteq Stored,
           epc = "unlink" => epc' = "unlink" /\ cur \subseteq cur',
           \A s, t \in cur' : s = t,
           \A s \in Spooled' \cap Stored' : xfer[s] = "landed" => xfer'[s] = "landed"
    PROVE  TraceInv'
BY DEF TraceInv

LEMMA RecordTrace ==
    ASSUME TypeOK, DiskInv, TraceInv, Record
    PROVE  TraceInv'
<1>1. /\ UNCHANGED <<spool, remote, gone, epc, cur, xfer>>
      /\ Spooled' = Spooled /\ Stored' = Stored
    BY DEF Record, OpenSegment, CloseSegment, SettleSegment, GoQuiet,
           ResumeWriting, encryptVars, uploadVars, Spooled, Stored
<1>2. ASSUME NEW s \in Segment, OpenSegment(s)
      PROVE  TraceInv'
    <2>1. raw' = raw \cup {s} /\ s \notin Spooled \cup Stored \cup gone
        BY <1>2 DEF OpenSegment, DiskInv, Local, Born
    <2>2. QED
        BY <1>1, <2>1 DEF TraceInv
<1>3. CASE raw' = raw
    BY <1>1, <1>3 DEF TraceInv
<1>4. QED
    BY <1>2, <1>3 DEF Record, CloseSegment, SettleSegment, GoQuiet, ResumeWriting

LEMMA EncryptTrace ==
    ASSUME "unlink" \notin Faults, TypeOK, PartInv, DiskInv, TraceInv, Encrypt
    PROVE  TraceInv'
<1>0. /\ EncryptNext /\ UNCHANGED <<remote, xfer>> /\ Stored' = Stored
      /\ spool \in [Segment -> Nat] /\ clock \in Nat
    <2>1. EncryptNext /\ xfer' = xfer
        BY DEF Encrypt, uploadVars
    <2>2. remote' = remote
        BY <2>1 DEF EncryptNext, EncryptSegment, PruneRawSpool, ListSegments,
           GpgMissing, SkipEncrypted, StartGpg, RenamePart, GpgFails,
           UnlinkPlaintext, PassRaises, PassDone, spoolVars
    <2>3. QED
        BY <2>1, <2>2 DEF Stored, TypeOK, SpoolTypeOK
<1>1. CASE PruneRawSpool
    <2>1. PICK D \in SUBSET raw : raw' = raw \ D /\ gone' = gone \cup D
        BY <1>1 DEF PruneRawSpool, SelectOversize
    <2>2. Spooled' = Spooled /\ cur' = cur /\ epc = "prune"
        BY <1>1 DEF PruneRawSpool, Spooled
    <2>3. D \cap (Spooled \cup Stored) = {}
        BY <2>1, <2>2 DEF TraceInv
    <2>4. QED
        BY <1>0, <2>1, <2>2, <2>3 DEF TraceInv
<1>2. CASE ListSegments \/ GpgMissing \/ PassDone
    <2>1. Spooled' = Spooled
        BY <1>2 DEF ListSegments, GpgMissing, PassDone, spoolVars, Spooled
    <2>2. QED
        BY <1>0, <1>2, <2>1 DEF ListSegments, GpgMissing, PassDone, spoolVars, TraceInv
<1>3. ASSUME NEW s \in Segment, SkipEncrypted(s) \/ StartGpg(s) \/ GpgFails(s)
      PROVE  TraceInv'
    <2>1. Spooled' = Spooled /\ raw' \subseteq raw /\ gone' = gone /\ epc # "unlink"
        BY <1>3 DEF SkipEncrypted, StartGpg, GpgFails, Turn, Spooled
    <2>2. \A u, v \in cur' : u = v
        BY <1>3 DEF SkipEncrypted, StartGpg, GpgFails, TraceInv
    <2>3. QED
        BY <1>0, <2>1, <2>2, NoNewTrace
<1>4. ASSUME NEW s \in Segment, RenamePart(s)
      PROVE  TraceInv'
    <2>1. Spooled' = Spooled \cup {s}
        BY <1>0, <1>4 DEF RenamePart, Spooled
    <2>2. s \in raw /\ s \notin Spooled \cup Stored \cup gone
        BY <1>4 DEF RenamePart, DiskInv, TraceInv
    <2>3. QED
        BY <1>0, <1>4, <2>1, <2>2 DEF RenamePart, TraceInv
<1>5. ASSUME NEW s \in Segment, UnlinkPlaintext(s)
      PROVE  TraceInv'
    <2>1. Spooled' = Spooled
        BY <1>5 DEF UnlinkPlaintext, Spooled
    <2>2. raw' = raw \ {s} /\ cur' = {} /\ gone' = gone /\ cur = {s}
        BY <1>5 DEF UnlinkPlaintext, TraceInv
    <2>3. QED
        BY <1>0, <2>1, <2>2 DEF TraceInv
<1>6. ~PassRaises
    BY DEF PassRaises, Fault
<1>7. QED
    BY <1>0, <1>1, <1>2, <1>3, <1>4, <1>5, <1>6 DEF EncryptNext, EncryptSegment

LEMMA UploadTrace ==
    ASSUME TypeOK, SafeInv, FolderInv, TraceInv, Upload
    PROVE  TraceInv'
<1>0. /\ UNCHANGED <<raw, epc, cur>>
      /\ UploadNext \/ BatchIntervalPasses \/ PurgeTrash
      /\ spool \in [Segment -> Nat] /\ remote \in [Segment -> Nat]
      /\ xfer \in [Segment -> XferStates]
    <2>1. UNCHANGED <<epc, cur>> /\ (UploadNext \/ BatchIntervalPasses \/ PurgeTrash)
        BY DEF Upload, encryptVars
    <2>2. /\ spool \in [Segment -> Nat] /\ remote \in [Segment -> Nat]
          /\ xfer \in [Segment -> XferStates]
        BY DEF TypeOK, SpoolTypeOK, UploadTypeOK
    <2>3. CASE Transfer
        BY <2>3, <2>1, <2>2 DEF Transfer, Check, StartTransfer, TransferLands,
           TransferFails, UnlinkSource, SkipIdentical, spoolVars
    <2>4. CASE ~Transfer
        BY <2>4, <2>1, <2>2 DEF UploadNext, PruneSpool, MeasurePending, IdlePrune,
           IdlePoll, ListRemote, ListFails, DeleteRemote, DeleteFails, StartMove,
           MoveReturns, BatchIntervalPasses, PurgeTrash, spoolVars
    <2>5. QED
        BY <2>3, <2>4
\* Outside a move no segment is in both places.
<1>1. upc # "move" => Spooled \cap Stored = {}
    BY DEF TraceInv, SafeInv, TransfersHaveSource, Spooled
<1>2. CASE PruneSpool
    <2>1. PICK D \in SUBSET Spooled : spool' = SpoolWithout(D) /\ gone' = gone \cup D
        BY <1>2, SelectionSubset DEF PruneSpool, SelectOversize, BacklogVictims, UnlinkFails
    <2>2. Spooled' = Spooled \ D
        BY <1>0, <2>1 DEF SpoolWithout, Spooled
    <2>3. Stored' = Stored /\ Spooled \cap Stored = {} /\ xfer' = xfer
        BY <1>1, <1>2 DEF PruneSpool, Stored
    <2>4. QED
        BY <1>0, <2>1, <2>2, <2>3 DEF TraceInv
<1>3. CASE DeleteRemote \/ DeleteFails
    <2>1. PICK D \in SUBSET victims : DeleteFromDrive(D)
        BY <1>3 DEF DeleteRemote, DeleteFails
    <2>2. Spooled' = Spooled /\ xfer' = xfer /\ Spooled \cap Stored = {} /\ D \subseteq Stored
        BY <1>1, <1>3, <2>1 DEF DeleteRemote, DeleteFails, FolderInv, Spooled
    <2>3. Stored' = Stored \ D /\ gone' = gone \cup D
        BY <1>0, <2>1 DEF DeleteFromDrive, Stored
    <2>4. QED
        BY <1>0, <2>2, <2>3 DEF TraceInv
<1>4. ASSUME NEW s \in Segment, TransferLands(s)
      PROVE  TraceInv'
    <2>1. s \in Spooled /\ Spooled' = Spooled /\ gone' = gone
        BY <1>0, <1>4 DEF TransferLands, SafeInv, TransfersHaveSource, Spooled
    <2>2. Stored' = Stored \cup {s}
        BY <1>0, <1>4, <2>1 DEF TransferLands, Stored, Spooled
    <2>3. xfer' = [xfer EXCEPT ![s] = "landed"]
        BY <1>4 DEF TransferLands
    <2>4. \A t \in Spooled' \cap Stored' : xfer'[t] = "landed"
        BY <1>0, <2>1, <2>2, <2>3 DEF TraceInv, Stored
    <2>5. QED
        BY <1>0, <2>1, <2>2, <2>4 DEF TraceInv
<1>5. ASSUME NEW s \in Segment, UnlinkSource(s) \/ SkipIdentical(s)
      PROVE  TraceInv'
    <2>1. Stored' = Stored /\ gone' = gone
        BY <1>5 DEF UnlinkSource, SkipIdentical, Stored
    <2>2. Spooled' = Spooled \ {s}
        BY <1>0, <1>5 DEF UnlinkSource, SkipIdentical, SpoolWithout, Spooled
    <2>3. \A t \in Spooled' : xfer'[t] = xfer[t]
        BY <1>0, <1>5, <2>2 DEF UnlinkSource, SkipIdentical, Spooled
    <2>4. QED
        BY <1>0, <2>1, <2>2, <2>3, NoNewTrace DEF TraceInv
<1>6. ASSUME NEW s \in Segment, Check(s) \/ StartTransfer(s) \/ TransferFails(s)
      PROVE  TraceInv'
    <2>1. Stored' = Stored /\ Spooled' = Spooled /\ gone' = gone
        BY <1>6 DEF Check, StartTransfer, TransferFails, spoolVars, Stored, Spooled
    <2>2. \A t \in Spooled' : xfer[t] = "landed" => xfer'[t] = "landed"
        BY <1>0, <1>6 DEF Check, StartTransfer, TransferFails, Spooled
    <2>3. QED
        BY <1>0, <2>1, <2>2, NoNewTrace DEF TraceInv
<1>7. CASE StartMove \/ MoveReturns
    <2>1. Stored' = Stored /\ Spooled' = Spooled /\ gone' = gone
        BY <1>7 DEF StartMove, MoveReturns, spoolVars, Stored, Spooled
    <2>2. Spooled \cap Stored = {}
        BY <1>1, <1>7 DEF StartMove, MoveReturns, In, TraceInv, Spooled
    <2>3. QED
        BY <1>0, <2>1, <2>2, NoNewTrace DEF TraceInv
<1>8. CASE \/ MeasurePending \/ IdlePrune \/ IdlePoll \/ ListRemote \/ ListFails
           \/ BatchIntervalPasses \/ PurgeTrash
    <2>1. UNCHANGED <<spool, remote, gone, xfer>>
        BY <1>8 DEF MeasurePending, IdlePrune, IdlePoll, ListRemote, ListFails,
           BatchIntervalPasses, PurgeTrash, spoolVars, uploadVars
    <2>2. QED
        BY <1>0, <2>1 DEF TraceInv, Spooled, Stored
<1>9. QED
    BY <1>0, <1>2, <1>3, <1>4, <1>5, <1>6, <1>7, <1>8 DEF UploadNext, Transfer

LEMMA NextTrace ==
    ASSUME Faults \cap {"crash", "unlink"} = {}
    PROVE  TypeOK /\ SafeInv /\ PartInv /\ LifeInv /\ TraceInv /\ [Next]_vars => TraceInv'
<1> SUFFICES ASSUME TypeOK, SafeInv, PartInv, LifeInv, TraceInv, [Next]_vars
             PROVE  TraceInv'
    OBVIOUS
<1>1. CASE World \/ UNCHANGED vars
    <2>1. UNCHANGED <<raw, spool, remote, gone, epc, cur, xfer>>
        BY <1>1 DEF World, GrantDies, Reauthorize, GrowOlder, vars, spoolVars,
                    encryptVars, uploadVars
    <2>2. QED
        BY <2>1 DEF TraceInv, Spooled, Stored
<1>2. ~CrashRestart
    BY DEF CrashRestart, Fault
<1>3. QED
    BY <1>1, <1>2, RecordTrace, EncryptTrace, UploadTrace DEF Next, LifeInv

\* A segment that a retention pass deleted does not come back, as long as the
\* service does not crash and unlinks succeed: either would leave a plaintext
\* whose .gpg may be gone by the next pass.
THEOREM DeletedForGood ==
    ASSUME Faults \cap {"crash", "unlink"} = {}
    PROVE  Spec => []DeletedStaysDeleted
<1>1. TraceInv => DeletedStaysDeleted
    BY DEF TraceInv, DeletedStaysDeleted
<1>2. QED
    BY <1>1, InitTrace, NextTrace, LifeInvariant, TypeCorrect, SafeInvariant, PTL
       DEF Spec

-----------------------------------------------------------------------------
(* The latest footage goes first                                           *)

\* A segment's name starts with the time it was opened: the names of one
\* camera sort in the order of its segments while the clock is not set back.
NamesInOrder ==
    \A s, t \in Segment : Source[s] = Source[t] /\ s < t => NameRank[s] < NameRank[t]

Earlier(s, t) == Source[s] = Source[t] /\ s < t

\* A camera's segments pass through the encrypt stage in the order they were
\* recorded: one is on the list only with those before it, and encrypted only
\* when their plaintext is gone, so its .gpg has the later mtime.
LatestInv ==
    \A s, t \in Segment : Earlier(s, t) =>
        /\ Born(t) => Born(s) /\ ~Open(s)
        /\ Settled(t) => seg[s] = "settled"
        /\ t \in todo => seg[s] = "settled" /\ (s \in raw => s \in todo \cup cur)
        /\ spool[t] > 0 \/ t \in cur => s \notin raw
        /\ spool[s] > 0 /\ spool[t] > 0 => spool[s] < spool[t]

LEMMA InitLatest == Init => LatestInv
BY DEF Init, SpoolInit, EncryptInit, LatestInv, Born, Settled

\* A step that starts on no segment and forgets none that is listed.
LEMMA NothingLater ==
    ASSUME TypeOK, LatestInv, seg' = seg, raw' \subseteq raw, todo' \subseteq todo,
           cur' \subseteq cur,
           todo' = {} \/ \A s \in raw' : s \in todo \cup cur => s \in todo' \cup cur',
           \A s \in Segment : spool'[s] \in {0, spool[s]}
    PROVE  LatestInv'
<1> SUFFICES ASSUME NEW s \in Segment, NEW t \in Segment, Earlier(s, t)
             PROVE  /\ Born(t)' => Born(s)' /\ ~Open(s)'
                    /\ Settled(t)' => seg'[s] = "settled"
                    /\ t \in todo' => seg'[s] = "settled"
                                        /\ (s \in raw' => s \in todo' \cup cur')
                    /\ spool'[t] > 0 \/ t \in cur' => s \notin raw'
                    /\ spool'[s] > 0 /\ spool'[t] > 0 => spool'[s] < spool'[t]
    BY DEF LatestInv, Earlier
<1>1. spool[s] \in Nat /\ spool[t] \in Nat
    BY DEF TypeOK, SpoolTypeOK
<1>2. QED
    BY <1>1 DEF LatestInv, Born, Open, Settled

LEMMA RecordLatest ==
    ASSUME TypeOK, SafeInv, PartInv, DiskInv, LatestInv, Record
    PROVE  LatestInv'
<1> USE DEF TypeOK, SpoolTypeOK, SegStates, LatestInv, Earlier, Born, Open, Settled
<1>1. UNCHANGED <<spool, epc, cur>> /\ SegmentAssumption
    BY SegmentAssumption DEF Record, OpenSegment, CloseSegment, SettleSegment, GoQuiet,
       ResumeWriting, encryptVars
\* What is encrypted, or about to be, was recorded.
<1>2. \A t \in Segment : spool[t] > 0 \/ t \in cur => seg[t] # "unborn"
    BY DEF SafeInv, PlaintextSpare, PartInv, DiskInv, Local, Spooled, EncryptTypeOK
<1>3. ASSUME NEW u \in Segment, OpenSegment(u), UNCHANGED encryptVars
      PROVE  LatestInv'
    <2>1. /\ seg' = [seg EXCEPT ![u] = "writing"] /\ raw' = raw \cup {u}
          /\ todo' = todo
          /\ \A t \in Segment : Source[t] = Source[u] =>
                ~Open(t) /\ (t < u => Born(t))
        BY <1>3 DEF OpenSegment, encryptVars
    <2>2. \A t \in Segment : Earlier(u, t) => seg[t] = "unborn"
        BY <1>3 DEF OpenSegment
    <2>3. ASSUME NEW t \in Segment, Earlier(u, t)
          PROVE  /\ ~Born(t)' /\ ~Settled(t)' /\ t \notin todo'
                 /\ ~(spool'[t] > 0) /\ t \notin cur'
        BY <1>1, <1>2, <1>3, <2>1, <2>2, <2>3 DEF OpenSegment
    <2>4. ASSUME NEW s \in Segment, NEW t \in Segment, Earlier(s, t), s # u
          PROVE  /\ Born(t)' => Born(s)' /\ ~Open(s)'
                 /\ Settled(t)' => seg'[s] = "settled"
                 /\ seg'[s] = seg[s] /\ (s \in raw' <=> s \in raw)
        BY <1>1, <2>1, <2>4
    <2> HIDE DEF Born, Open, Settled
    <2>5. QED
        BY <1>1, <2>1, <2>3, <2>4
<1>4. ASSUME NEW u \in Segment, CloseSegment(u) \/ SettleSegment(u) \/ GoQuiet(u),
             UNCHANGED encryptVars
      PROVE  LatestInv'
    BY <1>1, <1>4 DEF CloseSegment, SettleSegment, GoQuiet, encryptVars
<1>5. ASSUME NEW u \in Segment, ResumeWriting(u), TouchedAgain(u)
      PROVE  LatestInv'
    BY <1>1, <1>5 DEF ResumeWriting, TouchedAgain
<1>6. QED
    BY <1>3, <1>4, <1>5 DEF Record

LEMMA EncryptLatest ==
    ASSUME NamesInOrder, "gpg" \notin Faults, TypeOK, SafeInv, PartInv, DiskInv,
           LatestInv, Encrypt
    PROVE  LatestInv'
<1>0. /\ EncryptNext
      /\ spool \in [Segment -> 0..clock] /\ clock \in Nat /\ todo \subseteq Segment
    BY DEF Encrypt, TypeOK, SpoolTypeOK, EncryptTypeOK
<1>1. CASE PruneRawSpool \/ PassDone \/ PassRaises
    BY <1>0, <1>1, NothingLater DEF PruneRawSpool, PassDone, PassRaises, spoolVars
<1>2. CASE ListSegments
    <2>1. UNCHANGED <<spoolVars, cur>> /\ todo' = {s \in raw : Settled(s)}
        BY <1>2 DEF ListSegments, IsClosed
    <2>2. QED
        BY <2>1 DEF spoolVars, LatestInv, Earlier, Born, Open, Settled
<1>3. ASSUME NEW u \in Segment, SkipEncrypted(u)
      PROVE  LatestInv'
    BY <1>0, <1>3, NothingLater DEF SkipEncrypted, Turn
<1>4. ASSUME NEW u \in Segment, StartGpg(u)
      PROVE  LatestInv'
    <2>1. /\ cur = {} /\ cur' = {u} /\ u \in todo /\ todo' = todo \ {u}
          /\ UNCHANGED <<seg, raw, spool>>
        BY <1>4 DEF StartGpg, Turn, PartInv
    <2>2. \A s \in todo : ~Earlier(s, u)
        BY <1>0, <1>4, NameRankAssumption DEF StartGpg, Turn, NamesInOrder, Earlier
    <2>3. QED
        BY <2>1, <2>2 DEF LatestInv, Earlier, Born, Open, Settled
<1>5. ASSUME NEW u \in Segment, RenamePart(u)
      PROVE  LatestInv'
    <2>1. /\ u \in raw /\ u \in cur
          /\ spool' = [spool EXCEPT ![u] = clock + 1]
          /\ UNCHANGED <<seg, raw, todo, cur>>
        BY <1>5 DEF RenamePart, DiskInv
    \* No later segment is in the spool yet, and every mtime there is older.
    <2>2. \A t \in Segment : Earlier(u, t) => ~(spool[t] > 0)
        BY <2>1 DEF LatestInv
    <2>3. \A s \in Segment : s # u => spool'[s] = spool[s] /\ spool[s] < clock + 1
        BY <1>0, <2>1
    <2>4. spool'[u] = clock + 1
        BY <1>0, <2>1
    <2>5. \A s \in Segment : ~Earlier(s, s)
        BY SegmentAssumption DEF Earlier
    <2>6. QED
        BY <2>1, <2>2, <2>3, <2>4, <2>5 DEF LatestInv, Earlier, Born, Open, Settled
<1>6. ASSUME NEW u \in Segment, UnlinkPlaintext(u)
      PROVE  LatestInv'
    <2>1. raw' = raw \ {u} /\ cur = {u} /\ cur' = {}
        BY <1>6 DEF UnlinkPlaintext, SafeInv
    <2>2. QED
        BY <1>6, <2>1, NothingLater DEF UnlinkPlaintext
<1>7. ~GpgMissing /\ \A s \in Segment : ~GpgFails(s)
    BY DEF GpgMissing, GpgFails, Fault
<1>8. QED
    BY <1>0, <1>1, <1>2, <1>3, <1>4, <1>5, <1>6, <1>7 DEF EncryptNext, EncryptSegment

LEMMA NextLatest ==
    ASSUME NamesInOrder, "gpg" \notin Faults
    PROVE  TypeOK /\ SafeInv /\ PartInv /\ LifeInv /\ LatestInv /\ [Next]_vars
               => LatestInv'
<1> SUFFICES ASSUME TypeOK, SafeInv, PartInv, LifeInv, LatestInv, [Next]_vars
             PROVE  LatestInv'
    OBVIOUS
<1>1. CASE World \/ CrashRestart \/ UNCHANGED vars
    <2>1. /\ UNCHANGED <<seg, raw, spool>>
          /\ \/ UNCHANGED <<todo, cur>>
             \/ todo' = {} /\ cur' = {}
        BY <1>1 DEF World, GrantDies, Reauthorize, GrowOlder, CrashRestart,
                    EncryptReset, vars, spoolVars, encryptVars
    <2>2. QED
        BY <2>1, NothingLater
<1>2. CASE Upload
    BY <1>2, UploadFiles, NothingLater
<1>3. QED
    BY <1>1, <1>2, RecordLatest, EncryptLatest DEF Next, LifeInv

\* rclone starts the later of two checked segments of one camera first.
LatestGo ==
    \A s, t \in Segment :
        (Starts(s) /\ t \in In({"queued"}) /\ Source[s] = Source[t]) => t <= s

LEMMA StepLatest ==
    ASSUME TypeOK, SafeInv, LatestInv, [Next]_vars
    PROVE  LatestGo
<1> SUFFICES ASSUME NEW s \in Segment, NEW t \in Segment,
                    xfer[s] = "queued", xfer'[s] = "inflight", xfer[t] = "queued",
                    Source[s] = Source[t]
             PROVE  t <= s
    BY DEF LatestGo, Starts, In
<1>1. StartTransfer(s)
    <2>1. xfer' # xfer /\ ~(xfer' = NoMove) /\ ~StartMove
        BY DEF NoMove, StartMove
    <2>2. \E u \in Segment :
             \/ Check(u) \/ StartTransfer(u) \/ TransferLands(u) \/ TransferFails(u)
             \/ UnlinkSource(u) \/ SkipIdentical(u)
        BY <2>1, MoveKinds DEF Transfer
    <2>3. QED
        BY <2>2 DEF Check, StartTransfer, TransferLands, TransferFails, UnlinkSource,
                    SkipIdentical, TypeOK, UploadTypeOK
<1>2. spool[t] <= spool[s] /\ spool[s] > 0 /\ spool[t] > 0
    BY <1>1 DEF StartTransfer, In, SafeInv, TransfersHaveSource
<1>3. spool[s] \in Nat /\ spool[t] \in Nat /\ s \in Nat /\ t \in Nat
    BY SegmentAssumption DEF TypeOK, SpoolTypeOK
<1>4. QED
    BY <1>2, <1>3 DEF LatestInv, Earlier

\* "The goal is the latest footage": of the segments of one camera that rclone
\* has checked against the folder it starts the newest first, through crashes,
\* failed unlinks and failed transfers, as long as gpg succeeds: a segment that
\* gpg fails on once gets a later mtime.  It does not hold of those that rclone
\* has listed and not checked yet, which is what the run latest_first shows.
THEOREM LatestGoFirst ==
    ASSUME NamesInOrder, "gpg" \notin Faults
    PROVE  Spec => CheckedLatestFirst
<1>1. TypeOK /\ SafeInv /\ LatestInv /\ [Next]_vars => [LatestGo]_vars
    BY StepLatest
<1>2. QED
    BY <1>1, InitLatest, NextLatest, LifeInvariant, TypeCorrect, SafeInvariant, PTL
       DEF Spec, CheckedLatestFirst, LatestGo
=============================================================================
