---------------------------- MODULE PruneProofs ----------------------------
(***************************************************************************)
(* What a prune deletes, and what the pre-upload gate guarantees: the      *)
(* folder stays a rolling window, oldest files go first, there is room in  *)
(* the folder and on the account when an upload starts, and the folder     *)
(* exceeds its cap by no more than a slice and the transfers in flight.    *)
(***************************************************************************)
EXTENDS PipelineProofs

\* Between the listing and the upload.
Gating == upc \in {"delete", "upload"}

\* What the folder will hold once the running prune has deleted.
Kept == Stored \ victims

-----------------------------------------------------------------------------
(* Steps                                                                   *)

\* Nothing but the prune itself touches what the gate looked at.
LEMMA StepKinds ==
    ASSUME TypeOK, SafeInv, [Next]_vars
    PROVE  \/ UNCHANGED <<remote, reserve, victims, upc>> /\ cutoff <= cutoff'
           \/ ~Gating' /\ reserve' \in {0, reserve}
           \/ MeasurePending \/ ListRemote \/ DeleteRemote \/ DeleteFails
<1>1. cutoff \in Nat
    BY DEF TypeOK, SpoolTypeOK
<1>2. CASE Record
    BY <1>1, <1>2 DEF Record, OpenSegment, CloseSegment, SettleSegment, GoQuiet,
                      ResumeWriting, uploadVars
<1>3. CASE World
    BY <1>1, <1>3 DEF World, GrantDies, Reauthorize, GrowOlder, uploadVars
<1>4. CASE Encrypt
    BY <1>1, <1>4 DEF Encrypt, EncryptNext, EncryptSegment, PruneRawSpool,
       ListSegments, GpgMissing, SkipEncrypted, StartGpg, RenamePart, GpgFails,
       UnlinkPlaintext, PassRaises, PassDone, spoolVars, uploadVars
<1>5. CASE CrashRestart
    BY <1>5 DEF CrashRestart, UploadReset, Gating
<1>6. CASE UNCHANGED vars
    BY <1>1, <1>6 DEF vars, spoolVars, uploadVars
<1>7. CASE Upload
    <2>1. CASE BatchIntervalPasses \/ PurgeTrash
        BY <1>1, <2>1 DEF BatchIntervalPasses, PurgeTrash, spoolVars, uploadVars
    <2>2. CASE PruneSpool \/ IdlePrune \/ IdlePoll \/ ListFails \/ StartMove \/ MoveReturns
        BY <2>2 DEF PruneSpool, IdlePrune, IdlePoll, ListFails, StartMove,
                    MoveReturns, Gating
    <2>3. CASE Transfer
        BY <2>3 DEF Transfer, Check, StartTransfer, TransferLands, TransferFails,
                    UnlinkSource, SkipIdentical, SafeInv, TransfersHaveSource, Gating
    <2>4. QED
        BY <1>7, <2>1, <2>2, <2>3 DEF Upload, UploadNext
<1>8. QED
    BY <1>2, <1>3, <1>4, <1>5, <1>6, <1>7 DEF Next

\* The listing that a prune selects from, and its size.
LEMMA ListingTypes ==
    ASSUME TypeOK
    PROVE  /\ Stored \in SUBSET Segment /\ Bytes[Stored] \in Nat
           /\ remote \in [Segment -> Nat] /\ cutoff \in Nat /\ reserve \in Nat
           /\ AccountFree \in Int
<1>1. Stored \in SUBSET Segment /\ Bytes[Stored] \in Nat
    BY BytesNat DEF Stored
<1>2. QED
    BY <1>1, ConfigAssumption DEF TypeOK, SpoolTypeOK, UploadTypeOK, AccountFree

\* The cap a prune works with, whatever remote_about answers.
LEMMA PruneCapTypes ==
    ASSUME TypeOK, reserve <= MaxDriveBytes, NEW free \in {AccountFree, NoReading}
    PROVE  /\ PruneCap(free) \in Nat
           /\ PruneCap(free) <= MaxDriveBytes - reserve
           /\ MinFreeBytes = 0 => PruneCap(free) = MaxDriveBytes - reserve
<1>1. free \in Int \cup {NoReading}
    BY ListingTypes
<1>2. /\ Bytes[Stored] \in Nat /\ reserve \in Nat
      /\ MaxDriveBytes \in Nat /\ MinFreeBytes \in Nat
    BY ListingTypes, ConfigAssumption
<1>3. QED
    BY <1>1, <1>2, PruneCapBound DEF PruneCap

\* A slice is at least a byte, and no larger than the folder cap if
\* upload_max_bytes is not.
LEMMA SliceFits ==
    ASSUME UploadMaxBytes <= MaxDriveBytes
    PROVE  UploadSlice \in Nat /\ UploadSlice <= MaxDriveBytes
<1>1. MaxDriveBytes \div 4 \in Nat /\ MaxDriveBytes \div 4 <= MaxDriveBytes
    BY ConfigAssumption
<1>2. QED
    BY <1>1, ConfigAssumption DEF UploadSlice, UploadSliceBytes, MaxOf

-----------------------------------------------------------------------------
(* A cycle reserves at most a slice                                        *)

ReserveInv == reserve <= UploadSlice

LEMMA NextReserve == TypeOK /\ SafeInv /\ ReserveInv /\ [Next]_vars => ReserveInv'
<1> SUFFICES ASSUME TypeOK, SafeInv, ReserveInv, [Next]_vars
             PROVE  ReserveInv'
    OBVIOUS
<1>1. UploadSlice \in Nat
    BY UploadSliceNat
<1>2. CASE MeasurePending
    <2>1. PendingUploadBytes \in Nat
        BY BytesNat DEF PendingUploadBytes, Spooled
    <2>2. QED
        BY <1>1, <1>2, <2>1 DEF MeasurePending, ReserveBytes, MinOf, ReserveInv
<1>3. CASE reserve' = reserve \/ reserve' = 0
    BY <1>1, <1>3 DEF ReserveInv
<1>4. QED
    BY <1>2, <1>3, StepKinds DEF ListRemote, DeleteRemote, DeleteFails

THEOREM ReserveBounded == Spec => []ReserveInv
<1>1. Init => ReserveInv
    BY UploadSliceNat DEF Init, UploadInit, ReserveInv
<1>2. QED
    BY <1>1, NextReserve, TypeCorrect, SafeInvariant, PTL DEF Spec

-----------------------------------------------------------------------------
(* The rolling window                                                      *)

\* What the guard leaves for the folder bounds the cap of a prune from below.
LEMMA PruneCapFloor ==
    ASSUME TypeOK, ReserveInv, UploadMaxBytes <= MaxDriveBytes,
           NEW free \in {AccountFree, NoReading}
    PROVE  \/ PruneCap(free) >= MaxDriveBytes - UploadSlice
           \/ /\ MinFreeBytes > 0
              /\ PruneCap(free) >= QuotaBytes - UploadSlice - trash - MinFreeBytes
<1>1. /\ Bytes[Stored] \in Nat /\ reserve \in Nat /\ AccountFree \in Int
      /\ UploadSlice \in Nat /\ UploadSlice <= MaxDriveBytes
      /\ reserve <= UploadSlice
    BY ListingTypes, SliceFits DEF ReserveInv
<1>2. trash \in Nat
    BY DEF TypeOK, SpoolTypeOK
<1>3. AccountFree = QuotaBytes - Bytes[Stored] - trash
    BY DEF AccountFree
<1>4. CASE free = NoReading \/ MinFreeBytes = 0
    BY <1>1, <1>4, ConfigAssumption, NoReadingAssumption
       DEF PruneCap, EffectivePruneCap, MaxOf
<1>5. CASE free = AccountFree /\ MinFreeBytes > 0
    BY <1>1, <1>2, <1>3, <1>5, ConfigAssumption, NoReadingAssumption
       DEF PruneCap, EffectivePruneCap, MaxOf, MinOf
<1>6. QED
    BY <1>4, <1>5, ConfigAssumption

\* A backlog does not flush the archive: a prune selects only what is too old
\* or does not fit beside the newer footage once a slice is set aside, in the
\* folder or in what the quota guard leaves of the account.
THEOREM WindowRolls ==
    ASSUME UploadMaxBytes <= MaxDriveBytes
    PROVE  Spec => RollingWindow
<1> DEFINE Step == upc = "list" /\ upc' = "delete" =>
                      \A s \in victims' : TooOld(s) \/ OverCap(s) \/ OverQuota(s)
<1>1. TypeOK /\ SafeInv /\ ReserveInv /\ [Next]_vars => [Step]_vars
    <2> SUFFICES ASSUME TypeOK, SafeInv, ReserveInv, [Next]_vars,
                        upc = "list", upc' = "delete",
                        NEW s \in victims', ~TooOld(s)
                 PROVE  OverCap(s) \/ OverQuota(s)
        OBVIOUS
    <2>1. ListRemote
        BY StepKinds DEF Gating, MeasurePending, DeleteRemote, DeleteFails
    <2>2. PICK free \in {AccountFree, NoReading} :
             victims' = SelectForDeletion(Stored, remote, PruneCap(free), cutoff)
        BY <2>1 DEF ListRemote
    <2> DEFINE fresh == Stored \ AgeVictims(Stored, remote, cutoff)
               newer == NoOlder(Stored, remote, s)
    <2>3. Bytes[NoOlder(fresh, remote, s)] > PruneCap(free)
        BY <2>2 DEF SelectForDeletion, AgeVictims, SizeVictims, TooOld
    <2>4. NoOlder(fresh, remote, s) \in SUBSET newer /\ newer \in SUBSET Segment
        BY ListingTypes DEF NoOlder
    <2>5. Bytes[NoOlder(fresh, remote, s)] \in Nat /\ Bytes[newer] \in Nat
        BY <2>4, BytesNat
    <2>6. Bytes[NoOlder(fresh, remote, s)] <= Bytes[newer]
        BY <2>4, BytesMonotone
    <2>7. PruneCap(free) \in Nat
        BY PruneCapTypes, ListingTypes, SliceFits, ConfigAssumption DEF ReserveInv
    <2>8. Bytes[newer] > PruneCap(free)
        <3> HIDE DEF fresh, newer
        <3>1. QED
            BY <2>3, <2>5, <2>6, <2>7
    <2>9. UploadSlice \in Nat /\ trash \in Nat
        BY SliceFits DEF TypeOK, SpoolTypeOK
    <2>10. \/ Bytes[newer] > MaxDriveBytes - UploadSlice
           \/ /\ MinFreeBytes > 0
              /\ Bytes[newer] + trash + MinFreeBytes > QuotaBytes - UploadSlice
        <3> HIDE DEF newer
        <3>1. QED
            BY <2>5, <2>7, <2>8, <2>9, PruneCapFloor, ConfigAssumption
    <2>11. QED
        BY <2>10 DEF OverCap, OverQuota
<1>2. QED
    BY <1>1, ReserveBounded, TypeCorrect, SafeInvariant, PTL
       DEF Spec, RollingWindow

-----------------------------------------------------------------------------
(* Oldest first                                                            *)

\* What a selection takes is older than what it leaves.
LEMMA SelectionOldest ==
    ASSUME NEW F \in SUBSET Segment, NEW mt \in [Segment -> Nat],
           NEW max_bytes \in Nat, NEW limit \in Nat,
           NEW s \in SelectForDeletion(F, mt, max_bytes, limit),
           NEW t \in F \ SelectForDeletion(F, mt, max_bytes, limit)
    PROVE  mt[s] < mt[t]
<1> DEFINE fresh == F \ AgeVictims(F, mt, limit)
<1>1. t \in fresh /\ t \notin SizeVictims(fresh, mt, max_bytes)
    BY DEF SelectForDeletion
<1>2. mt[s] \in Nat /\ mt[t] \in Nat /\ mt[t] >= limit
    BY <1>1, SelectionSubset DEF AgeVictims
<1>3. CASE s \in AgeVictims(F, mt, limit)
    BY <1>2, <1>3 DEF AgeVictims
<1>4. CASE s \in SizeVictims(fresh, mt, max_bytes)
    <2>1. SUFFICES ASSUME mt[t] <= mt[s]
                   PROVE  FALSE
        BY <1>2
    <2>2. NoOlder(fresh, mt, s) \in SUBSET NoOlder(fresh, mt, t)
        BY <1>2, <2>1 DEF NoOlder
    <2>3. NoOlder(fresh, mt, t) \in SUBSET Segment
        BY DEF NoOlder
    <2>4. Bytes[NoOlder(fresh, mt, s)] <= Bytes[NoOlder(fresh, mt, t)]
        BY <2>2, <2>3, BytesMonotone
    <2>5. /\ Bytes[NoOlder(fresh, mt, s)] \in Nat
          /\ Bytes[NoOlder(fresh, mt, t)] \in Nat
        BY <2>2, <2>3, BytesNat
    <2> HIDE DEF fresh
    <2>6. /\ Bytes[NoOlder(fresh, mt, s)] > max_bytes
          /\ ~(Bytes[NoOlder(fresh, mt, t)] > max_bytes)
        BY <1>1, <1>4 DEF SizeVictims
    <2>7. QED
        BY <2>4, <2>5, <2>6
<1>5. QED
    BY <1>3, <1>4 DEF SelectForDeletion

OrderInv ==
    upc = "delete" => \A s \in victims, t \in Kept : remote[s] < remote[t]

LEMMA NextOrder ==
    TypeOK /\ SafeInv /\ reserve <= MaxDriveBytes /\ OrderInv /\ [Next]_vars => OrderInv'
<1> SUFFICES ASSUME TypeOK, SafeInv, reserve <= MaxDriveBytes, OrderInv, [Next]_vars
             PROVE  OrderInv'
    OBVIOUS
<1>1. CASE UNCHANGED <<remote, reserve, victims, upc>>
    BY <1>1 DEF OrderInv, Kept, Stored
<1>2. CASE ListRemote
    <2>1. PICK free \in {AccountFree, NoReading} :
             victims' = SelectForDeletion(Stored, remote, PruneCap(free), cutoff)
        BY <1>2 DEF ListRemote
    <2>2. remote' = remote /\ Stored' = Stored
        BY <1>2 DEF ListRemote, Stored
    <2>3. PruneCap(free) \in Nat
        BY PruneCapTypes
    <2>4. QED
        BY <2>1, <2>2, <2>3, ListingTypes, SelectionOldest DEF OrderInv, Kept
<1>3. CASE upc' # "delete"
    BY <1>3 DEF OrderInv
<1>4. QED
    BY <1>1, <1>2, <1>3, StepKinds
       DEF Gating, MeasurePending, DeleteRemote, DeleteFails, PruneReturns

\* What a step takes from the folder is older than what it leaves.
OldestGo ==
    \A s, t \in Segment :
        (remote[s] > 0 /\ remote'[s] = 0 /\ remote[t] > 0 /\ remote'[t] > 0)
            => remote[s] < remote[t]

LEMMA StepOldest ==
    ASSUME "delete" \notin Faults, TypeOK, SafeInv, OrderInv, [Next]_vars
    PROVE  OldestGo
<1> USE DEF OldestGo
<1>1. CASE DeleteRemote
    BY <1>1 DEF DeleteRemote, DeleteFromDrive, OrderInv, Kept, Stored
<1>2. CASE \A s \in Segment : remote[s] > 0 => remote'[s] > 0
    BY <1>2, ListingTypes
<1>3. CASE DeleteFails
    BY <1>3, <1>2, ListingTypes DEF DeleteFails, DeleteFromDrive, Fault
<1>4. CASE CrashRestart \/ Record \/ World \/ Encrypt \/ UNCHANGED vars
    BY <1>4, <1>2 DEF CrashRestart, Record, OpenSegment, CloseSegment,
       SettleSegment, GoQuiet, ResumeWriting, World, GrantDies, Reauthorize,
       GrowOlder, Encrypt, EncryptNext, EncryptSegment, PruneRawSpool,
       ListSegments, GpgMissing, SkipEncrypted, StartGpg, RenamePart,
       GpgFails, UnlinkPlaintext, PassRaises, PassDone, vars, spoolVars
<1>5. ASSUME NEW s \in Segment, TransferLands(s)
      PROVE  \A t \in Segment : remote[t] > 0 => remote'[t] > 0
    BY <1>5, ListingTypes DEF TransferLands, SafeInv, TransfersHaveSource
<1>6. CASE PruneSpool \/ MeasurePending \/ IdlePrune \/ IdlePoll \/ ListRemote
           \/ ListFails \/ StartMove \/ MoveReturns \/ BatchIntervalPasses
           \/ PurgeTrash
    BY <1>6, <1>2 DEF PruneSpool, MeasurePending, IdlePrune, IdlePoll,
       ListRemote, ListFails, StartMove, MoveReturns, BatchIntervalPasses,
       PurgeTrash, spoolVars
<1>7. ASSUME NEW s \in Segment,
             Check(s) \/ StartTransfer(s) \/ TransferFails(s) \/ UnlinkSource(s) \/ SkipIdentical(s)
      PROVE  OldestGo
    BY <1>7, <1>2 DEF Check, StartTransfer, TransferFails, UnlinkSource,
                      SkipIdentical, spoolVars
<1>8. QED
    BY <1>1, <1>2, <1>3, <1>4, <1>5, <1>6, <1>7
       DEF Next, Upload, UploadNext, Transfer

\* Retention deletes the oldest footage: no file it takes from the folder is
\* newer than one it leaves.  An rclone delete that fails half-way may.
THEOREM OldestGoFirst ==
    ASSUME UploadMaxBytes <= MaxDriveBytes, "delete" \notin Faults
    PROVE  Spec => OldestDeletedFirst
<1>1. Init => OrderInv
    BY DEF Init, UploadInit, OrderInv
<1>2. TypeOK /\ ReserveInv => reserve <= MaxDriveBytes
    BY SliceFits, ConfigAssumption DEF TypeOK, UploadTypeOK, ReserveInv
<1>3. TypeOK /\ SafeInv /\ OrderInv /\ [Next]_vars => [OldestGo]_vars
    BY StepOldest
<1>4. QED
    BY <1>1, <1>2, <1>3, NextOrder, ReserveBounded, TypeCorrect, SafeInvariant, PTL
       DEF Spec, OldestDeletedFirst, OldestGo

-----------------------------------------------------------------------------
(* The gate                                                                *)

\* From the moment the victims are known, the folder less the victims has
\* room for the reserve; when the upload starts, the victims are gone.
RoomInv ==
    /\ auth
    /\ upc = "upload" => victims = {}
    /\ Gating => Bytes[Kept] + reserve <= MaxDriveBytes

\* A prune whose deletes succeed ends with its victims gone.
LEMMA DeleteSucceeds ==
    ASSUME TypeOK, DeleteRemote
    PROVE  victims' = {} /\ Kept' = Kept /\ reserve' = reserve
BY DEF DeleteRemote, DeleteFromDrive, Kept, Stored, TypeOK, SpoolTypeOK

LEMMA NextRoom ==
    ASSUME UploadMaxBytes <= MaxDriveBytes, Faults \cap {"delete", "auth"} = {}
    PROVE  TypeOK /\ SafeInv /\ ReserveInv /\ RoomInv /\ [Next]_vars => RoomInv'
<1> SUFFICES ASSUME TypeOK, SafeInv, ReserveInv, RoomInv, [Next]_vars
             PROVE  RoomInv'
    OBVIOUS
<1>1. auth'
    BY DEF RoomInv, Next, Record, OpenSegment, CloseSegment, SettleSegment,
       GoQuiet, ResumeWriting, World, GrantDies, Fault, Reauthorize, GrowOlder,
       Encrypt, EncryptNext, EncryptSegment, PruneRawSpool, ListSegments,
       GpgMissing, SkipEncrypted, StartGpg, RenamePart, GpgFails,
       UnlinkPlaintext, PassRaises, PassDone, Upload, UploadNext, Transfer,
       PruneSpool, MeasurePending, IdlePrune, IdlePoll, ListRemote, ListFails,
       DeleteRemote, DeleteFails, StartMove, Check, StartTransfer, TransferLands,
       TransferFails, UnlinkSource, SkipIdentical, MoveReturns,
       BatchIntervalPasses, PurgeTrash, CrashRestart, vars, spoolVars
<1>2. CASE UNCHANGED <<remote, reserve, victims, upc>>
    BY <1>1, <1>2 DEF RoomInv, Gating, Kept, Stored
<1>3. CASE ~Gating'
    BY <1>1, <1>3 DEF RoomInv, Gating
<1>4. CASE ListRemote
    <2>1. PICK free \in {AccountFree, NoReading} :
             victims' = SelectForDeletion(Stored, remote, PruneCap(free), cutoff)
        BY <1>4 DEF ListRemote
    <2>2. /\ UNCHANGED <<remote, reserve>> /\ Stored' = Stored
          /\ upc' = "upload" => victims' = {}
        BY <1>4 DEF ListRemote, Stored
    <2>3. PruneCap(free) \in Nat /\ PruneCap(free) <= MaxDriveBytes - reserve
        BY PruneCapTypes, ListingTypes, SliceFits, ConfigAssumption DEF ReserveInv
    <2>4. Bytes[Stored \ victims'] <= PruneCap(free)
        BY <2>1, <2>3, ListingTypes, SelectionFits
    <2>5. Bytes[Stored \ victims'] \in Nat
        BY ListingTypes, BytesNat
    <2>6. QED
        BY <1>1, <2>2, <2>3, <2>4, <2>5, ListingTypes, ConfigAssumption
           DEF RoomInv, Kept
<1>5. CASE DeleteRemote
    BY <1>1, <1>5, DeleteSucceeds DEF RoomInv, Gating, DeleteRemote
<1>6. ~DeleteFails
    BY DEF DeleteFails, Fault, RoomInv
<1>7. QED
    BY <1>2, <1>3, <1>4, <1>5, <1>6, StepKinds DEF MeasurePending, Gating

LEMMA RoomHolds ==
    ASSUME UploadMaxBytes <= MaxDriveBytes, Faults \cap {"delete", "auth"} = {}
    PROVE  Spec => []RoomInv
<1>1. Init => RoomInv
    BY DEF Init, SpoolInit, UploadInit, RoomInv, Gating
<1>2. QED
    BY <1>1, NextRoom, ReserveBounded, TypeCorrect, SafeInvariant, PTL DEF Spec

\* The gate works as long as its deletes do and no rclone of an earlier process
\* uploads behind its back (the crashes of Pipeline end rclone too): when an
\* upload starts, the folder has room for what the cycle reserved.
THEOREM RoomWhenUploading ==
    ASSUME UploadMaxBytes <= MaxDriveBytes, Faults \cap {"delete", "auth"} = {}
    PROVE  Spec => []RoomForReserve
<1>1. RoomInv => RoomForReserve
    BY DEF RoomInv, RoomForReserve, Gating, Kept
<1>2. QED
    BY <1>1, RoomHolds, PTL

-----------------------------------------------------------------------------
(* The quota guard                                                         *)

\* The same for the account: the listing less the victims leaves the account
\* min_free_bytes after the upload, or is empty.
FreeInv ==
    Gating => \/ QuotaBytes - Bytes[Kept] - trash - reserve >= MinFreeBytes
              \/ Kept = {}

LEMMA TrashNat == TypeOK => trash \in Nat
BY DEF TypeOK, SpoolTypeOK

LEMMA KeptNat == TypeOK => Bytes[Kept] \in Nat
BY ListingTypes, BytesNat DEF Kept

\* Without the trash nothing is added to it.
LEMMA TrashDrains ==
    ASSUME TypeOK, [Next]_vars, UseTrash = FALSE
    PROVE  trash' \in Nat /\ trash' <= trash
<1>1. trash \in Nat
    BY TrashNat
<1>2. trash' = trash \/ PurgeTrash
    <2>1. CASE Record \/ World \/ CrashRestart \/ UNCHANGED vars
        BY <2>1 DEF Record, OpenSegment, CloseSegment, SettleSegment, GoQuiet,
           ResumeWriting, World, GrantDies, Reauthorize, GrowOlder,
           CrashRestart, vars, spoolVars
    <2>2. CASE Encrypt
        BY <2>2 DEF Encrypt, EncryptNext, EncryptSegment, PruneRawSpool,
           ListSegments, GpgMissing, SkipEncrypted, StartGpg, RenamePart,
           GpgFails, UnlinkPlaintext, PassRaises, PassDone, spoolVars
    <2>3. CASE DeleteRemote \/ DeleteFails
        BY <2>3 DEF DeleteRemote, DeleteFails, DeleteFromDrive
    <2>4. CASE Transfer
        BY <2>4 DEF Transfer, Check, StartTransfer, TransferLands, TransferFails,
           UnlinkSource, SkipIdentical, spoolVars
    <2>5. CASE Upload /\ ~(DeleteRemote \/ DeleteFails \/ Transfer)
        BY <2>5 DEF Upload, UploadNext, PruneSpool, MeasurePending, IdlePrune,
           IdlePoll, ListRemote, ListFails, StartMove, MoveReturns,
           BatchIntervalPasses, spoolVars
    <2>6. QED
        BY <2>1, <2>2, <2>3, <2>4, <2>5 DEF Next
<1>3. QED
    BY <1>1, <1>2 DEF PurgeTrash

LEMMA NextFree ==
    ASSUME UploadMaxBytes <= MaxDriveBytes, UseTrash = FALSE, MinFreeBytes > 0,
           Faults \cap {"delete", "auth", "about"} = {}
    PROVE  TypeOK /\ SafeInv /\ ReserveInv /\ RoomInv /\ FreeInv /\ [Next]_vars
               => FreeInv'
<1> SUFFICES ASSUME TypeOK, SafeInv, ReserveInv, RoomInv, FreeInv, [Next]_vars
             PROVE  FreeInv'
    OBVIOUS
<1>1. trash' \in Nat /\ trash' <= trash
    BY TrashDrains
<1>2. CASE UNCHANGED <<remote, reserve, victims, upc>>
    <2>1. Kept' = Kept /\ (Gating' <=> Gating) /\ reserve' = reserve
        BY <1>2 DEF Gating, Kept, Stored
    <2>2. Bytes[Kept] \in Nat /\ reserve \in Nat /\ trash \in Nat
        BY KeptNat, TrashNat, ListingTypes
    <2>3. QED
        BY <1>1, <2>1, <2>2, ConfigAssumption DEF FreeInv
<1>3. CASE ~Gating'
    BY <1>3 DEF FreeInv
<1>4. CASE ListRemote
    <2>1. victims' = SelectForDeletion(Stored, remote, PruneCap(AccountFree), cutoff)
        BY <1>4 DEF ListRemote, AboutReading, Fault
    <2>2. UNCHANGED <<remote, reserve, trash>> /\ Stored' = Stored
        BY <1>4 DEF ListRemote, Stored
    <2>3. reserve <= MaxDriveBytes /\ PruneCap(AccountFree) \in Nat
        BY PruneCapTypes, ListingTypes, SliceFits, ConfigAssumption DEF ReserveInv
    <2> DEFINE kept == Stored \ victims'
    <2>4. Bytes[kept] <= PruneCap(AccountFree)
        BY <2>1, <2>3, ListingTypes, SelectionFits
    <2>5. /\ kept \in SUBSET Segment /\ Bytes[kept] \in Nat
          /\ Bytes[kept] <= Bytes[Stored]
        BY ListingTypes, BytesNat, BytesMonotone
    <2> HIDE DEF kept
    <2>6. \/ AccountFree + (Bytes[Stored] - Bytes[kept]) - reserve >= MinFreeBytes
          \/ Bytes[kept] = 0
        <3>1. Bytes[kept] <= EffectivePruneCap(MaxDriveBytes, reserve, Bytes[Stored],
                                               AccountFree, MinFreeBytes)
            BY <2>4 DEF PruneCap
        <3>2. /\ MaxDriveBytes \in Nat /\ MinFreeBytes \in Nat /\ MinFreeBytes > 0
              /\ reserve \in Nat /\ Bytes[Stored] \in Nat /\ AccountFree \in Int
            BY ListingTypes, ConfigAssumption
        <3>3. reserve <= reserve
            BY <3>2
        <3>4. QED
            BY <2>3, <2>5, <3>1, <3>2, <3>3, PruneCapIsAGate
    <2>7. \/ QuotaBytes - Bytes[kept] - trash - reserve >= MinFreeBytes
          \/ kept = {}
        BY <2>5, <2>6, ListingTypes, TrashNat, ConfigAssumption, BytesZero
           DEF AccountFree
    <2>8. Kept' = kept
        BY <2>2 DEF Kept, kept
    <2>9. QED
        BY <2>2, <2>7, <2>8 DEF FreeInv
<1>5. CASE DeleteRemote
    <2>1. trash' = trash /\ Gating
        BY <1>5 DEF DeleteRemote, DeleteFromDrive, Gating
    <2>2. QED
        BY <1>5, <2>1, DeleteSucceeds DEF FreeInv
<1>6. ~DeleteFails
    BY DEF DeleteFails, Fault, RoomInv
<1>7. QED
    BY <1>2, <1>3, <1>4, <1>5, <1>6, StepKinds DEF MeasurePending, Gating

\* The quota guard keeps its promise without the trash: when an upload starts,
\* the account keeps min_free_bytes after it, or the folder is empty.
THEOREM QuotaGuarded ==
    ASSUME UploadMaxBytes <= MaxDriveBytes, UseTrash = FALSE, MinFreeBytes > 0,
           Faults \cap {"delete", "auth", "about"} = {}
    PROVE  Spec => []QuotaGuard
<1>1. Init => FreeInv
    BY DEF Init, UploadInit, FreeInv, Gating
<1>2. TypeOK /\ RoomInv /\ FreeInv => QuotaGuard
    <2> SUFFICES ASSUME TypeOK, RoomInv, FreeInv, upc = "upload"
                 PROVE  AccountFree - reserve >= MinFreeBytes \/ Stored = {}
        BY DEF QuotaGuard
    <2>1. Kept = Stored
        BY DEF RoomInv, Kept
    <2>2. QuotaBytes - Bytes[Stored] - trash - reserve >= MinFreeBytes \/ Stored = {}
        BY <2>1 DEF FreeInv, Gating
    <2>3. AccountFree = QuotaBytes - Bytes[Stored] - trash
        BY DEF AccountFree
    <2>4. QED
        BY <2>2, <2>3
<1>3. Faults \cap {"delete", "auth"} = {}
    OBVIOUS
<1>4. QED
    BY <1>1, <1>2, <1>3, NextFree, RoomHolds, ReserveBounded, TypeCorrect,
       SafeInvariant, PTL DEF Spec

-----------------------------------------------------------------------------
(* The folder after an upload                                              *)

InFlight == In({"inflight"})
Done == In({"landed", "moved"})

\* What rclone's limits say of a move: the sizes of the transfers in flight are
\* bounded one by one, as they start.
FlightInv ==
    /\ IsFiniteSet(InFlight)
    /\ \A T \in SUBSET InFlight : Bytes[T] <= Cardinality(T) * MaxSize
    /\ Bytes[Done \cup InFlight] <= (UploadSlice - 1) + Transfers * MaxSize

\* And what the gate has left for it.
MoveInv ==
    /\ FlightInv
    /\ upc \in {"upload", "move"} => reserve > 0
    /\ upc = "move" => Bytes[Stored \ Done] + reserve <= MaxDriveBytes

SomeLargest == \E big \in Segment : \A s \in Segment : Size(s) <= Size(big)

LEMMA MaxSizeBounds ==
    ASSUME SomeLargest
    PROVE  MaxSize \in Nat /\ \A s \in Segment : Size(s) <= MaxSize
<1>1. \A s \in Segment : Size(s) \in Nat
    BY BytesNat DEF Size
<1>2. \E n \in {Size(s) : s \in Segment} : \A s \in Segment : Size(s) <= n
    BY DEF SomeLargest
<1>3. QED
    BY <1>1, <1>2 DEF MaxSize

LEMMA MoveBytes ==
    /\ InFlight \in SUBSET Segment /\ Done \in SUBSET Segment
    /\ Bytes[InFlight] \in Nat /\ Bytes[Done] \in Nat /\ Bytes[Done \cup InFlight] \in Nat
BY BytesNat DEF InFlight, Done, In

\* No move is running: nothing is in flight, nothing is done.
LEMMA NoFlight ==
    ASSUME SomeLargest, NEW flying, flying = {}, NEW done, done = {}
    PROVE  /\ IsFiniteSet(flying)
           /\ \A T \in SUBSET flying : Bytes[T] <= Cardinality(T) * MaxSize
           /\ Bytes[done \cup flying] <= (UploadSlice - 1) + Transfers * MaxSize
<1>1. IsFiniteSet({}) /\ Cardinality({}) = 0
    BY FS_EmptySet
<1>2. MaxSize \in Nat
    BY MaxSizeBounds
<1>3. Bytes[{}] = 0
    BY BytesAdditive
<1>4. ASSUME NEW T \in SUBSET {}
      PROVE  Bytes[T] <= Cardinality(T) * MaxSize
    <2>1. T = {}
        OBVIOUS
    <2>2. Bytes[T] = 0 /\ Cardinality(T) = 0
        BY <2>1, <1>1, <1>3
    <2>3. 0 * MaxSize = 0
        BY <1>2
    <2>4. QED
        BY <2>2, <2>3
<1>5. Bytes[done \cup flying] <= (UploadSlice - 1) + Transfers * MaxSize
    <2>1. done \cup flying = {}
        OBVIOUS
    <2>2. Transfers * MaxSize \in Nat
        BY <1>2, TransfersAssumption
    <2>3. UploadSlice \in Nat /\ UploadSlice > 0
        BY UploadSliceNat
    <2>4. QED
        BY <1>3, <2>1, <2>2, <2>3
<1>6. QED
    BY <1>1, <1>4, <1>5

\* Another transfer starts while the slice is open and a slot is free.
LEMMA FlightStarts ==
    ASSUME SomeLargest, TypeOK, FlightInv, NEW s \in Segment, StartTransfer(s)
    PROVE  FlightInv'
<1>1. InFlight' = InFlight \cup {s} /\ Done' = Done /\ s \notin InFlight
    BY DEF StartTransfer, InFlight, Done, In, TypeOK, UploadTypeOK
<1>2. /\ Cardinality(InFlight) \in Nat
      /\ IsFiniteSet(InFlight') /\ Cardinality(InFlight') = Cardinality(InFlight) + 1
    BY <1>1, FS_AddElement, FS_CardinalityType DEF FlightInv
<1>3. MaxSize \in Nat /\ Size(s) \in Nat /\ Size(s) <= MaxSize
    BY MaxSizeBounds, BytesNat DEF Size
<1>4. ASSUME NEW T \in SUBSET InFlight'
      PROVE  Bytes[T] <= Cardinality(T) * MaxSize
    <2>1. CASE s \notin T
        BY <1>1, <2>1 DEF FlightInv
    <2>2. CASE s \in T
        <3> DEFINE R == T \ {s}
        <3>1. R \in SUBSET InFlight /\ R \in SUBSET Segment
            BY <1>1, MoveBytes
        <3>2. IsFiniteSet(R) /\ Cardinality(R) \in Nat
            BY <3>1, FS_Subset, FS_CardinalityType DEF FlightInv
        <3>3. Cardinality(T) = Cardinality(R) + 1
            BY <2>2, <3>2, FS_AddElement, T = R \cup {s}, s \notin R
        <3>4. Bytes[T] = Bytes[R] + Size(s) /\ Bytes[R] \in Nat
            BY <2>2, <3>1, BytesAdditive, BytesNat, T = R \cup {s}, R \cap {s} = {} DEF Size
        <3>5. Bytes[R] <= Cardinality(R) * MaxSize
            BY <3>1 DEF FlightInv
        <3> HIDE DEF R
        <3>6. (Cardinality(R) + 1) * MaxSize = Cardinality(R) * MaxSize + MaxSize
            BY <1>3, <3>2
        <3>7. Cardinality(R) * MaxSize \in Nat
            BY <1>3, <3>2
        <3>8. QED
            BY <1>3, <3>3, <3>4, <3>5, <3>6, <3>7
    <2>3. QED
        BY <2>1, <2>2
<1>5. Bytes[InFlight'] <= Transfers * MaxSize /\ Bytes[InFlight'] \in Nat
    <2>1. Cardinality(InFlight') \in Nat /\ Cardinality(InFlight') <= Transfers
        BY <1>2, TransfersAssumption DEF StartTransfer, InFlight
    <2>2. Cardinality(InFlight') * MaxSize <= Transfers * MaxSize
        BY <1>3, <2>1, TransfersAssumption
    <2>3. Bytes[InFlight'] <= Cardinality(InFlight') * MaxSize
        BY <1>4
    <2>4. Bytes[InFlight'] \in Nat
        BY <1>1, MoveBytes, BytesNat
    <2>5. QED
        BY <1>3, <2>1, <2>2, <2>3, <2>4, TransfersAssumption
<1>6. Bytes[Done] <= UploadSlice - 1
    BY MoveBytes, UploadSliceNat DEF StartTransfer, SliceOpen, Done
<1>7. Bytes[Done \cup InFlight'] <= Bytes[Done] + Bytes[InFlight']
    BY <1>1, MoveBytes, BytesUnion
<1>8. Bytes[Done \cup InFlight'] \in Nat /\ Transfers * MaxSize \in Nat
    BY <1>1, <1>3, MoveBytes, BytesNat, TransfersAssumption
<1>9. QED
    BY <1>1, <1>2, <1>4, <1>5, <1>6, <1>7, <1>8, MoveBytes, UploadSliceNat
       DEF FlightInv

\* A transfer ends, well or not: no more is on its way or done than before.
LEMMA FlightEnds ==
    ASSUME SomeLargest, FlightInv, InFlight' \subseteq InFlight,
           Done' \subseteq Done \cup InFlight
    PROVE  FlightInv'
<1>1. IsFiniteSet(InFlight')
    BY FS_Subset DEF FlightInv
<1>2. Bytes[(Done \cup InFlight)'] <= Bytes[Done \cup InFlight]
    BY MoveBytes, BytesMonotone
<1>3. Bytes[(Done \cup InFlight)'] \in Nat
    BY MoveBytes, BytesNat
<1>4. /\ UploadSlice \in Nat /\ Transfers * MaxSize \in Nat
      /\ Bytes[Done \cup InFlight] \in Nat
    BY UploadSliceNat, MaxSizeBounds, TransfersAssumption, MoveBytes
<1>5. QED
    BY <1>1, <1>2, <1>3, <1>4 DEF FlightInv

\* The steps that a move sees, and those that it does not.
LEMMA MoveKinds ==
    ASSUME TypeOK, SafeInv, [Next]_vars
    PROVE  \/ UNCHANGED <<xfer, remote, reserve, upc>>
           \/ /\ upc \notin {"upload", "move"} /\ UNCHANGED xfer
              /\ \/ upc' \notin {"upload", "move"}
                 \/ upc' = "upload" /\ reserve' > 0
              /\ Stored' \subseteq Stored
           \/ StartMove
           \/ Transfer
           \/ xfer' = NoMove /\ upc' = "prune_spool" /\ remote' = remote
<1>1. CASE Record \/ World \/ Encrypt \/ UNCHANGED vars
    <2>1. CASE Record \/ World
        BY <2>1 DEF Record, OpenSegment, CloseSegment, SettleSegment, GoQuiet,
           ResumeWriting, World, GrantDies, Reauthorize, GrowOlder, uploadVars
    <2>2. CASE Encrypt
        BY <2>2 DEF Encrypt, EncryptNext, EncryptSegment, PruneRawSpool,
           ListSegments, GpgMissing, SkipEncrypted, StartGpg, RenamePart, GpgFails,
           UnlinkPlaintext, PassRaises, PassDone, spoolVars, uploadVars
    <2>3. QED
        BY <1>1, <2>1, <2>2 DEF vars, spoolVars, uploadVars
<1>2. CASE CrashRestart
    BY <1>2 DEF CrashRestart, UploadReset
<1>3. CASE Upload
    <2>1. CASE BatchIntervalPasses \/ PurgeTrash
        BY <2>1 DEF BatchIntervalPasses, PurgeTrash, spoolVars, uploadVars
    <2>2. CASE PruneSpool \/ MeasurePending \/ IdlePrune \/ IdlePoll \/ ListFails
        BY <2>2 DEF PruneSpool, MeasurePending, IdlePrune, IdlePoll, ListFails,
                    spoolVars, Stored
    <2>3. CASE ListRemote
        BY <2>3 DEF ListRemote, PruneReturns, Stored
    <2>4. CASE DeleteRemote \/ DeleteFails
        <3>1. Stored' \subseteq Stored
            BY <2>4 DEF DeleteRemote, DeleteFails, DeleteFromDrive, Stored
        <3>2. QED
            BY <2>4, <3>1 DEF DeleteRemote, DeleteFails, PruneReturns
    <2>5. CASE MoveReturns
        BY <2>5 DEF MoveReturns, spoolVars
    <2>6. QED
        BY <1>3, <2>1, <2>2, <2>3, <2>4, <2>5 DEF Upload, UploadNext
<1>4. QED
    BY <1>1, <1>2, <1>3 DEF Next

\* What is on Drive but not from this move does not grow.
LEMMA TransferSteps ==
    ASSUME TypeOK, SafeInv, NEW s \in Segment,
           Check(s) \/ TransferLands(s) \/ TransferFails(s) \/ UnlinkSource(s)
               \/ SkipIdentical(s)
    PROVE  /\ upc = "move" /\ UNCHANGED <<upc, reserve>>
           /\ InFlight' \subseteq InFlight
           /\ Done' \subseteq Done \cup InFlight
           /\ (Stored \ Done)' \subseteq Stored \ Done
<1> USE DEF TypeOK, SpoolTypeOK, UploadTypeOK
<1>1. upc = "move" /\ UNCHANGED <<upc, reserve>>
    BY DEF Check, TransferLands, TransferFails, UnlinkSource, SkipIdentical, SafeInv,
           TransfersHaveSource
<1>2. CASE TransferLands(s)
    BY <1>1, <1>2 DEF TransferLands, InFlight, Done, In, Stored
<1>3. CASE Check(s)
    BY <1>1, <1>3 DEF Check, InFlight, Done, In, Stored, spoolVars
<1>4. CASE TransferFails(s) \/ UnlinkSource(s) \/ SkipIdentical(s)
    BY <1>1, <1>4 DEF TransferFails, UnlinkSource, SkipIdentical, InFlight, Done,
                      In, Stored
<1>5. QED
    BY <1>1, <1>2, <1>3, <1>4

\* No move is running in NoMove.
LEMMA NoMoveFlight ==
    ASSUME SomeLargest, xfer' = NoMove
    PROVE  FlightInv' /\ Done' = {}
<1>1. InFlight' = {} /\ Done' = {}
    BY DEF NoMove, InFlight, Done, In
<1>2. QED
    BY <1>1, NoFlight DEF FlightInv

LEMMA NextFlight ==
    ASSUME SomeLargest
    PROVE  TypeOK /\ SafeInv /\ FlightInv /\ [Next]_vars => FlightInv'
<1> SUFFICES ASSUME TypeOK, SafeInv, FlightInv, [Next]_vars
             PROVE  FlightInv'
    OBVIOUS
<1>1. CASE UNCHANGED xfer
    BY <1>1 DEF FlightInv, InFlight, Done, In
<1>2. CASE StartMove
    <2>1. InFlight' = {} /\ Done' = {}
        BY <1>2 DEF StartMove, InFlight, Done, In
    <2>2. QED
        BY <2>1, NoFlight DEF FlightInv
<1>3. ASSUME NEW s \in Segment, StartTransfer(s)
      PROVE  FlightInv'
    BY <1>3, FlightStarts
<1>4. ASSUME NEW s \in Segment,
             Check(s) \/ TransferLands(s) \/ TransferFails(s) \/ UnlinkSource(s)
                 \/ SkipIdentical(s)
      PROVE  FlightInv'
    BY <1>4, TransferSteps, FlightEnds
<1>5. CASE xfer' = NoMove
    BY <1>5, NoMoveFlight
<1>6. QED
    BY <1>1, <1>2, <1>3, <1>4, <1>5, MoveKinds DEF Transfer

LEMMA NextMove ==
    ASSUME SomeLargest
    PROVE  TypeOK /\ SafeInv /\ RoomInv /\ MoveInv /\ [Next]_vars => MoveInv'
<1> SUFFICES ASSUME TypeOK, SafeInv, RoomInv, MoveInv, [Next]_vars
             PROVE  MoveInv'
    OBVIOUS
<1>0. FlightInv'
    BY NextFlight DEF MoveInv
<1>1. CASE UNCHANGED <<xfer, remote, reserve, upc>>
    BY <1>0, <1>1 DEF MoveInv, Done, In, Stored
<1>2. CASE \/ upc' \notin {"upload", "move"}
           \/ upc' = "upload" /\ reserve' > 0
    BY <1>0, <1>2 DEF MoveInv
<1>3. CASE StartMove
    <2>1. Done' = {}
        BY <1>3 DEF StartMove, Done, In
    <2>2. Stored' \ Done' = Kept /\ upc' = "move" /\ reserve' = reserve /\ reserve > 0
        BY <1>3, <2>1 DEF StartMove, spoolVars, Stored, Kept, RoomInv, MoveInv
    <2>3. Bytes[Kept] + reserve <= MaxDriveBytes
        BY <1>3 DEF StartMove, RoomInv, Gating
    <2>4. QED
        BY <1>0, <2>2, <2>3 DEF MoveInv
<1>4. ASSUME NEW s \in Segment, StartTransfer(s)
      PROVE  MoveInv'
    <2>1. UNCHANGED <<upc, reserve>> /\ Done' = Done /\ Stored' = Stored
        BY <1>4 DEF StartTransfer, spoolVars, Done, In, Stored, TypeOK, UploadTypeOK
    <2>2. QED
        BY <1>0, <2>1 DEF MoveInv
<1>5. ASSUME NEW s \in Segment,
             Check(s) \/ TransferLands(s) \/ TransferFails(s) \/ UnlinkSource(s)
                 \/ SkipIdentical(s)
      PROVE  MoveInv'
    <2>1. /\ upc = "move" /\ UNCHANGED <<upc, reserve>>
          /\ (Stored \ Done)' \subseteq Stored \ Done
        BY <1>5, TransferSteps
    <2>2. Bytes[(Stored \ Done)'] <= Bytes[Stored \ Done]
        BY <2>1, BytesMonotone DEF Stored
    <2>3. Bytes[(Stored \ Done)'] \in Nat /\ Bytes[Stored \ Done] \in Nat
        BY <2>1, BytesNat DEF Stored
    <2>4. reserve \in Nat /\ MaxDriveBytes \in Nat
        BY ConfigAssumption DEF TypeOK, UploadTypeOK
    <2>5. QED
        BY <1>0, <2>1, <2>2, <2>3, <2>4 DEF MoveInv
<1>6. QED
    BY <1>1, <1>2, <1>3, <1>4, <1>5, MoveKinds DEF Transfer

LEMMA NextBound ==
    ASSUME SomeLargest
    PROVE  TypeOK /\ SafeInv /\ MoveInv /\ MoveInv' /\ FolderBound /\ [Next]_vars
               => FolderBound'
<1> SUFFICES ASSUME TypeOK, SafeInv, MoveInv, MoveInv', FolderBound, [Next]_vars
             PROVE  FolderBound'
    OBVIOUS
<1>0. /\ UploadSlice \in Nat /\ Transfers * MaxSize \in Nat /\ MaxDriveBytes \in Nat
      /\ Stored \in SUBSET Segment /\ Stored' \in SUBSET Segment
      /\ Bytes[Stored] \in Nat /\ Bytes[Stored'] \in Nat
    BY UploadSliceNat, MaxSizeBounds, TransfersAssumption, ConfigAssumption, BytesNat
       DEF Stored
<1>1. CASE Stored' \subseteq Stored
    BY <1>0, <1>1, BytesMonotone DEF FolderBound
<1>2. ASSUME NEW s \in Segment, TransferLands(s)
      PROVE  FolderBound'
    <2>1. upc' = "move" /\ reserve' = reserve /\ reserve \in Nat
        BY <1>2, TransferSteps DEF TypeOK, UploadTypeOK
    <2>2. Bytes[(Stored \ Done)'] + reserve <= MaxDriveBytes /\ reserve > 0
        BY <2>1 DEF MoveInv
    <2>3. Done' \in SUBSET Segment /\ (Done \cup InFlight)' \in SUBSET Segment
        BY DEF Done, InFlight, In
    <2>4. Bytes[Done'] <= Bytes[(Done \cup InFlight)']
        BY <2>3, BytesMonotone
    <2>5. Bytes[(Done \cup InFlight)'] <= (UploadSlice - 1) + Transfers * MaxSize
        BY DEF MoveInv, FlightInv
    <2>6. Bytes[Stored'] <= Bytes[(Stored \ Done)' \cup Done']
        BY <1>0, <2>3, BytesMonotone
    <2>7. Bytes[(Stored \ Done)' \cup Done'] <= Bytes[(Stored \ Done)'] + Bytes[Done']
        BY <1>0, <2>3, BytesUnion
    <2>8. /\ Bytes[(Stored \ Done)'] \in Nat /\ Bytes[Done'] \in Nat
          /\ Bytes[(Done \cup InFlight)'] \in Nat
          /\ Bytes[(Stored \ Done)' \cup Done'] \in Nat
        BY <1>0, <2>3, BytesNat
    <2>9. QED
        BY <1>0, <2>1, <2>2, <2>4, <2>5, <2>6, <2>7, <2>8 DEF FolderBound
<1>3. ASSUME NEW s \in Segment,
             Check(s) \/ StartTransfer(s) \/ TransferFails(s) \/ UnlinkSource(s) \/ SkipIdentical(s)
      PROVE  Stored' \subseteq Stored
    BY <1>3 DEF Check, StartTransfer, TransferFails, UnlinkSource, SkipIdentical,
                spoolVars, Stored
<1>4. CASE StartMove
    BY <1>1, <1>4 DEF StartMove, spoolVars, Stored
<1>5. CASE remote' = remote
    BY <1>1, <1>5 DEF Stored
<1>6. QED
    BY <1>1, <1>2, <1>3, <1>4, <1>5, MoveKinds DEF Transfer

\* How far the folder can exceed max_drive_bytes: less than a slice and one file
\* per transfer, as long as the gate's deletes succeed.  Transfers may fail and
\* the service may crash, if its rclone ends with it (CrashRestart): one that
\* outlives it uploads beside the next move, and the bound is not claimed then.
\* A finite set of segments has a largest.
THEOREM FolderBounded ==
    ASSUME SomeLargest, UploadMaxBytes <= MaxDriveBytes,
           Faults \cap {"delete", "auth"} = {}
    PROVE  Spec => []FolderBound
<1>1. Init => MoveInv /\ FolderBound
    <2> SUFFICES ASSUME Init
                 PROVE  MoveInv /\ FolderBound
        OBVIOUS
    <2>1. InFlight = {} /\ Done = {} /\ Stored = {} /\ upc = "prune_spool"
        BY DEF Init, SpoolInit, UploadInit, NoMove, InFlight, Done, In, Stored
    <2>2. Bytes[{}] = 0 /\ UploadSlice \in Nat /\ UploadSlice > 0 /\ MaxDriveBytes \in Nat
              /\ MaxDriveBytes > 0 /\ Transfers * MaxSize \in Nat
        BY BytesAdditive, UploadSliceNat, ConfigAssumption, MaxSizeBounds,
           TransfersAssumption
    <2>3. FlightInv
        BY <2>1, NoFlight DEF FlightInv
    <2>4. QED
        BY <2>1, <2>2, <2>3 DEF MoveInv, FolderBound
<1>2. Spec => []MoveInv
    BY <1>1, NextMove, RoomHolds, TypeCorrect, SafeInvariant, PTL DEF Spec
<1>3. QED
    BY <1>1, <1>2, NextBound, TypeCorrect, SafeInvariant, PTL DEF Spec
=============================================================================
