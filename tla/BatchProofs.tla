---------------------------- MODULE BatchProofs ----------------------------
(***************************************************************************)
(* The theorems of Batch.  Every step of the one thread is a step of the   *)
(* pipeline, or one of the two that hand over between stages and touch no  *)
(* file; so what is invariant of the pipeline's files is invariant here.   *)
(* What is new is what the order of the stages makes of the folder.        *)
(***************************************************************************)
EXTENDS Batch, LifeProofs

-----------------------------------------------------------------------------
(* What carries over from the pipeline                                     *)

BaseInv == TypeOK /\ SafeInv /\ PartInv /\ ReserveInv /\ LifeInv

\* The steps of run_batch that no thread of `videobackup run` has.
Handover == StartUpload \/ MoveReports

LEMMA BatchSteps == [BatchNext]_batchVars => [Next]_vars \/ Handover
<1> SUFFICES ASSUME [BatchNext]_batchVars
             PROVE  [Next]_vars \/ Handover
    OBVIOUS
<1>1. CASE UNCHANGED batchVars
    BY <1>1 DEF batchVars
<1>2. CASE StartCycle
    BY <1>2 DEF StartCycle
<1>3. CASE EncryptStep \/ EncryptRaises \/ EncryptDone
    <2>1. Encrypt
        BY <1>3 DEF EncryptStep, EncryptRaises, EncryptDone, Encrypt, EncryptNext
    <2>2. QED
        BY <2>1 DEF Next
<1>4. CASE CapSpool \/ Move \/ Prune \/ PruneRaises
    <2>1. Upload
        BY <1>4 DEF CapSpool, Move, Prune, PruneRaises, Upload, UploadNext
    <2>2. QED
        BY <2>1 DEF Next
<1>5. CASE Record \/ World \/ (PurgeTrash /\ UNCHANGED encryptVars)
    BY <1>5 DEF Next, Upload
<1>6. CASE BatchCrash
    BY <1>6 DEF BatchCrash, Next
<1>7. QED
    BY <1>1, <1>2, <1>3, <1>4, <1>5, <1>6 DEF BatchNext, RunBatch, Handover

\* A handover leaves every file and the encrypt stage alone, and no move is
\* running after it.
LEMMA HandoverLocal ==
    ASSUME TypeOK, SafeInv, Handover
    PROVE  /\ UNCHANGED <<spoolVars, encryptVars, due, reserve, victims>>
           /\ upc' \in {"upload", "list", "prune_spool"}
           /\ xfer' = NoMove
<1>1. CASE StartUpload
    <2>1. xfer = NoMove
        BY <1>1 DEF StartUpload, SafeInv, TransfersHaveSource, TypeOK, UploadTypeOK,
                    NoMove
    <2>2. QED
        BY <1>1, <2>1 DEF StartUpload
<1>2. CASE MoveReports
    BY <1>2 DEF MoveReports
<1>3. QED
    BY <1>1, <1>2 DEF Handover

LEMMA HandoverBase ==
    ASSUME BaseInv, Handover
    PROVE  BaseInv' /\ UNCHANGED Clips!lifeVars
<1>1. /\ UNCHANGED <<spoolVars, encryptVars, due, reserve, victims>>
      /\ upc' \in {"upload", "list", "prune_spool"}
      /\ xfer' = NoMove
    BY HandoverLocal DEF BaseInv
<1>2. TypeOK'
    BY <1>1 DEF BaseInv, TypeOK, SpoolTypeOK, EncryptTypeOK, UploadTypeOK,
                XferStates, NoMove, spoolVars, encryptVars
<1>3. SafeInv'
    <2>1. TransfersHaveSource'
        BY <1>1 DEF TransfersHaveSource, NoMove
    <2>2. QED
        BY <1>1, <2>1, LocalStepSafe DEF BaseInv, spoolVars
<1>4. PartInv'
    BY <1>1 DEF BaseInv, PartInv, PartHasPlaintext, spoolVars, encryptVars
<1>5. ReserveInv'
    BY <1>1 DEF BaseInv, ReserveInv
<1>6. Local' = Local /\ Stored' = Stored /\ gone' = gone
    BY <1>1 DEF spoolVars, Local, Spooled, Stored
<1>7. LifeInv'
    BY <1>1, <1>6 DEF BaseInv, LifeInv, DiskInv, FolderInv, AgeInv, Born,
                      spoolVars, encryptVars
<1>8. QED
    BY <1>2, <1>3, <1>4, <1>5, <1>6, <1>7 DEF BaseInv, Clips!lifeVars, Local

LEMMA BatchMaps ==
    BaseInv /\ [BatchNext]_batchVars => BaseInv' /\ [Clips!Next]_(Clips!lifeVars)
<1>1. BaseInv /\ [Next]_vars => BaseInv' /\ [Clips!Next]_(Clips!lifeVars)
    BY NextTypes, NextSafe, NextPart, NextReserve, NextLife DEF BaseInv
<1>2. QED
    BY <1>1, HandoverBase, BatchSteps

LEMMA InitBase == BatchInit => BaseInv /\ Clips!Init
<1>1. Init => ReserveInv
    BY UploadSliceNat DEF Init, UploadInit, ReserveInv
<1>2. QED
    BY <1>1, InitTypes, InitSafe, InitPart, InitLife DEF BatchInit, BaseInv

LEMMA BaseHolds == BatchSpec => []BaseInv
BY InitBase, BatchMaps, PTL DEF BatchSpec

\* `videobackup batch-loop` keeps the promise of `videobackup run` about the
\* footage: it implements the life of a clip that ClipLife describes.
THEOREM BatchImplementsClipLife == BatchSpec => KeepsClips
BY InitBase, BatchMaps, BaseHolds, PTL DEF BatchSpec, KeepsClips, Clips!Spec

\* No footage is lost silently when the stages run one after the other either,
\* whichever of them raises and wherever the service is killed.
THEOREM BatchFootageKept == BatchSpec => []NoSilentLoss
<1>1. BaseInv => NoSilentLoss
    BY DEF BaseInv, SafeInv
<1>2. QED
    BY <1>1, BaseHolds, PTL

-----------------------------------------------------------------------------
(* The order of the stages                                                 *)

\* Which step of the two loops a stage may be at.  Nothing is ever reserved.
StageInv ==
    /\ stage \in {"rest", "encrypt", "spool", "upload", "prune"}
    /\ stage # "encrypt" => epc = "prune"
    /\ stage \in {"rest", "encrypt", "spool"} => upc = "prune_spool"
    /\ stage = "upload" => upc \in {"measure", "upload", "move"}
    /\ stage = "prune" => upc \in {"list", "delete"}
    /\ reserve = 0 /\ ~due

LEMMA InitStage == BatchInit => StageInv
BY DEF BatchInit, Init, EncryptInit, UploadInit, StageInv

LEMMA NextStage == StageInv /\ [BatchNext]_batchVars => StageInv'
<1> SUFFICES ASSUME StageInv, [BatchNext]_batchVars
             PROVE  StageInv'
    OBVIOUS
<1> USE DEF StageInv, At
<1>1. CASE StartCycle \/ UNCHANGED batchVars
    BY <1>1 DEF StartCycle, batchVars, vars, encryptVars, uploadVars
<1>2. CASE EncryptStep
    BY <1>2 DEF EncryptStep, uploadVars
<1>3. CASE EncryptRaises \/ EncryptDone
    BY <1>3 DEF EncryptRaises, EncryptDone, GpgMissing, PassRaises, PassDone,
                uploadVars
<1>4. CASE CapSpool
    BY <1>4 DEF CapSpool, PruneSpool, encryptVars
<1>5. CASE StartUpload \/ MoveReports
    BY <1>5 DEF StartUpload, MoveReports, encryptVars
<1>6. CASE Move
    <2>1. CASE StartMove
        BY <1>6, <2>1 DEF Move, StartMove, encryptVars
    <2>2. CASE Transfer
        BY <1>6, <2>2 DEF Move, Transfer, Check, StartTransfer, TransferLands,
                          TransferFails, UnlinkSource, SkipIdentical, encryptVars
    <2>3. QED
        BY <1>6, <2>1, <2>2 DEF Move
<1>7. CASE Prune
    BY <1>7 DEF Prune, ListRemote, DeleteRemote, DeleteFails, PruneReturns, encryptVars
<1>8. CASE PruneRaises
    BY <1>8 DEF PruneRaises, ListFails, encryptVars
<1>9. CASE (Record \/ World \/ (PurgeTrash /\ UNCHANGED encryptVars)) /\ UNCHANGED stage
    BY <1>9 DEF Record, World, PurgeTrash, encryptVars, uploadVars
<1>10. CASE BatchCrash
    BY <1>10 DEF BatchCrash, CrashRestart, EncryptReset, UploadReset
<1>11. QED
    BY <1>1, <1>2, <1>3, <1>4, <1>5, <1>6, <1>7, <1>8, <1>9, <1>10
       DEF BatchNext, RunBatch

LEMMA StagesHold == BatchSpec => []StageInv
BY InitStage, NextStage, PTL DEF BatchSpec

\* Every state of the batch service is well typed, and between two stages the
\* steps of the two loops are where they start.
THEOREM BatchTypes == BatchSpec => []BatchTypeOK
<1>1. BaseInv /\ StageInv => BatchTypeOK
    BY DEF BaseInv, StageInv, BatchTypeOK
<1>2. QED
    BY <1>1, BaseHolds, StagesHold, PTL

-----------------------------------------------------------------------------
(* The prune that ends a cycle                                             *)

\* The selection leaves no more than the cap.
KeptInv == upc = "delete" => Bytes[Kept] <= MaxDriveBytes

LEMMA ListingFits ==
    ASSUME TypeOK, reserve = 0, ListRemote
    PROVE  Stored' = Stored /\ Bytes[Stored \ victims'] <= MaxDriveBytes
<1>1. PICK free \in {AccountFree, NoReading} :
         victims' = SelectForDeletion(Stored, remote, PruneCap(free), cutoff)
    BY DEF ListRemote
<1>2. PruneCap(free) \in Nat /\ PruneCap(free) <= MaxDriveBytes /\ MaxDriveBytes \in Nat
    BY PruneCapTypes, ConfigAssumption
<1>3. Bytes[Stored \ victims'] <= PruneCap(free)
    BY <1>1, <1>2, ListingTypes, SelectionFits
<1>4. Bytes[Stored \ victims'] \in Nat
    BY ListingTypes, BytesNat
<1>5. QED
    BY <1>2, <1>3, <1>4 DEF ListRemote, Stored

LEMMA NextKept == BaseInv /\ StageInv /\ KeptInv /\ [BatchNext]_batchVars => KeptInv'
<1> SUFFICES ASSUME BaseInv, StageInv, KeptInv, [BatchNext]_batchVars
             PROVE  KeptInv'
    OBVIOUS
<1>1. CASE Handover
    BY <1>1, HandoverLocal DEF BaseInv, KeptInv
<1>2. CASE [Next]_vars
    <2>1. CASE UNCHANGED <<remote, reserve, victims, upc>>
        BY <2>1 DEF KeptInv, Kept, Stored
    <2>2. CASE upc' # "delete"
        BY <2>2 DEF KeptInv
    <2>3. CASE ListRemote
        BY <2>3, ListingFits DEF BaseInv, StageInv, KeptInv, Kept
    <2>4. QED
        BY <1>2, <2>1, <2>2, <2>3, StepKinds
           DEF BaseInv, Gating, MeasurePending, DeleteRemote, DeleteFails, PruneReturns
<1>3. QED
    BY <1>1, <1>2, BatchSteps

LEMMA KeptHolds == BatchSpec => []KeptInv
<1>1. BatchInit => KeptInv
    BY DEF BatchInit, Init, UploadInit, KeptInv
<1>2. QED
    BY <1>1, NextKept, BaseHolds, StagesHold, PTL DEF BatchSpec

\* A prune that returns with nothing having failed leaves the cap.
LEMMA PruneFits ==
    ASSUME BaseInv, StageInv, KeptInv, Prune \/ PruneRaises, stage' = "rest",
           auth, folder \/ Stored = {}, budget' = budget
    PROVE  Bytes[Stored'] <= MaxDriveBytes
<1>1. ~(Fault("list") \/ Fault("delete"))
    BY DEF Fault, BaseInv, TypeOK, SpoolTypeOK
<1>2. CASE ListRemote
    <2>1. victims' = {} /\ reserve = 0
        BY <1>2 DEF Prune, PruneRaises, ListFails, ListRemote, StageInv
    <2>2. Stored \ victims' = Stored
        BY <2>1
    <2>3. QED
        BY <1>2, <2>1, <2>2, ListingFits DEF BaseInv
<1>3. CASE DeleteRemote
    <2>1. Stored' = Kept
        BY <1>3 DEF DeleteRemote, DeleteFromDrive, Kept, Stored
    <2>2. QED
        BY <1>3, <2>1 DEF DeleteRemote, KeptInv
<1>4. ~DeleteFails
    BY <1>1 DEF DeleteFails
<1>5. CASE ListFails
    <2>1. Stored = {} /\ Stored' = Stored
        BY <1>1, <1>5 DEF ListFails, Stored
    <2>2. Bytes[Stored'] = 0
        BY <2>1, BytesAdditive
    <2>3. QED
        BY <2>2, ConfigAssumption
<1>6. QED
    BY <1>2, <1>3, <1>4, <1>5 DEF Prune, PruneRaises

\* batch-loop prunes last: a cycle that reaches its end, and whose deletes
\* succeed, leaves the folder at or under max_drive_bytes, whatever the move
\* before it did and whatever it found.
THEOREM CyclesEndUnderCap == BatchSpec => CycleEndsUnderCap
<1> DEFINE Step ==
      stage = "prune" /\ stage' = "rest" /\ auth /\ folder /\ budget' = budget
          => Bytes[Stored]' <= MaxDriveBytes
<1>1. BaseInv /\ StageInv /\ KeptInv /\ [BatchNext]_batchVars => [Step]_batchVars
    <2> SUFFICES ASSUME BaseInv, StageInv, KeptInv, [BatchNext]_batchVars,
                        stage = "prune", stage' = "rest", auth, folder,
                        budget' = budget
                 PROVE  Bytes[Stored'] <= MaxDriveBytes
        OBVIOUS
    <2>1. ~BatchCrash
        <3>1. ~Fault("crash")
            BY DEF Fault, BaseInv, TypeOK, SpoolTypeOK
        <3>2. QED
            BY <3>1 DEF BatchCrash, CrashRestart
    <2>2. Prune \/ PruneRaises
        BY <2>1 DEF BatchNext, RunBatch, StartCycle, EncryptStep, EncryptRaises,
           EncryptDone, CapSpool, StartUpload, Move, MoveReports, At, batchVars
    <2>3. QED
        BY <2>2, PruneFits
<1>2. QED
    BY <1>1, KeptHolds, BaseHolds, StagesHold, PTL DEF BatchSpec, CycleEndsUnderCap

-----------------------------------------------------------------------------
(* The folder between two prunes                                           *)

\* As long as nothing has failed, the grant is alive and no transfer was
\* denied; and there is no file without the folder.
CleanInv == budget = MaxFaults => auth /\ In({"denied"}) = {}
FolderMade == ~folder => Stored = {}

\* No step gives a failure back.
LEMMA BudgetSpent == TypeOK /\ [Next]_vars => budget' \in {budget, budget - 1}
<1> SUFFICES ASSUME TypeOK, [Next]_vars
             PROVE  budget' \in {budget, budget - 1}
    OBVIOUS
<1>1. CASE Record \/ World \/ CrashRestart \/ UNCHANGED vars
    BY <1>1 DEF Record, OpenSegment, CloseSegment, SettleSegment, GoQuiet,
       ResumeWriting, World, GrantDies, Fault, Reauthorize, GrowOlder,
       CrashRestart, vars, spoolVars
<1>2. CASE Encrypt
    BY <1>2 DEF Encrypt, EncryptNext, EncryptSegment, PruneRawSpool, Spend, Fault,
       ListSegments, GpgMissing, SkipEncrypted, StartGpg, RenamePart, GpgFails,
       UnlinkPlaintext, PassRaises, PassDone, spoolVars
<1>3. CASE Upload
    BY <1>3 DEF Upload, UploadNext, PruneSpool, Spend, Fault, MeasurePending,
       IdlePrune, IdlePoll, ListRemote, AboutReading, ListFails, DeleteRemote,
       DeleteFails, StartMove, Transfer, Check, StartTransfer, TransferLands,
       TransferFails, UnlinkSource, SkipIdentical, MoveReturns,
       BatchIntervalPasses, PurgeTrash, spoolVars
<1>4. QED
    BY <1>1, <1>2, <1>3 DEF Next

LEMMA NoFaultBefore ==
    ASSUME TypeOK, [Next]_vars, budget' = MaxFaults
    PROVE  budget = MaxFaults
<1>1. budget \in 0..MaxFaults /\ MaxFaults \in Nat
    BY FaultsAssumption DEF TypeOK, SpoolTypeOK
<1>2. QED
    BY <1>1, BudgetSpent

\* Only a fault kills the grant, and only a dead one denies a transfer.
LEMMA NextClean == TypeOK /\ SafeInv /\ CleanInv /\ [Next]_vars => CleanInv'
<1> SUFFICES ASSUME TypeOK, SafeInv, CleanInv, [Next]_vars, budget' = MaxFaults
             PROVE  auth' /\ In({"denied"})' = {}
    BY DEF CleanInv
<1>1. auth /\ In({"denied"}) = {} /\ budget' = budget
    BY NoFaultBefore DEF CleanInv
<1>2. \A kind : ~Fault(kind)
    BY <1>1 DEF Fault, TypeOK, SpoolTypeOK
<1>3. auth'
    BY <1>1, <1>2 DEF Next, Record, OpenSegment, CloseSegment, SettleSegment,
       GoQuiet, ResumeWriting, World, GrantDies, Reauthorize, GrowOlder,
       Encrypt, EncryptNext, EncryptSegment, PruneRawSpool, ListSegments,
       GpgMissing, SkipEncrypted, StartGpg, RenamePart, GpgFails,
       UnlinkPlaintext, PassRaises, PassDone, Upload, UploadNext, Transfer,
       PruneSpool, MeasurePending, IdlePrune, IdlePoll, ListRemote, ListFails,
       DeleteRemote, DeleteFails, StartMove, Check, StartTransfer, TransferLands,
       TransferFails, UnlinkSource, SkipIdentical, MoveReturns,
       BatchIntervalPasses, PurgeTrash, CrashRestart, vars, spoolVars
<1>4. CASE UNCHANGED xfer \/ StartMove \/ xfer' = NoMove
    BY <1>1, <1>3, <1>4 DEF StartMove, NoMove, In
<1>5. CASE Transfer
    BY <1>1, <1>3, <1>5 DEF Transfer, Check, StartTransfer, TransferLands, TransferFails,
       UnlinkSource, SkipIdentical, In, TypeOK, UploadTypeOK
<1>6. QED
    BY <1>4, <1>5, MoveKinds

\* The first upload creates the folder, and it stays.
LEMMA NextFolderMade == TypeOK /\ SafeInv /\ FolderMade /\ [Next]_vars => FolderMade'
<1> SUFFICES ASSUME TypeOK, SafeInv, FolderMade, [Next]_vars
             PROVE  FolderMade'
    OBVIOUS
<1>1. CASE folder' = folder /\ Stored' \subseteq Stored
    BY <1>1 DEF FolderMade
<1>2. CASE UNCHANGED <<folder, remote>>
    BY <1>1, <1>2 DEF Stored
<1>3. CASE Record \/ World \/ Encrypt \/ CrashRestart \/ UNCHANGED vars
    BY <1>2, <1>3 DEF Record, OpenSegment, CloseSegment, SettleSegment, GoQuiet,
       ResumeWriting, World, GrantDies, Reauthorize, GrowOlder, Encrypt,
       EncryptNext, EncryptSegment, PruneRawSpool, ListSegments, GpgMissing,
       SkipEncrypted, StartGpg, RenamePart, GpgFails, UnlinkPlaintext,
       PassRaises, PassDone, CrashRestart, vars, spoolVars
<1>4. CASE Upload
    <2>1. CASE DeleteRemote \/ DeleteFails
        BY <1>1, <2>1 DEF DeleteRemote, DeleteFails, DeleteFromDrive, Stored
    <2>2. ASSUME NEW s \in Segment, TransferLands(s)
          PROVE  FolderMade'
        BY <2>2 DEF TransferLands, FolderMade
    <2>3. ASSUME NEW s \in Segment,
                 Check(s) \/ StartTransfer(s) \/ TransferFails(s) \/ UnlinkSource(s) \/ SkipIdentical(s)
          PROVE  FolderMade'
        BY <1>2, <2>3 DEF Check, StartTransfer, TransferFails, UnlinkSource, SkipIdentical,
                          spoolVars
    <2>4. CASE Upload /\ ~(DeleteRemote \/ DeleteFails \/ Transfer)
        BY <1>2, <2>4 DEF Upload, UploadNext, PruneSpool, MeasurePending, IdlePrune,
           IdlePoll, ListRemote, ListFails, StartMove, MoveReturns,
           BatchIntervalPasses, PurgeTrash, spoolVars
    <2>5. QED
        BY <1>4, <2>1, <2>2, <2>3, <2>4 DEF Transfer
<1>5. QED
    BY <1>3, <1>4 DEF Next

\* S exceeds the cap by at most what k moves transfer.
Within(S, k) == Bytes[S] <= MaxDriveBytes + k * OneMove

Used == MaxFaults - budget

\* The moves that a failure which has happened may still add: a grant that died
\* in a move skips the prunes of this cycle and of the one it is renewed in, of
\* which the first is behind us once nothing of this move is on Drive, and
\* both are ahead while the prune is running.
Owed ==
    IF stage = "prune" THEN (IF auth THEN 0 ELSE 2)
    ELSE IF ~auth THEN (IF Done = {} THEN 1 ELSE 2)
    ELSE IF In({"denied"}) = {} THEN 0 ELSE 1

\* The move is accounted for when the cycle enters its prune.
SlackInv ==
    IF stage = "prune" THEN Within(Stored, 2 * Used + 1 - Owed)
    ELSE Within(Stored \ Done, 2 * Used - Owed)

BoundInv == FlightInv /\ CleanInv /\ FolderMade /\ SlackInv

LEMMA OneMoveNat == SomeLargest => OneMove \in Nat
BY UploadSliceNat, MaxSizeBounds, TransfersAssumption DEF OneMove

LEMMA WithinMore ==
    ASSUME SomeLargest, NEW S \in SUBSET Segment, NEW T \in SUBSET S,
           NEW j \in Int, NEW k \in Int, j <= k, Within(S, j)
    PROVE  Within(T, k)
<1>1. OneMove \in Nat /\ MaxDriveBytes \in Nat
    BY OneMoveNat, ConfigAssumption
<1>2. Bytes[T] <= Bytes[S] /\ Bytes[T] \in Nat /\ Bytes[S] \in Nat
    BY BytesMonotone, BytesNat
<1>3. /\ (k - j) * OneMove >= 0
      /\ k * OneMove = j * OneMove + (k - j) * OneMove
      /\ j * OneMove \in Int /\ (k - j) * OneMove \in Int
    BY <1>1
<1>4. QED
    BY <1>1, <1>2, <1>3 DEF Within

\* What the running move adds is one move's worth.
LEMMA WithinMove ==
    ASSUME SomeLargest, FlightInv, NEW k \in Int, Within(Stored \ Done, k)
    PROVE  Within(Stored, k + 1)
<1>1. /\ UploadSlice \in Nat /\ MaxDriveBytes \in Nat /\ Transfers * MaxSize \in Nat
      /\ OneMove \in Nat /\ OneMove = (UploadSlice - 1) + Transfers * MaxSize
    BY UploadSliceNat, MaxSizeBounds, TransfersAssumption, ConfigAssumption, OneMoveNat
       DEF OneMove
<1>2. Bytes[Done \cup InFlight] <= OneMove
    BY <1>1 DEF FlightInv
<1>3. /\ Stored \in SUBSET Segment /\ Done \in SUBSET Segment
      /\ (Done \cup InFlight) \in SUBSET Segment
      /\ (Stored \ Done) \in SUBSET Segment
      /\ ((Stored \ Done) \cup Done) \in SUBSET Segment
    BY DEF Stored, Done, InFlight, In
<1>4. Bytes[Done] <= Bytes[Done \cup InFlight]
    BY <1>3, BytesMonotone
<1>5. Bytes[(Stored \ Done) \cup Done] <= Bytes[Stored \ Done] + Bytes[Done]
    BY <1>3, BytesUnion
<1>6. Bytes[Stored] <= Bytes[(Stored \ Done) \cup Done]
    BY <1>3, BytesMonotone
<1>7. /\ Bytes[Stored] \in Nat /\ Bytes[Done] \in Nat /\ Bytes[Stored \ Done] \in Nat
      /\ Bytes[Done \cup InFlight] \in Nat /\ Bytes[(Stored \ Done) \cup Done] \in Nat
    BY <1>3, BytesNat
<1>8. (k + 1) * OneMove = k * OneMove + OneMove /\ k * OneMove \in Int
    BY <1>1
<1>9. QED
    BY <1>1, <1>2, <1>4, <1>5, <1>6, <1>7, <1>8 DEF Within

\* A failure adds two moves: the account of a step that owes no more than
\* before, of the end of a move, and of the end of a prune.
LEMMA Accounts ==
    ASSUME NEW u \in Nat, NEW v \in {u, u + 1}, NEW p \in 0..2, NEW q \in 0..2
    PROVE  /\ 2 * u - p \in Int /\ 2 * v - q \in Int
           /\ 2 * u + 1 - p \in Int /\ 2 * v + 1 - q \in Int
           /\ 2 * u - p + 1 \in Int /\ 2 * u - p + 1 = 2 * u + 1 - p
           /\ q <= p \/ v = u + 1 =>
                 2 * u - p <= 2 * v - q /\ 2 * u + 1 - p <= 2 * v + 1 - q
           /\ p = q => 2 * u - p + 1 <= 2 * v + 1 - q
           /\ p = q + 1 => 2 * u - p + 1 <= 2 * v - q
           /\ q <= 1 /\ v = u + 1 => 2 * u + 1 - p <= 2 * v - q
           /\ p = 1 => 2 * u - p <= 2 * v + 1 - q
           /\ p = 1 /\ q <= 1 => 2 * u - p <= 2 * v - q
           /\ q = 0 => 0 <= 2 * v - q
           /\ 2 * u + 1 - p <= 1 + 2 * u /\ 1 + 2 * u \in Int
OBVIOUS

LEMMA SpentTypes ==
    ASSUME NEW m \in Nat, NEW b \in 0..m, NEW c \in 0..m, c \in {b, b - 1}
    PROVE  /\ m - b \in Nat /\ m - c \in Nat /\ m - c \in {m - b, (m - b) + 1}
           /\ m - c = m - b <=> c = b
OBVIOUS

\* One failure at a time.
LEMMA SlackNumbers ==
    ASSUME TypeOK, [Next]_vars \/ Handover
    PROVE  /\ Used \in Nat /\ Used' \in Nat /\ Owed \in 0..2 /\ Owed' \in 0..2
           /\ Used' \in {Used, Used + 1}
           /\ Used' = Used <=> budget' = budget
<1>1. budget \in 0..MaxFaults /\ MaxFaults \in Nat
    BY FaultsAssumption DEF TypeOK, SpoolTypeOK
<1>2. budget' \in {budget, budget - 1}
    BY BudgetSpent DEF Handover, StartUpload, MoveReports, spoolVars
<1>3. budget' \in 0..MaxFaults
    BY NextTypes DEF Handover, StartUpload, MoveReports, spoolVars, TypeOK, SpoolTypeOK
<1>4. Owed \in 0..2
    BY DEF Owed
<1>5. Owed' \in 0..2
    BY DEF Owed
<1>6. Used = MaxFaults - budget /\ Used' = MaxFaults - budget'
    BY DEF Used
<1> HIDE DEF Used
<1>7. /\ Used \in Nat /\ Used' \in Nat /\ Used' \in {Used, Used + 1}
      /\ Used' = Used <=> budget' = budget
    BY <1>1, <1>2, <1>3, <1>6, SpentTypes
<1>9. QED
    BY <1>4, <1>5, <1>7

\* A step that adds nothing to the folder but what the move has done, in the
\* same part of the cycle.
LEMMA SlackKept ==
    ASSUME SomeLargest, TypeOK, SlackInv, [Next]_vars \/ Handover,
           stage' = "prune" <=> stage = "prune",
           stage = "prune" => Stored' \subseteq Stored,
           (Stored \ Done)' \subseteq Stored \ Done,
           Owed' <= Owed \/ Used' = Used + 1
    PROVE  SlackInv'
<1>1. /\ Used \in Nat /\ Used' \in Nat /\ Owed \in 0..2 /\ Owed' \in 0..2
      /\ Used' \in {Used, Used + 1}
    BY SlackNumbers
<1>2. /\ 2 * Used - Owed \in Int /\ 2 * Used' - Owed' \in Int
      /\ 2 * Used + 1 - Owed \in Int /\ 2 * Used' + 1 - Owed' \in Int
      /\ 2 * Used - Owed <= 2 * Used' - Owed'
      /\ 2 * Used + 1 - Owed <= 2 * Used' + 1 - Owed'
    BY <1>1, Accounts
<1>3. Stored \in SUBSET Segment /\ (Stored \ Done) \in SUBSET Segment
    BY DEF Stored
<1>4. CASE stage = "prune"
    <2>1. Within(Stored, 2 * Used + 1 - Owed)
        BY <1>4 DEF SlackInv
    <2>2. Within(Stored', 2 * Used' + 1 - Owed')
        BY <1>1, <1>2, <1>3, <1>4, <2>1, WithinMore
    <2>3. QED
        BY <1>4, <2>2 DEF SlackInv, Within
<1>5. CASE stage # "prune"
    <2>1. Within(Stored \ Done, 2 * Used - Owed)
        BY <1>5 DEF SlackInv
    <2>2. Within((Stored \ Done)', 2 * Used' - Owed')
        BY <1>1, <1>2, <1>3, <2>1, WithinMore
    <2>3. QED
        BY <1>5, <2>2 DEF SlackInv, Within
<1>6. QED
    BY <1>4, <1>5

\* Outside a move nothing is landed or denied.
LEMMA NothingDone ==
    ASSUME TypeOK, SafeInv, upc # "move"
    PROVE  Done = {} /\ In({"denied"}) = {}
BY DEF SafeInv, TransfersHaveSource, TypeOK, UploadTypeOK, Done, In

\* With the grant dead nothing lands, and with it alive nothing is denied.
LEMMA TransferOwes ==
    ASSUME TypeOK, SafeInv, Transfer, UNCHANGED stage, stage # "prune"
    PROVE  /\ (Stored \ Done)' \subseteq Stored \ Done
           /\ Owed' = Owed
<1>1. PICK s \in Segment :
         Check(s) \/ StartTransfer(s) \/ TransferLands(s) \/ TransferFails(s)
             \/ UnlinkSource(s) \/ SkipIdentical(s)
    BY DEF Transfer
<1> USE DEF TypeOK, SpoolTypeOK, UploadTypeOK, Done, In, Stored
<1>2. CASE Check(s) \/ StartTransfer(s)
    BY <1>2 DEF Check, StartTransfer, spoolVars, Owed
<1>3. CASE TransferLands(s)
    <2>1. (Stored \ Done)' \subseteq Stored \ Done
        BY <1>3, TransferSteps
    <2>2. QED
        BY <1>3, <2>1 DEF TransferLands, Owed
<1>4. CASE TransferFails(s)
    <2>1. (Stored \ Done)' \subseteq Stored \ Done /\ Done' = Done /\ auth' = auth
        BY <1>4 DEF TransferFails
    <2>2. auth => In({"denied"})' = In({"denied"})
        BY <1>4 DEF TransferFails
    <2>3. QED
        BY <2>1, <2>2 DEF Owed
<1>5. CASE UnlinkSource(s) \/ SkipIdentical(s)
    BY <1>5 DEF UnlinkSource, SkipIdentical, Owed
<1>6. QED
    BY <1>1, <1>2, <1>3, <1>4, <1>5

\* The prune either returns with the folder under the cap, or one more failure
\* kept it from it, or the grant was dead.
LEMMA PruneSlack ==
    ASSUME SomeLargest, BaseInv, StageInv, KeptInv, FolderMade, SlackInv,
           CleanInv, Prune \/ PruneRaises, [Next]_vars
    PROVE  SlackInv'
<1>0. /\ Used \in Nat /\ Used' \in Nat /\ Owed \in 0..2 /\ Owed' \in 0..2
      /\ Used' \in {Used, Used + 1} /\ (Used' = Used <=> budget' = budget)
    BY SlackNumbers DEF BaseInv
<1>1. /\ stage = "prune" /\ UNCHANGED <<xfer, auth>> /\ Stored' \subseteq Stored
      /\ stage' \in {"prune", "rest"}
    BY DEF Prune, PruneRaises, At, ListRemote, ListFails, DeleteRemote, DeleteFails,
           DeleteFromDrive, Stored
<1>2. Done = {} /\ Done' = {} /\ In({"denied"})' = {}
    BY <1>1, NothingDone DEF StageInv, BaseInv, Done, In
<1>3. CASE stage' = "prune"
    BY <1>1, <1>2, <1>3, SlackKept DEF BaseInv, Owed
<1>4. CASE stage' = "rest"
    <2>1. /\ Owed' = (IF auth THEN 0 ELSE 1) /\ Owed = (IF auth THEN 0 ELSE 2)
          /\ Stored' \ Done' = Stored' /\ Stored \in SUBSET Segment
        BY <1>1, <1>2, <1>4 DEF Owed, Stored
    <2>2. Within(Stored, 2 * Used + 1 - Owed)
        BY <1>1 DEF SlackInv
    <2>3. CASE Used' = Used + 1 \/ ~auth
        <3>1. (Owed' <= 1 /\ Used' = Used + 1) \/ Owed = Owed' + 1
            BY <2>1, <2>3
        <3>2. /\ 2 * Used + 1 - Owed <= 2 * Used' - Owed'
              /\ 2 * Used + 1 - Owed \in Int /\ 2 * Used' - Owed' \in Int
            BY <1>0, <3>1, Accounts
        <3>4. Within(Stored', 2 * Used' - Owed')
            BY <1>1, <2>1, <2>2, <3>2, WithinMore
        <3>5. QED
            BY <1>4, <2>1, <3>4 DEF SlackInv, Within
    <2>4. CASE budget' = budget /\ auth
        <3>1. Bytes[Stored'] <= MaxDriveBytes
            BY <1>4, <2>4, PruneFits DEF FolderMade
        <3>2. OneMove \in Nat /\ 0 * OneMove = 0 /\ MaxDriveBytes \in Nat
            BY OneMoveNat, ConfigAssumption
        <3>3. Within(Stored', 0)
            BY <3>1, <3>2 DEF Within
        <3>4. Stored' \in SUBSET Segment /\ Stored' \in SUBSET Stored'
            BY <1>1, <2>1
        <3>7. Owed' = 0
            BY <2>1, <2>4
        <3>8. 0 <= 2 * Used' - Owed' /\ 2 * Used' - Owed' \in Int
            BY <1>0, <3>7, Accounts
        <3>9. 0 \in Int
            OBVIOUS
        <3>5. Within(Stored', 2 * Used' - Owed')
            BY <3>3, <3>4, <3>8, <3>9, WithinMore
        <3>6. QED
            BY <1>4, <2>1, <3>5 DEF SlackInv, Within
    <2>5. QED
        BY <1>0, <2>3, <2>4
<1>5. QED
    BY <1>1, <1>3, <1>4

\* The end of a move: what it has done is in the folder for good.
LEMMA MoveEndSlack ==
    ASSUME SomeLargest, BaseInv, StageInv, FlightInv, SlackInv, stage # "prune",
           [Next]_vars \/ Handover,
           Stored' = Stored, Done' = {}, In({"denied"})' = {},
           \/ auth' = auth /\ stage' = "prune" /\ In({"denied"}) = {}
           \/ auth' = auth /\ stage' # "prune" /\ In({"denied"}) # {}
           \/ stage' # "prune" /\ Used' = Used + 1
    PROVE  SlackInv'
<1>0. /\ Used \in Nat /\ Used' \in Nat /\ Owed \in 0..2 /\ Owed' \in 0..2
      /\ Used' \in {Used, Used + 1}
    BY SlackNumbers DEF BaseInv
<1>1. Within(Stored \ Done, 2 * Used - Owed) /\ Stored \in SUBSET Segment
    BY DEF SlackInv, Stored
<1>2. /\ 2 * Used - Owed \in Int /\ 2 * Used - Owed + 1 \in Int
      /\ 2 * Used' - Owed' \in Int /\ 2 * Used' + 1 - Owed' \in Int
    BY <1>0, Accounts
<1>3. Within(Stored, 2 * Used - Owed + 1)
    BY <1>1, <1>2, WithinMove
<1>4. CASE stage' = "prune"
    <2>1. auth' = auth /\ In({"denied"}) = {} /\ Owed' = (IF auth THEN 0 ELSE 2)
        BY <1>4 DEF Owed
    <2>2. CASE Owed = 1
        <3>1. 2 * Used - Owed <= 2 * Used' + 1 - Owed'
            BY <1>0, <2>2, Accounts
        <3>2. Stored \ Done = Stored
            BY <2>1, <2>2 DEF Owed
        <3>3. Within(Stored', 2 * Used' + 1 - Owed')
            BY <1>1, <1>2, <3>1, <3>2, WithinMore
        <3>4. QED
            BY <1>4, <3>3 DEF SlackInv, Within
    <2>3. CASE Owed # 1
        <3>1. Owed = Owed'
            BY <2>1, <2>3 DEF Owed
        <3>2. 2 * Used - Owed + 1 <= 2 * Used' + 1 - Owed'
            BY <1>0, <3>1, Accounts
        <3>3. Within(Stored', 2 * Used' + 1 - Owed')
            BY <1>1, <1>2, <1>3, <3>2, WithinMore
        <3>4. QED
            BY <1>4, <3>3 DEF SlackInv, Within
    <2>4. QED
        BY <2>2, <2>3
<1>5. CASE stage' # "prune"
    <2>1. Owed' = (IF auth' THEN 0 ELSE 1) /\ Stored' \ Done' = Stored
        BY <1>5 DEF Owed
    <2>2. CASE ~auth /\ Done = {}
        <3>1. Owed = 1 /\ Stored \ Done = Stored /\ Owed' <= 1
            BY <2>1, <2>2 DEF Owed
        <3>2. 2 * Used - Owed <= 2 * Used' - Owed'
            BY <1>0, <3>1, Accounts
        <3>3. Within(Stored', 2 * Used' - Owed')
            BY <1>1, <1>2, <3>1, <3>2, WithinMore
        <3>4. QED
            BY <1>5, <2>1, <3>3 DEF SlackInv, Within
    <2>3. CASE auth \/ Done # {}
        <3>1. (Owed' <= 1 /\ Used' = Used + 1) \/ Owed = Owed' + 1
            BY <1>5, <2>1, <2>3 DEF Owed
        <3>2. 2 * Used - Owed + 1 <= 2 * Used' - Owed'
            BY <1>0, <3>1, Accounts
        <3>3. Within(Stored', 2 * Used' - Owed')
            BY <1>1, <1>2, <1>3, <3>2, WithinMore
        <3>4. QED
            BY <1>5, <2>1, <3>3 DEF SlackInv, Within
    <2>4. QED
        BY <2>2, <2>3
<1>6. QED
    BY <1>4, <1>5

LEMMA NextSlack ==
    ASSUME SomeLargest, BaseInv, StageInv, KeptInv, BoundInv, [BatchNext]_batchVars
    PROVE  SlackInv'
<1>0. [Next]_vars \/ Handover
    BY BatchSteps
<1>1. /\ TypeOK /\ SafeInv /\ SlackInv /\ FlightInv /\ FolderMade /\ CleanInv
      /\ auth \in BOOLEAN
    BY DEF BaseInv, BoundInv, TypeOK, SpoolTypeOK
<1>2. ASSUME UNCHANGED <<remote, xfer>>, stage' = "prune" <=> stage = "prune",
             auth' = auth \/ (~auth /\ auth') \/ Used' = Used + 1
      PROVE  SlackInv'
    <2>1. Stored' = Stored /\ Done' = Done /\ In({"denied"})' = In({"denied"})
        BY <1>2 DEF Stored, Done, In
    <2>2. Owed' <= Owed \/ Used' = Used + 1
        BY <1>2, <2>1 DEF Owed
    <2>3. QED
        BY <1>0, <1>1, <1>2, <2>1, <2>2, SlackKept
<1>3. CASE (Record \/ World \/ PurgeTrash \/ UNCHANGED batchVars) /\ UNCHANGED stage
    <2>1. CASE World /\ GrantDies
        <3>1. UNCHANGED <<remote, xfer>> /\ budget' # budget
            BY <2>1 DEF World, GrantDies, Fault, uploadVars, TypeOK, SpoolTypeOK
        <3>2. Used' = Used + 1
            BY <1>0, <1>1, <3>1, SlackNumbers
        <3>3. QED
            BY <1>2, <1>3, <3>1, <3>2
    <2>2. CASE ~(World /\ GrantDies)
        <3>1. UNCHANGED <<remote, xfer>> /\ (auth' = auth \/ (~auth /\ auth'))
            BY <1>3, <2>2 DEF Record, OpenSegment, CloseSegment, SettleSegment, GoQuiet,
               ResumeWriting, World, Reauthorize, GrowOlder, PurgeTrash,
               batchVars, vars, spoolVars, uploadVars
        <3>2. QED
            BY <1>2, <1>3, <3>1
    <2>3. QED
        BY <2>1, <2>2
<1>4. CASE StartCycle \/ CapSpool
    BY <1>2, <1>4 DEF StartCycle, CapSpool, PruneSpool, At, vars, spoolVars, uploadVars
<1>5. CASE EncryptStep \/ EncryptRaises \/ EncryptDone
    BY <1>2, <1>5 DEF EncryptStep, EncryptRaises, EncryptDone, EncryptSegment,
       PruneRawSpool, ListSegments, GpgMissing, SkipEncrypted, StartGpg,
       RenamePart, GpgFails, UnlinkPlaintext, PassRaises, PassDone, At,
       spoolVars, uploadVars
<1>6. CASE StartUpload
    <2>1. /\ UNCHANGED <<remote, xfer, auth>> /\ upc = "measure" /\ stage = "upload"
          /\ stage' \in {"upload", "prune"} /\ Stored' = Stored
        BY <1>6 DEF StartUpload, At, spoolVars, Stored
    <2>2. /\ Done = {} /\ In({"denied"}) = {} /\ Done' = {} /\ In({"denied"})' = {}
        BY <1>1, <2>1, NothingDone DEF Done, In
    <2>3. CASE stage' = "prune"
        BY <1>0, <1>1, <2>1, <2>2, <2>3, MoveEndSlack
    <2>4. CASE stage' = "upload"
        BY <1>2, <2>1, <2>4
    <2>5. QED
        BY <2>1, <2>3, <2>4
<1>7. CASE Move
    <2>0. stage = "upload" /\ stage' = "upload"
        BY <1>7 DEF Move, At
    <2>1. CASE StartMove
        <3>1. Done = {} /\ In({"denied"}) = {}
            BY <1>1, <2>1, NothingDone DEF StartMove
        <3>2. /\ Stored' = Stored /\ Done' = {} /\ In({"denied"})' = {}
              /\ auth' = auth
            BY <2>1 DEF StartMove, spoolVars, Stored, Done, In
        <3>3. Owed' = Owed
            BY <2>0, <3>1, <3>2 DEF Owed
        <3>4. Owed' <= Owed
            BY <1>0, <1>1, <3>3, SlackNumbers
        <3>5. QED
            BY <1>0, <1>1, <2>0, <3>1, <3>2, <3>4, SlackKept
    <2>2. CASE Transfer
        <3>1. (Stored \ Done)' \subseteq Stored \ Done /\ Owed' = Owed
            BY <1>1, <2>0, <2>2, TransferOwes
        <3>2. Owed' <= Owed
            BY <1>0, <1>1, <3>1, SlackNumbers
        <3>3. QED
            BY <1>0, <1>1, <2>0, <3>1, <3>2, SlackKept
    <2>3. QED
        BY <1>7, <2>1, <2>2 DEF Move
<1>8. CASE MoveReports
    <2>1. /\ Stored' = Stored /\ Done' = {} /\ In({"denied"})' = {} /\ auth' = auth
          /\ stage # "prune"
          /\ \/ stage' = "prune" /\ In({"denied"}) = {}
             \/ stage' # "prune" /\ In({"denied"}) # {}
        BY <1>8 DEF MoveReports, At, spoolVars, Stored, Done, In, NoMove
    <2>2. QED
        BY <1>0, <1>1, <2>1, MoveEndSlack
<1>9. CASE Prune \/ PruneRaises
    <2>1. [Next]_vars
        BY <1>9 DEF Prune, PruneRaises, Next, Upload, UploadNext
    <2>2. QED
        BY <1>1, <1>9, <2>1, PruneSlack
<1>10. CASE BatchCrash
    <2>1. /\ Stored' = Stored /\ Done' = {} /\ In({"denied"})' = {} /\ auth' = auth
          /\ stage' = "rest" /\ budget' # budget
        BY <1>1, <1>10 DEF BatchCrash, CrashRestart, UploadReset, NoMove, Fault, Stored,
           Done, In, TypeOK, SpoolTypeOK
    <2>2. Used' = Used + 1
        BY <1>0, <1>1, <2>1, SlackNumbers
    <2>3. CASE stage # "prune"
        BY <1>0, <1>1, <2>1, <2>2, <2>3, MoveEndSlack
    <2>4. CASE stage = "prune"
        <3>1. /\ Used \in Nat /\ Used' \in Nat /\ Owed \in 0..2 /\ Owed' \in 0..2
              /\ Used' \in {Used, Used + 1}
            BY <1>0, <1>1, SlackNumbers
        <3>6. Owed' <= 1 /\ Stored' \ Done' = Stored
            BY <2>1 DEF Owed
        <3>2. Within(Stored, 2 * Used + 1 - Owed) /\ Stored \in SUBSET Segment
            BY <1>1, <2>4 DEF SlackInv, Stored
        <3>3. /\ 2 * Used + 1 - Owed <= 2 * Used' - Owed'
              /\ 2 * Used + 1 - Owed \in Int /\ 2 * Used' - Owed' \in Int
            BY <2>2, <3>1, <3>6, Accounts
        <3>4. Within(Stored', 2 * Used' - Owed')
            BY <2>1, <3>2, <3>3, WithinMore
        <3>5. QED
            BY <2>1, <3>4, <3>6 DEF SlackInv, Within
    <2>5. QED
        BY <2>3, <2>4
<1>11. QED
    BY <1>3, <1>4, <1>5, <1>6, <1>7, <1>8, <1>9, <1>10 DEF BatchNext, RunBatch, batchVars

LEMMA NextBoundInv ==
    ASSUME SomeLargest
    PROVE  BaseInv /\ StageInv /\ KeptInv /\ BoundInv /\ [BatchNext]_batchVars
               => BoundInv'
<1> SUFFICES ASSUME BaseInv, StageInv, KeptInv, BoundInv, [BatchNext]_batchVars
             PROVE  BoundInv'
    OBVIOUS
<1>1. CASE [Next]_vars
    BY <1>1, NextFlight, NextClean, NextFolderMade, NextSlack DEF BaseInv, BoundInv
<1>2. CASE Handover
    <2>1. UNCHANGED spoolVars /\ xfer' = NoMove
        BY <1>2, HandoverLocal DEF BaseInv
    <2>2. CleanInv' /\ FolderMade'
        BY <2>1 DEF BoundInv, CleanInv, FolderMade, spoolVars, NoMove, In, Stored
    <2>3. QED
        BY <2>1, <2>2, NoMoveFlight, NextSlack DEF BoundInv
<1>3. QED
    BY <1>1, <1>2, BatchSteps

LEMMA InitBoundInv == SomeLargest /\ BatchInit => BoundInv
<1> SUFFICES ASSUME SomeLargest, BatchInit
             PROVE  BoundInv
    OBVIOUS
<1>1. /\ Stored = {} /\ InFlight = {} /\ Done = {} /\ In({"denied"}) = {} /\ auth
      /\ stage = "rest" /\ budget = MaxFaults /\ MaxFaults \in Nat
    BY FaultsAssumption
       DEF BatchInit, Init, SpoolInit, UploadInit, NoMove, Stored, InFlight, Done, In
<1>2. FlightInv
    BY <1>1, NoFlight DEF FlightInv
<1>7. Used = 0 /\ Owed = 0
    BY <1>1 DEF Used, Owed
<1>3. Bytes[{}] = 0 /\ Stored \ Done = {} /\ 2 * Used - Owed = 0
    BY <1>1, <1>7, BytesAdditive
<1>4. MaxDriveBytes \in Nat /\ 0 * OneMove = 0
    BY ConfigAssumption, OneMoveNat
<1>5. SlackInv
    BY <1>1, <1>3, <1>4 DEF SlackInv, Within
<1>6. QED
    BY <1>1, <1>2, <1>5 DEF BoundInv, CleanInv, FolderMade

LEMMA SlackBounds ==
    ASSUME SomeLargest, TypeOK, FlightInv, SlackInv
    PROVE  BatchBound
<1>1. Used \in Nat /\ Owed \in 0..2 /\ Stored \in SUBSET Segment
    BY FaultsAssumption DEF TypeOK, SpoolTypeOK, Used, Owed, Stored
<1>2. /\ 2 * Used - Owed \in Int /\ 2 * Used + 1 - Owed \in Int /\ 1 + 2 * Used \in Int
      /\ 2 * Used - Owed + 1 = 2 * Used + 1 - Owed /\ 2 * Used + 1 - Owed <= 1 + 2 * Used
    BY <1>1, Accounts
<1>3. Within(Stored, 2 * Used + 1 - Owed)
    <2>1. CASE stage = "prune"
        BY <2>1 DEF SlackInv
    <2>2. CASE stage # "prune"
        BY <1>2, <2>2, WithinMove DEF SlackInv
    <2>3. QED
        BY <2>1, <2>2
<1>4. Within(Stored, 1 + 2 * Used)
    BY <1>1, <1>2, <1>3, WithinMore
<1>5. QED
    BY <1>4 DEF Within, Used, BatchBound

\* Nothing gates the upload of batch-loop: the folder exceeds max_drive_bytes
\* by one slice and the transfers in flight while nothing fails, and by twice
\* as much again for every failure, of whatever kind and wherever it falls.
THEOREM BatchBounded ==
    ASSUME SomeLargest
    PROVE  BatchSpec => []BatchBound
<1>1. BatchInit => BoundInv
    BY InitBoundInv
<1>2. BaseInv /\ StageInv /\ KeptInv /\ BoundInv /\ [BatchNext]_batchVars => BoundInv'
    BY NextBoundInv
<1>3. BaseInv /\ BoundInv => BatchBound
    BY SlackBounds DEF BaseInv, BoundInv
<1>4. QED
    BY <1>1, <1>2, <1>3, BaseHolds, StagesHold, KeptHolds, PTL DEF BatchSpec

-----------------------------------------------------------------------------
(* What else `videobackup run` promises                                    *)

\* batch-loop takes no segment that ffmpeg has open either, if every source has
\* a read timeout.
THEOREM BatchOpenSegmentsSafe ==
    ASSUME UntimedSource = {}
    PROVE  BatchSpec => []OpenSegmentsKept
<1>1. BatchInit => TakenInv
    BY InitTaken DEF BatchInit
<1>2. BaseInv /\ TakenInv /\ [BatchNext]_batchVars => TakenInv'
    <2> SUFFICES ASSUME BaseInv, TakenInv, [BatchNext]_batchVars
                 PROVE  TakenInv'
        OBVIOUS
    <2>1. CASE Handover
        BY <2>1, HandoverLocal DEF BaseInv, TakenInv, NotClosed, spoolVars, encryptVars
    <2>2. QED
        BY <2>1, NextTaken, BatchSteps DEF BaseInv
<1>3. TakenInv => OpenSegmentsKept
    BY DEF TakenInv, OpenSegmentsKept, Open, NotClosed
<1>4. QED
    BY <1>1, <1>2, <1>3, BaseHolds, PTL DEF BatchSpec

\* What a retention pass of batch-loop deleted does not come back, without
\* crashes and failed unlinks.
THEOREM BatchDeletedForGood ==
    ASSUME Faults \cap {"crash", "unlink"} = {}
    PROVE  BatchSpec => []DeletedStaysDeleted
<1>1. BatchInit => TraceInv
    BY InitTrace DEF BatchInit
<1>2. BaseInv /\ TraceInv /\ [BatchNext]_batchVars => TraceInv'
    <2> SUFFICES ASSUME BaseInv, TraceInv, [BatchNext]_batchVars
                 PROVE  TraceInv'
        OBVIOUS
    <2>1. CASE Handover
        <3>1. UNCHANGED <<raw, spool, remote, gone, epc, cur>>
            BY <2>1, HandoverLocal DEF BaseInv, spoolVars, encryptVars
        <3>2. \A s \in Segment : xfer[s] # "landed"
            BY <2>1 DEF Handover, StartUpload, MoveReports, In, BaseInv, SafeInv,
                        TransfersHaveSource
        <3>3. Spooled \cap Stored = {}
            BY <3>2 DEF TraceInv, Spooled, Stored
        <3>4. QED
            BY <3>1, <3>3 DEF TraceInv, Spooled, Stored
    <2>2. QED
        BY <2>1, NextTrace, BatchSteps DEF BaseInv
<1>3. TraceInv => DeletedStaysDeleted
    BY DEF TraceInv, DeletedStaysDeleted
<1>4. QED
    BY <1>1, <1>2, <1>3, BaseHolds, PTL DEF BatchSpec

\* The prune of batch-loop deletes the oldest footage, whatever
\* upload_max_bytes is: it reserves nothing.
THEOREM BatchOldestGoFirst ==
    ASSUME "delete" \notin Faults
    PROVE  BatchSpec => OldestDeletedFirst
<1>1. BatchInit => OrderInv
    BY DEF BatchInit, Init, UploadInit, OrderInv
<1>2. BaseInv /\ StageInv /\ OrderInv /\ [BatchNext]_batchVars
          => OrderInv' /\ [OldestGo]_vars
    <2> SUFFICES ASSUME BaseInv, StageInv, OrderInv, [BatchNext]_batchVars
                 PROVE  OrderInv' /\ OldestGo
        OBVIOUS
    <2>1. CASE Handover
        <3>1. remote' = remote /\ upc' # "delete"
            BY <2>1, HandoverLocal DEF BaseInv, spoolVars
        <3>2. QED
            BY <3>1, ListingTypes DEF OrderInv, OldestGo, BaseInv
    <2>2. CASE [Next]_vars
        <3>1. reserve <= MaxDriveBytes
            BY ConfigAssumption DEF StageInv
        <3>2. QED
            BY <2>2, <3>1, NextOrder, StepOldest DEF BaseInv
    <2>3. QED
        BY <2>1, <2>2, BatchSteps
<1>3. QED
    BY <1>1, <1>2, BaseHolds, StagesHold, PTL
       DEF BatchSpec, OldestDeletedFirst, OldestGo

\* Its rclone takes the latest of the checked segments of a camera first, under
\* the same conditions as that of the upload thread.
THEOREM BatchLatestGoFirst ==
    ASSUME NamesInOrder, "gpg" \notin Faults
    PROVE  BatchSpec => CheckedLatestFirst
<1>1. BatchInit => LatestInv
    BY InitLatest DEF BatchInit
<1>2. BaseInv /\ LatestInv /\ [BatchNext]_batchVars => LatestInv' /\ [LatestGo]_vars
    <2> SUFFICES ASSUME BaseInv, LatestInv, [BatchNext]_batchVars
                 PROVE  LatestInv' /\ LatestGo
        OBVIOUS
    <2>1. CASE Handover
        <3>1. UNCHANGED <<seg, raw, spool, todo, cur>> /\ xfer' = NoMove
            BY <2>1, HandoverLocal DEF BaseInv, spoolVars, encryptVars
        <3>2. LatestInv'
            BY <3>1, NothingLater DEF BaseInv
        <3>3. QED
            BY <3>1, <3>2 DEF LatestGo, Starts, NoMove
    <2>2. QED
        BY <2>1, NextLatest, StepLatest, BatchSteps DEF BaseInv
<1>3. QED
    BY <1>1, <1>2, BaseHolds, PTL DEF BatchSpec, CheckedLatestFirst, LatestGo
=============================================================================
