--------------------------- MODULE PipelineProofs ---------------------------
(***************************************************************************)
(* Type correctness of the running service, and the safety of the footage  *)
(* on its way from the raw spool to Drive, for any number of segments and  *)
(* cameras, any sizes and limits, and any sequence of failures and crashes.*)
(* Then what the encrypt thread takes and what it leaves behind: never a   *)
(* segment ffmpeg has open, if every camera has a read timeout, and no     *)
(* .gpg.part that outlives its plaintext.                                  *)
(***************************************************************************)
EXTENDS Pipeline, RetentionProofs

-----------------------------------------------------------------------------
(* Types                                                                   *)

\* One upload cycle may always transfer something.
LEMMA UploadSliceNat == UploadSlice \in Nat /\ UploadSlice > 0
<1>1. MaxDriveBytes \div 4 \in Nat
    BY ConfigAssumption
<1>2. QED
    BY <1>1, ConfigAssumption DEF UploadSlice, UploadSliceBytes, MaxOf

\* A selection is a part of the listing.
LEMMA SelectionSubset ==
    ASSUME NEW F, NEW mt, NEW max_bytes, NEW limit
    PROVE  SelectForDeletion(F, mt, max_bytes, limit) \subseteq F
BY DEF SelectForDeletion, SizeVictims, AgeVictims

LEMMA FaultBudget ==
    ASSUME NEW kind, budget \in 0..MaxFaults, Fault(kind)
    PROVE  budget' \in 0..MaxFaults
BY FaultsAssumption DEF Fault

LEMMA InitTypes == Init => TypeOK
BY ConfigAssumption, FaultsAssumption
   DEF Init, SpoolInit, EncryptInit, UploadInit, TypeOK, SpoolTypeOK,
       EncryptTypeOK, UploadTypeOK, SegStates, XferStates, NoMove

LEMMA RecordTypes == TypeOK /\ Record => TypeOK'
<1> SUFFICES ASSUME TypeOK, Record
             PROVE  TypeOK'
    OBVIOUS
<1> USE DEF TypeOK, SpoolTypeOK, EncryptTypeOK, UploadTypeOK, SegStates
<1>1. PICK s \in Segment :
         \/ /\ OpenSegment(s) \/ CloseSegment(s) \/ SettleSegment(s) \/ GoQuiet(s)
            /\ UNCHANGED <<encryptVars, uploadVars>>
         \/ /\ ResumeWriting(s)
            /\ TouchedAgain(s)
            /\ UNCHANGED <<epc, cur, uploadVars>>
    BY DEF Record
<1>2. CASE OpenSegment(s) /\ UNCHANGED <<encryptVars, uploadVars>>
    BY <1>2 DEF OpenSegment, encryptVars, uploadVars
<1>3. CASE CloseSegment(s) /\ UNCHANGED <<encryptVars, uploadVars>>
    BY <1>3 DEF CloseSegment, encryptVars, uploadVars
<1>4. CASE SettleSegment(s) /\ UNCHANGED <<encryptVars, uploadVars>>
    BY <1>4 DEF SettleSegment, encryptVars, uploadVars
<1>5. CASE GoQuiet(s) /\ UNCHANGED <<encryptVars, uploadVars>>
    BY <1>5 DEF GoQuiet, encryptVars, uploadVars
<1>6. CASE ResumeWriting(s) /\ TouchedAgain(s) /\ UNCHANGED <<epc, cur, uploadVars>>
    BY <1>6 DEF ResumeWriting, TouchedAgain, uploadVars
<1>7. QED
    BY <1>1, <1>2, <1>3, <1>4, <1>5, <1>6

LEMMA WorldTypes == TypeOK /\ World => TypeOK'
<1> SUFFICES ASSUME TypeOK, World
             PROVE  TypeOK'
    OBVIOUS
<1> USE DEF TypeOK, SpoolTypeOK, EncryptTypeOK, UploadTypeOK
<1>1. UNCHANGED <<encryptVars, uploadVars>>
    BY DEF World
<1>2. CASE GrantDies
    <2>1. budget' \in 0..MaxFaults
        BY <1>2, FaultBudget DEF GrantDies
    <2>2. auth' \in BOOLEAN
        BY <1>2 DEF GrantDies
    <2>3. QED
        BY <1>1, <1>2, <2>1, <2>2 DEF GrantDies, encryptVars, uploadVars
<1>3. CASE Reauthorize
    BY <1>1, <1>3 DEF Reauthorize, encryptVars, uploadVars
<1>4. CASE GrowOlder
    BY <1>1, <1>4 DEF GrowOlder, encryptVars, uploadVars
<1>5. QED
    BY <1>2, <1>3, <1>4 DEF World

LEMMA EncryptTypes == TypeOK /\ Encrypt => TypeOK'
<1> SUFFICES ASSUME TypeOK, Encrypt
             PROVE  TypeOK'
    OBVIOUS
<1> USE FaultsAssumption DEF TypeOK, SpoolTypeOK, EncryptTypeOK
<1>0. UploadTypeOK' /\ EncryptNext
    BY DEF Encrypt, uploadVars, UploadTypeOK
<1>1. CASE PruneRawSpool
    <2>1. PICK seen \in SUBSET SelectOversize(raw, MaxDriveBytes),
               failed \in UnlinkFails(SelectOversize(raw, MaxDriveBytes)) :
             /\ raw' = raw \ (seen \ failed)
             /\ gone' = gone \cup (seen \ failed)
             /\ Spend(failed)
        BY <1>1 DEF PruneRawSpool
    <2>2. seen \subseteq raw
        BY DEF SelectOversize
    <2>3. budget' \in 0..MaxFaults
        BY <2>1 DEF Spend, UnlinkFails
    <2>4. QED
        BY <1>0, <1>1, <2>1, <2>2, <2>3 DEF PruneRawSpool
<1>2. CASE ListSegments
    BY <1>0, <1>2 DEF ListSegments, spoolVars
<1>3. CASE GpgMissing
    BY <1>0, <1>3, FaultBudget DEF GpgMissing
<1>4. ASSUME NEW s \in Segment, SkipEncrypted(s)
      PROVE  TypeOK'
    BY <1>0, <1>4 DEF SkipEncrypted, Turn
<1>5. ASSUME NEW s \in Segment, StartGpg(s)
      PROVE  TypeOK'
    BY <1>0, <1>5 DEF StartGpg, Turn
<1>6. ASSUME NEW s \in Segment, RenamePart(s)
      PROVE  TypeOK'
    <2>1. clock' \in Nat /\ clock' = clock + 1 /\ 0..clock \subseteq 0..clock'
        BY <1>6 DEF RenamePart
    <2>2. spool' \in [Segment -> 0..clock'] /\ remote' \in [Segment -> 0..clock']
        BY <1>6, <2>1 DEF RenamePart
    <2>3. cutoff' \in 0..(clock' + 1)
        BY <1>6, <2>1 DEF RenamePart
    <2>4. QED
        BY <1>0, <1>6, <2>1, <2>2, <2>3 DEF RenamePart
<1>7. ASSUME NEW s \in Segment, GpgFails(s)
      PROVE  TypeOK'
    BY <1>0, <1>7, FaultBudget DEF GpgFails
<1>8. ASSUME NEW s \in Segment, UnlinkPlaintext(s)
      PROVE  TypeOK'
    BY <1>0, <1>8 DEF UnlinkPlaintext
<1>9. CASE PassRaises
    BY <1>0, <1>9, FaultBudget DEF PassRaises
<1>10. CASE PassDone
    BY <1>0, <1>10 DEF PassDone, spoolVars
<1>11. QED
    BY <1>0, <1>1, <1>2, <1>3, <1>4, <1>5, <1>6, <1>7, <1>8, <1>9, <1>10
       DEF EncryptNext, EncryptSegment

LEMMA UploadTypes == TypeOK /\ Upload => TypeOK'
<1> SUFFICES ASSUME TypeOK, Upload
             PROVE  TypeOK'
    OBVIOUS
<1> USE DEF TypeOK, SpoolTypeOK, UploadTypeOK, XferStates
<1>0. EncryptTypeOK' /\ (UploadNext \/ BatchIntervalPasses \/ PurgeTrash)
    BY DEF Upload, encryptVars, EncryptTypeOK
<1>1. CASE PruneSpool
    <2>1. spool' \in [Segment -> 0..clock]
        BY <1>1 DEF PruneSpool, SpoolWithout
    <2>2. gone' \subseteq Segment
        <3>1. SelectOversize(Spooled, MaxDriveBytes) \subseteq Segment
            BY DEF SelectOversize, Spooled
        <3>2. ASSUME NEW F \in SUBSET Segment
              PROVE  BacklogVictims(F) \subseteq Segment
            BY SelectionSubset DEF BacklogVictims
        <3>3. QED
            BY <1>1, <3>1, <3>2 DEF PruneSpool, Spooled
    <2>3. budget' \in 0..MaxFaults
        BY <1>1, FaultsAssumption DEF PruneSpool, UnlinkFails, Spend
    <2>4. QED
        BY <1>0, <1>1, <2>1, <2>2, <2>3 DEF PruneSpool
<1>2. CASE MeasurePending
    <2>1. PendingUploadBytes \in Nat
        BY BytesType DEF PendingUploadBytes, Spooled
    <2>2. ReserveBytes \in Nat
        BY <2>1, UploadSliceNat DEF ReserveBytes, MinOf
    <2>3. QED
        BY <1>0, <1>2, <2>2 DEF MeasurePending, spoolVars
<1>3. CASE IdlePrune
    BY <1>0, <1>3 DEF IdlePrune, spoolVars
<1>4. CASE IdlePoll
    BY <1>0, <1>4 DEF IdlePoll, spoolVars
<1>5. CASE ListRemote
    <2>1. budget' \in 0..MaxFaults
        BY <1>5, FaultBudget DEF ListRemote, AboutReading
    <2>2. victims' \subseteq Stored
        BY <1>5, SelectionSubset DEF ListRemote
    <2>3. victims' \subseteq Segment
        BY <2>2 DEF Stored
    <2>4. upc' \in {"delete", "upload", "prune_spool"} /\ due' \in BOOLEAN
        BY <1>5 DEF ListRemote, PruneReturns
    <2>5. QED
        BY <1>0, <1>5, <2>1, <2>3, <2>4 DEF ListRemote
<1>6. CASE ListFails
    <2>1. budget' \in 0..MaxFaults
        BY <1>6, FaultBudget DEF ListFails
    <2>2. QED
        BY <1>0, <1>6, <2>1 DEF ListFails
<1>7. ASSUME NEW D \in SUBSET Segment, DeleteFromDrive(D)
      PROVE  /\ remote' \in [Segment -> 0..clock]
             /\ gone' \subseteq Segment
             /\ trash' \in Nat
    <2>1. Bytes[D] \in Nat
        BY BytesType
    <2>2. trash' \in Nat
        BY <1>7, <2>1 DEF DeleteFromDrive
    <2>3. QED
        BY <1>7, <2>2 DEF DeleteFromDrive
<1>8. CASE DeleteRemote
    BY <1>0, <1>7, <1>8 DEF DeleteRemote, PruneReturns
<1>9. CASE DeleteFails
    <2>1. budget' \in 0..MaxFaults
        BY <1>9, FaultBudget DEF DeleteFails
    <2>2. \E D \in SUBSET Segment : DeleteFromDrive(D)
        BY <1>9 DEF DeleteFails
    <2>3. QED
        BY <1>0, <1>7, <1>9, <2>1, <2>2 DEF DeleteFails, PruneReturns
<1>10. CASE StartMove
    BY <1>0, <1>10 DEF StartMove, spoolVars
<1>11. ASSUME NEW s \in Segment, Check(s) \/ StartTransfer(s)
       PROVE  TypeOK'
    BY <1>0, <1>11 DEF Check, StartTransfer, spoolVars
<1>12. ASSUME NEW s \in Segment, TransferLands(s)
       PROVE  TypeOK'
    BY <1>0, <1>12 DEF TransferLands
<1>13. ASSUME NEW s \in Segment, TransferFails(s)
       PROVE  TypeOK'
    <2>1. budget' \in 0..MaxFaults
        BY <1>13, FaultBudget DEF TransferFails
    <2>2. QED
        BY <1>0, <1>13, <2>1 DEF TransferFails
<1>14. ASSUME NEW s \in Segment, UnlinkSource(s)
       PROVE  TypeOK'
    BY <1>0, <1>14 DEF UnlinkSource, SpoolWithout
<1>15. ASSUME NEW s \in Segment, SkipIdentical(s)
       PROVE  TypeOK'
    BY <1>0, <1>15 DEF SkipIdentical, SpoolWithout
<1>16. CASE MoveReturns
    BY <1>0, <1>16 DEF MoveReturns, NoMove, spoolVars
<1>17. CASE BatchIntervalPasses
    BY <1>0, <1>17 DEF BatchIntervalPasses, spoolVars
<1>18. CASE PurgeTrash
    BY <1>0, <1>18 DEF PurgeTrash, uploadVars
<1>19. QED
    BY <1>0, <1>1, <1>2, <1>3, <1>4, <1>5, <1>6, <1>8, <1>9, <1>10, <1>11,
       <1>12, <1>13, <1>14, <1>15, <1>16, <1>17, <1>18 DEF UploadNext, Transfer

LEMMA CrashTypes == TypeOK /\ CrashRestart => TypeOK'
BY FaultBudget
   DEF CrashRestart, EncryptReset, UploadReset, NoMove, TypeOK, SpoolTypeOK,
       EncryptTypeOK, UploadTypeOK, XferStates

LEMMA NextTypes == TypeOK /\ [Next]_vars => TypeOK'
<1>1. TypeOK /\ UNCHANGED vars => TypeOK'
    BY DEF vars, spoolVars, encryptVars, uploadVars, TypeOK, SpoolTypeOK,
           EncryptTypeOK, UploadTypeOK
<1>2. QED
    BY <1>1, RecordTypes, WorldTypes, EncryptTypes, UploadTypes, CrashTypes
       DEF Next

\* Every state of the running service is well typed.
THEOREM TypeCorrect == Spec => []TypeOK
BY InitTypes, NextTypes, PTL DEF Spec

-----------------------------------------------------------------------------
(* No footage is lost silently                                             *)

\* The inductive invariant: NoSilentLoss itself, why rclone's deletion of a
\* source is safe, why the encrypt thread's deletion of a plaintext is safe,
\* that gpg has no output in the spool while it runs, and that it works on
\* one segment.
SafeInv ==
    /\ NoSilentLoss
    /\ TransfersHaveSource
    /\ PlaintextSpare
    /\ epc = "gpg" => \A s \in cur : spool[s] = 0
    /\ \A s, t \in cur : s = t

LEMMA InitSafe == Init => SafeInv
BY DEF Init, SpoolInit, EncryptInit, UploadInit, NoMove, SafeInv, NoSilentLoss,
       Born, TransfersHaveSource, PlaintextSpare

\* Nothing but ffmpeg, the clock and the account moves.
LEMMA RecordSafe == TypeOK /\ SafeInv /\ Record => SafeInv'
<1> SUFFICES ASSUME TypeOK, SafeInv, Record
             PROVE  SafeInv'
    OBVIOUS
<1>1. /\ UNCHANGED <<spool, remote, gone, epc, cur, uploadVars>>
      /\ raw \subseteq raw'
      /\ \A s \in Segment : Born(s)' => Born(s) \/ s \in raw'
    <2> USE DEF TypeOK, SpoolTypeOK, Born, Open, encryptVars
    <2>1. PICK s \in Segment :
             \/ /\ OpenSegment(s) \/ CloseSegment(s) \/ SettleSegment(s) \/ GoQuiet(s)
                /\ UNCHANGED <<encryptVars, uploadVars>>
             \/ /\ ResumeWriting(s)
                /\ TouchedAgain(s)
                /\ UNCHANGED <<epc, cur, uploadVars>>
        BY DEF Record
    <2>2. CASE OpenSegment(s) /\ UNCHANGED <<encryptVars, uploadVars>>
        BY <2>2 DEF OpenSegment
    <2>3. CASE CloseSegment(s) /\ UNCHANGED <<encryptVars, uploadVars>>
        BY <2>3 DEF CloseSegment
    <2>4. CASE SettleSegment(s) /\ UNCHANGED <<encryptVars, uploadVars>>
        BY <2>4 DEF SettleSegment
    <2>5. CASE GoQuiet(s) /\ UNCHANGED <<encryptVars, uploadVars>>
        BY <2>5 DEF GoQuiet
    <2>6. CASE ResumeWriting(s) /\ UNCHANGED <<epc, cur, uploadVars>>
        BY <2>6 DEF ResumeWriting
    <2>7. QED
        BY <2>1, <2>2, <2>3, <2>4, <2>5, <2>6
<1>2. Spooled' = Spooled /\ Stored' = Stored
    BY <1>1 DEF Spooled, Stored
<1>3. NoSilentLoss'
    BY <1>1, <1>2 DEF SafeInv, NoSilentLoss
<1>4. TransfersHaveSource' /\ PlaintextSpare'
    BY <1>1, <1>2 DEF SafeInv, TransfersHaveSource, PlaintextSpare, uploadVars
<1>5. QED
    BY <1>1, <1>3, <1>4 DEF SafeInv

\* The steps of the encrypt thread that leave spool and Drive alone and only
\* take from the raw directory what is somewhere else.
LEMMA RawStepSafe ==
    ASSUME SafeInv,
           UNCHANGED <<seg, spool, remote, uploadVars>>,
           gone \subseteq gone',
           raw \subseteq raw' \cup Spooled \cup Stored \cup gone',
           epc' = "unlink" => epc = "unlink" /\ cur' \subseteq cur,
           epc' = "gpg" => \A s \in cur' : spool[s] = 0,
           \A s, t \in cur' : s = t
    PROVE  SafeInv'
<1>1. Spooled' = Spooled /\ Stored' = Stored
    BY DEF Spooled, Stored
<1>2. NoSilentLoss'
    BY <1>1 DEF SafeInv, NoSilentLoss, Born
<1>3. TransfersHaveSource'
    BY DEF SafeInv, TransfersHaveSource, uploadVars
<1>4. PlaintextSpare'
    BY <1>1 DEF SafeInv, PlaintextSpare
<1>5. QED
    BY <1>2, <1>3, <1>4 DEF SafeInv

LEMMA EncryptSafe == TypeOK /\ SafeInv /\ Encrypt => SafeInv'
<1> SUFFICES ASSUME TypeOK, SafeInv, Encrypt
             PROVE  SafeInv'
    OBVIOUS
<1>0. EncryptNext /\ UNCHANGED uploadVars
    BY DEF Encrypt
<1>1. CASE PruneRawSpool
    <2>1. gone \subseteq gone' /\ raw \subseteq raw' \cup gone'
        BY <1>1 DEF PruneRawSpool
    <2>2. QED
        BY <1>0, <1>1, <2>1, RawStepSafe DEF SafeInv, PruneRawSpool
<1>2. CASE ListSegments
    BY <1>0, <1>2, RawStepSafe DEF SafeInv, ListSegments, spoolVars
<1>3. CASE GpgMissing
    BY <1>0, <1>3, RawStepSafe DEF SafeInv, GpgMissing
<1>4. ASSUME NEW s \in Segment, SkipEncrypted(s)
      PROVE  SafeInv'
    <2>1. raw \subseteq raw' \cup Spooled
        BY <1>4 DEF SkipEncrypted, Spooled
    <2>2. QED
        BY <1>0, <1>4, <2>1, RawStepSafe DEF SafeInv, SkipEncrypted, Turn
<1>5. ASSUME NEW s \in Segment, StartGpg(s)
      PROVE  SafeInv'
    BY <1>0, <1>5, RawStepSafe DEF StartGpg
<1>6. ASSUME NEW s \in Segment, RenamePart(s)
      PROVE  SafeInv'
    <2>1. /\ Stored' = Stored
          /\ \A t \in Segment : t # s => spool'[t] = spool[t]
          /\ spool'[s] > 0
        BY <1>6 DEF RenamePart, Stored, TypeOK, SpoolTypeOK
    <2>2. Spooled \subseteq Spooled' /\ s \in Spooled'
        BY <2>1 DEF Spooled
    <2>3. NoSilentLoss'
        BY <1>6, <2>1, <2>2 DEF RenamePart, SafeInv, NoSilentLoss, Born
    <2>4. TransfersHaveSource'
        BY <1>0, <1>6, <2>1 DEF RenamePart, SafeInv, TransfersHaveSource, uploadVars
    <2>5. cur' = {s}
        BY <1>6 DEF RenamePart, SafeInv
    <2>6. PlaintextSpare'
        BY <2>2, <2>5 DEF PlaintextSpare
    <2>7. QED
        BY <1>6, <2>3, <2>4, <2>5, <2>6 DEF RenamePart, SafeInv
<1>7. ASSUME NEW s \in Segment, GpgFails(s)
      PROVE  SafeInv'
    BY <1>0, <1>7, RawStepSafe DEF SafeInv, GpgFails
<1>8. ASSUME NEW s \in Segment, UnlinkPlaintext(s)
      PROVE  SafeInv'
    <2>1. raw \subseteq raw' \cup Spooled \cup Stored \cup gone
        BY <1>8 DEF UnlinkPlaintext, SafeInv, PlaintextSpare
    <2>2. QED
        BY <1>0, <1>8, <2>1, RawStepSafe DEF SafeInv, UnlinkPlaintext
<1>9. CASE PassRaises
    BY <1>0, <1>9, RawStepSafe DEF SafeInv, PassRaises
<1>10. CASE PassDone
    BY <1>0, <1>10, RawStepSafe DEF SafeInv, PassDone, spoolVars
<1>11. QED
    BY <1>0, <1>1, <1>2, <1>3, <1>4, <1>5, <1>6, <1>7, <1>8, <1>9, <1>10
       DEF EncryptNext, EncryptSegment

\* The steps of the upload thread that touch neither spool nor Drive.
LEMMA LocalStepSafe ==
    ASSUME SafeInv,
           UNCHANGED <<seg, raw, spool, remote, gone, encryptVars>>,
           TransfersHaveSource'
    PROVE  SafeInv'
<1>1. Spooled' = Spooled /\ Stored' = Stored
    BY DEF Spooled, Stored
<1>2. NoSilentLoss' /\ PlaintextSpare'
    BY <1>1 DEF SafeInv, NoSilentLoss, Born, PlaintextSpare, encryptVars
<1>3. QED
    BY <1>2 DEF SafeInv, encryptVars

\* The steps that take files out of the spool or out of the folder: each is
\* on Drive, or was deleted by a retention pass.
LEMMA RemovalSafe ==
    ASSUME SafeInv,
           UNCHANGED <<seg, raw, encryptVars>>,
           Spooled \subseteq Spooled' \cup Stored' \cup gone',
           Stored \subseteq Stored' \cup gone',
           gone \subseteq gone',
           \A s \in Segment : spool[s] = 0 => spool'[s] = 0,
           cur \subseteq Segment,
           TransfersHaveSource'
    PROVE  SafeInv'
<1>1. NoSilentLoss'
    BY DEF SafeInv, NoSilentLoss, Born
<1>2. PlaintextSpare'
    BY DEF SafeInv, PlaintextSpare, encryptVars
<1>3. QED
    BY <1>1, <1>2 DEF SafeInv, encryptVars

LEMMA UploadSafe == TypeOK /\ SafeInv /\ Upload => SafeInv'
<1> SUFFICES ASSUME TypeOK, SafeInv, Upload
             PROVE  SafeInv'
    OBVIOUS
<1>0. /\ UNCHANGED encryptVars
      /\ UploadNext \/ BatchIntervalPasses \/ PurgeTrash
      /\ cur \subseteq Segment
      /\ spool \in [Segment -> 0..clock] /\ remote \in [Segment -> 0..clock]
      /\ xfer \in [Segment -> XferStates]
      /\ TransfersHaveSource
    BY DEF Upload, TypeOK, EncryptTypeOK, SpoolTypeOK, UploadTypeOK, SafeInv
<1>1. CASE PruneSpool
    <2>1. Spooled \subseteq Spooled' \cup gone'
        BY <1>0, <1>1 DEF PruneSpool, SpoolWithout, Spooled
    <2>2. /\ Stored' = Stored /\ gone \subseteq gone'
          /\ \A s \in Segment : spool[s] = 0 => spool'[s] = 0
        BY <1>1 DEF PruneSpool, SpoolWithout, Stored
    <2>3. TransfersHaveSource'
        BY <1>0, <1>1 DEF PruneSpool, TransfersHaveSource
    <2>4. QED
        BY <1>0, <1>1, <2>1, <2>2, <2>3, RemovalSafe DEF PruneSpool
<1>2. CASE MeasurePending \/ IdlePrune \/ IdlePoll \/ BatchIntervalPasses
    <2>1. TransfersHaveSource'
        BY <1>0, <1>2 DEF MeasurePending, IdlePrune, IdlePoll,
                          BatchIntervalPasses, TransfersHaveSource, spoolVars
    <2>2. QED
        BY <1>0, <1>2, <2>1, LocalStepSafe
           DEF MeasurePending, IdlePrune, IdlePoll, BatchIntervalPasses, spoolVars
<1>3. CASE ListRemote \/ ListFails \/ PurgeTrash
    <2>1. TransfersHaveSource'
        BY <1>0, <1>3 DEF ListRemote, ListFails, PurgeTrash, PruneReturns,
                          TransfersHaveSource, uploadVars
    <2>2. QED
        BY <1>0, <1>3, <2>1, LocalStepSafe DEF ListRemote, ListFails, PurgeTrash
<1>4. CASE DeleteRemote \/ DeleteFails
    <2>1. PICK D \in SUBSET Segment : DeleteFromDrive(D)
        BY <1>4 DEF DeleteRemote, DeleteFails, TypeOK, UploadTypeOK
    <2>2. Stored \subseteq Stored' \cup gone' /\ gone \subseteq gone'
        BY <2>1 DEF DeleteFromDrive, Stored
    <2>3. UNCHANGED <<seg, raw, spool, xfer>> /\ upc = "delete"
        BY <1>4 DEF DeleteRemote, DeleteFails
    <2>4. TransfersHaveSource'
        BY <1>0, <2>3 DEF TransfersHaveSource
    <2>5. Spooled' = Spooled
        BY <2>3 DEF Spooled
    <2>6. QED
        BY <1>0, <2>2, <2>3, <2>4, <2>5, RemovalSafe
<1>5. CASE StartMove
    <2>1. TransfersHaveSource'
        BY <1>0, <1>5 DEF StartMove, TransfersHaveSource, spoolVars
    <2>2. QED
        BY <1>0, <1>5, <2>1, LocalStepSafe DEF StartMove, spoolVars
<1>6. ASSUME NEW s \in Segment, Check(s) \/ StartTransfer(s) \/ TransferFails(s)
      PROVE  SafeInv'
    <2>1. TransfersHaveSource'
        BY <1>0, <1>6 DEF Check, StartTransfer, TransferFails, TransfersHaveSource, spoolVars
    <2>2. QED
        BY <1>0, <1>6, <2>1, LocalStepSafe DEF Check, StartTransfer, TransferFails, spoolVars
<1>7. ASSUME NEW s \in Segment, TransferLands(s)
      PROVE  SafeInv'
    <2>1. spool[s] > 0
        BY <1>0, <1>7 DEF TransferLands, TransfersHaveSource
    <2>2. Stored \subseteq Stored' /\ remote'[s] > 0
        BY <1>0, <1>7, <2>1 DEF TransferLands, Stored
    <2>3. TransfersHaveSource'
        BY <1>0, <1>7, <2>1, <2>2 DEF TransferLands, TransfersHaveSource
    <2>4. Spooled' = Spooled
        BY <1>7 DEF TransferLands, Spooled
    <2>5. QED
        BY <1>0, <1>7, <2>2, <2>3, <2>4, RemovalSafe DEF TransferLands
<1>8. ASSUME NEW s \in Segment, UnlinkSource(s) \/ SkipIdentical(s)
      PROVE  SafeInv'
    <2>1. remote[s] > 0
        BY <1>0, <1>8 DEF UnlinkSource, SkipIdentical, TransfersHaveSource
    <2>2. spool' = SpoolWithout({s}) /\ UNCHANGED <<seg, raw, remote, gone, upc>>
        BY <1>8 DEF UnlinkSource, SkipIdentical
    <2>3. Stored' = Stored /\ Spooled \subseteq Spooled' \cup Stored
        BY <2>1, <2>2 DEF SpoolWithout, Spooled, Stored
    <2>4. \A t \in Segment : spool[t] = 0 => spool'[t] = 0
        BY <2>2 DEF SpoolWithout
    <2>5. TransfersHaveSource'
        BY <1>0, <1>8, <2>2 DEF UnlinkSource, SkipIdentical, SpoolWithout,
                                TransfersHaveSource
    <2>6. QED
        BY <1>0, <2>2, <2>3, <2>4, <2>5, RemovalSafe
<1>9. CASE MoveReturns
    <2>1. TransfersHaveSource'
        BY <1>9 DEF MoveReturns, NoMove, TransfersHaveSource
    <2>2. QED
        BY <1>0, <1>9, <2>1, LocalStepSafe DEF MoveReturns, spoolVars
<1>10. QED
    BY <1>0, <1>1, <1>2, <1>3, <1>4, <1>5, <1>6, <1>7, <1>8, <1>9
       DEF UploadNext, Transfer

LEMMA WorldSafe == TypeOK /\ SafeInv /\ World => SafeInv'
<1> SUFFICES ASSUME SafeInv, World
             PROVE  SafeInv'
    OBVIOUS
<1>1. UNCHANGED <<seg, raw, spool, remote, gone, encryptVars, uploadVars>>
    BY DEF World, GrantDies, Reauthorize, GrowOlder
<1>2. TransfersHaveSource'
    BY <1>1 DEF SafeInv, TransfersHaveSource, uploadVars
<1>3. QED
    BY <1>1, <1>2, LocalStepSafe

\* A crash forgets what the threads were doing, and no file.
LEMMA CrashSafe == SafeInv /\ CrashRestart => SafeInv'
<1> SUFFICES ASSUME SafeInv, CrashRestart
             PROVE  SafeInv'
    OBVIOUS
<1>1. /\ UNCHANGED <<seg, raw, spool, remote, gone>>
      /\ epc' = "prune" /\ cur' = {} /\ xfer' = NoMove
    BY DEF CrashRestart, EncryptReset, UploadReset
<1>2. Spooled' = Spooled /\ Stored' = Stored
    BY <1>1 DEF Spooled, Stored
<1>3. NoSilentLoss'
    BY <1>1, <1>2 DEF SafeInv, NoSilentLoss, Born
<1>4. TransfersHaveSource' /\ PlaintextSpare'
    BY <1>1 DEF TransfersHaveSource, PlaintextSpare, NoMove
<1>5. QED
    BY <1>1, <1>3, <1>4 DEF SafeInv

LEMMA NextSafe == TypeOK /\ SafeInv /\ [Next]_vars => SafeInv'
<1>1. SafeInv /\ UNCHANGED vars => SafeInv'
    BY DEF vars, spoolVars, encryptVars, uploadVars, SafeInv, NoSilentLoss,
           TransfersHaveSource, PlaintextSpare, Born, Spooled, Stored
<1>2. QED
    BY <1>1, RecordSafe, WorldSafe, EncryptSafe, UploadSafe, CrashSafe DEF Next

THEOREM SafeInvariant == Spec => []SafeInv
BY TypeCorrect, InitSafe, NextSafe, PTL DEF Spec

\* No footage is lost silently: through every interleaving of the two threads,
\* rclone and the cameras, every failure and every crash, a recorded segment
\* is in one of the spools or on Drive, or a retention pass deleted it.
THEOREM FootageKept == Spec => []NoSilentLoss
<1>1. SafeInv => NoSilentLoss
    BY DEF SafeInv
<1>2. QED
    BY <1>1, SafeInvariant, PTL

\* A partial output of gpg is never in the spool for rclone to upload.
THEOREM PartialsHidden == Spec => []PartialNeverUploaded
<1>1. TypeOK /\ SafeInv => PartialNeverUploaded
    BY DEF TypeOK, EncryptTypeOK, SafeInv, TransfersHaveSource, PartialNeverUploaded
<1>2. QED
    BY <1>1, TypeCorrect, SafeInvariant, PTL

\* The upload thread leaves the raw directory to the encrypt thread, and adds
\* nothing to the encrypted spool.
LEMMA UploadFiles ==
    ASSUME TypeOK, Upload
    PROVE  /\ UNCHANGED <<seg, raw, part, epc, todo, cur>>
           /\ \A s \in Segment : spool'[s] \in {0, spool[s]}
<1>1. UNCHANGED <<epc, todo, cur>> /\ (UploadNext \/ BatchIntervalPasses \/ PurgeTrash)
    BY DEF Upload, encryptVars
<1>2. CASE UploadNext /\ ~Transfer
    BY <1>1, <1>2 DEF UploadNext, PruneSpool, MeasurePending, IdlePrune, IdlePoll,
       ListRemote, ListFails, DeleteRemote, DeleteFails, StartMove, MoveReturns,
       spoolVars, SpoolWithout
<1>3. CASE Transfer
    BY <1>1, <1>3 DEF Transfer, Check, StartTransfer, TransferLands, TransferFails,
       UnlinkSource, SkipIdentical, spoolVars, SpoolWithout
<1>4. CASE BatchIntervalPasses \/ PurgeTrash
    BY <1>1, <1>4 DEF BatchIntervalPasses, PurgeTrash, spoolVars
<1>5. QED
    BY <1>1, <1>2, <1>3, <1>4

-----------------------------------------------------------------------------
(* Open segments are left alone                                            *)

NotClosed(s) == seg[s] \in {"unborn", "writing", "quiet"}

\* OpenSegmentsKept is not inductive: the segment may be on the thread's list,
\* and one that is not recorded yet must not have been stored.
TakenInv ==
    /\ \A s \in Segment : seg[s] # "quiet"
    /\ \A s \in Segment : NotClosed(s) =>
           spool[s] = 0 /\ remote[s] = 0 /\ s \notin todo /\ s \notin cur

LEMMA InitTaken == Init => TakenInv
BY DEF Init, SpoolInit, EncryptInit, TakenInv, NotClosed

\* A step that reopens no segment and takes no new one.
LEMMA NoneTaken ==
    ASSUME TakenInv,
           \A s \in Segment : seg'[s] # "quiet",
           \A s \in Segment : NotClosed(s)' => NotClosed(s),
           \A s \in Segment : spool[s] = 0 /\ remote[s] = 0 =>
                                  spool'[s] = 0 /\ remote'[s] = 0,
           todo' \subseteq todo,
           cur' \subseteq cur
    PROVE  TakenInv'
BY DEF TakenInv

LEMMA RecordTaken ==
    ASSUME UntimedSource = {}, TypeOK, TakenInv, Record
    PROVE  TakenInv'
<1> USE DEF TypeOK, SpoolTypeOK, NotClosed, Open
<1>1. PICK s \in Segment :
         \/ /\ OpenSegment(s) \/ CloseSegment(s) \/ SettleSegment(s) \/ GoQuiet(s)
            /\ UNCHANGED <<encryptVars, uploadVars>>
         \/ /\ ResumeWriting(s)
            /\ TouchedAgain(s)
            /\ UNCHANGED <<epc, cur, uploadVars>>
    BY DEF Record
<1>2. ~GoQuiet(s) /\ ~ResumeWriting(s)
    BY DEF GoQuiet, ResumeWriting, TakenInv
<1>3. UNCHANGED <<spool, remote, todo, cur>>
    BY <1>1, <1>2 DEF OpenSegment, CloseSegment, SettleSegment, encryptVars
<1>4. /\ \A t \in Segment : seg'[t] # "quiet"
      /\ \A t \in Segment : NotClosed(t)' => NotClosed(t)
    <2>1. CASE OpenSegment(s)
        BY <2>1 DEF OpenSegment, TakenInv
    <2>2. CASE CloseSegment(s)
        BY <2>2 DEF CloseSegment, TakenInv
    <2>3. CASE SettleSegment(s)
        BY <2>3 DEF SettleSegment, TakenInv
    <2>4. QED
        BY <1>1, <1>2, <2>1, <2>2, <2>3
<1>5. QED
    BY <1>3, <1>4, NoneTaken

LEMMA EncryptTaken ==
    ASSUME TypeOK, TakenInv, Encrypt
    PROVE  TakenInv'
<1>0. EncryptNext /\ UNCHANGED uploadVars /\ spool \in [Segment -> 0..clock]
    BY DEF Encrypt, TypeOK, SpoolTypeOK
<1>1. CASE PruneRawSpool \/ GpgMissing \/ PassRaises \/ PassDone
    BY <1>1, NoneTaken
       DEF TakenInv, NotClosed, PruneRawSpool, GpgMissing, PassRaises,
           PassDone, spoolVars
<1>2. CASE ListSegments
    BY <1>2 DEF ListSegments, IsClosed, Settled, TakenInv, NotClosed, spoolVars
<1>3. ASSUME NEW s \in Segment,
             SkipEncrypted(s) \/ GpgFails(s) \/ UnlinkPlaintext(s)
      PROVE  TakenInv'
    BY <1>3, NoneTaken
       DEF TakenInv, NotClosed, SkipEncrypted, GpgFails, UnlinkPlaintext
<1>4. ASSUME NEW s \in Segment, StartGpg(s)
      PROVE  TakenInv'
    BY <1>4 DEF StartGpg, Turn, TakenInv, NotClosed
<1>5. ASSUME NEW s \in Segment, RenamePart(s)
      PROVE  TakenInv'
    BY <1>0, <1>5 DEF RenamePart, TakenInv, NotClosed
<1>6. QED
    BY <1>0, <1>1, <1>2, <1>3, <1>4, <1>5 DEF EncryptNext, EncryptSegment

LEMMA UploadTaken ==
    ASSUME TypeOK, SafeInv, TakenInv, Upload
    PROVE  TakenInv'
<1>0. /\ UNCHANGED encryptVars
      /\ UploadNext \/ BatchIntervalPasses \/ PurgeTrash
      /\ spool \in [Segment -> 0..clock] /\ remote \in [Segment -> 0..clock]
    BY DEF Upload, TypeOK, SpoolTypeOK
<1>1. seg' = seg /\ \A s \in Segment : spool[s] = 0 => spool'[s] = 0
    BY UploadFiles
<1>2. \A s \in Segment : spool[s] = 0 /\ remote[s] = 0 => remote'[s] = 0
    <2>1. ASSUME NEW t \in Segment, TransferLands(t)
          PROVE  \A s \in Segment : spool[s] = 0 /\ remote[s] = 0 => remote'[s] = 0
        BY <1>0, <2>1 DEF TransferLands
    <2>2. CASE DeleteRemote \/ DeleteFails
        BY <2>2 DEF DeleteRemote, DeleteFails, DeleteFromDrive
    <2>3. (\E t \in Segment : TransferLands(t)) \/ DeleteRemote \/ DeleteFails
              \/ remote' = remote
        BY <1>0 DEF UploadNext, Transfer, BatchIntervalPasses, PurgeTrash,
           PruneSpool, MeasurePending, IdlePrune, IdlePoll, ListRemote,
           ListFails, StartMove, Check, StartTransfer, TransferFails, UnlinkSource,
           SkipIdentical, MoveReturns, spoolVars
    <2>4. QED
        BY <2>1, <2>2, <2>3
<1>3. QED
    BY <1>0, <1>1, <1>2, NoneTaken DEF TakenInv, NotClosed, encryptVars

LEMMA NextTaken ==
    ASSUME UntimedSource = {}
    PROVE  TypeOK /\ SafeInv /\ TakenInv /\ [Next]_vars => TakenInv'
<1> SUFFICES ASSUME TypeOK, SafeInv, TakenInv, [Next]_vars
             PROVE  TakenInv'
    OBVIOUS
<1>1. CASE World
    BY <1>1, NoneTaken DEF World, GrantDies, Reauthorize, GrowOlder, TakenInv,
                           NotClosed, encryptVars
<1>2. CASE CrashRestart
    BY <1>2, NoneTaken DEF CrashRestart, EncryptReset, TakenInv, NotClosed
<1>3. CASE UNCHANGED vars
    BY <1>3, NoneTaken DEF vars, spoolVars, encryptVars, TakenInv, NotClosed
<1>4. QED
    BY <1>1, <1>2, <1>3, RecordTaken, EncryptTaken, UploadTaken DEF Next

\* The encrypt stage never takes a segment that ffmpeg is still writing, as
\* long as ffmpeg gives up on a silent source before the settle margin, which
\* the -timeout of rtsp sources ensures and http sources lack.
THEOREM OpenSegmentsSafe ==
    ASSUME UntimedSource = {}
    PROVE  Spec => []OpenSegmentsKept
<1>1. TakenInv => OpenSegmentsKept
    BY DEF TakenInv, OpenSegmentsKept, Open, NotClosed
<1>2. QED
    BY <1>1, InitTaken, NextTaken, TypeCorrect, SafeInvariant, PTL DEF Spec

-----------------------------------------------------------------------------
(* No .part without its plaintext                                          *)

\* What makes the two unlinks of plaintext safe for this: a segment that is
\* in the encrypted spool, or has just been renamed into it, has no .part, and
\* what is still on the list of a pass is still there.
PartInv ==
    /\ PartHasPlaintext
    /\ \A s \in part : spool[s] = 0
    /\ epc = "unlink" => cur \cap part = {}
    /\ epc \in {"loop", "gpg", "unlink"} => todo \subseteq raw
    /\ cur \cap todo = {}
    /\ epc \in {"prune", "scan", "loop"} => cur = {}

LEMMA InitPart == Init => PartInv
BY DEF Init, SpoolInit, EncryptInit, PartInv, PartHasPlaintext

\* A step that creates no .part, and removes no plaintext that has one.
LEMMA NoNewPart ==
    ASSUME PartInv,
           part' \subseteq part,
           \A s \in part' : s \in raw => s \in raw' \/ Size(s) > MaxDriveBytes,
           \A s \in part' : spool[s] = 0 => spool'[s] = 0,
           epc' = "unlink" => epc = "unlink",
           epc' \in {"loop", "gpg", "unlink"} => todo' \subseteq raw',
           epc' \in {"prune", "scan", "loop"} => cur' = {},
           cur' \subseteq cur,
           todo' \subseteq todo
    PROVE  PartInv'
<1>1. PartHasPlaintext'
    BY DEF PartInv, PartHasPlaintext
<1>2. QED
    BY <1>1 DEF PartInv

LEMMA RecordPart ==
    ASSUME PartInv, Record
    PROVE  PartInv'
<1>1. raw \subseteq raw' /\ todo' \subseteq todo /\ UNCHANGED <<part, spool, epc, cur>>
    BY DEF Record, OpenSegment, CloseSegment, SettleSegment, GoQuiet,
           ResumeWriting, TouchedAgain, encryptVars
<1>2. QED
    BY <1>1, NoNewPart DEF PartInv

LEMMA EncryptPart ==
    ASSUME TypeOK, SafeInv, PartInv, Encrypt
    PROVE  PartInv'
<1>0. EncryptNext /\ spool \in [Segment -> 0..clock] /\ part \subseteq Segment
    BY DEF Encrypt, TypeOK, SpoolTypeOK
<1>1. CASE PruneRawSpool
    <2>1. \A s \in raw : s \in raw' \/ Size(s) > MaxDriveBytes
        BY <1>1 DEF PruneRawSpool, SelectOversize
    <2>2. QED
        BY <1>1, <2>1, NoNewPart DEF PruneRawSpool, PartInv
<1>2. CASE ListSegments \/ GpgMissing \/ PassRaises \/ PassDone
    <2>1. CASE ListSegments
        BY <1>2, <2>1 DEF ListSegments, PartInv, PartHasPlaintext, spoolVars
    <2>2. QED
        BY <1>2, <2>1, NoNewPart DEF GpgMissing, PassRaises, PassDone, PartInv, spoolVars
<1>3. ASSUME NEW s \in Segment, SkipEncrypted(s)
      PROVE  PartInv'
    <2>1. s \notin part
        BY <1>3 DEF SkipEncrypted, PartInv
    <2>2. QED
        BY <1>3, <2>1, NoNewPart DEF SkipEncrypted, Turn, PartInv
<1>4. ASSUME NEW s \in Segment, StartGpg(s)
      PROVE  PartInv'
    BY <1>4 DEF StartGpg, Turn, PartInv, PartHasPlaintext
<1>5. ASSUME NEW s \in Segment, RenamePart(s)
      PROVE  PartInv'
    BY <1>0, <1>5 DEF RenamePart, SafeInv, PartInv, PartHasPlaintext
<1>6. ASSUME NEW s \in Segment, GpgFails(s)
      PROVE  PartInv'
    BY <1>6, NoNewPart DEF GpgFails, PartInv
<1>7. ASSUME NEW s \in Segment, UnlinkPlaintext(s)
      PROVE  PartInv'
    <2>1. s \notin part
        BY <1>7 DEF UnlinkPlaintext, PartInv
    <2>2. QED
        BY <1>7, <2>1, NoNewPart DEF UnlinkPlaintext, PartInv
<1>8. QED
    BY <1>0, <1>1, <1>2, <1>3, <1>4, <1>5, <1>6, <1>7 DEF EncryptNext, EncryptSegment

LEMMA UploadPart ==
    ASSUME TypeOK, SafeInv, PartInv, Upload
    PROVE  PartInv'
<1>1. UNCHANGED <<raw, part, epc, todo, cur>> /\ part \subseteq Segment
    BY UploadFiles DEF TypeOK, SpoolTypeOK
<1>2. \A s \in Segment : spool[s] = 0 => spool'[s] = 0
    BY UploadFiles
<1>3. QED
    BY <1>1, <1>2, NoNewPart DEF PartInv

LEMMA NextPart == TypeOK /\ SafeInv /\ PartInv /\ [Next]_vars => PartInv'
<1> SUFFICES ASSUME TypeOK, SafeInv, PartInv, [Next]_vars
             PROVE  PartInv'
    OBVIOUS
<1>1. CASE World
    BY <1>1, NoNewPart DEF World, GrantDies, Reauthorize, GrowOlder, PartInv,
                           encryptVars
<1>2. CASE CrashRestart
    BY <1>2, NoNewPart DEF CrashRestart, EncryptReset, PartInv
<1>3. CASE UNCHANGED vars
    BY <1>3, NoNewPart DEF vars, spoolVars, encryptVars, PartInv
<1>4. QED
    BY <1>1, <1>2, <1>3, RecordPart, EncryptPart, UploadPart DEF Next

\* A crash while gpg runs leaves a .gpg.part, and its plaintext with it: the
\* next pass overwrites the one and encrypts the other, unless prune_raw_spool
\* drops the plaintext as oversize.
THEOREM PartialsOwned == Spec => []PartHasPlaintext
<1>1. PartInv => PartHasPlaintext
    BY DEF PartInv
<1>2. QED
    BY <1>1, InitPart, NextPart, TypeCorrect, SafeInvariant, PTL DEF Spec
=============================================================================
