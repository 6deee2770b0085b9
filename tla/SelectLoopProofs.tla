-------------------------- MODULE SelectLoopProofs --------------------------
(***************************************************************************)
(* select_for_deletion returns what Retention says it does, for every      *)
(* listing, every order of modification times and every limit.             *)
(***************************************************************************)
EXTENDS SelectLoop, RetentionProofs

LEMMA TypeInit == Init => TypeOK
BY DEF Init, TypeOK

LEMMA TypeStep == TypeOK /\ [Next]_vars => TypeOK'
<1> SUFFICES ASSUME TypeOK, [Next]_vars
             PROVE  TypeOK'
    OBVIOUS
<1> USE DEF TypeOK, inputs
<1>1. CASE AgePass
    BY <1>1, BytesNat DEF AgePass
<1>2. CASE PopOldest
    <2>1. PICK victim \in remaining : total' = total - Size(victim)
                                   /\ to_delete' = to_delete \cup {victim}
                                   /\ remaining' = remaining \ {victim}
        BY <1>2 DEF PopOldest
    <2>2. Size(victim) \in Nat
        BY <2>1, BytesNat DEF Size
    <2>3. QED
        BY <1>2, <2>1, <2>2 DEF PopOldest
<1>3. CASE ReturnVictims
    BY <1>3 DEF ReturnVictims
<1>4. CASE UNCHANGED vars
    BY <1>4 DEF vars
<1>5. QED
    BY <1>1, <1>2, <1>3, <1>4 DEF Next

\* Every state of the loop is well typed.
THEOREM SelectLoopTypes == Spec => []TypeOK
BY TypeInit, TypeStep, PTL DEF Spec

LEMMA LoopStep == TypeOK /\ LoopInv /\ [Next]_vars => LoopInv'
<1> SUFFICES ASSUME TypeOK, LoopInv, [Next]_vars
             PROVE  LoopInv'
    OBVIOUS
<1> DEFINE aged == AgeVictims(files, mt, cutoff)
<1>0. /\ \A f \in Segment : mt[f] \in Nat
      /\ cutoff \in Nat /\ max_bytes \in Nat
      /\ files \in SUBSET Segment
    BY BoundsAssumption DEF TypeOK
<1>1. CASE AgePass
    BY <1>0, <1>1 DEF AgePass, LoopInv, inputs, AgeVictims
<1>2. CASE PopOldest
    <2>1. PICK victim \in remaining :
                /\ \A f \in remaining : mt[victim] <= mt[f]
                /\ remaining' = remaining \ {victim}
                /\ to_delete' = to_delete \cup {victim}
                /\ total' = total - Size(victim)
        BY <1>2 DEF PopOldest
    <2>2. pc = "size" /\ pc' = "size" /\ total > max_bytes /\ inputs' = inputs
        BY <1>2 DEF PopOldest
    <2>3. /\ to_delete \cap remaining = {}
          /\ to_delete \cup remaining = files
          /\ total = Bytes[remaining]
          /\ aged \subseteq to_delete
          /\ \A f \in to_delete, g \in remaining : mt[f] < mt[g]
          /\ \A f \in to_delete \ aged :
                Bytes[NoOlder(files \ aged, mt, f)] > max_bytes
        BY <2>2 DEF LoopInv
    <2>4. total' = Bytes[remaining']
        <3>1. remaining \in SUBSET Segment /\ {victim} \in SUBSET remaining
            BY <1>0, <2>3
        <3>2. QED
            BY <2>1, <2>3, <3>1, BytesMinus DEF Size
    <2>5. \A g \in remaining \ {victim} : mt[victim] < mt[g]
        <3>1. ASSUME NEW g \in remaining, g # victim
              PROVE  mt[victim] < mt[g]
            <4>1. mt[victim] <= mt[g] /\ mt[victim] # mt[g]
                BY <1>0, <2>1, <2>3, <3>1 DEF TypeOK, Distinct
            <4>2. mt[victim] \in Nat /\ mt[g] \in Nat
                BY <1>0, <2>3
            <4>3. QED
                BY <4>1, <4>2
        <3>2. QED
            BY <3>1
    <2>6. Bytes[NoOlder(files \ aged, mt, victim)] > max_bytes
        <3>1. NoOlder(files \ aged, mt, victim) = remaining
            <4>1. remaining \subseteq NoOlder(files \ aged, mt, victim)
                BY <1>0, <2>1, <2>3 DEF NoOlder
            <4>2. NoOlder(files \ aged, mt, victim) \subseteq remaining
                <5>1. ASSUME NEW g \in files, mt[g] >= mt[victim], g \notin remaining
                      PROVE  FALSE
                    <6>1. mt[g] < mt[victim]
                        BY <2>3, <5>1
                    <6>2. mt[g] \in Nat /\ mt[victim] \in Nat
                        BY <1>0, <2>3
                    <6>3. QED
                        BY <5>1, <6>1, <6>2
                <5>2. QED
                    BY <5>1 DEF NoOlder
            <4>3. QED
                BY <4>1, <4>2
        <3>2. QED
            BY <2>2, <2>3, <3>1
    <2>7. QED
        BY <2>1, <2>2, <2>3, <2>4, <2>5, <2>6 DEF LoopInv, inputs
<1>3. CASE ReturnVictims
    BY <1>3 DEF ReturnVictims, LoopInv, inputs
<1>4. CASE UNCHANGED vars
    BY <1>4 DEF vars, LoopInv
<1>5. QED
    BY <1>1, <1>2, <1>3, <1>4 DEF Next

\* The loop invariant holds at every turn of the loop.
THEOREM LoopInvHolds == Spec => []LoopInv
<1>1. Init => LoopInv
    BY DEF Init, LoopInv
<1>2. QED
    BY <1>1, SelectLoopTypes, LoopStep, PTL DEF Spec

\* The loop stops only when the survivors fit the budget.
LEMMA ExitStep ==
    TypeOK /\ LoopInv /\ SurvivorsFit /\ [Next]_vars => SurvivorsFit'
<1> SUFFICES ASSUME TypeOK, LoopInv, SurvivorsFit, [Next]_vars
             PROVE  SurvivorsFit'
    OBVIOUS
<1>1. CASE AgePass
    BY <1>1 DEF AgePass, SurvivorsFit
<1>2. CASE PopOldest
    BY <1>2 DEF PopOldest, SurvivorsFit
<1>3. CASE ReturnVictims
    <2>1. total = Bytes[remaining] /\ files \ to_delete = remaining
        BY <1>3 DEF ReturnVictims, LoopInv
    <2>2. remaining = {} => total <= max_bytes
        BY <2>1, BytesAdditive, BoundsAssumption DEF TypeOK
    <2>3. QED
        BY <1>3, <2>1, <2>2 DEF ReturnVictims, SurvivorsFit, inputs
<1>4. CASE UNCHANGED vars
    BY <1>4 DEF vars, SurvivorsFit
<1>5. QED
    BY <1>1, <1>2, <1>3, <1>4 DEF Next

\* What select_for_deletion leaves behind fits the byte budget, for every
\* listing and every budget.
THEOREM SurvivorsAlwaysFit == Spec => []SurvivorsFit
<1>1. Init => SurvivorsFit
    BY DEF Init, SurvivorsFit
<1>2. QED
    BY <1>1, SelectLoopTypes, LoopInvHolds, ExitStep, PTL DEF Spec

LEMMA InvImpliesSelection ==
    TypeOK /\ LoopInv /\ SurvivorsFit => LoopSelects
<1> SUFFICES ASSUME TypeOK, LoopInv, SurvivorsFit, pc = "done"
             PROVE  to_delete = SelectForDeletion(files, mt, max_bytes, cutoff)
    BY DEF LoopSelects
<1> DEFINE aged == AgeVictims(files, mt, cutoff)
           fresh == files \ aged
<1>0. /\ \A f \in Segment : mt[f] \in Nat
      /\ max_bytes \in Nat
      /\ files \in SUBSET Segment
    BY BoundsAssumption DEF TypeOK
<1>1. /\ to_delete \cup remaining = files
      /\ to_delete \cap remaining = {}
      /\ aged \subseteq to_delete
      /\ \A f \in to_delete, g \in remaining : mt[f] < mt[g]
      /\ \A f \in to_delete \ aged : Bytes[NoOlder(fresh, mt, f)] > max_bytes
    BY DEF LoopInv
<1>2. Bytes[remaining] <= max_bytes
    BY <1>1, files \ to_delete = remaining DEF SurvivorsFit
<1>3. ASSUME NEW f \in fresh, Bytes[NoOlder(fresh, mt, f)] > max_bytes,
             f \in remaining
      PROVE  FALSE
    <2>1. NoOlder(fresh, mt, f) \subseteq remaining
        <3>1. ASSUME NEW g \in files, mt[g] >= mt[f], g \in to_delete
              PROVE  FALSE
            <4>1. mt[g] < mt[f]
                BY <1>1, <1>3, <3>1
            <4>2. mt[g] \in Nat /\ mt[f] \in Nat
                BY <1>0
            <4>3. QED
                BY <3>1, <4>1, <4>2
        <3>2. QED
            BY <1>1, <3>1 DEF NoOlder
    <2>2. remaining \in SUBSET Segment
        BY <1>0, <1>1
    <2>3. Bytes[NoOlder(fresh, mt, f)] <= Bytes[remaining]
        BY <2>1, <2>2, BytesMonotone
    <2>4. /\ Bytes[remaining] \in Nat
          /\ Bytes[NoOlder(fresh, mt, f)] \in Nat
        BY <2>1, <2>2, BytesType
    <2>5. QED
        BY <1>0, <1>2, <1>3, <2>3, <2>4
<1>4. SizeVictims(fresh, mt, max_bytes) = to_delete \ aged
    BY <1>1, <1>3 DEF SizeVictims
<1>5. QED
    BY <1>1, <1>4 DEF SelectForDeletion

\* The loop of select_for_deletion returns exactly the set that Retention
\* defines file by file, for every listing and every pair of limits.
THEOREM LoopSelectsVictims == Spec => []LoopSelects
BY SelectLoopTypes, LoopInvHolds, SurvivorsAlwaysFit, InvImpliesSelection, PTL
=============================================================================
