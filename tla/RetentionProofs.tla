--------------------------- MODULE RetentionProofs ---------------------------
(***************************************************************************)
(* Facts about the size measure and the pure operators of Retention.       *)
(***************************************************************************)
EXTENDS Retention, FiniteSetTheorems, TLAPS

\* The size of a set of segments is a natural number.
LEMMA BytesNat ==
    ASSUME NEW S \in SUBSET Segment
    PROVE  Bytes[S] \in Nat
BY BytesType

\* Taking a subset T out of a listing S subtracts its size.
LEMMA BytesMinus ==
    ASSUME NEW S \in SUBSET Segment, NEW T \in SUBSET S
    PROVE  Bytes[S \ T] = Bytes[S] - Bytes[T]
<1>1. /\ S \ T \in SUBSET Segment
      /\ T \in SUBSET Segment
      /\ (S \ T) \cap T = {}
      /\ (S \ T) \cup T = S
    OBVIOUS
<1>2. Bytes[S] = Bytes[S \ T] + Bytes[T]
    BY <1>1, BytesAdditive
<1>3. QED
    BY <1>1, <1>2, BytesNat

\* A listing weighs at least as much as any part of it.
LEMMA BytesMonotone ==
    ASSUME NEW S \in SUBSET Segment, NEW T \in SUBSET S
    PROVE  Bytes[T] <= Bytes[S]
<1>1. Bytes[S \ T] = Bytes[S] - Bytes[T]
    BY BytesMinus
<1>2. Bytes[S \ T] \in Nat /\ Bytes[S] \in Nat /\ Bytes[T] \in Nat
    BY BytesNat
<1>3. QED
    BY <1>1, <1>2

\* Two listings weigh at most the sum of their sizes together.
LEMMA BytesUnion ==
    ASSUME NEW S \in SUBSET Segment, NEW T \in SUBSET Segment
    PROVE  Bytes[S \cup T] <= Bytes[S] + Bytes[T]
<1>1. Bytes[S \cup (T \ S)] = Bytes[S] + Bytes[T \ S]
    BY BytesAdditive, S \cap (T \ S) = {}, T \ S \in SUBSET Segment
<1>2. Bytes[S \cup T] = Bytes[S] + Bytes[T \ S]
    BY <1>1, S \cup (T \ S) = S \cup T
<1>3. Bytes[T \ S] <= Bytes[T]
    BY BytesMonotone
<1>4. Bytes[S] \in Nat /\ Bytes[T] \in Nat /\ Bytes[T \ S] \in Nat
    BY BytesType
<1>5. QED
    BY <1>2, <1>3, <1>4

\* Only an empty listing weighs nothing.
LEMMA BytesZero ==
    ASSUME NEW S \in SUBSET Segment, Bytes[S] = 0
    PROVE  S = {}
<1>1. SUFFICES ASSUME NEW s \in S
               PROVE  FALSE
    OBVIOUS
<1>2. Bytes[{s}] <= Bytes[S]
    BY BytesMonotone
<1>3. Bytes[{s}] > 0 /\ Bytes[{s}] \in Nat
    BY BytesPositive, BytesNat
<1>4. QED
    BY <1>2, <1>3

-----------------------------------------------------------------------------
(* Selection                                                               *)

\* A set of times has an earliest one: the intervals below its members are
\* finite sets, and proper inclusion is well founded on those.
LEMMA EarliestTime ==
    ASSUME NEW T \in SUBSET Nat, T # {}
    PROVE  \E x \in T : \A y \in T : x <= y
<1> DEFINE Below == {1..x : x \in T}
<1>1. Below \subseteq FiniteSubsetsOf(Nat) /\ Below # {}
    <2>1. \A x \in T : 1..x \in SUBSET Nat /\ IsFiniteSet(1..x)
        BY FS_Interval
    <2>2. QED
        BY <2>1 DEF FiniteSubsetsOf
<1>2. \E B \in Below : \A C \in Below : <<C, B>> \notin StrictSubsetOrdering(Nat)
    <2> HIDE DEF Below
    <2>1. QED
        BY <1>1, FS_StrictSubsetOrderingWellFounded, WFMin, Zenon
<1>3. PICK x \in T : \A y \in T : <<1..y, 1..x>> \notin StrictSubsetOrdering(Nat)
    BY <1>2
<1>4. ASSUME NEW y \in T, y < x
      PROVE  FALSE
    <2>1. x \in 1..x /\ x \notin 1..y /\ 1..y \subseteq 1..x
        BY <1>4
    <2>2. <<1..y, 1..x>> \in StrictSubsetOrdering(Nat)
        BY <2>1 DEF StrictSubsetOrdering
    <2>3. QED
        BY <1>3, <2>2
<1>5. \A y \in T : x <= y
    BY <1>4
<1>6. QED
    BY <1>5

\* select_for_deletion leaves no more than the budget: everything left is as
\* new as the oldest survivor, which stays only if all of that fits.
LEMMA SelectionFits ==
    ASSUME NEW F \in SUBSET Segment, NEW mt \in [Segment -> Nat],
           NEW max_bytes \in Nat, NEW cutoff
    PROVE  Bytes[F \ SelectForDeletion(F, mt, max_bytes, cutoff)] <= max_bytes
<1> DEFINE fresh == F \ AgeVictims(F, mt, cutoff)
           kept  == F \ SelectForDeletion(F, mt, max_bytes, cutoff)
<1>1. kept = fresh \ SizeVictims(fresh, mt, max_bytes)
    BY DEF SelectForDeletion
<1>2. CASE kept = {}
    <2>1. Bytes[kept] = 0
        <3> HIDE DEF kept
        <3>1. QED
            BY <1>2, BytesAdditive
    <2>2. QED
        BY <2>1
<1>3. CASE kept # {}
    <2>1. PICK f \in kept : \A g \in kept : mt[f] <= mt[g]
        <3>1. {mt[g] : g \in kept} \in SUBSET Nat /\ {mt[g] : g \in kept} # {}
            BY <1>3, <1>1
        <3>2. PICK x \in {mt[g] : g \in kept} : \A y \in {mt[g] : g \in kept} : x <= y
            BY <3>1, EarliestTime
        <3>3. QED
            BY <3>2
    <2>2. kept \subseteq NoOlder(fresh, mt, f)
        BY <1>1, <2>1 DEF NoOlder
    <2>3. NoOlder(fresh, mt, f) \in SUBSET Segment
        BY DEF NoOlder
    <2>4. Bytes[NoOlder(fresh, mt, f)] <= max_bytes
        <3>1. f \in fresh /\ f \notin SizeVictims(fresh, mt, max_bytes)
            BY <1>1, <2>1
        <3>2. ~(Bytes[NoOlder(fresh, mt, f)] > max_bytes)
            <4> HIDE DEF fresh
            <4>1. QED
                BY <3>1 DEF SizeVictims
        <3>3. Bytes[NoOlder(fresh, mt, f)] \in Nat
            BY <2>3, BytesNat
        <3>4. QED
            <4> HIDE DEF fresh
            <4>1. QED
                BY <3>2, <3>3
    <2>5. Bytes[kept] <= Bytes[NoOlder(fresh, mt, f)]
        BY <2>2, <2>3, BytesMonotone
    <2>6. QED
        BY <2>3, <2>4, <2>5, BytesNat
<1>4. QED
    BY <1>2, <1>3

-----------------------------------------------------------------------------
(* The prune cap                                                           *)

\* Whatever the account reports, the cap leaves room for the reserve.
LEMMA PruneCapBound ==
    ASSUME NEW max_drive \in Nat, NEW reserve \in Nat, reserve <= max_drive,
           NEW folder \in Nat, NEW free \in Int \cup {NoReading},
           NEW min_free \in Nat
    PROVE  LET cap == EffectivePruneCap(max_drive, reserve, folder, free, min_free)
           IN  /\ cap \in Nat /\ cap <= max_drive - reserve
               /\ min_free = 0 => cap = max_drive - reserve
BY DEF EffectivePruneCap, MinOf, MaxOf

\* effective_prune_cap (the arithmetic of its comment, retention.py 105-107):
\* delete from the folder until it fits the cap, then upload at most the
\* reserve: the folder fits max_drive_bytes, and the account keeps
\* min_free_bytes free unless the folder had to be emptied.  The reserve must
\* not exceed the folder cap, which the configuration does not enforce.
THEOREM PruneCapIsAGate ==
    ASSUME NEW max_drive \in Nat, NEW reserve \in Nat, reserve <= max_drive,
           NEW folder \in Nat, NEW free \in Int, NEW min_free \in Nat,
           NEW kept \in Nat, kept <= folder,
           NEW uploaded \in Nat, uploaded <= reserve,
           kept <= EffectivePruneCap(max_drive, reserve, folder, free, min_free)
    PROVE  /\ kept + uploaded <= max_drive
           /\ min_free > 0 => \/ free + (folder - kept) - uploaded >= min_free
                              \/ kept = 0
<1>0. free # NoReading
    BY NoReadingAssumption
<1>1. MaxOf(0, reserve) = reserve
    BY DEF MaxOf
<1>2. MaxOf(0, max_drive - reserve) = max_drive - reserve
    BY DEF MaxOf
<1> DEFINE deficit == min_free - (free - reserve)
<1>3. CASE min_free > 0 /\ deficit > 0
    <2>1. EffectivePruneCap(max_drive, reserve, folder, free, min_free)
            = MinOf(max_drive - reserve, MaxOf(0, folder - deficit))
        BY <1>0, <1>1, <1>2, <1>3 DEF EffectivePruneCap
    <2>2. kept <= max_drive - reserve /\ kept <= MaxOf(0, folder - deficit)
        BY <2>1 DEF MinOf, MaxOf
    <2>3. QED
        BY <2>2 DEF MaxOf
<1>4. CASE ~(min_free > 0 /\ deficit > 0)
    <2>1. EffectivePruneCap(max_drive, reserve, folder, free, min_free)
            = max_drive - reserve
        BY <1>0, <1>1, <1>2, <1>4 DEF EffectivePruneCap
    <2>2. kept <= max_drive - reserve
        BY <2>1
    <2>3. QED
        BY <1>4, <2>2
<1>5. QED
    BY <1>3, <1>4
=============================================================================
