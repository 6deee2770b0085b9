----------------------------- MODULE SelectLoop -----------------------------
(***************************************************************************)
(* retention.select_for_deletion as the code runs it: an age pass over the *)
(* listing sorted by modification time, then a loop that pops the oldest   *)
(* survivor while the running total is over the budget.  The listing and   *)
(* the limits are chosen in the initial state and never change.            *)
(***************************************************************************)
EXTENDS Retention

CONSTANTS
    MaxStamp,   \* largest modification time and cutoff of an input
    MaxBudget   \* largest byte budget of an input

ASSUME BoundsAssumption == MaxStamp \in Nat /\ MaxBudget \in Nat

VARIABLES
    files,       \* the listing
    mt,          \* the position of each file in the listing sorted by mod_time
    max_bytes,
    cutoff,      \* 0: no age limit
    to_delete,
    remaining,
    total,
    pc

inputs == <<files, mt, max_bytes, cutoff>>
vars == <<files, mt, max_bytes, cutoff, to_delete, remaining, total, pc>>

\* list.sort is total and stable: files with equal times keep the order of
\* the listing, so a position in the sorted list belongs to one file.
Distinct(f) == \A s, t \in DOMAIN f : s # t => f[s] # f[t]

TypeOK ==
    /\ files \subseteq Segment
    /\ mt \in [Segment -> 1..MaxStamp] /\ Distinct(mt)
    /\ max_bytes \in 0..MaxBudget
    /\ cutoff \in 0..MaxStamp
    /\ to_delete \subseteq Segment
    /\ remaining \subseteq Segment
    /\ total \in Int
    /\ pc \in {"age", "size", "done"}

Init ==
    /\ files \in SUBSET Segment
    /\ mt \in {f \in [Segment -> 1..MaxStamp] : Distinct(f)}
    /\ max_bytes \in 0..MaxBudget
    /\ cutoff \in 0..MaxStamp
    /\ to_delete = {}
    /\ remaining = {}
    /\ total = 0
    /\ pc = "age"

AgePassFullTotal ==   \* mutant: sums the sizes before the age cut
    /\ pc = "age"
    /\ to_delete' = {f \in files : mt[f] < cutoff}
    /\ remaining' = {f \in files : mt[f] >= cutoff}
    /\ total' = Bytes[files]
    /\ pc' = "size"
    /\ UNCHANGED inputs

AgePass ==
    /\ pc = "age"
    /\ to_delete' = {f \in files : mt[f] < cutoff}
    /\ remaining' = {f \in files : mt[f] >= cutoff}
    /\ total' = Bytes[remaining']
    /\ pc' = "size"
    /\ UNCHANGED inputs

PopAtBudget ==   \* mutant: >= for >
    /\ pc = "size"
    /\ total >= max_bytes
    /\ \E victim \in remaining :
          /\ \A f \in remaining : mt[victim] <= mt[f]
          /\ remaining' = remaining \ {victim}
          /\ to_delete' = to_delete \cup {victim}
          /\ total' = total - Size(victim)
    /\ UNCHANGED <<inputs, pc>>

PopOldest ==
    /\ pc = "size"
    /\ total > max_bytes
    /\ \E victim \in remaining :
          /\ \A f \in remaining : mt[victim] <= mt[f]
          /\ remaining' = remaining \ {victim}
          /\ to_delete' = to_delete \cup {victim}
          /\ total' = total - Size(victim)
    /\ UNCHANGED <<inputs, pc>>

ReturnAfterOne ==   \* mutant: an if where the code has a while
    /\ pc = "size"
    /\ total <= max_bytes \/ remaining = {} \/ to_delete # {}
    /\ pc' = "done"
    /\ UNCHANGED <<inputs, to_delete, remaining, total>>

ReturnVictims ==
    /\ pc = "size"
    /\ total <= max_bytes \/ remaining = {}
    /\ pc' = "done"
    /\ UNCHANGED <<inputs, to_delete, remaining, total>>

Next == AgePass \/ PopOldest \/ ReturnVictims

Spec == Init /\ [][Next]_vars

-----------------------------------------------------------------------------

\* What the loop knows at every turn: the running total is the size of what
\* is left, nothing left is older than something dropped, and each dropped
\* file had to go.
LoopInv ==
    pc \in {"size", "done"} =>
        /\ to_delete \cap remaining = {}
        /\ to_delete \cup remaining = files
        /\ total = Bytes[remaining]
        /\ AgeVictims(files, mt, cutoff) \subseteq to_delete
        /\ \A f \in to_delete, g \in remaining : mt[f] < mt[g]
        /\ \A f \in to_delete \ AgeVictims(files, mt, cutoff) :
               Bytes[NoOlder(files \ AgeVictims(files, mt, cutoff), mt, f)]
                   > max_bytes

\* The loop of select_for_deletion returns exactly the set that Retention
\* defines by a condition on each file: no file too many, none too few.
LoopSelects ==
    pc = "done" => to_delete = SelectForDeletion(files, mt, max_bytes, cutoff)

\* What select_for_deletion leaves behind fits the byte budget, always.
SurvivorsFit == pc = "done" => Bytes[files \ to_delete] <= max_bytes
=============================================================================
