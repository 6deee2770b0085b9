---------------------------- MODULE MCSelectLoop ----------------------------
(* Four files of sizes 1, 2, 2 and 3, every order of modification times,   *)
(* every budget from 0 to their sum and every age limit.                   *)
EXTENDS SelectLoop, FiniteSetsExt

MCSize == <<1, 2, 2, 3>>
MCSegment == 1..4
MCBytes == [S \in SUBSET MCSegment |-> MapThenSumSet(LAMBDA s : MCSize[s], S)]
=============================================================================
