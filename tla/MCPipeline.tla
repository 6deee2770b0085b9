----------------------------- MODULE MCPipeline -----------------------------
(* Small instances of Pipeline: a camera "a", whose files sort first, and  *)
(* a camera "b".  Odd segments are a's, even ones b's.                     *)
EXTENDS Pipeline, FiniteSetsExt

CONSTANTS
    MCSegment,
    MCUnit,         \* size of a segment
    MCBigSegments,  \* these are larger,
    MCExtra,        \* by so much
    MCUntimed

MCSource == [s \in MCSegment |-> IF s % 2 = 1 THEN "a" ELSE "b"]
MCNameRank == [s \in MCSegment |-> IF s % 2 = 1 THEN s ELSE 100 + s]
MCSize(s) == IF s \in MCBigSegments THEN MCUnit + MCExtra ELSE MCUnit
MCBytes == [S \in SUBSET MCSegment |-> MapThenSumSet(MCSize, S)]
=============================================================================
