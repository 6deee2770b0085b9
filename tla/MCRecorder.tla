----------------------------- MODULE MCRecorder -----------------------------
(* Small instances of Recorder.  With two cameras, the name of the first   *)
(* ("front") is a prefix of that of the second ("front_door").             *)
EXTENDS Recorder

MCSees == [c \in Camera |-> IF c = 1 THEN Camera ELSE {c}]
=============================================================================
