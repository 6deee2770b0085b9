--------------------------- MODULE RecorderProofs ---------------------------
(***************************************************************************)
(* What stop() guarantees of a camera, and type correctness, for any       *)
(* number of cameras, failures and files.                                  *)
(***************************************************************************)
EXTENDS Recorder, TLAPS

\* The part of TypeOK that the argument needs.
ThreadTypes ==
    /\ stop \in [Camera -> BOOLEAN]
    /\ late \in [Camera -> BOOLEAN]
    /\ DOMAIN rpc = Camera
    /\ proc \in [Camera -> {"none", "connecting", "recording", "ending", "exited"}]
    /\ mpc \in {"running", "set", "terminate", "join", "stopped"}
    /\ at \in 1..(NCameras + 1)
    /\ mpc = "running" => at = 1
    /\ mpc \in {"set", "terminate", "join"} => at <= NCameras

\* stop() sets the event first; a thread that starts ffmpeg after that does not
\* reach the start again; and ffmpeg is told to end before stop() returns.
StopInv ==
    \A c \in Camera :
        /\ StopDone(c) \/ (c = at /\ mpc = "terminate") => stop[c]
        /\ late[c] => stop[c] /\ rpc[c] \in {"wait", "ended", "done"}
        /\ StopDone(c) => late[c] \/ proc[c] \in {"none", "ending", "exited"}

RecorderInv == ThreadTypes /\ StopInv

LEMMA InitRecorder == Init => RecorderInv
BY RecorderAssumption DEF Init, RecorderInv, ThreadTypes, StopInv, StopDone, Camera

\* ffmpeg and the other stages: an ffmpeg that is not running does not start.
LEMMA FfmpegRecorder ==
    ASSUME RecorderInv, NEW c \in Camera, Ffmpeg(c)
    PROVE  RecorderInv'
<1>1. /\ UNCHANGED <<threadVars, mainVars>>
      /\ proc' \in [Camera -> {"none", "connecting", "recording", "ending", "exited"}]
      /\ \A d \in Camera : proc[d] \in {"none", "ending", "exited"}
             => proc'[d] \in {"none", "ending", "exited"}
    BY DEF Ffmpeg, Connect, Rollover, Stick, Stall, GoSilent, SourceResumes, Exit,
           FfmpegFails, FfmpegEnds, RemoveClosed, UnlinkOpen, procVars, RecorderInv, ThreadTypes
<1>2. QED
    BY <1>1 DEF RecorderInv, ThreadTypes, StopInv, StopDone, threadVars, mainVars

LEMMA RunRecorder ==
    ASSUME RecorderInv, NEW c \in Camera, Run(c)
    PROVE  RecorderInv'
<1> USE DEF RecorderInv, ThreadTypes, StopInv, StopDone
<1>1. UNCHANGED mainVars
    BY DEF Run, Top, Spawn, SpawnFails, WaitReturns, PollStopped, PollStalled,
           Kill, Ended, Backoff
<1>2. CASE Spawn(c)
    BY <1>1, <1>2 DEF Spawn, Goto, mainVars
<1>3. CASE Kill(c)
    BY <1>1, <1>3 DEF Kill, Exit, Goto, mainVars
<1>4. CASE Top(c) \/ SpawnFails(c) \/ WaitReturns(c) \/ PollStopped(c)
           \/ PollStalled(c) \/ Ended(c) \/ Backoff(c)
    BY <1>1, <1>4 DEF Top, SpawnFails, WaitReturns, PollStopped, PollStalled,
       Ended, Backoff, Goto, mainVars, procVars
<1>5. QED
    BY <1>2, <1>3, <1>4 DEF Run

LEMMA MainRecorder == RecorderInv /\ Main => RecorderInv'
<1> SUFFICES ASSUME RecorderInv, Main
             PROVE  RecorderInv'
    OBVIOUS
<1> USE RecorderAssumption DEF RecorderInv, ThreadTypes, StopInv, StopDone, Camera
<1>1. CASE StopSignal
    BY <1>1 DEF StopSignal, threadVars, procVars
<1>2. CASE SetStop
    BY <1>2 DEF SetStop, threadVars, procVars
<1>3. CASE Terminate
    BY <1>3 DEF Terminate, threadVars
<1>4. CASE Join
    BY <1>4 DEF Join, threadVars, procVars
<1>5. QED
    BY <1>1, <1>2, <1>3, <1>4 DEF Main

LEMMA NextRecorder == RecorderInv /\ [Next]_vars => RecorderInv'
<1>1. RecorderInv /\ UNCHANGED vars => RecorderInv'
    BY DEF vars, threadVars, procVars, mainVars, RecorderInv, ThreadTypes,
           StopInv, StopDone
<1>2. QED
    BY <1>1, FfmpegRecorder, RunRecorder, MainRecorder DEF Next

THEOREM StopInvariant == Spec => []RecorderInv
BY InitRecorder, NextRecorder, PTL DEF Spec

\* When stop() returns, the camera's ffmpeg has been told to end, unless the
\* thread started it after the event was set.
THEOREM StopsFfmpeg == Spec => []OnlyLateSurvives
<1>1. RecorderInv => OnlyLateSurvives
    BY DEF RecorderInv, StopInv, OnlyLateSurvives
<1>2. QED
    BY <1>1, StopInvariant, PTL

\* That happens at most once: the same thread does not start ffmpeg again.
THEOREM StopsForGood == Spec => NoRestartAfterStop
<1> DEFINE Step == \A c \in Camera : late[c] => rpc'[c] # "spawn"
<1>1. RecorderInv /\ [Next]_vars => [Step]_vars
    <2> SUFFICES ASSUME RecorderInv, Next, NEW c \in Camera, late[c]
                 PROVE  rpc'[c] # "spawn"
        OBVIOUS
    <2>1. rpc[c] \in {"wait", "ended", "done"} /\ stop[c]
        BY DEF RecorderInv, StopInv
    <2>2. ASSUME NEW d \in Camera, Run(d)
          PROVE  rpc'[c] # "spawn"
        BY <2>1, <2>2 DEF RecorderInv, ThreadTypes, Run, Top, Spawn, SpawnFails,
           WaitReturns, PollStopped, PollStalled, Kill, Ended, Backoff, Goto
    <2>3. CASE rpc' = rpc
        BY <2>1, <2>3
    <2>4. QED
        BY <2>2, <2>3 DEF Next, Main, StopSignal, SetStop, Terminate, Join, Ffmpeg,
           Connect, Rollover, Stick, Stall, GoSilent, SourceResumes, FfmpegFails,
           FfmpegEnds, RemoveClosed, UnlinkOpen, threadVars
<1>2. QED
    BY <1>1, StopInvariant, PTL DEF Spec, NoRestartAfterStop

-----------------------------------------------------------------------------
(* Type correctness                                                        *)

Spans == {"short", "stalled"}

LEMMA NewLeftType ==
    ASSUME TypeOK, NEW c \in Camera
    PROVE  NewLeft(c) \in Seq(Spans)
<1>1. left[c] \in Seq(Spans) /\ Len(left[c]) \in Nat
    BY DEF TypeOK, Spans
<1>2. Older(c) \in Seq(Spans)
    <2>1. CASE Len(left[c]) < MaxLeft
        BY <1>1, <2>1 DEF Older
    <2>2. CASE ~(Len(left[c]) < MaxLeft)
        <3>1. left[c] # <<>>
            BY <1>1, <2>2, RecorderAssumption
        <3>2. QED
            BY <1>1, <2>2, <3>1 DEF Older
    <2>3. QED
        BY <2>1, <2>2
<1>3. Span(c) \in Spans
    BY DEF Span, Spans
<1>4. Append(Older(c), Span(c)) \in Seq(Spans)
    BY <1>2, <1>3
<1>5. QED
    BY <1>1, <1>4 DEF NewLeft

LEMMA LeftType ==
    ASSUME TypeOK, NEW c \in Camera, left' = [left EXCEPT ![c] = NewLeft(c)]
    PROVE  left' \in [Camera -> Seq(Spans)]
<1>1. left \in [Camera -> Seq(Spans)]
    BY DEF TypeOK, Spans
<1>2. QED
    BY <1>1, NewLeftType

LEMMA ExitTypes ==
    ASSUME TypeOK, NEW c \in Camera, Exit(c)
    PROVE  /\ proc' \in [Camera -> {"none", "connecting", "recording", "ending", "exited"}]
           /\ seg' \in [Camera -> {"none", "fresh", "stuck", "stalled"}]
           /\ silent' \in [Camera -> BOOLEAN]
           /\ left' \in [Camera -> Seq(Spans)]
<1>1. left' \in [Camera -> Seq(Spans)]
    BY LeftType DEF Exit
<1>2. QED
    BY <1>1 DEF Exit, TypeOK

LEMMA RemoveAtType ==
    ASSUME NEW S, NEW s \in Seq(S), NEW i \in DOMAIN s
    PROVE  RemoveAt(s, i) \in Seq(S)
<1>1. i \in 1..Len(s) /\ Len(s) \in Nat
    OBVIOUS
<1>2. SubSeq(s, 1, i - 1) \in Seq(S) /\ SubSeq(s, i + 1, Len(s)) \in Seq(S)
    BY <1>1
<1>3. QED
    BY <1>2 DEF RemoveAt

LEMMA FaultTypes == TypeOK /\ Fault => budget' \in 0..MaxFaults
BY RecorderAssumption DEF TypeOK, Fault

LEMMA FfmpegTypes ==
    ASSUME TypeOK, NEW c \in Camera, Ffmpeg(c)
    PROVE  TypeOK'
<1> USE DEF TypeOK, Spans
<1>1. CASE Connect(c) \/ Stall(c) \/ SourceResumes(c) \/ UnlinkOpen(c)
    BY <1>1 DEF Connect, Stall, SourceResumes, UnlinkOpen, threadVars, mainVars
<1>2. CASE Rollover(c)
    BY <1>2, LeftType DEF Rollover, threadVars, mainVars
<1>3. CASE Stick(c) \/ GoSilent(c)
    BY <1>3, FaultTypes DEF Stick, GoSilent, threadVars, mainVars
<1>4. CASE FfmpegFails(c)
    BY <1>4, FaultTypes, ExitTypes DEF FfmpegFails, threadVars, mainVars
<1>5. CASE FfmpegEnds(c)
    BY <1>5, ExitTypes DEF FfmpegEnds, threadVars, mainVars
<1>6. CASE RemoveClosed(c)
    <2>1. PICK i \in DOMAIN left[c] : left' = [left EXCEPT ![c] = RemoveAt(@, i)]
        BY <1>6 DEF RemoveClosed
    <2>2. RemoveAt(left[c], i) \in Seq(Spans)
        BY RemoveAtType
    <2>3. QED
        BY <1>6, <2>1, <2>2 DEF RemoveClosed, threadVars, procVars, mainVars
<1>7. QED
    BY <1>1, <1>2, <1>3, <1>4, <1>5, <1>6 DEF Ffmpeg

LEMMA RunTypes ==
    ASSUME TypeOK, NEW c \in Camera, Run(c)
    PROVE  TypeOK'
<1> USE DEF TypeOK, Goto, mainVars
<1>1. CASE Spawn(c)
    BY <1>1 DEF Spawn
<1>2. CASE SpawnFails(c)
    BY <1>2, FaultTypes DEF SpawnFails, procVars
<1>3. CASE Kill(c)
    BY <1>3, ExitTypes DEF Kill, Spans
<1>4. CASE Top(c) \/ WaitReturns(c) \/ PollStopped(c) \/ PollStalled(c)
           \/ Ended(c) \/ Backoff(c)
    BY <1>4 DEF Top, WaitReturns, PollStopped, PollStalled, Ended, Backoff, procVars
<1>5. QED
    BY <1>1, <1>2, <1>3, <1>4 DEF Run

LEMMA MainTypes ==
    ASSUME TypeOK, RecorderInv, Main
    PROVE  TypeOK'
<1>1. NCameras \in Nat /\ (mpc \in {"set", "terminate", "join"} => at \in 1..NCameras)
    BY RecorderAssumption DEF RecorderInv, ThreadTypes
<1> USE DEF TypeOK, threadVars
<1>2. CASE StopSignal \/ SetStop
    BY <1>1, <1>2 DEF StopSignal, SetStop, procVars, Camera
<1>3. CASE Terminate
    BY <1>1, <1>3 DEF Terminate, Camera
<1>4. CASE Join
    BY <1>1, <1>4 DEF Join, procVars
<1>5. QED
    BY <1>2, <1>3, <1>4 DEF Main

\* Every reachable state of the recorders is well typed; in particular the
\* main thread never goes past the last camera.
THEOREM RecorderTypes == Spec => []TypeOK
<1>1. Init => TypeOK
    BY RecorderAssumption DEF Init, TypeOK, Camera
<1>2. TypeOK /\ RecorderInv /\ [Next]_vars => TypeOK'
    <2>1. TypeOK /\ UNCHANGED vars => TypeOK'
        BY DEF TypeOK, vars, threadVars, procVars, mainVars
    <2>2. QED
        BY <2>1, FfmpegTypes, RunTypes, MainTypes DEF Next
<1>3. QED
    BY <1>1, <1>2, StopInvariant, PTL DEF Spec
=============================================================================
