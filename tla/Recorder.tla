------------------------------ MODULE Recorder ------------------------------
(***************************************************************************)
(* recorder.py: one thread per camera runs ffmpeg, watches that its file   *)
(* rolls over, kills it when it does not and starts it again; run_forever  *)
(* stops them one by one.  rpc = "wait" is _wait_with_watchdog between two *)
(* polls, and a poll that sees nothing changes nothing.  Times are not     *)
(* modelled: a wait may end at any moment after the step it waits for.     *)
(***************************************************************************)
EXTENDS Integers, Sequences, SequencesExt

CONSTANTS
    NCameras,    \* the cameras, in the order run_forever starts them
    Sees,        \* Sees[c]: the cameras d with files that match c's glob
    Big,         \* cameras whose file outgrows max_drive_bytes if it is stuck
    Untimed,     \* cameras read over http, without a read timeout
    MaxLeft,     \* how many closed files of a camera are followed (a bound)
    MaxFaults    \* how many failures one behaviour has (a bound)

Camera == 1..NCameras

ASSUME RecorderAssumption ==
    /\ NCameras \in Nat
    /\ Sees \in [Camera -> SUBSET Camera]
    /\ \A c \in Camera : c \in Sees[c]   \* a name is a prefix of itself
    /\ Big \subseteq Camera /\ Untimed \subseteq Camera
    /\ MaxLeft \in Nat \ {0} /\ MaxFaults \in Nat

VARIABLES
    rpc,     \* where each camera's thread is in _run
    stop,    \* its _stop event
    late,    \* history: it started ffmpeg although _stop was set
    proc,    \* its last ffmpeg
    seg,     \* the file that ffmpeg has open: it rolls over in time ("fresh"),
             \* it has stopped doing so ("stuck"), and for long ("stalled")
    linked,  \* that file is still in the directory
    silent,  \* its source keeps the connection open and sends nothing
    left,    \* the closed files in the directory, oldest first: those whose
             \* span is over the limit ("stalled") and the others ("short")
    mpc,     \* where the main thread is in run_forever
    at,      \* the camera whose stop() it is in
    budget   \* failures the environment may still produce

threadVars == <<rpc, late>>
procVars == <<proc, seg, linked, silent>>
mainVars == <<stop, mpc, at>>
vars == <<threadVars, procVars, left, mainVars, budget>>

Alive(c) == proc[c] \in {"connecting", "recording", "ending"}

TypeOK ==
    /\ rpc \in [Camera -> {"top", "spawn", "wait", "kill", "ended", "backoff", "done"}]
    /\ stop \in [Camera -> BOOLEAN]
    /\ late \in [Camera -> BOOLEAN]
    /\ proc \in [Camera -> {"none", "connecting", "recording", "ending", "exited"}]
    /\ seg \in [Camera -> {"none", "fresh", "stuck", "stalled"}]
    /\ linked \in [Camera -> BOOLEAN]
    /\ silent \in [Camera -> BOOLEAN]
    /\ left \in [Camera -> Seq({"short", "stalled"})]
    /\ mpc \in {"running", "set", "terminate", "join", "stopped"}
    /\ at \in 1..(NCameras + 1)
    /\ budget \in 0..MaxFaults

Init ==
    /\ rpc = [c \in Camera |-> "top"]
    /\ stop = [c \in Camera |-> FALSE]
    /\ late = [c \in Camera |-> FALSE]
    /\ proc = [c \in Camera |-> "none"]
    /\ seg = [c \in Camera |-> "none"]
    /\ linked = [c \in Camera |-> TRUE]
    /\ silent = [c \in Camera |-> FALSE]
    /\ left = [c \in Camera |-> <<>>]
    /\ mpc = "running"
    /\ at = 1
    /\ budget = MaxFaults

Fault == budget > 0 /\ budget' = budget - 1

-----------------------------------------------------------------------------
(* ffmpeg, and what the other stages do to its files                       *)

\* mtime - opened_at of the open file, against the limit.
Span(c) == IF seg[c] = "stalled" THEN "stalled" ELSE "short"

\* The open file is closed: the directory has one more, if it is still linked.
Older(c) == IF Len(left[c]) < MaxLeft THEN left[c] ELSE Tail(left[c])
UncappedLeft(c) == Append(Older(c), seg[c])   \* mutant: also when none is open
NewLeft(c) ==
    IF seg[c] = "none" \/ ~linked[c] THEN left[c] ELSE Append(Older(c), Span(c))

\* The source answers and the first packet opens a file.
Connect(c) ==
    /\ proc[c] = "connecting"
    /\ ~silent[c]
    /\ proc' = [proc EXCEPT ![c] = "recording"]
    /\ seg' = [seg EXCEPT ![c] = "fresh"]
    /\ linked' = [linked EXCEPT ![c] = TRUE]
    /\ UNCHANGED <<threadVars, silent, left, mainVars, budget>>

\* ffmpeg cuts; also out of a stall, when usable timestamps come back.
Rollover(c) ==
    /\ proc[c] = "recording"
    /\ ~silent[c]
    /\ left' = [left EXCEPT ![c] = NewLeft(c)]
    /\ seg' = [seg EXCEPT ![c] = "fresh"]
    /\ linked' = [linked EXCEPT ![c] = TRUE]
    /\ UNCHANGED <<threadVars, proc, silent, mainVars, budget>>

\* No usable timestamps: ffmpeg goes on writing the same file,
Stick(c) ==
    /\ seg[c] = "fresh"
    /\ ~silent[c]
    /\ Fault
    /\ seg' = [seg EXCEPT ![c] = "stuck"]
    /\ UNCHANGED <<threadVars, proc, linked, silent, left, mainVars>>

\* for five segment lengths of writing: in silence the span stays as it is.
Stall(c) ==
    /\ seg[c] = "stuck"
    /\ ~silent[c]
    /\ seg' = [seg EXCEPT ![c] = "stalled"]
    /\ UNCHANGED <<threadVars, proc, linked, silent, left, mainVars, budget>>

\* The source accepts the connection, or keeps it, and sends nothing: only the
\* rtsp command has a timeout for that, and fails (FfmpegFails).
GoSilent(c) ==
    /\ c \in Untimed
    /\ proc[c] \in {"connecting", "recording"}
    /\ ~silent[c]
    /\ Fault
    /\ silent' = [silent EXCEPT ![c] = TRUE]
    /\ UNCHANGED <<threadVars, proc, seg, linked, left, mainVars>>

SourceResumes(c) ==
    /\ silent[c]
    /\ silent' = [silent EXCEPT ![c] = FALSE]
    /\ UNCHANGED <<threadVars, proc, seg, linked, left, mainVars, budget>>

\* The process is gone and its file closed.
Exit(c) ==
    /\ proc' = [proc EXCEPT ![c] = "exited"]
    /\ left' = [left EXCEPT ![c] = NewLeft(c)]
    /\ seg' = [seg EXCEPT ![c] = "none"]
    /\ silent' = [silent EXCEPT ![c] = FALSE]

\* The source refuses, drops the connection or ends.
FfmpegFails(c) ==
    /\ proc[c] \in {"connecting", "recording"}
    /\ Fault
    /\ Exit(c)
    /\ UNCHANGED <<threadVars, linked, mainVars>>

\* SIGTERM: ffmpeg finishes its file and exits.
FfmpegEnds(c) ==
    /\ proc[c] = "ending"
    /\ Exit(c)
    /\ UNCHANGED <<threadVars, linked, mainVars, budget>>

\* The encrypt stage has encrypted a closed file and unlinks it.
RemoveClosed(c) ==
    /\ \E i \in DOMAIN left[c] : left' = [left EXCEPT ![c] = RemoveAt(@, i)]
    /\ UNCHANGED <<threadVars, procVars, mainVars, budget>>

\* prune_raw_spool unlinks a file that could never be stored, open or not, and
\* the encrypt stage a silent one, whose mtime has settled.
UnlinkOpen(c) ==
    /\ seg[c] # "none" /\ linked[c]
    /\ (c \in Big /\ seg[c] # "fresh") \/ silent[c]
    /\ linked' = [linked EXCEPT ![c] = FALSE]
    /\ UNCHANGED <<threadVars, proc, seg, silent, left, mainVars, budget>>

-----------------------------------------------------------------------------
(* CameraRecorder._run                                                     *)

Goto(c, pc) == rpc' = [rpc EXCEPT ![c] = pc]

\* while not self._stop.is_set()
Top(c) ==
    /\ rpc[c] = "top"
    /\ Goto(c, IF stop[c] THEN "done" ELSE "spawn")
    /\ UNCHANGED <<late, procVars, left, mainVars, budget>>

Spawn(c) ==
    /\ rpc[c] = "spawn"
    /\ proc' = [proc EXCEPT ![c] = "connecting"]
    /\ late' = [late EXCEPT ![c] = stop[c]]
    /\ Goto(c, "wait")
    /\ UNCHANGED <<seg, linked, silent, left, mainVars, budget>>

\* ffmpeg is no longer on PATH: the thread logs it and returns for good.
SpawnFails(c) ==
    /\ rpc[c] = "spawn"
    /\ Fault
    /\ Goto(c, "done")
    /\ UNCHANGED <<late, procVars, left, mainVars>>

\* proc.wait returns.
WaitReturns(c) ==
    /\ rpc[c] = "wait"
    /\ ~Alive(c)
    /\ Goto(c, "ended")
    /\ UNCHANGED <<late, procVars, left, mainVars, budget>>

PollEnding(c) ==   \* mutant: looks at _stop only if ffmpeg was told to end
    /\ rpc[c] = "wait"
    /\ proc[c] = "ending"
    /\ stop[c]
    /\ Goto(c, "ended")
    /\ UNCHANGED <<late, procVars, left, mainVars, budget>>

\* A poll finds ffmpeg running and _stop set: ffmpeg is left as it is.
PollStopped(c) ==
    /\ rpc[c] = "wait"
    /\ Alive(c)
    /\ stop[c]
    /\ Goto(c, "ended")
    /\ UNCHANGED <<late, procVars, left, mainVars, budget>>

\* What _stalled_segment may find newest.  A file that is written, is written
\* all the time, so one of those is, whichever camera wrote last; a silent one
\* or a file closed since is newest only when there is none.
OpenSeen(c) == {d \in Sees[c] : seg[d] # "none" /\ linked[d]}
ClosedSeen(c) == {d \in Sees[c] : left[d] # <<>>}
Written(c) == {d \in OpenSeen(c) : ~silent[d]}
ClosedNewest(c) == {Last(left[d]) : d \in ClosedSeen(c)}   \* mutant: skips the open file
Newest(c) ==
    IF Written(c) # {} THEN {Span(d) : d \in Written(c)}
    ELSE {Span(d) : d \in OpenSeen(c)}
         \cup {Last(left[d]) : d \in ClosedSeen(c) \ OpenSeen(c)}

PollStalled(c) ==
    /\ rpc[c] = "wait"
    /\ Alive(c)
    /\ ~stop[c]
    /\ "stalled" \in Newest(c)
    /\ Goto(c, "kill")
    /\ UNCHANGED <<late, procVars, left, mainVars, budget>>

\* proc.kill and the wait after it; nothing to kill if it has exited.
Kill(c) ==
    /\ rpc[c] = "kill"
    /\ \/ Alive(c) /\ Exit(c)
       \/ ~Alive(c) /\ UNCHANGED <<proc, seg, silent, left>>
    /\ Goto(c, "ended")
    /\ UNCHANGED <<late, linked, mainVars, budget>>

RestartsAtOnce(c) ==   \* mutant: neither the check of _stop nor the backoff
    /\ rpc[c] = "ended"
    /\ Goto(c, "spawn")
    /\ UNCHANGED <<late, procVars, left, mainVars, budget>>

Ended(c) ==
    /\ rpc[c] = "ended"
    /\ Goto(c, IF stop[c] THEN "done" ELSE "backoff")
    /\ UNCHANGED <<late, procVars, left, mainVars, budget>>

BackoffUntilStop(c) ==   \* mutant: self._stop.wait() without a time
    /\ rpc[c] = "backoff"
    /\ stop[c]
    /\ Goto(c, "done")
    /\ UNCHANGED <<late, procVars, left, mainVars, budget>>

\* self._stop.wait(backoff): the event, or the time.
Backoff(c) ==
    /\ rpc[c] = "backoff"
    /\ Goto(c, IF stop[c] THEN "done" ELSE "top")
    /\ UNCHANGED <<late, procVars, left, mainVars, budget>>

-----------------------------------------------------------------------------
(* Recorder.run_forever and CameraRecorder.stop                            *)

StopSignal ==
    /\ mpc = "running"
    /\ mpc' = IF at > NCameras THEN "stopped" ELSE "set"
    /\ UNCHANGED <<threadVars, procVars, left, stop, at, budget>>

SetStop ==
    /\ mpc = "set"
    /\ stop' = [stop EXCEPT ![at] = TRUE]
    /\ mpc' = "terminate"
    /\ UNCHANGED <<threadVars, procVars, left, at, budget>>

TerminateUnlessWaiting ==   \* mutant: no terminate if the thread is not waiting
    /\ mpc = "terminate"
    /\ proc' = IF proc[at] \in {"connecting", "recording"} /\ rpc[at] # "wait"
               THEN [proc EXCEPT ![at] = "ending"] ELSE proc
    /\ mpc' = "join"
    /\ UNCHANGED <<threadVars, seg, linked, silent, left, stop, at, budget>>

Terminate ==
    /\ mpc = "terminate"
    /\ proc' = IF proc[at] \in {"connecting", "recording"}
               THEN [proc EXCEPT ![at] = "ending"] ELSE proc
    /\ mpc' = "join"
    /\ UNCHANGED <<threadVars, seg, linked, silent, left, stop, at, budget>>

\* join(timeout=15) returns: the thread has ended, or the time is up.
Join ==
    /\ mpc = "join"
    /\ at' = at + 1
    /\ mpc' = IF at = NCameras THEN "stopped" ELSE "set"
    /\ UNCHANGED <<threadVars, procVars, left, stop, budget>>

-----------------------------------------------------------------------------

Ffmpeg(c) ==
    \/ Connect(c)
    \/ Rollover(c)
    \/ Stick(c)
    \/ Stall(c)
    \/ GoSilent(c)
    \/ SourceResumes(c)
    \/ FfmpegFails(c)
    \/ FfmpegEnds(c)
    \/ RemoveClosed(c)
    \/ UnlinkOpen(c)

Run(c) ==
    \/ Top(c)
    \/ Spawn(c)
    \/ SpawnFails(c)
    \/ WaitReturns(c)
    \/ PollStopped(c)
    \/ PollStalled(c)
    \/ Kill(c)
    \/ Ended(c)
    \/ Backoff(c)

Main == StopSignal \/ SetStop \/ Terminate \/ Join

Next == Main \/ \E c \in Camera : Ffmpeg(c) \/ Run(c)

Spec == Init /\ [][Next]_vars

\* The threads are scheduled and their waits are bounded.  ffmpeg exits when
\* it is told to; a source that neither fails nor is silent sends packets.
\* The encrypt stage gets round to every closed file.  Nothing makes ffmpeg
\* cut again once it is stuck, nor a silent source send again, nor anybody
\* send the stop signal.
FairSpec ==
    /\ Spec
    /\ \A c \in Camera :
          /\ WF_vars(Run(c))
          /\ WF_vars(Connect(c))
          /\ WF_vars(Stall(c))
          /\ WF_vars(FfmpegEnds(c))
          /\ WF_vars(RemoveClosed(c))
    /\ WF_vars(SetStop \/ Terminate \/ Join)

-----------------------------------------------------------------------------
(* Properties                                                              *)

\* Once stop() has dealt with a camera, its ffmpeg has been told to end, with
\* one exception: the thread may have passed its last check of _stop before
\* the event was set and start an ffmpeg that nobody terminates.  Its next
\* poll leaves that process running and the thread is done.
StopDone(c) == c < at \/ (c = at /\ mpc \in {"join", "stopped"})

OnlyLateSurvives ==
    \A c \in Camera : StopDone(c) =>
        \/ proc[c] \in {"none", "ending", "exited"}
        \/ late[c] /\ rpc[c] \in {"wait", "ended", "done"}

\* After stop() a camera's thread starts at most one more ffmpeg.
NoRestartAfterStop ==
    [][\A c \in Camera : late[c] => rpc'[c] # "spawn"]_vars

\* The cameras whose glob matches only their own files.
Own == {c \in Camera : Sees[c] = {c}}

Stuck(c) == seg[c] \in {"stuck", "stalled"}
Unlinked(c) == seg[c] # "none" /\ ~linked[c]

\* "this catches whatever we did not predict": a file that does not roll over
\* is closed in the end, unless it is unlinked under its ffmpeg or its source
\* falls silent.
StallEnds ==
    \A c \in Own :
        Stuck(c) ~> ~Stuck(c) \/ stop[c] \/ Unlinked(c) \/ silent[c]

\* The same of a file that is unlinked: retention.py:224-226 says of one that
\* prune_raw_spool unlinks "the recorder's stall watchdog is what ends that
\* case".
UnlinkedStallEnds ==
    \A c \in Own : Stuck(c) ~> ~Stuck(c) \/ stop[c] \/ silent[c]

\* Until it is stopped a camera records again after every failure and every
\* kill, also of an ffmpeg killed before it had a file to show for itself.
\* What can keep it from that for ever: ffmpeg gone from PATH, a file unlinked
\* under a stuck ffmpeg, an http source that stays silent, "a dead stream, which
\* ffmpeg's own timeouts handle" (recorder.py:62-63) only if it is rtsp.
RecordingResumes ==
    \A c \in Own :
        []<>(\/ seg[c] = "fresh" \/ stop[c]
             \/ rpc[c] = "done" \/ silent[c] \/ Unlinked(c))

\* The service stops when it is told to, whatever its threads are doing, and
\* with the stop event set every one of them ends by itself.
ShutdownEnds ==
    mpc # "running" ~> mpc = "stopped" /\ \A c \in Camera : rpc[c] = "done"
=============================================================================
