------------------------------- MODULE Viewer -------------------------------
(***************************************************************************)
(* viewer.py: each clip is decrypted to a temporary file by a thread of    *)
(* its own, which posts a callback to the Tk main loop; the callback plays *)
(* the file in mpv.  The window can close, and another clip can be opened, *)
(* at any point of that.  Every clip is opened once.                       *)
(***************************************************************************)
EXTENDS Integers, Sequences

CONSTANTS
    Clip,
    NoClip,      \* self._tmp is None
    MaxFaults    \* failures of mkstemp and unlink in one behaviour (a bound)

ASSUME ViewerAssumption == NoClip \notin Clip /\ MaxFaults \in Nat

VARIABLES
    win,      \* the window is "open" or "closed"; the process ends with it
    mpv,      \* what _ensure_player does: it "works", raises RuntimeError
              \* ("missing"), or raises anything else ("broken")
    phase,    \* how far each clip is on its way to the player
    file,     \* its temporary file; "plain" once gpg has written to it
    queue,    \* callbacks the main loop has not run yet
    tmp,      \* self._tmp
    playing,  \* the clip mpv has been told to play
    starting, \* the clip whose _play has discarded the last one and has not
              \* called player.play yet; the main thread does nothing else then
    dialogs,  \* "mpv unavailable" boxes on the screen, each in a nested loop
    stuck,    \* history: files whose unlink failed
    budget    \* failures the environment may still produce

player == <<playing, starting>>
vars == <<win, mpv, phase, file, queue, tmp, player, dialogs, stuck, budget>>

Callback == [clip : Clip, ok : BOOLEAN]

TypeOK ==
    /\ win \in {"open", "closed"}
    /\ mpv \in {"works", "missing", "broken"}
    /\ phase \in [Clip -> {"idle", "started", "gpg", "posted", "handled", "lost"}]
    /\ file \in [Clip -> {"none", "empty", "plain"}]
    /\ queue \in Seq(Callback)
    /\ tmp \in Clip \cup {NoClip}
    /\ playing \in Clip \cup {NoClip}
    /\ starting \in Clip \cup {NoClip}
    /\ dialogs \in Nat
    /\ stuck \subseteq Clip
    /\ budget \in 0..MaxFaults

Init ==
    /\ win = "open"
    /\ mpv \in {"works", "missing", "broken"}
    /\ phase = [c \in Clip |-> "idle"]
    /\ file = [c \in Clip |-> "none"]
    /\ queue = <<>>
    /\ tmp = NoClip
    /\ playing = NoClip
    /\ starting = NoClip
    /\ dialogs = 0
    /\ stuck = {}
    /\ budget = MaxFaults

Fault == budget > 0 /\ budget' = budget - 1

-----------------------------------------------------------------------------
(* The worker thread: _decrypt_worker and decrypt_to_temp                  *)

Open == win = "open"
MainFree == Open /\ starting = NoClip

\* load: the button works unless an error box has the grab.
Load(c) ==
    /\ MainFree
    /\ dialogs = 0
    /\ phase[c] = "idle"
    /\ phase' = [phase EXCEPT ![c] = "started"]
    /\ UNCHANGED <<win, mpv, file, queue, tmp, player, dialogs, stuck, budget>>

PostUnbound(c, success) ==   \* mutant: the lambda reads exc after its block
    /\ phase' = [phase EXCEPT ![c] = "posted"]
    /\ queue' = Append(queue, [clip |-> IF success THEN c ELSE NoClip, ok |-> success])

Post(c, success) ==
    /\ phase' = [phase EXCEPT ![c] = "posted"]
    /\ queue' = Append(queue, [clip |-> c, ok |-> success])

MakeTemp(c) ==
    /\ Open
    /\ phase[c] = "started"
    /\ \/ /\ phase' = [phase EXCEPT ![c] = "gpg"]
          /\ file' = [file EXCEPT ![c] = "empty"]
          /\ UNCHANGED <<queue, budget>>
       \/ Fault /\ Post(c, FALSE) /\ UNCHANGED file
    /\ UNCHANGED <<win, mpv, tmp, player, dialogs, stuck>>

\* gpg is a process of its own: it goes on when the viewer has ended.
GpgWrites(c) ==
    /\ phase[c] = "gpg"
    /\ file[c] = "empty"
    /\ file' = [file EXCEPT ![c] = "plain"]
    /\ UNCHANGED <<win, mpv, phase, queue, tmp, player, dialogs, stuck, budget>>

GpgSucceeds(c) ==
    /\ Open
    /\ phase[c] = "gpg"
    /\ file[c] = "plain"
    /\ Post(c, TRUE)
    /\ UNCHANGED <<win, mpv, file, tmp, player, dialogs, stuck, budget>>

\* A wrong key, a full disk: what gpg has written is unlinked.
FailsLeavingFile(c) ==   \* mutant: raises before the unlink
    /\ Open
    /\ phase[c] = "gpg"
    /\ Post(c, FALSE)
    /\ UNCHANGED <<win, mpv, file, tmp, player, dialogs, stuck, budget>>

GpgFails(c) ==
    /\ Open
    /\ phase[c] = "gpg"
    /\ \/ file' = [file EXCEPT ![c] = "none"] /\ UNCHANGED <<stuck, budget>>
       \/ Fault /\ stuck' = stuck \cup {c} /\ UNCHANGED file
    /\ Post(c, FALSE)
    /\ UNCHANGED <<win, mpv, tmp, player, dialogs>>

\* gpg is not on PATH: subprocess.run raises and the empty file stays.
MissingUnnoticed(c) ==   \* mutant: the worker catches RuntimeError only
    /\ Open
    /\ phase[c] = "gpg"
    /\ file[c] = "empty"
    /\ phase' = [phase EXCEPT ![c] = "posted"]
    /\ UNCHANGED <<win, mpv, file, queue, tmp, player, dialogs, stuck, budget>>

GpgMissing(c) ==
    /\ Open
    /\ phase[c] = "gpg"
    /\ file[c] = "empty"
    /\ Post(c, FALSE)
    /\ UNCHANGED <<win, mpv, file, tmp, player, dialogs, stuck, budget>>

-----------------------------------------------------------------------------
(* The main loop                                                           *)

DiscardForgets(next) ==   \* mutant: never unlinks
    /\ tmp' = next
    /\ UNCHANGED <<file, stuck, budget>>

\* _discard_tmp, then self._tmp = next.  A failed unlink is only logged.
Discard(next) ==
    /\ tmp' = next
    /\ \/ tmp = NoClip /\ UNCHANGED <<file, stuck, budget>>
       \/ /\ tmp # NoClip
          /\ file' = [file EXCEPT ![tmp] = "none"]
          /\ UNCHANGED <<stuck, budget>>
       \/ /\ tmp # NoClip
          /\ Fault
          /\ stuck' = stuck \cup {tmp}
          /\ UNCHANGED file

\* The main loop runs the callback at the head of the queue.
Handle(c, success, outcome) ==
    /\ MainFree
    /\ queue # <<>>
    /\ Head(queue) = [clip |-> c, ok |-> success]
    /\ queue' = Tail(queue)
    /\ phase' = [phase EXCEPT ![c] = outcome]

PrepareThenDiscard(c) ==   \* mutant: discards after self._tmp is set
    /\ Handle(c, TRUE, "handled")
    /\ mpv = "works"
    /\ file' = [file EXCEPT ![c] = "none"]
    /\ tmp' = NoClip
    /\ starting' = c
    /\ UNCHANGED <<win, mpv, playing, dialogs, stuck, budget>>

\* _play with a player, up to the call of player.play: mpv, which has threads
\* of its own, still plays the clip that is discarded here.
Prepare(c) ==
    /\ Handle(c, TRUE, "handled")
    /\ mpv = "works"
    /\ Discard(c)
    /\ starting' = c
    /\ UNCHANGED <<win, mpv, playing, dialogs>>

\* player.play.
Play ==
    /\ starting # NoClip
    /\ playing' = starting
    /\ starting' = NoClip
    /\ UNCHANGED <<win, mpv, phase, file, queue, tmp, dialogs, stuck, budget>>

\* _play without python-mpv: the error box runs the main loop until it is
\* dismissed, and only then is the file discarded.
PlayUnavailable(c) ==
    /\ Handle(c, TRUE, "handled")
    /\ mpv = "missing"
    /\ Discard(c)
    /\ dialogs' = dialogs + 1
    /\ UNCHANGED <<win, mpv, player>>

Dismiss ==
    /\ dialogs > 0
    /\ dialogs' = dialogs - 1
    /\ Discard(NoClip)
    /\ UNCHANGED <<win, mpv, phase, queue, player>>

\* _play when libmpv does not load: the exception is none that _play catches
\* and leaves the callback, with nothing played and nothing shown.
PlayRaises(c) ==
    /\ Handle(c, TRUE, "lost")
    /\ mpv = "broken"
    /\ Discard(c)
    /\ UNCHANGED <<win, mpv, player, dialogs>>

DecryptFailed(c) ==
    /\ Handle(c, FALSE, "handled")
    /\ UNCHANGED <<win, mpv, file, tmp, player, dialogs, stuck, budget>>

Stop ==
    /\ MainFree
    /\ dialogs = 0
    /\ playing' = NoClip
    /\ Discard(NoClip)
    /\ UNCHANGED <<win, mpv, phase, queue, starting, dialogs>>

\* _on_close, from a nested loop too.  The threads are daemons and what is in
\* the queue is never run.
Close ==
    /\ MainFree
    /\ win' = "closed"
    /\ playing' = NoClip
    /\ Discard(NoClip)
    /\ queue' = <<>>
    /\ dialogs' = 0
    /\ UNCHANGED <<mpv, phase, starting>>

Worker(c) ==
    \/ MakeTemp(c)
    \/ GpgWrites(c)
    \/ GpgSucceeds(c)
    \/ GpgFails(c)
    \/ GpgMissing(c)

MainLoop(c) ==
    \/ Prepare(c)
    \/ PlayUnavailable(c)
    \/ PlayRaises(c)
    \/ DecryptFailed(c)

Next ==
    \/ \E c \in Clip : Load(c) \/ Worker(c) \/ MainLoop(c)
    \/ Play
    \/ Dismiss
    \/ Stop
    \/ Close

Spec == Init /\ [][Next]_vars

\* gpg ends, and the main loop runs while the window is open; the user need
\* not do anything.
FairSpec ==
    /\ Spec
    /\ \A c \in Clip : WF_vars(Worker(c))
    /\ WF_vars(Play \/ \E c \in Clip : MainLoop(c))

-----------------------------------------------------------------------------
(* Properties                                                              *)

\* Plaintext is on disk only for the clip in self._tmp and for those on their
\* way to it, and what a failed unlink left.  Once the window is closed there
\* is no self._tmp: only a decryption it interrupted leaves plaintext.
PlaintextAccounted ==
    \A c \in Clip : file[c] = "plain" =>
        \/ c = tmp /\ Open
        \/ phase[c] \in {"gpg", "posted"}
        \/ c \in stuck

\* What mpv plays is on disk and is what closing or the next clip will unlink,
\* in whatever order decryptions end.  Only inside _play may mpv still play a
\* clip that is already unlinked, and then the one that replaces it is so kept.
PlayedIsKept ==
    IF starting = NoClip
    THEN playing # NoClip => playing = tmp /\ file[playing] = "plain"
    ELSE starting = tmp /\ file[starting] = "plain"

\* A clip that cannot be played for want of python-mpv does not stay on disk
\* behind the user's back: once the error boxes are gone so is the file of
\* every clip handled, however the boxes were nested, unless its unlink failed.
UnplayableDiscarded ==
    mpv = "missing" /\ dialogs = 0 =>
        \A c \in Clip : phase[c] = "handled" => file[c] # "plain" \/ c \in stuck

\* "unlinked when you close the window": no plaintext is left by then.
ClosedLeavesNothing == ~Open => \A c \in Clip : file[c] # "plain"

Answered(c) == phase[c] = "handled" /\ starting # c

\* Every clip that is opened is played or reported in the window, unless the
\* window closes.  Not where python-mpv is installed and libmpv is not: the
\* exception is none that _play catches, and the clip is lost to the user.
LoadAnswered ==
    \A c \in Clip : phase[c] = "started" /\ mpv # "broken" ~> Answered(c) \/ ~Open
=============================================================================
