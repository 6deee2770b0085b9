---------------------------- MODULE ViewerProofs ----------------------------
(***************************************************************************)
(* Where the viewer leaves plaintext, for any clips, any order in which    *)
(* their decryptions end and any nesting of the error boxes.               *)
(***************************************************************************)
EXTENDS Viewer, TLAPS

\* A callback in the queue is the only one of its clip, and its file is there
\* if it reports a success.
QueueInv ==
    \A i \in 1..Len(queue) :
        /\ phase[queue[i].clip] = "posted"
        /\ queue[i].ok => file[queue[i].clip] = "plain"
        /\ ~queue[i].ok => \/ file[queue[i].clip] # "plain"
                           \/ queue[i].clip \in stuck
        /\ \A j \in 1..Len(queue) : queue[j].clip = queue[i].clip => j = i

FileInv ==
    /\ \A c \in Clip : phase[c] \in {"idle", "started"} => file[c] = "none"
    /\ tmp # NoClip => /\ Open /\ phase[tmp] \in {"handled", "lost"}
                       /\ file[tmp] = "plain"

\* What mpv plays is in self._tmp, but for the time that _play takes to replace
\* it; and the error boxes are those of a missing mpv, the last of which
\* discards.
PlayerInv ==
    /\ starting # NoClip => mpv = "works" /\ starting = tmp
    /\ playing # NoClip => mpv = "works" /\ (starting = NoClip => playing = tmp)
    /\ dialogs > 0 => mpv = "missing"
    /\ mpv = "missing" /\ dialogs = 0 => tmp = NoClip

ViewerInv == TypeOK /\ QueueInv /\ FileInv /\ PlayerInv /\ PlaintextAccounted

LEMMA InitViewer == Init => ViewerInv
BY ViewerAssumption
   DEF Init, ViewerInv, TypeOK, QueueInv, FileInv, PlayerInv,
       PlaintextAccounted, Callback

-----------------------------------------------------------------------------
(* The worker                                                              *)

LEMMA FaultBudget ==
    ASSUME TypeOK, Fault
    PROVE  budget' \in 0..MaxFaults
BY ViewerAssumption DEF TypeOK, Fault

LEMMA QueueTypes ==
    ASSUME TypeOK
    PROVE  Len(queue) \in Nat /\ \A i \in 1..Len(queue) : queue[i] \in Callback
<1>1. queue \in Seq(Callback)
    BY DEF TypeOK
<1>2. QED
    BY <1>1

\* A worker touches the file of its own clip only, and that one is not in
\* self._tmp and has no callback in the queue.
LEMMA WorkerTypes ==
    ASSUME TypeOK, NEW c \in Clip, Load(c) \/ Worker(c)
    PROVE  TypeOK'
<1> USE DEF TypeOK, player
<1>1. CASE Load(c) \/ GpgWrites(c)
    BY <1>1 DEF Load, GpgWrites
<1>2. ASSUME NEW ok \in BOOLEAN, Post(c, ok)
      PROVE  /\ phase' \in [Clip -> {"idle", "started", "gpg", "posted", "handled", "lost"}]
             /\ queue' \in Seq(Callback)
    BY <1>2 DEF Post, Callback
<1>3. CASE MakeTemp(c)
    <2>1. CASE Fault /\ Post(c, FALSE) /\ UNCHANGED file
        BY <1>2, <1>3, <2>1, FaultBudget DEF MakeTemp
    <2>2. CASE /\ phase' = [phase EXCEPT ![c] = "gpg"]
               /\ file' = [file EXCEPT ![c] = "empty"]
               /\ UNCHANGED <<queue, budget>>
        BY <1>3, <2>2 DEF MakeTemp
    <2>3. QED
        BY <1>3, <2>1, <2>2 DEF MakeTemp
<1>4. CASE GpgSucceeds(c) \/ GpgMissing(c)
    BY <1>2, <1>4 DEF GpgSucceeds, GpgMissing
<1>5. CASE GpgFails(c)
    <2>1. CASE Fault /\ stuck' = stuck \cup {c} /\ UNCHANGED file
        BY <1>2, <1>5, <2>1, FaultBudget DEF GpgFails
    <2>2. CASE UNCHANGED <<stuck, budget>>
        BY <1>2, <1>5, <2>2 DEF GpgFails
    <2>3. QED
        BY <1>5, <2>1, <2>2 DEF GpgFails
<1>6. QED
    BY <1>1, <1>3, <1>4, <1>5 DEF Worker

\* Posting keeps QueueInv.
LEMMA PostQueue ==
    ASSUME TypeOK, QueueInv, NEW c \in Clip, NEW ok \in BOOLEAN,
           phase[c] # "posted", Post(c, ok), stuck \subseteq stuck',
           \A d \in Clip \ {c} : file'[d] = file[d],
           ok => file'[c] = "plain",
           ~ok => file'[c] # "plain" \/ c \in stuck'
    PROVE  QueueInv'
<1>1. queue \in Seq(Callback) /\ Len(queue) \in Nat
    BY QueueTypes DEF TypeOK
<1>2. \A i \in 1..Len(queue) : queue[i] \in Callback
    BY QueueTypes
<1>3. /\ Len(queue') = Len(queue) + 1
      /\ \A i \in 1..Len(queue) : queue'[i] = queue[i]
      /\ queue'[Len(queue) + 1] = [clip |-> c, ok |-> ok]
    BY <1>1 DEF Post, Callback
<1>4. \A i \in 1..Len(queue) : queue[i].clip \in Clip \ {c}
    BY <1>2 DEF QueueInv, Callback
<1>5. /\ phase'[c] = "posted"
      /\ \A d \in Clip \ {c} : phase'[d] = phase[d]
    BY DEF Post, TypeOK
<1>6. ASSUME NEW i \in 1..Len(queue')
      PROVE  /\ phase'[queue'[i].clip] = "posted"
             /\ queue'[i].ok => file'[queue'[i].clip] = "plain"
             /\ ~queue'[i].ok => \/ file'[queue'[i].clip] # "plain"
                                 \/ queue'[i].clip \in stuck'
             /\ \A j \in 1..Len(queue') : queue'[j].clip = queue'[i].clip => j = i
    <2>1. CASE i = Len(queue) + 1
        BY <1>1, <1>3, <1>4, <1>5, <2>1
    <2>2. CASE i \in 1..Len(queue)
        BY <1>1, <1>3, <1>4, <1>5, <2>2 DEF QueueInv
    <2>3. QED
        BY <1>1, <1>3, <2>1, <2>2
<1>7. QED
    BY <1>6 DEF QueueInv

LEMMA WorkerViewer ==
    ASSUME ViewerInv, NEW c \in Clip, Load(c) \/ Worker(c)
    PROVE  ViewerInv'
<1> USE DEF ViewerInv
<1>1. TypeOK'
    BY WorkerTypes
<1>2. /\ UNCHANGED <<win, mpv, tmp, player, dialogs>> /\ stuck \subseteq stuck'
      /\ phase[c] \in {"idle", "started", "gpg"}
      /\ \A d \in Clip \ {c} : file'[d] = file[d] /\ phase'[d] = phase[d]
      /\ phase'[c] \in {"started", "gpg", "posted"}
      /\ phase'[c] = "started" => file'[c] = "none"
    BY DEF Worker, Load, MakeTemp, GpgWrites, GpgSucceeds, GpgFails, GpgMissing,
           Post, TypeOK, FileInv
<1>3. QueueInv'
    <2>1. CASE GpgSucceeds(c)
        BY <1>2, <2>1, PostQueue DEF GpgSucceeds
    <2>2. CASE GpgFails(c)
        BY <1>2, <2>2, PostQueue DEF GpgFails, TypeOK
    <2>3. CASE GpgMissing(c)
        BY <1>2, <2>3, PostQueue DEF GpgMissing
    <2>4. CASE MakeTemp(c) /\ Post(c, FALSE)
        <3>1. phase[c] = "started" /\ phase'[c] = "posted"
            BY <2>4 DEF MakeTemp, Post, TypeOK
        <3>2. UNCHANGED <<file, stuck>> /\ file[c] = "none"
            BY <2>4, <3>1 DEF MakeTemp, FileInv, TypeOK
        <3>3. QED
            BY <1>2, <2>4, <3>1, <3>2, PostQueue
    <2>5. CASE queue' = queue
        <3>1. \A i \in 1..Len(queue) : queue[i].clip \in Clip \ {c}
            BY <1>2, QueueTypes DEF QueueInv, Callback
        <3>2. QED
            BY <1>2, <2>5, <3>1 DEF QueueInv
    <2>6. QED
        BY <2>1, <2>2, <2>3, <2>4, <2>5 DEF Worker, Load, MakeTemp, GpgWrites
<1>4. FileInv' /\ PlayerInv' /\ PlaintextAccounted'
    BY <1>2 DEF FileInv, PlayerInv, PlaintextAccounted, Open, TypeOK, player
<1>5. QED
    BY <1>1, <1>3, <1>4

-----------------------------------------------------------------------------
(* The main loop                                                           *)

\* What discarding leaves: the clip that was in self._tmp is gone, unless its
\* unlink failed, and no other file is touched.
LEMMA DiscardFrame ==
    ASSUME TypeOK, NEW next \in Clip \cup {NoClip}, Discard(next)
    PROVE  /\ tmp' = next
           /\ file' \in [Clip -> {"none", "empty", "plain"}]
           /\ stuck' \subseteq Clip /\ stuck \subseteq stuck'
           /\ budget' \in 0..MaxFaults
           /\ \A d \in Clip : d # tmp => file'[d] = file[d]
           /\ \A d \in Clip : file'[d] = "plain" => file[d] = "plain"
           /\ tmp \in Clip => file'[tmp] = "none" \/ tmp \in stuck'
<1>0. tmp' = next
    BY DEF Discard
<1>1. CASE tmp = NoClip /\ UNCHANGED <<file, stuck, budget>>
    BY <1>0, <1>1, ViewerAssumption DEF TypeOK
<1>2. CASE /\ tmp # NoClip
           /\ file' = [file EXCEPT ![tmp] = "none"]
           /\ UNCHANGED <<stuck, budget>>
    BY <1>0, <1>2 DEF TypeOK
<1>3. CASE Fault /\ stuck' = stuck \cup {tmp} /\ UNCHANGED file /\ tmp # NoClip
    BY <1>0, <1>3, FaultBudget DEF TypeOK
<1>4. QED
    BY <1>1, <1>2, <1>3 DEF Discard

\* The callback at the head of the queue is that of a posted clip.
LEMMA HandleFrame ==
    ASSUME TypeOK, QueueInv, NEW c \in Clip, NEW ok \in BOOLEAN,
           NEW to \in {"handled", "lost"}, Handle(c, ok, to)
    PROVE  /\ phase[c] = "posted" /\ phase' = [phase EXCEPT ![c] = to]
           /\ ok => file[c] = "plain"
           /\ ~ok => file[c] # "plain" \/ c \in stuck
           /\ queue' \in Seq(Callback)
           /\ \A i \in 1..Len(queue') :
                 /\ i + 1 \in 1..Len(queue) /\ queue'[i] = queue[i + 1]
                 /\ queue'[i].clip \in Clip \ {c}
<1>1. queue \in Seq(Callback) /\ queue # <<>> /\ Len(queue) \in Nat
    BY QueueTypes DEF TypeOK, Handle
<1>2. 1 \in 1..Len(queue) /\ queue[1] = [clip |-> c, ok |-> ok]
    BY <1>1 DEF Handle
<1>3. /\ phase[c] = "posted" /\ phase' = [phase EXCEPT ![c] = to]
      /\ ok => file[c] = "plain"
      /\ ~ok => file[c] # "plain" \/ c \in stuck
    BY <1>2 DEF QueueInv, Handle
<1>4. /\ queue' \in Seq(Callback) /\ Len(queue') = Len(queue) - 1
      /\ \A i \in 1..Len(queue') : queue'[i] = queue[i + 1]
    BY <1>1 DEF Handle
<1>5. \A i \in 1..Len(queue') : i + 1 \in 1..Len(queue) /\ i + 1 # 1
    BY <1>1, <1>4
<1>6. \A i \in 1..Len(queue') : queue'[i].clip \in Clip \ {c}
    <2>1. ASSUME NEW i \in 1..Len(queue')
          PROVE  queue'[i].clip \in Clip \ {c}
        <3>1. queue[i + 1] \in Callback /\ queue[i + 1].clip # queue[1].clip
            BY <1>2, <1>5, QueueTypes DEF QueueInv
        <3>2. QED
            BY <1>2, <1>4, <3>1 DEF Callback
    <2>2. QED
        BY <2>1
<1>7. QED
    BY <1>3, <1>4, <1>5, <1>6

\* What is left in the queue has nothing to do with the clip that was handled
\* or with the one in self._tmp.
LEMMA HandleQueue ==
    ASSUME TypeOK, QueueInv, NEW c \in Clip, NEW ok \in BOOLEAN,
           NEW to \in {"handled", "lost"}, Handle(c, ok, to), stuck \subseteq stuck',
           \A d \in Clip : phase[d] = "posted" => file'[d] = file[d]
    PROVE  QueueInv'
<1>1. ASSUME NEW i \in 1..Len(queue')
      PROVE  /\ phase'[queue'[i].clip] = "posted"
             /\ queue'[i].ok => file'[queue'[i].clip] = "plain"
             /\ ~queue'[i].ok => \/ file'[queue'[i].clip] # "plain"
                                 \/ queue'[i].clip \in stuck'
             /\ \A j \in 1..Len(queue') : queue'[j].clip = queue'[i].clip => j = i
    <2>1. /\ i \in Nat /\ i + 1 \in 1..Len(queue) /\ queue'[i] = queue[i + 1]
          /\ queue'[i].clip \in Clip \ {c}
        BY <1>1, HandleFrame, QueueTypes
    <2>2. /\ phase[queue'[i].clip] = "posted"
          /\ queue'[i].ok => file[queue'[i].clip] = "plain"
          /\ ~queue'[i].ok => \/ file[queue'[i].clip] # "plain"
                              \/ queue'[i].clip \in stuck
        BY <2>1 DEF QueueInv
    <2>3. phase'[queue'[i].clip] = "posted"
        BY <2>1, <2>2, HandleFrame DEF TypeOK
    <2>4. ASSUME NEW j \in 1..Len(queue'), queue'[j].clip = queue'[i].clip
          PROVE  j = i
        <3>1. j \in Nat /\ j + 1 \in 1..Len(queue) /\ queue'[j] = queue[j + 1]
            BY HandleFrame, QueueTypes
        <3>2. j + 1 = i + 1
            BY <2>1, <2>4, <3>1 DEF QueueInv
        <3>3. QED
            BY <2>1, <3>1, <3>2
    <2>5. QED
        BY <2>1, <2>2, <2>3, <2>4
<1>2. QED
    BY <1>1 DEF QueueInv

\* The three outcomes of _play.
LEMMA PlayViewer ==
    ASSUME ViewerInv, NEW c \in Clip, NEW to \in {"handled", "lost"},
           Handle(c, TRUE, to), Discard(c), UNCHANGED <<win, mpv, playing>>,
           \/ mpv = "works" /\ starting' = c /\ dialogs' = dialogs
           \/ mpv = "missing" /\ starting' = starting /\ dialogs' = dialogs + 1
           \/ mpv = "broken" /\ starting' = starting /\ dialogs' = dialogs
    PROVE  ViewerInv'
<1> USE DEF ViewerInv
<1>1. /\ phase[c] = "posted" /\ phase' = [phase EXCEPT ![c] = to]
      /\ file[c] = "plain" /\ queue' \in Seq(Callback)
    BY HandleFrame
<1>0. \A d \in Clip : phase[d] = "posted" => d # tmp
    BY ViewerAssumption DEF FileInv
<1>2. /\ tmp' = c /\ file' \in [Clip -> {"none", "empty", "plain"}]
      /\ stuck' \subseteq Clip /\ stuck \subseteq stuck' /\ budget' \in 0..MaxFaults
      /\ \A d \in Clip : d # tmp => file'[d] = file[d]
      /\ \A d \in Clip : file'[d] = "plain" => file[d] = "plain"
      /\ tmp \in Clip => file'[tmp] = "none" \/ tmp \in stuck'
    BY DiscardFrame
<1>3. dialogs \in Nat /\ dialogs' \in Nat /\ (mpv = "missing" => dialogs' # 0)
    BY DEF TypeOK
<1>4. TypeOK'
    BY <1>1, <1>2, <1>3 DEF TypeOK
<1>5. QueueInv'
    BY <1>0, <1>2, HandleQueue
<1>6. starting = NoClip /\ Open /\ Open'
    BY DEF Handle, MainFree, Open
<1>7. FileInv'
    BY <1>0, <1>1, <1>2, <1>6, ViewerAssumption DEF FileInv, TypeOK
<1>8. PlayerInv'
    BY <1>2, <1>3, <1>6, ViewerAssumption DEF PlayerInv, TypeOK
<1>9. PlaintextAccounted'
    BY <1>1, <1>2, <1>6 DEF PlaintextAccounted, TypeOK
<1>10. QED
    BY <1>4, <1>5, <1>7, <1>8, <1>9

\* player.play: mpv plays what self._tmp has held since the callback began.
LEMMA StartViewer == ViewerInv /\ Play => ViewerInv'
BY DEF ViewerInv, Play, TypeOK, QueueInv, FileInv, PlayerInv, PlaintextAccounted, Open

LEMMA FailedViewer ==
    ASSUME ViewerInv, NEW c \in Clip, DecryptFailed(c)
    PROVE  ViewerInv'
<1> USE DEF ViewerInv
<1>1. /\ phase[c] = "posted" /\ phase' = [phase EXCEPT ![c] = "handled"]
      /\ file[c] # "plain" \/ c \in stuck
      /\ queue' \in Seq(Callback)
      /\ UNCHANGED <<win, mpv, file, tmp, player, dialogs, stuck, budget>>
    BY HandleFrame DEF DecryptFailed
<1>2. QueueInv'
    BY <1>1, HandleQueue DEF DecryptFailed
<1>3. QED
    BY <1>1, <1>2 DEF TypeOK, FileInv, PlayerInv, PlaintextAccounted, Open, player

\* Dismiss, Stop and Close: self._tmp is None afterwards.
LEMMA DiscardViewer ==
    ASSUME ViewerInv, Dismiss \/ Stop \/ Close
    PROVE  ViewerInv'
<1> USE DEF ViewerInv
<1>1. Discard(NoClip) /\ UNCHANGED <<mpv, phase>> /\ queue' \in {queue, <<>>}
    BY DEF Dismiss, Stop, Close
<1>2. /\ tmp' = NoClip /\ file' \in [Clip -> {"none", "empty", "plain"}]
      /\ stuck' \subseteq Clip /\ stuck \subseteq stuck' /\ budget' \in 0..MaxFaults
      /\ \A d \in Clip : d # tmp => file'[d] = file[d]
      /\ \A d \in Clip : file'[d] = "plain" => file[d] = "plain"
      /\ tmp \in Clip => file'[tmp] = "none" \/ tmp \in stuck'
    BY <1>1, DiscardFrame
<1>3. /\ win' \in {"open", "closed"} /\ dialogs' \in Nat
      /\ dialogs' > 0 => mpv = "missing"
      /\ playing' = NoClip /\ starting' = NoClip
    BY DEF Dismiss, Stop, Close, MainFree, TypeOK, PlayerInv, player
<1>4. TypeOK' /\ FileInv' /\ PlayerInv'
    <2>1. queue' \in Seq(Callback)
        <3>1. queue \in Seq(Callback) /\ <<>> \in Seq(Callback)
            BY DEF TypeOK
        <3>2. QED
            BY <1>1, <3>1
    <2>2. TypeOK'
        BY <1>1, <1>2, <1>3, <2>1 DEF TypeOK
    <2>3. \A d \in Clip : phase'[d] \in {"idle", "started"} => file'[d] = "none"
        BY <1>1, <1>2, ViewerAssumption DEF FileInv, TypeOK
    <2>4. QED
        BY <1>1, <1>2, <1>3, <2>2, <2>3 DEF FileInv, PlayerInv
<1>5. QueueInv'
    <2>1. CASE queue' = <<>>
        BY <2>1 DEF QueueInv
    <2>2. CASE queue' = queue
        <3>1. \A i \in 1..Len(queue) : queue[i].clip \in Clip /\ queue[i].clip # tmp
            BY QueueTypes, ViewerAssumption DEF QueueInv, FileInv, Callback
        <3>2. QED
            BY <1>1, <1>2, <2>2, <3>1 DEF QueueInv
    <2>3. QED
        BY <1>1, <2>1, <2>2
<1>6. PlaintextAccounted'
    BY <1>1, <1>2 DEF PlaintextAccounted, TypeOK
<1>7. QED
    BY <1>4, <1>5, <1>6

LEMMA NextViewer == ViewerInv /\ [Next]_vars => ViewerInv'
<1> SUFFICES ASSUME ViewerInv, [Next]_vars
             PROVE  ViewerInv'
    OBVIOUS
<1>1. CASE UNCHANGED vars
    BY <1>1 DEF vars, player, ViewerInv, TypeOK, QueueInv, FileInv, PlayerInv,
                PlaintextAccounted, Open
<1>2. ASSUME NEW c \in Clip, MainLoop(c)
      PROVE  ViewerInv'
    BY <1>2, FailedViewer, PlayViewer DEF MainLoop, Prepare,
       PlayUnavailable, PlayRaises, player
<1>3. QED
    BY <1>1, <1>2, WorkerViewer, StartViewer, DiscardViewer DEF Next

THEOREM ViewerInvariant == Spec => []ViewerInv
BY InitViewer, NextViewer, PTL DEF Spec

\* Every reachable state of the viewer is well typed, the queue of callbacks
\* and the nested error boxes included.
THEOREM ViewerTypes == Spec => []TypeOK
<1>1. ViewerInv => TypeOK
    BY DEF ViewerInv
<1>2. QED
    BY <1>1, ViewerInvariant, PTL

\* Plaintext is on disk only for the clip in self._tmp, for the clips whose
\* decryption is on its way to it or was cut off by the window closing, and
\* where an unlink failed.
THEOREM PlaintextBounded == Spec => []PlaintextAccounted
<1>1. ViewerInv => PlaintextAccounted
    BY DEF ViewerInv
<1>2. QED
    BY <1>1, ViewerInvariant, PTL

\* Outside of _play mpv plays a file that is there and that closing will
\* unlink; inside it that holds of the file mpv is about to be given.
THEOREM PlayedKept == Spec => []PlayedIsKept
<1>1. ViewerInv => PlayedIsKept
    BY DEF ViewerInv, TypeOK, FileInv, PlayerInv, PlayedIsKept
<1>2. QED
    BY <1>1, ViewerInvariant, PTL

\* However the error boxes nest, once they are gone the plaintext of every clip
\* that was handled is gone too, but for failed unlinks.
THEOREM UnplayableGone == Spec => []UnplayableDiscarded
<1>1. ViewerInv => UnplayableDiscarded
    BY ViewerAssumption
       DEF ViewerInv, PlayerInv, PlaintextAccounted, UnplayableDiscarded
<1>2. QED
    BY <1>1, ViewerInvariant, PTL
=============================================================================
