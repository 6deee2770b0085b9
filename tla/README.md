# videobackup: TLA+ models and proofs

videobackup records cameras with ffmpeg, encrypts each finished segment with
GPG, uploads the result to Google Drive with rclone and keeps the Drive folder
under a storage cap; a viewer decrypts and plays single clips. This directory
models all of that, checks it with TLC and proves its main safety properties with
TLAPS. Paths below are relative to
`src/`.

## 1. Inventory

| Component | Source | State | Operations |
|---|---|---|---|
| recorder, stall watchdog | `videobackup/recorder.py` | one thread and one ffmpeg process per camera, its stop event | `_run`, `_wait_with_watchdog`, `_stalled_segment`, `stop`, `Recorder.run_forever` |
| encrypt loop | `videobackup/encrypt.py`, `main.run_encrypt_loop` | `local_spool/raw`, `.gpg.part` and `.gpg` files | `prune_raw_spool`, `encrypt_pending`, `encrypt_file` |
| upload loop | `main.run_upload_loop`, `videobackup/uploader.py` | `local_spool/encrypted`, `last_prune`, a running `rclone move` | `prune_spool`, `_pending_upload_bytes`, `prune`, `upload_pending` |
| retention | `videobackup/retention.py` | the Drive folder | `select_for_deletion`, `select_oversize`, `effective_prune_cap` (pure); `list_remote`, `remote_about`, `_delete_remote` |
| rclone classification | `videobackup/rclone.py` | none | `classify` |
| configuration | `videobackup/config.py` | none | `load_config`, `upload_slice_bytes` |
| orchestration | `videobackup/main.py` | the stop event, the threads | `run_all`, `record`, `prune` |
| batch | `videobackup/main.py` | where the cycle is | `run_batch`, `run_batch_loop` |
| viewer | `videobackup/viewer.py` | a temporary file per decryption, `_tmp`, the player | `load`, `_decrypt_worker`, `_play`, `_discard_tmp`, `stop`, `_on_close` |
| service units | `systemd/` | none | restart of `record`, timer for `batch` |

How they interact. The threads of `run` share no Python object but the stop
event; they communicate through two directories and the Drive folder. ffmpeg
writes into `raw`; the encrypt thread moves a segment from `raw` to `encrypted`;
the upload thread (and the rclone it starts) moves it from `encrypted` to Drive;
retention passes of both threads delete from all three places. The recorder's
watchdog reads the names and times of the same directory to see whether its
ffmpeg still rolls over. The viewer is a process of its own: its decryptions run
in threads that hand their result to the Tk main loop. Nothing is locked:
what protects a file is the 15 s settle margin, the `.part` name, and the order
of rename, upload confirmation and unlink.

What is hard here: the interleavings of the two threads, rclone and ffmpeg on the
same files; crashes between a rename and the unlink it makes safe (the worker
threads are daemons, so an ordinary SIGTERM stops them anywhere); failures of
gpg, unlink, rclone list/about/delete/move and of the OAuth grant; measurements
that are old when they are used (the age sample, the pending bytes, the
listing); and limits that must hold for ever against cameras that never stop. In the
recorder, `stop()` races the restart of an ffmpeg, and the watchdog knows a file
only by its name; in the viewer, callbacks come in another order than the clicks,
run inside the nested loop of an error box, or never.
`PROJECT.json` lists these hazards with the line where each bites and the
properties that cover it.

What makes each component correct:

* encrypt loop: plaintext is deleted only once its encrypted copy is complete
  and in place; no open file is taken; plaintext does not stay.
* upload loop: an encrypted file is deleted only once it is on Drive; each cycle
  ends and lets retention run; the folder overshoots its cap, but by a known amount.
* retention: oldest first, no more than needed, never less than needed.
* batch: the same promise about a clip, without the gate: a cycle whose prune
  succeeds ends under the cap.
* recorder: a file that stops rolling over is closed in the end, and recording
  resumes after every failure and kill, unless the source falls silent or the file
  has been unlinked; the shutdown ends, and no ffmpeg survives it but
  one that was started in the race with `stop()`.
* viewer: plaintext is on disk only for the clip in the player and for those on
  their way to it; outside of `_play`, mpv plays the file in `self._tmp` and it is
  there; every click is answered, unless libmpv does not load.

## 2. Modules

| Module | Models |
|---|---|
| `Retention` | the pure operators of `retention.py` and `upload_slice_bytes` |
| `SelectLoop` | the loop of `select_for_deletion`, step by step |
| `Spool` | the state the threads share: spool directories, Drive folder, account; ffmpeg and the calendar as environment |
| `EncryptLoop` | the encrypt thread (extends `Spool`) |
| `UploadLoop` | the upload thread and its rclone (extends `Spool`) |
| `Pipeline` | `videobackup run`: both threads and the recorders, crash and restart; the properties |
| `ClipLife` | what the service promises about a clip, abstractly; `Pipeline` and `Batch` implement it |
| `Batch` | `videobackup batch-loop`: the same steps one after the other, prune last (extends `Pipeline`) |
| `Recorder` | the camera threads, their watchdog, their ffmpeg, and the main thread that stops them |
| `Viewer` | the decrypt threads, the Tk main loop and the window |
| `MCSelectLoop`, `MCPipeline`, `MCBatch`, `MCRecorder` | instances for TLC (`Viewer` needs none) |
| `RetentionProofs`, `SelectLoopProofs`, `PipelineProofs`, `PruneProofs`, `LifeProofs`, `BatchProofs`, `RecorderProofs`, `ViewerProofs` | the theorems |

**Data.** A segment is a number, in the order ffmpeg opens the files; `Source`
gives its camera and `NameRank` its place in the sorted listing. Sizes are a
constant measure `Bytes` on sets of segments with the two laws of a sum; the
instances build it from a size per segment. A file's mtime is a stamp from
`clock`, which counts encryptions: the `.gpg` is created by gpg, so its mtime is
the time of encryption, and rclone preserves it on Drive. Stamp 0 means there is
no file. `cutoff` is `now - max_age_days` on the same scale.

**A segment as the file system shows it** (`seg`): `writing` (open, written to
less than 15 s ago), `quiet` (open, but not written to for 15 s), `closed`,
`settled` (closed and 15 s old). `encrypt._is_closed` cannot tell `quiet` from
`settled`. Only cameras in `UntimedSource` can go quiet: the RTSP command carries
`-timeout 10000000`, 10 s, and the http command has no such flag.

**Encrypt thread** (`epc`): `prune` (`prune_raw_spool`), `scan` (sample `now`,
list the directory), `loop` (next name), `gpg` (gpg runs), `unlink` (the rename
is done, the plaintext is not yet deleted). `todo` holds the listed segments that
were closed at the sampled `now`; being written to again takes a segment out of
it, because `_is_closed` compares its new mtime to the old `now`.

**Upload thread** (`upc`): `prune_spool`, `measure`, `list`, `delete` (one pass of
`prune` with its listing and its victims fixed), `upload`, `move` (rclone runs;
`xfer` has the status of each file: `listed` until a checker has compared it with
the folder, `queued` until a transfer is free, then `inflight`, `landed`, `moved`;
or `failed`, `denied`). A listing and the choice made from it are
one step, the deletion another, so that everything the other thread, the account
or a crash can do in between is explored. A deletion by `prune_spool` follows its
listing within one step: only the encrypt thread writes to that directory
meanwhile, and it only adds files, which the old listing does not contain either.

**Waits** of the loops (`encrypt_interval_seconds`, 5 s, 300 s after a dead grant) are
arbitrary delays: a thread at the top of its loop may stay there for any time.
So the exception handlers of both loops, which differ only in the log line and
the length of the wait, lead to the top of the loop. `due` is the one timer with
an effect on control: a batch interval has passed since `last_prune`.

**Failures.** Each failure the code handles is a kind in `Faults`; a behaviour has
at most `MaxFaults` of them, so that liveness is asked of behaviours in which the
environment stops failing. A dead grant is a state (`auth`), not a single
failure, and lists, deletes and transfers fail while it lasts. Unlinks may fail
for any subset of the files of a pass. A rename or an unlink of the encrypt
thread that raises ends its pass (`PassRaises`). A
crash (`CrashRestart`) resets both threads, with their gpg and rclone, and keeps every
file: it is a power cut, systemd stopping the unit's control group, or Ctrl-C, which
the terminal sends to the children too. A signal to the Python process alone is
another matter: see section 6.

**ClipLife** sees three sets: clips on this disk (`raw` and the encrypted spool),
clips on Drive, and clips that retention dropped. A clip leaves the disk only when
Drive has it, or a limit that is exceeded at that moment drops it. The mapping
(`Clips` in `Pipeline`) needs no history but `gone`, the segments that retention
deleted.

**Batch.** `stage` says where `run_batch` is; within a stage the steps are those
of `EncryptLoop` and `UploadLoop`, with their `epc` and `upc`. What differs is the
order (upload, then prune with reserve 0), that `upload_pending` returns at once
on an empty spool and raises when a transfer was denied for a dead grant, and that
a stage that raises ends the cycle (`EncryptRaises`, `MoveReports`, `PruneRaises`
lead to `rest`). `due` belongs to the other loop and stays FALSE.

**Recorder.** Per camera: `rpc` is where the thread is in `_run` (`wait` stands
for all of `_wait_with_watchdog` between two polls, a poll that finds nothing
changes nothing), `proc` the state of its ffmpeg, `seg` the file ffmpeg has open
(`fresh`, `stuck`: no longer rolling over, `stalled`: for longer than the limit),
`linked` whether that file still has a name, `silent` whether the source sends
nothing on an open connection (only those in `Untimed`, the http cameras, can:
ffmpeg waits then, before its first file or in one, and the watchdog ignores a
file of a fixed span; the encrypt stage may take it for closed and unlink it,
`UnlinkOpen`), and `left` the closed files in the directory, which the watchdog
sees too. `_stalled_segment` takes the newest file that matches `name_*`; `Newest`
says which that can be. `Sees` gives the cameras whose files match: with `front`
and `front_door`, the first sees the second's. `mpc` and `at` are the main thread
in `run_forever` and in which camera's `stop()`; `late` remembers that a thread
started an ffmpeg after its stop event was set. `MaxLeft` bounds `left`: the
oldest closed file is forgotten beyond it. Only the last one matters to the
watchdog.

**Viewer.** Per clip, `phase` is how far it is (`started`, `gpg`, `posted`: the
callback is in `queue`, `handled`; `lost` if the callback raised and the user was
told nothing) and `file` its temporary file. `tmp` is `self._tmp`. `_play` is two
steps, because mpv plays on in its own threads while `_play` runs: `Prepare`
unlinks the clip mpv still plays (viewer.py:158) and sets `tmp`, and `Play` gives
mpv the next one (viewer.py:167); between them the clip is `starting`, and no
other callback runs. `dialogs` counts the error boxes, each of which runs the main
loop inside a callback, so that `Dismiss` (the rest of that callback) may come
after other callbacks and is skipped when the window closes. `mpv` is what
`_ensure_player` does in this process. A clip is opened once; opening it again is
another clip.

**rclone, Drive, ffmpeg, gpg, mpv** are outside the repository. Their actions state
what the code relies on and are marked external in `PROJECT.json`: `rclone move`
unlinks a source after its upload is confirmed, skips a file that is identical on
Drive and then unlinks its source, takes the newest of the files it has checked so
far (`uploader.py:42-75` passes `--order-by` and not `--check-first`), starts no
transfer once the slice is full and lets those in flight end.

## 3. Runs

The instances of the pipeline have one or two cameras (odd segments `a`, even ones
`b`; all names of `a` sort before those of `b`) and two parallel transfers, but
for `batch`, which has one.

| Run | Bounds | What it shows |
|---|---|---|
| `select_loop` | 4 files of sizes 1, 2, 2, 3, all orders, budgets 0..8, all age limits | the loop equals the definition (`LoopSelects`), what is left fits (`SurvivorsFit`), by the invariant `LoopInv` |
| `crash` | 3 segments, one larger than the folder cap, 2 failures of any kind but `about` | `NoSilentLoss`, `PartialNeverUploaded`, `PartHasPlaintext`, `OpenSegmentsKept`, `TypeOK`; the service implements `ClipLife` (`KeepsClips`) |
| `cap` | 4 segments of size 1, folder cap 2, spool cap 3, age limit, an account of 6 with up to 4 in the trash at the start and 1 to keep free, no failures | `FolderBound`, `RoomForReserve`, `QuotaGuard`, `RollingWindow`, `OldestDeletedFirst`, `CheckedLatestFirst`, `DeletedStaysDeleted` |
| `delivery` | 2 segments of sizes 2 and 3 of one camera without a read timeout, folder cap 5, slice 1, spool cap 4, age limit, quota guard, 1 failure of any kind | `PlaintextDrains`, `SpoolCapRecurs` whether or not anybody renews a dead grant; `Delivered`, `ExpiredDeleted` if somebody does |
| `batch` | 3 segments of size 1, folder cap 1, empty remote, an untimed source, 1 failure of any kind but `about` | `CycleEndsUnderCap`, `BatchBound`, `KeepsClips`, `PlaintextDrains`, `Delivered`, `BatchTypeOK` |
| `recorder` | 2 http cameras, one name a prefix of the other, one closed file each, an oversize file, 2 failures, silences among them | `OnlyLateSurvives`, `NoRestartAfterStop`, `StallEnds`, `RecordingResumes`, `ShutdownEnds`, `TypeOK` |
| `viewer` | 3 clips, mpv working, missing or broken, 1 failed mkstemp or unlink | `PlaintextAccounted`, `PlayedIsKept`, `UnplayableDiscarded`, `LoadAnswered`, `TypeOK` |

Why the bounds are enough for what they ask. Two cameras are needed for the name
order to differ from the recording order, three segments (in the safety runs) for
one to be encrypted while another is uploaded and a third waits, and two failures
for a crash to hit what an earlier failure left behind. In `cap` the folder cap,
the slice and the sizes are chosen so that `FolderBound` is reached exactly (one
file kept, two in flight), and four segments are enough to exceed it if the cutoff
were wrong; the trash the account starts with makes the quota guard bite in some
behaviours and not in others. `delivery` has one camera, to leave room for the
quiet source; `batch` checks the same for two. In `batch`, `BatchBound` is 2 files
of 3 as long as nothing fails, and the run reaches it; after a failure it is 4,
which the run cannot reach, and the theorem is what covers it. In `recorder` two
failures let a camera stall once and, for instance, be killed again before it has
connected; in `viewer` three clips are one in the player, one whose callback waits
and one in gpg.

What the statements leave out, because the code does not promise it:

* `FolderBound`, `RoomForReserve` and `OldestDeletedFirst` are checked for cycles
  whose deletes succeed: the code goes on to upload after a failed delete.
* `DeletedStaysDeleted` is checked without crashes and failed unlinks, which do
  bring a pruned segment back from its plaintext.
* `CheckedLatestFirst` is about the segments of one camera, and about those that
  rclone has checked. Across cameras it fails when
  there is a backlog: a `.gpg` has the mtime of its encryption, and a pass encrypts
  in name order. And a file that rclone has listed but not checked is passed over, so
  `uploader.py:54` ("newest first; goal is the *latest* footage") holds of the checked
  files of a camera only.
* `FolderBound` is cap + (slice - 1) + transfers x largest file - 1, and `BatchBound`
  cap + (1 + 2 x failures) x (slice - 1 + transfers x largest file): not the cap, which
  the run `overshoot` shows to be exceeded.
* `StallEnds` and `RecordingResumes` are about the cameras in `Own`:
  the glob of `front` also matches the files of `front_door`, so a stall of one is
  hidden by, or blamed on, the other. `recorder` has one camera of each kind. Both
  except a source that stays silent and a file unlinked under its ffmpeg,
  `RecordingResumes` also a thread that gave up because there is no ffmpeg in PATH.
* `PlayedIsKept` says nothing of the moment inside `_play` when mpv still plays the
  clip that has just been unlinked, but that the next one is in place.
* `UnplayableDiscarded` excepts the files whose unlink failed.
* `LoadAnswered` excepts a libmpv that does not load: `_play` catches `RuntimeError`
  only, so nothing is shown in the window (the clip is `lost`).
* A late `ffmpeg` may survive `stop()` (`OnlyLateSurvives`): `_proc` is read before
  the thread that has passed its last check of the event sets it. There is no doc
  that says otherwise, so it is no finding.

**Disagreements between the code and its documentation** (runs with
`"expect": "violation"`, details under `findings` in `PROJECT.json`):

* `overshoot`: with nothing failing, the folder exceeds `max_drive_bytes` after a gated
  upload: a soft cutoff lets the transfers in flight end (`uploader.py:58`), and rclone
  moves what was encrypted since the measurement. `README.md:211-214`,
  `retention.py:344-346` and `main.py:116-118` say that it lands at or under the cap;
  for `batch`, which `README.md:200` includes, there is no gate at all.
* `quiet_source`: a segment that ffmpeg has open is encrypted and unlinked when an
  http source stalls for 15 s.
* `first_start`: `run` never uploads if the Drive folder does not exist yet.
* `stall_unlinked`: the watchdog that is to end a stalled ffmpeg whose file was
  unlinked looks files up by name, so it does not.
* `viewer_leak`: closing the window while gpg decrypts leaves that plaintext file.

Five more were met and have no run of their own; each is excepted by the statement of a
property above or is outside the model:

* uploads are not "newest first" (`uploader.py:54`) among files still to be checked;
* an http source that stays silent is a dead stream which no timeout of ffmpeg
  handles, against `recorder.py:61-63`;
* with `use_trash` deleting does not raise the free space (`retention.py:105-107`), so
  the quota guard frees nothing and deletes more every cycle (`QuotaGuard` is checked
  and proved without it);
* `_require_mpv`'s "actionable error" (`viewer.py:31-38`) does not appear when
  python-mpv is there and libmpv is not;
* after a signal to the Python process alone, the next pass's gpg may publish, by its
  rename, a `.gpg` that the old gpg still writes to, against `encrypt.py:34-36`.

**Fairness.** Safety runs use none, but for `batch`, `recorder` and `viewer`, which
check both under one specification. Liveness assumes:

* `Pipeline`, `Batch`: each thread takes a step when it can (every call it makes is
  bounded: rclone by `--timeout`, `--contimeout`, `--retries` and
  `--max-transfer`, gpg by the size of a local file); time passes (`due`,
  settling); ffmpeg closes each segment. That somebody renews a dead grant is not
  part of the specification but a premise (`Attended`) of the properties that need
  it.
* `Recorder`: the threads are scheduled and their waits end; a source that neither
  fails nor is silent sends packets; ffmpeg exits on SIGTERM; the encrypt stage removes
  closed files. Not assumed: that ffmpeg gets out of a stall by itself, that a silent
  source sends again, or that anybody sends the stop signal.
* `Viewer`: gpg ends and the main loop runs, `_play` to its end. The user need not
  do anything, not even dismiss an error box: a nested loop runs callbacks too.

The number of segments is finite in an instance, so these runs say nothing about
an endless stream of newer segments starving an old one.

`CHECK_DEADLOCK FALSE` appears in `MCSelectLoop.cfg` (that loop ends), in the cfgs
of `MCRecorder` (the service has stopped) and in those of `Viewer` (the window is
closed).

## 4. Proofs

TLAPS proves these for every set of segments and cameras, every size measure,
every limit the configuration accepts and every set of failures, under the named
assumptions of the modules (all evaluated by TLC in the runs):

* `RetentionProofs`: the size measure is monotone and subtracts; what a selection
  leaves fits its budget (`SelectionFits`; the oldest survivor exists because the
  library proves proper inclusion of finite sets well founded); **PruneCapIsAGate**:
  delete down to `effective_prune_cap` and upload at most the reserve, and the
  folder fits `max_drive_bytes` and the account keeps `min_free_bytes`, unless the
  folder was emptied. It needs reserve <= `max_drive_bytes`, which `load_config`
  does not enforce (`upload_max_bytes`).
* `SelectLoopProofs`: **LoopInvHolds**, **SurvivorsAlwaysFit** and
  **LoopSelectsVictims**. The invariant: the running total is the size of what is
  left, what was dropped is older than what is left, and each dropped file had to
  go.
* `PipelineProofs`: **TypeCorrect**, **FootageKept** (`NoSilentLoss`) and
  **PartialsHidden** (`PartialNeverUploaded`). `NoSilentLoss` is not inductive: a
  step may delete the plaintext, or a `.gpg`, of which nothing says that a copy
  exists elsewhere. `SafeInv` adds why each deletion is safe: `PlaintextSpare`
  (what the encrypt thread is about to unlink has reached the spool, Drive or a
  retention pass) and `TransfersHaveSource` (rclone works on files that are in the
  spool, only during a move, and what it has confirmed is on Drive). Retention
  passes record what they delete in `gone`, so they preserve it as they stand.
  **OpenSegmentsSafe** (`OpenSegmentsKept`, assuming
  `UntimedSource = {}`, which the run `quiet_source` shows to be needed) from
  `TakenInv`: a segment that is not closed is on no list, in no spool and not on
  Drive. **PartialsOwned** (`PartHasPlaintext`) from `PartInv`: a segment that has
  a `.gpg`, or has just got one, has no `.part`, and what is left of the thread's
  list is still in the raw directory.
* `PruneProofs`: the lemma `StepKinds` shows that from the listing to the upload
  nothing but the prune's own steps touches what the gate looked at. From it and
  `ReserveInv` (a cycle reserves at most a slice): **WindowRolls**
  (`RollingWindow`, through the folder cap or the quota guard), **OldestGoFirst**
  (`OldestDeletedFirst`, an action property, by `OrderInv`: every victim is older
  than every other file), **RoomWhenUploading** (`RoomForReserve`, by `RoomInv`:
  the folder less the victims has room from the listing on) and **QuotaGuarded**
  (`QuotaGuard`, by `FreeInv`). Their assumptions say when the code keeps the
  promise: `upload_max_bytes` at most `max_drive_bytes`; no failed `rclone delete`
  and no dying grant (the upload goes on after them); for the quota also no trash
  (the trash counts against the quota) and a working `rclone about`. All other
  failures are allowed, and crashes that end rclone with the service: an rclone
  that outlives it lands files between the listing and the upload, and beside the
  next move, and `RoomForReserve` and `FolderBound` are not claimed then.
  **FolderBounded** (`FolderBound`) is an induction over the transfers in flight:
  `FlightInv` says that any set T of them has at most |T| x the largest size and
  that what is done or in flight stays below a slice plus that; `MoveInv` adds
  that what was there before the move leaves room for the reserve. `FlightInv`
  holds while another transfer starts because rclone starts none once the slice is
  full and has at most `Transfers` at a time.
* `LifeProofs`: **ImplementsClipLife** (`KeepsClips`): `Init` maps to `ClipLife`'s,
  and each step to a step or a stutter (`NextLife`), for every failure and crash.
  `LifeInv` is what the mapping needs besides `SafeInv`: a segment that ffmpeg has
  not opened has no trace anywhere (else opening it would not be a `Record`), gpg
  works on a plaintext that is there, and a prune that deletes found its limit
  exceeded by what it listed. **DeletedForGood** (`DeletedStaysDeleted`, without
  crashes and failed unlinks) from `TraceInv`: a
  plaintext that has left any other trace is the one about to be unlinked, and a
  segment both in the spool and on Drive is one whose upload rclone has just
  confirmed, so no second copy can bring a deleted segment back. **LatestGoFirst**
  (`CheckedLatestFirst`, an action property) from `LatestInv`: of two segments of one camera
  the later one is never encrypted, nor on its way to it, before the earlier one has
  left the raw directory, so their mtimes in the spool are in recording order. It
  assumes that a camera's names sort in the order its segments were opened
  (`NamesInOrder`: the clock is not set back) and that gpg does not fail: a segment
  that it failed on is encrypted after its successors.
* `BatchProofs`: every step of the batch thread is a step of the pipeline, or one of
  the two that hand over between stages and touch no file (`BatchSteps`,
  `HandoverLocal`), so the invariants above carry over (`BaseInv`). That gives
  **BatchImplementsClipLife** (`KeepsClips` for `BatchSpec`) and **BatchFootageKept**.
  `StageInv` (where the steps of the two loops may be in each stage; nothing is ever
  reserved) gives **BatchTypes**. With `KeptInv` (what a selection leaves fits the cap
  until it is deleted) follows **CyclesEndUnderCap** (`CycleEndsUnderCap`), from any
  state a failed cycle left. **BatchBounded** (`BatchBound`), for any
  number of failures of any kind, adds `FlightInv`, that a denied transfer or a dead
  grant means something has failed (`CleanInv`), that there
  is no file without the folder (`FolderMade`: a listing that fails for want of it
  skips nothing), and `SlackInv`: outside the prune, the folder less what the running
  move has added exceeds the cap by at most two moves per failure so far, less those
  that a dead grant or a denied transfer may still add (`Owed`).
  **BatchOpenSegmentsSafe**, **BatchDeletedForGood**, **BatchOldestGoFirst** and
  **BatchLatestGoFirst** carry over what `run` promises about the same properties,
  under the same assumptions, by the invariants of the theorems above; the runs check
  these four properties on `Pipeline` only. Oldest first needs no bound on
  `upload_max_bytes` here, because nothing is reserved.
* `RecorderProofs`: **RecorderTypes**, **StopsFfmpeg** (`OnlyLateSurvives`) and
  **StopsForGood** (`NoRestartAfterStop`, an action property), for any number of
  cameras. The invariant (`RecorderInv`) ties the main thread to the stop events (set
  for the cameras before `at`) and a `late` ffmpeg to where its thread may be; a
  thread in `spawn` before `stop()` is the only one that can start such a process.
* `ViewerProofs`: **ViewerTypes**, **PlaintextBounded** (`PlaintextAccounted`),
  **PlayedKept** (`PlayedIsKept`) and **UnplayableGone** (`UnplayableDiscarded`), for
  any number of clips, from `ViewerInv`: the queue and the phases agree (a callback is
  queued once, for a clip that is `posted`, and a good one has its plaintext), and
  without mpv a clip in `self._tmp` has an error box that will discard it; `PlayerInv`
  adds what mpv and `_play` hold of `self._tmp` between `Prepare` and `Play`.
  `UnplayableDiscarded` speaks of the files: it follows from there being no clip in
  `self._tmp` and `PlaintextAccounted`.

`FolderBounded` and `BatchBounded` assume that a largest segment exists
(`SomeLargest`), which holds of any finite set of segments; without it `MaxSize`
means nothing.

Only model-checked: the liveness properties (`PlaintextDrains`, `SpoolCapRecurs`,
`Delivered`, `ExpiredDeleted`, `StallEnds`, `RecordingResumes`,
`ShutdownEnds`, `LoadAnswered`), which rest on fairness: ENABLED is out of TLAPS's
reach here. Every invariant and action property of a passing run has a theorem.

## 5. What is left

The components above are modelled as far as their control goes. What would come
next:

1. `Pipeline` with a name collision of two segments: `-strftime` has one-second
   resolution, names repeat in the hour the clock is set back, and
   `encrypt_pending` takes an existing `.gpg` for its own. It needs names apart from
   segments in every module.
2. Starvation: newest first with an endless stream of segments. It needs segments
   that are used again once they are gone.

## 6. Not modelled

* A signal that ends the Python process and not its children (`kill -9`, or a SIGTERM
  to it alone): gpg, `rclone move` and `rclone delete` are children of daemon threads
  (`main.py:166-171`), which nothing ends or waits for, and they go on beside those of
  the service that is started next. A second gpg then opens the `.part` that the first
  is still writing; two moves work on one spool, Drive may get two files of one name,
  and the folder bounds do not hold. (`systemd/` has units for `record` and `batch`
  only; they keep the default `KillMode`, which ends the whole control group.)
* mpv quitting by its own key: the next `player.play` raises.
* Times in `Recorder`: the poll interval, the stall limit, the backoff (and its
  reset after a minute) and the 15 s of `join` are delays of any length; the limit
  is a state of the file.
* In `Viewer`: the pause flag, the status line, the widgets and the listing of the
  directory; no step of the model depends on them.
* The text of stderr and its classification (`rclone.classify`): string search
  without state; what it decides is `auth` in the model. YAML parsing, logging,
  the command line, the exit codes, packaging.
* `rclone --retries 3` listing the spool again within one move: a file added
  meanwhile would be picked up by that move instead of the next.
* Durability of the file system (nothing is fsynced): a crash keeps what was
  renamed and unlinked.
* Files in the Drive folder that videobackup did not upload.
* Clock steps: mtimes and `now` come from one monotone clock. In particular the
  watchdog parses the local time in a segment's name; in the hour that repeats
  when the clock is set back every file looks an hour older than it is.
