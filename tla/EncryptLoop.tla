----------------------------- MODULE EncryptLoop -----------------------------
(***************************************************************************)
(* The encrypt thread (main.run_encrypt_loop): drop the raw segments that  *)
(* could never be uploaded, encrypt the closed ones, delete the plaintext. *)
(* epc = "prune" is the top of the loop; the wait of encrypt_interval      *)
(* seconds at its bottom is the arbitrary delay before the next pass.      *)
(***************************************************************************)
EXTENDS Spool

CONSTANT NameRank   \* position of each segment's name in sorted order

ASSUME NameRankAssumption ==
    /\ NameRank \in [Segment -> Nat]
    /\ \A s, t \in Segment : s # t => NameRank[s] # NameRank[t]

VARIABLES
    epc,    \* where the encrypt thread is
    todo,   \* listed segments still to visit that were closed at `now`
    cur     \* {s} while s is being encrypted, {} otherwise

encryptVars == <<epc, todo, cur>>

EncryptTypeOK ==
    /\ epc \in {"prune", "scan", "loop", "gpg", "unlink"}
    /\ todo \subseteq Segment
    /\ cur \subseteq Segment

EncryptInit == epc = "prune" /\ todo = {} /\ cur = {}

\* prune_raw_spool: a closed oversize segment goes, unless its unlink fails.
\* One that is still open goes if it has already outgrown the cap.
PruneRawSpool ==
    /\ epc = "prune"
    /\ LET oversize == SelectOversize(raw, MaxDriveBytes)
       IN  \E seen \in SUBSET oversize, failed \in UnlinkFails(oversize) :
              /\ \A s \in oversize \ seen : Open(s)
              /\ failed \subseteq seen
              /\ raw' = raw \ (seen \ failed)
              /\ gone' = gone \cup (seen \ failed)
              /\ Spend(failed)
    /\ epc' = "scan"
    /\ UNCHANGED <<seg, part, spool, remote, folder, auth, trash, clock,
                   cutoff, todo, cur>>

\* _is_closed
AnyListed(s) == s \in raw   \* mutant: no settle margin
IsClosed(s) == Settled(s)

\* The head of encrypt_pending: `now` is read once, the directory is listed
\* once, and each file's age is taken against that `now` when its turn comes.
\* A file that settles later is not closed for this pass, and one written to
\* again stops being closed (see TouchedAgain): todo keeps the others.
ListSegments ==
    /\ epc = "scan"
    /\ todo' = {s \in raw : IsClosed(s)}
    /\ epc' = "loop"
    /\ UNCHANGED <<spoolVars, cur>>

\* gpg is not on PATH: encrypt_pending raises and the pass is over.
GpgMissing ==
    /\ epc = "scan"
    /\ Fault("gpg")
    /\ epc' = "prune"
    /\ UNCHANGED <<seg, raw, part, spool, remote, folder, auth, trash, clock,
                   cutoff, gone, todo, cur>>

\* ffmpeg wrote to s again: `now - st_mtime` no longer reaches the margin.
TouchedAgain(s) == todo' = todo \ {s}

\* The segment whose turn it is: the names are sorted.
Turn(s) == epc = "loop" /\ s \in todo
           /\ \A t \in todo : NameRank[s] <= NameRank[t]

\* The encrypted file is there already: only the plaintext is left to delete.
SkipEncrypted(s) ==
    /\ Turn(s)
    /\ spool[s] > 0
    /\ raw' = raw \ {s}
    /\ todo' = todo \ {s}
    /\ UNCHANGED <<seg, part, spool, remote, folder, auth, trash, clock,
                   cutoff, gone, budget, epc, cur>>

\* gpg starts writing dest.part (--yes overwrites one a crash left behind).
StartGpgInPlace(s) ==   \* mutant: --output dest, without the .part
    /\ Turn(s)
    /\ spool[s] = 0
    /\ clock' = clock + 1
    /\ spool' = [spool EXCEPT ![s] = clock + 1]
    /\ cur' = {s}
    /\ todo' = todo \ {s}
    /\ epc' = "gpg"
    /\ UNCHANGED <<seg, raw, part, remote, folder, auth, trash, cutoff, gone,
                   budget>>

StartGpg(s) ==
    /\ Turn(s)
    /\ spool[s] = 0
    /\ part' = part \cup {s}
    /\ cur' = {s}
    /\ todo' = todo \ {s}
    /\ epc' = "gpg"
    /\ UNCHANGED <<seg, raw, spool, remote, folder, auth, trash, clock,
                   cutoff, gone, budget>>

\* gpg succeeded: tmp.replace(dest), in one rename.
RenameOldStamp(s) ==   \* mutant: the new file keeps an unissued mtime
    /\ epc = "gpg"
    /\ s \in cur
    /\ part' = part \ {s}
    /\ spool' = [spool EXCEPT ![s] = clock + 1]
    /\ epc' = "unlink"
    /\ UNCHANGED <<seg, raw, remote, folder, auth, trash, clock, cutoff, gone,
                   budget, todo, cur>>

CopyPart(s) ==   \* mutant: copies the .part to dest and leaves it
    /\ epc = "gpg"
    /\ s \in cur
    /\ clock' = clock + 1
    /\ spool' = [spool EXCEPT ![s] = clock + 1]
    /\ epc' = "unlink"
    /\ UNCHANGED <<seg, raw, part, remote, folder, auth, trash, cutoff, gone,
                   budget, todo, cur>>

RenamePart(s) ==
    /\ epc = "gpg"
    /\ s \in cur
    /\ part' = part \ {s}
    /\ clock' = clock + 1
    /\ spool' = [spool EXCEPT ![s] = clock + 1]
    /\ epc' = "unlink"
    /\ UNCHANGED <<seg, raw, remote, folder, auth, trash, cutoff, gone,
                   budget, todo, cur>>

\* gpg failed (bad key, full disk): the .part goes, the plaintext stays.
GpgFailsUnnoticed(s) ==   \* mutant: no `continue` after the error
    /\ epc = "gpg"
    /\ s \in cur
    /\ Fault("gpg")
    /\ part' = part \ {s}
    /\ epc' = "unlink"
    /\ UNCHANGED <<seg, raw, spool, remote, folder, auth, trash, clock,
                   cutoff, gone, todo, cur>>

GpgFails(s) ==
    /\ epc = "gpg"
    /\ s \in cur
    /\ Fault("gpg")
    /\ part' = part \ {s}
    /\ cur' = {}
    /\ epc' = "loop"
    /\ UNCHANGED <<seg, raw, spool, remote, folder, auth, trash, clock,
                   cutoff, gone, todo>>

\* src.unlink(missing_ok=True)
KeepPlaintext(s) ==   \* mutant: the unlink is forgotten
    /\ epc = "unlink"
    /\ s \in cur
    /\ cur' = {}
    /\ epc' = "loop"
    /\ UNCHANGED <<spoolVars, todo>>

UnlinkPlaintext(s) ==
    /\ epc = "unlink"
    /\ s \in cur
    /\ raw' = raw \ {s}
    /\ cur' = {}
    /\ epc' = "loop"
    /\ UNCHANGED <<seg, part, spool, remote, folder, auth, trash, clock,
                   cutoff, gone, budget, todo>>

\* An OSError that nothing in encrypt_pending catches: of either unlink of a
\* plaintext, of the rename, or of the unlink of a failed .part.  The rest of
\* the listing waits for the next pass.
FileOpPending == epc \in {"gpg", "unlink"} \/ \E s \in todo : Turn(s) /\ spool[s] > 0

PassEndsThread ==   \* mutant: the loop does not catch it
    /\ FileOpPending
    /\ Fault("unlink")
    /\ todo' = {}
    /\ cur' = {}
    /\ epc' = "dead"
    /\ UNCHANGED <<seg, raw, part, spool, remote, folder, auth, trash, clock,
                   cutoff, gone>>

PassRaises ==
    /\ FileOpPending
    /\ Fault("unlink")
    /\ todo' = {}
    /\ cur' = {}
    /\ epc' = "prune"
    /\ UNCHANGED <<seg, raw, part, spool, remote, folder, auth, trash, clock,
                   cutoff, gone>>

PassDone ==
    /\ epc = "loop"
    /\ todo = {}
    /\ epc' = "prune"
    /\ UNCHANGED <<spoolVars, todo, cur>>

EncryptSegment ==
    \E s \in Segment :
        \/ SkipEncrypted(s)
        \/ StartGpg(s)
        \/ RenamePart(s)
        \/ GpgFails(s)
        \/ UnlinkPlaintext(s)

EncryptNext ==
    \/ PruneRawSpool
    \/ ListSegments
    \/ GpgMissing
    \/ EncryptSegment
    \/ PassRaises
    \/ PassDone

\* The service has ended, and its gpg with it (CrashRestart says when that is
\* so): the thread's locals are lost, its files stay.
EncryptReset == epc' = "prune" /\ todo' = {} /\ cur' = {}
=============================================================================
