--------------------------- MODULE SampleCommand ---------------------------
(***************************************************************************)
(* The command sample-metadata, run after run: recover what earlier runs   *)
(* left, download through a session whose caller is the sampler, and       *)
(* publish or give up.  A crash loses everything but the published         *)
(* outputs, the transaction directories and the image cache.               *)
(*                                                                         *)
(* Publishing replaces the outputs of an earlier run.  Every run has a     *)
(* transaction directory next to them: the staged outputs, a list of the   *)
(* items, a state file and a backup of what was published before.  A run   *)
(* starts by finishing or undoing the transactions it finds.               *)
(***************************************************************************)
EXTENDS ImageSession

CONSTANTS
    Items,               \* the outputs of a bundle, a sequence
    MaxRuns,             \* bound: runs of the program, one after another
    MaxCrashes,          \* bound: crashes outside a recovery
    MaxRecoveryCrashes,  \* bound: crashes while a recovery undoes a commit
    MaxFileErrors,       \* bound: file operations of a commit that fail
    NoFile

ASSUME BundleAssumption ==
    /\ Items \in Seq({Items[i] : i \in DOMAIN Items})
    /\ \A i, j \in DOMAIN Items : Items[i] = Items[j] => i = j
    /\ MaxRuns \in Nat \ {0}
    /\ NoFile \notin 0..MaxRuns

VARIABLES
    stage,      \* what the running program does
    run,        \* number of the run
    idx,        \* position in Items of a loop over them
    rec,        \* the transaction being recovered
    out,        \* per item: the run whose version is published
    tx,         \* per run: its transaction directory
    dirs,       \* the runs whose directory exists
    expected,   \* the version that was last completely published (history)
    crashes, recoveryCrashes, fileErrors

bundleVars == <<stage, run, idx, rec, out, tx, dirs, expected,
                crashes, recoveryCrashes, fileErrors>>

Runs == 1..MaxRuns

Names == {Items[i] : i \in DOMAIN Items}

Versions == 0..MaxRuns \union {NoFile}

EmptyTx == [state |-> "none", items |-> FALSE, staged |-> {},
            backup |-> [n \in Names |-> NoFile]]

\* Nothing was published yet, or a bundle was.
BundleInit ==
    /\ stage = "start"
    /\ run = 1
    /\ idx = 0
    /\ rec = 0
    /\ expected \in {0, NoFile}
    /\ out = [n \in Names |-> expected]
    /\ tx = [r \in Runs |-> EmptyTx]
    /\ dirs = {}
    /\ crashes = 0
    /\ recoveryCrashes = 0
    /\ fileErrors = 0

----------------------------------------------------------------------------
(* Recovery, at the start of a run                                         *)

\* A directory without a state file is left alone.
Transactions == {r \in dirs : tx[r].state # "none"}

StartRecovery ==
    /\ stage = "start"
    /\ \E r \in Transactions :
        /\ rec' = r
        /\ idx' = Len(Items)
        /\ stage' = IF tx[r].state = "committed" THEN "clean"
                    ELSE IF tx[r].items THEN "undo"
                    ELSE "ended"   \* the item list cannot be read
    /\ UNCHANGED <<run, out, tx, dirs, expected, crashes, recoveryCrashes, fileErrors>>

\* Mutant: what was backed up comes back, what was new stays.
UndoBackupOnly ==
    /\ stage = "undo" /\ idx > 0
    /\ LET n == Items[idx]
       IN /\ out' = IF tx[rec].backup[n] # NoFile THEN [out EXCEPT ![n] = tx[rec].backup[n]]
                    ELSE out
          /\ tx' = [tx EXCEPT ![rec].backup[n] = NoFile]
    /\ idx' = idx - 1
    /\ UNCHANGED <<stage, run, rec, dirs, expected, crashes, recoveryCrashes, fileErrors>>

\* recover_sample_transaction, last item first: what was backed up comes back
\* and what was installed without a predecessor goes.
UndoItem ==
    /\ stage = "undo" /\ idx > 0
    /\ LET n == Items[idx]
       IN /\ out' = IF tx[rec].backup[n] # NoFile THEN [out EXCEPT ![n] = tx[rec].backup[n]]
                    ELSE IF n \notin tx[rec].staged THEN [out EXCEPT ![n] = NoFile]
                    ELSE out
          /\ tx' = [tx EXCEPT ![rec].backup[n] = NoFile]
    /\ idx' = idx - 1
    /\ UNCHANGED <<stage, run, rec, dirs, expected, crashes, recoveryCrashes, fileErrors>>

UndoEnds ==
    /\ stage = "undo" /\ idx = 0
    /\ stage' = "clean"
    /\ UNCHANGED <<run, idx, rec, out, tx, dirs, expected, crashes, recoveryCrashes,
                   fileErrors>>

\* remove_dir_all removes the entries in no particular order.
RemoveEntry(r) ==
    \/ /\ tx[r].state # "none"
       /\ tx' = [tx EXCEPT ![r].state = "none"]
    \/ /\ tx[r].items
       /\ tx' = [tx EXCEPT ![r].items = FALSE]
    \/ \E n \in tx[r].staged : tx' = [tx EXCEPT ![r].staged = @ \ {n}]
    \/ \E n \in Names :
        /\ tx[r].backup[n] # NoFile
        /\ tx' = [tx EXCEPT ![r].backup[n] = NoFile]

\* The directory itself goes last, and the program goes on to next.
RemoveDir(r, next) ==
    \/ /\ RemoveEntry(r)
       /\ UNCHANGED <<stage, dirs>>
    \/ /\ tx[r] = EmptyTx
       /\ dirs' = dirs \ {r}
       /\ stage' = next
       /\ UNCHANGED tx

Clean ==
    /\ stage = "clean"
    /\ RemoveDir(rec, "start")
    /\ UNCHANGED <<run, idx, rec, out, expected, crashes, recoveryCrashes, fileErrors>>

\* With nothing left to recover the run makes its own directory.
OpenStaging ==
    /\ stage = "start" /\ Transactions = {}
    /\ dirs' = dirs \union {run}
    /\ stage' = "session"
    /\ UNCHANGED <<run, idx, rec, out, tx, expected, crashes, recoveryCrashes, fileErrors>>

----------------------------------------------------------------------------
(* Publishing                                                              *)

\* publish_staged_pairs lays out every output of the bundle, then the list of
\* its items is written.
StageOutputs ==
    /\ tx' = [tx EXCEPT ![run].staged = Names, ![run].items = TRUE]
    /\ stage' = "prepared"
    /\ UNCHANGED <<run, idx, rec, out, dirs, expected, crashes, recoveryCrashes, fileErrors>>

BeginCommit ==
    /\ stage = "prepared"
    /\ tx' = [tx EXCEPT ![run].state = "committing"]
    /\ idx' = 1
    /\ stage' = "backup"
    /\ UNCHANGED <<run, rec, out, dirs, expected, crashes, recoveryCrashes, fileErrors>>

\* A published item moves into the backup.
Backup ==
    /\ stage = "backup" /\ idx <= Len(Items)
    /\ out' = [out EXCEPT ![Items[idx]] = NoFile]
    /\ tx' = [tx EXCEPT ![run].backup[Items[idx]] = out[Items[idx]]]
    /\ idx' = idx + 1
    /\ UNCHANGED <<stage, run, rec, dirs, expected, crashes, recoveryCrashes, fileErrors>>

BackupEnds ==
    /\ stage = "backup" /\ idx > Len(Items)
    /\ idx' = 1
    /\ stage' = "install"
    /\ UNCHANGED <<run, rec, out, tx, dirs, expected, crashes, recoveryCrashes, fileErrors>>

\* A staged item moves to where outputs are published.
Install ==
    /\ stage = "install" /\ idx <= Len(Items)
    /\ out' = [out EXCEPT ![Items[idx]] = run]
    /\ tx' = [tx EXCEPT ![run].staged = @ \ {Items[idx]}]
    /\ idx' = idx + 1
    /\ UNCHANGED <<stage, run, rec, dirs, expected, crashes, recoveryCrashes, fileErrors>>

Committed ==
    /\ stage = "install" /\ idx > Len(Items)
    /\ tx' = [tx EXCEPT ![run].state = "committed"]
    /\ expected' = run
    /\ stage' = "tidy"
    /\ UNCHANGED <<run, idx, rec, out, dirs, crashes, recoveryCrashes, fileErrors>>

\* A rename fails: what was done is undone, installed items first.
FileError ==
    /\ stage \in {"backup", "install"} /\ fileErrors < MaxFileErrors
    /\ idx <= Len(Items)
    /\ fileErrors' = fileErrors + 1
    /\ stage' = "rollback"
    /\ UNCHANGED <<run, idx, rec, out, tx, dirs, expected, crashes, recoveryCrashes>>

Installed == {n \in Names : out[n] = run}

BackedUp == {n \in Names : tx[run].backup[n] # NoFile}

\* restore_sample_bundle
Restore ==
    /\ stage = "rollback"
    /\ \/ \E n \in Installed :
            /\ out' = [out EXCEPT ![n] = NoFile]
            /\ tx' = [tx EXCEPT ![run].staged = @ \union {n}]
       \/ \E n \in BackedUp :
            /\ Installed = {}
            /\ out' = [out EXCEPT ![n] = tx[run].backup[n]]
            /\ tx' = [tx EXCEPT ![run].backup[n] = NoFile]
    /\ UNCHANGED <<stage, run, idx, rec, dirs, expected, crashes, recoveryCrashes, fileErrors>>

\* Restored, or the restore itself failed: the transaction stays for the next
\* run to recover.
RestoreEnds ==
    /\ stage = "rollback"
    /\ Installed \union BackedUp = {} \/ fileErrors < MaxFileErrors
    /\ fileErrors' = IF Installed \union BackedUp = {} THEN fileErrors ELSE fileErrors + 1
    /\ stage' = "ended"
    /\ UNCHANGED <<run, idx, rec, out, tx, dirs, expected, crashes, recoveryCrashes>>

\* finish() removes the directory of a committed bundle, Drop the directory
\* of a run that publishes nothing.
Tidy ==
    /\ stage = "tidy"
    /\ RemoveDir(run, "ended")
    /\ UNCHANGED <<run, idx, rec, out, expected, crashes, recoveryCrashes, fileErrors>>

----------------------------------------------------------------------------
(* Crashes and new runs                                                    *)

Undoing == stage = "undo" \/ (stage = "clean" /\ expected # rec)

Crash ==
    /\ stage # "ended"
    /\ IF Undoing
       THEN /\ recoveryCrashes < MaxRecoveryCrashes
            /\ recoveryCrashes' = recoveryCrashes + 1
            /\ UNCHANGED crashes
       ELSE /\ crashes < MaxCrashes
            /\ crashes' = crashes + 1
            /\ UNCHANGED recoveryCrashes
    /\ stage' = "ended"
    /\ UNCHANGED <<run, idx, rec, out, tx, dirs, expected, fileErrors>>

NextRun ==
    /\ stage = "ended" /\ run < MaxRuns
    /\ run' = run + 1
    /\ stage' = "start"
    /\ idx' = 0
    /\ rec' = 0
    /\ UNCHANGED <<out, tx, dirs, expected, crashes, recoveryCrashes, fileErrors>>

BundleStep ==
    \/ StartRecovery \/ UndoItem \/ UndoEnds \/ Clean \/ OpenStaging
    \/ BeginCommit \/ Backup \/ BackupEnds \/ Install \/ Committed
    \/ FileError \/ Restore \/ RestoreEnds \/ Tidy
----------------------------------------------------------------------------
(* Sampling replaces the whole bundle or nothing: once a run has recovered *)
(* what it found, or has published, the outputs are all of the version     *)
(* whose commit was completed last, whatever failed or crashed before.     *)
PublishedWhole ==
    stage \in {"session", "prepared", "tidy"} => \A n \in Names : out[n] = expected

----------------------------------------------------------------------------
(* The bundle with the session that fills it                               *)

commandVars == <<sessionVars, bundleVars>>

CommandInit ==
    /\ SessionInit
    /\ cached = {}
    /\ BundleInit

InSession ==
    /\ stage = "session"
    /\ SessionNext
    /\ UNCHANGED bundleVars

\* Nothing of a session outlives it but the image cache.
SessionGone == SessionReset /\ UNCHANGED cached

\* finish(): with enough pairs the bundle of the session is published.
Publish ==
    /\ stage = "session" /\ main = "closed" /\ ~cancelled
    /\ staged # {}
    /\ StageOutputs
    /\ SessionGone

\* Too few pairs, an error or an interrupt: nothing is published.
GiveUp ==
    /\ stage = "session" /\ main = "closed"
    /\ stage' = "tidy"
    /\ SessionGone
    /\ UNCHANGED <<run, idx, rec, out, tx, dirs, expected, crashes, recoveryCrashes,
                   fileErrors>>

OnDisk == BundleStep /\ UNCHANGED sessionVars

Crashes == Crash /\ SessionGone

Restart == NextRun /\ UNCHANGED sessionVars

CommandNext == InSession \/ Publish \/ GiveUp \/ OnDisk \/ Crashes \/ Restart

CommandSpec == CommandInit /\ [][CommandNext]_commandVars

\* While a session runs its workers run, a poll takes its turns, and the
\* sampler polls as long as it has pairs without an answer.  The time of a
\* retry comes, and the next turn of a poll sends it.
CommandFairSpec ==
    /\ CommandSpec
    /\ WF_commandVars((\E w \in ImageWorkers : WorkerStep(w)) /\ InSession)
    /\ WF_commandVars(PollTurn /\ InSession)
    /\ SF_commandVars(RetryDue /\ InSession)
    /\ WF_commandVars((Joined \/ (cancelled /\ Close)) /\ InSession)
    /\ WF_commandVars(pending # {} /\ (\E wait \in BOOLEAN : StartPoll(wait)) /\ InSession)

----------------------------------------------------------------------------
(* A submitted pair is answered while the sampler keeps polling, whatever  *)
(* becomes of its images, unless the session ends or the program dies.     *)
EveryPairAnswered ==
    \A c \in Candidates : c \in pending ~> c \notin pending \/ ~Open \/ cancelled
                                                           \/ stage # "session"

(* Ending a session ends: every worker notices the flag or the closed      *)
(* channel, whatever it was doing and however many jobs were left.         *)
ClosingEnds == main = "closing" ~> main = "closed" \/ stage # "session"
============================================================================
