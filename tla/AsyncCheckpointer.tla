-------------------------- MODULE AsyncCheckpointer --------------------------
(***************************************************************************)
(* The persistent checkpoints of a run, as common/checkpointing.py sees    *)
(* them through the Orbax Checkpointer.  A save copies the state to the    *)
(* host, returns, and is written by a background thread; an error in the   *)
(* background surfaces on the next save or wait.  On GCS the step          *)
(* directory exists from the start and only gets its commit_success marker *)
(* at the end; elsewhere the directory appears by a rename at the end.     *)
(*                                                                         *)
(* The module has the operations, not a specification: ElasticTraining     *)
(* composes them with the training loop and the snapshotter.               *)
(***************************************************************************)
EXTENDS Backups

CONSTANTS OnGCS          \* checkpoint_dir starts with gs://

VARIABLES
  latest,      \* the complete checkpoint with the largest step, or Scratch
  steps,       \* the steps of all complete checkpoints
  saving,      \* the save this attempt's checkpointer is writing, or Scratch
  saveFailed,  \* a background error nobody has waited for yet
  partial,     \* step directories without commit_success (on GCS)
  orphans      \* saves still being written for an attempt that is over

ckptVars == <<latest, steps, saving, saveFailed, partial, orphans>>

CheckpointerTypeOK ==
  /\ latest \in BackupOrScratch
  /\ steps \subseteq Nat
  /\ saving \in BackupOrScratch
  /\ saveFailed \in BOOLEAN
  /\ partial \subseteq Nat
  /\ orphans \subseteq Backup

CheckpointerInit ==
  /\ latest = Scratch
  /\ steps = {}
  /\ saving = Scratch
  /\ saveFailed = FALSE
  /\ partial = {}
  /\ orphans = {}

IsSavingInProgress == saving # Scratch

(* save_checkpointables_async: one save at a time, so the caller first waits   *)
(* for the previous one.                                                       *)
StartSave(b) ==
  /\ ~IsSavingInProgress
  /\ saving' = b
  /\ partial' = IF OnGCS THEN partial \cup {b.step} ELSE partial
  /\ UNCHANGED <<latest, steps, saveFailed, orphans>>

Commit(b) ==
  /\ latest' = Later(latest, b)
  /\ steps' = steps \cup {b.step}
  /\ partial' = partial \ {b.step}

(* The background thread finishes, or gives up and leaves the error behind.    *)
SaveCommits ==
  /\ IsSavingInProgress
  /\ Commit(saving)
  /\ saving' = Scratch
  /\ UNCHANGED <<saveFailed, orphans>>

SaveFails ==
  /\ IsSavingInProgress
  /\ saving' = Scratch
  /\ saveFailed' = TRUE
  /\ UNCHANGED <<latest, steps, partial, orphans>>

(* The same for a save whose attempt is over: nobody sees its error.           *)
OrphanEnds ==
  \E b \in orphans :
    /\ orphans' = orphans \ {b}
    /\ \/ Commit(b)
       \/ UNCHANGED <<latest, steps, partial>>
    /\ UNCHANGED <<saving, saveFailed>>

(* wait_until_finished.  It returns, or raises the background error.           *)
Drained == ~IsSavingInProgress /\ ~saveFailed
WaitRaises == ~IsSavingInProgress /\ saveFailed

(* Mutant: nothing is cleaned up.                                              *)
NoCleanUp(dirs) == dirs

(* clean_up_incomplete_checkpoints: only on GCS, only the directory with the   *)
(* largest step, and only if it has no marker.                                 *)
CleanUpIncompleteCheckpoints(dirs) ==
  IF OnGCS
    THEN {s \in dirs : \/ \E t \in dirs \cup steps : t > s
                       \/ s \in steps}
    ELSE dirs

(* An elastic event abandons the attempt's checkpointer; the save it was       *)
(* writing is cleaned up with its directory, or goes on without an owner.      *)
AbandonCheckpointer ==
  /\ partial' = CleanUpIncompleteCheckpoints(partial)
  /\ orphans' = IF IsSavingInProgress /\ (OnGCS => saving.step \in partial')
                  THEN orphans \cup {saving}
                  ELSE orphans
  /\ saving' = Scratch
  /\ saveFailed' = FALSE
  /\ UNCHANGED <<latest, steps>>
=============================================================================
