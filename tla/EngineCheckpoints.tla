-------------------------- MODULE EngineCheckpoints --------------------------
(***************************************************************************)
(* training_engine/checkpointing.py over an Orbax manager that saves in    *)
(* the background.  A checkpoint of a step is complete (micro = 0) or was  *)
(* taken inside the step, after so many micro-batches; a more complete one *)
(* replaces it, which takes a deletion and a new save.                     *)
(***************************************************************************)
EXTENDS Integers, FiniteSets

CONSTANTS
  Interval,      \* checkpoint_period
  Keep,          \* max_num_checkpoints_to_keep
  MetadataLag    \* whether the metadata of a save in flight may be unreadable

ASSUME CheckpointAssumption ==
  /\ Interval \in Nat \ {0}
  /\ Keep \in Nat \ {0}
  /\ MetadataLag \in BOOLEAN

VARIABLES
  disk,      \* the committed checkpoints
  saving     \* the one being written in the background, if any

checkpointVars == <<disk, saving>>

CheckpointInit == disk = {} /\ saving = {}

(* What the manager lists: a save in flight is in the list.                    *)
Listed == disk \cup saving

(* latest_step() = s                                                           *)
IsLatest(s) ==
  /\ \E c \in Listed : c.step = s
  /\ \A c \in Listed : c.step <= s

(* get_saved_micro_step_count: metadata that cannot be read counts as those of *)
(* a complete step.                                                            *)
SavedMicroStepCount(s) ==
  {c.micro : c \in {d \in Listed : d.step = s}}
    \cup (IF MetadataLag /\ \E c \in saving : c.step = s THEN {0} ELSE {})

(* Mutants: a complete step does not supersede; a complete step is superseded. *)
SupersedesFurther(micro, saved) == saved # 0 /\ micro > saved
SupersedesAny(micro, saved) == micro = 0 \/ micro > saved

(* A complete step is never superseded, a partial one by one that got further. *)
Supersedes(micro, saved) == saved # 0 /\ (micro = 0 \/ micro > saved)

(* save_checkpoint of a step that is listed already and not superseded.        *)
SkipSaved(c) ==
  /\ IsLatest(c.step)
  /\ \E saved \in SavedMicroStepCount(c.step) : ~Supersedes(c.micro, saved)
  /\ UNCHANGED checkpointVars

(* _delete_saved_step waits for the save in flight before it deletes.          *)
DeleteSuperseded(c) ==
  /\ IsLatest(c.step)
  /\ \E saved \in SavedMicroStepCount(c.step) : Supersedes(c.micro, saved)
  /\ saving = {}
  /\ disk' = {d \in disk : d.step # c.step}
  /\ UNCHANGED saving

(* The manager's own save: it waits for the save before, and declines a step   *)
(* that is not due unless it is forced.                                        *)
Due(c) == c.step % Interval = 0 /\ \A d \in Listed : d.step < c.step

(* Mutant: the force is lost on the way.                                       *)
StartSaveWhenDue(c, force) ==
  /\ saving = {}
  /\ saving' = IF Due(c) THEN {c} ELSE {}
  /\ UNCHANGED disk

StartSave(c, force) ==
  /\ saving = {}
  /\ saving' = IF force \/ Due(c) THEN {c} ELSE {}
  /\ UNCHANGED disk

Retained(cs) == {c \in cs : Cardinality({d \in cs : d.step > c.step}) < Keep}

CommitSave ==
  /\ saving # {}
  /\ disk' = Retained(disk \cup saving)
  /\ saving' = {}

LoseSave == saving' = {} /\ UNCHANGED disk
=============================================================================
