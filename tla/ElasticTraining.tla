--------------------------- MODULE ElasticTraining ---------------------------
(***************************************************************************)
(* The pre-training loop of MaxText under elastic training on Pathways:    *)
(* trainers/pre_train/train.py with the checkpoints, the in-memory         *)
(* snapshots and the retries of utils/elastic_utils.py.  One controller    *)
(* thread runs attempts of the loop; slices come and go around it, and two *)
(* background threads write its checkpoints and snapshots.                 *)
(*                                                                         *)
(* Main-thread control is pc; call remembers which of the three callers of *)
(* maybe_save_checkpoint is inside it.                                     *)
(***************************************************************************)
EXTENDS FiniteSets, AsyncCheckpointer, HostSnapshotter

CONSTANTS
  MinSlices,          \* slices an attempt waits for (elastic_min_slice_count)
  MaxRetries,         \* elastic_max_retries: attempts of one run
  Steps,              \* config.steps
  CheckpointPeriod,
  SnapshotInterval,
  Checkpointing,      \* there is a checkpoint manager
  SnapshotMode,       \* elastic_backup_kind = "snapshot"
  SaveOnStart,
  SaveOnCompletion,
  Preemptible         \* the job may receive SIGTERM

ASSUME ConfigAssumption ==
  /\ IsFiniteSet(Slices)
  /\ MinSlices \in 1 .. Cardinality(Slices)
  /\ MaxRetries \in Nat \ {0}
  /\ Steps \in Nat \ {0}
  /\ CheckpointPeriod \in Nat \ {0}
  /\ SnapshotInterval \in Nat \ {0}
  /\ {OnGCS, Checkpointing, SnapshotMode, SaveOnStart, SaveOnCompletion,
      Preemptible} \subseteq BOOLEAN

VARIABLES
  alive,       \* the slices Pathways has up now
  active,      \* the slices of the current attempt
  lost,        \* a slice of this attempt went down since it started
  preempted,   \* SIGTERM arrived
  attempt,     \* the number of the current attempt
  event,       \* why the last attempt was interrupted
  n,           \* state.optimizer.step: the steps the train state has done
  pos,         \* the position of the data iterator
  peak,        \* the most steps any train state of this run has done
  pc, call

envVars == <<alive, preempted>>
runVars == <<active, lost, attempt, event>>
dataVars == <<n, pos, peak>>
vars == <<ckptVars, snapVars, envVars, runVars, dataVars, pc, call>>

(* The step that just finished; backups of it carry this number.               *)
step == n - 1
CurrentBackup == [step |-> step, pos |-> pos]

Callers == {"loop", "scale_up", "completion"}
BlockedInJoin == {"join", "join_own"}
InAttempt == {"restore", "load", "train", "save", "guard", "settle", "snap",
              "backup", "join", "join_own", "raise", "complete", "drain"}
Finished == {"done", "stopped", "failed"}

TypeOK ==
  /\ CheckpointerTypeOK
  /\ SnapshotterTypeOK
  /\ alive \subseteq Slices /\ active \subseteq Slices
  /\ lost \in BOOLEAN /\ preempted \in BOOLEAN
  /\ attempt \in 1 .. MaxRetries
  /\ event \in {"none", "slice_down", "scale_up"}
  /\ n \in 0 .. Steps /\ pos \in Nat /\ peak \in 0 .. Steps
  /\ pc \in InAttempt \cup Finished \cup {"wait", "event"}
  /\ call \in Callers

Init ==
  /\ CheckpointerInit
  /\ SnapshotterInit
  /\ alive \in SUBSET Slices
  /\ active = {} /\ lost = FALSE /\ preempted = FALSE
  /\ attempt = 1 /\ event = "none"
  /\ n = 0 /\ pos = 0 /\ peak = 0
  /\ pc = "wait" /\ call = "loop"

Goto(label) == pc' = label /\ UNCHANGED <<envVars, runVars, call>>

-----------------------------------------------------------------------------
(* The slices and the signal.                                                  *)

SliceDies(s) ==
  /\ s \in alive
  /\ alive' = alive \ {s}
  /\ LoseReplica(s)
  /\ lost' = (lost \/ s \in active)
  /\ UNCHANGED <<ckptVars, preempted, active, attempt, event, dataVars, pc, call>>

SliceReturns(s) ==
  /\ s \notin alive
  /\ alive' = alive \cup {s}
  /\ UNCHANGED <<ckptVars, snapVars, preempted, runVars, dataVars, pc, call>>

Preempt ==
  /\ Preemptible /\ ~preempted
  /\ preempted' = TRUE
  /\ UNCHANGED <<ckptVars, snapVars, alive, runVars, dataVars, pc, call>>

(* elastic_manager.available_inactive_slices                                   *)
IsScaleUpEvent == alive \ active # {}

-----------------------------------------------------------------------------
(* elastic_retry: wait for slices, run an attempt, handle the event.           *)

SlicesReady ==
  /\ pc = "wait"
  /\ Cardinality(alive) >= MinSlices
  /\ active' = alive
  /\ lost' = FALSE
  /\ pc' = "restore"
  /\ UNCHANGED <<ckptVars, snapVars, envVars, attempt, event, dataVars, call>>

(* Mutant: elastic_timeout_seconds is not passed on.                           *)
WaitNeverTimesOut == FALSE

WaitTimesOut ==
  /\ pc = "wait"
  /\ Cardinality(alive) < MinSlices
  /\ Goto("failed")
  /\ UNCHANGED <<ckptVars, snapVars, dataVars>>

Interrupt(kind) ==
  /\ pc' = "event"
  /\ event' = kind
  /\ UNCHANGED <<envVars, active, lost, attempt, call>>

(* A JaxRuntimeError reaches the main thread, unless it sits in join().        *)
SliceDownRaised ==
  /\ lost
  /\ pc \in InAttempt \ BlockedInJoin
  /\ Interrupt("slice_down")
  /\ UNCHANGED <<ckptVars, snapVars, dataVars>>

(* effective_callback runs between two attempts, not after the last one.       *)
OnElasticEvent ==
  /\ pc = "event" /\ attempt < MaxRetries
  /\ AbandonCheckpointer
  /\ IF event = "slice_down" THEN ResetSnapshotter ELSE UNCHANGED snapVars
  /\ attempt' = attempt + 1
  /\ pc' = "wait"
  /\ UNCHANGED <<envVars, active, lost, event, dataVars, call>>

RetriesExhausted ==
  /\ pc = "event" /\ attempt = MaxRetries
  /\ Goto("failed")
  /\ UNCHANGED <<ckptVars, snapVars, dataVars>>

-----------------------------------------------------------------------------
(* setup_train_loop: what the attempt resumes from.                            *)

(* Mutant: the snapshot always wins.                                           *)
AlwaysRestoreSnapshot == SnapshotMode /\ snapshot # Scratch

ShouldRestoreSnapshot ==
  /\ SnapshotMode
  /\ snapshot # Scratch
  /\ Checkpointing => latest.step <= snapshot.step

(* Mutant: the iterator state in the snapshot is not given to the iterator.    *)
RestoreWithoutSetState ==
  /\ pc = "restore"
  /\ \E loaded \in BOOLEAN :
       LET source == IF loaded THEN snapshot ELSE latest
       IN  /\ loaded => ShouldRestoreSnapshot /\ Loadable
           /\ IF Completed(latest) >= Steps \/ Completed(source) >= Steps
                THEN Goto("failed") /\ UNCHANGED <<n, pos>>
                ELSE /\ n' = Completed(source)
                     /\ pos' = IF loaded THEN 0 ELSE source.pos
                     /\ Goto("load")
  /\ UNCHANGED <<ckptVars, snapVars, peak>>

(* Snapshot, else checkpoint, else the initial state with a new iterator; a    *)
(* run that has all its steps is refused by validate_completed_steps.          *)
Restore ==
  /\ pc = "restore"
  /\ \E loaded \in BOOLEAN :
       LET source == IF loaded THEN snapshot ELSE latest
       IN  /\ loaded => ShouldRestoreSnapshot /\ Loadable
           /\ IF Completed(latest) >= Steps \/ Completed(source) >= Steps
                THEN Goto("failed") /\ UNCHANGED <<n, pos>>
                ELSE /\ n' = Completed(source)
                     /\ pos' = source.pos
                     /\ Goto("load")
  /\ UNCHANGED <<ckptVars, snapVars, peak>>

-----------------------------------------------------------------------------
(* training_loop_iteration                                                     *)

(* Mutant: the loop condition is step <= steps.                                *)
LoadOneBatchTooMany ==
  /\ pc = "load"
  /\ IF n <= Steps THEN pos' = pos + 1 /\ Goto("train")
                   ELSE Goto("complete") /\ UNCHANGED pos
  /\ UNCHANGED <<ckptVars, snapVars, n, peak>>

LoadNextBatch ==
  /\ pc = "load"
  /\ IF n < Steps THEN pos' = pos + 1 /\ Goto("train")
                  ELSE Goto("complete") /\ UNCHANGED pos
  /\ UNCHANGED <<ckptVars, snapVars, n, peak>>

(* The iterator is exhausted or fails: StopTraining, a graceful end.           *)
LoaderStops ==
  /\ pc = "load" /\ n < Steps
  /\ Goto("stopped")
  /\ UNCHANGED <<ckptVars, snapVars, dataVars>>

(* The step is dispatched and runs asynchronously: that a slice is gone shows  *)
(* only when something waits for its result.                                   *)
TrainStep ==
  /\ pc = "train"
  /\ n' = n + 1
  /\ peak' = IF n' > peak THEN n' ELSE peak
  /\ pc' = "save" /\ call' = "loop"
  /\ UNCHANGED <<ckptVars, snapVars, envVars, runVars, pos>>

MaybeSaveSnapshot ==
  /\ pc = "snap"
  /\ IF /\ SnapshotMode
        /\ step % SnapshotInterval = 0
        /\ ~IsSavingInProgress
       THEN SaveSnapshot(CurrentBackup, active, lost)
       ELSE UNCHANGED snapVars
  /\ Goto("backup")
  /\ UNCHANGED <<ckptVars, dataVars>>

(* maybe_back_up_and_scale_up, up to the branch it takes.                      *)
MaybeBackUp ==
  /\ pc = "backup"
  /\ IF ~(n < Steps /\ IsScaleUpEvent /\ (SnapshotMode \/ Checkpointing))
       THEN Goto("load")
       ELSE IF SnapshotMode
              THEN Goto("join")
              ELSE /\ pc' = "save" /\ call' = "scale_up"
                   /\ UNCHANGED <<envVars, runVars>>
  /\ UNCHANGED <<ckptVars, snapVars, dataVars>>

(* Snapshot mode waits for the checkpoint and for the snapshot in the queue,   *)
(* and snapshots this step unless that was it.                                 *)
JoinSnapshotter ==
  /\ pc = "join" /\ Drained /\ Joined
  /\ IF snapshot.step # step
       THEN SaveSnapshot(CurrentBackup, active, lost) /\ Goto("join_own")
       ELSE UNCHANGED snapVars /\ Goto("raise")
  /\ UNCHANGED <<ckptVars, dataVars>>

JoinOwnSnapshot ==
  /\ pc = "join_own" /\ Joined
  /\ Goto("raise")
  /\ UNCHANGED <<ckptVars, snapVars, dataVars>>

-----------------------------------------------------------------------------
(* maybe_save_checkpoint, for the loop, for a scale-up and for the end.        *)

Forced == call # "loop" /\ step # -1 /\ step % CheckpointPeriod # 0

SaveDue ==
  \/ Forced
  \/ step % CheckpointPeriod = 0 /\ (step = 0 => SaveOnStart)

Return == [loop |-> "snap", scale_up |-> "raise", completion |-> "drain"][call]

(* The step is in the directory already; a save in flight may count as there.  *)
SkipSave ==
  /\ pc = "save"
  /\ \/ ~Checkpointing
     \/ SaveDue /\ (step \in steps \/ saving.step = step)
  /\ Goto(Return)
  /\ UNCHANGED <<ckptVars, snapVars, dataVars>>

SaveNotDue ==
  /\ pc = "save" /\ Checkpointing /\ ~SaveDue
  /\ Goto("settle")
  /\ UNCHANGED <<ckptVars, snapVars, dataVars>>

(* block_until_ready and the wait for the previous save come first; when that  *)
(* one is for this very step, StepAlreadyExistsError is caught instead.        *)
SaveCheckpoint ==
  /\ pc = "save" /\ Checkpointing /\ SaveDue
  /\ step \notin steps /\ ~lost
  /\ \/ Drained /\ StartSave(CurrentBackup)
     \/ saving.step = step /\ UNCHANGED ckptVars
  /\ Goto("guard")
  /\ UNCHANGED <<snapVars, dataVars>>

(* checkpoint_exception_guard: the save went well, so scale up if asked to.    *)
GuardPasses ==
  /\ pc = "guard" /\ ~IsScaleUpEvent
  /\ Goto("settle")
  /\ UNCHANGED <<ckptVars, snapVars, dataVars>>

(* _handle_post_checkpoint_preemption                                          *)
Settle ==
  /\ pc = "settle"
  /\ Forced \/ preempted => Drained
  /\ Goto(IF preempted THEN "stopped" ELSE Return)
  /\ UNCHANGED <<ckptVars, snapVars, dataVars>>

(* Mutant: no wait for the checkpoint before the interruption.                 *)
ScaleUpWithoutWait ==
  /\ pc \in {"guard", "raise"} /\ IsScaleUpEvent
  /\ Interrupt("scale_up")
  /\ UNCHANGED <<ckptVars, snapVars, dataVars>>

(* maybe_elastic_scale_up: wait for the checkpoint, then raise.                *)
ScaleUp ==
  /\ pc \in {"guard", "raise"} /\ IsScaleUpEvent
  /\ Drained
  /\ Interrupt("scale_up")
  /\ UNCHANGED <<ckptVars, snapVars, dataVars>>

(* The new slices went away again after the backup.                            *)
NoScaleUp ==
  /\ pc = "raise" /\ ~IsScaleUpEvent
  /\ Goto("load")
  /\ UNCHANGED <<ckptVars, snapVars, dataVars>>

-----------------------------------------------------------------------------
(* After the last step.                                                        *)

Complete ==
  /\ pc = "complete"
  /\ IF SaveOnCompletion THEN pc' = "save" /\ call' = "completion"
                         ELSE pc' = "drain" /\ UNCHANGED call
  /\ UNCHANGED <<ckptVars, snapVars, envVars, runVars, dataVars>>

(* Mutant: no wait for the last periodic save.                                 *)
NoDrain ==
  /\ pc = "drain"
  /\ Goto("done")
  /\ UNCHANGED <<ckptVars, snapVars, dataVars>>

Drain ==
  /\ pc = "drain" /\ Drained
  /\ Goto("done")
  /\ UNCHANGED <<ckptVars, snapVars, dataVars>>

(* Each place that saves or waits raises a background error, which is not an   *)
(* elastic one and ends the job.                                               *)
Waiting ==
  \/ pc \in {"join", "drain"}
  \/ pc = "save" /\ Checkpointing /\ SaveDue /\ step \notin steps
  \/ pc \in {"guard", "raise"} /\ IsScaleUpEvent
  \/ pc = "settle" /\ (Forced \/ preempted)

SaveErrorRaised ==
  /\ Waiting /\ WaitRaises
  /\ Goto("failed")
  /\ UNCHANGED <<ckptVars, snapVars, dataVars>>

-----------------------------------------------------------------------------
MainThread ==
  \/ SlicesReady \/ WaitTimesOut \/ OnElasticEvent \/ RetriesExhausted
  \/ Restore \/ LoadNextBatch \/ LoaderStops \/ TrainStep \/ MaybeSaveSnapshot
  \/ MaybeBackUp \/ JoinSnapshotter \/ JoinOwnSnapshot
  \/ SkipSave \/ SaveNotDue \/ SaveCheckpoint \/ GuardPasses \/ Settle
  \/ ScaleUp \/ NoScaleUp \/ Complete \/ Drain
  \/ SaveErrorRaised \/ SliceDownRaised

WriterThread ==
  /\ SaveCommits \/ SaveFails \/ OrphanEnds
  /\ UNCHANGED <<snapVars, envVars, runVars, dataVars, pc, call>>

SnapshotThread ==
  /\ CopyCompletes \/ CopyFails \/ CopyHangs
  /\ UNCHANGED <<ckptVars, envVars, runVars, dataVars, pc, call>>

Environment ==
  \/ \E s \in Slices : SliceDies(s) \/ SliceReturns(s)
  \/ Preempt

Next == MainThread \/ WriterThread \/ SnapshotThread \/ Environment

Spec == Init /\ [][Next]_vars

(* Python threads are scheduled fairly; slices and signals promise nothing.    *)
FairSpec ==
  /\ Spec
  /\ WF_vars(MainThread)
  /\ WF_vars(WriterThread /\ saving' # saving)
  /\ WF_vars(SnapshotThread)
-----------------------------------------------------------------------------
(* What the composition promises.                                              *)

Phase ==
  IF pc \in {"wait", "restore", "event"} THEN "down"
  ELSE IF pc \in Finished THEN "over" ELSE "up"

Resumable == INSTANCE ResumableTraining
               WITH trained <- n, durable <- Completed(latest), phase <- Phase

(* The whole program, with its two kinds of backup, its background threads and *)
(* its retries, is a resumable training run: every attempt resumes from a      *)
(* state that was trained, at or after the newest complete checkpoint, and     *)
(* below the last step; checkpointed progress never goes back.  This is what   *)
(* should_restore_snapshot, load_state_if_possible, the save guards and        *)
(* clean_up_incomplete_checkpoints have to achieve together.                   *)
RefinesResumable == Resumable!Spec

AllBackups == ({latest, saving, snapshot, copying} \cup orphans) \ {Scratch}

(* Train state and data iterator move together: across saves, fallbacks and    *)
(* replays, step k is always trained on batch k, in the attempt and in every   *)
(* backup it could resume from.                                                *)
BatchPerStep ==
  /\ \A b \in AllBackups : b.pos = Completed(b)
  /\ pc \in InAttempt \ {"restore"} =>
       pos = IF pc = "train" THEN n + 1 ELSE n

(* clean_up_incomplete_checkpoints looks at the newest step directory only,    *)
(* and that suffices: when an attempt looks for a checkpoint to resume from,   *)
(* every directory without a commit_success marker is older than another one.  *)
NoPartialLeft ==
  pc = "restore" => \A s \in partial : \E t \in steps \cup partial : t > s

(* A run that ends normally with save_checkpoint_on_completion has its final   *)
(* state in a complete checkpoint, whichever of the last periodic save, the    *)
(* forced save and an earlier attempt wrote it.  (A one-step run without       *)
(* save_checkpoint_on_start is the exception: step 0 is never saved.)          *)
DoneIsDurable ==
  pc = "done" /\ Checkpointing /\ SaveOnCompletion /\ (Steps = 1 => SaveOnStart)
    => Completed(latest) = Steps /\ ~IsSavingInProgress

(* There is a backup that a new attempt on the present slices can resume from  *)
(* without training again what this one has trained.                           *)
BackedUp ==
  \/ latest.step >= step
  \/ SnapshotMode /\ snapshot.step >= step /\ Loadable

(* An attempt whose slices are all up is interrupted for a scale-up only with  *)
(* a backup of the step it just finished.                                      *)
ScaleUpIsBackedUp ==
  pc \in InAttempt /\ pc' = "event" /\ event' = "scale_up" /\ ~lost => BackedUp
BackedUpBeforeScaleUp == [][ScaleUpIsBackedUp]_vars

(* Once the last step is done the run is not interrupted for new slices.       *)
NoScaleUpAfterLastStep == pc = "event" /\ event = "scale_up" => n < Steps

(* However slices come and go, the run ends: it completes, stops on a signal   *)
(* or the end of its data, or gives up with an error.                          *)
Termination == <>(pc \in Finished)
=============================================================================
