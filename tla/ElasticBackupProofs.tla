------------------------- MODULE ElasticBackupProofs -------------------------
(***************************************************************************)
(* What ElasticTraining promises of its checkpoints, for every value of    *)
(* the constants: no incomplete checkpoint is ever the newest one when an  *)
(* attempt restores, a finished run is durable, and in checkpoint mode no  *)
(* attempt is interrupted for a scale-up without a backup.                 *)
(***************************************************************************)
EXTENDS ElasticTrainingProofs

USE DEF Backup, Scratch, BackupOrScratch

(* Only five steps touch the checkpointer.                                     *)
LEMMA CheckpointerSteps ==
  ASSUME [Next]_vars
  PROVE  \/ UNCHANGED ckptVars
         \/ OnElasticEvent
         \/ SaveCheckpoint
         \/ WriterThread
<1>1. CASE MainThread
  BY <1>1 DEF MainThread, WaitTimesOut, RetriesExhausted,
              SliceDownRaised, LoadNextBatch, LoaderStops,
              MaybeBackUp, JoinOwnSnapshot, SkipSave, SaveNotDue, GuardPasses, Settle,
              ScaleUp, NoScaleUp, Complete, Drain, SaveErrorRaised, SlicesReady,
              MaybeSaveSnapshot, JoinSnapshotter, Restore, TrainStep
<1>2. CASE SnapshotThread \/ Environment \/ UNCHANGED vars
  BY <1>2 DEF SnapshotThread, Environment, SliceDies, SliceReturns, Preempt, vars
<1>. QED
  BY <1>1, <1>2 DEF Next

-----------------------------------------------------------------------------
(* Incomplete checkpoints.                                                     *)

(* clean_up_incomplete_checkpoints removes one directory, so NoPartialLeft     *)
(* needs that there is never more than one to remove: a directory without a    *)
(* marker is older than the newest complete one, or is the only one that is    *)
(* not, and then its save is in flight or has failed.                          *)
PartialInv ==
  /\ \A s \in steps : s <= latest.step
  /\ latest # Scratch => latest.step \in steps
  /\ partial \cap steps = {}
  /\ ~OnGCS => partial = {}
  /\ IsSavingInProgress => ~saveFailed
  /\ \A s \in partial : s < latest.step \/ s = saving.step \/ saveFailed
  /\ \A s, t \in partial : s >= latest.step /\ t >= latest.step => s = t

AtRest == pc \in {"wait", "restore"} => Drained

(* The steps of a state's backups and directories are integers.                *)
LEMMA StepNumbers ==
  ASSUME TypeInv
  PROVE  /\ latest.step \in Int /\ saving.step \in Int
         /\ steps \subseteq Int /\ partial \subseteq Int
         /\ \A s \in steps \cup partial : s >= 0
         /\ latest.step >= 0 => latest # Scratch
         /\ IsSavingInProgress => saving \in Backup
         /\ orphans \subseteq Backup
         /\ saving # Scratch <=> saving.step # -1
BY DEF TypeInv, TypeOK, CheckpointerTypeOK, IsSavingInProgress

(* What a commit does to the directory.                                        *)
LEMMA CommitSteps ==
  ASSUME TypeInv, NEW b \in Backup, Commit(b)
  PROVE  /\ latest' = latest \/ latest' = b
         /\ latest.step <= latest'.step /\ b.step <= latest'.step
         /\ b.step \in Int /\ latest'.step \in Int
         /\ steps' = steps \cup {b.step} /\ partial' = partial \ {b.step}
BY DEF Commit, Later, TypeInv, TypeOK, CheckpointerTypeOK

LEMMA PartialNext ==
  ASSUME Inv, PartialInv, [Next]_vars
  PROVE  PartialInv'
<1>. USE DEF PartialInv, IsSavingInProgress
<1>0. TypeInv /\ TypeInv'
  BY TypeNext DEF Inv
<1>1. CASE UNCHANGED ckptVars
  BY <1>1 DEF ckptVars
<1>2. CASE OnElasticEvent
  <2>1. partial' \subseteq partial /\ UNCHANGED <<latest, steps>> /\ ~saveFailed'
    BY <1>2 DEF OnElasticEvent, AbandonCheckpointer, CleanUpIncompleteCheckpoints
  <2>2. \A s \in partial' : s < latest.step
    <3>1. SUFFICES ASSUME NEW s \in partial', OnGCS
                   PROVE  s < latest.step
      BY <2>1
    <3>2. s \in partial /\ \E t \in partial \cup steps : t > s
      BY <1>2, <3>1, <2>1 DEF OnElasticEvent, AbandonCheckpointer,
                              CleanUpIncompleteCheckpoints
    <3>3. PICK t \in partial \cup steps : t > s
      BY <3>2
    <3>. QED
      BY <1>0, <3>2, <3>3, StepNumbers
  <2>3. saving' = Scratch
    BY <1>2 DEF OnElasticEvent, AbandonCheckpointer
  <2>. QED
    BY <1>0, <2>1, <2>2, <2>3, StepNumbers
<1>3. CASE SaveCheckpoint
  <2>1. CASE StartSave(CurrentBackup) /\ Drained
    <3>1. CurrentBackup \in Backup /\ CurrentBackup.step = step
      BY <1>0, <1>3, CurrentBackupTyped DEF SaveCheckpoint, AfterStep, CurrentBackup
    <3>2. step \notin steps
      BY <1>3 DEF SaveCheckpoint
    <3>3. \A s \in partial : s < latest.step
      BY <1>0, <2>1, StepNumbers DEF Drained
    <3>4. /\ UNCHANGED <<latest, steps, saveFailed>>
          /\ partial' \subseteq partial \cup {step}
          /\ ~OnGCS => partial' = {}
          /\ saving' = CurrentBackup /\ ~saveFailed
      BY <2>1, <3>1 DEF StartSave, Drained
    <3>5. step \in Nat
      BY <3>1
    <3>. QED
      BY <1>0, <3>1, <3>2, <3>3, <3>4, <3>5, StepNumbers
  <2>2. CASE UNCHANGED ckptVars
    BY <2>2 DEF ckptVars
  <2>. QED
    BY <1>3, <2>1, <2>2 DEF SaveCheckpoint
<1>4. CASE WriterThread
  <2>2. CASE SaveCommits
    <3>1. saving \in Backup /\ Commit(saving) /\ saving' = Scratch /\ UNCHANGED saveFailed
      BY <1>0, <2>2, StepNumbers DEF SaveCommits
    <3>2. PICK b \in Backup : b = saving
      BY <3>1
    <3>. QED
      BY <1>0, <3>1, <3>2, CommitSteps, StepNumbers
  <2>3. CASE SaveFails
    BY <1>0, <2>3, StepNumbers DEF SaveFails
  <2>4. CASE OrphanEnds
    <3>1. PICK b \in orphans : /\ Commit(b) \/ UNCHANGED <<latest, steps, partial>>
                               /\ UNCHANGED <<saving, saveFailed>>
      BY <2>4 DEF OrphanEnds
    <3>2. CASE Commit(b)
      BY <1>0, <3>1, <3>2, CommitSteps, StepNumbers
    <3>3. CASE UNCHANGED <<latest, steps, partial>>
      BY <3>1, <3>3
    <3>. QED
      BY <3>1, <3>2, <3>3
  <2>. QED
    BY <1>4, <2>2, <2>3, <2>4 DEF WriterThread
<1>. QED
  BY <1>1, <1>2, <1>3, <1>4, CheckpointerSteps

LEMMA AtRestNext ==
  ASSUME Inv, PartialInv, AtRest, [Next]_vars
  PROVE  AtRest'
<1>. USE DEF AtRest, Drained, IsSavingInProgress
<1>1. CASE UNCHANGED ckptVars /\ ~OnElasticEvent
  <2>1. pc' \in {"wait", "restore"} => pc \in {"wait", "restore"}
    <3>1. CASE MainThread
      <4>1. Return \in {"snap", "raise", "drain"}
        BY DEF Return, Inv, TypeInv, TypeOK, Callers
      <4>. QED
        BY <1>1, <3>1, <4>1
           DEF MainThread, Goto, Interrupt, WaitTimesOut, RetriesExhausted,
               SliceDownRaised, LoadNextBatch,
               LoaderStops, MaybeBackUp, JoinOwnSnapshot, SkipSave, SaveNotDue,
               GuardPasses, Settle, ScaleUp, NoScaleUp, Complete, Drain,
               SaveErrorRaised, SlicesReady, MaybeSaveSnapshot, JoinSnapshotter,
               Restore, TrainStep, SaveCheckpoint
    <3>2. CASE WriterThread \/ SnapshotThread \/ Environment \/ UNCHANGED vars
      BY <3>2 DEF WriterThread, SnapshotThread, Environment, SliceDies, SliceReturns,
                  Preempt, vars
    <3>. QED
      BY <3>1, <3>2 DEF Next
  <2>. QED
    BY <1>1, <2>1 DEF ckptVars
<1>2. CASE OnElasticEvent
  BY <1>2 DEF OnElasticEvent, AbandonCheckpointer
<1>3. CASE SaveCheckpoint
  BY <1>3 DEF SaveCheckpoint, Goto
<1>4. CASE WriterThread
  BY <1>4 DEF WriterThread, SaveCommits, SaveFails, OrphanEnds
<1>. QED
  BY <1>1, <1>2, <1>3, <1>4, CheckpointerSteps

(* Cleaning up only the newest step directory is enough.                       *)
THEOREM NoPartialLeftCorrect == Spec => []NoPartialLeft
<1>1. Init => PartialInv /\ AtRest
  BY DEF Init, CheckpointerInit, PartialInv, AtRest, Drained, IsSavingInProgress
<1>2. Inv /\ PartialInv /\ AtRest /\ [Next]_vars => PartialInv' /\ AtRest'
  BY PartialNext, AtRestNext
<1>3. Inv /\ PartialInv /\ AtRest => NoPartialLeft
  <2>. SUFFICES ASSUME Inv, PartialInv, AtRest, pc = "restore", NEW s \in partial
                PROVE  \E t \in steps \cup partial : t > s
    BY DEF NoPartialLeft
  <2>1. TypeInv
    BY DEF Inv
  <2>2. s < latest.step
    BY <2>1, StepNumbers DEF PartialInv, AtRest, Drained, IsSavingInProgress
  <2>3. latest.step \in steps
    BY <2>1, <2>2, StepNumbers DEF PartialInv, TypeInv, TypeOK, CheckpointerTypeOK
  <2>. QED
    BY <2>1, <2>2, <2>3, StepNumbers
<1>. QED
  BY <1>1, <1>2, <1>3, Invariance, PTL DEF Spec

-----------------------------------------------------------------------------
(* Saves that were asked for.                                                  *)

(* The finished step is in a checkpoint, is being written, or the write has    *)
(* failed and the next wait raises.                                            *)
Secured == latest.step >= step \/ saving.step = step \/ saveFailed

(* Step 0 is not one that save_checkpoint_on_start keeps out.                  *)
Saveable == Checkpointing /\ (step = 0 => SaveOnStart)

(* Where each of the three callers of maybe_save_checkpoint is, and that it    *)
(* leaves with the step secured.                                               *)
CallersInv ==
  /\ pc \in {"complete", "drain"} => n = Steps
  /\ pc \in {"save", "guard", "settle"} /\ call = "completion" =>
       n = Steps /\ SaveOnCompletion
  /\ pc \in {"save", "guard", "settle"} /\ call = "scale_up" =>
       Checkpointing /\ ~SnapshotMode
  /\ pc \in {"join", "join_own"} => SnapshotMode
  /\ pc = "raise" /\ ~SnapshotMode => call = "scale_up" /\ Checkpointing
  /\ pc = "drain" /\ SaveOnCompletion => call = "completion"

SecuredInv ==
  /\ pc = "guard" => Secured
  /\ pc = "settle" /\ call # "loop" /\ Saveable => Secured
  /\ pc = "raise" /\ ~SnapshotMode /\ Saveable => Secured
  /\ pc = "drain" /\ SaveOnCompletion /\ Saveable => Secured
  /\ DoneIsDurable

LEMMA SecuredStable ==
  ASSUME Inv, Secured, WriterThread
  PROVE  Secured'
<1>1. TypeInv /\ TypeInv'
  BY WriterTyped, BackgroundTyped DEF Inv
<1>2. step' = step /\ step \in Int
  BY <1>1 DEF WriterThread, dataVars, step, TypeInv, TypeOK
<1>3. CASE SaveCommits
  <2>1. PICK b \in Backup : b = saving /\ Commit(b) /\ UNCHANGED saveFailed
    BY <1>1, <1>3, StepNumbers DEF SaveCommits
  <2>. QED
    BY <1>1, <1>2, <2>1, CommitSteps, StepNumbers DEF Secured
<1>4. CASE SaveFails
  BY <1>2, <1>4 DEF SaveFails, Secured
<1>5. CASE OrphanEnds
  <2>1. PICK b \in orphans : /\ Commit(b) \/ UNCHANGED <<latest, steps, partial>>
                             /\ UNCHANGED <<saving, saveFailed>>
    BY <1>5 DEF OrphanEnds
  <2>2. CASE Commit(b)
    BY <1>1, <1>2, <2>1, <2>2, CommitSteps, StepNumbers DEF Secured
  <2>3. CASE UNCHANGED <<latest, steps, partial>>
    BY <1>2, <2>1, <2>3 DEF Secured
  <2>. QED
    BY <2>1, <2>2, <2>3
<1>. QED
  BY <1>3, <1>4, <1>5 DEF WriterThread

LEMMA CallersNext ==
  ASSUME Inv, CallersInv, [Next]_vars
  PROVE  CallersInv'
<1>. USE DEF CallersInv, Goto, Interrupt, dataVars, runVars, envVars
<1>1. CASE MainThread
  <2>0. /\ n \in 0 .. Steps /\ call \in Callers
        /\ call = "loop" => Return = "snap"
        /\ call = "scale_up" => Return = "raise"
        /\ call = "completion" => Return = "drain"
    BY DEF Return, Inv, TypeInv, TypeOK, Callers
  <2>1. CASE SkipSave \/ Settle \/ SaveNotDue \/ SaveCheckpoint \/ GuardPasses
    BY <2>0, <2>1 DEF SkipSave, Settle, SaveNotDue, SaveCheckpoint, GuardPasses, Callers
  <2>2. CASE MaybeBackUp \/ JoinSnapshotter \/ JoinOwnSnapshot \/ Complete
    BY <2>0, <2>2 DEF MaybeBackUp, JoinSnapshotter, JoinOwnSnapshot, Complete
  <2>3. CASE LoadNextBatch \/ LoaderStops \/ TrainStep \/ MaybeSaveSnapshot \/ Restore
    BY <2>0, <2>3, ConfigAssumption
       DEF LoadNextBatch, LoaderStops, TrainStep, MaybeSaveSnapshot, Restore,
           ConfigAssumption
  <2>4. CASE \/ SlicesReady \/ WaitTimesOut \/ RetriesExhausted
             \/ OnElasticEvent \/ SliceDownRaised
             \/ ScaleUp \/ NoScaleUp \/ Drain \/ SaveErrorRaised
    BY <2>4 DEF SlicesReady, WaitTimesOut, RetriesExhausted,
                OnElasticEvent, SliceDownRaised, ScaleUp,
                NoScaleUp, Drain, SaveErrorRaised
  <2>. QED
    BY <1>1, <2>1, <2>2, <2>3, <2>4 DEF MainThread
<1>2. CASE WriterThread \/ SnapshotThread \/ Environment \/ UNCHANGED vars
  BY <1>2 DEF WriterThread, SnapshotThread, Environment, SliceDies, SliceReturns,
              Preempt, vars
<1>. QED
  BY <1>1, <1>2 DEF Next

(* One turn of maybe_save_checkpoint.                                          *)
LEMMA SaveSecures ==
  ASSUME Inv, PartialInv, CallersInv, SecuredInv,
         SkipSave \/ SaveNotDue \/ SaveCheckpoint \/ GuardPasses \/ Settle
  PROVE  SecuredInv'
<1>0. /\ n \in 0 .. Steps /\ call \in Callers /\ TypeInv
      /\ step' = step /\ step \in Int /\ (pc = "save" => step >= 0)
      /\ call = "loop" => Return = "snap"
      /\ call = "scale_up" => Return = "raise"
      /\ call = "completion" => Return = "drain"
  BY DEF Return, Inv, TypeInv, TypeOK, Callers, Counted, AfterStep, step, SkipSave,
         SaveNotDue, SaveCheckpoint, GuardPasses, Settle, dataVars
<1>. USE DEF SecuredInv, Goto, DoneIsDurable
<1>1. CASE SkipSave
  <2>1. Checkpointing => Secured
    BY <1>0, <1>1, StepNumbers DEF SkipSave, Secured, PartialInv
  <2>. QED
    BY <1>0, <1>1, <2>1 DEF SkipSave, Secured, Saveable, Callers, ckptVars
<1>2. CASE SaveNotDue
  <2>1. ~(call # "loop" /\ Saveable)
    BY <1>0, <1>2 DEF SaveNotDue, SaveDue, Forced, Saveable
  <2>. QED
    BY <1>0, <1>2, <2>1 DEF SaveNotDue, Saveable
<1>3. CASE SaveCheckpoint
  <2>1. saving'.step = step
    BY <1>3 DEF SaveCheckpoint, StartSave, CurrentBackup, ckptVars
  <2>. QED
    BY <1>0, <1>3, <2>1 DEF SaveCheckpoint, Secured
<1>4. CASE GuardPasses
  BY <1>0, <1>4 DEF GuardPasses, Secured, ckptVars
<1>5. CASE Settle
  BY <1>0, <1>5 DEF Settle, Secured, Saveable, Callers, ckptVars
<1>. QED
  BY <1>1, <1>2, <1>3, <1>4, <1>5

LEMMA SecuredNext ==
  ASSUME Inv, PartialInv, CallersInv, SecuredInv, [Next]_vars
  PROVE  SecuredInv'
<1>0. TypeInv /\ Inv'
  BY InvNext DEF Inv
<1>1. CASE SkipSave \/ SaveNotDue \/ SaveCheckpoint \/ GuardPasses \/ Settle
  BY <1>1, SaveSecures
<1>2. CASE NoScaleUp \/ ScaleUp \/ MaybeBackUp \/ JoinSnapshotter \/ JoinOwnSnapshot
  <2>1. pc' \notin {"guard", "settle", "drain", "done"} /\ (pc' = "raise" => SnapshotMode)
    BY <1>2 DEF NoScaleUp, ScaleUp, MaybeBackUp, JoinSnapshotter, JoinOwnSnapshot,
                CallersInv, Goto, Interrupt
  <2>. QED
    BY <2>1 DEF SecuredInv, DoneIsDurable
<1>3. CASE Complete
  BY <1>3 DEF Complete, SecuredInv, DoneIsDurable
<1>4. CASE Drain
  <2>1. pc' = "done" /\ UNCHANGED <<latest, saving>> /\ Drained
    BY <1>4 DEF Drain, Goto, ckptVars
  <2>2. Saveable /\ SaveOnCompletion => latest.step >= step
    BY <1>0, <1>4, <2>1, StepNumbers, ConfigAssumption
       DEF Drain, Drained, IsSavingInProgress, SecuredInv, Secured, CallersInv, step,
           ConfigAssumption
  <2>3. latest.step < Steps /\ n = Steps /\ latest.step \in Int /\ Steps \in Nat
    BY <1>0, <1>4, StepNumbers, ConfigAssumption
       DEF Drain, CallersInv, Inv, SoundInv, CheckpointsSound, Sound, TypeInv, TypeOK,
           ConfigAssumption
  <2>. QED
    BY <2>1, <2>2, <2>3
       DEF SecuredInv, DoneIsDurable, Saveable, Completed, step, Drained,
           IsSavingInProgress
<1>5. CASE \/ SlicesReady \/ WaitTimesOut \/ RetriesExhausted
           \/ OnElasticEvent \/ SliceDownRaised
           \/ SaveErrorRaised \/ LoadNextBatch \/ LoaderStops \/ TrainStep
           \/ MaybeSaveSnapshot \/ Restore
  <2>1. pc' \notin {"guard", "settle", "raise", "drain", "done"}
    BY <1>5 DEF SlicesReady, WaitTimesOut, RetriesExhausted,
                OnElasticEvent, SliceDownRaised,
                SaveErrorRaised, LoadNextBatch, LoaderStops, TrainStep,
                MaybeSaveSnapshot, Restore, Goto, Interrupt
  <2>. QED
    BY <2>1 DEF SecuredInv, DoneIsDurable
<1>6. CASE WriterThread
  <2>1. UNCHANGED <<n, pc, call>> /\ step' = step
    BY <1>6 DEF WriterThread, dataVars, step
  <2>2. Secured => Secured'
    BY <1>6, SecuredStable
  <2>3. DoneIsDurable'
    <3>1. latest.step <= latest'.step /\ latest'.step < Steps
      BY <1>0, <1>6, WriterSound, StepNumbers, ConfigAssumption
         DEF Inv, SoundInv, CheckpointsSound, Sound, TypeInv, TypeOK,
             CheckpointerTypeOK, ConfigAssumption
    <3>2. latest'.step \in Int /\ latest.step \in Int
      BY <1>0 DEF Inv, TypeInv, TypeOK, CheckpointerTypeOK
    <3>3. ~IsSavingInProgress => ~IsSavingInProgress'
      BY <1>6 DEF WriterThread, SaveCommits, SaveFails, OrphanEnds, IsSavingInProgress
    <3>. QED
      BY <2>1, <3>1, <3>2, <3>3, ConfigAssumption
         DEF SecuredInv, DoneIsDurable, Completed, ConfigAssumption
  <2>. QED
    BY <2>1, <2>2, <2>3 DEF SecuredInv, Saveable
<1>7. CASE SnapshotThread \/ Environment \/ UNCHANGED vars
  <2>1. UNCHANGED <<ckptVars, n, pc, call>>
    BY <1>7 DEF SnapshotThread, Environment, SliceDies, SliceReturns, Preempt, vars,
                dataVars
  <2>. QED
    BY <2>1 DEF SecuredInv, Secured, Saveable, DoneIsDurable, step, ckptVars,
                IsSavingInProgress
<1>. QED
  BY <1>1, <1>2, <1>3, <1>4, <1>5, <1>6, <1>7 DEF Next, MainThread

LEMMA BackupInvariance == Spec => [](Inv /\ PartialInv /\ CallersInv /\ SecuredInv)
<1>1. Init => Inv /\ PartialInv /\ CallersInv /\ SecuredInv
  BY TypeInit, SoundInit
     DEF Init, CheckpointerInit, Inv, PartialInv, CallersInv, SecuredInv, DoneIsDurable,
         IsSavingInProgress
<1>2. Inv /\ PartialInv /\ CallersInv /\ SecuredInv /\ [Next]_vars =>
        Inv' /\ PartialInv' /\ CallersInv' /\ SecuredInv'
  BY InvNext, PartialNext, CallersNext, SecuredNext
<1>. QED
  BY <1>1, <1>2, PTL DEF Spec

(* When train_loop returns, the state of the last step is in a complete        *)
(* checkpoint, whichever save wrote it, and nothing is still being written.    *)
THEOREM DoneIsDurableCorrect == Spec => []DoneIsDurable
<1>1. SecuredInv => DoneIsDurable
  BY DEF SecuredInv
<1>. QED
  BY <1>1, BackupInvariance, PTL

(* In checkpoint mode, with save_checkpoint_on_start, no attempt is            *)
(* interrupted for a scale-up without a checkpoint of the step it finished.    *)
THEOREM CheckpointBeforeScaleUp ==
  ASSUME ~SnapshotMode, SaveOnStart
  PROVE  Spec => BackedUpBeforeScaleUp
<1>1. Inv /\ CallersInv /\ SecuredInv /\ [Next]_vars => [ScaleUpIsBackedUp]_vars
  <2>. SUFFICES ASSUME Inv, CallersInv, SecuredInv, Next,
                       pc \in InAttempt, pc' = "event", event' = "scale_up"
                PROVE  BackedUp
    BY DEF ScaleUpIsBackedUp
  <2>1. ScaleUp
    <3>1. Return # "event"
      BY DEF Return, Inv, TypeInv, TypeOK, Callers
    <3>. QED
      BY <3>1
         DEF Next, MainThread, WriterThread, SnapshotThread, Environment, SlicesReady,
             WaitTimesOut, RetriesExhausted,
             OnElasticEvent, Restore, LoadNextBatch, LoaderStops,
             TrainStep, MaybeSaveSnapshot, MaybeBackUp, JoinSnapshotter,
             JoinOwnSnapshot, SkipSave, SaveNotDue, SaveCheckpoint, GuardPasses,
             Settle, NoScaleUp, Complete, Drain, SaveErrorRaised, SliceDownRaised,
             SliceDies, SliceReturns, Preempt, Goto, Interrupt, InAttempt
  <2>2. Secured /\ Drained /\ step \in Nat
    BY <2>1, ConfigAssumption
       DEF ScaleUp, SecuredInv, CallersInv, Saveable, Inv, TypeInv, TypeOK, Counted,
           AfterStep, step
  <2>. QED
    BY <2>2 DEF Secured, Drained, IsSavingInProgress, BackedUp
<1>. QED
  BY <1>1, BackupInvariance, PTL DEF Spec, BackedUpBeforeScaleUp
=============================================================================
