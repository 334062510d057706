------------------------ MODULE ElasticTrainingProofs ------------------------
(***************************************************************************)
(* Theorems about ElasticTraining, for every jobset, every configuration   *)
(* and every number of retries.                                            *)
(***************************************************************************)
EXTENDS ElasticTraining, TLAPS

(* The points at which the attempt has finished at least one step.             *)
AfterStep == {"save", "guard", "settle", "snap", "backup", "join", "join_own",
              "raise", "complete"}

(* TypeOK is not inductive: a step may be counted only below Steps, and a      *)
(* backup may be made only once there is a step to number it with.             *)
Counted ==
  /\ pc = "train" => n < Steps
  /\ pc \in AfterStep => n > 0

TypeInv == TypeOK /\ Counted

USE DEF Backup, Scratch, BackupOrScratch

-----------------------------------------------------------------------------
(* The operations of the checkpointer keep its types.                          *)

LEMMA StartSaveTyped ==
  ASSUME CheckpointerTypeOK, NEW b \in Backup, StartSave(b)
  PROVE  CheckpointerTypeOK'
BY DEF CheckpointerTypeOK, StartSave, IsSavingInProgress

LEMMA CommitTyped ==
  ASSUME CheckpointerTypeOK, NEW b \in Backup, Commit(b)
  PROVE  latest' \in BackupOrScratch /\ steps' \subseteq Nat /\ partial' \subseteq Nat
BY DEF CheckpointerTypeOK, Commit, Later

LEMMA WriterTyped ==
  ASSUME CheckpointerTypeOK, SaveCommits \/ SaveFails \/ OrphanEnds
  PROVE  CheckpointerTypeOK'
<1>1. CASE SaveCommits
  <2>1. saving \in Backup
    BY <1>1 DEF SaveCommits, IsSavingInProgress, CheckpointerTypeOK
  <2>. QED
    BY <1>1, <2>1, CommitTyped DEF SaveCommits, CheckpointerTypeOK
<1>2. CASE SaveFails
  BY <1>2 DEF SaveFails, CheckpointerTypeOK
<1>3. CASE OrphanEnds
  <2>1. PICK b \in orphans :
          /\ orphans' = orphans \ {b}
          /\ Commit(b) \/ UNCHANGED <<latest, steps, partial>>
          /\ UNCHANGED <<saving, saveFailed>>
    BY <1>3 DEF OrphanEnds
  <2>2. b \in Backup
    BY DEF CheckpointerTypeOK
  <2>. QED
    BY <2>1, <2>2, CommitTyped DEF CheckpointerTypeOK
<1>. QED
  BY <1>1, <1>2, <1>3

LEMMA AbandonTyped ==
  ASSUME CheckpointerTypeOK, AbandonCheckpointer
  PROVE  CheckpointerTypeOK'
<1>1. partial' \subseteq partial
  BY DEF AbandonCheckpointer, CleanUpIncompleteCheckpoints
<1>2. orphans' \subseteq Backup
  BY DEF AbandonCheckpointer, IsSavingInProgress, CheckpointerTypeOK
<1>. QED
  BY <1>1, <1>2 DEF AbandonCheckpointer, CheckpointerTypeOK

(* So do those of the snapshotter.                                             *)
LEMMA SaveSnapshotTyped ==
  ASSUME SnapshotterTypeOK, NEW b \in Backup, NEW a \in SUBSET Slices,
         NEW l \in BOOLEAN, SaveSnapshot(b, a, l)
  PROVE  SnapshotterTypeOK'
BY DEF SnapshotterTypeOK, SaveSnapshot, WorkerStates, snapVars

LEMMA CopyTyped ==
  ASSUME SnapshotterTypeOK, CopyCompletes \/ CopyFails \/ CopyHangs
  PROVE  SnapshotterTypeOK'
BY DEF SnapshotterTypeOK, CopyCompletes, CopyFails, CopyHangs, FreeSlot, WorkerStates

LEMMA LoseReplicaTyped ==
  ASSUME SnapshotterTypeOK, NEW s \in Slices, LoseReplica(s)
  PROVE  SnapshotterTypeOK'
BY DEF SnapshotterTypeOK, LoseReplica, WorkerStates

LEMMA ResetTyped ==
  ASSUME SnapshotterTypeOK, ResetSnapshotter
  PROVE  SnapshotterTypeOK'
BY DEF SnapshotterTypeOK, ResetSnapshotter, FreeSlot, WorkerStates

-----------------------------------------------------------------------------
(* The type invariant.                                                         *)

LEMMA CurrentBackupTyped ==
  ASSUME TypeInv, pc \in AfterStep
  PROVE  CurrentBackup \in Backup
BY DEF TypeInv, TypeOK, Counted, CurrentBackup, step

LEMMA TypeInit == Init => TypeInv
<1>. SUFFICES ASSUME Init
              PROVE  TypeInv
  OBVIOUS
<1>1. CheckpointerTypeOK
  BY DEF Init, CheckpointerInit, CheckpointerTypeOK
<1>2. SnapshotterTypeOK
  BY DEF Init, SnapshotterInit, SnapshotterTypeOK, WorkerStates
<1>3. attempt \in 1 .. MaxRetries /\ n \in 0 .. Steps /\ peak \in 0 .. Steps
  BY ConfigAssumption DEF Init, ConfigAssumption
<1>. QED
  BY <1>1, <1>2, <1>3
     DEF Init, TypeInv, TypeOK, Counted, AfterStep, InAttempt, Finished, Callers

(* Every action of the main thread that moves control only.                    *)
LEMMA ControlTyped ==
  ASSUME TypeInv,
         \/ WaitTimesOut \/ RetriesExhausted
         \/ SliceDownRaised \/ LoadNextBatch \/ LoaderStops
         \/ MaybeBackUp \/ JoinOwnSnapshot \/ SkipSave \/ SaveNotDue
         \/ GuardPasses \/ Settle \/ ScaleUp \/ NoScaleUp
         \/ Complete \/ Drain \/ SaveErrorRaised
  PROVE  TypeInv'
<1>. USE ConfigAssumption
     DEF TypeInv, TypeOK, Counted, AfterStep, InAttempt, Finished, Callers,
         CheckpointerTypeOK, SnapshotterTypeOK, ckptVars, snapVars, envVars,
         runVars, dataVars, Goto, Interrupt, Return
<1>1. CASE WaitTimesOut \/ RetriesExhausted
  BY <1>1 DEF WaitTimesOut, RetriesExhausted
<1>2. CASE SliceDownRaised   BY <1>2 DEF SliceDownRaised
<1>3. CASE LoadNextBatch     BY <1>3 DEF LoadNextBatch
<1>4. CASE LoaderStops       BY <1>4 DEF LoaderStops
<1>5. CASE MaybeBackUp       BY <1>5 DEF MaybeBackUp
<1>6. CASE JoinOwnSnapshot   BY <1>6 DEF JoinOwnSnapshot
<1>7. CASE SkipSave          BY <1>7 DEF SkipSave
<1>8. CASE SaveNotDue        BY <1>8 DEF SaveNotDue
<1>9. CASE GuardPasses       BY <1>9 DEF GuardPasses
<1>10. CASE Settle           BY <1>10 DEF Settle
<1>11. CASE ScaleUp          BY <1>11 DEF ScaleUp
<1>12. CASE NoScaleUp        BY <1>12 DEF NoScaleUp
<1>13. CASE Complete         BY <1>13 DEF Complete
<1>14. CASE Drain            BY <1>14 DEF Drain
<1>15. CASE SaveErrorRaised  BY <1>15 DEF SaveErrorRaised
<1>. QED
  BY <1>1, <1>2, <1>3, <1>4, <1>5, <1>6, <1>7, <1>8, <1>9, <1>10, <1>11,
     <1>12, <1>13, <1>14, <1>15

(* Those that start a backup or restore one, and the callbacks of an event.    *)
LEMMA BackupTyped ==
  ASSUME TypeInv,
         \/ SlicesReady \/ OnElasticEvent \/ Restore \/ TrainStep
         \/ MaybeSaveSnapshot \/ JoinSnapshotter \/ SaveCheckpoint
  PROVE  TypeInv'
<1>. USE ConfigAssumption
     DEF TypeInv, Counted, AfterStep, InAttempt, Finished, Callers,
         envVars, runVars, dataVars, Goto
<1>1. CASE SlicesReady
  BY <1>1 DEF SlicesReady, TypeOK, CheckpointerTypeOK, SnapshotterTypeOK, ckptVars, snapVars
<1>2. CASE OnElasticEvent
  <2>1. CheckpointerTypeOK'
    BY <1>2, AbandonTyped DEF OnElasticEvent, TypeOK
  <2>2. SnapshotterTypeOK'
    BY <1>2, ResetTyped DEF OnElasticEvent, TypeOK, SnapshotterTypeOK, snapVars
  <2>3. attempt' \in 1 .. MaxRetries
    BY <1>2 DEF OnElasticEvent, TypeOK, ConfigAssumption
  <2>. QED
    BY <1>2, <2>1, <2>2, <2>3 DEF OnElasticEvent, TypeOK
<1>3. CASE Restore
  <2>1. n' \in 0 .. Steps /\ pos' \in Nat /\ pc' \in {"failed", "load"}
    BY <1>3 DEF Restore, TypeOK, CheckpointerTypeOK, SnapshotterTypeOK, Completed,
                ConfigAssumption
  <2>. QED
    BY <1>3, <2>1 DEF Restore, TypeOK, CheckpointerTypeOK, SnapshotterTypeOK,
                      ckptVars, snapVars
<1>4. CASE TrainStep
  BY <1>4 DEF TrainStep, TypeOK, CheckpointerTypeOK, SnapshotterTypeOK, ckptVars,
              snapVars, ConfigAssumption
<1>5. CASE MaybeSaveSnapshot
  <2>1. SnapshotterTypeOK'
    BY <1>5, CurrentBackupTyped, SaveSnapshotTyped
       DEF MaybeSaveSnapshot, TypeOK, SnapshotterTypeOK, snapVars
  <2>. QED
    BY <1>5, <2>1 DEF MaybeSaveSnapshot, TypeOK, CheckpointerTypeOK, ckptVars
<1>6. CASE JoinSnapshotter
  <2>1. SnapshotterTypeOK'
    BY <1>6, CurrentBackupTyped, SaveSnapshotTyped
       DEF JoinSnapshotter, TypeOK, SnapshotterTypeOK, snapVars
  <2>. QED
    BY <1>6, <2>1 DEF JoinSnapshotter, TypeOK, CheckpointerTypeOK, ckptVars
<1>7. CASE SaveCheckpoint
  <2>1. CheckpointerTypeOK'
    BY <1>7, CurrentBackupTyped, StartSaveTyped
       DEF SaveCheckpoint, TypeOK, CheckpointerTypeOK, ckptVars
  <2>. QED
    BY <1>7, <2>1 DEF SaveCheckpoint, TypeOK, SnapshotterTypeOK, snapVars
<1>. QED
  BY <1>1, <1>2, <1>3, <1>4, <1>5, <1>6, <1>7

LEMMA BackgroundTyped ==
  ASSUME TypeInv, WriterThread \/ SnapshotThread \/ Environment
  PROVE  TypeInv'
<1>. USE DEF TypeInv, TypeOK, Counted, envVars, runVars, dataVars
<1>1. CASE WriterThread
  BY <1>1, WriterTyped DEF WriterThread, SnapshotterTypeOK, snapVars
<1>2. CASE SnapshotThread
  BY <1>2, CopyTyped DEF SnapshotThread, CheckpointerTypeOK, ckptVars
<1>3. ASSUME NEW s \in Slices, SliceDies(s)
      PROVE  TypeInv'
  BY <1>3, LoseReplicaTyped DEF SliceDies, CheckpointerTypeOK, ckptVars
<1>4. ASSUME NEW s \in Slices, SliceReturns(s)
      PROVE  TypeInv'
  BY <1>4 DEF SliceReturns, CheckpointerTypeOK, SnapshotterTypeOK, ckptVars, snapVars
<1>5. CASE Preempt
  BY <1>5 DEF Preempt, CheckpointerTypeOK, SnapshotterTypeOK, ckptVars, snapVars
<1>. QED
  BY <1>1, <1>2, <1>3, <1>4, <1>5 DEF Environment

LEMMA TypeNext == TypeInv /\ [Next]_vars => TypeInv'
<1>. SUFFICES ASSUME TypeInv, [Next]_vars
              PROVE  TypeInv'
  OBVIOUS
<1>1. CASE MainThread
  BY <1>1, ControlTyped, BackupTyped DEF MainThread
<1>2. CASE WriterThread \/ SnapshotThread \/ Environment
  BY <1>2, BackgroundTyped
<1>3. CASE UNCHANGED vars
  BY <1>3 DEF vars, ckptVars, snapVars, envVars, runVars, dataVars, TypeInv, TypeOK,
              Counted, CheckpointerTypeOK, SnapshotterTypeOK
<1>. QED
  BY <1>1, <1>2, <1>3 DEF Next

(* The variables have their types in every reachable state, and no step is     *)
(* ever trained beyond config.steps.                                           *)
THEOREM TypeCorrect == Spec => []TypeOK
<1>1. Spec => []TypeInv
  BY TypeInit, TypeNext, PTL DEF Spec
<1>. QED
  BY <1>1, PTL DEF TypeInv

-----------------------------------------------------------------------------
(* Train state and data iterator.                                              *)

(* A backup of a step that was trained, at the position of the batch after it. *)
Sound(b) == b.step < peak /\ b.pos = Completed(b)

CheckpointsSound == Sound(latest) /\ Sound(saving) /\ \A b \in orphans : Sound(b)
SnapshotsSound == Sound(snapshot) /\ Sound(copying)

IteratorInStep ==
  pc \in InAttempt \ {"restore"} => pos = IF pc = "train" THEN n + 1 ELSE n

(* BatchPerStep becomes inductive with the bound of every backup and of the    *)
(* train state by peak, and with what a run without checkpoints never writes.  *)
SoundInv ==
  /\ n <= peak
  /\ CheckpointsSound
  /\ SnapshotsSound
  /\ IteratorInStep
  /\ ~Checkpointing => latest = Scratch /\ saving = Scratch /\ orphans = {}

Inv == TypeInv /\ SoundInv

LEMMA SoundInit == Init => SoundInv
BY DEF Init, CheckpointerInit, SnapshotterInit, SoundInv, CheckpointsSound,
       SnapshotsSound, IteratorInStep, InAttempt, Sound, Completed

LEMMA CurrentBackupSound ==
  ASSUME Inv, pc \in AfterStep
  PROVE  CurrentBackup \in Backup /\ Sound(CurrentBackup)
<1>1. CurrentBackup \in Backup
  BY CurrentBackupTyped DEF Inv
<1>2. n \in Nat /\ peak \in Nat
  BY DEF Inv, TypeInv, TypeOK
<1>3. pos = n
  BY DEF Inv, SoundInv, IteratorInStep, AfterStep, InAttempt
<1>. QED
  BY <1>1, <1>2, <1>3 DEF Inv, SoundInv, Sound, Completed, CurrentBackup, step

(* Steps that leave the backups alone keep them sound, as peak only grows.     *)
LEMMA SoundGrows ==
  ASSUME TypeInv, peak' \in Nat, peak <= peak', NEW b \in BackupOrScratch, Sound(b)
  PROVE  b.step < peak' /\ b.pos = Completed(b)
BY DEF Sound, Completed, TypeInv, TypeOK

LEMMA ControlSound ==
  ASSUME Inv,
         \/ WaitTimesOut \/ RetriesExhausted
         \/ SliceDownRaised \/ LoadNextBatch \/ LoaderStops
         \/ MaybeBackUp \/ JoinOwnSnapshot \/ SkipSave \/ SaveNotDue
         \/ GuardPasses \/ Settle \/ ScaleUp \/ NoScaleUp
         \/ Complete \/ Drain \/ SaveErrorRaised \/ SlicesReady \/ Environment
  PROVE  SoundInv'
<1>1. UNCHANGED <<n, peak, ckptVars, snapshot, copying>>
  BY DEF WaitTimesOut, RetriesExhausted,
         SliceDownRaised, LoadNextBatch, LoaderStops, MaybeBackUp,
         JoinOwnSnapshot, SkipSave, SaveNotDue, GuardPasses, Settle, ScaleUp,
         NoScaleUp, Complete, Drain, SaveErrorRaised, SlicesReady, Environment,
         SliceDies, SliceReturns, Preempt, LoseReplica, dataVars, snapVars
<1>2. IteratorInStep'
  <2>. USE DEF Inv, SoundInv, IteratorInStep, InAttempt, Finished, Goto, Interrupt,
               dataVars
  <2>1. CASE LoadNextBatch    BY <2>1 DEF LoadNextBatch, TypeInv, TypeOK
  <2>2. CASE SkipSave \/ Settle
    <3>1. Return \in {"snap", "raise", "drain"}
      BY DEF Return, TypeInv, TypeOK, Callers
    <3>. QED
      BY <2>2, <3>1 DEF SkipSave, Settle
  <2>3. CASE WaitTimesOut \/ RetriesExhausted
             \/ SliceDownRaised \/ LoaderStops \/ MaybeBackUp
    BY <2>3 DEF WaitTimesOut, RetriesExhausted,
                SliceDownRaised, LoaderStops, MaybeBackUp
  <2>4. CASE JoinOwnSnapshot \/ SaveNotDue \/ GuardPasses \/ ScaleUp \/ NoScaleUp
    BY <2>4 DEF JoinOwnSnapshot, SaveNotDue, GuardPasses, ScaleUp, NoScaleUp
  <2>5. CASE Complete \/ Drain \/ SaveErrorRaised \/ SlicesReady
    BY <2>5 DEF Complete, Drain, SaveErrorRaised, SlicesReady, Waiting
  <2>6. CASE Environment
    BY <2>6 DEF Environment, SliceDies, SliceReturns, Preempt
  <2>. QED
    BY <2>1, <2>2, <2>3, <2>4, <2>5, <2>6
<1>. QED
  BY <1>1, <1>2
     DEF Inv, SoundInv, CheckpointsSound, SnapshotsSound, Sound, ckptVars

LEMMA CheckpointsKeptSound ==
  ASSUME CheckpointsSound, UNCHANGED <<latest, saving, orphans, peak>>
  PROVE  CheckpointsSound'
BY DEF CheckpointsSound, Sound

LEMMA SnapshotsKeptSound ==
  ASSUME SnapshotsSound, UNCHANGED <<snapshot, copying, peak>>
  PROVE  SnapshotsSound'
BY DEF SnapshotsSound, Sound

LEMMA ScratchSound ==
  ASSUME TypeInv
  PROVE  Sound(Scratch)
BY DEF TypeInv, TypeOK, Sound, Completed

LEMMA SaveSnapshotSound ==
  ASSUME Inv, pc \in AfterStep, UNCHANGED peak, SaveSnapshot(CurrentBackup, active, lost)
  PROVE  SnapshotsSound'
BY CurrentBackupSound DEF Inv, SoundInv, SaveSnapshot, SnapshotsSound, Sound, snapVars

LEMMA BackupSound ==
  ASSUME Inv,
         \/ OnElasticEvent \/ Restore \/ TrainStep
         \/ MaybeSaveSnapshot \/ JoinSnapshotter \/ SaveCheckpoint
  PROVE  SoundInv'
<1>. USE DEF Inv, SoundInv, IteratorInStep, InAttempt, Goto, dataVars
<1>1. CASE OnElasticEvent
  <2>1. CheckpointsSound'
    BY <1>1, ScratchSound
       DEF OnElasticEvent, AbandonCheckpointer, CheckpointsSound, Sound, IsSavingInProgress
  <2>2. SnapshotsSound'
    BY <1>1, ScratchSound
       DEF OnElasticEvent, ResetSnapshotter, FreeSlot, SnapshotsSound, Sound, snapVars
  <2>. QED
    BY <1>1, <2>1, <2>2 DEF OnElasticEvent, AbandonCheckpointer, IsSavingInProgress
<1>2. CASE Restore
  <2>1. CheckpointsSound' /\ SnapshotsSound'
    BY <1>2, CheckpointsKeptSound, SnapshotsKeptSound DEF Restore, ckptVars, snapVars
  <2>2. n' <= peak' /\ IteratorInStep'
    BY <1>2 DEF Restore, Completed, Sound, CheckpointsSound, SnapshotsSound,
                TypeInv, TypeOK, CheckpointerTypeOK, SnapshotterTypeOK
  <2>. QED
    BY <1>2, <2>1, <2>2 DEF Restore, ckptVars
<1>3. CASE TrainStep
  <2>1. n' <= peak' /\ peak <= peak' /\ peak' \in Nat
    BY <1>3 DEF TrainStep, TypeInv, TypeOK
  <2>2. CheckpointsSound' /\ SnapshotsSound'
    BY <1>3, <2>1, SoundGrows
       DEF TrainStep, CheckpointsSound, SnapshotsSound, Sound, ckptVars, snapVars,
           TypeInv, TypeOK, CheckpointerTypeOK, SnapshotterTypeOK
  <2>. QED
    BY <1>3, <2>1, <2>2 DEF TrainStep, ckptVars
<1>4. CASE MaybeSaveSnapshot
  <2>1. CheckpointsSound' /\ SnapshotsSound'
    BY <1>4, CheckpointsKeptSound, SnapshotsKeptSound, SaveSnapshotSound
       DEF MaybeSaveSnapshot, AfterStep, ckptVars, snapVars
  <2>. QED
    BY <1>4, <2>1 DEF MaybeSaveSnapshot, ckptVars
<1>5. CASE JoinSnapshotter
  <2>1. CheckpointsSound' /\ SnapshotsSound'
    BY <1>5, CheckpointsKeptSound, SnapshotsKeptSound, SaveSnapshotSound
       DEF JoinSnapshotter, AfterStep, ckptVars, snapVars
  <2>. QED
    BY <1>5, <2>1 DEF JoinSnapshotter, ckptVars
<1>6. CASE SaveCheckpoint
  <2>1. CheckpointsSound'
    BY <1>6, CurrentBackupSound
       DEF SaveCheckpoint, StartSave, CheckpointsSound, Sound, AfterStep, ckptVars
  <2>2. SnapshotsSound'
    BY <1>6, SnapshotsKeptSound DEF SaveCheckpoint, snapVars
  <2>. QED
    BY <1>6, <2>1, <2>2 DEF SaveCheckpoint, ckptVars
<1>. QED
  BY <1>1, <1>2, <1>3, <1>4, <1>5, <1>6

(* A background save ends with latest unchanged, or later than it was.         *)
LEMMA WriterSound ==
  ASSUME Inv, WriterThread
  PROVE  /\ SoundInv'
         /\ latest' = latest \/ (latest.step < latest'.step /\ Checkpointing)
<1>1. \/ latest' = latest
      \/ \E b \in orphans \cup ({saving} \ {Scratch}) : latest' = Later(latest, b)
  BY DEF WriterThread, SaveCommits, SaveFails, OrphanEnds, Commit, IsSavingInProgress
<1>2. \/ latest' = latest
      \/ \E b \in orphans \cup ({saving} \ {Scratch}) : latest' = b /\ latest.step < b.step
  BY <1>1 DEF Later, Inv, TypeInv, TypeOK, CheckpointerTypeOK
<1>3. latest' = latest \/ Checkpointing
  BY <1>2 DEF Inv, SoundInv
<1>4. saving' \in {saving, Scratch} /\ orphans' \subseteq orphans /\ peak' = peak
  BY DEF WriterThread, SaveCommits, SaveFails, OrphanEnds, dataVars
<1>5. CheckpointsSound'
  BY <1>2, <1>4, ScratchSound DEF CheckpointsSound, Sound, Inv, SoundInv
<1>6. SnapshotsSound'
  BY SnapshotsKeptSound DEF WriterThread, snapVars, dataVars, Inv, SoundInv
<1>. QED
  BY <1>2, <1>3, <1>4, <1>5, <1>6
     DEF WriterThread, Inv, SoundInv, IteratorInStep, dataVars

LEMMA SnapshotThreadSound ==
  ASSUME Inv, SnapshotThread
  PROVE  SoundInv'
<1>1. SnapshotsSound'
  BY ScratchSound
     DEF SnapshotThread, CopyCompletes, CopyFails, CopyHangs, FreeSlot, SnapshotsSound,
         Sound, dataVars, Inv, SoundInv
<1>2. CheckpointsSound'
  BY CheckpointsKeptSound DEF SnapshotThread, ckptVars, dataVars, Inv, SoundInv
<1>. QED
  BY <1>1, <1>2 DEF SnapshotThread, ckptVars, dataVars, Inv, SoundInv, IteratorInStep

LEMMA InvNext == Inv /\ [Next]_vars => Inv'
<1>. SUFFICES ASSUME Inv, [Next]_vars
              PROVE  Inv'
  OBVIOUS
<1>1. TypeInv'
  BY TypeNext DEF Inv
<1>2. CASE MainThread
  BY <1>1, <1>2, ControlSound, BackupSound DEF MainThread, Inv
<1>3. CASE WriterThread \/ SnapshotThread \/ Environment
  BY <1>1, <1>3, WriterSound, SnapshotThreadSound, ControlSound DEF Inv
<1>4. CASE UNCHANGED vars
  BY <1>1, <1>4 DEF vars, ckptVars, snapVars, dataVars, Inv, SoundInv, CheckpointsSound,
                    SnapshotsSound, Sound, IteratorInStep
<1>. QED
  BY <1>2, <1>3, <1>4 DEF Next

LEMMA Invariance == Spec => []Inv
<1>1. Init => Inv
  BY TypeInit, SoundInit DEF Inv
<1>. QED
  BY <1>1, InvNext, PTL DEF Spec

(* Step k is trained on batch k, and every backup of step k resumes at batch   *)
(* k + 1, in every interleaving of the attempts and the background threads.    *)
THEOREM BatchPerStepCorrect == Spec => []BatchPerStep
<1>1. Inv => BatchPerStep
  BY DEF Inv, SoundInv, CheckpointsSound, SnapshotsSound, Sound, IteratorInStep,
         BatchPerStep, AllBackups
<1>. QED
  BY <1>1, Invariance, PTL

-----------------------------------------------------------------------------
(* The program implements ResumableTraining.                                   *)

LEMMA RefinementInit == Init => Resumable!Init
BY DEF Init, CheckpointerInit, Completed, Phase, Finished, Resumable!Init

(* Control moves the phase, or nothing the abstract run sees.                  *)
LEMMA ControlRefines ==
  ASSUME Inv,
         \/ WaitTimesOut \/ RetriesExhausted
         \/ SliceDownRaised \/ LoadNextBatch \/ LoaderStops
         \/ MaybeBackUp \/ JoinOwnSnapshot \/ SkipSave \/ SaveNotDue
         \/ GuardPasses \/ Settle \/ ScaleUp \/ NoScaleUp \/ Complete \/ Drain
         \/ SaveErrorRaised \/ SlicesReady \/ Environment \/ OnElasticEvent
         \/ MaybeSaveSnapshot \/ JoinSnapshotter \/ SaveCheckpoint
  PROVE  [Resumable!Interrupt \/ Resumable!End]_Resumable!vars
<1>1. UNCHANGED <<n, peak, latest>>
  BY DEF WaitTimesOut, RetriesExhausted,
         SliceDownRaised, LoadNextBatch, LoaderStops, MaybeBackUp,
         JoinOwnSnapshot, SkipSave, SaveNotDue, GuardPasses, Settle, ScaleUp,
         NoScaleUp, Complete, Drain, SaveErrorRaised, SlicesReady, Environment,
         SliceDies, SliceReturns, Preempt, OnElasticEvent, AbandonCheckpointer,
         MaybeSaveSnapshot, JoinSnapshotter, SaveCheckpoint, StartSave, dataVars,
         ckptVars
<1>2. \/ Phase' = Phase
      \/ Phase = "up" /\ Phase' = "down"
      \/ Phase # "over" /\ Phase' = "over"
  <2>. USE DEF Phase, Finished, Goto, Interrupt, InAttempt
  <2>1. CASE WaitTimesOut \/ RetriesExhausted
             \/ SliceDownRaised \/ LoadNextBatch \/ LoaderStops \/ MaybeBackUp
    BY <2>1 DEF WaitTimesOut, RetriesExhausted,
                SliceDownRaised, LoadNextBatch, LoaderStops, MaybeBackUp
  <2>2. CASE SkipSave \/ Settle
    <3>1. Return \in {"snap", "raise", "drain"}
      BY DEF Return, Inv, TypeInv, TypeOK, Callers
    <3>. QED
      BY <2>2, <3>1 DEF SkipSave, Settle
  <2>3. CASE JoinOwnSnapshot \/ SaveNotDue \/ GuardPasses \/ ScaleUp \/ NoScaleUp
    BY <2>3 DEF JoinOwnSnapshot, SaveNotDue, GuardPasses, ScaleUp, NoScaleUp
  <2>4. CASE Complete \/ Drain \/ SaveErrorRaised \/ SlicesReady
    BY <2>4 DEF Complete, Drain, SaveErrorRaised, SlicesReady, Waiting
  <2>5. CASE Environment
    BY <2>5 DEF Environment, SliceDies, SliceReturns, Preempt
  <2>6. CASE OnElasticEvent \/ MaybeSaveSnapshot \/ JoinSnapshotter \/ SaveCheckpoint
    BY <2>6 DEF OnElasticEvent, MaybeSaveSnapshot, JoinSnapshotter, SaveCheckpoint
  <2>. QED
    BY <2>1, <2>2, <2>3, <2>4, <2>5, <2>6
<1>. QED
  BY <1>1, <1>2 DEF Resumable!Interrupt, Resumable!End, Resumable!vars, Completed

(* The restored backup is no older than the newest checkpoint, because the     *)
(* snapshot is taken only when it is not, and was trained.                     *)
LEMMA RestoreRefines ==
  ASSUME Inv, Restore
  PROVE  Resumable!Resume \/ Resumable!End
<1>. USE DEF Goto, Phase, Finished
<1>1. PICK loaded \in BOOLEAN :
        LET source == IF loaded THEN snapshot ELSE latest
        IN  /\ loaded => ShouldRestoreSnapshot /\ Loadable
            /\ IF Completed(latest) >= Steps \/ Completed(source) >= Steps
                 THEN Goto("failed") /\ UNCHANGED <<n, pos>>
                 ELSE /\ n' = Completed(source)
                      /\ pos' = source.pos
                      /\ Goto("load")
  BY DEF Restore
<1>2. pc = "restore" /\ UNCHANGED <<latest, peak>>
  BY DEF Restore, ckptVars
<1> DEFINE source == IF loaded THEN snapshot ELSE latest
<1>3. source.step \in Int /\ latest.step \in Int /\ source.step < peak
  BY DEF Inv, TypeInv, TypeOK, CheckpointerTypeOK, SnapshotterTypeOK, SoundInv,
         CheckpointsSound, SnapshotsSound, Sound
<1>4. latest.step <= source.step
  <2>1. CASE loaded /\ Checkpointing
    BY <1>1, <2>1 DEF ShouldRestoreSnapshot
  <2>2. CASE loaded /\ ~Checkpointing
    BY <2>2 DEF Inv, TypeInv, TypeOK, SnapshotterTypeOK, SoundInv
  <2>3. CASE ~loaded
    BY <1>3, <2>3
  <2>. QED
    BY <2>1, <2>2, <2>3
<1>5. CASE Completed(latest) >= Steps \/ Completed(source) >= Steps
  BY <1>1, <1>2, <1>5 DEF Resumable!End, Completed
<1>6. CASE ~(Completed(latest) >= Steps \/ Completed(source) >= Steps)
  <2>1. n' = Completed(source) /\ pc' = "load"
    BY <1>1, <1>6
  <2>2. n' \in Completed(latest) .. peak /\ n' < Steps
    BY <1>3, <1>4, <1>6, <2>1, ConfigAssumption
       DEF Completed, Inv, TypeInv, TypeOK, ConfigAssumption
  <2>. QED
    BY <1>2, <2>1, <2>2 DEF Resumable!Resume, Completed
<1>. QED
  BY <1>5, <1>6

LEMMA TrainRefines ==
  ASSUME Inv, TrainStep
  PROVE  Resumable!Train
BY DEF Inv, TypeInv, Counted, TrainStep, Resumable!Train, Phase, Finished, ckptVars,
       Completed

LEMMA WriterRefines ==
  ASSUME Inv, WriterThread
  PROVE  [Resumable!Persist]_Resumable!vars
<1>1. UNCHANGED <<n, peak, pc>>
  BY DEF WriterThread, dataVars
<1>2. CASE latest' = latest
  BY <1>1, <1>2 DEF Resumable!vars, Phase, Completed
<1>3. CASE latest.step < latest'.step
  <2>1. CheckpointerTypeOK'
    BY WriterTyped DEF WriterThread, Inv, TypeInv, TypeOK
  <2>2. latest'.step < peak
    BY <1>1, WriterSound DEF SoundInv, CheckpointsSound, Sound
  <2>3. Completed(latest)' \in Completed(latest) + 1 .. peak
    BY <1>3, <2>1, <2>2
       DEF Completed, CheckpointerTypeOK, Inv, TypeInv, TypeOK
  <2>. QED
    BY <1>1, <2>3 DEF Resumable!Persist, Phase
<1>. QED
  BY <1>2, <1>3, WriterSound

(* Every behaviour of the program, seen through n, latest, peak and Phase, is  *)
(* a behaviour of ResumableTraining: an attempt resumes at or after the newest *)
(* complete checkpoint and from a state that was trained.                      *)
THEOREM Refinement == Spec => RefinesResumable
<1>1. Inv /\ [Next]_vars => [Resumable!Next]_Resumable!vars
  <2>. SUFFICES ASSUME Inv, [Next]_vars
                PROVE  [Resumable!Next]_Resumable!vars
    OBVIOUS
  <2>. USE DEF Resumable!Next
  <2>1. CASE MainThread
    BY <2>1, ControlRefines, RestoreRefines, TrainRefines DEF MainThread
  <2>2. CASE WriterThread
    BY <2>2, WriterRefines
  <2>3. CASE SnapshotThread
    BY <2>3 DEF SnapshotThread, ckptVars, dataVars, Resumable!vars, Phase, Completed
  <2>4. CASE Environment
    BY <2>4, ControlRefines
  <2>5. CASE UNCHANGED vars
    BY <2>5 DEF vars, ckptVars, dataVars, Resumable!vars, Phase, Completed
  <2>. QED
    BY <2>1, <2>2, <2>3, <2>4, <2>5 DEF Next
<1>. QED
  BY <1>1, RefinementInit, Invariance, PTL DEF Spec, RefinesResumable, Resumable!Spec
=============================================================================
