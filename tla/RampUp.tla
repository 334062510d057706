-------------------------------- MODULE RampUp --------------------------------
(***************************************************************************)
(* Batch size ramp-up: RampupBatchManager of utils/rampup_batch.py and     *)
(* RampUpDataLoader of common/data_loader.py, in a training loop that      *)
(* checkpoints its data iterator (grain) and is restarted from there.      *)
(*                                                                         *)
(* The iterator yields loads of full size; a sample is <<load, index>>.    *)
(* The loader cuts them into batches of the size the manager asks for.     *)
(***************************************************************************)
EXTENDS Integers, FiniteSets

CONSTANTS
  Schedules,     \* the configured ramps: start, increment, end and samples
  Steps,         \* bound: steps of a run
  MaxResumes     \* bound: restarts of a run

(* _verify_inputs, and the positive samples of the config validation.          *)
ASSUME RampUpAssumption ==
  /\ \A r \in Schedules :
       /\ {r.start, r.increment, r.end, r.samples} \subseteq Nat \ {0}
       /\ r.start < r.end
       /\ (r.end - r.start) % r.increment = 0
  /\ Steps \in Nat /\ MaxResumes \in Nat

VARIABLES
  ramp,          \* the schedule of this run
  current, accum, totalUsed,        \* RampupBatchManager
  active, buffered, bufferStart,    \* RampUpDataLoader; the buffer is the last load
  loads,         \* data iterator: loads taken from it
  batch,         \* samples of the step in progress
  n,             \* steps the train state has done
  trained,       \* samples it has been trained on
  ckpt,          \* the latest checkpoint
  replay,        \* updates _recover_states still has to make
  resumes, pc

managerVars == <<current, accum, totalUsed>>
loaderVars == <<active, buffered, bufferStart>>
stateVars == <<n, trained>>
vars == <<ramp, managerVars, loaderVars, loads, batch, stateVars, ckpt, replay,
          resumes, pc>>

NumIncrements == (ramp.end - ramp.start) \div ramp.increment
Full == ramp.end

NoCheckpoint == [step |-> -1, iterator |-> 0, seen |-> {}]

-----------------------------------------------------------------------------
(* RampupBatchManager                                                          *)

Lesser(a, b) == IF a < b THEN a ELSE b

(* The manager's fields; samples_per_increment is samples / NumIncrements.     *)
Start == [current |-> ramp.start, accum |-> 0, used |-> 0]

Updated(m) ==
  LET full == (m.accum + m.current) * NumIncrements >= ramp.samples
  IN  [current |-> IF full THEN Lesser(m.current + ramp.increment, Full) ELSE m.current,
       accum   |-> IF full THEN 0 ELSE m.accum + m.current,
       used    |-> m.used + m.current]

Manager == [current |-> current, accum |-> accum, used |-> totalUsed]

SetManager(m) ==
  /\ current' = m.current
  /\ accum' = m.accum
  /\ totalUsed' = m.used

-----------------------------------------------------------------------------
Init ==
  /\ ramp \in Schedules
  /\ current = ramp.start /\ accum = 0 /\ totalUsed = 0
  /\ active = TRUE /\ buffered = FALSE /\ bufferStart = 0
  /\ loads = 0 /\ batch = {}
  /\ n = 0 /\ trained = {}
  /\ ckpt = NoCheckpoint /\ replay = -1
  /\ resumes = 0 /\ pc = "load"

(* Samples from .. to of a load, counted from zero, to excluded.               *)
Slice(load, from, to) == {load} \X (from + 1 .. to)

(* Mutant: the remainder of the old buffer is left out.                        *)
SliceNewOnly(end) ==
  /\ batch' = Slice(loads + 1, 0, current)
  /\ loads' = loads + 1
  /\ bufferStart' = current

(* _slice_and_concat: the rest of the buffer and the head of the next load.    *)
SliceAndConcat(end) ==
  /\ batch' = Slice(loads, bufferStart, Full) \cup Slice(loads + 1, 0, end - Full)
  /\ loads' = loads + 1
  /\ bufferStart' = end - Full

SliceBuffer(from) ==
  /\ batch' = Slice(loads', from, from + current)
  /\ bufferStart' = from + current

(* RampUpDataLoader.load_next_batch                                            *)
LoadWhileRamping ==
  /\ pc = "load" /\ n < Steps /\ active
  /\ IF ~buffered
       THEN loads' = loads + 1 /\ SliceBuffer(0)
       ELSE IF bufferStart + current > Full
              THEN SliceAndConcat(bufferStart + current)
              ELSE UNCHANGED loads /\ SliceBuffer(bufferStart)
  /\ buffered' = TRUE
  /\ SetManager(Updated(Manager))
  /\ active' = (current' < Full)
  /\ pc' = "train"
  /\ UNCHANGED <<ramp, stateVars, ckpt, replay, resumes>>

(* The parent's load_next_batch once the ramp is over.                         *)
LoadFull ==
  /\ pc = "load" /\ n < Steps /\ ~active
  /\ loads' = loads + 1
  /\ batch' = Slice(loads', 0, Full)
  /\ pc' = "train"
  /\ UNCHANGED <<ramp, managerVars, loaderVars, stateVars, ckpt, replay, resumes>>

TrainStep ==
  /\ pc = "train"
  /\ n' = n + 1
  /\ trained' = trained \cup batch
  /\ pc' = "save"
  /\ UNCHANGED <<ramp, managerVars, loaderVars, loads, batch, ckpt, replay, resumes>>

(* A checkpoint carries the number of the step just done and the iterator.     *)
MaybeSave ==
  /\ pc = "save"
  /\ \/ ckpt' = [step |-> n - 1, iterator |-> loads, seen |-> trained]
     \/ UNCHANGED ckpt
  /\ pc' = IF n = Steps THEN "done" ELSE "load"
  /\ UNCHANGED <<ramp, managerVars, loaderVars, loads, batch, stateVars, replay,
                 resumes>>

(* Mutant: the resumed iterator is one load behind the state.                  *)
ResumeRereadsLoad ==
  /\ pc # "done" /\ resumes < MaxResumes
  /\ resumes' = resumes + 1
  /\ SetManager(Start) /\ replay' = ckpt.step
  /\ active' = TRUE /\ buffered' = FALSE /\ bufferStart' = 0
  /\ loads' = IF ckpt.iterator > 0 THEN ckpt.iterator - 1 ELSE 0
  /\ n' = ckpt.step + 1 /\ trained' = ckpt.seen
  /\ batch' = {} /\ pc' = "recover"
  /\ UNCHANGED <<ramp, ckpt>>

(* The run dies anywhere and is started again: create_rampup_manager,          *)
(* create_dataloader, and the latest checkpoint if there is one.               *)
Resume ==
  /\ pc # "done" /\ resumes < MaxResumes
  /\ resumes' = resumes + 1
  /\ SetManager(Start) /\ replay' = ckpt.step
  /\ active' = TRUE /\ buffered' = FALSE /\ bufferStart' = 0
  /\ loads' = ckpt.iterator
  /\ n' = ckpt.step + 1 /\ trained' = ckpt.seen
  /\ batch' = {} /\ pc' = "recover"
  /\ UNCHANGED <<ramp, ckpt>>

(* _recover_states: for _ in range(step_num), and none for -1.                 *)
RecoverStates ==
  /\ pc = "recover"
  /\ IF replay > 0
       THEN SetManager(Updated(Manager)) /\ replay' = replay - 1 /\ UNCHANGED pc
       ELSE pc' = "load" /\ UNCHANGED <<managerVars, replay>>
  /\ UNCHANGED <<ramp, loaderVars, loads, batch, stateVars, ckpt, resumes>>

Next ==
  LoadWhileRamping \/ LoadFull \/ TrainStep \/ MaybeSave \/ Resume \/ RecoverStates

Spec == Init /\ [][Next]_vars
-----------------------------------------------------------------------------
(* The ramp of the config: stage j trains on its share of the samples.         *)

CeilDiv(a, b) == (a + b - 1) \div b

StageSize(j) == ramp.start + j * ramp.increment

(* Mutant: a stage's last, incomplete step is not counted.                     *)
FloorStageSteps(j) == ramp.samples \div (NumIncrements * StageSize(j))

StageSteps(j) == CeilDiv(ramp.samples, NumIncrements * StageSize(j))

StageEnd ==
  LET end[j \in 0 .. NumIncrements - 1] ==
        StageSteps(j) + (IF j = 0 THEN 0 ELSE end[j - 1])
  IN  end

RampupEndStep == StageEnd[NumIncrements - 1]

ScheduledSize(k) ==
  StageSize(Cardinality({j \in DOMAIN StageEnd : StageEnd[j] <= k}))

(* No sample is trained on twice by the same train state, across the cuts in   *)
(* the buffer, the end of the ramp and every restart from a checkpoint.        *)
NoSampleTwice == pc = "train" => batch \cap trained = {}

(* The sizes the manager hands out by counting samples are those computed from *)
(* the step number (total_rampup_steps and the config's rampup_end_step, which *)
(* the metrics are gated by), until a restart; from then on they lag by at     *)
(* most one step, however many restarts there are.                             *)
OnSchedule ==
  pc = "train" =>
    \/ Cardinality(batch) = ScheduledSize(n)
    \/ resumes > 0 /\ Cardinality(batch) = ScheduledSize(n - 1)

(* A restart and the end of the ramp each skip less than one load: nothing     *)
(* else the iterator yields is left untrained.                                 *)
SkippedSamples ==
  loads * Full - Cardinality(trained \cup batch)
    - (IF buffered /\ active THEN Full - bufferStart ELSE 0)
LittleSkipped ==
  pc = "train" =>
    SkippedSamples <= (Full - 1) * (resumes + IF active THEN 0 ELSE 1)
=============================================================================
