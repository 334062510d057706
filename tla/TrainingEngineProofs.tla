------------------------- MODULE TrainingEngineProofs -------------------------
(***************************************************************************)
(* Proofs about TrainingEngine, for any number of steps, micro-batches and *)
(* restores, any checkpoint interval and retention.  EngineInv says how    *)
(* far the engine and each checkpoint are and that they hold the same at   *)
(* the same progress: a save that is skipped, a partial checkpoint that is *)
(* deleted and the last one of close() are right because the engine is     *)
(* never behind the newest checkpoint.  DataInv adds the types of what is  *)
(* buffered and queued, LoggedInv what is in the log for every checkpoint, *)
(* TypeInv that every bound is kept.  All of these hold wherever an engine *)
(* is restored.  While only quiet engines are, ContentInv says exactly     *)
(* what is accumulated; while no metrics are read inside a step either,    *)
(* MetricsInv says what the buffers hold, and OrderInv that log, pending   *)
(* metrics and queue are one stream in order.                              *)
(***************************************************************************)
EXTENDS TrainingEngine, FiniteSetTheorems, SequenceTheorems, WellFoundedInduction, TLAPS

Accumulated ==
  /\ step \in Nat /\ micro \in Nat /\ grads.n \in Nat
  /\ denominator = grads.n /\ micro <= grads.n
  /\ micro > 0 => version \in grads.of

Sound(c) ==
  /\ c.step \in Nat /\ c.micro \in Nat /\ c.grads.n \in Nat
  /\ c.micro > 0 => /\ c.step > 0 /\ c.version \in c.grads.of
                    /\ c.denominator = c.grads.n /\ c.micro <= c.grads.n

(* One checkpoint a step, and the one in flight is the newest.                 *)
ListOrder ==
  /\ \A c \in Listed : Sound(c)
  /\ \A c, d \in Listed : c.step = d.step => c = d
  /\ \A s \in saving : saving = {s} /\ \A c \in disk : c.step < s.step

Phases ==
  /\ call # "idle" => phase = "up"
  /\ phase = "down" => saving = {} /\ micro = 0
  /\ phase = "closed" => saving = {} /\ inflight = <<>> /\ pendingMetrics = NoMetrics
  /\ closing => phase = "closed" \/ call \in {"save", "replace", "finish"}

Number == IF micro > 0 THEN step + 1 ELSE step

(* The checkpoint c has the weights of the engine, and what it accumulated     *)
(* inside a step.                                                              *)
Holds(c) ==
  /\ c.version = version
  /\ micro > 0 => c.grads = grads /\ c.denominator = denominator

(* The checkpoint c is not ahead of the engine, and one of the same progress   *)
(* holds the same.                                                             *)
NotAhead(c) ==
  \/ c.step < Number
  \/ /\ c.step = Number
     /\ micro > 0 => c.micro \in 1 .. micro
     /\ c.micro = micro => Holds(c)

Behind ==
  phase = "up" =>
    \A c \in Listed : IF call = "replace" THEN c.step < Number ELSE NotAhead(c)

Same(c) == c.step = Number /\ c.micro = micro /\ Holds(c)

Finished ==
  MetadataLag = FALSE /\ (call = "finish" \/ phase = "closed") =>
    /\ \A c \in Listed : c.step <= Number
    /\ \E c \in Listed : Same(c)

EngineInv ==
  /\ Accumulated
  /\ ListOrder
  /\ Phases
  /\ Behind
  /\ Finished

LEMMA CheckpointFields ==
  ASSUME Accumulated
  PROVE  /\ Checkpoint.step = Number /\ Checkpoint.micro = micro
         /\ Checkpoint.version = version
         /\ Sound(Checkpoint) /\ Same(Checkpoint) /\ NotAhead(Checkpoint)
         /\ Number \in Nat
BY DEF Accumulated, Checkpoint, Number, Sound, Same, NotAhead, Holds

LEMMA EngineInit ==
  ASSUME Init
  PROVE  EngineInv
BY DEF Init, ThrottlerInit, CheckpointInit, EngineInv, Accumulated, ListOrder, Phases, Behind,
       Finished, Listed, NoGrads

(* The calls that touch neither the step nor the checkpoints.                  *)
LEMMA EngineUntouched ==
  ASSUME EngineInv,
         UNCHANGED <<checkpointVars, stepVars, closing, phase>>,
         \/ call' = call
         \/ /\ phase = "up"
            /\ {call, call'} \cap {"save", "replace", "finish"} = {},
         phase = "closed" => UNCHANGED <<inflight, pendingMetrics>>
  PROVE  EngineInv'
BY DEF EngineInv, Accumulated, ListOrder, Phases, Behind, Finished, Listed, Sound, NotAhead, Holds,
       Same, Number, checkpointVars, stepVars

LEMMA FwdBwdStep ==
  ASSUME EngineInv, EndFwdBwd
  PROVE  EngineInv'
<1>1. /\ phase = "up" /\ phase' = "up" /\ call' = "idle" /\ ~closing /\ ~closing'
      /\ UNCHANGED <<checkpointVars, step, version>>
  BY DEF EndFwdBwd, EngineInv, Phases, lifeVars
<1>2. micro' = micro + 1 /\ micro \in Nat /\ step \in Nat /\ Number' = step + 1
  BY <1>1 DEF EndFwdBwd, EngineInv, Accumulated, Number
<1>3. Accumulated'
  BY <1>1, <1>2 DEF EndFwdBwd, EngineInv, Accumulated
<1>4. ListOrder'
  BY <1>1 DEF EngineInv, ListOrder, Listed, checkpointVars, Sound
<1>5. ASSUME NEW c \in Listed
      PROVE  NotAhead(c)'
  <2>1. NotAhead(c) /\ Sound(c)
    BY <1>1 DEF EngineInv, Behind, EndFwdBwd, ListOrder
  <2>. QED
    BY <1>1, <1>2, <2>1 DEF NotAhead, Holds, Number, Sound
<1>. QED
  BY <1>1, <1>3, <1>4, <1>5 DEF EngineInv, Phases, Behind, Finished, Listed, checkpointVars

LEMMA UpdateStep ==
  ASSUME EngineInv, EndUpdate
  PROVE  EngineInv'
<1>1. /\ phase = "up" /\ phase' = "up" /\ call' \in {"save", "idle"} /\ ~closing /\ ~closing'
      /\ UNCHANGED checkpointVars
  BY DEF EndUpdate, EngineInv, Phases, lifeVars
<1>2. micro' = 0 /\ micro \in Nat /\ step \in Nat /\ Number' = step + 1
  BY <1>1 DEF EndUpdate, EngineInv, Accumulated, Number
<1>3. Accumulated'
  BY <1>1, <1>2 DEF EndUpdate, EngineInv, Accumulated, NoGrads
<1>4. ListOrder'
  BY <1>1 DEF EngineInv, ListOrder, Listed, checkpointVars, Sound
<1>5. ASSUME NEW c \in Listed
      PROVE  NotAhead(c)'
  <2>1. NotAhead(c) /\ Sound(c)
    BY <1>1 DEF EngineInv, Behind, EndUpdate, ListOrder
  <2>. QED
    BY <1>1, <1>2, <2>1 DEF NotAhead, Holds, Number, Sound
<1>. QED
  BY <1>1, <1>3, <1>4, <1>5 DEF EngineInv, Phases, Behind, Finished, Listed, checkpointVars

(* A new save is of the step the engine is at, which nothing on the list has.  *)
LEMMA NewSave ==
  ASSUME EngineInv, NEW force \in BOOLEAN, StartSave(Checkpoint, force),
         \A c \in Listed : c.step < Number,
         UNCHANGED <<stepVars, closing, phase>>, phase = "up",
         call' = AfterSave, closing => force, ~closing \/ call \in {"save", "replace"}
  PROVE  EngineInv'
<1>1. /\ disk' = disk /\ saving = {} /\ saving' \in {{}, {Checkpoint}}
      /\ force => saving' = {Checkpoint}
  BY DEF StartSave
<1>2. /\ Checkpoint.step = Number /\ Sound(Checkpoint) /\ Same(Checkpoint)
      /\ NotAhead(Checkpoint) /\ Number \in Nat
  BY CheckpointFields DEF EngineInv
<1>3. Listed' \subseteq Listed \cup {Checkpoint} /\ \A c \in disk : c \in Listed
  BY <1>1 DEF Listed
<1>4. \A c : (Sound(c)' <=> Sound(c)) /\ (NotAhead(c)' <=> NotAhead(c)) /\ (Same(c)' <=> Same(c))
  BY DEF Sound, NotAhead, Holds, Same, Number, stepVars
<1>5. Number' = Number
  BY DEF Number, stepVars
<1>6. Accumulated'
  BY DEF EngineInv, Accumulated, stepVars
<1>7. ListOrder'
  <2>1. \A c \in Listed' : Sound(c)
    BY <1>2, <1>3 DEF EngineInv, ListOrder
  <2>2. \A c, d \in Listed' : c.step = d.step => c = d
    <3>1. \A c \in Listed : c.step # Checkpoint.step
      BY <1>2 DEF EngineInv, ListOrder, Sound
    <3>. QED
      BY <1>3, <3>1 DEF EngineInv, ListOrder
  <2>3. \A s \in saving' : saving' = {s} /\ \A c \in disk' : c.step < s.step
    BY <1>1, <1>2, <1>3
  <2>. QED
    BY <1>4, <2>1, <2>2, <2>3 DEF ListOrder
<1>8. call' \in {"finish", "idle"} /\ (call' = "finish" <=> closing)
  BY DEF AfterSave
<1>9. \A c \in Listed' : NotAhead(c) /\ c.step <= Number
  BY <1>2, <1>3 DEF NotAhead, Holds, EngineInv, ListOrder, Sound
<1>10. closing => Checkpoint \in Listed'
  BY <1>1 DEF Listed
<1>11. Phases' /\ phase' = "up"
  BY <1>8 DEF EngineInv, Phases
<1>12. Behind'
  BY <1>4, <1>8, <1>9 DEF Behind
<1>13. Finished'
  BY <1>2, <1>4, <1>5, <1>8, <1>9, <1>10, <1>11 DEF Finished
<1>. QED
  BY <1>6, <1>7, <1>11, <1>12, <1>13 DEF EngineInv

(* A save is skipped only for a checkpoint of the same progress, if the        *)
(* metadata of a save in flight can be read.                                   *)
LEMMA SkippedIsSame ==
  ASSUME EngineInv, MetadataLag = FALSE, SkipSaved(Checkpoint), phase = "up", call # "replace"
  PROVE  \E c \in Listed : Same(c)
<1>1. Checkpoint.step = Number /\ Checkpoint.micro = micro /\ micro \in Nat
  BY CheckpointFields DEF EngineInv, Accumulated
<1>2. PICK c \in Listed : c.step = Number /\ ~Supersedes(micro, c.micro)
  BY <1>1 DEF SkipSaved, SavedMicroStepCount
<1>3. NotAhead(c) /\ Sound(c)
  BY DEF EngineInv, Behind, ListOrder
<1>4. c.micro = micro
  BY <1>1, <1>2, <1>3 DEF Supersedes, NotAhead, Holds, Sound
<1>. QED
  BY <1>2, <1>3, <1>4 DEF NotAhead, Holds, Same, Sound

LEMMA SaveStep ==
  ASSUME EngineInv, NEW force \in BOOLEAN, SaveCheckpoint(force)
  PROVE  EngineInv'
<1>1. /\ phase = "up" /\ call # "replace" /\ (closing => force /\ call = "save")
      /\ UNCHANGED <<stepVars, closing, phase>>
  BY DEF SaveCheckpoint, Idle, EngineInv, Phases, lifeVars
<1>2. Number \in Nat /\ Checkpoint.step = Number
  BY CheckpointFields DEF EngineInv
<1>3. \A c \in Listed : NotAhead(c) /\ c.step \in Nat /\ c.step <= Number
  BY <1>1, <1>2 DEF EngineInv, Behind, ListOrder, Sound, NotAhead, Holds
<1>4. CASE SkipSaved(Checkpoint) /\ call' = AfterSave
  <2>1. UNCHANGED checkpointVars
    BY <1>4 DEF SkipSaved
  <2>2. MetadataLag = FALSE => \E c \in Listed : Same(c)
    BY <1>1, <1>4, SkippedIsSame
  <2>3. Accumulated' /\ ListOrder'
    BY <1>1, <2>1 DEF EngineInv, Accumulated, ListOrder, Sound, Listed, stepVars,
                      checkpointVars
  <2>4. call' \in {"finish", "idle"} /\ (call' = "finish" <=> closing)
    BY <1>4 DEF AfterSave
  <2>5. Phases' /\ phase' = "up"
    BY <1>1, <2>1, <2>4 DEF EngineInv, Phases, checkpointVars
  <2>6. Behind' /\ Finished'
    BY <1>1, <1>3, <2>1, <2>2, <2>4 DEF Behind, Finished, NotAhead, Holds, Same, Number, Listed,
                                        stepVars, checkpointVars
  <2>. QED
    BY <2>3, <2>5, <2>6 DEF EngineInv
<1>5. CASE DeleteSuperseded(Checkpoint) /\ call' = "replace"
  <2>1. saving = {} /\ saving' = {} /\ disk' = {c \in disk : c.step # Number}
    BY <1>2, <1>5 DEF DeleteSuperseded
  <2>2. \A c \in Listed' : c \in Listed /\ c.step < Number
    BY <1>2, <1>3, <2>1 DEF Listed
  <2>3. Accumulated' /\ ListOrder'
    BY <1>1, <2>1, <2>2 DEF EngineInv, Accumulated, ListOrder, Sound, stepVars
  <2>4. Phases' /\ Behind' /\ Finished'
    BY <1>1, <1>5, <2>1, <2>2 DEF EngineInv, Phases, Behind, Finished, Number, stepVars
  <2>. QED
    BY <2>3, <2>4 DEF EngineInv
<1>6. CASE ~IsLatest(Checkpoint.step) /\ StartSave(Checkpoint, force) /\ call' = AfterSave
  <2>1. \A c \in Listed : c.step < Number
    BY <1>2, <1>3, <1>6 DEF IsLatest
  <2>. QED
    BY <1>1, <1>6, <2>1, NewSave
<1>. QED
  BY <1>4, <1>5, <1>6 DEF SaveCheckpoint

LEMMA ReplaceStep ==
  ASSUME EngineInv, Replace
  PROVE  EngineInv'
<1>1. phase = "up" /\ UNCHANGED <<stepVars, closing, phase>>
  BY DEF Replace, EngineInv, Phases, lifeVars
<1>2. \A c \in Listed : c.step < Number
  BY <1>1 DEF EngineInv, Behind, Replace
<1>. QED
  BY <1>1, <1>2, NewSave DEF Replace

(* The newest checkpoint is retained, whatever is kept besides it.             *)
LEMMA NewestRetained ==
  ASSUME NEW cs, NEW c \in cs, \A d \in cs : d.step \in Nat /\ d.step <= c.step
  PROVE  c \in Retained(cs)
<1>1. {d \in cs : d.step > c.step} = {}
  OBVIOUS
<1>2. Cardinality({d \in cs : d.step > c.step}) = 0
  BY <1>1, FS_EmptySet
<1>. QED
  BY <1>2, CheckpointAssumption DEF Retained, CheckpointAssumption

LEMMA CommitStep ==
  ASSUME EngineInv, Commit
  PROVE  EngineInv'
<1>1. /\ saving # {} /\ saving' = {} /\ disk' = Retained(Listed)
      /\ UNCHANGED <<stepVars, closing, phase, call, inflight, pendingMetrics>>
  BY DEF Commit, CommitSave, Listed, lifeVars, throttlerVars
<1>2. Listed' = Retained(Listed) /\ Listed' \subseteq Listed
  BY <1>1 DEF Listed, Retained
<1>3. Accumulated' /\ ListOrder' /\ Phases' /\ Behind'
  BY <1>1, <1>2 DEF EngineInv, Accumulated, ListOrder, Phases, Behind, Sound, NotAhead, Holds, Number,
                    stepVars
<1>4. Finished'
  <2>1. ASSUME MetadataLag = FALSE, call = "finish" \/ phase = "closed"
        PROVE  \E c \in Listed' : Same(c)
    <3>1. PICK c \in Listed : Same(c)
      BY <2>1 DEF EngineInv, Finished
    <3>2. \A d \in Listed : d.step \in Nat /\ d.step <= c.step
      BY <2>1, <3>1 DEF EngineInv, Finished, ListOrder, Sound, Same
    <3>. QED
      BY <1>2, <3>1, <3>2, NewestRetained
  <2>. QED
    BY <1>1, <1>2, <2>1 DEF EngineInv, Finished, Same, Holds, Number, stepVars
<1>. QED
  BY <1>3, <1>4 DEF EngineInv

(* What is restored is the newest checkpoint, and the engine is where it was.  *)
LEMMA LoadedIsSame ==
  ASSUME EngineInv, saving = {}, NEW c \in NewestOnDisk, Load(c),
         phase' = "up", call' = "idle", ~closing, UNCHANGED <<checkpointVars, closing>>
  PROVE  EngineInv'
<1>1. Listed = disk /\ Listed' = disk /\ c \in disk /\ \A d \in disk : d.step <= c.step
  BY DEF Listed, NewestOnDisk, checkpointVars
<1>2. Sound(c) /\ \A d \in disk : Sound(d) /\ (d.step = c.step => d = c)
  BY <1>1 DEF EngineInv, ListOrder
<1>3. Accumulated' /\ Number' = c.step
  BY <1>2 DEF EngineInv, Accumulated, Sound, Load, Number
<1>4. ListOrder'
  BY <1>1 DEF EngineInv, ListOrder, Sound, checkpointVars
<1>5. \A d \in disk : NotAhead(d)'
  BY <1>1, <1>2, <1>3 DEF NotAhead, Holds, Number, Sound, Load
<1>. QED
  BY <1>1, <1>3, <1>4, <1>5 DEF EngineInv, Phases, Behind, Finished

LEMMA StartStep ==
  ASSUME EngineInv, Start
  PROVE  EngineInv'
<1>1. /\ phase = "down" /\ phase' = "up" /\ saving = {} /\ micro = 0 /\ call' = "idle"
      /\ ~closing /\ UNCHANGED <<checkpointVars, closing>>
  BY DEF Start, EngineInv, Phases
<1>2. CASE disk = {} /\ UNCHANGED <<stepVars, buffers>>
  BY <1>1, <1>2 DEF EngineInv, Accumulated, ListOrder, Phases, Behind, Finished, Listed,
                    stepVars, checkpointVars
<1>3. CASE \E c \in NewestOnDisk : Load(c)
  BY <1>1, <1>3, LoadedIsSame
<1>. QED
  BY <1>2, <1>3 DEF Start

LEMMA RestoreStep ==
  ASSUME EngineInv, Restore
  PROVE  EngineInv'
<1>1. /\ phase' = "up" /\ saving = {} /\ call' = "idle"
      /\ ~closing /\ UNCHANGED <<checkpointVars, closing>>
  BY DEF Restore, Idle, EngineInv, Phases
<1>. QED
  BY <1>1, LoadedIsSame DEF Restore

(* What is dispatched, evaluated, read, staged or computed touches neither the *)
(* step nor the checkpoints.                                                   *)
LEMMA OtherCalls ==
  ASSUME EngineInv,
         \/ BeginFwdBwd \/ BeginUpdate \/ BeginEvalStep \/ BeginFwdOnly
         \/ EndEvalStep \/ EndFwdOnly \/ KernelFails
         \/ EvalEnter \/ EvalExit \/ GetMetrics
         \/ PrepareWeightSync \/ ReleaseWeightSync \/ Device
  PROVE  EngineInv'
<1>1. UNCHANGED <<checkpointVars, stepVars, closing, phase>>
  BY DEF BeginFwdBwd, BeginUpdate, BeginEvalStep, BeginFwdOnly, EndEvalStep, EndFwdOnly,
         KernelFails, EvalEnter, EvalExit, GetMetrics, PrepareWeightSync, ReleaseWeightSync,
         Device, lifeVars
<1>2. CASE Device
  BY <1>1, <1>2, EngineUntouched DEF Device, DeviceFinishes
<1>3. CASE ~Device
  <2>1. phase = "up"
    BY <1>3 DEF EngineInv, Phases, Idle, Extra, BeginFwdBwd, BeginUpdate, BeginEvalStep,
                BeginFwdOnly, EndEvalStep, EndFwdOnly, KernelFails, EvalEnter, EvalExit,
                GetMetrics, PrepareWeightSync, ReleaseWeightSync, Dispatches
  <2>2. {call, call'} \cap {"save", "replace", "finish"} = {}
    BY <1>3 DEF Idle, Extra, BeginFwdBwd, BeginUpdate, BeginEvalStep,
                BeginFwdOnly, EndEvalStep, EndFwdOnly, KernelFails, EvalEnter, EvalExit,
                GetMetrics, PrepareWeightSync, ReleaseWeightSync, Dispatches
  <2>. QED
    BY <1>1, <2>1, <2>2, EngineUntouched
<1>. QED
  BY <1>2, <1>3

LEMMA EndOfLife ==
  ASSUME EngineInv, Close \/ FinishClose \/ Crash \/ Closed
  PROVE  EngineInv'
<1>1. CASE Close
  BY <1>1 DEF Close, Idle, EngineInv, Accumulated, ListOrder, Phases, Behind, Finished, Listed,
              Sound, NotAhead, Holds, Number, checkpointVars, stepVars, lifeVars
<1>2. CASE FinishClose
  <2>1. /\ phase = "up" /\ phase' = "closed" /\ call = "finish" /\ call' = "idle"
        /\ saving = {} /\ inflight' = <<>> /\ pendingMetrics' = NoMetrics
        /\ UNCHANGED <<checkpointVars, stepVars, closing>>
    BY <1>2 DEF FinishClose, WaitForAll, EngineInv, Phases
  <2>. QED
    BY <2>1 DEF EngineInv, Accumulated, ListOrder, Phases, Behind, Finished, Listed, Sound,
                Same, Holds, Number, checkpointVars, stepVars
<1>3. CASE Crash
  <2>1. /\ phase' = "down" /\ call' = "idle" /\ closing' = FALSE
        /\ saving' = {} /\ disk' = disk /\ step' = 0 /\ micro' = 0
        /\ grads' = NoGrads /\ denominator' = 0
    BY <1>3 DEF Crash, LoseSave
  <2>2. Accumulated'
    BY <2>1 DEF Accumulated, NoGrads
  <2>3. ListOrder'
    BY <2>1 DEF EngineInv, ListOrder, Listed, Sound
  <2>. QED
    BY <2>1, <2>2, <2>3 DEF EngineInv, Phases, Behind, Finished
<1>4. CASE Closed
  BY <1>4, EngineUntouched DEF Closed, vars, throttlerVars, lifeVars
<1>. QED
  BY <1>1, <1>2, <1>3, <1>4

LEMMA EngineNext ==
  ASSUME EngineInv, [Next]_vars
  PROVE  EngineInv'
<1>1. CASE EndFwdBwd \/ EndUpdate
  BY <1>1, FwdBwdStep, UpdateStep
<1>2. CASE \E force \in BOOLEAN : SaveCheckpoint(force)
  BY <1>2, SaveStep
<1>3. CASE Replace \/ Commit \/ Start \/ Restore
  BY <1>3, ReplaceStep, CommitStep, StartStep, RestoreStep
<1>4. CASE Close \/ FinishClose \/ Crash \/ Closed
  BY <1>4, EndOfLife
<1>5. CASE UNCHANGED vars
  BY <1>5, EngineUntouched DEF vars, throttlerVars, lifeVars
<1>. QED
  BY <1>1, <1>2, <1>3, <1>4, <1>5, OtherCalls DEF Next

(* The engine is never behind the newest checkpoint, and they hold the same at *)
(* the same progress, wherever an engine is restored.                          *)
THEOREM EngineInvariant ==
  Spec => []EngineInv
<1>1. Init => EngineInv
  BY EngineInit
<1>2. EngineInv /\ [Next]_vars => EngineInv'
  BY EngineNext
<1>. QED
  BY <1>1, <1>2, PTL DEF Spec

(* What is listed on disk is never ahead of the engine, wherever it restores.  *)
THEOREM EngineIsNeverBehindDisk ==
  Spec => []NeverBehindDisk
<1>1. EngineInv => NeverBehindDisk
  <2>1. SUFFICES ASSUME EngineInv, phase = "up", call # "replace", NEW c \in Listed
                 PROVE  NotAhead(c)
    BY CheckpointFields DEF NeverBehindDisk, EngineInv, NotAhead, Holds
  <2>. QED
    BY <2>1 DEF EngineInv, Behind
<1>. QED
  BY <1>1, EngineInvariant, PTL

(* A closed engine has its last state on disk, if the metadata of a save in    *)
(* flight can be read.                                                         *)
THEOREM CloseIsDurable ==
  ASSUME MetadataLag = FALSE
  PROVE  Spec => []ClosedIsDurable
<1>1. EngineInv => ClosedIsDurable
  <2>1. SUFFICES ASSUME EngineInv, phase = "closed"
                 PROVE  \E c \in disk :
                          c.step = Checkpoint.step /\ c.micro = micro /\ Holds(c)
    BY DEF ClosedIsDurable, EngineInv, Phases, IsMetrics, Holds
  <2>2. PICK c \in Listed : Same(c)
    BY <2>1 DEF EngineInv, Finished
  <2>3. c \in disk
    BY <2>1, <2>2 DEF EngineInv, Phases, Listed
  <2>4. Checkpoint.step = Number
    BY <2>1, CheckpointFields DEF EngineInv
  <2>. QED
    BY <2>2, <2>3, <2>4 DEF Same
<1>. QED
  BY <1>1, EngineInvariant, PTL

(* A complete checkpoint is removed from the disk only once a newer one is     *)
(* there: what is deleted to be replaced was taken inside a step.              *)
THEOREM CompleteCheckpointsAreKept ==
  Spec => CompleteIsKept
<1>1. ASSUME EngineInv, [Next]_vars, NEW c \in disk, c.micro = 0, c \notin disk'
      PROVE  \E d \in disk' : d.step > c.step
  <2>1. CASE Commit
    <3>1. saving # {} /\ disk' = Retained(Listed)
      BY <2>1 DEF Commit, CommitSave, Listed
    <3>2. PICK s \in saving : TRUE
      BY <3>1
    <3>3. s \in Listed /\ c \in Listed /\ c.step < s.step
      BY <1>1, <3>2 DEF EngineInv, ListOrder, Listed
    <3>4. \A d \in Listed : d.step \in Nat /\ d.step <= s.step
      BY <1>1, <3>2, <3>3 DEF EngineInv, ListOrder, Listed, Sound
    <3>5. s \in disk'
      BY <3>1, <3>3, <3>4, NewestRetained
    <3>. QED
      BY <3>3, <3>4, <3>5
  <2>2. CASE \E force \in BOOLEAN : SaveCheckpoint(force)
    <3>1. DeleteSuperseded(Checkpoint)
      BY <1>1, <2>2 DEF SaveCheckpoint, SkipSaved, StartSave, checkpointVars
    <3>2. PICK d \in Listed : d.step = Checkpoint.step /\ d.micro # 0
      BY <3>1 DEF DeleteSuperseded, SavedMicroStepCount, Supersedes
    <3>3. c \in Listed /\ c.step = Checkpoint.step
      BY <1>1, <3>1 DEF DeleteSuperseded, Listed
    <3>. QED
      BY <1>1, <3>2, <3>3 DEF EngineInv, ListOrder
  <2>3. CASE ~Commit /\ ~\E force \in BOOLEAN : SaveCheckpoint(force)
    <3>1. disk' = disk
      BY <1>1, <2>3 DEF Next, vars, checkpointVars, BeginFwdBwd, BeginUpdate, BeginEvalStep,
           BeginFwdOnly, EndFwdBwd, EndUpdate, EndEvalStep, EndFwdOnly, KernelFails, EvalEnter,
           EvalExit, GetMetrics, Replace, StartSave, Start, Restore, PrepareWeightSync,
           ReleaseWeightSync, Close, FinishClose, Crash, LoseSave, Device, Closed
    <3>. QED
      BY <1>1, <3>1
  <2>. QED
    BY <2>1, <2>2, <2>3
<1>2. EngineInv /\ [Next]_vars =>
        [\A c \in disk : c.micro = 0 /\ c \notin disk' => \E d \in disk' : d.step > c.step]_vars
  BY <1>1
<1>. QED
  BY <1>2, EngineInvariant, PTL DEF Spec, CompleteIsKept

-----------------------------------------------------------------------------
(* The metrics: sequences and what is in them.                                 *)

Rec == [mode : Modes, id : Nat, losses : Nat, of : Nat]

QueueTypes == inflight \in Seq(Rec) /\ pendingMetrics \in Rec /\ log \in Seq(Rec)

Of(s) == {s[i] : i \in 1 .. Len(s)}

LEMMA OfConcat ==
  ASSUME NEW S, NEW s \in Seq(S), NEW t \in Seq(S)
  PROVE  s \o t \in Seq(S) /\ Of(s \o t) = Of(s) \cup Of(t)
<1>1. /\ s \o t \in Seq(S) /\ Len(s \o t) = Len(s) + Len(t)
      /\ \A i \in 1 .. Len(s) + Len(t) :
           (s \o t)[i] = IF i <= Len(s) THEN s[i] ELSE t[i - Len(s)]
  BY ConcatProperties
<1>2. Len(s) \in Nat /\ Len(t) \in Nat
  BY LenProperties
<1>3. ASSUME NEW i \in 1 .. Len(s)
      PROVE  s[i] \in Of(s \o t)
  BY <1>1, <1>2 DEF Of
<1>4. ASSUME NEW i \in 1 .. Len(t)
      PROVE  t[i] \in Of(s \o t)
  <2>1. i + Len(s) \in 1 .. Len(s \o t) /\ (s \o t)[i + Len(s)] = t[i]
    BY <1>1, <1>2
  <2>. QED
    BY <2>1 DEF Of
<1>5. ASSUME NEW i \in 1 .. Len(s) + Len(t)
      PROVE  (s \o t)[i] \in Of(s) \cup Of(t)
  <2>1. CASE i <= Len(s)
    BY <1>1, <1>2, <2>1 DEF Of
  <2>2. CASE ~(i <= Len(s))
    <3>1. i - Len(s) \in 1 .. Len(t)
      BY <1>2, <2>2
    <3>. QED
      BY <1>1, <2>2, <3>1 DEF Of
  <2>. QED
    BY <2>1, <2>2
<1>6. Of(s \o t) \subseteq Of(s) \cup Of(t)
  BY <1>1, <1>5 DEF Of
<1>7. Of(s) \cup Of(t) \subseteq Of(s \o t)
  BY <1>3, <1>4 DEF Of
<1>. QED
  BY <1>1, <1>6, <1>7

LEMMA OfAppend ==
  ASSUME NEW S, NEW s \in Seq(S), NEW e \in S
  PROVE  Append(s, e) \in Seq(S) /\ Of(Append(s, e)) = Of(s) \cup {e}
<1>1. /\ Append(s, e) \in Seq(S) /\ Len(Append(s, e)) = Len(s) + 1 /\ Len(s) \in Nat
      /\ \A i \in 1 .. Len(s) : Append(s, e)[i] = s[i]
      /\ Append(s, e)[Len(s) + 1] = e
  BY AppendProperties, LenProperties
<1>2. \A i : i \in 1 .. Len(s) + 1 <=> i \in 1 .. Len(s) \/ i = Len(s) + 1
  BY <1>1
<1>. QED
  BY <1>1, <1>2 DEF Of

LEMMA OfTail ==
  ASSUME NEW S, NEW s \in Seq(S), s # <<>>
  PROVE  /\ Tail(s) \in Seq(S) /\ Head(s) \in S /\ Of(s) = Of(Tail(s)) \cup {Head(s)}
<1>1. /\ Tail(s) \in Seq(S) /\ Head(s) \in S /\ Head(s) = s[1]
      /\ Len(Tail(s)) = Len(s) - 1 /\ Len(s) \in Nat \ {0}
      /\ \A i \in 1 .. Len(Tail(s)) : Tail(s)[i] = s[i + 1]
  BY HeadTailProperties, EmptySeq
<1>2. ASSUME NEW i \in 1 .. Len(s)
      PROVE  s[i] \in Of(Tail(s)) \cup {Head(s)}
  <2>1. CASE i = 1
    BY <1>1, <2>1
  <2>2. CASE i # 1
    <3>1. i - 1 \in 1 .. Len(Tail(s)) /\ Tail(s)[i - 1] = s[i]
      BY <1>1, <2>2
    <3>. QED
      BY <3>1 DEF Of
  <2>. QED
    BY <2>1, <2>2
<1>3. ASSUME NEW i \in 1 .. Len(Tail(s))
      PROVE  Tail(s)[i] \in Of(s)
  BY <1>1 DEF Of
<1>4. Head(s) \in Of(s)
  BY <1>1 DEF Of
<1>5. Of(s) \subseteq Of(Tail(s)) \cup {Head(s)}
  BY <1>2 DEF Of
<1>6. Of(Tail(s)) \subseteq Of(s)
  BY <1>3 DEF Of
<1>. QED
  BY <1>1, <1>4, <1>5, <1>6

(* A drain writes the metrics of the queue, all of them and in their order.    *)
LEMMA DrainedMetrics ==
  ASSUME NEW at \in MetricPlaces, inflight \in Seq(Rec)
  PROVE  /\ MetricsAt(at) \in Seq(Rec)
         /\ Len(MetricsAt(at)) \in Nat /\ DOMAIN at = 1 .. Len(MetricsAt(at))
         /\ \A k \in 1 .. Len(MetricsAt(at)) :
              /\ at[k] \in 1 .. Len(inflight) /\ IsMetrics(inflight[at[k]])
              /\ MetricsAt(at)[k] = inflight[at[k]]
         /\ \A j, k \in 1 .. Len(MetricsAt(at)) : j < k => at[j] < at[k]
         /\ Of(MetricsAt(at)) = {m \in Of(inflight) : IsMetrics(m)}
<1>1. PICK n \in 0 .. Len(inflight) : at \in [1 .. n -> DOMAIN inflight]
  BY DEF MetricPlaces
<1>2. /\ \A j, k \in DOMAIN at : j < k => at[j] < at[k]
      /\ \A i \in DOMAIN inflight :
           IsMetrics(inflight[i]) <=> \E k \in DOMAIN at : at[k] = i
  BY DEF MetricPlaces
<1>3. Len(inflight) \in Nat /\ DOMAIN inflight = 1 .. Len(inflight) /\ n \in Nat
  BY <1>1, LenProperties
<1>4. /\ MetricsAt(at) = [k \in 1 .. n |-> inflight[at[k]]]
      /\ \A k \in 1 .. n : at[k] \in 1 .. Len(inflight) /\ inflight[at[k]] \in Rec
  BY <1>1, <1>3, ElementOfSeq DEF MetricsAt
<1>5. MetricsAt(at) \in Seq(Rec) /\ Len(MetricsAt(at)) = n
  BY <1>3, <1>4
<1>6. \A k \in 1 .. n : IsMetrics(inflight[at[k]])
  BY <1>1, <1>2, <1>3
<1>7. Of(MetricsAt(at)) = {m \in Of(inflight) : IsMetrics(m)}
  <2>1. ASSUME NEW k \in 1 .. n
        PROVE  MetricsAt(at)[k] \in Of(inflight) /\ IsMetrics(MetricsAt(at)[k])
    BY <1>4, <1>6 DEF Of
  <2>2. ASSUME NEW i \in 1 .. Len(inflight), IsMetrics(inflight[i])
        PROVE  inflight[i] \in Of(MetricsAt(at))
    <3>1. PICK k \in 1 .. n : at[k] = i
      BY <1>1, <1>2, <1>3, <2>2
    <3>. QED
      BY <1>4, <1>5, <3>1 DEF Of
  <2>. QED
    BY <1>5, <2>1, <2>2 DEF Of
<1>. QED
  BY <1>1, <1>2, <1>3, <1>4, <1>5, <1>6, <1>7

Less == {p \in Nat \X Nat : p[1] < p[2]}

(* Induction on the natural numbers, over a set.                               *)
LEMMA SetInduction ==
  ASSUME NEW T, 0 \in T, \A n \in T : n + 1 \in T
  PROVE  Nat \subseteq T
<1>1. Less = OpToRel(<, Nat)
  BY DEF OpToRel, Less
<1>2. IsWellFoundedOn(Less, Nat)
  BY <1>1, NatLessThanWellFounded
<1>3. SUFFICES ASSUME Nat \ T # {} PROVE FALSE
  OBVIOUS
<1>4. PICK x \in Nat \ T : \A y \in Nat \ T : ~ (<<y, x>> \in Less)
  BY <1>2, <1>3, WFMin
<1>5. x # 0 /\ x - 1 \in Nat
  BY <1>4
<1>6. <<x - 1, x>> \in Less
  BY <1>5 DEF Less
<1>. QED
  BY <1>4, <1>5, <1>6

(* at: the places of the metrics among the first n in the queue, k of them.    *)
PlacesIn(n, k, at) ==
  /\ at \in [1 .. k -> 1 .. n]
  /\ \A i, j \in 1 .. k : i < j => at[i] < at[j]
  /\ \A i \in 1 .. n : IsMetrics(inflight[i]) <=> \E j \in 1 .. k : at[j] = i

Placed == {n \in Nat : \E k \in 0 .. n : \E at : PlacesIn(n, k, at)}

LEMMA NextPlace ==
  ASSUME NEW n \in Nat, NEW k \in 0 .. n, NEW at, PlacesIn(n, k, at)
  PROVE  \E l \in 0 .. n + 1 : \E to : PlacesIn(n + 1, l, to)
<1>1. k \in Nat /\ n + 1 \in Nat
  OBVIOUS
<1>2. CASE IsMetrics(inflight[n + 1])
  <2>. DEFINE to == [j \in 1 .. k + 1 |-> IF j = k + 1 THEN n + 1 ELSE at[j]]
  <2>1. to \in [1 .. k + 1 -> 1 .. n + 1]
    BY <1>1 DEF PlacesIn
  <2>2. \A i, j \in 1 .. k + 1 : i < j => to[i] < to[j]
    BY <1>1 DEF PlacesIn
  <2>3. ASSUME NEW i \in 1 .. n + 1, IsMetrics(inflight[i])
        PROVE  \E j \in 1 .. k + 1 : to[j] = i
    <3>1. CASE i = n + 1
      BY <1>1, <3>1
    <3>2. CASE i # n + 1
      <4>1. PICK j \in 1 .. k : at[j] = i
        BY <2>3, <3>2 DEF PlacesIn
      <4>2. j \in 1 .. k + 1 /\ to[j] = i
        BY <1>1, <4>1
      <4>. QED
        BY <4>2
    <3>. QED
      BY <3>1, <3>2
  <2>4. ASSUME NEW j \in 1 .. k + 1
        PROVE  IsMetrics(inflight[to[j]])
    BY <1>1, <1>2 DEF PlacesIn
  <2>. HIDE DEF to
  <2>5. PlacesIn(n + 1, k + 1, to) /\ k + 1 \in 0 .. n + 1
    BY <1>1, <2>1, <2>2, <2>3, <2>4 DEF PlacesIn
  <2>. QED
    BY <2>5
<1>3. CASE ~IsMetrics(inflight[n + 1])
  <2>1. at \in [1 .. k -> 1 .. n + 1]
    BY <1>1 DEF PlacesIn
  <2>2. PlacesIn(n + 1, k, at) /\ k \in 0 .. n + 1
    BY <1>1, <1>3, <2>1 DEF PlacesIn
  <2>. QED
    BY <2>2
<1>. QED
  BY <1>2, <1>3

(* A drain can always be made: the metrics in the queue have their places.     *)
LEMMA MetricPlacesExist ==
  ASSUME inflight \in Seq(Rec)
  PROVE  MetricPlaces # {}
<1>1. 0 \in Placed
  <2>1. PlacesIn(0, 0, <<>>)
    BY DEF PlacesIn
  <2>2. 0 \in 0 .. 0
    OBVIOUS
  <2>. QED
    BY <2>1, <2>2 DEF Placed
<1>2. ASSUME NEW n \in Placed
      PROVE  n + 1 \in Placed
  <2>1. n \in Nat /\ n + 1 \in Nat
    BY DEF Placed
  <2>2. PICK k \in 0 .. n : \E at : PlacesIn(n, k, at)
    BY DEF Placed
  <2>3. PICK at : PlacesIn(n, k, at)
    BY <2>2
  <2>. QED
    BY <2>1, <2>3, NextPlace DEF Placed
<1>3. Len(inflight) \in Nat /\ DOMAIN inflight = 1 .. Len(inflight)
  BY LenProperties
<1>4. Len(inflight) \in Placed
  BY <1>1, <1>2, <1>3, SetInduction
<1>5. PICK k \in 0 .. Len(inflight) : \E at : PlacesIn(Len(inflight), k, at)
  BY <1>4 DEF Placed
<1>6. PICK at : PlacesIn(Len(inflight), k, at)
  BY <1>5
<1>7. at \in MetricPlaces
  BY <1>3, <1>6 DEF PlacesIn, MetricPlaces
<1>. QED
  BY <1>7

Queued == Of(inflight) \cup {pendingMetrics}

LEMMA NoMetricsTyped == NoMetrics \in Rec /\ ~IsMetrics(NoMetrics) /\ NoMetrics.mode = "none"
BY DEF NoMetrics, Rec, Modes, IsMetrics

LEMMA OutstandingSets ==
  /\ Outstanding = Of(log) \cup Queued
  /\ Outstanding' = Of(log') \cup Queued'
BY DEF Outstanding, Queued, Of

(* What is pending is written before the metrics ms.                           *)
LEMMA FlushedMetrics ==
  ASSUME QueueTypes, NEW ms \in Seq(Rec)
  PROVE  /\ Flushed(ms) \in Seq(Rec)
         /\ Of(Flushed(ms)) =
              Of(log) \cup Of(ms) \cup {m \in {pendingMetrics} : IsMetrics(m)}
<1>1. DEFINE p == IF IsMetrics(pendingMetrics) THEN <<pendingMetrics>> ELSE <<>>
<1>2. p \in Seq(Rec) /\ Of(p) = {m \in {pendingMetrics} : IsMetrics(m)}
  BY DEF QueueTypes, Of
<1>3. Flushed(ms) = (log \o p) \o ms
  BY DEF Flushed
<1>. HIDE DEF p
<1>4. PICK q : q = log \o p
  OBVIOUS
<1>5. q \in Seq(Rec) /\ Of(q) = Of(log) \cup Of(p)
  BY <1>2, <1>4, OfConcat DEF QueueTypes
<1>6. q \o ms \in Seq(Rec) /\ Of(q \o ms) = Of(q) \cup Of(ms)
  BY <1>5, OfConcat
<1>. QED
  BY <1>2, <1>3, <1>4, <1>5, <1>6

(* Metrics in the queue and metrics pending move on: nothing else is written,  *)
(* and nothing is dropped.                                                     *)
Moves ==
  /\ QueueTypes'
  /\ Of(log) \subseteq Of(log')
  /\ Of(log') \subseteq Of(log) \cup {m \in Queued : IsMetrics(m)}
  /\ Queued' \subseteq Queued \cup {NoMetrics}
  /\ \A m \in Queued : IsMetrics(m) => m \in Of(log') \cup Queued'

LEMMA WaitForNextMoves ==
  ASSUME QueueTypes, WaitForNext
  PROVE  Moves
<1>1. CASE UNCHANGED throttlerVars
  BY <1>1 DEF Moves, QueueTypes, Queued, Of, throttlerVars
<1>2. CASE ~UNCHANGED throttlerVars
  <2>1. inflight # <<>>
    BY <1>2, ThrottlerAssumption, EmptySeq DEF WaitForNext, ThrottlerAssumption
  <2>2. /\ inflight' = Tail(inflight)
        /\ IF IsMetrics(Head(inflight))
             THEN log' = Flushed(<<>>) /\ pendingMetrics' = Head(inflight)
             ELSE log' = log /\ pendingMetrics' = pendingMetrics
    BY <1>2 DEF WaitForNext
  <2>3. /\ Tail(inflight) \in Seq(Rec) /\ Head(inflight) \in Rec
        /\ Of(inflight) = Of(Tail(inflight)) \cup {Head(inflight)}
    BY <2>1, OfTail DEF QueueTypes
  <2>4. <<>> \in Seq(Rec) /\ Of(<<>>) = {}
    BY DEF Of
  <2>5. /\ Flushed(<<>>) \in Seq(Rec)
        /\ Of(Flushed(<<>>)) = Of(log) \cup {m \in {pendingMetrics} : IsMetrics(m)}
    BY <2>4, FlushedMetrics
  <2>6. Of(inflight') = Of(Tail(inflight))
    BY <2>2 DEF Of
  <2>7. CASE IsMetrics(Head(inflight))
    <3>1. log' = Flushed(<<>>) /\ pendingMetrics' = Head(inflight)
      BY <2>2, <2>7
    <3>. QED
      BY <2>2, <2>3, <2>5, <2>6, <3>1 DEF Moves, QueueTypes, Queued
  <2>8. CASE ~IsMetrics(Head(inflight))
    <3>1. log' = log /\ pendingMetrics' = pendingMetrics
      BY <2>2, <2>8
    <3>. QED
      BY <2>2, <2>3, <2>6, <2>8, <3>1 DEF Moves, QueueTypes, Queued
  <2>. QED
    BY <2>7, <2>8
<1>. QED
  BY <1>1, <1>2

LEMMA WaitForAllMoves ==
  ASSUME QueueTypes, WaitForAll
  PROVE  Moves /\ Queued' = {NoMetrics} /\ \A m \in Queued : IsMetrics(m) => m \in Of(log')
<1>1. PICK at \in MetricPlaces : log' = Flushed(MetricsAt(at))
  BY DEF WaitForAll
<1>2. /\ MetricsAt(at) \in Seq(Rec)
      /\ Of(MetricsAt(at)) = {m \in Of(inflight) : IsMetrics(m)}
  BY DrainedMetrics DEF QueueTypes
<1>3. /\ log' \in Seq(Rec)
      /\ Of(log') = Of(log) \cup Of(MetricsAt(at)) \cup {m \in {pendingMetrics} : IsMetrics(m)}
  BY <1>1, <1>2, FlushedMetrics
<1>4. inflight' = <<>> /\ Of(inflight') = {} /\ pendingMetrics' = NoMetrics
  BY DEF WaitForAll, Of
<1>. QED
  BY <1>2, <1>3, <1>4, NoMetricsTyped DEF Moves, QueueTypes, Queued

LEMMA AddMoves ==
  ASSUME QueueTypes, NEW m \in Rec, AddComputation(m)
  PROVE  /\ QueueTypes'
         /\ Of(log) \subseteq Of(log')
         /\ Of(log') \subseteq Of(log) \cup {n \in Queued : IsMetrics(n)}
         /\ Queued' \subseteq Queued \cup {NoMetrics, m} /\ m \in Queued'
         /\ \A n \in Queued : IsMetrics(n) => n \in Of(log') \cup Queued'
<1>1. <<>> \in Seq(Rec) /\ Of(<<>>) = {}
  BY DEF Of
<1>2. /\ log' = Flushed(<<>>) /\ Flushed(<<>>) \in Seq(Rec)
      /\ Of(Flushed(<<>>)) = Of(log) \cup {n \in {pendingMetrics} : IsMetrics(n)}
  BY <1>1, FlushedMetrics DEF AddComputation
<1>3. /\ inflight' = Append(inflight, m) /\ Append(inflight, m) \in Seq(Rec)
      /\ Of(Append(inflight, m)) = Of(inflight) \cup {m}
  BY OfAppend DEF AddComputation, QueueTypes
<1>4. pendingMetrics' = NoMetrics
  BY DEF AddComputation
<1>5. Of(log') = Of(Flushed(<<>>)) /\ Of(inflight') = Of(Append(inflight, m))
  BY <1>2, <1>3
<1>. QED
  BY <1>2, <1>3, <1>4, <1>5, NoMetricsTyped DEF QueueTypes, Queued

(* The calls by what they do to the metrics.                                   *)
Passes == BeginFwdBwd \/ BeginUpdate \/ BeginEvalStep \/ BeginFwdOnly
Dispatched == EndFwdBwd \/ EndEvalStep \/ EndFwdOnly
Drains ==
  EvalEnter \/ (\E force \in BOOLEAN : SaveCheckpoint(force)) \/ PrepareWeightSync \/ FinishClose
Rests ==
  \/ KernelFails \/ Replace \/ Commit \/ ReleaseWeightSync \/ Close
  \/ Device \/ Closed \/ UNCHANGED vars

LEMMA NextByMetrics ==
  ASSUME [Next]_vars
  PROVE  \/ Passes /\ WaitForNext
         \/ Dispatched /\ AddComputation(NoMetrics)
         \/ Drains /\ WaitForAll
         \/ Rests /\ UNCHANGED <<inflight, pendingMetrics, log>>
         \/ GetMetrics \/ EndUpdate \/ EvalExit \/ Start \/ Restore \/ Crash
<1>1. Passes => WaitForNext
  BY DEF Passes, BeginFwdBwd, BeginUpdate, BeginEvalStep, BeginFwdOnly
<1>2. Dispatched => AddComputation(NoMetrics)
  BY DEF Dispatched, EndFwdBwd, EndEvalStep, EndFwdOnly
<1>3. Drains => WaitForAll
  BY DEF Drains, EvalEnter, SaveCheckpoint, PrepareWeightSync, FinishClose
<1>4. Rests => UNCHANGED <<inflight, pendingMetrics, log>>
  BY DEF Rests, KernelFails, Replace, Commit, ReleaseWeightSync, Close, Device,
         DeviceFinishes, Closed, vars, throttlerVars
<1>5. \/ Passes \/ Dispatched \/ Drains \/ Rests
      \/ GetMetrics \/ EndUpdate \/ EvalExit \/ Start \/ Restore \/ Crash
  BY DEF Next, Passes, Dispatched, Drains, Rests
<1>. QED
  BY <1>1, <1>2, <1>3, <1>4, <1>5

BufferSeq == Seq([id : Nat, losses : Nat])

DataTypes ==
  /\ QueueTypes
  /\ buffers \in BufferSeq
  /\ evalLosses \in Nat

LEMMA StepMetricsTyped ==
  ASSUME step \in Nat, grads.n \in Nat, NEW b \in BufferSeq
  PROVE  /\ StepMetrics(b) \in Rec
         /\ StepMetrics(b).mode = "train" <=> HasStep(b, step)
         /\ IsMetrics(StepMetrics(b)) <=> HasStep(b, step)
         /\ HasStep(b, step) => StepMetrics(b) = Train(step, Newest(b).losses, grads.n)
<1>1. CASE HasStep(b, step)
  <2>1. b # <<>> /\ Len(b) \in 1 .. Len(b)
    BY <1>1, EmptySeq DEF HasStep, BufferSeq
  <2>2. Newest(b) \in [id : Nat, losses : Nat]
    BY <2>1, ElementOfSeq DEF Newest, BufferSeq
  <2>. QED
    BY <1>1, <2>2 DEF StepMetrics, Train, Rec, Modes, IsMetrics, NoMetrics
<1>2. CASE ~HasStep(b, step)
  BY <1>2, NoMetricsTyped DEF StepMetrics
<1>. QED
  BY <1>1, <1>2

BusyRead == Mark("busy_read")

LEMMA MarksTyped ==
  /\ Restarted \in Rec /\ Restarted.mode = IF Quiet THEN "restart" ELSE "busy_restart"
  /\ BusyRead \in Rec /\ BusyRead.mode = "busy_read"
BY DEF Restarted, BusyRead, Mark, NoMetrics, Rec, Modes

(* Train metrics are only those of an update, and are lost only in a crash.    *)
LEMMA MetricsMove ==
  ASSUME DataTypes, Accumulated, [Next]_vars, EndUpdate => buffers' \in BufferSeq
  PROVE  /\ QueueTypes'
         /\ Of(log) \subseteq Of(log')
         /\ \A m \in Outstanding' :
              \/ m \in Outstanding \/ m \in {NoMetrics, Restarted, BusyRead}
              \/ EvalExit /\ m = Eval(step, evalLosses)
              \/ EndUpdate /\ m = StepMetrics(buffers')
         /\ EndUpdate => StepMetrics(buffers') \in Outstanding'
         /\ ~Crash => \A m \in Outstanding : m.mode = "train" => m \in Outstanding'
<1>1. /\ Outstanding = Of(log) \cup Queued /\ Outstanding' = Of(log') \cup Queued'
      /\ \A m : m.mode = "train" => IsMetrics(m)
      /\ QueueTypes
  BY OutstandingSets DEF IsMetrics, NoMetrics, DataTypes
<1>2. CASE EndUpdate
  <2>1. AddComputation(StepMetrics(buffers'))
    BY <1>2 DEF EndUpdate
  <2>2. StepMetrics(buffers') \in Rec
    BY <1>2, StepMetricsTyped DEF Accumulated
  <2>. QED
    BY <1>1, <1>2, <2>1, <2>2, AddMoves, NoMetricsTyped
<1>3. CASE ~EndUpdate /\ (WaitForNext \/ WaitForAll)
  <2>1. Moves
    BY <1>1, <1>3, WaitForNextMoves, WaitForAllMoves
  <2>. QED
    BY <1>1, <1>3, <2>1, NoMetricsTyped DEF Moves
<1>4. CASE ~EndUpdate /\ AddComputation(NoMetrics)
  BY <1>1, <1>4, AddMoves, NoMetricsTyped
<1>5. CASE ~EndUpdate /\ UNCHANGED <<inflight, pendingMetrics, log>>
  BY <1>1, <1>5 DEF QueueTypes, Queued, Of
<1>6. ASSUME ~EndUpdate, NEW m \in Rec, m.mode # "train", log' = Append(log, m),
             UNCHANGED <<inflight, pendingMetrics>>
      PROVE  /\ QueueTypes'
             /\ Of(log) \subseteq Of(log')
             /\ Outstanding' = Outstanding \cup {m}
  <2>1. Append(log, m) \in Seq(Rec) /\ Of(Append(log, m)) = Of(log) \cup {m}
    BY <1>1, OfAppend DEF QueueTypes
  <2>2. Of(log') = Of(log) \cup {m} /\ Queued' = Queued
    BY <1>6, <2>1 DEF Queued, Of
  <2>. QED
    BY <1>1, <1>6, <2>1, <2>2 DEF QueueTypes
<1>7. CASE ~EndUpdate /\ EvalExit
  <2>1. CASE evalLosses > 0
    <3>1. Eval(step, evalLosses) \in Rec /\ Eval(step, evalLosses).mode # "train"
      BY DEF Eval, Rec, Modes, Accumulated, DataTypes
    <3>. QED
      BY <1>6, <1>7, <2>1, <3>1 DEF EvalExit
  <2>2. CASE ~(evalLosses > 0)
    BY <1>5, <1>7, <2>2 DEF EvalExit
  <2>. QED
    BY <2>1, <2>2
<1>8. CASE ~EndUpdate /\ (Start \/ Restore \/ GetMetrics)
  <2>1. CASE Start \/ Restore
    BY <1>6, <1>8, <2>1, MarksTyped DEF Start, Restore
  <2>2. CASE GetMetrics
    BY <1>5, <1>6, <1>8, <2>2, MarksTyped DEF GetMetrics, BusyRead
  <2>. QED
    BY <1>8, <2>1, <2>2
<1>9. CASE Crash
  <2>1. inflight' = <<>> /\ pendingMetrics' = NoMetrics /\ log' = log /\ ~EndUpdate
    BY <1>9 DEF Crash, LoseInflight, EndUpdate, lifeVars
  <2>. QED
    BY <1>1, <1>9, <2>1, NoMetricsTyped DEF QueueTypes, Queued, Of
<1>. QED
  BY <1>2, <1>3, <1>4, <1>5, <1>7, <1>8, <1>9, NextByMetrics

LEMMA EvictedKeepsNewest ==
  ASSUME NEW S, NEW b \in Seq(S), b # <<>>
  PROVE  /\ Evicted(b) \in Seq(S) /\ Evicted(b) # <<>>
         /\ Newest(Evicted(b)) = Newest(b) /\ Len(Evicted(b)) <= MaxBuffered
<1>1. Len(b) \in Nat \ {0} /\ MaxBuffered \in Nat \ {0}
  BY EmptySeq, EngineAssumption DEF EngineAssumption
<1>2. CASE Len(b) > MaxBuffered
  <2>1. DEFINE first == Len(b) - MaxBuffered + 1
  <2>2. first \in 1 .. Len(b) /\ Len(b) - first + 1 = MaxBuffered
    BY <1>1, <1>2
  <2>3. \A i \in first .. Len(b) : b[i] \in S
    BY <2>2, ElementOfSeq
  <2>4. Evicted(b) = SubSeq(b, first, Len(b))
    BY <1>2 DEF Evicted
  <2>. HIDE DEF first
  <2>5. /\ SubSeq(b, first, Len(b)) \in Seq(S)
        /\ Len(SubSeq(b, first, Len(b))) = MaxBuffered
        /\ \A i \in 1 .. MaxBuffered : SubSeq(b, first, Len(b))[i] = b[first + i - 1]
    BY <1>1, <2>2, <2>3, SubSeqProperties
  <2>6. SubSeq(b, first, Len(b))[MaxBuffered] = b[Len(b)]
    <3>1. first + MaxBuffered - 1 = Len(b) /\ MaxBuffered \in 1 .. MaxBuffered
      BY <1>1, <2>2
    <3>. QED
      BY <2>5, <3>1
  <2>. QED
    BY <1>1, <2>4, <2>5, <2>6, EmptySeq DEF Newest
<1>3. CASE ~(Len(b) > MaxBuffered)
  BY <1>1, <1>3 DEF Evicted
<1>. QED
  BY <1>2, <1>3

(* What is newly listed is what the engine is at, with its metrics drained.    *)
LEMMA NewlyListed ==
  ASSUME EngineInv, [Next]_vars, NEW c \in Listed', c \notin Listed
  PROVE  /\ c = Checkpoint /\ phase = "up" /\ phase' = "up"
         /\ UNCHANGED <<stepVars, buffers>>
         /\ \/ call = "replace" /\ UNCHANGED throttlerVars
            \/ call # "replace" /\ WaitForAll
<1>1. CASE \E force \in BOOLEAN : SaveCheckpoint(force)
  <2>1. PICK force \in BOOLEAN : SaveCheckpoint(force)
    BY <1>1
  <2>2. StartSave(Checkpoint, force)
    BY <2>1 DEF SaveCheckpoint, SkipSaved, DeleteSuperseded, Listed, checkpointVars
  <2>3. phase = "up" /\ phase' = "up" /\ call # "replace"
    BY <2>1 DEF SaveCheckpoint, Idle, EngineInv, Phases, lifeVars
  <2>. QED
    BY <2>1, <2>2, <2>3 DEF StartSave, Listed, SaveCheckpoint
<1>2. CASE Replace
  BY <1>2 DEF Replace, StartSave, Listed, EngineInv, Phases, lifeVars
<1>3. CASE Commit
  BY <1>3 DEF Commit, CommitSave, Retained, Listed
<1>4. CASE ~Commit /\ ~Replace /\ ~\E force \in BOOLEAN : SaveCheckpoint(force)
  <2>1. disk' = disk /\ saving' \subseteq saving
    BY <1>4 DEF Next, vars, checkpointVars, BeginFwdBwd, BeginUpdate, BeginEvalStep,
         BeginFwdOnly, EndFwdBwd, EndUpdate, EndEvalStep, EndFwdOnly, KernelFails, EvalEnter,
         EvalExit, GetMetrics, Start, Restore, PrepareWeightSync,
         ReleaseWeightSync, Close, FinishClose, Crash, LoseSave, Device, Closed
  <2>. QED
    BY <2>1 DEF Listed
<1>. QED
  BY <1>1, <1>2, <1>3, <1>4

BaseStep(c) == IF c.micro > 0 THEN c.step - 1 ELSE c.step

(* Whatever is buffered, the buffers end with the current step after it.       *)
LEMMA BufferedEndsWithStep ==
  ASSUME NEW I, step \in I, buffers \in Seq([id : I, losses : Nat]), NEW n \in Nat
  PROVE  /\ Buffered(n) \in Seq([id : I, losses : Nat])
         /\ HasStep(Buffered(n), step)
         /\ Len(buffers) <= MaxBuffered => Len(Buffered(n)) <= MaxBuffered
<1>. DEFINE B == [id : I, losses : Nat]
<1>1. Seq([id : I, losses : Nat]) = Seq(B) /\ buffers \in Seq(B)
  OBVIOUS
<1>2. CASE buffers = <<>> \/ Newest(buffers).id # step
  <2>. DEFINE e == [id |-> step, losses |-> n]
  <2>1. Buffered(n) = Evicted(Append(buffers, e)) /\ e \in B /\ e.id = step
    BY <1>2 DEF Buffered
  <2>. HIDE DEF B, e
  <2>2. /\ Append(buffers, e) \in Seq(B) /\ Append(buffers, e) # <<>>
        /\ Newest(Append(buffers, e)) = e
    BY <1>1, <2>1, AppendProperties DEF Newest
  <2>. QED
    BY <1>1, <2>1, <2>2, EvictedKeepsNewest DEF HasStep
<1>3. CASE ~(buffers = <<>> \/ Newest(buffers).id # step)
  <2>. DEFINE k == Len(buffers)
              e == [buffers[k] EXCEPT !.losses = @ + n]
  <2>1. k \in Nat \ {0} /\ buffers \in [1 .. k -> B] /\ buffers[k] \in B /\ buffers[k].id = step
    <3>. HIDE DEF B, e
    <3>1. k \in Nat \ {0} /\ buffers \in [1 .. k -> B]
      BY <1>1, <1>3, EmptySeq, LenProperties
    <3>. QED
      BY <1>3, <3>1 DEF Newest
  <2>2. Buffered(n) = [buffers EXCEPT ![k] = e] /\ e \in B /\ e.id = step /\ k \in 1 .. k
    BY <1>3, <2>1 DEF Buffered
  <2>. HIDE DEF B, e
  <2>3. /\ [buffers EXCEPT ![k] = e] \in Seq(B) /\ Len([buffers EXCEPT ![k] = e]) = k
        /\ [buffers EXCEPT ![k] = e][k] = e
    BY <2>1, <2>2, ExceptSeq
  <2>4. [buffers EXCEPT ![k] = e] # <<>>
    BY <2>1, <2>3, EmptySeq
  <2>. QED
    BY <1>1, <2>1, <2>2, <2>3, <2>4 DEF HasStep, Newest
<1>. QED
  BY <1>2, <1>3

(* What an engine holds, wherever it was restored.                             *)
DataInv ==
  /\ EngineInv
  /\ DataTypes
  /\ \A c \in Listed : c.buffers \in BufferSeq
  /\ phase = "down" => step = 0

LEMMA DataInit ==
  ASSUME Init
  PROVE  DataInv
<1>1. QueueTypes
  BY NoMetricsTyped DEF Init, ThrottlerInit, QueueTypes
<1>2. DataTypes
  BY <1>1 DEF Init, DataTypes, BufferSeq
<1>. QED
  BY <1>2, EngineInit DEF Init, CheckpointInit, DataInv, Listed

LEMMA DataNext ==
  ASSUME DataInv, [Next]_vars
  PROVE  /\ DataInv'
         /\ EndUpdate => buffers' \in BufferSeq /\ HasStep(buffers', step)
<1>1. EngineInv /\ EngineInv' /\ step \in Nat /\ buffers \in BufferSeq /\ <<>> \in BufferSeq
  BY EngineNext DEF DataInv, DataTypes, EngineInv, Accumulated, BufferSeq
<1>2. \A n \in Nat : Buffered(n) \in BufferSeq /\ HasStep(Buffered(n), step)
  BY <1>1, BufferedEndsWithStep DEF BufferSeq
<1>3. /\ EndUpdate => buffers' \in BufferSeq /\ HasStep(buffers', step)
      /\ QueueTypes'
  <2>1. EndUpdate => buffers' \in BufferSeq /\ HasStep(buffers', step)
    BY <1>2 DEF EndUpdate
  <2>. QED
    BY <1>1, <2>1, MetricsMove DEF DataInv, EngineInv
<1>4. (buffers \in BufferSeq)'
  <2>1. \/ buffers' \in {buffers, <<>>, Buffered(0), Buffered(1)}
        \/ \E c \in NewestOnDisk : Load(c)
    BY DEF Next, vars, BeginFwdBwd, BeginUpdate, BeginEvalStep, BeginFwdOnly,
         EndFwdBwd, EndUpdate, EndEvalStep, EndFwdOnly, KernelFails, EvalEnter, EvalExit,
         GetMetrics, SaveCheckpoint, Replace, Commit, Start, Restore, PrepareWeightSync,
         ReleaseWeightSync, Close, FinishClose, Crash, Device, Closed
  <2>2. CASE \E c \in NewestOnDisk : Load(c)
    BY <1>1, <2>2 DEF Load, NewestOnDisk, DataInv, Listed
  <2>. QED
    BY <1>1, <1>2, <2>1, <2>2
<1>5. (evalLosses \in Nat)'
  <2>1. evalLosses' \in {evalLosses, evalLosses + 1, 0}
    BY DEF Next, vars, evalVars, BeginFwdBwd, BeginUpdate, BeginEvalStep, BeginFwdOnly,
         EndFwdBwd, EndUpdate, EndEvalStep, EndFwdOnly, KernelFails, EvalEnter, EvalExit,
         GetMetrics, SaveCheckpoint, Replace, Commit, Start, Restore, PrepareWeightSync,
         ReleaseWeightSync, Close, FinishClose, Crash, Device, Closed
  <2>. QED
    BY <2>1 DEF DataInv, DataTypes
<1>6. \A c \in Listed' : c.buffers \in BufferSeq
  BY <1>1, NewlyListed DEF DataInv, Checkpoint
<1>7. phase' = "down" => step' = 0
  <2>1. Crash \/ phase' # "down" \/ UNCHANGED <<step, phase>>
    BY <1>1 DEF Next, vars, stepVars, lifeVars, BeginFwdBwd, BeginUpdate, BeginEvalStep,
         BeginFwdOnly, EndFwdBwd, EndUpdate, EndEvalStep, EndFwdOnly, KernelFails, EvalEnter,
         EvalExit, GetMetrics, SaveCheckpoint, Replace, Commit, Start, Restore, Idle, Extra,
         PrepareWeightSync, ReleaseWeightSync, Close, FinishClose, Device, Closed,
         EngineInv, Phases
  <2>. QED
    BY <2>1 DEF Crash, DataInv
<1>. QED
  BY <1>1, <1>3, <1>4, <1>5, <1>6, <1>7 DEF DataInv, DataTypes

(* A step with a history that nothing disturbed yet was not disturbed before,  *)
(* and disturbs nothing.                                                       *)
LEMMA QuietSoFar ==
  ASSUME DataInv, [Next]_vars
  PROVE  /\ OnlyQuietRestores' => OnlyQuietRestores /\ (Start \/ Restore => Quiet)
         /\ Undisturbed' => /\ Undisturbed /\ OnlyQuietRestores'
                            /\ GetMetrics => micro = 0 /\ log' = log
<1>1. Of(log) \subseteq Of(log') /\ log \in Seq(Rec)
  BY DataNext, MetricsMove DEF DataInv, DataTypes, QueueTypes, EngineInv
<1>2. /\ OnlyQuietRestores <=> \A m \in Of(log) : m.mode # "busy_restart"
      /\ OnlyQuietRestores' <=> \A m \in Of(log') : m.mode # "busy_restart"
      /\ Undisturbed <=> \A m \in Of(log) : m.mode \notin {"busy_restart", "busy_read"}
      /\ Undisturbed' <=> \A m \in Of(log') : m.mode \notin {"busy_restart", "busy_read"}
  BY DEF OnlyQuietRestores, Undisturbed, Of
<1>3. \A m \in Rec : log' = Append(log, m) => m \in Of(log')
  BY <1>1, OfAppend
<1>4. OnlyQuietRestores' /\ (Start \/ Restore) => Quiet
  BY <1>2, <1>3, MarksTyped DEF Start, Restore
<1>5. Undisturbed' /\ GetMetrics => micro = 0 /\ log' = log
  <2>1. SUFFICES ASSUME Undisturbed', GetMetrics, micro > 0
                 PROVE  FALSE
    BY DEF GetMetrics, DataInv, EngineInv, Accumulated
  <2>. QED
    BY <1>2, <1>3, <2>1, MarksTyped DEF GetMetrics, BusyRead
<1>. QED
  BY <1>1, <1>2, <1>4, <1>5

GradsOf(m, v) == [n |-> m, of |-> IF m = 0 THEN {} ELSE {v}]

(* What is accumulated, at the engine and in every checkpoint inside a step,   *)
(* is of the micro-batches that are counted, with the weights of the step.     *)
ContentInv ==
  /\ grads = GradsOf(micro, version)
  /\ \A c \in Listed : c.micro > 0 => c.grads = GradsOf(c.micro, c.version)

LEMMA ContentNext ==
  ASSUME EngineInv, ContentInv, [Next]_vars, Start \/ Restore => Quiet
  PROVE  ContentInv'
<1>1. step \in Nat /\ micro \in Nat /\ grads = GradsOf(micro, version)
  BY DEF EngineInv, Accumulated, ContentInv
<1>2. \A c \in Listed' : c.micro > 0 => c.grads = GradsOf(c.micro, c.version)
  <2>1. SUFFICES ASSUME NEW c \in Listed', c \notin Listed
                 PROVE  c.grads = GradsOf(c.micro, c.version)
    BY DEF ContentInv
  <2>. QED
    BY <1>1, <2>1, NewlyListed DEF Checkpoint
<1>3. (grads = GradsOf(micro, version))'
  <2>1. CASE EndFwdBwd
    BY <1>1, <2>1 DEF EndFwdBwd, GradsOf
  <2>2. CASE EndUpdate \/ Crash
    BY <2>2 DEF EndUpdate, Crash, NoGrads, GradsOf
  <2>3. CASE Start \/ Restore
    <3>1. micro = 0
      BY <2>3 DEF Quiet
    <3>2. CASE \E c \in NewestOnDisk : Load(c)
      <4>1. PICK c \in NewestOnDisk : Load(c)
        BY <3>2
      <4>2. c.micro > 0 => c.grads = GradsOf(c.micro, c.version)
        BY DEF NewestOnDisk, ContentInv, Listed
      <4>3. c.micro \in Nat
        BY DEF NewestOnDisk, Listed, EngineInv, ListOrder, Sound
      <4>. QED
        BY <1>1, <3>1, <4>1, <4>2, <4>3 DEF Load, GradsOf
    <3>. QED
      BY <1>1, <2>3, <3>2 DEF Start, Restore, GradsOf, stepVars
  <2>4. CASE UNCHANGED stepVars
    BY <1>1, <2>4 DEF GradsOf, stepVars
  <2>5. EndFwdBwd \/ EndUpdate \/ Crash \/ Start \/ Restore \/ UNCHANGED stepVars
    BY DEF Next, vars, BeginFwdBwd, BeginUpdate, BeginEvalStep, BeginFwdOnly, EndEvalStep,
         EndFwdOnly, KernelFails, EvalEnter, EvalExit, GetMetrics, SaveCheckpoint, Replace,
         Commit, PrepareWeightSync, ReleaseWeightSync, Close, FinishClose, Device, Closed
  <2>. QED
    BY <2>1, <2>2, <2>3, <2>4, <2>5
<1>. QED
  BY <1>2, <1>3 DEF ContentInv

LEMMA ContentInit ==
  ASSUME Init
  PROVE  ContentInv
BY DEF Init, CheckpointInit, ContentInv, Listed, NoGrads, GradsOf

THEOREM DataInvariant ==
  Spec => []DataInv
<1>1. DataInv /\ [Next]_vars => DataInv'
  BY DataNext
<1>. QED
  BY <1>1, DataInit, PTL DEF Spec

(* The divisor of an update is that of its gradients, all micro-batches of the *)
(* step among them, wherever an engine was restored; and they are exactly      *)
(* those of the step, with its own weights, however often the engine crashed,  *)
(* as long as no engine was restored inside a step.                            *)
THEOREM AccumulatorHolds ==
  Spec => []AccumulatorIsOfThisStep
<1>1. /\ Init => ContentInv
      /\ DataInv /\ (OnlyQuietRestores => ContentInv) /\ [Next]_vars
           => (OnlyQuietRestores => ContentInv)'
  BY ContentInit, ContentNext, QuietSoFar DEF DataInv
<1>2. DataInv /\ (OnlyQuietRestores => ContentInv) => AccumulatorIsOfThisStep
  BY DEF DataInv, EngineInv, Accumulated, ContentInv, GradsOf, AccumulatorIsOfThisStep
<1>. QED
  BY <1>1, <1>2, DataInvariant, PTL DEF Spec

(* What is buffered at a step s of which m micro-batches are done.             *)
Full(b, s, m) ==
  /\ b \in BufferSeq
  /\ IF m = 0 THEN b # <<>> => Newest(b).id < s
     ELSE b # <<>> /\ Newest(b) = [id |-> s, losses |-> m]

LEMMA BufferedIs ==
  ASSUME step \in Nat, micro \in Nat, NEW n \in Nat, Full(buffers, step, micro), micro + n > 0,
         NEW S, buffers \in Seq(S), [id |-> step, losses |-> micro + n] \in S
  PROVE  /\ Buffered(n) \in Seq(S) /\ Buffered(n) # <<>>
         /\ Newest(Buffered(n)) = [id |-> step, losses |-> micro + n]
         /\ Len(buffers) <= MaxBuffered => Len(Buffered(n)) <= MaxBuffered
<1>. DEFINE e == [id |-> step, losses |-> micro + n]
<1>1. CASE buffers = <<>> \/ Newest(buffers).id # step
  <2>1. micro = 0 /\ n = micro + n
    BY <1>1 DEF Full
  <2>2. Buffered(n) = Evicted(Append(buffers, e))
    BY <1>1, <2>1 DEF Buffered
  <2>. HIDE DEF e
  <2>3. /\ Append(buffers, e) \in Seq(S) /\ Append(buffers, e) # <<>>
        /\ Newest(Append(buffers, e)) = e
    BY AppendProperties DEF Newest, e
  <2>. QED
    BY <2>2, <2>3, EvictedKeepsNewest DEF e
<1>2. CASE ~(buffers = <<>> \/ Newest(buffers).id # step)
  <2>. DEFINE k == Len(buffers)
  <2>1. micro > 0 /\ buffers[k] = [id |-> step, losses |-> micro]
    BY <1>2 DEF Full, Newest
  <2>2. k \in Nat \ {0} /\ buffers \in [1 .. k -> S]
    BY <1>2, EmptySeq, LenProperties
  <2>3. Buffered(n) = [buffers EXCEPT ![k] = e]
    <3>1. Buffered(n) = [buffers EXCEPT ![k] = [buffers[k] EXCEPT !.losses = @ + n]]
      BY <1>2 DEF Buffered
    <3>2. [buffers[k] EXCEPT !.losses = @ + n] = e
      BY <2>1
    <3>. QED
      BY <3>1, <3>2
  <2>4. e \in S /\ k \in 1 .. k
    BY <2>2
  <2>5. /\ [buffers EXCEPT ![k] = e] \in Seq(S) /\ Len([buffers EXCEPT ![k] = e]) = k
        /\ [buffers EXCEPT ![k] = e][k] = e
    <3>. HIDE DEF e
    <3>. QED
      BY <2>2, <2>4, ExceptSeq
  <2>6. [buffers EXCEPT ![k] = e] # <<>>
    BY <2>2, <2>5, EmptySeq
  <2>. QED
    BY <2>3, <2>5, <2>6 DEF Newest
<1>. QED
  BY <1>1, <1>2

LEMMA BufferedIsFull ==
  ASSUME step \in Nat, micro \in Nat, NEW n \in Nat, Full(buffers, step, micro), micro + n > 0
  PROVE  Full(Buffered(n), step, micro + n)
<1>. DEFINE B == [id : Nat, losses : Nat]
<1>1. buffers \in Seq(B) /\ [id |-> step, losses |-> micro + n] \in B /\ BufferSeq = Seq(B)
  BY DEF Full, BufferSeq
<1>. HIDE DEF B
<1>2. /\ Buffered(n) \in Seq(B) /\ Buffered(n) # <<>>
      /\ Newest(Buffered(n)) = [id |-> step, losses |-> micro + n]
  BY <1>1, BufferedIs
<1>3. micro + n # 0
  OBVIOUS
<1>. QED
  BY <1>1, <1>2, <1>3 DEF Full

BufferInv ==
  /\ phase = "up" => Full(buffers, step, micro)
  /\ phase # "up" => buffers = <<>>
  /\ \A c \in Listed : Full(c.buffers, BaseStep(c), c.micro)
  /\ call = "update" => micro > 0
  /\ phase \in {"up", "down", "closed"}

LEMMA LoadedBuffers ==
  ASSUME EngineInv, BufferInv, NEW c \in NewestOnDisk, Load(c), buffers = <<>>
  PROVE  Full(buffers', step', micro')
<1>1. Full(c.buffers, BaseStep(c), c.micro) /\ Sound(c)
  BY DEF NewestOnDisk, BufferInv, EngineInv, ListOrder, Listed
<1>2. step' = BaseStep(c) /\ micro' = c.micro /\ buffers' = c.buffers
  BY <1>1 DEF Load, BaseStep, Sound
<1>. QED
  BY <1>1, <1>2

LEMMA BufferStep ==
  ASSUME EngineInv, ContentInv, BufferInv, [Next]_vars, Start \/ Restore => Quiet,
         GetMetrics => micro = 0
  PROVE  BufferInv'
<1>1. \A c \in Listed' : Full(c.buffers, BaseStep(c), c.micro)
  <2>1. SUFFICES ASSUME NEW c \in Listed', c \notin Listed
                 PROVE  Full(c.buffers, BaseStep(c), c.micro)
    BY DEF BufferInv
  <2>2. c = Checkpoint /\ phase = "up"
    BY <2>1, NewlyListed
  <2>3. c.buffers = buffers /\ c.micro = micro /\ BaseStep(c) = step
    BY <2>2 DEF Checkpoint, BaseStep, EngineInv, Accumulated
  <2>. QED
    BY <2>2, <2>3 DEF BufferInv
<1>2. step \in Nat /\ micro \in Nat /\ grads = GradsOf(micro, version)
  BY DEF EngineInv, Accumulated, ContentInv
<1>3. CASE EndFwdBwd
  <2>1. phase = "up" /\ phase' = "up" /\ step' = step /\ micro' = micro + 1 /\ call' = "idle"
    BY <1>3 DEF EndFwdBwd, EngineInv, Phases, lifeVars
  <2>2. Full(Buffered(1), step, micro + 1)
    BY <1>2, <2>1, BufferedIsFull DEF BufferInv
  <2>. QED
    BY <1>1, <1>3, <2>1, <2>2 DEF BufferInv, EndFwdBwd
<1>4. CASE BeginUpdate
  <2>1. /\ phase = "up" /\ phase' = "up" /\ step' = step /\ micro' = micro /\ micro > 0
    BY <1>2, <1>4 DEF BeginUpdate, Idle, lifeVars, stepVars, NoGrads, GradsOf
  <2>2. Full(Buffered(0), step, micro)
    BY <1>2, <2>1, BufferedIsFull DEF BufferInv
  <2>. QED
    BY <1>1, <1>4, <2>1, <2>2 DEF BufferInv, BeginUpdate
<1>5. CASE EndUpdate
  <2>1. /\ phase = "up" /\ phase' = "up" /\ step' = step + 1 /\ micro' = 0 /\ micro > 0
        /\ call' # "update" /\ buffers' = Buffered(0)
    BY <1>5 DEF EndUpdate, EngineInv, Phases, lifeVars, BufferInv
  <2>2. Full(Buffered(0), step, micro)
    BY <1>2, <2>1, BufferedIsFull DEF BufferInv
  <2>3. Full(buffers', step', micro')
    BY <1>2, <2>1, <2>2 DEF Full
  <2>. QED
    BY <1>1, <2>1, <2>3 DEF BufferInv
<1>6. CASE Start \/ Restore
  <2>1. buffers = <<>> /\ phase' = "up" /\ call' = "idle"
    BY <1>6 DEF Start, Restore, Quiet, Idle, EngineInv, Phases
  <2>2. CASE \E c \in NewestOnDisk : Load(c)
    BY <1>1, <2>1, <2>2, LoadedBuffers DEF BufferInv
  <2>3. CASE Start /\ disk = {} /\ UNCHANGED <<stepVars, buffers>>
    <3>1. micro' = 0 /\ buffers' = <<>>
      BY <2>1, <2>3 DEF Start, EngineInv, Phases, stepVars
    <3>2. Full(buffers', step', micro')
      BY <3>1 DEF Full, BufferSeq
    <3>. QED
      BY <1>1, <2>1, <3>2 DEF BufferInv
  <2>. QED
    BY <1>6, <2>2, <2>3 DEF Start, Restore
<1>7. CASE GetMetrics
  <2>1. phase = "up" /\ phase' = "up" /\ micro' = 0 /\ buffers' = <<>> /\ call' = "idle"
    BY <1>7 DEF GetMetrics, Extra, Idle, stepVars
  <2>2. Full(buffers', step', micro')
    BY <2>1 DEF Full, BufferSeq
  <2>. QED
    BY <1>1, <2>1, <2>2 DEF BufferInv
<1>8. CASE FinishClose
  BY <1>1, <1>8 DEF FinishClose, BufferInv
<1>9. CASE Crash
  BY <1>1, <1>9 DEF Crash, BufferInv
<1>10. CASE /\ UNCHANGED <<step, micro, buffers, phase>>
            /\ call' = "update" => call = "update"
  BY <1>1, <1>10 DEF BufferInv
<1>11. \/ EndFwdBwd \/ BeginUpdate \/ EndUpdate \/ Start \/ Restore \/ GetMetrics
       \/ FinishClose \/ Crash
       \/ /\ UNCHANGED <<step, micro, buffers, phase>>
          /\ call' = "update" => call = "update"
  BY DEF Next, vars, stepVars, lifeVars, BeginFwdBwd, BeginEvalStep, BeginFwdOnly, EndEvalStep,
       EndFwdOnly, KernelFails, EvalEnter, EvalExit, SaveCheckpoint, AfterSave, Replace, Commit,
       PrepareWeightSync, ReleaseWeightSync, Close, Device, Closed
<1>. QED
  BY <1>3, <1>4, <1>5, <1>6, <1>7, <1>8, <1>9, <1>10, <1>11

(* The metrics of an update have the losses of all its micro-batches.          *)
AllWhole == \A m \in Outstanding : m.mode = "train" => m.losses = m.of

(* What the engine carries from step to step: the buffers hold the losses of   *)
(* exactly the micro-batches that are done, at the engine and in every         *)
(* checkpoint.                                                                 *)
MetricsInv ==
  /\ DataInv
  /\ ContentInv
  /\ BufferInv
  /\ AllWhole

LEMMA MetricsInit ==
  ASSUME Init
  PROVE  MetricsInv
<1>1. BufferInv
  BY DEF Init, CheckpointInit, BufferInv, Listed
<1>2. AllWhole
  BY OutstandingSets, NoMetricsTyped DEF Init, ThrottlerInit, AllWhole, Of, Queued
<1>. QED
  BY <1>1, <1>2, DataInit, ContentInit DEF MetricsInv

LEMMA InvTypes ==
  ASSUME MetricsInv
  PROVE  DataTypes /\ QueueTypes /\ evalLosses \in Nat /\ Accumulated /\ EngineInv /\ BufferInv
BY DEF MetricsInv, DataInv, DataTypes, EngineInv

LEMMA UpdatedBuffers ==
  ASSUME MetricsInv, EndUpdate
  PROVE  /\ Full(buffers', step, micro) /\ buffers' \in BufferSeq
         /\ StepMetrics(buffers') = Train(step, micro, micro)
<1>1. /\ phase = "up" /\ micro > 0 /\ buffers' = Buffered(0)
      /\ step \in Nat /\ micro \in Nat /\ grads.n = micro
  BY InvTypes DEF EndUpdate, EngineInv, Phases, MetricsInv, ContentInv, BufferInv, Accumulated,
                  GradsOf
<1>2. Full(Buffered(0), step, micro)
  BY <1>1, BufferedIsFull DEF MetricsInv, BufferInv
<1>. QED
  BY <1>1, <1>2 DEF Full, StepMetrics, HasStep

LEMMA MetricsNext ==
  ASSUME MetricsInv, [Next]_vars, Undisturbed'
  PROVE  MetricsInv'
<1>1. DataInv' /\ (Start \/ Restore => Quiet) /\ (GetMetrics => micro = 0)
  BY DataNext, QuietSoFar DEF MetricsInv
<1>2. ContentInv' /\ BufferInv'
  BY <1>1, InvTypes, ContentNext, BufferStep DEF MetricsInv
<1>3. AllWhole'
  <2>1. SUFFICES ASSUME NEW m \in Outstanding', m.mode = "train"
                 PROVE  m.losses = m.of
    BY DEF AllWhole
  <2>2. m \in Outstanding \/ (EndUpdate /\ m = StepMetrics(buffers'))
    <3>1. m \notin {NoMetrics, Restarted, BusyRead} /\ m # Eval(step, evalLosses)
      BY <2>1, MarksTyped, NoMetricsTyped DEF Eval
    <3>. QED
      BY <3>1, InvTypes, UpdatedBuffers, MetricsMove
  <2>3. CASE m \in Outstanding
    BY <2>1, <2>3 DEF MetricsInv, AllWhole
  <2>4. CASE EndUpdate /\ m = StepMetrics(buffers')
    BY <2>4, UpdatedBuffers DEF Train
  <2>. QED
    BY <2>2, <2>3, <2>4
<1>. QED
  BY <1>1, <1>2, <1>3 DEF MetricsInv

THEOREM MetricsInvariant ==
  Spec => [](Undisturbed => MetricsInv)
<1>1. DataInv /\ (Undisturbed => MetricsInv) /\ [Next]_vars => (Undisturbed => MetricsInv)'
  BY MetricsNext, QuietSoFar
<1>. QED
  BY <1>1, MetricsInit, DataInvariant, PTL DEF Spec

(* The metrics of an update have the losses of all of its micro-batches, also  *)
(* of those before a crash, in every checkpoint and restore, if none were read *)
(* inside a step and no busy engine was restored.                              *)
THEOREM MetricsAreWhole ==
  Spec => []MetricsWhole
<1>1. (Undisturbed => MetricsInv) => MetricsWhole
  BY DEF MetricsInv, AllWhole, MetricsWhole
<1>. QED
  BY <1>1, MetricsInvariant, PTL

-----------------------------------------------------------------------------
(* No metrics are lost.                                                        *)

HasSteps(ms, s) == \A t \in 0 .. s - 1 : \E m \in ms : m.mode = "train" /\ m.id = t

(* Every step before a checkpoint is in the log, since a save drains first; a  *)
(* checkpoint that is deleted to be replaced was drained for as well.          *)
LoggedInv ==
  /\ phase # "down" => HasSteps(Outstanding, step)
  /\ \A c \in Listed : HasSteps(Of(log), BaseStep(c))
  /\ call = "replace" => HasSteps(Of(log), step)

LEMMA LoggedInit ==
  ASSUME Init
  PROVE  LoggedInv
BY DEF Init, CheckpointInit, LoggedInv, Listed, HasSteps

LEMMA LoggedNext ==
  ASSUME DataInv, LoggedInv, [Next]_vars
  PROVE  LoggedInv'
<1>1. /\ Of(log) \subseteq Of(log')
      /\ EndUpdate => StepMetrics(buffers') \in Outstanding'
      /\ ~Crash => \A m \in Outstanding : m.mode = "train" => m \in Outstanding'
  BY DataNext, MetricsMove DEF DataInv, EngineInv
<1>2. Of(log') \subseteq Outstanding'
  BY OutstandingSets
<1>3. WaitForAll => HasSteps(Of(log'), step) \/ phase = "down"
  <2>1. SUFFICES ASSUME WaitForAll, phase # "down", NEW t \in 0 .. step - 1
                 PROVE  \E m \in Of(log') : m.mode = "train" /\ m.id = t
    BY DEF HasSteps
  <2>2. PICK m \in Outstanding : m.mode = "train" /\ m.id = t
    BY <2>1 DEF LoggedInv, HasSteps
  <2>3. IsMetrics(m)
    BY <2>2 DEF IsMetrics, NoMetrics
  <2>4. m \in Of(log')
    BY <1>1, <2>1, <2>2, <2>3, OutstandingSets, WaitForAllMoves DEF DataInv, DataTypes
  <2>. QED
    BY <2>2, <2>4
<1>4. ASSUME NEW c \in Listed'
      PROVE  HasSteps(Of(log'), BaseStep(c))
  <2>1. CASE c \in Listed
    BY <1>1, <2>1 DEF LoggedInv, HasSteps
  <2>2. CASE c \notin Listed
    <3>1. /\ c = Checkpoint /\ phase = "up"
          /\ \/ call = "replace" /\ UNCHANGED throttlerVars
             \/ call # "replace" /\ WaitForAll
      BY <2>2, NewlyListed DEF DataInv
    <3>2. BaseStep(c) = step
      BY <3>1 DEF Checkpoint, BaseStep, DataInv, EngineInv, Accumulated
    <3>3. HasSteps(Of(log'), step)
      BY <1>1, <1>3, <3>1 DEF LoggedInv, HasSteps
    <3>. QED
      BY <3>2, <3>3
  <2>. QED
    BY <2>1, <2>2
<1>5. call' = "replace" => HasSteps(Of(log'), step')
  <2>1. CASE call = "replace"
    <3>1. call' = "replace" => step' = step
      BY <2>1 DEF Next, vars, stepVars, lifeVars, BeginFwdBwd, BeginUpdate, BeginEvalStep,
           BeginFwdOnly, EndFwdBwd, EndUpdate, EndEvalStep, EndFwdOnly, KernelFails, EvalEnter,
           EvalExit, GetMetrics, SaveCheckpoint, Replace, Commit, Start, Restore, Idle, Extra,
           PrepareWeightSync, ReleaseWeightSync, Close, FinishClose, Crash, Device, Closed,
           DataInv, EngineInv, Phases
    <3>. QED
      BY <1>1, <2>1, <3>1 DEF LoggedInv, HasSteps
  <2>2. CASE call # "replace" /\ call' = "replace"
    <3>1. PICK force \in BOOLEAN : SaveCheckpoint(force)
      BY <2>2 DEF Next, vars, BeginFwdBwd, BeginUpdate, BeginEvalStep,
           BeginFwdOnly, EndFwdBwd, EndUpdate, EndEvalStep, EndFwdOnly, KernelFails, EvalEnter,
           EvalExit, GetMetrics, Replace, Commit, Start, Restore, Idle, Extra,
           PrepareWeightSync, ReleaseWeightSync, Close, FinishClose, Crash, Device, Closed
    <3>2. WaitForAll /\ step' = step /\ phase = "up"
      BY <3>1 DEF SaveCheckpoint, stepVars, Idle, DataInv, EngineInv, Phases
    <3>. QED
      BY <1>3, <3>2
  <2>. QED
    BY <2>1, <2>2
<1>6. phase' # "down" => HasSteps(Outstanding', step')
  <2>1. CASE EndUpdate
    <3>1. /\ step' = step + 1 /\ step \in Nat /\ phase # "down" /\ ~Crash
          /\ HasStep(buffers', step)
      BY <2>1, DataNext DEF EndUpdate, Crash, lifeVars, DataInv, EngineInv, Phases, Accumulated
    <3>2. ASSUME NEW t \in 0 .. step
          PROVE  \E m \in Outstanding' : m.mode = "train" /\ m.id = t
      <4>1. CASE t = step
        BY <1>1, <2>1, <3>1, <4>1 DEF StepMetrics, Train
      <4>2. CASE t # step
        <5>1. t \in 0 .. step - 1
          BY <3>1, <4>2
        <5>. QED
          BY <1>1, <3>1, <5>1 DEF LoggedInv, HasSteps
      <4>. QED
        BY <4>1, <4>2
    <3>. QED
      BY <3>1, <3>2 DEF HasSteps
  <2>2. CASE Start \/ Restore
    <3>1. CASE \E c \in NewestOnDisk : Load(c)
      <4>1. PICK c \in NewestOnDisk : Load(c)
        BY <3>1
      <4>2. step' = BaseStep(c) /\ c \in Listed
        BY <4>1 DEF Load, BaseStep, NewestOnDisk, Listed, DataInv, EngineInv, ListOrder, Sound
      <4>. QED
        BY <1>1, <1>2, <4>2 DEF LoggedInv, HasSteps
    <3>2. CASE Start /\ UNCHANGED stepVars
      BY <3>2 DEF Start, stepVars, DataInv, HasSteps
    <3>. QED
      BY <2>2, <3>1, <3>2 DEF Start, Restore
  <2>3. CASE Crash
    BY <2>3 DEF Crash
  <2>4. CASE ~EndUpdate /\ ~Start /\ ~Restore /\ ~Crash
    <3>1. step' = step /\ (phase' # "down" => phase # "down")
      BY <2>4 DEF Next, vars, stepVars, lifeVars, BeginFwdBwd, BeginUpdate, BeginEvalStep,
           BeginFwdOnly, EndFwdBwd, EndEvalStep, EndFwdOnly, KernelFails, EvalEnter,
           EvalExit, GetMetrics, SaveCheckpoint, Replace, Commit, Idle, Extra,
           PrepareWeightSync, ReleaseWeightSync, Close, FinishClose, Device, Closed,
           DataInv, EngineInv, Phases
    <3>. QED
      BY <1>1, <2>4, <3>1 DEF LoggedInv, HasSteps
  <2>. QED
    BY <2>1, <2>2, <2>3, <2>4
<1>. QED
  BY <1>4, <1>5, <1>6 DEF LoggedInv

(* Whatever step an engine has come to, or has resumed at, the metrics of the  *)
(* steps before it are in the log or still to be written.                      *)
THEOREM MetricsAreNotLost ==
  Spec => []NoMetricsLost
<1>1. DataInv /\ LoggedInv /\ [Next]_vars => LoggedInv'
  BY LoggedNext
<1>2. LoggedInv => NoMetricsLost
  BY DEF LoggedInv, NoMetricsLost, HasSteps
<1>3. Init => DataInv /\ LoggedInv
  BY DataInit, LoggedInit
<1>4. DataInv /\ [Next]_vars => DataInv'
  BY DataNext
<1>. QED
  BY <1>1, <1>2, <1>3, <1>4, PTL DEF Spec

-----------------------------------------------------------------------------
(* The metrics are written in order.                                           *)

Before(m, n) == m.id < n.id \/ (m.id = n.id /\ m.mode = "eval")

InOneLife(l, i, j) == \A k \in i .. j : l[k].mode # "restart"

Ordered(l) ==
  \A i, j \in 1 .. Len(l) : i < j /\ InOneLife(l, i, j) => Before(l[i], l[j])

(* What l has of the current life comes before m.                              *)
UpTo(l, m) == \A i \in 1 .. Len(l) : InOneLife(l, i, Len(l)) => Before(l[i], m)

LEMMA OrderAppend ==
  ASSUME NEW l \in Seq(Rec), NEW m \in Rec, Ordered(l), UpTo(l, m) \/ m.mode = "restart"
  PROVE  /\ Ordered(Append(l, m))
         /\ \A n \in Rec : \/ m.mode = "restart"
                           \/ UpTo(l, n) /\ Before(m, n)
                           => UpTo(Append(l, m), n)
<1>. DEFINE a == Append(l, m)
<1>1. /\ Len(l) \in Nat /\ Len(a) = Len(l) + 1 /\ a[Len(l) + 1] = m
      /\ \A i \in 1 .. Len(l) : a[i] = l[i]
  BY AppendProperties, LenProperties
<1>. HIDE DEF a
<1>2. ASSUME NEW i \in 1 .. Len(l), NEW j \in i .. Len(l), InOneLife(a, i, j)
      PROVE  InOneLife(l, i, j)
  BY <1>1, <1>2 DEF InOneLife
<1>3. ASSUME NEW i \in 1 .. Len(l), InOneLife(a, i, Len(a))
      PROVE  InOneLife(l, i, Len(l)) /\ m.mode # "restart"
  BY <1>1, <1>3 DEF InOneLife
<1>4. Ordered(a)
  <2>1. SUFFICES ASSUME NEW i \in 1 .. Len(a), NEW j \in 1 .. Len(a), i < j,
                        InOneLife(a, i, j)
                 PROVE  Before(a[i], a[j])
    BY DEF Ordered
  <2>2. i \in 1 .. Len(l)
    BY <1>1, <2>1
  <2>3. CASE j = Len(a)
    BY <1>1, <1>3, <2>1, <2>2, <2>3 DEF UpTo
  <2>4. CASE j # Len(a)
    BY <1>1, <1>2, <2>1, <2>2, <2>4 DEF Ordered
  <2>. QED
    BY <2>3, <2>4
<1>5. ASSUME NEW n \in Rec, m.mode = "restart" \/ (UpTo(l, n) /\ Before(m, n))
      PROVE  UpTo(a, n)
  <2>1. SUFFICES ASSUME NEW i \in 1 .. Len(a), InOneLife(a, i, Len(a))
                 PROVE  Before(a[i], n)
    BY DEF UpTo
  <2>2. CASE i = Len(a)
    BY <1>1, <1>5, <2>1, <2>2 DEF InOneLife
  <2>3. CASE i # Len(a)
    BY <1>1, <1>3, <1>5, <2>1, <2>3 DEF UpTo
  <2>. QED
    BY <2>2, <2>3
<1>. QED
  BY <1>4, <1>5 DEF a

LEMMA OrderConcat ==
  ASSUME NEW l \in Seq(Rec), NEW ms \in Seq(Rec), Ordered(l),
         \A k \in 1 .. Len(ms) : UpTo(l, ms[k]),
         \A j, k \in 1 .. Len(ms) : j < k => Before(ms[j], ms[k])
  PROVE  /\ Ordered(l \o ms)
         /\ \A n \in Rec : UpTo(l, n) /\ (\A k \in 1 .. Len(ms) : Before(ms[k], n))
                           => UpTo(l \o ms, n)
<1>. DEFINE c == l \o ms
<1>1. /\ Len(l) \in Nat /\ Len(ms) \in Nat /\ Len(c) = Len(l) + Len(ms)
      /\ \A i \in 1 .. Len(l) : c[i] = l[i]
      /\ \A i \in Len(l) + 1 .. Len(c) : i - Len(l) \in 1 .. Len(ms) /\ c[i] = ms[i - Len(l)]
  BY ConcatProperties, LenProperties
<1>. HIDE DEF c
<1>2. ASSUME NEW i \in 1 .. Len(l), NEW j \in i .. Len(c), InOneLife(c, i, j)
      PROVE  IF j <= Len(l) THEN InOneLife(l, i, j) ELSE InOneLife(l, i, Len(l))
  <2>1. \A k \in i .. j : c[k].mode # "restart"
    BY <1>2 DEF InOneLife
  <2>2. ASSUME NEW k \in i .. Len(l), k <= j
        PROVE  l[k].mode # "restart"
    <3>1. k \in 1 .. Len(l) /\ k \in i .. j
      BY <1>1, <2>2
    <3>. QED
      BY <1>1, <2>1, <3>1
  <2>3. i .. j \subseteq Int /\ (j <= Len(l) => i .. j \subseteq i .. Len(l))
    BY <1>1
  <2>. QED
    BY <1>1, <2>2, <2>3 DEF InOneLife
<1>3. Ordered(c)
  <2>1. SUFFICES ASSUME NEW i \in 1 .. Len(c), NEW j \in 1 .. Len(c), i < j,
                        InOneLife(c, i, j)
                 PROVE  Before(c[i], c[j])
    BY DEF Ordered
  <2>2. CASE i > Len(l)
    <3>1. i \in Len(l) + 1 .. Len(c) /\ j \in Len(l) + 1 .. Len(c) /\ i - Len(l) < j - Len(l)
      BY <1>1, <2>1, <2>2
    <3>2. c[i] = ms[i - Len(l)] /\ i - Len(l) \in 1 .. Len(ms)
      BY <1>1, <3>1
    <3>3. c[j] = ms[j - Len(l)] /\ j - Len(l) \in 1 .. Len(ms)
      BY <1>1, <3>1
    <3>. QED
      BY <3>1, <3>2, <3>3
  <2>3. CASE i <= Len(l) /\ j > Len(l)
    BY <1>1, <1>2, <2>1, <2>3 DEF UpTo
  <2>4. CASE i <= Len(l) /\ j <= Len(l)
    BY <1>1, <1>2, <2>1, <2>4 DEF Ordered
  <2>. QED
    BY <1>1, <2>2, <2>3, <2>4
<1>4. ASSUME NEW n \in Rec, UpTo(l, n), \A k \in 1 .. Len(ms) : Before(ms[k], n)
      PROVE  UpTo(c, n)
  <2>1. SUFFICES ASSUME NEW i \in 1 .. Len(c), InOneLife(c, i, Len(c))
                 PROVE  Before(c[i], n)
    BY DEF UpTo
  <2>2. CASE i > Len(l)
    BY <1>1, <1>4, <2>1, <2>2
  <2>3. CASE i <= Len(l)
    <3>1. i \in 1 .. Len(l) /\ Len(c) \in i .. Len(c) /\ c[i] = l[i]
      BY <1>1, <2>3
    <3>2. InOneLife(l, i, Len(l))
      BY <1>1, <1>2, <2>1, <3>1
    <3>. QED
      BY <1>4, <3>1, <3>2 DEF UpTo
  <2>. QED
    BY <1>1, <2>2, <2>3
<1>. QED
  BY <1>3, <1>4 DEF c

(* The log, what is pending and the queue are one stream in order.             *)
QueueOrder ==
  /\ Ordered(log)
  /\ \A i, j \in 1 .. Len(inflight) :
       i < j /\ IsMetrics(inflight[i]) /\ IsMetrics(inflight[j])
         => Before(inflight[i], inflight[j])
  /\ IsMetrics(pendingMetrics) =>
       \A n \in Of(inflight) : IsMetrics(n) => Before(pendingMetrics, n)
  /\ \A m \in Queued : IsMetrics(m) => UpTo(log, m)

AllUpTo(n) == UpTo(log, n) /\ \A m \in Queued : IsMetrics(m) => Before(m, n)

Pending(n) == IsMetrics(pendingMetrics) => Before(pendingMetrics, n)

LEMMA FlushOrder ==
  ASSUME QueueTypes, QueueOrder
  PROVE  /\ Flushed(<<>>) \in Seq(Rec)
         /\ Ordered(Flushed(<<>>))
         /\ \A n \in Rec : UpTo(log, n) /\ Pending(n) => UpTo(Flushed(<<>>), n)
         /\ \A ms \in Seq(Rec) : Flushed(ms) = Flushed(<<>>) \o ms
<1>. DEFINE p == IF IsMetrics(pendingMetrics) THEN <<pendingMetrics>> ELSE <<>>
<1>1. PICK q : q = log \o p
  OBVIOUS
<1>2. p \in Seq(Rec)
  BY DEF QueueTypes
<1>3. \A ms : Flushed(ms) = q \o ms
  BY <1>1 DEF Flushed
<1>4. q = IF IsMetrics(pendingMetrics) THEN Append(log, pendingMetrics) ELSE log
  BY <1>1, AppendIsConcat, ConcatEmptySeq DEF QueueTypes
<1>. HIDE DEF p
<1>5. q \in Seq(Rec)
  BY <1>1, <1>2, ConcatProperties DEF QueueTypes
<1>6. q \o <<>> = q
  BY <1>5, ConcatEmptySeq
<1>7. Flushed(<<>>) = q
  BY <1>3, <1>6
<1>8. CASE IsMetrics(pendingMetrics)
  <2>1. pendingMetrics \in Rec /\ log \in Seq(Rec) /\ Ordered(log) /\ UpTo(log, pendingMetrics)
    BY <1>8 DEF QueueTypes, QueueOrder, Queued
  <2>. QED
    BY <1>3, <1>4, <1>5, <1>7, <1>8, <2>1, OrderAppend DEF Pending
<1>9. CASE ~IsMetrics(pendingMetrics)
  BY <1>3, <1>4, <1>5, <1>7, <1>9 DEF QueueOrder
<1>. QED
  BY <1>8, <1>9

LEMMA WaitForNextOrder ==
  ASSUME QueueTypes, QueueOrder, WaitForNext
  PROVE  QueueOrder' /\ \A n \in Rec : AllUpTo(n) => AllUpTo(n)'
<1>1. CASE UNCHANGED throttlerVars
  BY <1>1 DEF QueueOrder, AllUpTo, Ordered, UpTo, InOneLife, Queued, Of, throttlerVars
<1>2. CASE ~UNCHANGED throttlerVars
  <2>1. inflight # <<>>
    BY <1>2, ThrottlerAssumption, EmptySeq DEF WaitForNext, ThrottlerAssumption
  <2>2. /\ inflight' = Tail(inflight)
        /\ IF IsMetrics(Head(inflight))
             THEN log' = Flushed(<<>>) /\ pendingMetrics' = Head(inflight)
             ELSE log' = log /\ pendingMetrics' = pendingMetrics
    BY <1>2 DEF WaitForNext
  <2>3. /\ Tail(inflight) \in Seq(Rec) /\ Head(inflight) = inflight[1]
        /\ Len(inflight) \in Nat \ {0} /\ Len(inflight') = Len(inflight) - 1
        /\ \A i \in 1 .. Len(inflight') :
             i + 1 \in 2 .. Len(inflight) /\ inflight'[i] = inflight[i + 1]
    BY <2>1, <2>2, HeadTailProperties, EmptySeq DEF QueueTypes
  <2>4. /\ Of(inflight') \subseteq Of(inflight) /\ Head(inflight) \in Of(inflight)
        /\ Of(inflight) \subseteq Rec /\ pendingMetrics \in Rec
        /\ Queued = Of(inflight) \cup {pendingMetrics}
        /\ Queued' = Of(inflight') \cup {pendingMetrics'}
    <3>1. Of(inflight) = Of(Tail(inflight)) \cup {Head(inflight)}
      BY <2>1, OfTail DEF QueueTypes
    <3>2. Of(inflight') = Of(Tail(inflight))
      BY <2>2
    <3>3. Of(inflight) \subseteq Rec
      BY ElementOfSeq DEF QueueTypes, Of
    <3>. QED
      BY <3>1, <3>2, <3>3 DEF Queued, QueueTypes
  <2>5. \A i, j \in 1 .. Len(inflight') :
          i < j /\ IsMetrics(inflight'[i]) /\ IsMetrics(inflight'[j])
            => Before(inflight'[i], inflight'[j])
    BY <2>3 DEF QueueOrder
  <2>6. ASSUME IsMetrics(Head(inflight)), NEW n \in Of(inflight'), IsMetrics(n)
        PROVE  Before(Head(inflight), n)
    <3>1. PICK i \in 1 .. Len(inflight') : n = inflight'[i]
      BY DEF Of
    <3>2. i + 1 \in 2 .. Len(inflight) /\ n = inflight[i + 1] /\ 1 \in 1 .. Len(inflight)
          /\ 1 < i + 1 /\ i + 1 \in 1 .. Len(inflight)
      BY <2>3, <3>1
    <3>. QED
      BY <2>3, <2>6, <3>2 DEF QueueOrder
  <2>7. CASE IsMetrics(Head(inflight))
    <3>1. log' = Flushed(<<>>) /\ pendingMetrics' = Head(inflight)
      BY <2>2, <2>7
    <3>2. Ordered(log)' /\ \A n \in Rec : UpTo(log, n) /\ Pending(n) => UpTo(log', n)
      <4>1. Ordered(log')
        BY <3>1, FlushOrder
      <4>. QED
        BY <3>1, <4>1, FlushOrder DEF Ordered, InOneLife
    <3>3. \A m \in Queued' : IsMetrics(m) => m \in Of(inflight) /\ UpTo(log, m) /\ Pending(m)
      BY <2>4, <3>1 DEF QueueOrder, Pending
    <3>4. \A m \in Queued' : IsMetrics(m) => UpTo(log', m)
      BY <2>4, <3>2, <3>3
    <3>5. \A n \in Rec : AllUpTo(n) => AllUpTo(n)'
      <4>1. SUFFICES ASSUME NEW n \in Rec, AllUpTo(n)
                     PROVE  UpTo(log', n) /\ \A m \in Queued' : IsMetrics(m) => Before(m, n)
        BY DEF AllUpTo, UpTo, InOneLife
      <4>2. UpTo(log', n)
        BY <2>4, <3>2, <4>1 DEF AllUpTo, Pending
      <4>3. \A m \in Queued' : IsMetrics(m) => Before(m, n)
        BY <2>4, <3>3, <4>1 DEF AllUpTo
      <4>. QED
        BY <4>2, <4>3
    <3>. QED
      BY <2>5, <2>6, <3>1, <3>2, <3>4, <3>5, <2>7 DEF QueueOrder, UpTo, InOneLife
  <2>8. CASE ~IsMetrics(Head(inflight))
    <3>1. log' = log /\ pendingMetrics' = pendingMetrics
      BY <2>2, <2>8
    <3>2. Queued' \subseteq Queued
      BY <2>4, <3>1
    <3>. QED
      BY <2>4, <2>5, <3>1, <3>2 DEF QueueOrder, AllUpTo, Ordered, UpTo, InOneLife
  <2>. QED
    BY <2>7, <2>8
<1>. QED
  BY <1>1, <1>2

LEMMA WaitForAllOrder ==
  ASSUME QueueTypes, QueueOrder, WaitForAll
  PROVE  QueueOrder' /\ \A n \in Rec : AllUpTo(n) => AllUpTo(n)'
<1>1. PICK at \in MetricPlaces : log' = Flushed(MetricsAt(at))
  BY DEF WaitForAll
<1>2. PICK ms : ms = MetricsAt(at)
  OBVIOUS
<1>3. /\ ms \in Seq(Rec) /\ Len(ms) \in Nat
      /\ \A k \in 1 .. Len(ms) :
           /\ at[k] \in 1 .. Len(inflight) /\ IsMetrics(inflight[at[k]])
           /\ ms[k] = inflight[at[k]]
      /\ \A j, k \in 1 .. Len(ms) : j < k => at[j] < at[k]
  BY <1>2, DrainedMetrics DEF QueueTypes
<1>4. \A k \in 1 .. Len(ms) : ms[k] \in Of(inflight) /\ IsMetrics(ms[k]) /\ ms[k] \in Rec
  BY <1>3, ElementOfSeq DEF Of
<1>5. PICK f : f = Flushed(<<>>)
  OBVIOUS
<1>6. /\ f \in Seq(Rec) /\ Ordered(f) /\ log' = f \o ms
      /\ \A n \in Rec : UpTo(log, n) /\ Pending(n) => UpTo(f, n)
  BY <1>1, <1>2, <1>3, <1>5, FlushOrder
<1>7. \A k \in 1 .. Len(ms) : UpTo(f, ms[k])
  BY <1>4, <1>6 DEF QueueOrder, Queued, Pending
<1>8. \A j, k \in 1 .. Len(ms) : j < k => Before(ms[j], ms[k])
  BY <1>3 DEF QueueOrder
<1>9. /\ Ordered(f \o ms)
      /\ \A n \in Rec : UpTo(f, n) /\ (\A k \in 1 .. Len(ms) : Before(ms[k], n))
                       => UpTo(f \o ms, n)
  BY <1>6, <1>7, <1>8, <1>3, OrderConcat
<1>10. /\ inflight' = <<>> /\ pendingMetrics' = NoMetrics /\ Of(inflight') = {}
       /\ \A m \in Queued' : ~IsMetrics(m)
  BY NoMetricsTyped DEF WaitForAll, Of, Queued
<1>11. QueueOrder'
  <2>1. Ordered(log')
    BY <1>6, <1>9
  <2>. QED
    BY <1>10, <2>1, NoMetricsTyped DEF QueueOrder, Ordered, InOneLife
<1>12. ASSUME NEW n \in Rec, AllUpTo(n)
       PROVE  AllUpTo(n)'
  <2>1. UpTo(f \o ms, n)
    BY <1>4, <1>6, <1>9, <1>12 DEF AllUpTo, Pending, Queued
  <2>. QED
    BY <1>6, <1>10, <2>1 DEF AllUpTo, UpTo, InOneLife
<1>. QED
  BY <1>11, <1>12

LEMMA AddOrder ==
  ASSUME QueueTypes, QueueOrder, NEW m \in Rec, AddComputation(m),
         IsMetrics(m) => AllUpTo(m)
  PROVE  /\ QueueOrder'
         /\ \A n \in Rec : AllUpTo(n) /\ (IsMetrics(m) => Before(m, n)) => AllUpTo(n)'
<1>1. /\ inflight' = Append(inflight, m) /\ log' = Flushed(<<>>) /\ pendingMetrics' = NoMetrics
  BY DEF AddComputation
<1>2. /\ Len(inflight) \in Nat /\ Len(inflight') = Len(inflight) + 1
      /\ inflight'[Len(inflight) + 1] = m
      /\ \A i \in 1 .. Len(inflight) : inflight'[i] = inflight[i]
  BY <1>1, AppendProperties, LenProperties DEF QueueTypes
<1>3. Of(inflight') = Of(inflight) \cup {m} /\ Of(inflight) \subseteq Rec
  <2>1. Of(Append(inflight, m)) = Of(inflight) \cup {m}
    BY OfAppend DEF QueueTypes
  <2>. QED
    BY <1>1, <2>1, ElementOfSeq DEF QueueTypes, Of
<1>4. /\ Ordered(log')
      /\ \A n \in Rec : UpTo(log, n) /\ Pending(n) => UpTo(log', n)
  <2>1. PICK f : f = Flushed(<<>>)
    OBVIOUS
  <2>2. Ordered(f) /\ \A n \in Rec : UpTo(log, n) /\ Pending(n) => UpTo(f, n)
    BY <2>1, FlushOrder
  <2>. QED
    BY <1>1, <2>1, <2>2
<1>5. \A n \in Queued' : IsMetrics(n) => n \in Of(inflight) \cup {m} /\ n \in Rec
  BY <1>1, <1>3, NoMetricsTyped DEF Queued
<1>6. \A n \in Queued' : IsMetrics(n) => UpTo(log', n)
  BY <1>4, <1>5 DEF QueueOrder, Queued, AllUpTo, Pending
<1>7. ASSUME NEW i \in 1 .. Len(inflight'), NEW j \in 1 .. Len(inflight'), i < j,
             IsMetrics(inflight'[i]), IsMetrics(inflight'[j])
      PROVE  Before(inflight'[i], inflight'[j])
  <2>1. i \in 1 .. Len(inflight) /\ inflight'[i] = inflight[i] /\ inflight[i] \in Queued
    BY <1>2, <1>7 DEF Queued, Of
  <2>2. CASE j = Len(inflight')
    BY <1>2, <1>7, <2>1, <2>2 DEF AllUpTo
  <2>3. CASE j # Len(inflight')
    BY <1>2, <1>7, <2>1, <2>3 DEF QueueOrder
  <2>. QED
    BY <2>2, <2>3
<1>8. QueueOrder'
  BY <1>1, <1>4, <1>6, <1>7, NoMetricsTyped DEF QueueOrder, Ordered, UpTo, InOneLife
<1>9. ASSUME NEW n \in Rec, AllUpTo(n), IsMetrics(m) => Before(m, n)
      PROVE  AllUpTo(n)'
  <2>1. UpTo(log', n)
    BY <1>4, <1>9 DEF AllUpTo, Pending, Queued
  <2>2. \A k \in Queued' : IsMetrics(k) => Before(k, n)
    BY <1>5, <1>9 DEF AllUpTo, Queued
  <2>. QED
    BY <2>1, <2>2 DEF AllUpTo, UpTo, InOneLife
<1>. QED
  BY <1>8, <1>9

(* With nothing queued the log may be written to directly.                     *)
LEMMA WriteOrder ==
  ASSUME QueueTypes, Ordered(log), \A m \in Queued' : ~IsMetrics(m),
         NEW m \in Rec, log' = Append(log, m), UpTo(log, m) \/ m.mode = "restart"
  PROVE  /\ QueueOrder'
         /\ \A n \in Rec : \/ m.mode = "restart"
                           \/ UpTo(log, n) /\ Before(m, n)
                           => AllUpTo(n)'
<1>1. PICK l : l = Append(log, m)
  OBVIOUS
<1>2. /\ Ordered(l)
      /\ \A n \in Rec : \/ m.mode = "restart"
                        \/ UpTo(log, n) /\ Before(m, n)
                        => UpTo(l, n)
  BY <1>1, OrderAppend DEF QueueTypes
<1>3. \A n : n \in Of(inflight') \/ n = pendingMetrics' => ~IsMetrics(n)
  BY DEF Queued
<1>4. \A i \in 1 .. Len(inflight') : ~IsMetrics(inflight'[i])
  BY <1>3 DEF Of
<1>5. QueueOrder'
  BY <1>1, <1>2, <1>3, <1>4 DEF QueueOrder, Ordered, InOneLife
<1>6. \A n \in Rec : UpTo(l, n) => AllUpTo(n)'
  BY <1>1 DEF AllUpTo, UpTo, InOneLife
<1>. QED
  BY <1>2, <1>5, <1>6

(* All that is written or to be written belongs to the steps before the one    *)
(* the engine is at, or to an evaluation at it; during an evaluation, and when *)
(* there is no process, nothing is to be written.                              *)
OrderInv ==
  /\ QueueOrder
  /\ phase # "down" => AllUpTo(Train(step, 0, 0))
  /\ evalOpen \/ phase = "down" => \A m \in Queued : ~IsMetrics(m)
  /\ evalOpen => phase = "up" /\ call \in {"idle", "eval_step"}

LEMMA OrderInit ==
  ASSUME Init
  PROVE  OrderInv
BY NoMetricsTyped DEF Init, ThrottlerInit, OrderInv, QueueOrder, Ordered, Queued, Of

LEMMA NoneQueued ==
  ASSUME QueueTypes, \A m \in Queued : ~IsMetrics(m), WaitForNext \/ AddComputation(NoMetrics)
  PROVE  \A m \in Queued' : ~IsMetrics(m)
<1>1. Queued' \subseteq Queued \cup {NoMetrics}
  BY WaitForNextMoves, AddMoves, NoMetricsTyped DEF Moves
<1>. QED
  BY <1>1, NoMetricsTyped

(* The evaluation that is open, and the phase, after a step.                   *)
LEMMA EvalFrames ==
  ASSUME [Next]_vars, EngineInv, OrderInv
  PROVE  /\ evalOpen' => evalOpen \/ EvalEnter
         /\ evalOpen' => phase' = "up" /\ call' \in {"idle", "eval_step"}
         /\ phase' = "down" => phase = "down" \/ Crash
         /\ phase = "down" /\ phase' # "down" => Start
         /\ step' = step \/ EndUpdate \/ Start \/ Restore \/ Crash
<1>. USE DEF Next, vars, stepVars, lifeVars, evalVars, BeginFwdBwd, BeginUpdate, BeginEvalStep,
             BeginFwdOnly, EndFwdBwd, EndUpdate, EndEvalStep, EndFwdOnly, KernelFails, EvalEnter,
             EvalExit, GetMetrics, SaveCheckpoint, Replace, Commit, Start, Restore, Idle, Extra,
             PrepareWeightSync, ReleaseWeightSync, Close, FinishClose, Crash, Device, Closed
<1>1. evalOpen' => evalOpen \/ EvalEnter
  OBVIOUS
<1>2. evalOpen' => phase' = "up" /\ call' \in {"idle", "eval_step"}
  BY <1>1 DEF OrderInv
<1>3. phase' = "down" => phase = "down" \/ Crash
  OBVIOUS
<1>4. phase = "down" /\ phase' # "down" => Start
  BY DEF EngineInv, Phases
<1>5. step' = step \/ EndUpdate \/ Start \/ Restore \/ Crash
  OBVIOUS
<1>. QED
  BY <1>1, <1>2, <1>3, <1>4, <1>5

LEMMA OrderNext ==
  ASSUME MetricsInv, OrderInv, [Next]_vars, Undisturbed'
  PROVE  OrderInv'
<1>. DEFINE At(s) == Train(s, 0, 0)
            Frame == evalOpen' => phase' = "up" /\ call' \in {"idle", "eval_step"}
<1>1. /\ QueueTypes /\ QueueOrder /\ step \in Nat /\ step' \in Nat
      /\ \A s \in Nat : At(s) \in Rec /\ IsMetrics(At(s))
      /\ Frame
  <2>1. EngineInv'
    BY InvTypes, EngineNext
  <2>. QED
    BY <2>1, InvTypes, EvalFrames
       DEF OrderInv, EngineInv, Accumulated, Train, Rec, Modes, IsMetrics, NoMetrics
<1>2. ASSUME QueueOrder', phase' # "down" => AllUpTo(At(step))' ,
             evalOpen' \/ phase' = "down" => \A m \in Queued' : ~IsMetrics(m)
      PROVE  OrderInv'
  BY <1>1, <1>2 DEF OrderInv
<1>3. CASE EndUpdate
  <2>1. /\ StepMetrics(buffers') = Train(step, micro, micro) /\ micro \in Nat
        /\ step' = step + 1 /\ phase = "up" /\ phase' = "up" /\ ~evalOpen /\ ~evalOpen'
        /\ AddComputation(Train(step, micro, micro))
    BY <1>3, UpdatedBuffers DEF EndUpdate, MetricsInv, DataInv, EngineInv, Phases, Accumulated,
                                OrderInv, lifeVars, evalVars
  <2>2. PICK m : m = Train(step, micro, micro)
    OBVIOUS
  <2>3. m \in Rec /\ m.id = step
    BY <1>1, <2>1, <2>2 DEF Train, Rec, Modes
  <2>4. AllUpTo(At(step))
    BY <2>1 DEF OrderInv
  <2>5. AllUpTo(m)
    BY <2>3, <2>4 DEF AllUpTo, UpTo, Before, Train
  <2>6. AllUpTo(At(step + 1)) /\ Before(m, At(step + 1))
    <3>1. \A n \in Rec : Before(n, At(step)) => Before(n, At(step + 1))
      BY <1>1 DEF Before, Train, Rec
    <3>2. Of(log) \subseteq Rec /\ Queued \subseteq Rec
      BY <1>1, ElementOfSeq DEF QueueTypes, Of, Queued
    <3>3. \A i \in 1 .. Len(log) : log[i] \in Rec
      BY <3>2 DEF Of
    <3>. HIDE DEF At
    <3>4. UpTo(log, At(step + 1))
      BY <2>4, <3>1, <3>3 DEF AllUpTo, UpTo
    <3>5. \A n \in Queued : IsMetrics(n) => Before(n, At(step + 1))
      BY <2>4, <3>1, <3>2 DEF AllUpTo
    <3>6. Before(m, At(step + 1))
      BY <1>1, <2>3 DEF Before, Train, At
    <3>. QED
      BY <3>4, <3>5, <3>6 DEF AllUpTo
  <2>7. QueueOrder' /\ \A n \in Rec : AllUpTo(n) /\ Before(m, n) => AllUpTo(n)'
    BY <1>1, <2>1, <2>2, <2>3, <2>5, AddOrder
  <2>8. PICK n : n = At(step + 1)
    OBVIOUS
  <2>9. AllUpTo(n)'
    BY <1>1, <2>6, <2>7, <2>8
  <2>10. AllUpTo(At(step))'
    BY <2>1, <2>8, <2>9 DEF AllUpTo, UpTo, InOneLife
  <2>. QED
    BY <1>2, <2>1, <2>7, <2>10
<1>4. ASSUME QueueOrder', \A n \in Rec : AllUpTo(n) => AllUpTo(n)',
             step' = step, phase' # "down" => phase # "down",
             evalOpen' \/ phase' = "down" => \A m \in Queued' : ~IsMetrics(m)
      PROVE  OrderInv'
  <2>1. PICK n : n = At(step)
    OBVIOUS
  <2>2. phase' # "down" => AllUpTo(n)'
    BY <1>1, <1>4, <2>1 DEF OrderInv
  <2>3. phase' # "down" => AllUpTo(At(step))'
    BY <1>4, <2>1, <2>2 DEF AllUpTo, UpTo, InOneLife
  <2>. QED
    BY <1>2, <1>4, <2>3
<1>5. ~EndUpdate /\ ~Start /\ ~Restore /\ ~Crash =>
        /\ step' = step
        /\ (phase' # "down" => phase # "down") /\ (phase' = "down" => phase = "down")
        /\ evalOpen' => evalOpen \/ EvalEnter
  BY InvTypes, EvalFrames
<1>6. CASE Start \/ Restore
  <2>1. /\ log' = Append(log, Restarted) /\ UNCHANGED <<inflight, pendingMetrics>>
        /\ phase' = "up"
    BY <1>6 DEF Start, Restore, Idle
  <2>2. \A m \in Queued : ~IsMetrics(m)
    BY <1>6, QuietSoFar DEF MetricsInv, Quiet, Queued, Of
  <2>3. Queued' = Queued
    BY <2>1 DEF Queued, Of
  <2>4. QueueOrder' /\ \A n \in Rec : AllUpTo(n)'
    <3>1. Restarted \in Rec /\ Restarted.mode = "restart"
      BY <1>6, QuietSoFar, MarksTyped DEF MetricsInv
    <3>. QED
      BY <1>1, <2>1, <2>2, <2>3, <3>1, WriteOrder DEF QueueOrder
  <2>5. PICK s : s = step'
    OBVIOUS
  <2>6. PICK n : n = At(s)
    OBVIOUS
  <2>7. AllUpTo(n)'
    BY <1>1, <2>4, <2>5, <2>6
  <2>8. AllUpTo(At(step))'
    BY <2>5, <2>6, <2>7 DEF AllUpTo, UpTo, InOneLife
  <2>. QED
    BY <1>2, <2>2, <2>3, <2>4, <2>8
<1>7. CASE Crash
  <2>1. /\ inflight' = <<>> /\ pendingMetrics' = NoMetrics /\ log' = log /\ phase' = "down"
    BY <1>7 DEF Crash, LoseInflight
  <2>2. \A m \in Queued' : ~IsMetrics(m)
    BY <2>1, NoMetricsTyped DEF Queued, Of
  <2>3. QueueOrder'
    BY <1>1, <2>1, <2>2, NoMetricsTyped DEF QueueOrder, Ordered, InOneLife
  <2>. QED
    BY <1>2, <2>1, <2>2, <2>3
<1>8. CASE ~EndUpdate /\ ~Start /\ ~Restore /\ ~Crash /\ EvalExit
  <2>1. /\ evalOpen /\ ~evalOpen' /\ UNCHANGED <<inflight, pendingMetrics>>
        /\ phase = "up" /\ phase' = "up" /\ step' = step
    BY <1>5, <1>8 DEF EvalExit, Idle, lifeVars
  <2>2. \A m \in Queued' : ~IsMetrics(m)
    BY <2>1 DEF OrderInv, Queued, Of
  <2>3. CASE evalLosses > 0
    <3>1. PICK e : e = Eval(step, evalLosses)
      OBVIOUS
    <3>2. e \in Rec /\ log' = Append(log, e) /\ e.id = step /\ e.mode = "eval"
      BY <1>1, <1>8, <2>3, <3>1, InvTypes DEF EvalExit, Eval, Rec, Modes
    <3>3. UpTo(log, At(step)) /\ UpTo(log, e)
      BY <2>1, <3>2 DEF OrderInv, AllUpTo, UpTo, Before, Train
    <3>4. Before(e, At(step))
      BY <3>2 DEF Before, Train
    <3>5. QueueOrder' /\ \A n \in Rec : UpTo(log, n) /\ Before(e, n) => AllUpTo(n)'
      BY <1>1, <2>2, <3>2, <3>3, WriteOrder DEF QueueOrder
    <3>6. PICK n : n = At(step)
      OBVIOUS
    <3>7. AllUpTo(n)'
      BY <1>1, <3>3, <3>4, <3>5, <3>6
    <3>8. AllUpTo(At(step))'
      BY <2>1, <3>6, <3>7 DEF AllUpTo, UpTo, InOneLife
    <3>. QED
      BY <1>2, <2>1, <2>2, <3>5, <3>8
  <2>4. CASE ~(evalLosses > 0)
    <3>1. log' = log
      BY <1>8, <2>4 DEF EvalExit
    <3>2. QueueOrder' /\ \A n \in Rec : AllUpTo(n) => AllUpTo(n)'
      BY <1>1, <2>1, <3>1 DEF QueueOrder, AllUpTo, Ordered, UpTo, InOneLife, Queued, Of
    <3>. QED
      BY <1>4, <1>5, <2>1, <2>2, <3>2
  <2>. QED
    BY <2>3, <2>4
<1>9. CASE /\ ~EndUpdate /\ ~Start /\ ~Restore /\ ~Crash /\ ~EvalExit
           /\ WaitForNext \/ AddComputation(NoMetrics)
  <2>1. QueueOrder' /\ \A n \in Rec : AllUpTo(n) => AllUpTo(n)'
    BY <1>1, <1>9, WaitForNextOrder, AddOrder, NoMetricsTyped
  <2>2. ~EvalEnter \/ \A m \in Queued' : ~IsMetrics(m)
    BY <1>1, WaitForAllMoves, NoMetricsTyped DEF EvalEnter
  <2>3. evalOpen' \/ phase' = "down" => \A m \in Queued' : ~IsMetrics(m)
    BY <1>1, <1>5, <1>9, <2>2, NoneQueued DEF OrderInv
  <2>. QED
    BY <1>4, <1>5, <1>9, <2>1, <2>3
<1>10. CASE ~EndUpdate /\ ~Start /\ ~Restore /\ ~Crash /\ WaitForAll
  <2>1. QueueOrder' /\ \A n \in Rec : AllUpTo(n) => AllUpTo(n)'
    BY <1>1, <1>10, WaitForAllOrder
  <2>2. \A m \in Queued' : ~IsMetrics(m)
    BY <1>1, <1>10, WaitForAllMoves, NoMetricsTyped
  <2>. QED
    BY <1>4, <1>5, <1>10, <2>1, <2>2
<1>11. CASE /\ ~EndUpdate /\ ~Start /\ ~Restore /\ ~Crash
            /\ UNCHANGED <<inflight, pendingMetrics, log>>
  <2>1. QueueOrder' /\ \A n \in Rec : AllUpTo(n) => AllUpTo(n)'
    BY <1>1, <1>11 DEF QueueOrder, AllUpTo, Ordered, UpTo, InOneLife, Queued, Of
  <2>2. Queued' = Queued
    BY <1>11 DEF Queued, Of
  <2>3. ~EvalEnter \/ \A m \in Queued' : ~IsMetrics(m)
    BY <1>1, WaitForAllMoves, NoMetricsTyped DEF EvalEnter
  <2>. QED
    BY <1>4, <1>5, <1>11, <2>1, <2>2, <2>3 DEF OrderInv
<1>12. GetMetrics => UNCHANGED <<inflight, pendingMetrics, log>>
  BY QuietSoFar DEF MetricsInv, GetMetrics
<1>. QED
  BY <1>3, <1>6, <1>7, <1>8, <1>9, <1>10, <1>11, <1>12, NextByMetrics

(* Between two starts, the metrics are written by step, and those of an        *)
(* evaluation after all of the training before it.                             *)
THEOREM MetricsComeInOrder ==
  Spec => []MetricsInOrder
<1>1. DataInv /\ (Undisturbed => MetricsInv /\ OrderInv) /\ [Next]_vars
        => (Undisturbed => OrderInv)'
  BY OrderNext, QuietSoFar
<1>2. (Undisturbed => OrderInv) => MetricsInOrder
  BY DEF OrderInv, QueueOrder, Ordered, InOneLife, Before, MetricsInOrder, LogSince
<1>. QED
  BY <1>1, <1>2, OrderInit, DataInvariant, MetricsInvariant, PTL DEF Spec

-----------------------------------------------------------------------------
(* Types, and with them the bounds: a queue and buffers within their limits.   *)

LEMMA Retyped ==
  ASSUME NEW S, NEW T, NEW s \in Seq(S), Of(s) \subseteq T
  PROVE  s \in Seq(T)
<1>1. Len(s) \in Nat /\ s \in [1 .. Len(s) -> S] /\ \A i \in 1 .. Len(s) : s[i] \in T
  BY LenProperties DEF Of
<1>. QED
  BY <1>1

TypeInv ==
  /\ TypeOK
  /\ micro > 0 => step < MaxSteps
  /\ call = "fwd_bwd" => micro < MaxMicro /\ step < MaxSteps
  /\ call = "update" => step < MaxSteps
  /\ call = "eval_step" => evalLosses < MaxMicro

LEMMA TypeInit ==
  ASSUME Init
  PROVE  TypeInv
<1>1. /\ {MaxSteps, MaxMicro, MaxLives, MaxExtras, MaxInflight} \subseteq Nat
      /\ MaxBuffered \in Nat
  BY EngineAssumption, ThrottlerAssumption DEF EngineAssumption, ThrottlerAssumption
<1>2. <<>> \in BufferSeqs
  BY <1>1 DEF BufferSeqs
<1>3. Cardinality({}) = 0
  BY FS_EmptySet
<1>4. NoMetrics \in Entries
  BY <1>1 DEF NoMetrics, Entries, Modes
<1>5. version \in Versions /\ grads \in GradCounts
  BY <1>1 DEF Init, Versions, FirstWeights, NoGrads, GradCounts
<1>6. /\ inflight \in Seq(Entries) /\ Len(inflight) <= MaxInflight
      /\ running \in 0 .. Len(inflight) /\ pendingMetrics \in Entries /\ log \in Seq(Entries)
  BY <1>1, <1>4 DEF Init, ThrottlerInit
<1>7. disk \subseteq Checkpoints /\ saving \subseteq Checkpoints /\ Cardinality(saving) <= 1
  BY <1>3 DEF Init, CheckpointInit
<1>8. /\ step \in 0 .. MaxSteps /\ micro \in 0 .. MaxMicro
      /\ denominator \in Nat /\ losses \in Nat /\ evalLosses \in 0 .. MaxMicro
      /\ life \in 0 .. MaxLives /\ extras \in 0 .. MaxExtras
      /\ call \in Calls /\ buffers \in BufferSeqs
  BY <1>1, <1>2 DEF Init, Calls
<1>9. /\ resumed \in BOOLEAN /\ evalOpen \in BOOLEAN /\ closing \in BOOLEAN
      /\ phase \in {"up", "down", "closed"}
      /\ staged \subseteq [step : 0 .. MaxSteps, version : Versions]
  BY DEF Init
<1>10. TypeOK
  BY <1>5, <1>6, <1>7, <1>8, <1>9 DEF TypeOK
<1>. QED
  BY <1>10 DEF Init, TypeInv

(* The queue after a step.                                                     *)
LEMMA QueueBounds ==
  ASSUME DataInv, TypeInv, [Next]_vars
  PROVE  Len(inflight') <= MaxInflight /\ running' \in 0 .. Len(inflight')
<1>1. /\ inflight \in Seq(Rec) /\ Len(inflight) \in Nat /\ MaxInflight \in Nat \ {0}
      /\ Len(inflight) <= MaxInflight /\ running \in 0 .. Len(inflight)
  BY LenProperties, ThrottlerAssumption
     DEF DataInv, DataTypes, QueueTypes, TypeInv, TypeOK, ThrottlerAssumption
<1>2. ASSUME NEW m \in Rec, AddComputation(m)
      PROVE  Len(inflight') <= MaxInflight /\ running' \in 0 .. Len(inflight')
  <2>1. Len(inflight') = Len(inflight) + 1
    BY <1>1, <1>2, AppendProperties DEF AddComputation
  <2>. QED
    BY <1>1, <1>2, <2>1 DEF AddComputation
<1>3. CASE WaitForNext
  <2>1. CASE UNCHANGED throttlerVars
    BY <1>1, <2>1 DEF throttlerVars
  <2>2. CASE ~UNCHANGED throttlerVars
    <3>1. inflight' = Tail(inflight) /\ running < Len(inflight) /\ running' = running
      BY <1>3, <2>2 DEF WaitForNext
    <3>2. Len(inflight') = Len(inflight) - 1
      BY <1>1, <3>1, HeadTailProperties, EmptySeq
    <3>. QED
      BY <1>1, <3>1, <3>2
  <2>. QED
    BY <2>1, <2>2
<1>4. CASE WaitForAll
  BY <1>1, <1>4 DEF WaitForAll
<1>5. CASE EndUpdate
  <2>1. AddComputation(StepMetrics(buffers')) /\ StepMetrics(buffers') \in Rec
    BY <1>5, DataNext, StepMetricsTyped DEF EndUpdate, DataInv, EngineInv, Accumulated
  <2>. QED
    BY <1>2, <2>1
<1>6. CASE Rests \/ EvalExit \/ GetMetrics \/ Start \/ Restore
  <2>1. CASE Device
    BY <1>1, <2>1 DEF Device, DeviceFinishes
  <2>2. CASE ~Device
    <3>1. inflight' = inflight /\ running' = running
      BY <1>6, <2>2 DEF Rests, KernelFails, GetMetrics, Replace, Commit, ReleaseWeightSync,
           Close, Closed, vars, throttlerVars, EvalExit, Start, Restore
    <3>. QED
      BY <1>1, <3>1
  <2>. QED
    BY <2>1, <2>2
<1>7. CASE Crash
  BY <1>1, <1>7 DEF Crash, LoseInflight
<1>. QED
  BY <1>2, <1>3, <1>4, <1>5, <1>6, <1>7, NextByMetrics, NoMetricsTyped

LEMMA Bounds ==
  /\ {MaxSteps, MaxMicro, MaxLives, MaxExtras} \subseteq Nat
  /\ MaxSteps \in Nat /\ MaxMicro \in Nat /\ MaxLives \in Nat /\ MaxExtras \in Nat
BY EngineAssumption DEF EngineAssumption

(* What is written and queued is within the bounds of the entries.             *)
LEMMA EntriesKept ==
  ASSUME DataInv, TypeInv, [Next]_vars
  PROVE  Of(log') \cup Queued' \subseteq Entries
<1>1. Outstanding' = Of(log') \cup Queued' /\ Outstanding = Of(log) \cup Queued
  BY OutstandingSets
<1>2. /\ Of(log) \cup Queued \subseteq Entries
      /\ step \in 0 .. MaxSteps /\ evalLosses \in 0 .. MaxMicro
  BY ElementOfSeq DEF TypeInv, TypeOK, Of, Queued
<1>3. EndUpdate => buffers' \in BufferSeq
  BY DataNext
<1>4. ASSUME NEW m \in Outstanding'
      PROVE  \/ m \in Outstanding \/ m \in {NoMetrics, Restarted, BusyRead}
             \/ m = Eval(step, evalLosses)
             \/ EndUpdate /\ m = StepMetrics(buffers')
  BY <1>3, MetricsMove DEF DataInv, EngineInv
<1>5. {NoMetrics, Restarted, BusyRead, Eval(step, evalLosses)} \subseteq Entries
  BY <1>2, Bounds DEF Entries, Modes, NoMetrics, Restarted, BusyRead, Mark, Eval
<1>6. ASSUME EndUpdate
      PROVE  StepMetrics(buffers') \in Entries
  <2>1. /\ StepMetrics(buffers') \in Rec
        /\ StepMetrics(buffers') = NoMetrics \/ StepMetrics(buffers').id = step
    BY <1>3, <1>6, StepMetricsTyped DEF DataInv, EngineInv, Accumulated, StepMetrics, Train
  <2>. QED
    BY <1>2, <1>5, <2>1 DEF Rec, Entries
<1>. QED
  BY <1>1, <1>2, <1>4, <1>5, <1>6

LEMMA BuffersKept ==
  ASSUME DataInv, TypeInv, [Next]_vars
  PROVE  buffers' \in BufferSeqs
<1>1. step \in 0 .. MaxSteps /\ buffers \in BufferSeqs
  BY DEF TypeInv, TypeOK
<1>2. \A n \in Nat : Buffered(n) \in BufferSeqs
  BY <1>1, BufferedEndsWithStep DEF BufferSeqs
<1>3. CASE EndFwdBwd \/ BeginUpdate \/ EndUpdate
  BY <1>2, <1>3 DEF EndFwdBwd, BeginUpdate, EndUpdate
<1>4. <<>> \in BufferSeqs
  BY EngineAssumption DEF EngineAssumption, BufferSeqs
<1>5. CASE buffers' \in {buffers, <<>>}
  BY <1>1, <1>4, <1>5
<1>6. CASE \E c \in NewestOnDisk : Load(c)
  BY <1>1, <1>6 DEF Load, NewestOnDisk, TypeInv, TypeOK, Checkpoints
<1>7. \/ EndFwdBwd \/ BeginUpdate \/ EndUpdate \/ buffers' \in {buffers, <<>>}
      \/ \E c \in NewestOnDisk : Load(c)
  BY DEF Next, vars, BeginFwdBwd, BeginEvalStep, BeginFwdOnly, EndEvalStep,
       EndFwdOnly, KernelFails, EvalEnter, EvalExit, GetMetrics, SaveCheckpoint, Replace, Commit,
       Start, Restore, PrepareWeightSync, ReleaseWeightSync, Close, FinishClose, Crash, Device,
       Closed
<1>. QED
  BY <1>3, <1>5, <1>6, <1>7

(* The step, the micro-batches, what they accumulate, and the two calls in     *)
(* between.                                                                    *)
LEMMA CountsKept ==
  ASSUME DataInv, TypeInv, [Next]_vars
  PROVE  /\ step' \in 0 .. MaxSteps /\ micro' \in 0 .. MaxMicro
         /\ version' \in Versions /\ life' \in 0 .. MaxLives
         /\ losses' \in Nat /\ grads' \in GradCounts
         /\ micro' > 0 => step' < MaxSteps
         /\ call' = "fwd_bwd" => micro' < MaxMicro /\ step' < MaxSteps
         /\ call' = "update" => step' < MaxSteps
<1>1. /\ step \in 0 .. MaxSteps /\ micro \in 0 .. MaxMicro /\ losses \in Nat
      /\ grads \in GradCounts /\ version \in Versions /\ life \in 0 .. MaxLives
      /\ micro > 0 => step < MaxSteps
      /\ call = "fwd_bwd" => micro < MaxMicro /\ step < MaxSteps
      /\ call = "update" => step < MaxSteps
  BY DEF TypeInv, TypeOK
<1>2. CASE EndFwdBwd
  <2>1. grads' \in GradCounts
    BY <1>1, <1>2 DEF EndFwdBwd, GradCounts
  <2>. QED
    BY <1>1, <1>2, <2>1, Bounds DEF EndFwdBwd, lifeVars
<1>3. CASE EndUpdate
  BY <1>1, <1>3, Bounds DEF EndUpdate, lifeVars, Versions, NoGrads, GradCounts
<1>4. CASE Start \/ Restore
  <2>1. life' \in 0 .. MaxLives /\ call' = "idle"
    BY <1>1, <1>4, Bounds DEF Start, Restore, Idle, DataInv, EngineInv, Phases
  <2>2. CASE \E c \in NewestOnDisk : Load(c)
    <3>1. PICK c \in NewestOnDisk : Load(c)
      BY <2>2
    <3>2. c \in Checkpoints /\ Sound(c)
      BY DEF NewestOnDisk, TypeInv, TypeOK, DataInv, EngineInv, ListOrder, Listed
    <3>3. losses' \in Nat
      <4>1. CASE losses' = losses
        BY <1>1, <4>1
      <4>2. CASE losses' # losses
        <5>1. HasStep(buffers', c.step) /\ losses' = Newest(buffers').losses
          BY <3>1, <4>2 DEF Load
        <5>2. buffers' \in BufferSeq
          BY DataNext DEF DataInv, DataTypes
        <5>3. buffers' # <<>> /\ Len(buffers') \in 1 .. Len(buffers')
          BY <5>1, <5>2, EmptySeq DEF HasStep, BufferSeq
        <5>4. Newest(buffers') \in [id : Nat, losses : Nat]
          BY <5>2, <5>3, ElementOfSeq DEF Newest, BufferSeq
        <5>. QED
          BY <5>1, <5>4
      <4>. QED
        BY <4>1, <4>2
    <3>4. grads' \in GradCounts
      BY <1>1, <3>1, <3>2 DEF Load, Checkpoints
    <3>. QED
      BY <2>1, <3>1, <3>2, <3>3, <3>4, Bounds DEF Load, Checkpoints, Sound
  <2>3. CASE UNCHANGED stepVars
    BY <1>1, <2>1, <2>3 DEF stepVars
  <2>. QED
    BY <1>4, <2>2, <2>3 DEF Start, Restore
<1>5. CASE Crash
  BY <1>1, <1>5, Bounds DEF Crash, FirstWeights, Versions, NoGrads, GradCounts
<1>6. CASE BeginFwdBwd \/ BeginUpdate
  BY <1>1, <1>6 DEF BeginFwdBwd, BeginUpdate, stepVars, lifeVars
<1>7. CASE UNCHANGED <<stepVars, life>> /\ (call' \in {"fwd_bwd", "update"} => call' = call)
  BY <1>1, <1>7 DEF stepVars
<1>8. \/ EndFwdBwd \/ EndUpdate \/ Start \/ Restore \/ Crash \/ BeginFwdBwd \/ BeginUpdate
      \/ UNCHANGED <<stepVars, life>> /\ (call' \in {"fwd_bwd", "update"} => call' = call)
  BY DEF Next, vars, lifeVars, stepVars, BeginEvalStep, BeginFwdOnly, EndEvalStep, AfterSave,
       EndFwdOnly, KernelFails, EvalEnter, EvalExit, GetMetrics, SaveCheckpoint, Replace, Commit,
       PrepareWeightSync, ReleaseWeightSync, Close, FinishClose, Device, Closed
<1>. QED
  BY <1>2, <1>3, <1>4, <1>5, <1>6, <1>7, <1>8

(* The checkpoints, listed and being written.                                  *)
LEMMA CheckpointsKept ==
  ASSUME DataInv, TypeInv, [Next]_vars
  PROVE  /\ disk' \subseteq Checkpoints /\ saving' \subseteq Checkpoints
         /\ Cardinality(saving') <= 1
<1>1. /\ step \in 0 .. MaxSteps /\ micro \in 0 .. MaxMicro /\ (micro > 0 => step < MaxSteps)
      /\ version \in Versions /\ grads \in GradCounts /\ denominator \in Nat
      /\ buffers \in BufferSeqs /\ Listed \subseteq Checkpoints
  BY DEF TypeInv, TypeOK, Listed
<1>2. Checkpoint \in Checkpoints
  BY <1>1, Bounds DEF Checkpoint, Checkpoints
<1>3. Listed' \subseteq Checkpoints
  BY <1>1, <1>2, NewlyListed DEF DataInv
<1>4. EngineInv'
  BY EngineNext DEF DataInv
<1>5. Cardinality(saving') <= 1
  <2>1. saving' = {} \/ \E s : saving' = {s}
    BY <1>4 DEF EngineInv, ListOrder
  <2>. QED
    <3>1. CASE saving' = {}
      BY <3>1, FS_EmptySet
    <3>2. ASSUME NEW s, saving' = {s}
          PROVE  Cardinality(saving') <= 1
      <4>1. Cardinality({s}) = 1
        BY FS_Singleton
      <4>. QED
        BY <3>2, <4>1
    <3>. QED
      BY <2>1, <3>1, <3>2
<1>. QED
  BY <1>3, <1>5 DEF Listed

(* What is left: the evaluation, the weights that are staged, the call.        *)
LEMMA RestKept ==
  ASSUME TypeInv, [Next]_vars
  PROVE  /\ staged' \subseteq [step : 0 .. MaxSteps, version : Versions]
         /\ evalOpen' \in BOOLEAN /\ evalLosses' \in 0 .. MaxMicro /\ extras' \in 0 .. MaxExtras
         /\ call' \in Calls /\ closing' \in BOOLEAN /\ phase' \in {"up", "down", "closed"}
         /\ resumed' \in BOOLEAN
         /\ call' = "eval_step" => evalLosses' < MaxMicro
<1>. USE DEF Next, vars, stepVars, lifeVars, evalVars, BeginFwdBwd, BeginUpdate, BeginEvalStep,
             BeginFwdOnly, EndFwdBwd, EndUpdate, EndEvalStep, EndFwdOnly, KernelFails, EvalEnter,
             EvalExit, GetMetrics, SaveCheckpoint, Replace, Commit, Start, Restore, Idle, Extra,
             PrepareWeightSync, ReleaseWeightSync, Close, FinishClose, Crash, Device, Closed,
             AfterSave
<1>1. /\ staged \subseteq [step : 0 .. MaxSteps, version : Versions]
      /\ step \in 0 .. MaxSteps /\ version \in Versions
      /\ evalOpen \in BOOLEAN /\ evalLosses \in 0 .. MaxMicro /\ extras \in 0 .. MaxExtras
      /\ call \in Calls /\ closing \in BOOLEAN /\ phase \in {"up", "down", "closed"}
      /\ resumed \in BOOLEAN /\ (call = "eval_step" => evalLosses < MaxMicro)
  BY DEF TypeInv, TypeOK
<1>2. staged' \in {staged, {}, {[step |-> step, version |-> version]}}
  OBVIOUS
<1>3. evalOpen' \in {evalOpen, TRUE, FALSE} /\ closing' \in {closing, TRUE, FALSE}
  OBVIOUS
<1>4. \/ evalLosses' = evalLosses \/ evalLosses' = 0
      \/ call = "eval_step" /\ evalLosses' = evalLosses + 1
  OBVIOUS
<1>5. extras' = extras \/ (extras < MaxExtras /\ extras' = extras + 1)
  OBVIOUS
<1>6. call' = call \/ call' \in Calls
  BY DEF Calls
<1>7. phase' \in {phase, "up", "down", "closed"}
  OBVIOUS
<1>8. resumed' \in {resumed, FALSE} \/ \E c \in NewestOnDisk : Load(c)
  OBVIOUS
<1>9. call' = "eval_step" =>
        \/ evalLosses' < MaxMicro \/ (call = "eval_step" /\ evalLosses' = evalLosses)
        \/ evalLosses' = 0 /\ call = "eval_step"
  OBVIOUS
<1>10. evalLosses' \in 0 .. MaxMicro
  BY <1>1, <1>4, Bounds
<1>11. extras' \in 0 .. MaxExtras
  BY <1>1, <1>5, Bounds
<1>12. ASSUME \E c \in NewestOnDisk : Load(c)
       PROVE  resumed' \in BOOLEAN
  BY <1>12 DEF Load
<1>13. resumed' \in BOOLEAN
  BY <1>1, <1>8, <1>12
<1>14. call' = "eval_step" => evalLosses' < MaxMicro
  BY <1>1, <1>9
<1>15. staged' \subseteq [step : 0 .. MaxSteps, version : Versions]
  BY <1>1, <1>2
<1>16. evalOpen' \in BOOLEAN /\ closing' \in BOOLEAN
  BY <1>1, <1>3
<1>17. call' \in Calls /\ phase' \in {"up", "down", "closed"}
  BY <1>1, <1>6, <1>7
<1>. QED
  BY <1>10, <1>11, <1>13, <1>14, <1>15, <1>16, <1>17

LEMMA TypeNext ==
  ASSUME DataInv, TypeInv, [Next]_vars
  PROVE  TypeInv'
<1>1. DataInv'
  BY DataNext
<1>2. inflight' \in Seq(Entries) /\ pendingMetrics' \in Entries /\ log' \in Seq(Entries)
  <2>1. Of(log') \cup Queued' \subseteq Entries
    BY EntriesKept
  <2>2. Of(log') \subseteq Entries /\ Of(inflight') \subseteq Entries /\ pendingMetrics' \in Entries
    BY <2>1 DEF Queued, Of
  <2>3. inflight' \in Seq(Rec) /\ log' \in Seq(Rec)
    BY <1>1 DEF DataInv, DataTypes, QueueTypes
  <2>. QED
    BY <2>2, <2>3, Retyped
<1>3. denominator' \in Nat
  BY <1>1 DEF DataInv, EngineInv, Accumulated
<1>4. TypeOK'
  BY <1>2, <1>3, QueueBounds, BuffersKept, CountsKept, CheckpointsKept, RestKept DEF TypeOK
<1>. QED
  BY <1>4, CountsKept, RestKept DEF TypeInv

(* Every field keeps its type; the throttler never holds more computations     *)
(* than its limit, nor the recorder more steps than its own.                   *)
THEOREM EngineTypeOK ==
  Spec => []TypeOK
<1>1. DataInv /\ TypeInv /\ [Next]_vars => TypeInv'
  BY TypeNext
<1>2. TypeInv => TypeOK
  BY DEF TypeInv
<1>. QED
  BY <1>1, <1>2, TypeInit, DataInvariant, PTL DEF Spec
=============================================================================
