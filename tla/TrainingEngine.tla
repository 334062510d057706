---------------------------- MODULE TrainingEngine ----------------------------
(***************************************************************************)
(* MaxTextTrainingEngine (training_engine/maxtext_engine.py), called by an *)
(* orchestrator: micro-batches accumulate gradients, an update applies     *)
(* them, checkpoints may be taken inside a step, and the process may crash *)
(* anywhere and resume.  A call that dispatches to the device has two      *)
(* halves, wait_for_next and the dispatch; the kernel between them may     *)
(* raise.                                                                  *)
(***************************************************************************)
EXTENDS InflightThrottler, EngineCheckpoints

CONSTANTS
  MaxSteps,      \* bound: train steps
  MaxMicro,      \* bound: micro-batches of a step
  MaxLives,      \* bound: starts and restores
  MaxExtras,     \* bound: evaluations, scorings, metric reads and weight syncs
  MaxBuffered    \* max_buffered_steps of the recorder

ASSUME EngineAssumption ==
  /\ {MaxSteps, MaxMicro, MaxLives, MaxExtras} \subseteq Nat
  /\ MaxBuffered \in Nat \ {0}

VARIABLES
  step, micro,     \* _train_step, _micro_step_count
  version,         \* the weights: the life and the step they come from
  grads,           \* _accumulated_grads: how many micro-batches, of which weights
  denominator,     \* _accumulated_denominator, in micro-batches
  losses,          \* how many _cached_losses
  resumed,         \* _resumed_mid_step
  buffers,         \* the recorder's buffers
  staged,          \* _last_staged_step and the weights that were staged, if any
  evalOpen, evalLosses,
  call, closing,   \* where the current call is, and whether it is close()
  life, phase,
  extras           \* calls counted against MaxExtras

stepVars == <<step, micro, version, grads, denominator, losses, resumed>>
evalVars == <<evalOpen, evalLosses>>
lifeVars == <<life, phase, extras>>
vars == <<throttlerVars, checkpointVars, stepVars, buffers, staged, evalVars,
          call, closing, lifeVars>>

Versions == [life : 0 .. MaxLives, step : 0 .. MaxSteps]
FirstWeights == [life |-> 0, step |-> 0]
NoGrads == [n |-> 0, of |-> {}]

Calls == {"idle", "fwd_bwd", "update", "eval_step", "fwd_only",
          "save", "replace", "finish"}
Dispatches == {"fwd_bwd", "eval_step", "fwd_only"}   \* with no metrics attached

Init ==
  /\ ThrottlerInit /\ CheckpointInit
  /\ step = 0 /\ micro = 0 /\ version = FirstWeights
  /\ grads = NoGrads /\ denominator = 0 /\ losses = 0
  /\ resumed = FALSE /\ buffers = <<>> /\ staged = {}
  /\ evalOpen = FALSE /\ evalLosses = 0
  /\ call = "idle" /\ closing = FALSE
  /\ life = 0 /\ phase = "down" /\ extras = 0

-----------------------------------------------------------------------------
(* MetricsRecorder                                                             *)

Newest(s) == s[Len(s)]

Evicted(b) ==
  IF Len(b) > MaxBuffered THEN SubSeq(b, Len(b) - MaxBuffered + 1, Len(b)) ELSE b

(* buffer_metrics of the current step; n is the number of losses among them.   *)
Buffered(n) ==
  IF buffers = <<>> \/ Newest(buffers).id # step
    THEN Evicted(Append(buffers, [id |-> step, losses |-> n]))
    ELSE [buffers EXCEPT ![Len(buffers)].losses = @ + n]

HasStep(b, s) == b # <<>> /\ Newest(b).id = s

(* get_step_metrics(step), as update hands them to the throttler.              *)
StepMetrics(b) ==
  IF HasStep(b, step) THEN Train(step, Newest(b).losses, grads.n) ELSE NoMetrics

-----------------------------------------------------------------------------
(* Calls of the orchestrator that dispatch a computation                       *)

Idle == phase = "up" /\ call = "idle"

(* Bound: the orchestrator evaluates, scores, reads metrics and synchronises   *)
(* weights, inside a step or between two, MaxExtras times.                     *)
Extra ==
  /\ Idle /\ ~evalOpen
  /\ extras < MaxExtras /\ extras' = extras + 1

BeginFwdBwd ==
  /\ Idle /\ ~evalOpen
  /\ step < MaxSteps /\ micro < MaxMicro
  /\ WaitForNext
  /\ call' = "fwd_bwd"
  /\ UNCHANGED <<checkpointVars, stepVars, buffers, staged, evalVars, closing, lifeVars>>

EndFwdBwd ==
  /\ call = "fwd_bwd" /\ call' = "idle"
  /\ AddComputation(NoMetrics)
  /\ buffers' = Buffered(1)
  /\ losses' = losses + 1
  /\ grads' = [n |-> grads.n + 1, of |-> grads.of \cup {version}]
  /\ denominator' = denominator + 1
  /\ micro' = micro + 1
  /\ UNCHANGED <<checkpointVars, step, version, resumed, staged, evalVars, closing, lifeVars>>

(* The learning rate is recorded before the wait.                              *)
BeginUpdate ==
  /\ Idle /\ ~evalOpen
  /\ grads # NoGrads /\ step < MaxSteps
  /\ buffers' = Buffered(0)
  /\ WaitForNext
  /\ call' = "update"
  /\ UNCHANGED <<checkpointVars, stepVars, staged, evalVars, closing, lifeVars>>

(* The step that was resumed in the middle is saved as soon as it is done.     *)
EndUpdate ==
  /\ call = "update"
  /\ buffers' = Buffered(0)
  /\ AddComputation(StepMetrics(buffers'))
  /\ losses' = 0 /\ grads' = NoGrads /\ denominator' = 0 /\ micro' = 0
  /\ step' = step + 1
  /\ version' = [life |-> life, step |-> step + 1]
  /\ resumed' = FALSE
  /\ call' = IF resumed THEN "save" ELSE "idle"
  /\ UNCHANGED <<checkpointVars, staged, evalVars, closing, lifeVars>>

(* Mutant: the training in flight is not drained.                              *)
EvalEnterUndrained ==
  /\ Extra
  /\ evalOpen' = TRUE
  /\ UNCHANGED <<throttlerVars, checkpointVars, stepVars, buffers, staged, evalLosses, call,
                 closing, life, phase>>

(* eval_context                                                                *)
EvalEnter ==
  /\ Extra
  /\ WaitForAll
  /\ evalOpen' = TRUE
  /\ UNCHANGED <<checkpointVars, stepVars, buffers, staged, evalLosses, call, closing, life, phase>>

BeginEvalStep ==
  /\ Idle /\ evalOpen /\ evalLosses < MaxMicro
  /\ WaitForNext
  /\ call' = "eval_step"
  /\ UNCHANGED <<checkpointVars, stepVars, buffers, staged, evalVars, closing, lifeVars>>

EndEvalStep ==
  /\ call = "eval_step" /\ call' = "idle"
  /\ AddComputation(NoMetrics)
  /\ evalLosses' = evalLosses + 1
  /\ UNCHANGED <<checkpointVars, stepVars, buffers, staged, evalOpen, closing, lifeVars>>

EvalExit ==
  /\ Idle /\ evalOpen
  /\ log' = IF evalLosses > 0 THEN Append(log, Eval(step, evalLosses)) ELSE log
  /\ evalOpen' = FALSE /\ evalLosses' = 0
  /\ UNCHANGED <<inflight, running, pendingMetrics, checkpointVars, stepVars, buffers,
                 staged, call, closing, lifeVars>>

BeginFwdOnly ==
  /\ Extra
  /\ WaitForNext
  /\ call' = "fwd_only"
  /\ UNCHANGED <<checkpointVars, stepVars, buffers, staged, evalVars, closing, life, phase>>

EndFwdOnly ==
  /\ call = "fwd_only" /\ call' = "idle"
  /\ AddComputation(NoMetrics)
  /\ UNCHANGED <<checkpointVars, stepVars, buffers, staged, evalVars, closing, lifeVars>>

(* The kernel raises, and the orchestrator goes on with another call.          *)
KernelFails ==
  /\ call \in Dispatches \cup {"update"} /\ call' = "idle"
  /\ UNCHANGED <<throttlerVars, checkpointVars, stepVars, buffers, staged, evalVars,
                 closing, lifeVars>>

(* Marks in the log, for the properties.                                       *)
Mark(mode) == [NoMetrics EXCEPT !.mode = mode]

(* get_metrics(clear_cache=True).  Inside a step it takes the losses so far.   *)
GetMetrics ==
  /\ Extra
  /\ buffers' = <<>>
  /\ log' = IF micro > 0 THEN Append(log, Mark("busy_read")) ELSE log
  /\ UNCHANGED <<inflight, running, pendingMetrics, checkpointVars, stepVars, staged, evalVars,
                 call, closing, life, phase>>

-----------------------------------------------------------------------------
(* Checkpoints                                                                 *)

(* Mutant: a checkpoint inside a step has the number of the step before it.    *)
CheckpointAtStep ==
  [step |-> step, micro |-> micro, version |-> version, grads |-> grads,
   denominator |-> IF micro > 0 THEN denominator ELSE 0,
   buffers |-> buffers]

(* A checkpoint inside a step has the number the step gets when it is done.    *)
Checkpoint ==
  [step |-> IF micro > 0 THEN step + 1 ELSE step, micro |-> micro,
   version |-> version, grads |-> grads,
   denominator |-> IF micro > 0 THEN denominator ELSE 0,
   buffers |-> buffers]

AfterSave == IF closing THEN "finish" ELSE "idle"

(* save_checkpoint, of the orchestrator, or of update and close, which force   *)
(* it.  It drains the throttler first.                                         *)
SaveCheckpoint(force) ==
  /\ \/ Idle /\ ~evalOpen
     \/ call = "save" /\ force
  /\ WaitForAll
  /\ \/ SkipSaved(Checkpoint) /\ call' = AfterSave
     \/ DeleteSuperseded(Checkpoint) /\ call' = "replace"
     \/ ~IsLatest(Checkpoint.step) /\ StartSave(Checkpoint, force) /\ call' = AfterSave
  /\ UNCHANGED <<stepVars, buffers, staged, evalVars, closing, lifeVars>>

(* What was deleted is saved anew: a crash in between leaves neither.          *)
Replace ==
  /\ call = "replace" /\ call' = AfterSave
  /\ StartSave(Checkpoint, TRUE)
  /\ UNCHANGED <<throttlerVars, stepVars, buffers, staged, evalVars, closing, lifeVars>>

Commit ==
  /\ CommitSave
  /\ UNCHANGED <<throttlerVars, stepVars, buffers, staged, evalVars, call, closing, lifeVars>>

(* Mutants: the divisor, and the history of metrics, are not restored.         *)
LoadWithoutDenominator(c) ==
  /\ version' = c.version
  /\ micro' = c.micro
  /\ buffers' = IF c.buffers = <<>> THEN buffers ELSE c.buffers
  /\ resumed' = (c.micro > 0)
  /\ step' = IF c.micro > 0 THEN c.step - 1 ELSE c.step
  /\ grads' = IF c.micro > 0 THEN c.grads ELSE grads
  /\ UNCHANGED <<denominator, losses>>

LoadWithoutMetrics(c) ==
  /\ version' = c.version
  /\ micro' = c.micro
  /\ resumed' = (c.micro > 0)
  /\ step' = IF c.micro > 0 THEN c.step - 1 ELSE c.step
  /\ grads' = IF c.micro > 0 THEN c.grads ELSE grads
  /\ denominator' = IF c.micro > 0 THEN c.denominator ELSE denominator
  /\ UNCHANGED <<buffers, losses>>

(* restore_checkpoint: what a checkpoint does not carry stays as it is.  The   *)
(* losses are looked up under the number of the checkpoint.                    *)
Load(c) ==
  /\ version' = c.version
  /\ micro' = c.micro
  /\ buffers' = IF c.buffers = <<>> THEN buffers ELSE c.buffers
  /\ resumed' = (c.micro > 0)
  /\ IF c.micro > 0
       THEN /\ step' = c.step - 1
            /\ grads' = c.grads
            /\ denominator' = c.denominator
            /\ losses' = IF HasStep(buffers', c.step) THEN Newest(buffers').losses ELSE losses
       ELSE /\ step' = c.step
            /\ UNCHANGED <<grads, denominator, losses>>

NewestOnDisk == {c \in disk : \A d \in disk : d.step <= c.step}

(* Whether an engine has nothing that a checkpoint would not replace.          *)
Quiet ==
  /\ micro = 0 /\ buffers = <<>>
  /\ inflight = <<>> /\ ~IsMetrics(pendingMetrics)

Restarted == Mark(IF Quiet THEN "restart" ELSE "busy_restart")

(* A new process builds the engine and restores what there is.                 *)
Start ==
  /\ phase = "down" /\ life < MaxLives
  /\ phase' = "up" /\ life' = life + 1
  /\ \/ disk = {} /\ UNCHANGED <<stepVars, buffers>>
     \/ \E c \in NewestOnDisk : Load(c)
  /\ log' = Append(log, Restarted)
  /\ UNCHANGED <<inflight, running, pendingMetrics, checkpointVars, staged, evalVars,
                 call, closing, extras>>

(* restore_checkpoint on an engine that has trained, wherever it is.  It       *)
(* drains nothing.                                                             *)
Restore ==
  /\ Idle /\ ~evalOpen /\ life < MaxLives
  /\ saving = {}
  /\ \E c \in NewestOnDisk : Load(c)
  /\ life' = life + 1
  /\ log' = Append(log, Restarted)
  /\ UNCHANGED <<inflight, running, pendingMetrics, checkpointVars, staged, evalVars,
                 call, closing, phase, extras>>

-----------------------------------------------------------------------------
(* Weight synchronisation, the end, and crashes                                *)

(* Weights staged at this very step are handed out again.                      *)
PrepareWeightSync ==
  /\ Extra
  /\ ~\E s \in staged : s.step = step
  /\ WaitForAll
  /\ staged' = {[step |-> step, version |-> version]}
  /\ UNCHANGED <<checkpointVars, stepVars, buffers, evalVars, call, closing, life, phase>>

ReleaseWeightSync ==
  /\ Idle /\ staged # {}
  /\ staged' = {}
  /\ UNCHANGED <<throttlerVars, checkpointVars, stepVars, buffers, evalVars, call, closing,
                 lifeVars>>

Close ==
  /\ Idle /\ ~evalOpen
  /\ closing' = TRUE /\ call' = "save"
  /\ staged' = {}
  /\ UNCHANGED <<throttlerVars, checkpointVars, stepVars, buffers, evalVars, lifeVars>>

(* The manager's close waits for the save in flight.                           *)
FinishClose ==
  /\ call = "finish" /\ saving = {}
  /\ WaitForAll
  /\ buffers' = <<>>
  /\ call' = "idle" /\ phase' = "closed"
  /\ UNCHANGED <<checkpointVars, stepVars, staged, evalVars, closing, life, extras>>

Crash ==
  /\ phase = "up" /\ life < MaxLives
  /\ phase' = "down"
  /\ LoseInflight /\ LoseSave
  /\ step' = 0 /\ micro' = 0 /\ version' = FirstWeights
  /\ grads' = NoGrads /\ denominator' = 0 /\ losses' = 0
  /\ resumed' = FALSE /\ buffers' = <<>> /\ staged' = {}
  /\ evalOpen' = FALSE /\ evalLosses' = 0
  /\ call' = "idle" /\ closing' = FALSE
  /\ UNCHANGED <<log, life, extras>>

Device ==
  /\ DeviceFinishes
  /\ UNCHANGED <<checkpointVars, stepVars, buffers, staged, evalVars, call, closing, lifeVars>>

Closed == phase = "closed" /\ UNCHANGED vars

(* The rest of a call that has begun.                                          *)
Continue ==
  \/ EndFwdBwd \/ EndUpdate \/ EndEvalStep \/ EndFwdOnly
  \/ (call = "save" /\ SaveCheckpoint(TRUE)) \/ Replace \/ FinishClose

Next ==
  \/ BeginFwdBwd \/ BeginUpdate \/ BeginEvalStep \/ BeginFwdOnly
  \/ EndFwdBwd \/ EndUpdate \/ EndEvalStep \/ EndFwdOnly \/ KernelFails
  \/ EvalEnter \/ EvalExit \/ GetMetrics
  \/ \E force \in BOOLEAN : SaveCheckpoint(force)
  \/ Replace \/ Commit \/ Start \/ Restore
  \/ PrepareWeightSync \/ ReleaseWeightSync \/ Close \/ FinishClose
  \/ Crash \/ Device \/ Closed

Spec == Init /\ [][Next]_vars

(* The device and the background save run by themselves; a call that has begun *)
(* goes on when what it waits for has happened.                                *)
Fairness == WF_vars(Device) /\ WF_vars(Commit) /\ WF_vars(Continue)

FairSpec == Spec /\ Fairness

-----------------------------------------------------------------------------
(* Properties                                                                  *)

Modes == {"none", "restart", "busy_restart", "busy_read", "train", "eval"}
GradCounts == [n : Nat, of : SUBSET Versions]
BufferSeqs == {b \in Seq([id : 0 .. MaxSteps, losses : Nat]) : Len(b) <= MaxBuffered}
Entries == [mode : Modes, id : 0 .. MaxSteps, losses : Nat, of : Nat]
Checkpoints == [step : 0 .. MaxSteps, micro : 0 .. MaxMicro, version : Versions,
                grads : GradCounts, denominator : Nat, buffers : BufferSeqs]

(* The values of the engine's fields; the throttler holds no more than its     *)
(* bound and has taken nothing from its queue that the device still computes.  *)
TypeOK ==
  /\ inflight \in Seq(Entries) /\ Len(inflight) <= MaxInflight
  /\ running \in 0 .. Len(inflight)
  /\ pendingMetrics \in Entries /\ log \in Seq(Entries)
  /\ disk \subseteq Checkpoints /\ saving \subseteq Checkpoints
  /\ Cardinality(saving) <= 1
  /\ step \in 0 .. MaxSteps /\ micro \in 0 .. MaxMicro /\ version \in Versions
  /\ grads \in GradCounts
  /\ denominator \in Nat /\ losses \in Nat
  /\ resumed \in BOOLEAN /\ buffers \in BufferSeqs
  /\ staged \subseteq [step : 0 .. MaxSteps, version : Versions]
  /\ evalOpen \in BOOLEAN /\ evalLosses \in 0 .. MaxMicro
  /\ call \in Calls /\ closing \in BOOLEAN
  /\ life \in 0 .. MaxLives /\ phase \in {"up", "down", "closed"}
  /\ extras \in 0 .. MaxExtras

(* The histories in which only quiet engines were restored, and those in which *)
(* no metrics were read inside a step either.                                  *)
OnlyQuietRestores == \A i \in 1 .. Len(log) : log[i].mode # "busy_restart"
Undisturbed == \A i \in 1 .. Len(log) : log[i].mode \notin {"busy_restart", "busy_read"}

(* The divisor of the next update is that of the gradients it applies, and all *)
(* micro-batches of this step are among them, through any crash, checkpoint    *)
(* inside a step and restore.  They are exactly those of this step, computed   *)
(* with the weights they will be applied to, unless an engine was restored     *)
(* that was inside a step.  restore_checkpoint then keeps the gradients and    *)
(* the divisor if the checkpoint is a complete one, though its comments say    *)
(* that the count must not be inherited (line 2176) and that the value "has    *)
(* already been discarded" (line 2201): the next update applies both.          *)
AccumulatorIsOfThisStep ==
  /\ denominator = grads.n
  /\ micro <= grads.n
  /\ micro > 0 => version \in grads.of
  /\ OnlyQuietRestores => /\ grads.n = micro
                          /\ grads.of = IF micro = 0 THEN {} ELSE {version}

(* The losses the spike check of an update averages are those of its gradients *)
(* (update reads _cached_losses under skip_step_on_spikes).                    *)
LossesMatchGrads == losses = grads.n

LogSince(i) == {j \in i .. Len(log) : \A k \in i .. j : log[k].mode # "restart"}

(* Between two starts the metrics reach the log by step, and those of an       *)
(* evaluation, inside a step or between two, after all of the updates before   *)
(* it (eval_context drains).                                                   *)
MetricsInOrder ==
  Undisturbed =>
    \A i \in 1 .. Len(log) : \A j \in LogSince(i) :
      i < j => \/ log[i].id < log[j].id
               \/ log[i].id = log[j].id /\ log[i].mode = "eval"

Outstanding ==
  {log[i] : i \in 1 .. Len(log)} \cup {inflight[i] : i \in 1 .. Len(inflight)}
    \cup {pendingMetrics}

(* The metrics of a step are logged, or are still to be: whatever step an      *)
(* engine resumes at, those of the steps before are not lost in a throttler    *)
(* that crashed, because a checkpoint drains it first.                         *)
NoMetricsLost ==
  phase # "down" => \A s \in 0 .. step - 1 :
                     \E m \in Outstanding : m.mode = "train" /\ m.id = s

(* The metrics of an update have the losses of all its micro-batches, those    *)
(* before a crash included, unless get_metrics took them inside the step, or a *)
(* busy engine was restored and its buffers were mixed with the checkpoint's.  *)
MetricsWhole ==
  Undisturbed => \A m \in Outstanding : m.mode = "train" => m.losses = m.of

(* An engine is never behind what is listed on disk, so that a save it skips   *)
(* as saved already is one of at least its own progress.                       *)
NeverBehindDisk ==
  phase = "up" /\ call # "replace" =>
    \A c \in Listed :
      \/ c.step < Checkpoint.step
      \/ c.step = Checkpoint.step /\ (micro > 0 => c.micro \in 1 .. micro)

(* close() "writes buffered metrics and final checkpoint": what the engine had *)
(* done is on disk, and nothing is left in the throttler.                      *)
ClosedIsDurable ==
  phase = "closed" =>
    /\ inflight = <<>> /\ ~IsMetrics(pendingMetrics)
    /\ \E c \in disk : /\ c.step = Checkpoint.step /\ c.micro = micro
                       /\ c.version = version
                       /\ micro > 0 => c.grads = grads /\ c.denominator = denominator

(* A complete checkpoint leaves the disk only when a newer one is committed;   *)
(* only one taken inside a step is deleted to be replaced.                     *)
CompleteIsKept ==
  [][\A c \in disk : c.micro = 0 /\ c \notin disk' => \E d \in disk' : d.step > c.step]_vars

(* A step that was resumed inside and then finished reaches the disk, at once  *)
(* and not a checkpoint period later, unless the process crashes or the update *)
(* raises.                                                                     *)
ResumedStepReachesDisk ==
  \A s \in 1 .. MaxSteps :
    (resumed /\ call = "update" /\ step + 1 = s)
      ~> \/ phase = "down" \/ (resumed /\ call = "idle")
         \/ \E c \in disk : c.step > s \/ (c.step = s /\ c.micro = 0)

(* Every call returns: the queue always has room for the computation that was  *)
(* dispatched, and no drain, save or close waits for ever.                     *)
CallsReturn == call # "idle" ~> call = "idle"
=============================================================================
