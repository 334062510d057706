# A verification project for MaxText

MaxText is a JAX library that trains, post-trains and serves large language
models on TPU slices. Most of its source is numeric code (layers, kernels,
configurations) without control state of its own. Around that code sits a
concurrent, fault-tolerant program: a training loop that survives the loss and
return of slices, with asynchronous checkpoints and in-memory snapshots; a
wrapper that retries it; a batch-size ramp that has to survive restarts; a
training engine for post-training that keeps several computations in flight and
checkpoints inside a step; hosts that load data by themselves and meet in every
step, with metrics that are written one step late; and an inference loop of two
threads that share decode slots. This project models that program in TLA+, model-checks it with TLC, and proves its main safety
properties with TLAPS.

All paths below are relative to the root of the repository; `mt/` stands for
`src/maxtext/`.

## 1. Inventory

### Modelled

| component | code | state it keeps | operations |
|---|---|---|---|
| pre-training loop under elastic training | `mt/trainers/pre_train/train.py`, `mt/utils/train_utils.py` | train state (step number), data iterator position, place in the loop | set up and restore, load, train step, three calls of `maybe_save_checkpoint`, back up and scale up, end of the run |
| persistent checkpoints | `mt/common/checkpointing.py` | complete and incomplete step directories, the save in flight, a background error not yet raised | save, wait, clean up incomplete directories, preemption handler, exception guard |
| in-memory snapshots | `mt/common/snapshotting.py` | the latest snapshot and the slices holding a replica, the queue slot, the worker thread | save, join, reset, load, choice between snapshot and checkpoint |
| elastic retries, retry cache, goodput spans | `mt/utils/elastic_utils.py` | attempt number, cached setup objects, outcome object, open spans, module globals | start and end of a run, wait for slices, get or build, event, callbacks |
| batch size ramp-up | `mt/utils/rampup_batch.py`, `mt/common/data_loader.py` | batch size, sample counters, the buffered load and the place in it | next batch, update, recover from a step number |
| training engine | `mt/training_engine/maxtext_engine.py`, `inflight_throttler.py`, `checkpointing.py`, `metrics.py` | step and micro-step counters, accumulated gradients with their divisor and losses, the queue of computations, buffered and pending metrics, checkpoints on disk and in flight, staged weights | forward and backward, update, evaluation, scoring, save, restore, weight synchronisation, close, crash |
| multi-host data loading | `mt/input_pipeline/multihost_dataloading.py` | per host: batches read, out of data, the last batch | next, reset, padding |
| metric logger and submission log | `mt/common/metric_logger.py`, `mt/utils/mllog_utils.py` | the deferred entry, sums of an evaluation, the running period, files; the open block | buffer, flush, finalize, write, abort; block, eval and run events |
| pipeline parallelism | `mt/layers/pipeline.py`, `reduce_sown_metrics_per_layer` of `mt/utils/pipeline_utils.py` | the loop state: inputs and outputs, shift, delayed outputs, circular storage and its mover; the two slots of prefetched weights and the carried one; sown metrics | one iteration of all stages, start of a repeat, drain or prologue, final permutation, reduction of metrics |
| offline inference | `mt/inference/offline_engine.py`, `mt/input_pipeline/packing/prefill_packing.py` | free slots, slot-to-prompt dictionary, buckets, task queue, results | prefill, pack, flush, decode, detokenize, emit, free a slot, stop |

**How they interact.** `elastic_retry` decorates the function that runs an
attempt: it waits until enough slices are up, calls it, and turns a
`JaxRuntimeError` or a `ScaleUpSignalError` into a callback and another attempt.
An attempt sets up (through the retry cache), restores a snapshot or a
checkpoint, and runs the loop. The loop calls the checkpointer and the
snapshotter, which hand their work to a background thread each; what goes wrong
there surfaces later, at the next save or wait. Slices come and go around all
of this, and what the main thread notices, and when, depends on what it waits
for. The ramp-up loader sits between the loop and the data iterator; it keeps
no state in a checkpoint and is rebuilt from the step number. On each host, the
loop takes its training and evaluation batches from a multi-host iterator, and
hands the metrics of each step to the metric logger, which writes those of the
step before and feeds the submission log. The training engine is used instead of
this loop by an orchestrator of post-training; its calls dispatch to the device
through a throttler, and save through a checkpoint manager of their own. The
pipeline is inside the compiled train step: its stages run in lock-step, and what
interacts are the buffers between them and the weights they are given. Offline
inference is a program of its own; its two threads share a queue, a set of free slots and
the dictionary `slot_to_id`, without a lock.

**What is hard, and what makes each component correct.**

- *Loop, checkpoints and snapshots.* Interleavings of four kinds of actors
  (loop, checkpoint writer, snapshot worker, slices); backups at unrelated
  periods that are skipped, fail or are lost independently; an interruption
  between any two steps. Correct means: an attempt resumes from a state that
  was trained, no older than the newest complete checkpoint; the data iterator
  is always where the train state expects it; nothing is thrown away for a
  scale-up; a completed run is durable; every run ends.
- *Retries.* State that outlives an attempt (the cache, the outcome object, the
  goodput globals) and attempts that die anywhere in setup. Correct means: no
  attempt sees an object of other slices or of another run; nothing is rebuilt
  without need; each interruption is labelled with its own cause; no span stays
  open while an attempt trains.
- *Ramp-up.* Boundaries of stages, loads and batches that do not coincide, and
  restarts in the middle. Correct means: no sample is used twice, little is
  skipped, and the sizes agree with the schedule computed from the step number.
- *Training engine.* The device runs behind the calls, the checkpoint manager
  writes behind them, kernels raise between two halves of a call, and a checkpoint
  may be taken in the middle of a step, to be replaced when the step is done.
  Correct means: an update applies the gradients of its own micro-batches, through
  any crash; what is on disk is never lost to a lesser state, and a closed engine is
  on disk; metrics are logged whole, in order, and not lost; every call returns.
- *Loop, loaders and logger.* Hosts run out of data at different times though every
  step needs all of them; metrics wait in a queue for whatever call comes next, an
  evaluation or the end of the run included. Correct means: no host waits for ever;
  each step's metrics are written once and in order; an evaluation sums its own
  batches; the submission log is well formed; a NaN loss fails the job.
- *Pipeline parallelism.* A microbatch goes around several buffers that are indexed by
  the iteration, at a distance that depends on the stage, on the delay, and on whether
  there is storage; weights are gathered ahead for all stages, which reach a repeat one
  after the other; half of what the stages compute in the bubbles is garbage that must go
  nowhere. Any index off by one gives a model that trains, on the wrong layers. Correct
  means: the output is that of the layers one after the other, and the metrics and
  gradients of a layer are its own, for every number of stages, microbatches and repeats.
- *Offline inference.* A token is attributed when it is detokenized, not when
  it was decoded; slots are freed by one thread and taken by the other.
  Correct means: no slot is lost, results are in order and end where they
  should, each prompt gets its own tokens, and the call returns.

### Not modelled

`PROJECT.json` lists the rest with reasons: indexed data sources, input pipelines
and tokenizers, the math verification pool, workload monitoring, DiLoCo, MaxEngine
with the MLPerf driver, the benchmark tools, the evaluation runners, the
post-training drivers, models and kernels, and configuration with checkpoint
conversion. By far the largest part of the source is numeric: layers, models,
kernels, and the tables that map parameters between formats. Apart from the pipeline
they have no control state to model, which is why the map covers a small share of all lines although it
covers most of those that coordinate something. The math verification pool makes
its own jobs in each call and waits for them in one thread; what could go wrong
there is inside `multiprocessing.Pool`. Section 7 says what comes next.

## 2. Modules and how they correspond to the code

```
Backups                     what a backup is: the step and the iterator position
  AsyncCheckpointer         common/checkpointing.py over Orbax's checkpointer
  HostSnapshotter           common/snapshotting.py over Orbax's snapshotter
    ElasticTraining         EXTENDS both: train.py's loop, retries, slices
      => ResumableTraining  the abstract specification it implements
ElasticRetry                elastic_utils.py: what attempts and runs share
RampUp                      rampup_batch.py and RampUpDataLoader
InflightThrottler           training_engine/inflight_throttler.py
EngineCheckpoints           training_engine/checkpointing.py over Orbax
  TrainingEngine            EXTENDS both: maxtext_engine.py with its recorder
MultiHostLoader             input_pipeline/multihost_dataloading.py of one host
SubmissionLog               utils/mllog_utils.py
  TrainLoop                 EXTENDS both: train.py's loop with evaluations and
                            common/metric_logger.py, on several hosts
PipelineBuffers             layers/pipeline.py: PipelineBase, and the metrics' reduction
  Pipeline                  EXTENDS it: NNXPipeline and NNXCircularPipeline
ContinuousBatching          offline_engine.py and prefill_packing.py
MC*                         instances for TLC;  *Proofs: theorems for TLAPS
```

**ElasticTraining.** `pc` is the place of the main thread; `call` tells which of
the three callers (loop, scale-up, completion) is inside
`maybe_save_checkpoint`. `n` is `state.optimizer.step`, `pos` the position of
the data iterator, `alive` the slices Pathways has, `active` those of the
attempt; `lost` says that one of these went down since it started, which the
main thread does not know until it waits for a result. One turn of the loop is
`LoadNextBatch`, `TrainStep`, a save (`SkipSave`, `SaveNotDue`, or
`SaveCheckpoint` with `GuardPasses` or `ScaleUp`, then `Settle`),
`MaybeSaveSnapshot`, and `MaybeBackUp`, which goes back to the load, to a forced
save (checkpoint mode), or to `JoinSnapshotter` and `JoinOwnSnapshot` (snapshot
mode), and then to `ScaleUp` or `NoScaleUp`. `SliceDownRaised` can happen at any
place of an attempt except inside `Snapshotter.join`, which has no way out.
`OnElasticEvent` is the callback between attempts: the checkpointer is
abandoned, incomplete directories are cleaned up, the snapshotter is reset after
a slice-down.

**AsyncCheckpointer and HostSnapshotter** hold the operations and the background
steps of the two kinds of backup, not specifications of their own. A save on GCS
has a directory without a marker until it is complete; elsewhere the directory
appears at the end. A save whose attempt is over goes on as an orphan. A snapshot
is loadable while one slice still holds a replica.

**ResumableTraining** is what the composition promises: `trained`, `durable`,
`peak`, `phase`; an attempt resumes somewhere in `durable .. peak`, below the last
step, and `durable` never goes back. `ElasticTraining` maps `trained` to `n`,
`durable` to the steps of the newest complete checkpoint, and `phase` to three
classes of `pc`.

**ElasticRetry** looks at the same attempts from the outside. What an attempt
does between setup and its end is reduced to `TrainStarts`, `SliceDown`,
`ScaleUp` and `AttemptEnds`; in return it has the retry cache object by object
(`GetOrBuild`), the label and the spans of goodput, and several runs of the
decorated function in one process. `builds` is a history variable: how often
the attempts on the present slices built each object.

**RampUp** has the manager's counters, the loader's buffer (always the last
load), the iterator and the checkpoint. A sample is `<<load, index>>`, so that
repeating and skipping are visible. `RecoverStates` is one turn of the loop in
`_recover_states`.

**InflightThrottler and EngineCheckpoints** hold the methods of two objects of the
engine as operators. `inflight` is the bounded queue; `running` says how many of its
youngest entries the device still computes, so that a wait is a guard. `log` is what
the metrics logger was given. A checkpoint records the step, how many micro-batches
it is into it, and what of the engine it carries. `Supersedes` and the three cases of
a save (`SkipSaved`, `DeleteSuperseded`, `StartSave`) follow `save_checkpoint`; the
deletion and the save after it are two steps, so that a crash may fall between.
`MetadataLag` says whether the metadata of a save in flight may be unreadable, in
which case the code takes the save for complete.

**TrainingEngine.** A call that dispatches has two halves, `Begin...` with
`wait_for_next` and `End...` with `add_computation`; `KernelFails` is a kernel, of
`update` too, that raises in between, after which the orchestrator goes on. `Extra` is
what evaluations, scorings, metric reads and weight syncs share: the engine allows them
inside a step, its tests do them there (`maxtext_engine_test.py:777`, 1263, 1594), and so
does the model, `MaxExtras` times. `version` names the weights by
the life and the step they come from, so that gradients of other weights can be told
apart; losses and divisors are counted in micro-batches. `Checkpoint` is what
`save_checkpoint` would write now: inside a step it has the number the step gets when
it is done. `EndUpdate` of a resumed step goes on to a forced save, as the code does.
`Start` is a new process with a restore, `Restore` one on a live engine, wherever it
is: `restore_checkpoint` drains nothing and keeps what the checkpoint does not carry.
What a restore of a busy engine leaves behind is not assumed away but stated: `log` has a
mark for every restore, `"restart"` if the engine was `Quiet` (no micro-batch done, nothing
buffered or in flight) and `"busy_restart"` if not, and one for metrics that were read
inside a step. The marks are aids of the properties; no action looks at them.
`OnlyQuietRestores` and `Undisturbed` are conditions on this history, in the properties
that need them.

**MultiHostLoader and SubmissionLog** are pure: an iterator, or a log, is a record, and
each method an operator from one to the next. `Outcome` says whether `__next__` gives a
batch (of zeros at the end, with padding), stops, or raises for want of a batch to copy.

**TrainLoop** has the loop as each host runs it. `LoadTrain(h)` and `LoadEval(h)` are
the fetches of one host, at its own time; `TrainStep` and `EvalStep` need all hosts,
because their programs are collective. `Report` is the rest of an iteration: it
buffers the metrics, closes the evaluation, and advances the step. `logger` is the metric
logger of process 0 as a record, `Flushed`, `BufferEval`, `BufferTrain` and `Finalized` its
methods. A `job` is a configuration together with the data each host has and the step
whose loss is NaN or whose evaluation reaches the target; it is chosen in `Init`. A job
with `start` above 0 is one resumed there, its training iterators at that step. The
properties over what was written and logged speak of places in these sequences, never of
a sequence filtered out of them, so that they can be proved.

**PipelineBuffers** has the loop state of `PipelineBase`. What an array holds is the
microbatch it comes from and how many layers it has been through; a stage that is not
given its next input with its own layer's weights and that microbatch's positions
returns `Garbage`. So an output with all layers done has had each of them, once and in
order. `Advance` is `get_new_loop_state`, every update of it from the old state, as in
the code; `circ_storage` is the row of stage 0, the only one that is read. Bubbles
compute on zeros or on left-overs, which are `Garbage` too. `sown` has an entry for each
iteration, as the scan stacks them. Weights are a pair: the repeat they hold, and the
repeat whose parameters their gradient is added to.

**Pipeline** gives the stages their weights. Without `prefetch` it is `NNXPipeline`:
one phase, each stage's weights gathered for the iteration. With it, `StartRepeat` fills
the slots `bsw` and `left` counts the iterations of the phase; `OneSlot` says that they
run on one slot. `StartDrain` is `_run_bubble_phase` after the repeats; with
`phaseSplit` a prologue in `Init` takes its place. In the code phase split shifts the
windows only if `0 < num_mixed_iterations < num_microbatches`; with two stages or more
that divide the microbatches and no delay this is always so. `noCarry` is of
no effect without prefetching, where the instance has its default. `SchedulesAssumption`
is the validation of the configuration in `mt/configs/types.py`.

**ContinuousBatching** gives each thread its actions. `PrefillRow` takes a slot
and prefills or packs one prompt; `StartDecode` and `DecodeStep` are `decode()`;
`BgGetPrefill`, `BgGetDecode`, `BgScanKey`, `BgEmitDecode` and `BgFree` are the
loop of `background_detokenization`, one dictionary entry and one freed slot at a
time; `BgRaise` is the `RuntimeError` of a dictionary that grew during iteration,
which kills the process. A token is `<<prompt, k>>`.

### What is abstracted or left out of these modules

- A train state is the number of steps it has done; sharding is the set of slices.
- Orbax, Pathways' elastic manager, MaxEngine and the data iterators are external:
  they are modelled from how the code uses them, and marked so in the map.
- Checkpoints: no emergency or replicator manager, continuous checkpointing, local
  periods, autocheckpoint, retention (`max_to_keep`), conversion or loading from
  another run.
- Loop: no MoE dropless replay, DiLoCo or profiling, and only iterators whose
  position is in the checkpoint. `ElasticTraining` has no evaluations and metrics,
  `TrainLoop` no backups, interruptions and retries.
- Engine: no compilation, sharding or transport of staged weights; a restore takes the
  newest checkpoint of the engine's own directory. What the spike check does with the
  losses is numeric.
- Loaders: no retries of transient TensorFlow errors, no remote iterators under
  Pathways. Metrics: no texts, and the writers for TensorBoard, wandb and managed
  diagnostics, which get the same writes as the files, are left out.
- Ramp-up: the device count does not change between restarts.
- Pipeline: no sharding, RNG folding or rematerialisation. Of the custom VJPs there is
  only which parameters a gradient reaches; that they agree with the forward pass they
  recompute is numeric.
- Inference: a call uses one worker with empty buckets.

## 3. Runs

| run | instance | what it shows |
|---|---|---|
| `ElasticSnapshot` | snapshot mode on GCS; 3 interchangeable slices, 1 needed; 3 attempts, 5 steps, checkpoint every 3, snapshot every 2; copies may fail and hang, saves may fail | types; `BatchPerStep`: step k trains on batch k in every attempt and backup; `NoPartialLeft`: looking at the newest directory only is enough to clean up; `RefinesResumable` |
| `ElasticCheckpoint` | checkpoint mode off GCS; 2 slices, 3 attempts, 4 steps, period 3, a possible SIGTERM; with fairness | `DoneIsDurable`; `BackedUpBeforeScaleUp`; `Termination` |
| `ScaleUpAtEnd` | 2 slices, 2 steps | violated: a job that has done its last step is interrupted for new slices |
| `Retry` | 3 slices, 2 needed; 2 runs of 3 attempts; 4 cached objects | `NoStaleObject`, `BuiltOnce`, `LabelMatchesCause`, `TrainingIsNotCharged`; no deadlock |
| `RampUp` | 4 ramps, 10 steps, 3 restarts | `NoSampleTwice`, `OnSchedule`, `LittleSkipped` |
| `Batching` | 2 slots, 7 workloads, padded lengths 2, 3 and 4, decode in twos, at most 3 tokens per prompt; with fairness | `NoSlotLost`, `NothingAfterTheEnd`, `InOrderFromTheFirst`, `OwnWithoutReuse`, `ScanUndisturbed`, `Termination` |
| `BatchingReuse` | 3 prompts of length 1 for 2 slots | violated: a prompt in a reused slot gets tokens of the one before it |
| `BatchingPacked` | 3 packed prompts for 2 slots; with fairness | violated: prompts in a bucket hold every slot and the main thread decodes for ever |
| `Engine` | 2 steps of up to 2 micro-batches, 2 computations in flight, saves due every 2 steps, 1 kept, 2 lives, a restore of any idle engine, one evaluation, scoring, metric read or weight sync, inside a step or between two; with fairness | `AccumulatorIsOfThisStep`, `MetricsInOrder`, `NoMetricsLost`, `MetricsWhole`, `NeverBehindDisk`, `ClosedIsDurable`, `CompleteIsKept`, `ResumedStepReachesDisk`, `CallsReturn`; no deadlock |
| `EngineLosses` | the same without evaluations | violated: after a restore inside a step, the losses are not those of the gradients |
| `TrainLoop` | 2 hosts, 2160 jobs of 4 steps; with fairness | `MetricsWrittenOnce`, `EvalOfItsStep`, `LogWellFormed`, `NanAborts`, `GcsComplete`, `Termination`; no deadlock |
| `Pipeline` | every schedule of both pipelines with 2 to 5 stages, up to 4 microbatches per stage and 4 repeats; `NNXPipeline` with delay 1 or 2, `NNXCircularPipeline` with and without carry and phase split | `SameAsSequential`, `MetricsOfTheirLayer`, `GradientReachesLayer`; no deadlock |

### Bounds, and why they are enough

- *ElasticSnapshot.* With one slice needed and three there, an attempt can run on
  one, two or three slices, grow twice, and lose every replica or only some. Periods
  3 and 2 over 5 steps give snapshots newer than, older than and of the same step
  as the newest checkpoint. Three attempts allow a backup of one, an orphan of it
  in the next, and a fallback in the third. About 620,000 states.
- *ElasticCheckpoint.* Four steps with period 3 have saves at 0 and 3 and forced
  ones at 1 and 2; the last step is periodic, so that the final save meets one of
  the same step in flight. Two slices are one to run on and one to scale up to or
  to lose. About 400,000 states.
- *Retry.* Three slices with two needed give four sets an attempt can run on.
  Three attempts in a row have same, other, and first slices again; two runs show
  what one leaves to the next. `MaxRuns` is the only bound the code does not have.
- *RampUp.* The ramps end stages on a step, between two steps, inside and at the
  end of a load, with increments of one to three. Ten steps pass the end of every
  ramp; `Steps` and `MaxResumes` are bounds.
- *Batching.* The workloads reuse slots without packing, share a bucket, overflow
  one, flush two, and prefill a full-length prompt alone. `MaxQueue` bounds a
  queue that is unbounded in the code: the main thread waits when four tasks are
  queued, which only removes interleavings in which the other thread is still
  further behind. `MaxAge` bounds the index of the tokens the device computes for
  a prompt nobody reads any more; it exceeds `MaxDecode`, so that tokens past the
  end stay apart from those before it.
- *Engine.* Two computations in flight with up to three dispatches a step fill the
  queue and drain it in every order. Saves every second step make the first step one
  that is not due and the second one that is; two lives are a crash at any point, or a
  restore, with what follows. The step that is resumed and finished is either of the
  two. `MaxSteps`, `MaxMicro`, `MaxLives` and `MaxExtras` bound what an orchestrator may
  call; the code has no such bounds. With one checkpoint kept, every commit
  deletes the one before, which is where a complete one could be lost; the theorems hold
  for any number. About 980,000 states.
- *TrainLoop.* Jobs start fresh or resumed; evaluate never, each step, or each second;
  with all data, with the first batch only, with no data at all, or with padding on one
  host, on both, or on a host with no batch to copy; have training data that lasts, runs out, or is padded
  for ever; log in periods of 2 and 3 steps, so that the last is full or short; have a
  NaN loss at the first, a middle or the last step, or reach the target early. All
  combinations are checked. About 53,000 states.
- *Pipeline.* Each schedule has one behaviour, so that whole ranges are
  checked. Three stages are needed to tell the slots of a repeat from those of the next
  iteration, two microbatches per stage for circular storage, three with delay, three
  repeats to carry a slot twice. About 9,500 states. What this run shows for small
  sizes, the theorems of `PipelineProofs` show for all.
- The instances of the violated runs are the smallest that show them.

Deadlock is checked in `Retry`, `Engine`, `TrainLoop` and `Pipeline`, where only a run that has
ended stays as it is. Elsewhere the program is meant to stop; in
`ElasticSnapshot`, a worker stuck on a lost slice blocks `Snapshotter.join` for
ever, which the comment at `mt/common/snapshotting.py:122` admits.

### Fairness

Fairness is assumed of threads only. In `ElasticTraining`, the main thread, the
checkpoint writer and the snapshot worker are weakly fair: Python threads are
scheduled, a write of a checkpoint ends, with success or not, and a copy ends
unless it hangs on a lost slice (a state in which nothing of the worker is
enabled). Slices and signals promise nothing: they may never come back, or
return for ever; `Termination` holds because waiting has a timeout and attempts
are counted. In `ContinuousBatching` the two threads are weakly fair.
In `TrainingEngine` the device, the background save and the rest of a call that has
begun are weakly fair; nothing makes an orchestrator call anything, and a kernel may
fail or not. In `TrainLoop` each host's fetches are weakly fair, and so is what all
hosts do together: a step that every host has reached is run by the devices. Local
data iterators answer; retries of an iterator that does not are not modelled. `ElasticRetry`,
`RampUp` and `Pipeline` check safety only and assume none.

## 4. What is proved

TLAPS proves the following for all values of the constants that meet the named
assumptions (`ConfigAssumption`, `CopyAssumption`, `RetryAssumption`,
`RampUpAssumption`, `BatchingAssumption`, `ThrottlerAssumption`,
`CheckpointAssumption`, `EngineAssumption`, `JobsAssumption`, `SchedulesAssumption`), which TLC evaluates on its instances.
The assumptions are those a configuration has to meet for the code to run at
all: positive periods, step and retry counts, finite sets of slices, ramps whose
increment divides their range, and hosts with the same number of batches unless they
are padded. Most are enforced by the validation of the
configuration; `checkpoint_period` and `steps` are not, and a period of zero would
fail at the first `step % checkpoint_period`.

| theorem | argument |
|---|---|
| `TypeCorrect`, `ElasticTrainingProofs` | `TypeInv`: the types, and `Counted`: at the places after a step, at least one step has been done, so that the backup taken there has a natural number. |
| `BatchPerStepCorrect` | `Inv = TypeInv /\ SoundInv`. Every backup that exists anywhere, complete, in flight, orphaned or in the snapshot queue, is *sound*: its position fits its step, and it is not beyond `peak`; the iterator fits the train state at every place of an attempt. `BatchPerStep` alone is not inductive: what is restored may be in flight now. |
| `Refinement` | Every step of `ElasticTraining` is a step of `ResumableTraining` or a stutter. Soundness of the backups gives `Resume` its upper bound, the choice in `should_restore_snapshot` its lower one. |
| `NoPartialLeftCorrect`, `ElasticBackupProofs` | `PartialInv`: at most one directory without a marker is as new as the newest complete checkpoint, and it belongs to the save in flight or to one that just failed. Hence the newest directory is the only one to look at. |
| `DoneIsDurableCorrect` | `SecuredInv`: after the guard of a save, the step is in a complete checkpoint, in flight, or its failure has not been raised yet; so the wait at the end either raises or finds it complete. |
| `CheckpointBeforeScaleUp` | The same invariant, in checkpoint mode with `save_checkpoint_on_start` (stated as assumptions of the theorem: findings 6 and 7 show that it needs both). |
| `RetryTypeCorrect`, `NoStaleObjectCorrect`, `BuiltOnceCorrect`, `ElasticRetryProofs` | `CacheInv`: whatever is in the cache was built in this run for the slices the cache is keyed by, and these are the slices of the attempt; what has been built in this streak is in the cache. For any setup order. |
| `GoodputCorrect`, `TrainingIsNotChargedCorrect` | `SpanInv`: a span is open only while the global that closes it is set; the outcome flag is up only between the raise and the callback. |
| `NoSampleTwiceCorrect`, `RampUpProofs` | `TakenInv`: everything trained or in the batch lies before the place the loader stands at, everything in a checkpoint before the iterator position in it. |
| `LittleIsSkipped` | `SkipInv`: the places of all loads taken are trained on, held in the buffer, or within the allowance of a load less one for each restart and for the ramp's end; for a checkpoint one more allowance, since it keeps no buffer. By the cardinalities of slices and of disjoint unions. |
| `BatchesAreOnSchedule` | `ScheduleInv`: the manager is where as many updates as steps take it, or one fewer after a restart; while it recovers, what is left to replay makes up the difference. `ManagerAt` says in which stage it is after `u` updates and how far into it. That counting samples and counting steps switch at the same step is `StageStepsReach`, about rounding up; that the recursive `StageEnd` exists and grows is shown by set induction. |
| `NoSlotLostCorrect`, `ContinuousBatchingProofs` | `SlotInv` accounts for every slot, `TaskInv` types what travels through the queue. For any number of slots and any workload, with packing or without. |
| `NothingAfterTheEndCorrect` | `EndInv`: a prompt that has not completed is shorter than the maximum and has no end of sequence yet. |
| `ScanUndisturbedCorrect` | `KeyInv`: without packing, every slot that was ever taken is a key, and nothing is decoded before all are taken or no prompt is left to take one; a scan has the keys of the dictionary. |
| `BatchingTypeOK` | The types of both threads' state, and of every task in the queue, as one invariant. |
| `BatchingInvariant`, `BatchingInOrder` | What the device decoded and will decode has *places*, in order: the task being scanned, the tasks in the queue, the device. `LinkInv`: as long as a slot has a prompt, the tokens at each place go on with those of the place before. `ItemInv`, `ActiveInv`, `FoundInv`: a prompt in a slot waits for its first token, with none of its own received, or the next place continues what it has received. `FreshInv`: a prompt that still has a row is nowhere on the way. `InOrderFromTheFirst` looks only at the end of this chain. |
| `BatchingWithoutReuse` | With a slot for every prompt: `RoomInv` (all are prefilled before the first decode), `HeldInv` (a slot keeps its prompt until that is complete), `CompleteInv` (no prompt is forgotten, and a call that returns has completed all; that every prompt has a row is the pigeonhole principle), and `OwnTokens`, which the reuse of slots breaks. |
| `EngineInvariant`, `TrainingEngineProofs` | `EngineInv`: no checkpoint is *ahead* of the engine, and one of the same progress *holds* the same weights, gradients and divisor; the divisor counts the gradients, the step's own micro-batches among them, in the engine and in each checkpoint (`Accumulated`, `Sound`); checkpoints listed at the same time have different steps, the one in flight the largest; each stage of a save or close says what is already listed. By one step per action, the stages of a save apart. It holds wherever an engine is restored. |
| `AccumulatorHolds`, `EngineIsNeverBehindDisk`, `CloseIsDurable`, `CompleteCheckpointsAreKept` | From `EngineInv`, after any restore. `CloseIsDurable` assumes `MetadataLag = FALSE`, without which it fails. The last part of `AccumulatorHolds`, that the gradients are exactly those of the step and of its weights unless an engine was restored inside a step, is from `ContentInv`: while only quiet engines were restored, engine and checkpoints carry nothing else. A complete checkpoint is kept because what is deleted has micro-batches by its metadata, and what retention drops has a newer one beside it. |
| `EngineTypeOK` | The types of the engine, its queue and its checkpoints, from the same case split, after any restore. |
| `MetricsAreNotLost` | From `DataInv`, the types of what is buffered and queued, after any restore, and `LoggedInv`: every step is in the log, in the queue or stashed, and in the log if it is before a checkpoint, since a save drains first. |
| `MetricsInvariant`, `MetricsAreWhole`, `MetricsComeInOrder` | `BufferInv`: the buffers hold the losses of exactly the micro-batches done, in the engine and in every checkpoint. It and `OrderInv` are invariants of the histories that are `Undisturbed`, and the theorems, like the properties, speak of these. `OrderInv`: what is written, queued and stashed, one after the other, is ordered, and nothing of it is beyond the engine's step. A drain writes the places of the queue that carry metrics (`MetricPlaces`); that such a list of places exists is shown by set induction. |
| `QueueInvariant`, `TrainLoopProofs` | `QueueInv`: the queue has at most one entry; if it is of a train step it is the last step reported; all steps before it are written, in order; a logger that aborted has nothing left to write. Proved of the logger's operators first (each keeps it), then of the actions. |
| `MetricsAreWrittenOnce`, `NanLossAborts` | From `QueueInv`, for any hosts, data, schedules and events. |
| `EvaluationInvariant`, `EvaluationsAreOfTheirStep`, `UploadsAreComplete` | `LoaderInv`: each host has read as many batches as were evaluated, one more if it holds one, or all it has. `EvalInv`: what the logger has *collected* are the batches of this evaluation, the last of them perhaps still in the queue; the steps before have their summaries, in order; and what was written is what was uploaded with what waits for the next upload, where nothing waits after the last step. |
| `LogInvariant`, `LogsAreWellFormed` | `LogInv`: the frame of the log, its events other than `tracked_stats`, is well formed and ends, in each phase of the loop, with the event `EndsAt` names; the statistics are those of every step handed to the logger. What an event may follow is then known wherever one is emitted. |
| `PipelineInvariant`, `PipelineProofs` | `PipelineInv` says for every iteration what each buffer holds. With `Entering(u, s)` the microbatch that enters stage `s` as the `u`-th, with the layers it then has behind it: `ShiftInv` has what is under way between two stages (one iteration, or two with delay) or from the last stage around to the first, `CircInv` the mover and every place of the storage, `QueueInv` the inputs not read yet and the outputs written, `SownInv` the metrics of every valid pair so far. `ControlInv` says which repeat each slot is of, in each phase, and thus that every stage is given the weights of its repeat. One lemma per step, over lemmas on quotients and remainders: at the iteration a place is written its new content is the one the invariant asks for, and no other place asks for it. |
| `PipelineTypeCorrect`, `PipelineIsSequential`, `MetricsAreOfTheirLayer`, `GradientsReachTheirLayer` | From `PipelineInv` at the last iteration, for any stages, microbatches, repeats, delay and options. `SameAsSequential` says nothing before the end and is far from inductive. |

Every invariant and action property that a passing run checks is thus stated by a theorem
for all instances. Two theorems need more than the assumptions above and say so:
`CheckpointBeforeScaleUp` (checkpoint mode, `save_checkpoint_on_start`) and
`CloseIsDurable` (`MetadataLag = FALSE`). The engine's theorems hold for a restore of any
idle engine. Three of the properties have a condition on the history, each for a
reason in the code: an engine restored inside a step keeps gradients of other weights
(finding 10), and one restored, or read, with metrics on the way mixes or splits those of
a step. In snapshot mode `BackedUpBeforeScaleUp` is not a theorem:
there it does not hold.

Induction is used in two modules, on sets of natural numbers (`SetInduction`, from the
well-foundedness of `<`): the library's rules, which take a predicate, cannot be
instantiated here. It shows that a list of places or a recursive function exists and
grows; all else is by invariants.

Out of the prover's reach, and left to TLC: `Termination` in three modules,
`ResumedStepReachesDisk` and `CallsReturn`, which are liveness under fairness and rest on
`ENABLED`. The four violated runs are TLC's by their nature.

## 5. Findings

The first four are runs whose property states what a comment, docstring, test or
configuration file of the repository says; `PROJECT.json` quotes the line.

1. **`ScaleUpAtEnd`** (`mt/common/checkpointing.py:1403`). The guard around every
   save calls `maybe_elastic_scale_up` without a look at the step. A job whose last
   step is done can be interrupted during its final save for new slices; the next
   attempt finds a checkpoint of all steps and is refused.
2. **`BatchingReuse`** (`mt/inference/offline_engine.py:678`). A decode task carries no
   prompt ids, so that its tokens go to whatever prompt has the slot when the task
   is taken. `InOrderFromTheFirst` shows what still holds: after the first token of its
   own, a prompt gets no foreign ones. `OwnWithoutReuse` shows that the cause is reuse.
3. **`BatchingPacked`** (`mt/inference/offline_engine.py:505`). A prompt takes its slot
   when it is put in a bucket. When prompts of one bucket hold every slot, the loop
   that waits for a free slot decodes for ever.
4. **`EngineLosses`** (`mt/training_engine/maxtext_engine.py:2216`). A checkpoint inside a
   step has the number `train_step + 1`, the metrics of that step are buffered under
   `train_step`, and the restore looks them up under the number of the checkpoint. The
   losses are not rebuilt, though the gradients are.

Six more were met while modelling and have no run of their own:

5. `mt/common/checkpointing.py:1403`: the guard also raises a scale-up after a periodic
   save, when nobody has joined the snapshotter, although `train.py:1681` relies on
   "nothing is in flight". The checkpoint just written is then at least as new as the
   snapshot in the worker, and `RefinesResumable` holds all the same: the disagreement
   is with the comment, not a loss of work.
6. `mt/common/snapshotting.py:332`: the snapshot of the step counts as its backup even
   if every slice that held it is gone. An attempt snapshots step 1 and dies; the next
   falls back to the checkpoint of step 0, does step 1 again on another slice, takes the
   old snapshot for its backup and is interrupted with nothing to load.
7. `mt/common/checkpointing.py:1361`: the save before a scale-up is not forced when the
   step is a multiple of the period; step 0 is one, and is refused without
   `save_checkpoint_on_start`.
8. `mt/utils/rampup_batch.py:88`: a checkpoint of step k follows k + 1 batches; recovery
   replays k updates, so that a resumed manager has counted a step too few and a stage
   may end a step late. `OnSchedule` allows for that one step.

9. `mt/common/metric_logger.py:358`: `metrics_file` is truncated whenever the step is 0.
   The running metrics of an evaluation are numbered from 0, so that each evaluation
   wipes what the training steps before it wrote. `local` in `TrainLoop` has this.

10. `mt/training_engine/maxtext_engine.py:2202`: `restore_checkpoint` on an engine that is
    inside a step. If the checkpoint is of a complete step, the gradients the engine
    has accumulated, their divisor and its cached losses all stay; only the count of
    micro-batches is reset. The comments are written for an engine that was doing something before: the
    checkpoint "must not inherit the count from whatever this engine was doing before"
    (2175), the accumulator handed in is a value the code "has already discarded"
    (2199), and losses from before the restore "belong to a different run" (2233). It is
    not discarded: the next `fwd_bwd` adds to it (1775), and the next `update` applies
    gradients of weights that are gone to those restored. `AccumulatorIsOfThisStep` says
    what still holds (divisor and gradients stay together, nothing of the step is
    missing) and under which history the rest does. Without its `OnlyQuietRestores` TLC
    refutes it in six steps: a start, a save, a `fwd_bwd`, the commit, a restore.

Smaller observations, which the models contain or explain: a run that stops early never
uploads the last period of `metrics_dir`, although `flush_metrics_and_cleanup` is
described as uploading what is buffered (`GcsComplete` is stated for jobs that do all
their steps); an evaluation that finds no batch writes no summary, and since nothing is
pending then, the submission log never gets its `eval_stop` (`LogWellFormed` is stated for
jobs that do not evaluate or have evaluation data); if the last step is evaluated, its metrics and the summary of the
evaluation go to a file of the same name one after the other, and the second replaces
the first; a host that has no batch of its own to copy cannot pad and fails the run
(`EvalFails`), and in training, where the guard of the loader turns every failure into
the end of the data, it would stop alone if it resumed past the end of its data; weights staged for synchronisation are keyed by the step alone, so that
a restore to the same step hands out those from before.

## 6. Hazards without a property

`PROJECT.json` lists the hazards at their lines. Those that no property covers have a
note: the join without a timeout, a snapshot without replicas taken for a backup, the
cleanup of a directory that is still being written, `StopTraining` past the final save,
and unreadable metadata of a save in flight. For the last, the model
with `MetadataLag = TRUE` loses `ClosedIsDurable`: the final save is skipped against a
partial checkpoint still being written. Whether the metadata can be unreadable is a
question to Orbax. The models contain these behaviours, and some of less weight that are not listed: a
one-step run without a checkpoint on start, a preemption noticed one save late because
a step was saved already, a slice lost after the final save, a reinit span opened
twice. The repository makes no claim about them.

## 7. Plan

Modelled first was what the repository's own comments argue about most: the
composition of the loop with two kinds of backups. What follows, in order:

1. *Loaders*: the retries of a local iterator and the remote iterators with their
   cleanup after an elastic event. Properties: no batch lost or repeated by a retry, no
   call to a remote iterator that was cleaned up.
2. *Restores*: one with a step given; checkpoints without metadata, or with metadata
   and no accumulator, from earlier versions of the code.
3. *Workload monitor, API server, evaluation server*: threads, queue and process
   lifecycle, at lower priority.
4. *Checkpoints*: retention, continuous checkpointing and the emergency manager as
   variants of `AsyncCheckpointer`.
5. *DiLoCo*: the schedule of fragments as pure operators; gradient accumulation in
   the pipeline's train step.
6. *Proofs*: what keeps the liveness properties true short of fairness, as invariants (no
   place of a job or a call from which nothing can follow).

To run a check: `tlc -config ElasticSnapshot.cfg MCElasticTraining`, and likewise for
each row of the table of runs; to check the proofs of a module: `tlapm RampUpProofs.tla`.
