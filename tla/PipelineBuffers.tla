---------------------------- MODULE PipelineBuffers ----------------------------
(***************************************************************************)
(* PipelineBase of layers/pipeline.py: the buffers through which           *)
(* microbatches travel along the stages of a pipeline, one iteration of    *)
(* all stages at a time, and as many times around as there are repeats.    *)
(*                                                                         *)
(* What an array holds is abstracted to the microbatch it comes from and   *)
(* to the number of layers it has been through, in their order.  A stage   *)
(* that is given anything but the next layer's input, that layer's         *)
(* weights, and the positions of the same microbatch computes garbage, as  *)
(* it does by design while the pipeline fills and drains.                  *)
(***************************************************************************)
EXTENDS Integers, Sequences

CONSTANT Schedules    \* the configurations

(* stages, perStage (microbatches per stage), repeats, and the iterations an   *)
(* activation takes to the next stage; and which pipeline: prefetch (with      *)
(* pipeline_fsdp_ag_per_repeat), noCarry and phaseSplit.  As types.py has it,  *)
(* there are two stages at least, they divide the microbatches, a delay needs  *)
(* twice as many, and prefetching is for repeats without delay.                *)
ASSUME SchedulesAssumption ==
  \A c \in Schedules :
    /\ c.stages \in Nat /\ c.stages >= 2
    /\ c.perStage \in Nat \ {0} /\ c.repeats \in Nat \ {0}
    /\ c.delay \in {1, 2} /\ c.perStage >= c.delay
    /\ {c.prefetch, c.noCarry, c.phaseSplit} \subseteq BOOLEAN
    /\ c.prefetch => c.repeats > 1 /\ c.delay = 1
    /\ c.phaseSplit => c.prefetch

VARIABLES
  sched,                  \* the configuration
  loop_iteration,
  state_io,               \* by stage and rotating index: inputs, later outputs
  shift,                  \* by stage: what it gets from the stage before
  prev_outputs,           \* by stage, with delayed forwarding
  circ_storage,           \* of stage 0, by microbatch: from the last stage
  circ_storage_mover,     \* the last stage's output on its way there
  sown                    \* per iteration, by stage: the metrics of its layer

buffers == <<sched, loop_iteration, state_io, shift, prev_outputs,
             circ_storage, circ_storage_mover, sown>>

-----------------------------------------------------------------------------
(* The schedule                                                                *)

Stages == 0 .. sched.stages - 1
LastStage == sched.stages - 1
Microbatches == sched.stages * sched.perStage

NeedCircStorage ==
  sched.repeats > 1 /\ Microbatches > sched.stages * sched.delay

(* For microbatch 0 to finish a repeat, and the last one.                      *)
RepeatIterations == sched.delay * LastStage
FirstIterations == Microbatches * (sched.repeats - 1) + RepeatIterations
TotalIterations == Microbatches * sched.repeats + RepeatIterations

Processed(i, s) == IF i >= sched.delay * s THEN i - sched.delay * s ELSE 0
MicrobatchId(i, s) == Processed(i, s) % Microbatches
RepeatId(i, s) == Processed(i, s) \div Microbatches

(* dynamic_slice_in_dim clamps its start index.                                *)
LastRepeat == sched.repeats - 1
Clamp(r) == IF r > LastRepeat THEN LastRepeat ELSE r

-----------------------------------------------------------------------------
(* One iteration                                                               *)

Activation(m, n) == [micro |-> m, done |-> n]
Garbage == Activation(-1, 0)

(* get_iteration_inputs                                                        *)
FirstStageIn ==
  IF loop_iteration < Microbatches THEN state_io[0][loop_iteration % sched.perStage]
  ELSE IF NeedCircStorage THEN circ_storage[loop_iteration % Microbatches]
  ELSE shift[0]

StageIn(s) == IF s = 0 THEN FirstStageIn ELSE shift[s]

(* Weights: the repeat they hold, and the one their gradient is added to.      *)
Weights(r, g) == [holds |-> r, grad |-> g]
Layer(s, w) == w.holds * sched.stages + s

(* A stage gets the positions and segment ids of microbatch_ids.               *)
Computes(s, w) ==
  /\ StageIn(s).micro = MicrobatchId(loop_iteration, s)
  /\ StageIn(s).done = Layer(s, w)

StageOut(s, w) ==
  IF Computes(s, w) THEN Activation(StageIn(s).micro, StageIn(s).done + 1) ELSE Garbage

Outputs(weights) == [s \in Stages |-> StageOut(s, weights[s])]

Sown(s, w) ==
  [micro |-> StageOut(s, w).micro, layer |-> Layer(s, w), grad |-> w.grad]

(* get_new_loop_state: the last stage sends to the first only if there is a    *)
(* next repeat and no storage in between.                                      *)
Shifted(out) ==
  [s \in Stages |->
     IF s > 0 THEN out[s - 1]
     ELSE IF sched.repeats = 1 \/ NeedCircStorage THEN Garbage
     ELSE out[LastStage]]

(* Mutant: the mover is taken for the output of this iteration.                *)
CircOffsetNoDelay == (loop_iteration - RepeatIterations) % Microbatches

CircOffset == (loop_iteration - RepeatIterations - 1) % Microbatches

(* A slice of state_io moves up by one, and the last output goes to its end.   *)
Pushed(out) ==
  LET c == loop_iteration % sched.perStage
  IN [s \in Stages |->
        [state_io[s] EXCEPT ![c] = IF s = LastStage THEN out[LastStage]
                                   ELSE state_io[s + 1][c]]]

Advance(out) ==
  /\ loop_iteration' = loop_iteration + 1
  /\ shift' = Shifted(IF sched.delay = 2 THEN prev_outputs ELSE out)
  /\ prev_outputs' = IF sched.delay = 2 THEN out ELSE prev_outputs
  /\ circ_storage' = IF NeedCircStorage
                       THEN [circ_storage EXCEPT ![CircOffset] = circ_storage_mover]
                       ELSE circ_storage
  /\ circ_storage_mover' = IF NeedCircStorage THEN out[LastStage] ELSE circ_storage_mover
  /\ state_io' = Pushed(out)

(* run_one_iteration, with the weights each stage is given.                    *)
Iterate(weights) ==
  /\ Advance(Outputs(weights))
  /\ sown' = Append(sown, [s \in Stages |-> Sown(s, weights[s])])
  /\ UNCHANGED sched

(* init_states                                                                 *)
BuffersInit ==
  /\ sched \in Schedules
  /\ loop_iteration = 0
  /\ state_io = [s \in Stages |-> [j \in 0 .. sched.perStage - 1 |->
                                     Activation(s * sched.perStage + j, 0)]]
  /\ shift = [s \in Stages |-> Garbage]
  /\ prev_outputs = [s \in Stages |-> Garbage]
  /\ circ_storage = [m \in 0 .. Microbatches - 1 |-> Garbage]
  /\ circ_storage_mover = Garbage
  /\ sown = <<>>

-----------------------------------------------------------------------------
(* The result                                                                  *)

Finished == loop_iteration = TotalIterations

(* permute_output_micro_per_stage_dim, realign_output_microbatches             *)
FinalOutput(s, j) == state_io[s][(j + FirstIterations) % sched.perStage]

(* Mutant: without the stages' delay.                                          *)
ValidIterationNoDelay(r, m, s) == r * Microbatches + m + s

(* reduce_sown_metrics_per_layer: where the metrics of a microbatch are.       *)
ValidIteration(r, m, s) == r * Microbatches + m + sched.delay * s

PerMicrobatch(r, m, s) == sown[ValidIteration(r, m, s) + 1][s]
=============================================================================
