------------------------------- MODULE Pipeline -------------------------------
(***************************************************************************)
(* The two pipelines of layers/pipeline.py.  In NNXPipeline each stage     *)
(* gathers, in every iteration, its weights for the repeat it is in.  In   *)
(* NNXCircularPipeline the weights of a repeat are gathered ahead, at the  *)
(* start of a repeat and for all stages, into a slot of a buffer (the      *)
(* BSW), and a stage takes them from one of two slots, as the stages reach *)
(* a repeat one after the other.                                           *)
(*                                                                         *)
(* With pipeline_bsw_phase_split a repeat starts where all stages are in   *)
(* it, after a prologue; else a drain follows the last.  Without           *)
(* pipeline_bsw_no_carry the second slot is carried to the next repeat     *)
(* under stop_gradient, and bound to the parameters again.                 *)
(***************************************************************************)
EXTENDS PipelineBuffers

VARIABLES
  repeat,     \* repeats started
  left,       \* iterations left in this phase
  bsw,        \* the two slots
  carried     \* w_curr of the next repeat

vars == <<buffers, repeat, left, bsw, carried>>

None == -1     \* no repeat: zeros, or no parameter

-----------------------------------------------------------------------------
Bubble == RepeatIterations

(* Weights of all stages                                                       *)

(* get_current_repeat_from_stages; without repeats the only weights there are. *)
StageWeights(i) ==
  [s \in Stages |-> Weights(Clamp(RepeatId(i, s)), Clamp(RepeatId(i, s)))]

(* Mutant: gathers for the next iteration, at which only the first two stages  *)
(* are in the repeat.                                                          *)
WeightPrefetchingNext(i) == StageWeights(i + 1)

WeightPrefetching(i) == StageWeights(i + RepeatIterations)

StopGradient(w) == [s \in Stages |-> Weights(w[s].holds, None)]
Zeros == [s \in Stages |-> Weights(None, None)]

(* Mutant: a carried slot is used as it is.                                    *)
BindNothing(w, i) == w

(* _bind_carried_w_curr: the gradient goes where prefetching at i puts it.     *)
BindCarried(w, i) ==
  [s \in Stages |-> Weights(w[s].holds, WeightPrefetching(i)[s].grad)]

-----------------------------------------------------------------------------
(* The two slots                                                               *)

LastRepeatIteration == LastRepeat * Microbatches

(* The second slot is for the stages that are in the repeat of stage 0.        *)
SelectWeights ==
  [s \in Stages |->
     IF RepeatId(loop_iteration, s) = loop_iteration \div Microbatches
       THEN bsw.second[s] ELSE bsw.first[s]]

(* Mutant: the phase of one slot is an iteration longer.                       *)
OneSlotTooLong == sched.phaseSplit /\ left >= Bubble

(* With a phase split, while all stages are in the repeat of the first slot.   *)
OneSlot == sched.phaseSplit /\ left > Bubble

NextIteration ==
  LET next == loop_iteration + Microbatches - Bubble
  IN IF next > LastRepeatIteration THEN LastRepeatIteration ELSE next

(* The iterations whose repeats the slots are for.  Without a carry there is    *)
(* no maximum with 0, and get_microbatch_and_repeat_ids takes it.              *)
FirstSlotIteration ==
  IF sched.phaseSplit THEN loop_iteration - Bubble
  ELSE IF loop_iteration >= Microbatches THEN loop_iteration - Microbatches
  ELSE 0

SecondSlotIteration == IF sched.phaseSplit THEN NextIteration ELSE loop_iteration

Carry(w) == IF sched.noCarry THEN Zeros ELSE StopGradient(w)

FirstSlot(i) == IF sched.noCarry THEN WeightPrefetching(i) ELSE BindCarried(carried, i)

BothSlots(w) == [first |-> w, second |-> w]

-----------------------------------------------------------------------------
(* One repeat: prefetch w_next, then the iterations of the repeat.             *)
StartRepeat ==
  /\ left = 0 /\ sched.prefetch /\ repeat < sched.repeats
  /\ repeat' = repeat + 1 /\ left' = Microbatches
  /\ bsw' = [first |-> FirstSlot(FirstSlotIteration),
             second |-> WeightPrefetching(SecondSlotIteration)]
  /\ carried' = Carry(WeightPrefetching(SecondSlotIteration))
  /\ UNCHANGED buffers

(* _run_bubble_phase after the repeats.                                        *)
StartDrain ==
  /\ left = 0 /\ sched.prefetch /\ ~sched.phaseSplit
  /\ repeat = sched.repeats /\ ~Finished
  /\ left' = Bubble
  /\ bsw' = BothSlots(FirstSlot(LastRepeatIteration))
  /\ UNCHANGED <<buffers, repeat, carried>>

RunOneIteration ==
  /\ left > 0
  /\ Iterate(IF ~sched.prefetch THEN StageWeights(loop_iteration)
             ELSE IF OneSlot THEN bsw.first
             ELSE SelectWeights)
  /\ left' = left - 1
  /\ UNCHANGED <<repeat, bsw, carried>>

Done == left = 0 /\ Finished /\ UNCHANGED vars

(* A prologue runs with the weights of the first repeat, which are carried.    *)
Init ==
  /\ BuffersInit
  /\ repeat = 0
  /\ left = IF ~sched.prefetch THEN Microbatches * sched.repeats + Bubble
            ELSE IF sched.phaseSplit THEN Bubble ELSE 0
  /\ bsw = BothSlots(IF sched.phaseSplit THEN WeightPrefetching(0) ELSE Zeros)
  /\ carried = IF sched.phaseSplit THEN Carry(WeightPrefetching(0)) ELSE Zeros

Next == StartRepeat \/ StartDrain \/ RunOneIteration \/ Done
Spec == Init /\ [][Next]_vars

-----------------------------------------------------------------------------
(* Properties                                                                  *)

Activations == [micro : Int, done : Nat]

WeightsOfStages == [Stages -> [holds : None .. LastRepeat, grad : None .. LastRepeat]]

(* The buffers keep their shapes, the slots hold repeats that exist, and the   *)
(* phases add up to the iterations of the pipeline.                            *)
TypeOK ==
  /\ sched \in Schedules
  /\ loop_iteration \in 0 .. TotalIterations
  /\ state_io \in [Stages -> [0 .. sched.perStage - 1 -> Activations]]
  /\ shift \in [Stages -> Activations]
  /\ prev_outputs \in [Stages -> Activations]
  /\ circ_storage \in [0 .. Microbatches - 1 -> Activations]
  /\ circ_storage_mover \in Activations
  /\ Len(sown) = loop_iteration
  /\ repeat \in 0 .. sched.repeats
  /\ bsw \in [first : WeightsOfStages, second : WeightsOfStages]
  /\ carried \in WeightsOfStages
  /\ left \in Nat /\ loop_iteration + left <= TotalIterations

(* The pipeline returns every microbatch at its own place of the batch, after  *)
(* all layers and in their order: what the layers one after the other return   *)
(* (assert_pipeline_matches_sequential_output_and_grad).                       *)
SameAsSequential ==
  Finished =>
    \A s \in Stages, j \in 0 .. sched.perStage - 1 :
      FinalOutput(s, j) = Activation(s * sched.perStage + j, sched.repeats * sched.stages)

(* The metrics reduced for a layer are those that layer sowed for each         *)
(* microbatch, and none of a bubble.                                           *)
MetricsOfTheirLayer ==
  Finished =>
    \A r \in 0 .. LastRepeat, m \in 0 .. Microbatches - 1, s \in Stages :
      /\ PerMicrobatch(r, m, s).micro = m
      /\ PerMicrobatch(r, m, s).layer = r * sched.stages + s

(* The gradient of what a layer did to a microbatch is added to the weights of *)
(* that layer.                                                                 *)
GradientReachesLayer ==
  Finished =>
    \A r \in 0 .. LastRepeat, m \in 0 .. Microbatches - 1, s \in Stages :
      PerMicrobatch(r, m, s).grad = r
=============================================================================
