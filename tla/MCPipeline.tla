------------------------------ MODULE MCPipeline ------------------------------
(* Every schedule of either pipeline up to some sizes.                         *)
EXTENDS Pipeline

CONSTANTS MaxStages, MaxPerStage, MaxRepeats

Shapes ==
  [stages : 2 .. MaxStages, perStage : 1 .. MaxPerStage, repeats : 1 .. MaxRepeats,
   delay : {1, 2}, prefetch : BOOLEAN, noCarry : BOOLEAN, phaseSplit : BOOLEAN]

(* NNXPipeline; noCarry is on by default, and has nothing to do there.         *)
Plain(c) == ~c.prefetch /\ c.noCarry /\ ~c.phaseSplit /\ c.perStage >= c.delay

(* NNXCircularPipeline.                                                        *)
Prefetching(c) == c.prefetch /\ c.repeats > 1 /\ c.delay = 1

MCSchedules == {c \in Shapes : Plain(c) \/ Prefetching(c)}
=============================================================================
