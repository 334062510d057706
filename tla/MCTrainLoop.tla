------------------------------ MODULE MCTrainLoop ------------------------------
(* TrainLoop on two hosts and every combination of a few short jobs.           *)
EXTENDS TrainLoop, TLC

CONSTANTS h1, h2

MCHosts == {h1, h2}
Data(a, b) == (h1 :> a) @@ (h2 :> b)

(* When it evaluates: never, each step from the first, each second step.       *)
Schedules == {<<0, 0>>, <<1, 0>>, <<2, 1>>}

(* Training data that lasts, runs out, or lasts on no host (padding).          *)
TrainSets ==
  {[pad |-> FALSE, data |-> Data(4, 4)], [pad |-> FALSE, data |-> Data(3, 3)],
   [pad |-> TRUE, data |-> Data(2, 3)]}

(* Evaluations of all data, of the first batch, with padding from one host or  *)
(* both, with a host that has no batch to copy, and of no data at all.         *)
EvalSets ==
  {[steps |-> 0, pad |-> FALSE, data |-> Data(2, 2)],
   [steps |-> 1, pad |-> FALSE, data |-> Data(2, 2)],
   [steps |-> 3, pad |-> TRUE, data |-> Data(1, 2)],
   [steps |-> 2, pad |-> TRUE, data |-> Data(0, 2)],
   [steps |-> 0, pad |-> FALSE, data |-> Data(0, 0)]}

(* What happens: nothing, a NaN loss at a step, or the target at a step.       *)
Events == {[nan |-> 9, target |-> 9], [nan |-> 0, target |-> 9], [nan |-> 2, target |-> 9],
           [nan |-> 3, target |-> 9], [nan |-> 9, target |-> 1], [nan |-> 2, target |-> 3]}

MCJobs ==
  {[steps |-> 4, start |-> s, evalInterval |-> e[1], evalStart |-> e[2],
    evalSteps |-> v.steps, padEval |-> v.pad, evalData |-> v.data,
    padTrain |-> t.pad, trainData |-> t.data, logPeriod |-> p, mllog |-> m,
    nan |-> o.nan, target |-> o.target] :
     s \in {0, 1}, e \in Schedules, v \in EvalSets, t \in TrainSets, p \in {2, 3},
     m \in BOOLEAN, o \in Events}
=============================================================================
