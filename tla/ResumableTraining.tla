-------------------------- MODULE ResumableTraining --------------------------
(***************************************************************************)
(* What an elastic training run promises, whatever happens to its slices:  *)
(* a run moves forward one step at a time; an interruption takes it back   *)
(* no further than the newest complete checkpoint, and never to a state it *)
(* has not trained; and the checkpointed progress is never taken back.     *)
(***************************************************************************)
EXTENDS Integers

CONSTANT Steps      \* the number of steps of the run

VARIABLES
  trained,   \* the steps the current train state has done
  durable,   \* the steps the newest complete checkpoint has done
  peak,      \* the most steps any train state of this run has done
  phase      \* "down" between attempts, "up" in one, "over" after the last

vars == <<trained, durable, peak, phase>>

Init == trained = 0 /\ durable = 0 /\ peak = 0 /\ phase = "down"

Resume ==
  /\ phase = "down" /\ phase' = "up"
  /\ trained' \in durable .. peak
  /\ trained' < Steps
  /\ UNCHANGED <<durable, peak>>

Train ==
  /\ phase = "up" /\ trained < Steps
  /\ trained' = trained + 1
  /\ peak' = IF trained' > peak THEN trained' ELSE peak
  /\ UNCHANGED <<durable, phase>>

(* A checkpoint becomes complete, maybe long after it was started.             *)
Persist ==
  /\ durable' \in durable + 1 .. peak
  /\ UNCHANGED <<trained, peak, phase>>

Interrupt ==
  /\ phase = "up" /\ phase' = "down"
  /\ UNCHANGED <<trained, durable, peak>>

End ==
  /\ phase # "over" /\ phase' = "over"
  /\ UNCHANGED <<trained, durable, peak>>

Next == Resume \/ Train \/ Persist \/ Interrupt \/ End

Spec == Init /\ [][Next]_vars
=============================================================================
