------------------------------- MODULE MCRampUp -------------------------------
(* RampUp on ramps whose stages end on a step, between two steps, and inside   *)
(* and at the end of a load.                                                   *)
EXTENDS RampUp

MCSchedules ==
  {[start |-> 1, increment |-> 1, end |-> 3, samples |-> 6],
   [start |-> 2, increment |-> 1, end |-> 4, samples |-> 7],
   [start |-> 1, increment |-> 2, end |-> 5, samples |-> 4],
   [start |-> 2, increment |-> 3, end |-> 5, samples |-> 5]}
=============================================================================
