--------------------------- MODULE MCTrainingEngine ---------------------------
(* TrainingEngine on a run of a few small steps.                               *)
EXTENDS TrainingEngine
=============================================================================
