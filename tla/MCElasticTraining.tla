-------------------------- MODULE MCElasticTraining --------------------------
(* Instances of ElasticTraining for TLC.                                       *)
EXTENDS ElasticTraining, TLC

(* Slices are interchangeable; only the runs without liveness use this.        *)
SliceSymmetry == Permutations(Slices)
=============================================================================
