---------------------------- MODULE MCElasticRetry ----------------------------
(* ElasticRetry on a small jobset.                                             *)
EXTENDS ElasticRetry

CONSTANTS s1, s2, s3

MCSetupOrder == <<"initialize", "mesh", "abstract_model", "train_and_eval_step">>
=============================================================================
