------------------------------- MODULE Backups -------------------------------
(***************************************************************************)
(* Vocabulary shared by the two places MaxText backs a training run up to: *)
(* the persistent checkpoints and the in-memory snapshots.                 *)
(*                                                                         *)
(* A backup of step s is the train state produced by step s together with  *)
(* the position of the data iterator at that moment.  The payload is       *)
(* reduced to those two numbers: a run that restores the backup has        *)
(* completed s + 1 steps, and has to read the batch at the position next.  *)
(***************************************************************************)
EXTENDS Integers

Backup == [step : Nat, pos : Nat]

(* There is no backup to restore: training starts from the initial state.  *)
Scratch == [step |-> -1, pos |-> 0]

BackupOrScratch == Backup \cup {Scratch}

(* The number of completed steps a run has after restoring backup b.       *)
Completed(b) == b.step + 1

(* The later of two backups; ties go to the first.                         *)
Later(a, b) == IF b.step > a.step THEN b ELSE a
=============================================================================
