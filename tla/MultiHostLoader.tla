---------------------------- MODULE MultiHostLoader ----------------------------
(***************************************************************************)
(* MultiHostDataLoadIterator (input_pipeline/multihost_dataloading.py) of  *)
(* one host.  Its local iterator is counted in batches; an iterator is a   *)
(* record                                                                  *)
(*   read    how many local batches were taken                             *)
(*   out     out_of_data                                                   *)
(*   last    whether last_local_data is set                                *)
(*   unread  _reset_and_unread                                             *)
(***************************************************************************)
EXTENDS Integers

(* __init__, over a local iterator restored to `read` batches.                 *)
NewIterator(read) == [read |-> read, out |-> FALSE, last |-> FALSE, unread |-> FALSE]

Reset(it) == [read |-> 0, out |-> FALSE, last |-> FALSE, unread |-> TRUE]

(* __iter__ of a for loop.                                                     *)
Iter(it) == IF it.unread THEN it ELSE Reset(it)

Outcomes == {"batch", "stop", "error"}

(* Mutant: only the first padding batch is made, the next call stops.          *)
PadOnce(it, size, pad) ==
  IF it.read < size THEN "batch"
  ELSE IF ~pad \/ it.out THEN "stop"
  ELSE IF it.last THEN "batch" ELSE "error"

(* What __next__ does with `size` local batches in all: a batch, of zeros if   *)
(* there are no more, StopIteration, or an error for want of a batch to copy.  *)
Outcome(it, size, pad) ==
  IF it.read < size THEN "batch"
  ELSE IF ~pad THEN "stop"
  ELSE IF it.last THEN "batch" ELSE "error"

(* The iterator after it.                                                      *)
Advanced(it, size, pad) ==
  [read   |-> IF it.read < size THEN it.read + 1 ELSE it.read,
   out    |-> it.out \/ (pad /\ it.read >= size),
   last   |-> it.last \/ it.read < size,
   unread |-> FALSE]
=============================================================================
