----------------------------- MODULE SubmissionLog -----------------------------
(***************************************************************************)
(* utils/mllog_utils.py on process 0: the events of an MLPerf submission   *)
(* log.  A log is a record                                                 *)
(*   events   what was emitted, without the events of initialisation       *)
(*   open     _open_block: whether a block is open                         *)
(*   stopped  _run_stopped                                                 *)
(* and the operators are the functions, from a log to the next; the caller *)
(* passes logs through unchanged when enable_mllog is off.                 *)
(***************************************************************************)
EXTENDS Integers, Sequences

Emit(m, key, step) == [m EXCEPT !.events = Append(@, [key |-> key, step |-> step])]

BlockStart(m, step) == [Emit(m, "block_start", step) EXCEPT !.open = TRUE]

BlockStop(m, step) ==
  IF m.open THEN [Emit(m, "block_stop", step) EXCEPT !.open = FALSE] ELSE m

NoLog == [events |-> <<>>, open |-> FALSE, stopped |-> FALSE]

(* run_start and the first block_start of start_run_clock.                     *)
NewLog(step) == BlockStart(NoLog, step)

StepEnd(m, step, steps) ==
  IF step < steps THEN BlockStart(BlockStop(m, step), step) ELSE BlockStop(m, step)

EvalStart(m, step) == Emit(BlockStop(m, step), "eval_start", step)

(* Only the first call takes effect.                                           *)
RunStop(m, step) ==
  IF m.stopped THEN m
  ELSE [Emit(BlockStop(m, step), "run_stop", step) EXCEPT !.stopped = TRUE]

(* The target was reached, the budget is exhausted, or the next block opens.   *)
EvalStop(m, step, steps, target) ==
  LET e == Emit(m, "eval_stop", step)
  IN IF target \/ step >= steps THEN RunStop(e, step) ELSE BlockStart(e, step)

TrackedStats(m, step) == Emit(m, "tracked_stats", step)
=============================================================================
