-------------------------- MODULE InflightThrottler --------------------------
(***************************************************************************)
(* training_engine/inflight_throttler.py: a bounded queue of computations  *)
(* dispatched to the device, and the metrics that are written when their   *)
(* computation has finished.  The operators are the methods; the engine    *)
(* that calls them is module TrainingEngine.                               *)
(***************************************************************************)
EXTENDS Integers, Sequences

CONSTANT MaxInflight      \* max_inflight_computations

ASSUME ThrottlerAssumption == MaxInflight \in Nat \ {0}

VARIABLES
  inflight,         \* _inflight_queue: the metrics attached to each computation
  running,          \* how many of them, the youngest, have not finished
  pendingMetrics,   \* _pending_metrics
  log               \* what MetricsLogger.write_metrics was given, oldest first

throttlerVars == <<inflight, running, pendingMetrics, log>>

(* The metrics of train step id: the losses of `losses` micro-batches, for an  *)
(* update that applied `of` of them.                                           *)
Train(id, losses, of) == [mode |-> "train", id |-> id, losses |-> losses, of |-> of]
Eval(id, losses) == [mode |-> "eval", id |-> id, losses |-> losses, of |-> losses]
NoMetrics == [mode |-> "none", id |-> 0, losses |-> 0, of |-> 0]
IsMetrics(m) == m # NoMetrics

ThrottlerInit ==
  /\ inflight = <<>> /\ running = 0
  /\ pendingMetrics = NoMetrics
  /\ log = <<>>

(* _flush_pending_metrics, before and with the metrics ms.                     *)
Flushed(ms) ==
  log \o (IF IsMetrics(pendingMetrics) THEN <<pendingMetrics>> ELSE <<>>) \o ms

AddComputation(m) ==
  /\ Len(inflight) < MaxInflight
  /\ inflight' = Append(inflight, m)
  /\ running' = running + 1
  /\ log' = Flushed(<<>>)
  /\ pendingMetrics' = NoMetrics

(* Mutant: the entry that is popped is not waited for.                         *)
PopWithoutWait ==
  IF Len(inflight) < MaxInflight
    THEN UNCHANGED throttlerVars
    ELSE /\ inflight' = Tail(inflight)
         /\ UNCHANGED running
         /\ IF IsMetrics(Head(inflight))
              THEN log' = Flushed(<<>>) /\ pendingMetrics' = Head(inflight)
              ELSE UNCHANGED <<log, pendingMetrics>>

(* Mutant: the limit is off by one.                                            *)
PopWhenOver ==
  IF Len(inflight) <= MaxInflight
    THEN UNCHANGED throttlerVars
    ELSE /\ running < Len(inflight)
         /\ inflight' = Tail(inflight)
         /\ UNCHANGED running
         /\ IF IsMetrics(Head(inflight))
              THEN log' = Flushed(<<>>) /\ pendingMetrics' = Head(inflight)
              ELSE UNCHANGED <<log, pendingMetrics>>

(* A full queue is popped, once the device is done with its oldest entry.      *)
WaitForNext ==
  IF Len(inflight) < MaxInflight
    THEN UNCHANGED throttlerVars
    ELSE /\ running < Len(inflight)
         /\ inflight' = Tail(inflight)
         /\ UNCHANGED running
         /\ IF IsMetrics(Head(inflight))
              THEN log' = Flushed(<<>>) /\ pendingMetrics' = Head(inflight)
              ELSE UNCHANGED <<log, pendingMetrics>>

(* The places in the queue of the computations that have metrics, in order.    *)
MetricPlaces ==
  {at \in UNION {[1 .. n -> DOMAIN inflight] : n \in 0 .. Len(inflight)} :
     /\ \A j, k \in DOMAIN at : j < k => at[j] < at[k]
     /\ \A i \in DOMAIN inflight :
          IsMetrics(inflight[i]) <=> \E k \in DOMAIN at : at[k] = i}

MetricsAt(at) == [k \in DOMAIN at |-> inflight[at[k]]]

(* Mutant: the last metrics of a drain stay pending.                           *)
DrainKeepsLast ==
  \E at \in MetricPlaces :
    LET ms == MetricsAt(at)
        n == Len(ms)
    IN /\ running = 0
       /\ inflight' = <<>>
       /\ IF n = 0
            THEN UNCHANGED <<log, pendingMetrics>>
            ELSE log' = Flushed(SubSeq(ms, 1, n - 1)) /\ pendingMetrics' = ms[n]
       /\ UNCHANGED running

(* Everything in the queue is waited for; nothing is left pending.             *)
WaitForAll ==
  /\ running = 0
  /\ inflight' = <<>>
  /\ \E at \in MetricPlaces : log' = Flushed(MetricsAt(at))
  /\ pendingMetrics' = NoMetrics
  /\ UNCHANGED running

(* The device runs what it is given in order.                                  *)
DeviceFinishes ==
  /\ running > 0
  /\ running' = running - 1
  /\ UNCHANGED <<inflight, pendingMetrics, log>>

(* The process is gone.  The log is on its way to TensorBoard already.         *)
LoseInflight ==
  /\ inflight' = <<>> /\ running' = 0
  /\ pendingMetrics' = NoMetrics
=============================================================================
