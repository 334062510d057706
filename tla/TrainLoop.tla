------------------------------- MODULE TrainLoop -------------------------------
(***************************************************************************)
(* The training loop of trainers/pre_train/train.py with its evaluations,  *)
(* as every host runs it: the hosts fetch batches by themselves and meet   *)
(* in each train and eval step; the metrics of a step go through the       *)
(* deferred queue of common/metric_logger.py to the files and to the       *)
(* submission log.  Checkpoints, snapshots and retries are those of        *)
(* ElasticTraining; a job that resumes starts at a later step here.        *)
(***************************************************************************)
EXTENDS MultiHostLoader, SubmissionLog, FiniteSets

CONSTANTS
  Hosts,
  Jobs      \* the configurations, and how many batches each host has

(* A job: steps, start, evalInterval (0: never), evalStart, evalSteps (0: to   *)
(* the end of the data), logPeriod, mllog, padTrain, padEval, trainData,       *)
(* evalData; and what happens in it: nan, the step whose loss is not a number, *)
(* and target, the step whose evaluation reaches target_eval_loss.  Hosts with *)
(* different numbers of batches need padding, or they part in a step.          *)
ASSUME JobsAssumption ==
  /\ IsFiniteSet(Hosts) /\ Hosts # {}
  /\ \A j \in Jobs :
       /\ {j.steps, j.start, j.evalInterval, j.evalStart, j.evalSteps, j.nan, j.target} \subseteq Nat
       /\ j.start < j.steps /\ j.logPeriod \in Nat \ {0}
       /\ {j.mllog, j.padTrain, j.padEval} \subseteq BOOLEAN
       /\ j.trainData \in [Hosts -> Nat] /\ j.evalData \in [Hosts -> Nat]
       /\ j.evalInterval > 0 /\ j.padEval => j.evalSteps > 0    \* types.py
       /\ j.padTrain \/ \A g, h \in Hosts : j.trainData[g] = j.trainData[h]
       /\ j.padEval \/ \A g, h \in Hosts : j.evalData[g] = j.evalData[h]

VARIABLES
  job,
  trainIt, evalIt,     \* the iterators of each host
  at,                  \* where each host is in the loop over an iterator
  phase,
  step,                \* python_vars["step"]
  evalCount,           \* eval_step_count
  graceful,            \* _job_completed_gracefully
  logger,              \* the metric logger of process 0
  mllog                \* the submission log

vars == <<job, trainIt, evalIt, at, phase, step, evalCount, graceful, logger, mllog>>

-----------------------------------------------------------------------------
(* MetricLogger                                                                *)
(*   buffered    buffered_metrics                                              *)
(*   pending     _pending_eval_step_count                                      *)
(*   cumulative  the eval steps summed in cumulative_eval_metrics              *)
(*   running     running_gcs_metrics                                           *)
(*   written     what write_metrics was given; local: metrics_file;            *)
(*   gcs         the files in metrics_dir, by their names                      *)
(*   abort       sys.exit(1) was called; stop: StopTraining was raised         *)

NewLogger ==
  [buffered |-> <<>>, pending |-> 0, cumulative |-> {}, running |-> <<>>,
   written |-> <<>>, local |-> <<>>, gcs |-> <<>>, abort |-> FALSE, stop |-> FALSE]

(* Mutant: the rest of the last period is not uploaded.                        *)
PeriodEnds(w) == w.type = "train" /\ (w.step + 1) % job.logPeriod = 0

UploadDue(w) ==
  \/ w.type = "train" /\ (w.step + 1) % job.logPeriod = 0
  \/ w.step = job.steps - 1

(* write_metrics_for_gcs names a file by the first step of the period and the  *)
(* step it is written at.                                                      *)
WriteForGcs(l, w) ==
  LET running == Append(l.running, w)
      name == <<(w.step \div job.logPeriod) * job.logPeriod, w.step>>
      files == [f \in {name} \cup DOMAIN l.gcs |-> IF f = name THEN running ELSE l.gcs[f]]
  IN IF UploadDue(w) THEN [l EXCEPT !.running = <<>>, !.gcs = files]
       ELSE [l EXCEPT !.running = running]

(* write_metrics: step 0 truncates the local file, whatever it is a step of.   *)
WriteMetrics(l, w) ==
  [WriteForGcs(l, w) EXCEPT
     !.written = Append(@, w),
     !.local = Append(IF w.step = 0 THEN <<>> ELSE @, w),
     !.abort = (w.type = "train" /\ w.step = job.nan)]

TrainEntry(s) == [kind |-> "train", step |-> s, after |-> s]
EvalEntry(s, after) == [kind |-> "eval", step |-> s, after |-> after]
Written(type, s, of) == [type |-> type, step |-> s, of |-> of]

FlushOne(l, e) ==
  IF e.kind = "train"
    THEN WriteMetrics(l, Written("train", e.step, {}))
    ELSE LET sum == l.cumulative \cup {[after |-> e.after, batch |-> e.step]}
         IN WriteMetrics([l EXCEPT !.cumulative = sum], Written("running_eval", e.step, sum))

(* tracked_stats follows the writing of a train step that did not abort.       *)
Stats(m, l, e) ==
  IF job.mllog /\ e.kind = "train" /\ ~l.abort THEN TrackedStats(m, e.step + 1) ELSE m

(* Mutant: the entry is written and stays in the queue.                        *)
FlushedKept(l, m) ==
  IF l.buffered = <<>> THEN <<l, m>>
  ELSE LET f == FlushOne(l, Head(l.buffered))
       IN <<f, Stats(m, f, Head(l.buffered))>>

(* A logger with its log after the entry that waited was written.              *)
Flushed(l, m) ==
  IF l.buffered = <<>> THEN <<l, m>>
  ELSE LET e == Head(l.buffered)
           f == FlushOne([l EXCEPT !.buffered = Tail(@)], e)
       IN <<f, Stats(m, f, e)>>

BufferEval(l, m, e) ==
  LET f == Flushed(l, m)
  IN IF f[1].abort THEN f
     ELSE <<[f[1] EXCEPT !.pending = @ + 1, !.buffered = Append(@, e)], f[2]>>

Finalized(l, m, s) ==
  LET target == s = job.target
      w == WriteMetrics([l EXCEPT !.pending = 0, !.stop = target],
                        Written("eval", s, l.cumulative))
  IN <<w, IF job.mllog THEN EvalStop(m, s + 1, job.steps, target) ELSE m>>

(* Mutant: a step without an evaluation always waits for the next call.        *)
FlushNowAfterEval(l) == l.pending > 0

(* Whether the metrics of a train step are written at once.                    *)
FlushNow(l) == l.pending > 0 \/ job.mllog

(* buffer_and_write_metrics of a train step, after which pending is 0.         *)
BufferTrain(l, m, s) ==
  LET f == Flushed(l, m)
      b == [f[1] EXCEPT !.buffered = Append(@, TrainEntry(s))]
      g == IF FlushNow(b) THEN Flushed(b, f[2]) ELSE <<b, f[2]>>
  IN IF f[1].abort THEN f
     ELSE IF g[1].abort \/ g[1].pending = 0 THEN g
     ELSE Finalized(g[1], g[2], s)

(* Mutant: what the last evaluation summed is kept.                            *)
KeepEvalMetrics(l) == [l EXCEPT !.pending = 0]

ResetEvalMetrics(l) == [l EXCEPT !.cumulative = {}, !.pending = 0]

-----------------------------------------------------------------------------
(* The loop                                                                    *)

(* The iterators of a job that starts or resumes at step `start`.              *)
TrainIterators(j) ==
  [h \in Hosts |-> NewIterator(IF j.start < j.trainData[h] THEN j.start ELSE j.trainData[h])]

Init ==
  /\ job \in Jobs
  /\ trainIt = TrainIterators(job)
  /\ evalIt = [h \in Hosts |-> NewIterator(0)]
  /\ at = [h \in Hosts |-> "load"]
  /\ phase = "train" /\ step = job.start
  /\ evalCount = 0 /\ graceful = FALSE
  /\ logger = NewLogger
  /\ mllog = IF job.mllog THEN NewLog(job.start) ELSE NoLog

Everywhere(place) == \A h \in Hosts : at[h] = place

(* load_next_batch on one host: the guard of the loader turns every failure    *)
(* into StopTraining.                                                          *)
LoadTrain(h) ==
  /\ phase = "train" /\ at[h] = "load"
  /\ LET o == Outcome(trainIt[h], job.trainData[h], job.padTrain)
     IN at' = [at EXCEPT ![h] = IF o = "batch" THEN "batch" ELSE "out"]
  /\ trainIt' = [trainIt EXCEPT ![h] = Advanced(@, job.trainData[h], job.padTrain)]
  /\ UNCHANGED <<job, evalIt, phase, step, evalCount, graceful, logger, mllog>>

RanEval(s) ==
  /\ job.evalInterval > 0 /\ s >= job.start /\ s >= job.evalStart
  /\ (s - job.evalStart) % job.evalInterval = 0

(* The train step, which needs every host, and up to the evaluation's loop.    *)
TrainStep ==
  /\ phase = "train" /\ Everywhere("batch")
  /\ at' = [h \in Hosts |-> "load"]
  /\ IF RanEval(step)
       THEN /\ phase' = "eval" /\ evalCount' = 0
            /\ evalIt' = [h \in Hosts |-> Iter(Reset(evalIt[h]))]
            /\ logger' = ResetEvalMetrics(logger)
            /\ mllog' = IF job.mllog THEN EvalStart(mllog, step + 1) ELSE mllog
       ELSE phase' = "report" /\ UNCHANGED <<evalIt, evalCount, logger, mllog>>
  /\ UNCHANGED <<job, trainIt, step, graceful>>

LoaderStops ==
  /\ phase = "train" /\ Everywhere("out")
  /\ phase' = "final" /\ graceful' = TRUE
  /\ UNCHANGED <<job, trainIt, evalIt, at, step, evalCount, logger, mllog>>

LoadEval(h) ==
  /\ phase = "eval" /\ at[h] = "load"
  /\ LET o == Outcome(evalIt[h], job.evalData[h], job.padEval)
     IN at' = [at EXCEPT ![h] = CASE o = "batch" -> "batch" [] o = "stop" -> "out"
                                  [] o = "error" -> "failed"]
  /\ evalIt' = [evalIt EXCEPT ![h] = Advanced(@, job.evalData[h], job.padEval)]
  /\ UNCHANGED <<job, trainIt, phase, step, evalCount, graceful, logger, mllog>>

(* The loop breaks before it fetches a batch that nobody needs.                *)
Enough(n) == 0 < job.evalSteps /\ job.evalSteps <= n

EvalStep ==
  /\ phase = "eval" /\ Everywhere("batch")
  /\ LET f == BufferEval(logger, mllog, EvalEntry(evalCount, step))
     IN /\ logger' = f[1] /\ mllog' = f[2]
        /\ phase' = IF f[1].abort THEN "final" ELSE phase
  /\ evalCount' = evalCount + 1
  /\ at' = [h \in Hosts |-> IF Enough(evalCount') THEN "out" ELSE "load"]
  /\ UNCHANGED <<job, trainIt, evalIt, step, graceful>>

EvalEnds ==
  /\ phase = "eval" /\ Everywhere("out")
  /\ phase' = "report"
  /\ at' = [h \in Hosts |-> "load"]
  /\ UNCHANGED <<job, trainIt, evalIt, step, evalCount, graceful, logger, mllog>>

(* A host that has no batch to copy raises; its failure ends the others.       *)
EvalFails ==
  /\ phase = "eval" /\ \E h \in Hosts : at[h] = "failed"
  /\ phase' = "final"
  /\ UNCHANGED <<job, trainIt, evalIt, at, step, evalCount, graceful, logger, mllog>>

(* The rest of the iteration.                                                  *)
Report ==
  /\ phase = "report"
  /\ LET f == BufferTrain(logger, mllog, step)
         next == step + 1
     IN /\ logger' = f[1]
        /\ IF f[1].abort \/ f[1].stop
             THEN /\ mllog' = f[2] /\ step' = step
                  /\ phase' = "final" /\ graceful' = f[1].stop
             ELSE /\ mllog' = IF job.mllog /\ ~RanEval(step)
                               THEN StepEnd(f[2], next, job.steps) ELSE f[2]
                  /\ step' = next
                  /\ phase' = IF next < job.steps THEN "train" ELSE "final"
                  /\ graceful' = (next = job.steps)
  /\ UNCHANGED <<job, trainIt, evalIt, at, evalCount>>

(* Mutant: what is still buffered is dropped.                                  *)
CleanUpDrops(l, m) == <<[l EXCEPT !.buffered = <<>>], m>>

CleanUp(l, m) == Flushed(l, m)

(* The finally clause; sys.exit in it, or before it, fails the process.        *)
Finish ==
  /\ phase = "final"
  /\ LET f == CleanUp(logger, mllog)
     IN /\ logger' = f[1]
        /\ phase' = IF graceful /\ ~f[1].abort THEN "ended" ELSE "aborted"
        /\ mllog' = IF phase' = "ended" /\ job.mllog THEN RunStop(f[2], step) ELSE f[2]
  /\ UNCHANGED <<job, trainIt, evalIt, at, step, evalCount, graceful>>

Done == phase \in {"ended", "aborted"} /\ UNCHANGED vars

(* What all hosts do together, with the logger of process 0.                   *)
Together ==
  TrainStep \/ LoaderStops \/ EvalStep \/ EvalEnds \/ EvalFails \/ Report \/ Finish

Next ==
  \/ \E h \in Hosts : LoadTrain(h) \/ LoadEval(h)
  \/ Together
  \/ Done

Spec == Init /\ [][Next]_vars

(* Every host fetches its batches by itself; a step that all are ready for is  *)
(* run by the devices.                                                         *)
Fairness ==
  /\ \A h \in Hosts : WF_vars(LoadTrain(h) \/ LoadEval(h))
  /\ WF_vars(Together)

FairSpec == Spec /\ Fairness

-----------------------------------------------------------------------------
(* Properties                                                                  *)

(* The steps whose metrics the loop has handed to the logger.                  *)
Reported == job.start .. (IF logger.stop THEN step ELSE step - 1)

(* How many batches an evaluation of this job has.                             *)
Batches ==
  LET data == job.evalData[CHOOSE h \in Hosts : TRUE]
  IN IF job.evalSteps > 0 /\ (job.padEval \/ job.evalSteps < data) THEN job.evalSteps
     ELSE data

(* The steps whose metrics wait in the queue.                                  *)
Waiting ==
  {logger.buffered[i].step :
     i \in {k \in 1 .. Len(logger.buffered) : logger.buffered[k].kind = "train"}}

WrittenSteps ==
  {logger.written[i].step :
     i \in {k \in 1 .. Len(logger.written) : logger.written[k].type = "train"}}

(* The metrics of every step are written exactly once and in the order of the  *)
(* steps, whatever stands between them in the one-entry queue, and a job that  *)
(* ends has written those of its last step.                                    *)
MetricsWrittenOnce ==
  /\ \A i, k \in 1 .. Len(logger.written) :
       (i < k /\ logger.written[i].type = "train" /\ logger.written[k].type = "train") =>
         logger.written[i].step < logger.written[k].step
  /\ ~logger.abort => WrittenSteps \cup Waiting = Reported
  /\ \A s \in WrittenSteps, t \in Waiting : s < t
  /\ phase = "ended" => WrittenSteps = Reported

(* The summaries of evaluations, by their places in what was written.          *)
Summaries == {i \in 1 .. Len(logger.written) : logger.written[i].type = "eval"}

(* The summary of an evaluation, written with the step it followed, sums each  *)
(* batch of that evaluation once and nothing of another; every evaluation the  *)
(* loop is past has one, in their order, if it had a batch.                    *)
EvalOfItsStep ==
  /\ \A i \in Summaries :
       logger.written[i].of =
         {[after |-> logger.written[i].step, batch |-> b] : b \in 0 .. Batches - 1}
  /\ \A i, k \in Summaries : i < k => logger.written[i].step < logger.written[k].step
  /\ {logger.written[i].step : i \in Summaries} =
       {s \in Reported : RanEval(s) /\ Batches > 0}

(* What may come next in the submission log, but for tracked_stats.            *)
Follows(a, b) ==
  \/ a.key = "block_start" /\ b.key = "block_stop" /\ b.step \in {a.step, a.step + 1}
  \/ a.key = "block_stop" /\ b.key \in {"block_start", "eval_start", "run_stop"}
                          /\ b.step = a.step
  \/ a.key = "eval_start" /\ b.key = "eval_stop" /\ b.step = a.step
  \/ a.key = "eval_stop" /\ b.key \in {"block_start", "run_stop"} /\ b.step = a.step

(* Where the stats of a step may stand: in its block or its evaluation.        *)
Holds(a, t) ==
  \/ a.key = "block_start" /\ t.step = a.step + 1
  \/ a.key = "eval_start" /\ t.step = a.step

(* The places of the submission log: the tracked_stats, the frame they stand   *)
(* in, and for each place the one of the frame before it.                      *)
Tracked == {i \in DOMAIN mllog.events : mllog.events[i].key = "tracked_stats"}
Frame == DOMAIN mllog.events \ Tracked
Precedes(i, k) == i \in Frame /\ i < k /\ \A j \in i + 1 .. k - 1 : j \in Tracked

(* The submission log alternates blocks, evaluations and the one run_stop, and *)
(* the tracked_stats of every step come once, as soon as it is reported and    *)
(* inside its own block or evaluation. An evaluation without a batch would     *)
(* never stop.                                                                 *)
LogWellFormed ==
  job.mllog /\ (job.evalInterval > 0 => Batches > 0) =>
    /\ 1 \in Frame
    /\ \A i, k \in DOMAIN mllog.events : Precedes(i, k) =>
         IF k \in Frame THEN Follows(mllog.events[i], mllog.events[k])
         ELSE Holds(mllog.events[i], mllog.events[k])
    /\ \A i, k \in Tracked : i < k => mllog.events[i].step < mllog.events[k].step
    /\ {mllog.events[i].step : i \in Tracked} = {s + 1 : s \in Reported}
    /\ phase = "ended" => \E i \in Frame : mllog.events[i].key = "run_stop"

(* A loss that is not a number ends the process with a failure: at the latest  *)
(* when the metrics of the next step arrive, and also if there is none.        *)
NanAborts ==
  /\ step <= job.nan + 1 \/ job.nan < job.start
  /\ phase = "ended" => job.nan \notin Reported

(* Everything a job wrote is in a file of metrics_dir when its steps are done, *)
(* the last short period too.  Not so if the last step is evaluated, if an     *)
(* evaluation is as long as the job, or if the job stops early.                *)
GcsComplete ==
  (/\ phase = "ended" /\ step = job.steps /\ ~RanEval(job.steps - 1)
   /\ Batches < job.steps) =>
     {logger.written[i] : i \in 1 .. Len(logger.written)} =
       UNION {{logger.gcs[f][i] : i \in 1 .. Len(logger.gcs[f])} : f \in DOMAIN logger.gcs}

(* No host waits for another for ever.                                         *)
Termination == <>(phase \in {"ended", "aborted"})
=============================================================================
