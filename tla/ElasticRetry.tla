----------------------------- MODULE ElasticRetry -----------------------------
(***************************************************************************)
(* elastic_retry of utils/elastic_utils.py around train.py's attempts: the *)
(* RetryCache an attempt takes its setup objects from, what goodput is     *)
(* told about each interruption, and the state one run leaves for the next *)
(* one in the same process.  What an attempt does between setup and its    *)
(* end is module ElasticTraining.                                          *)
(***************************************************************************)
EXTENDS Integers, FiniteSets, Sequences

CONSTANTS
  Slices,
  MinSlices,     \* slices an attempt waits for
  MaxRetries,    \* attempts of one run
  MaxRuns,       \* bound: runs of the decorated function
  SetupOrder     \* the cached objects, in the order an attempt asks for them

ASSUME RetryAssumption ==
  /\ IsFiniteSet(Slices)
  /\ MinSlices \in 1 .. Cardinality(Slices)
  /\ MaxRetries \in Nat \ {0}
  /\ MaxRuns \in Nat
  /\ SetupOrder \in Seq(STRING)

Objects == {SetupOrder[i] : i \in 1 .. Len(SetupOrder)}

(* What an object was built for.                                               *)
Versions == [slices : SUBSET Slices, run : 0 .. MaxRuns]
NotBuilt == [slices |-> {}, run |-> 0]

VARIABLES
  alive, active, lost,           \* as in ElasticTraining
  enabled, cacheSlices, values,  \* RetryCache; cacheSlices is {} for None
  used,                          \* the objects of the current attempt
  builds,                        \* how often the attempts of this run that used
                                 \* the present slices in a row built each object
  scaleUp,                       \* _AttemptOutcome.scale_up
  pendingEvent,                  \* pending_elastic_event_type
  pendingReinit,                 \* pending_reinit_recorder is set
  spans,                         \* the spans goodput has a start but no end of
  cause,                         \* what interrupted the last attempt
  run, attempt, pc

cacheVars == <<enabled, cacheSlices, values>>
setupVars == <<used, builds>>
goodputVars == <<pendingEvent, pendingReinit, spans>>
envVars == <<alive, active, lost>>
vars == <<envVars, cacheVars, setupVars, goodputVars, scaleUp, cause, run, attempt, pc>>

Interruptions == {"elastic_slice_down", "elastic_scale_up"}

TypeOK ==
  /\ alive \subseteq Slices /\ active \subseteq Slices
  /\ lost \in BOOLEAN /\ enabled \in BOOLEAN
  /\ scaleUp \in BOOLEAN /\ pendingReinit \in BOOLEAN
  /\ cacheSlices \subseteq Slices
  /\ values \in [Objects -> Versions] /\ used \in [Objects -> Versions]
  /\ builds \in [Objects -> 0 .. MaxRetries]
  /\ pendingEvent \in Interruptions \cup {"none"}
  /\ cause \in Interruptions \cup {"none"}
  /\ spans \subseteq Interruptions \cup {"reinit"}
  /\ run \in 0 .. MaxRuns
  /\ attempt \in 1 .. MaxRetries
  /\ pc \in {"idle", "wait", "setup", "training", "event"}

None == [o \in Objects |-> NotBuilt]

Init ==
  /\ alive \in SUBSET Slices
  /\ active = {} /\ lost = FALSE
  /\ enabled = FALSE /\ cacheSlices = {} /\ values = None
  /\ used = None /\ builds = [o \in Objects |-> 0]
  /\ scaleUp = FALSE /\ cause = "none"
  /\ pendingEvent = "none" /\ pendingReinit = FALSE /\ spans = {}
  /\ run = 0 /\ attempt = 1 /\ pc = "idle"

-----------------------------------------------------------------------------
(* RetryCache                                                                  *)

Reset(on) ==
  /\ enabled' = on
  /\ cacheSlices' = {}
  /\ values' = None

(* Mutant: only growing invalidates the cache.                                 *)
ClearIfSlicesGrow(slices) ==
  /\ cacheSlices' = slices
  /\ values' = IF slices \subseteq cacheSlices THEN values ELSE None
  /\ UNCHANGED enabled

(* Mutant: every attempt starts with an empty cache.                           *)
ClearAlways(slices) ==
  /\ cacheSlices' = slices
  /\ values' = None
  /\ UNCHANGED enabled

ClearIfSlicesChanged(slices) ==
  /\ cacheSlices' = slices
  /\ values' = IF slices = cacheSlices THEN values ELSE None
  /\ UNCHANGED enabled

Contains(o) == enabled /\ values[o] # NotBuilt

-----------------------------------------------------------------------------
(* The slices.                                                                 *)

SliceDies(s) ==
  /\ s \in alive
  /\ alive' = alive \ {s}
  /\ lost' = (lost \/ s \in active)
  /\ UNCHANGED <<active, cacheVars, setupVars, goodputVars, scaleUp, cause, run,
                 attempt, pc>>

SliceReturns(s) ==
  /\ s \notin alive
  /\ alive' = alive \cup {s}
  /\ UNCHANGED <<active, lost, cacheVars, setupVars, goodputVars, scaleUp, cause,
                 run, attempt, pc>>

-----------------------------------------------------------------------------
(* One run: wrapper of elastic_retry.                                          *)

StartRun ==
  /\ pc = "idle" /\ run < MaxRuns
  /\ Reset(TRUE)
  /\ run' = run + 1 /\ attempt' = 1 /\ cause' = "none" /\ pc' = "wait"
  /\ UNCHANGED <<envVars, setupVars, goodputVars, scaleUp>>

(* Mutant: the outcome outlives the run.                                       *)
EndRunKeepsOutcome ==
  /\ Reset(FALSE)
  /\ pc' = "idle"
  /\ UNCHANGED <<envVars, setupVars, goodputVars, scaleUp, cause, run, attempt>>

(* The finally block, however the run ended.                                   *)
EndRun ==
  /\ Reset(FALSE)
  /\ scaleUp' = FALSE
  /\ pc' = "idle"
  /\ UNCHANGED <<envVars, setupVars, goodputVars, cause, run, attempt>>

(* Mutant: the recorder to close the reinit span with is not remembered.       *)
WaitEndForgetsRecorder ==
  IF pendingEvent = "none"
    THEN UNCHANGED goodputVars
    ELSE /\ pendingEvent' = "none"
         /\ spans' = (spans \ {pendingEvent}) \cup {"reinit"}
         /\ UNCHANGED pendingReinit

(* record_elastic_wait_end_and_reinit_start                                    *)
WaitEndAndReinitStart ==
  IF pendingEvent = "none"
    THEN UNCHANGED goodputVars
    ELSE /\ pendingEvent' = "none"
         /\ spans' = (spans \ {pendingEvent}) \cup {"reinit"}
         /\ pendingReinit' = TRUE

(* The manager has enough slices: effective_pre_callback, then the attempt.    *)
SlicesReady ==
  /\ pc = "wait" /\ Cardinality(alive) >= MinSlices
  /\ active' = alive /\ lost' = FALSE
  /\ ClearIfSlicesChanged(alive)
  /\ WaitEndAndReinitStart
  /\ used' = None
  /\ builds' = IF attempt > 1 /\ alive = active THEN builds ELSE [o \in Objects |-> 0]
  /\ pc' = "setup"
  /\ UNCHANGED <<alive, scaleUp, cause, run, attempt>>

WaitTimesOut ==
  /\ pc = "wait" /\ Cardinality(alive) < MinSlices
  /\ EndRun

(* get_or_build, for each object of the setup in turn.                         *)
GetOrBuild(i) ==
  LET o == SetupOrder[i]
      built == [slices |-> active, run |-> run]
  IN  /\ pc = "setup"
      /\ used[o] = NotBuilt
      /\ \A j \in 1 .. i - 1 : used[SetupOrder[j]] # NotBuilt
      /\ IF Contains(o)
           THEN used' = [used EXCEPT ![o] = values[o]] /\ UNCHANGED <<values, builds>>
           ELSE /\ used' = [used EXCEPT ![o] = built]
                /\ values' = IF enabled THEN [values EXCEPT ![o] = built] ELSE values
                /\ builds' = [builds EXCEPT ![o] = @ + 1]
      /\ UNCHANGED <<envVars, enabled, cacheSlices, goodputVars, scaleUp, cause,
                     run, attempt, pc>>

(* record_elastic_reinit_end, right before the loop.                           *)
TrainStarts ==
  /\ pc = "setup"
  /\ \A o \in Objects : used[o] # NotBuilt
  /\ spans' = IF pendingReinit THEN spans \ {"reinit"} ELSE spans
  /\ pendingReinit' = FALSE
  /\ pc' = "training"
  /\ UNCHANGED <<envVars, cacheVars, setupVars, pendingEvent, scaleUp, cause, run,
                 attempt>>

SliceDown ==
  /\ pc \in {"setup", "training"} /\ lost
  /\ cause' = "elastic_slice_down" /\ pc' = "event"
  /\ UNCHANGED <<envVars, cacheVars, setupVars, goodputVars, scaleUp, run, attempt>>

(* ScaleUpSignalError passes through attempt().                                *)
ScaleUp ==
  /\ pc = "training" /\ alive \ active # {}
  /\ cause' = "elastic_scale_up" /\ scaleUp' = TRUE /\ pc' = "event"
  /\ UNCHANGED <<envVars, cacheVars, setupVars, goodputVars, run, attempt>>

(* record_elastic_event_start                                                  *)
EventStart(label) ==
  /\ pendingEvent' = label
  /\ spans' = spans \cup {label}
  /\ UNCHANGED pendingReinit

(* effective_callback; an error of the last attempt propagates without it.     *)
OnElasticEvent ==
  /\ pc = "event" /\ attempt < MaxRetries
  /\ EventStart(IF scaleUp THEN "elastic_scale_up" ELSE "elastic_slice_down")
  /\ scaleUp' = FALSE
  /\ attempt' = attempt + 1 /\ pc' = "wait"
  /\ UNCHANGED <<envVars, cacheVars, setupVars, cause, run>>

RetriesExhausted ==
  /\ pc = "event" /\ attempt = MaxRetries
  /\ EndRun

(* Training completes, or setup or training fails for another reason.          *)
AttemptEnds ==
  /\ pc \in {"setup", "training"}
  /\ EndRun

Next ==
  \/ StartRun \/ SlicesReady \/ WaitTimesOut
  \/ \E i \in 1 .. Len(SetupOrder) : GetOrBuild(i)
  \/ TrainStarts \/ SliceDown \/ ScaleUp
  \/ OnElasticEvent \/ RetriesExhausted \/ AttemptEnds
  \/ \E s \in Slices : SliceDies(s) \/ SliceReturns(s)

Spec == Init /\ [][Next]_vars
-----------------------------------------------------------------------------
(* No attempt works with a config, mesh, model or compiled step that was built *)
(* for other slices than its own, or by an earlier run: "an entry is only ever *)
(* returned to an attempt on the same slices as the attempt that stored it".   *)
NoStaleObject ==
  pc \in {"setup", "training"} =>
    \A o \in Objects :
      used[o] # NotBuilt => used[o] = [slices |-> active, run |-> run]

(* A retry on the slices of the attempt before it builds nothing again that    *)
(* one of those attempts has, however often and wherever they die: pause and   *)
(* resume compiles once.                                                       *)
BuiltOnce == \A o \in Objects : builds[o] <= 1

(* The wait between two attempts is charged to what interrupted the first of   *)
(* them, though the callback cannot ask the manager any more and the outcome   *)
(* object is shared by all attempts of all runs.                               *)
LabelMatchesCause ==
  pc = "wait" /\ attempt > 1 => pendingEvent = cause /\ cause \in spans

(* While an attempt trains, goodput has no elastic span open, whatever         *)
(* interrupted earlier attempts and wherever: in the loop, in setup, while     *)
(* waiting, or at the end of an earlier run.                                   *)
TrainingIsNotCharged == pc = "training" => spans = {}
=============================================================================
