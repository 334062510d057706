-------------------------- MODULE ElasticRetryProofs --------------------------
(***************************************************************************)
(* Proofs about ElasticRetry, for any jobset, number of attempts and runs, *)
(* and setup objects.  CacheInv carries the RetryCache, SpanInv what       *)
(* goodput is told.                                                        *)
(***************************************************************************)
EXTENDS ElasticRetry, TLAPS

Current == [slices |-> cacheSlices, run |-> run]

(* The cache holds objects for the slices it remembers, which are those of the *)
(* present or, during a wait, of the last attempt of this run.                 *)
CacheInv ==
  /\ TypeOK
  /\ BuiltOnce
  /\ pc # "idle" => enabled /\ run > 0
  /\ \A o \in Objects : values[o] # NotBuilt => values[o] = Current
  /\ pc \in {"setup", "training"} =>
       \A o \in Objects : used[o] # NotBuilt => used[o] = Current
  /\ pc \in {"setup", "training", "event"} \/ (pc = "wait" /\ attempt > 1) =>
       /\ cacheSlices = active
       /\ \A o \in Objects : builds[o] > 0 => values[o] # NotBuilt

LEMMA CacheInit ==
  ASSUME Init
  PROVE  CacheInv
<1>1. NotBuilt \in Versions
  BY RetryAssumption DEF RetryAssumption, NotBuilt, Versions
<1>2. None \in [Objects -> Versions] /\ \A o \in Objects : None[o] = NotBuilt
  BY <1>1 DEF None
<1>3. builds \in [Objects -> 0 .. MaxRetries] /\ \A o \in Objects : builds[o] = 0
  BY RetryAssumption DEF RetryAssumption, Init
<1>4. attempt \in 1 .. MaxRetries /\ attempt = 1 /\ run \in 0 .. MaxRuns
  BY RetryAssumption DEF RetryAssumption, Init
<1>5. TypeOK
  BY <1>2, <1>3, <1>4 DEF Init, TypeOK
<1>. QED
  BY <1>2, <1>3, <1>4, <1>5 DEF Init, CacheInv, BuiltOnce

(* A fresh object is told apart from a missing one by its run number.          *)
LEMMA FreshIsBuilt ==
  ASSUME CacheInv, pc = "setup"
  PROVE  Current \in Versions /\ Current # NotBuilt
BY DEF CacheInv, TypeOK, Versions, Current, NotBuilt

LEMMA CacheNext ==
  ASSUME CacheInv, [Next]_vars
  PROVE  CacheInv'
<1>. USE RetryAssumption DEF RetryAssumption
<1>0. None \in [Objects -> Versions] /\ \A o \in Objects : None[o] = NotBuilt
  BY DEF None, NotBuilt, Versions
<1>1. CASE StartRun
  BY <1>0, <1>1 DEF StartRun, Reset, CacheInv, TypeOK, BuiltOnce, Current, envVars,
                    setupVars, goodputVars
<1>2. CASE SlicesReady
  <2>1. TypeOK'
    <3>1. /\ pendingEvent' \in Interruptions \cup {"none"} /\ pendingReinit' \in BOOLEAN
          /\ spans' \subseteq Interruptions \cup {"reinit"}
      BY <1>2 DEF SlicesReady, WaitEndAndReinitStart, CacheInv, TypeOK, goodputVars
    <3>2. builds' \in [Objects -> 0 .. MaxRetries]
      BY <1>2 DEF SlicesReady, CacheInv, TypeOK
    <3>. QED
      BY <1>0, <1>2, <3>1, <3>2 DEF SlicesReady, ClearIfSlicesChanged, CacheInv, TypeOK
  <2>2. BuiltOnce'
    BY <1>2 DEF SlicesReady, CacheInv, BuiltOnce
  <2>3. cacheSlices' = active' /\ enabled' /\ pc' = "setup"
    BY <1>2 DEF SlicesReady, ClearIfSlicesChanged, CacheInv
  <2>4. \A o \in Objects : values'[o] # NotBuilt => values'[o] = Current'
    BY <1>2 DEF SlicesReady, ClearIfSlicesChanged, CacheInv, Current, None
  <2>5. \A o \in Objects : builds'[o] > 0 => values'[o] # NotBuilt
    BY <1>2 DEF SlicesReady, ClearIfSlicesChanged, CacheInv
  <2>6. \A o \in Objects : used'[o] = NotBuilt
    BY <1>2 DEF SlicesReady, None
  <2>. QED
    BY <1>2, <2>1, <2>2, <2>3, <2>4, <2>5, <2>6 DEF SlicesReady, CacheInv
<1>3. CASE \E i \in 1 .. Len(SetupOrder) : GetOrBuild(i)
  <2>1. PICK i \in 1 .. Len(SetupOrder) : GetOrBuild(i)
    BY <1>3
  <2>2. DEFINE o == SetupOrder[i]
  <2>3. o \in Objects /\ pc = "setup" /\ pc' = "setup" /\ enabled /\ cacheSlices = active
    BY <2>1 DEF GetOrBuild, Objects, CacheInv
  <2>4. Current \in Versions /\ Current' = Current
    BY <2>1, <2>3, FreshIsBuilt DEF GetOrBuild, Current
  <2>5. CASE Contains(o)
    BY <2>1, <2>3, <2>4, <2>5
       DEF GetOrBuild, Contains, CacheInv, TypeOK, BuiltOnce, envVars, goodputVars
  <2>6. CASE ~Contains(o)
    <3>1. /\ used' = [used EXCEPT ![o] = Current]
          /\ values' = [values EXCEPT ![o] = Current]
          /\ builds' = [builds EXCEPT ![o] = @ + 1]
      BY <2>1, <2>3, <2>6 DEF GetOrBuild, Current
    <3>2. builds[o] = 0
      BY <2>3, <2>6 DEF Contains, CacheInv, TypeOK
    <3>4. Current # NotBuilt
      BY <2>3, FreshIsBuilt
    <3>3. UNCHANGED <<envVars, enabled, cacheSlices, goodputVars, scaleUp, cause, run,
                      attempt, pc>>
      BY <2>1 DEF GetOrBuild
    <3>. QED
      BY <2>3, <2>4, <3>1, <3>2, <3>3, <3>4
         DEF CacheInv, TypeOK, BuiltOnce, envVars, goodputVars
  <2>. QED
    BY <2>5, <2>6
<1>4. CASE TrainStarts \/ SliceDown \/ ScaleUp \/ OnElasticEvent
  <2>1. UNCHANGED <<alive, active, lost, enabled, cacheSlices, values, used, builds, run>>
    BY <1>4 DEF TrainStarts, SliceDown, ScaleUp, OnElasticEvent, EventStart, envVars,
                cacheVars, setupVars
  <2>2. TypeOK'
    <3>1. CASE TrainStarts
      BY <2>1, <3>1 DEF TrainStarts, CacheInv, TypeOK
    <3>2. CASE SliceDown \/ ScaleUp
      BY <2>1, <3>2 DEF SliceDown, ScaleUp, CacheInv, TypeOK, goodputVars, Interruptions
    <3>3. CASE OnElasticEvent
      <4>1. attempt' \in 1 .. MaxRetries /\ pc' = "wait" /\ scaleUp' = FALSE
        BY <3>3 DEF OnElasticEvent, CacheInv, TypeOK
      <4>2. /\ pendingEvent' \in Interruptions /\ pendingReinit' = pendingReinit
            /\ spans' \subseteq spans \cup Interruptions
        BY <3>3 DEF OnElasticEvent, EventStart, Interruptions
      <4>3. UNCHANGED <<lost, cause>>
        BY <3>3 DEF OnElasticEvent, envVars
      <4>. QED
        BY <2>1, <4>1, <4>2, <4>3 DEF CacheInv, TypeOK
    <3>. QED
      BY <1>4, <3>1, <3>2, <3>3
  <2>3. /\ pc \in {"setup", "training", "event"}
        /\ pc' \in {"training", "event", "wait"}
        /\ pc' = "training" => pc = "setup"
    BY <1>4 DEF TrainStarts, SliceDown, ScaleUp, OnElasticEvent
  <2>. QED
    BY <2>1, <2>2, <2>3 DEF CacheInv, BuiltOnce, Current
<1>5. CASE WaitTimesOut \/ RetriesExhausted \/ AttemptEnds
  <2>1. /\ values' = None /\ cacheSlices' = {} /\ scaleUp' = FALSE /\ enabled' = FALSE
        /\ pc' = "idle"
        /\ UNCHANGED <<envVars, setupVars, goodputVars, cause, run, attempt>>
    BY <1>5 DEF WaitTimesOut, RetriesExhausted, AttemptEnds, EndRun, Reset
  <2>. QED
    BY <1>0, <2>1 DEF CacheInv, TypeOK, BuiltOnce, envVars, setupVars, goodputVars
<1>6. CASE \/ \E s \in Slices : SliceDies(s) \/ SliceReturns(s)
           \/ UNCHANGED vars
  BY <1>6 DEF SliceDies, SliceReturns, vars, CacheInv, TypeOK, BuiltOnce, Current,
              envVars, cacheVars, setupVars, goodputVars
<1>. QED
  BY <1>1, <1>2, <1>3, <1>4, <1>5, <1>6 DEF Next

(* The variables keep their types: attempts stay within the retries, runs      *)
(* within the bound, and a span is one of the kinds there are.                 *)
THEOREM RetryTypeCorrect == Spec => []TypeOK
<1>1. CacheInv => TypeOK
  BY DEF CacheInv
<1>. QED
  BY <1>1, CacheInit, CacheNext, PTL DEF Spec

(* No attempt ever works with an object built for other slices or by an        *)
(* earlier run.                                                                *)
THEOREM NoStaleObjectCorrect == Spec => []NoStaleObject
<1>1. CacheInv => NoStaleObject
  BY DEF CacheInv, NoStaleObject, Current
<1>. QED
  BY <1>1, CacheInit, CacheNext, PTL DEF Spec

(* Attempts on the same slices build every setup object once between them.     *)
THEOREM BuiltOnceCorrect == Spec => []BuiltOnce
<1>1. CacheInv => BuiltOnce
  BY DEF CacheInv
<1>. QED
  BY <1>1, CacheInit, CacheNext, PTL DEF Spec

-----------------------------------------------------------------------------
(* A span is open only while the global that will close it is set; both are    *)
(* settled when an attempt trains, and the outcome is set only on its way to   *)
(* the callback.                                                               *)
SpanInv ==
  /\ pendingEvent \in Interruptions \cup {"none"}
  /\ spans \subseteq Interruptions \cup {"reinit"}
  /\ "elastic_slice_down" \in spans => pendingEvent = "elastic_slice_down"
  /\ "elastic_scale_up" \in spans => pendingEvent = "elastic_scale_up"
  /\ "reinit" \in spans => pendingReinit
  /\ pc \in {"setup", "training", "event"} => pendingEvent = "none"
  /\ pc = "training" => ~pendingReinit
  /\ scaleUp \in BOOLEAN /\ pendingReinit \in BOOLEAN
  /\ pc # "event" => ~scaleUp
  /\ pc = "event" =>
       cause = IF scaleUp THEN "elastic_scale_up" ELSE "elastic_slice_down"
  /\ LabelMatchesCause

LEMMA SpanNext ==
  ASSUME SpanInv, [Next]_vars
  PROVE  SpanInv'
<1>. USE DEF SpanInv, LabelMatchesCause, Interruptions, goodputVars
<1>1. CASE StartRun
  BY <1>1 DEF StartRun
<1>2. CASE SlicesReady
  <2>1. CASE pendingEvent = "none"
    BY <1>2, <2>1 DEF SlicesReady, WaitEndAndReinitStart
  <2>2. CASE pendingEvent # "none"
    <3>1. /\ pendingEvent' = "none" /\ pendingReinit' = TRUE
          /\ spans' \subseteq {"reinit"}
      BY <1>2, <2>2 DEF SlicesReady, WaitEndAndReinitStart
    <3>2. pc' = "setup" /\ scaleUp' = FALSE
      BY <1>2 DEF SlicesReady
    <3>. QED
      BY <3>1, <3>2
  <2>. QED
    BY <2>1, <2>2
<1>3. CASE TrainStarts
  <2>1. /\ pc' = "training" /\ pendingReinit' = FALSE
        /\ spans' \subseteq spans /\ "reinit" \notin spans'
        /\ pendingEvent = "none" /\ pendingEvent' = "none" /\ scaleUp' = FALSE
    BY <1>3 DEF TrainStarts
  <2>. QED
    BY <2>1
<1>4. CASE SliceDown
  BY <1>4 DEF SliceDown
<1>5. CASE ScaleUp
  BY <1>5 DEF ScaleUp
<1>6. CASE OnElasticEvent
  BY <1>6 DEF OnElasticEvent, EventStart
<1>7. CASE WaitTimesOut \/ RetriesExhausted \/ AttemptEnds
  BY <1>7 DEF WaitTimesOut, RetriesExhausted, AttemptEnds, EndRun
<1>8. CASE \/ \E i \in 1 .. Len(SetupOrder) : GetOrBuild(i)
           \/ \E s \in Slices : SliceDies(s) \/ SliceReturns(s)
           \/ UNCHANGED vars
  <2>1. UNCHANGED <<pendingEvent, pendingReinit, spans, scaleUp, cause, attempt, pc>>
    BY <1>8 DEF GetOrBuild, SliceDies, SliceReturns, vars
  <2>. QED
    BY <2>1
<1>. QED
  BY <1>1, <1>2, <1>3, <1>4, <1>5, <1>6, <1>7, <1>8 DEF Next

(* Every interruption is charged to its cause.                                 *)
THEOREM GoodputCorrect == Spec => []LabelMatchesCause
<1>1. Init => SpanInv
  BY DEF Init, SpanInv, LabelMatchesCause, Interruptions
<1>2. SpanInv => LabelMatchesCause
  BY DEF SpanInv
<1>. QED
  BY <1>1, <1>2, SpanNext, PTL DEF Spec

(* No span of waiting or of setting up is open while an attempt trains.        *)
THEOREM TrainingIsNotChargedCorrect == Spec => []TrainingIsNotCharged
<1>1. Init => SpanInv
  BY DEF Init, SpanInv, LabelMatchesCause, Interruptions
<1>2. SpanInv => TrainingIsNotCharged
  BY DEF SpanInv, TrainingIsNotCharged, Interruptions
<1>. QED
  BY <1>1, <1>2, SpanNext, PTL DEF Spec
=============================================================================
