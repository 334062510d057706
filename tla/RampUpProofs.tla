---------------------------- MODULE RampUpProofs ----------------------------
(***************************************************************************)
(* Proofs about RampUp, for any ramps, steps and restarts: a train state   *)
(* never sees a sample twice, restarts skip little, and every batch has    *)
(* the size the schedule gives its step or, after a restart, the step      *)
(* before it.                                                              *)
(***************************************************************************)
EXTENDS RampUp, FiniteSetTheorems, WellFoundedInduction, TLAPS

Positions == Nat \X Nat

(* Everything taken so far lies in the loads taken from the iterator, and in   *)
(* the last of them before the place the loader will cut from next.            *)
Taken(p, i) ==
  \/ p < loads
  \/ p = loads /\ (buffered /\ active => i <= bufferStart)

Typed ==
  /\ ramp.start \in Nat /\ ramp.increment \in Nat /\ Full \in Nat
  /\ ramp.start <= Full
  /\ current \in Nat /\ current <= Full
  /\ bufferStart \in Nat /\ bufferStart <= Full
  /\ loads \in Nat /\ ckpt.iterator \in Nat
  /\ active \in BOOLEAN /\ buffered \in BOOLEAN
  /\ batch \subseteq Positions /\ trained \subseteq Positions
  /\ ckpt.seen \subseteq Positions

TakenInv ==
  /\ \A p, i \in Nat : <<p, i>> \in batch \cup trained => Taken(p, i)
  /\ \A p, i \in Nat : <<p, i>> \in ckpt.seen => p <= ckpt.iterator
  /\ NoSampleTwice

Inv == Typed /\ TakenInv

LEMMA RampTyped ==
  ASSUME ramp \in Schedules
  PROVE  /\ ramp.start \in Nat /\ ramp.increment \in Nat /\ ramp.end \in Nat
         /\ ramp.start <= ramp.end
BY RampUpAssumption DEF RampUpAssumption

LEMMA UpdateTyped ==
  ASSUME Typed
  PROVE  Updated(Manager).current \in Nat /\ Updated(Manager).current <= Full
BY DEF Typed, Updated, Manager, Lesser

LEMMA SliceTyped ==
  ASSUME NEW load \in Nat, NEW from \in Nat, NEW to \in Nat
  PROVE  /\ Slice(load, from, to) \subseteq Positions
         /\ \A p, i \in Nat :
              <<p, i>> \in Slice(load, from, to) => p = load /\ from < i /\ i <= to
BY DEF Slice, Positions

LEMMA NothingShared ==
  ASSUME NEW A, NEW B, A \subseteq Positions,
         \A p, i \in Nat : <<p, i>> \in A => <<p, i>> \notin B
  PROVE  A \cap B = {}
BY DEF Positions

(* What a step of the loader gives the trainer is new, and taken: it lies      *)
(* behind everything that was taken before.                                    *)
LEMMA LoadNext ==
  ASSUME Inv, LoadWhileRamping \/ LoadFull
  PROVE  Inv'
<1>1. /\ pc' = "train"
      /\ UNCHANGED <<ramp, trained, ckpt>>
  BY DEF LoadWhileRamping, LoadFull, stateVars
<1>2. /\ loads' \in Nat /\ active' \in BOOLEAN /\ buffered' \in BOOLEAN
      /\ current' \in Nat /\ current' <= Full'
      /\ bufferStart' \in Nat /\ bufferStart' <= Full'
  <2>1. CASE LoadFull
    BY <2>1 DEF LoadFull, managerVars, loaderVars, Inv, Typed, Full
  <2>2. CASE LoadWhileRamping
    BY <2>2, UpdateTyped
       DEF LoadWhileRamping, SetManager, SliceBuffer, SliceAndConcat, Inv, Typed, Full
  <2>. QED
    BY <2>1, <2>2
<1>3. /\ batch' \subseteq Positions
      /\ \A p, i \in Nat : <<p, i>> \in batch' =>
             /\ p = loads' \/ p = loads
             /\ p = loads' /\ active' => i <= bufferStart'
             /\ p = loads => active /\ buffered /\ bufferStart < i
  <2>. USE DEF Inv, Typed
  <2>1. CASE LoadFull
    <3>1. loads' = loads + 1 /\ batch' = Slice(loads', 0, Full) /\ active' = FALSE
      BY <2>1 DEF LoadFull, loaderVars
    <3>. QED
      BY <1>2, <3>1, SliceTyped
  <2>2. CASE LoadWhileRamping /\ ~buffered
    <3>1. loads' = loads + 1 /\ batch' = Slice(loads', 0, 0 + current)
          /\ bufferStart' = 0 + current
      BY <2>2 DEF LoadWhileRamping, SliceBuffer
    <3>. QED
      BY <1>2, <3>1, SliceTyped
  <2>3. CASE LoadWhileRamping /\ buffered /\ bufferStart + current > Full
    <3>1. /\ loads' = loads + 1 /\ bufferStart' = bufferStart + current - Full
          /\ batch' = Slice(loads, bufferStart, Full)
                        \cup Slice(loads + 1, 0, bufferStart')
          /\ active
      BY <2>3 DEF LoadWhileRamping, SliceAndConcat
    <3>2. /\ Slice(loads, bufferStart, Full) \subseteq Positions
          /\ \A p, i \in Nat :
               <<p, i>> \in Slice(loads, bufferStart, Full) => p = loads /\ bufferStart < i
      BY SliceTyped
    <3>3. /\ Slice(loads + 1, 0, bufferStart') \subseteq Positions
          /\ \A p, i \in Nat :
               <<p, i>> \in Slice(loads + 1, 0, bufferStart')
                 => p = loads + 1 /\ i <= bufferStart'
      BY <1>2, SliceTyped
    <3>. QED
      BY <2>3, <3>1, <3>2, <3>3
  <2>4. CASE LoadWhileRamping /\ buffered /\ ~(bufferStart + current > Full)
    <3>1. /\ loads' = loads /\ bufferStart' = bufferStart + current
          /\ batch' = Slice(loads, bufferStart, bufferStart')
          /\ active
      BY <2>4 DEF LoadWhileRamping, SliceBuffer
    <3>. QED
      BY <1>2, <2>4, <3>1, SliceTyped
  <2>. QED
    BY <2>1, <2>2, <2>3, <2>4
<1>4. loads' = loads \/ loads' = loads + 1
  BY DEF LoadWhileRamping, LoadFull, SliceAndConcat
<1>5. loads' = loads => active /\ buffered /\ bufferStart <= bufferStart'
  <2>1. CASE LoadFull
    BY <2>1 DEF LoadFull, Inv, Typed
  <2>2. CASE LoadWhileRamping
    BY <2>2 DEF LoadWhileRamping, SliceBuffer, SliceAndConcat, Inv, Typed
  <2>. QED
    BY <2>1, <2>2
<1>6. Typed'
  BY <1>1, <1>2, <1>3 DEF Inv, Typed, Full
<1>7. \A p, i \in Nat : <<p, i>> \in batch' => <<p, i>> \notin trained'
  BY <1>1, <1>3, <1>4, <1>6 DEF Inv, Typed, TakenInv, Taken
<1>8. \A p, i \in Nat : <<p, i>> \in (batch \cup trained)' => Taken(p, i)'
  <2>. SUFFICES ASSUME NEW p \in Nat, NEW i \in Nat,
                       <<p, i>> \in batch' \/ <<p, i>> \in trained'
                PROVE  Taken(p, i)'
    OBVIOUS
  <2>0. /\ loads \in Nat /\ loads' \in Nat /\ bufferStart \in Nat /\ bufferStart' \in Nat
        /\ active \in BOOLEAN /\ active' \in BOOLEAN
        /\ buffered \in BOOLEAN /\ buffered' \in BOOLEAN
    BY <1>6 DEF Inv, Typed
  <2>1. CASE <<p, i>> \in batch'
    BY <1>3, <1>4, <2>0, <2>1 DEF Taken
  <2>2. CASE <<p, i>> \in trained'
    <3>1. Taken(p, i)
      BY <1>1, <2>2 DEF Inv, TakenInv
    <3>. QED
      BY <1>4, <1>5, <2>0, <3>1 DEF Taken
  <2>. QED
    BY <2>1, <2>2
<1>9. NoSampleTwice'
  BY <1>3, <1>7, NothingShared DEF NoSampleTwice
<1>. QED
  BY <1>1, <1>6, <1>8, <1>9 DEF Inv, TakenInv

LEMMA InvNext ==
  ASSUME Inv, [Next]_vars
  PROVE  Inv'
<1>1. CASE LoadWhileRamping \/ LoadFull
  BY <1>1, LoadNext
<1>3. CASE MaybeSave
  <2>1. ckpt' = ckpt \/ ckpt' = [step |-> n - 1, iterator |-> loads, seen |-> trained]
    BY <1>3 DEF MaybeSave
  <2>2. UNCHANGED ckpt \/ (ckpt'.iterator = loads /\ ckpt'.seen = trained)
    BY <2>1
  <2>3. pc' # "train"
        /\ UNCHANGED <<ramp, current, active, buffered, bufferStart, loads, batch, trained>>
    BY <1>3 DEF MaybeSave, managerVars, loaderVars, stateVars
  <2>4. Typed'
    BY <2>2, <2>3 DEF Inv, Typed, Full
  <2>5. \A p, i \in Nat : <<p, i>> \in ckpt'.seen => p <= ckpt'.iterator
    BY <2>2, <2>3 DEF Inv, Typed, TakenInv, Taken
  <2>. QED
    BY <2>3, <2>4, <2>5 DEF Inv, TakenInv, Taken, NoSampleTwice
<1>4. CASE Resume
  <2>1. /\ current' = ramp.start /\ active' = TRUE /\ buffered' = FALSE
        /\ bufferStart' = 0 /\ loads' = ckpt.iterator /\ trained' = ckpt.seen
        /\ batch' = {} /\ pc' = "recover" /\ UNCHANGED <<ramp, ckpt>>
    BY <1>4 DEF Resume, SetManager, Start
  <2>2. Typed'
    <3>1. active' \in BOOLEAN /\ buffered' \in BOOLEAN
      BY <2>1
    <3>2. /\ current' \in Nat /\ current' <= ramp.end
          /\ bufferStart' \in Nat /\ bufferStart' <= ramp.end
      BY <2>1 DEF Inv, Typed, Full
    <3>3. batch' \subseteq Positions /\ trained' \subseteq Positions /\ loads' \in Nat
      BY <2>1 DEF Inv, Typed
    <3>. QED
      BY <2>1, <3>1, <3>2, <3>3 DEF Inv, Typed, Full
  <2>3. \A p, i \in Nat : <<p, i>> \in (batch \cup trained)' => Taken(p, i)'
    BY <2>1 DEF Inv, Typed, TakenInv, Taken
  <2>. QED
    BY <2>1, <2>2, <2>3 DEF Inv, TakenInv, NoSampleTwice
<1>. USE DEF Inv, Typed, TakenInv, Taken, NoSampleTwice, Full
<1>2. CASE TrainStep
  BY <1>2 DEF TrainStep, managerVars, loaderVars
<1>5. CASE RecoverStates
  <2>1. current' \in Nat /\ current' <= Full
    BY <1>5, UpdateTyped DEF RecoverStates, SetManager, managerVars
  <2>2. pc' # "train" /\ UNCHANGED <<ramp, loaderVars, loads, batch, trained, ckpt>>
    BY <1>5 DEF RecoverStates, stateVars
  <2>. QED
    BY <2>1, <2>2 DEF loaderVars
<1>6. CASE UNCHANGED vars
  BY <1>6 DEF vars, managerVars, loaderVars, stateVars
<1>. QED
  BY <1>1, <1>2, <1>3, <1>4, <1>5, <1>6 DEF Next

LEMMA InvInit ==
  ASSUME Init
  PROVE  Inv
<1>1. /\ ramp.start \in Nat /\ ramp.increment \in Nat /\ ramp.end \in Nat
      /\ ramp.start <= ramp.end
  BY RampTyped DEF Init
<1>2. ckpt.iterator = 0 /\ ckpt.seen = {}
  BY DEF Init, NoCheckpoint
<1>. QED
  <2>1. Typed
    <3>1. active \in BOOLEAN /\ buffered \in BOOLEAN
      BY DEF Init
    <3>2. /\ current \in Nat /\ current <= ramp.end
          /\ bufferStart \in Nat /\ bufferStart <= ramp.end
      BY <1>1 DEF Init
    <3>3. batch = {} /\ trained = {} /\ loads \in Nat
      BY DEF Init
    <3>. QED
      BY <1>1, <1>2, <3>1, <3>2, <3>3 DEF Typed, Full
  <2>2. TakenInv
    BY <1>2 DEF Init, TakenInv, NoSampleTwice
  <2>. QED
    BY <2>1, <2>2 DEF Inv

(* No train state is trained on a sample twice, however the ramp, the loads    *)
(* and the restarts fall.                                                      *)
THEOREM NoSampleTwiceCorrect == Spec => []NoSampleTwice
<1>1. Init => Inv
  BY InvInit
<1>2. Inv => NoSampleTwice
  BY DEF Inv, TakenInv
<1>. QED
  BY <1>1, <1>2, InvNext, PTL DEF Spec

-----------------------------------------------------------------------------
(* How little is skipped.                                                      *)

LEMMA SliceCardinality ==
  ASSUME NEW load \in Nat, NEW from \in Nat, NEW to \in Nat, from <= to
  PROVE  /\ IsFiniteSet(Slice(load, from, to))
         /\ Cardinality(Slice(load, from, to)) = to - from
<1>1. /\ IsFiniteSet(from + 1 .. to)
      /\ Cardinality(from + 1 .. to) = to - from
  <2>1. from + 1 \in Int /\ to \in Int
    OBVIOUS
  <2>2. /\ IsFiniteSet(from + 1 .. to)
        /\ Cardinality(from + 1 .. to)
             = IF from + 1 > to THEN 0 ELSE to - (from + 1) + 1
    BY <2>1, FS_Interval, Zenon
  <2>. QED
    BY <2>2
<1>2. IsFiniteSet({load}) /\ Cardinality({load}) = 1
  BY FS_Singleton
<1>3. /\ IsFiniteSet({load} \X (from + 1 .. to))
      /\ Cardinality({load} \X (from + 1 .. to))
           = Cardinality({load}) * Cardinality(from + 1 .. to)
  BY <1>1, <1>2, FS_Product, Zenon
<1>4. 1 * (to - from) = to - from
  OBVIOUS
<1>. QED
  BY <1>1, <1>2, <1>3, <1>4, Zenon DEF Slice

LEMMA DisjointUnion ==
  ASSUME NEW A, NEW B, IsFiniteSet(A), IsFiniteSet(B), A \cap B = {}
  PROVE  /\ IsFiniteSet(A \cup B)
         /\ Cardinality(A \cup B) = Cardinality(A) + Cardinality(B)
<1>1. Cardinality(A) \in Nat /\ Cardinality(B) \in Nat
  BY FS_CardinalityType
<1>2. Cardinality(A \cap B) = 0
  BY FS_EmptySet
<1>3. /\ IsFiniteSet(A \cup B)
      /\ Cardinality(A \cup B)
           = Cardinality(A) + Cardinality(B) - Cardinality(A \cap B)
  BY FS_Union, Zenon
<1>. QED
  BY <1>1, <1>2, <1>3

(* What the loader still holds of the load it cuts.                            *)
Rest == IF buffered /\ active THEN Full - bufferStart ELSE 0

(* The allowance: less than a load for each restart and for the ramp's end.    *)
Allowance == (Full - 1) * (resumes + IF active THEN 0 ELSE 1)

CutInv ==
  /\ resumes \in Nat /\ ramp.start >= 1 /\ current >= 1
  /\ buffered => bufferStart >= 1
  /\ pc \in {"load", "save", "recover"} => batch \subseteq trained
  /\ IsFiniteSet(batch) /\ IsFiniteSet(trained) /\ IsFiniteSet(ckpt.seen)

(* Every place of the loads taken is trained on, held, or allowed for; one     *)
(* more allowance covers what a checkpoint does not keep of the buffer.        *)
SkippedInv ==
  /\ loads * Full <= Cardinality(trained \cup batch) + Rest + Allowance
  /\ ckpt.iterator * Full
       <= Cardinality(ckpt.seen) + (Full - 1) * (resumes + 1)

SkipInv == CutInv /\ SkippedInv

LEMMA UpdatePositive ==
  ASSUME Typed, CutInv
  PROVE  Updated(Manager).current >= 1
BY DEF Typed, CutInv, Updated, Manager, Lesser

(* A batch takes as many samples as leave the buffer, or arrive with the load. *)
LEMMA BatchCounts ==
  ASSUME Inv, CutInv, LoadWhileRamping
  PROVE  /\ IsFiniteSet(batch') /\ Cardinality(batch') = current
         /\ loads' * Full - loads * Full
              = Cardinality(batch') + (Full - bufferStart') - Rest
         /\ bufferStart' >= 1
<1>1. /\ loads \in Nat /\ Full \in Nat /\ current \in Nat /\ bufferStart \in Nat
      /\ current >= 1 /\ current <= Full /\ bufferStart <= Full
      /\ active
  BY DEF Inv, Typed, CutInv, LoadWhileRamping
<1>2. (loads + 1) * Full - loads * Full = Full
  BY <1>1
<1>3. CASE ~buffered
  <2>1. loads' = loads + 1 /\ batch' = Slice(loads', 0, 0 + current)
        /\ bufferStart' = 0 + current
    BY <1>3 DEF LoadWhileRamping, SliceBuffer
  <2>2. IsFiniteSet(batch') /\ Cardinality(batch') = current
    BY <1>1, <2>1, SliceCardinality
  <2>. QED
    BY <1>1, <1>2, <1>3, <2>1, <2>2 DEF Rest
<1>4. CASE buffered /\ bufferStart + current > Full
  <2>1. /\ loads' = loads + 1 /\ bufferStart' = bufferStart + current - Full
        /\ batch' = Slice(loads, bufferStart, Full)
                      \cup Slice(loads + 1, 0, bufferStart')
    BY <1>1, <1>4 DEF LoadWhileRamping, SliceAndConcat
  <2>2. /\ IsFiniteSet(Slice(loads, bufferStart, Full))
        /\ Cardinality(Slice(loads, bufferStart, Full)) = Full - bufferStart
    BY <1>1, SliceCardinality
  <2>3. bufferStart' \in Nat
    BY <1>1, <1>4, <2>1
  <2>4. /\ IsFiniteSet(Slice(loads + 1, 0, bufferStart'))
        /\ Cardinality(Slice(loads + 1, 0, bufferStart')) = bufferStart'
    BY <1>1, <2>3, SliceCardinality
  <2>5. Slice(loads, bufferStart, Full) \cap Slice(loads + 1, 0, bufferStart') = {}
    BY <1>1 DEF Slice
  <2>6. IsFiniteSet(batch') /\ Cardinality(batch') = (Full - bufferStart) + bufferStart'
    <3>1. /\ IsFiniteSet(batch')
          /\ Cardinality(batch') = Cardinality(Slice(loads, bufferStart, Full))
                                    + Cardinality(Slice(loads + 1, 0, bufferStart'))
      BY <2>1, <2>2, <2>4, <2>5, DisjointUnion, Zenon
    <3>. QED
      BY <2>2, <2>4, <3>1, Zenon
  <2>. QED
    BY <1>1, <1>2, <1>4, <2>1, <2>3, <2>6 DEF Rest
<1>5. CASE buffered /\ ~(bufferStart + current > Full)
  <2>1. /\ loads' = loads /\ bufferStart' = bufferStart + current
        /\ batch' = Slice(loads, bufferStart, bufferStart')
    BY <1>5 DEF LoadWhileRamping, SliceBuffer
  <2>2. IsFiniteSet(batch') /\ Cardinality(batch') = current
    BY <1>1, <2>1, SliceCardinality
  <2>3. loads' * Full - loads * Full = 0
    BY <1>1, <2>1
  <2>. QED
    BY <1>1, <1>5, <2>1, <2>2, <2>3 DEF Rest
<1>. QED
  BY <1>3, <1>4, <1>5 DEF Inv, Typed

(* The allowance grows by less than a load with the ramp's end.                *)
LEMMA AllowanceGrows ==
  ASSUME NEW f \in Nat, f >= 1, NEW r \in Nat
  PROVE  /\ (f - 1) * (r + 1) = (f - 1) * r + (f - 1)
         /\ (f - 1) * (r + 0) = (f - 1) * r
         /\ (f - 1) * r \in Nat
         /\ (f - 1) * (r + 1) \in Nat
         /\ (f - 1) * (r + 1 + 1) = (f - 1) * (r + 1) + (f - 1)
<1> DEFINE g == f - 1
<1>1. g \in Nat
  OBVIOUS
<1>2. \A k \in Nat : g * k \in Nat /\ g * (k + 1) = g * k + g
  BY <1>1
<1> HIDE DEF g
<1>3. g * (r + 1) = g * r + g /\ g * (r + 0) = g * r /\ g * r \in Nat
      /\ g * (r + 1) \in Nat /\ g * (r + 1 + 1) = g * (r + 1) + g
  BY <1>1, <1>2
<1>. QED
  BY <1>3 DEF g

LEMMA SkipLoad ==
  ASSUME Inv, Inv', SkipInv, LoadWhileRamping \/ LoadFull
  PROVE  SkipInv'
<1>1. /\ pc = "load" /\ pc' = "train"
      /\ UNCHANGED <<ramp, trained, ckpt, resumes>>
  BY DEF LoadWhileRamping, LoadFull, stateVars
<1>2. Full' = Full /\ Full \in Nat /\ Full >= 1 /\ resumes \in Nat /\ loads \in Nat
      /\ bufferStart \in Nat /\ bufferStart <= Full
      /\ buffered \in BOOLEAN /\ active \in BOOLEAN /\ active' \in BOOLEAN
  BY <1>1 DEF Inv, Typed, SkipInv, CutInv, Full
<1>3. trained \cup batch = trained /\ IsFiniteSet(trained) /\ Cardinality(trained) \in Nat
  BY <1>1, FS_CardinalityType DEF SkipInv, CutInv
<1>4. /\ IsFiniteSet(batch') /\ Cardinality(batch') \in Nat
      /\ loads' * Full <= loads * Full + Cardinality(batch') + Rest' - Rest
                            + (Allowance' - Allowance)
      /\ buffered' => bufferStart' >= 1
      /\ current' >= 1
  <2>1. CASE LoadFull
    <3>1. /\ loads' = loads + 1 /\ batch' = Slice(loads', 0, Full)
          /\ UNCHANGED <<active, buffered, bufferStart, current>> /\ ~active
      BY <2>1 DEF LoadFull, loaderVars, managerVars
    <3>2. IsFiniteSet(batch') /\ Cardinality(batch') = Full
      BY <1>2, <3>1, SliceCardinality
    <3>3. loads' * Full = loads * Full + Full
      BY <1>2, <3>1
    <3>4. Rest = 0 /\ Rest' = 0
      BY <1>2, <3>1 DEF Rest
    <3>5. Allowance' = Allowance /\ Allowance \in Nat
      <4>1. Allowance = (Full - 1) * (resumes + 1) /\ Allowance' = (Full - 1) * (resumes + 1)
        BY <1>1, <1>2, <3>1 DEF Allowance
      <4>. QED
        BY <1>2, <4>1, AllowanceGrows
    <3>. QED
      BY <1>2, <3>1, <3>2, <3>3, <3>4, <3>5 DEF SkipInv, CutInv, Inv, Typed
  <2>2. CASE LoadWhileRamping
    <3>1. /\ IsFiniteSet(batch') /\ Cardinality(batch') \in Nat
          /\ loads' * Full - loads * Full
               = Cardinality(batch') + (Full - bufferStart') - Rest
          /\ bufferStart' >= 1
      BY <2>2, BatchCounts DEF SkipInv, Inv, Typed
    <3>2. active /\ buffered' = TRUE /\ current' >= 1
      BY <2>2, UpdatePositive DEF LoadWhileRamping, SetManager, SkipInv, Inv
    <3>3. bufferStart' \in Nat /\ bufferStart' <= Full /\ loads' \in Nat
      BY <1>2 DEF Inv, Typed
    <3>4. Rest \in Int
      BY <1>2 DEF Rest
    <3>5. Allowance = (Full - 1) * resumes /\ Allowance \in Nat
      <4>1. Allowance = (Full - 1) * (resumes + 0)
        BY <1>2, <3>2 DEF Allowance
      <4>. QED
        BY <1>2, <4>1, AllowanceGrows
    <3>6. loads * Full \in Int /\ loads' * Full \in Int
      BY <1>2, <3>3
    <3>7. CASE active'
      <4>1. Rest' = Full - bufferStart'
        BY <1>2, <3>2, <3>7 DEF Rest
      <4>2. Allowance' = Allowance
        BY <1>1, <1>2, <3>2, <3>7 DEF Allowance
      <4>. QED
        BY <1>2, <3>1, <3>2, <3>3, <3>4, <3>5, <3>6, <4>1, <4>2
    <3>8. CASE ~active'
      <4>1. Rest' = 0
        BY <3>8 DEF Rest
      <4>2. Allowance' = (Full - 1) * (resumes + 1)
        BY <1>1, <1>2, <3>8 DEF Allowance
      <4>3. Allowance' - Allowance = Full - 1
        BY <1>2, <3>5, <4>2, AllowanceGrows
      <4>. QED
        BY <1>2, <3>1, <3>2, <3>3, <3>4, <3>5, <3>6, <4>1, <4>3
    <3>. QED
      BY <1>2, <3>7, <3>8
  <2>. QED
    BY <2>1, <2>2
<1>5. Cardinality(trained' \cup batch') = Cardinality(trained) + Cardinality(batch')
  <2>1. trained' \cap batch' = {}
    BY <1>1 DEF Inv, TakenInv, NoSampleTwice
  <2>. QED
    BY <1>1, <1>3, <1>4, <2>1, DisjointUnion
<1>6. CutInv'
  BY <1>1, <1>4 DEF SkipInv, CutInv
<1>7. loads' * Full' <= Cardinality(trained' \cup batch') + Rest' + Allowance'
  <2>1. loads * Full <= Cardinality(trained) + Rest + Allowance
    BY <1>3 DEF SkipInv, SkippedInv
  <2>2. /\ loads * Full \in Int /\ loads' * Full \in Int /\ Rest \in Int /\ Rest' \in Int
        /\ Allowance \in Int /\ Allowance' \in Int
    <3>1. loads' \in Nat /\ bufferStart' \in Nat
      BY DEF Inv, Typed
    <3>2. Rest \in Int /\ Rest' \in Int
      BY <1>2, <3>1 DEF Rest
    <3>3. loads * Full \in Int /\ loads' * Full \in Int
      BY <1>2, <3>1
    <3>4. \A b \in BOOLEAN : (Full - 1) * (resumes + IF b THEN 0 ELSE 1) \in Int
      BY <1>2, AllowanceGrows
    <3>. QED
      BY <1>1, <1>2, <3>2, <3>3, <3>4 DEF Allowance
  <2>. QED
    BY <1>2, <1>3, <1>4, <1>5, <2>1, <2>2
<1>8. ckpt'.iterator * Full' <= Cardinality(ckpt'.seen) + (Full' - 1) * (resumes' + 1)
  BY <1>1, <1>2 DEF SkipInv, SkippedInv
<1>. QED
  BY <1>6, <1>7, <1>8 DEF SkipInv, SkippedInv

LEMMA SkipNext ==
  ASSUME Inv, Inv', SkipInv, [Next]_vars
  PROVE  SkipInv'
<1>0. /\ Full \in Nat /\ Full >= 1 /\ resumes \in Nat
      /\ active \in BOOLEAN /\ buffered \in BOOLEAN
      /\ bufferStart \in Nat /\ loads \in Nat /\ Cardinality(ckpt.seen) \in Nat
      /\ Cardinality(trained \cup batch) \in Nat
  <2>1. IsFiniteSet(trained \cup batch) /\ IsFiniteSet(ckpt.seen)
    BY FS_Union DEF SkipInv, CutInv
  <2>2. Cardinality(ckpt.seen) \in Nat /\ Cardinality(trained \cup batch) \in Nat
    BY <2>1, FS_CardinalityType
  <2>. QED
    BY <2>2 DEF Inv, Typed, SkipInv, CutInv, Full
<1>1. CASE LoadWhileRamping \/ LoadFull
  BY <1>1, SkipLoad
<1>2. CASE TrainStep
  <2>1. /\ trained' = trained \cup batch /\ pc' = "save"
        /\ UNCHANGED <<ramp, current, active, buffered, bufferStart, loads, batch, ckpt,
                       resumes>>
    BY <1>2 DEF TrainStep, managerVars, loaderVars
  <2>2. IsFiniteSet(trained')
    BY <2>1, FS_Union DEF SkipInv, CutInv
  <2>3. trained' \cup batch' = trained \cup batch
    BY <2>1
  <2>. QED
    BY <2>1, <2>2, <2>3 DEF SkipInv, CutInv, SkippedInv, Rest, Allowance, Full
<1>3. CASE MaybeSave
  <2>1. /\ pc = "save" /\ pc' \in {"load", "done"}
        /\ UNCHANGED <<ramp, current, active, buffered, bufferStart, loads, batch, trained,
                       resumes>>
    BY <1>3 DEF MaybeSave, managerVars, loaderVars, stateVars
  <2>2. UNCHANGED ckpt \/ (ckpt'.iterator = loads /\ ckpt'.seen = trained)
    <3>1. ckpt' = ckpt \/ ckpt' = [step |-> n - 1, iterator |-> loads, seen |-> trained]
      BY <1>3 DEF MaybeSave
    <3>. QED
      BY <3>1
  <2>3. CutInv'
    BY <2>1, <2>2 DEF SkipInv, CutInv
  <2>4. ckpt'.iterator * Full <= Cardinality(ckpt'.seen) + (Full - 1) * (resumes + 1)
    <3>1. CASE UNCHANGED ckpt
      BY <3>1 DEF SkipInv, SkippedInv
    <3>2. CASE ckpt'.iterator = loads /\ ckpt'.seen = trained
      <4>1. trained \cup batch = trained
        BY <2>1 DEF SkipInv, CutInv
      <4>2. loads * Full <= Cardinality(trained) + Rest + Allowance
        BY <4>1 DEF SkipInv, SkippedInv
      <4>3. Rest + Allowance <= (Full - 1) * (resumes + 1)
        <5>1. /\ (Full - 1) * (resumes + 1) = (Full - 1) * resumes + (Full - 1)
              /\ (Full - 1) * (resumes + 0) = (Full - 1) * resumes
              /\ (Full - 1) * resumes \in Nat
          BY <1>0, AllowanceGrows
        <5>2. CASE active
          <6>1. Allowance = (Full - 1) * (resumes + 0)
            BY <5>2 DEF Allowance
          <6>2. Rest \in Int /\ Rest <= Full - 1
            BY <1>0, <5>2 DEF Rest, SkipInv, CutInv
          <6>. QED
            BY <1>0, <5>1, <6>1, <6>2
        <5>3. CASE ~active
          BY <1>0, <5>1, <5>3 DEF Rest, Allowance
        <5>. QED
          BY <5>2, <5>3
      <4>4. /\ Cardinality(trained) \in Nat /\ Rest \in Int /\ Allowance \in Int
            /\ loads * Full \in Int /\ (Full - 1) * (resumes + 1) \in Int
        <5>1. (Full - 1) * (resumes + 0) \in Int /\ (Full - 1) * (resumes + 1) \in Int
          BY <1>0, AllowanceGrows
        <5>2. Allowance \in Int
          BY <1>0, <5>1 DEF Allowance
        <5>. QED
          BY <1>0, <4>1, <5>1, <5>2 DEF Rest
      <4>. QED
        BY <3>2, <4>2, <4>3, <4>4
    <3>. QED
      BY <2>2, <3>1, <3>2
  <2>. QED
    BY <2>1, <2>3, <2>4 DEF SkipInv, SkippedInv, Rest, Allowance, Full
<1>4. CASE Resume
  <2>1. /\ current' = ramp.start /\ active' = TRUE /\ buffered' = FALSE
        /\ loads' = ckpt.iterator /\ trained' = ckpt.seen /\ batch' = {}
        /\ pc' = "recover" /\ resumes' = resumes + 1 /\ UNCHANGED <<ramp, ckpt>>
    BY <1>4 DEF Resume, SetManager, Start
  <2>2. CutInv'
    BY <1>0, <2>1, FS_EmptySet DEF SkipInv, CutInv
  <2>3. Rest' = 0 /\ Allowance' = (Full - 1) * (resumes + 1 + 0)
    BY <2>1 DEF Rest, Allowance, Full
  <2>4. /\ (Full - 1) * (resumes + 1 + 0) = (Full - 1) * (resumes + 1)
        /\ (Full - 1) * (resumes + 1) \in Nat
        /\ (Full - 1) * (resumes + 1 + 1) = (Full - 1) * (resumes + 1) + (Full - 1)
    <3>1. resumes + 1 + 0 = resumes + 1
      BY <1>0
    <3>. QED
      BY <1>0, <3>1, AllowanceGrows
  <2>5. trained' \cup batch' = ckpt.seen
    BY <2>1
  <2>6. ckpt.iterator * Full \in Int
    BY <1>0 DEF Inv, Typed
  <2>7. loads' * Full' <= Cardinality(trained' \cup batch') + Rest' + Allowance'
    BY <1>0, <2>1, <2>3, <2>4, <2>5, <2>6 DEF SkipInv, SkippedInv, Full
  <2>8. ckpt'.iterator * Full' <= Cardinality(ckpt'.seen) + (Full' - 1) * (resumes' + 1)
    <3>1. Full' = Full
      BY <2>1 DEF Full
    <3>2. ckpt.iterator * Full <= Cardinality(ckpt.seen) + (Full - 1) * (resumes + 1)
      BY DEF SkipInv, SkippedInv
    <3>. QED
      BY <1>0, <2>1, <2>4, <2>6, <3>1, <3>2
  <2>. QED
    BY <2>2, <2>7, <2>8 DEF SkipInv, SkippedInv
<1>5. CASE RecoverStates
  <2>1. /\ pc = "recover" /\ pc' \in {"recover", "load"}
        /\ UNCHANGED <<ramp, active, buffered, bufferStart, loads, batch, trained, ckpt,
                       resumes>>
    BY <1>5 DEF RecoverStates, loaderVars, stateVars
  <2>2. current' >= 1
    <3>1. current' = current \/ current' = Updated(Manager).current
      BY <1>5 DEF RecoverStates, SetManager, managerVars
    <3>. QED
      BY <3>1, UpdatePositive DEF Inv, SkipInv, CutInv
  <2>3. CutInv'
    BY <2>1, <2>2 DEF SkipInv, CutInv
  <2>. QED
    BY <2>1, <2>3 DEF SkipInv, SkippedInv, Rest, Allowance, Full
<1>6. CASE UNCHANGED vars
  BY <1>6 DEF vars, managerVars, loaderVars, stateVars,
              SkipInv, CutInv, SkippedInv, Rest, Allowance, Full
<1>. QED
  BY <1>1, <1>2, <1>3, <1>4, <1>5, <1>6 DEF Next

LEMMA SkipInit ==
  ASSUME Init
  PROVE  SkipInv
<1>1. ramp.start \in Nat \ {0} /\ ramp.end \in Nat /\ ramp.start <= ramp.end
  BY RampUpAssumption DEF RampUpAssumption, Init
<1>2. ckpt.iterator = 0 /\ ckpt.seen = {}
  BY DEF Init, NoCheckpoint
<1>3. IsFiniteSet({}) /\ Cardinality({}) = 0
  BY FS_EmptySet
<1>4. /\ current = ramp.start /\ active /\ ~buffered /\ bufferStart = 0 /\ loads = 0
      /\ batch = {} /\ trained = {} /\ resumes = 0 /\ pc = "load"
  BY DEF Init
<1>5. CutInv
  BY <1>1, <1>2, <1>3, <1>4 DEF CutInv
<1>6. SkippedInv
  <2>1. trained \cup batch = {}
    BY <1>4
  <2>2. Rest = 0 /\ Allowance = (Full - 1) * 0
    BY <1>4 DEF Rest, Allowance
  <2>3. 0 * Full = 0 /\ (Full - 1) * 0 = 0 /\ (Full - 1) * (0 + 1) = Full - 1 /\ Full - 1 \in Nat
    BY <1>1 DEF Full
  <2>. QED
    BY <1>2, <1>3, <1>4, <2>1, <2>2, <2>3 DEF SkippedInv
<1>. QED
  BY <1>5, <1>6 DEF SkipInv

LEMMA SkipBound ==
  ASSUME Inv, SkipInv
  PROVE  LittleSkipped
<1>1. /\ Full \in Nat /\ loads \in Nat /\ bufferStart \in Nat /\ resumes \in Nat
      /\ Cardinality(trained \cup batch) \in Nat
  <2>1. IsFiniteSet(trained \cup batch)
    BY FS_Union DEF SkipInv, CutInv
  <2>. QED
    BY <2>1, FS_CardinalityType DEF Inv, Typed, SkipInv, CutInv
<1>2. SkippedSamples = loads * Full - Cardinality(trained \cup batch) - Rest
  BY DEF SkippedSamples, Rest
<1>3. loads * Full \in Int /\ Rest \in Int
  BY <1>1 DEF Rest
<1>4. Allowance \in Int
  <2>1. (Full - 1) * (resumes + 0) \in Int /\ (Full - 1) * (resumes + 1) \in Int
    BY <1>1
  <2>. QED
    BY <2>1 DEF Allowance
<1>5. SkippedSamples <= Allowance
  BY <1>1, <1>2, <1>3, <1>4 DEF SkipInv, SkippedInv
<1>. QED
  BY <1>5 DEF LittleSkipped, Allowance

(* Each restart and the end of the ramp skip less than one load, and nothing   *)
(* else of what the iterator yields is left untrained, for any ramps, steps    *)
(* and restarts.                                                               *)
THEOREM LittleIsSkipped == Spec => []LittleSkipped
<1>1. Init => Inv /\ SkipInv
  BY InvInit, SkipInit
<1>2. Inv /\ SkipInv /\ [Next]_vars => Inv' /\ SkipInv'
  BY InvNext, SkipNext
<1>3. Inv /\ SkipInv => LittleSkipped
  BY SkipBound
<1>. QED
  BY <1>1, <1>2, <1>3, PTL DEF Spec

-----------------------------------------------------------------------------
(* The sizes of the batches.                                                   *)

Less == {p \in Nat \X Nat : p[1] < p[2]}

(* Induction on the natural numbers, over a set.                               *)
LEMMA SetInduction ==
  ASSUME NEW T, 0 \in T, \A k \in T : k + 1 \in T
  PROVE  Nat \subseteq T
<1>1. Less = OpToRel(<, Nat)
  BY DEF OpToRel, Less
<1>2. IsWellFoundedOn(Less, Nat)
  BY <1>1, NatLessThanWellFounded
<1>3. SUFFICES ASSUME Nat \ T # {} PROVE FALSE
  OBVIOUS
<1>4. PICK x \in Nat \ T : \A y \in Nat \ T : ~ (<<y, x>> \in Less)
  BY <1>2, <1>3, WFMin
<1>5. x # 0 /\ x - 1 \in Nat
  BY <1>4
<1>6. <<x - 1, x>> \in Less
  BY <1>5 DEF Less
<1>. QED
  BY <1>4, <1>5, <1>6

LEMMA Products ==
  ASSUME NEW m \in Nat, NEW a \in Int, NEW b \in Int, a <= b
  PROVE  m * a <= m * b
<1>1. m * (b - a) >= 0
  <2>1. b - a \in Nat
    OBVIOUS
  <2>. QED
    BY <2>1
<1>2. m * (b - a) = m * b - m * a
  OBVIOUS
<1>. QED
  BY <1>1, <1>2

LEMMA Division ==
  ASSUME NEW a \in Int, NEW m \in Nat \ {0}
  PROVE  /\ a \div m \in Int /\ a % m \in 0 .. m - 1
         /\ a = m * (a \div m) + (a % m)
OBVIOUS

(* The steps it takes in steps of b to reach a.                                *)
LEMMA CeilDivReaches ==
  ASSUME NEW a \in Nat \ {0}, NEW b \in Nat \ {0}
  PROVE  /\ CeilDiv(a, b) \in Nat \ {0}
         /\ \A c \in Nat : b * c >= a <=> c >= CeilDiv(a, b)
<1> DEFINE q == CeilDiv(a, b)
           r == (a + b - 1) % b
<1>1. q \in Int /\ r \in 0 .. b - 1 /\ a + b - 1 = b * q + r
  BY Division, a + b - 1 \in Int DEF CeilDiv
<1> HIDE DEF q, r
<1>2. b * q >= a /\ b * (q - 1) = b * q - b
  BY <1>1
<1>3. q >= 1
  <2>1. SUFFICES ASSUME q <= 0 PROVE FALSE
    BY <1>1
  <2>2. b * q <= b * 0
    BY <1>1, <2>1, Products
  <2>. QED
    BY <1>1, <1>2, <2>2
<1>4. ASSUME NEW c \in Nat PROVE b * c >= a <=> c >= q
  <2>1. CASE c >= q
    <3>1. b * q <= b * c
      BY <1>1, <2>1, Products
    <3>2. b * q \in Int /\ b * c \in Int
      BY <1>1
    <3>. QED
      BY <1>2, <2>1, <3>1, <3>2
  <2>2. CASE c <= q - 1
    <3>1. b * c <= b * (q - 1)
      BY <1>1, <2>2, Products
    <3>2. b * q \in Int /\ b * c \in Int
      BY <1>1
    <3>. QED
      BY <1>1, <1>2, <2>2, <3>1, <3>2
  <2>. QED
    BY <1>1, <2>1, <2>2
<1>. QED
  BY <1>1, <1>3, <1>4 DEF q

LEMMA RampArithmetic ==
  ASSUME ramp \in Schedules
  PROVE  /\ ramp.start \in Nat \ {0} /\ ramp.increment \in Nat \ {0}
         /\ ramp.end \in Nat \ {0} /\ ramp.samples \in Nat \ {0}
         /\ NumIncrements \in Nat \ {0}
         /\ ramp.start + NumIncrements * ramp.increment = ramp.end
<1>1. /\ ramp.start \in Nat \ {0} /\ ramp.increment \in Nat \ {0}
      /\ ramp.end \in Nat \ {0} /\ ramp.samples \in Nat \ {0}
      /\ ramp.start < ramp.end /\ (ramp.end - ramp.start) % ramp.increment = 0
  BY RampUpAssumption DEF RampUpAssumption
<1> DEFINE d == ramp.end - ramp.start
           N == NumIncrements
<1>2. N \in Int /\ d \in Nat \ {0} /\ d = ramp.increment * N
  <2>1. d \in Nat \ {0} /\ d % ramp.increment = 0 /\ N = d \div ramp.increment
    BY <1>1 DEF NumIncrements
  <2> HIDE DEF d, N
  <2>2. /\ d \div ramp.increment \in Int
        /\ d = ramp.increment * (d \div ramp.increment) + (d % ramp.increment)
    <3>1. d \in Int /\ ramp.increment \in Nat \ {0}
      BY <1>1, <2>1
    <3>. QED
      BY <3>1, Division, Zenon
  <2>3. ramp.increment * N \in Int
    BY <1>1, <2>1, <2>2
  <2>. QED
    BY <2>1, <2>2, <2>3
<1>3. N >= 1
  <2>1. SUFFICES ASSUME N <= 0 PROVE FALSE
    BY <1>2
  <2> HIDE DEF N
  <2>2. ramp.increment * N <= ramp.increment * 0
    BY <1>1, <1>2, <2>1, Products
  <2>. QED
    BY <1>1, <1>2, <2>2
<1>4. ramp.increment * N = N * ramp.increment
  BY <1>1, <1>2
<1>. QED
  BY <1>1, <1>2, <1>3, <1>4

LEMMA StageSizes ==
  ASSUME ramp \in Schedules
  PROVE  /\ StageSize(0) = ramp.start /\ StageSize(NumIncrements) = Full
         /\ \A j \in 0 .. NumIncrements :
              StageSize(j) \in Nat \ {0} /\ StageSize(j) <= Full
         /\ \A j \in 0 .. NumIncrements - 1 :
              /\ StageSize(j + 1) = StageSize(j) + ramp.increment
              /\ StageSize(j) < Full
<1> DEFINE N == NumIncrements
           d == ramp.increment
<1>1. /\ ramp.start \in Nat \ {0} /\ d \in Nat \ {0} /\ N \in Nat \ {0}
      /\ ramp.start + N * d = Full /\ Full \in Nat
  BY RampArithmetic DEF Full
<1>2. \A j : StageSize(j) = ramp.start + j * d
  BY DEF StageSize
<1> HIDE DEF N, d
<1>3. StageSize(0) = ramp.start /\ StageSize(N) = Full
  BY <1>1, <1>2
<1>4. ASSUME NEW j \in 0 .. N
      PROVE  StageSize(j) \in Nat \ {0} /\ StageSize(j) <= Full
  <2>1. d * 0 <= d * j /\ d * j <= d * N
    BY <1>1, Products
  <2>2. d * j = j * d /\ d * N = N * d /\ d * 0 = 0 /\ j * d \in Int /\ N * d \in Int
    BY <1>1
  <2>. QED
    BY <1>1, <1>2, <2>1, <2>2
<1>5. ASSUME NEW j \in 0 .. N - 1
      PROVE  StageSize(j + 1) = StageSize(j) + d /\ StageSize(j) < Full
  <2>1. (j + 1) * d = j * d + d /\ j * d \in Int
    BY <1>1
  <2>2. StageSize(j + 1) = StageSize(j) + d
    BY <1>1, <1>2, <2>1
  <2>3. j + 1 \in 0 .. N
    BY <1>1
  <2>4. StageSize(j + 1) <= Full
    BY <1>4, <2>3
  <2>5. StageSize(j) \in Int
    BY <1>1, <1>2, <2>1
  <2>. QED
    BY <1>1, <2>2, <2>4, <2>5
<1>. QED
  BY <1>3, <1>4, <1>5 DEF N, d

(* A stage is over with the step at which its share of the samples is reached. *)
LEMMA StageStepsReach ==
  ASSUME ramp \in Schedules, NEW j \in 0 .. NumIncrements
  PROVE  /\ StageSteps(j) \in Nat \ {0}
         /\ \A c \in Nat :
              (c * StageSize(j) + StageSize(j)) * NumIncrements >= ramp.samples
                <=> c + 1 >= StageSteps(j)
<1> DEFINE N == NumIncrements
           z == StageSize(j)
           q == StageSteps(j)
<1>1. N \in Nat \ {0} /\ z \in Nat \ {0} /\ ramp.samples \in Nat \ {0}
  BY RampArithmetic, StageSizes
<1>2. q = CeilDiv(ramp.samples, N * z)
  BY DEF StageSteps
<1> HIDE DEF N, z, q
<1>3. N * z \in Nat \ {0}
  BY <1>1
<1>4. q \in Nat \ {0} /\ \A c \in Nat : (N * z) * c >= ramp.samples <=> c >= q
  BY <1>1, <1>2, <1>3, CeilDivReaches
<1>5. ASSUME NEW c \in Nat
      PROVE  (c * z + z) * N >= ramp.samples <=> c + 1 >= q
  <2>1. (c * z + z) * N = (N * z) * (c + 1)
    BY <1>1
  <2>. QED
    BY <1>4, <2>1
<1>. QED
  BY <1>4, <1>5 DEF N, z, q

(* The ends of the stages, by their recursion.                                 *)
Ends(e, k) ==
  /\ e \in [0 .. k -> Nat]
  /\ \A j \in 0 .. k : e[j] = StageSteps(j) + (IF j = 0 THEN 0 ELSE e[j - 1])

LEMMA EndsExist ==
  ASSUME ramp \in Schedules
  PROVE  \A k \in 0 .. NumIncrements - 1 : \E e : Ends(e, k)
<1> DEFINE T == {k \in Nat : k <= NumIncrements - 1 => \E e : Ends(e, k)}
<1>0. NumIncrements \in Nat
  BY RampArithmetic
<1>1. 0 \in T
  <2>1. StageSteps(0) \in Nat
    BY <1>0, StageStepsReach
  <2>2. Ends([j \in 0 .. 0 |-> StageSteps(0)], 0)
    BY <2>1 DEF Ends
  <2>. QED
    BY <2>2
<1>2. ASSUME NEW k \in T PROVE k + 1 \in T
  <2>. SUFFICES ASSUME k + 1 <= NumIncrements - 1
                PROVE  \E e : Ends(e, k + 1)
    OBVIOUS
  <2>1. PICK e : Ends(e, k)
    BY <1>0
  <2> DEFINE f == [j \in 0 .. k + 1 |-> IF j <= k THEN e[j] ELSE StageSteps(k + 1) + e[k]]
  <2>2. StageSteps(k + 1) \in Nat
    BY <1>0, StageStepsReach
  <2>3. f \in [0 .. k + 1 -> Nat]
    BY <2>1, <2>2 DEF Ends
  <2>4. ASSUME NEW j \in 0 .. k + 1
        PROVE  f[j] = StageSteps(j) + (IF j = 0 THEN 0 ELSE f[j - 1])
    BY <2>1 DEF Ends
  <2>5. Ends(f, k + 1)
    BY <2>3, <2>4 DEF Ends
  <2>. QED
    BY <2>5
<1>3. Nat \subseteq T
  BY <1>1, <1>2, SetInduction
<1>. QED
  BY <1>0, <1>3

LEMMA StageEndIs ==
  ASSUME ramp \in Schedules
  PROVE  Ends(StageEnd, NumIncrements - 1)
<1> DEFINE k == NumIncrements - 1
           F(e) == [j \in 0 .. k |-> StageSteps(j) + (IF j = 0 THEN 0 ELSE e[j - 1])]
<1>0. k \in Nat
  BY RampArithmetic
<1>1. PICK e : Ends(e, k)
  BY <1>0, EndsExist
<1>2. e = F(e)
  BY <1>1 DEF Ends
<1>3. StageEnd = CHOOSE end : end = F(end)
  BY DEF StageEnd
<1>4. StageEnd = F(StageEnd)
  BY <1>2, <1>3
<1>5. ASSUME NEW j \in 0 .. k PROVE StageEnd[j] \in Nat
  <2> DEFINE T == {m \in Nat : m <= k => StageEnd[m] \in Nat}
  <2>1. \A m \in 0 .. k : StageSteps(m) \in Nat
    BY RampArithmetic, StageStepsReach
  <2> HIDE DEF k
  <2>2. /\ StageEnd[0] = StageSteps(0) + 0
        /\ \A m \in 1 .. k : StageEnd[m] = StageSteps(m) + StageEnd[m - 1]
    BY <1>0, <1>4
  <2>3. 0 \in T
    BY <1>0, <2>1, <2>2
  <2>4. ASSUME NEW m \in T PROVE m + 1 \in T
    <3>. SUFFICES ASSUME m + 1 <= k PROVE StageEnd[m + 1] \in Nat
      OBVIOUS
    <3>1. m + 1 \in 1 .. k /\ StageEnd[m] \in Nat /\ (m + 1) - 1 = m
      BY <1>0
    <3>2. StageEnd[m + 1] = StageSteps(m + 1) + StageEnd[m]
      BY <2>2, <3>1
    <3>. QED
      BY <2>1, <3>1, <3>2
  <2>5. Nat \subseteq T
    BY <2>3, <2>4, SetInduction
  <2>. QED
    BY <1>0, <2>5
<1>. QED
  BY <1>4, <1>5 DEF Ends

(* The updates made before stage s begins.                                     *)
Before(s) == IF s = 0 THEN 0 ELSE StageEnd[s - 1]

LEMMA StageEnds ==
  ASSUME ramp \in Schedules
  PROVE  /\ DOMAIN StageEnd = 0 .. NumIncrements - 1
         /\ \A s \in 0 .. NumIncrements : Before(s) \in Nat
         /\ \A j \in 0 .. NumIncrements - 1 :
              StageEnd[j] \in Nat /\ StageEnd[j] = Before(j) + StageSteps(j)
         /\ \A i, j \in 0 .. NumIncrements - 1 : i < j => StageEnd[i] < StageEnd[j]
<1> DEFINE N == NumIncrements
           T == {m \in Nat : m <= N - 1 => \A i \in 0 .. m - 1 : StageEnd[i] < StageEnd[m]}
<1>0. N \in Nat \ {0}
  BY RampArithmetic
<1>1. /\ StageEnd \in [0 .. N - 1 -> Nat]
      /\ \A j \in 0 .. N - 1 :
           StageEnd[j] = StageSteps(j) + (IF j = 0 THEN 0 ELSE StageEnd[j - 1])
  BY StageEndIs DEF Ends
<1>2. \A j \in 0 .. N - 1 : StageSteps(j) \in Nat \ {0}
  BY <1>0, StageStepsReach
<1> HIDE DEF N
<1>3. 0 \in T
  OBVIOUS
<1>4. ASSUME NEW m \in T PROVE m + 1 \in T
  <2>. SUFFICES ASSUME m + 1 <= N - 1, NEW i \in 0 .. m
                PROVE  StageEnd[i] < StageEnd[m + 1]
    OBVIOUS
  <2>1. StageEnd[m + 1] = StageSteps(m + 1) + StageEnd[m]
    BY <1>0, <1>1, (m + 1) - 1 = m
  <2>2. StageEnd[m] \in Nat /\ StageEnd[m + 1] \in Nat /\ StageEnd[i] \in Nat
    BY <1>0, <1>1
  <2>3. StageEnd[m] < StageEnd[m + 1]
    BY <1>0, <1>2, <2>1, <2>2
  <2>4. i = m \/ StageEnd[i] < StageEnd[m]
    BY <1>0
  <2>. QED
    BY <2>2, <2>3, <2>4
<1>5. Nat \subseteq T
  BY <1>3, <1>4, SetInduction
<1>6. \A s \in 0 .. N : Before(s) \in Nat
  BY <1>0, <1>1 DEF Before
<1>7. \A j \in 0 .. N - 1 : StageEnd[j] \in Nat /\ StageEnd[j] = Before(j) + StageSteps(j)
  BY <1>0, <1>1, <1>2 DEF Before
<1>8. \A i, j \in 0 .. N - 1 : i < j => StageEnd[i] < StageEnd[j]
  BY <1>0, <1>5
<1>. QED
  BY <1>1, <1>6, <1>7, <1>8 DEF N

(* The manager after u updates: in stage s, with c of its steps done.          *)
Reached(m, u, s, c) ==
  /\ m.current = StageSize(s) /\ u = Before(s) + c
  /\ s < NumIncrements => m.accum = c * StageSize(s) /\ c < StageSteps(s)

ManagerAt(m, u) == \E s \in 0 .. NumIncrements, c \in Nat : Reached(m, u, s, c)

LEMMA StartReaches ==
  ASSUME ramp \in Schedules
  PROVE  ManagerAt(Start, 0)
<1>1. /\ 0 \in 0 .. NumIncrements /\ StageSteps(0) \in Nat \ {0}
      /\ StageSize(0) = ramp.start /\ StageSize(0) \in Nat
  BY RampArithmetic, StageSizes, StageStepsReach
<1>2. Start.current = StageSize(0) /\ Start.accum = 0 * StageSize(0)
  BY <1>1 DEF Start
<1>3. Reached(Start, 0, 0, 0)
  BY <1>1, <1>2 DEF Reached, Before
<1>. QED
  BY <1>1, <1>3 DEF ManagerAt

LEMMA UpdateReaches ==
  ASSUME ramp \in Schedules, NEW u \in Nat, NEW m, ManagerAt(m, u)
  PROVE  ManagerAt(Updated(m), u + 1)
<1>1. PICK s \in 0 .. NumIncrements, c \in Nat : Reached(m, u, s, c)
  BY DEF ManagerAt
<1>2. /\ ramp.increment \in Nat \ {0} /\ NumIncrements \in Nat \ {0} /\ Full \in Nat
      /\ Before(s) \in Nat /\ StageSize(s) \in Nat \ {0} /\ StageSize(s) <= Full
  BY RampArithmetic, StageEnds, StageSizes DEF Full
<1>3. CASE s = NumIncrements
  <2>1. m.current = Full
    BY <1>1, <1>3, StageSizes DEF Reached
  <2>2. Updated(m).current = Full
    BY <1>2, <2>1 DEF Updated, Lesser
  <2>3. Reached(Updated(m), u + 1, s, c + 1)
    BY <1>1, <1>2, <1>3, <2>1, <2>2 DEF Reached
  <2>. QED
    BY <2>3 DEF ManagerAt
<1>4. CASE s # NumIncrements
  <2> DEFINE full == (m.accum + m.current) * NumIncrements >= ramp.samples
  <2>0. s \in 0 .. NumIncrements - 1
    BY <1>2, <1>4
  <2>1. /\ m.current = StageSize(s) /\ m.accum = c * StageSize(s)
        /\ u = Before(s) + c /\ c < StageSteps(s)
    BY <1>1, <1>2, <2>0 DEF Reached
  <2>2. StageSteps(s) \in Nat /\ (full <=> c + 1 >= StageSteps(s))
    BY <2>1, StageStepsReach
  <2>3. /\ Updated(m).current
             = IF full THEN Lesser(m.current + ramp.increment, Full) ELSE m.current
        /\ Updated(m).accum = IF full THEN 0 ELSE m.accum + m.current
    BY DEF Updated
  <2> HIDE DEF full
  <2>4. CASE full
    <3>1. c + 1 = StageSteps(s)
      BY <2>1, <2>2, <2>4
    <3>2. /\ StageSize(s + 1) = StageSize(s) + ramp.increment
          /\ StageSize(s + 1) <= Full /\ s + 1 \in 0 .. NumIncrements
          /\ StageSize(s + 1) \in Nat
      BY <1>2, <2>0, StageSizes
    <3>3. Updated(m).current = StageSize(s + 1) /\ Updated(m).accum = 0
      BY <1>2, <2>1, <2>3, <2>4, <3>2 DEF Lesser
    <3>4. u + 1 = Before(s + 1) + 0
      <4>1. StageEnd[s] = Before(s) + StageSteps(s)
        BY <2>0, StageEnds
      <4>2. Before(s + 1) = StageEnd[s]
        BY <2>0 DEF Before
      <4>. QED
        BY <1>2, <2>1, <2>2, <3>1, <4>1, <4>2
    <3>5. s + 1 < NumIncrements => 0 < StageSteps(s + 1)
      BY <3>2, StageStepsReach
    <3>6. 0 * StageSize(s + 1) = 0
      BY <3>2
    <3>7. Reached(Updated(m), u + 1, s + 1, 0)
      BY <3>3, <3>4, <3>5, <3>6 DEF Reached
    <3>. QED
      BY <3>2, <3>7 DEF ManagerAt
  <2>5. CASE ~full
    <3>1. c + 1 < StageSteps(s)
      BY <2>1, <2>2, <2>5
    <3>2. (c + 1) * StageSize(s) = c * StageSize(s) + StageSize(s)
      BY <1>2
    <3>3. u + 1 = Before(s) + (c + 1)
      BY <1>2, <2>1
    <3>4. Reached(Updated(m), u + 1, s, c + 1)
      BY <2>1, <2>3, <2>5, <3>1, <3>2, <3>3 DEF Reached
    <3>. QED
      BY <3>4 DEF ManagerAt
  <2>. QED
    BY <2>4, <2>5
<1>. QED
  BY <1>3, <1>4

(* Whatever the schedule gives to step u is the size of the stage u lies in.   *)
LEMMA SizeInStage ==
  ASSUME ramp \in Schedules, NEW u \in Nat, NEW s \in 0 .. NumIncrements,
         Before(s) <= u, s < NumIncrements => u < StageEnd[s]
  PROVE  ScheduledSize(u) = StageSize(s)
<1> DEFINE N == NumIncrements
           passed == {j \in DOMAIN StageEnd : StageEnd[j] <= u}
<1>1. /\ N \in Nat \ {0} /\ DOMAIN StageEnd = 0 .. N - 1
      /\ \A j \in 0 .. N - 1 : StageEnd[j] \in Nat
      /\ \A i, j \in 0 .. N - 1 : i < j => StageEnd[i] < StageEnd[j]
  BY RampArithmetic, StageEnds
<1> HIDE DEF N
<1>2. s \in 0 .. N /\ (s < N => u < StageEnd[s])
  BY DEF N
<1>3. ASSUME NEW j \in 0 .. N - 1
      PROVE  StageEnd[j] <= u <=> j \in 0 .. s - 1
  <2>1. CASE j < s
    <3>1. s # 0 /\ s - 1 \in 0 .. N - 1 /\ StageEnd[s - 1] <= u
      BY <1>1, <1>2, <2>1 DEF Before
    <3>2. j = s - 1 \/ StageEnd[j] < StageEnd[s - 1]
      BY <1>1, <1>2, <2>1, <3>1
    <3>3. StageEnd[j] \in Nat /\ StageEnd[s - 1] \in Nat
      BY <1>1, <3>1
    <3>. QED
      BY <1>2, <2>1, <3>1, <3>2, <3>3
  <2>2. CASE j >= s
    <3>1. s \in 0 .. N - 1 /\ u < StageEnd[s]
      BY <1>1, <1>2, <2>2
    <3>2. j = s \/ StageEnd[s] < StageEnd[j]
      BY <1>1, <1>2, <2>2, <3>1
    <3>3. StageEnd[j] \in Nat /\ StageEnd[s] \in Nat
      BY <1>1, <3>1
    <3>. QED
      BY <1>2, <2>2, <3>1, <3>2, <3>3
  <2>. QED
    BY <1>2, <2>1, <2>2
<1>4. passed = 0 .. s - 1
  <2>1. 0 .. s - 1 \subseteq 0 .. N - 1
    BY <1>1, <1>2
  <2>. QED
    BY <1>1, <1>3, <2>1
<1> HIDE DEF passed
<1>5. Cardinality(passed) = s
  <2>1. s - 1 \in Int /\ 0 \in Int
    BY <1>2
  <2>2. Cardinality(0 .. s - 1) = IF 0 > s - 1 THEN 0 ELSE (s - 1) - 0 + 1
    BY <2>1, FS_Interval, Zenon
  <2>. QED
    BY <1>2, <1>4, <2>2
<1>6. ScheduledSize(u) = StageSize(Cardinality(passed))
  BY DEF ScheduledSize, passed
<1>. QED
  BY <1>5, <1>6

LEMMA ReachedIsScheduled ==
  ASSUME ramp \in Schedules, NEW u \in Nat, NEW m, ManagerAt(m, u)
  PROVE  /\ m.current = ScheduledSize(u)
         /\ m.current < Full \/ u >= RampupEndStep
<1>1. PICK s \in 0 .. NumIncrements, c \in Nat : Reached(m, u, s, c)
  BY DEF ManagerAt
<1>2. NumIncrements \in Nat \ {0} /\ Before(s) \in Nat
  BY RampArithmetic, StageEnds
<1>3. m.current = StageSize(s) /\ Before(s) <= u
  BY <1>1, <1>2 DEF Reached
<1>4. CASE s < NumIncrements
  <2>1. s \in 0 .. NumIncrements - 1
    BY <1>2, <1>4
  <2>2. StageEnd[s] = Before(s) + StageSteps(s) /\ StageSteps(s) \in Nat
    BY <2>1, StageEnds, StageStepsReach
  <2>3. u < StageEnd[s]
    BY <1>1, <1>2, <1>4, <2>2 DEF Reached
  <2>. QED
    BY <1>3, <2>1, <2>3, SizeInStage, StageSizes
<1>5. CASE s = NumIncrements
  <2>1. u >= RampupEndStep
    BY <1>2, <1>3, <1>5 DEF Before, RampupEndStep
  <2>. QED
    BY <1>2, <1>3, <1>5, <2>1, SizeInStage
<1>. QED
  BY <1>2, <1>4, <1>5

LEMMA FullAfterTheRamp ==
  ASSUME ramp \in Schedules, NEW u \in Nat, u >= RampupEndStep
  PROVE  ScheduledSize(u) = Full
<1>1. NumIncrements \in Nat \ {0} /\ NumIncrements \in 0 .. NumIncrements
  BY RampArithmetic
<1>2. Before(NumIncrements) <= u
  BY <1>1 DEF Before, RampupEndStep
<1>. QED
  BY <1>1, <1>2, SizeInStage, StageSizes

(* The updates the manager has made, or more than the ramp needs.              *)
Updates(k) == IF active THEN ManagerAt(Manager, k) ELSE k >= RampupEndStep

(* Updates there should be: the step in progress has had its own.              *)
Done == n + (IF pc = "train" THEN 1 ELSE 0)

Positive(k) == IF k > 0 THEN k ELSE 0

(* The manager is where the steps say, or one behind after a restart. While it *)
(* recovers, what it has to replay makes up the difference.                    *)
ScheduleInv ==
  /\ ramp \in Schedules /\ n \in Nat /\ resumes \in Nat
  /\ replay \in Int /\ ckpt.step \in Int /\ ckpt.step >= -1
  /\ pc = "recover" =>
       /\ resumes > 0 /\ n = ckpt.step + 1 /\ active /\ replay <= ckpt.step
       /\ ManagerAt(Manager, Positive(ckpt.step) - Positive(replay))
  /\ pc # "recover" =>
       \/ Updates(Done)
       \/ resumes > 0 /\ Done > 0 /\ Updates(Done - 1)
  /\ OnSchedule

(* The schedule of a run does not change.                                      *)
LEMMA RampStays ==
  ASSUME UNCHANGED ramp
  PROVE  /\ RampupEndStep' = RampupEndStep
         /\ \A k : ScheduledSize(k)' = ScheduledSize(k)
         /\ \A k : ManagerAt(Manager, k)' <=> ManagerAt(Manager', k)
<1>1. NumIncrements' = NumIncrements
  BY DEF NumIncrements
<1>2. \A j : StageSize(j)' = StageSize(j)
  BY DEF StageSize
<1>3. \A j : StageSteps(j)' = StageSteps(j)
  BY <1>1, <1>2 DEF StageSteps
<1>4. StageEnd' = StageEnd
  BY <1>1, <1>3 DEF StageEnd
<1>5. RampupEndStep' = RampupEndStep
  BY <1>1, <1>4 DEF RampupEndStep
<1>6. \A k : ScheduledSize(k)' = ScheduledSize(k)
  BY <1>2, <1>4 DEF ScheduledSize
<1>7. \A k : ManagerAt(Manager, k)' <=> ManagerAt(Manager', k)
  BY <1>1, <1>2, <1>3, <1>4 DEF ManagerAt, Reached, Before
<1>. QED
  BY <1>5, <1>6, <1>7

LEMMA ManagerIs ==
  /\ Manager.current = current
  /\ Start = [current |-> ramp.start, accum |-> 0, used |-> 0]
  /\ \A m : SetManager(m) /\ m = [current |-> m.current, accum |-> m.accum, used |-> m.used]
       => Manager' = m
BY DEF Manager, Start, SetManager

(* A batch of the step in progress has the size of step k.                     *)
LEMMA LoadOnSchedule ==
  ASSUME Inv, CutInv, ScheduleInv, LoadWhileRamping \/ LoadFull,
         NEW k \in Nat, Updates(k)
  PROVE  Cardinality(batch') = ScheduledSize(k) /\ Updates(k + 1)'
<1>1. UNCHANGED ramp /\ ramp \in Schedules
  BY DEF LoadWhileRamping, LoadFull, ScheduleInv
<1>2. /\ Full \in Nat /\ loads \in Nat
  BY DEF Inv, Typed
<1>3. CASE LoadFull
  <2>1. loads' = loads + 1 /\ batch' = Slice(loads', 0, Full) /\ ~active /\ ~active'
    BY <1>3 DEF LoadFull, loaderVars
  <2>2. Cardinality(batch') = Full
    BY <1>2, <2>1, SliceCardinality
  <2>3. k >= RampupEndStep
    BY <2>1 DEF Updates
  <2>4. ScheduledSize(k) = Full
    BY <1>1, <2>3, FullAfterTheRamp
  <2>5. RampupEndStep \in Nat
    <3>1. NumIncrements \in Nat \ {0}
      BY <1>1, RampArithmetic
    <3>. QED
      BY <1>1, <3>1, StageEnds DEF RampupEndStep
  <2>6. k + 1 >= RampupEndStep'
    BY <1>1, <2>3, <2>5, RampStays
  <2>. QED
    BY <2>1, <2>2, <2>4, <2>6 DEF Updates
<1>4. CASE LoadWhileRamping
  <2>1. /\ active /\ active' = (current' < Full)
        /\ Manager' = Updated(Manager)
    BY <1>4 DEF LoadWhileRamping, SetManager, Manager, Updated
  <2>2. ManagerAt(Manager, k)
    BY <2>1 DEF Updates
  <2>3. ManagerAt(Updated(Manager), k + 1)
    BY <1>1, <2>2, UpdateReaches
  <2>4. Cardinality(batch') = current
    BY <1>4, BatchCounts
  <2>5. current = ScheduledSize(k)
    BY <1>1, <2>2, ReachedIsScheduled DEF Manager
  <2>6. CASE active'
    <3>1. ManagerAt(Manager, k + 1)'
      BY <1>1, <2>1, <2>3, RampStays
    <3>. QED
      BY <2>4, <2>5, <2>6, <3>1 DEF Updates
  <2>7. CASE ~active'
    <3>1. Updated(Manager).current = current'
      BY <2>1 DEF Manager
    <3>2. k + 1 >= RampupEndStep
      <4>1. Updated(Manager).current < Full \/ k + 1 >= RampupEndStep
        BY <1>1, <2>3, k + 1 \in Nat, ReachedIsScheduled
      <4>. QED
        BY <2>1, <2>7, <3>1, <4>1
    <3>3. k + 1 >= RampupEndStep'
      BY <1>1, <3>2, RampStays
    <3>. QED
      BY <2>4, <2>5, <2>7, <3>3 DEF Updates
  <2>. QED
    BY <2>1, <2>6, <2>7
<1>. QED
  BY <1>3, <1>4

LEMMA ScheduleNext ==
  ASSUME Inv, CutInv, ScheduleInv, [Next]_vars
  PROVE  ScheduleInv'
<1>0. ramp' = ramp
  BY DEF Next, vars, LoadWhileRamping, LoadFull, TrainStep, MaybeSave, Resume, RecoverStates
<1>1. CASE LoadWhileRamping \/ LoadFull
  <2>1. /\ pc = "load" /\ pc' = "train" /\ UNCHANGED <<n, resumes, replay, ckpt>>
    BY <1>1 DEF LoadWhileRamping, LoadFull, stateVars
  <2>2. Done = n /\ Done' = n + 1 /\ n \in Nat /\ resumes \in Nat
    BY <2>1 DEF Done, ScheduleInv
  <2>3. CASE Updates(n)
    <3>0. PICK k \in Nat : k = n
      BY <2>2
    <3>1. Cardinality(batch') = ScheduledSize(k) /\ Updates(k + 1)'
      BY <1>1, <2>3, <3>0, LoadOnSchedule
    <3>2. Updates(Done)'
      BY <2>2, <3>0, <3>1
    <3>3. OnSchedule'
      <4>1. ScheduledSize(k)' = ScheduledSize(k) /\ n' = k
        BY <1>0, <2>1, <3>0, RampStays
      <4>. QED
        BY <3>1, <4>1 DEF OnSchedule
    <3>. QED
      BY <1>0, <2>1, <3>2, <3>3 DEF ScheduleInv
  <2>4. CASE resumes > 0 /\ n > 0 /\ Updates(n - 1)
    <3>0. PICK k \in Nat : k = n - 1
      BY <2>2, <2>4
    <3>1. Cardinality(batch') = ScheduledSize(k) /\ Updates(k + 1)'
      BY <1>1, <2>4, <3>0, LoadOnSchedule
    <3>2. k + 1 = Done' - 1 /\ Done' > 0
      BY <2>2, <3>0
    <3>3. Updates(Done - 1)'
      BY <3>1, <3>2
    <3>4. OnSchedule'
      <4>1. ScheduledSize(k)' = ScheduledSize(k) /\ n' - 1 = k /\ resumes' > 0
        BY <1>0, <2>1, <2>4, <3>0, RampStays
      <4>. QED
        BY <3>1, <4>1 DEF OnSchedule
    <3>. QED
      BY <1>0, <2>1, <2>4, <3>2, <3>3, <3>4 DEF ScheduleInv
  <2>. QED
    BY <2>1, <2>2, <2>3, <2>4 DEF ScheduleInv
<1>2. CASE TrainStep \/ MaybeSave \/ UNCHANGED vars
  <2>1. /\ UNCHANGED <<active, current, accum, totalUsed, resumes, replay, batch>>
        /\ pc = "recover" <=> pc' = "recover"
    BY <1>2 DEF TrainStep, MaybeSave, vars, managerVars, loaderVars
  <2>2. n' \in Nat /\ Done' = Done /\ (pc' = "recover" => n' = n)
        /\ (pc' = "train" => pc = "train" /\ n' = n)
    BY <1>2 DEF TrainStep, MaybeSave, vars, stateVars, Done, ScheduleInv
  <2>3. ckpt'.step \in Int /\ ckpt'.step >= -1 /\ (pc' = "recover" => ckpt' = ckpt)
    <3>1. CASE MaybeSave
      <4>1. ckpt' = ckpt \/ ckpt' = [step |-> n - 1, iterator |-> loads, seen |-> trained]
        BY <3>1 DEF MaybeSave
      <4>2. ckpt' = ckpt \/ ckpt'.step = n - 1
        BY <4>1
      <4>3. pc' # "recover"
        BY <3>1 DEF MaybeSave
      <4>. QED
        BY <4>2, <4>3 DEF ScheduleInv
    <3>2. CASE TrainStep \/ UNCHANGED vars
      <4>1. ckpt' = ckpt
        BY <3>2 DEF TrainStep, vars
      <4>. QED
        BY <4>1 DEF ScheduleInv
    <3>. QED
      BY <1>2, <3>1, <3>2
  <2>4. Manager' = Manager
    BY <2>1 DEF Manager
  <2>5. /\ \A k : ManagerAt(Manager, k)' <=> ManagerAt(Manager, k)
        /\ \A k : Updates(k)' <=> Updates(k)
    BY <1>0, <2>1, <2>4, RampStays DEF Updates
  <2>6. OnSchedule'
    BY <1>0, <2>1, <2>2, RampStays DEF ScheduleInv, OnSchedule
  <2>7. CASE pc = "recover"
    <3>1. ManagerAt(Manager, Positive(ckpt.step) - Positive(replay))'
      BY <2>1, <2>3, <2>4, <2>5, <2>7 DEF ScheduleInv, Positive
    <3>. QED
      BY <1>0, <2>1, <2>2, <2>3, <2>6, <2>7, <3>1 DEF ScheduleInv
  <2>8. CASE pc # "recover"
    <3>1. \/ Updates(Done)'
          \/ resumes' > 0 /\ Done' > 0 /\ Updates(Done - 1)'
      BY <2>1, <2>2, <2>5, <2>8 DEF ScheduleInv
    <3>. QED
      BY <1>0, <2>1, <2>2, <2>3, <2>6, <2>8, <3>1 DEF ScheduleInv
  <2>. QED
    BY <2>7, <2>8
<1>3. CASE Resume
  <2>1. /\ Manager' = Start /\ replay' = ckpt.step /\ active' = TRUE
        /\ n' = ckpt.step + 1 /\ pc' = "recover" /\ resumes' = resumes + 1 /\ ckpt' = ckpt
    BY <1>3 DEF Resume, SetManager, Start, Manager
  <2>2. Positive(ckpt'.step) - Positive(replay') = 0
    BY <2>1 DEF Positive, ScheduleInv
  <2>3. ManagerAt(Manager, 0)'
    BY <1>0, <2>1, StartReaches, RampStays DEF ScheduleInv
  <2>4. OnSchedule'
    BY <2>1 DEF OnSchedule
  <2>5. ManagerAt(Manager, Positive(ckpt.step) - Positive(replay))'
    BY <2>2, <2>3
  <2>. QED
    BY <1>0, <2>1, <2>4, <2>5 DEF ScheduleInv
<1>4. CASE RecoverStates
  <2>1. pc = "recover" /\ UNCHANGED <<n, resumes, ckpt, active>> /\ pc' \in {"recover", "load"}
    BY <1>4 DEF RecoverStates, stateVars, loaderVars
  <2>2. /\ resumes > 0 /\ n = ckpt.step + 1 /\ active /\ replay <= ckpt.step
        /\ ManagerAt(Manager, Positive(ckpt.step) - Positive(replay))
        /\ ckpt.step \in Int /\ ckpt.step >= -1 /\ replay \in Int /\ ramp \in Schedules
        /\ n \in Nat /\ resumes \in Nat
    BY <2>1 DEF ScheduleInv
  <2>3. PICK u \in Nat : u = Positive(ckpt.step) - Positive(replay)
    BY <2>2 DEF Positive
  <2>4. OnSchedule'
    BY <2>1 DEF OnSchedule
  <2>5. CASE replay > 0
    <3>1. Manager' = Updated(Manager) /\ replay' = replay - 1 /\ pc' = "recover"
      BY <1>4, <2>1, <2>5 DEF RecoverStates, SetManager, Manager, Updated
    <3>2. ManagerAt(Updated(Manager), u + 1)
      BY <2>2, <2>3, UpdateReaches
    <3>3. Positive(ckpt'.step) - Positive(replay') = u + 1
      BY <2>1, <2>2, <2>3, <2>5, <3>1 DEF Positive
    <3>4. ManagerAt(Manager, u + 1)'
      BY <1>0, <3>1, <3>2, RampStays
    <3>5. ManagerAt(Manager, Positive(ckpt.step) - Positive(replay))'
      BY <3>3, <3>4
    <3>. QED
      BY <1>0, <2>1, <2>2, <2>4, <3>1, <3>5 DEF ScheduleInv
  <2>6. CASE ~(replay > 0)
    <3>1. Manager' = Manager /\ replay' = replay /\ pc' = "load"
      BY <1>4, <2>6 DEF RecoverStates, managerVars, Manager
    <3>2. Done' = n /\ u = Positive(ckpt.step)
      BY <2>1, <2>2, <2>3, <2>6, <3>1 DEF Done, Positive
    <3>3. \A k : Updates(k)' <=> ManagerAt(Manager, k)
      BY <1>0, <2>1, <2>2, <3>1, RampStays DEF Updates
    <3>4. CASE ckpt.step >= 0
      <4>1. u = n - 1 /\ Done' > 0
        BY <2>2, <3>2, <3>4 DEF Positive
      <4>2. Updates(Done - 1)'
        BY <2>2, <2>3, <3>2, <3>3, <4>1
      <4>. QED
        BY <1>0, <2>1, <2>2, <2>4, <3>1, <4>1, <4>2 DEF ScheduleInv
    <3>5. CASE ckpt.step = -1
      <4>1. u = n
        BY <2>2, <3>2, <3>5 DEF Positive
      <4>2. Updates(Done)'
        BY <2>2, <2>3, <3>2, <3>3, <4>1
      <4>. QED
        BY <1>0, <2>1, <2>2, <2>4, <3>1, <4>2 DEF ScheduleInv
    <3>. QED
      BY <2>2, <3>4, <3>5
  <2>. QED
    BY <2>5, <2>6
<1>. QED
  BY <1>1, <1>2, <1>3, <1>4 DEF Next

LEMMA ScheduleInit ==
  ASSUME Init
  PROVE  ScheduleInv
<1>1. /\ ramp \in Schedules /\ n = 0 /\ resumes = 0 /\ replay = -1 /\ ckpt.step = -1
      /\ pc = "load" /\ active /\ Manager = Start
  BY DEF Init, NoCheckpoint, Manager, Start
<1>2. Updates(Done)
  BY <1>1, StartReaches DEF Updates, Done
<1>. QED
  BY <1>1, <1>2 DEF ScheduleInv, OnSchedule

(* Every batch has the size the configured schedule gives its step, or, after  *)
(* a restart, the step before it, for any ramps, steps and restarts.           *)
THEOREM BatchesAreOnSchedule == Spec => []OnSchedule
<1>1. Init => Inv /\ SkipInv /\ ScheduleInv
  BY InvInit, SkipInit, ScheduleInit
<1>2. Inv /\ SkipInv /\ ScheduleInv /\ [Next]_vars => Inv' /\ SkipInv' /\ ScheduleInv'
  BY InvNext, SkipNext, ScheduleNext DEF SkipInv
<1>3. ScheduleInv => OnSchedule
  BY DEF ScheduleInv
<1>. QED
  BY <1>1, <1>2, <1>3, PTL DEF Spec
=============================================================================
