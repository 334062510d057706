---------------------------- MODULE PipelineProofs ----------------------------
(***************************************************************************)
(* What holds of both pipelines for any number of stages, microbatches and *)
(* repeats: they compute what their layers compute one after the other.    *)
(***************************************************************************)
EXTENDS Pipeline, TLAPS

(* Division                                                                    *)

LEMMA Division ==
  ASSUME NEW a \in Int, NEW m \in Nat \ {0}
  PROVE  /\ a \div m \in Int /\ a % m \in 0 .. m - 1
         /\ a = m * (a \div m) + (a % m)
OBVIOUS

LEMMA Smaller ==
  ASSUME NEW m \in Nat \ {0}, NEW q \in Int, q >= 1
  PROVE m * q >= m
OBVIOUS

LEMMA Scaled ==
  ASSUME NEW m \in Nat, NEW a \in Int, NEW b \in Int, a <= b
  PROVE m * a <= m * b
<1>1. m * (b - a) >= 0
  <2>1. b - a \in Nat
    OBVIOUS
  <2> QED
    BY <2>1
<1>2. m * (b - a) = m * b - m * a
  OBVIOUS
<1> QED
  BY <1>1, <1>2

LEMMA Unique ==
  ASSUME NEW a \in Int, NEW m \in Nat \ {0}, NEW q \in Int, NEW r \in 0 .. m - 1, a = m * q + r
  PROVE a \div m = q /\ a % m = r
<1> DEFINE p == a \div m
           t == a % m
<1>1. p \in Int /\ t \in 0 .. m - 1 /\ a = m * p + t
  BY Division
<1> HIDE DEF p, t
<1>2. m * p - m * q = m * (p - q) /\ m * (q - p) = m * q - m * p
  BY <1>1
<1>3. CASE p - q >= 1
  <2>1. m * (p - q) >= m
    BY <1>1, <1>3, Smaller
  <2> QED BY <1>1, <1>2, <2>1
<1>4. CASE q - p >= 1
  <2>1. m * (q - p) >= m
    BY <1>1, <1>4, Smaller
  <2> QED BY <1>1, <1>2, <2>1
<1>5. p = q => t = r BY <1>1
<1> QED BY <1>1, <1>3, <1>4, <1>5 DEF p, t

LEMMA Quotient ==
  ASSUME NEW a \in Nat, NEW m \in Nat \ {0}
  PROVE a \div m >= 0
<1> DEFINE q == a \div m
           r == a % m
<1>1. q \in Int /\ r \in 0 .. m - 1 /\ a = m * q + r
  BY Division
<1> HIDE DEF q, r
<1>2. CASE 0 - q >= 1
  <2>1. m * (0 - q) >= m /\ m * (0 - q) = 0 - m * q
    BY <1>1, <1>2, Smaller
  <2> QED
    BY <1>1, <2>1
<1> QED
  BY <1>1, <1>2 DEF q

LEMMA Added ==
  ASSUME NEW a \in Int, NEW m \in Nat \ {0}, NEW n \in Int
  PROVE (a + m * n) % m = a % m /\ (a + m * n) \div m = (a \div m) + n
<1> DEFINE p == a \div m
           t == a % m
<1>1. p \in Int /\ t \in 0 .. m - 1 /\ a = m * p + t
  BY Division
<1> HIDE DEF p, t
<1>2. a + m * n = m * (p + n) + t /\ a + m * n \in Int /\ p + n \in Int
  BY <1>1
<1>3. (a + m * n) \div m = p + n /\ (a + m * n) % m = t
  BY <1>1, <1>2, Unique
<1> QED BY <1>3 DEF p, t

LEMMA Once ==
  ASSUME NEW a \in Int, NEW m \in Nat \ {0}
  PROVE (a + m) % m = a % m /\ (a + m) \div m = (a \div m) + 1
<1>1. a + m * 1 = a + m OBVIOUS
<1> QED BY <1>1, Added, 1 \in Int

LEMMA Distinct ==
  ASSUME NEW a \in Int, NEW b \in Int, NEW m \in Nat \ {0}, a < b, b < a + m
  PROVE a % m # b % m
<1> SUFFICES ASSUME a % m = b % m PROVE FALSE OBVIOUS
<1> DEFINE p == a \div m
           q == b \div m
           t == a % m
<1>1. p \in Int /\ q \in Int /\ t \in 0 .. m - 1 /\ a = m * p + t /\ b = m * q + t
  BY Division
<1> HIDE DEF p, q, t
<1>2. m * (q - p) = b - a
  BY <1>1
<1>3. CASE q - p >= 1
  <2>1. m * (q - p) >= m BY <1>1, <1>3, Smaller
  <2> QED BY <1>2, <2>1
<1>4. CASE p - q >= 0
  <2>1. m * (q - p) <= 0
    <3>1. m * (p - q) >= 0 BY <1>1, <1>4
    <3>2. m * (q - p) = 0 - m * (p - q) BY <1>1
    <3> QED BY <1>1, <3>1, <3>2
  <2> QED BY <1>2, <2>1
<1> QED BY <1>1, <1>3, <1>4

-----------------------------------------------------------------------------
(* Sizes                                                                       *)

Sizes ==
  /\ sched.stages \in Nat /\ sched.stages >= 2
  /\ sched.perStage \in Nat \ {0} /\ sched.repeats \in Nat \ {0}
  /\ sched.delay \in {1, 2} /\ sched.perStage >= sched.delay
  /\ sched.prefetch \in BOOLEAN /\ sched.noCarry \in BOOLEAN /\ sched.phaseSplit \in BOOLEAN
  /\ sched.prefetch => sched.repeats > 1 /\ sched.delay = 1
  /\ sched.phaseSplit => sched.prefetch

LEMMA SizesOfSchedule == sched \in Schedules => Sizes
  BY SchedulesAssumption DEF Sizes

RealIterations == Microbatches * sched.repeats

LEMMA Totals ==
  ASSUME Sizes
  PROVE  /\ Microbatches \in Nat \ {0} /\ Microbatches >= sched.delay * sched.stages
         /\ Microbatches >= sched.stages
         /\ Microbatches = LastStage * sched.perStage + sched.perStage
         /\ RealIterations \in Nat \ {0} /\ RealIterations >= Microbatches
         /\ RealIterations = Microbatches * LastRepeat + Microbatches
         /\ sched.repeats = 1 => RealIterations = Microbatches
         /\ Microbatches * LastRepeat \in Nat
         /\ RepeatIterations \in Nat /\ LastStage \in Stages /\ 0 \in Stages
         /\ RepeatIterations = IF sched.delay = 1 THEN LastStage ELSE LastStage + LastStage
         /\ FirstIterations = Microbatches * LastRepeat + RepeatIterations
         /\ TotalIterations = RealIterations + RepeatIterations
         /\ TotalIterations = FirstIterations + Microbatches
         /\ NeedCircStorage => sched.repeats > 1 /\ Microbatches >= RepeatIterations + 2
         /\ sched.repeats > 1 /\ ~NeedCircStorage => Microbatches = RepeatIterations + sched.delay
<1> DEFINE S == sched.stages
           P == sched.perStage
           R == sched.repeats
           M == Microbatches
<1>1. S \in Nat /\ S >= 2 /\ P \in Nat \ {0} /\ R \in Nat \ {0} /\ sched.delay \in {1, 2}
      /\ P >= sched.delay
  BY DEF Sizes
<1>2. M = S * P /\ M \in Nat
  BY <1>1 DEF Microbatches
<1>3. M >= S
  BY <1>1, <1>2, Smaller
<1>4. sched.delay = 2 => M >= S + S
  <2>1. P >= 2 => S * (P - 1) >= S
    BY <1>1, Smaller
  <2>2. S * (P - 1) = S * P - S
    BY <1>1
  <2> QED
    BY <1>1, <1>2, <2>1, <2>2
<1>5. M = (S - 1) * P + P
  BY <1>1, <1>2
<1>6. M * R = M * (R - 1) + M
  BY <1>1, <1>2
<1>7. M * (R - 1) \in Nat /\ M * R >= M /\ M * R \in Nat
  BY <1>1, <1>2, <1>6
<1>8. R = 1 => M * R = M
  BY <1>1, <1>2
<1>9. RepeatIterations = IF sched.delay = 1 THEN S - 1 ELSE (S - 1) + (S - 1)
  BY <1>1 DEF RepeatIterations, LastStage
<1>10. sched.delay * S = IF sched.delay = 1 THEN S ELSE S + S
  BY <1>1
<1>11. NeedCircStorage <=> R > 1 /\ M > (IF sched.delay = 1 THEN S ELSE S + S)
  <2>1. S * sched.delay = IF sched.delay = 1 THEN S ELSE S + S
    BY <1>1
  <2> QED
    BY <2>1 DEF NeedCircStorage
<1> HIDE DEF M
<1>12. TotalIterations = M * R + RepeatIterations /\ FirstIterations = M * (R - 1) + RepeatIterations
  BY DEF TotalIterations, FirstIterations, M
<1>13. RealIterations = M * R
  BY DEF RealIterations, M
<1> QED
  BY <1>1, <1>2, <1>3, <1>4, <1>5, <1>6, <1>7, <1>8, <1>9, <1>10, <1>11, <1>12, <1>13
     DEF Stages, LastStage, LastRepeat, M

-----------------------------------------------------------------------------
(* The invariant of the buffers                                                *)

(* Stage s is at its u-th microbatch, counted through all repeats.             *)
Place(i, s) == i - (IF sched.delay = 1 THEN s ELSE s + s)
Real(i, s) == Place(i, s) >= 0 /\ Place(i, s) < RealIterations

(* The u-th microbatch when it enters stage s.                                 *)
Entering(u, s) ==
  Activation(u % Microbatches, (u \div Microbatches) * sched.stages + s)

FromPrevious ==
  \A s \in Stages \ {0} : Real(loop_iteration, s) =>
    shift[s] = Entering(Place(loop_iteration, s), s)

Delayed ==
  sched.delay = 2 => \A s \in Stages : Real(loop_iteration - 1, s) =>
    prev_outputs[s] = Entering(Place(loop_iteration - 1, s), s + 1)

AroundAgain ==
  sched.repeats > 1 /\ ~NeedCircStorage
    /\ loop_iteration >= Microbatches /\ loop_iteration < RealIterations =>
      shift[0] = Entering(loop_iteration - Microbatches, sched.stages)

ShiftInv == FromPrevious /\ Delayed /\ AroundAgain

(* The storage holds the last outputs, one for each microbatch, but for the    *)
(* one in the mover.                                                           *)
Stored == loop_iteration - RepeatIterations - 2

MoverInv ==
  Real(loop_iteration - 1, LastStage) =>
    circ_storage_mover = Entering(Stored + 1, sched.stages)

StorageInv ==
  \A u \in Nat : u < RealIterations /\ u <= Stored /\ u > Stored - Microbatches =>
    circ_storage[u % Microbatches] = Entering(u, sched.stages)

CircInv == NeedCircStorage => MoverInv /\ StorageInv

(* state_io is a queue of all microbatches: its p-th element is read, and      *)
(* replaced by the last output, p iterations from now.                         *)
Element(s, j) == state_io[s][(loop_iteration + j) % sched.perStage]
Position(s, j) == s * sched.perStage + j

Unread(s, j) ==
  loop_iteration + Position(s, j) < Microbatches =>
    Element(s, j) = Activation(loop_iteration + Position(s, j), 0)

Written(s, j) ==
  loop_iteration + Position(s, j) >= TotalIterations =>
    Element(s, j) = Entering(loop_iteration + Position(s, j) - Microbatches - RepeatIterations,
                             sched.stages)

QueueInv ==
  \A s \in Stages, j \in 0 .. sched.perStage - 1 : Unread(s, j) /\ Written(s, j)

(* What stage s sows for its u-th microbatch.                                  *)
SownBy(u, s) ==
  [micro |-> u % Microbatches, layer |-> (u \div Microbatches) * sched.stages + s,
   grad |-> u \div Microbatches]

SownInv ==
  \A i \in 0 .. loop_iteration - 1, s \in Stages : Real(i, s) =>
    sown[i + 1][s] = SownBy(Place(i, s), s)

Sowing == [Stages -> [micro : Int, layer : Int, grad : Int]]

ShapeInv ==
  /\ sched \in Schedules
  /\ loop_iteration \in 0 .. TotalIterations
  /\ state_io \in [Stages -> [0 .. sched.perStage - 1 -> Activations]]
  /\ shift \in [Stages -> Activations]
  /\ prev_outputs \in [Stages -> Activations]
  /\ circ_storage \in [0 .. Microbatches - 1 -> Activations]
  /\ circ_storage_mover \in Activations
  /\ sown \in Seq(Sowing) /\ Len(sown) = loop_iteration

BuffersInv == ShapeInv /\ ShiftInv /\ CircInv /\ QueueInv /\ SownInv

(* The weights are those of the repeats the stages are in.                     *)
Right(w) ==
  \A s \in Stages : Real(loop_iteration, s) =>
    w[s] = Weights(Place(loop_iteration, s) \div Microbatches,
                   Place(loop_iteration, s) \div Microbatches)

-----------------------------------------------------------------------------
(* What a stage is given, and computes                                         *)

LEMMA Places ==
  ASSUME Sizes, NEW i \in Int, NEW s \in Stages
  PROVE  /\ Place(i, s) \in Int /\ Place(i, 0) = i /\ Place(i, s) <= i
         /\ Place(i, s) >= i - RepeatIterations
         /\ Place(i, LastStage) = i - RepeatIterations
         /\ Place(i, s) >= 0 => /\ Place(i, s) = Processed(i, s)
                                /\ MicrobatchId(i, s) = Place(i, s) % Microbatches
                                /\ RepeatId(i, s) = Place(i, s) \div Microbatches
<1>1. s \in Nat /\ s <= LastStage /\ LastStage \in Nat /\ sched.delay \in {1, 2}
  BY DEF Sizes, Stages, LastStage
<1>2. sched.delay * s = IF sched.delay = 1 THEN s ELSE s + s
  BY <1>1
<1>3. RepeatIterations = IF sched.delay = 1 THEN LastStage ELSE LastStage + LastStage
  BY Totals
<1>4. Place(i, s) = i - sched.delay * s
  BY <1>1, <1>2 DEF Place
<1>5. Place(i, s) >= 0 => Place(i, s) = Processed(i, s)
  BY <1>1, <1>2, <1>4 DEF Processed
<1> QED
  BY <1>1, <1>3, <1>5 DEF Place, MicrobatchId, RepeatId

(* The u-th microbatch is in a repeat that exists.                             *)
LEMMA InRepeat ==
  ASSUME Sizes, NEW u \in Int, u >= 0, u < RealIterations
  PROVE  /\ u \div Microbatches \in 0 .. LastRepeat
         /\ u % Microbatches \in 0 .. Microbatches - 1
         /\ u = Microbatches * (u \div Microbatches) + (u % Microbatches)
<1> DEFINE M == Microbatches
           q == u \div M
           r == u % M
<1>1. M \in Nat \ {0} /\ RealIterations = M * LastRepeat + M /\ LastRepeat \in Nat
  BY Totals DEF Sizes, LastRepeat
<1> HIDE DEF M
<1>2. q \in Int /\ r \in 0 .. M - 1 /\ u = M * q + r
  BY <1>1, Division
<1> HIDE DEF q, r
<1>3. q >= 0
  <2>1. CASE 0 - q >= 1
    <3>1. M * (0 - q) >= M /\ M * (0 - q) = 0 - M * q
      BY <2>1, <1>1, <1>2, Smaller
    <3> QED
      BY <1>1, <1>2, <3>1
  <2> QED
    BY <1>2, <2>1
<1>4. q <= LastRepeat
  <2>1. CASE q - LastRepeat >= 1
    <3>1. M * (q - LastRepeat) >= M /\ M * (q - LastRepeat) = M * q - M * LastRepeat
      BY <2>1, <1>1, <1>2, Smaller
    <3> QED
      BY <1>1, <1>2, <3>1
  <2> QED
    BY <1>1, <1>2, <2>1
<1> QED
  BY <1>1, <1>2, <1>3, <1>4 DEF q, r, M

LEMMA Given ==
  ASSUME Sizes, BuffersInv, NEW s \in Stages, Real(loop_iteration, s)
  PROVE  StageIn(s) = Entering(Place(loop_iteration, s), s)
<1> DEFINE i == loop_iteration
           M == Microbatches
           P == sched.perStage
<1>0. i \in Nat /\ M \in Nat \ {0} /\ P \in Nat \ {0} /\ RepeatIterations \in Nat
      /\ RealIterations \in Nat
  BY Totals DEF BuffersInv, ShapeInv, Sizes
<1>1. CASE s # 0
  BY <1>1 DEF StageIn, BuffersInv, ShiftInv, FromPrevious, Delayed, AroundAgain
<1>2. CASE s = 0 /\ i < M
  <2>1. StageIn(s) = Element(0, 0) /\ 0 \in Stages /\ 0 \in 0 .. P - 1
    BY <1>0, <1>2, Totals DEF StageIn, FirstStageIn, Element
  <2>2. Position(0, 0) = 0
    BY <1>0 DEF Position
  <2>3. StageIn(s) = Activation(i, 0)
    BY <1>0, <1>2, <2>1, <2>2 DEF BuffersInv, QueueInv, Unread, Written
  <2>4. i = M * 0 + i /\ i \in 0 .. M - 1
    BY <1>0, <1>2
  <2>5. i \div M = 0 /\ i % M = i
    BY <1>0, <2>4, Unique, 0 \in Int
  <2>6. Entering(i, 0) = Activation(i, 0)
    BY <2>5 DEF Entering, Sizes
  <2> QED
    BY <1>2, <2>3, <2>6, <1>0, Places
<1>3. CASE s = 0 /\ i >= M
  <2>1. Place(i, s) = i /\ i < RealIterations
    BY <1>0, <1>3, Places DEF Real
  <2>2. sched.repeats > 1
    <3>1. RealIterations # M
      BY <1>0, <1>3, <2>1
    <3>2. sched.repeats # 1
      BY <3>1, Totals
    <3> QED
      BY <3>2 DEF Sizes
  <2>3. i % M = (i - M) % M /\ i \div M = ((i - M) \div M) + 1
    <3>1. i = (i - M) + M /\ i - M \in Int
      BY <1>0
    <3>2. ((i - M) + M) % M = (i - M) % M /\ ((i - M) + M) \div M = ((i - M) \div M) + 1
      BY <1>0, <3>1, Once
    <3> QED
      BY <3>1, <3>2
  <2>4. Entering(i - M, sched.stages) = Entering(i, 0)
    <3>1. (i - M) \div M \in Int /\ sched.stages \in Nat
      BY <1>0, Division DEF Sizes
    <3>2. (((i - M) \div M) + 1) * sched.stages + 0 = ((i - M) \div M) * sched.stages + sched.stages
      BY <3>1
    <3> QED
      BY <2>3, <3>2 DEF Entering
  <2>5. CASE NeedCircStorage
    <3>1. StageIn(s) = circ_storage[i % M]
      BY <1>3, <2>5, <1>0 DEF StageIn, FirstStageIn
    <3>2. M >= RepeatIterations + 2
      BY <2>5, Totals
    <3>3. /\ i - M \in Nat /\ i - M < RealIterations
          /\ i - M <= Stored /\ i - M > Stored - M
      BY <1>0, <1>3, <2>1, <3>2 DEF Stored
    <3>4. circ_storage[(i - M) % M] = Entering(i - M, sched.stages)
      BY <2>5, <3>3 DEF BuffersInv, CircInv, MoverInv, StorageInv
    <3> QED
      BY <1>3, <2>1, <2>3, <2>4, <3>1, <3>4
  <2>6. CASE ~NeedCircStorage
    BY <1>0, <1>3, <2>1, <2>2, <2>4, <2>6 DEF StageIn, FirstStageIn, BuffersInv, ShiftInv, FromPrevious, Delayed, AroundAgain
  <2> QED
    BY <2>5, <2>6
<1>4. s \in Nat
  BY DEF Stages, Sizes
<1> QED
  BY <1>0, <1>1, <1>2, <1>3

LEMMA Computed ==
  ASSUME Sizes, BuffersInv, NEW w, Right(w), NEW s \in Stages, Real(loop_iteration, s)
  PROVE  LET u == Place(loop_iteration, s)
         IN /\ Outputs(w)[s] = Entering(u, s + 1)
            /\ Sown(s, w[s]) = [micro |-> u % Microbatches,
                                layer |-> (u \div Microbatches) * sched.stages + s,
                                grad |-> u \div Microbatches]
<1> DEFINE u == Place(loop_iteration, s)
           q == u \div Microbatches
<1>1. u \in Int /\ u >= 0 /\ MicrobatchId(loop_iteration, s) = u % Microbatches
      /\ Microbatches \in Nat \ {0}
  BY Places, Totals DEF Real, BuffersInv, ShapeInv
<1>2. q \in Int /\ s \in Nat /\ sched.stages \in Nat
  BY <1>1, Division DEF Sizes, Stages
<1>3. w[s] = Weights(q, q)
  BY DEF Right
<1>4. StageIn(s) = Entering(u, s)
  BY Given
<1> HIDE DEF u, q
<1>5. Layer(s, w[s]) = q * sched.stages + s
  BY <1>3 DEF Layer, Weights
<1>6. Entering(u, s).micro = u % Microbatches /\ Entering(u, s).done = q * sched.stages + s
  BY DEF Entering, Activation, q
<1>7. Computes(s, w[s])
  BY <1>1, <1>4, <1>5, <1>6 DEF Computes
<1>8. StageOut(s, w[s]) = Activation(u % Microbatches, q * sched.stages + s + 1)
  BY <1>4, <1>6, <1>7 DEF StageOut
<1>9. q * sched.stages + s + 1 = q * sched.stages + (s + 1)
  BY <1>2
<1>10. StageOut(s, w[s]) = Entering(u, s + 1)
  BY <1>8, <1>9 DEF Entering, q
<1>11. Sown(s, w[s]) = [micro |-> u % Microbatches, layer |-> q * sched.stages + s, grad |-> q]
  BY <1>3, <1>5, <1>8 DEF Sown, Activation, Weights
<1> QED
  BY <1>10, <1>11 DEF Outputs, u, q

-----------------------------------------------------------------------------
(* One iteration keeps the invariant of the buffers                            *)

LEMMA Kept ==
  ASSUME sched' = sched
  PROVE  /\ Stages' = Stages /\ LastStage' = LastStage /\ Microbatches' = Microbatches
         /\ RealIterations' = RealIterations /\ RepeatIterations' = RepeatIterations
         /\ TotalIterations' = TotalIterations /\ (NeedCircStorage' <=> NeedCircStorage)
<1>1. /\ Stages' = Stages /\ LastStage' = LastStage /\ Microbatches' = Microbatches
      /\ RepeatIterations' = RepeatIterations
  BY DEF Stages, LastStage, Microbatches, RepeatIterations
<1>2. /\ RealIterations' = RealIterations
      /\ TotalIterations' = TotalIterations /\ (NeedCircStorage' <=> NeedCircStorage)
  BY <1>1 DEF RealIterations, TotalIterations, NeedCircStorage
<1> QED
  BY <1>1, <1>2

(* What the stages with a microbatch return.                                   *)
Returned(out) ==
  \A s \in Stages : Real(loop_iteration, s) =>
    out[s] = Entering(Place(loop_iteration, s), s + 1)

LEMMA ShiftStep ==
  ASSUME Sizes, BuffersInv, NEW out, Returned(out), Advance(out), sched' = sched
  PROVE  ShiftInv'
<1> DEFINE i == loop_iteration
           before == IF sched.delay = 2 THEN prev_outputs ELSE out
<1>0. i \in Nat /\ sched.delay \in {1, 2} /\ LastStage \in Stages /\ 0 \in Stages
      /\ Stages = 0 .. LastStage /\ LastStage \in Nat /\ LastStage + 1 = sched.stages
      /\ RealIterations \in Nat /\ Microbatches \in Nat /\ RepeatIterations \in Nat
  BY Totals DEF BuffersInv, ShapeInv, Sizes, Stages, LastStage
<1>1. loop_iteration' = i + 1 /\ shift' = Shifted(before)
      /\ (sched.delay = 2 => prev_outputs' = out)
  BY DEF Advance
<1>2. ASSUME NEW s \in Stages, Real(i + 1 - sched.delay, s)
      PROVE  before[s] = Entering(Place(i + 1 - sched.delay, s), s + 1)
  <2>1. CASE sched.delay = 1
    <3>1. i + 1 - sched.delay = i
      BY <1>0, <2>1
    <3> QED
      BY <1>0, <1>2, <2>1, <3>1 DEF Returned
  <2>2. CASE sched.delay = 2
    <3>1. i + 1 - sched.delay = i - 1
      BY <1>0, <2>2
    <3> QED
      BY <1>2, <2>2, <3>1 DEF BuffersInv, ShiftInv, FromPrevious, Delayed, AroundAgain
  <2> QED
    BY <1>0, <2>1, <2>2
<1> HIDE DEF before
<1>3. ASSUME NEW s \in Stages \ {0}, Real(i + 1, s)
      PROVE  shift'[s] = Entering(Place(i + 1, s), s)
  <2>1. s - 1 \in Stages /\ s \in Nat /\ (s - 1) + 1 = s /\ s > 0
    BY <1>0
  <2>2. Place(i + 1 - sched.delay, s - 1) = Place(i + 1, s)
    BY <1>0, <2>1 DEF Place
  <2>3. Real(i + 1 - sched.delay, s - 1)
    BY <1>3, <2>2 DEF Real
  <2>4. shift'[s] = before[s - 1]
    BY <1>1, <2>1 DEF Shifted
  <2> QED
    BY <1>2, <2>1, <2>2, <2>3, <2>4
<1>4. ASSUME sched.delay = 2, NEW s \in Stages, Real(i, s)
      PROVE  prev_outputs'[s] = Entering(Place(i, s), s + 1)
  BY <1>1, <1>4 DEF Returned
<1>5. ASSUME sched.repeats > 1, ~NeedCircStorage, i + 1 >= Microbatches, i + 1 < RealIterations
      PROVE  shift'[0] = Entering(i + 1 - Microbatches, sched.stages)
  <2>1. Microbatches = RepeatIterations + sched.delay
    BY <1>5, Totals
  <2>2. Place(i + 1 - sched.delay, LastStage) = i + 1 - sched.delay - RepeatIterations
    <3>1. RepeatIterations = IF sched.delay = 1 THEN LastStage ELSE LastStage + LastStage
      BY Totals
    <3> QED
      BY <1>0, <3>1 DEF Place
  <2>3. Place(i + 1 - sched.delay, LastStage) = i + 1 - Microbatches
    BY <1>0, <2>1, <2>2
  <2>4. Real(i + 1 - sched.delay, LastStage)
    BY <1>0, <1>5, <2>3 DEF Real
  <2>5. shift'[0] = before[LastStage]
    <3>1. sched.repeats # 1
      BY <1>5
    <3> QED
      BY <1>0, <1>1, <1>5, <3>1 DEF Shifted
  <2> QED
    BY <1>0, <1>2, <2>3, <2>4, <2>5
<1>6. loop_iteration' - 1 = i
  BY <1>0, <1>1
<1> HIDE DEF i
<1>7. FromPrevious'
  BY <1>1, <1>3, Kept DEF FromPrevious, Real, Place, Entering, Activation
<1>8. Delayed'
  BY <1>4, <1>6, Kept DEF Delayed, Real, Place, Entering, Activation
<1>9. AroundAgain'
  BY <1>0, <1>1, <1>5, Kept DEF AroundAgain, Entering, Activation
<1> QED
  BY <1>7, <1>8, <1>9 DEF ShiftInv

LEMMA CircStep ==
  ASSUME Sizes, BuffersInv, NEW out, Returned(out), Advance(out), sched' = sched
  PROVE  CircInv'
<1> DEFINE i == loop_iteration
           M == Microbatches
<1> SUFFICES ASSUME NeedCircStorage
             PROVE  CircInv'
  BY Kept DEF CircInv
<1>0. i \in Nat /\ LastStage \in Stages /\ LastStage + 1 = sched.stages
      /\ RealIterations \in Nat /\ M \in Nat \ {0} /\ RepeatIterations \in Nat
  BY Totals DEF BuffersInv, ShapeInv, Sizes, LastStage
<1>1. /\ loop_iteration' = i + 1
      /\ circ_storage' = [circ_storage EXCEPT ![CircOffset] = circ_storage_mover]
      /\ circ_storage_mover' = out[LastStage]
  BY DEF Advance
<1>2. Stored \in Int /\ Stored' = Stored + 1 /\ Stored + 1 = i - RepeatIterations - 1
      /\ CircOffset = (Stored + 1) % M
  <2>1. Stored + 1 = i - RepeatIterations - 1 /\ Stored \in Int
    BY <1>0 DEF Stored
  <2> QED
    BY <1>0, <1>1, <2>1, Kept DEF Stored, CircOffset
<1>3. ASSUME Real(i, LastStage)
      PROVE  circ_storage_mover' = Entering(Stored + 2, sched.stages)
  <2>1. Place(i, LastStage) = i - RepeatIterations
    BY <1>0, Places
  <2>2. Place(i, LastStage) = Stored + 2
    BY <1>0, <1>2, <2>1
  <2> QED
    BY <1>0, <1>1, <1>3, <2>2 DEF Returned
<1>4. ASSUME NEW u \in Nat, u < RealIterations, u <= Stored + 1, u > Stored + 1 - M
      PROVE  circ_storage'[u % M] = Entering(u, sched.stages)
  <2>0. u % M \in 0 .. M - 1 /\ circ_storage \in [0 .. M - 1 -> Activations]
    BY <1>0, Division DEF BuffersInv, ShapeInv
  <2>1. CASE u = Stored + 1
    <3>1. Place(i - 1, LastStage) = u
      <4>1. i - 1 \in Int
        BY <1>0
      <4> QED
        BY <1>0, <1>2, <2>1, <4>1, Places
    <3>2. Real(i - 1, LastStage)
      BY <1>4, <3>1 DEF Real
    <3>3. circ_storage_mover = Entering(u, sched.stages)
      BY <2>1, <3>2 DEF BuffersInv, CircInv, MoverInv, StorageInv
    <3> QED
      BY <1>1, <1>2, <2>0, <2>1, <3>3
  <2>2. CASE u # Stored + 1
    <3>1. u < Stored + 1 /\ Stored + 1 < u + M /\ u <= Stored /\ u > Stored - M
      BY <1>0, <1>2, <1>4, <2>2
    <3>2. u % M # (Stored + 1) % M
      <4>1. ASSUME NEW b \in Int, u < b, b < u + M
            PROVE  u % M # b % M
        <5>1. u \in Int
          OBVIOUS
        <5> QED
          BY <1>0, <4>1, <5>1, Distinct
      <4> QED
        BY <1>2, <3>1, <4>1
    <3>3. circ_storage[u % M] = Entering(u, sched.stages)
      BY <1>4, <3>1 DEF BuffersInv, CircInv, MoverInv, StorageInv
    <3> QED
      BY <1>1, <1>2, <2>0, <3>2, <3>3
  <2> QED
    BY <2>1, <2>2
<1>5. loop_iteration' - 1 = i /\ Stored' + 1 = Stored + 2
  BY <1>0, <1>1, <1>2
<1> HIDE DEF i
<1>6. MoverInv'
  BY <1>3, <1>5, Kept DEF MoverInv, Real, Place, Entering, Activation
<1>7. StorageInv'
  <2> SUFFICES ASSUME NEW u \in Nat,
                      (u < RealIterations /\ u <= Stored /\ u > Stored - Microbatches)'
               PROVE  (circ_storage[u % Microbatches] = Entering(u, sched.stages))'
    BY DEF StorageInv
  <2>1. u < RealIterations /\ u <= Stored + 1 /\ u > Stored + 1 - M
    BY <1>0, <1>2, Kept
  <2>2. Entering(u, sched.stages)' = Entering(u, sched.stages)
    BY Kept DEF Entering, Activation
  <2> QED
    BY <1>4, <2>1, <2>2, Kept
<1> QED
  BY <1>6, <1>7 DEF CircInv

LEMMA QueueStep ==
  ASSUME Sizes, BuffersInv, NEW out, Returned(out), Advance(out), sched' = sched,
         loop_iteration < TotalIterations
  PROVE  QueueInv'
<1> DEFINE i == loop_iteration
           M == Microbatches
           P == sched.perStage
           c == i % P
<1>0. i \in Nat /\ P \in Nat \ {0} /\ M \in Nat \ {0} /\ Stages = 0 .. LastStage
      /\ LastStage \in Nat /\ LastStage + 1 = sched.stages
      /\ RealIterations \in Nat /\ RepeatIterations \in Nat
      /\ TotalIterations = RealIterations + RepeatIterations /\ RealIterations >= M
  BY Totals DEF BuffersInv, ShapeInv, Sizes, Stages, LastStage
<1>00. M = LastStage * P + P
  BY Totals
<1>1. loop_iteration' = i + 1 /\ state_io' = Pushed(out)
  BY DEF Advance
<1>2. state_io \in [Stages -> [0 .. P - 1 -> Activations]] /\ c \in 0 .. P - 1
  <2>1. i \in Int
    BY <1>0
  <2>2. c \in 0 .. P - 1
    BY <1>0, <2>1, Division
  <2> QED
    BY <2>2 DEF BuffersInv, ShapeInv
<1>3. ASSUME NEW s \in Stages, NEW j \in 0 .. P - 1
      PROVE  LET k == i + 1 + Position(s, j)
                 e == state_io'[s][(i + 1 + j) % P]
             IN /\ k < M => e = Activation(k, 0)
                /\ k >= TotalIterations => e = Entering(k - M - RepeatIterations, sched.stages)
  <2> DEFINE k == i + 1 + Position(s, j)
             e == state_io'[s][(i + 1 + j) % P]
  <2> SUFFICES /\ k < M => e = Activation(k, 0)
               /\ k >= TotalIterations => e = Entering(k - M - RepeatIterations, sched.stages)
    OBVIOUS
  <2> DEFINE n == s * P
  <2>0. s \in Nat /\ j \in Nat /\ i \in Nat /\ P \in Nat /\ n \in Nat /\ (s + 1) * P = n + P
    BY <1>0, <1>3
  <2>00. ASSUME NEW d
         PROVE  Position(s, d) = n + d
    BY DEF Position
  <2> HIDE DEF n
  <2>1. CASE j # P - 1
    <3>1. j + 1 \in 0 .. P - 1 /\ i < i + (j + 1) /\ i + (j + 1) < i + P
      BY <1>0, <1>3, <2>1
    <3>2. i % P # (i + (j + 1)) % P
      <4>1. ASSUME NEW b \in Int, i < b, b < i + P
            PROVE  i % P # b % P
        <5>1. i \in Int
          BY <1>0
        <5> QED
          BY <1>0, <4>1, <5>1, Distinct
      <4>2. i + (j + 1) \in Int
        BY <1>0, <3>1
      <4> QED
        BY <3>1, <4>1, <4>2
    <3>3. i + 1 + j = i + (j + 1)
      BY <1>0, <2>0
    <3>4. (i + (j + 1)) % P \in 0 .. P - 1
      <4>1. i + (j + 1) \in Int
        BY <1>0, <2>0
      <4> HIDE DEF i, P
      <4> QED
        BY <1>0, <4>1, Division
    <3>5. e = Element(s, j + 1)
      BY <1>1, <1>2, <3>2, <3>3, <3>4 DEF Pushed, Element
    <3>6. k = i + Position(s, j + 1)
      BY <2>0, <2>00
    <3>7. Unread(s, j + 1) /\ Written(s, j + 1)
      BY <3>1 DEF BuffersInv, QueueInv
    <3>8. k \in Int /\ Position(s, j + 1) \in Int
      BY <2>0, <2>00
    <3> HIDE DEF k, e
    <3> QED
      BY <1>0, <3>5, <3>6, <3>7, <3>8 DEF Unread, Written
  <2>2. CASE j = P - 1
    <3>1. (i + 1 + j) % P = c
      <4>1. i + 1 + j = i + P /\ i \in Int
        BY <1>0, <2>2
      <4>2. (i + P) % P = i % P
        BY <1>0, <4>1, Once
      <4> QED
        BY <4>1, <4>2
    <3>2. e = IF s = LastStage THEN out[LastStage] ELSE state_io[s + 1][c]
      BY <1>1, <1>2, <3>1 DEF Pushed
    <3>3. k = i + n + P
      BY <2>0, <2>00, <2>2
    <3>4. CASE s # LastStage
      <4>1. s + 1 \in Stages /\ 0 \in 0 .. P - 1
        BY <1>0, <2>0, <3>4
      <4>2. e = Element(s + 1, 0)
        BY <1>0, <3>2, <3>4 DEF Element
      <4>3. k = i + Position(s + 1, 0)
        <5>1. Position(s + 1, 0) = n + P
          BY <2>0 DEF Position
        <5> QED
          BY <2>0, <3>3, <5>1
      <4>4. Unread(s + 1, 0) /\ Written(s + 1, 0)
        BY <4>1 DEF BuffersInv, QueueInv
      <4>5. k \in Int /\ Position(s + 1, 0) \in Int
        BY <2>0, <3>3 DEF Position
      <4> HIDE DEF k, e
      <4> QED
        BY <1>0, <4>2, <4>3, <4>4, <4>5 DEF Unread, Written
    <3>5. CASE s = LastStage
      <4>1. k = i + M
        <5>1. M = n + P
          BY <1>00, <3>5 DEF n
        <5> QED
          BY <2>0, <3>3, <5>1
      <4>2. ~(k < M)
        BY <1>0, <4>1
      <4>3. ASSUME k >= TotalIterations
            PROVE  e = Entering(k - M - RepeatIterations, sched.stages)
        <5>1. Place(i, LastStage) = i - RepeatIterations
          BY <1>0, Places
        <5>2. Real(i, LastStage)
          <6>1. i < TotalIterations
            OBVIOUS
          <6> QED
            BY <1>0, <4>1, <4>3, <5>1 DEF Real
        <5>3. out[LastStage] = Entering(Place(i, LastStage), LastStage + 1)
          BY <1>0, <5>2, <3>5 DEF Returned
        <5>4. k - M - RepeatIterations = Place(i, LastStage)
          BY <1>0, <4>1, <5>1
        <5> QED
          BY <1>0, <3>2, <3>5, <5>3, <5>4
      <4> QED
        BY <4>2, <4>3
    <3> QED
      BY <3>4, <3>5
  <2> QED
    BY <2>1, <2>2
<1> SUFFICES ASSUME NEW s \in Stages', NEW j \in (0 .. sched.perStage - 1)'
             PROVE  Unread(s, j)' /\ Written(s, j)'
  BY DEF QueueInv
<1>4. s \in Stages /\ j \in 0 .. P - 1
  BY Kept
<1>8. Position(s, j) \in Int
  BY <1>0, <1>4 DEF Position
<1>5. Element(s, j)' = state_io'[s][(i + 1 + j) % P] /\ Position(s, j)' = Position(s, j)
  BY <1>1 DEF Element, Position
<1> HIDE DEF i, M, P
<1>6. Unread(s, j)'
  BY <1>1, <1>3, <1>4, <1>5, Kept DEF Unread, Activation, M
<1>7. Written(s, j)'
  <2> DEFINE k == i + 1 + Position(s, j)
  <2>1. loop_iteration' + Position(s, j)' = k
    BY <1>1, <1>5
  <2>2. (loop_iteration + Position(s, j) >= TotalIterations)' <=> k >= TotalIterations
    BY <2>1, Kept
  <2>3. loop_iteration' + Position(s, j)' - Microbatches' - RepeatIterations'
          = k - M - RepeatIterations
    <3>1. k \in Int /\ M \in Int /\ RepeatIterations \in Int
      BY <1>0, <1>8
    <3>2. Microbatches' = M /\ RepeatIterations' = RepeatIterations
      BY Kept DEF M
    <3>3. loop_iteration' \in Int /\ Position(s, j)' \in Int
      BY <1>0, <1>1, <1>5, <1>8
    <3> HIDE DEF k
    <3> QED
      BY <2>1, <3>1, <3>2, <3>3
  <2>4. k >= TotalIterations => Element(s, j)' = Entering(k - M - RepeatIterations, sched.stages)
    BY <1>3, <1>4, <1>5
  <2>5. ASSUME NEW u
        PROVE  Entering(u, sched.stages)' = Entering(u, sched.stages)
    BY Kept DEF Entering, Activation
  <2> HIDE DEF k
  <2> QED
    BY <2>1, <2>2, <2>3, <2>4, <2>5 DEF Written
<1> QED
  BY <1>6, <1>7

AnyWeights == [Stages -> [holds : Int, grad : Int]]

LEMMA ShapeStep ==
  ASSUME Sizes, BuffersInv, NEW w \in AnyWeights, Iterate(w), loop_iteration < TotalIterations
  PROVE  ShapeInv'
<1> DEFINE i == loop_iteration
           M == Microbatches
           P == sched.perStage
           out == Outputs(w)
<1>0. i \in Nat /\ P \in Nat \ {0} /\ M \in Nat \ {0} /\ Stages = 0 .. LastStage
      /\ LastStage \in Nat /\ sched.stages \in Nat /\ TotalIterations \in Nat
  <2>1. TotalIterations \in Nat
    BY Totals
  <2> QED
    BY <2>1, Totals DEF BuffersInv, ShapeInv, Sizes, Stages, LastStage
<1>1. ShapeInv
  BY DEF BuffersInv
<1>2. sched' = sched /\ Advance(out) /\ i + 1 \in 0 .. TotalIterations
  BY <1>0 DEF Iterate
<1>3. i % P \in 0 .. P - 1 /\ i % M \in 0 .. M - 1
  <2>1. i \in Int
    BY <1>0
  <2> QED
    BY <1>0, <2>1, Division
<1>4. ASSUME NEW s \in Stages
      PROVE  StageIn(s) \in Activations
  BY <1>0, <1>1, <1>3 DEF ShapeInv, StageIn, FirstStageIn
<1>5. Garbage \in Activations
  BY DEF Garbage, Activation, Activations
<1>6. ASSUME NEW s \in Stages
      PROVE  StageOut(s, w[s]) \in Activations /\ Sown(s, w[s]) \in [micro : Int, layer : Int, grad : Int]
  <2>1. StageOut(s, w[s]) \in Activations
    BY <1>4, <1>5 DEF StageOut, Activation, Activations
  <2>2. w[s].holds \in Int /\ w[s].grad \in Int /\ s \in Int
    BY <1>0 DEF AnyWeights
  <2>3. Layer(s, w[s]) \in Int
    BY <1>0, <2>2 DEF Layer
  <2> QED
    BY <2>1, <2>2, <2>3 DEF Sown, Activations
<1>7. out \in [Stages -> Activations]
  BY <1>6 DEF Outputs
<1> HIDE DEF out
<1>8. state_io' \in [Stages -> [0 .. P - 1 -> Activations]]
  <2>1. ASSUME NEW s \in Stages
        PROVE  Pushed(out)[s] \in [0 .. P - 1 -> Activations]
    <3>1. s # LastStage => s + 1 \in Stages
      BY <1>0
    <3>2. LastStage \in Stages
      BY <1>0
    <3> DEFINE c == i % P
               v == IF s = LastStage THEN out[LastStage] ELSE state_io[s + 1][c]
    <3>3. state_io[s] \in [0 .. P - 1 -> Activations]
      BY <1>1 DEF ShapeInv
    <3>4. v \in Activations
      BY <1>1, <1>3, <1>7, <3>1, <3>2 DEF ShapeInv
    <3>5. Pushed(out)[s] = [state_io[s] EXCEPT ![c] = v]
      BY DEF Pushed
    <3> HIDE DEF c, v
    <3> QED
      BY <3>3, <3>4, <3>5
  <2>2. Pushed(out) = [s \in Stages |-> Pushed(out)[s]]
    BY DEF Pushed
  <2> QED
    BY <1>2, <2>1, <2>2 DEF Advance
<1>9. shift' \in [Stages -> Activations] /\ prev_outputs' \in [Stages -> Activations]
  <2>1. ASSUME NEW o \in [Stages -> Activations]
        PROVE  Shifted(o) \in [Stages -> Activations]
    BY <1>0, <1>5 DEF Shifted
  <2> QED
    BY <1>1, <1>2, <1>7, <2>1 DEF Advance, ShapeInv
<1>10. /\ circ_storage' \in [0 .. M - 1 -> Activations]
       /\ circ_storage_mover' \in Activations
  <2>1. LastStage \in Stages
    BY <1>0
  <2> QED
    BY <1>1, <1>2, <1>7, <2>1 DEF Advance, ShapeInv
<1>11. sown' \in Seq(Sowing') /\ Len(sown') = i + 1
  <2>1. [s \in Stages |-> Sown(s, w[s])] \in Sowing
    BY <1>6 DEF Sowing
  <2>2. sown' = Append(sown, [s \in Stages |-> Sown(s, w[s])])
    BY DEF Iterate
  <2>3. Sowing' = Sowing
    BY <1>2, Kept DEF Sowing
  <2>4. sown \in Seq(Sowing) /\ Len(sown) = i
    BY <1>1 DEF ShapeInv
  <2> QED
    BY <2>1, <2>2, <2>3, <2>4
<1> QED
  BY <1>1, <1>2, <1>8, <1>9, <1>10, <1>11, Kept DEF ShapeInv, Advance

LEMMA SownStep ==
  ASSUME Sizes, BuffersInv, NEW w, Right(w), Iterate(w)
  PROVE  SownInv'
<1> DEFINE last == [s \in Stages |-> Sown(s, w[s])]
<1>1. sched' = sched /\ loop_iteration' = loop_iteration + 1 /\ loop_iteration \in Nat
  BY DEF Iterate, Advance, BuffersInv, ShapeInv
<1>2. Len(sown) = loop_iteration /\ sown \in Seq(Sowing) /\ sown' = Append(sown, last)
  BY DEF Iterate, BuffersInv, ShapeInv
<1>3. ASSUME NEW i \in 0 .. loop_iteration, NEW s \in Stages, Real(i, s)
      PROVE  sown'[i + 1][s] = SownBy(Place(i, s), s)
  <2>1. CASE i = loop_iteration
    <3>1. sown'[i + 1] = last
      <4> HIDE DEF last
      <4> QED
        BY <1>1, <1>2, <2>1
    <3>2. last[s] = SownBy(Place(i, s), s)
      BY <1>3, <2>1, Computed DEF SownBy
    <3> QED
      BY <3>1, <3>2
  <2>2. CASE i # loop_iteration
    <3>1. i \in 0 .. loop_iteration - 1
      BY <1>1, <1>3, <2>2
    <3>2. sown'[i + 1] = sown[i + 1]
      <4> HIDE DEF last
      <4> QED
        BY <1>1, <1>2, <3>1
    <3> QED
      BY <1>3, <3>1, <3>2 DEF BuffersInv, SownInv
  <2> QED
    BY <2>1, <2>2
<1> SUFFICES ASSUME NEW i \in (0 .. loop_iteration - 1)', NEW s \in Stages', Real(i, s)'
             PROVE  (sown[i + 1][s] = SownBy(Place(i, s), s))'
  BY DEF SownInv
<1>4. i \in 0 .. loop_iteration /\ s \in Stages /\ Real(i, s) /\ Place(i, s)' = Place(i, s)
  BY <1>1, Kept DEF Real, Place
<1>5. SownBy(Place(i, s), s)' = SownBy(Place(i, s), s)
  BY <1>1, Kept DEF SownBy, Place
<1> QED
  BY <1>3, <1>4, <1>5

LEMMA IterationStep ==
  ASSUME Sizes, BuffersInv, NEW w \in AnyWeights, Right(w), Iterate(w),
         loop_iteration < TotalIterations
  PROVE  BuffersInv' /\ Sizes'
<1>1. sched' = sched /\ Advance(Outputs(w))
  BY DEF Iterate
<1>2. Returned(Outputs(w))
  BY Computed DEF Returned
<1> QED
  BY <1>1, <1>2, ShapeStep, ShiftStep, CircStep, QueueStep, SownStep DEF BuffersInv, Sizes

-----------------------------------------------------------------------------
(* The start, the end, and the steps in between                                *)

LEMMA BuffersStart ==
  ASSUME BuffersInit
  PROVE  Sizes /\ BuffersInv
<1> DEFINE P == sched.perStage
           M == Microbatches
<1>1. Sizes
  BY SizesOfSchedule DEF BuffersInit
<1>2. P \in Nat \ {0} /\ M \in Nat \ {0} /\ Stages = 0 .. LastStage /\ LastStage \in Nat
      /\ RealIterations \in Nat /\ RepeatIterations \in Nat /\ sched.delay \in {1, 2}
  BY <1>1, Totals DEF Sizes, Stages, LastStage
<1>3. loop_iteration = 0 /\ sown = << >> /\ sched \in Schedules
  BY DEF BuffersInit
<1>4. TotalIterations = RealIterations + RepeatIterations /\ RealIterations >= M
      /\ TotalIterations \in Nat
  BY <1>1, <1>2, Totals
<1>5. ASSUME NEW s \in Stages
      PROVE  ~Real(-1, s) /\ (s # 0 => ~Real(0, s))
  BY <1>2, <1>5 DEF Real, Place
<1>6. ASSUME NEW s \in Stages, NEW j \in 0 .. P - 1
      PROVE  /\ s * P + j \in 0 .. M - 1
             /\ state_io[s][j] = Activation(s * P + j, 0) /\ state_io[s][j] \in Activations
  <2> DEFINE n == s * P
             l == LastStage * P
  <2>1. s \in Nat /\ j \in Nat /\ s <= LastStage
    BY <1>2
  <2>2. P * s <= P * LastStage
    BY <1>2, <2>1, Scaled
  <2>3. n \in Nat /\ n <= l /\ l \in Nat
    BY <1>2, <2>1, <2>2
  <2>4. M = l + P
    BY <1>1, Totals
  <2>5. n + j \in 0 .. M - 1
    <3> HIDE DEF n, l, M, P
    <3> QED
      BY <1>2, <1>6, <2>1, <2>3, <2>4
  <2>6. state_io[s][j] = Activation(s * P + j, 0)
    BY DEF BuffersInit
  <2> QED
    BY <2>5, <2>6 DEF Activation, Activations
<1>7. ShapeInv
  <2>1. Garbage \in Activations
    BY DEF Garbage, Activation, Activations
  <2>2. state_io \in [Stages -> [0 .. P - 1 -> Activations]]
    BY <1>6 DEF BuffersInit
  <2>3. << >> \in Seq(Sowing) /\ Len(<< >>) = 0
    OBVIOUS
  <2> QED
    BY <1>3, <1>4, <2>1, <2>2, <2>3 DEF ShapeInv, BuffersInit
<1>8. ShiftInv
  <2>1. FromPrevious /\ Delayed
    BY <1>3, <1>5 DEF FromPrevious, Delayed
  <2>2. AroundAgain
    BY <1>2, <1>3 DEF AroundAgain
  <2> QED
    BY <2>1, <2>2 DEF ShiftInv
<1>9. CircInv
  <2>1. MoverInv
    <3>1. LastStage \in Stages
      BY <1>2
    <3> QED
      BY <1>3, <1>5, <3>1 DEF MoverInv
  <2>2. StorageInv
    BY <1>2, <1>3 DEF StorageInv, Stored
  <2> QED
    BY <2>1, <2>2 DEF CircInv
<1>10. QueueInv
  <2> SUFFICES ASSUME NEW s \in Stages, NEW j \in 0 .. P - 1
               PROVE  Unread(s, j) /\ Written(s, j)
    BY DEF QueueInv
  <2>1. j % P = j /\ 0 + j = j
    <3>1. j = P * 0 + j /\ j \in Int /\ 0 \in Int
      BY <1>2
    <3> QED
      BY <1>2, <3>1, Unique
  <2> DEFINE n == s * P + j
  <2>2. Element(s, j) = Activation(n, 0) /\ n \in 0 .. M - 1
    BY <1>3, <1>6, <2>1 DEF Element
  <2>3. Position(s, j) = n
    BY DEF Position
  <2> HIDE DEF n
  <2>4. ~(n >= TotalIterations) /\ 0 + n = n
    BY <1>2, <1>4, <2>2
  <2> QED
    BY <1>3, <2>2, <2>3, <2>4 DEF Unread, Written
<1>11. SownInv
  BY <1>3 DEF SownInv
<1> QED
  BY <1>1, <1>7, <1>8, <1>9, <1>10, <1>11 DEF BuffersInv

LEMMA BuffersStutter ==
  ASSUME Sizes, BuffersInv, UNCHANGED buffers
  PROVE  Sizes' /\ BuffersInv'
<1> USE DEF buffers
<1>1. Sizes'
  BY DEF Sizes
<1>2. ShapeInv'
  BY Kept DEF BuffersInv, ShapeInv, Sowing
<1>3. FromPrevious' /\ Delayed' /\ AroundAgain'
  BY Kept DEF BuffersInv, ShiftInv, FromPrevious, Delayed, AroundAgain, Real, Place, Entering, Activation
<1>4. CircInv'
  BY Kept DEF BuffersInv, CircInv, MoverInv, StorageInv, Stored, Real, Place, Entering, Activation
<1>5. QueueInv'
  BY Kept DEF BuffersInv, QueueInv, Unread, Written, Element, Position, Entering, Activation
<1>6. SownInv'
  BY Kept DEF BuffersInv, SownInv, SownBy, Real, Place
<1> QED
  BY <1>1, <1>2, <1>3, <1>4, <1>5, <1>6 DEF BuffersInv, ShiftInv

LEMMA SequentialAtTheEnd ==
  ASSUME Sizes, BuffersInv
  PROVE  SameAsSequential
<1> DEFINE M == Microbatches
           P == sched.perStage
           T == TotalIterations
<1> SUFFICES ASSUME Finished, NEW s \in Stages, NEW j \in 0 .. P - 1
             PROVE  FinalOutput(s, j) = Activation(s * P + j, sched.repeats * sched.stages)
  BY DEF SameAsSequential
<1>1. /\ M \in Nat \ {0} /\ P \in Nat \ {0} /\ T \in Nat /\ Stages = 0 .. LastStage
      /\ LastStage \in Nat /\ RealIterations \in Nat /\ RepeatIterations \in Nat
      /\ FirstIterations \in Int /\ sched.stages \in Nat /\ sched.repeats \in Nat
  <2>1. M * LastRepeat \in Nat /\ RepeatIterations \in Nat
        /\ FirstIterations = M * LastRepeat + RepeatIterations
    BY Totals
  <2>2. FirstIterations \in Int
    <3> HIDE DEF M
    <3> QED
      BY <2>1
  <2>3. T \in Nat
    BY Totals
  <2> QED
    BY <2>2, <2>3, Totals DEF Sizes, Stages, LastStage
<1>2. /\ T = RealIterations + RepeatIterations /\ T = FirstIterations + M
      /\ RealIterations = M * LastRepeat + M
  BY Totals
<1> DEFINE n == s * P + j
<1>3. n \in 0 .. M - 1
  <2> DEFINE k == s * P
             l == LastStage * P
  <2>1. P * s <= P * LastStage
    BY <1>1, Scaled
  <2>2. k \in Nat /\ k <= l /\ l \in Nat
    BY <1>1, <2>1
  <2>3. M = l + P
    BY Totals
  <2>4. n = k + j
    OBVIOUS
  <2>5. j \in Nat /\ j <= P - 1
    BY <1>1
  <2> HIDE DEF k, l, M, P, n
  <2> QED
    BY <1>1, <2>2, <2>3, <2>4, <2>5
<1>4. FinalOutput(s, j) = Element(s, j)
  <2>1. T + j = (j + FirstIterations) + P * sched.stages
    <3>1. M = P * sched.stages
      BY <1>1 DEF Microbatches
    <3> HIDE DEF T, M, P
    <3> QED
      BY <1>1, <1>2, <3>1
  <2>2. ((j + FirstIterations) + P * sched.stages) % P = (j + FirstIterations) % P
    <3>1. j + FirstIterations \in Int /\ sched.stages \in Int
      BY <1>1
    <3> QED
      BY <1>1, <3>1, Added
  <2> QED
    BY <2>1, <2>2 DEF FinalOutput, Element, Finished
<1>5. Element(s, j) = Entering(M * LastRepeat + n, sched.stages)
  <2>1. Position(s, j) = n
    BY DEF Position
  <2>2. T + n >= T /\ (T + n) - M - RepeatIterations = M * LastRepeat + n
    <3> DEFINE l == M * LastRepeat
    <3>1. l \in Nat /\ T = (l + M) + RepeatIterations
      BY Totals
    <3> HIDE DEF T, M, n, l
    <3>2. T + n >= T /\ (T + n) - M - RepeatIterations = l + n
      BY <1>1, <1>3, <3>1
    <3> QED
      BY <3>2 DEF l
  <2>3. Written(s, j)
    BY DEF BuffersInv, QueueInv
  <2>4. loop_iteration = T
    BY DEF Finished
  <2>5. /\ loop_iteration + Position(s, j) - M - RepeatIterations = M * LastRepeat + n
        /\ loop_iteration + Position(s, j) >= T
    <3>1. loop_iteration + Position(s, j) = T + n
      BY <2>1, <2>4
    <3>2. n \in Int /\ T \in Int /\ M \in Int
      BY <1>1, <1>3
    <3> HIDE DEF n, T, M
    <3> QED
      BY <1>1, <2>1, <2>2, <2>4, <3>1, <3>2
  <2> HIDE DEF n
  <2> QED
    BY <2>3, <2>5 DEF Written
<1>6. (M * LastRepeat + n) % M = n /\ (M * LastRepeat + n) \div M = LastRepeat
  <2>1. LastRepeat \in Int /\ M * LastRepeat + n \in Int
    BY <1>1, <1>3 DEF LastRepeat
  <2> HIDE DEF M, n
  <2> QED
    BY <1>1, <1>3, <2>1, Unique
<1>7. LastRepeat * sched.stages + sched.stages = sched.repeats * sched.stages
  BY <1>1 DEF LastRepeat
<1> HIDE DEF n
<1> QED
  BY <1>4, <1>5, <1>6, <1>7 DEF Entering, n

(* What the stages sowed for a microbatch is found where it is reduced.        *)
LEMMA SownAtTheEnd ==
  ASSUME Sizes, BuffersInv, Finished,
         NEW r \in 0 .. LastRepeat, NEW m \in 0 .. Microbatches - 1, NEW s \in Stages
  PROVE  PerMicrobatch(r, m, s) = [micro |-> m, layer |-> r * sched.stages + s, grad |-> r]
<1> DEFINE M == Microbatches
           n == r * M
           u == n + m
           i == ValidIteration(r, m, s)
           d == IF sched.delay = 1 THEN s ELSE s + s
<1>1. M \in Nat \ {0} /\ Stages = 0 .. LastStage /\ LastStage \in Nat /\ LastRepeat \in Nat
      /\ RealIterations \in Nat /\ RepeatIterations \in Nat /\ sched.delay \in {1, 2}
  <2>1. M \in Nat \ {0} /\ RealIterations \in Nat /\ RepeatIterations \in Nat
    BY Totals
  <2> QED
    BY <2>1 DEF Sizes, Stages, LastStage, LastRepeat
<1>2. n \in Nat /\ n <= M * LastRepeat /\ M * LastRepeat \in Nat
  <2>1. M * r <= M * LastRepeat
    BY <1>1, Scaled
  <2> QED
    BY <1>1, <2>1
<1>3. RealIterations = M * LastRepeat + M /\ TotalIterations = RealIterations + RepeatIterations
      /\ RepeatIterations = IF sched.delay = 1 THEN LastStage ELSE LastStage + LastStage
  BY Totals
<1>4. i = u + d
  <2>1. sched.delay * s = d
    BY <1>1
  <2> QED
    BY <2>1 DEF ValidIteration
<1>5. u % M = m /\ u \div M = r
  <2>1. u = M * r + m /\ u \in Int /\ r \in Int
    BY <1>1
  <2> QED
    BY <1>1, <2>1, Unique
<1> DEFINE l == M * LastRepeat
<1> HIDE DEF n, M, l
<1>6. u >= 0 /\ u < RealIterations /\ d \in Nat /\ d <= RepeatIterations
  BY <1>1, <1>2, <1>3 DEF l, M
<1>7. i - d = u
  BY <1>1, <1>2, <1>4, <1>6
<1>8. Place(i, s) = u /\ Real(i, s)
  BY <1>6, <1>7 DEF Place, Real
<1>9. i \in 0 .. loop_iteration - 1
  BY <1>1, <1>2, <1>3, <1>4, <1>6 DEF Finished
<1> HIDE DEF i, u
<1>10. sown[i + 1][s] = SownBy(u, s)
  BY <1>8, <1>9 DEF BuffersInv, SownInv
<1> QED
  BY <1>5, <1>10 DEF PerMicrobatch, SownBy, i, M

-----------------------------------------------------------------------------
(* The weights the stages are given                                            *)

AllOf(r) == [s \in Stages |-> Weights(r, r)]

LEMMA Window ==
  ASSUME Sizes, NEW p \in Int, NEW r \in Int,
         Microbatches * r <= p, p < Microbatches * r + Microbatches
  PROVE  p \div Microbatches = r
<1> DEFINE M == Microbatches
           n == M * r
           d == p - n
<1>1. M \in Nat \ {0}
  BY Totals
<1>2. n \in Int /\ n <= p /\ p < n + M
  BY <1>1
<1>3. d \in 0 .. M - 1 /\ p = n + d
  <2> HIDE DEF n, M
  <2> QED
    BY <1>1, <1>2
<1> HIDE DEF d, M
<1> QED
  BY <1>1, <1>3, Unique DEF M

LEMMA Gathered ==
  ASSUME Sizes, NEW i \in Int
  PROVE  /\ StageWeights(i) \in WeightsOfStages /\ WeightPrefetching(i) \in WeightsOfStages
         /\ \A s \in Stages : Real(i, s) =>
              StageWeights(i)[s] = Weights(Place(i, s) \div Microbatches, Place(i, s) \div Microbatches)
<1> DEFINE M == Microbatches
<1>1. M \in Nat \ {0} /\ LastRepeat \in Nat /\ RealIterations \in Nat /\ RepeatIterations \in Nat
      /\ sched.delay \in Nat /\ Stages \subseteq Nat
  <2>1. M \in Nat \ {0} /\ RealIterations \in Nat /\ RepeatIterations \in Nat
    BY Totals
  <2> QED
    BY <2>1 DEF Sizes, Stages, LastRepeat
<1>2. ASSUME NEW k \in Int, NEW s \in Stages
      PROVE  Clamp(RepeatId(k, s)) \in 0 .. LastRepeat
  <2>1. Processed(k, s) \in Nat
    <3>1. sched.delay * s \in Nat
      BY <1>1
    <3> QED
      BY <3>1 DEF Processed
  <2>2. RepeatId(k, s) \in Int
    <3> HIDE DEF M
    <3> QED
      BY <1>1, <2>1, Division DEF RepeatId, M
  <2>3. RepeatId(k, s) >= 0
    BY <1>1, <2>1, Quotient DEF RepeatId
  <2> QED
    BY <1>1, <2>2, <2>3 DEF Clamp
<1>3. ASSUME NEW k \in Int
      PROVE  StageWeights(k) \in WeightsOfStages
  <2>1. ASSUME NEW s \in Stages
        PROVE  Clamp(RepeatId(k, s)) \in None .. LastRepeat
    BY <1>1, <1>2 DEF None
  <2> QED
    BY <2>1 DEF StageWeights, Weights, WeightsOfStages
<1>4. i + RepeatIterations \in Int
  BY <1>1
<1>5. ASSUME NEW s \in Stages, Real(i, s)
      PROVE  StageWeights(i)[s] = Weights(Place(i, s) \div M, Place(i, s) \div M)
  <2>1. Place(i, s) \in Int /\ Place(i, s) >= 0 /\ RepeatId(i, s) = Place(i, s) \div M
    BY <1>5, Places DEF Real
  <2>2. Place(i, s) \div M \in 0 .. LastRepeat
    BY <1>5, <2>1, InRepeat DEF Real
  <2>3. Clamp(RepeatId(i, s)) = Place(i, s) \div M
    BY <1>1, <2>1, <2>2 DEF Clamp
  <2> QED
    BY <2>3 DEF StageWeights
<1> QED
  BY <1>3, <1>4, <1>5 DEF WeightPrefetching

(* Prefetching gathers one repeat for all stages, from its first iteration to  *)
(* the last at which all stages will be in it.                                 *)
LEMMA Prefetched ==
  ASSUME Sizes, sched.delay = 1, NEW i \in Int, NEW r \in 0 .. LastRepeat,
         Microbatches * r <= i, i + LastStage < Microbatches * r + Microbatches
  PROVE  WeightPrefetching(i) = AllOf(r)
<1> DEFINE M == Microbatches
           k == i + RepeatIterations
<1>1. M \in Nat \ {0} /\ LastRepeat \in Nat /\ LastStage \in Nat /\ Stages = 0 .. LastStage
      /\ M * r \in Nat /\ RepeatIterations = LastStage
  <2>1. M \in Nat \ {0} /\ RepeatIterations = LastStage
    BY Totals
  <2> QED
    BY <2>1 DEF Sizes, Stages, LastStage, LastRepeat
<1>2. ASSUME NEW s \in Stages
      PROVE  Clamp(RepeatId(k, s)) = r
  <2>1. Place(k, s) = i + LastStage - s
    BY <1>1 DEF Place
  <2>2. Place(k, s) \in Int /\ M * r <= Place(k, s) /\ Place(k, s) < M * r + M /\ Place(k, s) >= 0
    <3> DEFINE n == M * r
    <3>1. n \in Nat /\ n <= i /\ i + LastStage < n + M
      BY <1>1
    <3> HIDE DEF n, M
    <3>2. Place(k, s) \in Int /\ n <= Place(k, s) /\ Place(k, s) < n + M /\ Place(k, s) >= 0
      BY <1>1, <2>1, <3>1
    <3> QED
      BY <3>2 DEF n
  <2>3. Place(k, s) \div M = r
    BY <2>2, Window
  <2>4. RepeatId(k, s) = r
    <3>1. k \in Int
      BY <1>1
    <3> QED
      BY <2>2, <2>3, <3>1, Places
  <2> QED
    BY <1>1, <2>4 DEF Clamp
<1> QED
  BY <1>2 DEF WeightPrefetching, StageWeights, AllOf

-----------------------------------------------------------------------------
(* The invariant of the slots                                                  *)

ControlShape ==
  /\ repeat \in 0 .. sched.repeats /\ left \in Nat
  /\ bsw \in [first : WeightsOfStages, second : WeightsOfStages]
  /\ carried \in WeightsOfStages

CarriedHolds(r) == ~sched.noCarry => \A s \in Stages : carried[s].holds = r

Plain == loop_iteration + left = TotalIterations

(* In a repeat the second slot is for it, and the first for the one before.    *)
Repeating ==
  /\ loop_iteration + left = Microbatches * repeat /\ left <= Microbatches
  /\ repeat >= 1 => bsw.second = AllOf(repeat - 1) /\ CarriedHolds(repeat - 1)
  /\ repeat >= 2 => bsw.first = AllOf(repeat - 2)

Draining ==
  /\ repeat = sched.repeats /\ loop_iteration >= RealIterations
  /\ loop_iteration + left = TotalIterations
  /\ bsw.first = AllOf(LastRepeat) /\ bsw.second = AllOf(LastRepeat)

(* With a phase split the first slot is for it, and the second for the next.   *)
Splitting ==
  /\ loop_iteration + left = Microbatches * repeat + LastStage
  /\ left <= IF repeat = 0 THEN LastStage ELSE Microbatches
  /\ bsw.first = AllOf(IF repeat = 0 THEN 0 ELSE repeat - 1)
  /\ bsw.second = AllOf(Clamp(repeat)) /\ CarriedHolds(Clamp(repeat))

ControlInv ==
  /\ ControlShape
  /\ ~sched.prefetch => Plain
  /\ sched.prefetch /\ ~sched.phaseSplit => Repeating \/ Draining
  /\ sched.phaseSplit => Splitting

GivenWeights ==
  IF ~sched.prefetch THEN StageWeights(loop_iteration)
  ELSE IF OneSlot THEN bsw.first
  ELSE SelectWeights

LEMMA WithPrefetch ==
  ASSUME Sizes, sched.prefetch
  PROVE  /\ sched.delay = 1 /\ Bubble = LastStage /\ RepeatIterations = LastStage
         /\ LastStage \in Nat /\ LastRepeat \in Nat /\ LastRepeat >= 1
         /\ LastRepeat = sched.repeats - 1 /\ sched.repeats \in Nat
         /\ Microbatches \in Nat \ {0} /\ LastStage < Microbatches
         /\ Stages = 0 .. LastStage
         /\ RealIterations = Microbatches * sched.repeats /\ RealIterations \in Nat
         /\ TotalIterations = RealIterations + LastStage
<1>1. sched.delay = 1 /\ sched.repeats > 1 /\ sched.repeats \in Nat /\ sched.stages \in Nat
      /\ sched.stages >= 2
  BY DEF Sizes
<1>2. /\ Microbatches \in Nat \ {0} /\ Microbatches >= sched.stages
      /\ RealIterations \in Nat /\ RepeatIterations = LastStage
      /\ TotalIterations = RealIterations + LastStage
  BY <1>1, Totals
<1> QED
  BY <1>1, <1>2 DEF Bubble, LastStage, LastRepeat, Stages, RealIterations

(* The iterations of a repeat are a window, and so are those of the next.      *)
LEMMA NextWindow ==
  ASSUME Sizes, NEW r \in Int
  PROVE  /\ Microbatches * r \in Int /\ Microbatches * (r - 1) \in Int
         /\ Microbatches * r = Microbatches * (r - 1) + Microbatches
         /\ Microbatches * (r + 1) = Microbatches * r + Microbatches
<1> DEFINE M == Microbatches
<1>1. M \in Nat
  BY Totals
<1> HIDE DEF M
<1>2. M * r \in Int /\ M * (r - 1) \in Int /\ M * r = M * (r - 1) + M /\ M * (r + 1) = M * r + M
  BY <1>1
<1> QED
  BY <1>2 DEF M

LEMMA Selected ==
  ASSUME Sizes, loop_iteration \in Nat, NEW s \in Stages, Real(loop_iteration, s)
  PROVE  SelectWeights[s] = IF Place(loop_iteration, s) \div Microbatches
                                 = loop_iteration \div Microbatches
                              THEN bsw.second[s] ELSE bsw.first[s]
<1>1. loop_iteration \in Int /\ Place(loop_iteration, s) >= 0
  BY DEF Real
<1>2. RepeatId(loop_iteration, s) = Place(loop_iteration, s) \div Microbatches
  BY <1>1, Places
<1> QED
  BY <1>2 DEF SelectWeights

LEMMA WeightsAreRight ==
  ASSUME Sizes, ShapeInv, ControlInv, left > 0
  PROVE  Right(GivenWeights) /\ loop_iteration < TotalIterations
<1> DEFINE i == loop_iteration
           M == Microbatches
<1>0. i \in Nat /\ i \in Int /\ repeat \in 0 .. sched.repeats /\ left \in Nat
  BY DEF ShapeInv, ControlInv, ControlShape
<1>1. CASE ~sched.prefetch
  <2>1. GivenWeights = StageWeights(i)
    BY <1>1 DEF GivenWeights
  <2>2. Right(GivenWeights)
    BY <1>0, <2>1, Gathered DEF Right
  <2>3. i + left = TotalIterations
    BY <1>1 DEF ControlInv, Plain
  <2> QED
    BY <1>0, <2>2, <2>3
<1>2. CASE sched.prefetch /\ ~sched.phaseSplit /\ Repeating
  <2> DEFINE r == repeat - 1
             n == M * r
             l == M * (r - 1)
  <2>0. GivenWeights = SelectWeights
    BY <1>2 DEF GivenWeights, OneSlot
  <2>1. repeat # 0
    <3>1. CASE repeat = 0
      <4>1. M * 0 = 0
        BY <1>2, WithPrefetch
      <4> QED
        BY <1>0, <1>2, <3>1, <4>1 DEF Repeating
    <3> QED
      BY <3>1
  <2>2. r \in Nat /\ r <= LastRepeat /\ n \in Int /\ M * (r + 1) = n + M /\ r + 1 = repeat
        /\ l \in Int /\ n = l + M
    <3>1. r \in Nat /\ r <= LastRepeat /\ r + 1 = repeat
      BY <1>0, <1>2, <2>1, WithPrefetch
    <3> QED
      BY <3>1, NextWindow
  <2>3. i + left = n + M /\ left <= M /\ M \in Nat
    BY <1>2, <2>2, WithPrefetch DEF Repeating
  <2>4. n <= i /\ i < n + M
    <3> HIDE DEF n, M
    <3> QED
      BY <1>0, <2>2, <2>3
  <2>5. i \div M = r
    BY <1>0, <2>2, <2>4, Window
  <2>6. bsw.second = AllOf(r) /\ (repeat >= 2 => bsw.first = AllOf(r - 1))
    <3>1. repeat - 2 = r - 1 /\ repeat >= 1
      BY <1>0, <2>1
    <3> QED
      BY <1>2, <3>1 DEF Repeating
  <2>7. ASSUME NEW s \in Stages, Real(i, s)
        PROVE  SelectWeights[s] = Weights(Place(i, s) \div M, Place(i, s) \div M)
    <3> DEFINE p == Place(i, s)
    <3>1. p = i - s /\ p \in Int /\ p >= 0 /\ s \in Nat /\ s <= LastStage /\ LastStage < M
          /\ LastStage \in Nat
      BY <1>0, <1>2, <2>7, WithPrefetch DEF Place, Real
    <3>2. CASE p >= n
      <4>1. p < n + M
        <5> HIDE DEF n, M
        <5> QED
          BY <1>0, <2>2, <2>3, <2>4, <3>1
      <4>2. p \div M = r
        BY <2>2, <3>1, <3>2, <4>1, Window
      <4> QED
        BY <1>0, <2>5, <2>6, <2>7, <4>2, Selected DEF AllOf
    <3>3. CASE ~(p >= n)
      <4>1. l <= p /\ p < l + M
        <5> HIDE DEF n, M, l
        <5> QED
          BY <1>0, <2>2, <2>3, <2>4, <3>1, <3>3
      <4>2. p \div M = r - 1
        <5>1. r - 1 \in Int
          BY <2>2
        <5> QED
          BY <3>1, <4>1, <5>1, Window
      <4>3. r # 0
        <5>1. M * 0 = 0
          BY <2>3
        <5> QED
          BY <2>2, <3>1, <3>3, <5>1
      <4>4. r # r - 1 /\ repeat >= 2
        BY <1>0, <2>2, <4>3
      <4> QED
        BY <1>0, <2>5, <2>6, <2>7, <4>2, <4>4, Selected DEF AllOf
    <3> QED
      BY <3>2, <3>3
  <2>8. i < TotalIterations
    <3>1. M * repeat <= M * sched.repeats
      BY <1>0, <1>2, <2>3, WithPrefetch, Scaled
    <3>2. n + M <= RealIterations
      BY <1>2, <2>2, <3>1, WithPrefetch
    <3> HIDE DEF n, M
    <3> QED
      BY <1>0, <1>2, <2>2, <2>3, <2>4, <3>2, WithPrefetch
  <2> QED
    BY <2>0, <2>7, <2>8 DEF Right
<1>3. CASE sched.prefetch /\ ~sched.phaseSplit /\ Draining
  <2>0. GivenWeights = SelectWeights
    BY <1>3 DEF GivenWeights, OneSlot
  <2>1. bsw.first = AllOf(LastRepeat) /\ bsw.second = AllOf(LastRepeat)
        /\ i >= RealIterations /\ i + left = TotalIterations
    BY <1>3 DEF Draining
  <2> DEFINE n == M * LastRepeat
  <2>2. n \in Int /\ RealIterations = n + M
    BY Totals
  <2>3. ASSUME NEW s \in Stages, Real(i, s)
        PROVE  SelectWeights[s] = Weights(Place(i, s) \div M, Place(i, s) \div M)
    <3> DEFINE p == Place(i, s)
    <3>1. p = i - s /\ p \in Int /\ p < RealIterations /\ s \in Nat /\ s <= LastStage
          /\ LastStage < M /\ M \in Nat /\ LastStage \in Nat
      BY <1>0, <1>3, <2>3, WithPrefetch DEF Place, Real
    <3>2. n <= p /\ p < n + M
      <4> HIDE DEF n, M
      <4> QED
        BY <1>0, <2>1, <2>2, <3>1
    <3>3. p \div M = LastRepeat
      <4>1. LastRepeat \in Int
        BY <1>3, WithPrefetch
      <4> QED
        BY <3>1, <3>2, <4>1, Window
    <3> QED
      BY <1>0, <2>1, <2>3, <3>3, Selected DEF AllOf
  <2> QED
    BY <1>0, <1>3, <2>0, <2>1, <2>3, WithPrefetch DEF Right
<1>4. CASE sched.prefetch /\ sched.phaseSplit /\ repeat = 0
  <2>1. bsw.first = AllOf(0) /\ bsw.second = AllOf(0) /\ i + left = LastStage
    <3>1. M * 0 = 0 /\ Clamp(0) = 0
      BY <1>4, WithPrefetch DEF Clamp
    <3> QED
      BY <1>0, <1>4, <3>1, WithPrefetch DEF ControlInv, Splitting
  <2>2. ASSUME NEW s \in Stages, Real(i, s)
        PROVE  GivenWeights[s] = Weights(Place(i, s) \div M, Place(i, s) \div M)
    <3> DEFINE p == Place(i, s)
    <3>1. p = i - s /\ p \in Int /\ p >= 0 /\ s \in Nat /\ s <= LastStage
          /\ LastStage < M /\ M \in Nat /\ LastStage \in Nat
      BY <1>0, <1>4, <2>2, WithPrefetch DEF Place, Real
    <3>2. M * 0 <= p /\ p < M * 0 + M
      <4> HIDE DEF M
      <4> QED
        BY <1>0, <2>1, <3>1
    <3>3. p \div M = 0
      BY <3>1, <3>2, Window
    <3>4. SelectWeights[s] = Weights(0, 0)
      BY <1>0, <2>1, <2>2, Selected DEF AllOf
    <3>5. bsw.first[s] = Weights(0, 0)
      BY <2>1 DEF AllOf
    <3> QED
      BY <1>4, <3>3, <3>4, <3>5 DEF GivenWeights
  <2> QED
    BY <1>0, <1>4, <2>1, <2>2, WithPrefetch DEF Right
<1>5. CASE sched.prefetch /\ sched.phaseSplit /\ repeat # 0
  <2> DEFINE r == repeat - 1
             n == M * r
  <2>1. r \in Nat /\ r <= LastRepeat /\ n \in Int /\ M * repeat = n + M /\ r + 1 = repeat
        /\ M * (r + 1) = n + M
    <3>1. r \in Nat /\ r <= LastRepeat /\ r + 1 = repeat
      BY <1>0, <1>5, WithPrefetch
    <3> QED
      BY <3>1, NextWindow
  <2>2. i + left = (n + M) + LastStage /\ left <= M /\ M \in Nat /\ LastStage \in Nat /\ LastStage < M
    BY <1>5, <2>1, WithPrefetch DEF ControlInv, Splitting
  <2>3. bsw.first = AllOf(r) /\ bsw.second = AllOf(Clamp(repeat))
    BY <1>5 DEF ControlInv, Splitting
  <2>4. ASSUME NEW s \in Stages, Real(i, s)
        PROVE  GivenWeights[s] = Weights(Place(i, s) \div M, Place(i, s) \div M)
    <3> DEFINE p == Place(i, s)
    <3>1. p = i - s /\ p \in Int /\ p >= 0 /\ p < RealIterations /\ s \in Nat /\ s <= LastStage
      BY <1>0, <1>5, <2>4, WithPrefetch DEF Place, Real
    <3>2. CASE p < n + M
      <4>1. n <= p
        <5> HIDE DEF n, M
        <5> QED
          BY <1>0, <2>1, <2>2, <3>1
      <4>2. p \div M = r
        BY <2>1, <3>1, <3>2, <4>1, Window
      <4>3. CASE OneSlot
        BY <1>5, <2>3, <4>2, <4>3 DEF GivenWeights, AllOf
      <4>4. CASE ~OneSlot
        <5>1. left <= LastStage
          BY <1>0, <1>5, <4>4, WithPrefetch DEF OneSlot
        <5>2. M * (r + 1) <= i /\ i < M * (r + 1) + M
          <6> HIDE DEF n, M
          <6>1. n + M <= i /\ i < (n + M) + M
            BY <1>0, <2>1, <2>2, <5>1
          <6> QED
            BY <2>1, <6>1
        <5>3. i \div M = r + 1 /\ r # r + 1
          BY <1>0, <2>1, <5>2, Window
        <5> QED
          BY <1>0, <1>5, <2>3, <2>4, <4>2, <4>4, <5>3, Selected DEF GivenWeights, AllOf
      <4> QED
        BY <4>3, <4>4
    <3>3. CASE ~(p < n + M)
      <4>1. M * (r + 1) <= p /\ p < M * (r + 1) + M /\ M * (r + 1) <= i /\ i < M * (r + 1) + M
            /\ ~(left > LastStage)
        <5> HIDE DEF n, M
        <5>1. n + M <= p /\ p < (n + M) + M /\ n + M <= i /\ i < (n + M) + M /\ ~(left > LastStage)
          BY <1>0, <2>1, <2>2, <3>1, <3>3
        <5> QED
          BY <2>1, <5>1
      <4>2. p \div M = r + 1 /\ i \div M = r + 1
        BY <1>0, <2>1, <3>1, <4>1, Window
      <4>3. r + 1 <= LastRepeat
        BY <2>1, <3>1, <4>2, InRepeat
      <4>4. Clamp(repeat) = r + 1
        BY <1>5, <2>1, <4>3, WithPrefetch DEF Clamp
      <4>5. ~OneSlot
        BY <1>5, <4>1, WithPrefetch DEF OneSlot
      <4> QED
        BY <1>0, <1>5, <2>3, <2>4, <4>2, <4>4, <4>5, Selected DEF GivenWeights, AllOf
    <3> QED
      BY <3>2, <3>3
  <2>5. i < TotalIterations
    <3>1. M * repeat <= M * sched.repeats
      BY <1>0, <1>5, <2>2, WithPrefetch, Scaled
    <3>2. n + M <= RealIterations
      BY <1>5, <2>1, <3>1, WithPrefetch
    <3> HIDE DEF n, M
    <3> QED
      BY <1>0, <1>5, <2>1, <2>2, <3>2, WithPrefetch
  <2> QED
    BY <2>4, <2>5 DEF Right
<1> QED
  BY <1>1, <1>2, <1>3, <1>4, <1>5 DEF ControlInv, Sizes

(* A slot that is carried and bound holds what prefetching would.              *)
LEMMA FirstSlotHolds ==
  ASSUME NEW i, NEW r, WeightPrefetching(i) = AllOf(r), CarriedHolds(r)
  PROVE  FirstSlot(i) = AllOf(r)
<1>1. CASE sched.noCarry
  BY <1>1 DEF FirstSlot
<1>2. CASE ~sched.noCarry
  <2>1. FirstSlot(i) = [s \in Stages |-> Weights(carried[s].holds, AllOf(r)[s].grad)]
    BY <1>2 DEF FirstSlot, BindCarried
  <2>2. ASSUME NEW s \in Stages
        PROVE  Weights(carried[s].holds, AllOf(r)[s].grad) = Weights(r, r)
    BY <1>2 DEF CarriedHolds, AllOf, Weights
  <2> QED
    BY <2>1, <2>2 DEF AllOf
<1> QED
  BY <1>1, <1>2

LEMMA CarryHolds ==
  ASSUME NEW r, ~sched.noCarry, NEW s \in Stages
  PROVE  Carry(AllOf(r))[s].holds = r
BY DEF Carry, StopGradient, AllOf, Weights

LEMMA SlotTypes ==
  ASSUME Sizes, NEW i \in Int, carried \in WeightsOfStages
  PROVE  /\ FirstSlot(i) \in WeightsOfStages
         /\ Carry(WeightPrefetching(i)) \in WeightsOfStages /\ Zeros \in WeightsOfStages
<1>1. WeightPrefetching(i) \in WeightsOfStages
  BY Gathered
<1>2. None \in None .. LastRepeat
  BY DEF Sizes, LastRepeat, None
<1>3. Zeros \in WeightsOfStages
  BY <1>2 DEF Zeros, Weights, WeightsOfStages
<1>4. StopGradient(WeightPrefetching(i)) \in WeightsOfStages
  BY <1>1, <1>2 DEF StopGradient, Weights, WeightsOfStages
<1>5. BindCarried(carried, i) \in WeightsOfStages
  BY <1>1 DEF BindCarried, Weights, WeightsOfStages
<1> QED
  BY <1>1, <1>3, <1>4, <1>5 DEF FirstSlot, Carry

LEMMA StartRepeatStep ==
  ASSUME Sizes, ShapeInv, ControlInv, StartRepeat
  PROVE  ControlInv'
<1> DEFINE i == loop_iteration
           M == Microbatches
           n == M * repeat
           second == WeightPrefetching(SecondSlotIteration)
<1>0. /\ sched' = sched /\ loop_iteration' = i /\ left = 0 /\ left' = M /\ repeat' = repeat + 1
      /\ sched.prefetch /\ repeat \in Nat /\ repeat < sched.repeats /\ i \in Nat
      /\ bsw' = [first |-> FirstSlot(FirstSlotIteration), second |-> second]
      /\ carried' = Carry(second) /\ carried \in WeightsOfStages
  BY DEF StartRepeat, buffers, ShapeInv, ControlInv, ControlShape
<1>1. repeat \in 0 .. LastRepeat /\ n \in Int /\ M * (repeat + 1) = n + M /\ n >= 0
      /\ repeat + 1 \in 0 .. sched.repeats
  <2>1. repeat \in 0 .. LastRepeat /\ repeat \in Int /\ repeat + 1 \in 0 .. sched.repeats
    BY <1>0, WithPrefetch
  <2>2. n >= 0
    BY <1>0, WithPrefetch
  <2> QED
    BY <2>1, <2>2, NextWindow
<1>2. M \in Nat \ {0} /\ Bubble = LastStage /\ LastStage \in Nat /\ LastStage < M
      /\ LastRepeat \in Nat /\ sched.delay = 1
  BY <1>0, WithPrefetch
<1>3. CASE ~sched.phaseSplit
  <2>1. i = n /\ (repeat >= 1 => CarriedHolds(repeat - 1))
    <3>1. CASE Repeating
      BY <1>0, <1>1, <3>1 DEF Repeating
    <3>2. CASE Draining
      BY <1>0, <3>2 DEF Draining, Sizes
    <3> QED
      BY <1>0, <1>3, <3>1, <3>2 DEF ControlInv
  <2>2. second = AllOf(repeat)
    <3>1. i + LastStage < n + M
      <4> HIDE DEF n, M
      <4> QED
        BY <1>0, <1>1, <1>2, <2>1
    <3>2. SecondSlotIteration = i
      BY <1>3 DEF SecondSlotIteration
    <3> QED
      BY <1>0, <1>1, <1>2, <2>1, <3>1, <3>2, Prefetched
  <2>3. repeat >= 1 => FirstSlot(FirstSlotIteration) = AllOf(repeat - 1)
    <3> SUFFICES ASSUME repeat >= 1
                 PROVE  FirstSlot(FirstSlotIteration) = AllOf(repeat - 1)
      OBVIOUS
    <3> DEFINE l == M * (repeat - 1)
    <3>1. n = l + M /\ l \in Int /\ repeat - 1 \in 0 .. LastRepeat
      <4>1. repeat \in Int /\ repeat - 1 \in 0 .. LastRepeat
        BY <1>0, <1>1, <1>2
      <4> QED
        BY <4>1, NextWindow
    <3>2. i - M = l /\ l >= 0 /\ l + LastStage < l + M
      <4>1. l >= 0
        BY <1>2, <3>1
      <4> HIDE DEF n, M, l
      <4> QED
        BY <1>0, <1>2, <2>1, <3>1, <4>1
    <3>3. FirstSlotIteration = l
      <4>1. i >= M
        <5> HIDE DEF n, M, l
        <5> QED
          BY <1>0, <1>2, <2>1, <3>1, <3>2
      <4> QED
        BY <1>3, <3>2, <4>1 DEF FirstSlotIteration
    <3>4. WeightPrefetching(l) = AllOf(repeat - 1)
      BY <1>2, <3>1, <3>2, Prefetched
    <3> QED
      BY <2>1, <3>3, <3>4, FirstSlotHolds
  <2>4. FirstSlot(FirstSlotIteration) \in WeightsOfStages
    <3>1. FirstSlotIteration \in Int
      BY <1>0, <1>2, <1>3 DEF FirstSlotIteration
    <3> QED
      BY <1>0, <3>1, SlotTypes
  <2>5. second \in WeightsOfStages /\ Carry(second) \in WeightsOfStages
    <3>1. SecondSlotIteration = i /\ i \in Int
      BY <1>0, <1>3 DEF SecondSlotIteration
    <3> QED
      BY <1>0, <3>1, SlotTypes, Gathered
  <2>6. ControlShape'
    BY <1>0, <1>1, <1>2, <2>4, <2>5, Kept DEF ControlShape, WeightsOfStages, LastRepeat
  <2>7. ~sched.noCarry => \A s \in Stages : carried'[s].holds = repeat
    BY <1>0, <2>2, CarryHolds
  <2>8. Repeating'
    <3>1. repeat' - 1 = repeat /\ (repeat' >= 2 <=> repeat >= 1) /\ repeat' - 2 = repeat - 1
      BY <1>0
    <3>2. (loop_iteration + left = Microbatches * repeat)' /\ (left <= Microbatches)'
      BY <1>0, <1>1, <1>2, <2>1, Kept
    <3>3. bsw'.second = AllOf(repeat) /\ (repeat >= 1 => bsw'.first = AllOf(repeat - 1))
      BY <1>0, <2>2, <2>3
    <3> QED
      BY <1>0, <2>7, <3>1, <3>2, <3>3, Kept DEF Repeating, CarriedHolds, AllOf, Weights
  <2> QED
    BY <1>0, <1>3, <2>6, <2>8 DEF ControlInv
<1>4. CASE sched.phaseSplit
  <2>1. i = n + LastStage /\ CarriedHolds(repeat) /\ Clamp(repeat) = repeat
    <3>1. Clamp(repeat) = repeat
      BY <1>1, <1>2 DEF Clamp
    <3> QED
      BY <1>0, <1>1, <1>2, <1>4, <3>1 DEF ControlInv, Splitting
  <2>2. FirstSlot(FirstSlotIteration) = AllOf(repeat)
    <3>1. FirstSlotIteration = n
      <4> HIDE DEF n
      <4> QED
        BY <1>1, <1>2, <1>4, <2>1 DEF FirstSlotIteration
    <3>2. n + LastStage < n + M
      <4> HIDE DEF n, M
      <4> QED
        BY <1>1, <1>2
    <3>3. WeightPrefetching(n) = AllOf(repeat)
      BY <1>1, <1>2, <3>2, Prefetched
    <3> QED
      BY <2>1, <3>1, <3>3, FirstSlotHolds
  <2> DEFINE next == n + M
             l == M * LastRepeat
  <2>3. NextIteration = IF next > l THEN l ELSE next
    <3>1. i + M - Bubble = next
      <4> HIDE DEF n, M
      <4> QED
        BY <1>0, <1>1, <1>2, <2>1
    <3>2. LastRepeatIteration = l
      BY <1>2 DEF LastRepeatIteration
    <3> QED
      BY <3>1, <3>2 DEF NextIteration
  <2>4. SecondSlotIteration = M * Clamp(repeat + 1) /\ Clamp(repeat + 1) \in 0 .. LastRepeat
    <3>1. CASE repeat + 1 <= LastRepeat
      <4>1. M * (repeat + 1) <= l
        BY <1>0, <1>2, <3>1, Scaled
      <4>2. ~(next > l) /\ Clamp(repeat + 1) = repeat + 1
        <5>1. next \in Int /\ l \in Int /\ next <= l
          BY <1>1, <1>2, <4>1
        <5>2. Clamp(repeat + 1) = repeat + 1
          BY <1>0, <1>2, <3>1 DEF Clamp
        <5> HIDE DEF next, l
        <5> QED
          BY <5>1, <5>2
      <4> QED
        BY <1>0, <1>1, <1>4, <2>3, <3>1, <4>2 DEF SecondSlotIteration
    <3>2. CASE ~(repeat + 1 <= LastRepeat)
      <4>1. repeat = LastRepeat
        BY <1>1, <1>2, <3>2
      <4>2. next > l
        <5>1. n = l
          BY <4>1
        <5> HIDE DEF n, M, l
        <5> QED
          BY <1>1, <1>2, <5>1
      <4>3. Clamp(repeat + 1) = LastRepeat
        BY <1>1, <1>2, <3>2 DEF Clamp
      <4> QED
        BY <1>2, <1>4, <2>3, <4>2, <4>3 DEF SecondSlotIteration
    <3> QED
      BY <3>1, <3>2
  <2>5. second = AllOf(Clamp(repeat + 1))
    <3> DEFINE c == Clamp(repeat + 1)
               k == M * c
    <3>1. k \in Int /\ c \in 0 .. LastRepeat
      BY <1>2, <2>4
    <3>2. k <= k /\ k + LastStage < k + M
      <4> HIDE DEF k, M
      <4> QED
        BY <1>2, <3>1
    <3> HIDE DEF c
    <3>3. WeightPrefetching(k) = AllOf(c)
      BY <1>2, <3>1, <3>2, Prefetched
    <3> QED
      BY <2>4, <3>3 DEF c
  <2>6. FirstSlot(FirstSlotIteration) \in WeightsOfStages
        /\ second \in WeightsOfStages /\ Carry(second) \in WeightsOfStages
    <3>1. FirstSlotIteration \in Int /\ SecondSlotIteration \in Int
      BY <1>0, <1>2, <1>4, <2>4 DEF FirstSlotIteration
    <3> QED
      BY <1>0, <3>1, SlotTypes, Gathered
  <2>7. ControlShape'
    BY <1>0, <1>1, <1>2, <2>6, Kept DEF ControlShape, WeightsOfStages, LastRepeat
  <2>8. ~sched.noCarry => \A s \in Stages : carried'[s].holds = Clamp(repeat + 1)
    BY <1>0, <2>5, CarryHolds
  <2>9. Splitting'
    <3>1. (loop_iteration + left = Microbatches * repeat + LastStage)'
      <4>1. M * (repeat + 1) = n + M
        BY <1>1
      <4>2. i + M = (n + M) + LastStage
        <5> HIDE DEF n, M
        <5> QED
          BY <1>0, <1>1, <1>2, <2>1
      <4> QED
        BY <1>0, <4>1, <4>2, Kept
    <3>2. (left <= IF repeat = 0 THEN LastStage ELSE Microbatches)'
      BY <1>0, <1>2, Kept
    <3>3. bsw'.first = AllOf(repeat) /\ bsw'.second = AllOf(Clamp(repeat + 1))
      BY <1>0, <2>2, <2>5
    <3>4. repeat' # 0 /\ repeat' - 1 = repeat /\ Clamp(repeat)' = Clamp(repeat + 1)
      BY <1>0 DEF Clamp, LastRepeat
    <3> QED
      BY <1>0, <2>8, <3>1, <3>2, <3>3, <3>4, Kept DEF Splitting, CarriedHolds, AllOf, Weights
  <2> QED
    BY <1>0, <1>4, <2>7, <2>9 DEF ControlInv
<1> QED
  BY <1>3, <1>4 DEF Sizes

LEMMA StartDrainStep ==
  ASSUME Sizes, ShapeInv, ControlInv, StartDrain
  PROVE  ControlInv'
<1> DEFINE M == Microbatches
           n == M * LastRepeat
<1>0. /\ sched' = sched /\ loop_iteration' = loop_iteration /\ left = 0 /\ left' = Bubble
      /\ repeat' = repeat /\ repeat = sched.repeats /\ sched.prefetch /\ ~sched.phaseSplit
      /\ loop_iteration # TotalIterations /\ loop_iteration \in Nat
      /\ bsw' = BothSlots(FirstSlot(LastRepeatIteration))
      /\ carried' = carried /\ ControlShape
  BY DEF StartDrain, buffers, ShapeInv, ControlInv, Finished
<1>1. M \in Nat \ {0} /\ Bubble = LastStage /\ LastStage \in Nat /\ LastStage < M
      /\ LastRepeat \in Nat /\ sched.delay = 1 /\ LastRepeat = sched.repeats - 1
      /\ RealIterations \in Nat /\ TotalIterations = RealIterations + LastStage
      /\ RealIterations = M * sched.repeats /\ sched.repeats \in Nat /\ LastRepeat >= 1
  BY <1>0, WithPrefetch
<1>2. loop_iteration = RealIterations /\ CarriedHolds(LastRepeat)
  <2>1. ~Draining
    BY <1>0 DEF Draining
  <2>2. Repeating
    BY <1>0, <2>1 DEF ControlInv
  <2> QED
    BY <1>0, <1>1, <2>2 DEF Repeating
<1>3. FirstSlot(LastRepeatIteration) = AllOf(LastRepeat)
  <2>1. LastRepeatIteration = n /\ n \in Int /\ LastRepeat \in 0 .. LastRepeat
    BY <1>1 DEF LastRepeatIteration
  <2>2. n <= n /\ n + LastStage < n + M
    <3> HIDE DEF n, M
    <3> QED
      BY <1>1, <2>1
  <2>3. WeightPrefetching(n) = AllOf(LastRepeat)
    BY <1>1, <2>1, <2>2, Prefetched
  <2> QED
    BY <1>2, <2>1, <2>3, FirstSlotHolds
<1>4. ControlShape'
  <2>1. FirstSlot(LastRepeatIteration) \in WeightsOfStages
    <3>1. LastRepeatIteration \in Int
      BY <1>1 DEF LastRepeatIteration
    <3> QED
      BY <1>0, <3>1, SlotTypes DEF ControlShape
  <2> QED
    BY <1>0, <1>1, <2>1, Kept DEF ControlShape, BothSlots, WeightsOfStages, LastRepeat
<1>5. Draining'
  <2>1. AllOf(LastRepeat)' = AllOf(LastRepeat)
    BY <1>0, Kept DEF AllOf, Weights, LastRepeat
  <2>2. bsw'.first = AllOf(LastRepeat) /\ bsw'.second = AllOf(LastRepeat)
    BY <1>0, <1>3 DEF BothSlots
  <2>3. loop_iteration >= RealIterations /\ loop_iteration + left' = TotalIterations
    BY <1>0, <1>1, <1>2
  <2> QED
    BY <1>0, <2>1, <2>2, <2>3, Kept DEF Draining
<1> QED
  BY <1>0, <1>4, <1>5 DEF ControlInv

LEMMA GivenWeightsType ==
  ASSUME Sizes, ShapeInv, ControlInv
  PROVE  GivenWeights \in AnyWeights
<1>1. loop_iteration \in Int
  BY DEF ShapeInv
<1>2. bsw.first \in WeightsOfStages /\ bsw.second \in WeightsOfStages
  BY DEF ControlInv, ControlShape
<1>3. SelectWeights \in WeightsOfStages
  BY <1>2 DEF SelectWeights, WeightsOfStages
<1>4. StageWeights(loop_iteration) \in WeightsOfStages
  BY <1>1, Gathered
<1>5. WeightsOfStages \subseteq AnyWeights
  BY DEF WeightsOfStages, AnyWeights, None
<1> QED
  BY <1>2, <1>3, <1>4, <1>5 DEF GivenWeights

LEMMA RunStep ==
  ASSUME Sizes, BuffersInv, ControlInv, RunOneIteration
  PROVE  Sizes' /\ BuffersInv' /\ ControlInv'
<1>0. /\ left > 0 /\ left' = left - 1 /\ repeat' = repeat /\ bsw' = bsw /\ carried' = carried
      /\ Iterate(GivenWeights) /\ ShapeInv /\ ControlShape
  BY DEF RunOneIteration, GivenWeights, BuffersInv, ControlInv
<1>1. Right(GivenWeights) /\ loop_iteration < TotalIterations /\ GivenWeights \in AnyWeights
  BY <1>0, WeightsAreRight, GivenWeightsType
<1>2. Sizes' /\ BuffersInv'
  BY <1>0, <1>1, IterationStep
<1>3. sched' = sched /\ loop_iteration' = loop_iteration + 1 /\ loop_iteration \in Nat /\ left \in Nat
  BY <1>0 DEF Iterate, Advance, ShapeInv, ControlShape
<1>4. loop_iteration' + left' = loop_iteration + left /\ left' \in Nat /\ left' <= left
  BY <1>0, <1>3
<1>5. ControlShape'
  BY <1>0, <1>3, <1>4, Kept DEF ControlShape, WeightsOfStages, LastRepeat
<1>6. ASSUME NEW r
      PROVE  AllOf(r)' = AllOf(r) /\ (CarriedHolds(r) => CarriedHolds(r)')
  BY <1>0, <1>3, Kept DEF AllOf, Weights, CarriedHolds
<1>7. Plain => Plain'
  BY <1>3, <1>4, Kept DEF Plain
<1>8. Repeating => Repeating'
  <2> SUFFICES ASSUME Repeating
               PROVE  Repeating'
    OBVIOUS
  <2>1. left <= Microbatches /\ Microbatches \in Nat
    BY Totals DEF Repeating
  <2>2. left' <= Microbatches
    BY <1>3, <1>4, <2>1
  <2> QED
    BY <1>0, <1>3, <1>4, <1>6, <2>2, Kept DEF Repeating, CarriedHolds, AllOf, Weights
<1>9. Draining => Draining'
  <2> SUFFICES ASSUME Draining
               PROVE  Draining'
    OBVIOUS
  <2>1. loop_iteration' >= RealIterations
    <3>1. RealIterations \in Nat
      BY Totals
    <3> QED
      BY <1>3, <3>1 DEF Draining
  <2> QED
    BY <1>0, <1>3, <1>4, <2>1, Kept DEF Draining, AllOf, Weights, LastRepeat
<1>10. Splitting => Splitting'
  <2> SUFFICES ASSUME Splitting
               PROVE  Splitting'
    OBVIOUS
  <2>1. left' <= IF repeat = 0 THEN LastStage ELSE Microbatches
    <3>1. LastStage \in Nat /\ Microbatches \in Nat
      BY Totals DEF Sizes, LastStage
    <3> QED
      BY <1>3, <1>4, <3>1 DEF Splitting
  <2> QED
    BY <1>0, <1>3, <1>4, <2>1, Kept
       DEF Splitting, CarriedHolds, AllOf, Weights, Clamp, LastRepeat
<1> QED
  BY <1>2, <1>3, <1>5, <1>7, <1>8, <1>9, <1>10 DEF ControlInv

LEMMA ControlStutter ==
  ASSUME Sizes, BuffersInv, ControlInv, UNCHANGED vars
  PROVE  ControlInv'
<1> USE DEF vars, buffers
<1>1. sched' = sched
  OBVIOUS
<1>2. ControlShape'
  BY <1>1, Kept DEF ControlInv, ControlShape, WeightsOfStages, LastRepeat
<1>3. (Plain => Plain') /\ (Repeating => Repeating')
  BY <1>1, Kept DEF Plain, Repeating, CarriedHolds, AllOf, Weights
<1>4. (Draining => Draining') /\ (Splitting => Splitting')
  BY <1>1, Kept DEF Draining, Splitting, CarriedHolds, AllOf, Weights, Clamp, LastRepeat
<1> QED
  BY <1>1, <1>2, <1>3, <1>4 DEF ControlInv

LEMMA ControlStart ==
  ASSUME Init, Sizes
  PROVE  ControlInv
<1>0. loop_iteration = 0 /\ repeat = 0 /\ sched.repeats \in Nat
  BY DEF Init, BuffersInit, Sizes
<1>1. Zeros \in WeightsOfStages
  BY DEF Zeros, Weights, WeightsOfStages, Sizes, LastRepeat, None
<1>2. WeightPrefetching(0) \in WeightsOfStages
  BY Gathered, 0 \in Int
<1>3. Bubble \in Nat
  BY Totals DEF Bubble
<1>4. ControlShape
  <2>1. Microbatches * sched.repeats + Bubble \in Nat
    <3>1. Microbatches * sched.repeats \in Nat
      BY Totals DEF RealIterations
    <3> QED
      BY <1>3, <3>1
  <2>2. left \in Nat
    BY <1>3, <2>1 DEF Init
  <2>3. Carry(WeightPrefetching(0)) \in WeightsOfStages
    <3>1. StopGradient(WeightPrefetching(0)) \in WeightsOfStages
      BY <1>2 DEF StopGradient, Weights, WeightsOfStages, Sizes, LastRepeat, None
    <3> QED
      BY <1>1, <3>1 DEF Carry
  <2>4. carried \in WeightsOfStages
    BY <1>1, <2>3 DEF Init
  <2>5. bsw \in [first : WeightsOfStages, second : WeightsOfStages]
    BY <1>1, <1>2 DEF Init, BothSlots
  <2> QED
    BY <1>0, <2>2, <2>4, <2>5 DEF ControlShape
<1>5. CASE ~sched.prefetch
  <2>1. left = TotalIterations /\ TotalIterations \in Nat
    <3>1. left = Microbatches * sched.repeats + Bubble
      BY <1>5 DEF Init
    <3>2. TotalIterations = Microbatches * sched.repeats + Bubble
      BY DEF TotalIterations, Bubble
    <3>3. TotalIterations \in Nat
      <4>1. TotalIterations = RealIterations + RepeatIterations /\ RealIterations \in Nat
            /\ RepeatIterations \in Nat
        BY Totals
      <4> QED
        BY <4>1
    <3> QED
      BY <3>1, <3>2, <3>3
  <2> QED
    BY <1>0, <1>4, <1>5, <2>1 DEF ControlInv, Plain, Sizes
<1>6. CASE sched.prefetch /\ ~sched.phaseSplit
  <2>1. left = 0 /\ Microbatches \in Nat
    BY <1>6, WithPrefetch DEF Init
  <2>2. Repeating
    BY <1>0, <2>1 DEF Repeating
  <2> QED
    BY <1>4, <1>6, <2>2 DEF ControlInv
<1>7. CASE sched.prefetch /\ sched.phaseSplit
  <2>1. WeightPrefetching(0) = AllOf(0)
    <3>1. Microbatches * 0 = 0 /\ 0 <= 0 /\ 0 + LastStage < 0 + Microbatches /\ 0 \in 0 .. LastRepeat
          /\ sched.delay = 1
      BY <1>7, WithPrefetch
    <3> QED
      BY <3>1, Prefetched, 0 \in Int
  <2>2. bsw.first = AllOf(0) /\ bsw.second = AllOf(0) /\ carried = Carry(AllOf(0)) /\ left = LastStage
    BY <1>7, <2>1, WithPrefetch DEF Init, BothSlots
  <2>3. Clamp(repeat) = 0 /\ Microbatches * repeat + LastStage = LastStage /\ LastStage \in Nat
    BY <1>0, <1>7, WithPrefetch DEF Clamp
  <2>4. CarriedHolds(0)
    BY <2>2, CarryHolds DEF CarriedHolds
  <2>5. Splitting
    BY <1>0, <2>2, <2>3, <2>4 DEF Splitting
  <2> QED
    BY <1>4, <1>7, <2>5 DEF ControlInv
<1> QED
  BY <1>5, <1>6, <1>7 DEF Sizes

LEMMA WithinTotal ==
  ASSUME Sizes, ShapeInv, ControlInv
  PROVE  loop_iteration + left <= TotalIterations
<1>0. /\ repeat \in 0 .. sched.repeats /\ left \in Nat /\ loop_iteration \in Nat
  BY DEF ShapeInv, ControlInv, ControlShape
<1>1. CASE ~sched.prefetch
  <2>1. TotalIterations \in Int
    BY <1>0, <1>1 DEF ControlInv, Plain
  <2> QED
    BY <1>1, <2>1 DEF ControlInv, Plain
<1>2. CASE sched.prefetch
  <2> DEFINE n == Microbatches * repeat
  <2>1. n <= RealIterations /\ n \in Nat
    BY <1>0, <1>2, WithPrefetch, Scaled
  <2>2. /\ RealIterations \in Nat /\ LastStage \in Nat
        /\ TotalIterations = RealIterations + LastStage
    BY <1>2, WithPrefetch
  <2>3. \/ loop_iteration + left = n
        \/ loop_iteration + left = TotalIterations
        \/ loop_iteration + left = n + LastStage
    BY <1>2 DEF ControlInv, Repeating, Draining, Splitting, Sizes
  <2> HIDE DEF n
  <2> QED
    BY <1>0, <2>1, <2>2, <2>3
<1> QED
  BY <1>1, <1>2

-----------------------------------------------------------------------------
(* The theorems                                                                *)

PipelineInv == Sizes /\ BuffersInv /\ ControlInv

(* In every iteration each stage that has a microbatch is given what the       *)
(* stage before returned for it, or the last stage a repeat earlier, and the   *)
(* weights of the repeat it is in.                                             *)
THEOREM PipelineInvariant == Spec => []PipelineInv
<1>1. Init => PipelineInv
  BY BuffersStart, ControlStart DEF Init, PipelineInv
<1>2. PipelineInv /\ [Next]_vars => PipelineInv'
  <2> SUFFICES ASSUME PipelineInv, [Next]_vars
               PROVE  PipelineInv'
    OBVIOUS
  <2>0. Sizes /\ BuffersInv /\ ShapeInv /\ ControlInv
    BY DEF PipelineInv, BuffersInv
  <2>1. CASE StartRepeat
    <3>1. UNCHANGED buffers
      BY <2>1 DEF StartRepeat
    <3> QED
      BY <2>0, <2>1, <3>1, BuffersStutter, StartRepeatStep DEF PipelineInv
  <2>2. CASE StartDrain
    <3>1. UNCHANGED buffers
      BY <2>2 DEF StartDrain
    <3> QED
      BY <2>0, <2>2, <3>1, BuffersStutter, StartDrainStep DEF PipelineInv
  <2>3. CASE RunOneIteration
    BY <2>0, <2>3, RunStep DEF PipelineInv
  <2>4. CASE Done \/ UNCHANGED vars
    <3>1. UNCHANGED vars /\ UNCHANGED buffers
      BY <2>4 DEF Done, vars
    <3> QED
      BY <2>0, <3>1, BuffersStutter, ControlStutter DEF PipelineInv
  <2> QED
    BY <2>1, <2>2, <2>3, <2>4 DEF Next
<1> QED
  BY <1>1, <1>2, PTL DEF Spec

(* The buffers keep their shapes and the phases add up, whatever the schedule. *)
THEOREM PipelineTypeCorrect == Spec => []TypeOK
<1>1. PipelineInv => TypeOK
  <2> SUFFICES ASSUME PipelineInv
               PROVE  TypeOK
    OBVIOUS
  <2>1. Sizes /\ ShapeInv /\ ControlInv /\ ControlShape
    BY DEF PipelineInv, BuffersInv, ControlInv
  <2> QED
    BY <2>1, WithinTotal DEF TypeOK, ShapeInv, ControlShape
<1> QED
  BY <1>1, PipelineInvariant, PTL

(* Either pipeline returns what its layers, one after the other, return for    *)
(* every microbatch, and each at its own place.                                *)
THEOREM PipelineIsSequential == Spec => []SameAsSequential
<1>1. PipelineInv => SameAsSequential
  BY SequentialAtTheEnd DEF PipelineInv
<1> QED
  BY <1>1, PipelineInvariant, PTL

(* The metrics reduced for a layer are its own, one for every microbatch.      *)
THEOREM MetricsAreOfTheirLayer == Spec => []MetricsOfTheirLayer
<1>1. PipelineInv => MetricsOfTheirLayer
  BY SownAtTheEnd DEF PipelineInv, MetricsOfTheirLayer
<1> QED
  BY <1>1, PipelineInvariant, PTL

(* Gradients reach the weights of the layer that was run, carried slot or not. *)
THEOREM GradientsReachTheirLayer == Spec => []GradientReachesLayer
<1>1. PipelineInv => GradientReachesLayer
  BY SownAtTheEnd DEF PipelineInv, GradientReachesLayer
<1> QED
  BY <1>1, PipelineInvariant, PTL
=============================================================================
