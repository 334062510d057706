---------------------------- MODULE TrainLoopProofs ----------------------------
(***************************************************************************)
(* What the deferred queue of the metric logger promises, for any hosts    *)
(* and jobs: metrics are written once and in order, a loss that is not a   *)
(* number ends the job, evaluations are summed up with the step they       *)
(* followed, the files uploaded are complete, and the submission log is    *)
(* well-formed.                                                            *)
(***************************************************************************)
EXTENDS TrainLoop, SequenceTheorems, TLAPS

LoggerFields == {"buffered", "pending", "cumulative", "running", "written", "local", "gcs",
                 "abort", "stop"}
Entries == [kind : {"train", "eval"}, step : Nat, after : Nat]
Sums == SUBSET [after : Nat, batch : Nat]
Writes == [type : {"train", "running_eval", "eval"}, step : Nat, of : Sums]

IsLogger(l) ==
  /\ l = [f \in LoggerFields |-> l[f]]
  /\ l.buffered \in Seq(Entries) /\ Len(l.buffered) <= 1
  /\ l.written \in Seq(Writes)
  /\ l.cumulative \in Sums /\ l.pending \in Nat
  /\ l.abort \in BOOLEAN /\ l.stop \in BOOLEAN

StepsOf(w) == {w[i].step : i \in {k \in 1 .. Len(w) : w[k].type = "train"}}

InOrder(w) ==
  \A i, k \in 1 .. Len(w) :
    (i < k /\ w[i].type = "train" /\ w[k].type = "train") => w[i].step < w[k].step

(* The logger has been given the steps from start to below n, and the one      *)
(* whose loss is not a number has not been written.                            *)
Holding(l, n) ==
  \/ /\ l.buffered # <<>> /\ Head(l.buffered).kind = "train"
     /\ Head(l.buffered).step = n - 1 /\ n > job.start
     /\ StepsOf(l.written) = job.start .. n - 2
     /\ job.nan \notin job.start .. n - 2
  \/ /\ l.buffered = <<>> \/ Head(l.buffered).kind = "eval"
     /\ StepsOf(l.written) = job.start .. n - 1
     /\ job.nan \notin job.start .. n - 1

LoggerInv(l, n) ==
  /\ IsLogger(l) /\ InOrder(l.written)
  /\ l.abort => l.buffered = <<>>
  /\ ~l.abort => Holding(l, n)

-----------------------------------------------------------------------------
(* One more entry in a sequence of writes.                                     *)
LEMMA AppendWrite ==
  ASSUME NEW w \in Seq(Writes), NEW e \in Writes
  PROVE  /\ Append(w, e) \in Seq(Writes)
         /\ e.type = "train" => StepsOf(Append(w, e)) = StepsOf(w) \cup {e.step}
         /\ e.type # "train" => StepsOf(Append(w, e)) = StepsOf(w)
         /\ (InOrder(w) /\ (e.type = "train" => \A s \in StepsOf(w) : s < e.step))
              => InOrder(Append(w, e))
<1> DEFINE v == Append(w, e)
<1>1. v \in Seq(Writes) /\ Len(v) = Len(w) + 1 /\ Len(w) \in Nat
  OBVIOUS
<1>2. /\ \A i \in 1 .. Len(w) : v[i] = w[i]
      /\ v[Len(w) + 1] = e
  OBVIOUS
<1> HIDE DEF v
<1>3. ASSUME e.type = "train" PROVE StepsOf(v) = StepsOf(w) \cup {e.step}
  <2>1. \A s \in StepsOf(v) : s \in StepsOf(w) \cup {e.step}
    BY <1>1, <1>2 DEF StepsOf
  <2>2. \A s \in StepsOf(w) : s \in StepsOf(v)
    BY <1>1, <1>2 DEF StepsOf
  <2>3. e.step \in StepsOf(v)
    <3>1. Len(w) + 1 \in {k \in 1 .. Len(v) : v[k].type = "train"}
      BY <1>1, <1>2, <1>3
    <3> QED BY <3>1, <1>2 DEF StepsOf
  <2> QED BY <2>1, <2>2, <2>3
<1>4. ASSUME e.type # "train" PROVE StepsOf(v) = StepsOf(w)
  <2>1. {k \in 1 .. Len(v) : v[k].type = "train"} = {k \in 1 .. Len(w) : w[k].type = "train"}
    BY <1>1, <1>2, <1>4
  <2>2. \A k \in {i \in 1 .. Len(w) : w[i].type = "train"} : v[k] = w[k]
    BY <1>2
  <2> QED BY <2>1, <2>2 DEF StepsOf
<1>5. ASSUME InOrder(w), e.type = "train" => \A s \in StepsOf(w) : s < e.step
      PROVE  InOrder(v)
  <2> SUFFICES ASSUME NEW i \in 1 .. Len(v), NEW k \in 1 .. Len(v), i < k,
                      v[i].type = "train", v[k].type = "train"
               PROVE  v[i].step < v[k].step
    BY DEF InOrder
  <2>1. i \in 1 .. Len(w) /\ v[i] = w[i]
    BY <1>1, <1>2
  <2>2. CASE k \in 1 .. Len(w)
    BY <2>1, <2>2, <1>2, <1>5 DEF InOrder
  <2>3. CASE k = Len(w) + 1
    <3>1. v[i].step \in StepsOf(w)
      BY <2>1 DEF StepsOf
    <3> QED BY <3>1, <2>3, <1>2, <1>5
  <2> QED BY <2>2, <2>3, <1>1
<1> QED BY <1>1, <1>3, <1>4, <1>5 DEF v

(* Uploading changes nothing but what is kept for the upload.                  *)
LEMMA GcsLeavesTheRest ==
  ASSUME NEW l, NEW w, l = [f \in LoggerFields |-> l[f]]
  PROVE  LET r == WriteForGcs(l, w)
         IN /\ r = [f \in LoggerFields |-> r[f]]
            /\ \A f \in LoggerFields \ {"running", "gcs"} : r[f] = l[f]
BY DEF WriteForGcs, LoggerFields

LEMMA WriteMetricsEffect ==
  ASSUME NEW l, IsLogger(l), NEW w \in Writes
  PROVE  LET r == WriteMetrics(l, w)
         IN /\ IsLogger(r)
            /\ r.buffered = l.buffered /\ r.pending = l.pending /\ r.stop = l.stop
            /\ r.cumulative = l.cumulative
            /\ r.written = Append(l.written, w)
            /\ (r.abort <=> (w.type = "train" /\ w.step = job.nan))
<1> DEFINE g == WriteForGcs(l, w)
           r == WriteMetrics(l, w)
<1>1. /\ g = [f \in LoggerFields |-> g[f]]
      /\ \A f \in LoggerFields \ {"running", "gcs"} : g[f] = l[f]
  BY GcsLeavesTheRest DEF IsLogger
<1>2. r = [g EXCEPT !.written = Append(g.written, w),
                    !.local = Append(IF w.step = 0 THEN <<>> ELSE g.local, w),
                    !.abort = (w.type = "train" /\ w.step = job.nan)]
  BY DEF WriteMetrics
<1> HIDE DEF g, r
<1>3. /\ r = [f \in LoggerFields |-> r[f]]
      /\ \A f \in LoggerFields \ {"running", "gcs", "written", "local", "abort"} : r[f] = l[f]
      /\ r.written = Append(l.written, w)
      /\ r.abort = (w.type = "train" /\ w.step = job.nan)
  BY <1>1, <1>2 DEF LoggerFields
<1>4. r.buffered = l.buffered /\ r.pending = l.pending /\ r.stop = l.stop
      /\ r.cumulative = l.cumulative
  BY <1>3 DEF LoggerFields
<1>5. r.abort \in BOOLEAN
  BY <1>3
<1>6. IsLogger(r)
  BY <1>3, <1>4, <1>5, AppendWrite DEF IsLogger
<1> QED BY <1>3, <1>4, <1>6 DEF r

LEMMA FlushOneEffect ==
  ASSUME NEW l, IsLogger(l), NEW e \in Entries
  PROVE  LET r == FlushOne(l, e)
         IN /\ IsLogger(r)
            /\ r.buffered = l.buffered /\ r.pending = l.pending /\ r.stop = l.stop
            /\ \E w \in Writes :
                 /\ w.step = e.step /\ (w.type = "train" <=> e.kind = "train")
                 /\ r.written = Append(l.written, w)
                 /\ (r.abort <=> (w.type = "train" /\ w.step = job.nan))
<1>1. CASE e.kind = "train"
  <2> DEFINE w == Written("train", e.step, {})
  <2>1. w \in Writes /\ w.step = e.step /\ w.type = "train"
    BY DEF Written, Writes, Sums, Entries
  <2>2. FlushOne(l, e) = WriteMetrics(l, w)
    BY <1>1 DEF FlushOne
  <2> HIDE DEF w
  <2> QED BY <2>1, <2>2, <1>1, WriteMetricsEffect
<1>2. CASE e.kind = "eval"
  <2> DEFINE sum == l.cumulative \cup {[after |-> e.after, batch |-> e.step]}
             c == [l EXCEPT !.cumulative = sum]
             w == Written("running_eval", e.step, sum)
  <2>1. sum \in Sums
    BY DEF IsLogger, Sums, Entries
  <2>2. w \in Writes /\ w.step = e.step /\ w.type # "train"
    BY <2>1 DEF Written, Writes, Entries
  <2> HIDE DEF sum
  <2>3. /\ IsLogger(c) /\ c.buffered = l.buffered /\ c.pending = l.pending
        /\ c.stop = l.stop /\ c.written = l.written
    <3>1. /\ c = [f \in LoggerFields |-> c[f]]
          /\ \A f \in LoggerFields \ {"cumulative"} : c[f] = l[f]
          /\ c.cumulative = sum
      BY DEF IsLogger, LoggerFields
    <3> HIDE DEF c
    <3>2. /\ c.buffered = l.buffered /\ c.pending = l.pending /\ c.written = l.written
          /\ c.stop = l.stop /\ c.abort = l.abort
      BY <3>1 DEF LoggerFields
    <3> QED BY <3>1, <3>2, <2>1 DEF IsLogger
  <2>4. FlushOne(l, e) = WriteMetrics(c, w)
    BY <1>2 DEF FlushOne, sum
  <2> HIDE DEF w, c
  <2> DEFINE r == WriteMetrics(c, w)
  <2>5. /\ IsLogger(r)
        /\ r.buffered = c.buffered /\ r.pending = c.pending /\ r.stop = c.stop
        /\ r.written = Append(c.written, w)
        /\ (r.abort <=> (w.type = "train" /\ w.step = job.nan))
    BY <2>2, <2>3, WriteMetricsEffect
  <2> HIDE DEF r
  <2>6. FlushOne(l, e) = r
    BY <2>4 DEF r
  <2> QED BY <2>2, <2>3, <2>5, <2>6, <1>2
<1> QED BY <1>1, <1>2 DEF Entries

(* Taking the entry that waits leaves an empty queue, or an abort.             *)
LEMMA FlushedEffect ==
  ASSUME NEW l, NEW m, NEW n \in Nat, LoggerInv(l, n), ~l.abort,
         job.start \in Nat, job.nan \in Nat
  PROVE  LET r == Flushed(l, m)[1]
         IN /\ LoggerInv(r, n)
            /\ r.buffered = <<>> /\ r.pending = l.pending /\ r.stop = l.stop
<1>1. CASE l.buffered = <<>>
  BY <1>1 DEF Flushed
<1>2. CASE l.buffered # <<>>
  <2> DEFINE e == Head(l.buffered)
             b == [l EXCEPT !.buffered = Tail(l.buffered)]
             r == FlushOne(b, e)
  <2>1. e \in Entries /\ Tail(l.buffered) = <<>>
    BY <1>2 DEF LoggerInv, IsLogger
  <2>2. /\ IsLogger(b) /\ b.buffered = <<>> /\ b.pending = l.pending
        /\ b.stop = l.stop /\ b.written = l.written
    <3>1. /\ b = [f \in LoggerFields |-> b[f]]
          /\ \A f \in LoggerFields \ {"buffered"} : b[f] = l[f]
          /\ b.buffered = <<>>
      BY <2>1 DEF IsLogger, LoggerFields, LoggerInv
    <3> HIDE DEF b
    <3>2. /\ b.pending = l.pending /\ b.written = l.written /\ b.cumulative = l.cumulative
          /\ b.stop = l.stop /\ b.abort = l.abort
      BY <3>1 DEF LoggerFields
    <3>3. <<>> \in Seq(Entries) /\ Len(<<>>) <= 1
      OBVIOUS
    <3>4. IsLogger(l)
      BY DEF LoggerInv
    <3>5. /\ b.pending \in Nat /\ b.written \in Seq(Writes) /\ b.cumulative \in Sums
      BY <3>2, <3>4 DEF IsLogger
    <3>6. b.buffered \in Seq(Entries) /\ Len(b.buffered) <= 1
      BY <3>1, <3>3, Zenon
    <3>7. b.abort \in BOOLEAN /\ b.stop \in BOOLEAN
      BY <3>2, <3>4 DEF IsLogger
    <3>8. IsLogger(b)
      BY <3>1, <3>5, <3>6, <3>7 DEF IsLogger
    <3> QED BY <3>1, <3>2, <3>8
  <2>3. Flushed(l, m)[1] = r
    BY <1>2 DEF Flushed
  <2> HIDE DEF b, r
  <2>4. /\ IsLogger(r) /\ r.buffered = <<>> /\ r.pending = l.pending /\ r.stop = l.stop
    BY <2>1, <2>2, FlushOneEffect DEF r
  <2>5. PICK w \in Writes : /\ w.step = e.step /\ (w.type = "train" <=> e.kind = "train")
                            /\ r.written = Append(l.written, w)
                            /\ (r.abort <=> (w.type = "train" /\ w.step = job.nan))
    BY <2>1, <2>2, FlushOneEffect DEF r
  <2> HIDE DEF e
  <2>6. Holding(l, n) /\ InOrder(l.written) /\ l.written \in Seq(Writes)
    BY DEF LoggerInv, IsLogger
  <2>7. CASE e.kind = "train"
    <3>1. /\ e.step = n - 1 /\ n > job.start
          /\ StepsOf(l.written) = job.start .. n - 2 /\ job.nan \notin job.start .. n - 2
      BY <2>6, <2>7, <1>2 DEF Holding, e
    <3>2. StepsOf(r.written) = job.start .. n - 1 /\ InOrder(r.written)
      <4>1. StepsOf(r.written) = (job.start .. n - 2) \cup {n - 1}
        BY <2>5, <2>6, <2>7, <3>1, AppendWrite
      <4>2. (job.start .. n - 2) \cup {n - 1} = job.start .. n - 1
        BY <3>1
      <4>3. \A s \in StepsOf(l.written) : s < n - 1
        BY <3>1
      <4> QED BY <4>1, <4>2, <4>3, <3>1, <2>5, <2>6, AppendWrite
    <3>3. ~r.abort => job.nan \notin job.start .. n - 1
      BY <2>5, <2>7, <3>1
    <3> QED BY <2>3, <2>4, <3>2, <3>3 DEF LoggerInv, Holding
  <2>8. CASE e.kind = "eval"
    <3>1. StepsOf(l.written) = job.start .. n - 1 /\ job.nan \notin job.start .. n - 1
      BY <2>6, <2>8, <1>2 DEF Holding, e
    <3>2. StepsOf(r.written) = StepsOf(l.written) /\ InOrder(r.written)
      BY <2>5, <2>6, <2>8, AppendWrite
    <3> QED BY <2>3, <2>4, <3>1, <3>2 DEF LoggerInv, Holding
  <2> QED BY <2>1, <2>7, <2>8 DEF Entries
<1> QED BY <1>1, <1>2

Queued(l, k, e) == [[l EXCEPT !.pending = k] EXCEPT !.buffered = Append(l.buffered, e)]

(* Queueing an entry when nothing waits.                                       *)
LEMMA AppendEntry ==
  ASSUME NEW l, IsLogger(l), l.buffered = <<>>, NEW e \in Entries, NEW k \in Nat
  PROVE  LET r == Queued(l, k, e)
         IN /\ IsLogger(r) /\ r.buffered = <<e>> /\ r.pending = k /\ r.stop = l.stop
            /\ r.abort = l.abort /\ r.written = l.written
<1> DEFINE r == Queued(l, k, e)
<1>1. /\ r = [f \in LoggerFields |-> r[f]]
      /\ \A f \in LoggerFields \ {"buffered", "pending"} : r[f] = l[f]
      /\ r.buffered = <<e>> /\ r.pending = k
  <2> DEFINE q == [l EXCEPT !.pending = k]
  <2>1. /\ q = [f \in LoggerFields |-> q[f]]
        /\ \A f \in LoggerFields \ {"pending"} : q[f] = l[f]
        /\ q.pending = k
    BY DEF IsLogger, LoggerFields
  <2>2. r = [q EXCEPT !.buffered = Append(l.buffered, e)] /\ Append(l.buffered, e) = <<e>>
    BY DEF Queued
  <2> HIDE DEF q, r
  <2> QED BY <2>1, <2>2 DEF LoggerFields
<1> HIDE DEF r
<1>2. /\ r.written = l.written /\ r.cumulative = l.cumulative
      /\ r.stop = l.stop /\ r.abort = l.abort
  BY <1>1 DEF LoggerFields
<1>3. <<e>> \in Seq(Entries) /\ Len(<<e>>) <= 1
  OBVIOUS
<1>4. r.buffered \in Seq(Entries) /\ Len(r.buffered) <= 1
  BY <1>1, <1>3, Zenon
<1>5. IsLogger(r)
  BY <1>1, <1>2, <1>4 DEF IsLogger
<1> QED BY <1>1, <1>2, <1>5 DEF r

LEMMA BufferEvalEffect ==
  ASSUME NEW l, NEW m, NEW n \in Nat, LoggerInv(l, n), ~l.abort,
         job.start \in Nat, job.nan \in Nat, NEW e \in Entries, e.kind = "eval"
  PROVE  LET r == BufferEval(l, m, e)[1]
         IN LoggerInv(r, n) /\ r.stop = l.stop
<1> DEFINE f == Flushed(l, m)
           h == f[1]
           k == h.pending + 1
           b == Queued(h, k, e)
<1>1. LoggerInv(h, n) /\ h.buffered = <<>> /\ h.stop = l.stop
  BY FlushedEffect
<1>2. CASE h.abort
  <2>1. BufferEval(l, m, e) = f
    BY <1>2 DEF BufferEval
  <2> HIDE DEF f
  <2> QED BY <1>1, <2>1
<1>3. CASE ~h.abort
  <2>1. BufferEval(l, m, e)[1] = [h EXCEPT !.pending = @ + 1, !.buffered = Append(@, e)]
    BY <1>3 DEF BufferEval
  <2> HIDE DEF h
  <2>2. IsLogger(h) /\ Holding(h, n) /\ InOrder(h.written) /\ k \in Nat
    BY <1>1, <1>3 DEF LoggerInv, IsLogger
  <2>3. [h EXCEPT !.pending = @ + 1, !.buffered = Append(@, e)] = b
    <3>1. [h EXCEPT !.pending = h.pending + 1].buffered = h.buffered
      BY <2>2 DEF IsLogger, LoggerFields
    <3> QED BY <3>1 DEF Queued
  <2> HIDE DEF k
  <2>4. /\ IsLogger(b) /\ b.buffered = <<e>> /\ b.stop = h.stop
        /\ b.abort = h.abort /\ b.written = h.written
    BY <1>1, <2>2, AppendEntry
  <2> HIDE DEF b
  <2>5. Head(b.buffered) = e /\ b.buffered # <<>>
    BY <2>4
  <2>6. Holding(b, n)
    BY <1>1, <2>2, <2>4, <2>5 DEF Holding
  <2> QED BY <1>1, <1>3, <2>1, <2>2, <2>3, <2>4, <2>6 DEF LoggerInv
<1> QED BY <1>2, <1>3

LEMMA FinalizedEffect ==
  ASSUME NEW l, NEW m, NEW n \in Nat, NEW s \in Nat, LoggerInv(l, n), ~l.abort,
         l.buffered = <<>>, job.start \in Nat, job.nan \in Nat
  PROVE  LET r == Finalized(l, m, s)[1]
         IN LoggerInv(r, n) /\ ~r.abort /\ r.stop = (s = job.target)
<1> DEFINE c == [[l EXCEPT !.pending = 0] EXCEPT !.stop = (s = job.target)]
           w == Written("eval", s, l.cumulative)
           r == WriteMetrics(c, w)
<1>1. IsLogger(l) /\ Holding(l, n) /\ InOrder(l.written)
  BY DEF LoggerInv
<1>2. w \in Writes /\ w.type # "train"
  BY <1>1 DEF Written, Writes, IsLogger
<1>3. /\ c = [f \in LoggerFields |-> c[f]]
      /\ \A f \in LoggerFields \ {"pending", "stop"} : c[f] = l[f]
      /\ c.pending = 0 /\ c.stop = (s = job.target)
  <2> DEFINE q == [l EXCEPT !.pending = 0]
  <2>1. /\ q = [f \in LoggerFields |-> q[f]]
        /\ \A f \in LoggerFields \ {"pending"} : q[f] = l[f]
        /\ q.pending = 0
    BY <1>1 DEF IsLogger, LoggerFields
  <2>2. c = [q EXCEPT !.stop = (s = job.target)]
    OBVIOUS
  <2> HIDE DEF q, c
  <2>3. /\ c = [f \in LoggerFields |-> c[f]]
        /\ \A f \in LoggerFields \ {"stop"} : c[f] = q[f]
        /\ c.stop = (s = job.target)
    BY <2>1, <2>2 DEF LoggerFields
  <2> QED BY <2>1, <2>3 DEF LoggerFields
<1>4. Finalized(l, m, s)[1] = r
  BY DEF Finalized
<1> HIDE DEF c, w
<1>5. /\ c.buffered = l.buffered /\ c.written = l.written /\ c.cumulative = l.cumulative
      /\ c.abort = l.abort
  BY <1>3 DEF LoggerFields
<1>6. IsLogger(c)
  <2>1. c.buffered \in Seq(Entries) /\ Len(c.buffered) <= 1
    BY <1>1, <1>5, Zenon DEF IsLogger
  <2>2. /\ c.pending \in Nat /\ c.written \in Seq(Writes) /\ c.cumulative \in Sums
        /\ c.abort \in BOOLEAN
    BY <1>1, <1>3, <1>5 DEF IsLogger
  <2> QED BY <1>3, <2>1, <2>2 DEF IsLogger
<1>7. /\ IsLogger(r) /\ r.buffered = l.buffered /\ r.written = Append(l.written, w)
      /\ ~r.abort /\ r.stop = c.stop
  BY <1>2, <1>5, <1>6, WriteMetricsEffect
<1> HIDE DEF r
<1>8. StepsOf(r.written) = StepsOf(l.written) /\ InOrder(r.written)
  BY <1>1, <1>2, <1>7, AppendWrite DEF IsLogger
<1>9. Holding(r, n)
  BY <1>1, <1>7, <1>8 DEF Holding
<1> QED BY <1>3, <1>4, <1>7, <1>8, <1>9 DEF LoggerInv

LEMMA BufferTrainEffect ==
  ASSUME NEW l, NEW m, NEW s \in Nat, LoggerInv(l, s), ~l.abort, s >= job.start,
         job.start \in Nat, job.nan \in Nat
  PROVE  LET r == BufferTrain(l, m, s)[1]
         IN /\ LoggerInv(r, s + 1)
            /\ ~r.abort => job.nan \notin job.start .. s - 1
<1> DEFINE f == Flushed(l, m)
           h == f[1]
           e == TrainEntry(s)
           b == [h EXCEPT !.buffered = Append(h.buffered, e)]
           g == IF FlushNow(b) THEN Flushed(b, f[2]) ELSE <<b, f[2]>>
           r == BufferTrain(l, m, s)[1]
<1>1. LoggerInv(h, s) /\ h.buffered = <<>>
  BY FlushedEffect
<1>2. CASE h.abort
  <2>1. r = h
    BY <1>2 DEF BufferTrain
  <2> HIDE DEF h, r
  <2> QED BY <1>1, <1>2, <2>1 DEF LoggerInv, r
<1>3. CASE ~h.abort
  <2>1. r = IF g[1].abort \/ g[1].pending = 0 THEN g[1] ELSE Finalized(g[1], g[2], s)[1]
    BY <1>3 DEF BufferTrain
  <2> HIDE DEF r, h
  <2>2. IsLogger(h) /\ Holding(h, s) /\ InOrder(h.written)
    BY <1>1, <1>3 DEF LoggerInv
  <2>3. StepsOf(h.written) = job.start .. s - 1 /\ job.nan \notin job.start .. s - 1
    BY <1>1, <2>2 DEF Holding
  <2>4. e \in Entries /\ e.kind = "train" /\ e.step = s
    BY DEF TrainEntry, Entries
  <2> HIDE DEF e
  <2>5. LoggerInv(b, s + 1) /\ ~b.abort /\ b.pending = h.pending
    <3>1. b = Queued(h, h.pending, e)
      BY <2>2 DEF IsLogger, LoggerFields, Queued
    <3>2. h.pending \in Nat
      BY <2>2 DEF IsLogger
    <3>3. /\ IsLogger(b) /\ b.buffered = <<e>> /\ b.pending = h.pending
          /\ b.abort = h.abort /\ b.written = h.written
      <4> DEFINE k == h.pending
      <4>1. k \in Nat
        BY <3>2
      <4> HIDE DEF b, k
      <4>2. b = Queued(h, k, e)
        BY <3>1 DEF k
      <4>3. /\ IsLogger(b) /\ b.buffered = <<e>> /\ b.pending = k
            /\ b.abort = h.abort /\ b.written = h.written
        BY <1>1, <2>2, <2>4, <4>1, <4>2, AppendEntry
      <4> QED BY <4>3 DEF k
    <3> HIDE DEF b
    <3>4. Head(b.buffered) = e /\ b.buffered # <<>>
      BY <3>3
    <3>5. Holding(b, s + 1)
      <4>1. (s + 1) - 1 = s /\ (s + 1) - 2 = s - 1 /\ s + 1 > job.start
        OBVIOUS
      <4> QED BY <2>3, <2>4, <3>3, <3>4, <4>1 DEF Holding
    <3> QED BY <1>3, <2>2, <3>3, <3>5 DEF LoggerInv
  <2>6. /\ LoggerInv(g[1], s + 1)
        /\ FlushNow(b) => g[1].buffered = <<>>
        /\ g[1].pending = b.pending
    <3> HIDE DEF b
    <3>1. CASE FlushNow(b)
      BY <3>1, <2>5, FlushedEffect
    <3>2. CASE ~FlushNow(b)
      BY <3>2, <2>5
    <3> QED BY <3>1, <3>2
  <2> HIDE DEF g
  <2>7. CASE g[1].abort \/ g[1].pending = 0
    BY <2>1, <2>3, <2>6, <2>7 DEF r
  <2>8. CASE ~g[1].abort /\ g[1].pending # 0
    <3>1. g[1].buffered = <<>>
      <4>1. b.pending \in Nat
        BY <2>5 DEF LoggerInv, IsLogger
      <4> HIDE DEF b
      <4> QED BY <2>6, <2>8, <4>1 DEF FlushNow
    <3>2. r = Finalized(g[1], g[2], s)[1]
      BY <2>1, <2>8
    <3>3. LoggerInv(r, s + 1)
      BY <2>6, <2>8, <3>1, <3>2, FinalizedEffect
    <3> QED BY <2>3, <3>3 DEF r
  <2> QED BY <2>7, <2>8
<1> QED BY <1>2, <1>3

-----------------------------------------------------------------------------
(* The inductive invariant.                                                    *)

Handed == IF logger.stop THEN step + 1 ELSE step

QueueInv ==
  /\ job \in Jobs
  /\ step \in Nat /\ step >= job.start /\ evalCount \in Nat
  /\ LoggerInv(logger, Handed)
  /\ phase \in {"train", "eval", "report"} => ~logger.abort /\ ~logger.stop
  /\ step <= job.nan + 1 \/ job.nan < job.start
  /\ phase = "ended" => ~logger.abort /\ logger.buffered = <<>>

LEMMA OneEntry ==
  ASSUME NEW s \in Seq(Entries), s # <<>>, Len(s) <= 1
  PROVE  Len(s) = 1 /\ Head(s) = s[1]
<1>1. Len(s) # 0
  BY EmptySeq
<1>2. Len(s) \in Nat
  BY LenProperties
<1>3. \A k \in Nat : k # 0 /\ k <= 1 => k = 1
  OBVIOUS
<1>4. Head(s) = s[1]
  BY HeadTailProperties
<1> QED BY <1>1, <1>2, <1>3, <1>4, Zenon

LEMMA JobFacts ==
  ASSUME NEW j \in Jobs
  PROVE  j.start \in Nat /\ j.nan \in Nat /\ j.steps \in Nat
BY JobsAssumption

LEMMA InitQueue == Init => QueueInv
<1> SUFFICES ASSUME Init PROVE QueueInv
  OBVIOUS
<1>1. job.start \in Nat /\ job.nan \in Nat
  BY JobFacts DEF Init
<1>2. IsLogger(NewLogger)
  BY DEF IsLogger, NewLogger, LoggerFields, Sums
<1>3. InOrder(NewLogger.written) /\ StepsOf(NewLogger.written) = {}
  BY DEF NewLogger, InOrder, StepsOf
<1>4. Holding(NewLogger, job.start)
  <2>1. NewLogger.buffered = <<>>
    BY DEF NewLogger
  <2>2. job.start .. job.start - 1 = {}
    BY <1>1
  <2> QED BY <1>3, <2>1, <2>2, Zenon DEF Holding
<1>5. ~NewLogger.abort /\ ~NewLogger.stop
  BY DEF NewLogger
<1> QED BY <1>1, <1>2, <1>3, <1>4, <1>5 DEF Init, QueueInv, LoggerInv, Handed

LEMMA ResetKeeps ==
  ASSUME NEW l, NEW n, LoggerInv(l, n)
  PROVE  LET r == ResetEvalMetrics(l)
         IN LoggerInv(r, n) /\ r.stop = l.stop /\ r.abort = l.abort
<1> DEFINE r == ResetEvalMetrics(l)
           q == [l EXCEPT !.cumulative = {}]
<1>1. /\ q = [f \in LoggerFields |-> q[f]]
      /\ \A f \in LoggerFields \ {"cumulative"} : q[f] = l[f]
      /\ q.cumulative = {}
  BY DEF LoggerInv, IsLogger, LoggerFields
<1>2. r = [q EXCEPT !.pending = 0]
  BY DEF ResetEvalMetrics
<1> HIDE DEF q, r
<1>3. /\ r = [f \in LoggerFields |-> r[f]]
      /\ \A f \in LoggerFields \ {"cumulative", "pending"} : r[f] = l[f]
      /\ r.cumulative = {} /\ r.pending = 0
  BY <1>1, <1>2 DEF LoggerFields
<1>4. /\ r.buffered = l.buffered /\ r.written = l.written
      /\ r.stop = l.stop /\ r.abort = l.abort
  BY <1>3 DEF LoggerFields
<1>5. r.cumulative \in Sums /\ r.pending \in Nat
  BY <1>3 DEF Sums
<1>6. IsLogger(r)
  BY <1>3, <1>4, <1>5 DEF LoggerInv, IsLogger
<1> QED BY <1>4, <1>6 DEF LoggerInv, Holding, r

LEMMA NextQueue == QueueInv /\ [Next]_vars => QueueInv'
<1> SUFFICES ASSUME QueueInv, [Next]_vars PROVE QueueInv'
  OBVIOUS
<1> USE DEF QueueInv
<1>0. job.start \in Nat /\ job.nan \in Nat
  BY JobFacts
<1>1. CASE UNCHANGED vars
  BY <1>1 DEF vars, Handed, LoggerInv, Holding
<1>2. ASSUME NEW h \in Hosts, LoadTrain(h) PROVE QueueInv'
  BY <1>2 DEF LoadTrain, Handed, LoggerInv, Holding
<1>3. ASSUME NEW h \in Hosts, LoadEval(h) PROVE QueueInv'
  BY <1>3 DEF LoadEval, Handed, LoggerInv, Holding
<1>4. CASE TrainStep
  <2>1. /\ job' = job /\ step' = step /\ evalCount' \in Nat
        /\ phase = "train" /\ phase' \in {"eval", "report"}
        /\ logger' = logger \/ logger' = ResetEvalMetrics(logger)
    BY <1>4 DEF TrainStep
  <2>2. LoggerInv(logger, step) /\ ~logger.abort /\ ~logger.stop
    BY <2>1 DEF Handed
  <2>3. LoggerInv(logger', step) /\ ~logger'.abort /\ ~logger'.stop
    BY <2>1, <2>2, ResetKeeps
  <2>4. LoggerInv(logger, Handed)'
    BY <2>1, <2>3 DEF Handed, LoggerInv, Holding
  <2> QED BY <2>1, <2>3, <2>4
<1>5. CASE LoaderStops
  BY <1>5 DEF LoaderStops, Handed, LoggerInv, Holding
<1>6. CASE EvalStep
  <2> DEFINE e == EvalEntry(evalCount, step)
             r == BufferEval(logger, mllog, e)[1]
  <2>1. /\ job' = job /\ step' = step /\ evalCount' = evalCount + 1
        /\ phase = "eval" /\ logger' = r
        /\ phase' = IF r.abort THEN "final" ELSE phase
    BY <1>6 DEF EvalStep
  <2>2. LoggerInv(logger, step) /\ ~logger.abort /\ ~logger.stop
    BY <2>1 DEF Handed
  <2>3. e \in Entries /\ e.kind = "eval"
    BY DEF EvalEntry, Entries
  <2> HIDE DEF e
  <2>4. LoggerInv(r, step) /\ r.stop = logger.stop
    BY <1>0, <2>2, <2>3, BufferEvalEffect
  <2> HIDE DEF r
  <2>5. LoggerInv(logger, Handed)'
    BY <2>1, <2>2, <2>4 DEF Handed, LoggerInv, Holding
  <2>6. evalCount' \in Nat
    BY <2>1
  <2> QED BY <2>1, <2>2, <2>4, <2>5, <2>6
<1>7. CASE EvalEnds
  BY <1>7 DEF EvalEnds, Handed, LoggerInv, Holding
<1>8. CASE EvalFails
  BY <1>8 DEF EvalFails, Handed, LoggerInv, Holding
<1>9. CASE Report
  <2> DEFINE r == BufferTrain(logger, mllog, step)[1]
  <2>1. /\ job' = job /\ evalCount' = evalCount /\ phase = "report" /\ logger' = r
        /\ phase' \in {"train", "final"}
        /\ IF r.abort \/ r.stop THEN step' = step /\ phase' = "final" ELSE step' = step + 1
    BY <1>9 DEF Report
  <2>2. LoggerInv(logger, step) /\ ~logger.abort /\ ~logger.stop
    BY <2>1 DEF Handed
  <2>3. LoggerInv(r, step + 1) /\ (~r.abort => job.nan \notin job.start .. step - 1)
    BY <1>0, <2>2, BufferTrainEffect
  <2> HIDE DEF r
  <2>4. LoggerInv(logger, Handed)'
    BY <2>1, <2>3 DEF Handed, LoggerInv, Holding
  <2>5. step' \in Nat /\ step' >= job.start
    BY <1>0, <2>1
  <2>6. step' <= job.nan + 1 \/ job.nan < job.start
    BY <1>0, <2>1, <2>3
  <2> QED BY <2>1, <2>3, <2>4, <2>5, <2>6
<1>10. CASE Finish
  <2> DEFINE r == Flushed(logger, mllog)[1]
  <2>1. /\ job' = job /\ step' = step /\ evalCount' = evalCount /\ logger' = r
        /\ phase' \in {"ended", "aborted"} /\ (phase' = "ended" => ~r.abort)
    BY <1>10 DEF Finish, CleanUp
  <2>2. CASE ~logger.abort
    <3>1. Handed \in Nat
      BY DEF Handed
    <3>2. LoggerInv(r, Handed) /\ r.buffered = <<>> /\ r.stop = logger.stop
      BY <1>0, <2>2, <3>1, FlushedEffect
    <3> HIDE DEF r
    <3>3. LoggerInv(logger, Handed)'
      BY <2>1, <3>2 DEF Handed, LoggerInv, Holding
    <3> QED BY <2>1, <3>2, <3>3
  <2>3. CASE logger.abort
    <3>1. r = logger
      BY <2>3 DEF Flushed, LoggerInv
    <3> HIDE DEF r
    <3> QED BY <2>1, <2>3, <3>1 DEF Handed, LoggerInv, Holding
  <2> QED BY <2>2, <2>3
<1>11. CASE Done
  BY <1>11 DEF Done, vars, Handed, LoggerInv, Holding
<1> QED BY <1>1, <1>2, <1>3, <1>4, <1>5, <1>6, <1>7, <1>8, <1>9, <1>10, <1>11
        DEF Next, Together

(* The queue holds the metrics of the last step and everything before it is    *)
(* written: the invariant of the logger, in every behaviour.                   *)
THEOREM QueueInvariant == Spec => []QueueInv
<1>1. Init => QueueInv
  BY InitQueue
<1>2. QueueInv /\ [Next]_vars => QueueInv'
  BY NextQueue
<1> QED BY <1>1, <1>2, PTL DEF Spec

(* The metrics of every step are written exactly once, in order and before the *)
(* job ends, for any hosts, data and schedule of evaluations.                  *)
THEOREM MetricsAreWrittenOnce == Spec => []MetricsWrittenOnce
<1>1. QueueInv => MetricsWrittenOnce
  <2> SUFFICES ASSUME QueueInv PROVE MetricsWrittenOnce
    OBVIOUS
  <2>0. job.start \in Nat /\ step \in Nat
    BY JobFacts DEF QueueInv
  <2>1. LoggerInv(logger, Handed) /\ Reported = job.start .. Handed - 1
    BY <2>0 DEF QueueInv, Handed, Reported
  <2>2. WrittenSteps = StepsOf(logger.written)
    BY DEF WrittenSteps, StepsOf
  <2>3. InOrder(logger.written)
    BY <2>1 DEF LoggerInv
  <2>4. Handed \in Nat
    BY <2>0 DEF Handed
  <2>5. logger.buffered = <<>> => Waiting = {}
    BY DEF Waiting
  <2>6. CASE logger.abort
    BY <2>1, <2>3, <2>5, <2>6 DEF LoggerInv, MetricsWrittenOnce, InOrder, QueueInv
  <2>7. CASE ~logger.abort
    <3> DEFINE e == Head(logger.buffered)
    <3>1. Holding(logger, Handed) /\ IsLogger(logger)
      BY <2>1, <2>7 DEF LoggerInv
    <3>2. logger.buffered # <<>> => Waiting = IF e.kind = "train" THEN {e.step} ELSE {}
      <4> SUFFICES ASSUME logger.buffered # <<>>
                   PROVE  Waiting = IF e.kind = "train" THEN {e.step} ELSE {}
        OBVIOUS
      <4>0. logger.buffered \in Seq(Entries) /\ logger.buffered # <<>> /\ Len(logger.buffered) <= 1
        BY <3>1 DEF IsLogger
      <4>1. Len(logger.buffered) = 1 /\ e = logger.buffered[1]
        BY <4>0, OneEntry
      <4>2. 1 .. Len(logger.buffered) = {1}
        BY <4>1
      <4> HIDE DEF e
      <4> QED BY <4>1, <4>2 DEF Waiting
    <3>3. WrittenSteps \cup Waiting = Reported /\ \A s \in WrittenSteps, t \in Waiting : s < t
      <4>1. CASE /\ logger.buffered # <<>> /\ e.kind = "train"
                 /\ e.step = Handed - 1 /\ Handed > job.start
                 /\ StepsOf(logger.written) = job.start .. Handed - 2
        <5> HIDE DEF e
        <5>1. Waiting = {Handed - 1}
          BY <3>2, <4>1
        <5> QED BY <2>0, <2>1, <2>2, <2>4, <4>1, <5>1
      <4>2. CASE /\ logger.buffered = <<>> \/ e.kind = "eval"
                 /\ StepsOf(logger.written) = job.start .. Handed - 1
        <5>1. Waiting = {}
          BY <2>5, <3>2, <4>2
        <5> QED BY <2>1, <2>2, <4>2, <5>1
      <4> QED BY <3>1, <4>1, <4>2 DEF Holding
    <3>4. phase = "ended" => Waiting = {}
      BY <2>5 DEF QueueInv
    <3>5. phase = "ended" => WrittenSteps = Reported
      BY <3>3, <3>4
    <3> HIDE DEF e
    <3> QED BY <2>3, <3>3, <3>5 DEF MetricsWrittenOnce, InOrder
  <2> QED BY <2>6, <2>7
<1> QED BY <1>1, QueueInvariant, PTL

(* A loss that is not a number is noticed one step later at the latest, and no *)
(* job that reported it ends well.                                             *)
THEOREM NanLossAborts == Spec => []NanAborts
<1>1. QueueInv => NanAborts
  <2> SUFFICES ASSUME QueueInv PROVE NanAborts
    OBVIOUS
  <2>1. job.start \in Nat /\ job.nan \in Nat /\ step \in Nat
    BY JobFacts DEF QueueInv
  <2>2. ASSUME phase = "ended" PROVE job.nan \notin Reported
    <3>1. Holding(logger, Handed) /\ logger.buffered = <<>>
      BY <2>2 DEF QueueInv, LoggerInv
    <3> QED BY <2>1, <3>1 DEF Holding, Handed, Reported
  <2> QED BY <2>2 DEF QueueInv, NanAborts
<1> QED BY <1>1, QueueInvariant, PTL

-----------------------------------------------------------------------------
(* What a logger wrote: the entry, and the file if its period is complete.     *)
Added(files, name, file) ==
  [f \in {name} \cup DOMAIN files |-> IF f = name THEN file ELSE files[f]]
FileOf(w) == <<(w.step \div job.logPeriod) * job.logPeriod, w.step>>

Wrote(l, r, w) ==
  /\ r.written = Append(l.written, w)
  /\ r.running = IF UploadDue(w) THEN <<>> ELSE Append(l.running, w)
  /\ r.gcs = IF UploadDue(w) THEN Added(l.gcs, FileOf(w), Append(l.running, w)) ELSE l.gcs

SameWrites(l, r) == r.written = l.written /\ r.running = l.running /\ r.gcs = l.gcs

(* What the batch of an evaluation adds to the sum.                            *)
SumWith(l, e) == l.cumulative \cup {[after |-> e.after, batch |-> e.step]}

Passed(l, r, e) ==
  IF e.kind = "train"
    THEN r.cumulative = l.cumulative /\ Wrote(l, r, Written("train", e.step, {}))
    ELSE /\ r.cumulative = SumWith(l, e)
         /\ Wrote(l, r, Written("running_eval", e.step, SumWith(l, e)))

LEMMA WriteMetricsWrites ==
  ASSUME NEW l, IsLogger(l), NEW w
  PROVE  Wrote(l, WriteMetrics(l, w), w)
<1> DEFINE g == WriteForGcs(l, w)
           r == WriteMetrics(l, w)
<1>1. /\ g = [f \in LoggerFields |-> g[f]]
      /\ g.written = l.written
      /\ g.running = IF UploadDue(w) THEN <<>> ELSE Append(l.running, w)
      /\ g.gcs = IF UploadDue(w) THEN Added(l.gcs, FileOf(w), Append(l.running, w)) ELSE l.gcs
  BY DEF Added, WriteForGcs, IsLogger, LoggerFields, FileOf
<1>2. r = [g EXCEPT !.written = Append(g.written, w),
                    !.local = Append(IF w.step = 0 THEN <<>> ELSE g.local, w),
                    !.abort = (w.type = "train" /\ w.step = job.nan)]
  BY DEF WriteMetrics
<1> HIDE DEF g, r
<1>3. r.written = Append(g.written, w) /\ r.running = g.running /\ r.gcs = g.gcs
  BY <1>1, <1>2 DEF LoggerFields
<1> QED BY <1>1, <1>3 DEF Wrote, r

LEMMA FlushOneWrites ==
  ASSUME NEW l, IsLogger(l), NEW e \in Entries
  PROVE  Passed(l, FlushOne(l, e), e)
<1>1. CASE e.kind = "train"
  <2> DEFINE w == Written("train", e.step, {})
  <2>1. w \in Writes
    BY DEF Written, Writes, Sums, Entries
  <2>2. FlushOne(l, e) = WriteMetrics(l, w)
    BY <1>1 DEF FlushOne
  <2>3. Passed(l, WriteMetrics(l, w), e) <=>
          WriteMetrics(l, w).cumulative = l.cumulative /\ Wrote(l, WriteMetrics(l, w), w)
    BY <1>1 DEF Passed
  <2> HIDE DEF w
  <2> QED BY <2>1, <2>2, <2>3, WriteMetricsEffect, WriteMetricsWrites
<1>2. CASE e.kind # "train"
  <2> DEFINE sum == SumWith(l, e)
             c == [l EXCEPT !.cumulative = sum]
             w == Written("running_eval", e.step, sum)
  <2>1. sum \in Sums
    BY DEF IsLogger, Sums, Entries, SumWith
  <2>2. w \in Writes
    BY <2>1 DEF Written, Writes, Entries
  <2> HIDE DEF sum
  <2>3. IsLogger(c) /\ c.cumulative = sum /\ SameWrites(l, c)
    <3>1. /\ c = [f \in LoggerFields |-> c[f]]
          /\ \A f \in LoggerFields \ {"cumulative"} : c[f] = l[f]
          /\ c.cumulative = sum
      BY DEF IsLogger, LoggerFields
    <3> HIDE DEF c
    <3>2. /\ c.buffered = l.buffered /\ c.pending = l.pending /\ c.written = l.written
          /\ c.stop = l.stop /\ c.abort = l.abort /\ c.running = l.running /\ c.gcs = l.gcs
      BY <3>1 DEF LoggerFields
    <3> QED BY <3>1, <3>2, <2>1 DEF IsLogger, SameWrites
  <2>4. FlushOne(l, e) = WriteMetrics(c, w)
    BY <1>2 DEF FlushOne, sum, SumWith
  <2>5. Passed(l, WriteMetrics(c, w), e) <=>
          WriteMetrics(c, w).cumulative = sum /\ Wrote(l, WriteMetrics(c, w), w)
    BY <1>2 DEF Passed, sum
  <2> HIDE DEF w, c
  <2>6. Wrote(l, WriteMetrics(c, w), w)
    BY <2>3, WriteMetricsWrites DEF Wrote, SameWrites
  <2> QED BY <2>2, <2>3, <2>4, <2>5, <2>6, WriteMetricsEffect
<1> QED BY <1>1, <1>2

(* Taking the entry that waits writes it, and nothing else.                    *)
LEMMA FlushedWrites ==
  ASSUME NEW l, NEW m, IsLogger(l), l.buffered # <<>>
  PROVE  /\ Head(l.buffered) \in Entries
         /\ Passed(l, Flushed(l, m)[1], Head(l.buffered))
<1> DEFINE e == Head(l.buffered)
           b == [l EXCEPT !.buffered = Tail(l.buffered)]
<1>1. e \in Entries /\ Tail(l.buffered) = <<>>
  BY DEF IsLogger
<1>2. Flushed(l, m)[1] = FlushOne(b, e)
  BY DEF Flushed
<1>3. /\ b = [f \in LoggerFields |-> b[f]]
      /\ \A f \in LoggerFields \ {"buffered"} : b[f] = l[f]
      /\ b.buffered = <<>>
  BY <1>1 DEF IsLogger, LoggerFields
<1> HIDE DEF b, e
<1>4. SameWrites(l, b) /\ b.cumulative = l.cumulative
  BY <1>3 DEF LoggerFields, SameWrites
<1>5. IsLogger(b)
  <2>1. /\ b.pending = l.pending /\ b.stop = l.stop /\ b.abort = l.abort
    BY <1>3 DEF LoggerFields
  <2>2. <<>> \in Seq(Entries) /\ Len(<<>>) <= 1
    OBVIOUS
  <2>3. b.buffered \in Seq(Entries) /\ Len(b.buffered) <= 1
    BY <1>3, <2>2, Zenon
  <2>4. b.written \in Seq(Writes) /\ b.cumulative \in Sums /\ b.pending \in Nat
    BY <1>4, <2>1 DEF IsLogger, SameWrites
  <2>5. b.abort \in BOOLEAN /\ b.stop \in BOOLEAN
    BY <2>1 DEF IsLogger
  <2> QED BY <1>3, <2>3, <2>4, <2>5 DEF IsLogger
<1>6. Passed(b, FlushOne(b, e), e)
  BY <1>1, <1>5, FlushOneWrites
<1>7. SumWith(b, e) = SumWith(l, e)
  BY <1>4 DEF SumWith
<1>8. Passed(l, FlushOne(b, e), e)
  BY <1>4, <1>6, <1>7 DEF Passed, Wrote, SameWrites
<1> QED BY <1>1, <1>2, <1>8 DEF e

-----------------------------------------------------------------------------
(* The evaluations, batch by batch                                             *)

EvalBatches(s, n) == {[after |-> s, batch |-> b] : b \in 0 .. n - 1}

SummariesIn(w) == {i \in 1 .. Len(w) : w[i].type = "eval"}

(* The evaluations of the steps below n are summarised in w.                   *)
Summarized(w, n) ==
  /\ \A i \in SummariesIn(w) : w[i].of = EvalBatches(w[i].step, Batches)
  /\ \A i, k \in SummariesIn(w) : i < k => w[i].step < w[k].step
  /\ {w[i].step : i \in SummariesIn(w)} =
       {s \in job.start .. n - 1 : RanEval(s) /\ Batches > 0}

(* A write that is no summary leaves the summaries as they are.                *)
LEMMA NoSummary ==
  ASSUME NEW w \in Seq(Writes), NEW e \in Writes, NEW n \in Nat,
         e.type # "eval", Summarized(w, n)
  PROVE  Summarized(Append(w, e), n)
<1> DEFINE v == Append(w, e)
<1>1. Len(v) = Len(w) + 1 /\ Len(w) \in Nat
  OBVIOUS
<1>2. /\ \A i \in 1 .. Len(w) : v[i] = w[i]
      /\ v[Len(w) + 1] = e
  OBVIOUS
<1> HIDE DEF v
<1>3. SummariesIn(v) = SummariesIn(w) /\ SummariesIn(w) \subseteq 1 .. Len(w)
  BY <1>1, <1>2 DEF SummariesIn
<1>4. \A i \in SummariesIn(w) : v[i] = w[i]
  BY <1>2, <1>3
<1> HIDE DEF v
<1>5. {v[i].step : i \in SummariesIn(v)} = {w[i].step : i \in SummariesIn(w)}
  BY <1>3, <1>4
<1> QED BY <1>3, <1>4, <1>5 DEF Summarized, v

(* The summary of the evaluation after step n.                                 *)
LEMMA OneSummary ==
  ASSUME NEW w \in Seq(Writes), NEW e \in Writes, NEW n \in Nat,
         job.start \in Nat, n >= job.start, RanEval(n), Batches > 0,
         e.type = "eval", e.step = n, e.of = EvalBatches(n, Batches), Summarized(w, n)
  PROVE  Summarized(Append(w, e), n + 1)
<1> DEFINE v == Append(w, e)
           last == Len(w) + 1
<1>1. Len(v) = Len(w) + 1 /\ Len(w) \in Nat
  OBVIOUS
<1>2. /\ \A i \in 1 .. Len(w) : v[i] = w[i]
      /\ v[last] = e
  OBVIOUS
<1> HIDE DEF v
<1>3. SummariesIn(v) = SummariesIn(w) \cup {last} /\ SummariesIn(w) \subseteq 1 .. Len(w)
  BY <1>1, <1>2 DEF SummariesIn
<1>4. \A i \in SummariesIn(w) : v[i] = w[i] /\ i < last
  BY <1>1, <1>2, <1>3
<1>5. \A i \in SummariesIn(v) : v[i].of = EvalBatches(v[i].step, Batches)
  BY <1>2, <1>3, <1>4 DEF Summarized
<1>6. \A i \in SummariesIn(w) : w[i].step < n
  <2> TAKE i \in SummariesIn(w)
  <2>1. w[i].step \in {s \in job.start .. n - 1 : RanEval(s) /\ Batches > 0}
    BY DEF Summarized
  <2> QED BY <2>1
<1>7. \A i, k \in SummariesIn(v) : i < k => v[i].step < v[k].step
  <2> TAKE i, k \in SummariesIn(v)
  <2> HAVE i < k
  <2>1. CASE k = last
    <3>1. i \in SummariesIn(w)
      BY <1>3, <2>1
    <3> QED BY <3>1, <2>1, <1>2, <1>4, <1>6
  <2>2. CASE k # last
    <3>1. k \in SummariesIn(w) /\ k < last
      BY <1>3, <1>4, <2>2
    <3>2. i # last
      BY <3>1, <1>1, <1>3
    <3>3. i \in SummariesIn(w)
      BY <1>3, <3>2
    <3> QED BY <3>1, <3>3, <1>4 DEF Summarized
  <2> QED BY <2>1, <2>2
<1>8. {v[i].step : i \in SummariesIn(v)} = {w[i].step : i \in SummariesIn(w)} \cup {n}
  BY <1>2, <1>3, <1>4
<1>9. {s \in job.start .. (n + 1) - 1 : RanEval(s) /\ Batches > 0}
        = {s \in job.start .. n - 1 : RanEval(s) /\ Batches > 0} \cup {n}
  <2>1. job.start .. (n + 1) - 1 = (job.start .. n - 1) \cup {n}
    OBVIOUS
  <2> QED BY <2>1
<1> QED BY <1>5, <1>7, <1>8, <1>9 DEF Summarized, v

LEMMA NothingToSummarize ==
  ASSUME NEW w, NEW n \in Nat, job.start \in Nat, n >= job.start,
         ~(RanEval(n) /\ Batches > 0), Summarized(w, n)
  PROVE  Summarized(w, n + 1)
<1>1. job.start .. (n + 1) - 1 = (job.start .. n - 1) \cup {n}
  OBVIOUS
<1>2. {s \in job.start .. (n + 1) - 1 : RanEval(s) /\ Batches > 0}
        = {s \in job.start .. n - 1 : RanEval(s) /\ Batches > 0}
  BY <1>1
<1> QED BY <1>2 DEF Summarized

-----------------------------------------------------------------------------
(* What is uploaded                                                            *)

Contents(s) == {s[i] : i \in 1 .. Len(s)}
Files(gcs) == UNION {Contents(gcs[f]) : f \in DOMAIN gcs}

(* The last step is a train step, in what is written.                          *)
LastIsATrainStep == ~RanEval(job.steps - 1) /\ Batches < job.steps

(* Files are named by a train step written, and with what waits for the next   *)
(* one they have everything; after the last step nothing waits.                *)
Uploaded(l) ==
  /\ l.running \in Seq(Writes) /\ l.gcs = [f \in DOMAIN l.gcs |-> l.gcs[f]]
  /\ \A f \in DOMAIN l.gcs : f[2] \in StepsOf(l.written)
  /\ Contents(l.written) = Contents(l.running) \cup Files(l.gcs)
  /\ job.steps - 1 \in StepsOf(l.written) => l.running = <<>>

LEMMA ContentsOfAppend ==
  ASSUME NEW T, NEW s \in Seq(T), NEW e \in T
  PROVE  Contents(Append(s, e)) = Contents(s) \cup {e}
<1> DEFINE v == Append(s, e)
<1>1. Len(v) = Len(s) + 1 /\ Len(s) \in Nat
  OBVIOUS
<1>2. /\ \A i \in 1 .. Len(s) : v[i] = s[i]
      /\ v[Len(s) + 1] = e
  OBVIOUS
<1> HIDE DEF v
<1>3. 1 .. Len(v) = (1 .. Len(s)) \cup {Len(s) + 1}
  BY <1>1
<1>4. {v[i] : i \in 1 .. Len(v)} = {s[i] : i \in 1 .. Len(s)} \cup {e}
  BY <1>2, <1>3
<1> QED BY <1>4 DEF Contents, v

(* A write keeps this, train steps in order and others before the last step.   *)
LEMMA UploadedKept ==
  ASSUME NEW l, IsLogger(l), NEW r, NEW w \in Writes, Wrote(l, r, w), Uploaded(l),
         job.steps \in Nat, job.steps > 0,
         w.step <= job.steps - 1,
         w.type = "train" => \A s \in StepsOf(l.written) : s < w.step,
         w.type # "train" => w.step # job.steps - 1 /\ job.steps - 1 \notin StepsOf(l.written)
  PROVE  Uploaded(r)
<1>1. l.written \in Seq(Writes) /\ l.running \in Seq(Writes)
  BY DEF IsLogger, Uploaded
<1>2. /\ r.written = Append(l.written, w)
      /\ w.type = "train" => StepsOf(r.written) = StepsOf(l.written) \cup {w.step}
      /\ w.type # "train" => StepsOf(r.written) = StepsOf(l.written)
  BY <1>1, AppendWrite DEF Wrote
<1>3. Contents(r.written) = Contents(l.written) \cup {w}
  BY <1>1, <1>2, ContentsOfAppend
<1>4. /\ Append(l.running, w) \in Seq(Writes)
      /\ Contents(Append(l.running, w)) = Contents(l.running) \cup {w}
  BY <1>1, ContentsOfAppend
<1>5. \A f \in DOMAIN l.gcs : f[2] \in StepsOf(r.written)
  BY <1>2 DEF Uploaded
<1>6. w.step \in Nat
  BY DEF Writes
<1>7. CASE ~UploadDue(w)
  <2>1. r.running = Append(l.running, w) /\ r.gcs = l.gcs
    BY <1>7 DEF Wrote
  <2>2. w.step # job.steps - 1
    BY <1>7 DEF UploadDue
  <2>3. job.steps - 1 \notin StepsOf(r.written)
    <3>1. CASE w.type = "train"
      <4>1. w.step < job.steps - 1
        BY <1>6, <2>2
      <4>2. job.steps - 1 \notin StepsOf(l.written)
        BY <1>6, <3>1, <4>1
      <4> QED BY <1>2, <2>2, <3>1, <4>2
    <3>2. CASE w.type # "train"
      BY <1>2, <3>2
    <3> QED BY <3>1, <3>2
  <2>4. Contents(r.written) = Contents(r.running) \cup Files(r.gcs)
    BY <1>3, <1>4, <2>1 DEF Uploaded
  <2>5. r.running \in Seq(Writes) /\ r.gcs = [f \in DOMAIN r.gcs |-> r.gcs[f]]
    BY <1>4, <2>1 DEF Uploaded
  <2> QED BY <1>5, <2>1, <2>3, <2>4, <2>5 DEF Uploaded
<1>8. CASE UploadDue(w)
  <2> DEFINE name == FileOf(w)
             file == Append(l.running, w)
  <2>1. r.running = <<>> /\ r.gcs = Added(l.gcs, name, file)
    BY <1>8 DEF Wrote
  <2>2. w.type = "train"
    BY <1>8 DEF UploadDue
  <2>3. name[2] = w.step
    BY DEF FileOf
  <2> HIDE DEF name, file
  <2>4. name \notin DOMAIN l.gcs
    <3>1. w.step \notin StepsOf(l.written)
      BY <2>2, <1>6
    <3> QED BY <2>3, <3>1 DEF Uploaded
  <2>5. /\ r.gcs = [f \in DOMAIN r.gcs |-> r.gcs[f]]
        /\ DOMAIN r.gcs = {name} \cup DOMAIN l.gcs
        /\ r.gcs[name] = file
        /\ \A f \in DOMAIN l.gcs : r.gcs[f] = l.gcs[f]
    <3> DEFINE G == l.gcs
    <3>1. r.gcs = [f \in {name} \cup DOMAIN G |-> IF f = name THEN file ELSE G[f]]
      BY <2>1 DEF Added
    <3> HIDE DEF G
    <3>2. r.gcs[name] = file /\ DOMAIN r.gcs = {name} \cup DOMAIN G
      BY <3>1
    <3>3. \A f \in DOMAIN G : r.gcs[f] = G[f]
      BY <2>4, <3>1 DEF G
    <3> QED BY <3>1, <3>2, <3>3 DEF G
  <2>6. Files(r.gcs) = Contents(file) \cup Files(l.gcs)
    <3>1. {Contents(r.gcs[f]) : f \in DOMAIN r.gcs}
            = {Contents(file)} \cup {Contents(l.gcs[f]) : f \in DOMAIN l.gcs}
      BY <2>5
    <3> QED BY <3>1 DEF Files
  <2>7. Contents(<<>>) = {}
    BY DEF Contents
  <2>8. Contents(r.written) = Contents(r.running) \cup Files(r.gcs)
    BY <1>3, <1>4, <2>1, <2>6, <2>7 DEF Uploaded, file
  <2>9. r.running \in Seq(Writes)
    BY <2>1
  <2>10. \A f \in DOMAIN r.gcs : f[2] \in StepsOf(r.written)
    BY <1>2, <1>5, <2>2, <2>3, <2>5
  <2> QED BY <2>1, <2>5, <2>8, <2>9, <2>10 DEF Uploaded
<1> QED BY <1>7, <1>8

-----------------------------------------------------------------------------
(* What waits and what is summed                                               *)

NoEvalWaits(l) == l.buffered = <<>> \/ Head(l.buffered).kind = "train"

(* The first n batches of the evaluation after step s are summed, or the last  *)
(* of them waits.                                                              *)
Collected(l, s, n) ==
  /\ l.pending = n
  /\ \/ NoEvalWaits(l) /\ l.cumulative = EvalBatches(s, n)
     \/ /\ ~NoEvalWaits(l) /\ n > 0
        /\ Head(l.buffered) = EvalEntry(n - 1, s) /\ l.cumulative = EvalBatches(s, n - 1)

Kept(l, n) == Summarized(l.written, n) /\ (LastIsATrainStep => Uploaded(l))

LEMMA JobBounds ==
  ASSUME job \in Jobs
  PROVE  /\ job.start \in Nat /\ job.nan \in Nat /\ job.steps \in Nat
         /\ job.start < job.steps /\ job.evalSteps \in Nat /\ Batches \in Nat
<1>1. PICK h \in Hosts : h = CHOOSE x \in Hosts : TRUE
  BY JobsAssumption
<1>2. job.evalData[h] \in Nat
  BY JobsAssumption
<1>3. /\ job.start \in Nat /\ job.nan \in Nat /\ job.steps \in Nat
      /\ job.start < job.steps /\ job.evalSteps \in Nat
  BY JobsAssumption
<1> QED BY <1>1, <1>2, <1>3 DEF Batches

LEMMA NextBatch ==
  ASSUME NEW s, NEW n \in Nat
  PROVE  EvalBatches(s, n + 1) = EvalBatches(s, n) \cup {[after |-> s, batch |-> n]}
<1>1. 0 .. (n + 1) - 1 = (0 .. n - 1) \cup {n}
  OBVIOUS
<1> QED BY <1>1 DEF EvalBatches

LEMMA FlushedKeeps ==
  ASSUME NEW l, NEW m, NEW n \in Nat, NEW k \in Nat, LoggerInv(l, n), ~l.abort,
         job \in Jobs, n <= job.steps, Kept(l, k),
         ~NoEvalWaits(l) => Head(l.buffered).step < Batches /\ n < job.steps
  PROVE  Kept(Flushed(l, m)[1], k)
<1> DEFINE e == Head(l.buffered)
           r == Flushed(l, m)[1]
<1>0. job.start \in Nat /\ job.steps \in Nat /\ job.steps > 0 /\ Batches \in Nat
  BY JobBounds
<1>1. IsLogger(l) /\ Holding(l, n) /\ l.written \in Seq(Writes)
  BY DEF LoggerInv, IsLogger
<1>2. CASE l.buffered = <<>>
  BY <1>2 DEF Flushed
<1>3. CASE l.buffered # <<>>
  <2>1. e \in Entries /\ Passed(l, r, e)
    BY <1>1, <1>3, FlushedWrites
  <2> HIDE DEF r
  <2>2. CASE e.kind = "train"
    <3> DEFINE w == Written("train", e.step, {})
    <3>1. w \in Writes /\ w.type = "train" /\ w.step = e.step
      BY <2>1 DEF Written, Writes, Sums, Entries
    <3>2. Wrote(l, r, w)
      BY <2>1, <2>2 DEF Passed
    <3>3. e.step = n - 1 /\ StepsOf(l.written) = job.start .. n - 2
      BY <1>1, <1>3, <2>2 DEF Holding
    <3> HIDE DEF w, e
    <3>4. Summarized(r.written, k)
      BY <1>1, <3>1, <3>2, NoSummary DEF Wrote, Kept
    <3>5. LastIsATrainStep => Uploaded(r)
      <4>1. w.step <= job.steps - 1 /\ \A s \in StepsOf(l.written) : s < w.step
        BY <1>0, <3>1, <3>3
      <4> QED BY <1>0, <1>1, <3>1, <3>2, <4>1, UploadedKept DEF Kept
    <3> QED BY <3>4, <3>5 DEF Kept, r
  <2>3. CASE e.kind # "train"
    <3> DEFINE w == Written("running_eval", e.step, SumWith(l, e))
    <3>1. w \in Writes /\ w.type = "running_eval" /\ w.step = e.step /\ w.step \in Nat
      BY <1>1, <2>1 DEF Written, Writes, Sums, Entries, SumWith, IsLogger
    <3>2. Wrote(l, r, w)
      BY <2>1, <2>3 DEF Passed
    <3>3. StepsOf(l.written) = job.start .. n - 1
      BY <1>1, <1>3, <2>3 DEF Holding
    <3>4. e.step < Batches /\ n < job.steps
      BY <1>3, <2>3 DEF NoEvalWaits
    <3> HIDE DEF w, e
    <3>5. Summarized(r.written, k)
      BY <1>1, <3>1, <3>2, NoSummary DEF Wrote, Kept
    <3>6. ASSUME LastIsATrainStep PROVE Uploaded(r)
      <4>1. Batches < job.steps
        BY <3>6 DEF LastIsATrainStep
      <4>2. w.step < job.steps - 1 /\ job.steps - 1 \notin StepsOf(l.written)
        BY <1>0, <3>1, <3>3, <3>4, <4>1
      <4>3. w.step <= job.steps - 1 /\ w.step # job.steps - 1 /\ w.type # "train"
        BY <1>0, <3>1, <4>2
      <4>4. Uploaded(l)
        BY <3>6 DEF Kept
      <4> QED BY <1>0, <1>1, <3>1, <3>2, <4>2, <4>3, <4>4, UploadedKept
    <3> QED BY <3>5, <3>6 DEF Kept, r
  <2> QED BY <2>2, <2>3
<1> QED BY <1>2, <1>3

(* The sum of an evaluation after the batch that waited is added.              *)
LEMMA FlushedCollects ==
  ASSUME NEW l, NEW m, NEW n \in Nat, NEW s, NEW c \in Nat, LoggerInv(l, n), ~l.abort,
         job \in Jobs, Collected(l, s, c)
  PROVE  LET r == Flushed(l, m)[1]
         IN r.cumulative = EvalBatches(s, c) /\ r.pending = c
<1> DEFINE e == Head(l.buffered)
           r == Flushed(l, m)[1]
<1>0. job.start \in Nat /\ job.nan \in Nat
  BY JobBounds
<1>1. r.pending = c
  BY <1>0, FlushedEffect DEF Collected
<1>2. CASE l.buffered = <<>>
  BY <1>1, <1>2 DEF Collected, NoEvalWaits, Flushed
<1>3. CASE l.buffered # <<>>
  <2>1. e \in Entries /\ Passed(l, r, e)
    BY <1>3, FlushedWrites DEF LoggerInv
  <2> HIDE DEF r
  <2>2. CASE e.kind = "train"
    BY <1>1, <2>1, <2>2 DEF Passed, Collected, NoEvalWaits, r
  <2>3. CASE e.kind # "train"
    <3>1. c > 0 /\ e = EvalEntry(c - 1, s) /\ l.cumulative = EvalBatches(s, c - 1)
      BY <1>3, <2>3 DEF Collected, NoEvalWaits
    <3>2. r.cumulative = SumWith(l, e)
      BY <2>1, <2>3 DEF Passed
    <3>3. e.after = s /\ e.step = c - 1
      BY <3>1 DEF EvalEntry
    <3> HIDE DEF e
    <3>4. SumWith(l, e) = EvalBatches(s, c - 1) \cup {[after |-> s, batch |-> c - 1]}
      BY <3>1, <3>3 DEF SumWith
    <3>5. c - 1 \in Nat /\ (c - 1) + 1 = c
      BY <3>1
    <3>6. EvalBatches(s, (c - 1) + 1)
            = EvalBatches(s, c - 1) \cup {[after |-> s, batch |-> c - 1]}
      BY <3>5, NextBatch
    <3>7. r.cumulative = EvalBatches(s, c)
      BY <3>2, <3>4, <3>5, <3>6
    <3> QED BY <1>1, <3>7 DEF r
  <2> QED BY <2>2, <2>3
<1> QED BY <1>2, <1>3

(* Queueing an entry writes nothing.                                           *)
LEMMA QueueingWritesNothing ==
  ASSUME NEW l, IsLogger(l), l.buffered = <<>>, NEW e \in Entries, NEW k \in Nat
  PROVE  LET r == Queued(l, k, e)
         IN SameWrites(l, r) /\ r.cumulative = l.cumulative
<1> DEFINE q == [l EXCEPT !.pending = k]
           r == Queued(l, k, e)
<1>1. /\ q = [f \in LoggerFields |-> q[f]]
      /\ \A f \in LoggerFields \ {"pending"} : q[f] = l[f]
  BY DEF IsLogger, LoggerFields
<1>2. r = [q EXCEPT !.buffered = Append(l.buffered, e)]
  BY DEF Queued
<1> HIDE DEF q, r
<1>3. \A f \in LoggerFields \ {"buffered", "pending"} : r[f] = l[f]
  BY <1>1, <1>2 DEF LoggerFields
<1> QED BY <1>3 DEF LoggerFields, SameWrites, r

LEMMA SameWritesKept ==
  ASSUME NEW l, NEW r, NEW n, SameWrites(l, r), Kept(l, n) PROVE Kept(r, n)
BY DEF SameWrites, Kept, Uploaded

LEMMA BufferEvalKeeps ==
  ASSUME NEW l, NEW m, NEW s \in Nat, NEW c \in Nat, LoggerInv(l, s), ~l.abort, job \in Jobs,
         s < job.steps, Kept(l, s), Collected(l, s, c), c <= Batches
  PROVE  LET r == BufferEval(l, m, EvalEntry(c, s))[1]
         IN Kept(r, s) /\ (~r.abort => Collected(r, s, c + 1) /\ ~NoEvalWaits(r)
                                       /\ Head(r.buffered).step = c)
<1> DEFINE e == EvalEntry(c, s)
           f == Flushed(l, m)
           h == f[1]
           k == h.pending + 1
           b == Queued(h, k, e)
<1>0. job.start \in Nat /\ job.nan \in Nat /\ job.steps \in Nat /\ Batches \in Nat
  BY JobBounds
<1>1. LoggerInv(h, s) /\ h.buffered = <<>>
  BY <1>0, FlushedEffect
<1>2. h.cumulative = EvalBatches(s, c) /\ h.pending = c
  BY FlushedCollects
<1>3. Kept(h, s)
  <2>1. ASSUME ~NoEvalWaits(l) PROVE Head(l.buffered).step < Batches
    <3>1. c > 0 /\ Head(l.buffered) = EvalEntry(c - 1, s)
      BY <2>1 DEF Collected
    <3>2. Head(l.buffered).step = c - 1
      BY <3>1 DEF EvalEntry
    <3> QED BY <1>0, <3>1, <3>2
  <2>2. s <= job.steps
    BY <1>0
  <2> QED BY <2>1, <2>2, FlushedKeeps
<1>4. CASE h.abort
  <2>1. BufferEval(l, m, e) = f
    BY <1>4 DEF BufferEval
  <2> HIDE DEF f
  <2> QED BY <1>3, <1>4, <2>1
<1>5. CASE ~h.abort
  <2>1. BufferEval(l, m, e)[1] = [h EXCEPT !.pending = @ + 1, !.buffered = Append(@, e)]
    BY <1>5 DEF BufferEval
  <2>2. e \in Entries /\ e.kind # "train" /\ e.step = c /\ e = EvalEntry((c + 1) - 1, s)
    BY DEF EvalEntry, Entries
  <2> HIDE DEF h, e
  <2>3. IsLogger(h) /\ k \in Nat
    BY <1>1, <1>2 DEF LoggerInv
  <2>4. [h EXCEPT !.pending = @ + 1, !.buffered = Append(@, e)] = b
    <3>1. [h EXCEPT !.pending = h.pending + 1].buffered = h.buffered
      BY <2>3 DEF IsLogger, LoggerFields
    <3> QED BY <3>1 DEF Queued
  <2>5. k = c + 1
    BY <1>2
  <2> HIDE DEF k
  <2>6. SameWrites(h, b) /\ b.cumulative = h.cumulative
    BY <1>1, <2>2, <2>3, QueueingWritesNothing
  <2>7. b.buffered = <<e>> /\ b.pending = k
    BY <1>1, <2>2, <2>3, AppendEntry
  <2> HIDE DEF b
  <2>8. Head(b.buffered) = e /\ b.buffered # <<>>
    BY <2>7
  <2>9. ~NoEvalWaits(b)
    BY <2>2, <2>8 DEF NoEvalWaits
  <2>10. Collected(b, s, c + 1)
    <3>1. (c + 1) - 1 = c /\ c + 1 > 0
      OBVIOUS
    <3> QED BY <1>2, <2>2, <2>5, <2>6, <2>7, <2>8, <2>9, <3>1 DEF Collected
  <2>11. Kept(b, s)
    BY <1>3, <2>6, SameWritesKept
  <2> QED BY <2>1, <2>2, <2>4, <2>8, <2>9, <2>10, <2>11 DEF e
<1> QED BY <1>4, <1>5

(* The step's metrics after its evaluation: the summary is written, if there   *)
(* was a batch.                                                                *)
LEMMA FinalizedKeeps ==
  ASSUME NEW l, NEW m, NEW s \in Nat, LoggerInv(l, s + 1), ~l.abort, l.buffered = <<>>,
         job \in Jobs, s >= job.start, s < job.steps, RanEval(s), Batches > 0, Kept(l, s),
         l.cumulative = EvalBatches(s, Batches)
  PROVE  LET r == Finalized(l, m, s)[1]
         IN Kept(r, s + 1) /\ r.buffered = <<>> /\ r.pending = 0
<1> DEFINE c == [[l EXCEPT !.pending = 0] EXCEPT !.stop = (s = job.target)]
           w == Written("eval", s, l.cumulative)
           r == WriteMetrics(c, w)
<1>0. job.start \in Nat /\ job.steps \in Nat /\ job.steps > 0 /\ Batches \in Nat
  BY JobBounds
<1>1. IsLogger(l) /\ Holding(l, s + 1) /\ l.written \in Seq(Writes)
  BY DEF LoggerInv, IsLogger
<1>2. /\ w \in Writes /\ w.type = "eval" /\ w.step = s
      /\ w.of = EvalBatches(s, Batches)
  BY <1>1 DEF Written, Writes, IsLogger
<1>3. /\ c = [f \in LoggerFields |-> c[f]]
      /\ \A f \in LoggerFields \ {"pending", "stop"} : c[f] = l[f]
      /\ c.pending = 0 /\ c.stop \in BOOLEAN
  <2> DEFINE q == [l EXCEPT !.pending = 0]
  <2>1. /\ q = [f \in LoggerFields |-> q[f]]
        /\ \A f \in LoggerFields \ {"pending"} : q[f] = l[f]
        /\ q.pending = 0
    BY <1>1 DEF IsLogger, LoggerFields
  <2>2. c = [q EXCEPT !.stop = (s = job.target)]
    OBVIOUS
  <2> HIDE DEF q, c
  <2>3. /\ c = [f \in LoggerFields |-> c[f]]
        /\ \A f \in LoggerFields \ {"stop"} : c[f] = q[f]
        /\ c.stop = (s = job.target)
    BY <2>1, <2>2 DEF LoggerFields
  <2> QED BY <2>1, <2>3 DEF LoggerFields
<1>4. Finalized(l, m, s)[1] = r
  BY DEF Finalized
<1> HIDE DEF c, w
<1>5. /\ c.buffered = l.buffered /\ c.cumulative = l.cumulative /\ c.abort = l.abort
      /\ SameWrites(l, c)
  BY <1>3 DEF LoggerFields, SameWrites
<1>6. IsLogger(c)
  <2>1. c.buffered \in Seq(Entries) /\ Len(c.buffered) <= 1
    BY <1>1, <1>5, Zenon DEF IsLogger
  <2>2. /\ c.pending \in Nat /\ c.written \in Seq(Writes) /\ c.cumulative \in Sums
        /\ c.abort \in BOOLEAN
    BY <1>1, <1>3, <1>5 DEF IsLogger, SameWrites
  <2> QED BY <1>3, <2>1, <2>2 DEF IsLogger
<1>7. r.buffered = <<>> /\ r.pending = 0
  BY <1>2, <1>3, <1>5, <1>6, WriteMetricsEffect
<1>8. Wrote(l, r, w)
  <2>1. Wrote(c, r, w)
    BY <1>6, WriteMetricsWrites
  <2> HIDE DEF r
  <2> QED BY <2>1, <1>5 DEF Wrote, SameWrites
<1> HIDE DEF r
<1>9. Summarized(r.written, s + 1)
  BY <1>0, <1>1, <1>2, <1>8, OneSummary DEF Wrote, Kept
<1>10. ASSUME LastIsATrainStep PROVE Uploaded(r)
  <2>1. s # job.steps - 1
    BY <1>10 DEF LastIsATrainStep
  <2>2. StepsOf(l.written) = job.start .. (s + 1) - 1
    BY <1>1 DEF Holding
  <2>3. s <= job.steps - 1 /\ job.steps - 1 \notin StepsOf(l.written)
    BY <1>0, <2>1, <2>2
  <2>4. Uploaded(l) /\ w.type # "train"
    BY <1>2, <1>10 DEF Kept
  <2> QED BY <1>0, <1>1, <1>2, <1>8, <2>1, <2>3, <2>4, UploadedKept
<1> QED BY <1>4, <1>7, <1>9, <1>10 DEF Kept

(* The entry of a train step in the empty queue.                               *)
LEMMA TrainQueued ==
  ASSUME NEW h, NEW s \in Nat, LoggerInv(h, s), ~h.abort, h.buffered = <<>>,
         job.start \in Nat, s >= job.start
  PROVE  LET b == [h EXCEPT !.buffered = Append(h.buffered, TrainEntry(s))]
         IN /\ LoggerInv(b, s + 1) /\ b.buffered # <<>> /\ Head(b.buffered) = TrainEntry(s)
            /\ b.pending = h.pending /\ b.stop = h.stop /\ ~b.abort
            /\ SameWrites(h, b) /\ b.cumulative = h.cumulative
<1> DEFINE e == TrainEntry(s)
           k == h.pending
           b == [h EXCEPT !.buffered = Append(h.buffered, e)]
<1>1. IsLogger(h) /\ Holding(h, s) /\ InOrder(h.written) /\ k \in Nat
  BY DEF LoggerInv, IsLogger
<1>2. StepsOf(h.written) = job.start .. s - 1 /\ job.nan \notin job.start .. s - 1
  BY <1>1 DEF Holding
<1>3. e \in Entries /\ e.kind = "train" /\ e.step = s
  BY DEF TrainEntry, Entries
<1> HIDE DEF e
<1>4. b = Queued(h, k, e)
  BY <1>1 DEF IsLogger, LoggerFields, Queued
<1> HIDE DEF b, k
<1>5. /\ IsLogger(b) /\ b.buffered = <<e>> /\ b.pending = k /\ b.stop = h.stop
      /\ b.abort = h.abort
  BY <1>1, <1>3, <1>4, AppendEntry
<1>6. SameWrites(h, b) /\ b.cumulative = h.cumulative
  BY <1>1, <1>3, <1>4, QueueingWritesNothing
<1>7. Head(b.buffered) = e /\ b.buffered # <<>> /\ b.written = h.written
  BY <1>5, <1>6 DEF SameWrites
<1>8. (s + 1) - 1 = s /\ (s + 1) - 2 = s - 1 /\ s + 1 > job.start
  OBVIOUS
<1>9. Holding(b, s + 1)
  BY <1>2, <1>3, <1>7, <1>8 DEF Holding
<1> QED BY <1>1, <1>5, <1>6, <1>7, <1>9 DEF LoggerInv, b, e, k

LEMMA BufferTrainKeeps ==
  ASSUME NEW l, NEW m, NEW s \in Nat, LoggerInv(l, s), ~l.abort, ~l.stop, job \in Jobs,
         s >= job.start, s < job.steps, Kept(l, s),
         RanEval(s) => Collected(l, s, Batches),
         ~RanEval(s) => NoEvalWaits(l) /\ l.pending = 0
  PROVE  LET r == BufferTrain(l, m, s)[1]
         IN /\ r.abort => Kept(r, s) /\ ~r.stop
            /\ ~r.abort => /\ Kept(r, s + 1) /\ NoEvalWaits(r) /\ r.pending = 0
                           /\ job.mllog => r.buffered = <<>>
<1> DEFINE f == Flushed(l, m)
           h == f[1]
           e == TrainEntry(s)
           b == [h EXCEPT !.buffered = Append(h.buffered, e)]
           g == IF FlushNow(b) THEN Flushed(b, f[2]) ELSE <<b, f[2]>>
           r == BufferTrain(l, m, s)[1]
<1>0. job.start \in Nat /\ job.nan \in Nat /\ job.steps \in Nat /\ Batches \in Nat
  BY JobBounds
<1>1. LoggerInv(h, s) /\ h.buffered = <<>> /\ h.stop = l.stop
  BY <1>0, FlushedEffect
<1>2. Kept(h, s)
  <2>1. ASSUME ~NoEvalWaits(l) PROVE Head(l.buffered).step < Batches
    <3>1. Batches > 0 /\ Head(l.buffered) = EvalEntry(Batches - 1, s)
      BY <2>1 DEF Collected
    <3>2. Head(l.buffered).step = Batches - 1
      BY <3>1 DEF EvalEntry
    <3> QED BY <1>0, <3>1, <3>2
  <2>2. s <= job.steps
    BY <1>0
  <2> QED BY <2>1, <2>2, FlushedKeeps
<1>3. /\ RanEval(s) => h.cumulative = EvalBatches(s, Batches) /\ h.pending = Batches
      /\ ~RanEval(s) => h.pending = 0
  <2>1. h.pending = l.pending
    BY <1>0, FlushedEffect
  <2> QED BY <1>0, <2>1, FlushedCollects
<1>4. CASE h.abort
  <2>1. r = h
    BY <1>4 DEF BufferTrain
  <2> HIDE DEF h, r
  <2> QED BY <1>1, <1>2, <1>4, <2>1 DEF r
<1>5. CASE ~h.abort
  <2>1. r = IF g[1].abort \/ g[1].pending = 0 THEN g[1] ELSE Finalized(g[1], g[2], s)[1]
    BY <1>5 DEF BufferTrain
  <2> HIDE DEF r, h
  <2>2. h.pending \in Nat
    BY <1>1 DEF LoggerInv, IsLogger
  <2>3. /\ LoggerInv(b, s + 1) /\ b.buffered # <<>> /\ Head(b.buffered) = e
        /\ b.pending = h.pending /\ b.stop = h.stop /\ ~b.abort
        /\ SameWrites(h, b) /\ b.cumulative = h.cumulative
    BY <1>0, <1>1, <1>5, TrainQueued
  <2>4. e \in Entries /\ e.kind = "train"
    BY DEF TrainEntry, Entries
  <2> HIDE DEF b, e
  <2>5. NoEvalWaits(b)
    BY <2>3, <2>4 DEF NoEvalWaits
  <2>6. Kept(b, s)
    BY <1>2, <2>3, SameWritesKept
  <2>7. /\ LoggerInv(g[1], s + 1) /\ Kept(g[1], s)
        /\ g[1].cumulative = h.cumulative /\ g[1].pending = h.pending /\ ~g[1].stop
        /\ NoEvalWaits(g[1])
        /\ h.pending > 0 \/ job.mllog => g[1].buffered = <<>>
    <3>1. CASE FlushNow(b)
      <4> DEFINE q == Flushed(b, f[2])[1]
      <4>1. LoggerInv(q, s + 1) /\ q.buffered = <<>> /\ q.pending = b.pending /\ q.stop = b.stop
        BY <1>0, <2>3, FlushedEffect
      <4>2. s + 1 <= job.steps
        BY <1>0
      <4>3. Kept(q, s)
        BY <2>3, <2>5, <2>6, <4>2, FlushedKeeps
      <4>4. q.cumulative = b.cumulative
        <5>1. Passed(b, q, e)
          BY <2>3, FlushedWrites DEF LoggerInv
        <5> HIDE DEF q
        <5> QED BY <2>4, <5>1 DEF Passed
      <4> HIDE DEF q
      <4>5. g[1] = q
        BY <3>1 DEF q
      <4> HIDE DEF g
      <4> QED BY <1>1, <2>3, <4>1, <4>3, <4>4, <4>5 DEF NoEvalWaits
    <3>2. CASE ~FlushNow(b)
      <4>1. g[1] = b
        BY <3>2
      <4>2. ~(b.pending > 0) /\ ~job.mllog
        BY <3>2 DEF FlushNow
      <4> HIDE DEF g
      <4> QED BY <1>1, <2>2, <2>3, <2>5, <2>6, <4>1, <4>2
    <3> QED BY <3>1, <3>2
  <2> HIDE DEF g
  <2>8. CASE g[1].abort
    BY <2>1, <2>7, <2>8 DEF r
  <2>9. CASE ~g[1].abort /\ g[1].pending = 0
    <3>1. ~(RanEval(s) /\ Batches > 0)
      BY <1>0, <1>3, <2>7, <2>9
    <3>2. Kept(g[1], s + 1)
      BY <1>0, <2>7, <3>1, NothingToSummarize DEF Kept
    <3> QED BY <2>1, <2>7, <2>9, <3>2 DEF r
  <2>10. CASE ~g[1].abort /\ g[1].pending # 0
    <3>1. g[1].buffered = <<>> /\ RanEval(s) /\ Batches > 0
      BY <1>0, <1>3, <2>2, <2>7, <2>10
    <3>2. r = Finalized(g[1], g[2], s)[1]
      BY <2>1, <2>10
    <3>3. g[1].cumulative = EvalBatches(s, Batches)
      BY <1>3, <2>7, <3>1
    <3>4. Kept(r, s + 1) /\ r.buffered = <<>> /\ r.pending = 0
      BY <1>0, <2>7, <2>10, <3>1, <3>2, <3>3, FinalizedKeeps
    <3>5. ~r.abort
      BY <1>0, <2>7, <2>10, <3>1, <3>2, FinalizedEffect
    <3> QED BY <3>4, <3>5 DEF r, NoEvalWaits
  <2> QED BY <2>8, <2>9, <2>10
<1> QED BY <1>4, <1>5

-----------------------------------------------------------------------------
(* The invariant of evaluations and uploads.                                   *)

Iterators == [read : Nat, out : BOOLEAN, last : BOOLEAN, unread : BOOLEAN]

(* Where each host is in the evaluation, by the batches it took.               *)
Taken(n, size) == IF n < size THEN n ELSE size

HostInv(h) ==
  LET size == job.evalData[h]
  IN /\ at[h] = "load" => evalIt[h].read = Taken(evalCount, size)
     /\ at[h] = "batch" => evalIt[h].read = Taken(evalCount + 1, size)
     /\ at[h] \in {"load", "out"} /\ ~job.padEval => evalCount <= size
     /\ at[h] = "batch" /\ ~job.padEval => evalCount < size
     /\ at[h] = "out" => Enough(evalCount) \/ (~job.padEval /\ evalCount = size)
     /\ at[h] # "out" => ~Enough(evalCount)

LoaderInv ==
  /\ at \in [Hosts -> {"load", "batch", "out", "failed"}]
  /\ evalIt \in [Hosts -> Iterators]
  /\ phase = "eval" =>
       /\ job.evalSteps = 0 \/ evalCount <= job.evalSteps
       /\ \A h \in Hosts : HostInv(h)

EvalInv ==
  /\ Kept(logger, Handed) /\ Handed <= job.steps
  /\ phase \in {"train", "eval", "report"} => step < job.steps
  /\ phase = "train" \/ (phase = "report" /\ ~RanEval(step)) =>
       NoEvalWaits(logger) /\ logger.pending = 0
  /\ phase = "eval" => RanEval(step) /\ Collected(logger, step, evalCount)
  /\ phase = "report" /\ RanEval(step) => Collected(logger, step, Batches)
  /\ ~NoEvalWaits(logger) =>
       step < job.steps /\ ~logger.stop /\ Head(logger.buffered).step < Batches

(* No host is short of batches, or ahead of the evaluation.                    *)
LEMMA EvalEndsAtBatches ==
  ASSUME job \in Jobs, evalCount \in Nat, LoaderInv, phase = "eval", Everywhere("out")
  PROVE  evalCount = Batches
<1>1. PICK h \in Hosts : h = CHOOSE x \in Hosts : TRUE
  BY JobsAssumption
<1> DEFINE size == job.evalData[h]
<1>2. size \in Nat /\ job.evalSteps \in Nat /\ job.padEval \in BOOLEAN
  BY JobsAssumption
<1>3. Batches = IF job.evalSteps > 0 /\ (job.padEval \/ job.evalSteps < size)
                  THEN job.evalSteps ELSE size
  BY <1>1 DEF Batches
<1>4. /\ job.evalSteps = 0 \/ evalCount <= job.evalSteps
      /\ ~job.padEval => evalCount <= size
      /\ Enough(evalCount) \/ (~job.padEval /\ evalCount = size)
  BY DEF LoaderInv, HostInv, Everywhere
<1> HIDE DEF size
<1> QED BY <1>2, <1>3, <1>4 DEF Enough

LEMMA EvalStepHasBatch ==
  ASSUME job \in Jobs, evalCount \in Nat, LoaderInv, phase = "eval", RanEval(step),
         Everywhere("batch")
  PROVE  evalCount < Batches
<1>1. PICK h \in Hosts : h = CHOOSE x \in Hosts : TRUE
  BY JobsAssumption
<1> DEFINE size == job.evalData[h]
<1>2. /\ size \in Nat /\ job.evalSteps \in Nat /\ job.padEval \in BOOLEAN
      /\ job.padEval => job.evalSteps > 0
  <2>1. job.evalInterval > 0
    BY DEF RanEval
  <2> QED BY <2>1, JobsAssumption
<1>3. Batches = IF job.evalSteps > 0 /\ (job.padEval \/ job.evalSteps < size)
                  THEN job.evalSteps ELSE size
  BY <1>1 DEF Batches
<1>4. ~Enough(evalCount) /\ (~job.padEval => evalCount < size)
  BY DEF LoaderInv, HostInv, Everywhere
<1> HIDE DEF size
<1> QED BY <1>2, <1>3, <1>4 DEF Enough

LEMMA InitEval == Init => LoaderInv /\ EvalInv
<1> SUFFICES ASSUME Init PROVE LoaderInv /\ EvalInv
  OBVIOUS
<1>0. job.start \in Nat /\ job.steps \in Nat /\ job.start < job.steps /\ Batches \in Nat
  BY JobBounds DEF Init
<1>1. LoaderInv
  BY DEF Init, LoaderInv, NewIterator, Iterators
<1>2. NewLogger = logger /\ Handed = job.start /\ step = job.start /\ phase = "train"
  BY DEF Init, Handed, NewLogger
<1>3. Summarized(<<>>, job.start)
  <2>1. SummariesIn(<<>>) = {}
    BY DEF SummariesIn
  <2>2. job.start .. job.start - 1 = {}
    BY <1>0
  <2> QED BY <2>1, <2>2 DEF Summarized
<1>4. Uploaded(NewLogger)
  <2>1. NewLogger.running = <<>> /\ NewLogger.gcs = <<>> /\ NewLogger.written = <<>>
    BY DEF NewLogger
  <2>2. Contents(<<>>) = {}
    BY DEF Contents
  <2>3. DOMAIN <<>> = {} /\ <<>> = [f \in {} |-> <<>>[f]]
    OBVIOUS
  <2>4. Files(<<>>) = {}
    BY <2>3 DEF Files
  <2>5. <<>> \in Seq(Writes)
    OBVIOUS
  <2> QED BY <2>1, <2>2, <2>3, <2>4, <2>5 DEF Uploaded
<1>5. Kept(logger, Handed)
  BY <1>2, <1>3, <1>4 DEF Kept, NewLogger
<1>6. NoEvalWaits(logger) /\ logger.pending = 0
  BY <1>2 DEF NewLogger, NoEvalWaits
<1>7. EvalInv
  BY <1>0, <1>2, <1>5, <1>6 DEF EvalInv
<1> QED BY <1>1, <1>7

LEMMA NextLoader ==
  ASSUME QueueInv, LoaderInv, [Next]_vars PROVE LoaderInv'
<1>0. /\ job.evalData \in [Hosts -> Nat] /\ job.evalSteps \in Nat /\ job.padEval \in BOOLEAN
      /\ evalCount \in Nat
  BY JobsAssumption DEF QueueInv
<1> USE DEF LoaderInv
<1>1. CASE UNCHANGED vars
  BY <1>1 DEF vars, HostInv, Enough
<1>2. ASSUME NEW h \in Hosts, LoadTrain(h) PROVE LoaderInv'
  BY <1>2 DEF LoadTrain
<1>3. ASSUME NEW h \in Hosts, LoadEval(h) PROVE LoaderInv'
  <2> DEFINE it == evalIt[h]
             size == job.evalData[h]
             o == Outcome(it, size, job.padEval)
  <2>1. /\ phase = "eval" /\ at[h] = "load"
        /\ at' = [at EXCEPT ![h] = CASE o = "batch" -> "batch" [] o = "stop" -> "out"
                                     [] o = "error" -> "failed"]
        /\ evalIt' = [evalIt EXCEPT ![h] = Advanced(it, size, job.padEval)]
        /\ phase' = phase /\ evalCount' = evalCount /\ job' = job
    BY <1>3 DEF LoadEval
  <2>2. /\ it \in Iterators /\ size \in Nat /\ it.read = Taken(evalCount, size)
        /\ ~job.padEval => evalCount <= size
        /\ ~Enough(evalCount) /\ (job.evalSteps = 0 \/ evalCount <= job.evalSteps)
        /\ HostInv(h)
    BY <1>0, <2>1 DEF HostInv
  <2>3. o \in {"batch", "stop", "error"}
    BY DEF Outcome
  <2>4. /\ evalIt'[h] = Advanced(it, size, job.padEval)
        /\ \A g \in Hosts \ {h} : evalIt'[g] = evalIt[g] /\ at'[g] = at[g]
        /\ at'[h] = CASE o = "batch" -> "batch" [] o = "stop" -> "out" [] o = "error" -> "failed"
        /\ DOMAIN evalIt' = Hosts /\ DOMAIN at' = Hosts
    BY <2>1
  <2>5. Advanced(it, size, job.padEval) \in Iterators
    <3>1. it.read \in Nat /\ it.out \in BOOLEAN /\ it.last \in BOOLEAN
      BY <2>2 DEF Iterators
    <3> HIDE DEF it, size
    <3> QED BY <1>0, <3>1 DEF Advanced, Iterators
  <2>6. evalIt' \in [Hosts -> Iterators]
    BY <2>1, <2>5
  <2>7. at' \in [Hosts -> {"load", "batch", "out", "failed"}]
    BY <2>1, <2>3
  <2>8. HostInv(h)'
    <3>1. Advanced(it, size, job.padEval).read = IF it.read < size THEN it.read + 1 ELSE it.read
      BY DEF Advanced
    <3>2. evalIt'[h].read = IF it.read < size THEN it.read + 1 ELSE it.read
      BY <2>4, <3>1
    <3>3. /\ o = "batch" => at'[h] = "batch"
          /\ o = "stop" => at'[h] = "out"
          /\ o = "error" => at'[h] = "failed"
      BY <2>4
    <3>4. /\ o = "batch" => it.read < size \/ job.padEval
          /\ o = "stop" => ~(it.read < size) /\ ~job.padEval
      BY DEF Outcome
    <3>5. it.read = IF evalCount < size THEN evalCount ELSE size
      BY <2>2 DEF Taken
    <3> HIDE DEF it, o
    <3>6. CASE o = "batch"
      <4>1. evalIt'[h].read = IF evalCount + 1 < size THEN evalCount + 1 ELSE size
        BY <1>0, <2>2, <3>2, <3>5
      <4>2. ~job.padEval => evalCount < size
        BY <1>0, <2>2, <3>4, <3>5, <3>6
      <4> QED BY <2>1, <2>2, <3>3, <3>6, <4>1, <4>2 DEF HostInv, Taken, Enough
    <3>7. CASE o = "stop"
      <4>1. ~job.padEval /\ evalCount = size
        BY <1>0, <2>2, <3>4, <3>5, <3>7
      <4> QED BY <1>0, <2>1, <2>2, <3>3, <3>7, <4>1 DEF HostInv, Enough
    <3>8. CASE o = "error"
      BY <2>1, <2>2, <3>3, <3>8 DEF HostInv, Enough
    <3> QED BY <2>3, <3>6, <3>7, <3>8
  <2>9. ASSUME NEW g \in Hosts, g # h PROVE HostInv(g)'
    BY <2>1, <2>4, <2>9 DEF HostInv, Enough
  <2> QED BY <2>1, <2>2, <2>6, <2>7, <2>8, <2>9
<1>4. CASE TrainStep
  <2>1. /\ job' = job /\ phase' \in {"eval", "report"} /\ at' = [h \in Hosts |-> "load"]
        /\ phase' = "eval" => /\ evalCount' = 0
                              /\ evalIt' = [h \in Hosts |-> Iter(Reset(evalIt[h]))]
        /\ phase' = "report" => evalIt' = evalIt
    BY <1>4 DEF TrainStep
  <2>2. ASSUME NEW h \in Hosts
        PROVE  Iter(Reset(evalIt[h])) \in Iterators /\ Iter(Reset(evalIt[h])).read = 0
    BY DEF Iter, Reset, Iterators
  <2>3. evalIt' \in [Hosts -> Iterators]
    BY <2>1, <2>2
  <2>4. ASSUME phase' = "eval", NEW h \in Hosts PROVE HostInv(h)'
    <3>1. at'[h] = "load" /\ evalIt'[h].read = 0 /\ evalCount' = 0
      BY <2>1, <2>2, <2>4
    <3>2. job.evalData[h] \in Nat
      BY <1>0
    <3> QED BY <1>0, <2>1, <3>1, <3>2 DEF HostInv, Taken, Enough
  <2>5. phase' = "eval" => (job.evalSteps = 0 \/ evalCount <= job.evalSteps)'
    BY <1>0, <2>1
  <2>6. at' \in [Hosts -> {"load", "batch", "out", "failed"}]
    BY <2>1
  <2> QED BY <2>1, <2>3, <2>4, <2>5, <2>6
<1>5. CASE LoaderStops
  BY <1>5 DEF LoaderStops
<1>6. CASE EvalStep
  <2>1. /\ job' = job /\ evalCount' = evalCount + 1 /\ phase = "eval" /\ evalIt' = evalIt
        /\ at' = [h \in Hosts |-> IF Enough(evalCount') THEN "out" ELSE "load"]
        /\ \A h \in Hosts : at[h] = "batch"
    BY <1>6 DEF EvalStep, Everywhere
  <2>2. at' \in [Hosts -> {"load", "batch", "out", "failed"}]
    BY <2>1
  <2>3. job.evalSteps = 0 \/ evalCount + 1 <= job.evalSteps
    <3>1. PICK h \in Hosts : TRUE
      BY JobsAssumption
    <3>2. ~Enough(evalCount)
      BY <2>1, <3>1 DEF HostInv
    <3> QED BY <1>0, <3>2 DEF Enough
  <2>4. ASSUME NEW h \in Hosts PROVE HostInv(h)'
    <3>1. /\ evalIt[h].read = Taken(evalCount + 1, job.evalData[h])
          /\ ~job.padEval => evalCount < job.evalData[h]
      BY <2>1 DEF HostInv
    <3>2. at'[h] = IF Enough(evalCount + 1) THEN "out" ELSE "load"
      BY <2>1
    <3>3. job.evalData[h] \in Nat
      BY <1>0
    <3> QED BY <1>0, <2>1, <3>1, <3>2, <3>3 DEF HostInv, Taken, Enough
  <2> QED BY <2>1, <2>2, <2>3, <2>4
<1>7. CASE EvalEnds
  BY <1>7 DEF EvalEnds
<1>8. CASE EvalFails
  BY <1>8 DEF EvalFails
<1>9. CASE Report
  BY <1>9 DEF Report
<1>10. CASE Finish
  BY <1>10 DEF Finish
<1>11. CASE Done
  BY <1>11 DEF Done, vars, HostInv, Enough
<1> QED BY <1>1, <1>2, <1>3, <1>4, <1>5, <1>6, <1>7, <1>8, <1>9, <1>10, <1>11
        DEF Next, Together

(* The reset before an evaluation writes nothing.                              *)
LEMMA ResetWritesNothing ==
  ASSUME NEW l, NEW n, LoggerInv(l, n)
  PROVE  LET r == ResetEvalMetrics(l)
         IN SameWrites(l, r) /\ r.cumulative = {} /\ r.pending = 0 /\ r.buffered = l.buffered
<1> DEFINE r == ResetEvalMetrics(l)
           q == [l EXCEPT !.cumulative = {}]
<1>1. /\ q = [f \in LoggerFields |-> q[f]]
      /\ \A f \in LoggerFields \ {"cumulative"} : q[f] = l[f]
      /\ q.cumulative = {}
  BY DEF LoggerInv, IsLogger, LoggerFields
<1>2. r = [q EXCEPT !.pending = 0]
  BY DEF ResetEvalMetrics
<1> HIDE DEF q, r
<1>3. /\ \A f \in LoggerFields \ {"cumulative", "pending"} : r[f] = l[f]
      /\ r.cumulative = {} /\ r.pending = 0
  BY <1>1, <1>2 DEF LoggerFields
<1> QED BY <1>3 DEF LoggerFields, SameWrites, r

(* What these say of the next state, if the job is the same.                   *)
LEMMA KeptNext ==
  ASSUME job' = job, Kept(logger', Handed') PROVE Kept(logger, Handed)'
BY DEF Kept, Summarized, LastIsATrainStep, Uploaded, Batches, RanEval, UploadDue

LEMMA EvalNext ==
  ASSUME job' = job, Kept(logger', Handed'), Handed' <= job.steps,
         phase' \in {"train", "eval", "report"} => step' < job.steps,
         phase' = "train" \/ (phase' = "report" /\ ~RanEval(step')) =>
           NoEvalWaits(logger') /\ logger'.pending = 0,
         phase' = "eval" => RanEval(step') /\ Collected(logger', step', evalCount'),
         phase' = "report" /\ RanEval(step') => Collected(logger', step', Batches),
         ~NoEvalWaits(logger') =>
           step' < job.steps /\ ~logger'.stop /\ Head(logger'.buffered).step < Batches
  PROVE  EvalInv'
BY KeptNext DEF EvalInv, RanEval, Collected, Batches, NoEvalWaits

LEMMA NextEval ==
  ASSUME QueueInv, LoaderInv, EvalInv, [Next]_vars PROVE EvalInv'
<1>0. /\ job.start \in Nat /\ job.nan \in Nat /\ job.steps \in Nat /\ job.start < job.steps
      /\ Batches \in Nat /\ step \in Nat /\ step >= job.start /\ evalCount \in Nat
      /\ job \in Jobs
  BY JobBounds DEF QueueInv
<1>1. CASE UNCHANGED <<job, step, logger, evalCount, phase>>
  BY <1>1, EvalNext DEF EvalInv, Handed
<1>2. ASSUME NEW h \in Hosts, LoadTrain(h) PROVE EvalInv'
  BY <1>1, <1>2 DEF LoadTrain
<1>3. ASSUME NEW h \in Hosts, LoadEval(h) PROVE EvalInv'
  BY <1>1, <1>3 DEF LoadEval
<1>4. CASE TrainStep
  <2>1. /\ job' = job /\ step' = step /\ phase = "train"
        /\ RanEval(step) => /\ phase' = "eval" /\ evalCount' = 0
                            /\ logger' = ResetEvalMetrics(logger)
        /\ ~RanEval(step) => phase' = "report" /\ logger' = logger
    BY <1>4 DEF TrainStep
  <2>2. LoggerInv(logger, step) /\ ~logger.abort /\ ~logger.stop /\ Handed = step
        /\ Kept(logger, step) /\ NoEvalWaits(logger) /\ logger.pending = 0 /\ step < job.steps
    BY <2>1 DEF QueueInv, EvalInv, Handed
  <2>3. CASE RanEval(step)
    <3>1. /\ SameWrites(logger, logger') /\ logger'.cumulative = {} /\ logger'.pending = 0
          /\ logger'.buffered = logger.buffered /\ logger'.stop = logger.stop
      BY <2>1, <2>2, <2>3, ResetKeeps, ResetWritesNothing
    <3>2. Handed' = step /\ Kept(logger', step)
      BY <2>1, <2>2, <3>1, SameWritesKept DEF Handed
    <3>3. NoEvalWaits(logger')
      BY <2>2, <3>1 DEF NoEvalWaits
    <3>4. EvalBatches(step, 0) = {}
      BY DEF EvalBatches
    <3>5. Collected(logger', step, 0)
      BY <3>1, <3>3, <3>4 DEF Collected
    <3> QED BY <1>0, <2>1, <2>2, <2>3, <3>2, <3>3, <3>5, EvalNext
  <2>4. CASE ~RanEval(step)
    <3>1. Handed' = step /\ Kept(logger', step)
      BY <2>1, <2>2, <2>4 DEF Handed
    <3> QED BY <1>0, <2>1, <2>2, <2>4, <3>1, EvalNext
  <2> QED BY <2>3, <2>4
<1>5. CASE LoaderStops
  <2>1. /\ job' = job /\ step' = step /\ phase' = "final" /\ logger' = logger
    BY <1>5 DEF LoaderStops
  <2> QED BY <2>1, EvalNext DEF EvalInv, Handed
<1>6. CASE EvalStep
  <2> DEFINE r == BufferEval(logger, mllog, EvalEntry(evalCount, step))[1]
  <2>1. /\ job' = job /\ step' = step /\ evalCount' = evalCount + 1
        /\ phase = "eval" /\ logger' = r
        /\ phase' = IF r.abort THEN "final" ELSE phase
        /\ Everywhere("batch")
    BY <1>6 DEF EvalStep
  <2>2. LoggerInv(logger, step) /\ ~logger.abort /\ ~logger.stop /\ Handed = step
        /\ Kept(logger, step) /\ Collected(logger, step, evalCount) /\ RanEval(step)
        /\ step < job.steps
    BY <2>1 DEF QueueInv, EvalInv, Handed
  <2>3. evalCount < Batches
    BY <1>0, <2>1, <2>2, EvalStepHasBatch
  <2>4. EvalEntry(evalCount, step) \in Entries /\ EvalEntry(evalCount, step).kind = "eval"
    BY <1>0 DEF EvalEntry, Entries
  <2>5. LoggerInv(r, step) /\ r.stop = logger.stop
    BY <1>0, <2>2, <2>4, BufferEvalEffect
  <2>6. Kept(r, step) /\ (~r.abort => Collected(r, step, evalCount + 1) /\ ~NoEvalWaits(r)
                                      /\ Head(r.buffered).step = evalCount)
    BY <1>0, <2>2, <2>3, BufferEvalKeeps
  <2> HIDE DEF r
  <2>7. Handed' = step
    BY <2>1, <2>2, <2>5 DEF Handed
  <2>8. r.abort => NoEvalWaits(r)
    BY <2>5 DEF LoggerInv, NoEvalWaits
  <2> QED BY <1>0, <2>1, <2>2, <2>3, <2>5, <2>6, <2>7, <2>8, EvalNext
<1>7. CASE EvalEnds
  <2>1. /\ job' = job /\ step' = step /\ phase = "eval" /\ phase' = "report"
        /\ logger' = logger /\ Everywhere("out")
    BY <1>7 DEF EvalEnds
  <2>2. evalCount = Batches
    BY <1>0, <2>1, EvalEndsAtBatches
  <2>3. Handed' = Handed
    BY <2>1 DEF Handed
  <2> QED BY <2>1, <2>2, <2>3, EvalNext DEF EvalInv
<1>8. CASE EvalFails
  <2>1. /\ job' = job /\ step' = step /\ phase' = "final" /\ logger' = logger
    BY <1>8 DEF EvalFails
  <2> QED BY <2>1, EvalNext DEF EvalInv, Handed
<1>9. CASE Report
  <2> DEFINE r == BufferTrain(logger, mllog, step)[1]
  <2>1. /\ job' = job /\ phase = "report" /\ logger' = r
        /\ r.abort \/ r.stop => step' = step /\ phase' = "final"
        /\ ~r.abort /\ ~r.stop =>
             step' = step + 1 /\ phase' = IF step' < job.steps THEN "train" ELSE "final"
    BY <1>9 DEF Report
  <2>2. /\ LoggerInv(logger, step) /\ ~logger.abort /\ ~logger.stop /\ Handed = step
        /\ Kept(logger, step) /\ step < job.steps
        /\ RanEval(step) => Collected(logger, step, Batches)
        /\ ~RanEval(step) => NoEvalWaits(logger) /\ logger.pending = 0
    BY <2>1 DEF QueueInv, EvalInv, Handed
  <2>3. LoggerInv(r, step + 1)
    BY <1>0, <2>2, BufferTrainEffect
  <2>4. /\ r.abort => Kept(r, step) /\ ~r.stop
        /\ ~r.abort => Kept(r, step + 1) /\ NoEvalWaits(r) /\ r.pending = 0
    BY <1>0, <2>2, BufferTrainKeeps
  <2> HIDE DEF r
  <2>5. NoEvalWaits(r)
    BY <2>3, <2>4 DEF LoggerInv, NoEvalWaits
  <2>6. CASE r.abort
    <3>1. Handed' = step /\ phase' = "final"
      BY <2>1, <2>4, <2>6 DEF Handed
    <3> QED BY <1>0, <2>1, <2>2, <2>4, <2>5, <2>6, <3>1, EvalNext
  <2>7. CASE ~r.abort
    <3>1. Handed' = step + 1
      BY <2>1, <2>7 DEF Handed
    <3>2. phase' \in {"train", "final"} /\ (phase' = "train" => step' < job.steps)
      BY <2>1, <2>7
    <3> QED BY <1>0, <2>1, <2>2, <2>4, <2>5, <2>7, <3>1, <3>2, EvalNext
  <2> QED BY <2>6, <2>7
<1>10. CASE Finish
  <2> DEFINE r == Flushed(logger, mllog)[1]
  <2>1. /\ job' = job /\ step' = step /\ logger' = r /\ phase' \in {"ended", "aborted"}
    BY <1>10 DEF Finish, CleanUp
  <2>2. LoggerInv(logger, Handed) /\ Handed \in Nat /\ Handed <= job.steps
        /\ Kept(logger, Handed)
    BY <1>0 DEF QueueInv, EvalInv, Handed
  <2>3. CASE logger.abort
    <3>1. r = logger
      BY <2>2, <2>3 DEF Flushed, LoggerInv
    <3> HIDE DEF r
    <3> QED BY <2>1, <3>1, EvalNext DEF EvalInv, Handed
  <2>4. CASE ~logger.abort
    <3>1. r.buffered = <<>> /\ r.stop = logger.stop
      BY <1>0, <2>2, <2>4, FlushedEffect
    <3>2. ~NoEvalWaits(logger) => Head(logger.buffered).step < Batches /\ Handed < job.steps
      BY DEF EvalInv, Handed
    <3>3. Kept(r, Handed)
      BY <1>0, <2>2, <2>4, <3>2, FlushedKeeps
    <3> HIDE DEF r
    <3>4. Handed' = Handed
      BY <2>1, <3>1 DEF Handed
    <3>5. NoEvalWaits(r)
      BY <3>1 DEF NoEvalWaits
    <3> QED BY <2>1, <2>2, <3>3, <3>4, <3>5, EvalNext
  <2> QED BY <2>3, <2>4
<1>11. CASE Done
  BY <1>1, <1>11 DEF Done, vars
<1>12. CASE UNCHANGED vars
  BY <1>1, <1>12 DEF vars
<1> QED BY <1>2, <1>3, <1>4, <1>5, <1>6, <1>7, <1>8, <1>9, <1>10, <1>11, <1>12
        DEF Next, Together

(* The summaries, the uploads and the places of the hosts, in every behaviour. *)
THEOREM EvaluationInvariant == Spec => [](QueueInv /\ LoaderInv /\ EvalInv)
<1>1. Init => QueueInv /\ LoaderInv /\ EvalInv
  BY InitQueue, InitEval
<1>2. (QueueInv /\ LoaderInv /\ EvalInv) /\ [Next]_vars => (QueueInv /\ LoaderInv /\ EvalInv)'
  BY NextQueue, NextLoader, NextEval
<1> QED BY <1>1, <1>2, PTL DEF Spec

(* Each evaluation is summed up once, with the step it followed, from each of  *)
(* its own batches, for any number of hosts and batches, padding and schedule. *)
THEOREM EvaluationsAreOfTheirStep == Spec => []EvalOfItsStep
<1>1. QueueInv /\ EvalInv => EvalOfItsStep
  <2> SUFFICES ASSUME QueueInv, EvalInv PROVE EvalOfItsStep
    OBVIOUS
  <2>1. job.start \in Nat /\ step \in Nat
    BY JobFacts DEF QueueInv
  <2>2. Reported = job.start .. Handed - 1
    BY <2>1 DEF Reported, Handed
  <2>3. Summaries = SummariesIn(logger.written)
    BY DEF Summaries, SummariesIn
  <2>4. Summarized(logger.written, Handed)
    BY DEF EvalInv, Kept
  <2> QED BY <2>2, <2>3, <2>4 DEF Summarized, EvalOfItsStep, EvalBatches
<1> QED BY <1>1, EvaluationInvariant, PTL

(* Everything a job wrote is in the files of metrics_dir when its steps are    *)
(* done, for any period.                                                       *)
THEOREM UploadsAreComplete == Spec => []GcsComplete
<1>1. QueueInv /\ EvalInv => GcsComplete
  <2> SUFFICES ASSUME QueueInv, EvalInv, phase = "ended", step = job.steps,
                      LastIsATrainStep
               PROVE  Contents(logger.written) = Files(logger.gcs)
    BY DEF GcsComplete, Contents, Files, LastIsATrainStep
  <2>1. job.start \in Nat /\ job.steps \in Nat /\ job.start < job.steps
    BY JobBounds DEF QueueInv
  <2>2. Uploaded(logger)
    BY DEF EvalInv, Kept
  <2>3. Handed = job.steps
    BY <2>1 DEF EvalInv, Handed
  <2>4. StepsOf(logger.written) = job.start .. job.steps - 1
    BY <2>3 DEF QueueInv, LoggerInv, Holding
  <2>5. logger.running = <<>>
    BY <2>1, <2>2, <2>4 DEF Uploaded
  <2>6. Contents(<<>>) = {}
    BY DEF Contents
  <2> QED BY <2>2, <2>5, <2>6 DEF Uploaded
<1> QED BY <1>1, EvaluationInvariant, PTL

-----------------------------------------------------------------------------
(* The submission log                                                          *)

LogKeys ==
  {"block_start", "block_stop", "eval_start", "eval_stop", "run_stop", "tracked_stats"}
LogEvents == [key : LogKeys, step : Nat]
Event(key, s) == [key |-> key, step |-> s]

IsLog(m) ==
  /\ m = [events |-> m.events, open |-> m.open, stopped |-> m.stopped]
  /\ m.events \in Seq(LogEvents) /\ m.open \in BOOLEAN /\ m.stopped \in BOOLEAN

(* The places of tracked_stats, and the last of the others before place k.     *)
StatsIn(v) == {i \in 1 .. Len(v) : v[i].key = "tracked_stats"}
StatSteps(v) == {v[i].step : i \in StatsIn(v)}
PrecedesIn(v, i, k) ==
  /\ i \in 1 .. Len(v) /\ i \notin StatsIn(v) /\ i < k
  /\ \A j \in i + 1 .. k - 1 : j \in StatsIn(v)

WellFormed(v) ==
  /\ 1 \in 1 .. Len(v) /\ 1 \notin StatsIn(v)
  /\ \A i, k \in 1 .. Len(v) : PrecedesIn(v, i, k) =>
       IF k \notin StatsIn(v) THEN Follows(v[i], v[k]) ELSE Holds(v[i], v[k])
  /\ \A i, k \in StatsIn(v) : i < k => v[i].step < v[k].step

(* The last event but for tracked_stats is a.                                  *)
FrameEnds(v, a) == \E i \in 1 .. Len(v) : PrecedesIn(v, i, Len(v) + 1) /\ v[i] = a

LEMMA AppendEvent ==
  ASSUME NEW v \in Seq(LogEvents), NEW e \in LogEvents, WellFormed(v), NEW a, FrameEnds(v, a),
         IF e.key = "tracked_stats"
           THEN Holds(a, e) /\ \A t \in StatSteps(v) : t < e.step
           ELSE Follows(a, e)
  PROVE  /\ Append(v, e) \in Seq(LogEvents) /\ WellFormed(Append(v, e))
         /\ e.key = "tracked_stats" => /\ StatSteps(Append(v, e)) = StatSteps(v) \cup {e.step}
                                       /\ FrameEnds(Append(v, e), a)
         /\ e.key # "tracked_stats" => /\ StatSteps(Append(v, e)) = StatSteps(v)
                                       /\ FrameEnds(Append(v, e), e)
<1> DEFINE u == Append(v, e)
           n == Len(v)
           last == n + 1
<1>1. u \in Seq(LogEvents) /\ Len(u) = last /\ n \in Nat
  OBVIOUS
<1>2. /\ \A i \in 1 .. n : u[i] = v[i]
      /\ u[last] = e
  OBVIOUS
<1>3. 1 \in 1 .. n /\ 1 \notin StatsIn(v) /\ StatsIn(v) \subseteq 1 .. n
  BY DEF WellFormed, StatsIn
<1>4. PICK f \in 1 .. n : PrecedesIn(v, f, last) /\ v[f] = a
  BY DEF FrameEnds
<1> HIDE DEF u, n
<1>5. \A i \in 1 .. n : i \in StatsIn(u) <=> i \in StatsIn(v)
  BY <1>1, <1>2 DEF StatsIn, n
<1>6. last \in StatsIn(u) <=> e.key = "tracked_stats"
  BY <1>1, <1>2 DEF StatsIn
<1>7. \A i \in 1 .. n, k \in 1 .. last : PrecedesIn(u, i, k) <=> PrecedesIn(v, i, k)
  <2> TAKE i \in 1 .. n, k \in 1 .. last
  <2>1. \A j \in i + 1 .. k - 1 : j \in 1 .. n
    BY <1>1
  <2>2. i \in 1 .. Len(u) /\ i \in 1 .. Len(v)
    BY <1>1 DEF n
  <2> QED BY <1>5, <2>1, <2>2 DEF PrecedesIn
<1>8. \A i \in 1 .. last, k \in 1 .. last : PrecedesIn(u, i, k) => i \in 1 .. n
  BY <1>1 DEF PrecedesIn
(* Only one event can be the last of the frame.                                *)
<1>9. \A i \in 1 .. n : PrecedesIn(v, i, last) => i = f
  <2> TAKE i \in 1 .. n
  <2> HAVE PrecedesIn(v, i, last)
  <2>1. i < f => f \in StatsIn(v)
    BY <1>1 DEF PrecedesIn
  <2>2. f < i => i \in StatsIn(v)
    BY <1>1, <1>4 DEF PrecedesIn
  <2>3. f \notin StatsIn(v) /\ i \notin StatsIn(v)
    BY <1>4 DEF PrecedesIn
  <2> QED BY <1>1, <2>1, <2>2, <2>3
<1>10. \A i, k \in 1 .. last : PrecedesIn(u, i, k) =>
         IF k \notin StatsIn(u) THEN Follows(u[i], u[k]) ELSE Holds(u[i], u[k])
  <2> TAKE i, k \in 1 .. last
  <2> HAVE PrecedesIn(u, i, k)
  <2>1. i \in 1 .. n /\ PrecedesIn(v, i, k) /\ u[i] = v[i]
    BY <1>2, <1>7, <1>8
  <2>2. CASE k = last
    <3>1. u[i] = a /\ u[k] = e
      BY <1>2, <1>4, <1>9, <2>1, <2>2
    <3> QED BY <1>6, <2>2, <3>1
  <2>3. CASE k # last
    <3>1. k \in 1 .. n /\ u[k] = v[k]
      BY <1>1, <1>2, <2>3
    <3>2. k \in StatsIn(u) <=> k \in StatsIn(v)
      BY <1>5, <3>1
    <3>3. IF k \notin StatsIn(v) THEN Follows(v[i], v[k]) ELSE Holds(v[i], v[k])
      BY <2>1, <3>1 DEF WellFormed, n
    <3> QED BY <2>1, <3>1, <3>2, <3>3
  <2> QED BY <2>2, <2>3
<1>11. StatsIn(u) = IF e.key = "tracked_stats" THEN StatsIn(v) \cup {last} ELSE StatsIn(v)
  <2>1. StatsIn(u) \subseteq (1 .. n) \cup {last}
    BY <1>1 DEF StatsIn
  <2>2. \A i \in StatsIn(u) : i \in StatsIn(v) \/ (i = last /\ e.key = "tracked_stats")
    BY <1>5, <1>6, <2>1
  <2>3. StatsIn(v) \subseteq StatsIn(u)
    BY <1>3, <1>5
  <2> QED BY <1>6, <2>2, <2>3
<1>12. \A i \in StatsIn(v) : u[i] = v[i] /\ i < last /\ v[i].step \in StatSteps(v)
  BY <1>1, <1>2, <1>3 DEF StatSteps
<1>13. StatSteps(u) = IF e.key = "tracked_stats" THEN StatSteps(v) \cup {e.step} ELSE StatSteps(v)
  BY <1>2, <1>11, <1>12 DEF StatSteps
<1>14. \A i, k \in StatsIn(u) : i < k => u[i].step < u[k].step
  <2> TAKE i, k \in StatsIn(u)
  <2> HAVE i < k
  <2>1. k <= last /\ i \in 1 .. n
    BY <1>1 DEF StatsIn
  <2>2. i \in StatsIn(v) /\ u[i] = v[i] /\ v[i].step \in StatSteps(v)
    BY <1>5, <1>12, <2>1
  <2>3. CASE k = last
    BY <1>2, <1>6, <2>2, <2>3
  <2>4. CASE k # last
    <3>1. k \in StatsIn(v) /\ u[k] = v[k]
      BY <1>11, <1>12, <2>4
    <3> QED BY <2>2, <3>1 DEF WellFormed
  <2> QED BY <2>3, <2>4
<1>15. WellFormed(u)
  <2>1. 1 \in 1 .. Len(u) /\ 1 \notin StatsIn(u)
    BY <1>1, <1>3, <1>5
  <2> QED BY <1>1, <1>10, <1>14, <2>1 DEF WellFormed
<1>16. ASSUME e.key = "tracked_stats" PROVE FrameEnds(u, a)
  <2>1. PrecedesIn(v, f, last)
    BY <1>4
  <2>2. f \in 1 .. Len(u) /\ f \notin StatsIn(u) /\ f < last + 1
    BY <1>1, <1>5, <2>1 DEF PrecedesIn
  <2>3. \A j \in f + 1 .. (last + 1) - 1 : j \in StatsIn(u)
    <3> TAKE j \in f + 1 .. (last + 1) - 1
    <3>1. CASE j = last
      BY <1>6, <1>16, <3>1
    <3>2. CASE j # last
      <4>1. j \in f + 1 .. last - 1 /\ j \in 1 .. n
        BY <1>1, <3>2
      <4> QED BY <1>5, <2>1, <4>1 DEF PrecedesIn
    <3> QED BY <3>1, <3>2
  <2>4. PrecedesIn(u, f, Len(u) + 1)
    BY <1>1, <2>2, <2>3 DEF PrecedesIn
  <2>5. u[f] = a
    BY <1>2, <1>4
  <2> QED BY <2>2, <2>4, <2>5 DEF FrameEnds
<1>17. ASSUME e.key # "tracked_stats" PROVE FrameEnds(u, e)
  <2>1. last \in 1 .. Len(u) /\ last \notin StatsIn(u) /\ u[last] = e
    BY <1>1, <1>2, <1>6, <1>17
  <2>2. PrecedesIn(u, last, Len(u) + 1)
    BY <1>1, <2>1 DEF PrecedesIn
  <2> QED BY <2>1, <2>2 DEF FrameEnds
<1> QED BY <1>1, <1>13, <1>15, <1>16, <1>17 DEF u

-----------------------------------------------------------------------------
(* The functions of mllog_utils                                                *)

(* A log whose frame ends with a, with the stats of the steps below n.         *)
LogOf(m, a, n) ==
  /\ IsLog(m) /\ WellFormed(m.events) /\ FrameEnds(m.events, a)
  /\ StatSteps(m.events) = job.start + 1 .. n

(* An event that may follow.                                                   *)
LEMMA EmitRecord ==
  ASSUME NEW m, IsLog(m), NEW key, NEW s
  PROVE  Emit(m, key, s) =
           [events |-> Append(m.events, Event(key, s)), open |-> m.open, stopped |-> m.stopped]
<1>1. PICK v, o, x : /\ m = [events |-> v, open |-> o, stopped |-> x]
                     /\ v = m.events /\ o = m.open /\ x = m.stopped
  BY DEF IsLog
<1> DEFINE u == Append(v, Event(key, s))
<1>2. Emit(m, key, s) = [m EXCEPT !.events = u]
  BY <1>1 DEF Emit, Event
<1> HIDE DEF u
<1>3. [[events |-> v, open |-> o, stopped |-> x] EXCEPT !.events = u]
        = [events |-> u, open |-> o, stopped |-> x]
  OBVIOUS
<1> QED BY <1>1, <1>2, <1>3 DEF u

LEMMA EmitEffect ==
  ASSUME NEW m, NEW a, NEW n, LogOf(m, a, n), NEW key \in LogKeys \ {"tracked_stats"},
         NEW s \in Nat, Follows(a, Event(key, s))
  PROVE  LET r == Emit(m, key, s)
         IN LogOf(r, Event(key, s), n) /\ r.open = m.open /\ r.stopped = m.stopped
<1> DEFINE e == Event(key, s)
           r == Emit(m, key, s)
<1>1. e \in LogEvents /\ e.key # "tracked_stats"
  BY DEF Event, LogEvents
<1>2. IsLog(m)
  BY DEF LogOf
<1>3. /\ r = [events |-> Append(m.events, e), open |-> m.open, stopped |-> m.stopped]
  BY <1>2, EmitRecord
<1> HIDE DEF e, r
<1>4. /\ Append(m.events, e) \in Seq(LogEvents) /\ WellFormed(Append(m.events, e))
      /\ StatSteps(Append(m.events, e)) = StatSteps(m.events)
      /\ FrameEnds(Append(m.events, e), e)
  BY <1>1, <1>2, AppendEvent DEF LogOf, IsLog, e
<1>5. r.events = Append(m.events, e) /\ r.open = m.open /\ r.stopped = m.stopped
  BY <1>3
<1>6. IsLog(r)
  BY <1>2, <1>3, <1>4, <1>5 DEF IsLog
<1> QED BY <1>4, <1>5, <1>6 DEF LogOf, e, r

LEMMA TrackedEffect ==
  ASSUME NEW m, NEW a, NEW n \in Nat, LogOf(m, a, n), Holds(a, Event("tracked_stats", n + 1)),
         job.start \in Nat, n >= job.start
  PROVE  LET r == TrackedStats(m, n + 1)
         IN LogOf(r, a, n + 1) /\ r.open = m.open /\ r.stopped = m.stopped
<1> DEFINE e == Event("tracked_stats", n + 1)
           r == TrackedStats(m, n + 1)
<1>1. e \in LogEvents /\ e.key = "tracked_stats" /\ e.step = n + 1
  BY DEF Event, LogEvents, LogKeys
<1>2. IsLog(m) /\ StatSteps(m.events) = job.start + 1 .. n
  BY DEF LogOf
<1>3. r = [events |-> Append(m.events, e), open |-> m.open, stopped |-> m.stopped]
  BY <1>2, EmitRecord DEF TrackedStats
<1>4. Holds(a, e) /\ \A t \in StatSteps(m.events) : t < e.step
  BY <1>1, <1>2
<1> HIDE DEF e, r
<1>5. /\ Append(m.events, e) \in Seq(LogEvents) /\ WellFormed(Append(m.events, e))
      /\ StatSteps(Append(m.events, e)) = StatSteps(m.events) \cup {e.step}
      /\ FrameEnds(Append(m.events, e), a)
  BY <1>1, <1>2, <1>4, AppendEvent DEF LogOf, IsLog
<1>6. (job.start + 1 .. n) \cup {n + 1} = job.start + 1 .. n + 1
  OBVIOUS
<1>7. r.events = Append(m.events, e) /\ r.open = m.open /\ r.stopped = m.stopped
  BY <1>3
<1>8. IsLog(r)
  BY <1>2, <1>3, <1>5, <1>7 DEF IsLog
<1> QED BY <1>1, <1>2, <1>5, <1>6, <1>7, <1>8 DEF LogOf, r

LEMMA BlockStartEffect ==
  ASSUME NEW m, NEW n, NEW s \in Nat, NEW key \in {"block_stop", "eval_stop"},
         LogOf(m, Event(key, s), n)
  PROVE  LET r == BlockStart(m, s)
         IN LogOf(r, Event("block_start", s), n) /\ r.open /\ r.stopped = m.stopped
<1> DEFINE q == Emit(m, "block_start", s)
           r == BlockStart(m, s)
<1>1. Follows(Event(key, s), Event("block_start", s))
  BY DEF Follows, Event
<1>2. LogOf(q, Event("block_start", s), n) /\ q.stopped = m.stopped
  BY <1>1, EmitEffect DEF LogKeys
<1>3. r = [q EXCEPT !.open = TRUE]
  BY DEF BlockStart
<1> HIDE DEF q, r
<1>4. r = [events |-> q.events, open |-> TRUE, stopped |-> q.stopped]
  BY <1>2, <1>3 DEF LogOf, IsLog
<1>5. r.events = q.events /\ r.open /\ r.stopped = q.stopped
  BY <1>4
<1>6. IsLog(r)
  BY <1>2, <1>4, <1>5 DEF LogOf, IsLog
<1> QED BY <1>2, <1>5, <1>6 DEF LogOf, r

LEMMA BlockStopEffect ==
  ASSUME NEW m, NEW n, NEW s \in Nat, NEW t \in Nat, LogOf(m, Event("block_start", t), n),
         m.open, s \in {t, t + 1}
  PROVE  LET r == BlockStop(m, s)
         IN LogOf(r, Event("block_stop", s), n) /\ ~r.open /\ r.stopped = m.stopped
<1> DEFINE q == Emit(m, "block_stop", s)
           r == BlockStop(m, s)
<1>1. Follows(Event("block_start", t), Event("block_stop", s))
  BY DEF Follows, Event
<1>2. LogOf(q, Event("block_stop", s), n) /\ q.stopped = m.stopped
  BY <1>1, EmitEffect DEF LogKeys
<1>3. r = [q EXCEPT !.open = FALSE]
  BY DEF BlockStop
<1> HIDE DEF q, r
<1>4. r = [events |-> q.events, open |-> FALSE, stopped |-> q.stopped]
  BY <1>2, <1>3 DEF LogOf, IsLog
<1>5. r.events = q.events /\ ~r.open /\ r.stopped = q.stopped
  BY <1>4
<1>6. IsLog(r)
  BY <1>2, <1>4, <1>5 DEF LogOf, IsLog
<1> QED BY <1>2, <1>5, <1>6 DEF LogOf, r

LEMMA StepEndEffect ==
  ASSUME NEW m, NEW n, NEW s \in Nat, NEW steps, LogOf(m, Event("block_start", s), n), m.open
  PROVE  LET r == StepEnd(m, s + 1, steps)
         IN /\ r.stopped = m.stopped
            /\ s + 1 < steps => r.open /\ LogOf(r, Event("block_start", s + 1), n)
            /\ ~(s + 1 < steps) => ~r.open /\ LogOf(r, Event("block_stop", s + 1), n)
<1> DEFINE q == BlockStop(m, s + 1)
<1>1. LogOf(q, Event("block_stop", s + 1), n) /\ ~q.open /\ q.stopped = m.stopped
  BY BlockStopEffect
<1> HIDE DEF q
<1>2. /\ LogOf(BlockStart(q, s + 1), Event("block_start", s + 1), n)
      /\ BlockStart(q, s + 1).open /\ BlockStart(q, s + 1).stopped = q.stopped
  BY <1>1, BlockStartEffect
<1> QED BY <1>1, <1>2 DEF StepEnd, q

LEMMA EvalStartEffect ==
  ASSUME NEW m, NEW n, NEW s \in Nat, LogOf(m, Event("block_start", s), n), m.open
  PROVE  LET r == EvalStart(m, s + 1)
         IN LogOf(r, Event("eval_start", s + 1), n) /\ ~r.open /\ r.stopped = m.stopped
<1> DEFINE q == BlockStop(m, s + 1)
<1>1. LogOf(q, Event("block_stop", s + 1), n) /\ ~q.open /\ q.stopped = m.stopped
  BY BlockStopEffect
<1> HIDE DEF q
<1>2. Follows(Event("block_stop", s + 1), Event("eval_start", s + 1))
  BY DEF Follows, Event
<1>3. LET r == Emit(q, "eval_start", s + 1)
      IN LogOf(r, Event("eval_start", s + 1), n) /\ r.open = q.open /\ r.stopped = q.stopped
  BY <1>1, <1>2, EmitEffect DEF LogKeys
<1> QED BY <1>1, <1>3 DEF EvalStart, q

LEMMA RunStopEffect ==
  ASSUME NEW m, NEW n, NEW s \in Nat, NEW a, LogOf(m, a, n), ~m.stopped,
         \/ m.open /\ a = Event("block_start", s)
         \/ ~m.open /\ a \in {Event("block_stop", s), Event("eval_stop", s)}
  PROVE  LET r == RunStop(m, s) IN LogOf(r, Event("run_stop", s), n) /\ r.stopped
<1> DEFINE b == BlockStop(m, s)
           q == Emit(b, "run_stop", s)
           r == RunStop(m, s)
<1>1. PICK c \in {Event("block_stop", s), Event("eval_stop", s)} : LogOf(b, c, n)
  <2>1. CASE m.open /\ a = Event("block_start", s)
    BY <2>1, BlockStopEffect
  <2>2. CASE ~m.open /\ a \in {Event("block_stop", s), Event("eval_stop", s)}
    BY <2>2 DEF BlockStop
  <2> QED BY <2>1, <2>2
<1> HIDE DEF b
<1>2. Follows(c, Event("run_stop", s))
  BY <1>1 DEF Follows, Event
<1>3. LogOf(q, Event("run_stop", s), n)
  BY <1>1, <1>2, EmitEffect DEF LogKeys
<1>4. r = [q EXCEPT !.stopped = TRUE]
  BY DEF RunStop, b
<1> HIDE DEF q, r
<1>5. r = [events |-> q.events, open |-> q.open, stopped |-> TRUE]
  BY <1>3, <1>4 DEF LogOf, IsLog
<1>6. r.events = q.events /\ r.open = q.open /\ r.stopped
  BY <1>5
<1>7. IsLog(r)
  BY <1>3, <1>5, <1>6 DEF LogOf, IsLog
<1> QED BY <1>3, <1>6, <1>7 DEF LogOf, r

LEMMA EvalStopEffect ==
  ASSUME NEW m, NEW n, NEW s \in Nat, NEW steps, NEW target \in BOOLEAN,
         LogOf(m, Event("eval_start", s), n), ~m.open, ~m.stopped
  PROVE  LET r == EvalStop(m, s, steps, target)
         IN /\ target \/ s >= steps => r.stopped /\ LogOf(r, Event("run_stop", s), n)
            /\ ~(target \/ s >= steps) =>
                 ~r.stopped /\ r.open /\ LogOf(r, Event("block_start", s), n)
<1> DEFINE q == Emit(m, "eval_stop", s)
<1>1. Follows(Event("eval_start", s), Event("eval_stop", s))
  BY DEF Follows, Event
<1>2. LogOf(q, Event("eval_stop", s), n) /\ q.open = m.open /\ q.stopped = m.stopped
  BY <1>1, EmitEffect DEF LogKeys
<1>3. EvalStop(m, s, steps, target)
        = IF target \/ s >= steps THEN RunStop(q, s) ELSE BlockStart(q, s)
  BY DEF EvalStop
<1> HIDE DEF q
<1>4. LogOf(RunStop(q, s), Event("run_stop", s), n) /\ RunStop(q, s).stopped
  BY <1>2, RunStopEffect
<1>5. /\ LogOf(BlockStart(q, s), Event("block_start", s), n)
      /\ BlockStart(q, s).open /\ ~BlockStart(q, s).stopped
  BY <1>2, BlockStartEffect
<1> QED BY <1>3, <1>4, <1>5

-----------------------------------------------------------------------------
(* What the logger tells the log                                               *)

NoTrainWaits(l) == l.buffered = <<>> \/ Head(l.buffered).kind = "eval"

LEMMA FlushedLog ==
  ASSUME NEW l, NEW m
  PROVE  /\ NoTrainWaits(l) => Flushed(l, m)[2] = m
         /\ l.buffered # <<>> /\ Head(l.buffered).kind = "train" /\ job.mllog =>
              Flushed(l, m)[2] = IF Flushed(l, m)[1].abort THEN m
                                 ELSE TrackedStats(m, Head(l.buffered).step + 1)
<1> DEFINE e == Head(l.buffered)
           f == FlushOne([l EXCEPT !.buffered = Tail(l.buffered)], e)
<1>1. Flushed(l, m) = IF l.buffered = <<>> THEN <<l, m>> ELSE <<f, Stats(m, f, e)>>
  BY DEF Flushed
<1> HIDE DEF f
<1> QED BY <1>1 DEF NoTrainWaits, Stats

LEMMA BufferEvalLog ==
  ASSUME NEW l, NEW m, NEW e, NoTrainWaits(l)
  PROVE  BufferEval(l, m, e)[2] = m
<1> DEFINE f == Flushed(l, m)
<1>1. f[2] = m
  BY FlushedLog
<1> HIDE DEF f
<1>2. BufferEval(l, m, e) =
        IF f[1].abort THEN f
        ELSE <<[f[1] EXCEPT !.pending = @ + 1, !.buffered = Append(@, e)], f[2]>>
  BY DEF BufferEval, f
<1> QED BY <1>1, <1>2

(* The metrics of a train step: its tracked_stats, then the end of the         *)
(* evaluation, if there was one.                                               *)
LEMMA BufferTrainLog ==
  ASSUME NEW l, NEW m, NEW s \in Nat, LoggerInv(l, s), ~l.abort, ~l.stop, job \in Jobs,
         s >= job.start, l.pending \in Nat, job.mllog, NoTrainWaits(l)
  PROVE  LET r == BufferTrain(l, m, s)
             t == TrackedStats(m, s + 1)
         IN /\ r[1].abort => r[2] = m
            /\ ~r[1].abort /\ l.pending = 0 => r[2] = t /\ ~r[1].stop
            /\ ~r[1].abort /\ l.pending > 0 =>
                 /\ r[1].stop = (s = job.target)
                 /\ r[2] = EvalStop(t, s + 1, job.steps, s = job.target)
<1> DEFINE f == Flushed(l, m)
           h == f[1]
           e == TrainEntry(s)
           b == [h EXCEPT !.buffered = Append(h.buffered, e)]
           g == Flushed(b, m)
           r == BufferTrain(l, m, s)
           t == TrackedStats(m, s + 1)
<1>0. job.start \in Nat /\ job.nan \in Nat
  BY JobBounds
<1>1. LoggerInv(h, s) /\ h.buffered = <<>> /\ h.stop = l.stop /\ h.pending = l.pending
  BY <1>0, FlushedEffect
<1>2. f[2] = m
  BY FlushedLog
<1>3. CASE h.abort
  <2>1. r = f
    BY <1>3 DEF BufferTrain
  <2> HIDE DEF f, r
  <2> QED BY <1>2, <1>3, <2>1 DEF r
<1>4. CASE ~h.abort
  <2>1. r = IF g[1].abort \/ g[1].pending = 0 THEN g ELSE Finalized(g[1], g[2], s)
    BY <1>2, <1>4 DEF BufferTrain, FlushNow
  <2> HIDE DEF r, h
  <2>2. /\ LoggerInv(b, s + 1) /\ b.buffered # <<>> /\ Head(b.buffered) = e
        /\ b.pending = h.pending /\ b.stop = h.stop /\ ~b.abort
    BY <1>0, <1>1, <1>4, TrainQueued
  <2>3. e.kind = "train" /\ e.step = s
    BY DEF TrainEntry
  <2> HIDE DEF b, e
  <2>4. LoggerInv(g[1], s + 1) /\ g[1].buffered = <<>> /\ g[1].pending = l.pending /\ ~g[1].stop
    BY <1>0, <1>1, <2>2, FlushedEffect
  <2>5. g[2] = IF g[1].abort THEN m ELSE t
    BY <2>2, <2>3, FlushedLog
  <2> HIDE DEF g, t
  <2>6. CASE g[1].abort \/ g[1].pending = 0
    BY <2>1, <2>4, <2>5, <2>6 DEF r, t
  <2>7. CASE ~g[1].abort /\ g[1].pending # 0
    <3> DEFINE c == [[g[1] EXCEPT !.pending = 0] EXCEPT !.stop = (s = job.target)]
    <3>1. r = Finalized(g[1], t, s) /\ l.pending > 0
      BY <2>1, <2>4, <2>5, <2>7
    <3>2. Finalized(g[1], t, s)[2] = EvalStop(t, s + 1, job.steps, s = job.target)
      BY DEF Finalized
    <3>3. ~Finalized(g[1], t, s)[1].abort /\ Finalized(g[1], t, s)[1].stop = (s = job.target)
      BY <1>0, <2>4, <2>7, FinalizedEffect
    <3> QED BY <2>4, <3>1, <3>2, <3>3 DEF r, t
  <2> QED BY <2>6, <2>7
<1> QED BY <1>3, <1>4

-----------------------------------------------------------------------------
(* The invariant of the log.                                                   *)

Logs == job.mllog /\ (job.evalInterval > 0 => Batches > 0)

(* What the log ends with, but for tracked_stats.                              *)
EndsAt(a) ==
  /\ phase = "train" \/ (phase = "report" /\ ~RanEval(step)) =>
       mllog.open /\ a = Event("block_start", step)
  /\ phase = "eval" \/ (phase = "report" /\ RanEval(step)) =>
       ~mllog.open /\ a = Event("eval_start", step + 1)
  /\ phase = "final" /\ graceful /\ ~mllog.stopped =>
       \/ mllog.open /\ a = Event("block_start", step)
       \/ ~mllog.open /\ a = Event("block_stop", step)
  /\ phase = "ended" => mllog.stopped
  /\ mllog.stopped => a.key = "run_stop"

LogInv ==
  Logs =>
    /\ NoTrainWaits(logger)
    /\ phase \in {"train", "eval", "report"} => ~mllog.stopped /\ ~graceful
    /\ \E a : LogOf(mllog, a, Handed) /\ EndsAt(a)

LEMMA LogNext ==
  ASSUME job' = job, NoTrainWaits(logger'),
         phase' \in {"train", "eval", "report"} => ~mllog'.stopped /\ ~graceful',
         NEW a, LogOf(mllog', a, Handed'),
         phase' = "train" \/ (phase' = "report" /\ ~RanEval(step')) =>
           mllog'.open /\ a = Event("block_start", step'),
         phase' = "eval" \/ (phase' = "report" /\ RanEval(step')) =>
           ~mllog'.open /\ a = Event("eval_start", step' + 1),
         phase' = "final" /\ graceful' /\ ~mllog'.stopped =>
           \/ mllog'.open /\ a = Event("block_start", step')
           \/ ~mllog'.open /\ a = Event("block_stop", step'),
         phase' = "ended" => mllog'.stopped,
         mllog'.stopped => a.key = "run_stop"
  PROVE  LogInv'
<1>1. NoTrainWaits(logger)'
  BY DEF NoTrainWaits
<1>2. LogOf(mllog, a, Handed)'
  BY DEF LogOf
<1>3. EndsAt(a)'
  BY DEF EndsAt, RanEval, Event
<1> QED BY <1>1, <1>2, <1>3 DEF LogInv

LEMMA InitLog == Init => LogInv
<1> SUFFICES ASSUME Init, Logs PROVE LogInv
  BY DEF LogInv
<1>0. job.start \in Nat
  BY JobBounds DEF Init
<1> DEFINE e == Event("block_start", job.start)
           v == <<e>>
<1>1. mllog = [events |-> v, open |-> TRUE, stopped |-> FALSE]
  <2> DEFINE q == Emit(NoLog, "block_start", job.start)
  <2>1. mllog = [q EXCEPT !.open = TRUE]
    BY DEF Init, Logs, NewLog, BlockStart
  <2>2. IsLog(NoLog) /\ NoLog.events = <<>> /\ NoLog.open = FALSE /\ NoLog.stopped = FALSE
    BY DEF NoLog, IsLog
  <2>3. Append(<<>>, e) = v
    OBVIOUS
  <2>4. q = [events |-> v, open |-> FALSE, stopped |-> FALSE]
    <3>1. q = [events |-> Append(NoLog.events, Event("block_start", job.start)),
               open |-> NoLog.open, stopped |-> NoLog.stopped]
      BY <2>2, EmitRecord
    <3> HIDE DEF q
    <3> QED BY <2>2, <2>3, <3>1
  <2> HIDE DEF q, v
  <2> QED BY <2>1, <2>4
<1>2. e \in LogEvents /\ e.key = "block_start"
  BY <1>0 DEF Event, LogEvents, LogKeys
<1> HIDE DEF e
<1>3. Len(v) = 1 /\ v[1] = e /\ v \in Seq(LogEvents)
  BY <1>2
<1> HIDE DEF v
<1>4. StatsIn(v) = {}
  BY <1>2, <1>3 DEF StatsIn
<1>5. WellFormed(v)
  <2>1. \A i, k \in 1 .. Len(v) : ~PrecedesIn(v, i, k)
    BY <1>3 DEF PrecedesIn
  <2> QED BY <1>3, <1>4, <2>1 DEF WellFormed
<1>6. FrameEnds(v, e)
  <2>1. 1 \in 1 .. Len(v)
    BY <1>3
  <2>2. PrecedesIn(v, 1, Len(v) + 1)
    BY <1>3, <1>4 DEF PrecedesIn
  <2> QED BY <1>3, <2>1, <2>2 DEF FrameEnds
<1>7. logger = NewLogger /\ step = job.start /\ phase = "train" /\ graceful = FALSE
      /\ Handed = job.start
  BY DEF Init, Handed, NewLogger
<1>8. StatSteps(v) = job.start + 1 .. Handed
  <2>1. job.start + 1 .. job.start = {}
    BY <1>0
  <2> QED BY <1>4, <1>7, <2>1 DEF StatSteps
<1>9. mllog.events = v /\ mllog.open /\ ~mllog.stopped
  BY <1>1
<1>10. LogOf(mllog, e, Handed)
  <2>1. IsLog(mllog)
    BY <1>1, <1>3, <1>9 DEF IsLog
  <2> QED BY <1>5, <1>6, <1>8, <1>9, <2>1 DEF LogOf
<1>11. EndsAt(e)
  BY <1>7, <1>9 DEF EndsAt, e
<1>12. NoTrainWaits(logger)
  BY <1>7 DEF NoTrainWaits, NewLogger
<1> QED BY <1>7, <1>9, <1>10, <1>11, <1>12 DEF LogInv

LEMMA NextLog ==
  ASSUME QueueInv, LoaderInv, EvalInv, LogInv, [Next]_vars PROVE LogInv'
<1> SUFFICES ASSUME Logs' PROVE LogInv'
  BY DEF LogInv
<1>0. /\ job.start \in Nat /\ job.nan \in Nat /\ job.steps \in Nat /\ job.start < job.steps
      /\ Batches \in Nat /\ step \in Nat /\ step >= job.start /\ evalCount \in Nat
      /\ job \in Jobs
  BY JobBounds DEF QueueInv
<1>a. job' = job
  BY DEF Next, Together, LoadTrain, LoadEval, TrainStep, LoaderStops, EvalStep, EvalEnds,
         EvalFails, Report, Finish, Done, vars
<1>b. Logs
  BY <1>a DEF Logs, Batches
<1>c. job.mllog /\ (RanEval(step) => Batches > 0)
  BY <1>b DEF Logs, RanEval
<1>d. /\ NoTrainWaits(logger)
      /\ phase \in {"train", "eval", "report"} => ~mllog.stopped /\ ~graceful
  BY <1>b DEF LogInv
<1>e. PICK a : LogOf(mllog, a, Handed) /\ EndsAt(a)
  BY <1>b DEF LogInv
<1>1. CASE UNCHANGED <<step, logger, mllog, graceful, phase>>
  BY <1>a, <1>d, <1>e, <1>1, LogNext DEF Handed, EndsAt
<1>2. ASSUME NEW h \in Hosts, LoadTrain(h) PROVE LogInv'
  BY <1>1, <1>2 DEF LoadTrain
<1>3. ASSUME NEW h \in Hosts, LoadEval(h) PROVE LogInv'
  BY <1>1, <1>3 DEF LoadEval
<1>4. CASE TrainStep
  <2>1. /\ step' = step /\ phase = "train" /\ graceful' = graceful
        /\ RanEval(step) => /\ phase' = "eval" /\ mllog' = EvalStart(mllog, step + 1)
                            /\ logger' = ResetEvalMetrics(logger)
        /\ ~RanEval(step) => phase' = "report" /\ mllog' = mllog /\ logger' = logger
    BY <1>4, <1>c DEF TrainStep
  <2>2. mllog.open /\ a = Event("block_start", step) /\ ~mllog.stopped /\ ~graceful
    BY <1>d, <1>e, <2>1 DEF EndsAt
  <2>3. CASE RanEval(step)
    <3>1. /\ LogOf(mllog', Event("eval_start", step + 1), Handed) /\ ~mllog'.open
          /\ ~mllog'.stopped
      BY <1>0, <1>e, <2>1, <2>2, <2>3, EvalStartEffect
    <3>2. logger'.buffered = logger.buffered /\ logger'.stop = logger.stop
      BY <2>1, <2>3, ResetKeeps, ResetWritesNothing DEF QueueInv
    <3>3. Handed' = Handed /\ NoTrainWaits(logger')
      BY <1>d, <2>1, <3>2 DEF Handed, NoTrainWaits
    <3> QED BY <1>a, <2>1, <2>2, <2>3, <3>1, <3>3, LogNext
  <2>4. CASE ~RanEval(step)
    <3>1. Handed' = Handed
      BY <2>1, <2>4 DEF Handed
    <3> QED BY <1>a, <1>d, <1>e, <2>1, <2>2, <2>4, <3>1, LogNext
  <2> QED BY <2>3, <2>4
<1>5. CASE LoaderStops
  <2>1. /\ step' = step /\ phase = "train" /\ phase' = "final" /\ logger' = logger
        /\ mllog' = mllog
    BY <1>5 DEF LoaderStops
  <2>2. mllog.open /\ a = Event("block_start", step) /\ ~mllog.stopped
    BY <1>d, <1>e, <2>1 DEF EndsAt
  <2>3. Handed' = Handed
    BY <2>1 DEF Handed
  <2> QED BY <1>a, <1>d, <1>e, <2>1, <2>2, <2>3, LogNext
<1>6. CASE EvalStep
  <2> DEFINE e == EvalEntry(evalCount, step)
             r == BufferEval(logger, mllog, e)
  <2>1. /\ step' = step /\ phase = "eval" /\ graceful' = graceful
        /\ logger' = r[1] /\ mllog' = r[2]
        /\ phase' = IF r[1].abort THEN "final" ELSE phase
        /\ Everywhere("batch")
    BY <1>6 DEF EvalStep
  <2>2. /\ LoggerInv(logger, step) /\ ~logger.abort /\ ~logger.stop /\ Handed = step
        /\ Kept(logger, step) /\ Collected(logger, step, evalCount) /\ RanEval(step)
        /\ step < job.steps
    BY <2>1 DEF QueueInv, EvalInv, Handed
  <2>3. evalCount < Batches
    BY <1>0, <2>1, <2>2, EvalStepHasBatch
  <2>4. e \in Entries /\ e.kind = "eval"
    BY <1>0 DEF EvalEntry, Entries
  <2>5. LoggerInv(r[1], step) /\ r[1].stop = logger.stop
    BY <1>0, <2>2, <2>4, BufferEvalEffect
  <2>6. ~r[1].abort => ~NoEvalWaits(r[1])
    BY <1>0, <2>2, <2>3, BufferEvalKeeps
  <2>7. r[2] = mllog
    BY <1>d, BufferEvalLog
  <2> HIDE DEF r
  <2>8. Handed' = Handed
    BY <2>1, <2>5 DEF Handed
  <2>9. NoTrainWaits(r[1])
    <3>1. CASE r[1].abort
      BY <2>5, <3>1 DEF LoggerInv, NoTrainWaits
    <3>2. CASE ~r[1].abort
      <4>1. r[1].buffered # <<>> /\ Head(r[1].buffered).kind # "train"
        BY <2>6, <3>2 DEF NoEvalWaits
      <4>2. Head(r[1].buffered) \in Entries
        BY <2>5, <4>1, FlushedWrites DEF LoggerInv
      <4> QED BY <4>1, <4>2 DEF NoTrainWaits, Entries
    <3> QED BY <3>1, <3>2
  <2>10. ~mllog.open /\ a = Event("eval_start", step + 1) /\ ~mllog.stopped /\ ~graceful
    BY <1>d, <1>e, <2>1 DEF EndsAt
  <2> QED BY <1>a, <1>e, <2>1, <2>2, <2>7, <2>8, <2>9, <2>10, LogNext
<1>7. CASE EvalEnds
  <2>1. /\ step' = step /\ phase = "eval" /\ phase' = "report" /\ graceful' = graceful
        /\ logger' = logger /\ mllog' = mllog
    BY <1>7 DEF EvalEnds
  <2>2. ~mllog.open /\ a = Event("eval_start", step + 1) /\ ~mllog.stopped /\ ~graceful
    BY <1>d, <1>e, <2>1 DEF EndsAt
  <2>3. Handed' = Handed /\ RanEval(step)
    BY <2>1 DEF Handed, EvalInv
  <2> QED BY <1>a, <1>d, <1>e, <2>1, <2>2, <2>3, LogNext
<1>8. CASE EvalFails
  <2>1. /\ step' = step /\ phase = "eval" /\ phase' = "final" /\ graceful' = graceful
        /\ logger' = logger /\ mllog' = mllog
    BY <1>8 DEF EvalFails
  <2>2. ~mllog.stopped /\ ~graceful
    BY <1>d, <2>1
  <2>3. Handed' = Handed
    BY <2>1 DEF Handed
  <2> QED BY <1>a, <1>d, <1>e, <2>1, <2>2, <2>3, LogNext
<1>9. CASE Report
  <2> DEFINE r == BufferTrain(logger, mllog, step)
             t == TrackedStats(mllog, step + 1)
  <2>1. /\ phase = "report" /\ logger' = r[1]
        /\ r[1].abort \/ r[1].stop =>
             mllog' = r[2] /\ step' = step /\ phase' = "final" /\ graceful' = r[1].stop
        /\ ~r[1].abort /\ ~r[1].stop =>
             /\ mllog' = IF RanEval(step) THEN r[2] ELSE StepEnd(r[2], step + 1, job.steps)
             /\ step' = step + 1 /\ phase' = IF step' < job.steps THEN "train" ELSE "final"
             /\ graceful' = (step + 1 = job.steps)
    BY <1>9, <1>c DEF Report
  <2>2. /\ LoggerInv(logger, step) /\ ~logger.abort /\ ~logger.stop /\ Handed = step
        /\ Kept(logger, step) /\ step < job.steps
        /\ RanEval(step) => Collected(logger, step, Batches)
        /\ ~RanEval(step) => NoEvalWaits(logger) /\ logger.pending = 0
    BY <2>1 DEF QueueInv, EvalInv, Handed
  <2>3. /\ r[1].abort => ~r[1].stop
        /\ ~r[1].abort => r[1].buffered = <<>>
    BY <1>0, <1>c, <2>2, BufferTrainKeeps
  <2>4. LoggerInv(r[1], step + 1)
    BY <1>0, <2>2, BufferTrainEffect
  <2>5. NoTrainWaits(r[1])
    BY <2>3, <2>4 DEF LoggerInv, NoTrainWaits
  <2>6. /\ RanEval(step) => logger.pending > 0
        /\ ~RanEval(step) => logger.pending = 0
        /\ logger.pending \in Nat
    BY <1>0, <1>c, <2>2 DEF Collected
  <2>7. /\ r[1].abort => r[2] = mllog
        /\ ~r[1].abort /\ ~RanEval(step) => r[2] = t /\ ~r[1].stop
        /\ ~r[1].abort /\ RanEval(step) =>
             /\ r[1].stop = (step = job.target)
             /\ r[2] = EvalStop(t, step + 1, job.steps, step = job.target)
    BY <1>0, <1>c, <1>d, <2>2, <2>6, BufferTrainLog
  <2>8. ~mllog.stopped /\ ~graceful
    BY <1>d, <2>1
  <2>9. /\ RanEval(step) => ~mllog.open /\ a = Event("eval_start", step + 1)
        /\ ~RanEval(step) => mllog.open /\ a = Event("block_start", step)
    BY <1>e, <2>1 DEF EndsAt
  <2>10. LogOf(t, a, step + 1) /\ t.open = mllog.open /\ t.stopped = mllog.stopped
    <3>1. Holds(a, Event("tracked_stats", step + 1))
      BY <2>9 DEF Holds, Event
    <3> QED BY <1>0, <1>e, <2>2, <3>1, TrackedEffect
  <2> HIDE DEF r, t
  <2>11. CASE r[1].abort
    <3>1. Handed' = step /\ phase' = "final" /\ ~graceful' /\ mllog' = mllog
      BY <2>1, <2>3, <2>7, <2>11 DEF Handed
    <3> QED BY <1>a, <1>e, <2>1, <2>2, <2>5, <2>8, <3>1, LogNext
  <2>12. CASE ~r[1].abort /\ ~RanEval(step)
    <3>1. /\ mllog' = StepEnd(t, step + 1, job.steps) /\ step' = step + 1 /\ Handed' = step + 1
          /\ phase' = IF step + 1 < job.steps THEN "train" ELSE "final"
          /\ graceful' = (step + 1 = job.steps)
      BY <2>1, <2>7, <2>12 DEF Handed
    <3>2. /\ ~mllog'.stopped
          /\ step + 1 < job.steps =>
               mllog'.open /\ LogOf(mllog', Event("block_start", step + 1), step + 1)
          /\ ~(step + 1 < job.steps) =>
               ~mllog'.open /\ LogOf(mllog', Event("block_stop", step + 1), step + 1)
      BY <1>0, <2>8, <2>9, <2>10, <2>12, <3>1, StepEndEffect
    <3>3. CASE step + 1 < job.steps
      <4>0. step + 1 # job.steps
        BY <1>0, <3>3
      <4>1. phase' = "train" /\ ~graceful'
        BY <3>1, <3>3, <4>0, Zenon
      <4> QED BY <1>a, <2>1, <2>5, <3>1, <3>2, <3>3, <4>1, LogNext
    <3>4. CASE ~(step + 1 < job.steps)
      <4>1. phase' = "final"
        BY <3>1, <3>4
      <4> QED BY <1>a, <2>1, <2>5, <3>1, <3>2, <3>4, <4>1, LogNext
    <3> QED BY <3>3, <3>4
  <2>13. CASE ~r[1].abort /\ RanEval(step)
    <3> DEFINE target == step = job.target
    <3>1. /\ mllog' = EvalStop(t, step + 1, job.steps, target) /\ Handed' = step + 1
          /\ target => step' = step /\ phase' = "final" /\ graceful'
          /\ ~target => /\ step' = step + 1 /\ graceful' = (step + 1 = job.steps)
                        /\ phase' = IF step + 1 < job.steps THEN "train" ELSE "final"
      BY <2>1, <2>7, <2>13 DEF Handed
    <3>2. /\ target \/ step + 1 >= job.steps =>
               mllog'.stopped /\ LogOf(mllog', Event("run_stop", step + 1), step + 1)
          /\ ~(target \/ step + 1 >= job.steps) =>
               /\ ~mllog'.stopped /\ mllog'.open
               /\ LogOf(mllog', Event("block_start", step + 1), step + 1)
      <4>1. target \in BOOLEAN
        OBVIOUS
      <4> HIDE DEF target
      <4> QED BY <1>0, <2>8, <2>9, <2>10, <2>13, <3>1, <4>1, EvalStopEffect
    <3> HIDE DEF target
    <3>3. CASE target \/ step + 1 >= job.steps
      <4>1. phase' = "final"
        BY <1>0, <3>1, <3>3
      <4>2. Event("run_stop", step + 1).key = "run_stop"
        BY DEF Event
      <4> QED BY <1>a, <2>1, <2>5, <3>1, <3>2, <3>3, <4>1, <4>2, LogNext
    <3>4. CASE ~(target \/ step + 1 >= job.steps)
      <4>0. step + 1 # job.steps /\ step + 1 < job.steps
        BY <1>0, <3>4
      <4>1. phase' = "train" /\ ~graceful' /\ step' = step + 1
        BY <3>1, <3>4, <4>0, Zenon
      <4> QED BY <1>a, <2>1, <2>5, <3>1, <3>2, <3>4, <4>1, LogNext
    <3> QED BY <3>3, <3>4
  <2> QED BY <2>11, <2>12, <2>13
<1>10. CASE Finish
  <2> DEFINE r == Flushed(logger, mllog)
  <2>1. /\ step' = step /\ phase = "final" /\ logger' = r[1] /\ graceful' = graceful
        /\ phase' = IF graceful /\ ~r[1].abort THEN "ended" ELSE "aborted"
        /\ mllog' = IF phase' = "ended" THEN RunStop(r[2], step) ELSE r[2]
    BY <1>10, <1>c DEF Finish, CleanUp
  <2>2. r[2] = mllog
    BY <1>d, FlushedLog
  <2>3. r[1].buffered = <<>> /\ r[1].stop = logger.stop
    <3>1. Handed \in Nat
      BY <1>0 DEF Handed
    <3>2. CASE logger.abort
      BY <3>2 DEF Flushed, QueueInv, LoggerInv
    <3>3. CASE ~logger.abort
      BY <1>0, <3>1, <3>3, FlushedEffect DEF QueueInv
    <3> QED BY <3>2, <3>3
  <2> HIDE DEF r
  <2>4. Handed' = Handed /\ NoTrainWaits(logger')
    BY <2>1, <2>3 DEF Handed, NoTrainWaits
  <2>5. CASE phase' = "aborted"
    BY <1>a, <1>e, <2>1, <2>2, <2>4, <2>5, LogNext DEF EndsAt
  <2>6. CASE phase' = "ended" /\ mllog.stopped
    <3>1. mllog' = mllog
      BY <2>1, <2>2, <2>6 DEF RunStop
    <3> QED BY <1>a, <1>e, <2>4, <2>6, <3>1, LogNext DEF EndsAt
  <2>7. CASE phase' = "ended" /\ ~mllog.stopped
    <3>1. \/ mllog.open /\ a = Event("block_start", step)
          \/ ~mllog.open /\ a = Event("block_stop", step)
      BY <1>e, <2>1, <2>7 DEF EndsAt
    <3>2. LogOf(mllog', Event("run_stop", step), Handed) /\ mllog'.stopped
      BY <1>0, <1>e, <2>1, <2>2, <2>7, <3>1, RunStopEffect
    <3>3. Event("run_stop", step).key = "run_stop"
      BY DEF Event
    <3> QED BY <1>a, <2>4, <2>7, <3>2, <3>3, LogNext
  <2> QED BY <2>1, <2>5, <2>6, <2>7
<1>11. CASE Done
  BY <1>1, <1>11 DEF Done, vars
<1>12. CASE UNCHANGED vars
  BY <1>1, <1>12 DEF vars
<1> QED BY <1>2, <1>3, <1>4, <1>5, <1>6, <1>7, <1>8, <1>9, <1>10, <1>11, <1>12
        DEF Next, Together

(* The log follows the loop and the queue, in every behaviour.                 *)
THEOREM LogInvariant == Spec => [](QueueInv /\ LoaderInv /\ EvalInv /\ LogInv)
<1>1. Init => QueueInv /\ LoaderInv /\ EvalInv /\ LogInv
  BY InitQueue, InitEval, InitLog
<1>2. (QueueInv /\ LoaderInv /\ EvalInv /\ LogInv) /\ [Next]_vars
        => (QueueInv /\ LoaderInv /\ EvalInv /\ LogInv)'
  BY NextQueue, NextLoader, NextEval, NextLog
<1> QED BY <1>1, <1>2, PTL DEF Spec

(* The submission log is what a checker of submissions accepts, in every       *)
(* behaviour: blocks, evaluations and run_stop in their order, and the stats   *)
(* of each step once, in its own block or evaluation.                          *)
THEOREM LogsAreWellFormed == Spec => []LogWellFormed
<1>1. QueueInv /\ EvalInv /\ LogInv => LogWellFormed
  <2> SUFFICES ASSUME QueueInv, EvalInv, LogInv, Logs PROVE LogWellFormed
    BY DEF LogWellFormed, Logs
  <2>0. job.start \in Nat /\ step \in Nat
    BY JobFacts DEF QueueInv
  <2> DEFINE v == mllog.events
  <2>1. PICK a : LogOf(mllog, a, Handed) /\ EndsAt(a)
    BY DEF LogInv
  <2>2. v \in Seq(LogEvents) /\ WellFormed(v) /\ FrameEnds(v, a)
        /\ StatSteps(v) = job.start + 1 .. Handed
    BY <2>1 DEF LogOf, IsLog
  <2>3. DOMAIN v = 1 .. Len(v)
    BY <2>2
  <2>4. Tracked = StatsIn(v) /\ Frame = (1 .. Len(v)) \ StatsIn(v)
    BY <2>3 DEF Tracked, Frame, StatsIn
  <2>5. \A i, k : Precedes(i, k) <=> PrecedesIn(v, i, k)
    BY <2>4 DEF Precedes, PrecedesIn
  <2> HIDE DEF v
  <2>6. 1 \in Frame
    BY <2>2, <2>4 DEF WellFormed
  <2>7. ASSUME NEW i \in 1 .. Len(v), NEW k \in 1 .. Len(v), Precedes(i, k)
        PROVE  IF k \in Frame THEN Follows(v[i], v[k]) ELSE Holds(v[i], v[k])
    BY <2>2, <2>4, <2>5, <2>7 DEF WellFormed
  <2>8. \A i, k \in Tracked : i < k => v[i].step < v[k].step
    BY <2>2, <2>4 DEF WellFormed
  <2>9. {v[i].step : i \in Tracked} = {s + 1 : s \in Reported}
    <3>1. Reported = job.start .. Handed - 1 /\ Handed \in Nat
      BY <2>0 DEF Reported, Handed
    <3>2. {s + 1 : s \in job.start .. Handed - 1} = job.start + 1 .. Handed
      <4>1. \A t \in job.start + 1 .. Handed : t - 1 \in job.start .. Handed - 1 /\ t = (t - 1) + 1
        BY <2>0, <3>1
      <4>2. \A s \in job.start .. Handed - 1 : s + 1 \in job.start + 1 .. Handed
        BY <2>0, <3>1
      <4> QED BY <4>1, <4>2
    <3> QED BY <2>2, <2>4, <3>1, <3>2 DEF StatSteps
  <2>10. ASSUME phase = "ended" PROVE \E i \in Frame : v[i].key = "run_stop"
    <3>1. a.key = "run_stop"
      BY <2>1, <2>10 DEF EndsAt
    <3>2. PICK i \in 1 .. Len(v) : PrecedesIn(v, i, Len(v) + 1) /\ v[i] = a
      BY <2>2 DEF FrameEnds
    <3>3. i \in Frame
      BY <2>4, <3>2 DEF PrecedesIn
    <3> QED BY <3>1, <3>2, <3>3
  <2> QED BY <2>3, <2>6, <2>7, <2>8, <2>9, <2>10 DEF LogWellFormed, v
<1> QED BY <1>1, LogInvariant, PTL
=============================================================================
