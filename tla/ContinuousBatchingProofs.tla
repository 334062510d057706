----------------------- MODULE ContinuousBatchingProofs -----------------------
(***************************************************************************)
(* What holds of continuous batching for any slots, prompts and lengths,   *)
(* and whatever is an end of sequence: no slot is lost, a prompt takes     *)
(* nothing after its end, without packing the detokenization thread never  *)
(* raises, and from its first own token on a prompt has all that follow;   *)
(* with a slot for every prompt it has them all, and completes.            *)
(***************************************************************************)
EXTENDS ContinuousBatching, FiniteSetTheorems, TLAPS

USE DEF NoId

Prompt == [id : Nat \ {0}, len : Nat, pad : Paddings]
Row == [id : Nat \ {0}, slot : Slots, len : Nat, pad : Paddings]

Token == Nat \X Nat
Item == [slot : Slots, id : Nat, token : Token]
Task == [items : SUBSET Item] \union [buffer : [Slots -> Token]]
Scan == [buffer : [Slots -> Token], keys : SUBSET Slots, left : SUBSET Slots,
         found : SUBSET Item]

(* What goes from the device to the prompts is typed.                          *)
TaskInv ==
  /\ device \in [Slots -> Token]
  /\ queue \in Seq(Task)
  /\ keys \subseteq Slots
  /\ bg = "scan" => scan \in Scan
  /\ toFree \subseteq Slots

-----------------------------------------------------------------------------
(* The slots                                                                   *)

(* The part of the state that accounts for the slots, and its types.           *)
SlotInv ==
  /\ data \in Seq(Prompt)
  /\ empty \subseteq Slots
  /\ buckets \in [Paddings -> Seq(Row)]
  /\ slotToId \in [Slots -> Nat]
  /\ bg # "free" => toFree = {}
  /\ NoSlotLost

LEMMA Padded ==
  ASSUME NEW w \in Workloads, NEW rows \in PrepareData(w)
  PROVE  rows \in Seq(Prompt)
<1> DEFINE padded == PadData(w.lengths)
           P == 1 .. Len(w.lengths)
<1>1. w.lengths \in Seq(1 .. MaxPrefill) /\ MaxPrefill \in Nat
  BY BatchingAssumption DEF BatchingAssumption
<1>2. ASSUME NEW i \in P
      PROVE  padded[i] \in Prompt
  <2>1. w.lengths[i] \in 1 .. MaxPrefill /\ i \in DOMAIN w.lengths
    BY <1>1
  <2>2. (CHOOSE l \in Paddings : IsPadding(l, w.lengths[i])) \in Paddings
    BY <2>1, BatchingAssumption DEF BatchingAssumption
  <2> QED
    BY <1>1, <2>1, <2>2 DEF PadData, Prompt
<1>3. padded = [i \in P |-> padded[i]]
  BY <1>1 DEF PadData
<1>4. padded \in [P -> Prompt]
  <2> HIDE DEF padded
  <2> QED
    BY <1>2, <1>3
<1>5. DOMAIN padded = P
  BY <1>1 DEF PadData
<1>6. rows \in [P -> Prompt]
  <2>1. CASE w.batch
    <3>1. rows \in [DOMAIN padded -> {padded[i] : i \in DOMAIN padded}]
      BY <2>1 DEF PrepareData
    <3> HIDE DEF padded
    <3> QED
      BY <3>1, <1>2, <1>5
  <2>2. CASE ~w.batch
    BY <2>2, <1>4 DEF PrepareData
  <2> QED
    BY <2>1, <2>2
<1> HIDE DEF padded
<1> QED
  BY <1>1, <1>6

LEMMA RowSlots ==
  ASSUME NEW rows \in Seq(Row)
  PROVE  /\ SlotsOf(rows) \subseteq Slots
         /\ \A i \in DOMAIN rows : rows[i].id \in Nat \ {0}
<1>1. \A i \in DOMAIN rows : rows[i] \in Row
  OBVIOUS
<1> QED
  BY <1>1 DEF SlotsOf, Row

LEMMA InsertedId ==
  ASSUME NEW dev, NEW rows \in Seq(Row), NEW s \in SlotsOf(rows)
  PROVE  \E id \in Nat \ {0} : Insert(dev, rows)[s] = <<id, 1>>
<1> DEFINE Rows == {rows[i] : i \in DOMAIN rows}
           r == CHOOSE r \in Rows : r.slot = s
<1>1. PICK i \in DOMAIN rows : rows[i].slot = s
  BY DEF SlotsOf
<1>2. r \in Rows
  BY <1>1
<1>3. \A j \in DOMAIN rows : rows[j] \in Row
  OBVIOUS
<1>4. r \in Row /\ s \in Slots
  BY <1>1, <1>2, <1>3 DEF Row
<1>5. Insert(dev, rows)[s] = <<r.id, 1>>
  BY <1>1, <1>4 DEF Insert
<1> QED
  BY <1>4, <1>5 DEF Row

(* Prefilled rows have the slots they hold, and nobody loses one.              *)
LEMMA PrefilledSlots ==
  ASSUME NEW rows \in Seq(Row), slotToId \in [Slots -> Nat], PrefillDone(rows)
  PROVE  /\ slotToId' \in [Slots -> Nat]
         /\ \A s \in SlotsOf(rows) : slotToId'[s] # NoId
         /\ \A s \in Slots : slotToId[s] # NoId => slotToId'[s] # NoId
<1>1. slotToId' = [s \in Slots |-> IF s \in SlotsOf(rows)
                                   THEN Insert(device, rows)[s][1] ELSE slotToId[s]]
  BY DEF PrefillDone
<1>2. ASSUME NEW s \in SlotsOf(rows)
      PROVE  Insert(device, rows)[s][1] \in Nat \ {0}
  <2>1. PICK id \in Nat \ {0} : Insert(device, rows)[s] = <<id, 1>>
    BY InsertedId
  <2> QED
    BY <2>1
<1>3. SlotsOf(rows) \subseteq Slots
  BY RowSlots
<1> HIDE DEF Row
<1> QED
  BY <1>1, <1>2, <1>3

LEMMA SlotsAtStart == Init => SlotInv
<1> SUFFICES ASSUME Init PROVE SlotInv
  OBVIOUS
<1>1. data \in Seq(Prompt)
  BY Padded DEF Init
<1>2. NoSlotLost
  BY DEF Init, NoSlotLost
<1> QED
  BY <1>1, <1>2 DEF Init, SlotInv

LEMMA WaitsInABucket ==
  \A s : s \in Waiting <=> \E q \in Paddings : s \in SlotsOf(buckets[q])
BY DEF Waiting

LEMMA WaitsInABucketNext ==
  \A s : s \in Waiting' <=> \E q \in Paddings : s \in SlotsOf(buckets'[q])
BY DEF Waiting, SlotsOf

(* A row that takes slot s from the free ones holds it from then on.           *)
LEMMA PackedSlots ==
  ASSUME SlotInv, NEW row \in Row, PrefillAlone(row) \/ Pack(row)
  PROVE  /\ buckets' \in [Paddings -> Seq(Row)]
         /\ slotToId' \in [Slots -> Nat]
         /\ slotToId'[row.slot] # NoId \/ row.slot \in Waiting'
         /\ \A s \in Slots :
              slotToId[s] # NoId \/ s \in Waiting =>
                slotToId'[s] # NoId \/ s \in Waiting'
<1> USE DEF SlotInv
<1> DEFINE p == row.pad
<1>1. p \in Paddings /\ row.slot \in Slots
  BY DEF Row
<1>2. buckets[p] \in Seq(Row)
  BY <1>1
<1>3. CASE PrefillAlone(row)
  <2>1. PrefillDone(<<row>>) /\ buckets' = buckets
    BY <1>3 DEF PrefillAlone
  <2>2. <<row>> \in Seq(Row) /\ row.slot \in SlotsOf(<<row>>)
    <3> HIDE DEF Row
    <3> QED
      BY DEF SlotsOf
  <2>3. Waiting' = Waiting
    BY <2>1 DEF Waiting
  <2> QED
    BY <2>1, <2>2, <2>3, PrefilledSlots
<1>4. CASE Pack(row) /\ buckets' = [buckets EXCEPT ![p] = Append(@, row)]
                     /\ UNCHANGED slotToId
  <2> HIDE DEF Row
  <2>1. Append(buckets[p], row) \in Seq(Row)
    BY <1>2
  <2>2. buckets' \in [Paddings -> Seq(Row)] /\ buckets'[p] = Append(buckets[p], row)
    BY <1>1, <1>4, <2>1
  <2>3. SlotsOf(Append(buckets[p], row)) = SlotsOf(buckets[p]) \union {row.slot}
    <3> DEFINE b == buckets[p]
               n == Len(b)
               c == Append(b, row)
    <3>1. n \in Nat /\ DOMAIN b = 1 .. n /\ DOMAIN c = 1 .. n + 1
      BY <1>2
    <3>2. c[n + 1] = row /\ \A i \in 1 .. n : c[i] = b[i]
      BY <1>2
    <3> HIDE DEF b, n, c
    <3>3. SlotsOf(c) \subseteq SlotsOf(b) \union {row.slot}
      BY <3>1, <3>2 DEF SlotsOf
    <3>4. SlotsOf(b) \union {row.slot} \subseteq SlotsOf(c)
      <4>1. \A i \in DOMAIN b : i \in DOMAIN c /\ c[i].slot = b[i].slot
        BY <3>1, <3>2
      <4>2. n + 1 \in DOMAIN c /\ c[n + 1].slot = row.slot
        BY <3>1, <3>2
      <4> QED
        BY <4>1, <4>2 DEF SlotsOf
    <3> QED
      BY <3>3, <3>4 DEF b, c
  <2>4. \A q \in Paddings \ {p} : buckets'[q] = buckets[q]
    BY <1>1, <1>4
  <2>5. Waiting \union {row.slot} \subseteq Waiting'
    BY <1>1, <2>2, <2>3, <2>4, WaitsInABucket, WaitsInABucketNext
  <2> QED
    BY <1>4, <2>2, <2>5
<1>5. CASE PrefillDone(buckets[p]) /\ buckets' = [buckets EXCEPT ![p] = <<row>>]
  <2> HIDE DEF Row
  <2>1. buckets' \in [Paddings -> Seq(Row)] /\ buckets'[p] = <<row>>
    BY <1>1, <1>5
  <2>2. row.slot \in SlotsOf(<<row>>)
    BY DEF SlotsOf
  <2>3. \A q \in Paddings \ {p} : buckets'[q] = buckets[q]
    BY <1>1, <1>5
  <2>4. row.slot \in Waiting' /\ Waiting \ SlotsOf(buckets[p]) \subseteq Waiting'
    BY <1>1, <2>1, <2>2, <2>3, WaitsInABucket, WaitsInABucketNext
  <2>5. /\ slotToId' \in [Slots -> Nat]
        /\ \A s \in SlotsOf(buckets[p]) : slotToId'[s] # NoId
        /\ \A s \in Slots : slotToId[s] # NoId => slotToId'[s] # NoId
    BY <1>2, <1>5, PrefilledSlots
  <2> QED
    BY <2>1, <2>4, <2>5
<1> QED
  BY <1>3, <1>4, <1>5 DEF Pack

LEMMA SlotsKept == TaskInv /\ SlotInv /\ [Next]_vars => SlotInv'
<1> SUFFICES ASSUME TaskInv, SlotInv, [Next]_vars PROVE SlotInv'
  OBVIOUS
<1> USE DEF SlotInv
<1>1. CASE PrefillRow
  <2> DEFINE next == Head(data)
             R(s) == [id |-> next.id, slot |-> s, len |-> next.len, pad |-> next.pad]
  <2>1. data # <<>> /\ data' = Tail(data) /\ bg' = bg /\ toFree' = toFree
    BY <1>1 DEF PrefillRow, bgVars
  <2>2. next \in Prompt /\ data' \in Seq(Prompt)
    <3> HIDE DEF Prompt
    <3> QED
      BY <2>1
  <2>3. PICK s \in empty : empty' = empty \ {s} /\ (PrefillAlone(R(s)) \/ Pack(R(s)))
    BY <1>1 DEF PrefillRow
  <2>4. R(s) \in Row /\ R(s).slot = s
    BY <2>2, <2>3 DEF Prompt, Row
  <2> HIDE DEF R, next, Row, Prompt
  <2>5. /\ buckets' \in [Paddings -> Seq(Row)]
        /\ slotToId' \in [Slots -> Nat]
        /\ slotToId'[s] # NoId \/ s \in Waiting'
        /\ \A r \in Slots : slotToId[r] # NoId \/ r \in Waiting =>
                            slotToId'[r] # NoId \/ r \in Waiting'
    BY <2>3, <2>4, PackedSlots
  <2>6. NoSlotLost'
    BY <2>1, <2>3, <2>5 DEF NoSlotLost
  <2> QED
    BY <2>1, <2>2, <2>3, <2>5, <2>6
<1>2. CASE FlushBucket
  <2> HIDE DEF Row, Prompt
  <2>1. PICK p \in Paddings :
          PrefillDone(buckets[p]) /\ buckets' = [buckets EXCEPT ![p] = <<>>]
    BY <1>2 DEF FlushBucket
  <2>2. UNCHANGED <<data, empty, bg, toFree>>
    BY <1>2 DEF FlushBucket, bgVars
  <2>3. buckets[p] \in Seq(Row)
    OBVIOUS
  <2>4. /\ slotToId' \in [Slots -> Nat]
        /\ \A s \in SlotsOf(buckets[p]) : slotToId'[s] # NoId
        /\ \A s \in Slots : slotToId[s] # NoId => slotToId'[s] # NoId
    BY <2>1, <2>3, PrefilledSlots
  <2>5. \A q \in Paddings \ {p} : buckets'[q] = buckets[q]
    BY <2>1
  <2>6. Waiting \ SlotsOf(buckets[p]) \subseteq Waiting'
    BY <2>5, WaitsInABucket, WaitsInABucketNext
  <2>7. NoSlotLost'
    BY <2>2, <2>4, <2>6 DEF NoSlotLost
  <2>8. buckets' \in [Paddings -> Seq(Row)]
    BY <2>1
  <2> QED
    BY <2>2, <2>4, <2>7, <2>8
<1>3. CASE UNCHANGED <<data, empty, buckets, slotToId, bg, toFree>>
  BY <1>3 DEF NoSlotLost, Waiting, SlotsOf
<1>4. CASE \/ StartDrain \/ StartDecode \/ DecodeStep \/ StopRunning \/ Join
  <2>1. UNCHANGED <<empty, buckets, slotToId, bg, toFree>> /\ UNCHANGED data
    BY <1>4 DEF StartDrain, StartDecode, DecodeStep, StopRunning, Join, bgVars, sharedVars
  <2> QED
    BY <1>3, <2>1
<1>5. CASE \/ BgGetDecode \/ BgScanKey \/ BgRaise \/ BgExit
  <2>1. UNCHANGED <<data, empty, buckets, slotToId, toFree>> /\ bg # "free" /\ bg' # "free"
    BY <1>5 DEF BgGetDecode, BgScanKey, BgRaise, BgExit, mainVars, sharedVars
  <2>2. NoSlotLost'
    BY <2>1 DEF NoSlotLost, Waiting, SlotsOf
  <2> QED
    BY <2>1, <2>2
<1>6. CASE \/ BgGetPrefill \/ BgEmitDecode
  <2>1. UNCHANGED <<data, empty, buckets, slotToId>> /\ bg # "free"
    BY <1>6 DEF BgGetPrefill, BgEmitDecode, mainVars, sharedVars
  <2>2. bg' # "free" => toFree' = {}
    BY <1>6 DEF BgGetPrefill, BgEmitDecode, Emit
  <2>3. NoSlotLost'
    BY <2>1 DEF NoSlotLost, Waiting, SlotsOf
  <2> QED
    BY <2>1, <2>2, <2>3
<1>7. CASE BgFree
  <2>1. PICK s \in toFree : /\ slotToId' = [slotToId EXCEPT ![s] = NoId]
                           /\ empty' = empty \union {s}
                           /\ toFree' = toFree \ {s}
                           /\ bg' = IF toFree = {s} THEN "get" ELSE "free"
    BY <1>7 DEF BgFree, Released
  <2>2. UNCHANGED <<data, buckets>>
    BY <1>7 DEF BgFree, mainVars
  <2>3. NoSlotLost'
    BY <2>1, <2>2 DEF NoSlotLost, Waiting, SlotsOf
  <2>4. empty' \subseteq Slots /\ slotToId' \in [Slots -> Nat]
    BY <2>1 DEF TaskInv
  <2>5. bg' # "free" => toFree' = {}
    BY <2>1
  <2> HIDE DEF Row, Prompt
  <2> QED
    BY <2>2, <2>3, <2>4, <2>5
<1>8. CASE UNCHANGED vars
  BY <1>3, <1>8 DEF vars, mainVars, bgVars, sharedVars
<1> QED
  BY <1>1, <1>2, <1>4, <1>5, <1>6, <1>7, <1>8 DEF Next, Main, Background

-----------------------------------------------------------------------------
(* The tasks                                                                   *)

LEMMA TasksAtStart == Init => TaskInv
BY DEF Init, TaskInv, Token, Garbage

(* A task is one of the two kinds, told apart by its field.                    *)
LEMMA TaskKinds ==
  ASSUME NEW task \in Task
  PROVE  /\ "items" \in DOMAIN task => task.items \subseteq Item
         /\ "buffer" \in DOMAIN task => task.buffer \in [Slots -> Token]
<1>1. CASE task \in [items : SUBSET Item]
  BY <1>1
<1>2. CASE task \in [buffer : [Slots -> Token]]
  BY <1>2
<1> QED
  BY <1>1, <1>2 DEF Task

(* Prefilled rows go to the device, and their first tokens to the queue.       *)
LEMMA PrefilledTasks ==
  ASSUME TaskInv, NEW rows \in Seq(Row), PrefillDone(rows)
  PROVE  device' \in [Slots -> Token] /\ queue' \in Seq(Task) /\ keys' \subseteq Slots
<1> DEFINE items == {[slot |-> rows[i].slot, id |-> rows[i].id,
                      token |-> FirstToken(rows[i].id)] : i \in DOMAIN rows}
<1>1. \A i \in DOMAIN rows : rows[i].slot \in Slots /\ rows[i].id \in Nat
  BY RowSlots DEF SlotsOf
<1>2. items \subseteq Item
  BY <1>1 DEF Item, Token, FirstToken
<1>3. [items |-> items] \in Task
  <2> HIDE DEF items
  <2> QED
    BY <1>2 DEF Task
<1>4. queue' = Append(queue, [items |-> items])
  BY DEF PrefillDone
<1>5. queue' \in Seq(Task)
  <2> HIDE DEF items, Task
  <2> QED
    BY <1>3, <1>4 DEF TaskInv
<1>6. keys' \subseteq Slots
  BY RowSlots DEF PrefillDone, TaskInv
<1>7. ASSUME NEW s \in Slots
      PROVE  device'[s] \in Token
  <2>1. device'[s] = Insert(device, rows)[s]
    BY DEF PrefillDone
  <2>2. CASE s \in SlotsOf(rows)
    <3>1. PICK id \in Nat \ {0} : device'[s] = <<id, 1>>
      BY <2>1, <2>2, InsertedId
    <3> QED
      BY <3>1 DEF Token
  <2>3. CASE s \notin SlotsOf(rows)
    <3>1. Insert(device, rows)[s] = device[s]
      BY <2>3 DEF Insert, SlotsOf
    <3> QED
      BY <2>1, <3>1 DEF TaskInv
  <2> QED
    BY <2>2, <2>3
<1>8. device' = [s \in Slots |-> device'[s]]
  BY DEF PrefillDone, Insert
<1> QED
  BY <1>5, <1>6, <1>7, <1>8

LEMMA EmittedSlots ==
  ASSUME NEW items \in SUBSET Item, Emit(items)
  PROVE  toFree' \subseteq Slots /\ bg' # "scan"
BY DEF Emit, Item

LEMMA TasksKept == TaskInv /\ SlotInv /\ [Next]_vars => TaskInv'
<1> SUFFICES ASSUME TaskInv, SlotInv, [Next]_vars PROVE TaskInv'
  OBVIOUS
<1> HIDE DEF NoId
<1>1. CASE PrefillRow
  <2> DEFINE next == Head(data)
             R(s) == [id |-> next.id, slot |-> s, len |-> next.len, pad |-> next.pad]
  <2>1. data # <<>> /\ UNCHANGED <<bg, scan, toFree>>
    BY <1>1 DEF PrefillRow, bgVars
  <2>2. next \in Prompt
    BY <2>1 DEF SlotInv
  <2>3. PICK s \in empty : PrefillAlone(R(s)) \/ Pack(R(s))
    BY <1>1 DEF PrefillRow
  <2>4. R(s) \in Row
    BY <2>2, <2>3 DEF Prompt, Row, SlotInv
  <2>5. <<R(s)>> \in Seq(Row)
    <3> HIDE DEF R, Row
    <3> QED
      BY <2>4
  <2>6. buckets[R(s).pad] \in Seq(Row)
    <3>1. R(s).pad \in Paddings
      BY <2>4 DEF Row
    <3> HIDE DEF R, Row
    <3> QED
      BY <3>1 DEF SlotInv
  <2> HIDE DEF R, next, Row
  <2>7. \/ PrefillDone(<<R(s)>>)
        \/ PrefillDone(buckets[R(s).pad])
        \/ UNCHANGED <<device, keys, queue>>
    BY <2>3 DEF PrefillAlone, Pack
  <2>8. device' \in [Slots -> Token] /\ queue' \in Seq(Task) /\ keys' \subseteq Slots
    BY <2>5, <2>6, <2>7, PrefilledTasks DEF TaskInv
  <2> QED
    BY <2>1, <2>8 DEF TaskInv
<1>2. CASE FlushBucket
  <2>1. PICK p \in Paddings : PrefillDone(buckets[p])
    BY <1>2 DEF FlushBucket
  <2>2. device' \in [Slots -> Token] /\ queue' \in Seq(Task) /\ keys' \subseteq Slots
    BY <2>1, PrefilledTasks DEF SlotInv
  <2> QED
    BY <1>2, <2>2 DEF FlushBucket, bgVars, TaskInv
<1>3. CASE UNCHANGED <<device, queue, keys, bg, scan, toFree>>
  BY <1>3 DEF TaskInv
<1>4. CASE StartDrain \/ StartDecode \/ StopRunning \/ Join
  BY <1>3, <1>4 DEF StartDrain, StartDecode, StopRunning, Join, bgVars, sharedVars
<1>5. CASE DecodeStep
  <2>1. UNCHANGED <<keys, bg, scan, toFree>>
    BY <1>5 DEF DecodeStep, bgVars
  <2>2. [buffer |-> device] \in Task
    BY DEF TaskInv, Task
  <2>3. queue' \in Seq(Task)
    <3>1. queue' = Append(queue, [buffer |-> device])
      BY <1>5 DEF DecodeStep, Result
    <3> HIDE DEF Task
    <3> QED
      BY <2>2, <3>1 DEF TaskInv
  <2>4. device' \in [Slots -> Token]
    <3>1. MaxAge \in Nat
      BY BatchingAssumption DEF BatchingAssumption
    <3>2. device' = Advance(device)
      BY <1>5 DEF DecodeStep
    <3> QED
      BY <3>1, <3>2 DEF Advance, Token, TaskInv
  <2> QED
    BY <2>1, <2>3, <2>4 DEF TaskInv
<1>6. ASSUME bg = "get", queue # <<>>, queue' = Tail(queue)
      PROVE  Head(queue) \in Task /\ queue' \in Seq(Task)
  <2> HIDE DEF Task
  <2> QED
    BY <1>6 DEF TaskInv
<1>7. CASE BgGetPrefill
  <2>1. Head(queue) \in Task /\ queue' \in Seq(Task)
    BY <1>6, <1>7 DEF BgGetPrefill, InOrder
  <2>2. Head(queue).items \subseteq Item /\ Emit(Head(queue).items)
    BY <1>7, <2>1, TaskKinds DEF BgGetPrefill, InOrder
  <2>3. UNCHANGED <<device, keys>>
    BY <1>7 DEF BgGetPrefill, mainVars
  <2> QED
    BY <2>1, <2>2, <2>3, EmittedSlots DEF TaskInv
<1>8. CASE BgGetDecode
  <2>1. Head(queue) \in Task /\ queue' \in Seq(Task)
    BY <1>6, <1>8 DEF BgGetDecode, InOrder
  <2>2. Head(queue).buffer \in [Slots -> Token]
    BY <1>8, <2>1, TaskKinds DEF BgGetDecode, InOrder
  <2>3. scan' \in Scan
    BY <1>8, <2>2 DEF BgGetDecode, InOrder, Scan, TaskInv
  <2>4. UNCHANGED <<device, keys, toFree>>
    BY <1>8 DEF BgGetDecode, mainVars
  <2> QED
    BY <2>1, <2>3, <2>4 DEF TaskInv
<1>9. CASE BgScanKey
  <2>1. scan \in Scan
    BY <1>9 DEF BgScanKey, TaskInv
  <2>2. PICK s \in scan.left :
          LET row == [slot |-> s, id |-> slotToId[s], token |-> scan.buffer[s]]
          IN  scan' = [scan EXCEPT
                         !.left = @ \ {s},
                         !.found = IF row.id # NoId /\ row.id \notin completed
                                   THEN @ \union {row} ELSE @]
    BY <1>9 DEF BgScanKey
  <2>3. s \in Slots /\ scan.buffer[s] \in Token /\ slotToId[s] \in Nat
    BY <2>1 DEF Scan, SlotInv
  <2>4. [slot |-> s, id |-> slotToId[s], token |-> scan.buffer[s]] \in Item
    BY <2>3 DEF Item
  <2>5. scan' \in Scan
    <3> HIDE DEF Item, Token
    <3> QED
      BY <2>1, <2>2, <2>4 DEF Scan
  <2> QED
    BY <1>9, <2>5 DEF BgScanKey, mainVars, sharedVars, TaskInv
<1>10. CASE BgEmitDecode
  <2>1. scan \in Scan /\ Emit(scan.found) /\ UNCHANGED <<device, queue, keys>>
    BY <1>10 DEF BgEmitDecode, TaskInv, mainVars, sharedVars
  <2>2. scan.found \in SUBSET Item
    BY <2>1 DEF Scan
  <2> QED
    BY <2>1, <2>2, EmittedSlots DEF TaskInv
<1>11. CASE BgRaise \/ BgFree \/ BgExit
  BY <1>11 DEF BgRaise, BgFree, BgExit, mainVars, sharedVars, TaskInv
<1>12. CASE UNCHANGED vars
  BY <1>3, <1>12 DEF vars, mainVars, bgVars, sharedVars
<1> QED
  BY <1>1, <1>2, <1>4, <1>5, <1>7, <1>8, <1>9, <1>10, <1>11, <1>12
     DEF Next, Main, Background

(* A decode slot is never lost, whatever completes while it is held.           *)
THEOREM NoSlotLostCorrect == Spec => []NoSlotLost
<1>1. SlotInv => NoSlotLost
  BY DEF SlotInv
<1> QED
  BY <1>1, SlotsAtStart, SlotsKept, TasksAtStart, TasksKept, PTL DEF Spec

-----------------------------------------------------------------------------
(* The tokens of a prompt                                                      *)

(* A prompt that has not completed has room, and no end of sequence.           *)
EndInv ==
  /\ \A id \in Ids : tokens[id] \in Seq(Token)
  /\ \A id \in Ids \ completed :
       /\ Len(tokens[id]) < MaxDecode
       /\ \A i \in 1 .. Len(tokens[id]) : tokens[id][i] \notin Eos
  /\ NothingAfterTheEnd

LEMMA EmittedEnds ==
  ASSUME EndInv, NEW items \in SUBSET Item, Emit(items)
  PROVE  EndInv'
<1> DEFINE Takes(id) == \E x \in items : x.id = id /\ TakesToken(x)
           x(id) == CHOOSE y \in items : y.id = id
<1>1. Ids' = Ids /\ completed \subseteq completed' /\ MaxDecode \in Nat
  BY BatchingAssumption DEF Emit, Ids, BatchingAssumption
<1>2. ASSUME NEW id \in Ids, Takes(id)
      PROVE  /\ tokens'[id] \in Seq(Token)
             /\ Len(tokens'[id]) <= MaxDecode
             /\ \A i \in 1 .. Len(tokens'[id]) - 1 : tokens'[id][i] \notin Eos
             /\ id \notin completed' =>
                  /\ Len(tokens'[id]) < MaxDecode
                  /\ \A i \in 1 .. Len(tokens'[id]) : tokens'[id][i] \notin Eos
  <2> DEFINE c == x(id)
             s == tokens[id]
             t == tokens'[id]
  <2>1. c \in items /\ c.id = id /\ id \notin completed
    BY <1>2 DEF TakesToken
  <2>2. t = Append(s, c.token) /\ c.token \in Token
    BY <1>2, <2>1 DEF Emit, Item
  <2>3. s \in Seq(Token) /\ Len(s) < MaxDecode /\ \A i \in 1 .. Len(s) : s[i] \notin Eos
    BY <2>1 DEF EndInv
  <2>4. id \notin completed' => c.token \notin Eos /\ Len(s) + 1 # MaxDecode
    BY <2>1 DEF Emit, Terminates
  <2> HIDE DEF c, s, t
  <2>5. /\ t \in Seq(Token) /\ Len(t) = Len(s) + 1 /\ t[Len(s) + 1] = c.token
        /\ \A i \in 1 .. Len(s) : t[i] = s[i]
    <3> HIDE DEF Token
    <3> QED
      BY <2>2, <2>3
  <2>6. Len(s) \in Nat
    BY <2>3
  <2> QED
    BY <1>1, <2>3, <2>4, <2>5, <2>6 DEF t
<1>3. ASSUME NEW id \in Ids, ~Takes(id)
      PROVE  tokens'[id] = tokens[id]
  BY <1>3 DEF Emit
<1> HIDE DEF Takes
<1> QED
  BY <1>1, <1>2, <1>3 DEF EndInv, NothingAfterTheEnd

LEMMA EndsKept == TaskInv /\ EndInv /\ [Next]_vars => EndInv'
<1> SUFFICES ASSUME TaskInv, EndInv, [Next]_vars PROVE EndInv'
  OBVIOUS
<1>1. CASE UNCHANGED <<tokens, completed>>
  BY <1>1 DEF EndInv, NothingAfterTheEnd, Ids
<1>2. CASE BgGetPrefill
  <2>1. queue # <<>> /\ Emit(Head(queue).items) /\ "items" \in DOMAIN Head(queue)
    BY <1>2 DEF BgGetPrefill, InOrder
  <2>2. Head(queue) \in Task
    <3> HIDE DEF Task
    <3> QED
      BY <2>1 DEF TaskInv
  <2> QED
    BY <2>1, <2>2, TaskKinds, EmittedEnds
<1>3. CASE BgEmitDecode
  <2>1. scan \in Scan /\ Emit(scan.found)
    BY <1>3 DEF BgEmitDecode, TaskInv
  <2> QED
    BY <2>1, EmittedEnds DEF Scan
<1>4. CASE \/ PrefillRow \/ FlushBucket \/ StartDrain \/ StartDecode \/ DecodeStep
           \/ StopRunning \/ Join \/ BgGetDecode \/ BgScanKey \/ BgRaise \/ BgFree
           \/ BgExit \/ UNCHANGED vars
  <2>1. UNCHANGED <<tokens, completed>>
    BY <1>4 DEF PrefillRow, FlushBucket, StartDrain, StartDecode, DecodeStep, StopRunning,
                Join, BgGetDecode, BgScanKey, BgRaise, BgFree, BgExit, vars, bgVars
  <2> QED
    BY <1>1, <2>1
<1> QED
  BY <1>2, <1>3, <1>4 DEF Next, Main, Background

LEMMA EndsAtStart == Init => EndInv
<1> SUFFICES ASSUME Init PROVE EndInv
  OBVIOUS
<1>1. MaxDecode \in Nat \ {0}
  BY BatchingAssumption DEF BatchingAssumption
<1>2. \A id \in Ids : tokens[id] = <<>>
  BY DEF Init, Ids
<1>3. <<>> \in Seq(Token) /\ Len(<<>>) = 0
  <2> HIDE DEF Token
  <2> QED
    OBVIOUS
<1>4. ASSUME NEW id \in Ids
      PROVE  /\ tokens[id] \in Seq(Token)
             /\ Len(tokens[id]) < MaxDecode /\ Len(tokens[id]) <= MaxDecode
             /\ \A i \in 1 .. Len(tokens[id]) : tokens[id][i] \notin Eos
             /\ \A i \in 1 .. Len(tokens[id]) - 1 : tokens[id][i] \notin Eos
  <2>1. tokens[id] = <<>> /\ Len(tokens[id]) = 0
    BY <1>2, <1>3
  <2> QED
    BY <1>1, <1>3, <2>1
<1> QED
  BY <1>4 DEF EndInv, NothingAfterTheEnd

(* A prompt takes nothing after the token that ends it, and no more tokens     *)
(* than there is room for, whatever tasks are still in the queue.              *)
THEOREM NothingAfterTheEndCorrect == Spec => []NothingAfterTheEnd
<1>1. EndInv => NothingAfterTheEnd
  BY DEF EndInv
<1> QED
  BY <1>1, EndsAtStart, EndsKept, SlotsAtStart, SlotsKept, TasksAtStart, TasksKept, PTL DEF Spec

-----------------------------------------------------------------------------
(* The keys of slot_to_id                                                      *)

HasBuffer(task) == "buffer" \in DOMAIN task
Decoding ==
  \/ left > 0
  \/ \E i \in 1 .. Len(queue) : HasBuffer(queue[i])
  \/ bg = "scan"

(* Without packing, a slot that was ever taken is a key, and nothing is        *)
(* decoded before all are taken or no prompt is left to take one.              *)
KeyInv ==
  ~batch =>
    /\ \A p \in Paddings : buckets[p] = <<>>
    /\ Slots \ empty \subseteq keys
    /\ pc = "rows" \/ data = <<>>
    /\ Decoding => keys = Slots \/ data = <<>>
    /\ bg = "scan" => scan.keys = keys
    /\ bg # "killed"

(* What a queue holds after a task is added, or taken.                         *)
LEMMA AddedTask ==
  ASSUME NEW q \in Seq(Task), NEW task \in Task
  PROVE  (\E i \in 1 .. Len(Append(q, task)) : HasBuffer(Append(q, task)[i])) =>
           HasBuffer(task) \/ \E i \in 1 .. Len(q) : HasBuffer(q[i])
<1> DEFINE r == Append(q, task)
<1>1. /\ Len(q) \in Nat /\ Len(r) = Len(q) + 1 /\ r[Len(q) + 1] = task
      /\ \A i \in 1 .. Len(q) : r[i] = q[i]
  <2> HIDE DEF Task
  <2> QED
    OBVIOUS
<1> HIDE DEF r
<1> QED
  BY <1>1 DEF r

LEMMA TakenTask ==
  ASSUME NEW q \in Seq(Task), q # <<>>
  PROVE  /\ HasBuffer(Head(q)) => \E i \in 1 .. Len(q) : HasBuffer(q[i])
         /\ (\E i \in 1 .. Len(Tail(q)) : HasBuffer(Tail(q)[i])) =>
              \E i \in 1 .. Len(q) : HasBuffer(q[i])
<1> DEFINE r == Tail(q)
<1>1. /\ Len(q) \in Nat /\ 1 \in 1 .. Len(q) /\ Head(q) = q[1]
      /\ Len(r) = Len(q) - 1
      /\ \A i \in 1 .. Len(r) : r[i] = q[i + 1]
  <2> HIDE DEF Task
  <2> QED
    OBVIOUS
<1> HIDE DEF r
<1>2. \A i \in 1 .. Len(r) : i + 1 \in 1 .. Len(q)
  BY <1>1
<1> QED
  BY <1>1, <1>2 DEF r

LEMMA KeysKept == TaskInv /\ SlotInv /\ KeyInv /\ [Next]_vars => KeyInv'
<1>0. ASSUME [Next]_vars PROVE batch' = batch
  <2>1. PrefillRow \/ FlushBucket => batch' = batch
    BY DEF PrefillRow, FlushBucket
  <2>2. StartDrain \/ StartDecode \/ DecodeStep \/ StopRunning \/ Join => batch' = batch
    BY DEF StartDrain, StartDecode, DecodeStep, StopRunning, Join
  <2>3. BgGetPrefill \/ BgGetDecode \/ BgScanKey \/ BgEmitDecode => batch' = batch
    BY DEF BgGetPrefill, BgGetDecode, BgScanKey, BgEmitDecode, mainVars
  <2>4. BgRaise \/ BgFree \/ BgExit \/ UNCHANGED vars => batch' = batch
    BY DEF BgRaise, BgFree, BgExit, vars, mainVars
  <2> QED
    BY <1>0, <2>1, <2>2, <2>3, <2>4 DEF Next, Main, Background
<1> SUFFICES ASSUME TaskInv, SlotInv, KeyInv, [Next]_vars, ~batch PROVE KeyInv'
  BY <1>0 DEF KeyInv
<1> USE DEF KeyInv
<1>1. CASE PrefillRow
  <2> DEFINE next == Head(data)
             R(s) == [id |-> next.id, slot |-> s, len |-> next.len, pad |-> next.pad]
             first(s) == [items |-> {[slot |-> <<R(s)>>[i].slot, id |-> <<R(s)>>[i].id,
                                      token |-> FirstToken(<<R(s)>>[i].id)] :
                                        i \in DOMAIN <<R(s)>>}]
  <2>1. data # <<>> /\ UNCHANGED <<batch, pc, left, bg, scan>>
    BY <1>1 DEF PrefillRow, bgVars
  <2>2. PICK s \in empty : /\ empty' = empty \ {s}
                           /\ PrefillDone(<<R(s)>>) /\ UNCHANGED buckets
    BY <1>1 DEF PrefillRow, PrefillAlone, Pack
  <2>3. SlotsOf(<<R(s)>>) = {s}
    BY DEF SlotsOf
  <2>4. keys' = keys \union {s} /\ s \in Slots /\ keys \subseteq Slots
    BY <2>2, <2>3 DEF PrefillDone, SlotInv, TaskInv
  <2>5. queue' = Append(queue, first(s)) /\ ~HasBuffer(first(s))
    BY <2>2 DEF PrefillDone, HasBuffer
  <2>6. first(s) \in Task
    <3>1. next \in Prompt
      BY <2>1 DEF SlotInv
    <3>2. next.id \in Nat
      BY <3>1 DEF Prompt
    <3>3. first(s).items \subseteq Item
      BY <2>4, <3>2 DEF Item, Token, FirstToken
    <3> HIDE DEF Item
    <3> QED
      BY <3>3 DEF Task
  <2> HIDE DEF first
  <2>7. Decoding' => Decoding
    BY <2>1, <2>5, <2>6, AddedTask DEF Decoding, TaskInv
  <2>8. Decoding => keys = Slots
    BY <2>1
  <2>9. bg = "scan" => Decoding
    BY DEF Decoding
  <2>10. pc = "rows"
    BY <2>1
  <2> QED
    BY <2>1, <2>2, <2>4, <2>7, <2>8, <2>9, <2>10
<1>2. CASE FlushBucket
  BY <1>2 DEF FlushBucket
<1>3. CASE StartDrain \/ StopRunning \/ Join
  <2>1. UNCHANGED <<batch, data, left, buckets, bg, scan, empty, keys, queue>>
        /\ (pc = "rows" /\ pc' # "rows" => data = <<>>)
        /\ (pc # "rows" => pc' # "rows")
    BY <1>3 DEF StartDrain, StopRunning, Join, bgVars, sharedVars
  <2>2. Decoding' = Decoding
    BY <2>1 DEF Decoding
  <2> QED
    BY <2>1, <2>2
<1>4. CASE StartDecode
  <2>1. UNCHANGED <<batch, data, pc, buckets, bg, scan, empty, keys, queue>>
    BY <1>4 DEF StartDecode, bgVars, sharedVars
  <2>2. empty = {} \/ data = <<>>
    BY <1>4 DEF StartDecode, SlotWanted
  <2>3. keys = Slots \/ data = <<>>
    BY <2>2 DEF TaskInv
  <2> QED
    BY <2>1, <2>3
<1>5. CASE DecodeStep
  <2>1. /\ UNCHANGED <<batch, data, pc, buckets, bg, scan, empty, keys>>
        /\ left > 0
    BY <1>5 DEF DecodeStep, bgVars
  <2> QED
    BY <2>1 DEF Decoding
<1>6. CASE BgGetPrefill \/ BgGetDecode
  <2>1. /\ UNCHANGED <<batch, data, pc, left, buckets, empty, keys>>
        /\ queue # <<>> /\ queue' = Tail(queue)
        /\ \/ bg' \in {"get", "free"}
           \/ HasBuffer(Head(queue)) /\ bg' = "scan" /\ scan'.keys = keys
    BY <1>6 DEF BgGetPrefill, BgGetDecode, Emit, InOrder, HasBuffer, mainVars
  <2>2. Decoding' => Decoding
    BY <2>1, TakenTask DEF Decoding, TaskInv
  <2> QED
    BY <2>1, <2>2
<1>7. CASE BgScanKey \/ BgEmitDecode
  <2>1. /\ UNCHANGED <<batch, data, pc, left, buckets, empty, keys, queue>>
        /\ bg = "scan" /\ bg' # "killed"
        /\ bg' = "scan" => scan'.keys = scan.keys
    <3>1. CASE BgEmitDecode
      BY <3>1 DEF BgEmitDecode, Emit, mainVars, sharedVars
    <3>2. CASE BgScanKey
      <4>1. UNCHANGED <<bg, mainVars, sharedVars>> /\ bg = "scan" /\ scan \in Scan
        BY <3>2 DEF BgScanKey, TaskInv
      <4>2. PICK rest, found : scan' = [scan EXCEPT !.left = rest, !.found = found]
        BY <3>2 DEF BgScanKey
      <4>3. scan'.keys = scan.keys
        BY <4>1, <4>2 DEF Scan
      <4> QED
        BY <4>1, <4>3 DEF mainVars, sharedVars
    <3> QED
      BY <1>7, <3>1, <3>2
  <2> QED
    BY <2>1 DEF Decoding
<1>8. CASE BgFree \/ BgExit
  <2>1. /\ UNCHANGED <<batch, data, pc, left, buckets, keys, queue>>
        /\ empty \subseteq empty' /\ bg' \in {"get", "free", "ended"}
    BY <1>8 DEF BgFree, BgExit, mainVars, sharedVars
  <2>2. Decoding' => Decoding
    BY <2>1 DEF Decoding
  <2> QED
    BY <2>1, <2>2
<1>9. CASE BgRaise
  BY <1>9 DEF BgRaise
<1>10. CASE UNCHANGED vars
  <2>1. UNCHANGED <<batch, data, pc, left, buckets, bg, scan, empty, keys, queue>>
    BY <1>10 DEF vars, mainVars, bgVars, sharedVars
  <2>2. Decoding' = Decoding
    BY <2>1 DEF Decoding
  <2> QED
    BY <2>1, <2>2
<1> QED
  BY <1>1, <1>2, <1>3, <1>4, <1>5, <1>6, <1>7, <1>8, <1>9, <1>10 DEF Next, Main, Background

(* Without packing, slot_to_id has no new key while it is iterated over, so    *)
(* that the detokenization thread never raises, for any slots and prompts.     *)
THEOREM ScanUndisturbedCorrect == Spec => []ScanUndisturbed
<1>1. Init => KeyInv
  <2>1. Init => ~Decoding
    BY DEF Init, Decoding
  <2> QED
    BY <2>1 DEF Init, KeyInv
<1>2. KeyInv => ScanUndisturbed
  BY DEF KeyInv, ScanUndisturbed
<1> QED
  BY <1>1, <1>2, KeysKept, SlotsAtStart, SlotsKept, TasksAtStart, TasksKept, PTL DEF Spec

-----------------------------------------------------------------------------
(* The types                                                                   *)

OwnToken == (Ids \union {NoId}) \X (0 .. MaxAge)
OwnItem == [slot : Slots, id : Ids, token : OwnToken]
BucketRow(p) == [id : Ids, slot : Slots, len : 1 .. p, pad : {p}]

(* What a task carries is of the prompts of this call.                         *)
Typed(task) ==
  /\ HasBuffer(task) => task.buffer \in [Slots -> OwnToken]
  /\ ~HasBuffer(task) => task.items \subseteq OwnItem

(* The types with those of what is under way: a prompt is no longer than it is *)
(* padded to, and tasks and the scan are of the prompts there are.             *)
TypeInv ==
  /\ TypeOK
  /\ Ids \subseteq Nat \ {0}
  /\ \A i \in 1 .. Len(data) : data[i].len <= data[i].pad
  /\ \A i \in 1 .. Len(queue) : Typed(queue[i])
  /\ bg = "scan" => scan.buffer \in [Slots -> OwnToken] /\ scan.found \subseteq OwnItem

LEMMA IdsKept ==
  ASSUME [Next]_vars
  PROVE  Ids' = Ids
<1>1. CASE UNCHANGED tokens
  BY <1>1 DEF Ids
<1>2. CASE BgGetPrefill \/ BgEmitDecode
  BY <1>2 DEF BgGetPrefill, BgEmitDecode, Emit, Ids
<1>3. CASE \/ PrefillRow \/ FlushBucket \/ StartDrain \/ StartDecode \/ DecodeStep
           \/ StopRunning \/ Join \/ BgGetDecode \/ BgScanKey \/ BgRaise \/ BgFree
           \/ BgExit \/ UNCHANGED vars
  <2>1. UNCHANGED tokens
    BY <1>3 DEF PrefillRow, FlushBucket, StartDrain, StartDecode, DecodeStep, StopRunning,
                Join, BgGetDecode, BgScanKey, BgRaise, BgFree, BgExit, vars, bgVars
  <2> QED
    BY <1>1, <2>1
<1> QED
  BY <1>2, <1>3 DEF Next, Main, Background

(* A queue after a task is added to it, and after one is taken.                *)
LEMMA AddedPlaces ==
  ASSUME NEW S, NEW q \in Seq(S), NEW task \in S
  PROVE  /\ Len(q) \in Nat /\ Len(Append(q, task)) = Len(q) + 1
         /\ Append(q, task)[Len(q) + 1] = task
         /\ \A i \in 1 .. Len(q) : Append(q, task)[i] = q[i]
OBVIOUS

LEMMA TakenPlaces ==
  ASSUME NEW S, NEW q \in Seq(S), q # <<>>
  PROVE  /\ Len(q) \in Nat \ {0} /\ Head(q) = q[1] /\ Head(q) \in S
         /\ Len(Tail(q)) = Len(q) - 1 /\ Tail(q) \in Seq(S)
         /\ \A i \in 1 .. Len(q) - 1 : Tail(q)[i] = q[i + 1]
OBVIOUS

(* An inserted row of slot s.                                                  *)
LEMMA InsertedRow ==
  ASSUME NEW dev, NEW rows \in Seq(Row), NEW s \in SlotsOf(rows)
  PROVE  \E i \in DOMAIN rows : rows[i].slot = s /\ Insert(dev, rows)[s] = <<rows[i].id, 1>>
<1> DEFINE Rows == {rows[i] : i \in DOMAIN rows}
           r == CHOOSE r \in Rows : r.slot = s
<1>1. PICK i \in DOMAIN rows : rows[i].slot = s
  BY DEF SlotsOf
<1>2. r \in Rows /\ r.slot = s
  BY <1>1
<1>3. s \in Slots
  BY RowSlots
<1>4. Insert(dev, rows)[s] = <<r.id, 1>>
  BY <1>1, <1>3 DEF Insert
<1> HIDE DEF r
<1>5. PICK j \in DOMAIN rows : rows[j] = r
  BY <1>2
<1> QED
  BY <1>2, <1>4, <1>5

(* PrefillDone, place by place.                                                *)
FirstItems(rows) ==
  {[slot |-> rows[i].slot, id |-> rows[i].id,
    token |-> FirstToken(rows[i].id)] : i \in DOMAIN rows}

LEMMA PrefillEffect ==
  ASSUME TaskInv, SlotInv, NEW rows \in Seq(Row), PrefillDone(rows)
  PROVE  /\ queue' = Append(queue, [items |-> FirstItems(rows)])
         /\ queue \in Seq(Task) /\ [items |-> FirstItems(rows)] \in Task
         /\ keys' = keys \union SlotsOf(rows)
         /\ device' \in [Slots -> Token] /\ slotToId' \in [Slots -> Nat]
         /\ \A s \in Slots \ SlotsOf(rows) :
              device'[s] = device[s] /\ slotToId'[s] = slotToId[s]
         /\ \A s \in SlotsOf(rows) : \E i \in DOMAIN rows :
              /\ rows[i].slot = s
              /\ device'[s] = <<rows[i].id, 1>> /\ slotToId'[s] = rows[i].id
<1>1. queue' = Append(queue, [items |-> FirstItems(rows)])
  BY DEF PrefillDone, FirstItems
<1>2. \A i \in DOMAIN rows : rows[i].slot \in Slots /\ rows[i].id \in Nat
  BY RowSlots DEF SlotsOf
<1>3. FirstItems(rows) \subseteq Item
  BY <1>2 DEF Item, Token, FirstToken, FirstItems
<1>4. [items |-> FirstItems(rows)] \in Task
  BY <1>3 DEF Task
<1>5. device' \in [Slots -> Token] /\ slotToId' \in [Slots -> Nat]
  BY PrefilledTasks, PrefilledSlots DEF SlotInv
<1>6. ASSUME NEW s \in Slots \ SlotsOf(rows)
      PROVE  device'[s] = device[s] /\ slotToId'[s] = slotToId[s]
  BY <1>6 DEF PrefillDone, Insert, SlotsOf
<1>7. ASSUME NEW s \in SlotsOf(rows)
      PROVE  \E i \in DOMAIN rows :
               /\ rows[i].slot = s
               /\ device'[s] = <<rows[i].id, 1>> /\ slotToId'[s] = rows[i].id
  <2>1. s \in Slots
    BY RowSlots
  <2>2. device'[s] = Insert(device, rows)[s] /\ slotToId'[s] = Insert(device, rows)[s][1]
    BY <2>1 DEF PrefillDone
  <2>3. PICK i \in DOMAIN rows :
          rows[i].slot = s /\ Insert(device, rows)[s] = <<rows[i].id, 1>>
    BY InsertedRow
  <2> QED
    BY <2>2, <2>3
<1>8. keys' = keys \union SlotsOf(rows)
  BY DEF PrefillDone
<1>9. queue \in Seq(Task)
  BY DEF TaskInv
<1> QED
  BY <1>1, <1>4, <1>5, <1>6, <1>7, <1>8, <1>9

(* The parts of TypeOK that a prefill changes, and those of the rows.          *)
LEMMA PrefilledTypes ==
  ASSUME TaskInv, SlotInv, TypeInv, NEW rows \in Seq(Row),
         \A i \in DOMAIN rows : rows[i].id \in Ids,
         Ids' = Ids, PrefillDone(rows), Len(queue) < MaxQueue
  PROVE  /\ slotToId' \in [Slots -> Ids \union {NoId}]
         /\ keys' \subseteq Slots /\ Active' \subseteq keys'
         /\ device' \in [Slots -> OwnToken]
         /\ Len(queue') <= MaxQueue + 1
         /\ (\A i \in 1 .. Len(queue) : Typed(queue[i]))'
<1> DEFINE task == [items |-> FirstItems(rows)]
<1>0. MaxAge \in Nat /\ MaxAge > 0 /\ MaxQueue \in Nat
  BY BatchingAssumption DEF BatchingAssumption
<1>1. /\ queue' = Append(queue, task) /\ queue \in Seq(Task) /\ task \in Task
      /\ keys' = keys \union SlotsOf(rows)
      /\ device' \in [Slots -> Token] /\ slotToId' \in [Slots -> Nat]
      /\ \A s \in Slots \ SlotsOf(rows) :
           device'[s] = device[s] /\ slotToId'[s] = slotToId[s]
      /\ \A s \in SlotsOf(rows) : \E i \in DOMAIN rows :
           /\ rows[i].slot = s
           /\ device'[s] = <<rows[i].id, 1>> /\ slotToId'[s] = rows[i].id
  BY PrefillEffect
<1>2. /\ device \in [Slots -> OwnToken] /\ slotToId \in [Slots -> Ids \union {NoId}]
      /\ keys \subseteq Slots /\ Active \subseteq keys
  BY DEF TypeInv, TypeOK, OwnToken
<1>3. SlotsOf(rows) \subseteq Slots
  BY RowSlots
<1>4. ASSUME NEW s \in Slots
      PROVE  device'[s] \in OwnToken /\ slotToId'[s] \in Ids \union {NoId}
  <2>1. CASE s \in SlotsOf(rows)
    <3>1. PICK i \in DOMAIN rows :
            device'[s] = <<rows[i].id, 1>> /\ slotToId'[s] = rows[i].id
      BY <1>1, <2>1
    <3>2. rows[i].id \in Ids /\ 1 \in 0 .. MaxAge
      BY <1>0
    <3> QED
      BY <3>1, <3>2 DEF OwnToken
  <2>2. CASE s \notin SlotsOf(rows)
    BY <1>1, <1>2, <2>2
  <2> QED
    BY <2>1, <2>2
<1>5. device' \in [Slots -> OwnToken] /\ slotToId' \in [Slots -> Ids \union {NoId}]
  <2> HIDE DEF OwnToken
  <2> QED
    BY <1>1, <1>4
<1>6. Active' \subseteq keys' /\ keys' \subseteq Slots
  BY <1>1, <1>2, <1>3 DEF Active
<1>7. Typed(task)'
  <2>1. FirstItems(rows) \subseteq OwnItem
    <3>1. \A i \in DOMAIN rows : rows[i].slot \in Slots /\ rows[i].id \in Ids
      BY <1>3 DEF SlotsOf
    <3> QED
      BY <1>0, <3>1 DEF FirstItems, OwnItem, OwnToken, FirstToken
  <2>2. task.items = FirstItems(rows) /\ ~HasBuffer(task)
    BY DEF HasBuffer
  <2>3. OwnItem' = OwnItem
    BY DEF OwnItem, OwnToken
  <2>4. FirstItems(rows)' = FirstItems(rows)
    BY DEF FirstItems
  <2> QED
    BY <2>1, <2>2, <2>3 DEF Typed, HasBuffer
<1>8. /\ Len(queue) \in Nat /\ Len(queue') = Len(queue) + 1
      /\ queue'[Len(queue) + 1] = task
      /\ \A i \in 1 .. Len(queue) : queue'[i] = queue[i]
  <2> HIDE DEF task
  <2> QED
    BY <1>1, AddedPlaces
<1>9. \A i \in 1 .. Len(queue) : Typed(queue[i])'
  <2>1. OwnItem' = OwnItem /\ OwnToken' = OwnToken
    BY DEF OwnItem, OwnToken
  <2>2. \A i \in 1 .. Len(queue) : queue'[i] = queue[i]
    BY <1>8
  <2> QED
    BY <2>1, <2>2 DEF TypeInv, Typed, HasBuffer
<1> QED
  BY <1>0, <1>5, <1>6, <1>7, <1>8, <1>9

(* The rows of a bucket are rows of this call.                                 *)
BucketsTyped == \A p \in Paddings : buckets[p] \in Seq(BucketRow(p))

LEMMA BucketIsOfRows ==
  ASSUME TypeInv, SlotInv, NEW p \in Paddings
  PROVE  buckets[p] \in Seq(Row) /\ \A i \in DOMAIN buckets[p] : buckets[p][i].id \in Ids
<1>1. buckets[p] \in Seq(BucketRow(p))
  BY DEF TypeInv, TypeOK, BucketRow
<1>2. \A i \in DOMAIN buckets[p] : buckets[p][i] \in BucketRow(p)
  <2> HIDE DEF BucketRow
  <2> QED
    BY <1>1
<1> QED
  BY <1>2 DEF BucketRow, SlotInv

LEMMA PaddingsAreNat == Paddings \subseteq Nat /\ MaxPrefill \in Nat
<1>1. MaxPrefill \in Nat /\ PrefillLengths \subseteq 1 .. MaxPrefill
  BY BatchingAssumption DEF BatchingAssumption
<1>2. \A l \in PrefillLengths : l \in Nat
  BY <1>1
<1> QED
  BY <1>1, <1>2 DEF Paddings

(* The next row, for a slot.                                                   *)
NextRow(s) == [id |-> Head(data).id, slot |-> s, len |-> Head(data).len,
               pad |-> Head(data).pad]

LEMMA NextRowTyped ==
  ASSUME TypeInv, SlotInv, data # <<>>, NEW s \in Slots
  PROVE  /\ NextRow(s) \in BucketRow(NextRow(s).pad) /\ NextRow(s) \in Row
         /\ NextRow(s).id \in Ids /\ NextRow(s).pad \in Paddings
         /\ NextRow(s).slot = s
<1>1. Head(data) = data[1] /\ data[1] \in Prompts /\ 1 \in 1 .. Len(data)
  <2> HIDE DEF Prompts
  <2> QED
    BY DEF TypeInv, TypeOK
<1>2. data[1].len <= data[1].pad
  BY <1>1 DEF TypeInv
<1>3. data[1].pad \in Nat
  BY <1>1, PaddingsAreNat DEF Prompts
<1>4. data[1].id \in Nat \ {0} /\ data[1].len \in Nat
  BY <1>1 DEF TypeInv, Prompts
<1> QED
  BY <1>1, <1>2, <1>3, <1>4 DEF NextRow, BucketRow, Row, Prompts

(* What PrefillRow does with the row: one of three ways.                       *)
LEMMA RowWays ==
  ASSUME PrefillRow
  PROVE  /\ data # <<>> /\ data' = Tail(data) /\ Len(queue) < MaxQueue
         /\ UNCHANGED <<batch, pc, left, running, bg, scan, toFree, tokens, completed>>
         /\ \E s \in empty :
              /\ empty' = empty \ {s}
              /\ \/ PrefillDone(<<NextRow(s)>>) /\ UNCHANGED buckets
                 \/ /\ buckets' = [buckets EXCEPT ![NextRow(s).pad] = Append(@, NextRow(s))]
                    /\ UNCHANGED <<device, slotToId, keys, queue>>
                 \/ /\ PrefillDone(buckets[NextRow(s).pad])
                    /\ buckets' = [buckets EXCEPT ![NextRow(s).pad] = <<NextRow(s)>>]
<1>1. PICK s \in empty : empty' = empty \ {s} /\ (PrefillAlone(NextRow(s)) \/ Pack(NextRow(s)))
  BY DEF PrefillRow, NextRow
<1> HIDE DEF NextRow
<1>2. \/ PrefillDone(<<NextRow(s)>>) /\ UNCHANGED buckets
      \/ /\ buckets' = [buckets EXCEPT ![NextRow(s).pad] = Append(@, NextRow(s))]
         /\ UNCHANGED <<device, slotToId, keys, queue>>
      \/ /\ PrefillDone(buckets[NextRow(s).pad])
         /\ buckets' = [buckets EXCEPT ![NextRow(s).pad] = <<NextRow(s)>>]
  BY <1>1 DEF PrefillAlone, Pack
<1>3. /\ data # <<>> /\ data' = Tail(data) /\ Len(queue) < MaxQueue
      /\ UNCHANGED <<batch, pc, left, running, bg, scan, toFree, tokens, completed>>
  BY DEF PrefillRow, bgVars
<1> QED
  BY <1>1, <1>2, <1>3

LEMMA TypesOfPrefillRow ==
  ASSUME TaskInv, SlotInv, TypeInv, PrefillRow, Ids' = Ids
  PROVE  TypeInv'
<1>1. /\ data # <<>> /\ data' = Tail(data) /\ Len(queue) < MaxQueue
      /\ UNCHANGED <<batch, pc, left, running, bg, scan, toFree, tokens, completed>>
  BY RowWays
<1>2. PICK s \in empty :
        /\ empty' = empty \ {s}
        /\ \/ PrefillDone(<<NextRow(s)>>) /\ UNCHANGED buckets
           \/ /\ buckets' = [buckets EXCEPT ![NextRow(s).pad] = Append(@, NextRow(s))]
              /\ UNCHANGED <<device, slotToId, keys, queue>>
           \/ /\ PrefillDone(buckets[NextRow(s).pad])
              /\ buckets' = [buckets EXCEPT ![NextRow(s).pad] = <<NextRow(s)>>]
  BY RowWays
<1> DEFINE row == NextRow(s)
           p == row.pad
<1>3. /\ row \in BucketRow(p) /\ row \in Row /\ row.id \in Ids /\ p \in Paddings
      /\ s \in Slots
  BY <1>1, <1>2, NextRowTyped DEF SlotInv
<1> HIDE DEF row
<1>4. <<row>> \in Seq(Row) /\ (\A i \in DOMAIN <<row>> : <<row>>[i].id \in Ids)
  <2> HIDE DEF Row
  <2> QED
    BY <1>3
<1>5. buckets[p] \in Seq(Row) /\ \A i \in DOMAIN buckets[p] : buckets[p][i].id \in Ids
  BY <1>3, BucketIsOfRows
<1>6. /\ slotToId' \in [Slots -> Ids \union {NoId}]
      /\ keys' \subseteq Slots /\ Active' \subseteq keys'
      /\ device' \in [Slots -> OwnToken]
      /\ Len(queue') <= MaxQueue + 1
      /\ (\A i \in 1 .. Len(queue) : Typed(queue[i]))'
  <2>1. CASE PrefillDone(<<row>>)
    BY <1>1, <1>4, <2>1, PrefilledTypes
  <2>2. CASE PrefillDone(buckets[p])
    BY <1>1, <1>5, <2>2, PrefilledTypes
  <2>3. CASE UNCHANGED <<device, slotToId, keys, queue>>
    BY <1>1, <2>3 DEF TypeInv, TypeOK, OwnToken, OwnItem, Typed, HasBuffer, Active, Ids
  <2> QED
    BY <1>2, <2>1, <2>2, <2>3 DEF row
<1>7. BucketsTyped'
  <2>1. \A q \in Paddings : buckets[q] \in Seq(BucketRow(q))
    BY DEF TypeInv, TypeOK, BucketRow
  <2>2. Append(buckets[p], row) \in Seq(BucketRow(p)) /\ <<row>> \in Seq(BucketRow(p))
    <3> HIDE DEF BucketRow
    <3> QED
      BY <1>3, <2>1
  <2>3. \A q \in Paddings : BucketRow(q)' = BucketRow(q)
    BY <1>1 DEF BucketRow, Ids
  <2>4. buckets \in [Paddings -> Seq(Row)]
    BY DEF SlotInv
  <2>5. ASSUME NEW q \in Paddings
        PROVE  buckets'[q] \in Seq(BucketRow(q))
    <3> HIDE DEF BucketRow, p, Row
    <3> QED
      BY <1>2, <1>3, <2>1, <2>2, <2>4 DEF row, p
  <2> QED
    BY <2>3, <2>5 DEF BucketsTyped
<1>8. data' \in Seq(Prompts) /\ Prompts' = Prompts
      /\ \A i \in 1 .. Len(data') : data'[i].len <= data'[i].pad
  <2>1. Prompts' = Prompts
    BY <1>1 DEF Prompts, Ids
  <2>2. data \in Seq(Prompts)
    BY DEF TypeInv, TypeOK
  <2>3. /\ Len(data) \in Nat \ {0} /\ Len(data') = Len(data) - 1 /\ data' \in Seq(Prompts)
        /\ \A i \in 1 .. Len(data) - 1 : data'[i] = data[i + 1]
    <3> HIDE DEF Prompts
    <3> QED
      BY <1>1, <2>2, TakenPlaces
  <2>4. \A i \in 1 .. Len(data) : data[i].len <= data[i].pad
    BY DEF TypeInv
  <2> QED
    BY <2>1, <2>3, <2>4
<1>9. empty' \subseteq Slots
  BY <1>2 DEF SlotInv
<1> HIDE DEF Prompts, Typed
<1>10. TypeOK'
  BY <1>1, <1>6, <1>7, <1>8, <1>9 DEF TypeInv, TypeOK, BucketsTyped, BucketRow, OwnToken, Ids
<1>11. OwnToken' = OwnToken /\ OwnItem' = OwnItem
  BY <1>1 DEF OwnToken, OwnItem, Ids
<1> QED
  BY <1>1, <1>6, <1>8, <1>10, <1>11 DEF TypeInv

LEMMA TypesOfFlush ==
  ASSUME TaskInv, SlotInv, TypeInv, FlushBucket, Ids' = Ids
  PROVE  TypeInv'
<1>1. PICK p \in Paddings :
        PrefillDone(buckets[p]) /\ buckets' = [buckets EXCEPT ![p] = <<>>]
  BY DEF FlushBucket
<1>2. /\ UNCHANGED <<batch, data, pc, left, running, empty, bg, scan, toFree, tokens, completed>>
      /\ Len(queue) < MaxQueue
  BY DEF FlushBucket, bgVars
<1>3. /\ slotToId' \in [Slots -> Ids \union {NoId}]
      /\ keys' \subseteq Slots /\ Active' \subseteq keys'
      /\ device' \in [Slots -> OwnToken]
      /\ Len(queue') <= MaxQueue + 1
      /\ (\A i \in 1 .. Len(queue) : Typed(queue[i]))'
  BY <1>1, <1>2, BucketIsOfRows, PrefilledTypes
<1>4. BucketsTyped'
  <2>1. \A q \in Paddings : buckets[q] \in Seq(BucketRow(q))
    BY DEF TypeInv, TypeOK, BucketRow
  <2>2. buckets \in [Paddings -> Seq(Row)]
    BY DEF SlotInv
  <2>3. ASSUME NEW q \in Paddings
        PROVE  buckets'[q] \in Seq(BucketRow(q))
    <3> HIDE DEF BucketRow, Row
    <3> QED
      BY <1>1, <2>1, <2>2
  <2>4. \A q \in Paddings : BucketRow(q)' = BucketRow(q)
    BY <1>2 DEF BucketRow, Ids
  <2> QED
    BY <2>3, <2>4 DEF BucketsTyped
<1>5. OwnToken' = OwnToken /\ OwnItem' = OwnItem /\ Prompts' = Prompts
  BY <1>2 DEF OwnToken, OwnItem, Prompts, Ids
<1> HIDE DEF Typed, Prompts
<1>6. TypeOK'
  BY <1>2, <1>3, <1>4, <1>5 DEF TypeInv, TypeOK, BucketsTyped, BucketRow, OwnToken, Ids
<1> QED
  BY <1>2, <1>3, <1>5, <1>6 DEF TypeInv

LEMMA TypesOfDecode ==
  ASSUME TaskInv, TypeInv, DecodeStep, Ids' = Ids
  PROVE  TypeInv'
<1>0. MaxAge \in Nat /\ MaxQueue \in Nat /\ MinDecodeSteps \in Nat
  BY BatchingAssumption DEF BatchingAssumption
<1>1. /\ UNCHANGED <<batch, data, pc, running, buckets, bg, scan, toFree, tokens, completed,
                     empty, slotToId, keys>>
      /\ left > 0 /\ left' = left - 1 /\ Len(queue) < MaxQueue
      /\ queue' = Append(queue, [buffer |-> device]) /\ device' = Advance(device)
  BY DEF DecodeStep, Result, bgVars
<1>2. device \in [Slots -> OwnToken]
  BY DEF TypeInv, TypeOK, OwnToken
<1>3. device' \in [Slots -> OwnToken]
  BY <1>0, <1>1, <1>2 DEF Advance, OwnToken
<1>4. [buffer |-> device] \in Task /\ queue \in Seq(Task)
  BY DEF TaskInv, Task
<1>5. /\ Len(queue) \in Nat /\ Len(queue') = Len(queue) + 1
      /\ queue'[Len(queue) + 1] = [buffer |-> device]
      /\ \A i \in 1 .. Len(queue) : queue'[i] = queue[i]
  BY <1>1, <1>4, AddedPlaces
<1>6. OwnToken' = OwnToken /\ OwnItem' = OwnItem /\ Prompts' = Prompts
  BY <1>1 DEF OwnToken, OwnItem, Prompts, Ids
<1>7. (\A i \in 1 .. Len(queue) : Typed(queue[i]))'
  <2>1. ASSUME NEW i \in 1 .. Len(queue')
        PROVE  Typed(queue[i])'
    <3>1. CASE i = Len(queue) + 1
      BY <1>2, <1>5, <1>6, <3>1 DEF Typed, HasBuffer
    <3>2. CASE i \in 1 .. Len(queue)
      BY <1>5, <1>6, <3>2 DEF TypeInv, Typed, HasBuffer
    <3> QED
      BY <1>5, <3>1, <3>2
  <2> QED
    BY <2>1
<1>8. left' \in 0 .. MinDecodeSteps /\ Len(queue') <= MaxQueue + 1
  BY <1>0, <1>1, <1>5 DEF TypeInv, TypeOK
<1>9. TypeOK'
  BY <1>1, <1>3, <1>6, <1>8 DEF TypeInv, TypeOK, OwnToken, Ids, Active
<1> HIDE DEF Typed
<1> QED
  BY <1>1, <1>6, <1>7, <1>9 DEF TypeInv, Ids

(* A prompt is given a token of what is emitted, or none.                      *)
LEMMA TypesOfEmit ==
  ASSUME TypeInv, NEW items \in SUBSET OwnItem, Emit(items)
  PROVE  /\ \A id \in Ids : tokens'[id] \in Seq(OwnToken)
         /\ completed' \subseteq Ids
         /\ bg' \in {"get", "free"}
         /\ toFree' \subseteq Slots /\ (toFree' # {} <=> bg' = "free")
<1>1. ASSUME NEW id \in Ids
      PROVE  tokens'[id] \in Seq(OwnToken)
  <2>1. tokens[id] \in Seq(OwnToken)
    BY DEF TypeInv, TypeOK, OwnToken
  <2>2. CASE \E x \in items : x.id = id /\ TakesToken(x)
    <3> DEFINE c == CHOOSE x \in items : x.id = id
    <3>1. c \in items
      BY <2>2
    <3>2. c.token \in OwnToken
      BY <3>1 DEF OwnItem
    <3>3. tokens'[id] = Append(tokens[id], c.token)
      BY <2>2 DEF Emit
    <3> HIDE DEF c, OwnToken
    <3> QED
      BY <2>1, <3>2, <3>3
  <2>3. CASE ~ \E x \in items : x.id = id /\ TakesToken(x)
    BY <2>1, <2>3 DEF Emit
  <2> QED
    BY <2>2, <2>3
<1>2. completed' \subseteq Ids
  <2>1. completed \subseteq Ids /\ \A x \in items : x.id \in Ids
    BY DEF OwnItem, TypeInv, TypeOK
  <2> QED
    BY <2>1 DEF Emit
<1>3. bg' \in {"get", "free"} /\ toFree' \subseteq Slots /\ (toFree' # {} <=> bg' = "free")
  BY DEF Emit, OwnItem
<1> QED
  BY <1>1, <1>2, <1>3

LEMMA TypesKept == TaskInv /\ SlotInv /\ TypeInv /\ [Next]_vars => TypeInv'
<1> SUFFICES ASSUME TaskInv, SlotInv, TypeInv, [Next]_vars PROVE TypeInv'
  OBVIOUS
<1>0. Ids' = Ids /\ OwnToken' = OwnToken /\ OwnItem' = OwnItem /\ Prompts' = Prompts
  BY IdsKept DEF OwnToken, OwnItem, Prompts
<1>1. CASE PrefillRow
  BY <1>0, <1>1, TypesOfPrefillRow
<1>2. CASE FlushBucket
  BY <1>0, <1>2, TypesOfFlush
<1>3. CASE DecodeStep
  BY <1>0, <1>3, TypesOfDecode
<1>4. CASE StartDrain \/ StartDecode \/ StopRunning \/ Join
  <2>1. /\ UNCHANGED <<batch, data, buckets, device, empty, slotToId, keys, queue,
                       bg, scan, toFree, tokens, completed>>
        /\ left' \in {left, MinDecodeSteps} /\ running' \in BOOLEAN
        /\ pc' \in {"rows", "drain", "join", "done"}
    BY <1>4 DEF StartDrain, StartDecode, StopRunning, Join, bgVars, sharedVars, DecodeSteps,
                TypeInv, TypeOK
  <2>2. left' \in 0 .. MinDecodeSteps
    BY <2>1, BatchingAssumption DEF BatchingAssumption, TypeInv, TypeOK
  <2>3. TypeOK'
    BY <2>1, <2>2 DEF TypeInv, TypeOK, Ids, Prompts, Active
  <2> QED
    BY <1>0, <2>1, <2>3 DEF TypeInv, Typed, HasBuffer
<1>5. ASSUME queue # <<>>, queue' = Tail(queue)
      PROVE  /\ Head(queue) = queue[1] /\ 1 \in 1 .. Len(queue)
             /\ Len(queue') <= MaxQueue + 1
             /\ (\A i \in 1 .. Len(queue) : Typed(queue[i]))'
  <2>1. queue \in Seq(Task)
    BY DEF TaskInv
  <2>2. /\ Len(queue) \in Nat \ {0} /\ Head(queue) = queue[1]
        /\ Len(queue') = Len(queue) - 1
        /\ \A i \in 1 .. Len(queue) - 1 : queue'[i] = queue[i + 1]
    BY <1>5, <2>1, TakenPlaces
  <2>3. ASSUME NEW i \in 1 .. Len(queue')
        PROVE  Typed(queue[i])'
    <3>1. queue'[i] = queue[i + 1] /\ i + 1 \in 1 .. Len(queue)
      BY <2>2
    <3>2. Typed(queue[i + 1])
      BY <3>1 DEF TypeInv
    <3> QED
      BY <1>0, <3>1, <3>2 DEF Typed, HasBuffer
  <2>4. Len(queue') <= MaxQueue + 1
    BY <2>2, BatchingAssumption DEF BatchingAssumption, TypeInv, TypeOK
  <2> HIDE DEF Typed
  <2> QED
    BY <2>2, <2>3, <2>4
<1>6. CASE BgGetPrefill
  <2>1. /\ queue # <<>> /\ queue' = Tail(queue) /\ Emit(Head(queue).items)
        /\ ~HasBuffer(Head(queue)) /\ UNCHANGED <<mainVars, empty, slotToId, keys>>
    <3>1. Head(queue) \in Task
      <4> HIDE DEF Task
      <4> QED
        BY <1>6 DEF BgGetPrefill, TaskInv
    <3>2. "items" \in DOMAIN Head(queue)
      BY <1>6 DEF BgGetPrefill, InOrder
    <3> QED
      BY <1>6, <3>1, <3>2 DEF BgGetPrefill, InOrder, Task, HasBuffer
  <2>2. Head(queue).items \subseteq OwnItem
    BY <1>5, <2>1 DEF TypeInv, Typed
  <2>3. /\ \A id \in Ids : tokens'[id] \in Seq(OwnToken)
        /\ completed' \subseteq Ids
        /\ bg' \in {"get", "free"}
        /\ toFree' \subseteq Slots /\ (toFree' # {} <=> bg' = "free")
    BY <2>1, <2>2, TypesOfEmit
  <2>4. Active' = Active
    BY <2>1 DEF Active
  <2>5. TypeOK'
    BY <1>0, <1>5, <2>1, <2>3, <2>4 DEF TypeInv, TypeOK, OwnToken, mainVars
  <2> HIDE DEF Typed
  <2> QED
    BY <1>0, <1>5, <2>1, <2>3, <2>5 DEF TypeInv, mainVars
<1>7. CASE BgGetDecode
  <2>1. /\ queue # <<>> /\ queue' = Tail(queue) /\ HasBuffer(Head(queue))
        /\ scan' = [buffer |-> Head(queue).buffer, keys |-> keys, left |-> keys, found |-> {}]
        /\ bg' = "scan" /\ bg = "get"
        /\ UNCHANGED <<toFree, tokens, completed, mainVars, empty, slotToId, keys>>
    BY <1>7 DEF BgGetDecode, InOrder, HasBuffer
  <2>2. scan'.buffer \in [Slots -> OwnToken] /\ scan'.found = {}
    BY <1>5, <2>1 DEF TypeInv, Typed
  <2>3. TypeOK'
    BY <1>0, <1>5, <2>1 DEF TypeInv, TypeOK, OwnToken, mainVars, Active, Ids
  <2> HIDE DEF Typed
  <2> QED
    BY <1>0, <1>5, <2>1, <2>2, <2>3 DEF TypeInv, mainVars
<1>8. CASE BgScanKey
  <2>1. /\ UNCHANGED <<bg, toFree, tokens, completed, mainVars, sharedVars>>
        /\ bg = "scan" /\ scan \in Scan
    BY <1>8 DEF BgScanKey, TaskInv
  <2>2. PICK s \in scan.left :
          LET row == [slot |-> s, id |-> slotToId[s], token |-> scan.buffer[s]]
          IN  scan' = [scan EXCEPT
                         !.left = @ \ {s},
                         !.found = IF row.id # NoId /\ row.id \notin completed
                                   THEN @ \union {row} ELSE @]
    BY <1>8 DEF BgScanKey
  <2> DEFINE row == [slot |-> s, id |-> slotToId[s], token |-> scan.buffer[s]]
  <2>3. scan'.buffer = scan.buffer
        /\ scan'.found \in {scan.found, scan.found \union {row}}
        /\ (slotToId[s] = NoId => scan'.found = scan.found)
    BY <2>1, <2>2 DEF Scan
  <2>4. slotToId[s] # NoId => row \in OwnItem
    <3>1. s \in Slots /\ scan.buffer[s] \in OwnToken
      BY <2>1 DEF TypeInv, Scan
    <3>2. slotToId[s] \in Ids \union {NoId}
      BY <3>1 DEF TypeInv, TypeOK
    <3> QED
      BY <3>1, <3>2 DEF OwnItem
  <2>5. scan'.buffer \in [Slots -> OwnToken] /\ scan'.found \subseteq OwnItem
    <3>1. scan.buffer \in [Slots -> OwnToken] /\ scan.found \subseteq OwnItem
      BY <2>1 DEF TypeInv
    <3> HIDE DEF OwnItem, OwnToken, row
    <3> QED
      BY <2>3, <2>4, <3>1
  <2>6. TypeOK'
    BY <1>0, <2>1 DEF TypeInv, TypeOK, mainVars, sharedVars, Active, Ids, Prompts
  <2> QED
    BY <1>0, <2>1, <2>5, <2>6 DEF TypeInv, mainVars, sharedVars, Typed, HasBuffer
<1>9. CASE BgEmitDecode
  <2>1. /\ Emit(scan.found) /\ scan.found \subseteq OwnItem
        /\ UNCHANGED <<mainVars, sharedVars>>
    BY <1>9 DEF BgEmitDecode, TypeInv
  <2>2. /\ \A id \in Ids : tokens'[id] \in Seq(OwnToken)
        /\ completed' \subseteq Ids
        /\ bg' \in {"get", "free"}
        /\ toFree' \subseteq Slots /\ (toFree' # {} <=> bg' = "free")
    BY <2>1, TypesOfEmit
  <2>3. TypeOK'
    BY <1>0, <2>1, <2>2 DEF TypeInv, TypeOK, OwnToken, mainVars, sharedVars, Active, Prompts
  <2> QED
    BY <1>0, <2>1, <2>2, <2>3 DEF TypeInv, mainVars, sharedVars, Typed, HasBuffer
<1>10. CASE BgFree
  <2>1. PICK s \in toFree : /\ slotToId' = [slotToId EXCEPT ![s] = NoId]
                           /\ empty' = empty \union {s}
                           /\ toFree' = toFree \ {s}
                           /\ bg' = IF toFree = {s} THEN "get" ELSE "free"
    BY <1>10 DEF BgFree, Released
  <2>2. UNCHANGED <<scan, tokens, completed, mainVars, keys, queue>>
    BY <1>10 DEF BgFree
  <2>3. /\ empty' \subseteq Slots /\ toFree' \subseteq Slots
        /\ (toFree' # {} <=> bg' = "free") /\ bg' \in {"get", "free"}
    BY <2>1 DEF TypeInv, TypeOK
  <2>4. slotToId' \in [Slots -> Ids \union {NoId}] /\ Active' \subseteq keys
    BY <2>1, <2>3 DEF TypeInv, TypeOK, Active
  <2>5. TypeOK'
    BY <1>0, <2>2, <2>3, <2>4 DEF TypeInv, TypeOK, mainVars, Ids, Prompts
  <2> QED
    BY <1>0, <2>2, <2>3, <2>5 DEF TypeInv, mainVars, Typed, HasBuffer
<1>11. CASE BgRaise \/ BgExit
  <2>1. /\ UNCHANGED <<scan, toFree, tokens, completed, mainVars, sharedVars>>
        /\ bg' \in {"killed", "ended"} /\ bg \in {"scan", "get"}
    BY <1>11 DEF BgRaise, BgExit
  <2>2. TypeOK'
    BY <1>0, <2>1 DEF TypeInv, TypeOK, mainVars, sharedVars, Active, Ids, Prompts
  <2> QED
    BY <1>0, <2>1, <2>2 DEF TypeInv, mainVars, sharedVars, Typed, HasBuffer
<1>12. CASE UNCHANGED vars
  <2>1. TypeOK'
    BY <1>0, <1>12 DEF TypeInv, TypeOK, vars, mainVars, bgVars, sharedVars, Active, Ids, Prompts
  <2> QED
    BY <1>0, <1>12, <2>1 DEF TypeInv, vars, mainVars, bgVars, sharedVars, Typed, HasBuffer
<1> QED
  BY <1>1, <1>2, <1>3, <1>4, <1>6, <1>7, <1>8, <1>9, <1>10, <1>11, <1>12
     DEF Next, Main, Background

(* PrepareData, row by row: the prompts, in some order, padded to what holds them. *)
LEMMA PreparedRows ==
  ASSUME NEW w \in Workloads, NEW rows \in PrepareData(w)
  PROVE  /\ w.lengths \in Seq(1 .. MaxPrefill)
         /\ rows \in [1 .. Len(w.lengths) ->
                        {PadData(w.lengths)[i] : i \in 1 .. Len(w.lengths)}]
         /\ \A i \in 1 .. Len(w.lengths) :
              /\ PadData(w.lengths)[i].id = i
              /\ PadData(w.lengths)[i].len \in 1 .. MaxPrefill
              /\ PadData(w.lengths)[i].pad \in Paddings
              /\ PadData(w.lengths)[i].len <= PadData(w.lengths)[i].pad
         /\ \/ \A i, j \in 1 .. Len(w.lengths) : i < j => Before(rows[i], rows[j])
            \/ rows = PadData(w.lengths)
<1> DEFINE padded == PadData(w.lengths)
           P == 1 .. Len(w.lengths)
<1>1. w.lengths \in Seq(1 .. MaxPrefill) /\ MaxPrefill \in Nat /\ DOMAIN w.lengths = P
  BY BatchingAssumption DEF BatchingAssumption
<1>2. ASSUME NEW i \in P
      PROVE  /\ padded[i].id = i /\ padded[i].len \in 1 .. MaxPrefill
             /\ padded[i].pad \in Paddings /\ padded[i].len <= padded[i].pad
  <2>1. w.lengths[i] \in 1 .. MaxPrefill
    BY <1>1
  <2> DEFINE pad == CHOOSE l \in Paddings : IsPadding(l, w.lengths[i])
  <2>2. pad \in Paddings /\ IsPadding(pad, w.lengths[i])
    BY <2>1, BatchingAssumption DEF BatchingAssumption
  <2>3. padded[i] = [id |-> i, len |-> w.lengths[i], pad |-> pad]
    BY <1>1 DEF PadData
  <2>4. pad >= w.lengths[i]
    BY <2>2 DEF IsPadding
  <2> HIDE DEF pad, padded
  <2>5. pad \in Nat
    BY <2>2, PaddingsAreNat
  <2> QED
    BY <2>1, <2>2, <2>3, <2>4, <2>5
<1>3. DOMAIN padded = P /\ padded = [i \in P |-> padded[i]]
  BY <1>1 DEF PadData
<1> DEFINE R == {padded[i] : i \in P}
<1>4. rows \in [P -> R] /\ ((\A i, j \in P : i < j => Before(rows[i], rows[j])) \/ rows = padded)
  <2>1. CASE w.batch
    <3>1. rows \in {d \in [DOMAIN padded -> {padded[i] : i \in DOMAIN padded}] :
                      \A i, j \in DOMAIN d : i < j => Before(d[i], d[j])}
      BY <2>1 DEF PrepareData
    <3> HIDE DEF padded
    <3> QED
      BY <3>1, <1>3
  <2>2. CASE ~w.batch
    <3>1. rows = padded
      BY <2>2 DEF PrepareData
    <3> HIDE DEF padded
    <3> QED
      BY <3>1, <1>3
  <2> QED
    BY <2>1, <2>2
<1> QED
  BY <1>1, <1>2, <1>4

LEMMA TypesAtStart == Init => TypeInv
<1> SUFFICES ASSUME Init PROVE TypeInv
  OBVIOUS
<1>1. PICK w \in Workloads : /\ batch = w.batch /\ data \in PrepareData(w)
                            /\ tokens = [i \in DOMAIN w.lengths |-> <<>>]
  BY DEF Init
<1> DEFINE n == Len(w.lengths)
           padded == PadData(w.lengths)
<1>2. /\ w.lengths \in Seq(1 .. MaxPrefill)
      /\ data \in [1 .. n -> {padded[i] : i \in 1 .. n}]
      /\ \A i \in 1 .. n :
           /\ padded[i].id = i /\ padded[i].len \in 1 .. MaxPrefill
           /\ padded[i].pad \in Paddings /\ padded[i].len <= padded[i].pad
  BY <1>1, PreparedRows
<1>3. n \in Nat /\ Ids = 1 .. n
  BY <1>1, <1>2 DEF Ids
<1>4. \A i \in 1 .. n : padded[i] \in Prompts
  <2> DEFINE pad(i) == CHOOSE l \in Paddings : IsPadding(l, w.lengths[i])
  <2>1. \A i \in 1 .. n : padded[i] = [id |-> i, len |-> w.lengths[i], pad |-> pad(i)]
    BY <1>2 DEF PadData
  <2> HIDE DEF padded, pad, n
  <2>2. ASSUME NEW i \in 1 .. n
        PROVE  padded[i] \in Prompts
    <3>1. PICK len, l : padded[i] = [id |-> i, len |-> len, pad |-> l]
      BY <2>1
    <3>2. len = padded[i].len /\ l = padded[i].pad
      BY <3>1
    <3>3. len \in 1 .. MaxPrefill /\ l \in Paddings /\ i \in Ids
      BY <1>2, <1>3, <3>2
    <3>4. [id |-> i, len |-> len, pad |-> l] \in Prompts
      BY <3>3 DEF Prompts
    <3> QED
      BY <3>1, <3>4
  <2> QED
    BY <2>2
<1> HIDE DEF padded, n
<1>5. data \in Seq(Prompts) /\ \A i \in 1 .. Len(data) : data[i].len <= data[i].pad
  <2>1. data \in [1 .. n -> Prompts]
    BY <1>2, <1>4
  <2>2. Len(data) = n
    <3> HIDE DEF Prompts
    <3> QED
      BY <1>3, <2>1
  <2>3. \A i \in 1 .. n : data[i].len <= data[i].pad
    BY <1>2
  <2> HIDE DEF Prompts
  <2> QED
    BY <1>3, <2>1, <2>2, <2>3
<1>6. w.batch \in BOOLEAN /\ 0 \in 0 .. MinDecodeSteps /\ 0 \in 0 .. MaxAge /\ MaxQueue \in Nat
  BY BatchingAssumption DEF BatchingAssumption
<1>7. PICK e : e = <<>>
  OBVIOUS
<1>8. \A S : e \in Seq(S) /\ Len(e) = 0
  BY <1>7
<1>9. \A id \in Ids : tokens[id] = e
  BY <1>1, <1>7 DEF Ids
<1>10. \A p \in Paddings : buckets[p] = e
  BY <1>7 DEF Init
<1>11. queue = e
  BY <1>7 DEF Init
<1>12. device \in [Slots -> (Ids \union {NoId}) \X (0 .. MaxAge)]
  BY <1>6 DEF Init, Garbage
<1>13. \A p \in Paddings :
         buckets[p] \in Seq([id : Ids, slot : Slots, len : 1 .. p, pad : {p}])
  BY <1>8, <1>10
<1>14. \A id \in Ids : tokens[id] \in Seq((Ids \union {NoId}) \X (0 .. MaxAge))
  BY <1>8, <1>9
<1>15. batch \in BOOLEAN /\ Len(queue) = 0
  BY <1>1, <1>6, <1>8, <1>11
<1> HIDE DEF Prompts
<1>16. TypeOK
  BY <1>5, <1>6, <1>12, <1>13, <1>14, <1>15 DEF Init, TypeOK, Active
<1>17. Ids \subseteq Nat \ {0} /\ bg # "scan" /\ 1 .. Len(queue) = {}
  BY <1>3, <1>15 DEF Init
<1> QED
  BY <1>5, <1>16, <1>17 DEF TypeInv

(* The types of the call: tasks, slots and tokens are those of its prompts,    *)
(* and no more tasks wait than there is room for, for any workload.            *)
THEOREM BatchingTypeOK == Spec => []TypeOK
<1>1. TypeInv => TypeOK
  BY DEF TypeInv
<1> QED
  BY <1>1, TypesAtStart, TypesKept, SlotsAtStart, SlotsKept, TasksAtStart, TasksKept, PTL
     DEF Spec

-----------------------------------------------------------------------------
(* The tokens on their way to a prompt                                         *)

(* What the device decoded and will decode, in order: the task being scanned   *)
(* at place 0, the queue at its places, the device after it. The tasks of      *)
(* prefills are at places without a buffer.                                    *)
Places == 0 .. Len(queue) + 1
HasTokens(i) ==
  \/ i = 0 /\ bg = "scan"
  \/ i \in 1 .. Len(queue) /\ HasBuffer(queue[i])
  \/ i = Len(queue) + 1
TokensAt(i) ==
  IF i = 0 THEN scan.buffer ELSE IF i <= Len(queue) THEN queue[i].buffer ELSE device

(* The next tokens after place i are those at j.                               *)
Follows(i, j) == i < j /\ HasTokens(j) /\ \A k \in i + 1 .. j - 1 : ~HasTokens(k)

HasItem(p, x) ==
  p \in 1 .. Len(queue) /\ ~HasBuffer(queue[p]) /\ \E item \in queue[p].items : item.id = x

NextToken(t) == <<t[1], IF t[2] < MaxAge THEN t[2] + 1 ELSE MaxAge>>

(* A prompt's results s: none of its own, or its own to the end, in order.     *)
NoneOf(s, x) == \A i \in 1 .. Len(s) : s[i][1] # x
EndsWith(s, x) == Len(s) > 0 /\ s[Len(s)][1] = x
Consecutive(s, x) ==
  \A i, j \in 1 .. Len(s) : i < j /\ s[i][1] = x => s[j] = <<x, s[i][2] + (j - i)>>
LastOf(x) == tokens[x][Len(tokens[x])]
Started(x) == EndsWith(tokens[x], x)
Unstarted(x) == NoneOf(tokens[x], x)

(* While a slot has a prompt, the device goes on with it token by token.       *)
LinkInv ==
  \A s \in Slots, x \in Ids : slotToId[s] = x =>
    \A i, j \in Places :
      HasTokens(i) /\ Follows(i, j) /\ TokensAt(i)[s][1] = x =>
        TokensAt(j)[s] = NextToken(TokensAt(i)[s])

(* A prompt is prefilled once; before its first token there are none of its    *)
(* own, and the next one is its second.                                        *)
ItemInv ==
  /\ \A p \in 1 .. Len(queue) : ~HasBuffer(queue[p]) =>
       \A item \in queue[p].items : item.token = FirstToken(item.id)
  /\ \A p \in Places, x \in Ids : HasItem(p, x) =>
       /\ Unstarted(x)
       /\ \A q \in Places : HasItem(q, x) => q = p
       /\ \A s \in Slots : slotToId[s] = x =>
            /\ \A j \in Places : j < p /\ HasTokens(j) => TokensAt(j)[s][1] # x
            /\ \A j \in Places : Follows(p, j) => TokensAt(j)[s] = <<x, 1>>

(* A prompt in a slot waits for its first token, or has some of its own and    *)
(* the slot's next one continues them.                                         *)
ActiveInv ==
  \A s \in Slots, x \in Ids : slotToId[s] = x /\ x \notin completed =>
    \/ \E p \in Places : HasItem(p, x)
    \/ /\ Started(x)
       /\ \A j \in Places : Follows(-1, j) => TokensAt(j)[s] = NextToken(LastOf(x))
       /\ bg = "scan" =>
            \/ s \in scan.left
            \/ [slot |-> s, id |-> x, token |-> scan.buffer[s]] \in scan.found

OneSlotInv ==
  \A s, r \in Slots, x \in Ids : slotToId[s] = x /\ slotToId[r] = x => s = r

(* What a scan found continues its prompt, or is not of that prompt.           *)
FoundInv ==
  bg = "scan" =>
    \A item \in scan.found :
      /\ item.token = scan.buffer[item.slot] /\ item.id \notin completed
      /\ \A s \in Slots : slotToId[s] = item.id => s = item.slot
      /\ \/ Started(item.id) /\ item.token = NextToken(LastOf(item.id))
         \/ Unstarted(item.id) /\ item.token[1] # item.id

OwnInv ==
  \A x \in Ids :
    /\ Unstarted(x) \/ (Started(x) /\ LastOf(x)[2] < Len(tokens[x]))
    /\ Consecutive(tokens[x], x)

OnTheWay == LinkInv /\ ItemInv /\ ActiveInv /\ OneSlotInv /\ FoundInv

(* A process that was killed gives no more tokens.                             *)
StreamInv == OwnInv /\ (bg # "killed" => OnTheWay)

(* A prompt that was not prefilled yet is nowhere on the way.                  *)
Fresh(x) ==
  /\ \A s \in Slots : slotToId[s] # x
  /\ \A i \in Places, s \in Slots : HasTokens(i) => TokensAt(i)[s][1] # x
  /\ \A p \in Places : ~HasItem(p, x)
  /\ tokens[x] = <<>> /\ x \notin completed
  /\ bg = "scan" => \A item \in scan.found : item.id # x

IdsOf(rows) == {rows[i].id : i \in DOMAIN rows}

(* The prompts that have a row still.                                          *)
Pending(x) ==
  \/ \E i \in 1 .. Len(data) : data[i].id = x
  \/ \E p \in Paddings : \E i \in 1 .. Len(buckets[p]) : buckets[p][i].id = x

FreshInv == \A x : Pending(x) => Fresh(x)

(* Each prompt has one row.                                                    *)
DistinctInv ==
  /\ \A i, j \in 1 .. Len(data) : data[i].id = data[j].id => i = j
  /\ \A p, q \in Paddings :
       \A i \in 1 .. Len(buckets[p]), j \in 1 .. Len(buckets[q]) :
         buckets[p][i].id = buckets[q][j].id => p = q /\ i = j
  /\ \A p \in Paddings : \A i \in 1 .. Len(buckets[p]), j \in 1 .. Len(data) :
       buckets[p][i].id # data[j].id

-----------------------------------------------------------------------------
(* The results of one prompt, token by token.                                  *)

LEMMA FirstOwn ==
  ASSUME NEW s \in Seq(Token), NEW x, NoneOf(s, x)
  PROVE  LET t == Append(s, FirstToken(x))
         IN  /\ EndsWith(t, x) /\ t[Len(t)] = <<x, 0>> /\ 0 < Len(t)
             /\ Consecutive(t, x)
<1> DEFINE t == Append(s, FirstToken(x))
<1>1. /\ Len(s) \in Nat /\ Len(t) = Len(s) + 1 /\ t[Len(s) + 1] = <<x, 0>>
      /\ \A i \in 1 .. Len(s) : t[i] = s[i]
  <2> HIDE DEF Token
  <2> QED
    BY DEF FirstToken
<1> HIDE DEF t
<1>2. EndsWith(t, x) /\ t[Len(t)] = <<x, 0>> /\ 0 < Len(t)
  BY <1>1 DEF EndsWith
<1>3. ASSUME NEW i \in 1 .. Len(t), NEW j \in 1 .. Len(t), i < j
      PROVE  t[i][1] # x
  BY <1>1, <1>3 DEF NoneOf
<1>4. Consecutive(t, x)
  BY <1>3 DEF Consecutive
<1> QED
  BY <1>2, <1>4 DEF t

LEMMA NextOwn ==
  ASSUME NEW s \in Seq(Token), NEW x, EndsWith(s, x), Consecutive(s, x),
         s[Len(s)][2] < Len(s), Len(s) < MaxDecode
  PROVE  LET t == Append(s, NextToken(s[Len(s)]))
         IN  /\ EndsWith(t, x) /\ t[Len(t)] = NextToken(s[Len(s)])
             /\ t[Len(t)][2] < Len(t) /\ Consecutive(t, x)
<1> DEFINE e == NextToken(s[Len(s)])
           t == Append(s, e)
<1>0. MaxAge \in Nat /\ MaxAge > MaxDecode /\ MaxDecode \in Nat
  BY BatchingAssumption DEF BatchingAssumption
<1>1. Len(s) \in Nat /\ Len(s) \in 1 .. Len(s) /\ \A i \in 1 .. Len(s) : s[i] \in Token
  <2> HIDE DEF Token
  <2> QED
    BY DEF EndsWith
<1>2. s[Len(s)] \in Token /\ s[Len(s)][1] = x /\ s[Len(s)][2] \in Nat
  BY <1>1 DEF Token, EndsWith
<1>3. e = <<x, s[Len(s)][2] + 1>>
  BY <1>0, <1>1, <1>2 DEF NextToken
<1>4. /\ Len(t) = Len(s) + 1 /\ t[Len(s) + 1] = e
      /\ \A i \in 1 .. Len(s) : t[i] = s[i]
  <2> DEFINE n == s[Len(s)][2] + 1
  <2>1. e \in {x} \X Nat
    BY <1>2, <1>3
  <2> HIDE DEF e, Token
  <2> QED
    BY <1>1
<1> HIDE DEF t, e
<1>5. EndsWith(t, x) /\ t[Len(t)] = e /\ t[Len(t)][2] < Len(t)
  BY <1>1, <1>2, <1>3, <1>4 DEF EndsWith
<1>6. ASSUME NEW i \in 1 .. Len(t), NEW j \in 1 .. Len(t), i < j, t[i][1] = x
      PROVE  t[j] = <<x, t[i][2] + (j - i)>>
  <2>1. i \in 1 .. Len(s) /\ s[i] = t[i] /\ s[i] \in Token
    BY <1>1, <1>4, <1>6
  <2>2. s[i][2] \in Nat
    BY <2>1 DEF Token
  <2>3. CASE j \in 1 .. Len(s)
    BY <1>4, <1>6, <2>1, <2>3 DEF Consecutive
  <2>4. CASE j = Len(s) + 1 /\ i < Len(s)
    <3>1. s[Len(s)] = <<x, s[i][2] + (Len(s) - i)>>
      BY <1>1, <1>6, <2>1, <2>4 DEF Consecutive
    <3>2. s[Len(s)][2] = s[i][2] + (Len(s) - i)
      <4> DEFINE k == s[i][2] + (Len(s) - i)
      <4>1. s[Len(s)] = <<x, k>>
        BY <3>1
      <4> HIDE DEF k
      <4>2. s[Len(s)][2] = k
        BY <4>1
      <4> QED
        BY <4>2 DEF k
    <3>3. s[Len(s)][2] + 1 = s[i][2] + (j - i)
      <4>1. PICK a \in Nat, b \in Nat, n \in Nat :
              a = s[i][2] /\ b = s[Len(s)][2] /\ n = Len(s)
        BY <1>1, <1>2, <2>2
      <4>2. b = a + (n - i) /\ j = n + 1 /\ i \in Nat
        BY <2>1, <2>4, <3>2, <4>1
      <4>3. \A m \in Int : b = a + (n - m) => b + 1 = a + ((n + 1) - m)
        OBVIOUS
      <4>4. b + 1 = a + (j - i)
        BY <4>2, <4>3
      <4> QED
        BY <4>1, <4>4
    <3> QED
      BY <1>3, <1>4, <2>1, <2>4, <3>3
  <2>5. CASE j = Len(s) + 1 /\ i = Len(s)
    <3>1. j - i = 1
      BY <1>1, <2>5
    <3> QED
      BY <1>3, <1>4, <2>1, <2>5, <3>1
  <2> QED
    BY <1>1, <1>4, <2>1, <2>3, <2>4, <2>5
<1>7. Consecutive(t, x)
  BY <1>6 DEF Consecutive
<1> QED
  BY <1>5, <1>7 DEF t, e

LEMMA ForeignToken ==
  ASSUME NEW s \in Seq(Token), NEW x, NEW e \in Token, NoneOf(s, x), e[1] # x
  PROVE  NoneOf(Append(s, e), x)
<1> DEFINE t == Append(s, e)
<1>1. /\ Len(s) \in Nat /\ Len(t) = Len(s) + 1 /\ t[Len(s) + 1] = e
      /\ \A i \in 1 .. Len(s) : t[i] = s[i]
  <2> HIDE DEF Token
  <2> QED
    OBVIOUS
<1> HIDE DEF t
<1> QED
  BY <1>1 DEF NoneOf, t

LEMMA NoneIsConsecutive ==
  ASSUME NEW s, NEW x, NoneOf(s, x)
  PROVE  Consecutive(s, x)
BY DEF NoneOf, Consecutive

-----------------------------------------------------------------------------
(* The places of a queue that gets a task, or loses one.                       *)

LEMMA AddedTokens ==
  ASSUME queue \in Seq(Task), NEW task \in Task, queue' = Append(queue, task),
         UNCHANGED <<bg, scan>>
  PROVE  /\ Len(queue) \in Nat /\ Len(queue') = Len(queue) + 1
         /\ queue'[Len(queue) + 1] = task
         /\ \A i \in 1 .. Len(queue) : queue'[i] = queue[i]
         /\ \A i \in 0 .. Len(queue) :
              (HasTokens(i)' <=> HasTokens(i)) /\ TokensAt(i)' = TokensAt(i)
         /\ HasTokens(Len(queue) + 1) /\ TokensAt(Len(queue) + 1) = device
         /\ \A i : i = Len(queue) + 1 =>
              /\ HasTokens(i)' <=> HasBuffer(task)
              /\ HasBuffer(task) => TokensAt(i)' = task.buffer
         /\ \A i : i = Len(queue) + 2 => HasTokens(i)' /\ TokensAt(i)' = device'
         /\ \A x : \A p \in 1 .. Len(queue) : HasItem(p, x)' <=> HasItem(p, x)
         /\ \A p, x : p = Len(queue) + 1 =>
              (HasItem(p, x)' <=> ~HasBuffer(task) /\ \E item \in task.items : item.id = x)
<1> DEFINE n == Len(queue)
<1>1. /\ n \in Nat /\ Len(queue') = n + 1 /\ queue'[n + 1] = task
      /\ \A i \in 1 .. n : queue'[i] = queue[i]
  <2> HIDE DEF Task
  <2> QED
    BY AddedPlaces
<1>2. \A i \in 0 .. n : (HasTokens(i)' <=> HasTokens(i)) /\ TokensAt(i)' = TokensAt(i)
  BY <1>1 DEF HasTokens, TokensAt, HasBuffer
<1>3. HasTokens(n + 1) /\ TokensAt(n + 1) = device
  BY <1>1 DEF HasTokens, TokensAt
<1>4. ASSUME NEW i, i = n + 1
      PROVE  (HasTokens(i)' <=> HasBuffer(task)) /\ (HasBuffer(task) => TokensAt(i)' = task.buffer)
  BY <1>1, <1>4 DEF HasTokens, TokensAt, HasBuffer
<1>5. ASSUME NEW i, i = n + 2
      PROVE  HasTokens(i)' /\ TokensAt(i)' = device'
  BY <1>1, <1>5 DEF HasTokens, TokensAt
<1>6. ASSUME NEW x, NEW p \in 1 .. n
      PROVE  HasItem(p, x)' <=> HasItem(p, x)
  BY <1>1, <1>6 DEF HasItem, HasBuffer
<1>7. ASSUME NEW x, NEW p, p = n + 1
      PROVE  HasItem(p, x)' <=> ~HasBuffer(task) /\ \E item \in task.items : item.id = x
  BY <1>1, <1>7 DEF HasItem, HasBuffer
<1> QED
  BY <1>1, <1>2, <1>3, <1>4, <1>5, <1>6, <1>7

(* Before what is added, the next tokens are at the same place.                *)
LEMMA FollowsAdded ==
  ASSUME queue \in Seq(Task), NEW task \in Task, queue' = Append(queue, task),
         UNCHANGED <<bg, scan>>, NEW i \in -1 .. Len(queue), NEW j \in Places', Follows(i, j)'
  PROVE  \/ j \in 0 .. Len(queue) /\ Follows(i, j)
         \/ HasBuffer(task) /\ j = Len(queue) + 1 /\ Follows(i, Len(queue) + 1)
         \/ ~HasBuffer(task) /\ j = Len(queue) + 2 /\ Follows(i, Len(queue) + 1)
<1> DEFINE n == Len(queue)
<1>1. /\ n \in Nat /\ Len(queue') = n + 1
      /\ \A k \in 0 .. n : HasTokens(k)' <=> HasTokens(k)
      /\ HasTokens(n + 1)
      /\ \A k : k = n + 1 => (HasTokens(k)' <=> HasBuffer(task))
      /\ \A k : k = n + 2 => HasTokens(k)'
  BY AddedTokens
<1>2. i < j /\ HasTokens(j)' /\ \A k \in i + 1 .. j - 1 : ~HasTokens(k)'
  BY DEF Follows
<1>3. j \in 0 .. n + 2
  BY <1>1 DEF Places
<1>4. CASE j \in 0 .. n
  <2>1. \A k \in i + 1 .. j - 1 : k \in 0 .. n
    BY <1>1, <1>4
  <2>2. Follows(i, j)
    BY <1>1, <1>2, <1>4, <2>1 DEF Follows
  <2> QED
    BY <1>4, <2>2
<1>5. ASSUME \A k \in i + 1 .. n : ~HasTokens(k)
      PROVE  Follows(i, n + 1)
  BY <1>1, <1>5 DEF Follows
<1>6. CASE j = n + 1
  <2>1. \A k \in i + 1 .. n : k \in 0 .. n /\ k \in i + 1 .. j - 1
    BY <1>1, <1>6
  <2>2. Follows(i, n + 1)
    BY <1>1, <1>2, <1>5, <2>1
  <2> QED
    BY <1>1, <1>2, <1>6, <2>2
<1>7. CASE j = n + 2
  <2>1. \A k \in i + 1 .. n : k \in 0 .. n /\ k \in i + 1 .. j - 1
    BY <1>1, <1>7
  <2>2. Follows(i, n + 1)
    BY <1>1, <1>2, <1>5, <2>1
  <2>3. n + 1 \in i + 1 .. j - 1
    BY <1>1, <1>7
  <2> QED
    BY <1>1, <1>2, <1>7, <2>2, <2>3
<1> QED
  BY <1>1, <1>3, <1>4, <1>6, <1>7

(* The first task is taken; one with a buffer is scanned next.                 *)
Taken ==
  /\ bg = "get" /\ queue \in Seq(Task) /\ queue # <<>> /\ queue' = Tail(queue)
  /\ bg' = "scan" <=> HasBuffer(queue[1])
  /\ bg' = "scan" => scan'.buffer = queue[1].buffer
  /\ device' = device

LEMMA TakenTokens ==
  ASSUME Taken
  PROVE  /\ Len(queue) \in Nat \ {0} /\ Len(queue') = Len(queue) - 1
         /\ \A i \in 1 .. Len(queue) - 1 : queue'[i] = queue[i + 1]
         /\ ~HasTokens(0)
         /\ \A i \in 0 .. Len(queue) :
              /\ HasTokens(i)' <=> HasTokens(i + 1)
              /\ HasTokens(i)' => TokensAt(i)' = TokensAt(i + 1)
         /\ \A x : \A p \in 1 .. Len(queue) - 1 : HasItem(p, x)' <=> HasItem(p + 1, x)
<1> DEFINE n == Len(queue)
<1>1. /\ n \in Nat \ {0} /\ Len(queue') = n - 1
      /\ \A i \in 1 .. n - 1 : queue'[i] = queue[i + 1]
  <2> HIDE DEF Task
  <2> QED
    BY TakenPlaces DEF Taken
<1>2. ~HasTokens(0)
  BY <1>1 DEF HasTokens, Taken
<1>3. ASSUME NEW i \in 0 .. n
      PROVE  /\ HasTokens(i)' <=> HasTokens(i + 1)
             /\ HasTokens(i)' => TokensAt(i)' = TokensAt(i + 1)
  <2>1. CASE i = 0
    BY <1>1, <2>1 DEF HasTokens, TokensAt, Taken
  <2>2. CASE i \in 1 .. n - 1
    BY <1>1, <2>2 DEF HasTokens, TokensAt, HasBuffer
  <2>3. CASE i = n
    BY <1>1, <2>3 DEF HasTokens, TokensAt, Taken
  <2> QED
    BY <1>1, <2>1, <2>2, <2>3
<1>4. ASSUME NEW x, NEW p \in 1 .. n - 1
      PROVE  HasItem(p, x)' <=> HasItem(p + 1, x)
  BY <1>1 DEF HasItem, HasBuffer
<1> QED
  BY <1>1, <1>2, <1>3, <1>4

LEMMA FollowsTaken ==
  ASSUME Taken, NEW i \in -1 .. Len(queue), NEW j \in Places', Follows(i, j)'
  PROVE  /\ j \in 0 .. Len(queue) /\ j + 1 \in Places
         /\ Follows(i + 1, j + 1)
         /\ i = -1 => Follows(-1, j + 1)
<1> DEFINE n == Len(queue)
<1>1. /\ n \in Nat \ {0} /\ Len(queue') = n - 1 /\ ~HasTokens(0)
      /\ \A k \in 0 .. n : HasTokens(k)' <=> HasTokens(k + 1)
  BY TakenTokens
<1>2. j \in 0 .. n /\ j + 1 \in Places
  BY <1>1 DEF Places
<1>3. i < j /\ HasTokens(j)' /\ \A k \in i + 1 .. j - 1 : ~HasTokens(k)'
  BY DEF Follows
<1>4. ASSUME NEW k \in i + 2 .. j
      PROVE  ~HasTokens(k)
  <2>1. k - 1 \in i + 1 .. j - 1 /\ k - 1 \in 0 .. n /\ (k - 1) + 1 = k
    BY <1>2, <1>4
  <2>2. ~HasTokens(k - 1)'
    BY <1>3, <2>1
  <2> QED
    BY <1>1, <2>1, <2>2
<1>5. i + 1 < j + 1 /\ HasTokens(j + 1)
  BY <1>1, <1>2, <1>3
<1>6. Follows(i + 1, j + 1)
  BY <1>2, <1>4, <1>5 DEF Follows
<1>7. ASSUME i = -1
      PROVE  Follows(-1, j + 1)
  <2>1. \A k \in 0 .. j : ~HasTokens(k)
    BY <1>1, <1>2, <1>4, <1>7
  <2> QED
    BY <1>2, <1>5, <2>1 DEF Follows
<1> QED
  BY <1>2, <1>6, <1>7

(* The scan is over: its tokens are given, and the next ones are in the queue. *)
LEMMA GivenTokens ==
  ASSUME queue \in Seq(Task), UNCHANGED <<queue, device>>, bg = "scan", bg' # "scan"
  PROVE  /\ Len(queue) \in Nat /\ HasTokens(0) /\ ~HasTokens(0)' /\ Places' = Places
         /\ \A i \in 1 .. Len(queue) + 1 :
              (HasTokens(i)' <=> HasTokens(i)) /\ TokensAt(i)' = TokensAt(i)
         /\ \A x, p : HasItem(p, x)' <=> HasItem(p, x)
         /\ \A i, j \in Places : Follows(i, j)' => Follows(i, j)
         /\ \A j \in Places : Follows(-1, j)' => j > 0 /\ Follows(0, j)
<1> DEFINE n == Len(queue)
<1>1. n \in Nat /\ Places' = Places
  <2> HIDE DEF Task
  <2> QED
    BY DEF Places
<1>2. HasTokens(0) /\ ~HasTokens(0)'
  BY <1>1 DEF HasTokens
<1>3. ASSUME NEW i \in 1 .. n + 1
      PROVE  (HasTokens(i)' <=> HasTokens(i)) /\ TokensAt(i)' = TokensAt(i)
  BY <1>1 DEF HasTokens, TokensAt, HasBuffer
<1>4. \A x, p : HasItem(p, x)' <=> HasItem(p, x)
  BY DEF HasItem, HasBuffer
<1>5. ASSUME NEW i \in -1 .. n + 1, NEW j \in Places, Follows(i, j)'
      PROVE  j > 0 /\ (i >= 0 => Follows(i, j)) /\ (i = -1 => Follows(0, j))
  <2>1. i < j /\ HasTokens(j)' /\ \A k \in i + 1 .. j - 1 : ~HasTokens(k)'
    BY <1>5 DEF Follows
  <2>2. j # 0 /\ j \in 1 .. n + 1
    BY <1>1, <1>2, <2>1 DEF Places
  <2>3. ASSUME NEW k \in i + 1 .. j - 1, k > 0
        PROVE  ~HasTokens(k)
    <3>1. k \in 1 .. n + 1
      BY <1>1, <2>2, <2>3
    <3> QED
      BY <1>3, <2>1, <2>3, <3>1
  <2>4. i >= 0 => Follows(i, j)
    <3>1. i >= 0 => \A k \in i + 1 .. j - 1 : k > 0
      OBVIOUS
    <3> QED
      BY <1>3, <2>1, <2>2, <2>3, <3>1 DEF Follows
  <2>5. i = -1 => Follows(0, j)
    <3>1. \A k \in 1 .. j - 1 : i = -1 => k \in i + 1 .. j - 1 /\ k > 0
      BY <2>2
    <3> QED
      BY <1>3, <2>1, <2>2, <2>3, <3>1 DEF Follows
  <2> QED
    BY <2>2, <2>4, <2>5
<1>6. \A i, j \in Places : Follows(i, j)' => Follows(i, j)
  BY <1>1, <1>5 DEF Places
<1>7. \A j \in Places : Follows(-1, j)' => j > 0 /\ Follows(0, j)
  BY <1>1, <1>5
<1> QED
  BY <1>1, <1>2, <1>3, <1>4, <1>6, <1>7

-----------------------------------------------------------------------------
(* Rows are prefilled                                                          *)

(* Rows of prompts that were not prefilled yet, one of each.                   *)
FreshRows(rows) ==
  /\ rows \in Seq(Row)
  /\ \A i, j \in DOMAIN rows : rows[i].id = rows[j].id => i = j
  /\ \A i \in DOMAIN rows : rows[i].id \in Ids /\ Fresh(rows[i].id)

LEMMA FirstItemsIds ==
  ASSUME NEW rows, NEW x
  PROVE  (\E item \in FirstItems(rows) : item.id = x) <=> x \in IdsOf(rows)
<1>1. ASSUME NEW item \in FirstItems(rows), item.id = x
      PROVE  x \in IdsOf(rows)
  BY <1>1 DEF FirstItems, IdsOf
<1>2. ASSUME NEW i \in DOMAIN rows, x = rows[i].id
      PROVE  \E item \in FirstItems(rows) : item.id = x
  <2> DEFINE item == [slot |-> rows[i].slot, id |-> rows[i].id,
                      token |-> FirstToken(rows[i].id)]
  <2>1. item \in FirstItems(rows) /\ item.id = x
    BY <1>2 DEF FirstItems
  <2> QED
    BY <2>1
<1> QED
  BY <1>1, <1>2 DEF IdsOf

(* What a prefill changes, by slot: the device and the owner, or neither.      *)
LEMMA PrefillBySlot ==
  ASSUME TaskInv, SlotInv, NEW rows, FreshRows(rows), PrefillDone(rows), NEW s \in Slots
  PROVE  \/ slotToId'[s] = slotToId[s] /\ device'[s] = device[s]
         \/ \E i \in DOMAIN rows :
              /\ rows[i].slot = s /\ slotToId'[s] = rows[i].id
              /\ device'[s] = <<rows[i].id, 1>>
              /\ Fresh(rows[i].id) /\ rows[i].id \in Ids /\ rows[i].id \in IdsOf(rows)
<1>0. rows \in Seq(Row)
  BY DEF FreshRows
<1>1. /\ \A r \in Slots \ SlotsOf(rows) :
           device'[r] = device[r] /\ slotToId'[r] = slotToId[r]
      /\ \A r \in SlotsOf(rows) : \E i \in DOMAIN rows :
           /\ rows[i].slot = r
           /\ device'[r] = <<rows[i].id, 1>> /\ slotToId'[r] = rows[i].id
  BY <1>0, PrefillEffect
<1>2. \A i \in DOMAIN rows :
        Fresh(rows[i].id) /\ rows[i].id \in Ids /\ rows[i].id \in IdsOf(rows)
  BY DEF FreshRows, IdsOf
<1> QED
  BY <1>1, <1>2

LEMMA OnTheWayPrefilled ==
  ASSUME TaskInv, SlotInv, TypeInv, OnTheWay, NEW rows, FreshRows(rows), PrefillDone(rows),
         UNCHANGED <<bg, scan, tokens, completed>>
  PROVE  OnTheWay'
<1> DEFINE n == Len(queue)
           task == [items |-> FirstItems(rows)]
<1>0. rows \in Seq(Row)
  BY DEF FreshRows
<1>1. queue' = Append(queue, task) /\ queue \in Seq(Task) /\ task \in Task
  BY <1>0, PrefillEffect
<1>2. ~HasBuffer(task) /\ task.items = FirstItems(rows)
  BY DEF HasBuffer
<1>3. \A x : (\E item \in FirstItems(rows) : item.id = x) <=> x \in IdsOf(rows)
  BY FirstItemsIds
<1>4. \A x \in IdsOf(rows) : Fresh(x) /\ x \in Ids
  BY DEF IdsOf, FreshRows
<1> HIDE DEF task
<1>5. /\ n \in Nat /\ Len(queue') = n + 1 /\ queue'[n + 1] = task
      /\ \A i \in 1 .. n : queue'[i] = queue[i]
      /\ \A i \in 0 .. n : (HasTokens(i)' <=> HasTokens(i)) /\ TokensAt(i)' = TokensAt(i)
      /\ HasTokens(n + 1) /\ TokensAt(n + 1) = device
      /\ \A i : i = n + 1 => ~HasTokens(i)'
      /\ \A i : i = n + 2 => HasTokens(i)' /\ TokensAt(i)' = device'
      /\ \A x : \A p \in 1 .. n : HasItem(p, x)' <=> HasItem(p, x)
      /\ \A p, x : p = n + 1 => (HasItem(p, x)' <=> x \in IdsOf(rows))
  BY <1>1, <1>2, <1>3, AddedTokens
<1>6. \A i \in -1 .. n, j \in Places' : Follows(i, j)' =>
        \/ j \in 0 .. n /\ Follows(i, j)
        \/ j = n + 2 /\ Follows(i, n + 1)
  BY <1>1, <1>2, FollowsAdded
<1>7. \A s \in Slots :
        \/ slotToId'[s] = slotToId[s] /\ device'[s] = device[s]
        \/ \E i \in DOMAIN rows :
             /\ rows[i].slot = s /\ slotToId'[s] = rows[i].id
             /\ device'[s] = <<rows[i].id, 1>>
             /\ Fresh(rows[i].id) /\ rows[i].id \in Ids /\ rows[i].id \in IdsOf(rows)
  BY PrefillBySlot
<1>8. Places' = 0 .. n + 2 /\ Places = 0 .. n + 1
  BY <1>5 DEF Places
<1>9. \A p, x : HasItem(p, x)' => p \in 1 .. n + 1
  BY <1>5 DEF HasItem
<1>10. \A i, j : Follows(i, j)' => i < j
  BY DEF Follows
<1> HIDE DEF n
<1>11. LinkInv'
  <2>1. SUFFICES ASSUME NEW s \in Slots, NEW x \in Ids, slotToId'[s] = x,
                        NEW i \in Places', NEW j \in Places',
                        HasTokens(i)', Follows(i, j)', TokensAt(i)'[s][1] = x
                 PROVE  TokensAt(j)'[s] = NextToken(TokensAt(i)'[s])
    BY DEF LinkInv, NextToken, Ids
  <2>2. i \in 0 .. n /\ HasTokens(i) /\ TokensAt(i)' = TokensAt(i) /\ i \in Places
    BY <1>5, <1>8, <1>10, <2>1
  <2>3. slotToId[s] = x /\ device'[s] = device[s]
    BY <1>7, <2>1, <2>2 DEF Fresh
  <2>4. CASE j \in 0 .. n /\ Follows(i, j)
    <3>1. j \in Places /\ TokensAt(j)' = TokensAt(j)
      BY <1>5, <1>8, <2>4
    <3> QED
      BY <2>1, <2>2, <2>3, <2>4, <3>1 DEF OnTheWay, LinkInv
  <2>5. CASE j = n + 2 /\ Follows(i, n + 1)
    <3>1. n + 1 \in Places /\ TokensAt(j)' = device'
      BY <1>5, <1>8, <2>5
    <3>2. device[s] = NextToken(TokensAt(i)[s])
      BY <1>5, <2>1, <2>2, <2>3, <2>5, <3>1 DEF OnTheWay, LinkInv
    <3> QED
      BY <2>2, <2>3, <3>1, <3>2
  <2> QED
    BY <1>5, <1>6, <2>1, <2>2, <2>4, <2>5
<1>12. ItemInv'
  <2>1. ASSUME NEW p \in 1 .. n + 1, ~HasBuffer(queue'[p]), NEW item \in queue'[p].items
        PROVE  item.token = FirstToken(item.id)
    <3>1. CASE p = n + 1
      BY <1>2, <1>5, <2>1, <3>1 DEF FirstItems
    <3>2. CASE p \in 1 .. n
      BY <1>5, <2>1, <3>2 DEF OnTheWay, ItemInv, n
    <3> QED
      BY <1>5, <3>1, <3>2
  <2>2. ASSUME NEW p \in Places', NEW x \in Ids, HasItem(p, x)'
        PROVE  /\ Unstarted(x)
               /\ \A q \in Places' : HasItem(q, x)' => q = p
               /\ \A s \in Slots : slotToId'[s] = x =>
                    /\ \A j \in Places' : j < p /\ HasTokens(j)' => TokensAt(j)'[s][1] # x
                    /\ \A j \in Places' : Follows(p, j)' => TokensAt(j)'[s] = <<x, 1>>
    <3>1. p \in 1 .. n + 1
      BY <1>9, <2>2
    <3>2. CASE p = n + 1
      <4>1. x \in IdsOf(rows) /\ Fresh(x)
        BY <1>4, <1>5, <2>2, <3>2
      <4>2. Unstarted(x)
        <5>1. PICK e : e = <<>>
          OBVIOUS
        <5>2. tokens[x] = e /\ Len(e) = 0
          BY <4>1, <5>1 DEF Fresh
        <5> QED
          BY <5>2 DEF Unstarted, NoneOf
      <4>3. \A q \in Places' : HasItem(q, x)' => q = p
        BY <1>5, <1>8, <1>9, <3>2, <4>1 DEF Fresh
      <4>4. ASSUME NEW s \in Slots, slotToId'[s] = x
            PROVE  /\ \A j \in Places' : j < p /\ HasTokens(j)' => TokensAt(j)'[s][1] # x
                   /\ \A j \in Places' : Follows(p, j)' => TokensAt(j)'[s] = <<x, 1>>
        <5>1. device'[s] = <<x, 1>>
          BY <1>7, <4>1, <4>4 DEF Fresh
        <5>2. \A j \in Places' : j < p /\ HasTokens(j)' => TokensAt(j)'[s][1] # x
          BY <1>5, <1>8, <3>2, <4>1 DEF Fresh
        <5>3. \A j \in Places' : Follows(p, j)' => j = n + 2
          BY <1>5, <1>8, <1>10, <3>2
        <5> QED
          BY <1>5, <5>1, <5>2, <5>3
      <4> QED
        BY <4>2, <4>3, <4>4
    <3>3. CASE p \in 1 .. n
      <4>1. HasItem(p, x) /\ p \in Places
        BY <1>5, <1>8, <2>2, <3>3
      <4>2. Unstarted(x) /\ \A q \in Places : HasItem(q, x) => q = p
        BY <4>1 DEF OnTheWay, ItemInv
      <4>3. x \notin IdsOf(rows)
        BY <1>4, <4>1 DEF Fresh
      <4>4. \A q \in Places' : HasItem(q, x)' => q = p
        BY <1>5, <1>8, <1>9, <4>2, <4>3
      <4>5. ASSUME NEW s \in Slots, slotToId'[s] = x
            PROVE  /\ \A j \in Places' : j < p /\ HasTokens(j)' => TokensAt(j)'[s][1] # x
                   /\ \A j \in Places' : Follows(p, j)' => TokensAt(j)'[s] = <<x, 1>>
        <5>1. slotToId[s] = x /\ device'[s] = device[s]
          BY <1>7, <4>1, <4>5 DEF Fresh
        <5>2. /\ \A j \in Places : j < p /\ HasTokens(j) => TokensAt(j)[s][1] # x
              /\ \A j \in Places : Follows(p, j) => TokensAt(j)[s] = <<x, 1>>
          BY <4>1, <5>1 DEF OnTheWay, ItemInv
        <5>3. \A j \in Places' : j < p /\ HasTokens(j)' => TokensAt(j)'[s][1] # x
          BY <1>5, <1>8, <3>3, <5>2
        <5>4. ASSUME NEW j \in Places', Follows(p, j)'
              PROVE  TokensAt(j)'[s] = <<x, 1>>
          <6>1. CASE j \in 0 .. n /\ Follows(p, j)
            BY <1>5, <1>8, <5>2, <6>1
          <6>2. CASE j = n + 2 /\ Follows(p, n + 1)
            BY <1>5, <1>8, <5>1, <5>2, <6>2
          <6> QED
            BY <1>5, <1>6, <3>3, <5>4, <6>1, <6>2
        <5> QED
          BY <5>3, <5>4
      <4> QED
        BY <4>2, <4>4, <4>5
    <3> QED
      BY <1>5, <3>1, <3>2, <3>3
  <2>3. Ids' = Ids /\ \A x : Unstarted(x)' <=> Unstarted(x)
    BY DEF Ids, Unstarted, NoneOf
  <2>4. (\A p \in 1 .. Len(queue) : ~HasBuffer(queue[p]) =>
           \A item \in queue[p].items : item.token = FirstToken(item.id))'
    BY <1>5, <2>1 DEF HasBuffer, FirstToken
  <2>5. (\A p \in Places, x \in Ids : HasItem(p, x) =>
           /\ Unstarted(x)
           /\ \A q \in Places : HasItem(q, x) => q = p
           /\ \A s \in Slots : slotToId[s] = x =>
                /\ \A j \in Places : j < p /\ HasTokens(j) => TokensAt(j)[s][1] # x
                /\ \A j \in Places : Follows(p, j) => TokensAt(j)[s] = <<x, 1>>)'
    BY <2>2, <2>3
  <2> QED
    BY <2>4, <2>5 DEF ItemInv
<1>13. ActiveInv'
  <2>1. SUFFICES ASSUME NEW s \in Slots, NEW x \in Ids, slotToId'[s] = x, x \notin completed
                 PROVE  \/ \E p \in Places' : HasItem(p, x)'
                        \/ /\ Started(x)
                           /\ \A j \in Places' : Follows(-1, j)' =>
                                TokensAt(j)'[s] = NextToken(LastOf(x))
                           /\ bg = "scan" =>
                                \/ s \in scan.left
                                \/ [slot |-> s, id |-> x, token |-> scan.buffer[s]]
                                     \in scan.found
    BY DEF ActiveInv, Started, LastOf, NextToken, EndsWith, Ids
  <2>2. CASE slotToId[s] = x /\ device'[s] = device[s]
    <3>1. CASE \E p \in Places : HasItem(p, x)
      <4>1. PICK p \in Places : HasItem(p, x)
        BY <3>1
      <4>2. p \in 1 .. n /\ p \in Places'
        BY <1>5, <1>8, <4>1 DEF HasItem, n
      <4> QED
        BY <1>5, <4>1, <4>2
    <3>2. CASE ~ \E p \in Places : HasItem(p, x)
      <4>1. /\ Started(x)
            /\ \A j \in Places : Follows(-1, j) => TokensAt(j)[s] = NextToken(LastOf(x))
            /\ bg = "scan" =>
                 \/ s \in scan.left
                 \/ [slot |-> s, id |-> x, token |-> scan.buffer[s]] \in scan.found
        BY <2>1, <2>2, <3>2 DEF OnTheWay, ActiveInv
      <4>2. ASSUME NEW j \in Places', Follows(-1, j)'
            PROVE  TokensAt(j)'[s] = NextToken(LastOf(x))
        <5>1. CASE j \in 0 .. n /\ Follows(-1, j)
          BY <1>5, <1>8, <4>1, <5>1
        <5>2. CASE j = n + 2 /\ Follows(-1, n + 1)
          BY <1>5, <1>8, <2>2, <4>1, <5>2
        <5>3. -1 \in -1 .. n
          BY <1>5
        <5> QED
          BY <1>6, <4>2, <5>1, <5>2, <5>3
      <4> QED
        BY <4>1, <4>2
    <3> QED
      BY <3>1, <3>2
  <2>3. CASE x \in IdsOf(rows)
    <3>1. PICK p : p = n + 1
      OBVIOUS
    <3>2. HasItem(p, x)' /\ p \in Places'
      BY <1>5, <1>8, <2>3, <3>1
    <3> QED
      BY <3>2
  <2> QED
    BY <1>7, <2>1, <2>2, <2>3
<1>14. OneSlotInv'
  <2>1. SUFFICES ASSUME NEW s \in Slots, NEW r \in Slots, NEW x \in Ids,
                        slotToId'[s] = x, slotToId'[r] = x
                 PROVE  s = r
    BY DEF OneSlotInv, Ids
  <2>2. ASSUME NEW i \in DOMAIN rows, NEW k \in DOMAIN rows, rows[i].id = rows[k].id
        PROVE  rows[i].slot = rows[k].slot
    BY <2>2 DEF FreshRows
  <2>3. CASE slotToId[s] = x
    BY <1>7, <2>1, <2>3 DEF OnTheWay, OneSlotInv, Fresh
  <2>4. CASE slotToId[s] # x
    <3>1. PICK i \in DOMAIN rows : rows[i].slot = s /\ rows[i].id = x /\ Fresh(x)
      BY <1>7, <2>1, <2>4
    <3>2. PICK k \in DOMAIN rows : rows[k].slot = r /\ rows[k].id = x
      BY <1>7, <2>1, <3>1 DEF Fresh
    <3> QED
      BY <2>2, <3>1, <3>2
  <2> QED
    BY <2>3, <2>4
<1>15. FoundInv'
  <2>1. SUFFICES ASSUME bg = "scan", NEW item \in scan.found
                 PROVE  /\ item.token = scan.buffer[item.slot] /\ item.id \notin completed
                        /\ \A s \in Slots : slotToId'[s] = item.id => s = item.slot
                        /\ \/ Started(item.id) /\ item.token = NextToken(LastOf(item.id))
                           \/ Unstarted(item.id) /\ item.token[1] # item.id
    BY DEF FoundInv, Started, Unstarted, LastOf, NextToken, EndsWith, NoneOf
  <2>2. ASSUME NEW s \in Slots, slotToId'[s] = item.id
        PROVE  slotToId[s] = item.id
    BY <1>7, <2>1, <2>2 DEF Fresh
  <2> QED
    BY <2>1, <2>2 DEF OnTheWay, FoundInv
<1> QED
  BY <1>11, <1>12, <1>13, <1>14, <1>15 DEF OnTheWay

-----------------------------------------------------------------------------
(* A decode step                                                               *)

LEMMA OnTheWayDecoded ==
  ASSUME TaskInv, TypeInv, OnTheWay, DecodeStep
  PROVE  OnTheWay'
<1> DEFINE n == Len(queue)
           task == [buffer |-> device]
<1>1. /\ UNCHANGED <<bg, scan, tokens, completed, slotToId>>
      /\ queue' = Append(queue, task) /\ device' = Advance(device)
  BY DEF DecodeStep, Result, bgVars
<1>2. queue \in Seq(Task) /\ task \in Task /\ HasBuffer(task) /\ task.buffer = device
  BY DEF TaskInv, Task, HasBuffer
<1>3. \A s \in Slots : device'[s] = NextToken(device[s])
  BY <1>1 DEF Advance, NextToken
<1> HIDE DEF task
<1>5. /\ n \in Nat /\ Len(queue') = n + 1 /\ queue'[n + 1] = task
      /\ \A i \in 1 .. n : queue'[i] = queue[i]
      /\ \A i \in 0 .. n : (HasTokens(i)' <=> HasTokens(i)) /\ TokensAt(i)' = TokensAt(i)
      /\ HasTokens(n + 1) /\ TokensAt(n + 1) = device
      /\ \A i : i = n + 1 => HasTokens(i)' /\ TokensAt(i)' = device
      /\ \A i : i = n + 2 => HasTokens(i)' /\ TokensAt(i)' = device'
      /\ \A x : \A p \in 1 .. n : HasItem(p, x)' <=> HasItem(p, x)
      /\ \A p, x : p = n + 1 => ~HasItem(p, x)'
  BY <1>1, <1>2, AddedTokens
<1>6. \A i \in -1 .. n, j \in Places' : Follows(i, j)' =>
        \/ j \in 0 .. n /\ Follows(i, j)
        \/ j = n + 1 /\ Follows(i, n + 1)
  BY <1>1, <1>2, FollowsAdded
<1>8. Places' = 0 .. n + 2 /\ Places = 0 .. n + 1
  BY <1>5 DEF Places
<1>9. \A p, x : HasItem(p, x)' => p \in 1 .. n /\ HasItem(p, x)
  <2>1. ASSUME NEW p, NEW x, HasItem(p, x)'
        PROVE  p \in 1 .. n
    <3>1. p \in 1 .. n + 1
      BY <1>5, <2>1 DEF HasItem
    <3> QED
      BY <1>5, <2>1, <3>1
  <2> QED
    BY <1>5, <2>1
<1>10. \A i, j : Follows(i, j)' => i < j
  BY DEF Follows
(* What follows a place of the old queue is what did, now at j.                *)
<1>11. ASSUME NEW i \in -1 .. n, NEW j \in Places', Follows(i, j)'
       PROVE  \E k \in Places : Follows(i, k) /\ TokensAt(j)' = TokensAt(k)
  <2>1. CASE j \in 0 .. n /\ Follows(i, j)
    BY <1>5, <1>8, <2>1
  <2>2. CASE j = n + 1 /\ Follows(i, n + 1)
    BY <1>5, <1>8, <2>2
  <2> QED
    BY <1>6, <1>11, <2>1, <2>2
<1> HIDE DEF n
<1>12. LinkInv'
  <2>1. SUFFICES ASSUME NEW s \in Slots, NEW x \in Ids, slotToId[s] = x,
                        NEW i \in Places', NEW j \in Places',
                        HasTokens(i)', Follows(i, j)', TokensAt(i)'[s][1] = x
                 PROVE  TokensAt(j)'[s] = NextToken(TokensAt(i)'[s])
    BY <1>1 DEF LinkInv, NextToken, Ids
  <2>2. CASE i \in 0 .. n
    <3>1. PICK k \in Places : Follows(i, k) /\ TokensAt(j)' = TokensAt(k)
      BY <1>5, <1>11, <2>1, <2>2
    <3>2. i \in Places /\ HasTokens(i) /\ TokensAt(i)' = TokensAt(i)
      BY <1>5, <1>8, <2>1, <2>2
    <3> QED
      BY <2>1, <3>1, <3>2 DEF OnTheWay, LinkInv
  <2>3. CASE i = n + 1
    <3>1. j = n + 2
      BY <1>5, <1>8, <1>10, <2>1, <2>3
    <3> QED
      BY <1>3, <1>5, <2>3, <3>1
  <2>4. i # n + 2
    BY <1>5, <1>8, <1>10, <2>1
  <2> QED
    BY <1>5, <1>8, <2>1, <2>2, <2>3, <2>4
<1>13. ItemInv'
  <2>1. ASSUME NEW p \in 1 .. n + 1, ~HasBuffer(queue'[p]), NEW item \in queue'[p].items
        PROVE  item.token = FirstToken(item.id)
    <3>1. p \in 1 .. n
      BY <1>2, <1>5, <2>1
    <3> QED
      BY <1>5, <2>1, <3>1 DEF OnTheWay, ItemInv, n
  <2>2. ASSUME NEW p \in Places', NEW x \in Ids, HasItem(p, x)'
        PROVE  /\ Unstarted(x)
               /\ \A q \in Places' : HasItem(q, x)' => q = p
               /\ \A s \in Slots : slotToId[s] = x =>
                    /\ \A j \in Places' : j < p /\ HasTokens(j)' => TokensAt(j)'[s][1] # x
                    /\ \A j \in Places' : Follows(p, j)' => TokensAt(j)'[s] = <<x, 1>>
    <3>1. p \in 1 .. n /\ HasItem(p, x) /\ p \in Places
      BY <1>5, <1>8, <1>9, <2>2
    <3>2. Unstarted(x) /\ \A q \in Places : HasItem(q, x) => q = p
      BY <3>1 DEF OnTheWay, ItemInv
    <3>3. \A q \in Places' : HasItem(q, x)' => q = p
      BY <1>5, <1>8, <1>9, <3>2
    <3>4. ASSUME NEW s \in Slots, slotToId[s] = x
          PROVE  /\ \A j \in Places' : j < p /\ HasTokens(j)' => TokensAt(j)'[s][1] # x
                 /\ \A j \in Places' : Follows(p, j)' => TokensAt(j)'[s] = <<x, 1>>
      <4>1. /\ \A j \in Places : j < p /\ HasTokens(j) => TokensAt(j)[s][1] # x
            /\ \A j \in Places : Follows(p, j) => TokensAt(j)[s] = <<x, 1>>
        BY <3>1, <3>4 DEF OnTheWay, ItemInv
      <4>2. \A j \in Places' : j < p /\ HasTokens(j)' => TokensAt(j)'[s][1] # x
        BY <1>5, <1>8, <3>1, <4>1
      <4>3. p \in -1 .. n
        BY <1>5, <3>1
      <4>4. \A j \in Places' : Follows(p, j)' => TokensAt(j)'[s] = <<x, 1>>
        BY <1>11, <4>1, <4>3
      <4> QED
        BY <4>2, <4>4
    <3> QED
      BY <3>2, <3>3, <3>4
  <2>3. Ids' = Ids /\ \A x : Unstarted(x)' <=> Unstarted(x)
    BY <1>1 DEF Ids, Unstarted, NoneOf
  <2>4. (\A p \in 1 .. Len(queue) : ~HasBuffer(queue[p]) =>
           \A item \in queue[p].items : item.token = FirstToken(item.id))'
    BY <1>5, <2>1 DEF HasBuffer, FirstToken
  <2>5. (\A p \in Places, x \in Ids : HasItem(p, x) =>
           /\ Unstarted(x)
           /\ \A q \in Places : HasItem(q, x) => q = p
           /\ \A s \in Slots : slotToId[s] = x =>
                /\ \A j \in Places : j < p /\ HasTokens(j) => TokensAt(j)[s][1] # x
                /\ \A j \in Places : Follows(p, j) => TokensAt(j)[s] = <<x, 1>>)'
    BY <1>1, <2>2, <2>3
  <2> QED
    BY <2>4, <2>5 DEF ItemInv
<1>14. ActiveInv'
  <2>1. SUFFICES ASSUME NEW s \in Slots, NEW x \in Ids, slotToId[s] = x, x \notin completed
                 PROVE  \/ \E p \in Places' : HasItem(p, x)'
                        \/ /\ Started(x)
                           /\ \A j \in Places' : Follows(-1, j)' =>
                                TokensAt(j)'[s] = NextToken(LastOf(x))
                           /\ bg = "scan" =>
                                \/ s \in scan.left
                                \/ [slot |-> s, id |-> x, token |-> scan.buffer[s]]
                                     \in scan.found
    BY <1>1 DEF ActiveInv, Started, LastOf, NextToken, EndsWith, Ids
  <2>2. CASE \E p \in Places : HasItem(p, x)
    <3>1. PICK p \in Places : HasItem(p, x)
      BY <2>2
    <3>2. p \in 1 .. n /\ p \in Places'
      BY <1>5, <1>8, <3>1 DEF HasItem, n
    <3> QED
      BY <1>5, <3>1, <3>2
  <2>3. CASE ~ \E p \in Places : HasItem(p, x)
    <3>1. /\ Started(x)
          /\ \A j \in Places : Follows(-1, j) => TokensAt(j)[s] = NextToken(LastOf(x))
          /\ bg = "scan" =>
               \/ s \in scan.left
               \/ [slot |-> s, id |-> x, token |-> scan.buffer[s]] \in scan.found
      BY <2>1, <2>3 DEF OnTheWay, ActiveInv
    <3>2. -1 \in -1 .. n
      BY <1>5
    <3>3. \A j \in Places' : Follows(-1, j)' => TokensAt(j)'[s] = NextToken(LastOf(x))
      BY <1>11, <3>1, <3>2
    <3> QED
      BY <3>1, <3>3
  <2> QED
    BY <2>2, <2>3
<1>15. OneSlotInv'
  BY <1>1 DEF OnTheWay, OneSlotInv, Ids
<1>16. FoundInv'
  BY <1>1 DEF OnTheWay, FoundInv, Started, Unstarted, LastOf, NextToken, EndsWith, NoneOf
<1> QED
  BY <1>12, <1>13, <1>14, <1>15, <1>16 DEF OnTheWay

-----------------------------------------------------------------------------
(* A prompt is given a token                                                   *)

(* What Emit does to the results of x.                                         *)
LEMMA EmitEffect ==
  ASSUME EndInv, TypeInv, NEW items \in SUBSET OwnItem, Emit(items)
  PROVE  /\ Ids' = Ids /\ completed \subseteq completed'
         /\ bg' \in {"get", "free"}
         /\ \A x \in Ids :
              \/ /\ tokens'[x] = tokens[x]
                 /\ x \in completed \/ \A item \in items : item.id # x
              \/ /\ x \notin completed
                 /\ \E item \in items :
                      item.id = x /\ tokens'[x] = Append(tokens[x], item.token)
                 /\ tokens[x] \in Seq(Token) /\ Len(tokens[x]) < MaxDecode
         /\ items \subseteq Item
<1>1. Ids' = Ids /\ completed \subseteq completed' /\ bg' \in {"get", "free"}
  BY DEF Emit, Ids
<1>2. ASSUME NEW x \in Ids
      PROVE  \/ /\ tokens'[x] = tokens[x]
                /\ x \in completed \/ \A item \in items : item.id # x
             \/ /\ x \notin completed
                /\ \E item \in items :
                     item.id = x /\ tokens'[x] = Append(tokens[x], item.token)
                /\ tokens[x] \in Seq(Token) /\ Len(tokens[x]) < MaxDecode
  <2>1. CASE \E item \in items : item.id = x /\ TakesToken(item)
    <3> DEFINE c == CHOOSE item \in items : item.id = x
    <3>1. c \in items /\ c.id = x
      BY <2>1
    <3>2. tokens'[x] = Append(tokens[x], c.token)
      BY <2>1 DEF Emit
    <3> HIDE DEF c
    <3>3. x \notin completed
      BY <2>1 DEF TakesToken
    <3> QED
      BY <3>1, <3>2, <3>3 DEF EndInv
  <2>2. CASE ~ \E item \in items : item.id = x /\ TakesToken(item)
    BY <2>2 DEF Emit, TakesToken
  <2> QED
    BY <2>1, <2>2
<1>3. items \subseteq Item
  <2>1. MaxAge \in Nat
    BY BatchingAssumption DEF BatchingAssumption
  <2>2. Ids \subseteq Nat /\ 0 .. MaxAge \subseteq Nat
    BY <2>1 DEF TypeInv
  <2>3. Ids \union {NoId} \subseteq Nat
    BY <2>2
  <2>4. OwnToken \subseteq Token
    BY <2>2, <2>3 DEF OwnToken, Token
  <2> QED
    BY <2>2, <2>4 DEF OwnItem, Item
<1> QED
  BY <1>1, <1>2, <1>3

(* The results of x stay, start, go on, or get a token of another prompt.      *)
LEMMA OwnEffect ==
  ASSUME EndInv, TypeInv, OwnInv, NEW items \in SUBSET OwnItem, Emit(items), NEW x \in Ids,
         \A item \in items : item.id = x /\ x \notin completed =>
           \/ Unstarted(x) /\ item.token = FirstToken(x)
           \/ Unstarted(x) /\ item.token[1] # x
           \/ Started(x) /\ item.token = NextToken(LastOf(x))
  PROVE  /\ Unstarted(x)' \/ (Started(x)' /\ LastOf(x)'[2] < Len(tokens'[x]))
         /\ Consecutive(tokens'[x], x)
         /\ \/ tokens'[x] = tokens[x] /\ (x \in completed \/ \A item \in items : item.id # x)
            \/ \E item \in items :
                 /\ item.id = x /\ x \notin completed
                 /\ \/ /\ Unstarted(x) /\ item.token = FirstToken(x)
                       /\ Started(x)' /\ LastOf(x)' = <<x, 0>>
                    \/ Unstarted(x) /\ item.token[1] # x /\ Unstarted(x)'
                    \/ /\ Started(x) /\ item.token = NextToken(LastOf(x))
                       /\ Started(x)' /\ LastOf(x)' = item.token
<1>0. /\ Unstarted(x)' <=> NoneOf(tokens'[x], x)
      /\ Started(x)' <=> EndsWith(tokens'[x], x)
      /\ LastOf(x)' = tokens'[x][Len(tokens'[x])]
  BY DEF Unstarted, Started, LastOf, NoneOf, EndsWith
<1>1. \/ /\ tokens'[x] = tokens[x]
         /\ x \in completed \/ \A item \in items : item.id # x
      \/ /\ x \notin completed
         /\ \E item \in items :
              item.id = x /\ tokens'[x] = Append(tokens[x], item.token)
         /\ tokens[x] \in Seq(Token) /\ Len(tokens[x]) < MaxDecode
  BY EmitEffect
<1>2. CASE tokens'[x] = tokens[x] /\ (x \in completed \/ \A item \in items : item.id # x)
  BY <1>0, <1>2 DEF OwnInv, Unstarted, Started, LastOf
<1>3. ASSUME x \notin completed, NEW item \in items, item.id = x,
             tokens'[x] = Append(tokens[x], item.token),
             tokens[x] \in Seq(Token), Len(tokens[x]) < MaxDecode
      PROVE  /\ Unstarted(x)' \/ (Started(x)' /\ LastOf(x)'[2] < Len(tokens'[x]))
             /\ Consecutive(tokens'[x], x)
             /\ \/ /\ Unstarted(x) /\ item.token = FirstToken(x)
                   /\ Started(x)' /\ LastOf(x)' = <<x, 0>>
                \/ Unstarted(x) /\ item.token[1] # x /\ Unstarted(x)'
                \/ /\ Started(x) /\ item.token = NextToken(LastOf(x))
                   /\ Started(x)' /\ LastOf(x)' = item.token
  <2>1. CASE Unstarted(x) /\ item.token = FirstToken(x)
    <3>1. /\ EndsWith(tokens'[x], x) /\ tokens'[x][Len(tokens'[x])] = <<x, 0>>
          /\ 0 < Len(tokens'[x]) /\ Consecutive(tokens'[x], x)
      BY <1>3, <2>1, FirstOwn DEF Unstarted
    <3> QED
      BY <1>0, <2>1, <3>1
  <2>2. CASE Unstarted(x) /\ item.token[1] # x
    <3>1. item.token \in Token
      BY EmitEffect DEF Item
    <3>2. NoneOf(tokens'[x], x)
      BY <1>3, <2>2, <3>1, ForeignToken DEF Unstarted
    <3> QED
      BY <1>0, <2>2, <3>2, NoneIsConsecutive
  <2>3. CASE Started(x) /\ item.token = NextToken(LastOf(x))
    <3>1. \/ Unstarted(x)
          \/ Started(x) /\ LastOf(x)[2] < Len(tokens[x])
      BY DEF OwnInv
    <3>2. Len(tokens[x]) \in Nat
      BY <1>3
    <3>3. Started(x) /\ LastOf(x)[2] < Len(tokens[x])
      BY <2>3, <3>1, <3>2 DEF Started, Unstarted, EndsWith, NoneOf
    <3>4. EndsWith(tokens[x], x) /\ Consecutive(tokens[x], x)
      BY <3>3 DEF Started, OwnInv
    <3>5. /\ EndsWith(tokens'[x], x)
          /\ tokens'[x][Len(tokens'[x])] = NextToken(LastOf(x))
          /\ tokens'[x][Len(tokens'[x])][2] < Len(tokens'[x])
          /\ Consecutive(tokens'[x], x)
      BY <1>3, <2>3, <3>3, <3>4, NextOwn DEF LastOf
    <3> QED
      BY <1>0, <2>3, <3>5
  <2> QED
    BY <1>3, <2>1, <2>2, <2>3
<1> QED
  BY <1>1, <1>2, <1>3

-----------------------------------------------------------------------------
(* The detokenization thread takes a task                                      *)

(* What both kinds have in common.                                             *)
LEMMA LinksTaken ==
  ASSUME Taken, LinkInv, UNCHANGED slotToId, Ids' = Ids
  PROVE  LinkInv'
<1>1. SUFFICES ASSUME NEW s \in Slots, NEW x \in Ids, slotToId[s] = x,
                      NEW i \in Places', NEW j \in Places',
                      HasTokens(i)', Follows(i, j)', TokensAt(i)'[s][1] = x
               PROVE  TokensAt(j)'[s] = NextToken(TokensAt(i)'[s])
  BY DEF LinkInv, NextToken
<1>2. /\ Len(queue) \in Nat \ {0} /\ Len(queue') = Len(queue) - 1
      /\ \A k \in 0 .. Len(queue) :
           /\ HasTokens(k)' <=> HasTokens(k + 1)
           /\ HasTokens(k)' => TokensAt(k)' = TokensAt(k + 1)
  BY TakenTokens
<1>3. i \in 0 .. Len(queue) /\ i \in -1 .. Len(queue) /\ i + 1 \in Places
  BY <1>2 DEF Places
<1>4. j \in 0 .. Len(queue) /\ j + 1 \in Places /\ Follows(i + 1, j + 1) /\ HasTokens(j)'
  BY <1>1, <1>3, FollowsTaken DEF Follows
<1>5. TokensAt(i)' = TokensAt(i + 1) /\ TokensAt(j)' = TokensAt(j + 1) /\ HasTokens(i + 1)
  BY <1>1, <1>2, <1>3, <1>4
<1> QED
  BY <1>1, <1>3, <1>4, <1>5 DEF LinkInv

LEMMA ItemsTaken ==
  ASSUME Taken, ItemInv, UNCHANGED slotToId, Ids' = Ids,
         \A x \in Ids : HasItem(1, x) \/ tokens'[x] = tokens[x]
  PROVE  ItemInv'
<1> DEFINE n == Len(queue)
<1>2. /\ n \in Nat \ {0} /\ Len(queue') = n - 1
      /\ \A i \in 1 .. n - 1 : queue'[i] = queue[i + 1]
      /\ \A k \in 0 .. n :
           /\ HasTokens(k)' <=> HasTokens(k + 1)
           /\ HasTokens(k)' => TokensAt(k)' = TokensAt(k + 1)
      /\ \A x : \A p \in 1 .. n - 1 : HasItem(p, x)' <=> HasItem(p + 1, x)
  BY TakenTokens
<1>3. \A p, x : HasItem(p, x)' => p \in 1 .. n - 1 /\ HasItem(p + 1, x)
  BY <1>2 DEF HasItem
<1>4. Places' = 0 .. n /\ Places = 0 .. n + 1
  BY <1>2 DEF Places
<1>5. ASSUME NEW p \in 1 .. n - 1, ~HasBuffer(queue'[p]), NEW item \in queue'[p].items
      PROVE  item.token = FirstToken(item.id)
  <2>1. queue'[p] = queue[p + 1] /\ p + 1 \in 1 .. n
    BY <1>2
  <2> QED
    BY <1>5, <2>1 DEF ItemInv
<1>6. (\A p \in 1 .. Len(queue) : ~HasBuffer(queue[p]) =>
         \A item \in queue[p].items : item.token = FirstToken(item.id))'
  BY <1>2, <1>5 DEF HasBuffer, FirstToken
<1>7. ASSUME NEW p \in Places', NEW x \in Ids, HasItem(p, x)'
      PROVE  /\ Unstarted(x)'
             /\ \A q \in Places' : HasItem(q, x)' => q = p
             /\ \A s \in Slots : slotToId[s] = x =>
                  /\ \A j \in Places' : j < p /\ HasTokens(j)' => TokensAt(j)'[s][1] # x
                  /\ \A j \in Places' : Follows(p, j)' => TokensAt(j)'[s] = <<x, 1>>
  <2>1. p \in 1 .. n - 1 /\ HasItem(p + 1, x) /\ p + 1 \in Places
    BY <1>2, <1>3, <1>4, <1>7
  <2>2. Unstarted(x) /\ \A q \in Places : HasItem(q, x) => q = p + 1
    BY <2>1 DEF ItemInv
  <2>3. Unstarted(x)'
    <3>1. 1 \in Places /\ ~HasItem(1, x)
      BY <1>2, <1>4, <2>1, <2>2
    <3>2. tokens'[x] = tokens[x]
      BY <3>1
    <3> QED
      BY <2>2, <3>2 DEF Unstarted, NoneOf
  <2>4. ASSUME NEW q \in Places', HasItem(q, x)'
        PROVE  q = p
    <3>1. q \in 1 .. n - 1 /\ HasItem(q + 1, x) /\ q + 1 \in Places
      BY <1>2, <1>3, <1>4, <2>4
    <3>2. q + 1 = p + 1
      BY <2>2, <3>1
    <3> QED
      BY <2>1, <3>1, <3>2
  <2>5. ASSUME NEW s \in Slots, slotToId[s] = x
        PROVE  /\ \A j \in Places' : j < p /\ HasTokens(j)' => TokensAt(j)'[s][1] # x
               /\ \A j \in Places' : Follows(p, j)' => TokensAt(j)'[s] = <<x, 1>>
    <3>1. /\ \A j \in Places : j < p + 1 /\ HasTokens(j) => TokensAt(j)[s][1] # x
          /\ \A j \in Places : Follows(p + 1, j) => TokensAt(j)[s] = <<x, 1>>
      BY <2>1, <2>5 DEF ItemInv
    <3>2. ASSUME NEW j \in Places', j < p, HasTokens(j)'
          PROVE  TokensAt(j)'[s][1] # x
      <4>1. j \in 0 .. n /\ j + 1 \in Places /\ j + 1 < p + 1
        BY <1>2, <1>4, <2>1, <3>2
      <4> QED
        BY <1>2, <3>1, <3>2, <4>1
    <3>3. ASSUME NEW j \in Places', Follows(p, j)'
          PROVE  TokensAt(j)'[s] = <<x, 1>>
      <4>1. p \in -1 .. n
        BY <1>2, <2>1
      <4>2. j \in 0 .. n /\ j + 1 \in Places /\ Follows(p + 1, j + 1) /\ HasTokens(j)'
        BY <3>3, <4>1, FollowsTaken DEF Follows
      <4> QED
        BY <1>2, <3>1, <4>2
    <3> QED
      BY <3>2, <3>3
  <2> QED
    BY <2>3, <2>4, <2>5
<1>8. (\A p \in Places, x \in Ids : HasItem(p, x) =>
         /\ Unstarted(x)
         /\ \A q \in Places : HasItem(q, x) => q = p
         /\ \A s \in Slots : slotToId[s] = x =>
              /\ \A j \in Places : j < p /\ HasTokens(j) => TokensAt(j)[s][1] # x
              /\ \A j \in Places : Follows(p, j) => TokensAt(j)[s] = <<x, 1>>)'
  BY <1>7
<1> QED
  BY <1>6, <1>8 DEF ItemInv

LEMMA PrefillTaken ==
  ASSUME TaskInv, TypeInv, BgGetPrefill
  PROVE  /\ Taken /\ ~HasBuffer(queue[1]) /\ queue[1].items \in SUBSET OwnItem
         /\ Emit(queue[1].items) /\ bg' \in {"get", "free"} /\ 1 \in 1 .. Len(queue)
         /\ \A x : HasItem(1, x) <=> \E item \in queue[1].items : item.id = x
         /\ UNCHANGED <<scan, mainVars, empty, slotToId, keys>>
<1>1. /\ bg = "get" /\ queue # <<>> /\ queue' = Tail(queue) /\ "items" \in DOMAIN Head(queue)
      /\ Emit(Head(queue).items) /\ UNCHANGED <<scan, mainVars, empty, slotToId, keys>>
  BY DEF BgGetPrefill, InOrder
<1>2. queue \in Seq(Task)
  BY DEF TaskInv
<1>3. Head(queue) = queue[1] /\ Head(queue) \in Task /\ Len(queue) \in Nat \ {0}
  BY <1>1, <1>2, TakenPlaces
<1>4. ~HasBuffer(queue[1])
  BY <1>1, <1>3 DEF Task, HasBuffer
<1>5. 1 \in 1 .. Len(queue) /\ queue[1].items \in SUBSET OwnItem
  BY <1>3, <1>4 DEF TypeInv, Typed
<1>6. bg' \in {"get", "free"}
  BY <1>1 DEF Emit
<1>7. Taken
  BY <1>1, <1>2, <1>3, <1>4, <1>6 DEF Taken, mainVars
<1>8. \A x : HasItem(1, x) <=> \E item \in queue[1].items : item.id = x
  BY <1>4, <1>5 DEF HasItem
<1> QED
  BY <1>1, <1>3, <1>4, <1>5, <1>6, <1>7, <1>8

LEMMA OwnPrefillTaken ==
  ASSUME TaskInv, TypeInv, EndInv, OwnInv, ItemInv, BgGetPrefill, NEW x \in Ids
  PROVE  /\ Unstarted(x)' \/ (Started(x)' /\ LastOf(x)'[2] < Len(tokens'[x]))
         /\ Consecutive(tokens'[x], x)
         /\ ~HasItem(1, x) => tokens'[x] = tokens[x]
         /\ HasItem(1, x) /\ x \notin completed => Started(x)' /\ LastOf(x)' = <<x, 0>>
<1> DEFINE items == queue[1].items
<1>1. /\ ~HasBuffer(queue[1]) /\ items \in SUBSET OwnItem
      /\ Emit(items) /\ 1 \in 1 .. Len(queue)
      /\ HasItem(1, x) <=> \E item \in items : item.id = x
  BY PrefillTaken
<1>2. ASSUME NEW item \in items, item.id = x
      PROVE  Unstarted(x) /\ item.token = FirstToken(x)
  <2>1. HasItem(1, x) /\ 1 \in Places
    BY <1>1, <1>2 DEF Places
  <2>2. item.token = FirstToken(x)
    BY <1>1, <1>2 DEF ItemInv
  <2> QED
    BY <2>1, <2>2 DEF ItemInv
<1> HIDE DEF items
<1>3. /\ Unstarted(x)' \/ (Started(x)' /\ LastOf(x)'[2] < Len(tokens'[x]))
      /\ Consecutive(tokens'[x], x)
      /\ \/ tokens'[x] = tokens[x] /\ (x \in completed \/ \A item \in items : item.id # x)
         \/ \E item \in items :
              /\ item.id = x /\ x \notin completed
              /\ \/ /\ Unstarted(x) /\ item.token = FirstToken(x)
                    /\ Started(x)' /\ LastOf(x)' = <<x, 0>>
                 \/ Unstarted(x) /\ item.token[1] # x /\ Unstarted(x)'
                 \/ /\ Started(x) /\ item.token = NextToken(LastOf(x))
                    /\ Started(x)' /\ LastOf(x)' = item.token
  BY <1>1, <1>2, OwnEffect
<1>4. ~(Started(x) /\ Unstarted(x))
  <2>1. tokens[x] \in Seq(Token)
    BY DEF EndInv
  <2>2. Len(tokens[x]) \in Nat
    <3> HIDE DEF Token
    <3> QED
      BY <2>1
  <2> QED
    BY <2>2 DEF Started, Unstarted, EndsWith, NoneOf
<1>5. FirstToken(x)[1] = x
  BY DEF FirstToken
<1> QED
  BY <1>1, <1>2, <1>3, <1>4, <1>5

LEMMA OnTheWayPrefillTaken ==
  ASSUME TaskInv, TypeInv, EndInv, OwnInv, OnTheWay, BgGetPrefill
  PROVE  OwnInv' /\ OnTheWay'
<1> DEFINE n == Len(queue)
<1>1. /\ Taken /\ Emit(queue[1].items) /\ bg' \in {"get", "free"}
      /\ UNCHANGED <<scan, slotToId>>
  BY PrefillTaken
<1>2. Ids' = Ids /\ completed \subseteq completed'
  BY <1>1 DEF Emit, Ids
<1>3. \A x \in Ids :
        /\ Unstarted(x)' \/ (Started(x)' /\ LastOf(x)'[2] < Len(tokens'[x]))
        /\ Consecutive(tokens'[x], x)
        /\ ~HasItem(1, x) => tokens'[x] = tokens[x]
        /\ HasItem(1, x) /\ x \notin completed => Started(x)' /\ LastOf(x)' = <<x, 0>>
  BY OwnPrefillTaken DEF OnTheWay
<1>4. OwnInv'
  BY <1>2, <1>3 DEF OwnInv, Consecutive
<1>5. LinkInv' /\ ItemInv'
  BY <1>1, <1>2, <1>3, LinksTaken, ItemsTaken DEF OnTheWay
<1>6. /\ n \in Nat \ {0} /\ Len(queue') = n - 1 /\ ~HasTokens(0)'
      /\ \A k \in 0 .. n :
           /\ HasTokens(k)' <=> HasTokens(k + 1)
           /\ HasTokens(k)' => TokensAt(k)' = TokensAt(k + 1)
      /\ \A x : \A p \in 1 .. n - 1 : HasItem(p, x)' <=> HasItem(p + 1, x)
  BY <1>1, TakenTokens DEF HasTokens
<1>7. ActiveInv'
  <2>1. SUFFICES ASSUME NEW s \in Slots, NEW x \in Ids, slotToId[s] = x, x \notin completed
                 PROVE  \/ \E p \in Places' : HasItem(p, x)'
                        \/ /\ Started(x)'
                           /\ \A j \in Places' : Follows(-1, j)' =>
                                TokensAt(j)'[s] = NextToken(LastOf(x)')
    BY <1>1, <1>2 DEF ActiveInv, NextToken
  <2>2. CASE HasItem(1, x)
    <3>1. Started(x)' /\ LastOf(x)' = <<x, 0>>
      BY <1>3, <2>1, <2>2
    <3>2. 1 \in Places /\ \A j \in Places : Follows(1, j) => TokensAt(j)[s] = <<x, 1>>
      BY <1>6, <2>1, <2>2 DEF OnTheWay, ItemInv, Places
    <3>3. ASSUME NEW j \in Places', Follows(-1, j)'
          PROVE  TokensAt(j)'[s] = <<x, 1>>
      <4>1. Follows(0, j)'
        <5>1. -1 < j /\ HasTokens(j)' /\ \A k \in 0 .. j - 1 : ~HasTokens(k)'
          BY <3>3 DEF Follows
        <5>2. j \in Int /\ j # 0
          BY <1>6, <5>1 DEF Places
        <5> QED
          BY <5>1, <5>2 DEF Follows
      <4>2. 0 \in -1 .. n
        BY <1>6
      <4>3. j \in 0 .. n /\ j + 1 \in Places /\ Follows(1, j + 1) /\ HasTokens(j)'
        BY <1>1, <4>1, <4>2, FollowsTaken DEF Follows
      <4> QED
        BY <1>6, <3>2, <4>3
    <3>4. NextToken(<<x, 0>>) = <<x, 1>>
      BY BatchingAssumption DEF BatchingAssumption, NextToken
    <3> QED
      BY <3>1, <3>3, <3>4
  <2>3. CASE \E p \in Places : HasItem(p, x) /\ p # 1
    <3>1. PICK p \in Places : HasItem(p, x) /\ p # 1
      BY <2>3
    <3>2. PICK q : q = p - 1
      OBVIOUS
    <3>3. q \in 1 .. n - 1 /\ q + 1 = p /\ q \in Places'
      BY <1>6, <3>1, <3>2 DEF Places, HasItem
    <3> QED
      BY <1>6, <3>1, <3>3
  <2>4. CASE ~ \E p \in Places : HasItem(p, x)
    <3>1. /\ Started(x)
          /\ \A j \in Places : Follows(-1, j) => TokensAt(j)[s] = NextToken(LastOf(x))
      BY <2>1, <2>4 DEF OnTheWay, ActiveInv
    <3>2. tokens'[x] = tokens[x]
      BY <1>3, <1>6, <2>4 DEF Places
    <3>3. Started(x)' /\ LastOf(x)' = LastOf(x)
      BY <3>1, <3>2 DEF Started, LastOf, EndsWith
    <3>4. ASSUME NEW j \in Places', Follows(-1, j)'
          PROVE  TokensAt(j)'[s] = NextToken(LastOf(x))
      <4>1. -1 \in -1 .. n
        BY <1>6
      <4>2. j \in 0 .. n /\ j + 1 \in Places /\ Follows(-1, j + 1) /\ HasTokens(j)'
        BY <1>1, <3>4, <4>1, FollowsTaken DEF Follows
      <4> QED
        BY <1>6, <3>1, <4>2
    <3> QED
      BY <3>3, <3>4
  <2> QED
    BY <2>2, <2>3, <2>4
<1>8. OneSlotInv'
  BY <1>1, <1>2 DEF OnTheWay, OneSlotInv
<1>9. FoundInv'
  BY <1>1 DEF FoundInv
<1> QED
  BY <1>4, <1>5, <1>7, <1>8, <1>9 DEF OnTheWay

LEMMA OnTheWayDecodeTaken ==
  ASSUME TaskInv, TypeInv, OnTheWay, BgGetDecode
  PROVE  OnTheWay'
<1> DEFINE n == Len(queue)
<1>1. /\ bg = "get" /\ bg' = "scan" /\ queue # <<>> /\ queue' = Tail(queue)
      /\ HasBuffer(Head(queue))
      /\ scan' = [buffer |-> Head(queue).buffer, keys |-> keys, left |-> keys, found |-> {}]
      /\ UNCHANGED <<tokens, completed, device, slotToId, keys>>
  BY DEF BgGetDecode, InOrder, HasBuffer, mainVars
<1>2. queue \in Seq(Task)
  BY DEF TaskInv
<1>3. Head(queue) = queue[1] /\ n \in Nat \ {0}
  BY <1>1, <1>2, TakenPlaces
<1>4. Taken /\ scan'.left = keys /\ scan'.found = {}
  BY <1>1, <1>2, <1>3 DEF Taken
<1>5. Ids' = Ids
  BY <1>1 DEF Ids
<1>6. LinkInv' /\ ItemInv'
  BY <1>1, <1>4, <1>5, LinksTaken, ItemsTaken DEF OnTheWay
<1>7. /\ Len(queue') = n - 1
      /\ \A k \in 0 .. n :
           /\ HasTokens(k)' <=> HasTokens(k + 1)
           /\ HasTokens(k)' => TokensAt(k)' = TokensAt(k + 1)
      /\ \A x : \A p \in 1 .. n - 1 : HasItem(p, x)' <=> HasItem(p + 1, x)
  BY <1>4, TakenTokens
<1>8. ActiveInv'
  <2>1. SUFFICES ASSUME NEW s \in Slots, NEW x \in Ids, slotToId[s] = x, x \notin completed
                 PROVE  \/ \E p \in Places' : HasItem(p, x)'
                        \/ /\ Started(x)
                           /\ \A j \in Places' : Follows(-1, j)' =>
                                TokensAt(j)'[s] = NextToken(LastOf(x))
                           /\ s \in scan'.left
    BY <1>1, <1>5 DEF ActiveInv, NextToken, Started, LastOf, EndsWith
  <2>2. s \in scan'.left
    BY <1>4, <2>1 DEF TypeInv, TypeOK, Active
  <2>3. CASE \E p \in Places : HasItem(p, x)
    <3>1. PICK p \in Places : HasItem(p, x)
      BY <2>3
    <3>2. PICK q : q = p - 1
      OBVIOUS
    <3>3. q \in 1 .. n - 1 /\ q + 1 = p /\ q \in Places'
      BY <1>1, <1>3, <1>7, <3>1, <3>2 DEF Places, HasItem
    <3> QED
      BY <1>7, <3>1, <3>3
  <2>4. CASE ~ \E p \in Places : HasItem(p, x)
    <3>1. /\ Started(x)
          /\ \A j \in Places : Follows(-1, j) => TokensAt(j)[s] = NextToken(LastOf(x))
      BY <2>1, <2>4 DEF OnTheWay, ActiveInv
    <3>2. ASSUME NEW j \in Places', Follows(-1, j)'
          PROVE  TokensAt(j)'[s] = NextToken(LastOf(x))
      <4>1. -1 \in -1 .. n
        BY <1>3
      <4>2. j \in 0 .. n /\ j + 1 \in Places /\ Follows(-1, j + 1) /\ HasTokens(j)'
        BY <1>4, <3>2, <4>1, FollowsTaken DEF Follows
      <4> QED
        BY <1>7, <3>1, <4>2
    <3> QED
      BY <2>2, <3>1, <3>2
  <2> QED
    BY <2>3, <2>4
<1>9. OneSlotInv'
  BY <1>1, <1>5 DEF OnTheWay, OneSlotInv
<1>10. FoundInv'
  BY <1>4 DEF FoundInv
<1> QED
  BY <1>6, <1>8, <1>9, <1>10 DEF OnTheWay

-----------------------------------------------------------------------------
(* The other steps                                                             *)

(* No token moves: at most a slot loses its prompt.                            *)
LEMMA OnTheWaySame ==
  ASSUME OnTheWay, UNCHANGED <<queue, device, tokens, completed>>,
         bg' = "scan" <=> bg = "scan", bg = "scan" => scan' = scan,
         \A s \in Slots, x \in Nat \ {0} : slotToId'[s] = x => slotToId[s] = x,
         Ids \subseteq Nat \ {0}, bg = "scan" => \A item \in scan.found : item.id \in Ids
  PROVE  OnTheWay'
<1>1. /\ Ids' = Ids /\ Places' = Places
      /\ \A i : HasTokens(i)' <=> HasTokens(i)
      /\ \A i : HasTokens(i) => TokensAt(i)' = TokensAt(i)
      /\ \A p, x : HasItem(p, x)' <=> HasItem(p, x)
      /\ \A i, j : Follows(i, j)' <=> Follows(i, j)
  BY DEF Ids, Places, HasTokens, TokensAt, HasItem, Follows, HasBuffer
<1>2. /\ \A x : Unstarted(x)' <=> Unstarted(x)
      /\ \A x : Started(x)' <=> Started(x)
      /\ \A x : LastOf(x)' = LastOf(x)
  BY DEF Unstarted, Started, LastOf, NoneOf, EndsWith
<1>3. \A i, j : Follows(i, j) => HasTokens(j)
  BY DEF Follows
<1>4. LinkInv'
  BY <1>1, <1>3 DEF OnTheWay, LinkInv, NextToken
<1>5. ItemInv'
  <2>1. (\A p \in 1 .. Len(queue) : ~HasBuffer(queue[p]) =>
           \A item \in queue[p].items : item.token = FirstToken(item.id))'
    BY DEF OnTheWay, ItemInv, HasBuffer, FirstToken
  <2>2. ASSUME NEW p \in Places, NEW x \in Ids, HasItem(p, x)
        PROVE  /\ Unstarted(x)
               /\ \A q \in Places : HasItem(q, x) => q = p
               /\ \A s \in Slots : slotToId'[s] = x =>
                    /\ \A j \in Places : j < p /\ HasTokens(j) => TokensAt(j)'[s][1] # x
                    /\ \A j \in Places : Follows(p, j) => TokensAt(j)'[s] = <<x, 1>>
    BY <1>1, <1>3, <2>2 DEF OnTheWay, ItemInv
  <2>3. (\A p \in Places, x \in Ids : HasItem(p, x) =>
           /\ Unstarted(x)
           /\ \A q \in Places : HasItem(q, x) => q = p
           /\ \A s \in Slots : slotToId[s] = x =>
                /\ \A j \in Places : j < p /\ HasTokens(j) => TokensAt(j)[s][1] # x
                /\ \A j \in Places : Follows(p, j) => TokensAt(j)[s] = <<x, 1>>)'
    BY <1>1, <1>2, <2>2
  <2> QED
    BY <2>1, <2>3 DEF ItemInv
<1>6. ActiveInv'
  <2>1. SUFFICES ASSUME NEW s \in Slots, NEW x \in Ids, slotToId'[s] = x, x \notin completed
                 PROVE  \/ \E p \in Places' : HasItem(p, x)'
                        \/ /\ Started(x)'
                           /\ \A j \in Places' : Follows(-1, j)' =>
                                TokensAt(j)'[s] = NextToken(LastOf(x)')
                           /\ bg' = "scan" =>
                                \/ s \in scan'.left
                                \/ [slot |-> s, id |-> x, token |-> scan'.buffer[s]]
                                     \in scan'.found
    BY <1>1 DEF ActiveInv, NextToken
  <2>2. \/ \E p \in Places : HasItem(p, x)
        \/ /\ Started(x)
           /\ \A j \in Places : Follows(-1, j) => TokensAt(j)[s] = NextToken(LastOf(x))
           /\ bg = "scan" =>
                \/ s \in scan.left
                \/ [slot |-> s, id |-> x, token |-> scan.buffer[s]] \in scan.found
    BY <2>1 DEF OnTheWay, ActiveInv
  <2> QED
    BY <1>1, <1>2, <1>3, <2>2
<1>7. OneSlotInv'
  BY <1>1 DEF OnTheWay, OneSlotInv
<1>8. FoundInv'
  <2>1. SUFFICES ASSUME bg = "scan", NEW item \in scan.found
                 PROVE  /\ item.token = scan.buffer[item.slot] /\ item.id \notin completed
                        /\ \A s \in Slots : slotToId'[s] = item.id => s = item.slot
                        /\ \/ Started(item.id) /\ item.token = NextToken(LastOf(item.id))
                           \/ Unstarted(item.id) /\ item.token[1] # item.id
    BY <1>2 DEF FoundInv, NextToken
  <2> QED
    BY <2>1 DEF OnTheWay, FoundInv
<1> QED
  BY <1>4, <1>5, <1>6, <1>7, <1>8 DEF OnTheWay

(* An entry is read: the prompt it has goes on, or gets its first token later. *)
LEMMA OnTheWayScanned ==
  ASSUME TaskInv, SlotInv, TypeInv, OnTheWay, BgScanKey
  PROVE  OnTheWay'
<1>1. /\ bg = "scan" /\ bg' = "scan" /\ scan \in Scan
      /\ UNCHANGED <<queue, device, slotToId, tokens, completed>>
  BY DEF BgScanKey, TaskInv, mainVars, sharedVars
<1>2. PICK s \in scan.left :
        LET row == [slot |-> s, id |-> slotToId[s], token |-> scan.buffer[s]]
        IN  scan' = [scan EXCEPT
                       !.left = @ \ {s},
                       !.found = IF row.id # NoId /\ row.id \notin completed
                                 THEN @ \union {row} ELSE @]
  BY DEF BgScanKey
<1> DEFINE row == [slot |-> s, id |-> slotToId[s], token |-> scan.buffer[s]]
<1>3. /\ scan'.buffer = scan.buffer /\ scan'.left = scan.left \ {s}
      /\ scan'.found = IF slotToId[s] # NoId /\ slotToId[s] \notin completed
                       THEN scan.found \union {row} ELSE scan.found
  BY <1>1, <1>2 DEF Scan
<1>4. s \in Slots /\ slotToId[s] \in Ids \union {NoId} /\ Ids \subseteq Nat \ {0}
  BY <1>1 DEF Scan, TypeInv, TypeOK
<1>5. row.slot = s /\ row.id = slotToId[s] /\ row.token = scan.buffer[s]
  OBVIOUS
<1> HIDE DEF row
<1>6. /\ Ids' = Ids /\ Places' = Places
      /\ \A i : HasTokens(i)' <=> HasTokens(i)
      /\ \A i : TokensAt(i)' = TokensAt(i)
      /\ \A p, x : HasItem(p, x)' <=> HasItem(p, x)
      /\ \A i, j : Follows(i, j)' <=> Follows(i, j)
  BY <1>1, <1>3 DEF Ids, Places, HasTokens, TokensAt, HasItem, Follows, HasBuffer
<1>7. /\ \A x : Unstarted(x)' <=> Unstarted(x)
      /\ \A x : Started(x)' <=> Started(x)
      /\ \A x : LastOf(x)' = LastOf(x)
  BY <1>1 DEF Unstarted, Started, LastOf, NoneOf, EndsWith
<1>8. LinkInv' /\ OneSlotInv'
  BY <1>1, <1>6 DEF OnTheWay, LinkInv, OneSlotInv, NextToken
<1>9. ItemInv'
  <2>1. (\A p \in 1 .. Len(queue) : ~HasBuffer(queue[p]) =>
           \A item \in queue[p].items : item.token = FirstToken(item.id))'
    BY <1>1 DEF OnTheWay, ItemInv, HasBuffer, FirstToken
  <2>2. (\A p \in Places, x \in Ids : HasItem(p, x) =>
           /\ Unstarted(x)
           /\ \A q \in Places : HasItem(q, x) => q = p
           /\ \A r \in Slots : slotToId[r] = x =>
                /\ \A j \in Places : j < p /\ HasTokens(j) => TokensAt(j)[r][1] # x
                /\ \A j \in Places : Follows(p, j) => TokensAt(j)[r] = <<x, 1>>)'
    BY <1>1, <1>6, <1>7 DEF OnTheWay, ItemInv
  <2> QED
    BY <2>1, <2>2 DEF ItemInv
<1>10. ActiveInv'
  <2>1. SUFFICES ASSUME NEW r \in Slots, NEW x \in Ids, slotToId[r] = x, x \notin completed
                 PROVE  \/ \E p \in Places : HasItem(p, x)
                        \/ /\ Started(x)
                           /\ \A j \in Places : Follows(-1, j) =>
                                TokensAt(j)[r] = NextToken(LastOf(x))
                           /\ \/ r \in scan'.left
                              \/ [slot |-> r, id |-> x, token |-> scan.buffer[r]]
                                   \in scan'.found
    BY <1>1, <1>3, <1>6, <1>7 DEF ActiveInv, NextToken
  <2>2. \/ \E p \in Places : HasItem(p, x)
        \/ /\ Started(x)
           /\ \A j \in Places : Follows(-1, j) => TokensAt(j)[r] = NextToken(LastOf(x))
           /\ \/ r \in scan.left
              \/ [slot |-> r, id |-> x, token |-> scan.buffer[r]] \in scan.found
    BY <1>1, <2>1 DEF OnTheWay, ActiveInv
  <2>3. CASE r = s
    <3>1. x # NoId
      BY <1>4
    <3>2. [slot |-> r, id |-> x, token |-> scan.buffer[r]] \in scan'.found
      BY <1>3, <2>1, <2>3, <3>1 DEF row
    <3> QED
      BY <2>2, <3>2
  <2>4. CASE r # s
    BY <1>3, <2>2, <2>4
  <2> QED
    BY <2>3, <2>4
<1>11. FoundInv'
  <2>1. SUFFICES ASSUME NEW item \in scan'.found
                 PROVE  /\ item.token = scan.buffer[item.slot] /\ item.id \notin completed
                        /\ \A r \in Slots : slotToId[r] = item.id => r = item.slot
                        /\ \/ Started(item.id) /\ item.token = NextToken(LastOf(item.id))
                           \/ Unstarted(item.id) /\ item.token[1] # item.id
    BY <1>1, <1>3, <1>7 DEF FoundInv, NextToken
  <2>2. CASE item \in scan.found
    BY <1>1, <2>2 DEF OnTheWay, FoundInv
  <2>3. CASE item = row /\ slotToId[s] # NoId /\ slotToId[s] \notin completed
    <3> DEFINE x == slotToId[s]
    <3>1. x \in Ids /\ item.id = x /\ item.slot = s /\ item.token = scan.buffer[s]
      BY <1>4, <1>5, <2>3
    <3>2. \A r \in Slots : slotToId[r] = x => r = s
      BY <1>4, <3>1 DEF OnTheWay, OneSlotInv
    <3>3. HasTokens(0) /\ TokensAt(0) = scan.buffer /\ 0 \in Places /\ Follows(-1, 0)
      <4>1. Len(queue) \in Nat
        <5> HIDE DEF Task
        <5> QED
          BY DEF TaskInv
      <4> QED
        BY <1>1, <4>1 DEF HasTokens, TokensAt, Places, Follows
    <3>4. CASE \E p \in Places : HasItem(p, x)
      <4>1. PICK p \in Places : HasItem(p, x)
        BY <3>4
      <4>2. 0 < p
        BY <4>1 DEF HasItem
      <4>3. Unstarted(x) /\ TokensAt(0)[s][1] # x
        BY <1>4, <3>1, <3>3, <4>1, <4>2 DEF OnTheWay, ItemInv
      <4> QED
        BY <2>3, <3>1, <3>2, <3>3, <4>3
    <3>5. CASE ~ \E p \in Places : HasItem(p, x)
      <4>1. Started(x) /\ TokensAt(0)[s] = NextToken(LastOf(x))
        BY <1>4, <2>3, <3>1, <3>3, <3>5 DEF OnTheWay, ActiveInv
      <4> QED
        BY <2>3, <3>1, <3>2, <3>3, <4>1
    <3> QED
      BY <3>4, <3>5
  <2> QED
    BY <1>3, <2>1, <2>2, <2>3
<1> QED
  BY <1>8, <1>9, <1>10, <1>11 DEF OnTheWay

(* The scan is over: who is in a slot and has started was found in it.         *)
LEMMA OnTheWayEmitted ==
  ASSUME TaskInv, SlotInv, TypeInv, EndInv, OwnInv, OnTheWay, BgEmitDecode
  PROVE  OwnInv' /\ OnTheWay'
<1>1. /\ bg = "scan" /\ scan.left = {} /\ Emit(scan.found)
      /\ UNCHANGED <<queue, device, slotToId>> /\ scan.found \in SUBSET OwnItem
  BY DEF BgEmitDecode, mainVars, sharedVars, TypeInv
<1>2. Ids' = Ids /\ completed \subseteq completed' /\ bg' \in {"get", "free"}
  BY <1>1 DEF Emit, Ids
<1>3. queue \in Seq(Task) /\ bg' # "scan"
  BY <1>2 DEF TaskInv
<1>4. /\ Len(queue) \in Nat /\ HasTokens(0) /\ ~HasTokens(0)' /\ Places' = Places
      /\ \A i \in 1 .. Len(queue) + 1 :
           (HasTokens(i)' <=> HasTokens(i)) /\ TokensAt(i)' = TokensAt(i)
      /\ \A x, p : HasItem(p, x)' <=> HasItem(p, x)
      /\ \A i, j \in Places : Follows(i, j)' => Follows(i, j)
      /\ \A j \in Places : Follows(-1, j)' => j > 0 /\ Follows(0, j)
  BY <1>1, <1>3, GivenTokens
<1>5. /\ 0 \in Places /\ TokensAt(0) = scan.buffer
      /\ \A i \in Places : i > 0 \/ HasTokens(i)' =>
           (HasTokens(i)' <=> HasTokens(i)) /\ TokensAt(i)' = TokensAt(i)
      /\ \A i, j : Follows(i, j)' => HasTokens(j)'
  BY <1>4 DEF Places, TokensAt, Follows
<1>6. \A item \in scan.found :
        /\ item.token = scan.buffer[item.slot] /\ item.id \notin completed
        /\ \A s \in Slots : slotToId[s] = item.id => s = item.slot
        /\ \/ Started(item.id) /\ item.token = NextToken(LastOf(item.id))
           \/ Unstarted(item.id) /\ item.token[1] # item.id
  BY <1>1 DEF OnTheWay, FoundInv
<1>7. \A x \in Ids : ~(Started(x) /\ Unstarted(x))
  <2>1. \A x \in Ids : Len(tokens[x]) \in Nat
    <3> HIDE DEF Token
    <3> QED
      BY DEF EndInv
  <2> QED
    BY <2>1 DEF Started, Unstarted, EndsWith, NoneOf
<1>8. ASSUME NEW x \in Ids
      PROVE  /\ Unstarted(x)' \/ (Started(x)' /\ LastOf(x)'[2] < Len(tokens'[x]))
             /\ Consecutive(tokens'[x], x)
             /\ Unstarted(x) => Unstarted(x)'
             /\ \A item \in scan.found : item.id = x /\ Started(x) =>
                  /\ Started(x)'
                  /\ \E other \in scan.found : other.id = x /\ LastOf(x)' = other.token
  <2>1. \A item \in scan.found : item.id = x /\ x \notin completed =>
          \/ Unstarted(x) /\ item.token = FirstToken(x)
          \/ Unstarted(x) /\ item.token[1] # x
          \/ Started(x) /\ item.token = NextToken(LastOf(x))
    BY <1>6
  <2> DEFINE items == scan.found
  <2>2. items \in SUBSET OwnItem /\ Emit(items)
    BY <1>1
  <2>3. \A item \in items : item.id = x /\ Unstarted(x) => item.token[1] # x
    BY <1>6, <1>7
  <2>4. \A item \in items : item.id = x => x \notin completed
    BY <1>6
  <2> HIDE DEF items
  <2>5. /\ Unstarted(x)' \/ (Started(x)' /\ LastOf(x)'[2] < Len(tokens'[x]))
        /\ Consecutive(tokens'[x], x)
        /\ \/ tokens'[x] = tokens[x] /\ (x \in completed \/ \A item \in items : item.id # x)
           \/ \E item \in items :
                /\ item.id = x /\ x \notin completed
                /\ \/ /\ Unstarted(x) /\ item.token = FirstToken(x)
                      /\ Started(x)' /\ LastOf(x)' = <<x, 0>>
                   \/ Unstarted(x) /\ item.token[1] # x /\ Unstarted(x)'
                   \/ /\ Started(x) /\ item.token = NextToken(LastOf(x))
                      /\ Started(x)' /\ LastOf(x)' = item.token
    BY <2>1, <2>2, OwnEffect DEF items
  <2>6. FirstToken(x)[1] = x
    BY DEF FirstToken
  <2>7. Unstarted(x) => Unstarted(x)'
    <3>1. ASSUME Unstarted(x), tokens'[x] = tokens[x]
          PROVE  Unstarted(x)'
      BY <3>1 DEF Unstarted, NoneOf
    <3> QED
      BY <1>7, <2>3, <2>5, <2>6, <3>1
  <2>8. ASSUME NEW item \in items, item.id = x, Started(x)
        PROVE  Started(x)' /\ \E other \in items : other.id = x /\ LastOf(x)' = other.token
    BY <1>7, <2>4, <2>5, <2>8
  <2> QED
    BY <2>5, <2>7, <2>8 DEF items
<1>9. OwnInv'
  BY <1>2, <1>8 DEF OwnInv, Consecutive
<1>10. LinkInv'
  <2>1. SUFFICES ASSUME NEW s \in Slots, NEW x \in Ids, slotToId[s] = x,
                        NEW i \in Places, NEW j \in Places,
                        HasTokens(i)', Follows(i, j)', TokensAt(i)'[s][1] = x
                 PROVE  TokensAt(j)'[s] = NextToken(TokensAt(i)'[s])
    BY <1>1, <1>2, <1>4 DEF LinkInv, NextToken
  <2>2. HasTokens(i) /\ Follows(i, j) /\ TokensAt(i)' = TokensAt(i) /\ TokensAt(j)' = TokensAt(j)
    BY <1>4, <1>5, <2>1
  <2> QED
    BY <2>1, <2>2 DEF OnTheWay, LinkInv
<1>11. ItemInv'
  <2>1. (\A p \in 1 .. Len(queue) : ~HasBuffer(queue[p]) =>
           \A item \in queue[p].items : item.token = FirstToken(item.id))'
    BY <1>1 DEF OnTheWay, ItemInv, HasBuffer, FirstToken
  <2>2. ASSUME NEW p \in Places, NEW x \in Ids, HasItem(p, x)
        PROVE  /\ Unstarted(x)'
               /\ \A q \in Places : HasItem(q, x) => q = p
               /\ \A s \in Slots : slotToId[s] = x =>
                    /\ \A j \in Places : j < p /\ HasTokens(j)' => TokensAt(j)'[s][1] # x
                    /\ \A j \in Places : Follows(p, j)' => TokensAt(j)'[s] = <<x, 1>>
    <3>1. Unstarted(x) /\ \A q \in Places : HasItem(q, x) => q = p
      BY <2>2 DEF OnTheWay, ItemInv
    <3>2. ASSUME NEW s \in Slots, slotToId[s] = x
          PROVE  /\ \A j \in Places : j < p /\ HasTokens(j)' => TokensAt(j)'[s][1] # x
                 /\ \A j \in Places : Follows(p, j)' => TokensAt(j)'[s] = <<x, 1>>
      <4>1. /\ \A j \in Places : j < p /\ HasTokens(j) => TokensAt(j)[s][1] # x
            /\ \A j \in Places : Follows(p, j) => TokensAt(j)[s] = <<x, 1>>
        BY <2>2, <3>2 DEF OnTheWay, ItemInv
      <4> QED
        BY <1>4, <1>5, <4>1
    <3> QED
      BY <1>8, <3>1, <3>2
  <2>3. (\A p \in Places, x \in Ids : HasItem(p, x) =>
           /\ Unstarted(x)
           /\ \A q \in Places : HasItem(q, x) => q = p
           /\ \A s \in Slots : slotToId[s] = x =>
                /\ \A j \in Places : j < p /\ HasTokens(j) => TokensAt(j)[s][1] # x
                /\ \A j \in Places : Follows(p, j) => TokensAt(j)[s] = <<x, 1>>)'
    BY <1>1, <1>2, <1>4, <2>2
  <2> QED
    BY <2>1, <2>3 DEF ItemInv
<1>12. ActiveInv'
  <2>1. SUFFICES ASSUME NEW s \in Slots, NEW x \in Ids, slotToId[s] = x, x \notin completed
                 PROVE  \/ \E p \in Places : HasItem(p, x)
                        \/ /\ Started(x)'
                           /\ \A j \in Places : Follows(-1, j)' =>
                                TokensAt(j)'[s] = NextToken(LastOf(x)')
    BY <1>1, <1>2, <1>4 DEF ActiveInv, NextToken
  <2>2. CASE ~ \E p \in Places : HasItem(p, x)
    <3> DEFINE row == [slot |-> s, id |-> x, token |-> scan.buffer[s]]
    <3>1. Started(x) /\ row \in scan.found
      BY <1>1, <2>1, <2>2 DEF OnTheWay, ActiveInv
    <3>2. row.id = x
      OBVIOUS
    <3> HIDE DEF row
    <3>3. Started(x)' /\ \E other \in scan.found : other.id = x /\ LastOf(x)' = other.token
      BY <1>8, <3>1, <3>2
    <3>4. PICK other \in scan.found : other.id = x /\ LastOf(x)' = other.token
      BY <3>3
    <3>5. other.token = scan.buffer[s] /\ other.token = NextToken(LastOf(x))
      BY <1>6, <1>7, <2>1, <3>1, <3>4
    <3>6. scan.buffer[s][1] = x
      BY <3>1, <3>5 DEF Started, EndsWith, LastOf, NextToken
    <3>7. ASSUME NEW j \in Places, Follows(-1, j)'
          PROVE  TokensAt(j)'[s] = NextToken(LastOf(x)')
      <4>1. Follows(0, j) /\ TokensAt(j)' = TokensAt(j)
        BY <1>4, <1>5, <3>7
      <4>2. TokensAt(j)[s] = NextToken(TokensAt(0)[s])
        BY <1>4, <1>5, <2>1, <3>6, <4>1 DEF OnTheWay, LinkInv
      <4> QED
        BY <1>5, <3>4, <3>5, <4>1, <4>2
    <3> QED
      BY <3>3, <3>7
  <2> QED
    BY <2>2
<1>13. OneSlotInv' /\ FoundInv'
  BY <1>1, <1>2 DEF OnTheWay, OneSlotInv, FoundInv
<1> QED
  BY <1>9, <1>10, <1>11, <1>12, <1>13 DEF OnTheWay

-----------------------------------------------------------------------------
(* The prompts that wait                                                       *)

(* The next row leaves the data; it is prefilled, or it is the last of its     *)
(* bucket.                                                                     *)
LEMMA DistinctTaken ==
  ASSUME SlotInv, DistinctInv, data # <<>>, data' = Tail(data), NEW p,
         \A q \in Paddings : \A i \in 1 .. Len(buckets'[q]) :
           \/ i \in 1 .. Len(buckets[q]) /\ buckets'[q][i] = buckets[q][i]
           \/ q = p /\ i = Len(buckets'[p]) /\ buckets'[q][i].id = data[1].id
  PROVE  DistinctInv'
<1>1. /\ Len(data) \in Nat \ {0} /\ Len(data') = Len(data) - 1
      /\ \A i \in 1 .. Len(data) - 1 : data'[i] = data[i + 1]
  BY TakenPlaces DEF SlotInv
<1>2. \A i \in 1 .. Len(data') : data'[i] = data[i + 1] /\ i + 1 \in 1 .. Len(data) /\ i + 1 # 1
  BY <1>1
<1>3. 1 \in 1 .. Len(data)
  BY <1>1
<1>4. \A i, j \in 1 .. Len(data') : data'[i].id = data'[j].id => i = j
  <2>1. ASSUME NEW i \in 1 .. Len(data'), NEW j \in 1 .. Len(data'), data'[i].id = data'[j].id
        PROVE  i = j
    <3>1. i + 1 = j + 1
      BY <1>2, <2>1 DEF DistinctInv
    <3> QED
      BY <3>1
  <2> QED
    BY <2>1
<1>5. ASSUME NEW q \in Paddings, NEW r \in Paddings, NEW i \in 1 .. Len(buckets'[q]),
             NEW j \in 1 .. Len(buckets'[r]), buckets'[q][i].id = buckets'[r][j].id
      PROVE  q = r /\ i = j
  <2> DEFINE Old(t, k) == k \in 1 .. Len(buckets[t]) /\ buckets'[t][k] = buckets[t][k]
             New(t, k) == t = p /\ k = Len(buckets'[p]) /\ buckets'[t][k].id = data[1].id
  <2>1. (Old(q, i) \/ New(q, i)) /\ (Old(r, j) \/ New(r, j))
    OBVIOUS
  <2>2. CASE Old(q, i) /\ Old(r, j)
    BY <1>5, <2>2 DEF DistinctInv
  <2>3. CASE Old(q, i) /\ New(r, j)
    BY <1>3, <1>5, <2>3 DEF DistinctInv
  <2>4. CASE New(q, i) /\ Old(r, j)
    BY <1>3, <1>5, <2>4 DEF DistinctInv
  <2>5. CASE New(q, i) /\ New(r, j)
    BY <2>5
  <2> QED
    BY <2>1, <2>2, <2>3, <2>4, <2>5
<1>6. ASSUME NEW q \in Paddings, NEW i \in 1 .. Len(buckets'[q]), NEW j \in 1 .. Len(data')
      PROVE  buckets'[q][i].id # data'[j].id
  <2>1. data'[j] = data[j + 1] /\ j + 1 \in 1 .. Len(data) /\ j + 1 # 1
    BY <1>2
  <2>2. data[j + 1].id # data[1].id
    BY <1>3, <2>1 DEF DistinctInv
  <2>3. CASE i \in 1 .. Len(buckets[q]) /\ buckets'[q][i] = buckets[q][i]
    BY <2>1, <2>3 DEF DistinctInv
  <2>4. CASE buckets'[q][i].id = data[1].id
    BY <2>1, <2>2, <2>4
  <2> QED
    BY <2>3, <2>4
<1> QED
  BY <1>4, <1>5, <1>6 DEF DistinctInv

LEMMA FreshBucket ==
  ASSUME TypeInv, SlotInv, FreshInv, DistinctInv, NEW p \in Paddings
  PROVE  FreshRows(buckets[p])
<1>1. buckets[p] \in Seq(Row) /\ \A i \in DOMAIN buckets[p] : buckets[p][i].id \in Ids
  BY BucketIsOfRows
<1>2. DOMAIN buckets[p] = 1 .. Len(buckets[p])
  <2> HIDE DEF Row
  <2> QED
    BY <1>1
<1>3. \A i \in DOMAIN buckets[p] : Fresh(buckets[p][i].id)
  BY <1>2 DEF FreshInv, Pending
<1>4. \A i, j \in DOMAIN buckets[p] : buckets[p][i].id = buckets[p][j].id => i = j
  BY <1>2 DEF DistinctInv
<1> QED
  BY <1>1, <1>3, <1>4 DEF FreshRows

(* A row taken or a bucket flushed: the prompts of the rows prefilled, if any, *)
(* have no other row.                                                          *)
LEMMA RowsOfPrefill ==
  ASSUME TaskInv, SlotInv, TypeInv, FreshInv, DistinctInv, PrefillRow
  PROVE  /\ DistinctInv'
         /\ \/ /\ UNCHANGED <<device, slotToId, queue>>
               /\ \A x : Pending(x)' => Pending(x)
            \/ \E rows :
                 /\ FreshRows(rows) /\ PrefillDone(rows)
                 /\ \A x : Pending(x)' => Pending(x) /\ x \notin IdsOf(rows)
<1>1. data # <<>> /\ data' = Tail(data)
  BY RowWays
<1>2. PICK s \in empty :
        \/ PrefillDone(<<NextRow(s)>>) /\ UNCHANGED buckets
        \/ /\ buckets' = [buckets EXCEPT ![NextRow(s).pad] = Append(@, NextRow(s))]
           /\ UNCHANGED <<device, slotToId, keys, queue>>
        \/ /\ PrefillDone(buckets[NextRow(s).pad])
           /\ buckets' = [buckets EXCEPT ![NextRow(s).pad] = <<NextRow(s)>>]
  BY RowWays
<1> DEFINE row == NextRow(s)
           p == row.pad
<1>3. row \in Row /\ row.id \in Ids /\ p \in Paddings
  BY <1>1, <1>2, NextRowTyped DEF SlotInv
<1>4. /\ Len(data) \in Nat \ {0} /\ Head(data) = data[1] /\ Len(data') = Len(data) - 1
      /\ \A i \in 1 .. Len(data) - 1 : data'[i] = data[i + 1]
  BY <1>1, TakenPlaces DEF SlotInv
<1>5. row.id = data[1].id /\ 1 \in 1 .. Len(data)
  BY <1>4 DEF NextRow
<1> HIDE DEF row
<1>6. \A i \in 1 .. Len(data') :
        /\ data'[i] = data[i + 1] /\ i + 1 \in 1 .. Len(data)
        /\ data'[i].id # row.id
  <2>1. ASSUME NEW i \in 1 .. Len(data')
        PROVE  data'[i] = data[i + 1] /\ i + 1 \in 1 .. Len(data) /\ i + 1 # 1
    BY <1>4
  <2> QED
    BY <1>5, <2>1 DEF DistinctInv
<1>7. buckets \in [Paddings -> Seq(Row)]
  BY DEF SlotInv
<1>8. /\ Len(buckets[p]) \in Nat /\ Len(Append(buckets[p], row)) = Len(buckets[p]) + 1
      /\ Append(buckets[p], row)[Len(buckets[p]) + 1] = row
      /\ \A i \in 1 .. Len(buckets[p]) : Append(buckets[p], row)[i] = buckets[p][i]
  <2>1. buckets[p] \in Seq(Row)
    <3> HIDE DEF Row
    <3> QED
      BY <1>3, <1>7
  <2> QED
    BY <1>3, <2>1, AddedPlaces
<1>9. /\ Len(<<row>>) = 1 /\ <<row>>[1] = row /\ DOMAIN <<row>> = 1 .. 1
      /\ <<row>> \in Seq(Row)
  <2> HIDE DEF Row
  <2> QED
    BY <1>3
<1>10. PICK one : one = <<row>>
  OBVIOUS
<1>11. PICK more : more = Append(buckets[p], row)
  OBVIOUS
<1>12. \A q \in Paddings : \A i \in 1 .. Len(buckets[q]) : buckets[q][i].id # row.id
  BY <1>5 DEF DistinctInv
<1>13. Pending(row.id) /\ Fresh(row.id)
  BY <1>5 DEF Pending, FreshInv
(* The three ways, with what holds then of the buckets.                        *)
<1>14. CASE PrefillDone(<<row>>) /\ UNCHANGED buckets
  <2>1. DistinctInv'
    BY <1>1, <1>14, DistinctTaken
  <2>2. FreshRows(one) /\ IdsOf(one) = {row.id}
    <3>1. \A i \in DOMAIN one : i = 1 /\ one[i] = row
      BY <1>9, <1>10
    <3>2. 1 \in DOMAIN one /\ one[1] = row
      BY <1>9, <1>10
    <3>3. IdsOf(one) = {row.id}
      BY <3>1, <3>2 DEF IdsOf
    <3> QED
      BY <1>3, <1>9, <1>10, <1>13, <3>1, <3>3 DEF FreshRows
  <2>3. ASSUME NEW x, Pending(x)'
        PROVE  Pending(x) /\ x # row.id
    <3>1. CASE \E i \in 1 .. Len(data') : data'[i].id = x
      BY <1>6, <3>1 DEF Pending
    <3>2. CASE \E q \in Paddings : \E i \in 1 .. Len(buckets[q]) : buckets[q][i].id = x
      BY <1>12, <3>2 DEF Pending
    <3> QED
      BY <1>14, <2>3, <3>1, <3>2 DEF Pending
  <2> QED
    BY <1>10, <1>14, <2>1, <2>2, <2>3
<1>15. CASE /\ buckets' = [buckets EXCEPT ![p] = Append(@, row)]
            /\ UNCHANGED <<device, slotToId, keys, queue>>
  <2>1. buckets'[p] = more /\ \A q \in Paddings : q # p => buckets'[q] = buckets[q]
    BY <1>3, <1>7, <1>11, <1>15
  <2>2. ASSUME NEW q \in Paddings, NEW i \in 1 .. Len(buckets'[q])
        PROVE  \/ i \in 1 .. Len(buckets[q]) /\ buckets'[q][i] = buckets[q][i]
               \/ q = p /\ i = Len(buckets'[p]) /\ buckets'[q][i] = row
    <3>1. CASE q = p
      BY <1>8, <1>11, <2>1, <2>2, <3>1
    <3>2. CASE q # p
      BY <2>1, <2>2, <3>2
    <3> QED
      BY <3>1, <3>2
  <2>3. DistinctInv'
    <3>1. \A q \in Paddings : \A i \in 1 .. Len(buckets'[q]) :
            \/ i \in 1 .. Len(buckets[q]) /\ buckets'[q][i] = buckets[q][i]
            \/ q = p /\ i = Len(buckets'[p]) /\ buckets'[q][i].id = data[1].id
      BY <1>5, <2>2
    <3> QED
      BY <1>1, <3>1, DistinctTaken
  <2>4. ASSUME NEW x, Pending(x)'
        PROVE  Pending(x)
    <3>1. CASE \E i \in 1 .. Len(data') : data'[i].id = x
      BY <1>6, <3>1 DEF Pending
    <3>2. CASE \E q \in Paddings : \E i \in 1 .. Len(buckets'[q]) : buckets'[q][i].id = x
      BY <1>13, <2>2, <3>2 DEF Pending
    <3> QED
      BY <2>4, <3>1, <3>2 DEF Pending
  <2> QED
    BY <1>15, <2>3, <2>4
<1>16. CASE PrefillDone(buckets[p]) /\ buckets' = [buckets EXCEPT ![p] = <<row>>]
  <2>1. buckets'[p] = one /\ \A q \in Paddings : q # p => buckets'[q] = buckets[q]
    BY <1>3, <1>7, <1>10, <1>16
  <2>2. ASSUME NEW q \in Paddings, NEW i \in 1 .. Len(buckets'[q])
        PROVE  \/ /\ q # p /\ i \in 1 .. Len(buckets[q])
                  /\ buckets'[q][i] = buckets[q][i]
               \/ q = p /\ i = Len(buckets'[p]) /\ buckets'[q][i] = row
    <3>1. CASE q = p
      BY <1>9, <1>10, <2>1, <2>2, <3>1
    <3>2. CASE q # p
      BY <2>1, <2>2, <3>2
    <3> QED
      BY <3>1, <3>2
  <2>3. DistinctInv'
    <3>1. \A q \in Paddings : \A i \in 1 .. Len(buckets'[q]) :
            \/ i \in 1 .. Len(buckets[q]) /\ buckets'[q][i] = buckets[q][i]
            \/ q = p /\ i = Len(buckets'[p]) /\ buckets'[q][i].id = data[1].id
      BY <1>5, <2>2
    <3> QED
      BY <1>1, <3>1, DistinctTaken
  <2>4. FreshRows(buckets[p])
    BY <1>3, FreshBucket
  <2>5. DOMAIN buckets[p] = 1 .. Len(buckets[p])
    <3> HIDE DEF Row
    <3> QED
      BY <1>3, <1>7
  <2>6. ASSUME NEW x, Pending(x)'
        PROVE  Pending(x) /\ x \notin IdsOf(buckets[p])
    <3>1. CASE \E i \in 1 .. Len(data') : data'[i].id = x
      BY <1>3, <1>6, <2>5, <3>1 DEF Pending, IdsOf, DistinctInv
    <3>2. CASE \E q \in Paddings : \E i \in 1 .. Len(buckets'[q]) : buckets'[q][i].id = x
      <4>0. PICK q \in Paddings : \E i \in 1 .. Len(buckets'[q]) : buckets'[q][i].id = x
        BY <3>2
      <4>1. PICK i \in 1 .. Len(buckets'[q]) : buckets'[q][i].id = x
        BY <4>0
      <4>2. CASE q # p /\ i \in 1 .. Len(buckets[q]) /\ buckets'[q][i] = buckets[q][i]
        <5>1. Pending(x)
          BY <4>1, <4>2 DEF Pending
        <5>2. x \notin IdsOf(buckets[p])
          BY <1>3, <2>5, <4>1, <4>2 DEF IdsOf, DistinctInv
        <5> QED
          BY <5>1, <5>2
      <4>3. CASE buckets'[q][i] = row
        BY <1>3, <1>12, <1>13, <2>5, <4>1, <4>3 DEF IdsOf
      <4> QED
        BY <2>2, <4>2, <4>3
    <3> QED
      BY <2>6, <3>1, <3>2 DEF Pending
  <2> QED
    BY <1>16, <2>3, <2>4, <2>6
<1> QED
  BY <1>2, <1>14, <1>15, <1>16 DEF row

LEMMA RowsOfFlush ==
  ASSUME TaskInv, SlotInv, TypeInv, FreshInv, DistinctInv, FlushBucket
  PROVE  /\ DistinctInv'
         /\ \E rows :
              /\ FreshRows(rows) /\ PrefillDone(rows)
              /\ \A x : Pending(x)' => Pending(x) /\ x \notin IdsOf(rows)
<1>1. PICK p \in Paddings :
        PrefillDone(buckets[p]) /\ buckets' = [buckets EXCEPT ![p] = <<>>]
  BY DEF FlushBucket
<1>2. data = <<>> /\ data' = data
  BY DEF FlushBucket
<1>3. buckets \in [Paddings -> Seq(Row)]
  BY DEF SlotInv
<1>4. PICK e : e = <<>>
  OBVIOUS
<1>5. buckets'[p] = e /\ \A q \in Paddings : q # p => buckets'[q] = buckets[q]
  BY <1>1, <1>3, <1>4
<1>6. Len(e) = 0
  BY <1>4
<1>7. ASSUME NEW q \in Paddings, NEW i \in 1 .. Len(buckets'[q])
      PROVE  q # p /\ buckets'[q] = buckets[q]
  BY <1>5, <1>6, <1>7
<1>8. DistinctInv'
  <2>1. ASSUME NEW q \in Paddings, NEW r \in Paddings, NEW i \in 1 .. Len(buckets'[q]),
               NEW j \in 1 .. Len(buckets'[r]), buckets'[q][i].id = buckets'[r][j].id
        PROVE  q = r /\ i = j
    <3>1. /\ buckets'[q] = buckets[q] /\ buckets'[r] = buckets[r]
          /\ i \in 1 .. Len(buckets[q]) /\ j \in 1 .. Len(buckets[r])
      BY <1>7
    <3> QED
      BY <2>1, <3>1 DEF DistinctInv
  <2>2. ASSUME NEW q \in Paddings, NEW i \in 1 .. Len(buckets'[q]), NEW j \in 1 .. Len(data)
        PROVE  buckets'[q][i].id # data[j].id
    <3>1. buckets'[q] = buckets[q] /\ i \in 1 .. Len(buckets[q])
      BY <1>7
    <3> QED
      BY <3>1 DEF DistinctInv
  <2> QED
    BY <1>2, <2>1, <2>2 DEF DistinctInv
<1>9. FreshRows(buckets[p])
  BY FreshBucket
<1>10. DOMAIN buckets[p] = 1 .. Len(buckets[p])
  <2> HIDE DEF Row
  <2> QED
    BY <1>3
<1>11. ASSUME NEW x, Pending(x)'
       PROVE  Pending(x) /\ x \notin IdsOf(buckets[p])
  <2>1. PICK q \in Paddings : \E i \in 1 .. Len(buckets'[q]) : buckets'[q][i].id = x
    <3>1. PICK f : f = data
      OBVIOUS
    <3>2. Len(f) = 0 /\ data' = f
      BY <1>2, <1>4, <1>6, <3>1
    <3> QED
      BY <1>11, <3>2 DEF Pending
  <2>2. PICK i \in 1 .. Len(buckets[q]) : buckets[q][i].id = x /\ q # p
    BY <1>7, <2>1
  <2> QED
    BY <1>10, <2>2 DEF Pending, IdsOf, DistinctInv
<1> QED
  BY <1>1, <1>8, <1>9, <1>11

-----------------------------------------------------------------------------
(* A prompt that waits is nowhere on the way                                   *)

LEMMA FreshSame ==
  ASSUME NEW x \in Nat \ {0}, Fresh(x), UNCHANGED <<queue, device>>,
         tokens'[x] = tokens[x], x \notin completed',
         \A s \in Slots : slotToId'[s] = x => slotToId[s] = x,
         bg' = "scan" =>
           /\ bg = "scan" /\ scan'.buffer = scan.buffer
           /\ \A item \in scan'.found : item.id # x
  PROVE  Fresh(x)'
<1>1. /\ Places' = Places
      /\ \A i : HasTokens(i)' => HasTokens(i) /\ TokensAt(i)' = TokensAt(i)
      /\ \A p : HasItem(p, x)' <=> HasItem(p, x)
  BY DEF Places, HasTokens, TokensAt, HasItem, HasBuffer
<1> QED
  BY <1>1 DEF Fresh

LEMMA FreshPrefilled ==
  ASSUME TaskInv, SlotInv, NEW rows, FreshRows(rows), PrefillDone(rows),
         UNCHANGED <<bg, scan, tokens, completed>>,
         NEW x, Fresh(x), x \notin IdsOf(rows)
  PROVE  Fresh(x)'
<1> DEFINE n == Len(queue)
           task == [items |-> FirstItems(rows)]
<1>0. rows \in Seq(Row)
  BY DEF FreshRows
<1>1. queue' = Append(queue, task) /\ queue \in Seq(Task) /\ task \in Task
  BY <1>0, PrefillEffect
<1>2. ~HasBuffer(task) /\ task.items = FirstItems(rows)
  BY DEF HasBuffer
<1>3. \A y : (\E item \in FirstItems(rows) : item.id = y) <=> y \in IdsOf(rows)
  BY FirstItemsIds
<1> HIDE DEF task
<1>4. /\ n \in Nat /\ Len(queue') = n + 1
      /\ \A i \in 0 .. n : (HasTokens(i)' <=> HasTokens(i)) /\ TokensAt(i)' = TokensAt(i)
      /\ HasTokens(n + 1) /\ TokensAt(n + 1) = device
      /\ \A i : i = n + 1 => ~HasTokens(i)'
      /\ \A i : i = n + 2 => TokensAt(i)' = device'
      /\ \A y : \A p \in 1 .. n : HasItem(p, y)' <=> HasItem(p, y)
      /\ \A p, y : p = n + 1 => (HasItem(p, y)' <=> y \in IdsOf(rows))
  BY <1>1, <1>2, <1>3, AddedTokens
<1>5. Places' = 0 .. n + 2 /\ Places = 0 .. n + 1
  BY <1>4 DEF Places
<1>6. ASSUME NEW s \in Slots
      PROVE  slotToId'[s] # x /\ device'[s][1] # x
  <2>1. slotToId[s] # x /\ device[s][1] # x
    <3>1. n + 1 \in Places
      BY <1>4, <1>5
    <3> QED
      BY <1>4, <3>1 DEF Fresh
  <2>2. \/ slotToId'[s] = slotToId[s] /\ device'[s] = device[s]
        \/ \E i \in DOMAIN rows :
             /\ slotToId'[s] = rows[i].id
             /\ device'[s] = <<rows[i].id, 1>> /\ rows[i].id \in IdsOf(rows)
    BY PrefillBySlot
  <2> QED
    BY <2>1, <2>2
<1> HIDE DEF n
<1>7. ASSUME NEW i \in Places', NEW s \in Slots, HasTokens(i)'
      PROVE  TokensAt(i)'[s][1] # x
  <2>1. i \in 0 .. n \/ i = n + 2
    BY <1>4, <1>5, <1>7
  <2>2. CASE i \in 0 .. n
    BY <1>4, <1>5, <1>7, <2>2 DEF Fresh
  <2>3. CASE i = n + 2
    BY <1>4, <1>6, <2>3
  <2> QED
    BY <2>1, <2>2, <2>3
<1>8. ASSUME NEW p \in Places'
      PROVE  ~HasItem(p, x)'
  <2>1. SUFFICES ASSUME HasItem(p, x)'
                 PROVE  FALSE
    OBVIOUS
  <2>2. p \in 1 .. n + 1
    BY <1>4, <2>1 DEF HasItem
  <2> QED
    BY <1>4, <1>5, <2>1, <2>2 DEF Fresh
<1> QED
  BY <1>6, <1>7, <1>8 DEF Fresh

LEMMA FreshDecoded ==
  ASSUME TaskInv, DecodeStep, NEW x, Fresh(x)
  PROVE  Fresh(x)'
<1> DEFINE n == Len(queue)
           task == [buffer |-> device]
<1>1. /\ UNCHANGED <<bg, scan, tokens, completed, slotToId>>
      /\ queue' = Append(queue, task) /\ device' = Advance(device)
  BY DEF DecodeStep, Result, bgVars
<1>2. queue \in Seq(Task) /\ task \in Task /\ HasBuffer(task) /\ task.buffer = device
  BY DEF TaskInv, Task, HasBuffer
<1>3. \A s \in Slots : device'[s][1] = device[s][1]
  BY <1>1 DEF Advance
<1> HIDE DEF task
<1>4. /\ n \in Nat /\ Len(queue') = n + 1
      /\ \A i \in 0 .. n : (HasTokens(i)' <=> HasTokens(i)) /\ TokensAt(i)' = TokensAt(i)
      /\ HasTokens(n + 1) /\ TokensAt(n + 1) = device
      /\ \A i : i = n + 1 => TokensAt(i)' = device
      /\ \A i : i = n + 2 => TokensAt(i)' = device'
      /\ \A y : \A p \in 1 .. n : HasItem(p, y)' <=> HasItem(p, y)
      /\ \A p, y : p = n + 1 => ~HasItem(p, y)'
  BY <1>1, <1>2, AddedTokens
<1>5. Places' = 0 .. n + 2 /\ Places = 0 .. n + 1
  BY <1>4 DEF Places
<1>6. \A s \in Slots : device[s][1] # x
  <2>1. n + 1 \in Places
    BY <1>4, <1>5
  <2> QED
    BY <1>4, <2>1 DEF Fresh
<1> HIDE DEF n
<1>7. ASSUME NEW i \in Places', NEW s \in Slots, HasTokens(i)'
      PROVE  TokensAt(i)'[s][1] # x
  <2>1. i \in 0 .. n \/ i = n + 1 \/ i = n + 2
    BY <1>4, <1>5
  <2>2. CASE i \in 0 .. n
    BY <1>4, <1>5, <1>7, <2>2 DEF Fresh
  <2>3. CASE i = n + 1 \/ i = n + 2
    BY <1>3, <1>4, <1>6, <2>3
  <2> QED
    BY <2>1, <2>2, <2>3
<1>8. ASSUME NEW p \in Places'
      PROVE  ~HasItem(p, x)'
  <2>1. SUFFICES ASSUME HasItem(p, x)'
                 PROVE  FALSE
    OBVIOUS
  <2>2. p \in 1 .. n + 1
    BY <1>4, <2>1 DEF HasItem
  <2> QED
    BY <1>4, <1>5, <2>1, <2>2 DEF Fresh
<1> QED
  BY <1>1, <1>7, <1>8 DEF Fresh

LEMMA FreshTaken ==
  ASSUME Taken, UNCHANGED slotToId, NEW x, Fresh(x),
         tokens'[x] = tokens[x], x \notin completed', bg' = "scan" => scan'.found = {}
  PROVE  Fresh(x)'
<1> DEFINE n == Len(queue)
<1>1. /\ n \in Nat \ {0} /\ Len(queue') = n - 1
      /\ \A k \in 0 .. n :
           /\ HasTokens(k)' <=> HasTokens(k + 1)
           /\ HasTokens(k)' => TokensAt(k)' = TokensAt(k + 1)
      /\ \A p \in 1 .. n - 1 : HasItem(p, x)' <=> HasItem(p + 1, x)
  BY TakenTokens
<1>2. Places' = 0 .. n /\ Places = 0 .. n + 1
  BY <1>1 DEF Places
<1>3. ASSUME NEW i \in Places', NEW s \in Slots, HasTokens(i)'
      PROVE  TokensAt(i)'[s][1] # x
  <2>1. i \in 0 .. n /\ i + 1 \in Places
    BY <1>1, <1>2
  <2> QED
    BY <1>1, <1>3, <2>1 DEF Fresh
<1>4. ASSUME NEW p \in Places', HasItem(p, x)'
      PROVE  FALSE
  <2>1. p \in 1 .. n - 1 /\ p + 1 \in Places
    BY <1>1, <1>2, <1>4 DEF HasItem
  <2> QED
    BY <1>1, <1>4, <2>1 DEF Fresh
<1> QED
  BY <1>3, <1>4 DEF Fresh

(* Nothing is given to who is not in the task.                                 *)
LEMMA NothingGiven ==
  ASSUME NEW items, Emit(items), NEW x \in Ids, \A item \in items : item.id # x,
         x \notin completed
  PROVE  tokens'[x] = tokens[x] /\ x \notin completed'
BY DEF Emit

LEMMA PendingIds ==
  ASSUME TypeInv, SlotInv, NEW x, Pending(x)
  PROVE  x \in Ids /\ x \in Nat \ {0}
<1>1. CASE \E i \in 1 .. Len(data) : data[i].id = x
  <2>1. \A i \in 1 .. Len(data) : data[i] \in Prompts
    <3> HIDE DEF Prompts
    <3> QED
      BY DEF TypeInv, TypeOK
  <2> QED
    BY <1>1, <2>1 DEF Prompts, TypeInv
<1>2. CASE \E p \in Paddings : \E i \in 1 .. Len(buckets[p]) : buckets[p][i].id = x
  <2>1. PICK p \in Paddings : \E i \in 1 .. Len(buckets[p]) : buckets[p][i].id = x
    BY <1>2
  <2>2. buckets[p] \in Seq(Row) /\ \A i \in DOMAIN buckets[p] : buckets[p][i].id \in Ids
    BY BucketIsOfRows
  <2>3. DOMAIN buckets[p] = 1 .. Len(buckets[p])
    <3> HIDE DEF Row
    <3> QED
      BY <2>2
  <2> QED
    BY <2>1, <2>2, <2>3 DEF TypeInv
<1> QED
  BY <1>1, <1>2 DEF Pending

(* A prefill is of rows that waited; every other step leaves the rows alone.   *)
LEMMA RowsLeft ==
  ASSUME [Next]_vars
  PROVE  \/ PrefillRow \/ FlushBucket
         \/ UNCHANGED <<data, buckets>>
BY DEF Next, Main, Background, PrefillRow, FlushBucket, StartDrain, StartDecode, DecodeStep,
       StopRunning, Join, BgGetPrefill, BgGetDecode, BgScanKey, BgEmitDecode, BgRaise,
       BgFree, BgExit, vars, mainVars

LEMMA FreshKept ==
  ASSUME TaskInv, SlotInv, TypeInv, FreshInv, DistinctInv, [Next]_vars
  PROVE  FreshInv' /\ DistinctInv'
<1>1. CASE PrefillRow \/ FlushBucket
  <2>1. UNCHANGED <<bg, scan, tokens, completed>>
    BY <1>1 DEF PrefillRow, FlushBucket, bgVars
  <2>2. /\ DistinctInv'
        /\ \/ /\ UNCHANGED <<device, slotToId, queue>>
              /\ \A x : Pending(x)' => Pending(x)
           \/ \E rows :
                /\ FreshRows(rows) /\ PrefillDone(rows)
                /\ \A x : Pending(x)' => Pending(x) /\ x \notin IdsOf(rows)
    BY <1>1, RowsOfPrefill, RowsOfFlush
  <2>3. CASE UNCHANGED <<device, slotToId, queue>> /\ \A x : Pending(x)' => Pending(x)
    <3>1. ASSUME NEW x, Pending(x)'
          PROVE  Fresh(x)'
      <4>1. x \in Nat \ {0} /\ Fresh(x)
        BY <2>3, <3>1, PendingIds DEF FreshInv
      <4> QED
        BY <2>1, <2>3, <4>1, FreshSame DEF Fresh
    <3> QED
      BY <2>2, <3>1 DEF FreshInv
  <2>4. ASSUME NEW rows, FreshRows(rows), PrefillDone(rows),
               \A x : Pending(x)' => Pending(x) /\ x \notin IdsOf(rows)
        PROVE  FreshInv'
    <3>1. ASSUME NEW x, Pending(x)'
          PROVE  Fresh(x)'
      <4>1. Fresh(x) /\ x \notin IdsOf(rows)
        BY <2>4, <3>1 DEF FreshInv
      <4> QED
        BY <2>1, <2>4, <4>1, FreshPrefilled
    <3> QED
      BY <3>1 DEF FreshInv
  <2> QED
    BY <2>2, <2>3, <2>4
<1>2. CASE UNCHANGED <<data, buckets>> /\ ~(PrefillRow \/ FlushBucket)
  <2>1. DistinctInv'
    BY <1>2 DEF DistinctInv
  <2>2. \A x : Pending(x)' <=> Pending(x)
    BY <1>2 DEF Pending
  <2>3. ASSUME NEW x, Pending(x)
        PROVE  Fresh(x)'
    <3>1. x \in Ids /\ x \in Nat \ {0} /\ Fresh(x)
      BY <2>3, PendingIds DEF FreshInv
    <3>2. /\ \A s \in Slots : slotToId[s] # x
          /\ x \notin completed
          /\ bg = "scan" => \A item \in scan.found : item.id # x
      BY <3>1 DEF Fresh
    <3>3. CASE DecodeStep
      BY <3>1, <3>3, FreshDecoded
    <3>4. CASE BgGetPrefill
      <4>1. /\ Taken /\ Emit(queue[1].items) /\ bg' # "scan" /\ 1 \in 1 .. Len(queue)
            /\ UNCHANGED slotToId
            /\ HasItem(1, x) <=> \E item \in queue[1].items : item.id = x
        BY <3>4, PrefillTaken
      <4>2. \A item \in queue[1].items : item.id # x
        BY <3>1, <4>1 DEF Fresh, Places
      <4> QED
        BY <3>1, <3>2, <4>1, <4>2, NothingGiven, FreshTaken
    <3>5. CASE BgGetDecode
      <4>1. /\ bg = "get" /\ bg' = "scan" /\ queue # <<>> /\ queue' = Tail(queue)
            /\ HasBuffer(Head(queue))
            /\ scan' = [buffer |-> Head(queue).buffer, keys |-> keys, left |-> keys,
                        found |-> {}]
            /\ UNCHANGED <<tokens, completed, device, slotToId>>
        BY <3>5 DEF BgGetDecode, InOrder, HasBuffer, mainVars
      <4>2. queue \in Seq(Task)
        BY DEF TaskInv
      <4>3. Head(queue) = queue[1]
        BY <4>1, <4>2, TakenPlaces
      <4>4. Taken /\ scan'.found = {}
        BY <4>1, <4>2, <4>3 DEF Taken
      <4> QED
        BY <3>1, <3>2, <4>1, <4>4, FreshTaken
    <3>6. CASE BgScanKey
      <4>1. /\ bg = "scan" /\ bg' = "scan" /\ scan \in Scan
            /\ UNCHANGED <<queue, device, slotToId, tokens, completed>>
        BY <3>6 DEF BgScanKey, TaskInv, mainVars, sharedVars
      <4>2. PICK s \in scan.left :
              LET row == [slot |-> s, id |-> slotToId[s], token |-> scan.buffer[s]]
              IN  scan' = [scan EXCEPT
                             !.left = @ \ {s},
                             !.found = IF row.id # NoId /\ row.id \notin completed
                                       THEN @ \union {row} ELSE @]
        BY <3>6 DEF BgScanKey
      <4> DEFINE row == [slot |-> s, id |-> slotToId[s], token |-> scan.buffer[s]]
      <4>3. /\ scan'.buffer = scan.buffer
            /\ scan'.found \in {scan.found, scan.found \union {row}}
        BY <4>1, <4>2 DEF Scan
      <4>4. row.id # x
        BY <3>2, <4>1 DEF Scan
      <4> HIDE DEF row
      <4>5. \A item \in scan'.found : item.id # x
        BY <3>2, <4>1, <4>3, <4>4
      <4> QED
        BY <3>1, <3>2, <4>1, <4>3, <4>5, FreshSame
    <3>7. CASE BgEmitDecode
      <4>1. /\ Emit(scan.found) /\ bg = "scan" /\ bg' # "scan"
            /\ UNCHANGED <<queue, device, slotToId>>
        BY <3>7 DEF BgEmitDecode, Emit, mainVars, sharedVars
      <4> QED
        BY <3>1, <3>2, <4>1, NothingGiven, FreshSame
    <3>8. CASE BgFree
      <4>1. PICK s \in toFree : slotToId' = [slotToId EXCEPT ![s] = NoId]
        BY <3>8 DEF BgFree, Released
      <4>2. \A r \in Slots : slotToId'[r] = x => slotToId[r] = x
        BY <3>1, <4>1 DEF SlotInv
      <4>3. bg' # "scan" /\ UNCHANGED <<queue, device, tokens, completed>>
        BY <3>8 DEF BgFree, mainVars
      <4> QED
        BY <3>1, <3>2, <4>2, <4>3, FreshSame
    <3>9. CASE \/ StartDrain \/ StartDecode \/ StopRunning \/ Join
               \/ BgRaise \/ BgExit \/ UNCHANGED vars
      <4>1. /\ UNCHANGED <<queue, device, slotToId, tokens, completed, scan>>
            /\ bg' = "scan" => bg = "scan"
        BY <3>9 DEF StartDrain, StartDecode, StopRunning, Join, BgRaise, BgExit, vars,
                    mainVars, bgVars, sharedVars
      <4> QED
        BY <3>1, <3>2, <4>1, FreshSame
    <3> QED
      BY <1>2, <3>3, <3>4, <3>5, <3>6, <3>7, <3>8, <3>9 DEF Next, Main, Background
  <2> QED
    BY <2>1, <2>2, <2>3 DEF FreshInv
<1> QED
  BY <1>1, <1>2, RowsLeft

-----------------------------------------------------------------------------
(* The order of the tokens                                                     *)

LEMMA OwnSame ==
  ASSUME OwnInv, UNCHANGED tokens
  PROVE  OwnInv'
BY DEF OwnInv, Unstarted, Started, LastOf, NoneOf, EndsWith, Consecutive, Ids

LEMMA StreamKept ==
  ASSUME TaskInv, SlotInv, TypeInv, EndInv, FreshInv, DistinctInv, StreamInv, [Next]_vars
  PROVE  StreamInv'
<1>1. CASE bg = "killed"
  <2>1. UNCHANGED vars
    BY <1>1 DEF Next, Main, Background, BgGetPrefill, BgGetDecode, BgScanKey, BgEmitDecode,
                BgRaise, BgFree, BgExit
  <2> QED
    BY <1>1, <2>1, OwnSame DEF StreamInv, vars, bgVars
<1>2. CASE bg # "killed"
  <2>1. OwnInv /\ OnTheWay
    BY <1>2 DEF StreamInv
  <2>2. CASE PrefillRow \/ FlushBucket
    <3>1. UNCHANGED <<bg, scan, tokens, completed>>
      BY <2>2 DEF PrefillRow, FlushBucket, bgVars
    <3>2. \/ UNCHANGED <<device, slotToId, queue>>
          \/ \E rows : FreshRows(rows) /\ PrefillDone(rows)
      BY <2>2, RowsOfPrefill, RowsOfFlush
    <3>3. CASE UNCHANGED <<device, slotToId, queue>>
      BY <2>1, <3>1, <3>3, OwnSame, OnTheWaySame DEF StreamInv, TypeInv, OwnItem
    <3>4. ASSUME NEW rows, FreshRows(rows), PrefillDone(rows)
          PROVE  StreamInv'
      BY <2>1, <3>1, <3>4, OwnSame, OnTheWayPrefilled DEF StreamInv
    <3> QED
      BY <3>2, <3>3, <3>4
  <2>3. CASE DecodeStep
    <3>1. UNCHANGED tokens
      BY <2>3 DEF DecodeStep, bgVars
    <3> QED
      BY <2>1, <2>3, <3>1, OwnSame, OnTheWayDecoded DEF StreamInv
  <2>4. CASE BgGetPrefill
    BY <2>1, <2>4, OnTheWayPrefillTaken DEF StreamInv
  <2>5. CASE BgGetDecode
    <3>1. UNCHANGED tokens
      BY <2>5 DEF BgGetDecode
    <3> QED
      BY <2>1, <2>5, <3>1, OwnSame, OnTheWayDecodeTaken DEF StreamInv
  <2>6. CASE BgScanKey
    <3>1. UNCHANGED tokens
      BY <2>6 DEF BgScanKey
    <3> QED
      BY <2>1, <2>6, <3>1, OwnSame, OnTheWayScanned DEF StreamInv
  <2>7. CASE BgEmitDecode
    BY <2>1, <2>7, OnTheWayEmitted DEF StreamInv
  <2>8. CASE BgRaise
    BY <2>1, <2>8, OwnSame DEF StreamInv, BgRaise
  <2>9. CASE BgFree
    <3>1. PICK s \in toFree : slotToId' = [slotToId EXCEPT ![s] = NoId]
      BY <2>9 DEF BgFree, Released
    <3>2. \A r \in Slots, x \in Nat \ {0} : slotToId'[r] = x => slotToId[r] = x
      BY <3>1 DEF SlotInv
    <3>3. /\ bg # "scan" /\ bg' # "scan"
          /\ UNCHANGED <<queue, device, tokens, completed>>
      BY <2>9 DEF BgFree, mainVars
    <3>4. Ids \subseteq Nat \ {0}
      BY DEF TypeInv
    <3> QED
      BY <2>1, <3>2, <3>3, <3>4, OwnSame, OnTheWaySame DEF StreamInv
  <2>10. CASE \/ StartDrain \/ StartDecode \/ StopRunning \/ Join
              \/ BgExit \/ UNCHANGED vars
    <3>1. /\ UNCHANGED <<queue, device, slotToId, tokens, completed, scan>>
          /\ bg' = "scan" <=> bg = "scan"
      BY <2>10 DEF StartDrain, StartDecode, StopRunning, Join, BgExit, vars,
                   mainVars, bgVars, sharedVars
    <3>2. /\ Ids \subseteq Nat \ {0}
          /\ bg = "scan" => \A item \in scan.found : item.id \in Ids
      BY DEF TypeInv, OwnItem
    <3> QED
      BY <2>1, <3>1, <3>2, OwnSame, OnTheWaySame DEF StreamInv
  <2> QED
    BY <2>2, <2>3, <2>4, <2>5, <2>6, <2>7, <2>8, <2>9, <2>10 DEF Next, Main, Background
<1> QED
  BY <1>1, <1>2

(* A call starts with a row for each prompt, and no token.                     *)
LEMMA StreamAtStart ==
  ASSUME Init
  PROVE  StreamInv /\ FreshInv /\ DistinctInv
<1>1. PICK w \in Workloads : /\ data \in PrepareData(w)
                            /\ tokens = [i \in DOMAIN w.lengths |-> <<>>]
  BY DEF Init
<1>2. PICK e : e = <<>>
  OBVIOUS
<1>3. Len(e) = 0
  BY <1>2
<1>4. /\ queue = e /\ bg = "get" /\ device = [s \in Slots |-> Garbage]
      /\ slotToId = [s \in Slots |-> NoId] /\ completed = {}
      /\ \A p \in Paddings : buckets[p] = e
  BY <1>2 DEF Init
<1>5. \A x \in Ids : tokens[x] = e
  BY <1>1, <1>2 DEF Ids
<1>6. TypeInv /\ SlotInv
  BY TypesAtStart, SlotsAtStart
<1>7. Places = 0 .. 1 /\ \A p, x : ~HasItem(p, x)
  BY <1>3, <1>4 DEF Places, HasItem
<1>8. ~HasTokens(0) /\ TokensAt(1) = device
  BY <1>3, <1>4 DEF HasTokens, TokensAt
<1>9. OwnInv
  BY <1>3, <1>5 DEF OwnInv, Unstarted, NoneOf, Consecutive
<1>10. OnTheWay
  <2>1. \A s \in Slots, x \in Ids : slotToId[s] # x
    BY <1>4, <1>6 DEF TypeInv
  <2>2. \A p \in 1 .. Len(queue) : FALSE
    BY <1>3, <1>4
  <2>3. LinkInv /\ ActiveInv /\ OneSlotInv
    BY <2>1 DEF LinkInv, ActiveInv, OneSlotInv
  <2>4. ItemInv
    BY <1>7, <2>2 DEF ItemInv
  <2> QED
    BY <1>4, <2>3, <2>4 DEF OnTheWay, FoundInv
<1>11. FreshInv
  <2>1. SUFFICES ASSUME NEW x, Pending(x)
                 PROVE  Fresh(x)
    BY DEF FreshInv
  <2>2. x \in Ids /\ x \in Nat \ {0}
    BY <1>6, <2>1, PendingIds
  <2>3. \A s \in Slots : device[s][1] = 0 /\ slotToId[s] = 0
    BY <1>4 DEF Garbage
  <2>4. ASSUME NEW i \in Places, NEW s \in Slots, HasTokens(i)
        PROVE  TokensAt(i)[s][1] # x
    <3>1. i = 1
      BY <1>7, <1>8, <2>4
    <3> QED
      BY <1>8, <2>2, <2>3, <3>1
  <2> QED
    BY <1>2, <1>4, <1>5, <1>7, <2>2, <2>3, <2>4 DEF Fresh
<1>12. DistinctInv
  <2> DEFINE n == Len(w.lengths)
             padded == PadData(w.lengths)
  <2>1. /\ n \in Nat /\ data \in [1 .. n -> {padded[i] : i \in 1 .. n}]
        /\ \A i \in 1 .. n : padded[i].id = i /\ padded[i].pad \in Paddings
        /\ \/ \A i, j \in 1 .. n : i < j => Before(data[i], data[j])
           \/ data = padded
    BY <1>1, PreparedRows
  <2> HIDE DEF n, padded
  <2>2. 1 .. Len(data) = 1 .. n
    <3>1. DOMAIN data = 1 .. n /\ data \in Seq({padded[i] : i \in 1 .. n})
      BY <2>1
    <3> QED
      BY <3>1
  <2>3. ASSUME NEW i \in 1 .. n, NEW j \in 1 .. n, i < j
        PROVE  data[i].id # data[j].id
    <3>1. PICK k \in 1 .. n : data[i] = padded[k]
      BY <2>1
    <3>2. PICK m \in 1 .. n : data[j] = padded[m]
      BY <2>1
    <3>3. data[i].id = k /\ data[j].id = m /\ data[i].pad \in Nat /\ data[j].pad \in Nat
      BY <2>1, <3>1, <3>2, PaddingsAreNat
    <3>4. CASE data = padded
      <4>1. data[i].id = i /\ data[j].id = j
        BY <2>1, <3>4
      <4> QED
        BY <2>1, <2>3, <4>1
    <3>5. CASE \A a, b \in 1 .. n : a < b => Before(data[a], data[b])
      <4>1. Before(data[i], data[j])
        BY <2>3, <3>5
      <4>2. ASSUME k = m
            PROVE  FALSE
        <5>1. data[i] = data[j]
          BY <3>1, <3>2, <4>2
        <5> QED
          BY <3>3, <4>1, <4>2, <5>1 DEF Before
      <4> QED
        BY <3>3, <4>2
    <3> QED
      BY <2>1, <3>4, <3>5
  <2>4. \A i, j \in 1 .. Len(data) : data[i].id = data[j].id => i = j
    <3>1. ASSUME NEW i \in 1 .. n, NEW j \in 1 .. n, data[i].id = data[j].id
          PROVE  i = j
      <4>1. ~(i < j) /\ ~(j < i)
        BY <2>3, <3>1
      <4> QED
        BY <2>1, <4>1
    <3> QED
      BY <2>2, <3>1
  <2>5. \A p \in Paddings : \A i \in 1 .. Len(buckets[p]) : FALSE
    BY <1>3, <1>4
  <2> QED
    BY <2>4, <2>5 DEF DistinctInv
<1> QED
  BY <1>9, <1>10, <1>11, <1>12 DEF StreamInv

(* What the threads pass on: the device's results in the order of its steps,   *)
(* each prompt's from its first token on, for one row per prompt.              *)
OrderInv ==
  TaskInv /\ SlotInv /\ TypeInv /\ EndInv /\ StreamInv /\ FreshInv /\ DistinctInv

THEOREM BatchingInvariant == Spec => []OrderInv
<1>1. Init => OrderInv
  BY TasksAtStart, SlotsAtStart, TypesAtStart, EndsAtStart, StreamAtStart DEF OrderInv
<1>2. OrderInv /\ [Next]_vars => OrderInv'
  BY TasksKept, SlotsKept, TypesKept, EndsKept, StreamKept, FreshKept DEF OrderInv
<1> QED
  BY <1>1, <1>2, PTL DEF Spec

(* Whatever slots are freed and given to other prompts while tasks of the one  *)
(* before are in the queue, from its first own token on a prompt has the ones  *)
(* the device computed next, none skipped, none twice, none of another.        *)
THEOREM BatchingInOrder == Spec => []InOrderFromTheFirst
<1>1. OrderInv => InOrderFromTheFirst
  <2>1. SUFFICES ASSUME OrderInv, NEW x \in Ids, NEW i \in DOMAIN tokens[x],
                        NEW j \in DOMAIN tokens[x], i < j, tokens[x][i][1] = x
                 PROVE  tokens[x][j] = <<x, tokens[x][i][2] + (j - i)>>
    BY DEF InOrderFromTheFirst
  <2>2. DOMAIN tokens[x] = 1 .. Len(tokens[x])
    <3>1. tokens[x] \in Seq(Token)
      BY <2>1 DEF OrderInv, EndInv
    <3> HIDE DEF Token
    <3> QED
      BY <3>1
  <2>3. Consecutive(tokens[x], x)
    BY <2>1 DEF OrderInv, StreamInv, OwnInv
  <2> QED
    BY <2>1, <2>2, <2>3 DEF Consecutive
<1> QED
  BY <1>1, BatchingInvariant, PTL

-----------------------------------------------------------------------------
(* A slot for every prompt                                                     *)

Enough == \E n \in Nat : Ids = 1 .. n /\ n <= Cardinality(Slots)

(* There is a slot for each row that is left, so that the prompts are all      *)
(* prefilled before the first decode step.                                     *)
RoomInv ==
  /\ Len(data) <= Cardinality(empty)
  /\ pc = "rows" => left = 0 /\ \A i \in 0 .. Len(queue) : ~HasTokens(i)
  /\ pc # "rows" => \A x : ~Pending(x)
  /\ \A i, j \in Places : i < j /\ HasTokens(i) => HasTokens(j)

(* A slot has no prompt until its row is prefilled, and then that prompt until *)
(* it is complete.                                                             *)
Vacant(s) == slotToId[s] = NoId /\ s \notin toFree

HeldInv ==
  /\ \A s \in empty : Vacant(s) /\ s \notin Waiting
  /\ \A s \in Waiting : Vacant(s)
  /\ \A p, q \in Paddings :
       \A i \in 1 .. Len(buckets[p]), j \in 1 .. Len(buckets[q]) :
         buckets[p][i].slot = buckets[q][j].slot => p = q /\ i = j
  /\ \A p \in 1 .. Len(queue) : ~HasBuffer(queue[p]) =>
       \A item \in queue[p].items :
         slotToId[item.slot] = item.id /\ item.id \notin completed
  /\ \A s \in toFree : slotToId[s] \in completed
  /\ bg = "scan" =>
       \A item \in scan.found : slotToId[item.slot] = item.id /\ Started(item.id)

(* No prompt is forgotten.                                                     *)
CompleteInv ==
  /\ \A x \in Ids : Pending(x) \/ x \in completed \/ \E s \in Slots : slotToId[s] = x
  /\ pc \in {"join", "done"} => completed = Ids

NoReuseInv == Enough => RoomInv /\ HeldInv /\ CompleteInv /\ OwnTokens

(* The slots of the buckets are those of their places.                         *)
LEMMA WaitingPlaces ==
  ASSUME NEW s, NEW b \in [Paddings -> Seq(Row)]
  PROVE  (\E q \in Paddings : s \in SlotsOf(b[q])) <=>
           \E q \in Paddings : \E i \in 1 .. Len(b[q]) : b[q][i].slot = s
<1>1. \A q \in Paddings : DOMAIN b[q] = 1 .. Len(b[q])
  <2> HIDE DEF Row
  <2> QED
    OBVIOUS
<1> QED
  BY <1>1 DEF SlotsOf

LEMMA WaitingSlots ==
  ASSUME SlotInv
  PROVE  \A s : s \in Waiting <=>
           \E q \in Paddings : \E i \in 1 .. Len(buckets[q]) : buckets[q][i].slot = s
BY WaitsInABucket, WaitingPlaces DEF SlotInv

LEMMA WaitingSlotsAfter ==
  ASSUME SlotInv'
  PROVE  \A s : s \in Waiting' <=>
           \E q \in Paddings : \E i \in 1 .. Len(buckets'[q]) : buckets'[q][i].slot = s
<1>1. buckets' \in [Paddings -> Seq(Row)]
  BY DEF SlotInv
<1>2. \A s : s \in Waiting' <=> \E q \in Paddings : s \in SlotsOf(buckets'[q])
  BY DEF Waiting, SlotsOf
<1> QED
  BY <1>1, <1>2, WaitingPlaces

(* Each row of the buckets was there, or has a slot that was just taken.       *)
LEMMA SlotsMoved ==
  ASSUME SlotInv, SlotInv', HeldInv, empty' \subseteq empty, NEW p,
         \A q \in Paddings : \A i \in 1 .. Len(buckets'[q]) :
           \/ i \in 1 .. Len(buckets[q]) /\ buckets'[q][i] = buckets[q][i]
           \/ q = p /\ i = Len(buckets'[p]) /\ buckets'[q][i].slot \in empty \ empty'
  PROVE  /\ \A q, r \in Paddings :
              \A i \in 1 .. Len(buckets'[q]), j \in 1 .. Len(buckets'[r]) :
                buckets'[q][i].slot = buckets'[r][j].slot => q = r /\ i = j
         /\ \A s \in Waiting' : Vacant(s) /\ s \notin empty'
         /\ \A s \in empty' : Vacant(s)
<1> DEFINE Old(q, i) == i \in 1 .. Len(buckets[q]) /\ buckets'[q][i] = buckets[q][i]
           New(q, i) == /\ q = p /\ i = Len(buckets'[p])
                        /\ buckets'[q][i].slot \in empty \ empty'
<1>1. \A q \in Paddings : \A i \in 1 .. Len(buckets'[q]) : Old(q, i) \/ New(q, i)
  OBVIOUS
<1>2. \A q \in Paddings : \A i \in 1 .. Len(buckets'[q]) :
        Old(q, i) => buckets'[q][i].slot \in Waiting
  BY WaitingSlots
<1>3. \A s \in Waiting : s \notin empty /\ Vacant(s)
  BY DEF HeldInv
<1>4. \A s \in empty : Vacant(s)
  BY DEF HeldInv
<1>5. ASSUME NEW q \in Paddings, NEW r \in Paddings, NEW i \in 1 .. Len(buckets'[q]),
             NEW j \in 1 .. Len(buckets'[r]), buckets'[q][i].slot = buckets'[r][j].slot
      PROVE  q = r /\ i = j
  <2>1. CASE Old(q, i) /\ Old(r, j)
    BY <1>5, <2>1 DEF HeldInv
  <2>2. CASE Old(q, i) /\ New(r, j)
    BY <1>2, <1>3, <1>5, <2>2
  <2>3. CASE New(q, i) /\ Old(r, j)
    BY <1>2, <1>3, <1>5, <2>3
  <2>4. CASE New(q, i) /\ New(r, j)
    BY <2>4
  <2> QED
    BY <1>1, <2>1, <2>2, <2>3, <2>4
<1>6. ASSUME NEW s \in Waiting'
      PROVE  Vacant(s) /\ s \notin empty'
  <2>1. PICK q \in Paddings : \E i \in 1 .. Len(buckets'[q]) : buckets'[q][i].slot = s
    BY WaitingSlotsAfter
  <2>2. PICK i \in 1 .. Len(buckets'[q]) : buckets'[q][i].slot = s
    BY <2>1
  <2>3. CASE Old(q, i)
    BY <1>2, <1>3, <2>2, <2>3
  <2>4. CASE New(q, i)
    BY <1>4, <2>2, <2>4
  <2> QED
    BY <1>1, <2>3, <2>4
<1> QED
  BY <1>4, <1>5, <1>6

(* A row taken or a bucket flushed, for the slots: the rows prefilled, if any, *)
(* get vacant slots, one each, and the slots still free or waiting are others. *)
PrefilledOrNot(rows) ==
  \/ PrefillDone(rows)
  \/ rows = <<>> /\ UNCHANGED <<device, slotToId, keys, queue>>

OneSlotEach(rows) ==
  /\ rows \in Seq(Row)
  /\ \A i, j \in DOMAIN rows : rows[i].slot = rows[j].slot => i = j
  /\ \A i \in DOMAIN rows : Pending(rows[i].id) /\ Vacant(rows[i].slot)
  /\ \A x : Pending(x) => Pending(x)' \/ x \in IdsOf(rows)

SlotsApart(rows) ==
  /\ \A q, r \in Paddings :
       \A i \in 1 .. Len(buckets'[q]), j \in 1 .. Len(buckets'[r]) :
         buckets'[q][i].slot = buckets'[r][j].slot => q = r /\ i = j
  /\ \A s \in Waiting' : Vacant(s) /\ s \notin empty' /\ s \notin SlotsOf(rows)
  /\ \A s \in empty' : Vacant(s) /\ s \notin SlotsOf(rows)

(* The rows of one bucket are prefilled, and in it is at most a row whose slot *)
(* was just taken.                                                             *)
LEMMA BucketPrefilled ==
  ASSUME SlotInv, SlotInv', TypeInv, HeldInv, empty' \subseteq empty, NEW p \in Paddings,
         \A q \in Paddings : \A i \in 1 .. Len(buckets'[q]) :
           \/ q # p /\ i \in 1 .. Len(buckets[q]) /\ buckets'[q][i] = buckets[q][i]
           \/ q = p /\ i = Len(buckets'[p]) /\ buckets'[q][i].slot \in empty \ empty',
         \A q \in Paddings \ {p} : buckets'[q] = buckets[q],
         \A i \in 1 .. Len(data) :
           \/ \E j \in 1 .. Len(data') : data'[j].id = data[i].id
           \/ \E j \in 1 .. Len(buckets'[p]) : buckets'[p][j].id = data[i].id
  PROVE  OneSlotEach(buckets[p]) /\ SlotsApart(buckets[p])
<1>1. buckets[p] \in Seq(Row) /\ DOMAIN buckets[p] = 1 .. Len(buckets[p])
  <2>1. buckets[p] \in Seq(Row)
    BY DEF SlotInv
  <2> HIDE DEF Row
  <2> QED
    BY <2>1
<1>2. /\ \A q, r \in Paddings :
           \A i \in 1 .. Len(buckets'[q]), j \in 1 .. Len(buckets'[r]) :
             buckets'[q][i].slot = buckets'[r][j].slot => q = r /\ i = j
      /\ \A s \in Waiting' : Vacant(s) /\ s \notin empty'
      /\ \A s \in empty' : Vacant(s)
  BY SlotsMoved
<1>3. \A s \in SlotsOf(buckets[p]) :
        \E i \in 1 .. Len(buckets[p]) : buckets[p][i].slot = s
  BY <1>1 DEF SlotsOf
<1>4. \A i \in 1 .. Len(buckets[p]) : buckets[p][i].slot \in Waiting
  BY WaitingSlots
<1>5. \A s \in Waiting : s \notin empty /\ Vacant(s)
  BY DEF HeldInv
<1>6. \A s \in empty : s \notin SlotsOf(buckets[p])
  BY <1>3, <1>4, <1>5
<1>7. ASSUME NEW s \in Waiting'
      PROVE  s \notin SlotsOf(buckets[p])
  <2>1. PICK q \in Paddings : \E i \in 1 .. Len(buckets'[q]) : buckets'[q][i].slot = s
    BY WaitingSlotsAfter
  <2>2. PICK i \in 1 .. Len(buckets'[q]) : buckets'[q][i].slot = s
    BY <2>1
  <2>3. CASE q # p /\ i \in 1 .. Len(buckets[q]) /\ buckets'[q][i] = buckets[q][i]
    BY <1>3, <2>2, <2>3 DEF HeldInv
  <2>4. CASE s \in empty
    BY <1>6, <2>4
  <2> QED
    BY <2>2, <2>3, <2>4
<1>8. SlotsApart(buckets[p])
  BY <1>2, <1>6, <1>7 DEF SlotsApart
<1>9. \A i, j \in DOMAIN buckets[p] : buckets[p][i].slot = buckets[p][j].slot => i = j
  BY <1>1 DEF HeldInv
<1>10. \A i \in DOMAIN buckets[p] : Pending(buckets[p][i].id) /\ Vacant(buckets[p][i].slot)
  BY <1>1, <1>4, <1>5 DEF Pending
<1>11. ASSUME NEW x, Pending(x)
       PROVE  Pending(x)' \/ x \in IdsOf(buckets[p])
  <2>1. CASE \E i \in 1 .. Len(data) : data[i].id = x
    BY <2>1 DEF Pending
  <2>2. CASE \E q \in Paddings : \E i \in 1 .. Len(buckets[q]) : buckets[q][i].id = x
    <3>1. PICK q \in Paddings : \E i \in 1 .. Len(buckets[q]) : buckets[q][i].id = x
      BY <2>2
    <3>2. CASE q = p
      BY <1>1, <3>1, <3>2 DEF IdsOf
    <3>3. CASE q # p
      BY <3>1, <3>3 DEF Pending
    <3> QED
      BY <3>2, <3>3
  <2> QED
    BY <1>11, <2>1, <2>2 DEF Pending
<1> QED
  BY <1>1, <1>8, <1>9, <1>10, <1>11 DEF OneSlotEach

LEMMA FlushHeld ==
  ASSUME SlotInv, SlotInv', TypeInv, HeldInv, FlushBucket
  PROVE  \E rows : /\ PrefilledOrNot(rows) /\ OneSlotEach(rows) /\ SlotsApart(rows)
                   /\ UNCHANGED <<toFree, completed, tokens, bg, scan, empty, data>>
<1>1. PICK p \in Paddings :
        PrefillDone(buckets[p]) /\ buckets' = [buckets EXCEPT ![p] = <<>>]
  BY DEF FlushBucket
<1>2. UNCHANGED <<toFree, completed, tokens, bg, scan, empty, data>>
  BY DEF FlushBucket, bgVars
<1>3. buckets \in [Paddings -> Seq(Row)]
  BY DEF SlotInv
<1>4. PICK e : e = <<>>
  OBVIOUS
<1>5. Len(e) = 0 /\ buckets'[p] = e /\ \A q \in Paddings \ {p} : buckets'[q] = buckets[q]
  BY <1>1, <1>3, <1>4
<1>6. \A q \in Paddings : \A i \in 1 .. Len(buckets'[q]) :
        q # p /\ i \in 1 .. Len(buckets[q]) /\ buckets'[q][i] = buckets[q][i]
  BY <1>5
<1>7. OneSlotEach(buckets[p]) /\ SlotsApart(buckets[p])
  BY <1>2, <1>5, <1>6, BucketPrefilled
<1> QED
  BY <1>1, <1>2, <1>7 DEF PrefilledOrNot

LEMMA RowHeld ==
  ASSUME SlotInv, SlotInv', TypeInv, HeldInv, PrefillRow
  PROVE  \E rows : /\ PrefilledOrNot(rows) /\ OneSlotEach(rows) /\ SlotsApart(rows)
                   /\ UNCHANGED <<toFree, completed, tokens, bg, scan>>
<1>1. /\ data # <<>> /\ data' = Tail(data)
      /\ UNCHANGED <<toFree, completed, tokens, bg, scan>>
  BY RowWays
<1>2. PICK s \in empty :
        /\ empty' = empty \ {s}
        /\ \/ PrefillDone(<<NextRow(s)>>) /\ UNCHANGED buckets
           \/ /\ buckets' = [buckets EXCEPT ![NextRow(s).pad] = Append(@, NextRow(s))]
              /\ UNCHANGED <<device, slotToId, keys, queue>>
           \/ /\ PrefillDone(buckets[NextRow(s).pad])
              /\ buckets' = [buckets EXCEPT ![NextRow(s).pad] = <<NextRow(s)>>]
  BY RowWays
<1> DEFINE row == NextRow(s)
           p == row.pad
<1>3. row \in Row /\ p \in Paddings /\ row.slot = s
  BY <1>1, <1>2, NextRowTyped DEF SlotInv
<1>4. /\ Len(data) \in Nat \ {0} /\ Head(data) = data[1] /\ Len(data') = Len(data) - 1
      /\ \A i \in 1 .. Len(data) - 1 : data'[i] = data[i + 1]
  BY <1>1, TakenPlaces DEF SlotInv
<1>5. row.id = data[1].id /\ 1 \in 1 .. Len(data)
  BY <1>4 DEF NextRow
<1> HIDE DEF row
<1>6. \A i \in 1 .. Len(data) :
        data[i].id = row.id \/ \E j \in 1 .. Len(data') : data'[j].id = data[i].id
  <2>1. ASSUME NEW i \in 1 .. Len(data), i # 1
        PROVE  i - 1 \in 1 .. Len(data') /\ data'[i - 1] = data[i]
    BY <1>4, <2>1
  <2> QED
    BY <1>5, <2>1
<1>7. buckets \in [Paddings -> Seq(Row)] /\ buckets' \in [Paddings -> Seq(Row)]
  BY DEF SlotInv
<1>8. Vacant(s) /\ s \notin Waiting /\ s \notin empty' /\ empty' \subseteq empty
  BY <1>2 DEF HeldInv
<1>9. /\ Len(<<row>>) = 1 /\ <<row>>[1] = row /\ DOMAIN <<row>> = 1 .. 1
      /\ <<row>> \in Seq(Row)
  <2> HIDE DEF Row
  <2> QED
    BY <1>3
<1>10. PICK one : one = <<row>>
  OBVIOUS
<1>11. PICK more : more = Append(buckets[p], row)
  OBVIOUS
<1>12. CASE PrefillDone(<<row>>) /\ UNCHANGED buckets
  <2>1. \A i \in DOMAIN one : i = 1 /\ one[i] = row
    BY <1>9, <1>10
  <2>2. 1 \in DOMAIN one /\ one[1] = row
    BY <1>9, <1>10
  <2>3. SlotsOf(one) = {s} /\ IdsOf(one) = {row.id}
    BY <1>3, <2>1, <2>2 DEF SlotsOf, IdsOf
  <2>4. SlotsApart(one)
    <3>1. /\ \A q, r \in Paddings :
               \A i \in 1 .. Len(buckets'[q]), j \in 1 .. Len(buckets'[r]) :
                 buckets'[q][i].slot = buckets'[r][j].slot => q = r /\ i = j
          /\ \A t \in Waiting' : Vacant(t) /\ t \notin empty'
          /\ \A t \in empty' : Vacant(t)
      BY <1>8, <1>12, SlotsMoved
    <3>2. Waiting' = Waiting
      BY <1>12 DEF Waiting
    <3> QED
      BY <1>8, <2>3, <3>1, <3>2 DEF SlotsApart
  <2>5. \A x : Pending(x) => Pending(x)' \/ x = row.id
    BY <1>6, <1>12 DEF Pending
  <2>6. Pending(row.id)
    BY <1>5 DEF Pending
  <2>7. OneSlotEach(one)
    BY <1>3, <1>8, <1>9, <1>10, <2>1, <2>3, <2>5, <2>6 DEF OneSlotEach
  <2> QED
    BY <1>1, <1>10, <1>12, <2>4, <2>7 DEF PrefilledOrNot
<1>13. CASE /\ buckets' = [buckets EXCEPT ![p] = Append(@, row)]
            /\ UNCHANGED <<device, slotToId, keys, queue>>
  <2>1. buckets'[p] = more /\ \A q \in Paddings : q # p => buckets'[q] = buckets[q]
    BY <1>3, <1>7, <1>11, <1>13
  <2>2. /\ Len(buckets[p]) \in Nat /\ Len(more) = Len(buckets[p]) + 1
        /\ more[Len(buckets[p]) + 1] = row
        /\ \A i \in 1 .. Len(buckets[p]) : more[i] = buckets[p][i]
    <3>1. buckets[p] \in Seq(Row)
      <4> HIDE DEF Row
      <4> QED
        BY <1>3, <1>7
    <3> QED
      BY <1>3, <1>11, <3>1, AddedPlaces
  <2>3. ASSUME NEW q \in Paddings, NEW i \in 1 .. Len(buckets'[q])
        PROVE  \/ i \in 1 .. Len(buckets[q]) /\ buckets'[q][i] = buckets[q][i]
               \/ q = p /\ i = Len(buckets'[p]) /\ buckets'[q][i].slot \in empty \ empty'
    <3>1. CASE q = p
      BY <1>2, <1>3, <1>8, <2>1, <2>2, <2>3, <3>1
    <3>2. CASE q # p
      BY <2>1, <2>3, <3>2
    <3> QED
      BY <3>1, <3>2
  <2>4. PICK e : e = <<>>
    OBVIOUS
  <2>5. e \in Seq(Row) /\ DOMAIN e = {}
    <3> HIDE DEF Row
    <3> QED
      BY <2>4
  <2>6. SlotsApart(e)
    <3>1. /\ \A q, r \in Paddings :
               \A i \in 1 .. Len(buckets'[q]), j \in 1 .. Len(buckets'[r]) :
                 buckets'[q][i].slot = buckets'[r][j].slot => q = r /\ i = j
          /\ \A t \in Waiting' : Vacant(t) /\ t \notin empty'
          /\ \A t \in empty' : Vacant(t)
      BY <1>8, <2>3, SlotsMoved
    <3> QED
      BY <2>5, <3>1 DEF SlotsApart, SlotsOf
  <2>7. ASSUME NEW x, Pending(x)
        PROVE  Pending(x)'
    <3>1. \E i \in 1 .. Len(buckets'[p]) : buckets'[p][i].id = row.id
      BY <2>1, <2>2
    <3>2. CASE \E i \in 1 .. Len(data) : data[i].id = x
      BY <1>3, <1>6, <3>1, <3>2 DEF Pending
    <3>3. CASE \E q \in Paddings : \E i \in 1 .. Len(buckets[q]) : buckets[q][i].id = x
      <4>1. PICK q \in Paddings : \E i \in 1 .. Len(buckets[q]) : buckets[q][i].id = x
        BY <3>3
      <4>2. \E i \in 1 .. Len(buckets'[q]) : buckets'[q][i].id = x
        BY <2>1, <2>2, <4>1
      <4> QED
        BY <4>2 DEF Pending
    <3> QED
      BY <2>7, <3>2, <3>3 DEF Pending
  <2>8. OneSlotEach(e)
    BY <2>5, <2>7 DEF OneSlotEach
  <2> QED
    BY <1>1, <1>13, <2>4, <2>6, <2>8 DEF PrefilledOrNot
<1>14. CASE PrefillDone(buckets[p]) /\ buckets' = [buckets EXCEPT ![p] = <<row>>]
  <2>1. buckets'[p] = one /\ \A q \in Paddings \ {p} : buckets'[q] = buckets[q]
    BY <1>3, <1>7, <1>10, <1>14
  <2>2. ASSUME NEW q \in Paddings, NEW i \in 1 .. Len(buckets'[q])
        PROVE  \/ q # p /\ i \in 1 .. Len(buckets[q]) /\ buckets'[q][i] = buckets[q][i]
               \/ q = p /\ i = Len(buckets'[p]) /\ buckets'[q][i].slot \in empty \ empty'
    <3>1. CASE q = p
      <4>1. i = 1 /\ Len(buckets'[p]) = 1 /\ buckets'[p][1] = row
        <5>1. Len(buckets'[p]) = 1 /\ buckets'[p][1] = row
          BY <1>9, <1>10, <2>1
        <5>2. i \in 1 .. Len(buckets'[p])
          BY <2>2, <3>1
        <5> QED
          BY <5>1, <5>2
      <4> QED
        BY <1>2, <1>3, <1>8, <3>1, <4>1
    <3>2. CASE q # p
      BY <2>1, <2>2, <3>2
    <3> QED
      BY <3>1, <3>2
  <2>3. \A i \in 1 .. Len(data) :
          \/ \E j \in 1 .. Len(data') : data'[j].id = data[i].id
          \/ \E j \in 1 .. Len(buckets'[p]) : buckets'[p][j].id = data[i].id
    BY <1>6, <1>9, <1>10, <2>1
  <2>4. OneSlotEach(buckets[p]) /\ SlotsApart(buckets[p])
    BY <1>3, <1>8, <2>1, <2>2, <2>3, BucketPrefilled
  <2> QED
    BY <1>1, <1>14, <2>4 DEF PrefilledOrNot
<1> QED
  BY <1>2, <1>12, <1>13, <1>14 DEF row

-----------------------------------------------------------------------------
(* Room for all                                                                *)

LEMMA OrderKept == OrderInv /\ [Next]_vars => OrderInv'
BY TasksKept, SlotsKept, TypesKept, EndsKept, StreamKept, FreshKept DEF OrderInv

LEMMA EnoughKept == [Next]_vars => (Enough' <=> Enough)
BY IdsKept DEF Enough

LEMMA QueueLength == TaskInv => Len(queue) \in Nat
<1> SUFFICES ASSUME TaskInv PROVE Len(queue) \in Nat
  OBVIOUS
<1>1. queue \in Seq(Task)
  BY DEF TaskInv
<1> HIDE DEF Task
<1> QED
  BY <1>1

(* A slot that is taken, and one that is freed, for the number of free slots.  *)
LEMMA FreeSlots ==
  ASSUME SlotInv
  PROVE  /\ IsFiniteSet(empty) /\ Cardinality(empty) \in Nat
         /\ Cardinality(empty) = 0 <=> empty = {}
         /\ \A s \in empty : Cardinality(empty \ {s}) = Cardinality(empty) - 1
         /\ \A s \in Slots : Cardinality(empty) <= Cardinality(empty \union {s})
<1>1. IsFiniteSet(Slots) /\ empty \in SUBSET Slots
  BY BatchingAssumption DEF BatchingAssumption, SlotInv
<1>2. IsFiniteSet(empty)
  BY <1>1, FS_Subset
<1>3. Cardinality(empty) \in Nat
  BY <1>2, FS_CardinalityType
<1>4. Cardinality(empty) = 0 <=> empty = {}
  BY <1>2, FS_EmptySet
<1>5. \A s \in empty : Cardinality(empty \ {s}) = Cardinality(empty) - 1
  BY <1>2, FS_RemoveElement
<1>6. ASSUME NEW s \in Slots
      PROVE  Cardinality(empty) <= Cardinality(empty \union {s})
  <2>1. Cardinality(empty \union {s}) =
          IF s \in empty THEN Cardinality(empty) ELSE Cardinality(empty) + 1
    BY <1>2, FS_AddElement
  <2> QED
    BY <1>3, <2>1
<1> QED
  BY <1>2, <1>3, <1>4, <1>5, <1>6

LEMMA SlotsLeftKept ==
  ASSUME SlotInv, Len(data) <= Cardinality(empty), TaskInv, [Next]_vars
  PROVE  Len(data') <= Cardinality(empty')
<1>1. /\ Cardinality(empty) \in Nat
      /\ \A s \in empty : Cardinality(empty \ {s}) = Cardinality(empty) - 1
      /\ \A s \in Slots : Cardinality(empty) <= Cardinality(empty \union {s})
  BY FreeSlots
<1>2. Len(data) \in Nat
  <2>1. data \in Seq(Prompt)
    BY DEF SlotInv
  <2> HIDE DEF Prompt
  <2> QED
    BY <2>1
<1>3. CASE PrefillRow
  <2>1. data # <<>> /\ data' = Tail(data) /\ \E s \in empty : empty' = empty \ {s}
    BY <1>3, RowWays
  <2>2. Len(data') = Len(data) - 1
    BY <2>1, TakenPlaces DEF SlotInv
  <2>3. Cardinality(empty') = Cardinality(empty) - 1
    BY <1>1, <2>1
  <2> QED
    BY <1>1, <1>2, <2>2, <2>3
<1>4. CASE BgFree
  <2>1. data' = data /\ \E s \in Slots : empty' = empty \union {s}
    BY <1>4 DEF BgFree, mainVars, TaskInv
  <2>2. Cardinality(empty) <= Cardinality(empty')
    BY <1>1, <2>1
  <2>3. Cardinality(empty') \in Nat
    <3>1. IsFiniteSet(Slots) /\ empty' \in SUBSET Slots
      BY <2>1, BatchingAssumption DEF BatchingAssumption, SlotInv
    <3>2. IsFiniteSet(empty')
      BY <3>1, FS_Subset
    <3> QED
      BY <3>2, FS_CardinalityType
  <2> QED
    BY <1>1, <1>2, <2>1, <2>2, <2>3
<1>5. CASE ~(PrefillRow \/ BgFree)
  <2>1. data' = data /\ empty' = empty
    BY <1>5 DEF Next, Main, Background, FlushBucket, StartDrain, StartDecode, DecodeStep,
                StopRunning, Join, BgGetPrefill, BgGetDecode, BgScanKey, BgEmitDecode,
                BgRaise, BgExit, vars, mainVars, sharedVars
  <2> QED
    BY <2>1
<1> QED
  BY <1>3, <1>4, <1>5

(* The tokens of the places, after each step: which places have some.          *)
LEMMA TokensOrdered ==
  ASSUME OrderInv, RoomInv, HeldInv, SlotInv', [Next]_vars
  PROVE  /\ pc' = "rows" => \A i \in 0 .. Len(queue') : ~HasTokens(i)'
         /\ \A i, j \in Places' : i < j /\ HasTokens(i)' => HasTokens(j)'
<1> DEFINE n == Len(queue)
<1>1. n \in Nat /\ TaskInv /\ TypeInv /\ SlotInv /\ Places = 0 .. n + 1
  BY QueueLength DEF OrderInv, Places
<1>2. pc' = "rows" => pc = "rows"
  BY DEF Next, Main, Background, PrefillRow, FlushBucket, StartDrain, StartDecode, DecodeStep,
         StopRunning, Join, BgGetPrefill, BgGetDecode, BgScanKey, BgEmitDecode,
         BgRaise, BgFree, BgExit, vars, mainVars
<1>3. /\ pc = "rows" => left = 0 /\ \A i \in 0 .. n : ~HasTokens(i)
      /\ \A i, j \in Places : i < j /\ HasTokens(i) => HasTokens(j)
  BY DEF RoomInv
<1>4. ASSUME NEW q, q = Len(queue'), UNCHANGED queue, bg' = "scan" => bg = "scan"
      PROVE  /\ pc' = "rows" => \A i \in 0 .. Len(queue') : ~HasTokens(i)'
             /\ \A i, j \in Places' : i < j /\ HasTokens(i)' => HasTokens(j)'
  <2>1. /\ Len(queue') = n /\ Places' = Places
        /\ \A i \in 1 .. n + 1 : HasTokens(i)' <=> HasTokens(i)
        /\ HasTokens(0)' => HasTokens(0)
    BY <1>1, <1>4 DEF HasTokens, HasBuffer, Places
  <2>2. \A i \in 0 .. n + 1 : HasTokens(i)' => HasTokens(i)
    BY <1>1, <2>1
  <2>3. pc' = "rows" => \A i \in 0 .. Len(queue') : ~HasTokens(i)'
    BY <1>1, <1>2, <1>3, <2>1, <2>2
  <2>4. ASSUME NEW i \in Places, NEW j \in Places, i < j, HasTokens(i)'
        PROVE  HasTokens(j)'
    BY <1>1, <1>3, <2>1, <2>2, <2>4
  <2> QED
    BY <2>1, <2>3, <2>4
<1>5. CASE PrefillRow \/ FlushBucket
  <2>1. UNCHANGED <<bg, scan>> /\ pc = "rows"
    BY <1>5 DEF PrefillRow, FlushBucket, bgVars
  <2>2. PICK rows : PrefilledOrNot(rows) /\ OneSlotEach(rows)
    BY <1>1, <1>5, RowHeld, FlushHeld
  <2>3. CASE UNCHANGED queue
    BY <1>4, <2>1, <2>3
  <2>4. CASE PrefillDone(rows)
    <3> DEFINE task == [items |-> FirstItems(rows)]
    <3>1. queue' = Append(queue, task) /\ queue \in Seq(Task) /\ task \in Task
      BY <1>1, <2>2, <2>4, PrefillEffect DEF OneSlotEach
    <3>2. ~HasBuffer(task)
      BY DEF HasBuffer
    <3> HIDE DEF task
    <3>3. /\ Len(queue') = n + 1
          /\ \A i \in 0 .. n : HasTokens(i)' <=> HasTokens(i)
          /\ \A i : i = n + 1 => ~HasTokens(i)'
      BY <2>1, <3>1, <3>2, AddedTokens
    <3>4. \A i \in 0 .. n + 1 : ~HasTokens(i)'
      BY <1>1, <1>3, <2>1, <3>3
    <3>5. Places' = 0 .. n + 2
      BY <1>1, <3>3 DEF Places
    <3> QED
      BY <1>1, <3>3, <3>4, <3>5
  <2> QED
    BY <2>2, <2>3, <2>4 DEF PrefilledOrNot
<1>6. CASE DecodeStep
  <2> DEFINE task == [buffer |-> device]
  <2>1. /\ UNCHANGED <<bg, scan>> /\ left > 0 /\ pc' = pc
        /\ queue' = Append(queue, task)
    BY <1>6 DEF DecodeStep, Result, bgVars
  <2>2. queue \in Seq(Task) /\ task \in Task /\ HasBuffer(task)
    BY <1>1 DEF TaskInv, Task, HasBuffer
  <2> HIDE DEF task
  <2>3. /\ Len(queue') = n + 1
        /\ \A i \in 0 .. n : HasTokens(i)' <=> HasTokens(i)
        /\ \A i : i = n + 1 => HasTokens(i)'
        /\ \A i : i = n + 2 => HasTokens(i)'
    BY <2>1, <2>2, AddedTokens
  <2>4. pc' # "rows"
    BY <1>3, <2>1
  <2>5. Places' = 0 .. n + 2
    BY <1>1, <2>3 DEF Places
  <2>6. ASSUME NEW i \in Places', NEW j \in Places', i < j, HasTokens(i)'
        PROVE  HasTokens(j)'
    <3>1. CASE j \in 0 .. n
      BY <1>1, <1>3, <2>3, <2>5, <2>6, <3>1
    <3>2. CASE j = n + 1 \/ j = n + 2
      BY <2>3, <3>2
    <3> QED
      BY <1>1, <2>5, <3>1, <3>2
  <2> QED
    BY <2>4, <2>6
<1>7. CASE BgGetPrefill \/ BgGetDecode
  <2>1. Taken /\ pc' = pc /\ (BgGetDecode => HasBuffer(queue[1]))
    <3>1. CASE BgGetPrefill
      <4>1. Taken /\ ~HasBuffer(queue[1])
        BY <1>1, <3>1, PrefillTaken
      <4>2. pc' = pc /\ "items" \in DOMAIN Head(queue) /\ bg' # "scan"
        BY <3>1 DEF BgGetPrefill, InOrder, mainVars, Emit
      <4>3. BgGetDecode => FALSE
        BY <4>2 DEF BgGetDecode
      <4> QED
        BY <4>1, <4>2, <4>3
    <3>2. CASE BgGetDecode
      <4>1. /\ bg = "get" /\ bg' = "scan" /\ queue # <<>> /\ queue' = Tail(queue)
            /\ HasBuffer(Head(queue)) /\ device' = device /\ pc' = pc
            /\ scan' = [buffer |-> Head(queue).buffer, keys |-> keys, left |-> keys,
                        found |-> {}]
        BY <3>2 DEF BgGetDecode, InOrder, HasBuffer, mainVars
      <4>2. queue \in Seq(Task)
        BY <1>1 DEF TaskInv
      <4>3. Head(queue) = queue[1]
        BY <4>1, <4>2, TakenPlaces
      <4> QED
        BY <4>1, <4>2, <4>3 DEF Taken
    <3> QED
      BY <1>7, <3>1, <3>2
  <2>2. /\ n \in Nat \ {0} /\ Len(queue') = n - 1
        /\ \A i \in 0 .. n : HasTokens(i)' <=> HasTokens(i + 1)
    BY <2>1, TakenTokens
  <2>3. Places' = 0 .. n
    BY <2>2 DEF Places
  <2>4. ASSUME pc' = "rows", NEW i \in 0 .. Len(queue')
        PROVE  ~HasTokens(i)'
    <3>1. i \in 0 .. n /\ i + 1 \in 0 .. n
      BY <2>2, <2>4
    <3> QED
      BY <1>3, <2>1, <2>2, <2>4, <3>1
  <2>5. ASSUME NEW i \in Places', NEW j \in Places', i < j, HasTokens(i)'
        PROVE  HasTokens(j)'
    <3>1. /\ i \in 0 .. n /\ j \in 0 .. n /\ i + 1 < j + 1
          /\ i + 1 \in Places /\ j + 1 \in Places
      BY <1>1, <2>3, <2>5
    <3> QED
      BY <1>3, <2>2, <2>5, <3>1
  <2> QED
    BY <2>4, <2>5
<1>8. CASE ~(PrefillRow \/ FlushBucket \/ DecodeStep \/ BgGetPrefill \/ BgGetDecode)
  <2>1. UNCHANGED queue /\ (bg' = "scan" => bg = "scan")
    BY <1>8 DEF Next, Main, Background, StartDrain, StartDecode, StopRunning, Join, BgScanKey,
                BgEmitDecode, Emit, BgRaise, BgFree, BgExit, vars, mainVars, sharedVars, bgVars
  <2> QED
    BY <1>4, <2>1
<1> QED
  BY <1>5, <1>6, <1>7, <1>8

LEMMA RoomKept ==
  ASSUME OrderInv, SlotInv', RoomInv, HeldInv, [Next]_vars
  PROVE  RoomInv'
<1>1. TaskInv /\ TypeInv /\ SlotInv
  BY DEF OrderInv
<1>2. Len(data') <= Cardinality(empty')
  BY <1>1, SlotsLeftKept DEF RoomInv
<1>3. /\ pc' = "rows" => \A i \in 0 .. Len(queue') : ~HasTokens(i)'
      /\ \A i, j \in Places' : i < j /\ HasTokens(i)' => HasTokens(j)'
  BY TokensOrdered
<1>4. ASSUME pc' = "rows"
      PROVE  left' = 0
  <2>1. pc = "rows" /\ left = 0
    BY <1>4 DEF Next, Main, Background, PrefillRow, FlushBucket, StartDrain, StartDecode,
                DecodeStep, StopRunning, Join, BgGetPrefill, BgGetDecode, BgScanKey,
                BgEmitDecode, BgRaise, BgFree, BgExit, vars, mainVars, RoomInv
  <2>2. ASSUME StartDecode
        PROVE  FALSE
    <3>1. data # <<>> /\ empty = {}
      BY <2>1, <2>2 DEF StartDecode, SlotWanted
    <3>2. Len(data) > 0
      BY <1>1, <3>1, TakenPlaces DEF SlotInv
    <3>3. Cardinality(empty) = 0
      BY <1>1, <3>1, FreeSlots
    <3> QED
      BY <3>2, <3>3 DEF RoomInv
  <2>3. ~DecodeStep
    BY <2>1 DEF DecodeStep
  <2>4. ~DecodeStep /\ ~StartDecode => UNCHANGED left
    BY DEF Next, Main, Background, PrefillRow, FlushBucket, StartDrain,
           StopRunning, Join, BgGetPrefill, BgGetDecode, BgScanKey,
           BgEmitDecode, BgRaise, BgFree, BgExit, vars, mainVars
  <2> QED
    BY <2>1, <2>2, <2>3, <2>4
<1>5. ASSUME pc' # "rows", NEW x, Pending(x)'
      PROVE  FALSE
  <2>1. CASE pc = "rows"
    <3>1. StartDrain
      BY <1>5, <2>1 DEF Next, Main, Background, PrefillRow, FlushBucket, StartDecode,
                      DecodeStep, StopRunning, Join, BgGetPrefill, BgGetDecode, BgScanKey,
                      BgEmitDecode, BgRaise, BgFree, BgExit, vars, mainVars
    <3>2. data = <<>> /\ Waiting = {} /\ UNCHANGED <<data, buckets>>
      BY <3>1 DEF StartDrain
    <3>3. Pending(x)
      BY <1>5, <3>2 DEF Pending
    <3>4. CASE \E i \in 1 .. Len(data) : data[i].id = x
      <4>1. PICK e : e = data
        OBVIOUS
      <4>2. Len(e) = 0
        BY <3>2, <4>1
      <4> QED
        BY <3>4, <4>1, <4>2
    <3>5. CASE \E p \in Paddings : \E i \in 1 .. Len(buckets[p]) : buckets[p][i].id = x
      BY <1>1, <3>2, <3>5, WaitingSlots
    <3> QED
      BY <3>3, <3>4, <3>5 DEF Pending
  <2>2. CASE pc # "rows"
    <3>1. UNCHANGED <<data, buckets>>
      BY <2>2, RowsLeft DEF PrefillRow, FlushBucket
    <3>2. Pending(x)
      BY <1>5, <3>1 DEF Pending
    <3> QED
      BY <2>2, <3>2 DEF RoomInv
  <2> QED
    BY <2>1, <2>2
<1> QED
  BY <1>2, <1>3, <1>4, <1>5 DEF RoomInv

-----------------------------------------------------------------------------
(* The slots, held until their prompts are complete                            *)

(* What a prefill, or a row put in a bucket, does to the slots.                *)
LEMMA PrefilledHeld ==
  ASSUME TaskInv, SlotInv, NEW rows, PrefilledOrNot(rows), OneSlotEach(rows)
  PROVE  /\ \A s \in Slots \ SlotsOf(rows) : slotToId'[s] = slotToId[s]
         /\ \A i \in DOMAIN rows : slotToId'[rows[i].slot] = rows[i].id
         /\ \A s \in SlotsOf(rows) : Vacant(s)
         /\ UNCHANGED queue \/ queue' = Append(queue, [items |-> FirstItems(rows)])
<1>1. rows \in Seq(Row)
  BY DEF OneSlotEach
<1>2. \A s \in SlotsOf(rows) : Vacant(s)
  BY DEF OneSlotEach, SlotsOf
<1>3. CASE PrefillDone(rows)
  <2>1. /\ queue' = Append(queue, [items |-> FirstItems(rows)])
        /\ \A s \in Slots \ SlotsOf(rows) : slotToId'[s] = slotToId[s]
        /\ \A s \in SlotsOf(rows) : \E i \in DOMAIN rows :
             rows[i].slot = s /\ slotToId'[s] = rows[i].id
    BY <1>1, <1>3, PrefillEffect
  <2>2. ASSUME NEW i \in DOMAIN rows
        PROVE  slotToId'[rows[i].slot] = rows[i].id
    <3>1. rows[i].slot \in SlotsOf(rows)
      BY DEF SlotsOf
    <3>2. PICK j \in DOMAIN rows :
            rows[j].slot = rows[i].slot /\ slotToId'[rows[i].slot] = rows[j].id
      BY <2>1, <3>1
    <3>3. i = j
      BY <3>2 DEF OneSlotEach
    <3> QED
      BY <3>2, <3>3
  <2> QED
    BY <1>2, <2>1, <2>2
<1>4. CASE rows = <<>> /\ UNCHANGED <<device, slotToId, keys, queue>>
  <2>1. DOMAIN rows = {}
    <3>1. PICK e : e = <<>>
      OBVIOUS
    <3>2. DOMAIN e = {} /\ rows = e
      BY <1>4, <3>1
    <3> QED
      BY <3>2
  <2> QED
    BY <1>2, <1>4, <2>1
<1> QED
  BY <1>3, <1>4 DEF PrefilledOrNot

(* What is held when the tasks, the slots and the results stay.                *)
LEMMA HeldSame ==
  ASSUME HeldInv, UNCHANGED <<data, buckets, queue, slotToId, tokens, completed, empty, toFree>>,
         bg' = "scan" => bg = "scan" /\ scan' = scan
  PROVE  HeldInv'
BY DEF HeldInv, Vacant, Waiting, SlotsOf, HasBuffer, Started, EndsWith

LEMMA HeldPrefilled ==
  ASSUME OrderInv, SlotInv', RoomInv, HeldInv, PrefillRow \/ FlushBucket
  PROVE  HeldInv'
<1>1. TaskInv /\ SlotInv /\ TypeInv /\ FreshInv
  BY DEF OrderInv
<1>2. PICK rows : /\ PrefilledOrNot(rows) /\ OneSlotEach(rows) /\ SlotsApart(rows)
                  /\ UNCHANGED <<toFree, completed, tokens, bg, scan>>
  BY <1>1, RowHeld, FlushHeld
<1>3. /\ \A s \in Slots \ SlotsOf(rows) : slotToId'[s] = slotToId[s]
      /\ \A i \in DOMAIN rows : slotToId'[rows[i].slot] = rows[i].id
      /\ \A s \in SlotsOf(rows) : Vacant(s)
      /\ UNCHANGED queue \/ queue' = Append(queue, [items |-> FirstItems(rows)])
  BY <1>1, <1>2, PrefilledHeld
<1>4. \A s \in Slots : Vacant(s) /\ s \notin SlotsOf(rows) => Vacant(s)'
  BY <1>2, <1>3 DEF Vacant
<1>5. Waiting' \subseteq Slots /\ empty' \subseteq Slots
  <2>1. \A q \in Paddings : buckets'[q] \in Seq(Row)
    BY DEF SlotInv
  <2>2. \A q \in Paddings : SlotsOf(buckets'[q]) \subseteq Slots
    BY <2>1, RowSlots
  <2>3. \A s : s \in Waiting' <=> \E q \in Paddings : s \in SlotsOf(buckets'[q])
    BY DEF Waiting, SlotsOf
  <2> QED
    BY <2>2, <2>3 DEF SlotInv
<1>6. \A s \in empty' : Vacant(s)' /\ s \notin Waiting'
  BY <1>2, <1>4, <1>5 DEF SlotsApart
<1>7. \A s \in Waiting' : Vacant(s)'
  BY <1>2, <1>4, <1>5 DEF SlotsApart
<1>8. \A p, q \in Paddings :
        \A i \in 1 .. Len(buckets'[p]), j \in 1 .. Len(buckets'[q]) :
          buckets'[p][i].slot = buckets'[q][j].slot => p = q /\ i = j
  BY <1>2 DEF SlotsApart
<1>9. ASSUME NEW p \in 1 .. Len(queue), ~HasBuffer(queue[p]), NEW item \in queue[p].items
      PROVE  slotToId'[item.slot] = item.id /\ item.id \notin completed
  <2>1. item \in OwnItem /\ Ids \subseteq Nat \ {0}
    BY <1>1, <1>9 DEF TypeInv, Typed
  <2>2. slotToId[item.slot] = item.id /\ item.id \notin completed
    BY <1>9 DEF HeldInv
  <2>3. item.slot \in Slots /\ item.id # NoId
    BY <2>1 DEF OwnItem
  <2>4. item.slot \notin SlotsOf(rows)
    BY <1>3, <2>2, <2>3 DEF Vacant
  <2> QED
    BY <1>3, <2>2, <2>3, <2>4
<1>10. ASSUME NEW item \in FirstItems(rows)
       PROVE  slotToId'[item.slot] = item.id /\ item.id \notin completed
  <2>1. PICK i \in DOMAIN rows : item.slot = rows[i].slot /\ item.id = rows[i].id
    BY DEF FirstItems
  <2>2. Fresh(rows[i].id)
    BY <1>1, <1>2 DEF OneSlotEach, FreshInv
  <2> QED
    BY <1>3, <2>1, <2>2 DEF Fresh
<1>11. \A p \in 1 .. Len(queue') : ~HasBuffer(queue'[p]) =>
         \A item \in queue'[p].items :
           slotToId'[item.slot] = item.id /\ item.id \notin completed
  <2>1. CASE UNCHANGED queue
    BY <1>9, <2>1
  <2>2. CASE queue' = Append(queue, [items |-> FirstItems(rows)])
    <3> DEFINE task == [items |-> FirstItems(rows)]
    <3>1. queue \in Seq(Task)
      BY <1>1 DEF TaskInv
    <3>2. task.items = FirstItems(rows)
      OBVIOUS
    <3> HIDE DEF task
    <3>3. /\ Len(queue) \in Nat /\ Len(queue') = Len(queue) + 1
          /\ queue'[Len(queue) + 1] = task
          /\ \A i \in 1 .. Len(queue) : queue'[i] = queue[i]
      <4>1. queue' = Append(queue, task)
        BY <2>2 DEF task
      <4> HIDE DEF Task
      <4> QED
        BY <3>1, <4>1
    <3>4. ASSUME NEW p \in 1 .. Len(queue'), ~HasBuffer(queue'[p]), NEW item \in queue'[p].items
          PROVE  slotToId'[item.slot] = item.id /\ item.id \notin completed
      <4>1. CASE p \in 1 .. Len(queue)
        BY <1>9, <3>3, <3>4, <4>1
      <4>2. CASE p = Len(queue) + 1
        BY <1>10, <3>2, <3>3, <3>4, <4>2
      <4> QED
        BY <3>3, <4>1, <4>2
    <3> QED
      BY <3>4
  <2> QED
    BY <1>3, <2>1, <2>2
<1>12. \A s \in toFree : slotToId'[s] \in completed
  <2>1. toFree \subseteq Slots
    BY <1>1 DEF TaskInv
  <2> QED
    BY <1>3, <2>1 DEF HeldInv, Vacant
<1>13. bg # "scan"
  <2>1. pc = "rows"
    BY DEF PrefillRow, FlushBucket
  <2>2. 0 \in 0 .. Len(queue) /\ ~HasTokens(0)
    BY <1>1, <2>1, QueueLength DEF RoomInv
  <2> QED
    BY <2>2 DEF HasTokens
<1>14. (\A p \in 1 .. Len(queue) : ~HasBuffer(queue[p]) =>
          \A item \in queue[p].items :
            slotToId[item.slot] = item.id /\ item.id \notin completed)'
  BY <1>2, <1>11 DEF HasBuffer
<1> QED
  BY <1>2, <1>6, <1>7, <1>8, <1>12, <1>13, <1>14 DEF HeldInv

LEMMA HeldDecoded ==
  ASSUME TaskInv, HeldInv, DecodeStep
  PROVE  HeldInv'
<1> DEFINE task == [buffer |-> device]
<1>1. /\ UNCHANGED <<data, buckets, slotToId, tokens, completed, empty, toFree, bg, scan>>
      /\ queue' = Append(queue, task)
  BY DEF DecodeStep, Result, bgVars
<1>2. queue \in Seq(Task) /\ task \in Task /\ HasBuffer(task)
  BY DEF TaskInv, Task, HasBuffer
<1> HIDE DEF task
<1>3. /\ Len(queue) \in Nat /\ Len(queue') = Len(queue) + 1
      /\ queue'[Len(queue) + 1] = task
      /\ \A i \in 1 .. Len(queue) : queue'[i] = queue[i]
  BY <1>1, <1>2, AddedPlaces
<1>4. ASSUME NEW p \in 1 .. Len(queue'), ~HasBuffer(queue'[p])
      PROVE  p \in 1 .. Len(queue) /\ queue'[p] = queue[p]
  BY <1>2, <1>3, <1>4
<1>5. (\A p \in 1 .. Len(queue) : ~HasBuffer(queue[p]) =>
         \A item \in queue[p].items :
           slotToId[item.slot] = item.id /\ item.id \notin completed)'
  <2>1. \A p \in 1 .. Len(queue') : ~HasBuffer(queue'[p]) =>
          \A item \in queue'[p].items :
            slotToId[item.slot] = item.id /\ item.id \notin completed
    BY <1>4 DEF HeldInv
  <2> QED
    BY <1>1, <2>1 DEF HasBuffer
<1> QED
  BY <1>1, <1>5 DEF HeldInv, Vacant, Waiting, SlotsOf, Started, EndsWith

(* A task is taken; those that ended with it leave their slots to be freed.    *)
LEMMA HeldGiven ==
  ASSUME OrderInv, HeldInv, bg \in {"get", "scan"}, NEW items \in SUBSET OwnItem, Emit(items),
         UNCHANGED <<data, buckets, slotToId, empty>>,
         \A item \in items : slotToId[item.slot] = item.id,
         \A p \in 1 .. Len(queue') : ~HasBuffer(queue'[p]) =>
           \A item \in queue'[p].items :
             /\ slotToId[item.slot] = item.id /\ item.id \notin completed
             /\ \A given \in items : given.id # item.id
  PROVE  HeldInv'
<1>1. /\ completed' = completed \union {x.id : x \in {y \in items : Terminates(y)}}
      /\ toFree' = {x.slot : x \in {y \in items : Terminates(y)}}
      /\ bg' # "scan"
  BY DEF Emit
<1>2. \A s \in toFree' : \E x \in items :
        x.slot = s /\ slotToId[s] = x.id /\ x.id \in completed'
  BY <1>1
<1>3. \A x \in items : x.id # NoId
  BY DEF OwnItem, OrderInv, TypeInv
<1>4. \A s \in toFree' : slotToId[s] # NoId /\ slotToId[s] \in completed'
  BY <1>2, <1>3
<1>5. \A s : Vacant(s) => Vacant(s)'
  BY <1>4 DEF Vacant
<1>6. Waiting' = Waiting
  BY DEF Waiting, SlotsOf
<1>7. \A x : x \in completed' => x \in completed \/ \E given \in items : given.id = x
  BY <1>1
<1>8. \A p \in 1 .. Len(queue') : ~HasBuffer(queue'[p]) =>
        \A item \in queue'[p].items :
          slotToId[item.slot] = item.id /\ item.id \notin completed'
  BY <1>7
<1>9. (\A p \in 1 .. Len(queue) : ~HasBuffer(queue[p]) =>
         \A item \in queue[p].items :
           slotToId[item.slot] = item.id /\ item.id \notin completed)'
  BY <1>8 DEF HasBuffer
<1> QED
  BY <1>1, <1>4, <1>5, <1>6, <1>9 DEF HeldInv

LEMMA HeldPrefillTaken ==
  ASSUME OrderInv, HeldInv, BgGetPrefill
  PROVE  HeldInv'
<1>1. TaskInv /\ TypeInv /\ StreamInv /\ bg = "get"
  BY DEF OrderInv, BgGetPrefill
<1> DEFINE items == queue[1].items
<1>2. /\ Taken /\ ~HasBuffer(queue[1]) /\ items \in SUBSET OwnItem /\ Emit(items)
      /\ 1 \in 1 .. Len(queue) /\ \A x : HasItem(1, x) <=> \E item \in items : item.id = x
      /\ UNCHANGED <<mainVars, empty, slotToId>>
  BY <1>1, PrefillTaken
<1>3. /\ Len(queue) \in Nat \ {0} /\ Len(queue') = Len(queue) - 1
      /\ \A i \in 1 .. Len(queue) - 1 : queue'[i] = queue[i + 1]
  BY <1>2, TakenTokens
<1>4. \A item \in items : slotToId[item.slot] = item.id
  BY <1>2 DEF HeldInv
<1>5. ItemInv
  BY <1>1 DEF StreamInv, OnTheWay
<1> HIDE DEF items
<1>6. ASSUME NEW p \in 1 .. Len(queue'), ~HasBuffer(queue'[p]), NEW item \in queue'[p].items
      PROVE  /\ slotToId[item.slot] = item.id /\ item.id \notin completed
             /\ \A given \in items : given.id # item.id
  <2>1. p + 1 \in 1 .. Len(queue) /\ p + 1 # 1 /\ queue'[p] = queue[p + 1]
    BY <1>3, <1>6
  <2>2. slotToId[item.slot] = item.id /\ item.id \notin completed
    BY <1>6, <2>1 DEF HeldInv
  <2>3. ASSUME NEW given \in items, given.id = item.id
        PROVE  FALSE
    <3>1. given.id \in Ids /\ HasItem(1, given.id)
      BY <1>2, <2>3 DEF OwnItem
    <3>2. HasItem(p + 1, given.id)
      BY <1>6, <2>1, <2>3 DEF HasItem
    <3>3. 1 \in Places /\ p + 1 \in Places
      BY <1>3, <2>1 DEF Places
    <3> QED
      BY <1>5, <2>1, <3>1, <3>2, <3>3 DEF ItemInv
  <2> QED
    BY <2>2, <2>3
<1>7. UNCHANGED <<data, buckets, slotToId, empty>>
  BY <1>2 DEF mainVars
<1> QED
  BY <1>1, <1>2, <1>4, <1>6, <1>7, HeldGiven

LEMMA HeldDecodeTaken ==
  ASSUME TaskInv, HeldInv, BgGetDecode
  PROVE  HeldInv'
<1>1. /\ queue # <<>> /\ queue' = Tail(queue) /\ bg' = "scan" /\ scan'.found = {}
      /\ UNCHANGED <<data, buckets, slotToId, tokens, completed, empty, toFree>>
  BY DEF BgGetDecode, InOrder, mainVars
<1>2. queue \in Seq(Task)
  BY DEF TaskInv
<1>3. /\ Len(queue) \in Nat \ {0} /\ Len(queue') = Len(queue) - 1
      /\ \A i \in 1 .. Len(queue) - 1 : queue'[i] = queue[i + 1]
  BY <1>1, <1>2, TakenPlaces
<1>4. \A p \in 1 .. Len(queue') : p + 1 \in 1 .. Len(queue) /\ queue'[p] = queue[p + 1]
  BY <1>3
<1>5. (\A p \in 1 .. Len(queue) : ~HasBuffer(queue[p]) =>
         \A item \in queue[p].items :
           slotToId[item.slot] = item.id /\ item.id \notin completed)'
  <2>1. \A p \in 1 .. Len(queue') : ~HasBuffer(queue'[p]) =>
          \A item \in queue'[p].items :
            slotToId[item.slot] = item.id /\ item.id \notin completed
    BY <1>4 DEF HeldInv
  <2> QED
    BY <1>1, <2>1 DEF HasBuffer
<1> QED
  BY <1>1, <1>5 DEF HeldInv, Vacant, Waiting, SlotsOf

(* The prompts are all prefilled, so that one that is scanned has started.     *)
LEMMA HeldScanned ==
  ASSUME OrderInv, RoomInv, HeldInv, BgScanKey
  PROVE  HeldInv'
<1>1. TaskInv /\ TypeInv /\ StreamInv /\ Len(queue) \in Nat
  BY QueueLength DEF OrderInv
<1>2. /\ bg = "scan" /\ bg' = "scan"
      /\ UNCHANGED <<data, buckets, queue, slotToId, tokens, completed, empty, toFree>>
  BY DEF BgScanKey, mainVars, sharedVars
<1>3. scan \in Scan /\ ActiveInv
  BY <1>1, <1>2 DEF TaskInv, StreamInv, OnTheWay
<1>4. PICK s \in scan.left :
        LET row == [slot |-> s, id |-> slotToId[s], token |-> scan.buffer[s]]
        IN  scan' = [scan EXCEPT
                       !.left = @ \ {s},
                       !.found = IF row.id # NoId /\ row.id \notin completed
                                 THEN @ \union {row} ELSE @]
  BY DEF BgScanKey
<1>5. scan'.found = IF slotToId[s] # NoId /\ slotToId[s] \notin completed
                    THEN scan.found \union
                           {[slot |-> s, id |-> slotToId[s], token |-> scan.buffer[s]]}
                    ELSE scan.found
  BY <1>3, <1>4 DEF Scan
<1>6. s \in Slots /\ slotToId[s] \in Ids \union {NoId}
  BY <1>1, <1>3 DEF Scan, TypeInv, TypeOK
<1>7. ASSUME NEW x \in Ids, slotToId[s] = x, x \notin completed
      PROVE  Started(x)
  <2>1. ASSUME NEW p \in Places, HasItem(p, x)
        PROVE  FALSE
    <3>1. 0 \in Places /\ 0 < p /\ HasTokens(0)
      BY <1>1, <1>2, <2>1 DEF Places, HasItem, HasTokens
    <3>2. HasTokens(p)
      BY <2>1, <3>1 DEF RoomInv
    <3> QED
      BY <1>1, <2>1, <3>1, <3>2 DEF HasTokens, HasItem
  <2> QED
    BY <1>3, <1>6, <1>7, <2>1 DEF ActiveInv
<1>8. \A item \in scan'.found : slotToId[item.slot] = item.id /\ Started(item.id)
  <2>1. \A item \in scan.found : slotToId[item.slot] = item.id /\ Started(item.id)
    BY <1>2 DEF HeldInv
  <2> QED
    BY <1>5, <1>6, <1>7, <2>1
<1>9. (\A p \in 1 .. Len(queue) : ~HasBuffer(queue[p]) =>
         \A item \in queue[p].items :
           slotToId[item.slot] = item.id /\ item.id \notin completed)'
  BY <1>2 DEF HeldInv, HasBuffer
<1> QED
  BY <1>2, <1>8, <1>9 DEF HeldInv, Vacant, Waiting, SlotsOf, Started, EndsWith

LEMMA HeldEmitted ==
  ASSUME OrderInv, HeldInv, BgEmitDecode
  PROVE  HeldInv'
<1>1. TypeInv /\ EndInv /\ StreamInv /\ Len(queue) \in Nat
  BY QueueLength DEF OrderInv
<1>2. /\ bg = "scan" /\ Emit(scan.found)
      /\ UNCHANGED <<data, buckets, queue, slotToId, empty>>
  BY DEF BgEmitDecode, mainVars, sharedVars
<1>3. scan.found \in SUBSET OwnItem
  BY <1>1, <1>2 DEF TypeInv
<1>4. \A item \in scan.found : slotToId[item.slot] = item.id /\ Started(item.id)
  BY <1>2 DEF HeldInv
<1>5. ItemInv
  BY <1>1, <1>2 DEF StreamInv, OnTheWay
<1>6. ASSUME NEW p \in 1 .. Len(queue), ~HasBuffer(queue[p]), NEW item \in queue[p].items
      PROVE  /\ slotToId[item.slot] = item.id /\ item.id \notin completed
             /\ \A given \in scan.found : given.id # item.id
  <2>1. slotToId[item.slot] = item.id /\ item.id \notin completed
    BY <1>6 DEF HeldInv
  <2>2. ASSUME NEW given \in scan.found, given.id = item.id
        PROVE  FALSE
    <3>1. PICK x \in Ids : given.id = x
      BY <1>3 DEF OwnItem
    <3>2. Started(x)
      BY <1>4, <3>1
    <3>3. HasItem(p, x) /\ p \in Places
      <4>1. item.id = x
        BY <2>2, <3>1
      <4>2. HasItem(p, x)
        BY <1>6, <4>1 DEF HasItem
      <4> QED
        BY <1>1, <1>6, <4>2 DEF Places
    <3>4. Unstarted(x)
      BY <1>5, <3>3 DEF ItemInv
    <3>5. tokens[x] \in Seq(Token)
      BY <1>1 DEF EndInv
    <3>6. Len(tokens[x]) \in Nat
      <4> HIDE DEF Token
      <4> QED
        BY <3>5
    <3> QED
      BY <3>2, <3>4, <3>6 DEF Started, Unstarted, EndsWith, NoneOf
  <2> QED
    BY <2>1, <2>2
<1> QED
  BY <1>2, <1>3, <1>4, <1>6, HeldGiven

(* The slot that is freed has a prompt that completed.                         *)
LEMMA HeldFreed ==
  ASSUME OrderInv, HeldInv, BgFree
  PROVE  HeldInv'
<1>1. TaskInv /\ SlotInv /\ TypeInv
  BY DEF OrderInv
<1>2. PICK s \in toFree : /\ slotToId' = [slotToId EXCEPT ![s] = NoId]
                         /\ empty' = empty \union {s} /\ toFree' = toFree \ {s}
  BY DEF BgFree, Released
<1>3. UNCHANGED <<data, buckets, queue, tokens, completed>> /\ bg' # "scan"
  BY DEF BgFree, mainVars
<1>4. s \in Slots /\ slotToId \in [Slots -> Nat]
  BY <1>1 DEF TaskInv, SlotInv
<1>5. slotToId'[s] = NoId /\ \A r : r # s /\ r \in Slots => slotToId'[r] = slotToId[r]
  BY <1>2, <1>4
<1>6. Waiting' = Waiting
  BY <1>3 DEF Waiting, SlotsOf
<1>7. s \notin Waiting /\ \A r \in Waiting \union empty : Vacant(r)
  BY <1>2 DEF HeldInv, Vacant
<1>8. Waiting \subseteq Slots /\ empty \subseteq Slots /\ toFree \subseteq Slots
  <2>1. \A q \in Paddings : buckets[q] \in Seq(Row)
    BY <1>1 DEF SlotInv
  <2>2. \A q \in Paddings : SlotsOf(buckets[q]) \subseteq Slots
    BY <2>1, RowSlots
  <2> QED
    BY <1>1, <2>2 DEF Waiting, SlotInv, TaskInv
<1>9. Vacant(s)' /\ \A r \in Slots : Vacant(r) => Vacant(r)'
  BY <1>2, <1>5 DEF Vacant
<1>10. \A r \in empty' : Vacant(r)' /\ r \notin Waiting'
  BY <1>2, <1>6, <1>7, <1>8, <1>9 DEF HeldInv
<1>11. \A r \in Waiting' : Vacant(r)'
  BY <1>6, <1>7, <1>8, <1>9
<1>12. ASSUME NEW p \in 1 .. Len(queue), ~HasBuffer(queue[p]), NEW item \in queue[p].items
       PROVE  slotToId'[item.slot] = item.id /\ item.id \notin completed
  <2>1. slotToId[item.slot] = item.id /\ item.id \notin completed
    BY <1>12 DEF HeldInv
  <2>2. slotToId[s] \in completed
    BY <1>2 DEF HeldInv
  <2>3. item.slot \in Slots
    BY <1>1, <1>12 DEF TypeInv, Typed, OwnItem
  <2> QED
    BY <1>5, <2>1, <2>2, <2>3
<1>13. (\A p \in 1 .. Len(queue) : ~HasBuffer(queue[p]) =>
          \A item \in queue[p].items :
            slotToId[item.slot] = item.id /\ item.id \notin completed)'
  BY <1>3, <1>12 DEF HasBuffer
<1>14. \A r \in toFree' : slotToId'[r] \in completed'
  BY <1>2, <1>3, <1>5, <1>8 DEF HeldInv
<1>15. (\A p, q \in Paddings :
          \A i \in 1 .. Len(buckets[p]), j \in 1 .. Len(buckets[q]) :
            buckets[p][i].slot = buckets[q][j].slot => p = q /\ i = j)'
  BY <1>3 DEF HeldInv
<1> QED
  BY <1>3, <1>10, <1>11, <1>13, <1>14, <1>15 DEF HeldInv

LEMMA HeldKept ==
  ASSUME OrderInv, SlotInv', RoomInv, HeldInv, [Next]_vars
  PROVE  HeldInv'
<1>1. TaskInv
  BY DEF OrderInv
<1>2. CASE PrefillRow \/ FlushBucket \/ DecodeStep
  BY <1>1, <1>2, HeldPrefilled, HeldDecoded
<1>3. CASE BgGetPrefill \/ BgGetDecode \/ BgScanKey \/ BgEmitDecode \/ BgFree
  BY <1>1, <1>3, HeldPrefillTaken, HeldDecodeTaken, HeldScanned, HeldEmitted, HeldFreed
<1>4. CASE StartDrain \/ StartDecode \/ StopRunning \/ Join \/ BgRaise \/ BgExit
             \/ UNCHANGED vars
  <2>1. /\ UNCHANGED <<data, buckets, queue, slotToId, tokens, completed, empty, toFree>>
        /\ bg' = "scan" => bg = "scan" /\ scan' = scan
    BY <1>4 DEF StartDrain, StartDecode, StopRunning, Join, BgRaise, BgExit, vars, mainVars,
                sharedVars, bgVars
  <2> QED
    BY <2>1, HeldSame
<1> QED
  BY <1>2, <1>3, <1>4 DEF Next, Main, Background

-----------------------------------------------------------------------------
(* The prompts complete                                                        *)

LEMMA CompletePrefilled ==
  ASSUME OrderInv, SlotInv', HeldInv, CompleteInv, PrefillRow \/ FlushBucket
  PROVE  CompleteInv'
<1>1. TaskInv /\ SlotInv /\ TypeInv
  BY DEF OrderInv
<1>2. PICK rows : /\ PrefilledOrNot(rows) /\ OneSlotEach(rows)
                  /\ UNCHANGED <<completed, tokens>>
  BY <1>1, RowHeld, FlushHeld
<1>3. /\ \A s \in Slots \ SlotsOf(rows) : slotToId'[s] = slotToId[s]
      /\ \A i \in DOMAIN rows : slotToId'[rows[i].slot] = rows[i].id
      /\ \A s \in SlotsOf(rows) : Vacant(s)
  BY <1>1, <1>2, PrefilledHeld
<1>4. SlotsOf(rows) \subseteq Slots
  BY <1>2, RowSlots DEF OneSlotEach
<1>5. Ids' = Ids /\ Ids \subseteq Nat \ {0}
  BY <1>1, <1>2 DEF Ids, TypeInv
<1>6. pc' \notin {"join", "done"}
  BY DEF PrefillRow, FlushBucket
<1>7. ASSUME NEW x \in Ids, x \notin completed, ~Pending(x)'
      PROVE  \E s \in Slots : slotToId'[s] = x
  <2>1. CASE Pending(x)
    <3>1. PICK i \in DOMAIN rows : rows[i].id = x
      BY <1>2, <1>7, <2>1 DEF OneSlotEach, IdsOf
    <3>2. rows[i].slot \in Slots
      BY <1>4 DEF SlotsOf
    <3> QED
      BY <1>3, <3>1, <3>2
  <2>2. CASE \E s \in Slots : slotToId[s] = x
    <3>1. PICK s \in Slots : slotToId[s] = x
      BY <2>2
    <3>2. s \notin SlotsOf(rows)
      BY <1>3, <1>5, <3>1 DEF Vacant, NoId
    <3> QED
      BY <1>3, <3>1, <3>2
  <2> QED
    BY <1>7, <2>1, <2>2 DEF CompleteInv
<1> QED
  BY <1>2, <1>5, <1>6, <1>7 DEF CompleteInv

LEMMA CompleteKept ==
  ASSUME OrderInv, OrderInv', RoomInv, HeldInv, CompleteInv, [Next]_vars
  PROVE  CompleteInv'
<1>1. TaskInv /\ SlotInv /\ TypeInv /\ SlotInv' /\ TypeInv' /\ Ids' = Ids
  BY IdsKept DEF OrderInv
<1>2. Ids \subseteq Nat \ {0} /\ completed \subseteq Ids /\ completed' \subseteq Ids
  BY <1>1 DEF TypeInv, TypeOK
<1>3. CASE PrefillRow \/ FlushBucket
  BY <1>1, <1>3, CompletePrefilled
<1>4. CASE ~(PrefillRow \/ FlushBucket)
  <2>1. UNCHANGED <<data, buckets>>
    BY <1>4, RowsLeft
  <2>2. \A x : Pending(x)' <=> Pending(x)
    BY <2>1 DEF Pending
  <2>3. completed \subseteq completed'
    BY <1>4 DEF Next, Main, Background, StartDrain, StartDecode, DecodeStep, StopRunning,
                Join, BgGetPrefill, BgGetDecode, BgScanKey, BgEmitDecode, Emit, BgRaise,
                BgFree, BgExit, vars, bgVars
  <2>4. ASSUME NEW x \in Ids, NEW s \in Slots, slotToId[s] = x, x \notin completed
        PROVE  slotToId'[s] = x
    <3>1. CASE BgFree
      <4>1. PICK r \in toFree : slotToId' = [slotToId EXCEPT ![r] = NoId]
        BY <3>1 DEF BgFree, Released
      <4>2. slotToId[r] \in completed
        BY <4>1 DEF HeldInv
      <4> QED
        BY <1>1, <2>4, <4>1, <4>2 DEF SlotInv
    <3>2. CASE ~BgFree
      <4>1. UNCHANGED slotToId
        BY <1>4, <3>2 DEF Next, Main, Background, StartDrain, StartDecode, DecodeStep,
                          StopRunning, Join, BgGetPrefill, BgGetDecode, BgScanKey,
                          BgEmitDecode, BgRaise, BgExit, vars, sharedVars
      <4> QED
        BY <2>4, <4>1
    <3> QED
      BY <3>1, <3>2
  <2>5. \A x \in Ids : Pending(x)' \/ x \in completed' \/ \E s \in Slots : slotToId'[s] = x
    BY <2>2, <2>3, <2>4 DEF CompleteInv
  <2>6. ASSUME pc' \in {"join", "done"}
        PROVE  completed' = Ids
    <3>1. CASE pc \in {"join", "done"}
      BY <1>2, <2>3, <3>1 DEF CompleteInv
    <3>2. CASE pc \notin {"join", "done"}
      <4>1. StopRunning
        BY <1>4, <2>6, <3>2 DEF Next, Main, Background, StartDrain, StartDecode, DecodeStep,
                                Join, BgGetPrefill, BgGetDecode, BgScanKey, BgEmitDecode,
                                BgRaise, BgFree, BgExit, vars, mainVars
      <4>2. pc = "drain" /\ Active = {}
        BY <4>1 DEF StopRunning
      <4>3. \A x \in Ids : ~Pending(x)
        BY <4>2 DEF RoomInv
      <4>4. \A s \in Slots : slotToId[s] = NoId
        BY <4>2 DEF Active
      <4>5. Ids \subseteq completed
        BY <1>2, <4>3, <4>4 DEF CompleteInv, NoId
      <4> QED
        BY <1>2, <2>3, <4>5
    <3> QED
      BY <3>1, <3>2
  <2> QED
    BY <1>1, <2>5, <2>6 DEF CompleteInv
<1> QED
  BY <1>3, <1>4

-----------------------------------------------------------------------------
(* The results are those of the device                                         *)

LEMMA OwnGoesOn ==
  ASSUME NEW x \in Nat, NEW s \in Seq(Token), NEW t, t = <<x, Len(s)>>,
         \A i \in DOMAIN s : s[i] = <<x, i - 1>>
  PROVE  \A i \in DOMAIN Append(s, t) : Append(s, t)[i] = <<x, i - 1>>
<1>1. Len(s) \in Nat /\ DOMAIN s = 1 .. Len(s)
  <2> HIDE DEF Token
  <2> QED
    OBVIOUS
<1>2. t \in Token
  BY <1>1 DEF Token
<1> HIDE DEF Token
<1>3. /\ Len(Append(s, t)) = Len(s) + 1 /\ Append(s, t)[Len(s) + 1] = t
      /\ \A i \in 1 .. Len(s) : Append(s, t)[i] = s[i]
  BY <1>2, AddedPlaces
<1>4. Append(s, t) \in Seq(Token)
  BY <1>2
<1>5. DOMAIN Append(s, t) = 1 .. Len(s) + 1
  BY <1>3, <1>4
<1>6. \A i \in 1 .. Len(s) + 1 : i \in 1 .. Len(s) \/ i = Len(s) + 1
  BY <1>1
<1> QED
  BY <1>1, <1>3, <1>5, <1>6

(* What a prompt is given is what the device computed next for it.             *)
LEMMA OwnGiven ==
  ASSUME EndInv, TypeInv, OwnTokens, NEW items \in SUBSET OwnItem, Emit(items),
         \A item \in items : item.token = <<item.id, Len(tokens[item.id])>>
  PROVE  OwnTokens'
<1>1. Ids' = Ids /\ Ids \subseteq Nat
  BY EmitEffect DEF TypeInv
<1>2. ASSUME NEW x \in Ids
      PROVE  \A i \in DOMAIN tokens'[x] : tokens'[x][i] = <<x, i - 1>>
  <2>1. \A i \in DOMAIN tokens[x] : tokens[x][i] = <<x, i - 1>>
    BY DEF OwnTokens, Own
  <2>2. CASE tokens'[x] = tokens[x]
    BY <2>1, <2>2
  <2>3. CASE tokens'[x] # tokens[x]
    <3>1. PICK item \in items :
            item.id = x /\ tokens'[x] = Append(tokens[x], item.token)
      BY <2>3, EmitEffect
    <3>2. tokens[x] \in Seq(Token) /\ item.token = <<x, Len(tokens[x])>>
      BY <3>1 DEF EndInv
    <3> QED
      BY <1>1, <2>1, <3>1, <3>2, OwnGoesOn
  <2> QED
    BY <2>2, <2>3
<1> QED
  BY <1>1, <1>2 DEF OwnTokens, Own

LEMMA OwnPlaces ==
  ASSUME EndInv, OwnTokens, NEW x \in Ids
  PROVE  /\ Len(tokens[x]) \in Nat
         /\ \A i \in 1 .. Len(tokens[x]) : tokens[x][i] = <<x, i - 1>>
<1>1. tokens[x] \in Seq(Token)
  BY DEF EndInv
<1>2. Len(tokens[x]) \in Nat /\ DOMAIN tokens[x] = 1 .. Len(tokens[x])
  <2> HIDE DEF Token
  <2> QED
    BY <1>1
<1> QED
  BY <1>2 DEF OwnTokens, Own

LEMMA OwnTokensKept ==
  ASSUME OrderInv, HeldInv, OwnTokens, [Next]_vars
  PROVE  OwnTokens'
<1>1. TaskInv /\ TypeInv /\ EndInv /\ StreamInv /\ Len(queue) \in Nat
  BY QueueLength DEF OrderInv
<1>2. CASE BgGetPrefill
  <2>1. bg # "killed"
    BY <1>2 DEF BgGetPrefill
  <2>2. /\ ~HasBuffer(queue[1]) /\ queue[1].items \in SUBSET OwnItem
        /\ Emit(queue[1].items) /\ 1 \in 1 .. Len(queue)
        /\ \A x : HasItem(1, x) <=> \E item \in queue[1].items : item.id = x
    BY <1>1, <1>2, PrefillTaken
  <2>3. ItemInv
    BY <1>1, <2>1 DEF StreamInv, OnTheWay
  <2>4. ASSUME NEW item \in queue[1].items
        PROVE  item.token = <<item.id, Len(tokens[item.id])>>
    <3>1. PICK x \in Ids : item.id = x
      BY <2>2 DEF OwnItem
    <3>2. item.token = <<x, 0>>
      BY <2>2, <2>3, <3>1 DEF ItemInv, FirstToken
    <3>3. HasItem(1, x) /\ 1 \in Places
      BY <1>1, <2>2, <3>1 DEF Places
    <3>4. Unstarted(x)
      BY <2>3, <3>3 DEF ItemInv
    <3>5. /\ Len(tokens[x]) \in Nat
          /\ \A i \in 1 .. Len(tokens[x]) : tokens[x][i] = <<x, i - 1>>
      BY <1>1, OwnPlaces
    <3>6. ASSUME Len(tokens[x]) > 0
          PROVE  FALSE
      <4>1. 1 \in 1 .. Len(tokens[x])
        BY <3>5, <3>6
      <4>2. tokens[x][1][1] = x
        BY <3>5, <4>1
      <4> QED
        BY <3>4, <4>1, <4>2 DEF Unstarted, NoneOf
    <3> QED
      BY <3>1, <3>2, <3>5, <3>6
  <2> QED
    BY <1>1, <2>2, <2>4, OwnGiven
<1>3. CASE BgEmitDecode
  <2>1. bg = "scan" /\ Emit(scan.found)
    BY <1>3 DEF BgEmitDecode
  <2>2. scan.found \in SUBSET OwnItem /\ FoundInv
    BY <1>1, <2>1 DEF TypeInv, StreamInv, OnTheWay
  <2>3. ASSUME NEW item \in scan.found, item.id \notin completed
        PROVE  item.token = <<item.id, Len(tokens[item.id])>>
    <3>1. PICK x \in Ids : item.id = x
      BY <2>2 DEF OwnItem
    <3>2. Started(x)
      BY <2>1, <3>1 DEF HeldInv
    <3>3. /\ Len(tokens[x]) \in Nat
          /\ \A i \in 1 .. Len(tokens[x]) : tokens[x][i] = <<x, i - 1>>
      BY <1>1, OwnPlaces
    <3>4. Len(tokens[x]) > 0 /\ ~Unstarted(x)
      BY <3>2, <3>3 DEF Started, Unstarted, EndsWith, NoneOf
    <3>5. item.token = NextToken(LastOf(x))
      BY <2>1, <2>2, <3>1, <3>4 DEF FoundInv
    <3>6. LastOf(x) = <<x, Len(tokens[x]) - 1>>
      BY <3>3, <3>4 DEF LastOf
    <3>7. Len(tokens[x]) < MaxAge
      <4>1. Len(tokens[x]) < MaxDecode
        BY <2>3, <3>1, <1>1 DEF EndInv
      <4>2. MaxDecode \in Nat /\ MaxAge \in Nat /\ MaxDecode < MaxAge
        BY BatchingAssumption DEF BatchingAssumption
      <4> QED
        BY <3>3, <4>1, <4>2
    <3>8. MaxAge \in Nat
      BY BatchingAssumption DEF BatchingAssumption
    <3>9. item.token = <<x, Len(tokens[x]) - 1 + 1>>
      BY <3>3, <3>4, <3>5, <3>6, <3>7, <3>8 DEF NextToken
    <3> QED
      BY <3>1, <3>3, <3>9
  <2>4. \A item \in scan.found : item.id \notin completed
    BY <2>1, <2>2 DEF FoundInv
  <2> QED
    BY <1>1, <2>1, <2>2, <2>3, <2>4, OwnGiven
<1>4. CASE UNCHANGED tokens
  BY <1>4 DEF OwnTokens, Own, Ids
<1> QED
  BY <1>2, <1>3, <1>4 DEF Next, Main, Background, PrefillRow, FlushBucket, StartDrain,
                          StartDecode, DecodeStep, StopRunning, Join, BgGetDecode, BgScanKey,
                          BgRaise, BgFree, BgExit, vars, bgVars

-----------------------------------------------------------------------------
(* With a slot for every prompt                                                *)

(* The results are kept for the prompts 1 to the number of prompts.            *)
TokensInv == \E n \in Nat : Ids = 1 .. n /\ tokens = [x \in 1 .. n |-> tokens[x]]

LEMMA TokensKept == TokensInv /\ [Next]_vars => TokensInv'
<1> SUFFICES ASSUME TokensInv, [Next]_vars
             PROVE  TokensInv'
  OBVIOUS
<1>1. PICK n \in Nat : Ids = 1 .. n /\ tokens = [x \in 1 .. n |-> tokens[x]]
  BY DEF TokensInv
<1>2. Ids' = 1 .. n
  BY <1>1, IdsKept
<1>3. tokens' = [x \in 1 .. n |-> tokens'[x]]
  <2>1. CASE UNCHANGED tokens
    BY <1>1, <2>1
  <2>2. CASE \E items : Emit(items)
    BY <1>1, <2>2 DEF Emit
  <2> QED
    BY <2>1, <2>2 DEF Next, Main, Background, PrefillRow, FlushBucket, StartDrain,
                      StartDecode, DecodeStep, StopRunning, Join, BgGetPrefill, BgGetDecode,
                      BgScanKey, BgEmitDecode, BgRaise, BgFree, BgExit, vars, bgVars
<1> QED
  BY <1>2, <1>3 DEF TokensInv

LEMMA EnoughSlots ==
  ASSUME EndInv, TokensInv, Len(tokens) <= Cardinality(Slots)
  PROVE  Enough
<1>1. PICK n \in Nat : Ids = 1 .. n /\ tokens = [x \in 1 .. n |-> tokens[x]]
  BY DEF TokensInv
<1>2. \A x \in 1 .. n : tokens[x] \in Seq(Token)
  BY <1>1 DEF EndInv
<1>3. tokens \in [1 .. n -> Seq(Token)]
  <2> HIDE DEF Token
  <2> QED
    BY <1>1, <1>2
<1>4. Len(tokens) = n
  <2>1. PICK S : S = Seq(Token)
    OBVIOUS
  <2>2. tokens \in Seq(S) /\ DOMAIN tokens = 1 .. n
    BY <1>3, <2>1
  <2> QED
    BY <2>2
<1> QED
  BY <1>1, <1>4 DEF Enough

(* Every prompt has a row: as many different ones as there are prompts.        *)
LEMMA AllHaveRows ==
  ASSUME Init
  PROVE  /\ TokensInv /\ Ids = 1 .. Len(data)
         /\ \A x \in Ids : \E i \in 1 .. Len(data) : data[i].id = x
<1>1. PICK w \in Workloads : /\ data \in PrepareData(w)
                            /\ tokens = [i \in DOMAIN w.lengths |-> <<>>]
  BY DEF Init
<1> DEFINE n == Len(w.lengths)
           padded == PadData(w.lengths)
<1>2. /\ w.lengths \in Seq(1 .. MaxPrefill)
      /\ data \in [1 .. n -> {padded[i] : i \in 1 .. n}]
      /\ \A i \in 1 .. n : padded[i].id = i
  BY <1>1, PreparedRows
<1>3. n \in Nat /\ DOMAIN w.lengths = 1 .. n
  BY <1>2
<1>4. Ids = 1 .. n /\ tokens = [x \in 1 .. n |-> tokens[x]]
  BY <1>1, <1>3 DEF Ids
<1> HIDE DEF n, padded
<1>5. Len(data) = n /\ \A i \in 1 .. n : data[i].id \in 1 .. n
  <2>1. DOMAIN data = 1 .. n /\ data \in Seq({padded[i] : i \in 1 .. n})
    <3>1. PICK S : S = {padded[i] : i \in 1 .. n}
      OBVIOUS
    <3>2. data \in [1 .. n -> S]
      BY <1>2, <3>1
    <3>3. DOMAIN data = 1 .. n /\ data \in Seq(S)
      BY <1>3, <3>2
    <3> QED
      BY <3>1, <3>3
  <2>2. Len(data) = n
    BY <1>3, <2>1
  <2> QED
    BY <1>2, <2>2
<1>6. \A i, j \in 1 .. n : data[i].id = data[j].id => i = j
  BY <1>5, StreamAtStart DEF DistinctInv
<1>7. ASSUME NEW x \in 1 .. n, \A i \in 1 .. n : data[i].id # x
      PROVE  FALSE
  <2> DEFINE f == [i \in 1 .. n |-> data[i].id]
  <2>1. /\ IsFiniteSet(1 .. n) /\ Cardinality(1 .. n) = n
    <3>1. /\ IsFiniteSet(1 .. n)
          /\ Cardinality(1 .. n) = IF 1 > n THEN 0 ELSE n - 1 + 1
      BY <1>3, FS_Interval
    <3> QED
      BY <1>3, <3>1
  <2>2. /\ IsFiniteSet((1 .. n) \ {x})
        /\ Cardinality((1 .. n) \ {x}) = n - 1
    BY <2>1, FS_RemoveElement
  <2>3. f \in [1 .. n -> (1 .. n) \ {x}]
    BY <1>5, <1>7
  <2>4. Cardinality((1 .. n) \ {x}) < Cardinality(1 .. n)
    BY <1>3, <2>1, <2>2
  <2> HIDE DEF f
  <2>5. \E i, j \in 1 .. n : i # j /\ f[i] = f[j]
    BY <2>1, <2>2, <2>3, <2>4, FS_PigeonHole
  <2> QED
    BY <1>6, <2>5 DEF f
<1> QED
  BY <1>3, <1>4, <1>5, <1>7 DEF TokensInv

LEMMA NoReuseAtStart == Init => NoReuseInv
<1> SUFFICES ASSUME Init, Enough
             PROVE  RoomInv /\ HeldInv /\ CompleteInv /\ OwnTokens
  BY DEF NoReuseInv
<1>1. PICK e : e = <<>>
  OBVIOUS
<1>2. Len(e) = 0 /\ DOMAIN e = {}
  BY <1>1
<1>3. /\ queue = e /\ bg = "get" /\ pc = "rows" /\ left = 0 /\ empty = Slots
      /\ toFree = {} /\ completed = {} /\ \A s \in Slots : slotToId[s] = NoId
      /\ \A p \in Paddings : buckets[p] = e
  BY <1>1 DEF Init
<1>4. /\ Ids = 1 .. Len(data)
      /\ \A x \in Ids : \E i \in 1 .. Len(data) : data[i].id = x
  BY AllHaveRows
<1>5. SlotInv /\ Len(data) \in Nat
  <2>1. SlotInv
    BY SlotsAtStart
  <2>2. data \in Seq(Prompt)
    BY <2>1 DEF SlotInv
  <2> HIDE DEF Prompt
  <2> QED
    BY <2>1, <2>2
<1>6. Len(data) <= Cardinality(empty)
  <2>1. PICK n \in Nat : Ids = 1 .. n /\ n <= Cardinality(Slots)
    BY DEF Enough
  <2>2. Len(data) = n
    <3>1. 1 .. n = 1 .. Len(data)
      BY <1>4, <2>1
    <3>2. ASSUME NEW k \in Nat, NEW m \in Nat, 1 .. k = 1 .. m, k < m
          PROVE  FALSE
      <4>1. m \in 1 .. m /\ m \notin 1 .. k
        BY <3>2
      <4> QED
        BY <3>2, <4>1
    <3>3. ~(n < Len(data)) /\ ~(Len(data) < n)
      BY <1>5, <3>1, <3>2
    <3> QED
      BY <1>5, <3>3
  <2> QED
    BY <1>3, <2>1, <2>2
<1>7. \A i \in Places : HasTokens(i) <=> i = 1
  BY <1>2, <1>3 DEF Places, HasTokens
<1>8. Places = 0 .. 1
  BY <1>2, <1>3 DEF Places
<1>9. RoomInv
  <2>1. \A i \in 0 .. Len(queue) : ~HasTokens(i)
    BY <1>2, <1>3, <1>7, <1>8
  <2>2. \A i, j \in Places : i < j /\ HasTokens(i) => HasTokens(j)
    BY <1>7, <1>8
  <2> QED
    BY <1>3, <1>6, <2>1, <2>2 DEF RoomInv
<1>10. HeldInv
  <2>1. \A s : s \notin Waiting
    BY <1>2, <1>3, <1>5, WaitingSlots
  <2>2. \A p \in Paddings : \A i \in 1 .. Len(buckets[p]) : FALSE
    BY <1>2, <1>3
  <2>3. \A p \in 1 .. Len(queue) : FALSE
    BY <1>2, <1>3
  <2> QED
    BY <1>3, <2>1, <2>2, <2>3 DEF HeldInv, Vacant
<1>11. CompleteInv
  BY <1>3, <1>4 DEF CompleteInv, Pending
<1>12. OwnTokens
  <2>1. \A x \in Ids : tokens[x] = e
    BY <1>1 DEF Init, Ids
  <2> QED
    BY <1>2, <2>1 DEF OwnTokens, Own
<1> QED
  BY <1>9, <1>10, <1>11, <1>12

LEMMA NoReuseKept ==
  ASSUME OrderInv, OrderInv', NoReuseInv, [Next]_vars
  PROVE  NoReuseInv'
<1>1. Enough' => Enough
  BY EnoughKept
<1>2. SlotInv'
  BY DEF OrderInv
<1>3. ASSUME Enough
      PROVE  RoomInv' /\ HeldInv' /\ CompleteInv' /\ OwnTokens'
  <2>1. RoomInv /\ HeldInv /\ CompleteInv /\ OwnTokens
    BY <1>3 DEF NoReuseInv
  <2> QED
    BY <1>2, <2>1, RoomKept, HeldKept, CompleteKept, OwnTokensKept
<1> QED
  BY <1>1, <1>3 DEF NoReuseInv

(* With a slot for every prompt, no slot is given away while tasks of another  *)
(* prompt are under way: every prompt gets the tokens the device computed for  *)
(* it, from its first one on, and all are complete when the call returns.      *)
THEOREM BatchingWithoutReuse == Spec => []OwnWithoutReuse
<1>1. Init => NoReuseInv /\ TokensInv
  BY NoReuseAtStart, AllHaveRows
<1>2. /\ OrderInv /\ OrderInv' /\ NoReuseInv /\ TokensInv /\ [Next]_vars
        => NoReuseInv' /\ TokensInv'
  BY NoReuseKept, TokensKept
<1>3. OrderInv /\ NoReuseInv /\ TokensInv => OwnWithoutReuse
  BY EnoughSlots DEF OrderInv, NoReuseInv, CompleteInv, OwnWithoutReuse
<1> QED
  BY <1>1, <1>2, <1>3, BatchingInvariant, PTL DEF Spec
=============================================================================
