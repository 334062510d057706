-------------------------- MODULE ContinuousBatching --------------------------
(***************************************************************************)
(* InferenceWorker.run_inference of inference/offline_engine.py: the main  *)
(* thread prefills prompts into decode slots and runs decode steps; the    *)
(* detokenization thread takes their results from a queue, hands tokens to *)
(* prompts and frees the slots of the prompts that completed. With prefill *)
(* packing, prompts wait in the buckets of input_pipeline/packing/         *)
(* prefill_packing.py until their bucket overflows or is flushed.          *)
(*                                                                         *)
(* A token is <<id, k>>: the k-th the device computes for prompt id. The   *)
(* device goes on with a prompt until another one is inserted in its slot. *)
(***************************************************************************)
EXTENDS Integers, Sequences, FiniteSets, SequencesExt

CONSTANTS
  Slots,             \* decode slots
  Workloads,         \* calls of batch_inference: [batch, lengths]
  PrefillLengths, MaxPrefill,  \* the lengths prompts are padded to
  Eos,               \* the tokens that are an end of sequence
  MinDecodeSteps, MaxDecode,
  MaxQueue,          \* bound: tasks waiting for the detokenization thread
  MaxAge             \* bound: tokens of a prompt the model tells apart

(* pad_data: the smallest prefill length, or else the maximum, that holds len. *)
Paddings == PrefillLengths \union {MaxPrefill}
IsPadding(l, len) == l >= len /\ \A m \in Paddings : m >= len => l <= m

ASSUME BatchingAssumption ==
  /\ IsFiniteSet(Slots) /\ Slots # {}
  /\ MaxPrefill \in Nat /\ PrefillLengths \subseteq 1 .. MaxPrefill
  /\ \A len \in 1 .. MaxPrefill : \E l \in Paddings : IsPadding(l, len)
  /\ \A w \in Workloads :
       w.batch \in BOOLEAN /\ w.lengths \in Seq(1 .. MaxPrefill)
  /\ {MinDecodeSteps, MaxDecode, MaxQueue} \subseteq Nat \ {0}
  /\ MaxAge \in Nat /\ MaxAge > MaxDecode

VARIABLES
  batch, data,       \* the call: packing enabled, the rows still to take
  pc, left,          \* main thread; left is the decode steps still to run
  running,           \* self.running
  empty,             \* self.empty_decode_slots
  slotToId, keys,    \* self.slot_to_id and its keys
  buckets,           \* the prompts waiting to be packed, by padded length
  device,            \* the token the next decode step yields in each slot
  queue,             \* self.detokenization_queue
  bg,                \* detokenization thread
  scan,              \* its pass over slot_to_id for a decode task
  toFree,            \* its newly_empty
  tokens, completed  \* completion_tokens_by_id and completed_sequences

mainVars == <<batch, data, pc, left, running, buckets, device>>
bgVars == <<bg, scan, toFree, tokens, completed>>
sharedVars == <<empty, slotToId, keys, queue>>
vars == <<mainVars, bgVars, sharedVars>>

NoId == 0
Garbage == <<NoId, 0>>
NoScan == [buffer |-> <<>>, keys |-> {}, left |-> {}, found |-> {}]
Ids == DOMAIN tokens
Prompts == [id : Ids, len : 1 .. MaxPrefill, pad : Paddings]
Active == {s \in Slots : slotToId[s] # NoId}
SlotsOf(rows) == {rows[i].slot : i \in DOMAIN rows}
Waiting == UNION {SlotsOf(buckets[p]) : p \in Paddings}

TypeOK ==
  /\ batch \in BOOLEAN /\ running \in BOOLEAN
  /\ data \in Seq(Prompts)
  /\ pc \in {"rows", "drain", "join", "done"} /\ left \in 0 .. MinDecodeSteps
  /\ empty \subseteq Slots
  /\ slotToId \in [Slots -> Ids \union {NoId}]
  /\ keys \subseteq Slots /\ Active \subseteq keys
  /\ \A p \in Paddings : buckets[p] \in
       Seq([id : Ids, slot : Slots, len : 1 .. p, pad : {p}])
  /\ device \in [Slots -> (Ids \union {NoId}) \X (0 .. MaxAge)]
  /\ Len(queue) <= MaxQueue + 1
  /\ bg \in {"get", "scan", "free", "ended", "killed"}
  /\ toFree \subseteq Slots /\ (toFree # {} <=> bg = "free")
  /\ \A id \in Ids : tokens[id] \in Seq((Ids \union {NoId}) \X (0 .. MaxAge))
  /\ completed \subseteq Ids

-----------------------------------------------------------------------------
(* The prompts                                                                 *)

PadData(lengths) ==
  [i \in DOMAIN lengths |->
     [id |-> i, len |-> lengths[i],
      pad |-> CHOOSE l \in Paddings : IsPadding(l, lengths[i])]]

(* prepare_data: the rows, sorted by padded length when they are packed; the   *)
(* sort keeps the order of those that are padded alike.                        *)
Before(a, b) == a.pad < b.pad \/ (a.pad = b.pad /\ a.id < b.id)
PrepareData(w) ==
  LET padded == PadData(w.lengths)
      rows == {padded[i] : i \in DOMAIN padded}
  IN  IF w.batch
      THEN {d \in [DOMAIN padded -> rows] :
              \A i, j \in DOMAIN d : i < j => Before(d[i], d[j])}
      ELSE {padded}

Init ==
  /\ \E w \in Workloads :
       /\ batch = w.batch
       /\ data \in PrepareData(w)
       /\ tokens = [i \in DOMAIN w.lengths |-> <<>>]
  /\ pc = "rows" /\ left = 0 /\ running = TRUE
  /\ empty = Slots
  /\ slotToId = [s \in Slots |-> NoId] /\ keys = {}
  /\ buckets = [p \in Paddings |-> <<>>]
  /\ device = [s \in Slots |-> Garbage]
  /\ queue = <<>>
  /\ bg = "get" /\ scan = NoScan /\ toFree = {}
  /\ completed = {}

-----------------------------------------------------------------------------
(* Main thread: prefill                                                        *)

FirstToken(id) == <<id, 0>>

(* engine.prefill and insert: the device goes on from the prompt's second token.*)
Insert(dev, rows) ==
  [s \in Slots |->
     IF \E i \in DOMAIN rows : rows[i].slot = s
     THEN <<(CHOOSE r \in {rows[i] : i \in DOMAIN rows} : r.slot = s).id, 1>>
     ELSE dev[s]]

(* prefill_done: the rows own their slots, and one task holds their first      *)
(* tokens. A slot is a new key of the dictionary the first time it is used.    *)
PrefillDone(rows) ==
  /\ device' = Insert(device, rows)
  /\ slotToId' = [s \in Slots |-> IF s \in SlotsOf(rows)
                                  THEN Insert(device, rows)[s][1] ELSE slotToId[s]]
  /\ keys' = keys \union SlotsOf(rows)
  /\ queue' = Append(queue,
                [items |-> {[slot |-> rows[i].slot, id |-> rows[i].id,
                             token |-> FirstToken(rows[i].id)] : i \in DOMAIN rows}])

(* The free room of a bucket, whose capacity is max_prefill_length.            *)
Unallocated(bucket) ==
  MaxPrefill - FoldLeft(LAMBDA length, row : length + row.len, 0, bucket)

(* PrefillHelper.process for a row alone: packing is off, or it could not share.*)
PrefillAlone(row) ==
  /\ ~batch \/ row.pad = MaxPrefill
  /\ PrefillDone(<<row>>)
  /\ UNCHANGED buckets

(* Mutant: the row that did not fit is dropped with the bucket it overflowed.  *)
PackDropsRow(row) ==
  /\ batch /\ row.pad # MaxPrefill
  /\ IF row.len <= Unallocated(buckets[row.pad])
     THEN /\ buckets' = [buckets EXCEPT ![row.pad] = Append(@, row)]
          /\ UNCHANGED <<device, slotToId, keys, queue>>
     ELSE /\ PrefillDone(buckets[row.pad])
          /\ buckets' = [buckets EXCEPT ![row.pad] = <<>>]

(* BatchedPrefillProcessor.process: the bucket is prefilled only when the row  *)
(* does not fit in what is left of it.                                         *)
Pack(row) ==
  /\ batch /\ row.pad # MaxPrefill
  /\ IF row.len <= Unallocated(buckets[row.pad])
     THEN /\ buckets' = [buckets EXCEPT ![row.pad] = Append(@, row)]
          /\ UNCHANGED <<device, slotToId, keys, queue>>
     ELSE /\ PrefillDone(buckets[row.pad])
          /\ buckets' = [buckets EXCEPT ![row.pad] = <<row>>]

(* Mutant: a slot is kept spare.                                               *)
SlotWantedSpare == Cardinality(empty) <= 1

SlotWanted == empty = {}

(* A slot is taken for the next row; pop() picks any. The thread reads slots   *)
(* and buckets nobody else writes, so that the row is prefilled in one step.   *)
PrefillRow ==
  /\ pc = "rows" /\ left = 0 /\ data # <<>> /\ ~SlotWanted
  /\ Len(queue) < MaxQueue
  /\ \E s \in empty :
       LET row == [id |-> Head(data).id, slot |-> s, len |-> Head(data).len,
                   pad |-> Head(data).pad]
       IN  /\ empty' = empty \ {s}
           /\ PrefillAlone(row) \/ Pack(row)
  /\ data' = Tail(data)
  /\ UNCHANGED <<batch, pc, left, running, bgVars>>

(* PrefillHelper.finalize: what the buckets hold, in the order of the lengths. *)
FlushBucket ==
  /\ pc = "rows" /\ left = 0 /\ data = <<>>
  /\ Len(queue) < MaxQueue
  /\ \E p \in Paddings :
       /\ buckets[p] # <<>>
       /\ \A q \in Paddings : q < p => buckets[q] = <<>>
       /\ PrefillDone(buckets[p])
       /\ buckets' = [buckets EXCEPT ![p] = <<>>]
  /\ UNCHANGED <<batch, data, pc, left, running, empty, bgVars>>

StartDrain ==
  /\ pc = "rows" /\ left = 0 /\ data = <<>> /\ Waiting = {}
  /\ pc' = "drain"
  /\ UNCHANGED <<batch, data, left, running, buckets, device, bgVars, sharedVars>>

-----------------------------------------------------------------------------
(* Main thread: decode                                                         *)

(* Mutant: one decode step too many.                                           *)
DecodeStepsPlusOne == MinDecodeSteps + 1

DecodeSteps == MinDecodeSteps

(* decode() is called while no slot is free for the next row, and at the end   *)
(* while a slot has a prompt.                                                  *)
StartDecode ==
  /\ left = 0
  /\ \/ pc = "rows" /\ data # <<>> /\ SlotWanted
     \/ pc = "drain" /\ Active # {}
  /\ left' = DecodeSteps
  /\ UNCHANGED <<batch, data, pc, running, buckets, device, bgVars, sharedVars>>

(* engine.generate: a token for every slot, whatever it holds.                 *)
Advance(dev) ==
  [s \in Slots |-> <<dev[s][1], IF dev[s][2] < MaxAge THEN dev[s][2] + 1 ELSE MaxAge>>]

(* Mutant: the buffer queued is that of the following step.                    *)
ResultOfNextStep(dev) == Advance(dev)

Result(dev) == dev

DecodeStep ==
  /\ left > 0 /\ Len(queue) < MaxQueue
  /\ queue' = Append(queue, [buffer |-> Result(device)])
  /\ device' = Advance(device)
  /\ left' = left - 1
  /\ UNCHANGED <<batch, data, pc, running, buckets, bgVars, empty, slotToId, keys>>

(* No slot has a prompt: the detokenization thread is told, and joined.        *)
StopRunning ==
  /\ pc = "drain" /\ left = 0 /\ Active = {}
  /\ running' = FALSE /\ pc' = "join"
  /\ UNCHANGED <<batch, data, left, buckets, device, bgVars, sharedVars>>

Join ==
  /\ pc = "join" /\ bg = "ended"
  /\ pc' = "done"
  /\ UNCHANGED <<batch, data, left, running, buckets, device, bgVars, sharedVars>>

(* SafeThread kills the process when the detokenization thread raises.         *)
Main ==
  /\ bg # "killed"
  /\ \/ PrefillRow
     \/ FlushBucket
     \/ StartDrain
     \/ StartDecode
     \/ DecodeStep
     \/ StopRunning
     \/ Join

-----------------------------------------------------------------------------
(* Detokenization thread                                                       *)

(* Mutant: a prompt that completed is not skipped.                             *)
TakesTokenAlways(item) == TRUE

(* emit_token: a prompt takes the token unless it completed, ...               *)
TakesToken(item) == item.id \notin completed

(* ... and terminates, or had, with an end of sequence or at its length.       *)
Terminates(item) ==
  \/ item.id \in completed
  \/ item.token \in Eos
  \/ Len(tokens[item.id]) + 1 = MaxDecode

(* The tokens of a task, each for another prompt.                              *)
Emit(items) ==
  LET ended == {x \in items : Terminates(x)}
  IN  /\ tokens' = [id \in Ids |->
                      IF \E x \in items : x.id = id /\ TakesToken(x)
                      THEN Append(tokens[id], (CHOOSE x \in items : x.id = id).token)
                      ELSE tokens[id]]
      /\ completed' = completed \union {x.id : x \in ended}
      /\ toFree' = {x.slot : x \in ended}
      /\ bg' = IF ended = {} THEN "get" ELSE "free"

(* Mutant: the queue is taken from the end.                                    *)
LastTaskFirst(q) == <<q[Len(q)]>> \o SubSeq(q, 1, Len(q) - 1)

InOrder(q) == q

BgGetPrefill ==
  /\ bg = "get" /\ queue # <<>>
  /\ LET q == InOrder(queue)
     IN  /\ "items" \in DOMAIN Head(q)
         /\ Emit(Head(q).items)
         /\ queue' = Tail(q)
  /\ UNCHANGED <<scan, mainVars, empty, slotToId, keys>>

BgGetDecode ==
  /\ bg = "get" /\ queue # <<>>
  /\ LET q == InOrder(queue)
     IN  /\ "buffer" \in DOMAIN Head(q)
         /\ scan' = [buffer |-> Head(q).buffer, keys |-> keys, left |-> keys,
                     found |-> {}]
         /\ queue' = Tail(q)
  /\ bg' = "scan"
  /\ UNCHANGED <<toFree, tokens, completed, mainVars, empty, slotToId, keys>>

(* One entry of slot_to_id.items(), in any order: the token goes to the prompt *)
(* the slot has when the entry is read.                                        *)
BgScanKey ==
  /\ bg = "scan" /\ keys = scan.keys
  /\ \E s \in scan.left :
       LET row == [slot |-> s, id |-> slotToId[s], token |-> scan.buffer[s]]
       IN  scan' = [scan EXCEPT
                      !.left = @ \ {s},
                      !.found = IF row.id # NoId /\ row.id \notin completed
                                THEN @ \union {row} ELSE @]
  /\ UNCHANGED <<bg, toFree, tokens, completed, mainVars, sharedVars>>

BgEmitDecode ==
  /\ bg = "scan" /\ keys = scan.keys /\ scan.left = {}
  /\ Emit(scan.found)
  /\ scan' = NoScan
  /\ UNCHANGED <<mainVars, sharedVars>>

(* The dictionary grew while it was iterated over: RuntimeError.               *)
BgRaise ==
  /\ bg = "scan" /\ keys # scan.keys
  /\ bg' = "killed"
  /\ UNCHANGED <<scan, toFree, tokens, completed, mainVars, sharedVars>>

(* Mutant: the slot is free but still has its prompt.                          *)
ReleasedKeepsId(s) == slotToId

Released(s) == [slotToId EXCEPT ![s] = NoId]

(* The slots of the prompts that terminated, one by one, in any order.         *)
BgFree ==
  /\ bg = "free"
  /\ \E s \in toFree :
       /\ slotToId' = Released(s)
       /\ empty' = empty \union {s}
       /\ toFree' = toFree \ {s}
       /\ bg' = IF toFree = {s} THEN "get" ELSE "free"
  /\ UNCHANGED <<scan, tokens, completed, mainVars, keys, queue>>

BgExit ==
  /\ bg = "get" /\ queue = <<>> /\ ~running
  /\ bg' = "ended"
  /\ UNCHANGED <<scan, toFree, tokens, completed, mainVars, sharedVars>>

Background ==
  \/ BgGetPrefill
  \/ BgGetDecode
  \/ BgScanKey
  \/ BgEmitDecode
  \/ BgRaise
  \/ BgFree
  \/ BgExit

Next == Main \/ Background

Spec == Init /\ [][Next]_vars

(* Both threads are scheduled; the queue itself is never full in the code.     *)
FairSpec == Spec /\ WF_vars(Main) /\ WF_vars(Background)

-----------------------------------------------------------------------------
(* Properties                                                                  *)

(* A decode slot is never lost: it is free, about to be freed, given to a      *)
(* prompt, or with a prompt in a bucket, whatever completes while it is held.  *)
NoSlotLost ==
  \A s \in Slots :
    \/ s \in empty
    \/ s \in toFree
    \/ slotToId[s] # NoId
    \/ s \in Waiting

(* A prompt gets nothing after the token that ends it, although tasks with     *)
(* more of its tokens may still be in the queue, and its prefill with them.    *)
NothingAfterTheEnd ==
  \A id \in Ids :
    /\ Len(tokens[id]) <= MaxDecode
    /\ \A i \in 1 .. Len(tokens[id]) - 1 : tokens[id][i] \notin Eos

(* Once a prompt has a token of its own, it has the ones the device computed   *)
(* next, none skipped, none twice and none of another prompt.                  *)
InOrderFromTheFirst ==
  \A id \in Ids : \A i, j \in DOMAIN tokens[id] :
    i < j /\ tokens[id][i][1] = id =>
      tokens[id][j] = <<id, tokens[id][i][2] + (j - i)>>

Own(id) == \A i \in DOMAIN tokens[id] : tokens[id][i] = <<id, i - 1>>

(* "Adds the token to the results for the specified prompt ID": the results of *)
(* a prompt are the tokens the device computed for it.                         *)
OwnTokens == \A id \in Ids : Own(id)

(* With a slot for every prompt that holds, and at the end all are complete.   *)
OwnWithoutReuse ==
  Len(tokens) <= Cardinality(Slots) =>
    OwnTokens /\ (pc = "done" => completed = Ids)

(* Without packing, slot_to_id never gets a key while the detokenization       *)
(* thread iterates over it: every slot is used before the first decode step.   *)
(* With packing, a bucket may be prefilled between decode steps, and it may.   *)
ScanUndisturbed == ~batch => bg # "killed"

(* A call of batch_inference returns, unless the process was killed: also when *)
(* a stale token ends a prompt, and its slot is freed a second time.           *)
Termination == <>(pc = "done" \/ bg = "killed")
=============================================================================
