--------------------------- MODULE HostSnapshotter ---------------------------
(***************************************************************************)
(* The in-memory snapshots of elastic_backup_kind = snapshot, as           *)
(* common/snapshotting.py uses the Orbax Snapshotter: a queue of one slot  *)
(* and a worker thread that copies the train state to the pinned host      *)
(* memory of the slices it is replicated on.  The latest snapshot can be   *)
(* restored while one of its replicas survives.                            *)
(*                                                                         *)
(* Like AsyncCheckpointer, the module has operations that ElasticTraining  *)
(* composes.                                                               *)
(***************************************************************************)
EXTENDS Backups

CONSTANTS Slices,          \* the slices of the jobset
          CopyMayFail,     \* a copy can fail with all its slices up
          CopyMayHang      \* block_until_ready on a lost slice can hang

ASSUME CopyAssumption == {CopyMayFail, CopyMayHang} \subseteq BOOLEAN

VARIABLES
  snapshot,    \* the latest completed snapshot, or Scratch
  replicas,    \* the slices whose hosts still hold it
  copying,     \* the snapshot in the queue slot, or Scratch
  sources,     \* the slices whose arrays it is copied from
  worker       \* what the worker thread is doing with it

snapVars == <<snapshot, replicas, copying, sources, worker>>

(* "hurt": a slice it copies from is gone; "stuck": it hangs on that slice.    *)
WorkerStates == {"idle", "copying", "hurt", "stuck"}

SnapshotterTypeOK ==
  /\ snapshot \in BackupOrScratch
  /\ replicas \subseteq Slices
  /\ copying \in BackupOrScratch
  /\ sources \subseteq Slices
  /\ worker \in WorkerStates

SnapshotterInit ==
  /\ snapshot = Scratch
  /\ replicas = {}
  /\ copying = Scratch
  /\ sources = {}
  /\ worker = "idle"

(* Snapshotter.save: skipped as busy while the slot is taken.  With lost, the  *)
(* arrays to copy lived on a slice that is already gone.                       *)
SaveSnapshot(b, active, lost) ==
  IF worker = "idle"
    THEN /\ copying' = b
         /\ sources' = active
         /\ worker' = IF lost THEN "hurt" ELSE "copying"
         /\ UNCHANGED <<snapshot, replicas>>
    ELSE UNCHANGED snapVars

FreeSlot ==
  /\ copying' = Scratch
  /\ sources' = {}
  /\ worker' = "idle"

(* The worker thread.  A failed copy is logged and frees the slot.             *)
CopyCompletes ==
  /\ worker = "copying"
  /\ snapshot' = copying
  /\ replicas' = sources
  /\ FreeSlot

CopyFails ==
  /\ worker = "hurt" \/ (worker = "copying" /\ CopyMayFail)
  /\ FreeSlot
  /\ UNCHANGED <<snapshot, replicas>>

CopyHangs ==
  /\ CopyMayHang
  /\ worker = "hurt"
  /\ worker' = "stuck"
  /\ UNCHANGED <<snapshot, replicas, copying, sources>>

(* Snapshotter.join returns once the slot is free.                             *)
Joined == worker = "idle"

(* load_snapshot: it restores the latest snapshot onto the new slices while one *)
(* of its replicas survives; else the caller falls back to the checkpoint.     *)
Loadable == replicas # {}

(* Slice s goes away, with the replica its hosts held.                         *)
LoseReplica(s) ==
  /\ replicas' = replicas \ {s}
  /\ worker' = IF worker = "copying" /\ s \in sources THEN "hurt" ELSE worker
  /\ UNCHANGED <<snapshot, copying, sources>>

(* reset_snapshotter: a new snapshotter that keeps only the last snapshot.     *)
ResetSnapshotter ==
  /\ FreeSlot
  /\ UNCHANGED <<snapshot, replicas>>
=============================================================================
