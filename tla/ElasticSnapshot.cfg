\* Replica resize with a snapshot every second step, a checkpoint every third.
\* CHECK_DEADLOCK: a run ends in "done", "stopped" or "failed", and a stuck copy
\* blocks Snapshotter.join for ever (the code says so).
CONSTANTS
  Slices = {s1, s2, s3}
  MinSlices = 1
  MaxRetries = 3
  Steps = 5
  CheckpointPeriod = 3
  SnapshotInterval = 2
  OnGCS = TRUE
  Checkpointing = TRUE
  SnapshotMode = TRUE
  SaveOnStart = FALSE
  SaveOnCompletion = TRUE
  Preemptible = FALSE
  CopyMayFail = TRUE
  CopyMayHang = TRUE
SYMMETRY SliceSymmetry
SPECIFICATION Spec
INVARIANTS TypeOK BatchPerStep NoPartialLeft
PROPERTY RefinesResumable
CHECK_DEADLOCK FALSE
