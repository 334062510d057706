\* Checkpoint mode off GCS: forced saves before a scale-up, a possible SIGTERM.
\* CHECK_DEADLOCK: a run ends in "done", "stopped" or "failed".
CONSTANTS
  Slices = {s1, s2}
  MinSlices = 1
  MaxRetries = 3
  Steps = 4
  CheckpointPeriod = 3
  SnapshotInterval = 1
  OnGCS = FALSE
  Checkpointing = TRUE
  SnapshotMode = FALSE
  SaveOnStart = TRUE
  SaveOnCompletion = TRUE
  Preemptible = TRUE
  CopyMayFail = FALSE
  CopyMayHang = FALSE
SPECIFICATION FairSpec
INVARIANT DoneIsDurable
PROPERTIES BackedUpBeforeScaleUp Termination
CHECK_DEADLOCK FALSE
