\* The check for new slices after a checkpoint does not look at the step.
\* CHECK_DEADLOCK: a run ends in "done", "stopped" or "failed".
CONSTANTS
  Slices = {s1, s2}
  MinSlices = 1
  MaxRetries = 2
  Steps = 2
  CheckpointPeriod = 2
  SnapshotInterval = 1
  OnGCS = FALSE
  Checkpointing = TRUE
  SnapshotMode = FALSE
  SaveOnStart = TRUE
  SaveOnCompletion = TRUE
  Preemptible = FALSE
  CopyMayFail = FALSE
  CopyMayHang = FALSE
SPECIFICATION Spec
INVARIANT NoScaleUpAfterLastStep
CHECK_DEADLOCK FALSE
