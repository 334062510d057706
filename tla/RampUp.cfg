\* Four ramps of two or one increments, runs of ten steps, three restarts.
CONSTANTS
  Schedules <- MCSchedules
  Steps = 10
  MaxResumes = 3
SPECIFICATION Spec
\* A run ends.
CHECK_DEADLOCK FALSE
INVARIANTS
  NoSampleTwice
  OnSchedule
  LittleSkipped
