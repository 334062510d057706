\* Two to five stages, up to twenty microbatches and four repeats.
CONSTANTS
  MaxStages = 5
  MaxPerStage = 4
  MaxRepeats = 4
  Schedules <- MCSchedules
SPECIFICATION Spec
INVARIANTS
  SameAsSequential
  MetricsOfTheirLayer
  GradientReachesLayer
