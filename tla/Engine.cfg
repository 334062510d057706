\* Two steps of up to two micro-batches, two computations in flight, a crash
\* or a restore, one evaluation, scoring, metric read or weight sync.
CONSTANTS
  MaxInflight = 2
  Interval = 2
  Keep = 1
  MetadataLag = FALSE
  MaxSteps = 2
  MaxMicro = 2
  MaxLives = 2
  MaxExtras = 1
  MaxBuffered = 2
SPECIFICATION FairSpec
INVARIANTS
  TypeOK
  AccumulatorIsOfThisStep
  MetricsInOrder
  NoMetricsLost
  MetricsWhole
  NeverBehindDisk
  ClosedIsDurable
PROPERTIES
  CompleteIsKept
  ResumedStepReachesDisk
  CallsReturn
