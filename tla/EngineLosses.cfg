CONSTANTS
  MaxInflight = 2
  Interval = 2
  Keep = 1
  MetadataLag = FALSE
  MaxSteps = 2
  MaxMicro = 2
  MaxLives = 2
  MaxExtras = 0
  MaxBuffered = 2
SPECIFICATION Spec
INVARIANT LossesMatchGrads
