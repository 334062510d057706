\* An attempt runs on any two or three of three slices; two runs of
\* up to three attempts in one process.
CONSTANTS
  s1 = s1
  s2 = s2
  s3 = s3
  Slices = {s1, s2, s3}
  MinSlices = 2
  MaxRetries = 3
  MaxRuns = 2
  SetupOrder <- MCSetupOrder
SPECIFICATION Spec
INVARIANTS
  NoStaleObject
  BuiltOnce
  LabelMatchesCause
  TrainingIsNotCharged
