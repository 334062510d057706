\* Three prompts that would share a bucket, for two slots.
CONSTANTS
  Slots = {s1, s2}
  s1 = s1
  s2 = s2
  Workloads <- MCPacked
  PrefillLengths = {2, 3}
  MaxPrefill = 4
  Eos <- MCEos
  MinDecodeSteps = 2
  MaxDecode = 3
  MaxQueue = 4
  MaxAge = 4
SPECIFICATION FairSpec
\* A call returns.
CHECK_DEADLOCK FALSE
PROPERTY Termination
