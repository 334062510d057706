\* Three prompts for two slots: a slot is given to a second prompt.
CONSTANTS
  Slots = {s1, s2}
  s1 = s1
  s2 = s2
  Workloads <- MCReuse
  PrefillLengths = {2, 3}
  MaxPrefill = 4
  Eos <- MCEos
  MinDecodeSteps = 2
  MaxDecode = 3
  MaxQueue = 4
  MaxAge = 4
SPECIFICATION Spec
\* A call returns.
CHECK_DEADLOCK FALSE
INVARIANT OwnTokens
