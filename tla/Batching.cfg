\* Two slots, decode in twos, a queue of four tasks.
CONSTANTS
  Slots = {s1, s2}
  s1 = s1
  s2 = s2
  Workloads <- MCWorkloads
  PrefillLengths = {2, 3}
  MaxPrefill = 4
  Eos <- MCEos
  MinDecodeSteps = 2
  MaxDecode = 3
  MaxQueue = 4
  MaxAge = 4
SPECIFICATION FairSpec
\* A call returns.
CHECK_DEADLOCK FALSE
INVARIANTS
  TypeOK
  NoSlotLost
  NothingAfterTheEnd
  InOrderFromTheFirst
  OwnWithoutReuse
  ScanUndisturbed
PROPERTY Termination
