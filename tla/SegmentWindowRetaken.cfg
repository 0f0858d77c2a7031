SPECIFICATION Spec
CONSTANTS
  SeenCap = 40
  ResetGap = 10
  SweepEvery = 12
  SweepKeep = 37
  ListSize = 3
  CleanupMayFail = FALSE
  MaxSeq = 45
  MaxEpoch = 1
  MaxBacklog = 1
  SweepSlack = 1
INVARIANTS
  NoDuplicate
CHECK_DEADLOCK FALSE
