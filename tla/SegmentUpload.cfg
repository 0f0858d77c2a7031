SPECIFICATION FairUploadSpec
CONSTANTS
  SeenCap = 3
  ResetGap = 3
  SweepEvery = 1
  SweepKeep = 2
  ListSize = 1
  CleanupMayFail = TRUE
  MaxSeq = 2
  MaxEpoch = 2
  MaxBacklog = 2
  SweepSlack = 1
  Permits = 2
  MaxRetries = 1
  MaxTasks = 2
INVARIANTS
  CodecReportedOnce
  OwnSegmentUntilRestart
  NothingLostToSweep
PROPERTIES
  EveryTaskEnds
  EventuallyTaken
  ImplementsSegmentWindow
CHECK_DEADLOCK FALSE
