SPECIFICATION FairPipelineSpec
CONSTANTS
  PollInterval = 1
  BaseBackoff = 1
  MaxBackoff = 2
  RestartWindow = 3
  MaxRestarts = 1
  HealthyReset = 3
  EpochModulus = 1
  HasFallback = FALSE
  WarnCycles = 1
  KillCycles = 2
  MaxUploads = 1
PROPERTIES
  WedgeIsKilled
CHECK_DEADLOCK FALSE
