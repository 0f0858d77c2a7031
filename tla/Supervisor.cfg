SPECIFICATION FairSpec
CONSTANTS
  PollInterval = 1
  BaseBackoff = 1
  MaxBackoff = 4
  RestartWindow = 7
  MaxRestarts = 3
  HealthyReset = 7
  EpochModulus = 2
  HasFallback = TRUE
INVARIANTS
  RestartBudget
  NoFfmpegLeftBehind
PROPERTIES
  StopReturns
  EndedRunIsRetried
CHECK_DEADLOCK FALSE
