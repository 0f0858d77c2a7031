SPECIFICATION Spec
CONSTANTS
  None = None
  Reports <- MCReports
  Cooldown = 2
  MaxRun = 1
  MaxNumber = 2
  MaxTime = 3
  MaxDay = 1
  MaxTasks = 2
INVARIANTS
  ReportsAreSpaced
  DayPlaysInOrder
  CodecFitsFrames
CHECK_DEADLOCK FALSE
