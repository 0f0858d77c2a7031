SPECIFICATION FairSpec
CONSTANTS
  Ws = ws
  shot = shot
  erase = erase
  Takers = {ws, web}
  None = None
  ListSize = 1
  SweepKeep = 2
  MaxClock = 3
  MaxRuns = 2
  MaxRows = 2
  Kinds <- MCKinds
  Moments <- MCMoments
  MaxBackoff = 2
  MaxDrops = 1
INVARIANTS
  FrameIsOfItsTime
  AnswersOwnImage
PROPERTIES
  ImplementsCalls
  CommandsSettle
CHECK_DEADLOCK FALSE
