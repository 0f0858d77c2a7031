SPECIFICATION Spec
CONSTANTS
  None = None
  MaxEvents = 4
INVARIANTS
  LanIsAskedFor
  AdminCanSignIn
  TuningIsKept
PROPERTIES
  DestructionIsConfirmed
  StopIsHonoured
  RunsUnlessSecretUnreadable
CHECK_DEADLOCK FALSE
