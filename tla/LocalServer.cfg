SPECIFICATION Spec
CONSTANTS
  Attempts = {a1, a2}
  None = None
  Threshold = 3
  Lockouts <- MCLockouts
  MaxClock = 4
  Cameras = {front, back}
  Lifetime = 2
  MaxPairs = 2
  MaxSetups = 2
INVARIANTS
  GuessBudget
  AccessIsExact
  HttpsWhenWanted
CHECK_DEADLOCK FALSE
