SPECIFICATION FairSpec
CONSTANTS
  c1 = c1
  c2 = c2
  Cameras = {c1, c2}
  Handlers = {h1, h2}
  Modes = {"Local", "Connected"}
  Policies <- MCPolicies
  MaxAttempts = 3
  MaxPolicies = 2
  MaxToggles = 3
  MaxDiskSteps = 1
  MaxRestarts = 1
INVARIANTS
  SetsAreRecent
  SetMatchesRows
PROPERTIES
  FollowsPolicy
  FlagFollowsDisk
CHECK_DEADLOCK FALSE
