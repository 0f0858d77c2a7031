SPECIFICATION FairSpec
CONSTANTS
  Changers = {c1, c2}
  Loop = loop
  NoTask = NoTask
  Caps = {2, 3}
  DefaultCap = 3
  SegmentSizes = {2}
  SnapshotSizes = {1}
  MaxRows = 3
  NoRow = NoRow
INVARIANTS
  NoUnderflow
  NoHoles
  CapSurvivesRestart
PROPERTIES
  FreedIsGone
  SettlesUnderCap
CHECK_DEADLOCK FALSE
