SPECIFICATION Spec
CONSTANTS
  Clicks = {p1, p2}
  Visitors = {v1}
  FrameCount = 1
  MaxDrops = 1
  Patient = TRUE
  None = None
CHECK_DEADLOCK FALSE
INVARIANTS
  OneColony
  WallsOfTheColony
PROPERTIES
  StartComesBack
  SourcesClose
