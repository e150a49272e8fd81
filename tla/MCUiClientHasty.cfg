SPECIFICATION Spec
CONSTANTS
  Clicks = {p1, p2}
  Visitors = {}
  FrameCount = 1
  MaxDrops = 1
  Patient = FALSE
  None = None
CHECK_DEADLOCK FALSE
INVARIANT
  OneColony
