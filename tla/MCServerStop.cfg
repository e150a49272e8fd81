SPECIFICATION ServerSpec
CONSTANTS
  Requests = {q1}
  Asked <- MCAsked
  Known <- MCKnown
  Broken = {}
  VariantOf <- MCVariantOf
  Ticks = 1
  Repeat = 2
  WallTimes = {0, 1, 2}
  Unlimited = FALSE
  None = None
  Streams = {s1}
CHECK_DEADLOCK FALSE
INVARIANT
  StopIsClean
