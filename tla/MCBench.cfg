SPECIFICATION MCSpec
CONSTANTS
  Requests = {q1, q2}
  q1 = q1
  q2 = q2
  Asked <- MCAsked
  Known <- MCKnown
  Broken = {"wrong"}
  VariantOf <- MCVariantOf
  Ticks = 1
  Repeat = 2
  WallTimes = {0, 1, 2}
  Unlimited = FALSE
  None = None
CHECK_DEADLOCK FALSE
INVARIANTS
  OneBenchAtATime
  BrokenAreFlagged
  SpeedupWithinVariant
PROPERTY
  SlotComesBack
