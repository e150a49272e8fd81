SPECIFICATION MCSpec
CONSTANTS
  Starters = {s1, s2}
  Stoppers = {x1}
  Viewers = {v1, v2}
  Ticks = 2
  Interval = 1
  Cap = 1
  Unlimited = FALSE
  None = None
  MaxRequests = 3
CHECK_DEADLOCK FALSE
INVARIANTS
  TypeOK
  EndIsFinal
  ForgottenRunsAreCancelled
  FramesAccountedFor
  FramesInOrder
  OpeningFrameKept
PROPERTIES
  RunEnds
  StreamEnds
