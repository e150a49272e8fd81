SPECIFICATION Spec
CONSTANTS
  Starters = {s1, s2}
  Stoppers = {x1}
  Viewers = {v1}
  Ticks = 1
  Interval = 1
  Cap = 1
  Unlimited = TRUE
  None = None
  MaxRequests = 3
CHECK_DEADLOCK FALSE
INVARIANT
  OneLiveRun
