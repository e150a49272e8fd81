SPECIFICATION MCSpec
CONSTANTS
  Requests <- MCRequests
  None = None
  IntRange = 256
  MaxCells = 9
  MaxAnts = 4
  MaxTicks = 5
  MaxAntTicks = 12
  MaxItems = 2
  MaxRepeat = 2
  Unlimited = FALSE
  Bits = 8
  Gamma = 157
  Mul1 = 181
  Mul2 = 149
  Mix1 = 4
  Mix2 = 3
  Mix3 = 4
  Shift = 2
  RotOut = 1
  RotS = 6
  XorOf <- MCXor
  Salt = 99
  MaxDraws = 3
  q1 = q1
  q2 = q2
  k1 = k1
  k2 = k2
  Exchanges <- MCExchanges
  Compressors <- MCCompressors
  Incoming <- MCIncoming
  MaxParts = 2
  Locked = TRUE
  Nobody = Nobody
CHECK_DEADLOCK FALSE
INVARIANTS
  EnginesMayRelyOnIt
  CapsAreReal
  Unbiased
  OwnStreams
  BodyIsWhole
