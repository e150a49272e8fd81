SPECIFICATION Spec
CONSTANTS
  Width = 3
  Height = 2
  Nest <- SmallNest
  Walls <- NoWalls
  Piles <- NestPiles
  AntCount = 1
  Ticks = 3
  RandomNum = 1
  RandomDen = 2
  EvapNum = 3
  EvapDen = 4
  DiffNum = 1
  DiffDen = 2
  MaxLevel = 40
  DepositFood = 24
  DepositHome = 16
  RawRange = 24
  WordRange = 1024
  Every = 0
  Streams <- MCStreams
  MCDirs = {1, 3, 5}
  MCDraws <- NoDraws
PROPERTY
  BlockedAntTurnsRound
