SPECIFICATION MCSpec
CONSTANTS
  Width = 4
  Height = 3
  Nest <- WideNest
  Walls <- WideWalls
  Piles <- WidePiles
  AntCount = 2
  Ticks = 4
  RandomNum = 1
  RandomDen = 2
  EvapNum = 3
  EvapDen = 4
  DiffNum = 1
  DiffDen = 2
  MaxLevel = 40
  DepositFood = 24
  DepositHome = 16
  RawRange = 24
  WordRange = 1024
  Every = 0
  Streams <- MCStreams
  MCDirs = {0, 5}
  MCDraws <- LeftDraws
  HalfLife = 1
  WordWidth = 5
  Radius = 2
INVARIANTS
  StepsCoverTheWay
  MarksFadeWithDistance
  SmellsNearestLivePile
PROPERTIES
  TripStartsWithFullMark
  SmellLeadsTheSearcher
