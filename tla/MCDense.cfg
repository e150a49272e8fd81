SPECIFICATION MCSpec
CONSTANTS
  Width = 2
  Height = 3
  Nest <- SmallNest
  Walls <- SmallWalls
  Piles <- SmallPiles
  AntCount = 3
  Ticks = 3
  RandomNum = 1
  RandomDen = 2
  EvapNum = 3
  EvapDen = 4
  DiffNum = 1
  DiffDen = 2
  MaxLevel = 40
  DepositFood = 24
  DepositHome = 16
  RawRange = 24
  WordRange = 1024
  Every = 1
  Streams <- MCStreams
  Procs = {0, 2, 4}
INVARIANTS
  FlatTypeOK
  TypeOK
  NoDataRace
PROPERTIES
  ImplementsNaive
  NoWorkerLeft
