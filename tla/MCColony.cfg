SPECIFICATION Spec
CONSTANTS
  Width = 3
  Height = 2
  Nest <- SmallNest
  Walls <- PocketWalls
  Piles <- PocketPiles
  AntCount = 2
  Ticks = 3
  RandomNum = 1
  RandomDen = 2
  EvapNum = 3
  EvapDen = 4
  DiffNum = 1
  DiffDen = 2
  MaxLevel = 40
  DepositFood = 24
  DepositHome = 16
  RawRange = 24
  WordRange = 1024
  Every = 2
  Streams <- MCStreams
  MCDirs = {0, 2, 3}
  MCDraws <- TurnDraws
INVARIANTS
  TypeOK
  FoodBalance
  FoodLeftIsWhatLies
  NoneIdlesOnFood
  FramesInOrder
PROPERTIES
  BlockedAntTurnsRound
  DecayStartsFromCleanBuffers
  ImplementsHarvest
  WedgedOnlyBetweenWalls
