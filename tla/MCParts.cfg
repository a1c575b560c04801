SPECIFICATION MCSpec
CONSTANTS
  LibMaxM = 48
  Settings <- MCSettings
  Tokens = {1, 2, 5, 16, 17, 48, 49, 64, 65}
  Shapes <- MCShapes
  Heads <- MCHeads
  ChunkTiles = 2
  DequantChunk = 24
  Fp8Rows = 128
  Tails <- MCTails
  Modes <- MCModes
  MaxRows = 2
  MaxLanes = 2
  Inputs <- MCInputs
  Contents <- MCContents
  MaxBlock = 4
  BlockSizes = {1, 2, 4, 8, 16}
  Silu <- MCSilu
  ScaleFloor = 3
  E = 3
  FileOrder <- MCFileOrder
  Routings <- MCRoutings
  Budgets = {2, 4, 5, 7}
  MaxInsertsEnv = 2
  Thresh = 2
  Widths = {1, 2, 5}
  Graphs = {g1, g2}
  Addresses = {a1, a2}
  NoTensor = NoTensor
  MaxBuilt = 4
  MaxMoves = 1
  RING = 2
  NLayers = 2
  Flushers = {"dumper"}
  MaxSteps = 5
  MaxDumps = 2
  NSteps = 5
  MinRun = 2
  Labels = 1
  NExperts = 4
  NLAYER = 2
  Depth = 2
  T = 4
  Captures <- MCCaptures
  Ranked <- MCRanked
  SlotsOf <- MCSlotsOf
  BUDGETS = {1, 2, 4}
INVARIANTS
  NothingThrows
  LogitsAreOfTheirRows
  FusedIsStock
  WarmStart
  StudiesSizeTheServer
  PoolStaysPrivate
  BakedStayLive
  QuantIsOfX
  NothingHalfWritten
  StepsIncrease
  FlushTakesAll
  SnapshotOnDisk
  GenerationsAreMaximal
  ScoresAreFair
CHECK_DEADLOCK FALSE
