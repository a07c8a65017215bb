CONSTANTS
  NeighbourSlots = 2
  PathSlots = 1
  DedupSlots = 2
  Free = Free
  Mobile = {"b", "mcu"}
  McuOnly = {"mcu"}
  DedupTtl = 1
  HalfLife = 1
  HardTimeout = 1
  PathHalfLife = 1
  Full = 20
  InitConf = 10
  Floor = 2
  FloodK = 15
  Nodes = {"a", "b", "c"}
  Strangers = {"mcu"}
  Links <- MCLinks
  Compressed <- MCCompressed
  Relays = {"a", "b"}
  Sizes = {"small", "large"}
  FitsOf <- MCFits
  DefaultTtl = 3
  StackLimit = 8
  Congested = {"b"}
  Requests <- MCRequests
  MaxTime = 2
  MaxWorld = 3
SPECIFICATION Spec
INVARIANTS
  TypeOK
  DedupIsWindow
  SprayIsBounded
  RepliesComeHome
