SPECIFICATION FairSpec
CONSTANTS
  t1 = t1
  t2 = t2
  w1 = w1
  w2 = w2
  Tiles <- TwoTiles
  Workers <- TwoWorkers
  Priorities = {1}
  NoRequest = NoRequest
  MaxHeap = 3
  Outcomes <- MCOutcomes
  CpuBudget = 2
  GpuBudget = 1
  MaxResident = 1
  TileBytes <- MCTileBytes
  MaxNewRequests = 1
INVARIANTS
  TypeOK
  NoTileIsStuck
  TransitionsAreLegal
  CacheHoldsResidents
  LoadingIsInHand
PROPERTIES
  KeepsLifecycle
  SettlesAtRest
