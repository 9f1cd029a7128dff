SPECIFICATION PoolSpec
CONSTANTS
  t1 = t1
  t2 = t2
  Tiles <- MCTiles
  Workers = {w1, w2}
  Priorities = {1, 2}
  NoRequest = NoRequest
  MaxHeap = 3
  Outcomes <- MCOutcomes
INVARIANTS
  WakeupsCoverHeap
  PendingInHeap
PROPERTIES
  InFlightTellsLoads
  PopsBestFirst
  ShutdownJoins
  QueueDrains
