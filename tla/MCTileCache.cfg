SPECIFICATION Spec
CONSTANTS
  Tiles = {t1, t2, t3}
  Sizes = {1, 2}
  Priorities = {0, 1}
  RecencyWeight = 1
  CpuBudget = 4
  GpuBudget = 3
  MaxResident = 2
  MaxTick = 2
INVARIANTS
  UsedIsSum
PROPERTIES
  KeepsContract
  WorseGoesFirst
  EvictionEnds
