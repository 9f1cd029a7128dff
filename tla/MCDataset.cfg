SPECIFICATION DatasetSpec
CONSTANTS
  MaxItemsPerNode = 2
  MaxDepth = 2
  Version = 1
  MaxArrayCount = 4
  Datasets <- MCDatasets
  ManifestVersion = 1
  UInt32 = 16
  Queries <- MCQueries
INVARIANTS
  LoadedWasSaved
  TilesMatchIndex
  TilesAreDrawable
  CrashCostsOneTile
  QueriesFind
CHECK_DEADLOCK FALSE
