SPECIFICATION BridgeSpec
CONSTANTS
  t1 = t1
  t2 = t2
  t3 = t3
  Tiles <- MCTiles
  Materials <- MCMaterials
  Meshes <- MCMeshes
  MaxGPUUploads = 2
  Errors <- MCErrors
  DistanceThresholds <- MCNoThresholds
  HysteresisPercent = 10
  Cameras <- MCCameras
  MayCutShort = TRUE
  MaterialIndex <- MCMaterialIndex
  EmptyMeshes <- MCEmptyMeshes
  MaxId = 9
INVARIANTS
  NothingLeaks
PROPERTIES
  PictureIsRight
