SPECIFICATION Spec
CONSTANTS
  t1 = t1
  t2 = t2
  t3 = t3
  Tiles <- MCTiles
  Materials <- MCMaterials
  Meshes <- MCMeshes
  MaxGPUUploads = 2
  Errors <- MCErrors
  DistanceThresholds <- MCThresholds
  HysteresisPercent = 10
  Cameras <- MCCameras
  MayCutShort = FALSE
INVARIANTS
  CallbacksHaveTarget
  PendingIsQueued
  DrawnIsWhole
PROPERTIES
  SelectsWithinBand
  RestIsDrawn
