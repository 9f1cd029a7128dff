SPECIFICATION FrameSpec
CONSTANTS
  r1 = r1
  r2 = r2
  near = near
  far = far
  Hosts = {"Viewer", "Unity", "Unreal", "Custom"}
  Tiles <- MCTiles
  IndexBox <- MCIndexBox
  TileBox <- MCTileBox
  Cameras <- MCCameras
  Radius = 2
  Renderers = {r1, r2}
  Directions <- MCDirections
  Transforms <- MCTransforms
  Keys = {"F1", "Escape"}
  Sizes <- MCSizes
INVARIANTS
  CursorComesBack
  SceneStandsRight
PROPERTIES
  OverlayIsCurrent
  ProfileIsOfFrame
  PictureFitsWindow
  TogglesOncePerPress
CHECK_DEADLOCK FALSE
