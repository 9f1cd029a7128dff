----------------------------- MODULE FrameLoop ------------------------------
(***************************************************************************)
(* A frame, as each host runs it: the main loop of the StandaloneViewer,   *)
(* Update() in Unity, TickComponent() in Unreal, or an engine of one's own *)
(* that calls SpatialWorld as docs/sdk_api.md has it.  Of streaming there  *)
(* is only what stateOf() says after an update(), and of what is drawn the *)
(* debug overlay (SpatialWorld and EngineBridge have the tiles).  All of   *)
(* it is one thread's.                                                     *)
(***************************************************************************)
EXTENDS CityGeometry, DebugRenderer, Profiler, Win32Window

CONSTANTS
  Hosts,       \* a subset of AllHosts
  Tiles,
  IndexBox,    \* the box of each tile in the TileIndex, as high as a tile is wide
  TileBox,     \* its own box, in the tile's file
  Cameras,     \* where the user moves the camera, in the SDK's space
  Radius,      \* streamingRadius, in metres
  Renderers,   \* the renderers that an engine of one's own has, one after another
  Directions,  \* where the user may look, in the engine's space
  Transforms   \* of a draw command; SpatialWorld's is always Identity

AllHosts == {"Viewer", "Unity", "Unreal", "Custom"}

ASSUME HostsAssumption == Hosts \subseteq AllHosts

Boxes == [min : Points, max : Points]

\* Coordinates are whole numbers, and the matrices have four rows and columns.
ASSUME ScenesAssumption ==
  /\ Cameras \subseteq Points
  /\ Radius \in Nat
  /\ IndexBox \in [Tiles -> Boxes] /\ TileBox \in [Tiles -> Boxes]
  /\ Directions \in [Hosts -> SUBSET Points]
  /\ Transforms \subseteq [Rows -> [Rows -> Int]]

VARIABLES
  host,        \* whose frames these are
  phase,       \* what comes next: "messages", "update", "render", or "end"
  loaded,      \* isLoaded()
  updated,     \* history: a dataset was loaded at the last update()
  states,      \* stateOf() of each tile
  visualize,   \* m_config.debugVisualizationEnabled
  enable,      \* the component's enableDebugVisualization
  renderer,    \* the renderer in use
  target,      \* m_debugRendererTarget, and where m_debugRenderer draws; or "none"
  lines,       \* what each renderer has been given to draw since its beginFrame()
  view,        \* the camera's position, in the engine's space
  shown,       \* the overlay on the screen, in the engine's space
  backBuffer   \* D3D11Renderer's <<m_width, m_height>>

worldVars == <<loaded, states, visualize, target>>
frameVars == <<host, phase, updated, enable, renderer, lines, view, shown, backBuffer,
               worldVars, profilerVars, windowVars, desktopVars>>

\* What stateOf() can say once update() has returned.
ObservedStates == {"Unloaded", "Requested", "Loading", "Resident"}

Component == host \in {"Unity", "Unreal"}

FrameInit ==
  /\ host \in Hosts
  /\ phase = IF host = "Viewer" THEN "messages" ELSE "update"
  /\ loaded \in IF host = "Viewer" THEN {TRUE} ELSE BOOLEAN
  /\ updated = FALSE
  /\ states = [t \in Tiles |-> "Unloaded"]
  /\ enable = TRUE
  /\ visualize = TRUE
  /\ renderer \in Renderers
  /\ target = "none"
  /\ lines = [r \in Renderers |-> {}]
  /\ view \in {EnginePosition(host, c) : c \in Cameras}
  /\ shown = {}
  /\ WindowInit
  /\ backBuffer \in IF host = "Viewer" THEN {s \in Sizes : HasArea(s)} ELSE {size}
  /\ ProfilerInit
-----------------------------------------------------------------------------
\* What the renderer is given: ToNativeCamera(), toCameraParams().
CameraPosition == SpatialCamera(host, view)

Square(x) == x * x

\* AABB::distanceSquaredToPoint()
DistanceSquared(box, p) ==
  LET Beyond(i) == IF p[i] < box.min[i] THEN box.min[i] - p[i]
                   ELSE IF p[i] > box.max[i] THEN p[i] - box.max[i] ELSE 0
  IN Square(Beyond(1)) + Square(Beyond(2)) + Square(Beyond(3))

QueryRadius(p, radius) == {t \in Tiles : DistanceSquared(IndexBox[t], p) <= Square(radius)}

BoundsOf(t) == IF states[t] = "Resident" THEN TileBox[t] ELSE IndexBox[t]

\* SpatialWorld::update()
UpdateWorld ==
  /\ IF loaded
       THEN /\ states' \in [Tiles -> ObservedStates]
            /\ current' = BeginFrame({"StreamingUpdate", "GPUUpload"})
       ELSE /\ UNCHANGED states
            /\ current' = BeginFrame({})
  /\ updated' = loaded
  /\ UNCHANGED <<lastFrame, loaded, target>>

\* Mutant: the renderer's lists are not cleared.
KeepLines == lines

\* ManagedMeshRenderer::beginFrame() of the renderer in use; D3D11Renderer draws
\* at once, and clear() has wiped the picture.
ClearedLines == [lines EXCEPT ![renderer] = {}]

Overlay ==
  UNION {DrawTileBounds(BoundsOf(t), states[t]) :
           t \in QueryRadius(CameraPosition, SpatialRadius(host, EngineRadius(host, Radius)))}

\* beginFrame() of the renderer, then SpatialWorld::render() with its early
\* returns: without a dataset, and without visualization.
RenderWorld ==
  /\ IF loaded /\ visualize
       THEN /\ target' = renderer
            /\ lines' = [ClearedLines EXCEPT ![target'] = @ \cup Overlay]
       ELSE /\ lines' = ClearedLines
            /\ UNCHANGED target
  /\ EndFrame(IF ~loaded THEN {}
              ELSE IF visualize THEN {"LODSelection", "DebugDraw"}
              ELSE {"LODSelection"})
  /\ UNCHANGED <<loaded, states, visualize>>
-----------------------------------------------------------------------------
EngineLine(l) ==
  [ends |-> {EnginePosition(host, l.from), EnginePosition(host, l.to)}, color |-> l.color]

Show(drawn) == shown' = {EngineLine(l) : l \in drawn}

NoWindow == UNCHANGED <<windowVars, desktopVars, backBuffer>>

\* The viewer's processMessages() goes on until there are no more.
ViewerMessage ==
  /\ host = "Viewer"
  /\ phase = "messages"
  /\ HandleMessage
  /\ UNCHANGED <<host, phase, updated, enable, renderer, lines, view, shown, backBuffer,
                 worldVars, profilerVars>>

Quits == shouldClose \/ "Escape" \in keysDown

ViewerQuits ==
  /\ host = "Viewer"
  /\ phase = "messages"
  /\ Quits
  /\ phase' = "end"
  /\ UNCHANGED <<host, updated, enable, renderer, lines, view, shown, backBuffer,
                 worldVars, profilerVars, windowVars, desktopVars>>

\* Mutant: a change of one of width and height is no change.
ResizedIfBothChange(s) ==
  IF ~HasArea(s) \/ \E i \in 1 .. 2 : s[i] = backBuffer[i] THEN backBuffer ELSE s

\* D3D11Renderer::resize()
ResizedTo(s) == IF ~HasArea(s) \/ s = backBuffer THEN backBuffer ELSE s

\* The rest of a turn of the loop up to world.render(); clear() wipes the picture.
ViewerUpdates ==
  /\ host = "Viewer"
  /\ phase = "messages"
  /\ ~Quits
  /\ visualize' = IF "F1" \in keysPressed THEN ~visualize ELSE visualize
  /\ view' \in Cameras
  /\ resized' = FALSE
  /\ backBuffer' = IF resized THEN ResizedTo(size) ELSE backBuffer
  /\ UpdateWorld
  /\ lines' = ClearedLines
  /\ shown' = {}
  /\ phase' = "render"
  /\ UNCHANGED <<host, enable, renderer, size, inputVars, shouldClose, desktopVars>>

\* Direct3D does not give the buffers: main() catches what resize() throws.
ViewerFailsToResize ==
  /\ host = "Viewer"
  /\ phase = "messages"
  /\ ~Quits
  /\ resized
  /\ ResizedTo(size) # backBuffer
  /\ phase' = "end"
  /\ UNCHANGED <<host, updated, enable, renderer, lines, view, shown, backBuffer,
                 worldVars, profilerVars, windowVars, desktopVars>>

\* The rest of the turn, and the start of the next pump, unless --run-seconds are up.
ViewerRenders ==
  /\ host = "Viewer"
  /\ phase = "render"
  /\ RenderWorld
  /\ Show(lines'[renderer])
  /\ \/ phase' = "messages" /\ StartPump
     \/ phase' = "end" /\ UNCHANGED <<keysPressed, wentDown>>
  /\ UNCHANGED <<host, updated, enable, renderer, view, backBuffer, size, resized,
                 keysDown, captured, shouldClose, focused, held, button, hides>>
-----------------------------------------------------------------------------
\* In the inspector, or by a script.
SetEnable ==
  /\ Component
  /\ phase = "update"
  /\ enable' = ~enable
  /\ UNCHANGED <<host, phase, updated, renderer, lines, view, shown, worldVars,
                 profilerVars>>
  /\ NoWindow

\* Update(), TickComponent(), with a camera.
ComponentUpdates ==
  /\ Component
  /\ phase = "update"
  /\ loaded
  /\ view' \in {EnginePosition(host, c) : c \in Cameras}
  /\ visualize' = enable
  /\ UpdateWorld
  /\ phase' = "render"
  /\ UNCHANGED <<host, enable, renderer, lines, shown>>
  /\ NoWindow

\* PullDebugLines() and OnRenderObject(), or DrawDebugLines().
ComponentRenders ==
  /\ Component
  /\ phase = "render"
  /\ RenderWorld
  /\ Show(IF enable THEN lines'[renderer] ELSE {})
  /\ phase' = "update"
  /\ UNCHANGED <<host, updated, enable, renderer, view>>
  /\ NoWindow

\* Without one.  Unity's component draws again what it pulled last; Unreal's lines
\* last for one frame.
TickWithoutCamera ==
  /\ Component
  /\ phase = "update"
  /\ loaded
  /\ shown' = IF host = "Unity" THEN shown ELSE {}
  /\ UNCHANGED <<host, phase, updated, enable, renderer, lines, view, worldVars,
                 profilerVars>>
  /\ NoWindow
-----------------------------------------------------------------------------
\* loadDataset() of a dataset that can be loaded, for a renderer that may be another
\* than before, and then is a new one.
CustomLoads ==
  /\ host = "Custom"
  /\ loaded' = TRUE
  /\ states' = [t \in Tiles |-> "Unloaded"]
  /\ target' = "none"
  /\ visualize' \in BOOLEAN
  /\ renderer' \in Renderers
  /\ lines' = [r \in Renderers |-> IF r = renderer' /\ r = renderer THEN lines[r] ELSE {}]
  /\ shown' = {EngineLine(l) : l \in lines'[renderer']}
  /\ UNCHANGED <<host, phase, updated, enable, view, profilerVars>>
  /\ NoWindow

\* shutdown()
CustomShutsDown ==
  /\ host = "Custom"
  /\ loaded' = FALSE
  /\ states' = [t \in Tiles |-> "Unloaded"]
  /\ target' = "none"
  /\ UNCHANGED <<host, phase, updated, visualize, enable, renderer, lines, view, shown,
                 profilerVars>>
  /\ NoWindow

\* setDebugVisualizationEnabled()
CustomToggles ==
  /\ host = "Custom"
  /\ visualize' = ~visualize
  /\ UNCHANGED <<host, phase, updated, enable, renderer, lines, view, shown, loaded,
                 states, target, profilerVars>>
  /\ NoWindow

CustomUpdates ==
  /\ host = "Custom"
  /\ view' \in Cameras
  /\ UpdateWorld
  /\ phase' = "render"
  /\ UNCHANGED <<host, visualize, enable, renderer, lines, shown>>
  /\ NoWindow

\* Not always after an update().  Bound: twice at most.
CustomRenders ==
  /\ host = "Custom"
  /\ phase = "render" \/ current["LODSelection"] < 2
  /\ RenderWorld
  /\ Show(lines'[renderer])
  /\ phase' = "update"
  /\ UNCHANGED <<host, updated, enable, renderer, view>>
  /\ NoWindow

RenderFrame == ViewerRenders \/ ComponentRenders \/ CustomRenders

FrameNext ==
  \/ ViewerMessage \/ ViewerQuits \/ ViewerUpdates \/ ViewerFailsToResize
  \/ SetEnable \/ ComponentUpdates \/ TickWithoutCamera
  \/ CustomLoads \/ CustomShutsDown \/ CustomToggles \/ CustomUpdates
  \/ RenderFrame

FrameSpec == FrameInit /\ [][FrameNext]_frameVars
-----------------------------------------------------------------------------
(***************************************************************************)
(* docs/rendering.md, "Debug rendering": whenever a frame is rendered, the *)
(* overlay on the screen is, in the engine's space, every edge of the box  *)
(* of every tile within reach of where the user put the camera, in the     *)
(* colour of its state now, or nothing if visualization is off: nothing of *)
(* an earlier frame, another renderer or another dataset.                  *)
(***************************************************************************)
Legend ==
  [s \in ObservedStates |->
     IF s = "Resident" THEN "green" ELSE IF s = "Loading" THEN "yellow"
     ELSE IF s = "Requested" THEN "red" ELSE "gray"]

\* An edge runs along one axis, and on one of the two sides of the box on each other.
EdgesOf(box) ==
  LET Corner(side) == [i \in Axes |-> box[side[i]][i]] IN
    {{Corner([side EXCEPT ![i] = "min"]), Corner([side EXCEPT ![i] = "max"])} :
       side \in [Axes -> {"min", "max"}], i \in Axes}

CameraSet == CHOOSE c \in Cameras : EnginePosition(host, c) = view

WithinReach == {t \in Tiles : DistanceSquared(IndexBox[t], CameraSet) <= Square(Radius)}

ExpectedOverlay ==
  IF loaded /\ visualize
    THEN UNION {{[ends |-> {EnginePosition(host, p) : p \in e},
                  color |-> Legend[states[t]]] :
                   e \in EdgesOf(IF states[t] = "Resident" THEN TileBox[t] ELSE IndexBox[t])} :
                  t \in WithinReach}
    ELSE {}

OverlayIsCurrent == [][RenderFrame => shown' = ExpectedOverlay]_frameVars

(***************************************************************************)
(* docs/profiling.md: "totalMs and every section always reflect a          *)
(* complete, consistent frame".  When render() ends the frame that an      *)
(* update() began, by any of its exits, the profile has of each section    *)
(* what these two did, once, and nothing of the frames before.             *)
(***************************************************************************)
ProfileIsOfFrame ==
  [][phase = "render" /\ RenderFrame =>
       \A s \in Sections :
         lastFrame'[s] = IF \/ s \in {"StreamingUpdate", "GPUUpload"} /\ updated
                            \/ s = "LODSelection" /\ loaded
                            \/ s = "DebugDraw" /\ loaded /\ visualize
                         THEN 1 ELSE 0]_frameVars

(***************************************************************************)
(* main.cpp lines 313 to 323: a frame of a window in which there is        *)
(* anything to see is drawn into buffers of the window's size, for which   *)
(* its projection is made, whatever sizes the window has had.              *)
(***************************************************************************)
PictureFitsWindow ==
  [][ViewerRenders /\ HasArea(size) => backBuffer = size]_frameVars

(***************************************************************************)
(* Win32Window.h, line 46: "True only on the frame the key transitioned    *)
(* from up to down".  However long F1 is held, whichever window gets the   *)
(* focus meanwhile, the overlay is switched in exactly the frames in whose *)
(* messages the key went down.                                             *)
(***************************************************************************)
TogglesOncePerPress ==
  [][ViewerUpdates => (visualize' # visualize <=> "F1" \in wentDown)]_frameVars

(***************************************************************************)
(* unity_integration.md and unreal_integration.md: an engine sees the      *)
(* scene as it is.  From the camera that the SDK is given, everything is   *)
(* as far as from the engine's own, as high, and on the same hand, though  *)
(* the engines' spaces are left-handed; a transform does to a point what   *)
(* it does in the SDK; and a triangle faces the way it does there.         *)
(***************************************************************************)
LeftHanded(engine) == engine \in {"Unity", "Unreal"}
UpAxis(engine) == IF engine = "Unreal" THEN 3 ELSE 2
Up(engine) == [i \in Axes |-> IF i = UpAxis(engine) THEN 1 ELSE 0]

\* What is to the right of one who looks forward, by the hand of the space.
Rightwards(engine, forward) ==
  IF LeftHanded(engine) THEN Cross(Up(engine), forward) ELSE Cross(forward, Up(engine))

\* What a mesh is in the engine, whose vertices and indices have been converted.
EngineMesh(engine, mesh) ==
  [vertices |-> [i \in DOMAIN mesh.vertices |->
      Vertex(EngineVertex(engine, Identity, mesh.vertices[i].position),
             EngineNormal(engine, mesh.vertices[i].normal))],
   indices |-> EngineIndices(engine, mesh.indices)]

SeenAlike(engine, eye, forward, p) ==
  LET k == EngineRadius(engine, 1)
      there == Minus(EngineVertex(engine, Identity, p), eye)
      here == Minus(p, SpatialCamera(engine, eye))
      ahead == EngineNormal(engine, forward)
  IN /\ Dot(there, there) = k * k * Dot(here, here)
     /\ Dot(there, Up(engine)) = k * Dot(here, Up("Custom"))
     /\ Dot(there, Rightwards(engine, forward)) = k * Dot(here, Rightwards("Custom", ahead))

GeneratedMesh(t, n) == GeneratedMeshes(TileBox[t])[n]

StandsRight ==
  [engine \in Hosts |-> [c \in Cameras |->
     \A t \in Tiles, n \in 1 .. 2 :
       LET mesh == GeneratedMeshes(TileBox[t])[n]
           there == EngineMesh(engine, mesh)
       IN /\ \A v \in DOMAIN mesh.vertices :
               LET p == mesh.vertices[v].position IN
                 /\ \A f \in Directions[engine] :
                      SeenAlike(engine, EnginePosition(engine, c), f, p)
                 /\ \A m \in Transforms :
                      EngineVertex(engine, m, p) = EnginePosition(engine, TransformPoint(m, p))
          /\ \A k \in Triangles(mesh) : Facing(there, k) > 0 <=> Facing(mesh, k) > 0]]

SceneStandsRight == StandsRight[host][CameraSet]

(***************************************************************************)
(* UnrealCoordinateConversion.h, line 24: "the SDK's procedurally          *)
(* generated geometry is CCW-front-facing".  A resident tile is drawn as   *)
(* it was generated.                                                       *)
(***************************************************************************)
FacesFront ==
  [t \in Tiles |->
     \A n \in 1 .. 2 : LET mesh == GeneratedMeshes(TileBox[t])[n] IN
       \A k \in Triangles(mesh) : Facing(mesh, k) > 0]

GeneratedFacesFront == \A t \in Tiles : states[t] = "Resident" => FacesFront[t]
=============================================================================
