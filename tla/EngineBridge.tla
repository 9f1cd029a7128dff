---------------------------- MODULE EngineBridge ----------------------------
(***************************************************************************)
(* The integrations of examples/.  In Unity and Unreal a SpatialWorld      *)
(* draws into a ManagedMeshRenderer, and the component that ticks it       *)
(* mirrors in engine objects, cached by mesh and material id, what it      *)
(* draws.  The StandaloneViewer draws with Direct3D, without a component.  *)
(* The component, the plugin and the world share one thread.               *)
(***************************************************************************)
EXTENDS SpatialWorld

CONSTANTS
  MaterialIndex,   \* MaterialIndex[t][l][m]: materialIndex of a mesh, or -1
  EmptyMeshes,     \* the <<t, l, m>> without vertices
  MaxId            \* bound: no tick starts once this many ids were given out

ASSUME BridgeAssumption == MaxId \in Nat

VARIABLES
  engine,          \* who owns the world, "none" if nobody does
  rendered,        \* this tick has rendered (none is under way)
  nextId,          \* m_nextId; the viewer's next m_nextMeshId
  nextMaterialId,  \* the viewer's next m_nextMaterialId
  meshes,          \* m_meshes: the mesh of the dataset each id was made from
  materials,       \* m_materials, likewise
  handles,         \* the handles that the resources of each TileGPU own
  meshCache,       \* m_meshCache, or MeshComponentsByMeshId
  colorCache,      \* m_materialPropertyCache, or MaterialInstancesByMaterialId
  bound,           \* Unreal: the colour each mesh component was created with
  shown            \* the [mesh, color] in the picture

rendererVars == <<nextId, nextMaterialId, meshes, materials>>
componentVars == <<meshCache, colorCache, bound, shown>>
bridgeVars ==
  <<worldVars, engine, rendered, rendererVars, handles, componentVars>>

Empty == [x \in {} |-> 0]

BridgeInit ==
  /\ Init
  /\ engine = "none"
  /\ rendered = TRUE
  /\ nextId = 1 /\ nextMaterialId = 1
  /\ meshes = Empty /\ materials = Empty /\ handles = Empty
  /\ meshCache = Empty /\ colorCache = Empty /\ bound = Empty
  /\ shown = {}

\* A new renderer and world; the configuration leaves the LOD defaults alone.
NewWorld(e) ==
  /\ engine = "none"
  /\ engine' = e
  /\ resident' = {} /\ todo' = {} /\ phase' = "idle" /\ uploads' = 0
  /\ gpuTiles' = Empty /\ meshQueue' = <<>> /\ materialQueue' = <<>>
  /\ useError' = TRUE /\ currentLOD' = Empty
  /\ rendered' = TRUE
  /\ nextId' = 1 /\ nextMaterialId' = 1
  /\ meshes' = Empty /\ materials' = Empty /\ handles' = Empty
  /\ UNCHANGED componentVars

\* A new component loads its dataset once; if it can not, it stays without.
BeginPlay(e) == NewWorld(e) /\ loaded' \in BOOLEAN

\* The viewer's main() ends if it can not load the dataset.
Launch == NewWorld("Viewer") /\ loaded' = TRUE
-----------------------------------------------------------------------------
MeshIds(h) == UNION {ToSet(h.lodMeshes[l]) : l \in DOMAIN h.lodMeshes}
MaterialIds(h) == ToSet(h.materials)
Without(f, S) == Restrict(f, DOMAIN f \ S)
With(f, x, y) == [z \in DOMAIN f \cup {x} |-> IF z = x THEN y ELSE f[z]]

\* Mutant: the materials of a TileGPU are forgotten.
ReleaseMeshes(gone) ==
  /\ meshes' = Without(meshes, UNION {MeshIds(handles[t]) : t \in gone})
  /\ UNCHANGED materials
  /\ handles' = Without(handles, gone)

\* The resources of a TileGPU that is destroyed destroy what they own.
Release(gone) ==
  /\ meshes' = Without(meshes, UNION {MeshIds(handles[t]) : t \in gone})
  /\ materials' =
       Without(materials, UNION {MaterialIds(handles[t]) : t \in gone})
  /\ handles' = Without(handles, gone)

\* The component goes, with its caches and everything of its world.
Forget ==
  /\ engine' = "none"
  /\ Release(DOMAIN handles)
  /\ meshCache' = Empty /\ colorCache' = Empty /\ bound' = Empty
  /\ shown' = {}
  /\ UNCHANGED <<nextId, nextMaterialId>>

\* OnDestroy(), EndPlay(), or the viewer's window is closed:
\* SpatialWorld::shutdown(), then the world goes, with the uploads it had queued.
EndPlay ==
  /\ engine # "none"
  /\ rendered
  /\ IF loaded THEN Shutdown ELSE UNCHANGED worldVars
  /\ Forget
  /\ UNCHANGED rendered

\* Update(), TickComponent(): nothing happens until a dataset is loaded.
StartUpdate ==
  /\ engine # "none"
  /\ rendered
  /\ nextId + nextMaterialId - 1 <= MaxId
  /\ UpdateStreaming
  /\ rendered' = FALSE
  /\ UNCHANGED <<engine, rendererVars, handles, componentVars>>

Visit(t) ==
  /\ VisitResident(t)
  /\ handles' =
       [u \in DOMAIN gpuTiles' |->
          IF u \in DOMAIN handles THEN handles[u]
          ELSE [lodMeshes |-> [l \in Lods(u) |-> <<>>], materials |-> <<>>]]
  /\ UNCHANGED <<engine, rendered, rendererVars, componentVars>>

ReleaseTiles ==
  /\ ReleaseStale
  /\ Release(DOMAIN gpuTiles \ DOMAIN gpuTiles')
  /\ UNCHANGED <<engine, rendered, nextId, nextMaterialId, componentVars>>

\* Mutant: ids of destroyed resources are used again.
FreedId == Min((1 .. nextId) \ (DOMAIN meshes \cup DOMAIN materials))

FreshId == nextId

\* The viewer numbers meshes and materials apart.
FreshMaterialId == IF engine = "Viewer" THEN nextMaterialId ELSE FreshId

NextMesh ==
  LET u == Head(meshQueue) IN <<TileAt(u.address), u.lod, u.mesh>>

\* createMesh(), then the callback takes the MeshResource into its TileGPU.
CreateMesh ==
  /\ UploadMesh
  /\ engine = "Viewer" => NextMesh \notin EmptyMeshes
  /\ meshes' = With(meshes, FreshId, NextMesh)
  /\ handles' = [handles EXCEPT ![NextMesh[1]].lodMeshes[NextMesh[2]] =
                   Append(@, FreshId)]
  /\ nextId' = nextId + 1
  /\ UNCHANGED <<engine, rendered, nextMaterialId, materials, componentVars>>

\* Direct3D has no buffer of no bytes: createMesh() throws, out of update() and
\* into main(), where the world is unwound before the renderer.
FailToCreateMesh ==
  /\ engine = "Viewer"
  /\ phase = "upload"
  /\ uploads < MaxGPUUploads
  /\ meshQueue # <<>>
  /\ NextMesh \in EmptyMeshes
  /\ Drop
  /\ loaded' = FALSE
  /\ meshQueue' = <<>> /\ materialQueue' = <<>>
  /\ phase' = "idle" /\ uploads' = 0
  /\ rendered' = TRUE
  /\ Forget
  /\ UNCHANGED <<todo, lodVars>>

CreateMaterial ==
  /\ UploadMaterial
  /\ LET u == Head(materialQueue)
         t == TileAt(u.address)
     IN /\ materials' = With(materials, FreshMaterialId, <<t, u.material>>)
        /\ handles' = [handles EXCEPT ![t].materials = Append(@, FreshMaterialId)]
  /\ IF engine = "Viewer"
       THEN nextMaterialId' = nextMaterialId + 1 /\ UNCHANGED nextId
       ELSE nextId' = nextId + 1 /\ UNCHANGED nextMaterialId
  /\ UNCHANGED <<engine, rendered, meshes, componentVars>>

FinishUpdate ==
  /\ EndUpdate
  /\ UNCHANGED <<engine, rendered, rendererVars, handles, componentVars>>
-----------------------------------------------------------------------------
\* The draw commands of a frame.  A mesh whose materialIndex is none of the
\* tile's materials is drawn with material 0.
MaterialOf(t, index) ==
  IF index \in 0 .. Len(handles[t].materials) - 1
    THEN handles[t].materials[index + 1] ELSE 0

CommandsOf(t, l) ==
  {[mesh |-> handles[t].lodMeshes[l][m],
    material |-> MaterialOf(t, MaterialIndex[t][l][m])] :
     m \in DOMAIN handles[t].lodMeshes[l] \cap (1 .. Meshes[t][l])}

DrawCommands(lods) ==
  UNION {CommandsOf(t, Min({lods[t] + 1, Len(Meshes[t])})) :
           t \in Drawn \cap resident}

\* Both components ask the renderer once per id.  An empty mesh is not built.
Buildable(c) ==
  \/ c.mesh \in DOMAIN meshCache
  \/ c.mesh \in DOMAIN meshes /\ meshes[c.mesh] \notin EmptyMeshes

Built(commands) == {c \in commands : Buildable(c)}
New(commands) == {c \in Built(commands) : c.mesh \notin DOMAIN meshCache}

CacheMeshes(commands) ==
  meshCache' = [id \in DOMAIN meshCache \cup {c.mesh : c \in New(commands)} |->
                  IF id \in DOMAIN meshCache THEN meshCache[id] ELSE meshes[id]]

Color(id) ==
  IF id \in DOMAIN colorCache THEN colorCache[id]
  ELSE IF id \in DOMAIN materials THEN materials[id] ELSE "white"

CacheColors(commands) ==
  colorCache' =
    [id \in DOMAIN colorCache \cup {c.material : c \in commands} |-> Color(id)]

\* GetOrBuildMesh(), GetOrBuildMaterialProperties(): drawn for this frame only.
UnityDraw(commands) ==
  /\ engine = "Unity"
  /\ CacheMeshes(commands)
  /\ CacheColors(Built(commands))
  /\ shown' = {[mesh |-> meshCache'[c.mesh], color |-> colorCache'[c.material]] :
                 c \in Built(commands)}
  /\ UNCHANGED bound

\* GetOrCreateMeshComponent(), GetOrCreateMaterialInstance(), for a component
\* with a TileMaterial: a component gets its material when it is created.  The
\* components of all other meshes are hidden.
UnrealDraw(commands) ==
  /\ engine = "Unreal"
  /\ CacheMeshes(commands)
  /\ CacheColors(New(commands))
  /\ bound' = [id \in DOMAIN bound \cup {c.mesh : c \in New(commands)} |->
       IF id \in DOMAIN bound THEN bound[id]
       ELSE colorCache'[(CHOOSE c \in commands : c.mesh = id).material]]
  /\ shown' = {[mesh |-> meshCache'[c.mesh], color |-> bound'[c.mesh]] :
                 c \in Built(commands)}

\* D3D11Renderer::drawMesh(): no caches.  What is not there is not drawn, or
\* drawn white.
ViewerDraw(commands) ==
  /\ engine = "Viewer"
  /\ shown' =
       {[mesh |-> meshes[c.mesh],
         color |-> IF c.material \in DOMAIN materials
                     THEN materials[c.material] ELSE "white"] :
          c \in {d \in commands : d.mesh \in DOMAIN meshes}}
  /\ UNCHANGED <<meshCache, colorCache, bound>>

\* SpatialUnity_Render() and DrawResidentTiles(), Unreal's, or the viewer's frame.
RenderFrame(camera) ==
  /\ ~rendered
  /\ Render(camera)
  /\ LET commands == DrawCommands(currentLOD') IN
       UnityDraw(commands) \/ UnrealDraw(commands) \/ ViewerDraw(commands)
  /\ rendered' = TRUE
  /\ UNCHANGED <<engine, rendererVars, handles>>

BridgeNext ==
  \/ \E e \in {"Unity", "Unreal"} : BeginPlay(e)
  \/ Launch \/ EndPlay \/ StartUpdate \/ ReleaseTiles
  \/ CreateMesh \/ FailToCreateMesh \/ CreateMaterial \/ FinishUpdate
  \/ \E t \in Tiles : Visit(t)
  \/ \E camera \in Cameras : RenderFrame(camera)

BridgeSpec == BridgeInit /\ [][BridgeNext]_bridgeVars
-----------------------------------------------------------------------------
BridgeTypeOK ==
  /\ engine \in {"none", "Unity", "Unreal", "Viewer"}
  /\ rendered \in BOOLEAN
  /\ nextId \in Nat \ {0} /\ nextMaterialId \in Nat \ {0}
  /\ nextId + nextMaterialId <= MaxId + MaxGPUUploads + 1
  /\ DOMAIN handles = DOMAIN gpuTiles
  /\ DOMAIN meshes \subseteq 1 .. nextId - 1
  /\ DOMAIN materials \subseteq
       1 .. (IF engine = "Viewer" THEN nextMaterialId ELSE nextId) - 1
  /\ DOMAIN bound \subseteq DOMAIN meshCache

(***************************************************************************)
(* GPUResource.h: "calls Destroy on the owning IRenderer when the wrapper  *)
(* is destroyed".  The renderer holds exactly what some TileGPU owns,      *)
(* whatever was evicted, revived or shut down while it was queued.         *)
(***************************************************************************)
NothingLeaks ==
  /\ DOMAIN meshes = UNION {MeshIds(handles[t]) : t \in DOMAIN handles}
  /\ DOMAIN materials = UNION {MaterialIds(handles[t]) : t \in DOMAIN handles}

(***************************************************************************)
(* The caches of the components are never cleared, and an Unreal component *)
(* keeps the material it was created with.  All the same, every frame, the *)
(* viewer's included, shows the meshes of the LODs selected, each in its   *)
(* own colour, and nothing else: ids are not reused, and a tile is drawn   *)
(* when complete.                                                          *)
(***************************************************************************)
ColorOf(t, index) ==
  IF index \in 0 .. Materials[t] - 1 THEN <<t, index + 1>> ELSE "white"

PictureOf(t, l) ==
  {[mesh |-> <<t, l, m>>, color |-> ColorOf(t, MaterialIndex[t][l][m])] :
     m \in {n \in 1 .. Meshes[t][l] : <<t, l, n>> \notin EmptyMeshes}}

PictureIsRight ==
  [][\A camera \in Cameras : RenderFrame(camera) =>
       shown' = UNION {PictureOf(t, currentLOD'[t] + 1) : t \in Drawn}]_bridgeVars

(***************************************************************************)
(* Unreal's SpatialWorldComponent.cpp, line 213: "a tile that leaves       *)
(* residency and later returns reuses the same UProceduralMeshComponent".  *)
(* If so, no mesh of the dataset has two components.                       *)
(***************************************************************************)
ComponentsAreReused ==
  engine = "Unreal" =>
    \A i, j \in DOMAIN meshCache : meshCache[i] = meshCache[j] => i = j
=============================================================================
