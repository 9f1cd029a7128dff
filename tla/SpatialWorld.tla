---------------------------- MODULE SpatialWorld ----------------------------
(***************************************************************************)
(* sdk/src/SpatialWorld.cpp with the GPUUploadQueue it owns: which GPU     *)
(* data exists for which tile, and which queued upload refers to it.       *)
(*                                                                         *)
(* The streaming subsystem is seen as SpatialWorld sees it, through the    *)
(* set of tiles that are Resident after each StreamingManager::update()    *)
(* (their data is there: CacheHoldsResidents of StreamingManager).         *)
(* Everything here runs on the thread that owns the render context.        *)
(***************************************************************************)
EXTENDS LODManager, FiniteSets, Functions, SequencesExt

CONSTANTS
  Materials,       \* Materials[t]: how many materials tile t has
  Meshes,          \* Meshes[t][l]: how many meshes its LOD l has
  MaxGPUUploads,   \* maxGPUUploadsPerUpdate
  MayCutShort      \* whether the application may shut down or switch datasets
                   \* while uploads are queued

ASSUME WorldAssumption ==
  /\ Materials \in [Tiles -> Nat]
  /\ Meshes \in [Tiles -> Seq(Nat) \ {<<>>}]
  /\ \A t \in Tiles : Len(Errors[t]) = Len(Meshes[t])
  /\ MaxGPUUploads \in Nat
  /\ MayCutShort \in BOOLEAN

VARIABLES
  loaded,          \* m_streamingManager has a value
  resident,        \* residentTileIds()
  gpuTiles,        \* m_gpuTiles
  meshQueue,       \* m_meshQueue: the mesh, and the TileGPU its callback captured
  materialQueue,   \* m_materialQueue, likewise
  phase,           \* where update() is
  todo,            \* resident tiles its first loop has still to visit
  uploads          \* uploads done by this processQueue()

updateVars ==
  <<loaded, resident, gpuTiles, meshQueue, materialQueue, phase, todo, uploads>>
worldVars == <<updateVars, lodVars>>

Lods(t) == DOMAIN Meshes[t]
UploadsOf(t) == Materials[t] + SumFunction(Meshes[t])

Init ==
  /\ LODInit
  /\ loaded = FALSE
  /\ resident = {}
  /\ gpuTiles = [t \in {} |-> 0]
  /\ meshQueue = <<>>
  /\ materialQueue = <<>>
  /\ phase = "idle"
  /\ todo = {}
  /\ uploads = 0
-----------------------------------------------------------------------------
\* A TileGPU is known by its address.  An address in use, or captured by a
\* callback that is still queued, is not that of a new TileGPU here, so that a
\* callback that outlives its TileGPU stays recognisable.
Addresses == {gpuTiles[t].address : t \in DOMAIN gpuTiles}
Captured == {u.address : u \in ToSet(meshQueue) \cup ToSet(materialQueue)}
NewAddress == CHOOSE a \in 0 .. Cardinality(Addresses \cup Captured) :
                 a \notin Addresses \cup Captured

TileAt(a) == CHOOSE t \in DOMAIN gpuTiles : gpuTiles[t].address = a

\* shutdown(): m_gpuTiles is cleared, the upload queue is not.
Drop ==
  /\ resident' = {}
  /\ gpuTiles' = [t \in {} |-> 0]

MayDrop == MayCutShort \/ meshQueue \o materialQueue = <<>>

Shutdown ==
  /\ phase = "idle"
  /\ loaded
  /\ MayDrop
  /\ Drop
  /\ loaded' = FALSE
  /\ UNCHANGED <<meshQueue, materialQueue, phase, todo, uploads, lodVars>>

\* A loadDataset() that succeeds; one that fails changes nothing.
LoadDataset ==
  /\ phase = "idle"
  /\ MayDrop
  /\ Drop
  /\ ResetLODs
  /\ loaded' = TRUE
  /\ UNCHANGED <<meshQueue, materialQueue, phase, todo, uploads>>

\* update(): the StreamingManager makes some tiles resident, unloads others.
UpdateStreaming ==
  /\ phase = "idle"
  /\ loaded
  /\ resident' \in SUBSET Tiles
  /\ todo' = resident'
  /\ phase' = "enqueue"
  /\ UNCHANGED <<loaded, gpuTiles, meshQueue, materialQueue, uploads, lodVars>>

\* Mutant: GPU data that waits to be released stays so.
ReviveNot(t) ==
  /\ t \in DOMAIN gpuTiles
  /\ UNCHANGED <<gpuTiles, meshQueue, materialQueue>>

\* A tile that has GPU data keeps it, although it may have been unloaded and
\* loaded again since.
Revive(t) ==
  /\ t \in DOMAIN gpuTiles
  /\ gpuTiles' = [gpuTiles EXCEPT ![t].stillResident = TRUE]
  /\ UNCHANGED <<meshQueue, materialQueue>>

\* Materials, then the meshes of all LODs, are queued with callbacks that
\* capture the new TileGPU by reference.
MeshesInOrder(t, a) ==
  FlattenSeq([l \in Lods(t) |->
    [m \in 1 .. Meshes[t][l] |-> [address |-> a, lod |-> l, mesh |-> m]]])

EnqueueUploads(t) ==
  /\ t \notin DOMAIN gpuTiles
  /\ LET a == NewAddress IN
       /\ gpuTiles' =
            [u \in DOMAIN gpuTiles \cup {t} |->
               IF u # t THEN gpuTiles[u]
               ELSE [address |-> a, pendingUploads |-> UploadsOf(t),
                     stillResident |-> TRUE, materials |-> <<>>,
                     lodMeshes |-> [l \in Lods(t) |-> <<>>]]]
       /\ materialQueue' = materialQueue \o
            [m \in 1 .. Materials[t] |-> [address |-> a, material |-> m]]
       /\ meshQueue' = meshQueue \o MeshesInOrder(t, a)

VisitResident(t) ==
  /\ phase = "enqueue"
  /\ t \in todo
  /\ Revive(t) \/ EnqueueUploads(t)
  /\ todo' = todo \ {t}
  /\ UNCHANGED <<loaded, resident, phase, uploads, lodVars>>

\* Mutant: GPU data goes with its tile, queued uploads or not.
ReleaseEarly ==
  /\ phase = "enqueue"
  /\ todo = {}
  /\ gpuTiles' = Restrict(gpuTiles, DOMAIN gpuTiles \cap resident)
  /\ phase' = "upload"
  /\ uploads' = 0
  /\ UNCHANGED <<loaded, resident, meshQueue, materialQueue, todo, lodVars>>

\* Mutant: GPU data that is not ready stays in use.
ReleaseUnmarked ==
  /\ phase = "enqueue"
  /\ todo = {}
  /\ gpuTiles' =
       Restrict(gpuTiles, {u \in DOMAIN gpuTiles :
                             u \in resident \/ gpuTiles[u].pendingUploads # 0})
  /\ phase' = "upload"
  /\ uploads' = 0
  /\ UNCHANGED <<loaded, resident, meshQueue, materialQueue, todo, lodVars>>

\* GPU data of tiles that are no longer resident goes once it is ready().
ReleaseStale ==
  /\ phase = "enqueue"
  /\ todo = {}
  /\ gpuTiles' =
       [t \in {u \in DOMAIN gpuTiles :
                 u \in resident \/ gpuTiles[u].pendingUploads # 0} |->
          IF t \in resident THEN gpuTiles[t]
          ELSE [gpuTiles[t] EXCEPT !.stillResident = FALSE]]
  /\ phase' = "upload"
  /\ uploads' = 0
  /\ UNCHANGED <<loaded, resident, meshQueue, materialQueue, todo, lodVars>>

\* Mutant: the callback counts nothing.
CompleteUncounted(a, gpu) == gpuTiles' = [gpuTiles EXCEPT ![TileAt(a)] = gpu]

\* What a callback does to the TileGPU it captured.
Complete(a, gpu) ==
  gpuTiles' = [gpuTiles EXCEPT ![TileAt(a)] =
                 [gpu EXCEPT !.pendingUploads = @ - 1]]

\* processQueue(): meshes first.  A callback whose TileGPU is gone writes to
\* freed memory; the model goes no further than the step before (see
\* CallbacksHaveTarget).
UploadMesh ==
  /\ phase = "upload"
  /\ uploads < MaxGPUUploads
  /\ meshQueue # <<>>
  /\ LET u == Head(meshQueue) IN
       /\ u.address \in Addresses
       /\ Complete(u.address,
            [gpuTiles[TileAt(u.address)] EXCEPT !.lodMeshes[u.lod] =
               Append(@, u.mesh)])
  /\ meshQueue' = Tail(meshQueue)
  /\ uploads' = uploads + 1
  /\ UNCHANGED <<loaded, resident, materialQueue, phase, todo, lodVars>>

UploadMaterial ==
  /\ phase = "upload"
  /\ uploads < MaxGPUUploads
  /\ meshQueue = <<>>
  /\ materialQueue # <<>>
  /\ LET u == Head(materialQueue) IN
       /\ u.address \in Addresses
       /\ Complete(u.address,
            [gpuTiles[TileAt(u.address)] EXCEPT !.materials =
               Append(@, u.material)])
  /\ materialQueue' = Tail(materialQueue)
  /\ uploads' = uploads + 1
  /\ UNCHANGED <<loaded, resident, meshQueue, phase, todo, lodVars>>

EndUpdate ==
  /\ phase = "upload"
  /\ uploads = MaxGPUUploads \/ meshQueue \o materialQueue = <<>>
  /\ phase' = "idle"
  /\ uploads' = 0
  /\ UNCHANGED <<loaded, resident, gpuTiles, meshQueue, materialQueue, todo,
                 lodVars>>

Ready(t) == gpuTiles[t].pendingUploads = 0

\* The GPU data render() may draw.
Drawn == {t \in DOMAIN gpuTiles : Ready(t) /\ gpuTiles[t].stillResident}

\* render(): the LOD of each tile it draws is selected.
Render(camera) ==
  /\ phase = "idle"
  /\ loaded
  /\ SelectLODs(Drawn \cap resident, camera)
  /\ UNCHANGED <<updateVars, useError>>

UpdateStep ==
  \/ UpdateStreaming \/ ReleaseStale \/ UploadMesh \/ UploadMaterial \/ EndUpdate
  \/ \E t \in Tiles : VisitResident(t)

Next ==
  \/ UpdateStep \/ LoadDataset \/ Shutdown
  \/ \E camera \in Cameras : Render(camera)

\* The application calls update() every frame as long as a dataset is loaded.
Spec == Init /\ [][Next]_worldVars /\ WF_worldVars(UpdateStep)
-----------------------------------------------------------------------------
TypeOK ==
  /\ loaded \in BOOLEAN
  /\ resident \subseteq Tiles
  /\ DOMAIN gpuTiles \subseteq Tiles
  /\ \A t \in DOMAIN gpuTiles :
       /\ gpuTiles[t].pendingUploads \in 0 .. UploadsOf(t)
       /\ gpuTiles[t].stillResident \in BOOLEAN
  /\ phase \in {"idle", "enqueue", "upload"}
  /\ todo \subseteq Tiles
  /\ useError \in BOOLEAN
  /\ currentLOD \in [DOMAIN currentLOD -> Nat] /\ DOMAIN currentLOD \subseteq Tiles
  /\ uploads \in 0 .. MaxGPUUploads

(***************************************************************************)
(* SpatialWorld.h, TileGPU: "upload callbacks capture a reference to this  *)
(* struct, and a tile can be evicted before an upload already queued for   *)
(* it completes - erasing early would leave that callback holding a        *)
(* dangling reference."  Every queued callback has its TileGPU.            *)
(***************************************************************************)
CallbacksHaveTarget == Captured \subseteq Addresses

\* ready() means what it says: a tile's count is that of the uploads queued for
\* it, across evictions, revivals and partial drains of the queue.
UploadsTo(a, queue) == Cardinality({i \in DOMAIN queue : queue[i].address = a})
QueuedFor(a) == UploadsTo(a, meshQueue) + UploadsTo(a, materialQueue)

PendingIsQueued ==
  \A t \in DOMAIN gpuTiles :
    gpuTiles[t].pendingUploads = QueuedFor(gpuTiles[t].address)

\* render() pairs mesh i of a LOD with the GPU mesh i, and material k with the
\* GPU material k: what it draws has all of the tile, in the tile's order.
DrawnIsComplete ==
  \A t \in Drawn :
    /\ gpuTiles[t].materials = [m \in 1 .. Materials[t] |-> m]
    /\ \A l \in Lods(t) :
         gpuTiles[t].lodMeshes[l] = [m \in 1 .. Meshes[t][l] |-> m]

\* What is drawn is the right LOD for the camera: see WithinBand.
SelectsWithinBand ==
  [][\A camera \in Cameras : Render(camera) =>
       \A t \in Drawn :
         WithinBand(currentLOD'[t], camera.distance,
                    EffectiveThresholds(t, camera))]_worldVars

\* Between two updates, only tiles that are resident are drawn: render() never
\* looks for the data of an evicted one.
DrawnIsResident == phase = "idle" => Drawn \subseteq resident

\* What a frame draws is all there, and nothing else is drawn.
DrawnIsWhole == DrawnIsComplete /\ DrawnIsResident

\* Once the resident set rests, all of it is drawn and no other GPU data is
\* left, whatever uploads of evicted tiles were queued in front.
RestIsDrawn ==
  \A R \in SUBSET Tiles :
    <>[](loaded /\ resident = R) =>
      <>[](loaded /\ Drawn = R /\ DOMAIN gpuTiles = R)
=============================================================================
