# Verification of the Spatial SDK

TLA+ models, model-checking runs and machine-checked proofs for the streaming
core of the Spatial SDK (`sdk/`): how tiles are requested, loaded by worker
threads, cached, evicted, uploaded to the GPU and drawn, at which level of detail,
and shown by Unity, Unreal or the standalone viewer, each in its own coordinates;
what a frame of each of them does; how datasets are generated, written, read and
indexed. The modules are translated from the C++ and C# sources; `PROJECT.json` maps
every definition to the lines it stands for.

## 1. The system: inventory

| Part | State it keeps | Operations | Modelled by |
|---|---|---|---|
| Request queue (`sdk/src/streaming/RequestQueue.cpp`) | heap of requests, set of pending ids, shutdown flag; one mutex, one condition variable | `push`, `pop` (blocks), `cancel` (lazy deletion), `shutdown` | `RequestQueue`, `RequestHistory`, `PriorityRequests` |
| Worker pool (`WorkerPool.cpp`) | threads, in-flight set, completed list (a mutex each) | `workerLoop`, `drainCompleted`, `isInFlight`, joining destructor | `WorkerPool` |
| Resource lifecycle (`ResourceState.h`) | none (a relation) | `isValidTransition`, asserted in `transition()` | `ResourceState` |
| Streaming manager (`StreamingManager.cpp`) | `m_entries`, the cache, the pool | `update()` in six passes, queries, destruction | `StreamingManager`, `TileLifecycle` |
| Tile cache (`TileCache.cpp`) | entries with size, priority and last access; running byte count; tick | `put`, `touch`, `advanceFrame`, `evictToBudget` | `TileCache`, `CacheContract` |
| SpatialWorld and upload queue (`SpatialWorld.cpp`, `rendering/GPUUploadQueue.cpp`) | GPU data per tile, two FIFO queues of uploads with callbacks | `loadDataset`, `shutdown`, `update`, `render`; `enqueueMesh`, `enqueueMaterial`, `processQueue` | `SpatialWorld`, `FrameLoop` |
| LOD selection (`lod/*.h`) | configuration, last LOD per tile | `selectLOD` with hysteresis | `LODManager` |
| Spatial index (`core/SpatialIndex.h`) | quadtree of nodes with items | `insert` with subdivision, queries by frustum, sphere and box | `SpatialIndex` |
| Tile index (`data/TileIndex.cpp`) | the quadtree, a map of bounds | `buildUniformGrid`, queries | `Dataset` |
| Dataset and tile format (`data/*Serializer.cpp`, `BinaryIO.h`) | files | save, load, version and truncation checks | `TileFormat`, `Dataset` |
| Tile builder (`tools/TileBuilder`) | files | one run: all tiles, each generated with its LODs, then the manifest | `Dataset`, `ProceduralCity`, `CityGeometry` |
| Profiler (`debug/Profiler.cpp`) | sections of the current and the last frame | `beginFrame`, `measure`, `endFrame` | `Profiler`, `FrameLoop` |
| Debug renderer (`debug/DebugRenderer.cpp`) | lines not yet flushed; `SpatialWorld` keeps it for the renderer it draws to | `drawLine`, `drawAABB`, `drawTileBounds`, `flush` | `DebugRenderer`, `FrameLoop` |
| GPU resources (`rendering/GPUResource.h`) | owned handles | release | `EngineBridge` |
| Managed mesh renderer (`examples/common`) | meshes and materials by id, draw commands and debug lines of the frame | create, destroy, draw, `beginFrame` | `EngineBridge`, `FrameLoop` |
| Unity and Unreal plugins (`examples/UnityDemo`, `examples/UnrealDemo`) | engine meshes and materials, cached by id; pulled debug lines | begin, tick, end of play; coordinate conversion | `EngineBridge`, `EngineSpace`, `FrameLoop` |
| Standalone viewer (`examples/StandaloneViewer`) | D3D11 meshes, materials and buffers; keys, size and mouse capture of the window; camera | renderer calls, window messages, frame loop | `EngineBridge`, `Win32Window`, `FrameLoop` |
| Math core (`core/`) | none | vectors, matrices, boxes, planes | `EngineSpace`, `SpatialIndex` (whole numbers; see 7) |

### How the parts interact

The application calls `SpatialWorld::update()` and `render()` once per frame,
on one thread. `update()` calls `StreamingManager::update()`, which

1. computes the desired tiles from the camera through the tile index,
2. drains the pool's completed list and moves each tile on (or drops it),
3. promotes Requested tiles the pool reports in flight,
4. cancels Requested tiles that are no longer desired,
5. evicts from the cache what is neither desired nor within budget,
6. requests desired tiles that are Unloaded, at most
   `maxNewRequestsPerUpdate` of them.

The worker threads take requests from the queue, register the id as in flight,
load, unregister, and append the result to the completed list. Queue, in-flight
set and completed list have separate mutexes, so the workers run between any
two calls of `update()` into the pool, and every gap between two of a worker's
critical sections can be observed.

`SpatialWorld::update()` then gives every resident tile a `TileGPU`, queues its
uploads with callbacks that hold a *reference* to that `TileGPU`, releases the
GPU data of tiles that are gone once no callback can still come, and runs a
bounded number of uploads, meshes before materials. `render()` draws what is
resident and complete, each tile at the LOD that `LODManager` selects for it.

In the engine demos the renderer is a `ManagedMeshRenderer`, which stores meshes
and materials under fresh ids and lists the draw commands of the frame. After
each `update()` and `render()` the Unity or Unreal component reads that list over
a C interface and builds an engine mesh or material for every id it has not seen.
The standalone viewer has no component: its `D3D11Renderer` draws at once, and
throws out of `update()` when the graphics API refuses a mesh.

The SDK's space is right-handed with Y up, in metres; Unity's is left-handed with Y
up, Unreal's left-handed with Z up, in centimetres. Camera and radius are
converted on the way in; positions, normals, transforms, triangles and debug lines on
the way out, in Unity by the component, in Unreal by the plugin (but for the
transposition of matrices).

The viewer's loop empties the message queue of its window, reads keys and size from
what the messages left, resizes its buffers, and updates and renders the world.
If visualization is on, `render()` also draws the box of every tile within reach,
through a debug renderer that is made anew when the renderer changes, and a profiler
that `update()` starts and `render()` ends measures four sections of the frame.

A dataset is a manifest and a directory of tile files. The tile builder writes
the tiles and then the manifest; `loadDataset()` reads the manifest and computes
ids and bounds of the tiles from it (`buildUniformGrid`), without a look at the
files; the workers' loader reads the files by those ids.

### What is hard

* **Threads.** Lost wakeups and shutdown of the queue; the window between
  `pop()` and registration, in which a tile looks cancellable although a worker
  has it; the window between unregistration and delivery; results for tiles
  that were cancelled and requested again in the meantime.
* **Lazy deletion.** A cancelled request stays in the heap, and `m_pending`
  knows ids only: a later `push` of the same id makes the old entry live.
* **Two tables for one fact.** `m_entries` and `m_cache` are updated in
  different passes and must agree after each.
* **References in callbacks.** A tile may be evicted, and loaded again, while
  uploads for it are queued.
* **Caches that outlive what they cache.** LODManager remembers the LOD of tiles
  long gone; the engine components keep meshes and materials for ever.
* **Files cut short.** `loadTile` reads on with zeros and looks at the stream once,
  at the end; the builder may die anywhere, over the files of an earlier build.
* **Pruning.** A query sees a tile only if every node above it is hit, and tiles
  lie exactly on the lines at which nodes are divided.
* **What outlives a frame.** The lines a renderer was given, the debug renderer,
  the sections of the profiler and the buffers of the viewer belong to one frame or one
  renderer and are kept across reloads, toggles, early returns and resizes.
* **Messages.** Focus, mouse and keys change in any order and any number of times
  between two frames.
* **Handedness.** Conversions at a dozen places must agree, and the identity, which is
  the only transform the SDK draws with, hides a matrix that is wrong.
* **Progress.** A tracked tile is never requested again; if its load got lost it
  would be missing for as long as the camera stays.

`PROJECT.json` lists the hazards by line, with the properties that cover each.

## 2. Modules

    PriorityRequests        TileLifecycle         CacheContract
          ^ implements           ^ implements       ^ implements   \ extended by
    RequestHistory               |              TileCache           |
          | extends              |                                  |
    RequestQueue <- WorkerPool <- StreamingManager -----------------+
                                     | extends ResourceState
                                     : residentTileIds()
    LODManager <- SpatialWorld <- EngineBridge

    SpatialIndex <- Dataset -> TileFormat, ProceduralCity

    EngineSpace <- CityGeometry <- FrameLoop -> DebugRenderer, Profiler, Win32Window

* **`RequestQueue`** One action per critical section. The heap is the sequence
  in which entries would be popped; `std::priority_queue` leaves the order of
  equal priorities open, and so does `Push`. The condition variable is two sets
  of threads: `waiting` (blocked) and `woken` (notified, or woken spuriously, and
  about to take the mutex again). `pop()` holds the mutex from the end of a wait
  to its return or the next wait, so its loop over cancelled entries is one
  action with three outcomes: `PopTakes`, `PopWaits`, `PopEnds`.
* **`RequestHistory`** adds a history variable, the full request (with priority)
  for every pending id. With it the queue is compared with **`PriorityRequests`**,
  a set of wanted requests from which a thread takes one of the highest priority. The
  code cannot tell a wanted request from one for the same tile that was cancelled and
  still lies in the heap. The abstract queue says what that amounts to: a second set,
  `stale`, of requests that were withdrawn, one of which may be handed out in place of a
  later request for its tile that is no more urgent, and never otherwise. In the code
  `stale` is what the heap has besides one entry for each wanted request.
* **`WorkerPool`** adds the position of each thread in `workerLoop`, the in-flight
  set and the completed list. `pop -> register -> load -> deliver` are separate
  actions because each takes another mutex.
* **`ResourceState`** is `isValidTransition` and `transition()`; a transition the
  assert would reject leads to the state `Aborted`, from which nothing leads on.
* **`CacheContract`** is what the manager needs of the cache: sizes, and eviction
  of unprotected tiles, one at a time, until the budgets are met or nothing but
  protected tiles is left. **`TileCache`** is the cache itself, with priorities,
  last access, the running byte count and the choice by `keepScore`, and is shown
  to implement the contract.
* **`StreamingManager`** is `update()` as a sequence of passes (`phase`). Each
  iteration that calls into the pool, and each processed result, is an action
  between which workers run. The desired set of each update is arbitrary (the
  camera may jump), so is the priority of each request.
  **`TileLifecycle`** is what it promises per tile.
* **`SpatialWorld`** sees streaming through the set of resident tiles after each
  `StreamingManager::update()`, which is arbitrary. A `TileGPU` has an address;
  callbacks are queue entries that carry it.
* **`LODManager`** is `selectLOD()` with its memory, in integers: a camera is its
  distance and the factor that turns a geometric error into a threshold (field of
  view, viewport and error budget). `SpatialWorld!Render` applies it to what is
  drawn.
* **`EngineBridge`** extends `SpatialWorld` with the renderer behind it and the
  component in front of it. A tick is `StartUpdate`, the steps of
  `SpatialWorld::update()` (each extended by what happens to handles in it) and
  `RenderFrame`; `EndPlay` and `BeginPlay` come between ticks only, because engine
  and world share a thread. An engine mesh is identified with the mesh of the
  dataset it was built from, a colour with the material. The viewer takes part as a
  third engine, without caches and with two counters for ids; `FailToCreateMesh`
  is the exception of its renderer, which ends it in the middle of an update.
* **`SpatialIndex`** is the quadtree as a function from paths to regions and items.
  `insertAt()` with its recursion is `Insert` into the node where the descent ends
  and `Subdivide` for each node that is then overfull; queries are asked in between
  only when nothing is overfull (`Settled`). Y passes through every node unchanged
  and is left out.
* **`TileFormat`** writes a tile as a sequence of fields and reads any prefix of
  one, the last field possibly torn: `ReadField` returns what is there and
  spoils the stream, as `std::istream::read` into a zeroed variable does.
* **`ProceduralCity`** is what the tile builder puts into a tile. A shape stands for
  all the vertices of a quad or box, so an index is the number of a shape; every
  `2^lod`-th building is kept.
* **`Dataset`** joins them: a directory in which builder runs write, each of which
  `Crash` may end, within a file or between two, and an application that opens the
  manifest and builds the index tile by tile.
* **`EngineSpace`** is the conversions, over whole metres or centimetres:
  `EngineVertex` is what becomes of a vertex between the SDK and the engine's
  screen, `SpatialCamera` what becomes of the camera on its way back.
* **`CityGeometry`** has the corners, normals and triangles that the tile builder
  writes, with whole numbers.
* **`DebugRenderer`** and **`Profiler`** are the operators and the state of these two;
  of a time only the number of measurements in it is kept.
* **`Win32Window`** is what the viewer's window makes of its messages, together with
  the user and the desktop that send them: which window has the focus, which keys and
  whether the mouse button are down, how often the cursor was hidden.
* **`FrameLoop`** joins the last four with the frames of four hosts: the viewer's loop, a
  Unity or Unreal component, and an engine of one's own that calls the SDK in any order
  `docs/sdk_api.md` allows. A frame is two actions, up to the end of `update()` and
  `render()` with what the host shows of it. Streaming is an arbitrary state per tile
  after each `update()`.
* **`MC...`** modules give the constants their values.
* **`..._proofs`** modules hold the theorems about the module they are named after:
  `RequestQueue_proofs` (extended by the next two), `RequestHistory_proofs`,
  `StreamingManager_proofs` (with `WorkerPool`), `TileCache_proofs`,
  `EngineBridge_proofs` (with `SpatialWorld` and `LODManager`), `FrameLoop_proofs` (with
  `EngineSpace`, `CityGeometry` and `Win32Window`) and `Dataset_proofs` (with
  `SpatialIndex`, `TileFormat` and `ProceduralCity`). **`Recursion`** has what they need of
  the recursive operators of the libraries: smallest numbers, sums over sets, flattened
  sequences, folds.

Definitions introduced by a comment that starts with "Mutant:" are deliberately
wrong variants of the definition that follows them: a missing notification, a
dropped guard, a swapped sign. `PROJECT.json` names, for every checked
property, a variant that must break it. Nothing else uses them.

## 3. Runs

| Run | Instance | What it shows |
|---|---|---|
| `queue_history` | 2 tiles, 3 priorities, 2 threads, heap of 4 | Whatever is pushed and cancelled, the heap with lazy deletion, shutdown included, is the priority queue of `PriorityRequests`: the most urgent wanted request is taken, and an entry left over from a cancelled one is seen at most in place of a later request of its tile that is no more urgent. |
| `queue_stale_entry` (finding) | same | That does happen: `pop()` returns a request that was cancelled, in place of the newer one for the same tile. |
| `pool` | 2 tiles, 2 priorities, 2 workers, backlog of 3 | No wakeup and no request is lost; `isInFlight()` is never true of a load that is over, and loses one that runs only when another load of the same tile ends; every thread ends after a shutdown; what is pending reaches a worker. |
| `streaming` | 2 tiles, 2 workers, every load may fail, budgets for one tile | No tile is stuck, one in Loading is in a worker's hands or has a result, no illegal transition, entries and cache agree, every step is one of `TileLifecycle`; once the camera rests and loads no longer fail, everything in its radius becomes and stays resident and the workers come to rest. |
| `cache` | 3 tiles, 2 sizes, 2 priorities, 3 ticks | The byte count is exact, eviction keeps its contract, takes no better tile before a worse one, and ends. |
| `world` | 3 tiles with 5, 2 and 0 uploads, 2 uploads per frame, up to 3 LODs | No callback dangles, counts are exact, what is drawn is complete and resident, at a LOD that the camera is within the hysteresis band of, and a resting resident set gets drawn. |
| `world_cut_short` (finding) | same, shutdown at any time | `shutdown()`, and so a second `loadDataset()`, leaves callbacks queued that refer to destroyed `TileGPU`s. |
| `plugin` | 3 tiles with 3, 4 and 1 uploads, one mesh empty, one without material; Unity, Unreal and the viewer; shutdown and restart; 9 ids | The renderer holds exactly what the world owns, also after a failed upload, and every frame shows the right meshes in their own colours. |
| `plugin_reuse` (finding) | same | A tile that comes back gets new components in Unreal; the old ones stay. |
| `dataset` | 11 hand-written manifests, a hand-written tile cut anywhere, 4 histories of builder runs, grids of 1 to 8 tiles a side, crashes at every field | What loads was saved; generated tiles have the bounds the index computes, ordered errors, halving buildings and indices in range; what opens is complete but for one tile per run that was killed or gave up; queries find exactly what a full scan finds; for grids that subdivide to the depth limit. |
| `frames` | 4 hosts, 2 tiles, 2 cameras, 2 renderers, 2 keys, 4 window sizes | The overlay on the screen is exactly that of the frame, for the camera the user set and in the engine's space; the profile is of this frame; the viewer's buffers fit its window; F1 toggles once in each frame in which it goes down; the cursor comes back; everything converted is where it was, on the same hand and facing the same way. |
| `ground_winding` (finding) | the `Custom` host of the same | The triangles of the ground face down, though their normals point up. |

### Bounds

Two tiles and two workers are the smallest instance in which two loads run at
once, one worker sleeps while another works, the same tile is held twice, and
one tile is evicted in favour of the other. `MaxHeap` bounds the queue (the code
has no bound); 3 or 4 leaves room for a cancelled entry, its successor and an
entry of the other tile. In `WorkerPool` and `StreamingManager` it bounds queued,
running and undrained requests together, as a guard of the owner only, so workers
are never held up by it. In `streaming` t1 alone exceeds the budgets, t2 alone
fits, so every combination of "over budget" and "desired" occurs; throttling
bites with `MaxNewRequests = 1`. `MaxTick` bounds the frames the cache counts;
scores depend on differences of ticks only. In `world`, t1 has two LODs and two
materials so that its uploads span several frames and several tiles interleave in
the queues; t3 has nothing to upload, so it is ready at once. Its cameras lie on
either side of each threshold, within the band and beyond it.

In `plugin`, `MaxId` bounds the ids given out: with 9, and the two that the last
tick may add, one tile can be uploaded three times, or two of them with one coming
back, across a restart if need be; a tick that has begun still ends, so no upload
is cut off. `plugin_reuse` has 11. In `dataset`, a tile with every loop of the format
run zero times, once and more than once is there whole or cut short at any field,
and generated tiles have up to three LODs and four buildings; the builder writes
them over others with other sizes. `DatasetAssumption` keeps `maxLOD` below 32,
beyond which the generator's shifts are undefined. `MaxArrayCount` is 4 and the model's uint32 has 16 values, both
small enough that the limits are met (a manifest of version 17 is accepted as
version 1); `MaxItemsPerNode = 2` and `MaxDepth = 2` make a grid of 8 x 8 subdivide
in two stages and exceed the depth limit. The hand-written manifests lie on both
sides of each check, two of them within the tolerance on worldSize / tileSize. The
queries take places on tile borders, on centre lines, inside, and just outside
the world.

In `frames` the two tiles touch; from one camera both are within the radius, one of
them exactly at it, from the other one is, and would not be if z had the wrong sign.
The buildings of one tile are lower than the box the index has for it, those of
the other higher. `Escape` and `F1` are the keys with a meaning; of the sizes two
share a width, one has no height, and one is the minimised window. `CustomRenders` may come without an update,
at most twice in a row. The transforms are the identity and a quarter turn with a
translation, which leaves one of the three axes as it is.
`MCFrameLoop` does not check for deadlock because the viewer's program ends.

### Fairness

* `PoolSpec`, `FairSpec`: weak fairness of each worker's steps. The operating
  system runs a thread that is not blocked; a sleeping thread is *not* assumed to
  wake by itself (spurious wakeups are possible, never required), so progress
  depends on the notifications.
* `FairSpec`: weak fairness of the steps of `update()`, because the frame loop
  calls it every frame, and of the join.
* `SpatialWorld!Spec`: weak fairness of the steps of `update()`, for the same
  reason.
* `FrameSpec` has none: all its properties are about what is shown, not when.
* `TileCache!Spec`: weak fairness of the rounds of `evictToBudget`: a loop that
  runs goes on.

### Assumptions of `FrameLoop`

Window messages are handled in the order of what they report. The window gets the
focus only while no key is down, so that a key held during the switch does not arrive
as a repetition of a press the window never saw. Keys are counted per frame, as the
code does: one that goes down twice between two frames toggles once. The renderer
changes only
with a `loadDataset()`, as `docs/sdk_api.md` asks: GPU resources point into it. A
dataset is loaded into a component once, when play begins (`EngineBridge` has the
restart).

## 4. What is proved

A theorem holds for all values of the constants: any sets of tiles and priorities, any
finite set of workers, all budgets, sizes, limits, hosts and datasets. What is assumed
of them is in the named `ASSUME`s of the modules, which TLC evaluates in every run:
counts and sizes are naturals, workers are finite, a load has at least one possible
outcome, thresholds are ordered as `LODManager.h` asks, grids and windows are of whole
numbers. A theorem with a hypothesis of its own says so below.

Every safety proof has the same shape: `Init` implies the invariant, one lemma per action
shows that it is kept, and the property follows from it. The invariant is more than the
properties of the runs, and what it adds is the part of the argument that tests do not show.

**`RequestQueue_proofs`**, for `QueueSpec`. The inductive invariant is the
conjunction of the type invariant, `WakeupsCoverHeap`,
`NobodySleepsAfterShutdown` and `PendingInHeap`. `WakeupsCoverHeap` is the
one that takes thought: "someone notified while the heap is not empty" is not
inductive, since a notified thread may spend its notification on a cancelled
entry; the number of notified threads has to cover *all* entries, cancelled ones
included. `push` adds one of each; a pop removes one notified thread and at
least one entry, or everything. `BestRequestFirst` adds that the heap is ordered.

**`RequestHistory_proofs`**: `RequestHistory` implements `PriorityRequests`, whatever is
pushed and cancelled. The invariant says that each wanted request has a heap entry of its
own, with its own priority, so that the entry a pop takes for it is at least as urgent.
The step simulation is about what is left over besides those entries: `push` moves the
heap's entries apart and loses none, a pop drops a prefix, and all it can add to what is
left over is the request another entry stood in for. Where a tile keeps one priority, a stale request equals the later
one and the queue is an ordinary priority queue; `StreamingManager` pushes with
the priority the camera gives, so it is not (`queue_stale_entry`).

**`StreamingManager_proofs`** first proves the pool for `PoolSpec`. `PoolInv` is the queue's
invariant with three facts: what the position of a worker in `workerLoop` says of the request
it carries (`JobsAreRunning`), that an id is in `m_inFlight` only while a worker loads
it (`InFlightIsLoading`), and that a thread ends only after shutdown with nothing pending
(`ExitsAfterDraining`, proved as `WorkersDrain`). `InFlightTellsLoads` adds to the second
what a step may do: of all steps only another worker's `FinishLoad` erases an id that a
worker still loads. The lemmas about the pool are used again for `Spec`, which has the
manager in front. To the properties the runs check, its invariant adds what each phase
still has to visit (`todo` of the promotion and cancellation passes holds Requested tiles
only, and in the cancellation pass only undesired ones). Cancelling is the delicate step
for `NoTileIsStuck`: it takes an id from `pending`, and only the transition to Unloaded in
the same step keeps it true. Promotion is the one for `LoadingIsInHand`: it needs
`InFlightIsLoading` of the very state in which `isInFlight()` was asked. From the invariant
follow type correctness, `TransitionsAreLegal`, `NoTileIsStuck`, `LoadingIsInHand`,
`CacheHoldsResidents` and, with the step simulation, `KeepsLifecycle`.

**`TileCache_proofs`**, for its `Spec`. The byte count is a sum over a set, so the lemmas
about `put` and about eviction are about what a sum loses and gains with one element. The
step simulation shows `KeepsContract`, which makes `StreamingManager`'s theorems hold with
the real cache in place of the contract. `WorseTileGoesFirst` assumes `RecencyWeight # 0`:
with 0 the score does not depend on the last access (the code has 1).

**`EngineBridge_proofs`** has two halves. `SpatialWorld` is proved for `Spec` if
`~MayCutShort`: `shutdown()` comes when no uploads are queued, for else `CallbacksHaveTarget`
is false (`world_cut_short`). The invariant says that addresses are used once, that
the counts in a `TileGPU` are what is queued for it, uploads of a `TileGPU` are queued in the
order in which they were listed, and that what was uploaded and what is queued make up
the whole tile; `DrawnIsWhole` is the case in which nothing is queued. The second half is
for `BridgeSpec`, without a hypothesis: a component that ends play destroys its world, and
the queue with it, so no callback is left to run. Its
invariant `BridgeInv` relates three tables: ids owned by tiles, ids the renderer knows,
and ids a component has cached. `PictureIsRight` needs that an id is never given out
twice, and that what a component cached under an id that is still in use was built from
its owner, though the caches are never emptied.

**`FrameLoop_proofs`**, for `FrameSpec`. The properties of a frame are about its last step,
so `FrameInv` says what the steps before leave for it: the cursor's count agrees with the
mouse capture, the viewer's buffers have the window's size unless a resize is pending, keys are
counted since the last pump, the profiler has what `update()` measured and nothing else, and
a component has not been switched since. `OverlaysAreCurrent` follows the
lines of a frame from `drawTileBounds` to the screen of each host, and in Unity and Unreal
through a conversion. `TransformsAgree`, `SeesAlike` and `MeshesFaceAlike` are about
`EngineSpace` alone: for all whole numbers, conversions commute with transforms (not only with
the identity, the only one the SDK draws with), the camera sees what it saw, and a mesh
faces the way it did. `SceneStandsRight` is the case of what the tile builder generates.

**`Dataset_proofs`**, for `DatasetSpec`, in two halves. `DatasetInv` says what the pruning of a query relies on:
nodes are quadrants of the node above, and an item lies in the region of each node on its
path, except that a region on the edge of the world does not bound what sticks out of it. From
it follows `QueriesFind` for every tree, depth and query, also for trees in the middle
of a subdivision. The world's edge is why `QueriesFind` asks radius queries from inside it
for manifests with the tolerance on worldSize / tileSize.

The second half is about the files. What `loadTile()` makes of a file is followed from read to
read in the order of the code: as long as the stream is good, a reader that began at a field
of the whole file is at the field after what it read, and has what was written; and a stream
that was bad once stays so (`Follows`, `TileFollows`). So a beginning of a file gives the tile
or an error, whatever is torn, and a whole file gives the tile unless a count is above
`MaxArrayCount` (`LoadFollows`). Of the city, the proofs show how often a loop with that
stride runs and that the base of a shape is what the mesh had before it (`HalfAsMany`,
`MeshesMade`). `FilesInv` then says which files there can be. That a manifest is written last
is not enough for `CrashCostsOneTile`: a later run overwrites tiles under the old manifest, and
ids of two runs may coincide. So the invariant counts: the ids of a manifest for which no run's
tile is whole are no more than the crashes, since only the tile at which a builder dies stops
being whole. `CrashesAreCheap` assumes `RunsFit`: no run is asked for tiles with counts above
`MaxArrayCount`. The builder does not check this (see 5), and the reader refuses such tiles; the
datasets of the run satisfy it. The other three theorems need no hypothesis.

**`Recursion`** replaces induction over data, which the provers cannot do, where only
the existence of a recursive function is at stake: the smallest number at which a statement
fails has a predecessor at which it holds. The folds of the community modules are turned into
sequences of steps in this way, and so are sums over sets and sequences of sequences.

Model-checked only: all liveness (`ShutdownJoins`, `QueueDrains`,
`SettlesAtRest`, `EvictionEnds`, `RestIsDrawn`), which needs fairness and
`ENABLED`. Every safety property of a passing run is stated by a theorem.
Type invariants are part of what is proved and are in no run of their own, but for
`TypeOK`.

## 5. Findings

* **`queue_stale_entry`**: `docs/streaming.md:94` says a cancelled request is
  skipped on pop. It is not when the id has been pushed again: the old entry, with
  the old priority, is returned and the new one skipped later. Nothing is lost,
  but a tile whose priority fell may be loaded first.
* **`world_cut_short`**: `SpatialWorld::shutdown()` clears `m_gpuTiles` but not
  `m_uploadQueue`. After a dataset switch with uploads queued, the next
  `update()` runs callbacks whose `TileGPU` is gone.

* **`plugin_reuse`**: a comment in Unreal's `SpatialWorldComponent.cpp:213-216` and
  `docs/unreal_integration.md:117-121` say that a tile which returns reuses its
  mesh component. Components are cached by mesh id and ids are never used twice,
  so it gets new ones, and the old ones stay in memory, hidden. (That ids are not
  used twice is also what makes the caches right: see `PictureIsRight`.)
* **`ground_winding`**: `UnrealCoordinateConversion.h:23-24` says that generated
  geometry has its front faces counter-clockwise (referring to a comment in
  `ManagedMeshRenderer` that is not there), as do `architecture.md:484-485` and
  `CHANGELOG.md:93`. Boxes are; `appendGroundQuad` lists its corners the other
  way round. Engines that cull back faces show the ground from below only; the viewer
  draws both sides (`D3D11Renderer.cpp:197-203`). The conversions are not at fault:
  they keep whatever side a triangle faces (`SceneStandsRight`).

Some observations that are no findings: between `pop()` and registration an
entry is still Requested, so a cancel may come too late and the load runs in vain
(`docs/streaming.md:65` calls cancelling free; the result is dropped correctly).
And a tile that fails to load is requested again by every update, without backoff
(`docs/streaming.md:158` accepts this); with a low throttle it can keep the tiles
behind it in the index order from ever being requested, which is why
`SettlesAtRest` is stated for loads that succeed. A tile file cut inside its
version field is reported as `UnsupportedVersion`, though
`docs/tile_format.md:126` lists truncation under `CorruptTile`; all callers treat
both alike. A manifest version is cut to 32 bits before it is checked. With the
tolerance on worldSize / tileSize, tiles may stick out of the world, and a query
from outside can miss them; from inside it cannot (`QueriesFind`). A crash while
the builder replaces an older dataset leaves a mixture of old and new tiles that
opens and loads. The tile builder takes `--max-lod` of 32 and more, for which
its shifts are undefined and `geometricErrors` no longer ordered as
`LODManager.h:34` requires; no run covers that. Nor does one cover a write that fails when
the stream is flushed on destruction: `saveTile()` has reported success by then, and the
builder goes on (`DatasetSerializer.cpp:140`). The file is then one cut short, which
`LoadedWasSaved` has refused.

`m_inFlight` is a set: when two workers load one tile, cancelled between
pop and registration and requested again, the first to finish unregisters it for both
(`WorkerPool.cpp:42`; `WorkerPool.h:42` has it true "until that load completes", which
the code does not keep). `InFlightTellsLoads` states what holds instead. The manager
survives it: a Loading entry is true for as long as it lasts (`LoadingIsInHand`), and the
result pass catches up whatever the promotion missed.
With no worker threads every request waits for ever, and a tile file with no LODs,
which the reader accepts and the builder never writes, would be read out of bounds in
`render()` (`SpatialWorld.cpp:168`). `saveTile()` does not check the limits that
`loadTile()` enforces. Indices are copied in threes (`SpatialUnrealPlugin.cpp:220`),
and a new Unity mesh has 16-bit indices.

The window forgets the mouse but not the keys when it loses the focus
(`Win32Window.cpp:184`): a key released elsewhere stays down until it is pressed
again. Escape is polled after the messages of a frame (`main.cpp:289`), so a tap
that fits between two frames is lost. Without a camera Unity's component
returns before `PullDebugLines()` (`SpatialWorldComponent.cs:105`) and goes on drawing
the last overlay, even after it was disabled. `Mat4::perspective` has depths from
-1 to 1 (`Mat4.h:11`) and the viewer hands it to Direct3D, which clips below 0: what is
nearer than about 1 m is cut off, not 0.5 m.

## 6. Plan

What could still be modelled: `StreamingManager` asking `Dataset` for the desired
tiles instead of choosing them freely, with `Load` as the loader. Both sides are
checked against an arbitrary counterpart, so the composition would show less, not more.

Next theorems: none of the safety properties is left. Proofs could become shorter; liveness
has to wait for a prover that does fairness.

## 7. Not modelled

* Rounding, normalisation, view and projection matrices, and priorities: numeric code
  without state. Where a result matters for control it is a free choice (desired set,
  priority); geometry that is modelled is over whole numbers.
* `StreamingStatistics`, and the figures of overlay, log and profile file that are made
  of them: counters that nothing reads back. Also the total of a profile, a time.
* Heights of buildings, from random numbers, and several buildings in one
  `GeneratedMeshes`: they do not touch each other's vertices (`ProceduralCity` has them).
* Strings, and manifest fields that decide nothing later.
* Mouse movement and the camera's motion in the viewer: the camera may be anywhere.
* Textures, which nothing creates; shaders, drivers, file access and the wire formats of
  the graphics APIs. What the engines do with the meshes they are given.
