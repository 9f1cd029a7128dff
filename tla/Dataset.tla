------------------------------ MODULE Dataset -------------------------------
(***************************************************************************)
(* A dataset on disk and in memory: the tile builder that writes it        *)
(* (tools/TileBuilder), and the application that opens the manifest        *)
(* (DatasetSerializer), builds the tile index (TileIndex) and loads tiles  *)
(* by the ids of that index (TileSerializer).                              *)
(*                                                                         *)
(* The application reads while no builder runs; a builder may have been    *)
(* killed at any moment.                                                   *)
(***************************************************************************)
EXTENDS SpatialIndex, TileFormat, ProceduralCity

CONSTANTS
  Datasets,         \* [found, saved, builds]: the manifest and the tile somebody
                    \* else wrote, if any, and the options of the builder runs,
                    \* in order: [gridSize, tileSize, maxLOD, buildingsPerTileSide]
  ManifestVersion,  \* kDatasetManifestVersion
  UInt32,           \* how many values a uint32 has
  Queries           \* what the index is asked

Manifests == [version : Nat, tileSize : Int, worldSize : Int, build : Nat]
BuildOptions == [gridSize : Nat \ {0}, tileSize : Nat \ {0},
                 maxLOD : 0 .. ShiftWidth - 1, buildingsPerTileSide : Nat]

ASSUME DatasetAssumption ==
  /\ \A d \in Datasets :
       /\ d.found \subseteq Manifests /\ \A m \in d.found : m.build = 0
       /\ d.saved \subseteq Tiles
       /\ d.builds \in Seq(BuildOptions)
  /\ ManifestVersion \in 1 .. UInt32 - 1
  /\ Queries \subseteq Discs \cup Areas \cup Frusta

VARIABLES
  dataset,   \* which of Datasets this is
  tiles,     \* the tile files: their fields, and the torn one
  world,     \* the manifest in the manifest file, if there is one to be read
  builder,   \* "idle", or "tiles" while a builder runs
  build,     \* the number of builder runs so far
  crashes,   \* how many of them did not finish
  written,   \* how many tiles this run has written
  opened,    \* the manifest that was opened last, if one was
  bounds     \* m_bounds

fileVars == <<dataset, tiles, world, builder, build, crashes, written>>
datasetVars == <<indexVars, fileVars, opened, bounds>>

File(fields, torn) == [fields |-> fields, torn |-> torn]

\* What a writer that dies may leave of a file.
CutShort(fields) ==
  {File(SubSeq(fields, 1, k), <<>>) : k \in 0 .. Len(fields) - 1} \cup
  {File(SubSeq(fields, 1, k - 1), <<fields[k]>>) : k \in DOMAIN fields}

\* A tile of somebody else may be there whole, in part, or not at all.
DatasetInit ==
  /\ dataset \in Datasets
  /\ tiles \in
       {[id \in {} |-> 0]} \cup
       UNION {{[id \in {t.id} |-> file] :
                 file \in {File(WriteTile(t), <<>>)} \cup CutShort(WriteTile(t))} :
                t \in dataset.saved}
  /\ world = dataset.found
  /\ builder = "idle" /\ build = 0 /\ crashes = 0 /\ written = 0
  /\ opened = {}
  /\ bounds = [id \in {} |-> 0]
  /\ region = [p \in {<<>>} |-> Box(0, 0, 0, 0)]
  /\ items = [p \in {<<>>} |-> {}]
-----------------------------------------------------------------------------
IsPowerOfTwo(v) == \E k \in 0 .. v : v = 2 ^ k
Log2(v) == CHOOSE k \in 0 .. v : v = 2 ^ k

\* Both loops run over y, then x.
Cell(n, gridSize) == <<Log2(gridSize), n % gridSize, n \div gridSize>>

Options == dataset.builds[build]

\* Mutant: x and z change places.
BoundsSwapped(o, id) ==
  LET Edge(i) == i * o.tileSize - (o.tileSize * o.gridSize) \div 2 IN
    <<Edge(id[3]), Edge(id[2]), Edge(id[3]) + o.tileSize, Edge(id[2]) + o.tileSize>>

BoundsToWrite(o, id) ==
  LET Edge(i) == i * o.tileSize - (o.tileSize * o.gridSize) \div 2 IN
    <<Edge(id[2]), Edge(id[3]), Edge(id[2]) + o.tileSize, Edge(id[3]) + o.tileSize>>

TileToWrite(b, id) ==
  LET o == dataset.builds[b] IN
    GenerateTile(id, BoundsToWrite(o, id), o.buildingsPerTileSide, o.maxLOD)

CurrentId == Cell(written, Options.gridSize)
CurrentFile == WriteTile(TileToWrite(build, CurrentId))

Manifest ==
  [version |-> ManifestVersion, tileSize |-> Options.tileSize,
   worldSize |-> Options.tileSize * Options.gridSize, build |-> build]

\* main(): a grid that is no power of two is refused.
StartBuild ==
  /\ builder = "idle"
  /\ build < Len(dataset.builds)
  /\ IsPowerOfTwo(dataset.builds[build + 1].gridSize)
  /\ build' = build + 1
  /\ builder' = "tiles"
  /\ written' = 0
  /\ UNCHANGED <<indexVars, dataset, tiles, world, crashes, opened, bounds>>

SaveTile ==
  /\ builder = "tiles"
  /\ written < Options.gridSize * Options.gridSize
  /\ tiles' = [id \in DOMAIN tiles \cup {CurrentId} |->
                 IF id = CurrentId THEN File(CurrentFile, <<>>) ELSE tiles[id]]
  /\ written' = written + 1
  /\ UNCHANGED <<indexVars, dataset, world, builder, build, crashes, opened, bounds>>

\* Mutant: the manifest may be written before the tiles.
SaveManifestEarly ==
  /\ builder = "tiles"
  /\ world' = {Manifest}
  /\ builder' = IF written < Options.gridSize * Options.gridSize
                  THEN "tiles" ELSE "idle"
  /\ UNCHANGED <<indexVars, dataset, tiles, build, crashes, written, opened, bounds>>

SaveManifest ==
  /\ builder = "tiles"
  /\ written = Options.gridSize * Options.gridSize
  /\ world' = {Manifest}
  /\ builder' = "idle"
  /\ UNCHANGED <<indexVars, dataset, tiles, build, crashes, written, opened, bounds>>

\* The builder is killed, or ends with an error it noticed: between two files, or
\* with a beginning of the file it was writing on disk.  A flush that fails when
\* the stream is destroyed is not noticed, and is not modelled.
Crash ==
  /\ builder = "tiles"
  /\ builder' = "idle"
  /\ crashes' = crashes + 1
  /\ \/ UNCHANGED <<tiles, world>>
     \/ /\ written < Options.gridSize * Options.gridSize
        /\ \E file \in CutShort(CurrentFile) :
             tiles' = [id \in DOMAIN tiles \cup {CurrentId} |->
                         IF id = CurrentId THEN file ELSE tiles[id]]
        /\ UNCHANGED world
     \/ /\ written = Options.gridSize * Options.gridSize
        /\ world' = {}
        /\ UNCHANGED tiles
  /\ UNCHANGED <<indexVars, dataset, build, written, opened, bounds>>
-----------------------------------------------------------------------------
\* lround(worldSize / tileSize)
GridSize(m) == (2 * m.worldSize + m.tileSize) \div (2 * m.tileSize)
Distance(a, b) == IF a < b THEN b - a ELSE a - b

\* loadManifest() and the checks of buildUniformGrid().  A version is cut to 32
\* bits before it is looked at.
Accepted(m) ==
  /\ m.version % UInt32 \in 1 .. ManifestVersion
  /\ m.tileSize > 0 /\ m.worldSize > 0
  /\ GridSize(m) # 0
  /\ 100 * Distance(m.worldSize, GridSize(m) * m.tileSize) <= m.tileSize
  /\ IsPowerOfTwo(GridSize(m))

WorldBounds(m) ==
  LET half == m.worldSize \div 2 IN Box(-half, -half, half, half)

Indexing == \E m \in opened : Cardinality(DOMAIN bounds) < GridSize(m) * GridSize(m)

\* loadDataset(): what is open stays so unless the new dataset is accepted.
OpenWorld ==
  /\ builder = "idle"
  /\ ~Indexing /\ Settled
  /\ \E m \in world :
       /\ Accepted(m)
       /\ opened' = {m}
       /\ NewIndex(WorldBounds(m))
  /\ bounds' = [id \in {} |-> 0]
  /\ UNCHANGED fileVars

TileBounds(m, id) ==
  LET minX == WorldBounds(m).minX + id[2] * m.tileSize
      minZ == WorldBounds(m).minZ + id[3] * m.tileSize
  IN Box(minX, minZ, minX + m.tileSize, minZ + m.tileSize)

\* The next round of buildUniformGrid()'s loops: TileIndex::insert().
InsertTile ==
  /\ builder = "idle"
  /\ Indexing
  /\ \E m \in opened :
       LET id == Cell(Cardinality(DOMAIN bounds), GridSize(m))
           box == TileBounds(m, id)
       IN /\ Insert(id, box)
          /\ bounds' = [t \in DOMAIN bounds \cup {id} |->
                          IF t = id THEN box ELSE bounds[t]]
  /\ UNCHANGED <<fileVars, opened>>

SplitNode ==
  /\ \E p \in Nodes : Subdivide(p)
  /\ UNCHANGED <<fileVars, opened, bounds>>

DatasetNext ==
  \/ StartBuild \/ SaveTile \/ SaveManifest \/ Crash
  \/ OpenWorld \/ InsertTile \/ SplitNode

DatasetSpec == DatasetInit /\ [][DatasetNext]_datasetVars
-----------------------------------------------------------------------------
Load(id) ==
  IF id \in DOMAIN tiles THEN LoadTile(tiles[id].fields, tiles[id].torn)
  ELSE Error("TileLoadFailed")

DatasetTypeOK ==
  /\ Cardinality(world) <= 1 /\ Cardinality(opened) <= 1
  /\ \A m \in world \cup opened : m.build \in 0 .. build
  /\ builder \in {"idle", "tiles"}
  /\ build \in 0 .. Len(dataset.builds) /\ crashes \in 0 .. build
  /\ DOMAIN items = DOMAIN region
  /\ \A p \in Nodes : p \in Seq(1 .. 4) /\ Len(p) <= MaxDepth

(***************************************************************************)
(* docs/tile_format.md: a truncated file is refused, although "the         *)
(* stream's fail state" is looked at "once at the end of the read, not     *)
(* after every field".  What loadTile() accepts is a tile exactly as       *)
(* saveTile() was given it, whenever the builder died.                     *)
(***************************************************************************)
LoadedWasSaved ==
  \A id \in DOMAIN tiles : \A tile \in Range(Load(id).value) :
    tile \in dataset.saved \/ \E b \in 1 .. build : tile = TileToWrite(b, id)

(***************************************************************************)
(* The builder and the index compute ids and bounds on their own; they     *)
(* agree on every tile of a dataset that opens after the last builder run. *)
(***************************************************************************)
TilesMatchIndex ==
  builder = "idle" =>
    \A m \in opened : m.build = build /\ build > 0 =>
      \A id \in DOMAIN bounds : \A tile \in Range(Load(id).value) :
        tile.id = id /\ bounds[id] = Box(tile.bounds[1], tile.bounds[2],
                                         tile.bounds[3], tile.bounds[4])

(***************************************************************************)
(* What LODManager.h requires of geometricErrors because "this is how      *)
(* TileLOD data is generated", what render() and the renderers assume of   *)
(* materials and indices, and ProceduralCity.h: "each LOD keeps half as    *)
(* many buildings as the last".  So it is in every generated tile that     *)
(* loads, after whatever crashes and rebuilds.                             *)
(***************************************************************************)
Buildings(lod) == IF Len(lod.meshes) = 1 THEN 0 ELSE Len(lod.meshes[2].vertices)

Drawable(tile) ==
  /\ tile.lods # <<>>
  /\ \A l \in DOMAIN tile.lods : \A mesh \in ToSet(tile.lods[l].meshes) :
       /\ mesh.materialIndex < Len(tile.materials)
       /\ \A i \in ToSet(mesh.indices) : i < Len(mesh.vertices)
  /\ \A l \in 1 .. Len(tile.lods) - 1 :
       /\ tile.lods[l].error <= tile.lods[l + 1].error
       /\ Buildings(tile.lods[l + 1]) = (Buildings(tile.lods[l]) + 1) \div 2

TilesAreDrawable ==
  \A id \in DOMAIN tiles : \A tile \in Range(Load(id).value) \ dataset.saved :
    Drawable(tile)

(***************************************************************************)
(* The manifest comes last and the builder's ids are those of the index: a *)
(* dataset that opens has a loadable file for every tile it indexes, but   *)
(* for one per run that was killed over it.                                *)
(***************************************************************************)
CrashCostsOneTile ==
  builder = "idle" /\ (\A m \in opened : m.build > 0) =>
    Cardinality({id \in DOMAIN bounds : Load(id).error # ""}) <= crashes

(***************************************************************************)
(* TileIndex answers as if it compared all the tiles: from inside the      *)
(* world for a radius query, whichever manifest was accepted; for any      *)
(* query if the tiles are all inside the world, as they are unless the     *)
(* tolerance on worldSize / tileSize was used.                             *)
(***************************************************************************)
InWorld(query) ==
  /\ query.kind = "radius"
  /\ Inside(Box(query.x, query.z, query.x, query.z), region[<<>>])

QueriesFind ==
  Settled => \A query \in Queries : AllInside \/ InWorld(query) => Finds(query)
=============================================================================
