----------------------------- MODULE TileFormat -----------------------------
(***************************************************************************)
(* sdk/src/data/TileSerializer.cpp over BinaryIO.h: what saveTile() writes *)
(* and what loadTile() makes of a file, whole or cut short.                *)
(*                                                                         *)
(* A file is a sequence of fields.  Counts, magic and version are numbers, *)
(* a run of reads that decides nothing (a vertex, a material) is           *)
(* one field.  The last field of a file may be torn: some of its bytes are *)
(* there, which is as good as a small number.                              *)
(***************************************************************************)
EXTENDS Integers, Sequences, SequencesExt

CONSTANTS
  Version,         \* kTileFormatVersion
  MaxArrayCount    \* kMaxArrayCount

Magic == 90

ASSUME FormatAssumption == Version \in Nat \ {0} /\ MaxArrayCount \in Nat

\* What a missing field is read as.
Zero == 0

\* Tile.h: what a tile is made of.
TileIds == [1 .. 3 -> Int]
Meshes == [materialIndex : Int, vertices : Seq(Int), indices : Seq(Int)]
LODs == [error : Int, meshes : Seq(Meshes)]

\* A tile has a parent or none; its metadata are keys and values in turn.
Tiles ==
  [id : TileIds, parent : {s \in Seq(TileIds) : Len(s) <= 1}, children : Seq(TileIds),
   bounds : [1 .. 4 -> Int], lods : Seq(LODs), materials : Seq(Int),
   metadata : {s \in Seq(Int) : Len(s) % 2 = 0}]

WithCount(s) == <<Len(s)>> \o FlattenSeq(s)

WriteMesh(m) ==
  <<m.materialIndex, Len(m.vertices), Len(m.indices)>> \o m.vertices \o m.indices

WriteLOD(l) ==
  <<l.error, Len(l.meshes)>> \o FlattenSeq([i \in DOMAIN l.meshes |-> WriteMesh(l.meshes[i])])

\* saveTile().  Bounds are <<minX, minZ, maxX, maxZ>>.
WriteTile(tile) ==
  <<Magic, Version>> \o tile.id
  \o WithCount(tile.parent) \o WithCount(tile.children) \o tile.bounds \o <<Len(tile.lods)>>
  \o FlattenSeq([l \in DOMAIN tile.lods |-> WriteLOD(tile.lods[l])])
  \o <<Len(tile.materials)>> \o tile.materials
  \o <<Len(tile.metadata) \div 2>> \o tile.metadata
-----------------------------------------------------------------------------
\* BinaryReader: a reader has the fields left, the torn one (a sequence of at
\* most one number), what was read last, and whether the stream is still good.
Open(fields, torn) ==
  [left |-> fields, torn |-> torn, value |-> Zero, good |-> TRUE, corrupted |-> FALSE]

ReadField(r) ==
  IF r.left # <<>>
  THEN [r EXCEPT !.value = Head(r.left), !.left = Tail(r.left)]
  ELSE [r EXCEPT !.value = IF r.torn # <<>> /\ r.good THEN Head(r.torn) ELSE Zero,
                 !.good = FALSE]

ReadCount(r) ==
  LET s == ReadField(r) IN
    IF s.value > MaxArrayCount
      THEN [s EXCEPT !.value = 0, !.corrupted = TRUE] ELSE s

\* Mutant: a stream that ran dry is as good as another.
OkUnlessCorrupted(r) == ~r.corrupted

Ok(r) == r.good /\ ~r.corrupted

\* Reads n things one after the other, into a sequence.
ReadMany(Read(_), n, r) ==
  FoldLeft(LAMBDA s, i : LET next == Read(s) IN
                           [next EXCEPT !.value = Append(s.value, next.value)],
           [r EXCEPT !.value = <<>>], [i \in 1 .. n |-> i])

ReadCounted(Read(_), r) == LET n == ReadCount(r) IN ReadMany(Read, n.value, n)

ReadTileId(r) == ReadMany(ReadField, 3, r)

ReadMesh(r) ==
  LET material == ReadField(r)
      vertexCount == ReadCount(material)
      indexCount == ReadCount(vertexCount)
      vertices == ReadMany(ReadField, vertexCount.value, indexCount)
      indices == ReadMany(ReadField, indexCount.value, vertices)
  IN [indices EXCEPT !.value =
        [materialIndex |-> material.value, vertices |-> vertices.value,
         indices |-> indices.value]]

ReadLOD(r) ==
  LET error == ReadField(r)
      meshes == ReadCounted(ReadMesh, error)
  IN [meshes EXCEPT !.value = [error |-> error.value, meshes |-> meshes.value]]

\* The body of loadTile() after the version check.
ReadTile(r) ==
  LET id == ReadTileId(r)
      hasParent == ReadField(id)
      parent == ReadMany(ReadTileId, IF hasParent.value = 0 THEN 0 ELSE 1, hasParent)
      children == ReadCounted(ReadTileId, parent)
      bounds == ReadMany(ReadField, 4, children)
      lods == ReadCounted(ReadLOD, bounds)
      materials == ReadCounted(ReadField, lods)
      metadataCount == ReadCount(materials)
      metadata == ReadMany(ReadField, 2 * metadataCount.value, metadataCount)
  IN [metadata EXCEPT !.value =
        [id |-> id.value, parent |-> parent.value, children |-> children.value,
         bounds |-> bounds.value, lods |-> lods.value,
         materials |-> materials.value, metadata |-> metadata.value]]

\* A tile, or an error code.
Expected(tile) == [error |-> "", value |-> <<tile>>]
Error(code) == [error |-> code, value |-> <<>>]

\* loadTile() of an open file.
LoadTile(fields, torn) ==
  LET magic == ReadField(Open(fields, torn))
      version == ReadField(magic)
      tile == ReadTile(version)
  IN CASE ~Ok(magic) \/ magic.value # Magic -> Error("CorruptTile")
       [] version.value \notin 1 .. Version -> Error("UnsupportedVersion")
       [] ~Ok(tile) -> Error("CorruptTile")
       [] OTHER -> Expected(tile.value)
=============================================================================
