--------------------------- MODULE ProceduralCity ---------------------------
(***************************************************************************)
(* tools/TileBuilder/src/ProceduralCity.cpp: the levels of detail of a     *)
(* generated tile.  A shape (the ground, a building) stands for all its    *)
(* vertices: what the n-th shape of a mesh adds are vertices from the n-th *)
(* base on, and indices to them.                                           *)
(***************************************************************************)
EXTENDS Integers, Sequences, SequencesExt

\* How often lods may be shifted into a uint32_t: for more the code is undefined.
ShiftWidth == 32

Ground == 0
GroundMaterial == 0
BuildingMaterial == 1

\* Mutant: the base is taken after the vertices were added.
AppendThenBase(mesh, shape) ==
  LET vertices == Append(mesh.vertices, shape) IN
    [mesh EXCEPT !.vertices = vertices, !.indices = Append(@, Len(vertices))]

\* appendBox(), appendGroundQuad()
AppendShape(mesh, shape) ==
  [mesh EXCEPT !.vertices = Append(@, shape),
               !.indices = Append(@, Len(mesh.vertices))]

MeshOf(material, shapes) ==
  FoldLeft(AppendShape,
           [materialIndex |-> material, vertices |-> <<>>, indices |-> <<>>],
           shapes)

\* Every stride-th of the buildings 1 .. n, from the first on.
Kept(n, stride) == [k \in 1 .. (n + stride - 1) \div stride |-> 1 + (k - 1) * stride]

\* 1u << n
Shifted[n \in 0 .. ShiftWidth - 1] == IF n = 0 THEN 1 ELSE 2 * Shifted[n - 1]

GeometricError(size, lod) ==
  IF lod = 0 THEN 0 ELSE (size * Shifted[lod - 1]) \div 20

GeneratedLOD(size, side, lod) ==
  LET buildings == MeshOf(BuildingMaterial, Kept(side * side, Shifted[lod])) IN
    [error |-> GeometricError(size, lod),
     meshes |-> <<MeshOf(GroundMaterial, <<Ground>>)>>
                \o IF buildings.indices = <<>> THEN <<>> ELSE <<buildings>>]

\* generateProceduralTile(), of a square tile given by its corners.
GenerateTile(id, bounds, side, maxLOD) ==
  [id |-> id, parent |-> <<>>, children |-> <<>>, bounds |-> bounds,
   lods |-> [n \in 1 .. maxLOD + 1 |->
               GeneratedLOD(bounds[3] - bounds[1], side, n - 1)],
   materials |-> <<GroundMaterial, BuildingMaterial>>, metadata |-> <<>>]
=============================================================================
