---------------------------- MODULE CityGeometry ----------------------------
(***************************************************************************)
(* The vertices and triangles of tools/TileBuilder/src/ProceduralCity.cpp  *)
(* (ProceduralCity has its levels of detail), and which way they face.  A  *)
(* vertex is a position and a normal, an index counts from 0.              *)
(***************************************************************************)
EXTENDS EngineSpace

EmptyMesh == [vertices |-> <<>>, indices |-> <<>>]

Vertex(position, normal) == [position |-> position, normal |-> normal]

\* Two triangles over the four corners of a face.
QuadIndices(base) == <<base, base + 1, base + 2, base, base + 2, base + 3>>

\* appendBox()'s faces of a box about the origin that reaches out to e.
Faces(e) ==
  LET C(x, y, z) == <<x * e[1], y * e[2], z * e[3]>> IN
    <<[normal |-> <<0, 0, 1>>,
       corners |-> <<C(-1, -1, 1), C(1, -1, 1), C(1, 1, 1), C(-1, 1, 1)>>],
      [normal |-> <<0, 0, -1>>,
       corners |-> <<C(1, -1, -1), C(-1, -1, -1), C(-1, 1, -1), C(1, 1, -1)>>],
      [normal |-> <<1, 0, 0>>,
       corners |-> <<C(1, -1, 1), C(1, -1, -1), C(1, 1, -1), C(1, 1, 1)>>],
      [normal |-> <<-1, 0, 0>>,
       corners |-> <<C(-1, -1, -1), C(-1, -1, 1), C(-1, 1, 1), C(-1, 1, -1)>>],
      [normal |-> <<0, 1, 0>>,
       corners |-> <<C(-1, 1, 1), C(1, 1, 1), C(1, 1, -1), C(-1, 1, -1)>>],
      [normal |-> <<0, -1, 0>>,
       corners |-> <<C(-1, -1, -1), C(1, -1, -1), C(1, -1, 1), C(-1, -1, 1)>>]>>

Plus(v, w) == [i \in Axes |-> v[i] + w[i]]

AppendBox(mesh, center, halfExtents) ==
  LET base == Len(mesh.vertices)
      FaceVertex(face, c) == Vertex(Plus(center, face.corners[c]), face.normal)
  IN [vertices |-> mesh.vertices \o
        [n \in 1 .. 24 |->
           FaceVertex(Faces(halfExtents)[((n - 1) \div 4) + 1], ((n - 1) % 4) + 1)],
      indices |-> mesh.indices \o
        [n \in 1 .. 36 |->
           QuadIndices(base + 4 * ((n - 1) \div 6))[((n - 1) % 6) + 1]]]

AppendGroundQuad(mesh, box) ==
  LET Corner(x, z) == Vertex(<<x, box.min[2], z>>, <<0, 1, 0>>) IN
    [vertices |-> mesh.vertices \o
       <<Corner(box.min[1], box.min[3]), Corner(box.max[1], box.min[3]),
         Corner(box.max[1], box.max[3]), Corner(box.min[1], box.max[3])>>,
     indices |-> mesh.indices \o QuadIndices(Len(mesh.vertices))]

\* The meshes of generateProceduralTile() for LOD 0 with one building, which
\* fills half of the tile on either axis and all of its height.
GeneratedMeshes(box) ==
  LET half == [i \in Axes |-> (box.max[i] - box.min[i]) \div 2]
      center == Plus(box.min, half)
  IN <<AppendGroundQuad(EmptyMesh, box),
       AppendBox(EmptyMesh, center, <<half[1] \div 2, half[2], half[3] \div 2>>)>>
-----------------------------------------------------------------------------
Corners(mesh, n) == [k \in 1 .. 3 |-> mesh.vertices[mesh.indices[3 * n - 3 + k] + 1]]

Triangles(mesh) == 1 .. Len(mesh.indices) \div 3

\* Positive for a triangle that runs counter-clockwise as seen from where the
\* normal of its first corner points, in right-handed coordinates; clockwise in
\* left-handed ones.
Facing(mesh, n) ==
  LET c == Corners(mesh, n)
      a == c[1].position
  IN Dot(Cross(Minus(c[2].position, a), Minus(c[3].position, a)), c[1].normal)
=============================================================================
