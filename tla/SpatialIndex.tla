---------------------------- MODULE SpatialIndex ----------------------------
(***************************************************************************)
(* sdk/include/spatial/core/SpatialIndex.h: the quadtree that finds tiles  *)
(* by position.  Coordinates are integers; Y is left out, since it passes  *)
(* through every node unchanged.                                           *)
(***************************************************************************)
EXTENDS Integers, Sequences, FiniteSets, FiniteSetsExt, Functions

CONSTANTS MaxItemsPerNode, MaxDepth

ASSUME IndexAssumption == MaxItemsPerNode \in Nat /\ MaxDepth \in Nat

\* A node is known by its path, the child indices (from 1) taken from the root.
VARIABLES
  region,   \* the region of each node
  items     \* the [value, bounds] each node holds itself

indexVars == <<region, items>>

Box(minX, minZ, maxX, maxZ) ==
  [minX |-> minX, minZ |-> minZ, maxX |-> maxX, maxZ |-> maxZ]

Boxes == [minX : Int, minZ : Int, maxX : Int, maxZ : Int]

Inside(a, b) ==
  /\ a.minX >= b.minX /\ a.maxX <= b.maxX
  /\ a.minZ >= b.minZ /\ a.maxZ <= b.maxZ

NewIndex(worldBounds) ==
  /\ region' = [p \in {<<>>} |-> worldBounds]
  /\ items' = [p \in {<<>>} |-> {}]
-----------------------------------------------------------------------------
Nodes == DOMAIN region
IsLeaf(p) == Append(p, 1) \notin Nodes

CenterX(r) == (r.minX + r.maxX) \div 2
CenterZ(r) == (r.minZ + r.maxZ) \div 2

Quadrants(r) ==
  <<Box(r.minX, r.minZ, CenterX(r), CenterZ(r)),
    Box(CenterX(r), r.minZ, r.maxX, CenterZ(r)),
    Box(r.minX, CenterZ(r), CenterX(r), r.maxZ),
    Box(CenterX(r), CenterZ(r), r.maxX, r.maxZ)>>

\* Mutant: a side that reaches over the centre counts as its own.
ChildForCorner(r, bounds) ==
  {1 + (IF bounds.minX < CenterX(r) THEN 0 ELSE 1)
     + (IF bounds.minZ < CenterZ(r) THEN 0 ELSE 2)}

\* childIndexFor(): the children on whose side of the centre the bounds are.
ChildrenFor(r, bounds) ==
  LET minusX == bounds.maxX <= CenterX(r)
      plusX == bounds.minX >= CenterX(r)
      minusZ == bounds.maxZ <= CenterZ(r)
      plusZ == bounds.minZ >= CenterZ(r)
  IN {i \in 1 .. 4 : \/ i = 1 /\ minusX /\ minusZ
                     \/ i = 2 /\ plusX /\ minusZ
                     \/ i = 3 /\ minusX /\ plusZ
                     \/ i = 4 /\ plusX /\ plusZ}

\* The first of them: the child is i.
GoesTo(r, bounds, i) ==
  ChildrenFor(r, bounds) # {} /\ i = Min(ChildrenFor(r, bounds))

\* insertAt(): the path of recursive calls ends at node p.
EndsAt(p, bounds) ==
  /\ \A i \in DOMAIN p : GoesTo(region[SubSeq(p, 1, i - 1)], bounds, p[i])
  /\ IsLeaf(p) \/ ChildrenFor(region[p], bounds) = {}

Overfull(p) ==
  IsLeaf(p) /\ Cardinality(items[p]) > MaxItemsPerNode /\ Len(p) < MaxDepth

Settled == \A p \in Nodes : ~Overfull(p)

Insert(value, bounds) ==
  /\ Settled
  /\ \E p \in Nodes :
       /\ EndsAt(p, bounds)
       /\ items' = [items EXCEPT ![p] =
                      @ \cup {[value |-> value, bounds |-> bounds]}]
  /\ UNCHANGED region

\* subdivide(): the rest of insertAt(), for the node and then for the children
\* that it overfills.
Subdivide(p) ==
  /\ Overfull(p)
  /\ LET child(i) == {e \in items[p] : GoesTo(region[p], e.bounds, i)}
         children == {Append(p, i) : i \in 1 .. 4}
     IN /\ region' = [q \in Nodes \cup children |->
                        IF q \in Nodes THEN region[q]
                        ELSE Quadrants(region[p])[q[Len(q)]]]
        /\ items' = [q \in Nodes \cup children |->
                       IF q = p
                       THEN {e \in items[p] : ChildrenFor(region[p], e.bounds) = {}}
                       ELSE IF q \in Nodes THEN items[q] ELSE child(q[Len(q)])]
-----------------------------------------------------------------------------
(***************************************************************************)
(* A query is a disc, a box, or a frustum given by planes that face in.    *)
(***************************************************************************)
Discs == [kind : {"radius"}, x : Int, z : Int, radius : Int]
Areas == [kind : {"box"}, box : Boxes]
Frusta == [kind : {"frustum"}, planes : SUBSET [x : Int, z : Int, d : Int]]

Gap(v, low, high) == IF v < low THEN low - v ELSE IF v > high THEN v - high ELSE 0

DistanceSquared(b, x, z) ==
  LET dx == Gap(x, b.minX, b.maxX)
      dz == Gap(z, b.minZ, b.maxZ)
  IN dx * dx + dz * dz

PositiveVertex(b, plane) ==
  [x |-> IF plane.x >= 0 THEN b.maxX ELSE b.minX,
   z |-> IF plane.z >= 0 THEN b.maxZ ELSE b.minZ]

SignedDistance(plane, v) == plane.x * v.x + plane.z * v.z + plane.d

Hits(query, b) ==
  CASE query.kind = "radius" ->
         DistanceSquared(b, query.x, query.z) <= query.radius * query.radius
    [] query.kind = "box" ->
         /\ b.minX <= query.box.maxX /\ b.maxX >= query.box.minX
         /\ b.minZ <= query.box.maxZ /\ b.maxZ >= query.box.minZ
    [] query.kind = "frustum" ->
         \A plane \in query.planes : SignedDistance(plane, PositiveVertex(b, plane)) >= 0

\* The items of the nodes that are reached: all nodes on the way are hit.
Visited(query) ==
  {p \in Nodes : \A i \in 0 .. Len(p) : Hits(query, region[SubSeq(p, 1, i)])}

Query(query) ==
  UNION {{e.value : e \in {f \in items[p] : Hits(query, f.bounds)}} :
           p \in Visited(query)}
-----------------------------------------------------------------------------
Contents == UNION {items[p] : p \in Nodes}

(***************************************************************************)
(* SpatialIndex.h: what is inside the world stays inside the region of its *)
(* node; "this is what makes query pruning by node region correct".  Such  *)
(* a query returns all it should and nothing else, whatever subdivisions   *)
(* came between the insertions.                                            *)
(***************************************************************************)
Finds(query) == Query(query) = {e.value : e \in {f \in Contents : Hits(query, f.bounds)}}

AllInside == \A e \in Contents : Inside(e.bounds, region[<<>>])
=============================================================================
