--------------------------- MODULE Dataset_proofs ---------------------------
(***************************************************************************)
(* Of every dataset, however built, killed and built again.                *)
(*                                                                         *)
(* The index (DatasetInv).  A query that does not visit a node misses the  *)
(* items in it.  This is right if the region of every node above an item   *)
(* contains the item, or at least does on the sides on which the region    *)
(* does not reach to the edge of the world (LiesIn): a tile may stick out  *)
(* of the world when the tolerance on worldSize / tileSize was used.       *)
(*                                                                         *)
(* The files (FilesInv).  What a file loads as is known from what was      *)
(* written to it, though a crash may have cut it short; what was written   *)
(* is known from the options of the runs; and what a manifest promises     *)
(* was there when it was written, but for one tile per crash since.        *)
(*                                                                         *)
(* In four parts: the index; the tile format; the generated city; the      *)
(* files, with the theorems about them.                                    *)
(***************************************************************************)
EXTENDS Dataset, Recursion

\* The bounds b do not reach out of the region r of a node but where r reaches
\* to the edge of the world w.
LiesIn(b, r, w) ==
  /\ b.minX >= r.minX \/ r.minX = w.minX
  /\ b.maxX <= r.maxX \/ r.maxX = w.maxX
  /\ b.minZ >= r.minZ \/ r.minZ = w.minZ
  /\ b.maxZ <= r.maxZ \/ r.maxZ = w.maxZ

Ordered(b) == b \in Boxes /\ b.minX <= b.maxX /\ b.minZ <= b.maxZ

\* The node on the way to p that is k levels below the root.
Above(p, k) == SubSeq(p, 1, k)

TreeTyped ==
  /\ Nodes \subseteq Seq(1 .. 4) /\ <<>> \in Nodes
  /\ region \in [Nodes -> Boxes]
  /\ DOMAIN items = Nodes
  /\ \A p \in Nodes : \A e \in items[p] : Ordered(e.bounds)

\* Every node was made by dividing the one above it.
NodesAreQuadrants ==
  \A p \in Nodes : \A k \in 1 .. Len(p) :
    /\ Above(p, k - 1) \in Nodes
    /\ region[Above(p, k)] = Quadrants(region[Above(p, k - 1)])[p[k]]

ItemsLieInside ==
  \A p \in Nodes : \A e \in items[p] : \A k \in 0 .. Len(p) :
    LiesIn(e.bounds, region[Above(p, k)], region[<<>>])

IndexInv == TreeTyped /\ NodesAreQuadrants /\ ItemsLieInside
-----------------------------------------------------------------------------
\* The nodes above a node, and above a new child of it.
LEMMA Paths ==
  ASSUME NEW p \in Seq(1 .. 4)
  PROVE  /\ \A k \in 0 .. Len(p) : Above(p, k) \in Seq(1 .. 4) /\ Len(Above(p, k)) = k
         /\ Above(p, 0) = <<>> /\ Above(p, Len(p)) = p
         /\ \A i \in 1 .. 4 :
              /\ Append(p, i) \in Seq(1 .. 4) /\ Len(Append(p, i)) = Len(p) + 1
              /\ Append(p, i)[Len(p) + 1] = i
              /\ \A k \in 1 .. Len(p) : Append(p, i)[k] = p[k]
              /\ \A k \in 0 .. Len(p) : Above(Append(p, i), k) = Above(p, k)
              /\ Above(Append(p, i), Len(p) + 1) = Append(p, i)
<1>1. \A k \in 0 .. Len(p) : Above(p, k) \in Seq(1 .. 4) /\ Len(Above(p, k)) = k
  BY DEF Above
<1>2. Above(p, 0) = <<>> /\ Above(p, Len(p)) = p
  BY DEF Above
<1>3. ASSUME NEW i \in 1 .. 4
      PROVE  /\ Append(p, i) \in Seq(1 .. 4) /\ Len(Append(p, i)) = Len(p) + 1
             /\ Append(p, i)[Len(p) + 1] = i
             /\ \A k \in 1 .. Len(p) : Append(p, i)[k] = p[k]
  OBVIOUS
<1>4. ASSUME NEW i \in 1 .. 4, NEW k \in 0 .. Len(p)
      PROVE  Above(Append(p, i), k) = Above(p, k)
  BY <1>3 DEF Above
<1>5. ASSUME NEW i \in 1 .. 4 PROVE Above(Append(p, i), Len(p) + 1) = Append(p, i)
  BY <1>3 DEF Above
<1> QED BY <1>1, <1>2, <1>3, <1>4, <1>5

\* A quadrant is a box, and what lies in a node lies in the child it goes to.
LEMMA QuadrantsAreBoxes ==
  ASSUME NEW r \in Boxes, NEW i \in 1 .. 4
  PROVE  Quadrants(r)[i] \in Boxes
<1>1. CenterX(r) \in Int /\ CenterZ(r) \in Int
  BY DEF CenterX, CenterZ, Boxes
<1> QED BY <1>1 DEF Quadrants, Box, Boxes

LEMMA ChildLiesIn ==
  ASSUME NEW r \in Boxes, NEW b \in Boxes, NEW w \in Boxes,
         LiesIn(b, r, w), NEW i \in 1 .. 4, GoesTo(r, b, i)
  PROVE  LiesIn(b, Quadrants(r)[i], w)
<1>1. PICK x \in Int : x = CenterX(r)
  BY DEF CenterX, Boxes
<1>2. PICK z \in Int : z = CenterZ(r)
  BY DEF CenterZ, Boxes
<1>3. i \in ChildrenFor(r, b)
  <2>1. ChildrenFor(r, b) \subseteq Nat /\ ChildrenFor(r, b) # {}
    BY DEF GoesTo, ChildrenFor
  <2> QED BY <2>1, MinIsSmallest DEF GoesTo
<1>4. \/ i = 1 /\ b.maxX <= x /\ b.maxZ <= z
      \/ i = 2 /\ b.minX >= x /\ b.maxZ <= z
      \/ i = 3 /\ b.maxX <= x /\ b.minZ >= z
      \/ i = 4 /\ b.minX >= x /\ b.minZ >= z
  BY <1>1, <1>2, <1>3 DEF ChildrenFor
<1> QED BY <1>1, <1>2, <1>4 DEF Quadrants, Box, LiesIn
-----------------------------------------------------------------------------
\* All nodes above a node are there.
LEMMA NodesAbove ==
  ASSUME TreeTyped, NodesAreQuadrants, NEW p \in Nodes, NEW k \in 0 .. Len(p)
  PROVE  Above(p, k) \in Nodes
<1>1. p \in Seq(1 .. 4)
  BY DEF TreeTyped
<1>2. CASE k = Len(p)
  BY <1>1, <1>2, Paths
<1>3. CASE k # Len(p)
  <2>1. k + 1 \in 1 .. Len(p) /\ (k + 1) - 1 = k
    BY <1>1, <1>3
  <2> QED BY <2>1 DEF NodesAreQuadrants
<1> QED BY <1>2, <1>3

\* insertAt(): every region on the way down contains the bounds.
LEMMA DescentLiesIn ==
  ASSUME IndexInv, NEW p \in Nodes, NEW b \in Boxes, EndsAt(p, b)
  PROVE  \A k \in 0 .. Len(p) : LiesIn(b, region[Above(p, k)], region[<<>>])
<1> DEFINE Missed == {k \in 0 .. Len(p) : ~LiesIn(b, region[Above(p, k)], region[<<>>])}
<1> USE DEF IndexInv, TreeTyped
<1> SUFFICES ASSUME Missed # {} PROVE FALSE
  OBVIOUS
<1>1. p \in Seq(1 .. 4)
  OBVIOUS
<1>2. PICK k \in Missed : \A l \in Missed : k <= l
  <2>1. Missed \subseteq Nat
    BY <1>1
  <2> HIDE DEF Missed
  <2> QED BY <2>1, SmallestNumber
<1>3. LiesIn(b, region[Above(p, 0)], region[<<>>])
  BY <1>1, Paths DEF LiesIn
<1>4. k \in 1 .. Len(p)
  BY <1>1, <1>2, <1>3
<1>5. k - 1 \in 0 .. Len(p) /\ k - 1 \notin Missed
  BY <1>1, <1>2, <1>4
<1>6. LiesIn(b, region[Above(p, k - 1)], region[<<>>])
  BY <1>5
<1>7. /\ Above(p, k - 1) \in Nodes
      /\ region[Above(p, k)] = Quadrants(region[Above(p, k - 1)])[p[k]]
  BY <1>4 DEF NodesAreQuadrants
<1>8. GoesTo(region[Above(p, k - 1)], b, p[k])
  BY <1>1, <1>4 DEF EndsAt, Above
<1>9. p[k] \in 1 .. 4
  BY <1>1, <1>4
<1>10. LiesIn(b, region[Above(p, k)], region[<<>>])
  <2>1. region[Above(p, k - 1)] \in Boxes /\ region[<<>>] \in Boxes
    BY <1>7
  <2> QED BY <2>1, <1>6, <1>7, <1>8, <1>9, ChildLiesIn
<1> QED BY <1>2, <1>10

LEMMA InsertKeepsIndex ==
  ASSUME IndexInv, NEW value, NEW b, Ordered(b), Insert(value, b)
  PROVE  IndexInv'
<1>1. PICK p \in Nodes :
        /\ EndsAt(p, b)
        /\ items' = [items EXCEPT ![p] = @ \cup {[value |-> value, bounds |-> b]}]
  BY DEF Insert
<1>2. region' = region /\ Nodes' = Nodes
  BY DEF Insert, Nodes
<1>3. \A q \in Nodes : \A e \in items'[q] :
        \/ e \in items[q]
        \/ q = p /\ e.bounds = b
  BY <1>1 DEF IndexInv, TreeTyped
<1>4. TreeTyped'
  <2>1. DOMAIN items' = Nodes'
    BY <1>1, <1>2 DEF IndexInv, TreeTyped
  <2> QED BY <1>2, <1>3, <2>1 DEF IndexInv, TreeTyped
<1>5. NodesAreQuadrants'
  BY <1>2 DEF IndexInv, NodesAreQuadrants
<1>6. ItemsLieInside'
  <2>1. \A k \in 0 .. Len(p) : LiesIn(b, region[Above(p, k)], region[<<>>])
    BY <1>1, DescentLiesIn DEF Ordered
  <2> QED BY <1>2, <1>3, <2>1 DEF IndexInv, ItemsLieInside
<1> QED BY <1>4, <1>5, <1>6 DEF IndexInv

LEMMA SubdivideKeepsIndex ==
  ASSUME IndexInv, NEW p \in Nodes, Subdivide(p)
  PROVE  IndexInv'
<1> DEFINE child(i) == {e \in items[p] : GoesTo(region[p], e.bounds, i)}
           children == {Append(p, i) : i \in 1 .. 4}
<1>1. /\ region' = [q \in Nodes \cup children |->
                      IF q \in Nodes THEN region[q] ELSE Quadrants(region[p])[q[Len(q)]]]
      /\ items' = [q \in Nodes \cup children |->
                     IF q = p
                     THEN {e \in items[p] : ChildrenFor(region[p], e.bounds) = {}}
                     ELSE IF q \in Nodes THEN items[q] ELSE child(q[Len(q)])]
  BY DEF Subdivide
<1>2. Nodes' = Nodes \cup children
  BY <1>1 DEF Nodes
<1>3. p \in Seq(1 .. 4) /\ region[p] \in Boxes
  BY DEF IndexInv, TreeTyped
<1>4. \A q \in Nodes : region'[q] = region[q]
  BY <1>1
<1>5. ASSUME NEW q \in children, q \notin Nodes
      PROVE  \E i \in 1 .. 4 :
               /\ q = Append(p, i) /\ q \in Seq(1 .. 4) /\ Len(q) = Len(p) + 1 /\ q[Len(q)] = i
               /\ region'[q] = Quadrants(region[p])[i]
               /\ items'[q] = child(i)
  <2>1. PICK i \in 1 .. 4 : q = Append(p, i)
    OBVIOUS
  <2>2. q \in Seq(1 .. 4) /\ Len(q) = Len(p) + 1 /\ q[Len(q)] = i
    BY <1>3, <2>1, Paths
  <2> QED BY <1>1, <1>5, <2>1, <2>2
<1>6. \A q \in Nodes : items'[q] \subseteq items[q]
  BY <1>1
<1> HIDE DEF children
<1>7. TreeTyped'
  <2>1. Nodes' \subseteq Seq(1 .. 4) /\ <<>> \in Nodes'
    BY <1>2, <1>5 DEF IndexInv, TreeTyped
  <2>2. region' \in [Nodes' -> Boxes]
    <3>1. ASSUME NEW q \in Nodes' PROVE region'[q] \in Boxes
      BY <1>2, <1>3, <1>4, <1>5, QuadrantsAreBoxes DEF IndexInv, TreeTyped
    <3> QED BY <1>1, <1>2, <3>1
  <2>3. DOMAIN items' = Nodes'
    BY <1>1, <1>2
  <2>4. ASSUME NEW q \in Nodes', NEW e \in items'[q] PROVE Ordered(e.bounds)
    BY <1>2, <1>5, <1>6 DEF IndexInv, TreeTyped
  <2> QED BY <2>1, <2>2, <2>3, <2>4 DEF TreeTyped
<1>8. NodesAreQuadrants'
  <2> SUFFICES ASSUME NEW q \in Nodes', NEW k \in 1 .. Len(q)
               PROVE  /\ Above(q, k - 1) \in Nodes'
                      /\ region'[Above(q, k)] = Quadrants(region'[Above(q, k - 1)])[q[k]]
    BY DEF NodesAreQuadrants
  <2>1. CASE q \in Nodes
    <3>1. /\ Above(q, k - 1) \in Nodes
          /\ region[Above(q, k)] = Quadrants(region[Above(q, k - 1)])[q[k]]
      BY <2>1 DEF IndexInv, NodesAreQuadrants
    <3>2. Above(q, k) \in Nodes
      BY <2>1, NodesAbove DEF IndexInv
    <3> QED BY <1>2, <1>4, <3>1, <3>2
  <2>2. CASE q \notin Nodes
    <3>1. PICK i \in 1 .. 4 :
            /\ q = Append(p, i) /\ Len(q) = Len(p) + 1
            /\ region'[q] = Quadrants(region[p])[i]
      BY <1>2, <1>5, <2>2
    <3>2. CASE k = Len(q)
      <4>1. Above(q, k - 1) = p /\ Above(q, k) = q /\ q[k] = i
        BY <1>3, <3>1, <3>2, Paths
      <4> QED BY <1>2, <1>4, <3>1, <4>1
    <3>3. CASE k # Len(q)
      <4>1. k \in 1 .. Len(p) /\ k - 1 \in 0 .. Len(p) /\ k \in 0 .. Len(p)
        BY <1>3, <3>1, <3>3
      <4>2. Above(q, k) = Above(p, k) /\ Above(q, k - 1) = Above(p, k - 1) /\ q[k] = p[k]
        BY <1>3, <3>1, <4>1, Paths
      <4>3. /\ Above(p, k - 1) \in Nodes /\ Above(p, k) \in Nodes
            /\ region[Above(p, k)] = Quadrants(region[Above(p, k - 1)])[p[k]]
        BY <4>1, NodesAbove DEF IndexInv, NodesAreQuadrants
      <4> QED BY <1>2, <1>4, <4>2, <4>3
    <3> QED BY <3>2, <3>3
  <2> QED BY <2>1, <2>2
<1>9. ItemsLieInside'
  <2> SUFFICES ASSUME NEW q \in Nodes', NEW e \in items'[q], NEW k \in 0 .. Len(q)
               PROVE  LiesIn(e.bounds, region'[Above(q, k)], region'[<<>>])
    BY DEF ItemsLieInside
  <2>1. region'[<<>>] = region[<<>>]
    BY <1>4 DEF IndexInv, TreeTyped
  <2>2. CASE q \in Nodes
    <3>1. e \in items[q] /\ Above(q, k) \in Nodes
      BY <1>6, <2>2, NodesAbove DEF IndexInv
    <3> QED BY <1>4, <2>1, <2>2, <3>1 DEF IndexInv, ItemsLieInside
  <2>3. CASE q \notin Nodes
    <3>1. PICK i \in 1 .. 4 :
            /\ q = Append(p, i) /\ Len(q) = Len(p) + 1
            /\ region'[q] = Quadrants(region[p])[i]
            /\ items'[q] = child(i)
      BY <1>2, <1>5, <2>3
    <3>2. e \in items[p] /\ GoesTo(region[p], e.bounds, i) /\ e.bounds \in Boxes
      BY <3>1 DEF IndexInv, TreeTyped, Ordered
    <3>3. \A l \in 0 .. Len(p) :
            /\ Above(p, l) \in Nodes
            /\ LiesIn(e.bounds, region[Above(p, l)], region[<<>>])
      BY <3>2, NodesAbove DEF IndexInv, ItemsLieInside
    <3>4. CASE k = Len(q)
      <4>1. Above(p, Len(p)) = p /\ Above(q, k) = q /\ Len(p) \in 0 .. Len(p)
        <5>1. k = Len(p) + 1 /\ Len(p) \in Nat
          BY <1>3, <3>1, <3>4
        <5>2. Above(p, Len(p)) = p
          BY <1>3, Paths
        <5>3. Above(Append(p, i), Len(p) + 1) = Append(p, i)
          BY <1>3, Paths
        <5> QED BY <3>1, <5>1, <5>2, <5>3
      <4>2. region[<<>>] \in Boxes
        BY DEF IndexInv, TreeTyped
      <4>3. LiesIn(e.bounds, region[p], region[<<>>])
        BY <3>3, <4>1
      <4> QED BY <1>3, <2>1, <3>1, <3>2, <4>1, <4>2, <4>3, ChildLiesIn
    <3>5. CASE k # Len(q)
      <4>1. k \in 0 .. Len(p)
        BY <1>3, <3>1, <3>5
      <4>2. Above(q, k) = Above(p, k)
        BY <1>3, <3>1, <4>1, Paths
      <4> QED BY <1>4, <2>1, <3>3, <4>1, <4>2
    <3> QED BY <3>4, <3>5
  <2> QED BY <2>2, <2>3
<1> QED BY <1>7, <1>8, <1>9 DEF IndexInv
-----------------------------------------------------------------------------
(***************************************************************************)
(* A query that hits an item hits all nodes above it.                      *)
(***************************************************************************)
LEMMA Squares ==
  \A a, b \in Nat : a <= b => a * a <= b * b
<1> SUFFICES ASSUME NEW a \in Nat, NEW b \in Nat, a <= b PROVE a * a <= b * b
  OBVIOUS
<1>1. a * a <= a * b /\ a * b <= b * b
  OBVIOUS
<1>2. a * a \in Nat /\ a * b \in Nat /\ b * b \in Nat
  OBVIOUS
<1> QED BY <1>1, <1>2

\* From within the world, a region is no further away than what lies in it, on
\* each axis.
LEMMA GapGrows ==
  \A v, a, b, low, high, min, max \in Int :
    /\ min <= v /\ v <= max /\ a <= b
    /\ a >= low \/ low = min
    /\ b <= high \/ high = max
    => Gap(v, low, high) \in Nat /\ Gap(v, a, b) \in Nat /\ Gap(v, low, high) <= Gap(v, a, b)
BY DEF Gap

LEMMA NarrowGap ==
  \A v, a, b, low, high \in Int :
    a <= b /\ a >= low /\ b <= high => Gap(v, low, high) <= Gap(v, a, b)
BY DEF Gap

LEMMA NearerIsHit ==
  ASSUME NEW query \in Discs, NEW b, Ordered(b), NEW r \in Boxes, Hits(query, b),
         Gap(query.x, r.minX, r.maxX) <= Gap(query.x, b.minX, b.maxX),
         Gap(query.z, r.minZ, r.maxZ) <= Gap(query.z, b.minZ, b.maxZ)
  PROVE  Hits(query, r)
<1>1. /\ query.x \in Int /\ query.z \in Int /\ query.radius * query.radius \in Int
      /\ query.kind = "radius"
  BY DEF Discs
<1>2. PICK dx, ex, dz, ez \in Nat :
        /\ dx = Gap(query.x, r.minX, r.maxX) /\ ex = Gap(query.x, b.minX, b.maxX)
        /\ dz = Gap(query.z, r.minZ, r.maxZ) /\ ez = Gap(query.z, b.minZ, b.maxZ)
  <2>1. \A v, low, high \in Int : Gap(v, low, high) \in Nat
    BY DEF Gap
  <2>2. /\ r.minX \in Int /\ r.maxX \in Int /\ r.minZ \in Int /\ r.maxZ \in Int
        /\ b.minX \in Int /\ b.maxX \in Int /\ b.minZ \in Int /\ b.maxZ \in Int
    BY DEF Ordered, Boxes
  <2> QED BY <1>1, <2>1, <2>2
<1>3. DistanceSquared(r, query.x, query.z) = dx * dx + dz * dz
  BY <1>2 DEF DistanceSquared
<1>4. DistanceSquared(b, query.x, query.z) = ex * ex + ez * ez
  BY <1>2 DEF DistanceSquared
<1>5. ex * ex + ez * ez <= query.radius * query.radius
  BY <1>1, <1>4 DEF Hits
<1>6. dx * dx <= ex * ex /\ dz * dz <= ez * ez
  BY <1>2, Squares
<1>7. PICK d1, d2, e1, e2, s \in Int :
        /\ d1 = dx * dx /\ d2 = dz * dz /\ e1 = ex * ex /\ e2 = ez * ez
        /\ s = query.radius * query.radius
  BY <1>1, <1>2
<1>8. d1 + d2 <= s
  BY <1>5, <1>6, <1>7
<1> QED BY <1>1, <1>3, <1>7, <1>8 DEF Hits

LEMMA DiscHitsAbove ==
  ASSUME NEW query \in Discs, NEW b, Ordered(b), NEW r \in Boxes, NEW w \in Boxes,
         LiesIn(b, r, w), Hits(query, b),
         Inside(Box(query.x, query.z, query.x, query.z), w)
  PROVE  Hits(query, r)
<1>1. /\ query.x \in Int /\ w.minX <= query.x /\ query.x <= w.maxX
      /\ query.z \in Int /\ w.minZ <= query.z /\ query.z <= w.maxZ
  BY DEF Discs, Boxes, Inside, Box
<1>2. Gap(query.x, r.minX, r.maxX) <= Gap(query.x, b.minX, b.maxX)
  BY <1>1, GapGrows DEF Ordered, Boxes, LiesIn
<1>3. Gap(query.z, r.minZ, r.maxZ) <= Gap(query.z, b.minZ, b.maxZ)
  BY <1>1, GapGrows DEF Ordered, Boxes, LiesIn
<1> QED BY <1>2, <1>3, NearerIsHit

LEMMA AnyHitsAbove ==
  ASSUME NEW query \in Discs \cup Areas \cup Frusta, NEW b, Ordered(b), NEW r \in Boxes,
         Inside(b, r), Hits(query, b)
  PROVE  Hits(query, r)
<1>1. CASE query \in Discs
  <2>1. query.x \in Int /\ query.z \in Int
    BY <1>1 DEF Discs
  <2>2. Gap(query.x, r.minX, r.maxX) <= Gap(query.x, b.minX, b.maxX)
    BY <2>1, NarrowGap DEF Ordered, Boxes, Inside
  <2>3. Gap(query.z, r.minZ, r.maxZ) <= Gap(query.z, b.minZ, b.maxZ)
    BY <2>1, NarrowGap DEF Ordered, Boxes, Inside
  <2> QED BY <1>1, <2>2, <2>3, NearerIsHit
<1>2. CASE query \in Areas
  <2>1. query.kind = "box" /\ query.box \in Boxes
    BY <1>2 DEF Areas
  <2> QED BY <2>1 DEF Hits, Inside, Ordered, Boxes
<1>3. CASE query \in Frusta
  <2>1. query.kind = "frustum" /\ query.planes \subseteq [x : Int, z : Int, d : Int]
    BY <1>3 DEF Frusta
  <2>2. ASSUME NEW plane \in query.planes
        PROVE  SignedDistance(plane, PositiveVertex(r, plane)) >= 0
    <3>1. SignedDistance(plane, PositiveVertex(b, plane)) >= 0
      BY <2>1 DEF Hits
    <3>2. \A k, v, u \in Int : (k >= 0 => v <= u) /\ (k < 0 => u <= v) => k * v <= k * u
      OBVIOUS
    <3>3. PICK k, l, d \in Int : k = plane.x /\ l = plane.z /\ d = plane.d
      BY <2>1
    <3>4. PICK x, u \in Int :
            /\ x = PositiveVertex(b, plane).x /\ u = PositiveVertex(r, plane).x
            /\ (k >= 0 => x <= u) /\ (k < 0 => u <= x)
      BY <3>3 DEF PositiveVertex, Ordered, Boxes, Inside
    <3>5. PICK z, v \in Int :
            /\ z = PositiveVertex(b, plane).z /\ v = PositiveVertex(r, plane).z
            /\ (l >= 0 => z <= v) /\ (l < 0 => v <= z)
      BY <3>3 DEF PositiveVertex, Ordered, Boxes, Inside
    <3>6. k * x <= k * u /\ l * z <= l * v
      BY <3>2, <3>4, <3>5
    <3>7. PICK p1, p2, q1, q2 \in Int : p1 = k * x /\ p2 = l * z /\ q1 = k * u /\ q2 = l * v
      BY <3>3, <3>4, <3>5
    <3>8. p1 + p2 + d >= 0
      BY <3>1, <3>3, <3>4, <3>5, <3>7 DEF SignedDistance
    <3>9. q1 + q2 + d >= 0
      BY <3>3, <3>6, <3>7, <3>8
    <3> QED BY <3>3, <3>4, <3>5, <3>7, <3>9 DEF SignedDistance
  <2> QED BY <2>1, <2>2 DEF Hits
<1> QED BY <1>1, <1>2, <1>3

LEMMA QueryFinds ==
  ASSUME IndexInv, NEW query \in Queries, AllInside \/ InWorld(query)
  PROVE  Finds(query)
<1>1. query \in Discs \cup Areas \cup Frusta
  BY DatasetAssumption
<1>2. ASSUME NEW p \in Nodes, NEW e \in items[p], Hits(query, e.bounds)
      PROVE  p \in Visited(query)
  <2> SUFFICES ASSUME NEW k \in 0 .. Len(p) PROVE Hits(query, region[Above(p, k)])
    BY DEF Visited, Above
  <2>1. LiesIn(e.bounds, region[Above(p, k)], region[<<>>])
    BY DEF IndexInv, ItemsLieInside
  <2>2. Ordered(e.bounds) /\ region[Above(p, k)] \in Boxes /\ region[<<>>] \in Boxes
    <3>1. Above(p, k) \in Nodes
      BY NodesAbove DEF IndexInv
    <3> QED BY <3>1 DEF IndexInv, TreeTyped
  <2>3. CASE AllInside
    <3>1. Inside(e.bounds, region[<<>>])
      BY <2>3 DEF AllInside, Contents
    <3>2. Inside(e.bounds, region[Above(p, k)])
      BY <2>1, <2>2, <3>1 DEF Inside, LiesIn, Ordered, Boxes
    <3> QED BY <1>1, <1>2, <2>2, <3>2, AnyHitsAbove
  <2>4. CASE InWorld(query)
    <3>1. query \in Discs
      BY <1>1, <2>4 DEF InWorld, Discs, Areas, Frusta
    <3> QED BY <1>2, <2>1, <2>2, <2>4, <3>1, DiscHitsAbove DEF InWorld
  <2> QED BY <2>3, <2>4
<1>3. Query(query) \subseteq {e.value : e \in {f \in Contents : Hits(query, f.bounds)}}
  BY DEF Query, Visited, Contents
<1>4. ASSUME NEW e \in Contents, Hits(query, e.bounds) PROVE e.value \in Query(query)
  <2>1. PICK p \in Nodes : e \in items[p]
    BY DEF Contents
  <2>2. p \in Visited(query)
    BY <1>2, <1>4, <2>1
  <2> QED BY <1>4, <2>1, <2>2 DEF Query
<1> QED BY <1>3, <1>4 DEF Finds
-----------------------------------------------------------------------------
\* What builder and application know of manifests.
ManifestsTyped ==
  /\ dataset \in Datasets
  /\ build \in 0 .. Len(dataset.builds)
  /\ builder \in {"idle", "tiles"}
  /\ builder = "tiles" => build > 0
  /\ world \subseteq Manifests /\ opened \subseteq Manifests
  /\ \A m \in opened : Accepted(m)
  /\ IsFiniteSet(DOMAIN bounds)

DatasetInv == ManifestsTyped /\ IndexInv

LEMMA NewIndexInv ==
  ASSUME NEW b \in Boxes, NewIndex(b)
  PROVE  IndexInv'
<1>1. Nodes' = {<<>>} /\ region' = [p \in {<<>>} |-> b] /\ items' = [p \in {<<>>} |-> {}]
  BY DEF NewIndex, Nodes
<1>2. <<>> \in Seq(1 .. 4) /\ Len(<<>>) = 0
  OBVIOUS
<1>3. TreeTyped'
  BY <1>1, <1>2 DEF TreeTyped
<1>4. NodesAreQuadrants'
  BY <1>1, <1>2 DEF NodesAreQuadrants
<1>5. ItemsLieInside'
  BY <1>1 DEF ItemsLieInside
<1> QED BY <1>3, <1>4, <1>5 DEF IndexInv

LEMMA Products == \A x, y \in Int : x * y \in Int
OBVIOUS

LEMMA WorldIsBox ==
  ASSUME NEW m \in Manifests
  PROVE  WorldBounds(m) \in Boxes
<1>1. m.worldSize \div 2 \in Int
  BY DEF Manifests
<1> QED BY <1>1 DEF WorldBounds, Box, Boxes

LEMMA GridIsNat ==
  ASSUME NEW m \in Manifests, Accepted(m)
  PROVE  GridSize(m) \in Nat /\ GridSize(m) > 0
<1>1. PICK w, t \in Int : w = m.worldSize /\ t = m.tileSize /\ t > 0 /\ w > 0
  BY DEF Manifests, Accepted
<1>2. (2 * w + t) \div (2 * t) \in Nat
  <2>1. \A x, y \in Int : x > 0 /\ y > 0 => x \div y \in Nat
    OBVIOUS
  <2> QED BY <1>1, <2>1
<1> QED BY <1>1, <1>2 DEF GridSize, Accepted

\* A tile of the grid, also one that sticks out.
LEMMA TileIsBox ==
  ASSUME NEW m \in Manifests, Accepted(m), NEW n \in Nat
  PROVE  Ordered(TileBounds(m, Cell(n, GridSize(m))))
<1>1. PICK g \in Nat : g = GridSize(m) /\ g > 0
  BY GridIsNat
<1>2. PICK i, j \in Int : i = n % g /\ j = n \div g
  BY <1>1
<1>3. Cell(n, g)[2] = i /\ Cell(n, g)[3] = j
  BY <1>2 DEF Cell
<1>4. PICK t, h \in Int : t = m.tileSize /\ t > 0 /\ h = m.worldSize \div 2
  BY DEF Manifests, Accepted
<1>5. PICK x, z \in Int : x = i * t /\ z = j * t
  BY <1>2, <1>4, Products
<1>6. WorldBounds(m).minX = -h /\ WorldBounds(m).minZ = -h
  BY <1>4 DEF WorldBounds, Box
<1>7. TileBounds(m, Cell(n, g)) = Box(x - h, z - h, x - h + t, z - h + t)
  BY <1>3, <1>4, <1>5, <1>6 DEF TileBounds
<1> QED BY <1>1, <1>4, <1>5, <1>7 DEF Ordered, Box, Boxes
-----------------------------------------------------------------------------
LEMMA DatasetInvInit == DatasetInit => DatasetInv
<1> SUFFICES ASSUME DatasetInit PROVE DatasetInv
  OBVIOUS
<1>1. Nodes = {<<>>} /\ region = [p \in {<<>>} |-> Box(0, 0, 0, 0)] /\ items = [p \in {<<>>} |-> {}]
  BY DEF DatasetInit, Nodes
<1>2. Box(0, 0, 0, 0) \in Boxes
  BY DEF Box, Boxes
<1>3. <<>> \in Seq(1 .. 4) /\ Len(<<>>) = 0
  OBVIOUS
<1>4. TreeTyped
  BY <1>1, <1>2, <1>3 DEF TreeTyped
<1>5. NodesAreQuadrants
  BY <1>1, <1>3 DEF NodesAreQuadrants
<1>6. ItemsLieInside
  BY <1>1 DEF ItemsLieInside
<1>7. ManifestsTyped
  <2>1. DOMAIN bounds = {}
    BY DEF DatasetInit
  <2>2. dataset \in Datasets /\ dataset.found \subseteq Manifests /\ dataset.builds \in Seq(BuildOptions)
    BY DatasetAssumption DEF DatasetInit
  <2> QED BY <2>1, <2>2, FS_EmptySet DEF DatasetInit, ManifestsTyped
<1> QED BY <1>4, <1>5, <1>6, <1>7 DEF DatasetInv, IndexInv

LEMMA IndexUntouched ==
  ASSUME IndexInv, UNCHANGED indexVars
  PROVE  IndexInv'
BY DEF IndexInv, TreeTyped, NodesAreQuadrants, ItemsLieInside, indexVars, Nodes

LEMMA ManifestIsTyped ==
  ASSUME ManifestsTyped, builder = "tiles"
  PROVE  Options \in BuildOptions /\ Manifest \in Manifests
<1>1. dataset.builds \in Seq(BuildOptions) /\ build \in 1 .. Len(dataset.builds)
  BY DatasetAssumption DEF ManifestsTyped
<1>2. Options \in BuildOptions
  BY <1>1 DEF Options
<1>3. ManifestVersion \in Nat
  BY DatasetAssumption
<1>4. Options.tileSize \in Int /\ Options.tileSize * Options.gridSize \in Int
  BY <1>2, Products DEF BuildOptions
<1> QED BY <1>1, <1>2, <1>3, <1>4 DEF Manifest, Manifests

LEMMA BuildersKeep ==
  ASSUME DatasetInv, StartBuild \/ SaveTile \/ SaveManifest \/ Crash
  PROVE  DatasetInv'
<1>1. UNCHANGED <<indexVars, dataset, opened, bounds>>
  BY DEF StartBuild, SaveTile, SaveManifest, Crash
<1>2. IndexInv'
  BY <1>1, IndexUntouched DEF DatasetInv
<1>3. world' \subseteq Manifests
  <2>1. \/ world' = world \/ world' = {}
        \/ builder = "tiles" /\ world' = {Manifest}
    BY DEF StartBuild, SaveTile, SaveManifest, Crash
  <2> QED BY <2>1, ManifestIsTyped DEF DatasetInv, ManifestsTyped
<1>4. /\ build' \in 0 .. Len(dataset.builds)
      /\ builder' \in {"idle", "tiles"}
      /\ builder' = "tiles" => build' > 0
  <2>1. dataset.builds \in Seq(BuildOptions)
    BY DatasetAssumption DEF DatasetInv, ManifestsTyped
  <2>2. CASE StartBuild
    BY <2>1, <2>2 DEF StartBuild, DatasetInv, ManifestsTyped
  <2>3. CASE SaveTile \/ SaveManifest \/ Crash
    BY <2>3 DEF SaveTile, SaveManifest, Crash, DatasetInv, ManifestsTyped
  <2> QED BY <2>2, <2>3
<1>5. \A m \in opened' : Accepted(m)
  BY <1>1 DEF DatasetInv, ManifestsTyped
<1>6. ManifestsTyped'
  BY <1>1, <1>3, <1>4, <1>5 DEF DatasetInv, ManifestsTyped
<1> QED BY <1>2, <1>6 DEF DatasetInv

LEMMA OpeningKeeps ==
  ASSUME DatasetInv, OpenWorld
  PROVE  DatasetInv'
<1>1. PICK m \in world : Accepted(m) /\ opened' = {m} /\ NewIndex(WorldBounds(m))
  BY DEF OpenWorld
<1>2. m \in Manifests
  BY DEF DatasetInv, ManifestsTyped
<1>3. IndexInv'
  BY <1>1, <1>2, WorldIsBox, NewIndexInv
<1>4. UNCHANGED <<dataset, world, builder, build>> /\ DOMAIN bounds' = {}
  BY DEF OpenWorld, fileVars
<1>5. ManifestsTyped'
  BY <1>1, <1>2, <1>4, FS_EmptySet DEF DatasetInv, ManifestsTyped
<1> QED BY <1>3, <1>5 DEF DatasetInv

LEMMA InsertingKeeps ==
  ASSUME DatasetInv, InsertTile
  PROVE  DatasetInv'
<1>1. PICK m \in opened :
        LET id == Cell(Cardinality(DOMAIN bounds), GridSize(m))
            box == TileBounds(m, id)
        IN /\ Insert(id, box)
           /\ bounds' = [t \in DOMAIN bounds \cup {id} |-> IF t = id THEN box ELSE bounds[t]]
  BY DEF InsertTile
<1> DEFINE id == Cell(Cardinality(DOMAIN bounds), GridSize(m))
           box == TileBounds(m, id)
<1>2. Cardinality(DOMAIN bounds) \in Nat /\ m \in Manifests /\ Accepted(m)
  BY FS_CardinalityType DEF DatasetInv, ManifestsTyped
<1>3. IndexInv'
  BY <1>1, <1>2, TileIsBox, InsertKeepsIndex DEF DatasetInv
<1>4. IsFiniteSet(DOMAIN bounds')
  <2>1. DOMAIN bounds' = DOMAIN bounds \cup {id}
    BY <1>1
  <2> QED BY <2>1, FS_AddElement DEF DatasetInv, ManifestsTyped
<1>5. UNCHANGED <<dataset, world, builder, build, opened>>
  BY DEF InsertTile, fileVars
<1>6. ManifestsTyped'
  BY <1>4, <1>5 DEF DatasetInv, ManifestsTyped
<1> QED BY <1>3, <1>6 DEF DatasetInv

LEMMA DatasetInvStep == DatasetInv /\ [DatasetNext]_datasetVars => DatasetInv'
<1> SUFFICES ASSUME DatasetInv, [DatasetNext]_datasetVars PROVE DatasetInv'
  OBVIOUS
<1>1. CASE StartBuild \/ SaveTile \/ SaveManifest \/ Crash
  BY <1>1, BuildersKeep
<1>2. CASE OpenWorld
  BY <1>2, OpeningKeeps
<1>3. CASE InsertTile
  BY <1>3, InsertingKeeps
<1>4. CASE SplitNode
  <2>1. IndexInv'
    BY <1>4, SubdivideKeepsIndex DEF SplitNode, DatasetInv
  <2>2. ManifestsTyped'
    BY <1>4 DEF SplitNode, fileVars, DatasetInv, ManifestsTyped
  <2> QED BY <2>1, <2>2 DEF DatasetInv
<1>5. CASE UNCHANGED datasetVars
  <2>1. IndexInv'
    BY <1>5, IndexUntouched DEF datasetVars, DatasetInv
  <2>2. ManifestsTyped'
    BY <1>5 DEF datasetVars, fileVars, DatasetInv, ManifestsTyped
  <2> QED BY <2>1, <2>2 DEF DatasetInv
<1> QED BY <1>1, <1>2, <1>3, <1>4, <1>5 DEF DatasetNext

\* For every dataset, however built: every item of the quadtree lies in the regions
\* of its node and of all nodes above it.
THEOREM DatasetInvariant == DatasetSpec => []DatasetInv
BY DatasetInvInit, DatasetInvStep, PTL DEF DatasetSpec

\* TileIndex answers every query as a scan of all its tiles would.
THEOREM IndexFindsAll == DatasetSpec => []QueriesFind
<1>1. DatasetInv => QueriesFind
  BY QueryFinds DEF DatasetInv, QueriesFind
<1> QED BY <1>1, DatasetInvariant, PTL
-----------------------------------------------------------------------------
(***************************************************************************)
(* The tile format. What loadTile() makes of a beginning of the file that  *)
(* saveTile() writes is followed from field to field: a reader that has    *)
(* read what it was asked to is at the field that is next in the whole     *)
(* file, and has what was written (Follows); once it has run dry, it stays *)
(* not Ok. So what is accepted is the tile, and a whole file is if it      *)
(* fits.                                                                   *)
(***************************************************************************)
\* The readers that may come out of reading a value of V.
ReaderOf(V) ==
  [left : Seq(Int), torn : Seq(Int), value : V, good : BOOLEAN, corrupted : BOOLEAN]

\* r has read all it was asked to; what it has left and the rest of the file are y.
On(r, rest, y) == Ok(r) /\ r.left \o rest = y

\* s is what becomes of r by reading what y begins with: a, x comes after it, and
\* what was read came whole.  If all is there, and fits, it is read.
Follows(r, s, rest, y, a, x, fits) ==
  /\ Ok(s) => Ok(r)
  /\ On(r, rest, y) =>
       /\ Ok(s) => s.value = a /\ On(s, rest, x)
       /\ rest = <<>> /\ fits => Ok(s)

Begins(s, t, a, x) == Head(s) = a /\ Tail(s) \o t = x

\* What comes first in a sequence that is not empty comes first in what begins
\* with it.
LEMMA HeadOfConcat ==
  ASSUME NEW s \in Seq(Int), NEW t \in Seq(Int), NEW x \in Seq(Int), NEW a \in Int,
         s # <<>>, s \o t = <<a>> \o x
  PROVE  Begins(s, t, a, x)
<1> DEFINE h == Head(s)
<1>1. h \in Int /\ Tail(s) \in Seq(Int) /\ <<h>> \in Seq(Int) /\ <<a>> \in Seq(Int)
  BY HeadTailProperties
<1>2. s = <<h>> \o Tail(s)
  <2>1. Len(s) \in Nat \ {0} /\ 1 \in 1 .. Len(s) /\ Len(s) \in 1 .. Len(s) /\ h = s[1]
    OBVIOUS
  <2>2. SubSeq(s, 1, Len(s)) = <<s[1]>> \o SubSeq(s, 1 + 1, Len(s))
    BY <2>1, SubSeqRecursiveFirst
  <2> QED BY <2>1, <2>2, SubSeqFull, TailIsSubSeq
<1>3. s \o t = <<h>> \o (Tail(s) \o t)
  <2> HIDE DEF h
  <2>1. (<<h>> \o Tail(s)) \o t = <<h>> \o (Tail(s) \o t)
    BY <1>1, ConcatAssociative
  <2> QED BY <1>2, <2>1, Zenon
<1>4. Tail(s) \o t \in Seq(Int)
  BY <1>1
<1>5. PICK z \in Seq(Int) : z = Tail(s) \o t
  BY <1>4
<1>6. <<h>> \o z = <<a>> \o x
  BY <1>3, <1>5
<1>7. h = a
  <2> HIDE DEF h
  <2>1. (<<h>> \o z)[1] = h /\ (<<a>> \o x)[1] = a
    BY <1>1
  <2> QED BY <1>6, <2>1
<1>8. z = x
  <2>1. PICK p \in Seq(Int) : p = <<a>>
    BY <1>1
  <2>2. p \o z = p \o x
    BY <1>6, <1>7, <2>1
  <2>3. Len(p \o z) = Len(p) + Len(z) /\ Len(p \o x) = Len(p) + Len(x)
    BY ConcatProperties
  <2>4. Len(z) = Len(x) /\ Len(z) \in Nat /\ Len(p) \in Nat
    BY <2>2, <2>3
  <2>5. ASSUME NEW i \in 1 .. Len(z) PROVE z[i] = x[i]
    <3>1. /\ Len(p) + i \in 1 .. Len(p) + Len(z) /\ Len(p) + i \in 1 .. Len(p) + Len(x)
          /\ ~(Len(p) + i <= Len(p)) /\ Len(p) + i - Len(p) = i
      BY <2>4
    <3>2. (p \o z)[Len(p) + i] = z[i] /\ (p \o x)[Len(p) + i] = x[i]
      BY <3>1, ConcatProperties
    <3> QED BY <2>2, <3>2
  <2> QED BY <2>4, <2>5, SeqEqual
<1> QED BY <1>5, <1>7, <1>8 DEF Begins

LEMMA FieldTyped ==
  ASSUME NEW V, NEW r \in ReaderOf(V)
  PROVE  ReadField(r) \in ReaderOf(Int)
<1>1. CASE r.left # <<>>
  <2>1. Head(r.left) \in Int /\ Tail(r.left) \in Seq(Int)
    BY <1>1 DEF ReaderOf
  <2> QED BY <1>1, <2>1 DEF ReaderOf, ReadField
<1>2. CASE r.left = <<>>
  <2>1. (IF r.torn # <<>> /\ r.good THEN Head(r.torn) ELSE Zero) \in Int
    BY DEF ReaderOf, Zero
  <2>2. PICK v \in Int : v = IF r.torn # <<>> /\ r.good THEN Head(r.torn) ELSE Zero
    BY <2>1
  <2>3. ReadField(r) = [r EXCEPT !.value = v, !.good = FALSE]
    BY <1>2, <2>2 DEF ReadField
  <2> QED BY <2>3 DEF ReaderOf
<1> QED BY <1>1, <1>2

\* A reader that is on a field, of the whole file, reads that field or fails.
LEMMA FieldFollows ==
  ASSUME NEW V, NEW r \in ReaderOf(V), NEW rest \in Seq(Int), NEW a \in Int, NEW x \in Seq(Int)
  PROVE  Follows(r, ReadField(r), rest, <<a>> \o x, a, x, TRUE)
<1>0. r.left \in Seq(Int)
  BY DEF ReaderOf
<1>1. CASE r.left # <<>>
  <2>1. /\ ReadField(r).value = Head(r.left) /\ ReadField(r).left = Tail(r.left)
        /\ ReadField(r).good = r.good /\ ReadField(r).corrupted = r.corrupted
    BY <1>1 DEF ReadField, ReaderOf
  <2>2. Ok(ReadField(r)) = Ok(r)
    BY <2>1 DEF Ok
  <2>3. r.left \o rest = <<a>> \o x => Head(r.left) = a /\ Tail(r.left) \o rest = x
    <3>1. PICK f \in Seq(Int) : f = r.left
      BY <1>0
    <3>2. ASSUME f \o rest = <<a>> \o x PROVE Begins(f, rest, a, x)
      <4>1. f # <<>> /\ f \in Seq(Int)
        BY <1>1, <3>1
      <4> QED BY <3>2, <4>1, HeadOfConcat
    <3> QED BY <3>1, <3>2 DEF Begins
  <2>4. On(r, rest, <<a>> \o x) => ReadField(r).value = a /\ ReadField(r).left \o rest = x
    BY <2>1, <2>3 DEF On
  <2> QED BY <2>2, <2>4 DEF Follows, On
<1>2. CASE r.left = <<>>
  <2>1. ReadField(r).good = FALSE
    BY <1>2 DEF ReadField, ReaderOf
  <2>2. ~Ok(ReadField(r))
    BY <2>1 DEF Ok
  <2>3. rest = <<>> => r.left \o rest # <<a>> \o x
    <3>1. <<>> \o <<>> = <<>>
      OBVIOUS
    <3>2. Len(<<a>> \o x) = 1 + Len(x) /\ Len(x) \in Nat /\ Len(<<>>) = 0
      OBVIOUS
    <3>3. ASSUME rest = <<>>, r.left \o rest = <<a>> \o x PROVE FALSE
      <4>1. <<a>> \o x = <<>>
        BY <1>2, <3>1, <3>3, Zenon
      <4>2. Len(<<a>> \o x) = 0
        BY <3>2, <4>1, Zenon
      <4> QED BY <3>2, <4>2
    <3> QED BY <3>3, Zenon
  <2>4. rest = <<>> => ~On(r, rest, <<a>> \o x)
    BY <2>3 DEF On
  <2> QED BY <2>2, <2>4 DEF Follows
<1> QED BY <1>1, <1>2

LEMMA CountTyped ==
  ASSUME NEW V, NEW r \in ReaderOf(V)
  PROVE  ReadCount(r) \in ReaderOf(Int)
<1>1. PICK s \in ReaderOf(Int) : s = ReadField(r)
  BY FieldTyped
<1>2. ReadCount(r) = s \/ ReadCount(r) = [s EXCEPT !.value = 0, !.corrupted = TRUE]
  BY <1>1 DEF ReadCount
<1>3. [s EXCEPT !.value = 0, !.corrupted = TRUE] \in ReaderOf(Int)
  <2>1. \A v \in Int : [s EXCEPT !.value = v, !.corrupted = TRUE] \in ReaderOf(Int)
    BY <1>1 DEF ReaderOf
  <2>2. 0 \in Int
    OBVIOUS
  <2> QED BY <2>1, <2>2, Zenon
<1> QED BY <1>1, <1>2, <1>3

\* Likewise for a count, if it is not above kMaxArrayCount.
LEMMA CountFollows ==
  ASSUME NEW V, NEW r \in ReaderOf(V), NEW rest \in Seq(Int), NEW a \in Int, NEW x \in Seq(Int)
  PROVE  Follows(r, ReadCount(r), rest, <<a>> \o x, a, x, a <= MaxArrayCount)
<1>1. PICK s \in ReaderOf(Int) : s = ReadField(r)
  BY FieldTyped
<1>2. Follows(r, s, rest, <<a>> \o x, a, x, TRUE)
  BY <1>1, FieldFollows
<1>3. CASE s.value > MaxArrayCount
  <2>1. ReadCount(r).corrupted = TRUE
    BY <1>1, <1>3 DEF ReadCount, ReaderOf
  <2>2. ~Ok(ReadCount(r))
    BY <2>1 DEF Ok
  <2>3. a <= MaxArrayCount => s.value # a
    BY <1>3, FormatAssumption
  <2> QED BY <1>2, <2>2, <2>3 DEF Follows
<1>4. CASE ~(s.value > MaxArrayCount)
  <2>1. ReadCount(r) = s
    BY <1>1, <1>4 DEF ReadCount
  <2> QED BY <1>2, <2>1 DEF Follows
<1> QED BY <1>3, <1>4
-----------------------------------------------------------------------------
\* ReadMany: h[k] is the reader after k things, m[k] the one that read the k-th.
Cleared(r) == [r EXCEPT !.value = <<>>]
Appended(s, next) == [next EXCEPT !.value = Append(s.value, next.value)]

RunOf(h, m, n, r, T) ==
  /\ n \in Nat
  /\ h \in [0 .. n -> ReaderOf(Seq(T))]
  /\ m \in [1 .. n -> ReaderOf(T)]
  /\ h[0] = Cleared(r)
  /\ \A k \in 1 .. n : h[k] = Appended(h[k - 1], m[k])

LEMMA ClearedIs ==
  ASSUME NEW V, NEW T, NEW r \in ReaderOf(V)
  PROVE  /\ Cleared(r) \in ReaderOf(Seq(T))
         /\ Cleared(r).value = <<>> /\ Cleared(r).left = r.left
         /\ Ok(Cleared(r)) <=> Ok(r)
<1>1. <<>> \in Seq(T)
  OBVIOUS
<1>2. Cleared(r) \in ReaderOf(Seq(T))
  BY <1>1 DEF Cleared, ReaderOf
<1>3. /\ Cleared(r).value = <<>> /\ Cleared(r).left = r.left
      /\ Cleared(r).good = r.good /\ Cleared(r).corrupted = r.corrupted
  BY DEF Cleared, ReaderOf
<1> QED BY <1>2, <1>3 DEF Ok

LEMMA AppendedIs ==
  ASSUME NEW T, NEW s \in ReaderOf(Seq(T)), NEW next \in ReaderOf(T)
  PROVE  /\ Appended(s, next) \in ReaderOf(Seq(T))
         /\ Appended(s, next).value = Append(s.value, next.value)
         /\ Appended(s, next).left = next.left
         /\ Ok(Appended(s, next)) <=> Ok(next)
<1>1. Append(s.value, next.value) \in Seq(T)
  BY DEF ReaderOf
<1>2. PICK v \in Seq(T) : v = Append(s.value, next.value)
  BY <1>1
<1>3. Appended(s, next) = [next EXCEPT !.value = v]
  BY <1>2 DEF Appended
<1>4. Appended(s, next) \in ReaderOf(Seq(T))
  BY <1>3 DEF ReaderOf
<1>5. /\ Appended(s, next).value = v /\ Appended(s, next).left = next.left
      /\ Appended(s, next).good = next.good /\ Appended(s, next).corrupted = next.corrupted
  BY <1>3 DEF ReaderOf
<1> QED BY <1>2, <1>4, <1>5 DEF Ok

\* Once a reader is not Ok it stays so.
LEMMA RunStaysBad ==
  ASSUME NEW T, NEW V, NEW r \in ReaderOf(V), NEW h, NEW m, NEW n, RunOf(h, m, n, r, T),
         \A k \in 1 .. n : Ok(m[k]) => Ok(h[k - 1]),
         Ok(h[n])
  PROVE  Ok(r)
<1> DEFINE Good == {k \in 0 .. n : Ok(h[k])}
<1>0. n \in Nat
  BY DEF RunOf
<1>1. PICK k \in Good : \A j \in Good : k <= j
  <2>1. n \in Good
    BY <1>0
  <2>2. Good \in SUBSET Nat
    BY <1>0
  <2> HIDE DEF Good
  <2> QED BY <2>1, <2>2, SmallestNumber
<1>2. k \in 0 .. n /\ Ok(h[k])
  OBVIOUS
<1>3. CASE k = 0
  BY <1>2, <1>3, ClearedIs DEF RunOf
<1>4. CASE k # 0
  <2>1. k \in 1 .. n /\ k - 1 \in 0 .. n /\ ~(k <= k - 1)
    BY <1>0, <1>2, <1>4
  <2>2. h[k] = Appended(h[k - 1], m[k]) /\ h[k - 1] \in ReaderOf(Seq(T)) /\ m[k] \in ReaderOf(T)
    BY <2>1 DEF RunOf
  <2>3. Ok(m[k])
    BY <1>2, <2>2, AppendedIs
  <2>4. k - 1 \in Good
    BY <2>1, <2>3
  <2> QED BY <1>1, <2>1, <2>4
<1> QED BY <1>3, <1>4

\* If every single read follows what was written, the run of them does.
LEMMA RunFollows ==
  ASSUME NEW T, NEW V, NEW r \in ReaderOf(V), NEW h, NEW m, NEW n, RunOf(h, m, n, r, T),
         NEW rest, NEW a \in Seq(T), Len(a) = n, NEW y, NEW fits,
         \A k \in 1 .. n : Follows(h[k - 1], m[k], rest, y[k - 1], a[k], y[k], fits)
  PROVE  Follows(r, h[n], rest, y[0], a, y[n], fits)
<1> DEFINE First(k) == SubSeq(a, 1, k)
           Good(k) == Follows(r, h[k], rest, y[0], First(k), y[k], fits)
           Bad == {k \in 0 .. n : ~Good(k)}
<1> HIDE DEF Good
<1>0. n \in Nat
  BY DEF RunOf
<1>1. Good(0)
  <2>1. h[0] = Cleared(r)
    BY DEF RunOf
  <2>2. First(0) = <<>>
    OBVIOUS
  <2>3. (Ok(h[0]) <=> Ok(r)) /\ h[0].value = <<>> /\ h[0].left = r.left
    BY <2>1, ClearedIs
  <2>4. Follows(r, h[0], rest, y[0], <<>>, y[0], fits)
    BY <2>3 DEF Follows, On
  <2> QED BY <2>2, <2>4 DEF Good
<1>2. ASSUME NEW k \in 1 .. n, Good(k - 1) PROVE Good(k)
  <2>1. h[k] = Appended(h[k - 1], m[k]) /\ h[k - 1] \in ReaderOf(Seq(T)) /\ m[k] \in ReaderOf(T)
    BY <1>0 DEF RunOf
  <2>2. /\ h[k].value = Append(h[k - 1].value, m[k].value)
        /\ h[k].left = m[k].left
        /\ Ok(h[k]) <=> Ok(m[k])
    BY <2>1, AppendedIs
  <2>3. Append(First(k - 1), a[k]) = First(k)
    <3>1. /\ First(k - 1) \in Seq(T) /\ First(k) \in Seq(T) /\ a[k] \in T
          /\ Len(First(k - 1)) = k - 1 /\ Len(First(k)) = k
          /\ \A i \in 1 .. k - 1 : First(k - 1)[i] = a[i]
          /\ \A i \in 1 .. k : First(k)[i] = a[i]
      BY <1>0
    <3> HIDE DEF First
    <3>2. /\ Append(First(k - 1), a[k]) \in Seq(T) /\ Len(Append(First(k - 1), a[k])) = k
          /\ \A i \in 1 .. k : Append(First(k - 1), a[k])[i] = a[i]
      BY <1>0, <3>1
    <3> QED BY <3>1, <3>2, SeqEqual
  <2>4. Follows(r, h[k - 1], rest, y[0], First(k - 1), y[k - 1], fits)
    BY <1>2 DEF Good
  <2>5. Follows(h[k - 1], m[k], rest, y[k - 1], a[k], y[k], fits)
    OBVIOUS
  <2> HIDE DEF First
  <2>6. On(m[k], rest, y[k]) => On(h[k], rest, y[k])
    BY <2>2 DEF On
  <2>7. Follows(r, h[k], rest, y[0], First(k), y[k], fits)
    BY <2>2, <2>3, <2>4, <2>5, <2>6 DEF Follows
  <2> QED BY <2>7 DEF Good
<1>3. Good(n)
  <2> SUFFICES ASSUME Bad # {} PROVE FALSE
    BY <1>0
  <2>1. PICK k \in Bad : \A j \in Bad : k <= j
    <3>1. Bad \in SUBSET Nat
      BY <1>0
    <3> HIDE DEF Bad
    <3> QED BY <3>1, SmallestNumber
  <2>2. k \in 1 .. n /\ k - 1 \in 0 .. n /\ ~(k <= k - 1)
    BY <1>0, <1>1
  <2>3. Good(k - 1)
    BY <2>1, <2>2
  <2> QED BY <1>2, <2>2, <2>3
<1>4. First(n) = a
  BY SubSeqFull
<1> QED BY <1>3, <1>4 DEF Good
\* The natural number of things that reading N of them means.
LEMMA Rounds ==
  ASSUME NEW N \in Int
  PROVE  \E n \in Nat : 1 .. N = 1 .. n /\ (N \in Nat => n = N)
<1>1. CASE N \in Nat
  BY <1>1
<1>2. CASE N \notin Nat
  <2>1. 1 .. N = {} /\ 1 .. 0 = {}
    BY <1>2
  <2> QED BY <1>2, <2>1
<1> QED BY <1>1, <1>2

\* The recursion of FoldLeft, from r, over the reads of N things with read.
ReadsAll(iter, r, N, T, read) ==
  /\ iter \in [SUBSET (1 .. N) -> ReaderOf(Seq(T))]
  /\ \A s \in SUBSET (1 .. N) :
       iter[s] = IF s = {} THEN Cleared(r)
                 ELSE Appended(iter[s \ {Max(s)}], read[iter[s \ {Max(s)}]])

\* What is known of it if iter was chosen to solve the recursion.
ReadsFrom(iter, r, N, T, read) ==
  /\ iter[{}] = Cleared(r)
  /\ \A s \in SUBSET (1 .. N) :
       s # {} /\ iter[s \ {Max(s)}] \in ReaderOf(Seq(T)) =>
         iter[s] = Appended(iter[s \ {Max(s)}], read[iter[s \ {Max(s)}]])

\* The run has n reads, each with read, and ends with the reader last.
RunTo(h, m, n, r, N, T, read, last) ==
  /\ RunOf(h, m, n, r, T)
  /\ \A k \in 1 .. n : m[k] = read[h[k - 1]]
  /\ h[n] = last
  /\ N \in Nat => n = N

\* There is such an iter, and one that was chosen is the end of a run.
LEMMA ReadsExist ==
  ASSUME NEW V, NEW r \in ReaderOf(V), NEW N \in Int, NEW T,
         NEW read \in [ReaderOf(Seq(T)) -> ReaderOf(T)]
  PROVE  \E iter : ReadsAll(iter, r, N, T, read)
<1> DEFINE W == ReaderOf(Seq(T))
           step == [s \in W |-> Appended(s, read[s])]
<1>1. PICK n \in Nat : 1 .. N = 1 .. n /\ (N \in Nat => n = N)
  BY Rounds
<1> DEFINE g == [k \in 1 .. n |-> step]
<1>2. \A s \in W : Appended(s, read[s]) \in W
  BY AppendedIs
<1>3. Cleared(r) \in W
  BY ClearedIs
<1>4. g \in [1 .. n -> [W -> W]] /\ \A k \in 1 .. n : \A s \in W : g[k][s] = Appended(s, read[s])
  <2> HIDE DEF W
  <2> QED BY <1>2
<1>5. PICK it \in [SUBSET (1 .. n) -> W] : Folds(it, n, Cleared(r), g)
  <2> HIDE DEF W, g
  <2> QED BY <1>1, <1>3, <1>4, FoldExists
<1>6. ASSUME NEW s \in SUBSET (1 .. n)
      PROVE  it[s] = IF s = {} THEN Cleared(r)
                     ELSE Appended(it[s \ {Max(s)}], read[it[s \ {Max(s)}]])
  <2> HIDE DEF W, g
  <2>1. CASE s = {}
    BY <1>5, <2>1 DEF Folds
  <2>2. CASE s # {}
    <3>1. Max(s) \in 1 .. n /\ s \ {Max(s)} \in SUBSET (1 .. n)
      BY <1>1, <2>2, MaxIsLargest
    <3>2. it[s \ {Max(s)}] \in W
      BY <1>5, <3>1
    <3> QED BY <1>4, <1>5, <2>2, <3>1, <3>2 DEF Folds
  <2> QED BY <2>1, <2>2
<1> QED BY <1>1, <1>5, <1>6 DEF ReadsAll

LEMMA ReadsRun ==
  ASSUME NEW V, NEW r \in ReaderOf(V), NEW N \in Int, NEW T,
         NEW read \in [ReaderOf(Seq(T)) -> ReaderOf(T)],
         NEW iter, ReadsFrom(iter, r, N, T, read)
  PROVE  \E n \in Nat : \E h, m : RunTo(h, m, n, r, N, T, read, iter[1 .. N])
<1> DEFINE W == ReaderOf(Seq(T))
           step == [s \in W |-> Appended(s, read[s])]
<1>1. PICK n \in Nat : 1 .. N = 1 .. n /\ (N \in Nat => n = N)
  BY Rounds
<1> DEFINE g == [k \in 1 .. n |-> step]
<1>2. \A s \in W : Appended(s, read[s]) \in W
  BY AppendedIs
<1>3. Cleared(r) \in W
  BY ClearedIs
<1>4. g \in [1 .. n -> [W -> W]] /\ \A k \in 1 .. n : \A s \in W : g[k][s] = Appended(s, read[s])
  <2> HIDE DEF W
  <2> QED BY <1>2
<1>5. FoldsIn(iter, W, n, Cleared(r), g)
  <2> HIDE DEF g
  <2>1. \A s \in SUBSET (1 .. n) : s # {} => Max(s) \in 1 .. n
    BY <1>1, MaxIsLargest
  <2> QED BY <1>1, <1>4, <2>1 DEF FoldsIn, ReadsFrom
<1>6. PICK h : StepsTo(h, W, n, Cleared(r), g, iter[1 .. n])
  <2> HIDE DEF W, g
  <2> QED BY <1>1, <1>3, <1>4, <1>5, FoldSteps
<1> DEFINE m == [k \in 1 .. n |-> read[h[k - 1]]]
<1>7. \A k \in 1 .. n : h[k - 1] \in W /\ h[k] = Appended(h[k - 1], read[h[k - 1]])
  <2> HIDE DEF W, g
  <2>1. \A k \in 1 .. n : k - 1 \in 0 .. n
    BY <1>1
  <2> QED BY <1>4, <1>6, <2>1 DEF Steps, StepsTo
<1>8. RunOf(h, m, n, r, T)
  <2>1. m \in [1 .. n -> ReaderOf(T)]
    BY <1>7
  <2>2. \A k \in 1 .. n : h[k] = Appended(h[k - 1], m[k])
    BY <1>7
  <2>3. h \in [0 .. n -> W] /\ h[0] = Cleared(r)
    <3> HIDE DEF W, g
    <3> QED BY <1>6 DEF Steps, StepsTo
  <2> HIDE DEF m
  <2> QED BY <1>1, <2>1, <2>2, <2>3 DEF RunOf
<1>9. h[n] = iter[1 .. N]
  <2> HIDE DEF W, g
  <2> QED BY <1>1, <1>6 DEF StepsTo
<1>10. RunTo(h, m, n, r, N, T, read, iter[1 .. N])
  BY <1>1, <1>8, <1>9 DEF RunTo
<1> QED BY <1>10

\* An iter that is chosen to solve the recursion with read.
LEMMA AllIsFrom ==
  ASSUME NEW iter, NEW r, NEW N \in Int, NEW T, NEW read, ReadsAll(iter, r, N, T, read)
  PROVE  ReadsFrom(iter, r, N, T, read)
BY DEF ReadsAll, ReadsFrom

\* s is what N reads with read make of r.
Run(r, N, T, read, s) ==
  \E n \in Nat : \E h, m : RunTo(h, m, n, r, N, T, read, s)

\* ReadMany(ReadField, N, r) is such a run: the fold over 1 .. N.
LEMMA ReadManyFields ==
  ASSUME NEW V, NEW r \in ReaderOf(V), NEW N \in Int
  PROVE  Run(r, N, Int, [s \in ReaderOf(Seq(Int)) |-> ReadField(s)], ReadMany(ReadField, N, r))
<1> DEFINE W == ReaderOf(Seq(Int))
           read == [s \in W |-> ReadField(s)]
           Solves(iter) == iter = [s \in SUBSET (1 .. N) |->
              IF s = {} THEN Cleared(r)
              ELSE Appended(iter[s \ {Max(s)}], ReadField(iter[s \ {Max(s)}]))]
           iter == CHOOSE iter : Solves(iter)
<1>1. ReadMany(ReadField, N, r) = iter[1 .. N]
  BY DEF ReadMany, FoldLeft, MapThenFoldSet, Appended, Cleared
<1>2. read \in [W -> ReaderOf(Int)]
  BY FieldTyped
<1>3. \A s \in SUBSET (1 .. N) : s # {} => s \ {Max(s)} \in SUBSET (1 .. N)
  OBVIOUS
<1>4. \E it : Solves(it)
  <2>1. PICK it : ReadsAll(it, r, N, Int, read)
    <3> HIDE DEF read
    <3> QED BY <1>2, ReadsExist
  <2>2. \A s \in SUBSET (1 .. N) : s # {} =>
           read[it[s \ {Max(s)}]] = ReadField(it[s \ {Max(s)}])
    BY <1>3, <2>1 DEF ReadsAll
  <2> HIDE DEF read
  <2>3. Solves(it)
    BY <2>1, <2>2 DEF ReadsAll
  <2> QED BY <2>3
<1>5. Solves(iter)
  <2> HIDE DEF Solves
  <2> QED BY <1>4
<1> HIDE DEF iter
<1>6. ReadsFrom(iter, r, N, Int, read)
  BY <1>3, <1>5 DEF ReadsFrom
<1>7. \E n \in Nat : \E h, m : RunTo(h, m, n, r, N, Int, read, iter[1 .. N])
  <2> HIDE DEF read
  <2> QED BY <1>2, <1>6, ReadsRun
<1> QED BY <1>1, <1>7 DEF Run
\* What reading something makes of a reader: one that is not Ok stays so.
Reads(r, s, T) == s \in ReaderOf(T) /\ (Ok(s) => Ok(r))

\* What holds of every read holds of the run.
LEMMA RunReads ==
  ASSUME NEW V, NEW r \in ReaderOf(V), NEW N \in Int, NEW T, NEW read, NEW s,
         Run(r, N, T, read, s),
         \A q \in ReaderOf(Seq(T)) : Reads(q, read[q], T)
  PROVE  Reads(r, s, Seq(T))
<1>1. PICK n \in Nat : \E h, m : RunTo(h, m, n, r, N, T, read, s)
  BY DEF Run
<1>2. PICK h, m : RunTo(h, m, n, r, N, T, read, s)
  BY <1>1
<1>3. RunOf(h, m, n, r, T) /\ h[n] = s
  BY <1>2 DEF RunTo
<1>4. h[n] \in ReaderOf(Seq(T))
  BY <1>1, <1>3 DEF RunOf
<1>5. \A k \in 1 .. n : Ok(m[k]) => Ok(h[k - 1])
  <2>1. \A k \in 1 .. n : m[k] = read[h[k - 1]] /\ h[k - 1] \in ReaderOf(Seq(T))
    BY <1>1, <1>2, <1>3 DEF RunTo, RunOf
  <2> QED BY <2>1 DEF Reads
<1>6. Ok(h[n]) => Ok(r)
  BY <1>3, <1>5, RunStaysBad
<1> QED BY <1>3, <1>4, <1>6 DEF Reads

LEMMA RunFollowsAll ==
  ASSUME NEW V, NEW r \in ReaderOf(V), NEW T, NEW read, NEW s,
         NEW a \in Seq(T), Run(r, Len(a), T, read, s), NEW rest, NEW y, NEW fits,
         \A k \in 1 .. Len(a) : \A q \in ReaderOf(Seq(T)) :
           Follows(q, read[q], rest, y[k - 1], a[k], y[k], fits)
  PROVE  Follows(r, s, rest, y[0], a, y[Len(a)], fits)
<1>0. Len(a) \in Nat
  OBVIOUS
<1>1. PICK n \in Nat : \E h, m : RunTo(h, m, n, r, Len(a), T, read, s)
  BY DEF Run
<1>2. PICK h, m : RunTo(h, m, n, r, Len(a), T, read, s)
  BY <1>1
<1>3. RunOf(h, m, n, r, T) /\ h[n] = s /\ n = Len(a)
  BY <1>0, <1>2 DEF RunTo
<1>4. \A k \in 1 .. n : Follows(h[k - 1], m[k], rest, y[k - 1], a[k], y[k], fits)
  <2>1. \A k \in 1 .. n : m[k] = read[h[k - 1]] /\ h[k - 1] \in ReaderOf(Seq(T))
    BY <1>1, <1>2, <1>3 DEF RunTo, RunOf
  <2> QED BY <1>3, <2>1
<1>5. Follows(r, h[n], rest, y[0], a, y[n], fits)
  BY <1>3, <1>4, RunFollows
<1> QED BY <1>3, <1>5
-----------------------------------------------------------------------------
LEMMA Associative ==
  ASSUME NEW s \in Seq(Int), NEW t \in Seq(Int), NEW u \in Seq(Int)
  PROVE  (s \o t) \o u = s \o (t \o u)
BY ConcatAssociative

\* What is still to come after k of the numbers a, and then x.
ToCome(a, k, x) == SubSeq(a, k + 1, Len(a)) \o x

\* After k numbers, the next one comes first.
LEMMA NumbersToCome ==
  ASSUME NEW a \in Seq(Int), NEW x \in Seq(Int)
  PROVE  /\ ToCome(a, 0, x) = a \o x
         /\ ToCome(a, Len(a), x) = x
         /\ \A k \in 0 .. Len(a) : ToCome(a, k, x) \in Seq(Int)
         /\ \A k \in 1 .. Len(a) : ToCome(a, k - 1, x) = <<a[k]>> \o ToCome(a, k, x)
<1>0. Len(a) \in Nat
  OBVIOUS
<1>1. \A k \in 0 .. Len(a) : SubSeq(a, k + 1, Len(a)) \in Seq(Int)
  <2> TAKE k \in 0 .. Len(a)
  <2>1. \A i \in k + 1 .. Len(a) : a[i] \in Int
    BY <1>0
  <2>2. k + 1 \in Int /\ Len(a) \in Int
    BY <1>0
  <2> QED BY <2>1, <2>2, SubSeqProperties
<1>2. \A k \in 0 .. Len(a) : ToCome(a, k, x) \in Seq(Int)
  BY <1>1, ConcatProperties DEF ToCome
<1>3. ToCome(a, 0, x) = a \o x
  <2>1. SubSeq(a, 1, Len(a)) = a /\ 0 + 1 = 1
    BY SubSeqFull
  <2> QED BY <2>1 DEF ToCome
<1>4. ToCome(a, Len(a), x) = x
  <2>1. SubSeq(a, Len(a) + 1, Len(a)) = <<>>
    BY <1>0, SubSeqEmpty
  <2> QED BY <2>1, ConcatEmptySeq DEF ToCome
<1>5. ASSUME NEW k \in 1 .. Len(a)
      PROVE  ToCome(a, k - 1, x) = <<a[k]>> \o ToCome(a, k, x)
  <2>1. SubSeq(a, k, Len(a)) = <<a[k]>> \o SubSeq(a, k + 1, Len(a))
    BY <1>0, SubSeqRecursiveFirst
  <2>2. SubSeq(a, k + 1, Len(a)) \in Seq(Int) /\ <<a[k]>> \in Seq(Int)
    BY <1>0, <1>1
  <2>3. (<<a[k]>> \o SubSeq(a, k + 1, Len(a))) \o x = <<a[k]>> \o (SubSeq(a, k + 1, Len(a)) \o x)
    BY <2>2, Associative
  <2>4. k - 1 + 1 = k
    OBVIOUS
  <2> QED BY <2>1, <2>3, <2>4 DEF ToCome
<1> QED BY <1>2, <1>3, <1>4, <1>5

LEMMA FieldReads ==
  ASSUME NEW V, NEW r \in ReaderOf(V)
  PROVE  Reads(r, ReadField(r), Int)
<1>1. Follows(r, ReadField(r), <<>>, <<0>> \o <<>>, 0, <<>>, TRUE)
  <2>1. 0 \in Int /\ <<>> \in Seq(Int)
    OBVIOUS
  <2> QED BY <2>1, FieldFollows
<1> QED BY <1>1, FieldTyped DEF Reads, Follows

LEMMA CountReads ==
  ASSUME NEW V, NEW r \in ReaderOf(V)
  PROVE  Reads(r, ReadCount(r), Int)
<1>1. Follows(r, ReadCount(r), <<>>, <<0>> \o <<>>, 0, <<>>, 0 <= MaxArrayCount)
  <2>1. 0 \in Int /\ <<>> \in Seq(Int)
    OBVIOUS
  <2> QED BY <2>1, CountFollows
<1> QED BY <1>1, CountTyped DEF Reads, Follows

LEMMA FieldsRead ==
  ASSUME NEW V, NEW r \in ReaderOf(V), NEW N \in Int
  PROVE  Reads(r, ReadMany(ReadField, N, r), Seq(Int))
<1> DEFINE read == [s \in ReaderOf(Seq(Int)) |-> ReadField(s)]
<1>1. Run(r, N, Int, read, ReadMany(ReadField, N, r))
  BY ReadManyFields
<1>2. \A q \in ReaderOf(Seq(Int)) : Reads(q, read[q], Int)
  BY FieldReads
<1> HIDE DEF read
<1> QED BY <1>1, <1>2, RunReads

\* Reading as many fields as a list has gives the list, wherever it comes.
LEMMA FieldsFollow ==
  ASSUME NEW V, NEW r \in ReaderOf(V), NEW rest \in Seq(Int),
         NEW a \in Seq(Int), NEW x \in Seq(Int)
  PROVE  Follows(r, ReadMany(ReadField, Len(a), r), rest, a \o x, a, x, TRUE)
<1> DEFINE read == [s \in ReaderOf(Seq(Int)) |-> ReadField(s)]
           n == Len(a)
           y == [k \in 0 .. n |-> ToCome(a, k, x)]
<1>0. n \in Nat /\ n \in Int
  OBVIOUS
<1>1. Run(r, n, Int, read, ReadMany(ReadField, n, r))
  <2> HIDE DEF n
  <2> QED BY <1>0, ReadManyFields
<1>2. /\ \A k \in 1 .. n : a[k] \in Int /\ y[k] \in Seq(Int) /\ y[k - 1] = <<a[k]>> \o y[k]
      /\ y[0] = a \o x /\ y[n] = x
  <2>1. \A k \in 1 .. n : k \in 0 .. n /\ k - 1 \in 0 .. n /\ a[k] \in Int
    OBVIOUS
  <2>2. 0 \in 0 .. n /\ n \in 0 .. n
    BY <1>0
  <2> QED BY <2>1, <2>2, NumbersToCome
<1>3. ASSUME NEW k \in 1 .. n, NEW q \in ReaderOf(Seq(Int))
      PROVE  Follows(q, read[q], rest, y[k - 1], a[k], y[k], TRUE)
  <2>1. Follows(q, ReadField(q), rest, <<a[k]>> \o y[k], a[k], y[k], TRUE)
    <3> HIDE DEF y
    <3> QED BY <1>2, FieldFollows
  <2> HIDE DEF y
  <2> QED BY <1>2, <2>1
<1>4. Follows(r, ReadMany(ReadField, n, r), rest, y[0], a, y[n], TRUE)
  <2> HIDE DEF y, read
  <2> QED BY <1>1, <1>3, RunFollowsAll
<1> HIDE DEF y
<1> QED BY <1>2, <1>4
\* y[k] is what the sequences from the k-th on, and x, come to.
Remain(y, enc, x) ==
  /\ y \in [0 .. Len(enc) -> Seq(Int)]
  /\ y[Len(enc)] = x
  /\ \A k \in 1 .. Len(enc) : y[k - 1] = enc[k] \o y[k]

\* There is such a y, and it begins with all the sequences in a row.
LEMMA RemainExists ==
  ASSUME NEW enc \in Seq(Seq(Int)), NEW x \in Seq(Int)
  PROVE  \E y : Remain(y, enc, x)
<1> DEFINE n == Len(enc)
           V == Seq(Int)
           g == [k \in 1 .. n |-> [v \in V |-> enc[n + 1 - k] \o v]]
<1>0. n \in Nat
  OBVIOUS
<1>1. g \in [1 .. n -> [V -> V]] /\ \A k \in 1 .. n : \A v \in V : g[k][v] = enc[n + 1 - k] \o v
  <2>1. \A k \in 1 .. n : n + 1 - k \in 1 .. n
    BY <1>0
  <2>2. \A k \in 1 .. n : \A v \in V : enc[n + 1 - k] \o v \in V
    BY <2>1
  <2> HIDE DEF V
  <2> QED BY <2>2
<1>2. x \in V
  OBVIOUS
<1>3. PICK it \in [SUBSET (1 .. n) -> V] : Folds(it, n, x, g)
  <2> HIDE DEF V, g, n
  <2> QED BY <1>0, <1>1, <1>2, FoldExists
<1>4. FoldsIn(it, V, n, x, g)
  <2> HIDE DEF V, g, n
  <2>1. {} \in SUBSET (1 .. n)
    OBVIOUS
  <2> QED BY <1>3, <2>1 DEF Folds, FoldsIn
<1>5. PICK h : StepsTo(h, V, n, x, g, it[1 .. n])
  <2> HIDE DEF V, g, n
  <2> QED BY <1>0, <1>1, <1>2, <1>4, FoldSteps
<1> DEFINE y == [k \in 0 .. n |-> h[n - k]]
<1>6. /\ h \in [0 .. n -> V] /\ h[0] = x
      /\ \A k \in 1 .. n : h[k] = enc[n + 1 - k] \o h[k - 1]
  <2> HIDE DEF V, g, n
  <2>1. h \in [0 .. n -> V] /\ h[0] = x
    BY <1>5 DEF Steps, StepsTo
  <2>2. ASSUME NEW k \in 1 .. n PROVE h[k] = enc[n + 1 - k] \o h[k - 1]
    <3>1. k - 1 \in 0 .. n
      BY <1>0
    <3>2. h[k - 1] \in V
      BY <2>1, <3>1
    <3>3. h[k] = g[k][h[k - 1]]
      BY <1>5 DEF Steps, StepsTo
    <3>4. g[k][h[k - 1]] = enc[n + 1 - k] \o h[k - 1]
      BY <1>1, <3>2, Zenon
    <3> QED BY <3>3, <3>4, Zenon
  <2> QED BY <2>1, <2>2
<1>7. y \in [0 .. n -> V]
  <2>1. \A k \in 0 .. n : n - k \in 0 .. n
    BY <1>0
  <2> HIDE DEF V, n
  <2> QED BY <1>6, <2>1
<1>8. y[n] = x
  <2>1. n \in 0 .. n /\ n - n = 0
    BY <1>0
  <2> HIDE DEF V, n
  <2> QED BY <1>6, <2>1
<1>9. ASSUME NEW k \in 1 .. n PROVE y[k - 1] = enc[k] \o y[k]
  <2>1. /\ k - 1 \in 0 .. n /\ k \in 0 .. n
        /\ n - (k - 1) \in 1 .. n /\ n + 1 - (n - (k - 1)) = k /\ n - (k - 1) - 1 = n - k
    BY <1>0
  <2>2. y[k - 1] = h[n - (k - 1)] /\ y[k] = h[n - k]
    BY <2>1
  <2>3. h[n - (k - 1)] = enc[n + 1 - (n - (k - 1))] \o h[n - (k - 1) - 1]
    BY <1>6, <2>1
  <2> HIDE DEF y
  <2> QED BY <2>1, <2>2, <2>3
<1>10. Remain(y, enc, x)
  <2> HIDE DEF y
  <2> QED BY <1>7, <1>8, <1>9 DEF Remain
<1> QED BY <1>10

LEMMA FlattenRemains ==
  ASSUME NEW enc \in Seq(Seq(Int)), NEW x \in Seq(Int), NEW y, Remain(y, enc, x)
  PROVE  y[0] = FlattenSeq(enc) \o x
<1> DEFINE n == Len(enc)
<1>0. n \in Nat
  OBVIOUS
<1>1. CASE enc = <<>>
  <2>1. FlattenSeq(enc) = <<>>
    BY <1>1 DEF FlattenSeq
  <2>2. n = 0
    BY <1>1
  <2> QED BY <2>1, <2>2, ConcatEmptySeq DEF Remain
<1>2. CASE enc # <<>>
  <2>1. PICK f : /\ FlattenSeq(enc) = f[n]
                 /\ f[1] = enc[1]
                 /\ \A i \in 2 .. n : f[i] = f[i - 1] \o enc[i]
    BY <1>2, FlattenGrows
  <2>2. n > 0
    BY <1>0, <1>2
  <2> DEFINE Good(k) == f[k] \in Seq(Int) /\ f[k] \o y[k] = y[0]
             Bad == {k \in 1 .. n : ~Good(k)}
  <2>3. Good(1)
    <3>1. 1 \in 1 .. n /\ 1 - 1 = 0
      BY <1>0, <2>2
    <3>2. y[0] = enc[1] \o y[1]
      BY <3>1 DEF Remain
    <3>3. enc[1] \in Seq(Int)
      BY <3>1
    <3> QED BY <2>1, <3>2, <3>3
  <2>4. ASSUME NEW k \in 2 .. n, Good(k - 1) PROVE Good(k)
    <3>1. k \in 1 .. n /\ k - 1 \in 0 .. n /\ k \in 0 .. n
      BY <1>0
    <3>2. enc[k] \in Seq(Int) /\ y[k] \in Seq(Int) /\ y[k - 1] = enc[k] \o y[k]
      <4>1. y[k] \in Seq(Int)
        <5>1. y \in [0 .. n -> Seq(Int)]
          BY Zenon DEF Remain
        <5> QED BY <3>1, <5>1
      <4>3. enc[k] \in Seq(Int)
        BY <3>1, ElementOfSeq
      <4>2. y[k - 1] = enc[k] \o y[k]
        BY <3>1, Zenon DEF Remain
      <4> QED BY <4>1, <4>2, <4>3, Zenon
    <3>3. PICK u \in Seq(Int) : u = f[k - 1]
      BY <2>4
    <3>4. f[k] = u \o enc[k] /\ u \o enc[k] \in Seq(Int)
      <4>1. f[k] = u \o enc[k]
        BY <2>1, <3>3, Zenon
      <4> QED BY <3>2, <3>3, <4>1, ConcatProperties, Zenon
    <3>5. (u \o enc[k]) \o y[k] = u \o (enc[k] \o y[k])
      BY <3>2, Associative
    <3> QED BY <2>4, <3>2, <3>3, <3>4, <3>5
  <2>5. Good(n)
    <3> HIDE DEF Good
    <3> SUFFICES ASSUME Bad # {} PROVE FALSE
      BY <1>0, <2>2
    <3>1. PICK k \in Bad : \A j \in Bad : k <= j
      <4>1. Bad \in SUBSET Nat
        BY <1>0
      <4> HIDE DEF Bad
      <4> QED BY <4>1, SmallestNumber
    <3>2. k \in 2 .. n /\ k - 1 \in 1 .. n /\ ~(k <= k - 1)
      BY <1>0, <2>3
    <3>3. Good(k - 1)
      BY <3>1, <3>2
    <3> QED BY <2>4, <3>2, <3>3
  <2>6. f[n] \o x = y[0]
    BY <2>5 DEF Remain
  <2> QED BY <2>1, <2>6
<1> QED BY <1>1, <1>2

\* A run over a list of things, each with an encoding of its own, follows the
\* encodings in a row.
LEMMA ListFollows ==
  ASSUME NEW V, NEW r \in ReaderOf(V), NEW T, NEW read, NEW s,
         NEW a \in Seq(T), Run(r, Len(a), T, read, s),
         NEW enc \in Seq(Seq(Int)), Len(enc) = Len(a),
         NEW rest, NEW x \in Seq(Int), NEW fits,
         \A k \in 1 .. Len(a) : \A q \in ReaderOf(Seq(T)) : \A z \in Seq(Int) :
           Follows(q, read[q], rest, enc[k] \o z, a[k], z, fits)
  PROVE  Follows(r, s, rest, FlattenSeq(enc) \o x, a, x, fits)
<1>0. Len(a) \in Nat
  OBVIOUS
<1>1. PICK y : Remain(y, enc, x)
  BY RemainExists
<1>2. \A k \in 1 .. Len(a) : y[k] \in Seq(Int) /\ y[k - 1] = enc[k] \o y[k]
  <2>1. \A k \in 1 .. Len(a) : k \in 0 .. Len(a)
    BY <1>0
  <2> QED BY <1>1, <2>1 DEF Remain
<1>3. \A k \in 1 .. Len(a) : \A q \in ReaderOf(Seq(T)) :
        Follows(q, read[q], rest, y[k - 1], a[k], y[k], fits)
  BY <1>2
<1>4. Follows(r, s, rest, y[0], a, y[Len(a)], fits)
  BY <1>3, RunFollowsAll
<1>5. y[0] = FlattenSeq(enc) \o x /\ y[Len(a)] = x
  BY <1>1, FlattenRemains DEF Remain
<1> QED BY <1>4, <1>5
LEMMA IdsAreSeqs ==
  ASSUME NEW id \in TileIds
  PROVE  id \in Seq(Int) /\ Len(id) = 3
<1>1. id = [i \in 1 .. 3 |-> id[i]] /\ \A i \in 1 .. 3 : id[i] \in Int
  BY DEF TileIds
<1>2. [i \in 1 .. 3 |-> id[i]] \in Seq(Int) /\ Len([i \in 1 .. 3 |-> id[i]]) = 3
  BY <1>1
<1> QED BY <1>1, <1>2, Zenon

LEMMA IdReads ==
  ASSUME NEW V, NEW r \in ReaderOf(V)
  PROVE  Reads(r, ReadTileId(r), Seq(Int))
<1>1. 3 \in Int
  OBVIOUS
<1> QED BY <1>1, FieldsRead DEF ReadTileId

\* ReadTileId() follows the three fields of an id, and a run of them a list of ids.
LEMMA IdFollows ==
  ASSUME NEW V, NEW r \in ReaderOf(V), NEW rest \in Seq(Int),
         NEW id \in TileIds, NEW x \in Seq(Int)
  PROVE  Follows(r, ReadTileId(r), rest, id \o x, id, x, TRUE)
<1>1. id \in Seq(Int) /\ Len(id) = 3
  BY IdsAreSeqs
<1>2. Follows(r, ReadMany(ReadField, Len(id), r), rest, id \o x, id, x, TRUE)
  BY <1>1, FieldsFollow
<1> QED BY <1>1, <1>2 DEF ReadTileId

LEMMA ReadManyIds ==
  ASSUME NEW V, NEW r \in ReaderOf(V), NEW N \in Int
  PROVE  Run(r, N, Seq(Int), [s \in ReaderOf(Seq(Seq(Int))) |-> ReadTileId(s)], ReadMany(ReadTileId, N, r))
<1> DEFINE W == ReaderOf(Seq(Seq(Int)))
           read == [s \in W |-> ReadTileId(s)]
           Solves(iter) == iter = [s \in SUBSET (1 .. N) |->
              IF s = {} THEN Cleared(r)
              ELSE Appended(iter[s \ {Max(s)}], ReadTileId(iter[s \ {Max(s)}]))]
           iter == CHOOSE iter : Solves(iter)
<1>1. ReadMany(ReadTileId, N, r) = iter[1 .. N]
  BY DEF ReadMany, FoldLeft, MapThenFoldSet, Appended, Cleared
<1>2. read \in [W -> ReaderOf(Seq(Int))]
  BY IdReads DEF Reads
<1>3. \A s \in SUBSET (1 .. N) : s # {} => s \ {Max(s)} \in SUBSET (1 .. N)
  OBVIOUS
<1>4. \E it : Solves(it)
  <2>1. PICK it : ReadsAll(it, r, N, Seq(Int), read)
    <3> HIDE DEF read
    <3> QED BY <1>2, ReadsExist
  <2>2. \A s \in SUBSET (1 .. N) : s # {} =>
           read[it[s \ {Max(s)}]] = ReadTileId(it[s \ {Max(s)}])
    BY <1>3, <2>1 DEF ReadsAll
  <2> HIDE DEF read
  <2>3. Solves(it)
    BY <2>1, <2>2 DEF ReadsAll
  <2> QED BY <2>3
<1>5. Solves(iter)
  <2> HIDE DEF Solves
  <2> QED BY <1>4
<1> HIDE DEF iter
<1>6. ReadsFrom(iter, r, N, Seq(Int), read)
  BY <1>3, <1>5 DEF ReadsFrom
<1>7. \E n \in Nat : \E h, m : RunTo(h, m, n, r, N, Seq(Int), read, iter[1 .. N])
  <2> HIDE DEF read
  <2> QED BY <1>2, <1>6, ReadsRun
<1> QED BY <1>1, <1>7 DEF Run

LEMMA IdsRead ==
  ASSUME NEW V, NEW r \in ReaderOf(V), NEW N \in Int
  PROVE  Reads(r, ReadMany(ReadTileId, N, r), Seq(Seq(Int)))
<1> DEFINE read == [s \in ReaderOf(Seq(Seq(Int))) |-> ReadTileId(s)]
<1>1. Run(r, N, Seq(Int), read, ReadMany(ReadTileId, N, r))
  BY ReadManyIds
<1>2. \A q \in ReaderOf(Seq(Seq(Int))) : Reads(q, read[q], Seq(Int))
  BY IdReads
<1> HIDE DEF read
<1> QED BY <1>1, <1>2, RunReads

LEMMA IdsFollow ==
  ASSUME NEW V, NEW r \in ReaderOf(V), NEW rest \in Seq(Int),
         NEW ids \in Seq(TileIds), NEW x \in Seq(Int)
  PROVE  Follows(r, ReadMany(ReadTileId, Len(ids), r), rest, FlattenSeq(ids) \o x, ids, x, TRUE)
<1> DEFINE read == [s \in ReaderOf(Seq(Seq(Int))) |-> ReadTileId(s)]
           n == Len(ids)
<1>0. n \in Int /\ ids \in Seq(Seq(Int))
  <2>1. TileIds \subseteq Seq(Int)
    BY IdsAreSeqs
  <2> QED BY <2>1, SeqMonotonic
<1>1. Run(r, n, Seq(Int), read, ReadMany(ReadTileId, n, r))
  <2> HIDE DEF n
  <2> QED BY <1>0, ReadManyIds
<1>2. ASSUME NEW k \in 1 .. n, NEW q \in ReaderOf(Seq(Seq(Int))), NEW z \in Seq(Int)
      PROVE  Follows(q, read[q], rest, ids[k] \o z, ids[k], z, TRUE)
  <2>1. ids[k] \in TileIds
    OBVIOUS
  <2>2. Follows(q, ReadTileId(q), rest, ids[k] \o z, ids[k], z, TRUE)
    BY <2>1, IdFollows
  <2> QED BY <2>2
<1> HIDE DEF read
<1> QED BY <1>0, <1>1, <1>2, ListFollows
\* No count of it is above kMaxArrayCount.
MeshFits(m) == Len(m.vertices) <= MaxArrayCount /\ Len(m.indices) <= MaxArrayCount
LODFits(l) ==
  /\ Len(l.meshes) <= MaxArrayCount
  /\ \A i \in 1 .. Len(l.meshes) : MeshFits(l.meshes[i])

\* A reader that has put together what it read.
With(s, v) == [s EXCEPT !.value = v]

LEMMA WithIs ==
  ASSUME NEW V, NEW T, NEW s \in ReaderOf(V), NEW v \in T
  PROVE  /\ With(s, v) \in ReaderOf(T) /\ With(s, v).value = v
         /\ With(s, v).left = s.left /\ (Ok(With(s, v)) <=> Ok(s))
<1>1. With(s, v) \in ReaderOf(T)
  BY DEF With, ReaderOf
<1>2. /\ With(s, v).value = v /\ With(s, v).left = s.left
      /\ With(s, v).good = s.good /\ With(s, v).corrupted = s.corrupted
  BY DEF With, ReaderOf
<1> QED BY <1>1, <1>2 DEF Ok

LEMMA WithKeeps ==
  ASSUME NEW V, NEW s \in ReaderOf(V), NEW v
  PROVE  With(s, v).value = v /\ With(s, v).left = s.left /\ (Ok(With(s, v)) <=> Ok(s))
<1>1. /\ With(s, v).value = v /\ With(s, v).left = s.left
      /\ With(s, v).good = s.good /\ With(s, v).corrupted = s.corrupted
  BY DEF With, ReaderOf
<1> QED BY <1>1 DEF Ok

\* Fields that are written together are read one by one.
Split2(a, b, x) == <<a, b>> \o x = <<a>> \o (<<b>> \o x)
Split3(a, b, c, x) == <<a, b, c>> \o x = <<a>> \o (<<b>> \o (<<c>> \o x))

LEMMA OneByOne ==
  ASSUME NEW a \in Int, NEW b \in Int, NEW c \in Int, NEW x \in Seq(Int)
  PROVE  /\ <<a, b>> \in Seq(Int) /\ <<a, b, c>> \in Seq(Int)
         /\ Split2(a, b, x) /\ Split3(a, b, c, x)
<1>1. <<a>> \in Seq(Int) /\ <<b>> \in Seq(Int) /\ <<c>> \in Seq(Int)
  OBVIOUS
<1>0. <<a, b>> \in Seq(Int) /\ <<b, c>> \in Seq(Int) /\ <<a, b, c>> \in Seq(Int)
  OBVIOUS
<1>2. <<a, b>> = <<a>> \o <<b>> /\ <<a, b, c>> = <<a>> \o (<<b>> \o <<c>>)
  <2>1. \A d, f \in Int : <<d, f>> = <<d>> \o <<f>>
    <3> TAKE d, f \in Int
    <3>0. <<d>> \in Seq(Int) /\ <<f>> \in Seq(Int) /\ <<d, f>> \in Seq(Int)
      OBVIOUS
    <3>6. PICK p \in Seq(Int) : p = <<d>>
      BY <3>0
    <3>7. PICK q \in Seq(Int) : q = <<f>>
      BY <3>0
    <3>8. PICK s \in Seq(Int) : s = <<d, f>>
      BY <3>0
    <3>1. p = <<d>> /\ q = <<f>> /\ s = <<d, f>>
      BY <3>6, <3>7, <3>8
    <3>2. Len(p) = 1 /\ Len(q) = 1 /\ Len(s) = 2 /\ p[1] = d /\ q[1] = f /\ s[1] = d /\ s[2] = f
      BY <3>1
    <3>3. p \o q \in Seq(Int) /\ Len(p \o q) = 2 /\ (p \o q)[1] = d /\ (p \o q)[2] = f
      BY <3>1, <3>2, ConcatProperties
    <3>4. \A i \in 1 .. 2 : i = 1 \/ i = 2
      OBVIOUS
    <3>5. s = p \o q
      BY <3>1, <3>2, <3>3, <3>4, SeqEqual
    <3> QED BY <3>1, <3>5, Zenon
  <2>2. <<b, c>> = <<b>> \o <<c>>
    BY <2>1, Zenon
  <2>9. PICK p \in Seq(Int) : p = <<a>>
    BY <1>1
  <2>10. PICK q \in Seq(Int) : q = <<b, c>>
    BY <1>0
  <2>11. PICK s \in Seq(Int) : s = <<a, b, c>>
    BY <1>0
  <2>3. p = <<a>> /\ q = <<b, c>> /\ s = <<a, b, c>>
    BY <2>9, <2>10, <2>11
  <2>4. /\ Len(p) = 1 /\ Len(q) = 2 /\ Len(s) = 3
        /\ p[1] = a /\ q[1] = b /\ q[2] = c /\ s[1] = a /\ s[2] = b /\ s[3] = c
    BY <2>3
  <2>5. /\ p \o q \in Seq(Int) /\ Len(p \o q) = 3
        /\ (p \o q)[1] = a /\ (p \o q)[2] = b /\ (p \o q)[3] = c
    BY <2>3, <2>4, ConcatProperties
  <2>6. \A i \in 1 .. 3 : i = 1 \/ i = 2 \/ i = 3
    OBVIOUS
  <2>7. s = p \o q
    BY <2>3, <2>4, <2>5, <2>6, SeqEqual
  <2>8. <<a, b>> = <<a>> \o <<b>>
    BY <2>1, Zenon
  <2> QED BY <2>2, <2>3, <2>7, <2>8, Zenon
<1>3. <<b>> \o <<c>> \in Seq(Int)
  BY <1>1, ConcatProperties
<1>4. (<<a>> \o <<b>>) \o x = <<a>> \o (<<b>> \o x)
  BY <1>1, Associative, Zenon
<1>5. (<<b>> \o <<c>>) \o x = <<b>> \o (<<c>> \o x)
  BY <1>1, Associative, Zenon
<1>6. (<<a>> \o (<<b>> \o <<c>>)) \o x = <<a>> \o ((<<b>> \o <<c>>) \o x)
  BY <1>1, <1>3, Associative, Zenon
<1>7. <<a, b>> \o x = <<a>> \o (<<b>> \o x)
  BY <1>2, <1>4, Zenon
<1>8. <<a, b, c>> \o x = <<a>> \o (<<b>> \o (<<c>> \o x))
  BY <1>2, <1>5, <1>6, Zenon
<1> QED BY <1>0, <1>7, <1>8, Zenon DEF Split2, Split3

\* ReadMesh() reads what WriteMesh() writes.
LEMMA MeshReads ==
  ASSUME NEW V, NEW r \in ReaderOf(V)
  PROVE  Reads(r, ReadMesh(r), Meshes)
<1>1. PICK a : a = ReadField(r) /\ Reads(r, a, Int)
  BY FieldReads
<1>2. PICK b : b = ReadCount(a) /\ Reads(a, b, Int)
  BY <1>1, CountReads DEF Reads
<1>3. PICK c : c = ReadCount(b) /\ Reads(b, c, Int)
  BY <1>2, CountReads DEF Reads
<1>4. b.value \in Int /\ c.value \in Int /\ a.value \in Int
  BY <1>1, <1>2, <1>3 DEF Reads, ReaderOf
<1>5. PICK d : d = ReadMany(ReadField, b.value, c) /\ Reads(c, d, Seq(Int))
  BY <1>3, <1>4, FieldsRead DEF Reads
<1>6. PICK e : e = ReadMany(ReadField, c.value, d) /\ Reads(d, e, Seq(Int))
  BY <1>4, <1>5, FieldsRead DEF Reads
<1>7. PICK v : v = [materialIndex |-> a.value, vertices |-> d.value, indices |-> e.value]
  OBVIOUS
<1>8. ReadMesh(r) = With(e, v)
  BY <1>1, <1>2, <1>3, <1>5, <1>6, <1>7, Zenon DEF ReadMesh, With
<1>9. v \in Meshes
  BY <1>4, <1>5, <1>6, <1>7 DEF Meshes, Reads, ReaderOf
<1>10. With(e, v) \in ReaderOf(Meshes) /\ (Ok(With(e, v)) <=> Ok(e))
  BY <1>6, <1>9, WithIs DEF Reads
<1> QED BY <1>1, <1>2, <1>3, <1>5, <1>6, <1>8, <1>10 DEF Reads

LEMMA MeshFollows ==
  ASSUME NEW V, NEW r \in ReaderOf(V), NEW rest \in Seq(Int),
         NEW m \in Meshes, NEW x \in Seq(Int)
  PROVE  Follows(r, ReadMesh(r), rest, WriteMesh(m) \o x, m, x, MeshFits(m))
<1> DEFINE nv == Len(m.vertices)
           ni == Len(m.indices)
<1>0. /\ m.materialIndex \in Int /\ m.vertices \in Seq(Int) /\ m.indices \in Seq(Int)
      /\ nv \in Int /\ ni \in Int
      /\ m = [materialIndex |-> m.materialIndex, vertices |-> m.vertices, indices |-> m.indices]
  BY DEF Meshes
<1>1. PICK a : a = ReadField(r) /\ Reads(r, a, Int)
  BY FieldReads
<1>2. PICK b : b = ReadCount(a) /\ Reads(a, b, Int)
  BY <1>1, CountReads DEF Reads
<1>3. PICK c : c = ReadCount(b) /\ Reads(b, c, Int)
  BY <1>2, CountReads DEF Reads
<1>4. b.value \in Int /\ c.value \in Int
  BY <1>2, <1>3 DEF Reads, ReaderOf
<1>5. PICK d : d = ReadMany(ReadField, b.value, c) /\ Reads(c, d, Seq(Int))
  BY <1>3, <1>4, FieldsRead DEF Reads
<1>6. PICK e : e = ReadMany(ReadField, c.value, d) /\ Reads(d, e, Seq(Int))
  BY <1>4, <1>5, FieldsRead DEF Reads
<1>7. PICK v : v = [materialIndex |-> a.value, vertices |-> d.value, indices |-> e.value]
  OBVIOUS
<1>8. ReadMesh(r) = With(e, v)
  BY <1>1, <1>2, <1>3, <1>5, <1>6, <1>7, Zenon DEF ReadMesh, With
<1>9. PICK y4 \in Seq(Int) : y4 = m.indices \o x
  BY <1>0, ConcatProperties
<1>10. PICK y3 \in Seq(Int) : y3 = m.vertices \o y4
  BY <1>0, <1>9, ConcatProperties
<1>11. PICK y2 \in Seq(Int) : y2 = <<ni>> \o y3
  <2>1. <<ni>> \in Seq(Int)
    BY <1>0
  <2> QED BY <1>10, <2>1, ConcatProperties
<1>12. PICK y1 \in Seq(Int) : y1 = <<nv>> \o y2
  <2>1. <<nv>> \in Seq(Int)
    BY <1>0
  <2> QED BY <1>11, <2>1, ConcatProperties
<1>13. PICK y0 : y0 = <<m.materialIndex>> \o y1
  OBVIOUS
<1> HIDE DEF nv, ni
<1>14. WriteMesh(m) \o x = y0
  <2>1. PICK p \in Seq(Int) : p = <<m.materialIndex, nv, ni>>
    <3>1. <<m.materialIndex, nv, ni>> \in Seq(Int)
      BY <1>0, OneByOne
    <3> QED BY <3>1
  <2>2. WriteMesh(m) = (p \o m.vertices) \o m.indices
    BY <2>1, Zenon DEF WriteMesh, nv, ni
  <2>3. p \o m.vertices \in Seq(Int)
    BY <1>0, <2>1, ConcatProperties
  <2>4. ((p \o m.vertices) \o m.indices) \o x = (p \o m.vertices) \o y4
    BY <1>0, <1>9, <2>3, Associative, Zenon
  <2>7. (p \o m.vertices) \o y4 = p \o (m.vertices \o y4)
    BY <1>0, <1>9, <2>1, Associative, Zenon
  <2>5. (p \o m.vertices) \o y4 = p \o y3
    BY <1>10, <2>7, Zenon
  <2>8. <<m.materialIndex, nv, ni>> \o y3 = <<m.materialIndex>> \o (<<nv>> \o (<<ni>> \o y3))
    <3>1. Split3(m.materialIndex, nv, ni, y3)
      BY <1>0, <1>10, OneByOne
    <3> QED BY <3>1 DEF Split3
  <2>6. p \o y3 = <<m.materialIndex>> \o (<<nv>> \o (<<ni>> \o y3))
    BY <2>1, <2>8, Zenon
  <2> QED BY <1>11, <1>12, <1>13, <2>2, <2>4, <2>5, <2>6, Zenon
<1>15. Follows(r, a, rest, y0, m.materialIndex, y1, TRUE)
  BY <1>0, <1>1, <1>12, <1>13, FieldFollows
<1>16. Follows(a, b, rest, y1, nv, y2, nv <= MaxArrayCount)
  BY <1>0, <1>1, <1>2, <1>11, <1>12, CountFollows DEF Reads
<1>17. Follows(b, c, rest, y2, ni, y3, ni <= MaxArrayCount)
  BY <1>0, <1>2, <1>3, <1>10, <1>11, CountFollows DEF Reads
<1>18. b.value = nv => Follows(c, d, rest, y3, m.vertices, y4, TRUE)
  BY <1>0, <1>3, <1>5, <1>9, <1>10, FieldsFollow DEF Reads, nv
<1>19. c.value = ni => Follows(d, e, rest, y4, m.indices, x, TRUE)
  BY <1>0, <1>5, <1>6, <1>9, FieldsFollow DEF Reads, ni
<1>20. (Ok(With(e, v)) <=> Ok(e)) /\ With(e, v).value = v /\ With(e, v).left = e.left
  BY <1>6, WithKeeps DEF Reads
<1>21. On(e, rest, x) => On(With(e, v), rest, x)
  BY <1>20 DEF On
<1>22. a.value = m.materialIndex /\ d.value = m.vertices /\ e.value = m.indices => v = m
  BY <1>0, <1>7
<1>23. MeshFits(m) => nv <= MaxArrayCount /\ ni <= MaxArrayCount
  BY DEF MeshFits, nv, ni
<1> QED BY <1>8, <1>14, <1>15, <1>16, <1>17, <1>18, <1>19, <1>20, <1>21, <1>22, <1>23,
           <1>5, <1>6 DEF Follows, Reads, On
LEMMA MeshesWritten ==
  ASSUME NEW m \in Meshes PROVE WriteMesh(m) \in Seq(Int)
<1>1. /\ m.materialIndex \in Int /\ m.vertices \in Seq(Int) /\ m.indices \in Seq(Int)
      /\ Len(m.vertices) \in Int /\ Len(m.indices) \in Int
  BY DEF Meshes
<1>2. <<m.materialIndex, Len(m.vertices), Len(m.indices)>> \in Seq(Int)
  BY <1>1, OneByOne
<1> QED BY <1>1, <1>2, ConcatProperties DEF WriteMesh

\* Sequences of numbers, one after the other, are one.
LEMMA FlattenTyped ==
  ASSUME NEW enc \in Seq(Seq(Int))
  PROVE  FlattenSeq(enc) \in Seq(Int)
<1> DEFINE n == Len(enc)
<1>0. n \in Nat
  OBVIOUS
<1>1. CASE enc = <<>>
  BY <1>1 DEF FlattenSeq
<1>2. CASE enc # <<>>
  <2>1. PICK f : /\ FlattenSeq(enc) = f[n]
                 /\ f[1] = enc[1]
                 /\ \A i \in 2 .. n : f[i] = f[i - 1] \o enc[i]
    BY <1>2, FlattenGrows
  <2>2. n > 0
    BY <1>0, <1>2
  <2> DEFINE Bad == {k \in 1 .. n : f[k] \notin Seq(Int)}
  <2>3. f[1] \in Seq(Int)
    <3>1. 1 \in 1 .. n
      BY <1>0, <2>2
    <3>2. enc[1] \in Seq(Int)
      BY <3>1
    <3> QED BY <2>1, <3>2
  <2>4. ASSUME NEW k \in 2 .. n, f[k - 1] \in Seq(Int) PROVE f[k] \in Seq(Int)
    <3>1. k \in 1 .. n
      BY <1>0
    <3>2. enc[k] \in Seq(Int)
      BY <3>1, ElementOfSeq
    <3>3. f[k - 1] \o enc[k] \in Seq(Int)
      BY <2>4, <3>2, ConcatProperties
    <3> QED BY <2>1, <3>3, Zenon
  <2>5. f[n] \in Seq(Int)
    <3> SUFFICES ASSUME Bad # {} PROVE FALSE
      BY <1>0, <2>2
    <3>1. PICK k \in Bad : \A j \in Bad : k <= j
      <4>1. Bad \in SUBSET Nat
        BY <1>0
      <4> HIDE DEF Bad
      <4> QED BY <4>1, SmallestNumber
    <3>2. k \in 2 .. n /\ k - 1 \in 1 .. n /\ ~(k <= k - 1) /\ f[k] \notin Seq(Int)
      BY <1>0, <2>3
    <3>3. f[k - 1] \in Seq(Int)
      BY <3>1, <3>2
    <3> QED BY <2>4, <3>2, <3>3
  <2> QED BY <2>1, <2>5
<1> QED BY <1>1, <1>2

LEMMA EncodedMeshes ==
  ASSUME NEW a \in Seq(Meshes)
  PROVE  [i \in DOMAIN a |-> WriteMesh(a[i])] \in Seq(Seq(Int))
<1>1. DOMAIN a = 1 .. Len(a) /\ Len(a) \in Nat
  OBVIOUS
<1>2. \A i \in 1 .. Len(a) : WriteMesh(a[i]) \in Seq(Int)
  BY MeshesWritten
<1> QED BY <1>1, <1>2

LEMMA ReadManyMeshes ==
  ASSUME NEW V, NEW r \in ReaderOf(V), NEW N \in Int
  PROVE  Run(r, N, Meshes, [s \in ReaderOf(Seq(Meshes)) |-> ReadMesh(s)], ReadMany(ReadMesh, N, r))
<1> DEFINE W == ReaderOf(Seq(Meshes))
           read == [s \in W |-> ReadMesh(s)]
           Solves(iter) == iter = [s \in SUBSET (1 .. N) |->
              IF s = {} THEN Cleared(r)
              ELSE Appended(iter[s \ {Max(s)}], ReadMesh(iter[s \ {Max(s)}]))]
           iter == CHOOSE iter : Solves(iter)
<1>1. ReadMany(ReadMesh, N, r) = iter[1 .. N]
  BY DEF ReadMany, FoldLeft, MapThenFoldSet, Appended, Cleared
<1>2. read \in [W -> ReaderOf(Meshes)]
  BY MeshReads DEF Reads
<1>3. \A s \in SUBSET (1 .. N) : s # {} => s \ {Max(s)} \in SUBSET (1 .. N)
  OBVIOUS
<1>4. \E it : Solves(it)
  <2>1. PICK it : ReadsAll(it, r, N, Meshes, read)
    <3> HIDE DEF read
    <3> QED BY <1>2, ReadsExist
  <2>2. \A s \in SUBSET (1 .. N) : s # {} =>
           read[it[s \ {Max(s)}]] = ReadMesh(it[s \ {Max(s)}])
    BY <1>3, <2>1 DEF ReadsAll
  <2> HIDE DEF read
  <2>3. Solves(it)
    BY <2>1, <2>2 DEF ReadsAll
  <2> QED BY <2>3
<1>5. Solves(iter)
  <2> HIDE DEF Solves
  <2> QED BY <1>4
<1> HIDE DEF iter
<1>6. ReadsFrom(iter, r, N, Meshes, read)
  BY <1>3, <1>5 DEF ReadsFrom
<1>7. \E n \in Nat : \E h, m : RunTo(h, m, n, r, N, Meshes, read, iter[1 .. N])
  <2> HIDE DEF read
  <2> QED BY <1>2, <1>6, ReadsRun
<1> QED BY <1>1, <1>7 DEF Run

LEMMA MeshesRead ==
  ASSUME NEW V, NEW r \in ReaderOf(V), NEW N \in Int
  PROVE  Reads(r, ReadMany(ReadMesh, N, r), Seq(Meshes))
<1> DEFINE read == [s \in ReaderOf(Seq(Meshes)) |-> ReadMesh(s)]
<1>1. Run(r, N, Meshes, read, ReadMany(ReadMesh, N, r))
  BY ReadManyMeshes
<1>2. \A q \in ReaderOf(Seq(Meshes)) : Reads(q, read[q], Meshes)
  BY MeshReads
<1> HIDE DEF read
<1> QED BY <1>1, <1>2, RunReads

\* A run of ReadMesh() follows all meshes of a level of detail.
LEMMA MeshesFollow ==
  ASSUME NEW V, NEW r \in ReaderOf(V), NEW rest \in Seq(Int),
         NEW a \in Seq(Meshes), NEW x \in Seq(Int)
  PROVE  Follows(r, ReadMany(ReadMesh, Len(a), r), rest,
                 FlattenSeq([i \in DOMAIN a |-> WriteMesh(a[i])]) \o x, a, x,
                 \A i \in 1 .. Len(a) : MeshFits(a[i]))
<1> DEFINE read == [s \in ReaderOf(Seq(Meshes)) |-> ReadMesh(s)]
           n == Len(a)
           enc == [i \in DOMAIN a |-> WriteMesh(a[i])]
           fits == \A i \in 1 .. n : MeshFits(a[i])
<1>0. n \in Nat /\ n \in Int /\ DOMAIN a = 1 .. n /\ \A i \in 1 .. n : a[i] \in Meshes
  OBVIOUS
<1>1. Run(r, n, Meshes, read, ReadMany(ReadMesh, n, r))
  <2> HIDE DEF n
  <2> QED BY <1>0, ReadManyMeshes
<1>2. ASSUME NEW k \in 1 .. n, NEW q \in ReaderOf(Seq(Meshes)), NEW z \in Seq(Int)
      PROVE  Follows(q, read[q], rest, enc[k] \o z, a[k], z, fits)
  <2>1. a[k] \in Meshes /\ enc[k] = WriteMesh(a[k]) /\ read[q] = ReadMesh(q)
    BY <1>0
  <2>2. Follows(q, ReadMesh(q), rest, WriteMesh(a[k]) \o z, a[k], z, MeshFits(a[k]))
    BY <2>1, MeshFollows
  <2>3. fits => MeshFits(a[k])
    OBVIOUS
  <2> HIDE DEF fits, enc, read
  <2> QED BY <2>1, <2>2, <2>3 DEF Follows
<1>3. enc \in Seq(Seq(Int)) /\ Len(enc) = n
  <2>1. \A i \in 1 .. n : WriteMesh(a[i]) \in Seq(Int)
    BY <1>0, MeshesWritten
  <2>2. enc = [i \in 1 .. n |-> WriteMesh(a[i])]
    BY <1>0
  <2>3. [i \in 1 .. n |-> WriteMesh(a[i])] \in Seq(Seq(Int))
    <3> HIDE DEF n
    <3> QED BY <1>0, <2>1
  <2>4. Len([i \in 1 .. n |-> WriteMesh(a[i])]) = n
    <3> HIDE DEF n
    <3> QED BY <1>0
  <2> QED BY <2>2, <2>3, <2>4, Zenon
<1>4. Follows(r, ReadMany(ReadMesh, n, r), rest, FlattenSeq(enc) \o x, a, x, fits)
  <2> HIDE DEF read, enc, fits
  <2> QED BY <1>0, <1>1, <1>2, <1>3, ListFollows
<1> QED BY <1>4

LEMMA CountedIs ==
  ASSUME NEW V, NEW r \in ReaderOf(V)
  PROVE  \E n : n = ReadCount(r) /\ Reads(r, n, Int) /\ n.value \in Int
BY CountReads DEF Reads, ReaderOf

\* ReadLOD() reads what WriteLOD() writes.
LEMMA LODReads ==
  ASSUME NEW V, NEW r \in ReaderOf(V)
  PROVE  Reads(r, ReadLOD(r), LODs)
<1>1. PICK a : a = ReadField(r) /\ Reads(r, a, Int)
  BY FieldReads
<1>2. PICK b : b = ReadCount(a) /\ Reads(a, b, Int)
  BY <1>1, CountReads DEF Reads
<1>3. a.value \in Int /\ b.value \in Int
  BY <1>1, <1>2 DEF Reads, ReaderOf
<1>4. PICK c : c = ReadMany(ReadMesh, b.value, b) /\ Reads(b, c, Seq(Meshes))
  BY <1>2, <1>3, MeshesRead DEF Reads
<1>5. PICK v : v = [error |-> a.value, meshes |-> c.value]
  OBVIOUS
<1>6. ReadLOD(r) = With(c, v)
  BY <1>1, <1>2, <1>4, <1>5, Zenon DEF ReadLOD, ReadCounted, With
<1>7. v \in LODs
  BY <1>3, <1>4, <1>5 DEF LODs, Reads, ReaderOf
<1>8. With(c, v) \in ReaderOf(LODs) /\ (Ok(With(c, v)) <=> Ok(c))
  BY <1>4, <1>7, WithIs DEF Reads
<1> QED BY <1>1, <1>2, <1>4, <1>6, <1>8 DEF Reads

LEMMA LODsWritten ==
  ASSUME NEW l \in LODs PROVE WriteLOD(l) \in Seq(Int)
<1>1. l.error \in Int /\ l.meshes \in Seq(Meshes) /\ Len(l.meshes) \in Int
  BY DEF LODs
<1>2. <<l.error, Len(l.meshes)>> \in Seq(Int)
  BY <1>1
<1> DEFINE enc == [i \in DOMAIN l.meshes |-> WriteMesh(l.meshes[i])]
<1>3. enc \in Seq(Seq(Int))
  BY <1>1, EncodedMeshes
<1>4. FlattenSeq(enc) \in Seq(Int)
  BY <1>3, FlattenTyped
<1> QED BY <1>2, <1>4, ConcatProperties DEF WriteLOD

LEMMA LODFollows ==
  ASSUME NEW V, NEW r \in ReaderOf(V), NEW rest \in Seq(Int),
         NEW l \in LODs, NEW x \in Seq(Int)
  PROVE  Follows(r, ReadLOD(r), rest, WriteLOD(l) \o x, l, x, LODFits(l))
<1> DEFINE n == Len(l.meshes)
           fits == \A i \in 1 .. n : MeshFits(l.meshes[i])
           enc == [i \in DOMAIN l.meshes |-> WriteMesh(l.meshes[i])]
<1>0. /\ l.error \in Int /\ l.meshes \in Seq(Meshes) /\ n \in Int
      /\ l = [error |-> l.error, meshes |-> l.meshes]
  BY DEF LODs
<1>1. PICK a : a = ReadField(r) /\ Reads(r, a, Int)
  BY FieldReads
<1>2. PICK b : b = ReadCount(a) /\ Reads(a, b, Int)
  BY <1>1, CountReads DEF Reads
<1>3. b.value \in Int
  BY <1>2 DEF Reads, ReaderOf
<1>4. PICK c : c = ReadMany(ReadMesh, b.value, b) /\ Reads(b, c, Seq(Meshes))
  BY <1>2, <1>3, MeshesRead DEF Reads
<1>5. PICK v : v = [error |-> a.value, meshes |-> c.value]
  OBVIOUS
<1>6. ReadLOD(r) = With(c, v)
  BY <1>1, <1>2, <1>4, <1>5, Zenon DEF ReadLOD, ReadCounted, With
<1>7. PICK f \in Seq(Int) : f = FlattenSeq(enc)
  <2>1. enc \in Seq(Seq(Int))
    BY <1>0, EncodedMeshes
  <2> QED BY <2>1, FlattenTyped
<1>8. PICK y2 \in Seq(Int) : y2 = f \o x
  BY <1>7, ConcatProperties
<1> HIDE DEF n, fits
<1>9. PICK y1 \in Seq(Int) : y1 = <<n>> \o y2
  <2>1. <<n>> \in Seq(Int)
    BY <1>0
  <2> QED BY <1>8, <2>1, ConcatProperties
<1>10. PICK y0 : y0 = <<l.error>> \o y1
  OBVIOUS
<1>11. WriteLOD(l) \o x = y0
  <2>1. PICK p \in Seq(Int) : p = <<l.error, n>>
    <3>1. <<l.error, n>> \in Seq(Int)
      BY <1>0
    <3> QED BY <3>1
  <2>2. WriteLOD(l) = p \o f
    BY <1>7, <2>1, Zenon DEF WriteLOD, n
  <2>3. (p \o f) \o x = p \o (f \o x)
    BY <1>7, <2>1, Associative
  <2>4. Split2(l.error, n, y2)
    BY <1>0, <1>8, OneByOne
  <2>5. p \o y2 = <<l.error>> \o (<<n>> \o y2)
    BY <2>1, <2>4, Zenon DEF Split2
  <2> QED BY <1>8, <1>9, <1>10, <2>2, <2>3, <2>5, Zenon
<1>12. Follows(r, a, rest, y0, l.error, y1, TRUE)
  BY <1>0, <1>1, <1>9, <1>10, FieldFollows
<1>13. Follows(a, b, rest, y1, n, y2, n <= MaxArrayCount)
  BY <1>0, <1>1, <1>2, <1>8, <1>9, CountFollows DEF Reads
<1>14. b.value = n => Follows(b, c, rest, y2, l.meshes, x, fits)
  <2>1. Follows(b, ReadMany(ReadMesh, n, b), rest, FlattenSeq(enc) \o x, l.meshes, x, fits)
    BY <1>0, <1>2, MeshesFollow DEF Reads, n, fits
  <2> QED BY <1>4, <1>7, <1>8, <2>1, Zenon
<1>15. (Ok(With(c, v)) <=> Ok(c)) /\ With(c, v).value = v /\ With(c, v).left = c.left
  BY <1>4, WithKeeps DEF Reads
<1>16. On(c, rest, x) => On(With(c, v), rest, x)
  BY <1>15 DEF On
<1>17. a.value = l.error /\ c.value = l.meshes => v = l
  BY <1>0, <1>5
<1>18. LODFits(l) => n <= MaxArrayCount /\ fits
  BY DEF LODFits, n, fits
<1> QED BY <1>6, <1>11, <1>12, <1>13, <1>14, <1>15, <1>16, <1>17, <1>18, <1>4 DEF Follows, Reads, On

LEMMA ReadManyLODs ==
  ASSUME NEW V, NEW r \in ReaderOf(V), NEW N \in Int
  PROVE  Run(r, N, LODs, [s \in ReaderOf(Seq(LODs)) |-> ReadLOD(s)], ReadMany(ReadLOD, N, r))
<1> DEFINE W == ReaderOf(Seq(LODs))
           read == [s \in W |-> ReadLOD(s)]
           Solves(iter) == iter = [s \in SUBSET (1 .. N) |->
              IF s = {} THEN Cleared(r)
              ELSE Appended(iter[s \ {Max(s)}], ReadLOD(iter[s \ {Max(s)}]))]
           iter == CHOOSE iter : Solves(iter)
<1>1. ReadMany(ReadLOD, N, r) = iter[1 .. N]
  BY DEF ReadMany, FoldLeft, MapThenFoldSet, Appended, Cleared
<1>2. read \in [W -> ReaderOf(LODs)]
  BY LODReads DEF Reads
<1>3. \A s \in SUBSET (1 .. N) : s # {} => s \ {Max(s)} \in SUBSET (1 .. N)
  OBVIOUS
<1>4. \E it : Solves(it)
  <2>1. PICK it : ReadsAll(it, r, N, LODs, read)
    <3> HIDE DEF read
    <3> QED BY <1>2, ReadsExist
  <2>2. \A s \in SUBSET (1 .. N) : s # {} =>
           read[it[s \ {Max(s)}]] = ReadLOD(it[s \ {Max(s)}])
    BY <1>3, <2>1 DEF ReadsAll
  <2> HIDE DEF read
  <2>3. Solves(it)
    BY <2>1, <2>2 DEF ReadsAll
  <2> QED BY <2>3
<1>5. Solves(iter)
  <2> HIDE DEF Solves
  <2> QED BY <1>4
<1> HIDE DEF iter
<1>6. ReadsFrom(iter, r, N, LODs, read)
  BY <1>3, <1>5 DEF ReadsFrom
<1>7. \E n \in Nat : \E h, m : RunTo(h, m, n, r, N, LODs, read, iter[1 .. N])
  <2> HIDE DEF read
  <2> QED BY <1>2, <1>6, ReadsRun
<1> QED BY <1>1, <1>7 DEF Run

LEMMA LODsRead ==
  ASSUME NEW V, NEW r \in ReaderOf(V), NEW N \in Int
  PROVE  Reads(r, ReadMany(ReadLOD, N, r), Seq(LODs))
<1> DEFINE read == [s \in ReaderOf(Seq(LODs)) |-> ReadLOD(s)]
<1>1. Run(r, N, LODs, read, ReadMany(ReadLOD, N, r))
  BY ReadManyLODs
<1>2. \A q \in ReaderOf(Seq(LODs)) : Reads(q, read[q], LODs)
  BY LODReads
<1> HIDE DEF read
<1> QED BY <1>1, <1>2, RunReads

\* A run of ReadLOD() follows all levels of detail of a tile.
LEMMA LODsFollow ==
  ASSUME NEW V, NEW r \in ReaderOf(V), NEW rest \in Seq(Int),
         NEW a \in Seq(LODs), NEW x \in Seq(Int)
  PROVE  Follows(r, ReadMany(ReadLOD, Len(a), r), rest,
                 FlattenSeq([i \in DOMAIN a |-> WriteLOD(a[i])]) \o x, a, x,
                 \A i \in 1 .. Len(a) : LODFits(a[i]))
<1> DEFINE read == [s \in ReaderOf(Seq(LODs)) |-> ReadLOD(s)]
           n == Len(a)
           enc == [i \in DOMAIN a |-> WriteLOD(a[i])]
           fits == \A i \in 1 .. n : LODFits(a[i])
<1>0. n \in Nat /\ n \in Int /\ DOMAIN a = 1 .. n /\ \A i \in 1 .. n : a[i] \in LODs
  OBVIOUS
<1>1. Run(r, n, LODs, read, ReadMany(ReadLOD, n, r))
  <2> HIDE DEF n
  <2> QED BY <1>0, ReadManyLODs
<1>2. ASSUME NEW k \in 1 .. n, NEW q \in ReaderOf(Seq(LODs)), NEW z \in Seq(Int)
      PROVE  Follows(q, read[q], rest, enc[k] \o z, a[k], z, fits)
  <2>1. a[k] \in LODs /\ enc[k] = WriteLOD(a[k]) /\ read[q] = ReadLOD(q)
    BY <1>0
  <2>2. Follows(q, ReadLOD(q), rest, WriteLOD(a[k]) \o z, a[k], z, LODFits(a[k]))
    BY <2>1, LODFollows
  <2>3. fits => LODFits(a[k])
    OBVIOUS
  <2> HIDE DEF fits, enc, read
  <2> QED BY <2>1, <2>2, <2>3 DEF Follows
<1>3. enc \in Seq(Seq(Int)) /\ Len(enc) = n
  <2>1. \A i \in 1 .. n : WriteLOD(a[i]) \in Seq(Int)
    BY <1>0, LODsWritten
  <2>2. enc = [i \in 1 .. n |-> WriteLOD(a[i])]
    BY <1>0
  <2>3. [i \in 1 .. n |-> WriteLOD(a[i])] \in Seq(Seq(Int))
    <3> HIDE DEF n
    <3> QED BY <1>0, <2>1
  <2>4. Len([i \in 1 .. n |-> WriteLOD(a[i])]) = n
    <3> HIDE DEF n
    <3> QED BY <1>0
  <2> QED BY <2>2, <2>3, <2>4, Zenon
<1>4. Follows(r, ReadMany(ReadLOD, n, r), rest, FlattenSeq(enc) \o x, a, x, fits)
  <2> HIDE DEF read, enc, fits
  <2> QED BY <1>0, <1>1, <1>2, <1>3, ListFollows
<1> QED BY <1>4
\* Neither is one of a tile.
TileFits(t) ==
  /\ Len(t.children) <= MaxArrayCount /\ Len(t.lods) <= MaxArrayCount
  /\ Len(t.materials) <= MaxArrayCount /\ Len(t.metadata) \div 2 <= MaxArrayCount
  /\ \A i \in 1 .. Len(t.lods) : LODFits(t.lods[i])

Assoc(s, t, u) == (s \o t) \o u = s \o (t \o u)

LEMMA Assocs ==
  ASSUME NEW s \in Seq(Int), NEW t \in Seq(Int), NEW u \in Seq(Int)
  PROVE  Assoc(s, t, u)
BY Associative, Zenon DEF Assoc

LEMMA BoundsAreSeqs ==
  ASSUME NEW b \in [1 .. 4 -> Int]
  PROVE  b \in Seq(Int) /\ Len(b) = 4
<1>1. b = [i \in 1 .. 4 |-> b[i]] /\ \A i \in 1 .. 4 : b[i] \in Int
  OBVIOUS
<1>2. [i \in 1 .. 4 |-> b[i]] \in Seq(Int) /\ Len([i \in 1 .. 4 |-> b[i]]) = 4
  BY <1>1
<1> QED BY <1>1, <1>2, Zenon

LEMMA EncodedLODs ==
  ASSUME NEW a \in Seq(LODs)
  PROVE  [i \in DOMAIN a |-> WriteLOD(a[i])] \in Seq(Seq(Int))
<1>1. DOMAIN a = 1 .. Len(a) /\ Len(a) \in Nat
  OBVIOUS
<1>2. \A i \in 1 .. Len(a) : WriteLOD(a[i]) \in Seq(Int)
  BY LODsWritten
<1> QED BY <1>1, <1>2

\* The fields of a tile after the version, one thing after the other.
FlatLODs(t) == FlattenSeq([l \in DOMAIN t.lods |-> WriteLOD(t.lods[l])])

FromMetadata(t) == t.metadata \o <<>>
FromMetadataCount(t) == <<Len(t.metadata) \div 2>> \o FromMetadata(t)
FromMaterials(t) == t.materials \o FromMetadataCount(t)
FromMaterialCount(t) == <<Len(t.materials)>> \o FromMaterials(t)
FromLODs(t) == FlatLODs(t) \o FromMaterialCount(t)
FromLODCount(t) == <<Len(t.lods)>> \o FromLODs(t)
FromBounds(t) == t.bounds \o FromLODCount(t)
FromChildren(t) == FlattenSeq(t.children) \o FromBounds(t)
FromChildCount(t) == <<Len(t.children)>> \o FromChildren(t)
FromParent(t) == FlattenSeq(t.parent) \o FromChildCount(t)
FromParentFlag(t) == <<Len(t.parent)>> \o FromParent(t)
FromId(t) == t.id \o FromParentFlag(t)
FromVersion(t) == <<Version>> \o FromId(t)

\* The lists that a tile is written as.
Lists(t) ==
  /\ t.id \in Seq(Int) /\ t.bounds \in Seq(Int) /\ t.materials \in Seq(Int)
  /\ t.metadata \in Seq(Int) /\ FlatLODs(t) \in Seq(Int)
  /\ FlattenSeq(t.parent) \in Seq(Int) /\ FlattenSeq(t.children) \in Seq(Int)
  /\ <<Len(t.parent)>> \in Seq(Int) /\ <<Len(t.children)>> \in Seq(Int)
  /\ <<Len(t.lods)>> \in Seq(Int) /\ <<Len(t.materials)>> \in Seq(Int)
  /\ <<Len(t.metadata) \div 2>> \in Seq(Int)
  /\ <<Version>> \in Seq(Int) /\ <<Magic>> \in Seq(Int)

LEMMA TileLists == ASSUME NEW t \in Tiles PROVE Lists(t)
<1>1. /\ t.id \in TileIds /\ t.parent \in Seq(TileIds) /\ t.children \in Seq(TileIds)
      /\ t.bounds \in [1 .. 4 -> Int] /\ t.lods \in Seq(LODs)
      /\ t.materials \in Seq(Int) /\ t.metadata \in Seq(Int)
  BY DEF Tiles
<1>2. t.id \in Seq(Int) /\ t.bounds \in Seq(Int)
  BY <1>1, IdsAreSeqs, BoundsAreSeqs
<1>3. t.parent \in Seq(Seq(Int)) /\ t.children \in Seq(Seq(Int))
  <2>1. TileIds \subseteq Seq(Int)
    BY IdsAreSeqs
  <2> QED BY <1>1, <2>1, SeqMonotonic
<1>4. FlattenSeq(t.parent) \in Seq(Int) /\ FlattenSeq(t.children) \in Seq(Int)
  BY <1>3, FlattenTyped
<1>5. FlatLODs(t) \in Seq(Int)
  <2>1. [l \in DOMAIN t.lods |-> WriteLOD(t.lods[l])] \in Seq(Seq(Int))
    BY <1>1, EncodedLODs
  <2> QED BY <2>1, FlattenTyped DEF FlatLODs
<1>6. \A n \in Int : <<n>> \in Seq(Int)
  OBVIOUS
<1>7. /\ Len(t.parent) \in Int /\ Len(t.children) \in Int /\ Len(t.lods) \in Int
      /\ Len(t.materials) \in Int
  BY <1>1
<1>8. Len(t.metadata) \div 2 \in Int
  <2>1. Len(t.metadata) \in Nat
    BY <1>1
  <2> QED BY <2>1
<1>9. Version \in Int /\ Magic \in Int
  BY FormatAssumption DEF Magic
<1> QED BY <1>1, <1>2, <1>4, <1>5, <1>6, <1>7, <1>8, <1>9, Zenon DEF Lists

\* So are all that is left of it before each of the reads.
Rests(t) ==
  /\ FromVersion(t) \in Seq(Int)
  /\ FromId(t) \in Seq(Int)
  /\ FromParentFlag(t) \in Seq(Int)
  /\ FromParent(t) \in Seq(Int)
  /\ FromChildCount(t) \in Seq(Int)
  /\ FromChildren(t) \in Seq(Int)
  /\ FromBounds(t) \in Seq(Int)
  /\ FromLODCount(t) \in Seq(Int)
  /\ FromLODs(t) \in Seq(Int)
  /\ FromMaterialCount(t) \in Seq(Int)
  /\ FromMaterials(t) \in Seq(Int)
  /\ FromMetadataCount(t) \in Seq(Int)
  /\ FromMetadata(t) \in Seq(Int)

LEMMA RestsTyped == ASSUME NEW t \in Tiles PROVE Rests(t)
<1>0. Lists(t) /\ <<>> \in Seq(Int)
  BY TileLists
<1>112. FromMetadata(t) \in Seq(Int)
  <2>1. t.metadata \in Seq(Int)
    BY <1>0, Zenon DEF Lists
  <2> QED BY <1>0, <2>1, ConcatProperties DEF FromMetadata
<1>111. FromMetadataCount(t) \in Seq(Int)
  <2>1. <<Len(t.metadata) \div 2>> \in Seq(Int)
    BY <1>0, Zenon DEF Lists
  <2> QED BY <1>0, <1>112, <2>1, ConcatProperties DEF FromMetadataCount
<1>110. FromMaterials(t) \in Seq(Int)
  <2>1. t.materials \in Seq(Int)
    BY <1>0, Zenon DEF Lists
  <2> QED BY <1>0, <1>111, <2>1, ConcatProperties DEF FromMaterials
<1>109. FromMaterialCount(t) \in Seq(Int)
  <2>1. <<Len(t.materials)>> \in Seq(Int)
    BY <1>0, Zenon DEF Lists
  <2> QED BY <1>0, <1>110, <2>1, ConcatProperties DEF FromMaterialCount
<1>108. FromLODs(t) \in Seq(Int)
  <2>1. FlatLODs(t) \in Seq(Int)
    BY <1>0, Zenon DEF Lists
  <2> QED BY <1>0, <1>109, <2>1, ConcatProperties DEF FromLODs
<1>107. FromLODCount(t) \in Seq(Int)
  <2>1. <<Len(t.lods)>> \in Seq(Int)
    BY <1>0, Zenon DEF Lists
  <2> QED BY <1>0, <1>108, <2>1, ConcatProperties DEF FromLODCount
<1>106. FromBounds(t) \in Seq(Int)
  <2>1. t.bounds \in Seq(Int)
    BY <1>0, Zenon DEF Lists
  <2> QED BY <1>0, <1>107, <2>1, ConcatProperties DEF FromBounds
<1>105. FromChildren(t) \in Seq(Int)
  <2>1. FlattenSeq(t.children) \in Seq(Int)
    BY <1>0, Zenon DEF Lists
  <2> QED BY <1>0, <1>106, <2>1, ConcatProperties DEF FromChildren
<1>104. FromChildCount(t) \in Seq(Int)
  <2>1. <<Len(t.children)>> \in Seq(Int)
    BY <1>0, Zenon DEF Lists
  <2> QED BY <1>0, <1>105, <2>1, ConcatProperties DEF FromChildCount
<1>103. FromParent(t) \in Seq(Int)
  <2>1. FlattenSeq(t.parent) \in Seq(Int)
    BY <1>0, Zenon DEF Lists
  <2> QED BY <1>0, <1>104, <2>1, ConcatProperties DEF FromParent
<1>102. FromParentFlag(t) \in Seq(Int)
  <2>1. <<Len(t.parent)>> \in Seq(Int)
    BY <1>0, Zenon DEF Lists
  <2> QED BY <1>0, <1>103, <2>1, ConcatProperties DEF FromParentFlag
<1>101. FromId(t) \in Seq(Int)
  <2>1. t.id \in Seq(Int)
    BY <1>0, Zenon DEF Lists
  <2> QED BY <1>0, <1>102, <2>1, ConcatProperties DEF FromId
<1>100. FromVersion(t) \in Seq(Int)
  <2>1. <<Version>> \in Seq(Int)
    BY <1>0, Zenon DEF Lists
  <2> QED BY <1>0, <1>101, <2>1, ConcatProperties DEF FromVersion
<1> QED BY <1>100, <1>101, <1>102, <1>103, <1>104, <1>105, <1>106, <1>107, <1>108, <1>109, <1>110, <1>111, <1>112, Zenon DEF Rests

\* Written at once or piece by piece, it is the same file.
LEMMA TileInPieces ==
  ASSUME NEW t \in Tiles
  PROVE  WriteTile(t) = <<Magic>> \o FromVersion(t)
<1>0. Lists(t) /\ Rests(t)
  BY TileLists, RestsTyped
<1>113. PICK z13 \in Seq(Int) : z13 = <<>>
  <2>1. <<>> \in Seq(Int)
    OBVIOUS
  <2> QED BY <2>1
<1>112. PICK z12 \in Seq(Int) : z12 = FromMetadata(t)
  <2>1. FromMetadata(t) \in Seq(Int)
    BY <1>0, Zenon DEF Rests
  <2> QED BY <2>1
<1>111. PICK z11 \in Seq(Int) : z11 = FromMetadataCount(t)
  <2>1. FromMetadataCount(t) \in Seq(Int)
    BY <1>0, Zenon DEF Rests
  <2> QED BY <2>1
<1>110. PICK z10 \in Seq(Int) : z10 = FromMaterials(t)
  <2>1. FromMaterials(t) \in Seq(Int)
    BY <1>0, Zenon DEF Rests
  <2> QED BY <2>1
<1>109. PICK z9 \in Seq(Int) : z9 = FromMaterialCount(t)
  <2>1. FromMaterialCount(t) \in Seq(Int)
    BY <1>0, Zenon DEF Rests
  <2> QED BY <2>1
<1>108. PICK z8 \in Seq(Int) : z8 = FromLODs(t)
  <2>1. FromLODs(t) \in Seq(Int)
    BY <1>0, Zenon DEF Rests
  <2> QED BY <2>1
<1>107. PICK z7 \in Seq(Int) : z7 = FromLODCount(t)
  <2>1. FromLODCount(t) \in Seq(Int)
    BY <1>0, Zenon DEF Rests
  <2> QED BY <2>1
<1>106. PICK z6 \in Seq(Int) : z6 = FromBounds(t)
  <2>1. FromBounds(t) \in Seq(Int)
    BY <1>0, Zenon DEF Rests
  <2> QED BY <2>1
<1>105. PICK z5 \in Seq(Int) : z5 = FromChildren(t)
  <2>1. FromChildren(t) \in Seq(Int)
    BY <1>0, Zenon DEF Rests
  <2> QED BY <2>1
<1>104. PICK z4 \in Seq(Int) : z4 = FromChildCount(t)
  <2>1. FromChildCount(t) \in Seq(Int)
    BY <1>0, Zenon DEF Rests
  <2> QED BY <2>1
<1>103. PICK z3 \in Seq(Int) : z3 = FromParent(t)
  <2>1. FromParent(t) \in Seq(Int)
    BY <1>0, Zenon DEF Rests
  <2> QED BY <2>1
<1>102. PICK z2 \in Seq(Int) : z2 = FromParentFlag(t)
  <2>1. FromParentFlag(t) \in Seq(Int)
    BY <1>0, Zenon DEF Rests
  <2> QED BY <2>1
<1>101. PICK z1 \in Seq(Int) : z1 = FromId(t)
  <2>1. FromId(t) \in Seq(Int)
    BY <1>0, Zenon DEF Rests
  <2> QED BY <2>1
<1>100. PICK z0 \in Seq(Int) : z0 = FromVersion(t)
  <2>1. FromVersion(t) \in Seq(Int)
    BY <1>0, Zenon DEF Rests
  <2> QED BY <2>1
<1>212. z12 = t.metadata \o z13
  BY <1>112, <1>113, Zenon DEF FromMetadata
<1>211. z11 = <<Len(t.metadata) \div 2>> \o z12
  BY <1>111, <1>112, Zenon DEF FromMetadataCount
<1>210. z10 = t.materials \o z11
  BY <1>110, <1>111, Zenon DEF FromMaterials
<1>209. z9 = <<Len(t.materials)>> \o z10
  BY <1>109, <1>110, Zenon DEF FromMaterialCount
<1>208. z8 = FlatLODs(t) \o z9
  BY <1>108, <1>109, Zenon DEF FromLODs
<1>207. z7 = <<Len(t.lods)>> \o z8
  BY <1>107, <1>108, Zenon DEF FromLODCount
<1>206. z6 = t.bounds \o z7
  BY <1>106, <1>107, Zenon DEF FromBounds
<1>205. z5 = FlattenSeq(t.children) \o z6
  BY <1>105, <1>106, Zenon DEF FromChildren
<1>204. z4 = <<Len(t.children)>> \o z5
  BY <1>104, <1>105, Zenon DEF FromChildCount
<1>203. z3 = FlattenSeq(t.parent) \o z4
  BY <1>103, <1>104, Zenon DEF FromParent
<1>202. z2 = <<Len(t.parent)>> \o z3
  BY <1>102, <1>103, Zenon DEF FromParentFlag
<1>201. z1 = t.id \o z2
  BY <1>101, <1>102, Zenon DEF FromId
<1>200. z0 = <<Version>> \o z1
  BY <1>100, <1>101, Zenon DEF FromVersion
<1>30. PICK w1 \in Seq(Int) : w1 = WithCount(t.parent)
  <2>1. <<Len(t.parent)>> \o FlattenSeq(t.parent) \in Seq(Int)
    BY <1>0, ConcatProperties DEF Lists
  <2> QED BY <2>1 DEF WithCount
<1>31. PICK w2 \in Seq(Int) : w2 = WithCount(t.children)
  <2>1. <<Len(t.children)>> \o FlattenSeq(t.children) \in Seq(Int)
    BY <1>0, ConcatProperties DEF Lists
  <2> QED BY <2>1 DEF WithCount
<1>32. w1 \o z4 = z2
  <2>1. PICK a \in Seq(Int) : a = <<Len(t.parent)>>
    BY <1>0, Zenon DEF Lists
  <2>2. PICK b \in Seq(Int) : b = FlattenSeq(t.parent)
    BY <1>0, Zenon DEF Lists
  <2>3. Assoc(a, b, z4)
    BY Assocs, Zenon
  <2> QED BY <1>30, <1>202, <1>203, <2>1, <2>2, <2>3, Zenon DEF WithCount, Assoc
<1>33. w2 \o z6 = z4
  <2>1. PICK a \in Seq(Int) : a = <<Len(t.children)>>
    BY <1>0, Zenon DEF Lists
  <2>2. PICK b \in Seq(Int) : b = FlattenSeq(t.children)
    BY <1>0, Zenon DEF Lists
  <2>3. Assoc(a, b, z6)
    BY Assocs, Zenon
  <2> QED BY <1>31, <1>204, <1>205, <2>1, <2>2, <2>3, Zenon DEF WithCount, Assoc
<1>41. PICK q1 \in Seq(Int) : q1 = <<Magic, Version>>
  <2>1. Magic \in Int /\ Version \in Int
    BY FormatAssumption DEF Magic
  <2>2. <<Magic, Version>> \in Seq(Int)
    BY <2>1
  <2> QED BY <2>2
<1>42. PICK q2 \in Seq(Int) : q2 = q1 \o t.id /\ q2 \o z2 = q1 \o z1
  <2>1. PICK a \in Seq(Int) : a = t.id
    BY <1>0, Zenon DEF Lists
  <2>2. a \o z2 = z1
    BY <2>1, <1>201, Zenon
  <2>3. Assoc(q1, a, z2)
    BY Assocs, Zenon
  <2>4. q1 \o a \in Seq(Int)
    BY ConcatProperties, Zenon
  <2>5. (q1 \o a) \o z2 = q1 \o z1
    BY <2>2, <2>3, Zenon DEF Assoc
  <2> QED BY <2>1, <2>4, <2>5, Zenon
<1>43. PICK q3 \in Seq(Int) : q3 = q2 \o w1 /\ q3 \o z4 = q1 \o z1
  <2>1. PICK a \in Seq(Int) : a = w1
    OBVIOUS
  <2>2. a \o z4 = z2
    BY <2>1, <1>32, Zenon
  <2>3. Assoc(q2, a, z4)
    BY Assocs, Zenon
  <2>4. q2 \o a \in Seq(Int)
    BY ConcatProperties, Zenon
  <2>5. (q2 \o a) \o z4 = q2 \o z2
    BY <2>2, <2>3, Zenon DEF Assoc
  <2> QED BY <1>42, <2>1, <2>4, <2>5, Zenon
<1>44. PICK q4 \in Seq(Int) : q4 = q3 \o w2 /\ q4 \o z6 = q1 \o z1
  <2>1. PICK a \in Seq(Int) : a = w2
    OBVIOUS
  <2>2. a \o z6 = z4
    BY <2>1, <1>33, Zenon
  <2>3. Assoc(q3, a, z6)
    BY Assocs, Zenon
  <2>4. q3 \o a \in Seq(Int)
    BY ConcatProperties, Zenon
  <2>5. (q3 \o a) \o z6 = q3 \o z4
    BY <2>2, <2>3, Zenon DEF Assoc
  <2> QED BY <1>43, <2>1, <2>4, <2>5, Zenon
<1>45. PICK q5 \in Seq(Int) : q5 = q4 \o t.bounds /\ q5 \o z7 = q1 \o z1
  <2>1. PICK a \in Seq(Int) : a = t.bounds
    BY <1>0, Zenon DEF Lists
  <2>2. a \o z7 = z6
    BY <2>1, <1>206, Zenon
  <2>3. Assoc(q4, a, z7)
    BY Assocs, Zenon
  <2>4. q4 \o a \in Seq(Int)
    BY ConcatProperties, Zenon
  <2>5. (q4 \o a) \o z7 = q4 \o z6
    BY <2>2, <2>3, Zenon DEF Assoc
  <2> QED BY <1>44, <2>1, <2>4, <2>5, Zenon
<1>46. PICK q6 \in Seq(Int) : q6 = q5 \o <<Len(t.lods)>> /\ q6 \o z8 = q1 \o z1
  <2>1. PICK a \in Seq(Int) : a = <<Len(t.lods)>>
    BY <1>0, Zenon DEF Lists
  <2>2. a \o z8 = z7
    BY <2>1, <1>207, Zenon
  <2>3. Assoc(q5, a, z8)
    BY Assocs, Zenon
  <2>4. q5 \o a \in Seq(Int)
    BY ConcatProperties, Zenon
  <2>5. (q5 \o a) \o z8 = q5 \o z7
    BY <2>2, <2>3, Zenon DEF Assoc
  <2> QED BY <1>45, <2>1, <2>4, <2>5, Zenon
<1>47. PICK q7 \in Seq(Int) : q7 = q6 \o FlatLODs(t) /\ q7 \o z9 = q1 \o z1
  <2>1. PICK a \in Seq(Int) : a = FlatLODs(t)
    BY <1>0, Zenon DEF Lists
  <2>2. a \o z9 = z8
    BY <2>1, <1>208, Zenon
  <2>3. Assoc(q6, a, z9)
    BY Assocs, Zenon
  <2>4. q6 \o a \in Seq(Int)
    BY ConcatProperties, Zenon
  <2>5. (q6 \o a) \o z9 = q6 \o z8
    BY <2>2, <2>3, Zenon DEF Assoc
  <2> QED BY <1>46, <2>1, <2>4, <2>5, Zenon
<1>48. PICK q8 \in Seq(Int) : q8 = q7 \o <<Len(t.materials)>> /\ q8 \o z10 = q1 \o z1
  <2>1. PICK a \in Seq(Int) : a = <<Len(t.materials)>>
    BY <1>0, Zenon DEF Lists
  <2>2. a \o z10 = z9
    BY <2>1, <1>209, Zenon
  <2>3. Assoc(q7, a, z10)
    BY Assocs, Zenon
  <2>4. q7 \o a \in Seq(Int)
    BY ConcatProperties, Zenon
  <2>5. (q7 \o a) \o z10 = q7 \o z9
    BY <2>2, <2>3, Zenon DEF Assoc
  <2> QED BY <1>47, <2>1, <2>4, <2>5, Zenon
<1>49. PICK q9 \in Seq(Int) : q9 = q8 \o t.materials /\ q9 \o z11 = q1 \o z1
  <2>1. PICK a \in Seq(Int) : a = t.materials
    BY <1>0, Zenon DEF Lists
  <2>2. a \o z11 = z10
    BY <2>1, <1>210, Zenon
  <2>3. Assoc(q8, a, z11)
    BY Assocs, Zenon
  <2>4. q8 \o a \in Seq(Int)
    BY ConcatProperties, Zenon
  <2>5. (q8 \o a) \o z11 = q8 \o z10
    BY <2>2, <2>3, Zenon DEF Assoc
  <2> QED BY <1>48, <2>1, <2>4, <2>5, Zenon
<1>50. PICK q10 \in Seq(Int) : q10 = q9 \o <<Len(t.metadata) \div 2>> /\ q10 \o z12 = q1 \o z1
  <2>1. PICK a \in Seq(Int) : a = <<Len(t.metadata) \div 2>>
    BY <1>0, Zenon DEF Lists
  <2>2. a \o z12 = z11
    BY <2>1, <1>211, Zenon
  <2>3. Assoc(q9, a, z12)
    BY Assocs, Zenon
  <2>4. q9 \o a \in Seq(Int)
    BY ConcatProperties, Zenon
  <2>5. (q9 \o a) \o z12 = q9 \o z11
    BY <2>2, <2>3, Zenon DEF Assoc
  <2> QED BY <1>49, <2>1, <2>4, <2>5, Zenon
<1>51. PICK q11 \in Seq(Int) : q11 = q10 \o t.metadata /\ q11 \o z13 = q1 \o z1
  <2>1. PICK a \in Seq(Int) : a = t.metadata
    BY <1>0, Zenon DEF Lists
  <2>2. a \o z13 = z12
    BY <2>1, <1>212, Zenon
  <2>3. Assoc(q10, a, z13)
    BY Assocs, Zenon
  <2>4. q10 \o a \in Seq(Int)
    BY ConcatProperties, Zenon
  <2>5. (q10 \o a) \o z13 = q10 \o z12
    BY <2>2, <2>3, Zenon DEF Assoc
  <2> QED BY <1>50, <2>1, <2>4, <2>5, Zenon
<1>60. WriteTile(t) = q11
  BY <1>30, <1>31, <1>41, <1>42, <1>43, <1>44, <1>45, <1>46, <1>47, <1>48, <1>49, <1>50, <1>51, Zenon DEF WriteTile, FlatLODs
<1>61. q11 \o z13 = q11
  BY <1>113, ConcatEmptySeq
<1>62. q1 \o z1 = <<Magic>> \o z0
  <2>1. Magic \in Int /\ Version \in Int
    BY FormatAssumption DEF Magic
  <2>2. Split2(Magic, Version, z1)
    BY <2>1, OneByOne
  <2>3. <<Magic, Version>> \o z1 = <<Magic>> \o (<<Version>> \o z1)
    BY <2>2, Zenon DEF Split2
  <2> QED BY <1>41, <1>200, <2>3, Zenon
<1>63. q11 = <<Magic>> \o z0
  BY <1>61, <1>62, <1>51, Zenon
<1> QED BY <1>100, <1>60, <1>63, Zenon
\* The body of loadTile() reads what saveTile() writes after the version: one step
\* per read, in the order of the code.
LEMMA TileFollows ==
  ASSUME NEW V, NEW r \in ReaderOf(V), NEW rest \in Seq(Int), NEW t \in Tiles
  PROVE  Follows(r, ReadTile(r), rest, FromId(t), t, <<>>, TileFits(t))
<1> DEFINE c == ReadTileId(r)
           d == ReadField(c)
           some == IF d.value = 0 THEN 0 ELSE 1
           e == ReadMany(ReadTileId, some, d)
           f == ReadCount(e)
           g == ReadMany(ReadTileId, f.value, f)
           h == ReadMany(ReadField, 4, g)
           i == ReadCount(h)
           j == ReadMany(ReadLOD, i.value, i)
           k == ReadCount(j)
           l == ReadMany(ReadField, k.value, k)
           m == ReadCount(l)
           twice == 2 * m.value
           n == ReadMany(ReadField, twice, m)
           v == [id |-> c.value, parent |-> e.value, children |-> g.value,
                 bounds |-> h.value, lods |-> j.value,
                 materials |-> l.value, metadata |-> n.value]
<1>16. ReadTile(r) = With(n, v)
  BY Zenon DEF ReadTile, ReadCounted, With
<1> HIDE DEF c, d, some, e, f, g, h, i, j, k, l, m, twice, n, v
<1>1. c = ReadTileId(r) /\ Reads(r, c, Seq(Int))
  BY IdReads DEF c
<1>2. d = ReadField(c) /\ Reads(c, d, Int)
  BY <1>1, FieldReads DEF Reads, d
<1>3. some \in Int /\ some = IF d.value = 0 THEN 0 ELSE 1
  BY DEF some
<1>4. e = ReadMany(ReadTileId, some, d) /\ Reads(d, e, Seq(Seq(Int)))
  BY <1>2, <1>3, IdsRead DEF Reads, e
<1>5. f = ReadCount(e) /\ Reads(e, f, Int) /\ f.value \in Int
  BY <1>4, CountedIs DEF Reads, f
<1>6. g = ReadMany(ReadTileId, f.value, f) /\ Reads(f, g, Seq(Seq(Int)))
  BY <1>5, IdsRead DEF Reads, g
<1>7. h = ReadMany(ReadField, 4, g) /\ Reads(g, h, Seq(Int))
  <2>1. 4 \in Int
    OBVIOUS
  <2> QED BY <1>6, <2>1, FieldsRead DEF Reads, h
<1>8. i = ReadCount(h) /\ Reads(h, i, Int) /\ i.value \in Int
  BY <1>7, CountedIs DEF Reads, i
<1>9. j = ReadMany(ReadLOD, i.value, i) /\ Reads(i, j, Seq(LODs))
  BY <1>8, LODsRead DEF Reads, j
<1>10. k = ReadCount(j) /\ Reads(j, k, Int) /\ k.value \in Int
  BY <1>9, CountedIs DEF Reads, k
<1>11. l = ReadMany(ReadField, k.value, k) /\ Reads(k, l, Seq(Int))
  BY <1>10, FieldsRead DEF Reads, l
<1>12. m = ReadCount(l) /\ Reads(l, m, Int) /\ m.value \in Int
  BY <1>11, CountedIs DEF Reads, m
<1>13. twice = 2 * m.value /\ twice \in Int
  BY <1>12 DEF twice
<1>14. n = ReadMany(ReadField, twice, m) /\ Reads(m, n, Seq(Int))
  BY <1>12, <1>13, FieldsRead DEF Reads, n
<1>15. v = [id |-> c.value, parent |-> e.value, children |-> g.value,
                 bounds |-> h.value, lods |-> j.value,
                 materials |-> l.value, metadata |-> n.value]
  BY DEF v

<1>17. Lists(t) /\ Rests(t) /\ <<>> \in Seq(Int)
  BY TileLists, RestsTyped
<1>18. /\ t.id \in TileIds /\ t.parent \in Seq(TileIds) /\ t.children \in Seq(TileIds)
       /\ t.bounds \in Seq(Int) /\ Len(t.bounds) = 4 /\ t.lods \in Seq(LODs)
       /\ t.materials \in Seq(Int) /\ t.metadata \in Seq(Int)
  <2>1. t.bounds \in [1 .. 4 -> Int]
    BY DEF Tiles
  <2>2. t.bounds \in Seq(Int) /\ Len(t.bounds) = 4
    BY <2>1, BoundsAreSeqs
  <2> QED BY <2>2 DEF Tiles
<1>19. PICK np : np = Len(t.parent)
  OBVIOUS
<1>20. PICK nc : nc = Len(t.children)
  OBVIOUS
<1>21. PICK nl : nl = Len(t.lods)
  OBVIOUS
<1>22. PICK nm : nm = Len(t.materials)
  OBVIOUS
<1>23. PICK nd : nd = Len(t.metadata) \div 2
  OBVIOUS
<1>24. np \in Int /\ nc \in Int /\ nl \in Int /\ nm \in Int /\ nd \in Int /\ 2 * nd = Len(t.metadata)
  <2>1. Len(t.parent) \in Int /\ Len(t.children) \in Int /\ Len(t.lods) \in Int /\ Len(t.materials) \in Int
    BY <1>18
  <2>2. Len(t.metadata) \in Nat /\ Len(t.metadata) % 2 = 0
    BY <1>18 DEF Tiles
  <2>3. Len(t.metadata) \div 2 \in Int /\ 2 * (Len(t.metadata) \div 2) = Len(t.metadata)
    <3>1. PICK z \in Nat : z = Len(t.metadata)
      BY <2>2
    <3>2. z % 2 = 0
      BY <2>2, <3>1
    <3>3. z \div 2 \in Int /\ 2 * (z \div 2) = z
      BY <3>2
    <3> QED BY <3>1, <3>3
  <2> QED BY <1>19, <1>20, <1>21, <1>22, <1>23, <2>1, <2>3
<1>25. /\ FromId(t) = t.id \o FromParentFlag(t)
       /\ FromParentFlag(t) = <<np>> \o FromParent(t)
       /\ FromParent(t) = FlattenSeq(t.parent) \o FromChildCount(t)
       /\ FromChildCount(t) = <<nc>> \o FromChildren(t)
       /\ FromChildren(t) = FlattenSeq(t.children) \o FromBounds(t)
       /\ FromBounds(t) = t.bounds \o FromLODCount(t)
       /\ FromLODCount(t) = <<nl>> \o FromLODs(t)
       /\ FromLODs(t) = FlatLODs(t) \o FromMaterialCount(t)
       /\ FromMaterialCount(t) = <<nm>> \o FromMaterials(t)
       /\ FromMaterials(t) = t.materials \o FromMetadataCount(t)
       /\ FromMetadataCount(t) = <<nd>> \o FromMetadata(t)
       /\ FromMetadata(t) = t.metadata \o <<>>
  BY <1>19, <1>20, <1>21, <1>22, <1>23, Zenon DEF FromId, FromParentFlag, FromParent, FromChildCount, FromChildren,
     FromBounds, FromLODCount, FromLODs, FromMaterialCount, FromMaterials, FromMetadataCount,
     FromMetadata
<1>31. PICK y1 \in Seq(Int) : y1 = FromId(t)
  BY <1>17, Zenon DEF Rests
<1>32. PICK y2 \in Seq(Int) : y2 = FromParentFlag(t)
  BY <1>17, Zenon DEF Rests
<1>33. PICK y3 \in Seq(Int) : y3 = FromParent(t)
  BY <1>17, Zenon DEF Rests
<1>34. PICK y4 \in Seq(Int) : y4 = FromChildCount(t)
  BY <1>17, Zenon DEF Rests
<1>35. PICK y5 \in Seq(Int) : y5 = FromChildren(t)
  BY <1>17, Zenon DEF Rests
<1>36. PICK y6 \in Seq(Int) : y6 = FromBounds(t)
  BY <1>17, Zenon DEF Rests
<1>37. PICK y7 \in Seq(Int) : y7 = FromLODCount(t)
  BY <1>17, Zenon DEF Rests
<1>38. PICK y8 \in Seq(Int) : y8 = FromLODs(t)
  BY <1>17, Zenon DEF Rests
<1>39. PICK y9 \in Seq(Int) : y9 = FromMaterialCount(t)
  BY <1>17, Zenon DEF Rests
<1>40. PICK y10 \in Seq(Int) : y10 = FromMaterials(t)
  BY <1>17, Zenon DEF Rests
<1>41. PICK y11 \in Seq(Int) : y11 = FromMetadataCount(t)
  BY <1>17, Zenon DEF Rests
<1>42. PICK y12 \in Seq(Int) : y12 = FromMetadata(t)
  BY <1>17, Zenon DEF Rests
<1>43. PICK y13 \in Seq(Int) : y13 = <<>>
  BY <1>17
<1>44. PICK flat : flat = FlatLODs(t)
  OBVIOUS
<1>45. PICK parents : parents = FlattenSeq(t.parent)
  OBVIOUS
<1>46. PICK kids : kids = FlattenSeq(t.children)
  OBVIOUS
<1>51. y1 = t.id \o y2
  BY <1>25, <1>31, <1>32, Zenon
<1>52. y2 = <<np>> \o y3
  BY <1>25, <1>32, <1>33, Zenon
<1>53. y3 = parents \o y4
  BY <1>25, <1>33, <1>34, <1>45, Zenon
<1>54. y4 = <<nc>> \o y5
  BY <1>25, <1>34, <1>35, Zenon
<1>55. y5 = kids \o y6
  BY <1>25, <1>35, <1>36, <1>46, Zenon
<1>56. y6 = t.bounds \o y7
  BY <1>25, <1>36, <1>37, Zenon
<1>57. y7 = <<nl>> \o y8
  BY <1>25, <1>37, <1>38, Zenon
<1>58. y8 = flat \o y9
  BY <1>25, <1>38, <1>39, <1>44, Zenon
<1>59. y9 = <<nm>> \o y10
  BY <1>25, <1>39, <1>40, Zenon
<1>60. y10 = t.materials \o y11
  BY <1>25, <1>40, <1>41, Zenon
<1>61. y11 = <<nd>> \o y12
  BY <1>25, <1>41, <1>42, Zenon
<1>62. y12 = t.metadata \o y13
  BY <1>25, <1>42, <1>43, Zenon
<1>71. Follows(r, c, rest, y1, t.id, y2, TRUE)
  BY <1>1, <1>18, <1>51, IdFollows
<1>72. Follows(c, d, rest, y2, np, y3, TRUE)
  <2>1. Follows(c, ReadField(c), rest, <<np>> \o y3, np, y3, TRUE)
    BY <1>1, <1>24, FieldFollows DEF Reads
  <2> QED BY <1>2, <1>52, <2>1, Zenon
<1>73. d.value = np => Follows(d, e, rest, y3, t.parent, y4, TRUE)
  <2>1. Follows(d, ReadMany(ReadTileId, np, d), rest, FlattenSeq(t.parent) \o y4, t.parent, y4, TRUE)
    BY <1>2, <1>18, <1>19, IdsFollow DEF Reads
  <2>2. d.value = np => some = np
    <3>2. t.parent \in Seq(TileIds) /\ Len(t.parent) <= 1
      BY DEF Tiles
    <3>3. np \in Nat /\ np <= 1
      <4> DEFINE parent == t.parent
      <4>1. parent \in Seq(TileIds) /\ Len(parent) <= 1
        BY <3>2
      <4> HIDE DEF parent
      <4>2. Len(parent) \in Nat
        BY <4>1
      <4> QED BY <1>19, <4>1, <4>2 DEF parent
    <3>1. np = 0 \/ np = 1
      BY <3>3
    <3> QED BY <1>3, <3>1
  <2> QED BY <1>4, <1>45, <1>53, <2>1, <2>2, Zenon
<1>74. Follows(e, f, rest, y4, nc, y5, nc <= MaxArrayCount)
  <2>1. Follows(e, ReadCount(e), rest, <<nc>> \o y5, nc, y5, nc <= MaxArrayCount)
    BY <1>4, <1>24, CountFollows DEF Reads
  <2> QED BY <1>5, <1>54, <2>1, Zenon
<1>75. f.value = nc => Follows(f, g, rest, y5, t.children, y6, TRUE)
  <2>1. Follows(f, ReadMany(ReadTileId, nc, f), rest, FlattenSeq(t.children) \o y6, t.children, y6, TRUE)
    BY <1>5, <1>18, <1>20, IdsFollow DEF Reads
  <2> QED BY <1>6, <1>46, <1>55, <2>1, Zenon
<1>76. Follows(g, h, rest, y6, t.bounds, y7, TRUE)
  <2>1. Follows(g, ReadMany(ReadField, Len(t.bounds), g), rest, t.bounds \o y7, t.bounds, y7, TRUE)
    BY <1>6, <1>18, FieldsFollow DEF Reads
  <2> QED BY <1>7, <1>18, <1>56, <2>1, Zenon
<1>77. Follows(h, i, rest, y7, nl, y8, nl <= MaxArrayCount)
  <2>1. Follows(h, ReadCount(h), rest, <<nl>> \o y8, nl, y8, nl <= MaxArrayCount)
    BY <1>7, <1>24, CountFollows DEF Reads
  <2> QED BY <1>8, <1>57, <2>1, Zenon
<1> DEFINE lodsFit == \A a \in 1 .. Len(t.lods) : LODFits(t.lods[a])
<1>78. i.value = nl => Follows(i, j, rest, y8, t.lods, y9, lodsFit)
  <2>1. Follows(i, ReadMany(ReadLOD, nl, i), rest, FlatLODs(t) \o y9, t.lods, y9, lodsFit)
    BY <1>8, <1>18, <1>21, LODsFollow DEF Reads, FlatLODs
  <2> HIDE DEF lodsFit
  <2> QED BY <1>9, <1>44, <1>58, <2>1, Zenon
<1> HIDE DEF lodsFit
<1>79. Follows(j, k, rest, y9, nm, y10, nm <= MaxArrayCount)
  <2>1. Follows(j, ReadCount(j), rest, <<nm>> \o y10, nm, y10, nm <= MaxArrayCount)
    BY <1>9, <1>24, CountFollows DEF Reads
  <2> QED BY <1>10, <1>59, <2>1, Zenon
<1>80. k.value = nm => Follows(k, l, rest, y10, t.materials, y11, TRUE)
  <2>1. Follows(k, ReadMany(ReadField, nm, k), rest, t.materials \o y11, t.materials, y11, TRUE)
    BY <1>10, <1>18, <1>22, FieldsFollow DEF Reads
  <2> QED BY <1>11, <1>60, <2>1, Zenon
<1>81. Follows(l, m, rest, y11, nd, y12, nd <= MaxArrayCount)
  <2>1. Follows(l, ReadCount(l), rest, <<nd>> \o y12, nd, y12, nd <= MaxArrayCount)
    BY <1>11, <1>24, CountFollows DEF Reads
  <2> QED BY <1>12, <1>61, <2>1, Zenon
<1>82. m.value = nd => Follows(m, n, rest, y12, t.metadata, y13, TRUE)
  <2>1. Follows(m, ReadMany(ReadField, Len(t.metadata), m), rest, t.metadata \o y13, t.metadata, y13, TRUE)
    BY <1>12, <1>18, FieldsFollow DEF Reads
  <2>2. m.value = nd => twice = Len(t.metadata)
    BY <1>13, <1>24
  <2> QED BY <1>14, <1>62, <2>1, <2>2, Zenon
<1>83. (Ok(With(n, v)) <=> Ok(n)) /\ With(n, v).value = v /\ With(n, v).left = n.left
  BY <1>14, WithKeeps DEF Reads
<1>84. On(n, rest, y13) => On(With(n, v), rest, y13)
  BY <1>83 DEF On
<1>85. TileFits(t) =>
         /\ nc <= MaxArrayCount /\ nl <= MaxArrayCount /\ nm <= MaxArrayCount
         /\ nd <= MaxArrayCount /\ lodsFit
  BY <1>20, <1>21, <1>22, <1>23 DEF TileFits, lodsFit
<1>86. /\ c.value = t.id /\ e.value = t.parent /\ g.value = t.children /\ h.value = t.bounds
       /\ j.value = t.lods /\ l.value = t.materials /\ n.value = t.metadata
       => v = t
  <2>1. t = [id |-> t.id, parent |-> t.parent, children |-> t.children, bounds |-> t.bounds,
             lods |-> t.lods, materials |-> t.materials, metadata |-> t.metadata]
    BY DEF Tiles
  <2> QED BY <1>15, <2>1, Zenon
<1>87. Ok(n) => /\ Ok(m) /\ Ok(l) /\ Ok(k) /\ Ok(j) /\ Ok(i) /\ Ok(h) /\ Ok(g) /\ Ok(f)
                /\ Ok(e) /\ Ok(d) /\ Ok(c) /\ Ok(r)
  BY <1>1, <1>2, <1>4, <1>5, <1>6, <1>7, <1>8, <1>9, <1>10, <1>11, <1>12, <1>14, Zenon DEF Reads
<1>88. On(r, rest, y1) /\ Ok(n) => v = t /\ On(n, rest, y13)
  BY <1>71, <1>72, <1>73, <1>74, <1>75, <1>76, <1>77, <1>78, <1>79, <1>80, <1>81, <1>82, <1>86,
     <1>87, Zenon DEF Follows
<1>89. On(r, rest, y1) /\ rest = <<>> /\ TileFits(t) => Ok(n)
  BY <1>71, <1>72, <1>73, <1>74, <1>75, <1>76, <1>77, <1>78, <1>79, <1>80, <1>81, <1>82, <1>85,
     Zenon DEF Follows
<1>90. Follows(r, With(n, v), rest, y1, t, y13, TileFits(t))
  BY <1>83, <1>84, <1>87, <1>88, <1>89, Zenon DEF Follows
<1> QED BY <1>16, <1>31, <1>43, <1>90, Zenon

LEMMA OpenReads ==
  ASSUME NEW fields \in Seq(Int), NEW torn \in Seq(Int)
  PROVE  /\ Open(fields, torn) \in ReaderOf(Int)
         /\ Ok(Open(fields, torn)) /\ Open(fields, torn).left = fields
BY DEF Open, ReaderOf, Zero, Ok

\* A beginning of a tile's file loads as that tile, or not at all; all of it loads.
LEMMA LoadFollows ==
  ASSUME NEW t \in Tiles, NEW fields \in Seq(Int), NEW rest \in Seq(Int),
         NEW torn \in Seq(Int), fields \o rest = WriteTile(t)
  PROVE  /\ LoadTile(fields, torn).value = <<>> \/ LoadTile(fields, torn) = Expected(t)
         /\ rest = <<>> /\ TileFits(t) => LoadTile(fields, torn) = Expected(t)
<1>1. PICK r \in ReaderOf(Int) : r = Open(fields, torn)
  BY OpenReads
<1>2. PICK a : a = ReadField(r) /\ Reads(r, a, Int)
  BY FieldReads
<1>3. PICK b : b = ReadField(a) /\ Reads(a, b, Int)
  BY <1>2, FieldReads DEF Reads
<1>4. PICK s : s = ReadTile(b)
  OBVIOUS
<1>5. PICK y0 \in Seq(Int) : y0 = FromVersion(t)
  BY RestsTyped DEF Rests
<1>6. PICK y1 \in Seq(Int) : y1 = FromId(t)
  BY RestsTyped DEF Rests
<1>7. y0 = <<Version>> \o y1
  BY <1>5, <1>6, Zenon DEF FromVersion
<1>8. PICK all : all = <<Magic>> \o y0
  OBVIOUS
<1>9. On(r, rest, all)
  <2>1. Ok(r) /\ r.left = fields
    BY <1>1, OpenReads
  <2>2. WriteTile(t) = all
    BY <1>5, <1>8, TileInPieces, Zenon
  <2>3. fields \o rest = all
    BY <2>2, Zenon
  <2> QED BY <2>1, <2>3, Zenon DEF On
<1>10. Magic \in Int /\ Version \in Int /\ Version \in 1 .. Version
  BY FormatAssumption DEF Magic
<1>11. Follows(r, a, rest, all, Magic, y0, TRUE)
  <2>1. Follows(r, ReadField(r), rest, <<Magic>> \o y0, Magic, y0, TRUE)
    BY <1>10, FieldFollows
  <2> QED BY <1>2, <1>8, <2>1, Zenon
<1>12. Follows(a, b, rest, y0, Version, y1, TRUE)
  <2>1. Follows(a, ReadField(a), rest, <<Version>> \o y1, Version, y1, TRUE)
    BY <1>2, <1>10, FieldFollows DEF Reads
  <2> QED BY <1>3, <1>7, <2>1, Zenon
<1>13. Follows(b, s, rest, y1, t, <<>>, TileFits(t))
  <2>1. Follows(b, ReadTile(b), rest, FromId(t), t, <<>>, TileFits(t))
    BY <1>3, TileFollows DEF Reads
  <2> QED BY <1>4, <1>6, <2>1, Zenon
<1>14. LoadTile(fields, torn) =
         CASE ~Ok(a) \/ a.value # Magic -> Error("CorruptTile")
           [] b.value \notin 1 .. Version -> Error("UnsupportedVersion")
           [] ~Ok(s) -> Error("CorruptTile")
           [] OTHER -> Expected(s.value)
  BY <1>1, <1>2, <1>3, <1>4, Zenon DEF LoadTile
<1>15. Ok(a) /\ a.value = Magic /\ b.value \in 1 .. Version /\ Ok(s) =>
         LoadTile(fields, torn) = Expected(s.value)
  BY <1>14, Zenon
<1>16. ~(Ok(a) /\ a.value = Magic /\ b.value \in 1 .. Version /\ Ok(s)) =>
         LoadTile(fields, torn).value = <<>>
  <2>1. ~(Ok(a) /\ a.value = Magic /\ b.value \in 1 .. Version /\ Ok(s)) =>
          LoadTile(fields, torn) \in {Error("CorruptTile"), Error("UnsupportedVersion")}
    BY <1>14, Zenon
  <2>2. Error("CorruptTile").value = <<>> /\ Error("UnsupportedVersion").value = <<>>
    BY DEF Error
  <2> QED BY <2>1, <2>2, Zenon
<1>17. Ok(s) => Ok(b) /\ Ok(a)
  BY <1>3, <1>13, Zenon DEF Follows, Reads
<1>18. Ok(s) => s.value = t
  BY <1>9, <1>11, <1>12, <1>13, <1>17, Zenon DEF Follows
<1>19. rest = <<>> /\ TileFits(t) => Ok(a) /\ a.value = Magic /\ b.value = Version /\ Ok(s)
  BY <1>9, <1>11, <1>12, <1>13, Zenon DEF Follows
<1> QED BY <1>10, <1>15, <1>16, <1>18, <1>19, Zenon
-----------------------------------------------------------------------------
(***************************************************************************)
(* The generated city: how many buildings each level of detail keeps, and  *)
(* what its meshes refer to.                                               *)
(***************************************************************************)
\* The n-th power of two, and half of the one after it.
LEMMA Powers ==
  /\ Shifted[0] = 1
  /\ \A n \in 0 .. ShiftWidth - 1 : Shifted[n] \in Nat /\ Shifted[n] > 0
  /\ \A n \in 1 .. ShiftWidth - 1 : Shifted[n] = 2 * Shifted[n - 1]
<1> DEFINE w == ShiftWidth - 1
           Solves(f) == f = [n \in 0 .. w |-> IF n = 0 THEN 1 ELSE 2 * f[n - 1]]
           g == [n \in 1 .. w |-> [v \in Nat |-> 2 * v]]
<1>0. w \in Nat
  BY DEF ShiftWidth
<1>1. \E f : Solves(f)
  <2>1. g \in [1 .. w -> [Nat -> Nat]] /\ \A n \in 1 .. w : \A v \in Nat : g[n][v] = 2 * v
    <3> HIDE DEF w
    <3> QED OBVIOUS
  <2> HIDE DEF g, w
  <2>2. 1 \in Nat
    OBVIOUS
  <2>3. PICK it \in [SUBSET (1 .. w) -> Nat] : Folds(it, w, 1, g)
    BY <1>0, <2>1, <2>2, FoldExists
  <2>4. FoldsIn(it, Nat, w, 1, g)
    <3>1. {} \in SUBSET (1 .. w)
      OBVIOUS
    <3> QED BY <2>3, <3>1 DEF Folds, FoldsIn
  <2>5. PICK h : StepsTo(h, Nat, w, 1, g, it[1 .. w])
    BY <1>0, <2>1, <2>2, <2>4, FoldSteps
  <2>6. h \in [0 .. w -> Nat] /\ h[0] = 1 /\ \A n \in 1 .. w : h[n] = g[n][h[n - 1]]
    BY <2>5 DEF StepsTo, Steps
  <2>7. ASSUME NEW n \in 0 .. w PROVE h[n] = IF n = 0 THEN 1 ELSE 2 * h[n - 1]
    <3>1. CASE n = 0
      BY <2>6, <3>1
    <3>2. CASE n # 0
      <4>1. n \in 1 .. w /\ n - 1 \in 0 .. w
        BY <1>0, <3>2
      <4>2. h[n - 1] \in Nat
        BY <2>6, <4>1
      <4> QED BY <2>1, <2>6, <3>2, <4>1, <4>2
    <3> QED BY <3>1, <3>2
  <2>8. Solves(h)
    BY <2>6, <2>7
  <2> QED BY <2>8
<1>2. Solves(Shifted)
  <2>1. Shifted = CHOOSE f : Solves(f)
    BY DEF Shifted
  <2> HIDE DEF Solves
  <2> QED BY <1>1, <2>1
<1>3. Shifted[0] = 1 /\ \A n \in 1 .. w : Shifted[n] = 2 * Shifted[n - 1]
  <2>1. 0 \in 0 .. w /\ \A n \in 1 .. w : n \in 0 .. w /\ n # 0
    BY <1>0
  <2> HIDE DEF w
  <2> QED BY <1>2, <2>1
<1> DEFINE Bad == {n \in 0 .. w : ~(Shifted[n] \in Nat /\ Shifted[n] > 0)}
<1>4. Bad = {}
  <2> SUFFICES ASSUME Bad # {} PROVE FALSE
    OBVIOUS
  <2>1. PICK n \in Bad : \A k \in Bad : n <= k
    <3>1. Bad \in SUBSET Nat
      OBVIOUS
    <3> HIDE DEF Bad
    <3> QED BY <3>1, SmallestNumber
  <2>2. n \in 1 .. w /\ n - 1 \in 0 .. w /\ ~(n <= n - 1)
    BY <1>0, <1>3
  <2>3. Shifted[n - 1] \in Nat /\ Shifted[n - 1] > 0
    BY <2>1, <2>2
  <2> QED BY <1>3, <2>2, <2>3
<1> QED BY <1>3, <1>4

\* How often a loop with that stride runs, and one with twice the stride.
Rounded(n, stride) == (n + stride - 1) \div stride

\* Twice the stride keeps half as many, rounded up.
LEMMA HalfAsMany ==
  ASSUME NEW n \in Nat, NEW s \in Nat, s > 0
  PROVE  /\ Rounded(n, s) \in Nat /\ Rounded(n, s) <= n
         /\ Rounded(n, 2 * s) = (Rounded(n, s) + 1) \div 2
<1>1. PICK c, e \in Int : n + s - 1 = c * s + e /\ 0 <= e /\ e < s /\ c = (n + s - 1) \div s
  OBVIOUS
<1>2. c >= 0 /\ c <= n
  <2>1. c <= -1 => FALSE
    <3>1. c <= -1 => c * s <= -s
      BY <1>1
    <3> QED BY <1>1, <3>1
  <2>2. c >= n + 1 => FALSE
    <3>1. c >= n + 1 => c * s >= (n + 1) * s
      BY <1>1
    <3>2. (n + 1) * s = n * s + s /\ n * s >= n
      OBVIOUS
    <3> QED BY <1>1, <3>1, <3>2
  <2> QED BY <1>1, <2>1, <2>2
<1>3. PICK d, f \in Int : n + 2 * s - 1 = d * (2 * s) + f /\ 0 <= f /\ f < 2 * s
                          /\ d = (n + 2 * s - 1) \div (2 * s)
  OBVIOUS
<1>4. c * s + e + s = 2 * (d * s) + f
  BY <1>1, <1>3
<1>5. c + 1 - 2 * d >= 0
  <2>1. (c + 1 - 2 * d) * s = f - e
    BY <1>4
  <2>2. f - e > -s
    BY <1>1, <1>3
  <2> QED BY <2>1, <2>2
<1>6. c + 1 - 2 * d <= 1
  <2>1. (c + 1 - 2 * d) * s = f - e
    BY <1>4
  <2>2. f - e < 2 * s
    BY <1>1, <1>3
  <2> QED BY <2>1, <2>2
<1>7. d = (c + 1) \div 2
  BY <1>5, <1>6
<1> QED BY <1>1, <1>2, <1>3, <1>7 DEF Rounded

\* What the loop keeps is as long as it runs.
LEMMA KeptAre ==
  ASSUME NEW n \in Nat, NEW s \in Nat, s > 0
  PROVE  Kept(n, s) \in Seq(Int) /\ Len(Kept(n, s)) = Rounded(n, s)
<1>1. PICK c \in Nat : c = Rounded(n, s)
  BY HalfAsMany
<1>2. Kept(n, s) = [k \in 1 .. c |-> 1 + (k - 1) * s]
  BY <1>1 DEF Kept, Rounded
<1>3. \A k \in 1 .. c : 1 + (k - 1) * s \in Int
  OBVIOUS
<1>4. [k \in 1 .. c |-> 1 + (k - 1) * s] \in Seq(Int)
  BY <1>3
<1>5. Len([k \in 1 .. c |-> 1 + (k - 1) * s]) = c
  OBVIOUS
<1> QED BY <1>1, <1>2, <1>4, <1>5, Zenon
-----------------------------------------------------------------------------
\* A mesh of k shapes, each of which has the index of its own vertices.
MeshOfK(mesh, material, k) ==
  /\ mesh \in Meshes
  /\ mesh.materialIndex = material
  /\ Len(mesh.vertices) = k /\ Len(mesh.indices) = k
  /\ \A i \in 1 .. k : mesh.indices[i] = i - 1

\* appendBox() and appendGroundQuad() take the base before they add vertices.
LEMMA ShapesAppended ==
  ASSUME NEW mesh \in Meshes, NEW shape \in Int
  PROVE  /\ AppendShape(mesh, shape) \in Meshes
         /\ \A material, k : MeshOfK(mesh, material, k) =>
              MeshOfK(AppendShape(mesh, shape), material, k + 1)
<1>1. /\ mesh.vertices \in Seq(Int) /\ mesh.indices \in Seq(Int) /\ mesh.materialIndex \in Int
      /\ Len(mesh.vertices) \in Nat /\ Len(mesh.indices) \in Nat
  BY DEF Meshes
<1>2. PICK v \in Seq(Int) : v = Append(mesh.vertices, shape)
  BY <1>1, AppendProperties
<1>3. PICK n \in Int : n = Len(mesh.vertices)
  BY <1>1
<1>4. PICK x \in Seq(Int) : x = Append(mesh.indices, n)
  BY <1>1, AppendProperties
<1>5. AppendShape(mesh, shape) = [mesh EXCEPT !.vertices = v, !.indices = x]
  BY <1>2, <1>3, <1>4, Zenon DEF AppendShape
<1>6. PICK next : next = [mesh EXCEPT !.vertices = v, !.indices = x]
  OBVIOUS
<1>7. /\ next \in Meshes /\ next.materialIndex = mesh.materialIndex
      /\ next.vertices = v /\ next.indices = x
  BY <1>6 DEF Meshes
<1>8. ASSUME NEW material, NEW k, MeshOfK(mesh, material, k)
      PROVE  MeshOfK(next, material, k + 1)
  <2>1. k = n /\ k = Len(mesh.indices) /\ k \in Nat
    BY <1>1, <1>3, <1>8 DEF MeshOfK
  <2>2. Len(v) = k + 1
    <3>1. PICK u \in Seq(Int) : u = mesh.vertices
      BY <1>1
    <3>2. Len(Append(u, shape)) = Len(u) + 1
      BY AppendProperties
    <3> QED BY <1>2, <1>3, <2>1, <3>1, <3>2
  <2>3. Len(x) = k + 1 /\ x[k + 1] = n /\ \A i \in 1 .. k : x[i] = mesh.indices[i]
    BY <1>1, <1>3, <1>4, <2>1, AppendProperties
  <2>4. \A i \in 1 .. k : mesh.indices[i] = i - 1
    BY <1>8 DEF MeshOfK
  <2>5. \A i \in 1 .. k + 1 : i \in 1 .. k \/ i = k + 1
    <3>1. \A c \in Nat : \A i \in 1 .. c + 1 : i \in 1 .. c \/ i = c + 1
      OBVIOUS
    <3> QED BY <2>1, <3>1, Zenon
  <2>6. \A i \in 1 .. k + 1 : x[i] = i - 1
    BY <2>1, <2>3, <2>4, <2>5
  <2>7. next.materialIndex = material
    BY <1>7, <1>8 DEF MeshOfK
  <2> QED BY <1>7, <2>2, <2>3, <2>6, <2>7 DEF MeshOfK
<1> QED BY <1>5, <1>6, <1>7, <1>8

\* So a mesh of shapes has one base for each.
LEMMA MeshesMade ==
  ASSUME NEW material \in Int, NEW shapes \in Seq(Int)
  PROVE  MeshOfK(MeshOf(material, shapes), material, Len(shapes))
<1> DEFINE n == Len(shapes)
           base == [materialIndex |-> material, vertices |-> <<>>, indices |-> <<>>]
           g == [k \in 1 .. n |-> [m \in Meshes |-> AppendShape(m, shapes[k])]]
           Solves(iter) == iter = [s \in SUBSET DOMAIN shapes |->
              IF s = {} THEN base ELSE AppendShape(iter[s \ {Max(s)}], shapes[Max(s)])]
           iter == CHOOSE iter : Solves(iter)
<1>0. n \in Nat /\ DOMAIN shapes = 1 .. n /\ \A k \in 1 .. n : shapes[k] \in Int
  OBVIOUS
<1>1. MeshOf(material, shapes) = iter[DOMAIN shapes]
  BY DEF MeshOf, FoldLeft, MapThenFoldSet
<1>2. MeshOfK(base, material, 0) /\ base \in Meshes
  BY DEF MeshOfK, Meshes
<1>3. /\ g \in [1 .. n -> [Meshes -> Meshes]]
      /\ \A k \in 1 .. n : \A m \in Meshes : g[k][m] = AppendShape(m, shapes[k])
  BY <1>0, ShapesAppended
<1>4. \A s \in SUBSET (1 .. n) : s # {} => Max(s) \in 1 .. n /\ s \ {Max(s)} \in SUBSET (1 .. n)
  BY <1>0, MaxIsLargest
<1> HIDE DEF g, base, n
<1>5. \E it : Solves(it)
  <2>1. PICK it \in [SUBSET (1 .. n) -> Meshes] : Folds(it, n, base, g)
    BY <1>0, <1>2, <1>3, FoldExists
  <2>2. ASSUME NEW s \in SUBSET (1 .. n)
        PROVE  it[s] = IF s = {} THEN base ELSE AppendShape(it[s \ {Max(s)}], shapes[Max(s)])
    <3>1. CASE s = {}
      BY <2>1, <3>1 DEF Folds
    <3>2. CASE s # {}
      <4>1. it[s] = g[Max(s)][it[s \ {Max(s)}]]
        BY <2>1, <3>2 DEF Folds
      <4> QED BY <1>3, <1>4, <2>1, <3>2, <4>1
    <3> QED BY <3>1, <3>2
  <2>3. Solves(it)
    BY <1>0, <2>1, <2>2
  <2> QED BY <2>3
<1>6. Solves(iter)
  <2> HIDE DEF Solves
  <2> QED BY <1>5
<1> HIDE DEF iter
<1>7. FoldsIn(iter, Meshes, n, base, g)
  <2>1. iter[{}] = base
    BY <1>6
  <2>2. ASSUME NEW s \in SUBSET (1 .. n), s # {}, iter[s \ {Max(s)}] \in Meshes
        PROVE  iter[s] = g[Max(s)][iter[s \ {Max(s)}]]
    <3>1. iter[s] = AppendShape(iter[s \ {Max(s)}], shapes[Max(s)])
      BY <1>0, <1>6, <2>2
    <3> QED BY <1>3, <1>4, <2>2, <3>1
  <2> QED BY <2>1, <2>2 DEF FoldsIn
<1>8. PICK h : StepsTo(h, Meshes, n, base, g, iter[1 .. n])
  BY <1>0, <1>2, <1>3, <1>7, FoldSteps
<1>9. /\ h \in [0 .. n -> Meshes] /\ h[0] = base /\ h[n] = iter[1 .. n]
      /\ \A k \in 1 .. n : h[k] = g[k][h[k - 1]]
  BY <1>8 DEF StepsTo, Steps
<1> DEFINE Bad == {k \in 0 .. n : ~MeshOfK(h[k], material, k)}
<1>10. Bad = {}
  <2> SUFFICES ASSUME Bad # {} PROVE FALSE
    OBVIOUS
  <2>1. PICK k \in Bad : \A j \in Bad : k <= j
    <3>1. Bad \in SUBSET Nat
      BY <1>0
    <3> HIDE DEF Bad
    <3> QED BY <3>1, SmallestNumber
  <2>2. k \in 1 .. n /\ k - 1 \in 0 .. n /\ ~(k <= k - 1) /\ k - 1 + 1 = k
    <3>1. k # 0
      BY <1>2, <1>9
    <3> QED BY <1>0, <3>1
  <2>3. MeshOfK(h[k - 1], material, k - 1)
    BY <2>1, <2>2
  <2>4. h[k - 1] \in Meshes
    BY <1>9, <2>2
  <2>5. h[k] = AppendShape(h[k - 1], shapes[k])
    BY <1>3, <1>9, <2>2, <2>4
  <2>6. MeshOfK(h[k], material, k)
    BY <1>0, <2>2, <2>3, <2>4, <2>5, ShapesAppended
  <2> QED BY <2>6
<1>11. MeshOfK(h[n], material, n)
  <2>1. n \in 0 .. n
    BY <1>0
  <2> QED BY <1>10, <2>1
<1> QED BY <1>0, <1>1, <1>9, <1>11 DEF n

LEMMA TwoInARow ==
  ASSUME NEW T, NEW a \in T, NEW b \in T
  PROVE  <<a>> \o <<>> = <<a>> /\ <<a>> \o <<b>> = <<a, b>>
<1>1. <<a>> \in Seq(T) /\ <<b>> \in Seq(T) /\ <<a, b>> \in Seq(T)
  OBVIOUS
<1>2. <<a>> \o <<>> = <<a>>
  BY <1>1, ConcatEmptySeq
<1>3. PICK p \in Seq(T) : p = <<a>>
  BY <1>1
<1>4. PICK q \in Seq(T) : q = <<b>>
  BY <1>1
<1>5. PICK s \in Seq(T) : s = <<a, b>>
  BY <1>1
<1>6. Len(p) = 1 /\ Len(q) = 1 /\ Len(s) = 2 /\ p[1] = a /\ q[1] = b /\ s[1] = a /\ s[2] = b
  BY <1>3, <1>4, <1>5
<1>7. p \o q \in Seq(T) /\ Len(p \o q) = 2 /\ (p \o q)[1] = a /\ (p \o q)[2] = b
  BY <1>6, ConcatProperties
<1>8. \A i \in 1 .. 2 : i = 1 \/ i = 2
  OBVIOUS
<1>9. s = p \o q
  BY <1>6, <1>7, <1>8, SeqEqual
<1> QED BY <1>2, <1>3, <1>4, <1>5, <1>9, Zenon

\* A level of detail with the ground, and every stride-th of the buildings.
LODOf(l, error, kept) ==
  /\ l \in LODs /\ l.error = error /\ kept \in Nat
  /\ Len(l.meshes) = IF kept = 0 THEN 1 ELSE 2
  /\ MeshOfK(l.meshes[1], GroundMaterial, 1)
  /\ kept # 0 => MeshOfK(l.meshes[2], BuildingMaterial, kept)

\* Geometric errors do not shrink from one level of detail to the next.
LEMMA ErrorsGrow ==
  ASSUME NEW size \in Nat
  PROVE  /\ \A lod \in 0 .. ShiftWidth - 1 : GeometricError(size, lod) \in Nat
         /\ \A lod \in 0 .. ShiftWidth - 2 :
              GeometricError(size, lod) <= GeometricError(size, lod + 1)
<1> DEFINE Shown(n) == (size * Shifted[n]) \div 20
<1>1. \A n \in 0 .. ShiftWidth - 1 : Shown(n) \in Nat
  <2>1. \A x \in Nat : (size * x) \in Nat
    OBVIOUS
  <2>2. \A x \in Nat : x \div 20 \in Nat
    OBVIOUS
  <2> QED BY <2>1, <2>2, Powers
<1>2. \A n \in 1 .. ShiftWidth - 1 : Shown(n - 1) <= Shown(n)
  <2> SUFFICES ASSUME NEW n \in 1 .. ShiftWidth - 1 PROVE Shown(n - 1) <= Shown(n)
    OBVIOUS
  <2>1. n - 1 \in 0 .. ShiftWidth - 1
    BY DEF ShiftWidth
  <2>2. PICK p \in Nat : p = Shifted[n - 1] /\ Shifted[n] = 2 * p
    BY <2>1, Powers
  <2>3. PICK x, y \in Nat : x = size * p /\ y = size * (2 * p)
    <3>1. size * p \in Nat /\ size * (2 * p) \in Nat
      OBVIOUS
    <3> QED BY <3>1
  <2>4. x <= y
    <3>1. size * (2 * p) = 2 * (size * p)
      OBVIOUS
    <3> QED BY <2>3, <3>1
  <2>5. x \div 20 <= y \div 20
    BY <2>4
  <2> QED BY <2>2, <2>3, <2>5
<1> HIDE DEF Shown
<1>3. /\ GeometricError(size, 0) = 0
      /\ \A lod \in 1 .. ShiftWidth - 1 : GeometricError(size, lod) = Shown(lod - 1)
  BY DEF GeometricError, Shown
<1>4. \A lod \in 1 .. ShiftWidth - 1 : lod - 1 \in 0 .. ShiftWidth - 1 /\ GeometricError(size, lod) \in Nat
  <2>1. \A lod \in 1 .. ShiftWidth - 1 : lod - 1 \in 0 .. ShiftWidth - 1
    BY DEF ShiftWidth
  <2> QED BY <1>1, <1>3, <2>1
<1>5. \A lod \in 0 .. ShiftWidth - 1 : GeometricError(size, lod) \in Nat
  <2>1. \A lod \in 0 .. ShiftWidth - 1 : lod = 0 \/ lod \in 1 .. ShiftWidth - 1
    BY DEF ShiftWidth
  <2> QED BY <1>3, <1>4, <2>1
<1>6. ASSUME NEW lod \in 0 .. ShiftWidth - 2
      PROVE  GeometricError(size, lod) <= GeometricError(size, lod + 1)
  <2>1. lod + 1 \in 1 .. ShiftWidth - 1 /\ lod + 1 \in 0 .. ShiftWidth - 1 /\ lod + 1 - 1 = lod
    BY DEF ShiftWidth
  <2>2. CASE lod = 0
    <3>1. GeometricError(size, lod + 1) \in Nat
      BY <1>5, <2>1
    <3> QED BY <1>3, <2>2, <3>1
  <2>3. CASE lod # 0
    <3>1. lod \in 1 .. ShiftWidth - 1
      BY <2>3 DEF ShiftWidth
    <3> QED BY <1>2, <1>3, <2>1, <3>1
  <2> QED BY <2>2, <2>3
<1> QED BY <1>5, <1>6

\* Each generated level of detail is such a one.
LEMMA LODsGenerated ==
  ASSUME NEW size \in Nat, NEW side \in Nat, NEW lod \in 0 .. ShiftWidth - 1
  PROVE  LODOf(GeneratedLOD(size, side, lod), GeometricError(size, lod),
               Rounded(side * side, Shifted[lod]))
<1>1. PICK n, s \in Nat : n = side * side /\ s = Shifted[lod] /\ s > 0
  <2>1. side * side \in Nat
    OBVIOUS
  <2> QED BY <2>1, Powers
<1>2. PICK kept \in Nat : kept = Rounded(n, s)
  BY <1>1, HalfAsMany
<1>3. Kept(n, s) \in Seq(Int) /\ Len(Kept(n, s)) = kept
  BY <1>1, <1>2, KeptAre
<1>4. PICK b : b = MeshOf(BuildingMaterial, Kept(n, s)) /\ MeshOfK(b, BuildingMaterial, kept)
  BY <1>3, MeshesMade DEF BuildingMaterial
<1>5. PICK g : g = MeshOf(GroundMaterial, <<Ground>>) /\ MeshOfK(g, GroundMaterial, 1)
  <2>1. GroundMaterial \in Int /\ <<Ground>> \in Seq(Int) /\ Len(<<Ground>>) = 1
    BY DEF GroundMaterial, Ground
  <2> QED BY <2>1, MeshesMade
<1>6. b \in Meshes /\ g \in Meshes /\ Len(b.indices) = kept
  BY <1>4, <1>5 DEF MeshOfK
<1>7. b.indices = <<>> <=> kept = 0
  <2>1. b.indices \in Seq(Int)
    BY <1>6 DEF Meshes
  <2> QED BY <1>6, <2>1, EmptySeq
<1>8. PICK meshes : meshes = <<g>> \o IF b.indices = <<>> THEN <<>> ELSE <<b>>
  OBVIOUS
<1>9. PICK l : l = [error |-> GeometricError(size, lod), meshes |-> meshes]
  OBVIOUS
<1>10. GeneratedLOD(size, side, lod) = l
  BY <1>1, <1>4, <1>5, <1>8, <1>9, Zenon DEF GeneratedLOD
<1>11. GeometricError(size, lod) \in Int
  BY ErrorsGrow
<1>12. CASE kept = 0
  <2>1. meshes = <<g>>
    BY <1>6, <1>7, <1>8, <1>12, TwoInARow
  <2>2. meshes \in Seq(Meshes) /\ Len(meshes) = 1 /\ meshes[1] = g
    BY <1>6, <2>1
  <2>3. l \in LODs
    BY <1>9, <1>11, <2>2 DEF LODs
  <2>4. LODOf(l, GeometricError(size, lod), kept)
    BY <1>5, <1>9, <1>12, <2>2, <2>3 DEF LODOf
  <2> QED BY <1>1, <1>2, <1>10, <2>4
<1>13. CASE kept # 0
  <2>1. meshes = <<g, b>>
    BY <1>6, <1>7, <1>8, <1>13, TwoInARow
  <2>2. meshes \in Seq(Meshes) /\ Len(meshes) = 2 /\ meshes[1] = g /\ meshes[2] = b
    BY <1>6, <2>1
  <2>3. l \in LODs
    BY <1>9, <1>11, <2>2 DEF LODs
  <2>4. LODOf(l, GeometricError(size, lod), kept)
    BY <1>4, <1>5, <1>9, <1>13, <2>2, <2>3 DEF LODOf
  <2> QED BY <1>1, <1>2, <1>10, <2>4
<1> QED BY <1>12, <1>13

\* What builders are asked for.
CityOptions(corners, side, maxLOD) ==
  /\ corners \in [1 .. 4 -> Int] /\ corners[3] - corners[1] \in Nat
  /\ side \in Nat /\ maxLOD \in 0 .. ShiftWidth - 1

\* A tile with those levels of detail.
CityTile(t, id, corners, side, maxLOD) ==
  /\ t \in Tiles /\ t.id = id /\ t.bounds = corners
  /\ t.children = <<>> /\ t.metadata = <<>> /\ Len(t.materials) = 2
  /\ t.lods \in Seq(LODs) /\ Len(t.lods) = maxLOD + 1
  /\ \A n \in 1 .. maxLOD + 1 :
       LODOf(t.lods[n], GeometricError(corners[3] - corners[1], n - 1),
             Rounded(side * side, Shifted[n - 1]))

\* A generated tile is such a one.
LEMMA CityGenerated ==
  ASSUME NEW id \in TileIds, NEW corners, NEW side, NEW maxLOD, CityOptions(corners, side, maxLOD)
  PROVE  CityTile(GenerateTile(id, corners, side, maxLOD), id, corners, side, maxLOD)
<1>1. PICK size \in Nat : size = corners[3] - corners[1]
  BY DEF CityOptions
<1>2. side \in Nat /\ maxLOD \in 0 .. ShiftWidth - 1 /\ corners \in [1 .. 4 -> Int]
  BY DEF CityOptions
<1>3. maxLOD + 1 \in Nat /\ \A n \in 1 .. maxLOD + 1 : n - 1 \in 0 .. ShiftWidth - 1
  BY <1>2 DEF ShiftWidth
<1>4. PICK lods : lods = [n \in 1 .. maxLOD + 1 |-> GeneratedLOD(size, side, n - 1)]
  OBVIOUS
<1>5. \A n \in 1 .. maxLOD + 1 :
        LODOf(lods[n], GeometricError(size, n - 1), Rounded(side * side, Shifted[n - 1]))
  BY <1>2, <1>3, <1>4, LODsGenerated
<1>6. \A n \in 1 .. maxLOD + 1 : lods[n] \in LODs
  BY <1>5 DEF LODOf
<1>7. lods \in Seq(LODs) /\ Len(lods) = maxLOD + 1
  <2>1. \A n \in 1 .. maxLOD + 1 : GeneratedLOD(size, side, n - 1) \in LODs
    BY <1>4, <1>6
  <2>2. PICK c \in Nat : c = maxLOD + 1
    BY <1>3
  <2>3. [n \in 1 .. c |-> GeneratedLOD(size, side, n - 1)] \in Seq(LODs)
    BY <2>1, <2>2
  <2>4. Len([n \in 1 .. c |-> GeneratedLOD(size, side, n - 1)]) = c
    OBVIOUS
  <2> QED BY <1>4, <2>2, <2>3, <2>4, Zenon
<1>8. PICK materials \in Seq(Int) : materials = <<GroundMaterial, BuildingMaterial>> /\ Len(materials) = 2
  <2>1. <<GroundMaterial, BuildingMaterial>> \in Seq(Int) /\ Len(<<GroundMaterial, BuildingMaterial>>) = 2
    BY DEF GroundMaterial, BuildingMaterial
  <2> QED BY <2>1
<1>9. PICK none \in Seq(TileIds) : none = <<>> /\ Len(none) <= 1
  <2>1. <<>> \in Seq(TileIds) /\ Len(<<>>) <= 1
    OBVIOUS
  <2> QED BY <2>1
<1>10. PICK nothing \in Seq(Int) : nothing = <<>> /\ Len(nothing) % 2 = 0
  <2>1. 0 % 2 = 0 /\ <<>> \in Seq(Int) /\ Len(<<>>) = 0
    OBVIOUS
  <2> QED BY <2>1
<1>11. PICK t : t = [id |-> id, parent |-> none, children |-> none, bounds |-> corners, lods |-> lods,
                    materials |-> materials, metadata |-> nothing]
  OBVIOUS
<1>12. GenerateTile(id, corners, side, maxLOD) = t
  BY <1>1, <1>4, <1>8, <1>9, <1>10, <1>11, Zenon DEF GenerateTile
<1>13. none \in {s \in Seq(TileIds) : Len(s) <= 1} /\ nothing \in {s \in Seq(Int) : Len(s) % 2 = 0}
  BY <1>9, <1>10
<1>14. t \in Tiles
  BY <1>2, <1>7, <1>9, <1>11, <1>13 DEF Tiles
<1>15. /\ t.id = id /\ t.bounds = corners /\ t.children = none /\ t.metadata = nothing
       /\ t.materials = materials /\ t.lods = lods
  BY <1>11
<1>16. CityTile(t, id, corners, side, maxLOD)
  BY <1>1, <1>5, <1>7, <1>8, <1>9, <1>10, <1>14, <1>15, Zenon DEF CityTile
<1> QED BY <1>12, <1>16

\* Such a tile can be drawn, and its levels of detail are in order.
LEMMA CityIsDrawable ==
  ASSUME NEW t, NEW id, NEW corners, NEW side, NEW maxLOD, CityOptions(corners, side, maxLOD),
         CityTile(t, id, corners, side, maxLOD)
  PROVE  Drawable(t)
<1>1. PICK size \in Nat : size = corners[3] - corners[1]
  BY DEF CityOptions
<1>2. side \in Nat /\ side * side \in Nat /\ maxLOD \in 0 .. ShiftWidth - 1 /\ maxLOD \in Nat
  BY DEF CityOptions, ShiftWidth
<1>3. t.lods \in Seq(LODs) /\ Len(t.lods) = maxLOD + 1 /\ DOMAIN t.lods = 1 .. maxLOD + 1
  BY DEF CityTile
<1> DEFINE kept(n) == Rounded(side * side, Shifted[n - 1])
           error(n) == GeometricError(size, n - 1)
<1>4. \A n \in 1 .. maxLOD + 1 : LODOf(t.lods[n], error(n), kept(n))
  BY <1>1 DEF CityTile
<1> HIDE DEF kept, error
<1>5. t.lods # <<>>
  BY <1>2, <1>3
<1>6. ASSUME NEW n \in DOMAIN t.lods, NEW mesh \in ToSet(t.lods[n].meshes)
      PROVE  /\ mesh.materialIndex < Len(t.materials)
             /\ \A i \in ToSet(mesh.indices) : i < Len(mesh.vertices)
  <2>1. LODOf(t.lods[n], error(n), kept(n))
    BY <1>3, <1>4
  <2>2. PICK i \in DOMAIN t.lods[n].meshes : mesh = t.lods[n].meshes[i]
    BY DEF ToSet
  <2>3. PICK material \in {GroundMaterial, BuildingMaterial} : \E k \in Nat : MeshOfK(mesh, material, k)
    <3>1. t.lods[n].meshes \in Seq(Meshes)
      BY <2>1 DEF LODOf, LODs
    <3>2. i = 1 \/ (i = 2 /\ kept(n) # 0)
      BY <2>1, <2>2, <3>1 DEF LODOf
    <3> QED BY <2>1, <2>2, <3>2 DEF LODOf
  <2>4. PICK k \in Nat : MeshOfK(mesh, material, k)
    BY <2>3
  <2>5. mesh.materialIndex < Len(t.materials)
    BY <2>4 DEF MeshOfK, CityTile, GroundMaterial, BuildingMaterial
  <2>6. mesh.indices \in Seq(Int) /\ DOMAIN mesh.indices = 1 .. k
    BY <2>4 DEF MeshOfK, Meshes
  <2>7. \A j \in 1 .. k : mesh.indices[j] < k
    BY <2>4 DEF MeshOfK
  <2> QED BY <2>4, <2>5, <2>6, <2>7 DEF ToSet, MeshOfK
<1>7. ASSUME NEW n \in 1 .. Len(t.lods) - 1
      PROVE  /\ t.lods[n].error <= t.lods[n + 1].error
             /\ Buildings(t.lods[n + 1]) = (Buildings(t.lods[n]) + 1) \div 2
  <2>1. /\ n \in 1 .. maxLOD + 1 /\ n + 1 \in 1 .. maxLOD + 1
        /\ n - 1 \in 0 .. ShiftWidth - 2 /\ n \in 1 .. ShiftWidth - 1 /\ n - 1 \in 0 .. ShiftWidth - 1
        /\ n - 1 + 1 = n /\ n + 1 - 1 = n
    BY <1>2, <1>3 DEF ShiftWidth
  <2>2. LODOf(t.lods[n], error(n), kept(n)) /\ LODOf(t.lods[n + 1], error(n + 1), kept(n + 1))
    BY <1>4, <2>1
  <2>3. error(n) <= error(n + 1)
    <3>1. GeometricError(size, n - 1) <= GeometricError(size, n - 1 + 1)
      BY <2>1, ErrorsGrow
    <3> QED BY <2>1, <3>1 DEF error
  <2>4. kept(n + 1) = (kept(n) + 1) \div 2
    <3>1. PICK s \in Nat : s = Shifted[n - 1] /\ s > 0 /\ Shifted[n] = 2 * s
      BY <2>1, Powers
    <3>2. Rounded(side * side, 2 * s) = (Rounded(side * side, s) + 1) \div 2
      BY <1>2, <3>1, HalfAsMany
    <3> QED BY <2>1, <3>1, <3>2 DEF kept
  <2>5. Buildings(t.lods[n]) = kept(n) /\ Buildings(t.lods[n + 1]) = kept(n + 1)
    BY <2>2 DEF LODOf, Buildings, MeshOfK
  <2> QED BY <2>2, <2>3, <2>4, <2>5 DEF LODOf
<1> QED BY <1>5, <1>6, <1>7 DEF Drawable

\* A tile that is not too large to be read again.
LEMMA CityFits ==
  ASSUME NEW t, NEW id, NEW corners, NEW side, NEW maxLOD, CityOptions(corners, side, maxLOD),
         CityTile(t, id, corners, side, maxLOD),
         2 <= MaxArrayCount, maxLOD + 1 <= MaxArrayCount, side * side <= MaxArrayCount
  PROVE  TileFits(t)
<1>1. side \in Nat /\ side * side \in Nat /\ maxLOD \in 0 .. ShiftWidth - 1 /\ maxLOD \in Nat
  BY DEF CityOptions, ShiftWidth
<1>2. Len(t.lods) = maxLOD + 1 /\ Len(t.materials) = 2 /\ Len(t.children) = 0 /\ Len(t.metadata) = 0
  BY DEF CityTile
<1>3. ASSUME NEW n \in 1 .. Len(t.lods) PROVE LODFits(t.lods[n])
  <2>1. PICK kept \in Nat : kept = Rounded(side * side, Shifted[n - 1]) /\ kept <= side * side
    <3>1. n - 1 \in 0 .. ShiftWidth - 1
      BY <1>1, <1>2 DEF ShiftWidth
    <3>2. PICK s \in Nat : s = Shifted[n - 1] /\ s > 0
      BY <3>1, Powers
    <3> QED BY <1>1, <3>2, HalfAsMany
  <2>2. LODOf(t.lods[n], GeometricError(corners[3] - corners[1], n - 1), kept)
    BY <1>2, <2>1 DEF CityTile
  <2>3. \A i \in 1 .. Len(t.lods[n].meshes) : i = 1 \/ (i = 2 /\ kept # 0)
    BY <2>2 DEF LODOf
  <2>4. ASSUME NEW i \in 1 .. Len(t.lods[n].meshes) PROVE MeshFits(t.lods[n].meshes[i])
    <3>1. CASE i = 1
      <4>1. MeshOfK(t.lods[n].meshes[1], GroundMaterial, 1)
        BY <2>2 DEF LODOf
      <4>2. 1 <= MaxArrayCount
        BY FormatAssumption
      <4> QED BY <3>1, <4>1, <4>2 DEF MeshOfK, MeshFits
    <3>2. CASE i = 2 /\ kept # 0
      <4>1. MeshOfK(t.lods[n].meshes[2], BuildingMaterial, kept)
        BY <2>2, <3>2 DEF LODOf
      <4>2. kept <= MaxArrayCount
        BY <1>1, <2>1, FormatAssumption
      <4> QED BY <3>2, <4>1, <4>2 DEF MeshOfK, MeshFits
    <3> QED BY <2>3, <3>1, <3>2
  <2>5. Len(t.lods[n].meshes) <= MaxArrayCount
    BY <2>2, FormatAssumption DEF LODOf
  <2> QED BY <2>4, <2>5 DEF LODFits
<1>4. 0 \div 2 = 0 /\ 0 <= MaxArrayCount
  BY FormatAssumption
<1> QED BY <1>2, <1>3, <1>4 DEF TileFits
-----------------------------------------------------------------------------
(***************************************************************************)
(* The files. Builders run one after the other, each with a grid and       *)
(* options of its own, and die. Every file is a tile of somebody else or   *)
(* of a run, whole or cut short (FilesAreTiles); a run has written the     *)
(* first cells of its grid whole (RunsInOrder); a manifest was written     *)
(* when all tiles of its run were (ManifestsMatch), and each crash since   *)
(* took one of them at most (CrashesBreak).                                *)
(***************************************************************************)
\* What may be left of the file of a tile: all of it, or a beginning.
FilesOf(t) == {File(WriteTile(t), <<>>)} \cup CutShort(WriteTile(t))

\* The grid of run b, and the ids of a grid.
Grid(b) == dataset.builds[b].gridSize
Cells(g) == {Cell(n, g) : n \in 0 .. g * g - 1}

\* The file of a tile is as run b wrote it.
WrittenBy(b, id) ==
  id \in DOMAIN tiles /\ tiles[id] = File(WriteTile(TileToWrite(b, id)), <<>>)

\* Some run has written it, to its end, and nobody has touched it since.
Whole(id) == \E b \in 1 .. build : id \in Cells(Grid(b)) /\ WrittenBy(b, id)

\* The last run has written its first n tiles.
RunWrote(n) == \A k \in 0 .. n - 1 : WrittenBy(build, Cell(k, Grid(build)))

\* Every file is a tile of somebody else or of a run, whole or cut short.
FilesAreTiles ==
  \A id \in DOMAIN tiles :
    \/ \E t \in dataset.saved : tiles[id] \in FilesOf(t)
    \/ \E b \in 1 .. build : id \in Cells(Grid(b)) /\ tiles[id] \in FilesOf(TileToWrite(b, id))

\* A run writes its cells in order, each of them whole.
RunsInOrder ==
  /\ crashes \in Nat
  /\ \A b \in 1 .. build : IsPowerOfTwo(Grid(b))
  /\ builder = "tiles" =>
       written \in 0 .. Grid(build) * Grid(build) /\ RunWrote(written)

\* What a manifest of the builder says, and what was there when it was written.
ManifestsMatch ==
  \A m \in world \cup opened :
    /\ m.build \in 0 .. build
    /\ m.build > 0 => /\ m.tileSize = dataset.builds[m.build].tileSize
                      /\ m.worldSize = m.tileSize * Grid(m.build)
    /\ m.build = build /\ build > 0 =>
         builder = "idle" /\ RunWrote(Grid(build) * Grid(build))

\* The tiles of a manifest of the builder that are not whole: a crash takes one
\* of them at most.
Broken(m) == {id \in Cells(Grid(m.build)) : ~Whole(id)}

CrashesBreak ==
  \A m \in world \cup opened : m.build > 0 => Cardinality(Broken(m)) <= crashes

\* The index has tiles of the grid of the manifest that is open, where it says.
BoundsAreCells ==
  /\ opened = {} => DOMAIN bounds = {}
  /\ \A m, n \in opened : m = n
  /\ \A m \in opened : \A id \in DOMAIN bounds :
       id \in Cells(GridSize(m)) /\ bounds[id] = TileBounds(m, id)

FilesInv ==
  /\ FilesAreTiles /\ RunsInOrder /\ ManifestsMatch /\ CrashesBreak /\ BoundsAreCells
-----------------------------------------------------------------------------
LEMMA TileWritten ==
  ASSUME NEW t \in Tiles
  PROVE  WriteTile(t) \in Seq(Int)
<1>1. <<Magic>> \in Seq(Int) /\ FromVersion(t) \in Seq(Int)
  BY TileLists, RestsTyped DEF Lists, Rests
<1>2. <<Magic>> \o FromVersion(t) \in Seq(Int)
  BY <1>1, ConcatProperties
<1> QED BY <1>2, TileInPieces, Zenon

\* Loading what may be left of a tile gives that tile, or nothing.
LoadsAs(file, t) ==
  LoadTile(file.fields, file.torn).value = <<>> \/ LoadTile(file.fields, file.torn) = Expected(t)

\* However many fields there are, and whatever the torn one.
LEMMA PartLoads ==
  ASSUME NEW t \in Tiles, NEW k \in Nat, k <= Len(WriteTile(t)), NEW torn \in Seq(Int)
  PROVE  LoadsAs(File(SubSeq(WriteTile(t), 1, k), torn), t)
<1>1. PICK w \in Seq(Int) : w = WriteTile(t)
  BY TileWritten
<1>2. k <= Len(w) /\ Len(w) \in Nat
  BY <1>1
<1>3. PICK fields \in Seq(Int) : fields = SubSeq(w, 1, k)
  <2>1. \A i \in 1 .. k : w[i] \in Int
    BY <1>2
  <2>2. SubSeq(w, 1, k) \in Seq(Int)
    BY <2>1, SubSeqProperties
  <2> QED BY <2>2
<1>4. PICK rest \in Seq(Int) : rest = SubSeq(w, k + 1, Len(w))
  <2>1. \A i \in k + 1 .. Len(w) : w[i] \in Int
    BY <1>2
  <2>2. SubSeq(w, k + 1, Len(w)) \in Seq(Int)
    BY <1>2, <2>1, SubSeqProperties
  <2> QED BY <2>2
<1>5. fields \o rest = w
  <2>0. /\ 1 \in 1 .. Len(w) + 1 /\ k \in 1 - 1 .. Len(w) /\ Len(w) \in k .. Len(w)
    BY <1>2
  <2>1. SubSeq(w, 1, k) \o SubSeq(w, k + 1, Len(w)) = SubSeq(w, 1, Len(w))
    BY <2>0, ConcatAdjacentSubSeq, Zenon
  <2>2. SubSeq(w, 1, Len(w)) = w
    BY SubSeqFull
  <2> QED BY <1>3, <1>4, <2>1, <2>2, Zenon
<1>6. fields \o rest = WriteTile(t)
  BY <1>1, <1>5, Zenon
<1>7. LoadTile(fields, torn).value = <<>> \/ LoadTile(fields, torn) = Expected(t)
  BY <1>6, LoadFollows, Zenon
<1>8. PICK file : file = File(fields, torn)
  OBVIOUS
<1>9. file.fields = fields /\ file.torn = torn
  BY <1>8 DEF File
<1>10. LoadsAs(file, t)
  BY <1>7, <1>9, Zenon DEF LoadsAs
<1> QED BY <1>1, <1>3, <1>8, <1>10, Zenon

LEMMA FileLoads ==
  ASSUME NEW t \in Tiles, NEW file \in FilesOf(t)
  PROVE  LoadsAs(file, t)
<1>1. PICK w \in Seq(Int) : w = WriteTile(t)
  BY TileWritten
<1>2. Len(w) \in Nat /\ SubSeq(w, 1, Len(w)) = w
  BY SubSeqFull
<1>3. <<>> \in Seq(Int)
  OBVIOUS
<1>4. CASE file = File(w, <<>>)
  <2>0. Len(w) \in Nat /\ Len(w) <= Len(w)
    BY <1>2
  <2>1. LoadsAs(File(SubSeq(w, 1, Len(w)), <<>>), t)
    BY <1>1, <1>3, <2>0, PartLoads, Zenon
  <2> QED BY <1>2, <1>4, <2>1, Zenon
<1>5. CASE file \in CutShort(w)
  <2>1. CASE \E k \in 0 .. Len(w) - 1 : file = File(SubSeq(w, 1, k), <<>>)
    <3>1. PICK k \in 0 .. Len(w) - 1 : file = File(SubSeq(w, 1, k), <<>>)
      BY <2>1
    <3>2. k \in Nat /\ k <= Len(w)
      BY <1>2
    <3> QED BY <1>1, <1>3, <3>1, <3>2, PartLoads, Zenon
  <2>2. CASE \E k \in 1 .. Len(w) : file = File(SubSeq(w, 1, k - 1), <<w[k]>>)
    <3>1. PICK k \in 1 .. Len(w) : file = File(SubSeq(w, 1, k - 1), <<w[k]>>)
      BY <2>2
    <3>2. k - 1 \in Nat /\ k - 1 <= Len(w) /\ <<w[k]>> \in Seq(Int)
      BY <1>2
    <3> QED BY <1>1, <3>1, <3>2, PartLoads, Zenon
  <2>3. DOMAIN w = 1 .. Len(w)
    OBVIOUS
  <2> QED BY <1>5, <2>1, <2>2, <2>3 DEF CutShort
<1> QED BY <1>1, <1>4, <1>5 DEF FilesOf

\* A whole file loads if no count in it is above kMaxArrayCount.
LEMMA WholeLoads ==
  ASSUME NEW t \in Tiles, TileFits(t)
  PROVE  LoadTile(WriteTile(t), <<>>) = Expected(t)
<1>1. PICK w \in Seq(Int) : w = WriteTile(t)
  BY TileWritten
<1>2. PICK none \in Seq(Int) : none = <<>>
  <2>1. <<>> \in Seq(Int)
    OBVIOUS
  <2> QED BY <2>1
<1>3. w \o none = w
  BY <1>2, ConcatEmptySeq
<1>4. w \o none = WriteTile(t)
  BY <1>1, <1>3, Zenon
<1>5. LoadTile(w, none) = Expected(t)
  BY <1>2, <1>4, LoadFollows, Zenon
<1> QED BY <1>1, <1>2, <1>5, Zenon
-----------------------------------------------------------------------------
LEMMA CellsAreFinite ==
  ASSUME NEW g \in Nat
  PROVE  IsFiniteSet(Cells(g))
<1> DEFINE last == g * g - 1
           f == [n \in 0 .. last |-> Cell(n, g)]
<1>1. last \in Int
  BY Products
<1>2. f \in Surjection(0 .. last, Cells(g))
  BY DEF Surjection, Cells
<1>3. IsFiniteSet(0 .. last)
  BY <1>1, FS_Interval
<1> QED BY <1>2, <1>3, FS_Surjection

\* Grids that are powers of two have ids.
LEMMA CellIsId ==
  ASSUME NEW g \in Nat, g > 0, IsPowerOfTwo(g), NEW id \in Cells(g)
  PROVE  id \in TileIds
<1> DEFINE P(k) == g = 2 ^ k
<1>1. \E k \in 0 .. g : P(k)
  BY DEF IsPowerOfTwo
<1>2. Log2(g) = CHOOSE k \in 0 .. g : P(k)
  BY DEF Log2
<1> HIDE DEF P
<1>3. Log2(g) \in 0 .. g
  BY <1>1, <1>2
<1>4. PICK n \in 0 .. g * g - 1 : id = Cell(n, g)
  BY DEF Cells
<1>5. n \in Nat
  OBVIOUS
<1>6. n % g \in Int /\ n \div g \in Int
  BY <1>5
<1> QED BY <1>3, <1>4, <1>6 DEF Cell, TileIds

\* Every run so far was started with options that can be.
LEMMA RunsTyped ==
  ASSUME ManifestsTyped, RunsInOrder, NEW b \in 1 .. build
  PROVE  /\ dataset.builds[b] \in BuildOptions
         /\ Grid(b) \in Nat /\ Grid(b) > 0 /\ IsPowerOfTwo(Grid(b))
         /\ Grid(b) * Grid(b) \in Nat
         /\ IsFiniteSet(Cells(Grid(b)))
<1>1. dataset.builds \in Seq(BuildOptions) /\ b \in 1 .. Len(dataset.builds)
  BY DatasetAssumption DEF ManifestsTyped
<1>2. dataset.builds[b] \in BuildOptions
  BY <1>1
<1>3. Grid(b) \in Nat /\ Grid(b) > 0
  BY <1>2 DEF Grid, BuildOptions
<1>4. IsPowerOfTwo(Grid(b))
  BY DEF RunsInOrder
<1>5. \A x \in Nat : x * x \in Nat
  OBVIOUS
<1> QED BY <1>2, <1>3, <1>4, <1>5, CellsAreFinite

\* What a run writes for a cell of its grid is a generated tile.
Corners(b, id) == BoundsToWrite(dataset.builds[b], id)
IsCity(b, id, t) ==
  /\ CityOptions(Corners(b, id), dataset.builds[b].buildingsPerTileSide, dataset.builds[b].maxLOD)
  /\ CityTile(t, id, Corners(b, id), dataset.builds[b].buildingsPerTileSide,
              dataset.builds[b].maxLOD)

\* Every tile a run writes is generated, with the options of the run.
LEMMA RunMakesCity ==
  ASSUME ManifestsTyped, RunsInOrder, NEW b \in 1 .. build, NEW id \in Cells(Grid(b))
  PROVE  IsCity(b, id, TileToWrite(b, id))
<1>1. PICK o \in BuildOptions : o = dataset.builds[b]
  BY RunsTyped
<1>2. id \in TileIds
  BY RunsTyped, CellIsId
<1>3. PICK s \in Nat : s = o.tileSize
  BY DEF BuildOptions
<1>4. PICK h \in Int : h = (o.tileSize * o.gridSize) \div 2
  <2>1. o.tileSize * o.gridSize \in Int
    BY Products DEF BuildOptions
  <2> QED BY <2>1
<1>5. PICK x, z \in Int : x = id[2] * s /\ z = id[3] * s
  BY <1>2, <1>3, Products DEF TileIds
<1>6. BoundsToWrite(o, id) = <<x - h, z - h, x - h + s, z - h + s>>
  BY <1>3, <1>4, <1>5 DEF BoundsToWrite
<1>7. PICK corners \in [1 .. 4 -> Int] : corners = BoundsToWrite(o, id) /\ corners[3] - corners[1] \in Nat
  <2>1. x - h \in Int /\ z - h \in Int /\ x - h + s \in Int /\ z - h + s \in Int /\ x - h + s - (x - h) = s
    OBVIOUS
  <2> QED BY <1>6, <2>1
<1>8. CityOptions(corners, o.buildingsPerTileSide, o.maxLOD)
  BY <1>7 DEF CityOptions, BuildOptions
<1>9. TileToWrite(b, id) = GenerateTile(id, corners, o.buildingsPerTileSide, o.maxLOD)
  BY <1>1, <1>7, Zenon DEF TileToWrite
<1>10. CityTile(TileToWrite(b, id), id, corners, o.buildingsPerTileSide, o.maxLOD)
  BY <1>2, <1>8, <1>9, CityGenerated, Zenon
<1> QED BY <1>1, <1>7, <1>8, <1>10, Zenon DEF IsCity, Corners

LEMMA RunMakesTile ==
  ASSUME ManifestsTyped, RunsInOrder, NEW b \in 1 .. build, NEW id \in Cells(Grid(b))
  PROVE  TileToWrite(b, id) \in Tiles
BY RunMakesCity, Zenon DEF IsCity, CityTile
-----------------------------------------------------------------------------
\* The builder's manifest opens with the grid of its run.
LEMMA GridIsRunGrid ==
  ASSUME ManifestsTyped, RunsInOrder, ManifestsMatch, NEW m \in opened, m.build > 0
  PROVE  /\ m.build \in 1 .. build /\ GridSize(m) = Grid(m.build)
<1>1. m.build \in 1 .. build
  BY DEF ManifestsMatch, ManifestsTyped, Manifests
<1>2. PICK t \in Nat : t = dataset.builds[m.build].tileSize /\ t > 0
  BY <1>1, RunsTyped DEF BuildOptions
<1>3. PICK g \in Nat : g = Grid(m.build)
  BY <1>1, RunsTyped
<1>4. m.tileSize = t /\ m.worldSize = t * g
  BY <1>2, <1>3 DEF ManifestsMatch
<1>5. (2 * (t * g) + t) \div (2 * t) = g
  <2>1. 2 * (t * g) + t = (2 * t) * g + t
    OBVIOUS
  <2>2. \A d, r \in Nat : r < d => (d * g + r) \div d = g
    OBVIOUS
  <2>3. 2 * t \in Nat /\ t < 2 * t
    BY <1>2
  <2> QED BY <2>1, <2>2, <2>3
<1> QED BY <1>1, <1>3, <1>4, <1>5 DEF GridSize

\* Both compute the corners of a cell alike.
LEMMA CornersAgree ==
  ASSUME ManifestsTyped, RunsInOrder, ManifestsMatch, NEW m \in opened, m.build > 0,
         NEW id \in Cells(Grid(m.build))
  PROVE  LET c == Corners(m.build, id) IN TileBounds(m, id) = Box(c[1], c[2], c[3], c[4])
<1>1. m.build \in 1 .. build
  BY GridIsRunGrid
<1>2. PICK o \in BuildOptions : o = dataset.builds[m.build]
  BY <1>1, RunsTyped
<1>3. id \in TileIds
  BY <1>1, RunsTyped, CellIsId
<1>4. PICK t \in Int : t = o.tileSize
  BY DEF BuildOptions
<1>5. PICK w \in Int : w = o.tileSize * o.gridSize
  BY Products DEF BuildOptions
<1>6. PICK h \in Int : h = w \div 2
  OBVIOUS
<1>7. PICK x, z \in Int : x = id[2] * t /\ z = id[3] * t
  BY <1>3, Products DEF TileIds
<1>8. m.tileSize = t /\ m.worldSize = w
  BY <1>2, <1>4, <1>5 DEF ManifestsMatch, Grid
<1>9. BoundsToWrite(o, id) = <<x - h, z - h, x - h + t, z - h + t>>
  BY <1>4, <1>5, <1>6, <1>7 DEF BoundsToWrite
<1>10. TileBounds(m, id) = Box(x - h, z - h, x - h + t, z - h + t)
  <2>1. WorldBounds(m).minX = -h /\ WorldBounds(m).minZ = -h
    BY <1>6, <1>8 DEF WorldBounds, Box
  <2>2. -h + x = x - h /\ -h + z = z - h
    OBVIOUS
  <2> QED BY <1>7, <1>8, <2>1, <2>2 DEF TileBounds
<1> QED BY <1>2, <1>9, <1>10 DEF Corners
-----------------------------------------------------------------------------
LEMMA FilesInit == DatasetInit => FilesInv
<1> SUFFICES ASSUME DatasetInit PROVE FilesInv
  OBVIOUS
<1>1. /\ dataset \in Datasets /\ world = dataset.found /\ build = 0 /\ builder = "idle"
      /\ opened = {} /\ crashes = 0 /\ DOMAIN bounds = {}
  BY DEF DatasetInit
<1>2. \A m \in world : m.build = 0
  BY <1>1, DatasetAssumption
<1>3. FilesAreTiles
  <2> SUFFICES ASSUME NEW id \in DOMAIN tiles PROVE \E t \in dataset.saved : tiles[id] \in FilesOf(t)
    BY DEF FilesAreTiles
  <2>1. PICK t \in dataset.saved : \E file \in FilesOf(t) : tiles = [i \in {t.id} |-> file]
    BY DEF DatasetInit, FilesOf
  <2> QED BY <2>1
<1>4. RunsInOrder
  BY <1>1 DEF RunsInOrder
<1>5. ManifestsMatch
  BY <1>1, <1>2 DEF ManifestsMatch
<1>6. CrashesBreak
  BY <1>1, <1>2 DEF CrashesBreak
<1>7. BoundsAreCells
  BY <1>1 DEF BoundsAreCells
<1> QED BY <1>3, <1>4, <1>5, <1>6, <1>7 DEF FilesInv

\* What runs write is settled by the dataset.
LEMMA RunsStay ==
  ASSUME dataset' = dataset
  PROVE  /\ \A b : Grid(b)' = Grid(b)
         /\ \A b, id : TileToWrite(b, id)' = TileToWrite(b, id)
<1>1. \A b : Grid(b)' = Grid(b)
  BY DEF Grid
<1>2. \A b, id : TileToWrite(b, id)' = TileToWrite(b, id)
  BY Zenon DEF TileToWrite
<1> QED BY <1>1, <1>2

\* A manifest of the builder is that of a run, which has finitely many tiles.
LEMMA BrokenIsFinite ==
  ASSUME ManifestsTyped, RunsInOrder, ManifestsMatch, NEW m \in world \cup opened, m.build > 0
  PROVE  m.build \in 1 .. build /\ IsFiniteSet(Broken(m)) /\ Cardinality(Broken(m)) \in Nat
<1>1. m.build \in 1 .. build
  BY DEF ManifestsMatch, ManifestsTyped, Manifests
<1>2. IsFiniteSet(Cells(Grid(m.build)))
  BY <1>1, RunsTyped
<1>3. Broken(m) \in SUBSET Cells(Grid(m.build))
  BY DEF Broken
<1> QED BY <1>1, <1>2, <1>3, FS_Subset, FS_CardinalityType

\* A tile that is whole stays so until it is written anew.
LEMMA WholeStays ==
  ASSUME ManifestsTyped, dataset' = dataset, build' \in Nat, build <= build', NEW id, Whole(id),
         id \in DOMAIN tiles', tiles'[id] = tiles[id]
  PROVE  Whole(id)'
<1>1. PICK b \in 1 .. build : id \in Cells(Grid(b)) /\ WrittenBy(b, id)
  BY DEF Whole
<1>2. b \in 1 .. build'
  BY DatasetAssumption DEF ManifestsTyped
<1>3. Cells(Grid(b))' = Cells(Grid(b))
  BY RunsStay DEF Cells
<1>4. WrittenBy(b, id)'
  BY <1>1, RunsStay, Zenon DEF WrittenBy
<1> QED BY <1>1, <1>2, <1>3, <1>4, Zenon DEF Whole

\* If what was whole stays whole, no more crashes than there were are to blame.
LEMMA BrokenShrinks ==
  ASSUME ManifestsTyped, RunsInOrder, ManifestsMatch, CrashesBreak,
         NEW m \in world \cup opened, m.build > 0,
         dataset' = dataset, \A id : Whole(id) => Whole(id)'
  PROVE  Cardinality(Broken(m)') <= crashes
<1>1. Broken(m)' \in SUBSET Broken(m)
  BY RunsStay DEF Broken, Cells
<1>2. IsFiniteSet(Broken(m)) /\ Cardinality(Broken(m)) \in Nat
  BY BrokenIsFinite
<1>3. Cardinality(Broken(m)') \in Nat /\ Cardinality(Broken(m)') <= Cardinality(Broken(m))
  BY <1>1, <1>2, FS_Subset, FS_CardinalityType
<1>4. Cardinality(Broken(m)) <= crashes /\ crashes \in Nat
  BY DEF CrashesBreak, RunsInOrder
<1> QED BY <1>2, <1>3, <1>4

\* Nothing on disk changes but the last manifest is forgotten.
LEMMA StartKeepsFiles ==
  ASSUME DatasetInv, FilesInv, StartBuild
  PROVE  FilesInv'
<1> USE DEF DatasetInv, FilesInv
<1>1. /\ builder = "idle" /\ build' = build + 1 /\ builder' = "tiles" /\ written' = 0
      /\ dataset' = dataset /\ tiles' = tiles /\ world' = world /\ crashes' = crashes
      /\ opened' = opened /\ bounds' = bounds
      /\ IsPowerOfTwo(Grid(build + 1)) /\ build < Len(dataset.builds)
  BY DEF StartBuild, Grid
<1>2. dataset.builds \in Seq(BuildOptions) /\ build \in Nat /\ build + 1 \in 1 .. Len(dataset.builds)
  BY <1>1, DatasetAssumption DEF ManifestsTyped
<1>3. 1 .. build' = (1 .. build) \cup {build + 1}
  BY <1>1, <1>2
<1>4. /\ \A b : Grid(b)' = Grid(b) /\ Cells(Grid(b))' = Cells(Grid(b))
      /\ \A b, id : TileToWrite(b, id)' = TileToWrite(b, id)
  BY <1>1, RunsStay DEF Cells
<1>5. FilesAreTiles'
  BY <1>1, <1>3, <1>4 DEF FilesAreTiles
<1>6. RunsInOrder'
  <2>1. Grid(build + 1) \in Nat
    <3>1. dataset.builds[build + 1] \in BuildOptions
      BY <1>2
    <3> QED BY <3>1 DEF Grid, BuildOptions
  <2>2. 0 \in 0 .. Grid(build + 1) * Grid(build + 1)
    <3>1. \A x \in Nat : 0 \in 0 .. x * x
      OBVIOUS
    <3> QED BY <2>1, <3>1
  <2>3. RunWrote(0)'
    BY DEF RunWrote
  <2>4. \A b \in 1 .. build' : IsPowerOfTwo(Grid(b)')
    BY <1>1, <1>3, <1>4 DEF RunsInOrder
  <2>5. \A b \in 1 .. build' : IsPowerOfTwo(Grid(b))'
    BY <2>4 DEF IsPowerOfTwo
  <2>6. crashes' \in Nat
    BY <1>1 DEF RunsInOrder
  <2> QED BY <1>1, <1>4, <2>2, <2>3, <2>5, <2>6 DEF RunsInOrder
<1>7. ManifestsMatch'
  BY <1>1, <1>2, <1>4 DEF ManifestsMatch
<1>8. CrashesBreak'
  <2>1. \A id : Whole(id) => Whole(id)'
    BY <1>1, <1>3, <1>4 DEF Whole, WrittenBy
  <2> SUFFICES ASSUME NEW m \in world \cup opened, m.build > 0 PROVE Cardinality(Broken(m)') <= crashes
    BY <1>1 DEF CrashesBreak
  <2> QED BY <1>1, <2>1, BrokenShrinks
<1>9. BoundsAreCells'
  BY <1>1 DEF BoundsAreCells, GridSize, TileBounds, WorldBounds, Cells
<1> QED BY <1>5, <1>6, <1>7, <1>8, <1>9
-----------------------------------------------------------------------------
\* The tile a builder is at.
LEMMA AtCell ==
  ASSUME ManifestsTyped, RunsInOrder, builder = "tiles", written < Grid(build) * Grid(build)
  PROVE  /\ build \in 1 .. build /\ written \in Nat
         /\ CurrentId = Cell(written, Grid(build)) /\ CurrentId \in Cells(Grid(build))
         /\ CurrentFile = WriteTile(TileToWrite(build, CurrentId))
<1>1. build \in 1 .. build
  BY DatasetAssumption DEF ManifestsTyped
<1>2. PICK c \in Nat : c = Grid(build) * Grid(build)
  BY <1>1, RunsTyped
<1>3. written \in Nat /\ written \in 0 .. c - 1
  BY <1>2 DEF RunsInOrder
<1>4. CurrentId = Cell(written, Grid(build))
  BY DEF CurrentId, Options, Grid
<1>5. CurrentId \in Cells(Grid(build))
  BY <1>2, <1>3, <1>4 DEF Cells
<1> QED BY <1>1, <1>3, <1>4, <1>5 DEF CurrentFile

\* The next cell is whole; no other file changes.
LEMMA SavingKeepsFiles ==
  ASSUME DatasetInv, FilesInv, SaveTile
  PROVE  FilesInv'
<1> USE DEF DatasetInv, FilesInv
<1>1. /\ builder = "tiles" /\ builder' = "tiles" /\ written' = written + 1
      /\ build' = build /\ crashes' = crashes
      /\ dataset' = dataset /\ world' = world /\ opened' = opened /\ bounds' = bounds
      /\ written < Grid(build) * Grid(build)
  BY DEF SaveTile, Options, Grid
<1>2. PICK now : now = CurrentId
  OBVIOUS
<1>3. PICK file : file = File(WriteTile(TileToWrite(build, now)), <<>>)
  OBVIOUS
<1>4. /\ build \in 1 .. build /\ written \in Nat
      /\ now = Cell(written, Grid(build)) /\ now \in Cells(Grid(build))
      /\ CurrentFile = WriteTile(TileToWrite(build, now))
  BY <1>1, <1>2, AtCell
<1>5. tiles' = [id \in DOMAIN tiles \cup {now} |-> IF id = now THEN file ELSE tiles[id]]
  BY <1>2, <1>3, <1>4, Zenon DEF SaveTile
<1>6. /\ \A b : Grid(b)' = Grid(b) /\ Cells(Grid(b))' = Cells(Grid(b))
      /\ \A b, id : TileToWrite(b, id)' = TileToWrite(b, id)
  BY <1>1, RunsStay DEF Cells
<1>7. \A id \in DOMAIN tiles : id # now => id \in DOMAIN tiles' /\ tiles'[id] = tiles[id]
  BY <1>5
<1>8. now \in DOMAIN tiles' /\ tiles'[now] = file
  BY <1>5
<1>9. WrittenBy(build, now)'
  BY <1>1, <1>3, <1>6, <1>8, Zenon DEF WrittenBy
<1>10. \A id : Whole(id) => Whole(id)'
  <2> SUFFICES ASSUME NEW id, Whole(id) PROVE Whole(id)'
    OBVIOUS
  <2>1. CASE id = now
    BY <1>1, <1>4, <1>6, <1>9, <2>1 DEF Whole
  <2>2. CASE id # now
    BY <1>1, <1>4, <1>7, <2>2, WholeStays DEF Whole, WrittenBy, ManifestsTyped
  <2> QED BY <2>1, <2>2
<1>11. FilesAreTiles'
  <2>1. file \in FilesOf(TileToWrite(build, now))
    BY <1>3, Zenon DEF FilesOf
  <2> SUFFICES ASSUME NEW id \in DOMAIN tiles'
               PROVE  \/ \E t \in dataset.saved : tiles'[id] \in FilesOf(t)
                      \/ \E b \in 1 .. build : id \in Cells(Grid(b))
                                               /\ tiles'[id] \in FilesOf(TileToWrite(b, id))
    BY <1>1, <1>6 DEF FilesAreTiles
  <2>2. CASE id = now
    BY <1>4, <1>8, <2>1, <2>2
  <2>3. CASE id # now
    BY <1>5, <1>7, <2>3 DEF FilesAreTiles
  <2> QED BY <2>2, <2>3
<1>12. RunsInOrder'
  <2>1. PICK c \in Nat : c = Grid(build) * Grid(build)
    BY <1>4, RunsTyped
  <2>2. written + 1 \in 0 .. c
    BY <1>1, <1>4, <2>1
  <2>3. ASSUME NEW id, NEW k \in 0 .. written, id = Cell(k, Grid(build))
        PROVE  WrittenBy(build, id)'
    <3>1. CASE id = now
      BY <1>9, <3>1, Zenon
    <3>2. CASE id # now
      <4>1. k \in 0 .. written - 1
        BY <1>4, <2>3, <3>2
      <4>2. WrittenBy(build, id)
        BY <1>1, <2>3, <4>1 DEF RunsInOrder, RunWrote
      <4> QED BY <1>1, <1>6, <1>7, <3>2, <4>2 DEF WrittenBy
    <3> QED BY <3>1, <3>2
  <2>4. Grid(build)' = Grid(build)
    BY <1>1 DEF Grid
  <2>5. RunWrote(written)'
    <3>1. written' - 1 = written
      BY <1>1, <1>4
    <3> QED BY <2>3, <2>4, <3>1, Zenon DEF RunWrote, Cell, Log2
  <2>6. \A b \in 1 .. build : IsPowerOfTwo(Grid(b))'
    BY <1>6 DEF RunsInOrder, IsPowerOfTwo
  <2> QED BY <1>1, <2>1, <2>2, <2>4, <2>5, <2>6 DEF RunsInOrder
<1>13. ManifestsMatch'
  BY <1>1, <1>4, <1>6 DEF ManifestsMatch
<1>14. CrashesBreak'
  BY <1>1, <1>10, BrokenShrinks DEF CrashesBreak
<1>15. BoundsAreCells'
  BY <1>1 DEF BoundsAreCells, GridSize, TileBounds, WorldBounds, Cells
<1> QED BY <1>11, <1>12, <1>13, <1>14, <1>15

\* The manifest comes when all its tiles are whole.
LEMMA ManifestKeepsFiles ==
  ASSUME DatasetInv, FilesInv, SaveManifest
  PROVE  FilesInv'
<1> USE DEF DatasetInv, FilesInv
<1>1. /\ builder = "tiles" /\ builder' = "idle" /\ written = Grid(build) * Grid(build)
      /\ world' = {Manifest} /\ build' = build /\ crashes' = crashes /\ tiles' = tiles
      /\ written' = written
      /\ dataset' = dataset /\ opened' = opened /\ bounds' = bounds
  BY DEF SaveManifest, Options, Grid
<1>2. /\ \A b : Grid(b)' = Grid(b) /\ Cells(Grid(b))' = Cells(Grid(b))
      /\ \A b, id : TileToWrite(b, id)' = TileToWrite(b, id)
  BY <1>1, RunsStay DEF Cells
<1>3. build \in 1 .. build /\ build > 0
  BY <1>1, DatasetAssumption DEF ManifestsTyped
<1>4. RunWrote(Grid(build) * Grid(build))
  BY <1>1 DEF RunsInOrder
<1>5. \A b, id : WrittenBy(b, id)' <=> WrittenBy(b, id)
  BY <1>1, <1>2 DEF WrittenBy
<1>6. \A id : Whole(id)' <=> Whole(id)
  BY <1>1, <1>2, <1>5 DEF Whole
<1>7. FilesAreTiles'
  BY <1>1, <1>2 DEF FilesAreTiles
<1>8. RunsInOrder'
  BY <1>1, <1>2 DEF RunsInOrder, IsPowerOfTwo
<1>9. Manifest.build = build /\ Manifest.tileSize = dataset.builds[build].tileSize
      /\ Manifest.worldSize = Manifest.tileSize * Grid(build)
  BY DEF Manifest, Options, Grid
<1>10. \A m \in opened : m.build # build
  BY <1>1, <1>3 DEF ManifestsMatch
<1>11. ManifestsMatch'
  <2>1. RunWrote(Grid(build) * Grid(build))'
    BY <1>1, <1>2, <1>4, <1>5 DEF RunWrote
  <2> QED BY <1>1, <1>2, <1>3, <1>9, <2>1 DEF ManifestsMatch
<1>12. CrashesBreak'
  <2> SUFFICES ASSUME NEW m \in {Manifest} \cup opened, m.build > 0
               PROVE  Cardinality(Broken(m)') <= crashes
    BY <1>1 DEF CrashesBreak
  <2>1. CASE m \in opened
    BY <1>1, <1>6, <2>1, BrokenShrinks
  <2>2. CASE m = Manifest
    <3>1. \A id \in Cells(Grid(build)) : Whole(id)
      BY <1>3, <1>4 DEF Cells, Whole, RunWrote
    <3>2. Broken(m)' = {}
      BY <1>2, <1>6, <1>9, <2>2, <3>1 DEF Broken
    <3> QED BY <3>2, FS_EmptySet DEF RunsInOrder
  <2> QED BY <2>1, <2>2
<1>13. BoundsAreCells'
  BY <1>1 DEF BoundsAreCells, GridSize, TileBounds, WorldBounds, Cells
<1> QED BY <1>7, <1>8, <1>11, <1>12, <1>13
-----------------------------------------------------------------------------
\* A crash takes one tile at most.
LEMMA CrashKeepsFiles ==
  ASSUME DatasetInv, FilesInv, Crash
  PROVE  FilesInv'
<1> USE DEF DatasetInv, FilesInv
<1>1. /\ builder = "tiles" /\ builder' = "idle" /\ crashes' = crashes + 1
      /\ build' = build /\ dataset' = dataset /\ opened' = opened /\ bounds' = bounds
      /\ world' \subseteq world
      /\ \/ tiles' = tiles
         \/ /\ written < Grid(build) * Grid(build)
            /\ \E file \in CutShort(CurrentFile) :
                 tiles' = [id \in DOMAIN tiles \cup {CurrentId} |->
                             IF id = CurrentId THEN file ELSE tiles[id]]
  BY DEF Crash, Options, Grid
<1>2. PICK now : now = CurrentId
  OBVIOUS
<1>3. /\ \A b : Grid(b)' = Grid(b) /\ Cells(Grid(b))' = Cells(Grid(b))
      /\ \A b, id : TileToWrite(b, id)' = TileToWrite(b, id)
  BY <1>1, RunsStay DEF Cells
<1>4. /\ DOMAIN tiles \subseteq DOMAIN tiles'
      /\ \A id \in DOMAIN tiles : id # now => tiles'[id] = tiles[id]
  BY <1>1, <1>2
<1>5. \A id : id # now /\ Whole(id) => Whole(id)'
  <2> SUFFICES ASSUME NEW id, id # now, Whole(id) PROVE Whole(id)'
    OBVIOUS
  <2>1. id \in DOMAIN tiles /\ build \in Nat
    BY DatasetAssumption DEF Whole, WrittenBy, ManifestsTyped
  <2> QED BY <1>1, <1>4, <2>1, WholeStays
<1>6. FilesAreTiles'
  <2> SUFFICES ASSUME NEW id \in DOMAIN tiles'
               PROVE  \/ \E t \in dataset.saved : tiles'[id] \in FilesOf(t)
                      \/ \E b \in 1 .. build : id \in Cells(Grid(b))
                                               /\ tiles'[id] \in FilesOf(TileToWrite(b, id))
    BY <1>1, <1>3 DEF FilesAreTiles
  <2>1. CASE id \in DOMAIN tiles /\ tiles'[id] = tiles[id]
    BY <2>1 DEF FilesAreTiles
  <2>2. CASE ~(id \in DOMAIN tiles /\ tiles'[id] = tiles[id])
    <3>1. /\ written < Grid(build) * Grid(build) /\ id = CurrentId
          /\ tiles'[id] \in CutShort(CurrentFile)
      BY <1>1, <2>2
    <3>2. /\ build \in 1 .. build /\ id \in Cells(Grid(build))
          /\ CurrentFile = WriteTile(TileToWrite(build, id))
      BY <1>1, <3>1, AtCell
    <3>3. tiles'[id] \in CutShort(WriteTile(TileToWrite(build, id)))
      BY <3>1, <3>2, Zenon
    <3> QED BY <3>2, <3>3 DEF FilesOf
  <2> QED BY <2>1, <2>2
<1>7. RunsInOrder'
  BY <1>1, <1>3 DEF RunsInOrder, IsPowerOfTwo
<1>8. \A m \in world \cup opened : m.build > 0 => m.build # build
  BY <1>1 DEF ManifestsMatch
<1>9. ManifestsMatch'
  BY <1>1, <1>3, <1>8 DEF ManifestsMatch
<1>10. CrashesBreak'
  <2> SUFFICES ASSUME NEW m \in world \cup opened, m.build > 0
               PROVE  Cardinality(Broken(m)') <= crashes + 1
    BY <1>1 DEF CrashesBreak
  <2>1. IsFiniteSet(Broken(m)) /\ Cardinality(Broken(m)) \in Nat
    BY BrokenIsFinite
  <2>2. Cardinality(Broken(m)) <= crashes /\ crashes \in Nat
    BY DEF CrashesBreak, RunsInOrder
  <2>3. /\ IsFiniteSet(Broken(m) \cup {now})
        /\ Cardinality(Broken(m) \cup {now}) \in Nat
        /\ Cardinality(Broken(m) \cup {now}) <= Cardinality(Broken(m)) + 1
    <3>1. IsFiniteSet(Broken(m) \cup {now})
      BY <2>1, FS_AddElement
    <3>2. Cardinality(Broken(m) \cup {now}) =
            IF now \in Broken(m) THEN Cardinality(Broken(m)) ELSE Cardinality(Broken(m)) + 1
      BY <2>1, FS_AddElement, Zenon
    <3> QED BY <2>1, <3>1, <3>2, FS_CardinalityType
  <2>4. Broken(m)' \in SUBSET (Broken(m) \cup {now})
    BY <1>3, <1>5 DEF Broken
  <2>5. /\ Cardinality(Broken(m)') \in Nat
        /\ Cardinality(Broken(m)') <= Cardinality(Broken(m) \cup {now})
    BY <2>3, <2>4, FS_Subset, FS_CardinalityType
  <2> QED BY <2>1, <2>2, <2>3, <2>5
<1>11. BoundsAreCells'
  BY <1>1 DEF BoundsAreCells, GridSize, TileBounds, WorldBounds, Cells
<1> QED BY <1>6, <1>7, <1>9, <1>10, <1>11

\* The application does not touch the files.
LEMMA FilesUntouched ==
  ASSUME DatasetInv, FilesInv, UNCHANGED fileVars, opened' \subseteq world \cup opened
  PROVE  /\ FilesAreTiles' /\ RunsInOrder' /\ ManifestsMatch' /\ CrashesBreak'
<1> USE DEF DatasetInv, FilesInv
<1>1. /\ dataset' = dataset /\ tiles' = tiles /\ world' = world /\ builder' = builder
      /\ build' = build /\ crashes' = crashes /\ written' = written
  BY DEF fileVars
<1>2. /\ \A b : Grid(b)' = Grid(b) /\ Cells(Grid(b))' = Cells(Grid(b))
      /\ \A b, id : TileToWrite(b, id)' = TileToWrite(b, id)
  BY <1>1, RunsStay DEF Cells
<1>3. \A b, id : WrittenBy(b, id)' <=> WrittenBy(b, id)
  BY <1>1, <1>2 DEF WrittenBy
<1>4. \A n : RunWrote(n)' <=> RunWrote(n)
  BY <1>1, <1>2, <1>3 DEF RunWrote
<1>5. FilesAreTiles'
  BY <1>1, <1>2 DEF FilesAreTiles
<1>6. RunsInOrder'
  BY <1>1, <1>2, <1>4 DEF RunsInOrder, IsPowerOfTwo
<1>7. ManifestsMatch'
  BY <1>1, <1>2, <1>4 DEF ManifestsMatch
<1>8. CrashesBreak'
  <2>1. \A m : Broken(m)' = Broken(m)
    BY <1>1, <1>2, <1>3 DEF Broken, Whole
  <2> QED BY <1>1, <2>1 DEF CrashesBreak
<1> QED BY <1>5, <1>6, <1>7, <1>8

\* A new index is empty.
LEMMA OpeningKeepsFiles ==
  ASSUME DatasetInv, FilesInv, OpenWorld
  PROVE  FilesInv'
<1>1. PICK m \in world : opened' = {m}
  BY DEF OpenWorld
<1>2. UNCHANGED fileVars /\ DOMAIN bounds' = {}
  BY DEF OpenWorld
<1>3. BoundsAreCells'
  BY <1>1, <1>2 DEF BoundsAreCells
<1> QED BY <1>1, <1>2, <1>3, FilesUntouched DEF FilesInv

\* The next tile the index is given is the next cell of its grid.
LEMMA InsertingKeepsFiles ==
  ASSUME DatasetInv, FilesInv, InsertTile
  PROVE  FilesInv'
<1>1. UNCHANGED fileVars /\ opened' = opened
  BY DEF InsertTile
<1>2. PICK m \in opened :
        \E id : /\ id = Cell(Cardinality(DOMAIN bounds), GridSize(m))
                /\ bounds' = [t \in DOMAIN bounds \cup {id} |->
                                IF t = id THEN TileBounds(m, id) ELSE bounds[t]]
  BY Zenon DEF InsertTile
<1>3. PICK id : /\ id = Cell(Cardinality(DOMAIN bounds), GridSize(m))
                /\ bounds' = [t \in DOMAIN bounds \cup {id} |->
                                IF t = id THEN TileBounds(m, id) ELSE bounds[t]]
  BY <1>2
<1>4. \A n \in opened : n = m
  BY DEF FilesInv, BoundsAreCells
<1>5. id \in Cells(GridSize(m))
  <2>1. Cardinality(DOMAIN bounds) < GridSize(m) * GridSize(m)
    BY <1>4 DEF InsertTile, Indexing
  <2>2. PICK c \in Nat : c = Cardinality(DOMAIN bounds)
    BY FS_CardinalityType DEF DatasetInv, ManifestsTyped
  <2>3. PICK s \in Nat : s = GridSize(m) * GridSize(m)
    <3>1. GridSize(m) \in Nat
      BY GridIsNat DEF DatasetInv, ManifestsTyped
    <3>2. \A x \in Nat : x * x \in Nat
      OBVIOUS
    <3> QED BY <3>1, <3>2
  <2>4. c \in 0 .. s - 1
    BY <2>1, <2>2, <2>3
  <2> QED BY <1>3, <2>2, <2>3, <2>4 DEF Cells
<1>6. BoundsAreCells'
  <2>1. \A i \in DOMAIN bounds' : i \in Cells(GridSize(m)) /\ bounds'[i] = TileBounds(m, i)
    BY <1>3, <1>5 DEF FilesInv, BoundsAreCells
  <2> QED BY <1>1, <1>4, <2>1 DEF BoundsAreCells, GridSize, TileBounds, WorldBounds, Cells
<1> QED BY <1>1, <1>6, FilesUntouched DEF FilesInv

LEMMA FilesStep ==
  DatasetInv /\ FilesInv /\ [DatasetNext]_datasetVars => FilesInv'
<1> SUFFICES ASSUME DatasetInv, FilesInv, [DatasetNext]_datasetVars PROVE FilesInv'
  OBVIOUS
<1>1. CASE SplitNode \/ UNCHANGED datasetVars
  <2>1. UNCHANGED fileVars /\ opened' = opened /\ bounds' = bounds
    BY <1>1 DEF SplitNode, datasetVars
  <2>2. BoundsAreCells'
    BY <2>1 DEF FilesInv, BoundsAreCells, GridSize, TileBounds, WorldBounds, Cells
  <2> QED BY <2>1, <2>2, FilesUntouched DEF FilesInv
<1> QED
  BY <1>1, StartKeepsFiles, SavingKeepsFiles, ManifestKeepsFiles, CrashKeepsFiles,
     OpeningKeepsFiles, InsertingKeepsFiles DEF DatasetNext

\* For every dataset, however built, killed and built again: a file is a tile of
\* somebody else or of one of the runs, whole or cut short.
THEOREM FilesInvariant == DatasetSpec => []FilesInv
BY FilesInit, FilesStep, DatasetInvariant, PTL DEF DatasetSpec
-----------------------------------------------------------------------------
LEMMA FilesAre ==
  /\ \A fields, torn : File(fields, torn).fields = fields /\ File(fields, torn).torn = torn
  /\ \A t : Expected(t).error = "" /\ Expected(t).value = <<t>>
BY DEF File, Expected

\* What is loaded from a file is a tile somebody wrote to it.
LEMMA LoadedTiles ==
  ASSUME ManifestsTyped, FilesAreTiles, RunsInOrder,
         NEW id \in DOMAIN tiles, NEW tile \in Range(Load(id).value)
  PROVE  \/ tile \in dataset.saved
         \/ \E b \in 1 .. build : id \in Cells(Grid(b)) /\ tile = TileToWrite(b, id)
<1>1. Load(id) = LoadTile(tiles[id].fields, tiles[id].torn)
  BY Zenon DEF Load
<1>2. ASSUME NEW t \in Tiles, tiles[id] \in FilesOf(t) PROVE tile = t
  <2>1. LoadsAs(tiles[id], t)
    BY <1>2, FileLoads
  <2>2. Load(id).value = <<>> \/ Load(id) = Expected(t)
    BY <1>1, <2>1, Zenon DEF LoadsAs
  <2>3. CASE Load(id).value = <<>>
    BY <2>3 DEF Range
  <2>4. CASE Load(id) = Expected(t)
    <3>1. Load(id).value = <<t>>
      BY <2>4, FilesAre, Zenon
    <3> QED BY <3>1 DEF Range
  <2> QED BY <2>2, <2>3, <2>4
<1>3. CASE \E t \in dataset.saved : tiles[id] \in FilesOf(t)
  <2>1. dataset.saved \subseteq Tiles
    BY DatasetAssumption DEF ManifestsTyped
  <2> QED BY <1>2, <1>3, <2>1
<1>4. CASE \E b \in 1 .. build : id \in Cells(Grid(b)) /\ tiles[id] \in FilesOf(TileToWrite(b, id))
  BY <1>2, <1>4, RunMakesTile
<1> QED BY <1>3, <1>4 DEF FilesAreTiles

\* The properties follow from the invariant.
LEMMA LoadedWasSavedHolds ==
  ASSUME DatasetInv, FilesInv
  PROVE  LoadedWasSaved
BY LoadedTiles DEF LoadedWasSaved, DatasetInv, FilesInv

LEMMA TilesAreDrawableHolds ==
  ASSUME DatasetInv, FilesInv
  PROVE  TilesAreDrawable
<1> SUFFICES ASSUME NEW id \in DOMAIN tiles, NEW tile \in Range(Load(id).value) \ dataset.saved
             PROVE  Drawable(tile)
  BY DEF TilesAreDrawable
<1>1. PICK b \in 1 .. build : id \in Cells(Grid(b)) /\ tile = TileToWrite(b, id)
  BY LoadedTiles DEF DatasetInv, FilesInv
<1>2. IsCity(b, id, tile)
  BY <1>1, RunMakesCity DEF DatasetInv, FilesInv
<1> QED BY <1>2, CityIsDrawable, Zenon DEF IsCity

\* The tile of a file that a run wrote to its end.
LEMMA WrittenLoads ==
  ASSUME ManifestsTyped, RunsInOrder, NEW b \in 1 .. build, NEW id \in Cells(Grid(b)),
         WrittenBy(b, id)
  PROVE  /\ Load(id).value = <<>> \/ Load(id) = Expected(TileToWrite(b, id))
         /\ TileFits(TileToWrite(b, id)) => Load(id) = Expected(TileToWrite(b, id))
<1>1. PICK t \in Tiles : t = TileToWrite(b, id)
  BY RunMakesTile
<1>2. tiles[id] = File(WriteTile(t), <<>>) /\ id \in DOMAIN tiles
  BY <1>1, Zenon DEF WrittenBy
<1>3. Load(id) = LoadTile(tiles[id].fields, tiles[id].torn)
  BY <1>2, Zenon DEF Load
<1>4. tiles[id].fields = WriteTile(t) /\ tiles[id].torn = <<>>
  BY <1>2, FilesAre, Zenon
<1>5. Load(id).value = <<>> \/ Load(id) = Expected(t)
  <2>1. tiles[id] \in FilesOf(t)
    BY <1>2, Zenon DEF FilesOf
  <2>2. LoadsAs(tiles[id], t)
    BY <2>1, FileLoads
  <2> QED BY <1>3, <2>2, Zenon DEF LoadsAs
<1>6. TileFits(t) => Load(id) = Expected(t)
  BY <1>3, <1>4, WholeLoads, Zenon
<1> QED BY <1>1, <1>5, <1>6, Zenon

LEMMA TilesMatchIndexHolds ==
  ASSUME DatasetInv, FilesInv
  PROVE  TilesMatchIndex
<1> USE DEF DatasetInv, FilesInv
<1> SUFFICES ASSUME NEW m \in opened, m.build = build, build > 0,
                    NEW id \in DOMAIN bounds, NEW tile \in Range(Load(id).value)
             PROVE  tile.id = id /\ bounds[id] = Box(tile.bounds[1], tile.bounds[2],
                                                     tile.bounds[3], tile.bounds[4])
  BY DEF TilesMatchIndex
<1>1. m.build \in 1 .. build /\ GridSize(m) = Grid(build)
  BY GridIsRunGrid
<1>2. id \in Cells(Grid(build)) /\ bounds[id] = TileBounds(m, id)
  BY <1>1 DEF BoundsAreCells
<1>3. WrittenBy(build, id)
  BY <1>2 DEF ManifestsMatch, RunWrote, Cells
<1>4. Load(id).value = <<>> \/ Load(id) = Expected(TileToWrite(build, id))
  BY <1>1, <1>2, <1>3, WrittenLoads
<1>5. tile = TileToWrite(build, id)
  <2>1. CASE Load(id).value = <<>>
    BY <2>1 DEF Range
  <2>2. CASE Load(id) = Expected(TileToWrite(build, id))
    <3>1. Load(id).value = <<TileToWrite(build, id)>>
      BY <2>2, FilesAre, Zenon
    <3> QED BY <3>1 DEF Range
  <2> QED BY <1>4, <2>1, <2>2
<1>6. IsCity(build, id, tile)
  BY <1>1, <1>2, <1>5, RunMakesCity
<1>7. tile.id = id /\ tile.bounds = Corners(build, id)
  BY <1>6, Zenon DEF IsCity, CityTile
<1>8. LET c == Corners(build, id) IN TileBounds(m, id) = Box(c[1], c[2], c[3], c[4])
  BY <1>1, <1>2, CornersAgree
<1> QED BY <1>2, <1>7, <1>8, Zenon

\* No run writes a tile that is too large to be read again: the builder does not
\* look at kMaxArrayCount.
RunsFit ==
  \A d \in Datasets : \A b \in DOMAIN d.builds :
    LET o == d.builds[b] IN
      /\ 2 <= MaxArrayCount /\ o.maxLOD + 1 <= MaxArrayCount
      /\ o.buildingsPerTileSide * o.buildingsPerTileSide <= MaxArrayCount

\* A tile that is whole can be loaded.
LEMMA WholeIsThere ==
  ASSUME RunsFit, DatasetInv, FilesInv, NEW id, Whole(id)
  PROVE  Load(id).error = ""
<1> USE DEF DatasetInv, FilesInv
<1>1. PICK b \in 1 .. build : id \in Cells(Grid(b)) /\ WrittenBy(b, id)
  BY DEF Whole
<1>2. PICK o \in BuildOptions : o = dataset.builds[b]
  BY RunsTyped
<1>3. /\ 2 <= MaxArrayCount /\ o.maxLOD + 1 <= MaxArrayCount
      /\ o.buildingsPerTileSide * o.buildingsPerTileSide <= MaxArrayCount
  <2>1. dataset \in Datasets /\ b \in DOMAIN dataset.builds
    BY DatasetAssumption DEF ManifestsTyped
  <2> QED BY <1>2, <2>1, Zenon DEF RunsFit
<1>4. IsCity(b, id, TileToWrite(b, id))
  BY <1>1, RunMakesCity
<1>5. TileFits(TileToWrite(b, id))
  BY <1>2, <1>3, <1>4, CityFits, Zenon DEF IsCity
<1>6. Load(id) = Expected(TileToWrite(b, id))
  BY <1>1, <1>5, WrittenLoads
<1> QED BY <1>6, FilesAre, Zenon

\* A tile that cannot be loaded is not whole.
LEMMA CrashCostsOneTileHolds ==
  ASSUME RunsFit, DatasetInv, FilesInv
  PROVE  CrashCostsOneTile
<1> DEFINE Missing == {id \in DOMAIN bounds : Load(id).error # ""}
<1> SUFFICES ASSUME \A m \in opened : m.build > 0 PROVE Cardinality(Missing) <= crashes
  BY DEF CrashCostsOneTile
<1>1. CASE opened = {}
  <2>1. Missing = {}
    BY <1>1 DEF FilesInv, BoundsAreCells
  <2>2. crashes \in Nat
    BY DEF FilesInv, RunsInOrder
  <2> HIDE DEF Missing
  <2> QED BY <2>1, <2>2, FS_EmptySet
<1>2. CASE opened # {}
  <2>1. PICK m \in opened : m.build > 0
    BY <1>2
  <2>2. GridSize(m) = Grid(m.build)
    BY <2>1, GridIsRunGrid DEF DatasetInv, FilesInv
  <2>3. \A id \in DOMAIN bounds : id \in Cells(Grid(m.build))
    BY <2>1, <2>2 DEF FilesInv, BoundsAreCells
  <2>4. Missing \in SUBSET Broken(m)
    BY <2>3, WholeIsThere DEF Broken
  <2>5. IsFiniteSet(Broken(m)) /\ Cardinality(Broken(m)) \in Nat
    BY <2>1, BrokenIsFinite DEF DatasetInv, FilesInv
  <2>6. Cardinality(Missing) \in Nat /\ Cardinality(Missing) <= Cardinality(Broken(m))
    <3> HIDE DEF Missing
    <3> QED BY <2>4, <2>5, FS_Subset, FS_CardinalityType
  <2>7. Cardinality(Broken(m)) <= crashes /\ crashes \in Nat
    BY <2>1 DEF FilesInv, CrashesBreak, RunsInOrder
  <2> HIDE DEF Missing
  <2> QED BY <2>5, <2>6, <2>7
<1> QED BY <1>1, <1>2
-----------------------------------------------------------------------------
\* loadTile() gives back a tile that was saved, or none, wherever a file ends.
THEOREM CutFilesLoadRight == DatasetSpec => []LoadedWasSaved
<1>1. DatasetInv /\ FilesInv => LoadedWasSaved
  BY LoadedWasSavedHolds
<1> QED BY <1>1, DatasetInvariant, FilesInvariant, PTL

\* The builder's tiles are where the index has them.
THEOREM BuilderMatchesIndex == DatasetSpec => []TilesMatchIndex
<1>1. DatasetInv /\ FilesInv => TilesMatchIndex
  BY TilesMatchIndexHolds
<1> QED BY <1>1, DatasetInvariant, FilesInvariant, PTL

\* What the LOD choice and the renderers assume holds in all generated tiles.
THEOREM GeneratedIsDrawable == DatasetSpec => []TilesAreDrawable
<1>1. DatasetInv /\ FilesInv => TilesAreDrawable
  BY TilesAreDrawableHolds
<1> QED BY <1>1, DatasetInvariant, FilesInvariant, PTL

\* Of the tiles a dataset of the builder indexes, crashes take one each.
THEOREM CrashesAreCheap ==
  ASSUME RunsFit
  PROVE  DatasetSpec => []CrashCostsOneTile
<1>1. DatasetInv /\ FilesInv => CrashCostsOneTile
  BY CrashCostsOneTileHolds
<1> QED BY <1>1, DatasetInvariant, FilesInvariant, PTL
=============================================================================
