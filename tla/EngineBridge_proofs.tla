------------------------ MODULE EngineBridge_proofs ------------------------
(***************************************************************************)
(* Proofs about SpatialWorld, and about the engines that show it.          *)
(*                                                                         *)
(* First the world by itself: the upload queue, the pending counts and the *)
(* GPU data fit together, what is drawn is whole, and the LOD drawn is     *)
(* that of the camera.  None of this is inductive.  That a ready tile has  *)
(* all of its meshes, in order, needs to know where the missing ones are:  *)
(* what a LOD has is a first part of its meshes, and exactly the rest is   *)
(* queued, in order (MeshesAccounted, UploadsInOrder); that a count        *)
(* reaches zero only then needs PendingIsQueued, which needs addresses     *)
(* that differ and queued uploads that all have a tile.  WorldInv is all   *)
(* of this together.                                                       *)
(*                                                                         *)
(* Then, for any number of ticks and restarts of any of the three engines, *)
(* what a renderer owns and what an engine shows.                          *)
(*                                                                         *)
(* NothingLeaks says nothing of the number under which a mesh is stored,   *)
(* and so is not inductive: if two tiles could hold the same id, releasing *)
(* one would leave the other with a handle to nothing.  RendererInv        *)
(* therefore has every owned id lead to the tile, LOD and position it was  *)
(* created for (so that no two owners share one), every stored id be       *)
(* owned, and every id ever given be smaller than the next one.            *)
(*                                                                         *)
(* PictureIsRight needs the caches of the engine component to be right for *)
(* ids that are long released, because they are never emptied.  PictureInv *)
(* remembers of each cached id what it was made from: if the renderer      *)
(* still has it, it is the same, and if it is not handed out yet it is not *)
(* cached.                                                                 *)
(*                                                                         *)
(* WorldOwned connects the world with the component that has it: while one *)
(* plays, the world keeps its own invariant (updates do, by                *)
(* UpdatesKeepInv) and each TileGPU has a handle for each upload that ran; *)
(* otherwise nothing is left of either.  That an application may close     *)
(* with uploads queued needs no assumption: the queue goes with the world. *)
(***************************************************************************)
EXTENDS EngineBridge, Recursion

(***************************************************************************)
(* Lemmas about numbers and sequences.                                     *)
(***************************************************************************)
\* 0 .. n cannot fit into n numbers.
LEMMA FreshNumber ==
  ASSUME NEW S, IsFiniteSet(S)
  PROVE  \E a \in 0 .. Cardinality(S) : a \notin S
<1> DEFINE n == Cardinality(S)
<1>1. n \in Nat
  BY FS_CardinalityType
<1>2. Cardinality(0 .. n) = n + 1
  BY <1>1, FS_Interval
<1>3. ASSUME 0 .. n \subseteq S PROVE FALSE
  <2>1. Cardinality(0 .. n) <= n
    BY <1>3, FS_Subset
  <2> QED BY <1>1, <1>2, <2>1
<1> QED BY <1>3

LEMMA UploadsToType ==
  ASSUME NEW T, NEW q \in Seq(T), NEW a
  PROVE  /\ IsFiniteSet({i \in DOMAIN q : q[i].address = a})
         /\ UploadsTo(a, q) \in Nat
<1>1. IsFiniteSet(DOMAIN q)
  BY FS_Interval
<1>2. IsFiniteSet({i \in DOMAIN q : q[i].address = a})
  BY <1>1, FS_Subset
<1> QED BY <1>2, FS_CardinalityType DEF UploadsTo

LEMMA UploadsToNone ==
  ASSUME NEW T, NEW q \in Seq(T), NEW a, \A i \in DOMAIN q : q[i].address # a
  PROVE  UploadsTo(a, q) = 0
<1>1. {i \in DOMAIN q : q[i].address = a} = {}
  OBVIOUS
<1> QED BY <1>1, FS_EmptySet DEF UploadsTo

LEMMA UploadsToAll ==
  ASSUME NEW T, NEW q \in Seq(T), NEW a, \A i \in DOMAIN q : q[i].address = a
  PROVE  UploadsTo(a, q) = Len(q)
<1>1. {i \in DOMAIN q : q[i].address = a} = 1 .. Len(q)
  OBVIOUS
<1>2. Len(q) \in Nat
  OBVIOUS
<1>3. Cardinality(1 .. Len(q)) = Len(q)
  BY <1>2, FS_Interval
<1> QED BY <1>1, <1>3 DEF UploadsTo

LEMMA UploadsToNoOther ==
  ASSUME NEW T, NEW q \in Seq(T), NEW a, UploadsTo(a, q) = 0
  PROVE  \A i \in DOMAIN q : q[i].address # a
<1>1. {i \in DOMAIN q : q[i].address = a} = {}
  BY UploadsToType, FS_EmptySet DEF UploadsTo
<1> QED BY <1>1

LEMMA UploadsToTail ==
  ASSUME NEW T, NEW q \in Seq(T), q # <<>>, NEW a
  PROVE  UploadsTo(a, q) =
           UploadsTo(a, Tail(q)) + (IF Head(q).address = a THEN 1 ELSE 0)
<1> DEFINE I == {i \in DOMAIN q : q[i].address = a}
           J == {i \in DOMAIN Tail(q) : Tail(q)[i].address = a}
           f == [j \in J |-> j + 1]
<1>1. /\ DOMAIN q = 1 .. Len(q) /\ Len(q) \in Nat \ {0}
      /\ DOMAIN Tail(q) = 1 .. Len(q) - 1
      /\ \A i \in 1 .. Len(q) - 1 : Tail(q)[i] = q[i + 1]
      /\ Head(q) = q[1]
  OBVIOUS
<1>2. f \in Bijection(J, I \ {1})
  <2>1. \A j \in J : j + 1 \in I \ {1}
    BY <1>1
  <2>2. \A i \in I \ {1} : i - 1 \in J /\ f[i - 1] = i
    BY <1>1
  <2>3. \A j, k \in J : f[j] = f[k] => j = k
    BY <1>1
  <2> HIDE DEF I, J
  <2>4. f \in [J -> I \ {1}]
    BY <2>1
  <2> HIDE DEF f
  <2> QED BY <2>2, <2>3, <2>4 DEF Bijection, Injection, Surjection, IsInjective
<1>3. IsFiniteSet(I) /\ IsFiniteSet(J)
  <2>1. Tail(q) \in Seq(T)
    OBVIOUS
  <2> QED BY <2>1, UploadsToType
<1>4. Cardinality(I \ {1}) = Cardinality(J)
  <2> HIDE DEF I, J, f
  <2> QED BY <1>2, <1>3, FS_Bijection DEF ExistsBijection
<1>5. 1 \in I <=> Head(q).address = a
  BY <1>1
<1>6. Cardinality(I) \in Nat /\ Cardinality(J) \in Nat
  BY <1>3, FS_CardinalityType
<1>7. Cardinality(I \ {1}) = IF 1 \in I THEN Cardinality(I) - 1 ELSE Cardinality(I)
  BY <1>3, FS_RemoveElement
<1>8. UploadsTo(a, q) = Cardinality(I) /\ UploadsTo(a, Tail(q)) = Cardinality(J)
  BY DEF UploadsTo
<1> HIDE DEF I, J, f
<1> QED BY <1>4, <1>5, <1>6, <1>7, <1>8

LEMMA UploadsToConcat ==
  ASSUME NEW T, NEW q \in Seq(T), NEW r \in Seq(T), NEW a
  PROVE  UploadsTo(a, q \o r) = UploadsTo(a, q) + UploadsTo(a, r)
<1> DEFINE s == q \o r
           n == Len(q)
           I == {i \in DOMAIN q : q[i].address = a}
           J == {i \in DOMAIN r : r[i].address = a}
           K == {i \in DOMAIN s : i > n /\ s[i].address = a}
           f == [j \in J |-> j + n]
<1>1. /\ s \in Seq(T) /\ n \in Nat
      /\ DOMAIN q = 1 .. n /\ DOMAIN r = 1 .. Len(r) /\ Len(r) \in Nat
      /\ DOMAIN s = 1 .. n + Len(r)
      /\ \A i \in DOMAIN s : s[i] = IF i <= n THEN q[i] ELSE r[i - n]
  BY ConcatProperties
<1>2. {i \in DOMAIN s : s[i].address = a} = I \cup K
  <2> HIDE DEF s, n
  <2> QED BY <1>1
<1>3. f \in Bijection(J, K)
  <2> HIDE DEF s, n
  <2>1. \A j \in J : j + n \in K
    BY <1>1
  <2>2. \A i \in K : i - n \in J /\ f[i - n] = i
    BY <1>1
  <2>3. \A j, k \in J : f[j] = f[k] => j = k
    BY <1>1
  <2> HIDE DEF K, J
  <2>4. f \in [J -> K]
    BY <2>1
  <2> HIDE DEF f
  <2> QED BY <2>2, <2>3, <2>4 DEF Bijection, Injection, Surjection, IsInjective
<1>4. IsFiniteSet(I) /\ IsFiniteSet(J)
  BY UploadsToType
<1>5. IsFiniteSet(K) /\ Cardinality(K) = Cardinality(J)
  <2> HIDE DEF K, J, f
  <2> QED BY <1>3, <1>4, FS_Bijection DEF ExistsBijection
<1>6. I \cap K = {}
  <2> HIDE DEF s, n
  <2> QED BY <1>1
<1>7. Cardinality(I \cup K) = Cardinality(I) + Cardinality(K) - 0
  <2> HIDE DEF I, K
  <2> QED BY <1>4, <1>5, <1>6, FS_Union, FS_EmptySet
<1>8. Cardinality(I) \in Nat /\ Cardinality(K) \in Nat
  BY <1>4, <1>5, FS_CardinalityType
<1>9. /\ UploadsTo(a, q) = Cardinality(I)
      /\ UploadsTo(a, r) = Cardinality(J)
      /\ UploadsTo(a, s) = Cardinality(I \cup K)
  BY <1>2 DEF UploadsTo
<1> HIDE DEF I, J, K
<1> QED BY <1>5, <1>7, <1>8, <1>9

-----------------------------------------------------------------------------
\* What a queued callback captured, with the upload it is called after.
MeshUpload == [address : Nat, lod : Nat, mesh : Nat]
MaterialUpload == [address : Nat, material : Nat]

(***************************************************************************)
(* What EnqueueUploads appends to the queue of meshes: for every LOD its   *)
(* meshes, in their order, each once.                                      *)
(***************************************************************************)
LODBlock(counts, a, l) ==
  [m \in 1 .. counts[l] |-> [address |-> a, lod |-> l, mesh |-> m]]

AreMeshesOf(q, counts, a, n) ==
  /\ q \in Seq(MeshUpload)
  /\ \A i \in DOMAIN q :
       /\ q[i].address = a
       /\ q[i].lod \in 1 .. n
       /\ q[i].mesh \in 1 .. counts[q[i].lod]
  /\ \A i, j \in DOMAIN q :
       i < j /\ q[i].lod = q[j].lod => q[i].mesh < q[j].mesh
  /\ \A l \in 1 .. n : \A m \in 1 .. counts[l] :
       \E i \in DOMAIN q : q[i] = [address |-> a, lod |-> l, mesh |-> m]
  /\ Len(q) = SumFunctionOnSet(counts, 1 .. n)

LEMMA SumNext ==
  ASSUME NEW counts \in Seq(Nat), NEW k \in DOMAIN counts
  PROVE  /\ SumFunctionOnSet(counts, 1 .. k) =
              SumFunctionOnSet(counts, 1 .. k - 1) + counts[k]
         /\ SumFunctionOnSet(counts, 1 .. k - 1) \in Nat
<1>1. k \in Nat \ {0} /\ k \in 1 .. k /\ (1 .. k) \ {k} = 1 .. k - 1
  OBVIOUS
<1>2. \A i \in 1 .. k : counts[i] \in Nat
  OBVIOUS
<1>3. IsFiniteSet(1 .. k)
  BY <1>1, FS_Interval
<1>4. /\ SumFunctionOnSet(counts, 1 .. k) =
           counts[k] + SumFunctionOnSet(counts, 1 .. k - 1)
      /\ SumFunctionOnSet(counts, 1 .. k - 1) \in Nat
  <2>1. /\ SumFunctionOnSet(counts, 1 .. k) =
             counts[k] + SumFunctionOnSet(counts, (1 .. k) \ {k})
        /\ SumFunctionOnSet(counts, (1 .. k) \ {k}) \in Nat
    BY <1>1, <1>2, <1>3, SumWithout
  <2> QED BY <1>1, <2>1
<1> QED BY <1>1, <1>2, <1>4

LEMMA LODBlockIsSeq ==
  ASSUME NEW counts \in Seq(Nat), NEW l \in DOMAIN counts, NEW a \in Nat
  PROVE  /\ LODBlock(counts, a, l) \in Seq(MeshUpload)
         /\ Len(LODBlock(counts, a, l)) = counts[l]
         /\ \A m \in 1 .. counts[l] :
              LODBlock(counts, a, l)[m] = [address |-> a, lod |-> l, mesh |-> m]
<1>1. counts[l] \in Nat /\ l \in Nat
  OBVIOUS
<1>2. \A m \in 1 .. counts[l] :
        [address |-> a, lod |-> l, mesh |-> m] \in MeshUpload
  BY <1>1 DEF MeshUpload
<1> QED BY <1>1, <1>2 DEF LODBlock

LEMMA MeshesOfFirst ==
  ASSUME NEW counts \in Seq(Nat), counts # <<>>, NEW a \in Nat
  PROVE  AreMeshesOf(LODBlock(counts, a, 1), counts, a, 1)
<1> PICK q : q = LODBlock(counts, a, 1)
  OBVIOUS
<1>1. 1 \in DOMAIN counts /\ counts[1] \in Nat
  OBVIOUS
<1>2. /\ q \in Seq(MeshUpload) /\ Len(q) = counts[1]
      /\ DOMAIN q = 1 .. counts[1]
      /\ \A m \in 1 .. counts[1] : q[m] = [address |-> a, lod |-> 1, mesh |-> m]
  BY <1>1, LODBlockIsSeq
<1>3. Len(q) = SumFunctionOnSet(counts, 1 .. 1)
  <2>1. 1 .. 1 - 1 = {}
    OBVIOUS
  <2>2. SumFunctionOnSet(counts, 1 .. 1) =
          SumFunctionOnSet(counts, 1 .. 1 - 1) + counts[1]
    BY <1>1, SumNext
  <2>3. SumFunctionOnSet(counts, 1 .. 1 - 1) = 0
    BY <2>1, SumOfNone
  <2> QED BY <1>1, <1>2, <2>2, <2>3
<1>4. ASSUME NEW i \in DOMAIN q
      PROVE  q[i].address = a /\ q[i].lod = 1 /\ q[i].mesh = i
  <2>1. q[i] = [address |-> a, lod |-> 1, mesh |-> i]
    BY <1>2
  <2> QED BY <2>1
<1>5. \A i \in DOMAIN q :
       q[i].address = a /\ q[i].lod \in 1 .. 1 /\ q[i].mesh \in 1 .. counts[q[i].lod]
  BY <1>2, <1>4
<1>6. \A i, j \in DOMAIN q : i < j /\ q[i].lod = q[j].lod => q[i].mesh < q[j].mesh
  BY <1>4
<1>7. \A l \in 1 .. 1 : \A m \in 1 .. counts[l] :
        \E i \in DOMAIN q : q[i] = [address |-> a, lod |-> l, mesh |-> m]
  <2> TAKE l \in 1 .. 1
  <2>1. l = 1
    OBVIOUS
  <2> QED BY <1>2, <2>1
<1> QED BY <1>2, <1>3, <1>5, <1>6, <1>7 DEF AreMeshesOf

LEMMA MeshesOfNext ==
  ASSUME NEW counts \in Seq(Nat), NEW k \in DOMAIN counts, k # 1, NEW a \in Nat,
         NEW p, AreMeshesOf(p, counts, a, k - 1)
  PROVE  AreMeshesOf(p \o LODBlock(counts, a, k), counts, a, k)
<1> PICK b : b = LODBlock(counts, a, k)
  OBVIOUS
<1> PICK q : q = p \o b
  OBVIOUS
<1>1. k \in Nat /\ k - 1 \in Nat /\ counts[k] \in Nat
  OBVIOUS
<1>2. /\ b \in Seq(MeshUpload) /\ Len(b) = counts[k]
      /\ \A m \in 1 .. counts[k] : b[m] = [address |-> a, lod |-> k, mesh |-> m]
  BY LODBlockIsSeq
<1>3. p \in Seq(MeshUpload) /\ Len(p) \in Nat /\ DOMAIN p = 1 .. Len(p)
  BY DEF AreMeshesOf
<1>4. /\ q \in Seq(MeshUpload) /\ Len(q) = Len(p) + counts[k]
      /\ DOMAIN q = 1 .. Len(p) + counts[k]
      /\ \A i \in 1 .. Len(p) : q[i] = p[i]
      /\ \A m \in 1 .. counts[k] :
           q[m + Len(p)] = [address |-> a, lod |-> k, mesh |-> m]
  BY <1>1, <1>2, <1>3, ConcatProperties
<1>5. ASSUME NEW i \in DOMAIN q
      PROVE  \/ /\ i \in 1 .. Len(p) /\ q[i] = p[i]
                /\ q[i].address = a
                /\ q[i].lod \in 1 .. k - 1
                /\ q[i].mesh \in 1 .. counts[q[i].lod]
             \/ /\ i - Len(p) \in 1 .. counts[k]
                /\ q[i].address = a /\ q[i].lod = k /\ q[i].mesh = i - Len(p)
  <2>1. CASE i <= Len(p)
    BY <1>1, <1>3, <1>4, <2>1 DEF AreMeshesOf
  <2>2. CASE i > Len(p)
    <3>1. i - Len(p) \in 1 .. counts[k] /\ (i - Len(p)) + Len(p) = i
      BY <1>1, <1>3, <1>4, <2>2
    <3>2. q[i] = [address |-> a, lod |-> k, mesh |-> i - Len(p)]
      BY <1>4, <3>1
    <3> QED BY <3>1, <3>2
  <2> QED BY <1>1, <1>3, <1>4, <2>1, <2>2
<1>6. \A i \in DOMAIN q :
       /\ q[i].address = a
       /\ q[i].lod \in 1 .. k
       /\ q[i].mesh \in 1 .. counts[q[i].lod]
  <2>1. k \in 1 .. k /\ \A l \in 1 .. k - 1 : l \in 1 .. k
    BY <1>1
  <2> TAKE i \in DOMAIN q
  <2> QED BY <1>5, <2>1, Zenon
<1>7. ASSUME NEW i \in DOMAIN q, NEW j \in DOMAIN q, i < j, q[i].lod = q[j].lod
      PROVE  q[i].mesh < q[j].mesh
  <2>1. CASE j \in 1 .. Len(p)
    <3>1. i \in 1 .. Len(p) /\ q[i] = p[i] /\ q[j] = p[j]
      BY <1>1, <1>3, <1>4, <1>7, <2>1
    <3> QED BY <1>3, <1>7, <2>1, <3>1 DEF AreMeshesOf
  <2>2. CASE j \notin 1 .. Len(p)
    <3>1. q[j].lod = k /\ q[j].mesh = j - Len(p)
      BY <1>5, <2>2
    <3>2. q[i].mesh = i - Len(p)
      <4>1. q[i].lod = k
        BY <1>7, <3>1
      <4>2. k \notin 1 .. k - 1
        BY <1>1
      <4> QED BY <1>5, <4>1, <4>2
    <3> QED BY <1>3, <1>4, <1>7, <3>1, <3>2
  <2> QED BY <2>1, <2>2
<1>8. ASSUME NEW l \in 1 .. k, NEW m \in 1 .. counts[l]
      PROVE  \E i \in DOMAIN q : q[i] = [address |-> a, lod |-> l, mesh |-> m]
  <2>1. CASE l = k
    <3>1. m + Len(p) \in DOMAIN q
      BY <1>1, <1>3, <1>4, <2>1
    <3> QED BY <1>4, <2>1, <3>1
  <2>2. CASE l # k
    <3>1. l \in 1 .. k - 1
      BY <1>1, <2>2
    <3>2. PICK i \in DOMAIN p : p[i] = [address |-> a, lod |-> l, mesh |-> m]
      BY <3>1 DEF AreMeshesOf
    <3>3. i \in DOMAIN q /\ q[i] = p[i]
      BY <1>1, <1>3, <1>4
    <3> QED BY <3>2, <3>3
  <2> QED BY <2>1, <2>2
<1>9. Len(q) = SumFunctionOnSet(counts, 1 .. k)
  BY <1>4, SumNext DEF AreMeshesOf
<1> QED BY <1>4, <1>6, <1>7, <1>8, <1>9 DEF AreMeshesOf

LEMMA MeshesInOrderAreMeshes ==
  ASSUME NEW t \in Tiles, NEW a \in Nat
  PROVE  AreMeshesOf(MeshesInOrder(t, a), Meshes[t], a, Len(Meshes[t]))
<1> DEFINE counts == Meshes[t]
           n == Len(counts)
           seqs == [l \in Lods(t) |-> LODBlock(counts, a, l)]
<1>1. counts \in Seq(Nat) /\ counts # <<>> /\ n \in Nat \ {0}
      /\ DOMAIN counts = 1 .. n
  BY WorldAssumption
<1>2. MeshesInOrder(t, a) = FlattenSeq(seqs)
  BY DEF MeshesInOrder, LODBlock
<1>3. /\ seqs \in Seq(Seq(MeshUpload)) /\ seqs # <<>> /\ Len(seqs) = n
      /\ \A l \in 1 .. n : seqs[l] = LODBlock(counts, a, l)
  <2> HIDE DEF n
  <2>1. seqs = [l \in 1 .. n |-> LODBlock(counts, a, l)]
    BY <1>1 DEF Lods
  <2> HIDE DEF counts, seqs
  <2>2. \A l \in 1 .. n : LODBlock(counts, a, l) \in Seq(MeshUpload)
    BY <1>1, LODBlockIsSeq
  <2> HIDE DEF MeshUpload
  <2>3. seqs \in Seq(Seq(MeshUpload)) /\ Len(seqs) = n
    BY <1>1, <2>1, <2>2
  <2> QED BY <1>1, <2>1, <2>3
<1> HIDE DEF counts, n, seqs
<1>4. PICK f : /\ FlattenSeq(seqs) = f[n]
               /\ f[1] = seqs[1]
               /\ \A i \in 2 .. n : f[i] = f[i - 1] \o seqs[i]
  BY <1>3, FlattenGrows
<1> DEFINE Bad == {k \in 1 .. n : ~AreMeshesOf(f[k], counts, a, k)}
<1>5. Bad = {}
  <2> SUFFICES ASSUME Bad # {} PROVE FALSE
    OBVIOUS
  <2>1. PICK k \in Bad : \A j \in Bad : k <= j
    <3>1. Bad \in SUBSET Nat
      BY <1>1
    <3> HIDE DEF Bad
    <3> QED BY <3>1, SmallestNumber
  <2>2. k \in 1 .. n /\ ~AreMeshesOf(f[k], counts, a, k)
    OBVIOUS
  <2>3. k # 1
    BY <1>1, <1>3, <1>4, <2>2, MeshesOfFirst
  <2>4. k - 1 \in 1 .. n /\ ~ (k <= k - 1) /\ k \in 2 .. n
    BY <1>1, <2>2, <2>3
  <2>5. AreMeshesOf(f[k - 1], counts, a, k - 1)
    BY <2>1, <2>4
  <2>6. f[k] = f[k - 1] \o LODBlock(counts, a, k)
    BY <1>3, <1>4, <2>2, <2>4
  <2>7. AreMeshesOf(f[k - 1] \o LODBlock(counts, a, k), counts, a, k)
    BY <1>1, <2>2, <2>3, <2>5, MeshesOfNext
  <2> QED BY <2>2, <2>6, <2>7
<1>6. AreMeshesOf(f[n], counts, a, n)
  BY <1>1, <1>5
<1> QED BY <1>2, <1>4, <1>6 DEF counts, n

\* pendingUploads starts as the number of uploads that are queued.
LEMMA UploadsOfTile ==
  ASSUME NEW t \in Tiles, NEW a \in Nat
  PROVE  /\ UploadsOf(t) = Materials[t] + Len(MeshesInOrder(t, a))
         /\ Materials[t] \in Nat
         /\ Len(MeshesInOrder(t, a)) \in Nat
<1>1. Meshes[t] \in Seq(Nat) /\ DOMAIN Meshes[t] = 1 .. Len(Meshes[t])
  BY WorldAssumption
<1>2. MeshesInOrder(t, a) \in Seq(MeshUpload)
  BY MeshesInOrderAreMeshes DEF AreMeshesOf
<1>3. Len(MeshesInOrder(t, a)) = SumFunctionOnSet(Meshes[t], DOMAIN Meshes[t])
  BY <1>1, MeshesInOrderAreMeshes DEF AreMeshesOf
<1> QED BY <1>2, <1>3, WorldAssumption DEF UploadsOf, SumFunction
-----------------------------------------------------------------------------
TileGPU(t) ==
  [address : Nat, pendingUploads : Nat, stillResident : BOOLEAN,
   materials : Seq(Nat), lodMeshes : [Lods(t) -> Seq(Nat)]]

GPUTilesTyped ==
  /\ DOMAIN gpuTiles \subseteq Tiles /\ IsFiniteSet(DOMAIN gpuTiles)
  /\ \A t \in DOMAIN gpuTiles : gpuTiles[t] \in TileGPU(t)
  /\ meshQueue \in Seq(MeshUpload)
  /\ materialQueue \in Seq(MaterialUpload)

AddressesDiffer ==
  \A t, u \in DOMAIN gpuTiles : gpuTiles[t].address = gpuTiles[u].address => t = u

\* Every queued upload is one of a tile that has GPU data.
IsMeshOf(u, t) ==
  /\ u.address = gpuTiles[t].address
  /\ u.lod \in Lods(t)
  /\ u.mesh \in 1 .. Meshes[t][u.lod]

IsMaterialOf(u, t) ==
  /\ u.address = gpuTiles[t].address
  /\ u.material \in 1 .. Materials[t]

UploadsHaveTile ==
  /\ \A i \in DOMAIN meshQueue :
       \E t \in DOMAIN gpuTiles : IsMeshOf(meshQueue[i], t)
  /\ \A i \in DOMAIN materialQueue :
       \E t \in DOMAIN gpuTiles : IsMaterialOf(materialQueue[i], t)

\* The meshes of a LOD, and the materials of a tile, are queued in their order.
UploadsInOrder ==
  /\ \A i, j \in DOMAIN meshQueue :
       /\ i < j
       /\ meshQueue[i].address = meshQueue[j].address
       /\ meshQueue[i].lod = meshQueue[j].lod
       => meshQueue[i].mesh < meshQueue[j].mesh
  /\ \A i, j \in DOMAIN materialQueue :
       /\ i < j
       /\ materialQueue[i].address = materialQueue[j].address
       => materialQueue[i].material < materialQueue[j].material

\* What a tile has so far is the first part of what it needs, in order, and
\* the rest is queued.
UpTo(k) == [m \in 1 .. k |-> m]

MeshQueued(a, l, m) ==
  \E i \in DOMAIN meshQueue :
    meshQueue[i] = [address |-> a, lod |-> l, mesh |-> m]

MaterialQueued(a, m) ==
  \E i \in DOMAIN materialQueue :
    materialQueue[i] = [address |-> a, material |-> m]

HasMeshes(t, l, k) ==
  /\ gpuTiles[t].lodMeshes[l] = UpTo(k)
  /\ \A m \in 1 .. Meshes[t][l] :
       MeshQueued(gpuTiles[t].address, l, m) <=> m > k

HasMaterials(t, k) ==
  /\ gpuTiles[t].materials = UpTo(k)
  /\ \A m \in 1 .. Materials[t] :
       MaterialQueued(gpuTiles[t].address, m) <=> m > k

MeshesAccounted ==
  \A t \in DOMAIN gpuTiles : \A l \in Lods(t) :
    \E k \in 0 .. Meshes[t][l] : HasMeshes(t, l, k)

MaterialsAccounted ==
  \A t \in DOMAIN gpuTiles : \E k \in 0 .. Materials[t] : HasMaterials(t, k)

\* The first loop of update() clears stillResident before anything is uploaded
\* or drawn.
OnlyResidentsMarked ==
  phase # "enqueue" =>
    \A t \in DOMAIN gpuTiles : gpuTiles[t].stillResident => t \in resident

\* A LOD that is remembered is one of the thresholds still in use.
ThresholdCount(t) ==
  IF useError THEN Len(Errors[t]) - 1 ELSE Len(DistanceThresholds)

LODInRange == \A t \in DOMAIN currentLOD : currentLOD[t] \in 0 .. ThresholdCount(t)

\* What ties the GPU data to the queues.
UploadInv ==
  /\ GPUTilesTyped
  /\ AddressesDiffer
  /\ UploadsHaveTile
  /\ UploadsInOrder
  /\ MeshesAccounted
  /\ MaterialsAccounted
  /\ PendingIsQueued

WorldInv == TypeOK /\ UploadInv /\ OnlyResidentsMarked /\ LODInRange
-----------------------------------------------------------------------------
LEMMA UploadsHaveTarget == GPUTilesTyped /\ UploadsHaveTile => CallbacksHaveTarget
<1> SUFFICES ASSUME GPUTilesTyped, UploadsHaveTile, NEW a \in Captured
             PROVE  a \in Addresses
  BY DEF CallbacksHaveTarget
<1>1. PICK u \in ToSet(meshQueue) \cup ToSet(materialQueue) : u.address = a
  BY DEF Captured
<1>2. \/ \E i \in DOMAIN meshQueue : meshQueue[i] = u
      \/ \E i \in DOMAIN materialQueue : materialQueue[i] = u
  BY DEF ToSet
<1>3. PICK t \in DOMAIN gpuTiles : gpuTiles[t].address = a
  BY <1>1, <1>2 DEF UploadsHaveTile, IsMeshOf, IsMaterialOf
<1> QED BY <1>3 DEF Addresses

LEMMA NewAddressIsNew ==
  ASSUME GPUTilesTyped, UploadsHaveTile
  PROVE  NewAddress \in Nat /\ NewAddress \notin Addresses
<1> DEFINE f == [t \in DOMAIN gpuTiles |-> gpuTiles[t].address]
           S == Addresses \cup Captured
<1>1. f \in Surjection(DOMAIN gpuTiles, Addresses)
  BY DEF Surjection, Addresses
<1>2. IsFiniteSet(Addresses)
  <2> HIDE DEF f
  <2> QED BY <1>1, FS_Surjection DEF ExistsSurjection, GPUTilesTyped
<1>3. S = Addresses
  BY UploadsHaveTarget DEF CallbacksHaveTarget
<1>4. \E a \in 0 .. Cardinality(S) : a \notin S
  BY <1>2, <1>3, FreshNumber
<1>5. NewAddress \in 0 .. Cardinality(S) /\ NewAddress \notin S
  BY <1>4 DEF NewAddress
<1>6. Cardinality(S) \in Nat
  BY <1>2, <1>3, FS_CardinalityType
<1> QED BY <1>5, <1>6

LEMMA TileAtAddress ==
  ASSUME AddressesDiffer, NEW t \in DOMAIN gpuTiles
  PROVE  TileAt(gpuTiles[t].address) = t
BY DEF TileAt, AddressesDiffer

\* A tile that is ready has nothing queued.
LEMMA ReadyHasNoUploads ==
  ASSUME UploadInv, NEW t \in DOMAIN gpuTiles, gpuTiles[t].pendingUploads = 0
  PROVE  /\ \A i \in DOMAIN meshQueue :
              meshQueue[i].address # gpuTiles[t].address
         /\ \A i \in DOMAIN materialQueue :
              materialQueue[i].address # gpuTiles[t].address
<1> DEFINE a == gpuTiles[t].address
<1>1. meshQueue \in Seq(MeshUpload) /\ materialQueue \in Seq(MaterialUpload)
  BY DEF UploadInv, GPUTilesTyped
<1>2. UploadsTo(a, meshQueue) + UploadsTo(a, materialQueue) = 0
  BY DEF UploadInv, PendingIsQueued, QueuedFor
<1>3. UploadsTo(a, meshQueue) = 0 /\ UploadsTo(a, materialQueue) = 0
  <2>1. UploadsTo(a, meshQueue) \in Nat /\ UploadsTo(a, materialQueue) \in Nat
    BY <1>1, UploadsToType
  <2> HIDE DEF a
  <2> QED BY <1>2, <2>1
<1> QED BY <1>1, <1>3, UploadsToNoOther

\* Tiles may lose their mark, or go when nothing is queued for them.
SameGPU(t) ==
  /\ t \in DOMAIN gpuTiles
  /\ gpuTiles'[t] \in TileGPU(t)
  /\ gpuTiles'[t].address = gpuTiles[t].address
  /\ gpuTiles'[t].pendingUploads = gpuTiles[t].pendingUploads
  /\ gpuTiles'[t].materials = gpuTiles[t].materials
  /\ gpuTiles'[t].lodMeshes = gpuTiles[t].lodMeshes

LEMMA MarksKeepUploadInv ==
  ASSUME UploadInv, UNCHANGED <<meshQueue, materialQueue>>,
         \A t \in DOMAIN gpuTiles' : SameGPU(t),
         \A t \in DOMAIN gpuTiles :
           gpuTiles[t].pendingUploads # 0 => t \in DOMAIN gpuTiles'
  PROVE  UploadInv'
<1>1. GPUTilesTyped'
  <2>1. DOMAIN gpuTiles' \in SUBSET DOMAIN gpuTiles
    BY DEF SameGPU
  <2>2. IsFiniteSet(DOMAIN gpuTiles')
    BY <2>1, FS_Subset DEF UploadInv, GPUTilesTyped
  <2> QED BY <2>1, <2>2 DEF UploadInv, GPUTilesTyped, SameGPU
<1>2. AddressesDiffer'
  BY DEF UploadInv, AddressesDiffer, SameGPU
<1>3. UploadsHaveTile'
  <2>1. ASSUME NEW i \in DOMAIN meshQueue
        PROVE  \E t \in DOMAIN gpuTiles' : IsMeshOf(meshQueue[i], t)'
    <3>1. PICK t \in DOMAIN gpuTiles : IsMeshOf(meshQueue[i], t)
      BY DEF UploadInv, UploadsHaveTile
    <3>2. gpuTiles[t].pendingUploads # 0
      BY <3>1, ReadyHasNoUploads DEF IsMeshOf
    <3> QED BY <3>1, <3>2 DEF IsMeshOf, SameGPU
  <2>2. ASSUME NEW i \in DOMAIN materialQueue
        PROVE  \E t \in DOMAIN gpuTiles' : IsMaterialOf(materialQueue[i], t)'
    <3>1. PICK t \in DOMAIN gpuTiles : IsMaterialOf(materialQueue[i], t)
      BY DEF UploadInv, UploadsHaveTile
    <3>2. gpuTiles[t].pendingUploads # 0
      BY <3>1, ReadyHasNoUploads DEF IsMaterialOf
    <3> QED BY <3>1, <3>2 DEF IsMaterialOf, SameGPU
  <2> QED BY <2>1, <2>2 DEF UploadsHaveTile
<1>4. UploadsInOrder'
  BY DEF UploadInv, UploadsInOrder
<1>5. MeshesAccounted'
  BY DEF UploadInv, MeshesAccounted, HasMeshes, MeshQueued, SameGPU
<1>6. MaterialsAccounted'
  BY DEF UploadInv, MaterialsAccounted, HasMaterials, MaterialQueued, SameGPU
<1>7. PendingIsQueued'
  BY DEF UploadInv, PendingIsQueued, QueuedFor, SameGPU
<1> QED BY <1>1, <1>2, <1>3, <1>4, <1>5, <1>6, <1>7 DEF UploadInv

LEMMA NothingKeepsUploadInv ==
  ASSUME meshQueue' = <<>>, materialQueue' = <<>>, DOMAIN gpuTiles' = {}
  PROVE  UploadInv'
<1>1. GPUTilesTyped'
  BY FS_EmptySet DEF GPUTilesTyped
<1>2. UploadsHaveTile' /\ UploadsInOrder'
  BY DEF UploadsHaveTile, UploadsInOrder
<1>3. AddressesDiffer' /\ PendingIsQueued'
  BY DEF AddressesDiffer, PendingIsQueued
<1>4. MeshesAccounted' /\ MaterialsAccounted'
  BY DEF MeshesAccounted, MaterialsAccounted
<1> QED BY <1>1, <1>2, <1>3, <1>4 DEF UploadInv

\* processQueue() takes the first upload off a queue.
LEMMA TailShape ==
  ASSUME NEW T, NEW q \in Seq(T), q # <<>>
  PROVE  /\ Tail(q) \in Seq(T) /\ Head(q) = q[1] /\ 1 \in DOMAIN q /\ Head(q) \in T
         /\ \A i \in DOMAIN Tail(q) : i + 1 \in DOMAIN q /\ Tail(q)[i] = q[i + 1]
         /\ \A i \in DOMAIN q : i # 1 => i - 1 \in DOMAIN Tail(q)
                                           /\ Tail(q)[i - 1] = q[i]
OBVIOUS

LEMMA TileCounts ==
  ASSUME NEW t \in Tiles
  PROVE  /\ Materials[t] \in Nat /\ Meshes[t] \in Seq(Nat) /\ Meshes[t] # <<>>
         /\ Lods(t) = 1 .. Len(Meshes[t])
         /\ \A l \in Lods(t) : Meshes[t][l] \in Nat
BY WorldAssumption DEF Lods

LEMMA UpToGrows ==
  ASSUME NEW k \in Nat
  PROVE  /\ UpTo(k) \in Seq(Nat) /\ Append(UpTo(k), k + 1) = UpTo(k + 1)
         /\ UpTo(0) = <<>>
<1>1. UpTo(k) \in Seq(Nat) /\ UpTo(k + 1) \in Seq(Nat) /\ k + 1 \in Nat
  BY DEF UpTo
<1>2. /\ Len(UpTo(k)) = k /\ Len(UpTo(k + 1)) = k + 1
      /\ \A i \in 1 .. k : UpTo(k)[i] = i
      /\ \A i \in 1 .. k + 1 : UpTo(k + 1)[i] = i
  BY DEF UpTo
<1>3. Append(UpTo(k), k + 1) = UpTo(k + 1)
  <2> PICK s, r : s = UpTo(k) /\ r = UpTo(k + 1)
    OBVIOUS
  <2> DEFINE q == Append(s, k + 1)
  <2>1. q \in Seq(Nat) /\ Len(q) = k + 1 /\ \A i \in 1 .. k + 1 : q[i] = r[i]
    BY <1>1, <1>2
  <2> HIDE DEF q
  <2>2. q = r
    BY <1>1, <1>2, <2>1, SeqEqual
  <2> QED BY <2>2 DEF q
<1>4. UpTo(0) = <<>>
  BY DEF UpTo
<1> QED BY <1>1, <1>3, <1>4

\* The first mesh queued for a LOD is the next one the LOD has to get.
LEMMA NextMeshInOrder ==
  ASSUME UploadInv, meshQueue # <<>>, NEW t \in DOMAIN gpuTiles,
         NEW l \in Lods(t), l = Head(meshQueue).lod, IsMeshOf(Head(meshQueue), t),
         NEW k \in 0 .. Meshes[t][l], HasMeshes(t, l, k)
  PROVE  /\ Head(meshQueue) =
              [address |-> gpuTiles[t].address, lod |-> l, mesh |-> k + 1]
         /\ k + 1 \in 1 .. Meshes[t][l]
<1> PICK u, a : u = Head(meshQueue) /\ a = gpuTiles[t].address
  OBVIOUS
<1>1. /\ u \in MeshUpload /\ u = meshQueue[1] /\ 1 \in DOMAIN meshQueue
      /\ DOMAIN meshQueue \subseteq Nat \ {0}
  BY TailShape DEF UploadInv, GPUTilesTyped
<1>2. /\ u = [address |-> a, lod |-> l, mesh |-> u.mesh]
      /\ u.mesh \in 1 .. Meshes[t][l]
  BY <1>1 DEF MeshUpload, IsMeshOf
<1>3. Meshes[t][l] \in Nat
  BY TileCounts DEF UploadInv, GPUTilesTyped
<1>4. MeshQueued(a, l, u.mesh)
  BY <1>1, <1>2 DEF MeshQueued
<1>5. u.mesh > k
  BY <1>2, <1>4 DEF HasMeshes
<1>6. ASSUME u.mesh # k + 1 PROVE FALSE
  <2>1. k + 1 \in 1 .. Meshes[t][l] /\ k + 1 > k /\ u.mesh > k + 1
    BY <1>2, <1>3, <1>5, <1>6
  <2>2. MeshQueued(a, l, k + 1)
    BY <2>1 DEF HasMeshes
  <2>3. PICK i \in DOMAIN meshQueue :
          meshQueue[i] = [address |-> a, lod |-> l, mesh |-> k + 1]
    BY <2>2 DEF MeshQueued
  <2>4. /\ meshQueue[i].address = u.address /\ meshQueue[i].lod = u.lod
        /\ meshQueue[i].mesh = k + 1 /\ i # 1
    BY <1>1, <1>2, <1>6, <2>3
  <2>5. 1 < i
    BY <1>1, <2>4
  <2>6. u.mesh < k + 1
    BY <1>1, <2>4, <2>5 DEF UploadInv, UploadsInOrder
  <2> QED BY <1>2, <1>3, <2>1, <2>6
<1> QED BY <1>2, <1>3, <1>6

\* What UploadMesh does to the TileGPU its callback captured.
MeshUploaded(t, l, k) ==
  /\ Head(meshQueue) =
       [address |-> gpuTiles[t].address, lod |-> l, mesh |-> k + 1]
  /\ k + 1 \in 1 .. Meshes[t][l]
  /\ HasMeshes(t, l, k)
  /\ gpuTiles' = [gpuTiles EXCEPT ![t] =
       [gpuTiles[t] EXCEPT !.lodMeshes[l] = UpTo(k + 1),
                           !.pendingUploads = gpuTiles[t].pendingUploads - 1]]

LEMMA UploadMeshShape ==
  ASSUME UploadInv, UploadMesh
  PROVE  \E t \in DOMAIN gpuTiles : \E l \in Lods(t), k \in Nat :
           MeshUploaded(t, l, k)
<1> PICK u : u = Head(meshQueue)
  OBVIOUS
<1>1. meshQueue \in Seq(MeshUpload) /\ meshQueue # <<>>
  BY DEF UploadInv, GPUTilesTyped, UploadMesh
<1>2. PICK t \in DOMAIN gpuTiles : IsMeshOf(u, t)
  BY <1>1, TailShape DEF UploadInv, UploadsHaveTile
<1>3. u.lod \in Lods(t)
  BY <1>2 DEF IsMeshOf
<1>4. PICK k \in 0 .. Meshes[t][u.lod] : HasMeshes(t, u.lod, k)
  BY <1>3 DEF UploadInv, MeshesAccounted
<1>5. k \in Nat
  OBVIOUS
<1>6. /\ u = [address |-> gpuTiles[t].address, lod |-> u.lod, mesh |-> k + 1]
      /\ k + 1 \in 1 .. Meshes[t][u.lod]
  BY <1>1, <1>2, <1>3, <1>4, NextMeshInOrder
<1>7. TileAt(u.address) = t
  BY <1>2, TileAtAddress DEF UploadInv, IsMeshOf
<1>8. gpuTiles' = [gpuTiles EXCEPT ![TileAt(u.address)] =
        [[gpuTiles[TileAt(u.address)] EXCEPT !.lodMeshes[u.lod] =
            Append(gpuTiles[TileAt(u.address)].lodMeshes[u.lod], u.mesh)]
         EXCEPT !.pendingUploads = @ - 1]]
  BY DEF UploadMesh, Complete
<1>9. gpuTiles[t] \in TileGPU(t)
  BY DEF UploadInv, GPUTilesTyped
<1>10. Append(gpuTiles[t].lodMeshes[u.lod], u.mesh) = UpTo(k + 1)
  BY <1>4, <1>5, <1>6, UpToGrows DEF HasMeshes
<1>11. gpuTiles' = [gpuTiles EXCEPT ![t] =
         [gpuTiles[t] EXCEPT !.lodMeshes[u.lod] = UpTo(k + 1),
                             !.pendingUploads = gpuTiles[t].pendingUploads - 1]]
  BY <1>7, <1>8, <1>9, <1>10 DEF TileGPU
<1>12. MeshUploaded(t, u.lod, k)
  BY <1>4, <1>6, <1>11 DEF MeshUploaded
<1> QED BY <1>3, <1>5, <1>12

\* A tile that an upload is queued for is not ready.
LEMMA QueuedIsPending ==
  ASSUME UploadInv, NEW t \in DOMAIN gpuTiles,
         \/ /\ meshQueue # <<>>
            /\ Head(meshQueue).address = gpuTiles[t].address
         \/ /\ materialQueue # <<>>
            /\ Head(materialQueue).address = gpuTiles[t].address
  PROVE  gpuTiles[t].pendingUploads - 1 \in Nat
<1>1. gpuTiles[t].pendingUploads \in Nat
  BY DEF UploadInv, GPUTilesTyped, TileGPU
<1>2. /\ meshQueue # <<>> => 1 \in DOMAIN meshQueue /\ Head(meshQueue) = meshQueue[1]
      /\ materialQueue # <<>> =>
           1 \in DOMAIN materialQueue /\ Head(materialQueue) = materialQueue[1]
  BY DEF UploadInv, GPUTilesTyped
<1>3. gpuTiles[t].pendingUploads # 0
  BY <1>2, ReadyHasNoUploads
<1> QED BY <1>1, <1>3

LEMMA UploadMeshKeepsInv ==
  ASSUME UploadInv, UploadMesh
  PROVE  UploadInv'
<1>1. PICK t \in DOMAIN gpuTiles : \E l \in Lods(t), k \in Nat :
        MeshUploaded(t, l, k)
  BY UploadMeshShape
<1> PICK l \in Lods(t), k \in Nat : MeshUploaded(t, l, k)
  BY <1>1
<1> PICK a, tile, u :
      a = gpuTiles[t].address /\ tile = gpuTiles'[t] /\ u = Head(meshQueue)
  OBVIOUS
<1> DEFINE Upload(m) == [address |-> a, lod |-> l, mesh |-> m]
<1>2. /\ k + 1 \in 1 .. Meshes[t][l] /\ u = Upload(k + 1)
      /\ Meshes[t][l] \in Nat /\ t \in Tiles /\ HasMeshes(t, l, k)
  BY TileCounts DEF UploadInv, GPUTilesTyped, MeshUploaded
<1>3. /\ meshQueue \in Seq(MeshUpload) /\ meshQueue # <<>>
      /\ meshQueue' = Tail(meshQueue) /\ materialQueue' = materialQueue
  BY DEF UploadInv, GPUTilesTyped, UploadMesh
<1>4. gpuTiles[t] \in TileGPU(t) /\ UpTo(k + 1) \in Seq(Nat)
  BY <1>2, UpToGrows DEF UploadInv, GPUTilesTyped
<1>5. gpuTiles[t].pendingUploads - 1 \in Nat
  BY <1>2, <1>3, QueuedIsPending
<1>6. /\ tile = [gpuTiles[t] EXCEPT !.lodMeshes[l] = UpTo(k + 1),
                   !.pendingUploads = gpuTiles[t].pendingUploads - 1]
      /\ DOMAIN gpuTiles' = DOMAIN gpuTiles
      /\ \A v \in DOMAIN gpuTiles : v # t => gpuTiles'[v] = gpuTiles[v]
  BY DEF MeshUploaded
<1>7. /\ tile.address = a /\ tile.materials = gpuTiles[t].materials
      /\ tile.pendingUploads = gpuTiles[t].pendingUploads - 1
      /\ tile.lodMeshes = [gpuTiles[t].lodMeshes EXCEPT ![l] = UpTo(k + 1)]
      /\ gpuTiles[t].lodMeshes \in [Lods(t) -> Seq(Nat)]
  BY <1>4, <1>6 DEF TileGPU
<1>8. \A v \in DOMAIN gpuTiles : gpuTiles'[v].address = gpuTiles[v].address
  BY <1>6, <1>7
<1>9. AddressesDiffer'
  BY <1>6, <1>8 DEF UploadInv, AddressesDiffer
<1>10. GPUTilesTyped'
  <2>2. tile \in TileGPU(t)
    BY <1>4, <1>5, <1>6 DEF TileGPU
  <2>3. Tail(meshQueue) \in Seq(MeshUpload)
    BY <1>3
  <2> QED BY <1>3, <1>6, <2>2, <2>3 DEF UploadInv, GPUTilesTyped
<1>11. /\ \A i \in DOMAIN meshQueue' :
            i + 1 \in DOMAIN meshQueue /\ meshQueue'[i] = meshQueue[i + 1]
       /\ \A i \in DOMAIN meshQueue :
            i # 1 => i - 1 \in DOMAIN meshQueue' /\ meshQueue'[i - 1] = meshQueue[i]
       /\ meshQueue[1] = u /\ 1 \in DOMAIN meshQueue
       /\ DOMAIN meshQueue \subseteq Nat /\ DOMAIN meshQueue' \subseteq Nat \ {0}
  BY <1>3, TailShape
<1>12. UploadsHaveTile'
  <2>1. ASSUME NEW i \in DOMAIN meshQueue'
        PROVE  \E v \in DOMAIN gpuTiles' : IsMeshOf(meshQueue[i], v)'
    <3>1. PICK v \in DOMAIN gpuTiles : IsMeshOf(meshQueue[i + 1], v)
      BY <1>11 DEF UploadInv, UploadsHaveTile
    <3> QED BY <1>6, <1>8, <1>11, <3>1 DEF IsMeshOf
  <2>2. ASSUME NEW i \in DOMAIN materialQueue'
        PROVE  \E v \in DOMAIN gpuTiles' : IsMaterialOf(materialQueue[i], v)'
    <3>1. PICK v \in DOMAIN gpuTiles : IsMaterialOf(materialQueue[i], v)
      BY <1>3 DEF UploadInv, UploadsHaveTile
    <3> QED BY <1>3, <1>6, <1>8, <3>1 DEF IsMaterialOf
  <2> QED BY <2>1, <2>2 DEF UploadsHaveTile
<1>13. UploadsInOrder'
  <2>1. ASSUME NEW i \in DOMAIN meshQueue', NEW j \in DOMAIN meshQueue', i < j,
               meshQueue'[i].address = meshQueue'[j].address,
               meshQueue'[i].lod = meshQueue'[j].lod
        PROVE  meshQueue'[i].mesh < meshQueue'[j].mesh
    <3>1. i + 1 < j + 1
      BY <1>11, <2>1
    <3> QED BY <1>11, <2>1, <3>1 DEF UploadInv, UploadsInOrder
  <2> QED BY <1>3, <2>1 DEF UploadInv, UploadsInOrder
<1>14. MeshesAccounted'
  <2> SUFFICES ASSUME NEW v \in DOMAIN gpuTiles, NEW n \in Lods(v)
               PROVE  \E j \in 0 .. Meshes[v][n] : HasMeshes(v, n, j)'
    BY <1>6 DEF MeshesAccounted
  <2>1. CASE v = t /\ n = l
    <3>1. gpuTiles'[v].lodMeshes[n] = UpTo(k + 1)
      BY <1>7, <2>1
    <3>2. ASSUME NEW m \in 1 .. Meshes[t][l], m > k + 1
          PROVE  MeshQueued(a, l, m)'
      <4>1. MeshQueued(a, l, m)
        BY <1>2, <3>2 DEF HasMeshes
      <4>2. PICK i \in DOMAIN meshQueue : meshQueue[i] = Upload(m)
        BY <4>1 DEF MeshQueued
      <4>3. i # 1
        BY <1>2, <1>11, <3>2, <4>2
      <4> QED BY <1>11, <4>2, <4>3 DEF MeshQueued
    <3>3. ASSUME NEW m \in 1 .. Meshes[t][l], MeshQueued(a, l, m)'
          PROVE  m > k + 1
      <4>1. PICK i \in DOMAIN meshQueue' : meshQueue'[i] = Upload(m)
        BY <3>3 DEF MeshQueued
      <4>2. i + 1 \in DOMAIN meshQueue /\ meshQueue[i + 1] = Upload(m) /\ 1 < i + 1
        BY <1>11, <4>1
      <4>3. meshQueue[1].mesh < meshQueue[i + 1].mesh
        BY <1>2, <1>11, <4>2 DEF UploadInv, UploadsInOrder
      <4> QED BY <1>2, <1>11, <4>2, <4>3
    <3>4. HasMeshes(v, n, k + 1)'
      BY <1>7, <2>1, <3>1, <3>2, <3>3 DEF HasMeshes
    <3> QED BY <1>2, <2>1, <3>4
  <2>2. CASE v # t \/ n # l
    <3>1. gpuTiles'[v].lodMeshes[n] = gpuTiles[v].lodMeshes[n]
      BY <1>6, <1>7, <2>2
    <3> PICK at : at = gpuTiles[v].address
      OBVIOUS
    <3>2. at # a \/ n # l
      BY <2>2 DEF UploadInv, AddressesDiffer
    <3>3. ASSUME NEW m PROVE MeshQueued(at, n, m)' <=> MeshQueued(at, n, m)
      <4>1. meshQueue[1] # [address |-> at, lod |-> n, mesh |-> m]
        BY <1>2, <1>11, <3>2
      <4> QED BY <1>11, <4>1 DEF MeshQueued
    <3>4. \A j : HasMeshes(v, n, j) => HasMeshes(v, n, j)'
      BY <1>8, <3>1, <3>3 DEF HasMeshes
    <3> QED BY <3>4 DEF UploadInv, MeshesAccounted
  <2> QED BY <2>1, <2>2
<1>15. MaterialsAccounted'
  <2>1. \A v \in DOMAIN gpuTiles : gpuTiles'[v].materials = gpuTiles[v].materials
    BY <1>6, <1>7
  <2>2. \A v \in DOMAIN gpuTiles : \A j : HasMaterials(v, j) => HasMaterials(v, j)'
    BY <1>3, <1>8, <2>1 DEF HasMaterials, MaterialQueued
  <2> QED BY <1>6, <2>2 DEF UploadInv, MaterialsAccounted
<1>16. PendingIsQueued'
  <2> SUFFICES ASSUME NEW v \in DOMAIN gpuTiles
               PROVE  gpuTiles'[v].pendingUploads =
                        UploadsTo(gpuTiles[v].address, Tail(meshQueue)) +
                        UploadsTo(gpuTiles[v].address, materialQueue)
    BY <1>3, <1>6, <1>8 DEF PendingIsQueued, QueuedFor, UploadsTo
  <2> PICK at, x, y, z : /\ at = gpuTiles[v].address
                         /\ x = UploadsTo(at, meshQueue)
                         /\ y = UploadsTo(at, Tail(meshQueue))
                         /\ z = UploadsTo(at, materialQueue)
    OBVIOUS
  <2>1. x = y + (IF u.address = at THEN 1 ELSE 0)
    BY <1>3, UploadsToTail
  <2>2. x \in Nat /\ y \in Nat /\ z \in Nat
    <3>1. Tail(meshQueue) \in Seq(MeshUpload) /\ materialQueue \in Seq(MaterialUpload)
      BY <1>3 DEF UploadInv, GPUTilesTyped
    <3> QED BY <1>3, <3>1, UploadsToType
  <2>3. gpuTiles[v].pendingUploads = x + z
    BY DEF UploadInv, PendingIsQueued, QueuedFor
  <2>4. CASE v = t
    <3>1. u.address = at /\ gpuTiles'[v].pendingUploads = (x + z) - 1
      BY <1>2, <1>7, <2>3, <2>4
    <3> QED BY <2>1, <2>2, <3>1
  <2>5. CASE v # t
    <3>1. u.address # at
      BY <1>2, <2>5 DEF UploadInv, AddressesDiffer
    <3>2. gpuTiles'[v].pendingUploads = x + z
      BY <1>6, <2>3, <2>5
    <3> QED BY <2>1, <2>2, <3>1, <3>2
  <2> QED BY <2>4, <2>5
<1> QED BY <1>9, <1>10, <1>12, <1>13, <1>14, <1>15, <1>16 DEF UploadInv

\* The first material queued for a tile is the next one it has to get.
LEMMA NextMaterialInOrder ==
  ASSUME UploadInv, materialQueue # <<>>, NEW t \in DOMAIN gpuTiles,
         IsMaterialOf(Head(materialQueue), t),
         NEW k \in 0 .. Materials[t], HasMaterials(t, k)
  PROVE  /\ Head(materialQueue) =
              [address |-> gpuTiles[t].address, material |-> k + 1]
         /\ k + 1 \in 1 .. Materials[t]
<1> PICK u, a : u = Head(materialQueue) /\ a = gpuTiles[t].address
  OBVIOUS
<1>1. /\ u \in MaterialUpload /\ u = materialQueue[1] /\ 1 \in DOMAIN materialQueue
      /\ DOMAIN materialQueue \subseteq Nat \ {0}
  BY TailShape DEF UploadInv, GPUTilesTyped
<1>2. u = [address |-> a, material |-> u.material] /\ u.material \in 1 .. Materials[t]
  BY <1>1 DEF MaterialUpload, IsMaterialOf
<1>3. Materials[t] \in Nat
  BY TileCounts DEF UploadInv, GPUTilesTyped
<1>4. MaterialQueued(a, u.material)
  BY <1>1, <1>2 DEF MaterialQueued
<1>5. u.material > k
  BY <1>2, <1>4 DEF HasMaterials
<1>6. ASSUME u.material # k + 1 PROVE FALSE
  <2>1. k + 1 \in 1 .. Materials[t] /\ k + 1 > k /\ u.material > k + 1
    BY <1>2, <1>3, <1>5, <1>6
  <2>2. MaterialQueued(a, k + 1)
    BY <2>1 DEF HasMaterials
  <2>3. PICK i \in DOMAIN materialQueue :
          materialQueue[i] = [address |-> a, material |-> k + 1]
    BY <2>2 DEF MaterialQueued
  <2>4. /\ materialQueue[i].address = u.address
        /\ materialQueue[i].material = k + 1 /\ i # 1
    BY <1>1, <1>2, <1>6, <2>3
  <2>5. 1 < i
    BY <1>1, <2>4
  <2>6. u.material < k + 1
    BY <1>1, <2>4, <2>5 DEF UploadInv, UploadsInOrder
  <2> QED BY <1>2, <1>3, <2>1, <2>6
<1> QED BY <1>2, <1>3, <1>6

\* What UploadMaterial does to the TileGPU its callback captured.
MaterialUploaded(t, k) ==
  /\ Head(materialQueue) = [address |-> gpuTiles[t].address, material |-> k + 1]
  /\ k + 1 \in 1 .. Materials[t]
  /\ HasMaterials(t, k)
  /\ gpuTiles' = [gpuTiles EXCEPT ![t] =
       [gpuTiles[t] EXCEPT !.materials = UpTo(k + 1),
                           !.pendingUploads = gpuTiles[t].pendingUploads - 1]]

LEMMA UploadMaterialShape ==
  ASSUME UploadInv, UploadMaterial
  PROVE  \E t \in DOMAIN gpuTiles : \E k \in Nat : MaterialUploaded(t, k)
<1> PICK u : u = Head(materialQueue)
  OBVIOUS
<1>1. materialQueue \in Seq(MaterialUpload) /\ materialQueue # <<>>
  BY DEF UploadInv, GPUTilesTyped, UploadMaterial
<1>2. PICK t \in DOMAIN gpuTiles : IsMaterialOf(u, t)
  BY <1>1, TailShape DEF UploadInv, UploadsHaveTile
<1>3. PICK k \in 0 .. Materials[t] : HasMaterials(t, k)
  BY DEF UploadInv, MaterialsAccounted
<1>4. k \in Nat
  OBVIOUS
<1>5. /\ u = [address |-> gpuTiles[t].address, material |-> k + 1]
      /\ k + 1 \in 1 .. Materials[t]
  BY <1>1, <1>2, <1>3, NextMaterialInOrder
<1>6. TileAt(u.address) = t
  BY <1>2, TileAtAddress DEF UploadInv, IsMaterialOf
<1>7. gpuTiles' = [gpuTiles EXCEPT ![TileAt(u.address)] =
        [[gpuTiles[TileAt(u.address)] EXCEPT !.materials =
            Append(gpuTiles[TileAt(u.address)].materials, u.material)]
         EXCEPT !.pendingUploads = @ - 1]]
  BY DEF UploadMaterial, Complete
<1>8. gpuTiles[t] \in TileGPU(t)
  BY DEF UploadInv, GPUTilesTyped
<1>9. Append(gpuTiles[t].materials, u.material) = UpTo(k + 1)
  <2>1. gpuTiles[t].materials = UpTo(k) /\ u.material = k + 1
    BY <1>3, <1>5 DEF HasMaterials
  <2> QED BY <1>4, <2>1, UpToGrows
<1>10. gpuTiles' = [gpuTiles EXCEPT ![t] =
         [gpuTiles[t] EXCEPT !.materials = UpTo(k + 1),
                             !.pendingUploads = gpuTiles[t].pendingUploads - 1]]
  BY <1>6, <1>7, <1>8, <1>9 DEF TileGPU
<1>11. MaterialUploaded(t, k)
  BY <1>3, <1>5, <1>10 DEF MaterialUploaded
<1> QED BY <1>4, <1>11

LEMMA UploadMaterialKeepsInv ==
  ASSUME UploadInv, UploadMaterial
  PROVE  UploadInv'
<1>1. PICK t \in DOMAIN gpuTiles : \E k \in Nat : MaterialUploaded(t, k)
  BY UploadMaterialShape
<1> PICK k \in Nat : MaterialUploaded(t, k)
  BY <1>1
<1> PICK a, tile, u :
      a = gpuTiles[t].address /\ tile = gpuTiles'[t] /\ u = Head(materialQueue)
  OBVIOUS
<1> DEFINE Upload(m) == [address |-> a, material |-> m]
<1>2. /\ k + 1 \in 1 .. Materials[t] /\ u = Upload(k + 1)
      /\ Materials[t] \in Nat /\ t \in Tiles /\ HasMaterials(t, k)
  BY TileCounts DEF UploadInv, GPUTilesTyped, MaterialUploaded
<1>3. /\ materialQueue \in Seq(MaterialUpload) /\ materialQueue # <<>>
      /\ materialQueue' = Tail(materialQueue) /\ meshQueue' = meshQueue
  BY DEF UploadInv, GPUTilesTyped, UploadMaterial
<1>4. gpuTiles[t] \in TileGPU(t) /\ UpTo(k + 1) \in Seq(Nat)
  BY <1>2, UpToGrows DEF UploadInv, GPUTilesTyped
<1>5. gpuTiles[t].pendingUploads - 1 \in Nat
  BY <1>2, <1>3, QueuedIsPending
<1>6. /\ tile = [gpuTiles[t] EXCEPT !.materials = UpTo(k + 1),
                   !.pendingUploads = gpuTiles[t].pendingUploads - 1]
      /\ DOMAIN gpuTiles' = DOMAIN gpuTiles
      /\ \A v \in DOMAIN gpuTiles : v # t => gpuTiles'[v] = gpuTiles[v]
  BY DEF MaterialUploaded
<1>7. /\ tile.address = a /\ tile.lodMeshes = gpuTiles[t].lodMeshes
      /\ tile.pendingUploads = gpuTiles[t].pendingUploads - 1
      /\ tile.materials = UpTo(k + 1)
  BY <1>4, <1>6 DEF TileGPU
<1>8. \A v \in DOMAIN gpuTiles : gpuTiles'[v].address = gpuTiles[v].address
  BY <1>6, <1>7
<1>9. AddressesDiffer'
  BY <1>6, <1>8 DEF UploadInv, AddressesDiffer
<1>10. GPUTilesTyped'
  <2>1. tile \in TileGPU(t)
    BY <1>4, <1>5, <1>6 DEF TileGPU
  <2>2. Tail(materialQueue) \in Seq(MaterialUpload)
    BY <1>3
  <2> QED BY <1>3, <1>6, <2>1, <2>2 DEF UploadInv, GPUTilesTyped
<1>11. /\ \A i \in DOMAIN materialQueue' :
            i + 1 \in DOMAIN materialQueue /\ materialQueue'[i] = materialQueue[i + 1]
       /\ \A i \in DOMAIN materialQueue :
            i # 1 => /\ i - 1 \in DOMAIN materialQueue'
                     /\ materialQueue'[i - 1] = materialQueue[i]
       /\ materialQueue[1] = u /\ 1 \in DOMAIN materialQueue
       /\ DOMAIN materialQueue \subseteq Nat
       /\ DOMAIN materialQueue' \subseteq Nat \ {0}
  BY <1>3, TailShape
<1>12. UploadsHaveTile'
  <2>1. ASSUME NEW i \in DOMAIN meshQueue'
        PROVE  \E v \in DOMAIN gpuTiles' : IsMeshOf(meshQueue[i], v)'
    <3>1. PICK v \in DOMAIN gpuTiles : IsMeshOf(meshQueue[i], v)
      BY <1>3 DEF UploadInv, UploadsHaveTile
    <3> QED BY <1>3, <1>6, <1>8, <3>1 DEF IsMeshOf
  <2>2. ASSUME NEW i \in DOMAIN materialQueue'
        PROVE  \E v \in DOMAIN gpuTiles' : IsMaterialOf(materialQueue[i], v)'
    <3>1. PICK v \in DOMAIN gpuTiles : IsMaterialOf(materialQueue[i + 1], v)
      BY <1>11 DEF UploadInv, UploadsHaveTile
    <3> QED BY <1>6, <1>8, <1>11, <3>1 DEF IsMaterialOf
  <2> QED BY <2>1, <2>2 DEF UploadsHaveTile
<1>13. UploadsInOrder'
  <2>1. ASSUME NEW i \in DOMAIN materialQueue', NEW j \in DOMAIN materialQueue',
               i < j, materialQueue'[i].address = materialQueue'[j].address
        PROVE  materialQueue'[i].material < materialQueue'[j].material
    <3>1. i + 1 < j + 1
      BY <1>11, <2>1
    <3> QED BY <1>11, <2>1, <3>1 DEF UploadInv, UploadsInOrder
  <2> QED BY <1>3, <2>1 DEF UploadInv, UploadsInOrder
<1>14. MaterialsAccounted'
  <2> SUFFICES ASSUME NEW v \in DOMAIN gpuTiles
               PROVE  \E j \in 0 .. Materials[v] : HasMaterials(v, j)'
    BY <1>6 DEF MaterialsAccounted
  <2>1. CASE v = t
    <3>1. ASSUME NEW m \in 1 .. Materials[t], m > k + 1
          PROVE  MaterialQueued(a, m)'
      <4>1. MaterialQueued(a, m)
        BY <1>2, <3>1 DEF HasMaterials
      <4>2. PICK i \in DOMAIN materialQueue : materialQueue[i] = Upload(m)
        BY <4>1 DEF MaterialQueued
      <4>3. i # 1
        BY <1>2, <1>11, <3>1, <4>2
      <4> QED BY <1>11, <4>2, <4>3 DEF MaterialQueued
    <3>2. ASSUME NEW m \in 1 .. Materials[t], MaterialQueued(a, m)'
          PROVE  m > k + 1
      <4>1. PICK i \in DOMAIN materialQueue' : materialQueue'[i] = Upload(m)
        BY <3>2 DEF MaterialQueued
      <4>2. /\ i + 1 \in DOMAIN materialQueue /\ 1 < i + 1
            /\ materialQueue[i + 1] = Upload(m)
        BY <1>11, <4>1
      <4>3. materialQueue[1].material < materialQueue[i + 1].material
        BY <1>2, <1>11, <4>2 DEF UploadInv, UploadsInOrder
      <4> QED BY <1>2, <1>11, <4>2, <4>3
    <3>3. HasMaterials(v, k + 1)'
      BY <1>7, <2>1, <3>1, <3>2 DEF HasMaterials
    <3> QED BY <1>2, <2>1, <3>3
  <2>2. CASE v # t
    <3> PICK at : at = gpuTiles[v].address
      OBVIOUS
    <3>1. at # a
      BY <2>2 DEF UploadInv, AddressesDiffer
    <3>2. ASSUME NEW m PROVE MaterialQueued(at, m)' <=> MaterialQueued(at, m)
      <4>1. materialQueue[1] # [address |-> at, material |-> m]
        BY <1>2, <1>11, <3>1
      <4> QED BY <1>11, <4>1 DEF MaterialQueued
    <3>3. \A j : HasMaterials(v, j) => HasMaterials(v, j)'
      BY <1>6, <2>2, <3>2 DEF HasMaterials
    <3> QED BY <3>3 DEF UploadInv, MaterialsAccounted
  <2> QED BY <2>1, <2>2
<1>15. MeshesAccounted'
  <2>1. \A v \in DOMAIN gpuTiles : gpuTiles'[v].lodMeshes = gpuTiles[v].lodMeshes
    BY <1>6, <1>7
  <2>2. \A v \in DOMAIN gpuTiles : \A n, j : HasMeshes(v, n, j) => HasMeshes(v, n, j)'
    BY <1>3, <1>8, <2>1 DEF HasMeshes, MeshQueued
  <2> QED BY <1>6, <2>2 DEF UploadInv, MeshesAccounted
<1>16. PendingIsQueued'
  <2> SUFFICES ASSUME NEW v \in DOMAIN gpuTiles
               PROVE  gpuTiles'[v].pendingUploads =
                        UploadsTo(gpuTiles[v].address, meshQueue) +
                        UploadsTo(gpuTiles[v].address, Tail(materialQueue))
    BY <1>3, <1>6, <1>8 DEF PendingIsQueued, QueuedFor, UploadsTo
  <2> PICK at, x, y, z : /\ at = gpuTiles[v].address
                         /\ x = UploadsTo(at, materialQueue)
                         /\ y = UploadsTo(at, Tail(materialQueue))
                         /\ z = UploadsTo(at, meshQueue)
    OBVIOUS
  <2>1. x = y + (IF u.address = at THEN 1 ELSE 0)
    BY <1>3, UploadsToTail
  <2>2. x \in Nat /\ y \in Nat /\ z \in Nat
    <3>1. Tail(materialQueue) \in Seq(MaterialUpload) /\ meshQueue \in Seq(MeshUpload)
      BY <1>3 DEF UploadInv, GPUTilesTyped
    <3> QED BY <1>3, <3>1, UploadsToType
  <2>3. gpuTiles[v].pendingUploads = z + x
    BY DEF UploadInv, PendingIsQueued, QueuedFor
  <2>4. CASE v = t
    <3>1. u.address = at /\ gpuTiles'[v].pendingUploads = (z + x) - 1
      BY <1>2, <1>7, <2>3, <2>4
    <3> QED BY <2>1, <2>2, <3>1
  <2>5. CASE v # t
    <3>1. u.address # at
      BY <1>2, <2>5 DEF UploadInv, AddressesDiffer
    <3>2. gpuTiles'[v].pendingUploads = z + x
      BY <1>6, <2>3, <2>5
    <3> QED BY <2>1, <2>2, <3>1, <3>2
  <2> QED BY <2>4, <2>5
<1> QED BY <1>9, <1>10, <1>12, <1>13, <1>14, <1>15, <1>16 DEF UploadInv

-----------------------------------------------------------------------------
\* The entries of a queue that another one is appended to.
LEMMA ConcatShape ==
  ASSUME NEW T, NEW q \in Seq(T), NEW r \in Seq(T), NEW s, s = q \o r
  PROVE  /\ s \in Seq(T)
         /\ Len(q) \in Nat /\ DOMAIN s \subseteq Nat
         /\ DOMAIN q \subseteq DOMAIN s
         /\ \A i \in DOMAIN q : s[i] = q[i] /\ i <= Len(q)
         /\ \A i \in DOMAIN s : \/ i \in DOMAIN q
                                \/ /\ i - Len(q) \in DOMAIN r /\ i > Len(q)
                                   /\ s[i] = r[i - Len(q)]
         /\ \A j \in DOMAIN r : /\ j + Len(q) \in DOMAIN s
                                /\ s[j + Len(q)] = r[j]
<1>1. /\ s \in Seq(T) /\ Len(s) = Len(q) + Len(r)
      /\ Len(q) \in Nat /\ Len(r) \in Nat
      /\ \A i \in 1 .. Len(q) + Len(r) :
           s[i] = IF i <= Len(q) THEN q[i] ELSE r[i - Len(q)]
  BY ConcatProperties
<1>2. /\ DOMAIN s = 1 .. Len(q) + Len(r)
      /\ DOMAIN q = 1 .. Len(q) /\ DOMAIN r = 1 .. Len(r)
  BY <1>1
<1> QED BY <1>1, <1>2

MaterialsInOrder(t, a) ==
  [m \in 1 .. Materials[t] |-> [address |-> a, material |-> m]]

LEMMA MaterialsInOrderShape ==
  ASSUME NEW t \in Tiles, NEW a \in Nat
  PROVE  /\ MaterialsInOrder(t, a) \in Seq(MaterialUpload)
         /\ Len(MaterialsInOrder(t, a)) = Materials[t]
         /\ DOMAIN MaterialsInOrder(t, a) = 1 .. Materials[t]
         /\ \A m \in 1 .. Materials[t] :
              MaterialsInOrder(t, a)[m] = [address |-> a, material |-> m]
<1>1. Materials[t] \in Nat
  BY TileCounts
<1>2. \A m \in 1 .. Materials[t] :
        [address |-> a, material |-> m] \in MaterialUpload
  BY DEF MaterialUpload
<1> QED BY <1>1, <1>2 DEF MaterialsInOrder

\* Uploads that are queued for a new address leave the other tiles alone.
LEMMA EnqueueKeepsInv ==
  ASSUME UploadInv, NEW t \in Tiles, EnqueueUploads(t)
  PROVE  UploadInv'
<1> PICK a, ms, ts : /\ a = NewAddress
                     /\ ms = MeshesInOrder(t, a)
                     /\ ts = MaterialsInOrder(t, a)
  OBVIOUS
<1> PICK tile : tile = [address |-> a, pendingUploads |-> UploadsOf(t),
                        stillResident |-> TRUE, materials |-> <<>>,
                        lodMeshes |-> [l \in Lods(t) |-> <<>>]]
  OBVIOUS
<1>1. /\ t \notin DOMAIN gpuTiles
      /\ gpuTiles' = [u \in DOMAIN gpuTiles \cup {t} |->
                        IF u # t THEN gpuTiles[u] ELSE tile]
      /\ materialQueue' = materialQueue \o ts
      /\ meshQueue' = meshQueue \o ms
  BY DEF EnqueueUploads, MaterialsInOrder
<1>2. a \in Nat /\ \A v \in DOMAIN gpuTiles : gpuTiles[v].address # a
  BY NewAddressIsNew DEF UploadInv, Addresses
<1>3. /\ AreMeshesOf(ms, Meshes[t], a, Len(Meshes[t]))
      /\ UploadsOf(t) = Materials[t] + Len(ms)
      /\ Len(ms) \in Nat /\ ms \in Seq(MeshUpload)
  <2>1. AreMeshesOf(ms, Meshes[t], a, Len(Meshes[t]))
    BY <1>2, MeshesInOrderAreMeshes
  <2>2. UploadsOf(t) = Materials[t] + Len(ms) /\ Len(ms) \in Nat
    BY <1>2, UploadsOfTile
  <2> QED BY <2>1, <2>2 DEF AreMeshesOf
<1>4. /\ ts \in Seq(MaterialUpload) /\ Len(ts) = Materials[t]
      /\ DOMAIN ts = 1 .. Materials[t] /\ Materials[t] \in Nat
      /\ \A m \in 1 .. Materials[t] : ts[m] = [address |-> a, material |-> m]
  BY <1>2, MaterialsInOrderShape, TileCounts
<1>5. /\ DOMAIN gpuTiles' = DOMAIN gpuTiles \cup {t}
      /\ gpuTiles'[t] = tile
      /\ \A v \in DOMAIN gpuTiles : v # t /\ gpuTiles'[v] = gpuTiles[v]
  BY <1>1
<1>6. /\ tile.address = a /\ tile.pendingUploads = UploadsOf(t)
      /\ tile.materials = <<>>
      /\ tile.lodMeshes = [l \in Lods(t) |-> <<>>]
  OBVIOUS
<1>7. /\ meshQueue \in Seq(MeshUpload) /\ materialQueue \in Seq(MaterialUpload)
      /\ meshQueue' \in Seq(MeshUpload) /\ materialQueue' \in Seq(MaterialUpload)
  BY <1>1, <1>3, <1>4, ConcatProperties DEF UploadInv, GPUTilesTyped
<1>8. GPUTilesTyped'
  <2>1. tile \in TileGPU(t)
    BY <1>2, <1>3, <1>4 DEF TileGPU
  <2>2. IsFiniteSet(DOMAIN gpuTiles')
    BY <1>5, FS_AddElement DEF UploadInv, GPUTilesTyped
  <2> QED BY <1>5, <1>7, <2>1, <2>2 DEF UploadInv, GPUTilesTyped
<1>9. AddressesDiffer'
  BY <1>2, <1>5, <1>6 DEF UploadInv, AddressesDiffer
<1> DEFINE p == Len(meshQueue)
           r == Len(materialQueue)
<1>10. /\ p \in Nat /\ DOMAIN meshQueue' \subseteq Nat
       /\ DOMAIN meshQueue \subseteq DOMAIN meshQueue'
       /\ \A i \in DOMAIN meshQueue : meshQueue'[i] = meshQueue[i] /\ i <= p
       /\ \A i \in DOMAIN meshQueue' :
            \/ i \in DOMAIN meshQueue
            \/ i - p \in DOMAIN ms /\ i > p /\ meshQueue'[i] = ms[i - p]
       /\ \A j \in DOMAIN ms : j + p \in DOMAIN meshQueue' /\ meshQueue'[j + p] = ms[j]
  BY <1>1, <1>3, <1>7, ConcatShape
<1>11. /\ r \in Nat /\ DOMAIN materialQueue' \subseteq Nat
       /\ DOMAIN materialQueue \subseteq DOMAIN materialQueue'
       /\ \A i \in DOMAIN materialQueue :
            materialQueue'[i] = materialQueue[i] /\ i <= r
       /\ \A i \in DOMAIN materialQueue' :
            \/ i \in DOMAIN materialQueue
            \/ i - r \in DOMAIN ts /\ i > r /\ materialQueue'[i] = ts[i - r]
       /\ \A j \in DOMAIN ts :
            j + r \in DOMAIN materialQueue' /\ materialQueue'[j + r] = ts[j]
  BY <1>1, <1>4, <1>7, ConcatShape
<1> HIDE DEF p, r
<1>12. /\ \A i \in DOMAIN meshQueue : meshQueue[i].address # a
       /\ \A i \in DOMAIN materialQueue : materialQueue[i].address # a
       /\ \A i \in DOMAIN ms : ms[i].address = a
       /\ \A i \in DOMAIN ts : ts[i].address = a /\ ts[i].material = i
  <2>1. \A i \in DOMAIN meshQueue : meshQueue[i].address # a
    BY <1>2 DEF UploadInv, UploadsHaveTile, IsMeshOf
  <2>2. \A i \in DOMAIN materialQueue : materialQueue[i].address # a
    BY <1>2 DEF UploadInv, UploadsHaveTile, IsMaterialOf
  <2>3. \A i \in DOMAIN ms : ms[i].address = a
    BY <1>3 DEF AreMeshesOf
  <2>4. \A i \in DOMAIN ts : ts[i].address = a /\ ts[i].material = i
    <3> TAKE i \in DOMAIN ts
    <3>1. ts[i] = [address |-> a, material |-> i]
      BY <1>4
    <3> QED BY <3>1
  <2> QED BY <2>1, <2>2, <2>3, <2>4
<1>13. UploadsHaveTile'
  <2>1. ASSUME NEW i \in DOMAIN meshQueue'
        PROVE  \E v \in DOMAIN gpuTiles' : IsMeshOf(meshQueue[i], v)'
    <3>1. CASE i \in DOMAIN meshQueue
      <4>1. PICK v \in DOMAIN gpuTiles : IsMeshOf(meshQueue[i], v)
        BY <3>1 DEF UploadInv, UploadsHaveTile
      <4> QED BY <1>5, <1>10, <3>1, <4>1 DEF IsMeshOf
    <3>2. CASE i \notin DOMAIN meshQueue
      <4>1. i - p \in DOMAIN ms /\ meshQueue'[i] = ms[i - p]
        BY <1>10, <3>2
      <4>2. /\ ms[i - p].address = a
            /\ ms[i - p].lod \in Lods(t)
            /\ ms[i - p].mesh \in 1 .. Meshes[t][ms[i - p].lod]
        BY <1>3, <4>1, TileCounts DEF AreMeshesOf
      <4> QED BY <1>5, <1>6, <4>1, <4>2 DEF IsMeshOf
    <3> QED BY <3>1, <3>2
  <2>2. ASSUME NEW i \in DOMAIN materialQueue'
        PROVE  \E v \in DOMAIN gpuTiles' : IsMaterialOf(materialQueue[i], v)'
    <3>1. CASE i \in DOMAIN materialQueue
      <4>1. PICK v \in DOMAIN gpuTiles : IsMaterialOf(materialQueue[i], v)
        BY <3>1 DEF UploadInv, UploadsHaveTile
      <4> QED BY <1>5, <1>11, <3>1, <4>1 DEF IsMaterialOf
    <3>2. CASE i \notin DOMAIN materialQueue
      <4>1. i - r \in DOMAIN ts /\ materialQueue'[i] = ts[i - r]
        BY <1>11, <3>2
      <4>2. ts[i - r].address = a /\ ts[i - r].material \in 1 .. Materials[t]
        BY <1>4, <1>12, <4>1
      <4> QED BY <1>5, <1>6, <4>1, <4>2 DEF IsMaterialOf
    <3> QED BY <3>1, <3>2
  <2> QED BY <2>1, <2>2 DEF UploadsHaveTile
<1>14. UploadsInOrder'
  <2>1. ASSUME NEW i \in DOMAIN meshQueue', NEW j \in DOMAIN meshQueue', i < j,
               meshQueue'[i].address = meshQueue'[j].address,
               meshQueue'[i].lod = meshQueue'[j].lod
        PROVE  meshQueue'[i].mesh < meshQueue'[j].mesh
    <3>1. CASE i \in DOMAIN meshQueue /\ j \in DOMAIN meshQueue
      BY <1>10, <2>1, <3>1 DEF UploadInv, UploadsInOrder
    <3>2. CASE i \notin DOMAIN meshQueue /\ j \notin DOMAIN meshQueue
      <4>1. /\ i - p \in DOMAIN ms /\ meshQueue'[i] = ms[i - p]
            /\ j - p \in DOMAIN ms /\ meshQueue'[j] = ms[j - p]
        BY <1>10, <3>2
      <4>2. i - p < j - p
        BY <1>10, <2>1
      <4> QED BY <1>3, <2>1, <4>1, <4>2 DEF AreMeshesOf
    <3>3. CASE i \in DOMAIN meshQueue /\ j \notin DOMAIN meshQueue
      BY <1>10, <1>12, <2>1, <3>3
    <3>4. CASE i \notin DOMAIN meshQueue /\ j \in DOMAIN meshQueue
      BY <1>10, <1>12, <2>1, <3>4
    <3> QED BY <3>1, <3>2, <3>3, <3>4
  <2>2. ASSUME NEW i \in DOMAIN materialQueue', NEW j \in DOMAIN materialQueue',
               i < j, materialQueue'[i].address = materialQueue'[j].address
        PROVE  materialQueue'[i].material < materialQueue'[j].material
    <3>1. CASE i \in DOMAIN materialQueue /\ j \in DOMAIN materialQueue
      BY <1>11, <2>2, <3>1 DEF UploadInv, UploadsInOrder
    <3>2. CASE i \notin DOMAIN materialQueue /\ j \notin DOMAIN materialQueue
      <4>1. /\ i - r \in DOMAIN ts /\ materialQueue'[i] = ts[i - r]
            /\ j - r \in DOMAIN ts /\ materialQueue'[j] = ts[j - r]
        BY <1>11, <3>2
      <4>2. i - r < j - r
        BY <1>11, <2>2
      <4> QED BY <1>12, <4>1, <4>2
    <3>3. CASE i \in DOMAIN materialQueue /\ j \notin DOMAIN materialQueue
      BY <1>11, <1>12, <2>2, <3>3
    <3>4. CASE i \notin DOMAIN materialQueue /\ j \in DOMAIN materialQueue
      BY <1>11, <1>12, <2>2, <3>4
    <3> QED BY <3>1, <3>2, <3>3, <3>4
  <2> QED BY <2>1, <2>2 DEF UploadsInOrder
<1>15. MeshesAccounted'
  <2>1. ASSUME NEW l \in Lods(t) PROVE HasMeshes(t, l, 0)'
    <3>1. gpuTiles'[t].lodMeshes[l] = UpTo(0)
      BY <1>5, <1>6, <2>1, UpToGrows
    <3>2. ASSUME NEW m \in 1 .. Meshes[t][l] PROVE MeshQueued(a, l, m)'
      <4>1. PICK i \in DOMAIN ms :
              ms[i] = [address |-> a, lod |-> l, mesh |-> m]
        BY <1>3, TileCounts DEF AreMeshesOf
      <4> QED BY <1>10, <4>1 DEF MeshQueued
    <3>3. \A m \in 1 .. Meshes[t][l] : m > 0
      BY TileCounts
    <3> QED BY <1>5, <1>6, <3>1, <3>2, <3>3 DEF HasMeshes
  <2>2. ASSUME NEW v \in DOMAIN gpuTiles, NEW l \in Lods(v), NEW k,
               HasMeshes(v, l, k)
        PROVE  HasMeshes(v, l, k)'
    <3> PICK at : at = gpuTiles[v].address
      OBVIOUS
    <3>1. ASSUME NEW m PROVE MeshQueued(at, l, m)' <=> MeshQueued(at, l, m)
      <4>1. \A i \in DOMAIN ms : ms[i] # [address |-> at, lod |-> l, mesh |-> m]
        BY <1>2, <1>12
      <4> QED BY <1>10, <4>1 DEF MeshQueued
    <3> QED BY <1>5, <2>2, <3>1 DEF HasMeshes
  <2>3. \A l \in Lods(t) : 0 \in 0 .. Meshes[t][l]
    BY TileCounts
  <2> QED BY <1>5, <2>1, <2>2, <2>3 DEF UploadInv, MeshesAccounted
<1>16. MaterialsAccounted'
  <2>1. HasMaterials(t, 0)'
    <3>1. gpuTiles'[t].materials = UpTo(0)
      BY <1>5, <1>6, UpToGrows
    <3>2. ASSUME NEW m \in 1 .. Materials[t] PROVE MaterialQueued(a, m)'
      <4>1. m \in DOMAIN ts /\ ts[m] = [address |-> a, material |-> m]
        BY <1>4
      <4> QED BY <1>11, <4>1 DEF MaterialQueued
    <3>3. \A m \in 1 .. Materials[t] : m > 0
      BY <1>4
    <3> QED BY <1>5, <1>6, <3>1, <3>2, <3>3 DEF HasMaterials
  <2>2. ASSUME NEW v \in DOMAIN gpuTiles, NEW k, HasMaterials(v, k)
        PROVE  HasMaterials(v, k)'
    <3> PICK at : at = gpuTiles[v].address
      OBVIOUS
    <3>1. ASSUME NEW m PROVE MaterialQueued(at, m)' <=> MaterialQueued(at, m)
      <4>1. \A i \in DOMAIN ts : ts[i] # [address |-> at, material |-> m]
        BY <1>2, <1>12
      <4> QED BY <1>11, <4>1 DEF MaterialQueued
    <3> QED BY <1>5, <2>2, <3>1 DEF HasMaterials
  <2>3. 0 \in 0 .. Materials[t]
    BY <1>4
  <2> QED BY <1>5, <2>1, <2>2, <2>3 DEF UploadInv, MaterialsAccounted
<1>17. PendingIsQueued'
  <2> SUFFICES ASSUME NEW v \in DOMAIN gpuTiles'
               PROVE  gpuTiles'[v].pendingUploads =
                        UploadsTo(gpuTiles'[v].address, meshQueue \o ms) +
                        UploadsTo(gpuTiles'[v].address, materialQueue \o ts)
    <3>1. meshQueue' = meshQueue \o ms /\ materialQueue' = materialQueue \o ts
      BY <1>1
    <3> QED BY <3>1, Zenon DEF PendingIsQueued, QueuedFor, UploadsTo
  <2> PICK at : at = gpuTiles'[v].address
    OBVIOUS
  <2>1. /\ UploadsTo(at, meshQueue \o ms) =
             UploadsTo(at, meshQueue) + UploadsTo(at, ms)
        /\ UploadsTo(at, materialQueue \o ts) =
             UploadsTo(at, materialQueue) + UploadsTo(at, ts)
    BY <1>3, <1>4, <1>7, UploadsToConcat
  <2>2. CASE v = t
    <3>1. at = a /\ gpuTiles'[v].pendingUploads = Materials[t] + Len(ms)
      BY <1>3, <1>5, <1>6, <2>2
    <3>2. UploadsTo(at, ms) = Len(ms) /\ UploadsTo(at, ts) = Materials[t]
      <4>1. /\ \A i \in DOMAIN ms : ms[i].address = at
            /\ \A i \in DOMAIN ts : ts[i].address = at
        BY <1>12, <3>1
      <4>2. UploadsTo(at, ms) = Len(ms)
        BY <1>3, <4>1, UploadsToAll
      <4>3. UploadsTo(at, ts) = Len(ts)
        BY <1>4, <4>1, UploadsToAll
      <4> QED BY <1>4, <4>2, <4>3
    <3>3. UploadsTo(at, meshQueue) = 0 /\ UploadsTo(at, materialQueue) = 0
      BY <1>7, <1>12, <3>1, UploadsToNone
    <3> QED BY <1>3, <1>4, <2>1, <3>1, <3>2, <3>3
  <2>3. CASE v # t
    <3>1. /\ v \in DOMAIN gpuTiles /\ gpuTiles'[v] = gpuTiles[v] /\ at # a
          /\ at = gpuTiles[v].address
      BY <1>2, <1>5, <2>3
    <3>2. UploadsTo(at, ms) = 0 /\ UploadsTo(at, ts) = 0
      BY <1>3, <1>4, <1>12, <3>1, UploadsToNone
    <3>3. UploadsTo(at, meshQueue) \in Nat /\ UploadsTo(at, materialQueue) \in Nat
      BY <1>7, UploadsToType
    <3>4. gpuTiles[v].pendingUploads =
            UploadsTo(at, meshQueue) + UploadsTo(at, materialQueue)
      BY <3>1 DEF UploadInv, PendingIsQueued, QueuedFor
    <3> QED BY <2>1, <3>1, <3>2, <3>3, <3>4
  <2> QED BY <2>2, <2>3
<1> QED BY <1>8, <1>9, <1>13, <1>14, <1>15, <1>16, <1>17 DEF UploadInv
-----------------------------------------------------------------------------
(***************************************************************************)
(* WorldInv is an invariant, if the application does not shut down or      *)
(* switch datasets while uploads are queued.                               *)
(***************************************************************************)
LEMMA UploadsOfType == ASSUME NEW t \in Tiles PROVE UploadsOf(t) \in Nat
BY UploadsOfTile

LEMMA WorldInvInit == Init => WorldInv
<1> SUFFICES ASSUME Init PROVE WorldInv
  OBVIOUS
<1>1. DOMAIN gpuTiles = {} /\ meshQueue = <<>> /\ materialQueue = <<>>
  BY DEF Init
<1>2. UploadInv
  <2>1. GPUTilesTyped
    BY <1>1, FS_EmptySet DEF GPUTilesTyped
  <2>2. UploadsHaveTile /\ UploadsInOrder
    BY <1>1 DEF UploadsHaveTile, UploadsInOrder
  <2>3. AddressesDiffer /\ PendingIsQueued /\ MeshesAccounted /\ MaterialsAccounted
    BY <1>1 DEF AddressesDiffer, PendingIsQueued, MeshesAccounted,
                MaterialsAccounted
  <2> QED BY <2>1, <2>2, <2>3 DEF UploadInv
<1>3. OnlyResidentsMarked
  BY <1>1 DEF OnlyResidentsMarked
<1>4. DOMAIN currentLOD = {} /\ currentLOD \in [DOMAIN currentLOD -> Nat]
      /\ useError \in BOOLEAN
  BY DEF Init, LODInit
<1>5. TypeOK
  <2>1. 0 \in 0 .. MaxGPUUploads
    BY WorldAssumption
  <2> QED BY <1>1, <1>4, <2>1 DEF TypeOK, Init
<1> QED BY <1>2, <1>3, <1>4, <1>5 DEF WorldInv, LODInRange

\* Types of what belongs to update() and to the upload queue.
GPUTypeOK ==
  /\ loaded \in BOOLEAN
  /\ resident \subseteq Tiles
  /\ DOMAIN gpuTiles \subseteq Tiles
  /\ \A t \in DOMAIN gpuTiles :
       /\ gpuTiles[t].pendingUploads \in 0 .. UploadsOf(t)
       /\ gpuTiles[t].stillResident \in BOOLEAN
  /\ phase \in {"idle", "enqueue", "upload"}
  /\ todo \subseteq Tiles
  /\ uploads \in 0 .. MaxGPUUploads

LODTypeOK ==
  /\ useError \in BOOLEAN
  /\ currentLOD \in [DOMAIN currentLOD -> Nat] /\ DOMAIN currentLOD \subseteq Tiles

LEMMA TypeParts == TypeOK <=> GPUTypeOK /\ LODTypeOK
BY DEF TypeOK, GPUTypeOK, LODTypeOK

\* shutdown() and loadDataset() with nothing queued.
LEMMA DropKeepsInv ==
  ASSUME ~MayCutShort, WorldInv, MayDrop, Drop, loaded' \in BOOLEAN,
         UNCHANGED <<meshQueue, materialQueue, phase, todo, uploads>>
  PROVE  UploadInv' /\ GPUTypeOK' /\ OnlyResidentsMarked'
<1>1. meshQueue \in Seq(MeshUpload) /\ materialQueue \in Seq(MaterialUpload)
  BY DEF WorldInv, UploadInv, GPUTilesTyped
<1>2. meshQueue \o materialQueue = <<>>
  BY DEF MayDrop
<1>3. meshQueue = <<>> /\ materialQueue = <<>>
  <2>1. Len(meshQueue) + Len(materialQueue) = 0
    BY <1>1, <1>2
  <2> QED BY <1>1, <2>1
<1>4. DOMAIN gpuTiles' = {} /\ resident' = {}
  BY DEF Drop
<1>5. UploadInv'
  BY <1>3, <1>4, NothingKeepsUploadInv
<1>6. GPUTypeOK'
  BY <1>4 DEF GPUTypeOK, WorldInv, TypeOK
<1>7. OnlyResidentsMarked'
  BY <1>4 DEF OnlyResidentsMarked
<1> QED BY <1>5, <1>6, <1>7

LEMMA ReleaseKeepsInv ==
  ASSUME WorldInv, ReleaseStale
  PROVE  UploadInv' /\ GPUTypeOK' /\ OnlyResidentsMarked'
<1> DEFINE Kept == {u \in DOMAIN gpuTiles :
                      u \in resident \/ gpuTiles[u].pendingUploads # 0}
<1>1. /\ DOMAIN gpuTiles' = Kept
      /\ \A t \in Kept :
           gpuTiles'[t] = IF t \in resident THEN gpuTiles[t]
                          ELSE [gpuTiles[t] EXCEPT !.stillResident = FALSE]
      /\ UNCHANGED <<loaded, resident, meshQueue, materialQueue, todo>>
      /\ phase' = "upload" /\ uploads' = 0
  BY DEF ReleaseStale
<1>2. ASSUME NEW t \in Kept
      PROVE  SameGPU(t) /\ (gpuTiles'[t].stillResident => t \in resident)
  <2>1. t \in DOMAIN gpuTiles /\ gpuTiles[t] \in TileGPU(t)
    BY DEF WorldInv, UploadInv, GPUTilesTyped
  <2>2. CASE t \in resident
    BY <1>1, <2>1, <2>2 DEF SameGPU
  <2>3. CASE t \notin resident
    BY <1>1, <2>1, <2>3 DEF SameGPU, TileGPU
  <2> QED BY <2>2, <2>3
<1>3. \A t \in DOMAIN gpuTiles :
        gpuTiles[t].pendingUploads # 0 => t \in DOMAIN gpuTiles'
  BY <1>1
<1>4. UploadInv'
  <2>1. \A t \in DOMAIN gpuTiles' : SameGPU(t)
    BY <1>1, <1>2
  <2> QED BY <1>1, <1>3, <2>1, MarksKeepUploadInv DEF WorldInv
<1>5. GPUTypeOK'
  <2>1. \A t \in Kept : /\ t \in Tiles
                        /\ gpuTiles'[t].pendingUploads \in 0 .. UploadsOf(t)
                        /\ gpuTiles'[t].stillResident \in BOOLEAN
    BY <1>2 DEF SameGPU, TileGPU, WorldInv, TypeOK
  <2>2. 0 \in 0 .. MaxGPUUploads
    BY WorldAssumption
  <2> QED BY <1>1, <2>1, <2>2 DEF GPUTypeOK, WorldInv, TypeOK
<1>6. OnlyResidentsMarked'
  BY <1>1, <1>2 DEF OnlyResidentsMarked
<1> QED BY <1>4, <1>5, <1>6

LEMMA VisitKeepsInv ==
  ASSUME WorldInv, NEW t \in Tiles, VisitResident(t)
  PROVE  UploadInv' /\ GPUTypeOK' /\ OnlyResidentsMarked'
<1>1. /\ phase = "enqueue" /\ phase' = phase /\ todo' = todo \ {t}
      /\ UNCHANGED <<loaded, resident, uploads>>
  BY DEF VisitResident
<1>2. OnlyResidentsMarked'
  BY <1>1 DEF OnlyResidentsMarked
<1>3. CASE Revive(t)
  <2>1. /\ t \in DOMAIN gpuTiles
        /\ gpuTiles' = [gpuTiles EXCEPT ![t] =
                          [gpuTiles[t] EXCEPT !.stillResident = TRUE]]
        /\ UNCHANGED <<meshQueue, materialQueue>>
    BY <1>3 DEF Revive
  <2>2. \A v \in DOMAIN gpuTiles : gpuTiles[v] \in TileGPU(v)
    BY DEF WorldInv, UploadInv, GPUTilesTyped
  <2>3. DOMAIN gpuTiles' = DOMAIN gpuTiles
    BY <2>1
  <2>4. ASSUME NEW v \in DOMAIN gpuTiles PROVE SameGPU(v)
    <3>1. CASE v = t
      BY <2>1, <2>2, <3>1 DEF SameGPU, TileGPU
    <3>2. CASE v # t
      BY <2>1, <2>2, <3>2 DEF SameGPU
    <3> QED BY <3>1, <3>2
  <2>5. UploadInv'
    BY <2>1, <2>3, <2>4, MarksKeepUploadInv DEF WorldInv
  <2>6. \A v \in DOMAIN gpuTiles : /\ gpuTiles'[v].pendingUploads \in 0 .. UploadsOf(v)
                                   /\ gpuTiles'[v].stillResident \in BOOLEAN
    BY <2>4 DEF SameGPU, TileGPU, WorldInv, TypeOK
  <2>7. GPUTypeOK'
    BY <1>1, <2>3, <2>6 DEF GPUTypeOK, WorldInv, TypeOK
  <2> QED BY <1>2, <2>5, <2>7
<1>4. CASE EnqueueUploads(t)
  <2>1. UploadInv'
    BY <1>4, EnqueueKeepsInv DEF WorldInv
  <2>2. /\ DOMAIN gpuTiles' = DOMAIN gpuTiles \cup {t} /\ t \notin DOMAIN gpuTiles
        /\ \A v \in DOMAIN gpuTiles : gpuTiles'[v] = gpuTiles[v]
        /\ gpuTiles'[t].pendingUploads = UploadsOf(t)
        /\ gpuTiles'[t].stillResident = TRUE
    BY <1>4 DEF EnqueueUploads
  <2>3. UploadsOf(t) \in 0 .. UploadsOf(t)
    BY UploadsOfType
  <2>4. GPUTypeOK'
    BY <1>1, <2>2, <2>3 DEF GPUTypeOK, WorldInv, TypeOK
  <2> QED BY <1>2, <2>1, <2>4
<1> QED BY <1>3, <1>4 DEF VisitResident

\* An upload counts down for one tile, and changes no mark.
LEMMA OneUploadKeepsInv ==
  ASSUME WorldInv, UploadInv', phase = "upload", uploads < MaxGPUUploads,
         uploads' = uploads + 1,
         UNCHANGED <<loaded, resident, phase, todo>>,
         NEW t \in DOMAIN gpuTiles, DOMAIN gpuTiles' = DOMAIN gpuTiles,
         \A v \in DOMAIN gpuTiles : v # t => gpuTiles'[v] = gpuTiles[v],
         gpuTiles'[t].pendingUploads = gpuTiles[t].pendingUploads - 1,
         gpuTiles'[t].stillResident = gpuTiles[t].stillResident
  PROVE  GPUTypeOK' /\ OnlyResidentsMarked'
<1>1. uploads + 1 \in 0 .. MaxGPUUploads
  BY WorldAssumption DEF WorldInv, TypeOK
<1>2. gpuTiles'[t].pendingUploads \in 0 .. UploadsOf(t)
  <2>1. gpuTiles'[t].pendingUploads \in Nat
    BY DEF UploadInv, GPUTilesTyped, TileGPU
  <2>2. gpuTiles[t].pendingUploads \in 0 .. UploadsOf(t) /\ UploadsOf(t) \in Nat
    BY UploadsOfType DEF WorldInv, TypeOK
  <2> QED BY <2>1, <2>2
<1>3. \A v \in DOMAIN gpuTiles : gpuTiles'[v].stillResident = gpuTiles[v].stillResident
  OBVIOUS
<1>4. GPUTypeOK'
  BY <1>1, <1>2, <1>3 DEF GPUTypeOK, WorldInv, TypeOK
<1>5. OnlyResidentsMarked'
  BY <1>3 DEF OnlyResidentsMarked, WorldInv
<1> QED BY <1>4, <1>5

LEMMA UploadKeepsInv ==
  ASSUME WorldInv, UploadMesh \/ UploadMaterial
  PROVE  UploadInv' /\ GPUTypeOK' /\ OnlyResidentsMarked'
<1>0. \A t \in DOMAIN gpuTiles : gpuTiles[t] \in TileGPU(t)
  BY DEF WorldInv, UploadInv, GPUTilesTyped
<1>1. CASE UploadMesh
  <2>1. UploadInv'
    BY <1>1, UploadMeshKeepsInv DEF WorldInv
  <2>2. PICK t \in DOMAIN gpuTiles : \E l \in Lods(t), k \in Nat :
          MeshUploaded(t, l, k)
    BY <1>1, UploadMeshShape DEF WorldInv
  <2>3. /\ DOMAIN gpuTiles' = DOMAIN gpuTiles
        /\ \A v \in DOMAIN gpuTiles : v # t => gpuTiles'[v] = gpuTiles[v]
        /\ gpuTiles'[t].pendingUploads = gpuTiles[t].pendingUploads - 1
        /\ gpuTiles'[t].stillResident = gpuTiles[t].stillResident
    BY <1>0, <2>2 DEF MeshUploaded, TileGPU
  <2> QED BY <1>1, <2>1, <2>3, OneUploadKeepsInv DEF UploadMesh
<1>2. CASE UploadMaterial
  <2>1. UploadInv'
    BY <1>2, UploadMaterialKeepsInv DEF WorldInv
  <2>2. PICK t \in DOMAIN gpuTiles : \E k \in Nat : MaterialUploaded(t, k)
    BY <1>2, UploadMaterialShape DEF WorldInv
  <2>3. /\ DOMAIN gpuTiles' = DOMAIN gpuTiles
        /\ \A v \in DOMAIN gpuTiles : v # t => gpuTiles'[v] = gpuTiles[v]
        /\ gpuTiles'[t].pendingUploads = gpuTiles[t].pendingUploads - 1
        /\ gpuTiles'[t].stillResident = gpuTiles[t].stillResident
    BY <1>0, <2>2 DEF MaterialUploaded, TileGPU
  <2> QED BY <1>2, <2>1, <2>3, OneUploadKeepsInv DEF UploadMaterial
<1> QED BY <1>1, <1>2
-----------------------------------------------------------------------------
(***************************************************************************)
(* Selecting a LOD.                                                        *)
(***************************************************************************)
LEMMA TimesKeepsOrder ==
  ASSUME NEW a \in Nat, NEW b \in Nat, NEW r \in Nat, a <= b
  PROVE  a * r \in Nat /\ b * r \in Nat /\ a * r <= b * r
<1>1. PICK d \in Nat : b = a + d
  <2>1. b - a \in Nat /\ b = a + (b - a)
    OBVIOUS
  <2> QED BY <2>1
<1>2. b * r = a * r + d * r
  BY <1>1
<1>3. a * r \in Nat /\ d * r \in Nat
  OBVIOUS
<1> QED BY <1>2, <1>3

\* The thresholds in use are as many as ThresholdCount() says, and in order.
AreThresholds(s) == s \in Seq(Nat) /\ NonDecreasing(s)

LEMMA ThresholdsInOrder ==
  ASSUME NEW t \in Tiles, NEW camera \in Cameras, useError \in BOOLEAN
  PROVE  /\ AreThresholds(EffectiveThresholds(t, camera))
         /\ Len(EffectiveThresholds(t, camera)) = ThresholdCount(t)
<1>1. CASE ~useError
  BY <1>1, LODAssumption DEF EffectiveThresholds, AreThresholds, ThresholdCount
<1>2. CASE useError
  <2> DEFINE e == Errors[t]
             n == Len(e) - 1
             r == camera.reach
             s == [i \in 1 .. n |-> e[i + 1] * r]
  <2>1. e \in Seq(Nat) /\ NonDecreasing(e) /\ r \in Nat
    BY LODAssumption
  <2>2. n \in Nat
    <3>1. Len(Meshes[t]) \in Nat \ {0}
      BY TileCounts
    <3> QED BY <3>1, WorldAssumption
  <2>3. EffectiveThresholds(t, camera) = s
    BY <1>2 DEF EffectiveThresholds
  <2> HIDE DEF r
  <2>4. \A i \in 1 .. n : i + 1 \in DOMAIN e /\ e[i + 1] \in Nat
    BY <2>1, <2>2
  <2>5. \A i \in 1 .. n : e[i + 1] * r \in Nat
    <3> HIDE DEF e
    <3> QED BY <2>1, <2>4, TimesKeepsOrder
  <2>6. s \in Seq(Nat) /\ Len(s) = n /\ DOMAIN s = 1 .. n
    <3> HIDE DEF e, n
    <3> QED BY <2>2, <2>5
  <2>7. ASSUME NEW i \in 1 .. n, NEW j \in 1 .. n, i < j PROVE s[i] <= s[j]
    <3>1. e[i + 1] <= e[j + 1]
      <4>1. i + 1 < j + 1
        BY <2>2, <2>7
      <4> QED BY <2>1, <2>4, <4>1 DEF NonDecreasing
    <3>2. e[i + 1] * r <= e[j + 1] * r
      BY <2>1, <2>4, <3>1, TimesKeepsOrder
    <3> QED BY <3>2
  <2>8. NonDecreasing(s)
    <3> HIDE DEF s
    <3> QED BY <2>6, <2>7 DEF NonDecreasing
  <2>9. ThresholdCount(t) = n
    BY <1>2 DEF ThresholdCount
  <2> HIDE DEF s, n
  <2> QED BY <2>3, <2>6, <2>8, <2>9 DEF AreThresholds
<1> QED BY <1>1, <1>2

\* selectLODByDistance(): the camera has reached the threshold of the LOD it
\* answers, and not the next one.
LEMMA CandidateFits ==
  ASSUME NEW s, AreThresholds(s), NEW d \in Nat, NEW c,
         c = SelectLODByDistance(d, s)
  PROVE  /\ c \in 0 .. Len(s)
         /\ \A i \in DOMAIN s : i <= c => s[i] <= d
         /\ \A i \in DOMAIN s : i > c => d < s[i]
<1> DEFINE beyond == {i \in DOMAIN s : d < s[i]}
<1>1. s \in Seq(Nat) /\ Len(s) \in Nat /\ DOMAIN s = 1 .. Len(s)
  BY DEF AreThresholds
<1>2. CASE beyond = {}
  <2>1. c = Len(s)
    BY <1>2 DEF SelectLODByDistance
  <2>2. \A i \in DOMAIN s : s[i] \in Nat /\ ~ (d < s[i])
    BY <1>1, <1>2
  <2> QED BY <1>1, <2>1, <2>2
<1>3. CASE beyond # {}
  <2>1. PICK m : m = Min(beyond)
    OBVIOUS
  <2>2. m \in beyond /\ \A i \in beyond : m <= i
    <3>1. beyond \subseteq Nat
      BY <1>1
    <3> HIDE DEF beyond
    <3> QED BY <1>3, <2>1, <3>1, MinIsSmallest
  <2>3. c = m - 1
    BY <1>3, <2>1 DEF SelectLODByDistance
  <2>4. m \in 1 .. Len(s) /\ d < s[m]
    BY <1>1, <2>2
  <2>5. ASSUME NEW i \in DOMAIN s, i <= c PROVE s[i] <= d
    <3>1. i < m
      BY <1>1, <2>3, <2>4, <2>5
    <3>2. i \notin beyond
      BY <1>1, <2>2, <2>4, <3>1
    <3>3. s[i] \in Nat
      BY <1>1
    <3> QED BY <3>2, <3>3
  <2>6. ASSUME NEW i \in DOMAIN s, i > c PROVE d < s[i]
    <3>1. m <= i
      BY <1>1, <2>3, <2>4, <2>6
    <3>2. s[m] <= s[i]
      <4>1. CASE m = i
        BY <1>1, <4>1
      <4>2. CASE m < i
        BY <1>1, <2>4, <4>2 DEF AreThresholds, NonDecreasing
      <4> QED BY <1>1, <2>4, <3>1, <4>1, <4>2
    <3>3. s[i] \in Nat /\ s[m] \in Nat
      BY <1>1, <2>4
    <3> QED BY <2>4, <3>2, <3>3
  <2>7. c \in 0 .. Len(s)
    BY <1>1, <2>3, <2>4
  <2> QED BY <2>5, <2>6, <2>7
<1> QED BY <1>2, <1>3

\* The two sides of the band around a threshold b.
LEMMA PastTheLowerSide ==
  ASSUME NEW b \in Nat, NEW d \in Nat, b <= d
  PROVE  Beyond(d, b, 100 - HysteresisPercent)
<1>1. PICK p : p = 100 - HysteresisPercent
  OBVIOUS
<1>2. p \in Nat /\ p <= 100
  BY <1>1, LODAssumption
<1>3. p * b <= 100 * b
  BY <1>2, TimesKeepsOrder
<1>4. b * p = p * b
  BY <1>2
<1> QED BY <1>1, <1>2, <1>3, <1>4 DEF Beyond

LEMMA ShortOfTheUpperSide ==
  ASSUME NEW b \in Nat, NEW d \in Nat, d < b
  PROVE  ~Beyond(d, b, 100 + HysteresisPercent)
<1>1. PICK p : p = 100 + HysteresisPercent
  OBVIOUS
<1>2. p \in Nat /\ 100 <= p
  BY <1>1, LODAssumption
<1>3. 100 * b <= p * b /\ p * b \in Nat
  BY <1>2, TimesKeepsOrder
<1>4. b * p = p * b
  BY <1>2
<1> QED BY <1>1, <1>3, <1>4 DEF Beyond

\* What selectLODByDistance() answers is within the band, and so is the LOD
\* that applyHysteresis() keeps instead.
LEMMA HysteresisStaysInBand ==
  ASSUME NEW s, AreThresholds(s), NEW d \in Nat, NEW current \in 0 .. Len(s)
  PROVE  /\ WithinBand(SelectLODByDistance(d, s), d, s)
         /\ WithinBand(ApplyHysteresis(SelectLODByDistance(d, s), current, d, s),
                       d, s)
<1>1. PICK c : c = SelectLODByDistance(d, s)
  OBVIOUS
<1>2. s \in Seq(Nat) /\ Len(s) \in Nat /\ DOMAIN s = 1 .. Len(s)
  BY DEF AreThresholds
<1>3. /\ c \in 0 .. Len(s)
      /\ \A i \in DOMAIN s : i <= c => s[i] <= d
      /\ \A i \in DOMAIN s : i > c => d < s[i]
  BY <1>1, CandidateFits
<1>4. ASSUME NEW i \in DOMAIN s, i <= c
      PROVE  Beyond(d, s[i], 100 - HysteresisPercent)
  BY <1>2, <1>3, <1>4, PastTheLowerSide
<1>5. ASSUME NEW i \in DOMAIN s, i > c
      PROVE  ~Beyond(d, s[i], 100 + HysteresisPercent)
  BY <1>2, <1>3, <1>5, ShortOfTheUpperSide
<1>6. WithinBand(c, d, s)
  <2>1. c > 0 => c \in DOMAIN s
    BY <1>2, <1>3
  <2>2. c < Len(s) => c + 1 \in DOMAIN s /\ c + 1 > c
    BY <1>2, <1>3
  <2>3. c <= c
    BY <1>3
  <2> QED BY <1>3, <1>4, <1>5, <2>1, <2>2, <2>3 DEF WithinBand
<1>7. CASE /\ c = current + 1
           /\ ~Beyond(d, s[current + 1], 100 + HysteresisPercent)
  <2>1. ApplyHysteresis(c, current, d, s) = current
    BY <1>7 DEF ApplyHysteresis
  <2>2. current > 0 => current \in DOMAIN s /\ current <= c
    BY <1>2, <1>7
  <2> QED BY <1>1, <1>4, <1>6, <1>7, <2>1, <2>2 DEF WithinBand
<1>8. CASE /\ c + 1 = current
           /\ 100 * d > s[current] * (100 - HysteresisPercent)
  <2>1. ApplyHysteresis(c, current, d, s) = current
    BY <1>8 DEF ApplyHysteresis
  <2>2. Beyond(d, s[current], 100 - HysteresisPercent)
    <3>1. PICK p : p = 100 - HysteresisPercent
      OBVIOUS
    <3>2. p \in Nat
      BY <3>1, LODAssumption
    <3>3. s[current] \in Nat
      BY <1>2, <1>3, <1>8
    <3>4. s[current] * p \in Nat
      BY <3>2, <3>3, TimesKeepsOrder
    <3> QED BY <1>8, <3>1, <3>4 DEF Beyond
  <2>3. current < Len(s) => current + 1 \in DOMAIN s /\ current + 1 > c
    BY <1>2, <1>3, <1>8
  <2> QED BY <1>1, <1>5, <1>6, <2>1, <2>2, <2>3 DEF WithinBand
<1>9. CASE ~ \/ /\ c = current + 1
                /\ ~Beyond(d, s[current + 1], 100 + HysteresisPercent)
             \/ /\ c + 1 = current
                /\ 100 * d > s[current] * (100 - HysteresisPercent)
  BY <1>1, <1>6, <1>9 DEF ApplyHysteresis
<1> QED BY <1>7, <1>8, <1>9

\* selectLOD() of a tile, from what was remembered of it.
LEMMA SelectLODFits ==
  ASSUME WorldInv, NEW t \in Tiles, NEW camera \in Cameras
  PROVE  WithinBand(SelectLOD(t, camera), camera.distance,
                    EffectiveThresholds(t, camera))
<1>1. PICK s : s = EffectiveThresholds(t, camera)
  OBVIOUS
<1>2. PICK d \in Nat : d = camera.distance
  BY LODAssumption
<1>3. AreThresholds(s) /\ Len(s) = ThresholdCount(t)
  BY <1>1, ThresholdsInOrder DEF WorldInv, TypeOK
<1>4. CASE t \in DOMAIN currentLOD
  <2>1. currentLOD[t] \in 0 .. Len(s)
    BY <1>3, <1>4 DEF WorldInv, LODInRange
  <2>2. WithinBand(ApplyHysteresis(SelectLODByDistance(d, s), currentLOD[t], d, s),
                   d, s)
    BY <1>3, <2>1, HysteresisStaysInBand
  <2> QED BY <1>1, <1>2, <1>4, <2>2 DEF SelectLOD
<1>5. CASE t \notin DOMAIN currentLOD
  <2>1. 0 \in 0 .. Len(s)
    BY <1>3 DEF AreThresholds
  <2>2. WithinBand(SelectLODByDistance(d, s), d, s)
    BY <1>3, <2>1, HysteresisStaysInBand
  <2> QED BY <1>1, <1>2, <1>5, <2>2 DEF SelectLOD
<1> QED BY <1>4, <1>5

\* render() draws tiles that are resident, and remembers a LOD for each.
LEMMA DrawnAreResident == WorldInv => DrawnIsResident
BY DEF WorldInv, OnlyResidentsMarked, DrawnIsResident, Drawn

LEMMA RenderKeepsLODs ==
  ASSUME WorldInv, NEW camera \in Cameras, Render(camera)
  PROVE  LODTypeOK' /\ LODInRange'
<1> DEFINE drawn == Drawn \cap resident
           all == DOMAIN currentLOD \cup drawn
<1>1. /\ DOMAIN currentLOD' = all
      /\ \A t \in all : currentLOD'[t] = IF t \in drawn THEN SelectLOD(t, camera)
                                         ELSE currentLOD[t]
      /\ currentLOD' = [t \in all |-> IF t \in drawn THEN SelectLOD(t, camera)
                                      ELSE currentLOD[t]]
      /\ useError' = useError
  BY DEF Render, SelectLODs
<1>2. drawn \subseteq Tiles /\ all \subseteq Tiles
  BY DEF WorldInv, TypeOK
<1>3. ASSUME NEW t \in Tiles
      PROVE  ThresholdCount(t) \in Nat /\ ThresholdCount(t)' = ThresholdCount(t)
  <2>1. Len(DistanceThresholds) \in Nat
    BY LODAssumption
  <2>2. Len(Meshes[t]) \in Nat \ {0}
    BY TileCounts
  <2> QED BY <1>1, <2>1, <2>2, WorldAssumption DEF ThresholdCount
<1>4. ASSUME NEW t \in all PROVE currentLOD'[t] \in 0 .. ThresholdCount(t)
  <2>1. CASE t \in drawn
    <3>1. WithinBand(SelectLOD(t, camera), camera.distance,
                     EffectiveThresholds(t, camera))
      BY <1>2, SelectLODFits
    <3>2. Len(EffectiveThresholds(t, camera)) = ThresholdCount(t)
      BY <1>2, ThresholdsInOrder DEF WorldInv, TypeOK
    <3> QED BY <1>1, <2>1, <3>1, <3>2 DEF WithinBand
  <2>2. CASE t \notin drawn
    BY <1>1, <2>2 DEF WorldInv, LODInRange
  <2> QED BY <2>1, <2>2
<1>5. LODInRange'
  <2> HIDE DEF all
  <2> QED BY <1>1, <1>2, <1>3, <1>4 DEF LODInRange
<1>6. \A t \in all : currentLOD'[t] \in Nat
  BY <1>2, <1>3, <1>4
<1>7. LODTypeOK'
  <2>1. currentLOD' \in [all -> Nat]
    <3> HIDE DEF all, drawn
    <3> QED BY <1>1, <1>6
  <2>2. useError' \in BOOLEAN
    BY <1>1 DEF WorldInv, TypeOK
  <2> QED BY <1>1, <1>2, <2>1, <2>2 DEF LODTypeOK
<1> QED BY <1>5, <1>7

\* What no step but render() and loadDataset() changes.
LEMMA OthersKeepLODs ==
  ASSUME WorldInv, UNCHANGED lodVars
  PROVE  LODTypeOK' /\ LODInRange'
BY DEF WorldInv, TypeOK, LODTypeOK, LODInRange, ThresholdCount, lodVars

LEMMA ResetsKeepLODs == ResetLODs => LODTypeOK' /\ LODInRange'
<1> SUFFICES ASSUME ResetLODs PROVE LODTypeOK' /\ LODInRange'
  OBVIOUS
<1>1. /\ useError' \in BOOLEAN /\ DOMAIN currentLOD' = {}
      /\ currentLOD' \in [DOMAIN currentLOD' -> Nat]
  BY DEF ResetLODs
<1> QED BY <1>1 DEF LODTypeOK, LODInRange

\* Steps that leave the GPU data and the queues alone.
LEMMA RestKeepsInv ==
  ASSUME WorldInv, UNCHANGED <<gpuTiles, meshQueue, materialQueue>>,
         loaded' = loaded,
         \/ UNCHANGED <<resident, phase, todo, uploads>>
         \/ UpdateStreaming \/ EndUpdate
  PROVE  UploadInv' /\ GPUTypeOK' /\ OnlyResidentsMarked'
<1>1. UploadInv'
  <2>1. \A t \in DOMAIN gpuTiles : SameGPU(t)
    BY DEF SameGPU, WorldInv, UploadInv, GPUTilesTyped
  <2> QED BY <2>1, MarksKeepUploadInv DEF WorldInv
<1>2. 0 \in 0 .. MaxGPUUploads
  BY WorldAssumption
<1>3. resident' \subseteq Tiles /\ todo' \subseteq Tiles
  BY DEF UpdateStreaming, EndUpdate, WorldInv, TypeOK
<1>4. phase' \in {"idle", "enqueue", "upload"} /\ uploads' \in 0 .. MaxGPUUploads
  BY <1>2 DEF UpdateStreaming, EndUpdate, WorldInv, TypeOK
<1>5. GPUTypeOK'
  BY <1>3, <1>4 DEF GPUTypeOK, WorldInv, TypeOK
<1>6. OnlyResidentsMarked'
  BY DEF UpdateStreaming, EndUpdate, OnlyResidentsMarked, WorldInv
<1> QED BY <1>1, <1>5, <1>6

LEMMA UpdatesKeepInv ==
  ASSUME WorldInv,
         \/ UpdateStep
         \/ \E camera \in Cameras : Render(camera)
         \/ UNCHANGED worldVars
  PROVE  WorldInv'
<1> SUFFICES /\ UploadInv' /\ GPUTypeOK' /\ OnlyResidentsMarked'
             /\ LODTypeOK' /\ LODInRange'
  BY DEF WorldInv, TypeOK, GPUTypeOK, LODTypeOK
<1>1. CASE UpdateStreaming
  BY <1>1, RestKeepsInv, OthersKeepLODs DEF UpdateStreaming
<1>2. CASE ReleaseStale
  BY <1>2, ReleaseKeepsInv, OthersKeepLODs DEF ReleaseStale
<1>3. CASE UploadMesh
  BY <1>3, UploadKeepsInv, OthersKeepLODs DEF UploadMesh
<1>4. CASE UploadMaterial
  BY <1>4, UploadKeepsInv, OthersKeepLODs DEF UploadMaterial
<1>5. CASE EndUpdate
  BY <1>5, RestKeepsInv, OthersKeepLODs DEF EndUpdate
<1>6. CASE \E t \in Tiles : VisitResident(t)
  <2>1. PICK t \in Tiles : VisitResident(t)
    BY <1>6
  <2> QED BY <2>1, VisitKeepsInv, OthersKeepLODs DEF VisitResident
<1>7. CASE \E camera \in Cameras : Render(camera)
  <2>1. PICK camera \in Cameras : Render(camera)
    BY <1>7
  <2>2. UploadInv' /\ GPUTypeOK' /\ OnlyResidentsMarked'
    BY <2>1, RestKeepsInv DEF Render, updateVars
  <2> QED BY <2>1, <2>2, RenderKeepsLODs
<1>8. CASE UNCHANGED worldVars
  <2>1. UNCHANGED updateVars /\ UNCHANGED lodVars
    BY <1>8 DEF worldVars
  <2> QED BY <2>1, RestKeepsInv, OthersKeepLODs DEF updateVars
<1> QED BY <1>1, <1>2, <1>3, <1>4, <1>5, <1>6, <1>7, <1>8 DEF UpdateStep

LEMMA WorldInvStep ==
  ASSUME ~MayCutShort, WorldInv, [Next]_worldVars
  PROVE  WorldInv'
<1>1. CASE LoadDataset \/ Shutdown
  <2> SUFFICES /\ UploadInv' /\ GPUTypeOK' /\ OnlyResidentsMarked'
               /\ LODTypeOK' /\ LODInRange'
    BY DEF WorldInv, TypeOK, GPUTypeOK, LODTypeOK
  <2>1. loaded' \in BOOLEAN
    BY <1>1 DEF LoadDataset, Shutdown
  <2>2. CASE LoadDataset
    BY <2>1, <2>2, DropKeepsInv, ResetsKeepLODs DEF LoadDataset
  <2>3. CASE Shutdown
    BY <2>1, <2>3, DropKeepsInv, OthersKeepLODs DEF Shutdown
  <2> QED BY <1>1, <2>2, <2>3
<1>2. CASE ~(LoadDataset \/ Shutdown)
  BY <1>2, UpdatesKeepInv DEF Next
<1> QED BY <1>1, <1>2
-----------------------------------------------------------------------------
(***************************************************************************)
(* SpatialWorld, as long as nobody shuts down or switches datasets while   *)
(* uploads are queued (MCSpatialWorldCutShort shows what happens then):    *)
(* the upload queue, the counts of pending uploads, the GPU data and the   *)
(* remembered LODs fit together, for every dataset, budget and schedule.   *)
(***************************************************************************)
THEOREM WorldInvariant == ASSUME ~MayCutShort PROVE Spec => []WorldInv
<1>1. Init => WorldInv
  BY WorldInvInit
<1>2. WorldInv /\ [Next]_worldVars => WorldInv'
  BY WorldInvStep
<1> QED BY <1>1, <1>2, PTL DEF Spec

(***************************************************************************)
(* No callback is left with a dangling reference: GPU data of an evicted   *)
(* tile outlives the last upload queued for it, however the tile is        *)
(* evicted and loaded again in between.                                    *)
(***************************************************************************)
THEOREM CallbacksFindTheirTile ==
  ASSUME ~MayCutShort PROVE Spec => []CallbacksHaveTarget
<1>1. WorldInv => CallbacksHaveTarget
  BY UploadsHaveTarget DEF WorldInv, UploadInv
<1> QED BY <1>1, WorldInvariant, PTL

(***************************************************************************)
(* pendingUploads, which ready() and the release of stale GPU data go by,  *)
(* is the number of uploads queued for the tile.                           *)
(***************************************************************************)
THEOREM PendingCountsTheQueue ==
  ASSUME ~MayCutShort PROVE Spec => []PendingIsQueued
<1>1. WorldInv => PendingIsQueued
  BY DEF WorldInv, UploadInv
<1> QED BY <1>1, WorldInvariant, PTL

\* A tile that is ready has all of its meshes and materials.
LEMMA ReadyIsComplete ==
  ASSUME WorldInv, NEW t \in Drawn
  PROVE  /\ gpuTiles[t].materials = UpTo(Materials[t])
         /\ \A l \in Lods(t) : gpuTiles[t].lodMeshes[l] = UpTo(Meshes[t][l])
<1> DEFINE a == gpuTiles[t].address
<1>1. UploadInv
  BY DEF WorldInv
<1>2. t \in DOMAIN gpuTiles /\ gpuTiles[t].pendingUploads = 0 /\ t \in Tiles
  BY DEF Drawn, Ready, WorldInv, TypeOK
<1>3. /\ \A i \in DOMAIN meshQueue : meshQueue[i].address # a
      /\ \A i \in DOMAIN materialQueue : materialQueue[i].address # a
  BY <1>1, <1>2, ReadyHasNoUploads
<1>4. /\ \A l, m : ~MeshQueued(a, l, m)
      /\ \A m : ~MaterialQueued(a, m)
  <2> HIDE DEF a
  <2> QED BY <1>3 DEF MeshQueued, MaterialQueued
<1>5. gpuTiles[t].materials = UpTo(Materials[t])
  <2>1. PICK k \in 0 .. Materials[t] : HasMaterials(t, k)
    BY <1>1, <1>2 DEF UploadInv, MaterialsAccounted
  <2>2. \A m \in 1 .. Materials[t] : ~ (m > k)
    BY <1>4, <2>1 DEF HasMaterials
  <2>3. k = Materials[t]
    <3>1. Materials[t] \in Nat
      BY <1>2, TileCounts
    <3>2. CASE k < Materials[t]
      <4>1. Materials[t] \in 1 .. Materials[t] /\ Materials[t] > k
        BY <3>1, <3>2
      <4> QED BY <2>2, <4>1
    <3> QED BY <3>1, <3>2
  <2> QED BY <2>1, <2>3 DEF HasMaterials
<1>6. ASSUME NEW l \in Lods(t)
      PROVE  gpuTiles[t].lodMeshes[l] = UpTo(Meshes[t][l])
  <2>1. PICK k \in 0 .. Meshes[t][l] : HasMeshes(t, l, k)
    BY <1>1, <1>2 DEF UploadInv, MeshesAccounted
  <2>2. \A m \in 1 .. Meshes[t][l] : ~ (m > k)
    BY <1>4, <2>1 DEF HasMeshes
  <2>3. k = Meshes[t][l]
    <3>1. Meshes[t][l] \in Nat
      BY <1>2, TileCounts DEF Lods
    <3>2. CASE k < Meshes[t][l]
      <4>1. Meshes[t][l] \in 1 .. Meshes[t][l] /\ Meshes[t][l] > k
        BY <3>1, <3>2
      <4> QED BY <2>2, <4>1
    <3> QED BY <3>1, <3>2
  <2> QED BY <2>1, <2>3 DEF HasMeshes
<1> QED BY <1>5, <1>6

(***************************************************************************)
(* What render() draws has all of its tile, in the tile's order, and is of *)
(* a tile that is resident.                                                *)
(***************************************************************************)
THEOREM DrawsWholeTiles == ASSUME ~MayCutShort PROVE Spec => []DrawnIsWhole
<1>1. WorldInv => DrawnIsComplete
  BY ReadyIsComplete DEF DrawnIsComplete, UpTo
<1>2. WorldInv => DrawnIsWhole
  BY <1>1, DrawnAreResident DEF DrawnIsWhole
<1> QED BY <1>2, WorldInvariant, PTL

(***************************************************************************)
(* The LOD that render() selects for a tile it draws is that of the camera *)
(* up to the hysteresis band, whatever was selected before.                *)
(***************************************************************************)
THEOREM RenderSelectsWithinBand ==
  ASSUME ~MayCutShort PROVE Spec => SelectsWithinBand
<1> DEFINE Selects ==
      \A camera \in Cameras : Render(camera) =>
        \A t \in Drawn :
          WithinBand(currentLOD'[t], camera.distance,
                     EffectiveThresholds(t, camera))
<1>1. WorldInv => Selects
  <2> SUFFICES ASSUME WorldInv, NEW camera \in Cameras, Render(camera),
                      NEW t \in Drawn
               PROVE  WithinBand(currentLOD'[t], camera.distance,
                                 EffectiveThresholds(t, camera))
    OBVIOUS
  <2>1. t \in Tiles
    BY DEF Drawn, WorldInv, TypeOK
  <2>2. t \in resident
    BY DrawnAreResident DEF DrawnIsResident, Render
  <2>3. currentLOD'[t] = SelectLOD(t, camera)
    BY <2>2 DEF Render, SelectLODs
  <2> QED BY <2>1, <2>3, SelectLODFits
<1>2. WorldInv => [Selects]_worldVars
  BY <1>1
<1> QED BY <1>2, WorldInvariant, PTL DEF SelectsWithinBand
-----------------------------------------------------------------------------
(***************************************************************************)
(* The bridge.                                                             *)
(***************************************************************************)
\* The ids that the resources of a TileGPU own, and what each was made from.
Handles(t) == [lodMeshes : [Lods(t) -> Seq(Nat)], materials : Seq(Nat)]

OwnsMeshes(t) ==
  \A l \in Lods(t) : \A m \in DOMAIN handles[t].lodMeshes[l] :
    /\ handles[t].lodMeshes[l][m] \in DOMAIN meshes
    /\ meshes[handles[t].lodMeshes[l][m]] = <<t, l, m>>

OwnsMaterials(t) ==
  \A m \in DOMAIN handles[t].materials :
    /\ handles[t].materials[m] \in DOMAIN materials
    /\ materials[handles[t].materials[m]] = <<t, m>>

OwnersKnown ==
  \A t \in DOMAIN handles :
    t \in Tiles /\ handles[t] \in Handles(t) /\ OwnsMeshes(t) /\ OwnsMaterials(t)

\* Nothing is without an owner.
IsMeshId(t, id) ==
  \E l \in Lods(t) : \E m \in DOMAIN handles[t].lodMeshes[l] :
    handles[t].lodMeshes[l][m] = id

IsMaterialId(t, id) ==
  \E m \in DOMAIN handles[t].materials : handles[t].materials[m] = id

EveryIdOwned ==
  /\ \A id \in DOMAIN meshes : \E t \in DOMAIN handles : IsMeshId(t, id)
  /\ \A id \in DOMAIN materials : \E t \in DOMAIN handles : IsMaterialId(t, id)

\* Ids are given once; 0 is none.
IdsGiven ==
  /\ nextId \in Nat \ {0} /\ nextMaterialId \in Nat \ {0}
  /\ DOMAIN meshes \subseteq 1 .. FreshId - 1
  /\ DOMAIN materials \subseteq 1 .. FreshMaterialId - 1

\* A TileGPU has a handle for each mesh and material that was uploaded for it.
HandlesMatch ==
  /\ DOMAIN handles = DOMAIN gpuTiles
  /\ \A t \in DOMAIN gpuTiles :
       /\ Len(handles[t].materials) = Len(gpuTiles[t].materials)
       /\ \A l \in Lods(t) :
            Len(handles[t].lodMeshes[l]) = Len(gpuTiles[t].lodMeshes[l])

RendererInv == OwnersKnown /\ EveryIdOwned /\ IdsGiven

\* What a component has cached is never stale: of an id that is still in use it
\* is what the id was made from, and an id yet to be given is not there.
CachesFollow ==
  /\ DOMAIN meshCache \subseteq 1 .. FreshId - 1
  /\ DOMAIN colorCache \subseteq 0 .. FreshMaterialId - 1
  /\ \A id \in DOMAIN meshCache \cap DOMAIN meshes :
       meshCache[id] = meshes[id] /\ meshes[id] \notin EmptyMeshes
  /\ 0 \in DOMAIN colorCache => colorCache[0] = "white"
  /\ \A id \in DOMAIN colorCache \cap DOMAIN materials : colorCache[id] = materials[id]

BoundFollows ==
  /\ DOMAIN bound \subseteq DOMAIN meshCache
  /\ engine = "Unreal" =>
       /\ DOMAIN bound = DOMAIN meshCache
       /\ \A id \in DOMAIN bound \cap DOMAIN meshes : \A t, l, m :
            meshes[id] = <<t, l, m>> => bound[id] = ColorOf(t, MaterialIndex[t][l][m])

ViewerHasNoEmpty ==
  engine = "Viewer" => \A id \in DOMAIN meshes : meshes[id] \notin EmptyMeshes

PictureInv == CachesFollow /\ BoundFollows /\ ViewerHasNoEmpty

\* There is no world, or there is one and it is as WorldInv says.
WorldOwned ==
  IF engine = "none"
    THEN /\ rendered
         /\ DOMAIN handles = {}
         /\ DOMAIN meshCache = {} /\ DOMAIN colorCache = {} /\ DOMAIN bound = {}
    ELSE WorldInv /\ useError /\ HandlesMatch

TicksAlternate == rendered => phase = "idle"

BridgeInv ==
  RendererInv /\ PictureInv /\ WorldOwned /\ TicksAlternate
-----------------------------------------------------------------------------
LEMMA IdsOfHandles ==
  ASSUME OwnersKnown, NEW t \in DOMAIN handles, NEW id
  PROVE  /\ id \in MeshIds(handles[t]) <=> IsMeshId(t, id)
         /\ id \in MaterialIds(handles[t]) <=> IsMaterialId(t, id)
<1>1. handles[t] \in Handles(t)
  BY DEF OwnersKnown
<1>2. PICK h : h = handles[t]
  OBVIOUS
<1>3. DOMAIN h.lodMeshes = Lods(t)
  BY <1>1, <1>2 DEF Handles
<1>4. id \in MeshIds(h) <=> \E l \in Lods(t) : id \in ToSet(h.lodMeshes[l])
  BY <1>3 DEF MeshIds
<1>5. id \in MeshIds(h) <=> IsMeshId(t, id)
  BY <1>2, <1>4 DEF ToSet, IsMeshId
<1>6. id \in MaterialIds(h) <=> IsMaterialId(t, id)
  BY <1>2 DEF MaterialIds, ToSet, IsMaterialId
<1> QED BY <1>2, <1>5, <1>6

\* An id has one owner, that from which it was made.
LEMMA OneOwner ==
  ASSUME OwnersKnown, NEW t \in DOMAIN handles, NEW u \in DOMAIN handles, NEW id,
         \/ IsMeshId(t, id) /\ IsMeshId(u, id)
         \/ IsMaterialId(t, id) /\ IsMaterialId(u, id)
  PROVE  t = u
<1>1. CASE IsMeshId(t, id) /\ IsMeshId(u, id)
  <2>1. PICK l \in Lods(t) : \E m \in DOMAIN handles[t].lodMeshes[l] :
               handles[t].lodMeshes[l][m] = id
    BY <1>1 DEF IsMeshId
  <2>2. PICK m : meshes[id] = <<t, l, m>>
    BY <2>1 DEF OwnersKnown, OwnsMeshes
  <2>3. PICK k \in Lods(u) : \E n \in DOMAIN handles[u].lodMeshes[k] :
               handles[u].lodMeshes[k][n] = id
    BY <1>1 DEF IsMeshId
  <2>4. PICK n : meshes[id] = <<u, k, n>>
    BY <2>3 DEF OwnersKnown, OwnsMeshes
  <2> QED BY <2>2, <2>4
<1>2. CASE IsMaterialId(t, id) /\ IsMaterialId(u, id)
  <2>1. PICK m : materials[id] = <<t, m>>
    BY <1>2 DEF OwnersKnown, OwnsMaterials, IsMaterialId
  <2>2. PICK n : materials[id] = <<u, n>>
    BY <1>2 DEF OwnersKnown, OwnsMaterials, IsMaterialId
  <2> QED BY <2>1, <2>2
<1> QED BY <1>1, <1>2

LEMMA OwnedMeansNoLeak ==
  ASSUME OwnersKnown, EveryIdOwned
  PROVE  NothingLeaks
<1>1. \A id : id \in DOMAIN meshes <=>
              \E t \in DOMAIN handles : id \in MeshIds(handles[t])
  <2>1. ASSUME NEW id \in DOMAIN meshes
        PROVE  \E t \in DOMAIN handles : id \in MeshIds(handles[t])
    BY IdsOfHandles DEF EveryIdOwned
  <2>2. ASSUME NEW id, NEW t \in DOMAIN handles, id \in MeshIds(handles[t])
        PROVE  id \in DOMAIN meshes
    <3>1. IsMeshId(t, id)
      BY <2>2, IdsOfHandles
    <3> QED BY <3>1 DEF IsMeshId, OwnersKnown, OwnsMeshes
  <2> QED BY <2>1, <2>2
<1>2. \A id : id \in DOMAIN materials <=>
              \E t \in DOMAIN handles : id \in MaterialIds(handles[t])
  <2>1. ASSUME NEW id \in DOMAIN materials
        PROVE  \E t \in DOMAIN handles : id \in MaterialIds(handles[t])
    BY IdsOfHandles DEF EveryIdOwned
  <2>2. ASSUME NEW id, NEW t \in DOMAIN handles, id \in MaterialIds(handles[t])
        PROVE  id \in DOMAIN materials
    <3>1. IsMaterialId(t, id)
      BY <2>2, IdsOfHandles
    <3> QED BY <3>1 DEF IsMaterialId, OwnersKnown, OwnsMaterials
  <2> QED BY <2>1, <2>2
<1>3. DOMAIN meshes = UNION {MeshIds(handles[t]) : t \in DOMAIN handles}
  BY <1>1
<1>4. DOMAIN materials = UNION {MaterialIds(handles[t]) : t \in DOMAIN handles}
  BY <1>2
<1> QED BY <1>3, <1>4 DEF NothingLeaks
-----------------------------------------------------------------------------
\* What is left of a map from which some arguments were taken.
Shrinks(f, g) == DOMAIN f \subseteq DOMAIN g /\ \A x \in DOMAIN f : f[x] = g[x]

\* The resources of TileGPUs that go take their ids along, and no others.
LEMMA ReleaseShape ==
  ASSUME OwnersKnown, EveryIdOwned, NEW gone \in SUBSET DOMAIN handles,
         Release(gone)
  PROVE  /\ OwnersKnown' /\ EveryIdOwned'
         /\ DOMAIN handles' = DOMAIN handles \ gone
         /\ Shrinks(handles', handles)
         /\ Shrinks(meshes', meshes) /\ Shrinks(materials', materials)
<1> DEFINE M == UNION {MeshIds(handles[t]) : t \in gone}
           N == UNION {MaterialIds(handles[t]) : t \in gone}
<1>1. /\ meshes' = Without(meshes, M)
      /\ materials' = Without(materials, N)
      /\ handles' = Without(handles, gone)
  BY DEF Release
<1>2. /\ \A id : id \in M <=> \E t \in gone : IsMeshId(t, id)
      /\ \A id : id \in N <=> \E t \in gone : IsMaterialId(t, id)
  BY IdsOfHandles
<1> HIDE DEF M, N
<1>3. /\ DOMAIN handles' = DOMAIN handles \ gone
      /\ \A t \in DOMAIN handles' : handles'[t] = handles[t]
  BY <1>1 DEF Without, Restrict
<1>4. /\ DOMAIN meshes' = DOMAIN meshes \ M
      /\ \A id \in DOMAIN meshes' : meshes'[id] = meshes[id]
  BY <1>1 DEF Without, Restrict
<1>5. /\ DOMAIN materials' = DOMAIN materials \ N
      /\ \A id \in DOMAIN materials' : materials'[id] = materials[id]
  BY <1>1 DEF Without, Restrict
<1>6. ASSUME NEW t \in DOMAIN handles'
      PROVE  /\ t \in Tiles /\ handles'[t] \in Handles(t)
             /\ OwnsMeshes(t)' /\ OwnsMaterials(t)'
  <2>1. t \in DOMAIN handles /\ t \notin gone /\ handles'[t] = handles[t]
    BY <1>3
  <2>2. t \in Tiles /\ handles[t] \in Handles(t) /\ OwnsMeshes(t) /\ OwnsMaterials(t)
    BY <2>1 DEF OwnersKnown
  <2>3. ASSUME NEW l \in Lods(t), NEW m \in DOMAIN handles[t].lodMeshes[l]
        PROVE  /\ handles[t].lodMeshes[l][m] \in DOMAIN meshes'
               /\ meshes'[handles[t].lodMeshes[l][m]] = <<t, l, m>>
    <3> PICK id : id = handles[t].lodMeshes[l][m]
      OBVIOUS
    <3>1. IsMeshId(t, id)
      BY DEF IsMeshId
    <3>2. id \notin M
      BY <1>2, <2>1, <3>1, OneOwner
    <3> QED BY <1>4, <2>2, <3>2 DEF OwnsMeshes
  <2>4. ASSUME NEW m \in DOMAIN handles[t].materials
        PROVE  /\ handles[t].materials[m] \in DOMAIN materials'
               /\ materials'[handles[t].materials[m]] = <<t, m>>
    <3> PICK id : id = handles[t].materials[m]
      OBVIOUS
    <3>1. IsMaterialId(t, id)
      BY DEF IsMaterialId
    <3>2. id \notin N
      BY <1>2, <2>1, <3>1, OneOwner
    <3> QED BY <1>5, <2>2, <3>2 DEF OwnsMaterials
  <2> QED BY <2>1, <2>2, <2>3, <2>4 DEF OwnsMeshes, OwnsMaterials
<1>7. OwnersKnown'
  BY <1>6 DEF OwnersKnown
<1>8. ASSUME NEW id \in DOMAIN meshes'
      PROVE  \E t \in DOMAIN handles' : IsMeshId(t, id)'
  <2>1. id \in DOMAIN meshes /\ id \notin M
    BY <1>4
  <2>2. PICK t \in DOMAIN handles : IsMeshId(t, id)
    BY <2>1 DEF EveryIdOwned
  <2>3. t \in DOMAIN handles' /\ handles'[t] = handles[t]
    BY <1>2, <1>3, <2>1, <2>2
  <2> QED BY <2>2, <2>3 DEF IsMeshId
<1>9. ASSUME NEW id \in DOMAIN materials'
      PROVE  \E t \in DOMAIN handles' : IsMaterialId(t, id)'
  <2>1. id \in DOMAIN materials /\ id \notin N
    BY <1>5
  <2>2. PICK t \in DOMAIN handles : IsMaterialId(t, id)
    BY <2>1 DEF EveryIdOwned
  <2>3. t \in DOMAIN handles' /\ handles'[t] = handles[t]
    BY <1>2, <1>3, <2>1, <2>2
  <2> QED BY <2>2, <2>3 DEF IsMaterialId
<1>10. EveryIdOwned'
  BY <1>8, <1>9 DEF EveryIdOwned
<1> QED BY <1>3, <1>4, <1>5, <1>7, <1>10 DEF Shrinks

\* Fewer resources keep the caches right.
LEMMA ShrinkingKeepsPicture ==
  ASSUME PictureInv, IdsGiven, Shrinks(meshes', meshes), Shrinks(materials', materials),
         UNCHANGED <<engine, nextId, nextMaterialId, componentVars>>
  PROVE  PictureInv' /\ IdsGiven'
<1>1. FreshId' = FreshId /\ FreshMaterialId' = FreshMaterialId
  BY DEF FreshId, FreshMaterialId
<1>2. IdsGiven'
  BY <1>1 DEF IdsGiven, Shrinks
<1>3. CachesFollow'
  BY <1>1 DEF PictureInv, CachesFollow, Shrinks, componentVars
<1>4. BoundFollows'
  BY DEF PictureInv, BoundFollows, Shrinks, componentVars, ColorOf
<1>5. ViewerHasNoEmpty'
  BY DEF PictureInv, ViewerHasNoEmpty, Shrinks
<1> QED BY <1>2, <1>3, <1>4, <1>5 DEF PictureInv
-----------------------------------------------------------------------------
\* A TileGPU gets its next mesh: the handle goes to the end of its LOD.
MeshHandled(t, l, k) ==
  /\ DOMAIN handles' = DOMAIN handles
  /\ \A v \in DOMAIN handles : v # t => handles'[v] = handles[v]
  /\ handles'[t] \in Handles(t)
  /\ handles'[t].materials = handles[t].materials
  /\ \A j \in Lods(t) : j # l => handles'[t].lodMeshes[j] = handles[t].lodMeshes[j]
  /\ DOMAIN handles[t].lodMeshes[l] = 1 .. k
  /\ Len(handles[t].lodMeshes[l]) = k
  /\ Len(handles'[t].lodMeshes[l]) = k + 1
  /\ DOMAIN handles'[t].lodMeshes[l] = 1 .. k + 1
  /\ \A i \in 1 .. k : handles'[t].lodMeshes[l][i] = handles[t].lodMeshes[l][i]
  /\ handles'[t].lodMeshes[l][k + 1] = FreshId

LEMMA UpToLength == ASSUME NEW k \in Nat PROVE Len(UpTo(k)) = k
BY DEF UpTo

LEMMA AppendShape ==
  ASSUME NEW T, NEW q \in Seq(T), NEW x \in T, NEW k \in Nat, Len(q) = k
  PROVE  /\ DOMAIN q = 1 .. k
         /\ Append(q, x) \in Seq(T) /\ Len(Append(q, x)) = k + 1
         /\ DOMAIN Append(q, x) = 1 .. k + 1
         /\ \A i \in 1 .. k : Append(q, x)[i] = q[i]
         /\ Append(q, x)[k + 1] = x
OBVIOUS

WithMeshes(h, l, r) == [h EXCEPT !.lodMeshes[l] = r]

AreWithMeshes(g, h, t, l, r) ==
  /\ g \in Handles(t) /\ g.materials = h.materials /\ g.lodMeshes[l] = r
  /\ \A j \in Lods(t) : j # l => g.lodMeshes[j] = h.lodMeshes[j]

LEMMA HandlesWithMeshes ==
  ASSUME NEW t \in Tiles, NEW h \in Handles(t), NEW l \in Lods(t), NEW r \in Seq(Nat)
  PROVE  AreWithMeshes(WithMeshes(h, l, r), h, t, l, r)
<1> PICK g : g = WithMeshes(h, l, r)
  OBVIOUS
<1>1. h.lodMeshes \in [Lods(t) -> Seq(Nat)] /\ h.materials \in Seq(Nat)
  BY DEF Handles
<1>2. PICK f : f = [h.lodMeshes EXCEPT ![l] = r]
  OBVIOUS
<1>3. g = [h EXCEPT !.lodMeshes = f]
  BY <1>2 DEF WithMeshes
<1>4. f \in [Lods(t) -> Seq(Nat)]
  BY <1>1, <1>2
<1>5. g = [lodMeshes |-> f, materials |-> h.materials]
  BY <1>3 DEF Handles
<1>6. f[l] = r /\ \A j \in Lods(t) : j # l => f[j] = h.lodMeshes[j]
  BY <1>1, <1>2
<1>7. g \in Handles(t)
  BY <1>1, <1>4, <1>5 DEF Handles
<1>8. g.materials = h.materials /\ g.lodMeshes = f
  BY <1>5
<1> QED BY <1>6, <1>7, <1>8 DEF AreWithMeshes

LEMMA CreateMeshShape ==
  ASSUME WorldInv, HandlesMatch, RendererInv, CreateMesh
  PROVE  \E t \in DOMAIN gpuTiles : \E l \in Lods(t), k \in Nat :
           MeshUploaded(t, l, k) /\ MeshHandled(t, l, k) /\ NextMesh = <<t, l, k + 1>>
<1>1. PICK t \in DOMAIN gpuTiles : \E l \in Lods(t), k \in Nat : MeshUploaded(t, l, k)
  BY UploadMeshShape DEF WorldInv, CreateMesh
<1>2. PICK l \in Lods(t), k \in Nat : MeshUploaded(t, l, k)
  BY <1>1
<1>3. NextMesh = <<t, l, k + 1>>
  <2>1. TileAt(gpuTiles[t].address) = t
    BY TileAtAddress DEF WorldInv, UploadInv
  <2>2. /\ Head(meshQueue).address = gpuTiles[t].address
        /\ Head(meshQueue).lod = l /\ Head(meshQueue).mesh = k + 1
    BY <1>2 DEF MeshUploaded
  <2> QED BY <2>1, <2>2 DEF NextMesh
<1>4. t \in DOMAIN handles /\ handles[t] \in Handles(t)
  BY DEF RendererInv, OwnersKnown, HandlesMatch
<1> PICK q : q = handles[t].lodMeshes[l]
  OBVIOUS
<1>5. q \in Seq(Nat)
  BY <1>4 DEF Handles
<1>6. Len(q) = k
  <2>1. gpuTiles[t].lodMeshes[l] = UpTo(k)
    BY <1>2 DEF MeshUploaded, HasMeshes
  <2> QED BY <2>1, UpToLength DEF HandlesMatch
<1>7. FreshId \in Nat
  BY DEF RendererInv, IdsGiven, FreshId
<1>8. /\ DOMAIN q = 1 .. k
      /\ Append(q, FreshId) \in Seq(Nat) /\ Len(Append(q, FreshId)) = k + 1
      /\ DOMAIN Append(q, FreshId) = 1 .. k + 1
      /\ \A i \in 1 .. k : Append(q, FreshId)[i] = q[i]
      /\ Append(q, FreshId)[k + 1] = FreshId
  BY <1>5, <1>6, <1>7, AppendShape
<1> PICK r : r = Append(q, FreshId)
  OBVIOUS
<1>9. handles' = [handles EXCEPT ![t] = [handles[t] EXCEPT !.lodMeshes[l] = r]]
  BY <1>3 DEF CreateMesh
<1>10. handles'[t] = [handles[t] EXCEPT !.lodMeshes[l] = r]
  BY <1>4, <1>9
<1>11. /\ handles'[t] \in Handles(t)
       /\ handles'[t].materials = handles[t].materials
       /\ handles'[t].lodMeshes[l] = r
       /\ \A j \in Lods(t) :
            j # l => handles'[t].lodMeshes[j] = handles[t].lodMeshes[j]
  <2>1. t \in Tiles /\ r \in Seq(Nat)
    BY <1>8 DEF RendererInv, OwnersKnown, HandlesMatch
  <2> PICK h, g : h = handles[t] /\ g = handles'[t]
    OBVIOUS
  <2>2. g = WithMeshes(h, l, r) /\ h \in Handles(t)
    BY <1>4, <1>10 DEF WithMeshes
  <2>3. AreWithMeshes(g, h, t, l, r)
    BY <2>1, <2>2, HandlesWithMeshes
  <2> QED BY <2>3 DEF AreWithMeshes
<1>12. MeshHandled(t, l, k)
  BY <1>8, <1>9, <1>11 DEF MeshHandled
<1> QED BY <1>2, <1>3, <1>12

LEMMA CreateMeshKeepsInv ==
  ASSUME WorldInv, HandlesMatch, RendererInv, PictureInv, CreateMesh
  PROVE  HandlesMatch' /\ RendererInv' /\ PictureInv'
<1>1. PICK t \in DOMAIN gpuTiles : \E l \in Lods(t), k \in Nat :
         MeshUploaded(t, l, k) /\ MeshHandled(t, l, k) /\ NextMesh = <<t, l, k + 1>>
  BY CreateMeshShape
<1>2. PICK l \in Lods(t), k \in Nat :
         MeshUploaded(t, l, k) /\ MeshHandled(t, l, k) /\ NextMesh = <<t, l, k + 1>>
  BY <1>1
<1>3. \A v \in DOMAIN handles : /\ v \in Tiles /\ handles[v] \in Handles(v)
                                /\ OwnsMeshes(v) /\ OwnsMaterials(v)
  BY DEF RendererInv, OwnersKnown
<1>4. t \in DOMAIN handles
  BY DEF HandlesMatch
<1>5. /\ nextId \in Nat \ {0} /\ nextMaterialId \in Nat \ {0}
      /\ nextId' = nextId + 1 /\ nextMaterialId' = nextMaterialId
      /\ FreshId = nextId
      /\ UNCHANGED <<engine, materials, componentVars>>
  BY DEF RendererInv, IdsGiven, CreateMesh, FreshId
<1>6. FreshId \notin DOMAIN meshes
  BY <1>5 DEF RendererInv, IdsGiven
<1>7. /\ DOMAIN meshes' = DOMAIN meshes \cup {FreshId}
      /\ meshes'[FreshId] = <<t, l, k + 1>>
      /\ \A id \in DOMAIN meshes : meshes'[id] = meshes[id]
  <2>1. meshes' = With(meshes, FreshId, <<t, l, k + 1>>)
    BY <1>2 DEF CreateMesh
  <2> QED BY <1>6, <2>1 DEF With
<1>8. ASSUME NEW v \in DOMAIN handles
      PROVE  OwnsMeshes(v)' /\ OwnsMaterials(v)'
  <2>1. OwnsMaterials(v)'
    BY <1>2, <1>3, <1>5 DEF OwnsMaterials, MeshHandled
  <2>2. ASSUME NEW j \in Lods(v), NEW m \in DOMAIN handles'[v].lodMeshes[j]
        PROVE  /\ handles'[v].lodMeshes[j][m] \in DOMAIN meshes'
               /\ meshes'[handles'[v].lodMeshes[j][m]] = <<v, j, m>>
    <3>1. CASE v = t /\ j = l /\ m = k + 1
      BY <1>2, <1>7, <3>1 DEF MeshHandled
    <3>2. CASE ~(v = t /\ j = l /\ m = k + 1)
      <4>1. /\ m \in DOMAIN handles[v].lodMeshes[j]
            /\ handles'[v].lodMeshes[j][m] = handles[v].lodMeshes[j][m]
        <5>1. CASE v # t
          BY <1>2, <5>1 DEF MeshHandled
        <5>2. CASE v = t /\ j # l
          BY <1>2, <5>2 DEF MeshHandled
        <5>3. CASE v = t /\ j = l
          <6>1. m \in 1 .. k + 1 /\ m # k + 1
            BY <1>2, <3>2, <5>3 DEF MeshHandled
          <6>2. m \in 1 .. k
            BY <6>1
          <6> QED BY <1>2, <5>3, <6>2 DEF MeshHandled
        <5> QED BY <5>1, <5>2, <5>3
      <4> QED BY <1>3, <1>7, <4>1 DEF OwnsMeshes
    <3> QED BY <3>1, <3>2
  <2> QED BY <2>1, <2>2 DEF OwnsMeshes
<1>9. OwnersKnown'
  <2>1. ASSUME NEW v \in DOMAIN handles PROVE handles'[v] \in Handles(v)
    BY <1>2, <1>3 DEF MeshHandled
  <2>2. DOMAIN handles' = DOMAIN handles
    BY <1>2 DEF MeshHandled
  <2> QED BY <1>3, <1>8, <2>1, <2>2 DEF OwnersKnown
<1>10. ASSUME NEW v \in DOMAIN handles, NEW id, IsMeshId(v, id)
       PROVE  IsMeshId(v, id)'
  <2>1. PICK j \in Lods(v) : \E m \in DOMAIN handles[v].lodMeshes[j] :
               handles[v].lodMeshes[j][m] = id
    BY <1>10 DEF IsMeshId
  <2>2. PICK m \in DOMAIN handles[v].lodMeshes[j] : handles[v].lodMeshes[j][m] = id
    BY <2>1
  <2>3. /\ m \in DOMAIN handles'[v].lodMeshes[j]
        /\ handles'[v].lodMeshes[j][m] = id
    <3>1. CASE v # t
      BY <1>2, <2>2, <3>1 DEF MeshHandled
    <3>2. CASE v = t /\ j # l
      BY <1>2, <2>2, <3>2 DEF MeshHandled
    <3>3. CASE v = t /\ j = l
      <4>1. m \in 1 .. k
        BY <1>2, <2>2, <3>3 DEF MeshHandled
      <4>2. m \in 1 .. k + 1
        BY <4>1
      <4> QED BY <1>2, <2>2, <3>3, <4>1, <4>2 DEF MeshHandled
    <3> QED BY <3>1, <3>2, <3>3
  <2> QED BY <2>3 DEF IsMeshId
<1> PICK new : new = FreshId
  OBVIOUS
<1>11. IsMeshId(t, new)'
  <2>1. k + 1 \in DOMAIN handles'[t].lodMeshes[l]
    BY <1>2 DEF MeshHandled
  <2>2. \E j \in Lods(t) : \E m \in DOMAIN handles'[t].lodMeshes[j] :
          handles'[t].lodMeshes[j][m] = new
    BY <1>2, <2>1 DEF MeshHandled
  <2> QED BY <2>2 DEF IsMeshId
<1>12. EveryIdOwned'
  <2>1. DOMAIN handles' = DOMAIN handles
    BY <1>2 DEF MeshHandled
  <2>2. ASSUME NEW id \in DOMAIN meshes'
        PROVE  \E v \in DOMAIN handles' : IsMeshId(v, id)'
    <3>1. CASE id = new
      BY <1>4, <1>11, <2>1, <3>1
    <3>2. CASE id \in DOMAIN meshes
      BY <1>10, <2>1, <3>2 DEF RendererInv, EveryIdOwned
    <3> QED BY <1>7, <3>1, <3>2
  <2>3. ASSUME NEW id \in DOMAIN materials'
        PROVE  \E v \in DOMAIN handles' : IsMaterialId(v, id)'
    <3>1. PICK v \in DOMAIN handles : IsMaterialId(v, id)
      BY <1>5, <2>3 DEF RendererInv, EveryIdOwned
    <3>2. handles'[v].materials = handles[v].materials
      BY <1>2 DEF MeshHandled
    <3> QED BY <2>1, <3>1, <3>2 DEF IsMaterialId
  <2> QED BY <2>2, <2>3 DEF EveryIdOwned
<1>13. FreshId' = FreshId + 1 /\ FreshMaterialId' \in {FreshMaterialId, FreshMaterialId + 1}
       /\ FreshId \in Nat \ {0} /\ FreshMaterialId \in Nat \ {0}
  BY <1>5 DEF FreshId, FreshMaterialId
<1>14. IdsGiven'
  <2>1. DOMAIN meshes' \subseteq 1 .. FreshId' - 1
    BY <1>7, <1>13 DEF RendererInv, IdsGiven
  <2>2. DOMAIN materials' \subseteq 1 .. FreshMaterialId' - 1
    BY <1>5, <1>13 DEF RendererInv, IdsGiven
  <2> QED BY <1>5, <2>1, <2>2 DEF IdsGiven
<1>15. HandlesMatch'
  <2>1. DOMAIN handles' = DOMAIN gpuTiles'
    BY <1>2 DEF HandlesMatch, MeshHandled, MeshUploaded
  <2>2. \A v \in DOMAIN gpuTiles : v # t => gpuTiles'[v] = gpuTiles[v]
    BY <1>2 DEF MeshUploaded
  <2>3. gpuTiles[t] \in TileGPU(t)
    BY DEF WorldInv, UploadInv, GPUTilesTyped
  <2>4. gpuTiles'[t] = [gpuTiles[t] EXCEPT !.lodMeshes[l] = UpTo(k + 1),
                          !.pendingUploads = gpuTiles[t].pendingUploads - 1]
    BY <1>2 DEF MeshUploaded
  <2>5. /\ gpuTiles'[t].materials = gpuTiles[t].materials
        /\ gpuTiles'[t].lodMeshes[l] = UpTo(k + 1)
        /\ \A j \in Lods(t) :
             j # l => gpuTiles'[t].lodMeshes[j] = gpuTiles[t].lodMeshes[j]
    BY <2>3, <2>4 DEF TileGPU
  <2>6. Len(UpTo(k + 1)) = k + 1
    BY UpToLength
  <2>7. ASSUME NEW v \in DOMAIN handles
        PROVE  /\ Len(handles'[v].materials) = Len(gpuTiles'[v].materials)
               /\ \A j \in Lods(v) :
                    Len(handles'[v].lodMeshes[j]) = Len(gpuTiles'[v].lodMeshes[j])
    <3>1. CASE v # t
      BY <1>2, <2>2, <3>1 DEF HandlesMatch, MeshHandled
    <3>2. CASE v = t
      BY <1>2, <2>5, <2>6, <3>2 DEF HandlesMatch, MeshHandled
    <3> QED BY <3>1, <3>2
  <2>8. DOMAIN handles' = DOMAIN handles
    BY <1>2 DEF MeshHandled
  <2> QED BY <2>1, <2>7, <2>8 DEF HandlesMatch
<1>16. PictureInv'
  <2>1. /\ DOMAIN meshCache \subseteq 1 .. FreshId - 1
        /\ DOMAIN colorCache \subseteq 0 .. FreshMaterialId - 1
    BY DEF PictureInv, CachesFollow
  <2>2. FreshId \notin DOMAIN meshCache
    BY <1>13, <2>1
  <2>3. /\ DOMAIN meshCache' \subseteq 1 .. FreshId' - 1
        /\ DOMAIN colorCache' \subseteq 0 .. FreshMaterialId' - 1
    BY <1>5, <1>13, <2>1 DEF componentVars
  <2>4. CachesFollow'
    BY <1>5, <1>7, <2>2, <2>3 DEF PictureInv, CachesFollow, componentVars
  <2>5. BoundFollows'
    <3>1. DOMAIN bound \cap DOMAIN meshes' = DOMAIN bound \cap DOMAIN meshes
      BY <1>7, <2>2 DEF PictureInv, BoundFollows
    <3>2. /\ bound' = bound /\ meshCache' = meshCache /\ engine' = engine
          /\ \A id \in DOMAIN bound \cap DOMAIN meshes' : meshes'[id] = meshes[id]
      BY <1>5, <1>7, <3>1 DEF componentVars
    <3> QED BY <3>1, <3>2 DEF PictureInv, BoundFollows
  <2>6. ViewerHasNoEmpty'
    BY <1>2, <1>5, <1>7 DEF PictureInv, ViewerHasNoEmpty, CreateMesh
  <2> QED BY <2>4, <2>5, <2>6 DEF PictureInv
<1> QED BY <1>9, <1>12, <1>14, <1>15, <1>16 DEF RendererInv
-----------------------------------------------------------------------------
\* The same for its next material.
MaterialHandled(t, k) ==
  /\ DOMAIN handles' = DOMAIN handles
  /\ \A v \in DOMAIN handles : v # t => handles'[v] = handles[v]
  /\ handles'[t] \in Handles(t)
  /\ handles'[t].lodMeshes = handles[t].lodMeshes
  /\ DOMAIN handles[t].materials = 1 .. k
  /\ Len(handles[t].materials) = k
  /\ Len(handles'[t].materials) = k + 1
  /\ DOMAIN handles'[t].materials = 1 .. k + 1
  /\ \A i \in 1 .. k : handles'[t].materials[i] = handles[t].materials[i]
  /\ handles'[t].materials[k + 1] = FreshMaterialId

LEMMA CreateMaterialShape ==
  ASSUME WorldInv, HandlesMatch, RendererInv, CreateMaterial
  PROVE  \E t \in DOMAIN gpuTiles : \E k \in Nat :
           /\ MaterialUploaded(t, k) /\ MaterialHandled(t, k)
           /\ materials' = With(materials, FreshMaterialId, <<t, k + 1>>)
<1>1. PICK t \in DOMAIN gpuTiles : \E k \in Nat : MaterialUploaded(t, k)
  BY UploadMaterialShape DEF WorldInv, CreateMaterial
<1>2. PICK k \in Nat : MaterialUploaded(t, k)
  BY <1>1
<1> PICK new : new = FreshMaterialId
  OBVIOUS
<1>3. /\ materials' = With(materials, new, <<t, k + 1>>)
      /\ handles' = [handles EXCEPT ![t].materials = Append(handles[t].materials, new)]
  <2>1. TileAt(gpuTiles[t].address) = t
    BY TileAtAddress DEF WorldInv, UploadInv
  <2>2. /\ Head(materialQueue).address = gpuTiles[t].address
        /\ Head(materialQueue).material = k + 1
    BY <1>2 DEF MaterialUploaded
  <2> QED BY <2>1, <2>2 DEF CreateMaterial
<1>4. t \in DOMAIN handles /\ handles[t] \in Handles(t)
  BY DEF RendererInv, OwnersKnown, HandlesMatch
<1> PICK q, h, g : q = handles[t].materials /\ h = handles[t] /\ g = handles'[t]
  OBVIOUS
<1>5. q \in Seq(Nat)
  BY <1>4 DEF Handles
<1>6. Len(q) = k
  <2>1. gpuTiles[t].materials = UpTo(k)
    BY <1>2 DEF MaterialUploaded, HasMaterials
  <2> QED BY <2>1, UpToLength DEF HandlesMatch
<1>7. new \in Nat
  BY DEF RendererInv, IdsGiven, FreshId, FreshMaterialId
<1>8. /\ DOMAIN q = 1 .. k
      /\ Append(q, new) \in Seq(Nat) /\ Len(Append(q, new)) = k + 1
      /\ DOMAIN Append(q, new) = 1 .. k + 1
      /\ \A i \in 1 .. k : Append(q, new)[i] = q[i]
      /\ Append(q, new)[k + 1] = new
  BY <1>5, <1>6, <1>7, AppendShape
<1> PICK r : r = Append(q, new)
  OBVIOUS
<1>9. g = [h EXCEPT !.materials = r]
  BY <1>3, <1>4
<1>10. g = [lodMeshes |-> h.lodMeshes, materials |-> r]
  BY <1>4, <1>9 DEF Handles
<1>11. g.lodMeshes = h.lodMeshes /\ g.materials = r
  BY <1>10
<1>12. g \in Handles(t)
  BY <1>4, <1>8, <1>10 DEF Handles
<1>13. /\ DOMAIN handles' = DOMAIN handles
       /\ \A v \in DOMAIN handles : v # t => handles'[v] = handles[v]
  BY <1>3
<1>14. MaterialHandled(t, k)
  BY <1>6, <1>8, <1>11, <1>12, <1>13 DEF MaterialHandled
<1> QED BY <1>2, <1>3, <1>14

LEMMA CreateMaterialKeepsInv ==
  ASSUME WorldInv, HandlesMatch, RendererInv, PictureInv, CreateMaterial
  PROVE  HandlesMatch' /\ RendererInv' /\ PictureInv'
<1> PICK new : new = FreshMaterialId
  OBVIOUS
<1>1. PICK t \in DOMAIN gpuTiles : \E k \in Nat :
           /\ MaterialUploaded(t, k) /\ MaterialHandled(t, k)
           /\ materials' = With(materials, new, <<t, k + 1>>)
  BY CreateMaterialShape
<1>2. PICK k \in Nat :
           /\ MaterialUploaded(t, k) /\ MaterialHandled(t, k)
           /\ materials' = With(materials, new, <<t, k + 1>>)
  BY <1>1
<1>3. \A v \in DOMAIN handles : /\ v \in Tiles /\ handles[v] \in Handles(v)
                                /\ OwnsMeshes(v) /\ OwnsMaterials(v)
  BY DEF RendererInv, OwnersKnown
<1>4. t \in DOMAIN handles /\ DOMAIN handles' = DOMAIN handles
  BY <1>2 DEF HandlesMatch, MaterialHandled
<1>5. /\ nextId \in Nat \ {0} /\ nextMaterialId \in Nat \ {0}
      /\ UNCHANGED <<engine, meshes, componentVars>>
      /\ nextId' \in Nat \ {0} /\ nextMaterialId' \in Nat \ {0}
      /\ FreshId' \in {FreshId, FreshId + 1} /\ FreshMaterialId' = FreshMaterialId + 1
      /\ FreshId \in Nat \ {0} /\ FreshMaterialId \in Nat \ {0}
  BY DEF RendererInv, IdsGiven, CreateMaterial, FreshId, FreshMaterialId
<1>6. new \notin DOMAIN materials
  BY <1>5 DEF RendererInv, IdsGiven
<1>7. /\ DOMAIN materials' = DOMAIN materials \cup {new}
      /\ materials'[new] = <<t, k + 1>>
      /\ \A id \in DOMAIN materials : materials'[id] = materials[id]
  BY <1>2, <1>6 DEF With
<1>8. \A v \in DOMAIN handles : handles'[v].lodMeshes = handles[v].lodMeshes
  BY <1>2 DEF MaterialHandled
<1>9. ASSUME NEW v \in DOMAIN handles
      PROVE  OwnsMeshes(v)' /\ OwnsMaterials(v)'
  <2>1. OwnsMeshes(v)'
    BY <1>3, <1>5, <1>8 DEF OwnsMeshes
  <2>2. ASSUME NEW m \in DOMAIN handles'[v].materials
        PROVE  /\ handles'[v].materials[m] \in DOMAIN materials'
               /\ materials'[handles'[v].materials[m]] = <<v, m>>
    <3>1. CASE v = t /\ m = k + 1
      BY <1>2, <1>7, <3>1 DEF MaterialHandled
    <3>2. CASE ~(v = t /\ m = k + 1)
      <4>1. /\ m \in DOMAIN handles[v].materials
            /\ handles'[v].materials[m] = handles[v].materials[m]
        <5>1. CASE v # t
          BY <1>2, <5>1 DEF MaterialHandled
        <5>2. CASE v = t
          <6>1. m \in 1 .. k + 1 /\ m # k + 1
            BY <1>2, <3>2, <5>2 DEF MaterialHandled
          <6>2. m \in 1 .. k
            BY <6>1
          <6> QED BY <1>2, <5>2, <6>2 DEF MaterialHandled
        <5> QED BY <5>1, <5>2
      <4> QED BY <1>3, <1>7, <4>1 DEF OwnsMaterials
    <3> QED BY <3>1, <3>2
  <2> QED BY <2>1, <2>2 DEF OwnsMaterials
<1>10. OwnersKnown'
  <2>1. ASSUME NEW v \in DOMAIN handles PROVE handles'[v] \in Handles(v)
    BY <1>2, <1>3 DEF MaterialHandled
  <2> QED BY <1>3, <1>4, <1>9, <2>1 DEF OwnersKnown
<1>11. ASSUME NEW v \in DOMAIN handles, NEW id, IsMaterialId(v, id)
       PROVE  IsMaterialId(v, id)'
  <2>1. PICK m \in DOMAIN handles[v].materials : handles[v].materials[m] = id
    BY <1>11 DEF IsMaterialId
  <2>2. /\ m \in DOMAIN handles'[v].materials
        /\ handles'[v].materials[m] = id
    <3>1. CASE v # t
      BY <1>2, <2>1, <3>1 DEF MaterialHandled
    <3>2. CASE v = t
      <4>1. m \in 1 .. k
        BY <1>2, <2>1, <3>2 DEF MaterialHandled
      <4>2. m \in 1 .. k + 1
        BY <4>1
      <4> QED BY <1>2, <2>1, <3>2, <4>1, <4>2 DEF MaterialHandled
    <3> QED BY <3>1, <3>2
  <2> QED BY <2>2 DEF IsMaterialId
<1>12. IsMaterialId(t, new)'
  <2>1. k + 1 \in DOMAIN handles'[t].materials
    BY <1>2 DEF MaterialHandled
  <2>2. \E m \in DOMAIN handles'[t].materials : handles'[t].materials[m] = new
    BY <1>2, <2>1 DEF MaterialHandled
  <2> QED BY <2>2 DEF IsMaterialId
<1>13. EveryIdOwned'
  <2>1. ASSUME NEW id \in DOMAIN materials'
        PROVE  \E v \in DOMAIN handles' : IsMaterialId(v, id)'
    <3>1. CASE id = new
      BY <1>4, <1>12, <3>1
    <3>2. CASE id \in DOMAIN materials
      BY <1>4, <1>11, <3>2 DEF RendererInv, EveryIdOwned
    <3> QED BY <1>7, <3>1, <3>2
  <2>2. ASSUME NEW id \in DOMAIN meshes'
        PROVE  \E v \in DOMAIN handles' : IsMeshId(v, id)'
    <3>1. PICK v \in DOMAIN handles : IsMeshId(v, id)
      BY <1>5, <2>2 DEF RendererInv, EveryIdOwned
    <3> QED BY <1>4, <1>8, <3>1 DEF IsMeshId
  <2> QED BY <2>1, <2>2 DEF EveryIdOwned
<1>14. IdsGiven'
  <2>1. DOMAIN materials' \subseteq 1 .. FreshMaterialId' - 1
    BY <1>5, <1>7 DEF RendererInv, IdsGiven
  <2>2. DOMAIN meshes' \subseteq 1 .. FreshId' - 1
    BY <1>5 DEF RendererInv, IdsGiven
  <2> QED BY <1>5, <2>1, <2>2 DEF IdsGiven
<1>15. HandlesMatch'
  <2>1. DOMAIN gpuTiles' = DOMAIN gpuTiles
    BY <1>2 DEF MaterialUploaded
  <2>2. \A v \in DOMAIN gpuTiles : v # t => gpuTiles'[v] = gpuTiles[v]
    BY <1>2 DEF MaterialUploaded
  <2>3. gpuTiles[t] \in TileGPU(t)
    BY DEF WorldInv, UploadInv, GPUTilesTyped
  <2>4. gpuTiles'[t] = [gpuTiles[t] EXCEPT !.materials = UpTo(k + 1),
                          !.pendingUploads = gpuTiles[t].pendingUploads - 1]
    BY <1>2 DEF MaterialUploaded
  <2>5. /\ gpuTiles'[t].materials = UpTo(k + 1)
        /\ gpuTiles'[t].lodMeshes = gpuTiles[t].lodMeshes
    BY <2>3, <2>4 DEF TileGPU
  <2>6. Len(UpTo(k + 1)) = k + 1
    BY UpToLength
  <2>7. ASSUME NEW v \in DOMAIN handles
        PROVE  /\ Len(handles'[v].materials) = Len(gpuTiles'[v].materials)
               /\ \A j \in Lods(v) :
                    Len(handles'[v].lodMeshes[j]) = Len(gpuTiles'[v].lodMeshes[j])
    <3>1. CASE v # t
      BY <1>2, <2>2, <3>1 DEF HandlesMatch, MaterialHandled
    <3>2. CASE v = t
      BY <1>2, <2>5, <2>6, <3>2 DEF HandlesMatch, MaterialHandled
    <3> QED BY <3>1, <3>2
  <2> QED BY <1>4, <2>1, <2>7 DEF HandlesMatch
<1>16. PictureInv'
  <2>1. /\ DOMAIN meshCache \subseteq 1 .. FreshId - 1
        /\ DOMAIN colorCache \subseteq 0 .. FreshMaterialId - 1
    BY DEF PictureInv, CachesFollow
  <2>2. new \notin DOMAIN colorCache
    BY <1>5, <2>1
  <2>3. /\ DOMAIN meshCache' \subseteq 1 .. FreshId' - 1
        /\ DOMAIN colorCache' \subseteq 0 .. FreshMaterialId' - 1
    BY <1>5, <2>1 DEF componentVars
  <2>4. CachesFollow'
    BY <1>5, <1>7, <2>2, <2>3 DEF PictureInv, CachesFollow, componentVars
  <2>5. BoundFollows'
    BY <1>5 DEF PictureInv, BoundFollows, componentVars
  <2>6. ViewerHasNoEmpty'
    BY <1>5 DEF PictureInv, ViewerHasNoEmpty
  <2> QED BY <2>4, <2>5, <2>6 DEF PictureInv
<1> QED BY <1>10, <1>13, <1>14, <1>15, <1>16 DEF RendererInv
-----------------------------------------------------------------------------
\* The TileGPUs before and after: those that stay have what they had.
GPUStays(t) ==
  /\ t \in DOMAIN gpuTiles
  /\ gpuTiles'[t].materials = gpuTiles[t].materials
  /\ gpuTiles'[t].lodMeshes = gpuTiles[t].lodMeshes

\* A new TileGPU has no resources yet.
NoHandles(t) == [lodMeshes |-> [l \in Lods(t) |-> <<>>], materials |-> <<>>]

GPUStarts(t) ==
  /\ t \notin DOMAIN gpuTiles /\ t \in Tiles
  /\ gpuTiles'[t].materials = <<>>
  /\ gpuTiles'[t].lodMeshes = [l \in Lods(t) |-> <<>>]

LEMMA VisitShape ==
  ASSUME WorldInv, NEW t \in Tiles, VisitResident(t)
  PROVE  /\ DOMAIN gpuTiles \subseteq DOMAIN gpuTiles'
         /\ \A u \in DOMAIN gpuTiles' : GPUStays(u) \/ GPUStarts(u)
<1>1. \A u \in DOMAIN gpuTiles : gpuTiles[u] \in TileGPU(u)
  BY DEF WorldInv, UploadInv, GPUTilesTyped
<1>2. CASE Revive(t)
  BY <1>1, <1>2 DEF Revive, GPUStays, TileGPU
<1>3. CASE EnqueueUploads(t)
  <2>1. /\ DOMAIN gpuTiles' = DOMAIN gpuTiles \cup {t} /\ t \notin DOMAIN gpuTiles
        /\ \A u \in DOMAIN gpuTiles : gpuTiles'[u] = gpuTiles[u]
        /\ gpuTiles'[t].materials = <<>>
        /\ gpuTiles'[t].lodMeshes = [l \in Lods(t) |-> <<>>]
    BY <1>3 DEF EnqueueUploads
  <2> QED BY <2>1 DEF GPUStays, GPUStarts
<1> QED BY <1>2, <1>3 DEF VisitResident

LEMMA NoHandlesType ==
  ASSUME NEW t \in Tiles
  PROVE  /\ NoHandles(t) \in Handles(t)
         /\ NoHandles(t).materials = <<>>
         /\ \A l \in Lods(t) : NoHandles(t).lodMeshes[l] = <<>>
BY DEF NoHandles, Handles

LEMMA VisitKeepsBridge ==
  ASSUME WorldInv, HandlesMatch, RendererInv, PictureInv, NEW t \in Tiles, Visit(t)
  PROVE  HandlesMatch' /\ RendererInv' /\ PictureInv'
<1>1. /\ DOMAIN gpuTiles \subseteq DOMAIN gpuTiles'
      /\ \A u \in DOMAIN gpuTiles' : GPUStays(u) \/ GPUStarts(u)
  BY VisitShape DEF Visit
<1>2. /\ UNCHANGED <<engine, rendererVars, componentVars>>
      /\ DOMAIN handles' = DOMAIN gpuTiles' /\ DOMAIN handles = DOMAIN gpuTiles
      /\ \A u \in DOMAIN handles : handles'[u] = handles[u]
      /\ \A u \in DOMAIN handles' : u \notin DOMAIN handles => handles'[u] = NoHandles(u)
  BY <1>1 DEF Visit, HandlesMatch, NoHandles
<1>3. UNCHANGED <<meshes, materials, nextId, nextMaterialId>>
      /\ UNCHANGED <<FreshId, FreshMaterialId>>
  BY <1>2 DEF rendererVars, FreshId, FreshMaterialId
<1>4. OwnersKnown'
  <2>1. ASSUME NEW u \in DOMAIN handles'
        PROVE  /\ u \in Tiles /\ handles'[u] \in Handles(u)
               /\ OwnsMeshes(u)' /\ OwnsMaterials(u)'
    <3>1. CASE u \in DOMAIN handles
      BY <1>2, <1>3, <3>1 DEF RendererInv, OwnersKnown, OwnsMeshes, OwnsMaterials
    <3>2. CASE u \notin DOMAIN handles
      <4>1. u \in Tiles /\ handles'[u] = NoHandles(u)
        BY <1>1, <1>2, <3>2 DEF GPUStays, GPUStarts
      <4> QED BY <4>1, NoHandlesType DEF OwnsMeshes, OwnsMaterials
    <3> QED BY <3>1, <3>2
  <2> QED BY <2>1 DEF OwnersKnown
<1>5. EveryIdOwned'
  <2>1. ASSUME NEW u \in DOMAIN handles
        PROVE  /\ u \in DOMAIN handles'
               /\ \A id : IsMeshId(u, id) => IsMeshId(u, id)'
               /\ \A id : IsMaterialId(u, id) => IsMaterialId(u, id)'
    BY <1>1, <1>2 DEF IsMeshId, IsMaterialId
  <2> QED BY <1>3, <2>1 DEF RendererInv, EveryIdOwned
<1>6. IdsGiven'
  BY <1>3 DEF RendererInv, IdsGiven
<1>7. HandlesMatch'
  <2>1. ASSUME NEW u \in DOMAIN gpuTiles'
        PROVE  /\ Len(handles'[u].materials) = Len(gpuTiles'[u].materials)
               /\ \A l \in Lods(u) :
                    Len(handles'[u].lodMeshes[l]) = Len(gpuTiles'[u].lodMeshes[l])
    <3>1. CASE GPUStays(u)
      BY <1>2, <3>1 DEF GPUStays, HandlesMatch
    <3>2. CASE GPUStarts(u)
      <4>1. u \in Tiles /\ handles'[u] = NoHandles(u)
        BY <1>2, <3>2 DEF GPUStarts
      <4> QED BY <3>2, <4>1, NoHandlesType DEF GPUStarts
    <3> QED BY <1>1, <3>1, <3>2
  <2> QED BY <1>2, <2>1 DEF HandlesMatch
<1>8. PictureInv'
  BY <1>2, <1>3 DEF PictureInv, CachesFollow, BoundFollows, ViewerHasNoEmpty,
                    componentVars
<1> QED BY <1>4, <1>5, <1>6, <1>7, <1>8 DEF RendererInv

LEMMA ReleaseTilesKeepsBridge ==
  ASSUME WorldInv, HandlesMatch, RendererInv, PictureInv, ReleaseTiles
  PROVE  HandlesMatch' /\ RendererInv' /\ PictureInv'
<1> DEFINE gone == DOMAIN gpuTiles \ DOMAIN gpuTiles'
<1>1. \A u \in DOMAIN gpuTiles : gpuTiles[u] \in TileGPU(u)
  BY DEF WorldInv, UploadInv, GPUTilesTyped
<1>2. \A u \in DOMAIN gpuTiles' : GPUStays(u)
  BY <1>1 DEF ReleaseTiles, ReleaseStale, GPUStays, TileGPU
<1>3. DOMAIN handles = DOMAIN gpuTiles /\ gone \in SUBSET DOMAIN handles
  BY DEF HandlesMatch
<1>4. DOMAIN gpuTiles' = DOMAIN handles \ gone
  BY <1>2, <1>3 DEF GPUStays
<1>5. Release(gone) /\ UNCHANGED <<engine, nextId, nextMaterialId, componentVars>>
  BY DEF ReleaseTiles
<1> HIDE DEF gone
<1>6. /\ OwnersKnown' /\ EveryIdOwned'
      /\ DOMAIN handles' = DOMAIN handles \ gone
      /\ Shrinks(handles', handles)
      /\ Shrinks(meshes', meshes) /\ Shrinks(materials', materials)
  BY <1>3, <1>5, ReleaseShape DEF RendererInv
<1>7. PictureInv' /\ IdsGiven'
  BY <1>5, <1>6, ShrinkingKeepsPicture DEF RendererInv
<1>8. HandlesMatch'
  BY <1>2, <1>4, <1>6 DEF HandlesMatch, Shrinks, GPUStays
<1> QED BY <1>6, <1>7, <1>8 DEF RendererInv

\* Steps that leave the resources and the caches alone.
LEMMA NothingMadeKeepsBridge ==
  ASSUME HandlesMatch, RendererInv, PictureInv,
         UNCHANGED <<gpuTiles, handles, engine, rendererVars, componentVars>>
  PROVE  HandlesMatch' /\ RendererInv' /\ PictureInv'
<1>1. /\ UNCHANGED <<meshes, materials, nextId, nextMaterialId>>
      /\ UNCHANGED <<FreshId, FreshMaterialId>>
  BY DEF rendererVars, FreshId, FreshMaterialId
<1>2. OwnersKnown'
  BY <1>1 DEF RendererInv, OwnersKnown, OwnsMeshes, OwnsMaterials
<1>3. EveryIdOwned'
  BY <1>1 DEF RendererInv, EveryIdOwned, IsMeshId, IsMaterialId
<1>4. IdsGiven'
  BY <1>1 DEF RendererInv, IdsGiven
<1>5. HandlesMatch'
  BY DEF HandlesMatch
<1>6. PictureInv'
  BY <1>1 DEF PictureInv, CachesFollow, BoundFollows, ViewerHasNoEmpty, componentVars
<1> QED BY <1>2, <1>3, <1>4, <1>5, <1>6 DEF RendererInv

\* Whoever goes takes everything along.
LEMMA ForgetKeepsBridge ==
  ASSUME RendererInv, Forget
  PROVE  /\ RendererInv' /\ PictureInv'
         /\ engine' = "none" /\ DOMAIN handles' = {}
         /\ DOMAIN meshCache' = {} /\ DOMAIN colorCache' = {} /\ DOMAIN bound' = {}
<1>1. /\ OwnersKnown' /\ EveryIdOwned' /\ DOMAIN handles' = {}
  <2>1. Release(DOMAIN handles)
    BY DEF Forget
  <2> PICK gone : gone = DOMAIN handles
    OBVIOUS
  <2>2. gone \in SUBSET DOMAIN handles /\ Release(gone)
    BY <2>1
  <2>3. OwnersKnown' /\ EveryIdOwned' /\ DOMAIN handles' = DOMAIN handles \ gone
    BY <2>2, ReleaseShape DEF RendererInv
  <2> QED BY <2>3
<1>2. DOMAIN meshes' = {} /\ DOMAIN materials' = {}
  BY <1>1 DEF EveryIdOwned
<1>3. /\ engine' = "none" /\ nextId' = nextId /\ nextMaterialId' = nextMaterialId
      /\ DOMAIN meshCache' = {} /\ DOMAIN colorCache' = {} /\ DOMAIN bound' = {}
  BY DEF Forget, Empty
<1>4. IdsGiven'
  BY <1>2, <1>3 DEF RendererInv, IdsGiven
<1>5. PictureInv'
  BY <1>2, <1>3 DEF PictureInv, CachesFollow, BoundFollows, ViewerHasNoEmpty
<1> QED BY <1>1, <1>3, <1>4, <1>5 DEF RendererInv

\* A new world is empty, and loads its dataset or does not.
LEMMA EmptyWorldInv ==
  ASSUME NEW e, NewWorld(e), loaded' \in BOOLEAN
  PROVE  WorldInv' /\ useError'
<1>1. /\ DOMAIN gpuTiles' = {} /\ meshQueue' = <<>> /\ materialQueue' = <<>>
      /\ resident' = {} /\ todo' = {} /\ phase' = "idle" /\ uploads' = 0
      /\ useError' = TRUE /\ DOMAIN currentLOD' = {}
      /\ currentLOD' \in [DOMAIN currentLOD' -> Nat]
  BY DEF NewWorld, Empty
<1>2. UploadInv'
  BY <1>1, NothingKeepsUploadInv
<1>3. TypeOK'
  <2>1. 0 \in 0 .. MaxGPUUploads
    BY WorldAssumption
  <2> QED BY <1>1, <2>1 DEF TypeOK
<1>4. OnlyResidentsMarked' /\ LODInRange'
  BY <1>1 DEF OnlyResidentsMarked, LODInRange
<1> QED BY <1>1, <1>2, <1>3, <1>4 DEF WorldInv

LEMMA NewWorldKeepsBridge ==
  ASSUME BridgeInv, NEW e, NewWorld(e), e # "none", loaded' \in BOOLEAN
  PROVE  BridgeInv'
<1>1. WorldInv' /\ useError'
  BY EmptyWorldInv
<1>2. /\ engine = "none" /\ engine' = e /\ rendered' = TRUE /\ phase' = "idle"
      /\ nextId' = 1 /\ nextMaterialId' = 1
      /\ DOMAIN meshes' = {} /\ DOMAIN materials' = {} /\ DOMAIN handles' = {}
      /\ DOMAIN gpuTiles' = {}
      /\ UNCHANGED componentVars
  BY DEF NewWorld, Empty
<1>3. DOMAIN meshCache' = {} /\ DOMAIN colorCache' = {} /\ DOMAIN bound' = {}
  BY <1>2 DEF BridgeInv, WorldOwned, componentVars
<1>4. RendererInv'
  <2>1. IdsGiven'
    BY <1>2 DEF IdsGiven
  <2> QED BY <1>2, <2>1 DEF RendererInv, OwnersKnown, EveryIdOwned
<1>5. PictureInv'
  BY <1>2, <1>3 DEF PictureInv, CachesFollow, BoundFollows, ViewerHasNoEmpty
<1>6. HandlesMatch'
  BY <1>2 DEF HandlesMatch
<1>7. WorldOwned' /\ TicksAlternate'
  BY <1>1, <1>2, <1>6 DEF WorldOwned, TicksAlternate
<1> QED BY <1>4, <1>5, <1>7 DEF BridgeInv
-----------------------------------------------------------------------------
(***************************************************************************)
(* A frame: each of its draw commands is for a mesh of the dataset, in its *)
(* own colour.                                                             *)
(***************************************************************************)
TrueColor(id) == IF id \in DOMAIN materials THEN materials[id] ELSE "white"

Command(t, l, m) ==
  [mesh |-> handles[t].lodMeshes[l][m], material |-> MaterialOf(t, MaterialIndex[t][l][m])]

CommandFor(c, t, l, m) ==
  /\ c.mesh \in DOMAIN meshes /\ meshes[c.mesh] = <<t, l, m>>
  /\ c.material \in DOMAIN materials \cup {0}
  /\ TrueColor(c.material) = ColorOf(t, MaterialIndex[t][l][m])

\* What is drawn has all of its handles.
LEMMA DrawnHasHandles ==
  ASSUME WorldInv, HandlesMatch, RendererInv, NEW t \in Drawn
  PROVE  /\ t \in Tiles /\ t \in DOMAIN handles /\ handles[t] \in Handles(t)
         /\ DOMAIN handles[t].materials = 1 .. Materials[t]
         /\ Len(handles[t].materials) = Materials[t]
         /\ \A l \in Lods(t) : DOMAIN handles[t].lodMeshes[l] = 1 .. Meshes[t][l]
<1>1. t \in DOMAIN gpuTiles
  BY DEF Drawn
<1>2. t \in Tiles /\ t \in DOMAIN handles /\ handles[t] \in Handles(t)
  BY <1>1 DEF HandlesMatch, RendererInv, OwnersKnown
<1>3. /\ gpuTiles[t].materials = UpTo(Materials[t])
      /\ \A l \in Lods(t) : gpuTiles[t].lodMeshes[l] = UpTo(Meshes[t][l])
  BY ReadyIsComplete
<1>4. Len(handles[t].materials) = Materials[t]
  BY <1>1, <1>2, <1>3, TileCounts, UpToLength DEF HandlesMatch
<1>5. ASSUME NEW l \in Lods(t) PROVE Len(handles[t].lodMeshes[l]) = Meshes[t][l]
  BY <1>1, <1>2, <1>3, TileCounts, UpToLength DEF HandlesMatch
<1>6. DOMAIN handles[t].materials = 1 .. Materials[t]
  BY <1>2, <1>4 DEF Handles
<1>7. ASSUME NEW l \in Lods(t)
      PROVE  DOMAIN handles[t].lodMeshes[l] = 1 .. Meshes[t][l]
  BY <1>2, <1>5 DEF Handles
<1> QED BY <1>2, <1>4, <1>6, <1>7

LEMMA CommandIsFor ==
  ASSUME WorldInv, HandlesMatch, RendererInv, NEW t \in Drawn, NEW l \in Lods(t),
         NEW m \in 1 .. Meshes[t][l]
  PROVE  CommandFor(Command(t, l, m), t, l, m)
<1> PICK c, i : c = Command(t, l, m) /\ i = MaterialIndex[t][l][m]
  OBVIOUS
<1>1. c.mesh = handles[t].lodMeshes[l][m] /\ c.material = MaterialOf(t, i)
  BY DEF Command
<1>2. OwnsMeshes(t) /\ OwnsMaterials(t)
  BY DrawnHasHandles DEF RendererInv, OwnersKnown
<1>3. c.mesh \in DOMAIN meshes /\ meshes[c.mesh] = <<t, l, m>>
  BY <1>1, <1>2, DrawnHasHandles DEF OwnsMeshes
<1>4. Materials[t] \in Nat
  BY DrawnHasHandles, TileCounts
<1>5. CASE i \in 0 .. Materials[t] - 1
  <2>1. c.material = handles[t].materials[i + 1]
    BY <1>1, <1>5, DrawnHasHandles DEF MaterialOf
  <2>2. i + 1 \in DOMAIN handles[t].materials
    BY <1>4, <1>5, DrawnHasHandles
  <2>3. c.material \in DOMAIN materials /\ materials[c.material] = <<t, i + 1>>
    BY <1>2, <2>1, <2>2 DEF OwnsMaterials
  <2> QED BY <1>3, <1>5, <2>3 DEF CommandFor, TrueColor, ColorOf
<1>6. CASE i \notin 0 .. Materials[t] - 1
  <2>1. c.material = 0
    BY <1>1, <1>6, DrawnHasHandles DEF MaterialOf
  <2>2. 0 \notin DOMAIN materials
    <3>1. FreshMaterialId \in Nat
      BY DEF RendererInv, IdsGiven, FreshMaterialId, FreshId
    <3> QED BY <3>1 DEF RendererInv, IdsGiven
  <2> QED BY <1>3, <1>6, <2>1, <2>2 DEF CommandFor, TrueColor, ColorOf
<1> QED BY <1>5, <1>6

\* The LOD selected is one that the tile has.
LEMMA SelectedLodExists ==
  ASSUME WorldInv, useError, NEW camera \in Cameras, Render(camera), NEW t \in Drawn
  PROVE  currentLOD'[t] + 1 \in Lods(t) /\ t \in resident /\ t \in Tiles
<1>1. t \in resident /\ t \in Tiles
  BY DrawnAreResident DEF DrawnIsResident, Render, Drawn, WorldInv, TypeOK
<1>2. LODInRange' /\ t \in DOMAIN currentLOD' /\ useError'
  BY <1>1, RenderKeepsLODs DEF Render, SelectLODs
<1>3. currentLOD'[t] \in 0 .. Len(Errors[t]) - 1
  BY <1>2 DEF LODInRange, ThresholdCount
<1>4. Len(Errors[t]) = Len(Meshes[t]) /\ Lods(t) = 1 .. Len(Meshes[t])
      /\ Len(Meshes[t]) \in Nat
  BY <1>1, WorldAssumption, TileCounts
<1> QED BY <1>1, <1>3, <1>4

LEMMA CommandsOfFrame ==
  ASSUME WorldInv, HandlesMatch, RendererInv, useError,
         NEW camera \in Cameras, Render(camera), NEW c
  PROVE  c \in DrawCommands(currentLOD') <=>
           \E t \in Drawn : \E m \in 1 .. Meshes[t][currentLOD'[t] + 1] :
             c = Command(t, currentLOD'[t] + 1, m)
<1>1. Drawn \cap resident = Drawn
  BY SelectedLodExists
<1>2. ASSUME NEW t \in Drawn
      PROVE  Min({currentLOD'[t] + 1, Len(Meshes[t])}) = currentLOD'[t] + 1
  <2> PICK l, n : l = currentLOD'[t] + 1 /\ n = Len(Meshes[t])
    OBVIOUS
  <2>1. l \in 1 .. n /\ n \in Nat
    BY SelectedLodExists, TileCounts
  <2>2. {l, n} \subseteq Nat /\ {l, n} # {}
    BY <2>1
  <2>3. Min({l, n}) \in {l, n} /\ \A k \in {l, n} : Min({l, n}) <= k
    BY <2>2, MinIsSmallest
  <2>4. Min({l, n}) = l
    BY <2>1, <2>3
  <2> QED BY <2>4
<1>3. ASSUME NEW t \in Drawn, NEW l \in Lods(t)
      PROVE  c \in CommandsOf(t, l) <=> \E m \in 1 .. Meshes[t][l] : c = Command(t, l, m)
  BY DrawnHasHandles DEF CommandsOf, Command
<1>4. c \in DrawCommands(currentLOD') <=>
        \E t \in Drawn : c \in CommandsOf(t, Min({currentLOD'[t] + 1, Len(Meshes[t])}))
  BY <1>1 DEF DrawCommands
<1>5. ASSUME NEW t \in Drawn
      PROVE  c \in CommandsOf(t, Min({currentLOD'[t] + 1, Len(Meshes[t])})) <=>
               \E m \in 1 .. Meshes[t][currentLOD'[t] + 1] :
                 c = Command(t, currentLOD'[t] + 1, m)
  BY <1>2, <1>3, SelectedLodExists
<1> QED BY <1>4, <1>5

\* Each command of a frame is for a mesh of the dataset.
CommandsKnown(commands) ==
  \A c \in commands : \E t, l, m : CommandFor(c, t, l, m)

\* Two commands for one mesh are the same.
MeshesApart(commands) ==
  \A c, d \in commands : c.mesh = d.mesh => c = d

LEMMA FrameCommandsKnown ==
  ASSUME WorldInv, HandlesMatch, RendererInv, useError,
         NEW camera \in Cameras, Render(camera)
  PROVE  CommandsKnown(DrawCommands(currentLOD')) /\ MeshesApart(DrawCommands(currentLOD'))
<1>1. ASSUME NEW c \in DrawCommands(currentLOD')
      PROVE  \E t, l, m : CommandFor(c, t, l, m) /\ c = Command(t, l, m)
  <2>1. PICK t \in Drawn : \E m \in 1 .. Meshes[t][currentLOD'[t] + 1] :
               c = Command(t, currentLOD'[t] + 1, m)
    BY CommandsOfFrame
  <2>2. PICK m \in 1 .. Meshes[t][currentLOD'[t] + 1] :
               c = Command(t, currentLOD'[t] + 1, m)
    BY <2>1
  <2>3. PICK l : l = currentLOD'[t] + 1
    OBVIOUS
  <2>4. l \in Lods(t)
    BY <2>3, SelectedLodExists
  <2>5. CommandFor(c, t, l, m)
    BY <2>2, <2>3, <2>4, CommandIsFor
  <2> QED BY <2>2, <2>3, <2>5
<1>2. ASSUME NEW c \in DrawCommands(currentLOD'), NEW d \in DrawCommands(currentLOD'),
             c.mesh = d.mesh
      PROVE  c = d
  <2>1. PICK t, l, m : CommandFor(c, t, l, m) /\ c = Command(t, l, m)
    BY <1>1
  <2>2. PICK u, k, n : CommandFor(d, u, k, n) /\ d = Command(u, k, n)
    BY <1>1
  <2>3. <<t, l, m>> = <<u, k, n>>
    BY <1>2, <2>1, <2>2 DEF CommandFor
  <2>4. t = u /\ l = k /\ m = n
    BY <2>3
  <2> QED BY <2>1, <2>2, <2>4
<1> QED BY <1>1, <1>2 DEF CommandsKnown, MeshesApart

\* A component can build the mesh of a command unless it is empty.
LEMMA BuildableUnlessEmpty ==
  ASSUME CachesFollow, NEW c, NEW t, NEW l, NEW m, CommandFor(c, t, l, m)
  PROVE  Buildable(c) <=> <<t, l, m>> \notin EmptyMeshes
BY DEF CachesFollow, CommandFor, Buildable

\* What a command should put into the picture.
InPicture(c) == [mesh |-> meshes[c.mesh], color |-> TrueColor(c.material)]

LEMMA PictureOfCommands ==
  ASSUME WorldInv, HandlesMatch, RendererInv, useError, CachesFollow,
         NEW camera \in Cameras, Render(camera)
  PROVE  {InPicture(c) : c \in Built(DrawCommands(currentLOD'))} =
           UNION {PictureOf(t, currentLOD'[t] + 1) : t \in Drawn}
<1> DEFINE Part(t, l, m) ==
      [mesh |-> <<t, l, m>>, color |-> ColorOf(t, MaterialIndex[t][l][m])]
<1>1. ASSUME NEW t \in Drawn, NEW l \in Lods(t), NEW m \in 1 .. Meshes[t][l]
      PROVE  /\ InPicture(Command(t, l, m)) = Part(t, l, m)
             /\ Buildable(Command(t, l, m)) <=> <<t, l, m>> \notin EmptyMeshes
  <2> PICK c : c = Command(t, l, m)
    OBVIOUS
  <2>1. CommandFor(c, t, l, m)
    BY CommandIsFor
  <2>2. Buildable(c) <=> <<t, l, m>> \notin EmptyMeshes
    BY <2>1, BuildableUnlessEmpty
  <2> QED BY <2>1, <2>2 DEF CommandFor, InPicture
<1>2. ASSUME NEW p
      PROVE  p \in {InPicture(c) : c \in Built(DrawCommands(currentLOD'))} <=>
               \E t \in Drawn : \E m \in 1 .. Meshes[t][currentLOD'[t] + 1] :
                 /\ <<t, currentLOD'[t] + 1, m>> \notin EmptyMeshes
                 /\ p = Part(t, currentLOD'[t] + 1, m)
  <2>1. ASSUME NEW c \in DrawCommands(currentLOD'), Buildable(c), p = InPicture(c)
        PROVE  \E t \in Drawn : \E m \in 1 .. Meshes[t][currentLOD'[t] + 1] :
                 /\ <<t, currentLOD'[t] + 1, m>> \notin EmptyMeshes
                 /\ p = Part(t, currentLOD'[t] + 1, m)
    <3>1. PICK t \in Drawn : \E m \in 1 .. Meshes[t][currentLOD'[t] + 1] :
                 c = Command(t, currentLOD'[t] + 1, m)
      BY CommandsOfFrame
    <3>2. PICK m \in 1 .. Meshes[t][currentLOD'[t] + 1] :
                 c = Command(t, currentLOD'[t] + 1, m)
      BY <3>1
    <3>3. currentLOD'[t] + 1 \in Lods(t)
      BY SelectedLodExists
    <3> HIDE DEF Part
    <3>4. /\ <<t, currentLOD'[t] + 1, m>> \notin EmptyMeshes
          /\ p = Part(t, currentLOD'[t] + 1, m)
      BY <1>1, <2>1, <3>2, <3>3
    <3> QED BY <3>4
  <2>2. ASSUME NEW t \in Drawn, NEW m \in 1 .. Meshes[t][currentLOD'[t] + 1],
               <<t, currentLOD'[t] + 1, m>> \notin EmptyMeshes,
               p = Part(t, currentLOD'[t] + 1, m)
        PROVE  \E c \in DrawCommands(currentLOD') : Buildable(c) /\ p = InPicture(c)
    <3> PICK c : c = Command(t, currentLOD'[t] + 1, m)
      OBVIOUS
    <3>1. currentLOD'[t] + 1 \in Lods(t)
      BY SelectedLodExists
    <3> HIDE DEF Part
    <3>2. Buildable(c) /\ p = InPicture(c)
      BY <1>1, <2>2, <3>1
    <3>3. c \in DrawCommands(currentLOD')
      BY CommandsOfFrame
    <3> QED BY <3>2, <3>3
  <2> HIDE DEF Part
  <2> QED BY <2>1, <2>2 DEF Built
<1>3. ASSUME NEW p
      PROVE  p \in UNION {PictureOf(t, currentLOD'[t] + 1) : t \in Drawn} <=>
               \E t \in Drawn : \E m \in 1 .. Meshes[t][currentLOD'[t] + 1] :
                 /\ <<t, currentLOD'[t] + 1, m>> \notin EmptyMeshes
                 /\ p = Part(t, currentLOD'[t] + 1, m)
  <2>1. ASSUME NEW t, NEW l
        PROVE  p \in PictureOf(t, l) <=>
                 \E m \in 1 .. Meshes[t][l] :
                   <<t, l, m>> \notin EmptyMeshes /\ p = Part(t, l, m)
    BY DEF PictureOf
  <2> HIDE DEF Part
  <2> QED BY <2>1
<1> HIDE DEF Part
<1> QED BY <1>2, <1>3

LEMMA CommandIds ==
  ASSUME RendererInv, CachesFollow, NEW commands, CommandsKnown(commands),
         NEW c \in commands
  PROVE  /\ c.mesh \in DOMAIN meshes /\ c.material \in DOMAIN materials \cup {0}
         /\ Color(c.material) = TrueColor(c.material)
<1>1. c.mesh \in DOMAIN meshes /\ c.material \in DOMAIN materials \cup {0}
  BY DEF CommandsKnown, CommandFor
<1>2. 0 \notin DOMAIN materials
  <2>1. FreshMaterialId \in Nat
    BY DEF RendererInv, IdsGiven, FreshMaterialId, FreshId
  <2> QED BY <2>1 DEF RendererInv, IdsGiven
<1> QED BY <1>1, <1>2 DEF CachesFollow, Color, TrueColor

\* The mesh a component has after CacheMeshes() is that of the renderer.
LEMMA MeshesCached ==
  ASSUME RendererInv, CachesFollow, NEW commands, CommandsKnown(commands),
         CacheMeshes(commands), NEW c \in Built(commands)
  PROVE  c.mesh \in DOMAIN meshCache' /\ meshCache'[c.mesh] = meshes[c.mesh]
<1>1. c \in commands /\ Buildable(c)
  BY DEF Built
<1>2. DOMAIN meshCache' = DOMAIN meshCache \cup {d.mesh : d \in New(commands)}
      /\ \A id \in DOMAIN meshCache' :
           meshCache'[id] = IF id \in DOMAIN meshCache THEN meshCache[id] ELSE meshes[id]
  BY DEF CacheMeshes
<1>3. CASE c.mesh \in DOMAIN meshCache
  <2>1. meshCache'[c.mesh] = meshCache[c.mesh] /\ c.mesh \in DOMAIN meshCache'
    BY <1>2, <1>3
  <2>2. c.mesh \in DOMAIN meshes
    BY <1>1, CommandIds
  <2> QED BY <1>3, <2>1, <2>2 DEF CachesFollow
<1>4. CASE c.mesh \notin DOMAIN meshCache
  BY <1>2, <1>4 DEF New
<1> QED BY <1>3, <1>4

LEMMA ColorsCached ==
  ASSUME RendererInv, CachesFollow, NEW all, CommandsKnown(all),
         NEW commands \in SUBSET all, CacheColors(commands), NEW c \in commands
  PROVE  c.material \in DOMAIN colorCache' /\ colorCache'[c.material] = TrueColor(c.material)
<1>1. c.material \in DOMAIN colorCache' /\ colorCache'[c.material] = Color(c.material)
  BY DEF CacheColors
<1>2. Color(c.material) = TrueColor(c.material)
  BY CommandIds
<1> QED BY <1>1, <1>2

\* Filling the caches for a frame keeps them right.
LEMMA CachingKeepsFollow ==
  ASSUME RendererInv, CachesFollow, NEW all, CommandsKnown(all),
         CacheMeshes(all), NEW commands \in SUBSET all, CacheColors(commands),
         UNCHANGED <<engine, rendererVars>>
  PROVE  CachesFollow'
<1>1. /\ UNCHANGED <<meshes, materials, nextId, nextMaterialId>>
      /\ UNCHANGED <<FreshId, FreshMaterialId>>
  BY DEF rendererVars, FreshId, FreshMaterialId
<1>2. /\ DOMAIN meshes \subseteq 1 .. FreshId - 1
      /\ DOMAIN materials \subseteq 1 .. FreshMaterialId - 1
      /\ FreshId \in Nat \ {0} /\ FreshMaterialId \in Nat \ {0}
  BY DEF RendererInv, IdsGiven, FreshId, FreshMaterialId
<1>3. \A c \in all : /\ c.mesh \in DOMAIN meshes
                     /\ c.material \in DOMAIN materials \cup {0}
                     /\ Color(c.material) = TrueColor(c.material)
  BY CommandIds
<1>4. /\ DOMAIN meshCache' = DOMAIN meshCache \cup {d.mesh : d \in New(all)}
      /\ \A id \in DOMAIN meshCache' :
           meshCache'[id] = IF id \in DOMAIN meshCache THEN meshCache[id] ELSE meshes[id]
  BY DEF CacheMeshes
<1>5. /\ DOMAIN colorCache' = DOMAIN colorCache \cup {d.material : d \in commands}
      /\ \A id \in DOMAIN colorCache' : colorCache'[id] = Color(id)
  BY DEF CacheColors
<1>6. DOMAIN meshCache' \subseteq 1 .. FreshId - 1
  <2>1. \A d \in New(all) : d.mesh \in DOMAIN meshes
    BY <1>3 DEF New, Built
  <2> QED BY <1>2, <1>4, <2>1 DEF CachesFollow
<1>7. DOMAIN colorCache' \subseteq 0 .. FreshMaterialId - 1
  <2>1. \A d \in commands : d.material \in 0 .. FreshMaterialId - 1
    BY <1>2, <1>3
  <2> QED BY <1>5, <2>1 DEF CachesFollow
<1>8. ASSUME NEW id \in DOMAIN meshCache' \cap DOMAIN meshes
      PROVE  meshCache'[id] = meshes[id] /\ meshes[id] \notin EmptyMeshes
  <2>1. CASE id \in DOMAIN meshCache
    BY <1>4, <2>1 DEF CachesFollow
  <2>2. CASE id \notin DOMAIN meshCache
    <3>1. PICK d \in New(all) : d.mesh = id
      BY <1>4, <2>2
    <3>2. meshes[id] \notin EmptyMeshes
      BY <2>2, <3>1 DEF New, Built, Buildable
    <3> QED BY <1>4, <2>2, <3>2
  <2> QED BY <2>1, <2>2
<1>9. ASSUME NEW id \in DOMAIN colorCache' \cap DOMAIN materials
      PROVE  colorCache'[id] = materials[id]
  BY <1>5 DEF Color, CachesFollow
<1>10. 0 \in DOMAIN colorCache' => colorCache'[0] = "white"
  <2>1. 0 \notin DOMAIN materials
    BY <1>2
  <2> QED BY <1>5, <2>1 DEF Color, CachesFollow
<1> QED BY <1>1, <1>6, <1>7, <1>8, <1>9, <1>10 DEF CachesFollow

LEMMA UnityShows ==
  ASSUME RendererInv, PictureInv, NEW commands, CommandsKnown(commands),
         UnityDraw(commands), UNCHANGED <<engine, rendererVars>>
  PROVE  shown' = {InPicture(c) : c \in Built(commands)} /\ PictureInv'
<1>1. /\ engine = "Unity" /\ CacheMeshes(commands) /\ CacheColors(Built(commands))
      /\ bound' = bound /\ Built(commands) \in SUBSET commands
  BY DEF UnityDraw, Built
<1>2. CachesFollow
  BY DEF PictureInv
<1>3. \A c \in Built(commands) :
        meshCache'[c.mesh] = meshes[c.mesh]
        /\ colorCache'[c.material] = TrueColor(c.material)
  BY <1>1, <1>2, MeshesCached, ColorsCached
<1>4. shown' = {InPicture(c) : c \in Built(commands)}
  BY <1>3 DEF UnityDraw, InPicture
<1>5. CachesFollow'
  <2> PICK some : some = Built(commands)
    OBVIOUS
  <2>1. some \in SUBSET commands /\ CacheColors(some)
    BY <1>1
  <2> QED BY <1>1, <1>2, <2>1, CachingKeepsFollow
<1>6. BoundFollows'
  <2>1. DOMAIN meshCache \subseteq DOMAIN meshCache'
    BY <1>1 DEF CacheMeshes
  <2> QED BY <1>1, <2>1 DEF PictureInv, BoundFollows
<1>7. ViewerHasNoEmpty'
  BY DEF PictureInv, ViewerHasNoEmpty, rendererVars
<1> QED BY <1>4, <1>5, <1>6, <1>7 DEF PictureInv

LEMMA UnrealShows ==
  ASSUME RendererInv, PictureInv, NEW commands, CommandsKnown(commands),
         MeshesApart(commands),
         UnrealDraw(commands), UNCHANGED <<engine, rendererVars>>
  PROVE  shown' = {InPicture(c) : c \in Built(commands)} /\ PictureInv'
<1>1. /\ engine = "Unreal" /\ CacheMeshes(commands) /\ CacheColors(New(commands))
      /\ New(commands) \in SUBSET Built(commands)
      /\ Built(commands) \in SUBSET commands
      /\ New(commands) \in SUBSET commands
  BY DEF UnrealDraw, Built, New
<1>2. CachesFollow /\ BoundFollows
  BY DEF PictureInv
<1>3. DOMAIN bound = DOMAIN meshCache
  BY <1>1, <1>2 DEF BoundFollows
<1>4. /\ DOMAIN bound' = DOMAIN bound \cup {d.mesh : d \in New(commands)}
      /\ \A id \in DOMAIN bound' : bound'[id] =
           IF id \in DOMAIN bound THEN bound[id]
           ELSE colorCache'[(CHOOSE d \in commands : d.mesh = id).material]
  BY DEF UnrealDraw
<1>5. ASSUME NEW c \in New(commands)
      PROVE  bound'[c.mesh] = TrueColor(c.material)
  <2>1. c \in commands /\ c.mesh \notin DOMAIN bound /\ c.mesh \in DOMAIN bound'
    BY <1>1, <1>3, <1>4 DEF New
  <2>2. (CHOOSE d \in commands : d.mesh = c.mesh) = c
    BY <2>1 DEF MeshesApart
  <2>3. bound'[c.mesh] = colorCache'[c.material]
    BY <1>4, <2>1, <2>2
  <2>4. colorCache'[c.material] = TrueColor(c.material)
    <3> PICK some : some = New(commands)
      OBVIOUS
    <3>1. some \in SUBSET commands /\ CacheColors(some) /\ c \in some
      BY <1>1
    <3> QED BY <1>2, <3>1, ColorsCached
  <2> QED BY <2>3, <2>4
<1>6. ASSUME NEW c \in Built(commands)
      PROVE  bound'[c.mesh] = TrueColor(c.material)
  <2>1. CASE c \in New(commands)
    BY <1>5, <2>1
  <2>2. CASE c \notin New(commands)
    <3>1. c.mesh \in DOMAIN bound /\ c.mesh \in DOMAIN bound'
      BY <1>3, <1>4, <2>2 DEF New
    <3>2. bound'[c.mesh] = bound[c.mesh]
      BY <1>4, <3>1
    <3>3. PICK t, l, m : CommandFor(c, t, l, m)
      BY <1>1 DEF CommandsKnown
    <3>4. bound[c.mesh] = ColorOf(t, MaterialIndex[t][l][m])
      BY <1>1, <1>2, <3>1, <3>3 DEF BoundFollows, CommandFor
    <3> QED BY <3>2, <3>3, <3>4 DEF CommandFor
  <2> QED BY <2>1, <2>2
<1>7. \A c \in Built(commands) : meshCache'[c.mesh] = meshes[c.mesh]
  BY <1>1, <1>2, MeshesCached
<1>8. shown' = {InPicture(c) : c \in Built(commands)}
  BY <1>6, <1>7 DEF UnrealDraw, InPicture
<1>9. CachesFollow'
  <2> PICK some : some = New(commands)
    OBVIOUS
  <2>1. some \in SUBSET commands /\ CacheColors(some)
    BY <1>1
  <2> QED BY <1>1, <1>2, <2>1, CachingKeepsFollow
<1>10. DOMAIN bound' = DOMAIN meshCache'
  BY <1>1, <1>3, <1>4 DEF CacheMeshes
<1>11. ASSUME NEW id \in DOMAIN bound' \cap DOMAIN meshes, NEW t, NEW l, NEW m,
              meshes[id] = <<t, l, m>>
       PROVE  bound'[id] = ColorOf(t, MaterialIndex[t][l][m])
  <2>1. CASE id \in DOMAIN bound
    BY <1>1, <1>2, <1>4, <1>11, <2>1 DEF BoundFollows
  <2>2. CASE id \notin DOMAIN bound
    <3>1. PICK c \in New(commands) : c.mesh = id
      BY <1>4, <2>2
    <3>2. PICK u, k, n : CommandFor(c, u, k, n)
      BY <1>1 DEF CommandsKnown
    <3>3. <<u, k, n>> = <<t, l, m>>
      BY <1>11, <3>1, <3>2 DEF CommandFor
    <3>4. u = t /\ k = l /\ n = m
      BY <3>3
    <3> QED BY <1>5, <3>1, <3>2, <3>4 DEF CommandFor
  <2> QED BY <2>1, <2>2
<1>12. BoundFollows'
  <2>1. meshes' = meshes
    BY DEF rendererVars
  <2> QED BY <1>10, <1>11, <2>1 DEF BoundFollows
<1>13. ViewerHasNoEmpty'
  BY DEF PictureInv, ViewerHasNoEmpty, rendererVars
<1> QED BY <1>8, <1>9, <1>12, <1>13 DEF PictureInv

LEMMA ViewerShows ==
  ASSUME RendererInv, PictureInv, NEW commands, CommandsKnown(commands),
         ViewerDraw(commands), UNCHANGED <<engine, rendererVars>>
  PROVE  shown' = {InPicture(c) : c \in Built(commands)} /\ PictureInv'
<1>1. \A c \in commands : c.mesh \in DOMAIN meshes
  BY CommandIds DEF PictureInv
<1>2. engine = "Viewer" /\ UNCHANGED <<meshCache, colorCache, bound>>
  BY DEF ViewerDraw
<1>3. Built(commands) = {d \in commands : d.mesh \in DOMAIN meshes}
  BY <1>1, <1>2 DEF Built, Buildable, PictureInv, ViewerHasNoEmpty
<1>4. shown' = {InPicture(c) : c \in Built(commands)}
  BY <1>3 DEF ViewerDraw, InPicture, TrueColor
<1>5. PictureInv'
  <2>1. /\ UNCHANGED <<meshes, materials, nextId, nextMaterialId>>
        /\ UNCHANGED <<FreshId, FreshMaterialId>>
    BY DEF rendererVars, FreshId, FreshMaterialId
  <2> QED BY <1>2, <2>1
          DEF PictureInv, CachesFollow, BoundFollows, ViewerHasNoEmpty
<1> QED BY <1>4, <1>5
-----------------------------------------------------------------------------
LEMMA BridgeInvInit == BridgeInit => BridgeInv
<1> SUFFICES ASSUME BridgeInit PROVE BridgeInv
  OBVIOUS
<1>1. /\ engine = "none" /\ rendered /\ phase = "idle"
      /\ nextId = 1 /\ nextMaterialId = 1
      /\ DOMAIN meshes = {} /\ DOMAIN materials = {} /\ DOMAIN handles = {}
      /\ DOMAIN meshCache = {} /\ DOMAIN colorCache = {} /\ DOMAIN bound = {}
  BY DEF BridgeInit, Init, Empty
<1>2. RendererInv
  BY <1>1 DEF RendererInv, OwnersKnown, EveryIdOwned, IdsGiven
<1>3. PictureInv
  BY <1>1 DEF PictureInv, CachesFollow, BoundFollows, ViewerHasNoEmpty
<1>4. WorldOwned /\ TicksAlternate
  BY <1>1 DEF WorldOwned, TicksAlternate
<1> QED BY <1>2, <1>3, <1>4 DEF BridgeInv

\* While somebody has a world, and during a tick somebody does.
InUse == engine # "none" /\ WorldInv /\ useError /\ HandlesMatch /\ RendererInv /\ PictureInv

LEMMA TickIsInUse ==
  ASSUME BridgeInv, engine # "none" \/ ~rendered \/ phase # "idle"
  PROVE  InUse
BY DEF BridgeInv, WorldOwned, TicksAlternate, InUse

\* A frame shows what it should.
LEMMA FrameShows ==
  ASSUME InUse, NEW camera \in Cameras, RenderFrame(camera)
  PROVE  /\ shown' = UNION {PictureOf(t, currentLOD'[t] + 1) : t \in Drawn}
         /\ HandlesMatch' /\ RendererInv' /\ PictureInv'
<1> PICK commands : commands = DrawCommands(currentLOD')
  OBVIOUS
<1>1. /\ Render(camera)
      /\ UNCHANGED <<engine, rendererVars, handles, gpuTiles>>
      /\ UnityDraw(commands) \/ UnrealDraw(commands) \/ ViewerDraw(commands)
  BY DEF RenderFrame, Render, updateVars
<1>2. CommandsKnown(commands) /\ MeshesApart(commands)
  BY <1>1, FrameCommandsKnown DEF InUse
<1>3. shown' = {InPicture(c) : c \in Built(commands)} /\ PictureInv'
  BY <1>1, <1>2, UnityShows, UnrealShows, ViewerShows DEF InUse
<1>4. {InPicture(c) : c \in Built(commands)} =
        UNION {PictureOf(t, currentLOD'[t] + 1) : t \in Drawn}
  BY <1>1, PictureOfCommands DEF InUse, PictureInv
<1>5. HandlesMatch'
  BY <1>1 DEF InUse, HandlesMatch
<1>6. RendererInv'
  <2>1. /\ UNCHANGED <<meshes, materials, nextId, nextMaterialId>>
        /\ UNCHANGED <<FreshId, FreshMaterialId>>
    BY <1>1 DEF rendererVars, FreshId, FreshMaterialId
  <2>2. OwnersKnown'
    BY <1>1, <2>1 DEF InUse, RendererInv, OwnersKnown, OwnsMeshes, OwnsMaterials
  <2>3. EveryIdOwned'
    BY <1>1, <2>1 DEF InUse, RendererInv, EveryIdOwned, IsMeshId, IsMaterialId
  <2>4. IdsGiven'
    BY <2>1 DEF InUse, RendererInv, IdsGiven
  <2> QED BY <2>2, <2>3, <2>4 DEF RendererInv
<1> QED BY <1>3, <1>4, <1>5, <1>6

LEMMA BridgeInvStep ==
  ASSUME BridgeInv, [BridgeNext]_bridgeVars
  PROVE  BridgeInv'
<1>1. CASE (\E e \in {"Unity", "Unreal"} : BeginPlay(e)) \/ Launch
  <2>1. PICK e : NewWorld(e) /\ e # "none" /\ loaded' \in BOOLEAN
    BY <1>1 DEF BeginPlay, Launch
  <2> QED BY <2>1, NewWorldKeepsBridge
<1>2. CASE EndPlay
  <2>1. Forget /\ rendered /\ rendered' = rendered /\ phase = "idle"
    BY <1>2 DEF EndPlay, BridgeInv, TicksAlternate
  <2>2. phase' = phase
    BY <1>2 DEF EndPlay, Shutdown, worldVars, updateVars
  <2> QED BY <2>1, <2>2, ForgetKeepsBridge DEF BridgeInv, WorldOwned, TicksAlternate
<1>3. CASE FailToCreateMesh
  <2>1. Forget /\ rendered' = TRUE /\ phase' = "idle"
    BY <1>3 DEF FailToCreateMesh
  <2> QED BY <2>1, ForgetKeepsBridge DEF BridgeInv, WorldOwned, TicksAlternate
<1>4. ASSUME InUse, engine' = engine, HandlesMatch', RendererInv', PictureInv',
             \/ UpdateStep
             \/ \E camera \in Cameras : Render(camera)
             \/ UNCHANGED worldVars,
             useError' = useError, TicksAlternate'
      PROVE  BridgeInv'
  BY <1>4, UpdatesKeepInv DEF InUse, BridgeInv, WorldOwned
<1>5. CASE StartUpdate
  <2>1. InUse
    BY <1>5, TickIsInUse DEF StartUpdate
  <2>2. /\ UNCHANGED <<gpuTiles, handles, engine, rendererVars, componentVars>>
        /\ UpdateStep /\ useError' = useError /\ TicksAlternate'
    BY <1>5 DEF StartUpdate, UpdateStreaming, UpdateStep, lodVars, TicksAlternate
  <2> QED BY <1>4, <2>1, <2>2, NothingMadeKeepsBridge DEF InUse
<1>6. CASE \E t \in Tiles : Visit(t)
  <2>1. PICK t \in Tiles : Visit(t)
    BY <1>6
  <2>2. InUse
    BY <2>1, TickIsInUse DEF Visit, VisitResident
  <2>3. engine' = engine /\ UpdateStep /\ useError' = useError /\ TicksAlternate'
    BY <2>1 DEF Visit, VisitResident, UpdateStep, lodVars, TicksAlternate, BridgeInv
  <2> QED BY <1>4, <2>1, <2>2, <2>3, VisitKeepsBridge DEF InUse
<1>7. CASE ReleaseTiles
  <2>1. InUse
    BY <1>7, TickIsInUse DEF ReleaseTiles, ReleaseStale
  <2>2. engine' = engine /\ UpdateStep /\ useError' = useError /\ TicksAlternate'
    BY <1>7 DEF ReleaseTiles, ReleaseStale, UpdateStep, lodVars, TicksAlternate, BridgeInv
  <2> QED BY <1>4, <1>7, <2>1, <2>2, ReleaseTilesKeepsBridge DEF InUse
<1>8. CASE CreateMesh
  <2>1. InUse
    BY <1>8, TickIsInUse DEF CreateMesh, UploadMesh
  <2>2. engine' = engine /\ UpdateStep /\ useError' = useError /\ TicksAlternate'
    BY <1>8 DEF CreateMesh, UploadMesh, UpdateStep, lodVars, TicksAlternate, BridgeInv
  <2> QED BY <1>4, <1>8, <2>1, <2>2, CreateMeshKeepsInv DEF InUse
<1>9. CASE CreateMaterial
  <2>1. InUse
    BY <1>9, TickIsInUse DEF CreateMaterial, UploadMaterial
  <2>2. engine' = engine /\ UpdateStep /\ useError' = useError /\ TicksAlternate'
    BY <1>9 DEF CreateMaterial, UploadMaterial, UpdateStep, lodVars, TicksAlternate,
                BridgeInv
  <2> QED BY <1>4, <1>9, <2>1, <2>2, CreateMaterialKeepsInv DEF InUse
<1>10. CASE FinishUpdate
  <2>1. InUse
    BY <1>10, TickIsInUse DEF FinishUpdate, EndUpdate
  <2>2. /\ UNCHANGED <<gpuTiles, handles, engine, rendererVars, componentVars>>
        /\ UpdateStep /\ useError' = useError /\ TicksAlternate'
    BY <1>10 DEF FinishUpdate, EndUpdate, UpdateStep, lodVars, TicksAlternate
  <2> QED BY <1>4, <2>1, <2>2, NothingMadeKeepsBridge DEF InUse
<1>11. CASE \E camera \in Cameras : RenderFrame(camera)
  <2>1. PICK camera \in Cameras : RenderFrame(camera)
    BY <1>11
  <2>2. InUse
    BY <2>1, TickIsInUse DEF RenderFrame
  <2>3. engine' = engine /\ Render(camera) /\ useError' = useError /\ TicksAlternate'
    BY <2>1 DEF RenderFrame, Render, updateVars, TicksAlternate
  <2> QED BY <1>4, <2>1, <2>2, <2>3, FrameShows
<1>12. CASE UNCHANGED bridgeVars
  <2>1. /\ UNCHANGED <<worldVars, engine, rendered, rendererVars, handles, componentVars>>
        /\ UNCHANGED <<gpuTiles, phase, useError>>
    BY <1>12 DEF bridgeVars, worldVars, updateVars, lodVars
  <2>2. TicksAlternate'
    BY <2>1 DEF BridgeInv, TicksAlternate
  <2>3. CASE engine # "none"
    <3>1. InUse
      BY <2>3, TickIsInUse
    <3> QED BY <1>4, <2>1, <2>2, <3>1, NothingMadeKeepsBridge DEF InUse
  <2>4. CASE engine = "none"
    <3>1. /\ UNCHANGED <<meshes, materials, nextId, nextMaterialId, meshCache,
                         colorCache, bound>>
          /\ UNCHANGED <<FreshId, FreshMaterialId>>
      BY <2>1 DEF rendererVars, componentVars, FreshId, FreshMaterialId
    <3>2. RendererInv'
      BY <2>1, <2>4, <3>1 DEF BridgeInv, WorldOwned, RendererInv, OwnersKnown,
         EveryIdOwned, IdsGiven, IsMeshId, IsMaterialId
    <3>3. PictureInv'
      BY <2>1, <3>1 DEF BridgeInv, PictureInv, CachesFollow, BoundFollows,
                        ViewerHasNoEmpty
    <3>4. WorldOwned'
      BY <2>1, <2>4, <3>1 DEF BridgeInv, WorldOwned
    <3> QED BY <2>2, <3>2, <3>3, <3>4 DEF BridgeInv
  <2> QED BY <2>3, <2>4
<1> QED BY <1>1, <1>2, <1>3, <1>5, <1>6, <1>7, <1>8, <1>9, <1>10, <1>11, <1>12
        DEF BridgeNext
-----------------------------------------------------------------------------
(***************************************************************************)
(* Through every play, tick and window closed: the resources of the        *)
(* renderer, the TileGPUs that own them and the caches of the component    *)
(* fit together.  An application that closes while uploads are queued is   *)
(* included: the world goes, and the queue with it.                        *)
(***************************************************************************)
THEOREM BridgeInvariant == BridgeSpec => []BridgeInv
<1>1. BridgeInit => BridgeInv
  BY BridgeInvInit
<1>2. BridgeInv /\ [BridgeNext]_bridgeVars => BridgeInv'
  BY BridgeInvStep
<1> QED BY <1>1, <1>2, PTL DEF BridgeSpec

(***************************************************************************)
(* The renderer holds exactly what some TileGPU owns: a MeshResource and a *)
(* MaterialResource destroy what they own, once, and nothing of another.   *)
(***************************************************************************)
THEOREM RendererLeaksNothing == BridgeSpec => []NothingLeaks
<1>1. BridgeInv => NothingLeaks
  BY OwnedMeansNoLeak DEF BridgeInv, RendererInv
<1> QED BY <1>1, BridgeInvariant, PTL

(***************************************************************************)
(* Although the caches by id are never cleared, every frame of Unity, of   *)
(* Unreal and of the viewer shows the selected LODs in their own colours,  *)
(* and nothing else: ids are not reused.                                   *)
(***************************************************************************)
THEOREM EveryPictureIsRight == BridgeSpec => PictureIsRight
<1> DEFINE Right ==
      \A camera \in Cameras : RenderFrame(camera) =>
        shown' = UNION {PictureOf(t, currentLOD'[t] + 1) : t \in Drawn}
<1>1. BridgeInv => Right
  <2> SUFFICES ASSUME BridgeInv, NEW camera \in Cameras, RenderFrame(camera)
               PROVE  shown' = UNION {PictureOf(t, currentLOD'[t] + 1) : t \in Drawn}
    OBVIOUS
  <2>1. InUse
    BY TickIsInUse DEF RenderFrame
  <2> QED BY <2>1, FrameShows
<1>2. BridgeInv => [Right]_bridgeVars
  BY <1>1
<1> QED BY <1>2, BridgeInvariant, PTL DEF PictureIsRight
=============================================================================
