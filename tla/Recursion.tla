----------------------------- MODULE Recursion -----------------------------
(***************************************************************************)
(* What the recursive operators of the community modules compute.          *)
(*                                                                         *)
(* SumFunctionOnSet: a sum over no elements is 0, and any element of a     *)
(* finite set can be taken out of the sum first.  FlattenSeq: one sequence *)
(* after the other.                                                        *)
(*                                                                         *)
(* Each needs an induction.  It is done by minimal counterexample: a set   *)
(* of numbers has a smallest member, and inclusion is well founded on the  *)
(* subsets of a finite set, so a set of them that is not empty has a       *)
(* member with no smaller one in it (SmallestNumber, SmallestOne).         *)
(***************************************************************************)
EXTENDS Integers, SequencesExt, FiniteSetTheorems, SequenceTheorems, TLAPS

\* A set of numbers that is not empty has a smallest one.
LEMMA SmallestNumber ==
  ASSUME NEW S \in SUBSET Nat, S # {}
  PROVE  \E m \in S : \A n \in S : m <= n
<1>1. PICK m \in S : \A n \in S : <<n, m>> \notin OpToRel(<, Nat)
  BY NatLessThanWellFounded, WFMin
<1>2. \A n \in S : ~ (n < m)
  BY <1>1 DEF OpToRel
<1> QED BY <1>2

\* Min is what it is called.
LEMMA MinIsSmallest ==
  ASSUME NEW S \in SUBSET Nat, S # {}
  PROVE  Min(S) \in S /\ \A n \in S : Min(S) <= n
BY SmallestNumber DEF Min

\* A set of subsets of a finite set has a member that contains no other one.
LEMMA SmallestOne ==
  ASSUME NEW S, IsFiniteSet(S), NEW Bad \in SUBSET SUBSET S, Bad # {}
  PROVE  \E m \in Bad : \A n \in Bad : n \subseteq m => n = m
<1>1. IsWellFoundedOn(StrictSubsetOrdering(S), SUBSET S)
  BY FS_StrictSubsetOrderingWellFounded, FS_FiniteSubsetsOfFinite
<1>2. PICK m \in Bad : \A n \in Bad : <<n, m>> \notin StrictSubsetOrdering(S)
  BY <1>1, WFMin
<1>3. ASSUME NEW n \in Bad, n \subseteq m, n # m PROVE FALSE
  <2>1. <<n, m>> \in (SUBSET S) \X (SUBSET S)
    OBVIOUS
  <2> QED BY <1>2, <1>3, <2>1 DEF StrictSubsetOrdering
<1> QED BY <1>2, <1>3

\* The element that the library's recursion takes out of s first.
Pick(s) == CHOOSE x \in s : TRUE

\* iter solves the recursion equation of SumFunctionOnSet(w, S).
IsTotal(iter, w, S) ==
  iter = [s \in SUBSET S |->
            IF s = {} THEN 0 ELSE w[Pick(s)] + iter[s \ {Pick(s)}]]

\* g gives the sum of every subset of S, whichever element is taken out first.
AddsUp(g, w, S) ==
  /\ g \in [SUBSET S -> Nat]
  /\ g[{}] = 0
  /\ \A s \in SUBSET S : \A x \in s : g[s] = w[x] + g[s \ {x}]

\* From the sums over the subsets of S, those over the subsets of S with one
\* element more.
LEMMA AddOne ==
  ASSUME NEW S, NEW w, NEW d, d \notin S,
         \A t \in S \cup {d} : w[t] \in Nat,
         NEW g, AddsUp(g, w, S)
  PROVE  \E h : AddsUp(h, w, S \cup {d})
<1> DEFINE D == S \cup {d}
           h == [s \in SUBSET D |-> IF d \in s THEN w[d] + g[s \ {d}] ELSE g[s]]
<1>1. h \in [SUBSET D -> Nat]
  BY DEF AddsUp
<1>2. h[{}] = 0
  BY DEF AddsUp
<1>3. ASSUME NEW s \in SUBSET D, NEW x \in s
      PROVE  h[s] = w[x] + h[s \ {x}]
  <2>1. CASE x = d
    <3>1. h[s \ {x}] = g[s \ {d}]
      BY <2>1
    <3> QED BY <2>1, <3>1
  <2>2. CASE x # d /\ d \in s
    <3>1. h[s] = w[d] + g[s \ {d}]
      BY <2>2
    <3>2. h[s \ {x}] = w[d] + g[(s \ {x}) \ {d}]
      BY <2>2
    <3>3. (s \ {x}) \ {d} = (s \ {d}) \ {x}
      OBVIOUS
    <3>4. s \ {d} \in SUBSET S /\ x \in s \ {d} /\ (s \ {d}) \ {x} \in SUBSET S
      BY <2>2
    <3>5. g[s \ {d}] = w[x] + g[(s \ {d}) \ {x}]
      BY <3>4 DEF AddsUp
    <3>6. w[x] \in Nat /\ w[d] \in Nat /\ g[(s \ {d}) \ {x}] \in Nat
      BY <3>4 DEF AddsUp
    <3> HIDE DEF h
    <3> QED BY <3>1, <3>2, <3>3, <3>5, <3>6
  <2>3. CASE d \notin s
    <3>1. s \in SUBSET S /\ h[s] = g[s] /\ h[s \ {x}] = g[s \ {x}]
      BY <2>3
    <3> QED BY <3>1 DEF AddsUp
  <2> QED BY <2>1, <2>2, <2>3
<1> HIDE DEF h
<1> QED BY <1>1, <1>2, <1>3 DEF AddsUp

\* A finite set has sums: a smallest subset without them would have none of its
\* elements to spare.
LEMMA SumExists ==
  ASSUME NEW S, IsFiniteSet(S), NEW w, \A t \in S : w[t] \in Nat
  PROVE  \E g : AddsUp(g, w, S)
<1> DEFINE Bad == {D \in SUBSET S : ~ \E g : AddsUp(g, w, D)}
<1> SUFFICES ASSUME Bad # {} PROVE FALSE
  OBVIOUS
<1>1. PICK D \in Bad : \A E \in Bad : E \subseteq D => E = D
  <2>1. Bad \in SUBSET SUBSET S
    OBVIOUS
  <2> HIDE DEF Bad
  <2> QED BY <2>1, SmallestOne
<1>2. CASE D = {}
  <2> DEFINE g0 == [s \in SUBSET {} |-> 0]
  <2>1. AddsUp(g0, w, {})
    BY DEF AddsUp
  <2> QED BY <1>1, <1>2, <2>1
<1>3. CASE D # {}
  <2>1. PICK d \in D : TRUE
    BY <1>3
  <2>2. D \ {d} \notin Bad /\ D \ {d} \in SUBSET S
    BY <1>1, <2>1
  <2>3. PICK g : AddsUp(g, w, D \ {d})
    BY <2>2
  <2>4. \A t \in (D \ {d}) \cup {d} : w[t] \in Nat
    OBVIOUS
  <2>5. \E h : AddsUp(h, w, (D \ {d}) \cup {d})
    BY <2>3, <2>4, AddOne
  <2>6. (D \ {d}) \cup {d} = D
    BY <2>1
  <2> QED BY <2>5, <2>6, <1>1
<1> QED BY <1>2, <1>3

\* Such sums are what the library computes: its recursion has one solution only,
\* since there is no smallest subset where two solutions differ.
LEMMA SumIsTotal ==
  ASSUME NEW S, IsFiniteSet(S), NEW w, NEW g, AddsUp(g, w, S)
  PROVE  SumFunctionOnSet(w, S) = g[S]
<1> DEFINE iter == CHOOSE iter : IsTotal(iter, w, S)
<1>2. IsTotal(g, w, S)
  <2>1. g = [s \in SUBSET S |-> g[s]]
    BY DEF AddsUp
  <2>2. ASSUME NEW s \in SUBSET S
        PROVE  g[s] = IF s = {} THEN 0 ELSE w[Pick(s)] + g[s \ {Pick(s)}]
    <3>1. CASE s = {}
      BY <3>1 DEF AddsUp
    <3>2. CASE s # {}
      <4>1. Pick(s) \in s
        BY <3>2 DEF Pick
      <4> QED BY <3>2, <4>1 DEF AddsUp
    <3> QED BY <3>1, <3>2
  <2> QED BY <2>1, <2>2 DEF IsTotal
<1>3. IsTotal(iter, w, S)
  BY <1>2
<1>4. SumFunctionOnSet(w, S) = iter[S]
  BY DEF SumFunctionOnSet, FoldFunctionOnSet, MapThenFoldSet, IsTotal, Pick
<1> DEFINE Differ == {s \in SUBSET S : iter[s] # g[s]}
<1>5. Differ = {}
  <2> SUFFICES ASSUME Differ # {} PROVE FALSE
    OBVIOUS
  <2>1. PICK s \in Differ : \A r \in Differ : r \subseteq s => r = s
    <3>1. Differ \in SUBSET SUBSET S
      OBVIOUS
    <3> HIDE DEF Differ
    <3> QED BY <3>1, SmallestOne
  <2> HIDE DEF iter
  <2>2. iter[s] = IF s = {} THEN 0 ELSE w[Pick(s)] + iter[s \ {Pick(s)}]
    BY <1>3 DEF IsTotal
  <2>3. g[s] = IF s = {} THEN 0 ELSE w[Pick(s)] + g[s \ {Pick(s)}]
    BY <1>2 DEF IsTotal
  <2>4. s # {}
    BY <2>2, <2>3
  <2>5. Pick(s) \in s
    BY <2>4 DEF Pick
  <2>6. s \ {Pick(s)} \notin Differ
    BY <2>1, <2>5
  <2>7. iter[s \ {Pick(s)}] = g[s \ {Pick(s)}]
    BY <2>6
  <2> QED BY <2>2, <2>3, <2>4, <2>7
<1>6. iter[S] = g[S]
  BY <1>5
<1> QED BY <1>4, <1>6

\* The sum over no elements is 0 (an empty cache uses no bytes).
THEOREM SumOfNone == ASSUME NEW w PROVE SumFunctionOnSet(w, {}) = 0
<1>1. PICK g : AddsUp(g, w, {})
  BY SumExists, FS_EmptySet
<1>2. SumFunctionOnSet(w, {}) = g[{}]
  BY <1>1, SumIsTotal, FS_EmptySet
<1> QED BY <1>1, <1>2 DEF AddsUp

\* A sum is what one element contributes and the sum over the others, which is
\* a natural number (so an eviction subtracts no more than was added).
LEMMA SumWithout ==
  ASSUME NEW S, IsFiniteSet(S), NEW w, \A t \in S : w[t] \in Nat, NEW d \in S
  PROVE  /\ SumFunctionOnSet(w, S) = w[d] + SumFunctionOnSet(w, S \ {d})
         /\ SumFunctionOnSet(w, S \ {d}) \in Nat
<1>1. PICK g : AddsUp(g, w, S)
  BY SumExists
<1> DEFINE R == S \ {d}
           h == [s \in SUBSET R |-> g[s]]
<1>2. AddsUp(h, w, R)
  BY <1>1 DEF AddsUp
<1>3. IsFiniteSet(R)
  BY FS_Subset
<1>4. SumFunctionOnSet(w, S) = g[S]
  BY <1>1, SumIsTotal
<1>5. SumFunctionOnSet(w, R) = h[R]
  <2> HIDE DEF h, R
  <2> QED BY <1>2, <1>3, SumIsTotal
<1> QED BY <1>1, <1>4, <1>5 DEF AddsUp

\* The sum depends on the contributions of the elements of S only.
LEMMA SumAgrees ==
  ASSUME NEW S, IsFiniteSet(S), NEW w, NEW v,
         \A t \in S : w[t] \in Nat /\ v[t] = w[t]
  PROVE  SumFunctionOnSet(v, S) = SumFunctionOnSet(w, S)
<1>1. PICK g : AddsUp(g, w, S)
  BY SumExists
<1>2. AddsUp(g, v, S)
  BY <1>1 DEF AddsUp
<1> QED BY <1>1, <1>2, SumIsTotal

-----------------------------------------------------------------------------
(***************************************************************************)
(* FlattenSeq, one sequence at a time.                                     *)
(***************************************************************************)
Flattens(f, seqs, n) ==
  f = [i \in 1 .. n |-> IF i = 1 THEN seqs[i] ELSE f[i - 1] \o seqs[i]]

LEMMA FlattenOne == ASSUME NEW seqs PROVE \E f : Flattens(f, seqs, 1)
<1> DEFINE f == [i \in 1 .. 1 |-> seqs[i]]
<1>1. Flattens(f, seqs, 1)
  BY DEF Flattens
<1> QED BY <1>1

LEMMA FlattenNext ==
  ASSUME NEW seqs, NEW k \in Nat \ {0}, NEW f, Flattens(f, seqs, k)
  PROVE  \E g : Flattens(g, seqs, k + 1)
<1> DEFINE g == [i \in 1 .. k + 1 |->
                   IF i <= k THEN f[i] ELSE f[k] \o seqs[k + 1]]
<1>1. ASSUME NEW i \in 1 .. k
      PROVE  g[i] = IF i = 1 THEN seqs[i] ELSE g[i - 1] \o seqs[i]
  <2>1. f[i] = IF i = 1 THEN seqs[i] ELSE f[i - 1] \o seqs[i]
    BY DEF Flattens
  <2>2. g[i] = f[i] /\ (i # 1 => g[i - 1] = f[i - 1])
    OBVIOUS
  <2> HIDE DEF g
  <2> QED BY <2>1, <2>2
<1>2. g[k + 1] = g[k] \o seqs[k + 1]
  <2>1. k + 1 \in 1 .. k + 1 /\ ~ (k + 1 <= k) /\ k \in 1 .. k + 1 /\ k <= k
    OBVIOUS
  <2>2. g[k + 1] = f[k] \o seqs[k + 1]
    BY <2>1, Zenon
  <2>3. g[k] = f[k]
    BY <2>1, Zenon
  <2> HIDE DEF g
  <2> QED BY <2>2, <2>3
<1>3. g = [i \in 1 .. k + 1 |-> g[i]]
  OBVIOUS
<1> HIDE DEF g
<1>4. \A i \in 1 .. k + 1 : g[i] = IF i = 1 THEN seqs[i] ELSE g[i - 1] \o seqs[i]
  <2> TAKE i \in 1 .. k + 1
  <2>1. CASE i = k + 1
    <3>1. i # 1 /\ i - 1 = k
      BY <2>1
    <3> QED BY <1>2, <2>1, <3>1
  <2>2. CASE i # k + 1
    <3>1. i \in 1 .. k
      BY <2>2
    <3> QED BY <1>1, <3>1
  <2> QED BY <2>1, <2>2
<1>5. Flattens(g, seqs, k + 1)
  BY <1>3, <1>4 DEF Flattens
<1> QED BY <1>5

LEMMA FlattenExists ==
  ASSUME NEW seqs, NEW n \in Nat \ {0}
  PROVE  \E f : Flattens(f, seqs, n)
<1> DEFINE Bad == {k \in Nat \ {0} : ~ \E f : Flattens(f, seqs, k)}
<1> SUFFICES ASSUME Bad # {} PROVE FALSE
  OBVIOUS
<1>1. PICK k \in Bad : \A j \in Bad : k <= j
  <2>1. Bad \in SUBSET Nat
    OBVIOUS
  <2> HIDE DEF Bad
  <2> QED BY <2>1, SmallestNumber
<1>2. k \in Nat \ {0} /\ ~ \E f : Flattens(f, seqs, k)
  OBVIOUS
<1>3. k # 1
  BY <1>2, FlattenOne
<1>4. k - 1 \in Nat \ {0} /\ k - 1 \notin Bad
  <2>1. k - 1 \in Nat \ {0} /\ ~ (k <= k - 1)
    BY <1>2, <1>3
  <2> HIDE DEF Bad
  <2> QED BY <1>1, <2>1
<1>5. PICK f : Flattens(f, seqs, k - 1)
  BY <1>4
<1>6. \E g : Flattens(g, seqs, (k - 1) + 1)
  BY <1>4, <1>5, FlattenNext
<1>7. (k - 1) + 1 = k
  BY <1>2
<1> QED BY <1>2, <1>6, <1>7

LEMMA FlattenGrows ==
  ASSUME NEW T, NEW seqs \in Seq(T), seqs # <<>>
  PROVE  \E f : /\ FlattenSeq(seqs) = f[Len(seqs)]
                /\ f[1] = seqs[1]
                /\ \A i \in 2 .. Len(seqs) : f[i] = f[i - 1] \o seqs[i]
<1> DEFINE n == Len(seqs)
           f == CHOOSE f : Flattens(f, seqs, n)
<1>1. n \in Nat \ {0}
  OBVIOUS
<1>2. FlattenSeq(seqs) = f[n]
  BY <1>1 DEF FlattenSeq, Flattens
<1>3. Flattens(f, seqs, n)
  BY <1>1, FlattenExists
<1> HIDE DEF f
<1>4. \A i \in 1 .. n : f[i] = IF i = 1 THEN seqs[i] ELSE f[i - 1] \o seqs[i]
  BY <1>3 DEF Flattens
<1> HIDE DEF n
<1>5. 1 \in 1 .. n /\ \A i \in 2 .. n : i \in 1 .. n /\ i # 1
  BY <1>1
<1>6. f[1] = seqs[1] /\ \A i \in 2 .. n : f[i] = f[i - 1] \o seqs[i]
  BY <1>4, <1>5, Zenon
<1> QED BY <1>2, <1>6 DEF n
-----------------------------------------------------------------------------
(***************************************************************************)
(* FoldLeft over a sequence of n steps, whose k-th takes v to g[k][v].     *)
(***************************************************************************)
Folds(iter, n, base, g) ==
  \A s \in SUBSET (1 .. n) :
    iter[s] = IF s = {} THEN base ELSE g[Max(s)][iter[s \ {Max(s)}]]

LEMMA MaxIsLargest ==
  ASSUME NEW n \in Nat, NEW s \in SUBSET (1 .. n), s # {}
  PROVE  Max(s) \in s /\ \A i \in s : i <= Max(s)
<1> DEFINE Mirrored == {j \in 0 .. n : n - j \in s}
<1>1. Mirrored \in SUBSET Nat /\ Mirrored # {}
  <2>1. PICK i \in 1 .. n : i \in s
    OBVIOUS
  <2>2. n - i \in 0 .. n /\ n - (n - i) = i
    BY <2>1
  <2>3. n - i \in Mirrored
    BY <2>1, <2>2, Zenon
  <2>4. Mirrored \subseteq Nat
    OBVIOUS
  <2> HIDE DEF Mirrored
  <2> QED BY <2>3, <2>4
<1>2. PICK m \in Mirrored : \A k \in Mirrored : m <= k
  <2> HIDE DEF Mirrored
  <2> QED BY <1>1, SmallestNumber
<1>3. n - m \in s
  OBVIOUS
<1>4. ASSUME NEW i \in s PROVE i <= n - m
  <2>1. n - i \in 0 .. n /\ n - (n - i) = i
    OBVIOUS
  <2>2. m <= n - i
    BY <1>2, <2>1
  <2> QED BY <2>2
<1> QED BY <1>3, <1>4 DEF Max

LEMMA FoldExists ==
  ASSUME NEW V, NEW base \in V, NEW n \in Nat, NEW g \in [1 .. n -> [V -> V]]
  PROVE  \E iter \in [SUBSET (1 .. n) -> V] : Folds(iter, n, base, g)
<1> DEFINE Good(k) == \E iter \in [SUBSET (1 .. k) -> V] : Folds(iter, k, base, g)
           Bad == {k \in 0 .. n : ~Good(k)}
<1> HIDE DEF Good
<1> SUFFICES ASSUME Bad # {} PROVE FALSE
  <2>1. n \in 0 .. n
    OBVIOUS
  <2>2. Good(n)
    BY <2>1
  <2> QED BY <2>2 DEF Good
<1>1. PICK k \in Bad : \A j \in Bad : k <= j
  <2>1. Bad \in SUBSET Nat
    OBVIOUS
  <2> HIDE DEF Bad
  <2> QED BY <2>1, SmallestNumber
<1>2. k \in 0 .. n /\ ~Good(k)
  OBVIOUS
<1>3. Good(0)
  <2> DEFINE iter == [s \in SUBSET (1 .. 0) |-> base]
  <2>1. iter \in [SUBSET (1 .. 0) -> V] /\ \A s \in SUBSET (1 .. 0) : s = {} /\ iter[s] = base
    OBVIOUS
  <2>2. Folds(iter, 0, base, g)
    BY <2>1 DEF Folds
  <2> QED BY <2>1, <2>2 DEF Good
<1>4. k \in 1 .. n /\ k - 1 \in 0 .. n /\ ~(k <= k - 1)
  <2>1. k # 0
    BY <1>2, <1>3
  <2> QED BY <1>2, <2>1
<1>5. Good(k - 1)
  <2>1. k - 1 \notin Bad
    BY <1>1, <1>4
  <2> QED BY <1>4, <2>1
<1>6. PICK less \in [SUBSET (1 .. k - 1) -> V] : Folds(less, k - 1, base, g)
  BY <1>5 DEF Good
<1> DEFINE iter == [s \in SUBSET (1 .. k) |-> IF k \in s THEN g[k][less[s \ {k}]] ELSE less[s]]
<1>7. \A s \in SUBSET (1 .. k) :
        /\ s \ {k} \in SUBSET (1 .. k - 1)
        /\ k \notin s => s \in SUBSET (1 .. k - 1)
  BY <1>4
<1>8. iter \in [SUBSET (1 .. k) -> V]
  <2>1. ASSUME NEW s \in SUBSET (1 .. k)
        PROVE  (IF k \in s THEN g[k][less[s \ {k}]] ELSE less[s]) \in V
    BY <1>4, <1>7
  <2> QED BY <2>1
<1>9. ASSUME NEW s \in SUBSET (1 .. k)
      PROVE  iter[s] = IF s = {} THEN base ELSE g[Max(s)][iter[s \ {Max(s)}]]
  <2>1. CASE k \in s
    <3>1. Max(s) = k
      <4>1. k \in Nat /\ s # {}
        BY <1>4, <2>1
      <4>2. Max(s) \in s /\ \A i \in s : i <= Max(s)
        <5> HIDE DEF iter
        <5> QED BY <4>1, MaxIsLargest
      <4>3. Max(s) \in 1 .. k /\ k <= Max(s)
        BY <2>1, <4>2
      <4> QED BY <4>1, <4>3
    <3>2. s \ {k} \in SUBSET (1 .. k) /\ k \notin s \ {k}
      OBVIOUS
    <3>3. iter[s \ {k}] = less[s \ {k}]
      BY <3>2
    <3>4. iter[s] = g[k][less[s \ {k}]]
      BY <2>1
    <3> HIDE DEF iter
    <3> QED BY <2>1, <3>1, <3>3, <3>4
  <2>2. CASE k \notin s
    <3>1. s \in SUBSET (1 .. k - 1)
      BY <1>7, <2>2
    <3>2. iter[s] = less[s]
      BY <2>2
    <3>3. less[s] = IF s = {} THEN base ELSE g[Max(s)][less[s \ {Max(s)}]]
      BY <1>6, <3>1 DEF Folds
    <3>4. s \ {Max(s)} \in SUBSET (1 .. k) /\ k \notin s \ {Max(s)}
      BY <2>2
    <3>5. iter[s \ {Max(s)}] = less[s \ {Max(s)}]
      BY <3>4
    <3> HIDE DEF iter
    <3> QED BY <3>2, <3>3, <3>5
  <2> QED BY <2>1, <2>2
<1>10. Folds(iter, k, base, g)
  <2> HIDE DEF iter
  <2> QED BY <1>9 DEF Folds
<1> HIDE DEF iter
<1> QED BY <1>2, <1>8, <1>10 DEF Good

\* h[k] is what the first k steps make of base.
Steps(h, V, n, base, g) ==
  /\ h \in [0 .. n -> V]
  /\ h[0] = base
  /\ \A k \in 1 .. n : h[k] = g[k][h[k - 1]]

FoldsIn(iter, V, n, base, g) ==
  /\ iter[{}] = base
  /\ \A s \in SUBSET (1 .. n) :
       s # {} /\ iter[s \ {Max(s)}] \in V => iter[s] = g[Max(s)][iter[s \ {Max(s)}]]

StepsTo(h, V, n, base, g, last) == Steps(h, V, n, base, g) /\ h[n] = last

LEMMA FoldSteps ==
  ASSUME NEW V, NEW base \in V, NEW n \in Nat, NEW g \in [1 .. n -> [V -> V]],
         NEW iter, FoldsIn(iter, V, n, base, g)
  PROVE  \E h : StepsTo(h, V, n, base, g, iter[1 .. n])
<1> DEFINE h == [k \in 0 .. n |-> iter[1 .. k]]
           Bad == {k \in 0 .. n : iter[1 .. k] \notin V}
<1>1. iter[1 .. 0] = base
  <2>1. 1 .. 0 = {}
    OBVIOUS
  <2> QED BY <2>1 DEF FoldsIn
<1>2. ASSUME NEW k \in 1 .. n, iter[1 .. k - 1] \in V
      PROVE  iter[1 .. k] = g[k][iter[1 .. k - 1]]
  <2>1. 1 .. k \in SUBSET (1 .. n) /\ k \in 1 .. k /\ (1 .. k) \ {k} = 1 .. k - 1
    OBVIOUS
  <2>2. Max(1 .. k) = k
    <3>1. Max(1 .. k) \in 1 .. k /\ \A i \in 1 .. k : i <= Max(1 .. k)
      BY <2>1, MaxIsLargest
    <3>2. k <= Max(1 .. k) /\ Max(1 .. k) <= k
      BY <2>1, <3>1
    <3> QED BY <3>1, <3>2
  <2> QED BY <1>2, <2>1, <2>2 DEF FoldsIn
<1>3. \A k \in 0 .. n : iter[1 .. k] \in V
  <2> SUFFICES ASSUME Bad # {} PROVE FALSE
    OBVIOUS
  <2>1. PICK k \in Bad : \A j \in Bad : k <= j
    <3>1. Bad \in SUBSET Nat
      OBVIOUS
    <3> HIDE DEF Bad
    <3> QED BY <3>1, SmallestNumber
  <2>2. k \in 1 .. n /\ k - 1 \in 0 .. n /\ ~(k <= k - 1)
    BY <1>1
  <2>3. iter[1 .. k - 1] \in V
    BY <2>1, <2>2
  <2>4. g[k] \in [V -> V]
    BY <2>2
  <2> QED BY <1>2, <2>2, <2>3, <2>4
<1>4. Steps(h, V, n, base, g)
  <2>1. h \in [0 .. n -> V] /\ h[0] = base
    BY <1>1, <1>3
  <2>2. ASSUME NEW k \in 1 .. n PROVE h[k] = g[k][h[k - 1]]
    <3>1. k - 1 \in 0 .. n /\ k \in 0 .. n
      OBVIOUS
    <3>2. h[k] = iter[1 .. k] /\ h[k - 1] = iter[1 .. k - 1]
      BY <3>1
    <3> QED BY <1>2, <1>3, <3>1, <3>2
  <2> QED BY <2>1, <2>2 DEF Steps
<1> QED BY <1>4 DEF StepsTo
=============================================================================
