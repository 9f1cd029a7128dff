------------------------- MODULE TileCache_proofs -------------------------
(***************************************************************************)
(* Proofs that the running total of TileCache is the sum of the sizes it   *)
(* stands for, that evictToBudget keeps the contract StreamingManager      *)
(* relies on, and that it evicts the worse tile first.                     *)
(***************************************************************************)
EXTENDS TileCache, Recursion

LEMMA BytesAreSum ==
  ASSUME NEW sizes
  PROVE  Contract!BytesOf(sizes) = SumFunctionOnSet(sizes, DOMAIN sizes)
BY DEF Contract!BytesOf, Contract!SumFunction, Contract!SumFunctionOnSet,
       Contract!FoldFunctionOnSet, Contract!MapThenFoldSet,
       SumFunctionOnSet, FoldFunctionOnSet, MapThenFoldSet

\* Sizes of finitely many tiles, each a natural number.
IsSizes(sizes) ==
  /\ IsFiniteSet(DOMAIN sizes)
  /\ sizes \in [DOMAIN sizes -> Nat]

\* The cached sizes add up to what they are without t, and t's.
LEMMA BytesWithout ==
  ASSUME NEW sizes, IsSizes(sizes), NEW t \in DOMAIN sizes,
         NEW less, less = Restrict(sizes, DOMAIN sizes \ {t})
  PROVE  /\ IsSizes(less)
         /\ Contract!BytesOf(sizes) = sizes[t] + Contract!BytesOf(less)
         /\ Contract!BytesOf(less) \in Nat
<1> DEFINE D == DOMAIN sizes
<1>1. /\ DOMAIN less = D \ {t}
      /\ less \in [D \ {t} -> Nat]
      /\ \A u \in D \ {t} : less[u] = sizes[u]
  BY DEF Restrict, IsSizes
<1>2. IsFiniteSet(D \ {t})
  BY FS_Subset DEF IsSizes
<1>3. IsSizes(less)
  BY <1>1, <1>2 DEF IsSizes
<1>4. /\ SumFunctionOnSet(sizes, D) = sizes[t] + SumFunctionOnSet(sizes, D \ {t})
      /\ SumFunctionOnSet(sizes, D \ {t}) \in Nat
  BY SumWithout DEF IsSizes
<1>5. SumFunctionOnSet(less, D \ {t}) = SumFunctionOnSet(sizes, D \ {t})
  BY <1>1, <1>2, SumAgrees DEF IsSizes
<1> QED BY <1>1, <1>3, <1>4, <1>5, BytesAreSum

LEMMA BytesAreNat ==
  ASSUME NEW sizes, IsSizes(sizes)
  PROVE  Contract!BytesOf(sizes) \in Nat
<1>1. PICK g : AddsUp(g, sizes, DOMAIN sizes)
  BY SumExists DEF IsSizes
<1>2. Contract!BytesOf(sizes) = g[DOMAIN sizes]
  BY <1>1, SumIsTotal, BytesAreSum DEF IsSizes
<1> QED BY <1>1, <1>2 DEF AddsUp

\* A tile that was not cached adds its size.
LEMMA BytesWith ==
  ASSUME NEW sizes, IsSizes(sizes), NEW t, t \notin DOMAIN sizes, NEW b \in Nat,
         NEW more,
         more = [u \in DOMAIN sizes \cup {t} |-> IF u = t THEN b ELSE sizes[u]]
  PROVE  /\ IsSizes(more)
         /\ Contract!BytesOf(more) = b + Contract!BytesOf(sizes)
<1>1. /\ DOMAIN more = DOMAIN sizes \cup {t}
      /\ t \in DOMAIN more
      /\ \A u \in DOMAIN sizes : more[u] = sizes[u]
      /\ more[t] = b
  OBVIOUS
<1>2. IsSizes(more)
  <2>1. IsFiniteSet(DOMAIN more)
    BY <1>1, FS_AddElement DEF IsSizes
  <2>2. more \in [DOMAIN more -> Nat]
    BY DEF IsSizes
  <2> QED BY <2>1, <2>2 DEF IsSizes
<1>3. sizes = Restrict(more, DOMAIN more \ {t})
  <2>1. sizes = [u \in DOMAIN sizes |-> sizes[u]]
    BY DEF IsSizes
  <2> QED BY <1>1, <2>1 DEF Restrict
<1>4. /\ Contract!BytesOf(more) = more[t] + Contract!BytesOf(sizes)
      /\ t \in DOMAIN more
  BY <1>1, <1>2, <1>3, BytesWithout
<1> QED BY <1>1, <1>2, <1>4
-----------------------------------------------------------------------------
\* TypeOK alone is not inductive: that used stays a natural number when a tile
\* gives its bytes back needs them to be part of it.
CacheInv == TypeOK /\ IsSizes(View) /\ UsedIsSum

LEMMA StoreView ==
  ASSUME NEW t, NEW entry, Store(t, entry)
  PROVE  View' = [u \in DOMAIN View \cup {t} |->
                    IF u = t THEN entry.bytes ELSE View[u]]
BY DEF Store, View

LEMMA TypedSizes ==
  ASSUME TypeOK, NEW t \in DOMAIN table
  PROVE  table[t].bytes \in Nat /\ View[t] = table[t].bytes
BY CacheAssumption DEF TypeOK, Entry, View

LEMMA TypedEntries ==
  ASSUME CacheInv, NEW t \in DOMAIN table
  PROVE  /\ table[t].lastPriority \in Int
         /\ table[t].lastAccess \in Int
         /\ tick - table[t].lastAccess \in Int
<1>1. table[t] \in Entry /\ tick \in 0 .. MaxTick
  BY DEF CacheInv, TypeOK
<1>2. table[t].lastPriority \in Priorities /\ table[t].lastAccess \in 0 .. MaxTick
  BY <1>1 DEF Entry
<1>3. table[t].lastAccess \in Int /\ tick \in Int
  BY <1>1, <1>2
<1>4. table[t].lastPriority \in Int
  BY <1>2, CacheAssumption
<1>5. tick - table[t].lastAccess \in Int
  BY <1>3
<1> QED BY <1>3, <1>4, <1>5

LEMMA CacheInvInit == Init => CacheInv
<1> SUFFICES ASSUME Init PROVE CacheInv
  OBVIOUS
<1>1. DOMAIN View = {}
  BY DEF Init, View
<1>2. IsSizes(View)
  BY <1>1, FS_EmptySet DEF IsSizes, View
<1>3. UsedIsSum
  BY <1>1, BytesAreSum, SumOfNone DEF UsedIsSum, Init
<1>4. TypeOK
  <2>1. DOMAIN table = {}
    BY DEF Init
  <2>2. 0 \in 0 .. MaxTick
    BY CacheAssumption
  <2> QED BY <2>1, <2>2 DEF TypeOK, Init
<1> QED BY <1>2, <1>3, <1>4 DEF CacheInv

\* The size counted for a tile that is replaced goes, then the new one comes.
LEMMA PutKeepsInv ==
  ASSUME CacheInv, NEW t \in Tiles, NEW bytes \in Sizes, NEW p \in Priorities,
         Put(t, bytes, p)
  PROVE  CacheInv'
<1> DEFINE entry == [bytes |-> bytes, lastPriority |-> p, lastAccess |-> tick]
<1>1. Store(t, entry) /\ entry.bytes = bytes /\ bytes \in Nat
  BY CacheAssumption DEF Put
<1>2. View' = [u \in DOMAIN View \cup {t} |-> IF u = t THEN bytes ELSE View[u]]
  BY <1>1, StoreView
<1>3. IsSizes(View)' /\ UsedIsSum'
  <2>1. CASE t \notin DOMAIN table
    <3>1. t \notin DOMAIN View
      BY <2>1 DEF View
    <3>2. /\ IsSizes(View)'
          /\ Contract!BytesOf(View') = bytes + Contract!BytesOf(View)
      BY <1>1, <1>2, <3>1, BytesWith DEF CacheInv
    <3>3. used' = used + bytes
      BY <2>1 DEF Put
    <3> QED BY <3>2, <3>3, <1>1 DEF CacheInv, UsedIsSum, TypeOK
  <2>2. CASE t \in DOMAIN table
    <3>1. PICK less : less = Restrict(View, DOMAIN View \ {t})
      OBVIOUS
    <3>2. t \in DOMAIN View /\ View[t] = table[t].bytes /\ View[t] \in Nat
      BY <2>2, TypedSizes DEF CacheInv, View
    <3>3. /\ IsSizes(less)
          /\ Contract!BytesOf(View) = View[t] + Contract!BytesOf(less)
          /\ Contract!BytesOf(less) \in Nat
      BY <3>1, <3>2, BytesWithout DEF CacheInv
    <3>4. View' = [u \in DOMAIN less \cup {t} |->
                     IF u = t THEN bytes ELSE less[u]]
      <4>1. /\ DOMAIN View \cup {t} = DOMAIN less \cup {t}
            /\ \A u \in DOMAIN View \ {t} : less[u] = View[u]
        BY <3>1, <3>2 DEF Restrict
      <4> QED BY <1>2, <4>1
    <3>5. /\ IsSizes(View)'
          /\ Contract!BytesOf(View') = bytes + Contract!BytesOf(less)
      <4>1. t \notin DOMAIN less
        BY <3>1 DEF Restrict
      <4> QED BY <1>1, <3>3, <3>4, <4>1, BytesWith
    <3>6. used' = (used - View[t]) + bytes
      BY <2>2, <3>2 DEF Put
    <3> QED BY <1>1, <3>2, <3>3, <3>5, <3>6 DEF CacheInv, UsedIsSum
  <2> QED BY <2>1, <2>2
<1>4. TypeOK'
  <2>1. used' \in Nat
    BY <1>3, BytesAreNat DEF UsedIsSum
  <2>2. entry \in Entry
    BY CacheAssumption DEF CacheInv, TypeOK, Entry
  <2> HIDE DEF entry
  <2> QED BY <1>1, <2>1, <2>2 DEF CacheInv, TypeOK, Put, Store
<1> QED BY <1>3, <1>4 DEF CacheInv

LEMMA TouchKeepsView ==
  ASSUME CacheInv, NEW t \in Tiles, NEW p \in Priorities, Touch(t, p)
  PROVE  TypeOK' /\ View' = View
<1> DEFINE entry == [table[t] EXCEPT !.lastPriority = p, !.lastAccess = tick]
<1>1. /\ Store(t, entry) /\ t \in DOMAIN table
      /\ UNCHANGED <<used, tick, evicting, protected>>
  BY DEF Touch
<1>2. entry \in Entry /\ entry.bytes = table[t].bytes
  BY <1>1 DEF CacheInv, TypeOK, Entry
<1> HIDE DEF entry
<1>3. TypeOK'
  BY <1>1, <1>2 DEF CacheInv, TypeOK, Store
<1>4. View' = View
  BY <1>1, <1>2 DEF Store, View
<1> QED BY <1>3, <1>4

LEMMA EvictKeepsInv ==
  ASSUME CacheInv, EvictWorst
  PROVE  CacheInv' /\ \E t \in Tiles : t \in Candidates
                        /\ View' = Restrict(View, DOMAIN View \ {t})
<1>1. PICK worst \in Candidates :
        /\ used' = used - table[worst].bytes
        /\ table' = Restrict(table, DOMAIN table \ {worst})
  BY DEF EvictWorst
<1>2. worst \in DOMAIN table /\ worst \in Tiles
  BY DEF Candidates, CacheInv, TypeOK
<1>3. View' = Restrict(View, DOMAIN View \ {worst})
  BY <1>1, <1>2 DEF View, Restrict
<1>4. View[worst] = table[worst].bytes /\ View[worst] \in Nat
  BY <1>2, TypedSizes DEF CacheInv
<1>5. /\ IsSizes(View)'
      /\ Contract!BytesOf(View) = View[worst] + Contract!BytesOf(View')
      /\ Contract!BytesOf(View') \in Nat
  <2>1. worst \in DOMAIN View
    BY <1>2 DEF View
  <2> QED BY <1>3, <2>1, BytesWithout DEF CacheInv
<1>6. UsedIsSum' /\ used' \in Nat
  BY <1>1, <1>4, <1>5 DEF CacheInv, UsedIsSum
<1>7. TypeOK'
  BY <1>1, <1>6 DEF CacheInv, TypeOK, EvictWorst, Restrict
<1> QED BY <1>2, <1>3, <1>5, <1>6, <1>7 DEF CacheInv

LEMMA CacheInvStep == CacheInv /\ [Next]_cacheVars => CacheInv'
<1> SUFFICES ASSUME CacheInv, [Next]_cacheVars PROVE CacheInv'
  OBVIOUS
<1>1. ASSUME TypeOK', View' = View, used' = used PROVE CacheInv'
  BY <1>1 DEF CacheInv, UsedIsSum
<1>2. ASSUME NEW t \in Tiles, NEW p \in Priorities, Touch(t, p) PROVE CacheInv'
  BY <1>1, <1>2, TouchKeepsView DEF Touch
<1>3. ASSUME NEW t \in Tiles, NEW p \in Priorities, NEW bytes \in Sizes,
             Put(t, bytes, p)
      PROVE  CacheInv'
  BY <1>3, PutKeepsInv
<1>4. CASE AdvanceFrame
  BY <1>1, <1>4, CacheAssumption DEF AdvanceFrame, CacheInv, TypeOK, View
<1>5. ASSUME NEW ids \in SUBSET Tiles, StartEviction(ids) PROVE CacheInv'
  BY <1>1, <1>5 DEF StartEviction, CacheInv, TypeOK, View
<1>6. CASE EvictWorst
  BY <1>6, EvictKeepsInv
<1>7. CASE EndEviction
  BY <1>1, <1>7 DEF EndEviction, CacheInv, TypeOK, View
<1>8. CASE UNCHANGED cacheVars
  BY <1>1, <1>8 DEF cacheVars, CacheInv, TypeOK, View
<1> QED BY <1>2, <1>3, <1>4, <1>5, <1>6, <1>7, <1>8 DEF Next

\* In every state of TileCache the running total is the sum of the sizes of
\* the cached tiles, and the table and the counters have their types: put()
\* and the eviction loop of TileCache.cpp never make the accounting drift.
THEOREM CacheInvariant == Spec => []CacheInv
BY CacheInvInit, CacheInvStep, PTL DEF Spec

\* m_cpuMemoryUsed is the sum of the sizes of the cached tiles.
THEOREM AccountingIsExact == Spec => []UsedIsSum
<1>1. CacheInv => UsedIsSum
  BY DEF CacheInv
<1> QED BY <1>1, CacheInvariant, PTL
-----------------------------------------------------------------------------
\* The budgets TileCache checks are those of the contract.
LEMMA SameBudget == CacheInv => (OverBudget <=> Contract!OverBudget)
<1>1. DOMAIN View = DOMAIN table
  BY DEF View
<1> QED BY <1>1 DEF CacheInv, UsedIsSum, OverBudget, Contract!OverBudget,
                Cardinality, Contract!Cardinality

LEMMA ContractInit == Init => Contract!CacheInit
BY DEF Init, Contract!CacheInit, View

LEMMA ContractStep ==
  CacheInv /\ [Next]_cacheVars =>
    [\/ ~evicting /\ \E t \in Tiles, b \in Sizes : Contract!PutTile(t, b)
     \/ evicting /\ \E t \in Tiles : Contract!EvictTile(t, protected)]_View
<1> SUFFICES ASSUME CacheInv, [Next]_cacheVars, View' # View
             PROVE  \/ /\ ~evicting
                       /\ \E t \in Tiles, b \in Sizes : Contract!PutTile(t, b)
                    \/ /\ evicting
                       /\ \E t \in Tiles : Contract!EvictTile(t, protected)
  OBVIOUS
<1>1. ASSUME NEW t \in Tiles, NEW p \in Priorities, NEW bytes \in Sizes,
             Put(t, bytes, p)
      PROVE  ~evicting /\ Contract!PutTile(t, bytes)
  <2> DEFINE entry == [bytes |-> bytes, lastPriority |-> p, lastAccess |-> tick]
  <2>1. ~evicting /\ Store(t, entry) /\ entry.bytes = bytes
    BY <1>1 DEF Put
  <2> HIDE DEF entry
  <2> QED BY <2>1, StoreView DEF Contract!PutTile
<1>2. ASSUME EvictWorst
      PROVE  evicting /\ \E t \in Tiles : Contract!EvictTile(t, protected)
  <2>1. evicting /\ Contract!OverBudget
    BY <1>2, SameBudget DEF EvictWorst
  <2>2. PICK t \in Tiles :
          t \in Candidates /\ View' = Restrict(View, DOMAIN View \ {t})
    BY <1>2, EvictKeepsInv
  <2>3. t \in DOMAIN View \ protected
    BY <2>2 DEF Candidates, View
  <2> QED BY <2>1, <2>2, <2>3 DEF Contract!EvictTile, Contract!Restrict, Restrict
<1>3. ASSUME NEW t \in Tiles, NEW p \in Priorities, Touch(t, p) PROVE FALSE
  BY <1>3, TouchKeepsView
<1>4. table' # table
  BY DEF View
<1>5. ~AdvanceFrame /\ ~EndEviction /\ ~UNCHANGED cacheVars
  BY <1>4 DEF AdvanceFrame, EndEviction, cacheVars
<1>6. \A ids \in SUBSET Tiles : ~StartEviction(ids)
  BY <1>4 DEF StartEviction
<1> QED BY <1>1, <1>2, <1>3, <1>5, <1>6 DEF Next

LEMMA ContractDone ==
  CacheInv /\ [Next]_cacheVars =>
    [evicting /\ ~evicting' => Contract!EvictionDone(protected)]_cacheVars
<1> SUFFICES ASSUME CacheInv, Next, evicting, ~evicting'
             PROVE  Contract!EvictionDone(protected)
  OBVIOUS
<1>1. EndEviction
  BY DEF Next, Touch, Put, AdvanceFrame, StartEviction, EvictWorst
<1>2. OverBudget => DOMAIN View \subseteq protected
  BY <1>1 DEF EndEviction, Candidates, View
<1> QED BY <1>2, SameBudget DEF Contract!EvictionDone

\* TileCache keeps the contract StreamingManager relies on: outside an eviction
\* no tile goes; evictToBudget takes unprotected tiles only, one at a time and
\* only while a budget is exceeded; it stops within budget or with nothing but
\* protected tiles left.
THEOREM EvictionKeepsContract == Spec => KeepsContract
<1>1. Init /\ CacheInv => Contract!CacheInit
  BY ContractInit
<1> QED BY <1>1, ContractInit, CacheInvariant, ContractStep, ContractDone, PTL
        DEF Spec, KeepsContract
-----------------------------------------------------------------------------
\* keepScore respects both orders, if recency has any weight.
LEMMA BetterScoresHigher ==
  ASSUME CacheInv, RecencyWeight # 0,
         NEW t \in DOMAIN table, NEW u \in DOMAIN table, NoBetterThan(t, u)
  PROVE  KeepScore(t) < KeepScore(u)
<1> PICK w, a, b, m, p, q :
      /\ w = RecencyWeight
      /\ a = tick - table[t].lastAccess /\ b = tick - table[u].lastAccess
      /\ p = table[t].lastPriority /\ q = table[u].lastPriority
      /\ m = w * (a - b)
  OBVIOUS
<1>1. w \in Nat \ {0} /\ a \in Int /\ b \in Int /\ p \in Int /\ q \in Int
  BY CacheAssumption, TypedEntries
<1>2. b <= a /\ p <= q /\ (p < q \/ b < a)
  BY CacheAssumption DEF NoBetterThan, CacheInv, TypeOK, Entry
<1>3. m \in Int /\ m >= 0 /\ (b < a => m > 0) /\ w * a = w * b + m
  BY <1>1, <1>2
<1>4. w * a \in Int /\ w * b \in Int
  BY <1>1
<1>5. p - w * a < q - w * b
  BY <1>1, <1>2, <1>3, <1>4
<1> QED BY <1>5 DEF KeepScore

LEMMA WorseStep ==
  ASSUME RecencyWeight # 0
  PROVE  CacheInv /\ [Next]_cacheVars =>
           [\A t, u \in Candidates :
              evicting /\ NoBetterThan(t, u) /\ u \notin DOMAIN table' =>
                t \notin DOMAIN table']_cacheVars
<1> SUFFICES ASSUME CacheInv, Next, NEW t \in Candidates, NEW u \in Candidates,
                    evicting, NoBetterThan(t, u), u \notin DOMAIN table'
             PROVE  FALSE
  OBVIOUS
<1>1. t \in DOMAIN table /\ u \in DOMAIN table
  BY DEF Candidates
<1>2. EvictWorst
  BY <1>1 DEF Next, Touch, Put, AdvanceFrame, StartEviction, EndEviction
<1>3. PICK worst \in Candidates :
        /\ \A c \in Candidates : KeepScore(worst) <= KeepScore(c)
        /\ table' = Restrict(table, DOMAIN table \ {worst})
  BY <1>2 DEF EvictWorst
<1>4. u = worst
  BY <1>1, <1>3 DEF Restrict
<1>5. KeepScore(u) <= KeepScore(t) /\ KeepScore(t) < KeepScore(u)
  BY <1>1, <1>3, <1>4, BetterScoresHigher
<1>6. KeepScore(t) \in Int /\ KeepScore(u) \in Int
  BY <1>1, CacheAssumption, TypedEntries DEF KeepScore
<1> QED BY <1>5, <1>6

\* With any weight on recency, evictToBudget never keeps a tile in the place of
\* one that was at least as important and as recently used, and more so in one
\* of the two.  (With none, age decides nothing, and a tie in priority is broken
\* by the hash table's order.)
THEOREM WorseTileGoesFirst ==
  ASSUME RecencyWeight # 0
  PROVE  Spec => WorseGoesFirst
BY CacheInvariant, WorseStep, PTL DEF Spec, WorseGoesFirst
=============================================================================
