----------------------------- MODULE TileCache -----------------------------
(***************************************************************************)
(* sdk/src/streaming/TileCache.cpp: the CPU data of the resident tiles,    *)
(* its memory accounting and the choice of what to evict.  Priorities and  *)
(* the recency weight are floats in the code, small integers here.         *)
(* evictToBudget is one call on the main thread; each round of its loop is *)
(* an action, and nothing else happens until the loop is left.             *)
(***************************************************************************)
EXTENDS Integers, FiniteSets, Functions

CONSTANTS
  Tiles,
  Sizes,           \* what estimateTileMemoryBytes can return
  Priorities,
  RecencyWeight,   \* recencyWeight
  CpuBudget, GpuBudget, MaxResident,
  MaxTick          \* bound on the frames counted

ASSUME CacheAssumption ==
  /\ Sizes \subseteq Nat
  /\ Priorities \subseteq Int
  /\ RecencyWeight \in Nat
  /\ MaxTick \in Nat

VARIABLES
  table,       \* m_entries: size, last priority and last access of a tile
  used,        \* m_cpuMemoryUsed
  tick,        \* m_tick
  evicting,    \* whether evictToBudget is running
  protected    \* its argument

cacheVars == <<table, used, tick, evicting, protected>>

Entry == [bytes : Sizes, lastPriority : Priorities, lastAccess : 0 .. MaxTick]

TypeOK ==
  /\ DOMAIN table \subseteq Tiles
  /\ \A t \in DOMAIN table : table[t] \in Entry
  /\ used \in Nat
  /\ tick \in 0 .. MaxTick
  /\ evicting \in BOOLEAN
  /\ protected \subseteq Tiles

Init ==
  /\ table = [t \in {} |-> 0]
  /\ used = 0
  /\ tick = 0
  /\ evicting = FALSE
  /\ protected = {}

Store(t, entry) ==
  table' = [u \in DOMAIN table \cup {t} |-> IF u = t THEN entry ELSE table[u]]

\* Mutant: the bytes of a tile that is replaced stay counted.
PutOnTop(t, bytes, priority) ==
  /\ ~evicting
  /\ Store(t, [bytes |-> bytes, lastPriority |-> priority, lastAccess |-> tick])
  /\ used' = used + bytes
  /\ UNCHANGED <<tick, evicting, protected>>

\* put(): a tile that is cached already gives its old bytes back first.
Put(t, bytes, priority) ==
  /\ ~evicting
  /\ Store(t, [bytes |-> bytes, lastPriority |-> priority, lastAccess |-> tick])
  /\ used' = (IF t \in DOMAIN table THEN used - table[t].bytes ELSE used) + bytes
  /\ UNCHANGED <<tick, evicting, protected>>

Touch(t, priority) ==
  /\ ~evicting
  /\ t \in DOMAIN table
  /\ Store(t, [table[t] EXCEPT !.lastPriority = priority, !.lastAccess = tick])
  /\ UNCHANGED <<used, tick, evicting, protected>>

AdvanceFrame ==
  /\ ~evicting
  /\ tick < MaxTick
  /\ tick' = tick + 1
  /\ UNCHANGED <<table, used, evicting, protected>>

OverBudget ==
  \/ used > CpuBudget
  \/ used > GpuBudget
  \/ Cardinality(DOMAIN table) > MaxResident

\* Mutant: the age of a tile speaks for it.
OldestScore(t) ==
  table[t].lastPriority + RecencyWeight * (tick - table[t].lastAccess)

KeepScore(t) ==
  table[t].lastPriority - RecencyWeight * (tick - table[t].lastAccess)

\* Mutant: the protected tiles are candidates.
AllCandidates == DOMAIN table

Candidates == DOMAIN table \ protected

StartEviction(ids) ==
  /\ ~evicting
  /\ evicting' = TRUE
  /\ protected' = ids
  /\ UNCHANGED <<table, used, tick>>

\* The hash table decides between candidates with the same score.
EvictWorst ==
  /\ evicting
  /\ OverBudget
  /\ \E worst \in Candidates :
       /\ \A t \in Candidates : KeepScore(worst) <= KeepScore(t)
       /\ used' = used - table[worst].bytes
       /\ table' = Restrict(table, DOMAIN table \ {worst})
  /\ UNCHANGED <<tick, evicting, protected>>

\* Mutant: the loop goes on while a budget is exceeded, victims or not.
EndWithinBudget ==
  /\ evicting
  /\ evicting' = OverBudget
  /\ OverBudget => Candidates = {}
  /\ UNCHANGED <<table, used, tick, protected>>

EndEviction ==
  /\ evicting
  /\ OverBudget => Candidates = {}
  /\ evicting' = FALSE
  /\ protected' = {}
  /\ UNCHANGED <<table, used, tick>>

Next ==
  \/ \E t \in Tiles, p \in Priorities :
       Touch(t, p) \/ \E bytes \in Sizes : Put(t, bytes, p)
  \/ AdvanceFrame
  \/ \E ids \in SUBSET Tiles : StartEviction(ids)
  \/ EvictWorst
  \/ EndEviction

Spec == Init /\ [][Next]_cacheVars /\ WF_cacheVars(EvictWorst \/ EndEviction)
-----------------------------------------------------------------------------
View == [t \in DOMAIN table |-> table[t].bytes]
Contract == INSTANCE CacheContract WITH cache <- View

\* The running total is the sum of the sizes: replacing a tile by one of
\* another size, or evicting it, gives back what it was counted with.
UsedIsSum == used = Contract!BytesOf(View)

(***************************************************************************)
(* What StreamingManager relies on: outside an eviction no tile goes, an   *)
(* eviction takes only unprotected tiles and only while a budget is        *)
(* exceeded, and it ends within budget or with protected tiles only.       *)
(***************************************************************************)
KeepsContract ==
  /\ Contract!CacheInit
  /\ [][\/ ~evicting /\ \E t \in Tiles, b \in Sizes : Contract!PutTile(t, b)
        \/ evicting /\ \E t \in Tiles : Contract!EvictTile(t, protected)]_View
  /\ [][evicting /\ ~evicting' => Contract!EvictionDone(protected)]_cacheVars

\* keepScore folds recency and priority into one number without contradicting
\* either: of two evictable tiles, the one that was neither more important nor
\* more recently used than the other is not kept in its place.
NoBetterThan(t, u) ==
  /\ table[t].lastPriority <= table[u].lastPriority
  /\ table[t].lastAccess <= table[u].lastAccess
  /\ \/ table[t].lastPriority < table[u].lastPriority
     \/ table[t].lastAccess < table[u].lastAccess

WorseGoesFirst ==
  [][\A t, u \in Candidates :
       evicting /\ NoBetterThan(t, u) /\ u \notin DOMAIN table' =>
         t \notin DOMAIN table']_cacheVars

\* evictToBudget returns: every round evicts a tile or leaves the loop.
EvictionEnds == evicting ~> ~evicting
=============================================================================
