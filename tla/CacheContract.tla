--------------------------- MODULE CacheContract ---------------------------
(***************************************************************************)
(* What StreamingManager relies on in TileCache: it holds a size for every *)
(* cached tile, and evicts, one at a time, tiles that are not protected,   *)
(* until every budget is met or only protected tiles are left.  Which of   *)
(* them goes first is left open; TileCache decides by keepScore.           *)
(***************************************************************************)
EXTENDS Naturals, FiniteSets, Functions

CONSTANTS
  CpuBudget,      \* cpuBudgetBytes
  GpuBudget,      \* gpuBudgetBytes
  MaxResident     \* maxResidentTiles

ASSUME BudgetAssumption ==
  CpuBudget \in Nat /\ GpuBudget \in Nat /\ MaxResident \in Nat

VARIABLE cache   \* cache[t]: the bytes of each cached tile t

BytesOf(sizes) == SumFunction(sizes)

\* The GPU figure mirrors the CPU one.
OverBudget ==
  \/ BytesOf(cache) > CpuBudget
  \/ BytesOf(cache) > GpuBudget
  \/ Cardinality(DOMAIN cache) > MaxResident

CacheInit == cache = [t \in {} |-> 0]

PutTile(t, bytes) ==
  cache' = [u \in DOMAIN cache \cup {t} |-> IF u = t THEN bytes ELSE cache[u]]

\* Mutant: the protected tiles are not spared.
EvictAnyTile(t, protected) ==
  /\ OverBudget
  /\ t \in DOMAIN cache
  /\ cache' = Restrict(cache, DOMAIN cache \ {t})

EvictTile(t, protected) ==
  /\ OverBudget
  /\ t \in DOMAIN cache \ protected
  /\ cache' = Restrict(cache, DOMAIN cache \ {t})

\* The loop of evictToBudget has nothing left to do.
EvictionDone(protected) == OverBudget => DOMAIN cache \subseteq protected
=============================================================================
