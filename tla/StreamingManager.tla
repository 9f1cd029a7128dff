-------------------------- MODULE StreamingManager --------------------------
(***************************************************************************)
(* sdk/src/streaming/StreamingManager.cpp on top of the worker pool and    *)
(* the cache.  update() runs on the main thread in passes; between any two *)
(* of its calls into the pool the workers run, so each call (and each      *)
(* iteration of a pass that makes one) is an action.  An entry that is not *)
(* in m_entries is in state Unloaded, as stateOf() reports it.             *)
(***************************************************************************)
EXTENDS WorkerPool, ResourceState, CacheContract

CONSTANTS
  TileBytes,       \* TileBytes[t]: estimateTileMemoryBytes of tile t
  MaxNewRequests   \* maxNewRequestsPerUpdate

ASSUME StreamingAssumption ==
  /\ TileBytes \in [Tiles -> Nat]
  /\ MaxNewRequests \in Nat

VARIABLES
  entries,   \* entries[t]: the state of t in m_entries
  desired,   \* the desired set of the current (or last) update()
  phase,     \* the pass update() is in
  batch,     \* what drainCompleted() returned and is still to be processed
  todo,      \* the entries a pass over m_entries has still to visit
  issued     \* requests issued so far by the last pass

mainVars == <<entries, desired, phase, batch, todo, issued, cache>>
vars == <<queueVars, poolVars, mainVars>>

Tracked == {"Requested", "Loading"}

TypeOK ==
  /\ QueueTypeOK
  /\ PoolTypeOK
  /\ entries \in [Tiles -> Tracked \cup {"Unloaded", "Resident"}]
  /\ desired \subseteq Tiles
  /\ phase \in {"idle", "results", "promote", "cancel", "evict", "issue",
                "joining", "destroyed"}
  /\ batch \in Seq(Completion)
  /\ todo \subseteq Tiles
  /\ issued \in 0 .. MaxNewRequests
  /\ DOMAIN cache \subseteq Tiles

Init ==
  /\ PoolInit
  /\ CacheInit
  /\ entries = [t \in Tiles |-> "Unloaded"]
  /\ desired = {}
  /\ phase = "idle"
  /\ batch = <<>>
  /\ todo = {}
  /\ issued = 0
-----------------------------------------------------------------------------
\* transition(): an entry that reaches Unloaded is erased from m_entries.
Move(t, to) == entries' = [entries EXCEPT ![t] = to]

InState(S) == {t \in Tiles : entries[t] \in S}

\* Where the camera is decides the desired set.  The ticks and touches of the
\* cache change no more than the order of later evictions.
BeginUpdate ==
  /\ phase = "idle"
  /\ Len(heap) + Cardinality(Tiles) <= MaxHeap
  /\ \E D \in SUBSET Tiles : desired' = D
  /\ batch' = completed
  /\ DrainCompleted
  /\ phase' = "results"
  /\ UNCHANGED <<queueVars, at, loaded, inFlight, entries, todo, issued, cache>>

\* A result nobody waits for: the entry was erased, or an earlier result for
\* the same tile made it Resident.
IgnoreResult(r) ==
  /\ entries[r.id] \notin Tracked
  /\ UNCHANGED <<entries, cache>>

\* Mutant: the catch-up transition is left out.
NotCaughtUp(t) == entries[t]

\* The worker may finish before the promotion pass has seen it in flight.
CaughtUp(t) ==
  IF entries[t] = "Requested" THEN Transition("Requested", "Loading") ELSE entries[t]

DiscardResult(r) ==
  /\ entries[r.id] \in Tracked
  /\ r.id \notin desired
  /\ Move(r.id, Transition(CaughtUp(r.id), "Unloaded"))
  /\ UNCHANGED cache

\* Mutant: a tile that is no longer desired is kept.
LandUndesired(r) ==
  /\ entries[r.id] \in Tracked
  /\ r.ok
  /\ Move(r.id, Landed(CaughtUp(r.id)))
  /\ PutTile(r.id, TileBytes[r.id])

LandResult(r) ==
  /\ entries[r.id] \in Tracked
  /\ r.id \in desired
  /\ r.ok
  /\ Move(r.id, Landed(CaughtUp(r.id)))
  /\ PutTile(r.id, TileBytes[r.id])

\* Mutant: the entry of a failed load is not erased.
FailAndKeep(r) ==
  /\ entries[r.id] \in Tracked
  /\ r.id \in desired
  /\ ~r.ok
  /\ Move(r.id, CaughtUp(r.id))
  /\ UNCHANGED cache

FailResult(r) ==
  /\ entries[r.id] \in Tracked
  /\ r.id \in desired
  /\ ~r.ok
  /\ Move(r.id, Transition(CaughtUp(r.id), "Unloaded"))
  /\ UNCHANGED cache

ProcessResult ==
  /\ phase = "results"
  /\ batch # <<>>
  /\ LET r == Head(batch) IN
       IgnoreResult(r) \/ DiscardResult(r) \/ LandResult(r) \/ FailResult(r)
  /\ batch' = Tail(batch)
  /\ UNCHANGED <<queueVars, poolVars, desired, phase, todo, issued>>

EndResults ==
  /\ phase = "results"
  /\ batch = <<>>
  /\ phase' = "promote"
  /\ todo' = InState({"Requested"})
  /\ UNCHANGED <<queueVars, poolVars, entries, desired, batch, issued, cache>>

Promote(t) ==
  /\ phase = "promote"
  /\ t \in todo
  /\ IF IsInFlight(t)
       THEN Move(t, Transition(entries[t], "Loading"))
       ELSE UNCHANGED entries
  /\ todo' = todo \ {t}
  /\ UNCHANGED <<queueVars, poolVars, desired, phase, batch, issued, cache>>

\* Resident and desired entries are skipped, Loading ones left alone.
EndPromotion ==
  /\ phase = "promote"
  /\ todo = {}
  /\ phase' = "cancel"
  /\ todo' = InState({"Requested"}) \ desired
  /\ UNCHANGED <<queueVars, poolVars, entries, desired, batch, issued, cache>>

CancelStale(t) ==
  /\ phase = "cancel"
  /\ t \in todo
  /\ Cancel(t)
  /\ Move(t, Transition(entries[t], "Unloaded"))
  /\ todo' = todo \ {t}
  /\ UNCHANGED <<poolVars, desired, phase, batch, issued, cache>>

EndCancellation ==
  /\ phase = "cancel"
  /\ todo = {}
  /\ phase' = "evict"
  /\ UNCHANGED <<queueVars, poolVars, entries, desired, batch, todo, issued,
                 cache>>

\* Mutant: the entry of a victim stays Resident.
EvictAndKeep(t) ==
  /\ phase = "evict"
  /\ EvictTile(t, desired)
  /\ UNCHANGED <<queueVars, poolVars, entries, desired, phase, batch, todo, issued>>

\* One victim of evictToBudget, and the transitions its id brings about.
EvictStale(t) ==
  /\ phase = "evict"
  /\ EvictTile(t, desired)
  /\ IF entries[t] = "Unloaded"
       THEN UNCHANGED entries
       ELSE Move(t, Evicted(entries[t]))
  /\ UNCHANGED <<queueVars, poolVars, desired, phase, batch, todo, issued>>

EndEviction ==
  /\ phase = "evict"
  /\ EvictionDone(desired)
  /\ phase' = "issue"
  /\ issued' = 0
  /\ UNCHANGED <<queueVars, poolVars, entries, desired, batch, todo, cache>>

\* The order of `desired' is that of the tile index: any.
Issue(t) ==
  /\ phase = "issue"
  /\ t \in desired \cap InState({"Unloaded"})
  /\ issued < MaxNewRequests
  /\ Move(t, Transition(entries[t], "Requested"))
  /\ \E p \in Priorities : Push([id |-> t, priority |-> p])
  /\ issued' = issued + 1
  /\ UNCHANGED <<poolVars, desired, phase, batch, todo, cache>>

EndUpdate ==
  /\ phase = "issue"
  /\ issued = MaxNewRequests \/ desired \cap InState({"Unloaded"}) = {}
  /\ phase' = "idle"
  /\ issued' = 0
  /\ UNCHANGED <<queueVars, poolVars, entries, desired, batch, todo, cache>>

\* ~StreamingManager: the pool is told to stop and its threads are joined.
Destroy ==
  /\ phase = "idle"
  /\ Shutdown
  /\ phase' = "joining"
  /\ UNCHANGED <<poolVars, entries, desired, batch, todo, issued, cache>>

Join ==
  /\ phase = "joining"
  /\ Joinable
  /\ phase' = "destroyed"
  /\ UNCHANGED <<queueVars, poolVars, entries, desired, batch, todo, issued,
                 cache>>

Destroyed == phase = "destroyed" /\ UNCHANGED vars
-----------------------------------------------------------------------------
UpdateStep ==
  \/ BeginUpdate \/ ProcessResult \/ EndResults
  \/ \E t \in Tiles : Promote(t) \/ CancelStale(t) \/ EvictStale(t) \/ Issue(t)
  \/ EndPromotion \/ EndCancellation \/ EndEviction \/ EndUpdate

WorkersStep ==
  \E w \in Workers : (WorkerStep(w) \/ WorkerWakesUp(w)) /\ UNCHANGED mainVars

Next == UpdateStep \/ WorkersStep \/ Destroy \/ Join \/ Destroyed

Spec == Init /\ [][Next]_vars

\* The frame loop calls update() every frame, ~WorkerPool waits in join, and
\* the operating system runs every thread that is not blocked.
FairSpec ==
  /\ Spec
  /\ WF_vars(UpdateStep)
  /\ WF_vars(Join)
  /\ \A w \in Workers : WF_vars(WorkerStep(w) /\ UNCHANGED mainVars)
-----------------------------------------------------------------------------
HasResult(results, t) == \E i \in DOMAIN results : results[i].id = t

(***************************************************************************)
(* No tile is stuck: a tile the manager waits for is on its way, queued,   *)
(* in the hands of a worker, or in a result still to be processed.  A      *)
(* Requested or Loading entry is never requested again, so one without a   *)
(* load behind it would stay missing for as long as it is desired.         *)
(***************************************************************************)
InHand(t) ==
  \/ \E w \in Workers : Holds(w, t)
  \/ HasResult(completed, t)
  \/ HasResult(batch, t)

OnItsWay(t) == t \in pending \/ InHand(t)

NoTileIsStuck == \A t \in InState(Tracked) : OnItsWay(t)

(***************************************************************************)
(* update() leaves a Loading tile alone when it is no longer desired,      *)
(* because its load cannot be taken back.  So Loading must be true: a      *)
(* worker has the tile, or its result is still to be processed.  That it   *)
(* is queued is not enough, though it may be queued as well; then it would *)
(* have to be cancelled.  The promotion pass asks m_inFlight, which knows  *)
(* ids and not loads, while workers with the same id come and go.          *)
(***************************************************************************)
LoadingIsInHand == \A t \in InState({"Loading"}) : InHand(t)

\* The assert in transition() never fires, however results, promotions and
\* cancellations interleave with the workers.
TransitionsAreLegal == InState({Aborted}) = {}

\* m_entries and m_cache agree on what is resident, after each step of the
\* passes: residentTile() of a Resident tile is never null.
CacheHoldsResidents == DOMAIN cache = InState({"Resident"})

\* A tile is requested or made resident only while desired, and unloaded only
\* while not: see TileLifecycle.
Promised == INSTANCE TileLifecycle WITH state <- entries
KeepsLifecycle == Promised!Spec

(***************************************************************************)
(* Once the camera rests and loads no longer fail, every tile in its       *)
(* radius becomes resident and stays so, however often it failed or was    *)
(* cancelled before, and no worker is kept busy with loads that are no     *)
(* longer wanted.  While loads fail nothing is promised: a tile that fails *)
(* is requested again by every update(), and a throttle or workers busy    *)
(* with it may keep the tiles behind it waiting.                           *)
(***************************************************************************)
AllOk(results) == \A i \in DOMAIN results : results[i].ok

CameraRests(D) == desired = D /\ ~stopped /\ AllOk(completed) /\ AllOk(batch)

AtRest(D) ==
  /\ D \subseteq InState({"Resident"})
  /\ pending = {}
  /\ \A w \in Workers : job[w] = NoRequest

SettlesAtRest == \A D \in SUBSET Tiles : <>[]CameraRests(D) => <>[]AtRest(D)
=============================================================================
