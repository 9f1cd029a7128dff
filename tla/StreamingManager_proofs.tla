----------------------- MODULE StreamingManager_proofs -----------------------
(***************************************************************************)
(* The worker pool and its owner, for any dataset, any number of worker    *)
(* threads, any loader, any budgets and throttle.                          *)
(*                                                                         *)
(* First the pool by itself: what isInFlight() tells of the loads, and     *)
(* that it keeps what RequestQueue_proofs has of the queue.  What any      *)
(* worker's step does is stated without the owner.                         *)
(*                                                                         *)
(* Then the streaming manager: every tile it waits for is on its way, one  *)
(* in Loading is in a worker's hands or has a result, the assert in        *)
(* transition() never fires, the cache holds exactly the resident tiles,   *)
(* and each tile goes through the lifecycle of TileLifecycle.              *)
(***************************************************************************)
EXTENDS StreamingManager, RequestQueue_proofs

\* A worker has a request exactly between its pop() and its delivery, and sleeps
\* only without one.
JobsAreRunning ==
  /\ \A w \in Workers : (job[w] # NoRequest) <=> HasJob(w)
  /\ \A w \in waiting \cup woken : at[w] = "pop"

\* workerLoop ends only when what was accepted and not cancelled is handed out.
ExitsAfterDraining == \A w \in Workers : at[w] = "exited" => stopped /\ pending = {}

\* The inductive invariant.  ExitsAfterDraining needs PendingInHeap of the queue:
\* the pop() that ends a thread has seen an empty heap, not an empty m_pending.
PoolInv ==
  /\ QueueInv
  /\ HeapInOrder
  /\ PoolTypeOK
  /\ JobsAreRunning
  /\ InFlightIsLoading
  /\ ExitsAfterDraining

\* To the queue a worker is a thread that pops, and that drops what it popped.
LEMMA WorkersKeepQueue ==
  ASSUME QueueInv, NEW w \in Workers, WorkerStep(w) \/ WorkerWakesUp(w)
  PROVE  QueueInv'
<1>1. CASE WorkerPop(w)
  BY <1>1, PopKeeps DEF WorkerPop, Pop, PopTakesJob, PopBlocks, PopEndsThread
<1>2. CASE UNCHANGED queueVars
  BY <1>2, QueueInvStep
<1>3. CASE Register(w) \/ FinishLoad(w)
  BY <1>2, <1>3 DEF Register, FinishLoad
<1>4. CASE Deliver(w)
  <2>1. QueueTypeOK'
    BY <1>4 DEF Deliver, QueueInv, QueueTypeOK
  <2> QED BY <1>4, <2>1 DEF Deliver, QueueInv, WakeupsCoverHeap,
                            NobodySleepsAfterShutdown, PendingInHeap
<1>5. CASE WorkerWakesUp(w)
  BY <1>5, SpuriousKeeps DEF WorkerWakesUp
<1> QED BY <1>1, <1>3, <1>4, <1>5 DEF WorkerStep

\* Worker and position remain in step: a request is in hand from pop() to delivery.
LEMMA WorkersKeepPool ==
  ASSUME QueueTypeOK, PoolTypeOK, JobsAreRunning,
         NEW w \in Workers, WorkerStep(w) \/ WorkerWakesUp(w)
  PROVE  PoolTypeOK' /\ JobsAreRunning'
<1> USE DEF HasJob, Goto
<1>1. CASE WorkerPop(w)
  <2>1. job[w] = NoRequest
    BY <1>1 DEF WorkerPop, JobsAreRunning
  <2>2. CASE PopTakesJob(w)
    <3>1. PICK r \in Request : job' = [job EXCEPT ![w] = r]
      <4>1. \A i \in Live : heap[i] \in Request
        BY DEF Live, QueueTypeOK
      <4> QED BY <2>2, <4>1 DEF PopTakesJob, PopTakes
    <3>2. r # NoRequest
      BY QueueAssumption
    <3>3. at' = [at EXCEPT ![w] = "register"] /\ w \notin waiting' \cup woken'
      BY <1>1, <2>2 DEF PopTakesJob, PopTakes, WorkerPop, QueueTypeOK
    <3>4. waiting' \cup woken' \subseteq waiting \cup woken
      BY <2>2 DEF PopTakesJob, PopTakes
    <3> QED BY <1>1, <3>1, <3>2, <3>3, <3>4
            DEF WorkerPop, PoolTypeOK, JobsAreRunning, QueueTypeOK
  <2>3. CASE PopBlocks(w)
    BY <1>1, <2>3 DEF WorkerPop, PopBlocks, PopWaits, PoolTypeOK, JobsAreRunning
  <2>4. CASE PopEndsThread(w)
    BY <1>1, <2>1, <2>4
       DEF WorkerPop, PopEndsThread, PopEnds, PoolTypeOK, JobsAreRunning, QueueTypeOK
  <2> QED BY <1>1, <2>2, <2>3, <2>4 DEF WorkerPop
<1>2. ASSUME HasJob(w)
      PROVE  job[w] \in Request /\ job[w].id \in Tiles
  BY <1>2 DEF JobsAreRunning, QueueTypeOK, Request
<1>3. CASE Register(w)
  BY <1>2, <1>3 DEF Register, queueVars, PoolTypeOK, JobsAreRunning
<1>4. CASE FinishLoad(w)
  <2>1. \A ok \in Outcomes[job[w].id] : ok \in BOOLEAN
    BY <1>2, <1>4, OutcomeAssumption DEF FinishLoad
  <2> QED BY <1>2, <1>4, <2>1 DEF FinishLoad, queueVars, PoolTypeOK, JobsAreRunning
<1>5. CASE Deliver(w)
  <2>1. completed' \in Seq(Completion)
    BY <1>2, <1>5 DEF Deliver, PoolTypeOK, Completion
  <2> QED BY <1>5, <2>1 DEF Deliver, PoolTypeOK, JobsAreRunning, QueueTypeOK
<1>6. CASE WorkerWakesUp(w)
  BY <1>6 DEF WorkerWakesUp, SpuriousWakeup, poolVars, PoolTypeOK, JobsAreRunning
<1> QED BY <1>1, <1>3, <1>4, <1>5, <1>6 DEF WorkerStep

\* A worker's step is a pop(), or leaves heap, pending ids and requests as they are
\* but for the request that is delivered.
LEMMA WorkersPopOrKeep ==
  ASSUME NEW w \in Workers, WorkerStep(w) \/ WorkerWakesUp(w)
  PROVE  \/ Pop(w)
         \/ UNCHANGED <<heap, job>>
         \/ heap' = heap /\ job' = [job EXCEPT ![w] = NoRequest]
BY DEF WorkerStep, WorkerPop, Pop, PopTakesJob, PopBlocks, PopEndsThread, Register,
       FinishLoad, Deliver, WorkerWakesUp, SpuriousWakeup, queueVars

\* m_inFlight holds the ids whose loaders run: a worker takes its own id out before
\* it stops loading, and the id of another that loads the same tile with it.
LEMMA WorkersKeepInFlight ==
  ASSUME QueueTypeOK, PoolTypeOK, JobsAreRunning, InFlightIsLoading,
         NEW w \in Workers, WorkerStep(w) \/ WorkerWakesUp(w)
  PROVE  InFlightIsLoading'
<1> USE DEF Holds
<1>1. /\ at \in [Workers -> {"pop", "register", "load", "deliver", "exited"}]
      /\ job \in [Workers -> Request \cup {NoRequest}]
  BY DEF QueueTypeOK, PoolTypeOK
<1> SUFFICES ASSUME NEW id \in inFlight'
             PROVE  \E v \in Workers : at'[v] = "load" /\ Holds(v, id)'
  BY DEF InFlightIsLoading
<1>2. CASE WorkerPop(w)
  <2>1. PICK v \in Workers : at[v] = "load" /\ Holds(v, id)
    BY <1>2 DEF WorkerPop, InFlightIsLoading
  <2>2. v # w
    BY <1>2, <2>1 DEF WorkerPop
  <2>3. at'[v] = at[v]
    BY <1>1, <1>2, <2>2
       DEF WorkerPop, PopTakesJob, PopBlocks, PopEndsThread, Goto
  <2>4. job'[v] = job[v]
    BY <1>1, <1>2, <2>2
       DEF WorkerPop, PopTakesJob, PopBlocks, PopEndsThread, PopTakes, PopWaits, PopEnds
  <2> QED BY <2>1, <2>3, <2>4
<1>3. CASE Register(w)
  <2>1. at' = [at EXCEPT ![w] = "load"] /\ job' = job
    BY <1>3 DEF Register, Goto, queueVars
  <2>2. CASE id = job[w].id
    <3>1. job[w] # NoRequest
      BY <1>3 DEF Register, JobsAreRunning, HasJob
    <3> QED BY <1>1, <2>1, <2>2, <3>1
  <2>3. CASE id # job[w].id
    <3>1. PICK v \in Workers : at[v] = "load" /\ Holds(v, id)
      BY <1>3, <2>3 DEF Register, InFlightIsLoading
    <3> QED BY <1>1, <2>1, <3>1
  <2> QED BY <2>2, <2>3
<1>4. CASE FinishLoad(w)
  <2>1. at' = [at EXCEPT ![w] = "deliver"] /\ job' = job /\ id # job[w].id
    BY <1>4 DEF FinishLoad, Goto, queueVars
  <2>2. PICK v \in Workers : at[v] = "load" /\ Holds(v, id)
    BY <1>4 DEF FinishLoad, InFlightIsLoading
  <2> QED BY <1>1, <2>1, <2>2
<1>5. CASE Deliver(w)
  <2>1. PICK v \in Workers : at[v] = "load" /\ Holds(v, id)
    BY <1>5 DEF Deliver, InFlightIsLoading
  <2>2. v # w
    BY <1>5, <2>1 DEF Deliver
  <2> QED BY <1>1, <1>5, <2>1, <2>2 DEF Deliver, Goto
<1>6. CASE WorkerWakesUp(w)
  BY <1>6 DEF WorkerWakesUp, SpuriousWakeup, poolVars, InFlightIsLoading
<1> QED BY <1>2, <1>3, <1>4, <1>5, <1>6 DEF WorkerStep

\* A thread ends only in a pop() that finds the queue shut down and nothing live in
\* the heap, so nothing pending; after that no pop() has anything to take.
LEMMA WorkersKeepExits ==
  ASSUME QueueInv, PoolTypeOK, ExitsAfterDraining,
         NEW w \in Workers, WorkerStep(w) \/ WorkerWakesUp(w)
  PROVE  ExitsAfterDraining'
<1>1. pending' \subseteq pending /\ stopped' = stopped
  BY DEF WorkerStep, WorkerPop, PopTakesJob, PopBlocks, PopEndsThread, PopTakes,
         PopWaits, PopEnds, Register, FinishLoad, Deliver, WorkerWakesUp,
         SpuriousWakeup, queueVars
<1> SUFFICES ASSUME NEW v \in Workers, at'[v] = "exited"
             PROVE  stopped' /\ pending' = {}
  BY DEF ExitsAfterDraining
<1>2. CASE at[v] = "exited"
  BY <1>1, <1>2 DEF ExitsAfterDraining
<1>3. CASE at[v] # "exited"
  <2>1. PopEnds(w)
    BY <1>3 DEF PoolTypeOK, WorkerStep, WorkerPop, PopTakesJob, PopBlocks,
                PopEndsThread, Register, FinishLoad, Deliver, WorkerWakesUp, Goto,
                poolVars
  <2> QED BY <1>1, <2>1, NothingPending DEF PopEnds
<1> QED BY <1>2, <1>3

LEMMA WorkersKeepPoolInv ==
  ASSUME PoolInv, NEW w \in Workers, WorkerStep(w) \/ WorkerWakesUp(w)
  PROVE  PoolInv'
<1>1. QueueInv'
  BY WorkersKeepQueue DEF PoolInv
<1>2. HeapInOrder'
  <2>1. CASE Pop(w)
    BY <2>1, PopKeepsOrder DEF PoolInv, QueueInv
  <2>2. CASE heap' = heap
    BY <2>2 DEF PoolInv, HeapInOrder
  <2> QED BY <2>1, <2>2, WorkersPopOrKeep
<1>3. PoolTypeOK' /\ JobsAreRunning'
  BY WorkersKeepPool DEF PoolInv, QueueInv
<1>4. InFlightIsLoading'
  BY WorkersKeepInFlight DEF PoolInv, QueueInv
<1>5. ExitsAfterDraining'
  BY WorkersKeepExits DEF PoolInv
<1> QED BY <1>1, <1>2, <1>3, <1>4, <1>5 DEF PoolInv
-----------------------------------------------------------------------------
\* The owner of WorkerPool pushes only before it shuts the queue down, so no thread
\* has ended when an id becomes pending.
LEMMA OwnerKeeps ==
  ASSUME PoolInv, Owner
  PROVE  PoolInv'
<1> USE DEF PoolInv
<1>1. ASSUME NEW r \in Request, ~stopped, Push(r), UNCHANGED poolVars
      PROVE  PoolInv'
  <2>1. QueueInv' /\ HeapInOrder'
    BY <1>1, PushKeeps, PushKeepsOrder
  <2>2. job' = job /\ stopped' = stopped /\ waiting' \cup woken' \subseteq waiting \cup woken
    BY <1>1 DEF Push, NotifyOne
  <2>3. PoolTypeOK' /\ JobsAreRunning' /\ InFlightIsLoading'
    BY <1>1, <2>2 DEF poolVars, PoolTypeOK, JobsAreRunning, HasJob, InFlightIsLoading, Holds
  <2>4. ExitsAfterDraining'
    BY <1>1, <2>2 DEF poolVars, ExitsAfterDraining
  <2> QED BY <2>1, <2>3, <2>4
<1>2. ASSUME NEW id \in Tiles, Cancel(id), UNCHANGED poolVars
      PROVE  PoolInv'
  <2>1. QueueInv'
    BY <1>2, CancelKeeps
  <2> QED BY <1>2, <2>1
          DEF Cancel, HeapInOrder, poolVars, PoolTypeOK, JobsAreRunning, HasJob,
              InFlightIsLoading, Holds, ExitsAfterDraining
<1>3. CASE DrainCompleted /\ UNCHANGED <<queueVars, at, loaded, inFlight>>
  <2>1. QueueInv'
    BY <1>3, QueueInvStep
  <2> QED BY <1>3, <2>1
          DEF DrainCompleted, queueVars, HeapInOrder, PoolTypeOK, JobsAreRunning, HasJob,
              InFlightIsLoading, Holds, ExitsAfterDraining
<1>4. CASE Shutdown /\ UNCHANGED poolVars
  <2>1. QueueInv'
    BY <1>4, ShutdownKeeps
  <2>2. PoolTypeOK' /\ InFlightIsLoading' /\ ExitsAfterDraining' /\ HeapInOrder'
    BY <1>4 DEF Shutdown, HeapInOrder, poolVars, PoolTypeOK, InFlightIsLoading, Holds,
                ExitsAfterDraining
  <2>3. JobsAreRunning'
    BY <1>4 DEF Shutdown, NotifyAll, poolVars, JobsAreRunning, HasJob
  <2> QED BY <2>1, <2>2, <2>3
<1> QED BY <1>1, <1>2, <1>3, <1>4 DEF Owner

LEMMA PoolInvInit == PoolInit => PoolInv
<1> SUFFICES ASSUME PoolInit PROVE PoolInv
  OBVIOUS
<1>1. QueueInv /\ HeapInOrder
  BY QueueInvInit, OrderInit DEF PoolInit
<1>2. PoolTypeOK
  BY DEF PoolInit, PoolTypeOK
<1>3. JobsAreRunning /\ InFlightIsLoading /\ ExitsAfterDraining
  BY DEF PoolInit, QueueInit, JobsAreRunning, HasJob, InFlightIsLoading,
         ExitsAfterDraining
<1> QED BY <1>1, <1>2, <1>3 DEF PoolInv

LEMMA PoolInvStep == PoolInv /\ [PoolNext]_<<queueVars, poolVars>> => PoolInv'
<1> SUFFICES ASSUME PoolInv, [PoolNext]_<<queueVars, poolVars>> PROVE PoolInv'
  OBVIOUS
<1>1. CASE Owner
  BY <1>1, OwnerKeeps
<1>2. ASSUME NEW w \in Workers, WorkerStep(w) \/ WorkerWakesUp(w) PROVE PoolInv'
  BY <1>2, WorkersKeepPoolInv
<1>3. CASE UNCHANGED <<queueVars, poolVars>>
  <2>1. QueueInv'
    BY <1>3, QueueInvStep DEF PoolInv
  <2> QED BY <1>3, <2>1
          DEF queueVars, poolVars, PoolInv, HeapInOrder, PoolTypeOK, JobsAreRunning,
              HasJob, InFlightIsLoading, Holds, ExitsAfterDraining
<1> QED BY <1>1, <1>2, <1>3 DEF PoolNext
-----------------------------------------------------------------------------
\* The invariant holds in every state of the pool.
THEOREM PoolInvariant == PoolSpec => []PoolInv
BY PoolInvInit, PoolInvStep, PTL DEF PoolSpec

\* A load drops out of the in-flight set before its end only when FinishLoad of
\* another worker erases the id they share: pop() and Deliver() leave the set alone
\* and Register() adds to it.
LEMMA LosesSightOnlyToAnother ==
  ASSUME PoolInv, NEW v \in Workers, WorkerStep(v) \/ WorkerWakesUp(v),
         NEW w \in Workers, Unseen(w)', ~Unseen(w)
  PROVE  AnotherEnds(w)
<1>1. /\ at \in [Workers -> {"pop", "register", "load", "deliver", "exited"}]
      /\ job \in [Workers -> Request \cup {NoRequest}]
  BY DEF PoolInv, QueueInv, QueueTypeOK, PoolTypeOK
<1>2. at'[w] = "load" /\ job'[w].id \notin inFlight'
  BY DEF Unseen
<1>3. CASE WorkerPop(v)
  <2>1. v # w
    BY <1>1, <1>2, <1>3
       DEF WorkerPop, PopTakesJob, PopBlocks, PopEndsThread, Goto
  <2>2. at'[w] = at[w] /\ job'[w] = job[w] /\ inFlight' = inFlight
    BY <1>1, <1>3, <2>1 DEF WorkerPop, PopTakesJob, PopBlocks, PopEndsThread, Goto,
                            PopTakes, PopWaits, PopEnds
  <2> QED BY <1>2, <2>2 DEF Unseen
<1>4. CASE Register(v)
  <2>1. at' = [at EXCEPT ![v] = "load"] /\ job' = job
        /\ inFlight' = inFlight \cup {job[v].id}
    BY <1>4 DEF Register, Goto, queueVars
  <2>2. v # w
    BY <1>2, <2>1
  <2> QED BY <1>1, <1>2, <2>1, <2>2 DEF Unseen
<1>5. CASE FinishLoad(v)
  <2>1. at' = [at EXCEPT ![v] = "deliver"] /\ job' = job
        /\ inFlight' = inFlight \ {job[v].id} /\ at[v] = "load"
    BY <1>5 DEF FinishLoad, Goto, queueVars
  <2>2. v # w /\ at[w] = "load"
    BY <1>1, <1>2, <2>1
  <2>3. job[v].id = job[w].id
    BY <1>2, <2>1, <2>2 DEF Unseen
  <2> QED BY <1>1, <2>1, <2>2, <2>3 DEF AnotherEnds
<1>6. CASE Deliver(v)
  <2>1. at' = [at EXCEPT ![v] = "pop"] /\ job' = [job EXCEPT ![v] = NoRequest]
        /\ inFlight' = inFlight
    BY <1>6 DEF Deliver, Goto
  <2>2. v # w
    BY <1>1, <1>2, <2>1
  <2> QED BY <1>1, <1>2, <2>1, <2>2 DEF Unseen
<1>7. CASE WorkerWakesUp(v)
  BY <1>2, <1>7 DEF WorkerWakesUp, SpuriousWakeup, poolVars, Unseen
<1> QED BY <1>3, <1>4, <1>5, <1>6, <1>7 DEF WorkerStep

\* isInFlight() is never true of a load that is over, and it does not lose sight of
\* one that runs unless another load of the same tile ends.
THEOREM InFlightIsTold == PoolSpec => InFlightTellsLoads
<1>1. PoolInv => InFlightIsLoading
  BY DEF PoolInv
<1>2. PoolInv /\ [PoolNext]_<<queueVars, poolVars>> =>
        [\A w \in Workers :
           Unseen(w)' /\ ~Unseen(w) => AnotherEnds(w)]_<<queueVars, poolVars>>
  <2> SUFFICES ASSUME PoolInv, PoolNext,
                      NEW w \in Workers, Unseen(w)', ~Unseen(w)
               PROVE  AnotherEnds(w)
    OBVIOUS
  <2>1. CASE Owner
    <3>1. at' = at /\ job' = job /\ inFlight' = inFlight
      BY <2>1 DEF Owner, Push, Cancel, Shutdown, queueVars, poolVars
    <3> QED BY <3>1 DEF Unseen
  <2>2. ASSUME NEW v \in Workers, WorkerStep(v) \/ WorkerWakesUp(v)
        PROVE  AnotherEnds(w)
    BY <2>2, LosesSightOnlyToAnother
  <2> QED BY <2>1, <2>2 DEF PoolNext
<1> QED BY <1>1, <1>2, PoolInvariant, PTL DEF PoolSpec, InFlightTellsLoads

\* A worker thread leaves workerLoop only when the queue is shut down and nothing
\* that was accepted and not cancelled is left to be handed out.
THEOREM WorkersDrain == PoolSpec => []ExitsAfterDraining
<1>1. PoolInv => ExitsAfterDraining
  BY DEF PoolInv
<1> QED BY <1>1, PoolInvariant, PTL

\* Worker threads lose no wakeup among them: none sleeps in m_cv.wait while the
\* heap has more entries than there are threads on their way to it.
THEOREM PoolLosesNoWakeup == PoolSpec => []WakeupsCoverHeap
<1>1. PoolInv => WakeupsCoverHeap
  BY DEF PoolInv, QueueInv
<1> QED BY <1>1, PoolInvariant, PTL

\* Nor a request: what is pending has an entry that a worker's pop() will meet.
THEOREM PoolLosesNoRequest == PoolSpec => []PendingInHeap
<1>1. PoolInv => PendingInHeap
  BY DEF PoolInv, QueueInv
<1> QED BY <1>1, PoolInvariant, PTL

\* A worker is handed the most urgent of what is pending, between any steps of the
\* other workers and of the owner.
THEOREM WorkersGetBestFirst == PoolSpec => PopsBestFirst
<1>1. PoolInv /\ [PoolNext]_<<queueVars, poolVars>> =>
        [\A w \in Workers :
           job'[w] # job[w] /\ job'[w] # NoRequest =>
             \A i \in DOMAIN heap' : heap'[i].id \in pending' =>
                heap'[i].priority <= job'[w].priority]_queueVars
  <2> SUFFICES ASSUME PoolInv, PoolNext, NEW v \in Workers
               PROVE  BestFirst(v)
    BY DEF BestFirst
  <2>1. job \in [Workers -> Request \cup {NoRequest}]
    BY DEF PoolInv, QueueInv, QueueTypeOK
  <2>2. CASE Owner
    BY <2>2 DEF Owner, Push, Cancel, Shutdown, queueVars, BestFirst
  <2>3. ASSUME NEW w \in Workers, WorkerStep(w) \/ WorkerWakesUp(w)
        PROVE  BestFirst(v)
    <3>1. CASE Pop(w)
      BY <3>1, PopIsBestFirst DEF PoolInv, QueueInv
    <3>2. CASE job' = job \/ job' = [job EXCEPT ![w] = NoRequest]
      BY <2>1, <3>2 DEF BestFirst
    <3> QED BY <2>3, <3>1, <3>2, WorkersPopOrKeep
  <2> QED BY <2>2, <2>3 DEF PoolNext
<1> QED BY <1>1, PoolInvariant, PTL DEF PoolSpec, PopsBestFirst
-----------------------------------------------------------------------------
\* What the passes of update() know of the lists they work on.
PassInv ==
  /\ phase # "results" => batch = <<>>
  /\ phase = "promote" => todo \subseteq InState({"Requested"})
  /\ phase = "cancel" => todo \subseteq InState({"Requested"}) \ desired
  /\ stopped => phase \in {"joining", "destroyed"}

\* The inductive invariant.  NoTileIsStuck needs that a worker about to pop()
\* has no request to lose (JobsAreRunning) and that update() starts with an
\* empty batch; TypeOK needs, to exclude Aborted, what the passes know; and
\* LoadingIsInHand needs that the promotion pass reads the truth in m_inFlight.
StreamInv ==
  /\ QueueInv
  /\ TypeOK
  /\ JobsAreRunning
  /\ PassInv
  /\ NoTileIsStuck
  /\ CacheHoldsResidents
  /\ InFlightIsLoading
  /\ LoadingIsInHand

\* The chains of transition() that the passes make are legal.
LEMMA LegalChains ==
  /\ Transition("Unloaded", "Requested") = "Requested"
  /\ Transition("Requested", "Loading") = "Loading"
  /\ Transition("Requested", "Unloaded") = "Unloaded"
  /\ Transition("Loading", "Unloaded") = "Unloaded"
  /\ Landed("Loading") = "Resident"
  /\ Evicted("Resident") = "Unloaded"
BY DEF Transition, IsValidTransition, Landed, Evicted

LEMMA CaughtUpIsLoading ==
  ASSUME NEW t, entries[t] \in Tracked
  PROVE  CaughtUp(t) = "Loading"
BY LegalChains DEF CaughtUp, Tracked
-----------------------------------------------------------------------------
\* Whatever a worker does, a tile in hand remains so: delivery moves it from the
\* worker to the results.
LEMMA WorkersHold ==
  ASSUME StreamInv, NEW w \in Workers, WorkerStep(w) \/ WorkerWakesUp(w),
         UNCHANGED mainVars, NEW t \in Tiles, InHand(t)
  PROVE  InHand(t)'
<1> USE DEF InHand
<1>1. batch' = batch
  BY DEF mainVars
<1>2. HasResult(batch, t) => HasResult(batch', t)
  BY <1>1
<1>3. job \in [Workers -> Request \cup {NoRequest}] /\ completed \in Seq(Completion)
  BY DEF StreamInv, TypeOK, QueueTypeOK, PoolTypeOK
<1>4. CASE WorkerPop(w)
  <2>1. completed' = completed
    BY <1>4 DEF WorkerPop
  <2>2. job[w] = NoRequest
    BY <1>4 DEF WorkerPop, StreamInv, JobsAreRunning, HasJob
  <2>3. CASE PopTakes(w)
    <3>1. PICK r : job' = [job EXCEPT ![w] = r]
      BY <2>3 DEF PopTakes
    <3>2. \A v \in Workers : Holds(v, t) => Holds(v, t)'
      BY <1>3, <2>2, <3>1 DEF Holds
    <3> QED BY <1>1, <2>1, <3>2
  <2>4. CASE PopWaits(w)
    BY <1>1, <2>1, <2>4 DEF PopWaits, Holds
  <2>5. CASE PopEnds(w)
    <3>1. job' = [job EXCEPT ![w] = NoRequest]
      BY <2>5 DEF PopEnds
    <3>2. \A v \in Workers : Holds(v, t) => Holds(v, t)'
      BY <1>3, <2>2, <3>1 DEF Holds
    <3> QED BY <1>1, <2>1, <3>1, <3>2
  <2> QED BY <1>4, <2>3, <2>4, <2>5 DEF WorkerPop, PopTakesJob, PopBlocks, PopEndsThread
<1>5. CASE Register(w)
  BY <1>1, <1>5 DEF Register, queueVars, Holds
<1>6. CASE FinishLoad(w)
  BY <1>1, <1>6 DEF FinishLoad, queueVars, Holds
<1>7. CASE Deliver(w)
  <2>1. /\ job' = [job EXCEPT ![w] = NoRequest]
        /\ completed' = Append(completed, [id |-> job[w].id, ok |-> loaded[w]])
    BY <1>7 DEF Deliver
  <2>2. HasResult(completed, t) => HasResult(completed', t)
    BY <1>3, <2>1 DEF HasResult
  <2>3. HasResult(completed', job[w].id)
    <3>1. completed'[Len(completed) + 1].id = job[w].id
      BY <1>3, <2>1
    <3> QED BY <1>3, <2>1, <3>1 DEF HasResult
  <2>4. \A v \in Workers \ {w} : Holds(v, t) => Holds(v, t)'
    BY <1>3, <2>1 DEF Holds
  <2>5. Holds(w, t) => job[w].id = t
    BY DEF Holds
  <2> QED BY <1>2, <2>1, <2>2, <2>3, <2>4, <2>5
<1>8. CASE WorkerWakesUp(w)
  BY <1>1, <1>8 DEF WorkerWakesUp, SpuriousWakeup, poolVars, Holds
<1> QED BY <1>4, <1>5, <1>6, <1>7, <1>8 DEF WorkerStep

\* And a tile that is on its way remains so: pop() moves it from the queue into
\* the worker's hands.
LEMMA WorkersCarry ==
  ASSUME StreamInv, NEW w \in Workers, WorkerStep(w) \/ WorkerWakesUp(w),
         UNCHANGED mainVars, NEW t \in Tiles, OnItsWay(t)
  PROVE  OnItsWay(t)'
<1>1. CASE InHand(t)
  BY <1>1, WorkersHold DEF OnItsWay
<1>2. CASE t \in pending /\ PopTakes(w)
  <2>1. PICK r \in Request : pending' = pending \ {r.id} /\ job' = [job EXCEPT ![w] = r]
    <3>1. \A i \in Live : heap[i] \in Request
      BY DEF Live, StreamInv, TypeOK, QueueTypeOK
    <3> QED BY <1>2, <3>1 DEF PopTakes
  <2>2. Holds(w, r.id)'
    BY <2>1, QueueAssumption DEF Holds, StreamInv, TypeOK, QueueTypeOK
  <2> QED BY <1>2, <2>1, <2>2 DEF OnItsWay, InHand
<1>3. PopTakes(w) \/ pending' = pending
  BY DEF WorkerStep, WorkerPop, PopTakesJob, PopBlocks, PopEndsThread, PopWaits,
         PopEnds, Register, FinishLoad, Deliver, WorkerWakesUp, SpuriousWakeup,
         queueVars
<1> QED BY <1>1, <1>2, <1>3 DEF OnItsWay

\* The workers keep the rest of the invariant: of the main thread's state they
\* touch nothing.
LEMMA WorkersKeep ==
  ASSUME StreamInv, NEW w \in Workers, WorkerStep(w) \/ WorkerWakesUp(w),
         UNCHANGED mainVars
  PROVE  StreamInv'
<1>1. QueueInv'
  BY WorkersKeepQueue DEF StreamInv
<1>2. PoolTypeOK' /\ JobsAreRunning'
  BY WorkersKeepPool DEF StreamInv, TypeOK
<1>3. TypeOK'
  BY <1>1, <1>2 DEF StreamInv, TypeOK, QueueInv, mainVars
<1>4. stopped' = stopped
  BY DEF WorkerStep, WorkerPop, PopTakesJob, PopBlocks, PopEndsThread, PopTakes,
         PopWaits, PopEnds, Register, FinishLoad, Deliver, WorkerWakesUp,
         SpuriousWakeup, queueVars
<1>5. PassInv'
  BY <1>4 DEF StreamInv, PassInv, mainVars, InState
<1>6. NoTileIsStuck'
  <2> SUFFICES ASSUME NEW t \in InState(Tracked) PROVE OnItsWay(t)'
    BY DEF NoTileIsStuck, mainVars, InState
  <2>1. t \in Tiles /\ OnItsWay(t)
    BY DEF StreamInv, NoTileIsStuck, InState
  <2> QED BY <2>1, WorkersCarry
<1>7. LoadingIsInHand'
  <2> SUFFICES ASSUME NEW t \in InState({"Loading"}) PROVE InHand(t)'
    BY DEF LoadingIsInHand, mainVars, InState
  <2>1. t \in Tiles /\ InHand(t)
    BY DEF StreamInv, LoadingIsInHand, InState
  <2> QED BY <2>1, WorkersHold
<1>8. InFlightIsLoading'
  BY WorkersKeepInFlight DEF StreamInv, TypeOK
<1>9. CacheHoldsResidents'
  BY DEF StreamInv, CacheHoldsResidents, mainVars, InState
<1> QED BY <1>1, <1>2, <1>3, <1>5, <1>6, <1>7, <1>8, <1>9 DEF StreamInv
-----------------------------------------------------------------------------
\* What StreamInv says of queue and workers.
PoolPart ==
  /\ QueueInv
  /\ QueueTypeOK
  /\ PoolTypeOK
  /\ JobsAreRunning
  /\ InFlightIsLoading

\* The steps of the main thread that leave queue and workers alone.
LEMMA PoolKept ==
  ASSUME StreamInv, UNCHANGED <<queueVars, poolVars>>
  PROVE  PoolPart'
<1>1. QueueInv'
  BY QueueInvStep DEF StreamInv
<1>2. PoolTypeOK' /\ JobsAreRunning' /\ InFlightIsLoading'
  BY DEF StreamInv, TypeOK, PoolTypeOK, JobsAreRunning, HasJob, InFlightIsLoading,
         Holds, queueVars, poolVars
<1> QED BY <1>1, <1>2 DEF PoolPart, QueueInv

\* While workers and results stay as they are, so does what is in hand; and with
\* the queue what is on its way.
LEMMA HandKept ==
  ASSUME UNCHANGED <<job, completed, batch>>, NEW t, InHand(t)
  PROVE  InHand(t)'
BY DEF InHand, Holds, HasResult

LEMMA CarriedKept ==
  ASSUME UNCHANGED <<queueVars, poolVars, batch>>, NEW t, OnItsWay(t)
  PROVE  OnItsWay(t)'
BY HandKept DEF OnItsWay, queueVars, poolVars

\* drainCompleted moves every result into an empty batch.
LEMMA BeginKeeps ==
  ASSUME StreamInv, BeginUpdate
  PROVE  StreamInv'
<1> USE DEF BeginUpdate, DrainCompleted
<1>1. QueueInv'
  BY QueueInvStep DEF StreamInv
<1>2. PoolTypeOK' /\ JobsAreRunning' /\ InFlightIsLoading'
  BY DEF StreamInv, TypeOK, PoolTypeOK, JobsAreRunning, HasJob, InFlightIsLoading,
         Holds, queueVars
<1>3. TypeOK'
  BY <1>1, <1>2 DEF StreamInv, TypeOK, QueueInv, PoolTypeOK
<1>4. PassInv'
  BY DEF StreamInv, PassInv, queueVars
<1>5. ASSUME NEW t \in Tiles, InHand(t) PROVE InHand(t)'
  <2>1. batch = <<>>
    BY DEF StreamInv, PassInv
  <2> QED BY <1>5, <2>1 DEF InHand, HasResult, Holds, queueVars
<1>6. NoTileIsStuck' /\ LoadingIsInHand'
  BY <1>5 DEF StreamInv, NoTileIsStuck, OnItsWay, LoadingIsInHand, InState, queueVars
<1>7. CacheHoldsResidents'
  BY DEF StreamInv, CacheHoldsResidents, InState
<1> QED BY <1>1, <1>2, <1>3, <1>4, <1>6, <1>7 DEF StreamInv

\* What a result does to the entries and to the cache: nothing, or it takes its
\* own tile, which was tracked, to Resident and into the cache, or to Unloaded.
ResultEffect(t) ==
  \/ t \notin InState(Tracked) /\ UNCHANGED <<entries, cache>>
  \/ /\ t \in InState(Tracked) \cap desired
     /\ entries' = [entries EXCEPT ![t] = "Resident"]
     /\ DOMAIN cache' = DOMAIN cache \cup {t}
  \/ /\ t \in InState(Tracked)
     /\ entries' = [entries EXCEPT ![t] = "Unloaded"]
     /\ cache' = cache

LEMMA ResultEffects ==
  ASSUME StreamInv, ProcessResult
  PROVE  /\ batch # <<>>
         /\ Head(batch).id \in Tiles
         /\ ResultEffect(Head(batch).id)
         /\ batch' = Tail(batch)
<1>1. PICK r \in Completion : r = Head(batch) /\ batch # <<>>
  BY DEF ProcessResult, StreamInv, TypeOK
<1>2. r.id \in Tiles
  BY DEF Completion
<1>3. r.id \in InState(Tracked) <=> entries[r.id] \in Tracked
  BY <1>2 DEF InState
<1>4. ASSUME IgnoreResult(r) PROVE ResultEffect(r.id)
  BY <1>3, <1>4 DEF IgnoreResult, ResultEffect
<1>5. ASSUME DiscardResult(r) PROVE ResultEffect(r.id)
  BY <1>3, <1>5, CaughtUpIsLoading, LegalChains DEF DiscardResult, ResultEffect, Move
<1>6. ASSUME LandResult(r) PROVE ResultEffect(r.id)
  BY <1>3, <1>6, CaughtUpIsLoading, LegalChains
     DEF LandResult, ResultEffect, Move, PutTile
<1>7. ASSUME FailResult(r) PROVE ResultEffect(r.id)
  BY <1>3, <1>7, CaughtUpIsLoading, LegalChains DEF FailResult, ResultEffect, Move
<1>8. IgnoreResult(r) \/ DiscardResult(r) \/ LandResult(r) \/ FailResult(r)
  BY <1>1 DEF ProcessResult
<1> QED BY <1>1, <1>2, <1>4, <1>5, <1>6, <1>7, <1>8 DEF ProcessResult

\* The head of the batch leaves it, and the tile it was for is no longer tracked.
LEMMA ResultKeeps ==
  ASSUME StreamInv, ProcessResult
  PROVE  StreamInv'
<1>1. /\ UNCHANGED <<queueVars, poolVars>>
      /\ UNCHANGED <<desired, phase, todo, issued>>
      /\ phase = "results"
  BY DEF ProcessResult
<1>2. PICK t \in Tiles : /\ t = Head(batch).id
                        /\ batch # <<>>
                        /\ batch' = Tail(batch)
                        /\ ResultEffect(t)
  BY ResultEffects
<1>3. /\ entries \in [Tiles -> Tracked \cup {"Unloaded", "Resident"}]
      /\ batch \in Seq(Completion)
      /\ DOMAIN cache = InState({"Resident"})
  BY DEF StreamInv, TypeOK, CacheHoldsResidents
<1>4. /\ entries' \in [Tiles -> Tracked \cup {"Unloaded", "Resident"}]
      /\ DOMAIN cache' = InState({"Resident"})'
  <2>1. CASE UNCHANGED <<entries, cache>>
    BY <1>3, <2>1 DEF InState
  <2>2. CASE /\ entries' = [entries EXCEPT ![t] = "Resident"]
             /\ DOMAIN cache' = DOMAIN cache \cup {t}
    BY <1>3, <2>2 DEF InState
  <2>3. CASE /\ t \in InState(Tracked)
             /\ entries' = [entries EXCEPT ![t] = "Unloaded"]
             /\ cache' = cache
    BY <1>3, <2>3 DEF InState, Tracked
  <2> QED BY <1>2, <2>1, <2>2, <2>3 DEF ResultEffect
<1>5. PoolPart'
  BY <1>1, PoolKept
<1>6. TypeOK'
  <2>1. DOMAIN cache' \subseteq Tiles
    BY <1>4 DEF InState
  <2>2. batch' \in Seq(Completion)
    BY <1>2, <1>3
  <2> QED BY <1>1, <1>4, <1>5, <2>1, <2>2 DEF StreamInv, PoolPart, TypeOK
<1>7. PassInv'
  BY <1>1 DEF StreamInv, PassInv, queueVars
<1>8. ASSUME NEW u \in Tiles, u # t, InHand(u) PROVE InHand(u)'
  <2>1. HasResult(batch, u) => HasResult(batch', u)
    <3> SUFFICES ASSUME NEW i \in DOMAIN batch, batch[i].id = u
                 PROVE  \E j \in DOMAIN batch' : batch'[j].id = u
      BY DEF HasResult
    <3>1. i \in 1 .. Len(batch) /\ i # 1
      BY <1>2, <1>3, <1>8
    <3>2. i - 1 \in DOMAIN batch' /\ batch'[i - 1] = batch[i]
      BY <1>2, <1>3, <3>1
    <3> QED BY <3>2
  <2> QED BY <1>1, <1>8, <2>1 DEF InHand, Holds, HasResult, queueVars, poolVars
<1>9. ASSUME NEW u \in Tiles, entries'[u] \in Tracked
      PROVE  u # t /\ entries'[u] = entries[u]
  BY <1>2, <1>3, <1>9 DEF ResultEffect, InState, Tracked
<1>10. NoTileIsStuck' /\ LoadingIsInHand'
  <2>1. ASSUME NEW u \in Tiles, entries'[u] \in Tracked PROVE OnItsWay(u)'
    <3>1. u # t /\ OnItsWay(u)
      BY <1>9, <2>1 DEF StreamInv, NoTileIsStuck, InState
    <3> QED BY <1>1, <1>8, <3>1 DEF OnItsWay, queueVars
  <2>2. ASSUME NEW u \in Tiles, entries'[u] = "Loading" PROVE InHand(u)'
    <3>1. u # t /\ InHand(u)
      BY <1>9, <2>2 DEF StreamInv, LoadingIsInHand, InState, Tracked
    <3> QED BY <1>8, <3>1
  <2> QED BY <2>1, <2>2 DEF NoTileIsStuck, LoadingIsInHand, InState
<1>11. CacheHoldsResidents'
  BY <1>4 DEF CacheHoldsResidents
<1> QED BY <1>5, <1>6, <1>7, <1>10, <1>11 DEF StreamInv, PoolPart
-----------------------------------------------------------------------------
\* Steps that turn from one pass to the next: only the pass and its list change.
LEMMA TurnKeeps ==
  ASSUME StreamInv, UNCHANGED <<queueVars, poolVars>>,
         UNCHANGED <<entries, desired, batch, cache>>,
         phase' \in {"idle", "promote", "cancel", "evict", "issue", "joining", "destroyed"},
         todo' \subseteq Tiles, issued' \in 0 .. MaxNewRequests,
         PassInv'
  PROVE  StreamInv'
<1>1. PoolPart'
  BY PoolKept
<1>2. TypeOK'
  BY <1>1 DEF StreamInv, PoolPart, TypeOK
<1>3. NoTileIsStuck'
  BY CarriedKept DEF StreamInv, NoTileIsStuck, InState
<1>4. LoadingIsInHand'
  BY HandKept DEF StreamInv, LoadingIsInHand, InState, queueVars, poolVars
<1>5. CacheHoldsResidents'
  BY DEF StreamInv, CacheHoldsResidents, InState
<1> QED BY <1>1, <1>2, <1>3, <1>4, <1>5 DEF StreamInv, PoolPart

LEMMA TurnsKeep ==
  ASSUME StreamInv, \/ EndResults \/ EndPromotion \/ EndCancellation
                    \/ EndEviction \/ EndUpdate \/ Join \/ UNCHANGED vars
  PROVE  StreamInv'
<1> USE DEF PassInv, InState
<1>1. /\ issued \in 0 .. MaxNewRequests
      /\ 0 \in 0 .. MaxNewRequests
      /\ todo \subseteq Tiles
      /\ phase # "results" => batch = <<>>
      /\ stopped => phase \in {"joining", "destroyed"}
  BY StreamingAssumption DEF StreamInv, TypeOK
<1>2. CASE EndResults
  BY <1>1, <1>2, TurnKeeps DEF EndResults, queueVars
<1>3. CASE EndPromotion
  BY <1>1, <1>3, TurnKeeps DEF EndPromotion, queueVars
<1>4. CASE EndCancellation
  BY <1>1, <1>4, TurnKeeps DEF EndCancellation, queueVars
<1>5. CASE EndEviction
  BY <1>1, <1>5, TurnKeeps DEF EndEviction, queueVars
<1>6. CASE EndUpdate
  BY <1>1, <1>6, TurnKeeps DEF EndUpdate, queueVars
<1>7. CASE Join
  BY <1>1, <1>7, TurnKeeps DEF Join, queueVars
<1>8. CASE UNCHANGED vars
  <2>1. PoolPart'
    BY <1>8, PoolKept DEF vars
  <2>2. TypeOK' /\ PassInv' /\ CacheHoldsResidents'
    BY <1>8, <2>1 DEF StreamInv, PoolPart, TypeOK, CacheHoldsResidents, vars,
                      queueVars, mainVars
  <2>3. NoTileIsStuck' /\ LoadingIsInHand'
    BY <1>8, CarriedKept, HandKept
       DEF StreamInv, NoTileIsStuck, LoadingIsInHand, vars, queueVars, poolVars, mainVars
  <2> QED BY <2>1, <2>2, <2>3 DEF StreamInv, PoolPart
<1> QED BY <1>2, <1>3, <1>4, <1>5, <1>6, <1>7, <1>8

\* A Requested entry that a worker is seen to load becomes Loading.
LEMMA PromoteKeeps ==
  ASSUME StreamInv, NEW t \in Tiles, Promote(t)
  PROVE  StreamInv'
<1>1. /\ UNCHANGED <<queueVars, poolVars>>
      /\ UNCHANGED <<desired, phase, batch, issued, cache>>
      /\ phase = "promote"
      /\ todo' = todo \ {t}
  BY DEF Promote
<1>2. /\ entries \in [Tiles -> Tracked \cup {"Unloaded", "Resident"}]
      /\ todo \subseteq InState({"Requested"})
      /\ entries[t] = "Requested"
  BY DEF StreamInv, TypeOK, PassInv, Promote, InState
<1>3. entries' = entries \/ entries' = [entries EXCEPT ![t] = "Loading"]
  BY <1>2, LegalChains DEF Promote, Move
<1>4. PoolPart'
  BY <1>1, PoolKept
<1>5. TypeOK'
  BY <1>1, <1>2, <1>3, <1>4 DEF StreamInv, PoolPart, TypeOK, Tracked
<1>6. PassInv'
  BY <1>1, <1>2, <1>3 DEF StreamInv, PassInv, InState, queueVars
<1>7. InState(Tracked)' = InState(Tracked) /\ InState({"Resident"})' = InState({"Resident"})
  BY <1>2, <1>3 DEF InState, Tracked
<1>8. NoTileIsStuck'
  BY <1>1, <1>7, CarriedKept DEF StreamInv, NoTileIsStuck
<1>9. LoadingIsInHand'
  <2> SUFFICES ASSUME NEW u \in Tiles, entries'[u] = "Loading" PROVE InHand(u)'
    BY DEF LoadingIsInHand, InState
  <2>1. CASE entries[u] = "Loading"
    BY <1>1, <2>1, HandKept DEF StreamInv, LoadingIsInHand, InState, queueVars, poolVars
  <2>2. CASE entries[u] # "Loading"
    <3>1. u = t /\ t \in inFlight
      BY <1>2, <2>2 DEF Promote, Move, IsInFlight
    <3>2. InHand(u)
      BY <3>1 DEF StreamInv, InFlightIsLoading, InHand
    <3> QED BY <1>1, <3>2, HandKept DEF queueVars, poolVars
  <2> QED BY <2>1, <2>2
<1>10. CacheHoldsResidents'
  BY <1>1, <1>7 DEF StreamInv, CacheHoldsResidents
<1> QED BY <1>4, <1>5, <1>6, <1>8, <1>9, <1>10 DEF StreamInv, PoolPart

\* cancel() takes a tile out of the pending set, and its entry with it.
LEMMA CancelStaleKeeps ==
  ASSUME StreamInv, NEW t \in Tiles, CancelStale(t)
  PROVE  StreamInv'
<1>1. /\ UNCHANGED poolVars
      /\ UNCHANGED <<desired, phase, batch, issued, cache>>
      /\ phase = "cancel"
      /\ todo' = todo \ {t}
      /\ pending' = pending \ {t}
      /\ UNCHANGED <<heap, stopped, waiting, woken, job>>
  BY DEF CancelStale, Cancel
<1>2. /\ entries \in [Tiles -> Tracked \cup {"Unloaded", "Resident"}]
      /\ todo \subseteq InState({"Requested"}) \ desired
      /\ entries[t] = "Requested"
  BY DEF StreamInv, TypeOK, PassInv, CancelStale, InState
<1>3. entries' = [entries EXCEPT ![t] = "Unloaded"]
  BY <1>2, LegalChains DEF CancelStale, Move
<1>4. QueueInv'
  BY CancelKeeps DEF StreamInv, CancelStale
<1>5. PoolTypeOK' /\ JobsAreRunning' /\ InFlightIsLoading'
  BY <1>1 DEF StreamInv, TypeOK, PoolTypeOK, JobsAreRunning, HasJob, InFlightIsLoading,
              Holds, poolVars
<1>6. TypeOK'
  BY <1>1, <1>2, <1>3, <1>4, <1>5 DEF StreamInv, TypeOK, QueueInv
<1>7. PassInv'
  BY <1>1, <1>2, <1>3 DEF StreamInv, PassInv, InState
<1>8. NoTileIsStuck'
  <2> SUFFICES ASSUME NEW u \in Tiles, entries'[u] \in Tracked PROVE OnItsWay(u)'
    BY DEF NoTileIsStuck, InState
  <2>1. u # t /\ entries[u] \in Tracked
    BY <1>2, <1>3 DEF Tracked
  <2>2. OnItsWay(u)
    BY <2>1 DEF StreamInv, NoTileIsStuck, InState
  <2> QED BY <1>1, <2>1, <2>2, HandKept DEF OnItsWay, poolVars
<1>9. LoadingIsInHand'
  BY <1>1, <1>2, <1>3, HandKept DEF StreamInv, LoadingIsInHand, InState, poolVars
<1>10. CacheHoldsResidents'
  BY <1>1, <1>2, <1>3 DEF StreamInv, CacheHoldsResidents, InState
<1> QED BY <1>4, <1>5, <1>6, <1>7, <1>8, <1>9, <1>10 DEF StreamInv

\* What one victim of evictToBudget does.
LEMMA EvictionEffect ==
  ASSUME StreamInv, NEW t \in Tiles, EvictStale(t)
  PROVE  /\ entries[t] = "Resident" /\ t \notin desired
         /\ entries' = [entries EXCEPT ![t] = "Unloaded"]
         /\ DOMAIN cache' = DOMAIN cache \ {t}
<1>1. t \in DOMAIN cache \ desired
  BY DEF EvictStale, EvictTile
<1>2. entries[t] = "Resident"
  BY <1>1 DEF StreamInv, CacheHoldsResidents, InState
<1>3. entries' = [entries EXCEPT ![t] = "Unloaded"]
  BY <1>2, LegalChains DEF EvictStale, Move
<1>4. DOMAIN cache' = DOMAIN cache \ {t}
  BY DEF EvictStale, EvictTile, Restrict
<1> QED BY <1>1, <1>2, <1>3, <1>4

\* A victim leaves cache and entries together.
LEMMA EvictStaleKeeps ==
  ASSUME StreamInv, NEW t \in Tiles, EvictStale(t)
  PROVE  StreamInv'
<1>1. /\ UNCHANGED <<queueVars, poolVars>>
      /\ UNCHANGED <<desired, phase, batch, todo, issued>>
      /\ phase = "evict"
  BY DEF EvictStale
<1>2. /\ entries[t] = "Resident"
      /\ entries' = [entries EXCEPT ![t] = "Unloaded"]
      /\ DOMAIN cache' = DOMAIN cache \ {t}
  BY EvictionEffect
<1>3. entries \in [Tiles -> Tracked \cup {"Unloaded", "Resident"}]
  BY DEF StreamInv, TypeOK
<1>4. PoolPart'
  BY <1>1, PoolKept
<1>5. TypeOK'
  BY <1>1, <1>2, <1>3, <1>4 DEF StreamInv, PoolPart, TypeOK
<1>6. PassInv'
  BY <1>1 DEF StreamInv, PassInv, queueVars
<1>7. InState(Tracked)' = InState(Tracked)
  BY <1>2, <1>3 DEF InState, Tracked
<1>8. NoTileIsStuck'
  BY <1>1, <1>7, CarriedKept DEF StreamInv, NoTileIsStuck
<1>9. LoadingIsInHand'
  BY <1>1, <1>2, <1>3, HandKept
     DEF StreamInv, LoadingIsInHand, InState, queueVars, poolVars
<1>10. CacheHoldsResidents'
  BY <1>1, <1>2, <1>3 DEF StreamInv, CacheHoldsResidents, InState
<1> QED BY <1>4, <1>5, <1>6, <1>8, <1>9, <1>10 DEF StreamInv, PoolPart

\* A new request is pending before its entry is looked at again.
LEMMA IssueKeeps ==
  ASSUME StreamInv, NEW t \in Tiles, Issue(t)
  PROVE  StreamInv'
<1>1. /\ UNCHANGED poolVars
      /\ UNCHANGED <<desired, phase, batch, todo, cache>>
      /\ phase = "issue"
      /\ issued < MaxNewRequests
      /\ issued' = issued + 1
      /\ entries[t] = "Unloaded"
  BY DEF Issue, InState
<1>2. PICK r \in Request : r.id = t /\ Push(r)
  BY DEF Issue, Request
<1>3. stopped = FALSE
  BY <1>1 DEF StreamInv, PassInv, TypeOK, QueueTypeOK
<1>4. QueueInv'
  BY <1>2, <1>3, PushKeeps DEF StreamInv
<1>5. /\ pending' = pending \cup {t}
      /\ job' = job
      /\ stopped' = stopped
      /\ waiting' \cup woken' = waiting \cup woken
  BY <1>2 DEF Push, NotifyOne
<1>6. PoolTypeOK' /\ JobsAreRunning' /\ InFlightIsLoading'
  BY <1>1, <1>5 DEF StreamInv, TypeOK, PoolTypeOK, JobsAreRunning, HasJob,
                    InFlightIsLoading, Holds, poolVars
<1>7. entries \in [Tiles -> Tracked \cup {"Unloaded", "Resident"}]
  BY DEF StreamInv, TypeOK
<1>8. entries' = [entries EXCEPT ![t] = "Requested"]
  BY <1>1, LegalChains DEF Issue, Move
<1>9. TypeOK'
  <2>1. issued' \in 0 .. MaxNewRequests
    BY <1>1, StreamingAssumption DEF StreamInv, TypeOK
  <2> QED BY <1>1, <1>4, <1>6, <1>7, <1>8, <2>1 DEF StreamInv, TypeOK, QueueInv, Tracked
<1>10. PassInv'
  BY <1>1, <1>3, <1>5 DEF StreamInv, PassInv
<1>11. NoTileIsStuck'
  <2> SUFFICES ASSUME NEW u \in Tiles, entries'[u] \in Tracked PROVE OnItsWay(u)'
    BY DEF NoTileIsStuck, InState
  <2>1. CASE u = t
    BY <1>5, <2>1 DEF OnItsWay
  <2>2. CASE u # t
    <3>1. OnItsWay(u)
      BY <1>7, <1>8, <2>2 DEF StreamInv, NoTileIsStuck, InState
    <3> QED BY <1>1, <1>5, <3>1, HandKept DEF OnItsWay, poolVars
  <2> QED BY <2>1, <2>2
<1>12. LoadingIsInHand'
  BY <1>1, <1>5, <1>7, <1>8, HandKept DEF StreamInv, LoadingIsInHand, InState, poolVars
<1>13. CacheHoldsResidents'
  BY <1>1, <1>7, <1>8 DEF StreamInv, CacheHoldsResidents, InState
<1> QED BY <1>4, <1>6, <1>9, <1>10, <1>11, <1>12, <1>13 DEF StreamInv

LEMMA DestroyKeeps ==
  ASSUME StreamInv, Destroy
  PROVE  StreamInv'
<1>1. QueueInv'
  BY ShutdownKeeps DEF StreamInv, Destroy
<1>2. PoolTypeOK' /\ JobsAreRunning' /\ InFlightIsLoading'
  BY DEF StreamInv, TypeOK, PoolTypeOK, JobsAreRunning, HasJob, InFlightIsLoading,
         Holds, Destroy, Shutdown, NotifyAll, poolVars
<1>3. TypeOK'
  BY <1>1, <1>2 DEF StreamInv, TypeOK, QueueInv, Destroy
<1>4. PassInv'
  BY DEF StreamInv, PassInv, Destroy
<1>5. NoTileIsStuck' /\ LoadingIsInHand'
  BY HandKept DEF StreamInv, NoTileIsStuck, OnItsWay, LoadingIsInHand, InState,
                  Destroy, Shutdown, poolVars
<1>6. CacheHoldsResidents'
  BY DEF StreamInv, CacheHoldsResidents, InState, Destroy
<1> QED BY <1>1, <1>2, <1>3, <1>4, <1>5, <1>6 DEF StreamInv
-----------------------------------------------------------------------------
LEMMA StreamInvInit == Init => StreamInv
<1> SUFFICES ASSUME Init PROVE StreamInv
  OBVIOUS
<1> USE DEF Init, PoolInit
<1>1. QueueInv
  BY QueueInvInit
<1>2. PoolTypeOK /\ JobsAreRunning
  <2>1. completed \in Seq(Completion)
    OBVIOUS
  <2> QED BY <2>1 DEF PoolTypeOK, JobsAreRunning, HasJob, QueueInit
<1>3. DOMAIN cache = {}
  BY DEF CacheInit
<1>4. TypeOK
  <2>1. batch \in Seq(Completion)
    OBVIOUS
  <2>2. issued \in 0 .. MaxNewRequests
    BY StreamingAssumption
  <2> QED BY <1>1, <1>2, <1>3, <2>1, <2>2 DEF TypeOK, QueueInv
<1>5. PassInv
  BY DEF PassInv, QueueInit
<1>6. NoTileIsStuck /\ LoadingIsInHand /\ CacheHoldsResidents
  BY <1>3 DEF NoTileIsStuck, LoadingIsInHand, CacheHoldsResidents, InState, Tracked
<1>7. InFlightIsLoading
  BY DEF InFlightIsLoading
<1> QED BY <1>1, <1>2, <1>4, <1>5, <1>6, <1>7 DEF StreamInv

LEMMA StreamInvStep == StreamInv /\ [Next]_vars => StreamInv'
<1> SUFFICES ASSUME StreamInv, [Next]_vars PROVE StreamInv'
  OBVIOUS
<1>1. CASE UpdateStep
  <2>1. ASSUME NEW t \in Tiles, Promote(t) \/ CancelStale(t) \/ EvictStale(t) \/ Issue(t)
        PROVE  StreamInv'
    BY <2>1, PromoteKeeps, CancelStaleKeeps, EvictStaleKeeps, IssueKeeps
  <2>2. CASE BeginUpdate \/ ProcessResult
    BY <2>2, BeginKeeps, ResultKeeps
  <2>3. CASE EndResults \/ EndPromotion \/ EndCancellation \/ EndEviction \/ EndUpdate
    BY <2>3, TurnsKeep
  <2> QED BY <1>1, <2>1, <2>2, <2>3 DEF UpdateStep
<1>2. CASE WorkersStep
  BY <1>2, WorkersKeep DEF WorkersStep
<1>3. CASE Destroy
  BY <1>3, DestroyKeeps
<1>4. CASE Join \/ UNCHANGED vars
  BY <1>4, TurnsKeep
<1> QED BY <1>1, <1>2, <1>3, <1>4 DEF Next, Destroyed

\* The invariant holds in every state of the streaming manager and its threads.
THEOREM StreamInvariant == Spec => []StreamInv
BY StreamInvInit, StreamInvStep, PTL DEF Spec

\* Every variable of the manager, the pool and the queue keeps its type.
THEOREM StreamTypes == Spec => []TypeOK
<1>1. StreamInv => TypeOK
  BY DEF StreamInv
<1> QED BY <1>1, StreamInvariant, PTL

\* The assert in StreamingManager::transition() never fires.
THEOREM LegalTransitions == Spec => []TransitionsAreLegal
<1>1. StreamInv => TransitionsAreLegal
  BY DEF StreamInv, TypeOK, TransitionsAreLegal, InState, Tracked, Aborted
<1> QED BY <1>1, StreamInvariant, PTL

\* A tile in Requested or Loading has a load behind it: update() never waits for
\* a result that no queue, worker or list still has.
THEOREM NoTileStuck == Spec => []NoTileIsStuck
<1>1. StreamInv => NoTileIsStuck
  BY DEF StreamInv
<1> QED BY <1>1, StreamInvariant, PTL

\* m_entries and m_cache agree on the resident tiles after each step.
THEOREM CacheIsResidents == Spec => []CacheHoldsResidents
<1>1. StreamInv => CacheHoldsResidents
  BY DEF StreamInv
<1> QED BY <1>1, StreamInvariant, PTL

\* What update() does not cancel any more, a Loading tile, no longer needs it: a
\* worker has its request in hand, or its result waits to be processed.
THEOREM LoadingInHand == Spec => []LoadingIsInHand
<1>1. StreamInv => LoadingIsInHand
  BY DEF StreamInv
<1> QED BY <1>1, StreamInvariant, PTL
-----------------------------------------------------------------------------
\* One step of the manager is a step of TileLifecycle or leaves it alone.
LEMMA LifecycleStep ==
  ASSUME StreamInv, [Next]_vars
  PROVE  [Promised!Next]_(Promised!vars)
<1> USE DEF Promised!Next, Promised!vars, Promised!Step
<1>1. ASSUME UNCHANGED <<entries, desired>> PROVE [Promised!Next]_(Promised!vars)
  BY <1>1
<1>2. CASE BeginUpdate
  BY <1>2 DEF BeginUpdate, Promised!CameraMoves
<1>3. CASE ProcessResult
  <2>1. PICK t \in Tiles : ResultEffect(t)
    BY <1>3, ResultEffects
  <2>2. desired' = desired
    BY <1>3 DEF ProcessResult
  <2>3. CASE t \notin InState(Tracked) /\ UNCHANGED <<entries, cache>>
    BY <1>1, <2>2, <2>3
  <2>4. CASE t \in InState(Tracked) \cap desired
              /\ entries' = [entries EXCEPT ![t] = "Resident"]
    <3>1. Promised!Land(t)
      BY <2>2, <2>4 DEF Promised!Land, InState, Tracked
    <3> QED BY <3>1
  <2>5. CASE t \in InState(Tracked) /\ entries' = [entries EXCEPT ![t] = "Unloaded"]
    <3>1. Promised!Drop(t)
      BY <2>2, <2>5 DEF Promised!Drop, InState, Tracked
    <3> QED BY <3>1
  <2> QED BY <2>1, <2>3, <2>4, <2>5 DEF ResultEffect
<1>4. ASSUME NEW t \in Tiles, Promote(t) PROVE [Promised!Next]_(Promised!vars)
  <2>1. entries[t] = "Requested" /\ desired' = desired
    BY <1>4 DEF Promote, StreamInv, PassInv, InState
  <2>2. entries' = entries \/ entries' = [entries EXCEPT ![t] = "Loading"]
    BY <1>4, <2>1, LegalChains DEF Promote, Move
  <2>3. entries' = entries \/ Promised!Start(t)
    BY <2>1, <2>2 DEF Promised!Start
  <2> QED BY <2>1, <2>3
<1>5. ASSUME NEW t \in Tiles, CancelStale(t) PROVE [Promised!Next]_(Promised!vars)
  <2>1. entries[t] = "Requested" /\ desired' = desired
    BY <1>5 DEF CancelStale, StreamInv, PassInv, InState
  <2>2. Promised!Drop(t)
    BY <1>5, <2>1, LegalChains DEF CancelStale, Move, Promised!Drop
  <2> QED BY <2>2
<1>6. ASSUME NEW t \in Tiles, EvictStale(t) PROVE [Promised!Next]_(Promised!vars)
  <2>1. Promised!Unload(t)
    BY <1>6, EvictionEffect DEF EvictStale, Promised!Unload
  <2> QED BY <2>1
<1>7. ASSUME NEW t \in Tiles, Issue(t) PROVE [Promised!Next]_(Promised!vars)
  <2>1. Promised!Request(t)
    BY <1>7, LegalChains DEF Issue, Move, InState, Promised!Request
  <2> QED BY <2>1
<1>8. CASE \/ EndResults \/ EndPromotion \/ EndCancellation \/ EndEviction
           \/ EndUpdate \/ WorkersStep \/ Destroy \/ Join \/ UNCHANGED vars
  BY <1>1, <1>8 DEF EndResults, EndPromotion, EndCancellation, EndEviction, EndUpdate,
                    WorkersStep, Destroy, Join, vars, mainVars
<1> QED BY <1>2, <1>3, <1>4, <1>5, <1>6, <1>7, <1>8 DEF Next, UpdateStep, Destroyed

\* StreamingManager implements TileLifecycle: through all interleavings with
\* the workers a tile is requested and made resident only while it is desired,
\* and a resident tile is unloaded only while it is not.
THEOREM ImplementsLifecycle == Spec => KeepsLifecycle
<1>1. Init => Promised!Init
  BY DEF Init, Promised!Init
<1>2. StreamInv /\ [Next]_vars => [Promised!Next]_(Promised!vars)
  BY LifecycleStep
<1> QED BY <1>1, <1>2, StreamInvariant, PTL DEF Spec, KeepsLifecycle, Promised!Spec
=============================================================================
