----------------------------- MODULE WorkerPool -----------------------------
(***************************************************************************)
(* sdk/src/streaming/WorkerPool.cpp: a fixed pool of threads that pull     *)
(* from the RequestQueue, run the injected loader and append its result to *)
(* the completed list.  The in-flight set and the completed list have a    *)
(* mutex each, apart from the queue's, so a worker is observable between   *)
(* pop() and its registration, and between leaving the in-flight set and   *)
(* delivering: `at' is its position in workerLoop.                         *)
(***************************************************************************)
EXTENDS RequestQueue

CONSTANT Outcomes   \* Outcomes[t]: what loading t can give (TRUE: a tile)

ASSUME OutcomeAssumption == Outcomes \in [Tiles -> (SUBSET BOOLEAN) \ {{}}]

Completion == [id : Tiles, ok : BOOLEAN]

VARIABLES
  at,         \* at[w]: where w is in workerLoop
  loaded,     \* loaded[w]: whether w's last load gave a tile
  inFlight,   \* m_inFlight
  completed   \* m_completed

poolVars == <<at, loaded, inFlight, completed>>

PoolTypeOK ==
  /\ at \in [Workers -> {"pop", "register", "load", "deliver", "exited"}]
  /\ loaded \in [Workers -> BOOLEAN]
  /\ inFlight \subseteq Tiles
  /\ completed \in Seq(Completion)

PoolInit ==
  /\ QueueInit
  /\ at = [w \in Workers |-> "pop"]
  /\ loaded = [w \in Workers |-> FALSE]
  /\ inFlight = {}
  /\ completed = <<>>
-----------------------------------------------------------------------------
Goto(w, place) == at' = [at EXCEPT ![w] = place]

\* workerLoop's pop(): a request, another wait, or the end of the thread.
PopTakesJob(w) ==
  /\ PopTakes(w)
  /\ Goto(w, "register")

PopBlocks(w) ==
  /\ PopWaits(w)
  /\ UNCHANGED at

PopEndsThread(w) ==
  /\ PopEnds(w)
  /\ Goto(w, "exited")

WorkerPop(w) ==
  /\ at[w] = "pop"
  /\ w \notin waiting
  /\ PopTakesJob(w) \/ PopBlocks(w) \/ PopEndsThread(w)
  /\ UNCHANGED <<loaded, inFlight, completed>>

Register(w) ==
  /\ at[w] = "register"
  /\ inFlight' = inFlight \cup {job[w].id}
  /\ Goto(w, "load")
  /\ UNCHANGED <<queueVars, loaded, completed>>

\* Mutant: clear() in place of erase(id).
FinishForgetsAll(w) ==
  /\ at[w] = "load"
  /\ \E ok \in Outcomes[job[w].id] : loaded' = [loaded EXCEPT ![w] = ok]
  /\ inFlight' = {}
  /\ Goto(w, "deliver")
  /\ UNCHANGED <<queueVars, completed>>

\* Mutant: the id stays in the in-flight set.
FinishInFlight(w) ==
  /\ at[w] = "load"
  /\ \E ok \in Outcomes[job[w].id] : loaded' = [loaded EXCEPT ![w] = ok]
  /\ Goto(w, "deliver")
  /\ UNCHANGED <<queueVars, inFlight, completed>>

\* The loader returns and the worker takes m_inFlightMutex to unregister.
FinishLoad(w) ==
  /\ at[w] = "load"
  /\ \E ok \in Outcomes[job[w].id] : loaded' = [loaded EXCEPT ![w] = ok]
  /\ inFlight' = inFlight \ {job[w].id}
  /\ Goto(w, "deliver")
  /\ UNCHANGED <<queueVars, completed>>

\* The request and the result go out of scope with the delivery.
Deliver(w) ==
  /\ at[w] = "deliver"
  /\ completed' = Append(completed, [id |-> job[w].id, ok |-> loaded[w]])
  /\ job' = [job EXCEPT ![w] = NoRequest]
  /\ loaded' = [loaded EXCEPT ![w] = FALSE]
  /\ Goto(w, "pop")
  /\ UNCHANGED <<heap, pending, stopped, waiting, woken, inFlight>>

WorkerStep(w) == WorkerPop(w) \/ Register(w) \/ FinishLoad(w) \/ Deliver(w)

WorkerWakesUp(w) == SpuriousWakeup(w) /\ UNCHANGED poolVars

\* What the owner's thread calls.  drainCompleted moves the whole list out.
DrainCompleted == completed' = <<>>

IsInFlight(id) == id \in inFlight

\* ~WorkerPool can join: every thread has returned from workerLoop.
Joinable == \A w \in Workers : at[w] = "exited"
-----------------------------------------------------------------------------
\* A worker has a request exactly between the pop() that returned it and its
\* delivery.
HasJob(w) == at[w] \in {"register", "load", "deliver"}

\* What MaxHeap bounds: requests that are queued, running or undrained.
Backlog ==
  Len(heap) + Len(completed) + Cardinality({w \in Workers : HasJob(w)})

Owner ==
  \/ \E r \in Request :
       ~stopped /\ Backlog < MaxHeap /\ Push(r) /\ UNCHANGED poolVars
  \/ \E id \in Tiles : ~stopped /\ Cancel(id) /\ UNCHANGED poolVars
  \/ /\ ~stopped
     /\ completed # <<>>
     /\ DrainCompleted
     /\ UNCHANGED <<queueVars, at, loaded, inFlight>>
  \/ Shutdown /\ UNCHANGED poolVars

PoolNext ==
  \/ Owner
  \/ \E w \in Workers : WorkerStep(w) \/ WorkerWakesUp(w)

\* The operating system runs every thread that is not blocked; the owner may
\* stop calling, and spurious wakeups need not happen.
PoolSpec ==
  /\ PoolInit
  /\ [][PoolNext]_<<queueVars, poolVars>>
  /\ \A w \in Workers : WF_<<queueVars, poolVars>>(WorkerStep(w))
-----------------------------------------------------------------------------
Holds(w, id) == job[w] # NoRequest /\ job[w].id = id

\* An id is in the in-flight set only while some worker runs its loader: isInFlight()
\* is never true of a load that is over.
InFlightIsLoading ==
  \A id \in inFlight : \E w \in Workers : at[w] = "load" /\ Holds(w, id)

(***************************************************************************)
(* The other way round.  WorkerPool.h has isInFlight(id) true once a       *)
(* worker has started the loader "until that load completes".  The code    *)
(* does less: m_inFlight is a set, so of two workers that load one tile    *)
(* (cancelled before the first registered, and requested again) the one    *)
(* that ends first unregisters both.  A load is known from its             *)
(* registration to its end, or to the end of another of the same tile;     *)
(* nothing else makes isInFlight() lose sight of it.                       *)
(***************************************************************************)
Unseen(w) == at[w] = "load" /\ job[w].id \notin inFlight

AnotherEnds(w) ==
  \E v \in Workers \ {w} :
    at[v] = "load" /\ job[v].id = job[w].id /\ at'[v] = "deliver"

InFlightTellsLoads ==
  /\ []InFlightIsLoading
  /\ [][\A w \in Workers : Unseen(w)' /\ ~Unseen(w) => AnotherEnds(w)]_<<queueVars, poolVars>>

\* ~WorkerPool does not hang: once the queue is shut down every thread ends,
\* whatever it was doing and however many requests are left to drain.
ShutdownJoins == stopped ~> Joinable

\* Once the owner stops pushing, every request is handed to a worker: no
\* thread sleeps through a push, a cancel or another thread's pop.
NewRequest == pending' \ pending # {}
QueueDrains == <>[][~NewRequest]_<<queueVars, poolVars>> => <>[](pending = {})
=============================================================================
