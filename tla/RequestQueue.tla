---------------------------- MODULE RequestQueue ----------------------------
(***************************************************************************)
(* sdk/src/streaming/RequestQueue.cpp: the priority queue of tile loads    *)
(* that the main thread fills and the worker threads block on.             *)
(*                                                                         *)
(* Every method runs under m_mutex, and pop() keeps the lock from the end  *)
(* of one wait to the start of the next, so a critical section is one      *)
(* action.  What is left to interleave is the condition variable: a thread *)
(* blocked in m_cv.wait is in `waiting', a thread that was notified and    *)
(* has yet to take the mutex again is in `woken'.                          *)
(***************************************************************************)
EXTENDS Naturals, Sequences, FiniteSets, SequencesExt

CONSTANTS
  Tiles,        \* the tile ids a dataset has
  Priorities,   \* the scores computePriority can give a request
  Workers,      \* the threads that call pop()
  NoRequest,    \* std::nullopt
  MaxHeap       \* bound on the heap (the code has none)

Request == [id : Tiles, priority : Priorities]

ASSUME QueueAssumption ==
  /\ IsFiniteSet(Workers)
  /\ Priorities \subseteq Nat
  /\ NoRequest \notin Request
  /\ MaxHeap \in Nat

VARIABLES
  heap,       \* m_queue, as the sequence in which its entries would be popped
  pending,    \* m_pending
  stopped,    \* m_shutdown
  waiting,    \* threads blocked in m_cv.wait
  woken,      \* threads notified, about to take m_mutex again
  job         \* job[w]: what the last pop() of w returned

queueVars == <<heap, pending, stopped, waiting, woken, job>>

QueueTypeOK ==
  /\ heap \in Seq(Request)
  /\ pending \subseteq Tiles
  /\ stopped \in BOOLEAN
  /\ waiting \subseteq Workers
  /\ woken \subseteq Workers
  /\ waiting \cap woken = {}
  /\ job \in [Workers -> Request \cup {NoRequest}]

QueueInit ==
  /\ heap = <<>>
  /\ pending = {}
  /\ stopped = FALSE
  /\ waiting = {}
  /\ woken = {}
  /\ job = [w \in Workers |-> NoRequest]
-----------------------------------------------------------------------------
\* Mutant: TileRequestLess the wrong way round.
LowestFirst(s) == \A i, j \in DOMAIN s : i < j => s[i].priority <= s[j].priority

\* Highest priority first.  std::priority_queue leaves the order of equal
\* priorities open: Push may put a request anywhere among its equals.
InPopOrder(s) == \A i, j \in DOMAIN s : i < j => s[i].priority >= s[j].priority

NotifyOne ==
  IF waiting = {}
    THEN UNCHANGED <<waiting, woken>>
    ELSE \E w \in waiting : /\ waiting' = waiting \ {w}
                            /\ woken' = woken \cup {w}

NotifyAll ==
  /\ waiting' = {}
  /\ woken' = woken \cup waiting

\* Mutant: push() without the notify_one().
PushSilently(r) ==
  /\ r.id \notin pending
  /\ pending' = pending \cup {r.id}
  /\ \E i \in 1 .. Len(heap) + 1 : heap' = InsertAt(heap, i, r) /\ InPopOrder(heap')
  /\ UNCHANGED <<stopped, waiting, woken, job>>

\* push(): a no-op, without a notification, when the id is pending already.
Push(r) ==
  /\ IF r.id \in pending
       THEN UNCHANGED <<heap, pending, waiting, woken>>
       ELSE /\ pending' = pending \cup {r.id}
            /\ \E i \in 1 .. Len(heap) + 1 :
                 /\ heap' = InsertAt(heap, i, r)
                 /\ InPopOrder(heap')
            /\ NotifyOne
  /\ UNCHANGED <<stopped, job>>

\* cancel(): lazy deletion, the entry stays in the heap until a pop meets it.
Cancel(id) ==
  /\ pending' = pending \ {id}
  /\ UNCHANGED <<heap, stopped, waiting, woken, job>>

\* Mutant: shutdown() with notify_one() for notify_all().
ShutdownOne ==
  /\ stopped' = TRUE
  /\ NotifyOne
  /\ UNCHANGED <<heap, pending, job>>

Shutdown ==
  /\ stopped' = TRUE
  /\ NotifyAll
  /\ UNCHANGED <<heap, pending, job>>

\* The entries of the heap that pop() would hand out, were each the first.
Live == {i \in DOMAIN heap : heap[i].id \in pending}

\* Mutant: pop() skips entries that were not cancelled, too.
PopSkipsLive(w) ==
  /\ \E i \in Live :
       /\ heap' = SubSeq(heap, i + 1, Len(heap))
       /\ pending' = pending \ {heap[i].id}
       /\ job' = [job EXCEPT ![w] = heap[i]]
  /\ woken' = woken \ {w}
  /\ UNCHANGED <<stopped, waiting>>

\* Mutant: pop() leaves the id it returns in m_pending.
PopKeepsPending(w) ==
  /\ \E i \in Live :
       /\ \A j \in Live : i <= j
       /\ heap' = SubSeq(heap, i + 1, Len(heap))
       /\ job' = [job EXCEPT ![w] = heap[i]]
  /\ woken' = woken \ {w}
  /\ UNCHANGED <<pending, stopped, waiting>>

\* pop() discards the cancelled entries in front and returns the first other.
PopTakes(w) ==
  /\ \E i \in Live :
       /\ \A j \in Live : i <= j
       /\ heap' = SubSeq(heap, i + 1, Len(heap))
       /\ pending' = pending \ {heap[i].id}
       /\ job' = [job EXCEPT ![w] = heap[i]]
  /\ woken' = woken \ {w}
  /\ UNCHANGED <<stopped, waiting>>

\* pop() discards everything and blocks (the wait releases the mutex).
PopWaits(w) ==
  /\ Live = {}
  /\ ~stopped
  /\ heap' = <<>>
  /\ waiting' = waiting \cup {w}
  /\ woken' = woken \ {w}
  /\ UNCHANGED <<pending, stopped, job>>

\* pop() discards everything and returns nullopt.
PopEnds(w) ==
  /\ Live = {}
  /\ stopped
  /\ heap' = <<>>
  /\ job' = [job EXCEPT ![w] = NoRequest]
  /\ woken' = woken \ {w}
  /\ UNCHANGED <<pending, stopped, waiting>>

Pop(w) == w \notin waiting /\ (PopTakes(w) \/ PopWaits(w) \/ PopEnds(w))

\* std::condition_variable::wait may return without a notification.
SpuriousWakeup(w) ==
  /\ w \in waiting
  /\ waiting' = waiting \ {w}
  /\ woken' = woken \cup {w}
  /\ UNCHANGED <<heap, pending, stopped, job>>
-----------------------------------------------------------------------------
\* The owner pushes and cancels until its destructor calls shutdown(); any
\* thread that is not blocked may call pop().
QueueNext ==
  \/ \E r \in Request : ~stopped /\ Len(heap) < MaxHeap /\ Push(r)
  \/ \E id \in Tiles : Cancel(id)
  \/ Shutdown
  \/ \E w \in Workers : Pop(w)
  \/ \E w \in Workers : SpuriousWakeup(w)

QueueSpec == QueueInit /\ [][QueueNext]_queueVars
-----------------------------------------------------------------------------
(***************************************************************************)
(* No wakeup is lost: push() notifies one thread per new heap entry, so    *)
(* while some thread sleeps there are at least as many notified threads on *)
(* their way to the heap as there are entries in it (cancelled ones        *)
(* included, which use up a notification too).                             *)
(***************************************************************************)
WakeupsCoverHeap == waiting # {} => Len(heap) <= Cardinality(woken)

\* shutdown() leaves no thread asleep, and none goes to sleep after it.
NobodySleepsAfterShutdown == stopped => waiting = {}

\* Lazy deletion never loses a request: whatever is pending has an entry in
\* the heap, so size() counts only what some pop() can still return.
PendingInHeap == \A id \in pending : \E i \in DOMAIN heap : heap[i].id = id

\* pop() hands out the best of what is pending: nothing that stays pending has
\* only entries of a higher priority than the request returned.
PopsBestFirst ==
  [][\A w \in Workers :
       job'[w] # job[w] /\ job'[w] # NoRequest =>
         \A i \in DOMAIN heap' : heap'[i].id \in pending' =>
            heap'[i].priority <= job'[w].priority]_queueVars
=============================================================================
