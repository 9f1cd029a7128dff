--------------------------- MODULE RequestHistory ---------------------------
(***************************************************************************)
(* RequestQueue with a history variable: `wanted' holds, for every pending *)
(* id, the request whose push() made it pending.  m_pending keeps only     *)
(* ids, so the code cannot tell that request from an earlier one for the   *)
(* same id that was cancelled and still lies in the heap.                  *)
(***************************************************************************)
EXTENDS RequestQueue

VARIABLE wanted

historyVars == <<queueVars, wanted>>

HistoryInit == QueueInit /\ wanted = {}

RecordedPush(r) ==
  /\ ~stopped
  /\ Len(heap) < MaxHeap
  /\ Push(r)
  /\ wanted' = IF r.id \in pending THEN wanted ELSE wanted \cup {r}

\* cancel() and pop() erase the id from m_pending, and with it the request.
StillPending == wanted' = {r \in wanted : r.id \in pending'}

RecordedCancel(id) ==
  /\ Cancel(id)
  /\ StillPending

RecordedPop(w) ==
  /\ Pop(w)
  /\ StillPending

HistoryNext ==
  \/ \E r \in Request : RecordedPush(r)
  \/ \E id \in Tiles : RecordedCancel(id)
  \/ \E w \in Workers : RecordedPop(w)
  \/ Shutdown /\ UNCHANGED wanted
  \/ \E w \in Workers : SpuriousWakeup(w) /\ UNCHANGED wanted

HistorySpec == HistoryInit /\ [][HistoryNext]_historyVars
-----------------------------------------------------------------------------
\* What lies in the heap besides one entry for each wanted request.
LeftOver ==
  {q \in Request : \E i \in DOMAIN heap :
     /\ heap[i] = q
     /\ q \in wanted => \E j \in DOMAIN heap \ {i} : heap[j] = q}

(***************************************************************************)
(* The queue is the abstract one, whatever is pushed and cancelled: each   *)
(* pending id has one request, with the priority it was pushed with; a pop *)
(* takes one of the highest priority, or nothing once the queue is shut    *)
(* down and empty; and an entry left over by cancel() is seen at most in   *)
(* place of a later request for its tile, in whose favour it errs.         *)
(***************************************************************************)
Abstract == INSTANCE PriorityRequests
              WITH stale <- LeftOver, taken <- job, closed <- stopped
IsPriorityQueue == Abstract!Spec

\* docs/streaming.md, Priority: "on pop, a request cancelled after being pushed
\* is silently skipped".  What a pop returns is a request that is wanted.
CancelledIsSkipped ==
  [][\A w \in Workers : job'[w] # job[w] /\ job'[w] # NoRequest =>
       job'[w] \in wanted]_historyVars
=============================================================================
