----------------------- MODULE RequestHistory_proofs ------------------------
(***************************************************************************)
(* The queue with lazy deletion is the priority queue of PriorityRequests, *)
(* for any tiles, priorities and threads, and whatever the owner pushes    *)
(* and cancels.                                                            *)
(***************************************************************************)
EXTENDS RequestHistory, RequestQueue_proofs

\* m_pending and the history agree on which tiles are wanted, each once.
OneRequestPerTile ==
  /\ wanted \subseteq Request
  /\ \A r \in wanted : r.id \in pending
  /\ \A id \in pending : \E r \in wanted : r.id = id
  /\ \A r, s \in wanted : r.id = s.id => r = s

\* A wanted request has its own entry, with its own priority, whatever else lies in
\* the heap for its tile.
WantedInHeap == \A r \in wanted : \E i \in DOMAIN heap : heap[i] = r

HistoryInv ==
  /\ QueueInv
  /\ HeapInOrder
  /\ OneRequestPerTile
  /\ WantedInHeap

\* The heap has r at i, and each entry of before in a place of its own.
Moved(r, i, to) ==
  /\ to \in [DOMAIN heap -> DOMAIN heap' \ {i}]
  /\ heap'[i] = r
  /\ \A k \in DOMAIN heap : heap'[to[k]] = heap[k]
  /\ \A k, l \in DOMAIN heap : to[k] = to[l] => k = l
  /\ \A m \in DOMAIN heap' \ {i} : \E k \in DOMAIN heap : to[k] = m

\* A push() adds one entry and moves the others, none of them lost or doubled.
LEMMA PushMoves ==
  ASSUME QueueTypeOK, NEW r \in Request, r.id \notin pending, Push(r)
  PROVE  \E i \in DOMAIN heap' : \E to : Moved(r, i, to)
<1>1. heap \in Seq(Request) /\ DOMAIN heap = 1 .. Len(heap)
  BY DEF QueueTypeOK
<1>2. PICK i \in 1 .. Len(heap) + 1 : heap' = InsertAt(heap, i, r)
  BY DEF Push
<1>3. /\ heap' \in Seq(Request)
      /\ Len(heap') = Len(heap) + 1
      /\ heap'[i] = r
      /\ \A j \in 1 .. i - 1 : heap'[j] = heap[j]
      /\ \A j \in i .. Len(heap) : heap'[j + 1] = heap[j]
  <2>1. InsertedAt(Request, heap, i, r, InsertAt(heap, i, r))
    BY <1>1, InsertAtShape
  <2> QED BY <1>2, <2>1 DEF InsertedAt
<1>4. DOMAIN heap' = 1 .. Len(heap) + 1
  BY <1>3
<1> DEFINE to == [k \in DOMAIN heap |-> IF k < i THEN k ELSE k + 1]
<1>5. to \in [DOMAIN heap -> DOMAIN heap' \ {i}]
  BY <1>1, <1>4
<1>6. ASSUME NEW k \in DOMAIN heap PROVE heap'[to[k]] = heap[k]
  BY <1>1, <1>3
<1>7. ASSUME NEW k \in DOMAIN heap, NEW l \in DOMAIN heap, to[k] = to[l] PROVE k = l
  BY <1>1, <1>7
<1>8. ASSUME NEW m \in DOMAIN heap' \ {i} PROVE \E k \in DOMAIN heap : to[k] = m
  <2>1. CASE m < i
    BY <1>1, <1>4, <2>1
  <2>2. CASE m > i
    <3>1. m - 1 \in DOMAIN heap /\ ~(m - 1 < i) /\ (m - 1) + 1 = m
      BY <1>1, <1>4, <2>2
    <3> QED BY <3>1
  <2> QED BY <1>4, <2>1, <2>2
<1>9. i \in DOMAIN heap'
  BY <1>4
<1> HIDE DEF to
<1>10. Moved(r, i, to)
  BY <1>3, <1>5, <1>6, <1>7, <1>8 DEF Moved
<1> QED BY <1>9, <1>10

\* A push() makes the request wanted that its entry holds.
LEMMA RecordedPushKeeps ==
  ASSUME HistoryInv, NEW r \in Request, RecordedPush(r)
  PROVE  HistoryInv'
<1>1. QueueInv' /\ HeapInOrder'
  BY PushKeeps, PushKeepsOrder DEF HistoryInv, RecordedPush
<1>2. CASE r.id \in pending
  <2>1. UNCHANGED <<heap, pending, wanted>>
    BY <1>2 DEF RecordedPush, Push
  <2> QED BY <1>1, <2>1 DEF HistoryInv, OneRequestPerTile, WantedInHeap
<1>3. CASE r.id \notin pending
  <2>1. pending' = pending \cup {r.id} /\ wanted' = wanted \cup {r}
    BY <1>3 DEF RecordedPush, Push
  <2>2. OneRequestPerTile'
    BY <1>3, <2>1 DEF HistoryInv, OneRequestPerTile
  <2>3. PICK i \in DOMAIN heap' : \E to : Moved(r, i, to)
    BY <1>3, PushMoves DEF HistoryInv, QueueInv, RecordedPush
  <2>4. PICK to : Moved(r, i, to)
    BY <2>3
  <2>5. WantedInHeap'
    <3> SUFFICES ASSUME NEW q \in wanted' PROVE \E k \in DOMAIN heap' : heap'[k] = q
      BY DEF WantedInHeap
    <3>1. CASE q = r
      BY <2>3, <2>4, <3>1 DEF Moved
    <3>2. CASE q # r
      <4>1. PICK k \in DOMAIN heap : heap[k] = q
        BY <2>1, <3>2 DEF HistoryInv, WantedInHeap
      <4> QED BY <2>4, <4>1 DEF Moved
    <3> QED BY <3>1, <3>2
  <2> QED BY <1>1, <2>2, <2>5 DEF HistoryInv
<1> QED BY <1>2, <1>3

\* cancel() leaves the entries; the request for its id is wanted no longer.
LEMMA RecordedCancelKeeps ==
  ASSUME HistoryInv, NEW id \in Tiles, RecordedCancel(id)
  PROVE  HistoryInv'
<1>1. QueueInv' /\ HeapInOrder'
  BY CancelKeeps DEF HistoryInv, RecordedCancel, Cancel, HeapInOrder
<1>2. /\ pending' = pending \ {id}
      /\ heap' = heap
      /\ wanted' = {r \in wanted : r.id \in pending'}
  BY DEF RecordedCancel, Cancel, StillPending
<1>3. OneRequestPerTile'
  BY <1>2 DEF HistoryInv, OneRequestPerTile
<1>4. WantedInHeap'
  BY <1>2 DEF HistoryInv, WantedInHeap
<1> QED BY <1>1, <1>3, <1>4 DEF HistoryInv

\* What a pop() throws away was cancelled: the entry of a request that stays wanted
\* is live, and lies behind the one that is taken.
LEMMA RecordedPopKeeps ==
  ASSUME HistoryInv, NEW w \in Workers, RecordedPop(w)
  PROVE  HistoryInv'
<1>1. QueueInv' /\ HeapInOrder'
  BY PopKeeps, PopKeepsOrder DEF HistoryInv, QueueInv, RecordedPop
<1>2. wanted' = {r \in wanted : r.id \in pending'} /\ Pop(w)
  BY DEF RecordedPop, StillPending
<1>3. CASE PopTakes(w)
  <2>1. heap \in Seq(Request) /\ DOMAIN heap = 1 .. Len(heap)
    BY DEF HistoryInv, QueueInv, QueueTypeOK
  <2>2. PICK i \in 1 .. Len(heap) : /\ \A j \in Live : i <= j
                                    /\ heap' = SubSeq(heap, i + 1, Len(heap))
                                    /\ pending' = pending \ {heap[i].id}
    BY <1>3, <2>1 DEF PopTakes, Live
  <2>3. /\ DOMAIN heap' = 1 .. Len(heap) - i
        /\ \A j \in 1 .. Len(heap) - i : heap'[j] = heap[i + j]
    BY <2>1, <2>2, TailProperties
  <2>4. OneRequestPerTile'
    BY <1>2, <2>2 DEF HistoryInv, OneRequestPerTile
  <2>5. WantedInHeap'
    <3> SUFFICES ASSUME NEW q \in wanted' PROVE \E k \in DOMAIN heap' : heap'[k] = q
      BY DEF WantedInHeap
    <3>1. PICK j \in DOMAIN heap : heap[j] = q
      BY <1>2 DEF HistoryInv, WantedInHeap
    <3>2. j \in Live /\ j # i
      BY <1>2, <2>2, <3>1 DEF Live, HistoryInv, OneRequestPerTile
    <3>3. j - i \in 1 .. Len(heap) - i /\ i + (j - i) = j
      BY <2>1, <2>2, <3>2
    <3> QED BY <2>3, <3>1, <3>3
  <2> QED BY <1>1, <2>4, <2>5 DEF HistoryInv
<1>4. CASE PopWaits(w) \/ PopEnds(w)
  <2>1. pending = {}
    BY <1>4, NothingPending DEF PopWaits, PopEnds, HistoryInv
  <2>2. pending' = {} /\ wanted' = {}
    BY <1>2, <1>4, <2>1 DEF PopWaits, PopEnds
  <2> QED BY <1>1, <2>2 DEF HistoryInv, OneRequestPerTile, WantedInHeap
<1> QED BY <1>2, <1>3, <1>4 DEF Pop

LEMMA HistoryInvInit == HistoryInit => HistoryInv
BY QueueInvInit, OrderInit
   DEF HistoryInit, QueueInit, HistoryInv, OneRequestPerTile, WantedInHeap

LEMMA HistoryInvStep ==
  ASSUME HistoryInv, [HistoryNext]_historyVars
  PROVE  HistoryInv'
<1>1. ASSUME NEW r \in Request, RecordedPush(r) PROVE HistoryInv'
  BY <1>1, RecordedPushKeeps
<1>2. ASSUME NEW id \in Tiles, RecordedCancel(id) PROVE HistoryInv'
  BY <1>2, RecordedCancelKeeps
<1>3. ASSUME NEW w \in Workers, RecordedPop(w) PROVE HistoryInv'
  BY <1>3, RecordedPopKeeps
<1>4. ASSUME QueueInv', UNCHANGED <<heap, pending, wanted>> PROVE HistoryInv'
  BY <1>4 DEF HistoryInv, HeapInOrder, OneRequestPerTile, WantedInHeap
<1>5. CASE Shutdown /\ UNCHANGED wanted
  BY <1>4, <1>5, ShutdownKeeps DEF HistoryInv, Shutdown
<1>6. ASSUME NEW w \in Workers, SpuriousWakeup(w), UNCHANGED wanted PROVE HistoryInv'
  BY <1>4, <1>6, SpuriousKeeps DEF HistoryInv, SpuriousWakeup
<1>7. CASE UNCHANGED historyVars
  BY <1>4, <1>7, QueueInvStep DEF HistoryInv, historyVars, queueVars
<1> QED BY <1>1, <1>2, <1>3, <1>5, <1>6, <1>7 DEF HistoryNext
-----------------------------------------------------------------------------
\* A push() leaves nothing over: of its request there is one entry more, and one is
\* wanted.
LEMMA PushLeavesOver ==
  ASSUME HistoryInv, NEW r \in Request, RecordedPush(r), r.id \notin pending
  PROVE  LeftOver' = LeftOver
<1>1. wanted' = wanted \cup {r} /\ r \notin wanted
  BY DEF RecordedPush, HistoryInv, OneRequestPerTile
<1>2. PICK i \in DOMAIN heap' : \E to : Moved(r, i, to)
  BY PushMoves DEF HistoryInv, QueueInv, RecordedPush
<1>3. PICK to : Moved(r, i, to)
  BY <1>2
<1> USE DEF Moved
<1>4. ASSUME NEW q \in LeftOver PROVE q \in LeftOver'
  <2>1. PICK k \in DOMAIN heap :
          /\ heap[k] = q
          /\ q \in wanted => \E l \in DOMAIN heap \ {k} : heap[l] = q
    BY DEF LeftOver
  <2>2. to[k] \in DOMAIN heap' \ {i} /\ heap'[to[k]] = q
    BY <1>3, <2>1
  <2>3. CASE q = r
    BY <1>3, <2>2, <2>3 DEF LeftOver
  <2>4. CASE q \in wanted
    <3>1. PICK l \in DOMAIN heap \ {k} : heap[l] = q
      BY <2>1, <2>4
    <3>2. to[l] \in DOMAIN heap' \ {to[k]} /\ heap'[to[l]] = q
      BY <1>3, <3>1
    <3> QED BY <2>2, <3>2 DEF LeftOver
  <2>5. CASE q # r /\ q \notin wanted
    BY <1>1, <2>2, <2>5 DEF LeftOver
  <2> QED BY <2>3, <2>4, <2>5
<1>5. ASSUME NEW q \in LeftOver' PROVE q \in LeftOver
  <2>1. PICK m \in DOMAIN heap' :
          /\ heap'[m] = q
          /\ q \in wanted' => \E n \in DOMAIN heap' \ {m} : heap'[n] = q
    BY DEF LeftOver
  <2>2. q \in Request
    BY DEF LeftOver
  <2>3. CASE q = r
    <3>1. PICK n \in DOMAIN heap' \ {i} : heap'[n] = r
      BY <1>1, <2>1, <2>3
    <3>2. PICK k \in DOMAIN heap : heap[k] = r
      BY <1>3, <3>1
    <3> QED BY <1>1, <2>2, <2>3, <3>2 DEF LeftOver
  <2>4. CASE q # r
    <3>1. PICK k \in DOMAIN heap : to[k] = m /\ heap[k] = q
      BY <1>3, <2>1, <2>4
    <3>2. ASSUME q \in wanted PROVE \E l \in DOMAIN heap \ {k} : heap[l] = q
      <4>1. PICK n \in DOMAIN heap' \ {m} : heap'[n] = q
        BY <1>1, <2>1, <3>2
      <4>2. PICK l \in DOMAIN heap : to[l] = n /\ heap[l] = q
        BY <1>3, <2>4, <4>1
      <4> QED BY <3>1, <4>1, <4>2
    <3> QED BY <2>2, <3>1, <3>2 DEF LeftOver
  <2> QED BY <2>3, <2>4
<1> QED BY <1>4, <1>5

LEMMA AcceptStep ==
  ASSUME HistoryInv, NEW r \in Request, RecordedPush(r)
  PROVE  [Abstract!Next]_(Abstract!vars)
<1>1. UNCHANGED <<job, stopped>>
  BY DEF RecordedPush, Push
<1>2. CASE r.id \in pending
  <2>1. UNCHANGED <<heap, wanted>>
    BY <1>2 DEF RecordedPush, Push
  <2> QED BY <1>1, <2>1 DEF Abstract!vars, LeftOver
<1>3. CASE r.id \notin pending
  <2>1. /\ r.id \in Tiles
        /\ r.priority \in Priorities
        /\ r = [id |-> r.id, priority |-> r.priority]
    BY DEF Request
  <2>2. LeftOver' = LeftOver
    BY <1>3, PushLeavesOver
  <2>3. Abstract!Accept(r)
    BY <1>1, <1>3, <2>2
       DEF RecordedPush, HistoryInv, OneRequestPerTile, Abstract!Accept
  <2> QED BY <2>1, <2>3 DEF Abstract!Next
<1> QED BY <1>2, <1>3

\* A cancelled request leaves its entry over.
LEMMA WithdrawStep ==
  ASSUME HistoryInv, NEW id \in Tiles, RecordedCancel(id)
  PROVE  [Abstract!Next]_(Abstract!vars)
<1>1. /\ UNCHANGED <<heap, job, stopped>>
      /\ wanted' = {r \in wanted : r.id \in pending \ {id}}
  BY DEF RecordedCancel, Cancel, StillPending
<1>2. CASE id \in pending
  <2>1. PICK r \in wanted : r.id = id
    BY <1>2 DEF HistoryInv, OneRequestPerTile
  <2>2. wanted' = wanted \ {r}
    BY <1>1, <2>1 DEF HistoryInv, OneRequestPerTile
  <2>3. PICK i \in DOMAIN heap : heap[i] = r
    BY DEF HistoryInv, WantedInHeap
  <2>4. r \in Request
    BY DEF HistoryInv, OneRequestPerTile
  <2>5. LeftOver' = LeftOver \cup {r}
    BY <1>1, <2>2, <2>3, <2>4 DEF LeftOver
  <2>6. Abstract!Withdraw(r)
    BY <1>1, <2>2, <2>5 DEF Abstract!Withdraw
  <2> QED BY <2>6 DEF Abstract!Next
<1>3. CASE id \notin pending
  <2>1. wanted' = wanted
    BY <1>1, <1>3 DEF HistoryInv, OneRequestPerTile
  <2> QED BY <1>1, <2>1 DEF Abstract!vars, LeftOver
<1> QED BY <1>2, <1>3

\* The first live entry stands for the wanted request of its tile.  It is as urgent
\* as any that is wanted, for all of these lie in the heap and are live; what is left
\* over lies behind it.
LEMMA TakeStep ==
  ASSUME HistoryInv, NEW w \in Workers, RecordedPop(w), PopTakes(w)
  PROVE  Abstract!Next
<1>1. wanted' = {r \in wanted : r.id \in pending'} /\ stopped' = stopped
  BY DEF RecordedPop, StillPending, PopTakes
<1>2. heap \in Seq(Request) /\ DOMAIN heap = 1 .. Len(heap)
  BY DEF HistoryInv, QueueInv, QueueTypeOK
<1>3. PICK i \in Live :
        /\ \A j \in Live : i <= j
        /\ heap' = SubSeq(heap, i + 1, Len(heap))
        /\ pending' = pending \ {heap[i].id}
        /\ job' = [job EXCEPT ![w] = heap[i]]
  BY DEF PopTakes
<1>4. i \in 1 .. Len(heap) /\ heap[i] \in Request /\ heap[i].id \in pending
  BY <1>2 DEF Live
<1>5. PICK r \in wanted : r.id = heap[i].id
  BY <1>4 DEF HistoryInv, OneRequestPerTile
<1>6. wanted' = wanted \ {r}
  BY <1>1, <1>3, <1>5 DEF HistoryInv, OneRequestPerTile
<1>7. Abstract!StandsFor(heap[i], r) /\ heap[i] \in LeftOver \cup {r}
  <2>1. ASSUME heap[i] # r PROVE heap[i] \in LeftOver
    <3>1. heap[i] \notin wanted
      BY <1>5, <2>1 DEF HistoryInv, OneRequestPerTile
    <3> QED BY <1>2, <1>4, <3>1 DEF LeftOver
  <2> QED BY <1>5, <2>1 DEF Abstract!StandsFor
<1>8. ASSUME NEW j \in DOMAIN heap, i <= j
      PROVE  heap[j].priority <= heap[i].priority
  <2>1. heap[j].priority \in Nat
    <3>1. heap[j] \in Request
      BY <1>2
    <3> QED BY <3>1, QueueAssumption DEF Request
  <2>2. CASE i = j
    BY <2>1, <2>2
  <2>3. CASE i < j
    <3>1. heap[i].priority >= heap[j].priority
      BY <1>2, <1>4, <2>3 DEF HistoryInv, HeapInOrder, InPopOrder
    <3>2. heap[i].priority \in Nat
      BY <1>4, QueueAssumption DEF Request
    <3> QED BY <2>1, <3>1, <3>2
  <2> QED BY <1>2, <1>4, <1>8, <2>2, <2>3
<1>9. ASSUME NEW other \in wanted
      PROVE  other.priority <= heap[i].priority
  <2>1. PICK j \in DOMAIN heap : heap[j] = other
    BY DEF HistoryInv, WantedInHeap
  <2>2. j \in Live
    BY <2>1 DEF Live, HistoryInv, OneRequestPerTile
  <2> QED BY <1>3, <1>8, <2>1, <2>2
<1>10. ASSUME NEW q \in LeftOver'
       PROVE  q \in LeftOver \cup ({r} \ {heap[i]}) /\ q.priority <= heap[i].priority
  <2>1. PICK k \in DOMAIN heap' :
          /\ heap'[k] = q
          /\ q \in wanted' => \E l \in DOMAIN heap' \ {k} : heap'[l] = q
    BY DEF LeftOver
  <2>2. ASSUME NEW l \in DOMAIN heap'
        PROVE  l \in Nat /\ i + l \in DOMAIN heap /\ i < i + l /\ heap'[l] = heap[i + l]
    BY <1>2, <1>3, <1>4, TailProperties
  <2>3. q \in Request /\ heap[i + k] = q /\ i + k \in DOMAIN heap /\ i + k # i
    BY <1>2, <1>4, <2>1, <2>2 DEF LeftOver
  <2>4. q.priority <= heap[i].priority
    BY <1>2, <1>4, <1>8, <2>1, <2>2
  <2>5. CASE q \notin wanted
    BY <2>3, <2>4, <2>5 DEF LeftOver
  <2>6. CASE q \in wanted /\ q # r
    <3>1. PICK l \in DOMAIN heap' \ {k} : heap'[l] = q
      BY <1>6, <2>1, <2>6
    <3>2. i + l \in DOMAIN heap /\ heap[i + l] = q /\ i + l # i + k
      BY <1>4, <2>2, <3>1
    <3> QED BY <2>3, <2>4, <3>2 DEF LeftOver
  <2>7. CASE q = r /\ r = heap[i]
    BY <1>2, <1>4, <2>3, <2>4, <2>7 DEF LeftOver
  <2> QED BY <2>4, <2>5, <2>6, <2>7
<1>11. Abstract!Take(w, r, heap[i])
  BY <1>1, <1>3, <1>6, <1>7, <1>9, <1>10 DEF Abstract!Take
<1> QED BY <1>7, <1>11 DEF Abstract!Next

\* A pop() that finds nothing live has thrown away what was left over.
LEMMA RefuseStep ==
  ASSUME HistoryInv, NEW w \in Workers, RecordedPop(w), PopWaits(w) \/ PopEnds(w)
  PROVE  Abstract!Next
<1>1. pending = {} /\ wanted = {} /\ wanted' = {}
  BY NothingPending
     DEF PopWaits, PopEnds, HistoryInv, OneRequestPerTile, RecordedPop, StillPending
<1>2. heap' = <<>> /\ stopped' = stopped
  BY DEF PopWaits, PopEnds
<1>3. LeftOver' = {}
  BY <1>2 DEF LeftOver
<1>4. CASE PopWaits(w)
  <2>1. Abstract!Forget
    BY <1>1, <1>2, <1>3, <1>4 DEF PopWaits, Abstract!Forget
  <2> QED BY <2>1 DEF Abstract!Next
<1>5. CASE PopEnds(w)
  <2>1. Abstract!Refuse(w)
    BY <1>1, <1>2, <1>3, <1>5 DEF PopEnds, Abstract!Refuse
  <2> QED BY <2>1 DEF Abstract!Next
<1> QED BY <1>4, <1>5

LEMMA AbstractStep ==
  ASSUME HistoryInv, [HistoryNext]_historyVars
  PROVE  [Abstract!Next]_(Abstract!vars)
<1>1. ASSUME NEW r \in Request, RecordedPush(r) PROVE [Abstract!Next]_(Abstract!vars)
  BY <1>1, AcceptStep
<1>2. ASSUME NEW id \in Tiles, RecordedCancel(id) PROVE [Abstract!Next]_(Abstract!vars)
  BY <1>2, WithdrawStep
<1>3. ASSUME NEW w \in Workers, RecordedPop(w) PROVE [Abstract!Next]_(Abstract!vars)
  BY <1>3, TakeStep, RefuseStep DEF RecordedPop, Pop
<1>4. CASE Shutdown /\ UNCHANGED wanted
  <2>1. LeftOver' = LeftOver
    BY <1>4 DEF Shutdown, LeftOver
  <2>2. Abstract!Close
    BY <1>4, <2>1 DEF Shutdown, Abstract!Close
  <2> QED BY <2>2 DEF Abstract!Next
<1>5. CASE UNCHANGED <<heap, wanted, job, stopped>>
  BY <1>5 DEF Abstract!vars, LeftOver
<1> QED BY <1>1, <1>2, <1>3, <1>4, <1>5
        DEF HistoryNext, SpuriousWakeup, historyVars, queueVars
-----------------------------------------------------------------------------
\* RequestQueue implements PriorityRequests, whatever is pushed and cancelled and with
\* whatever priorities: every thread is given a wanted request of the highest priority,
\* or an older one for its tile that is no less urgent, or none when the queue is shut
\* down and empty; what was cancelled and not pushed again is never handed out.
THEOREM ImplementsPriorityQueue == HistorySpec => IsPriorityQueue
<1>1. HistorySpec => []HistoryInv
  <2>1. HistoryInv /\ [HistoryNext]_historyVars => HistoryInv'
    BY HistoryInvStep
  <2> QED BY <2>1, HistoryInvInit, PTL DEF HistorySpec
<1>2. HistoryInit => Abstract!Init
  BY DEF HistoryInit, QueueInit, Abstract!Init, LeftOver
<1>3. HistoryInv /\ [HistoryNext]_historyVars => [Abstract!Next]_(Abstract!vars)
  BY AbstractStep
<1> QED BY <1>1, <1>2, <1>3, PTL DEF HistorySpec, IsPriorityQueue, Abstract!Spec
=============================================================================
