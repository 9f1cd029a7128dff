------------------------ MODULE RequestQueue_proofs ------------------------
(***************************************************************************)
(* RequestQueue for any number of tiles, priorities and threads: the types,*)
(* that no wakeup and no pending request is lost, and that shutdown leaves *)
(* nobody asleep.  The step lemma is about QueueNext alone, so that the    *)
(* modules that put the queue to use can cite it.                          *)
(***************************************************************************)
EXTENDS RequestQueue, FiniteSetTheorems, SequenceTheorems, TLAPS

\* The inductive invariant.  WakeupsCoverHeap needs the disjointness of
\* waiting and woken, which is part of the types.
QueueInv ==
  /\ QueueTypeOK
  /\ WakeupsCoverHeap
  /\ NobodySleepsAfterShutdown
  /\ PendingInHeap

\* The elements of two sequences around one element.
LEMMA AroundProperties ==
  ASSUME NEW S, NEW a \in Seq(S), NEW e \in S, NEW b \in Seq(S)
  PROVE  /\ (a \o <<e>>) \o b \in Seq(S)
         /\ Len((a \o <<e>>) \o b) = Len(a) + 1 + Len(b)
         /\ \A j \in 1 .. Len(a) : ((a \o <<e>>) \o b)[j] = a[j]
         /\ ((a \o <<e>>) \o b)[Len(a) + 1] = e
         /\ \A j \in 1 .. Len(b) : ((a \o <<e>>) \o b)[Len(a) + 1 + j] = b[j]
<1>1. /\ <<e>> \in Seq(S)
      /\ Len(<<e>>) = 1
      /\ <<e>>[1] = e
  OBVIOUS
<1>2. PICK m : m = <<e>>
  OBVIOUS
<1>3. /\ a \o m \in Seq(S)
      /\ Len(a \o m) = Len(a) + 1
      /\ \A j \in 1 .. Len(a) : (a \o m)[j] = a[j]
      /\ (a \o m)[Len(a) + 1] = e
  BY <1>1, <1>2, ConcatProperties
<1>4. PICK am : am = a \o m
  OBVIOUS
<1>5. /\ am \o b \in Seq(S)
      /\ Len(am \o b) = Len(am) + Len(b)
      /\ \A j \in 1 .. Len(am) + Len(b) :
           (am \o b)[j] = IF j <= Len(am) THEN am[j] ELSE b[j - Len(am)]
  BY <1>3, <1>4, ConcatProperties
<1> QED BY <1>2, <1>3, <1>4, <1>5

\* t is s with e inserted: it has the type and the elements of s, and one more.
Inserted(S, s, e, t) ==
  /\ t \in Seq(S)
  /\ Len(t) = Len(s) + 1
  /\ \E k \in 1 .. Len(t) : t[k] = e
  /\ \A j \in 1 .. Len(s) : \E k \in 1 .. Len(t) : t[k] = s[j]

\* t is s with e at place i, and what was there and behind it moved by one.
InsertedAt(S, s, i, e, t) ==
  /\ t \in Seq(S)
  /\ Len(t) = Len(s) + 1
  /\ t[i] = e
  /\ \A j \in 1 .. i - 1 : t[j] = s[j]
  /\ \A j \in i .. Len(s) : t[j + 1] = s[j]

\* Where InsertAt has each element.
LEMMA InsertAtShape ==
  ASSUME NEW S, NEW s \in Seq(S), NEW e \in S, NEW i \in 1 .. Len(s) + 1
  PROVE  InsertedAt(S, s, i, e, InsertAt(s, i, e))
<1>1. PICK front : front = SubSeq(s, 1, i - 1)
  OBVIOUS
<1>2. PICK back : back = SubSeq(s, i, Len(s))
  OBVIOUS
<1>3. /\ front \in Seq(S)
      /\ Len(front) = i - 1
      /\ \A j \in 1 .. i - 1 : front[j] = s[j]
  <2>1. \A j \in 1 .. i - 1 : s[j] \in S
    OBVIOUS
  <2> QED BY <1>1, <2>1, SubSeqProperties
<1>4. /\ back \in Seq(S)
      /\ Len(back) = Len(s) - i + 1
      /\ \A j \in 1 .. Len(s) - i + 1 : back[j] = s[i + j - 1]
  <2>1. \A j \in i .. Len(s) : s[j] \in S
    OBVIOUS
  <2> QED BY <1>2, <2>1, SubSeqProperties
<1>5. PICK t : t = (front \o <<e>>) \o back
  OBVIOUS
<1>6. InsertAt(s, i, e) = t
  BY <1>1, <1>2, <1>5 DEF InsertAt
<1>7. /\ t \in Seq(S)
      /\ Len(t) = Len(s) + 1
      /\ t[i] = e
      /\ \A j \in 1 .. i - 1 : t[j] = s[j]
      /\ \A j \in 1 .. Len(s) - i + 1 : t[i + j] = s[i + j - 1]
  <2>1. /\ t \in Seq(S)
        /\ Len(t) = Len(front) + 1 + Len(back)
        /\ \A j \in 1 .. Len(front) : t[j] = front[j]
        /\ t[Len(front) + 1] = e
        /\ \A j \in 1 .. Len(back) : t[Len(front) + 1 + j] = back[j]
    BY <1>3, <1>4, <1>5, AroundProperties
  <2>2. Len(front) + 1 = i /\ Len(front) + 1 + Len(back) = Len(s) + 1
    BY <1>3, <1>4
  <2>3. ASSUME NEW j \in 1 .. i - 1
        PROVE  t[j] = s[j]
    BY <2>1, <1>3
  <2>4. ASSUME NEW j \in 1 .. Len(s) - i + 1
        PROVE  t[i + j] = s[i + j - 1]
    BY <2>1, <2>2, <1>4
  <2> QED BY <2>1, <2>2, <2>3, <2>4
<1>8. ASSUME NEW j \in i .. Len(s)
      PROVE  t[j + 1] = s[j]
  <2>1. /\ j - i + 1 \in 1 .. Len(s) - i + 1
        /\ i + (j - i + 1) = j + 1
        /\ i + (j - i + 1) - 1 = j
    OBVIOUS
  <2> QED BY <2>1, <1>7
<1> QED BY <1>6, <1>7, <1>8 DEF InsertedAt

\* InsertAt inserts.
LEMMA InsertAtProperties ==
  ASSUME NEW S, NEW s \in Seq(S), NEW e \in S, NEW i \in 1 .. Len(s) + 1
  PROVE  Inserted(S, s, e, InsertAt(s, i, e))
<1>1. PICK t : t = InsertAt(s, i, e)
  OBVIOUS
<1>2. /\ t \in Seq(S)
      /\ Len(t) = Len(s) + 1
      /\ t[i] = e
      /\ \A j \in 1 .. i - 1 : t[j] = s[j]
      /\ \A j \in i .. Len(s) : t[j + 1] = s[j]
  BY <1>1, InsertAtShape DEF InsertedAt
<1>3. ASSUME NEW j \in 1 .. Len(s)
      PROVE  \E k \in 1 .. Len(s) + 1 : t[k] = s[j]
  <2>1. CASE j < i
    BY <2>1, <1>2
  <2>2. CASE j >= i
    BY <2>2, <1>2
  <2> QED BY <2>1, <2>2
<1> QED BY <1>1, <1>2, <1>3 DEF Inserted

\* What notify_one does to the two sets of threads.
LEMMA NotifyOneProperties ==
  ASSUME QueueTypeOK, NotifyOne
  PROVE  /\ waiting' \subseteq Workers
         /\ woken' \subseteq Workers
         /\ waiting' \cap woken' = {}
         /\ waiting' \subseteq waiting
         /\ waiting # {} => Cardinality(woken') = Cardinality(woken) + 1
<1>1. CASE waiting = {}
  BY <1>1 DEF NotifyOne, QueueTypeOK
<1>2. CASE waiting # {}
  <2>1. PICK w \in waiting : waiting' = waiting \ {w} /\ woken' = woken \cup {w}
    BY <1>2 DEF NotifyOne
  <2>2. w \notin woken /\ w \in Workers
    BY DEF QueueTypeOK
  <2>3. IsFiniteSet(woken)
    BY QueueAssumption, FS_Subset DEF QueueTypeOK
  <2>4. Cardinality(woken \cup {w}) = Cardinality(woken) + 1
    BY <2>2, <2>3, FS_AddElement
  <2> QED BY <2>1, <2>2, <2>4 DEF QueueTypeOK
<1> QED BY <1>1, <1>2

\* What pop() leaves of the heap.
LEMMA TailProperties ==
  ASSUME NEW S, NEW s \in Seq(S), NEW i \in 1 .. Len(s)
  PROVE  /\ SubSeq(s, i + 1, Len(s)) \in Seq(S)
         /\ Len(SubSeq(s, i + 1, Len(s))) = Len(s) - i
         /\ \A j \in 1 .. Len(s) - i : SubSeq(s, i + 1, Len(s))[j] = s[i + j]
<1>1. \A j \in i + 1 .. Len(s) : s[j] \in S
  OBVIOUS
<1> QED BY <1>1, SubSeqProperties
-----------------------------------------------------------------------------
\* push() keeps the invariant: an entry is added to the heap exactly when a
\* thread, if one sleeps, is notified.
LEMMA PushKeeps ==
  ASSUME QueueInv, NEW r \in Request, ~stopped, Push(r)
  PROVE  QueueInv'
<1>1. CASE r.id \in pending
  BY <1>1 DEF Push, QueueInv, QueueTypeOK, WakeupsCoverHeap,
              NobodySleepsAfterShutdown, PendingInHeap
<1>2. CASE r.id \notin pending
  <2>1. PICK i \in 1 .. Len(heap) + 1 : heap' = InsertAt(heap, i, r)
    BY <1>2 DEF Push
  <2>2. /\ pending' = pending \cup {r.id}
        /\ NotifyOne
        /\ stopped' = stopped
        /\ job' = job
    BY <1>2 DEF Push
  <2>3. /\ heap' \in Seq(Request)
        /\ Len(heap') = Len(heap) + 1
        /\ \E k \in 1 .. Len(heap) + 1 : heap'[k] = r
        /\ \A j \in 1 .. Len(heap) : \E k \in 1 .. Len(heap) + 1 : heap'[k] = heap[j]
    <3>1. heap \in Seq(Request)
      BY DEF QueueInv, QueueTypeOK
    <3>2. Inserted(Request, heap, r, InsertAt(heap, i, r))
      BY <3>1, InsertAtProperties
    <3> QED BY <2>1, <3>2 DEF Inserted
  <2>4. /\ waiting' \subseteq Workers
        /\ woken' \subseteq Workers
        /\ waiting' \cap woken' = {}
        /\ waiting' \subseteq waiting
        /\ waiting # {} => Cardinality(woken') = Cardinality(woken) + 1
    BY <2>2, NotifyOneProperties DEF QueueInv
  <2>5. QueueTypeOK'
    BY <2>2, <2>3, <2>4 DEF QueueInv, QueueTypeOK, Request
  <2>6. WakeupsCoverHeap'
    <3> SUFFICES ASSUME waiting' # {} PROVE Len(heap') <= Cardinality(woken')
      BY DEF WakeupsCoverHeap
    <3>1. waiting # {}
      BY <2>4
    <3>2. Len(heap) \in Nat /\ Len(heap) <= Cardinality(woken)
      BY <3>1 DEF QueueInv, QueueTypeOK, WakeupsCoverHeap
    <3>3. Cardinality(woken) \in Nat
      BY QueueAssumption, FS_Subset, FS_CardinalityType DEF QueueInv, QueueTypeOK
    <3> QED BY <3>1, <3>2, <3>3, <2>3, <2>4
  <2>7. NobodySleepsAfterShutdown'
    BY <2>2 DEF NobodySleepsAfterShutdown
  <2>8. PendingInHeap'
    <3> SUFFICES ASSUME NEW id \in pending'
                 PROVE  \E k \in DOMAIN heap' : heap'[k].id = id
      BY DEF PendingInHeap
    <3>1. DOMAIN heap' = 1 .. Len(heap) + 1 /\ DOMAIN heap = 1 .. Len(heap)
      BY <2>3 DEF QueueInv, QueueTypeOK
    <3>2. CASE id = r.id
      BY <3>1, <3>2, <2>3
    <3>3. CASE id \in pending
      <4>1. PICK j \in 1 .. Len(heap) : heap[j].id = id
        BY <3>1, <3>3 DEF QueueInv, PendingInHeap
      <4>2. PICK k \in 1 .. Len(heap) + 1 : heap'[k] = heap[j]
        BY <2>3
      <4> QED BY <3>1, <4>1, <4>2
    <3> QED BY <2>2, <3>2, <3>3
  <2> QED BY <2>5, <2>6, <2>7, <2>8 DEF QueueInv
<1> QED BY <1>1, <1>2

\* cancel() keeps the invariant: fewer ids are pending, nothing else changes.
LEMMA CancelKeeps ==
  ASSUME QueueInv, NEW id \in Tiles, Cancel(id)
  PROVE  QueueInv'
BY DEF Cancel, QueueInv, QueueTypeOK, WakeupsCoverHeap,
       NobodySleepsAfterShutdown, PendingInHeap

\* shutdown() keeps the invariant: nobody is left asleep.
LEMMA ShutdownKeeps ==
  ASSUME QueueInv, Shutdown
  PROVE  QueueInv'
BY DEF Shutdown, NotifyAll, QueueInv, QueueTypeOK, WakeupsCoverHeap,
       NobodySleepsAfterShutdown, PendingInHeap

\* The cardinality of the notified threads, with and without one of them.
LEMMA WokenCount ==
  ASSUME QueueTypeOK, NEW w
  PROVE  /\ Cardinality(woken) \in Nat
         /\ w \notin woken => woken \ {w} = woken
         /\ w \in woken => Cardinality(woken \ {w}) = Cardinality(woken) - 1
         /\ w \notin woken => Cardinality(woken \cup {w}) = Cardinality(woken) + 1
<1>1. IsFiniteSet(woken)
  BY QueueAssumption, FS_Subset DEF QueueTypeOK
<1>2. Cardinality(woken) \in Nat
  BY <1>1, FS_CardinalityType
<1>3. ASSUME w \in woken
      PROVE  Cardinality(woken \ {w}) = Cardinality(woken) - 1
  BY <1>1, <1>3, FS_RemoveElement
<1>4. ASSUME w \notin woken
      PROVE  Cardinality(woken \cup {w}) = Cardinality(woken) + 1
  BY <1>1, <1>4, FS_AddElement
<1> QED BY <1>2, <1>3, <1>4

\* A pop() that returns a request takes at least one entry off the heap and at
\* most one thread off the notified ones; the entries it skips are cancelled
\* ones, which the tail does not need.
LEMMA PopTakesKeeps ==
  ASSUME QueueInv, NEW w \in Workers, w \notin waiting, PopTakes(w)
  PROVE  QueueInv'
<1>1. heap \in Seq(Request)
  BY DEF QueueInv, QueueTypeOK
<1>2. PICK i \in Live :
        /\ \A j \in Live : i <= j
        /\ heap' = SubSeq(heap, i + 1, Len(heap))
        /\ pending' = pending \ {heap[i].id}
        /\ job' = [job EXCEPT ![w] = heap[i]]
  BY DEF PopTakes
<1>3. woken' = woken \ {w} /\ stopped' = stopped /\ waiting' = waiting
  BY DEF PopTakes
<1>4. i \in 1 .. Len(heap)
  BY <1>1 DEF Live
<1>5. /\ heap' \in Seq(Request)
      /\ Len(heap') = Len(heap) - i
      /\ \A j \in 1 .. Len(heap) - i : heap'[j] = heap[i + j]
  BY <1>1, <1>2, <1>4, TailProperties
<1>6. QueueTypeOK'
  <2>1. heap[i] \in Request
    BY <1>1, <1>4
  <2> QED BY <1>2, <1>3, <1>5, <2>1 DEF QueueInv, QueueTypeOK
<1>7. WakeupsCoverHeap'
  <2> SUFFICES ASSUME waiting # {} PROVE Len(heap') <= Cardinality(woken')
    BY <1>3 DEF WakeupsCoverHeap
  <2>1. Len(heap) \in Nat /\ Len(heap) <= Cardinality(woken)
    BY <1>1 DEF QueueInv, WakeupsCoverHeap
  <2>2. /\ Cardinality(woken) \in Nat
        /\ Cardinality(woken') = Cardinality(woken) \/ Cardinality(woken') = Cardinality(woken) - 1
    BY <1>3, WokenCount DEF QueueInv
  <2> QED BY <1>4, <1>5, <2>1, <2>2
<1>8. NobodySleepsAfterShutdown'
  BY <1>3 DEF QueueInv, NobodySleepsAfterShutdown
<1>9. PendingInHeap'
  <2> SUFFICES ASSUME NEW id \in pending'
               PROVE  \E k \in DOMAIN heap' : heap'[k].id = id
    BY DEF PendingInHeap
  <2>1. id \in pending /\ id # heap[i].id
    BY <1>2
  <2>2. PICK j \in 1 .. Len(heap) : heap[j].id = id
    BY <1>1, <2>1 DEF QueueInv, PendingInHeap
  <2>3. j \in Live
    BY <1>1, <2>1, <2>2 DEF Live
  <2>4. j > i
    BY <1>2, <1>4, <2>1, <2>2, <2>3
  <2>5. j - i \in 1 .. Len(heap) - i /\ i + (j - i) = j
    BY <1>1, <1>4, <2>4
  <2>6. heap'[j - i].id = id
    BY <1>5, <2>2, <2>5
  <2> QED BY <1>1, <1>4, <1>5, <2>5, <2>6
<1> QED BY <1>6, <1>7, <1>8, <1>9 DEF QueueInv

\* A pop() that finds nothing leaves an empty heap, which needs no wakeups, and
\* nothing is pending: a pending id would have a live entry.
LEMMA NothingPending ==
  ASSUME QueueInv, Live = {}
  PROVE  pending = {}
BY DEF QueueInv, PendingInHeap, Live

LEMMA PopKeeps ==
  ASSUME QueueInv, NEW w \in Workers, Pop(w)
  PROVE  QueueInv'
<1>1. CASE PopTakes(w)
  BY <1>1, PopTakesKeeps DEF Pop
<1>2. ASSUME heap' = <<>>, Live = {}, pending' = pending, stopped' = stopped,
             woken' = woken \ {w},
             \/ /\ ~stopped
                /\ waiting' = waiting \cup {w}
                /\ job' = job
             \/ /\ waiting' = waiting
                /\ job' = [job EXCEPT ![w] = NoRequest]
      PROVE  QueueInv'
  <2>1. QueueTypeOK'
    BY <1>2 DEF QueueInv, QueueTypeOK
  <2>2. WakeupsCoverHeap'
    <3>1. Cardinality(woken') \in Nat
      BY <2>1, QueueAssumption, FS_Subset, FS_CardinalityType DEF QueueTypeOK
    <3> QED BY <1>2, <3>1 DEF WakeupsCoverHeap
  <2>3. NobodySleepsAfterShutdown'
    BY <1>2 DEF QueueInv, NobodySleepsAfterShutdown
  <2>4. PendingInHeap'
    BY <1>2, NothingPending DEF PendingInHeap
  <2> QED BY <2>1, <2>2, <2>3, <2>4 DEF QueueInv
<1>3. CASE PopWaits(w)
  BY <1>2, <1>3 DEF PopWaits
<1>4. CASE PopEnds(w)
  BY <1>2, <1>4 DEF PopEnds
<1> QED BY <1>1, <1>3, <1>4 DEF Pop

\* A spurious wakeup only adds to the threads on their way.
LEMMA SpuriousKeeps ==
  ASSUME QueueInv, NEW w \in Workers, SpuriousWakeup(w)
  PROVE  QueueInv'
<1>1. QueueTypeOK'
  BY DEF SpuriousWakeup, QueueInv, QueueTypeOK
<1>2. WakeupsCoverHeap'
  <2>1. w \notin woken /\ waiting # {} /\ woken' = woken \cup {w} /\ heap' = heap
    BY DEF SpuriousWakeup, QueueInv, QueueTypeOK
  <2>2. Cardinality(woken') = Cardinality(woken) + 1 /\ Cardinality(woken) \in Nat
    BY <2>1, WokenCount DEF QueueInv
  <2>3. Len(heap) \in Nat /\ Len(heap) <= Cardinality(woken)
    BY <2>1 DEF QueueInv, QueueTypeOK, WakeupsCoverHeap
  <2> QED BY <2>1, <2>2, <2>3 DEF WakeupsCoverHeap
<1>3. NobodySleepsAfterShutdown' /\ PendingInHeap'
  BY DEF SpuriousWakeup, QueueInv, NobodySleepsAfterShutdown, PendingInHeap
<1> QED BY <1>1, <1>2, <1>3 DEF QueueInv
-----------------------------------------------------------------------------
\* m_queue is a heap: whatever is pushed, cancelled and popped, the entries are
\* handed out in the order of their priorities.
HeapInOrder == InPopOrder(heap)

\* push() puts the entry where its priority has it.
LEMMA PushKeepsOrder ==
  ASSUME HeapInOrder, NEW r \in Request, Push(r)
  PROVE  HeapInOrder'
<1>1. CASE r.id \in pending
  BY <1>1 DEF Push, HeapInOrder
<1>2. CASE r.id \notin pending
  BY <1>2 DEF Push, HeapInOrder
<1> QED BY <1>1, <1>2

\* What pop() leaves is a tail of the heap.
LEMMA PopKeepsOrder ==
  ASSUME QueueTypeOK, HeapInOrder, NEW w \in Workers, Pop(w)
  PROVE  HeapInOrder'
<1>1. CASE PopTakes(w)
  <2>1. heap \in Seq(Request) /\ DOMAIN heap = 1 .. Len(heap)
    BY DEF QueueTypeOK
  <2>2. PICK i \in 1 .. Len(heap) : heap' = SubSeq(heap, i + 1, Len(heap))
    BY <1>1, <2>1 DEF PopTakes, Live
  <2>3. /\ DOMAIN heap' = 1 .. Len(heap) - i
        /\ \A j \in 1 .. Len(heap) - i : heap'[j] = heap[i + j]
    BY <2>1, <2>2, TailProperties
  <2> SUFFICES ASSUME NEW j \in DOMAIN heap', NEW k \in DOMAIN heap', j < k
               PROVE  heap'[j].priority >= heap'[k].priority
    BY DEF HeapInOrder, InPopOrder
  <2>4. i + j \in DOMAIN heap /\ i + k \in DOMAIN heap /\ i + j < i + k
    BY <2>1, <2>2, <2>3
  <2> QED BY <2>3, <2>4 DEF HeapInOrder, InPopOrder
<1>2. CASE heap' = <<>>
  BY <1>2 DEF HeapInOrder, InPopOrder
<1> QED BY <1>1, <1>2 DEF Pop, PopWaits, PopEnds

\* The request that pop() returns is as urgent as any whose entry it leaves.
LEMMA PopTakesBest ==
  ASSUME QueueTypeOK, HeapInOrder, NEW w \in Workers, PopTakes(w)
  PROVE  \A j \in DOMAIN heap' : heap'[j].priority <= job'[w].priority
<1>1. /\ heap \in Seq(Request)
      /\ DOMAIN heap = 1 .. Len(heap)
      /\ job \in [Workers -> Request \cup {NoRequest}]
  BY DEF QueueTypeOK
<1>2. PICK i \in 1 .. Len(heap) : /\ heap' = SubSeq(heap, i + 1, Len(heap))
                                  /\ job' = [job EXCEPT ![w] = heap[i]]
  BY <1>1 DEF PopTakes, Live
<1>3. /\ DOMAIN heap' = 1 .. Len(heap) - i
      /\ \A j \in 1 .. Len(heap) - i : heap'[j] = heap[i + j]
  BY <1>1, <1>2, TailProperties
<1>4. job'[w] = heap[i]
  BY <1>1, <1>2
<1> SUFFICES ASSUME NEW j \in DOMAIN heap'
             PROVE  heap'[j].priority <= heap[i].priority
  BY <1>4
<1>5. i \in DOMAIN heap /\ i + j \in DOMAIN heap /\ i < i + j
  BY <1>1, <1>2, <1>3
<1>6. heap[i].priority \in Nat /\ heap[i + j].priority \in Nat
  <2>1. \A k \in DOMAIN heap : heap[k] \in Request
    BY <1>1
  <2>2. \A r \in Request : r.priority \in Nat
    BY QueueAssumption DEF Request
  <2> QED BY <1>5, <2>1, <2>2
<1> QED BY <1>3, <1>5, <1>6 DEF HeapInOrder, InPopOrder

\* Only a pop() that takes a request gives a thread another one.
BestFirst(w) ==
  job'[w] # job[w] /\ job'[w] # NoRequest =>
    \A i \in DOMAIN heap' : heap'[i].id \in pending' =>
      heap'[i].priority <= job'[w].priority

LEMMA PopIsBestFirst ==
  ASSUME QueueTypeOK, HeapInOrder, NEW w \in Workers, Pop(w), NEW v \in Workers
  PROVE  BestFirst(v)
<1>1. job \in [Workers -> Request \cup {NoRequest}]
  BY DEF QueueTypeOK
<1>2. CASE v = w /\ PopTakes(w)
  BY <1>2, PopTakesBest DEF BestFirst
<1>3. CASE v # w \/ ~PopTakes(w)
  BY <1>1, <1>3 DEF BestFirst, Pop, PopTakes, PopWaits, PopEnds
<1> QED BY <1>2, <1>3
-----------------------------------------------------------------------------
LEMMA QueueInvInit == QueueInit => QueueInv
<1> SUFFICES ASSUME QueueInit PROVE QueueInv
  OBVIOUS
<1>1. QueueTypeOK
  <2>1. heap \in Seq(Request)
    BY DEF QueueInit
  <2>2. job \in [Workers -> Request \cup {NoRequest}]
    BY DEF QueueInit
  <2> QED BY <2>1, <2>2 DEF QueueInit, QueueTypeOK
<1>2. WakeupsCoverHeap /\ NobodySleepsAfterShutdown /\ PendingInHeap
  BY DEF QueueInit, WakeupsCoverHeap, NobodySleepsAfterShutdown, PendingInHeap
<1> QED BY <1>1, <1>2 DEF QueueInv

LEMMA QueueInvStep == QueueInv /\ [QueueNext]_queueVars => QueueInv'
<1> SUFFICES ASSUME QueueInv, [QueueNext]_queueVars PROVE QueueInv'
  OBVIOUS
<1>1. ASSUME NEW r \in Request, ~stopped, Push(r) PROVE QueueInv'
  BY <1>1, PushKeeps
<1>2. ASSUME NEW id \in Tiles, Cancel(id) PROVE QueueInv'
  BY <1>2, CancelKeeps
<1>3. CASE Shutdown
  BY <1>3, ShutdownKeeps
<1>4. ASSUME NEW w \in Workers, Pop(w) PROVE QueueInv'
  BY <1>4, PopKeeps
<1>5. ASSUME NEW w \in Workers, SpuriousWakeup(w) PROVE QueueInv'
  BY <1>5, SpuriousKeeps
<1>6. CASE UNCHANGED queueVars
  BY <1>6 DEF queueVars, QueueInv, QueueTypeOK, WakeupsCoverHeap,
              NobodySleepsAfterShutdown, PendingInHeap
<1> QED BY <1>1, <1>2, <1>3, <1>4, <1>5, <1>6 DEF QueueNext
-----------------------------------------------------------------------------
\* The invariant holds in every state of the queue.
THEOREM QueueInvariant == QueueSpec => []QueueInv
BY QueueInvInit, QueueInvStep, PTL DEF QueueSpec

\* Every variable of the queue keeps its type.
THEOREM QueueTypes == QueueSpec => []QueueTypeOK
<1>1. QueueInv => QueueTypeOK
  BY DEF QueueInv
<1> QED BY <1>1, QueueInvariant, PTL

\* RequestQueue.cpp loses no wakeup: a thread sleeps in m_cv.wait only while
\* every heap entry has a notified thread coming for it.
THEOREM NoLostWakeup == QueueSpec => []WakeupsCoverHeap
<1>1. QueueInv => WakeupsCoverHeap
  BY DEF QueueInv
<1> QED BY <1>1, QueueInvariant, PTL

\* After shutdown() no thread sleeps in pop().
THEOREM ShutdownWakesEveryone == QueueSpec => []NobodySleepsAfterShutdown
<1>1. QueueInv => NobodySleepsAfterShutdown
  BY DEF QueueInv
<1> QED BY <1>1, QueueInvariant, PTL

\* Lazy deletion loses no request: what is pending has an entry in the heap.
THEOREM NoLostRequest == QueueSpec => []PendingInHeap
<1>1. QueueInv => PendingInHeap
  BY DEF QueueInv
<1> QED BY <1>1, QueueInvariant, PTL

LEMMA OrderInit == QueueInit => HeapInOrder
BY DEF QueueInit, HeapInOrder, InPopOrder

LEMMA OrderStep == QueueInv /\ HeapInOrder /\ [QueueNext]_queueVars => HeapInOrder'
<1> SUFFICES ASSUME QueueInv, HeapInOrder, [QueueNext]_queueVars PROVE HeapInOrder'
  OBVIOUS
<1>1. ASSUME NEW r \in Request, Push(r) PROVE HeapInOrder'
  BY <1>1, PushKeepsOrder
<1>2. ASSUME NEW w \in Workers, Pop(w) PROVE HeapInOrder'
  BY <1>2, PopKeepsOrder DEF QueueInv
<1>3. CASE heap' = heap
  BY <1>3 DEF HeapInOrder
<1> QED BY <1>1, <1>2, <1>3 DEF QueueNext, Cancel, Shutdown, SpuriousWakeup, queueVars

\* TileRequestLess puts the highest priority on top: whatever was pushed, cancelled
\* and skipped before, no entry that can still be returned is more urgent than the
\* request that pop() returns.
THEOREM BestRequestFirst == QueueSpec => PopsBestFirst
<1>1. QueueSpec => [](QueueInv /\ HeapInOrder)
  BY QueueInvInit, QueueInvStep, OrderInit, OrderStep, PTL DEF QueueSpec
<1>2. QueueInv /\ HeapInOrder /\ [QueueNext]_queueVars =>
        [\A w \in Workers :
           job'[w] # job[w] /\ job'[w] # NoRequest =>
             \A i \in DOMAIN heap' : heap'[i].id \in pending' =>
                heap'[i].priority <= job'[w].priority]_queueVars
  <2> SUFFICES ASSUME QueueInv, HeapInOrder, QueueNext, NEW v \in Workers
               PROVE  BestFirst(v)
    BY DEF BestFirst
  <2>1. ASSUME NEW w \in Workers, Pop(w) PROVE BestFirst(v)
    BY <2>1, PopIsBestFirst DEF QueueInv
  <2>2. CASE job' = job
    BY <2>2 DEF BestFirst
  <2> QED BY <2>1, <2>2 DEF QueueNext, Push, Cancel, Shutdown, SpuriousWakeup
<1> QED BY <1>1, <1>2, PTL DEF QueueSpec, PopsBestFirst
=============================================================================
