---------------------------- MODULE QueueProofs ----------------------------
(***************************************************************************)
(* Proofs about ReactiveQueue for every capacity, every number of items    *)
(* and of calls of Clear, and that it implements FifoChannel.              *)
(***************************************************************************)
EXTENDS ReactiveQueue, SequenceTheorems, TLAPS

\* Types and bounds.
Types ==
  /\ buffer \in Seq(1..MaxItems) /\ hand \in Seq(1..MaxItems) /\ queue \in Seq(1..MaxItems)
  /\ clearing \in {"own", "none", "unregister", "wait"}
  /\ enqueue \in 0..Capacity /\ dequeue \in 0..Capacity
  /\ loop \in {"idle", "collected", "take", "unregister", "push"}
  /\ teardown \in {"none", "unregister", "own_unregister", "wait", "buffer", "queue"}
  /\ sent \in 0..MaxItems /\ received \in 0..MaxItems

\* EnqueueBuffer::mutex_ is kept over steps by enqueue_callback, for a buffer it has
\* emptied, or by Clear on another thread; neither leaves the buffer registered.
Locking ==
  /\ locked <=> loop = "unregister" \/ clearing \in {"unregister", "wait"}
  /\ clearing \in {"unregister", "wait"} =>
       loop # "unregister" /\ enqueue_registered = FALSE /\ teardown = "none"
  /\ clearing = "wait" => enqueue_reactable = FALSE
  /\ loop = "unregister" => enqueue_registered = FALSE /\ buffer = <<>>

\* enqueue_callback has an item in hand until it is pushed.
HandIsFull ==
  /\ loop \in {"unregister", "push"} => Len(hand) = 1
  /\ loop \notin {"unregister", "push"} => hand = <<>>

\* The place that made the enqueue end ready is not taken by anyone else.
PlaceIsKept == loop # "idle" => enqueue > 0

\* When the buffer is destroyed and cleared on its own thread, a collected event belongs
\* to a registered reactable, whose buffer has items; a destroyed buffer is not called.
OwnThread ==
  ~RemoteDestroy =>
    /\ loop = "collected" => enqueue_reactable
    /\ clearing = "own" =>
         /\ enqueue_reactable /\ ~locked => buffer # <<>>
         /\ loop \in {"collected", "take"} => buffer # <<>>
    /\ teardown # "unregister"
    /\ teardown = "own_unregister" => loop \in {"idle", "collected"}
    /\ teardown \in {"wait", "buffer", "queue"} => loop = "idle" /\ ~enqueue_reactable

\* The inductive invariant.
IInv ==
  /\ Types
  /\ SemaphoresAgree
  /\ RegisteredWhileBuffered
  /\ Locking
  /\ HandIsFull
  /\ PlaceIsKept
  /\ OwnThread
-----------------------------------------------------------------------------
(* The three places of an item as one sequence.                            *)

\* Enqueue: what is appended to the buffer is appended to the whole.
LEMMA PipeAppend ==
  ASSUME NEW S, NEW q \in Seq(S), NEW h \in Seq(S), NEW b \in Seq(S), NEW e \in S
  PROVE  q \o h \o Append(b, e) = Append(q \o h \o b, e)
<1>1. q \o h \in Seq(S) /\ q \o h \o b \in Seq(S) /\ <<e>> \in Seq(S)
  BY ConcatProperties
<1>2. (q \o h) \o (b \o <<e>>) = ((q \o h) \o b) \o <<e>>
  BY <1>1, ConcatAssociative
<1> QED BY <1>1, <1>2, AppendIsConcat, SMTT(30)

\* enqueue_callback: the front of the buffer goes to the hand.
LEMMA PipeTake ==
  ASSUME NEW S, NEW q \in Seq(S), NEW b \in Seq(S), b # <<>>
  PROVE  q \o <<Head(b)>> \o Tail(b) = q \o <<>> \o b
<1>1. Head(b) \in S /\ Tail(b) \in Seq(S)
  BY HeadTailProperties
<1>2. <<Head(b)>> \in Seq(S)
  BY <1>1
<1>3. <<Head(b)>> \o Tail(b) = b
  BY <1>1
<1>4. (q \o <<Head(b)>>) \o Tail(b) = q \o (<<Head(b)>> \o Tail(b))
  BY <1>1, <1>2, ConcatAssociative
<1> QED BY <1>3, <1>4, ConcatEmptySeq

\* TryDequeue: what comes behind the first item stays behind it.
LEMMA PipeReceive ==
  ASSUME NEW S, NEW q \in Seq(S), NEW r \in Seq(S), q # <<>>
  PROVE  /\ q \o r # <<>>
         /\ Head(q \o r) = Head(q)
         /\ Tail(q \o r) = Tail(q) \o r
<1>1. Head(q) \in S /\ Tail(q) \in Seq(S)
  BY HeadTailProperties
<1>2. q = <<Head(q)>> \o Tail(q) /\ <<Head(q)>> \in Seq(S)
  BY <1>1
<1>3. q \o r = <<Head(q)>> \o (Tail(q) \o r)
  BY <1>1, <1>2, ConcatAssociative
<1>4. Tail(q) \o r \in Seq(S)
  BY <1>1, ConcatProperties
<1>5. ASSUME NEW x \in S, NEW t \in Seq(S)
      PROVE  <<x>> \o t # <<>> /\ Head(<<x>> \o t) = x /\ Tail(<<x>> \o t) = t
  OBVIOUS
<1> QED BY <1>1, <1>3, <1>4, <1>5

\* Clear: without the buffer the whole is a prefix of what it was.
LEMMA PipeFlush ==
  ASSUME NEW S, NEW q \in Seq(S), NEW h \in Seq(S), NEW b \in Seq(S)
  PROVE  /\ Len(q \o h) \in 0..Len(q \o h \o b)
         /\ q \o h \o <<>> = SubSeq(q \o h \o b, 1, Len(q \o h))
<1> DEFINE r == q \o h
<1>1. r \in Seq(S)
  BY ConcatProperties
<1> HIDE DEF r
<1>2. Len(r) \in 0..Len(r \o b)
  BY <1>1
<1>3. r \o <<>> = SubSeq(r \o b, 1, Len(r))
  BY <1>1
<1> QED BY <1>2, <1>3 DEF r
-----------------------------------------------------------------------------
(* The inductive invariant.                                                *)

\* It holds when buffer and queue have been constructed.
LEMMA InitIInv == Init => IInv
<1> SUFFICES ASSUME Init PROVE IInv
  OBVIOUS
<1> USE QueueAssumption DEF Init
<1>1. <<>> \in Seq(1..MaxItems)
  OBVIOUS
<1>2. Types
  BY <1>1 DEF Types
<1>3. SemaphoresAgree
  BY DEF SemaphoresAgree
<1> QED
  BY <1>2, <1>3, Zenon DEF IInv, RegisteredWhileBuffered, Locking, HandIsFull, PlaceIsKept, OwnThread

\* Every step of a producer, of the two reactor threads, of Clear and of the destructors
\* preserves it.
LEMMA NextIInv == IInv /\ [Next]_vars => IInv'
<1> SUFFICES ASSUME IInv, [Next]_vars PROVE IInv'
  OBVIOUS
<1> USE QueueAssumption DEF IInv
<1>1. CASE UNCHANGED vars
  BY <1>1 DEF vars, bufVars, queueVars, Types, SemaphoresAgree, RegisteredWhileBuffered, Locking,
              HandIsFull, PlaceIsKept, OwnThread
<1>2. CASE Enqueue
  <2>1. sent + 1 \in 1..MaxItems
    BY <1>2 DEF Enqueue, Types
  <2>2. buffer \in Seq(1..MaxItems) /\ buffer' = Append(buffer, sent + 1)
    BY <1>2 DEF Enqueue, Types
  <2>3. buffer' \in Seq(1..MaxItems) /\ buffer' # <<>>
    BY <2>1, <2>2, AppendProperties
  <2> QED
    BY <1>2, <2>1, <2>3, SMTT(30) DEF Enqueue, RegisterEnqueue, Types, SemaphoresAgree, RegisteredWhileBuffered,
                            Locking, HandIsFull, PlaceIsKept, OwnThread
<1>3. CASE NotifyOnEmpty \/ RegisterDequeue \/ UnregisterDequeue
  <2>1. Types'
    BY <1>3, SMTT(30) DEF NotifyOnEmpty, RegisterDequeue, UnregisterDequeue, bufVars, queueVars, Types
  <2>2. SemaphoresAgree'
    BY <1>3 DEF NotifyOnEmpty, RegisterDequeue, UnregisterDequeue, bufVars, queueVars, SemaphoresAgree
  <2>3. RegisteredWhileBuffered' /\ Locking'
    BY <1>3 DEF NotifyOnEmpty, RegisterDequeue, UnregisterDequeue, bufVars, queueVars, Types, RegisteredWhileBuffered, Locking
  <2>4. HandIsFull' /\ PlaceIsKept' /\ OwnThread'
    BY <1>3, SMTT(30) DEF NotifyOnEmpty, RegisterDequeue, UnregisterDequeue, bufVars, queueVars, Types, RegisteredWhileBuffered, Locking, HandIsFull, PlaceIsKept, OwnThread
  <2> QED BY <2>1, <2>2, <2>3, <2>4
<1>4. CASE EnqueuePoll
  BY <1>4, Zenon DEF EnqueuePoll, OwnThreadFree, bufVars, queueVars, Types, SemaphoresAgree,
              RegisteredWhileBuffered, Locking, HandIsFull, PlaceIsKept, OwnThread
<1>5. CASE EnqueueDispatch
  BY <1>5 DEF EnqueueDispatch, OwnThreadFree, bufVars, queueVars, Types, SemaphoresAgree,
              RegisteredWhileBuffered, Locking, HandIsFull, PlaceIsKept, OwnThread
<1>6. CASE Take
  <2>1. /\ buffer' \in Seq(1..MaxItems) /\ hand' \in Seq(1..MaxItems) /\ Len(hand') = 1
    BY <1>6, HeadTailProperties DEF Take, front, Types
  <2> QED
    BY <1>6, <2>1, Zenon DEF Take, Drained, queueVars, Types, SemaphoresAgree, RegisteredWhileBuffered,
                      Locking, HandIsFull, PlaceIsKept, OwnThread
<1>7. CASE TakeUnregister
  BY <1>7, Zenon DEF TakeUnregister, UnregisterEnqueue, run_callback_on_empty, Types, SemaphoresAgree,
              RegisteredWhileBuffered, Locking, HandIsFull, PlaceIsKept, OwnThread
<1>8. CASE Push
  <2>1. queue \in Seq(1..MaxItems) /\ hand \in Seq(1..MaxItems) /\ Len(hand) = 1 /\ queue' = queue \o hand
    BY <1>8 DEF Push, HandIsFull, Types
  <2>2. queue' \in Seq(1..MaxItems) /\ Len(queue') = Len(queue) + 1 /\ Len(queue) \in Nat
    BY <2>1, ConcatProperties, LenProperties, ZenonT(40)
  <2>3. hand' \in Seq(1..MaxItems)
    BY <1>8 DEF Push
  <2>4. Types'
    BY <1>8, <2>2, <2>3 DEF Push, Increase, Decrease, bufVars, Types, SemaphoresAgree
  <2>5. SemaphoresAgree'
    <3>1. enqueue' = enqueue - 1 /\ dequeue' = dequeue + 1
      BY <1>8 DEF Push, Increase, Decrease
    <3> QED BY <2>2, <3>1 DEF SemaphoresAgree, Types
  <2>6. RegisteredWhileBuffered' /\ Locking'
    BY <1>8, <2>2, <2>3 DEF Push, Increase, Decrease, bufVars, Types, RegisteredWhileBuffered, Locking
  <2>7. HandIsFull' /\ PlaceIsKept' /\ OwnThread'
    BY <1>8, <2>2, <2>3 DEF Push, Increase, Decrease, bufVars, Types, RegisteredWhileBuffered, Locking, HandIsFull, PlaceIsKept, OwnThread
  <2> QED BY <2>4, <2>5, <2>6, <2>7
<1>9. CASE Clear
  <2>1. buffer' \in Seq(1..MaxItems)
    BY <1>9 DEF Clear
  <2>2. Types'
    BY <1>9, <2>1 DEF Clear, UnregisterEnqueue, Types
  <2>3. SemaphoresAgree'
    BY <1>9, <2>1 DEF Clear, UnregisterEnqueue, SemaphoresAgree
  <2>4. RegisteredWhileBuffered' /\ Locking'
    BY <1>9, <2>1, Zenon DEF Clear, UnregisterEnqueue, Types, RegisteredWhileBuffered, Locking
  <2>5. HandIsFull' /\ PlaceIsKept' /\ OwnThread'
    BY <1>9, <2>1 DEF Clear, UnregisterEnqueue, Types, RegisteredWhileBuffered, Locking, HandIsFull, PlaceIsKept, OwnThread
  <2> QED BY <2>2, <2>3, <2>4, <2>5
<1>10. CASE RemoteClearFlag
  <2>1. Types'
    BY <1>10 DEF RemoteClearFlag, queueVars, Types
  <2>2. SemaphoresAgree'
    BY <1>10 DEF RemoteClearFlag, queueVars, SemaphoresAgree
  <2>3. RegisteredWhileBuffered' /\ Locking'
    BY <1>10 DEF RemoteClearFlag, queueVars, Types, RegisteredWhileBuffered, Locking
  <2>4. HandIsFull' /\ PlaceIsKept' /\ OwnThread'
    BY <1>10 DEF RemoteClearFlag, queueVars, Types, RegisteredWhileBuffered, Locking, HandIsFull, PlaceIsKept, OwnThread
  <2> QED BY <2>1, <2>2, <2>3, <2>4
<1>11. CASE RemoteClearUnregister
  BY <1>11 DEF RemoteClearUnregister, UnregisterEnqueue, Types, SemaphoresAgree,
               RegisteredWhileBuffered, Locking, HandIsFull, PlaceIsKept, OwnThread
<1>12. CASE RemoteClearFinish
  BY <1>12, Zenon DEF RemoteClearFinish, Executing, queueVars, Types, SemaphoresAgree,
               RegisteredWhileBuffered, Locking, HandIsFull, PlaceIsKept, OwnThread
<1>13. CASE TryDequeue
  <2>1. /\ queue' \in Seq(1..MaxItems) /\ Len(queue') = Len(queue) - 1 /\ Len(queue) \in Nat
        /\ received' \in 1..MaxItems
    BY <1>13, HeadTailProperties DEF TryDequeue, Types
  <2>2. Types'
    BY <1>13, <2>1 DEF TryDequeue, Increase, Decrease, bufVars, Types, SemaphoresAgree
  <2>3. SemaphoresAgree'
    <3>1. enqueue' = enqueue + 1 /\ dequeue' = dequeue - 1
      BY <1>13 DEF TryDequeue, Increase, Decrease
    <3>2. enqueue \in Nat /\ dequeue \in Nat
      BY DEF Types
    <3>3. Len(queue') = Len(queue) - 1 /\ Len(queue) \in Nat
      BY <2>1
    <3> QED BY <3>1, <3>2, <3>3 DEF SemaphoresAgree
  <2>4. RegisteredWhileBuffered' /\ Locking'
    BY <1>13, <2>1 DEF TryDequeue, Increase, Decrease, bufVars, Types, RegisteredWhileBuffered, Locking
  <2>5. HandIsFull' /\ PlaceIsKept' /\ OwnThread'
    BY <1>13, <2>1 DEF TryDequeue, Increase, Decrease, bufVars, Types, RegisteredWhileBuffered, Locking, HandIsFull, PlaceIsKept, OwnThread
  <2> QED BY <2>2, <2>3, <2>4, <2>5
<1>14. CASE DestroyFlag
  BY <1>14 DEF DestroyFlag, Executing, queueVars, Types, SemaphoresAgree,
               RegisteredWhileBuffered, Locking, HandIsFull, PlaceIsKept, OwnThread
<1>15. CASE DestroyUnregister
  BY <1>15 DEF DestroyUnregister, UnregisterEnqueue, bufVars, Types, SemaphoresAgree,
               RegisteredWhileBuffered, Locking, HandIsFull, PlaceIsKept, OwnThread
<1>16. CASE DestroyWait \/ DestroyQueue
  <2>1. Types'
    BY <1>16 DEF DestroyWait, DestroyQueue, Executing, bufVars, queueVars, Types
  <2>2. SemaphoresAgree'
    BY <1>16 DEF DestroyWait, DestroyQueue, Executing, bufVars, queueVars, SemaphoresAgree
  <2>3. RegisteredWhileBuffered' /\ Locking'
    BY <1>16 DEF DestroyWait, DestroyQueue, Executing, bufVars, queueVars, Types, RegisteredWhileBuffered, Locking
  <2>4. HandIsFull' /\ PlaceIsKept' /\ OwnThread'
    BY <1>16 DEF DestroyWait, DestroyQueue, Executing, bufVars, queueVars, Types, RegisteredWhileBuffered, Locking, HandIsFull, PlaceIsKept, OwnThread
  <2> QED BY <2>1, <2>2, <2>3, <2>4
<1> QED
  BY <1>1, <1>2, <1>3, <1>4, <1>5, <1>6, <1>7, <1>8, <1>9, <1>10, <1>11, <1>12, <1>13, <1>14, <1>15,
     <1>16 DEF Next, EnqueueThread
-----------------------------------------------------------------------------
(* The theorems.                                                           *)

\* The invariant holds in every reachable state.
LEMMA Invariance == Spec => []IInv
BY InitIInv, NextIInv, PTL DEF Spec

\* Free places and items always add up to the capacity of Queue, so that the two eventfd
\* semaphores never disagree with queue_ and the queue never exceeds its capacity.
THEOREM SemaphoresExact == Spec => []SemaphoresAgree
<1>1. IInv => SemaphoresAgree
  BY DEF IInv
<1> QED BY <1>1, Invariance, PTL

\* Outside a critical section of EnqueueBuffer a buffer with items is registered with the
\* queue, and RegisterEnqueue is never called for a registered end, as it asserts.
THEOREM NothingStranded == Spec => []RegisteredWhileBuffered
<1>1. IInv => RegisteredWhileBuffered
  BY DEF IInv
<1> QED BY <1>1, Invariance, PTL

\* The assertions of EnqueueCallbackInternal and of ReactiveSemaphore::Decrease hold, for
\* a buffer that is destroyed on the thread of the enqueue end.
THEOREM AssertionsHold ==
  ASSUME ~RemoteDestroy
  PROVE  Spec => []CallbackFindsItemAndPlace
<1>1. IInv => CallbackFindsItemAndPlace
  BY DEF IInv, OwnThread, PlaceIsKept, CallbackFindsItemAndPlace
<1> QED BY <1>1, Invariance, PTL

\* Neither the buffer nor the queue is used by the enqueue end after its destructor, for a
\* buffer that is destroyed on the thread of the enqueue end.
THEOREM DestructionIsSafe ==
  ASSUME ~RemoteDestroy
  PROVE  Spec => []DestroyedIsUnused
<1>1. IInv => DestroyedIsUnused
  BY DEF IInv, OwnThread, DestroyedIsUnused
<1> QED BY <1>1, Invariance, PTL

\* Every step of the queue is a step of the first-in first-out channel, or none.
LEMMA StepIsFifo ==
  ASSUME IInv, [Next]_vars
  PROVE  [Fifo!Next]_<<queue \o hand \o buffer, sent, received>>
<1> DEFINE pipe == queue \o hand \o buffer
           Items == 1..MaxItems
<1>0. buffer \in Seq(Items) /\ hand \in Seq(Items) /\ queue \in Seq(Items)
  BY DEF IInv, Types
<1>1. CASE Enqueue
  <2>1. sent + 1 \in Items /\ queue' = queue /\ hand' = hand /\ buffer' = Append(buffer, sent + 1)
    BY <1>1, QueueAssumption DEF Enqueue, IInv, Types
  <2> HIDE DEF Items
  <2>2. pipe' = Append(pipe, sent + 1)
    BY <1>0, <2>1, PipeAppend
  <2>3. sent' = sent + 1 /\ received' = received
    BY <1>1 DEF Enqueue
  <2> QED BY <2>2, <2>3 DEF Fifo!Next, Fifo!Send
<1> HIDE DEF Items
<1>2. CASE Take
  <2>1. hand = <<>> /\ buffer # <<>> /\ queue' = queue /\ hand' = <<Head(buffer)>> /\ buffer' = Tail(buffer)
    BY <1>2 DEF Take, front, queueVars, IInv, HandIsFull
  <2>2. pipe' = pipe
    BY <1>0, <2>1, PipeTake, SMTT(30)
  <2> QED BY <1>2, <2>2, SMTT(30) DEF Take
<1>3. CASE Push
  <2>1. queue' = queue \o hand /\ hand' = <<>> /\ buffer' = buffer
    BY <1>3 DEF Push, bufVars
  <2>2. queue \o hand \in Seq(Items)
    BY <1>0, ConcatProperties
  <2>3. (queue \o hand) \o <<>> = queue \o hand
    BY <2>2, ConcatEmptySeq
  <2> QED BY <1>3, <2>1, <2>3 DEF Push
<1>4. CASE TryDequeue
  <2>1. queue # <<>> /\ queue' = Tail(queue) /\ hand' = hand /\ buffer' = buffer
    BY <1>4 DEF TryDequeue, bufVars
  <2>2. pipe # <<>> /\ Head(pipe) = Head(queue) /\ Tail(pipe) = Tail(queue) \o hand \o buffer
    <3> DEFINE r == hand \o buffer
    <3>1. r \in Seq(Items)
      BY <1>0, ConcatProperties
    <3>2. Tail(queue) \in Seq(Items)
      BY <1>0, <2>1, HeadTailProperties
    <3>3. \A q \in Seq(Items) : q \o hand \o buffer = q \o r
      BY <1>0, ConcatAssociative, SMTT(30)
    <3> HIDE DEF r
    <3>4. queue \o r # <<>> /\ Head(queue \o r) = Head(queue) /\ Tail(queue \o r) = Tail(queue) \o r
      BY <1>0, <2>1, <3>1, PipeReceive
    <3> QED BY <1>0, <3>2, <3>3, <3>4
  <2>3. received' = Head(queue) /\ sent' = sent
    BY <1>4 DEF TryDequeue
  <2> QED BY <2>1, <2>2, <2>3, Zenon DEF Fifo!Next, Fifo!Receive
<1>5. CASE Clear \/ RemoteClearFinish
  <2>1. queue' = queue /\ hand' = hand /\ buffer' = <<>> /\ sent' = sent /\ received' = received
    BY <1>5 DEF Clear, RemoteClearFinish, queueVars
  <2>2. /\ Len(queue \o hand) \in 0..Len(pipe)
        /\ queue \o hand \o <<>> = SubSeq(pipe, 1, Len(queue \o hand))
    BY <1>0, PipeFlush
  <2> QED BY <2>1, <2>2, SMTT(30) DEF Fifo!Next, Fifo!Flush
<1>6. CASE \/ NotifyOnEmpty \/ EnqueuePoll \/ EnqueueDispatch \/ TakeUnregister
           \/ RemoteClearFlag \/ RemoteClearUnregister \/ RegisterDequeue \/ UnregisterDequeue
           \/ DestroyFlag \/ DestroyUnregister \/ DestroyWait \/ DestroyQueue \/ UNCHANGED vars
  <2>1. UNCHANGED <<queue, hand, buffer, sent, received>>
    BY <1>6 DEF NotifyOnEmpty, EnqueuePoll, EnqueueDispatch, TakeUnregister, RemoteClearFlag,
         RemoteClearUnregister, RegisterDequeue, UnregisterDequeue, DestroyFlag, DestroyUnregister,
         DestroyWait, DestroyQueue, vars, bufVars, queueVars
  <2> QED BY <2>1
<1> QED BY <1>1, <1>2, <1>3, <1>4, <1>5, <1>6, Zenon DEF Next, EnqueueThread

\* Queue and EnqueueBuffer together implement the first-in first-out channel of FifoChannel,
\* whichever threads produce, clear, consume and destroy.
THEOREM ImplementsFifo == Spec => InOrder
<1>1. Init => Fifo!Init
  BY DEF Init, Fifo!Init
<1>2. IInv /\ [Next]_vars => [Fifo!Next]_<<queue \o hand \o buffer, sent, received>>
  BY StepIsFifo, SMTT(30)
<1> QED BY <1>1, <1>2, Invariance, PTL DEF Spec, InOrder, Fifo!Spec
=============================================================================
