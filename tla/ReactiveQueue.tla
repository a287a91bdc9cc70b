--------------------------- MODULE ReactiveQueue ---------------------------
(***************************************************************************)
(* os::Queue (gd/os/queue.h, gd/os/linux_generic/queue.tpp) between two    *)
(* threads, with the os::EnqueueBuffer that most users put before it.      *)
(*                                                                         *)
(* Each end of the queue is an eventfd used as a semaphore: enqueue_       *)
(* counts the free places and dequeue_ the items.  The thread of the       *)
(* enqueue end is called back while there is a free place; its callback is *)
(* EnqueueBuffer::enqueue_callback, which hands over one item and          *)
(* unregisters the queue when its buffer is empty.  Producers on any       *)
(* thread fill the buffer and register it when it was not registered.      *)
(*                                                                         *)
(* Queue::mutex_ protects each section of the queue, one action here.      *)
(* EnqueueBuffer::mutex_ is held across the call of UnregisterEnqueue, so  *)
(* its holder is a variable; the destructor does not take it.              *)
(***************************************************************************)
EXTENDS Naturals, Sequences

CONSTANTS
  Capacity,       \* the capacity of the queue
  MaxItems,       \* bound on the number of items
  MaxClears,      \* bound on the number of calls of EnqueueBuffer::Clear
  RemoteDestroy   \* the buffer is destroyed by another thread than the enqueue end's

ASSUME QueueAssumption ==
  /\ Capacity \in Nat \ {0}
  /\ MaxItems \in Nat /\ MaxClears \in Nat
  /\ RemoteDestroy \in BOOLEAN

VARIABLES
  buffer,              \* EnqueueBuffer::buffer_
  enqueue_registered,  \* EnqueueBuffer::enqueue_registered_
  locked,              \* a thread keeps EnqueueBuffer::mutex_ over steps
  clearing,            \* "own": Clear is called on the thread of the enqueue end;
                       \* else it is called by another, and how far that has come
  queue,               \* Queue::queue_
  enqueue, dequeue,    \* the counts of the two semaphores
  enqueue_reactable,   \* enqueue_.reactable_ # nullptr
  dequeue_reactable,   \* dequeue_.reactable_ # nullptr
  loop,                \* where the enqueue thread is with the enqueue reactable
  hand,                \* the item that enqueue_callback returned, as a sequence
  teardown,            \* how far the destruction of buffer and queue has come
  callback_on_empty,   \* EnqueueBuffer::callback_on_empty_ is set
  sent, received, clears

bufVars == <<buffer, enqueue_registered, locked, clearing, callback_on_empty>>
queueVars == <<queue, enqueue, dequeue, enqueue_reactable, dequeue_reactable>>
vars == <<bufVars, queueVars, loop, hand, teardown, sent, received, clears>>

Init ==
  /\ buffer = <<>> /\ enqueue_registered = FALSE /\ locked = FALSE /\ clearing \in {"own", "none"}
  /\ callback_on_empty = FALSE
  /\ queue = <<>> /\ enqueue = Capacity /\ dequeue = 0
  /\ enqueue_reactable = FALSE /\ dequeue_reactable = FALSE
  /\ loop = "idle" /\ hand = <<>> /\ teardown = "none"
  /\ sent = 0 /\ received = 0 /\ clears = 0
-----------------------------------------------------------------------------
(* EnqueueBuffer, on the thread of any producer.                           *)

\* Queue::RegisterEnqueue and Queue::UnregisterEnqueue, on the reactable.
RegisterEnqueue == enqueue_reactable' = TRUE
UnregisterEnqueue == enqueue_reactable' = FALSE

\* ReactiveSemaphore.
Increase_mut(semaphore) == semaphore
Increase(semaphore) == semaphore + 1
Decrease(semaphore) == semaphore - 1

\* Enqueue; a queue that is registered already stays so.
Enqueue ==
  /\ sent < MaxItems
  /\ teardown = "none"
  /\ ~locked
  /\ sent' = sent + 1
  /\ buffer' = Append(buffer, sent')
  /\ enqueue_registered' = TRUE
  /\ RegisterEnqueue
  /\ UNCHANGED <<locked, clearing, callback_on_empty, queue, enqueue, dequeue, dequeue_reactable, loop,
                 hand, teardown, received, clears>>

\* NotifyOnEmpty, which asserts that no callback is set.
NotifyOnEmpty ==
  /\ teardown = "none"
  /\ ~locked
  /\ ~callback_on_empty
  /\ callback_on_empty' = TRUE
  /\ UNCHANGED <<buffer, enqueue_registered, locked, clearing, queueVars, loop, hand, teardown, sent,
                 received, clears>>
-----------------------------------------------------------------------------
(* The thread of the enqueue end.                                          *)

\* It does not destroy the buffer at the moment.
OwnThreadFree == teardown # "own_unregister"

\* Its reactor collects the readiness of enqueue_ and starts the callback.
EnqueuePoll ==
  /\ loop = "idle"
  /\ OwnThreadFree
  /\ enqueue_reactable
  /\ enqueue > 0
  /\ loop' = "collected"
  /\ UNCHANGED <<bufVars, queueVars, hand, teardown, sent, received, clears>>

EnqueueDispatch ==
  /\ loop = "collected"
  /\ OwnThreadFree
  /\ loop' = "take"
  /\ UNCHANGED <<bufVars, queueVars, hand, teardown, sent, received, clears>>

\* buffer_.front().
front_mut == buffer[Len(buffer)]
front == Head(buffer)

\* The test after pop() that ends the registration.
Drained_mut(b) == Len(b) <= 1
Drained_never(b) == FALSE
Drained(b) == b = <<>>

\* enqueue_callback: the front of the buffer, and the exchange of the flag.
Take ==
  /\ loop = "take"
  /\ ~locked
  /\ buffer # <<>>
  /\ hand' = <<front>>
  /\ buffer' = Tail(buffer)
  /\ IF Drained(Tail(buffer)) /\ enqueue_registered
       THEN enqueue_registered' = FALSE /\ locked' = TRUE /\ loop' = "unregister"
       ELSE UNCHANGED <<enqueue_registered, locked>> /\ loop' = "push"
  /\ UNCHANGED <<clearing, callback_on_empty, queueVars, teardown, sent, received, clears>>

\* std::move(callback_on_empty_).Run().
run_callback_on_empty_mut == UNCHANGED callback_on_empty
run_callback_on_empty == callback_on_empty' = FALSE

\* enqueue_callback goes on: UnregisterEnqueue from the enqueue end's own thread,
\* and the callback on empty is run.
TakeUnregister ==
  /\ loop = "unregister"
  /\ UnregisterEnqueue
  /\ run_callback_on_empty
  /\ locked' = FALSE
  /\ loop' = "push"
  /\ UNCHANGED <<buffer, enqueue_registered, clearing, queue, enqueue, dequeue, dequeue_reactable,
                 hand, teardown, sent, received, clears>>

\* EnqueueCallbackInternal after the callback returned.
Push ==
  /\ loop = "push"
  /\ enqueue > 0
  /\ enqueue' = Decrease(enqueue)
  /\ queue' = queue \o hand
  /\ hand' = <<>>
  /\ dequeue' = Increase(dequeue)
  /\ loop' = "idle"
  /\ UNCHANGED <<bufVars, enqueue_reactable, dequeue_reactable, teardown, sent, received,
                 clears>>

\* EnqueueBuffer::Clear, called on the thread of the enqueue end between two
\* callbacks, with the UnregisterEnqueue that it calls; an event that was collected
\* for the reactable is skipped by the reactor.
Clear ==
  /\ clearing = "own"
  /\ clears < MaxClears
  /\ teardown = "none"
  /\ loop \in {"idle", "collected"}
  /\ enqueue_registered
  /\ clears' = clears + 1
  /\ enqueue_registered' = FALSE
  /\ UnregisterEnqueue
  /\ buffer' = <<>>
  /\ loop' = "idle"
  /\ UNCHANGED <<locked, clearing, callback_on_empty, queue, enqueue, dequeue, dequeue_reactable,
                 hand, teardown, sent, received>>
-----------------------------------------------------------------------------
(* EnqueueBuffer::Clear by another thread, as ~HciLayer::impl does when    *)
(* the management thread stops the stack: it keeps EnqueueBuffer::mutex_   *)
(* until UnregisterEnqueue has returned.                                   *)

\* Reactable::is_executing_.
Executing_mut == loop \in {"unregister", "push"}
Executing == loop \in {"take", "unregister", "push"}

RemoteClearFlag ==
  /\ clearing = "none"
  /\ clears < MaxClears
  /\ teardown = "none"
  /\ ~locked
  /\ enqueue_registered
  /\ clears' = clears + 1
  /\ enqueue_registered' = FALSE
  /\ locked' = TRUE
  /\ clearing' = "unregister"
  /\ UNCHANGED <<buffer, callback_on_empty, queueVars, loop, hand, teardown, sent, received>>

RemoteClearUnregister ==
  /\ clearing = "unregister"
  /\ UnregisterEnqueue
  /\ loop' = IF loop = "collected" THEN "idle" ELSE loop
  /\ clearing' = "wait"
  /\ UNCHANGED <<buffer, enqueue_registered, locked, callback_on_empty, queue, enqueue, dequeue,
                 dequeue_reactable, hand, teardown, sent, received, clears>>

\* WaitForUnregisteredReactable returns when the callback is over, or after 1000 ms
\* because the callback waits for the mutex that Clear keeps; the buffer is emptied.
RemoteClearFinish ==
  /\ clearing = "wait"
  /\ ~Executing \/ loop = "take"
  /\ buffer' = <<>>
  /\ locked' = FALSE
  /\ clearing' = "none"
  /\ UNCHANGED <<enqueue_registered, callback_on_empty, queueVars, loop, hand, teardown, sent, received,
                 clears>>
-----------------------------------------------------------------------------
(* The thread of the dequeue end.                                          *)

RegisterDequeue ==
  /\ teardown = "none"
  /\ ~dequeue_reactable
  /\ dequeue_reactable' = TRUE
  /\ UNCHANGED <<bufVars, queue, enqueue, dequeue, enqueue_reactable, loop, hand, teardown,
                 sent, received, clears>>

UnregisterDequeue ==
  /\ dequeue_reactable
  /\ dequeue_reactable' = FALSE
  /\ UNCHANGED <<bufVars, queue, enqueue, dequeue, enqueue_reactable, loop, hand, teardown,
                 sent, received, clears>>

\* The dequeue callback with its TryDequeue.
TryDequeue ==
  /\ dequeue_reactable
  /\ dequeue > 0
  /\ queue # <<>>
  /\ dequeue' = Decrease(dequeue)
  /\ received' = Head(queue)
  /\ queue' = Tail(queue)
  /\ enqueue' = Increase(enqueue)
  /\ UNCHANGED <<bufVars, enqueue_reactable, dequeue_reactable, loop, hand, teardown, sent,
                 clears>>
-----------------------------------------------------------------------------
(* Destruction of the buffer and then of the queue.                        *)

\* ~EnqueueBuffer: the exchange of the flag, without EnqueueBuffer::mutex_.
DestroyFlag ==
  /\ teardown = "none"
  /\ clearing \in {"own", "none"}
  /\ RemoteDestroy \/ ~Executing
  /\ enqueue_registered' = FALSE
  /\ teardown' = IF enqueue_registered
                   THEN IF RemoteDestroy THEN "unregister" ELSE "own_unregister"
                   ELSE "buffer"
  /\ UNCHANGED <<buffer, locked, clearing, callback_on_empty, queueVars, loop, hand, sent, received, clears>>

\* UnregisterEnqueue from the destructor: a collected event is skipped.
DestroyUnregister ==
  /\ teardown \in {"unregister", "own_unregister"}
  /\ UnregisterEnqueue
  /\ loop' = IF loop = "collected" THEN "idle" ELSE loop
  /\ teardown' = "wait"
  /\ UNCHANGED <<bufVars, queue, enqueue, dequeue, dequeue_reactable, hand, sent, received,
                 clears>>

\* ... and, from another thread, WaitForUnregisteredReactable.
DestroyWait ==
  /\ teardown = "wait"
  /\ ~Executing
  /\ teardown' = "buffer"
  /\ UNCHANGED <<bufVars, queueVars, loop, hand, sent, received, clears>>

\* ~Queue, once the dequeue end is unregistered, as its ASSERT demands.
DestroyQueue ==
  /\ teardown = "buffer"
  /\ ~dequeue_reactable
  /\ teardown' = "queue"
  /\ UNCHANGED <<bufVars, queueVars, loop, hand, sent, received, clears>>
-----------------------------------------------------------------------------
EnqueueThread == EnqueuePoll \/ EnqueueDispatch \/ Take \/ TakeUnregister \/ Push

Next ==
  \/ Enqueue \/ NotifyOnEmpty
  \/ EnqueueThread \/ Clear
  \/ RemoteClearFlag \/ RemoteClearUnregister \/ RemoteClearFinish
  \/ RegisterDequeue \/ UnregisterDequeue \/ TryDequeue
  \/ DestroyFlag \/ DestroyUnregister \/ DestroyWait \/ DestroyQueue

Spec == Init /\ [][Next]_vars

\* The reactor threads of both ends call ready reactables back.
Fairness == WF_vars(EnqueueThread) /\ WF_vars(TryDequeue)

FairSpec == Spec /\ Fairness
-----------------------------------------------------------------------------
\* The semaphores agree with the queue: free places and items add up to the capacity,
\* so the queue never exceeds it.
SemaphoresAgree ==
  /\ dequeue = Len(queue)
  /\ enqueue + Len(queue) = Capacity

\* The ASSERTs on the way of an item hold: the callback finds an item in the buffer
\* (front() of an empty std::queue is undefined, and Queue asserts data != nullptr)
\* when Clear runs on the thread of the callback, and Decrease finds the place that
\* made enqueue_ ready still free.
CallbackFindsItemAndPlace ==
  /\ loop = "take" /\ clearing = "own" => buffer # <<>>
  /\ loop \in {"collected", "take", "unregister", "push"} => enqueue > 0

\* RegisterEnqueue never finds a reactable registered (it asserts that), and a buffer
\* that holds items is registered, so that no item is stranded.
RegisteredWhileBuffered ==
  ~locked /\ teardown = "none" =>
    /\ enqueue_reactable = enqueue_registered
    /\ buffer # <<>> => enqueue_registered

\* Buffer, hand and queue together are a first-in first-out channel.
Fifo == INSTANCE FifoChannel WITH pipe <- queue \o hand \o buffer

InOrder == Fifo!Spec

\* An item that was accepted comes out, if the dequeue end stays registered and
\* nobody clears or destroys the buffer.
ItemsArrive ==
  <>[](dequeue_reactable /\ teardown = "none") /\ [](clears = 0) =>
    \A i \in 1..MaxItems : (sent >= i) ~> (received >= i)

\* A callback given to NotifyOnEmpty while the buffer holds items is run, under the
\* same conditions.
OnEmptyRuns ==
  <>[](dequeue_reactable /\ teardown = "none") /\ [](clears = 0) =>
    ((callback_on_empty /\ buffer # <<>>) ~> ~callback_on_empty)

\* When the buffer is destroyed its callback is over, and when the queue is destroyed
\* its enqueue end is unregistered: deleting both while the callback runs is what the
\* test delete_when_in_callback does.
DestroyedIsUnused ==
  /\ teardown \in {"buffer", "queue"} => loop \notin {"take", "unregister"}
  /\ teardown = "queue" => loop # "push" /\ ~enqueue_reactable
=============================================================================
