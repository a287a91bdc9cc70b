------------------------------ MODULE Handler ------------------------------
(***************************************************************************)
(* os::Handler (gd/os/handler.h, gd/os/linux_generic/handler.cc): a queue  *)
(* of closures that any thread fills and one reactor thread runs.  The     *)
(* queue is guarded by mutex_, the eventfd that wakes the reactor is not:  *)
(* Post writes it after it has released the mutex, and Clear drains it     *)
(* after it has released the mutex.  Every section under mutex_ is one     *)
(* action; what happens between two sections is a step of its own.         *)
(*                                                                         *)
(* The reactor is represented by what Handler uses of it: its thread       *)
(* collects the readiness of the eventfd, may act on it later, skips it if *)
(* the reactable was unregistered meanwhile, and WaitForUnregisteredReact- *)
(* able returns once a callback that was running is over.                  *)
(***************************************************************************)
EXTENDS Naturals, Sequences, FiniteSets

CONSTANTS Posters,    \* threads that call Post
          MaxPosts    \* bound on the number of accepted closures

ASSUME PostersAssumption == IsFiniteSet(Posters)
ASSUME MaxPostsAssumption == MaxPosts \in Nat

VARIABLES
  tasks,      \* tasks_: closures are named by the order of their posting
  cleared,    \* was_cleared(), tasks_ == nullptr
  efd,        \* the count of the semaphore eventfd fd_
  posting,    \* posters that pushed a closure and have not written fd_ yet
  posted,     \* how many closures Post accepted
  clearing,   \* how far the thread that takes the handler down has come
  loop,       \* how far the reactor thread has come with this reactable
  current,    \* the closure that runs, 0 for none
  registered  \* reactable_ is in the interest list of the reactor's epoll

vars == <<tasks, cleared, efd, posting, posted, clearing, loop, current, registered>>

Init ==
  /\ tasks = <<>>
  /\ cleared = FALSE
  /\ efd = 0
  /\ posting = {}
  /\ posted = 0
  /\ clearing = "no"
  /\ loop = "idle"
  /\ current = 0
  /\ registered = TRUE
-----------------------------------------------------------------------------
(* A poster.  On a cleared handler Post returns without any effect.        *)

\* The test of was_cleared() in Post.
Accepts_mut == TRUE
Accepts == ~cleared

PostPush(p) ==
  /\ p \notin posting
  /\ clearing # "destroyed"
  /\ posted < MaxPosts
  /\ Accepts
  /\ posted' = posted + 1
  /\ tasks' = Append(tasks, posted')
  /\ posting' = posting \cup {p}
  /\ UNCHANGED <<cleared, efd, clearing, loop, current, registered>>

PostWrite(p) ==
  /\ p \in posting
  /\ efd' = efd + 1
  /\ posting' = posting \ {p}
  /\ UNCHANGED <<tasks, cleared, posted, clearing, loop, current, registered>>
-----------------------------------------------------------------------------
(* The reactor thread.                                                     *)

\* epoll_wait returns the reactable among its events.
Poll ==
  /\ loop = "idle"
  /\ registered
  /\ efd > 0
  /\ loop' = "collected"
  /\ UNCHANGED <<tasks, cleared, efd, posting, posted, clearing, current, registered>>

\* The reactor reaches the event and marks the reactable as executing.
Dispatch ==
  /\ loop = "collected"
  /\ loop' = "entered"
  /\ UNCHANGED <<tasks, cleared, efd, posting, posted, clearing, current, registered>>

\* A read of the eventfd takes one unit (EFD_SEMAPHORE), or fails and takes none.
AfterRead_mut == 0
AfterRead == IF efd > 0 THEN efd - 1 ELSE 0

\* handle_next_event on a cleared handler: the read, and nothing else.
HandleCleared ==
  /\ loop = "entered"
  /\ cleared
  /\ efd' = AfterRead
  /\ loop' = "idle"
  /\ UNCHANGED <<tasks, cleared, posting, posted, clearing, current, registered>>

\* The outcome of eventfd_read that the ASSERT_LOG of handle_next_event wants.
ReadSucceeds == efd > 0

\* handle_next_event up to the release of mutex_.
HandlePop ==
  /\ loop = "entered"
  /\ ~cleared
  /\ ReadSucceeds
  /\ tasks # <<>>
  /\ efd' = AfterRead
  /\ current' = Head(tasks)
  /\ tasks' = Tail(tasks)
  /\ loop' = "running"
  /\ UNCHANGED <<cleared, posting, posted, clearing, registered>>

\* The closure returns and with it the callback of the reactable.
RunReturn ==
  /\ loop = "running"
  /\ loop' = "idle"
  /\ current' = 0
  /\ UNCHANGED <<tasks, cleared, efd, posting, posted, clearing, registered>>
-----------------------------------------------------------------------------
(* The thread that takes the handler down: Clear, WaitUntilStopped and the *)
(* destructor, in the order in which ModuleRegistry::StopAll calls them.   *)

ClearSwap ==
  /\ clearing = "no"
  /\ clearing' = "drain"
  /\ cleared' = TRUE
  /\ tasks' = <<>>
  /\ UNCHANGED <<efd, posting, posted, loop, current, registered>>

\* A read of an empty eventfd returns at once (EFD_NONBLOCK).
ReadReturns_mut == efd > 0
ReadReturns == TRUE

ClearDrain ==
  /\ clearing = "drain"
  /\ ReadReturns
  /\ efd' = AfterRead
  /\ clearing' = IF efd > 0 THEN "drain" ELSE "unregister"
  /\ UNCHANGED <<tasks, cleared, posting, posted, loop, current, registered>>

\* Reactor::Unregister: the fd leaves epoll, an event collected and not
\* dispatched is invalidated, a callback that runs is left to finish.
ClearUnregister ==
  /\ clearing = "unregister"
  /\ clearing' = "cleared"
  /\ registered' = FALSE
  /\ loop' = IF loop = "collected" THEN "idle" ELSE loop
  /\ UNCHANGED <<tasks, cleared, efd, posting, posted, current>>

\* The reactable of this handler is executing.
Executing_mut == loop = "entered"
Executing == loop \in {"entered", "running"}

WaitUntilStopped ==
  /\ clearing = "cleared"
  /\ ~Executing
  /\ clearing' = "stopped"
  /\ UNCHANGED <<tasks, cleared, efd, posting, posted, loop, current, registered>>

\* ~Handler.  Nobody is inside Post: an object is destroyed after the last
\* call of its methods has returned.
Destroy ==
  /\ clearing = "stopped"
  /\ posting = {}
  /\ clearing' = "destroyed"
  /\ UNCHANGED <<tasks, cleared, efd, posting, posted, loop, current, registered>>
-----------------------------------------------------------------------------
LoopStep == Poll \/ Dispatch \/ HandleCleared \/ HandlePop \/ RunReturn

TearDown == ClearSwap \/ ClearDrain \/ ClearUnregister \/ WaitUntilStopped \/ Destroy

Next ==
  \/ \E p \in Posters : PostPush(p) \/ PostWrite(p)
  \/ LoopStep
  \/ TearDown

Spec == Init /\ [][Next]_vars

\* A thread inside Post and the reactor thread are scheduled; a Clear that has
\* begun is carried on.  Nobody is obliged to post or to begin a Clear.
Fairness ==
  /\ \A p \in Posters : WF_vars(PostWrite(p))
  /\ WF_vars(LoopStep)
  /\ WF_vars(ClearDrain \/ ClearUnregister \/ WaitUntilStopped)

FairSpec == Spec /\ Fairness
-----------------------------------------------------------------------------
TypeOK ==
  /\ tasks \in Seq(1..MaxPosts)
  /\ cleared \in BOOLEAN
  /\ efd \in Nat
  /\ posting \subseteq Posters
  /\ posted \in 0..MaxPosts
  /\ clearing \in {"no", "drain", "unregister", "cleared", "stopped", "destroyed"}
  /\ loop \in {"idle", "collected", "entered", "running"}
  /\ current \in 0..MaxPosts
  /\ registered \in BOOLEAN

\* The two ways in which handle_next_event goes wrong never happen: on a handler
\* that is not cleared, its read of the eventfd succeeds (the ASSERT_LOG) and
\* tasks_->front() is applied to a queue that holds a closure, although Post
\* writes the eventfd after it let go of the mutex.
ReadNeverFails ==
  loop = "entered" /\ ~cleared => ReadSucceeds /\ tasks # <<>>

\* No wake-up is lost or invented: the closures in the queue are exactly the
\* units in the eventfd plus the writes that posters still owe.
WakeupsMatchTasks ==
  ~cleared => Len(tasks) = efd + Cardinality(posting)

\* Once WaitUntilStopped has returned, no closure runs and none will start, even
\* if a late poster's write made the eventfd readable again.
StoppedIsQuiet ==
  clearing \in {"stopped", "destroyed"} => loop = "idle" /\ current = 0

\* The handler is the sequential context that the architecture describes.
Promise == INSTANCE SequentialContext
             WITH queue <- tasks, closed <- cleared, NoTask <- 0

Sequential == Promise!Spec

\* Every closure that Post accepted is started unless the handler is cleared
\* before, and every closure that starts returns.
EveryTaskRuns == Promise!FairSpec

\* A Clear, once begun, is followed by the return of WaitUntilStopped.
ClearCompletes == (clearing = "drain") ~> (clearing \in {"stopped", "destroyed"})
=============================================================================
