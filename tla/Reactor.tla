------------------------------ MODULE Reactor ------------------------------
(***************************************************************************)
(* os::Reactor and os::Thread (gd/os/linux_generic/reactor.cc, thread.cc): *)
(* one thread waits on an epoll set and calls the reactables whose file    *)
(* descriptor is ready; any thread, and the callbacks themselves, register *)
(* and unregister reactables meanwhile.                                    *)
(*                                                                         *)
(* A reactable is a heap object.  An address is reused after a delete, so  *)
(* each registration has a number of its own; the epoll events collected   *)
(* for a registration are records of its address and its number, of which  *)
(* the code sees the address only.  A section under mutex_ or under the    *)
(* mutex of a reactable is one action, except the wait for the future of   *)
(* the executing reactable, which keeps mutex_ while it blocks.  Touching  *)
(* a deleted reactable ends the behaviour: after it nothing is defined.    *)
(***************************************************************************)
EXTENDS Naturals, FiniteSets

CONSTANTS
  Addrs,          \* the heap addresses at which reactables live
  Threads,        \* the threads other than the one in Run
  Unregisterers,  \* those of them that call Unregister
  Loop,           \* the thread in Run, when a callback calls the reactor
  None,
  MaxRegs,        \* bound on the number of calls of Register
  MaxIdles        \* bound on the number of calls of WaitForIdle

ASSUME ReactorAssumption ==
  /\ Unregisterers \subseteq Threads
  /\ Loop \notin Threads /\ None \notin Threads \cup Addrs
  /\ MaxRegs \in Nat /\ MaxIdles \in Nat

VARIABLES
  loop,          \* where Run is: "top", "poll", "dispatch", "exec", and the ends
                 \* "exited", "deleted_object" and "null_promise"
  events,        \* the epoll events that Run has not looked at yet
  cur,           \* the event whose reactable Run executes
  live,          \* addresses that hold a Reactable
  reg,           \* the number of the latest registration at an address
  nregs,         \* the number of registrations so far
  owned,         \* addresses whose owner may still unregister them
  interest,      \* the epoll interest list, without control_fd_
  ready,         \* the registered file descriptors that are ready
  is_executing, removed,     \* the addresses where these flags are set
  invalidation_list, mutex,  \* mutex: the thread that keeps mutex_ over steps
  finished,      \* executing_reactable_finished_: "null", "pending", "ready"
  control,       \* the counter of control_fd_
  waiting_for_idle, idle_promise,
  joinable,      \* Thread::running_thread_ is not joined
  pc, arg,       \* the call that a thread is in, and the event it is about
  idled,         \* the threads whose promise in WaitForIdle was fulfilled
  idles,         \* the calls of WaitForIdle made so far
  raced          \* history: Run cleared the invalidation list while a thread was
                 \* between its entry in the list and its epoll_ctl

objVars == <<live, reg, nregs, owned, interest, is_executing, removed>>
ctlVars == <<control, waiting_for_idle, idle_promise, idled, joinable, idles>>
runVars == <<loop, events, cur, raced>>
vars == <<runVars, objVars, ready, invalidation_list, mutex, finished, ctlVars, pc, arg>>

Actors == Threads \cup {Loop}
Event(a) == [ptr |-> a, reg |-> reg[a]]
NoEvent == [ptr |-> None, reg |-> 0]
ControlEvent == NoEvent     \* the event of control_fd_ carries a null pointer

Init ==
  /\ loop = "top" /\ events = {} /\ cur = NoEvent /\ raced = FALSE
  /\ live = {} /\ reg = [a \in Addrs |-> 0] /\ nregs = 0
  /\ owned = {} /\ interest = {} /\ ready = {}
  /\ is_executing = {} /\ removed = {}
  /\ invalidation_list = {} /\ mutex = None /\ finished = "null"
  /\ control = 0 /\ waiting_for_idle = FALSE /\ idle_promise = None
  /\ idled = {} /\ joinable = TRUE /\ idles = 0
  /\ pc = [t \in Actors |-> "none"]
  /\ arg = [t \in Actors |-> NoEvent]

\* The code that thread t runs may call the reactor now: t is not inside a call
\* already, and the loop thread runs such code only inside a callback.
MayCall(t) == pc[t] = "none" /\ (t = Loop => loop = "exec")

Goto(t, p) == pc' = [pc EXCEPT ![t] = p]
-----------------------------------------------------------------------------
(* Register, Unregister and WaitForUnregisteredReactable.                  *)

Register(t, a) ==
  /\ MayCall(t)
  /\ nregs < MaxRegs
  /\ a \notin live
  /\ live' = live \cup {a}
  /\ nregs' = nregs + 1
  /\ reg' = [reg EXCEPT ![a] = nregs']
  /\ owned' = owned \cup {a}
  /\ interest' = interest \cup {a}
  /\ is_executing' = is_executing \ {a}
  /\ removed' = removed \ {a}
  /\ UNCHANGED <<runVars, ready, invalidation_list, mutex, finished, ctlVars, pc, arg>>

UnregisterCall(t, a) ==
  /\ MayCall(t)
  /\ t \in Unregisterers \cup {Loop}
  /\ a \in owned
  /\ owned' = owned \ {a}
  /\ arg' = [arg EXCEPT ![t] = Event(a)]
  /\ Goto(t, "unregister")
  /\ UNCHANGED <<runVars, live, reg, nregs, interest, is_executing, removed, ready,
                 invalidation_list, mutex, finished, ctlVars>>

\* invalidation_list_.push_back.
Listed_mut(a) == invalidation_list
Listed(a) == invalidation_list \cup {a}

UnregisterInvalidate(t) ==
  /\ pc[t] = "unregister"
  /\ mutex = None
  /\ invalidation_list' = Listed(arg[t].ptr)
  /\ Goto(t, "erase")
  /\ UNCHANGED <<runVars, objVars, ready, mutex, finished, ctlVars, arg>>

\* Unregister leaves the deletion to Run, and a future for it.
DeletedByRun_mut(a) == FALSE
DeletedByRun(a) == a \in is_executing
Promised_mut == finished
Promised == "pending"

\* The section under reactable->mutex_.
UnregisterErase(t) ==
  LET a == arg[t].ptr IN
  /\ pc[t] = "erase"
  /\ interest' = interest \ {a}
  /\ ready' = ready \ {a}
  /\ IF DeletedByRun(a)
       THEN /\ removed' = removed \cup {a}
            /\ finished' = Promised
            /\ Goto(t, "unregistered")
       ELSE /\ UNCHANGED <<removed, finished>>
            /\ Goto(t, "delete")
  /\ UNCHANGED <<runVars, live, reg, nregs, owned, is_executing,
                 invalidation_list, mutex, ctlVars, arg>>

UnregisterDelete(t) ==
  /\ pc[t] = "delete"
  /\ live' = live \ {arg[t].ptr}
  /\ Goto(t, "unregistered")
  /\ UNCHANGED <<runVars, reg, nregs, owned, interest, is_executing, removed, ready,
                 invalidation_list, mutex, finished, ctlVars, arg>>

\* The caller of Unregister goes on without waiting, or after having waited.
UnregisterReturn(t) ==
  /\ pc[t] \in {"unregistered", "waited"}
  /\ Goto(t, "none")
  /\ arg' = [arg EXCEPT ![t] = NoEvent]
  /\ UNCHANGED <<runVars, objVars, ready, invalidation_list, mutex, finished, ctlVars>>

\* WaitForUnregisteredReactable, as Queue and Handler call it: after Unregister and
\* from another thread.  With no future it returns at once.
WaitNothing(t) ==
  /\ t # Loop
  /\ pc[t] = "unregistered"
  /\ mutex = None
  /\ finished = "null"
  /\ Goto(t, "waited")
  /\ UNCHANGED <<runVars, objVars, ready, invalidation_list, mutex, finished, ctlVars, arg>>

WaitBegin(t) ==
  /\ t # Loop
  /\ pc[t] = "unregistered"
  /\ mutex = None
  /\ finished # "null"
  /\ mutex' = t
  /\ Goto(t, "wait")
  /\ UNCHANGED <<runVars, objVars, ready, invalidation_list, finished, ctlVars, arg>>

WaitReady(t) ==
  /\ pc[t] = "wait"
  /\ finished = "ready"
  /\ mutex' = None
  /\ Goto(t, "waited")
  /\ UNCHANGED <<runVars, objVars, ready, invalidation_list, finished, ctlVars, arg>>

\* wait_for, and not wait.
TimesOut_mut == FALSE
TimesOut == finished # "ready"

\* The timeout: the call returns false.
WaitTimeout(t) ==
  /\ pc[t] = "wait"
  /\ TimesOut
  /\ mutex' = None
  /\ Goto(t, "none")
  /\ arg' = [arg EXCEPT ![t] = NoEvent]
  /\ UNCHANGED <<runVars, objVars, ready, invalidation_list, finished, ctlVars>>
-----------------------------------------------------------------------------
(* Reactor::Stop, Thread::Stop and WaitForIdle.                            *)

kStopReactor == 1
kWaitForIdle == 2

\* Reactor::Stop; Thread::Stop is its only caller.
ReactorStop == control' = control + kStopReactor

\* Thread::Stop keeps the mutex of the Thread until the join is over, so a second
\* caller finds the thread joined and returns.
ThreadStop(t) ==
  /\ t \in Threads /\ MayCall(t)
  /\ \A u \in Threads : pc[u] # "join"
  /\ joinable
  /\ ReactorStop
  /\ Goto(t, "join")
  /\ UNCHANGED <<runVars, objVars, ready, invalidation_list, mutex, finished,
                 waiting_for_idle, idle_promise, idled, joinable, idles, arg>>

ThreadJoin(t) ==
  /\ pc[t] = "join"
  /\ loop = "exited"
  /\ joinable' = FALSE
  /\ Goto(t, "none")
  /\ UNCHANGED <<runVars, objVars, ready, invalidation_list, mutex, finished, control,
                 waiting_for_idle, idle_promise, idled, idles, arg>>

IdlePromise(t) ==
  /\ t \in Threads /\ MayCall(t)
  /\ idles < MaxIdles
  /\ mutex = None
  /\ idles' = idles + 1
  /\ idle_promise' = t
  /\ idled' = idled \ {t}
  /\ Goto(t, "idle_write")
  /\ UNCHANGED <<runVars, objVars, ready, invalidation_list, mutex, finished, control,
                 waiting_for_idle, joinable, arg>>

IdleWrite(t) ==
  /\ pc[t] = "idle_write"
  /\ control' = control + kWaitForIdle
  /\ Goto(t, "idle_wait")
  /\ UNCHANGED <<runVars, objVars, ready, invalidation_list, mutex, finished,
                 waiting_for_idle, idle_promise, idled, joinable, idles, arg>>

\* The future is ready, or the timeout of WaitForIdle passes.
IdleReturn(t) ==
  /\ pc[t] = "idle_wait"
  /\ Goto(t, "none")
  /\ UNCHANGED <<runVars, objVars, ready, invalidation_list, mutex, finished, ctlVars, arg>>
-----------------------------------------------------------------------------
(* Reactor::Run.                                                           *)

RunTop ==
  /\ loop = "top"
  /\ mutex = None
  /\ invalidation_list' = {}
  /\ loop' = "poll"
  /\ raced' = (raced \/ \E t \in Threads : pc[t] = "erase")
  /\ UNCHANGED <<events, cur, objVars, ready, mutex, finished, ctlVars, pc, arg>>

\* What epoll_wait reports: every descriptor of the interest list that is ready.
Reported ==
  {Event(a) : a \in interest \cap ready} \cup (IF control > 0 THEN {ControlEvent} ELSE {})

RunPoll ==
  /\ loop = "poll"
  /\ Reported # {}
  /\ events' = Reported
  /\ loop' = "dispatch"
  /\ UNCHANGED <<cur, raced, objVars, ready, invalidation_list, mutex, finished, ctlVars, pc, arg>>

\* epoll_wait times out, which it does only while a thread waits for idle.
RunIdle ==
  /\ loop = "poll"
  /\ Reported = {}
  /\ waiting_for_idle
  /\ waiting_for_idle' = FALSE
  /\ idle_promise' = None
  /\ IF idle_promise = None
       THEN loop' = "null_promise" /\ UNCHANGED idled
       ELSE loop' = "top" /\ idled' = idled \cup {idle_promise}
  /\ UNCHANGED <<events, cur, raced, objVars, ready, invalidation_list, mutex, finished,
                 control, joinable, idles, pc, arg>>

Bit(v, b) == (v \div b) % 2 = 1
Stops_mut(v) == v = kStopReactor
Stops(v) == Bit(v, kStopReactor)

\* The counter is read as a set of bits; a value with neither bit is logged.
RunControl ==
  /\ loop = "dispatch"
  /\ ControlEvent \in events
  /\ events' = events \ {ControlEvent}
  /\ control' = 0
  /\ IF Stops(control)
       THEN loop' = "exited" /\ UNCHANGED waiting_for_idle
       ELSE /\ UNCHANGED loop
            /\ waiting_for_idle' = (waiting_for_idle \/ Bit(control, kWaitForIdle))
  /\ UNCHANGED <<cur, raced, objVars, ready, invalidation_list, mutex, finished, idle_promise,
                 idled, joinable, idles, pc, arg>>

\* The section under mutex_, for a reactable that was unregistered meanwhile ...
RunSkip(e) ==
  /\ loop = "dispatch"
  /\ e # ControlEvent
  /\ mutex = None
  /\ e.ptr \in invalidation_list
  /\ finished' = "null"
  /\ events' = events \ {e}
  /\ UNCHANGED <<loop, cur, raced, objVars, ready, invalidation_list, mutex, ctlVars, pc, arg>>

\* ... and for one that was not, up to the call of its callback.
RunExecute(e) ==
  /\ loop = "dispatch"
  /\ e # ControlEvent
  /\ mutex = None
  /\ e.ptr \notin invalidation_list
  /\ finished' = "null"
  /\ events' = events \ {e}
  /\ IF e.ptr \in live
       THEN /\ loop' = "exec"
            /\ cur' = e
            /\ is_executing' = is_executing \cup {e.ptr}
       ELSE loop' = "deleted_object" /\ UNCHANGED <<cur, is_executing>>
  /\ UNCHANGED <<raced, live, reg, nregs, owned, interest, removed, ready, invalidation_list,
                 mutex, ctlVars, pc, arg>>

\* The callback returns.  It may have made its descriptor not ready.
RunFinish ==
  /\ loop = "exec"
  /\ pc[Loop] = "none"
  /\ IF cur = Event(cur.ptr) /\ cur.ptr \in live
       THEN /\ loop' = "dispatch"
            /\ cur' = NoEvent
            /\ is_executing' = is_executing \ {cur.ptr}
            /\ ready' \in {ready, ready \ {cur.ptr}}
            /\ IF cur.ptr \in removed
                 THEN /\ finished' = "ready"
                      /\ removed' = removed \ {cur.ptr}
                      /\ live' = live \ {cur.ptr}
                 ELSE UNCHANGED <<finished, removed, live>>
       ELSE /\ loop' = "deleted_object"
            /\ UNCHANGED <<cur, is_executing, ready, finished, removed, live>>
  /\ UNCHANGED <<events, raced, reg, nregs, owned, interest, invalidation_list, mutex, ctlVars,
                 pc, arg>>

RunNext ==
  /\ loop = "dispatch"
  /\ events = {}
  /\ loop' = "top"
  /\ UNCHANGED <<events, cur, raced, objVars, ready, invalidation_list, mutex, finished, ctlVars,
                 pc, arg>>

\* The other end of a registered descriptor makes it ready.
FdReady(a) ==
  /\ a \in interest \ ready
  /\ ready' = ready \cup {a}
  /\ UNCHANGED <<runVars, objVars, invalidation_list, mutex, finished, ctlVars, pc, arg>>
-----------------------------------------------------------------------------
Run ==
  \/ RunTop \/ RunPoll \/ RunIdle \/ RunControl \/ RunFinish \/ RunNext
  \/ \E e \in events : RunSkip(e) \/ RunExecute(e)

\* The steps of a call that thread t is in.
InCall(t) ==
  \/ UnregisterInvalidate(t) \/ UnregisterErase(t) \/ UnregisterDelete(t)
  \/ UnregisterReturn(t)
  \/ WaitReady(t) \/ WaitTimeout(t)
  \/ ThreadJoin(t) \/ IdleWrite(t) \/ IdleReturn(t)

\* The steps with which thread t enters a call, or a wait after a call.
Calls(t) ==
  \/ \E a \in Addrs : Register(t, a) \/ UnregisterCall(t, a)
  \/ WaitNothing(t) \/ WaitBegin(t)
  \/ ThreadStop(t) \/ IdlePromise(t)

Crashed == loop \in {"deleted_object", "null_promise"}

Next ==
  /\ ~Crashed
  /\ \/ Run
     \/ \E t \in Actors : InCall(t) \/ Calls(t)
     \/ \E a \in Addrs : FdReady(a)

Spec == Init /\ [][Next]_vars

\* Threads are scheduled: the loop goes on, a callback returns, and a call that was
\* entered is carried on.  Nobody is obliged to call.
Fairness ==
  /\ WF_vars(~Crashed /\ Run)
  /\ \A t \in Actors : WF_vars(~Crashed /\ InCall(t))

FairSpec == Spec /\ Fairness
-----------------------------------------------------------------------------
\* Run fulfils no promise that nobody made, and touches no reactable that was deleted
\* (Unregister deletes it "after the callback is executed", "so it's thread safe"), but
\* for one race: Run empties the invalidation list under a thread that is about to
\* remove the descriptor from epoll.
CrashNeedsRace == loop # "null_promise" /\ (~raced => loop # "deleted_object")

\* Run calls back a reactable only for an event of its own registration, and only one
\* whose Unregister has at most been entered: an event collected before Unregister never
\* reaches the callback, not even when a new reactable was registered at the same
\* address in between, but for that race.
OnlyLiveRegistrations ==
  [][loop = "dispatch" /\ loop' = "exec" /\ ~raced =>
       /\ cur' = Event(cur'.ptr)
       /\ cur'.ptr \in owned \/ \E t \in Threads : pc[t] = "unregister" /\ arg[t] = cur']_vars

\* When WaitForUnregisteredReactable has returned true, the callback that was
\* unregistered before the call is over and will not start again, but for that race.
WaitedIsOver ==
  ~raced => \A t \in Threads : pc[t] = "waited" => ~(loop = "exec" /\ cur = arg[t])

\* Thread::Stop ends the loop whatever the callbacks and the other threads do.
StopEnds == \A t \in Threads : pc[t] = "join" ~> loop \in {"exited", "deleted_object"}

\* Unregister returns to its caller, from a callback too, unless Run has crashed.
UnregisterReturns ==
  \A t \in Actors : pc[t] = "unregister" ~> (pc[t] \in {"unregistered", "waited", "none"} \/ Crashed)
=============================================================================
