------------------------- MODULE HandlerAlarmProofs -------------------------
(***************************************************************************)
(* Proofs about what posts work to a reactor: Handler, for every finite    *)
(* set of posters and every bound on the number of closures, and at the    *)
(* end Alarm, for every bound on the number of tasks.                      *)
(***************************************************************************)
EXTENDS Handler, Alarm, FiniteSetTheorems, TLAPS

\* A handler is cleared from the first section of Clear on, and then has no task.
ClearedFromSwap ==
  /\ cleared <=> clearing # "no"
  /\ cleared => tasks = <<>>

\* While the handler is not cleared only handle_next_event takes from the
\* eventfd, so the readiness that epoll_wait reported is still there.
ReadinessKept ==
  loop \in {"collected", "entered"} /\ ~cleared => efd > 0

\* A closure is current exactly while the reactor thread runs it.
RunningHasTask == current # 0 <=> loop = "running"

\* After Unregister no event of the handler is collected, and after
\* WaitUntilStopped none is executed.
UnregisteredIsQuiet ==
  /\ registered <=> clearing \in {"no", "drain", "unregister"}
  /\ clearing \in {"cleared", "stopped", "destroyed"} => loop # "collected"
  /\ clearing \in {"stopped", "destroyed"} => loop = "idle"

\* The inductive invariant.
IInv ==
  /\ TypeOK
  /\ WakeupsMatchTasks
  /\ ClearedFromSwap
  /\ ReadinessKept
  /\ RunningHasTask
  /\ UnregisteredIsQuiet

\* A poster enters and leaves the set of posters that owe a write: the set stays
\* finite and its size changes by one.
LEMMA PostingSize ==
  ASSUME NEW S, S \subseteq Posters, NEW p \in Posters
  PROVE  /\ IsFiniteSet(S)
         /\ Cardinality(S) \in Nat
         /\ p \notin S => Cardinality(S \cup {p}) = Cardinality(S) + 1
         /\ p \in S => Cardinality(S \ {p}) = Cardinality(S) - 1
<1>1. IsFiniteSet(S)
  BY PostersAssumption, FS_Subset
<1>2. Cardinality(S) \in Nat
  BY <1>1, FS_CardinalityType
<1>3. p \notin S => Cardinality(S \cup {p}) = Cardinality(S) + 1
  BY <1>1, FS_AddElement
<1>4. p \in S => Cardinality(S \ {p}) = Cardinality(S) - 1
  BY <1>1, FS_RemoveElement
<1> QED BY <1>1, <1>2, <1>3, <1>4

\* The state in which Handler::Handler leaves the handler satisfies the invariant.
LEMMA InitIInv == Init => IInv
<1> SUFFICES ASSUME Init PROVE IInv
  OBVIOUS
<1> USE DEF Init
<1>1. TypeOK
  <2>1. <<>> \in Seq(1..MaxPosts)
    OBVIOUS
  <2>2. 0 \in 0..MaxPosts
    BY MaxPostsAssumption
  <2> QED BY <2>1, <2>2, Zenon DEF TypeOK
<1>2. WakeupsMatchTasks
  BY FS_EmptySet DEF WakeupsMatchTasks
<1>3. ClearedFromSwap /\ ReadinessKept /\ RunningHasTask /\ UnregisteredIsQuiet
  BY DEF ClearedFromSwap, ReadinessKept, RunningHasTask, UnregisteredIsQuiet
<1> QED
  BY <1>1, <1>2, <1>3 DEF IInv

\* Every step of a poster, of the reactor thread and of the thread that clears
\* the handler preserves the invariant.
LEMMA NextIInv == IInv /\ [Next]_vars => IInv'
<1> SUFFICES ASSUME IInv, [Next]_vars PROVE IInv'
  OBVIOUS
<1> USE MaxPostsAssumption DEF IInv, TypeOK, WakeupsMatchTasks, ClearedFromSwap, ReadinessKept,
        RunningHasTask, UnregisteredIsQuiet
<1>0. ASSUME NEW S, S \subseteq Posters PROVE Cardinality(S) \in Nat
  BY <1>0, PostersAssumption, FS_Subset, FS_CardinalityType
<1>1. ASSUME NEW p \in Posters, PostPush(p) PROVE IInv'
  <2>1. tasks' = Append(tasks, posted + 1) /\ posted + 1 \in 1..MaxPosts
    BY <1>1 DEF PostPush, Accepts
  <2>2. Cardinality(posting') = Cardinality(posting) + 1
    BY <1>1, PostingSize, Zenon DEF PostPush, Accepts
  <2>3. tasks' \in Seq(1..MaxPosts) /\ Len(tasks') = Len(tasks) + 1
    BY <2>1
  <2>4. Len(tasks) = efd + Cardinality(posting) /\ efd' = efd
    BY <1>1 DEF PostPush, Accepts
  <2>5. Len(tasks') = efd' + Cardinality(posting')
    <3>1. Cardinality(posting) \in Nat
      BY PostingSize, Zenon
    <3>2. efd \in Nat
      OBVIOUS
    <3> QED BY ONLY <2>2, <2>3, <2>4, <3>1, <3>2
  <2> QED BY <1>1, <2>1, <2>3, <2>5 DEF PostPush, Accepts
<1>2. ASSUME NEW p \in Posters, PostWrite(p) PROVE IInv'
  <2>1. Cardinality(posting') = Cardinality(posting) - 1
    BY <1>2, PostingSize DEF PostWrite
  <2> QED BY <1>0, <1>2, <2>1, SMTT(30) DEF PostWrite
<1>3. CASE Poll
  BY <1>3 DEF Poll
<1>4. CASE Dispatch
  BY <1>4 DEF Dispatch
<1>5. CASE HandleCleared
  BY <1>5 DEF HandleCleared, AfterRead
<1>6. CASE HandlePop
  <2>1. Head(tasks) \in 1..MaxPosts /\ Tail(tasks) \in Seq(1..MaxPosts)
        /\ Len(Tail(tasks)) = Len(tasks) - 1
    BY <1>6 DEF HandlePop
  <2> QED BY <1>0, <1>6, <2>1, SMTT(30) DEF HandlePop, AfterRead, ReadSucceeds
<1>7. CASE RunReturn
  BY <1>7 DEF RunReturn
<1>8. CASE ClearSwap
  BY <1>8 DEF ClearSwap
<1>9. CASE ClearDrain
  BY <1>9 DEF ClearDrain, ReadReturns, AfterRead
<1>10. CASE ClearUnregister
  BY <1>10, Zenon DEF ClearUnregister
<1>11. CASE WaitUntilStopped
  BY <1>11 DEF WaitUntilStopped, Executing
<1>12. CASE Destroy
  BY <1>12 DEF Destroy
<1>13. CASE UNCHANGED vars
  BY <1>13 DEF vars
<1> QED
  BY <1>1, <1>2, <1>3, <1>4, <1>5, <1>6, <1>7, <1>8, <1>9, <1>10, <1>11, <1>12,
     <1>13 DEF Next, LoopStep, TearDown

\* The inductive invariant holds in every reachable state of the handler.
THEOREM Invariance == Spec => []IInv
<1> QED BY InitIInv, NextIInv, PTL DEF Spec

\* For any number of threads that call Post and at any moment of a concurrent
\* Clear, the eventfd_read of handle_next_event on a handler that is not cleared
\* succeeds and tasks_ has a front: the ASSERT_LOG never fires.
THEOREM AssertionHolds == Spec => []ReadNeverFails
<1>1. IInv => ReadNeverFails
  <2> SUFFICES ASSUME IInv, loop = "entered", ~cleared
               PROVE  ReadSucceeds /\ tasks # <<>>
    BY DEF ReadNeverFails
  <2>1. efd \in Nat /\ efd > 0
    BY DEF IInv, TypeOK, ReadinessKept
  <2>2. Cardinality(posting) \in Nat
    BY PostersAssumption, FS_Subset, FS_CardinalityType DEF IInv, TypeOK
  <2>3. Len(tasks) = efd + Cardinality(posting)
    BY DEF IInv, WakeupsMatchTasks
  <2>4. Len(tasks) # 0
    BY ONLY <2>1, <2>2, <2>3
  <2> QED BY <2>1, <2>4 DEF ReadSucceeds
<1> QED BY <1>1, Invariance, PTL

\* No write of the eventfd is lost and none is counted twice.
THEOREM WakeupsExact == Spec => []WakeupsMatchTasks
<1>1. IInv => WakeupsMatchTasks
  BY DEF IInv
<1> QED BY <1>1, Invariance, PTL

\* When WaitUntilStopped has returned, no closure of the handler runs and none
\* will start: a module may be stopped and deleted.
THEOREM QuietAfterStop == Spec => []StoppedIsQuiet
<1>1. IInv => StoppedIsQuiet
  BY DEF IInv, UnregisteredIsQuiet, RunningHasTask, StoppedIsQuiet
<1> QED BY <1>1, Invariance, PTL

\* The handler implements the sequential context: closures start in the order of
\* their posting, one at a time and at most once, and none after Clear.
THEOREM ImplementsContext == Spec => Sequential
<1>1. Init => Promise!Init
  BY DEF Init, Promise!Init
<1>2. IInv /\ [Next]_vars => [Promise!Next]_<<tasks, current, posted, cleared>>
  <2> SUFFICES ASSUME IInv, [Next]_vars
               PROVE  Promise!Next \/ UNCHANGED <<tasks, current, posted, cleared>>
    OBVIOUS
  <2> USE DEF IInv
  <2>1. ASSUME NEW p \in Posters, PostPush(p) PROVE Promise!Post
    BY <2>1 DEF PostPush, Accepts, Promise!Post
  <2>2. CASE HandlePop
    <3>1. current = 0
      BY <2>2 DEF HandlePop, RunningHasTask
    <3>2. Promise!Start
      BY <2>2, <3>1 DEF HandlePop, Promise!Start
    <3> QED BY <3>2 DEF Promise!Next
  <2>3. CASE RunReturn
    <3>1. Promise!Finish
      BY <2>3 DEF RunReturn, RunningHasTask, Promise!Finish
    <3> QED BY <3>1 DEF Promise!Next
  <2>4. CASE ClearSwap
    <3>1. ~cleared
      BY <2>4 DEF ClearSwap, ClearedFromSwap
    <3>2. Promise!Close
      BY <2>4, <3>1 DEF ClearSwap, Promise!Close
    <3> QED BY <3>2 DEF Promise!Next
  <2>5. CASE \/ \E p \in Posters : PostWrite(p)
             \/ Poll \/ Dispatch \/ HandleCleared
             \/ ClearDrain \/ ClearUnregister \/ WaitUntilStopped \/ Destroy
             \/ UNCHANGED vars
    BY <2>5 DEF PostWrite, Poll, Dispatch, HandleCleared, ClearDrain,
       ClearUnregister, WaitUntilStopped, Destroy, vars
  <2> QED
    BY <2>1, <2>2, <2>3, <2>4, <2>5 DEF Next, LoopStep, TearDown, Promise!Next
<1> QED
  BY <1>1, <1>2, Invariance, PTL DEF Spec, Sequential, Promise!Spec, Promise!cvars
-----------------------------------------------------------------------------
(***************************************************************************)
(* os::Alarm, for any number of tasks.                                     *)
(***************************************************************************)
\* Task numbers are those given out so far, and a timerfd that is armed is not readable.
TaskNumbers ==
  /\ last \in Nat /\ task \in 0..last /\ running \in 0..last
  /\ expirations \in {0, 1} /\ (armed => expirations = 0)
  /\ void \subseteq 1..last /\ expired \subseteq 1..last /\ ran \subseteq 1..last

\* The timerfd belongs to the task scheduled last: while it is armed, or readable, that
\* task is in task_, or on_fire has it and reads; and it was neither given up nor started.
TimerIsForLast ==
  armed \/ expirations > 0 =>
    /\ last \notin void \cup ran
    /\ expirations > 0 => last \in expired
    /\ last > 0 /\ (task = last \/ (poller = "read" /\ running = last))

\* The task that on_fire has moved out of task_ is older than the one that is in it, and
\* once its expiration was read it is due.
MovedTask ==
  /\ poller = "read" => task = 0
  /\ poller = "run" => running \in expired \ (void \cup ran) /\ (task = 0 \/ task > running)

\* The inductive invariant.
AlarmInv == TaskNumbers /\ TimerIsForLast /\ MovedTask

\* It holds when the alarm has been constructed.
LEMMA InitAlarm == AlarmInit => AlarmInv
BY DEF AlarmInit, AlarmInv, TaskNumbers, TimerIsForLast, MovedTask

\* Every call of the alarm and every step of its thread preserves it.
LEMMA NextAlarm == AlarmInv /\ [AlarmNext]_allAlarmVars => AlarmInv'
<1> SUFFICES ASSUME AlarmInv, [AlarmNext]_allAlarmVars PROVE AlarmInv'
  OBVIOUS
<1> USE DEF AlarmInv, TaskNumbers, TimerIsForLast, MovedTask
<1>1. CASE UNCHANGED allAlarmVars
  BY <1>1 DEF allAlarmVars, alarmVars, loopVars
<1>2. CASE Schedule
  BY <1>2 DEF Schedule, MutexFree, Waiting, loopVars
<1>3. CASE Cancel
  BY <1>3 DEF Cancel, MutexFree, Waiting, loopVars
<1>4. CASE DestroyAlarm
  BY <1>4 DEF DestroyAlarm, MutexFree, Waiting
<1>5. CASE Expire
  BY <1>5 DEF Expire, loopVars
<1>6. CASE CollectBatch \/ BatchEmpty \/ ClientStarts \/ ClientReturns \/ TaskReturns
  <2>1. UNCHANGED <<armed, expirations, task, last, void, expired, running, ran>>
    BY <1>6 DEF CollectBatch, BatchEmpty, ClientStarts, ClientReturns, TaskReturns, alarmVars
  <2>2. poller \notin {"read", "run"} /\ poller' \notin {"read", "run"}
    BY <1>6 DEF CollectBatch, BatchEmpty, ClientStarts, ClientReturns, TaskReturns
  <2> QED BY <2>1, <2>2
<1>7. CASE OnFire
  BY <1>7 DEF OnFire
<1>8. CASE Read
  BY <1>8 DEF Read, Readable
<1>9. CASE Run
  BY <1>9 DEF Run, alarmVars
<1> QED BY <1>1, <1>2, <1>3, <1>4, <1>5, <1>6, <1>7, <1>8, <1>9 DEF AlarmNext, Thread

\* Every task that Alarm::on_fire starts is due, was not given up before, and starts for
\* the first time, however calls of Schedule, Cancel and the destructor on any thread
\* interleave with the expiration, the batch of the reactor and on_fire.
THEOREM StartsWhenDue == AlarmSpec => RunsWhenDue
<1>1. AlarmInv /\ [AlarmNext]_allAlarmVars => [ran' # ran => running \in expired \ (void \cup ran)]_allAlarmVars
  BY DEF AlarmInv, MovedTask, AlarmNext, Thread, Schedule, Cancel, DestroyAlarm, Expire, CollectBatch, BatchEmpty,
         ClientStarts, ClientReturns, TaskReturns, OnFire, Read, Run, loopVars, allAlarmVars
<1> QED BY <1>1, InitAlarm, NextAlarm, PTL DEF AlarmSpec, RunsWhenDue
=============================================================================
