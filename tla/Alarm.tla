------------------------------- MODULE Alarm -------------------------------
(***************************************************************************)
(* os::Alarm (gd/os/linux_generic/alarm.cc): a single-shot timer made of a *)
(* timerfd that is registered as a reactable with the reactor of a thread. *)
(*                                                                         *)
(* The reactor collects a batch of ready file descriptors and then calls   *)
(* one reactable after the other.  A callback of the same batch may use    *)
(* the alarm before on_fire has its turn, and on_fire then reads the       *)
(* timerfd, which is a blocking one, with Alarm::mutex_ held.              *)
(*                                                                         *)
(* Tasks are numbered in the order in which they are scheduled; 0 is the   *)
(* null OnceClosure.  The specification is named AlarmSpec, so that one    *)
(* module can extend this one and Handler.                                 *)
(***************************************************************************)
EXTENDS Naturals

CONSTANTS
  MaxTasks    \* bound on the calls of Schedule

ASSUME AlarmAssumption == MaxTasks \in Nat

VARIABLES
  armed,         \* the timerfd is armed
  expirations,   \* the count that a read of the timerfd returns; 0 blocks
  task,          \* task_
  alive,         \* the alarm is not destroyed
  batch,         \* what epoll_wait returned and the reactor has not called yet
  poller,        \* where the thread is
  running,       \* the task that on_fire has moved out of task_
  last,          \* the number of tasks scheduled
  void,          \* tasks cancelled, replaced or destroyed before they started
  expired,       \* tasks whose delay is over
  ran            \* tasks that were started

alarmVars == <<armed, expirations, task, alive, last, void, expired>>
loopVars == <<batch, poller, running, ran>>
allAlarmVars == <<alarmVars, loopVars>>

AlarmInit ==
  /\ armed = FALSE /\ expirations = 0 /\ task = 0 /\ alive = TRUE
  /\ batch = {} /\ poller = "poll" /\ running = 0
  /\ last = 0 /\ void = {} /\ expired = {} /\ ran = {}
-----------------------------------------------------------------------------
(* The users of the alarm: other reactables of its thread, the task        *)
(* itself, and other threads, at any time.                                 *)

\* on_fire holds Alarm::mutex_ while it reads.
MutexFree == poller # "read"

\* The task that is given up: the one in task_.
Waiting == {task} \ {0}

\* Schedule: timerfd_settime also resets the count of the timerfd.
Schedule ==
  /\ alive /\ MutexFree
  /\ last < MaxTasks
  /\ last' = last + 1
  /\ armed' = TRUE
  /\ expirations' = 0
  /\ void' = void \cup Waiting
  /\ task' = last + 1
  /\ UNCHANGED <<alive, expired, loopVars>>

\* Cancel: task_ stays.
Cancel ==
  /\ alive /\ MutexFree
  /\ armed' = FALSE
  /\ expirations' = 0
  /\ void' = void \cup Waiting
  /\ UNCHANGED <<task, alive, last, expired, loopVars>>

\* ~Alarm, which Reactor::Unregister makes drop a collected event.  It does not take the
\* mutex; that no thread destroys an alarm inside the section of on_fire that uses the
\* mutex is up to the users.
DestroyAlarm ==
  /\ alive /\ MutexFree
  /\ alive' = FALSE
  /\ armed' = FALSE
  /\ expirations' = 0
  /\ void' = void \cup Waiting
  /\ batch' = batch \ {"alarm"}
  /\ UNCHANGED <<task, last, expired, poller, running, ran>>

\* The kernel: the delay of the task scheduled last is over.
Expire ==
  /\ armed
  /\ armed' = FALSE
  /\ expirations' = 1
  /\ expired' = expired \cup {last}
  /\ UNCHANGED <<task, alive, last, void, loopVars>>
-----------------------------------------------------------------------------
(* The thread of the alarm.                                                *)

\* Every ready descriptor is collected; the client's may be ready at any time.
CollectBatch ==
  /\ poller = "poll"
  /\ \E clients \in SUBSET {"client"} :
       batch' = clients \cup IF expirations > 0 THEN {"alarm"} ELSE {}
  /\ batch' # {}
  /\ poller' = "batch"
  /\ UNCHANGED <<alarmVars, running, ran>>

BatchEmpty ==
  /\ poller = "batch"
  /\ batch = {}
  /\ poller' = "poll"
  /\ UNCHANGED <<alarmVars, batch, running, ran>>

ClientStarts ==
  /\ poller = "batch"
  /\ "client" \in batch
  /\ batch' = batch \ {"client"}
  /\ poller' = "client"
  /\ UNCHANGED <<alarmVars, running, ran>>

ClientReturns ==
  /\ poller = "client"
  /\ poller' = "batch"
  /\ UNCHANGED <<alarmVars, batch, running, ran>>

\* on_fire locks the mutex and moves the task.
OnFire ==
  /\ poller = "batch"
  /\ "alarm" \in batch
  /\ batch' = batch \ {"alarm"}
  /\ running' = task
  /\ task' = 0
  /\ poller' = "read"
  /\ UNCHANGED <<armed, expirations, alive, last, void, expired, ran>>

\* The read waits for an expiration.
Readable_mut == TRUE
Readable == expirations > 0

Read ==
  /\ poller = "read"
  /\ Readable
  /\ expirations' = 0
  /\ poller' = "run"
  /\ UNCHANGED <<armed, task, alive, last, void, expired, batch, running, ran>>

Run ==
  /\ poller = "run"
  /\ ran' = ran \cup {running}
  /\ running' = 0
  /\ poller' = "task"
  /\ UNCHANGED <<alarmVars, batch>>

\* Mutant: task_ is reset after its task has run.
TaskReturnsReset ==
  /\ poller = "task"
  /\ task' = 0
  /\ poller' = "batch"
  /\ UNCHANGED <<armed, expirations, alive, last, void, expired, batch, running, ran>>

TaskReturns ==
  /\ poller = "task"
  /\ poller' = "batch"
  /\ UNCHANGED <<alarmVars, batch, running, ran>>
-----------------------------------------------------------------------------
Thread == CollectBatch \/ BatchEmpty \/ ClientStarts \/ ClientReturns \/ OnFire \/ Read \/ Run \/ TaskReturns

AlarmNext == Schedule \/ Cancel \/ DestroyAlarm \/ Expire \/ Thread

AlarmSpec == AlarmInit /\ [][AlarmNext]_allAlarmVars

\* Delays end, and the thread goes on: a batch is finite, every event of it has its turn.
FairAlarmSpec == AlarmSpec /\ WF_allAlarmVars(Expire) /\ WF_allAlarmVars(Thread)
-----------------------------------------------------------------------------
\* on_fire starts a task only when the delay of that very task is over, at most once,
\* and never after it was cancelled, replaced by another Schedule, or destroyed with the
\* alarm.  A stale event of the batch cannot start the next task early, and a call on
\* another thread comes too late only for the task that on_fire has moved out of task_
\* and runs without the mutex.
RunsWhenDue ==
  [][ran' # ran => running \in expired \ (void \cup ran)]_allAlarmVars

\* A scheduled task is run, unless it is cancelled, replaced or destroyed.
ScheduledRuns ==
  \A t \in 1..MaxTasks : (last >= t) ~> (t \in ran \cup void)
=============================================================================
