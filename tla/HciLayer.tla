------------------------------ MODULE HciLayer ------------------------------
(***************************************************************************)
(* The command flow of hci::HciLayer (gd/hci/hci_layer.cc).                *)
(*                                                                         *)
(* Clients on any thread post commands to the handler of the layer.  The   *)
(* layer keeps them in command_queue_ and has one command at the           *)
(* controller at a time.  Every response carries the number of commands    *)
(* that the controller accepts from now on; a response without an op code  *)
(* carries nothing else.  Events come from the thread of the HAL and take  *)
(* two turns of the handler: on_hci_event, which Invokes (posts) the       *)
(* registered callback, and then that callback.                            *)
(*                                                                         *)
(* An alarm watches the command at the controller.  When it fires, or when *)
(* the controller reports a root inflammation, an abort alarm is started.  *)
(* The alarms are reactables of the handler's thread: they fire between    *)
(* two tasks of the handler (module Alarm has their own races).            *)
(***************************************************************************)
EXTENDS Naturals, Sequences

CONSTANTS
  ClientOps,     \* op codes of the clients' commands
  StatusOps,     \* those of them that are answered by a command status
  MaxCommands,   \* bound on the clients' commands
  MaxCredits,    \* bound on NumHciCommandPackets (a uint8_t)
  MaxEvents      \* bound on the tasks of the handler when the controller sends

NONE == "NONE"
RESET == "RESET"
DEBUG_INFO == "CONTROLLER_DEBUG_INFO"
Ops == ClientOps \cup {RESET, DEBUG_INFO}

ASSUME HciAssumption ==
  /\ StatusOps \subseteq ClientOps
  /\ ClientOps \cap {NONE, RESET, DEBUG_INFO} = {}
  /\ MaxCommands \in Nat /\ MaxCredits \in Nat \ {0} /\ MaxEvents \in Nat \ {0}

VARIABLES
  tasks,              \* the tasks of the handler
  command_queue,      \* command_queue_, the command at the controller in front
  waiting_command,    \* waiting_command_
  command_credits,    \* command_credits_
  hci_timeout_alarm,  \* "idle", "armed" or "deleted"
  hci_abort_alarm,    \* "none" or "armed"
  aborted,            \* an assertion failed
  controller,         \* commands the controller has and did not answer
  announced,          \* the last count the controller sent
  faulty,             \* it may be late, be silent or report an inflammation
  accepted,           \* number of commands posted, Reset included
  sent,               \* the commands handed to the HAL
  answered            \* callbacks invoked, with the command of the response

layerVars == <<command_queue, waiting_command, command_credits, hci_timeout_alarm,
               hci_abort_alarm, aborted, sent, answered>>
vars == <<tasks, layerVars, controller, announced, accepted, faulty>>

Command(id, op) == [id |-> id, op |-> op, view |-> FALSE]

\* The tasks: enqueue_command, on_hci_event, a callback of event_handlers_, and
\* fail_if_reset_complete_not_success with the op code of the completed command.
Enqueuing(c) == [type |-> "enqueue", command |-> c]
Event(ev) == [type |-> "event", event |-> ev]
Dispatch(ev) == [type |-> "dispatch", event |-> ev]
Check(op) == [type |-> "check", op |-> op]

\* What the controller sends; id identifies the command that is answered.
Response(c, n) ==
  [code |-> IF c.op \in StatusOps THEN "status" ELSE "complete", op |-> c.op, credits |-> n, id |-> c.id]
Nop(n) == [code |-> "complete", op |-> NONE, credits |-> n, id |-> 0]
Inflammation == [code |-> "vendor", op |-> NONE, credits |-> 0, id |-> 0]

\* Start: event handlers are registered and Reset is posted.
Init ==
  /\ tasks = <<Enqueuing(Command(1, RESET))>>
  /\ command_queue = <<>> /\ waiting_command = NONE /\ command_credits = 1
  /\ hci_timeout_alarm = "idle" /\ hci_abort_alarm = "none" /\ aborted = FALSE
  /\ controller = <<>> /\ announced = 1 /\ faulty \in BOOLEAN
  /\ accepted = 1 /\ sent = <<>> /\ answered = <<>>
-----------------------------------------------------------------------------
(* The clients and the controller.                                         *)

\* EnqueueCommand.
EnqueueCommand ==
  /\ ~aborted
  /\ accepted <= MaxCommands
  /\ \E op \in ClientOps :
       tasks' = Append(tasks, Enqueuing(Command(accepted + 1, op)))
  /\ accepted' = accepted + 1
  /\ UNCHANGED <<layerVars, controller, announced, faulty>>

\* hciEventReceived, on the thread of the HAL.
hciEventReceived(ev) == ~aborted /\ tasks' = Append(tasks, Event(ev))

Without(s, i) == SubSeq(s, 1, i - 1) \o SubSeq(s, i + 1, Len(s))

\* The controller answers a command, a late one included.
ControllerAnswers ==
  \E i \in DOMAIN controller, n \in 0..MaxCredits :
    /\ hciEventReceived(Response(controller[i], n))
    /\ controller' = Without(controller, i)
    /\ announced' = n
    /\ UNCHANGED <<layerVars, accepted, faulty>>

\* The controller changes the count without answering a command.
ControllerCredits ==
  \E n \in 0..MaxCredits \ {announced} :
    /\ Len(tasks) < MaxEvents
    /\ hciEventReceived(Nop(n))
    /\ announced' = n
    /\ UNCHANGED <<layerVars, controller, accepted, faulty>>

ControllerInflammation ==
  /\ faulty
  /\ Len(tasks) < MaxEvents
  /\ hciEventReceived(Inflammation)
  /\ UNCHANGED <<layerVars, controller, announced, accepted, faulty>>
-----------------------------------------------------------------------------
(* The handler.                                                            *)

\* The early returns of send_next_command.
Blocked_mut(queue, credits, waiting) == credits = 0 \/ queue = <<>>
Blocked_one(queue, credits, waiting) == credits <= 1 \/ waiting # NONE \/ queue = <<>>
Blocked(queue, credits, waiting) == credits = 0 \/ waiting # NONE \/ queue = <<>>

\* send_next_command, from given values of the variables it tests.
SendNextCommand(queue, credits, waiting, alarm) ==
  IF Blocked(queue, credits, waiting)
    THEN /\ command_queue' = queue
         /\ waiting_command' = waiting
         /\ command_credits' = credits
         /\ hci_timeout_alarm' = alarm
         /\ UNCHANGED <<controller, sent>>
    ELSE /\ command_queue' = [queue EXCEPT ![1].view = TRUE]
         /\ waiting_command' = Head(queue).op
         /\ command_credits' = 0
         /\ hci_timeout_alarm' = IF alarm = "deleted" THEN alarm ELSE "armed"
         /\ controller' = Append(controller, Head(queue))
         /\ sent' = Append(sent, Head(queue).id)

\* The handler takes its next task.
Takes(type) == ~aborted /\ tasks # <<>> /\ Head(tasks).type = type

\* command_queue_.emplace_back.
Queued_mut(c) == <<c>> \o command_queue
Queued(c) == Append(command_queue, c)

\* enqueue_command.
enqueue_command ==
  /\ Takes("enqueue")
  /\ SendNextCommand(Queued(Head(tasks).command), command_credits, waiting_command, hci_timeout_alarm)
  /\ tasks' = Tail(tasks)
  /\ UNCHANGED <<hci_abort_alarm, aborted, answered, announced, accepted, faulty>>

\* log_hci_event looks at the command in front when a response names an op code.
LogFindsCommand(ev) ==
  ev.code \in {"status", "complete"} /\ ev.op # NONE =>
    command_queue # <<>> /\ Head(command_queue).view

\* handle_root_inflammation.
handle_root_inflammation ==
  /\ hci_timeout_alarm' = "deleted"
  /\ hci_abort_alarm' = "armed"
  /\ tasks' = Tail(tasks)
  /\ UNCHANGED <<command_queue, waiting_command, command_credits, aborted, sent, answered>>

\* on_hci_event.
on_hci_event ==
  /\ Takes("event")
  /\ LET ev == Head(tasks).event IN
       \/ /\ ~LogFindsCommand(ev)
          /\ aborted' = TRUE
          /\ UNCHANGED <<tasks, command_queue, waiting_command, command_credits, hci_timeout_alarm,
                         hci_abort_alarm, sent, answered>>
       \/ /\ LogFindsCommand(ev)
          /\ ev.code = "vendor"
          /\ handle_root_inflammation
       \/ /\ LogFindsCommand(ev)
          /\ ev.code # "vendor"
          /\ tasks' = Append(Tail(tasks), Dispatch(ev))
          /\ UNCHANGED layerVars
  /\ UNCHANGED <<controller, announced, accepted, faulty>>

\* The three assertions of handle_command_response.
Expected(ev) ==
  /\ command_queue # <<>>
  /\ waiting_command = ev.op
  /\ (Head(command_queue).op \in StatusOps) = (ev.code = "status")

\* The callback of the command in front: the one of Reset and of the debug
\* information is fail_if_reset_complete_not_success, on this handler.
Invoked(c) == IF c.op \in {RESET, DEBUG_INFO} THEN <<Check(c.op)>> ELSE <<>>

\* handle_command_response for OpCode::NONE.
handle_nop ==
  /\ Takes("dispatch")
  /\ Head(tasks).event.op = NONE
  /\ SendNextCommand(command_queue, Head(tasks).event.credits, waiting_command, hci_timeout_alarm)
  /\ tasks' = Tail(tasks)
  /\ UNCHANGED <<hci_abort_alarm, aborted, answered, announced, accepted, faulty>>

\* hci_timeout_alarm_->Cancel().
Cancelled_mut == hci_timeout_alarm
Cancelled == "idle"

\* handle_command_response for a command.
handle_command_response ==
  /\ Takes("dispatch")
  /\ LET ev == Head(tasks).event IN
       /\ ev.op # NONE
       /\ Expected(ev)
       /\ answered' = Append(answered, <<Head(command_queue).id, ev.id>>)
       /\ tasks' = Tail(tasks) \o Invoked(Head(command_queue))
       /\ IF hci_timeout_alarm # "deleted"
            THEN SendNextCommand(Tail(command_queue), ev.credits, NONE, Cancelled)
            ELSE /\ command_queue' = Tail(command_queue)
                 /\ waiting_command' = NONE
                 /\ command_credits' = ev.credits
                 /\ UNCHANGED <<hci_timeout_alarm, controller, sent>>
  /\ UNCHANGED <<hci_abort_alarm, aborted, announced, accepted, faulty>>

\* ... and one of its assertions fails.
unexpected_response ==
  /\ Takes("dispatch")
  /\ Head(tasks).event.op # NONE
  /\ ~Expected(Head(tasks).event)
  /\ aborted' = TRUE
  /\ UNCHANGED <<tasks, command_queue, waiting_command, command_credits, hci_timeout_alarm,
                 hci_abort_alarm, sent, answered, controller, announced, accepted, faulty>>

\* fail_if_reset_complete_not_success: the view of a ControllerDebugInfo completion is
\* not a valid ResetCompleteView.
fail_if_reset_complete_not_success ==
  /\ Takes("check")
  /\ aborted' = (Head(tasks).op # RESET)
  /\ tasks' = Tail(tasks)
  /\ UNCHANGED <<command_queue, waiting_command, command_credits, hci_timeout_alarm,
                 hci_abort_alarm, sent, answered, controller, announced, accepted, faulty>>
-----------------------------------------------------------------------------
(* The alarms.                                                             *)

\* hci_abort_alarm_->Schedule.
ScheduleAbort_mut == UNCHANGED hci_abort_alarm
ScheduleAbort == hci_abort_alarm' = "armed"

\* on_hci_timeout: the queue is flushed, the debug information is asked for, and
\* the alarm that SendNextCommand armed for it is cancelled and deleted.
on_hci_timeout ==
  /\ faulty
  /\ ~aborted
  /\ hci_timeout_alarm = "armed"
  /\ SendNextCommand(<<Command(0, DEBUG_INFO)>>, 1, NONE, "deleted")
  /\ ScheduleAbort
  /\ UNCHANGED <<tasks, aborted, answered, announced, accepted, faulty>>

\* abort_after_time_out, abort_after_root_inflammation.
abort ==
  /\ hci_abort_alarm = "armed"
  /\ ~aborted
  /\ aborted' = TRUE
  /\ UNCHANGED <<tasks, command_queue, waiting_command, command_credits, hci_timeout_alarm,
                 hci_abort_alarm, sent, answered, controller, announced, accepted, faulty>>
-----------------------------------------------------------------------------
HandlerRuns ==
  \/ enqueue_command \/ on_hci_event \/ handle_nop \/ handle_command_response
  \/ unexpected_response \/ fail_if_reset_complete_not_success

Next ==
  \/ EnqueueCommand
  \/ ControllerAnswers \/ ControllerCredits \/ ControllerInflammation
  \/ HandlerRuns
  \/ on_hci_timeout \/ abort

Spec == Init /\ [][Next]_vars

\* The handler's thread runs, alarms fire, and the controller does not keep the count
\* at 0 for ever.
Running ==
  /\ WF_vars(HandlerRuns) /\ WF_vars(on_hci_timeout) /\ WF_vars(abort)
  /\ WF_vars(announced = 0 /\ ControllerCredits)

\* A controller without faults answers, too; a faulty one may not.
FairSpec == Spec /\ Running /\ WF_vars(~faulty /\ ControllerAnswers)
-----------------------------------------------------------------------------
\* Commands go to the controller in the order in which they were posted, each when the
\* one before was answered ("Only allow one outstanding command"), and each callback is
\* invoked once, with the response to its own command, when the controller has no faults.
ServedInOrder ==
  ~faulty =>
    /\ \A k \in DOMAIN sent : sent[k] = k
    /\ \A k \in DOMAIN answered : answered[k] = <<k, k>>
    /\ Len(answered) <= Len(sent) /\ Len(sent) <= Len(answered) + 1
    /\ Len(controller) <= 1

\* When the handler comes to a response, the command it answers is in front of the queue
\* and was sent, as log_hci_event and the assertions of handle_command_response demand,
\* when the controller has no faults.
ResponsesAreExpected ==
  ~faulty /\ ~aborted /\ tasks # <<>> =>
    /\ Head(tasks).type = "event" => LogFindsCommand(Head(tasks).event)
    /\ Head(tasks).type = "dispatch" /\ Head(tasks).event.op # NONE => Expected(Head(tasks).event)

\* The timeout alarm runs exactly while a command is at the controller, unless it was
\* deleted because an abort is coming: no command hangs, and none times out when
\* nothing is awaited.
OutstandingIsWatched ==
  hci_timeout_alarm # "deleted" => (hci_timeout_alarm = "armed" <=> waiting_command # NONE)

\* The clients wait for the response to a command.
Served == {answered[i][1] : i \in DOMAIN answered}
Awaited == ~(1..accepted \subseteq Served)

\* Every command is answered, if the controller answers and does not stay at 0 credits.
AllAnswered == (~faulty /\ Awaited) ~> ~Awaited

\* Whatever the controller fails to answer, every command is answered or the process
\* aborts, so that a hanging controller is restarted.
AnsweredOrAborted == Awaited ~> (aborted \/ ~Awaited)
=============================================================================
