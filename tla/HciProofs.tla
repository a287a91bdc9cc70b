----------------------------- MODULE HciProofs -----------------------------
(***************************************************************************)
(* Proofs about HciLayer for every set of op codes, any number of commands *)
(* and of command credits.                                                 *)
(***************************************************************************)
EXTENDS HciLayer, SequenceTheorems, TLAPS

Commands == [id : Nat, op : Ops, view : BOOLEAN]
Events == [code : {"status", "complete", "vendor"}, op : Ops \cup {NONE}, credits : Nat, id : Nat]
Tasks == [type : {"enqueue"}, command : Commands] \cup [type : {"event", "dispatch"}, event : Events]
           \cup [type : {"check"}, op : {RESET, DEBUG_INFO}]

\* Types.
Types ==
  /\ tasks \in Seq(Tasks)
  /\ command_queue \in Seq(Commands) /\ controller \in Seq(Commands)
  /\ accepted \in Nat

\* A task of the handler that carries the response to a command, and one that carries
\* the response to the command with op code w.
IsResponse(t) == t.type \in {"event", "dispatch"} /\ t.event.op # NONE
Answers(t, w) ==
  /\ t.type \in {"event", "dispatch"} /\ t.event.op = w
  /\ t.event.code = IF w \in StatusOps THEN "status" ELSE "complete"

\* No response is on its way to the handler; or one, to the command with op code w.
NoResponse(ts) == \A i \in 1..Len(ts) : ~IsResponse(ts[i])
OneResponse(ts, w) ==
  \E i \in 1..Len(ts) : Answers(ts[i], w) /\ \A j \in 1..Len(ts) : j # i => ~IsResponse(ts[j])

\* What a controller without faults never makes the layer do.
Calm(t) ==
  /\ t.type = "enqueue" => t.command.op # DEBUG_INFO
  /\ t.type \in {"event", "dispatch"} => t.event.code # "vendor"
  /\ t.type = "check" => t.op = RESET

\* The command that is waited for is in front of the queue, and either the controller has
\* it or one response to it is on its way; if none is waited for, there is neither.
OneOutstanding ==
  \/ waiting_command = NONE /\ controller = <<>> /\ NoResponse(tasks)
  \/ /\ waiting_command # NONE
     /\ command_queue # <<>> /\ Head(command_queue).op = waiting_command /\ Head(command_queue).view
     /\ \/ Len(controller) = 1 /\ controller[1].op = waiting_command /\ NoResponse(tasks)
        \/ controller = <<>> /\ OneResponse(tasks, waiting_command)

\* With a controller without faults nothing is ever given up.
FaultFree ==
  ~faulty =>
    /\ ~aborted /\ hci_timeout_alarm # "deleted" /\ hci_abort_alarm = "none"
    /\ \A i \in 1..Len(tasks) : Calm(tasks[i])
    /\ \A i \in 1..Len(command_queue) : command_queue[i].op # DEBUG_INFO
    /\ OneOutstanding

\* The inductive invariant.
IInv == Types /\ OutstandingIsWatched /\ FaultFree
-----------------------------------------------------------------------------
(* Op codes, commands and tasks.                                           *)

\* NONE is not the op code of a command.
LEMMA NoneIsNoOp == NONE \notin Ops /\ RESET # DEBUG_INFO /\ DEBUG_INFO \notin ClientOps
BY HciAssumption, Zenon DEF Ops, NONE, RESET, DEBUG_INFO

\* The constructors of tasks build tasks.
LEMMA TaskTypes ==
  /\ \A id \in Nat, op \in Ops : Command(id, op) \in Commands
  /\ \A c \in Commands : Enqueuing(c) \in Tasks
  /\ \A ev \in Events : Event(ev) \in Tasks /\ Dispatch(ev) \in Tasks
  /\ \A op \in {RESET, DEBUG_INFO} : Check(op) \in Tasks
<1>1. \A id \in Nat, op \in Ops : Command(id, op) \in Commands
  BY Zenon DEF Command, Commands
<1>2. \A c \in Commands : Enqueuing(c) \in Tasks
  BY Zenon DEF Enqueuing, Tasks
<1>3. \A ev \in Events : Event(ev) \in Tasks /\ Dispatch(ev) \in Tasks
  BY Zenon DEF Event, Dispatch, Tasks
<1>4. \A op \in {RESET, DEBUG_INFO} : Check(op) \in Tasks
  BY Zenon DEF Check, Tasks
<1> QED BY <1>1, <1>2, <1>3, <1>4, Zenon

\* The events of the controller are events.
LEMMA EventTypes ==
  /\ \A c \in Commands, n \in Nat : Response(c, n) \in Events
  /\ \A n \in Nat : Nop(n) \in Events
  /\ Inflammation \in Events
BY Zenon DEF Response, Nop, Inflammation, Events, Commands

\* What a task of a type holds.
LEMMA TaskFields ==
  ASSUME NEW t \in Tasks
  PROVE  /\ t.type = "enqueue" => t.command \in Commands
         /\ t.type \in {"event", "dispatch"} => t.event \in Events
BY Zenon DEF Tasks
-----------------------------------------------------------------------------
(* The tasks of the handler as a queue.                                    *)

\* The tasks without the first.
LEMMA TakenTasks ==
  ASSUME NEW ts \in Seq(Tasks), ts # <<>>
  PROVE  /\ Head(ts) = ts[1] /\ 1 \in 1..Len(ts) /\ Head(ts) \in Tasks
         /\ Tail(ts) \in Seq(Tasks) /\ Len(Tail(ts)) = Len(ts) - 1
         /\ \A i \in 1..Len(ts) - 1 : Tail(ts)[i] = ts[i + 1]
<1>1. Len(ts) \in Nat \ {0}
  BY EmptySeq, Zenon
<1> QED BY <1>1, HeadTailProperties

\* A response is taken from the tasks.
LEMMA ResponseTaken ==
  ASSUME NEW ts \in Seq(Tasks), ts # <<>>, NEW w, w # NONE
  PROVE  /\ NoResponse(ts) => NoResponse(Tail(ts)) /\ ~IsResponse(Head(ts))
         /\ OneResponse(ts, w) /\ ~IsResponse(Head(ts)) => OneResponse(Tail(ts), w)
         /\ OneResponse(ts, w) /\ IsResponse(Head(ts)) => NoResponse(Tail(ts)) /\ Answers(Head(ts), w)
<1> DEFINE tl == Tail(ts)
<1>1. /\ Head(ts) = ts[1] /\ 1 \in 1..Len(ts) /\ Len(ts) \in Nat
      /\ Len(tl) = Len(ts) - 1 /\ \A i \in 1..Len(ts) - 1 : tl[i] = ts[i + 1]
  BY TakenTasks
<1> HIDE DEF tl
<1>2. NoResponse(ts) => NoResponse(tl) /\ ~IsResponse(Head(ts))
  BY <1>1 DEF NoResponse
<1>3. ASSUME OneResponse(ts, w), ~IsResponse(Head(ts))
      PROVE  OneResponse(tl, w)
  <2>1. PICK i \in 1..Len(ts) : Answers(ts[i], w) /\ \A j \in 1..Len(ts) : j # i => ~IsResponse(ts[j])
    BY <1>3, Zenon DEF OneResponse
  <2>2. i # 1
    BY <1>1, <1>3, <2>1, Zenon DEF Answers, IsResponse
  <2>3. i - 1 \in 1..Len(tl) /\ tl[i - 1] = ts[i]
    BY <1>1, <2>2
  <2>4. \A j \in 1..Len(tl) : j # i - 1 => ~IsResponse(tl[j])
    BY <1>1, <2>1
  <2> QED BY <2>1, <2>3, <2>4, Zenon DEF OneResponse
<1>4. ASSUME OneResponse(ts, w), IsResponse(Head(ts))
      PROVE  NoResponse(tl) /\ Answers(Head(ts), w)
  <2>1. PICK i \in 1..Len(ts) : Answers(ts[i], w) /\ \A j \in 1..Len(ts) : j # i => ~IsResponse(ts[j])
    BY <1>4, Zenon DEF OneResponse
  <2>2. i = 1
    BY <1>1, <1>4, <2>1, Zenon
  <2> QED BY <1>1, <2>1, <2>2 DEF NoResponse
<1> QED BY <1>2, <1>3, <1>4, Zenon DEF tl

\* A task is added to the tasks.
LEMMA TaskAdded ==
  ASSUME NEW ts \in Seq(Tasks), NEW t \in Tasks, NEW w
  PROVE  /\ Append(ts, t) \in Seq(Tasks)
         /\ (\A i \in 1..Len(ts) : Calm(ts[i])) /\ Calm(t) =>
              \A i \in 1..Len(Append(ts, t)) : Calm(Append(ts, t)[i])
         /\ NoResponse(ts) /\ ~IsResponse(t) => NoResponse(Append(ts, t))
         /\ NoResponse(ts) /\ Answers(t, w) => OneResponse(Append(ts, t), w)
         /\ OneResponse(ts, w) /\ ~IsResponse(t) => OneResponse(Append(ts, t), w)
<1> DEFINE a == Append(ts, t)
<1>1. /\ a \in Seq(Tasks) /\ Len(ts) \in Nat /\ Len(a) = Len(ts) + 1
      /\ a[Len(ts) + 1] = t /\ \A i \in 1..Len(ts) : a[i] = ts[i]
  BY AppendProperties, LenProperties
<1> HIDE DEF a
<1>2. \A i \in 1..Len(a) : i \in 1..Len(ts) \/ i = Len(ts) + 1
  BY <1>1
<1>3. (\A i \in 1..Len(ts) : Calm(ts[i])) /\ Calm(t) => \A i \in 1..Len(a) : Calm(a[i])
  BY <1>1, <1>2, Zenon
<1>4. NoResponse(ts) /\ ~IsResponse(t) => NoResponse(a)
  BY <1>1, <1>2, Zenon DEF NoResponse
<1>5. NoResponse(ts) /\ Answers(t, w) => OneResponse(a, w)
  BY <1>1, <1>2 DEF NoResponse, OneResponse
<1>6. ASSUME OneResponse(ts, w), ~IsResponse(t) PROVE OneResponse(a, w)
  <2>1. PICK i \in 1..Len(ts) : Answers(ts[i], w) /\ \A j \in 1..Len(ts) : j # i => ~IsResponse(ts[j])
    BY <1>6, Zenon DEF OneResponse
  <2>2. i \in 1..Len(a) /\ a[i] = ts[i]
    BY <1>1
  <2>3. \A j \in 1..Len(a) : j # i => ~IsResponse(a[j])
    BY <1>1, <1>2, <1>6, <2>1, Zenon
  <2> QED BY <2>1, <2>2, <2>3, Zenon DEF OneResponse
<1> QED BY <1>1, <1>3, <1>4, <1>5, <1>6, Zenon DEF a

\* send_next_command keeps commands in its queue; when it sends one, that is waited for, is
\* watched, and is at the controller.
LEMMA SendNext ==
  ASSUME NEW q \in Seq(Commands), NEW cr, NEW w, NEW alarm, controller \in Seq(Commands),
         SendNextCommand(q, cr, w, alarm)
  PROVE  /\ command_queue' \in Seq(Commands) /\ Len(command_queue') = Len(q)
         /\ \A i \in 1..Len(q) : command_queue'[i].id = q[i].id /\ command_queue'[i].op = q[i].op
         /\ controller' \in Seq(Commands)
         /\ \/ /\ Blocked(q, cr, w)
               /\ command_queue' = q /\ waiting_command' = w /\ hci_timeout_alarm' = alarm
               /\ controller' = controller /\ sent' = sent
            \/ /\ w = NONE /\ q # <<>>
               /\ waiting_command' # NONE /\ waiting_command' = Head(q).op
               /\ command_queue' # <<>>
               /\ Head(command_queue').op = waiting_command' /\ Head(command_queue').view
               /\ hci_timeout_alarm' = (IF alarm = "deleted" THEN "deleted" ELSE "armed")
               /\ controller' = Append(controller, Head(q)) /\ sent' = Append(sent, Head(q).id)
<1>1. CASE Blocked(q, cr, w)
  BY <1>1, Zenon DEF SendNextCommand
<1>2. CASE ~Blocked(q, cr, w)
  <2>1. w = NONE /\ q # <<>> /\ Len(q) \in Nat \ {0} /\ Head(q) = q[1] /\ q[1] \in Commands
    <3>1. w = NONE /\ q # <<>>
      BY <1>2, Zenon DEF Blocked
    <3>2. Len(q) \in Nat \ {0}
      BY <3>1, EmptySeq, Zenon
    <3> QED BY <3>1, <3>2
  <2> DEFINE c == [q[1] EXCEPT !.view = TRUE]
  <2>2. c \in Commands /\ c.id = q[1].id /\ c.op = q[1].op /\ c.view
    BY <2>1, Zenon DEF Commands
  <2>3. /\ command_queue' = [q EXCEPT ![1] = c]
        /\ waiting_command' = q[1].op
        /\ hci_timeout_alarm' = (IF alarm = "deleted" THEN "deleted" ELSE "armed")
        /\ controller' = Append(controller, q[1]) /\ sent' = Append(sent, q[1].id)
    BY <1>2, <2>1, Zenon DEF SendNextCommand
  <2> HIDE DEF c
  <2>4. /\ command_queue' \in Seq(Commands) /\ Len(command_queue') = Len(q)
        /\ \A i \in 1..Len(q) : command_queue'[i] = IF i = 1 THEN c ELSE q[i]
    BY <2>1, <2>2, <2>3, ExceptSeq
  <2>5. command_queue' # <<>> /\ Head(command_queue') = c
    BY <2>1, <2>4, EmptySeq
  <2>6. q[1].op \in Ops
    BY <2>1, Zenon DEF Commands
  <2>7. controller' \in Seq(Commands)
    BY <2>1, <2>3, AppendProperties, Zenon
  <2>8. \A i \in 1..Len(q) : command_queue'[i].id = q[i].id /\ command_queue'[i].op = q[i].op
    BY <2>2, <2>4, Zenon
  <2> QED BY <2>1, <2>2, <2>3, <2>4, <2>5, <2>6, <2>7, <2>8, NoneIsNoOp, Zenon
<1> QED BY <1>1, <1>2, Zenon
-----------------------------------------------------------------------------
(* The inductive invariant.                                                *)

\* It holds when Start has posted Reset.
LEMMA InitIInv == Init => IInv
<1> SUFFICES ASSUME Init PROVE IInv
  BY Zenon
<1> DEFINE t == Enqueuing(Command(1, RESET))
<1>1. t \in Tasks /\ Calm(t) /\ ~IsResponse(t)
  <2>1. t \in Tasks
    BY TaskTypes, Zenon DEF Ops
  <2>2. t.type = "enqueue" /\ t.command.op = RESET
    BY Zenon DEF Enqueuing, Command
  <2> QED BY <2>1, <2>2, NoneIsNoOp, Zenon DEF Calm, IsResponse
<1>2. tasks = <<t>> /\ command_queue = <<>> /\ controller = <<>> /\ accepted = 1
  BY Zenon DEF Init
<1> HIDE DEF t
<1>3. tasks \in Seq(Tasks) /\ Len(tasks) = 1 /\ tasks[1] = t
  BY <1>1, <1>2
<1>4. Types
  BY <1>2, <1>3 DEF Types
<1>5. OutstandingIsWatched
  BY Zenon DEF Init, OutstandingIsWatched
<1>6. FaultFree
  BY <1>1, <1>2, <1>3 DEF Init, FaultFree, OneOutstanding, NoResponse
<1> QED BY <1>4, <1>5, <1>6, Zenon DEF IInv

\* A task that is no response is added, and nothing else happens.
LEMMA AddsTask ==
  ASSUME IInv, NEW t \in Tasks, ~faulty => Calm(t) /\ ~IsResponse(t),
         tasks' = Append(tasks, t), accepted' \in Nat,
         UNCHANGED <<layerVars, controller, faulty>>
  PROVE  IInv'
<1>1. tasks \in Seq(Tasks)
  BY Zenon DEF IInv, Types
<1>2. Types'
  BY <1>1, TaskAdded, Zenon DEF IInv, Types, layerVars
<1>3. OutstandingIsWatched'
  BY Zenon DEF IInv, OutstandingIsWatched, layerVars
<1>4. ASSUME ~faulty PROVE FaultFree'
  <2>1. (\A i \in 1..Len(tasks) : Calm(tasks[i])) => \A i \in 1..Len(tasks') : Calm(tasks'[i])
    BY <1>1, <1>4, TaskAdded, Zenon
  <2>2. NoResponse(tasks) => NoResponse(tasks')
    BY <1>1, <1>4, TaskAdded, Zenon
  <2>3. OneResponse(tasks, waiting_command) => OneResponse(tasks', waiting_command)
    BY <1>1, <1>4, TaskAdded, Zenon
  <2>4. OneOutstanding => OneOutstanding'
    BY <2>2, <2>3, Zenon DEF OneOutstanding, layerVars
  <2> QED BY <1>4, <2>1, <2>4, Zenon DEF IInv, FaultFree, layerVars
<1> QED BY <1>2, <1>3, <1>4, Zenon DEF IInv, FaultFree

\* A client posts a command.
LEMMA EnqueueCommandIInv == IInv /\ EnqueueCommand => IInv'
<1> SUFFICES ASSUME IInv, EnqueueCommand PROVE IInv'
  BY Zenon
<1>1. accepted \in Nat
  BY Zenon DEF IInv, Types
<1>2. PICK op \in ClientOps : tasks' = Append(tasks, Enqueuing(Command(accepted + 1, op)))
  BY Zenon DEF EnqueueCommand
<1> DEFINE t == Enqueuing(Command(accepted + 1, op))
<1>3. t \in Tasks
  BY <1>1, TaskTypes DEF Ops
<1>4. t.type = "enqueue" /\ t.command.op = op
  BY Zenon DEF Enqueuing, Command
<1>5. Calm(t) /\ ~IsResponse(t)
  BY <1>4, NoneIsNoOp, Zenon DEF Calm, IsResponse
<1> QED BY <1>1, <1>2, <1>3, <1>5, AddsTask DEF EnqueueCommand

\* The controller sends a count or reports an inflammation.
LEMMA ControllerReportsIInv == IInv /\ (ControllerCredits \/ ControllerInflammation) => IInv'
<1> SUFFICES ASSUME IInv, ControllerCredits \/ ControllerInflammation PROVE IInv'
  BY Zenon
<1>1. accepted \in Nat
  BY Zenon DEF IInv, Types
<1>2. CASE ControllerCredits
  <2>1. PICK n \in 0..MaxCredits : tasks' = Append(tasks, Event(Nop(n)))
    BY <1>2, Zenon DEF ControllerCredits, hciEventReceived
  <2>2. n \in Nat
    BY HciAssumption
  <2> DEFINE t == Event(Nop(n))
  <2>3. t \in Tasks
    BY <2>2, TaskTypes, EventTypes, Zenon
  <2>4. Calm(t) /\ ~IsResponse(t)
    BY Zenon DEF Event, Nop, Calm, IsResponse
  <2> QED BY <1>1, <1>2, <2>1, <2>3, <2>4, AddsTask, Zenon DEF ControllerCredits
<1>3. CASE ControllerInflammation
  <2>1. tasks' = Append(tasks, Event(Inflammation)) /\ Event(Inflammation) \in Tasks
    BY <1>3, TaskTypes, EventTypes, Zenon DEF ControllerInflammation, hciEventReceived
  <2> QED BY <1>1, <1>3, <2>1, AddsTask, Zenon DEF ControllerInflammation
<1> QED BY <1>2, <1>3, Zenon

\* A command is taken out of a sequence of commands.
LEMMA CommandRemoved ==
  ASSUME NEW cs \in Seq(Commands), NEW i \in 1..Len(cs)
  PROVE  Without(cs, i) \in Seq(Commands) /\ (Len(cs) = 1 => Without(cs, i) = <<>>)
<1>1. Len(cs) \in Nat /\ \A j \in 1..Len(cs) : cs[j] \in Commands
  BY LenProperties, ElementOfSeq, Zenon
<1>2. SubSeq(cs, 1, i - 1) \in Seq(Commands)
  BY <1>1, SubSeqProperties
<1>3. SubSeq(cs, i + 1, Len(cs)) \in Seq(Commands)
  BY <1>1, SubSeqProperties
<1>4. Without(cs, i) \in Seq(Commands)
  BY <1>2, <1>3, ConcatProperties, Zenon DEF Without
<1>5. ASSUME Len(cs) = 1 PROVE Without(cs, i) = <<>>
  <2>1. SubSeq(cs, 1, i - 1) = <<>> /\ SubSeq(cs, i + 1, Len(cs)) = <<>>
    BY <1>5, SubSeqEmpty
  <2> QED BY <2>1 DEF Without
<1> QED BY <1>4, <1>5, Zenon

\* The controller answers a command.
LEMMA ControllerAnswersIInv == IInv /\ ControllerAnswers => IInv'
<1> SUFFICES ASSUME IInv, ControllerAnswers PROVE IInv'
  BY Zenon
<1>1. tasks \in Seq(Tasks) /\ controller \in Seq(Commands)
  BY Zenon DEF IInv, Types
<1>2. PICK i \in DOMAIN controller, n \in 0..MaxCredits :
        tasks' = Append(tasks, Event(Response(controller[i], n))) /\ controller' = Without(controller, i)
  BY Zenon DEF ControllerAnswers, hciEventReceived
<1>3. i \in 1..Len(controller) /\ controller[i] \in Commands /\ n \in Nat
  BY <1>1, HciAssumption, LenProperties
<1> DEFINE c == controller[i]
           t == Event(Response(c, n))
<1>4. t \in Tasks
  BY <1>3, TaskTypes, EventTypes, Zenon
<1>5. Calm(t) /\ Answers(t, c.op)
  BY Zenon DEF Event, Response, Calm, Answers
<1>6. UNCHANGED <<layerVars, accepted, faulty>>
  BY Zenon DEF ControllerAnswers
<1>7. tasks' \in Seq(Tasks) /\ controller' \in Seq(Commands)
  BY <1>1, <1>2, <1>3, <1>4, TaskAdded, CommandRemoved, SMTT(30)
<1>8. Types'
  BY <1>6, <1>7, Zenon DEF IInv, Types, layerVars
<1>9. OutstandingIsWatched'
  BY <1>6, Zenon DEF IInv, OutstandingIsWatched, layerVars
<1>10. ASSUME ~faulty PROVE FaultFree'
  <2>1. /\ Len(controller) = 1 /\ controller[1].op = waiting_command /\ NoResponse(tasks)
        /\ waiting_command # NONE
        /\ command_queue # <<>> /\ Head(command_queue).op = waiting_command /\ Head(command_queue).view
    <3>1. controller # <<>>
      BY <1>3
    <3> QED BY <1>10, <3>1, Zenon DEF IInv, FaultFree, OneOutstanding
  <2>2. i = 1 /\ c.op = waiting_command /\ controller' = <<>>
    <3>1. i = 1
      BY <1>3, <2>1
    <3>2. Without(controller, i) = <<>>
      BY <1>1, <1>3, <2>1, CommandRemoved, Zenon
    <3> QED BY <1>2, <2>1, <3>1, <3>2, Zenon
  <2> HIDE DEF t, c
  <2>3. OneResponse(tasks', waiting_command)
    BY <1>1, <1>2, <1>4, <1>5, <2>1, <2>2, TaskAdded, Zenon DEF c, t
  <2>4. \A j \in 1..Len(tasks') : Calm(tasks'[j])
    BY <1>1, <1>2, <1>4, <1>5, <1>10, TaskAdded, SMTT(30) DEF c, t, IInv, FaultFree
  <2> QED BY <1>6, <1>10, <2>1, <2>2, <2>3, <2>4, Zenon DEF IInv, FaultFree, OneOutstanding, layerVars
<1> QED BY <1>6, <1>8, <1>9, <1>10, Zenon DEF IInv, FaultFree

\* The tasks after the first was taken.
LEMMA TakenIInv ==
  ASSUME IInv, tasks # <<>>
  PROVE  /\ Head(tasks) \in Tasks /\ Tail(tasks) \in Seq(Tasks)
         /\ ~faulty => /\ Calm(Head(tasks)) /\ \A i \in 1..Len(Tail(tasks)) : Calm(Tail(tasks)[i])
                       /\ NoResponse(tasks) => NoResponse(Tail(tasks)) /\ ~IsResponse(Head(tasks))
<1>1. tasks \in Seq(Tasks)
  BY Zenon DEF IInv, Types
<1>2. /\ Head(tasks) = tasks[1] /\ 1 \in 1..Len(tasks) /\ Head(tasks) \in Tasks
      /\ Tail(tasks) \in Seq(Tasks) /\ Len(Tail(tasks)) = Len(tasks) - 1 /\ Len(tasks) \in Nat
      /\ \A i \in 1..Len(tasks) - 1 : Tail(tasks)[i] = tasks[i + 1]
  BY <1>1, TakenTasks
<1>3. NoResponse(tasks) => NoResponse(Tail(tasks)) /\ ~IsResponse(Head(tasks))
  <2>1. RESET # NONE
    BY Zenon DEF RESET, NONE
  <2> QED BY <1>1, <2>1, ResponseTaken, Zenon
<1>4. ASSUME ~faulty PROVE Calm(Head(tasks)) /\ \A i \in 1..Len(Tail(tasks)) : Calm(Tail(tasks)[i])
  <2>1. \A i \in 1..Len(tasks) : Calm(tasks[i])
    BY <1>4, Zenon DEF IInv, FaultFree
  <2> DEFINE tl == Tail(tasks)
  <2>2. \A i \in 1..Len(tl) : tl[i] = tasks[i + 1] /\ i + 1 \in 1..Len(tasks)
    BY <1>2
  <2> HIDE DEF tl
  <2>3. \A i \in 1..Len(tl) : Calm(tl[i])
    BY <2>1, <2>2, Zenon
  <2> QED BY <1>2, <2>1, <2>3, Zenon DEF tl
<1> QED BY <1>2, <1>3, <1>4, Zenon

\* Two facts about the response that is awaited, when the task in front is taken.
LEMMA TakenOutstanding ==
  ASSUME IInv, tasks # <<>>, ~faulty
  PROVE  /\ ~IsResponse(Head(tasks)) /\ OneResponse(tasks, waiting_command) /\ waiting_command # NONE =>
              OneResponse(Tail(tasks), waiting_command)
         /\ IsResponse(Head(tasks)) =>
              /\ waiting_command # NONE /\ controller = <<>> /\ NoResponse(Tail(tasks))
              /\ Answers(Head(tasks), waiting_command)
              /\ command_queue # <<>> /\ Head(command_queue).op = waiting_command /\ Head(command_queue).view
<1>1. tasks \in Seq(Tasks)
  BY Zenon DEF IInv, Types
<1>2. ~IsResponse(Head(tasks)) /\ OneResponse(tasks, waiting_command) /\ waiting_command # NONE =>
        OneResponse(Tail(tasks), waiting_command)
  BY <1>1, ResponseTaken, Zenon
<1>3. ASSUME IsResponse(Head(tasks))
      PROVE  /\ waiting_command # NONE /\ controller = <<>> /\ NoResponse(Tail(tasks))
             /\ Answers(Head(tasks), waiting_command)
             /\ command_queue # <<>> /\ Head(command_queue).op = waiting_command /\ Head(command_queue).view
  <2>1. ~NoResponse(tasks)
    BY <1>3, TakenIInv, Zenon
  <2>2. /\ waiting_command # NONE /\ controller = <<>> /\ OneResponse(tasks, waiting_command)
        /\ command_queue # <<>> /\ Head(command_queue).op = waiting_command /\ Head(command_queue).view
    BY <2>1, Zenon DEF IInv, FaultFree, OneOutstanding
  <2> QED BY <1>1, <1>3, <2>2, ResponseTaken, Zenon
<1> QED BY <1>2, <1>3, Zenon

\* The handler takes a task that is no response and calls send_next_command, with the queue
\* q and the credits cr.
LEMMA SendsNext ==
  ASSUME IInv, NEW q \in Seq(Commands), NEW cr, tasks # <<>>, tasks' = Tail(tasks),
         ~faulty => ~IsResponse(Head(tasks)),
         ~faulty => \A i \in 1..Len(q) : q[i].op # DEBUG_INFO,
         command_queue # <<>> => q # <<>> /\ Head(q) = Head(command_queue),
         SendNextCommand(q, cr, waiting_command, hci_timeout_alarm),
         UNCHANGED <<hci_abort_alarm, aborted, faulty, accepted>>
  PROVE  IInv'
<1>1. tasks \in Seq(Tasks) /\ controller \in Seq(Commands) /\ accepted \in Nat
  BY Zenon DEF IInv, Types
<1>2. /\ command_queue' \in Seq(Commands) /\ Len(command_queue') = Len(q)
      /\ \A i \in 1..Len(q) : command_queue'[i].op = q[i].op
      /\ controller' \in Seq(Commands)
  BY <1>1, SendNext, Zenon
<1>3. Types'
  BY <1>1, <1>2, TakenIInv, Zenon DEF Types
<1>4. OutstandingIsWatched'
  BY <1>1, SendNext, Zenon DEF IInv, OutstandingIsWatched
<1>5. ASSUME ~faulty PROVE FaultFree'
  <2>1. \A i \in 1..Len(tasks') : Calm(tasks'[i])
    BY <1>5, TakenIInv, Zenon
  <2>2. /\ NoResponse(tasks) => NoResponse(tasks')
        /\ OneResponse(tasks, waiting_command) /\ waiting_command # NONE => OneResponse(tasks', waiting_command)
    BY <1>5, TakenIInv, TakenOutstanding, Zenon
  <2>3. \A i \in 1..Len(command_queue') : command_queue'[i].op # DEBUG_INFO
    BY <1>2, <1>5, Zenon
  <2>4. hci_timeout_alarm' # "deleted"
    BY <1>1, <1>5, SendNext DEF IInv, FaultFree
  <2>5. OneOutstanding'
    <3>1. CASE waiting_command # NONE
      <4>1. /\ command_queue' = q /\ waiting_command' = waiting_command /\ controller' = controller
        BY <1>1, <3>1, SendNext
      <4> QED BY <1>5, <2>2, <3>1, <4>1, Zenon DEF IInv, FaultFree, OneOutstanding
    <3>2. CASE waiting_command = NONE
      <4>1. controller = <<>> /\ NoResponse(tasks')
        BY <1>5, <2>2, <3>2, Zenon DEF IInv, FaultFree, OneOutstanding
      <4>2. \/ waiting_command' = NONE /\ controller' = controller
            \/ /\ q # <<>>
               /\ waiting_command' # NONE /\ waiting_command' = Head(q).op
               /\ command_queue' # <<>>
               /\ Head(command_queue').op = waiting_command' /\ Head(command_queue').view
               /\ controller' = Append(controller, Head(q))
        BY <1>1, <3>2, SendNext, Zenon
      <4>3. Append(<<>>, Head(q)) = <<Head(q)>> /\ Len(<<Head(q)>>) = 1 /\ <<Head(q)>>[1] = Head(q)
        OBVIOUS
      <4> QED BY <4>1, <4>2, <4>3, Zenon DEF OneOutstanding
    <3> QED BY <3>1, <3>2, Zenon
  <2> QED BY <1>5, <2>1, <2>3, <2>4, <2>5, Zenon DEF IInv, FaultFree
<1> QED BY <1>3, <1>4, <1>5, Zenon DEF IInv, FaultFree

\* enqueue_command.
LEMMA EnqueueIInv == IInv /\ enqueue_command => IInv'
<1> SUFFICES ASSUME IInv, enqueue_command PROVE IInv'
  BY Zenon
<1>1. tasks # <<>> /\ tasks' = Tail(tasks) /\ Head(tasks).type = "enqueue"
  BY Zenon DEF enqueue_command, Takes
<1>2. command_queue \in Seq(Commands) /\ Head(tasks) \in Tasks
  BY <1>1, TakenIInv, Zenon DEF IInv, Types
<1> DEFINE c == Head(tasks).command
           q == Append(command_queue, c)
<1>3. c \in Commands
  BY <1>1, <1>2, TaskFields, Zenon
<1>4. /\ q \in Seq(Commands) /\ Len(q) = Len(command_queue) + 1 /\ Len(command_queue) \in Nat
      /\ q[Len(command_queue) + 1] = c /\ \A i \in 1..Len(command_queue) : q[i] = command_queue[i]
  BY <1>2, <1>3, AppendProperties, LenProperties
<1>5. command_queue # <<>> => q # <<>> /\ Head(q) = Head(command_queue)
  BY <1>2, <1>3, AppendProperties, HeadTailAppend
<1>6. SendNextCommand(q, command_credits, waiting_command, hci_timeout_alarm)
  BY Zenon DEF enqueue_command, Queued
<1> HIDE DEF c, q
<1>7. ASSUME ~faulty PROVE ~IsResponse(Head(tasks)) /\ \A i \in 1..Len(q) : q[i].op # DEBUG_INFO
  <2>1. \A i \in 1..Len(command_queue) : command_queue[i].op # DEBUG_INFO
    BY <1>7, Zenon DEF IInv, FaultFree
  <2>2. c.op # DEBUG_INFO
    BY <1>1, <1>7, TakenIInv, Zenon DEF Calm, c
  <2>3. \A i \in 1..Len(q) : i \in 1..Len(command_queue) \/ i = Len(command_queue) + 1
    BY <1>4
  <2> QED BY <1>1, <1>4, <2>1, <2>2, <2>3, Zenon DEF IsResponse
<1> QED BY <1>1, <1>4, <1>5, <1>6, <1>7, SendsNext, Zenon DEF enqueue_command

\* handle_command_response for a response without an op code.
LEMMA NopIInv == IInv /\ handle_nop => IInv'
<1> SUFFICES ASSUME IInv, handle_nop PROVE IInv'
  BY Zenon
<1>1. tasks # <<>> /\ tasks' = Tail(tasks) /\ Head(tasks).event.op = NONE
  BY Zenon DEF handle_nop, Takes
<1>2. command_queue \in Seq(Commands) /\ (~faulty => \A i \in 1..Len(command_queue) : command_queue[i].op # DEBUG_INFO)
  BY Zenon DEF IInv, Types, FaultFree
<1>3. ~IsResponse(Head(tasks))
  BY <1>1, Zenon DEF IsResponse
<1> QED BY <1>1, <1>2, <1>3, SendsNext, Zenon DEF handle_nop

\* on_hci_event.
LEMMA EventIInv == IInv /\ on_hci_event => IInv'
<1> SUFFICES ASSUME IInv, on_hci_event PROVE IInv'
  BY Zenon
<1> DEFINE ev == Head(tasks).event
<1>1. tasks # <<>> /\ Head(tasks).type = "event" /\ UNCHANGED <<controller, accepted, faulty>>
  BY Zenon DEF on_hci_event, Takes
<1>2. Head(tasks) \in Tasks /\ Tail(tasks) \in Seq(Tasks) /\ ev \in Events
  BY <1>1, TakenIInv, TaskFields, Zenon
<1>3. CASE ~LogFindsCommand(ev)
  <2>1. /\ UNCHANGED <<tasks, command_queue, waiting_command, hci_timeout_alarm>>
    BY <1>3, Zenon DEF on_hci_event
  <2>2. faulty
    <3> SUFFICES ASSUME ~faulty PROVE FALSE
      BY Zenon
    <3>1. IsResponse(Head(tasks)) => command_queue # <<>> /\ Head(command_queue).view
      BY <1>1, TakenOutstanding, Zenon
    <3> QED BY <1>1, <1>3, <3>1, Zenon DEF LogFindsCommand, IsResponse
  <2> QED BY <1>1, <2>1, <2>2, Zenon DEF IInv, Types, OutstandingIsWatched, FaultFree
<1>4. CASE LogFindsCommand(ev) /\ ev.code = "vendor"
  <2>1. hci_timeout_alarm' = "deleted" /\ tasks' = Tail(tasks) /\ UNCHANGED command_queue
    BY <1>4, Zenon DEF on_hci_event, handle_root_inflammation
  <2>2. faulty
    BY <1>1, <1>4, TakenIInv, Zenon DEF Calm
  <2> QED BY <1>1, <1>2, <2>1, <2>2, Zenon DEF IInv, Types, OutstandingIsWatched, FaultFree
<1>5. CASE LogFindsCommand(ev) /\ ev.code # "vendor"
  <2> DEFINE t == Dispatch(ev)
  <2>1. tasks' = Append(Tail(tasks), t) /\ UNCHANGED layerVars
    BY <1>5, Zenon DEF on_hci_event
  <2>2. t \in Tasks /\ t.type = "dispatch" /\ t.event = ev
    BY <1>2, TaskTypes, Zenon DEF Dispatch
  <2>3. /\ Calm(t) /\ (IsResponse(t) <=> IsResponse(Head(tasks)))
        /\ \A w : Answers(Head(tasks), w) => Answers(t, w)
    BY <1>1, <1>5, <2>2, Zenon DEF Calm, IsResponse, Answers
  <2> HIDE DEF t, ev
  <2>4. Types'
    BY <1>1, <1>2, <2>1, <2>2, TaskAdded, Zenon DEF IInv, Types, layerVars
  <2>5. OutstandingIsWatched'
    BY <2>1, Zenon DEF IInv, OutstandingIsWatched, layerVars
  <2>6. ASSUME ~faulty PROVE FaultFree'
    <3>1. \A i \in 1..Len(tasks') : Calm(tasks'[i])
      BY <1>1, <1>2, <2>1, <2>2, <2>3, <2>6, TakenIInv, TaskAdded, SMTT(30)
    <3>2. CASE IsResponse(Head(tasks))
      <4>1. /\ waiting_command # NONE /\ controller = <<>> /\ NoResponse(Tail(tasks))
            /\ Answers(Head(tasks), waiting_command)
            /\ command_queue # <<>> /\ Head(command_queue).op = waiting_command /\ Head(command_queue).view
        BY <1>1, <2>6, <3>2, TakenOutstanding, Zenon
      <4>2. OneResponse(tasks', waiting_command)
        BY <1>2, <2>1, <2>2, <2>3, <4>1, TaskAdded, Zenon
      <4> QED BY <1>1, <2>1, <2>6, <3>1, <4>1, <4>2, Zenon DEF IInv, FaultFree, OneOutstanding, layerVars
    <3>3. CASE ~IsResponse(Head(tasks))
      <4>1. /\ NoResponse(tasks) => NoResponse(Tail(tasks))
            /\ OneResponse(tasks, waiting_command) /\ waiting_command # NONE =>
                 OneResponse(Tail(tasks), waiting_command)
        BY <1>1, <2>6, <3>3, TakenIInv, TakenOutstanding, Zenon
      <4>2. /\ NoResponse(Tail(tasks)) => NoResponse(tasks')
            /\ OneResponse(Tail(tasks), waiting_command) => OneResponse(tasks', waiting_command)
        BY <1>2, <2>1, <2>2, <2>3, <3>3, TaskAdded, Zenon
      <4> QED BY <1>1, <2>1, <2>6, <3>1, <4>1, <4>2, Zenon DEF IInv, FaultFree, OneOutstanding, layerVars
    <3> QED BY <3>2, <3>3, Zenon
  <2> QED BY <1>1, <2>4, <2>5, <2>6, Zenon DEF IInv, FaultFree
<1> QED BY <1>3, <1>4, <1>5, Zenon

\* The tasks when the callback of a command was invoked.
LEMMA InvokedTasks ==
  ASSUME NEW ts \in Seq(Tasks), NEW c \in Commands
  PROVE  /\ ts \o Invoked(c) \in Seq(Tasks)
         /\ NoResponse(ts) => NoResponse(ts \o Invoked(c))
         /\ c.op # DEBUG_INFO /\ (\A i \in 1..Len(ts) : Calm(ts[i])) =>
              \A i \in 1..Len(ts \o Invoked(c)) : Calm((ts \o Invoked(c))[i])
<1>1. CASE c.op \in {RESET, DEBUG_INFO}
  <2> DEFINE t == Check(c.op)
  <2>1. t \in Tasks /\ ~IsResponse(t) /\ (c.op # DEBUG_INFO => Calm(t))
    BY <1>1, TaskTypes, Zenon DEF Check, IsResponse, Calm
  <2>2. ts \o Invoked(c) = ts \o <<t>>
    BY <1>1, Zenon DEF Invoked
  <2> HIDE DEF t
  <2>3. ts \o <<t>> = Append(ts, t)
    BY <2>1, AppendIsConcat, Zenon
  <2> QED BY <2>1, <2>2, <2>3, TaskAdded, Zenon
<1>2. CASE c.op \notin {RESET, DEBUG_INFO}
  <2>1. ts \o Invoked(c) = ts
    BY <1>2, ConcatEmptySeq, Zenon DEF Invoked
  <2> QED BY <2>1, Zenon
<1> QED BY <1>1, <1>2, Zenon

\* handle_command_response for the response to a command.
LEMMA ResponseIInv == IInv /\ handle_command_response => IInv'
<1> SUFFICES ASSUME IInv, handle_command_response PROVE IInv'
  BY Zenon
<1> DEFINE ev == Head(tasks).event
           c == Head(command_queue)
           q == Tail(command_queue)
<1>1. /\ tasks # <<>> /\ Head(tasks).type = "dispatch" /\ ev.op # NONE /\ command_queue # <<>>
      /\ tasks' = Tail(tasks) \o Invoked(c)
      /\ UNCHANGED <<hci_abort_alarm, aborted, accepted, faulty>>
  BY Zenon DEF handle_command_response, Takes, Expected
<1>2. /\ Tail(tasks) \in Seq(Tasks) /\ command_queue \in Seq(Commands) /\ controller \in Seq(Commands)
      /\ accepted \in Nat
  BY <1>1, TakenIInv, Zenon DEF IInv, Types
<1>3. /\ c \in Commands /\ c = command_queue[1] /\ Len(command_queue) \in Nat \ {0}
      /\ q \in Seq(Commands) /\ Len(q) = Len(command_queue) - 1
      /\ \A i \in 1..Len(q) : q[i] = command_queue[i + 1]
  BY <1>1, <1>2, HeadTailProperties, EmptySeq
<1>4. IsResponse(Head(tasks))
  BY <1>1, Zenon DEF IsResponse
<1> HIDE DEF ev, c, q
<1>5. CASE hci_timeout_alarm = "deleted"
  <2>1. command_queue' = q /\ controller' = controller /\ hci_timeout_alarm' = "deleted"
    BY <1>5, Zenon DEF handle_command_response, q
  <2>2. faulty
    BY <1>5, Zenon DEF IInv, FaultFree
  <2>3. Types'
    BY <1>1, <1>2, <1>3, <2>1, InvokedTasks, Zenon DEF Types
  <2> QED BY <1>1, <2>1, <2>2, <2>3, Zenon DEF IInv, OutstandingIsWatched, FaultFree
<1>6. CASE hci_timeout_alarm # "deleted"
  <2>1. SendNextCommand(q, Head(tasks).event.credits, NONE, "idle")
    BY <1>6, Zenon DEF handle_command_response, Cancelled, q
  <2>2. /\ command_queue' \in Seq(Commands) /\ Len(command_queue') = Len(q)
        /\ \A i \in 1..Len(q) : command_queue'[i].op = q[i].op
        /\ controller' \in Seq(Commands)
    BY <1>2, <1>3, <2>1, SendNext, Zenon
  <2>3. \/ waiting_command' = NONE /\ controller' = controller /\ hci_timeout_alarm' = "idle"
        \/ /\ waiting_command' # NONE /\ waiting_command' = Head(q).op
           /\ command_queue' # <<>>
           /\ Head(command_queue').op = waiting_command' /\ Head(command_queue').view
           /\ controller' = Append(controller, Head(q)) /\ hci_timeout_alarm' = "armed"
    BY <1>2, <1>3, <2>1, SendNext, SMTT(30)
  <2>4. Types'
    BY <1>1, <1>2, <1>3, <2>2, InvokedTasks, Zenon DEF Types
  <2>5. OutstandingIsWatched'
    BY <2>3, Zenon DEF OutstandingIsWatched
  <2>6. ASSUME ~faulty PROVE FaultFree'
    <3>1. \A i \in 1..Len(command_queue) : command_queue[i].op # DEBUG_INFO
      BY <2>6, Zenon DEF IInv, FaultFree
    <3>2. c.op # DEBUG_INFO
      BY <1>3, <3>1
    <3>3. \A i \in 1..Len(command_queue') : command_queue'[i].op # DEBUG_INFO
      <4>1. \A i \in 1..Len(q) : i + 1 \in 1..Len(command_queue)
        BY <1>3
      <4> QED BY <1>3, <2>2, <3>1, <4>1, Zenon
    <3>4. controller = <<>> /\ NoResponse(Tail(tasks))
      BY <1>1, <1>4, <2>6, TakenOutstanding, Zenon
    <3>5. NoResponse(tasks') /\ \A i \in 1..Len(tasks') : Calm(tasks'[i])
      BY <1>1, <1>2, <1>3, <2>6, <3>2, <3>4, TakenIInv, InvokedTasks, Zenon
    <3>6. Append(<<>>, Head(q)) = <<Head(q)>> /\ Len(<<Head(q)>>) = 1 /\ <<Head(q)>>[1] = Head(q)
      OBVIOUS
    <3>7. OneOutstanding'
      BY <2>3, <3>4, <3>5, <3>6, Zenon DEF OneOutstanding
    <3> QED BY <1>1, <2>3, <2>6, <3>3, <3>5, <3>7, Zenon DEF IInv, FaultFree
  <2> QED BY <1>1, <2>4, <2>5, <2>6, Zenon DEF IInv, FaultFree
<1> QED BY <1>5, <1>6, Zenon

\* With a controller without faults, every response is expected.
LEMMA ResponseExpected ==
  ASSUME IInv, ~faulty, tasks # <<>>
  PROVE  /\ Head(tasks).type = "event" => LogFindsCommand(Head(tasks).event)
         /\ Head(tasks).type = "dispatch" /\ Head(tasks).event.op # NONE => Expected(Head(tasks).event)
<1>1. IsResponse(Head(tasks)) =>
        /\ command_queue # <<>> /\ Head(command_queue).op = waiting_command /\ Head(command_queue).view
        /\ Answers(Head(tasks), waiting_command)
  BY TakenOutstanding, Zenon
<1> QED BY <1>1 DEF LogFindsCommand, Expected, IsResponse, Answers

\* The failing assertions, the check of Reset's completion, and the alarms.
LEMMA OthersIInv ==
  ASSUME IInv, unexpected_response \/ fail_if_reset_complete_not_success \/ on_hci_timeout \/ abort
  PROVE  IInv'
<1>1. CASE unexpected_response
  <2>1. faulty /\ UNCHANGED <<tasks, command_queue, controller, accepted, waiting_command, hci_timeout_alarm, faulty>>
    BY <1>1, ResponseExpected, Zenon DEF unexpected_response, Takes
  <2> QED BY <2>1, Zenon DEF IInv, Types, OutstandingIsWatched, FaultFree
<1>2. CASE abort
  <2>1. faulty /\ UNCHANGED <<tasks, command_queue, controller, accepted, waiting_command, hci_timeout_alarm, faulty>>
    BY <1>2, Zenon DEF abort, IInv, FaultFree
  <2> QED BY <2>1, Zenon DEF IInv, Types, OutstandingIsWatched, FaultFree
<1>3. CASE fail_if_reset_complete_not_success
  <2>1. /\ tasks # <<>> /\ Head(tasks).type = "check" /\ tasks' = Tail(tasks)
        /\ aborted' = (Head(tasks).op # RESET)
        /\ UNCHANGED <<command_queue, waiting_command, hci_timeout_alarm, hci_abort_alarm, controller,
                       accepted, faulty>>
    BY <1>3, Zenon DEF fail_if_reset_complete_not_success, Takes
  <2>2. Types' /\ OutstandingIsWatched'
    BY <2>1, TakenIInv, Zenon DEF IInv, Types, OutstandingIsWatched
  <2>3. ASSUME ~faulty PROVE FaultFree'
    <3>1. Calm(Head(tasks)) /\ \A i \in 1..Len(tasks') : Calm(tasks'[i])
      BY <2>1, <2>3, TakenIInv, Zenon
    <3>2. ~IsResponse(Head(tasks)) /\ ~aborted'
      BY <2>1, <3>1, Zenon DEF IsResponse, Calm
    <3>3. /\ NoResponse(tasks) => NoResponse(tasks')
          /\ OneResponse(tasks, waiting_command) /\ waiting_command # NONE => OneResponse(tasks', waiting_command)
      BY <2>1, <2>3, <3>2, TakenIInv, TakenOutstanding, Zenon
    <3> QED BY <2>1, <2>3, <3>1, <3>2, <3>3, Zenon DEF IInv, FaultFree, OneOutstanding
  <2> QED BY <2>1, <2>2, <2>3, Zenon DEF IInv, FaultFree
<1>4. CASE on_hci_timeout
  <2> DEFINE q == <<Command(0, DEBUG_INFO)>>
  <2>1. q \in Seq(Commands)
    BY TaskTypes DEF Ops
  <2>2. faulty /\ SendNextCommand(q, 1, NONE, "deleted") /\ UNCHANGED <<tasks, accepted, faulty>>
    BY <1>4, Zenon DEF on_hci_timeout
  <2> HIDE DEF q
  <2>3. controller \in Seq(Commands)
    BY Zenon DEF IInv, Types
  <2>4. /\ command_queue' \in Seq(Commands) /\ controller' \in Seq(Commands)
        /\ hci_timeout_alarm' = "deleted"
    BY <2>1, <2>2, <2>3, SendNext, Zenon
  <2> QED BY <2>2, <2>4, Zenon DEF IInv, Types, OutstandingIsWatched, FaultFree
<1> QED BY <1>1, <1>2, <1>3, <1>4, Zenon

\* Every step of the clients, the controller, the handler and the alarms preserves it.
LEMMA NextIInv == IInv /\ [Next]_vars => IInv'
<1> SUFFICES ASSUME IInv, [Next]_vars PROVE IInv'
  BY Zenon
<1>1. CASE UNCHANGED vars
  BY <1>1, Zenon DEF vars, layerVars, IInv, Types, OutstandingIsWatched, FaultFree, OneOutstanding
<1> QED
  BY <1>1, EnqueueCommandIInv, ControllerReportsIInv, ControllerAnswersIInv, EnqueueIInv, NopIInv, EventIInv,
     ResponseIInv, OthersIInv, Zenon DEF Next, HandlerRuns

\* A sequence that is empty or of length 1.
LEMMA NeverTwo == ASSUME NEW cs, cs = <<>> \/ Len(cs) = 1 PROVE Len(cs) <= 1
<1>1. CASE cs = <<>>
  <2>1. Len(cs) = 0
    BY <1>1, Zenon
  <2> QED BY <2>1
<1>2. CASE Len(cs) = 1
  BY <1>2
<1> QED BY <1>1, <1>2, Zenon

\* The invariant always holds.
LEMMA Invariance == Spec => []IInv
BY InitIInv, NextIInv, PTL DEF Spec
-----------------------------------------------------------------------------
(* The theorems.                                                           *)

\* The timeout alarm of HciLayer runs exactly while a command is at the controller, until it
\* is deleted because an abort is coming, whatever the controller does.
THEOREM CommandsAreWatched == Spec => []OutstandingIsWatched
<1>1. IInv => OutstandingIsWatched
  BY Zenon DEF IInv
<1> QED BY <1>1, Invariance, PTL

\* With a controller without faults log_hci_event and the assertions of
\* handle_command_response always find the command that a response answers.
THEOREM NoUnexpectedResponse == Spec => []ResponsesAreExpected
<1>1. IInv => ResponsesAreExpected
  BY ResponseExpected, Zenon DEF ResponsesAreExpected
<1> QED BY <1>1, Invariance, PTL

\* With a controller without faults no assertion of the layer fails and no abort is scheduled,
\* and the controller never has more than one command.
THEOREM NeverAborts == Spec => [](~faulty => ~aborted /\ Len(controller) <= 1)
<1>1. ASSUME IInv, ~faulty PROVE ~aborted /\ Len(controller) <= 1
  <2>1. ~aborted /\ (controller = <<>> \/ Len(controller) = 1)
    BY <1>1, Zenon DEF IInv, FaultFree, OneOutstanding
  <2> QED BY <2>1, NeverTwo, Zenon
<1>2. IInv => (~faulty => ~aborted /\ Len(controller) <= 1)
  BY <1>1, Zenon
<1> QED BY <1>2, Invariance, PTL
-----------------------------------------------------------------------------
(***************************************************************************)
(* The order of service.  The commands that were accepted are, in the      *)
(* order of their numbers, those answered, those in command_queue_, and    *)
(* those whose enqueue_command is still a task of the handler.             *)
(***************************************************************************)
IsEnqueue(t) == t.type = "enqueue"

\* The commands that tasks of ts will enqueue are those after lo up to hi, in this order.
Posted(ts, lo, hi) ==
  /\ \A i \in 1..Len(ts) : IsEnqueue(ts[i]) => ts[i].command.id \in lo + 1..hi
  /\ \A i, j \in 1..Len(ts) :
       i < j /\ IsEnqueue(ts[i]) /\ IsEnqueue(ts[j]) => ts[i].command.id < ts[j].command.id
  /\ \A m \in lo + 1..hi : \E i \in 1..Len(ts) : IsEnqueue(ts[i]) /\ ts[i].command.id = m

\* Every response among ts answers command n.
Answering(ts, n) == \A i \in 1..Len(ts) : IsResponse(ts[i]) => ts[i].event.id = n

\* How many commands have been answered, and how many are or were in the queue.
Done == Len(answered)
Known == Done + Len(command_queue)

\* After d answered commands the next ones are numbered on: s were sent, those in q are
\* queued, those in c are with the controller, and w is waited for.
Numbered(s, q, c, w, d) ==
  /\ s \in Seq(Nat) /\ \A k \in 1..Len(s) : s[k] = k
  /\ Len(s) = IF w = NONE THEN d ELSE d + 1
  /\ \A k \in 1..Len(q) : q[k].id = d + k
  /\ \A k \in 1..Len(c) : c[k].id = d + 1

\* The order of the commands, as far as they have come.
Ordered ==
  /\ answered \in Seq(Nat \X Nat)
  /\ \A k \in 1..Done : answered[k] = <<k, k>>
  /\ Numbered(sent, command_queue, controller, waiting_command, Done)
  /\ Answering(tasks, Done + 1)
  /\ Posted(tasks, Known, accepted) /\ Known <= accepted

OInv == ~faulty => Ordered
-----------------------------------------------------------------------------
(* The tasks of the handler as a queue.                                    *)

\* A task is added.
LEMMA PostedAdded ==
  ASSUME NEW ts \in Seq(Tasks), NEW t \in Tasks, NEW lo \in Nat, NEW hi \in Nat, NEW n \in Nat, lo <= hi,
         Posted(ts, lo, hi), Answering(ts, n)
  PROVE  /\ ~IsEnqueue(t) => Posted(Append(ts, t), lo, hi)
         /\ IsEnqueue(t) /\ t.command.id = hi + 1 => Posted(Append(ts, t), lo, hi + 1)
         /\ (IsResponse(t) => t.event.id = n) => Answering(Append(ts, t), n)
<1> DEFINE a == Append(ts, t)
<1>1. /\ Len(ts) \in Nat /\ Len(a) = Len(ts) + 1
      /\ a[Len(ts) + 1] = t /\ \A i \in 1..Len(ts) : a[i] = ts[i]
  BY AppendProperties, LenProperties
<1> HIDE DEF a
<1>2. \A i \in 1..Len(a) : i \in 1..Len(ts) \/ i = Len(ts) + 1
  BY <1>1
<1>3. \A i \in 1..Len(ts) : i \in 1..Len(a) /\ a[i] = ts[i]
  BY <1>1
<1>4. ASSUME ~IsEnqueue(t) PROVE Posted(a, lo, hi)
  <2>1. \A i \in 1..Len(a) : IsEnqueue(a[i]) => i \in 1..Len(ts) /\ a[i] = ts[i]
    BY <1>1, <1>2, <1>4, Zenon
  <2>2. \A i \in 1..Len(a) : IsEnqueue(a[i]) => a[i].command.id \in lo + 1..hi
    BY <2>1, Zenon DEF Posted
  <2>3. \A i, j \in 1..Len(a) :
          i < j /\ IsEnqueue(a[i]) /\ IsEnqueue(a[j]) => a[i].command.id < a[j].command.id
    BY <2>1, SMTT(30) DEF Posted
  <2>4. \A m \in lo + 1..hi : \E i \in 1..Len(a) : IsEnqueue(a[i]) /\ a[i].command.id = m
    BY <1>3, SMTT(30) DEF Posted
  <2> QED BY <2>2, <2>3, <2>4, Zenon DEF Posted
<1>5. ASSUME IsEnqueue(t), t.command.id = hi + 1 PROVE Posted(a, lo, hi + 1)
  <2>1. \A i \in 1..Len(ts) : IsEnqueue(a[i]) => a[i].command.id \in lo + 1..hi
    BY <1>3, Zenon DEF Posted
  <2>2. \A i \in 1..Len(a) : IsEnqueue(a[i]) => a[i].command.id \in lo + 1..hi + 1
    BY <1>1, <1>2, <1>5, <2>1
  <2>3. ASSUME NEW i \in 1..Len(a), NEW j \in 1..Len(a), i < j, IsEnqueue(a[i]), IsEnqueue(a[j])
        PROVE  a[i].command.id < a[j].command.id
    <3>1. i \in 1..Len(ts)
      BY <1>1, <2>3
    <3>2. CASE j \in 1..Len(ts)
      BY <1>3, <2>3, <3>1, <3>2, Zenon DEF Posted
    <3>3. CASE j = Len(ts) + 1
      BY <1>1, <1>5, <2>1, <2>3, <3>1, <3>3
    <3> QED BY <1>2, <3>2, <3>3, Zenon
  <2>4. ASSUME NEW m \in lo + 1..hi + 1
        PROVE  \E i \in 1..Len(a) : IsEnqueue(a[i]) /\ a[i].command.id = m
    <3>1. CASE m = hi + 1
      BY <1>1, <1>5, <3>1
    <3>2. CASE m \in lo + 1..hi
      BY <1>3, <3>2, Zenon DEF Posted
    <3> QED BY <3>1, <3>2
  <2> QED BY <2>2, <2>3, <2>4, Zenon DEF Posted
<1>6. (IsResponse(t) => t.event.id = n) => Answering(a, n)
  BY <1>1, <1>2, Zenon DEF Answering
<1> QED BY <1>4, <1>5, <1>6, Zenon DEF a

\* A task is taken.
LEMMA PostedTaken ==
  ASSUME NEW ts \in Seq(Tasks), ts # <<>>, NEW lo \in Nat, NEW hi \in Nat, NEW n \in Nat,
         Posted(ts, lo, hi), Answering(ts, n)
  PROVE  /\ ~IsEnqueue(Head(ts)) => Posted(Tail(ts), lo, hi)
         /\ IsEnqueue(Head(ts)) => /\ Head(ts).command.id = lo + 1 /\ lo + 1 <= hi
                                   /\ Posted(Tail(ts), lo + 1, hi)
         /\ Answering(Tail(ts), n) /\ (IsResponse(Head(ts)) => Head(ts).event.id = n)
<1> DEFINE tl == Tail(ts)
<1>1. /\ Head(ts) = ts[1] /\ 1 \in 1..Len(ts) /\ Len(ts) \in Nat
      /\ Len(tl) = Len(ts) - 1 /\ \A i \in 1..Len(ts) - 1 : tl[i] = ts[i + 1]
  BY TakenTasks
<1> HIDE DEF tl
<1>2. \A i \in 1..Len(tl) : i + 1 \in 1..Len(ts) /\ tl[i] = ts[i + 1]
  BY <1>1
<1>3. \A i \in 1..Len(ts) : i # 1 => i - 1 \in 1..Len(tl) /\ tl[i - 1] = ts[i]
  BY <1>1
<1>4. \A i, j \in 1..Len(tl) :
        i < j /\ IsEnqueue(tl[i]) /\ IsEnqueue(tl[j]) => tl[i].command.id < tl[j].command.id
  <2> TAKE i, j \in 1..Len(tl)
  <2>1. /\ i + 1 \in 1..Len(ts) /\ tl[i] = ts[i + 1]
        /\ j + 1 \in 1..Len(ts) /\ tl[j] = ts[j + 1] /\ (i < j => i + 1 < j + 1)
    BY <1>2
  <2> QED BY <2>1, Zenon DEF Posted
<1>5. ASSUME ~IsEnqueue(Head(ts)) PROVE Posted(tl, lo, hi)
  <2>1. \A i \in 1..Len(tl) : IsEnqueue(tl[i]) => tl[i].command.id \in lo + 1..hi
    BY <1>2, Zenon DEF Posted
  <2>2. \A m \in lo + 1..hi : \E i \in 1..Len(tl) : IsEnqueue(tl[i]) /\ tl[i].command.id = m
    <3> TAKE m \in lo + 1..hi
    <3>1. PICK i \in 1..Len(ts) : IsEnqueue(ts[i]) /\ ts[i].command.id = m
      BY Zenon DEF Posted
    <3>2. i # 1
      BY <1>1, <1>5, <3>1, Zenon
    <3> QED BY <1>3, <3>1, <3>2, Zenon
  <2> QED BY <1>4, <2>1, <2>2, Zenon DEF Posted
<1>6. ASSUME IsEnqueue(Head(ts))
      PROVE  Head(ts).command.id = lo + 1 /\ lo + 1 <= hi /\ Posted(tl, lo + 1, hi)
  <2>1. ts[1].command.id \in lo + 1..hi
    BY <1>1, <1>6, Zenon DEF Posted
  <2>2. \A i \in 1..Len(ts) : i # 1 /\ IsEnqueue(ts[i]) => ts[1].command.id < ts[i].command.id
    <3> TAKE i \in 1..Len(ts)
    <3>1. i # 1 => 1 < i
      BY <1>1
    <3> QED BY <1>1, <1>6, <3>1, Zenon DEF Posted
  <2>3. ts[1].command.id = lo + 1
    <3>1. lo + 1 \in lo + 1..hi
      BY <2>1
    <3>2. PICK i \in 1..Len(ts) : IsEnqueue(ts[i]) /\ ts[i].command.id = lo + 1
      BY <3>1, Zenon DEF Posted
    <3> QED BY <2>1, <2>2, <3>2
  <2>4. \A i \in 1..Len(tl) : IsEnqueue(tl[i]) => tl[i].command.id \in lo + 2..hi
    <3> TAKE i \in 1..Len(tl)
    <3> HAVE IsEnqueue(tl[i])
    <3>1. i + 1 \in 1..Len(ts) /\ i + 1 # 1 /\ tl[i] = ts[i + 1]
      BY <1>2
    <3>2. ts[i + 1].command.id \in lo + 1..hi
      BY <3>1, Zenon DEF Posted
    <3>3. lo + 1 < ts[i + 1].command.id
      BY <2>2, <2>3, <3>1, Zenon
    <3> QED BY <3>1, <3>2, <3>3
  <2>5. \A m \in lo + 2..hi : \E i \in 1..Len(tl) : IsEnqueue(tl[i]) /\ tl[i].command.id = m
    <3> TAKE m \in lo + 2..hi
    <3>1. PICK i \in 1..Len(ts) : IsEnqueue(ts[i]) /\ ts[i].command.id = m
      BY DEF Posted
    <3>2. i # 1
      BY <2>3, <3>1
    <3> QED BY <1>3, <3>1, <3>2, Zenon
  <2>6. (lo + 1) + 1 = lo + 2
    OBVIOUS
  <2> QED BY <1>1, <1>4, <2>1, <2>3, <2>4, <2>5, <2>6 DEF Posted
<1>7. Answering(tl, n) /\ (IsResponse(Head(ts)) => Head(ts).event.id = n)
  BY <1>1, <1>2, SMTT(30) DEF Answering
<1> QED BY <1>5, <1>6, <1>7, Zenon DEF tl
-----------------------------------------------------------------------------
(* The order of the commands.                                              *)

\* It holds when Start has posted Reset.
LEMMA InitOInv == Init => Ordered
<1> SUFFICES ASSUME Init PROVE Ordered
  BY Zenon
<1> DEFINE t == Enqueuing(Command(1, RESET))
<1>1. t.type = "enqueue" /\ t.command.id = 1
  BY Zenon DEF Enqueuing, Command
<1> HIDE DEF t
<1>2. /\ tasks = <<t>> /\ command_queue = <<>> /\ controller = <<>> /\ accepted = 1
      /\ sent = <<>> /\ answered = <<>> /\ waiting_command = NONE
  BY Zenon DEF Init, t
<1>3. Len(<<t>>) = 1 /\ <<t>>[1] = t /\ Len(<<>>) = 0
  BY Zenon
<1>4. Posted(tasks, 0, 1) /\ Answering(tasks, 1)
  BY <1>1, <1>2, <1>3 DEF Posted, Answering, IsEnqueue, IsResponse
<1>5. Done = 0 /\ Known = 0
  BY <1>2, <1>3 DEF Done, Known
<1>6. answered \in Seq(Nat \X Nat) /\ sent \in Seq(Nat)
  BY <1>2
<1> QED BY <1>2, <1>3, <1>4, <1>5, <1>6 DEF Ordered, Numbered

\* The types of what Ordered counts.
LEMMA Counted ==
  ASSUME IInv, Ordered
  PROVE  /\ Done \in Nat /\ Len(command_queue) \in Nat /\ Known \in Nat /\ accepted \in Nat
         /\ tasks \in Seq(Tasks) /\ command_queue \in Seq(Commands) /\ controller \in Seq(Commands)
<1>1. tasks \in Seq(Tasks) /\ command_queue \in Seq(Commands) /\ controller \in Seq(Commands) /\ accepted \in Nat
  BY Zenon DEF IInv, Types
<1>2. Done \in Nat /\ Len(command_queue) \in Nat
  BY <1>1, LenProperties, Zenon DEF Ordered, Done
<1> QED BY <1>1, <1>2 DEF Known

\* Only the tasks of the handler change, and the commands that were posted.
LEMMA TasksChange ==
  ASSUME Ordered, UNCHANGED <<command_queue, waiting_command, sent, answered>>,
         \A k \in 1..Len(controller') : controller'[k].id = Done + 1,
         Answering(tasks', Done + 1), Posted(tasks', Known, accepted'), Known <= accepted'
  PROVE  Ordered'
<1>1. Done' = Done /\ Known' = Known
  BY Zenon DEF Done, Known
<1> QED BY <1>1, Zenon DEF Ordered, Numbered

\* send_next_command keeps the order, when d commands are answered.
LEMMA SendsInOrder ==
  ASSUME NEW q \in Seq(Commands), NEW cr, NEW w, NEW alarm, NEW d \in Nat,
         controller \in Seq(Commands), SendNextCommand(q, cr, w, alarm), w = NONE => controller = <<>>,
         Numbered(sent, q, controller, w, d)
  PROVE  /\ Len(command_queue') = Len(q)
         /\ Numbered(sent', command_queue', controller', waiting_command', d)
<1>0. /\ sent \in Seq(Nat) /\ \A k \in 1..Len(sent) : sent[k] = k
      /\ Len(sent) = IF w = NONE THEN d ELSE d + 1
      /\ \A k \in 1..Len(q) : q[k].id = d + k
      /\ \A k \in 1..Len(controller) : controller[k].id = d + 1
  BY Zenon DEF Numbered
<1>1. Len(command_queue') = Len(q) /\ \A k \in 1..Len(q) : command_queue'[k].id = q[k].id
  BY SendNext, Zenon
<1>2. \A k \in 1..Len(command_queue') : command_queue'[k].id = d + k
  BY <1>0, <1>1, Zenon
<1>3. CASE waiting_command' = w /\ controller' = controller /\ sent' = sent
  BY <1>0, <1>1, <1>2, <1>3, Zenon DEF Numbered
<1>4. CASE /\ w = NONE /\ q # <<>> /\ waiting_command' # NONE
           /\ controller' = Append(controller, Head(q)) /\ sent' = Append(sent, Head(q).id)
  <2>1. Len(q) \in Nat \ {0} /\ Head(q) = q[1]
    BY <1>4, EmptySeq
  <2>2. Head(q).id = d + 1
    <3>1. 1 \in 1..Len(q)
      BY <2>1
    <3>2. q[1].id = d + 1
      BY <1>0, <3>1, Zenon
    <3> QED BY <2>1, <3>2, Zenon
  <2>3. controller' = <<Head(q)>> /\ Len(controller') = 1 /\ controller'[1] = Head(q)
    BY <1>4
  <2>4. \A k \in 1..Len(controller') : controller'[k].id = d + 1
    BY <2>2, <2>3
  <2>5. /\ sent' \in Seq(Nat) /\ Len(sent') = d + 1 /\ sent'[d + 1] = d + 1
        /\ \A k \in 1..d : sent'[k] = k
    <3>1. Len(sent) = d /\ sent' = Append(sent, d + 1) /\ d + 1 \in Nat
      BY <1>0, <1>4, <2>2
    <3>2. /\ Append(sent, d + 1) \in Seq(Nat) /\ Len(Append(sent, d + 1)) = Len(sent) + 1
          /\ Append(sent, d + 1)[Len(sent) + 1] = d + 1
          /\ \A k \in 1..Len(sent) : Append(sent, d + 1)[k] = sent[k]
      BY <1>0, <3>1, AppendProperties
    <3> QED BY <1>0, <3>1, <3>2, Zenon
  <2>6. \A k \in 1..Len(sent') : sent'[k] = k
    BY <2>5
  <2> QED BY <1>1, <1>2, <1>4, <2>4, <2>5, <2>6, Zenon DEF Numbered
<1> QED BY <1>3, <1>4, SendNext

\* The clients and the controller.
LEMMA OutsideOrdered ==
  ASSUME IInv, Ordered, ~faulty, EnqueueCommand \/ ControllerAnswers \/ ControllerCredits
  PROVE  Ordered'
<1>1. /\ Done \in Nat /\ Known \in Nat /\ accepted \in Nat /\ Known <= accepted
      /\ tasks \in Seq(Tasks) /\ controller \in Seq(Commands)
      /\ Posted(tasks, Known, accepted) /\ Answering(tasks, Done + 1) /\ Done + 1 \in Nat
      /\ \A k \in 1..Len(controller) : controller[k].id = Done + 1
  <2>1. /\ Known <= accepted /\ Posted(tasks, Known, accepted) /\ Answering(tasks, Done + 1)
        /\ \A k \in 1..Len(controller) : controller[k].id = Done + 1
    BY Zenon DEF Ordered, Numbered
  <2>2. \A d \in Nat : d + 1 \in Nat
    OBVIOUS
  <2> QED BY <2>1, <2>2, Counted, Zenon
<1>2. CASE EnqueueCommand
  <2>1. PICK op \in ClientOps : tasks' = Append(tasks, Enqueuing(Command(accepted + 1, op)))
    BY <1>2, Zenon DEF EnqueueCommand
  <2> DEFINE t == Enqueuing(Command(accepted + 1, op))
  <2>2. t \in Tasks
    BY <1>1, TaskTypes DEF Ops
  <2>3. IsEnqueue(t) /\ t.command.id = accepted + 1 /\ ~IsResponse(t)
    BY Zenon DEF Enqueuing, Command, IsEnqueue, IsResponse
  <2> HIDE DEF t
  <2>4. Posted(tasks', Known, accepted + 1) /\ Answering(tasks', Done + 1)
    BY <1>1, <2>1, <2>2, <2>3, PostedAdded, Zenon DEF t
  <2>5. accepted' = accepted + 1 /\ UNCHANGED <<layerVars, controller>>
    BY <1>2, Zenon DEF EnqueueCommand
  <2>6. Known <= accepted'
    BY <1>1, <2>5
  <2> QED BY <1>1, <2>4, <2>5, <2>6, TasksChange, Zenon DEF layerVars
<1>3. CASE ControllerCredits
  <2>1. PICK n \in 0..MaxCredits : tasks' = Append(tasks, Event(Nop(n)))
    BY <1>3, Zenon DEF ControllerCredits, hciEventReceived
  <2> DEFINE t == Event(Nop(n))
  <2>2. t \in Tasks
    BY TaskTypes, EventTypes, HciAssumption
  <2>3. ~IsEnqueue(t) /\ ~IsResponse(t)
    BY Zenon DEF Event, Nop, IsEnqueue, IsResponse
  <2> HIDE DEF t
  <2>4. Posted(tasks', Known, accepted) /\ Answering(tasks', Done + 1)
    BY <1>1, <2>1, <2>2, <2>3, PostedAdded, Zenon DEF t
  <2>5. UNCHANGED <<layerVars, controller, accepted>>
    BY <1>3, Zenon DEF ControllerCredits
  <2> QED BY <1>1, <2>4, <2>5, TasksChange, Zenon DEF layerVars
<1>4. CASE ControllerAnswers
  <2>1. PICK i \in DOMAIN controller, n \in 0..MaxCredits :
          tasks' = Append(tasks, Event(Response(controller[i], n))) /\ controller' = Without(controller, i)
    BY <1>4, Zenon DEF ControllerAnswers, hciEventReceived
  <2>2. i \in 1..Len(controller) /\ controller[i] \in Commands /\ n \in Nat /\ controller[i].id = Done + 1
    BY <1>1, HciAssumption, LenProperties
  <2> DEFINE t == Event(Response(controller[i], n))
  <2>3. t \in Tasks
    BY <2>2, TaskTypes, EventTypes, Zenon
  <2>4. ~IsEnqueue(t) /\ t.event.id = Done + 1
    BY <2>2, Zenon DEF Event, Response, IsEnqueue
  <2> HIDE DEF t
  <2>5. Posted(tasks', Known, accepted) /\ Answering(tasks', Done + 1)
    BY <1>1, <2>1, <2>3, <2>4, PostedAdded, Zenon DEF t
  <2>6. controller # <<>>
    BY <2>2
  <2>7. Len(controller) = 1
    BY <2>6, Zenon DEF IInv, FaultFree, OneOutstanding
  <2>8. controller' = <<>>
    BY <1>1, <2>1, <2>2, <2>7, CommandRemoved, Zenon
  <2>9. \A k \in 1..Len(controller') : controller'[k].id = Done + 1
    BY <2>8
  <2>10. UNCHANGED <<layerVars, accepted>>
    BY <1>4, Zenon DEF ControllerAnswers
  <2> QED BY <1>1, <2>5, <2>9, <2>10, TasksChange, Zenon DEF layerVars
<1> QED BY <1>2, <1>3, <1>4, Zenon

\* enqueue_command puts the next command behind those in the queue.
LEMMA EnqueueOrdered ==
  ASSUME IInv, Ordered, ~faulty, enqueue_command
  PROVE  Ordered'
<1> DEFINE c == Head(tasks).command
           q == Append(command_queue, c)
<1>1. /\ Done \in Nat /\ Len(command_queue) \in Nat /\ Known \in Nat /\ accepted \in Nat
      /\ tasks \in Seq(Tasks) /\ command_queue \in Seq(Commands) /\ controller \in Seq(Commands)
  BY Counted, Zenon
<1>2. /\ tasks # <<>> /\ tasks' = Tail(tasks) /\ Head(tasks).type = "enqueue"
      /\ SendNextCommand(q, command_credits, waiting_command, hci_timeout_alarm)
      /\ UNCHANGED <<answered, accepted>>
  BY Zenon DEF enqueue_command, Takes, Queued
<1>3. c \in Commands
  BY <1>2, TakenIInv, TaskFields, Zenon
<1>4. /\ c.id = Known + 1 /\ Known + 1 <= accepted
      /\ Posted(tasks', Known + 1, accepted) /\ Answering(tasks', Done + 1)
  <2>1. Posted(tasks, Known, accepted) /\ Answering(tasks, Done + 1) /\ Done + 1 \in Nat
    BY <1>1 DEF Ordered
  <2>2. IsEnqueue(Head(tasks))
    BY <1>2, Zenon DEF IsEnqueue
  <2> QED BY <1>1, <1>2, <2>1, <2>2, PostedTaken, Zenon
<1>5. /\ q \in Seq(Commands) /\ Len(q) = Len(command_queue) + 1
      /\ q[Len(command_queue) + 1] = c /\ \A k \in 1..Len(command_queue) : q[k] = command_queue[k]
  BY <1>1, <1>3, AppendProperties
<1> HIDE DEF c, q
<1>6. \A k \in 1..Len(q) : q[k].id = Done + k
  <2> TAKE k \in 1..Len(q)
  <2>1. CASE k \in 1..Len(command_queue)
    BY <1>5, <2>1, Zenon DEF Ordered, Numbered
  <2>2. CASE k = Len(command_queue) + 1
    <3>1. Known + 1 = Done + k
      BY <1>1, <2>2 DEF Known
    <3> QED BY <1>4, <1>5, <2>2, <3>1, Zenon
  <2>3. k \in 1..Len(command_queue) \/ k = Len(command_queue) + 1
    BY <1>1, <1>5
  <2> QED BY <2>1, <2>2, <2>3, Zenon
<1>7. waiting_command = NONE => controller = <<>>
  BY Zenon DEF IInv, FaultFree, OneOutstanding
<1>8. Numbered(sent, q, controller, waiting_command, Done)
  BY <1>6, Zenon DEF Ordered, Numbered
<1>9. Len(command_queue') = Len(q) /\ Numbered(sent', command_queue', controller', waiting_command', Done)
  BY <1>1, <1>2, <1>5, <1>7, <1>8, SendsInOrder, Zenon
<1>10. Done' = Done /\ Known' = Known + 1
  BY <1>1, <1>2, <1>5, <1>9 DEF Done, Known
<1> QED BY <1>2, <1>4, <1>9, <1>10, Zenon DEF Ordered

\* A task that posts no command and carries no response is taken.
LEMMA OtherTaken ==
  ASSUME IInv, Ordered, tasks # <<>>, ~IsEnqueue(Head(tasks))
  PROVE  /\ Posted(Tail(tasks), Known, accepted) /\ Answering(Tail(tasks), Done + 1)
         /\ IsResponse(Head(tasks)) => Head(tasks).event.id = Done + 1
<1>1. Known \in Nat /\ accepted \in Nat /\ Done + 1 \in Nat /\ tasks \in Seq(Tasks)
  BY Counted
<1>2. Posted(tasks, Known, accepted) /\ Answering(tasks, Done + 1)
  BY Zenon DEF Ordered
<1> QED BY <1>1, <1>2, PostedTaken, Zenon

\* handle_command_response for a response without an op code.
LEMMA NopOrdered ==
  ASSUME IInv, Ordered, ~faulty, handle_nop
  PROVE  Ordered'
<1>1. /\ Done \in Nat /\ Len(command_queue) \in Nat
      /\ command_queue \in Seq(Commands) /\ controller \in Seq(Commands)
  BY Counted, Zenon
<1>2. /\ tasks # <<>> /\ tasks' = Tail(tasks) /\ Head(tasks).type = "dispatch"
      /\ SendNextCommand(command_queue, Head(tasks).event.credits, waiting_command, hci_timeout_alarm)
      /\ UNCHANGED <<answered, accepted>>
  BY Zenon DEF handle_nop, Takes
<1>3. ~IsEnqueue(Head(tasks))
  BY <1>2, Zenon DEF IsEnqueue
<1>4. Posted(tasks', Known, accepted) /\ Answering(tasks', Done + 1)
  BY <1>2, <1>3, OtherTaken, Zenon
<1>5. waiting_command = NONE => controller = <<>>
  BY Zenon DEF IInv, FaultFree, OneOutstanding
<1>6. /\ Len(command_queue') = Len(command_queue)
      /\ Numbered(sent', command_queue', controller', waiting_command', Done)
  <2>1. Numbered(sent, command_queue, controller, waiting_command, Done)
    BY Zenon DEF Ordered
  <2> QED BY <1>1, <1>2, <1>5, <2>1, SendsInOrder, Zenon
<1>7. Done' = Done /\ Known' = Known
  BY <1>2, <1>6, Zenon DEF Done, Known
<1> QED BY <1>2, <1>4, <1>6, <1>7, SMTT(30) DEF Ordered

\* on_hci_event, and the check of Reset's completion.
LEMMA PassedOnOrdered ==
  ASSUME IInv, Ordered, ~faulty, on_hci_event \/ fail_if_reset_complete_not_success
  PROVE  Ordered'
<1>1. /\ Done \in Nat /\ Known \in Nat /\ accepted \in Nat /\ Done + 1 \in Nat /\ Known <= accepted
      /\ \A k \in 1..Len(controller) : controller[k].id = Done + 1
  <2>1. Done \in Nat /\ Known \in Nat /\ accepted \in Nat /\ Done + 1 \in Nat
    BY Counted
  <2> QED BY <2>1, Zenon DEF Ordered, Numbered
<1>2. CASE on_hci_event
  <2> DEFINE ev == Head(tasks).event
             t == Dispatch(ev)
  <2>1. tasks # <<>> /\ Head(tasks).type = "event" /\ UNCHANGED <<controller, accepted>>
    BY <1>2, Zenon DEF on_hci_event, Takes
  <2>2. LogFindsCommand(ev) /\ ev.code # "vendor"
    BY <2>1, ResponseExpected, TakenIInv, Zenon DEF Calm
  <2>3. tasks' = Append(Tail(tasks), t) /\ UNCHANGED layerVars
    BY <1>2, <2>2, Zenon DEF on_hci_event
  <2>4. Tail(tasks) \in Seq(Tasks) /\ ev \in Events
    BY <2>1, TakenIInv, TaskFields, Zenon
  <2>5. t \in Tasks /\ t.type = "dispatch" /\ t.event = ev
    BY <2>4, TaskTypes, Zenon DEF Dispatch
  <2>6. ~IsEnqueue(t) /\ ~IsEnqueue(Head(tasks)) /\ (IsResponse(t) => IsResponse(Head(tasks)))
    BY <2>1, <2>5, Zenon DEF IsEnqueue, IsResponse
  <2>7. /\ Posted(Tail(tasks), Known, accepted) /\ Answering(Tail(tasks), Done + 1)
        /\ IsResponse(t) => t.event.id = Done + 1
    BY <2>1, <2>5, <2>6, OtherTaken, Zenon
  <2> HIDE DEF ev, t
  <2>8. Posted(tasks', Known, accepted) /\ Answering(tasks', Done + 1)
    BY <1>1, <2>3, <2>4, <2>5, <2>6, <2>7, PostedAdded, Zenon
  <2> QED BY <1>1, <2>1, <2>3, <2>8, TasksChange, Zenon DEF layerVars
<1>3. CASE fail_if_reset_complete_not_success
  <2>1. /\ tasks # <<>> /\ Head(tasks).type = "check" /\ tasks' = Tail(tasks)
        /\ UNCHANGED <<command_queue, waiting_command, sent, answered, controller, accepted>>
    BY <1>3, Zenon DEF fail_if_reset_complete_not_success, Takes
  <2>2. ~IsEnqueue(Head(tasks))
    BY <2>1, Zenon DEF IsEnqueue
  <2>3. Posted(tasks', Known, accepted) /\ Answering(tasks', Done + 1)
    BY <2>1, <2>2, OtherTaken, Zenon
  <2> QED BY <1>1, <2>1, <2>3, TasksChange, Zenon
<1> QED BY <1>2, <1>3, Zenon

\* handle_command_response invokes the callback of the command that is answered, which is
\* the next one, and sends the one after it.
LEMMA ResponseOrdered ==
  ASSUME IInv, Ordered, ~faulty, handle_command_response
  PROVE  Ordered'
<1> DEFINE ev == Head(tasks).event
           c == Head(command_queue)
           q == Tail(command_queue)
<1>1. /\ Done \in Nat /\ Len(command_queue) \in Nat /\ Known \in Nat /\ accepted \in Nat
      /\ tasks \in Seq(Tasks) /\ command_queue \in Seq(Commands) /\ controller \in Seq(Commands)
      /\ Done + 1 \in Nat /\ Done + 2 \in Nat
  BY Counted
<1>2. /\ tasks # <<>> /\ Head(tasks).type = "dispatch" /\ ev.op # NONE /\ command_queue # <<>>
      /\ answered' = Append(answered, <<c.id, ev.id>>)
      /\ tasks' = Tail(tasks) \o Invoked(c) /\ UNCHANGED accepted
  BY Zenon DEF handle_command_response, Takes, Expected
<1>3. hci_timeout_alarm # "deleted"
  BY Zenon DEF IInv, FaultFree
<1>4. SendNextCommand(q, ev.credits, NONE, "idle")
  BY <1>3, Zenon DEF handle_command_response, Cancelled
<1>5. /\ c \in Commands /\ c = command_queue[1] /\ Len(command_queue) \in Nat \ {0}
      /\ q \in Seq(Commands) /\ Len(q) = Len(command_queue) - 1
      /\ \A i \in 1..Len(q) : q[i] = command_queue[i + 1]
  BY <1>1, <1>2, HeadTailProperties, EmptySeq
<1>6. IsResponse(Head(tasks)) /\ ~IsEnqueue(Head(tasks))
  BY <1>2, Zenon DEF IsResponse, IsEnqueue
<1>7. waiting_command # NONE /\ controller = <<>> /\ NoResponse(Tail(tasks)) /\ Tail(tasks) \in Seq(Tasks)
  BY <1>2, <1>6, TakenIInv, TakenOutstanding, Zenon
<1>8. ev.id = Done + 1 /\ Posted(Tail(tasks), Known, accepted)
  BY <1>2, <1>6, OtherTaken, Zenon
<1> HIDE DEF ev, c, q
<1>9. c.id = Done + 1
  <2>1. 1 \in 1..Len(command_queue)
    BY <1>5
  <2> QED BY <1>5, <2>1, Zenon DEF Ordered, Numbered
<1>10. answered' \in Seq(Nat \X Nat) /\ Len(answered') = Done + 1 /\ \A k \in 1..Len(answered') : answered'[k] = <<k, k>>
  <2>1. answered' = Append(answered, <<Done + 1, Done + 1>>) /\ <<Done + 1, Done + 1>> \in Nat \X Nat
    BY <1>1, <1>2, <1>8, <1>9, Zenon
  <2> DEFINE x == <<Done + 1, Done + 1>>
  <2>2. answered \in Seq(Nat \X Nat) /\ Len(answered) = Done /\ \A k \in 1..Done : answered[k] = <<k, k>>
    BY Zenon DEF Ordered, Done
  <2> HIDE DEF x
  <2>3. /\ Append(answered, x) \in Seq(Nat \X Nat) /\ Len(Append(answered, x)) = Done + 1
        /\ Append(answered, x)[Done + 1] = x
        /\ \A k \in 1..Done : Append(answered, x)[k] = answered[k]
    BY <2>1, <2>2, AppendProperties DEF x
  <2>4. \A k \in 1..Done + 1 : k \in 1..Done \/ k = Done + 1
    BY <1>1
  <2> QED BY <2>1, <2>2, <2>3, <2>4, Zenon DEF x
<1>11. \A k \in 1..Len(q) : q[k].id = (Done + 1) + k
  <2> TAKE k \in 1..Len(q)
  <2>1. k + 1 \in 1..Len(command_queue) /\ Done + (k + 1) = (Done + 1) + k
    BY <1>1, <1>5
  <2> QED BY <1>5, <2>1, Zenon DEF Ordered, Numbered
<1>12. /\ sent \in Seq(Nat) /\ Len(sent) = Done + 1 /\ \A k \in 1..Len(sent) : sent[k] = k
       /\ \A k \in 1..Len(controller) : controller[k].id = (Done + 1) + 1
  BY <1>7 DEF Ordered, Numbered
<1>13. /\ Len(command_queue') = Len(q)
       /\ Numbered(sent', command_queue', controller', waiting_command', Done + 1)
  <2>1. Numbered(sent, q, controller, NONE, Done + 1)
    BY <1>11, <1>12, Zenon DEF Numbered
  <2> QED BY <1>1, <1>4, <1>5, <1>7, <2>1, SendsInOrder, Zenon
<1>14. NoResponse(tasks') /\ Posted(tasks', Known, accepted)
  <2>1. NoResponse(tasks')
    BY <1>2, <1>5, <1>7, InvokedTasks, Zenon
  <2>2. CASE c.op \in {RESET, DEBUG_INFO}
    <3> DEFINE t == Check(c.op)
    <3>1. t \in Tasks /\ ~IsEnqueue(t)
      BY <2>2, TaskTypes, Zenon DEF Check, IsEnqueue
    <3>2. tasks' = Tail(tasks) \o <<t>>
      BY <1>2, <2>2, Zenon DEF Invoked
    <3> HIDE DEF t
    <3>3. tasks' = Append(Tail(tasks), t)
      BY <1>7, <3>1, <3>2, AppendIsConcat, Zenon
    <3>4. Known <= accepted /\ Answering(Tail(tasks), Done + 1)
      BY <1>2, <1>6, OtherTaken, Zenon DEF Ordered
    <3> QED BY <1>1, <1>7, <1>8, <2>1, <3>1, <3>3, <3>4, PostedAdded, Zenon
  <2>3. CASE c.op \notin {RESET, DEBUG_INFO}
    <3>1. tasks' = Tail(tasks)
      BY <1>2, <1>7, <2>3, ConcatEmptySeq, Zenon DEF Invoked
    <3> QED BY <1>8, <2>1, <3>1, Zenon
  <2> QED BY <2>2, <2>3, Zenon
<1>15. Answering(tasks', (Done + 1) + 1)
  BY <1>14, Zenon DEF NoResponse, Answering
<1>16. Done' = Done + 1 /\ Known' = Known
  BY <1>1, <1>5, <1>10, <1>13 DEF Done, Known
<1>17. Known <= accepted
  BY Zenon DEF Ordered
<1>18. \A k \in 1..Done' : answered'[k] = <<k, k>>
  BY <1>10, <1>16, Zenon
<1> QED BY <1>2, <1>10, <1>13, <1>14, <1>15, <1>16, <1>17, <1>18, SMTT(30) DEF Ordered

\* Every step preserves the order; what only a controller with faults causes does not happen.
LEMMA NextOInv == IInv /\ OInv /\ [Next]_vars => OInv'
<1> SUFFICES ASSUME IInv, OInv, [Next]_vars, ~faulty' PROVE Ordered'
  BY Zenon DEF OInv
<1>1. CASE UNCHANGED vars
  BY <1>1, Zenon DEF vars, layerVars, OInv, Ordered, Done, Known
<1>2. CASE Next
  <2>1. faulty' = faulty
    BY <1>2, Zenon DEF Next, HandlerRuns, EnqueueCommand, ControllerAnswers, ControllerCredits, ControllerInflammation,
       enqueue_command, on_hci_event, handle_nop, handle_command_response, unexpected_response,
       fail_if_reset_complete_not_success, on_hci_timeout, abort
  <2>2. ~faulty /\ Ordered
    BY <2>1, Zenon DEF OInv
  <2>3. ~ControllerInflammation /\ ~on_hci_timeout
    BY <2>2, Zenon DEF ControllerInflammation, on_hci_timeout
  <2>4. ~abort
    BY <2>2, Zenon DEF abort, IInv, FaultFree
  <2>5. ~unexpected_response
    BY <2>2, ResponseExpected, Zenon DEF unexpected_response, Takes
  <2> QED
    BY <1>2, <2>2, <2>3, <2>4, <2>5, OutsideOrdered, EnqueueOrdered, NopOrdered, PassedOnOrdered, ResponseOrdered, Zenon
       DEF Next, HandlerRuns
<1> QED BY <1>1, <1>2, Zenon

\* HciLayer hands the commands to a controller without faults in the order in which they were
\* posted, each after the answer to the one before, and invokes each callback once, with the
\* response to its own command.
THEOREM ServesInOrder == Spec => []ServedInOrder
<1>1. Init => OInv
  BY InitOInv, Zenon DEF OInv
<1>2. ASSUME IInv, OInv, ~faulty
      PROVE  /\ \A k \in DOMAIN sent : sent[k] = k
             /\ \A k \in DOMAIN answered : answered[k] = <<k, k>>
             /\ Len(answered) <= Len(sent) /\ Len(sent) <= Len(answered) + 1
             /\ Len(controller) <= 1
  <2>1. Ordered
    BY <1>2, Zenon DEF OInv
  <2>2. DOMAIN sent = 1..Len(sent) /\ DOMAIN answered = 1..Done /\ Done \in Nat
    BY <1>2, <2>1, Counted, LenProperties, SMTT(30) DEF Ordered, Numbered, Done
  <2>3. Len(sent) = Done \/ Len(sent) = Done + 1
    BY <2>1, Zenon DEF Ordered, Numbered
  <2>4. Len(answered) <= Len(sent) /\ Len(sent) <= Len(answered) + 1
    <3>1. Len(answered) = Done
      BY Zenon DEF Done
    <3> HIDE DEF Done
    <3>2. Done <= Done + 1 /\ Done <= Done
      BY <2>2
    <3> QED BY <2>3, <3>1, <3>2
  <2>5. controller = <<>> \/ Len(controller) = 1
    BY <1>2, Zenon DEF IInv, FaultFree, OneOutstanding
  <2>6. Len(controller) <= 1
    BY <1>2, <2>5, NeverTwo, Zenon
  <2>7. \A k \in DOMAIN sent : sent[k] = k
    BY <2>1, <2>2, Zenon DEF Ordered, Numbered
  <2>8. \A k \in DOMAIN answered : answered[k] = <<k, k>>
    BY <2>1, <2>2, Zenon DEF Ordered
  <2> QED BY <2>4, <2>6, <2>7, <2>8, Zenon
<1>3. IInv /\ OInv => ServedInOrder
  BY <1>2, Zenon DEF ServedInOrder
<1> QED BY <1>1, <1>3, NextOInv, Invariance, PTL DEF Spec
=============================================================================
