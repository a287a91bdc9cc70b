-------------------------- MODULE LeAddressManager --------------------------
(***************************************************************************)
(* hci::LeAddressManager (gd/hci/le_address_manager.cc) with two of its    *)
(* clients: acl_manager::le_impl, which initiates LE connections, and      *)
(* LeScanningManager.  The address of the device and the connect and       *)
(* resolving lists of the controller may change only while no client uses  *)
(* the radio.  So the manager keeps such commands in cached_commands_,     *)
(* asks its clients to pause, sends the commands one after the other when  *)
(* all have acknowledged, and lets them resume.                            *)
(*                                                                         *)
(* The manager and le_impl run on the handler of AclManager, whose tasks   *)
(* are explicit: every call of the manager's interface is posted, while    *)
(* OnPause and OnResume are called by the task that runs.  The scanning    *)
(* manager has a handler of its own on the same thread; its calls and      *)
(* le_impl's interface are tasks that anyone may have posted before, so    *)
(* they run between any two tasks.  Everything is a record; every function *)
(* of the code is an operator from the record to the one it leaves.        *)
(*                                                                         *)
(* HciLayer hands commands to the controller in order (module HciLayer);   *)
(* "hci" holds those that the controller did not execute yet.              *)
(***************************************************************************)
EXTENDS Naturals, Sequences

CONSTANTS
  Policies,     \* the values of address_policy_ to choose from
  gd_acl,       \* the values of gd_acl_is_enabled() || gd_l2cap_is_enabled()
  Devices,      \* peer devices
  MaxCalls      \* bound on calls of the clients and expiries of the rotation alarm

ASSUME AddressAssumption ==
  /\ MaxCalls \in Nat
  /\ Policies \subseteq {"PUBLIC", "STATIC", "RESOLVABLE"} /\ gd_acl \subseteq BOOLEAN

VARIABLES
  s,          \* the host: address manager, clients, their handler, commands on their way
  active,     \* what the controller does: subset of {"scan", "connect"}
  address,    \* the random address that the controller uses
  rejected,   \* it has rejected a new address
  calls,
  crossed     \* history: clients that were erased with an acknowledgement of a pause on its way

vars == <<s, active, address, rejected, calls, crossed>>

Clients == {"le", "scan"}

Task(f, x) == [run |-> f, arg |-> x]

le_impl == [registered |-> FALSE, ready_to_unregister |-> FALSE, pause |-> FALSE,
            connecting |-> {}, canceled |-> {}, connections |-> {}]

scanner == [registered |-> FALSE, is_scanning |-> FALSE, on_resume |-> FALSE, paused |-> FALSE]

Init ==
  /\ \E gd \in gd_acl, le_first \in BOOLEAN :
       s = [gd_acl |-> gd, le_first |-> le_first, address_policy |-> "NOT_SET",
            clients |-> [c \in Clients |-> "NONE"], cached_commands |-> << >>,
            rotation_alarm |-> FALSE, le_address |-> 0, cached_address |-> 0,
            le |-> le_impl, scan |-> scanner,
            tasks |-> << >>, hci |-> << >>, aborted |-> "no"]
  /\ active = {} /\ address = 0 /\ rejected = FALSE
  /\ calls = 0 /\ crossed = {}

Post(m, t) == [m EXCEPT !.tasks = Append(@, t)]
EnqueueCommand(m, op) == [m EXCEPT !.hci = Append(@, [op |-> op, address |-> m.cached_address])]
Abort(m, why) == [m EXCEPT !.aborted = why]
Rotating(m) == m.address_policy = "RESOLVABLE"
-----------------------------------------------------------------------------
(* LeScanningManager.                                                      *)

stop_scan(m) == EnqueueCommand([m EXCEPT !.scan.is_scanning = FALSE], "scan_off")

scan_Register(m) ==
  IF m.scan.registered THEN m
  ELSE Post([m EXCEPT !.scan.registered = TRUE], Task("register_client", "scan"))

\* Mutant: the scan counts as running while it is paused.
start_scan_mut(m) ==
  IF m.scan.paused THEN [m EXCEPT !.scan.is_scanning = TRUE, !.scan.on_resume = TRUE]
  ELSE EnqueueCommand(scan_Register([m EXCEPT !.scan.is_scanning = TRUE]), "scan_on")

start_scan(m) ==
  IF m.scan.paused THEN [m EXCEPT !.scan.on_resume = TRUE]
  ELSE EnqueueCommand(scan_Register([m EXCEPT !.scan.is_scanning = TRUE]), "scan_on")

scan_Unregister(m) ==
  IF m.scan.registered
    THEN Post([m EXCEPT !.scan.registered = FALSE], Task("unregister_client", "scan")) ELSE m

\* configure_scan stops the scan; the parameters it then sets are left out.
configure_scan(m) == stop_scan(m)

scan(m, start) == IF start THEN start_scan(configure_scan(m)) ELSE stop_scan(scan_Unregister(m))

scan_OnPause(m) ==
  Post(stop_scan([m EXCEPT !.scan.paused = TRUE, !.scan.on_resume = m.scan.is_scanning]),
       Task("ack_pause", "scan"))

scan_OnResume(m) ==
  LET r == [m EXCEPT !.scan.paused = FALSE]
  IN Post(IF m.scan.on_resume THEN start_scan(r) ELSE r, Task("ack_resume", "scan"))
-----------------------------------------------------------------------------
(* le_impl.                                                                *)

le_Register(m) ==
  IF m.le.registered THEN m
  ELSE Post([m EXCEPT !.le.registered = TRUE], Task("register_client", "le"))

\* LeAddressManager::AddDeviceToConnectList and the other changes of the two lists.
ChangeDeviceList(m) == Post(m, Task("push_command", "list"))

\* add_device_to_connect_list, add_device_to_resolving_list.
add_device_to_list(m) == ChangeDeviceList([le_Register(m) EXCEPT !.le.pause = TRUE])

\* remove_device_from_connect_list (also by cancel_connect), remove_device_from_resolving_list.
remove_device_from_list(m) == ChangeDeviceList([le_Register(m) EXCEPT !.le.pause = TRUE])

\* The end of create_le_connection.
initiate(m, d) ==
  IF m.le.pause THEN [m EXCEPT !.le.canceled = @ \cup {d}]
  ELSE IF m.address_policy = "NOT_SET" THEN Abort(m, "GetCurrentAddress")
  ELSE EnqueueCommand([m EXCEPT !.le.connecting = @ \cup {d}], "create_connection")

create_le_connection(m, d, add_to_connect_list) ==
  LET l == IF add_to_connect_list THEN add_device_to_list(m) ELSE m
      r == le_Register(l)
  IN initiate(IF ~l.le.registered /\ Rotating(l) THEN [r EXCEPT !.le.pause = TRUE] ELSE r, d)

le_OnPause(m) ==
  LET r == [m EXCEPT !.le.pause = TRUE]
  IN Post(IF m.le.connecting = {} THEN r
          ELSE EnqueueCommand([r EXCEPT !.le.canceled = m.le.connecting], "cancel_connection"),
          Task("ack_pause", "le"))

check_for_unregister(m) ==
  IF /\ m.le.connections = {} /\ m.le.connecting = {} /\ m.le.canceled = {}
     /\ m.le.registered /\ m.le.ready_to_unregister
    THEN Post([m EXCEPT !.le.registered = FALSE, !.le.pause = FALSE,
                        !.le.ready_to_unregister = FALSE], Task("unregister_client", "le"))
    ELSE m

le_OnResume(m) ==
  LET r == [m EXCEPT !.le.pause = FALSE]
      n == IF r.le.canceled = {} THEN r
           ELSE create_le_connection(r, CHOOSE d \in r.le.canceled : TRUE, FALSE)
  IN check_for_unregister(Post([n EXCEPT !.le.canceled = {}], Task("ack_resume", "le")))

\* on_le_connection_complete, on_le_enhanced_connection_complete.
on_le_connection_complete(m, ev) ==
  LET r == [m EXCEPT !.le.connecting = @ \ {ev.peer}]
      n == remove_device_from_list([r EXCEPT !.le.canceled = @ \ {ev.peer}, !.le.ready_to_unregister = TRUE])
  IN IF ev.status = "UNKNOWN_CONNECTION" /\ m.le.pause THEN r
     ELSE IF ev.status = "SUCCESS" THEN [n EXCEPT !.le.connections = @ \cup {ev.peer}] ELSE n
-----------------------------------------------------------------------------
(* LeAddressManager.                                                       *)

OnPause(m, c) == IF c = "le" THEN le_OnPause(m) ELSE scan_OnPause(m)
OnResume(m, c) == IF c = "le" THEN le_OnResume(m) ELSE scan_OnResume(m)

registered_clients(m) == {c \in Clients : m.clients[c] # "NONE"}
AllPaused(m) == \A c \in Clients : m.clients[c] \in {"NONE", "PAUSED"}

pause_client(m, c) ==
  IF m.clients[c] \in {"NONE", "PAUSED", "WAITING_FOR_PAUSE"} THEN m
  ELSE OnPause([m EXCEPT !.clients[c] = "WAITING_FOR_PAUSE"], c)

\* registered_clients_ is a map of pointers: either client may come first.
pause_registered_clients(m) ==
  IF m.le_first THEN pause_client(pause_client(m, "le"), "scan")
                ELSE pause_client(pause_client(m, "scan"), "le")

push_command(m, command) ==
  [pause_registered_clients(m) EXCEPT !.cached_commands = Append(@, command)]

prepare_to_rotate(m) ==
  pause_registered_clients([m EXCEPT !.cached_commands = Append(@, "rotate")])

\* set_random_address, with a new address each time.
set_random_address(m) ==
  EnqueueCommand([m EXCEPT !.cached_address = @ + 1], "set_random_address")

\* rotate_random_address, with schedule_rotate_random_address.
rotate_random_address(m) == set_random_address([m EXCEPT !.rotation_alarm = TRUE])

\* The command in front is sent when every client is paused.
handle_next_command(m) ==
  IF ~AllPaused(m) THEN m
  ELSE IF m.cached_commands = << >> THEN Abort(m, "handle_next_command")
  ELSE LET r == [m EXCEPT !.cached_commands = Tail(@)]
       IN IF Head(m.cached_commands) = "rotate" THEN rotate_random_address(r)
          ELSE EnqueueCommand(r, "list")

register_client(m, c) ==
  LET r == [m EXCEPT !.clients[c] = IF @ = "NONE" THEN "RESUMED" ELSE @]
  IN IF m.address_policy = "NOT_SET" THEN pause_registered_clients(r)
     ELSE IF ~Rotating(m) THEN r
     ELSE IF ~m.gd_acl THEN prepare_to_rotate(r)
     ELSE IF registered_clients(r) = {c} THEN [r EXCEPT !.rotation_alarm = TRUE] ELSE r

unregister_client(m, c) ==
  LET r == [m EXCEPT !.clients[c] = "NONE"]
  IN IF registered_clients(r) = {} THEN [r EXCEPT !.rotation_alarm = FALSE] ELSE r

ack_pause(m, c) ==
  LET r == [m EXCEPT !.clients[c] = "PAUSED"]
  IN IF m.clients[c] = "NONE" THEN Abort(m, "ack_pause")
     ELSE IF AllPaused(r) /\ m.address_policy # "NOT_SET" THEN handle_next_command(r)
     ELSE r

ack_resume(m, c) ==
  IF m.clients[c] = "NONE" THEN Abort(m, "ack_resume") ELSE [m EXCEPT !.clients[c] = "RESUMED"]

\* Mutant: the state of the client is left to its acknowledgement.
resume_client_mut(m, c) == IF m.clients[c] = "NONE" THEN m ELSE OnResume(m, c)

resume_client(m, c) ==
  IF m.clients[c] = "NONE" THEN m
  ELSE OnResume([m EXCEPT !.clients[c] = "WAITING_FOR_RESUME"], c)

resume_registered_clients(m) ==
  IF m.cached_commands # << >> THEN handle_next_command(m)
  ELSE IF m.le_first THEN resume_client(resume_client(m, "le"), "scan")
                     ELSE resume_client(resume_client(m, "scan"), "le")

\* Mutant: nobody resumes when the command failed.
OnCommandComplete_mut(m, ev) ==
  IF ~ev.success THEN m
  ELSE Post(m, Task(IF m.cached_commands = << >> THEN "resume_registered_clients"
                                                 ELSE "handle_next_command", "none"))

OnCommandComplete(m, ev) ==
  LET r == IF ev.op = "set_random_address" /\ ev.success
             THEN [m EXCEPT !.le_address = m.cached_address] ELSE m
  IN IF ev.op = "set_random_address" /\ m.address_policy = "STATIC" THEN m
     ELSE Post(r, Task(IF m.cached_commands = << >> THEN "resume_registered_clients"
                                                    ELSE "handle_next_command", "none"))

SetPrivacyPolicyForInitiatorAddress(m, policy) ==
  LET r == [m EXCEPT !.address_policy = policy]
  IN IF registered_clients(m) # {} THEN Abort(m, "SetPrivacyPolicy")
     ELSE IF policy = "PUBLIC" THEN Post(r, Task("resume_registered_clients", "none"))
     ELSE IF policy = "STATIC"
       THEN Post([r EXCEPT !.le_address = 1, !.cached_address = 1], Task("enqueue_command", "none"))
     ELSE set_random_address(r)
-----------------------------------------------------------------------------
(* Steps.                                                                  *)

Running == s.aborted = "no"
Quiet == UNCHANGED <<active, address, rejected>>

SetPolicy ==
  /\ Running /\ s.address_policy = "NOT_SET"
  /\ \E p \in Policies : s' = SetPrivacyPolicyForInitiatorAddress(s, p)
  /\ Quiet /\ UNCHANGED <<calls, crossed>>

Called(m) ==
  Running /\ calls < MaxCalls /\ calls' = calls + 1 /\ s' = m /\ Quiet /\ UNCHANGED crossed

CreateLeConnection == \E d \in Devices \ s.le.connections : Called(create_le_connection(s, d, TRUE))

AddDevice == Called(add_device_to_list(s))

RemoveDevice == Called(remove_device_from_list(s))

Scan == \E start \in BOOLEAN : Called(scan(s, start))

on_le_disconnect ==
  \E d \in s.le.connections : Called([s EXCEPT !.le.connections = @ \ {d}])

\* address_rotation_alarm_ fires.
RotationAlarm ==
  s.rotation_alarm /\ Called(prepare_to_rotate([s EXCEPT !.rotation_alarm = FALSE]))

\* The task in front erases client c.
Erases(c) == s.tasks[1].run = "unregister_client" /\ s.tasks[1].arg = c

\* Client c has been asked to pause, and its acknowledgement is on its way.
Acknowledging(c) == \E i \in DOMAIN s.tasks : s.tasks[i].run = "ack_pause" /\ s.tasks[i].arg = c

\* The task in front of the handler's queue runs.
RunTask ==
  /\ Running /\ s.tasks # << >>
  /\ LET t == Head(s.tasks)
         m == [s EXCEPT !.tasks = Tail(@)]
     IN \/ t.run = "register_client" /\ s' = register_client(m, t.arg)
        \/ t.run = "unregister_client" /\ s' = unregister_client(m, t.arg)
        \/ t.run = "ack_pause" /\ s' = ack_pause(m, t.arg)
        \/ t.run = "ack_resume" /\ s' = ack_resume(m, t.arg)
        \/ t.run = "push_command" /\ s' = push_command(m, t.arg)
        \/ t.run = "resume_registered_clients" /\ s' = resume_registered_clients(m)
        \/ t.run = "handle_next_command" /\ s' = handle_next_command(m)
        \/ t.run = "enqueue_command" /\ s' = EnqueueCommand(m, "set_random_address")
        \/ t.run = "OnCommandComplete" /\ s' = OnCommandComplete(m, t.arg)
        \/ t.run = "on_le_connection_complete" /\ s' = on_le_connection_complete(m, t.arg)
  /\ crossed' = crossed \cup {c \in Clients : Erases(c) /\ Acknowledging(c)}
  /\ Quiet /\ UNCHANGED calls
-----------------------------------------------------------------------------
(* The controller.  It rejects a new address while it scans or initiates,  *)
(* and a change of its lists while it initiates.                           *)

Rejected(op) == IF op = "list" THEN "connect" \in active ELSE active # {}

\* The peer that a connection complete event for a cancelled creation names: the
\* creation named none.
NoPeer == "none"

ControllerRuns ==
  /\ Running /\ s.hci # << >>
  /\ LET op == Head(s.hci).op
         m == [s EXCEPT !.hci = Tail(@)]
     IN \/ /\ op \in {"list", "set_random_address"}
           /\ s' = Post(m, Task("OnCommandComplete", [op |-> op, success |-> ~Rejected(op)]))
           /\ address' = IF op = "list" \/ Rejected(op) THEN address ELSE Head(s.hci).address
           /\ rejected' = (rejected \/ (op # "list" /\ Rejected(op)))
           /\ UNCHANGED active
        \/ /\ op \in {"scan_on", "scan_off", "create_connection"}
           /\ active' = CASE op = "scan_on" -> active \cup {"scan"}
                          [] op = "scan_off" -> active \ {"scan"}
                          [] OTHER -> active \cup {"connect"}
           /\ s' = m /\ UNCHANGED <<address, rejected>>
        \/ /\ op = "cancel_connection"
           /\ s' = IF "connect" \notin active THEN m
                   ELSE Post(m, Task("on_le_connection_complete",
                                     [status |-> "UNKNOWN_CONNECTION", peer |-> NoPeer]))
           /\ active' = active \ {"connect"} /\ UNCHANGED <<address, rejected>>
  /\ UNCHANGED <<calls, crossed>>

\* A peer of the connect list is found, or the creation fails.
Connected ==
  /\ Running /\ "connect" \in active
  /\ \E d \in Devices \ s.le.connections, status \in {"SUCCESS", "CONNECTION_FAILED_ESTABLISHMENT"} :
       s' = Post(s, Task("on_le_connection_complete", [status |-> status, peer |-> d]))
  /\ active' = active \ {"connect"}
  /\ UNCHANGED <<address, rejected, calls, crossed>>

Next ==
  \/ SetPolicy \/ CreateLeConnection \/ AddDevice \/ RemoveDevice \/ Scan \/ on_le_disconnect
  \/ RotationAlarm \/ RunTask \/ ControllerRuns \/ Connected

Spec == Init /\ [][Next]_vars
-----------------------------------------------------------------------------
\* Nothing is on its way: no task of the handler and no command.
Quiescent == Running /\ s.tasks = << >> /\ s.hci = << >> /\ s.address_policy # "NOT_SET"

\* What OnPause makes of client c: le_impl starts no connection, the scanning manager does
\* not scan.
Pauses(m, c) == IF c = "le" THEN m.le.pause ELSE m.scan.paused /\ ~m.scan.is_scanning

\* A client that the manager counts as paused has paused, whatever requests to pause and
\* to resume, commands and acknowledgements crossed on the way; unless it unregistered
\* before its acknowledgement arrived and registered again (ack_pause aborts if it did not).
PausedInFact ==
  Running => \A c \in Clients \ crossed : s.clients[c] = "PAUSED" => Pauses(s, c)

\* When the last command is answered everyone goes on: each registered client was
\* resumed and has acknowledged it, le_impl holds no connection back, and the scanning
\* manager is not paused (its OnResume has started the scan that OnPause stopped).
ResumedWhenDone ==
  Quiescent /\ s.cached_commands = << >> =>
    \A c \in Clients \ crossed :
      /\ s.clients[c] \in {"NONE", "RESUMED"}
      /\ IF c = "le" THEN ~s.le.pause /\ s.le.canceled = {} ELSE s.scan.registered => ~s.scan.paused

\* The host and the controller agree in the end: on the address, unless the controller
\* rejected one, and on whether it scans.
HostAgrees ==
  Quiescent =>
    /\ ~rejected => s.le_address = address
    /\ s.scan.is_scanning = ("scan" \in active)

\* "ASSERT(!cached_commands_.empty())": when all clients are paused and the next command is
\* to be sent, there is one.
CommandIsThere == s.aborted # "handle_next_command"

=============================================================================
