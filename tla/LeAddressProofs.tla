-------------------------- MODULE LeAddressProofs --------------------------
(***************************************************************************)
(* Proofs about LeAddressManager, for any set of devices, any policies and *)
(* any number of calls: a client that counts as paused is paused, everyone *)
(* is resumed when the last command is answered, and host and controller   *)
(* agree in the end.                                                       *)
(*                                                                         *)
(* The module has three parts: what each function makes of the host, the   *)
(* invariant Inv with the proof that every function keeps it, and the      *)
(* theorems.  Everything hangs on the order of the tasks in the handler's  *)
(* queue and of the commands in hci, so both are described by Has (it is   *)
(* there), Before (there is one before another) and Final (there is one    *)
(* and none of a set behind it).                                           *)
(***************************************************************************)
EXTENDS LeAddressManager, TLAPS

Commands == {"scan_on", "scan_off", "create_connection", "cancel_connection", "list", "set_random_address"}
Peers == Devices \cup {NoPeer}
Settings == {"NOT_SET", "PUBLIC", "STATIC", "RESOLVABLE"}
Statuses == {"SUCCESS", "CONNECTION_FAILED_ESTABLISHMENT", "UNKNOWN_CONNECTION"}
Reasons == {"no", "GetCurrentAddress", "handle_next_command", "ack_pause", "ack_resume", "SetPrivacyPolicy"}
States == {"NONE", "RESUMED", "WAITING_FOR_PAUSE", "PAUSED", "WAITING_FOR_RESUME"}

Tasks ==
  [run : {"register_client", "unregister_client", "ack_pause", "ack_resume"}, arg : Clients]
    \cup [run : {"push_command"}, arg : {"list"}]
    \cup [run : {"resume_registered_clients", "handle_next_command", "enqueue_command"}, arg : {"none"}]
    \cup [run : {"OnCommandComplete"}, arg : [op : {"list", "set_random_address"}, success : BOOLEAN]]
    \cup [run : {"on_le_connection_complete"}, arg : [status : Statuses, peer : Peers]]

LeImpl == [registered : BOOLEAN, ready_to_unregister : BOOLEAN, pause : BOOLEAN,
           connecting : SUBSET Peers, canceled : SUBSET Peers, connections : SUBSET Peers]

Scanner == [registered : BOOLEAN, is_scanning : BOOLEAN, on_resume : BOOLEAN, paused : BOOLEAN]

Host ==
  [gd_acl : BOOLEAN, le_first : BOOLEAN, address_policy : Settings,
   clients : [Clients -> States], cached_commands : Seq({"list", "rotate"}),
   rotation_alarm : BOOLEAN, le_address : Nat, cached_address : Nat,
   le : LeImpl, scan : Scanner, tasks : Seq(Tasks),
   hci : Seq([op : Commands, address : Nat]), aborted : Reasons]
-----------------------------------------------------------------------------
\* t is in the queue q; a t is before a u in q; a t is in q and no member of T behind it.
Has(q, t) == \E i \in 1..Len(q) : q[i] = t
Before(q, t, u) == \E i, j \in 1..Len(q) : i < j /\ q[i] = t /\ q[j] = u
Final(q, t, T) == \E i \in 1..Len(q) : q[i] = t /\ \A j \in 1..Len(q) : i < j => q[j] \notin T

\* What Append makes of a sequence.
LEMMA Appended ==
  ASSUME NEW S, NEW q \in Seq(S), NEW t \in S
  PROVE  /\ Append(q, t) \in Seq(S) /\ Len(Append(q, t)) = Len(q) + 1 /\ Len(q) \in Nat
         /\ \A i \in 1..Len(q) : Append(q, t)[i] = q[i]
         /\ Append(q, t)[Len(q) + 1] = t
OBVIOUS

\* What Head and Tail make of a sequence that is not empty.
LEMMA Taken ==
  ASSUME NEW S, NEW q \in Seq(S), q # << >>
  PROVE  /\ Tail(q) \in Seq(S) /\ Len(q) \in Nat \ {0} /\ Len(Tail(q)) = Len(q) - 1 /\ Head(q) = q[1] /\ Head(q) \in S
         /\ \A i \in 1..Len(q) - 1 : Tail(q)[i] = q[i + 1]
OBVIOUS

\* Two sequences with the same elements are the same.
LEMMA SameSeq ==
  ASSUME NEW S, NEW p \in Seq(S), NEW q \in Seq(S), Len(p) = Len(q), \A i \in 1..Len(p) : p[i] = q[i]
  PROVE  p = q
<1>1. p \in [1..Len(p) -> S] /\ q \in [1..Len(p) -> S]
  OBVIOUS
<1> QED BY <1>1

\* What a task (or a command) that is appended adds to Has, Before and Final.
LEMMA AppendHas ==
  ASSUME NEW S, NEW q \in Seq(S), NEW t \in S
  PROVE  /\ \A u : Has(Append(q, t), u) <=> Has(q, u) \/ t = u
         /\ \A u, v : Before(Append(q, t), u, v) <=> Before(q, u, v) \/ (Has(q, u) /\ t = v)
         /\ \A u, T : Final(Append(q, t), u, T) <=> t = u \/ (Final(q, u, T) /\ t \notin T)
<1> DEFINE r == Append(q, t)
           n == Len(q)
<1>1. n \in Nat /\ Len(r) = n + 1 /\ r[n + 1] = t /\ \A i \in 1..n : r[i] = q[i]
  BY Appended
<1> HIDE DEF r, n
<1>2. \A i : i \in 1..n + 1 <=> i \in 1..n \/ i = n + 1
  BY <1>1
<1>3. \A i, j \in 1..n + 1 : i < j <=> (i \in 1..n /\ j = n + 1) \/ (i \in 1..n /\ j \in 1..n /\ i < j)
  BY <1>1
<1>4. \A u : Has(r, u) <=> Has(q, u) \/ t = u
  BY <1>1, <1>2, Zenon DEF Has, n
<1>5. \A u, v : Before(r, u, v) <=> Before(q, u, v) \/ (Has(q, u) /\ t = v)
  BY <1>1, <1>2, <1>3 DEF Has, Before, n
<1>6. \A u, T : Final(r, u, T) <=> t = u \/ (Final(q, u, T) /\ t \notin T)
  BY <1>1, <1>2, <1>3 DEF Final, n
<1> QED BY <1>4, <1>5, <1>6, Zenon DEF r

\* What Has, Before and Final say of a queue whose front is taken.
LEMMA TailHas ==
  ASSUME NEW S, NEW q \in Seq(S), q # << >>
  PROVE  /\ \A u : Has(q, u) <=> Has(Tail(q), u) \/ Head(q) = u
         /\ \A u, v : Before(q, u, v) <=> Before(Tail(q), u, v) \/ (Head(q) = u /\ Has(Tail(q), v))
         /\ \A u, T : Final(q, u, T) <=> Final(Tail(q), u, T) \/ (Head(q) = u /\ \A v \in T : ~Has(Tail(q), v))
<1> DEFINE r == Tail(q)
           n == Len(r)
           h == Head(q)
<1>1. n \in Nat /\ Len(q) = n + 1 /\ h = q[1] /\ \A i \in 1..n : r[i] = q[i + 1]
  BY Taken
<1> HIDE DEF r, n, h
<1>2. \A i : i \in 1..n + 1 <=> i = 1 \/ \E k \in 1..n : i = k + 1
  <2> TAKE i
  <2>1. i \in 1..n + 1 /\ i # 1 => i - 1 \in 1..n /\ i = (i - 1) + 1
    BY <1>1
  <2>2. \A k \in 1..n : k + 1 \in 1..n + 1
    BY <1>1
  <2>3. 1 \in 1..n + 1
    BY <1>1
  <2> QED BY <2>1, <2>2, <2>3, Zenon
<1>3. \A k, l \in 1..n : (k + 1 < l + 1 <=> k < l) /\ 1 < k + 1 /\ ~(k + 1 < 1) /\ ~(1 < 1)
  BY <1>1
<1>7. /\ \A i : i \in 1..Len(q) <=> i = 1 \/ \E k \in 1..Len(r) : i = k + 1
      /\ \A k \in 1..Len(r) : q[k + 1] = r[k]
  BY <1>1, <1>2, Zenon DEF n
<1>8. \A k, l \in 1..Len(r) : (k + 1 < l + 1 <=> k < l) /\ 1 < k + 1 /\ ~(k + 1 < 1) /\ ~(1 < 1)
  BY <1>3, Zenon DEF n
<1>9. /\ h = q[1] /\ 1 \in 1..Len(q)
      /\ \A k \in 1..Len(r) : k + 1 \in 1..Len(q)
  BY <1>1, <1>7, Zenon
<1>10. \A i \in 1..Len(q) : i = 1 \/ \E k \in 1..Len(r) : i = k + 1
  BY <1>7, Zenon
<1>11. \A j \in 1..Len(q) : 1 < j => j # 1
  BY <1>1
<1>4. \A u : Has(q, u) <=> Has(r, u) \/ h = u
  <2> TAKE u
  <2>1. ASSUME Has(q, u) PROVE Has(r, u) \/ h = u
    <3>1. PICK i \in 1..Len(q) : q[i] = u
      BY <2>1, Zenon DEF Has
    <3>2. ASSUME NEW k \in 1..Len(r), i = k + 1 PROVE Has(r, u)
      BY <1>7, <3>1, <3>2, Zenon DEF Has
    <3> QED BY <1>9, <1>10, <3>1, <3>2, Zenon
  <2>2. ASSUME Has(r, u) PROVE Has(q, u)
    <3>1. PICK k \in 1..Len(r) : r[k] = u
      BY <2>2, Zenon DEF Has
    <3> QED BY <1>7, <1>9, <3>1, Zenon DEF Has
  <2> QED BY <1>9, <2>1, <2>2, Zenon DEF Has
<1>5. \A u, v : Before(q, u, v) <=> Before(r, u, v) \/ (h = u /\ Has(r, v))
  <2> TAKE u, v
  <2>1. ASSUME Before(q, u, v) PROVE Before(r, u, v) \/ (h = u /\ Has(r, v))
    <3>1. PICK i \in 1..Len(q), j \in 1..Len(q) : i < j /\ q[i] = u /\ q[j] = v
      BY <2>1, Zenon DEF Before
    <3>2. PICK l \in 1..Len(r) : j = l + 1
      <4>1. j # 1
        BY <1>1, <3>1
      <4> QED BY <1>10, <4>1, Zenon
    <3>3. CASE i = 1
      BY <1>7, <1>9, <3>1, <3>2, <3>3, Zenon DEF Has
    <3>4. ASSUME NEW k \in 1..Len(r), i = k + 1 PROVE Before(r, u, v)
      BY <1>7, <1>8, <3>1, <3>2, <3>4, Zenon DEF Before
    <3> QED BY <1>7, <3>3, <3>4, Zenon
  <2>2. ASSUME Before(r, u, v) PROVE Before(q, u, v)
    <3>1. PICK i \in 1..Len(r), j \in 1..Len(r) : i < j /\ r[i] = u /\ r[j] = v
      BY <2>2, Zenon DEF Before
    <3>2. i + 1 < j + 1 /\ q[i + 1] = u /\ q[j + 1] = v /\ i + 1 \in 1..Len(q) /\ j + 1 \in 1..Len(q)
      BY <1>7, <1>8, <1>9, <3>1, Zenon
    <3> QED BY <3>2, Zenon DEF Before
  <2>3. ASSUME h = u, Has(r, v) PROVE Before(q, u, v)
    <3>1. PICK j \in 1..Len(r) : r[j] = v
      BY <2>3, Zenon DEF Has
    <3>2. 1 < j + 1 /\ q[1] = u /\ q[j + 1] = v /\ j + 1 \in 1..Len(q)
      BY <1>7, <1>8, <1>9, <2>3, <3>1, Zenon
    <3> QED BY <1>9, <3>2, Zenon DEF Before
  <2> QED BY <2>1, <2>2, <2>3, Zenon
<1>6. \A u, T : Final(q, u, T) <=> Final(r, u, T) \/ (h = u /\ \A v \in T : ~Has(r, v))
  <2> TAKE u, T
  <2>1. ASSUME NEW k \in 1..Len(r)
        PROVE  (\A j \in 1..Len(q) : k + 1 < j => q[j] \notin T) <=> \A l \in 1..Len(r) : k < l => r[l] \notin T
    <3>1. \A l \in 1..Len(r) : l + 1 \in 1..Len(q) /\ q[l + 1] = r[l] /\ (k + 1 < l + 1 <=> k < l)
      BY <1>7, <1>8, <1>9, Zenon
    <3>2. \A j \in 1..Len(q) : k + 1 < j => \E l \in 1..Len(r) : j = l + 1
      <4>1. \A j \in 1..Len(q) : k + 1 < j => j # 1
        OBVIOUS
      <4> QED BY <1>10, <4>1, Zenon
    <3> QED BY <3>1, <3>2, Zenon
  <2>2. (\A j \in 1..Len(q) : 1 < j => q[j] \notin T) <=> \A v \in T : ~Has(r, v)
    <3>1. \A l \in 1..Len(r) : l + 1 \in 1..Len(q) /\ q[l + 1] = r[l] /\ 1 < l + 1
      BY <1>7, <1>8, <1>9, Zenon
    <3>2. \A j \in 1..Len(q) : 1 < j => \E l \in 1..Len(r) : j = l + 1
      BY <1>10, <1>11, Zenon
    <3> QED BY <3>1, <3>2 DEF Has
  <2>3. ASSUME Final(q, u, T) PROVE Final(r, u, T) \/ (h = u /\ \A v \in T : ~Has(r, v))
    <3>1. PICK i \in 1..Len(q) : q[i] = u /\ \A j \in 1..Len(q) : i < j => q[j] \notin T
      BY <2>3, Zenon DEF Final
    <3>2. CASE i = 1
      BY <1>9, <2>2, <3>1, <3>2, Zenon
    <3>3. ASSUME NEW k \in 1..Len(r), i = k + 1 PROVE Final(r, u, T)
      BY <1>7, <2>1, <3>1, <3>3, Zenon DEF Final
    <3> QED BY <1>7, <3>2, <3>3, Zenon
  <2>4. ASSUME Final(r, u, T) PROVE Final(q, u, T)
    <3>1. PICK k \in 1..Len(r) : r[k] = u /\ \A l \in 1..Len(r) : k < l => r[l] \notin T
      BY <2>4, Zenon DEF Final
    <3> QED BY <1>7, <1>9, <2>1, <3>1, Zenon DEF Final
  <2>5. ASSUME h = u, \A v \in T : ~Has(r, v) PROVE Final(q, u, T)
    BY <1>9, <2>2, <2>5, Zenon DEF Final
  <2> QED BY <2>3, <2>4, <2>5, Zenon
<1> QED BY <1>4, <1>5, <1>6, Zenon DEF r, h
-----------------------------------------------------------------------------
\* The tasks, by the functions they run.
RG(c) == Task("register_client", c)
UN(c) == Task("unregister_client", c)
AP(c) == Task("ack_pause", c)
AR(c) == Task("ack_resume", c)
PC == Task("push_command", "list")
RS == Task("resume_registered_clients", "none")
HN == Task("handle_next_command", "none")
EC == Task("enqueue_command", "none")

\* Every task that the code posts is one of Tasks.
LEMMA Known ==
  /\ \A c \in Clients : RG(c) \in Tasks /\ UN(c) \in Tasks /\ AP(c) \in Tasks /\ AR(c) \in Tasks
  /\ PC \in Tasks /\ RS \in Tasks /\ HN \in Tasks /\ EC \in Tasks
  /\ \A op \in {"list", "set_random_address"}, b \in BOOLEAN :
       Task("OnCommandComplete", [op |-> op, success |-> b]) \in Tasks
  /\ \A st \in Statuses, d \in Peers : Task("on_le_connection_complete", [status |-> st, peer |-> d]) \in Tasks
BY DEF Tasks, RG, UN, AP, AR, PC, RS, HN, EC, Task, Clients

\* A task has the function and the argument it was made of.
LEMMA Runs == \A f, x : Task(f, x).run = f /\ Task(f, x).arg = x
BY DEF Task

Cmd(m, op) == [op |-> op, address |-> m.cached_address]

SameManager(m, r) ==
  /\ r.clients = m.clients /\ r.cached_commands = m.cached_commands
  /\ r.address_policy = m.address_policy /\ r.rotation_alarm = m.rotation_alarm
  /\ r.le_address = m.le_address /\ r.cached_address = m.cached_address

\* Post adds a task at the end of the queue and leaves the rest of the host alone.
LEMMA PostIs ==
  ASSUME NEW m \in Host, NEW t \in Tasks
  PROVE  LET r == Post(m, t)
         IN /\ r \in Host /\ SameManager(m, r) /\ r.le = m.le /\ r.scan = m.scan /\ r.hci = m.hci
            /\ r.tasks = Append(m.tasks, t)
<1>1. Post(m, t) \in Host
  BY Appended, Zenon DEF Post, Host
<1> QED BY <1>1, Zenon DEF Post, Host, SameManager

\* EnqueueCommand adds a command at the end of hci and leaves the rest of the host alone.
LEMMA EnqueueIs ==
  ASSUME NEW m \in Host, NEW op \in Commands
  PROVE  LET r == EnqueueCommand(m, op)
         IN /\ r \in Host /\ SameManager(m, r) /\ r.le = m.le /\ r.scan = m.scan /\ r.tasks = m.tasks
            /\ r.hci = Append(m.hci, Cmd(m, op))
            /\ Cmd(m, op) \in [op : Commands, address : Nat]
<1>1. Cmd(m, op) \in [op : Commands, address : Nat]
  BY DEF Host, Cmd
<1>2. EnqueueCommand(m, op) \in Host
  BY <1>1, Appended, Zenon DEF EnqueueCommand, Host, Cmd
<1> QED BY <1>1, <1>2, Zenon DEF EnqueueCommand, Host, SameManager, Cmd

\* add_device_to_list registers le_impl if it is not registered, holds its connections back,
\* and posts the change of the list behind the registration.
LEMMA AddIs ==
  ASSUME NEW m \in Host
  PROVE  LET r == add_device_to_list(m)
         IN /\ r \in Host /\ SameManager(m, r) /\ r.hci = m.hci /\ r.scan = m.scan
            /\ r.tasks = IF m.le.registered THEN Append(m.tasks, PC) ELSE Append(Append(m.tasks, RG("le")), PC)
            /\ r.le.pause = TRUE /\ r.le.registered = TRUE
            /\ r.le.connecting = m.le.connecting /\ r.le.canceled = m.le.canceled
<1> DEFINE a == le_Register(m)
           b == [a EXCEPT !.le.pause = TRUE]
<1>1. "le" \in Clients
  BY DEF Clients
<1>2. [m EXCEPT !.le.registered = TRUE] \in Host
  BY Zenon DEF Host, LeImpl
<1>3. a \in Host
  BY <1>1, <1>2, PostIs, Known, Zenon DEF le_Register, RG
<1>4. b \in Host
  BY <1>3, Zenon DEF Host, LeImpl
<1>5. add_device_to_list(m) \in Host
  BY <1>4, PostIs, Known, Zenon DEF add_device_to_list, ChangeDeviceList, PC
<1>6. CASE m.le.registered
  BY <1>5, <1>6, ZenonT(40) DEF SameManager, Host, LeImpl, add_device_to_list, ChangeDeviceList, le_Register, Post, PC
<1>7. CASE ~m.le.registered
  BY <1>5, <1>7, ZenonT(40) DEF SameManager, Host, LeImpl, add_device_to_list, ChangeDeviceList, le_Register, Post, PC, RG
<1> QED BY <1>6, <1>7, Zenon

\* create_le_connection, called from outside, always holds the new connection back: it has
\* changed the connect list just before.
LEMMA CreateIs ==
  ASSUME NEW m \in Host, NEW d \in Devices
  PROVE  LET r == create_le_connection(m, d, TRUE)
             a == add_device_to_list(m)
         IN /\ r \in Host /\ SameManager(m, r) /\ r.hci = m.hci /\ r.scan = m.scan
            /\ r.tasks = a.tasks /\ r.le.pause = TRUE /\ r.le.registered = TRUE
            /\ r.le.connecting = m.le.connecting /\ r.le.canceled = m.le.canceled \cup {d}
<1> DEFINE a == add_device_to_list(m)
<1>1. a \in Host /\ a.le.registered = TRUE /\ a.le.pause = TRUE
  BY AddIs, Zenon
<1> HIDE DEF a
<1>2. create_le_connection(m, d, TRUE) = [a EXCEPT !.le.canceled = @ \cup {d}]
  BY <1>1, Zenon DEF create_le_connection, le_Register, initiate, a
<1>3. d \in Peers
  BY Zenon DEF Peers
<1>4. [a EXCEPT !.le.canceled = @ \cup {d}] \in Host
  BY <1>1, <1>3, Zenon DEF Host, LeImpl
<1>5. LET r == [a EXCEPT !.le.canceled = @ \cup {d}]
      IN /\ SameManager(a, r) /\ r.hci = a.hci /\ r.scan = a.scan
         /\ r.tasks = a.tasks /\ r.le.pause = TRUE /\ r.le.registered = TRUE
         /\ r.le.connecting = a.le.connecting /\ r.le.canceled = a.le.canceled \cup {d}
  BY <1>1, Zenon DEF Host, LeImpl, SameManager
<1>6. /\ SameManager(m, a) /\ a.hci = m.hci /\ a.scan = m.scan
      /\ a.le.connecting = m.le.connecting /\ a.le.canceled = m.le.canceled
  BY AddIs, Zenon DEF a
<1> QED BY <1>2, <1>4, <1>5, <1>6, Zenon DEF SameManager, a

\* stop_scan leaves r.
Stopped(m, r) ==
  /\ r \in Host /\ SameManager(m, r) /\ r.le = m.le /\ r.tasks = m.tasks
  /\ r.hci = Append(m.hci, Cmd(m, "scan_off"))
  /\ ~r.scan.is_scanning /\ r.scan.registered = m.scan.registered /\ r.scan.paused = m.scan.paused

\* stop_scan stops the scan and tells the controller.
LEMMA StopIs ==
  ASSUME NEW m \in Host
  PROVE  Stopped(m, stop_scan(m))
<1> DEFINE a == [m EXCEPT !.scan.is_scanning = FALSE]
<1>1. a \in Host
  BY Zenon DEF Host, Scanner
<1>2. stop_scan(m) \in Host
  BY <1>1, EnqueueIs, Zenon DEF stop_scan, Commands
<1> QED BY <1>2 DEF stop_scan, EnqueueCommand, Host, Scanner, SameManager, Cmd, Stopped

\* start_scan leaves r.
Started(m, r) ==
  /\ r \in Host /\ SameManager(m, r) /\ r.le = m.le /\ r.scan.paused = m.scan.paused
  /\ m.scan.paused =>
       /\ r.tasks = m.tasks /\ r.hci = m.hci
       /\ r.scan.is_scanning = m.scan.is_scanning /\ r.scan.registered = m.scan.registered
  /\ ~m.scan.paused =>
       /\ r.hci = Append(m.hci, Cmd(m, "scan_on"))
       /\ r.tasks = IF m.scan.registered THEN m.tasks ELSE Append(m.tasks, RG("scan"))
       /\ r.scan.is_scanning /\ r.scan.registered

\* start_scan starts the scan unless the scanning manager is paused.
LEMMA StartIs ==
  ASSUME NEW m \in Host
  PROVE  Started(m, start_scan(m))
<1> DEFINE a == [m EXCEPT !.scan.is_scanning = TRUE]
           b == [a EXCEPT !.scan.registered = TRUE]
           g == scan_Register(a)
           r == EnqueueCommand(g, "scan_on")
<1>1. a \in Host /\ [m EXCEPT !.scan.on_resume = TRUE] \in Host
  BY Zenon DEF Host, Scanner
<1>2. b \in Host
  BY <1>1, Zenon DEF Host, Scanner
<1>3. "scan" \in Clients /\ "scan_on" \in Commands
  BY DEF Clients, Commands
<1>4. g \in Host
  BY <1>1, <1>2, <1>3, PostIs, Known, Zenon DEF scan_Register, RG
<1>5. /\ SameManager(m, g) /\ g.le = m.le /\ g.hci = m.hci
      /\ g.scan.paused = m.scan.paused /\ g.scan.is_scanning /\ g.scan.registered
      /\ g.tasks = IF m.scan.registered THEN m.tasks ELSE Append(m.tasks, RG("scan"))
  <2>1. CASE m.scan.registered
    BY <2>1, Zenon DEF scan_Register, Host, Scanner, SameManager
  <2>2. CASE ~m.scan.registered
    BY <2>2, Zenon DEF scan_Register, Post, Host, Scanner, SameManager, RG
  <2> QED BY <2>1, <2>2, Zenon
<1> HIDE DEF g
<1>6. /\ r \in Host /\ SameManager(g, r) /\ r.le = g.le /\ r.scan = g.scan /\ r.tasks = g.tasks
      /\ r.hci = Append(g.hci, Cmd(g, "scan_on"))
  BY <1>3, <1>4, EnqueueIs, Zenon
<1>7. Cmd(g, "scan_on") = Cmd(m, "scan_on")
  BY <1>5, Zenon DEF Cmd, SameManager
<1> HIDE DEF r
<1>8. CASE m.scan.paused
  BY <1>1, <1>8, ZenonT(40) DEF start_scan, Host, Scanner, SameManager, Started
<1>9. CASE ~m.scan.paused
  <2>1. start_scan(m) = r
    BY <1>9, Zenon DEF start_scan, r, g
  <2> QED BY <1>5, <1>6, <1>7, <1>9, <2>1 DEF SameManager, Started
<1> QED BY <1>8, <1>9, Zenon

\* scan leaves r.
Scanned(m, start, r) ==
  /\ r \in Host /\ SameManager(m, r) /\ r.le = m.le /\ r.scan.paused = m.scan.paused
  /\ start /\ m.scan.paused =>
       /\ r.tasks = m.tasks /\ r.hci = Append(m.hci, Cmd(m, "scan_off"))
       /\ ~r.scan.is_scanning /\ r.scan.registered = m.scan.registered
  /\ start /\ ~m.scan.paused =>
       /\ r.hci = Append(Append(m.hci, Cmd(m, "scan_off")), Cmd(m, "scan_on"))
       /\ r.tasks = IF m.scan.registered THEN m.tasks ELSE Append(m.tasks, RG("scan"))
       /\ r.scan.is_scanning /\ r.scan.registered
  /\ ~start =>
       /\ r.tasks = IF m.scan.registered THEN Append(m.tasks, UN("scan")) ELSE m.tasks
       /\ r.hci = Append(m.hci, Cmd(m, "scan_off"))
       /\ ~r.scan.is_scanning /\ ~r.scan.registered

\* scan(TRUE) and scan(FALSE), whole.
LEMMA ScanIs ==
  ASSUME NEW m \in Host, NEW start \in BOOLEAN
  PROVE  Scanned(m, start, scan(m, start))
<1> DEFINE r == scan(m, start)
<1>1. CASE start
  <2> DEFINE a == stop_scan(m)
  <2>1. Stopped(m, a) /\ r = start_scan(a)
    BY <1>1, StopIs, Zenon DEF scan, configure_scan
  <2> HIDE DEF a, r
  <2>2. Started(a, r)
    BY <2>1, StartIs, Zenon DEF Stopped
  <2>3. \A op : Cmd(a, op) = Cmd(m, op)
    BY <2>1, Zenon DEF Cmd, SameManager, Stopped
  <2>4. Scanned(m, start, r)
    BY <1>1, <2>1, <2>2, <2>3 DEF SameManager, Stopped, Started, Scanned
  <2> QED BY <2>4, Zenon DEF r
<1>2. CASE ~start
  <2> DEFINE b == [m EXCEPT !.scan.registered = FALSE]
             a == scan_Unregister(m)
  <2>1. "scan" \in Clients /\ b \in Host
    BY Zenon DEF Clients, Host, Scanner
  <2>2. a \in Host
    BY <2>1, PostIs, Known, Zenon DEF scan_Unregister, UN
  <2>3. /\ SameManager(m, a) /\ a.le = m.le /\ a.hci = m.hci /\ a.scan.paused = m.scan.paused
        /\ ~a.scan.registered
        /\ a.tasks = IF m.scan.registered THEN Append(m.tasks, UN("scan")) ELSE m.tasks
    BY DEF scan_Unregister, Post, Host, Scanner, SameManager, UN
  <2>4. r = stop_scan(a)
    BY <1>2, Zenon DEF scan
  <2> HIDE DEF a, r
  <2>5. Stopped(a, r)
    BY <2>2, <2>4, StopIs, Zenon
  <2>6. \A op : Cmd(a, op) = Cmd(m, op)
    BY <2>3, Zenon DEF Cmd, SameManager
  <2>7. Scanned(m, start, r)
    BY <1>2, <2>3, <2>5, <2>6 DEF SameManager, Stopped, Scanned
  <2> QED BY <2>7, Zenon DEF r
<1> QED BY <1>1, <1>2, Zenon
-----------------------------------------------------------------------------
Cmds == [op : Commands, address : Nat]
Ops(h) == [i \in 1..Len(h) |-> h[i].op]
ScanOps == {"scan_on", "scan_off"}
On(h) == Final(Ops(h), "scan_on", ScanOps)
Off(h) == Final(Ops(h), "scan_off", ScanOps)
Sent(h, op) == Has(Ops(h), op)
SetAddress(a) == [op |-> "set_random_address", address |-> a]
Last(h, a) == Final(h, SetAddress(a), [op : {"set_random_address"}, address : Nat])

\* The operations of a sequence of commands.
LEMMA OpsOf ==
  ASSUME NEW h \in Seq(Cmds)
  PROVE  /\ \A i \in 1..Len(h) : h[i] \in Cmds /\ h[i].op \in Commands
         /\ Ops(h) \in Seq(Commands) /\ Len(Ops(h)) = Len(h) /\ Len(h) \in Nat
         /\ \A i \in 1..Len(h) : Ops(h)[i] = h[i].op
<1>1. \A i \in 1..Len(h) : h[i] \in Cmds
  OBVIOUS
<1>2. \A x \in Cmds : x.op \in Commands
  BY DEF Cmds
<1>3. \A i \in 1..Len(h) : h[i].op \in Commands
  BY <1>1, <1>2, Zenon
<1> QED BY <1>1, <1>3 DEF Ops

\* What a command that is appended changes about the commands on their way: which are sent,
\* whether the last scan command is an on or an off, and which address the last one sets.
LEMMA HciAppend ==
  ASSUME NEW h \in Seq(Cmds), NEW x \in Cmds
  PROVE  LET g == Append(h, x)
         IN /\ \A op : Sent(g, op) <=> Sent(h, op) \/ x.op = op
            /\ On(g) <=> x.op = "scan_on" \/ (On(h) /\ x.op # "scan_off")
            /\ Off(g) <=> x.op = "scan_off" \/ (Off(h) /\ x.op # "scan_on")
            /\ x.op # "set_random_address" => \A a : Last(g, a) <=> Last(h, a)
            /\ x.op = "set_random_address" => Last(g, x.address)
<1> DEFINE g == Append(h, x)
           o == Ops(h)
           p == x.op
<1>1. p \in Commands /\ x.address \in Nat
  BY DEF Cmds
<1>2. o \in Seq(Commands) /\ Ops(g) \in Seq(Commands) /\ Len(Ops(g)) = Len(h) + 1 /\ Len(o) = Len(h)
  <2>1. Len(h) \in Nat /\ Len(g) = Len(h) + 1 /\ g \in Seq(Cmds)
    BY Appended
  <2> QED BY <2>1, OpsOf, Zenon
<1>3. Ops(g) = Append(o, p)
  <2>1. \A i \in 1..Len(h) + 1 : Ops(g)[i] = Append(o, p)[i]
    <3>1. Len(h) \in Nat /\ Len(g) = Len(h) + 1 /\ g[Len(h) + 1] = x /\ \A i \in 1..Len(h) : g[i] = h[i]
      BY Appended
    <3>2. g \in Seq(Cmds) /\ \A i \in 1..Len(h) : o[i] = h[i].op
      BY Appended, OpsOf
    <3>3. \A i \in 1..Len(h) + 1 : Ops(g)[i] = g[i].op
      BY <3>1, <3>2, OpsOf, Zenon
    <3>4. Append(o, p)[Len(h) + 1] = p /\ \A i \in 1..Len(h) : Append(o, p)[i] = o[i]
      BY <1>1, <1>2, Appended
    <3>5. Len(h) + 1 \in 1..Len(h) + 1 /\ \A i \in 1..Len(h) + 1 : i \in 1..Len(h) \/ i = Len(h) + 1
      BY <3>1
    <3>6. \A i \in 1..Len(h) : i \in 1..Len(h) + 1
      BY <3>1
    <3> HIDE DEF g, o, p
    <3>7. \A i \in 1..Len(h) : Ops(g)[i] = Append(o, p)[i]
      BY <3>1, <3>2, <3>3, <3>4, <3>6, Zenon
    <3>8. Ops(g)[Len(h) + 1] = Append(o, p)[Len(h) + 1]
      BY <3>1, <3>3, <3>4, <3>5, Zenon DEF p
    <3> QED BY <3>5, <3>7, <3>8, Zenon
  <2>2. Append(o, p) \in Seq(Commands) /\ Len(Append(o, p)) = Len(h) + 1
    BY <1>1, <1>2, Appended
  <2> QED BY <1>2, <2>1, <2>2, SameSeq
<1> HIDE DEF o, p
<1>4. /\ \A op : Has(Append(o, p), op) <=> Has(o, op) \/ p = op
      /\ \A u, T : Final(Append(o, p), u, T) <=> p = u \/ (Final(o, u, T) /\ p \notin T)
  BY <1>1, <1>2, AppendHas, Zenon
<1>5. \A u, T : Final(g, u, T) <=> x = u \/ (Final(h, u, T) /\ x \notin T)
  BY AppendHas, Zenon
<1>6. p # "set_random_address" => x \notin [op : {"set_random_address"}, address : Nat]
  BY DEF p
<1>7. p # "set_random_address" => \A a : x # SetAddress(a)
  BY DEF p, SetAddress
<1>8. p = "set_random_address" => x = SetAddress(x.address)
  BY DEF p, SetAddress, Cmds
<1>9. "scan_on" # "scan_off"
  OBVIOUS
<1>10. ScanOps = {"scan_on", "scan_off"}
  BY DEF ScanOps
<1>16. p \notin ScanOps <=> p # "scan_on" /\ p # "scan_off"
  BY <1>10
<1>17. /\ On(g) <=> p = "scan_on" \/ (On(h) /\ p \notin ScanOps)
       /\ Off(g) <=> p = "scan_off" \/ (Off(h) /\ p \notin ScanOps)
  BY <1>3, <1>4, Zenon DEF On, Off, o
<1>11. On(g) <=> p = "scan_on" \/ (On(h) /\ p # "scan_off")
  BY <1>16, <1>17, Zenon
<1>12. Off(g) <=> p = "scan_off" \/ (Off(h) /\ p # "scan_on")
  BY <1>16, <1>17, Zenon
<1>13. \A op : Sent(g, op) <=> Sent(h, op) \/ p = op
  BY <1>3, <1>4, Zenon DEF Sent, o
<1>14. p # "set_random_address" => \A a : Last(g, a) <=> Last(h, a)
  BY <1>5, <1>6, <1>7, Zenon DEF Last
<1>15. p = "set_random_address" => Last(g, x.address)
  BY <1>5, <1>8, Zenon DEF Last
<1> QED BY <1>11, <1>12, <1>13, <1>14, <1>15, Zenon DEF p

\* The same for the command in front, when it is taken.
LEMMA HciTail ==
  ASSUME NEW h \in Seq(Cmds), h # << >>
  PROVE  LET g == Tail(h)
             op == Head(h).op
         IN /\ \A o : Sent(h, o) <=> Sent(g, o) \/ op = o
            /\ On(h) <=> On(g) \/ (op = "scan_on" /\ \A o \in ScanOps : ~Sent(g, o))
            /\ Off(h) <=> Off(g) \/ (op = "scan_off" /\ \A o \in ScanOps : ~Sent(g, o))
            /\ op # "set_random_address" => \A a : Last(h, a) <=> Last(g, a)
            /\ \A a : Last(h, a) => Last(g, a) \/ (~Sent(g, "set_random_address") /\ Head(h).address = a)
<1> DEFINE g == Tail(h)
           o == Ops(h)
           x == Head(h)
<1>0. g \in Seq(Cmds) /\ Len(h) \in Nat \ {0} /\ Len(g) = Len(h) - 1 /\ x = h[1] /\ x \in Cmds
       /\ \A i \in 1..Len(h) - 1 : g[i] = h[i + 1]
  BY Taken
<1>3. /\ o \in Seq(Commands) /\ Ops(g) \in Seq(Commands) /\ Len(o) = Len(h) /\ Len(Ops(g)) = Len(g) /\ o # << >>
      /\ \A i \in 1..Len(h) : o[i] = h[i].op
      /\ \A i \in 1..Len(g) : Ops(g)[i] = g[i].op
  <2>1. /\ o \in Seq(Commands) /\ Ops(g) \in Seq(Commands) /\ Len(o) = Len(h) /\ Len(Ops(g)) = Len(g)
        /\ \A i \in 1..Len(h) : o[i] = h[i].op
        /\ \A i \in 1..Len(g) : Ops(g)[i] = g[i].op
    BY <1>0, OpsOf, Zenon
  <2>2. o # << >>
    BY <1>0, <2>1
  <2> QED BY <2>1, <2>2, Zenon
<1> HIDE DEF o, g, x
<1>4. Head(o) = x.op
  BY <1>0, <1>3
<1>5. Tail(o) = Ops(g)
  <2>1. /\ Tail(o) \in Seq(Commands) /\ Len(Tail(o)) = Len(o) - 1
        /\ \A i \in 1..Len(o) - 1 : Tail(o)[i] = o[i + 1]
    BY <1>3, Taken
  <2>2. \A i \in 1..Len(h) - 1 : o[i + 1] = Ops(g)[i]
    <3>1. \A i \in 1..Len(h) - 1 : i + 1 \in 1..Len(h) /\ i \in 1..Len(g)
      BY <1>0
    <3> QED BY <1>0, <1>3, <3>1, Zenon
  <2> QED BY <1>0, <1>3, <2>1, <2>2, SameSeq, Zenon
<1>6. /\ \A u : Has(o, u) <=> Has(Ops(g), u) \/ x.op = u
      /\ \A u, T : Final(o, u, T) <=> Final(Ops(g), u, T) \/ (x.op = u /\ \A v \in T : ~Has(Ops(g), v))
  <2>1. /\ \A u : Has(o, u) <=> Has(Tail(o), u) \/ Head(o) = u
        /\ \A u, T : Final(o, u, T) <=> Final(Tail(o), u, T) \/ (Head(o) = u /\ \A v \in T : ~Has(Tail(o), v))
    BY <1>3, TailHas, Zenon
  <2> QED BY <1>4, <1>5, <2>1, Zenon
<1>7. \A u, T : Final(h, u, T) <=> Final(g, u, T) \/ (x = u /\ \A v \in T : ~Has(g, v))
  BY TailHas, Zenon DEF g, x
<1> DEFINE T == [op : {"set_random_address"}, address : Nat]
<1>8. (\A v \in T : ~Has(g, v)) => ~Sent(g, "set_random_address")
  <2> SUFFICES ASSUME Sent(g, "set_random_address") PROVE \E v \in T : Has(g, v)
    BY Zenon
  <2>1. PICK i \in 1..Len(Ops(g)) : Ops(g)[i] = "set_random_address"
    BY Zenon DEF Sent, Has
  <2>2. i \in 1..Len(g) /\ g[i].op = "set_random_address"
    BY <1>3, <2>1
  <2>3. g[i] \in T
    <3>1. g[i] \in Cmds
      BY <1>0, <2>2, OpsOf, Zenon
    <3> QED BY <2>2, <3>1 DEF Cmds
  <2> QED BY <2>2, <2>3, Zenon DEF Has
<1>9. \A a : x = SetAddress(a) => x.op = "set_random_address" /\ x.address = a
  BY DEF SetAddress
<1>10. On(h) <=> On(g) \/ (x.op = "scan_on" /\ \A u \in ScanOps : ~Sent(g, u))
  BY <1>6, Zenon DEF On, Sent, o
<1>11. Off(h) <=> Off(g) \/ (x.op = "scan_off" /\ \A u \in ScanOps : ~Sent(g, u))
  BY <1>6, Zenon DEF Off, Sent, o
<1>12. \A u : Sent(h, u) <=> Sent(g, u) \/ x.op = u
  BY <1>6, Zenon DEF Sent, o
<1>13. x.op # "set_random_address" => \A a : Last(h, a) <=> Last(g, a)
  <2>1. \A a : Last(h, a) <=> Last(g, a) \/ (x = SetAddress(a) /\ \A v \in T : ~Has(g, v))
    BY <1>7, Zenon DEF Last
  <2> QED BY <1>9, <2>1, Zenon
<1>14. \A a : Last(h, a) => Last(g, a) \/ (~Sent(g, "set_random_address") /\ x.address = a)
  BY <1>7, <1>8, <1>9, Zenon DEF Last
<1> QED BY <1>10, <1>11, <1>12, <1>13, <1>14, Zenon DEF g, x
-----------------------------------------------------------------------------
\* What a pause or a resume leaves alone.
SameCommands(m, r) ==
  /\ r.cached_commands = m.cached_commands /\ r.address_policy = m.address_policy
  /\ r.rotation_alarm = m.rotation_alarm /\ r.le_address = m.le_address /\ r.cached_address = m.cached_address

\* The commands of g are those of h and others that no one counts.
SameHci(h, g) ==
  /\ \A op \in {"list", "set_random_address"} : Sent(g, op) <=> Sent(h, op)
  /\ \A a : Last(g, a) <=> Last(h, a)

SameScan(h, g) == (On(g) <=> On(h)) /\ (Off(g) <=> Off(h))

\* A command of the scan or of a connection changes nothing about lists and addresses.
LEMMA MoreHci ==
  ASSUME NEW h \in Seq(Cmds), NEW x \in Cmds, x.op \notin {"list", "set_random_address"}
  PROVE  /\ SameHci(h, Append(h, x))
         /\ x.op \notin ScanOps => SameScan(h, Append(h, x)) /\ \A op \in ScanOps : Sent(Append(h, x), op) <=> Sent(h, op)
         /\ x.op = "scan_off" => Off(Append(h, x)) /\ ~On(Append(h, x)) /\ Sent(Append(h, x), "scan_off")
         /\ x.op = "scan_on" => On(Append(h, x)) /\ ~Off(Append(h, x)) /\ Sent(Append(h, x), "scan_on")
<1>1. x.op # "list" /\ x.op # "set_random_address" /\ "scan_on" # "scan_off"
  OBVIOUS
<1>2. x.op \notin ScanOps => x.op # "scan_on" /\ x.op # "scan_off"
  BY DEF ScanOps
<1>3. \A op \in {"list", "set_random_address"} : op = "list" \/ op = "set_random_address"
  OBVIOUS
<1> QED BY <1>1, <1>2, <1>3, HciAppend, Zenon DEF SameHci, SameScan

Asked(m, c) == m.clients[c] \notin {"NONE", "PAUSED", "WAITING_FOR_PAUSE"}

\* pause_client, for a client that is asked, leaves r.
PausedOne(m, c, r) ==
  /\ r \in Host /\ SameCommands(m, r)
  /\ r.clients[c] = "WAITING_FOR_PAUSE" /\ \A d \in Clients : d # c => r.clients[d] = m.clients[d]
  /\ r.tasks = Append(m.tasks, AP(c))
  /\ SameHci(m.hci, r.hci)
  /\ c = "le" =>
       /\ r.scan = m.scan /\ SameScan(m.hci, r.hci) /\ \A op \in ScanOps : Sent(r.hci, op) <=> Sent(m.hci, op)
       /\ r.le.pause /\ r.le.registered = m.le.registered
       /\ r.le.connecting = m.le.connecting /\ (r.le.canceled = m.le.canceled \/ m.le.connecting # {})
  /\ c = "scan" =>
       /\ r.le = m.le /\ r.scan.paused /\ ~r.scan.is_scanning /\ r.scan.registered = m.scan.registered
       /\ Off(r.hci) /\ ~On(r.hci) /\ Sent(r.hci, "scan_off")

\* pause_client asks a client that is resumed, or about to resume, to pause.
LEMMA PauseIs ==
  ASSUME NEW m \in Host, NEW c \in Clients, Asked(m, c)
  PROVE  PausedOne(m, c, pause_client(m, c))
<1> DEFINE a == [m EXCEPT !.clients[c] = "WAITING_FOR_PAUSE"]
<1>1. a \in Host
  <2>1. "WAITING_FOR_PAUSE" \in States
    BY DEF States
  <2> QED BY <2>1, Zenon DEF Host
<1>2. /\ SameCommands(m, a) /\ a.tasks = m.tasks /\ a.hci = m.hci /\ a.le = m.le /\ a.scan = m.scan
      /\ a.clients[c] = "WAITING_FOR_PAUSE" /\ \A d \in Clients : d # c => a.clients[d] = m.clients[d]
  BY DEF Host, SameCommands
<1>3. pause_client(m, c) = OnPause(a, c)
  BY DEF pause_client, Asked
<1> HIDE DEF a
<1>4. CASE c = "le"
  <2> DEFINE b == [a EXCEPT !.le.pause = TRUE]
             e == [b EXCEPT !.le.canceled = a.le.connecting]
             f == EnqueueCommand(e, "cancel_connection")
             g == IF a.le.connecting = {} THEN b ELSE f
             r == Post(g, AP(c))
  <2>10. OnPause(a, c) = r
    BY <1>4 DEF OnPause, le_OnPause, AP
  <2>1. b \in Host
    BY <1>1, Zenon DEF Host, LeImpl
  <2>2. e \in Host
    <3>1. a.le.connecting \in SUBSET Peers
      BY <1>1, Zenon DEF Host, LeImpl
    <3> QED BY <2>1, <3>1, Zenon DEF Host, LeImpl
  <2>3. /\ SameManager(a, b) /\ b.tasks = a.tasks /\ b.hci = a.hci /\ b.scan = a.scan
        /\ b.le.pause /\ b.le.registered = a.le.registered /\ b.le.connecting = a.le.connecting
        /\ b.le.canceled = a.le.canceled
    BY <1>1 DEF Host, LeImpl, SameManager
  <2>4. /\ SameManager(a, e) /\ e.tasks = a.tasks /\ e.hci = a.hci /\ e.scan = a.scan
        /\ e.le.pause /\ e.le.registered = a.le.registered /\ e.le.connecting = a.le.connecting
    BY <1>1, Zenon DEF Host, LeImpl, SameManager
  <2> HIDE DEF b, e
  <2>5. "cancel_connection" \in Commands
    BY DEF Commands
  <2>6. /\ f \in Host /\ SameManager(e, f) /\ f.le = e.le /\ f.scan = e.scan /\ f.tasks = e.tasks
        /\ f.hci = Append(e.hci, Cmd(e, "cancel_connection")) /\ Cmd(e, "cancel_connection") \in Cmds
    BY <2>2, <2>5, EnqueueIs, Zenon DEF Cmds
  <2>7. /\ SameHci(a.hci, a.hci) /\ SameScan(a.hci, a.hci)
    BY Zenon DEF SameHci, SameScan
  <2>8. /\ SameHci(e.hci, f.hci) /\ SameScan(e.hci, f.hci) /\ \A op \in ScanOps : Sent(f.hci, op) <=> Sent(e.hci, op)
    <3>1. e.hci \in Seq(Cmds)
      BY <2>2 DEF Host, Cmds
    <3>2. Cmd(e, "cancel_connection").op = "cancel_connection"
      BY DEF Cmd
    <3>3. Cmd(e, "cancel_connection").op \notin {"list", "set_random_address"} /\ Cmd(e, "cancel_connection").op \notin ScanOps
      BY <3>2 DEF ScanOps
    <3> DEFINE x == Cmd(e, "cancel_connection")
    <3> HIDE DEF f, x
    <3>4. /\ SameHci(e.hci, Append(e.hci, x)) /\ SameScan(e.hci, Append(e.hci, x))
          /\ \A op \in ScanOps : Sent(Append(e.hci, x), op) <=> Sent(e.hci, op)
      BY <2>6, <3>1, <3>3, MoreHci DEF x
    <3>5. f.hci = Append(e.hci, x)
      BY <2>6, Zenon DEF x
    <3> QED BY <3>4, <3>5
  <2> HIDE DEF f
  <2>9. /\ g \in Host /\ SameManager(a, g) /\ g.tasks = a.tasks /\ g.scan = a.scan
        /\ SameHci(a.hci, g.hci) /\ SameScan(a.hci, g.hci) /\ \A op \in ScanOps : Sent(g.hci, op) <=> Sent(a.hci, op)
        /\ g.le.pause /\ g.le.registered = a.le.registered
        /\ g.le.connecting = a.le.connecting /\ (g.le.canceled = a.le.canceled \/ a.le.connecting # {})
    <3>1. CASE a.le.connecting = {}
      BY <2>1, <2>3, <2>7, <3>1, Zenon
    <3>2. CASE a.le.connecting # {}
      BY <2>4, <2>6, <2>8, <3>2, Zenon DEF SameManager
    <3> QED BY <3>1, <3>2, Zenon
  <2> HIDE DEF g
  <2>11. /\ r \in Host /\ SameManager(g, r) /\ r.le = g.le /\ r.scan = g.scan /\ r.hci = g.hci
         /\ r.tasks = Append(g.tasks, AP(c))
    BY <2>9, PostIs, Known, Zenon
  <2> HIDE DEF r
  <2>12. c # "scan"
    BY <1>4
  <2>13. /\ SameCommands(m, r) /\ r.clients = a.clients /\ r.tasks = Append(m.tasks, AP(c))
    BY <1>2, <2>9, <2>11, Zenon DEF SameManager, SameCommands
  <2>14. /\ SameHci(m.hci, r.hci) /\ SameScan(m.hci, r.hci) /\ r.scan = m.scan
         /\ \A op \in ScanOps : Sent(r.hci, op) <=> Sent(m.hci, op)
         /\ r.le.pause /\ r.le.registered = m.le.registered /\ r.le.connecting = m.le.connecting
         /\ (r.le.canceled = m.le.canceled \/ m.le.connecting # {})
    BY <1>2, <2>9, <2>11
  <2>15. PausedOne(m, c, r)
    BY <1>2, <2>11, <2>12, <2>13, <2>14 DEF PausedOne
  <2> QED BY <1>3, <2>10, <2>15, Zenon
<1>5. CASE c = "scan"
  <2> DEFINE b == [a EXCEPT !.scan.paused = TRUE, !.scan.on_resume = a.scan.is_scanning]
             g == stop_scan(b)
             r == Post(g, AP(c))
  <2>1. b \in Host
    <3>1. a.scan.is_scanning \in BOOLEAN
      BY <1>1, Zenon DEF Host, Scanner
    <3> QED BY <1>1, <3>1, Zenon DEF Host, Scanner
  <2>2. /\ SameManager(a, b) /\ b.tasks = a.tasks /\ b.hci = a.hci /\ b.le = a.le
        /\ b.scan.paused /\ b.scan.registered = a.scan.registered
    BY <1>1, Zenon DEF Host, Scanner, SameManager
  <2>3. OnPause(a, c) = r
    BY <1>5 DEF OnPause, scan_OnPause, AP
  <2> HIDE DEF b
  <2>4. Stopped(b, g)
    BY <2>1, StopIs, Zenon
  <2> HIDE DEF g
  <2>5. /\ r \in Host /\ SameManager(g, r) /\ r.le = g.le /\ r.scan = g.scan /\ r.hci = g.hci
        /\ r.tasks = Append(g.tasks, AP(c))
    BY <2>4, PostIs, Known, Zenon DEF Stopped
  <2> HIDE DEF r
  <2>6. SameHci(b.hci, g.hci) /\ Off(g.hci) /\ ~On(g.hci) /\ Sent(g.hci, "scan_off")
    <3>1. b.hci \in Seq(Cmds) /\ Cmd(b, "scan_off") \in Cmds
      BY <2>1 DEF Host, Cmds, Cmd, Commands
    <3>2. Cmd(b, "scan_off").op = "scan_off"
      BY DEF Cmd
    <3>3. Cmd(b, "scan_off").op \notin {"list", "set_random_address"}
      BY <3>2
    <3> QED BY <2>4, <3>1, <3>2, <3>3, MoreHci, Zenon DEF Stopped
  <2>7. c # "le"
    BY <1>5
  <2>8. /\ SameCommands(m, r) /\ r.clients = a.clients /\ r.tasks = Append(m.tasks, AP(c))
    BY <1>2, <2>2, <2>4, <2>5 DEF SameManager, SameCommands, Stopped
  <2>9. /\ SameHci(m.hci, r.hci) /\ r.le = m.le /\ Off(r.hci) /\ ~On(r.hci) /\ Sent(r.hci, "scan_off")
        /\ r.scan.paused /\ ~r.scan.is_scanning /\ r.scan.registered = m.scan.registered
    BY <1>2, <2>2, <2>4, <2>5, <2>6, Zenon DEF Stopped
  <2>10. PausedOne(m, c, r)
    BY <1>2, <2>5, <2>7, <2>8, <2>9 DEF PausedOne
  <2> QED BY <1>3, <2>3, <2>10, Zenon
<1> QED BY <1>4, <1>5 DEF Clients

\* The scanning part of r, if client c is the scanning manager and was asked to pause (a).
ScanPart(m, a, r) ==
  /\ r.scan.registered = m.scan.registered /\ (r.scan.paused <=> m.scan.paused \/ a)
  /\ (r.scan.is_scanning <=> m.scan.is_scanning /\ ~a)
  /\ ~a => SameScan(m.hci, r.hci) /\ \A op \in ScanOps : Sent(r.hci, op) <=> Sent(m.hci, op)
  /\ a => Off(r.hci) /\ ~On(r.hci) /\ Sent(r.hci, "scan_off")

\* The part of le_impl, if it was asked to pause (a).
LePart(m, a, r) ==
  /\ r.le.registered = m.le.registered /\ (r.le.pause <=> m.le.pause \/ a)
  /\ r.le.connecting = m.le.connecting
  /\ r.le.canceled = m.le.canceled \/ (a /\ m.le.connecting # {})

\* pause_client leaves r, whether or not the client is asked.
PausedAny(m, c, r) ==
  /\ r \in Host /\ SameCommands(m, r) /\ SameHci(m.hci, r.hci)
  /\ \A d \in Clients : r.clients[d] = IF d = c /\ Asked(m, c) THEN "WAITING_FOR_PAUSE" ELSE m.clients[d]
  /\ \A u : Has(r.tasks, u) <=> Has(m.tasks, u) \/ (Asked(m, c) /\ AP(c) = u)
  /\ \A u, v : Before(r.tasks, u, v) <=> Before(m.tasks, u, v) \/ (Asked(m, c) /\ AP(c) = v /\ Has(m.tasks, u))
  /\ \A u, T : AP(c) # u /\ AP(c) \notin T => (Final(r.tasks, u, T) <=> Final(m.tasks, u, T))
  /\ LePart(m, c = "le" /\ Asked(m, c), r)
  /\ ScanPart(m, c = "scan" /\ Asked(m, c), r)

\* pause_client in every case.
LEMMA PauseAnyIs ==
  ASSUME NEW m \in Host, NEW c \in Clients
  PROVE  PausedAny(m, c, pause_client(m, c))
<1> DEFINE r == pause_client(m, c)
<1>1. CASE ~Asked(m, c)
  <2>1. r = m
    BY <1>1, Zenon DEF pause_client, Asked
  <2> HIDE DEF r
  <2>2. PausedAny(m, c, m)
    BY <1>1, Zenon DEF PausedAny, SameCommands, SameHci, LePart, ScanPart, SameScan
  <2> QED BY <2>1, <2>2, Zenon DEF r
<1>2. CASE Asked(m, c)
  <2>1. PausedOne(m, c, r)
    BY <1>2, PauseIs, Zenon
  <2> HIDE DEF r
  <2>2. m.tasks \in Seq(Tasks) /\ AP(c) \in Tasks
    BY Known, Zenon DEF Host
  <2>3. /\ \A u : Has(r.tasks, u) <=> Has(m.tasks, u) \/ AP(c) = u
        /\ \A u, v : Before(r.tasks, u, v) <=> Before(m.tasks, u, v) \/ (Has(m.tasks, u) /\ AP(c) = v)
        /\ \A u, T : Final(r.tasks, u, T) <=> AP(c) = u \/ (Final(m.tasks, u, T) /\ AP(c) \notin T)
    <3>1. LET q == Append(m.tasks, AP(c))
          IN /\ \A u : Has(q, u) <=> Has(m.tasks, u) \/ AP(c) = u
             /\ \A u, v : Before(q, u, v) <=> Before(m.tasks, u, v) \/ (Has(m.tasks, u) /\ AP(c) = v)
             /\ \A u, T : Final(q, u, T) <=> AP(c) = u \/ (Final(m.tasks, u, T) /\ AP(c) \notin T)
      BY <2>2, AppendHas
    <3>2. r.tasks = Append(m.tasks, AP(c))
      BY <2>1, Zenon DEF PausedOne
    <3> QED BY <3>1, <3>2, Zenon
  <2>4. \A d \in Clients : r.clients[d] = IF d = c /\ Asked(m, c) THEN "WAITING_FOR_PAUSE" ELSE m.clients[d]
    BY <1>2, <2>1 DEF PausedOne
  <2>5. CASE c = "le"
    <3>1. c # "scan"
      BY <2>5
    <3>2. LePart(m, c = "le" /\ Asked(m, c), r)
      BY <1>2, <2>1, <2>5 DEF PausedOne, LePart
    <3>3. ScanPart(m, c = "scan" /\ Asked(m, c), r)
      BY <2>1, <2>5, <3>1, Zenon DEF PausedOne, ScanPart
    <3>4. r \in Host /\ SameCommands(m, r) /\ SameHci(m.hci, r.hci)
      BY <2>1, Zenon DEF PausedOne
    <3>5. PausedAny(m, c, r)
      BY <1>2, <2>3, <2>4, <3>2, <3>3, <3>4, Zenon DEF PausedAny
    <3> QED BY <3>5, Zenon DEF r
  <2>6. CASE c = "scan"
    <3>1. c # "le"
      BY <2>6
    <3>2. LePart(m, c = "le" /\ Asked(m, c), r)
      BY <2>1, <2>6, <3>1, Zenon DEF PausedOne, LePart
    <3>3. ScanPart(m, c = "scan" /\ Asked(m, c), r)
      BY <1>2, <2>1, <2>6 DEF PausedOne, ScanPart
    <3>4. r \in Host /\ SameCommands(m, r) /\ SameHci(m.hci, r.hci)
      BY <2>1, Zenon DEF PausedOne
    <3>5. PausedAny(m, c, r)
      BY <1>2, <2>3, <2>4, <3>2, <3>3, <3>4, Zenon DEF PausedAny
    <3> QED BY <3>5, Zenon DEF r
  <2> QED BY <2>5, <2>6 DEF Clients
<1> QED BY <1>1, <1>2, Zenon

\* Tasks that run different functions differ.
LEMMA Differ ==
  /\ \A c, d : AP(c) = AP(d) => c = d
  /\ \A c, d : AP(c) # AR(d) /\ AP(c) # UN(d) /\ AP(c) # RG(d) /\ AR(c) # UN(d) /\ AR(c) # RG(d) /\ UN(c) # RG(d)
  /\ \A c : AP(c) # RS /\ AR(c) # RS /\ UN(c) # RS /\ RG(c) # RS /\ AP(c) # HN /\ AR(c) # HN /\ UN(c) # HN /\ RG(c) # HN
  /\ \A c : AP(c) # PC /\ AR(c) # PC /\ UN(c) # PC /\ RG(c) # PC /\ AP(c) # EC /\ AR(c) # EC /\ UN(c) # EC /\ RG(c) # EC
  /\ RS # PC /\ RS # HN /\ RS # EC /\ PC # HN /\ PC # EC /\ HN # EC
  /\ \A c, d : UN(c) = UN(d) => c = d
  /\ \A c, d : RG(c) = RG(d) => c = d
  /\ \A c, d : AR(c) = AR(d) => c = d
  /\ \A f, x : f \notin {"register_client", "unregister_client", "ack_pause", "ack_resume", "push_command",
                         "resume_registered_clients", "handle_next_command", "enqueue_command"} =>
       /\ \A c : Task(f, x) # AP(c) /\ Task(f, x) # AR(c) /\ Task(f, x) # UN(c) /\ Task(f, x) # RG(c)
       /\ Task(f, x) # PC /\ Task(f, x) # RS /\ Task(f, x) # HN /\ Task(f, x) # EC
BY Runs DEF AP, AR, UN, RG, RS, HN, PC, EC

\* pause_registered_clients leaves r.
PausedAll(m, r) ==
  /\ r \in Host /\ SameCommands(m, r) /\ SameHci(m.hci, r.hci)
  /\ \A c \in Clients : r.clients[c] = IF Asked(m, c) THEN "WAITING_FOR_PAUSE" ELSE m.clients[c]
  /\ \A u : Has(r.tasks, u) <=> Has(m.tasks, u) \/ \E c \in Clients : Asked(m, c) /\ AP(c) = u
  /\ \A u, v : (\A c \in Clients : AP(c) # v) => (Before(r.tasks, u, v) <=> Before(m.tasks, u, v))
  /\ \A u : \A c \in Clients : (\A d \in Clients : AP(d) # u) =>
       (Before(r.tasks, u, AP(c)) <=> Before(m.tasks, u, AP(c)) \/ (Asked(m, c) /\ Has(m.tasks, u)))
  /\ \A u, T : (\A c \in Clients : AP(c) # u /\ AP(c) \notin T) => (Final(r.tasks, u, T) <=> Final(m.tasks, u, T))
  /\ LePart(m, Asked(m, "le"), r)
  /\ ScanPart(m, Asked(m, "scan"), r)

\* The clients c and d are paused one after the other.
LEMMA PauseBoth ==
  ASSUME NEW m \in Host, NEW a \in Host, NEW r \in Host, NEW c \in Clients, NEW d \in Clients, c # d,
         PausedAny(m, c, a), PausedAny(a, d, r)
  PROVE  PausedAll(m, r)
<1>1. Asked(a, d) <=> Asked(m, d)
  BY DEF PausedAny, Asked
<1>2. \A e \in Clients : e = c \/ e = d
  BY DEF Clients
<1>3. (c = "le" /\ d = "scan") \/ (c = "scan" /\ d = "le")
  BY DEF Clients
<1>4. SameCommands(m, r)
  BY Zenon DEF PausedAny, SameCommands
<1>5. SameHci(m.hci, r.hci)
  BY Zenon DEF PausedAny, SameHci
<1>6. \A e \in Clients : r.clients[e] = IF Asked(m, e) THEN "WAITING_FOR_PAUSE" ELSE m.clients[e]
  BY <1>1, <1>2 DEF PausedAny
<1>7. \A u : Has(r.tasks, u) <=> Has(m.tasks, u) \/ \E e \in Clients : Asked(m, e) /\ AP(e) = u
  BY <1>1, <1>2, Zenon DEF PausedAny
<1>8. \A u, v : Before(r.tasks, u, v) <=>
        \/ Before(m.tasks, u, v)
        \/ Asked(m, c) /\ AP(c) = v /\ Has(m.tasks, u)
        \/ Asked(m, d) /\ AP(d) = v /\ (Has(m.tasks, u) \/ (Asked(m, c) /\ AP(c) = u))
  BY <1>1, Zenon DEF PausedAny
<1>9. \A u, v : (\A e \in Clients : AP(e) # v) => (Before(r.tasks, u, v) <=> Before(m.tasks, u, v))
  BY <1>8, Zenon
<1>10. \A u : \A e \in Clients : (\A f \in Clients : AP(f) # u) =>
         (Before(r.tasks, u, AP(e)) <=> Before(m.tasks, u, AP(e)) \/ (Asked(m, e) /\ Has(m.tasks, u)))
  <2>1. AP(c) # AP(d)
    BY Differ, Zenon
  <2> TAKE u
  <2>2. ASSUME \A f \in Clients : AP(f) # u
        PROVE  Before(r.tasks, u, AP(c)) <=> Before(m.tasks, u, AP(c)) \/ (Asked(m, c) /\ Has(m.tasks, u))
    BY <1>8, <2>1, <2>2, Zenon
  <2>3. ASSUME \A f \in Clients : AP(f) # u
        PROVE  Before(r.tasks, u, AP(d)) <=> Before(m.tasks, u, AP(d)) \/ (Asked(m, d) /\ Has(m.tasks, u))
    BY <1>8, <2>1, <2>3, Zenon
  <2> QED BY <1>2, <2>2, <2>3, Zenon
<1>11. \A u, T : (\A e \in Clients : AP(e) # u /\ AP(e) \notin T) => (Final(r.tasks, u, T) <=> Final(m.tasks, u, T))
  BY Zenon DEF PausedAny
<1>12. CASE c = "le" /\ d = "scan"
  <2>1. c # "scan" /\ d # "le"
    BY <1>12
  <2>2. LePart(m, Asked(m, "le"), a) /\ LePart(a, FALSE, r)
    BY <1>12, <2>1, Zenon DEF PausedAny, LePart
  <2>3. ScanPart(m, FALSE, a) /\ ScanPart(a, Asked(m, "scan"), r)
    BY <1>1, <1>12, <2>1, Zenon DEF PausedAny, ScanPart
  <2>4. LePart(m, Asked(m, "le"), r)
    BY <2>2 DEF LePart
  <2>5. ScanPart(m, Asked(m, "scan"), r)
    BY <2>3, Zenon DEF ScanPart, SameScan
  <2> QED BY <1>4, <1>5, <1>6, <1>7, <1>9, <1>10, <1>11, <2>4, <2>5, Zenon DEF PausedAll
<1>13. CASE c = "scan" /\ d = "le"
  <2>1. c # "le" /\ d # "scan"
    BY <1>13
  <2>2. LePart(m, FALSE, a) /\ LePart(a, Asked(m, "le"), r)
    BY <1>1, <1>13, <2>1, Zenon DEF PausedAny, LePart
  <2>3. ScanPart(m, Asked(m, "scan"), a) /\ ScanPart(a, FALSE, r)
    BY <1>13, <2>1, Zenon DEF PausedAny, ScanPart
  <2>4. LePart(m, Asked(m, "le"), r)
    BY <2>2 DEF LePart
  <2>5. ScanPart(m, Asked(m, "scan"), r)
    BY <2>3, Zenon DEF ScanPart, SameScan, ScanOps
  <2> QED BY <1>4, <1>5, <1>6, <1>7, <1>9, <1>10, <1>11, <2>4, <2>5, Zenon DEF PausedAll
<1> QED BY <1>3, <1>12, <1>13, Zenon

\* pause_registered_clients, whichever client comes first.
LEMMA PauseAllIs ==
  ASSUME NEW m \in Host
  PROVE  PausedAll(m, pause_registered_clients(m))
<1>1. "le" \in Clients /\ "scan" \in Clients /\ "le" # "scan"
  BY DEF Clients
<1>2. \A a \in Host, c \in Clients : PausedAny(a, c, pause_client(a, c)) /\ pause_client(a, c) \in Host
  BY PauseAnyIs, ZenonT(40) DEF PausedAny
<1> QED BY <1>1, <1>2, PauseBoth, Zenon DEF pause_registered_clients

\* le_impl::OnResume, called for a registered client, leaves r.
ResumedLe(m, r) ==
  /\ r \in Host /\ SameCommands(m, r) /\ SameHci(m.hci, r.hci) /\ SameScan(m.hci, r.hci)
  /\ \A op \in ScanOps : Sent(r.hci, op) <=> Sent(m.hci, op)
  /\ r.scan = m.scan /\ r.clients["le"] = "WAITING_FOR_RESUME" /\ r.clients["scan"] = m.clients["scan"]
  /\ ~r.le.pause /\ r.le.canceled = {} /\ (r.le.connecting # {} => r.le.registered)
  /\ \/ r.le.registered = m.le.registered /\ r.tasks = Append(m.tasks, AR("le"))
     \/ ~r.le.registered /\ r.tasks = Append(Append(m.tasks, AR("le")), UN("le"))

\* le_impl::OnResume starts the connection that was held back, or unregisters.
LEMMA ResumeLeIs ==
  ASSUME NEW m \in Host, m.clients["le"] # "NONE", m.address_policy # "NOT_SET",
         m.le.canceled # {} \/ m.le.connecting # {} => m.le.registered
  PROVE  ResumedLe(m, resume_client(m, "le"))
<1> DEFINE a == [m EXCEPT !.clients["le"] = "WAITING_FOR_RESUME"]
           b == [a EXCEPT !.le.pause = FALSE]
           d == CHOOSE x \in b.le.canceled : TRUE
           e == [b EXCEPT !.le.connecting = @ \cup {d}]
           f == EnqueueCommand(e, "create_connection")
           n == IF b.le.canceled = {} THEN b ELSE create_le_connection(b, d, FALSE)
           p == [n EXCEPT !.le.canceled = {}]
           g == Post(p, AR("le"))
           r == check_for_unregister(g)
<1>0. "le" \in Clients /\ "scan" \in Clients /\ "le" # "scan" /\ "WAITING_FOR_RESUME" \in States
  BY DEF Clients, States
<1>1. resume_client(m, "le") = r
  BY <1>0 DEF resume_client, OnResume, le_OnResume, AR
<1>2. a \in Host
  BY <1>0, Zenon DEF Host
<1>3. b \in Host
  BY <1>2, Zenon DEF Host, LeImpl
<1>4. /\ SameCommands(m, b) /\ b.hci = m.hci /\ b.scan = m.scan /\ b.tasks = m.tasks
      /\ b.clients["le"] = "WAITING_FOR_RESUME" /\ b.clients["scan"] = m.clients["scan"]
      /\ ~b.le.pause /\ b.le.canceled = m.le.canceled /\ b.le.connecting = m.le.connecting
      /\ b.le.registered = m.le.registered /\ b.address_policy = m.address_policy
  BY <1>0 DEF Host, LeImpl, SameCommands
<1> HIDE DEF a, b
<1>5. b.le.canceled # {} => n = f
  <2>1. ASSUME b.le.canceled # {} PROVE le_Register(b) = b /\ b.le.registered
    BY <1>4, <2>1 DEF le_Register
  <2> QED BY <1>4, <2>1, Zenon DEF create_le_connection, initiate
<1>6. b.le.canceled # {} =>
        /\ e \in Host /\ SameCommands(b, e) /\ e.clients = b.clients /\ e.tasks = b.tasks /\ e.scan = b.scan /\ e.hci = b.hci
        /\ e.le.registered = b.le.registered /\ e.le.pause = b.le.pause
  <2> SUFFICES ASSUME b.le.canceled # {}
               PROVE  /\ e \in Host /\ SameCommands(b, e) /\ e.clients = b.clients /\ e.tasks = b.tasks /\ e.scan = b.scan
                      /\ e.hci = b.hci /\ e.le.registered = b.le.registered /\ e.le.pause = b.le.pause
    BY Zenon
  <2>1. d \in b.le.canceled
    BY Zenon
  <2>2. b.le.canceled \in SUBSET Peers /\ b.le.connecting \in SUBSET Peers
    BY <1>3, Zenon DEF Host, LeImpl
  <2> HIDE DEF d
  <2>3. b.le.connecting \cup {d} \in SUBSET Peers
    BY <2>1, <2>2, Zenon
  <2>4. e \in Host
    BY <1>3, <2>3, Zenon DEF Host, LeImpl
  <2> QED BY <1>3, <2>4, Zenon DEF Host, LeImpl, SameCommands
<1> HIDE DEF e
<1>7. b.le.canceled # {} =>
        /\ f \in Host /\ SameManager(e, f) /\ f.le = e.le /\ f.scan = e.scan /\ f.tasks = e.tasks
        /\ SameHci(e.hci, f.hci) /\ SameScan(e.hci, f.hci) /\ \A op \in ScanOps : Sent(f.hci, op) <=> Sent(e.hci, op)
  <2> SUFFICES ASSUME b.le.canceled # {}
               PROVE  /\ f \in Host /\ SameManager(e, f) /\ f.le = e.le /\ f.scan = e.scan /\ f.tasks = e.tasks
                      /\ SameHci(e.hci, f.hci) /\ SameScan(e.hci, f.hci)
                      /\ \A op \in ScanOps : Sent(f.hci, op) <=> Sent(e.hci, op)
    BY Zenon
  <2> DEFINE x == Cmd(e, "create_connection")
  <2>1. "create_connection" \in Commands
    BY DEF Commands
  <2>2. /\ f \in Host /\ SameManager(e, f) /\ f.le = e.le /\ f.scan = e.scan /\ f.tasks = e.tasks
        /\ f.hci = Append(e.hci, x) /\ x \in Cmds
    BY <1>6, <2>1, EnqueueIs, Zenon DEF Cmds
  <2>3. e.hci \in Seq(Cmds)
    BY <1>6 DEF Host, Cmds
  <2>4. x.op \notin {"list", "set_random_address"} /\ x.op \notin ScanOps
    BY DEF Cmd, ScanOps
  <2> HIDE DEF f, x
  <2>5. /\ SameHci(e.hci, Append(e.hci, x)) /\ SameScan(e.hci, Append(e.hci, x))
        /\ \A op \in ScanOps : Sent(Append(e.hci, x), op) <=> Sent(e.hci, op)
    BY <2>2, <2>3, <2>4, MoreHci
  <2> QED BY <2>2, <2>5
<1> HIDE DEF f
<1>8. /\ n \in Host /\ SameCommands(m, n) /\ n.clients = b.clients /\ n.tasks = m.tasks /\ n.scan = m.scan
      /\ SameHci(m.hci, n.hci) /\ SameScan(m.hci, n.hci) /\ \A op \in ScanOps : Sent(n.hci, op) <=> Sent(m.hci, op)
      /\ ~n.le.pause /\ n.le.registered = m.le.registered /\ (n.le.connecting # {} => n.le.registered)
  <2>1. CASE b.le.canceled = {}
    <3>1. SameHci(m.hci, m.hci) /\ SameScan(m.hci, m.hci)
      BY Zenon DEF SameHci, SameScan
    <3> QED BY <1>3, <1>4, <2>1, <3>1, Zenon
  <2>2. CASE b.le.canceled # {}
    <3>1. n = f
      BY <1>5, <2>2, Zenon
    <3> HIDE DEF n
    <3>2. SameCommands(m, n) /\ n.clients = b.clients /\ n.tasks = m.tasks /\ n.scan = m.scan
      BY <1>4, <1>6, <1>7, <2>2, <3>1, Zenon DEF SameCommands, SameManager
    <3>3. /\ SameHci(m.hci, n.hci) /\ SameScan(m.hci, n.hci) /\ \A op \in ScanOps : Sent(n.hci, op) <=> Sent(m.hci, op)
      BY <1>4, <1>6, <1>7, <2>2, <3>1
    <3>4. /\ n \in Host /\ ~n.le.pause /\ n.le.registered = m.le.registered /\ n.le.registered
      BY <1>4, <1>6, <1>7, <2>2, <3>1
    <3> QED BY <3>2, <3>3, <3>4, Zenon
  <2> QED BY <2>1, <2>2, Zenon
<1> HIDE DEF n
<1>9. /\ p \in Host /\ SameCommands(n, p) /\ p.clients = n.clients /\ p.tasks = n.tasks /\ p.scan = n.scan
      /\ p.hci = n.hci /\ p.le.pause = n.le.pause /\ p.le.registered = n.le.registered
      /\ p.le.connecting = n.le.connecting /\ p.le.canceled = {}
  <2>1. p \in Host
    BY <1>8, Zenon DEF Host, LeImpl
  <2> QED BY <1>8, <2>1, Zenon DEF Host, LeImpl, SameCommands
<1> HIDE DEF p
<1>10. /\ g \in Host /\ SameManager(p, g) /\ g.le = p.le /\ g.scan = p.scan /\ g.hci = p.hci
       /\ g.tasks = Append(p.tasks, AR("le"))
  BY <1>0, <1>9, PostIs, Known, Zenon
<1> HIDE DEF g
<1>11. /\ SameCommands(m, g) /\ g.clients = b.clients /\ g.scan = m.scan
  BY <1>8, <1>9, <1>10, Zenon DEF SameCommands, SameManager
<1>12. /\ SameHci(m.hci, g.hci) /\ SameScan(m.hci, g.hci) /\ \A op \in ScanOps : Sent(g.hci, op) <=> Sent(m.hci, op)
       /\ g.tasks = Append(m.tasks, AR("le"))
       /\ ~g.le.pause /\ g.le.canceled = {} /\ g.le.registered = m.le.registered /\ (g.le.connecting # {} => g.le.registered)
  BY <1>8, <1>9, <1>10
<1>13. CASE r = g
  BY <1>1, <1>4, <1>10, <1>11, <1>12, <1>13 DEF ResumedLe
<1>14. CASE r # g
  <2> DEFINE h == [g EXCEPT !.le.registered = FALSE, !.le.pause = FALSE, !.le.ready_to_unregister = FALSE]
  <2>1. r = Post(h, UN("le")) /\ g.le.connecting = {}
    BY <1>14 DEF check_for_unregister, UN
  <2>2. h \in Host
    BY <1>10, Zenon DEF Host, LeImpl
  <2>3. /\ SameManager(g, h) /\ h.scan = g.scan /\ h.hci = g.hci /\ h.tasks = g.tasks
        /\ ~h.le.pause /\ ~h.le.registered /\ h.le.connecting = g.le.connecting /\ h.le.canceled = g.le.canceled
    BY <1>10, Zenon DEF Host, LeImpl, SameManager
  <2> HIDE DEF h, r
  <2>4. /\ r \in Host /\ SameManager(h, r) /\ r.le = h.le /\ r.scan = h.scan /\ r.hci = h.hci
        /\ r.tasks = Append(h.tasks, UN("le"))
    BY <1>0, <2>1, <2>2, PostIs, Known, Zenon
  <2>5. SameCommands(m, r) /\ r.clients = b.clients /\ r.scan = m.scan
    BY <1>11, <2>3, <2>4, Zenon DEF SameCommands, SameManager
  <2>6. /\ SameHci(m.hci, r.hci) /\ SameScan(m.hci, r.hci) /\ \A op \in ScanOps : Sent(r.hci, op) <=> Sent(m.hci, op)
        /\ r.tasks = Append(Append(m.tasks, AR("le")), UN("le"))
        /\ ~r.le.pause /\ r.le.canceled = {} /\ ~r.le.registered /\ r.le.connecting = {}
    BY <1>12, <2>1, <2>3, <2>4
  <2> QED BY <1>1, <1>4, <2>4, <2>5, <2>6 DEF ResumedLe
<1> QED BY <1>13, <1>14, Zenon

\* The OnResume of the scanning manager, called for a registered client, leaves r.
ResumedScan(m, r) ==
  /\ r \in Host /\ SameCommands(m, r) /\ SameHci(m.hci, r.hci)
  /\ r.le = m.le /\ r.clients["scan"] = "WAITING_FOR_RESUME" /\ r.clients["le"] = m.clients["le"]
  /\ ~r.scan.paused
  /\ \/ r.tasks = Append(m.tasks, AR("scan"))
     \/ r.tasks = Append(Append(m.tasks, RG("scan")), AR("scan"))
  /\ \/ /\ r.scan.is_scanning = m.scan.is_scanning /\ SameScan(m.hci, r.hci)
        /\ \A op \in ScanOps : Sent(r.hci, op) <=> Sent(m.hci, op)
     \/ r.scan.is_scanning /\ On(r.hci) /\ ~Off(r.hci) /\ Sent(r.hci, "scan_on")

\* LeScanningManager::OnResume starts the scan that was interrupted.
LEMMA ResumeScanIs ==
  ASSUME NEW m \in Host, m.clients["scan"] # "NONE"
  PROVE  ResumedScan(m, resume_client(m, "scan"))
<1> DEFINE a == [m EXCEPT !.clients["scan"] = "WAITING_FOR_RESUME"]
           b == [a EXCEPT !.scan.paused = FALSE]
           g == IF a.scan.on_resume THEN start_scan(b) ELSE b
           r == Post(g, AR("scan"))
<1>0. "le" \in Clients /\ "scan" \in Clients /\ "le" # "scan" /\ "WAITING_FOR_RESUME" \in States
  BY DEF Clients, States
<1>1. resume_client(m, "scan") = r
  BY <1>0 DEF resume_client, OnResume, scan_OnResume, AR
<1>2. a \in Host
  BY <1>0, Zenon DEF Host
<1>3. b \in Host
  BY <1>2, Zenon DEF Host, Scanner
<1>4. /\ SameCommands(m, b) /\ b.hci = m.hci /\ b.le = m.le /\ b.tasks = m.tasks
      /\ b.clients["scan"] = "WAITING_FOR_RESUME" /\ b.clients["le"] = m.clients["le"]
      /\ ~b.scan.paused /\ b.scan.is_scanning = m.scan.is_scanning
  BY <1>0 DEF Host, Scanner, SameCommands
<1> HIDE DEF b
<1>5. /\ g \in Host /\ SameManager(b, g) /\ g.le = b.le /\ ~g.scan.paused /\ SameHci(b.hci, g.hci)
      /\ g.tasks = b.tasks \/ g.tasks = Append(b.tasks, RG("scan"))
      /\ \/ /\ g.scan.is_scanning = b.scan.is_scanning /\ SameScan(b.hci, g.hci)
            /\ \A op \in ScanOps : Sent(g.hci, op) <=> Sent(b.hci, op)
         \/ g.scan.is_scanning /\ On(g.hci) /\ ~Off(g.hci) /\ Sent(g.hci, "scan_on")
  <2>1. CASE ~a.scan.on_resume
    <3>1. SameHci(b.hci, b.hci) /\ SameScan(b.hci, b.hci) /\ SameManager(b, b)
      BY Zenon DEF SameHci, SameScan, SameManager
    <3>2. g = b
      BY <2>1, Zenon
    <3> HIDE DEF g
    <3> QED BY <1>3, <1>4, <3>1, <3>2
  <2>2. CASE a.scan.on_resume
    <3> DEFINE x == Cmd(b, "scan_on")
    <3>1. Started(b, g)
      BY <1>3, <2>2, StartIs, Zenon
    <3> HIDE DEF g, a
    <3>2. b.hci \in Seq(Cmds) /\ x \in Cmds
      BY <1>3 DEF Host, Cmds, Cmd, Commands
    <3>3. x.op = "scan_on"
      BY DEF Cmd
    <3>4. x.op \notin {"list", "set_random_address"}
      BY <3>3
    <3> HIDE DEF x
    <3>5. SameHci(b.hci, Append(b.hci, x)) /\ On(Append(b.hci, x)) /\ ~Off(Append(b.hci, x)) /\ Sent(Append(b.hci, x), "scan_on")
      BY <3>2, <3>3, <3>4, MoreHci, Zenon
    <3>6. g.hci = Append(b.hci, x)
      BY <1>4, <3>1, Zenon DEF Started, x
    <3>7. /\ g \in Host /\ SameManager(b, g) /\ g.le = b.le /\ ~g.scan.paused /\ g.scan.is_scanning
          /\ g.tasks = b.tasks \/ g.tasks = Append(b.tasks, RG("scan"))
      BY <1>4, <3>1, Zenon DEF Started
    <3> QED BY <3>5, <3>6, <3>7, Zenon
  <2> QED BY <2>1, <2>2, Zenon
<1> HIDE DEF g
<1>6. /\ r \in Host /\ SameManager(g, r) /\ r.le = g.le /\ r.scan = g.scan /\ r.hci = g.hci
      /\ r.tasks = Append(g.tasks, AR("scan"))
  BY <1>0, <1>5, PostIs, Known, Zenon
<1> HIDE DEF r
<1>7. SameCommands(m, r) /\ r.clients = b.clients
  BY <1>4, <1>5, <1>6, Zenon DEF SameCommands, SameManager
<1>8. ResumedScan(m, r)
  BY <1>4, <1>5, <1>6, <1>7, Zenon DEF ResumedScan
<1> QED BY <1>1, <1>8, Zenon

LeRegs == {RG("le"), UN("le")}

\* The queue p is q with tasks of S put behind it.
Grow(q, p, S) ==
  /\ \A u : Has(q, u) => Has(p, u)
  /\ \A u : u \notin S => (Has(p, u) <=> Has(q, u))
  /\ \A u, v : v \notin S => (Before(p, u, v) <=> Before(q, u, v))
  /\ \A u, T : u \notin S /\ (\A t \in S : t \notin T) => (Final(p, u, T) <=> Final(q, u, T))

\* A task that is posted makes the queue grow by it.
LEMMA GrowOne ==
  ASSUME NEW q \in Seq(Tasks), NEW t \in Tasks, NEW S, t \in S
  PROVE  Grow(q, Append(q, t), S) /\ Has(Append(q, t), t)
<1>1. /\ \A u : Has(Append(q, t), u) <=> Has(q, u) \/ t = u
      /\ \A u, v : Before(Append(q, t), u, v) <=> Before(q, u, v) \/ (Has(q, u) /\ t = v)
      /\ \A u, T : Final(Append(q, t), u, T) <=> t = u \/ (Final(q, u, T) /\ t \notin T)
  BY AppendHas
<1> QED BY <1>1, Zenon DEF Grow

\* Two tasks that are posted make the queue grow by them.
LEMMA GrowTwo ==
  ASSUME NEW q \in Seq(Tasks), NEW t \in Tasks, NEW v \in Tasks, NEW S, t \in S, v \in S
  PROVE  Grow(q, Append(Append(q, t), v), S) /\ Has(Append(Append(q, t), v), t) /\ Has(Append(Append(q, t), v), v)
<1>1. Append(q, t) \in Seq(Tasks)
  BY Appended
<1> DEFINE p == Append(q, t)
           r == Append(p, v)
<1>2. Grow(q, p, S) /\ Has(p, t)
  BY GrowOne, Zenon
<1>3. Grow(p, r, S) /\ Has(r, v)
  BY <1>1, GrowOne, Zenon
<1> HIDE DEF p, r
<1>4. Grow(q, r, S)
  BY <1>2, <1>3, Zenon DEF Grow
<1>5. Has(r, t)
  BY <1>2, <1>3, Zenon DEF Grow
<1> QED BY <1>3, <1>4, <1>5, Zenon DEF r, p

\* What the queue says of the registration of le_impl is the same.
SameLeRegs(q, p) ==
  /\ \A u \in LeRegs : Has(p, u) <=> Has(q, u)
  /\ \A u \in LeRegs \cup {PC} : Final(p, u, LeRegs) <=> Final(q, u, LeRegs)

\* le_impl after resume_registered_clients.
LeBack(m, r) ==
  \/ m.clients["le"] = "NONE" /\ r.le = m.le /\ SameLeRegs(m.tasks, r.tasks)
  \/ /\ m.clients["le"] # "NONE" /\ Has(r.tasks, AR("le"))
     /\ ~r.le.pause /\ r.le.canceled = {} /\ (r.le.connecting # {} => r.le.registered)
     /\ \/ r.le.registered = m.le.registered /\ SameLeRegs(m.tasks, r.tasks)
        \/ /\ ~r.le.registered /\ Has(r.tasks, UN("le"))
           /\ Final(r.tasks, UN("le"), LeRegs) /\ ~Final(r.tasks, RG("le"), LeRegs)

\* The scanning manager after resume_registered_clients.
ScanBack(m, r) ==
  \/ /\ m.clients["scan"] = "NONE" /\ r.scan = m.scan /\ SameScan(m.hci, r.hci)
     /\ \A op \in ScanOps : Sent(r.hci, op) <=> Sent(m.hci, op)
  \/ /\ m.clients["scan"] # "NONE" /\ Has(r.tasks, AR("scan")) /\ ~r.scan.paused
     /\ \/ /\ r.scan.is_scanning = m.scan.is_scanning /\ SameScan(m.hci, r.hci)
           /\ \A op \in ScanOps : Sent(r.hci, op) <=> Sent(m.hci, op)
        \/ r.scan.is_scanning /\ On(r.hci) /\ ~Off(r.hci) /\ Sent(r.hci, "scan_on")

\* resume_client for le_impl, registered or not.
LeStep(m, r) ==
  /\ r \in Host /\ SameCommands(m, r) /\ SameHci(m.hci, r.hci) /\ SameScan(m.hci, r.hci)
  /\ \A op \in ScanOps : Sent(r.hci, op) <=> Sent(m.hci, op)
  /\ r.scan = m.scan /\ r.clients["scan"] = m.clients["scan"]
  /\ r.clients["le"] = IF m.clients["le"] = "NONE" THEN "NONE" ELSE "WAITING_FOR_RESUME"
  /\ Grow(m.tasks, r.tasks, {AR("le"), UN("le")}) /\ LeBack(m, r)

\* resume_client for le_impl, in every case.
LEMMA LeStepIs ==
  ASSUME NEW m \in Host, m.address_policy # "NOT_SET",
         m.le.canceled # {} \/ m.le.connecting # {} => m.le.registered
  PROVE  LeStep(m, resume_client(m, "le"))
<1> DEFINE r == resume_client(m, "le")
           S == {AR("le"), UN("le")}
<1>1. m.tasks \in Seq(Tasks) /\ AR("le") \in Tasks /\ UN("le") \in Tasks
  BY Known, Zenon DEF Host, Clients
<1>2. RG("le") \notin S /\ PC \notin S /\ AR("le") \notin LeRegs /\ AR("le") # UN("le") /\ RG("le") # UN("le")
  BY Differ, Zenon DEF LeRegs
<1>3. CASE m.clients["le"] = "NONE"
  <2>1. r = m
    BY <1>3, Zenon DEF resume_client
  <2>2. LeStep(m, m)
    BY <1>3, Zenon DEF LeStep, SameCommands, SameHci, SameScan, Grow, LeBack, SameLeRegs
  <2> QED BY <2>1, <2>2, Zenon
<1>4. CASE m.clients["le"] # "NONE"
  <2>1. ResumedLe(m, r)
    BY <1>4, ResumeLeIs, Zenon
  <2> HIDE DEF r
  <2>2. CASE r.tasks = Append(m.tasks, AR("le")) /\ r.le.registered = m.le.registered
    <3>1. Grow(m.tasks, r.tasks, S) /\ Has(r.tasks, AR("le"))
      BY <1>1, <2>2, GrowOne, Zenon
    <3>2. Grow(m.tasks, r.tasks, {AR("le")})
      BY <1>1, <2>2, GrowOne, Zenon
    <3>3. SameLeRegs(m.tasks, r.tasks)
      BY <1>2, <3>2, Differ, Zenon DEF Grow, SameLeRegs, LeRegs
    <3>4. LeBack(m, r)
      BY <1>4, <2>1, <2>2, <3>1, <3>3, Zenon DEF LeBack, ResumedLe
    <3> QED BY <1>4, <2>1, <3>1, <3>4, Zenon DEF LeStep, ResumedLe, r
  <2>3. CASE r.tasks = Append(Append(m.tasks, AR("le")), UN("le")) /\ ~r.le.registered
    <3> DEFINE p == Append(m.tasks, AR("le"))
    <3>1. Grow(m.tasks, r.tasks, S) /\ Has(r.tasks, AR("le")) /\ Has(r.tasks, UN("le"))
      BY <1>1, <2>3, GrowTwo, Zenon
    <3>2. p \in Seq(Tasks)
      BY <1>1, Appended
    <3>3. \A u : Final(Append(p, UN("le")), u, LeRegs) <=> UN("le") = u \/ (Final(p, u, LeRegs) /\ UN("le") \notin LeRegs)
      <4> HIDE DEF p
      <4>1. \A u, T : Final(Append(p, UN("le")), u, T) <=> UN("le") = u \/ (Final(p, u, T) /\ UN("le") \notin T)
        BY <1>1, <3>2, AppendHas
      <4> QED BY <4>1, Zenon
    <3>4. UN("le") \in LeRegs
      BY Zenon DEF LeRegs
    <3>5. Final(r.tasks, UN("le"), LeRegs) /\ ~Final(r.tasks, RG("le"), LeRegs)
      BY <1>2, <2>3, <3>3, <3>4, Zenon
    <3>6. LeBack(m, r)
      BY <1>4, <2>1, <2>3, <3>1, <3>5, Zenon DEF LeBack, ResumedLe
    <3> QED BY <1>4, <2>1, <3>1, <3>6, Zenon DEF LeStep, ResumedLe, r
  <2> QED BY <2>1, <2>2, <2>3, Zenon DEF ResumedLe
<1> QED BY <1>3, <1>4, Zenon

\* resume_client for the scanning manager, registered or not.
ScanStep(m, r) ==
  /\ r \in Host /\ SameCommands(m, r) /\ SameHci(m.hci, r.hci)
  /\ r.le = m.le /\ r.clients["le"] = m.clients["le"]
  /\ r.clients["scan"] = IF m.clients["scan"] = "NONE" THEN "NONE" ELSE "WAITING_FOR_RESUME"
  /\ Grow(m.tasks, r.tasks, {AR("scan"), RG("scan")}) /\ ScanBack(m, r)

\* resume_client for the scanning manager, in every case.
LEMMA ScanStepIs ==
  ASSUME NEW m \in Host
  PROVE  ScanStep(m, resume_client(m, "scan"))
<1> DEFINE r == resume_client(m, "scan")
           S == {AR("scan"), RG("scan")}
<1>1. m.tasks \in Seq(Tasks) /\ AR("scan") \in Tasks /\ RG("scan") \in Tasks
  BY Known, Zenon DEF Host, Clients
<1>3. CASE m.clients["scan"] = "NONE"
  <2>1. r = m
    BY <1>3, Zenon DEF resume_client
  <2>2. ScanStep(m, m)
    BY <1>3, Zenon DEF ScanStep, SameCommands, SameHci, SameScan, Grow, ScanBack
  <2> QED BY <2>1, <2>2, Zenon
<1>4. CASE m.clients["scan"] # "NONE"
  <2>1. ResumedScan(m, r)
    BY <1>4, ResumeScanIs, Zenon
  <2> HIDE DEF r
  <2>2. Grow(m.tasks, r.tasks, S) /\ Has(r.tasks, AR("scan"))
    <3>1. CASE r.tasks = Append(m.tasks, AR("scan"))
      BY <1>1, <3>1, GrowOne, Zenon
    <3>2. CASE r.tasks = Append(Append(m.tasks, RG("scan")), AR("scan"))
      BY <1>1, <3>2, GrowTwo, Zenon
    <3> QED BY <2>1, <3>1, <3>2, Zenon DEF ResumedScan
  <2>3. ScanBack(m, r)
    BY <1>4, <2>1, <2>2, Zenon DEF ScanBack, ResumedScan
  <2> QED BY <1>4, <2>1, <2>2, <2>3, Zenon DEF ScanStep, ResumedScan, r
<1> QED BY <1>3, <1>4, Zenon

\* resume_registered_clients, with no command left, leaves r.
ResumedAll(m, r) ==
  /\ r \in Host /\ SameCommands(m, r) /\ SameHci(m.hci, r.hci)
  /\ \A c \in Clients : r.clients[c] = IF m.clients[c] = "NONE" THEN "NONE" ELSE "WAITING_FOR_RESUME"
  /\ \A u : u \notin {AR("le"), AR("scan"), UN("le"), RG("scan")} => (Has(r.tasks, u) <=> Has(m.tasks, u))
  /\ LeBack(m, r) /\ ScanBack(m, r)

\* resume_registered_clients, whichever client comes first.
LEMMA ResumeAllIs ==
  ASSUME NEW m \in Host, m.address_policy # "NOT_SET", m.cached_commands = << >>,
         m.le.canceled # {} \/ m.le.connecting # {} => m.le.registered
  PROVE  ResumedAll(m, resume_registered_clients(m))
<1>1. \A c \in Clients : c = "le" \/ c = "scan"
  BY DEF Clients
<1>2. CASE m.le_first
  <2> DEFINE a == resume_client(m, "le")
             r == resume_client(a, "scan")
  <2>1. resume_registered_clients(m) = r
    BY <1>2, Zenon DEF resume_registered_clients
  <2>2. LeStep(m, a)
    BY LeStepIs, Zenon
  <2> HIDE DEF a
  <2>3. ScanStep(a, r)
    BY <2>2, ScanStepIs, Zenon DEF LeStep
  <2> HIDE DEF r
  <2>4. RG("le") \notin {AR("scan"), RG("scan")} /\ UN("le") \notin {AR("scan"), RG("scan")} /\ PC \notin {AR("scan"), RG("scan")}
        /\ AR("scan") \notin LeRegs /\ RG("scan") \notin LeRegs
    <3>1. "le" # "scan"
      OBVIOUS
    <3> QED BY <3>1, Differ, Zenon DEF LeRegs
  <2>5. SameLeRegs(a.tasks, r.tasks)
    BY <2>3, <2>4, Zenon DEF ScanStep, SameLeRegs, Grow, LeRegs
  <2>9. r.le = a.le /\ \A u : Has(a.tasks, u) => Has(r.tasks, u)
    BY <2>3, Zenon DEF ScanStep, Grow
  <2>6. LeBack(m, r)
    <3>1. LeBack(m, a) /\ UN("le") \in LeRegs /\ RG("le") \in LeRegs
      BY <2>2, Zenon DEF LeStep, LeRegs
    <3>2. \A q : SameLeRegs(q, a.tasks) => SameLeRegs(q, r.tasks)
      BY <2>5, Zenon DEF SameLeRegs
    <3>3. /\ Final(r.tasks, UN("le"), LeRegs) <=> Final(a.tasks, UN("le"), LeRegs)
          /\ Final(r.tasks, RG("le"), LeRegs) <=> Final(a.tasks, RG("le"), LeRegs)
      BY <2>5, <3>1, Zenon DEF SameLeRegs
    <3> QED BY <2>9, <3>1, <3>2, <3>3 DEF LeBack
  <2>7. ScanBack(m, r)
    BY <2>2, <2>3 DEF LeStep, ScanStep, ScanBack, SameScan
  <2>8. \A u : u \notin {AR("le"), AR("scan"), UN("le"), RG("scan")} => (Has(r.tasks, u) <=> Has(m.tasks, u))
    BY <2>2, <2>3, Zenon DEF LeStep, ScanStep, Grow
  <2>10. r \in Host /\ SameCommands(m, r) /\ SameHci(m.hci, r.hci)
    BY <2>2, <2>3, Zenon DEF LeStep, ScanStep, SameCommands, SameHci
  <2>11. \A c \in Clients : r.clients[c] = IF m.clients[c] = "NONE" THEN "NONE" ELSE "WAITING_FOR_RESUME"
    BY <1>1, <2>2, <2>3 DEF LeStep, ScanStep
  <2> QED BY <2>1, <2>6, <2>7, <2>8, <2>10, <2>11, Zenon DEF ResumedAll
<1>3. CASE ~m.le_first
  <2> DEFINE a == resume_client(m, "scan")
             r == resume_client(a, "le")
  <2>1. resume_registered_clients(m) = r
    BY <1>3, Zenon DEF resume_registered_clients
  <2>2. ScanStep(m, a)
    BY ScanStepIs, Zenon
  <2> HIDE DEF a
  <2>12. a \in Host /\ a.address_policy # "NOT_SET" /\ (a.le.canceled # {} \/ a.le.connecting # {} => a.le.registered)
    BY <2>2, Zenon DEF ScanStep, SameCommands
  <2>3. LeStep(a, r)
    BY <2>12, LeStepIs, Zenon
  <2> HIDE DEF r
  <2>4. RG("le") \notin {AR("scan"), RG("scan")} /\ UN("le") \notin {AR("scan"), RG("scan")} /\ PC \notin {AR("scan"), RG("scan")}
        /\ AR("scan") \notin LeRegs /\ RG("scan") \notin LeRegs
    <3>1. "le" # "scan"
      OBVIOUS
    <3> QED BY <3>1, Differ, Zenon DEF LeRegs
  <2>5. SameLeRegs(m.tasks, a.tasks)
    BY <2>2, <2>4, Zenon DEF ScanStep, SameLeRegs, Grow, LeRegs
  <2>9. \A u : Has(a.tasks, u) => Has(r.tasks, u)
    BY <2>3, Zenon DEF LeStep, Grow
  <2>6. LeBack(m, r)
    <3>1. LeBack(a, r) /\ a.le = m.le /\ a.clients["le"] = m.clients["le"]
      BY <2>2, <2>3, Zenon DEF LeStep, ScanStep
    <3>2. \A q : SameLeRegs(a.tasks, q) => SameLeRegs(m.tasks, q)
      BY <2>5, Zenon DEF SameLeRegs
    <3> QED BY <3>1, <3>2 DEF LeBack
  <2>7. ScanBack(m, r)
    BY <2>2, <2>3, <2>9 DEF LeStep, ScanStep, ScanBack, SameScan, ScanOps
  <2>8. \A u : u \notin {AR("le"), AR("scan"), UN("le"), RG("scan")} => (Has(r.tasks, u) <=> Has(m.tasks, u))
    BY <2>2, <2>3, Zenon DEF LeStep, ScanStep, Grow
  <2>10. r \in Host /\ SameCommands(m, r) /\ SameHci(m.hci, r.hci)
    BY <2>2, <2>3, Zenon DEF LeStep, ScanStep, SameCommands, SameHci
  <2>11. \A c \in Clients : r.clients[c] = IF m.clients[c] = "NONE" THEN "NONE" ELSE "WAITING_FOR_RESUME"
    BY <1>1, <2>2, <2>3 DEF LeStep, ScanStep
  <2> QED BY <2>1, <2>6, <2>7, <2>8, <2>10, <2>11, Zenon DEF ResumedAll
<1> QED BY <1>2, <1>3, Zenon
-----------------------------------------------------------------------------
\* The command complete event of op, b if it succeeded.
Occ(op, b) == Task("OnCommandComplete", [op |-> op, success |-> b])
NotSet(m) == m.address_policy = "NOT_SET"
Answered(q, op) == \E b \in BOOLEAN : Has(q, Occ(op, b))

\* Something that is on its way lets the clients resume when no command is left.
Real(m) ==
  \/ Has(m.tasks, RS) \/ Sent(m.hci, "list") \/ Answered(m.tasks, "list")
  \/ m.address_policy # "STATIC" /\ (Sent(m.hci, "set_random_address") \/ Answered(m.tasks, "set_random_address"))

\* Client c, whose acknowledgements all belong to its present registration.
Sound(m, c) ==
  /\ m.clients[c] = "NONE" => ~Has(m.tasks, AP(c))
  /\ Has(m.tasks, AP(c)) /\ m.clients[c] # "PAUSED" /\ ~NotSet(m) => m.cached_commands # << >>
  /\ Before(m.tasks, RS, AP(c)) => m.clients[c] # "PAUSED" /\ m.cached_commands # << >>
  /\ m.clients[c] # "PAUSED" => ~Before(m.tasks, AP(c), RS)
  /\ Has(m.tasks, AR(c)) => m.clients[c] # "PAUSED" /\ ~Before(m.tasks, AP(c), AR(c))
  /\ Has(m.tasks, AP(c)) \/ m.clients[c] = "PAUSED" => Pauses(m, c)

\* And it will be resumed.
Good(m, c) ==
  /\ Sound(m, c)
  /\ ~NotSet(m) /\ m.cached_commands = << >> /\ m.clients[c] = "PAUSED" => Real(m)

\* Nothing is sent and no one resumes before the address policy is set.
Early(m) ==
  NotSet(m) =>
    /\ ~Has(m.tasks, RS) /\ ~Has(m.tasks, HN) /\ ~Has(m.tasks, EC)
    /\ ~Answered(m.tasks, "list") /\ ~Answered(m.tasks, "set_random_address")
    /\ ~Sent(m.hci, "list") /\ ~Sent(m.hci, "set_random_address") /\ ~m.rotation_alarm

\* A client in a waiting state has its acknowledgement on its way.
Waits(m) ==
  \A c \in Clients :
    /\ m.clients[c] = "WAITING_FOR_PAUSE" => Has(m.tasks, AP(c))
    /\ m.clients[c] = "WAITING_FOR_RESUME" => Has(m.tasks, AR(c))

\* Only resolvable addresses are rotated.
Rotates(m) == m.rotation_alarm \/ Has(m.cached_commands, "rotate") => Rotating(m)

\* le_impl knows whether it will be registered when the tasks have run.
LeKnows(m) ==
  /\ Final(m.tasks, RG("le"), LeRegs) => m.le.registered
  /\ Final(m.tasks, UN("le"), LeRegs) => ~m.le.registered
  /\ ~Has(m.tasks, RG("le")) /\ ~Has(m.tasks, UN("le")) => (m.le.registered <=> m.clients["le"] # "NONE")

LeSets(m) ==
  /\ m.le.connecting # {} \/ m.le.canceled # {} => m.le.registered
  /\ m.le.canceled # {} => m.le.pause

\* le_impl holds connections back only while it is paused or a pause is to come.
LePauses(m) ==
  /\ m.le.pause => \/ Has(m.tasks, AP("le")) \/ m.clients["le"] = "PAUSED"
                   \/ m.le.registered /\ Final(m.tasks, PC, LeRegs)
  /\ Has(m.tasks, UN("le")) => m.clients["le"] # "PAUSED" /\ ~Before(m.tasks, AP("le"), UN("le"))

ScanPauses(m) ==
  m.scan.registered /\ m.scan.paused =>
    /\ Has(m.tasks, AP("scan")) \/ m.clients["scan"] = "PAUSED"
    /\ Has(m.tasks, UN("scan")) => m.clients["scan"] # "PAUSED" /\ ~Before(m.tasks, AP("scan"), UN("scan"))

\* The controller will scan exactly if the host thinks so.
Scans(m, act) ==
  /\ On(m.hci) => m.scan.is_scanning
  /\ Off(m.hci) => ~m.scan.is_scanning
  /\ (\A op \in ScanOps : ~Sent(m.hci, op)) => (m.scan.is_scanning <=> "scan" \in act)

\* The controller will have the host's address, and the host will know.
Addresses(m, addr, rej) ==
  /\ Has(m.tasks, EC) => m.address_policy = "STATIC"
  /\ ~rej =>
       /\ Sent(m.hci, "set_random_address") => Last(m.hci, m.cached_address)
       /\ ~Sent(m.hci, "set_random_address") /\ ~Has(m.tasks, EC) => addr = m.cached_address
       /\ \/ m.le_address = m.cached_address \/ Sent(m.hci, "set_random_address")
          \/ Has(m.tasks, Occ("set_random_address", TRUE))
       /\ m.address_policy = "STATIC" => m.le_address = m.cached_address

\* The invariant of the host m, for what the controller does (act), its address and the clients
\* that crossed.
Inv(m, act, addr, rej, X) ==
  /\ \A c \in Clients \ X : Good(m, c)
  /\ Early(m) /\ Waits(m) /\ Rotates(m) /\ LeKnows(m) /\ LeSets(m)
  /\ "le" \notin X => LePauses(m)
  /\ "scan" \notin X => ScanPauses(m)
  /\ Scans(m, act) /\ Addresses(m, addr, rej)
-----------------------------------------------------------------------------
Counted ==
  {RG(c) : c \in Clients} \cup {UN(c) : c \in Clients} \cup {AP(c) : c \in Clients} \cup {AR(c) : c \in Clients}
    \cup {PC, RS, HN, EC} \cup {Occ(op, b) : op \in {"list", "set_random_address"}, b \in BOOLEAN}

\* The task of a command complete event differs from all others.
LEMMA Distinct ==
  /\ \A op, b : Occ(op, b) \notin LeRegs /\ Occ(op, b) # RS /\ Occ(op, b) # HN /\ Occ(op, b) # EC /\ Occ(op, b) # PC
  /\ \A op, b, c : Occ(op, b) # AP(c) /\ Occ(op, b) # AR(c) /\ Occ(op, b) # UN(c) /\ Occ(op, b) # RG(c)
  /\ \A op, b, p, e : Occ(op, b) = Occ(p, e) => op = p /\ b = e
  /\ "le" # "scan"
<1>1. \A op, b, p, e : Occ(op, b) = Occ(p, e) => op = p /\ b = e
  BY DEF Occ, Task
<1>2. "OnCommandComplete" \notin {"register_client", "unregister_client", "ack_pause", "ack_resume", "push_command",
                         "resume_registered_clients", "handle_next_command", "enqueue_command"} /\ "le" # "scan"
  OBVIOUS
<1>3. \A op, b :
        /\ \A c : Occ(op, b) # AP(c) /\ Occ(op, b) # AR(c) /\ Occ(op, b) # UN(c) /\ Occ(op, b) # RG(c)
        /\ Occ(op, b) # PC /\ Occ(op, b) # RS /\ Occ(op, b) # HN /\ Occ(op, b) # EC
  <2> TAKE op, b
  <2> DEFINE x == [op |-> op, success |-> b]
  <2> HIDE DEF x
  <2>1. /\ \A c : Task("OnCommandComplete", x) # AP(c) /\ Task("OnCommandComplete", x) # AR(c)
                  /\ Task("OnCommandComplete", x) # UN(c) /\ Task("OnCommandComplete", x) # RG(c)
        /\ Task("OnCommandComplete", x) # PC /\ Task("OnCommandComplete", x) # RS
        /\ Task("OnCommandComplete", x) # HN /\ Task("OnCommandComplete", x) # EC
    BY <1>2, Differ
  <2> QED BY <2>1, Zenon DEF Occ, x
<1>4. \A op, b : Occ(op, b) \notin LeRegs
  BY <1>3, Zenon DEF LeRegs
<1> HIDE DEF Occ
<1> QED BY <1>1, <1>2, <1>3, <1>4

\* Tasks that no invariant counts come or go.
SameTasks(q, p) ==
  /\ \A u \in Counted : Has(p, u) <=> Has(q, u)
  /\ \A u, v \in Counted : Before(p, u, v) <=> Before(q, u, v)
  /\ \A u \in Counted : Final(p, u, LeRegs) <=> Final(q, u, LeRegs)

\* The tasks that the invariant speaks of.
LEMMA CountedAre ==
  /\ \A c \in Clients : RG(c) \in Counted /\ UN(c) \in Counted /\ AP(c) \in Counted /\ AR(c) \in Counted
  /\ "le" \in Clients /\ "scan" \in Clients
  /\ PC \in Counted /\ RS \in Counted /\ HN \in Counted /\ EC \in Counted
  /\ \A op \in {"list", "set_random_address"}, b \in BOOLEAN : Occ(op, b) \in Counted
  /\ \A u \in LeRegs : u \in Counted
<1>1. "le" \in Clients /\ "scan" \in Clients
  BY DEF Clients
<1>2. \A op \in {"list", "set_random_address"}, b \in BOOLEAN : Occ(op, b) \in Counted
  BY DEF Counted
<1>3. /\ \A c \in Clients : RG(c) \in Counted /\ UN(c) \in Counted /\ AP(c) \in Counted /\ AR(c) \in Counted
      /\ PC \in Counted /\ RS \in Counted /\ HN \in Counted /\ EC \in Counted
  BY DEF Counted
<1>4. \A u \in LeRegs : u \in Counted
  BY <1>1, <1>3, Zenon DEF LeRegs
<1> QED BY <1>1, <1>2, <1>3, <1>4, Zenon

\* The rest of the host that the invariant is about stays as it is, except that the scanning
\* manager and le_impl may have more reason to pause.
LEMMA SameKeeps ==
  ASSUME NEW m \in Host, NEW r \in Host, NEW act, NEW addr, NEW rej, NEW X, Inv(m, act, addr, rej, X),
         SameManager(m, r), SameTasks(m.tasks, r.tasks), r.hci = m.hci, r.scan = m.scan,
         r.le.pause = m.le.pause, r.le.registered = m.le.registered,
         r.le.connecting \subseteq m.le.connecting, r.le.canceled \subseteq m.le.canceled
  PROVE  Inv(r, act, addr, rej, X)
<1>1. Answered(r.tasks, "list") <=> Answered(m.tasks, "list")
  BY CountedAre, Zenon DEF Answered, SameTasks
<1>2. Answered(r.tasks, "set_random_address") <=> Answered(m.tasks, "set_random_address")
  BY CountedAre, Zenon DEF Answered, SameTasks
<1>3. Real(r) <=> Real(m)
  BY <1>1, <1>2, CountedAre, Zenon DEF Real, SameTasks, SameManager
<1>4. \A c : Pauses(r, c) <=> Pauses(m, c)
  BY Zenon DEF Pauses
<1>5. \A c \in Clients \ X : Good(r, c)
  <2> TAKE c \in Clients \ X
  <2>1. Good(m, c) /\ c \in Clients
    BY Zenon DEF Inv
  <2>2. /\ Has(r.tasks, AP(c)) <=> Has(m.tasks, AP(c))
        /\ Has(r.tasks, AR(c)) <=> Has(m.tasks, AR(c))
        /\ Before(r.tasks, RS, AP(c)) <=> Before(m.tasks, RS, AP(c))
        /\ Before(r.tasks, AP(c), RS) <=> Before(m.tasks, AP(c), RS)
        /\ Before(r.tasks, AP(c), AR(c)) <=> Before(m.tasks, AP(c), AR(c))
    BY <2>1, CountedAre, Zenon DEF SameTasks
  <2> QED BY <1>3, <1>4, <2>1, <2>2, Zenon DEF Good, Sound, NotSet, SameManager
<1>6. Early(r)
  BY <1>1, <1>2, CountedAre, Zenon DEF Inv, Early, NotSet, SameManager, SameTasks
<1>7. Waits(r)
  BY CountedAre, Zenon DEF Inv, Waits, SameManager, SameTasks
<1>8. Rotates(r)
  BY Zenon DEF Inv, Rotates, Rotating, SameManager
<1>9. LeKnows(r)
  BY CountedAre, Zenon DEF Inv, LeKnows, SameManager, SameTasks
<1>10. LeSets(r)
  BY Zenon DEF Inv, LeSets
<1>11. "le" \notin X => LePauses(r)
  BY CountedAre, Zenon DEF Inv, LePauses, SameManager, SameTasks
<1>12. "scan" \notin X => ScanPauses(r)
  BY CountedAre, Zenon DEF Inv, ScanPauses, SameManager, SameTasks
<1>13. Scans(r, act)
  BY Zenon DEF Inv, Scans
<1>14. Addresses(r, addr, rej)
  BY CountedAre, Zenon DEF Inv, Addresses, SameManager, SameTasks
<1> QED BY <1>5, <1>6, <1>7, <1>8, <1>9, <1>10, <1>11, <1>12, <1>13, <1>14, Zenon DEF Inv

\* A connection complete event that is posted is none of them.
LEMMA PostSame ==
  ASSUME NEW q \in Seq(Tasks), NEW t \in Tasks, t \notin Counted
  PROVE  SameTasks(q, Append(q, t))
<1>1. /\ \A u : Has(Append(q, t), u) <=> Has(q, u) \/ t = u
      /\ \A u, v : Before(Append(q, t), u, v) <=> Before(q, u, v) \/ (Has(q, u) /\ t = v)
      /\ \A u, T : Final(Append(q, t), u, T) <=> t = u \/ (Final(q, u, T) /\ t \notin T)
  BY AppendHas
<1> QED BY <1>1, CountedAre, Zenon DEF SameTasks

\* Nor when it is taken.
LEMMA DropSame ==
  ASSUME NEW q \in Seq(Tasks), q # << >>, Head(q) \notin Counted
  PROVE  SameTasks(q, Tail(q))
<1>1. /\ \A u : Has(q, u) <=> Has(Tail(q), u) \/ Head(q) = u
      /\ \A u, v : Before(q, u, v) <=> Before(Tail(q), u, v) \/ (Head(q) = u /\ Has(Tail(q), v))
      /\ \A u, T : Final(q, u, T) <=> Final(Tail(q), u, T) \/ (Head(q) = u /\ \A v \in T : ~Has(Tail(q), v))
  BY TailHas
<1> QED BY <1>1, CountedAre, Zenon DEF SameTasks

\* le_impl changes a list of the controller: add_device_to_list, with or without a connection
\* that is held back, and remove_device_from_list.
Listed(m, r) ==
  /\ r \in Host /\ SameManager(m, r) /\ r.hci = m.hci /\ r.scan = m.scan
  /\ r.tasks = IF m.le.registered THEN Append(m.tasks, PC) ELSE Append(Append(m.tasks, RG("le")), PC)
  /\ r.le.pause = TRUE /\ r.le.registered = TRUE

\* A change of the lists keeps the invariant: le_impl will be registered when the change is
\* pushed, and then it will be asked to pause.
LEMMA ListKeeps ==
  ASSUME NEW m \in Host, NEW r, NEW act, NEW addr, NEW rej, NEW X, Inv(m, act, addr, rej, X), Listed(m, r)
  PROVE  Inv(r, act, addr, rej, X)
<1>0. m.tasks \in Seq(Tasks) /\ RG("le") \in Tasks /\ PC \in Tasks /\ Append(m.tasks, RG("le")) \in Seq(Tasks)
  <2>1. m.tasks \in Seq(Tasks) /\ RG("le") \in Tasks /\ PC \in Tasks
    BY Known, CountedAre, Zenon DEF Host
  <2> QED BY <2>1, Appended
<1>1. Grow(m.tasks, r.tasks, {RG("le"), PC})
  <2>1. CASE m.le.registered
    BY <1>0, <2>1, GrowOne, Zenon DEF Listed
  <2>2. CASE ~m.le.registered
    BY <1>0, <2>2, GrowTwo, Zenon DEF Listed
  <2> QED BY <2>1, <2>2, Zenon
<1>2. /\ \A c : AP(c) \notin {RG("le"), PC} /\ AR(c) \notin {RG("le"), PC} /\ UN(c) \notin {RG("le"), PC}
      /\ RS \notin {RG("le"), PC} /\ HN \notin {RG("le"), PC} /\ EC \notin {RG("le"), PC}
      /\ \A op, b : Occ(op, b) \notin {RG("le"), PC}
      /\ PC # RG("le") /\ PC # UN("le") /\ PC \notin LeRegs /\ UN("le") # RG("le") /\ RG("le") \in LeRegs
  BY Differ, Distinct, Zenon DEF LeRegs
<1>3. /\ \A u : u \notin {RG("le"), PC} => (Has(r.tasks, u) <=> Has(m.tasks, u))
      /\ \A u, v : v \notin {RG("le"), PC} => (Before(r.tasks, u, v) <=> Before(m.tasks, u, v))
  BY <1>1, Zenon DEF Grow
<1>4. \A op : Answered(r.tasks, op) <=> Answered(m.tasks, op)
  BY <1>2, <1>3, Zenon DEF Answered
<1>5. Real(r) <=> Real(m)
  BY <1>2, <1>3, <1>4, Zenon DEF Real, SameManager, Listed
<1>6. \A c : Pauses(m, c) => Pauses(r, c)
  BY Zenon DEF Pauses, Listed
<1>7. \A c \in Clients \ X : Good(r, c)
  <2> TAKE c \in Clients \ X
  <2>1. Good(m, c)
    BY Zenon DEF Inv
  <2>2. /\ Has(r.tasks, AP(c)) <=> Has(m.tasks, AP(c))
        /\ Has(r.tasks, AR(c)) <=> Has(m.tasks, AR(c))
        /\ Before(r.tasks, RS, AP(c)) <=> Before(m.tasks, RS, AP(c))
        /\ Before(r.tasks, AP(c), RS) <=> Before(m.tasks, AP(c), RS)
        /\ Before(r.tasks, AP(c), AR(c)) <=> Before(m.tasks, AP(c), AR(c))
    BY <1>2, <1>3, Zenon
  <2> QED BY <1>5, <1>6, <2>1, <2>2, Zenon DEF Good, Sound, NotSet, SameManager, Listed
<1>8. Early(r)
  BY <1>2, <1>3, <1>4, Zenon DEF Inv, Early, NotSet, SameManager, Listed
<1>9. Waits(r)
  BY <1>2, <1>3, Zenon DEF Inv, Waits, SameManager, Listed
<1>10. Rotates(r)
  BY Zenon DEF Inv, Rotates, Rotating, SameManager, Listed
<1>11. Final(r.tasks, PC, LeRegs)
  <2>1. CASE m.le.registered
    <3>1. \A u, T : Final(Append(m.tasks, PC), u, T) <=> PC = u \/ (Final(m.tasks, u, T) /\ PC \notin T)
      BY <1>0, AppendHas
    <3> QED BY <2>1, <3>1, Zenon DEF Listed
  <2>2. CASE ~m.le.registered
    <3> DEFINE p == Append(m.tasks, RG("le"))
    <3> HIDE DEF p
    <3>1. \A u, T : Final(Append(p, PC), u, T) <=> PC = u \/ (Final(p, u, T) /\ PC \notin T)
      <4>1. p \in Seq(Tasks)
        BY <1>0, Zenon DEF p
      <4> QED BY <1>0, <4>1, AppendHas
    <3> QED BY <2>2, <3>1, Zenon DEF Listed, p
  <2> QED BY <2>1, <2>2, Zenon
<1>12. LeKnows(r)
  <2>1. CASE m.le.registered
    <3>1. \A u, T : Final(Append(m.tasks, PC), u, T) <=> PC = u \/ (Final(m.tasks, u, T) /\ PC \notin T)
      BY <1>0, AppendHas
    <3>2. \A u : Has(Append(m.tasks, PC), u) <=> Has(m.tasks, u) \/ PC = u
      BY <1>0, AppendHas
    <3>3. r.tasks = Append(m.tasks, PC) /\ r.clients = m.clients
      BY <2>1, Zenon DEF Listed, SameManager
    <3> QED BY <1>2, <2>1, <3>1, <3>2, <3>3, Zenon DEF Inv, LeKnows, Listed
  <2>2. CASE ~m.le.registered
    <3> DEFINE p == Append(m.tasks, RG("le"))
    <3>1. \A u, T : Final(Append(m.tasks, RG("le")), u, T) <=> RG("le") = u \/ (Final(m.tasks, u, T) /\ RG("le") \notin T)
      BY <1>0, AppendHas
    <3>2. ~Final(p, UN("le"), LeRegs)
      BY <1>2, <3>1, Zenon
    <3> HIDE DEF p
    <3>3. \A u, T : Final(Append(p, PC), u, T) <=> PC = u \/ (Final(p, u, T) /\ PC \notin T)
      <4>1. p \in Seq(Tasks)
        BY <1>0, Zenon DEF p
      <4> QED BY <1>0, <4>1, AppendHas
    <3>4. r.tasks = Append(p, PC)
      BY <2>2, Zenon DEF Listed, p
    <3>5. ~Final(r.tasks, UN("le"), LeRegs)
      BY <1>2, <3>2, <3>3, <3>4, Zenon
    <3>6. Has(r.tasks, RG("le"))
      BY <1>0, <2>2, GrowTwo, Zenon DEF Listed
    <3> QED BY <3>5, <3>6, Zenon DEF LeKnows, Listed
  <2> QED BY <2>1, <2>2, Zenon
<1>13. LeSets(r)
  BY Zenon DEF LeSets, Listed
<1>14. "le" \notin X => LePauses(r)
  BY <1>2, <1>3, <1>11, Zenon DEF Inv, LePauses, Listed, SameManager
<1>15. "scan" \notin X => ScanPauses(r)
  BY <1>2, <1>3, Zenon DEF Inv, ScanPauses, SameManager, Listed
<1>16. Scans(r, act)
  BY Zenon DEF Inv, Scans, Listed
<1>17. Addresses(r, addr, rej)
  BY <1>2, <1>3, Zenon DEF Inv, Addresses, SameManager, Listed
<1> QED BY <1>7, <1>8, <1>9, <1>10, <1>12, <1>13, <1>14, <1>15, <1>16, <1>17, Zenon DEF Inv

\* Scan commands, on the way to the controller.
LEMMA ScanSent ==
  ASSUME NEW m \in Host
  PROVE  LET off == Append(m.hci, Cmd(m, "scan_off"))
             on == Append(off, Cmd(m, "scan_on"))
         IN /\ SameHci(m.hci, off) /\ Off(off) /\ ~On(off) /\ Sent(off, "scan_off")
            /\ SameHci(m.hci, on) /\ On(on) /\ ~Off(on) /\ Sent(on, "scan_on")
<1> DEFINE x == Cmd(m, "scan_off")
           y == Cmd(m, "scan_on")
           off == Append(m.hci, x)
           on == Append(off, y)
<1>1. m.hci \in Seq(Cmds) /\ x \in Cmds /\ y \in Cmds
  BY DEF Host, Cmds, Cmd, Commands
<1>2. off \in Seq(Cmds)
  BY <1>1, Appended
<1>3. x.op = "scan_off" /\ y.op = "scan_on"
  BY DEF Cmd
<1>4. x.op \notin {"list", "set_random_address"} /\ y.op \notin {"list", "set_random_address"}
  BY <1>3
<1> HIDE DEF x, y
<1>5. SameHci(m.hci, off) /\ Off(off) /\ ~On(off) /\ Sent(off, "scan_off")
  BY <1>1, <1>3, <1>4, MoreHci, Zenon
<1> HIDE DEF off
<1>6. SameHci(off, on) /\ On(on) /\ ~Off(on) /\ Sent(on, "scan_on")
  BY <1>1, <1>2, <1>3, <1>4, MoreHci, Zenon
<1>7. SameHci(m.hci, on)
  BY <1>5, <1>6, Zenon DEF SameHci
<1> QED BY <1>5, <1>6, <1>7, Zenon DEF off, x, y

\* scan keeps the invariant: the command it sends last tells the controller what the host
\* thinks.
LEMMA ScanKeeps ==
  ASSUME NEW m \in Host, NEW r, NEW start \in BOOLEAN, NEW act, NEW addr, NEW rej, NEW X,
         Inv(m, act, addr, rej, X), Scanned(m, start, r)
  PROVE  Inv(r, act, addr, rej, X)
<1> DEFINE S == {RG("scan"), UN("scan")}
<1>0. m.tasks \in Seq(Tasks) /\ RG("scan") \in Tasks /\ UN("scan") \in Tasks
  BY Known, CountedAre, Zenon DEF Host
<1>1. Grow(m.tasks, r.tasks, S)
  <2>1. CASE r.tasks = m.tasks
    BY <2>1, Zenon DEF Grow
  <2>2. CASE r.tasks = Append(m.tasks, RG("scan"))
    BY <1>0, <2>2, GrowOne, Zenon
  <2>3. CASE r.tasks = Append(m.tasks, UN("scan"))
    BY <1>0, <2>3, GrowOne, Zenon
  <2> QED BY <2>1, <2>2, <2>3, Zenon DEF Scanned
<1>2. /\ \A c : AP(c) \notin S /\ AR(c) \notin S
      /\ RS \notin S /\ HN \notin S /\ EC \notin S /\ PC \notin S
      /\ UN("le") \notin S /\ RG("le") \notin S
      /\ \A op, b : Occ(op, b) \notin S
      /\ \A t \in S : t \notin LeRegs
  <2>1. "le" # "scan"
    OBVIOUS
  <2>2. /\ \A c : AP(c) \notin S /\ AR(c) \notin S
        /\ RS \notin S /\ HN \notin S /\ EC \notin S /\ PC \notin S
    BY Differ, Zenon
  <2>3. \A op, b : Occ(op, b) \notin S
    BY Distinct, Zenon
  <2>4. UN("le") \notin S /\ RG("le") \notin S
    BY <2>1, Differ, Zenon
  <2> QED BY <2>2, <2>3, <2>4, Zenon DEF LeRegs
<1>3. /\ \A u : u \notin S => (Has(r.tasks, u) <=> Has(m.tasks, u))
      /\ \A u, v : v \notin S => (Before(r.tasks, u, v) <=> Before(m.tasks, u, v))
      /\ \A u : u \notin S => (Final(r.tasks, u, LeRegs) <=> Final(m.tasks, u, LeRegs))
  BY <1>1, <1>2, Zenon DEF Grow
<1> HIDE DEF S
<1>4. \A op : Answered(r.tasks, op) <=> Answered(m.tasks, op)
  BY <1>2, <1>3, Zenon DEF Answered
<1>20. /\ r \in Host /\ SameManager(m, r) /\ r.le = m.le /\ r.scan.paused = m.scan.paused
       /\ SameHci(m.hci, r.hci)
       /\ \/ ~r.scan.is_scanning /\ Off(r.hci) /\ ~On(r.hci) /\ Sent(r.hci, "scan_off")
          \/ ~m.scan.paused /\ r.scan.is_scanning /\ ~Off(r.hci) /\ On(r.hci) /\ Sent(r.hci, "scan_on")
  <2>1. CASE start /\ ~m.scan.paused
    BY <2>1, ScanSent, Zenon DEF Scanned
  <2>2. CASE ~(start /\ ~m.scan.paused)
    BY <2>2, ScanSent, Zenon DEF Scanned
  <2> QED BY <2>1, <2>2, Zenon
<1>21. "list" \in {"list", "set_random_address"} /\ "set_random_address" \in {"list", "set_random_address"}
  OBVIOUS
<1>22. /\ Sent(r.hci, "list") <=> Sent(m.hci, "list")
       /\ Sent(r.hci, "set_random_address") <=> Sent(m.hci, "set_random_address")
       /\ \A a : Last(r.hci, a) <=> Last(m.hci, a)
  BY <1>20, <1>21, Zenon DEF SameHci
<1>5. Real(r) <=> Real(m)
  BY <1>2, <1>3, <1>4, <1>20, <1>22, Zenon DEF Real, SameManager
<1>6. \A c : Pauses(m, c) => Pauses(r, c)
  BY <1>20, Zenon DEF Pauses
<1>7. \A c \in Clients \ X : Good(r, c)
  <2> TAKE c \in Clients \ X
  <2>1. Good(m, c)
    BY Zenon DEF Inv
  <2>2. /\ Has(r.tasks, AP(c)) <=> Has(m.tasks, AP(c))
        /\ Has(r.tasks, AR(c)) <=> Has(m.tasks, AR(c))
        /\ Before(r.tasks, RS, AP(c)) <=> Before(m.tasks, RS, AP(c))
        /\ Before(r.tasks, AP(c), RS) <=> Before(m.tasks, AP(c), RS)
        /\ Before(r.tasks, AP(c), AR(c)) <=> Before(m.tasks, AP(c), AR(c))
    BY <1>2, <1>3, Zenon
  <2> QED BY <1>5, <1>6, <1>20, <2>1, <2>2, Zenon DEF Good, Sound, NotSet, SameManager
<1>8. Early(r)
  BY <1>2, <1>3, <1>4, <1>20, <1>22, Zenon DEF Inv, Early, NotSet, SameManager
<1>9. Waits(r)
  BY <1>2, <1>3, <1>20, Zenon DEF Inv, Waits, SameManager
<1>10. Rotates(r)
  BY <1>20, Zenon DEF Inv, Rotates, Rotating, SameManager
<1>12. LeKnows(r)
  BY <1>2, <1>3, <1>20, Zenon DEF Inv, LeKnows, SameManager
<1>13. LeSets(r)
  BY <1>20, Zenon DEF Inv, LeSets
<1>14. "le" \notin X => LePauses(r)
  BY <1>2, <1>3, <1>20, Zenon DEF Inv, LePauses, SameManager
<1>15. "scan" \notin X => ScanPauses(r)
  <2>1. CASE start /\ m.scan.paused
    <3>1. r.tasks = m.tasks /\ r.scan.registered = m.scan.registered
      BY <2>1, Zenon DEF Scanned
    <3> QED BY <1>20, <3>1, Zenon DEF Inv, ScanPauses, SameManager
  <2>2. CASE start /\ ~m.scan.paused
    BY <1>20, <2>2, Zenon DEF ScanPauses
  <2>3. CASE ~start
    BY <2>3, Zenon DEF ScanPauses, Scanned
  <2> QED BY <2>1, <2>2, <2>3, Zenon
<1>16. Scans(r, act)
  BY <1>20 DEF Scans, ScanOps
<1>17. Addresses(r, addr, rej)
  BY <1>2, <1>3, <1>20, <1>22, Zenon DEF Inv, Addresses, SameManager
<1> QED BY <1>7, <1>8, <1>9, <1>10, <1>12, <1>13, <1>14, <1>15, <1>16, <1>17, Zenon DEF Inv
-----------------------------------------------------------------------------
\* The task t in front of the queue of w is taken.
Dropped(w, t, m) ==
  /\ m \in Host /\ SameManager(w, m) /\ m.le = w.le /\ m.scan = w.scan /\ m.hci = w.hci
  /\ t \in Tasks
  /\ \A u : Has(w.tasks, u) <=> Has(m.tasks, u) \/ t = u
  /\ \A u, v : Before(w.tasks, u, v) <=> Before(m.tasks, u, v) \/ (t = u /\ Has(m.tasks, v))
  /\ \A u, T : Final(w.tasks, u, T) <=> Final(m.tasks, u, T) \/ (t = u /\ \A v \in T : ~Has(m.tasks, v))

\* What taking the task in front changes about the queue.
LEMMA DropIs ==
  ASSUME NEW w \in Host, w.tasks # << >>
  PROVE  Dropped(w, Head(w.tasks), [w EXCEPT !.tasks = Tail(@)])
<1> DEFINE m == [w EXCEPT !.tasks = Tail(@)]
<1>1. w.tasks \in Seq(Tasks)
  BY Zenon DEF Host
<1>2. Tail(w.tasks) \in Seq(Tasks) /\ Head(w.tasks) \in Tasks
  BY <1>1, Taken
<1>3. m \in Host
  BY <1>2, Zenon DEF Host
<1>4. /\ SameManager(w, m) /\ m.le = w.le /\ m.scan = w.scan /\ m.hci = w.hci /\ m.tasks = Tail(w.tasks)
  BY <1>3 DEF Host, SameManager
<1> HIDE DEF m
<1>5. /\ \A u : Has(w.tasks, u) <=> Has(Tail(w.tasks), u) \/ Head(w.tasks) = u
      /\ \A u, v : Before(w.tasks, u, v) <=> Before(Tail(w.tasks), u, v) \/ (Head(w.tasks) = u /\ Has(Tail(w.tasks), v))
      /\ \A u, T : Final(w.tasks, u, T) <=>
            Final(Tail(w.tasks), u, T) \/ (Head(w.tasks) = u /\ \A v \in T : ~Has(Tail(w.tasks), v))
  BY <1>1, TailHas
<1>6. Dropped(w, Head(w.tasks), m)
  BY <1>2, <1>3, <1>4, <1>5, Zenon DEF Dropped
<1> QED BY <1>6, Zenon DEF m

\* What is left of the invariant when a task is taken.
Kept(t, m, act, addr, rej, X) ==
  /\ \A c \in Clients \ X : Sound(m, c)
  /\ Early(m) /\ Rotates(m) /\ LeSets(m) /\ Scans(m, act)
  /\ t # RS /\ (\A op, b : t # Occ(op, b)) => \A c \in Clients \ X : Good(m, c)
  /\ (\A c \in Clients : t # AP(c) /\ t # AR(c)) => Waits(m)
  /\ t \notin LeRegs => LeKnows(m)
  /\ t # AP("scan") => ("scan" \notin X => ScanPauses(m))
  /\ t # AP("le") /\ t # PC => ("le" \notin X => LePauses(m))
  /\ t # EC /\ t # Occ("set_random_address", TRUE) => Addresses(m, addr, rej)

\* Taking a task keeps all of the invariant but what the task itself stands for.
LEMMA DropKeeps ==
  ASSUME NEW w \in Host, NEW m, NEW t, NEW act, NEW addr, NEW rej, NEW X,
         Inv(w, act, addr, rej, X), Dropped(w, t, m)
  PROVE  Kept(t, m, act, addr, rej, X)
<1>1. \A c : Pauses(m, c) <=> Pauses(w, c)
  BY Zenon DEF Pauses, Dropped
<1>2. \A u : Has(m.tasks, u) => Has(w.tasks, u)
  BY Zenon DEF Dropped
<1>3. \A u, v : Before(m.tasks, u, v) => Before(w.tasks, u, v)
  BY Zenon DEF Dropped
<1>4. \A c \in Clients \ X : Sound(m, c)
  <2> TAKE c \in Clients \ X
  <2>1. Sound(w, c)
    BY Zenon DEF Inv, Good
  <2> QED BY <1>1, <1>2, <1>3, <2>1, Zenon DEF Sound, NotSet, SameManager, Dropped
<1>5. \A op : Answered(m.tasks, op) => Answered(w.tasks, op)
  BY <1>2, Zenon DEF Answered
<1>6. Early(m)
  BY <1>2, <1>5, Zenon DEF Inv, Early, NotSet, SameManager, Dropped
<1>7. Rotates(m)
  BY Zenon DEF Inv, Rotates, Rotating, SameManager, Dropped
<1>8. LeSets(m) /\ Scans(m, act)
  BY Zenon DEF Inv, LeSets, Scans, Dropped
<1>9. ASSUME t # RS, \A op, b : t # Occ(op, b) PROVE \A c \in Clients \ X : Good(m, c)
  <2>1. \A op : Answered(w.tasks, op) => Answered(m.tasks, op)
    BY <1>9, Zenon DEF Answered, Dropped
  <2>2. Real(w) => Real(m)
    BY <1>9, <2>1, Zenon DEF Real, SameManager, Dropped
  <2> QED BY <1>4, <2>2, Zenon DEF Inv, Good, NotSet, SameManager, Dropped
<1>10. (\A c \in Clients : t # AP(c) /\ t # AR(c)) => Waits(m)
  BY Zenon DEF Inv, Waits, SameManager, Dropped
<1>11. t \notin LeRegs => LeKnows(m)
  BY Zenon DEF Inv, LeKnows, LeRegs, SameManager, Dropped
<1>12. t # AP("scan") => ("scan" \notin X => ScanPauses(m))
  BY <1>2, <1>3, Zenon DEF Inv, ScanPauses, SameManager, Dropped
<1>13. t # AP("le") /\ t # PC => ("le" \notin X => LePauses(m))
  BY <1>2, <1>3, Zenon DEF Inv, LePauses, SameManager, Dropped
<1>14. t # EC /\ t # Occ("set_random_address", TRUE) => Addresses(m, addr, rej)
  BY Zenon DEF Inv, Addresses, SameManager, Dropped
<1> QED BY <1>4, <1>6, <1>7, <1>8, <1>9, <1>10, <1>11, <1>12, <1>13, <1>14, Zenon DEF Kept
-----------------------------------------------------------------------------
\* Every registered client is asked to pause, and a command may be added.
Held(m, r) ==
  /\ r \in Host /\ SameHci(m.hci, r.hci)
  /\ r.address_policy = m.address_policy /\ (r.rotation_alarm => m.rotation_alarm)
  /\ r.le_address = m.le_address /\ r.cached_address = m.cached_address
  /\ \A c \in Clients : r.clients[c] = IF Asked(m, c) THEN "WAITING_FOR_PAUSE" ELSE m.clients[c]
  /\ \A u : Has(r.tasks, u) <=> Has(m.tasks, u) \/ \E c \in Clients : Asked(m, c) /\ AP(c) = u
  /\ \A u, v : (\A c \in Clients : AP(c) # v) => (Before(r.tasks, u, v) <=> Before(m.tasks, u, v))
  /\ \A u : \A c \in Clients : (\A d \in Clients : AP(d) # u) =>
       (Before(r.tasks, u, AP(c)) <=> Before(m.tasks, u, AP(c)) \/ (Asked(m, c) /\ Has(m.tasks, u)))
  /\ \A u, T : (\A c \in Clients : AP(c) # u /\ AP(c) \notin T) => (Final(r.tasks, u, T) <=> Final(m.tasks, u, T))
  /\ LePart(m, Asked(m, "le"), r)
  /\ ScanPart(m, Asked(m, "scan"), r)

\* LePauses, before le_impl is asked to pause.
LeWillPause(m) ==
  /\ m.le.pause => \/ Has(m.tasks, AP("le")) \/ m.clients["le"] = "PAUSED"
                   \/ m.le.registered /\ Final(m.tasks, PC, LeRegs)
                   \/ Asked(m, "le")
  /\ Has(m.tasks, UN("le")) => m.clients["le"] # "PAUSED" /\ ~Before(m.tasks, AP("le"), UN("le"))

\* Asking all clients to pause keeps the invariant if a command waits for them, or no policy
\* is set yet: each acknowledgement is posted behind everything else.
LEMMA HeldKeeps ==
  ASSUME NEW m \in Host, NEW r, NEW act, NEW addr, NEW rej, NEW X,
         \A c \in Clients \ X : Good(m, c),
         Early(m), Waits(m), LeKnows(m), LeSets(m), "le" \notin X => LeWillPause(m),
         "scan" \notin X => ScanPauses(m), Scans(m, act), Addresses(m, addr, rej),
         Held(m, r), Rotates(r), r.cached_commands # << >> \/ NotSet(m)
  PROVE  Inv(r, act, addr, rej, X)
<1>1. /\ \A c, d : AP(c) # AR(d) /\ AP(c) # UN(d) /\ AP(c) # RG(d)
      /\ \A c : AP(c) # RS /\ AP(c) # HN /\ AP(c) # EC /\ AP(c) # PC /\ AP(c) \notin LeRegs
      /\ \A c, op, b : AP(c) # Occ(op, b)
  BY Differ, Distinct, Zenon DEF LeRegs
<1>2. \A c, d : AP(c) = AP(d) => c = d
  BY Differ, Zenon
<1>3. \A u : (\A c : AP(c) # u) => (Has(r.tasks, u) <=> Has(m.tasks, u))
  BY Zenon DEF Held
<1>4. \A c \in Clients : Has(r.tasks, AP(c)) <=> Has(m.tasks, AP(c)) \/ Asked(m, c)
  BY <1>2, Zenon DEF Held
<1>5. \A u, v : (\A c : AP(c) # v) => (Before(r.tasks, u, v) <=> Before(m.tasks, u, v))
  BY Zenon DEF Held
<1>6. \A u : (\A c : AP(c) # u) => (Final(r.tasks, u, LeRegs) <=> Final(m.tasks, u, LeRegs))
  BY <1>1, Zenon DEF Held
<1>7. \A op : Answered(r.tasks, op) <=> Answered(m.tasks, op)
  BY <1>1, <1>3, Zenon DEF Answered
<1>8. "list" \in {"list", "set_random_address"} /\ "set_random_address" \in {"list", "set_random_address"}
  OBVIOUS
<1>9. /\ Sent(r.hci, "list") <=> Sent(m.hci, "list")
      /\ Sent(r.hci, "set_random_address") <=> Sent(m.hci, "set_random_address")
      /\ \A a : Last(r.hci, a) <=> Last(m.hci, a)
  BY <1>8, Zenon DEF SameHci, Held
<1>10. \A c \in Clients : (Asked(m, c) \/ Pauses(m, c)) => Pauses(r, c)
  <2>1. (Asked(m, "le") \/ Pauses(m, "le")) => Pauses(r, "le")
    BY Zenon DEF Pauses, Held, LePart
  <2>2. (Asked(m, "scan") \/ Pauses(m, "scan")) => Pauses(r, "scan")
    BY Distinct, Zenon DEF Pauses, Held, ScanPart
  <2> QED BY <2>1, <2>2, Zenon DEF Clients
<1>11. \A c \in Clients :
         /\ r.clients[c] = "PAUSED" <=> m.clients[c] = "PAUSED"
         /\ r.clients[c] = "NONE" <=> m.clients[c] = "NONE"
         /\ Asked(m, c) => m.clients[c] # "PAUSED" /\ m.clients[c] # "NONE"
         /\ r.clients[c] = "WAITING_FOR_PAUSE" <=> m.clients[c] = "WAITING_FOR_PAUSE" \/ Asked(m, c)
         /\ r.clients[c] = "WAITING_FOR_RESUME" => m.clients[c] = "WAITING_FOR_RESUME"
  BY SMTT(30) DEF Held, Asked
<1>12. NotSet(r) <=> NotSet(m)
  BY Zenon DEF NotSet, Held
<1>13. \A c \in Clients \ X : Good(r, c)
  <2> TAKE c \in Clients \ X
  <2>1. Sound(m, c) /\ c \in Clients
    BY Zenon DEF Good
  <2>2. /\ Has(r.tasks, AP(c)) <=> Has(m.tasks, AP(c)) \/ Asked(m, c)
        /\ Has(r.tasks, AR(c)) <=> Has(m.tasks, AR(c))
        /\ Before(r.tasks, RS, AP(c)) <=> Before(m.tasks, RS, AP(c)) \/ (Asked(m, c) /\ Has(m.tasks, RS))
        /\ Before(r.tasks, AP(c), RS) <=> Before(m.tasks, AP(c), RS)
        /\ Before(r.tasks, AP(c), AR(c)) <=> Before(m.tasks, AP(c), AR(c))
    <3>1. Before(r.tasks, RS, AP(c)) <=> Before(m.tasks, RS, AP(c)) \/ (Asked(m, c) /\ Has(m.tasks, RS))
      BY <1>1, <2>1, Zenon DEF Held
    <3> QED BY <1>1, <1>3, <1>4, <1>5, <2>1, <3>1, Zenon
  <2>3. NotSet(m) => ~Has(m.tasks, RS) /\ ~Before(m.tasks, RS, AP(c))
    <3>1. Before(m.tasks, RS, AP(c)) => Has(m.tasks, RS)
      BY Zenon DEF Before, Has
    <3> QED BY <3>1, Zenon DEF Early
  <2>4. r.clients[c] = "NONE" => ~Has(r.tasks, AP(c))
    BY <1>11, <2>1, <2>2, Zenon DEF Sound
  <2>5. Before(r.tasks, RS, AP(c)) => r.clients[c] # "PAUSED" /\ r.cached_commands # << >>
    BY <1>11, <2>1, <2>2, <2>3, Zenon DEF Sound
  <2>6. r.clients[c] # "PAUSED" => ~Before(r.tasks, AP(c), RS)
    BY <1>11, <2>1, <2>2, Zenon DEF Sound
  <2>7. Has(r.tasks, AR(c)) => r.clients[c] # "PAUSED" /\ ~Before(r.tasks, AP(c), AR(c))
    BY <1>11, <2>1, <2>2, Zenon DEF Sound
  <2>8. Has(r.tasks, AP(c)) \/ r.clients[c] = "PAUSED" => Pauses(r, c)
    BY <1>10, <1>11, <2>1, <2>2, Zenon DEF Sound
  <2> QED BY <1>12, <2>4, <2>5, <2>6, <2>7, <2>8, Zenon DEF Good, Sound
<1>14. Early(r)
  BY <1>1, <1>3, <1>7, <1>9, <1>12, Zenon DEF Early, Held
<1>15. Waits(r)
  BY <1>1, <1>3, <1>4, <1>11, Zenon DEF Waits
<1>16. LeKnows(r)
  <2>1. /\ Has(r.tasks, RG("le")) <=> Has(m.tasks, RG("le"))
        /\ Has(r.tasks, UN("le")) <=> Has(m.tasks, UN("le"))
        /\ Final(r.tasks, RG("le"), LeRegs) <=> Final(m.tasks, RG("le"), LeRegs)
        /\ Final(r.tasks, UN("le"), LeRegs) <=> Final(m.tasks, UN("le"), LeRegs)
    BY <1>1, <1>3, <1>6, Zenon
  <2>2. r.le.registered = m.le.registered /\ (r.clients["le"] = "NONE" <=> m.clients["le"] = "NONE")
    BY <1>11, CountedAre, Zenon DEF Held, LePart
  <2> QED BY <2>1, <2>2, Zenon DEF LeKnows
<1>17. LeSets(r)
  BY Zenon DEF LeSets, Held, LePart
<1>18. "le" \notin X => LePauses(r)
  <2>1. "le" \in Clients
    BY CountedAre, Zenon
  <2>2. /\ Has(r.tasks, AP("le")) <=> Has(m.tasks, AP("le")) \/ Asked(m, "le")
        /\ Has(r.tasks, UN("le")) <=> Has(m.tasks, UN("le"))
        /\ Before(r.tasks, AP("le"), UN("le")) <=> Before(m.tasks, AP("le"), UN("le"))
        /\ Final(r.tasks, PC, LeRegs) <=> Final(m.tasks, PC, LeRegs)
    BY <1>1, <1>3, <1>4, <1>5, <1>6, <2>1, Zenon
  <2>3. r.le.registered = m.le.registered /\ (r.le.pause <=> m.le.pause \/ Asked(m, "le"))
    BY Zenon DEF Held, LePart
  <2> QED BY <1>11, <2>1, <2>2, <2>3, Zenon DEF LePauses, LeWillPause
<1>19. "scan" \notin X => ScanPauses(r)
  <2>1. "scan" \in Clients
    BY CountedAre, Zenon
  <2>2. /\ Has(r.tasks, AP("scan")) <=> Has(m.tasks, AP("scan")) \/ Asked(m, "scan")
        /\ Has(r.tasks, UN("scan")) <=> Has(m.tasks, UN("scan"))
        /\ Before(r.tasks, AP("scan"), UN("scan")) <=> Before(m.tasks, AP("scan"), UN("scan"))
    BY <1>1, <1>3, <1>4, <1>5, <2>1, Zenon
  <2>3. r.scan.registered = m.scan.registered /\ (r.scan.paused <=> m.scan.paused \/ Asked(m, "scan"))
    BY Zenon DEF Held, ScanPart
  <2>4. "scan" \notin X /\ Before(m.tasks, AP("scan"), UN("scan")) => m.scan.paused
    <3>1. Before(m.tasks, AP("scan"), UN("scan")) => Has(m.tasks, AP("scan"))
      BY Zenon DEF Before, Has
    <3>2. Pauses(m, "scan") => m.scan.paused
      BY Distinct, Zenon DEF Pauses
    <3> QED BY <2>1, <3>1, <3>2, Zenon DEF Good, Sound
  <2> QED BY <1>11, <2>1, <2>2, <2>3, <2>4, Zenon DEF ScanPauses
<1>20. Scans(r, act)
  <2>1. CASE Asked(m, "scan")
    BY <2>1, SMTT(30) DEF Scans, Held, ScanPart, ScanOps
  <2>2. CASE ~Asked(m, "scan")
    BY <2>2, Zenon DEF Scans, Held, ScanPart, SameScan
  <2> QED BY <2>1, <2>2, Zenon
<1>21. Addresses(r, addr, rej)
  BY <1>1, <1>3, <1>9, Zenon DEF Addresses, Held
<1> QED BY <1>13, <1>14, <1>15, <1>16, <1>17, <1>18, <1>19, <1>20, <1>21, Zenon DEF Inv
-----------------------------------------------------------------------------
\* Abort stops the stack.
LEMMA AbortIs ==
  ASSUME NEW m \in Host, NEW why \in Reasons
  PROVE  Abort(m, why) \in Host /\ Abort(m, why).aborted = why
<1>1. Abort(m, why) \in Host
  BY Zenon DEF Abort, Host
<1> QED BY <1>1, Zenon DEF Abort, Host

\* handle_next_command sends the command in front.
Popped(m, r) ==
  /\ r \in Host /\ AllPaused(m)
  /\ r.clients = m.clients /\ r.address_policy = m.address_policy /\ r.le_address = m.le_address
  /\ r.tasks = m.tasks /\ r.le = m.le /\ r.scan = m.scan
  /\ Has(r.cached_commands, "rotate") => Has(m.cached_commands, "rotate")
  /\ \/ /\ r.rotation_alarm = m.rotation_alarm /\ r.cached_address = m.cached_address
        /\ r.hci = Append(m.hci, Cmd(m, "list"))
     \/ /\ Has(m.cached_commands, "rotate")
        /\ r.hci = Append(m.hci, Cmd(r, "set_random_address"))

\* handle_next_command waits, aborts, or sends the command in front.
LEMMA PopIs ==
  ASSUME NEW m \in Host
  PROVE  LET r == handle_next_command(m)
         IN /\ r \in Host
            /\ r.aborted = "no" => (r = m /\ ~AllPaused(m)) \/ Popped(m, r)
<1> DEFINE r == handle_next_command(m)
<1>1. CASE ~AllPaused(m)
  <2>1. r = m
    BY <1>1, Zenon DEF handle_next_command
  <2> QED BY <1>1, <2>1, Zenon
<1>2. CASE AllPaused(m) /\ m.cached_commands = << >>
  <2>1. r = Abort(m, "handle_next_command")
    BY <1>2, Zenon DEF handle_next_command
  <2>4. "handle_next_command" \in Reasons
    BY Zenon DEF Reasons
  <2>2. "handle_next_command" # "no"
    OBVIOUS
  <2>3. r \in Host /\ r.aborted = "handle_next_command"
    BY <2>1, <2>4, AbortIs, Zenon
  <2> QED BY <2>2, <2>3, Zenon
<1>3. CASE AllPaused(m) /\ m.cached_commands # << >>
  <2> DEFINE a == [m EXCEPT !.cached_commands = Tail(@)]
             b == [a EXCEPT !.rotation_alarm = TRUE]
             e == [b EXCEPT !.cached_address = @ + 1]
  <2>1. r = IF Head(m.cached_commands) = "rotate" THEN EnqueueCommand(e, "set_random_address") ELSE EnqueueCommand(a, "list")
    BY <1>3, Zenon DEF handle_next_command, rotate_random_address, set_random_address
  <2>2. m.cached_commands \in Seq({"list", "rotate"})
    BY Zenon DEF Host
  <2>3. Tail(m.cached_commands) \in Seq({"list", "rotate"})
    BY <1>3, <2>2, Taken
  <2>4. \A u : Has(m.cached_commands, u) <=> Has(Tail(m.cached_commands), u) \/ Head(m.cached_commands) = u
    BY <1>3, <2>2, TailHas
  <2>5. a \in Host
    BY <2>3, Zenon DEF Host
  <2>6. b \in Host
    BY <2>5, Zenon DEF Host
  <2>7. e \in Host
    <3>1. b.cached_address \in Nat
      BY <2>6, Zenon DEF Host
    <3>2. b.cached_address + 1 \in Nat
      BY <3>1
    <3> QED BY <2>6, <3>2, Zenon DEF Host
  <2>8. /\ a.clients = m.clients /\ a.address_policy = m.address_policy /\ a.le_address = m.le_address
        /\ a.tasks = m.tasks /\ a.le = m.le /\ a.scan = m.scan /\ a.hci = m.hci
        /\ a.rotation_alarm = m.rotation_alarm /\ a.cached_address = m.cached_address
        /\ a.cached_commands = Tail(m.cached_commands)
    BY <2>5 DEF Host
  <2>9. /\ e.clients = m.clients /\ e.address_policy = m.address_policy /\ e.le_address = m.le_address
        /\ e.tasks = m.tasks /\ e.le = m.le /\ e.scan = m.scan /\ e.hci = m.hci
        /\ e.cached_commands = Tail(m.cached_commands)
    BY <2>7 DEF Host
  <2> HIDE DEF a, e, r
  <2>10. CASE Head(m.cached_commands) = "rotate"
    <3>1. "set_random_address" \in Commands
      BY DEF Commands
    <3>2. r = EnqueueCommand(e, "set_random_address")
      BY <2>1, <2>10, Zenon
    <3>3. /\ r \in Host /\ SameManager(e, r) /\ r.le = e.le /\ r.scan = e.scan /\ r.tasks = e.tasks
          /\ r.hci = Append(e.hci, Cmd(e, "set_random_address"))
      BY <2>7, <3>1, <3>2, EnqueueIs, Zenon
    <3>4. Cmd(e, "set_random_address") = Cmd(r, "set_random_address")
      BY <3>3, Zenon DEF Cmd, SameManager
    <3>5. Has(m.cached_commands, "rotate")
      BY <2>4, <2>10, Zenon
    <3>6. Has(r.cached_commands, "rotate") => Has(m.cached_commands, "rotate")
      BY <3>5, Zenon
    <3>7. r.hci = Append(m.hci, Cmd(r, "set_random_address"))
      BY <2>9, <3>3, <3>4, Zenon
    <3>8. /\ r.clients = m.clients /\ r.address_policy = m.address_policy /\ r.le_address = m.le_address
          /\ r.tasks = m.tasks /\ r.le = m.le /\ r.scan = m.scan
      BY <2>9, <3>3, Zenon DEF SameManager
    <3>9. Popped(m, r)
      BY <1>3, <3>3, <3>5, <3>6, <3>7, <3>8, Zenon DEF Popped
    <3> QED BY <3>3, <3>9, Zenon DEF r
  <2>11. CASE Head(m.cached_commands) # "rotate"
    <3>1. "list" \in Commands
      BY DEF Commands
    <3>2. r = EnqueueCommand(a, "list")
      BY <2>1, <2>11, Zenon
    <3>3. /\ r \in Host /\ SameManager(a, r) /\ r.le = a.le /\ r.scan = a.scan /\ r.tasks = a.tasks
          /\ r.hci = Append(a.hci, Cmd(a, "list"))
      BY <2>5, <3>1, <3>2, EnqueueIs, Zenon
    <3>4. Cmd(a, "list") = Cmd(m, "list")
      BY <2>8, Zenon DEF Cmd
    <3>5. Has(r.cached_commands, "rotate") => Has(m.cached_commands, "rotate")
      BY <2>4, <2>8, <3>3, Zenon DEF SameManager
    <3>6. /\ r.clients = m.clients /\ r.address_policy = m.address_policy /\ r.le_address = m.le_address
          /\ r.tasks = m.tasks /\ r.le = m.le /\ r.scan = m.scan
          /\ r.rotation_alarm = m.rotation_alarm /\ r.cached_address = m.cached_address
      BY <2>8, <3>3, Zenon DEF SameManager
    <3>7. Popped(m, r)
      BY <1>3, <2>8, <3>3, <3>4, <3>5, <3>6, Zenon DEF Popped
    <3> QED BY <3>3, <3>7, Zenon DEF r
  <2> QED BY <2>10, <2>11, Zenon
<1> QED BY <1>1, <1>2, <1>3, Zenon

\* Sending the command in front keeps the invariant: it will be answered.
LEMMA PopKeeps ==
  ASSUME NEW m \in Host, NEW r, NEW act, NEW addr, NEW rej, NEW X, Inv(m, act, addr, rej, X),
         ~NotSet(m), Popped(m, r)
  PROVE  Inv(r, act, addr, rej, X)
<1> DEFINE x == Cmd(m, "list")
           y == Cmd(r, "set_random_address")
<1>1. m.hci \in Seq(Cmds) /\ x \in Cmds /\ y \in Cmds
  <2>1. r \in Host
    BY Zenon DEF Popped
  <2> QED BY <2>1 DEF Host, Cmds, Cmd, Commands
<1>2. x.op = "list" /\ y.op = "set_random_address" /\ y.address = r.cached_address
  BY DEF Cmd
<1>3. ~NotSet(r)
  BY Zenon DEF NotSet, Popped
<1>4. "list" # "set_random_address" /\ "list" # "scan_on" /\ "list" # "scan_off"
      /\ "set_random_address" # "scan_on" /\ "set_random_address" # "scan_off"
      /\ \A op \in ScanOps : op = "scan_on" \/ op = "scan_off"
  BY DEF ScanOps
<1> HIDE DEF x, y
<1>5. /\ SameScan(m.hci, r.hci) /\ \A op \in ScanOps : Sent(r.hci, op) <=> Sent(m.hci, op)
      /\ Sent(r.hci, "list") \/ (Rotating(r) /\ Sent(r.hci, "set_random_address"))
  <2>1. CASE r.hci = Append(m.hci, x)
    <3>1. /\ \A op : Sent(r.hci, op) <=> Sent(m.hci, op) \/ x.op = op
          /\ On(r.hci) <=> x.op = "scan_on" \/ (On(m.hci) /\ x.op # "scan_off")
          /\ Off(r.hci) <=> x.op = "scan_off" \/ (Off(m.hci) /\ x.op # "scan_on")
      BY <1>1, <2>1, HciAppend
    <3> QED BY <1>2, <1>4, <3>1, Zenon DEF SameScan
  <2>2. CASE r.hci = Append(m.hci, y) /\ Has(m.cached_commands, "rotate")
    <3>1. /\ \A op : Sent(r.hci, op) <=> Sent(m.hci, op) \/ y.op = op
          /\ On(r.hci) <=> y.op = "scan_on" \/ (On(m.hci) /\ y.op # "scan_off")
          /\ Off(r.hci) <=> y.op = "scan_off" \/ (Off(m.hci) /\ y.op # "scan_on")
      BY <1>1, <2>2, HciAppend
    <3>2. Rotating(r)
      BY <2>2, Zenon DEF Inv, Rotates, Rotating, Popped
    <3> QED BY <1>2, <1>4, <3>1, <3>2, Zenon DEF SameScan
  <2> QED BY <2>1, <2>2, Zenon DEF Popped, x, y
<1>6. Rotating(r) => r.address_policy # "STATIC"
  BY DEF Rotating
<1>7. Real(r)
  BY <1>5, <1>6, Zenon DEF Real
<1>8. \A c \in Clients \ X : Good(r, c)
  <2> TAKE c \in Clients \ X
  <2>1. Sound(m, c) /\ c \in Clients
    BY Zenon DEF Inv, Good
  <2>2. m.clients[c] = "NONE" \/ m.clients[c] = "PAUSED"
    BY <2>1, Zenon DEF Popped, AllPaused
  <2>3. Pauses(m, c) <=> Pauses(r, c)
    BY Zenon DEF Pauses, Popped
  <2>4. Before(m.tasks, RS, AP(c)) => Has(m.tasks, AP(c))
    BY Zenon DEF Before, Has
  <2>5. r.clients = m.clients /\ r.tasks = m.tasks
    BY Zenon DEF Popped
  <2>6. "NONE" # "PAUSED"
    OBVIOUS
  <2> QED BY <1>3, <1>7, <2>1, <2>2, <2>3, <2>4, <2>5, <2>6, Zenon DEF Good, Sound, NotSet
<1>9. Early(r)
  BY <1>3, Zenon DEF Early
<1>10. Waits(r) /\ LeKnows(r) /\ LeSets(r)
  <2>1. r.clients = m.clients /\ r.tasks = m.tasks /\ r.le = m.le
    BY Zenon DEF Popped
  <2>2. Waits(r)
    BY <2>1, Zenon DEF Inv, Waits
  <2>3. LeKnows(r)
    BY <2>1, Zenon DEF Inv, LeKnows
  <2>4. LeSets(r)
    BY <2>1, Zenon DEF Inv, LeSets
  <2> QED BY <2>2, <2>3, <2>4, Zenon
<1>11. Rotates(r)
  BY Zenon DEF Inv, Popped, Rotates, Rotating
<1>12. ("le" \notin X => LePauses(r)) /\ ("scan" \notin X => ScanPauses(r))
  <2>1. r.clients = m.clients /\ r.tasks = m.tasks /\ r.le = m.le /\ r.scan = m.scan
    BY Zenon DEF Popped
  <2>2. "le" \notin X => LePauses(r)
    BY <2>1, Zenon DEF Inv, LePauses
  <2>3. "scan" \notin X => ScanPauses(r)
    BY <2>1, Zenon DEF Inv, ScanPauses
  <2> QED BY <2>2, <2>3, Zenon
<1>13. Scans(r, act)
  BY <1>5, Zenon DEF Inv, Popped, Scans, SameScan
<1>14. Addresses(r, addr, rej)
  <2>1. CASE r.hci = Append(m.hci, x) /\ r.cached_address = m.cached_address
    <3>1. /\ \A op : Sent(r.hci, op) <=> Sent(m.hci, op) \/ x.op = op
          /\ x.op # "set_random_address" => \A a : Last(r.hci, a) <=> Last(m.hci, a)
      BY <1>1, <2>1, HciAppend
    <3> QED BY <1>2, <1>4, <2>1, <3>1, Zenon DEF Inv, Addresses, Popped
  <2>2. CASE r.hci = Append(m.hci, y) /\ Has(m.cached_commands, "rotate")
    <3>1. /\ \A op : Sent(r.hci, op) <=> Sent(m.hci, op) \/ y.op = op
          /\ y.op = "set_random_address" => Last(r.hci, y.address)
      BY <1>1, <2>2, HciAppend, SMTT(30)
    <3>2. r.address_policy # "STATIC"
      <4>1. Rotating(r)
        BY <2>2, Zenon DEF Inv, Rotates, Rotating, Popped
      <4> QED BY <1>6, <4>1, Zenon
    <3>3. Has(r.tasks, EC) => r.address_policy = "STATIC"
      BY Zenon DEF Inv, Addresses, Popped
    <3> QED BY <1>2, <3>1, <3>2, <3>3, Zenon DEF Addresses
  <2> QED BY <2>1, <2>2, Zenon DEF Popped, x, y
<1> QED BY <1>8, <1>9, <1>10, <1>11, <1>12, <1>13, <1>14, Zenon DEF Inv

\* handle_next_command keeps the invariant.
LEMMA HandleKeeps ==
  ASSUME NEW m \in Host, NEW act, NEW addr, NEW rej, NEW X, Inv(m, act, addr, rej, X), ~NotSet(m),
         handle_next_command(m).aborted = "no"
  PROVE  Inv(handle_next_command(m), act, addr, rej, X)
BY PopIs, PopKeeps, Zenon
-----------------------------------------------------------------------------
\* The state of client k becomes st and nothing else changes.
Marked(m, k, st, r) ==
  /\ r \in Host /\ SameCommands(m, r)
  /\ r.tasks = m.tasks /\ r.hci = m.hci /\ r.le = m.le /\ r.scan = m.scan
  /\ r.clients[k] = st /\ \A c \in Clients : c # k => r.clients[c] = m.clients[c]

\* The state of one client changes.
LEMMA MarkIs ==
  ASSUME NEW m \in Host, NEW k \in Clients, NEW st \in States
  PROVE  Marked(m, k, st, [m EXCEPT !.clients[k] = st])
<1> DEFINE r == [m EXCEPT !.clients[k] = st]
<1>1. r \in Host
  BY Zenon DEF Host
<1> QED BY <1>1, Zenon DEF Host, Marked, SameCommands

\* What does not depend on the states of the clients.
LEMMA MarkSame ==
  ASSUME NEW m \in Host, NEW k \in Clients, NEW st, NEW r, Marked(m, k, st, r)
  PROVE  /\ Early(m) => Early(r)
         /\ Rotates(m) => Rotates(r)
         /\ LeSets(m) => LeSets(r)
         /\ \A act : Scans(m, act) => Scans(r, act)
         /\ \A addr, rej : Addresses(m, addr, rej) => Addresses(r, addr, rej)
         /\ \A c : Pauses(r, c) <=> Pauses(m, c)
         /\ Real(r) <=> Real(m)
         /\ NotSet(r) <=> NotSet(m)
<1>1. NotSet(r) <=> NotSet(m)
  BY Zenon DEF NotSet, Marked, SameCommands
<1>2. Early(m) => Early(r)
  BY <1>1, Zenon DEF Early, Marked, SameCommands
<1>3. Rotates(m) => Rotates(r)
  BY Zenon DEF Rotates, Rotating, Marked, SameCommands
<1>4. LeSets(m) => LeSets(r)
  BY Zenon DEF LeSets, Marked
<1>5. \A act : Scans(m, act) => Scans(r, act)
  BY Zenon DEF Scans, Marked
<1>6. \A addr, rej : Addresses(m, addr, rej) => Addresses(r, addr, rej)
  BY Zenon DEF Addresses, Marked, SameCommands
<1>7. \A c : Pauses(r, c) <=> Pauses(m, c)
  BY Zenon DEF Pauses, Marked
<1>8. Real(r) <=> Real(m)
  BY Zenon DEF Real, Marked, SameCommands
<1> QED BY <1>1, <1>2, <1>3, <1>4, <1>5, <1>6, <1>7, <1>8, Zenon

\* A task of ack_pause runs for a registered client.
LEMMA AckPauseKeeps ==
  ASSUME NEW w \in Host, NEW k \in Clients, NEW m, NEW r, NEW act, NEW addr, NEW rej, NEW X,
         Inv(w, act, addr, rej, X), Dropped(w, AP(k), m), Marked(m, k, "PAUSED", r),
         m.clients[k] # "NONE"
  PROVE  Inv(r, act, addr, rej, X)
<1>0. m \in Host
  BY Zenon DEF Dropped
<1>12. Kept(AP(k), m, act, addr, rej, X)
  BY DropKeeps, Zenon
<1>1. /\ \A c, d : AP(c) # AR(d) /\ AP(c) # UN(d) /\ AP(c) # RG(d)
      /\ \A c : AP(c) # RS /\ AP(c) # HN /\ AP(c) # EC /\ AP(c) # PC /\ AP(c) \notin LeRegs
      /\ \A c, op, b : AP(c) # Occ(op, b)
      /\ \A c, d : AP(c) = AP(d) => c = d
  BY Differ, Distinct, Zenon DEF LeRegs
<1>2. /\ \A c \in Clients \ X : Good(m, c)
      /\ Early(m) /\ Rotates(m) /\ LeSets(m) /\ Scans(m, act) /\ LeKnows(m) /\ Addresses(m, addr, rej)
  BY <1>1, <1>12, Zenon DEF Kept
<1>3. /\ Early(r) /\ Rotates(r) /\ LeSets(r) /\ Scans(r, act) /\ Addresses(r, addr, rej)
      /\ \A c : Pauses(r, c) <=> Pauses(m, c)
      /\ Real(r) <=> Real(m)
      /\ NotSet(r) <=> NotSet(m)
  BY <1>0, <1>2, MarkSame, Zenon
<1>4. r.tasks = m.tasks /\ r.cached_commands = m.cached_commands /\ r.le = m.le /\ r.scan = m.scan
  BY Zenon DEF Marked, SameCommands
<1>5. m.clients = w.clients /\ m.cached_commands = w.cached_commands /\ (NotSet(m) <=> NotSet(w))
      /\ m.le = w.le /\ m.scan = w.scan
  BY Zenon DEF Dropped, SameManager, NotSet
<1>6. /\ r.clients[k] = "PAUSED" /\ \A c \in Clients : c # k => r.clients[c] = m.clients[c]
  BY Zenon DEF Marked
<1>7. \A c \in Clients \ X : Good(r, c)
  <2> TAKE c \in Clients \ X
  <2>1. CASE c # k
    BY <1>2, <1>3, <1>4, <1>6, <2>1, Zenon DEF Good, Sound
  <2>2. CASE c = k
    <3>1. Good(w, k) /\ Sound(m, k)
      BY <1>2, <2>2, Zenon DEF Inv, Good
    <3>2. /\ Has(w.tasks, AP(k))
          /\ \A v : Has(m.tasks, v) => Before(w.tasks, AP(k), v)
          /\ \A u, v : Before(m.tasks, u, v) => Before(w.tasks, u, v)
      BY Zenon DEF Dropped
    <3>3. Pauses(w, k) <=> Pauses(m, k)
      BY <1>5, Zenon DEF Pauses
    <3>4. Pauses(r, k)
      BY <1>3, <3>1, <3>2, <3>3, Zenon DEF Good, Sound
    <3>5. Before(m.tasks, RS, AP(k)) => Has(m.tasks, RS)
      BY Zenon DEF Before, Has
    <3>6. ~Before(r.tasks, RS, AP(k))
      BY <1>4, <3>1, <3>2, <3>5, Zenon DEF Good, Sound
    <3>7. ~Has(r.tasks, AR(k))
      <4>1. ~Has(m.tasks, AR(k))
        <5> SUFFICES ASSUME Has(m.tasks, AR(k)) PROVE FALSE
          BY Zenon
        <5>1. Has(w.tasks, AR(k)) /\ Before(w.tasks, AP(k), AR(k))
          BY <3>2, Zenon DEF Dropped
        <5> QED BY <3>1, <5>1, Zenon DEF Good, Sound
      <4> QED BY <1>4, <4>1, Zenon
    <3>8. ~NotSet(r) /\ r.cached_commands = << >> => Real(r)
      <4>1. ~NotSet(w) /\ w.cached_commands = << >> => w.clients[k] = "PAUSED"
        BY <3>1, <3>2, Zenon DEF Good, Sound
      <4>2. m.clients[k] = "PAUSED" /\ ~NotSet(m) /\ m.cached_commands = << >> => Real(m)
        BY <1>2, <2>2, Zenon DEF Good
      <4> QED BY <1>3, <1>4, <1>5, <4>1, <4>2, Zenon
    <3>9. "PAUSED" # "NONE"
      OBVIOUS
    <3> QED BY <1>6, <2>2, <3>4, <3>6, <3>7, <3>8, <3>9, Zenon DEF Good, Sound
  <2> QED BY <2>1, <2>2, Zenon
<1>8. Waits(r)
  <2>1. "PAUSED" # "WAITING_FOR_PAUSE" /\ "PAUSED" # "WAITING_FOR_RESUME"
    OBVIOUS
  <2>2. \A c \in Clients : c # k => (Has(w.tasks, AP(c)) => Has(m.tasks, AP(c)))
    BY <1>1, Zenon DEF Dropped
  <2>3. \A c \in Clients : Has(w.tasks, AR(c)) => Has(m.tasks, AR(c))
    BY <1>1, Zenon DEF Dropped
  <2> QED BY <1>4, <1>5, <1>6, <2>1, <2>2, <2>3, Zenon DEF Inv, Waits
<1>9. LeKnows(r)
  <2>1. CASE k = "le"
    <3>1. "PAUSED" # "NONE"
      OBVIOUS
    <3> QED BY <1>2, <1>4, <1>6, <2>1, <3>1, Zenon DEF LeKnows
  <2>2. CASE k # "le"
    BY <1>2, <1>4, <1>6, <2>2, CountedAre, Zenon DEF LeKnows
  <2> QED BY <2>1, <2>2, Zenon
<1>10. "le" \notin X => LePauses(r)
  <2>1. CASE k = "le"
    <3>1. Has(m.tasks, UN("le")) => Has(w.tasks, UN("le")) /\ Before(w.tasks, AP("le"), UN("le"))
      BY <2>1, Zenon DEF Dropped
    <3> QED BY <1>4, <1>6, <2>1, <3>1, Zenon DEF Inv, LePauses
  <2>2. CASE k # "le"
    <3>1. "le" \notin X => LePauses(m)
      BY <1>1, <1>12, <2>2, Zenon DEF Kept
    <3>2. r.clients["le"] = m.clients["le"]
      BY <1>6, <2>2, CountedAre, Zenon
    <3> QED BY <1>4, <3>1, <3>2, Zenon DEF LePauses
  <2> QED BY <2>1, <2>2, Zenon
<1>11. "scan" \notin X => ScanPauses(r)
  <2>1. CASE k = "scan"
    <3>1. Has(m.tasks, UN("scan")) => Has(w.tasks, UN("scan")) /\ Before(w.tasks, AP("scan"), UN("scan"))
      BY <2>1, Zenon DEF Dropped
    <3> QED BY <1>4, <1>5, <1>6, <2>1, <3>1, Zenon DEF Inv, ScanPauses
  <2>2. CASE k # "scan"
    <3>3. AP(k) # AP("scan")
      BY <1>1, <2>2, Zenon
    <3>1. "scan" \notin X => ScanPauses(m)
      BY <1>12, <3>3, Zenon DEF Kept
    <3>2. r.clients["scan"] = m.clients["scan"]
      BY <1>6, <2>2, CountedAre, Zenon
    <3> QED BY <1>4, <3>1, <3>2, Zenon DEF ScanPauses
  <2> QED BY <2>1, <2>2, Zenon
<1> QED BY <1>3, <1>7, <1>8, <1>9, <1>10, <1>11, Zenon DEF Inv

\* A task of ack_resume runs for a registered client.
LEMMA AckResumeKeeps ==
  ASSUME NEW w \in Host, NEW k \in Clients, NEW m, NEW r, NEW act, NEW addr, NEW rej, NEW X,
         Inv(w, act, addr, rej, X), Dropped(w, AR(k), m), Marked(m, k, "RESUMED", r),
         m.clients[k] # "NONE"
  PROVE  Inv(r, act, addr, rej, X)
<1>0. m \in Host
  BY Zenon DEF Dropped
<1>16. Kept(AR(k), m, act, addr, rej, X)
  BY DropKeeps, Zenon
<1>1. /\ \A c, d : AR(c) # AP(d) /\ AR(c) # UN(d) /\ AR(c) # RG(d)
      /\ \A c : AR(c) # RS /\ AR(c) # HN /\ AR(c) # EC /\ AR(c) # PC /\ AR(c) \notin LeRegs
      /\ \A c, op, b : AR(c) # Occ(op, b)
      /\ \A c, d : AR(c) = AR(d) => c = d
  BY Differ, Distinct, Zenon DEF LeRegs
<1>2. /\ \A c \in Clients \ X : Good(m, c)
      /\ Early(m) /\ Rotates(m) /\ LeSets(m) /\ Scans(m, act) /\ LeKnows(m) /\ Addresses(m, addr, rej)
      /\ "le" \notin X => LePauses(m)
      /\ "scan" \notin X => ScanPauses(m)
  BY <1>1, <1>16, Zenon DEF Kept
<1>3. /\ Early(r) /\ Rotates(r) /\ LeSets(r) /\ Scans(r, act) /\ Addresses(r, addr, rej)
      /\ \A c : Pauses(r, c) <=> Pauses(m, c)
      /\ Real(r) <=> Real(m)
      /\ NotSet(r) <=> NotSet(m)
  BY <1>0, <1>2, MarkSame, Zenon
<1>4. r.tasks = m.tasks /\ r.cached_commands = m.cached_commands /\ r.le = m.le /\ r.scan = m.scan
  BY Zenon DEF Marked, SameCommands
<1>5. m.clients = w.clients
  BY Zenon DEF Dropped, SameManager
<1>6. /\ r.clients[k] = "RESUMED" /\ \A c \in Clients : c # k => r.clients[c] = m.clients[c]
  BY Zenon DEF Marked
<1>7. "RESUMED" # "PAUSED" /\ "RESUMED" # "NONE" /\ "RESUMED" # "WAITING_FOR_PAUSE" /\ "RESUMED" # "WAITING_FOR_RESUME"
  OBVIOUS
<1>8. k \notin X => m.clients[k] # "PAUSED"
  <2>1. Has(w.tasks, AR(k))
    BY Zenon DEF Dropped
  <2> QED BY <1>5, <2>1, Zenon DEF Inv, Good, Sound
<1>9. \A c \in Clients \ X :
        /\ r.clients[c] = "PAUSED" <=> m.clients[c] = "PAUSED"
        /\ r.clients[c] = "NONE" <=> m.clients[c] = "NONE"
  BY <1>6, <1>7, <1>8, Zenon
<1>10. \A c \in Clients \ X : Good(r, c)
  BY <1>2, <1>3, <1>4, <1>9, Zenon DEF Good, Sound
<1>11. Waits(r)
  <2>2. \A c \in Clients : Has(w.tasks, AP(c)) => Has(m.tasks, AP(c))
    BY <1>1, Zenon DEF Dropped
  <2>3. \A c \in Clients : c # k => (Has(w.tasks, AR(c)) => Has(m.tasks, AR(c)))
    BY <1>1, Zenon DEF Dropped
  <2> QED BY <1>4, <1>5, <1>6, <1>7, <2>2, <2>3, Zenon DEF Inv, Waits
<1>12. r.clients["le"] = "NONE" <=> m.clients["le"] = "NONE"
  BY <1>6, <1>7, CountedAre, Zenon
<1>13. LeKnows(r)
  BY <1>2, <1>4, <1>12, Zenon DEF LeKnows
<1>14. "le" \notin X => LePauses(r)
  BY <1>2, <1>4, <1>9, CountedAre, Zenon DEF LePauses
<1>15. "scan" \notin X => ScanPauses(r)
  BY <1>2, <1>4, <1>9, CountedAre, Zenon DEF ScanPauses
<1> QED BY <1>3, <1>10, <1>11, <1>13, <1>14, <1>15, Zenon DEF Inv
-----------------------------------------------------------------------------
\* The rotation alarm is set or cancelled.
LEMMA AlarmKeeps ==
  ASSUME NEW m \in Host, NEW b \in BOOLEAN, NEW act, NEW addr, NEW rej, NEW X, Inv(m, act, addr, rej, X),
         b => Rotating(m)
  PROVE  LET r == [m EXCEPT !.rotation_alarm = b]
         IN r \in Host /\ Inv(r, act, addr, rej, X)
<1> DEFINE r == [m EXCEPT !.rotation_alarm = b]
<1>1. r \in Host
  BY Zenon DEF Host
<1>2. /\ r.clients = m.clients /\ r.cached_commands = m.cached_commands /\ r.address_policy = m.address_policy
      /\ r.le_address = m.le_address /\ r.cached_address = m.cached_address /\ r.tasks = m.tasks
      /\ r.hci = m.hci /\ r.le = m.le /\ r.scan = m.scan /\ r.rotation_alarm = b
  BY <1>1 DEF Host
<1> HIDE DEF r
<1>3. Real(r) <=> Real(m)
  BY <1>2, Zenon DEF Real
<1>4. \A c : Pauses(r, c) <=> Pauses(m, c)
  BY <1>2, Zenon DEF Pauses
<1>5. \A c \in Clients \ X : Good(r, c)
  <2> TAKE c \in Clients \ X
  <2>1. Good(m, c)
    BY Zenon DEF Inv
  <2> QED BY <1>2, <1>3, <1>4, <2>1, Zenon DEF Good, Sound, NotSet
<1>6. Early(r)
  <2>1. Rotating(m) => ~NotSet(m)
    BY DEF Rotating, NotSet
  <2> QED BY <1>2, <2>1, Zenon DEF Inv, Early, NotSet
<1>7. Rotates(r)
  BY <1>2, Zenon DEF Inv, Rotates, Rotating
<1>8. Waits(r)
  BY <1>2, Zenon DEF Inv, Waits
<1>9. LeKnows(r)
  BY <1>2, Zenon DEF Inv, LeKnows
<1>10. LeSets(r)
  BY <1>2, Zenon DEF Inv, LeSets
<1>11. "le" \notin X => LePauses(r)
  BY <1>2, Zenon DEF Inv, LePauses
<1>12. "scan" \notin X => ScanPauses(r)
  BY <1>2, Zenon DEF Inv, ScanPauses
<1>13. Scans(r, act)
  BY <1>2, Zenon DEF Inv, Scans
<1>14. Addresses(r, addr, rej)
  BY <1>2, Zenon DEF Inv, Addresses
<1>15. Inv(r, act, addr, rej, X)
  BY <1>5, <1>6, <1>7, <1>8, <1>9, <1>10, <1>11, <1>12, <1>13, <1>14, Zenon DEF Inv
<1> QED BY <1>1, <1>15, Zenon DEF r

\* HeldKeeps, for the whole invariant.
LEMMA InvHeld ==
  ASSUME NEW m \in Host, NEW r, NEW act, NEW addr, NEW rej, NEW X, Inv(m, act, addr, rej, X),
         Held(m, r), Rotates(r), r.cached_commands # << >> \/ NotSet(m)
  PROVE  Inv(r, act, addr, rej, X)
<1>1. "le" \notin X => LeWillPause(m)
  BY Zenon DEF Inv, LePauses, LeWillPause
<1>2. /\ \A c \in Clients \ X : Good(m, c)
      /\ Early(m) /\ Waits(m) /\ LeKnows(m) /\ LeSets(m)
      /\ "scan" \notin X => ScanPauses(m)
      /\ Scans(m, act) /\ Addresses(m, addr, rej)
  BY Zenon DEF Inv
<1> QED BY <1>1, <1>2, HeldKeeps, Zenon

\* The client k asks for a pause of all before the address policy is set.
LEMMA EarlyPauseKeeps ==
  ASSUME NEW m \in Host, NEW act, NEW addr, NEW rej, NEW X, Inv(m, act, addr, rej, X), NotSet(m)
  PROVE  LET r == pause_registered_clients(m)
         IN r \in Host /\ Inv(r, act, addr, rej, X)
<1> DEFINE r == pause_registered_clients(m)
<1>1. PausedAll(m, r)
  BY PauseAllIs, Zenon
<1> HIDE DEF r
<1>2. Held(m, r)
  BY <1>1, Zenon DEF PausedAll, Held, SameCommands
<1>3. Rotates(r)
  BY <1>1, Zenon DEF PausedAll, SameCommands, Inv, Rotates, Rotating
<1>4. r \in Host
  BY <1>1, Zenon DEF PausedAll
<1>5. Inv(r, act, addr, rej, X)
  BY <1>2, <1>3, InvHeld, Zenon
<1> QED BY <1>4, <1>5, Zenon DEF r

\* prepare_to_rotate keeps the invariant.
LEMMA PrepareKeeps ==
  ASSUME NEW m \in Host, NEW act, NEW addr, NEW rej, NEW X, Inv(m, act, addr, rej, X), Rotating(m)
  PROVE  LET r == prepare_to_rotate(m)
         IN r \in Host /\ Inv(r, act, addr, rej, X)
<1> DEFINE q == Append(m.cached_commands, "rotate")
           a == [m EXCEPT !.cached_commands = q]
           r == prepare_to_rotate(m)
<1>0. m.cached_commands \in Seq({"list", "rotate"})
  BY Zenon DEF Host
<1>1. q \in Seq({"list", "rotate"}) /\ q # << >>
  BY <1>0
<1>2. a \in Host
  BY <1>1, Zenon DEF Host
<1>3. /\ a.clients = m.clients /\ a.rotation_alarm = m.rotation_alarm /\ a.address_policy = m.address_policy
      /\ a.le_address = m.le_address /\ a.cached_address = m.cached_address /\ a.tasks = m.tasks
      /\ a.hci = m.hci /\ a.le = m.le /\ a.scan = m.scan /\ a.cached_commands = q
  BY <1>2 DEF Host
<1>4. r = pause_registered_clients(a)
  BY Zenon DEF prepare_to_rotate
<1> HIDE DEF a, r, q
<1>5. PausedAll(a, r)
  BY <1>2, <1>4, PauseAllIs, Zenon
<1>6. \A c : Asked(a, c) <=> Asked(m, c)
  BY <1>3, Zenon DEF Asked
<1>7. LePart(m, Asked(m, "le"), r) /\ ScanPart(m, Asked(m, "scan"), r)
  BY <1>3, <1>5, <1>6, Zenon DEF PausedAll, LePart, ScanPart
<1>8. Held(m, r)
  <2>1. /\ r \in Host /\ SameHci(m.hci, r.hci)
        /\ r.address_policy = m.address_policy /\ (r.rotation_alarm => m.rotation_alarm)
        /\ r.le_address = m.le_address /\ r.cached_address = m.cached_address
    BY <1>3, <1>5, Zenon DEF PausedAll, SameCommands
  <2>2. \A c \in Clients : r.clients[c] = IF Asked(m, c) THEN "WAITING_FOR_PAUSE" ELSE m.clients[c]
    BY <1>3, <1>5, <1>6, Zenon DEF PausedAll
  <2>3. \A u : Has(r.tasks, u) <=> Has(m.tasks, u) \/ \E c \in Clients : Asked(m, c) /\ AP(c) = u
    BY <1>3, <1>5, <1>6, Zenon DEF PausedAll
  <2>4. /\ \A u, v : (\A c \in Clients : AP(c) # v) => (Before(r.tasks, u, v) <=> Before(m.tasks, u, v))
        /\ \A u, T : (\A c \in Clients : AP(c) # u /\ AP(c) \notin T) => (Final(r.tasks, u, T) <=> Final(m.tasks, u, T))
    BY <1>3, <1>5, Zenon DEF PausedAll
  <2>5. \A u : \A c \in Clients : (\A d \in Clients : AP(d) # u) =>
          (Before(r.tasks, u, AP(c)) <=> Before(m.tasks, u, AP(c)) \/ (Asked(m, c) /\ Has(m.tasks, u)))
    BY <1>3, <1>5, <1>6, Zenon DEF PausedAll
  <2> QED BY <1>7, <2>1, <2>2, <2>3, <2>4, <2>5, Zenon DEF Held
<1>9. Rotates(r)
  BY <1>3, <1>5, Zenon DEF PausedAll, SameCommands, Rotates, Rotating
<1>10. r.cached_commands # << >> /\ r \in Host
  BY <1>1, <1>3, <1>5, Zenon DEF PausedAll, SameCommands
<1>11. Inv(r, act, addr, rej, X)
  BY <1>8, <1>9, <1>10, InvHeld, Zenon
<1> QED BY <1>10, <1>11, Zenon DEF r

\* The client that a task registers becomes RESUMED, unless it is registered already.
LEMMA RegisterMarks ==
  ASSUME NEW w \in Host, NEW k \in Clients, NEW m, NEW r, NEW act, NEW addr, NEW rej, NEW X,
         Inv(w, act, addr, rej, X), Dropped(w, RG(k), m),
         Marked(m, k, IF m.clients[k] = "NONE" THEN "RESUMED" ELSE m.clients[k], r)
  PROVE  Inv(r, act, addr, rej, X)
<1>0. m \in Host
  BY Zenon DEF Dropped
<1>1. /\ \A c, d : RG(c) # AP(d) /\ RG(c) # UN(d) /\ RG(c) # AR(d)
      /\ \A c : RG(c) # RS /\ RG(c) # HN /\ RG(c) # EC /\ RG(c) # PC
      /\ \A c, op, b : RG(c) # Occ(op, b)
      /\ \A c, d : RG(c) = RG(d) => c = d
  BY Differ, Distinct, Zenon
<1>12. Kept(RG(k), m, act, addr, rej, X)
  BY DropKeeps, Zenon
<1>2. /\ \A c \in Clients \ X : Good(m, c)
      /\ Early(m) /\ Rotates(m) /\ LeSets(m) /\ Scans(m, act) /\ Addresses(m, addr, rej) /\ Waits(m)
      /\ "le" \notin X => LePauses(m)
      /\ "scan" \notin X => ScanPauses(m)
  BY <1>1, <1>12, Zenon DEF Kept
<1>3. /\ Early(r) /\ Rotates(r) /\ LeSets(r) /\ Scans(r, act) /\ Addresses(r, addr, rej)
      /\ \A c : Pauses(r, c) <=> Pauses(m, c)
      /\ Real(r) <=> Real(m)
      /\ NotSet(r) <=> NotSet(m)
  BY <1>0, <1>2, MarkSame, Zenon
<1>4. r.tasks = m.tasks /\ r.cached_commands = m.cached_commands /\ r.le = m.le /\ r.scan = m.scan
  BY Zenon DEF Marked, SameCommands
<1>5. m.clients = w.clients /\ m.le = w.le
  BY Zenon DEF Dropped, SameManager
<1>6. \A c \in Clients :
        /\ r.clients[c] = "PAUSED" <=> m.clients[c] = "PAUSED"
        /\ r.clients[c] = "NONE" => m.clients[c] = "NONE"
        /\ r.clients[c] = "WAITING_FOR_PAUSE" => m.clients[c] = "WAITING_FOR_PAUSE"
        /\ r.clients[c] = "WAITING_FOR_RESUME" => m.clients[c] = "WAITING_FOR_RESUME"
        /\ c # k => r.clients[c] = m.clients[c]
  BY DEF Marked
<1>7. r.clients[k] # "NONE"
  BY DEF Marked
<1>10. \A c \in Clients \ X : Good(r, c)
  BY <1>2, <1>3, <1>4, <1>6, Zenon DEF Good, Sound
<1>11. Waits(r)
  BY <1>2, <1>4, <1>6, Zenon DEF Waits
<1>13. LeKnows(r)
  <2>1. CASE k = "le"
    <3>1. /\ Final(w.tasks, RG("le"), LeRegs) => w.le.registered
          /\ Final(w.tasks, UN("le"), LeRegs) => ~w.le.registered
      BY Zenon DEF Inv, LeKnows
    <3>2. \A u : Final(m.tasks, u, LeRegs) => Final(w.tasks, u, LeRegs)
      BY Zenon DEF Dropped
    <3>3. ~Has(m.tasks, RG("le")) /\ ~Has(m.tasks, UN("le")) => Final(w.tasks, RG("le"), LeRegs)
      BY <2>1, Zenon DEF Dropped, LeRegs
    <3> QED BY <1>4, <1>5, <1>7, <2>1, <3>1, <3>2, <3>3, Zenon DEF LeKnows
  <2>2. CASE k # "le"
    <3>1. RG(k) \notin LeRegs
      BY <1>1, <2>2, Zenon DEF LeRegs
    <3>2. LeKnows(m)
      BY <1>12, <3>1, Zenon DEF Kept
    <3> QED BY <1>4, <1>6, <2>2, <3>2, CountedAre, Zenon DEF LeKnows
  <2> QED BY <2>1, <2>2, Zenon
<1>14. "le" \notin X => LePauses(r)
  BY <1>2, <1>4, <1>6, CountedAre, Zenon DEF LePauses
<1>15. "scan" \notin X => ScanPauses(r)
  BY <1>2, <1>4, <1>6, CountedAre, Zenon DEF ScanPauses
<1> QED BY <1>3, <1>10, <1>11, <1>13, <1>14, <1>15, Zenon DEF Inv

\* The task register_client keeps the invariant, with the pause that it may ask for.
LEMMA RegisterKeeps ==
  ASSUME NEW w \in Host, NEW k \in Clients, NEW m, NEW act, NEW addr, NEW rej, NEW X,
         Inv(w, act, addr, rej, X), Dropped(w, RG(k), m)
  PROVE  register_client(m, k) \in Host /\ Inv(register_client(m, k), act, addr, rej, X)
<1> DEFINE st == IF m.clients[k] = "NONE" THEN "RESUMED" ELSE m.clients[k]
           a == [m EXCEPT !.clients[k] = IF @ = "NONE" THEN "RESUMED" ELSE @]
           r == register_client(m, k)
<1>1. m \in Host
  BY Zenon DEF Dropped
<1>2. st \in States
  BY <1>1 DEF Host, States
<1>3. a = [m EXCEPT !.clients[k] = st]
  BY <1>1 DEF Host
<1>4. Marked(m, k, st, a)
  BY <1>1, <1>2, <1>3, MarkIs, Zenon
<1>5. a \in Host /\ Inv(a, act, addr, rej, X)
  <2> HIDE DEF a
  <2>1. a \in Host
    BY <1>4, Zenon DEF Marked
  <2>2. Inv(a, act, addr, rej, X)
    BY <1>4, RegisterMarks, Zenon
  <2> QED BY <2>1, <2>2, Zenon
<1>6. (NotSet(a) <=> NotSet(m)) /\ (Rotating(a) <=> Rotating(m))
  BY <1>4, Zenon DEF Marked, SameCommands, NotSet, Rotating
<1> HIDE DEF a
<1>7. CASE NotSet(m)
  <2>1. r = pause_registered_clients(a)
    BY <1>7, Zenon DEF register_client, NotSet, a
  <2> QED BY <1>5, <1>6, <1>7, <2>1, EarlyPauseKeeps, Zenon
<1>8. CASE ~NotSet(m) /\ ~Rotating(m)
  <2>1. r = a
    BY <1>8, Zenon DEF register_client, NotSet, a
  <2> QED BY <1>5, <2>1, Zenon
<1>9. CASE ~NotSet(m) /\ Rotating(m) /\ ~m.gd_acl
  <2>1. r = prepare_to_rotate(a)
    BY <1>9, Zenon DEF register_client, NotSet, a
  <2> QED BY <1>5, <1>6, <1>9, <2>1, PrepareKeeps, Zenon
<1>10. CASE ~NotSet(m) /\ Rotating(m) /\ m.gd_acl
  <2>1. r = a \/ r = [a EXCEPT !.rotation_alarm = TRUE]
    BY <1>10, Zenon DEF register_client, NotSet, a
  <2>2. LET b == [a EXCEPT !.rotation_alarm = TRUE] IN b \in Host /\ Inv(b, act, addr, rej, X)
    BY <1>5, <1>6, <1>10, AlarmKeeps, Zenon
  <2> QED BY <1>5, <2>1, <2>2, Zenon
<1> QED BY <1>7, <1>8, <1>9, <1>10, Zenon

\* Client k is erased.  If an acknowledgement of a pause is on its way it counts as crossed.
LEMMA UnregisterMarks ==
  ASSUME NEW w \in Host, NEW k \in Clients, NEW m, NEW r, NEW act, NEW addr, NEW rej, NEW X, NEW Y,
         Inv(w, act, addr, rej, X), Dropped(w, UN(k), m), Marked(m, k, "NONE", r),
         X \subseteq Y, Has(m.tasks, AP(k)) => k \in Y
  PROVE  Inv(r, act, addr, rej, Y)
<1>0. m \in Host
  BY Zenon DEF Dropped
<1>1. /\ \A c, d : UN(c) # AP(d) /\ UN(c) # RG(d) /\ UN(c) # AR(d)
      /\ \A c : UN(c) # RS /\ UN(c) # HN /\ UN(c) # EC /\ UN(c) # PC
      /\ \A c, op, b : UN(c) # Occ(op, b)
      /\ \A c, d : UN(c) = UN(d) => c = d
  BY Differ, Distinct, Zenon
<1>12. Kept(UN(k), m, act, addr, rej, X)
  BY DropKeeps, Zenon
<1>2. /\ \A c \in Clients \ X : Good(m, c)
      /\ Early(m) /\ Rotates(m) /\ LeSets(m) /\ Scans(m, act) /\ Addresses(m, addr, rej) /\ Waits(m)
      /\ "le" \notin X => LePauses(m)
      /\ "scan" \notin X => ScanPauses(m)
  BY <1>1, <1>12, Zenon DEF Kept
<1>3. /\ Early(r) /\ Rotates(r) /\ LeSets(r) /\ Scans(r, act) /\ Addresses(r, addr, rej)
      /\ \A c : Pauses(r, c) <=> Pauses(m, c)
      /\ Real(r) <=> Real(m)
      /\ NotSet(r) <=> NotSet(m)
  BY <1>0, <1>2, MarkSame, Zenon
<1>4. r.tasks = m.tasks /\ r.cached_commands = m.cached_commands /\ r.le = m.le /\ r.scan = m.scan
  BY Zenon DEF Marked, SameCommands
<1>5. m.clients = w.clients /\ m.le = w.le /\ m.scan = w.scan
  BY Zenon DEF Dropped, SameManager
<1>6. /\ r.clients[k] = "NONE" /\ \A c \in Clients : c # k => r.clients[c] = m.clients[c]
  BY Zenon DEF Marked
<1>7. "NONE" # "PAUSED" /\ "NONE" # "WAITING_FOR_PAUSE" /\ "NONE" # "WAITING_FOR_RESUME"
  OBVIOUS
<1>8. \A u, v : Before(m.tasks, u, v) => Has(m.tasks, u) /\ Has(m.tasks, v)
  BY Zenon DEF Before, Has
<1>10. \A c \in Clients \ Y : Good(r, c)
  <2> TAKE c \in Clients \ Y
  <2>1. c \in Clients /\ c \notin X /\ Good(m, c)
    BY <1>2, Zenon
  <2>2. CASE c # k
    BY <1>3, <1>4, <1>6, <2>1, <2>2, Zenon DEF Good, Sound
  <2>3. CASE c = k
    <3>1. ~Has(r.tasks, AP(k)) /\ ~Before(r.tasks, AP(k), RS) /\ ~Before(r.tasks, RS, AP(k)) /\ ~Before(r.tasks, AP(k), AR(k))
      BY <1>4, <1>8, <2>3, Zenon
    <3> QED BY <1>6, <1>7, <2>3, <3>1, Zenon DEF Good, Sound
  <2> QED BY <2>2, <2>3, Zenon
<1>11. Waits(r)
  BY <1>2, <1>4, <1>6, <1>7, Zenon DEF Waits
<1>13. LeKnows(r)
  <2>1. CASE k = "le"
    <3>1. /\ Final(w.tasks, RG("le"), LeRegs) => w.le.registered
          /\ Final(w.tasks, UN("le"), LeRegs) => ~w.le.registered
      BY Zenon DEF Inv, LeKnows
    <3>2. \A u : Final(m.tasks, u, LeRegs) => Final(w.tasks, u, LeRegs)
      BY Zenon DEF Dropped
    <3>3. ~Has(m.tasks, RG("le")) /\ ~Has(m.tasks, UN("le")) => Final(w.tasks, UN("le"), LeRegs)
      BY <2>1, Zenon DEF Dropped, LeRegs
    <3> QED BY <1>4, <1>5, <1>6, <2>1, <3>1, <3>2, <3>3, Zenon DEF LeKnows
  <2>2. CASE k # "le"
    <3>1. UN(k) \notin LeRegs
      BY <1>1, <2>2, Zenon DEF LeRegs
    <3>2. LeKnows(m)
      BY <1>12, <3>1, Zenon DEF Kept
    <3> QED BY <1>4, <1>6, <2>2, <3>2, CountedAre, Zenon DEF LeKnows
  <2> QED BY <2>1, <2>2, Zenon
<1>14. "le" \notin Y => LePauses(r)
  <2> SUFFICES ASSUME "le" \notin Y PROVE LePauses(r)
    BY Zenon
  <2>1. LePauses(m) /\ LePauses(w)
    BY <1>2, Zenon DEF Inv
  <2>2. CASE k = "le"
    <3>1. Has(w.tasks, UN("le")) /\ ~Has(m.tasks, AP("le"))
      BY <2>2, Zenon DEF Dropped
    <3>2. m.clients["le"] # "PAUSED"
      BY <1>5, <2>1, <3>1, Zenon DEF LePauses
    <3> QED BY <1>4, <1>6, <1>7, <1>8, <2>1, <2>2, <3>1, <3>2, Zenon DEF LePauses
  <2>3. CASE k # "le"
    <3>1. r.clients["le"] = m.clients["le"]
      BY <1>6, <2>3, CountedAre, Zenon
    <3> QED BY <1>4, <2>1, <3>1, Zenon DEF LePauses
  <2> QED BY <2>2, <2>3, Zenon
<1>15. "scan" \notin Y => ScanPauses(r)
  <2> SUFFICES ASSUME "scan" \notin Y PROVE ScanPauses(r)
    BY Zenon
  <2>1. ScanPauses(m) /\ ScanPauses(w)
    BY <1>2, Zenon DEF Inv
  <2>2. CASE k = "scan"
    <3>1. Has(w.tasks, UN("scan")) /\ ~Has(m.tasks, AP("scan"))
      BY <2>2, Zenon DEF Dropped
    <3>2. m.scan.registered /\ m.scan.paused => m.clients["scan"] # "PAUSED"
      BY <1>5, <2>1, <3>1, Zenon DEF ScanPauses
    <3> QED BY <1>4, <1>6, <1>7, <1>8, <2>1, <2>2, <3>1, <3>2, Zenon DEF ScanPauses
  <2>3. CASE k # "scan"
    <3>1. r.clients["scan"] = m.clients["scan"]
      BY <1>6, <2>3, CountedAre, Zenon
    <3> QED BY <1>4, <2>1, <3>1, Zenon DEF ScanPauses
  <2> QED BY <2>2, <2>3, Zenon
<1> QED BY <1>3, <1>10, <1>11, <1>13, <1>14, <1>15, Zenon DEF Inv

\* The task unregister_client keeps the invariant, with the rotation alarm that it may cancel;
\* the client counts as crossed if an acknowledgement of a pause is on its way.
LEMMA UnregisterKeeps ==
  ASSUME NEW w \in Host, NEW k \in Clients, NEW m, NEW act, NEW addr, NEW rej, NEW X, NEW Y,
         Inv(w, act, addr, rej, X), Dropped(w, UN(k), m),
         X \subseteq Y, Has(m.tasks, AP(k)) => k \in Y
  PROVE  unregister_client(m, k) \in Host /\ Inv(unregister_client(m, k), act, addr, rej, Y)
<1> DEFINE a == [m EXCEPT !.clients[k] = "NONE"]
           r == unregister_client(m, k)
<1>1. m \in Host /\ "NONE" \in States
  BY Zenon DEF Dropped, States
<1>2. Marked(m, k, "NONE", a)
  BY <1>1, MarkIs, Zenon
<1> HIDE DEF a
<1>3. a \in Host
  BY <1>2, Zenon DEF Marked
<1>4. Inv(a, act, addr, rej, Y)
  BY <1>2, UnregisterMarks, Zenon
<1>5. r = a \/ r = [a EXCEPT !.rotation_alarm = FALSE]
  BY Zenon DEF unregister_client, a
<1>6. LET b == [a EXCEPT !.rotation_alarm = FALSE] IN b \in Host /\ Inv(b, act, addr, rej, Y)
  BY <1>3, <1>4, AlarmKeeps, Zenon
<1> QED BY <1>3, <1>4, <1>5, <1>6, Zenon

\* The task push_command keeps the invariant.
LEMMA PushKeeps ==
  ASSUME NEW w \in Host, NEW m, NEW act, NEW addr, NEW rej, NEW X,
         Inv(w, act, addr, rej, X), Dropped(w, PC, m)
  PROVE  push_command(m, "list") \in Host /\ Inv(push_command(m, "list"), act, addr, rej, X)
<1> DEFINE a == pause_registered_clients(m)
           q == Append(a.cached_commands, "list")
           r == push_command(m, "list")
<1>0. m \in Host
  BY Zenon DEF Dropped
<1>1. PausedAll(m, a)
  BY <1>0, PauseAllIs, Zenon
<1>2. r = [a EXCEPT !.cached_commands = q]
  BY Zenon DEF push_command
<1> HIDE DEF a, r
<1>3. a \in Host /\ a.cached_commands \in Seq({"list", "rotate"})
  BY <1>1, Zenon DEF PausedAll, Host
<1>4. q \in Seq({"list", "rotate"}) /\ q # << >>
  BY <1>3
<1>5. Has(q, "rotate") => Has(a.cached_commands, "rotate")
  <2>1. "list" # "rotate" /\ "list" \in {"list", "rotate"}
    OBVIOUS
  <2>2. \A u : Has(q, u) <=> Has(a.cached_commands, u) \/ "list" = u
    BY <1>3, <2>1, AppendHas
  <2> QED BY <2>1, <2>2, Zenon
<1> HIDE DEF q
<1>6. r \in Host
  BY <1>2, <1>3, <1>4, Zenon DEF Host
<1>7. /\ r.clients = a.clients /\ r.rotation_alarm = a.rotation_alarm /\ r.address_policy = a.address_policy
      /\ r.le_address = a.le_address /\ r.cached_address = a.cached_address /\ r.tasks = a.tasks
      /\ r.hci = a.hci /\ r.le = a.le /\ r.scan = a.scan /\ r.cached_commands = q
  BY <1>2, <1>3 DEF Host
<1>8. LePart(m, Asked(m, "le"), r) /\ ScanPart(m, Asked(m, "scan"), r)
  BY <1>1, <1>7, Zenon DEF PausedAll, LePart, ScanPart
<1>9. Held(m, r)
  <2>1. /\ r \in Host /\ SameHci(m.hci, r.hci)
        /\ r.address_policy = m.address_policy /\ (r.rotation_alarm => m.rotation_alarm)
        /\ r.le_address = m.le_address /\ r.cached_address = m.cached_address
    BY <1>1, <1>6, <1>7, Zenon DEF PausedAll, SameCommands
  <2> QED BY <1>1, <1>7, <1>8, <2>1, Zenon DEF Held, PausedAll
<1>10. /\ \A c : PC # AP(c) /\ PC # AR(c)
       /\ PC # RS /\ PC # EC /\ PC # HN /\ PC \notin LeRegs
       /\ \A op, b : PC # Occ(op, b)
  BY Differ, Distinct, Zenon DEF LeRegs
<1>11. Kept(PC, m, act, addr, rej, X)
  BY DropKeeps, Zenon
<1>12. /\ \A c \in Clients \ X : Good(m, c)
       /\ Early(m) /\ Rotates(m) /\ LeSets(m) /\ Scans(m, act) /\ Addresses(m, addr, rej) /\ Waits(m) /\ LeKnows(m)
       /\ "scan" \notin X => ScanPauses(m)
  BY <1>10, <1>11, Zenon DEF Kept
<1>13. Rotates(r)
  BY <1>1, <1>5, <1>7, <1>12, Zenon DEF Rotates, Rotating, PausedAll, SameCommands
<1>14. "le" \notin X => LeWillPause(m)
  <2> SUFFICES ASSUME "le" \notin X PROVE LeWillPause(m)
    BY Zenon
  <2>1. LePauses(w)
    BY Zenon DEF Inv
  <2>2. m.clients = w.clients /\ m.le = w.le
    BY Zenon DEF Dropped, SameManager
  <2>3. /\ Has(w.tasks, AP("le")) <=> Has(m.tasks, AP("le"))
        /\ Has(m.tasks, UN("le")) => Has(w.tasks, UN("le"))
        /\ Before(m.tasks, AP("le"), UN("le")) => Before(w.tasks, AP("le"), UN("le"))
    BY <1>10, Zenon DEF Dropped
  <2>4. Final(w.tasks, PC, LeRegs) => \/ Final(m.tasks, PC, LeRegs)
                                      \/ ~Has(m.tasks, RG("le")) /\ ~Has(m.tasks, UN("le"))
    BY Zenon DEF Dropped, LeRegs
  <2>5. ~Has(m.tasks, RG("le")) /\ ~Has(m.tasks, UN("le")) /\ m.le.registered => m.clients["le"] # "NONE"
    BY <1>12, Zenon DEF LeKnows
  <2>6. m.clients["le"] = "WAITING_FOR_PAUSE" => Has(m.tasks, AP("le"))
    BY <1>12, CountedAre, Zenon DEF Waits
  <2>7. m.clients["le"] # "NONE" => \/ m.clients["le"] = "PAUSED" \/ m.clients["le"] = "WAITING_FOR_PAUSE"
                                    \/ Asked(m, "le")
    BY Zenon DEF Asked
  <2> QED BY <2>1, <2>2, <2>3, <2>4, <2>5, <2>6, <2>7, Zenon DEF LePauses, LeWillPause
<1>15. r.cached_commands # << >>
  BY <1>4, <1>7, Zenon
<1>16. Inv(r, act, addr, rej, X)
  BY <1>0, <1>9, <1>12, <1>13, <1>14, <1>15, HeldKeeps, Zenon
<1> QED BY <1>6, <1>16, Zenon DEF r
-----------------------------------------------------------------------------
\* The task of resume_registered_clients runs.
LEMMA ResumeKeeps ==
  ASSUME NEW w \in Host, NEW m, NEW act, NEW addr, NEW rej, NEW X,
         Inv(w, act, addr, rej, X), Dropped(w, RS, m)
  PROVE  LET r == resume_registered_clients(m)
         IN r \in Host /\ (r.aborted = "no" => Inv(r, act, addr, rej, X))
<1> DEFINE r == resume_registered_clients(m)
<1>0. m \in Host
  BY Zenon DEF Dropped
<1>1. /\ \A c : RS # AP(c) /\ RS # AR(c) /\ RS # UN(c) /\ RS # RG(c)
      /\ RS # PC /\ RS # EC /\ RS # HN /\ RS \notin LeRegs
      /\ \A op, b : RS # Occ(op, b)
  BY Differ, Distinct, Zenon DEF LeRegs
<1>2. Kept(RS, m, act, addr, rej, X)
  BY DropKeeps, Zenon
<1>3. /\ \A c \in Clients \ X : Sound(m, c)
      /\ Early(m) /\ Rotates(m) /\ LeSets(m) /\ Scans(m, act) /\ Addresses(m, addr, rej) /\ Waits(m) /\ LeKnows(m)
      /\ "le" \notin X => LePauses(m)
      /\ "scan" \notin X => ScanPauses(m)
  BY <1>1, <1>2, Zenon DEF Kept
<1>4. ~NotSet(m)
  BY Zenon DEF Inv, Early, NotSet, Dropped, SameManager
<1>5. CASE m.cached_commands # << >>
  <2>1. \A c \in Clients \ X : Good(m, c)
    BY <1>3, <1>5, Zenon DEF Good
  <2>2. Inv(m, act, addr, rej, X)
    BY <1>3, <2>1, Zenon DEF Inv
  <2>3. r = handle_next_command(m)
    BY <1>5, Zenon DEF resume_registered_clients
  <2>4. handle_next_command(m) \in Host
    BY <1>0, PopIs, Zenon
  <2>5. handle_next_command(m).aborted = "no" => Inv(handle_next_command(m), act, addr, rej, X)
    BY <1>0, <1>4, <2>2, HandleKeeps, Zenon
  <2> QED BY <2>3, <2>4, <2>5, Zenon
<1>6. CASE m.cached_commands = << >>
  <2>1. m.address_policy # "NOT_SET" /\ (m.le.canceled # {} \/ m.le.connecting # {} => m.le.registered)
    BY <1>3, <1>4, Zenon DEF NotSet, LeSets
  <2>2. ResumedAll(m, r)
    BY <1>0, <1>6, <2>1, ResumeAllIs, Zenon
  <2> HIDE DEF r
  <2>3. \A c \in Clients \ X : ~Has(m.tasks, AP(c))
    <3> TAKE c \in Clients \ X
    <3>1. Has(m.tasks, AP(c)) => Before(w.tasks, RS, AP(c))
      BY Zenon DEF Dropped
    <3>2. Before(w.tasks, RS, AP(c)) => w.cached_commands # << >>
      BY Zenon DEF Inv, Good, Sound
    <3>3. w.cached_commands = m.cached_commands
      BY Zenon DEF Dropped, SameManager
    <3> QED BY <1>6, <3>1, <3>2, <3>3, Zenon
  <2>4. /\ \A u : u \notin {AR("le"), AR("scan"), UN("le"), RG("scan")} => (Has(r.tasks, u) <=> Has(m.tasks, u))
        /\ \A c \in Clients : r.clients[c] = IF m.clients[c] = "NONE" THEN "NONE" ELSE "WAITING_FOR_RESUME"
        /\ r \in Host /\ SameCommands(m, r) /\ SameHci(m.hci, r.hci) /\ LeBack(m, r) /\ ScanBack(m, r)
    BY <2>2, Zenon DEF ResumedAll
  <2>5. \A c : AP(c) \notin {AR("le"), AR("scan"), UN("le"), RG("scan")}
    BY Differ, Zenon
  <2>6. /\ RS \notin {AR("le"), AR("scan"), UN("le"), RG("scan")}
        /\ EC \notin {AR("le"), AR("scan"), UN("le"), RG("scan")}
    BY Differ, Zenon
  <2>7. \A op, b : Occ(op, b) \notin {AR("le"), AR("scan"), UN("le"), RG("scan")}
    <3> TAKE op, b
    <3>1. Occ(op, b) # AR("le") /\ Occ(op, b) # AR("scan") /\ Occ(op, b) # UN("le") /\ Occ(op, b) # RG("scan")
      BY Distinct
    <3> QED BY <3>1
  <2>8. \A c \in Clients \ X : ~Has(r.tasks, AP(c))
    BY <2>3, <2>4, <2>5, Zenon
  <2>9. \A c \in Clients : r.clients[c] # "PAUSED" /\ r.clients[c] # "WAITING_FOR_PAUSE"
                           /\ (r.clients[c] = "NONE" <=> m.clients[c] = "NONE")
    BY <2>4
  <2>10. \A u, v : Before(r.tasks, u, v) => Has(r.tasks, u) /\ Has(r.tasks, v)
    BY Zenon DEF Before, Has
  <2>11. \A c \in Clients \ X : Good(r, c)
    <3> TAKE c \in Clients \ X
    <3>1. ~Has(r.tasks, AP(c)) /\ ~Before(r.tasks, AP(c), RS) /\ ~Before(r.tasks, RS, AP(c)) /\ ~Before(r.tasks, AP(c), AR(c))
      BY <2>8, <2>10, Zenon
    <3>2. r.clients[c] # "PAUSED"
      BY <2>9, Zenon
    <3> QED BY <3>1, <3>2, Zenon DEF Good, Sound
  <2>12. ~NotSet(r)
    BY <1>4, <2>4, Zenon DEF NotSet, SameCommands
  <2>13. Early(r)
    BY <2>12, Zenon DEF Early
  <2>14. Waits(r)
    <3>1. \A c \in Clients : m.clients[c] # "NONE" => Has(r.tasks, AR(c))
      BY <2>4, Zenon DEF LeBack, ScanBack, Clients
    <3>2. "WAITING_FOR_RESUME" # "NONE"
      OBVIOUS
    <3> QED BY <2>9, <3>1, <3>2, Zenon DEF Waits
  <2>15. Rotates(r)
    BY <1>3, <2>4, Zenon DEF SameCommands, Rotates, Rotating
  <2>16. LeKnows(r)
    <3>1. SameLeRegs(m.tasks, r.tasks) => /\ Final(r.tasks, RG("le"), LeRegs) <=> Final(m.tasks, RG("le"), LeRegs)
                                          /\ Final(r.tasks, UN("le"), LeRegs) <=> Final(m.tasks, UN("le"), LeRegs)
                                          /\ Has(r.tasks, RG("le")) <=> Has(m.tasks, RG("le"))
                                          /\ Has(r.tasks, UN("le")) <=> Has(m.tasks, UN("le"))
      BY Zenon DEF SameLeRegs, LeRegs
    <3>2. r.clients["le"] = "NONE" <=> m.clients["le"] = "NONE"
      BY <2>9, CountedAre, Zenon
    <3> QED BY <1>3, <2>4, <3>1, <3>2, Zenon DEF LeBack, LeKnows
  <2>17. LeSets(r)
    BY <1>3, <2>4, Zenon DEF LeBack, LeSets
  <2>18. "le" \notin X => LePauses(r)
    <3> SUFFICES ASSUME "le" \notin X PROVE LePauses(r)
      BY Zenon
    <3>1. ~Has(r.tasks, AP("le")) /\ ~Before(r.tasks, AP("le"), UN("le")) /\ r.clients["le"] # "PAUSED"
      BY <2>8, <2>9, <2>10, CountedAre, Zenon
    <3>2. CASE m.clients["le"] = "NONE"
      <4>1. r.le = m.le /\ SameLeRegs(m.tasks, r.tasks)
        BY <2>4, <3>2, Zenon DEF LeBack
      <4>2. Final(r.tasks, PC, LeRegs) <=> Final(m.tasks, PC, LeRegs)
        BY <4>1, Zenon DEF SameLeRegs
      <4>3. ~Has(m.tasks, AP("le")) /\ m.clients["le"] # "PAUSED"
        <5>1. "NONE" # "PAUSED"
          OBVIOUS
        <5> QED BY <2>3, <3>2, <5>1, CountedAre, Zenon
      <4> QED BY <1>3, <3>1, <4>1, <4>2, <4>3, Zenon DEF LePauses
    <3>3. CASE m.clients["le"] # "NONE"
      BY <2>4, <3>1, <3>3, Zenon DEF LeBack, LePauses
    <3> QED BY <3>2, <3>3, Zenon
  <2>19. "scan" \notin X => ScanPauses(r)
    <3> SUFFICES ASSUME "scan" \notin X PROVE ScanPauses(r)
      BY Zenon
    <3>2. CASE m.clients["scan"] = "NONE"
      <4>1. r.scan = m.scan
        BY <2>4, <3>2, Zenon DEF ScanBack
      <4>3. ~Has(m.tasks, AP("scan")) /\ m.clients["scan"] # "PAUSED"
        <5>1. "NONE" # "PAUSED"
          OBVIOUS
        <5> QED BY <2>3, <3>2, <5>1, CountedAre, Zenon
      <4> QED BY <1>3, <4>1, <4>3, Zenon DEF ScanPauses
    <3>3. CASE m.clients["scan"] # "NONE"
      BY <2>4, <3>3, Zenon DEF ScanBack, ScanPauses
    <3> QED BY <3>2, <3>3, Zenon
  <2>20. Scans(r, act)
    <3>1. CASE r.scan.is_scanning = m.scan.is_scanning /\ SameScan(m.hci, r.hci) /\ \A op \in ScanOps : Sent(r.hci, op) <=> Sent(m.hci, op)
      BY <1>3, <3>1, Zenon DEF Scans, SameScan
    <3>2. CASE r.scan.is_scanning /\ On(r.hci) /\ ~Off(r.hci) /\ Sent(r.hci, "scan_on")
      BY <3>2 DEF Scans, ScanOps
    <3> QED BY <2>4, <3>1, <3>2, Zenon DEF ScanBack
  <2>21. Addresses(r, addr, rej)
    <3>1. "set_random_address" \in {"list", "set_random_address"}
      OBVIOUS
    <3>2. /\ Sent(r.hci, "set_random_address") <=> Sent(m.hci, "set_random_address")
          /\ \A a : Last(r.hci, a) <=> Last(m.hci, a)
      BY <2>4, <3>1, Zenon DEF SameHci
    <3>3. /\ Has(r.tasks, EC) <=> Has(m.tasks, EC)
          /\ Has(r.tasks, Occ("set_random_address", TRUE)) <=> Has(m.tasks, Occ("set_random_address", TRUE))
      BY <2>4, <2>6, <2>7, Zenon
    <3> QED BY <1>3, <2>4, <3>2, <3>3, Zenon DEF Addresses, SameCommands
  <2>22. Inv(r, act, addr, rej, X)
    BY <2>11, <2>13, <2>14, <2>15, <2>16, <2>17, <2>18, <2>19, <2>20, <2>21, Zenon DEF Inv
  <2> QED BY <2>4, <2>22, Zenon DEF r
<1> QED BY <1>5, <1>6, Zenon

\* The task of handle_next_command runs.
LEMMA NextKeeps ==
  ASSUME NEW w \in Host, NEW m, NEW act, NEW addr, NEW rej, NEW X,
         Inv(w, act, addr, rej, X), Dropped(w, HN, m)
  PROVE  LET r == handle_next_command(m)
         IN r \in Host /\ (r.aborted = "no" => Inv(r, act, addr, rej, X))
<1>0. m \in Host
  BY Zenon DEF Dropped
<1>1. /\ \A c : HN # AP(c) /\ HN # AR(c)
      /\ HN # PC /\ HN # EC /\ HN # RS /\ HN \notin LeRegs
      /\ \A op, b : HN # Occ(op, b)
  BY Differ, Distinct, Zenon DEF LeRegs
<1>2. Kept(HN, m, act, addr, rej, X)
  BY DropKeeps, Zenon
<1>3. Inv(m, act, addr, rej, X)
  BY <1>1, <1>2, Zenon DEF Kept, Inv
<1>4. ~NotSet(m)
  BY Zenon DEF Inv, Early, NotSet, Dropped, SameManager
<1>5. handle_next_command(m) \in Host
  BY <1>0, PopIs, Zenon
<1>6. handle_next_command(m).aborted = "no" => Inv(handle_next_command(m), act, addr, rej, X)
  BY <1>0, <1>3, <1>4, HandleKeeps, Zenon
<1> QED BY <1>5, <1>6, Zenon
-----------------------------------------------------------------------------
\* The task of the static address is sent to the controller.
LEMMA EnqueueKeeps ==
  ASSUME NEW w \in Host, NEW m, NEW act, NEW addr, NEW rej, NEW X,
         Inv(w, act, addr, rej, X), Dropped(w, EC, m)
  PROVE  LET r == EnqueueCommand(m, "set_random_address")
         IN r \in Host /\ Inv(r, act, addr, rej, X)
<1> DEFINE r == EnqueueCommand(m, "set_random_address")
           x == Cmd(m, "set_random_address")
<1>0. m \in Host
  BY Zenon DEF Dropped
<1>1. /\ \A c : EC # AP(c) /\ EC # AR(c)
      /\ EC # PC /\ EC # HN /\ EC # RS /\ EC \notin LeRegs
      /\ \A op, b : EC # Occ(op, b)
  BY Differ, Distinct, Zenon DEF LeRegs
<1>2. Kept(EC, m, act, addr, rej, X)
  BY DropKeeps, Zenon
<1>3. /\ \A c \in Clients \ X : Good(m, c)
      /\ Early(m) /\ Rotates(m) /\ LeSets(m) /\ Scans(m, act) /\ Waits(m) /\ LeKnows(m)
      /\ "le" \notin X => LePauses(m)
      /\ "scan" \notin X => ScanPauses(m)
  BY <1>1, <1>2, Zenon DEF Kept
<1>4. ~NotSet(m) /\ Has(w.tasks, EC)
  BY Zenon DEF Inv, Early, NotSet, Dropped, SameManager
<1>5. "set_random_address" \in Commands
  BY DEF Commands
<1>6. /\ r \in Host /\ SameManager(m, r) /\ r.le = m.le /\ r.scan = m.scan /\ r.tasks = m.tasks
      /\ r.hci = Append(m.hci, x) /\ x \in Cmds
  BY <1>0, <1>5, EnqueueIs, Zenon DEF Cmds
<1>7. x.op = "set_random_address" /\ x.address = m.cached_address /\ m.hci \in Seq(Cmds)
  BY <1>0 DEF Cmd, Host, Cmds
<1>8. /\ \A op : Sent(Append(m.hci, x), op) <=> Sent(m.hci, op) \/ x.op = op
      /\ On(Append(m.hci, x)) <=> x.op = "scan_on" \/ (On(m.hci) /\ x.op # "scan_off")
      /\ Off(Append(m.hci, x)) <=> x.op = "scan_off" \/ (Off(m.hci) /\ x.op # "scan_on")
      /\ x.op = "set_random_address" => Last(Append(m.hci, x), x.address)
  BY <1>6, <1>7, HciAppend
<1> HIDE DEF r, x
<1>9. /\ \A op : Sent(r.hci, op) <=> Sent(m.hci, op) \/ "set_random_address" = op
      /\ SameScan(m.hci, r.hci) /\ Last(r.hci, m.cached_address)
  <2>1. "set_random_address" # "scan_on" /\ "set_random_address" # "scan_off"
    OBVIOUS
  <2> QED BY <1>6, <1>7, <1>8, <2>1, Zenon DEF SameScan
<1>10. Real(m) => Real(r)
  BY <1>6, <1>9, Zenon DEF Real, SameManager
<1>11. \A c : Pauses(r, c) <=> Pauses(m, c)
  BY <1>6, Zenon DEF Pauses
<1>12. \A c \in Clients \ X : Good(r, c)
  <2> TAKE c \in Clients \ X
  <2>1. Good(m, c)
    BY <1>3, Zenon
  <2> QED BY <1>6, <1>10, <1>11, <2>1, Zenon DEF Good, Sound, NotSet, SameManager
<1>13. Early(r)
  BY <1>4, <1>6, Zenon DEF Early, NotSet, SameManager
<1>14. Waits(r)
  BY <1>3, <1>6, Zenon DEF Waits, SameManager
<1>15. LeKnows(r)
  BY <1>3, <1>6, Zenon DEF LeKnows, SameManager
<1>16. LeSets(r) /\ Rotates(r)
  BY <1>3, <1>6, Zenon DEF LeSets, Rotates, Rotating, SameManager
<1>17. "le" \notin X => LePauses(r)
  BY <1>3, <1>6, Zenon DEF LePauses, SameManager
<1>18. "scan" \notin X => ScanPauses(r)
  BY <1>3, <1>6, Zenon DEF ScanPauses, SameManager
<1>19. Scans(r, act)
  <2>1. \A op \in ScanOps : Sent(r.hci, op) <=> Sent(m.hci, op)
    <3>1. "set_random_address" \notin ScanOps
      BY DEF ScanOps
    <3> QED BY <1>9, <3>1, Zenon
  <2> QED BY <1>3, <1>6, <1>9, <2>1, Zenon DEF Scans, SameScan
<1>20. Addresses(r, addr, rej)
  <2>1. w.address_policy = "STATIC" /\ (~rej => w.le_address = w.cached_address)
    BY <1>4, Zenon DEF Inv, Addresses
  <2>2. /\ r.address_policy = w.address_policy /\ r.le_address = w.le_address /\ r.cached_address = w.cached_address
        /\ r.cached_address = m.cached_address
    BY <1>6, Zenon DEF SameManager, Dropped
  <2> QED BY <1>9, <2>1, <2>2, Zenon DEF Addresses
<1>21. Inv(r, act, addr, rej, X)
  BY <1>12, <1>13, <1>14, <1>15, <1>16, <1>17, <1>18, <1>19, <1>20, Zenon DEF Inv
<1> QED BY <1>6, <1>21, Zenon DEF r

\* OnCommandComplete leaves r: the address may be noted, and a task is posted.
Answers(m, op, b, r) ==
  \/ r = m /\ op = "set_random_address" /\ m.address_policy = "STATIC"
  \/ /\ r \in Host /\ ~(op = "set_random_address" /\ m.address_policy = "STATIC")
     /\ r.clients = m.clients /\ r.cached_commands = m.cached_commands /\ r.address_policy = m.address_policy
     /\ r.rotation_alarm = m.rotation_alarm /\ r.cached_address = m.cached_address
     /\ r.hci = m.hci /\ r.le = m.le /\ r.scan = m.scan
     /\ r.le_address = IF op = "set_random_address" /\ b THEN m.cached_address ELSE m.le_address
     /\ r.tasks = Append(m.tasks, IF m.cached_commands = << >> THEN RS ELSE HN)

\* OnCommandComplete in every case.
LEMMA AnswerIs ==
  ASSUME NEW m \in Host, NEW op \in {"list", "set_random_address"}, NEW b \in BOOLEAN
  PROVE  Answers(m, op, b, OnCommandComplete(m, [op |-> op, success |-> b]))
<1> DEFINE e == [op |-> op, success |-> b]
           r == OnCommandComplete(m, e)
           a == IF op = "set_random_address" /\ b THEN [m EXCEPT !.le_address = m.cached_address] ELSE m
           t == IF m.cached_commands = << >> THEN RS ELSE HN
<1>1. e.op = op /\ e.success = b
  OBVIOUS
<1>2. CASE op = "set_random_address" /\ m.address_policy = "STATIC"
  <2>1. r = m
    BY <1>1, <1>2 DEF OnCommandComplete
  <2> QED BY <1>2, <2>1, Zenon DEF Answers
<1>3. CASE ~(op = "set_random_address" /\ m.address_policy = "STATIC")
  <2>1. r = Post(a, t)
    BY <1>1, <1>3 DEF OnCommandComplete, RS, HN
  <2>2. m.cached_address \in Nat
    BY Zenon DEF Host
  <2>3. [m EXCEPT !.le_address = m.cached_address] \in Host
    BY <2>2, Zenon DEF Host
  <2>4. a \in Host
    BY <2>3, Zenon
  <2>5. /\ a.clients = m.clients /\ a.cached_commands = m.cached_commands /\ a.address_policy = m.address_policy
        /\ a.rotation_alarm = m.rotation_alarm /\ a.cached_address = m.cached_address
        /\ a.hci = m.hci /\ a.le = m.le /\ a.scan = m.scan /\ a.tasks = m.tasks
        /\ a.le_address = IF op = "set_random_address" /\ b THEN m.cached_address ELSE m.le_address
    <3>1. CASE op = "set_random_address" /\ b
      BY <3>1 DEF Host
    <3>2. CASE ~(op = "set_random_address" /\ b)
      BY <3>2, Zenon
    <3> QED BY <3>1, <3>2, Zenon
  <2>6. t \in Tasks
    BY Known, Zenon
  <2> HIDE DEF a, t, r, e
  <2>7. /\ r \in Host /\ SameManager(a, r) /\ r.le = a.le /\ r.scan = a.scan /\ r.hci = a.hci
        /\ r.tasks = Append(a.tasks, t)
    BY <2>1, <2>4, <2>6, PostIs, Zenon
  <2>8. /\ r.clients = m.clients /\ r.cached_commands = m.cached_commands /\ r.address_policy = m.address_policy
        /\ r.rotation_alarm = m.rotation_alarm /\ r.cached_address = m.cached_address
        /\ r.hci = m.hci /\ r.le = m.le /\ r.scan = m.scan
        /\ r.le_address = IF op = "set_random_address" /\ b THEN m.cached_address ELSE m.le_address
        /\ r.tasks = Append(m.tasks, t)
    BY <2>5, <2>7, Zenon DEF SameManager
  <2>9. Answers(m, op, b, r)
    BY <1>3, <2>7, <2>8, Zenon DEF Answers, t
  <2> QED BY <2>9, Zenon DEF r, e
<1> QED BY <1>2, <1>3, Zenon

\* The command complete event of op is handled.
LEMMA AnswerKeeps ==
  ASSUME NEW w \in Host, NEW op \in {"list", "set_random_address"}, NEW b \in BOOLEAN, NEW m, NEW r,
         NEW act, NEW addr, NEW rej, NEW X,
         Inv(w, act, addr, rej, X), Dropped(w, Occ(op, b), m), Answers(m, op, b, r)
  PROVE  r \in Host /\ Inv(r, act, addr, rej, X)
<1> DEFINE t == Occ(op, b)
           S == {RS, HN}
           x == IF m.cached_commands = << >> THEN RS ELSE HN
<1>0. m \in Host /\ r \in Host /\ m.tasks \in Seq(Tasks)
  BY Zenon DEF Dropped, Answers, Host
<1>1. /\ \A c : t # AP(c) /\ t # AR(c)
      /\ t # PC /\ t # HN /\ t # RS /\ t # EC /\ t \notin LeRegs
  BY Distinct
<1>2. Kept(t, m, act, addr, rej, X)
  BY DropKeeps, Zenon
<1>3. /\ \A c \in Clients \ X : Sound(m, c)
      /\ Early(m) /\ Rotates(m) /\ LeSets(m) /\ Scans(m, act) /\ Waits(m) /\ LeKnows(m)
      /\ "le" \notin X => LePauses(m)
      /\ "scan" \notin X => ScanPauses(m)
  BY <1>1, <1>2, Zenon DEF Kept
<1>4. ~NotSet(m)
  <2>1. Has(w.tasks, Occ(op, b)) /\ m.address_policy = w.address_policy
    BY Zenon DEF Dropped, SameManager
  <2>2. Answered(w.tasks, op)
    BY <2>1, Zenon DEF Answered
  <2> QED BY <2>1, <2>2, Zenon DEF Inv, Early, NotSet
<1>5. /\ m.cached_address = w.cached_address /\ m.le_address = w.le_address /\ m.hci = w.hci
      /\ m.address_policy = w.address_policy
      /\ \A u : u # t => (Has(m.tasks, u) <=> Has(w.tasks, u))
  BY Zenon DEF Dropped, SameManager
<1>6. Has(m.tasks, EC) <=> Has(w.tasks, EC)
  BY <1>1, <1>5, Zenon
<1>7. Addresses(w, addr, rej) /\ \A c \in Clients \ X : Good(w, c)
  BY Zenon DEF Inv
<1>8. CASE r = m /\ op = "set_random_address" /\ m.address_policy = "STATIC"
  <2>1. "list" # "set_random_address"
    OBVIOUS
  <2>2. \A e : Occ("list", e) # t
    BY <1>8, <2>1, Distinct
  <2>3. Answered(m.tasks, "list") <=> Answered(w.tasks, "list")
    BY <1>5, <2>2, Zenon DEF Answered
  <2>4. Real(w) => Real(m)
    BY <1>1, <1>5, <1>8, <2>3, Zenon DEF Real
  <2>5. \A c \in Clients \ X : Good(m, c)
    BY <1>3, <1>7, <2>4, Zenon DEF Good, NotSet, Dropped, SameManager
  <2>6. Addresses(m, addr, rej)
    BY <1>5, <1>6, <1>7, <1>8, Zenon DEF Addresses
  <2> QED BY <1>0, <1>3, <1>8, <2>5, <2>6, Zenon DEF Inv
<1>9. CASE ~(r = m /\ op = "set_random_address" /\ m.address_policy = "STATIC")
  <2>1. /\ r.clients = m.clients /\ r.cached_commands = m.cached_commands /\ r.address_policy = m.address_policy
        /\ r.rotation_alarm = m.rotation_alarm /\ r.cached_address = m.cached_address
        /\ r.hci = m.hci /\ r.le = m.le /\ r.scan = m.scan
        /\ r.le_address = IF op = "set_random_address" /\ b THEN m.cached_address ELSE m.le_address
        /\ r.tasks = Append(m.tasks, x)
    BY <1>9, Zenon DEF Answers
  <2>2. x \in Tasks /\ x \in S
    BY Known, Zenon
  <2> HIDE DEF x, S
  <2>3. Grow(m.tasks, Append(m.tasks, x), S) /\ Has(Append(m.tasks, x), x)
    BY <1>0, <2>2, GrowOne, Zenon
  <2>4. /\ \A c : AP(c) \notin S /\ AR(c) \notin S /\ UN(c) \notin S /\ RG(c) \notin S
        /\ PC \notin S /\ EC \notin S /\ RS \notin LeRegs /\ HN \notin LeRegs
    BY Differ, Zenon DEF S, LeRegs
  <2>5. \A p, e : Occ(p, e) \notin S
    BY Distinct DEF S
  <2>6. /\ \A u : u \notin S => (Has(r.tasks, u) <=> Has(m.tasks, u))
        /\ \A u, v : v \notin S => (Before(r.tasks, u, v) <=> Before(m.tasks, u, v))
        /\ \A u : u \notin S => (Final(r.tasks, u, LeRegs) <=> Final(m.tasks, u, LeRegs))
        /\ Has(r.tasks, x)
    <3>1. \A y \in S : y \notin LeRegs
      BY <2>4, Zenon DEF S
    <3> QED BY <2>1, <2>3, <3>1, Zenon DEF Grow
  <2>7. /\ \A v : v # x => (Before(r.tasks, RS, v) <=> Before(m.tasks, RS, v))
        /\ \A u : Before(r.tasks, u, RS) => Before(m.tasks, u, RS) \/ (Has(m.tasks, u) /\ x = RS)
    <3>1. \A u, v : Before(Append(m.tasks, x), u, v) <=> Before(m.tasks, u, v) \/ (Has(m.tasks, u) /\ x = v)
      BY <1>0, <2>2, AppendHas
    <3> QED BY <2>1, <3>1, Zenon
  <2>8. \A c : Pauses(r, c) <=> Pauses(m, c)
    BY <2>1, Zenon DEF Pauses
  <2>9. m.cached_commands = << >> => x = RS
    BY Zenon DEF x
  <2>10. \A c \in Clients \ X : Good(r, c)
    <3> TAKE c \in Clients \ X
    <3>1. Sound(m, c)
      BY <1>3, Zenon
    <3>2. m.cached_commands # << >> => x # RS
      BY Differ, Zenon DEF x
    <3>3. /\ Has(r.tasks, AP(c)) <=> Has(m.tasks, AP(c))
          /\ Has(r.tasks, AR(c)) <=> Has(m.tasks, AR(c))
          /\ Before(r.tasks, RS, AP(c)) <=> Before(m.tasks, RS, AP(c))
          /\ Before(r.tasks, AP(c), AR(c)) <=> Before(m.tasks, AP(c), AR(c))
      BY <2>4, <2>6, Zenon
    <3>4. m.clients[c] # "PAUSED" => ~Before(r.tasks, AP(c), RS)
      BY <1>4, <2>7, <3>1, <3>2, Zenon DEF Sound
    <3>5. Sound(r, c)
      BY <2>1, <2>8, <3>1, <3>3, <3>4, Zenon DEF Sound, NotSet
    <3>6. r.cached_commands = << >> => Real(r)
      BY <2>1, <2>6, <2>9, Zenon DEF Real
    <3> QED BY <3>5, <3>6, Zenon DEF Good
  <2>11. Early(r)
    BY <1>4, <2>1, Zenon DEF Early, NotSet
  <2>12. Waits(r)
    BY <1>3, <2>1, <2>4, <2>6, Zenon DEF Waits
  <2>13. LeKnows(r)
    BY <1>3, <2>1, <2>4, <2>6, Zenon DEF LeKnows
  <2>14. LeSets(r) /\ Rotates(r)
    BY <1>3, <2>1, Zenon DEF LeSets, Rotates, Rotating
  <2>15. "le" \notin X => LePauses(r)
    BY <1>3, <2>1, <2>4, <2>6, Zenon DEF LePauses
  <2>16. "scan" \notin X => ScanPauses(r)
    BY <1>3, <2>1, <2>4, <2>6, Zenon DEF ScanPauses
  <2>17. Scans(r, act)
    BY <1>3, <2>1, Zenon DEF Scans
  <2>18. Addresses(r, addr, rej)
    <3>1. Has(r.tasks, EC) <=> Has(w.tasks, EC)
      BY <1>6, <2>4, <2>6, Zenon
    <3>2. CASE op = "set_random_address" /\ b
      <4>1. r.le_address = r.cached_address
        BY <2>1, <3>2, Zenon
      <4> QED BY <1>5, <1>7, <2>1, <3>1, <4>1, Zenon DEF Addresses
    <3>3. CASE ~(op = "set_random_address" /\ b)
      <4>1. Occ("set_random_address", TRUE) # t
        BY <3>3, Distinct, Zenon
      <4>2. Has(r.tasks, Occ("set_random_address", TRUE)) <=> Has(w.tasks, Occ("set_random_address", TRUE))
        BY <1>5, <2>5, <2>6, <4>1, Zenon
      <4>3. r.le_address = m.le_address
        BY <2>1, <3>3, Zenon
      <4> QED BY <1>5, <1>7, <2>1, <3>1, <4>2, <4>3, Zenon DEF Addresses
    <3> QED BY <3>2, <3>3, Zenon
  <2> QED BY <1>0, <2>10, <2>11, <2>12, <2>13, <2>14, <2>15, <2>16, <2>17, <2>18, Zenon DEF Inv
<1> QED BY <1>8, <1>9, Zenon

\* The task of a connection complete event.
Occurs(st, d) == Task("on_le_connection_complete", [status |-> st, peer |-> d])

\* A connection complete event is none of the tasks that the invariant speaks of.
LEMMA OtherTask == \A st, d : Occurs(st, d) \notin Counted
<1> TAKE st, d
<1> DEFINE x == [status |-> st, peer |-> d]
<1>1. Occurs(st, d).run = "on_le_connection_complete"
  BY Runs, Zenon DEF Occurs
<1>2. \A u \in Counted : u.run # "on_le_connection_complete"
  BY DEF Counted, RG, UN, AP, AR, PC, RS, HN, EC, Occ, Task
<1> QED BY <1>1, <1>2, Zenon

\* le_impl handles a connection complete event.
LEMMA ConnectionIs ==
  ASSUME NEW m \in Host, NEW ev \in [status : Statuses, peer : Peers]
  PROVE  LET r == on_le_connection_complete(m, ev)
         IN /\ r \in Host
            /\ \/ Listed(m, r)
               \/ /\ SameManager(m, r) /\ r.tasks = m.tasks /\ r.hci = m.hci /\ r.scan = m.scan
                  /\ r.le.pause = m.le.pause /\ r.le.registered = m.le.registered
                  /\ r.le.connecting \subseteq m.le.connecting /\ r.le.canceled \subseteq m.le.canceled
<1> DEFINE a == [m EXCEPT !.le.connecting = @ \ {ev.peer}]
           b == [a EXCEPT !.le.canceled = @ \ {ev.peer}, !.le.ready_to_unregister = TRUE]
           n == remove_device_from_list(b)
           e == [n EXCEPT !.le.connections = @ \cup {ev.peer}]
           r == on_le_connection_complete(m, ev)
<1>1. ev.peer \in Peers
  OBVIOUS
<1>2. m.le \in LeImpl /\ m.le.connecting \ {ev.peer} \in SUBSET Peers
  BY DEF Host, LeImpl
<1>3. /\ a \in Host /\ SameManager(m, a) /\ a.tasks = m.tasks /\ a.hci = m.hci /\ a.scan = m.scan
      /\ a.le.pause = m.le.pause /\ a.le.registered = m.le.registered
      /\ a.le.connecting \subseteq m.le.connecting /\ a.le.canceled \subseteq m.le.canceled
  <2>1. [m.le EXCEPT !.connecting = @ \ {ev.peer}] \in LeImpl
    BY <1>2 DEF LeImpl
  <2>2. a \in Host
    BY <2>1, Zenon DEF Host
  <2> QED BY <1>2, <2>2, Zenon DEF Host, LeImpl, SameManager
<1> HIDE DEF a
<1>4. /\ b \in Host /\ SameManager(a, b) /\ b.tasks = a.tasks /\ b.hci = a.hci /\ b.scan = a.scan
      /\ b.le.registered = a.le.registered
  <2>0. a.le \in LeImpl
    BY <1>3, Zenon DEF Host
  <2>1. [[a.le EXCEPT !.canceled = @ \ {ev.peer}] EXCEPT !.ready_to_unregister = TRUE] \in LeImpl
    BY <2>0, Zenon DEF LeImpl
  <2>2. b = [a EXCEPT !.le = [[a.le EXCEPT !.canceled = @ \ {ev.peer}] EXCEPT !.ready_to_unregister = TRUE]]
    BY <1>3, <2>0, Zenon DEF Host, LeImpl
  <2>3. b \in Host
    BY <1>3, <2>1, <2>2, Zenon DEF Host
  <2> QED BY <1>3, <2>0, <2>3, Zenon DEF Host, LeImpl, SameManager
<1> HIDE DEF b
<1>5. n = add_device_to_list(b)
  BY Zenon DEF remove_device_from_list, add_device_to_list
<1>6. /\ n \in Host /\ SameManager(b, n) /\ n.hci = b.hci /\ n.scan = b.scan
      /\ n.tasks = IF b.le.registered THEN Append(b.tasks, PC) ELSE Append(Append(b.tasks, RG("le")), PC)
      /\ n.le.pause = TRUE /\ n.le.registered = TRUE
  <2>1. b \in Host
    BY <1>4, Zenon
  <2> HIDE DEF n
  <2>2. LET u == add_device_to_list(b)
        IN /\ u \in Host /\ SameManager(b, u) /\ u.hci = b.hci /\ u.scan = b.scan
           /\ u.tasks = IF b.le.registered THEN Append(b.tasks, PC) ELSE Append(Append(b.tasks, RG("le")), PC)
           /\ u.le.pause = TRUE /\ u.le.registered = TRUE
    BY <2>1, AddIs, Zenon
  <2> QED BY <1>5, <2>2, Zenon
<1> HIDE DEF n
<1>7. Listed(m, n)
  BY <1>3, <1>4, <1>6, Zenon DEF Listed, SameManager
<1>8. Listed(m, e)
  <2>0. n.le \in LeImpl /\ n \in Host
    BY <1>6, Zenon DEF Host
  <2>1. [n.le EXCEPT !.connections = @ \cup {ev.peer}] \in LeImpl
    BY <1>1, <2>0 DEF LeImpl
  <2>2. e \in Host
    BY <2>0, <2>1, Zenon DEF Host
  <2>3. /\ SameManager(n, e) /\ e.tasks = n.tasks /\ e.hci = n.hci /\ e.scan = n.scan
        /\ e.le.registered = n.le.registered /\ e.le.pause = n.le.pause
    BY <2>0, <2>2 DEF Host, LeImpl, SameManager
  <2> QED BY <1>7, <2>2, <2>3, Zenon DEF Listed, SameManager
<1>9. r = a \/ r = e \/ r = n
  BY Zenon DEF on_le_connection_complete, a, b, n
<1> QED BY <1>3, <1>7, <1>8, <1>9, Zenon DEF Listed

\* A queue that does not change stays the same.
LEMMA SameRefl == \A q : SameTasks(q, q)
BY Zenon DEF SameTasks

\* The task on_le_connection_complete keeps the invariant.
LEMMA ConnectionKeeps ==
  ASSUME NEW w \in Host, NEW st \in Statuses, NEW d \in Peers, NEW m, NEW act, NEW addr, NEW rej, NEW X,
         Inv(w, act, addr, rej, X), Dropped(w, Occurs(st, d), m)
  PROVE  LET r == on_le_connection_complete(m, [status |-> st, peer |-> d])
         IN r \in Host /\ Inv(r, act, addr, rej, X)
<1> DEFINE t == Occurs(st, d)
           ev == [status |-> st, peer |-> d]
           r == on_le_connection_complete(m, ev)
<1>0. m \in Host /\ ev \in [status : Statuses, peer : Peers]
  BY Zenon DEF Dropped
<1>1. t \notin Counted
  BY OtherTask, Zenon
<1>2. SameTasks(w.tasks, m.tasks)
  BY <1>1, CountedAre, Zenon DEF Dropped, SameTasks
<1>3. Inv(m, act, addr, rej, X)
  <2>1. SameManager(w, m) /\ m.le = w.le /\ m.scan = w.scan /\ m.hci = w.hci
    BY Zenon DEF Dropped
  <2>2. /\ m.le.pause = w.le.pause /\ m.le.registered = w.le.registered
        /\ m.le.connecting \subseteq w.le.connecting /\ m.le.canceled \subseteq w.le.canceled
    BY <2>1, Zenon
  <2> QED BY <1>0, <1>2, <2>1, <2>2, SameKeeps, Zenon
<1> HIDE DEF ev
<1>4. /\ r \in Host
      /\ \/ Listed(m, r)
         \/ /\ SameManager(m, r) /\ r.tasks = m.tasks /\ r.hci = m.hci /\ r.scan = m.scan
            /\ r.le.pause = m.le.pause /\ r.le.registered = m.le.registered
            /\ r.le.connecting \subseteq m.le.connecting /\ r.le.canceled \subseteq m.le.canceled
  BY <1>0, ConnectionIs, Zenon
<1> HIDE DEF r
<1>5. CASE Listed(m, r)
  <2>1. Inv(r, act, addr, rej, X)
    BY <1>0, <1>3, <1>5, ListKeeps, Zenon
  <2> QED BY <1>4, <2>1, Zenon DEF r, ev
<1>6. CASE ~Listed(m, r)
  <2>1. SameTasks(m.tasks, r.tasks)
    BY <1>4, <1>6, SameRefl, Zenon
  <2>2. Inv(r, act, addr, rej, X)
    BY <1>0, <1>3, <1>4, <1>6, <2>1, SameKeeps, Zenon
  <2> QED BY <1>4, <2>2, Zenon DEF r, ev
<1> QED BY <1>5, <1>6, Zenon

\* An event is posted, and the controller no longer initiates.
LEMMA EventKeeps ==
  ASSUME NEW m \in Host, NEW st \in Statuses, NEW d \in Peers, NEW act, NEW bct, NEW addr, NEW rej, NEW X,
         Inv(m, act, addr, rej, X), "scan" \in bct <=> "scan" \in act
  PROVE  LET r == Post(m, Occurs(st, d))
         IN r \in Host /\ Inv(r, bct, addr, rej, X)
<1> DEFINE t == Occurs(st, d)
           r == Post(m, t)
<1>1. t \in Tasks /\ t \notin Counted /\ m.tasks \in Seq(Tasks)
  BY Known, OtherTask, Zenon DEF Occurs, Host
<1> HIDE DEF t
<1>2. /\ r \in Host /\ SameManager(m, r) /\ r.le = m.le /\ r.scan = m.scan /\ r.hci = m.hci
      /\ r.tasks = Append(m.tasks, t)
  BY <1>1, PostIs, Zenon
<1>3. SameTasks(m.tasks, r.tasks)
  BY <1>1, <1>2, PostSame, Zenon
<1> HIDE DEF r
<1>4. /\ r.le.pause = m.le.pause /\ r.le.registered = m.le.registered
      /\ r.le.connecting \subseteq m.le.connecting /\ r.le.canceled \subseteq m.le.canceled
  BY <1>2, Zenon
<1>5. Inv(r, act, addr, rej, X)
  BY <1>2, <1>3, <1>4, SameKeeps, Zenon
<1>6. Scans(r, bct)
  BY <1>5, Zenon DEF Inv, Scans
<1>7. Inv(r, bct, addr, rej, X)
  BY <1>5, <1>6, Zenon DEF Inv
<1> QED BY <1>2, <1>7, Zenon DEF r, t

\* If the last address that a command on its way sets is a, such a command is on its way.
LEMMA LastSent ==
  ASSUME NEW h \in Seq(Cmds), NEW a, Last(h, a)
  PROVE  Sent(h, "set_random_address")
<1>1. PICK i \in 1..Len(h) : h[i] = SetAddress(a)
  BY Zenon DEF Last, Final
<1>2. Ops(h)[i] = h[i].op /\ Len(Ops(h)) = Len(h)
  BY OpsOf, Zenon
<1>3. h[i].op = "set_random_address"
  BY <1>1 DEF SetAddress
<1> QED BY <1>2, <1>3, Zenon DEF Sent, Has

\* The controller takes the command in front.
Sends(w, x, m) ==
  /\ m \in Host /\ SameManager(w, m) /\ m.le = w.le /\ m.scan = w.scan /\ m.tasks = w.tasks
  /\ x \in Cmds
  /\ \A o : Sent(w.hci, o) <=> Sent(m.hci, o) \/ x.op = o
  /\ On(w.hci) <=> On(m.hci) \/ (x.op = "scan_on" /\ \A o \in ScanOps : ~Sent(m.hci, o))
  /\ Off(w.hci) <=> Off(m.hci) \/ (x.op = "scan_off" /\ \A o \in ScanOps : ~Sent(m.hci, o))
  /\ x.op # "set_random_address" => \A a : Last(w.hci, a) <=> Last(m.hci, a)
  /\ \A a : Last(w.hci, a) => Last(m.hci, a) \/ (~Sent(m.hci, "set_random_address") /\ x.address = a)

\* What the controller changes about the commands on their way by taking one.
LEMMA SendIs ==
  ASSUME NEW w \in Host, w.hci # << >>
  PROVE  Sends(w, Head(w.hci), [w EXCEPT !.hci = Tail(@)])
<1> DEFINE m == [w EXCEPT !.hci = Tail(@)]
           g == Tail(w.hci)
           x == Head(w.hci)
<1>1. w.hci \in Seq(Cmds)
  BY Zenon DEF Host, Cmds
<1>2. g \in Seq(Cmds) /\ x \in Cmds
  BY <1>1, Taken
<1>3. m \in Host
  BY <1>2, Zenon DEF Host, Cmds
<1>4. SameManager(w, m) /\ m.le = w.le /\ m.scan = w.scan /\ m.tasks = w.tasks /\ m.hci = g
  BY <1>3 DEF Host, SameManager
<1>5. /\ \A o : Sent(w.hci, o) <=> Sent(g, o) \/ x.op = o
      /\ On(w.hci) <=> On(g) \/ (x.op = "scan_on" /\ \A o \in ScanOps : ~Sent(g, o))
      /\ Off(w.hci) <=> Off(g) \/ (x.op = "scan_off" /\ \A o \in ScanOps : ~Sent(g, o))
      /\ x.op # "set_random_address" => \A a : Last(w.hci, a) <=> Last(g, a)
      /\ \A a : Last(w.hci, a) => Last(g, a) \/ (~Sent(g, "set_random_address") /\ x.address = a)
  BY <1>1, HciTail
<1> HIDE DEF m, g, x
<1>6. Sends(w, x, m)
  BY <1>2, <1>3, <1>4, <1>5, Zenon DEF Sends
<1> QED BY <1>6, Zenon DEF m, x

\* It is a command of the scan or of a connection.
LEMMA RadioKeeps ==
  ASSUME NEW w \in Host, NEW x, NEW m, NEW act, NEW bct, NEW addr, NEW rej, NEW X,
         Inv(w, act, addr, rej, X), Sends(w, x, m),
         x.op \in {"scan_on", "scan_off", "create_connection", "cancel_connection"},
         x.op = "scan_on" => "scan" \in bct,
         x.op = "scan_off" => "scan" \notin bct,
         x.op \notin ScanOps => ("scan" \in bct <=> "scan" \in act)
  PROVE  m \in Host /\ Inv(m, bct, addr, rej, X)
<1>0. m \in Host
  BY Zenon DEF Sends
<1>1. x.op # "list" /\ x.op # "set_random_address"
  OBVIOUS
<1>2. /\ Sent(m.hci, "list") <=> Sent(w.hci, "list")
      /\ Sent(m.hci, "set_random_address") <=> Sent(w.hci, "set_random_address")
      /\ \A a : Last(w.hci, a) <=> Last(m.hci, a)
  BY <1>1, Zenon DEF Sends
<1>3. SameManager(w, m) /\ m.le = w.le /\ m.scan = w.scan /\ m.tasks = w.tasks
  BY Zenon DEF Sends
<1>4. Real(m) <=> Real(w)
  BY <1>2, <1>3, Zenon DEF Real, SameManager
<1>5. \A c : Pauses(m, c) <=> Pauses(w, c)
  BY <1>3, Zenon DEF Pauses
<1>6. \A c \in Clients \ X : Good(m, c)
  <2> TAKE c \in Clients \ X
  <2>1. Good(w, c)
    BY Zenon DEF Inv
  <2> QED BY <1>3, <1>4, <1>5, <2>1, Zenon DEF Good, Sound, NotSet, SameManager
<1>7. Early(m)
  BY <1>2, <1>3, Zenon DEF Inv, Early, NotSet, SameManager
<1>8. Waits(m) /\ LeKnows(m)
  BY <1>3, Zenon DEF Inv, Waits, LeKnows, SameManager
<1>9. LeSets(m) /\ Rotates(m)
  BY <1>3, Zenon DEF Inv, LeSets, Rotates, Rotating, SameManager
<1>10. "le" \notin X => LePauses(m)
  BY <1>3, Zenon DEF Inv, LePauses, SameManager
<1>11. "scan" \notin X => ScanPauses(m)
  BY <1>3, Zenon DEF Inv, ScanPauses, SameManager
<1>12. Addresses(m, addr, rej)
  BY <1>2, <1>3, Zenon DEF Inv, Addresses, SameManager
<1>13. Scans(m, bct)
  <2>1. Scans(w, act) /\ m.scan.is_scanning = w.scan.is_scanning
    BY <1>3, Zenon DEF Inv
  <2>2. CASE x.op = "scan_on"
    <3>1. x.op # "scan_off"
      BY <2>2
    <3> QED BY <2>1, <2>2, <3>1, Zenon DEF Sends, Scans
  <2>3. CASE x.op = "scan_off"
    <3>1. x.op # "scan_on"
      BY <2>3
    <3> QED BY <2>1, <2>3, <3>1, Zenon DEF Sends, Scans
  <2>4. CASE x.op # "scan_on" /\ x.op # "scan_off"
    <3>1. x.op \notin ScanOps
      BY <2>4, Zenon DEF ScanOps
    <3>2. \A o \in ScanOps : Sent(m.hci, o) <=> Sent(w.hci, o)
      BY <3>1, Zenon DEF Sends
    <3> QED BY <2>1, <2>4, <3>1, <3>2, Zenon DEF Sends, Scans
  <2> QED BY <2>2, <2>3, <2>4, Zenon
<1> QED BY <1>0, <1>6, <1>7, <1>8, <1>9, <1>10, <1>11, <1>12, <1>13, Zenon DEF Inv

\* It is a command of the manager, and its completion is posted.
LEMMA CompleteKeeps ==
  ASSUME NEW w \in Host, NEW x, NEW m, NEW b \in BOOLEAN, NEW act, NEW addr, NEW rej, NEW X,
         NEW baddr, NEW brej,
         Inv(w, act, addr, rej, X), Sends(w, x, m),
         x.op \in {"list", "set_random_address"},
         baddr = IF x.op = "list" \/ ~b THEN addr ELSE x.address,
         brej <=> (rej \/ (x.op # "list" /\ ~b))
  PROVE  LET r == Post(m, Occ(x.op, b))
         IN r \in Host /\ Inv(r, act, baddr, brej, X)
<1> DEFINE t == Occ(x.op, b)
           r == Post(m, t)
           S == {t}
<1>0. m \in Host /\ m.tasks \in Seq(Tasks) /\ t \in Tasks
  BY Known, Zenon DEF Sends, Host, Occ
<1>1. SameManager(w, m) /\ m.le = w.le /\ m.scan = w.scan /\ m.tasks = w.tasks
  BY Zenon DEF Sends
<1>2. /\ \A c : AP(c) \notin S /\ AR(c) \notin S /\ UN(c) \notin S /\ RG(c) \notin S
      /\ PC \notin S /\ EC \notin S /\ RS \notin S /\ HN \notin S /\ t \notin LeRegs
  BY Distinct
<1>3. \A p, e : p # x.op => Occ(p, e) \notin S
  BY Distinct
<1> HIDE DEF t
<1>4. /\ r \in Host /\ SameManager(m, r) /\ r.le = m.le /\ r.scan = m.scan /\ r.hci = m.hci
      /\ r.tasks = Append(m.tasks, t)
  BY <1>0, PostIs, Zenon
<1> HIDE DEF r, S
<1>5. Grow(m.tasks, Append(m.tasks, t), S) /\ Has(Append(m.tasks, t), t)
  <2>1. t \in S
    BY Zenon DEF S
  <2> QED BY <1>0, <2>1, GrowOne, Zenon
<1>6. SameManager(w, r) /\ r.le = w.le /\ r.scan = w.scan /\ r.hci = m.hci
  BY <1>1, <1>4, Zenon DEF SameManager
<1>7. /\ \A u : Has(w.tasks, u) => Has(r.tasks, u)
      /\ \A u : u \notin S => (Has(r.tasks, u) <=> Has(w.tasks, u))
      /\ \A u, v : v \notin S => (Before(r.tasks, u, v) <=> Before(w.tasks, u, v))
      /\ \A u : u \notin S => (Final(r.tasks, u, LeRegs) <=> Final(w.tasks, u, LeRegs))
      /\ Has(r.tasks, t)
  <2>1. \A v \in S : v \notin LeRegs
    BY <1>2, Zenon DEF S
  <2> QED BY <1>1, <1>4, <1>5, <2>1, Zenon DEF Grow
<1>8. \A op : Answered(w.tasks, op) => Answered(r.tasks, op)
  BY <1>7, Zenon DEF Answered
<1>9. Answered(r.tasks, x.op)
  BY <1>7, Zenon DEF Answered, t
<1>10. \A o : Sent(w.hci, o) <=> Sent(r.hci, o) \/ x.op = o
  BY <1>4, Zenon DEF Sends
<1>11. Real(w) => Real(r)
  BY <1>6, <1>7, <1>8, <1>9, <1>10, Zenon DEF Real, SameManager
<1>12. ~NotSet(w)
  BY <1>10, Zenon DEF Inv, Early
<1>13. \A c : Pauses(r, c) <=> Pauses(w, c)
  BY <1>6, Zenon DEF Pauses
<1>14. \A c \in Clients \ X : Good(r, c)
  <2> TAKE c \in Clients \ X
  <2>1. Good(w, c)
    BY Zenon DEF Inv
  <2>2. /\ Has(r.tasks, AP(c)) <=> Has(w.tasks, AP(c))
        /\ Has(r.tasks, AR(c)) <=> Has(w.tasks, AR(c))
        /\ Before(r.tasks, RS, AP(c)) <=> Before(w.tasks, RS, AP(c))
        /\ Before(r.tasks, AP(c), RS) <=> Before(w.tasks, AP(c), RS)
        /\ Before(r.tasks, AP(c), AR(c)) <=> Before(w.tasks, AP(c), AR(c))
    BY <1>2, <1>7, Zenon
  <2> QED BY <1>6, <1>11, <1>13, <2>1, <2>2, Zenon DEF Good, Sound, NotSet, SameManager
<1>15. Early(r)
  BY <1>6, <1>12, Zenon DEF Early, NotSet, SameManager
<1>16. Waits(r)
  BY <1>2, <1>6, <1>7, Zenon DEF Inv, Waits, SameManager
<1>17. LeKnows(r)
  BY <1>2, <1>6, <1>7, Zenon DEF Inv, LeKnows, SameManager
<1>18. LeSets(r) /\ Rotates(r)
  BY <1>6, Zenon DEF Inv, LeSets, Rotates, Rotating, SameManager
<1>19. "le" \notin X => LePauses(r)
  BY <1>2, <1>6, <1>7, Zenon DEF Inv, LePauses, SameManager
<1>20. "scan" \notin X => ScanPauses(r)
  BY <1>2, <1>6, <1>7, Zenon DEF Inv, ScanPauses, SameManager
<1>21. Scans(r, act)
  <2>1. x.op \notin ScanOps /\ x.op # "scan_on" /\ x.op # "scan_off"
    BY DEF ScanOps
  <2>2. \A o \in ScanOps : Sent(r.hci, o) <=> Sent(w.hci, o)
    BY <1>10, <2>1, Zenon
  <2>3. (On(r.hci) <=> On(w.hci)) /\ (Off(r.hci) <=> Off(w.hci))
    BY <1>4, <2>1, Zenon DEF Sends
  <2> QED BY <1>6, <2>2, <2>3, Zenon DEF Inv, Scans
<1>22. Addresses(r, baddr, brej)
  <2>1. Has(r.tasks, EC) <=> Has(w.tasks, EC)
    BY <1>2, <1>7, Zenon
  <2>2. Addresses(w, addr, rej)
    BY Zenon DEF Inv
  <2>3. CASE x.op = "list"
    <3>1. x.op # "set_random_address" /\ baddr = addr /\ (brej <=> rej)
      BY <2>3
    <3>2. (Sent(r.hci, "set_random_address") <=> Sent(w.hci, "set_random_address")) /\ \A a : Last(w.hci, a) <=> Last(r.hci, a)
      BY <1>4, <1>10, <3>1, Zenon DEF Sends
    <3>3. Has(r.tasks, Occ("set_random_address", TRUE)) <=> Has(w.tasks, Occ("set_random_address", TRUE))
      BY <1>3, <1>7, <3>1, Zenon
    <3> QED BY <1>6, <2>1, <2>2, <3>1, <3>2, <3>3, Zenon DEF Addresses, SameManager
  <2>4. CASE x.op = "set_random_address" /\ ~b
    <3>1. brej
      BY <2>4
    <3> QED BY <1>6, <2>1, <2>2, <3>1, Zenon DEF Addresses, SameManager
  <2>5. CASE x.op = "set_random_address" /\ b
    <3>1. baddr = x.address /\ (brej <=> rej)
      BY <2>5
    <3>2. Has(r.tasks, Occ("set_random_address", TRUE))
      <4>1. b = TRUE
        BY <2>5
      <4> QED BY <1>7, <2>5, <4>1, Zenon DEF t
    <3>3. /\ Sent(w.hci, "set_random_address")
          /\ \A a : Last(w.hci, a) => Last(r.hci, a) \/ (~Sent(r.hci, "set_random_address") /\ x.address = a)
      BY <1>4, <1>10, <2>5, Zenon DEF Sends
    <3>4. \A a : Last(r.hci, a) => Sent(r.hci, "set_random_address")
      <4>1. r.hci \in Seq(Cmds)
        BY <1>4, Zenon DEF Host, Cmds
      <4> QED BY <4>1, LastSent, Zenon
    <3> QED BY <1>6, <2>1, <2>2, <3>1, <3>2, <3>3, <3>4, Zenon DEF Addresses, SameManager
  <2> QED BY <2>3, <2>4, <2>5, Zenon
<1>23. Inv(r, act, baddr, brej, X)
  BY <1>14, <1>15, <1>16, <1>17, <1>18, <1>19, <1>20, <1>21, <1>22, Zenon DEF Inv
<1> QED BY <1>4, <1>23, Zenon DEF r, t

\* The address policy becomes p: r.
Chosen(m, p, r) ==
  /\ r \in Host /\ \A c \in Clients : m.clients[c] = "NONE"
  /\ r.clients = m.clients /\ r.cached_commands = m.cached_commands /\ r.rotation_alarm = m.rotation_alarm
  /\ r.le = m.le /\ r.scan = m.scan /\ r.address_policy = p
  /\ CASE p = "PUBLIC" -> /\ r.tasks = Append(m.tasks, RS) /\ r.hci = m.hci
                          /\ r.le_address = m.le_address /\ r.cached_address = m.cached_address
       [] p = "STATIC" -> r.tasks = Append(m.tasks, EC) /\ r.hci = m.hci /\ r.le_address = r.cached_address
       [] OTHER -> r.tasks = m.tasks /\ r.hci = Append(m.hci, Cmd(r, "set_random_address"))

\* SetPrivacyPolicyForInitiatorAddress in every case.
LEMMA ChooseIs ==
  ASSUME NEW m \in Host, NEW p \in {"PUBLIC", "STATIC", "RESOLVABLE"}
  PROVE  LET r == SetPrivacyPolicyForInitiatorAddress(m, p)
         IN r \in Host /\ (r.aborted = "no" => Chosen(m, p, r))
<1> DEFINE a == [m EXCEPT !.address_policy = p]
           r == SetPrivacyPolicyForInitiatorAddress(m, p)
<1>1. a \in Host
  <2>1. p \in Settings
    BY DEF Settings
  <2> QED BY <2>1, Zenon DEF Host
<1>2. /\ a.clients = m.clients /\ a.cached_commands = m.cached_commands /\ a.rotation_alarm = m.rotation_alarm
      /\ a.le = m.le /\ a.scan = m.scan /\ a.address_policy = p /\ a.tasks = m.tasks /\ a.hci = m.hci
      /\ a.le_address = m.le_address /\ a.cached_address = m.cached_address
  BY DEF Host
<1> HIDE DEF a
<1>3. CASE registered_clients(m) # {}
  <2>1. r = Abort(m, "SetPrivacyPolicy")
    BY <1>3, Zenon DEF SetPrivacyPolicyForInitiatorAddress
  <2>2. "SetPrivacyPolicy" \in Reasons /\ "SetPrivacyPolicy" # "no"
    BY DEF Reasons
  <2> QED BY <2>1, <2>2, AbortIs, Zenon
<1>4. CASE registered_clients(m) = {}
  <2>0. \A c \in Clients : m.clients[c] = "NONE"
    BY <1>4, Zenon DEF registered_clients
  <2>1. CASE p = "PUBLIC"
    <3>1. r = Post(a, RS)
      BY <1>4, <2>1, Zenon DEF SetPrivacyPolicyForInitiatorAddress, RS, a
    <3>2. /\ r \in Host /\ SameManager(a, r) /\ r.le = a.le /\ r.scan = a.scan /\ r.hci = a.hci
          /\ r.tasks = Append(a.tasks, RS)
      <4>1. RS \in Tasks
        BY Known, Zenon
      <4> HIDE DEF r
      <4> QED BY <1>1, <3>1, <4>1, PostIs
    <3> QED BY <1>2, <2>0, <2>1, <3>2, Zenon DEF Chosen, SameManager
  <2>2. CASE p = "STATIC"
    <3> DEFINE b == [a EXCEPT !.le_address = 1, !.cached_address = 1]
    <3>1. r = Post(b, EC)
      <4>1. p # "PUBLIC"
        BY <2>2
      <4> QED BY <1>4, <2>2, <4>1, Zenon DEF SetPrivacyPolicyForInitiatorAddress, EC, a
    <3>2. b \in Host
      BY <1>1, Zenon DEF Host
    <3>3. /\ b.clients = a.clients /\ b.cached_commands = a.cached_commands /\ b.rotation_alarm = a.rotation_alarm
          /\ b.le = a.le /\ b.scan = a.scan /\ b.address_policy = a.address_policy /\ b.tasks = a.tasks /\ b.hci = a.hci
          /\ b.le_address = b.cached_address
      BY <1>1 DEF Host
    <3> HIDE DEF b
    <3>4. /\ r \in Host /\ SameManager(b, r) /\ r.le = b.le /\ r.scan = b.scan /\ r.hci = b.hci
          /\ r.tasks = Append(b.tasks, EC)
      <4>1. EC \in Tasks
        BY Known, Zenon
      <4> HIDE DEF r
      <4> QED BY <3>1, <3>2, <4>1, PostIs
    <3>5. p # "PUBLIC"
      BY <2>2
    <3>6. /\ r.clients = m.clients /\ r.cached_commands = m.cached_commands /\ r.rotation_alarm = m.rotation_alarm
          /\ r.le = m.le /\ r.scan = m.scan /\ r.address_policy = p
          /\ r.tasks = Append(m.tasks, EC) /\ r.hci = m.hci /\ r.le_address = r.cached_address
      BY <1>2, <3>3, <3>4, Zenon DEF SameManager
    <3> HIDE DEF r
    <3>7. Chosen(m, p, r)
      BY <2>0, <2>2, <3>4, <3>5, <3>6 DEF Chosen
    <3> QED BY <3>4, <3>7, Zenon DEF r
  <2>3. CASE p = "RESOLVABLE"
    <3> DEFINE b == [a EXCEPT !.cached_address = @ + 1]
    <3>1. r = EnqueueCommand(b, "set_random_address")
      <4>1. p # "PUBLIC" /\ p # "STATIC"
        BY <2>3
      <4> QED BY <1>4, <2>3, <4>1, Zenon DEF SetPrivacyPolicyForInitiatorAddress, set_random_address, a
    <3>2. b \in Host
      <4>1. a.cached_address + 1 \in Nat
        BY <1>1 DEF Host
      <4> QED BY <1>1, <4>1, Zenon DEF Host
    <3>3. /\ b.clients = a.clients /\ b.cached_commands = a.cached_commands /\ b.rotation_alarm = a.rotation_alarm
          /\ b.le = a.le /\ b.scan = a.scan /\ b.address_policy = a.address_policy /\ b.tasks = a.tasks /\ b.hci = a.hci
      BY <1>1 DEF Host
    <3> HIDE DEF b
    <3>4. /\ r \in Host /\ SameManager(b, r) /\ r.le = b.le /\ r.scan = b.scan /\ r.tasks = b.tasks
          /\ r.hci = Append(b.hci, Cmd(b, "set_random_address"))
      <4>1. "set_random_address" \in Commands
        BY DEF Commands
      <4> QED BY <3>1, <3>2, <4>1, EnqueueIs, Zenon
    <3>5. p # "PUBLIC" /\ p # "STATIC"
      BY <2>3
    <3>6. /\ r.clients = m.clients /\ r.cached_commands = m.cached_commands /\ r.rotation_alarm = m.rotation_alarm
          /\ r.le = m.le /\ r.scan = m.scan /\ r.address_policy = p
          /\ r.tasks = m.tasks /\ r.hci = Append(m.hci, Cmd(r, "set_random_address"))
      BY <1>2, <3>3, <3>4, Zenon DEF SameManager, Cmd
    <3> HIDE DEF r
    <3>7. Chosen(m, p, r)
      BY <2>0, <3>4, <3>5, <3>6 DEF Chosen
    <3> QED BY <3>4, <3>7, Zenon DEF r
  <2> QED BY <2>1, <2>2, <2>3, Zenon
<1> QED BY <1>3, <1>4, Zenon

\* SetPrivacyPolicyForInitiatorAddress keeps the invariant: no client is registered yet.
LEMMA ChooseKeeps ==
  ASSUME NEW m \in Host, NEW p \in {"PUBLIC", "STATIC", "RESOLVABLE"}, NEW r, NEW act, NEW addr, NEW rej, NEW X,
         Inv(m, act, addr, rej, X), NotSet(m), Chosen(m, p, r)
  PROVE  Inv(r, act, addr, rej, X)
<1> DEFINE S == {RS, EC}
<1>0. /\ m.tasks \in Seq(Tasks) /\ RS \in S /\ EC \in S /\ r \in Host /\ m.hci \in Seq(Cmds)
  BY Zenon DEF Host, Chosen, Cmds
<1>1. /\ \A c : AP(c) \notin S /\ AR(c) \notin S /\ UN(c) \notin S /\ RG(c) \notin S
      /\ PC \notin S /\ RS \notin LeRegs /\ EC \notin LeRegs
  BY Differ, Zenon DEF LeRegs
<1>2. \A y \in S : y \notin LeRegs
  BY <1>1, Zenon
<1> HIDE DEF S
<1>3. /\ r.clients = m.clients /\ r.cached_commands = m.cached_commands /\ r.rotation_alarm = m.rotation_alarm
      /\ r.le = m.le /\ r.scan = m.scan /\ r.address_policy = p /\ \A c \in Clients : m.clients[c] = "NONE"
  BY Zenon DEF Chosen
<1>4. p = "PUBLIC" => /\ r.tasks = Append(m.tasks, RS) /\ r.hci = m.hci
                      /\ r.le_address = m.le_address /\ r.cached_address = m.cached_address
  BY DEF Chosen
<1>5. p = "STATIC" => r.tasks = Append(m.tasks, EC) /\ r.hci = m.hci /\ r.le_address = r.cached_address
  BY DEF Chosen
<1>6. p = "RESOLVABLE" => r.tasks = m.tasks /\ r.hci = Append(m.hci, Cmd(r, "set_random_address"))
  BY DEF Chosen
<1>7. Grow(m.tasks, r.tasks, S)
  <2>1. Grow(m.tasks, Append(m.tasks, RS), S) /\ Grow(m.tasks, Append(m.tasks, EC), S)
    BY <1>0, Known, GrowOne, Zenon
  <2>2. Grow(m.tasks, m.tasks, S)
    BY Zenon DEF Grow
  <2> QED BY <1>4, <1>5, <1>6, <2>1, <2>2, Zenon
<1>8. /\ \A u : Has(m.tasks, u) => Has(r.tasks, u)
      /\ \A u : u \notin S => (Has(r.tasks, u) <=> Has(m.tasks, u))
      /\ \A u, v : v \notin S => (Before(r.tasks, u, v) <=> Before(m.tasks, u, v))
      /\ \A u : u \notin S => (Final(r.tasks, u, LeRegs) <=> Final(m.tasks, u, LeRegs))
  BY <1>2, <1>7, Zenon DEF Grow
<1>9. ~NotSet(r)
  <2>1. p # "NOT_SET"
    OBVIOUS
  <2> QED BY <1>3, <2>1, Zenon DEF NotSet
<1>10. \A c : Pauses(r, c) <=> Pauses(m, c)
  BY <1>3, Zenon DEF Pauses
<1>11. \A u, v : Before(r.tasks, u, v) => Has(r.tasks, u) /\ Has(r.tasks, v)
  BY Zenon DEF Before, Has
<1>12. \A c \in Clients \ X : Good(r, c)
  <2> TAKE c \in Clients \ X
  <2>1. Sound(m, c)
    BY Zenon DEF Inv, Good
  <2>2. m.clients[c] = "NONE"
    BY <1>3, Zenon
  <2>3. ~Has(m.tasks, AP(c))
    BY <2>1, <2>2, Zenon DEF Sound
  <2>4. ~Has(r.tasks, AP(c))
    BY <1>1, <1>8, <2>3, Zenon
  <2>5. r.clients[c] # "PAUSED"
    <3>1. "NONE" # "PAUSED"
      OBVIOUS
    <3> QED BY <1>3, <2>2, <3>1, Zenon
  <2>6. Sound(r, c)
    BY <1>11, <2>4, <2>5, Zenon DEF Sound
  <2> QED BY <2>5, <2>6, Zenon DEF Good
<1>13. Early(r)
  BY <1>9, Zenon DEF Early
<1>14. Waits(r)
  BY <1>3, <1>8, Zenon DEF Inv, Waits
<1>15. LeKnows(r)
  BY <1>1, <1>3, <1>8, Zenon DEF Inv, LeKnows
<1>16. LeSets(r)
  BY <1>3, Zenon DEF Inv, LeSets
<1>17. Rotates(r)
  <2>1. m.address_policy # "RESOLVABLE"
    BY DEF NotSet
  <2> QED BY <1>3, <2>1, Zenon DEF Inv, Rotates, Rotating
<1>18. "le" \notin X => LePauses(r)
  BY <1>1, <1>3, <1>8, Zenon DEF Inv, LePauses
<1>19. "scan" \notin X => ScanPauses(r)
  BY <1>1, <1>3, <1>8, Zenon DEF Inv, ScanPauses
<1> DEFINE x == Cmd(r, "set_random_address")
<1>20. x \in Cmds /\ x.op = "set_random_address" /\ x.address = r.cached_address
  BY <1>0 DEF Cmd, Cmds, Commands, Host
<1>21. p = "RESOLVABLE" => Sent(r.hci, "set_random_address") /\ Last(r.hci, r.cached_address)
  <2> HIDE DEF x
  <2>1. Sent(Append(m.hci, x), "set_random_address") /\ Last(Append(m.hci, x), x.address)
    BY <1>0, <1>20, HciAppend
  <2> QED BY <1>6, <1>20, <2>1, Zenon DEF x
<1>22. SameScan(m.hci, r.hci) /\ \A o \in ScanOps : Sent(r.hci, o) <=> Sent(m.hci, o)
  <2>1. CASE p = "RESOLVABLE"
    <3> HIDE DEF x
    <3>1. /\ \A op : Sent(Append(m.hci, x), op) <=> Sent(m.hci, op) \/ x.op = op
          /\ On(Append(m.hci, x)) <=> x.op = "scan_on" \/ (On(m.hci) /\ x.op # "scan_off")
          /\ Off(Append(m.hci, x)) <=> x.op = "scan_off" \/ (Off(m.hci) /\ x.op # "scan_on")
      BY <1>0, <1>20, HciAppend
    <3>2. x.op \notin ScanOps /\ x.op # "scan_on" /\ x.op # "scan_off"
      BY <1>20 DEF ScanOps
    <3> QED BY <1>6, <2>1, <3>1, <3>2, Zenon DEF x, SameScan
  <2>2. CASE p # "RESOLVABLE"
    <3>1. r.hci = m.hci
      BY <1>4, <1>5, <2>2
    <3> QED BY <3>1, Zenon DEF SameScan
  <2> QED BY <2>1, <2>2, Zenon
<1>23. Scans(r, act)
  BY <1>3, <1>22, Zenon DEF Inv, Scans, SameScan
<1>24. Addresses(r, addr, rej)
  <2>1. Addresses(m, addr, rej) /\ Early(m)
    BY Zenon DEF Inv
  <2>2. /\ ~Has(m.tasks, EC) /\ ~Sent(m.hci, "set_random_address")
        /\ ~Has(m.tasks, Occ("set_random_address", TRUE))
    BY <2>1, Zenon DEF Early, Answered
  <2>3. ~rej => m.le_address = m.cached_address /\ addr = m.cached_address
    BY <2>1, <2>2, Zenon DEF Addresses
  <2>4. CASE p = "PUBLIC"
    <3>1. ~Has(r.tasks, EC)
      <4>1. \A u : Has(Append(m.tasks, RS), u) <=> Has(m.tasks, u) \/ RS = u
        <5>1. m.tasks \in Seq(Tasks) /\ RS \in Tasks
          BY <1>0, Known, Zenon
        <5> QED BY <5>1, AppendHas, ZenonT(30)
      <4> QED BY <1>4, <2>2, <2>4, <4>1, Differ, Zenon
    <3>2. p # "STATIC"
      BY <2>4
    <3> QED BY <1>3, <1>4, <2>2, <2>3, <2>4, <3>1, <3>2, Zenon DEF Addresses
  <2>5. CASE p = "STATIC"
    <3>1. Has(r.tasks, EC)
      BY <1>0, <1>5, <2>5, Known, GrowOne, Zenon
    <3> QED BY <1>3, <1>5, <2>2, <2>5, <3>1, Zenon DEF Addresses
  <2>6. CASE p = "RESOLVABLE"
    <3>1. ~Has(r.tasks, EC)
      BY <1>6, <2>2, <2>6, Zenon
    <3>2. p # "STATIC"
      BY <2>6
    <3> QED BY <1>3, <1>21, <2>6, <3>1, <3>2, Zenon DEF Addresses
  <2> QED BY <2>4, <2>5, <2>6, Zenon
<1> QED BY <1>12, <1>13, <1>14, <1>15, <1>16, <1>17, <1>18, <1>19, <1>23, <1>24, Zenon DEF Inv

\* The task ack_pause keeps the invariant, with the command that it may send.
LEMMA AckPauseRuns ==
  ASSUME NEW w \in Host, NEW k \in Clients, NEW m, NEW act, NEW addr, NEW rej, NEW X,
         Inv(w, act, addr, rej, X), Dropped(w, AP(k), m)
  PROVE  LET r == ack_pause(m, k)
         IN r \in Host /\ (r.aborted = "no" => Inv(r, act, addr, rej, X))
<1> DEFINE a == [m EXCEPT !.clients[k] = "PAUSED"]
           r == ack_pause(m, k)
<1>0. m \in Host /\ "PAUSED" \in States
  BY Zenon DEF Dropped, States
<1>1. CASE m.clients[k] = "NONE"
  <2>1. r = Abort(m, "ack_pause")
    BY <1>1, Zenon DEF ack_pause
  <2>2. "ack_pause" \in Reasons /\ "ack_pause" # "no"
    BY DEF Reasons
  <2> QED BY <1>0, <2>1, <2>2, AbortIs, Zenon
<1>2. CASE m.clients[k] # "NONE"
  <2>1. Marked(m, k, "PAUSED", a)
    BY <1>0, MarkIs, Zenon
  <2> HIDE DEF a
  <2>2. a \in Host /\ Inv(a, act, addr, rej, X)
    BY <1>2, <2>1, AckPauseKeeps, Zenon DEF Marked
  <2>3. NotSet(m) <=> NotSet(a)
    BY <2>1, Zenon DEF NotSet, Marked, SameCommands
  <2>4. r = a \/ (r = handle_next_command(a) /\ ~NotSet(a))
    BY <1>2, <2>3, Zenon DEF ack_pause, a, NotSet
  <2>5. handle_next_command(a) \in Host
    BY <2>2, PopIs, Zenon
  <2> HIDE DEF r
  <2>6. r \in Host /\ (r.aborted = "no" => Inv(r, act, addr, rej, X))
    BY <2>2, <2>4, <2>5, HandleKeeps, Zenon
  <2> QED BY <2>6, Zenon DEF r
<1> QED BY <1>1, <1>2, Zenon

\* The task ack_resume keeps the invariant.
LEMMA AckResumeRuns ==
  ASSUME NEW w \in Host, NEW k \in Clients, NEW m, NEW act, NEW addr, NEW rej, NEW X,
         Inv(w, act, addr, rej, X), Dropped(w, AR(k), m)
  PROVE  LET r == ack_resume(m, k)
         IN r \in Host /\ (r.aborted = "no" => Inv(r, act, addr, rej, X))
<1> DEFINE a == [m EXCEPT !.clients[k] = "RESUMED"]
           r == ack_resume(m, k)
<1>0. m \in Host /\ "RESUMED" \in States
  BY Zenon DEF Dropped, States
<1>1. CASE m.clients[k] = "NONE"
  <2>1. r = Abort(m, "ack_resume")
    BY <1>1, Zenon DEF ack_resume
  <2>2. "ack_resume" \in Reasons /\ "ack_resume" # "no"
    BY DEF Reasons
  <2> QED BY <1>0, <2>1, <2>2, AbortIs, Zenon
<1>2. CASE m.clients[k] # "NONE"
  <2>1. Marked(m, k, "RESUMED", a)
    BY <1>0, MarkIs, Zenon
  <2> HIDE DEF a
  <2>2. a \in Host /\ Inv(a, act, addr, rej, X)
    BY <1>2, <2>1, AckResumeKeeps, Zenon DEF Marked
  <2>3. r = a
    BY <1>2, Zenon DEF ack_resume, a
  <2> QED BY <2>2, <2>3, Zenon
<1> QED BY <1>1, <1>2, Zenon

\* A task is known by the function it runs.
LEMMA TaskIs ==
  ASSUME NEW t \in Tasks
  PROVE  /\ t.run = "register_client" => t.arg \in Clients /\ t = RG(t.arg)
         /\ t.run = "unregister_client" => t.arg \in Clients /\ t = UN(t.arg)
         /\ t.run = "ack_pause" => t.arg \in Clients /\ t = AP(t.arg)
         /\ t.run = "ack_resume" => t.arg \in Clients /\ t = AR(t.arg)
         /\ t.run = "push_command" => t.arg = "list" /\ t = PC
         /\ t.run = "resume_registered_clients" => t = RS
         /\ t.run = "handle_next_command" => t = HN
         /\ t.run = "enqueue_command" => t = EC
<1>1. CASE t \in [run : {"register_client", "unregister_client", "ack_pause", "ack_resume"}, arg : Clients]
  BY <1>1 DEF RG, UN, AP, AR, Task
<1>2. CASE t \in [run : {"push_command"}, arg : {"list"}]
  BY <1>2 DEF PC, Task
<1>3. CASE t \in [run : {"resume_registered_clients", "handle_next_command", "enqueue_command"}, arg : {"none"}]
  BY <1>3 DEF RS, HN, EC, Task
<1>4. CASE t \in [run : {"OnCommandComplete"}, arg : [op : {"list", "set_random_address"}, success : BOOLEAN]]
  BY <1>4
<1>5. CASE t \in [run : {"on_le_connection_complete"}, arg : [status : Statuses, peer : Peers]]
  BY <1>5
<1> QED BY <1>1, <1>2, <1>3, <1>4, <1>5, Zenon DEF Tasks

\* The same for the tasks of events.
LEMMA EventIs ==
  ASSUME NEW t \in Tasks
  PROVE  /\ t.run = "OnCommandComplete" =>
              \E op \in {"list", "set_random_address"}, b \in BOOLEAN :
                t = Occ(op, b) /\ t.arg = [op |-> op, success |-> b]
         /\ t.run = "on_le_connection_complete" =>
              \E st \in Statuses, d \in Peers : t = Occurs(st, d) /\ t.arg = [status |-> st, peer |-> d]
<1>1. CASE t.run = "OnCommandComplete"
  <2>1. t \in [run : {"OnCommandComplete"}, arg : [op : {"list", "set_random_address"}, success : BOOLEAN]]
    BY <1>1 DEF Tasks
  <2>2. t.arg.op \in {"list", "set_random_address"} /\ t.arg.success \in BOOLEAN
    BY <2>1
  <2>3. t.arg = [op |-> t.arg.op, success |-> t.arg.success]
    BY <2>1
  <2>4. t = [run |-> "OnCommandComplete", arg |-> t.arg]
    BY <2>1
  <2>5. t = Occ(t.arg.op, t.arg.success)
    BY <2>3, <2>4, Zenon DEF Occ, Task
  <2>6. t.run # "on_le_connection_complete"
    BY <1>1
  <2> QED BY <2>2, <2>3, <2>5, <2>6, Zenon
<1>2. CASE t.run = "on_le_connection_complete"
  <2>1. t \in [run : {"on_le_connection_complete"}, arg : [status : Statuses, peer : Peers]]
    BY <1>2 DEF Tasks
  <2>2. t.arg.status \in Statuses /\ t.arg.peer \in Peers
    BY <2>1
  <2>3. t.arg = [status |-> t.arg.status, peer |-> t.arg.peer]
    BY <2>1
  <2>4. t = [run |-> "on_le_connection_complete", arg |-> t.arg]
    BY <2>1
  <2>5. t = Occurs(t.arg.status, t.arg.peer)
    BY <2>3, <2>4, Zenon DEF Occurs, Task
  <2>6. t.run # "OnCommandComplete"
    BY <1>2
  <2> QED BY <2>2, <2>3, <2>5, <2>6, Zenon
<1> QED BY <1>1, <1>2, Zenon

\* The inductive invariant: the types of the host, and Inv while the stack runs.
IInv == s \in Host /\ (Running => Inv(s, active, address, rejected, crossed))

\* The invariant holds initially.
LEMMA InitInv == Init => IInv
<1> SUFFICES ASSUME Init PROVE IInv
  OBVIOUS
<1>1. PICK gd \in gd_acl, f \in BOOLEAN :
       s = [gd_acl |-> gd, le_first |-> f, address_policy |-> "NOT_SET",
            clients |-> [c \in Clients |-> "NONE"], cached_commands |-> << >>,
            rotation_alarm |-> FALSE, le_address |-> 0, cached_address |-> 0,
            le |-> le_impl, scan |-> scanner,
            tasks |-> << >>, hci |-> << >>, aborted |-> "no"]
  BY Zenon DEF Init
<1>2. gd \in BOOLEAN
  BY AddressAssumption
<1>3. le_impl \in LeImpl /\ scanner \in Scanner
  BY DEF le_impl, scanner, LeImpl, Scanner
<1>4. [c \in Clients |-> "NONE"] \in [Clients -> States] /\ "NOT_SET" \in Settings /\ "no" \in Reasons
  BY DEF States, Settings, Reasons
<1>5. /\ << >> \in Seq({"list", "rotate"}) /\ << >> \in Seq(Tasks)
      /\ << >> \in Seq([op : Commands, address : Nat]) /\ 0 \in Nat
  OBVIOUS
<1>6. s \in Host
  BY <1>1, <1>2, <1>3, <1>4, <1>5, Zenon DEF Host
<1>7. /\ s.address_policy = "NOT_SET" /\ s.clients = [c \in Clients |-> "NONE"] /\ s.cached_commands = << >>
      /\ s.rotation_alarm = FALSE /\ s.le_address = 0 /\ s.cached_address = 0
      /\ s.le = le_impl /\ s.scan = scanner /\ s.tasks = << >> /\ s.hci = << >>
  BY <1>1
<1>8. \A c \in Clients : s.clients[c] = "NONE"
  BY <1>7, Zenon
<1>9. 1..Len(s.tasks) = {} /\ 1..Len(s.hci) = {} /\ 1..Len(s.cached_commands) = {} /\ 1..Len(Ops(s.hci)) = {}
  BY <1>7 DEF Ops
<1>10. /\ \A u : ~Has(s.tasks, u) /\ ~Has(s.cached_commands, u) /\ ~Sent(s.hci, u)
       /\ \A u, v : ~Before(s.tasks, u, v)
       /\ \A u, T : ~Final(s.tasks, u, T) /\ ~Final(Ops(s.hci), u, T) /\ ~Final(s.hci, u, T)
  BY <1>9, Zenon DEF Has, Before, Final, Sent
<1>11. \A op : ~Answered(s.tasks, op)
  BY <1>10, Zenon DEF Answered
<1>12. /\ s.le.registered = FALSE /\ s.le.pause = FALSE /\ s.le.connecting = {} /\ s.le.canceled = {}
       /\ s.scan.registered = FALSE /\ s.scan.is_scanning = FALSE
  BY <1>7 DEF le_impl, scanner
<1>13. "NONE" # "PAUSED" /\ "NONE" # "WAITING_FOR_PAUSE" /\ "NONE" # "WAITING_FOR_RESUME" /\ "NOT_SET" # "STATIC"
  OBVIOUS
<1>14. \A c \in Clients : Good(s, c)
  BY <1>8, <1>10, <1>13, Zenon DEF Good, Sound
<1>15. Early(s)
  BY <1>7, <1>10, <1>11, Zenon DEF Early
<1>16. Waits(s)
  BY <1>8, <1>13, Zenon DEF Waits
<1>17. Rotates(s) /\ LeSets(s)
  BY <1>7, <1>10, <1>12, Zenon DEF Rotates, LeSets
<1>18. LeKnows(s)
  BY <1>8, <1>10, <1>12, CountedAre, Zenon DEF LeKnows
<1>19. LePauses(s) /\ ScanPauses(s)
  BY <1>10, <1>12, Zenon DEF LePauses, ScanPauses
<1>20. Scans(s, active)
  <2>1. "scan" \notin active
    BY DEF Init
  <2> QED BY <1>10, <1>12, <2>1, Zenon DEF Scans, On, Off
<1>21. Addresses(s, address, rejected)
  <2>1. address = s.cached_address /\ s.le_address = s.cached_address
    BY <1>7, Zenon DEF Init
  <2> QED BY <1>10, <2>1, Zenon DEF Addresses
<1>22. Inv(s, active, address, rejected, crossed)
  BY <1>14, <1>15, <1>16, <1>17, <1>18, <1>19, <1>20, <1>21, Zenon DEF Inv
<1> QED BY <1>6, <1>22, Zenon DEF IInv

\* RunTask keeps the invariant: one case for each function that a task may run.
LEMMA TaskKeeps == IInv /\ RunTask => IInv'
<1> SUFFICES ASSUME IInv, RunTask PROVE IInv'
  OBVIOUS
<1> DEFINE t == Head(s.tasks)
           m == [s EXCEPT !.tasks = Tail(@)]
<1>1. s \in Host /\ s.tasks # << >> /\ Inv(s, active, address, rejected, crossed) /\ s.tasks \in Seq(Tasks)
  BY Zenon DEF IInv, RunTask, Host
<1>2. Dropped(s, t, m)
  BY <1>1, DropIs, Zenon
<1>3. active' = active /\ address' = address /\ rejected' = rejected
  BY Zenon DEF RunTask, Quiet
<1>4. t \in Tasks /\ t = s.tasks[1]
  BY <1>1, Taken
<1>5. t.run # "unregister_client" => crossed' = crossed
  <2>1. t.run # "unregister_client" => \A c : ~Erases(c)
    BY <1>4, Zenon DEF Erases
  <2>2. crossed' = crossed \cup {c \in Clients : Erases(c) /\ Acknowledging(c)}
    BY Zenon DEF RunTask
  <2> QED BY <2>1, <2>2
<1>6. \/ t.run = "register_client" /\ s' = register_client(m, t.arg)
      \/ t.run = "unregister_client" /\ s' = unregister_client(m, t.arg)
      \/ t.run = "ack_pause" /\ s' = ack_pause(m, t.arg)
      \/ t.run = "ack_resume" /\ s' = ack_resume(m, t.arg)
      \/ t.run = "push_command" /\ s' = push_command(m, t.arg)
      \/ t.run = "resume_registered_clients" /\ s' = resume_registered_clients(m)
      \/ t.run = "handle_next_command" /\ s' = handle_next_command(m)
      \/ t.run = "enqueue_command" /\ s' = EnqueueCommand(m, "set_random_address")
      \/ t.run = "OnCommandComplete" /\ s' = OnCommandComplete(m, t.arg)
      \/ t.run = "on_le_connection_complete" /\ s' = on_le_connection_complete(m, t.arg)
  BY Zenon DEF RunTask
<1> HIDE DEF t, m
<1> SUFFICES s' \in Host /\ (s'.aborted = "no" => Inv(s', active, address, rejected, crossed'))
  BY <1>3, Zenon DEF IInv, Running
<1>7. CASE t.run = "register_client" /\ s' = register_client(m, t.arg)
  <2>1. t.arg \in Clients /\ Dropped(s, RG(t.arg), m)
    BY <1>2, <1>4, <1>7, TaskIs, Zenon
  <2>2. t.run # "unregister_client"
    BY <1>7
  <2> QED BY <1>1, <1>5, <1>7, <2>1, <2>2, RegisterKeeps, Zenon
<1>8. CASE t.run = "unregister_client" /\ s' = unregister_client(m, t.arg)
  <2>1. t.arg \in Clients /\ Dropped(s, UN(t.arg), m)
    BY <1>2, <1>4, <1>8, TaskIs, Zenon
  <2>2. Has(m.tasks, AP(t.arg)) => Acknowledging(t.arg)
    <3> SUFFICES ASSUME Has(m.tasks, AP(t.arg)) PROVE Acknowledging(t.arg)
      OBVIOUS
    <3>1. Has(s.tasks, AP(t.arg))
      BY <1>2, Zenon DEF Dropped
    <3>2. PICK i \in 1..Len(s.tasks) : s.tasks[i] = AP(t.arg)
      BY <3>1, Zenon DEF Has
    <3>3. i \in DOMAIN s.tasks
      BY <1>1
    <3>4. s.tasks[i].run = "ack_pause" /\ s.tasks[i].arg = t.arg
      BY <3>2 DEF AP, Task
    <3> QED BY <3>3, <3>4, Zenon DEF Acknowledging
  <2>3. Erases(t.arg)
    BY <1>4, <1>8, Zenon DEF Erases
  <2>4. crossed \subseteq crossed' /\ (Has(m.tasks, AP(t.arg)) => t.arg \in crossed')
    <3>1. crossed' = crossed \cup {c \in Clients : Erases(c) /\ Acknowledging(c)}
      BY Zenon DEF RunTask
    <3> QED BY <2>1, <2>2, <2>3, <3>1, Zenon
  <2> QED BY <1>1, <1>8, <2>1, <2>4, UnregisterKeeps, Zenon
<1>9. CASE t.run = "ack_pause" /\ s' = ack_pause(m, t.arg)
  <2>1. t.arg \in Clients /\ Dropped(s, AP(t.arg), m)
    BY <1>2, <1>4, <1>9, TaskIs, Zenon
  <2>2. t.run # "unregister_client"
    BY <1>9
  <2> QED BY <1>1, <1>5, <1>9, <2>1, <2>2, AckPauseRuns, Zenon
<1>10. CASE t.run = "ack_resume" /\ s' = ack_resume(m, t.arg)
  <2>1. t.arg \in Clients /\ Dropped(s, AR(t.arg), m)
    BY <1>2, <1>4, <1>10, TaskIs, Zenon
  <2>2. t.run # "unregister_client"
    BY <1>10
  <2> QED BY <1>1, <1>5, <1>10, <2>1, <2>2, AckResumeRuns, Zenon
<1>11. CASE t.run = "push_command" /\ s' = push_command(m, t.arg)
  <2>1. t.arg = "list" /\ Dropped(s, PC, m)
    BY <1>2, <1>4, <1>11, TaskIs, Zenon
  <2>2. t.run # "unregister_client"
    BY <1>11
  <2> QED BY <1>1, <1>5, <1>11, <2>1, <2>2, PushKeeps, Zenon
<1>12. CASE t.run = "resume_registered_clients" /\ s' = resume_registered_clients(m)
  <2>1. Dropped(s, RS, m)
    BY <1>2, <1>4, <1>12, TaskIs, Zenon
  <2>2. t.run # "unregister_client"
    BY <1>12
  <2> QED BY <1>1, <1>5, <1>12, <2>1, <2>2, ResumeKeeps, Zenon
<1>13. CASE t.run = "handle_next_command" /\ s' = handle_next_command(m)
  <2>1. Dropped(s, HN, m)
    BY <1>2, <1>4, <1>13, TaskIs, Zenon
  <2>2. t.run # "unregister_client"
    BY <1>13
  <2> QED BY <1>1, <1>5, <1>13, <2>1, <2>2, NextKeeps, Zenon
<1>14. CASE t.run = "enqueue_command" /\ s' = EnqueueCommand(m, "set_random_address")
  <2>1. Dropped(s, EC, m)
    BY <1>2, <1>4, <1>14, TaskIs, Zenon
  <2>2. t.run # "unregister_client"
    BY <1>14
  <2> QED BY <1>1, <1>5, <1>14, <2>1, <2>2, EnqueueKeeps, Zenon
<1>15. CASE t.run = "OnCommandComplete" /\ s' = OnCommandComplete(m, t.arg)
  <2>1. PICK op \in {"list", "set_random_address"}, b \in BOOLEAN :
          t = Occ(op, b) /\ t.arg = [op |-> op, success |-> b]
    BY <1>4, <1>15, EventIs, Zenon
  <2>2. t.run # "unregister_client"
    BY <1>15
  <2>3. m \in Host
    BY <1>2, Zenon DEF Dropped
  <2>4. Answers(m, op, b, s')
    BY <1>15, <2>1, <2>3, AnswerIs, Zenon
  <2>5. Dropped(s, Occ(op, b), m)
    BY <1>2, <2>1, Zenon
  <2>6. s' \in Host /\ Inv(s', active, address, rejected, crossed)
    BY <1>1, <2>4, <2>5, AnswerKeeps
  <2> QED BY <1>5, <2>2, <2>6, Zenon
<1>16. CASE t.run = "on_le_connection_complete" /\ s' = on_le_connection_complete(m, t.arg)
  <2>1. PICK st \in Statuses, d \in Peers : t = Occurs(st, d) /\ t.arg = [status |-> st, peer |-> d]
    BY <1>4, <1>16, EventIs, Zenon
  <2>2. t.run # "unregister_client"
    BY <1>16
  <2>3. Dropped(s, Occurs(st, d), m)
    BY <1>2, <2>1, Zenon
  <2>4. s' = on_le_connection_complete(m, [status |-> st, peer |-> d])
    BY <1>16, <2>1, Zenon
  <2> QED BY <1>1, <1>5, <2>2, <2>3, <2>4, ConnectionKeeps, Zenon
<1> QED BY <1>6, <1>7, <1>8, <1>9, <1>10, <1>11, <1>12, <1>13, <1>14, <1>15, <1>16, Zenon

\* The other steps: the calls of the clients, the alarm, the controller.
LEMMA StepKeeps == IInv /\ [Next]_vars => IInv'
<1> SUFFICES ASSUME IInv, [Next]_vars PROVE IInv'
  OBVIOUS
<1>0. s \in Host /\ (Running => Inv(s, active, address, rejected, crossed))
  BY Zenon DEF IInv
<1>1. CASE SetPolicy
  <2>1. PICK p \in Policies : s' = SetPrivacyPolicyForInitiatorAddress(s, p)
    BY <1>1, Zenon DEF SetPolicy
  <2>2. p \in {"PUBLIC", "STATIC", "RESOLVABLE"}
    BY AddressAssumption, Zenon
  <2>3. Running /\ NotSet(s) /\ active' = active /\ address' = address /\ rejected' = rejected /\ crossed' = crossed
    BY <1>1, Zenon DEF SetPolicy, Quiet, NotSet
  <2>4. s' \in Host /\ (s'.aborted = "no" => Chosen(s, p, s'))
    BY <1>0, <2>1, <2>2, ChooseIs
  <2>5. Chosen(s, p, s') => Inv(s', active, address, rejected, crossed)
    BY <1>0, <2>2, <2>3, ChooseKeeps
  <2> QED BY <2>3, <2>4, <2>5, Zenon DEF IInv, Running
<1>2. ASSUME NEW r, Called(r), Running => r \in Host /\ Inv(r, active, address, rejected, crossed)
      PROVE  IInv'
  <2>1. Running /\ s' = r /\ active' = active /\ address' = address /\ rejected' = rejected /\ crossed' = crossed
    BY <1>2, Zenon DEF Called, Quiet
  <2> QED BY <1>2, <2>1, Zenon DEF IInv
<1>3. CASE CreateLeConnection
  <2>1. PICK d \in Devices : Called(create_le_connection(s, d, TRUE))
    BY <1>3, Zenon DEF CreateLeConnection
  <2> DEFINE r == create_le_connection(s, d, TRUE)
  <2>2. /\ r \in Host /\ SameManager(s, r) /\ r.hci = s.hci /\ r.scan = s.scan
        /\ r.tasks = add_device_to_list(s).tasks /\ r.le.pause = TRUE /\ r.le.registered = TRUE
    BY <1>0, CreateIs, Zenon
  <2>3. add_device_to_list(s).tasks = IF s.le.registered THEN Append(s.tasks, PC) ELSE Append(Append(s.tasks, RG("le")), PC)
    BY <1>0, AddIs, Zenon
  <2> HIDE DEF r
  <2>4. Listed(s, r)
    BY <2>2, <2>3, Zenon DEF Listed
  <2>5. Running => Inv(r, active, address, rejected, crossed)
    BY <1>0, <2>4, ListKeeps, Zenon
  <2> QED BY <1>2, <2>1, <2>2, <2>5, Zenon DEF r
<1>4. CASE AddDevice \/ RemoveDevice
  <2> DEFINE r == add_device_to_list(s)
  <2>1. Called(r)
    BY <1>4, Zenon DEF AddDevice, RemoveDevice, add_device_to_list, remove_device_from_list
  <2>2. Listed(s, r)
    BY <1>0, AddIs, Zenon DEF Listed
  <2> HIDE DEF r
  <2>3. r \in Host /\ (Running => Inv(r, active, address, rejected, crossed))
    BY <1>0, <2>2, ListKeeps, Zenon DEF Listed
  <2> QED BY <1>2, <2>1, <2>3, Zenon
<1>5. CASE Scan
  <2>1. PICK start \in BOOLEAN : Called(scan(s, start))
    BY <1>5, Zenon DEF Scan
  <2> DEFINE r == scan(s, start)
  <2>2. Scanned(s, start, r)
    BY <1>0, ScanIs, Zenon
  <2> HIDE DEF r
  <2>3. r \in Host /\ (Running => Inv(r, active, address, rejected, crossed))
    BY <1>0, <2>2, ScanKeeps, Zenon DEF Scanned
  <2> QED BY <1>2, <2>1, <2>3, Zenon DEF r
<1>6. CASE on_le_disconnect
  <2>1. PICK d \in s.le.connections : Called([s EXCEPT !.le.connections = @ \ {d}])
    BY <1>6, Zenon DEF on_le_disconnect
  <2> DEFINE r == [s EXCEPT !.le.connections = @ \ {d}]
  <2>2. s.le \in LeImpl
    BY <1>0, Zenon DEF Host
  <2>3. [s.le EXCEPT !.connections = @ \ {d}] \in LeImpl
    BY <2>2 DEF LeImpl
  <2>4. r \in Host
    BY <1>0, <2>3, Zenon DEF Host
  <2>5. /\ SameManager(s, r) /\ r.tasks = s.tasks /\ r.hci = s.hci /\ r.scan = s.scan
        /\ r.le.pause = s.le.pause /\ r.le.registered = s.le.registered
        /\ r.le.connecting = s.le.connecting /\ r.le.canceled = s.le.canceled
    BY <1>0, <2>2 DEF Host, LeImpl, SameManager
  <2> HIDE DEF r
  <2>6. /\ SameTasks(s.tasks, r.tasks)
        /\ r.le.connecting \subseteq s.le.connecting /\ r.le.canceled \subseteq s.le.canceled
    BY <2>5, SameRefl, Zenon
  <2>7. Running => Inv(r, active, address, rejected, crossed)
    BY <1>0, <2>4, <2>5, <2>6, SameKeeps, Zenon
  <2> QED BY <1>2, <2>1, <2>4, <2>7, Zenon DEF r
<1>7. CASE RotationAlarm
  <2> DEFINE a == [s EXCEPT !.rotation_alarm = FALSE]
             r == prepare_to_rotate(a)
  <2>1. Running /\ Called(r) /\ s.rotation_alarm
    BY <1>7, Zenon DEF RotationAlarm, Called
  <2>2. a \in Host /\ Inv(a, active, address, rejected, crossed)
    BY <1>0, <2>1, AlarmKeeps, Zenon
  <2>3. Rotating(s)
    BY <1>0, <2>1, Zenon DEF Inv, Rotates
  <2>4. Rotating(a)
    BY <1>0, <2>3 DEF Rotating, Host
  <2> HIDE DEF a
  <2>5. r \in Host /\ Inv(r, active, address, rejected, crossed)
    BY <2>2, <2>4, PrepareKeeps, Zenon
  <2> QED BY <1>2, <2>1, <2>5, Zenon
<1>8. CASE RunTask
  BY <1>8, TaskKeeps, Zenon
<1>9. CASE ControllerRuns
  <2> DEFINE x == Head(s.hci)
             m == [s EXCEPT !.hci = Tail(@)]
  <2>1. Running /\ s.hci # << >> /\ crossed' = crossed /\ Inv(s, active, address, rejected, crossed)
    BY <1>0, <1>9, Zenon DEF ControllerRuns
  <2>2. Sends(s, x, m)
    BY <1>0, <2>1, SendIs, Zenon
  <2>3. \/ /\ x.op \in {"list", "set_random_address"}
           /\ s' = Post(m, Task("OnCommandComplete", [op |-> x.op, success |-> ~Rejected(x.op)]))
           /\ address' = IF x.op = "list" \/ Rejected(x.op) THEN address ELSE x.address
           /\ rejected' = (rejected \/ (x.op # "list" /\ Rejected(x.op)))
           /\ UNCHANGED active
        \/ /\ x.op \in {"scan_on", "scan_off", "create_connection"}
           /\ active' = CASE x.op = "scan_on" -> active \cup {"scan"}
                          [] x.op = "scan_off" -> active \ {"scan"}
                          [] OTHER -> active \cup {"connect"}
           /\ s' = m /\ UNCHANGED <<address, rejected>>
        \/ /\ x.op = "cancel_connection"
           /\ s' = IF "connect" \notin active THEN m
                   ELSE Post(m, Task("on_le_connection_complete",
                                     [status |-> "UNKNOWN_CONNECTION", peer |-> NoPeer]))
           /\ active' = active \ {"connect"} /\ UNCHANGED <<address, rejected>>
    BY <1>9, Zenon DEF ControllerRuns
  <2>4. "scan" # "connect"
    OBVIOUS
  <2> HIDE DEF x, m
  <2>5. CASE /\ x.op \in {"list", "set_random_address"}
             /\ s' = Post(m, Task("OnCommandComplete", [op |-> x.op, success |-> ~Rejected(x.op)]))
             /\ address' = IF x.op = "list" \/ Rejected(x.op) THEN address ELSE x.address
             /\ rejected' = (rejected \/ (x.op # "list" /\ Rejected(x.op)))
             /\ UNCHANGED active
    <3> DEFINE b == ~Rejected(x.op)
    <3>1. s' = Post(m, Occ(x.op, b)) /\ active' = active /\ b \in BOOLEAN
      BY <2>5, Zenon DEF Occ
    <3>2. address' = IF x.op = "list" \/ ~b THEN address ELSE x.address
      BY <2>5, Zenon
    <3>3. rejected' <=> (rejected \/ (x.op # "list" /\ ~b))
      BY <2>5, Zenon
    <3> HIDE DEF b
    <3>4. Post(m, Occ(x.op, b)) \in Host /\ Inv(Post(m, Occ(x.op, b)), active, address', rejected', crossed)
      BY <1>0, <2>1, <2>2, <2>5, <3>1, <3>2, <3>3, CompleteKeeps, Zenon
    <3> QED BY <2>1, <3>1, <3>4, Zenon DEF IInv
  <2>6. CASE /\ x.op \in {"scan_on", "scan_off", "create_connection"}
             /\ active' = CASE x.op = "scan_on" -> active \cup {"scan"}
                            [] x.op = "scan_off" -> active \ {"scan"}
                            [] OTHER -> active \cup {"connect"}
             /\ s' = m /\ UNCHANGED <<address, rejected>>
    <3>1. x.op \in {"scan_on", "scan_off", "create_connection", "cancel_connection"}
      BY <2>6
    <3>2. x.op = "scan_on" => "scan" \in active'
      BY <2>6
    <3>3. x.op = "scan_off" => "scan" \notin active'
      BY <2>6
    <3>4. x.op \notin ScanOps => ("scan" \in active' <=> "scan" \in active)
      BY <2>4, <2>6 DEF ScanOps
    <3>5. m \in Host /\ Inv(m, active', address, rejected, crossed)
      BY <1>0, <2>1, <2>2, <3>1, <3>2, <3>3, <3>4, RadioKeeps, Zenon
    <3>6. s' = m /\ address' = address /\ rejected' = rejected
      BY <2>6, Zenon
    <3> QED BY <2>1, <3>5, <3>6, Zenon DEF IInv
  <2>7. CASE /\ x.op = "cancel_connection"
             /\ s' = IF "connect" \notin active THEN m
                     ELSE Post(m, Task("on_le_connection_complete",
                                       [status |-> "UNKNOWN_CONNECTION", peer |-> NoPeer]))
             /\ active' = active \ {"connect"} /\ UNCHANGED <<address, rejected>>
    <3>1. /\ x.op \in {"scan_on", "scan_off", "create_connection", "cancel_connection"}
          /\ x.op # "scan_on" /\ x.op # "scan_off"
      BY <2>7
    <3>2. "scan" \in active' <=> "scan" \in active
      BY <2>4, <2>7
    <3>3. m \in Host /\ Inv(m, active', address, rejected, crossed)
      BY <1>0, <2>1, <2>2, <3>1, <3>2, RadioKeeps, Zenon
    <3>4. "UNKNOWN_CONNECTION" \in Statuses /\ NoPeer \in Peers
      BY Zenon DEF Statuses, Peers
    <3> DEFINE n == Post(m, Occurs("UNKNOWN_CONNECTION", NoPeer))
    <3>5. n \in Host /\ Inv(n, active', address, rejected, crossed)
      BY <3>3, <3>4, EventKeeps, Zenon
    <3>6. s' = m \/ s' = n
      BY <2>7, Zenon DEF Occurs
    <3>7. address' = address /\ rejected' = rejected
      BY <2>7, Zenon
    <3> HIDE DEF n
    <3> QED BY <2>1, <3>3, <3>5, <3>6, <3>7, Zenon DEF IInv
  <2> QED BY <2>3, <2>5, <2>6, <2>7, Zenon
<1>10. CASE Connected
  <2>1. PICK d \in Devices, st \in {"SUCCESS", "CONNECTION_FAILED_ESTABLISHMENT"} :
          s' = Post(s, Task("on_le_connection_complete", [status |-> st, peer |-> d]))
    BY <1>10, Zenon DEF Connected
  <2>2. d \in Peers /\ st \in Statuses
    BY DEF Peers, Statuses
  <2>3. Running /\ active' = active \ {"connect"} /\ address' = address /\ rejected' = rejected /\ crossed' = crossed
    BY <1>10, Zenon DEF Connected
  <2>4. "scan" \in active' <=> "scan" \in active
    BY <2>3
  <2>5. s' = Post(s, Occurs(st, d))
    BY <2>1, Zenon DEF Occurs
  <2>6. Post(s, Occurs(st, d)) \in Host /\ Inv(Post(s, Occurs(st, d)), active', address, rejected, crossed)
    BY <1>0, <2>2, <2>3, <2>4, EventKeeps
  <2> QED BY <2>3, <2>5, <2>6, Zenon DEF IInv
<1>11. CASE UNCHANGED vars
  <2>1. s' = s /\ active' = active /\ address' = address /\ rejected' = rejected /\ crossed' = crossed
    BY <1>11, Zenon DEF vars
  <2> QED BY <1>0, <2>1, Zenon DEF IInv, Running
<1> QED BY <1>1, <1>3, <1>4, <1>5, <1>6, <1>7, <1>8, <1>9, <1>10, <1>11, Zenon DEF Next

\* IInv is an invariant.
LEMMA Holds == Spec => []IInv
BY InitInv, StepKeeps, PTL DEF Spec

\* Nothing is on its way.
LEMMA NothingLeft ==
  ASSUME s.tasks = << >>, s.hci = << >>
  PROVE  /\ \A u : ~Has(s.tasks, u) /\ ~Sent(s.hci, u)
         /\ \A u, T : ~Final(s.tasks, u, T) /\ ~Final(Ops(s.hci), u, T)
         /\ ~Real(s)
<1>1. 1..Len(s.tasks) = {} /\ 1..Len(Ops(s.hci)) = {}
  BY DEF Ops
<1>2. /\ \A u : ~Has(s.tasks, u) /\ ~Sent(s.hci, u)
      /\ \A u, T : ~Final(s.tasks, u, T) /\ ~Final(Ops(s.hci), u, T)
  BY <1>1, Zenon DEF Has, Final, Sent
<1>3. ~Real(s)
  BY <1>2, Zenon DEF Real, Answered
<1> QED BY <1>2, <1>3, Zenon

\* For any devices and any number of calls: a client that LeAddressManager counts as PAUSED
\* (ack_pause) has stopped initiating or scanning, unless it unregistered with the
\* acknowledgement of a pause on its way and registered again.
THEOREM PausesInFact == Spec => []PausedInFact
<1>1. IInv => PausedInFact
  <2> SUFFICES ASSUME IInv, Running, NEW c \in Clients \ crossed, s.clients[c] = "PAUSED"
               PROVE  Pauses(s, c)
    BY Zenon DEF PausedInFact
  <2>1. Sound(s, c)
    BY Zenon DEF IInv, Inv, Good
  <2> QED BY <2>1, Zenon DEF Sound
<1> QED BY <1>1, Holds, PTL

\* For any devices and any number of calls: when the last of the commands is answered and
\* nothing is on its way (resume_registered_clients), every registered client was resumed and
\* le_impl and the scanning manager go on.
THEOREM ResumesWhenDone == Spec => []ResumedWhenDone
<1>1. IInv => ResumedWhenDone
  <2> SUFFICES ASSUME IInv, Quiescent, s.cached_commands = << >>, NEW c \in Clients \ crossed
               PROVE  /\ s.clients[c] \in {"NONE", "RESUMED"}
                      /\ IF c = "le" THEN ~s.le.pause /\ s.le.canceled = {} ELSE s.scan.registered => ~s.scan.paused
    BY Zenon DEF ResumedWhenDone
  <2>1. Inv(s, active, address, rejected, crossed) /\ s \in Host /\ s.tasks = << >> /\ s.hci = << >> /\ ~NotSet(s)
    BY Zenon DEF IInv, Quiescent, NotSet
  <2>2. /\ \A u : ~Has(s.tasks, u) /\ ~Sent(s.hci, u)
        /\ \A u, T : ~Final(s.tasks, u, T) /\ ~Final(Ops(s.hci), u, T)
        /\ ~Real(s)
    BY <2>1, NothingLeft, Zenon
  <2>3. Good(s, c) /\ Waits(s) /\ LeSets(s)
    BY <2>1, Zenon DEF Inv
  <2>4. s.clients[c] # "PAUSED"
    BY <2>1, <2>2, <2>3, Zenon DEF Good
  <2>5. s.clients[c] # "WAITING_FOR_PAUSE" /\ s.clients[c] # "WAITING_FOR_RESUME"
    BY <2>2, <2>3, Zenon DEF Waits
  <2>6. s.clients[c] \in States
    BY <2>1, Zenon DEF Host
  <2>7. s.clients[c] \in {"NONE", "RESUMED"}
    BY <2>4, <2>5, <2>6, Zenon DEF States
  <2>8. CASE c = "le"
    <3>1. LePauses(s)
      BY <2>1, <2>8, Zenon DEF Inv
    <3>2. ~s.le.pause
      BY <2>2, <2>4, <2>8, <3>1, Zenon DEF LePauses
    <3> QED BY <2>3, <2>7, <2>8, <3>2, Zenon DEF LeSets
  <2>9. CASE c # "le"
    <3>1. c = "scan"
      BY <2>9, Zenon DEF Clients
    <3>2. ScanPauses(s)
      BY <2>1, <3>1, Zenon DEF Inv
    <3> QED BY <2>2, <2>4, <2>7, <2>9, <3>1, <3>2, Zenon DEF ScanPauses
  <2> QED BY <2>8, <2>9, Zenon
<1> QED BY <1>1, Holds, PTL

\* For any devices and any number of calls: when nothing is on its way, le_address_ is the
\* controller's random address unless the controller rejected one, and is_scanning_ says
\* whether it scans.
THEOREM HostAgreesHolds == Spec => []HostAgrees
<1>1. IInv => HostAgrees
  <2> SUFFICES ASSUME IInv, Quiescent
               PROVE  /\ ~rejected => s.le_address = address
                      /\ s.scan.is_scanning = ("scan" \in active)
    BY Zenon DEF HostAgrees
  <2>1. Inv(s, active, address, rejected, crossed) /\ s \in Host /\ s.tasks = << >> /\ s.hci = << >>
    BY Zenon DEF IInv, Quiescent
  <2>2. \A u : ~Has(s.tasks, u) /\ ~Sent(s.hci, u)
    BY <2>1, NothingLeft, Zenon
  <2>3. Addresses(s, address, rejected) /\ Scans(s, active)
    BY <2>1, Zenon DEF Inv
  <2>4. ~rejected => s.le_address = address
    BY <2>2, <2>3, Zenon DEF Addresses
  <2>5. s.scan.is_scanning <=> "scan" \in active
    BY <2>2, <2>3, Zenon DEF Scans
  <2>6. s.scan.is_scanning \in BOOLEAN
    BY <2>1 DEF Host, Scanner
  <2> QED BY <2>4, <2>5, <2>6
<1> QED BY <1>1, Holds, PTL
=============================================================================
