-------------------------- MODULE SignallingProofs --------------------------
(***************************************************************************)
(* The proof of BooksAgree for any services, any number of requests,       *)
(* closes and expiries, and any answers of the security modules.           *)
(*                                                                         *)
(* The invariant of an end says where the opening of a channel stands:     *)
(* while the security module is asked, while the connection request waits  *)
(* in pending_commands_ and until it is answered, its identifier is        *)
(* reserved, its caller waits and it is at one of these places only.       *)
(* Every function of the code is shown to keep it by a lemma of its own,   *)
(* named for the function; the two loops over lists by induction over      *)
(* their turns.                                                            *)
(***************************************************************************)
EXTENDS ClassicSignalling, WellFoundedInduction, TLAPS

\* The fields of an end.
Fields ==
  {"service", "next_signal_id", "command_just_sent", "pending_commands", "alarm",
   "remote_extended_feature_received", "remote_supports", "pending_dynamic",
   "pending_configuration", "used_cid", "channels", "configuration", "pending_connection",
   "sender_map", "requests", "waiting", "aborted", "out", "ask"}

\* q is a sequence, of whatever.
IsSeq(q) == \E T : q \in Seq(T)

\* What Append makes of a sequence.
LEMMA Appended ==
  ASSUME NEW q, IsSeq(q), NEW x
  PROVE  /\ IsSeq(Append(q, x)) /\ Len(q) \in Nat /\ Len(Append(q, x)) = Len(q) + 1
         /\ \A i \in 1..Len(q) : Append(q, x)[i] = q[i]
         /\ Append(q, x)[Len(q) + 1] = x
<1>1. PICK T : q \in Seq(T)
  BY Zenon DEF IsSeq
<1>2. q \in Seq(T \cup {x})
  BY <1>1
<1>3. Append(q, x) \in Seq(T \cup {x})
  BY <1>2
<1> QED BY <1>2, <1>3 DEF IsSeq

\* What Tail makes of a sequence.
LEMMA Taken ==
  ASSUME NEW q, IsSeq(q), q # << >>
  PROVE  /\ IsSeq(Tail(q)) /\ Len(q) \in Nat \ {0} /\ Len(Tail(q)) = Len(q) - 1 /\ Head(q) = q[1]
         /\ \A i \in 1..Len(q) - 1 : Tail(q)[i] = q[i + 1]
<1>1. PICK T : q \in Seq(T)
  BY Zenon DEF IsSeq
<1> QED BY <1>1 DEF IsSeq

\* Induction over the turns of a loop, with a set for the predicate.
LEMMA Induction ==
  ASSUME NEW n \in Nat, NEW S, 0 \in S, \A i \in 0..n - 1 : i \in S => i + 1 \in S
  PROVE  \A i \in 0..n : i \in S
<1> DEFINE T == {i \in 0..n : i \notin S}
           R == OpToRel(<, Nat)
<1>1. SUFFICES ASSUME T # {} PROVE FALSE
  BY Zenon
<1>2. PICK x \in T : \A y \in T : ~(<<y, x>> \in R)
  <2>1. T \subseteq Nat
    OBVIOUS
  <2>2. IsWellFoundedOn(R, Nat)
    BY NatLessThanWellFounded, Zenon
  <2> HIDE DEF T, R
  <2> QED BY <1>1, <2>1, <2>2, WFMin, Zenon
<1>3. x \in 1..n /\ x - 1 \in 0..n - 1 /\ x \notin S
  OBVIOUS
<1>4. <<x - 1, x>> \in R
  BY <1>3 DEF OpToRel
<1>5. x - 1 \notin T
  BY <1>2, <1>4, Zenon
<1>6. x - 1 \in S
  BY <1>3, <1>5
<1> QED BY <1>3, <1>6

-----------------------------------------------------------------------------
\* r differs from m in no field but those of F.
Same(m, r, F) == DOMAIN r = Fields /\ \A f \in Fields \ F : r[f] = m[f]

Configured(m, c) == c \in DOMAIN m.configuration /\ m.configuration[c].state = "CONFIGURED"

\* What a record of an end looks like.
Shape(m) ==
  /\ DOMAIN m = Fields
  /\ IsSeq(m.pending_commands) /\ IsSeq(m.pending_dynamic) /\ IsSeq(m.pending_configuration)
  /\ \A c \in DOMAIN m.configuration : "state" \in DOMAIN m.configuration[c]

\* The books agree.
Books(m) ==
  /\ DOMAIN m.sender_map = {c \in DOMAIN m.configuration : m.configuration[c].state = "CONFIGURED"}
  /\ DOMAIN m.configuration \subseteq DOMAIN m.channels /\ DOMAIN m.channels \subseteq m.used_cid
  /\ \A c, d \in DOMAIN m.channels : m.channels[c].remote = m.channels[d].remote => c = d
  /\ 0 \notin DOMAIN m.channels

\* A caller of ConnectChannel is there as long as its channel is not configured.
Waits(m) ==
  \A c \in DOMAIN m.channels :
    m.channels[c].local_initiated /\ ~Configured(m, c) => c \in DOMAIN m.pending_connection

\* A channel c is being opened: the security module is asked (S holds the questions of earlier
\* handlers), or the connection request is the i-th in the queue, or it was sent.
Asking(m, S, c) == \E q \in S \cup m.ask : q.way = "out" /\ q.cid = c
InQueue(m, i, c) ==
  /\ i \in 1..Len(m.pending_commands)
  /\ m.pending_commands[i].code = "CONNECTION_REQUEST" /\ m.pending_commands[i].source = c
JustSent(m, c) == m.command_just_sent.code = "CONNECTION_REQUEST" /\ m.command_just_sent.source = c
Opening(m, S, c) == Asking(m, S, c) \/ JustSent(m, c) \/ \E i : InQueue(m, i, c)

\* The identifier c is reserved for a channel that is to be opened.
Reserved(m, c) ==
  c # 0 /\ c \in m.used_cid /\ c \notin DOMAIN m.channels /\ c \in DOMAIN m.pending_connection

\* Channels that are being opened are reserved, and each is at one place.
Opens(m, S) ==
  /\ \A q \in S \cup m.ask : q.way = "out" => q = [way |-> "out", cid |-> q.cid, id |-> 0]
  /\ \A c : Opening(m, S, c) => Reserved(m, c)
  /\ \A c : /\ Asking(m, S, c) => ~JustSent(m, c) /\ \A i : ~InQueue(m, i, c)
            /\ JustSent(m, c) => \A i : ~InQueue(m, i, c)
            /\ \A i, j : InQueue(m, i, c) /\ InQueue(m, j, c) => i = j

Asserts == {"AttachChannel", "DetachChannel", "NotifyChannelCreation"}

\* The invariant of an end m with the questions S.
Inv(m, S) == Shape(m) /\ Books(m) /\ Waits(m) /\ Opens(m, S) /\ m.aborted \notin Asserts
-----------------------------------------------------------------------------
\* Fields that the invariant does not look at.
Loose ==
  {"service", "next_signal_id", "alarm", "remote_extended_feature_received", "remote_supports",
   "requests", "waiting", "out"}

\* They may change.
LEMMA LooseKeeps ==
  ASSUME NEW m, NEW r, NEW S, Inv(m, S), Same(m, r, Loose \cup {"pending_dynamic", "pending_configuration"}),
         IsSeq(r.pending_dynamic), IsSeq(r.pending_configuration)
  PROVE  Inv(r, S)
<1>1. /\ DOMAIN r = Fields
      /\ r.command_just_sent = m.command_just_sent /\ r.pending_commands = m.pending_commands
      /\ r.used_cid = m.used_cid /\ r.channels = m.channels /\ r.configuration = m.configuration
      /\ r.pending_connection = m.pending_connection /\ r.sender_map = m.sender_map
      /\ r.aborted = m.aborted /\ r.ask = m.ask
  BY Zenon DEF Same, Fields, Loose
<1>2. Shape(r) /\ Books(r) /\ Waits(r) /\ r.aborted \notin Asserts
  BY <1>1, Zenon DEF Inv, Shape, Books, Waits, Configured
<1>3. \A c : /\ (Asking(m, S, c) <=> Asking(r, S, c)) /\ (JustSent(m, c) <=> JustSent(r, c))
             /\ \A i : InQueue(m, i, c) <=> InQueue(r, i, c)
             /\ Reserved(m, c) <=> Reserved(r, c)
  BY <1>1, Zenon DEF Asking, InQueue, JustSent, Reserved
<1>5. \A c : Opening(m, S, c) <=> Opening(r, S, c)
  BY <1>3, Zenon DEF Opening
<1>6. Opens(m, S)
  BY Zenon DEF Inv
<1>4. Opens(r, S)
  BY <1>1, <1>3, <1>5, <1>6, Zenon DEF Opens
<1> QED BY <1>2, <1>4, Zenon DEF Inv

\* The same for one change of such a field.
LEMMA EnqueueKeeps ==
  ASSUME NEW m, NEW S, Inv(m, S), NEW x
  PROVE  Inv(Enqueue(m, x), S) /\ Same(m, Enqueue(m, x), {"out"})
<1>1. Same(m, Enqueue(m, x), {"out"})
  BY Zenon DEF Inv, Shape, Same, Enqueue, Fields
<1>2. /\ Same(m, Enqueue(m, x), Loose \cup {"pending_dynamic", "pending_configuration"})
      /\ Enqueue(m, x).pending_dynamic = m.pending_dynamic /\ Enqueue(m, x).pending_configuration = m.pending_configuration
  BY <1>1, Zenon DEF Same, Loose, Fields
<1> QED BY <1>1, <1>2, LooseKeeps, Zenon DEF Inv, Shape

\* Opens, when nothing more is being opened than before.
LEMMA FewerOpen ==
  ASSUME NEW m, NEW S, NEW r, NEW U, Opens(m, S),
         \A q \in U \cup r.ask : q.way = "out" => q = [way |-> "out", cid |-> q.cid, id |-> 0],
         \A c : Asking(r, U, c) => Asking(m, S, c),
         \A c : JustSent(r, c) => JustSent(m, c),
         \A c, i : InQueue(r, i, c) => InQueue(m, i, c),
         \A c : Opening(r, U, c) /\ Reserved(m, c) => Reserved(r, c)
  PROVE  Opens(r, U)
<1>1. \A c : Opening(r, U, c) => Opening(m, S, c)
  BY Zenon DEF Opening
<1> QED BY <1>1, Zenon DEF Opens

Forget(m) == [m EXCEPT !.command_just_sent = NoCommand]

\* The command that was sent last may be forgotten; if it was a connection request its
\* identifier is no longer about to be opened.
LEMMA ForgetKeeps ==
  ASSUME NEW m, NEW S, Inv(m, S)
  PROVE  /\ Inv(Forget(m), S) /\ Same(m, Forget(m), {"command_just_sent"})
         /\ \A c : JustSent(m, c) => ~Opening(Forget(m), S, c) /\ Reserved(Forget(m), c)
<1> DEFINE r == Forget(m)
<1>1. /\ DOMAIN r = Fields /\ r.command_just_sent = NoCommand
      /\ \A f \in Fields \ {"command_just_sent"} : r[f] = m[f]
  BY Zenon DEF Inv, Shape, Forget, Fields
<1>2. Same(m, r, {"command_just_sent"})
  BY <1>1, Zenon DEF Same
<1> HIDE DEF r
<1>3. /\ r.pending_commands = m.pending_commands /\ r.pending_dynamic = m.pending_dynamic
      /\ r.pending_configuration = m.pending_configuration
      /\ r.used_cid = m.used_cid /\ r.channels = m.channels /\ r.configuration = m.configuration
      /\ r.pending_connection = m.pending_connection /\ r.sender_map = m.sender_map
      /\ r.aborted = m.aborted /\ r.ask = m.ask
  BY <1>1, Zenon DEF Fields
<1>4. Shape(r) /\ Books(r) /\ Waits(r) /\ r.aborted \notin Asserts
  BY <1>1, <1>3 DEF Inv, Shape, Books, Waits, Configured
<1>5. \A c : ~JustSent(r, c)
  BY <1>1 DEF JustSent, NoCommand, PendingCommand
<1>6. \A c : /\ Asking(m, S, c) <=> Asking(r, S, c)
             /\ \A i : InQueue(m, i, c) <=> InQueue(r, i, c)
             /\ Reserved(m, c) <=> Reserved(r, c)
  BY <1>3, Zenon DEF Asking, InQueue, Reserved
<1>7. Opens(m, S)
  BY Zenon DEF Inv
<1>8. \A q \in S \cup r.ask : q.way = "out" => q = [way |-> "out", cid |-> q.cid, id |-> 0]
  BY <1>3, <1>7, Zenon DEF Opens
<1>9. Opens(r, S)
  BY <1>5, <1>6, <1>7, <1>8, FewerOpen, Zenon
<1>10. \A c : JustSent(m, c) => ~Opening(r, S, c) /\ Reserved(r, c)
  BY <1>5, <1>6, <1>7, Zenon DEF Opens, Opening
<1> QED BY <1>2, <1>4, <1>9, <1>10, Zenon DEF r, Inv

\* handle_send_next_command forgets the command that was sent last and moves the next one from
\* the queue to its place.
LEMMA NextKeeps ==
  ASSUME NEW m, NEW S, DOMAIN m = Fields, Inv(Forget(m), S)
  PROVE  /\ Inv(handle_send_next_command(m), S)
         /\ Same(m, handle_send_next_command(m), {"command_just_sent", "pending_commands", "alarm", "out"})
<1> DEFINE g == Forget(m)
           r == handle_send_next_command(m)
<1>1. Same(m, g, {"command_just_sent"}) /\ g.command_just_sent = NoCommand
  BY Zenon DEF Same, Forget, Fields
<1>2. CASE m.pending_commands = << >>
  <2>1. r = g
    BY <1>2, Zenon DEF handle_send_next_command, Forget
  <2>2. Same(m, g, {"command_just_sent", "pending_commands", "alarm", "out"})
    BY <1>1, Zenon DEF Same
  <2> QED BY <2>1, <2>2, Zenon
<1>3. CASE m.pending_commands # << >>
  <2> DEFINE h == Head(m.pending_commands)
  <2>1. /\ DOMAIN r = Fields /\ r.command_just_sent = h /\ r.pending_commands = Tail(m.pending_commands)
        /\ \A f \in Fields \ {"command_just_sent", "pending_commands", "alarm", "out"} : r[f] = m[f]
    BY <1>3, Zenon DEF handle_send_next_command, Enqueue, Fields
  <2> HIDE DEF r, g
  <2>2. g.pending_commands = m.pending_commands /\ \A f \in Fields \ {"command_just_sent"} : g[f] = m[f]
    BY <1>1, Zenon DEF Same, Fields
  <2>3. /\ r.pending_dynamic = g.pending_dynamic /\ r.pending_configuration = g.pending_configuration
        /\ r.used_cid = g.used_cid /\ r.channels = g.channels /\ r.configuration = g.configuration
        /\ r.pending_connection = g.pending_connection /\ r.sender_map = g.sender_map
        /\ r.aborted = g.aborted /\ r.ask = g.ask
    BY <2>1, <2>2, Zenon DEF Fields
  <2>4. Inv(g, S)
    BY Zenon DEF g
  <2>5. IsSeq(g.pending_commands) /\ g.pending_commands # << >>
    BY <1>3, <2>2, <2>4, Zenon DEF Inv, Shape
  <2>6. /\ IsSeq(r.pending_commands) /\ h = g.pending_commands[1] /\ 1 \in 1..Len(g.pending_commands)
        /\ \A i \in 1..Len(r.pending_commands) :
             i + 1 \in 1..Len(g.pending_commands) /\ r.pending_commands[i] = g.pending_commands[i + 1]
             /\ i + 1 # 1
        /\ \A i, j \in 1..Len(r.pending_commands) : i + 1 = j + 1 => i = j
    <3>1. /\ IsSeq(Tail(g.pending_commands)) /\ Len(g.pending_commands) \in Nat \ {0}
          /\ Len(Tail(g.pending_commands)) = Len(g.pending_commands) - 1 /\ Head(g.pending_commands) = g.pending_commands[1]
          /\ \A i \in 1..Len(g.pending_commands) - 1 : Tail(g.pending_commands)[i] = g.pending_commands[i + 1]
      BY <2>5, Taken, Zenon
    <3>2. r.pending_commands = Tail(g.pending_commands) /\ h = Head(g.pending_commands)
      BY <2>1, <2>2, Zenon
    <3> QED BY <3>1, <3>2
  <2>7. Shape(r) /\ Books(r) /\ Waits(r) /\ r.aborted \notin Asserts
    BY <2>1, <2>3, <2>4, <2>6 DEF Inv, Shape, Books, Waits, Configured
  <2>8. \A c : /\ Asking(r, S, c) <=> Asking(g, S, c)
               /\ JustSent(r, c) <=> InQueue(g, 1, c)
               /\ \A i : InQueue(r, i, c) => InQueue(g, i + 1, c) /\ i + 1 # 1
               /\ Reserved(r, c) <=> Reserved(g, c)
    BY <2>1, <2>3, <2>6, Zenon DEF Asking, InQueue, Reserved, JustSent
  <2>9. \A c, i, j : InQueue(r, i, c) /\ InQueue(r, j, c) /\ i + 1 = j + 1 => i = j
    BY <2>6, Zenon DEF InQueue
  <2>10. Opens(g, S)
    BY <2>4, Zenon DEF Inv
  <2>11. \A c : Opening(r, S, c) => Opening(g, S, c)
    BY <2>8, Zenon DEF Opening
  <2>12. \A q \in S \cup r.ask : q.way = "out" => q = [way |-> "out", cid |-> q.cid, id |-> 0]
    BY <2>3, <2>10, Zenon DEF Opens
  <2>13. \A c : Opening(r, S, c) => Reserved(r, c)
    BY <2>8, <2>10, <2>11, Zenon DEF Opens
  <2>14. \A c : /\ Asking(r, S, c) => ~JustSent(r, c) /\ \A i : ~InQueue(r, i, c)
                /\ JustSent(r, c) => \A i : ~InQueue(r, i, c)
                /\ \A i, j : InQueue(r, i, c) /\ InQueue(r, j, c) => i = j
    <3> TAKE c
    <3>1. /\ Asking(g, S, c) => \A i : ~InQueue(g, i, c)
          /\ \A i, j : InQueue(g, i, c) /\ InQueue(g, j, c) => i = j
      BY <2>10, Zenon DEF Opens
    <3>2. Asking(r, S, c) => ~JustSent(r, c) /\ \A i : ~InQueue(r, i, c)
      BY <2>8, <3>1, Zenon
    <3>3. JustSent(r, c) => \A i : ~InQueue(r, i, c)
      BY <2>8, <3>1, Zenon
    <3>4. \A i, j : InQueue(r, i, c) /\ InQueue(r, j, c) => i = j
      <4> SUFFICES ASSUME NEW i, NEW j, InQueue(r, i, c), InQueue(r, j, c) PROVE i = j
        BY Zenon
      <4>1. InQueue(g, i + 1, c) /\ InQueue(g, j + 1, c)
        BY <2>8, Zenon
      <4>2. i + 1 = j + 1
        BY <3>1, <4>1, Zenon
      <4> QED BY <2>9, <4>2, Zenon
    <3> QED BY <3>2, <3>3, <3>4, Zenon
  <2>15. Opens(r, S)
    BY <2>12, <2>13, <2>14, Zenon DEF Opens
  <2>16. Same(m, r, {"command_just_sent", "pending_commands", "alarm", "out"})
    BY <2>1, Zenon DEF Same
  <2> QED BY <2>7, <2>15, <2>16, Zenon DEF Inv, r
<1> QED BY <1>2, <1>3, Zenon

\* A command is put at the end of the queue; a connection request must be for an identifier
\* that is reserved and not yet about to be opened.
LEMMA QueueKeeps ==
  ASSUME NEW m, NEW S, Inv(m, S), NEW r, Same(m, r, {"pending_commands", "next_signal_id"}),
         NEW x, r.pending_commands = Append(m.pending_commands, x),
         x.code = "CONNECTION_REQUEST" => ~Opening(m, S, x.source) /\ Reserved(m, x.source)
  PROVE  Inv(r, S)
<1>1. /\ DOMAIN r = Fields
      /\ r.command_just_sent = m.command_just_sent /\ r.pending_dynamic = m.pending_dynamic
      /\ r.pending_configuration = m.pending_configuration
      /\ r.used_cid = m.used_cid /\ r.channels = m.channels /\ r.configuration = m.configuration
      /\ r.pending_connection = m.pending_connection /\ r.sender_map = m.sender_map
      /\ r.aborted = m.aborted /\ r.ask = m.ask
  BY Zenon DEF Same, Fields
<1>2. IsSeq(m.pending_commands)
  BY Zenon DEF Inv, Shape
<1> DEFINE n == Len(m.pending_commands)
<1>3. /\ IsSeq(r.pending_commands) /\ n \in Nat /\ Len(r.pending_commands) = n + 1
      /\ \A i \in 1..n : r.pending_commands[i] = m.pending_commands[i]
      /\ r.pending_commands[n + 1] = x
  BY <1>2, Appended
<1> HIDE DEF n
<1>4. \A i : i \in 1..n + 1 <=> i \in 1..n \/ i = n + 1
  BY <1>3
<1>5. Shape(r) /\ Books(r) /\ Waits(r) /\ r.aborted \notin Asserts
  BY <1>1, <1>3 DEF Inv, Shape, Books, Waits, Configured
<1>6. \A c : /\ Asking(r, S, c) <=> Asking(m, S, c)
             /\ JustSent(r, c) <=> JustSent(m, c)
             /\ \A i : InQueue(r, i, c) <=> InQueue(m, i, c) \/ (i = n + 1 /\ x.code = "CONNECTION_REQUEST" /\ x.source = c)
             /\ Reserved(r, c) <=> Reserved(m, c)
  <2>1. \A c, i : InQueue(r, i, c) <=> InQueue(m, i, c) \/ (i = n + 1 /\ x.code = "CONNECTION_REQUEST" /\ x.source = c)
    <3> TAKE c, i
    <3>1. CASE i \in 1..n
      <4>1. i # n + 1
        BY <1>3, <3>1
      <4> QED BY <1>3, <1>4, <3>1, <4>1, Zenon DEF InQueue, n
    <3>2. CASE i = n + 1
      <4>1. i \notin 1..n
        BY <1>3, <3>2
      <4> QED BY <1>3, <1>4, <3>2, <4>1, Zenon DEF InQueue, n
    <3>3. CASE i \notin 1..n + 1
      BY <1>3, <1>4, <3>3, Zenon DEF InQueue, n
    <3> QED BY <1>4, <3>1, <3>2, <3>3, Zenon
  <2> QED BY <1>1, <2>1, Zenon DEF Asking, JustSent, Reserved
<1>7. Opens(m, S)
  BY Zenon DEF Inv
<1>8. \A q \in S \cup r.ask : q.way = "out" => q = [way |-> "out", cid |-> q.cid, id |-> 0]
  BY <1>1, <1>7, Zenon DEF Opens
<1>9. \A c : Opening(r, S, c) <=> Opening(m, S, c) \/ (x.code = "CONNECTION_REQUEST" /\ x.source = c)
  BY <1>6, Zenon DEF Opening
<1>10. \A c : Opening(r, S, c) => Reserved(r, c)
  BY <1>6, <1>7, <1>9, Zenon DEF Opens
<1>11. \A c : /\ Asking(r, S, c) => ~JustSent(r, c) /\ \A i : ~InQueue(r, i, c)
              /\ JustSent(r, c) => \A i : ~InQueue(r, i, c)
              /\ \A i, j : InQueue(r, i, c) /\ InQueue(r, j, c) => i = j
  <2> TAKE c
  <2>1. /\ Asking(m, S, c) => ~JustSent(m, c) /\ \A i : ~InQueue(m, i, c)
        /\ JustSent(m, c) => \A i : ~InQueue(m, i, c)
        /\ \A i, j : InQueue(m, i, c) /\ InQueue(m, j, c) => i = j
    BY <1>7, Zenon DEF Opens
  <2>2. CASE ~(x.code = "CONNECTION_REQUEST" /\ x.source = c)
    BY <1>6, <2>1, <2>2, Zenon
  <2>3. CASE x.code = "CONNECTION_REQUEST" /\ x.source = c
    <3>1. ~Asking(m, S, c) /\ ~JustSent(m, c) /\ \A i : ~InQueue(m, i, c)
      BY <2>3, Zenon DEF Opening
    <3>2. ~Asking(r, S, c) /\ ~JustSent(r, c)
      BY <1>6, <3>1, Zenon
    <3>3. \A i : InQueue(r, i, c) => i = n + 1
      BY <1>6, <3>1, Zenon
    <3>4. \A i, j : InQueue(r, i, c) /\ InQueue(r, j, c) => i = j
      BY <3>3, Zenon
    <3> QED BY <3>2, <3>4, Zenon
  <2> QED BY <2>2, <2>3, Zenon
<1>12. Opens(r, S)
  BY <1>8, <1>10, <1>11, Zenon DEF Opens
<1> QED BY <1>5, <1>12, Zenon DEF Inv

\* What push changes.
Pushed == {"command_just_sent", "pending_commands", "alarm", "out", "next_signal_id"}

\* push puts a command in the queue and sends it if none is outstanding.
LEMMA PushKeeps ==
  ASSUME NEW m, NEW S, Inv(m, S), NEW code, NEW source, NEW dest, NEW config,
         code = "CONNECTION_REQUEST" => ~Opening(m, S, source) /\ Reserved(m, source)
  PROVE  LET r == push(m, PendingCommand(code, source, dest, config))
         IN Inv(r, S) /\ Same(m, r, Pushed)
<1> DEFINE x == [PendingCommand(code, source, dest, config) EXCEPT !.id = m.next_signal_id]
           q == [m EXCEPT !.pending_commands = Append(@, x), !.next_signal_id = (@ % 255) + 1]
<1>1. DOMAIN m = Fields
  BY Zenon DEF Inv, Shape
<1>2. x.code = code /\ x.source = source
  BY Zenon DEF PendingCommand
<1>3. Same(m, q, {"pending_commands", "next_signal_id"}) /\ q.pending_commands = Append(m.pending_commands, x)
  BY <1>1, Zenon DEF Same, Fields
<1>4. push(m, PendingCommand(code, source, dest, config)) =
        IF m.command_just_sent.id = 0 THEN handle_send_next_command(q) ELSE q
  BY Zenon DEF push
<1> HIDE DEF x, q
<1>5. Inv(q, S)
  BY <1>2, <1>3, QueueKeeps, Zenon
<1>6. Inv(Forget(q), S) /\ DOMAIN q = Fields
  BY <1>5, ForgetKeeps, Zenon DEF Inv, Shape
<1>7. /\ Inv(handle_send_next_command(q), S)
      /\ Same(q, handle_send_next_command(q), {"command_just_sent", "pending_commands", "alarm", "out"})
  BY <1>6, NextKeeps, Zenon
<1>8. Same(m, q, Pushed) /\ Same(m, handle_send_next_command(q), Pushed)
  BY <1>3, <1>7, Zenon DEF Same, Pushed
<1> QED BY <1>4, <1>5, <1>7, <1>8, Zenon
-----------------------------------------------------------------------------
\* Opens, when commands and questions stay as they are.
LEMMA SameOpens ==
  ASSUME NEW m, NEW S, NEW r, Opens(m, S),
         r.command_just_sent = m.command_just_sent, r.pending_commands = m.pending_commands, r.ask = m.ask,
         \A c : Opening(m, S, c) /\ Reserved(m, c) => Reserved(r, c)
  PROVE  Opens(r, S) /\ \A c : Opening(r, S, c) <=> Opening(m, S, c)
<1>1. \A c : /\ (Asking(m, S, c) <=> Asking(r, S, c)) /\ (JustSent(m, c) <=> JustSent(r, c))
             /\ \A i : InQueue(m, i, c) <=> InQueue(r, i, c)
  BY Zenon DEF Asking, InQueue, JustSent
<1>2. \A c : Opening(r, S, c) <=> Opening(m, S, c)
  BY <1>1, Zenon DEF Opening
<1>3. \A q \in S \cup r.ask : q.way = "out" => q = [way |-> "out", cid |-> q.cid, id |-> 0]
  BY Zenon DEF Opens
<1>4. \A c : Opening(r, S, c) /\ Reserved(m, c) => Reserved(r, c)
  BY <1>2, Zenon
<1>5. Opens(r, S)
  BY <1>1, <1>3, <1>4, FewerOpen, Zenon
<1> QED BY <1>2, <1>5, Zenon

\* OnOutgoingConnectionRequestFail(m, cid) leaves r.
Failed(m, cid, r) ==
  /\ Same(m, r, {"waiting", "pending_connection", "used_cid", "channels"})
  /\ r.used_cid = m.used_cid \ {cid} /\ r.channels = Without(m.channels, cid)
  /\ DOMAIN r.pending_connection = DOMAIN m.pending_connection \ {cid}

\* The request that waits for cid fails and cid is free again.
LEMMA FailIs ==
  ASSUME NEW m, DOMAIN m = Fields, NEW cid
  PROVE  Failed(m, cid, OnOutgoingConnectionRequestFail(m, cid))
<1> DEFINE q == IF cid \in DOMAIN m.pending_connection THEN Notify(m, cid) ELSE m
<1>1. DOMAIN q.pending_connection = DOMAIN m.pending_connection \ {cid}
  BY Zenon DEF Notify, Fields, Without
<1>2. Same(m, q, {"waiting", "pending_connection"})
  BY Zenon DEF Notify, Fields, Same
<1> HIDE DEF q
<1>3. LET r == FreeChannel(q, cid)
      IN /\ Same(q, r, {"used_cid", "channels"})
         /\ r.used_cid = q.used_cid \ {cid} /\ r.channels = Without(q.channels, cid)
  BY <1>2, Zenon DEF FreeChannel, Same, Fields
<1>4. q.used_cid = m.used_cid /\ q.channels = m.channels
  BY <1>2, Zenon DEF Same, Fields
<1>5. FreeChannel(q, cid).pending_connection = q.pending_connection
  BY <1>3, Zenon DEF Same, Fields
<1>6. Same(m, FreeChannel(q, cid), {"waiting", "pending_connection", "used_cid", "channels"})
  BY <1>2, <1>3, Zenon DEF Same
<1> QED BY <1>1, <1>3, <1>4, <1>5, <1>6, Zenon DEF Failed, OnOutgoingConnectionRequestFail, q

\* That is safe for an identifier that is not allocated and not about to be opened.
LEMMA FailKeeps ==
  ASSUME NEW m, NEW S, Inv(m, S), NEW cid, NEW r, Failed(m, cid, r),
         ~Opening(m, S, cid), cid \notin DOMAIN m.channels
  PROVE  Inv(r, S)
<1>1. /\ DOMAIN r = Fields
      /\ r.command_just_sent = m.command_just_sent /\ r.pending_commands = m.pending_commands
      /\ r.pending_dynamic = m.pending_dynamic /\ r.pending_configuration = m.pending_configuration
      /\ r.configuration = m.configuration /\ r.sender_map = m.sender_map
      /\ r.aborted = m.aborted /\ r.ask = m.ask
  BY Zenon DEF Failed, Same, Fields
<1>2. /\ DOMAIN r.channels = DOMAIN m.channels
      /\ \A c \in DOMAIN m.channels : r.channels[c] = m.channels[c]
  BY Zenon DEF Failed, Without
<1>3. Shape(r) /\ r.aborted \notin Asserts
  BY <1>1, Zenon DEF Inv, Shape
<1>4. Books(r)
  BY <1>1, <1>2 DEF Inv, Books, Failed
<1>5. Waits(r)
  BY <1>1, <1>2, Zenon DEF Inv, Waits, Failed, Configured
<1>6. \A c : Opening(m, S, c) /\ Reserved(m, c) => Reserved(r, c)
  BY <1>2, Zenon DEF Reserved, Failed
<1>7. Opens(r, S)
  BY <1>1, <1>6, SameOpens, Zenon DEF Inv
<1> QED BY <1>3, <1>4, <1>5, <1>7, Zenon DEF Inv

\* The configuration state of a channel changes, but not whether it is CONFIGURED.
LEMMA ConfigurationKeeps ==
  ASSUME NEW m, NEW S, Inv(m, S), NEW cid \in DOMAIN m.channels, NEW st, "state" \in DOMAIN st,
         st.state = "CONFIGURED" <=> Configured(m, cid)
  PROVE  Inv(SetConfiguration(m, cid, st), S) /\ Same(m, SetConfiguration(m, cid, st), {"configuration"})
<1> DEFINE r == SetConfiguration(m, cid, st)
<1>1. Same(m, r, {"configuration"}) /\ r.configuration = Put(m.configuration, cid, st)
  BY Zenon DEF Inv, Shape, Same, SetConfiguration, Fields
<1> HIDE DEF r
<1>2. /\ DOMAIN r = Fields
      /\ r.command_just_sent = m.command_just_sent /\ r.pending_commands = m.pending_commands
      /\ r.pending_dynamic = m.pending_dynamic /\ r.pending_configuration = m.pending_configuration
      /\ r.used_cid = m.used_cid /\ r.channels = m.channels
      /\ r.pending_connection = m.pending_connection /\ r.sender_map = m.sender_map
      /\ r.aborted = m.aborted /\ r.ask = m.ask
  BY <1>1, Zenon DEF Same, Fields
<1>3. /\ DOMAIN r.configuration = DOMAIN m.configuration \cup {cid} /\ r.configuration[cid] = st
      /\ \A c \in DOMAIN m.configuration : c # cid => r.configuration[c] = m.configuration[c]
  BY <1>1, Zenon DEF Put
<1>4. \A c : Configured(r, c) <=> Configured(m, c)
  BY <1>3, Zenon DEF Configured
<1>5. Shape(r) /\ r.aborted \notin Asserts
  BY <1>2, <1>3, Zenon DEF Inv, Shape
<1>6. Books(r)
  <2>1. {c \in DOMAIN r.configuration : r.configuration[c].state = "CONFIGURED"}
          = {c \in DOMAIN m.configuration : m.configuration[c].state = "CONFIGURED"}
    BY <1>4, Zenon DEF Configured
  <2> QED BY <1>2, <1>3, <2>1, Zenon DEF Inv, Books
<1>7. Waits(r)
  BY <1>2, <1>4, Zenon DEF Inv, Waits
<1>8. Opens(r, S)
  BY <1>2, SameOpens, Zenon DEF Inv, Reserved
<1> QED BY <1>1, <1>5, <1>6, <1>7, <1>8, Zenon DEF Inv, r

\* A channel that is not configured yet is opened: its caller is called back and it is attached
\* to the data pipeline.  Neither assertion fails.
LEMMA OpenKeeps ==
  ASSUME NEW m, NEW S, Inv(m, S), NEW cid \in DOMAIN m.channels, NEW st, "state" \in DOMAIN st,
         ~Configured(m, cid)
  PROVE  Inv(open_channel(m, cid, st), S)
<1> DEFINE q == IF m.channels[cid].local_initiated THEN Notify(m, cid) ELSE m
           x == [st EXCEPT !.state = "CONFIGURED"]
           s == SetConfiguration(q, cid, x)
           r == open_channel(m, cid, st)
<1>1. DOMAIN m = Fields
  BY Zenon DEF Inv, Shape
<1>2. x.state = "CONFIGURED" /\ "state" \in DOMAIN x
  BY Zenon
<1>3. /\ Same(m, q, {"waiting", "pending_connection"})
      /\ DOMAIN m.pending_connection \ {cid} \subseteq DOMAIN q.pending_connection
  <2>1. CASE m.channels[cid].local_initiated
    <3>1. cid \in DOMAIN m.pending_connection
      BY <2>1, Zenon DEF Inv, Waits
    <3>2. q = [m EXCEPT !.waiting = @ \ {m.pending_connection[cid]}, !.pending_connection = Without(@, cid)]
      BY <2>1, <3>1, Zenon DEF Notify
    <3> HIDE DEF q
    <3> QED BY <1>1, <3>2, Zenon DEF Same, Fields, Without
  <2>2. CASE ~m.channels[cid].local_initiated
    BY <1>1, <2>2, Zenon DEF Same
  <2> QED BY <2>1, <2>2, Zenon
<1>4. r = AttachChannel(s, cid, st)
  BY Zenon DEF open_channel
<1> HIDE DEF q, x
<1>5. /\ Same(q, s, {"configuration"}) /\ s.configuration = Put(m.configuration, cid, x)
      /\ s.sender_map = m.sender_map
  BY <1>3, Zenon DEF Same, SetConfiguration, Fields
<1>6. cid \notin DOMAIN m.sender_map
  BY Zenon DEF Inv, Books, Configured
<1> HIDE DEF s
<1>7. /\ Same(s, r, {"sender_map"})
      /\ DOMAIN r.sender_map = DOMAIN m.sender_map \cup {cid}
  BY <1>4, <1>5, <1>6 DEF AttachChannel, Same, Fields, Put
<1> HIDE DEF r
<1>8. /\ DOMAIN r = Fields
      /\ r.command_just_sent = m.command_just_sent /\ r.pending_commands = m.pending_commands
      /\ r.pending_dynamic = m.pending_dynamic /\ r.pending_configuration = m.pending_configuration
      /\ r.used_cid = m.used_cid /\ r.channels = m.channels
      /\ r.pending_connection = q.pending_connection /\ r.configuration = Put(m.configuration, cid, x)
      /\ r.aborted = m.aborted /\ r.ask = m.ask
  BY <1>3, <1>5, <1>7, Zenon DEF Same, Fields
<1>9. /\ DOMAIN r.configuration = DOMAIN m.configuration \cup {cid} /\ r.configuration[cid] = x
      /\ \A c \in DOMAIN m.configuration : c # cid => r.configuration[c] = m.configuration[c]
  BY <1>8, Zenon DEF Put
<1>10. Shape(r) /\ r.aborted \notin Asserts
  BY <1>2, <1>8, <1>9, Zenon DEF Inv, Shape
<1>11. Books(r)
  <2>1. {c \in DOMAIN r.configuration : r.configuration[c].state = "CONFIGURED"}
          = {c \in DOMAIN m.configuration : m.configuration[c].state = "CONFIGURED"} \cup {cid}
    BY <1>2, <1>9, Zenon
  <2> QED BY <1>7, <1>8, <1>9, <2>1, Zenon DEF Inv, Books
<1>12. Waits(r)
  <2> SUFFICES ASSUME NEW c \in DOMAIN r.channels, r.channels[c].local_initiated, ~Configured(r, c)
               PROVE  c \in DOMAIN r.pending_connection
    BY Zenon DEF Waits
  <2>1. c # cid
    BY <1>2, <1>9, Zenon DEF Configured
  <2>2. ~Configured(m, c)
    BY <1>9, <2>1, Zenon DEF Configured
  <2>3. c \in DOMAIN m.pending_connection
    BY <1>8, <2>2, Zenon DEF Inv, Waits
  <2> QED BY <1>3, <1>8, <2>1, <2>3, Zenon
<1>13. \A c : Opening(m, S, c) /\ Reserved(m, c) => Reserved(r, c)
  BY <1>3, <1>8, Zenon DEF Reserved
<1>14. Opens(r, S)
  BY <1>8, <1>13, SameOpens, Zenon DEF Inv
<1> QED BY <1>10, <1>11, <1>12, <1>14, Zenon DEF Inv, r

\* A channel is closed: its configuration state is erased, its identifier is free again, and it
\* is detached if it was attached, so that the assertion does not fail.
LEMMA CloseKeeps ==
  ASSUME NEW m, NEW S, Inv(m, S), NEW cid \in DOMAIN m.channels
  PROVE  Inv(close_channel(m, cid), S)
<1> DEFINE q == FreeChannel(erase(m, cid), cid)
           r == close_channel(m, cid)
<1>1. DOMAIN m = Fields
  BY Zenon DEF Inv, Shape
<1>2. /\ Same(m, q, {"configuration", "used_cid", "channels"})
      /\ q.configuration = Without(m.configuration, cid) /\ q.channels = Without(m.channels, cid)
      /\ q.used_cid = m.used_cid \ {cid} /\ q.sender_map = m.sender_map
  BY <1>1, Zenon DEF erase, FreeChannel, Same, Fields
<1>3. r = IF ConfigurationState(m, cid).state = "CONFIGURED" THEN DetachChannel(q, cid) ELSE q
  BY Zenon DEF close_channel
<1>4. ConfigurationState(m, cid).state = "CONFIGURED" <=> cid \in DOMAIN m.sender_map
  BY Zenon DEF ConfigurationState, NewState, Inv, Books
<1> HIDE DEF q
<1>5. /\ Same(q, r, {"sender_map"}) /\ DOMAIN r.sender_map = DOMAIN m.sender_map \ {cid}
  <2>1. CASE cid \in DOMAIN m.sender_map
    <3>1. r = [q EXCEPT !.sender_map = Without(@, cid)]
      BY <1>2, <1>3, <1>4, <2>1, Zenon DEF DetachChannel
    <3> HIDE DEF r
    <3> QED BY <1>2, <3>1, Zenon DEF Same, Fields, Without
  <2>2. CASE cid \notin DOMAIN m.sender_map
    BY <1>2, <1>3, <1>4, <2>2, Zenon DEF Same
  <2> QED BY <2>1, <2>2, Zenon
<1> HIDE DEF r
<1>6. /\ DOMAIN r = Fields
      /\ r.command_just_sent = m.command_just_sent /\ r.pending_commands = m.pending_commands
      /\ r.pending_dynamic = m.pending_dynamic /\ r.pending_configuration = m.pending_configuration
      /\ r.used_cid = m.used_cid \ {cid} /\ r.channels = Without(m.channels, cid)
      /\ r.pending_connection = m.pending_connection /\ r.configuration = Without(m.configuration, cid)
      /\ r.aborted = m.aborted /\ r.ask = m.ask
  BY <1>2, <1>5, Zenon DEF Same, Fields
<1>7. /\ DOMAIN r.configuration = DOMAIN m.configuration \ {cid}
      /\ \A c \in DOMAIN r.configuration : r.configuration[c] = m.configuration[c]
      /\ DOMAIN r.channels = DOMAIN m.channels \ {cid}
      /\ \A c \in DOMAIN r.channels : r.channels[c] = m.channels[c]
  BY <1>6, Zenon DEF Without
<1>8. Shape(r) /\ r.aborted \notin Asserts
  BY <1>6, <1>7, Zenon DEF Inv, Shape
<1>9. Books(r)
  <2>1. {c \in DOMAIN r.configuration : r.configuration[c].state = "CONFIGURED"}
          = {c \in DOMAIN m.configuration : m.configuration[c].state = "CONFIGURED"} \ {cid}
    BY <1>7, Zenon
  <2> QED BY <1>5, <1>6, <1>7, <2>1, Zenon DEF Inv, Books
<1>10. Waits(r)
  BY <1>6, <1>7 DEF Inv, Waits, Configured
<1>11. \A c : Opening(m, S, c) /\ Reserved(m, c) => Reserved(r, c)
  BY <1>6, <1>7, Zenon DEF Reserved
<1>12. Opens(r, S)
  BY <1>6, <1>11, SameOpens, Zenon DEF Inv
<1> QED BY <1>8, <1>9, <1>10, <1>12, Zenon DEF Inv, r

\* A channel is allocated, for an identifier that is not about to be opened.
LEMMA AllocateKeeps ==
  ASSUME NEW m, NEW S, Inv(m, S), NEW cid, NEW remote, NEW local \in BOOLEAN,
         cid # 0, cid \notin DOMAIN m.channels, remote \notin used_remote_cid(m), ~Opening(m, S, cid),
         local => cid \in DOMAIN m.pending_connection
  PROVE  LET r == AllocateChannel(m, cid, remote, local)
         IN Inv(r, S) /\ Same(m, r, {"used_cid", "channels"}) /\ cid \in DOMAIN r.channels
<1> DEFINE new == [remote |-> remote, local_initiated |-> local]
           r == AllocateChannel(m, cid, remote, local)
<1>1. /\ Same(m, r, {"used_cid", "channels"})
      /\ r.used_cid = m.used_cid \cup {cid} /\ r.channels = Put(m.channels, cid, new)
  BY Zenon DEF Inv, Shape, AllocateChannel, Same, Fields
<1> HIDE DEF r
<1>2. /\ DOMAIN r = Fields
      /\ r.command_just_sent = m.command_just_sent /\ r.pending_commands = m.pending_commands
      /\ r.pending_dynamic = m.pending_dynamic /\ r.pending_configuration = m.pending_configuration
      /\ r.configuration = m.configuration /\ r.pending_connection = m.pending_connection
      /\ r.sender_map = m.sender_map /\ r.aborted = m.aborted /\ r.ask = m.ask
  BY <1>1, Zenon DEF Same, Fields
<1>3. /\ DOMAIN r.channels = DOMAIN m.channels \cup {cid}
      /\ r.channels[cid].remote = remote /\ r.channels[cid].local_initiated = local
      /\ \A c \in DOMAIN m.channels : r.channels[c] = m.channels[c]
  BY <1>1 DEF Put
<1>4. \A c \in DOMAIN m.channels : m.channels[c].remote # remote
  BY Zenon DEF used_remote_cid
<1>5. Shape(r) /\ r.aborted \notin Asserts
  BY <1>2, Zenon DEF Inv, Shape
<1>6. Books(r)
  BY <1>1, <1>2, <1>3, <1>4 DEF Inv, Books
<1>7. Waits(r)
  BY <1>2, <1>3, Zenon DEF Inv, Waits, Configured
<1>8. \A c : Opening(m, S, c) /\ Reserved(m, c) => Reserved(r, c)
  BY <1>1, <1>2, <1>3, Zenon DEF Reserved
<1>9. Opens(r, S)
  BY <1>2, <1>8, SameOpens, Zenon DEF Inv
<1> QED BY <1>1, <1>3, <1>5, <1>6, <1>7, <1>9, Zenon DEF Inv, r
-----------------------------------------------------------------------------
\* ReserveChannel returns an identifier that is not in use, as long as there is one.
LEMMA ReserveIs ==
  ASSUME NEW m, Fresh(m) # {}
  PROVE  ReserveChannel(m) \in Fresh(m)
<1> DEFINE T == Fresh(m)
           R == OpToRel(<, Nat)
<1>1. T \subseteq Nat
  BY SignallingAssumption DEF Fresh, kLastDynamicChannel
<1>2. PICK x \in T : \A y \in T : ~(<<y, x>> \in R)
  <2>1. IsWellFoundedOn(R, Nat)
    BY NatLessThanWellFounded, Zenon
  <2> HIDE DEF T, R
  <2> QED BY <1>1, <2>1, WFMin, Zenon DEF T
<1>3. \A y \in T : x <= y
  <2> TAKE y \in T
  <2>1. x \in Nat /\ y \in Nat
    BY <1>1, Zenon
  <2>2. ~(y < x)
    BY <1>2, <2>1, Zenon DEF OpToRel
  <2> QED BY <2>1, <2>2
<1>4. \E c \in Fresh(m) : \A d \in Fresh(m) : c <= d
  BY <1>3, Zenon
<1> QED BY <1>4, Zenon DEF ReserveChannel

\* An identifier that is not in use is not about to be opened.
LEMMA FreshIs ==
  ASSUME NEW m, NEW S, Inv(m, S), NEW c \in Fresh(m)
  PROVE  c # 0 /\ c \notin m.used_cid /\ c \notin DOMAIN m.channels /\ ~Opening(m, S, c)
<1>1. c # 0 /\ c \notin m.used_cid
  BY SignallingAssumption DEF Fresh, kLastDynamicChannel
<1>2. c \notin DOMAIN m.channels
  BY <1>1, Zenon DEF Inv, Books
<1>3. ~Opening(m, S, c)
  BY <1>1, Zenon DEF Inv, Opens, Reserved
<1> QED BY <1>1, <1>2, <1>3, Zenon

\* What SendConnectionRequest changes.
Connecting == {"pending_dynamic", "waiting", "used_cid", "pending_connection", "ask"}

\* It only adds to the identifiers in use.
LEMMA ConnectGrows ==
  ASSUME NEW m, DOMAIN m = Fields, NEW request
  PROVE  LET r == SendConnectionRequest(m, request)
         IN Same(m, r, Connecting) /\ m.used_cid \subseteq r.used_cid
BY Zenon DEF SendConnectionRequest, Same, Connecting, Fields

\* The question for a reserved identifier goes to the security module.
LEMMA ConnectKeeps ==
  ASSUME NEW m, NEW S, Inv(m, S), NEW request, Fresh(m) # {}
  PROVE  Inv(SendConnectionRequest(m, request), S)
<1> DEFINE cid == ReserveChannel(m)
           new == [way |-> "out", cid |-> cid, id |-> 0]
           r == SendConnectionRequest(m, request)
           a == [m EXCEPT !.pending_dynamic = Append(@, request)]
           b == [m EXCEPT !.waiting = @ \ {request}]
           q == [m EXCEPT !.used_cid = @ \cup {cid}, !.pending_connection = Put(@, cid, request),
                          !.ask = @ \cup {new}]
<1>0. DOMAIN m = Fields /\ IsSeq(m.pending_dynamic) /\ IsSeq(m.pending_configuration)
  BY Zenon DEF Inv, Shape
<1>1. r = a \/ r = b \/ r = q
  BY Zenon DEF SendConnectionRequest
<1>2. Inv(a, S)
  <2>1. Same(m, a, Loose \cup {"pending_dynamic", "pending_configuration"})
    BY <1>0, Zenon DEF Same, Loose, Fields
  <2>2. IsSeq(a.pending_dynamic) /\ IsSeq(a.pending_configuration)
    BY <1>0, Appended, Zenon DEF Fields
  <2> HIDE DEF a
  <2> QED BY <2>1, <2>2, LooseKeeps, Zenon
<1>3. Inv(b, S)
  <2>1. Same(m, b, Loose \cup {"pending_dynamic", "pending_configuration"})
    BY <1>0, Zenon DEF Same, Loose, Fields
  <2>2. IsSeq(b.pending_dynamic) /\ IsSeq(b.pending_configuration)
    BY <1>0, Zenon DEF Fields
  <2> HIDE DEF b
  <2> QED BY <2>1, <2>2, LooseKeeps, Zenon
<1>4. Inv(q, S)
  <2>1. cid # 0 /\ cid \notin m.used_cid /\ cid \notin DOMAIN m.channels /\ ~Opening(m, S, cid)
    BY ReserveIs, FreshIs, Zenon
  <2>2. /\ Same(m, q, Connecting)
        /\ q.used_cid = m.used_cid \cup {cid} /\ q.pending_connection = Put(m.pending_connection, cid, request)
        /\ q.ask = m.ask \cup {new} /\ q.pending_dynamic = m.pending_dynamic
    BY <1>0, Zenon DEF Same, Connecting, Fields
  <2>3. new.way = "out" /\ new.cid = cid /\ new = [way |-> "out", cid |-> new.cid, id |-> 0]
    BY Zenon
  <2> HIDE DEF q, new, cid
  <2>4. /\ DOMAIN q = Fields
        /\ q.command_just_sent = m.command_just_sent /\ q.pending_commands = m.pending_commands
        /\ q.channels = m.channels /\ q.configuration = m.configuration
        /\ q.sender_map = m.sender_map /\ q.aborted = m.aborted
        /\ q.pending_configuration = m.pending_configuration
    BY <2>2, Zenon DEF Same, Connecting, Fields
  <2>5. DOMAIN q.pending_connection = DOMAIN m.pending_connection \cup {cid}
    BY <2>2, Zenon DEF Put
  <2>6. Shape(q) /\ Books(q) /\ Waits(q) /\ q.aborted \notin Asserts
    BY <2>2, <2>4, <2>5, Zenon DEF Inv, Shape, Books, Waits, Configured
  <2>7. \A c : /\ Asking(q, S, c) <=> Asking(m, S, c) \/ c = cid
               /\ JustSent(q, c) <=> JustSent(m, c)
               /\ \A i : InQueue(q, i, c) <=> InQueue(m, i, c)
    BY <2>2, <2>3, <2>4, Zenon DEF Asking, JustSent, InQueue
  <2>8. \A c : Opening(q, S, c) => c = cid \/ Opening(m, S, c)
    BY <2>7, Zenon DEF Opening
  <2>9. \A c : Reserved(m, c) \/ c = cid => Reserved(q, c)
    BY <2>1, <2>2, <2>4, <2>5, Zenon DEF Reserved
  <2>10. Opens(m, S)
    BY Zenon DEF Inv
  <2>11. \A c : Opening(q, S, c) => Reserved(q, c)
    BY <2>8, <2>9, <2>10, Zenon DEF Opens
  <2>12. \A x \in S \cup q.ask : x.way = "out" => x = [way |-> "out", cid |-> x.cid, id |-> 0]
    BY <2>2, <2>3, <2>10, Zenon DEF Opens
  <2>13. ~JustSent(m, cid) /\ \A i : ~InQueue(m, i, cid)
    BY <2>1, Zenon DEF Opening
  <2>14. \A c : /\ Asking(q, S, c) => ~JustSent(q, c) /\ \A i : ~InQueue(q, i, c)
                /\ JustSent(q, c) => \A i : ~InQueue(q, i, c)
                /\ \A i, j : InQueue(q, i, c) /\ InQueue(q, j, c) => i = j
    <3> TAKE c
    <3>1. CASE c = cid
      BY <2>7, <2>13, <3>1, Zenon
    <3>2. CASE c # cid
      BY <2>7, <2>10, <3>2, Zenon DEF Opens
    <3> QED BY <3>1, <3>2, Zenon
  <2>15. Opens(q, S)
    BY <2>11, <2>12, <2>14, Zenon DEF Opens
  <2> QED BY <2>6, <2>15, Zenon DEF Inv
<1> QED BY <1>1, <1>2, <1>3, <1>4, Zenon

\* A handler that stops for another reason than those of the data pipeline leaves the books alone.
LEMMA AbortKeeps ==
  ASSUME NEW m, NEW S, Inv(m, S), NEW why, why \notin Asserts
  PROVE  Inv(Abort(m, why), S) /\ Same(m, Abort(m, why), {"aborted"})
<1> DEFINE r == Abort(m, why)
<1>1. Same(m, r, {"aborted"}) /\ r.aborted = why
  BY Zenon DEF Inv, Shape, Same, Abort, Fields
<1> HIDE DEF r
<1>2. /\ DOMAIN r = Fields
      /\ r.command_just_sent = m.command_just_sent /\ r.pending_commands = m.pending_commands
      /\ r.used_cid = m.used_cid /\ r.channels = m.channels /\ r.configuration = m.configuration
      /\ r.pending_connection = m.pending_connection /\ r.sender_map = m.sender_map /\ r.ask = m.ask
      /\ r.pending_dynamic = m.pending_dynamic /\ r.pending_configuration = m.pending_configuration
  BY <1>1, Zenon DEF Same, Fields
<1>3. Shape(r) /\ Books(r) /\ Waits(r)
  BY <1>2, Zenon DEF Inv, Shape, Books, Waits, Configured
<1>4. \A c : Opening(m, S, c) /\ Reserved(m, c) => Reserved(r, c)
  BY <1>2, Zenon DEF Reserved
<1>5. Opens(r, S)
  BY <1>2, <1>4, SameOpens, Zenon DEF Inv
<1> QED BY <1>1, <1>3, <1>5, Zenon DEF Inv, r

\* channel_configuration_[cid] has a state, CONFIGURED exactly for the configured channels.
LEMMA StateIs ==
  ASSUME NEW m, NEW S, Inv(m, S), NEW cid
  PROVE  LET st == ConfigurationState(m, cid)
         IN "state" \in DOMAIN st /\ (st.state = "CONFIGURED" <=> Configured(m, cid))
BY Zenon DEF ConfigurationState, NewState, Configured, Inv, Shape

\* What SendInitialConfigRequest and its like change.
Configuring == Pushed \cup {"configuration", "aborted"}

\* The channel's configuration state is set and the request pushed.
LEMMA InitialKeeps ==
  ASSUME NEW m, NEW S, Inv(m, S), NEW cid
  PROVE  /\ Inv(SendInitialConfigRequest(m, cid), S)
         /\ Same(m, SendInitialConfigRequest(m, cid), Configuring)
<1>1. CASE cid \notin DOMAIN m.channels
  <2>1. SendInitialConfigRequest(m, cid) = Abort(m, "SendInitialConfigRequest")
    BY <1>1, Zenon DEF SendInitialConfigRequest
  <2>2. "SendInitialConfigRequest" \notin Asserts
    BY Zenon DEF Asserts
  <2> QED BY <2>1, <2>2, AbortKeeps DEF Same, Configuring
<1>2. CASE cid \in DOMAIN m.channels
  <2> DEFINE mode == IF m.service.mode = "BASIC" THEN "BASIC" ELSE "ERTM"
             old == ConfigurationState(m, cid)
             st == [old EXCEPT !.mode = mode, !.fcs = m.remote_supports]
             q == SetConfiguration(m, cid, st)
             config == [mtu |-> m.service.incoming_mtu, mode |-> IF mode = "BASIC" THEN "none" ELSE mode]
             remote == m.channels[cid].remote
             r == push(q, PendingCommand("CONFIGURATION_REQUEST", 0, remote, config))
  <2>1. SendInitialConfigRequest(m, cid) = r
    BY <1>2, Zenon DEF SendInitialConfigRequest, send_configuration_request
  <2>2. "state" \in DOMAIN old /\ (old.state = "CONFIGURED" <=> Configured(m, cid))
    BY StateIs, Zenon
  <2> HIDE DEF old, mode
  <2>3. "state" \in DOMAIN st /\ st.state = old.state
    BY <2>2, Zenon
  <2> HIDE DEF st
  <2>4. Inv(q, S) /\ Same(m, q, {"configuration"})
    BY <1>2, <2>2, <2>3, ConfigurationKeeps, Zenon
  <2> HIDE DEF q, config, remote
  <2>5. Inv(r, S) /\ Same(q, r, Pushed)
    BY <2>4, PushKeeps, Zenon
  <2>6. Same(m, r, Configuring)
    BY <2>4, <2>5, Zenon DEF Same, Configuring
  <2> QED BY <2>1, <2>5, <2>6, Zenon
<1> QED BY <1>1, <1>2, Zenon

\* Now or when the other end has told its features.
LEMMA InitialOrQueueKeeps ==
  ASSUME NEW m, NEW S, Inv(m, S), NEW cid
  PROVE  Inv(SendInitialConfigRequestOrQueue(m, cid), S)
<1> DEFINE q == [m EXCEPT !.pending_configuration = Append(@, cid)]
<1>1. DOMAIN m = Fields /\ IsSeq(m.pending_dynamic) /\ IsSeq(m.pending_configuration)
  BY Zenon DEF Inv, Shape
<1>2. Same(m, q, Loose \cup {"pending_dynamic", "pending_configuration"})
  BY <1>1, Zenon DEF Same, Loose, Fields
<1>3. IsSeq(q.pending_dynamic) /\ IsSeq(q.pending_configuration)
  BY <1>1, Appended, Zenon DEF Fields
<1>4. Inv(q, S)
  <2> HIDE DEF q
  <2> QED BY <1>2, <1>3, LooseKeeps, Zenon
<1> QED BY <1>4, InitialKeeps, Zenon DEF SendInitialConfigRequestOrQueue
-----------------------------------------------------------------------------
\* The loop of connect_to_pending_dynamic_channels over the first n requests of the list s.
Connected(m, s, n, f) ==
  f = [i \in 0..n |-> IF i = 0 THEN m ELSE SendConnectionRequest(f[i - 1], s[i])]

\* The loop has a result.
LEMMA ConnectedExists ==
  ASSUME NEW m, NEW s, NEW n \in Nat
  PROVE  \E f : Connected(m, s, n, f)
<1> DEFINE T == {k \in 0..n : \E f : Connected(m, s, k, f)}
<1>1. 0 \in T
  <2> DEFINE f == [i \in 0..0 |-> m]
  <2>1. Connected(m, s, 0, f)
    BY DEF Connected
  <2> QED BY <2>1
<1>2. ASSUME NEW k \in 0..n - 1, k \in T PROVE k + 1 \in T
  <2>1. PICK f : Connected(m, s, k, f)
    BY <1>2, Zenon
  <2> DEFINE g == [i \in 0..k + 1 |-> IF i <= k THEN f[i] ELSE SendConnectionRequest(f[k], s[k + 1])]
             h == [i \in 0..k + 1 |-> IF i = 0 THEN m ELSE SendConnectionRequest(g[i - 1], s[i])]
  <2>2. \A i \in 0..k : f[i] = IF i = 0 THEN m ELSE SendConnectionRequest(f[i - 1], s[i])
    BY <2>1, Zenon DEF Connected
  <2>3. ASSUME NEW i \in 0..k + 1 PROVE g[i] = h[i]
    <3>1. CASE i = 0
      BY <2>2, <3>1
    <3>2. CASE i \in 1..k
      BY <2>2, <3>2
    <3>3. CASE i = k + 1
      BY <3>3
    <3> QED BY <3>1, <3>2, <3>3
  <2>4. g = h
    BY <2>3, Zenon
  <2>5. Connected(m, s, k + 1, g)
    BY <2>4, Zenon DEF Connected
  <2> QED BY <2>5
<1> HIDE DEF T
<1>3. n \in T
  BY <1>1, <1>2, Induction
<1> QED BY <1>3, Zenon DEF T

\* The invariant holds after every turn of the loop that leaves an identifier free.
LEMMA ConnectedKeeps ==
  ASSUME NEW m, NEW S, Inv(m, S), NEW s, NEW n \in Nat, NEW f, Connected(m, s, n, f)
  PROVE  Same(m, f[n], Connecting) /\ (Fresh(f[n]) # {} => Inv(f[n], S))
<1> DEFINE T == {i \in 0..n : Same(m, f[i], Connecting) /\ (Fresh(f[i]) # {} => Inv(f[i], S))}
<1>1. \A i \in 0..n : f[i] = IF i = 0 THEN m ELSE SendConnectionRequest(f[i - 1], s[i])
  BY Zenon DEF Connected
<1>2. 0 \in T
  <2>1. f[0] = m
    BY <1>1
  <2> QED BY <2>1 DEF Same, Inv, Shape
<1>3. ASSUME NEW i \in 0..n - 1, i \in T PROVE i + 1 \in T
  <2> DEFINE x == f[i]
             r == f[i + 1]
  <2>1. r = SendConnectionRequest(x, s[i + 1])
    BY <1>1
  <2>2. Same(m, x, Connecting) /\ (Fresh(x) # {} => Inv(x, S))
    BY <1>3, Zenon
  <2> HIDE DEF x, r
  <2>3. Same(x, r, Connecting) /\ x.used_cid \subseteq r.used_cid
    BY <2>1, <2>2, ConnectGrows, Zenon DEF Same
  <2>4. Fresh(r) \subseteq Fresh(x)
    BY <2>3, Zenon DEF Fresh
  <2>5. Fresh(r) # {} => Inv(r, S)
    BY <2>1, <2>2, <2>4, ConnectKeeps, Zenon
  <2>6. Same(m, r, Connecting)
    BY <2>2, <2>3, Zenon DEF Same
  <2> QED BY <2>5, <2>6 DEF r
<1> HIDE DEF T
<1>4. n \in T
  BY <1>2, <1>3, Induction
<1> QED BY <1>4, Zenon DEF T

\* The same for the function.
LEMMA ConnectAllKeeps ==
  ASSUME NEW m, NEW S, Inv(m, S)
  PROVE  LET r == connect_to_pending_dynamic_channels(m)
         IN Same(m, r, Connecting) /\ (Fresh(r) # {} => Inv(r, S))
<1> DEFINE n == Len(m.pending_dynamic)
           f == CHOOSE g : Connected(m, m.pending_dynamic, n, g)
<1>1. n \in Nat
  BY Appended, Zenon DEF Inv, Shape
<1>2. connect_to_pending_dynamic_channels(m) = f[n]
  BY Zenon DEF connect_to_pending_dynamic_channels, Connected
<1> HIDE DEF n
<1>3. Connected(m, m.pending_dynamic, n, f)
  BY <1>1, ConnectedExists, Zenon
<1> QED BY <1>1, <1>2, <1>3, ConnectedKeeps, Zenon

\* The loop of send_pending_configuration_requests over the first n channels of the list s.
Initiated(m, s, n, f) ==
  f = [i \in 0..n |-> IF i = 0 THEN m ELSE SendInitialConfigRequest(f[i - 1], s[i])]

\* The loop has a result.
LEMMA InitiatedExists ==
  ASSUME NEW m, NEW s, NEW n \in Nat
  PROVE  \E f : Initiated(m, s, n, f)
<1> DEFINE T == {k \in 0..n : \E f : Initiated(m, s, k, f)}
<1>1. 0 \in T
  <2> DEFINE f == [i \in 0..0 |-> m]
  <2>1. Initiated(m, s, 0, f)
    BY DEF Initiated
  <2> QED BY <2>1
<1>2. ASSUME NEW k \in 0..n - 1, k \in T PROVE k + 1 \in T
  <2>1. PICK f : Initiated(m, s, k, f)
    BY <1>2, Zenon
  <2> DEFINE g == [i \in 0..k + 1 |-> IF i <= k THEN f[i] ELSE SendInitialConfigRequest(f[k], s[k + 1])]
             h == [i \in 0..k + 1 |-> IF i = 0 THEN m ELSE SendInitialConfigRequest(g[i - 1], s[i])]
  <2>2. \A i \in 0..k : f[i] = IF i = 0 THEN m ELSE SendInitialConfigRequest(f[i - 1], s[i])
    BY <2>1, Zenon DEF Initiated
  <2>3. ASSUME NEW i \in 0..k + 1 PROVE g[i] = h[i]
    <3>1. CASE i = 0
      BY <2>2, <3>1
    <3>2. CASE i \in 1..k
      BY <2>2, <3>2
    <3>3. CASE i = k + 1
      BY <3>3
    <3> QED BY <3>1, <3>2, <3>3
  <2>4. g = h
    BY <2>3, Zenon
  <2>5. Initiated(m, s, k + 1, g)
    BY <2>4, Zenon DEF Initiated
  <2> QED BY <2>5
<1> HIDE DEF T
<1>3. n \in T
  BY <1>1, <1>2, Induction
<1> QED BY <1>3, Zenon DEF T

\* push and handle_send_next_command change the fields that carry commands and no other.
LEMMA PushSame ==
  ASSUME NEW m, DOMAIN m = Fields, NEW c
  PROVE  Same(m, push(m, c), Pushed) /\ Same(m, handle_send_next_command(m), Pushed)
<1> DEFINE q == [m EXCEPT !.pending_commands = Append(@, [c EXCEPT !.id = m.next_signal_id]),
                          !.next_signal_id = (@ % 255) + 1]
<1>1. ASSUME NEW x, DOMAIN x = Fields PROVE Same(x, handle_send_next_command(x), Pushed)
  BY <1>1, Zenon DEF handle_send_next_command, Enqueue, Same, Pushed, Fields
<1>2. Same(m, q, Pushed)
  BY Zenon DEF Same, Pushed, Fields
<1>3. push(m, c) = IF m.command_just_sent.id = 0 THEN handle_send_next_command(q) ELSE q
  BY Zenon DEF push
<1> HIDE DEF q
<1>4. Same(q, handle_send_next_command(q), Pushed)
  BY <1>1, <1>2, Zenon DEF Same
<1> QED BY <1>1, <1>2, <1>3, <1>4, Zenon DEF Same

\* So does SendInitialConfigRequest, but for the configuration.
LEMMA InitialSame ==
  ASSUME NEW m, DOMAIN m = Fields, NEW cid
  PROVE  Same(m, SendInitialConfigRequest(m, cid), Configuring)
<1>1. Same(m, Abort(m, "SendInitialConfigRequest"), Configuring)
  BY Zenon DEF Abort, Same, Configuring, Fields
<1>2. ASSUME NEW st, NEW c
      PROVE  Same(m, push(SetConfiguration(m, cid, st), c), Configuring)
  <2> DEFINE q == SetConfiguration(m, cid, st)
  <2>1. Same(m, q, {"configuration"})
    BY Zenon DEF SetConfiguration, Same, Fields
  <2> HIDE DEF q
  <2>2. Same(q, push(q, c), Pushed)
    BY <2>1, PushSame, Zenon DEF Same
  <2>3. Same(m, push(q, c), Configuring)
    BY <2>1, <2>2, Zenon DEF Same, Configuring
  <2> QED BY <2>3, Zenon DEF q
<1> QED BY <1>1, <1>2, Zenon DEF SendInitialConfigRequest, send_configuration_request

\* The invariant holds after every turn of the loop.
LEMMA InitiatedKeeps ==
  ASSUME NEW m, DOMAIN m = Fields, NEW S, NEW s, NEW n \in Nat, NEW f, Initiated(m, s, n, f)
  PROVE  Same(m, f[n], Configuring) /\ (Inv(m, S) => Inv(f[n], S))
<1> DEFINE T == {i \in 0..n : Same(m, f[i], Configuring) /\ (Inv(m, S) => Inv(f[i], S))}
<1>1. \A i \in 0..n : f[i] = IF i = 0 THEN m ELSE SendInitialConfigRequest(f[i - 1], s[i])
  BY Zenon DEF Initiated
<1>2. 0 \in T
  <2>1. f[0] = m
    BY <1>1
  <2> QED BY <2>1 DEF Same
<1>3. ASSUME NEW i \in 0..n - 1, i \in T PROVE i + 1 \in T
  <2> DEFINE x == f[i]
             r == f[i + 1]
  <2>1. r = SendInitialConfigRequest(x, s[i + 1])
    BY <1>1
  <2>2. Same(m, x, Configuring) /\ (Inv(m, S) => Inv(x, S))
    BY <1>3, Zenon
  <2> HIDE DEF x, r
  <2>3. Same(x, r, Configuring)
    BY <2>1, <2>2, InitialSame, Zenon DEF Same
  <2>4. Inv(m, S) => Inv(r, S)
    BY <2>1, <2>2, InitialKeeps, Zenon
  <2>5. Same(m, r, Configuring)
    BY <2>2, <2>3, Zenon DEF Same
  <2> QED BY <2>4, <2>5 DEF r
<1> HIDE DEF T
<1>4. n \in T
  BY <1>2, <1>3, Induction
<1> QED BY <1>4, Zenon DEF T

\* The same for the function.
LEMMA InitiateAllKeeps ==
  ASSUME NEW m, DOMAIN m = Fields, IsSeq(m.pending_configuration), NEW S
  PROVE  LET r == send_pending_configuration_requests(m)
         IN /\ Same(m, r, Configuring \cup {"pending_configuration"})
            /\ Inv(m, S) => Inv(r, S)
<1> DEFINE n == Len(m.pending_configuration)
           f == CHOOSE g : Initiated(m, m.pending_configuration, n, g)
           x == f[n]
           r == [x EXCEPT !.pending_configuration = << >>]
<1>1. n \in Nat
  BY Appended, Zenon
<1>2. send_pending_configuration_requests(m) = r
  BY Zenon DEF send_pending_configuration_requests, Initiated
<1> HIDE DEF n
<1>3. Initiated(m, m.pending_configuration, n, f)
  BY <1>1, InitiatedExists, Zenon
<1>4. Same(m, x, Configuring) /\ (Inv(m, S) => Inv(x, S))
  BY <1>1, <1>3, InitiatedKeeps, Zenon
<1> HIDE DEF x
<1>5. /\ Same(x, r, {"pending_configuration"}) /\ r.pending_configuration = << >>
      /\ Same(m, r, Configuring \cup {"pending_configuration"})
      /\ Same(x, r, Loose \cup {"pending_dynamic", "pending_configuration"})
      /\ r.pending_dynamic = x.pending_dynamic
  BY <1>4, Zenon DEF Same, Fields
<1>6. IsSeq(<< >>)
  BY DEF IsSeq
<1> HIDE DEF r
<1>7. Inv(m, S) => Inv(r, S)
  BY <1>4, <1>5, <1>6, LooseKeeps, Zenon DEF Inv, Shape
<1> QED BY <1>2, <1>5, <1>7, Zenon
-----------------------------------------------------------------------------
\* The timer of the response is cancelled.
LEMMA CancelKeeps ==
  ASSUME NEW m, NEW S, Inv(m, S)
  PROVE  /\ Inv(Cancel(m), S) /\ Same(m, Cancel(m), {"alarm"})
         /\ \A c : (Opening(Cancel(m), S, c) <=> Opening(m, S, c)) /\ (Reserved(Cancel(m), c) <=> Reserved(m, c))
<1> DEFINE r == Cancel(m)
<1>1. Same(m, r, {"alarm"})
  BY Zenon DEF Inv, Shape, Same, Cancel, Fields
<1> HIDE DEF r
<1>2. /\ Same(m, r, Loose \cup {"pending_dynamic", "pending_configuration"})
      /\ r.pending_dynamic = m.pending_dynamic /\ r.pending_configuration = m.pending_configuration
      /\ r.command_just_sent = m.command_just_sent /\ r.pending_commands = m.pending_commands /\ r.ask = m.ask
      /\ r.used_cid = m.used_cid /\ r.channels = m.channels /\ r.pending_connection = m.pending_connection
  BY <1>1, Zenon DEF Same, Loose, Fields
<1>3. Inv(r, S)
  BY <1>2, LooseKeeps, Zenon DEF Inv, Shape
<1>4. \A c : Reserved(r, c) <=> Reserved(m, c)
  BY <1>2, Zenon DEF Reserved
<1>5. \A c : Opening(r, S, c) <=> Opening(m, S, c)
  BY <1>2, <1>4, SameOpens, Zenon DEF Inv
<1> QED BY <1>1, <1>3, <1>4, <1>5, Zenon DEF r

\* A handler that ends by sending the next command.
LEMMA ThenNextKeeps ==
  ASSUME NEW m, NEW S, Inv(m, S)
  PROVE  Inv(handle_send_next_command(m), S) /\ Inv(handle_send_next_command(Cancel(m)), S)
<1>1. ASSUME NEW x, Inv(x, S) PROVE Inv(handle_send_next_command(x), S)
  BY <1>1, ForgetKeeps, NextKeeps, Zenon DEF Inv, Shape
<1> QED BY <1>1, CancelKeeps, Zenon

\* Features of the other end arrive: channels that waited for them are opened and configured.
LEMMA FeaturesKeeps ==
  ASSUME NEW m, NEW S, Inv(m, S), NEW supported
  PROVE  LET r == OnRemoteExtendedFeatureReceived(m, supported)
         IN DOMAIN r = Fields /\ (Fresh(r) # {} => Inv(r, S))
<1> DEFINE q == [m EXCEPT !.remote_extended_feature_received = TRUE, !.remote_supports = supported]
           x == connect_to_pending_dynamic_channels(q)
           r == send_pending_configuration_requests(x)
<1>1. OnRemoteExtendedFeatureReceived(m, supported) = r
  BY Zenon DEF OnRemoteExtendedFeatureReceived
<1>2. DOMAIN m = Fields /\ IsSeq(m.pending_dynamic) /\ IsSeq(m.pending_configuration)
  BY Zenon DEF Inv, Shape
<1>3. /\ Same(m, q, Loose \cup {"pending_dynamic", "pending_configuration"})
      /\ q.pending_dynamic = m.pending_dynamic /\ q.pending_configuration = m.pending_configuration
  BY <1>2, Zenon DEF Same, Loose, Fields
<1> HIDE DEF q
<1>4. Inv(q, S)
  BY <1>2, <1>3, LooseKeeps, Zenon
<1>5. Same(q, x, Connecting) /\ (Fresh(x) # {} => Inv(x, S))
  BY <1>4, ConnectAllKeeps, Zenon
<1> HIDE DEF x
<1>6. DOMAIN x = Fields /\ IsSeq(x.pending_configuration)
  BY <1>2, <1>3, <1>5, Zenon DEF Same, Connecting, Fields
<1>7. /\ Same(x, r, Configuring \cup {"pending_configuration"})
      /\ Inv(x, S) => Inv(r, S)
  BY <1>6, InitiateAllKeeps, Zenon
<1> HIDE DEF r
<1>8. r.used_cid = x.used_cid /\ DOMAIN r = Fields
  BY <1>7, Zenon DEF Same, Configuring, Pushed, Fields
<1>9. Fresh(r) = Fresh(x)
  BY <1>8, Zenon DEF Fresh
<1> QED BY <1>1, <1>5, <1>7, <1>8, <1>9, Zenon

\* A configuration request opens the channel if it was the last thing missing.
LEMMA ConfigurationRequestKeeps ==
  ASSUME NEW m, NEW S, Inv(m, S), NEW r
  PROVE  Inv(OnConfigurationRequest(m, r), S)
<1>1. CASE r.dest \notin DOMAIN m.channels
  BY <1>1, Zenon DEF OnConfigurationRequest
<1>2. CASE r.dest \in DOMAIN m.channels
  <2> DEFINE cid == r.dest
             remote == m.channels[cid].remote
             low == r.config.mtu < m.service.minimal_remote_mtu
             answer == [r.config EXCEPT !.mtu = IF low THEN m.service.minimal_remote_mtu ELSE @]
             old == ConfigurationState(m, cid)
             st == adopt_mode(old, r.config)
             later == [st EXCEPT !.state = "WAIT_CONFIG_RSP"]
             q == CASE st.state = "WAIT_CONFIG_REQ" -> open_channel(m, cid, st)
                    [] st.state = "WAIT_CONFIG_REQ_RSP" -> SetConfiguration(m, cid, later)
                    [] OTHER -> SetConfiguration(m, cid, st)
             x == Response("CONFIGURATION_RESPONSE", r.id, remote, 0,
                           IF low THEN "UNACCEPTABLE" ELSE "SUCCESS", answer)
  <2>1. OnConfigurationRequest(m, r) =
          IF r.config.mode = "none" /\ m.service.mode = "ERTM"
          THEN SendDisconnectionRequest(SetConfiguration(m, cid, st), cid, remote)
          ELSE Enqueue(q, x)
    BY <1>2, Zenon DEF OnConfigurationRequest
  <2>2. "state" \in DOMAIN old /\ (old.state = "CONFIGURED" <=> Configured(m, cid))
    BY StateIs, Zenon
  <2> HIDE DEF old
  <2>3. "state" \in DOMAIN st /\ st.state = old.state
    BY <2>2, Zenon DEF adopt_mode
  <2> HIDE DEF st
  <2>4. "state" \in DOMAIN later /\ later.state = "WAIT_CONFIG_RSP"
    BY <2>3, Zenon
  <2> HIDE DEF later
  <2>5. Inv(SetConfiguration(m, cid, st), S)
    BY <1>2, <2>2, <2>3, ConfigurationKeeps, Zenon
  <2>6. st.state = "WAIT_CONFIG_REQ_RSP" => Inv(SetConfiguration(m, cid, later), S)
    BY <1>2, <2>2, <2>3, <2>4, ConfigurationKeeps, Zenon
  <2>7. st.state = "WAIT_CONFIG_REQ" => Inv(open_channel(m, cid, st), S)
    BY <1>2, <2>2, <2>3, OpenKeeps, Zenon
  <2>8. Inv(q, S)
    BY <2>5, <2>6, <2>7, Zenon
  <2> HIDE DEF q, x
  <2>9. Inv(Enqueue(q, x), S)
    BY <2>8, EnqueueKeeps, Zenon
  <2>10. Inv(SendDisconnectionRequest(SetConfiguration(m, cid, st), cid, remote), S)
    BY <2>5, PushKeeps, Zenon DEF SendDisconnectionRequest
  <2> QED BY <2>1, <2>9, <2>10, Zenon
<1> QED BY <1>1, <1>2, Zenon

\* So does a configuration response.
LEMMA ConfigurationResponseKeeps ==
  ASSUME NEW m, NEW S, Inv(m, S), NEW r
  PROVE  Inv(OnConfigurationResponse(m, r), S)
<1>1. CASE ~Expected(m, r, "CONFIGURATION_REQUEST")
  BY <1>1, Zenon DEF OnConfigurationResponse
<1>2. CASE Expected(m, r, "CONFIGURATION_REQUEST") /\ r.source \notin DOMAIN m.channels
  BY <1>2, ThenNextKeeps, Zenon DEF OnConfigurationResponse
<1>3. CASE Expected(m, r, "CONFIGURATION_REQUEST") /\ r.source \in DOMAIN m.channels
  <2> DEFINE cid == r.source
             st == ConfigurationState(m, cid)
             later == [st EXCEPT !.state = "WAIT_CONFIG_REQ"]
             q == IF r.result = "UNACCEPTABLE" THEN negotiate_configuration(m, cid, r.config)
                  ELSE IF r.config.mode \notin {"none", st.mode}
                  THEN SendDisconnectionRequest(m, cid, m.channels[cid].remote)
                  ELSE CASE st.state = "WAIT_CONFIG_RSP" -> open_channel(m, cid, st)
                         [] st.state = "WAIT_CONFIG_REQ_RSP" -> SetConfiguration(m, cid, later)
                         [] OTHER -> m
  <2>1. OnConfigurationResponse(m, r) = handle_send_next_command(Cancel(q))
    BY <1>3, Zenon DEF OnConfigurationResponse
  <2>2. "state" \in DOMAIN st /\ (st.state = "CONFIGURED" <=> Configured(m, cid))
    BY StateIs, Zenon
  <2>3. Inv(negotiate_configuration(m, cid, r.config), S)
    <3> DEFINE new == adopt_mode(st, r.config)
               y == SetConfiguration(m, cid, new)
    <3>1. "state" \in DOMAIN new /\ new.state = st.state
      <4> HIDE DEF st
      <4> QED BY <2>2, Zenon DEF adopt_mode
    <3>2. negotiate_configuration(m, cid, r.config) =
            send_configuration_request(y, m.channels[cid].remote, [r.config EXCEPT !.mtu = kDefaultClassicMtu])
      BY Zenon DEF negotiate_configuration
    <3> HIDE DEF new
    <3>3. Inv(y, S)
      BY <1>3, <2>2, <3>1, ConfigurationKeeps, Zenon
    <3> QED BY <3>2, <3>3, PushKeeps DEF send_configuration_request
  <2> HIDE DEF st
  <2>4. "state" \in DOMAIN later /\ later.state = "WAIT_CONFIG_REQ"
    BY <2>2, Zenon
  <2> HIDE DEF later
  <2>5. st.state = "WAIT_CONFIG_REQ_RSP" => Inv(SetConfiguration(m, cid, later), S)
    BY <1>3, <2>2, <2>4, ConfigurationKeeps, Zenon
  <2>6. st.state = "WAIT_CONFIG_RSP" => Inv(open_channel(m, cid, st), S)
    BY <1>3, <2>2, OpenKeeps, Zenon
  <2>7. Inv(SendDisconnectionRequest(m, cid, m.channels[cid].remote), S)
    BY PushKeeps, Zenon DEF SendDisconnectionRequest
  <2>8. Inv(q, S)
    BY <2>3, <2>5, <2>6, <2>7, Zenon
  <2> QED BY <2>1, <2>8, ThenNextKeeps, Zenon
<1> QED BY <1>1, <1>2, <1>3, Zenon

\* A connection response ends the opening of the identifier that the request was for: its
\* channel is allocated, or it is free again.
LEMMA ConnectionResponseKeeps ==
  ASSUME NEW m, NEW S, Inv(m, S), NEW r
  PROVE  Inv(OnConnectionResponse(m, r), S)
<1> DEFINE cid == r.source
           x == Forget(m)
           q == Cancel(x)
           fail == OnOutgoingConnectionRequestFail(q, cid)
           new == AllocateChannel(q, cid, r.dest, TRUE)
<1>1. CASE ~Expected(m, r, "CONNECTION_REQUEST")
  BY <1>1, Zenon DEF OnConnectionResponse
<1>2. CASE Expected(m, r, "CONNECTION_REQUEST") /\ m.command_just_sent.source # r.source
  BY <1>2, ThenNextKeeps, Zenon DEF OnConnectionResponse
<1>3. CASE Expected(m, r, "CONNECTION_REQUEST") /\ m.command_just_sent.source = r.source
  <2>1. OnConnectionResponse(m, r) =
          IF r.result # "SUCCESS" THEN handle_send_next_command(fail)
          ELSE IF r.dest \in used_remote_cid(m) \/ cid \in DOMAIN m.channels
          THEN Abort(q, "OnConnectionResponse")
          ELSE SendInitialConfigRequestOrQueue(new, cid)
    BY <1>3, Zenon DEF OnConnectionResponse, Forget
  <2>2. JustSent(m, cid)
    BY <1>3, Zenon DEF Expected, JustSent
  <2>3. /\ Inv(x, S) /\ Same(m, x, {"command_just_sent"})
        /\ ~Opening(x, S, cid) /\ Reserved(x, cid)
    BY <2>2, ForgetKeeps, Zenon
  <2> HIDE DEF x
  <2>4. /\ Inv(q, S) /\ Same(x, q, {"alarm"})
        /\ ~Opening(q, S, cid) /\ Reserved(q, cid)
    BY <2>3, CancelKeeps, Zenon
  <2> HIDE DEF q
  <2>5. q.channels = m.channels /\ DOMAIN q = Fields
    BY <2>3, <2>4, Zenon DEF Same, Fields
  <2>6. Inv(handle_send_next_command(fail), S)
    <3>1. Inv(fail, S)
      BY <2>4, <2>5, FailIs, FailKeeps, Zenon DEF Reserved
    <3> QED BY <3>1, ThenNextKeeps, Zenon
  <2>7. Inv(Abort(q, "OnConnectionResponse"), S)
    BY <2>4, AbortKeeps, Zenon DEF Asserts
  <2>8. ASSUME r.dest \notin used_remote_cid(m)
        PROVE  Inv(SendInitialConfigRequestOrQueue(new, cid), S)
    <3>1. r.dest \notin used_remote_cid(q)
      BY <2>5, <2>8, Zenon DEF used_remote_cid
    <3>2. Inv(new, S)
      BY <2>4, <3>1, AllocateKeeps, Zenon DEF Reserved
    <3> QED BY <3>2, InitialOrQueueKeeps, Zenon
  <2> QED BY <2>1, <2>6, <2>7, <2>8, Zenon
<1> QED BY <1>1, <1>2, <1>3, Zenon

\* A question about a channel that the other end opens is none about one of this end.
LEMMA ConnectionRequestKeeps ==
  ASSUME NEW m, NEW S, Inv(m, S), NEW r
  PROVE  Inv(OnConnectionRequest(m, r), S)
<1> DEFINE x == [way |-> "in", cid |-> r.source, id |-> r.id]
           q == [m EXCEPT !.ask = @ \cup {x}]
<1>1. Inv(send_connection_response(m, r.id, r.source, 0, "PSM_NOT_SUPPORTED"), S)
  BY EnqueueKeeps, Zenon DEF send_connection_response
<1>2. Inv(q, S)
  <2>1. Same(m, q, {"ask"}) /\ q.ask = m.ask \cup {x} /\ x.way # "out"
    BY Zenon DEF Inv, Shape, Same, Fields
  <2> HIDE DEF q, x
  <2>2. /\ DOMAIN q = Fields
        /\ q.command_just_sent = m.command_just_sent /\ q.pending_commands = m.pending_commands
        /\ q.used_cid = m.used_cid /\ q.channels = m.channels /\ q.configuration = m.configuration
        /\ q.pending_connection = m.pending_connection /\ q.sender_map = m.sender_map
        /\ q.pending_dynamic = m.pending_dynamic /\ q.pending_configuration = m.pending_configuration
        /\ q.aborted = m.aborted
    BY <2>1, Zenon DEF Same, Fields
  <2>3. Shape(q) /\ Books(q) /\ Waits(q) /\ q.aborted \notin Asserts
    BY <2>2, Zenon DEF Inv, Shape, Books, Waits, Configured
  <2>4. \A c : /\ Asking(q, S, c) => Asking(m, S, c)
               /\ JustSent(q, c) => JustSent(m, c)
               /\ \A i : InQueue(q, i, c) => InQueue(m, i, c)
               /\ Reserved(m, c) => Reserved(q, c)
    BY <2>1, <2>2, Zenon DEF Asking, JustSent, InQueue, Reserved
  <2>5. Opens(m, S)
    BY Zenon DEF Inv
  <2>6. \A y \in S \cup q.ask : y.way = "out" => y = [way |-> "out", cid |-> y.cid, id |-> 0]
    BY <2>1, <2>5, Zenon DEF Opens
  <2>7. Opens(q, S)
    BY <2>4, <2>5, <2>6, FewerOpen, Zenon
  <2> QED BY <2>3, <2>7, Zenon DEF Inv
<1> QED BY <1>1, <1>2, Zenon DEF OnConnectionRequest

\* Both sides of closing a channel.
LEMMA DisconnectionKeeps ==
  ASSUME NEW m, NEW S, Inv(m, S), NEW r
  PROVE  Inv(OnDisconnectionRequest(m, r), S) /\ Inv(OnDisconnectionResponse(m, r), S)
<1>1. Inv(OnDisconnectionRequest(m, r), S)
  <2> DEFINE x == Response("DISCONNECTION_RESPONSE", r.id, r.source, r.dest, "SUCCESS", NoConfig)
             q == Enqueue(m, x)
  <2>1. OnDisconnectionRequest(m, r) = IF r.dest \notin DOMAIN m.channels THEN m ELSE close_channel(q, r.dest)
    BY Zenon DEF OnDisconnectionRequest
  <2> HIDE DEF x
  <2>2. Inv(q, S) /\ Same(m, q, {"out"})
    BY EnqueueKeeps, Zenon
  <2> HIDE DEF q
  <2>3. q.channels = m.channels
    BY <2>2, Zenon DEF Same, Fields
  <2> QED BY <2>1, <2>2, <2>3, CloseKeeps, Zenon
<1>2. Inv(OnDisconnectionResponse(m, r), S)
  BY CloseKeeps, ThenNextKeeps, Zenon DEF OnDisconnectionResponse
<1> QED BY <1>1, <1>2, Zenon

\* Information about the other end.
LEMMA InformationKeeps ==
  ASSUME NEW m, NEW S, Inv(m, S), NEW r
  PROVE  /\ Inv(OnInformationRequest(m, r), S)
         /\ DOMAIN OnInformationResponse(m, r) = Fields
         /\ Fresh(OnInformationResponse(m, r)) # {} => Inv(OnInformationResponse(m, r), S)
<1>1. Inv(OnInformationRequest(m, r), S)
  BY EnqueueKeeps, Zenon DEF OnInformationRequest
<1> DEFINE x == OnRemoteExtendedFeatureReceived(m, TRUE)
           y == handle_send_next_command(Cancel(x))
<1>2. DOMAIN x = Fields /\ (Fresh(x) # {} => Inv(x, S))
  BY FeaturesKeeps, Zenon
<1> HIDE DEF x
<1>3. Same(x, Cancel(x), {"alarm"})
  BY <1>2, Zenon DEF Same, Cancel, Fields
<1>4. Same(Cancel(x), y, Pushed)
  BY <1>3, PushSame, Zenon DEF Same
<1>5. y.used_cid = x.used_cid /\ DOMAIN y = Fields
  BY <1>3, <1>4, Zenon DEF Same, Pushed, Fields
<1>6. Fresh(y) = Fresh(x)
  BY <1>5, Zenon DEF Fresh
<1>7. Fresh(y) # {} => Inv(y, S)
  BY <1>2, <1>6, ThenNextKeeps, Zenon
<1>8. Inv(handle_send_next_command(Cancel(m)), S)
  BY ThenNextKeeps, Zenon
<1>9. \/ OnInformationResponse(m, r) = m \/ OnInformationResponse(m, r) = y
      \/ OnInformationResponse(m, r) = handle_send_next_command(Cancel(m))
  BY Zenon DEF OnInformationResponse, x
<1> QED BY <1>1, <1>5, <1>7, <1>8, <1>9, Zenon DEF Inv, Shape

\* A command was not answered in time.
LEMMA TimeoutKeeps ==
  ASSUME NEW m, NEW S, Inv(m, S)
  PROVE  /\ DOMAIN on_command_timeout(m) = Fields
         /\ Fresh(on_command_timeout(m)) # {} => Inv(on_command_timeout(m), S)
<1> DEFINE c == m.command_just_sent
           q == Cancel(m)
           fail == OnOutgoingConnectionRequestFail(q, c.source)
           x == OnRemoteExtendedFeatureReceived(q, FALSE)
<1>1. /\ Inv(q, S) /\ Same(m, q, {"alarm"})
      /\ \A d : (Opening(q, S, d) <=> Opening(m, S, d)) /\ (Reserved(q, d) <=> Reserved(m, d))
  BY CancelKeeps, Zenon
<1>0. \A r : Inv(r, S) => DOMAIN r = Fields
  BY Zenon DEF Inv, Shape
<1>2. CASE c.id = 0
  BY <1>0, <1>1, <1>2, Zenon DEF on_command_timeout
<1>3. CASE c.id # 0 /\ c.code = "CONNECTION_REQUEST"
  <2>1. on_command_timeout(m) = handle_send_next_command(fail)
    BY <1>3, Zenon DEF on_command_timeout
  <2> HIDE DEF q
  <2>2. JustSent(q, c.source) /\ DOMAIN q = Fields
    BY <1>1, <1>3, Zenon DEF JustSent, Same, Fields
  <2>3. /\ Inv(Forget(q), S) /\ Same(q, Forget(q), {"command_just_sent"})
        /\ ~Opening(Forget(q), S, c.source) /\ Reserved(Forget(q), c.source)
    BY <1>1, <2>2, ForgetKeeps, Zenon
  <2>4. Failed(q, c.source, fail)
    BY <2>2, FailIs, Zenon
  <2> HIDE DEF fail
  <2>5. Failed(Forget(q), c.source, Forget(fail)) /\ DOMAIN fail = Fields
    BY <2>2, <2>4, Zenon DEF Failed, Same, Forget, Fields
  <2>6. Inv(Forget(fail), S)
    BY <2>3, <2>5, FailKeeps, Zenon DEF Reserved
  <2> QED BY <1>0, <2>1, <2>5, <2>6, NextKeeps, Zenon
<1>4. CASE c.id # 0 /\ c.code = "CONFIGURATION_REQUEST"
  <2> DEFINE lost == FindChannelByRemoteCid(m, c.dest)
             cid == CHOOSE d \in lost : TRUE
  <2>1. on_command_timeout(m) = IF lost = {} THEN Abort(q, "on_command_timeout")
                                ELSE SendDisconnectionRequest(q, cid, c.dest)
    BY <1>4, Zenon DEF on_command_timeout
  <2>2. Inv(Abort(q, "on_command_timeout"), S)
    BY <1>1, AbortKeeps, Zenon DEF Asserts
  <2>3. Inv(SendDisconnectionRequest(q, cid, c.dest), S)
    BY <1>1, PushKeeps, Zenon DEF SendDisconnectionRequest
  <2> QED BY <1>0, <2>1, <2>2, <2>3, Zenon
<1>5. CASE c.id # 0 /\ c.code = "EXTENDED_FEATURES"
  <2>1. on_command_timeout(m) = handle_send_next_command(x)
    BY <1>5, Zenon DEF on_command_timeout
  <2>2. DOMAIN x = Fields /\ (Fresh(x) # {} => Inv(x, S))
    BY <1>1, FeaturesKeeps, Zenon
  <2> HIDE DEF x
  <2>3. Same(x, handle_send_next_command(x), Pushed)
    BY <2>2, PushSame, Zenon
  <2>4. Fresh(handle_send_next_command(x)) = Fresh(x) /\ DOMAIN handle_send_next_command(x) = Fields
    BY <2>3, Zenon DEF Same, Pushed, Fields, Fresh
  <2> QED BY <2>1, <2>2, <2>4, ThenNextKeeps, Zenon
<1>6. CASE /\ c.id # 0
           /\ c.code \notin {"CONNECTION_REQUEST", "CONFIGURATION_REQUEST", "EXTENDED_FEATURES"}
  <2>1. on_command_timeout(m) = handle_send_next_command(q)
    BY <1>6, Zenon DEF on_command_timeout
  <2> QED BY <1>0, <1>1, <2>1, ThenNextKeeps, Zenon
<1> QED BY <1>2, <1>3, <1>4, <1>5, <1>6, Zenon

\* A question is taken from those that the security module has still to answer.
LEMMA AnswerKeeps ==
  ASSUME NEW m, NEW S, Inv(m, S), m.ask = {}, NEW q \in S
  PROVE  /\ Inv(m, S \ {q})
         /\ q.way = "out" => ~Opening(m, S \ {q}, q.cid) /\ Reserved(m, q.cid)
<1> DEFINE U == S \ {q}
<1>1. Opens(m, S)
  BY Zenon DEF Inv
<1>2. \A c : Asking(m, U, c) => Asking(m, S, c)
  BY Zenon DEF Asking
<1>3. \A y \in U \cup m.ask : y.way = "out" => y = [way |-> "out", cid |-> y.cid, id |-> 0]
  BY <1>1, Zenon DEF Opens
<1>4. Opens(m, U)
  BY <1>1, <1>2, <1>3, FewerOpen, Zenon
<1>5. Inv(m, U)
  BY <1>4, Zenon DEF Inv
<1>6. ASSUME q.way = "out" PROVE ~Opening(m, U, q.cid) /\ Reserved(m, q.cid)
  <2>1. Asking(m, S, q.cid)
    BY <1>6, Zenon DEF Asking
  <2>2. ~JustSent(m, q.cid) /\ \A i : ~InQueue(m, i, q.cid)
    BY <1>1, <2>1, Zenon DEF Opens
  <2>3. ~Asking(m, U, q.cid)
    BY <1>1, <1>6, Zenon DEF Opens, Asking
  <2>4. ~Opening(m, U, q.cid)
    BY <2>2, <2>3, Zenon DEF Opening
  <2>5. Reserved(m, q.cid)
    BY <1>1, <2>1, Zenon DEF Opens, Opening
  <2> QED BY <2>4, <2>5, Zenon
<1> QED BY <1>5, <1>6, Zenon

\* The security module answers about a channel of this end: the request is sent or fails.
LEMMA OutgoingKeeps ==
  ASSUME NEW m, NEW S, Inv(m, S), NEW cid, NEW result, ~Opening(m, S, cid), Reserved(m, cid)
  PROVE  Inv(on_security_result_for_outgoing(m, cid, result), S)
<1>1. Inv(OnOutgoingConnectionRequestFail(m, cid), S)
  BY FailIs, FailKeeps, Zenon DEF Reserved, Inv, Shape
<1>2. Inv(push(m, PendingCommand("CONNECTION_REQUEST", cid, 0, NoConfig)), S)
  BY PushKeeps, Zenon
<1> QED BY <1>1, <1>2, Zenon DEF on_security_result_for_outgoing

\* It answers about a channel of the other end; that the channel is allocated even when it was
\* refused leaves the books in order.
LEMMA IncomingKeeps ==
  ASSUME NEW m, NEW S, Inv(m, S), NEW remote, NEW id, NEW result
  PROVE  Inv(on_security_result_for_incoming(m, remote, id, result), S)
<1> DEFINE x == send_connection_response(m, id, remote, 0, "SECURITY_BLOCK")
           q == IF result THEN m ELSE OnOutgoingConnectionRequestFail(x, 0)
           cid == ReserveChannel(q)
           new == AllocateChannel(q, cid, remote, FALSE)
           y == send_connection_response(new, id, remote, cid, "SUCCESS")
<1>1. on_security_result_for_incoming(m, remote, id, result) =
        IF remote \in used_remote_cid(q) \/ cid = 0 THEN q ELSE SendInitialConfigRequestOrQueue(y, cid)
  BY Zenon DEF on_security_result_for_incoming
<1>2. Inv(x, S)
  BY EnqueueKeeps, Zenon DEF send_connection_response
<1>3. ~Opening(x, S, 0) /\ 0 \notin DOMAIN x.channels /\ DOMAIN x = Fields
  <2>1. Opens(x, S) /\ 0 \notin DOMAIN x.channels /\ DOMAIN x = Fields
    BY <1>2, Zenon DEF Inv, Books, Shape
  <2>2. ~Reserved(x, 0)
    BY Zenon DEF Reserved
  <2> QED BY <2>1, <2>2, Zenon DEF Opens
<1> HIDE DEF x
<1>4. Inv(OnOutgoingConnectionRequestFail(x, 0), S)
  BY <1>2, <1>3, FailIs, FailKeeps, Zenon
<1>5. Inv(q, S)
  BY <1>4, Zenon
<1> HIDE DEF q
<1>6. ASSUME remote \notin used_remote_cid(q), cid # 0
      PROVE  Inv(SendInitialConfigRequestOrQueue(y, cid), S)
  <2>1. cid \in Fresh(q)
    BY <1>6, ReserveIs, Zenon DEF ReserveChannel
  <2> HIDE DEF cid
  <2>2. Inv(new, S)
    BY <1>5, <1>6, <2>1, FreshIs, AllocateKeeps, Zenon
  <2> HIDE DEF new
  <2>3. Inv(y, S)
    BY <2>2, EnqueueKeeps, Zenon DEF send_connection_response
  <2> QED BY <2>3, InitialOrQueueKeeps, Zenon
<1> QED BY <1>1, <1>5, <1>6, Zenon

\* Whatever the packet is.
LEMMA CommandKeeps ==
  ASSUME NEW m, NEW S, Inv(m, S), NEW r
  PROVE  /\ DOMAIN handle_one_command(m, r) = Fields
         /\ Fresh(handle_one_command(m, r)) # {} => Inv(handle_one_command(m, r), S)
<1>1. \A x : Inv(x, S) => DOMAIN x = Fields
  BY Zenon DEF Inv, Shape
<1> QED BY <1>1, ConnectionRequestKeeps, ConnectionResponseKeeps, ConfigurationRequestKeeps,
           ConfigurationResponseKeeps, DisconnectionKeeps, InformationKeeps, Zenon
        DEF handle_one_command
-----------------------------------------------------------------------------
\* What a handler sent and asked leaves the end.
LEMMA LeavesKeeps ==
  ASSUME NEW m, NEW S, Inv(m, S)
  PROVE  LET r == [m EXCEPT !.out = << >>, !.ask = {}]
         IN Inv(r, S \cup m.ask) /\ r.ask = {} /\ Fresh(r) = Fresh(m)
<1> DEFINE r == [m EXCEPT !.out = << >>, !.ask = {}]
           U == S \cup m.ask
<1>1. Same(m, r, {"out", "ask"}) /\ r.ask = {}
  BY Zenon DEF Inv, Shape, Same, Fields
<1> HIDE DEF r
<1>2. /\ DOMAIN r = Fields
      /\ r.command_just_sent = m.command_just_sent /\ r.pending_commands = m.pending_commands
      /\ r.used_cid = m.used_cid /\ r.channels = m.channels /\ r.configuration = m.configuration
      /\ r.pending_connection = m.pending_connection /\ r.sender_map = m.sender_map
      /\ r.pending_dynamic = m.pending_dynamic /\ r.pending_configuration = m.pending_configuration
      /\ r.aborted = m.aborted
  BY <1>1, Zenon DEF Same, Fields
<1>3. Shape(r) /\ Books(r) /\ Waits(r) /\ r.aborted \notin Asserts
  BY <1>2, Zenon DEF Inv, Shape, Books, Waits, Configured
<1>4. \A c : /\ Asking(r, U, c) => Asking(m, S, c)
             /\ JustSent(r, c) => JustSent(m, c)
             /\ \A i : InQueue(r, i, c) => InQueue(m, i, c)
             /\ Reserved(m, c) => Reserved(r, c)
  BY <1>1, <1>2, Zenon DEF Asking, JustSent, InQueue, Reserved
<1>5. Opens(m, S)
  BY Zenon DEF Inv
<1>6. \A y \in U \cup r.ask : y.way = "out" => y = [way |-> "out", cid |-> y.cid, id |-> 0]
  BY <1>1, <1>5, Zenon DEF Opens
<1>7. Opens(r, U)
  BY <1>4, <1>5, <1>6, FewerOpen, Zenon
<1>8. Fresh(r) = Fresh(m)
  BY <1>2, Zenon DEF Fresh
<1> QED BY <1>1, <1>3, <1>7, <1>8, Zenon DEF Inv, r

\* An identifier is free at each end: the code has 65472.
Available == \A p \in Ends : Fresh(end[p]) # {}

\* The inductive invariant.
IInv ==
  /\ DOMAIN end = Ends /\ security = [p \in Ends |-> security[p]]
  /\ \A p \in Ends : Inv(end[p], security[p]) /\ end[p].ask = {}

\* A link starts with two information requests and no channel.
LEMMA InitKeeps == Init => IInv
<1> SUFFICES ASSUME Init PROVE IInv
  BY Zenon
<1>1. PICK option \in [Ends -> Options], requests \in [Ends -> {<< >>, <<1>>}] :
        /\ end = [p \in Ends |-> Started(option, requests, p)]
        /\ security = [p \in Ends |-> {}]
  BY Zenon DEF Init
<1>2. ASSUME NEW p \in Ends PROVE Inv(end[p], security[p]) /\ end[p].ask = {}
  <2> DEFINE list == requests[p]
             m == [service |-> option[p], next_signal_id |-> 1, command_just_sent |-> NoCommand,
                   pending_commands |-> << >>, alarm |-> FALSE,
                   remote_extended_feature_received |-> FALSE, remote_supports |-> FALSE,
                   pending_dynamic |-> list, pending_configuration |-> << >>,
                   used_cid |-> {}, channels |-> << >>, configuration |-> << >>,
                   pending_connection |-> << >>, sender_map |-> << >>,
                   requests |-> Len(list), waiting |-> {list[i] : i \in DOMAIN list},
                   aborted |-> "no", out |-> << >>, ask |-> {}]
             a == push(m, PendingCommand("EXTENDED_FEATURES", 0, 0, NoConfig))
             b == push(a, PendingCommand("FIXED_CHANNELS", 0, 0, NoConfig))
             r == [b EXCEPT !.out = << >>]
  <2>1. end[p] = r /\ security[p] = {}
    BY <1>1, Zenon DEF Started, Link, SendInformationRequest
  <2>2. list \in {<< >>, <<1>>}
    BY Zenon
  <2>3. IsSeq(list) /\ IsSeq(<< >>)
    <3>1. << >> \in Seq(Nat) /\ <<1>> \in Seq(Nat)
      OBVIOUS
    <3> QED BY <2>2, <3>1, Zenon DEF IsSeq
  <2> HIDE DEF list
  <2>4. /\ DOMAIN m = Fields /\ m.pending_commands = << >> /\ m.pending_dynamic = list
        /\ m.pending_configuration = << >> /\ m.channels = << >> /\ m.configuration = << >>
        /\ m.pending_connection = << >> /\ m.sender_map = << >> /\ m.used_cid = {}
        /\ m.ask = {} /\ m.aborted = "no" /\ m.command_just_sent = NoCommand
    BY Zenon DEF Fields
  <2> HIDE DEF m
  <2>5. DOMAIN << >> = {} /\ Len(<< >>) = 0
    OBVIOUS
  <2>6. Shape(m) /\ Books(m) /\ Waits(m) /\ m.aborted \notin Asserts
    BY <2>3, <2>4, <2>5, Zenon DEF Shape, Books, Waits, Asserts
  <2>7. \A c : ~Asking(m, {}, c) /\ ~JustSent(m, c) /\ \A i : ~InQueue(m, i, c)
    BY <2>4, <2>5 DEF Asking, JustSent, InQueue, NoCommand, PendingCommand
  <2>8. \A c : ~Opening(m, {}, c)
    BY <2>7, Zenon DEF Opening
  <2>9. Opens(m, {})
    BY <2>4, <2>7, <2>8, Zenon DEF Opens
  <2>10. Inv(m, {})
    BY <2>6, <2>9, Zenon DEF Inv
  <2>11. Inv(a, {}) /\ Same(m, a, Pushed)
    BY <2>10, PushKeeps, Zenon
  <2> HIDE DEF a
  <2>12. Inv(b, {}) /\ Same(a, b, Pushed)
    BY <2>11, PushKeeps, Zenon
  <2> HIDE DEF b
  <2>13. /\ Same(b, r, {"out"}) /\ r.ask = {}
         /\ Same(b, r, Loose \cup {"pending_dynamic", "pending_configuration"})
         /\ r.pending_dynamic = b.pending_dynamic /\ r.pending_configuration = b.pending_configuration
    BY <2>4, <2>11, <2>12, Zenon DEF Same, Pushed, Loose, Fields
  <2> HIDE DEF r
  <2>14. Inv(r, {})
    BY <2>12, <2>13, LooseKeeps, Zenon DEF Inv, Shape
  <2> QED BY <2>1, <2>13, <2>14, Zenon
<1> QED BY <1>1, <1>2, Zenon DEF IInv

\* A handler of p that leaves m keeps the invariant, when left are the earlier questions of p
\* that are still to be answered.
LEMMA RanKeeps ==
  ASSUME IInv, NEW p \in Ends, NEW m, NEW rest, Ran(p, m, rest), NEW left,
         security' = [security EXCEPT ![p] = left \cup m.ask],
         Fresh(end'[p]) # {} /\ DOMAIN m = Fields /\ (Fresh(m) # {} => Inv(m, left))
  PROVE  IInv'
<1> DEFINE r == [m EXCEPT !.out = << >>, !.ask = {}]
<1>1. end' = [end EXCEPT ![p] = r]
  BY Zenon DEF Ran
<1>2. /\ DOMAIN end' = Ends /\ security' = [d \in Ends |-> security'[d]]
      /\ end'[p] = r /\ security'[p] = left \cup m.ask
  BY <1>1, Zenon DEF IInv
<1>3. r.used_cid = m.used_cid
  BY Zenon DEF Fields
<1>4. Fresh(m) # {}
  BY <1>2, <1>3, Zenon DEF Fresh
<1>5. Inv(r, left \cup m.ask) /\ r.ask = {}
  BY <1>4, LeavesKeeps, Zenon
<1> HIDE DEF r
<1>6. ASSUME NEW d \in Ends PROVE Inv(end'[d], security'[d]) /\ end'[d].ask = {}
  <2>1. CASE d = p
    BY <1>2, <1>5, <2>1, Zenon
  <2>2. CASE d # p
    <3>1. end'[d] = end[d] /\ security'[d] = security[d]
      BY <1>1, <2>2, Zenon DEF IInv
    <3> QED BY <3>1, Zenon DEF IInv
  <2> QED BY <2>1, <2>2, Zenon
<1> QED BY <1>2, <1>6, Zenon DEF IInv

\* Every step keeps the invariant.
LEMMA StepKeeps ==
  ASSUME IInv, Available, Available', [Next]_vars
  PROVE  IInv'
<1>1. \A x, S : Inv(x, S) => DOMAIN x = Fields
  BY Zenon DEF Inv, Shape
<1>2. ASSUME NEW p \in Ends, ConnectChannel(p) PROVE IInv'
  <2> DEFINE n == end[p].requests + 1
             x == [end[p] EXCEPT !.requests = n, !.waiting = @ \cup {n}]
             m == SendConnectionRequest(x, n)
             S == security[p]
  <2>1. Ran(p, m, wire) /\ Asked(p, m, S)
    BY <1>2, Zenon DEF ConnectChannel
  <2>2. Inv(end[p], S) /\ DOMAIN end[p] = Fields
    BY <1>1, Zenon DEF IInv
  <2>3. /\ Same(end[p], x, Loose \cup {"pending_dynamic", "pending_configuration"})
        /\ x.pending_dynamic = end[p].pending_dynamic
        /\ x.pending_configuration = end[p].pending_configuration /\ x.used_cid = end[p].used_cid
    BY <2>2, Zenon DEF Same, Loose, Fields
  <2> HIDE DEF x
  <2>4. Inv(x, S)
    BY <2>2, <2>3, LooseKeeps, Zenon DEF Inv, Shape
  <2>5. Fresh(x) # {}
    BY <2>3, Zenon DEF Fresh, Available
  <2> HIDE DEF n
  <2>6. Inv(m, S)
    BY <2>4, <2>5, ConnectKeeps, Zenon
  <2> HIDE DEF m, S
  <2>7. Fresh(end'[p]) # {} /\ DOMAIN m = Fields
    BY <1>1, <2>6, Zenon DEF Available
  <2> QED BY <2>1, <2>6, <2>7, RanKeeps, Zenon DEF Asked
<1>3. ASSUME NEW p \in Ends, Close(p) PROVE IInv'
  <2> DEFINE S == security[p]
  <2>1. PICK cid \in DOMAIN end[p].sender_map :
          Ran(p, SendDisconnectionRequest(end[p], cid, end[p].channels[cid].remote), wire)
    BY <1>3, Zenon DEF Close
  <2> DEFINE m == SendDisconnectionRequest(end[p], cid, end[p].channels[cid].remote)
  <2>2. Inv(end[p], S) /\ end[p].ask = {} /\ security = [d \in Ends |-> security[d]]
    BY Zenon DEF IInv
  <2>3. Inv(m, S) /\ Same(end[p], m, Pushed)
    BY <2>2, PushKeeps, Zenon DEF SendDisconnectionRequest
  <2>4. Ran(p, m, wire) /\ security' = security
    BY <1>3, <2>1, Zenon DEF Close
  <2> HIDE DEF m
  <2>5. m.ask = {}
    BY <2>2, <2>3, Zenon DEF Same, Pushed, Fields
  <2>6. security' = [security EXCEPT ![p] = S \cup m.ask]
    BY <2>2, <2>4, <2>5, Zenon
  <2> HIDE DEF S
  <2>7. Fresh(end'[p]) # {} /\ DOMAIN m = Fields
    BY <1>1, <2>3, Zenon DEF Available
  <2> QED BY <2>3, <2>4, <2>6, <2>7, RanKeeps, Zenon
<1>4. ASSUME NEW p \in Ends, SecurityResult(p) PROVE IInv'
  <2> DEFINE Out(q, result) == on_security_result_for_outgoing(end[p], q.cid, result)
             In(q, result) == on_security_result_for_incoming(end[p], q.cid, q.id, result)
             M(q, result) == IF q.way = "out" THEN Out(q, result) ELSE In(q, result)
  <2>1. PICK q \in security[p], result \in Verdicts :
          Ran(p, M(q, result), wire) /\ Asked(p, M(q, result), security[p] \ {q})
    BY <1>4, Zenon DEF SecurityResult
  <2> DEFINE m == M(q, result)
             S == security[p] \ {q}
  <2>2. Inv(end[p], security[p]) /\ end[p].ask = {}
    BY Zenon DEF IInv
  <2>3. /\ Inv(end[p], S)
        /\ q.way = "out" => ~Opening(end[p], S, q.cid) /\ Reserved(end[p], q.cid)
    BY <2>2, AnswerKeeps, Zenon
  <2> HIDE DEF S
  <2>4. q.way = "out" => Inv(Out(q, result), S)
    BY <2>3, OutgoingKeeps, Zenon
  <2>5. Inv(In(q, result), S)
    BY <2>3, IncomingKeeps, Zenon
  <2>6. Inv(m, S)
    BY <2>4, <2>5, Zenon
  <2>7. Ran(p, m, wire) /\ Asked(p, m, S)
    BY <2>1, Zenon DEF S
  <2> HIDE DEF m
  <2>8. Fresh(end'[p]) # {} /\ DOMAIN m = Fields
    BY <1>1, <2>6, Zenon DEF Available
  <2> QED BY <2>6, <2>7, <2>8, RanKeeps, Zenon DEF Asked
<1>5. ASSUME NEW p \in Ends, on_incoming_packet(p) PROVE IInv'
  <2> DEFINE m == handle_one_command(end[p], Head(wire[p]))
             S == security[p]
             rest == [wire EXCEPT ![p] = Tail(@)]
  <2>1. Ran(p, m, rest) /\ Asked(p, m, S)
    BY <1>5, Zenon DEF on_incoming_packet
  <2>2. Inv(end[p], S)
    BY Zenon DEF IInv
  <2>3. DOMAIN m = Fields /\ (Fresh(m) # {} => Inv(m, S))
    BY <2>2, CommandKeeps, Zenon
  <2> HIDE DEF m, S, rest
  <2>4. Fresh(end'[p]) # {}
    BY Zenon DEF Available
  <2> QED BY <2>1, <2>3, <2>4, RanKeeps, Zenon DEF Asked
<1>6. ASSUME NEW p \in Ends, Timeout(p) PROVE IInv'
  <2> DEFINE m == on_command_timeout(end[p])
             S == security[p]
  <2>1. Ran(p, m, wire) /\ Asked(p, m, S)
    BY <1>6, Zenon DEF Timeout
  <2>2. Inv(end[p], S)
    BY Zenon DEF IInv
  <2>3. DOMAIN m = Fields /\ (Fresh(m) # {} => Inv(m, S))
    BY <2>2, TimeoutKeeps, Zenon
  <2> HIDE DEF m, S
  <2>4. Fresh(end'[p]) # {}
    BY Zenon DEF Available
  <2> QED BY <2>1, <2>3, <2>4, RanKeeps, Zenon DEF Asked
<1>7. CASE UNCHANGED vars
  BY <1>7, Zenon DEF IInv, vars
<1> QED BY <1>2, <1>3, <1>4, <1>5, <1>6, <1>7, Zenon DEF Next

\* BooksAgree for any number of requests, closes and timeouts, any services and any answers of
\* the security modules, as long as no end runs out of channel identifiers: whatever Link,
\* DynamicChannelAllocator, ClassicSignallingManager and DataPipelineManager have done, a channel
\* is attached exactly when its configuration state is CONFIGURED, has a reserved identifier and
\* a remote end of its own, and no ASSERT of the data pipeline or of
\* NotifyChannelCreation has failed.
THEOREM BooksAgreeHolds == Spec /\ []Available => []BooksAgree
<1>1. IInv => BooksAgree
  BY Zenon DEF IInv, Inv, Books, Asserts, BooksAgree
<1>2. IInv /\ Available /\ Available' /\ [Next]_vars => IInv'
  BY StepKeeps, Zenon
<1> QED BY <1>1, <1>2, InitKeeps, PTL DEF Spec
=============================================================================
