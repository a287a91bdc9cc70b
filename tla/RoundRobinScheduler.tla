------------------------ MODULE RoundRobinScheduler ------------------------
(***************************************************************************)
(* hci::acl_manager::RoundRobinScheduler: the ACL packets of all           *)
(* connections share the buffers of the controller, one pool for classic   *)
(* and one for LE connections.                                             *)
(*                                                                         *)
(* A round registers the queues of the connections whose pool has a        *)
(* credit.  The first one that the reactor finds ready is asked for one    *)
(* packet, which is cut into fragments, and all queues are unregistered.   *)
(* When the fragments are in the queue to the HCI layer the next round is  *)
(* posted; without a credit for the next fragment the scheduler waits for  *)
(* completed packets.                                                      *)
(*                                                                         *)
(* Everything runs on one handler.  A packet is known by its connection    *)
(* only.  The queue to the HCI layer and the controller behind it are one: *)
(* outstanding counts the packets of a connection that are in either.      *)
(***************************************************************************)
EXTENDS Naturals, Sequences, FiniteSetsExt, Functions

CONSTANTS
  Classic, Le,      \* the handles of the two types of connections, positive numbers
  MaxClassic, MaxLe,\* the buffers of the controller for each type
  MaxFragments,     \* bound on the fragments of a packet
  MaxPending,       \* capacity of a connection's queue
  MaxPosted,        \* bound on posted rounds that did not run yet
  Priorities        \* the connections whose priority is set

Handles == Classic \cup Le
Types == {"CLASSIC", "LE"}

ASSUME SchedulerAssumption ==
  /\ Classic \subseteq Nat \ {0} /\ Le \subseteq Nat \ {0} /\ Classic \cap Le = {}
  /\ MaxClassic \in Nat \ {0} /\ MaxLe \in Nat \ {0}
  /\ MaxFragments \in Nat \ {0} /\ MaxPending \in Nat \ {0} /\ MaxPosted \in Nat \ {0}
  /\ Priorities \subseteq Handles

VARIABLES
  handlers,             \* the keys of acl_queue_handlers_
  dequeue_registered,   \* the connections with dequeue_is_registered_
  sent_packets,         \* number_of_sent_packets_ of each connection
  high_priority,        \* the connections with high_priority_
  starting_point,       \* starting_point_, 0 for end()
  fragments,            \* fragments_to_send_: a sequence of handles per priority
  credits,              \* acl_packet_credits_ and le_acl_packet_credits_
  enqueue_registered,   \* enqueue_registered_
  posted,               \* rounds posted to the handler
  pending,              \* packets in each connection's queue
  ready,                \* registered queues with packets, in the order of epoll
  outstanding,          \* fragments handed over and not completed
  completed,            \* completions on their way to incoming_acl_credits
  ended                 \* a connection has ended

connVars == <<handlers, sent_packets, high_priority>>
roundVars == <<dequeue_registered, starting_point, ready, enqueue_registered>>
envVars == <<pending, outstanding, completed, ended>>
vars == <<connVars, roundVars, fragments, credits, posted, envVars>>

Type(h) == IF h \in Classic THEN "CLASSIC" ELSE "LE"
MaxOf == [t \in Types |-> IF t = "CLASSIC" THEN MaxClassic ELSE MaxLe]

Init ==
  /\ handlers = {} /\ sent_packets = [h \in Handles |-> 0] /\ high_priority = {}
  /\ dequeue_registered = {} /\ starting_point = 0 /\ ready = <<>>
  /\ enqueue_registered = FALSE
  /\ fragments = [p \in 0..1 |-> <<>>]
  /\ credits = MaxOf
  /\ posted = 0
  /\ pending = [h \in Handles |-> 0]
  /\ outstanding = [h \in Handles |-> 0] /\ completed = [h \in Handles |-> 0]
  /\ ended = FALSE
-----------------------------------------------------------------------------
(* MultiPriorityQueue fragments_to_send_.                                  *)

NoFragments == \A p \in 0..1 : fragments[p] = <<>>
TopPriority == IF fragments[1] # <<>> THEN 1 ELSE 0
FrontHandle == Head(fragments[TopPriority])
-----------------------------------------------------------------------------
(* start_round_robin.                                                      *)

\* The map is ordered by handle; 0 is end().
Begin(hs) == IF hs = {} THEN 0 ELSE Min(hs)
NextOf(hs, h) == Begin({g \in hs : g > h})

Ascending(hs) == CHOOSE q \in [1..Cardinality(hs) -> hs] : \A i, j \in DOMAIN q : i < j => q[i] < q[j]

\* The order in which the loop visits the connections.
Order(hs, start) == Ascending({h \in hs : h >= start}) \o Ascending({h \in hs : h < start})

\* The queues that a round registers.
RegisterDequeues_mut(hs, cr) == hs
RegisterDequeues(hs, cr) == {h \in hs : cr[Type(h)] > 0}

\* A round with connections hs and credits cr.
StartRoundRobin(hs, cr) ==
  IF \A t \in Types : cr[t] = 0
    THEN UNCHANGED roundVars
  ELSE IF ~NoFragments
    THEN /\ enqueue_registered' = (enqueue_registered \/ cr[Type(FrontHandle)] > 0)
         /\ UNCHANGED <<dequeue_registered, starting_point, ready>>
  ELSE IF hs = {}
    THEN UNCHANGED roundVars
  ELSE LET start == IF Cardinality(hs) = 1 \/ starting_point = 0 THEN Begin(hs) ELSE starting_point
           new == RegisterDequeues(hs, cr) \ dequeue_registered
       IN /\ dequeue_registered' = dequeue_registered \cup new
          /\ ready' = ready \o SelectSeq(Order(hs, start), LAMBDA h : h \in new /\ pending[h] > 0)
          /\ starting_point' = NextOf(hs, start)
          /\ UNCHANGED enqueue_registered
-----------------------------------------------------------------------------
(* Connections come and go.  The controller uses a handle again only when  *)
(* nothing of its former connection is left on the way.                    *)

Gone(h) == completed[h] = 0 /\ \A p \in 0..1 : h \notin Range(fragments[p])

Register(h) ==
  /\ h \notin handlers
  /\ Gone(h)
  /\ handlers' = handlers \cup {h}
  /\ sent_packets' = [sent_packets EXCEPT ![h] = 0]
  /\ high_priority' = high_priority \ {h}
  /\ IF NoFragments THEN StartRoundRobin(handlers', credits) ELSE UNCHANGED roundVars
  /\ UNCHANGED <<fragments, credits, posted, envVars>>

\* The credits of the connection's pool when its outstanding packets are reclaimed.
Reclaimed_mut(h) == MaxOf[Type(h)]
Reclaimed(h) == credits[Type(h)] + sent_packets[h]

\* Unregister: outstanding packets are reclaimed; fragments of the connection stay.
\* The controller has dropped what it had of the connection.
Unregister(h) ==
  /\ h \in handlers
  /\ credits' = [credits EXCEPT ![Type(h)] = Reclaimed(h)]
  /\ handlers' = handlers \ {h}
  /\ dequeue_registered' = dequeue_registered \ {h}
  /\ ready' = SelectSeq(ready, LAMBDA g : g # h)
  /\ starting_point' = Begin(handlers')
  /\ pending' = [pending EXCEPT ![h] = 0]
  /\ outstanding' = [outstanding EXCEPT ![h] = 0]
  /\ ended' = TRUE
  /\ UNCHANGED <<sent_packets, high_priority, enqueue_registered, fragments, posted, completed>>

\* SetLinkPriority; an unknown handle changes nothing.
SetLinkPriority(h) ==
  /\ h \in handlers \cap Priorities
  /\ high_priority' \in {high_priority \cup {h}, high_priority \ {h}}
  /\ UNCHANGED <<handlers, sent_packets, roundVars, fragments, credits, posted, envVars>>

\* A client puts a packet into the queue of its connection.
Arrive(h) ==
  /\ h \in handlers
  /\ pending[h] < MaxPending
  /\ pending' = [pending EXCEPT ![h] = @ + 1]
  /\ ready' = IF h \in dequeue_registered /\ pending[h] = 0 THEN Append(ready, h) ELSE ready
  /\ UNCHANGED <<connVars, dequeue_registered, starting_point, enqueue_registered, fragments,
                 credits, posted, outstanding, completed, ended>>
-----------------------------------------------------------------------------
(* The rounds.                                                             *)

\* The round that handle_enqueue_next_fragment posted.
RunPosted ==
  /\ posted > 0
  /\ posted' = posted - 1
  /\ StartRoundRobin(handlers, credits)
  /\ UNCHANGED <<connVars, fragments, credits, envVars>>

\* buffer_packet, called for the first ready queue (the reactor calls registered ones
\* only), with unregister_all_connections
\* and send_next_fragment.
BufferPacket ==
  /\ ready # <<>> /\ Head(ready) \in dequeue_registered
  /\ LET h == Head(ready)
         p == IF h \in high_priority THEN 1 ELSE 0
     IN \E n \in 1..MaxFragments :
          /\ fragments' = [fragments EXCEPT ![p] = @ \o [i \in 1..n |-> h]]
          /\ sent_packets' = [sent_packets EXCEPT ![h] = @ + Len(fragments'[0]) + Len(fragments'[1])]
          /\ pending' = [pending EXCEPT ![h] = @ - 1]
  /\ dequeue_registered' = {}
  /\ ready' = <<>>
  /\ enqueue_registered' = TRUE
  /\ UNCHANGED <<handlers, high_priority, starting_point, credits, posted, outstanding, completed, ended>>

\* handle_enqueue_next_fragment, called while the queue to the HCI layer has room; the
\* controller drops a fragment of a connection that ended.
EnqueueNextFragment ==
  /\ enqueue_registered
  /\ ~NoFragments
  /\ credits[Type(FrontHandle)] > 0
  /\ posted < MaxPosted
  /\ credits' = [credits EXCEPT ![Type(FrontHandle)] = @ - 1]
  /\ fragments' = [fragments EXCEPT ![TopPriority] = Tail(@)]
  /\ outstanding' = IF FrontHandle \in handlers THEN [outstanding EXCEPT ![FrontHandle] = @ + 1] ELSE outstanding
  /\ IF NoFragments'
       THEN enqueue_registered' = FALSE /\ posted' = posted + 1
       ELSE enqueue_registered' = (credits'[Type(FrontHandle')] > 0) /\ UNCHANGED posted
  /\ UNCHANGED <<connVars, dequeue_registered, starting_point, ready, pending, completed, ended>>

\* The controller completes a packet.
Complete(h) ==
  /\ outstanding[h] > 0
  /\ outstanding' = [outstanding EXCEPT ![h] = @ - 1]
  /\ completed' = [completed EXCEPT ![h] = @ + 1]
  /\ UNCHANGED <<connVars, roundVars, fragments, credits, posted, pending, ended>>

\* The credits after n more completions, capped, and the test for a new round.
Capped_mut(t, n) == Min({n, MaxOf[t]})
Capped(t, n) == Min({credits[t] + n, MaxOf[t]})
HadNone_mut(t) == FALSE
HadNone(t) == credits[t] = 0

\* incoming_acl_credits for a connection of the scheduler: credits are capped, and a
\* round starts if there were none.
IncomingCredits(h) ==
  /\ h \in handlers
  /\ \E n \in 1..completed[h] :
       /\ completed' = [completed EXCEPT ![h] = @ - n]
       /\ sent_packets' = [sent_packets EXCEPT ![h] = IF @ >= n THEN @ - n ELSE 0]
       /\ credits' = [credits EXCEPT ![Type(h)] = Capped(Type(h), n)]
  /\ IF HadNone(Type(h)) THEN StartRoundRobin(handlers, credits') ELSE UNCHANGED roundVars
  /\ UNCHANGED <<handlers, high_priority, fragments, posted, pending, outstanding, ended>>

\* incoming_acl_credits for an unknown connection.
DropCredits(h) ==
  /\ h \notin handlers
  /\ completed[h] > 0
  /\ completed' = [completed EXCEPT ![h] = 0]
  /\ UNCHANGED <<connVars, roundVars, fragments, credits, posted, pending, outstanding, ended>>
-----------------------------------------------------------------------------
Next ==
  \/ RunPosted \/ BufferPacket \/ EnqueueNextFragment
  \/ \E h \in Handles :
       \/ Register(h) \/ Unregister(h) \/ SetLinkPriority(h) \/ Arrive(h)
       \/ Complete(h) \/ IncomingCredits(h) \/ DropCredits(h)

Spec == Init /\ [][Next]_vars

\* The handler's thread runs its tasks and reactables, and the controller completes
\* packets.
HandlerThread ==
  RunPosted \/ BufferPacket \/ EnqueueNextFragment \/ \E h \in Handles : IncomingCredits(h)

FairSpec == Spec /\ WF_vars(HandlerThread) /\ WF_vars(\E h \in Handles : Complete(h))
-----------------------------------------------------------------------------
\* The assertions of handle_enqueue_next_fragment: while the enqueue end is registered
\* there is a fragment, and a credit of its type.
SendHasCredit == enqueue_registered => ~NoFragments /\ credits[Type(FrontHandle)] > 0

\* The sum of f over the connections of type t, counted as a set: connection h has f[h] places.
Places(f, t) == UNION {{h} \X (1..f[h]) : h \in {g \in Handles : Type(g) = t}}
Total(f, t) == Cardinality(Places(f, t))

\* The controller never has more packets of a type than it has buffers, whatever
\* connections ended meanwhile.
NoOverrun == \A t \in Types : Total(outstanding, t) <= MaxOf[t]

\* The fragments of a connection that are still to be sent.
UnsentAt(p, h) == {i \in DOMAIN fragments[p] : fragments[p][i] = h}
Unsent(h) == Cardinality(UnsentAt(0, h)) + Cardinality(UnsentAt(1, h))

\* No credit is lost or invented: number_of_sent_packets_ counts exactly what the
\* connection has outstanding, on the way back or still to be sent, so that the right
\* number is reclaimed; and credits, outstanding and completed packets are the buffers
\* of the controller as long as no connection has ended.
CreditsConserved ==
  /\ \A h \in handlers : sent_packets[h] = outstanding[h] + completed[h] + Unsent(h)
  /\ ~ended =>
       \A t \in Types : credits[t] + Total([h \in Handles |-> outstanding[h] + completed[h]], t) = MaxOf[t]

\* The scheduler is not idle while it could send: a connection whose pool has a credit
\* is registered, or fragments are being sent, or a round is coming; and fragments with
\* a credit are being sent.  Unregister starts no round with the credits that it
\* reclaims, so this is so only until a connection ends.
WorkConserving ==
  ~ended =>
    /\ \A h \in handlers :
         credits[Type(h)] > 0 => h \in dequeue_registered \/ ~NoFragments \/ posted > 0
    /\ ~NoFragments /\ credits[Type(FrontHandle)] > 0 => enqueue_registered

\* While a connection has packets, some packet is taken: the scheduler does not stall
\* until a connection ends.
Progress ==
  (\E h \in Handles : pending[h] > 0) ~> (ended \/ ~NoFragments)
=============================================================================
