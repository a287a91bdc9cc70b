-------------------------- MODULE SchedulerProofs --------------------------
(***************************************************************************)
(* Proofs about RoundRobinScheduler for every set of connections and every *)
(* number of buffers of the controller.                                    *)
(***************************************************************************)
EXTENDS RoundRobinScheduler, FiniteSetTheorems, TLAPS

\* The types that the argument needs.
CreditTypes ==
  /\ handlers \subseteq Handles
  /\ dequeue_registered \subseteq handlers
  /\ enqueue_registered \in BOOLEAN
  /\ fragments \in [0..1 -> Seq(Handles)]
  /\ credits \in [Types -> Nat]
  /\ sent_packets \in [Handles -> Nat]
  /\ completed \in [Handles -> Nat]

\* A queue is registered only while no fragment is to be sent and its pool has a credit.
RegisteredMaySend ==
  \A h \in dequeue_registered : NoFragments /\ credits[Type(h)] > 0

\* The inductive invariant.
IInv == CreditTypes /\ RegisteredMaySend /\ SendHasCredit

\* Every handle has one of the two types, each of which has buffers.
LEMMA TypeOfHandle ==
  /\ \A h : Type(h) \in Types
  /\ MaxOf \in [Types -> Nat \ {0}]
BY SchedulerAssumption, Zenon DEF Type, Types, MaxOf

\* The cap of incoming_acl_credits leaves at least one credit.
LEMMA CappedIsPositive ==
  ASSUME NEW a \in Nat \ {0}, NEW b \in Nat \ {0}
  PROVE  Min({a, b}) \in Nat \ {0}
<1>1. \E x \in {a, b} : \A y \in {a, b} : x =< y
  OBVIOUS
<1>2. Min({a, b}) \in {a, b}
  BY <1>1, Zenon DEF Min
<1> QED BY <1>2, Zenon

\* The front fragment belongs to some handle.
LEMMA FrontIsHandle ==
  ASSUME CreditTypes, ~NoFragments
  PROVE  TopPriority \in 0..1 /\ fragments[TopPriority] # <<>> /\ FrontHandle \in Handles
<1>1. TopPriority \in 0..1 /\ fragments[TopPriority] # <<>>
  BY DEF CreditTypes, NoFragments, TopPriority
<1>2. fragments[TopPriority] \in Seq(Handles)
  BY <1>1, Zenon DEF CreditTypes
<1> QED BY <1>1, <1>2 DEF FrontHandle

\* A round with the credits that are there preserves the invariant, whoever starts it.
LEMMA RoundIInv ==
  ASSUME IInv, handlers' \subseteq Handles, handlers \subseteq handlers',
         credits' \in [Types -> Nat], \A t \in Types : credits[t] > 0 => credits'[t] > 0,
         UNCHANGED fragments, sent_packets' \in [Handles -> Nat], completed' \in [Handles -> Nat],
         StartRoundRobin(handlers', credits') \/ UNCHANGED roundVars
  PROVE  IInv'
<1> USE TypeOfHandle
<1>1. NoFragments' = NoFragments /\ FrontHandle' = FrontHandle
  BY Zenon DEF NoFragments, FrontHandle, TopPriority
<1>2. CASE UNCHANGED roundVars
  BY <1>1, <1>2, Zenon DEF IInv, CreditTypes, RegisteredMaySend, SendHasCredit, roundVars
<1>3. CASE StartRoundRobin(handlers', credits') /\ ~UNCHANGED roundVars /\ ~NoFragments
  <2>1. /\ enqueue_registered' = (enqueue_registered \/ credits'[Type(FrontHandle)] > 0)
        /\ dequeue_registered' = dequeue_registered
    BY <1>3, Zenon DEF StartRoundRobin
  <2> QED BY <1>1, <1>3, <2>1, Zenon DEF IInv, CreditTypes, RegisteredMaySend, SendHasCredit
<1>4. CASE StartRoundRobin(handlers', credits') /\ ~UNCHANGED roundVars /\ NoFragments
  <2>1. /\ dequeue_registered' = dequeue_registered \cup (RegisterDequeues(handlers', credits') \ dequeue_registered)
        /\ enqueue_registered' = enqueue_registered
    BY <1>4, Zenon DEF StartRoundRobin
  <2>2. \A h \in RegisterDequeues(handlers', credits') : h \in handlers' /\ credits'[Type(h)] > 0
    BY Zenon DEF RegisterDequeues
  <2>3. CreditTypes'
    BY <2>1, <2>2, Zenon DEF IInv, CreditTypes
  <2>4. RegisteredMaySend'
    BY <1>1, <1>4, <2>1, <2>2, Zenon DEF IInv, RegisteredMaySend
  <2>5. SendHasCredit'
    BY <1>1, <1>4, <2>1, Zenon DEF IInv, SendHasCredit
  <2> QED BY <2>3, <2>4, <2>5, Zenon DEF IInv
<1> QED BY <1>2, <1>3, <1>4, Zenon

\* The state in which the constructor leaves the scheduler satisfies the invariant.
LEMMA InitIInv == Init => IInv
<1> SUFFICES ASSUME Init PROVE IInv
  BY Zenon
<1>1. fragments \in [0..1 -> Seq(Handles)]
  BY DEF Init
<1>2. credits \in [Types -> Nat]
  BY TypeOfHandle, Zenon DEF Init
<1> QED
  BY <1>1, <1>2, Zenon DEF Init, IInv, CreditTypes, RegisteredMaySend, SendHasCredit

\* Every operation of the scheduler and every step around it preserves the invariant.
LEMMA NextIInv == IInv /\ [Next]_vars => IInv'
<1> SUFFICES ASSUME IInv, [Next]_vars PROVE IInv'
  BY Zenon
<1> USE TypeOfHandle
<1>1. CASE UNCHANGED vars
  BY <1>1, Zenon DEF vars, connVars, roundVars, envVars, IInv, CreditTypes, RegisteredMaySend, SendHasCredit,
              NoFragments, FrontHandle, TopPriority
<1>2. CASE RunPosted
  BY <1>2, RoundIInv, SMTT(30) DEF RunPosted, connVars, envVars, IInv, CreditTypes
<1>3. CASE BufferPacket
  <2> DEFINE h == Head(ready)
             p == IF h \in high_priority THEN 1 ELSE 0
  <2>1. h \in dequeue_registered /\ h \in Handles /\ NoFragments /\ credits[Type(h)] > 0
    BY <1>3, Zenon DEF BufferPacket, IInv, CreditTypes, RegisteredMaySend
  <2>2. PICK n \in 1..MaxFragments :
          /\ fragments' = [fragments EXCEPT ![p] = @ \o [i \in 1..n |-> h]]
          /\ sent_packets' = [sent_packets EXCEPT ![h] = @ + Len(fragments'[0]) + Len(fragments'[1])]
    BY <1>3, Zenon DEF BufferPacket
  <2>3. n \in Nat \ {0} /\ p \in 0..1
    BY SchedulerAssumption
  <2>4. [i \in 1..n |-> h] \in Seq(Handles) /\ Len([i \in 1..n |-> h]) = n
    BY <2>1, <2>3
  <2>5. fragments[p] = <<>> /\ fragments[1 - p] = <<>>
    BY <2>1, <2>3 DEF NoFragments
  <2>6. fragments'[p] = [i \in 1..n |-> h] /\ fragments'[1 - p] = <<>>
    BY <2>2, <2>3, <2>4, <2>5 DEF IInv, CreditTypes
  <2>7. fragments' \in [0..1 -> Seq(Handles)]
    BY <2>2, <2>3, <2>4, <2>5 DEF IInv, CreditTypes
  <2>8. TopPriority' = p /\ ~NoFragments'
    BY <2>3, <2>4, <2>6 DEF TopPriority, NoFragments
  <2>9. FrontHandle' = h
    BY <2>3, <2>4, <2>6, <2>8 DEF FrontHandle
  <2>10. sent_packets' \in [Handles -> Nat]
    <3>1. fragments'[0] \in Seq(Handles) /\ fragments'[1] \in Seq(Handles)
      BY <2>7
    <3>2. Len(fragments'[0]) \in Nat /\ Len(fragments'[1]) \in Nat
      BY <3>1
    <3>3. sent_packets[h] + Len(fragments'[0]) + Len(fragments'[1]) \in Nat
      BY <2>1, <3>2, SMTT(30) DEF IInv, CreditTypes
    <3> QED BY <2>1, <2>2, <3>3, SMTT(30) DEF IInv, CreditTypes
  <2>11. /\ dequeue_registered' = {} /\ enqueue_registered' = TRUE
         /\ UNCHANGED <<handlers, credits, completed>>
    BY <1>3, Zenon DEF BufferPacket
  <2>12. CreditTypes'
    BY <2>7, <2>10, <2>11, Zenon DEF IInv, CreditTypes
  <2> QED BY <2>1, <2>8, <2>9, <2>11, <2>12, Zenon DEF IInv, RegisteredMaySend, SendHasCredit
<1>4. CASE EnqueueNextFragment
  <2> DEFINE t == Type(FrontHandle)
  <2>1. ~NoFragments /\ dequeue_registered = {} /\ credits[t] \in Nat \ {0}
    BY <1>4 DEF EnqueueNextFragment, IInv, CreditTypes, RegisteredMaySend
  <2>2. TopPriority \in 0..1 /\ fragments[TopPriority] # <<>> /\ fragments[TopPriority] \in Seq(Handles)
    BY <2>1, FrontIsHandle, Zenon DEF IInv, CreditTypes
  <2>3. Tail(fragments[TopPriority]) \in Seq(Handles)
    BY <2>2
  <2>4. fragments' \in [0..1 -> Seq(Handles)]
    BY <1>4, <2>2, <2>3, Zenon DEF EnqueueNextFragment, IInv, CreditTypes
  <2>5. credits' \in [Types -> Nat]
    BY <1>4, <2>1 DEF EnqueueNextFragment, IInv, CreditTypes
  <2>6. /\ NoFragments' => enqueue_registered' = FALSE
        /\ ~NoFragments' => enqueue_registered' = (credits'[Type(FrontHandle')] > 0)
    BY <1>4, Zenon DEF EnqueueNextFragment
  <2>7. UNCHANGED <<handlers, sent_packets, dequeue_registered, completed>>
    BY <1>4, Zenon DEF EnqueueNextFragment, connVars
  <2>8. CreditTypes'
    <3>1. (credits'[Type(FrontHandle')] > 0) \in BOOLEAN
      OBVIOUS
    <3>2. enqueue_registered' \in BOOLEAN
      BY <2>6, <3>1, Zenon
    <3> QED BY <2>4, <2>5, <2>7, <3>2, Zenon DEF IInv, CreditTypes
  <2>9. SendHasCredit'
    BY <2>6, Zenon DEF SendHasCredit, Type
  <2> QED BY <2>1, <2>7, <2>8, <2>9, Zenon DEF IInv, RegisteredMaySend
<1>5. ASSUME NEW h \in Handles, Register(h) PROVE IInv'
  <2>1. sent_packets' \in [Handles -> Nat]
    BY <1>5, Zenon DEF Register, IInv, CreditTypes
  <2>2. /\ handlers' = handlers \cup {h}
        /\ UNCHANGED <<fragments, credits, completed>>
        /\ StartRoundRobin(handlers', credits') \/ UNCHANGED roundVars
    BY <1>5, Zenon DEF Register, envVars
  <2> QED BY <1>5, <2>1, <2>2, RoundIInv, SMTT(30) DEF IInv, CreditTypes
<1>6. ASSUME NEW h \in Handles, Unregister(h) PROVE IInv'
  <2>1. /\ credits' \in [Types -> Nat]
        /\ \A t \in Types : credits'[t] >= credits[t]
    BY <1>6 DEF Unregister, Reclaimed, IInv, CreditTypes
  <2>2. /\ handlers' = handlers \ {h} /\ dequeue_registered' = dequeue_registered \ {h}
        /\ UNCHANGED <<sent_packets, enqueue_registered, fragments, completed>>
    BY <1>6, Zenon DEF Unregister
  <2>3. NoFragments' = NoFragments /\ FrontHandle' = FrontHandle
    BY <2>2, Zenon DEF NoFragments, FrontHandle, TopPriority
  <2>4. \A t \in Types : credits[t] > 0 => credits'[t] > 0
    BY <2>1 DEF IInv, CreditTypes
  <2>5. CreditTypes'
    BY <2>1, <2>2, Zenon DEF IInv, CreditTypes
  <2> QED BY <2>2, <2>3, <2>4, <2>5, Zenon DEF IInv, RegisteredMaySend, SendHasCredit
<1>7. ASSUME NEW h \in Handles, SetLinkPriority(h) \/ Arrive(h) PROVE IInv'
  <2>1. UNCHANGED <<handlers, sent_packets, dequeue_registered, enqueue_registered, fragments,
                    credits, completed>>
    BY <1>7, Zenon DEF SetLinkPriority, Arrive, connVars, roundVars, envVars
  <2>2. NoFragments' = NoFragments /\ FrontHandle' = FrontHandle
    BY <2>1, Zenon DEF NoFragments, FrontHandle, TopPriority
  <2> QED BY <2>1, <2>2, Zenon DEF IInv, CreditTypes, RegisteredMaySend, SendHasCredit
<1>8. ASSUME NEW h \in Handles, Complete(h) \/ DropCredits(h) PROVE IInv'
  <2>1. completed' \in [Handles -> Nat]
    <3>1. completed[h] + 1 \in Nat /\ completed \in [Handles -> Nat]
      BY DEF IInv, CreditTypes
    <3>2. CASE Complete(h)
      BY <3>1, <3>2, Zenon DEF Complete
    <3>3. CASE DropCredits(h)
      BY <3>1, <3>3, Zenon DEF DropCredits
    <3> QED BY <1>8, <3>2, <3>3, Zenon
  <2>2. UNCHANGED <<handlers, sent_packets, roundVars, fragments, credits>>
    BY <1>8, Zenon DEF Complete, DropCredits, connVars
  <2> QED BY <2>1, <2>2, RoundIInv, SMTT(30) DEF IInv, CreditTypes
<1>9. ASSUME NEW h \in Handles, IncomingCredits(h) PROVE IInv'
  <2>1. PICK n \in 1..completed[h] :
          /\ completed' = [completed EXCEPT ![h] = @ - n]
          /\ sent_packets' = [sent_packets EXCEPT ![h] = IF @ >= n THEN @ - n ELSE 0]
          /\ credits' = [credits EXCEPT ![Type(h)] = Min({@ + n, MaxOf[Type(h)]})]
    BY <1>9, Zenon DEF IncomingCredits, Capped
  <2>2. completed[h] \in Nat /\ n \in Nat \ {0} /\ n =< completed[h]
    BY DEF IInv, CreditTypes
  <2>3. completed' \in [Handles -> Nat] /\ sent_packets' \in [Handles -> Nat]
    BY <2>1, <2>2, SMTT(30) DEF IInv, CreditTypes
  <2>4. credits[Type(h)] + n \in Nat \ {0} /\ MaxOf[Type(h)] \in Nat \ {0}
    BY <2>2 DEF IInv, CreditTypes
  <2>5. Min({credits[Type(h)] + n, MaxOf[Type(h)]}) \in Nat \ {0}
    BY <2>4, CappedIsPositive, Zenon
  <2>6. credits' \in [Types -> Nat] /\ \A t \in Types : credits[t] > 0 => credits'[t] > 0
    <3> DEFINE m == Min({credits[Type(h)] + n, MaxOf[Type(h)]})
    <3>1. credits' = [credits EXCEPT ![Type(h)] = m] /\ m \in Nat \ {0}
      BY <2>1, <2>5, Zenon
    <3>2. credits \in [Types -> Nat] /\ Type(h) \in Types
      BY Zenon DEF IInv, CreditTypes
    <3> HIDE DEF m
    <3> QED BY <3>1, <3>2
  <2>7. /\ UNCHANGED <<handlers, fragments>>
        /\ StartRoundRobin(handlers, credits') \/ UNCHANGED roundVars
    BY <1>9, Zenon DEF IncomingCredits
  <2> QED BY <2>3, <2>6, <2>7, RoundIInv, Zenon DEF IInv, CreditTypes
<1> QED
  BY <1>1, <1>2, <1>3, <1>4, <1>5, <1>6, <1>7, <1>8, <1>9, Zenon DEF Next

\* For every set of connections and every number of buffers: when the HCI queue asks
\* handle_enqueue_next_fragment for a fragment there is one, and its two assertions on
\* the credits hold, whatever connections came and went meanwhile.
THEOREM FragmentHasCredit == Spec => []SendHasCredit
<1>1. Spec => []IInv
  BY InitIInv, NextIInv, PTL DEF Spec
<1>2. IInv => SendHasCredit
  BY Zenon DEF IInv
<1> QED BY <1>1, <1>2, PTL

\* The fragments of two packets never meet in fragments_to_send_: while one packet is
\* being sent no queue is registered, so buffer_packet cannot be called.
THEOREM OnePacketAtATime == Spec => [](~NoFragments => dequeue_registered = {})
<1>1. Spec => []IInv
  BY InitIInv, NextIInv, PTL DEF Spec
<1>2. IInv => (~NoFragments => dequeue_registered = {})
  BY Zenon DEF IInv, RegisteredMaySend
<1> QED BY <1>1, <1>2, PTL
-----------------------------------------------------------------------------
\* After a round, every connection with a credit is registered unless fragments are being
\* sent, and then the front fragment is asked for if it has a credit.
LEMMA RoundWorks ==
  ASSUME StartRoundRobin(handlers', credits'), UNCHANGED fragments, credits' \in [Types -> Nat]
  PROVE  /\ \A h \in handlers' : credits'[Type(h)] > 0 => h \in dequeue_registered' \/ ~NoFragments'
         /\ ~NoFragments' /\ credits'[Type(FrontHandle')] > 0 => enqueue_registered'
<1> USE TypeOfHandle
<1>1. NoFragments' = NoFragments /\ FrontHandle' = FrontHandle
  BY Zenon DEF NoFragments, FrontHandle, TopPriority
<1>2. CASE \A t \in Types : credits'[t] = 0
  BY <1>2
<1>3. CASE ~(\A t \in Types : credits'[t] = 0) /\ ~NoFragments
  BY <1>1, <1>3, Zenon DEF StartRoundRobin
<1>4. CASE ~(\A t \in Types : credits'[t] = 0) /\ NoFragments /\ handlers' = {}
  BY <1>1, <1>4, Zenon
<1>5. CASE ~(\A t \in Types : credits'[t] = 0) /\ NoFragments /\ handlers' # {}
  <2>1. dequeue_registered' = dequeue_registered \cup (RegisterDequeues(handlers', credits') \ dequeue_registered)
    BY <1>5, Zenon DEF StartRoundRobin
  <2>2. \A h \in handlers' : credits'[Type(h)] > 0 => h \in RegisterDequeues(handlers', credits')
    BY Zenon DEF RegisterDequeues
  <2>3. \A h \in handlers' : credits'[Type(h)] > 0 => h \in dequeue_registered'
    BY <2>1, <2>2, Zenon
  <2> QED BY <1>1, <1>5, <2>3, Zenon
<1> QED BY <1>2, <1>3, <1>4, <1>5, Zenon

\* WorkConserving is inductive relative to IInv.
WInv == posted \in Nat /\ WorkConserving

\* Every step preserves it, because a round starts at the step that makes work possible.
LEMMA NextWInv == IInv /\ IInv' /\ WInv /\ [Next]_vars => WInv'
<1> SUFFICES ASSUME IInv, IInv', WInv, [Next]_vars PROVE WInv'
  BY Zenon
<1> USE TypeOfHandle DEF WInv
<1>0. credits \in [Types -> Nat] /\ credits' \in [Types -> Nat]
  BY Zenon DEF IInv, CreditTypes
<1>1. ASSUME UNCHANGED <<handlers, roundVars, fragments, credits, posted, ended>> PROVE WInv'
  BY <1>1, Zenon DEF WorkConserving, roundVars, NoFragments, FrontHandle, TopPriority
<1>2. CASE RunPosted
  <2>1. posted' \in Nat /\ UNCHANGED <<handlers, credits, fragments>>
    BY <1>2 DEF RunPosted, connVars
  <2>2. StartRoundRobin(handlers', credits')
    BY <1>2, <2>1, Zenon DEF RunPosted
  <2> QED BY <1>0, <2>1, <2>2, RoundWorks, Zenon DEF WorkConserving
<1>3. CASE BufferPacket
  <2>1. posted' = posted /\ enqueue_registered' = TRUE
    BY <1>3, Zenon DEF BufferPacket
  <2>2. ~NoFragments'
    <3>1. SendHasCredit'
      BY Zenon DEF IInv
    <3> QED BY <2>1, <3>1, Zenon DEF SendHasCredit
  <2> QED BY <2>1, <2>2, Zenon DEF WorkConserving
<1>4. CASE EnqueueNextFragment
  <2>1. /\ NoFragments' => posted' = posted + 1
        /\ ~NoFragments' => enqueue_registered' = (credits'[Type(FrontHandle')] > 0) /\ posted' = posted
    BY <1>4, Zenon DEF EnqueueNextFragment
  <2>2. posted' \in Nat /\ (NoFragments' => posted' > 0)
    BY <2>1
  <2>3. ~NoFragments' /\ credits'[Type(FrontHandle')] > 0 => enqueue_registered'
    BY <2>1, Zenon
  <2> QED BY <2>2, <2>3, Zenon DEF WorkConserving
<1>5. ASSUME NEW h \in Handles, Register(h) PROVE WInv'
  <2>1. handlers' = handlers \cup {h} /\ UNCHANGED <<fragments, credits, posted>>
    BY <1>5, Zenon DEF Register
  <2>2. NoFragments' = NoFragments /\ FrontHandle' = FrontHandle
    BY <2>1, Zenon DEF NoFragments, FrontHandle, TopPriority
  <2>3. CASE NoFragments
    <3>1. StartRoundRobin(handlers', credits')
      BY <1>5, <2>1, <2>3, Zenon DEF Register
    <3> QED BY <1>0, <2>1, <3>1, RoundWorks, Zenon DEF WorkConserving
  <2>4. CASE ~NoFragments
    <3>1. UNCHANGED <<enqueue_registered, ended>>
      BY <1>5, <2>4, Zenon DEF Register, roundVars, envVars
    <3> QED BY <2>1, <2>2, <2>4, <3>1, Zenon DEF WorkConserving
  <2> QED BY <2>3, <2>4, Zenon
<1>6. ASSUME NEW h \in Handles, Unregister(h) PROVE WInv'
  BY <1>6, Zenon DEF Unregister, WorkConserving
<1>7. ASSUME NEW h \in Handles, SetLinkPriority(h) \/ Complete(h) \/ DropCredits(h) PROVE WInv'
  BY <1>1, <1>7, Zenon DEF SetLinkPriority, Complete, DropCredits, connVars, envVars
<1>8. ASSUME NEW h \in Handles, Arrive(h) PROVE WInv'
  BY <1>8, Zenon DEF Arrive, connVars, WorkConserving, NoFragments, FrontHandle, TopPriority
<1>9. ASSUME NEW h \in Handles, IncomingCredits(h) PROVE WInv'
  <2>1. UNCHANGED <<handlers, fragments, posted, ended>>
    BY <1>9, Zenon DEF IncomingCredits
  <2>2. \A t \in Types : t # Type(h) => credits'[t] = credits[t]
    BY <1>0, <1>9, Zenon DEF IncomingCredits
  <2>3. CASE HadNone(Type(h))
    <3>1. StartRoundRobin(handlers', credits')
      BY <1>9, <2>1, <2>3, Zenon DEF IncomingCredits
    <3> QED BY <1>0, <2>1, <3>1, RoundWorks, Zenon DEF WorkConserving
  <2>4. CASE ~HadNone(Type(h))
    <3>1. UNCHANGED roundVars /\ credits[Type(h)] > 0
      BY <1>0, <1>9, <2>4 DEF IncomingCredits, HadNone
    <3>2. \A t \in Types : credits'[t] > 0 => credits[t] > 0
      BY <2>2, <3>1, Zenon
    <3> QED
      BY <2>1, <3>1, <3>2, SMTT(30) DEF WorkConserving, roundVars, NoFragments, FrontHandle, TopPriority
  <2> QED BY <2>3, <2>4, Zenon
<1> QED
  <2>1. CASE UNCHANGED vars
    BY <1>1, <2>1, Zenon DEF vars, connVars, envVars
  <2> QED BY <1>2, <1>3, <1>4, <1>5, <1>6, <1>7, <1>8, <1>9, <2>1, Zenon DEF Next

\* Until a connection ends, the scheduler is never idle while it could send: every
\* connection whose pool has a credit is registered, or fragments are being sent, or
\* start_round_robin is posted, for every set of connections and every number of buffers.
THEOREM NeverIdle == Spec => []WorkConserving
<1>1. Init => WInv
  BY DEF Init, WInv, WorkConserving, NoFragments
<1>2. WInv => WorkConserving
  BY Zenon DEF WInv
<1> QED BY <1>1, <1>2, InitIInv, NextIInv, NextWInv, PTL DEF Spec
-----------------------------------------------------------------------------
\* The packets that the controller has of each connection, or whose completion is on its
\* way; none for a connection that ended.
live == [h \in Handles |-> IF h \in handlers THEN outstanding[h] + completed[h] ELSE 0]

\* The number of fragments to be sent.
Waiting == Len(fragments[0]) + Len(fragments[1])

\* What is still to be sent of connection h: every fragment or none.
Owed(h) == IF ~NoFragments /\ h = FrontHandle THEN Waiting ELSE 0

\* The fragments of a connection that ended: their credits were reclaimed, and are spent
\* when the fragments are sent.
Stale(t) ==
  IF ~NoFragments /\ FrontHandle \notin handlers /\ Type(FrontHandle) = t THEN Waiting ELSE 0

\* All fragments to be sent belong to one connection.
OneOwner == \A p \in 0..1 : \A i \in DOMAIN fragments[p] : fragments[p][i] = FrontHandle

\* Every credit of pool t is accounted for.
Balance(t) ==
  /\ IsFiniteSet(Places(live, t))
  /\ Total(live, t) <= MaxOf[t]
  /\ credits[t] + Total(live, t) <= MaxOf[t] + Stale(t)
  /\ ~ended => credits[t] + Total(live, t) = MaxOf[t]

\* The inductive invariant of the credits, relative to IInv.
CInv ==
  /\ outstanding \in [Handles -> Nat]
  /\ \A h \in Handles \ handlers : outstanding[h] = 0 /\ (~ended => completed[h] = 0)
  /\ ~ended /\ ~NoFragments => FrontHandle \in handlers
  /\ OneOwner
  /\ \A h \in handlers :
       sent_packets[h] = outstanding[h] + completed[h] + Owed(h)
  /\ \A t \in Types : Balance(t)
-----------------------------------------------------------------------------
\* A place of f is a connection of the type and a number up to f.
LEMMA InPlaces ==
  ASSUME NEW f, NEW t
  PROVE  \A x : x \in Places(f, t) <=>
           \E h \in Handles : Type(h) = t /\ x \in {h} \X (1..f[h])
BY Zenon DEF Places

\* The places of f are those of the other connections and those of h.
LEMMA PlacesOf ==
  ASSUME NEW f \in [Handles -> Nat], NEW h \in Handles, NEW b \in Nat, NEW t, Type(h) = t,
         IsFiniteSet(Places([f EXCEPT ![h] = 0], t))
  PROVE  /\ IsFiniteSet(Places([f EXCEPT ![h] = b], t))
         /\ Total([f EXCEPT ![h] = b], t) = Total([f EXCEPT ![h] = 0], t) + b
<1> DEFINE z == [f EXCEPT ![h] = 0]
           g == [f EXCEPT ![h] = b]
           Own == {h} \X (1..b)
<1>1. Places(g, t) = Places(z, t) \cup Own
  <2>1. \A k \in Handles : k # h => g[k] = z[k]
    BY Zenon
  <2>2. g[h] = b /\ z[h] = 0 /\ {h} \X (1..0) = {}
    OBVIOUS
  <2> HIDE DEF g, z
  <2>3. ASSUME NEW x \in Places(g, t) PROVE x \in Places(z, t) \cup Own
    <3>1. PICK k \in Handles : Type(k) = t /\ x \in {k} \X (1..g[k])
      BY InPlaces, Zenon
    <3> QED BY <2>1, <2>2, <3>1, InPlaces, Zenon
  <2>4. ASSUME NEW x \in Places(z, t) PROVE x \in Places(g, t)
    <3>1. PICK k \in Handles : Type(k) = t /\ x \in {k} \X (1..z[k])
      BY InPlaces, Zenon
    <3> QED BY <2>1, <2>2, <3>1, InPlaces, Zenon
  <2>5. ASSUME NEW x \in Own PROVE x \in Places(g, t)
    BY <2>2, <2>5, InPlaces, Zenon
  <2> QED BY <2>3, <2>4, <2>5, Zenon
<1>2. Places(z, t) \cap Own = {}
  <2> SUFFICES ASSUME NEW x \in Places(z, t), x \in Own PROVE FALSE
    BY Zenon
  <2>1. PICK k \in Handles : Type(k) = t /\ x \in {k} \X (1..z[k])
    BY InPlaces, Zenon
  <2>2. k = h
    BY <2>1, Zenon
  <2> QED BY <2>1, <2>2
<1>3. IsFiniteSet(Own) /\ Cardinality(Own) = b
  <2>1. IsFiniteSet({h}) /\ Cardinality({h}) = 1
    BY FS_Singleton, Zenon
  <2>2. IsFiniteSet(1..b) /\ Cardinality(1..b) = b
    BY FS_Interval
  <2>3. IsFiniteSet(Own) /\ Cardinality(Own) = Cardinality({h}) * Cardinality(1..b)
    BY <2>1, <2>2, FS_Product, Zenon
  <2> HIDE DEF Own
  <2> QED BY <2>1, <2>2, <2>3
<1>4. Cardinality({}) = 0 /\ Cardinality(Places(z, t)) \in Nat
  BY FS_EmptySet, FS_CardinalityType, Zenon
<1> HIDE DEF z, g, Own
<1>5. /\ IsFiniteSet(Places(z, t) \cup Own)
      /\ Cardinality(Places(z, t) \cup Own)
           = Cardinality(Places(z, t)) + Cardinality(Own) - Cardinality(Places(z, t) \cap Own)
  BY <1>3, FS_Union, Zenon DEF z
<1>6. IsFiniteSet(Places(g, t)) /\ Total(g, t) = Total(z, t) + b
  <2>1. IsFiniteSet(Places(g, t)) /\ Cardinality(Places(g, t)) = Cardinality(Places(z, t)) + b - 0
    BY <1>1, <1>2, <1>3, <1>4, <1>5, Zenon
  <2> QED BY <1>4, <2>1 DEF Total
<1> QED BY <1>6, Zenon DEF g, z

\* The premise of the next lemma: f has a finite total for t, and g differs from it at h.
Changes(f, g, h, b, t) ==
  f \in [Handles -> Nat] /\ IsFiniteSet(Places(f, t)) /\ g = [f EXCEPT ![h] = b]

\* Its conclusion: what that does to the total.
Changed(f, g, h, b, t) ==
  /\ IsFiniteSet(Places(g, t))
  /\ Type(h) # t => Total(g, t) = Total(f, t)
  /\ Type(h) = t => Total(g, t) = Total(f, t) + (b - f[h])

\* How the total changes with the value of one connection.
LEMMA TotalChange ==
  ASSUME NEW f, NEW g, NEW h \in Handles, NEW b \in Nat, NEW t, Changes(f, g, h, b, t)
  PROVE  Changed(f, g, h, b, t)
<1> USE DEF Changes, Changed
<1> DEFINE z == [f EXCEPT ![h] = 0]
<1>0. Total(f, t) \in Nat
  BY FS_CardinalityType, Zenon DEF Total
<1>1. CASE Type(h) # t
  <2>1. \A k \in Handles : Type(k) = t => g[k] = f[k]
    BY <1>1, Zenon
  <2>2. Places(g, t) = Places(f, t)
    BY <2>1, Zenon DEF Places
  <2> QED BY <1>0, <1>1, <2>2, Zenon DEF Total
<1>2. CASE Type(h) = t
  <2>1. IsFiniteSet(Places(z, t))
    <3>1. \A k \in Handles : 1..z[k] \subseteq 1..f[k]
      OBVIOUS
    <3> HIDE DEF z
    <3>2. ASSUME NEW x \in Places(z, t) PROVE x \in Places(f, t)
      <4>1. PICK k \in Handles : Type(k) = t /\ x \in {k} \X (1..z[k])
        BY InPlaces, Zenon
      <4> QED BY <3>1, <4>1, InPlaces, Zenon
    <3> QED BY <3>2, FS_Subset, Zenon
  <2>2. Total(z, t) \in Nat
    BY <2>1, FS_CardinalityType, Zenon DEF Total
  <2>3. IsFiniteSet(Places(g, t)) /\ Total(g, t) = Total(z, t) + b
    BY <1>2, <2>1, PlacesOf, Zenon
  <2>4. [f EXCEPT ![h] = f[h]] = f /\ f[h] \in Nat
    BY Zenon
  <2>5. Total(f, t) = Total(z, t) + f[h]
    <3>1. ASSUME NEW c \in Nat PROVE Total([f EXCEPT ![h] = c], t) = Total(z, t) + c
      BY <1>2, <2>1, PlacesOf, Zenon
    <3> QED BY <2>4, <3>1, Zenon
  <2> HIDE DEF z
  <2>6. Total(g, t) = Total(f, t) + (b - f[h])
    BY <2>2, <2>3, <2>4, <2>5
  <2> QED BY <1>2, <2>3, <2>6, Zenon
<1> QED BY <1>1, <1>2, Zenon

\* The two ways to count what is still to be sent agree.
LEMMA UnsentIs ==
  ASSUME CreditTypes, OneOwner, NEW h
  PROVE  Unsent(h) = Owed(h)
<1> USE DEF CreditTypes
<1>1. ASSUME NEW p \in 0..1
      PROVE  /\ fragments[p] \in Seq(Handles) /\ Len(fragments[p]) \in Nat
             /\ DOMAIN fragments[p] = 1..Len(fragments[p])
  OBVIOUS
<1>2. ASSUME NEW p \in 0..1
      PROVE  Cardinality(UnsentAt(p, h)) = IF ~NoFragments /\ h = FrontHandle THEN Len(fragments[p]) ELSE 0
  <2>1. CASE ~NoFragments /\ h = FrontHandle
    <3>1. UnsentAt(p, h) = 1..Len(fragments[p])
      BY <1>1, <2>1, Zenon DEF UnsentAt, OneOwner
    <3>2. Cardinality(1..Len(fragments[p])) = Len(fragments[p])
      BY <1>1, FS_Interval
    <3> QED BY <2>1, <3>1, <3>2, Zenon
  <2>2. CASE ~NoFragments /\ h # FrontHandle
    <3>1. UnsentAt(p, h) = {}
      BY <2>2, Zenon DEF UnsentAt, OneOwner
    <3> QED BY <2>2, <3>1, FS_EmptySet, Zenon
  <2>3. CASE NoFragments
    <3>1. UnsentAt(p, h) = {}
      BY <1>1, <2>3 DEF UnsentAt, NoFragments
    <3> QED BY <2>3, <3>1, FS_EmptySet, Zenon
  <2> QED BY <2>1, <2>2, <2>3, Zenon
<1> DEFINE a == Len(fragments[0])
           b == Len(fragments[1])
<1>3. a \in Nat /\ b \in Nat
  BY <1>1
<1>4. /\ Cardinality(UnsentAt(0, h)) = IF ~NoFragments /\ h = FrontHandle THEN a ELSE 0
      /\ Cardinality(UnsentAt(1, h)) = IF ~NoFragments /\ h = FrontHandle THEN b ELSE 0
  BY <1>2
<1>5. Waiting = a + b
  BY Zenon DEF Waiting
<1> HIDE DEF a, b
<1> QED BY <1>3, <1>4, <1>5 DEF Unsent, Owed

\* The types of what is counted.
LEMMA CountTypes ==
  ASSUME IInv, CInv
  PROVE  /\ outstanding \in [Handles -> Nat] /\ completed \in [Handles -> Nat]
         /\ sent_packets \in [Handles -> Nat] /\ credits \in [Types -> Nat]
         /\ live \in [Handles -> Nat] /\ Waiting \in Nat
         /\ \A t \in Types : Total(live, t) \in Nat /\ MaxOf[t] \in Nat /\ Stale(t) \in Nat
<1>1. /\ outstanding \in [Handles -> Nat] /\ completed \in [Handles -> Nat]
      /\ sent_packets \in [Handles -> Nat] /\ credits \in [Types -> Nat]
  BY Zenon DEF IInv, CreditTypes, CInv
<1>2. live \in [Handles -> Nat]
  BY <1>1 DEF live
<1>3. Waiting \in Nat
  <2>1. fragments[0] \in Seq(Handles) /\ fragments[1] \in Seq(Handles)
    BY DEF IInv, CreditTypes
  <2> DEFINE a == Len(fragments[0])
             b == Len(fragments[1])
  <2>2. a \in Nat /\ b \in Nat
    BY <2>1
  <2>3. Waiting = a + b
    BY Zenon DEF Waiting
  <2> HIDE DEF a, b
  <2> QED BY <2>2, <2>3
<1>4. ASSUME NEW t \in Types PROVE Total(live, t) \in Nat /\ MaxOf[t] \in Nat /\ Stale(t) \in Nat
  <2>1. Total(live, t) \in Nat
    BY FS_CardinalityType, Zenon DEF CInv, Balance, Total
  <2> QED BY <1>3, <2>1, TypeOfHandle, Zenon DEF Stale
<1> QED BY <1>1, <1>2, <1>3, <1>4, Zenon

\* A step that leaves the fragments alone.
LEMMA SameFragments ==
  ASSUME UNCHANGED fragments
  PROVE  /\ NoFragments' = NoFragments /\ FrontHandle' = FrontHandle /\ Waiting' = Waiting
         /\ OneOwner' = OneOwner
         /\ \A h : Owed(h)' = Owed(h)
<1>1. NoFragments' = NoFragments /\ FrontHandle' = FrontHandle /\ Waiting' = Waiting
  BY Zenon DEF NoFragments, FrontHandle, TopPriority, Waiting
<1>2. OneOwner' = OneOwner
  BY <1>1, Zenon DEF OneOwner
<1>3. \A h : Owed(h)' = Owed(h)
  BY <1>1, Zenon DEF Owed
<1> QED BY <1>1, <1>2, <1>3, Zenon

\* A step that leaves the connections, the fragments and the counts alone.
LEMMA SameCounts ==
  ASSUME CInv,
         UNCHANGED <<handlers, outstanding, completed, sent_packets, fragments, credits, ended>>
  PROVE  CInv'
<1>1. /\ NoFragments' = NoFragments /\ FrontHandle' = FrontHandle /\ Waiting' = Waiting
      /\ OneOwner' = OneOwner /\ \A h : Owed(h)' = Owed(h)
  BY SameFragments, Zenon
<1>2. live' = live
  BY Zenon DEF live
<1>3. ASSUME NEW t \in Types PROVE Balance(t)'
  <2>1. Stale(t)' = Stale(t)
    BY <1>1, Zenon DEF Stale
  <2>2. Balance(t)
    BY Zenon DEF CInv
  <2> QED BY <1>2, <2>1, <2>2, Zenon DEF Balance
<1> QED BY <1>1, <1>2, <1>3, Zenon DEF CInv

\* What a step does to the totals when it changes what one connection has.
LEMMA LiveChange ==
  ASSUME IInv, CInv, NEW h \in Handles, NEW b \in Nat, live' = [live EXCEPT ![h] = b], NEW t \in Types
  PROVE  /\ IsFiniteSet(Places(live, t))'
         /\ Type(h) # t => Total(live, t)' = Total(live, t)
         /\ Type(h) = t => Total(live, t)' = Total(live, t) + (b - live[h])
<1>1. live \in [Handles -> Nat]
  BY CountTypes, Zenon
<1>2. IsFiniteSet(Places(live, t))
  BY Zenon DEF CInv, Balance
<1>3. /\ IsFiniteSet(Places(live', t))
      /\ Type(h) # t => Total(live', t) = Total(live, t)
      /\ Type(h) = t => Total(live', t) = Total(live, t) + (b - live[h])
  <2>1. Changes(live, live', h, b, t)
    BY <1>1, <1>2, Zenon DEF Changes
  <2>2. Changed(live, live', h, b, t)
    BY <2>1, TotalChange, Zenon
  <2> QED BY <2>2, Zenon DEF Changed
<1> QED BY <1>3, Zenon

\* buffer_packet is called for a connection that is there, with no fragment waiting; after
\* it all fragments are that connection's.
LEMMA Buffered ==
  ASSUME IInv, BufferPacket
  PROVE  LET h == Head(ready) IN
         /\ h \in handlers /\ NoFragments /\ ~NoFragments' /\ FrontHandle' = h
         /\ \A p \in 0..1 : \A i \in DOMAIN fragments'[p] : fragments'[p][i] = h
         /\ Waiting' \in Nat
         /\ sent_packets' = [sent_packets EXCEPT ![h] = @ + Waiting']
<1> DEFINE h == Head(ready)
           p == IF h \in high_priority THEN 1 ELSE 0
<1>1. h \in dequeue_registered /\ h \in Handles /\ h \in handlers /\ NoFragments
  BY Zenon DEF BufferPacket, IInv, CreditTypes, RegisteredMaySend
<1>2. PICK n \in 1..MaxFragments :
        /\ fragments' = [fragments EXCEPT ![p] = @ \o [i \in 1..n |-> h]]
        /\ sent_packets' = [sent_packets EXCEPT ![h] = @ + Len(fragments'[0]) + Len(fragments'[1])]
  BY Zenon DEF BufferPacket
<1>3. n \in Nat \ {0} /\ p \in 0..1
  BY SchedulerAssumption
<1>4. [i \in 1..n |-> h] \in Seq(Handles) /\ Len([i \in 1..n |-> h]) = n
  BY <1>1, <1>3
<1>5. fragments[p] = <<>> /\ fragments[1 - p] = <<>>
  BY <1>1, <1>3 DEF NoFragments
<1>6. fragments'[p] = [i \in 1..n |-> h] /\ fragments'[1 - p] = <<>>
  BY <1>2, <1>3, <1>4, <1>5 DEF IInv, CreditTypes
<1>7. TopPriority' = p /\ ~NoFragments'
  BY <1>3, <1>4, <1>6 DEF TopPriority, NoFragments
<1>8. FrontHandle' = h
  BY <1>3, <1>4, <1>6, <1>7 DEF FrontHandle
<1>9. ASSUME NEW r \in 0..1, NEW i \in DOMAIN fragments'[r] PROVE fragments'[r][i] = h
  <2>1. r = p \/ r = 1 - p
    BY <1>3
  <2> QED BY <1>3, <1>6, <2>1
<1>10. Len(fragments'[p]) = n /\ Len(fragments'[1 - p]) = 0
  BY <1>4, <1>6, Zenon
<1>11. Len(fragments'[0]) \in Nat /\ Len(fragments'[1]) \in Nat
  BY <1>3, <1>10
<1> DEFINE a == Len(fragments'[0])
           b == Len(fragments'[1])
<1>12. Waiting' = a + b /\ sent_packets' = [sent_packets EXCEPT ![h] = @ + a + b] /\ a \in Nat /\ b \in Nat
  BY <1>2, <1>11, Zenon DEF Waiting
<1>13. sent_packets \in [Handles -> Nat]
  BY Zenon DEF IInv, CreditTypes
<1> HIDE DEF h, p, a, b
<1>14. Waiting' \in Nat /\ sent_packets' = [sent_packets EXCEPT ![h] = @ + Waiting']
  <2>1. sent_packets[h] \in Nat
    BY <1>1, <1>13, Zenon
  <2>2. (sent_packets[h] + a) + b = sent_packets[h] + (a + b) /\ a + b \in Nat
    BY <1>12, <2>1
  <2> QED BY <1>12, <2>2, Zenon
<1> QED BY <1>1, <1>7, <1>8, <1>9, <1>14, Zenon DEF h

\* The step that takes the front fragment leaves the others where they are.
LEMMA FrontTaken ==
  ASSUME IInv, OneOwner, EnqueueNextFragment
  PROVE  /\ ~NoFragments /\ FrontHandle \in Handles /\ credits[Type(FrontHandle)] > 0
         /\ ~NoFragments' => FrontHandle' = FrontHandle
         /\ NoFragments' => Waiting' = 0
         /\ OneOwner'
         /\ Waiting \in Nat /\ Waiting' = Waiting - 1 /\ Waiting' \in Nat
<1> DEFINE top == TopPriority
           o == 1 - top
<1>1. ~NoFragments /\ credits[Type(FrontHandle)] > 0 /\ fragments' = [fragments EXCEPT ![top] = Tail(@)]
  BY Zenon DEF EnqueueNextFragment
<1>2. FrontHandle \in Handles /\ top \in 0..1 /\ o \in 0..1 /\ o # top /\ fragments[top] # <<>>
  BY <1>1, FrontIsHandle DEF IInv
<1>3. fragments \in [0..1 -> Seq(Handles)]
  BY Zenon DEF IInv, CreditTypes
<1>4. /\ fragments'[top] = Tail(fragments[top]) /\ fragments'[o] = fragments[o]
      /\ fragments'[top] \in Seq(Handles) /\ fragments'[o] \in Seq(Handles)
      /\ fragments[top] \in Seq(Handles)
  BY <1>1, <1>2, <1>3
<1>5. /\ Len(fragments'[top]) = Len(fragments[top]) - 1 /\ Len(fragments'[o]) = Len(fragments[o])
      /\ Len(fragments[top]) \in Nat \ {0} /\ Len(fragments[o]) \in Nat
  BY <1>2, <1>4
<1>6. ASSUME NEW q \in 0..1, NEW i \in DOMAIN fragments'[q] PROVE fragments'[q][i] = FrontHandle
  <2>1. CASE q = o
    BY <1>2, <1>4, <2>1, Zenon DEF OneOwner
  <2>2. CASE q = top
    <3>1. i \in 1..(Len(fragments[top]) - 1) /\ fragments'[q][i] = fragments[top][i + 1]
      <4> DEFINE u == fragments[top]
      <4>1. u \in Seq(Handles) /\ u # <<>> /\ fragments'[q] = Tail(u) /\ Len(Tail(u)) = Len(u) - 1
        BY <1>2, <1>4, <1>5, <2>2, Zenon
      <4>2. i \in DOMAIN Tail(u)
        BY <4>1, Zenon
      <4> HIDE DEF u
      <4>3. i \in 1..(Len(u) - 1) /\ Tail(u)[i] = u[i + 1]
        BY <4>1, <4>2
      <4> QED BY <4>1, <4>3, Zenon DEF u
    <3>2. i + 1 \in DOMAIN fragments[top]
      BY <1>4, <1>5, <3>1
    <3> QED BY <1>2, <3>1, <3>2, Zenon DEF OneOwner
  <2> QED BY <1>2, <2>1, <2>2
<1>7. ASSUME ~NoFragments' PROVE FrontHandle' = FrontHandle
  <2>1. TopPriority' \in 0..1 /\ fragments'[TopPriority'] # <<>>
    BY <1>7 DEF NoFragments, TopPriority
  <2>2. fragments'[TopPriority'] \in Seq(Handles)
    <3>1. TopPriority' = top \/ TopPriority' = o
      BY <1>2, <2>1
    <3> QED BY <1>4, <3>1, Zenon
  <2>3. 1 \in DOMAIN fragments'[TopPriority'] /\ Head(fragments'[TopPriority']) = fragments'[TopPriority'][1]
    BY <2>1, <2>2
  <2> QED BY <1>6, <2>1, <2>3, Zenon DEF FrontHandle
<1>8. OneOwner'
  <2>1. CASE NoFragments'
    BY <2>1 DEF OneOwner, NoFragments
  <2>2. CASE ~NoFragments'
    BY <1>6, <1>7, <2>2, Zenon DEF OneOwner
  <2> QED BY <2>1, <2>2, Zenon
<1> DEFINE a == Len(fragments[top])
           b == Len(fragments[o])
<1>9. Waiting = a + b /\ Waiting' = (a - 1) + b
  <2>1. top = 0 \/ top = 1
    BY <1>2
  <2>2. CASE top = 0
    <3>1. o = 1
      BY <2>2
    <3> QED BY <1>5, <2>2, <3>1, Zenon DEF Waiting
  <2>3. CASE top = 1
    <3>1. o = 0
      BY <2>3
    <3>2. /\ Len(fragments'[1]) = a - 1 /\ Len(fragments'[0]) = b /\ Len(fragments[1]) = a
          /\ Len(fragments[0]) = b /\ a \in Nat /\ b \in Nat
      BY <1>5, <2>3, <3>1, Zenon
    <3> HIDE DEF a, b
    <3> QED BY <3>2 DEF Waiting
  <2> QED BY <2>1, <2>2, <2>3, Zenon
<1>10. a \in Nat \ {0} /\ b \in Nat
  BY <1>5, Zenon
<1>11. NoFragments' => a - 1 = 0 /\ b = 0
  BY <1>2, <1>5, Zenon DEF NoFragments
<1> HIDE DEF a, b
<1> QED BY <1>1, <1>2, <1>7, <1>8, <1>9, <1>10, <1>11

\* The connection that buffer_packet serves is there, so nothing becomes stale.
LEMMA BufferCInv == ASSUME IInv, CInv, BufferPacket PROVE CInv'
<1> DEFINE h == Head(ready)
<1>1. /\ h \in handlers /\ NoFragments /\ ~NoFragments' /\ FrontHandle' = h /\ Waiting' \in Nat
      /\ sent_packets' = [sent_packets EXCEPT ![h] = @ + Waiting']
      /\ \A p \in 0..1 : \A i \in DOMAIN fragments'[p] : fragments'[p][i] = h
  BY Buffered, Zenon
<1>2. UNCHANGED <<handlers, credits, outstanding, completed, ended>>
  BY Zenon DEF BufferPacket
<1>3. handlers \subseteq Handles
  BY Zenon DEF IInv, CreditTypes
<1> HIDE DEF h
<1>4. OneOwner'
  BY <1>1, Zenon DEF OneOwner
<1>5. live' = live
  BY <1>2, Zenon DEF live
<1>6. ASSUME NEW g \in handlers
      PROVE  sent_packets'[g] = outstanding[g] + completed[g] + Owed(g)'
  <2>1. /\ sent_packets[g] = outstanding[g] + completed[g] + Owed(g)
        /\ outstanding[g] \in Nat /\ completed[g] \in Nat /\ sent_packets[g] \in Nat
    BY <1>3, CountTypes, Zenon DEF CInv
  <2>2. Owed(g) = 0 /\ Owed(g)' = IF g = h THEN Waiting' ELSE 0
    BY <1>1, Zenon DEF Owed
  <2>3. sent_packets'[g] = IF g = h THEN sent_packets[g] + Waiting' ELSE sent_packets[g]
    BY <1>1, <1>3, CountTypes, Zenon
  <2> QED BY <1>1, <2>1, <2>2, <2>3
<1>7. ASSUME NEW t \in Types PROVE Balance(t)'
  <2>1. Balance(t) /\ Stale(t) = 0 /\ Stale(t)' = 0
    BY <1>1, <1>2, Zenon DEF CInv, Stale
  <2> QED BY <1>2, <1>5, <2>1, Zenon DEF Balance
<1> QED BY <1>1, <1>2, <1>4, <1>6, <1>7, Zenon DEF CInv

\* A credit is spent for the front fragment: by a connection that is there for a buffer of
\* the controller, otherwise it is one of those that were reclaimed.
LEMMA EnqueueCInv == ASSUME IInv, CInv, EnqueueNextFragment PROVE CInv'
<1> DEFINE k == FrontHandle
<1> USE TypeOfHandle
<1>1. /\ ~NoFragments /\ k \in Handles /\ credits[Type(k)] > 0
      /\ ~NoFragments' => FrontHandle' = k
      /\ NoFragments' => Waiting' = 0
      /\ OneOwner' /\ Waiting \in Nat /\ Waiting' = Waiting - 1 /\ Waiting' \in Nat
  BY FrontTaken, Zenon DEF CInv
<1>2. /\ UNCHANGED <<handlers, sent_packets, completed, ended>>
      /\ credits' = [credits EXCEPT ![Type(k)] = @ - 1]
      /\ outstanding' = IF k \in handlers THEN [outstanding EXCEPT ![k] = @ + 1] ELSE outstanding
  BY Zenon DEF EnqueueNextFragment, connVars
<1>3. handlers \subseteq Handles
  BY Zenon DEF IInv, CreditTypes
<1>4. /\ outstanding \in [Handles -> Nat] /\ completed \in [Handles -> Nat]
      /\ live \in [Handles -> Nat] /\ credits \in [Types -> Nat] /\ sent_packets \in [Handles -> Nat]
  BY CountTypes, Zenon
<1>5. \A g : Owed(g) = (IF g = k THEN Waiting ELSE 0) /\ Owed(g)' = (IF g = k THEN Waiting' ELSE 0)
  BY <1>1, Zenon DEF Owed
<1>6. \A t \in Types : /\ Stale(t) = IF k \notin handlers /\ Type(k) = t THEN Waiting ELSE 0
                       /\ Stale(t)' = IF k \notin handlers /\ Type(k) = t THEN Waiting' ELSE 0
  BY <1>1, <1>2, Zenon DEF Stale
<1> HIDE DEF k
<1>7. outstanding' \in [Handles -> Nat] /\ credits' \in [Types -> Nat]
  BY <1>1, <1>2, <1>4
<1>8. ASSUME NEW g \in Handles \ handlers
      PROVE  outstanding'[g] = 0 /\ (~ended => completed[g] = 0)
  BY <1>2, <1>4, Zenon DEF CInv
<1>9. ASSUME NEW g \in handlers
      PROVE  sent_packets[g] = outstanding'[g] + completed[g] + Owed(g)'
  <2>1. /\ sent_packets[g] = outstanding[g] + completed[g] + Owed(g)
        /\ outstanding[g] \in Nat /\ completed[g] \in Nat
    BY <1>3, <1>4, Zenon DEF CInv
  <2>2. CASE g = k
    <3>1. outstanding'[g] = outstanding[g] + 1
      BY <1>1, <1>2, <1>4, <2>2, Zenon
    <3> QED BY <1>1, <1>5, <2>1, <2>2, <3>1
  <2>3. CASE g # k
    <3>1. outstanding'[g] = outstanding[g]
      BY <1>2, <1>3, <1>4, <2>3, Zenon
    <3> QED BY <1>5, <2>1, <2>3, <3>1, Zenon
  <2> QED BY <2>2, <2>3, Zenon
<1>10. ASSUME NEW t \in Types PROVE Balance(t)'
  <2>1. /\ Balance(t) /\ Total(live, t) \in Nat /\ MaxOf[t] \in Nat
        /\ credits[t] \in Nat /\ credits'[t] = IF Type(k) = t THEN credits[t] - 1 ELSE credits[t]
    BY <1>2, <1>4, CountTypes, Zenon DEF CInv
  <2>2. CASE k \in handlers
    <3>1. Stale(t) = 0 /\ Stale(t)' = 0
      BY <1>6, <2>2, Zenon
    <3>2. live' = [live EXCEPT ![k] = live[k] + 1] /\ live[k] + 1 \in Nat
      <4>1. outstanding[k] \in Nat /\ completed[k] \in Nat /\ live[k] = outstanding[k] + completed[k]
        BY <1>1, <1>4, <2>2, Zenon DEF live
      <4>2. live'[k] = live[k] + 1 /\ live[k] + 1 \in Nat
        <5>1. outstanding'[k] = outstanding[k] + 1 /\ live'[k] = outstanding'[k] + completed[k]
          BY <1>1, <1>2, <1>4, <2>2, Zenon DEF live
        <5> QED BY <4>1, <5>1
      <4>3. \A g \in Handles : g # k => live'[g] = live[g]
        BY <1>2, <1>4, <2>2, Zenon DEF live
      <4>4. DOMAIN live' = Handles /\ DOMAIN live = Handles /\ live' = [g \in Handles |-> live'[g]]
        BY Zenon DEF live
      <4> QED BY <1>1, <1>4, <4>2, <4>3, <4>4, Zenon
    <3>3. /\ IsFiniteSet(Places(live, t))'
          /\ Type(k) # t => Total(live, t)' = Total(live, t)
          /\ Type(k) = t => Total(live, t)' = Total(live, t) + 1
      <4>1. /\ IsFiniteSet(Places(live, t))'
            /\ Type(k) # t => Total(live, t)' = Total(live, t)
            /\ Type(k) = t => Total(live, t)' = Total(live, t) + ((live[k] + 1) - live[k])
        BY <1>1, <3>2, LiveChange, Zenon
      <4>2. (live[k] + 1) - live[k] = 1
        BY <1>1, <1>4
      <4> QED BY <4>1, <4>2, Zenon
    <3> DEFINE T == Total(live, t)
               T2 == Total(live, t)'
               c == credits[t]
               c2 == credits'[t]
               mx == MaxOf[t]
    <3>4. /\ T \in Nat /\ c \in Nat /\ mx \in Nat /\ c + T <= mx /\ (~ended => c + T = mx)
          /\ T2 = (IF Type(k) = t THEN T + 1 ELSE T) /\ c2 = (IF Type(k) = t THEN c - 1 ELSE c)
          /\ T <= mx /\ (Type(k) = t => c > 0)
      BY <1>1, <2>1, <3>1, <3>3 DEF Balance
    <3> HIDE DEF T, T2, c, c2, mx
    <3>5. T2 <= mx /\ c2 + T2 <= mx + 0 /\ (~ended => c2 + T2 = mx)
      BY <3>4
    <3> QED BY <1>2, <3>1, <3>3, <3>5, Zenon DEF Balance, T, T2, c, c2, mx
  <2>3. CASE k \notin handlers
    <3>1. ended /\ ended'
      BY <1>1, <1>2, <2>3, Zenon DEF CInv, k
    <3>2. live' = live
      BY <1>2, <2>3, Zenon DEF live
    <3>3. Stale(t) = (IF Type(k) = t THEN Waiting ELSE 0) /\ Stale(t)' = (IF Type(k) = t THEN Waiting' ELSE 0)
      BY <1>6, <2>3, Zenon
    <3>4. credits'[t] + Total(live, t) <= MaxOf[t] + Stale(t)'
      BY <1>1, <2>1, <3>3 DEF Balance
    <3> QED BY <2>1, <3>1, <3>2, <3>4, Zenon DEF Balance
  <2> QED BY <2>2, <2>3, Zenon
<1>11. ~ended /\ ~NoFragments' => FrontHandle' \in handlers
  BY <1>1, Zenon DEF CInv, k
<1> QED BY <1>1, <1>2, <1>7, <1>8, <1>9, <1>10, <1>11, Zenon DEF CInv

\* A connection registers when nothing of its handle is left.
LEMMA RegisterCInv == ASSUME IInv, CInv, NEW h \in Handles, Register(h) PROVE CInv'
<1>1. /\ h \notin handlers /\ handlers' = handlers \cup {h} /\ sent_packets' = [sent_packets EXCEPT ![h] = 0]
      /\ UNCHANGED <<fragments, credits, outstanding, completed, ended>>
      /\ completed[h] = 0 /\ \A p \in 0..1 : h \notin Range(fragments[p])
  BY Zenon DEF Register, Gone, envVars
<1>2. /\ NoFragments' = NoFragments /\ FrontHandle' = FrontHandle /\ Waiting' = Waiting
      /\ OneOwner' = OneOwner /\ \A g : Owed(g)' = Owed(g)
  BY <1>1, SameFragments, Zenon
<1>3. handlers \subseteq Handles
  BY Zenon DEF IInv, CreditTypes
<1>4. outstanding[h] = 0
  BY <1>1, Zenon DEF CInv
<1>5. ~NoFragments => h # FrontHandle
  <2> SUFFICES ASSUME ~NoFragments PROVE h # FrontHandle
    BY Zenon
  <2>1. TopPriority \in 0..1 /\ fragments[TopPriority] # <<>>
    BY FrontIsHandle, Zenon DEF IInv
  <2>2. fragments[TopPriority] \in Seq(Handles)
    BY <2>1, Zenon DEF IInv, CreditTypes
  <2>3. FrontHandle = fragments[TopPriority][1] /\ 1 \in DOMAIN fragments[TopPriority]
    BY <2>1, <2>2 DEF FrontHandle
  <2>4. FrontHandle \in Range(fragments[TopPriority])
    BY <2>3, Zenon DEF Range
  <2> QED BY <1>1, <2>1, <2>4, Zenon
<1>6. live' = live
  <2>1. live'[h] = 0 + 0 /\ live[h] = 0
    BY <1>1, <1>4, Zenon DEF live
  <2>2. ASSUME NEW g \in Handles, g # h PROVE live'[g] = live[g]
    BY <1>1, <2>2, Zenon DEF live
  <2>3. live' = [g \in Handles |-> live'[g]] /\ live = [g \in Handles |-> live[g]]
    BY Zenon DEF live
  <2>4. \A g \in Handles : live'[g] = live[g]
    BY <2>1, <2>2
  <2> QED BY <2>3, <2>4, Zenon
<1>7. ASSUME NEW g \in handlers'
      PROVE  sent_packets'[g] = outstanding[g] + completed[g] + Owed(g)
  <2>1. CASE g = h
    <3>1. Owed(g) = 0
      BY <1>5, <2>1, Zenon DEF Owed
    <3>2. sent_packets'[g] = 0
      BY <1>1, <2>1, CountTypes, Zenon
    <3> QED BY <1>1, <1>4, <2>1, <3>1, <3>2
  <2>2. CASE g # h
    <3>1. g \in handlers /\ sent_packets'[g] = sent_packets[g]
      BY <1>1, <1>3, <2>2, CountTypes, Zenon
    <3> QED BY <3>1, Zenon DEF CInv
  <2> QED BY <2>1, <2>2, Zenon
<1>8. ASSUME NEW t \in Types PROVE Balance(t)'
  <2>1. Balance(t)
    BY Zenon DEF CInv
  <2>2. Stale(t)' = Stale(t)
    BY <1>1, <1>2, <1>5, Zenon DEF Stale
  <2> QED BY <1>1, <1>6, <2>1, <2>2, Zenon DEF Balance
<1>9. ASSUME NEW g \in Handles \ handlers' PROVE outstanding[g] = 0 /\ (~ended => completed[g] = 0)
  BY <1>1, Zenon DEF CInv
<1>10. ~ended /\ ~NoFragments => FrontHandle \in handlers'
  BY <1>1, Zenon DEF CInv
<1> QED BY <1>1, <1>2, <1>7, <1>8, <1>9, <1>10, Zenon DEF CInv

\* Unregister gives back a credit for each packet that was counted: those that the
\* controller dropped, and those that are still to be sent and will spend it.
LEMMA UnregisterCInv == ASSUME IInv, CInv, NEW h \in Handles, Unregister(h) PROVE CInv'
<1> USE TypeOfHandle
<1>1. /\ h \in handlers /\ handlers' = handlers \ {h} /\ ended'
      /\ credits' = [credits EXCEPT ![Type(h)] = @ + sent_packets[h]]
      /\ outstanding' = [outstanding EXCEPT ![h] = 0]
      /\ UNCHANGED <<sent_packets, fragments, completed>>
  BY Zenon DEF Unregister, Reclaimed
<1>2. /\ NoFragments' = NoFragments /\ FrontHandle' = FrontHandle /\ Waiting' = Waiting
      /\ OneOwner' = OneOwner /\ \A g : Owed(g)' = Owed(g)
  BY <1>1, SameFragments, Zenon
<1>3. handlers \subseteq Handles
  BY Zenon DEF IInv, CreditTypes
<1>4. /\ outstanding \in [Handles -> Nat] /\ completed \in [Handles -> Nat] /\ Waiting \in Nat
      /\ live \in [Handles -> Nat] /\ credits \in [Types -> Nat] /\ sent_packets \in [Handles -> Nat]
  BY CountTypes, Zenon
<1>5. live' = [live EXCEPT ![h] = 0]
  BY <1>1, <1>4, Zenon DEF live
<1>6. sent_packets[h] = live[h] + Owed(h) /\ live[h] \in Nat /\ Owed(h) \in Nat
  BY <1>1, <1>3, <1>4, Zenon DEF CInv, live, Owed
<1>7. ASSUME NEW t \in Types PROVE Balance(t)'
  <2>1. /\ IsFiniteSet(Places(live, t))'
        /\ Type(h) # t => Total(live, t)' = Total(live, t)
        /\ Type(h) = t => Total(live, t)' = Total(live, t) + (0 - live[h])
    BY <1>5, LiveChange, Zenon
  <2>2. /\ Balance(t) /\ Total(live, t) \in Nat /\ MaxOf[t] \in Nat /\ Stale(t) \in Nat /\ credits[t] \in Nat
        /\ credits'[t] = IF Type(h) = t THEN credits[t] + sent_packets[h] ELSE credits[t]
    BY <1>1, <1>4, CountTypes, Zenon DEF CInv
  <2>3. CASE Type(h) # t
    <3>1. Stale(t)' = Stale(t)
      BY <1>1, <1>2, <2>3, Zenon DEF Stale
    <3> QED BY <1>1, <2>1, <2>2, <2>3, <3>1, Zenon DEF Balance
  <2>4. CASE Type(h) = t
    <3>1. Stale(t)' = Stale(t) + Owed(h)
      BY <1>1, <1>2, <1>4, <2>4 DEF Stale, Owed
    <3>2. /\ Total(live, t)' <= MaxOf[t]
          /\ credits'[t] + Total(live, t)' <= MaxOf[t] + Stale(t)'
      BY <1>6, <2>1, <2>2, <2>4, <3>1 DEF Balance
    <3> QED BY <1>1, <2>1, <3>2, Zenon DEF Balance
  <2> QED BY <2>3, <2>4, Zenon
<1>8. outstanding' \in [Handles -> Nat]
  BY <1>1, <1>4, Zenon
<1>9. ASSUME NEW g \in Handles \ handlers' PROVE outstanding'[g] = 0
  BY <1>1, <1>4, Zenon DEF CInv
<1>10. ASSUME NEW g \in handlers' PROVE sent_packets[g] = outstanding'[g] + completed[g] + Owed(g)
  BY <1>1, <1>3, <1>4, Zenon DEF CInv
<1> QED BY <1>1, <1>2, <1>7, <1>8, <1>9, <1>10, Zenon DEF CInv

\* A completed packet leaves its buffer; its credit is on the way.
LEMMA CompleteCInv == ASSUME IInv, CInv, NEW h \in Handles, Complete(h) PROVE CInv'
<1>1. /\ outstanding[h] > 0 /\ outstanding' = [outstanding EXCEPT ![h] = @ - 1]
      /\ completed' = [completed EXCEPT ![h] = @ + 1]
      /\ UNCHANGED <<handlers, sent_packets, fragments, credits, ended>>
  BY Zenon DEF Complete, connVars
<1>2. /\ NoFragments' = NoFragments /\ FrontHandle' = FrontHandle /\ Waiting' = Waiting
      /\ OneOwner' = OneOwner /\ \A g : Owed(g)' = Owed(g)
  BY <1>1, SameFragments, Zenon
<1>3. handlers \subseteq Handles
  BY Zenon DEF IInv, CreditTypes
<1>4. /\ outstanding \in [Handles -> Nat] /\ completed \in [Handles -> Nat] /\ Waiting \in Nat
  BY CountTypes, Zenon
<1>5. h \in handlers
  BY <1>1, <1>4 DEF CInv
<1>6. /\ outstanding' \in [Handles -> Nat] /\ outstanding'[h] + completed'[h] = outstanding[h] + completed[h]
      /\ \A g \in Handles : g # h => outstanding'[g] = outstanding[g] /\ completed'[g] = completed[g]
  BY <1>1, <1>4
<1>7. \A g \in Handles : outstanding'[g] + completed'[g] = outstanding[g] + completed[g]
  BY <1>6, Zenon
<1>8. live' = live
  BY <1>1, <1>7, Zenon DEF live
<1>9. ASSUME NEW t \in Types PROVE Balance(t)'
  <2>1. Balance(t)
    BY Zenon DEF CInv
  <2>2. Stale(t)' = Stale(t)
    BY <1>1, <1>2, Zenon DEF Stale
  <2> QED BY <1>1, <1>8, <2>1, <2>2, Zenon DEF Balance
<1>10. ASSUME NEW g \in handlers PROVE sent_packets[g] = outstanding'[g] + completed'[g] + Owed(g)
  BY <1>3, <1>7, Zenon DEF CInv
<1>11. ASSUME NEW g \in Handles \ handlers PROVE outstanding'[g] = 0 /\ (~ended => completed'[g] = 0)
  BY <1>5, <1>6, Zenon DEF CInv
<1> QED BY <1>1, <1>2, <1>6, <1>9, <1>10, <1>11, Zenon DEF CInv

\* The smaller of two numbers.
LEMMA MinIs == ASSUME NEW a \in Nat, NEW b \in Nat PROVE Min({a, b}) = IF a <= b THEN a ELSE b
<1>1. \E x \in {a, b} : \A y \in {a, b} : x =< y
  OBVIOUS
<1>2. Min({a, b}) \in {a, b} /\ \A y \in {a, b} : Min({a, b}) =< y
  BY <1>1, Zenon DEF Min
<1> QED BY <1>2

\* The credits that come back are those that were spent; the cap takes none away before a
\* connection ends.
LEMMA IncomingCInv == ASSUME IInv, CInv, NEW h \in Handles, IncomingCredits(h) PROVE CInv'
<1> USE TypeOfHandle
<1>1. PICK n \in 1..completed[h] :
        /\ completed' = [completed EXCEPT ![h] = @ - n]
        /\ sent_packets' = [sent_packets EXCEPT ![h] = IF @ >= n THEN @ - n ELSE 0]
        /\ credits' = [credits EXCEPT ![Type(h)] = Capped(Type(h), n)]
  BY Zenon DEF IncomingCredits
<1>2. h \in handlers /\ UNCHANGED <<handlers, fragments, outstanding, ended>>
  BY Zenon DEF IncomingCredits
<1>3. /\ NoFragments' = NoFragments /\ FrontHandle' = FrontHandle /\ Waiting' = Waiting
      /\ OneOwner' = OneOwner /\ \A g : Owed(g)' = Owed(g)
  BY <1>2, SameFragments, Zenon
<1>4. /\ outstanding \in [Handles -> Nat] /\ completed \in [Handles -> Nat] /\ Waiting \in Nat
      /\ live \in [Handles -> Nat] /\ credits \in [Types -> Nat] /\ sent_packets \in [Handles -> Nat]
  BY CountTypes, Zenon
<1>5. n \in Nat \ {0} /\ n <= completed[h] /\ completed[h] \in Nat /\ completed[h] - n \in Nat
  BY <1>4
<1>6. live[h] = outstanding[h] + completed[h] /\ live[h] - n \in Nat /\ live[h] \in Nat
  BY <1>2, <1>4, <1>5 DEF live
<1>7. live' = [live EXCEPT ![h] = live[h] - n]
  <2>1. live'[h] = live[h] - n
    <3>1. completed'[h] = completed[h] - n /\ live'[h] = outstanding[h] + completed'[h]
      BY <1>1, <1>2, <1>4, Zenon DEF live
    <3> QED BY <1>4, <1>5, <1>6, <3>1
  <2>2. \A g \in Handles : g # h => live'[g] = live[g]
    BY <1>1, <1>2, <1>4, Zenon DEF live
  <2>3. live' = [g \in Handles |-> live'[g]] /\ live = [g \in Handles |-> live[g]]
    BY Zenon DEF live
  <2> QED BY <1>4, <2>1, <2>2, <2>3, Zenon
<1>8. \A g \in handlers : g \in Handles
  BY Zenon DEF IInv, CreditTypes
<1>9. ASSUME NEW g \in handlers PROVE sent_packets'[g] = outstanding[g] + completed'[g] + Owed(g)
  <2>1. /\ sent_packets[g] = outstanding[g] + completed[g] + Owed(g) /\ Owed(g) \in Nat
        /\ outstanding[g] \in Nat /\ completed[g] \in Nat /\ sent_packets[g] \in Nat
    BY <1>4, <1>8, Zenon DEF CInv, Owed
  <2>2. CASE g = h
    <3>1. sent_packets[g] >= n
      BY <1>5, <2>1, <2>2
    <3>2. sent_packets'[g] = sent_packets[g] - n /\ completed'[g] = completed[g] - n
      BY <1>1, <1>4, <2>2, <3>1, Zenon
    <3> QED BY <1>5, <2>1, <3>2
  <2>3. CASE g # h
    <3>1. sent_packets'[g] = sent_packets[g] /\ completed'[g] = completed[g]
      BY <1>1, <1>4, <1>8, <2>3, Zenon
    <3> QED BY <2>1, <3>1, Zenon
  <2> QED BY <2>2, <2>3, Zenon
<1>10. ASSUME NEW t \in Types PROVE Balance(t)'
  <2>1. /\ IsFiniteSet(Places(live, t))'
        /\ Type(h) # t => Total(live, t)' = Total(live, t)
        /\ Type(h) = t => Total(live, t)' = Total(live, t) + ((live[h] - n) - live[h])
    BY <1>6, <1>7, LiveChange, Zenon
  <2>2. /\ Balance(t) /\ Total(live, t) \in Nat /\ MaxOf[t] \in Nat /\ Stale(t) \in Nat /\ credits[t] \in Nat
        /\ credits'[t] = IF Type(h) = t THEN Capped(t, n) ELSE credits[t]
    BY <1>1, <1>4, CountTypes, Zenon DEF CInv
  <2>3. Stale(t)' = Stale(t)
    BY <1>2, <1>3, Zenon DEF Stale
  <2>4. CASE Type(h) # t
    BY <1>2, <2>1, <2>2, <2>3, <2>4, Zenon DEF Balance
  <2>5. CASE Type(h) = t
    <3>1. Total(live, t)' = Total(live, t) - n
      BY <1>5, <1>6, <2>1, <2>2, <2>5
    <3>2. Capped(t, n) = IF credits[t] + n <= MaxOf[t] THEN credits[t] + n ELSE MaxOf[t]
      BY <1>5, <2>2, MinIs DEF Capped
    <3>3. Total(live, t)' \in Nat
      BY <2>1, FS_CardinalityType, Zenon DEF Total
    <3> DEFINE T == Total(live, t)
               T2 == Total(live, t)'
               c == credits[t]
               c2 == credits'[t]
               mx == MaxOf[t]
               st == Stale(t)
    <3>4. /\ T \in Nat /\ c \in Nat /\ mx \in Nat /\ st \in Nat /\ T2 \in Nat /\ T2 = T - n
          /\ c + T <= mx + st /\ (~ended => c + T = mx) /\ T <= mx
          /\ c2 = IF c + n <= mx THEN c + n ELSE mx
      BY <2>2, <2>5, <3>1, <3>2, <3>3, Zenon DEF Balance
    <3> HIDE DEF T, T2, c, c2, mx, st
    <3>5. T2 <= mx /\ c2 + T2 <= mx + st /\ (~ended => c2 + T2 = mx)
      BY <1>5, <3>4
    <3> QED BY <1>2, <2>1, <2>3, <3>5, Zenon DEF Balance, T, T2, c, c2, mx, st
  <2> QED BY <2>4, <2>5, Zenon
<1>11. ASSUME NEW g \in Handles \ handlers PROVE outstanding[g] = 0 /\ (~ended => completed'[g] = 0)
  BY <1>1, <1>2, <1>4, Zenon DEF CInv
<1> QED BY <1>2, <1>3, <1>9, <1>10, <1>11, Zenon DEF CInv

\* Completions of a connection that ended are counted nowhere.
LEMMA DropCInv == ASSUME IInv, CInv, NEW h \in Handles, DropCredits(h) PROVE CInv'
<1>1. /\ h \notin handlers /\ completed' = [completed EXCEPT ![h] = 0]
      /\ UNCHANGED <<handlers, sent_packets, fragments, credits, outstanding, ended>>
  BY Zenon DEF DropCredits, connVars
<1>2. /\ NoFragments' = NoFragments /\ FrontHandle' = FrontHandle /\ Waiting' = Waiting
      /\ OneOwner' = OneOwner /\ \A g : Owed(g)' = Owed(g)
  BY <1>1, SameFragments, Zenon
<1>3. handlers \subseteq Handles /\ completed \in [Handles -> Nat]
  BY Zenon DEF IInv, CreditTypes
<1>4. \A g \in Handles : g # h => completed'[g] = completed[g]
  BY <1>1, <1>3, Zenon
<1>5. live' = live
  <2>1. \A g \in Handles : live'[g] = live[g]
    BY <1>1, <1>4 DEF live
  <2>2. live' = [g \in Handles |-> live'[g]] /\ live = [g \in Handles |-> live[g]]
    BY Zenon DEF live
  <2> QED BY <2>1, <2>2, Zenon
<1>6. ASSUME NEW t \in Types PROVE Balance(t)'
  <2>1. Balance(t)
    BY Zenon DEF CInv
  <2>2. Stale(t)' = Stale(t)
    BY <1>1, <1>2, Zenon DEF Stale
  <2> QED BY <1>1, <1>5, <2>1, <2>2, Zenon DEF Balance
<1>7. ASSUME NEW g \in handlers PROVE sent_packets[g] = outstanding[g] + completed'[g] + Owed(g)
  BY <1>1, <1>3, <1>4, Zenon DEF CInv
<1>8. ASSUME NEW g \in Handles \ handlers PROVE outstanding[g] = 0 /\ (~ended => completed'[g] = 0)
  BY <1>1, <1>3, Zenon DEF CInv
<1> QED BY <1>1, <1>2, <1>6, <1>7, <1>8, Zenon DEF CInv

\* At the start nothing is outstanding and all credits are there.
LEMMA InitCInv == Init => CInv
<1> SUFFICES ASSUME Init PROVE CInv
  BY Zenon
<1>1. NoFragments /\ OneOwner
  BY DEF Init, NoFragments, OneOwner
<1>2. ASSUME NEW t \in Types PROVE Balance(t)
  <2>1. \A h \in Handles : live[h] = 0
    BY Zenon DEF Init, live
  <2>2. Places(live, t) = {}
    <3>1. ASSUME NEW x \in Places(live, t) PROVE FALSE
      <4>1. PICK h \in Handles : x \in {h} \X (1..live[h])
        BY InPlaces, Zenon
      <4>2. {h} \X (1..0) = {}
        OBVIOUS
      <4> QED BY <2>1, <4>1, <4>2, Zenon
    <3> QED BY <3>1, Zenon
  <2>3. IsFiniteSet(Places(live, t)) /\ Total(live, t) = 0
    BY <2>2, FS_EmptySet, Zenon DEF Total
  <2>4. MaxOf[t] \in Nat /\ credits[t] = MaxOf[t] /\ Stale(t) = 0
    BY <1>1, TypeOfHandle, Zenon DEF Init, Stale
  <2> QED BY <2>3, <2>4 DEF Balance
<1> QED BY <1>1, <1>2, Zenon DEF Init, CInv

\* Every step keeps the credits balanced.
LEMMA NextCInv == IInv /\ CInv /\ [Next]_vars => CInv'
<1> SUFFICES ASSUME IInv, CInv, [Next]_vars PROVE CInv'
  BY Zenon
<1>1. CASE UNCHANGED vars
  BY <1>1, SameCounts, Zenon DEF vars, connVars, envVars
<1>2. CASE RunPosted
  BY <1>2, SameCounts, Zenon DEF RunPosted, connVars, envVars
<1>3. ASSUME NEW h \in Handles, SetLinkPriority(h) \/ Arrive(h) PROVE CInv'
  BY <1>3, SameCounts, Zenon DEF SetLinkPriority, Arrive, connVars, envVars
<1> QED
  BY <1>1, <1>2, <1>3, BufferCInv, EnqueueCInv, RegisterCInv, UnregisterCInv, CompleteCInv,
     IncomingCInv, DropCInv, Zenon DEF Next

\* For every set of connections and every number of buffers: number_of_sent_packets_ of a
\* connection counts exactly its packets that are to be sent, in the controller or on the way
\* back; and until a connection ends, no credit of either pool is lost or invented.
THEOREM CreditsExact == Spec => []CreditsConserved
<1>1. IInv /\ CInv => CreditsConserved
  <2> SUFFICES ASSUME IInv, CInv PROVE CreditsConserved
    BY Zenon
  <2>1. \A h : Unsent(h) = Owed(h)
    BY UnsentIs, Zenon DEF IInv, CInv
  <2>2. \A h \in handlers : sent_packets[h] = outstanding[h] + completed[h] + Unsent(h)
    BY <2>1, Zenon DEF CInv
  <2>3. ASSUME ~ended PROVE live = [h \in Handles |-> outstanding[h] + completed[h]]
    <3>1. ASSUME NEW h \in Handles PROVE live[h] = outstanding[h] + completed[h]
      <4>1. CASE h \in handlers
        BY <4>1, Zenon DEF live
      <4>2. CASE h \notin handlers
        BY <2>3, <4>2 DEF live, CInv
      <4> QED BY <4>1, <4>2, Zenon
    <3>2. live = [h \in Handles |-> live[h]]
      BY Zenon DEF live
    <3> QED BY <3>1, <3>2, Zenon
  <2>4. ASSUME ~ended, NEW t \in Types
        PROVE  credits[t] + Total([h \in Handles |-> outstanding[h] + completed[h]], t) = MaxOf[t]
    <3>1. credits[t] + Total(live, t) = MaxOf[t]
      BY <2>4, Zenon DEF CInv, Balance
    <3> QED BY <2>3, <2>4, <3>1, Zenon
  <2> QED BY <2>2, <2>4, Zenon DEF CreditsConserved
<1> QED BY <1>1, InitIInv, NextIInv, InitCInv, NextCInv, PTL DEF Spec

\* For every set of connections and every number of buffers: the controller is never given more
\* packets of a type than it has buffers for, whatever connections end while their fragments
\* wait; the credits that Unregister reclaims for them are spent before anyone else is served.
THEOREM BuffersNotOverrun == Spec => []NoOverrun
<1>1. IInv /\ CInv => NoOverrun
  <2> SUFFICES ASSUME IInv, CInv, NEW t \in Types PROVE Total(outstanding, t) <= MaxOf[t]
    BY Zenon DEF NoOverrun
  <2>1. /\ outstanding \in [Handles -> Nat] /\ completed \in [Handles -> Nat]
        /\ Total(live, t) \in Nat /\ MaxOf[t] \in Nat
    BY CountTypes, Zenon
  <2>2. \A h \in Handles : 1..outstanding[h] \subseteq 1..live[h]
    BY <2>1 DEF live, CInv
  <2>3. ASSUME NEW x \in Places(outstanding, t) PROVE x \in Places(live, t)
    <3>1. PICK h \in Handles : Type(h) = t /\ x \in {h} \X (1..outstanding[h])
      BY InPlaces, Zenon
    <3> QED BY <2>2, <3>1, InPlaces, Zenon
  <2>4. IsFiniteSet(Places(live, t)) /\ Total(live, t) <= MaxOf[t]
    BY Zenon DEF CInv, Balance
  <2>5. IsFiniteSet(Places(outstanding, t)) /\ Cardinality(Places(outstanding, t)) <= Cardinality(Places(live, t))
    BY <2>3, <2>4, FS_Subset, Zenon
  <2>6. Total(outstanding, t) \in Nat
    BY <2>5, FS_CardinalityType, Zenon DEF Total
  <2> QED BY <2>1, <2>4, <2>5, <2>6 DEF Total
<1> QED BY <1>1, InitIInv, NextIInv, InitCInv, NextCInv, PTL DEF Spec

====
