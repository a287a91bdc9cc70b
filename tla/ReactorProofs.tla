--------------------------- MODULE ReactorProofs ---------------------------
(***************************************************************************)
(* Proofs about Reactor for any number of addresses, threads,              *)
(* registrations and threads that unregister: the inductive invariant, and *)
(* what follows from it.                                                   *)
(***************************************************************************)
EXTENDS Reactor, TLAPS

\* Where a thread can be in a call.
Places ==
  {"none", "unregister", "erase", "delete", "unregistered", "wait", "waited", "join",
   "idle_write", "idle_wait"}

\* What an event or the argument of a call can be.
Records == [ptr : Addrs \cup {None}, reg : Nat]

\* Types.
Types ==
  /\ pc \in [Actors -> Places] /\ arg \in [Actors -> Records]
  /\ reg \in [Addrs -> Nat] /\ nregs \in Nat
  /\ owned \subseteq Addrs /\ interest \subseteq Addrs /\ live \subseteq Addrs
  /\ events \subseteq Records /\ cur \in Records

\* Thread t is in Unregister for the reactable at arg[t].ptr and has not let go of it.
Busy(t) == pc[t] \in {"unregister", "erase", "delete"}

\* Thread t has let go of the reactable that it unregistered.
Past(t) == pc[t] \in {"unregistered", "wait", "waited"}

\* A registration belongs to its owner or to one call of Unregister.
Ownership ==
  /\ owned \subseteq live
  /\ \A t \in Actors :
       Busy(t) => /\ arg[t].ptr \in live /\ arg[t].ptr \notin owned /\ arg[t].reg = reg[arg[t].ptr]
                  /\ \A u \in Actors : Busy(u) /\ arg[u].ptr = arg[t].ptr => u = t
  /\ \A a \in interest :
       a \in owned \/ \E t \in Actors : pc[t] \in {"unregister", "erase"} /\ arg[t].ptr = a

\* Numbers of registrations are not used twice, and what was unregistered stays so.
Numbers ==
  /\ \A a \in Addrs : reg[a] <= nregs
  /\ \A t \in Actors :
       Past(t) => /\ arg[t].ptr \in Addrs /\ arg[t].reg <= nregs
                  /\ arg[t].reg = reg[arg[t].ptr] =>
                       /\ arg[t].ptr \notin owned
                       /\ \A u \in Actors : Busy(u) => arg[u].ptr # arg[t].ptr

\* What Run executes exists, and is deleted by Run only.
Executing ==
  /\ pc[Loop] # "none" => loop = "exec"
  /\ is_executing = IF loop = "exec" THEN {cur.ptr} ELSE {}
  /\ loop = "exec" => cur.ptr \in live /\ cur.reg = reg[cur.ptr]
  /\ \A t \in Actors : pc[t] = "delete" => arg[t].ptr \notin is_executing
  /\ removed \subseteq is_executing
  /\ \A a \in removed : a \notin owned /\ \A t \in Actors : Busy(t) => arg[t].ptr # a

\* An event that Run has not looked at is of a reactable that nobody has begun to take
\* away, or the invalidation list says so.
Fresh(e) ==
  /\ e.ptr \in live /\ e.reg = reg[e.ptr]
  /\ e.ptr \in owned \/ \E t \in Actors : pc[t] = "unregister" /\ arg[t].ptr = e.ptr

Collected ==
  /\ loop \in {"top", "poll"} => events = {}
  /\ \A e \in events : e # ControlEvent => e.ptr \in invalidation_list \/ Fresh(e)
  /\ \A t \in Actors : pc[t] = "erase" => arg[t].ptr \in invalidation_list

\* The future tells the threads that wait for the reactable in execution.
Future ==
  /\ \A t \in Actors :
       loop = "exec" /\ cur = arg[t] =>
         /\ pc[t] \in {"unregistered", "wait"} => finished = "pending"
         /\ pc[t] # "waited"

Safe == loop # "deleted_object" /\ Ownership /\ Numbers /\ Executing /\ Collected /\ Future

\* The inductive invariant.
IInv == Types /\ (~raced => Safe)
-----------------------------------------------------------------------------
\* A thread goes on from one place of a call to the next.
LEMMA Moves ==
  ASSUME Types, NEW t \in Actors, NEW p \in Places, Goto(t, p)
  PROVE  pc' \in [Actors -> Places] /\ pc'[t] = p /\ \A u \in Actors : u # t => pc'[u] = pc[u]
BY Zenon DEF Types, Goto

\* Threads are told apart.
LEMMA ActorFacts ==
  Loop \in Actors /\ Threads \subseteq Actors /\ Loop \notin Threads /\ None \notin Addrs /\ None \notin Threads
BY ReactorAssumption, Zenon DEF Actors

\* An event as a record.
LEMMA EventFacts ==
  ASSUME Types
  PROVE  /\ \A a \in Addrs : Event(a) \in Records /\ Event(a).ptr = a /\ Event(a).reg = reg[a] /\ Event(a) # ControlEvent
         /\ NoEvent \in Records /\ NoEvent.ptr = None /\ ControlEvent = NoEvent
<1>1. \A a \in Addrs : Event(a) \in Records /\ Event(a).ptr = a /\ Event(a).reg = reg[a]
  BY Zenon DEF Types, Event, Records
<1>2. NoEvent \in Records /\ NoEvent.ptr = None /\ ControlEvent = NoEvent
  BY Zenon DEF NoEvent, Records, ControlEvent
<1> QED BY <1>1, <1>2, ActorFacts, Zenon

\* Types are kept by Register.
LEMMA RegisterTypes ==
  ASSUME Types, NEW t \in Actors, NEW a \in Addrs, Register(t, a)
  PROVE  Types'
BY DEF Types, Register, runVars

\* Types are kept when a thread enters Unregister.
LEMMA CallTypes ==
  ASSUME Types, NEW t \in Actors, NEW a \in Addrs, UnregisterCall(t, a)
  PROVE  Types'
<1>1. Event(a) \in Records
  BY EventFacts, Zenon
<1>2. arg' \in [Actors -> Records]
  BY <1>1, Zenon DEF Types, UnregisterCall
<1> QED BY <1>2, Zenon DEF Types, Places, UnregisterCall, Goto, runVars

\* Types are kept by the steps inside a call.
LEMMA InCallTypes ==
  ASSUME Types, NEW t \in Actors, InCall(t) \/ WaitNothing(t) \/ WaitBegin(t) \/ ThreadStop(t) \/ IdlePromise(t)
  PROVE  Types'
<1>1. CASE UnregisterReturn(t) \/ WaitTimeout(t)
  <2>1. arg' \in [Actors -> Records]
    BY <1>1, EventFacts, Zenon DEF Types, UnregisterReturn, WaitTimeout
  <2>2. pc' \in [Actors -> Places]
    BY <1>1, Zenon DEF Types, Places, Goto, UnregisterReturn, WaitTimeout
  <2> QED BY <1>1, <2>1, <2>2, Zenon DEF Types, UnregisterReturn, WaitTimeout, runVars, objVars
<1>2. CASE UnregisterInvalidate(t) \/ WaitReady(t) \/ WaitNothing(t) \/ WaitBegin(t)
  <2>1. pc' \in [Actors -> Places]
    BY <1>2, Zenon DEF Types, Places, Goto, UnregisterInvalidate, WaitReady, WaitNothing, WaitBegin
  <2> QED BY <1>2, <2>1, Zenon DEF Types, UnregisterInvalidate, WaitReady, WaitNothing, WaitBegin, runVars, objVars
<1>3. CASE UnregisterErase(t) \/ UnregisterDelete(t)
  <2>1. pc' \in [Actors -> Places]
    BY <1>3, Zenon DEF Types, Places, Goto, UnregisterErase, UnregisterDelete
  <2> QED BY <1>3, <2>1, Zenon DEF Types, UnregisterErase, UnregisterDelete, runVars
<1>4. CASE ThreadStop(t) \/ IdlePromise(t) \/ ThreadJoin(t) \/ IdleWrite(t) \/ IdleReturn(t)
  <2>1. pc' \in [Actors -> Places]
    BY <1>4, Zenon DEF Types, Places, Goto, ThreadStop, IdlePromise, ThreadJoin, IdleWrite, IdleReturn
  <2> QED BY <1>4, <2>1, Zenon DEF Types, ThreadStop, IdlePromise, ThreadJoin, IdleWrite, IdleReturn, runVars, objVars
<1> QED BY <1>1, <1>2, <1>3, <1>4, Zenon DEF InCall

\* Types are kept by Run.
LEMMA RunTypes ==
  ASSUME Types, Run \/ \E a \in Addrs : FdReady(a)
  PROVE  Types'
<1>1. CASE RunTop \/ RunIdle \/ RunControl \/ RunNext \/ \E a \in Addrs : FdReady(a)
  BY <1>1, Zenon DEF Types, RunTop, RunIdle, RunControl, RunNext, FdReady, runVars, objVars
<1>2. CASE RunPoll
  <2>1. Reported \subseteq Records
    BY EventFacts, Zenon DEF Reported, Types
  <2> QED BY <1>2, <2>1, Zenon DEF Types, RunPoll, objVars
<1>3. CASE \E e \in events : RunSkip(e) \/ RunExecute(e)
  BY <1>3, Zenon DEF Types, RunSkip, RunExecute, objVars
<1>4. CASE RunFinish
  BY <1>4, EventFacts, Zenon DEF Types, RunFinish
<1> QED BY <1>1, <1>2, <1>3, <1>4, Zenon DEF Run
-----------------------------------------------------------------------------
(* Steps that leave the reactables alone.                                  *)

\* Nothing happens to the reactables, the events and the calls of Unregister.
LEMMA OtherSteps ==
  ASSUME Types, Safe, loop' \in {"exec", "deleted_object"} => loop' = loop,
         events' \subseteq events, loop' # loop => loop # "exec",
         loop' \in {"top", "poll"} => events' = {},
         \A t \in Actors : pc'[t] # pc[t] => ~Busy(t) /\ ~Past(t) /\ ~Busy(t)' /\ ~Past(t)',
         pc'[Loop] # pc[Loop] => pc'[Loop] = "none" \/ pc[Loop] # "none",
         UNCHANGED <<objVars, invalidation_list, finished, cur, arg>>
  PROVE  Safe'
<1>1. \A a : Event(a)' = Event(a)
  BY Zenon DEF Event, objVars
<1>2. /\ \A t \in Actors : (Busy(t)' <=> Busy(t)) /\ (Past(t)' <=> Past(t)) /\ (Busy(t) \/ Past(t) => pc'[t] = pc[t])
      /\ \A t \in Actors : Busy(t)' \/ Past(t)' => pc'[t] = pc[t]
  BY Zenon DEF Busy, Past
<1>3. Ownership'
  BY <1>1, <1>2 DEF Safe, Ownership, Busy, objVars
<1>4. Numbers'
  BY <1>1, <1>2, Zenon DEF Safe, Numbers, objVars
<1>5. Executing'
  BY <1>1, <1>2 DEF Safe, Executing, Busy, objVars
<1>6. Collected'
  BY <1>1, <1>2, Zenon DEF Safe, Collected, Fresh, Busy, objVars, ControlEvent, NoEvent
<1>7. Future'
  BY <1>1, <1>2, Zenon DEF Safe, Future, Past, objVars
<1> QED BY <1>3, <1>4, <1>5, <1>6, <1>7, Zenon DEF Safe
-----------------------------------------------------------------------------
(* Register and Unregister.                                                *)

\* A new registration has a number that no event and no earlier call has.
LEMMA RegisterSafe ==
  ASSUME Types, Safe, NEW t \in Actors, NEW a \in Addrs, Register(t, a)
  PROVE  Safe'
<1>1. /\ a \notin live /\ live' = live \cup {a} /\ nregs' = nregs + 1
      /\ reg' = [reg EXCEPT ![a] = nregs + 1]
      /\ owned' = owned \cup {a} /\ interest' = interest \cup {a}
      /\ is_executing' = is_executing \ {a} /\ removed' = removed \ {a}
      /\ UNCHANGED <<loop, events, cur, invalidation_list, finished, pc, arg>>
  BY Zenon DEF Register, runVars
<1>2. \A b \in Addrs : b # a => reg'[b] = reg[b]
  BY <1>1, Zenon DEF Types
<1>3. reg'[a] = nregs + 1
  BY <1>1, Zenon DEF Types
<1>4. live \subseteq Addrs
  BY Zenon DEF Types
<1>5. Ownership'
  <2>1. owned' \subseteq live'
    BY <1>1, Zenon DEF Safe, Ownership
  <2>2. \A u \in Actors : Busy(u)' => /\ arg[u].ptr \in live /\ arg[u].ptr # a
                                      /\ arg[u].ptr \notin owned /\ arg[u].reg = reg[arg[u].ptr]
    BY <1>1, Zenon DEF Safe, Ownership, Busy
  <2>3. \A u \in Actors : Busy(u)' => arg[u].ptr \in live' /\ arg[u].ptr \notin owned' /\ arg[u].reg = reg'[arg[u].ptr]
    BY <1>1, <1>2, <1>4, <2>2, Zenon
  <2>4. \A u, v \in Actors : Busy(u)' /\ Busy(v)' /\ arg[u].ptr = arg[v].ptr => u = v
    BY <1>1, Zenon DEF Safe, Ownership, Busy
  <2>5. \A b \in interest' : b \in owned' \/ \E u \in Actors : pc'[u] \in {"unregister", "erase"} /\ arg'[u].ptr = b
    BY <1>1, Zenon DEF Safe, Ownership
  <2> QED BY <1>1, <2>1, <2>3, <2>4, <2>5, Zenon DEF Ownership
<1>6. Numbers'
  <2>1. \A b \in Addrs : reg'[b] <= nregs'
    BY <1>1 DEF Types, Safe, Numbers
  <2>2. ASSUME NEW u \in Actors, Past(u)'
        PROVE  /\ arg'[u].ptr \in Addrs /\ arg'[u].reg <= nregs'
               /\ arg'[u].reg = reg'[arg'[u].ptr] =>
                    /\ arg'[u].ptr \notin owned'
                    /\ \A v \in Actors : Busy(v)' => arg'[v].ptr # arg'[u].ptr
    <3>1. Past(u) /\ arg'[u] = arg[u] /\ arg[u] \in Records
      BY <1>1, <2>2, Zenon DEF Past, Types
    <3>2. arg[u].ptr \in Addrs /\ arg[u].reg <= nregs /\ arg[u].reg \in Nat
      BY <3>1, Zenon DEF Safe, Numbers, Records
    <3>3. CASE arg[u].ptr = a
      <4>1. arg'[u].reg # reg'[arg'[u].ptr] /\ arg'[u].reg <= nregs'
        BY <1>1, <1>3, <3>1, <3>2, <3>3 DEF Types
      <4> QED BY <3>1, <3>2, <4>1, Zenon
    <3>4. CASE arg[u].ptr # a
      <4>1. reg'[arg[u].ptr] = reg[arg[u].ptr]
        BY <1>2, <3>2, <3>4, Zenon
      <4>2. arg[u].reg = reg[arg[u].ptr] => arg[u].ptr \notin owned /\ \A v \in Actors : Busy(v) => arg[v].ptr # arg[u].ptr
        BY <3>1, Zenon DEF Safe, Numbers
      <4>3. arg'[u].reg <= nregs'
        BY <1>1, <3>1, <3>2 DEF Types
      <4> QED BY <1>1, <3>1, <3>2, <3>4, <4>1, <4>2, <4>3, Zenon DEF Busy
    <3> QED BY <3>3, <3>4, Zenon
  <2> QED BY <2>1, <2>2, Zenon DEF Numbers
<1>7. Executing'
  <2>1. a \notin is_executing
    BY <1>1, Zenon DEF Safe, Executing
  <2>2. loop = "exec" => cur.ptr # a /\ reg'[cur.ptr] = reg[cur.ptr]
    BY <1>1, <1>2, <1>4, Zenon DEF Safe, Executing
  <2>3. is_executing' = is_executing /\ removed' = removed /\ a \notin removed
    BY <1>1, <2>1, Zenon DEF Safe, Executing
  <2> QED BY <1>1, <2>1, <2>2, <2>3, Zenon DEF Safe, Executing, Busy
<1>8. Collected'
  <2>1. ASSUME NEW e \in events', e # ControlEvent
        PROVE  e.ptr \in invalidation_list' \/ Fresh(e)'
    <3>1. e.ptr \in invalidation_list \/ Fresh(e)
      BY <1>1, <2>1, Zenon DEF Safe, Collected
    <3>2. CASE Fresh(e)
      <4>1. e.ptr # a /\ e.ptr \in Addrs
        BY <1>1, <1>4, <3>2, Zenon DEF Fresh
      <4>2. reg'[e.ptr] = reg[e.ptr]
        BY <1>2, <4>1, Zenon
      <4> QED BY <1>1, <3>2, <4>2, Zenon DEF Fresh
    <3> QED BY <1>1, <3>1, <3>2, Zenon
  <2> QED BY <1>1, <2>1, Zenon DEF Safe, Collected, ControlEvent, NoEvent
<1>9. Future'
  BY <1>1, Zenon DEF Safe, Future
<1> QED BY <1>1, <1>5, <1>6, <1>7, <1>8, <1>9, Zenon DEF Safe

\* A registration passes from its owner to a call of Unregister.
LEMMA CallSafe ==
  ASSUME Types, Safe, NEW t \in Actors, NEW a \in Addrs, UnregisterCall(t, a)
  PROVE  Safe'
<1>1. /\ pc[t] = "none" /\ (t = Loop => loop = "exec")
      /\ a \in owned /\ owned' = owned \ {a}
      /\ arg' = [arg EXCEPT ![t] = Event(a)]
      /\ pc' = [pc EXCEPT ![t] = "unregister"]
      /\ UNCHANGED <<loop, events, cur, live, reg, nregs, interest, is_executing, removed,
                     invalidation_list, finished>>
  BY Zenon DEF UnregisterCall, MayCall, Goto, runVars
<1>2. Event(a).ptr = a /\ Event(a).reg = reg[a] /\ reg' = reg
  BY <1>1, EventFacts, Zenon
<1>3. /\ arg'[t].ptr = a /\ arg'[t].reg = reg[a] /\ pc'[t] = "unregister"
      /\ \A u \in Actors : u # t => arg'[u] = arg[u] /\ pc'[u] = pc[u]
  BY <1>1, <1>2, Zenon DEF Types
<1>4. ~Past(t)' /\ Busy(t)' /\ \A u \in Actors : u # t => (Past(u)' <=> Past(u)) /\ (Busy(u)' <=> Busy(u))
  BY <1>3, Zenon DEF Past, Busy
<1>5. a \in live /\ \A u \in Actors : Busy(u) => arg[u].ptr # a
  BY <1>1 DEF Safe, Ownership
<1>6. Ownership'
  <2>1. owned' \subseteq live'
    BY <1>1, Zenon DEF Safe, Ownership
  <2>2. \A u \in Actors : Busy(u)' => /\ arg'[u].ptr \in live' /\ arg'[u].ptr \notin owned'
                                      /\ arg'[u].reg = reg'[arg'[u].ptr]
    BY <1>1, <1>2, <1>3, <1>4, <1>5 DEF Safe, Ownership
  <2>3. \A u, v \in Actors : Busy(u)' /\ Busy(v)' /\ arg'[u].ptr = arg'[v].ptr => u = v
    BY <1>3, <1>4, <1>5 DEF Safe, Ownership
  <2>4. \A b \in interest' : b \in owned' \/ \E u \in Actors : pc'[u] \in {"unregister", "erase"} /\ arg'[u].ptr = b
    BY <1>1, <1>3 DEF Safe, Ownership
  <2> QED BY <2>1, <2>2, <2>3, <2>4, Zenon DEF Ownership
<1>7. Numbers'
  <2>1. ASSUME NEW u \in Actors, Past(u)'
        PROVE  /\ arg'[u].ptr \in Addrs /\ arg'[u].reg <= nregs'
               /\ arg'[u].reg = reg'[arg'[u].ptr] =>
                    /\ arg'[u].ptr \notin owned'
                    /\ \A v \in Actors : Busy(v)' => arg'[v].ptr # arg'[u].ptr
    <3>1. u # t /\ Past(u) /\ arg'[u] = arg[u]
      BY <1>3, <1>4, <2>1, Zenon
    <3>2. /\ arg[u].ptr \in Addrs /\ arg[u].reg <= nregs
          /\ arg[u].reg = reg[arg[u].ptr] => arg[u].ptr \notin owned /\ \A v \in Actors : Busy(v) => arg[v].ptr # arg[u].ptr
      BY <3>1, Zenon DEF Safe, Numbers
    <3> QED BY <1>1, <1>2, <1>3, <1>4, <3>1, <3>2
  <2> QED BY <1>1, <2>1, Zenon DEF Safe, Numbers
<1>8. Executing'
  BY <1>1, <1>2, <1>3, <1>4, ActorFacts DEF Safe, Executing
<1>9. Collected'
  <2>1. ASSUME NEW e \in events', e # ControlEvent
        PROVE  e.ptr \in invalidation_list' \/ Fresh(e)'
    <3>1. e.ptr \in invalidation_list \/ Fresh(e)
      BY <1>1, <2>1, Zenon DEF Safe, Collected
    <3>2. CASE Fresh(e)
      BY <1>1, <1>2, <1>3, <3>2, Zenon DEF Fresh
    <3> QED BY <1>1, <3>1, <3>2, Zenon
  <2> QED BY <1>1, <1>3, <2>1 DEF Safe, Collected, ControlEvent, NoEvent
<1>10. Future'
  BY <1>1, <1>3, Zenon DEF Safe, Future
<1> QED BY <1>1, <1>6, <1>7, <1>8, <1>9, <1>10, Zenon DEF Safe

\* The entry in the invalidation list comes before the reactable goes.
LEMMA InvalidateSafe ==
  ASSUME Types, Safe, NEW t \in Actors, UnregisterInvalidate(t)
  PROVE  Safe'
<1>1. /\ pc[t] = "unregister" /\ pc' = [pc EXCEPT ![t] = "erase"]
      /\ invalidation_list' = invalidation_list \cup {arg[t].ptr}
      /\ UNCHANGED <<loop, events, cur, live, reg, nregs, owned, interest, is_executing, removed,
                     finished, arg>>
  BY Zenon DEF UnregisterInvalidate, Listed, Goto, runVars, objVars
<1>2. pc'[t] = "erase" /\ \A u \in Actors : u # t => pc'[u] = pc[u]
  BY <1>1, Zenon DEF Types
<1>3. \A u \in Actors : (Past(u)' <=> Past(u)) /\ (Busy(u)' <=> Busy(u))
  BY <1>1, <1>2, Zenon DEF Past, Busy
<1>4. Ownership'
  <2>1. \A b \in interest' : b \in owned' \/ \E u \in Actors : pc'[u] \in {"unregister", "erase"} /\ arg'[u].ptr = b
    BY <1>1, <1>2 DEF Safe, Ownership
  <2> QED BY <1>1, <1>3, <2>1, Zenon DEF Safe, Ownership
<1>5. Numbers'
  BY <1>1, <1>3, Zenon DEF Safe, Numbers
<1>6. Executing'
  BY <1>1, <1>2, <1>3, ActorFacts, Zenon DEF Safe, Executing
<1>7. Collected'
  <2>1. ASSUME NEW e \in events', e # ControlEvent
        PROVE  e.ptr \in invalidation_list' \/ Fresh(e)'
    <3>1. e.ptr \in invalidation_list \/ Fresh(e)
      BY <1>1, <2>1, Zenon DEF Safe, Collected
    <3>2. CASE Fresh(e)
      BY <1>1, <1>2, <3>2, Zenon DEF Fresh
    <3> QED BY <1>1, <3>1, <3>2, Zenon
  <2> QED BY <1>1, <1>2, <2>1, Zenon DEF Safe, Collected, ControlEvent, NoEvent
<1>8. Future'
  BY <1>1, <1>2, Zenon DEF Safe, Future
<1> QED BY <1>1, <1>4, <1>5, <1>6, <1>7, <1>8, Zenon DEF Safe

\* A thread lets go of the reactable it unregisters: what is left of the registration
\* holds for the calls of the others.
LEMMA LetGo ==
  ASSUME Types, Safe, NEW t \in Actors, Busy(t), pc' = [pc EXCEPT ![t] = "unregistered"],
         UNCHANGED <<arg, reg, nregs, owned>>
  PROVE  /\ pc'[t] = "unregistered" /\ \A u \in Actors : u # t => pc'[u] = pc[u]
         /\ ~Busy(t)' /\ \A u \in Actors : u # t => (Past(u)' <=> Past(u)) /\ (Busy(u)' <=> Busy(u))
         /\ \A u \in Actors : Busy(u)' => Busy(u) /\ arg[u].ptr # arg[t].ptr
         /\ Numbers'
<1>1. pc'[t] = "unregistered" /\ \A u \in Actors : u # t => pc'[u] = pc[u]
  BY Zenon DEF Types
<1>2. ~Busy(t)' /\ Past(t)' /\ \A u \in Actors : u # t => (Past(u)' <=> Past(u)) /\ (Busy(u)' <=> Busy(u))
  BY <1>1, Zenon DEF Past, Busy
<1>3. \A u \in Actors : Busy(u)' => Busy(u) /\ arg[u].ptr # arg[t].ptr
  BY <1>2, Zenon DEF Safe, Ownership
<1>4. /\ arg[t].ptr \in Addrs /\ arg[t].reg = reg[arg[t].ptr] /\ arg[t].ptr \notin owned
      /\ reg[arg[t].ptr] <= nregs
  BY Zenon DEF Safe, Ownership, Numbers, Types
<1>5. Numbers'
  <2>1. ASSUME NEW u \in Actors, Past(u)'
        PROVE  /\ arg'[u].ptr \in Addrs /\ arg'[u].reg <= nregs'
               /\ arg'[u].reg = reg'[arg'[u].ptr] =>
                    /\ arg'[u].ptr \notin owned'
                    /\ \A v \in Actors : Busy(v)' => arg'[v].ptr # arg'[u].ptr
    <3>1. CASE u = t
      BY <1>3, <1>4, <3>1, Zenon
    <3>2. CASE u # t
      BY <1>2, <1>3, <2>1, <3>2, Zenon DEF Safe, Numbers
    <3> QED BY <3>1, <3>2, Zenon
  <2>2. \A b \in Addrs : reg'[b] <= nregs'
    BY Zenon DEF Safe, Numbers
  <2> QED BY <2>1, <2>2, Zenon DEF Numbers
<1> QED BY <1>1, <1>2, <1>3, <1>5, Zenon

\* Under the mutex of the reactable: Run deletes what it executes.
LEMMA EraseSafe ==
  ASSUME Types, Safe, NEW t \in Actors, UnregisterErase(t)
  PROVE  Safe'
<1> DEFINE a == arg[t].ptr
<1>1. /\ pc[t] = "erase" /\ Busy(t) /\ interest' = interest \ {a}
      /\ UNCHANGED <<loop, events, cur, live, reg, nregs, owned, is_executing, invalidation_list, arg>>
  BY Zenon DEF UnregisterErase, Busy, runVars
<1>2. /\ a \in live /\ a \notin owned
      /\ \A u \in Actors : Busy(u) /\ arg[u].ptr = a => u = t
  BY <1>1, Zenon DEF Safe, Ownership
<1>3. ASSUME NEW e \in events, e # ControlEvent, \A u \in Actors : u # t => pc'[u] = pc[u]
      PROVE  e.ptr \in invalidation_list' \/ Fresh(e)'
  <2>1. e.ptr \in invalidation_list \/ Fresh(e)
    BY <1>3, Zenon DEF Safe, Collected
  <2>2. CASE Fresh(e)
    BY <1>1, <1>3, <2>2, Zenon DEF Fresh
  <2> QED BY <1>1, <2>1, <2>2, Zenon
<1>4. ASSUME \A u \in Actors : u # t => pc'[u] = pc[u]
      PROVE  \A b \in interest' : b \in owned' \/ \E u \in Actors : pc'[u] \in {"unregister", "erase"} /\ arg'[u].ptr = b
  BY <1>1, <1>4, Zenon DEF Safe, Ownership
<1>5. CASE a \in is_executing
  <2>1. /\ removed' = removed \cup {a} /\ finished' = "pending"
        /\ pc' = [pc EXCEPT ![t] = "unregistered"]
    BY <1>5, Zenon DEF UnregisterErase, DeletedByRun, Promised, Goto
  <2>2. /\ pc'[t] = "unregistered" /\ \A u \in Actors : u # t => pc'[u] = pc[u]
        /\ ~Busy(t)' /\ \A u \in Actors : u # t => (Past(u)' <=> Past(u)) /\ (Busy(u)' <=> Busy(u))
        /\ \A u \in Actors : Busy(u)' => Busy(u) /\ arg[u].ptr # a
        /\ Numbers'
    BY <1>1, <2>1, LetGo, Zenon
  <2>3. Ownership'
    BY <1>1, <1>4, <2>2, Zenon DEF Safe, Ownership
  <2>4. Executing'
    BY <1>1, <1>2, <1>5, <2>1, <2>2, ActorFacts, Zenon DEF Safe, Executing
  <2>5. Collected'
    BY <1>1, <1>3, <2>2, Zenon DEF Safe, Collected, ControlEvent, NoEvent
  <2>6. Future'
    BY <1>1, <2>1, <2>2, Zenon DEF Safe, Future
  <2> QED BY <1>1, <2>2, <2>3, <2>4, <2>5, <2>6, Zenon DEF Safe
<1>6. CASE a \notin is_executing
  <2>1. UNCHANGED <<removed, finished>> /\ pc' = [pc EXCEPT ![t] = "delete"]
    BY <1>6, Zenon DEF UnregisterErase, DeletedByRun, Goto
  <2>2. pc'[t] = "delete" /\ \A u \in Actors : u # t => pc'[u] = pc[u]
    BY <2>1, Zenon DEF Types
  <2>3. \A u \in Actors : (Past(u)' <=> Past(u)) /\ (Busy(u)' <=> Busy(u))
    BY <1>1, <2>2, Zenon DEF Past, Busy
  <2>4. Ownership'
    BY <1>1, <1>4, <2>2, <2>3, Zenon DEF Safe, Ownership
  <2>5. Numbers'
    BY <1>1, <2>3, Zenon DEF Safe, Numbers
  <2>6. Executing'
    BY <1>1, <1>6, <2>1, <2>2, <2>3, ActorFacts, Zenon DEF Safe, Executing
  <2>7. Collected'
    BY <1>1, <1>3, <2>2, Zenon DEF Safe, Collected, ControlEvent, NoEvent
  <2>8. Future'
    BY <1>1, <2>1, <2>2, Zenon DEF Safe, Future
  <2> QED BY <1>1, <2>4, <2>5, <2>6, <2>7, <2>8, Zenon DEF Safe
<1> QED BY <1>5, <1>6, Zenon
-----------------------------------------------------------------------------
(* The end of Unregister, and WaitForUnregisteredReactable.                *)

\* Unregister deletes only what nobody executes.
LEMMA DeleteSafe ==
  ASSUME Types, Safe, NEW t \in Actors, UnregisterDelete(t)
  PROVE  Safe'
<1> DEFINE a == arg[t].ptr
<1>1. /\ pc[t] = "delete" /\ Busy(t) /\ live' = live \ {a} /\ pc' = [pc EXCEPT ![t] = "unregistered"]
      /\ UNCHANGED <<loop, events, cur, reg, nregs, owned, interest, is_executing, removed,
                     invalidation_list, finished, arg>>
  BY Zenon DEF UnregisterDelete, Goto, Busy, runVars
<1>2. /\ pc'[t] = "unregistered" /\ \A u \in Actors : u # t => pc'[u] = pc[u]
      /\ ~Busy(t)' /\ \A u \in Actors : u # t => (Past(u)' <=> Past(u)) /\ (Busy(u)' <=> Busy(u))
      /\ \A u \in Actors : Busy(u)' => Busy(u) /\ arg[u].ptr # a
      /\ Numbers'
  BY <1>1, LetGo, Zenon
<1>3. /\ a \notin owned /\ a \notin is_executing
      /\ \A u \in Actors : Busy(u) /\ arg[u].ptr = a => u = t
  BY <1>1, Zenon DEF Safe, Ownership, Executing
<1>4. Ownership'
  <2>1. \A b \in interest' : b \in owned' \/ \E u \in Actors : pc'[u] \in {"unregister", "erase"} /\ arg'[u].ptr = b
    BY <1>1, <1>2, Zenon DEF Safe, Ownership
  <2> QED BY <1>1, <1>2, <1>3, <2>1, Zenon DEF Safe, Ownership
<1>5. Executing'
  BY <1>1, <1>2, <1>3, ActorFacts, Zenon DEF Safe, Executing
<1>6. Collected'
  <2>1. ASSUME NEW e \in events, e # ControlEvent
        PROVE  e.ptr \in invalidation_list' \/ Fresh(e)'
    <3>1. e.ptr \in invalidation_list \/ Fresh(e)
      BY <2>1, Zenon DEF Safe, Collected
    <3>2. CASE Fresh(e)
      <4>1. e.ptr # a
        BY <1>1, <1>3, <3>2, Zenon DEF Fresh, Busy
      <4> QED BY <1>1, <1>2, <3>2, <4>1, Zenon DEF Fresh
    <3> QED BY <1>1, <3>1, <3>2, Zenon
  <2> QED BY <1>1, <1>2, <2>1, Zenon DEF Safe, Collected, ControlEvent, NoEvent
<1>7. Future'
  <2>1. loop = "exec" => cur # arg[t]
    BY <1>3, Zenon DEF Safe, Executing
  <2> QED BY <1>1, <1>2, <2>1, Zenon DEF Safe, Future
<1> QED BY <1>1, <1>2, <1>4, <1>5, <1>6, <1>7, Zenon DEF Safe

\* A thread that has unregistered waits for the future, or goes on.
LEMMA WaitSafe ==
  ASSUME Types, Safe, NEW t \in Actors,
         UnregisterReturn(t) \/ WaitNothing(t) \/ WaitBegin(t) \/ WaitReady(t) \/ WaitTimeout(t)
  PROVE  Safe'
<1>1. UNCHANGED <<loop, events, cur, live, reg, nregs, owned, interest, is_executing, removed,
                  invalidation_list, finished>>
  BY Zenon DEF UnregisterReturn, WaitNothing, WaitBegin, WaitReady, WaitTimeout, runVars, objVars
<1>2. Past(t) /\ pc[t] # "none"
  BY Zenon DEF UnregisterReturn, WaitNothing, WaitBegin, WaitReady, WaitTimeout, Past
<1>3. /\ pc'[t] \in {"none", "wait", "waited"} /\ (pc'[t] \in {"wait", "waited"} => arg'[t] = arg[t])
      /\ \A u \in Actors : u # t => pc'[u] = pc[u] /\ arg'[u] = arg[u]
  BY Zenon DEF Types, UnregisterReturn, WaitNothing, WaitBegin, WaitReady, WaitTimeout, Goto
<1>4. pc'[t] = "wait" => pc[t] = "unregistered"
  BY Zenon DEF Types, UnregisterReturn, WaitNothing, WaitBegin, WaitReady, WaitTimeout, Goto
<1>5. pc'[t] = "waited" => pc[t] \in {"unregistered", "wait"} /\ finished # "pending"
  BY Zenon DEF Types, UnregisterReturn, WaitNothing, WaitBegin, WaitReady, WaitTimeout, Goto
<1>6. /\ \A u \in Actors : Busy(u)' <=> Busy(u)
      /\ \A u \in Actors : Busy(u) => pc'[u] = pc[u] /\ arg'[u] = arg[u]
      /\ \A u \in Actors : Past(u)' => Past(u) /\ arg'[u] = arg[u]
  BY <1>2, <1>3, Zenon DEF Busy, Past
<1>7. Ownership'
  <2>1. \A u \in Actors : Busy(u)' => /\ arg'[u].ptr \in live' /\ arg'[u].ptr \notin owned'
                                      /\ arg'[u].reg = reg'[arg'[u].ptr]
    BY <1>1, <1>6, Zenon DEF Safe, Ownership
  <2>2. \A u, v \in Actors : Busy(u)' /\ Busy(v)' /\ arg'[u].ptr = arg'[v].ptr => u = v
    BY <1>6, Zenon DEF Safe, Ownership
  <2>3. \A u \in Actors : pc[u] \in {"unregister", "erase"} => pc'[u] = pc[u] /\ arg'[u] = arg[u]
    BY <1>6, Zenon DEF Busy
  <2>4. ASSUME NEW b \in interest', b \notin owned'
        PROVE  \E u \in Actors : pc'[u] \in {"unregister", "erase"} /\ arg'[u].ptr = b
    <3>1. PICK u \in Actors : pc[u] \in {"unregister", "erase"} /\ arg[u].ptr = b
      BY <1>1, <2>4, Zenon DEF Safe, Ownership
    <3>2. pc'[u] = pc[u] /\ arg'[u] = arg[u]
      BY <2>3, <3>1, Zenon
    <3> QED BY <3>1, <3>2, Zenon
  <2>5. owned' \subseteq live'
    BY <1>1, Zenon DEF Safe, Ownership
  <2> QED BY <2>1, <2>2, <2>4, <2>5, Zenon DEF Ownership
<1>8. Numbers'
  BY <1>1, <1>6, Zenon DEF Safe, Numbers
<1>9. Executing'
  BY <1>1, <1>2, <1>3, <1>6, ActorFacts DEF Safe, Executing, Busy
<1>10. Collected'
  <2>1. ASSUME NEW e \in events, e # ControlEvent
        PROVE  e.ptr \in invalidation_list' \/ Fresh(e)'
    <3>1. e.ptr \in invalidation_list \/ Fresh(e)
      BY <2>1, Zenon DEF Safe, Collected
    <3>2. CASE Fresh(e)
      BY <1>1, <1>6, <3>2, Zenon DEF Fresh, Busy
    <3> QED BY <1>1, <3>1, <3>2, Zenon
  <2> QED BY <1>1, <1>6, <2>1, Zenon DEF Safe, Collected, ControlEvent, NoEvent, Busy
<1>11. Future'
  BY <1>1, <1>3, <1>4, <1>5, Zenon DEF Safe, Future
<1> QED BY <1>1, <1>7, <1>8, <1>9, <1>10, <1>11, Zenon DEF Safe
-----------------------------------------------------------------------------
(* Run.                                                                    *)

\* Where no thread is about to erase, the invalidation list can be emptied.
LEMMA TopSafe ==
  ASSUME Types, Safe, RunTop, ~raced'
  PROVE  Safe'
<1>1. /\ loop = "top" /\ loop' = "poll" /\ invalidation_list' = {}
      /\ \A t \in Threads : pc[t] # "erase"
      /\ UNCHANGED <<events, cur, live, reg, nregs, owned, interest, is_executing, removed, finished,
                     pc, arg>>
  BY Zenon DEF RunTop, objVars
<1>2. events = {} /\ pc[Loop] = "none"
  BY <1>1, Zenon DEF Safe, Collected, Executing
<1>3. \A t \in Actors : pc[t] # "erase"
  BY <1>1, <1>2, Zenon DEF Actors
<1>4. \A t \in Actors : (Busy(t)' <=> Busy(t)) /\ (Past(t)' <=> Past(t))
  BY <1>1, Zenon DEF Busy, Past
<1>5. Ownership'
  BY <1>1, <1>4, Zenon DEF Safe, Ownership
<1>6. Numbers'
  BY <1>1, <1>4, Zenon DEF Safe, Numbers
<1>7. Executing'
  BY <1>1, <1>2, <1>4, Zenon DEF Safe, Executing
<1>8. Collected'
  BY <1>1, <1>2, <1>3, Zenon DEF Collected
<1>9. Future'
  BY <1>1, Zenon DEF Future
<1> QED BY <1>1, <1>5, <1>6, <1>7, <1>8, <1>9, Zenon DEF Safe

\* What epoll reports is registered, or about to be erased and listed.
LEMMA PollSafe ==
  ASSUME Types, Safe, RunPoll
  PROVE  Safe'
<1>1. /\ loop = "poll" /\ loop' = "dispatch" /\ events' = Reported
      /\ UNCHANGED <<cur, live, reg, nregs, owned, interest, is_executing, removed, invalidation_list,
                     finished, pc, arg>>
  BY Zenon DEF RunPoll, objVars
<1>2. \A t \in Actors : (Busy(t)' <=> Busy(t)) /\ (Past(t)' <=> Past(t))
  BY <1>1, Zenon DEF Busy, Past
<1>3. Ownership'
  BY <1>1, <1>2, Zenon DEF Safe, Ownership
<1>4. Numbers'
  BY <1>1, <1>2, Zenon DEF Safe, Numbers
<1>5. Executing'
  BY <1>1, <1>2, Zenon DEF Safe, Executing
<1>6. Collected'
  <2>1. ASSUME NEW e \in Reported, e # ControlEvent
        PROVE  e.ptr \in invalidation_list' \/ Fresh(e)'
    <3>1. PICK a \in interest : e = Event(a)
      BY <2>1, Zenon DEF Reported
    <3>2. e.ptr = a /\ e.reg = reg[a]
      BY <3>1, EventFacts, Zenon DEF Types
    <3>3. a \in owned \/ \E t \in Actors : pc[t] \in {"unregister", "erase"} /\ arg[t].ptr = a
      BY Zenon DEF Safe, Ownership
    <3>4. CASE a \in owned
      BY <1>1, <3>2, <3>4, Zenon DEF Fresh, Safe, Ownership
    <3>5. ASSUME NEW t \in Actors, pc[t] = "unregister", arg[t].ptr = a
          PROVE  Fresh(e)'
      <4>1. a \in live
        BY <3>5, Zenon DEF Safe, Ownership, Busy
      <4> QED BY <1>1, <3>2, <3>5, <4>1, Zenon DEF Fresh
    <3>6. ASSUME NEW t \in Actors, pc[t] = "erase", arg[t].ptr = a
          PROVE  e.ptr \in invalidation_list'
      BY <1>1, <3>2, <3>6, Zenon DEF Safe, Collected
    <3> QED BY <3>3, <3>4, <3>5, <3>6, Zenon
  <2>2. \A e \in events' : e # ControlEvent' => e.ptr \in invalidation_list' \/ Fresh(e)'
    BY <1>1, <2>1, Zenon DEF ControlEvent, NoEvent
  <2> QED BY <1>1, <2>2, Zenon DEF Safe, Collected
<1>7. Future'
  BY <1>1, Zenon DEF Future
<1> QED BY <1>1, <1>3, <1>4, <1>5, <1>6, <1>7, Zenon DEF Safe

\* An event of the invalidation list is dropped.
LEMMA SkipSafe ==
  ASSUME Types, Safe, NEW e \in events, RunSkip(e)
  PROVE  Safe'
<1>1. /\ loop = "dispatch" /\ events' \subseteq events
      /\ UNCHANGED <<loop, cur, live, reg, nregs, owned, interest, is_executing, removed,
                     invalidation_list, pc, arg>>
  BY Zenon DEF RunSkip, objVars
<1>2. \A t \in Actors : (Busy(t)' <=> Busy(t)) /\ (Past(t)' <=> Past(t))
  BY <1>1, Zenon DEF Busy, Past
<1>3. Ownership'
  BY <1>1, <1>2, Zenon DEF Safe, Ownership
<1>4. Numbers'
  BY <1>1, <1>2, Zenon DEF Safe, Numbers
<1>5. Executing'
  BY <1>1, <1>2, Zenon DEF Safe, Executing
<1>6. Collected'
  <2>1. \A f : Fresh(f) => Fresh(f)'
    BY <1>1, Zenon DEF Fresh
  <2> QED BY <1>1, <2>1, Zenon DEF Safe, Collected, ControlEvent, NoEvent
<1>7. Future'
  BY <1>1, Zenon DEF Future
<1> QED BY <1>1, <1>3, <1>4, <1>5, <1>6, <1>7, Zenon DEF Safe

\* An event that is not in the list is of a registration that nobody has erased.
LEMMA DispatchFresh ==
  ASSUME Types, Safe, NEW e \in events, RunExecute(e)
  PROVE  Fresh(e) /\ e \in Records /\ loop' = "exec" /\ cur' = e
<1>1. Fresh(e)
  BY Zenon DEF RunExecute, Safe, Collected
<1> QED BY <1>1, Zenon DEF RunExecute, Fresh, Types

\* Run executes what is alive, and nobody who has unregistered it is told it is over.
LEMMA ExecuteSafe ==
  ASSUME Types, Safe, NEW e \in events, RunExecute(e)
  PROVE  Safe'
<1>1. Fresh(e) /\ e \in Records /\ loop' = "exec" /\ cur' = e
  BY DispatchFresh, Zenon
<1>2. /\ loop = "dispatch" /\ events' \subseteq events /\ e.ptr \in live
      /\ is_executing' = is_executing \cup {e.ptr}
      /\ UNCHANGED <<live, reg, nregs, owned, interest, removed, invalidation_list, pc, arg>>
  BY <1>1, Zenon DEF RunExecute, Fresh
<1>3. \A t \in Actors : (Busy(t)' <=> Busy(t)) /\ (Past(t)' <=> Past(t))
  BY <1>2, Zenon DEF Busy, Past
<1>4. Ownership'
  BY <1>2, <1>3, Zenon DEF Safe, Ownership
<1>5. Numbers'
  BY <1>2, <1>3, Zenon DEF Safe, Numbers
<1>6. \A t \in Actors : pc[t] = "delete" => arg[t].ptr # e.ptr
  <2>1. \A t, u \in Actors : pc[t] = "delete" /\ pc[u] = "unregister" => arg[t].ptr # arg[u].ptr
    BY Zenon DEF Safe, Ownership, Busy
  <2>2. \A t \in Actors : pc[t] = "delete" => arg[t].ptr \notin owned
    BY Zenon DEF Safe, Ownership, Busy
  <2> QED BY <1>1, <2>1, <2>2, Zenon DEF Fresh
<1>7. Executing'
  <2>1. is_executing = {} /\ removed = {}
    BY <1>2, Zenon DEF Safe, Executing
  <2>2. cur'.reg = reg'[cur'.ptr]
    BY <1>1, <1>2, Zenon DEF Fresh
  <2>3. is_executing' = {cur'.ptr}
    BY <1>1, <1>2, <2>1, Zenon
  <2> QED BY <1>1, <1>2, <1>3, <1>6, <2>1, <2>2, <2>3, Zenon DEF Executing
<1>8. Collected'
  <2>1. \A f : Fresh(f) => Fresh(f)'
    BY <1>2, Zenon DEF Fresh
  <2> QED BY <1>1, <1>2, <2>1, Zenon DEF Safe, Collected, ControlEvent, NoEvent
<1>9. Future'
  <2>1. ASSUME NEW t \in Actors, arg[t] = e
        PROVE  ~Past(t)
    <3>1. SUFFICES ASSUME Past(t) PROVE FALSE
      BY Zenon
    <3>2. arg[t].reg = reg[arg[t].ptr]
      BY <1>1, <2>1, Zenon DEF Fresh
    <3>3. arg[t].ptr \notin owned /\ \A u \in Actors : Busy(u) => arg[u].ptr # arg[t].ptr
      BY <3>1, <3>2, Zenon DEF Safe, Numbers
    <3> QED BY <1>1, <2>1, <3>3, Zenon DEF Fresh, Busy
  <2> QED BY <1>1, <1>2, <2>1, Zenon DEF Future, Past
<1> QED BY <1>1, <1>4, <1>5, <1>7, <1>8, <1>9, Zenon DEF Safe

\* The callback's reactable is there when it returns; Run deletes it only when it is
\* removed, and then nobody else refers to it.
LEMMA FinishSafe ==
  ASSUME Types, Safe, RunFinish
  PROVE  Safe'
<1>1. /\ loop = "exec" /\ pc[Loop] = "none"
      /\ UNCHANGED <<events, reg, nregs, owned, interest, invalidation_list, pc, arg>>
  BY Zenon DEF RunFinish
<1>2. cur.ptr \in live /\ cur.reg = reg[cur.ptr] /\ cur \in Records /\ is_executing = {cur.ptr}
  BY <1>1, Zenon DEF Safe, Executing, Types
<1>3. cur = Event(cur.ptr)
  BY <1>2, Zenon DEF Event, Records
<1>4. /\ loop' = "dispatch" /\ is_executing' = {} /\ removed' = removed \ {cur.ptr}
      /\ live' = IF cur.ptr \in removed THEN live \ {cur.ptr} ELSE live
  BY <1>2, <1>3, Zenon DEF RunFinish
<1>5. \A t \in Actors : (Busy(t)' <=> Busy(t)) /\ (Past(t)' <=> Past(t))
  BY <1>1, Zenon DEF Busy, Past
<1>6. \A a \in live : a \in owned \/ (\E t \in Actors : Busy(t) /\ arg[t].ptr = a) => a \in live'
  BY <1>4, Zenon DEF Safe, Executing
<1>7. Ownership'
  <2>1. owned' \subseteq live'
    BY <1>1, <1>6, Zenon DEF Safe, Ownership
  <2>2. \A t \in Actors : Busy(t) => arg[t].ptr \in live'
    BY <1>6, Zenon DEF Safe, Ownership
  <2> QED BY <1>1, <1>5, <2>1, <2>2, Zenon DEF Safe, Ownership
<1>8. Numbers'
  BY <1>1, <1>5, Zenon DEF Safe, Numbers
<1>9. Executing'
  <2>1. removed' = {}
    BY <1>2, <1>4, Zenon DEF Safe, Executing
  <2> QED BY <1>1, <1>4, <2>1, Zenon DEF Executing
<1>10. Collected'
  <2>1. \A e : Fresh(e) => Fresh(e)'
    BY <1>1, <1>6, Zenon DEF Fresh, Busy
  <2> QED BY <1>1, <1>4, <2>1, Zenon DEF Safe, Collected, ControlEvent, NoEvent
<1>11. Future'
  BY <1>4, Zenon DEF Future
<1> QED BY <1>4, <1>7, <1>8, <1>9, <1>10, <1>11, Zenon DEF Safe
-----------------------------------------------------------------------------
(* The invariant.                                                          *)

\* The invariant holds at the start.
LEMMA InitIInv == ASSUME Init PROVE IInv
<1>1. Types
  BY ReactorAssumption, EventFacts, Zenon DEF Init, Types, Places, Records, NoEvent
<1>2. \A t \in Actors : ~Busy(t) /\ ~Past(t) /\ pc[t] = "none"
  BY Zenon DEF Init, Busy, Past
<1>3. Ownership
  BY <1>2, Zenon DEF Init, Ownership
<1>4. Numbers
  BY <1>2 DEF Init, Numbers
<1>5. Executing
  BY <1>2, ActorFacts, Zenon DEF Init, Executing
<1>6. Collected
  BY <1>2, Zenon DEF Init, Collected
<1>7. Future
  BY <1>2, Zenon DEF Init, Future
<1> QED BY <1>1, <1>3, <1>4, <1>5, <1>6, <1>7, Zenon DEF Init, IInv, Safe

\* The race is remembered.
LEMMA RacedStays == ASSUME [Next]_vars, raced PROVE raced'
<1>1. CASE UNCHANGED vars
  BY <1>1, Zenon DEF vars, runVars
<1>2. CASE Run
  BY <1>2, Zenon DEF Run, RunTop, RunPoll, RunIdle, RunControl, RunFinish, RunNext, RunSkip, RunExecute
<1>3. CASE \E t \in Actors : InCall(t)
  BY <1>3, Zenon DEF InCall, UnregisterInvalidate, UnregisterErase, UnregisterDelete, UnregisterReturn,
              WaitReady, WaitTimeout, ThreadJoin, IdleWrite, IdleReturn, runVars
<1>4. CASE \E t \in Actors : Calls(t)
  BY <1>4, Zenon DEF Calls, Register, UnregisterCall, WaitNothing, WaitBegin, ThreadStop, IdlePromise, runVars
<1>5. CASE \E a \in Addrs : FdReady(a)
  BY <1>5, Zenon DEF FdReady, runVars
<1> QED BY <1>1, <1>2, <1>3, <1>4, <1>5, Zenon DEF Next

\* Types are kept by every step.
LEMMA NextTypes == ASSUME Types, [Next]_vars PROVE Types'
<1>1. CASE UNCHANGED vars
  BY <1>1, Zenon DEF vars, runVars, objVars, Types
<1>2. CASE Run \/ \E a \in Addrs : FdReady(a)
  BY <1>2, RunTypes, Zenon
<1>3. ASSUME NEW t \in Actors, InCall(t) PROVE Types'
  BY <1>3, InCallTypes, Zenon
<1>4. ASSUME NEW t \in Actors, Calls(t) PROVE Types'
  BY <1>4, InCallTypes, RegisterTypes, CallTypes, Zenon DEF Calls
<1> QED BY <1>1, <1>2, <1>3, <1>4, Zenon DEF Next

\* The calls of Stop and WaitForIdle do not touch the reactables.
LEMMA StopAndIdleSafe ==
  ASSUME Types, Safe, NEW t \in Actors,
         ThreadStop(t) \/ ThreadJoin(t) \/ IdlePromise(t) \/ IdleWrite(t) \/ IdleReturn(t)
  PROVE  Safe'
<1>1. UNCHANGED <<loop, events, objVars, invalidation_list, finished, cur, arg>>
  BY Zenon DEF ThreadStop, ThreadJoin, IdlePromise, IdleWrite, IdleReturn, runVars, objVars
<1>2. /\ pc[t] \in {"none", "join", "idle_write", "idle_wait"}
      /\ pc'[t] \in {"none", "join", "idle_write", "idle_wait"}
      /\ \A u \in Actors : u # t => pc'[u] = pc[u]
  BY Zenon DEF Types, MayCall, Goto, ThreadStop, ThreadJoin, IdlePromise, IdleWrite, IdleReturn
<1>3. t = Loop => pc'[t] = "none" \/ pc[t] # "none"
  BY ActorFacts, Zenon DEF ThreadStop, ThreadJoin, IdlePromise, IdleWrite, IdleReturn
<1>4. \A u \in Actors : pc'[u] # pc[u] => ~Busy(u) /\ ~Past(u) /\ ~Busy(u)' /\ ~Past(u)'
  BY <1>2, Zenon DEF Busy, Past
<1>5. pc'[Loop] # pc[Loop] => pc'[Loop] = "none" \/ pc[Loop] # "none"
  BY <1>2, <1>3, ActorFacts, Zenon
<1>6. loop' \in {"top", "poll"} => events' = {}
  BY <1>1, Zenon DEF Safe, Collected
<1> QED BY <1>1, <1>4, <1>5, <1>6, OtherSteps, Zenon

\* Nor do the steps of Run between two events.
LEMMA BetweenSafe ==
  ASSUME Types, Safe, RunIdle \/ RunControl \/ RunNext \/ (\E a \in Addrs : FdReady(a)) \/ UNCHANGED vars
  PROVE  Safe'
<1>1. UNCHANGED <<objVars, invalidation_list, finished, cur, arg, pc>>
  BY Zenon DEF RunIdle, RunControl, RunNext, FdReady, vars, runVars, objVars
<1>2. /\ events' \subseteq events
      /\ loop' = loop \/ (loop' \in {"top", "exited", "null_promise"} /\ loop \in {"poll", "dispatch"})
      /\ loop' = "top" /\ loop' # loop => loop = "poll" \/ events = {}
  BY Zenon DEF RunIdle, RunControl, RunNext, FdReady, vars, runVars
<1>3. loop' \in {"top", "poll"} => events' = {}
  BY <1>2, Zenon DEF Safe, Collected
<1> QED BY <1>1, <1>2, <1>3, OtherSteps, Zenon

\* The invariant is inductive.
LEMMA NextIInv == ASSUME IInv, [Next]_vars PROVE IInv'
<1>1. Types'
  BY NextTypes, Zenon DEF IInv
<1>2. ASSUME ~raced' PROVE Safe'
  <2>1. Types /\ Safe
    BY <1>2, RacedStays, Zenon DEF IInv
  <2>2. CASE UNCHANGED vars \/ \E a \in Addrs : FdReady(a)
    BY <2>1, <2>2, BetweenSafe, Zenon
  <2>3. CASE Run
    BY <1>2, <2>1, <2>3, TopSafe, PollSafe, SkipSafe, ExecuteSafe, FinishSafe, BetweenSafe, Zenon DEF Run
  <2>4. ASSUME NEW t \in Actors, InCall(t) PROVE Safe'
    BY <2>1, <2>4, InvalidateSafe, EraseSafe, DeleteSafe, WaitSafe, StopAndIdleSafe, Zenon DEF InCall
  <2>5. ASSUME NEW t \in Actors, Calls(t) PROVE Safe'
    BY <2>1, <2>5, RegisterSafe, CallSafe, WaitSafe, StopAndIdleSafe, Zenon DEF Calls
  <2> QED BY <2>2, <2>3, <2>4, <2>5, Zenon DEF Next
<1> QED BY <1>1, <1>2, Zenon DEF IInv

\* IInv holds in every reachable state.
THEOREM Invariance == Spec => []IInv
BY InitIInv, NextIInv, PTL DEF Spec

\* When WaitForUnregisteredReactable has returned true the callback is over: for any
\* number of threads and reactables.
THEOREM WaitIsEnough == Spec => []WaitedIsOver
<1>1. IInv => WaitedIsOver
  BY ActorFacts, Zenon DEF IInv, Safe, Future, WaitedIsOver
<1> QED BY <1>1, Invariance, PTL

\* Run calls back only for events of live registrations: for any number of threads and
\* reactables, and however often an address is reused.
THEOREM NoStaleCallback == Spec => OnlyLiveRegistrations
<1> DEFINE A == loop = "dispatch" /\ loop' = "exec" /\ ~raced =>
                  /\ cur' = Event(cur'.ptr)
                  /\ cur'.ptr \in owned \/ \E t \in Threads : pc[t] = "unregister" /\ arg[t] = cur'
<1>1. ASSUME IInv, [Next]_vars PROVE [A]_vars
  <2>1. SUFFICES ASSUME Next, loop = "dispatch", loop' = "exec", ~raced
                 PROVE  /\ cur' = Event(cur'.ptr)
                        /\ cur'.ptr \in owned \/ \E t \in Threads : pc[t] = "unregister" /\ arg[t] = cur'
    BY <1>1, Zenon
  <2>2. Types /\ Safe
    BY <1>1, <2>1, Zenon DEF IInv
  <2>3. PICK e \in events : RunExecute(e)
    <3>1. ASSUME NEW t \in Actors, InCall(t) \/ Calls(t) PROVE loop' = loop
      BY <3>1, Zenon DEF InCall, Calls, UnregisterInvalidate, UnregisterErase, UnregisterDelete,
                  UnregisterReturn, WaitReady, WaitTimeout, ThreadJoin, IdleWrite, IdleReturn, Register,
                  UnregisterCall, WaitNothing, WaitBegin, ThreadStop, IdlePromise, runVars
    <3>2. \A a \in Addrs : FdReady(a) => loop' = loop
      BY Zenon DEF FdReady, runVars
    <3>3. RunTop \/ RunPoll \/ RunIdle \/ RunControl \/ RunFinish \/ RunNext => loop' # "exec"
      BY <2>1, Zenon DEF RunTop, RunPoll, RunIdle, RunControl, RunFinish, RunNext
    <3>4. \A e \in events : RunSkip(e) => loop' = loop
      BY Zenon DEF RunSkip
    <3> QED BY <2>1, <3>1, <3>2, <3>3, <3>4, Zenon DEF Next, Run
  <2>4. Fresh(e) /\ e \in Records /\ cur' = e
    BY <2>2, <2>3, DispatchFresh, Zenon
  <2>5. cur' = Event(cur'.ptr)
    BY <2>4, Zenon DEF Fresh, Event, Records
  <2>6. ASSUME NEW t \in Actors, pc[t] = "unregister", arg[t].ptr = e.ptr
        PROVE  t \in Threads /\ arg[t] = cur'
    <3>1. t \in Threads
      BY <2>1, <2>2, <2>6, Zenon DEF Safe, Executing, Actors
    <3>2. arg[t].reg = reg[arg[t].ptr] /\ arg[t] \in Records
      BY <2>2, <2>6, Zenon DEF Safe, Ownership, Busy, Types
    <3> QED BY <2>4, <2>6, <3>1, <3>2 DEF Fresh, Records
  <2> QED BY <2>4, <2>5, <2>6, Zenon DEF Fresh
<1> QED BY <1>1, Invariance, PTL DEF Spec, OnlyLiveRegistrations
-----------------------------------------------------------------------------
(* Stop and WaitForIdle.                                                   *)

\* control_fd_ holds at most one stop and one wait for idle, and whoever is told to be
\* idle finds the promise: if WaitForIdle is called once.
Idling ==
  /\ idles \in {0, 1} /\ control \in {0, 1, 2, 3}
  /\ control \in {1, 3} => ~joinable \/ \E t \in Threads : pc[t] = "join"
  /\ \A t \in Actors : pc[t] = "idle_write" =>
       /\ idles = 1 /\ idle_promise # None /\ control \in {0, 1} /\ ~waiting_for_idle
       /\ \A u \in Actors : pc[u] = "idle_write" => u = t
  /\ control \in {2, 3} => idles = 1 /\ idle_promise # None /\ ~waiting_for_idle
  /\ waiting_for_idle => idles = 1 /\ idle_promise # None
  /\ loop # "null_promise"

\* The calls of Unregister and the events of reactables leave control_fd_ alone.
LEMMA OtherIdling ==
  ASSUME Idling, UNCHANGED ctlVars, loop' # "null_promise",
         \A t \in Actors : (pc'[t] = "idle_write" => pc[t] = "idle_write") /\ (pc[t] = "join" => pc'[t] = "join")
  PROVE  Idling'
BY ActorFacts, Zenon DEF Idling, ctlVars

\* WaitForIdle is called once.
LEMMA NextIdling ==
  ASSUME MaxIdles \in {0, 1}, Types, Idling, [Next]_vars
  PROVE  Idling'
<1>1. CASE UNCHANGED vars \/ \E a \in Addrs : FdReady(a)
  BY <1>1, OtherIdling, Zenon DEF vars, runVars, FdReady, Idling
<1>2. CASE RunTop \/ RunPoll \/ RunFinish \/ RunNext \/ \E e \in events : RunSkip(e) \/ RunExecute(e)
  BY <1>2, OtherIdling, Zenon DEF RunTop, RunPoll, RunFinish, RunNext, RunSkip, RunExecute
<1>3. CASE RunIdle
  BY <1>3, Zenon DEF Idling, RunIdle
<1>4. CASE RunControl
  <2>1. loop = "dispatch" /\ control' = 0 /\ UNCHANGED <<idle_promise, joinable, idles, pc>>
    BY <1>4, Zenon DEF RunControl
  <2>2. CASE Stops(control)
    BY <1>4, <2>1, <2>2 DEF Idling, RunControl
  <2>3. CASE ~Stops(control)
    <3>1. control \in {0, 2}
      BY <2>3 DEF Idling, Stops, Bit, kStopReactor
    <3>2. Bit(control, kWaitForIdle) => control = 2
      BY <3>1 DEF Bit, kWaitForIdle
    <3>3. UNCHANGED loop /\ waiting_for_idle' = (waiting_for_idle \/ Bit(control, kWaitForIdle))
      BY <1>4, <2>3, Zenon DEF RunControl
    <3>4. waiting_for_idle' => waiting_for_idle \/ control = 2
      BY <3>2, <3>3, Zenon
    <3>5. waiting_for_idle' => idles = 1 /\ idle_promise # None /\ \A t \in Actors : pc[t] # "idle_write"
      BY <3>4 DEF Idling
    <3> QED BY <2>1, <3>3, <3>5 DEF Idling
  <2> QED BY <2>2, <2>3, Zenon
<1>5. ASSUME NEW t \in Actors,
             \/ UnregisterInvalidate(t) \/ UnregisterErase(t) \/ UnregisterDelete(t) \/ UnregisterReturn(t)
             \/ WaitReady(t) \/ WaitTimeout(t) \/ WaitNothing(t) \/ WaitBegin(t) \/ IdleReturn(t)
             \/ \E a \in Addrs : Register(t, a) \/ UnregisterCall(t, a)
      PROVE  Idling'
  <2>1. UNCHANGED <<loop, ctlVars>>
    BY <1>5, Zenon DEF UnregisterInvalidate, UnregisterErase, UnregisterDelete, UnregisterReturn, WaitReady,
                WaitTimeout, WaitNothing, WaitBegin, IdleReturn, Register, UnregisterCall, runVars, ctlVars
  <2>2. \A u \in Actors : (pc'[u] = "idle_write" => pc[u] = "idle_write") /\ (pc[u] = "join" => pc'[u] = "join")
    BY <1>5, Zenon DEF Types, UnregisterInvalidate, UnregisterErase, UnregisterDelete, UnregisterReturn, WaitReady,
                WaitTimeout, WaitNothing, WaitBegin, IdleReturn, Register, UnregisterCall, Goto, MayCall
  <2> QED BY <2>1, <2>2, OtherIdling, Zenon DEF Idling
<1>6. ASSUME NEW t \in Actors, ThreadStop(t) PROVE Idling'
  <2>1. /\ t \in Threads /\ control \in {0, 2} /\ control' = control + 1
        /\ pc'[t] = "join" /\ \A u \in Actors : u # t => pc'[u] = pc[u]
        /\ UNCHANGED <<loop, waiting_for_idle, idle_promise, joinable, idles>>
    BY <1>6, Zenon DEF Idling, Types, ThreadStop, ReactorStop, kStopReactor, Goto, runVars
  <2>2. control' \in {1, 3} /\ (control' \in {2, 3} => control = 2) /\ (control = 0 => control' = 1)
    BY <2>1
  <2>3. \A u \in Actors : pc'[u] = "idle_write" => pc[u] = "idle_write"
    BY <2>1, Zenon
  <2>4. \A u \in Actors : pc'[u] = "idle_write" =>
          /\ idles' = 1 /\ idle_promise' # None /\ control' \in {0, 1} /\ ~waiting_for_idle'
          /\ \A v \in Actors : pc'[v] = "idle_write" => v = u
    BY <2>1, <2>2, <2>3, Zenon DEF Idling
  <2>5. control' \in {2, 3} => idles' = 1 /\ idle_promise' # None /\ ~waiting_for_idle'
    BY <2>1, <2>2, Zenon DEF Idling
  <2>6. idles' \in {0, 1} /\ control' \in {0, 1, 2, 3} /\ \E u \in Threads : pc'[u] = "join"
    BY <2>1, <2>2, Zenon DEF Idling
  <2>7. (waiting_for_idle' => idles' = 1 /\ idle_promise' # None) /\ loop' # "null_promise"
    BY <2>1, Zenon DEF Idling
  <2> QED BY <2>4, <2>5, <2>6, <2>7, Zenon DEF Idling
<1>7. ASSUME NEW t \in Actors, ThreadJoin(t) PROVE Idling'
  <2>1. /\ ~joinable' /\ pc'[t] = "none" /\ \A u \in Actors : u # t => pc'[u] = pc[u]
        /\ UNCHANGED <<loop, control, waiting_for_idle, idle_promise, idles>>
    BY <1>7, Zenon DEF Types, ThreadJoin, Goto, runVars
  <2> QED BY <2>1 DEF Idling
<1>8. ASSUME NEW t \in Actors, IdlePromise(t) PROVE Idling'
  <2>1. /\ t \in Threads /\ pc[t] = "none" /\ idles = 0 /\ idles' = 1 /\ idle_promise' = t
        /\ pc'[t] = "idle_write" /\ \A u \in Actors : u # t => pc'[u] = pc[u]
        /\ UNCHANGED <<loop, control, waiting_for_idle, joinable>>
    BY <1>8 DEF Idling, Types, IdlePromise, MayCall, Goto, runVars
  <2>2. idle_promise' # None /\ control \in {0, 1} /\ ~waiting_for_idle /\ \A u \in Actors : pc[u] # "idle_write"
    BY <2>1, ActorFacts DEF Idling
  <2>3. control \in {1, 3} => ~joinable \/ \E u \in Threads : pc'[u] = "join"
    BY <2>1, ActorFacts, Zenon DEF Idling
  <2> QED BY <2>1, <2>2, <2>3, Zenon DEF Idling
<1>9. ASSUME NEW t \in Actors, IdleWrite(t) PROVE Idling'
  <2>1. /\ pc[t] = "idle_write" /\ control' = control + 2
        /\ pc'[t] = "idle_wait" /\ \A u \in Actors : u # t => pc'[u] = pc[u]
        /\ UNCHANGED <<loop, waiting_for_idle, idle_promise, joinable, idles>>
    BY <1>9, Zenon DEF Types, IdleWrite, kWaitForIdle, Goto, runVars
  <2>2. /\ idles = 1 /\ idle_promise # None /\ control \in {0, 1} /\ ~waiting_for_idle
        /\ \A u \in Actors : pc'[u] # "idle_write"
    BY <2>1, Zenon DEF Idling
  <2>3. control \in {1, 3} => ~joinable \/ \E u \in Threads : pc'[u] = "join"
    BY <2>1, ActorFacts, Zenon DEF Idling
  <2> QED BY <2>1, <2>2, <2>3 DEF Idling
<1> QED BY <1>1, <1>2, <1>3, <1>4, <1>5, <1>6, <1>7, <1>8, <1>9, Zenon DEF Next, Run, InCall, Calls

\* Run touches no deleted reactable without the race, and no promise that nobody made
\* when WaitForIdle is called at most once: for any number of threads and reactables.
THEOREM OneRaceOnly ==
  ASSUME MaxIdles \in {0, 1}
  PROVE  Spec => []CrashNeedsRace
<1>1. Init => Idling
  BY DEF Init, Idling
<1>2. ASSUME IInv, Idling, [Next]_vars PROVE Idling'
  BY <1>2, NextIdling, Zenon DEF IInv
<1>3. IInv /\ Idling => CrashNeedsRace
  BY Zenon DEF IInv, Safe, Idling, CrashNeedsRace
<1> QED BY <1>1, <1>2, <1>3, Invariance, PTL DEF Spec
=============================================================================
