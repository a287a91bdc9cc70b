------------------------- MODULE SequentialContext -------------------------
(***************************************************************************)
(* What os::Handler promises to the modules of the stack: "a sequential    *)
(* execution context".  Closures posted by any thread are run one at a     *)
(* time, in the order of their posting, each at most once, until the       *)
(* context is closed; closing discards what has not started.               *)
(***************************************************************************)
EXTENDS Naturals, Sequences

CONSTANT NoTask     \* the value of current when no closure runs

VARIABLES queue,    \* closures posted and not started, oldest first
          current,  \* the closure that is running
          posted,   \* how many closures were accepted so far
          closed

cvars == <<queue, current, posted, closed>>

Init ==
  /\ queue = <<>>
  /\ current = NoTask
  /\ posted = 0
  /\ closed = FALSE

\* The n-th accepted closure is named n.
Post ==
  /\ ~closed
  /\ posted' = posted + 1
  /\ queue' = Append(queue, posted')
  /\ UNCHANGED <<current, closed>>

Start ==
  /\ ~closed
  /\ current = NoTask
  /\ queue # <<>>
  /\ current' = Head(queue)
  /\ queue' = Tail(queue)
  /\ UNCHANGED <<posted, closed>>

Finish ==
  /\ current # NoTask
  /\ current' = NoTask
  /\ UNCHANGED <<queue, posted, closed>>

Close ==
  /\ ~closed
  /\ closed' = TRUE
  /\ queue' = <<>>
  /\ UNCHANGED <<current, posted>>

Next == Post \/ Start \/ Finish \/ Close

Spec == Init /\ [][Next]_cvars

\* A closure at the head of an open context is started, and returns.
FairSpec == Spec /\ WF_cvars(Start) /\ WF_cvars(Finish)
=============================================================================
