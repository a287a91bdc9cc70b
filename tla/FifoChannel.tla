---------------------------- MODULE FifoChannel ----------------------------
(***************************************************************************)
(* What an os::Queue with an os::EnqueueBuffer before it promises: items   *)
(* come out in the order in which they went in, none is lost, duplicated   *)
(* or invented; only a flush takes items away, and it takes the latest.    *)
(***************************************************************************)
EXTENDS Naturals, Sequences

VARIABLES pipe,      \* the items between the two ends, oldest first
          sent,      \* how many items went in; the n-th is named n
          received   \* the item that came out last

Init == pipe = <<>> /\ sent = 0 /\ received = 0

Send ==
  /\ sent' = sent + 1
  /\ pipe' = Append(pipe, sent')
  /\ UNCHANGED received

Receive ==
  /\ pipe # <<>>
  /\ received' = Head(pipe)
  /\ pipe' = Tail(pipe)
  /\ UNCHANGED sent

Flush ==
  /\ \E n \in 0..Len(pipe) : pipe' = SubSeq(pipe, 1, n)
  /\ UNCHANGED <<sent, received>>

Next == Send \/ Receive \/ Flush

Spec == Init /\ [][Next]_<<pipe, sent, received>>
=============================================================================
