----------------------------- MODULE ErtmProofs -----------------------------
(***************************************************************************)
(* The safety of the two ErtmControllers, for any traffic, any negotiated  *)
(* window and number of transmissions, and any number of lost frames and   *)
(* expired timers: NotifyOnEmptyOnce, WindowsAgree, InOrder and            *)
(* NoProtocolError.                                                        *)
(*                                                                         *)
(* The invariant has three layers.  Good is what one controller keeps by   *)
(* itself: unacked_list_ holds the frames from expected_ack_seq_ to        *)
(* next_tx_seq_.  Direction relates the sender, the frames on the link and *)
(* the receiver: acknowledgements in flight do not decrease, and a frame   *)
(* that is not yet acknowledged carries the segment of its number.  Flow   *)
(* says that the segments a controller holds follow each other, and that   *)
(* the receiver has assembled exactly the ones before the one it expects.  *)
(*                                                                         *)
(* First the operators, each with a lemma named for what it does; then     *)
(* what a run of a controller does to the two directions; then one lemma   *)
(* for each action; then the theorems.  A loop of the code is a recursive  *)
(* function, and its turns are gone through with Induction.                *)
(***************************************************************************)
EXTENDS Ertm, WellFoundedInduction, TLAPS

\* The fields of a controller.
Fields ==
  {"tx_state", "rx_state", "next_tx_seq", "expected_ack_seq", "expected_tx_seq", "buffer_seq",
   "remote_busy", "local_busy", "rnr_sent", "rej_actioned", "unacked_frames", "unacked_list",
   "pending_frames", "retry_count", "retry_i_frames", "retrans_timer", "monitor_timer", "sar_state",
   "reassembly_stage", "remaining", "enqueue_buffer", "on_empty", "closed_by", "out", "lapped",
   "overtaken"}

\* q is a sequence, of whatever.
IsSeq(q) == \E T : q \in Seq(T)

\* r differs from e in no field but those of F.
Same(e, r, F) == DOMAIN r = Fields /\ \A f \in Fields \ F : r[f] = e[f]

\* The I-frame m carries the segment s.
Carries(m, s) == m.sar = s.sar /\ m.sdu_size = s.sdu_size /\ m.payload = s.payload

\* A PDU that the controller e may hand to send_pdu: it acknowledges what was received, and an
\* I-frame carries the segment that unacked_list_ has under its number.
Sendable(e, m) ==
  /\ m.req_seq = e.expected_tx_seq
  /\ m.type = "I" => /\ m.tx_seq \in e.expected_ack_seq..e.next_tx_seq - 1
                     /\ Carries(m, e.unacked_list[m.tx_seq])

\* The numbers of a controller that have not wrapped.
Numbers(e) ==
  /\ e.next_tx_seq \in 0..63 /\ e.expected_ack_seq \in 0..e.next_tx_seq
  /\ e.expected_tx_seq \in 0..63

\* A controller whose numbers have not wrapped.
Good(e) ==
  /\ Numbers(e)
  /\ e.unacked_frames = e.next_tx_seq - e.expected_ack_seq /\ e.unacked_frames <= remote_tx_window_
  /\ DOMAIN e.unacked_list = e.expected_ack_seq..e.next_tx_seq - 1
  /\ IsSeq(e.pending_frames)
  /\ e.buffer_seq = e.expected_tx_seq
  /\ IsSeq(e.out) /\ \A i \in 1..Len(e.out) : Sendable(e, e.out[i])

\* The segments that e has not yet seen acknowledged: those in unacked_list_, then those in
\* pending_frames_, which will get the numbers from next_tx_seq_ on.
Top(e) == e.next_tx_seq + Len(e.pending_frames)

\* The one that has, or will get, the number i.
At(e, i) == IF i < e.next_tx_seq THEN e.unacked_list[i] ELSE e.pending_frames[i - e.next_tx_seq + 1]

\* The segment after x in the SDUs of sizes S.
After(S, x) == IF x[2] < S[x[1]] THEN <<x[1], x[2] + 1>> ELSE <<x[1] + 1, 1>>

\* The segment numbered i of those that e holds; behind them comes z.
Place(e, i, z) == IF i = Top(e) THEN z ELSE At(e, i).payload

\* The segments of e follow each other, are of the first n of the SDUs of sizes S, and the next
\* one that comes is z.
Chain(e, S, n, z) ==
  \A i \in e.expected_ack_seq..Top(e) - 1 :
    /\ \E k \in 1..n : \E j \in 1..S[k] : At(e, i) = Segment(k, S[k], j)
    /\ Place(e, i + 1, z) = After(S, At(e, i).payload)

\* The number of the SDU that e, whose client has taken d, works at.
Number(e, d) == Len(d) + Len(e.enqueue_buffer) + 1

\* The segment e waits for.
Want(e, d) ==
  IF e.sar_state = "END" THEN <<Number(e, d), 1>> ELSE <<Number(e, d), Len(e.reassembly_stage) + 1>>

\* What e has received of SDUs of sizes S are the first ones.
Received(e, d, S) ==
  /\ IsSeq(d) /\ IsSeq(e.enqueue_buffer)
  /\ \A k \in 1..Len(d) : d[k] = Whole(k, S[k])
  /\ \A k \in 1..Len(e.enqueue_buffer) : e.enqueue_buffer[k] = Whole(Len(d) + k, S[Len(d) + k])
  /\ e.sar_state # "END" =>
       LET k == Number(e, d)
           j == Len(e.reassembly_stage)
       IN  /\ k \in 1..Len(S) /\ j \in 1..S[k] - 1 /\ e.reassembly_stage = Whole(k, j)
           /\ e.remaining = uint16(S[k] - j)

\* One direction of the channel, from the controller s to the controller r, with the frames back
\* on their way to s and the frames forth on their way to r: what is acknowledged was received,
\* what is received was sent, and an I-frame that is not yet acknowledged carries its segment.
Direction(s, r, back, forth) ==
  /\ s.expected_ack_seq <= r.expected_tx_seq /\ r.expected_tx_seq <= s.next_tx_seq
  /\ \A i \in 1..Len(back) : back[i].req_seq \in s.expected_ack_seq..r.expected_tx_seq
  /\ \A i, j \in 1..Len(back) : i < j => back[i].req_seq <= back[j].req_seq
  /\ \A i \in 1..Len(forth) :
       forth[i].type = "I" =>
         /\ forth[i].tx_seq \in 0..s.next_tx_seq - 1
         /\ forth[i].tx_seq >= s.expected_ack_seq => Carries(forth[i], s.unacked_list[forth[i].tx_seq])

\* The same direction, where n of the SDUs of sizes S were handed over and the client of r has
\* taken d: what is on the way continues what was received.
Flow(s, r, d, S, n) ==
  /\ Chain(s, S, n, <<n + 1, 1>>)
  /\ Received(r, d, S)
  /\ Place(s, r.expected_tx_seq, <<n + 1, 1>>) = Want(r, d)

\* The flags that NotifyOnEmpty depends on.
Flags(e) ==
  /\ e.on_empty \in {0, 1} /\ (e.on_empty = 1 => e.local_busy)
  /\ e.local_busy => e.rx_state = "RECV"
  /\ e.rx_state \in {"RECV", "REJ_SENT"} /\ e.tx_state \in {"XMIT", "WAIT_F"}

\* A controller as the operators need it.
Ready(e) == DOMAIN e = Fields /\ IsSeq(e.pending_frames)

\* The window is narrow enough for sequence_less_than(x, y), which takes a y that lies more than
\* kMaxTxWin - local_tx_window_ below x for one that has wrapped.
Narrow == remote_tx_window_ <= kMaxTxWin - local_tx_window_

\* The inductive invariant.
IInv ==
  /\ DOMAIN ep = Peers /\ DOMAIN link = Peers /\ DOMAIN sent = Peers /\ DOMAIN delivered = Peers
  /\ sdus \in [Peers -> Seq(Nat \ {0})]
  /\ \A p \in Peers : Ready(ep[p]) /\ ep[p].out = << >> /\ Flags(ep[p]) /\ sent[p] \in 0..Len(sdus[p])
  /\ FirstLap => \A p \in Peers : /\ Good(ep[p]) /\ IsSeq(link[p])
                                  /\ Direction(ep[p], ep[Peer(p)], link[p], link[Peer(p)])
                                  /\ ~ep[p].overtaken =>
                                       Flow(ep[p], ep[Peer(p)], delivered[Peer(p)], sdus[p], sent[p])
  /\ Narrow => NoProtocolError
-----------------------------------------------------------------------------
\* What Append makes of a sequence.
LEMMA Appended ==
  ASSUME NEW q, IsSeq(q), NEW x
  PROVE  /\ IsSeq(Append(q, x)) /\ Len(q) \in Nat /\ Len(Append(q, x)) = Len(q) + 1
         /\ \A i \in 1..Len(q) : Append(q, x)[i] = q[i]
         /\ Append(q, x)[Len(q) + 1] = x
<1>1. PICK T : q \in Seq(T)
  BY Zenon DEF IsSeq
<1>2. q \in Seq(T \cup {x})
  BY <1>1
<1>3. Append(q, x) \in Seq(T \cup {x})
  BY <1>2
<1> QED BY <1>2, <1>3 DEF IsSeq

\* What Tail makes of a sequence.
LEMMA Taken ==
  ASSUME NEW q, IsSeq(q), q # << >>
  PROVE  /\ IsSeq(Tail(q)) /\ Len(q) \in Nat \ {0} /\ Len(Tail(q)) = Len(q) - 1 /\ Head(q) = q[1]
         /\ \A i \in 1..Len(q) - 1 : Tail(q)[i] = q[i + 1]
<1>1. PICK T : q \in Seq(T)
  BY Zenon DEF IsSeq
<1> QED BY <1>1 DEF IsSeq

\* What \o makes of two sequences.
LEMMA Joined ==
  ASSUME NEW q, IsSeq(q), NEW t, IsSeq(t)
  PROVE  /\ IsSeq(q \o t) /\ Len(q) \in Nat /\ Len(t) \in Nat /\ Len(q \o t) = Len(q) + Len(t)
         /\ \A i \in 1..Len(q) : (q \o t)[i] = q[i]
         /\ \A i \in 1..Len(t) : (q \o t)[Len(q) + i] = t[i]
<1>1. PICK S : q \in Seq(S)
  BY Zenon DEF IsSeq
<1>2. PICK T : t \in Seq(T)
  BY Zenon DEF IsSeq
<1>3. q \in Seq(S \cup T) /\ t \in Seq(S \cup T)
  BY <1>1, <1>2
<1>4. q \o t \in Seq(S \cup T)
  BY <1>3
<1> QED BY <1>3, <1>4 DEF IsSeq

\* The same, for the PDUs that a handler leaves behind those on the link.
LEMMA JoinedOut ==
  ASSUME NEW q, IsSeq(q), NEW e, IsSeq(e.out)
  PROVE  /\ IsSeq(q \o e.out) /\ Len(q) \in Nat /\ Len(e.out) \in Nat
         /\ Len(q \o e.out) = Len(q) + Len(e.out)
         /\ \A i \in 1..Len(q) : (q \o e.out)[i] = q[i]
         /\ \A i \in 1..Len(e.out) : (q \o e.out)[Len(q) + i] = e.out[i]
<1> DEFINE o == e.out
<1>1. IsSeq(o)
  BY Zenon
<1> HIDE DEF o
<1>2. /\ IsSeq(q \o o) /\ Len(q) \in Nat /\ Len(o) \in Nat /\ Len(q \o o) = Len(q) + Len(o)
      /\ \A i \in 1..Len(q) : (q \o o)[i] = q[i]
      /\ \A i \in 1..Len(o) : (q \o o)[Len(q) + i] = o[i]
  BY ONLY IsSeq(q), <1>1, Joined
<1> QED BY <1>2, Zenon DEF o

\* Induction over the turns of a loop, with a set for the predicate.
LEMMA Induction ==
  ASSUME NEW n \in Nat, NEW S, 0 \in S, \A i \in 0..n - 1 : i \in S => i + 1 \in S
  PROVE  \A i \in 0..n : i \in S
<1> DEFINE T == {i \in 0..n : i \notin S}
           R == OpToRel(<, Nat)
<1>1. SUFFICES ASSUME T # {} PROVE FALSE
  BY Zenon
<1>2. PICK x \in T : \A y \in T : ~(<<y, x>> \in R)
  <2>1. T \subseteq Nat
    OBVIOUS
  <2>2. IsWellFoundedOn(R, Nat)
    BY NatLessThanWellFounded, Zenon
  <2> HIDE DEF T, R
  <2> QED BY <1>1, <2>1, <2>2, WFMin, Zenon
<1>3. x \in 1..n /\ x - 1 \in 0..n - 1 /\ x \notin S
  OBVIOUS
<1>4. <<x - 1, x>> \in R
  BY <1>3 DEF OpToRel
<1>5. x - 1 \notin T
  BY <1>2, <1>4, Zenon
<1>6. x - 1 \in S
  BY <1>3, <1>5
<1> QED BY <1>3, <1>6

-----------------------------------------------------------------------------
\* Fields that Good does not look at.
Loose ==
  {"tx_state", "rx_state", "remote_busy", "local_busy", "rnr_sent", "rej_actioned", "retry_count",
   "retry_i_frames", "retrans_timer", "monitor_timer", "sar_state", "reassembly_stage", "remaining",
   "enqueue_buffer", "on_empty", "closed_by", "lapped", "overtaken"}

\* Segments got a number: those that e has not seen acknowledged are the same in r.
Further(e, r) ==
  /\ r.next_tx_seq >= e.next_tx_seq /\ Top(r) = Top(e)
  /\ \A i \in e.expected_ack_seq..Top(e) - 1 : At(r, i) = At(e, i)

\* An operator that sets only such fields keeps what a controller has to send.
LEMMA LooseKeeps ==
  ASSUME NEW e, NEW r, Same(e, r, Loose), Good(e)
  PROVE  Good(r) /\ Further(e, r)
<1>1. /\ r.next_tx_seq = e.next_tx_seq /\ r.expected_ack_seq = e.expected_ack_seq
      /\ r.unacked_frames = e.unacked_frames /\ r.unacked_list = e.unacked_list
      /\ r.pending_frames = e.pending_frames /\ r.expected_tx_seq = e.expected_tx_seq
      /\ r.buffer_seq = e.buffer_seq /\ r.out = e.out
  BY Zenon DEF Same, Fields, Loose
<1>2. Good(r)
  BY <1>1, Zenon DEF Good, Sendable, Numbers
<1>3. Top(r) = Top(e) /\ \A i : At(r, i) = At(e, i)
  BY <1>1, Zenon DEF Top, At
<1>4. e.next_tx_seq \in Int
  <2>1. Numbers(e)
    BY Zenon DEF Good
  <2> QED BY <2>1 DEF Numbers
<1>5. r.next_tx_seq >= e.next_tx_seq
  BY <1>1, <1>4
<1> QED BY <1>2, <1>3, <1>5, Zenon DEF Further

\* The fields that the operators which send change.
Sending ==
  {"next_tx_seq", "unacked_frames", "unacked_list", "pending_frames", "retry_i_frames",
   "retrans_timer", "out", "lapped", "closed_by", "rnr_sent", "remote_busy", "rej_actioned"}

\* r is what an operator that sends makes of e.
Sends(e, r) ==
  /\ Same(e, r, Sending)
  /\ IsSeq(e.pending_frames) => IsSeq(r.pending_frames)
  /\ e.lapped => r.lapped
  /\ "protocol" \in r.closed_by => "protocol" \in e.closed_by
  /\ Good(e) /\ ~r.lapped => Good(r) /\ Further(e, r)

\* One operator after the other.
LEMMA SendsTwice ==
  ASSUME NEW e, NEW r, NEW t, Sends(e, r), Sends(r, t)
  PROVE  Sends(e, t)
<1>1. Same(e, t, Sending) /\ e.expected_ack_seq = r.expected_ack_seq
  BY Zenon DEF Sends, Same, Sending, Fields
<1>2. ASSUME Good(e), ~t.lapped PROVE Good(t) /\ Further(e, t)
  <2>1. Good(r) /\ Further(e, r) /\ Good(t) /\ Further(r, t)
    BY <1>2, Zenon DEF Sends
  <2>2. e.next_tx_seq \in Int /\ r.next_tx_seq \in Int /\ t.next_tx_seq \in Int
    <3>1. Numbers(e) /\ Numbers(r) /\ Numbers(t)
      BY <1>2, <2>1, Zenon DEF Good
    <3> QED BY <3>1 DEF Numbers
  <2>3. t.next_tx_seq >= e.next_tx_seq
    BY <2>1, <2>2 DEF Further
  <2>4. Top(t) = Top(e) /\ \A i \in e.expected_ack_seq..Top(e) - 1 : At(t, i) = At(e, i)
    BY <1>1, <2>1, Zenon DEF Further
  <2> QED BY <2>1, <2>3, <2>4, Zenon DEF Further
<1> QED BY <1>1, <1>2, Zenon DEF Sends

\* A change of other fields only.
LEMMA SendsNothing ==
  ASSUME NEW e, NEW r, Same(e, r, Sending \cap Loose), r.lapped = e.lapped,
         "protocol" \in r.closed_by => "protocol" \in e.closed_by
  PROVE  Sends(e, r)
<1>1. Same(e, r, Sending) /\ Same(e, r, Loose)
  BY Zenon DEF Same
<1>2. r.pending_frames = e.pending_frames
  BY Zenon DEF Same, Fields, Loose
<1> QED BY <1>1, <1>2, LooseKeeps, Zenon DEF Sends

\* _send_s_frame.
LEMMA SendsSFrame ==
  ASSUME NEW e, DOMAIN e = Fields, NEW s, s # "I", NEW n, NEW p, NEW f,
         Good(e) => n = e.expected_tx_seq
  PROVE  Sends(e, send_s_frame(e, s, n, p, f))
<1> DEFINE m == [type |-> s, req_seq |-> n, p |-> p, f |-> f]
           r == send_s_frame(e, s, n, p, f)
<1>1. Same(e, r, {"out"}) /\ r.out = Append(e.out, m)
  BY Zenon DEF Same, send_s_frame, Fields
<1>2. m.req_seq = n /\ m.type # "I"
  OBVIOUS
<1> HIDE DEF m, r
<1>3. /\ r.next_tx_seq = e.next_tx_seq /\ r.expected_ack_seq = e.expected_ack_seq
      /\ r.unacked_frames = e.unacked_frames /\ r.unacked_list = e.unacked_list
      /\ r.pending_frames = e.pending_frames /\ r.expected_tx_seq = e.expected_tx_seq
      /\ r.buffer_seq = e.buffer_seq /\ r.lapped = e.lapped /\ r.closed_by = e.closed_by
  BY <1>1, Zenon DEF Same, Fields
<1>4. ASSUME Good(e) PROVE Good(r) /\ Further(e, r)
  <2>1. /\ IsSeq(r.out) /\ Len(e.out) \in Nat /\ Len(r.out) = Len(e.out) + 1
        /\ \A i \in 1..Len(e.out) : r.out[i] = e.out[i]
        /\ r.out[Len(e.out) + 1] = m
    BY <1>1, <1>4, Appended DEF Good
  <2>2. Sendable(r, m)
    BY <1>2, <1>3, <1>4, Zenon DEF Sendable
  <2>3. \A i \in 1..Len(e.out) : Sendable(r, e.out[i])
    BY <1>3, <1>4, Zenon DEF Sendable, Good
  <2>4. \A i \in 1..Len(r.out) : Sendable(r, r.out[i])
    BY <2>1, <2>2, <2>3
  <2>5. Good(r)
    BY <1>3, <1>4, <2>1, <2>4, Zenon DEF Good, Numbers
  <2>6. Top(r) = Top(e) /\ \A i : At(r, i) = At(e, i)
    BY <1>3, Zenon DEF Top, At
  <2>7. r.next_tx_seq >= e.next_tx_seq
    <3>1. Numbers(e)
      BY <1>4, Zenon DEF Good
    <3> QED BY <1>3, <3>1 DEF Numbers
  <2> QED BY <2>5, <2>6, <2>7, Zenon DEF Further
<1>5. Same(e, r, Sending)
  BY <1>1, Zenon DEF Same, Sending
<1> QED BY <1>3, <1>4, <1>5, Zenon DEF Sends, r
-----------------------------------------------------------------------------
\* The fields that send_data changes.
Numbering ==
  {"unacked_list", "out", "unacked_frames", "retry_i_frames", "next_tx_seq", "retrans_timer", "lapped"}

\* send_data gives the next number to a segment; the frame carries that segment.
LEMMA DataIs ==
  ASSUME NEW e, DOMAIN e = Fields, NEW s, NEW f
  PROVE  LET r == send_data(e, s, f)
         IN /\ Same(e, r, Numbering) /\ (e.lapped => r.lapped)
            /\ Good(e) /\ e.unacked_frames < remote_tx_window_ /\ ~r.lapped =>
                 /\ Good(r) /\ r.next_tx_seq = e.next_tx_seq + 1 /\ r.unacked_list[e.next_tx_seq] = s
                 /\ \A i \in e.expected_ack_seq..e.next_tx_seq - 1 : r.unacked_list[i] = e.unacked_list[i]
<1> DEFINE n == e.next_tx_seq
           list == Emplace(e.unacked_list, n, s)
           m == IFrame(e, s, list[n].payload, n, f)
           r == send_data(e, s, f)
<1>1. /\ Same(e, r, Numbering) /\ r.unacked_list = list /\ r.out = Append(e.out, m)
      /\ r.unacked_frames = e.unacked_frames + 1 /\ r.next_tx_seq = (n + 1) % kMaxTxWin
      /\ r.lapped = (e.lapped \/ n + 1 = kMaxTxWin)
  BY Zenon DEF Same, send_data, Fields, Numbering
<1>2. /\ m.type = "I" /\ m.req_seq = e.buffer_seq /\ m.tx_seq = n /\ m.sar = s.sar
      /\ m.sdu_size = s.sdu_size /\ m.payload = list[n].payload
  BY DEF IFrame
<1> HIDE DEF m, r
<1>3. ASSUME Good(e), e.unacked_frames < remote_tx_window_, ~r.lapped
      PROVE  /\ Good(r) /\ r.next_tx_seq = e.next_tx_seq + 1 /\ r.unacked_list[e.next_tx_seq] = s
             /\ \A i \in e.expected_ack_seq..e.next_tx_seq - 1 : r.unacked_list[i] = e.unacked_list[i]
  <2>1. /\ Numbers(e) /\ e.unacked_frames = e.next_tx_seq - e.expected_ack_seq
        /\ DOMAIN e.unacked_list = e.expected_ack_seq..e.next_tx_seq - 1
        /\ IsSeq(e.pending_frames) /\ e.buffer_seq = e.expected_tx_seq
        /\ IsSeq(e.out) /\ \A i \in 1..Len(e.out) : Sendable(e, e.out[i])
    BY <1>3, Zenon DEF Good
  <2>2. n + 1 # kMaxTxWin
    BY <1>1, <1>3, Zenon
  <2>a. /\ n \in Int /\ 0 <= n /\ n <= 63 /\ e.expected_ack_seq \in Int /\ 0 <= e.expected_ack_seq
        /\ e.expected_ack_seq <= n /\ e.expected_tx_seq \in 0..63
    <3>1. Numbers(e)
      BY <2>1, Zenon
    <3> QED BY <3>1 DEF Numbers
  <2>3. n \in 0..62 /\ r.next_tx_seq = n + 1
    <3>1. r.next_tx_seq = (n + 1) % kMaxTxWin
      BY <1>1, Zenon
    <3> QED BY <2>a, <2>2, <3>1 DEF kMaxTxWin
  <2>4. r.expected_ack_seq = e.expected_ack_seq /\ r.expected_tx_seq = e.expected_tx_seq
        /\ r.buffer_seq = e.buffer_seq /\ r.pending_frames = e.pending_frames
    BY <1>1, Zenon DEF Same, Fields, Numbering
  <2>5. Numbers(r) /\ r.unacked_frames = r.next_tx_seq - r.expected_ack_seq
        /\ r.unacked_frames <= remote_tx_window_
    <3>1. /\ r.unacked_frames = e.unacked_frames + 1 /\ e.unacked_frames = n - e.expected_ack_seq
          /\ e.unacked_frames < remote_tx_window_ /\ remote_tx_window_ \in 1..63
      BY <1>1, <1>3, <2>1, ErtmAssumption, Zenon
    <3>2. r.next_tx_seq \in 0..63 /\ e.expected_ack_seq \in 0..r.next_tx_seq
      BY <2>a, <2>3
    <3>3. r.unacked_frames = r.next_tx_seq - e.expected_ack_seq /\ r.unacked_frames <= remote_tx_window_
      BY <2>a, <2>3, <3>1
    <3> QED BY <2>a, <2>4, <3>2, <3>3, Zenon DEF Numbers
  <2>6. n \notin DOMAIN e.unacked_list
    BY <2>1, <2>a
  <2>7. /\ DOMAIN list = DOMAIN e.unacked_list \cup {n} /\ list[n] = s
        /\ \A i \in DOMAIN e.unacked_list : list[i] = e.unacked_list[i]
    BY <2>6, Zenon DEF Emplace, Put
  <2> HIDE DEF list
  <2>8. DOMAIN r.unacked_list = r.expected_ack_seq..r.next_tx_seq - 1
    <3>1. DOMAIN r.unacked_list = (e.expected_ack_seq..n - 1) \cup {n}
      BY <1>1, <2>1, <2>7, Zenon
    <3>2. (e.expected_ack_seq..n - 1) \cup {n} = e.expected_ack_seq..n + 1 - 1
      BY <2>a
    <3> QED BY <2>3, <2>4, <3>1, <3>2
  <2>9. /\ IsSeq(r.out) /\ Len(e.out) \in Nat /\ Len(r.out) = Len(e.out) + 1
        /\ \A i \in 1..Len(e.out) : r.out[i] = e.out[i]
        /\ r.out[Len(e.out) + 1] = m
    BY <1>1, <2>1, Appended
  <2>10. Sendable(r, m)
    <3>1. n \in r.expected_ack_seq..r.next_tx_seq - 1
      BY <2>a, <2>3, <2>4
    <3> QED BY <1>1, <1>2, <2>1, <2>4, <2>7, <3>1, Zenon DEF Sendable, Carries
  <2>11. ASSUME NEW i \in 1..Len(e.out) PROVE Sendable(r, e.out[i])
    <3> DEFINE x == e.out[i]
    <3>1. Sendable(e, x)
      BY <2>1, Zenon
    <3> HIDE DEF x
    <3>2. CASE x.type # "I"
      BY <2>4, <3>1, <3>2, Zenon DEF Sendable, x
    <3>3. CASE x.type = "I"
      <4>1. x.tx_seq \in DOMAIN e.unacked_list /\ Carries(x, e.unacked_list[x.tx_seq])
        BY <2>1, <3>1, <3>3, Zenon DEF Sendable
      <4>2. Carries(x, r.unacked_list[x.tx_seq]) /\ x.tx_seq \in DOMAIN r.unacked_list
        BY <1>1, <2>7, <4>1, Zenon
      <4>3. x.req_seq = r.expected_tx_seq
        BY <2>4, <3>1, Zenon DEF Sendable
      <4> QED BY <2>8, <4>2, <4>3, Zenon DEF Sendable, x
    <3> QED BY <3>2, <3>3, Zenon
  <2>12. \A i \in 1..Len(r.out) : Sendable(r, r.out[i])
    BY <2>9, <2>10, <2>11, SMTT(30)
  <2>13. Good(r)
    BY <2>1, <2>4, <2>5, <2>8, <2>9, <2>12, Zenon DEF Good
  <2>14. \A i \in e.expected_ack_seq..e.next_tx_seq - 1 : r.unacked_list[i] = e.unacked_list[i]
    BY <1>1, <2>1, <2>7, Zenon
  <2> QED BY <1>1, <2>3, <2>7, <2>13, <2>14, Zenon
<1> QED BY <1>1, <1>3, Zenon DEF r

\* One turn of send_pending_i_frames.
LEMMA SendsPending ==
  ASSUME NEW e, DOMAIN e = Fields, NEW f
  PROVE  Sends(e, send_pending(e, f))
<1>1. CASE ~(rem_window_not_full(e) /\ e.pending_frames # << >>)
  <2>1. send_pending(e, f) = e
    BY <1>1, Zenon DEF send_pending
  <2>2. Same(e, e, Sending \cap Loose)
    BY Zenon DEF Same
  <2> QED BY <2>1, <2>2, SendsNothing, Zenon
<1>2. CASE rem_window_not_full(e) /\ e.pending_frames # << >>
  <2> DEFINE s == Head(e.pending_frames)
             c == send_data(e, s, f)
             r == [c EXCEPT !.pending_frames = Tail(@)]
             n == e.next_tx_seq
  <2>1. send_pending(e, f) = r
    BY <1>2, Zenon DEF send_pending
  <2>2. /\ Same(e, c, Numbering) /\ (e.lapped => c.lapped)
        /\ Good(e) /\ e.unacked_frames < remote_tx_window_ /\ ~c.lapped =>
             /\ Good(c) /\ c.next_tx_seq = e.next_tx_seq + 1 /\ c.unacked_list[e.next_tx_seq] = s
             /\ \A i \in e.expected_ack_seq..e.next_tx_seq - 1 : c.unacked_list[i] = e.unacked_list[i]
    BY DataIs, Zenon
  <2> HIDE DEF c
  <2>3. Same(c, r, {"pending_frames"}) /\ r.pending_frames = Tail(c.pending_frames)
    BY <2>2, Zenon DEF Same, Fields
  <2> HIDE DEF r
  <2>4. /\ r.next_tx_seq = c.next_tx_seq /\ r.expected_ack_seq = c.expected_ack_seq
        /\ r.unacked_frames = c.unacked_frames /\ r.unacked_list = c.unacked_list
        /\ r.expected_tx_seq = c.expected_tx_seq /\ r.buffer_seq = c.buffer_seq /\ r.out = c.out
        /\ r.lapped = c.lapped /\ r.closed_by = c.closed_by
    BY <2>3, Zenon DEF Same, Fields
  <2>5. c.pending_frames = e.pending_frames /\ c.closed_by = e.closed_by /\ c.expected_ack_seq = e.expected_ack_seq
    BY <2>2, Zenon DEF Same, Fields, Numbering
  <2>6. Same(e, r, Sending)
    BY <2>2, <2>3, Zenon DEF Same, Sending, Numbering
  <2>7. ASSUME Good(e), ~r.lapped PROVE Good(r) /\ Further(e, r)
    <3>1. e.unacked_frames < remote_tx_window_
      BY <1>2, Zenon DEF rem_window_not_full
    <3>2. /\ Good(c) /\ c.next_tx_seq = n + 1 /\ c.unacked_list[n] = s
          /\ \A i \in e.expected_ack_seq..n - 1 : c.unacked_list[i] = e.unacked_list[i]
      BY <2>2, <2>4, <2>7, <3>1, Zenon
    <3>3. Numbers(e) /\ IsSeq(e.pending_frames)
      BY <2>7, Zenon DEF Good
    <3>4. /\ IsSeq(r.pending_frames) /\ Len(e.pending_frames) \in Nat \ {0}
          /\ Len(r.pending_frames) = Len(e.pending_frames) - 1 /\ s = e.pending_frames[1]
          /\ \A i \in 1..Len(e.pending_frames) - 1 : r.pending_frames[i] = e.pending_frames[i + 1]
      BY <1>2, <2>3, <2>5, <3>3, Taken, ZenonT(60)
    <3>a. n \in Int /\ e.expected_ack_seq \in Int
      <4>1. Numbers(e)
        BY <3>3, Zenon
      <4> QED BY <4>1 DEF Numbers
    <3>b. Len(e.pending_frames) \in Int /\ Len(r.pending_frames) = Len(e.pending_frames) - 1
      BY <3>4
    <3> HIDE DEF s, n
    <3>5. Good(r)
      BY <2>4, <3>2, <3>4, ZenonT(60) DEF Good, Numbers, Sendable
    <3>6. Top(r) = Top(e) /\ r.next_tx_seq >= e.next_tx_seq
      <4>1. r.next_tx_seq = n + 1 /\ e.next_tx_seq = n
        BY <2>4, <3>2, Zenon DEF n
      <4> DEFINE a == Len(e.pending_frames)
                 b == Len(r.pending_frames)
                 y == r.next_tx_seq
      <4>2. /\ Top(r) = y + b /\ Top(e) = n + a /\ a \in Int /\ b = a - 1 /\ y = n + 1
            /\ e.next_tx_seq = n
        BY <3>b, <4>1, Zenon DEF Top
      <4> HIDE DEF a, b, y
      <4>3. y + b = n + a /\ y >= n
        BY <3>a, <4>2
      <4> QED BY <4>2, <4>3, Zenon DEF y
    <3>c. Top(e) = n + Len(e.pending_frames)
      BY Zenon DEF Top, n
    <3>7. ASSUME NEW i \in e.expected_ack_seq..Top(e) - 1 PROVE At(r, i) = At(e, i)
      <4>1. CASE i < n
        <5>1. i \in e.expected_ack_seq..n - 1 /\ i < n + 1
          BY <3>a, <4>1
        <5>2. At(r, i) = r.unacked_list[i]
          BY <2>4, <3>2, <5>1, Zenon DEF At
        <5>3. At(e, i) = e.unacked_list[i]
          BY <4>1, Zenon DEF At, n
        <5> QED BY <2>4, <3>2, <5>1, <5>2, <5>3, Zenon
      <4>2. CASE i = n
        <5>1. n \in Int
          BY <3>3 DEF Numbers, n
        <5>2. i < n + 1 /\ ~(i < n) /\ i - n + 1 = 1
          BY <4>2, <5>1
        <5>3. At(r, i) = r.unacked_list[n]
          BY <2>4, <3>2, <4>2, <5>2, Zenon DEF At
        <5>4. At(e, i) = e.pending_frames[1]
          BY <5>2, Zenon DEF At, n
        <5> QED BY <2>4, <3>2, <3>4, <5>3, <5>4, Zenon
      <4>3. CASE i > n
        <5>1. /\ ~(i < n + 1) /\ ~(i < n) /\ i - (n + 1) + 1 \in 1..Len(e.pending_frames) - 1
              /\ (i - (n + 1) + 1) + 1 = i - n + 1
          <6> DEFINE a == Len(e.pending_frames)
          <6>1. a \in Int /\ Top(e) = n + a
            BY <3>b, <3>c, Zenon
          <6> HIDE DEF a
          <6>2. /\ ~(i < n + 1) /\ ~(i < n) /\ i - (n + 1) + 1 \in 1..a - 1
                /\ (i - (n + 1) + 1) + 1 = i - n + 1
            BY <3>a, <4>3, <6>1
          <6> QED BY <6>2, Zenon DEF a
        <5>2. At(r, i) = r.pending_frames[i - (n + 1) + 1]
          BY <2>4, <3>2, <5>1, Zenon DEF At
        <5>3. At(e, i) = e.pending_frames[i - n + 1]
          BY <5>1, Zenon DEF At, n
        <5> QED BY <3>4, <5>1, <5>2, <5>3, Zenon
      <4> QED BY <3>a, <3>b, <4>1, <4>2, <4>3 DEF n, Top
    <3> QED BY <3>5, <3>6, <3>7, Zenon DEF Further
  <2>8. IsSeq(e.pending_frames) => IsSeq(r.pending_frames)
    BY <1>2, <2>3, <2>5, Taken, Zenon
  <2>9. Sends(e, r)
    BY <2>2, <2>4, <2>5, <2>6, <2>7, <2>8, Zenon DEF Sends
  <2> QED BY <2>1, <2>9, Zenon
<1> QED BY <1>1, <1>2, Zenon

\* The states of the loop of send_pending_i_frames.
Filled(e, f, n, g) ==
  g = [i \in 0..n |-> IF i = 0 THEN e ELSE send_pending(g[i - 1], f /\ i = 1)]

\* The loop of send_pending_i_frames has such states.
LEMMA FilledExists ==
  ASSUME NEW e, NEW f, NEW n \in Nat
  PROVE  \E g : Filled(e, f, n, g)
<1> DEFINE T == {k \in 0..n : \E g : Filled(e, f, k, g)}
<1>1. 0 \in T
  <2> DEFINE g == [i \in 0..0 |-> e]
  <2>1. Filled(e, f, 0, g)
    BY DEF Filled
  <2> QED BY <2>1
<1>2. ASSUME NEW k \in 0..n - 1, k \in T PROVE k + 1 \in T
  <2>1. PICK g : Filled(e, f, k, g)
    BY <1>2, Zenon
  <2> DEFINE h == [i \in 0..k + 1 |-> IF i <= k THEN g[i] ELSE send_pending(g[k], f /\ k + 1 = 1)]
             t == [i \in 0..k + 1 |-> IF i = 0 THEN e ELSE send_pending(h[i - 1], f /\ i = 1)]
  <2>2. \A i \in 0..k : g[i] = IF i = 0 THEN e ELSE send_pending(g[i - 1], f /\ i = 1)
    BY <2>1, Zenon DEF Filled
  <2>3. ASSUME NEW i \in 0..k + 1 PROVE h[i] = t[i]
    <3>1. CASE i = 0
      BY <2>2, <3>1
    <3>2. CASE i \in 1..k
      <4>1. g[i] = send_pending(g[i - 1], f /\ i = 1)
        BY <2>2, <3>2
      <4>2. h[i] = g[i] /\ h[i - 1] = g[i - 1]
        BY <3>2
      <4>3. i # 0
        BY <3>2
      <4> HIDE DEF h
      <4>4. t[i] = send_pending(h[i - 1], f /\ i = 1)
        BY <4>3, Zenon
      <4> QED BY <4>1, <4>2, <4>4, Zenon
    <3>3. CASE i = k + 1
      <4>1. h[i] = send_pending(g[k], f /\ k + 1 = 1) /\ h[i - 1] = g[k] /\ i # 0
        BY <3>3
      <4> HIDE DEF h
      <4>4. t[i] = send_pending(h[i - 1], f /\ i = 1)
        BY <4>1, Zenon
      <4> QED BY <3>3, <4>1, <4>4, Zenon
    <3> QED BY <3>1, <3>2, <3>3
  <2>4. h = t
    BY <2>3, Zenon
  <2>5. Filled(e, f, k + 1, h)
    BY <2>4, Zenon DEF Filled
  <2> QED BY <2>5
<1> HIDE DEF T
<1>3. n \in T
  BY <1>1, <1>2, Induction
<1> QED BY <1>3, Zenon DEF T

\* send_pending_i_frames.
LEMMA SendsAllPending ==
  ASSUME NEW e, DOMAIN e = Fields, IsSeq(e.pending_frames), NEW f
  PROVE  Sends(e, send_pending_i_frames(e, f))
<1> DEFINE room == remote_tx_window_ - e.unacked_frames
           n == IF room \in 0..Len(e.pending_frames) THEN room ELSE Len(e.pending_frames)
           g == CHOOSE h : Filled(e, f, n, h)
           T == {i \in 0..n : Sends(e, g[i])}
<1>1. n \in Nat
  <2> DEFINE l == Len(e.pending_frames)
  <2>1. l \in Nat
    BY DEF IsSeq
  <2> HIDE DEF l, room
  <2>2. (IF room \in 0..l THEN room ELSE l) \in Nat
    BY <2>1
  <2> QED BY <2>2, Zenon DEF l
<1>2. send_pending_i_frames(e, f) = IF e.tx_state = "WAIT_F" THEN e ELSE g[n]
  BY Zenon DEF send_pending_i_frames, Filled
<1>3. Filled(e, f, n, g)
  BY <1>1, FilledExists, Zenon
<1> HIDE DEF g, n
<1>4. \A i \in 0..n : g[i] = IF i = 0 THEN e ELSE send_pending(g[i - 1], f /\ i = 1)
  BY <1>3, Zenon DEF Filled
<1>5. Sends(e, e)
  <2>1. Same(e, e, Sending \cap Loose)
    BY Zenon DEF Same
  <2> QED BY <2>1, SendsNothing, Zenon
<1>6. 0 \in T
  <2>1. g[0] = e /\ 0 \in 0..n
    BY <1>1, <1>4
  <2> QED BY <1>5, <2>1, Zenon
<1>7. ASSUME NEW i \in 0..n - 1, i \in T PROVE i + 1 \in T
  <2>1. /\ i + 1 \in 0..n /\ g[i + 1] = send_pending(g[i], f /\ i + 1 = 1)
    <3>1. i + 1 \in 0..n /\ i + 1 # 0 /\ (i + 1) - 1 = i
      BY <1>1
    <3> QED BY <1>4, <3>1, Zenon
  <2>2. Sends(e, g[i])
    BY <1>7, Zenon
  <2>3. Sends(g[i], g[i + 1])
    <3>1. DOMAIN g[i] = Fields
      BY <2>2, Zenon DEF Sends, Same
    <3> QED BY <2>1, <3>1, SendsPending, Zenon
  <2> QED BY <2>1, <2>2, <2>3, SendsTwice, Zenon
<1> HIDE DEF T
<1>8. n \in T
  BY <1>1, <1>6, <1>7, Induction
<1>9. Sends(e, g[n])
  BY <1>8, Zenon DEF T
<1> QED BY <1>2, <1>5, <1>9, Zenon

\* A nonempty set of natural numbers has a least element.
LEMMA Least ==
  ASSUME NEW T \in SUBSET Nat, T # {}
  PROVE  \E i \in T : \A j \in T : i <= j
<1> DEFINE R == OpToRel(<, Nat)
<1>1. IsWellFoundedOn(R, Nat)
  BY NatLessThanWellFounded, Zenon
<1> HIDE DEF R
<1>2. PICK x \in T : \A y \in T : ~(<<y, x>> \in R)
  BY <1>1, WFMin, Zenon
<1>3. \A y \in T : ~(y < x)
  BY <1>2, Zenon DEF R, OpToRel
<1> QED BY <1>3

\* retransmit_i_frames, when it starts at the first frame that is not acknowledged.
LEMMA SendsAgain ==
  ASSUME NEW e, DOMAIN e = Fields, NEW q, Good(e) => q = e.expected_ack_seq, NEW p
  PROVE  Sends(e, retransmit_i_frames(e, q, p))
<1> DEFINE last  == CHOOSE i \in q..kMaxTxWin :
                      /\ i \notin DOMAIN e.unacked_list
                      /\ \A j \in q..(i - 1) : j \in DOMAIN e.unacked_list
           spent == {i \in q..(last - 1) : retries(e, i) = local_max_transmit_}
           upto  == IF spent = {} THEN last ELSE CHOOSE i \in spent : \A j \in spent : i <= j
           again == q..(upto - 1)
           Frame(i) == IFrame(e, e.unacked_list[i], e.unacked_list[i].payload, i, p /\ i = q)
           frames == [j \in 1..(upto - q) |-> Frame(q + j - 1)]
           counts == [i \in DOMAIN e.retry_i_frames \cup again |->
                        IF i \in again THEN retries(e, i) + 1 ELSE e.retry_i_frames[i]]
           e1 == [e EXCEPT !.out = @ \o frames, !.retry_i_frames = counts]
           e2 == IF spent # {} THEN CloseChannel(e1, "retries")
                 ELSE [e1 EXCEPT !.retrans_timer = @ \/ again # {}]
<1>1. retransmit_i_frames(e, q, p) = e2
  BY Zenon DEF retransmit_i_frames
<1> HIDE DEF frames, counts, spent, again
<1>2. Same(e, e1, {"out", "retry_i_frames"}) /\ e1.out = e.out \o frames
  BY Zenon DEF Same, Fields
<1> HIDE DEF e1
<1>3. Same(e1, e2, {"closed_by", "retrans_timer"})
      /\ ("protocol" \in e2.closed_by => "protocol" \in e1.closed_by)
  <2>1. DOMAIN e1 = Fields
    BY <1>2, Zenon DEF Same
  <2>2. CASE spent # {}
    <3>1. e2 = [e1 EXCEPT !.closed_by = @ \cup {"retries"}]
      BY <2>2, Zenon DEF CloseChannel
    <3>2. Same(e1, e2, {"closed_by", "retrans_timer"}) /\ e2.closed_by = e1.closed_by \cup {"retries"}
      BY <2>1, <3>1, Zenon DEF Same, Fields
    <3> HIDE DEF e2
    <3>3. "protocol" \in e2.closed_by => "protocol" \in e1.closed_by
      BY <3>2
    <3> QED BY <3>2, <3>3, Zenon
  <2>3. CASE spent = {}
    <3>1. e2 = [e1 EXCEPT !.retrans_timer = @ \/ again # {}]
      BY <2>3, Zenon
    <3> QED BY <2>1, <3>1, Zenon DEF Same, Fields
  <2> QED BY <2>2, <2>3, Zenon
<1> HIDE DEF e2
<1>4. Sends(e1, e2)
  <2>1. Same(e1, e2, Sending \cap Loose) /\ e2.lapped = e1.lapped
    BY <1>3, Zenon DEF Same, Sending, Loose, Fields
  <2> QED BY <1>3, <2>1, SendsNothing, Zenon
<1>5. /\ e1.next_tx_seq = e.next_tx_seq /\ e1.expected_ack_seq = e.expected_ack_seq
      /\ e1.unacked_frames = e.unacked_frames /\ e1.unacked_list = e.unacked_list
      /\ e1.pending_frames = e.pending_frames /\ e1.expected_tx_seq = e.expected_tx_seq
      /\ e1.buffer_seq = e.buffer_seq /\ e1.lapped = e.lapped /\ e1.closed_by = e.closed_by
      /\ Same(e, e1, Sending)
  BY <1>2, Zenon DEF Same, Fields, Sending
<1>6. ASSUME Good(e) PROVE Good(e1) /\ Further(e, e1)
  <2> DEFINE a == e.expected_ack_seq
             n == e.next_tx_seq
  <2>1. /\ Numbers(e) /\ q = a /\ DOMAIN e.unacked_list = a..n - 1 /\ e.buffer_seq = e.expected_tx_seq
        /\ IsSeq(e.out) /\ \A i \in 1..Len(e.out) : Sendable(e, e.out[i])
    BY <1>6, Zenon DEF Good
  <2>2. a \in 0..63 /\ n \in 0..63 /\ a <= n
    <3>1. Numbers(e)
      BY <2>1, Zenon
    <3> QED BY <3>1 DEF Numbers
  <2> HIDE DEF a, n, last
  <2>3. last \in a..64 /\ \A j \in a..(last - 1) : j \in a..n - 1
    <3>1. /\ n \in a..64 /\ n \notin a..n - 1 /\ \A j \in a..(n - 1) : j \in a..n - 1
      BY <2>2
    <3>2. kMaxTxWin = 64
      BY DEF kMaxTxWin
    <3> QED BY <2>1, <3>1, <3>2, Zenon DEF last
  <2>4. upto \in a..last
    <3>1. CASE spent = {}
      BY <2>2, <2>3, <3>1
    <3>2. CASE spent # {}
      <4>1. spent \in SUBSET Nat /\ \A i \in spent : i \in a..last
        BY <2>1, <2>2, <2>3 DEF spent
      <4>2. \E i \in spent : \A j \in spent : i <= j
        BY <3>2, <4>1, Least, Zenon
      <4>3. upto \in spent
        BY <3>2, <4>2, Zenon
      <4> QED BY <4>1, <4>3, Zenon
    <3> QED BY <3>1, <3>2, Zenon
  <2> HIDE DEF upto
  <2>5. upto - a \in Nat /\ \A j \in 1..upto - a : a + j - 1 \in a..n - 1
    BY <2>2, <2>3, <2>4
  <2>6. IsSeq(frames) /\ Len(frames) = upto - a /\ \A j \in 1..upto - a : frames[j] = Frame(a + j - 1)
    <3> DEFINE S == {frames[j] : j \in 1..upto - a}
    <3>1. /\ frames = [j \in 1..(upto - a) |-> Frame(a + j - 1)]
          /\ \A j \in 1..upto - a : frames[j] = Frame(a + j - 1)
      BY <2>1, Zenon DEF frames
    <3>2. DOMAIN frames = 1..upto - a /\ \A j \in 1..upto - a : frames[j] \in S
      BY <3>1, Zenon
    <3>3. frames = [j \in 1..(upto - a) |-> frames[j]]
      BY <3>1, Zenon
    <3> HIDE DEF S
    <3>4. frames \in [1..(upto - a) -> S]
      BY <3>2, <3>3, Zenon
    <3>5. frames \in Seq(S) /\ Len(frames) = upto - a
      BY <2>5, <3>4
    <3> QED BY <3>1, <3>5, Zenon DEF IsSeq
  <2>7. ASSUME NEW i \in a..n - 1 PROVE Sendable(e1, Frame(i))
    <3>1. /\ Frame(i).type = "I" /\ Frame(i).req_seq = e.buffer_seq /\ Frame(i).tx_seq = i
          /\ Carries(Frame(i), e.unacked_list[i])
      BY DEF IFrame, Carries
    <3> QED BY <1>5, <2>1, <3>1, Zenon DEF Sendable, a, n
  <2>8. /\ IsSeq(e1.out) /\ Len(e.out) \in Nat /\ Len(e1.out) = Len(e.out) + Len(frames)
        /\ \A i \in 1..Len(e.out) : e1.out[i] = e.out[i]
        /\ \A i \in 1..Len(frames) : e1.out[Len(e.out) + i] = frames[i]
    <3> DEFINE t == e.out \o frames
    <3>1. /\ IsSeq(t) /\ Len(e.out) \in Nat /\ Len(t) = Len(e.out) + Len(frames)
          /\ \A i \in 1..Len(e.out) : t[i] = e.out[i]
          /\ \A i \in 1..Len(frames) : t[Len(e.out) + i] = frames[i]
      <4>1. IsSeq(e.out) /\ IsSeq(frames)
        BY <2>1, <2>6, Zenon
      <4> QED BY ONLY <4>1, Joined
    <3>2. e1.out = t
      BY <1>2, Zenon
    <3> HIDE DEF t
    <3> QED BY <3>1, <3>2, Zenon
  <2>9. \A i \in 1..Len(e.out) : Sendable(e1, e1.out[i])
    BY <1>5, <2>1, <2>8, ZenonT(60) DEF Sendable
  <2>10. \A i \in 1..Len(frames) : Sendable(e1, e1.out[Len(e.out) + i])
    <3>1. \A i \in 1..Len(frames) : Sendable(e1, frames[i])
      BY <2>5, <2>6, <2>7, ZenonT(60)
    <3> QED BY <2>8, <3>1, Zenon
  <2>11. ASSUME NEW i \in 1..Len(e1.out) PROVE Sendable(e1, e1.out[i])
    <3> DEFINE l == Len(e.out)
               k == Len(frames)
    <3>1. l \in Nat /\ k \in Nat /\ Len(e1.out) = l + k
      BY <2>5, <2>6, <2>8, Zenon
    <3> HIDE DEF l, k
    <3>2. i \in 1..l \/ (i - l \in 1..k /\ i = l + (i - l))
      BY <3>1
    <3> QED BY <2>9, <2>10, <3>2, Zenon DEF l, k
  <2>12. Good(e1)
    BY <1>5, <1>6, <2>8, <2>11, Zenon DEF Good, Numbers
  <2>13. Top(e1) = Top(e) /\ \A i : At(e1, i) = At(e, i)
    BY <1>5, Zenon DEF Top, At
  <2>14. e1.next_tx_seq >= e.next_tx_seq
    BY <1>5, <2>2 DEF n
  <2> QED BY <2>12, <2>13, <2>14, Zenon DEF Further
<1>7. Sends(e, e1)
  BY <1>5, <1>6, Zenon DEF Sends
<1> QED BY <1>1, <1>4, <1>7, SendsTwice, Zenon

\* It stays one.
LEMMA SendsReady ==
  ASSUME NEW e, NEW r, Sends(e, r), Ready(e)
  PROVE  Ready(r)
BY Zenon DEF Ready, Sends, Same

\* Nothing done.
LEMMA SendsSame ==
  ASSUME NEW e, DOMAIN e = Fields
  PROVE  Sends(e, e)
<1>1. Same(e, e, Sending \cap Loose)
  BY Zenon DEF Same
<1> QED BY <1>1, SendsNothing, Zenon

\* send_rr, send_rnr and send_rr_or_rnr.
LEMMA SendsRr ==
  ASSUME NEW e, Ready(e), NEW p, NEW f
  PROVE  Sends(e, send_rr(e, p, f)) /\ Sends(e, send_rnr(e, f)) /\ Sends(e, send_rr_or_rnr(e, p, f))
<1>1. DOMAIN e = Fields
  BY Zenon DEF Ready
<1>2. Sends(e, send_rr(e, p, f))
  BY <1>1, SendsSFrame DEF send_rr
<1>3. Sends(e, send_rr_or_rnr(e, p, f))
  <2> DEFINE s == IF e.local_busy THEN "RNR" ELSE "RR"
  <2>1. s # "I"
    OBVIOUS
  <2>2. Good(e) => e.buffer_seq = e.expected_tx_seq
    BY Zenon DEF Good
  <2> HIDE DEF s
  <2>3. Sends(e, send_s_frame(e, s, e.buffer_seq, p, f))
    BY <1>1, <2>1, <2>2, SendsSFrame, Zenon
  <2> QED BY <2>3, Zenon DEF send_rr_or_rnr, s
<1>4. Sends(e, send_rnr(e, f))
  <2> DEFINE x == send_s_frame(e, "RNR", e.expected_tx_seq, FALSE, f)
             r == [x EXCEPT !.rnr_sent = TRUE]
  <2>1. Sends(e, x)
    BY <1>1, SendsSFrame, Zenon
  <2> HIDE DEF x
  <2>2. Same(x, r, Sending \cap Loose) /\ r.lapped = x.lapped /\ r.closed_by = x.closed_by
    BY <2>1, Zenon DEF Sends, Same, Fields, Sending, Loose
  <2> HIDE DEF r
  <2>3. Sends(x, r)
    BY <2>2, SendsNothing, Zenon
  <2>4. Sends(e, r)
    BY <2>1, <2>3, SendsTwice, Zenon
  <2> QED BY <2>4, Zenon DEF send_rnr, r, x
<1> QED BY <1>2, <1>3, <1>4, Zenon

\* remote_ready.
LEMMA SendsRemoteReady ==
  ASSUME NEW e, Ready(e)
  PROVE  Sends(e, remote_ready(e))
<1> DEFINE r == remote_ready(e)
<1>1. DOMAIN e = Fields
  BY Zenon DEF Ready
<1>2. Same(e, r, Sending \cap Loose) /\ r.lapped = e.lapped /\ r.closed_by = e.closed_by
  BY <1>1, Zenon DEF remote_ready, Same, Fields, Sending, Loose
<1> HIDE DEF r
<1>3. Sends(e, r)
  BY <1>2, SendsNothing, Zenon
<1> QED BY <1>3, Zenon DEF r

\* send_ack.
LEMMA SendsAck ==
  ASSUME NEW e, Ready(e)
  PROVE  Sends(e, send_ack(e))
<1>1. DOMAIN e = Fields /\ IsSeq(e.pending_frames)
  BY Zenon DEF Ready
<1>2. Sends(e, send_pending_i_frames(e, FALSE))
  BY <1>1, SendsAllPending, Zenon
<1>3. Sends(e, send_rr(e, FALSE, FALSE)) /\ Sends(e, send_rnr(e, FALSE))
  BY SendsRr, Zenon
<1> QED BY <1>2, <1>3, Zenon DEF send_ack

\* send_i_or_rr_or_rnr.
LEMMA SendsAnswer ==
  ASSUME NEW e, Ready(e)
  PROVE  Sends(e, send_i_or_rr_or_rnr(e))
<1> DEFINE a == IF e.local_busy THEN send_rnr(e, TRUE) ELSE e
           b == remote_ready(a)
           c == send_pending_i_frames(b, TRUE)
           d == IF e.local_busy THEN c ELSE send_rr(c, FALSE, TRUE)
<1>1. Sends(e, a)
  <2>1. Sends(e, e)
    BY SendsSame, Zenon DEF Ready
  <2>2. Sends(e, send_rnr(e, TRUE))
    BY SendsRr, Zenon
  <2> QED BY <2>1, <2>2, Zenon
<1>2. send_i_or_rr_or_rnr(e) = d
  BY Zenon DEF send_i_or_rr_or_rnr
<1> HIDE DEF a
<1>3. Ready(a)
  BY <1>1, SendsReady, Zenon
<1>4. Sends(a, b)
  BY <1>3, SendsRemoteReady, Zenon
<1> HIDE DEF b
<1>5. Ready(b)
  BY <1>3, <1>4, SendsReady, Zenon
<1>6. Sends(b, c)
  BY <1>5, SendsAllPending, Zenon DEF Ready
<1> HIDE DEF c
<1>7. Ready(c)
  BY <1>5, <1>6, SendsReady, Zenon
<1>8. Sends(c, d)
  <2>1. Sends(c, c)
    BY <1>7, SendsSame, Zenon DEF Ready
  <2>2. Sends(c, send_rr(c, FALSE, TRUE))
    BY <1>7, SendsRr, Zenon
  <2> QED BY <2>1, <2>2, Zenon
<1> HIDE DEF d
<1>9. Sends(e, b)
  BY <1>1, <1>4, SendsTwice, Zenon
<1>10. Sends(e, c)
  BY <1>6, <1>9, SendsTwice, Zenon
<1> QED BY <1>2, <1>8, <1>10, SendsTwice, Zenon

\* poll_answered, after the acknowledgement that came with the answer.
LEMMA SendsPolled ==
  ASSUME NEW e, Ready(e), NEW q, Good(e) => q = e.expected_ack_seq, NEW p
  PROVE  Sends(e, poll_answered(e, q, p))
<1> DEFINE r == [e EXCEPT !.rej_actioned = FALSE]
<1>1. DOMAIN e = Fields
  BY Zenon DEF Ready
<1>2. Same(e, r, Sending \cap Loose) /\ r.lapped = e.lapped /\ r.closed_by = e.closed_by
  BY <1>1, Zenon DEF Same, Fields, Sending, Loose
<1>3. poll_answered(e, q, p) = IF e.rej_actioned THEN r ELSE retransmit_i_frames(e, q, p)
  BY Zenon DEF poll_answered
<1> HIDE DEF r
<1>4. Sends(e, r)
  BY <1>2, SendsNothing, Zenon
<1>5. Sends(e, retransmit_i_frames(e, q, p))
  BY <1>1, SendsAgain, Zenon
<1> QED BY <1>3, <1>4, <1>5, Zenon
-----------------------------------------------------------------------------
\* The part of Good that is about what e sends.
Sender(e) ==
  /\ e.next_tx_seq \in 0..63 /\ e.expected_ack_seq \in 0..e.next_tx_seq
  /\ e.unacked_frames = e.next_tx_seq - e.expected_ack_seq /\ e.unacked_frames <= remote_tx_window_
  /\ DOMAIN e.unacked_list = e.expected_ack_seq..e.next_tx_seq - 1
  /\ IsSeq(e.pending_frames)

\* The other part, for a controller that has sent nothing in this step.
LEMMA GoodSender ==
  ASSUME NEW e
  PROVE  /\ Good(e) => Sender(e)
         /\ Sender(e) /\ e.expected_tx_seq \in 0..63 /\ e.buffer_seq = e.expected_tx_seq /\ e.out = << >> => Good(e)
<1>1. Good(e) => Sender(e)
  BY Zenon DEF Good, Sender, Numbers
<1>2. ASSUME e.out = << >> PROVE IsSeq(e.out) /\ \A i \in 1..Len(e.out) : Sendable(e, e.out[i])
  <2>1. << >> \in Seq({}) /\ Len(<< >>) = 0
    OBVIOUS
  <2>2. 1..0 = {}
    OBVIOUS
  <2> QED BY <1>2, <2>1, <2>2, Zenon DEF IsSeq
<1> QED BY <1>1, <1>2, Zenon DEF Good, Sender, Numbers

\* Segments were acknowledged or got a number; the others are the same in r.
Moved(e, r) ==
  /\ r.next_tx_seq >= e.next_tx_seq /\ r.expected_ack_seq >= e.expected_ack_seq /\ Top(r) = Top(e)
  /\ \A i \in r.expected_ack_seq..Top(e) - 1 : At(r, i) = At(e, i)

\* The fields that pass_to_tx changes.
Acknowledging ==
  {"unacked_list", "retry_i_frames", "unacked_frames", "expected_ack_seq", "retrans_timer",
   "monitor_timer", "tx_state"}

\* pass_to_tx removes the frames before req_seq from unacked_list_ and no other.
LEMMA Passes ==
  ASSUME NEW e, DOMAIN e = Fields, NEW q, NEW f
  PROVE  LET r == pass_to_tx(e, q, f)
         IN /\ Same(e, r, Acknowledging) /\ r.expected_ack_seq = q /\ r.tx_state \in {e.tx_state, "XMIT"}
            /\ Sender(e) /\ q \in e.expected_ack_seq..e.next_tx_seq => Sender(r) /\ Moved(e, r)
<1> DEFINE acked   == e.expected_ack_seq..(q - 1)
           unacked == e.unacked_frames - ((q - e.expected_ack_seq + kMaxTxWin) % kMaxTxWin)
           list == [i \in DOMAIN e.unacked_list \ acked |-> e.unacked_list[i]]
           x == process_req_seq(e, q)
           r == pass_to_tx(e, q, f)
           n == e.next_tx_seq
           a == e.expected_ack_seq
<1>1. /\ Same(e, x, {"unacked_list", "retry_i_frames", "unacked_frames", "expected_ack_seq", "retrans_timer"})
      /\ x.unacked_list = list /\ x.unacked_frames = unacked /\ x.expected_ack_seq = q
  BY Zenon DEF process_req_seq, Same, Fields
<1>2. r = IF e.tx_state = "WAIT_F" /\ f
          THEN [x EXCEPT !.monitor_timer = FALSE, !.tx_state = "XMIT",
                         !.retrans_timer = @ \/ x.unacked_frames > 0]
          ELSE x
  BY Zenon DEF pass_to_tx
<1> HIDE DEF x, r
<1>3. Same(x, r, {"monitor_timer", "tx_state", "retrans_timer"})
  <2>1. DOMAIN x = Fields
    BY <1>1, Zenon DEF Same
  <2> QED BY <1>2, <2>1, Zenon DEF Same, Fields
<1>4. Same(e, r, Acknowledging) /\ r.tx_state \in {e.tx_state, "XMIT"}
  <2>1. DOMAIN x = Fields /\ x.tx_state = e.tx_state
    BY <1>1, Zenon DEF Same, Fields
  <2>2. r.tx_state \in {x.tx_state, "XMIT"}
    BY <1>2, <2>1, Zenon DEF Fields
  <2> QED BY <1>1, <1>3, <2>1, <2>2, Zenon DEF Same, Acknowledging
<1>5. r.unacked_list = list /\ r.unacked_frames = unacked /\ r.expected_ack_seq = q
      /\ r.next_tx_seq = n /\ r.pending_frames = e.pending_frames
  BY <1>1, <1>3, Zenon DEF Same, Fields
<1>6. ASSUME Sender(e), q \in a..n PROVE Sender(r) /\ Moved(e, r)
  <2>1. n \in 0..63 /\ a \in 0..n /\ e.unacked_frames = n - a /\ e.unacked_frames <= remote_tx_window_
    BY <1>6, Zenon DEF Sender
  <2>2. DOMAIN e.unacked_list = a..n - 1 /\ IsSeq(e.pending_frames)
    BY <1>6, Zenon DEF Sender
  <2>3. q \in 0..n /\ q \in Int /\ q <= n /\ a <= q
    BY <1>6, <2>1
  <2>4. unacked = n - q /\ unacked <= remote_tx_window_
    <3>0. e.unacked_frames = n - a /\ n - a <= remote_tx_window_ /\ remote_tx_window_ \in 1..63
      BY <2>1, ErtmAssumption, Zenon
    <3>1. q - a \in 0..63 /\ n - a \in Int
      BY <2>1, <2>3, SMTT(30)
    <3>2. (q - a + 64) % 64 = q - a
      BY <3>1
    <3>3. unacked = n - a - (q - a)
      BY <3>0, <3>2, Zenon DEF kMaxTxWin
    <3> HIDE DEF unacked, n, a
    <3> QED BY <2>1, <2>3, <3>0, <3>3
  <2>5. (a..n - 1) \ (a..q - 1) = q..n - 1
    BY <2>1, <2>3
  <2>6. DOMAIN list = q..n - 1 /\ \A i \in q..n - 1 : list[i] = e.unacked_list[i]
    BY <2>2, <2>5, Zenon
  <2> HIDE DEF list, unacked
  <2>7. Sender(r)
    BY <1>5, <2>1, <2>2, <2>3, <2>4, <2>6, Zenon DEF Sender
  <2>8. Top(r) = Top(e)
    BY <1>5, Zenon DEF Top
  <2>9. ASSUME NEW i \in q..Top(e) - 1 PROVE At(r, i) = At(e, i)
    <3>1. CASE i < n
      <4>1. i \in q..n - 1
        BY <2>1, <2>3, <3>1
      <4> QED BY <1>5, <2>6, <3>1, <4>1, Zenon DEF At
    <3>2. CASE ~(i < n)
      BY <1>5, <3>2, Zenon DEF At
    <3> QED BY <3>1, <3>2, Zenon
  <2>10. n >= n /\ q >= a
    BY <2>1, <2>3
  <2> QED BY <1>5, <2>7, <2>8, <2>9, <2>10, Zenon DEF Moved
<1> QED BY <1>4, <1>5, <1>6, Zenon DEF r
-----------------------------------------------------------------------------
\* One segment more.
LEMMA WholeNext ==
  ASSUME NEW k, NEW j \in Nat
  PROVE  /\ IsSeq(Whole(k, j)) /\ Len(Whole(k, j)) = j
         /\ Append(Whole(k, j), <<k, j + 1>>) = Whole(k, j + 1) /\ << <<k, 1>> >> = Whole(k, 1)
<1> DEFINE T == {<<k, i>> : i \in Nat}
           w == Whole(k, j)
           v == Whole(k, j + 1)
           u == Whole(k, 1)
<1>1. w \in [1..j -> T] /\ v \in [1..j + 1 -> T] /\ u \in [1..1 -> T]
  BY DEF Whole
<1>2. w \in Seq(T) /\ Len(w) = j /\ v \in Seq(T) /\ Len(v) = j + 1 /\ u \in Seq(T) /\ Len(u) = 1
  <2>1. ASSUME NEW l \in Nat, NEW f \in [1..l -> T] PROVE f \in Seq(T) /\ Len(f) = l
    <3> HIDE DEF T
    <3> QED OBVIOUS
  <2> HIDE DEF w, v, u, T
  <2>2. j + 1 \in Nat /\ 1 \in Nat
    OBVIOUS
  <2> QED BY <1>1, <2>1, <2>2, Zenon
<1>3. <<k, j + 1>> \in T /\ <<k, 1>> \in T
  OBVIOUS
<1>4. /\ \A i \in 1..j : w[i] = <<k, i>>
      /\ \A i \in 1..j + 1 : v[i] = <<k, i>>
      /\ u[1] = <<k, 1>>
  BY DEF Whole
<1> DEFINE y == <<k, j + 1>>
           z == <<k, 1>>
<1>5. /\ \A i \in 1..j : v[i] = w[i]
      /\ v[j + 1] = y /\ u[1] = z /\ y \in T /\ z \in T
  BY <1>3, <1>4
<1> HIDE DEF w, v, u, T, y, z
<1>6. Append(w, y) = v
  <2>1. Append(w, y) \in Seq(T) /\ Len(Append(w, y)) = j + 1
    BY <1>2, <1>5
  <2>2. \A i \in 1..j + 1 : Append(w, y)[i] = v[i]
    BY <1>2, <1>5
  <2> QED BY <1>2, <2>1, <2>2
<1>7. <<z>> = u
  <2>1. <<z>> \in Seq(T) /\ Len(<<z>>) = 1 /\ <<z>>[1] = z
    BY <1>5
  <2> QED BY <1>2, <1>5, <2>1
<1> QED BY <1>2, <1>6, <1>7, Zenon DEF IsSeq, w, v, u, y, z

\* EnqueueBuffer::Enqueue, with the busy threshold of data_indication.
LEMMA EnqueuesSdu ==
  ASSUME NEW e, DOMAIN e = Fields, NEW x
  PROVE  LET r == EnqueueSdu(e, x)
         IN /\ Same(e, r, {"enqueue_buffer", "local_busy", "on_empty"})
            /\ r.enqueue_buffer = Append(e.enqueue_buffer, x)
            /\ e.on_empty = 0 => r.on_empty \in {0, 1} /\ (r.on_empty = 1 => r.local_busy)
<1> DEFINE buffer == Append(e.enqueue_buffer, x)
           full == Len(buffer) = kEnqueueBufferBusyThreshold
           r == EnqueueSdu(e, x)
<1>1. /\ Same(e, r, {"enqueue_buffer", "local_busy", "on_empty"}) /\ r.enqueue_buffer = buffer
      /\ r.local_busy = (e.local_busy \/ full) /\ r.on_empty = IF full THEN e.on_empty + 1 ELSE e.on_empty
  BY Zenon DEF EnqueueSdu, Same, Fields
<1>2. ASSUME e.on_empty = 0 PROVE r.on_empty \in {0, 1} /\ (r.on_empty = 1 => r.local_busy)
  <2> HIDE DEF r, full
  <2>1. CASE full
    <3>1. r.on_empty = 1 /\ r.local_busy
      <4>1. r.on_empty = 0 + 1 /\ r.local_busy
        BY <1>1, <1>2, <2>1, Zenon
      <4> QED BY <4>1
    <3> QED BY <3>1, Zenon
  <2>2. CASE ~full
    <3>1. r.on_empty = 0
      BY <1>1, <1>2, <2>2, Zenon
    <3> QED BY <3>1
  <2> QED BY <2>1, <2>2, Zenon
<1> QED BY <1>1, <1>2, Zenon

\* The fields that stage_for_reassembly changes.
Staging ==
  {"enqueue_buffer", "local_busy", "on_empty", "sar_state", "reassembly_stage", "remaining", "closed_by"}

\* stage_for_reassembly changes them and no other; on_empty_ is set at most once.
LEMMA Stages ==
  ASSUME NEW e, DOMAIN e = Fields, NEW m
  PROVE  LET r == stage_for_reassembly(e, m)
         IN /\ Same(e, r, Staging)
            /\ e.on_empty = 0 => r.on_empty \in {0, 1} /\ (r.on_empty = 1 => r.local_busy)
<1> DEFINE first == m.sar \in {"UNSEGMENTED", "START"}
           rest  == uint16(e.remaining - 1)
           whole == Append(e.reassembly_stage, m.payload)
           left  == uint16(m.sdu_size - 1)
           Fit(r) == /\ Same(e, r, Staging)
                     /\ e.on_empty = 0 => r.on_empty \in {0, 1} /\ (r.on_empty = 1 => r.local_busy)
           a == CloseChannel(e, "protocol")
           b == EnqueueSdu(e, <<m.payload>>)
           c == [e EXCEPT !.sar_state = "START", !.reassembly_stage = <<m.payload>>,
                          !.remaining = left]
           g == [e EXCEPT !.reassembly_stage = whole, !.remaining = rest]
           h == [e EXCEPT !.sar_state = "END", !.reassembly_stage = whole, !.remaining = 0]
           i == EnqueueSdu(h, whole)
           y == [e EXCEPT !.sar_state = "END", !.reassembly_stage = << >>, !.remaining = 0]
           j == CloseChannel(y, "protocol")
<1>0. e.on_empty = 0 => e.on_empty \in {0, 1} /\ (e.on_empty = 1 => e.local_busy)
  OBVIOUS
<1>a. ASSUME NEW r, Same(e, r, Staging), r.on_empty = e.on_empty, r.local_busy = e.local_busy
      PROVE  Fit(r)
  BY <1>0, <1>a, Zenon
<1>1. Fit(a) /\ Fit(c) /\ Fit(g)
  <2>1. Same(e, a, Staging) /\ a.on_empty = e.on_empty /\ a.local_busy = e.local_busy
    BY Zenon DEF CloseChannel, Same, Staging, Fields
  <2> HIDE DEF rest, whole, left
  <2>2. /\ Same(e, c, {"sar_state", "reassembly_stage", "remaining"})
        /\ Same(e, g, {"sar_state", "reassembly_stage", "remaining"})
    <3>1. Same(e, c, {"sar_state", "reassembly_stage", "remaining"})
      BY Zenon DEF Same, Fields
    <3>2. Same(e, g, {"sar_state", "reassembly_stage", "remaining"})
      BY Zenon DEF Same, Fields
    <3> QED BY <3>1, <3>2, Zenon
  <2> HIDE DEF a, c, g
  <2>3. ASSUME NEW r, Same(e, r, {"sar_state", "reassembly_stage", "remaining"}) PROVE Fit(r)
    <3>1. Same(e, r, Staging) /\ r.on_empty = e.on_empty /\ r.local_busy = e.local_busy
      BY <2>3, Zenon DEF Same, Staging, Fields
    <3> QED BY <1>a, <3>1, Zenon
  <2> HIDE DEF Fit
  <2> QED BY <1>a, <2>1, <2>2, <2>3, Zenon
<1>2. Fit(b)
  <2>1. /\ Same(e, b, {"enqueue_buffer", "local_busy", "on_empty"})
        /\ e.on_empty = 0 => b.on_empty \in {0, 1} /\ (b.on_empty = 1 => b.local_busy)
    BY EnqueuesSdu, Zenon
  <2> HIDE DEF b
  <2> QED BY <2>1, Zenon DEF Same, Staging
<1>3. Fit(i)
  <2>1. Same(e, h, {"sar_state", "reassembly_stage", "remaining"})
    BY Zenon DEF Same, Fields
  <2> HIDE DEF h
  <2>2. h.on_empty = e.on_empty /\ DOMAIN h = Fields
    BY <2>1, Zenon DEF Same, Fields
  <2>3. /\ Same(h, i, {"enqueue_buffer", "local_busy", "on_empty"})
        /\ h.on_empty = 0 => i.on_empty \in {0, 1} /\ (i.on_empty = 1 => i.local_busy)
    BY <2>2, EnqueuesSdu, Zenon
  <2> HIDE DEF i
  <2> QED BY <2>1, <2>2, <2>3, Zenon DEF Same, Staging
<1>4. Fit(j)
  <2>1. Same(e, j, Staging) /\ j.on_empty = e.on_empty /\ j.local_busy = e.local_busy
    BY Zenon DEF CloseChannel, Same, Staging, Fields
  <2> HIDE DEF j, Fit
  <2> QED BY <1>a, <2>1, Zenon
<1>5. stage_for_reassembly(e, m) =
        IF first # (e.sar_state = "END") THEN a
        ELSE IF m.sar = "UNSEGMENTED" THEN b
        ELSE IF m.sar = "START" THEN c
        ELSE IF m.sar = "CONTINUATION" THEN g
        ELSE IF rest = 0 THEN i ELSE j
  BY DEF stage_for_reassembly
<1> HIDE DEF first, rest, a, b, c, g, i, j, Fit
<1>6. \E r \in {a, b, c, g, i, j} : stage_for_reassembly(e, m) = r
  BY <1>5, Zenon
<1>7. Fit(stage_for_reassembly(e, m))
  BY <1>1, <1>2, <1>3, <1>4, <1>6, Zenon
<1> QED BY <1>7, Zenon DEF Fit

\* An SDU is whole and enters the queue.
LEMMA SduWhole ==
  ASSUME NEW e, NEW d, NEW S, Received(e, d, S), NEW r, NEW k, k = Number(e, d),
         r.enqueue_buffer = Append(e.enqueue_buffer, Whole(k, S[k])), r.sar_state = "END"
  PROVE  Received(r, d, S) /\ Want(r, d) = <<k + 1, 1>>
<1> DEFINE q == e.enqueue_buffer
           t == r.enqueue_buffer
           w == Whole(k, S[k])
           l == Len(q)
<1>1. /\ IsSeq(d) /\ IsSeq(q) /\ \A i \in 1..Len(d) : d[i] = Whole(i, S[i])
      /\ \A i \in 1..Len(q) : q[i] = Whole(Len(d) + i, S[Len(d) + i])
  BY Zenon DEF Received
<1>2. Len(d) \in Nat
  BY <1>1 DEF IsSeq
<1>3. t = Append(q, w)
  BY Zenon
<1> HIDE DEF q, t, w
<1>4. /\ IsSeq(t) /\ Len(q) \in Nat /\ Len(t) = Len(q) + 1
      /\ \A i \in 1..Len(q) : t[i] = q[i]
      /\ t[Len(q) + 1] = w
  BY <1>1, <1>3, Appended
<1>5. k = Len(d) + l + 1
  BY Zenon DEF Number, q
<1>6. Len(d) + (l + 1) = k /\ Len(d) + (l + 1) + 1 = k + 1
  BY <1>2, <1>4, <1>5
<1>7. ASSUME NEW i \in 1..Len(t) PROVE t[i] = Whole(Len(d) + i, S[Len(d) + i])
  <2>1. CASE i \in 1..l
    BY <1>1, <1>4, <2>1, Zenon
  <2>2. CASE i = l + 1
    BY <1>4, <1>6, <2>2, Zenon DEF w
  <2>3. i \in 1..l + 1 /\ l \in Nat
    BY <1>4, Zenon
  <2>4. i \in 1..l \/ i = l + 1
    BY <2>3
  <2> QED BY <2>1, <2>2, <2>4, Zenon
<1>8. Received(r, d, S)
  BY <1>1, <1>4, <1>7, Zenon DEF Received, t
<1>9. Number(r, d) = k + 1
  BY <1>4, <1>6, Zenon DEF Number, t
<1> QED BY <1>8, <1>9, Zenon DEF Want

\* One less remains.
LEMMA OneLess ==
  ASSUME NEW n \in Int
  PROVE  uint16(uint16(n) - 1) = uint16(n - 1)
BY DEF uint16

\* stage_for_reassembly of the segment e waits for: what was received stays right, and e waits
\* for the one after.
LEMMA StageTakes ==
  ASSUME NEW e, DOMAIN e = Fields, NEW S \in Seq(Nat \ {0}), NEW d, Received(e, d, S),
         NEW k \in 1..Len(S), NEW j \in 1..S[k], NEW m, Carries(m, Segment(k, S[k], j)),
         Want(e, d) = <<k, j>>
  PROVE  LET r == stage_for_reassembly(e, m)
         IN  Received(r, d, S) /\ Want(r, d) = After(S, <<k, j>>) /\ r.closed_by = e.closed_by
<1> DEFINE s == S[k]
           first == m.sar \in {"UNSEGMENTED", "START"}
           rest  == uint16(e.remaining - 1)
           whole == Append(e.reassembly_stage, m.payload)
           left  == uint16(m.sdu_size - 1)
           b == EnqueueSdu(e, <<m.payload>>)
           c == [e EXCEPT !.sar_state = "START", !.reassembly_stage = <<m.payload>>, !.remaining = left]
           g == [e EXCEPT !.reassembly_stage = whole, !.remaining = rest]
           h == [e EXCEPT !.sar_state = "END", !.reassembly_stage = whole, !.remaining = 0]
           o == EnqueueSdu(h, whole)
           y == [e EXCEPT !.sar_state = "END", !.reassembly_stage = << >>, !.remaining = 0]
           r == stage_for_reassembly(e, m)
<1>1. s \in Nat \ {0} /\ j \in 1..s /\ k \in Nat
  OBVIOUS
<1>2. r = IF first # (e.sar_state = "END") THEN CloseChannel(e, "protocol")
          ELSE IF m.sar = "UNSEGMENTED" THEN b
          ELSE IF m.sar = "START" THEN c
          ELSE IF m.sar = "CONTINUATION" THEN g
          ELSE IF rest = 0 THEN o ELSE CloseChannel(y, "protocol")
  BY DEF stage_for_reassembly
<1> HIDE DEF r, s, first, rest, whole, left
<1>3. /\ m.sar = IF s = 1 THEN "UNSEGMENTED" ELSE IF j = 1 THEN "START"
                 ELSE IF j = s THEN "END" ELSE "CONTINUATION"
      /\ m.sdu_size = IF j = 1 /\ s > 1 THEN s ELSE 0
      /\ m.payload = <<k, j>>
  BY DEF Carries, Segment, s
<1>4. /\ IsSeq(d) /\ IsSeq(e.enqueue_buffer)
      /\ \A i \in 1..Len(d) : d[i] = Whole(i, S[i])
      /\ \A i \in 1..Len(e.enqueue_buffer) : e.enqueue_buffer[i] = Whole(Len(d) + i, S[Len(d) + i])
  BY Zenon DEF Received
<1>5. Number(e, d) = k
  BY DEF Want
<1>6. e.sar_state = "END" => j = 1
  BY DEF Want
<1>7. ASSUME e.sar_state # "END"
      PROVE  /\ j = Len(e.reassembly_stage) + 1 /\ j \in 2..s /\ e.reassembly_stage = Whole(k, j - 1)
             /\ e.remaining = uint16(s - (j - 1))
  <2> DEFINE l == Len(e.reassembly_stage)
  <2>1. j = l + 1
    BY <1>7 DEF Want
  <2>2. l \in 1..s - 1 /\ e.reassembly_stage = Whole(k, l) /\ e.remaining = uint16(s - l)
    BY <1>5, <1>7, Zenon DEF Received, s
  <2> HIDE DEF l
  <2>3. j - 1 = l /\ j \in 2..s
    BY <1>1, <2>1, <2>2
  <2> QED BY <2>1, <2>2, <2>3, Zenon DEF l
<1>8. CASE j = s /\ s = 1
  <2>1. e.sar_state = "END"
    BY <1>7, <1>8
  <2>2. m.sar = "UNSEGMENTED" /\ first
    BY <1>3, <1>8, Zenon DEF first
  <2>3. r = b
    BY <1>2, <2>1, <2>2, Zenon
  <2>4. <<m.payload>> = Whole(k, s)
    <3>1. << <<k, 1>> >> = Whole(k, 1)
      BY <1>1, WholeNext
    <3> QED BY <1>3, <1>8, <3>1, Zenon
  <2>5. /\ Same(e, r, {"enqueue_buffer", "local_busy", "on_empty"})
        /\ r.enqueue_buffer = Append(e.enqueue_buffer, Whole(k, s))
    BY <2>3, <2>4, EnqueuesSdu, Zenon
  <2>6. r.sar_state = "END" /\ r.closed_by = e.closed_by
    BY <2>1, <2>5, Zenon DEF Same, Fields
  <2>7. Received(r, d, S) /\ Want(r, d) = <<k + 1, 1>>
    BY <1>5, <2>5, <2>6, SduWhole, ZenonT(60) DEF s
  <2>8. After(S, <<k, j>>) = <<k + 1, 1>>
    BY <1>1, <1>8 DEF After, s
  <2> QED BY <2>6, <2>7, <2>8, Zenon DEF r
<1>9. CASE j = 1 /\ s > 1
  <2>1. e.sar_state = "END"
    BY <1>7, <1>9
  <2>2. m.sar = "START" /\ m.sdu_size = s
    BY <1>3, <1>9
  <2>3. first
    BY <2>2, Zenon DEF first
  <2>4. r = c
    <3>1. m.sar # "UNSEGMENTED"
      BY <2>2
    <3> QED BY <1>2, <2>1, <2>2, <2>3, <3>1, Zenon
  <2>5. /\ Same(e, r, {"sar_state", "reassembly_stage", "remaining"}) /\ r.sar_state = "START"
        /\ r.reassembly_stage = <<m.payload>> /\ r.remaining = left
    BY <2>4, Zenon DEF Same, Fields
  <2>6. r.enqueue_buffer = e.enqueue_buffer /\ r.closed_by = e.closed_by
    BY <2>5, Zenon DEF Same, Fields
  <2>7. << <<k, 1>> >> = Whole(k, 1) /\ Len(Whole(k, 1)) = 1
    BY <1>1, WholeNext
  <2>8. r.reassembly_stage = Whole(k, 1) /\ Len(r.reassembly_stage) = 1
    BY <1>3, <1>9, <2>5, <2>7, Zenon
  <2>9. r.remaining = uint16(s - 1) /\ Number(r, d) = k /\ r.sar_state # "END"
    <3>1. "START" # "END"
      OBVIOUS
    <3> QED BY <1>5, <2>2, <2>5, <2>6, <3>1, Zenon DEF Number, left
  <2>10. 1 \in 1..s - 1 /\ k \in 1..Len(S)
    BY <1>1, <1>9
  <2>11. Received(r, d, S)
    BY <1>4, <2>6, <2>8, <2>9, <2>10, Zenon DEF Received, s
  <2>12. Want(r, d) = <<k, 1 + 1>>
    BY <2>8, <2>9, Zenon DEF Want
  <2>13. After(S, <<k, j>>) = <<k, 1 + 1>>
    BY <1>1, <1>9 DEF After, s
  <2> QED BY <2>6, <2>11, <2>12, <2>13, Zenon DEF r
<1>a. ASSUME j \in 2..s
      PROVE  /\ e.sar_state # "END" /\ e.reassembly_stage = Whole(k, j - 1) /\ ~first
             /\ rest = uint16(s - j) /\ whole = Whole(k, j) /\ Len(whole) = j
  <2>1. e.sar_state # "END"
    BY <1>6, <1>a
  <2>2. e.reassembly_stage = Whole(k, j - 1) /\ e.remaining = uint16(s - (j - 1))
    BY <1>7, <2>1, Zenon
  <2>3. ~first
    BY <1>1, <1>3, <1>a DEF first
  <2>4. rest = uint16(s - j)
    <3>1. s - (j - 1) \in Int /\ s - (j - 1) - 1 = s - j
      BY <1>1
    <3> QED BY <2>2, <3>1, OneLess, Zenon DEF rest
  <2>5. j - 1 \in Nat /\ j \in Nat /\ (j - 1) + 1 = j
    BY <1>1
  <2>6. whole = Whole(k, j) /\ Len(Whole(k, j)) = j
    BY <1>3, <2>2, <2>5, WholeNext, Zenon DEF whole
  <2> QED BY <2>1, <2>2, <2>3, <2>4, <2>6, Zenon
<1>10. CASE j \in 2..s /\ j < s
  <2>1. m.sar = "CONTINUATION"
    BY <1>1, <1>3, <1>10
  <2>2. /\ e.sar_state # "END" /\ ~first /\ rest = uint16(s - j) /\ whole = Whole(k, j) /\ Len(whole) = j
    BY <1>10, <1>a, Zenon
  <2>3. r = g
    <3>1. m.sar # "UNSEGMENTED" /\ m.sar # "START"
      BY <2>1
    <3>2. ~(first # (e.sar_state = "END"))
      BY <2>2 DEF first
    <3> QED BY <1>2, <2>1, <3>1, <3>2, Zenon
  <2>4. /\ Same(e, r, {"reassembly_stage", "remaining"})
        /\ r.reassembly_stage = whole /\ r.remaining = rest
    BY <2>3, Zenon DEF Same, Fields
  <2>5. r.enqueue_buffer = e.enqueue_buffer /\ r.closed_by = e.closed_by /\ r.sar_state = e.sar_state
    BY <2>4, Zenon DEF Same, Fields
  <2>6. Number(r, d) = k
    BY <1>5, <2>5, Zenon DEF Number
  <2>7. j \in 1..s - 1
    BY <1>1, <1>10
  <2>8. Received(r, d, S)
    BY <1>4, <2>2, <2>4, <2>5, <2>6, <2>7, Zenon DEF Received, s
  <2>9. Want(r, d) = <<k, j + 1>>
    BY <2>2, <2>4, <2>5, <2>6, Zenon DEF Want
  <2>10. After(S, <<k, j>>) = <<k, j + 1>>
    BY <1>1, <1>10 DEF After, s
  <2> QED BY <2>5, <2>8, <2>9, <2>10, Zenon DEF r
<1>11. CASE j \in 2..s /\ j = s
  <2>1. m.sar = "END"
    BY <1>1, <1>3, <1>11
  <2>2. /\ e.sar_state # "END" /\ ~first /\ rest = uint16(s - j) /\ whole = Whole(k, j)
    BY <1>11, <1>a, Zenon
  <2>3. rest = 0
    BY <1>1, <1>11, <2>2 DEF uint16
  <2>4. r = o
    <3>1. m.sar # "UNSEGMENTED" /\ m.sar # "START" /\ m.sar # "CONTINUATION"
      BY <2>1
    <3>2. ~(first # (e.sar_state = "END"))
      BY <2>2 DEF first
    <3> QED BY <1>2, <2>3, <3>1, <3>2, Zenon
  <2>5. Same(e, h, {"sar_state", "reassembly_stage", "remaining"}) /\ h.sar_state = "END"
    BY Zenon DEF Same, Fields
  <2> HIDE DEF h
  <2>6. h.enqueue_buffer = e.enqueue_buffer /\ h.closed_by = e.closed_by /\ DOMAIN h = Fields
    BY <2>5, Zenon DEF Same, Fields
  <2>7. /\ Same(h, r, {"enqueue_buffer", "local_busy", "on_empty"})
        /\ r.enqueue_buffer = Append(h.enqueue_buffer, whole)
    BY <2>4, <2>6, EnqueuesSdu, Zenon
  <2>8. /\ r.sar_state = "END" /\ r.closed_by = e.closed_by
        /\ r.enqueue_buffer = Append(e.enqueue_buffer, Whole(k, S[k]))
    BY <1>11, <2>2, <2>5, <2>6, <2>7, Zenon DEF Same, Fields, s
  <2>9. Received(r, d, S) /\ Want(r, d) = <<k + 1, 1>>
    BY <1>5, <2>8, SduWhole, ZenonT(60)
  <2>10. After(S, <<k, j>>) = <<k + 1, 1>>
    BY <1>1, <1>11 DEF After, s
  <2> QED BY <2>8, <2>9, <2>10, Zenon DEF r
<1> QED BY <1>1, <1>8, <1>9, <1>10, <1>11
-----------------------------------------------------------------------------
\* The fields that only an accepted I-frame changes.
Receiving ==
  {"expected_tx_seq", "buffer_seq", "sar_state", "reassembly_stage", "remaining", "enqueue_buffer",
   "on_empty", "local_busy", "overtaken"}

\* What a handler that is given the req_seq q does for the sending side of e.
Serves(e, q, r) ==
  /\ Ready(r) /\ r.overtaken = e.overtaken
  /\ e.lapped => r.lapped
  /\ Good(e) /\ e.out = << >> /\ q \in e.expected_ack_seq..e.next_tx_seq /\ ~r.lapped =>
       Good(r) /\ Moved(e, r) /\ r.expected_ack_seq <= q

\* A handler that accepts no I-frame.
Answers(e, q, r) ==
  /\ Serves(e, q, r)
  /\ \A f \in Receiving : r[f] = e[f]
  /\ Flags(e) => Flags(r)
  /\ "protocol" \in r.closed_by => "protocol" \in e.closed_by \/ with_invalid_req_seq(e, q)

\* Sending after an acknowledgement.
LEMMA MovedFurther ==
  ASSUME NEW e, NEW x, NEW r, Good(x), Good(e), Good(r), Moved(e, x), Further(x, r),
         r.expected_ack_seq = x.expected_ack_seq
  PROVE  Moved(e, r)
<1>1. e.next_tx_seq \in Int /\ x.next_tx_seq \in Int /\ r.next_tx_seq \in Int
  <2>1. Numbers(e) /\ Numbers(x) /\ Numbers(r)
    BY Zenon DEF Good
  <2> QED BY <2>1 DEF Numbers
<1>2. r.next_tx_seq >= e.next_tx_seq
  <2>1. r.next_tx_seq >= x.next_tx_seq /\ x.next_tx_seq >= e.next_tx_seq
    BY Zenon DEF Moved, Further
  <2> QED BY <1>1, <2>1
<1> QED BY <1>2, Zenon DEF Moved, Further

\* pass_to_tx, and then operators that send.
LEMMA PassServes ==
  ASSUME NEW e, Ready(e), NEW q, NEW f, NEW r, Sends(pass_to_tx(e, q, f), r)
  PROVE  Answers(e, q, r)
<1> DEFINE x == pass_to_tx(e, q, f)
<1>1. DOMAIN e = Fields /\ IsSeq(e.pending_frames)
  BY Zenon DEF Ready
<1>2. /\ Same(e, x, Acknowledging) /\ x.expected_ack_seq = q /\ x.tx_state \in {e.tx_state, "XMIT"}
      /\ Sender(e) /\ q \in e.expected_ack_seq..e.next_tx_seq => Sender(x) /\ Moved(e, x)
  BY <1>1, Passes, Zenon
<1>3. Sends(x, r)
  BY Zenon
<1> HIDE DEF x
<1>4. /\ x.pending_frames = e.pending_frames /\ x.lapped = e.lapped /\ x.closed_by = e.closed_by
      /\ x.expected_tx_seq = e.expected_tx_seq /\ x.buffer_seq = e.buffer_seq /\ x.out = e.out
      /\ x.overtaken = e.overtaken /\ x.on_empty = e.on_empty /\ x.local_busy = e.local_busy
      /\ x.rx_state = e.rx_state
  BY <1>2, Zenon DEF Same, Fields, Acknowledging
<1>5. /\ r.overtaken = x.overtaken /\ r.on_empty = x.on_empty /\ r.local_busy = x.local_busy
      /\ r.rx_state = x.rx_state /\ r.expected_ack_seq = x.expected_ack_seq /\ r.tx_state = x.tx_state
  BY <1>3, Zenon DEF Sends, Same, Fields, Sending
<1>6. Ready(r)
  BY <1>1, <1>2, <1>3, <1>4, Zenon DEF Ready, Sends, Same
<1>7. \A g \in Receiving : r[g] = e[g]
  <2>1. \A g \in Receiving : g \in Fields /\ g \notin Acknowledging /\ g \notin Sending
    BY DEF Receiving, Fields, Acknowledging, Sending
  <2> QED BY <1>2, <1>3, <2>1, Zenon DEF Sends, Same
<1>8. Flags(e) => Flags(r)
  BY <1>2, <1>4, <1>5, Zenon DEF Flags
<1>9. ASSUME Good(e), e.out = << >>, q \in e.expected_ack_seq..e.next_tx_seq, ~r.lapped
      PROVE  Good(r) /\ Moved(e, r) /\ r.expected_ack_seq <= q
  <2>1. Sender(x) /\ Moved(e, x)
    BY <1>2, <1>9, GoodSender, Zenon
  <2>2. Good(x)
    <3>1. e.expected_tx_seq \in 0..63 /\ e.buffer_seq = e.expected_tx_seq
      BY <1>9, Zenon DEF Good, Numbers
    <3> QED BY <1>4, <1>9, <2>1, <3>1, GoodSender, Zenon
  <2>3. Good(r) /\ Further(x, r)
    BY <1>3, <1>9, <2>2, Zenon DEF Sends
  <2>4. Moved(e, r)
    BY <1>5, <1>9, <2>1, <2>2, <2>3, MovedFurther, Zenon
  <2>5. q \in Int
    <3>1. Numbers(x)
      BY <2>2, Zenon DEF Good
    <3> QED BY <1>2, <3>1 DEF Numbers
  <2>6. r.expected_ack_seq = q
    BY <1>2, <1>5, Zenon
  <2>7. r.expected_ack_seq <= q
    BY <2>5, <2>6
  <2> QED BY <2>3, <2>4, <2>7, Zenon
<1>10. e.lapped => r.lapped
  BY <1>3, <1>4, Zenon DEF Sends
<1>11. "protocol" \in r.closed_by => "protocol" \in e.closed_by
  BY <1>3, <1>4, Zenon DEF Sends
<1>12. Serves(e, q, r)
  BY <1>4, <1>5, <1>6, <1>9, <1>10, Zenon DEF Serves
<1> QED BY <1>7, <1>8, <1>11, <1>12, Zenon DEF Answers

\* A handler that only closes the channel, or does nothing.
LEMMA ClosesServes ==
  ASSUME NEW e, Ready(e), NEW q, NEW r, Same(e, r, {"closed_by"}),
         "protocol" \in r.closed_by => "protocol" \in e.closed_by \/ with_invalid_req_seq(e, q)
  PROVE  Answers(e, q, r)
<1>1. /\ r.lapped = e.lapped /\ r.overtaken = e.overtaken /\ r.on_empty = e.on_empty
      /\ r.local_busy = e.local_busy /\ r.rx_state = e.rx_state /\ r.expected_ack_seq = e.expected_ack_seq
      /\ r.tx_state = e.tx_state /\ r.pending_frames = e.pending_frames /\ Same(e, r, Loose)
  BY Zenon DEF Same, Fields, Loose
<1>2. \A g \in Receiving : r[g] = e[g]
  <2>1. \A g \in Receiving : g \in Fields /\ g # "closed_by"
    BY DEF Receiving, Fields
  <2> QED BY <2>1, Zenon DEF Same
<1>3. Flags(e) => Flags(r)
  BY <1>1, Zenon DEF Flags
<1>4. Ready(r)
  BY <1>1, Zenon DEF Ready, Same
<1>5. ASSUME Good(e), q \in e.expected_ack_seq..e.next_tx_seq
      PROVE  Good(r) /\ Moved(e, r) /\ r.expected_ack_seq <= q
  <2>1. Good(r) /\ Further(e, r)
    BY <1>1, <1>5, LooseKeeps, Zenon
  <2>2. e.expected_ack_seq \in Int /\ e.expected_ack_seq <= q
    <3>1. Numbers(e)
      BY <1>5, Zenon DEF Good
    <3> QED BY <1>5, <3>1 DEF Numbers
  <2>3. e.expected_ack_seq >= e.expected_ack_seq
    BY <2>2
  <2>4. Moved(e, r)
    BY <1>1, <2>1, <2>3, Zenon DEF Further, Moved
  <2> QED BY <1>1, <2>1, <2>2, <2>4, Zenon
<1>6. Serves(e, q, r)
  BY <1>1, <1>4, <1>5, Zenon DEF Serves
<1> QED BY <1>2, <1>3, <1>6, Zenon DEF Answers

\* close_channel, and nothing.
LEMMA ClosesAnswers ==
  ASSUME NEW e, Ready(e), NEW q
  PROVE  /\ Answers(e, q, e) /\ Answers(e, q, CloseChannel(e, "retries"))
         /\ with_invalid_req_seq(e, q) => Answers(e, q, CloseChannel(e, "protocol"))
<1>1. DOMAIN e = Fields
  BY Zenon DEF Ready
<1>2. Answers(e, q, e)
  <2>1. Same(e, e, {"closed_by"})
    BY <1>1, Zenon DEF Same
  <2> QED BY <2>1, ClosesServes, Zenon
<1>3. ASSUME NEW w, w = "protocol" => with_invalid_req_seq(e, q) PROVE Answers(e, q, CloseChannel(e, w))
  <2> DEFINE r == CloseChannel(e, w)
  <2>1. Same(e, r, {"closed_by"}) /\ r.closed_by = e.closed_by \cup {w}
    BY <1>1, Zenon DEF CloseChannel, Same, Fields
  <2> HIDE DEF r
  <2>2. "protocol" \in r.closed_by => "protocol" \in e.closed_by \/ with_invalid_req_seq(e, q)
    BY <1>3, <2>1, Zenon
  <2>3. Answers(e, q, r)
    BY <2>1, <2>2, ClosesServes, Zenon
  <2> QED BY <2>3, Zenon DEF r
<1>4. "retries" # "protocol"
  OBVIOUS
<1> QED BY <1>2, <1>3, <1>4, Zenon

\* What pass_to_tx leaves.
LEMMA PassReady ==
  ASSUME NEW e, Ready(e), NEW q, NEW f
  PROVE  Ready(pass_to_tx(e, q, f)) /\ pass_to_tx(e, q, f).expected_ack_seq = q
<1> DEFINE x == pass_to_tx(e, q, f)
<1>1. Same(e, x, Acknowledging) /\ x.expected_ack_seq = q
  BY Passes, Zenon DEF Ready
<1> HIDE DEF x
<1>2. x.pending_frames = e.pending_frames /\ DOMAIN x = Fields
  BY <1>1, Zenon DEF Same, Fields, Acknowledging
<1>3. Ready(x) /\ x.expected_ack_seq = q
  BY <1>1, <1>2, Zenon DEF Ready
<1> QED BY <1>3, Zenon DEF x

\* Two fields set on the way.
LEMMA SendsFlag ==
  ASSUME NEW e, Ready(e), NEW b
  PROVE  /\ Sends(e, [e EXCEPT !.remote_busy = b]) /\ Sends(e, [e EXCEPT !.retrans_timer = b])
         /\ Sends(e, [e EXCEPT !.rej_actioned = b])
<1>1. DOMAIN e = Fields
  BY Zenon DEF Ready
<1>2. ASSUME NEW r, NEW g, g \in {"remote_busy", "retrans_timer", "rej_actioned"}, Same(e, r, {g})
      PROVE  Sends(e, r)
  <2>1. r.lapped = e.lapped /\ r.closed_by = e.closed_by
    <3>1. g # "lapped" /\ g # "closed_by"
      BY <1>2
    <3> QED BY <1>2, <3>1, Zenon DEF Same, Fields
  <2>2. g \in Sending \cap Loose
    BY <1>2 DEF Sending, Loose
  <2>3. Same(e, r, Sending \cap Loose)
    BY <1>2, <2>2, Zenon DEF Same
  <2> QED BY <2>1, <2>3, SendsNothing, Zenon
<1>3. /\ Same(e, [e EXCEPT !.remote_busy = b], {"remote_busy"})
      /\ Same(e, [e EXCEPT !.retrans_timer = b], {"retrans_timer"})
      /\ Same(e, [e EXCEPT !.rej_actioned = b], {"rej_actioned"})
  BY <1>1, Zenon DEF Same, Fields
<1> QED BY <1>2, <1>3, Zenon

\* The RR handler.
LEMMA RrAnswers ==
  ASSUME NEW e, Ready(e), NEW m
  PROVE  Answers(e, m.req_seq, recv_rr(e, m))
<1> DEFINE q == m.req_seq
           x == pass_to_tx(e, q, m.f)
           valid == with_valid_req_seq(e, q) /\ with_valid_f_bit(e, m.f)
           recv == e.rx_state = "RECV"
           a0 == [x EXCEPT !.remote_busy = FALSE]
           a1 == poll_answered(a0, q, m.p)
           a == send_pending_i_frames(a1, FALSE)
           b == send_i_or_rr_or_rnr(x)
           y == remote_ready(x)
           c == send_rr(y, FALSE, TRUE)
           g == send_pending_i_frames(y, FALSE)
           h == send_ack(y)
<1>1. recv_rr(e, m) = IF valid /\ m.f THEN a
                      ELSE IF valid /\ m.p THEN IF recv THEN b ELSE c
                      ELSE IF valid THEN IF recv THEN g ELSE h
                      ELSE IF with_invalid_req_seq(e, q) THEN CloseChannel(e, "protocol")
                      ELSE e
  BY DEF recv_rr
<1>2. Ready(x) /\ x.expected_ack_seq = q
  BY PassReady, Zenon
<1>3. ASSUME NEW r, Sends(x, r) PROVE Answers(e, q, r)
  BY <1>3, PassServes, Zenon
<1> HIDE DEF x, valid, recv
<1>4. Answers(e, q, a)
  <2>1. Sends(x, a0) /\ a0.expected_ack_seq = q
    <3>1. Sends(x, a0)
      BY <1>2, SendsFlag, Zenon
    <3>2. a0.expected_ack_seq = x.expected_ack_seq
      BY <1>2, Zenon DEF Ready, Fields
    <3> QED BY <1>2, <3>1, <3>2, Zenon
  <2> HIDE DEF a0
  <2>2. Ready(a0)
    BY <1>2, <2>1, SendsReady, Zenon
  <2>3. Sends(a0, a1)
    BY <2>1, <2>2, SendsPolled, Zenon
  <2> HIDE DEF a1
  <2>4. Ready(a1)
    BY <2>2, <2>3, SendsReady, Zenon
  <2>5. Sends(a1, a)
    BY <2>4, SendsAllPending, Zenon DEF Ready
  <2> HIDE DEF a
  <2>6. Sends(x, a1)
    BY <2>1, <2>3, SendsTwice, Zenon
  <2>7. Sends(x, a)
    BY <2>5, <2>6, SendsTwice, Zenon
  <2> QED BY <1>3, <2>7, Zenon
<1>5. Answers(e, q, b)
  BY <1>2, <1>3, SendsAnswer, Zenon
<1>6. Answers(e, q, c) /\ Answers(e, q, g) /\ Answers(e, q, h)
  <2>1. Sends(x, y)
    BY <1>2, SendsRemoteReady, Zenon
  <2> HIDE DEF y
  <2>2. Ready(y)
    BY <1>2, <2>1, SendsReady, Zenon
  <2>3. Sends(y, c)
    BY <2>2, SendsRr, Zenon
  <2>4. Sends(y, g)
    BY <2>2, SendsAllPending, Zenon DEF Ready
  <2>5. Sends(y, h)
    BY <2>2, SendsAck, Zenon
  <2> HIDE DEF c, g, h
  <2> QED BY <1>3, <2>1, <2>3, <2>4, <2>5, SendsTwice, Zenon
<1>7. /\ Answers(e, q, e)
      /\ with_invalid_req_seq(e, q) => Answers(e, q, CloseChannel(e, "protocol"))
  BY ClosesAnswers, Zenon
<1> HIDE DEF a, b, c, g, h
<1> QED BY <1>1, <1>4, <1>5, <1>6, <1>7, Zenon

\* The REJ handler.
LEMMA RejAnswers ==
  ASSUME NEW e, Ready(e), NEW m
  PROVE  Answers(e, m.req_seq, recv_rej(e, m))
<1> DEFINE q == m.req_seq
           x == pass_to_tx(e, q, m.f)
           y == [x EXCEPT !.remote_busy = FALSE]
           left  == retries(e, q) < local_max_transmit_
           known == with_valid_req_seq(e, q)
           valid == known /\ left /\ with_valid_f_bit(e, m.f)
           a1 == poll_answered(y, q, m.p)
           a == send_pending_i_frames(a1, FALSE)
           b1 == retransmit_i_frames(y, q, m.p)
           b2 == send_pending_i_frames(b1, FALSE)
           b == [b2 EXCEPT !.rej_actioned = @ \/ b2.tx_state = "WAIT_F"]
<1>1. recv_rej(e, m) = IF valid /\ m.f THEN a
                       ELSE IF valid THEN b
                       ELSE IF known /\ ~left THEN CloseChannel(e, "retries")
                       ELSE IF with_invalid_req_seq(e, q) THEN CloseChannel(e, "protocol")
                       ELSE e
  BY DEF recv_rej
<1>2. Ready(x) /\ x.expected_ack_seq = q
  BY PassReady, Zenon
<1>3. ASSUME NEW r, Sends(x, r) PROVE Answers(e, q, r)
  BY <1>3, PassServes, Zenon
<1> HIDE DEF x, valid, known, left
<1>4. Sends(x, y) /\ y.expected_ack_seq = q /\ Ready(y)
  <2>1. Sends(x, y)
    BY <1>2, SendsFlag, Zenon
  <2>2. y.expected_ack_seq = x.expected_ack_seq
    BY <1>2, Zenon DEF Ready, Fields
  <2> HIDE DEF y
  <2> QED BY <1>2, <2>1, <2>2, SendsReady, Zenon
<1> HIDE DEF y
<1>5. Answers(e, q, a)
  <2>1. Sends(y, a1)
    BY <1>4, SendsPolled, Zenon
  <2> HIDE DEF a1
  <2>2. Ready(a1)
    BY <1>4, <2>1, SendsReady, Zenon
  <2>3. Sends(a1, a)
    BY <2>2, SendsAllPending, Zenon DEF Ready
  <2> HIDE DEF a
  <2>4. Sends(x, a1)
    BY <1>4, <2>1, SendsTwice, Zenon
  <2>5. Sends(x, a)
    BY <2>3, <2>4, SendsTwice, Zenon
  <2> QED BY <1>3, <2>5, Zenon
<1>6. Answers(e, q, b)
  <2>1. Sends(y, b1)
    BY <1>4, SendsAgain, Zenon DEF Ready
  <2> HIDE DEF b1
  <2>2. Ready(b1)
    BY <1>4, <2>1, SendsReady, Zenon
  <2>3. Sends(b1, b2)
    BY <2>2, SendsAllPending, Zenon DEF Ready
  <2>4. Ready(b2)
    BY <2>2, <2>3, SendsReady, Zenon
  <2>5. Sends(b2, b)
    BY <2>4, SendsFlag, Zenon
  <2> HIDE DEF b2, b
  <2>6. Sends(x, b1)
    BY <1>4, <2>1, SendsTwice, Zenon
  <2>7. Sends(x, b2)
    BY <2>3, <2>6, SendsTwice, Zenon
  <2>8. Sends(x, b)
    BY <2>5, <2>7, SendsTwice, Zenon
  <2> QED BY <1>3, <2>8, Zenon
<1>7. /\ Answers(e, q, e) /\ Answers(e, q, CloseChannel(e, "retries"))
      /\ with_invalid_req_seq(e, q) => Answers(e, q, CloseChannel(e, "protocol"))
  BY ClosesAnswers, Zenon
<1> HIDE DEF a, b
<1> QED BY <1>1, <1>5, <1>6, <1>7, Zenon

\* The RNR handler.
LEMMA RnrAnswers ==
  ASSUME NEW e, Ready(e), NEW m
  PROVE  Answers(e, m.req_seq, recv_rnr(e, m))
<1> DEFINE q == m.req_seq
           x == pass_to_tx(e, q, m.f)
           y == [x EXCEPT !.remote_busy = TRUE]
           z == [y EXCEPT !.retrans_timer = FALSE]
           valid == with_valid_req_seq(e, q) /\ with_valid_f_bit(e, m.f)
           a == send_rr(y, FALSE, ~m.p)
           b == send_rr_or_rnr(z, FALSE, TRUE)
<1>1. recv_rnr(e, m) = IF valid
                       THEN IF e.rx_state = "REJ_SENT" THEN a ELSE IF m.p THEN b ELSE z
                       ELSE IF with_invalid_req_seq(e, q) THEN CloseChannel(e, "protocol")
                       ELSE e
  BY DEF recv_rnr
<1>2. Ready(x)
  BY PassReady, Zenon
<1>3. ASSUME NEW r, Sends(x, r) PROVE Answers(e, q, r)
  BY <1>3, PassServes, Zenon
<1> HIDE DEF x, valid
<1>4. Sends(x, y) /\ Ready(y)
  <2>1. Sends(x, y)
    BY <1>2, SendsFlag, Zenon
  <2> HIDE DEF y
  <2> QED BY <1>2, <2>1, SendsReady, Zenon
<1> HIDE DEF y
<1>5. Sends(x, z) /\ Ready(z)
  <2>1. Sends(y, z)
    BY <1>4, SendsFlag, Zenon
  <2> HIDE DEF z
  <2> QED BY <1>4, <2>1, SendsReady, SendsTwice, Zenon
<1> HIDE DEF z
<1>6. Sends(x, a)
  <2>1. Sends(y, a)
    BY <1>4, SendsRr, Zenon
  <2> HIDE DEF a
  <2> QED BY <1>4, <2>1, SendsTwice, Zenon
<1>7. Sends(x, b)
  <2>1. Sends(z, b)
    BY <1>5, SendsRr, Zenon
  <2> HIDE DEF b
  <2> QED BY <1>5, <2>1, SendsTwice, Zenon
<1>8. /\ Answers(e, q, e)
      /\ with_invalid_req_seq(e, q) => Answers(e, q, CloseChannel(e, "protocol"))
  BY ClosesAnswers, Zenon
<1> HIDE DEF a, b
<1>9. Answers(e, q, a) /\ Answers(e, q, b) /\ Answers(e, q, z)
  BY <1>3, <1>5, <1>6, <1>7, Zenon
<1> QED BY <1>1, <1>8, <1>9, Zenon

\* What e has of the SDUs depends on these fields.
LEMMA ReceivedSame ==
  ASSUME NEW e, NEW r, r.enqueue_buffer = e.enqueue_buffer, r.sar_state = e.sar_state,
         r.reassembly_stage = e.reassembly_stage, r.remaining = e.remaining, NEW d, NEW S
  PROVE  Want(r, d) = Want(e, d) /\ (Received(e, d, S) => Received(r, d, S))
<1>1. Number(r, d) = Number(e, d)
  BY Zenon DEF Number
<1>2. Want(r, d) = Want(e, d)
  BY <1>1, Zenon DEF Want
<1> QED BY <1>1, <1>2, Zenon DEF Received

\* m is the segment j of SDU k, and e waits for it.
Awaited(e, d, S, m, k, j) ==
  /\ Received(e, d, S) /\ Want(e, d) = <<k, j>> /\ Carries(m, Segment(k, S[k], j))

\* The expected I-frame m is accepted.
Accepts(e, m, r) ==
  /\ Ready(r) /\ r.overtaken = e.overtaken
  /\ e.lapped => r.lapped
  /\ Good(e) /\ e.out = << >> /\ m.req_seq \in e.expected_ack_seq..e.next_tx_seq
       /\ e.expected_tx_seq < 63 /\ ~r.lapped =>
       /\ Good(r) /\ Moved(e, r) /\ r.expected_ack_seq <= m.req_seq
       /\ r.expected_tx_seq = e.expected_tx_seq + 1

\* And its segment is taken.
Takes(e, m, r) ==
  \A d : \A S \in Seq(Nat \ {0}) : \A k \in 1..Len(S) : \A j \in 1..S[k] :
    Awaited(e, d, S, m, k, j) =>
      /\ Received(r, d, S) /\ Want(r, d) = After(S, <<k, j>>)
      /\ "protocol" \in r.closed_by => "protocol" \in e.closed_by

\* NotifyOnEmpty is called at most once.
Notifies(e, r) ==
  /\ r.rx_state = e.rx_state /\ r.tx_state \in {e.tx_state, "XMIT"}
  /\ e.on_empty = 0 => r.on_empty \in {0, 1} /\ (r.on_empty = 1 => r.local_busy)

\* accept_i_frame.
LEMMA AcceptsIFrame ==
  ASSUME NEW e, Ready(e), NEW m
  PROVE  LET r == accept_i_frame(e, m)
         IN  Accepts(e, m, r) /\ Takes(e, m, r) /\ Notifies(e, r)
<1> DEFINE q == m.req_seq
           e0 == [e EXCEPT !.expected_tx_seq = (@ + 1) % kMaxTxWin]
           x == pass_to_tx(e0, q, m.f)
           s == stage_for_reassembly(x, m)
           e1 == [s EXCEPT !.buffer_seq = (@ + 1) % kMaxTxWin]
           a == [e1 EXCEPT !.rej_actioned = FALSE]
           b1 == retransmit_i_frames(e1, q, FALSE)
           b == send_pending_i_frames(b1, FALSE)
           e2 == IF ~m.f THEN e1 ELSE IF e1.rej_actioned THEN a ELSE b
           r == send_ack(e2)
<1>1. accept_i_frame(e, m) = r
  BY Zenon DEF accept_i_frame, data_indication
<1>2. DOMAIN e = Fields /\ IsSeq(e.pending_frames)
  BY Zenon DEF Ready
<1>3. Same(e, e0, {"expected_tx_seq"}) /\ e0.expected_tx_seq = (e.expected_tx_seq + 1) % kMaxTxWin
  BY <1>2, Zenon DEF Same, Fields
<1> HIDE DEF e0
<1>4. /\ Same(e0, x, Acknowledging) /\ x.expected_ack_seq = q /\ x.tx_state \in {e0.tx_state, "XMIT"}
      /\ Sender(e0) /\ q \in e0.expected_ack_seq..e0.next_tx_seq => Sender(x) /\ Moved(e0, x)
  BY <1>3, Passes, Zenon DEF Same
<1> HIDE DEF x
<1>5. /\ Same(x, s, Staging)
      /\ x.on_empty = 0 => s.on_empty \in {0, 1} /\ (s.on_empty = 1 => s.local_busy)
  BY <1>4, Stages, Zenon DEF Same
<1>6. /\ x.enqueue_buffer = e.enqueue_buffer /\ x.sar_state = e.sar_state
      /\ x.reassembly_stage = e.reassembly_stage /\ x.remaining = e.remaining
      /\ x.closed_by = e.closed_by /\ x.on_empty = e.on_empty
  BY <1>3, <1>4, Zenon DEF Same, Acknowledging, Fields
<1>7. ASSUME NEW d, NEW S \in Seq(Nat \ {0}), NEW k \in 1..Len(S), NEW j \in 1..S[k],
             Awaited(e, d, S, m, k, j)
      PROVE  Received(s, d, S) /\ Want(s, d) = After(S, <<k, j>>) /\ s.closed_by = e.closed_by
  <2>1. Received(x, d, S) /\ Want(x, d) = <<k, j>> /\ Carries(m, Segment(k, S[k], j))
    BY <1>6, <1>7, ReceivedSame, Zenon DEF Awaited
  <2>2. DOMAIN x = Fields
    BY <1>4, Zenon DEF Same
  <2>3. Received(s, d, S) /\ Want(s, d) = After(S, <<k, j>>) /\ s.closed_by = x.closed_by
    BY <2>1, <2>2, StageTakes
  <2> QED BY <1>6, <2>3, Zenon
<1> HIDE DEF s
<1>8. Same(s, e1, {"buffer_seq"}) /\ e1.buffer_seq = (s.buffer_seq + 1) % kMaxTxWin
  BY <1>5, Zenon DEF Same, Fields
<1> HIDE DEF e1
<1>9. /\ e1.next_tx_seq = x.next_tx_seq /\ e1.expected_ack_seq = q
      /\ e1.unacked_frames = x.unacked_frames /\ e1.unacked_list = x.unacked_list
      /\ e1.pending_frames = x.pending_frames /\ e1.out = x.out
      /\ e1.lapped = x.lapped /\ e1.overtaken = x.overtaken /\ e1.rx_state = x.rx_state
  BY <1>4, <1>5, <1>8, ZenonT(60) DEF Same, Staging, Fields
<1>10. /\ x.next_tx_seq = e.next_tx_seq /\ x.pending_frames = e.pending_frames /\ x.out = e.out
       /\ x.lapped = e.lapped /\ x.overtaken = e.overtaken /\ x.rx_state = e.rx_state
  BY <1>3, <1>4, Zenon DEF Same, Acknowledging, Fields
<1>11. Ready(e1)
  BY <1>2, <1>8, <1>9, <1>10, Zenon DEF Ready, Same
<1>12. Sends(e1, r)
  <2>1. Sends(e1, e1)
    BY <1>11, SendsSame, Zenon DEF Ready
  <2>2. Sends(e1, a)
    BY <1>11, SendsFlag, Zenon
  <2>3. Sends(e1, b)
    <3>1. Sends(e1, b1)
      BY <1>9, <1>11, SendsAgain, Zenon DEF Ready
    <3> HIDE DEF b1
    <3>2. Ready(b1)
      BY <1>11, <3>1, SendsReady, Zenon
    <3>3. Sends(b1, b)
      BY <3>2, SendsAllPending, Zenon DEF Ready
    <3> HIDE DEF b
    <3> QED BY <3>1, <3>3, SendsTwice, Zenon
  <2> HIDE DEF a, b
  <2>4. Sends(e1, e2)
    BY <2>1, <2>2, <2>3, Zenon
  <2> HIDE DEF e2
  <2>5. Ready(e2)
    BY <1>11, <2>4, SendsReady, Zenon
  <2>6. Sends(e2, r)
    BY <2>5, SendsAck, Zenon
  <2> HIDE DEF r
  <2> QED BY <2>4, <2>6, SendsTwice, Zenon
<1> HIDE DEF r
<1>13. Ready(r)
  BY <1>11, <1>12, SendsReady, Zenon
<1>14. /\ r.overtaken = e1.overtaken /\ r.on_empty = e1.on_empty /\ r.local_busy = e1.local_busy
       /\ r.rx_state = e1.rx_state /\ r.expected_ack_seq = e1.expected_ack_seq
       /\ r.expected_tx_seq = e1.expected_tx_seq /\ r.enqueue_buffer = e1.enqueue_buffer
       /\ r.sar_state = e1.sar_state /\ r.reassembly_stage = e1.reassembly_stage
       /\ r.remaining = e1.remaining
  BY <1>12, Zenon DEF Sends, Same, Fields, Sending
<1>15. /\ e1.on_empty = s.on_empty /\ e1.local_busy = s.local_busy /\ e1.enqueue_buffer = s.enqueue_buffer
       /\ e1.sar_state = s.sar_state /\ e1.reassembly_stage = s.reassembly_stage
       /\ e1.remaining = s.remaining /\ e1.closed_by = s.closed_by
  BY <1>8, Zenon DEF Same, Fields
<1>16. /\ e1.expected_tx_seq = (e.expected_tx_seq + 1) % kMaxTxWin
       /\ e1.buffer_seq = (e.buffer_seq + 1) % kMaxTxWin
  BY <1>3, <1>4, <1>5, <1>8, ZenonT(60) DEF Same, Fields, Staging, Acknowledging
<1>17. Takes(e, m, r)
  <2> SUFFICES ASSUME NEW d, NEW S \in Seq(Nat \ {0}), NEW k \in 1..Len(S), NEW j \in 1..S[k],
                      Awaited(e, d, S, m, k, j)
               PROVE  /\ Received(r, d, S) /\ Want(r, d) = After(S, <<k, j>>)
                      /\ "protocol" \in r.closed_by => "protocol" \in e.closed_by
    BY Zenon DEF Takes
  <2>1. Received(s, d, S) /\ Want(s, d) = After(S, <<k, j>>) /\ s.closed_by = e.closed_by
    BY <1>7, Zenon
  <2>2. Want(r, d) = Want(s, d) /\ (Received(s, d, S) => Received(r, d, S))
    BY <1>14, <1>15, ReceivedSame, Zenon
  <2>3. "protocol" \in r.closed_by => "protocol" \in e1.closed_by
    BY <1>12, Zenon DEF Sends
  <2> QED BY <1>15, <2>1, <2>2, <2>3, Zenon
<1>18. ASSUME Good(e), e.out = << >>, q \in e.expected_ack_seq..e.next_tx_seq, e.expected_tx_seq < 63,
              ~r.lapped
       PROVE  /\ Good(r) /\ Moved(e, r) /\ r.expected_ack_seq <= q
              /\ r.expected_tx_seq = e.expected_tx_seq + 1
  <2>1. Sender(e) /\ e.expected_tx_seq \in 0..63 /\ e.buffer_seq = e.expected_tx_seq
    BY <1>18, GoodSender, Zenon DEF Good, Numbers
  <2>2. /\ e0.next_tx_seq = e.next_tx_seq /\ e0.expected_ack_seq = e.expected_ack_seq
        /\ e0.unacked_frames = e.unacked_frames /\ e0.unacked_list = e.unacked_list
        /\ e0.pending_frames = e.pending_frames
    BY <1>3, Zenon DEF Same, Fields
  <2>3. Sender(e0)
    BY <2>1, <2>2, Zenon DEF Sender
  <2>4. Sender(x) /\ Moved(e0, x)
    BY <1>4, <1>18, <2>2, <2>3, Zenon
  <2>5. Sender(e1)
    BY <1>4, <1>9, <2>4, Zenon DEF Sender
  <2>6. Moved(e, e1)
    <3>1. Top(e0) = Top(e) /\ \A i : At(e0, i) = At(e, i)
      BY <2>2, Zenon DEF Top, At
    <3>2. Top(e1) = Top(x) /\ \A i : At(e1, i) = At(x, i)
      BY <1>9, Zenon DEF Top, At
    <3> QED BY <1>4, <1>9, <2>2, <2>4, <3>1, <3>2, Zenon DEF Moved
  <2>7. (e.expected_tx_seq + 1) % 64 = e.expected_tx_seq + 1 /\ e.expected_tx_seq + 1 \in 0..63
    <3> DEFINE n == e.expected_tx_seq
    <3>1. n \in 0..62
      BY <1>18, <2>1
    <3> HIDE DEF n
    <3>2. (n + 1) % 64 = n + 1 /\ n + 1 \in 0..63
      BY <3>1
    <3> QED BY <3>2, Zenon DEF n
  <2>8. /\ e1.expected_tx_seq = e.expected_tx_seq + 1 /\ e1.buffer_seq = e1.expected_tx_seq
        /\ e1.expected_tx_seq \in 0..63
    BY <1>16, <2>1, <2>7, Zenon DEF kMaxTxWin
  <2>9. Good(e1)
    BY <1>9, <1>10, <1>18, <2>5, <2>8, GoodSender, Zenon
  <2>10. Good(r) /\ Further(e1, r)
    BY <1>12, <1>18, <2>9, Zenon DEF Sends
  <2>11. Moved(e, r)
    BY <1>14, <1>18, <2>6, <2>9, <2>10, MovedFurther, Zenon
  <2>12. r.expected_ack_seq = q /\ q \in Int
    <3>1. Numbers(r)
      BY <2>10, Zenon DEF Good
    <3>2. r.expected_ack_seq \in Int
      BY <3>1 DEF Numbers
    <3> QED BY <1>9, <1>14, <3>2, Zenon
  <2>13. r.expected_ack_seq <= q
    BY <2>12
  <2> QED BY <1>14, <2>8, <2>10, <2>11, <2>13, Zenon
<1>19. e.lapped => r.lapped
  BY <1>9, <1>10, <1>12, Zenon DEF Sends
<1>20. Accepts(e, m, r)
  BY <1>9, <1>10, <1>13, <1>14, <1>18, <1>19, Zenon DEF Accepts
<1>21. Notifies(e, r)
  <2>1. e0.tx_state = e.tx_state
    BY <1>3, Zenon DEF Same, Fields
  <2>2. r.tx_state = x.tx_state
    BY <1>5, <1>8, <1>12, Zenon DEF Sends, Same, Fields, Sending, Staging
  <2> QED BY <1>4, <1>5, <1>6, <1>9, <1>10, <1>14, <1>15, <2>1, <2>2, ZenonT(60) DEF Notifies
<1> QED BY <1>1, <1>17, <1>20, <1>21, Zenon

\* The I-frame handler.
LEMMA IFrameHandled ==
  ASSUME NEW e, Ready(e), Flags(e), NEW m
  PROVE  LET r == recv_i_frame(e, m)
         IN  \/ Answers(e, m.req_seq, r)
             \/ m.tx_seq = e.expected_tx_seq /\ Accepts(e, m, r) /\ Takes(e, m, r) /\ Flags(r)
<1> DEFINE q == m.req_seq
           x == pass_to_tx(e, q, m.f)
           valid == with_valid_req_seq(e, q) /\ with_valid_f_bit(e, m.f)
           expected == with_expected_tx_seq(e, m.tx_seq)
           t == accept_i_frame(e, m)
           u == [t EXCEPT !.rx_state = "RECV"]
           v == send_s_frame(x, "REJ", e.expected_tx_seq, FALSE, FALSE)
           w == [v EXCEPT !.rx_state = "REJ_SENT"]
           r == recv_i_frame(e, m)
           Ok(y) == \/ Answers(e, q, y)
                    \/ m.tx_seq = e.expected_tx_seq /\ Accepts(e, m, y) /\ Takes(e, m, y) /\ Flags(y)
<1>1. r = IF e.rx_state = "REJ_SENT"
          THEN IF valid /\ expected THEN u
               ELSE IF valid /\ with_unexpected_tx_seq(e, m.tx_seq) THEN x
               ELSE e
          ELSE IF valid /\ expected /\ ~e.local_busy THEN t
          ELSE IF valid /\ with_duplicate_tx_seq(e, m.tx_seq) /\ ~e.local_busy THEN x
          ELSE IF valid /\ with_unexpected_tx_seq(e, m.tx_seq) /\ ~e.local_busy THEN w
          ELSE IF valid /\ (expected \/ ~with_invalid_tx_seq(e, m.tx_seq)) /\ e.local_busy THEN x
          ELSE IF \/ with_invalid_tx_seq(e, m.tx_seq) /\ local_tx_window_ > kMaxTxWin \div 2
                  \/ with_invalid_req_seq(e, q)
               THEN CloseChannel(e, "protocol")
          ELSE e
  BY DEF recv_i_frame
<1>2. ~(local_tx_window_ > kMaxTxWin \div 2)
  BY DEF local_tx_window_, kMaxTxWin
<1>3. Ready(x) /\ x.expected_ack_seq = q
  BY PassReady, Zenon
<1>4. ASSUME NEW y, Sends(x, y) PROVE Answers(e, q, y)
  BY <1>4, PassServes, Zenon
<1>5. Accepts(e, m, t) /\ Takes(e, m, t) /\ Notifies(e, t)
  BY AcceptsIFrame, Zenon
<1>6. expected => m.tx_seq = e.expected_tx_seq
  BY Zenon DEF with_expected_tx_seq
<1>7. /\ e.on_empty \in {0, 1} /\ (e.on_empty = 1 => e.local_busy) /\ (e.local_busy => e.rx_state = "RECV")
      /\ e.rx_state \in {"RECV", "REJ_SENT"} /\ e.tx_state \in {"XMIT", "WAIT_F"}
  BY Zenon DEF Flags
<1>a. Same(e, x, Acknowledging)
  BY Passes, Zenon DEF Ready
<1> HIDE DEF x, valid, expected, t, r
<1>8. Ok(x)
  <2>1. Sends(x, x)
    BY <1>3, SendsSame, Zenon DEF Ready
  <2> QED BY <1>4, <2>1, Zenon
<1>9. Ok(e) /\ (with_invalid_req_seq(e, q) => Ok(CloseChannel(e, "protocol")))
  <2>1. /\ Answers(e, q, e)
        /\ with_invalid_req_seq(e, q) => Answers(e, q, CloseChannel(e, "protocol"))
    BY ClosesAnswers, Zenon
  <2> QED BY <2>1, Zenon
<1>10. ASSUME ~e.local_busy, expected, e.rx_state = "RECV" PROVE Ok(t)
  <2>1. Flags(t)
    <3>1. e.on_empty = 0
      BY <1>7, <1>10, Zenon
    <3> QED BY <1>5, <1>7, <1>10, <3>1, Zenon DEF Flags, Notifies
  <2> QED BY <1>5, <1>6, <1>10, <2>1, Zenon
<1>11. ASSUME expected, e.rx_state = "REJ_SENT" PROVE Ok(u)
  <2>1. DOMAIN t = Fields
    BY <1>5, Zenon DEF Accepts, Ready
  <2>2. Same(t, u, {"rx_state"}) /\ u.rx_state = "RECV"
    BY <2>1, Zenon DEF Same, Fields
  <2> HIDE DEF u
  <2>3. /\ u.overtaken = t.overtaken /\ u.lapped = t.lapped /\ u.expected_ack_seq = t.expected_ack_seq
        /\ u.expected_tx_seq = t.expected_tx_seq /\ u.on_empty = t.on_empty /\ u.local_busy = t.local_busy
        /\ u.enqueue_buffer = t.enqueue_buffer /\ u.sar_state = t.sar_state
        /\ u.reassembly_stage = t.reassembly_stage /\ u.remaining = t.remaining
        /\ u.tx_state = t.tx_state /\ u.closed_by = t.closed_by /\ u.pending_frames = t.pending_frames /\ Same(t, u, Loose)
    BY <2>2, Zenon DEF Same, Fields, Loose
  <2>4. Ready(u)
    BY <1>5, <2>2, <2>3, Zenon DEF Accepts, Ready, Same
  <2>5. "REJ_SENT" # "RECV"
    OBVIOUS
  <2>6. e.on_empty = 0
    BY <1>7, <1>11, <2>5, Zenon
  <2>7. Flags(u)
    BY <1>5, <1>7, <2>2, <2>3, <2>6, Zenon DEF Flags, Notifies
  <2>8. \A d, S : Want(u, d) = Want(t, d) /\ (Received(t, d, S) => Received(u, d, S))
    BY <2>3, ReceivedSame, Zenon
  <2>9. Takes(e, m, u)
    BY <1>5, <2>3, <2>8, Zenon DEF Takes
  <2>10. ASSUME Good(e), Good(t), Moved(e, t) PROVE Good(u) /\ Moved(e, u)
    <3>1. Good(u) /\ Further(t, u)
      BY <2>3, <2>10, LooseKeeps, Zenon
    <3> QED BY <2>3, <2>10, <3>1, MovedFurther, Zenon
  <2>11. Accepts(e, m, u)
    BY <1>5, <2>3, <2>4, <2>10, Zenon DEF Accepts
  <2> QED BY <1>6, <1>11, <2>7, <2>9, <2>11, Zenon
<1>12. ASSUME ~e.local_busy PROVE Ok(w)
  <2>1. Good(x) => e.expected_tx_seq = x.expected_tx_seq
    BY <1>a, Zenon DEF Same, Fields, Acknowledging
  <2>2. "REJ" # "I" /\ DOMAIN x = Fields
    <3>1. "REJ" # "I"
      OBVIOUS
    <3> QED BY <1>3, <3>1, Zenon DEF Ready
  <2>3. Sends(x, v)
    BY <2>1, <2>2, SendsSFrame, Zenon
  <2> HIDE DEF v
  <2>4. Answers(e, q, v)
    BY <1>4, <2>3, Zenon
  <2>5. DOMAIN v = Fields
    BY <2>4, Zenon DEF Answers, Serves, Ready
  <2>6. Same(v, w, {"rx_state"}) /\ w.rx_state = "REJ_SENT"
    BY <2>5, Zenon DEF Same, Fields
  <2> HIDE DEF w
  <2>7. /\ w.overtaken = v.overtaken /\ w.lapped = v.lapped /\ w.expected_ack_seq = v.expected_ack_seq
        /\ w.on_empty = v.on_empty /\ w.local_busy = v.local_busy
        /\ w.tx_state = v.tx_state /\ w.closed_by = v.closed_by /\ w.pending_frames = v.pending_frames /\ Same(v, w, Loose)
    BY <2>6, Zenon DEF Same, Fields, Loose
  <2>8. Ready(w)
    BY <2>4, <2>6, <2>7, Zenon DEF Answers, Serves, Ready, Same
  <2>9. \A g \in Receiving : w[g] = e[g]
    <3>1. \A g \in Receiving : g \in Fields /\ g # "rx_state"
      BY DEF Receiving, Fields
    <3> QED BY <2>4, <2>6, <3>1, Zenon DEF Answers, Same
  <2>10. Flags(w)
    <3>1. v.local_busy = e.local_busy /\ v.on_empty = e.on_empty
      <4>1. "local_busy" \in Receiving /\ "on_empty" \in Receiving
        BY DEF Receiving
      <4> QED BY <2>4, <4>1, Zenon DEF Answers
    <3>2. Flags(v)
      BY <2>4, Zenon DEF Answers
    <3> QED BY <1>12, <2>6, <2>7, <3>1, <3>2, Zenon DEF Flags
  <2>11. ASSUME Good(e), Good(v), Moved(e, v) PROVE Good(w) /\ Moved(e, w)
    <3>1. Good(w) /\ Further(v, w)
      BY <2>7, <2>11, LooseKeeps, Zenon
    <3> QED BY <2>7, <2>11, <3>1, MovedFurther, Zenon
  <2>12. Serves(e, q, w)
    BY <2>4, <2>7, <2>8, <2>11, Zenon DEF Answers, Serves
  <2>13. Answers(e, q, w)
    BY <2>4, <2>7, <2>9, <2>10, <2>12, Zenon DEF Answers
  <2> QED BY <2>13, Zenon
<1> HIDE DEF u, w, Ok
<1>13. Ok(r)
  <2>1. CASE e.rx_state = "REJ_SENT"
    BY <1>1, <1>8, <1>9, <1>11, <2>1, Zenon
  <2>2. CASE e.rx_state # "REJ_SENT"
    <3>1. e.rx_state = "RECV"
      BY <1>7, <2>2, Zenon
    <3> QED BY <1>1, <1>2, <1>8, <1>9, <1>10, <1>12, <2>2, <3>1, Zenon
  <2> QED BY <2>1, <2>2, Zenon
<1> QED BY <1>13, Zenon DEF Ok, r
-----------------------------------------------------------------------------
\* Frames may have been acknowledged or numbered; those still unacknowledged carry the same.
Keeps(e, r) ==
  /\ r.next_tx_seq >= e.next_tx_seq /\ r.expected_ack_seq >= e.expected_ack_seq
  /\ \A i \in r.expected_ack_seq..e.next_tx_seq - 1 : r.unacked_list[i] = e.unacked_list[i]

\* The segment s came behind the others.
Grows(e, s, r) ==
  /\ Top(r) = Top(e) + 1 /\ At(r, Top(e)) = s
  /\ \A i \in e.expected_ack_seq..Top(e) - 1 : At(r, i) = At(e, i)

\* The fields that data_request changes.
Requesting == Numbering \cup {"overtaken", "pending_frames"}

\* data_request with room in the window: the segment is sent.
LEMMA RequestSends ==
  ASSUME NEW e, Ready(e), NEW s, rem_window_not_full(e)
  PROVE  LET r == [send_data(e, s, FALSE) EXCEPT !.overtaken = @ \/ e.pending_frames # << >>]
         IN /\ Same(e, r, Requesting) /\ Ready(r) /\ (e.lapped => r.lapped) /\ (e.overtaken => r.overtaken)
            /\ Good(e) /\ ~r.lapped => Good(r) /\ Keeps(e, r) /\ (~r.overtaken => Grows(e, s, r))
<1> DEFINE c == send_data(e, s, FALSE)
           r == [c EXCEPT !.overtaken = @ \/ e.pending_frames # << >>]
           n == e.next_tx_seq
<1>1. DOMAIN e = Fields /\ IsSeq(e.pending_frames)
  BY Zenon DEF Ready
<1>2. /\ Same(e, c, Numbering) /\ (e.lapped => c.lapped)
      /\ Good(e) /\ e.unacked_frames < remote_tx_window_ /\ ~c.lapped =>
           /\ Good(c) /\ c.next_tx_seq = e.next_tx_seq + 1 /\ c.unacked_list[e.next_tx_seq] = s
           /\ \A i \in e.expected_ack_seq..e.next_tx_seq - 1 : c.unacked_list[i] = e.unacked_list[i]
  BY <1>1, DataIs, Zenon
<1> HIDE DEF c
<1>3. Same(c, r, {"overtaken"}) /\ r.overtaken = (c.overtaken \/ e.pending_frames # << >>)
  BY <1>2, Zenon DEF Same, Fields
<1> HIDE DEF r
<1>4. /\ r.lapped = c.lapped /\ r.next_tx_seq = c.next_tx_seq /\ r.unacked_list = c.unacked_list
      /\ r.expected_ack_seq = c.expected_ack_seq /\ r.pending_frames = c.pending_frames
      /\ Same(c, r, Loose)
  BY <1>3, Zenon DEF Same, Fields, Loose
<1>5. /\ c.expected_ack_seq = e.expected_ack_seq /\ c.pending_frames = e.pending_frames
      /\ c.overtaken = e.overtaken
  BY <1>2, Zenon DEF Same, Fields, Numbering
<1>6. Same(e, r, Requesting) /\ Ready(r)
  BY <1>1, <1>2, <1>3, <1>4, <1>5, Zenon DEF Same, Requesting, Ready
<1>7. ASSUME Good(e), ~r.lapped PROVE Good(r) /\ Keeps(e, r) /\ (~r.overtaken => Grows(e, s, r))
  <2>1. /\ Good(c) /\ c.next_tx_seq = n + 1 /\ c.unacked_list[n] = s
        /\ \A i \in e.expected_ack_seq..n - 1 : c.unacked_list[i] = e.unacked_list[i]
    BY <1>2, <1>4, <1>7, Zenon DEF rem_window_not_full
  <2>2. Good(r)
    BY <1>4, <2>1, LooseKeeps, Zenon
  <2>3. n \in Int /\ e.expected_ack_seq \in Int
    <3>1. Numbers(e)
      BY <1>7, Zenon DEF Good
    <3> QED BY <3>1 DEF Numbers
  <2>4. Keeps(e, r)
    <3>1. n + 1 >= n /\ e.expected_ack_seq >= e.expected_ack_seq
      BY <2>3
    <3> QED BY <1>4, <1>5, <2>1, <3>1, Zenon DEF Keeps
  <2>5. ASSUME ~r.overtaken PROVE Grows(e, s, r)
    <3>1. e.pending_frames = << >>
      BY <1>3, <2>5, Zenon
    <3>2. Len(<< >>) = 0
      OBVIOUS
    <3>3. Top(e) = n + 0 /\ Top(r) = (n + 1) + 0
      BY <1>4, <1>5, <2>1, <3>1, <3>2, Zenon DEF Top
    <3>4. n + 0 = n /\ (n + 1) + 0 = n + 1 /\ n < n + 1 /\ \A i \in e.expected_ack_seq..n - 1 : i < n /\ i < n + 1
      BY <2>3
    <3> HIDE DEF n
    <3>5. At(r, n) = s
      BY <1>4, <2>1, <3>4, Zenon DEF At
    <3>6. \A i \in e.expected_ack_seq..n - 1 : At(r, i) = At(e, i)
      BY <1>4, <2>1, <3>4, Zenon DEF At, n
    <3> QED BY <3>3, <3>4, <3>5, <3>6, Zenon DEF Grows
  <2> QED BY <2>2, <2>4, <2>5, Zenon
<1>8. (e.lapped => r.lapped) /\ (e.overtaken => r.overtaken)
  BY <1>2, <1>3, <1>4, <1>5, Zenon
<1> QED BY <1>6, <1>7, <1>8, Zenon DEF r, c

\* data_request without: the segment waits.
LEMMA RequestWaits ==
  ASSUME NEW e, Ready(e), NEW s
  PROVE  LET r == [e EXCEPT !.pending_frames = Append(@, s)]
         IN /\ Same(e, r, Requesting) /\ Ready(r) /\ (e.lapped => r.lapped) /\ (e.overtaken => r.overtaken)
            /\ Good(e) => Good(r) /\ Keeps(e, r) /\ Grows(e, s, r)
<1> DEFINE r == [e EXCEPT !.pending_frames = Append(@, s)]
           n == e.next_tx_seq
           l == Len(e.pending_frames)
<1>1. DOMAIN e = Fields /\ IsSeq(e.pending_frames)
  BY Zenon DEF Ready
<1>2. Same(e, r, {"pending_frames"}) /\ r.pending_frames = Append(e.pending_frames, s)
  BY <1>1, Zenon DEF Same, Fields
<1> HIDE DEF r
<1>3. /\ r.next_tx_seq = n /\ r.expected_ack_seq = e.expected_ack_seq
      /\ r.unacked_frames = e.unacked_frames /\ r.unacked_list = e.unacked_list
      /\ r.expected_tx_seq = e.expected_tx_seq
      /\ r.buffer_seq = e.buffer_seq /\ r.out = e.out /\ r.lapped = e.lapped /\ r.overtaken = e.overtaken
  BY <1>2, Zenon DEF Same, Fields
<1>4. /\ IsSeq(r.pending_frames) /\ l \in Nat /\ Len(r.pending_frames) = l + 1
      /\ \A i \in 1..l : r.pending_frames[i] = e.pending_frames[i]
      /\ r.pending_frames[l + 1] = s
  <2> DEFINE q == e.pending_frames
             t == Append(q, s)
  <2>1. IsSeq(q)
    BY <1>1, Zenon
  <2>2. /\ IsSeq(t) /\ Len(q) \in Nat /\ Len(t) = Len(q) + 1
        /\ \A i \in 1..Len(q) : t[i] = q[i]
        /\ t[Len(q) + 1] = s
    BY ONLY <2>1, Appended
  <2>3. r.pending_frames = t
    BY <1>2, Zenon
  <2> HIDE DEF t
  <2> QED BY <2>2, <2>3, Zenon
<1>5. Same(e, r, Requesting) /\ Ready(r)
  BY <1>2, <1>4, Zenon DEF Same, Requesting, Ready
<1>6. ASSUME Good(e) PROVE Good(r) /\ Keeps(e, r) /\ Grows(e, s, r)
  <2>1. Good(r)
    BY <1>3, <1>4, <1>6, Zenon DEF Good, Numbers, Sendable
  <2>2. n \in Int /\ e.expected_ack_seq \in Int
    <3>1. Numbers(e)
      BY <1>6, Zenon DEF Good
    <3> QED BY <3>1 DEF Numbers
  <2>3. Keeps(e, r)
    <3>1. n >= n /\ e.expected_ack_seq >= e.expected_ack_seq
      BY <2>2
    <3> QED BY <1>3, <3>1, Zenon DEF Keeps
  <2>4. Top(e) = n + l /\ Top(r) = n + (l + 1)
    BY <1>3, <1>4, Zenon DEF Top
  <2>a. l \in Nat
    BY <1>4, Zenon
  <2> HIDE DEF n, l
  <2>5. n + (l + 1) = n + l + 1 /\ ~(n + l < n) /\ (n + l) - n + 1 = l + 1
    BY <2>2, <2>a
  <2>6. At(r, Top(e)) = s
    <3>1. At(r, n + l) = r.pending_frames[(n + l) - n + 1]
      <4>1. r.next_tx_seq = n /\ ~(n + l < n)
        BY <1>3, <2>5, Zenon
      <4> DEFINE k == n + l
      <4>2. ~(k < r.next_tx_seq) /\ k - r.next_tx_seq + 1 = k - n + 1
        BY <4>1, Zenon
      <4> HIDE DEF k
      <4>3. At(r, k) = r.pending_frames[k - r.next_tx_seq + 1]
        BY <4>2, Zenon DEF At
      <4>4. At(r, k) = r.pending_frames[k - n + 1]
        BY <4>2, <4>3, Zenon
      <4> QED BY <4>4, Zenon DEF k
    <3>2. r.pending_frames[l + 1] = s
      BY <1>4, Zenon
    <3> QED BY <2>4, <2>5, <3>1, <3>2, Zenon
  <2>7. ASSUME NEW i \in e.expected_ack_seq..Top(e) - 1 PROVE At(r, i) = At(e, i)
    <3>1. CASE i < n
      BY <1>3, <3>1, Zenon DEF At, n
    <3>2. CASE ~(i < n)
      <4>1. i - n + 1 \in 1..l
        BY <2>2, <2>4, <2>a, <3>2
      <4>2. At(r, i) = r.pending_frames[i - n + 1]
        BY <1>3, <3>2, Zenon DEF At
      <4>3. At(e, i) = e.pending_frames[i - n + 1]
        BY <3>2, Zenon DEF At, n
      <4>4. r.pending_frames[i - n + 1] = e.pending_frames[i - n + 1]
        BY <1>4, <4>1, Zenon
      <4> QED BY <4>2, <4>3, <4>4, Zenon
    <3> QED BY <3>1, <3>2, Zenon
  <2> QED BY <2>1, <2>3, <2>4, <2>5, <2>6, <2>7, Zenon DEF Grows
<1> QED BY <1>3, <1>5, <1>6, Zenon DEF r

\* data_request: no segment is dropped, and one that is not sent before those that wait comes
\* behind them.
LEMMA Requests ==
  ASSUME NEW e, Ready(e), Flags(e), NEW s
  PROVE  LET r == data_request(e, s)
         IN /\ Same(e, r, Requesting) /\ Ready(r) /\ (e.lapped => r.lapped) /\ (e.overtaken => r.overtaken)
            /\ Good(e) /\ ~r.lapped => Good(r) /\ Keeps(e, r) /\ (~r.overtaken => Grows(e, s, r))
<1> DEFINE a == [send_data(e, s, FALSE) EXCEPT !.overtaken = @ \/ e.pending_frames # << >>]
           b == [e EXCEPT !.pending_frames = Append(@, s)]
           r == data_request(e, s)
           sends == e.tx_state = "XMIT" /\ ~e.remote_busy /\ rem_window_not_full(e)
           waits == \/ e.tx_state = "XMIT" /\ (e.remote_busy \/ e.unacked_frames = remote_tx_window_)
                    \/ e.tx_state = "WAIT_F"
<1>1. r = IF sends THEN a ELSE IF waits THEN b ELSE e
  BY Zenon DEF data_request
<1>2. CASE sends
  <2>1. r = a
    BY <1>1, <1>2, Zenon
  <2>2. rem_window_not_full(e)
    BY <1>2, Zenon
  <2>3. /\ Same(e, a, Requesting) /\ Ready(a) /\ (e.lapped => a.lapped) /\ (e.overtaken => a.overtaken)
        /\ Good(e) /\ ~a.lapped => Good(a) /\ Keeps(e, a) /\ (~a.overtaken => Grows(e, s, a))
    BY <2>2, RequestSends, Zenon
  <2> HIDE DEF a, r
  <2> QED BY <2>1, <2>3, Zenon DEF r
<1>3. CASE ~sends /\ waits
  <2>1. r = b
    BY <1>1, <1>3, Zenon
  <2> QED BY <2>1, RequestWaits, ZenonT(60)
<1>4. CASE ~sends /\ ~waits
  <2>1. r = e
    BY <1>1, <1>4, Zenon
  <2>2. ~Good(e)
    <3> SUFFICES ASSUME Good(e) PROVE FALSE
      OBVIOUS
    <3>1. e.tx_state = "XMIT" /\ e.unacked_frames # remote_tx_window_ /\ ~(e.unacked_frames < remote_tx_window_)
      BY <1>4, Zenon DEF Flags, rem_window_not_full
    <3>2. e.unacked_frames <= remote_tx_window_ /\ remote_tx_window_ \in 1..63
      BY ErtmAssumption, Zenon DEF Good
    <3>3. e.unacked_frames \in Int
      <4>1. Numbers(e) /\ e.unacked_frames = e.next_tx_seq - e.expected_ack_seq
        BY Zenon DEF Good
      <4>2. e.next_tx_seq \in Int /\ e.expected_ack_seq \in Int
        BY <4>1 DEF Numbers
      <4> QED BY <4>1, <4>2
    <3> QED BY <3>1, <3>2, <3>3
  <2>3. Same(e, e, Requesting)
    BY Zenon DEF Same, Ready
  <2> QED BY <2>1, <2>2, <2>3, Zenon
<1> QED BY <1>2, <1>3, <1>4, Zenon

\* The end of what e has to send is a number not below those of its frames.
LEMMA TopIs ==
  ASSUME NEW e, Good(e)
  PROVE  /\ Top(e) \in Int /\ e.next_tx_seq \in Int /\ e.expected_ack_seq \in Int
         /\ e.expected_ack_seq <= e.next_tx_seq /\ e.next_tx_seq <= Top(e)
         /\ 0 <= e.expected_ack_seq /\ e.next_tx_seq <= 63
<1> DEFINE n == e.next_tx_seq
           a == e.expected_ack_seq
           l == Len(e.pending_frames)
<1>1. Numbers(e) /\ IsSeq(e.pending_frames)
  BY Zenon DEF Good
<1>2. n \in Int /\ a \in Int /\ a <= n /\ 0 <= a /\ n <= 63
  BY <1>1 DEF Numbers
<1>3. l \in Nat
  BY <1>1 DEF IsSeq
<1>4. Top(e) = n + l
  BY Zenon DEF Top
<1> HIDE DEF n, a, l
<1>5. /\ Top(e) \in Int /\ n \in Int /\ a \in Int /\ a <= n /\ n <= Top(e) /\ 0 <= a /\ n <= 63
  BY <1>2, <1>3, <1>4
<1> QED BY <1>5, Zenon DEF n, a

\* The segment that comes next continues the chain.
LEMMA ChainGrows ==
  ASSUME NEW e, NEW r, Good(e), r.expected_ack_seq = e.expected_ack_seq, NEW S,
         NEW K \in Nat \ {0}, NEW j \in 1..S[K], Chain(e, S, K, <<K, j>>), Grows(e, Segment(K, S[K], j), r)
  PROVE  LET y == After(S, <<K, j>>)
         IN  /\ Chain(r, S, K, y) /\ Top(r) >= Top(e)
             /\ \A x \in e.expected_ack_seq..Top(e) : Place(r, x, y) = Place(e, x, <<K, j>>)
<1> DEFINE y == After(S, <<K, j>>)
           s == Segment(K, S[K], j)
           t == Top(e)
           a == e.expected_ack_seq
           z == <<K, j>>
<1>1. t \in Int /\ a \in Int /\ a <= t
  <2>1. /\ Top(e) \in Int /\ e.next_tx_seq \in Int /\ e.expected_ack_seq \in Int
        /\ e.expected_ack_seq <= e.next_tx_seq /\ e.next_tx_seq <= Top(e)
    BY TopIs, Zenon
  <2> HIDE DEF t, a
  <2> QED BY <2>1 DEF t, a
<1>2. s.payload = z
  BY DEF Segment
<1>3. Top(r) = t + 1 /\ At(r, t) = s /\ \A i \in a..t - 1 : At(r, i) = At(e, i)
  BY Zenon DEF Grows
<1>4. \A i \in a..t - 1 : /\ \E k \in 1..K : \E l \in 1..S[k] : At(e, i) = Segment(k, S[k], l)
                          /\ Place(e, i + 1, z) = After(S, At(e, i).payload)
  BY Zenon DEF Chain
<1>a. r.expected_ack_seq = a
  BY Zenon
<1>b. K \in 1..K
  OBVIOUS
<1> HIDE DEF t, a, s, z
<1>5. Top(e) = t /\ e.expected_ack_seq = a
  BY Zenon DEF t, a
<1>6. ASSUME NEW x \in a..t PROVE Place(r, x, y) = Place(e, x, z)
  <2>1. x # t + 1
    BY <1>1
  <2>2. Place(r, x, y) = At(r, x).payload
    BY <1>3, <2>1, Zenon DEF Place
  <2>3. CASE x = t
    BY <1>2, <1>3, <1>5, <2>2, <2>3, Zenon DEF Place
  <2>4. CASE x # t
    <3>1. x \in a..t - 1
      BY <1>1, <2>4
    <3> QED BY <1>3, <1>5, <2>2, <2>4, <3>1, Zenon DEF Place
  <2> QED BY <2>3, <2>4, Zenon
<1>7. ASSUME NEW i \in a..t
      PROVE  /\ \E k \in 1..K : \E l \in 1..S[k] : At(r, i) = Segment(k, S[k], l)
             /\ Place(r, i + 1, y) = After(S, At(r, i).payload)
  <2>1. CASE i = t
    <3>1. \E k \in 1..K : \E l \in 1..S[k] : At(r, i) = Segment(k, S[k], l)
      BY <1>3, <1>b, <2>1, Zenon DEF s
    <3>2. Place(r, t + 1, y) = y
      BY <1>3, Zenon DEF Place
    <3>3. At(r, t).payload = <<K, j>>
      BY <1>2, <1>3, Zenon DEF z
    <3> QED BY <2>1, <3>1, <3>2, <3>3, Zenon
  <2>2. CASE i # t
    <3>1. i \in a..t - 1 /\ i + 1 \in a..t
      BY <1>1, <2>2
    <3>2. Place(r, i + 1, y) = Place(e, i + 1, z)
      BY <1>6, <3>1, Zenon
    <3> QED BY <1>3, <1>4, <3>1, <3>2, Zenon
  <2> QED BY <2>1, <2>2, Zenon
<1>8. t + 1 - 1 = t /\ t + 1 >= t
  BY <1>1
<1>9. Chain(r, S, K, y)
  <2>1. Top(r) - 1 = t
    BY <1>1, <1>3
  <2> QED BY <1>7, <1>a, <2>1, Zenon DEF Chain
<1> QED BY <1>3, <1>5, <1>6, <1>8, <1>9, Zenon DEF z

\* The states of the loop of OnSdu.
Handed(e, K, n, k, h) ==
  h = [i \in 0..k |-> IF i = 0 THEN e ELSE data_request(h[i - 1], Segment(K, n, i))]

\* The loop of OnSdu has such states.
LEMMA HandedExists ==
  ASSUME NEW e, NEW K, NEW n \in Nat
  PROVE  \E h : Handed(e, K, n, n, h)
<1> DEFINE T == {k \in 0..n : \E h : Handed(e, K, n, k, h)}
<1>1. 0 \in T
  <2> DEFINE h == [i \in 0..0 |-> e]
  <2>1. Handed(e, K, n, 0, h)
    BY DEF Handed
  <2> QED BY <2>1
<1>2. ASSUME NEW k \in 0..n - 1, k \in T PROVE k + 1 \in T
  <2>1. PICK h : Handed(e, K, n, k, h)
    BY <1>2, Zenon
  <2> DEFINE g == [i \in 0..k + 1 |-> IF i <= k THEN h[i] ELSE data_request(h[k], Segment(K, n, k + 1))]
             t == [i \in 0..k + 1 |-> IF i = 0 THEN e ELSE data_request(g[i - 1], Segment(K, n, i))]
  <2>2. \A i \in 0..k : h[i] = IF i = 0 THEN e ELSE data_request(h[i - 1], Segment(K, n, i))
    BY <2>1, Zenon DEF Handed
  <2>3. ASSUME NEW i \in 0..k + 1 PROVE g[i] = t[i]
    <3>1. CASE i = 0
      BY <2>2, <3>1
    <3>2. CASE i \in 1..k
      <4>1. h[i] = data_request(h[i - 1], Segment(K, n, i))
        BY <2>2, <3>2
      <4>2. g[i] = h[i] /\ g[i - 1] = h[i - 1]
        BY <3>2
      <4>3. i # 0
        BY <3>2
      <4> HIDE DEF g
      <4>4. t[i] = data_request(g[i - 1], Segment(K, n, i))
        BY <4>3, Zenon
      <4> QED BY <4>1, <4>2, <4>4, Zenon
    <3>3. CASE i = k + 1
      <4>1. g[i] = data_request(h[k], Segment(K, n, k + 1)) /\ g[i - 1] = h[k] /\ i # 0
        BY <3>3
      <4> HIDE DEF g
      <4>4. t[i] = data_request(g[i - 1], Segment(K, n, i))
        BY <4>1, Zenon
      <4> QED BY <3>3, <4>1, <4>4, Zenon
    <3> QED BY <3>1, <3>2, <3>3
  <2>4. g = t
    BY <2>3, Zenon
  <2>5. Handed(e, K, n, k + 1, g)
    BY <2>4, Zenon DEF Handed
  <2> QED BY <2>5
<1> HIDE DEF T
<1>3. n \in T
  BY <1>1, <1>2, Induction
<1> QED BY <1>3, Zenon DEF T

\* r is e after some of the segments of SDU K of sizes S were handed to data_request, and the
\* next segment is y.
Gave(e, r, S, K, y) ==
  /\ Same(e, r, Requesting) /\ Ready(r) /\ (e.lapped => r.lapped) /\ (e.overtaken => r.overtaken)
  /\ Good(e) /\ ~r.lapped =>
       /\ Good(r) /\ Keeps(e, r)
       /\ ~r.overtaken /\ Chain(e, S, K - 1, <<K, 1>>) =>
            /\ Chain(r, S, K, y) /\ Top(r) >= Top(e)
            /\ \A x \in e.expected_ack_seq..Top(e) : Place(r, x, y) = Place(e, x, <<K, 1>>)

\* OnSdu before the first data_request.
LEMMA GaveNone ==
  ASSUME NEW e, Ready(e), NEW S, NEW K \in Nat \ {0}
  PROVE  Gave(e, e, S, K, <<K, 1>>)
<1>1. Same(e, e, Requesting)
  BY Zenon DEF Ready, Same
<1>2. ASSUME Good(e) PROVE Keeps(e, e) /\ Top(e) >= Top(e)
  <2>1. Top(e) \in Int /\ e.next_tx_seq \in Int /\ e.expected_ack_seq \in Int
    BY <1>2, TopIs, Zenon
  <2>2. e.next_tx_seq >= e.next_tx_seq /\ e.expected_ack_seq >= e.expected_ack_seq /\ Top(e) >= Top(e)
    BY <2>1
  <2> QED BY <2>2, Zenon DEF Keeps
<1>3. \A k \in 1..K - 1 : k \in 1..K
  OBVIOUS
<1>4. Chain(e, S, K - 1, <<K, 1>>) => Chain(e, S, K, <<K, 1>>)
  BY <1>3, Zenon DEF Chain
<1> QED BY <1>1, <1>2, <1>4, Zenon DEF Gave

\* OnSdu hands one segment more to data_request.
LEMMA GaveOne ==
  ASSUME NEW e, Flags(e), NEW x, NEW S, NEW K \in Nat \ {0}, NEW j \in 1..S[K], Gave(e, x, S, K, <<K, j>>)
  PROVE  Gave(e, data_request(x, Segment(K, S[K], j)), S, K, After(S, <<K, j>>))
<1> DEFINE s == Segment(K, S[K], j)
           r == data_request(x, s)
           y == After(S, <<K, j>>)
           z == <<K, j>>
<1>1. Same(e, x, Requesting) /\ Ready(x) /\ (e.lapped => x.lapped) /\ (e.overtaken => x.overtaken)
  BY Zenon DEF Gave
<1>2. /\ x.on_empty = e.on_empty /\ x.local_busy = e.local_busy /\ x.rx_state = e.rx_state
      /\ x.tx_state = e.tx_state /\ x.expected_ack_seq = e.expected_ack_seq
  BY <1>1, Zenon DEF Same, Fields, Requesting, Numbering
<1>3. Flags(x)
  BY <1>2, Zenon DEF Flags
<1>4. /\ Same(x, r, Requesting) /\ Ready(r) /\ (x.lapped => r.lapped) /\ (x.overtaken => r.overtaken)
      /\ Good(x) /\ ~r.lapped => Good(r) /\ Keeps(x, r) /\ (~r.overtaken => Grows(x, s, r))
  BY <1>1, <1>3, Requests, Zenon
<1> HIDE DEF r
<1>5. Same(e, r, Requesting)
  BY <1>1, <1>4, Zenon DEF Same
<1>6. r.expected_ack_seq = x.expected_ack_seq
  BY <1>4, Zenon DEF Same, Fields, Requesting, Numbering
<1>7. ASSUME Good(e), ~r.lapped
      PROVE  /\ Good(r) /\ Keeps(e, r)
             /\ ~r.overtaken /\ Chain(e, S, K - 1, <<K, 1>>) =>
                  /\ Chain(r, S, K, y) /\ Top(r) >= Top(e)
                  /\ \A i \in e.expected_ack_seq..Top(e) : Place(r, i, y) = Place(e, i, <<K, 1>>)
  <2>1. Good(x) /\ Keeps(e, x) /\ Good(r) /\ Keeps(x, r)
    BY <1>4, <1>7, Zenon DEF Gave
  <2>2. /\ Top(e) \in Int /\ e.next_tx_seq \in Int /\ e.expected_ack_seq \in Int
        /\ Top(x) \in Int /\ x.next_tx_seq \in Int /\ Top(r) \in Int /\ r.next_tx_seq \in Int
    BY <1>7, <2>1, TopIs, Zenon
  <2>3. Keeps(e, r)
    <3>1. r.next_tx_seq >= x.next_tx_seq /\ x.next_tx_seq >= e.next_tx_seq
      BY <2>1, Zenon DEF Keeps
    <3>2. r.next_tx_seq >= e.next_tx_seq
      BY <2>2, <3>1
    <3>3. \A i \in e.expected_ack_seq..e.next_tx_seq - 1 : i \in e.expected_ack_seq..x.next_tx_seq - 1
      BY <2>2, <3>1
    <3> QED BY <1>2, <1>6, <2>1, <3>2, <3>3, Zenon DEF Keeps
  <2>4. ASSUME ~r.overtaken, Chain(e, S, K - 1, <<K, 1>>)
        PROVE  /\ Chain(r, S, K, y) /\ Top(r) >= Top(e)
               /\ \A i \in e.expected_ack_seq..Top(e) : Place(r, i, y) = Place(e, i, <<K, 1>>)
    <3>1. /\ Chain(x, S, K, z) /\ Top(x) >= Top(e)
          /\ \A i \in e.expected_ack_seq..Top(e) : Place(x, i, z) = Place(e, i, <<K, 1>>)
      BY <1>4, <1>7, <2>4, Zenon DEF Gave
    <3>2. Grows(x, s, r)
      BY <1>4, <1>7, <2>1, <2>4, Zenon
    <3>3. /\ Chain(r, S, K, y) /\ Top(r) >= Top(x)
          /\ \A i \in x.expected_ack_seq..Top(x) : Place(r, i, y) = Place(x, i, z)
      <4>1. Good(x) /\ r.expected_ack_seq = x.expected_ack_seq /\ Chain(x, S, K, <<K, j>>)
            /\ Grows(x, Segment(K, S[K], j), r)
        BY <1>6, <2>1, <3>1, <3>2, Zenon
      <4> QED BY ONLY K \in Nat \ {0}, j \in 1..S[K], <4>1, ChainGrows
    <3>4. Top(r) >= Top(e) /\ \A i \in e.expected_ack_seq..Top(e) : i \in e.expected_ack_seq..Top(x)
      BY <2>2, <3>1, <3>3
    <3> QED BY <1>2, <3>1, <3>3, <3>4, Zenon
  <2> QED BY <2>1, <2>3, <2>4, Zenon
<1>8. Gave(e, r, S, K, y)
  BY <1>1, <1>4, <1>5, <1>7, Zenon DEF Gave
<1> QED BY <1>8, Zenon DEF r

\* OnSdu has handed over the whole SDU.
LEMMA GaveAll ==
  ASSUME NEW e, Ready(e), Flags(e), NEW S, NEW K \in Nat \ {0}, S[K] \in Nat \ {0},
         NEW h, Handed(e, K, S[K], S[K], h)
  PROVE  Gave(e, h[S[K]], S, K, <<K + 1, 1>>)
<1> DEFINE n == S[K]
           Y(i) == IF i = n THEN <<K + 1, 1>> ELSE <<K, i + 1>>
           T == {i \in 0..n : Gave(e, h[i], S, K, Y(i))}
<1>1. n \in Nat \ {0}
  BY Zenon
<1>2. \A i \in 0..n : h[i] = IF i = 0 THEN e ELSE data_request(h[i - 1], Segment(K, n, i))
  BY Zenon DEF Handed
<1>3. 0 \in T
  <2>1. Y(0) = <<K, 1>> /\ h[0] = e /\ 0 \in 0..n
    BY <1>1, <1>2
  <2>2. Gave(e, e, S, K, <<K, 1>>)
    BY GaveNone, Zenon
  <2> QED BY <2>1, <2>2, Zenon
<1>4. ASSUME NEW i \in 0..n - 1, i \in T PROVE i + 1 \in T
  <2>1. i + 1 \in 0..n /\ i + 1 # 0 /\ (i + 1) - 1 = i /\ i + 1 \in 1..S[K] /\ i # n
    BY <1>1
  <2>2. h[i + 1] = data_request(h[i], Segment(K, S[K], i + 1))
    BY <1>2, <2>1, Zenon
  <2>3. Gave(e, h[i], S, K, <<K, i + 1>>)
    BY <1>4, <2>1, Zenon
  <2>4. Gave(e, h[i + 1], S, K, After(S, <<K, i + 1>>))
    BY <2>1, <2>2, <2>3, GaveOne, Zenon
  <2>5. After(S, <<K, i + 1>>) = Y(i + 1)
    BY <1>1, <2>1 DEF After
  <2> QED BY <2>1, <2>4, <2>5, Zenon
<1> HIDE DEF T
<1>5. n \in T
  <2>1. \A i \in 0..n : i \in T
    BY <1>1, <1>3, <1>4, Induction
  <2>2. n \in 0..n
    BY <1>1
  <2> QED BY <2>1, <2>2, Zenon
<1> QED BY <1>5, Zenon DEF T
-----------------------------------------------------------------------------
\* There are two peers.
LEMMA TwoPeers ==
  ASSUME NEW p \in Peers
  PROVE  /\ Peer(p) \in Peers /\ Peer(p) # p /\ Peer(Peer(p)) = p
         /\ \A x \in Peers : x = p \/ x = Peer(p)
<1>1. PICK a \in Peers, b \in Peers : a # b /\ Peers = {a, b}
  BY ErtmAssumption, Zenon
<1>2. \A x \in Peers : x = a \/ x = b
  BY <1>1
<1>3. \A x \in Peers : Peer(x) \in Peers /\ Peer(x) # x
  <2> SUFFICES ASSUME NEW x \in Peers PROVE Peer(x) \in Peers /\ Peer(x) # x
    OBVIOUS
  <2>1. \E y \in Peers : y # x
    BY <1>1, <1>2, Zenon
  <2> QED BY <2>1, Zenon DEF Peer
<1> QED BY <1>1, <1>2, <1>3, Zenon

\* Moved is more than Keeps.
LEMMA MovedKeeps ==
  ASSUME NEW e, NEW r, Good(e), Good(r), Moved(e, r)
  PROVE  Keeps(e, r)
<1>1. /\ r.next_tx_seq >= e.next_tx_seq /\ r.expected_ack_seq >= e.expected_ack_seq /\ Top(r) = Top(e)
      /\ \A i \in r.expected_ack_seq..Top(e) - 1 : At(r, i) = At(e, i)
  BY Zenon DEF Moved
<1>2. /\ Top(e) \in Int /\ e.next_tx_seq \in Int /\ e.next_tx_seq <= Top(e)
      /\ r.next_tx_seq \in Int /\ r.expected_ack_seq \in Int
  BY TopIs, Zenon
<1>3. ASSUME NEW i \in r.expected_ack_seq..e.next_tx_seq - 1 PROVE r.unacked_list[i] = e.unacked_list[i]
  <2>1. i \in r.expected_ack_seq..Top(e) - 1 /\ i < e.next_tx_seq /\ i < r.next_tx_seq
    BY <1>1, <1>2
  <2>2. At(r, i) = r.unacked_list[i] /\ At(e, i) = e.unacked_list[i]
    BY <2>1, Zenon DEF At
  <2> QED BY <1>1, <2>1, <2>2, Zenon
<1> QED BY <1>1, <1>3, Zenon DEF Keeps

\* Frames taken from the link: those that are left were there.
Shorter(q, t) == t = q \/ (q # << >> /\ t = Tail(q))

\* Where the frames that are left stood.
LEMMA ShorterIs ==
  ASSUME NEW q, IsSeq(q), NEW t, Shorter(q, t)
  PROVE  /\ IsSeq(t) /\ Len(t) \in Nat
         /\ \E k \in {0, 1} : \A i \in 1..Len(t) : i + k \in 1..Len(q) /\ t[i] = q[i + k]
<1>1. CASE t = q
  <2>1. Len(q) \in Nat
    BY DEF IsSeq
  <2>2. \A i \in 1..Len(q) : i + 0 = i
    BY <2>1
  <2> QED BY <1>1, <2>1, <2>2, Zenon
<1>2. CASE q # << >> /\ t = Tail(q)
  <2>1. /\ IsSeq(Tail(q)) /\ Len(q) \in Nat \ {0} /\ Len(Tail(q)) = Len(q) - 1
        /\ \A i \in 1..Len(q) - 1 : Tail(q)[i] = q[i + 1]
    BY <1>2, Taken, Zenon
  <2>2. IsSeq(t) /\ Len(t) = Len(q) - 1 /\ \A i \in 1..Len(q) - 1 : t[i] = q[i + 1]
    BY <1>2, <2>1, Zenon
  <2>3. Len(t) \in Nat /\ \A i \in 1..Len(t) : i + 1 \in 1..Len(q) /\ i \in 1..Len(q) - 1
    <3> DEFINE l == Len(q)
               m == Len(t)
    <3>1. l \in Nat \ {0} /\ m = l - 1
      BY <2>1, <2>2, Zenon
    <3> HIDE DEF l, m
    <3>2. m \in Nat /\ \A i \in 1..m : i + 1 \in 1..l /\ i \in 1..l - 1
      BY <3>1
    <3> QED BY <3>2, Zenon DEF l, m
  <2> QED BY <2>2, <2>3, Zenon
<1> QED BY <1>1, <1>2, Zenon DEF Shorter

\* The sender's side of a direction when its controller has run.
LEMMA SenderRuns ==
  ASSUME NEW e, NEW r, NEW t, NEW back, NEW forth, NEW left, IsSeq(back), IsSeq(forth), Shorter(back, left),
         Good(e), Good(t), Keeps(e, t), Direction(e, r, back, forth), r.expected_tx_seq \in Int,
         t.expected_ack_seq <= r.expected_tx_seq,
         \A i \in 1..Len(left) : t.expected_ack_seq <= left[i].req_seq
  PROVE  Direction(t, r, left, forth \o t.out) /\ IsSeq(forth \o t.out)
<1> DEFINE ea == e.expected_ack_seq
           ta == t.expected_ack_seq
           en == e.next_tx_seq
           tn == t.next_tx_seq
           x == r.expected_tx_seq
           new == forth \o t.out
<1>1. ea \in Int /\ en \in Int /\ ta \in Int /\ tn \in Int /\ ta <= tn /\ 0 <= ta
  BY TopIs, Zenon
<1>2. tn >= en /\ ta >= ea /\ \A i \in ta..en - 1 : t.unacked_list[i] = e.unacked_list[i]
  BY Zenon DEF Keeps
<1>3. /\ ea <= x /\ x <= en /\ x \in Int /\ ta <= x
      /\ \A i \in 1..Len(back) : back[i].req_seq \in ea..x
      /\ \A i, j \in 1..Len(back) : i < j => back[i].req_seq <= back[j].req_seq
      /\ \A i \in 1..Len(forth) :
           forth[i].type = "I" => /\ forth[i].tx_seq \in 0..en - 1
                                  /\ forth[i].tx_seq >= ea => Carries(forth[i], e.unacked_list[forth[i].tx_seq])
  BY Zenon DEF Direction
<1>4. IsSeq(t.out) /\ \A i \in 1..Len(t.out) : Sendable(t, t.out[i])
  BY Zenon DEF Good
<1> DEFINE lf == Len(forth)
           lo == Len(t.out)
           ll == Len(left)
<1>5. /\ IsSeq(new) /\ lf \in Nat /\ lo \in Nat /\ Len(new) = lf + lo
      /\ \A i \in 1..lf : new[i] = forth[i]
      /\ \A i \in 1..lo : new[lf + i] = t.out[i]
  <2>1. IsSeq(forth) /\ IsSeq(t.out)
    BY <1>4, Zenon
  <2>2. /\ IsSeq(forth \o t.out) /\ Len(forth) \in Nat /\ Len(t.out) \in Nat
        /\ Len(forth \o t.out) = Len(forth) + Len(t.out)
        /\ \A i \in 1..Len(forth) : (forth \o t.out)[i] = forth[i]
        /\ \A i \in 1..Len(t.out) : (forth \o t.out)[Len(forth) + i] = t.out[i]
    BY ONLY <2>1, JoinedOut, SMTT(30)
  <2> QED BY <2>2, Zenon
<1>6. PICK k \in {0, 1} : \A i \in 1..ll : i + k \in 1..Len(back) /\ left[i] = back[i + k]
  BY ShorterIs, Zenon
<1>7. ll \in Nat
  BY ShorterIs, Zenon
<1>8. \A i \in 1..ll : ta <= left[i].req_seq
  BY Zenon
<1> HIDE DEF ea, ta, en, tn, x, new, lf, lo, ll
<1>9. ta <= x /\ x <= tn
  BY <1>1, <1>2, <1>3
<1>10. ASSUME NEW i \in 1..ll PROVE left[i].req_seq \in ta..x
  <2>1. left[i].req_seq \in ea..x /\ ta <= left[i].req_seq
    BY <1>3, <1>6, <1>8, Zenon
  <2> QED BY <1>1, <1>3, <2>1
<1>11. ASSUME NEW i \in 1..ll, NEW j \in 1..ll, i < j PROVE left[i].req_seq <= left[j].req_seq
  <2>1. /\ i + k \in 1..Len(back) /\ left[i] = back[i + k]
        /\ j + k \in 1..Len(back) /\ left[j] = back[j + k]
    BY <1>6, Zenon
  <2>2. i + k < j + k
    BY <1>7, <1>11
  <2> QED BY <1>3, <2>1, <2>2, Zenon
<1>12. ASSUME NEW m, m.type = "I", m.tx_seq \in 0..en - 1, m.tx_seq >= ea => Carries(m, e.unacked_list[m.tx_seq])
       PROVE  m.tx_seq \in 0..tn - 1 /\ (m.tx_seq >= ta => Carries(m, t.unacked_list[m.tx_seq]))
  <2>1. m.tx_seq \in 0..tn - 1
    BY <1>1, <1>2, <1>12
  <2>2. ASSUME m.tx_seq >= ta PROVE Carries(m, t.unacked_list[m.tx_seq])
    <3>1. m.tx_seq >= ea /\ m.tx_seq \in ta..en - 1
      BY <1>1, <1>2, <1>12, <2>2
    <3> QED BY <1>2, <1>12, <3>1, Zenon
  <2> QED BY <2>1, <2>2, Zenon
<1>13. ASSUME NEW m, m.type = "I", Sendable(t, m)
       PROVE  m.tx_seq \in 0..tn - 1 /\ (m.tx_seq >= ta => Carries(m, t.unacked_list[m.tx_seq]))
  <2>1. m.tx_seq \in ta..tn - 1 /\ Carries(m, t.unacked_list[m.tx_seq])
    BY <1>13, Zenon DEF Sendable, ta, tn
  <2>2. m.tx_seq \in 0..tn - 1
    BY <1>1, <2>1
  <2> QED BY <2>1, <2>2, Zenon
<1>14. ASSUME NEW i \in 1..lf + lo, new[i].type = "I"
       PROVE  /\ new[i].tx_seq \in 0..tn - 1
              /\ new[i].tx_seq >= ta => Carries(new[i], t.unacked_list[new[i].tx_seq])
  <2>1. CASE i \in 1..lf
    <3>1. new[i] = forth[i]
      BY <1>5, <2>1, Zenon
    <3>2. /\ forth[i].type = "I" /\ forth[i].tx_seq \in 0..en - 1
          /\ forth[i].tx_seq >= ea => Carries(forth[i], e.unacked_list[forth[i].tx_seq])
      BY <1>3, <1>14, <2>1, <3>1, Zenon DEF lf
    <3> QED BY <1>12, <3>1, <3>2, Zenon
  <2>2. CASE i \notin 1..lf
    <3>1. i - lf \in 1..lo /\ lf + (i - lf) = i
      BY <1>5, <2>2
    <3>2. new[i] = t.out[i - lf] /\ Sendable(t, t.out[i - lf])
      BY <1>4, <1>5, <3>1, Zenon DEF lo
    <3> QED BY <1>13, <1>14, <3>2, Zenon
  <2> QED BY <2>1, <2>2, Zenon
<1>15. Direction(t, r, left, new)
  BY <1>5, <1>9, <1>10, <1>11, <1>14, Zenon DEF Direction, ta, tn, x, ll
<1> QED BY <1>5, <1>15, Zenon DEF new

\* The receiver's side of a direction when its controller has run.
LEMMA ReceiverRuns ==
  ASSUME NEW s, NEW e, NEW t, NEW back, NEW forth, NEW left, IsSeq(back), IsSeq(forth), Shorter(forth, left),
         Good(s), Good(t), Direction(s, e, back, forth), e.expected_tx_seq \in Int,
         e.expected_tx_seq <= t.expected_tx_seq, t.expected_tx_seq <= s.next_tx_seq
  PROVE  Direction(s, t, back \o t.out, left)
<1> DEFINE a == s.expected_ack_seq
           n == s.next_tx_seq
           x == e.expected_tx_seq
           y == t.expected_tx_seq
           new == back \o t.out
           lb == Len(back)
           lo == Len(t.out)
           ll == Len(left)
<1>1. a \in Int /\ n \in Int /\ x \in Int /\ x <= y /\ y <= n /\ y \in Int
  <2>1. Numbers(t)
    BY Zenon DEF Good
  <2>2. y \in Int
    BY <2>1 DEF Numbers
  <2>3. a \in Int /\ n \in Int
    BY TopIs, Zenon
  <2> QED BY <2>2, <2>3, Zenon
<1>2. /\ a <= x /\ x <= n
      /\ \A i \in 1..lb : back[i].req_seq \in a..x
      /\ \A i, j \in 1..lb : i < j => back[i].req_seq <= back[j].req_seq
      /\ \A i \in 1..Len(forth) :
           forth[i].type = "I" => /\ forth[i].tx_seq \in 0..n - 1
                                  /\ forth[i].tx_seq >= a => Carries(forth[i], s.unacked_list[forth[i].tx_seq])
  BY Zenon DEF Direction
<1>3. IsSeq(t.out) /\ \A i \in 1..lo : t.out[i].req_seq = y
  BY Zenon DEF Good, Sendable
<1>4. /\ IsSeq(new) /\ lb \in Nat /\ lo \in Nat /\ Len(new) = lb + lo
      /\ \A i \in 1..lb : new[i] = back[i]
      /\ \A i \in 1..lo : new[lb + i] = t.out[i]
  <2>1. IsSeq(back) /\ IsSeq(t.out)
    BY <1>3, Zenon
  <2>2. /\ IsSeq(back \o t.out) /\ Len(back) \in Nat /\ Len(t.out) \in Nat
        /\ Len(back \o t.out) = Len(back) + Len(t.out)
        /\ \A i \in 1..Len(back) : (back \o t.out)[i] = back[i]
        /\ \A i \in 1..Len(t.out) : (back \o t.out)[Len(back) + i] = t.out[i]
    BY ONLY <2>1, JoinedOut
  <2> QED BY <2>2, Zenon
<1>5. PICK k \in {0, 1} : \A i \in 1..ll : i + k \in 1..Len(forth) /\ left[i] = forth[i + k]
  BY ShorterIs, Zenon
<1> HIDE DEF a, n, x, y, new, lb, lo, ll
<1>6. ASSUME NEW i \in 1..lb + lo PROVE \/ i \in 1..lb /\ new[i].req_seq = back[i].req_seq /\ new[i].req_seq \in a..x
                                        \/ i \notin 1..lb /\ new[i].req_seq = y
  <2>1. CASE i \in 1..lb
    BY <1>2, <1>4, <2>1, Zenon
  <2>2. CASE i \notin 1..lb
    <3>1. i - lb \in 1..lo /\ lb + (i - lb) = i
      BY <1>4, <2>2
    <3>2. new[i] = t.out[i - lb]
      BY <1>4, <3>1, Zenon
    <3> QED BY <1>3, <2>2, <3>1, <3>2, Zenon
  <2> QED BY <2>1, <2>2, Zenon
<1>7. ASSUME NEW i \in 1..lb + lo PROVE new[i].req_seq \in a..y
  <2>1. new[i].req_seq \in a..x \/ new[i].req_seq = y
    BY <1>6, Zenon
  <2> QED BY <1>1, <1>2, <2>1
<1>8. ASSUME NEW i \in 1..lb + lo, NEW j \in 1..lb + lo, i < j PROVE new[i].req_seq <= new[j].req_seq
  <2>1. CASE j \in 1..lb
    <3>1. i \in 1..lb
      BY <1>4, <1>8, <2>1
    <3>2. back[i].req_seq <= back[j].req_seq
      BY <1>2, <1>8, <2>1, <3>1, Zenon
    <3> QED BY <1>4, <2>1, <3>1, <3>2, Zenon
  <2>2. CASE j \notin 1..lb
    <3>1. new[j].req_seq = y /\ new[i].req_seq \in a..y
      BY <1>6, <1>7, <2>2, Zenon
    <3> QED BY <1>1, <3>1
  <2> QED BY <2>1, <2>2, Zenon
<1>9. \A i \in 1..ll :
        left[i].type = "I" => /\ left[i].tx_seq \in 0..n - 1
                              /\ left[i].tx_seq >= a => Carries(left[i], s.unacked_list[left[i].tx_seq])
  BY <1>2, <1>5, Zenon
<1>10. a <= y
  BY <1>1, <1>2
<1>11. Direction(s, t, new, left)
  BY <1>1, <1>4, <1>7, <1>8, <1>9, <1>10, Zenon DEF Direction, a, n, y, ll
<1> QED BY <1>11, Zenon DEF new

-----------------------------------------------------------------------------
\* The order of sequence numbers.
LEMMA AtMost ==
  ASSUME NEW a \in Int, NEW b \in Int, NEW c \in Int, a <= b, b <= c
  PROVE  a <= c
OBVIOUS

\* The number of the next frame that a controller accepts.
LEMMA ExpectedIs ==
  ASSUME NEW e, Good(e)
  PROVE  e.expected_tx_seq \in Int /\ 0 <= e.expected_tx_seq /\ e.expected_tx_seq <= 63
<1>1. Numbers(e)
  BY Zenon DEF Good
<1> QED BY <1>1 DEF Numbers

\* A controller whose PDUs have been handed to the link.
Emptied(t) == [t EXCEPT !.out = << >>]

\* What was handed to the link plays no part in the rest.
LEMMA EmptiedIs ==
  ASSUME NEW t, DOMAIN t = Fields
  PROVE  LET v == Emptied(t)
         IN /\ Same(t, v, {"out"}) /\ v.out = << >>
            /\ Ready(t) => Ready(v)
            /\ Flags(t) => Flags(v)
            /\ Good(t) => Good(v)
            /\ \A r, back, forth : Direction(t, r, back, forth) => Direction(v, r, back, forth)
            /\ \A s, back, forth : Direction(s, t, back, forth) => Direction(s, v, back, forth)
            /\ \A r, d, S, n : Flow(t, r, d, S, n) => Flow(v, r, d, S, n)
            /\ \A s, d, S, n : Flow(s, t, d, S, n) => Flow(s, v, d, S, n)
<1> DEFINE v == Emptied(t)
<1>1. Same(t, v, {"out"}) /\ v.out = << >>
  BY Zenon DEF Same, Emptied, Fields
<1> HIDE DEF v
<1>2. /\ v.next_tx_seq = t.next_tx_seq /\ v.expected_ack_seq = t.expected_ack_seq
      /\ v.expected_tx_seq = t.expected_tx_seq /\ v.buffer_seq = t.buffer_seq
      /\ v.unacked_list = t.unacked_list /\ v.pending_frames = t.pending_frames
      /\ v.unacked_frames = t.unacked_frames
      /\ v.enqueue_buffer = t.enqueue_buffer /\ v.sar_state = t.sar_state
      /\ v.reassembly_stage = t.reassembly_stage /\ v.remaining = t.remaining
      /\ DOMAIN v = Fields
  BY <1>1, Zenon DEF Same, Fields
<1>3. /\ v.on_empty = t.on_empty /\ v.local_busy = t.local_busy /\ v.rx_state = t.rx_state
      /\ v.tx_state = t.tx_state
  BY <1>1, Zenon DEF Same, Fields
<1>4. Ready(t) => Ready(v)
  BY <1>2, Zenon DEF Ready
<1>5. Flags(t) => Flags(v)
  BY <1>3, Zenon DEF Flags
<1>6. Good(t) => Good(v)
  <2>1. IsSeq(v.out) /\ Len(v.out) = 0
    <3>1. << >> \in Seq({}) /\ Len(<< >>) = 0
      OBVIOUS
    <3> QED BY <1>1, <3>1, Zenon DEF IsSeq
  <2>2. \A i \in 1..Len(v.out) : Sendable(v, v.out[i])
    <3>1. 1..0 = {}
      OBVIOUS
    <3> QED BY <2>1, <3>1, Zenon
  <2> QED BY <1>2, <2>1, <2>2, Zenon DEF Good, Numbers
<1>7. \A r, back, forth : Direction(t, r, back, forth) => Direction(v, r, back, forth)
  <2> SUFFICES ASSUME NEW r, NEW back, NEW forth, Direction(t, r, back, forth) PROVE Direction(v, r, back, forth)
    BY Zenon
  <2> QED BY <1>2 DEF Direction
<1>8. \A s, back, forth : Direction(s, t, back, forth) => Direction(s, v, back, forth)
  <2> SUFFICES ASSUME NEW s, NEW back, NEW forth, Direction(s, t, back, forth) PROVE Direction(s, v, back, forth)
    BY Zenon
  <2> QED BY <1>2 DEF Direction
<1>9. Top(v) = Top(t) /\ \A i : At(v, i) = At(t, i)
  BY <1>2, Zenon DEF Top, At
<1>10. \A i, z : Place(v, i, z) = Place(t, i, z)
  BY <1>9, Zenon DEF Place
<1>11. \A S, n, z : Chain(t, S, n, z) => Chain(v, S, n, z)
  BY <1>2, <1>9, <1>10, Zenon DEF Chain
<1>12. \A r, d, S, n : Flow(t, r, d, S, n) => Flow(v, r, d, S, n)
  BY <1>10, <1>11, Zenon DEF Flow
<1>13. \A d : Number(v, d) = Number(t, d) /\ Want(v, d) = Want(t, d)
  BY <1>2, Zenon DEF Number, Want
<1>14. \A d, S : Received(t, d, S) => Received(v, d, S)
  <2> SUFFICES ASSUME NEW d, NEW S, Received(t, d, S) PROVE Received(v, d, S)
    BY Zenon
  <2> QED BY ReceivedSame, <1>2, <1>13, Zenon DEF Received
<1>15. \A s, d, S, n : Flow(s, t, d, S, n) => Flow(s, v, d, S, n)
  BY <1>2, <1>13, <1>14, Zenon DEF Flow
<1> QED BY <1>1, <1>4, <1>5, <1>6, <1>7, <1>8, <1>12, <1>15, Zenon DEF v

\* A step in which the controller of p runs and leaves t, with the frames left still to come:
\* what t has to satisfy for the invariant to hold again.
LEMMA RanInv ==
  ASSUME NEW p \in Peers, NEW t, NEW left, IInv, Ran(p, t, left), Shorter(link[p], left),
         sdus' = sdus, DOMAIN sent' = Peers, DOMAIN delivered' = Peers,
         sent'[p] \in 0..Len(sdus[p]), sent'[Peer(p)] = sent[Peer(p)],
         delivered'[Peer(p)] = delivered[Peer(p)],
         Ready(t), Flags(t), ep[p].lapped => t.lapped, ep[p].overtaken => t.overtaken,
         FirstLap /\ ~t.lapped =>
           /\ Good(t) /\ Keeps(ep[p], t)
           /\ t.expected_ack_seq <= ep[Peer(p)].expected_tx_seq
           /\ \A i \in 1..Len(left) : t.expected_ack_seq <= left[i].req_seq
           /\ ep[p].expected_tx_seq <= t.expected_tx_seq /\ t.expected_tx_seq <= ep[Peer(p)].next_tx_seq,
         FirstLap /\ ~t.lapped /\ ~t.overtaken =>
           Flow(t, ep[Peer(p)], delivered[Peer(p)], sdus[p], sent'[p]),
         FirstLap /\ ~t.lapped /\ ~ep[Peer(p)].overtaken =>
           Flow(ep[Peer(p)], t, delivered'[p], sdus[Peer(p)], sent[Peer(p)]),
         Narrow /\ FirstLap /\ ~t.lapped /\ ~t.overtaken /\ ~ep[Peer(p)].overtaken =>
           "protocol" \notin t.closed_by
  PROVE  IInv'
<1> DEFINE q == Peer(p)
           v == Emptied(t)
<1>1. q \in Peers /\ q # p /\ Peer(q) = p /\ \A x \in Peers : x = p \/ x = q
  BY TwoPeers, Zenon
<1>2. /\ DOMAIN ep = Peers /\ DOMAIN link = Peers
      /\ \A x \in Peers : Ready(ep[x]) /\ ep[x].out = << >> /\ Flags(ep[x]) /\ sent[x] \in 0..Len(sdus[x])
      /\ sdus \in [Peers -> Seq(Nat \ {0})]
  BY Zenon DEF IInv
<1>3. /\ DOMAIN ep' = Peers /\ DOMAIN link' = Peers
      /\ ep'[p] = v /\ ep'[q] = ep[q] /\ link'[p] = left /\ link'[q] = link[q] \o t.out
  <2> DEFINE new == [link EXCEPT ![p] = left, ![q] = @ \o t.out]
  <2>1. ep' = [ep EXCEPT ![p] = v] /\ link' = new
    BY Zenon DEF Ran, Emptied
  <2>2. DOMAIN ep' = Peers /\ ep'[p] = v /\ ep'[q] = ep[q]
    BY <1>1, <1>2, <2>1, Zenon
  <2>3. DOMAIN new = Peers /\ new[p] = left /\ new[q] = link[q] \o t.out
    BY <1>1, <1>2, SMTT(30)
  <2> QED BY <2>1, <2>2, <2>3, Zenon
<1>4. /\ Same(t, v, {"out"}) /\ v.out = << >> /\ Ready(v) /\ Flags(v) /\ (Good(t) => Good(v))
      /\ \A r, back, forth : Direction(t, r, back, forth) => Direction(v, r, back, forth)
      /\ \A s, back, forth : Direction(s, t, back, forth) => Direction(s, v, back, forth)
      /\ \A r, d, S, n : Flow(t, r, d, S, n) => Flow(v, r, d, S, n)
      /\ \A s, d, S, n : Flow(s, t, d, S, n) => Flow(s, v, d, S, n)
  BY EmptiedIs, Zenon DEF Ready
<1>5. v.lapped = t.lapped /\ v.overtaken = t.overtaken /\ v.closed_by = t.closed_by
  BY <1>4, Zenon DEF Same, Fields
<1> HIDE DEF q, v
<1>6. \A x \in Peers : Ready(ep'[x]) /\ ep'[x].out = << >> /\ Flags(ep'[x]) /\ sent'[x] \in 0..Len(sdus'[x])
  BY <1>1, <1>2, <1>3, <1>4, Zenon DEF q
<1>7. ASSUME FirstLap'
      PROVE  /\ FirstLap /\ ~t.lapped
             /\ \A x \in Peers : /\ Good(ep'[x]) /\ IsSeq(link'[x])
                                 /\ Direction(ep'[x], ep'[Peer(x)], link'[x], link'[Peer(x)])
                                 /\ ~ep'[x].overtaken =>
                                      Flow(ep'[x], ep'[Peer(x)], delivered'[Peer(x)], sdus'[x], sent'[x])
  <2>1. \A x \in Peers : ~ep'[x].lapped
    BY <1>7, Zenon DEF FirstLap
  <2>2. FirstLap /\ ~t.lapped
    BY <1>1, <1>3, <1>5, <2>1, Zenon DEF FirstLap
  <2>3. /\ Good(ep[p]) /\ Good(ep[q]) /\ IsSeq(link[p]) /\ IsSeq(link[q])
        /\ Direction(ep[p], ep[q], link[p], link[q]) /\ Direction(ep[q], ep[p], link[q], link[p])
        /\ ~ep[q].overtaken => Flow(ep[q], ep[p], delivered[p], sdus[q], sent[q])
    BY <1>1, <2>2, Zenon DEF IInv, q
  <2>4. /\ Good(t) /\ Keeps(ep[p], t)
        /\ t.expected_ack_seq <= ep[q].expected_tx_seq
        /\ \A i \in 1..Len(left) : t.expected_ack_seq <= left[i].req_seq
        /\ ep[p].expected_tx_seq <= t.expected_tx_seq /\ t.expected_tx_seq <= ep[q].next_tx_seq
    BY <2>2, Zenon DEF q
  <2>5. ep[p].expected_tx_seq \in Int /\ ep[q].expected_tx_seq \in Int
    BY <2>3, ExpectedIs, Zenon
  <2>6. Direction(t, ep[q], left, link[q] \o t.out) /\ IsSeq(link[q] \o t.out)
    BY ONLY <2>3, <2>4, <2>5, Shorter(link[p], left), SenderRuns, SMTT(30)
  <2>7. Direction(ep[q], t, link[q] \o t.out, left)
    BY ONLY <2>3, <2>4, <2>5, Shorter(link[p], left), ReceiverRuns
  <2>8. IsSeq(left)
    BY <2>3, ShorterIs, Zenon
  <2> DEFINE new == link[q] \o t.out
  <2>9. Direction(t, ep[q], left, new) /\ IsSeq(new) /\ Direction(ep[q], t, new, left) /\ link'[q] = new
    BY <1>3, <2>6, <2>7, Zenon
  <2> HIDE DEF new
  <2>10. /\ Good(ep'[p]) /\ IsSeq(link'[p]) /\ Direction(ep'[p], ep'[q], link'[p], link'[q])
         /\ ~ep'[p].overtaken => Flow(ep'[p], ep'[q], delivered'[q], sdus'[p], sent'[p])
    <3>1. Good(ep'[p]) /\ IsSeq(link'[p]) /\ Direction(ep'[p], ep'[q], link'[p], link'[q])
      BY <1>3, <1>4, <2>4, <2>8, <2>9, Zenon
    <3>2. ASSUME ~ep'[p].overtaken PROVE Flow(ep'[p], ep'[q], delivered'[q], sdus'[p], sent'[p])
      <4>1. Flow(t, ep[q], delivered[q], sdus[p], sent'[p])
        BY <1>3, <1>5, <2>2, <3>2, Zenon DEF q
      <4> QED BY <1>3, <1>4, <4>1, Zenon DEF q
    <3> QED BY <3>1, <3>2, Zenon
  <2>11. /\ Good(ep'[q]) /\ IsSeq(link'[q]) /\ Direction(ep'[q], ep'[p], link'[q], link'[p])
         /\ ~ep'[q].overtaken => Flow(ep'[q], ep'[p], delivered'[p], sdus'[q], sent'[q])
    <3>1. Good(ep'[q]) /\ IsSeq(link'[q]) /\ Direction(ep'[q], ep'[p], link'[q], link'[p])
      BY <1>3, <1>4, <2>3, <2>9, Zenon
    <3>2. ASSUME ~ep'[q].overtaken PROVE Flow(ep'[q], ep'[p], delivered'[p], sdus'[q], sent'[q])
      <4>1. Flow(ep[q], t, delivered'[p], sdus[q], sent[q])
        BY <1>3, <2>2, <3>2, Zenon DEF q
      <4> QED BY <1>3, <1>4, <4>1, Zenon DEF q
    <3> QED BY <3>1, <3>2, Zenon
  <2>12. Peer(p) = q
    BY Zenon DEF q
  <2> QED BY <1>1, <2>2, <2>10, <2>11, <2>12, Zenon
<1>8. Narrow => NoProtocolError'
  <2> SUFFICES ASSUME Narrow, FirstLap', \A x \in Peers : ~ep'[x].overtaken, NEW x \in Peers
               PROVE  "protocol" \notin ep'[x].closed_by
    BY Zenon DEF NoProtocolError
  <2>1. FirstLap /\ ~t.lapped
    BY <1>7, Zenon
  <2>2. ~t.overtaken /\ ~ep[q].overtaken
    BY <1>1, <1>3, <1>5, Zenon
  <2>3. "protocol" \notin t.closed_by
    BY <2>1, <2>2, Zenon DEF q
  <2>4. \A y \in Peers : ~ep[y].overtaken
    BY <1>1, <2>2, Zenon
  <2>5. NoProtocolError
    BY Zenon DEF IInv
  <2>6. "protocol" \notin ep[q].closed_by
    BY <1>1, <2>1, <2>4, <2>5, Zenon DEF NoProtocolError
  <2> QED BY <1>1, <1>3, <1>5, <2>3, <2>6, Zenon
<1>9. Narrow' <=> Narrow
  BY Zenon DEF Narrow
<1> QED BY <1>2, <1>3, <1>6, <1>7, <1>8, Zenon DEF IInv, Narrow

-----------------------------------------------------------------------------
\* A req_seq between expected_ack_seq_ and next_tx_seq_ is not invalid, when the window is narrow.
LEMMA ValidReqSeq ==
  ASSUME NEW e, Good(e), Narrow, NEW k \in e.expected_ack_seq..e.next_tx_seq
  PROVE  ~with_invalid_req_seq(e, k)
<1> DEFINE a == e.expected_ack_seq
           n == e.next_tx_seq
           w == remote_tx_window_
<1>1. a \in Int /\ n \in Int /\ k \in a..n
  BY TopIs, Zenon
<1>2. e.unacked_frames = n - a /\ e.unacked_frames <= w
  BY Zenon DEF Good
<1>3. w \in Int /\ w <= 54
  BY ErtmAssumption DEF Narrow, kMaxTxWin, local_tx_window_
<1> HIDE DEF a, n, w
<1>4. n - a <= 54
  BY <1>1, <1>2, <1>3
<1>5. ~sequence_less_than(k, a) /\ ~sequence_less_than(n, k)
  BY <1>1, <1>4 DEF sequence_less_than, kMaxTxWin, local_tx_window_
<1> QED BY <1>5, Zenon DEF with_invalid_req_seq, a, n

\* The sender's side of Flow: acknowledging and sending leave the segments as they are.
LEMMA FlowSender ==
  ASSUME NEW e, NEW r, NEW t, NEW d, NEW S, NEW n, Good(e), Good(t), Moved(e, t), Flow(e, r, d, S, n),
         r.expected_tx_seq \in Int, t.expected_ack_seq <= r.expected_tx_seq, r.expected_tx_seq <= e.next_tx_seq
  PROVE  Flow(t, r, d, S, n)
<1> DEFINE z == <<n + 1, 1>>
           ea == e.expected_ack_seq
           ta == t.expected_ack_seq
           x == r.expected_tx_seq
           top == Top(e)
<1>1. /\ top \in Int /\ ea \in Int /\ ta \in Int /\ e.next_tx_seq \in Int /\ e.next_tx_seq <= top
      /\ x \in Int /\ ta <= x /\ x <= e.next_tx_seq
  BY TopIs, Zenon
<1>2. ta >= ea /\ Top(t) = top /\ \A i \in ta..top - 1 : At(t, i) = At(e, i)
  BY Zenon DEF Moved
<1>3. /\ Chain(e, S, n, z) /\ Received(r, d, S) /\ Place(e, x, z) = Want(r, d)
  BY Zenon DEF Flow
<1> HIDE DEF ea, ta, x, top, z
<1>4. ASSUME NEW i \in ta..top PROVE Place(t, i, z) = Place(e, i, z)
  <2>1. CASE i = top
    BY <1>2, <2>1, Zenon DEF Place, top
  <2>2. CASE i # top
    <3>1. i \in ta..top - 1
      BY <1>1, <2>2
    <3> QED BY <1>2, <2>2, <3>1, Zenon DEF Place, top
  <2> QED BY <2>1, <2>2, Zenon
<1>5. ASSUME NEW i \in ta..top - 1
      PROVE  /\ \E k \in 1..n : \E j \in 1..S[k] : At(t, i) = Segment(k, S[k], j)
             /\ Place(t, i + 1, z) = After(S, At(t, i).payload)
  <2>1. i \in ea..top - 1 /\ i + 1 \in ta..top
    BY <1>1, <1>2
  <2>2. /\ \E k \in 1..n : \E j \in 1..S[k] : At(e, i) = Segment(k, S[k], j)
        /\ Place(e, i + 1, z) = After(S, At(e, i).payload)
    BY <1>3, <2>1, Zenon DEF Chain, ea, top
  <2>3. At(t, i) = At(e, i) /\ Place(t, i + 1, z) = Place(e, i + 1, z)
    BY <1>2, <1>4, <2>1, Zenon
  <2> QED BY <2>2, <2>3, Zenon
<1>6. Chain(t, S, n, z)
  BY <1>2, <1>5, Zenon DEF Chain, ta, top
<1>7. x \in ta..top
  BY <1>1
<1>8. Place(t, x, z) = Want(r, d)
  BY <1>3, <1>4, <1>7, Zenon
<1> QED BY <1>3, <1>6, <1>8, Zenon DEF Flow, x, z

\* The receiver's side of Flow: a handler that accepts no I-frame.
LEMMA FlowReceiver ==
  ASSUME NEW s, NEW e, NEW t, NEW d, NEW S, NEW n, Flow(s, e, d, S, n), \A f \in Receiving : t[f] = e[f]
  PROVE  Flow(s, t, d, S, n)
<1>1. /\ t.expected_tx_seq = e.expected_tx_seq /\ t.enqueue_buffer = e.enqueue_buffer
      /\ t.sar_state = e.sar_state /\ t.reassembly_stage = e.reassembly_stage /\ t.remaining = e.remaining
  BY Zenon DEF Receiving
<1>2. Want(t, d) = Want(e, d) /\ (Received(e, d, S) => Received(t, d, S))
  BY <1>1, ReceivedSame, Zenon
<1> QED BY <1>1, <1>2, Zenon DEF Flow

\* What the invariant says of p and its peer within one lap.
LEMMA Both ==
  ASSUME IInv, FirstLap, NEW p \in Peers
  PROVE  LET e == ep[p]
             s == ep[Peer(p)]
         IN  /\ Good(e) /\ Good(s) /\ IsSeq(link[p]) /\ IsSeq(link[Peer(p)])
             /\ Direction(e, s, link[p], link[Peer(p)]) /\ Direction(s, e, link[Peer(p)], link[p])
             /\ ~e.overtaken => Flow(e, s, delivered[Peer(p)], sdus[p], sent[p])
             /\ ~s.overtaken => Flow(s, e, delivered[p], sdus[Peer(p)], sent[Peer(p)])
             /\ e.expected_ack_seq \in Int /\ e.next_tx_seq \in Int /\ e.expected_tx_seq \in Int
             /\ s.expected_ack_seq \in Int /\ s.next_tx_seq \in Int /\ s.expected_tx_seq \in Int
             /\ e.expected_ack_seq <= s.expected_tx_seq /\ s.expected_tx_seq <= e.next_tx_seq
             /\ s.expected_ack_seq <= e.expected_tx_seq /\ e.expected_tx_seq <= s.next_tx_seq
             /\ ~e.lapped /\ ~s.lapped
<1> DEFINE q == Peer(p)
           e == ep[p]
           s == ep[q]
<1>1. q \in Peers /\ Peer(q) = p
  BY TwoPeers, Zenon
<1>2. /\ Good(e) /\ Good(s) /\ IsSeq(link[p]) /\ IsSeq(link[q])
      /\ Direction(e, s, link[p], link[q]) /\ Direction(s, e, link[q], link[p])
      /\ ~e.overtaken => Flow(e, s, delivered[q], sdus[p], sent[p])
      /\ ~s.overtaken => Flow(s, e, delivered[p], sdus[q], sent[q])
  BY <1>1, Zenon DEF IInv
<1>3. ~e.lapped /\ ~s.lapped
  BY <1>1, Zenon DEF FirstLap
<1> HIDE DEF q, e, s
<1>4. /\ e.expected_ack_seq \in Int /\ e.next_tx_seq \in Int /\ e.expected_tx_seq \in Int
      /\ s.expected_ack_seq \in Int /\ s.next_tx_seq \in Int /\ s.expected_tx_seq \in Int
  BY <1>2, TopIs, ExpectedIs, Zenon
<1>5. /\ e.expected_ack_seq <= s.expected_tx_seq /\ s.expected_tx_seq <= e.next_tx_seq
      /\ s.expected_ack_seq <= e.expected_tx_seq /\ e.expected_tx_seq <= s.next_tx_seq
  BY <1>2, Zenon DEF Direction
<1> QED BY <1>2, <1>3, <1>4, <1>5, Zenon DEF q, e, s

\* A handler of p that accepts no I-frame ran.
LEMMA AnswersInv ==
  ASSUME IInv, NEW p \in Peers, NEW t, NEW left, NEW k, Ran(p, t, left), Shorter(link[p], left),
         sdus' = sdus, sent' = sent, delivered' = delivered, Answers(ep[p], k, t),
         FirstLap => /\ k \in ep[p].expected_ack_seq..ep[Peer(p)].expected_tx_seq
                     /\ \A i \in 1..Len(left) : left[i].req_seq \in Int /\ k <= left[i].req_seq
  PROVE  IInv'
<1> DEFINE q == Peer(p)
           e == ep[p]
           s == ep[q]
<1>1. /\ DOMAIN sent = Peers /\ DOMAIN delivered = Peers /\ sent[p] \in 0..Len(sdus[p])
      /\ Flags(e) /\ e.out = << >>
  BY Zenon DEF IInv
<1>2. /\ Ready(t) /\ t.overtaken = e.overtaken /\ (e.lapped => t.lapped) /\ Flags(t)
      /\ \A f \in Receiving : t[f] = e[f]
      /\ "protocol" \in t.closed_by => "protocol" \in e.closed_by \/ with_invalid_req_seq(e, k)
      /\ Good(e) /\ e.out = << >> /\ k \in e.expected_ack_seq..e.next_tx_seq /\ ~t.lapped =>
           Good(t) /\ Moved(e, t) /\ t.expected_ack_seq <= k
  BY <1>1, Zenon DEF Answers, Serves
<1>3. t.expected_tx_seq = e.expected_tx_seq
  BY <1>2, Zenon DEF Receiving
<1>4. ASSUME FirstLap
      PROVE  /\ Good(e) /\ Good(s)
             /\ ~e.overtaken => Flow(e, s, delivered[q], sdus[p], sent[p])
             /\ ~s.overtaken => Flow(s, e, delivered[p], sdus[q], sent[q])
             /\ e.expected_ack_seq \in Int /\ e.next_tx_seq \in Int /\ e.expected_tx_seq \in Int
             /\ s.expected_tx_seq \in Int /\ s.next_tx_seq \in Int
             /\ s.expected_tx_seq <= e.next_tx_seq /\ e.expected_tx_seq <= s.next_tx_seq
             /\ k \in e.expected_ack_seq..s.expected_tx_seq
             /\ \A i \in 1..Len(left) : left[i].req_seq \in Int /\ k <= left[i].req_seq
  BY <1>4, Both, Zenon
<1>5. Ran(p, t, left) /\ s = ep[Peer(p)]
  BY Zenon
<1> HIDE DEF q, e, s
<1>6. ASSUME FirstLap PROVE k \in e.expected_ack_seq..e.next_tx_seq /\ k \in Int /\ k <= s.expected_tx_seq
  BY <1>4, <1>6
<1>7. ASSUME FirstLap, ~t.lapped
      PROVE  /\ Good(t) /\ Moved(e, t) /\ Keeps(e, t)
             /\ t.expected_ack_seq <= s.expected_tx_seq
             /\ \A i \in 1..Len(left) : t.expected_ack_seq <= left[i].req_seq
             /\ e.expected_tx_seq <= t.expected_tx_seq /\ t.expected_tx_seq <= s.next_tx_seq
  <2>1. Good(t) /\ Moved(e, t) /\ t.expected_ack_seq <= k
    BY <1>1, <1>2, <1>4, <1>6, <1>7, Zenon DEF e
  <2>2. Keeps(e, t)
    BY <1>4, <1>7, <2>1, MovedKeeps, Zenon
  <2>3. t.expected_ack_seq \in Int
    BY <2>1, TopIs, Zenon
  <2>4. t.expected_ack_seq <= s.expected_tx_seq
    BY <1>4, <1>6, <1>7, <2>1, <2>3, AtMost, Zenon
  <2>5. ASSUME NEW i \in 1..Len(left) PROVE t.expected_ack_seq <= left[i].req_seq
    <3>1. left[i].req_seq \in Int /\ k <= left[i].req_seq /\ k \in Int
      BY <1>4, <1>6, <1>7, <2>5, Zenon
    <3> QED BY <2>1, <2>3, <3>1, AtMost, Zenon
  <2>6. e.expected_tx_seq <= e.expected_tx_seq
    BY <1>4, <1>7
  <2> QED BY <1>3, <1>4, <1>7, <2>1, <2>2, <2>4, <2>5, <2>6, Zenon
<1>8. ASSUME FirstLap, ~t.lapped, ~t.overtaken PROVE Flow(t, s, delivered[q], sdus[p], sent[p])
  BY <1>2, <1>4, <1>7, <1>8, FlowSender, Zenon
<1>9. ASSUME FirstLap, ~s.overtaken PROVE Flow(s, t, delivered[p], sdus[q], sent[q])
  BY <1>2, <1>4, <1>9, FlowReceiver, Zenon
<1>10. ASSUME Narrow, FirstLap, ~t.lapped, ~t.overtaken, ~s.overtaken PROVE "protocol" \notin t.closed_by
  <2>1. ~with_invalid_req_seq(e, k)
    BY <1>4, <1>6, <1>10, ValidReqSeq, Zenon
  <2>2. \A x \in Peers : ~ep[x].overtaken
    BY <1>2, <1>10, TwoPeers, Zenon DEF e, s, q
  <2>3. "protocol" \notin e.closed_by
    BY <1>10, <2>2, Zenon DEF IInv, NoProtocolError, e
  <2> QED BY <1>2, <2>1, <2>3, Zenon
<1>11. sent'[p] = sent[p] /\ sent'[q] = sent[q] /\ delivered'[p] = delivered[p] /\ delivered'[q] = delivered[q]
  OBVIOUS
<1> QED BY <1>1, <1>2, <1>7, <1>8, <1>9, <1>10, <1>11, RanInv, Zenon DEF e, s, q

\* The first frame on the link.
LEMMA HeadIs ==
  ASSUME IInv, FirstLap, NEW p \in Peers, link[p] # << >>
  PROVE  LET m == Head(link[p])
             s == ep[Peer(p)]
         IN  /\ m.req_seq \in ep[p].expected_ack_seq..s.expected_tx_seq
             /\ \A i \in 1..Len(Tail(link[p])) :
                  Tail(link[p])[i].req_seq \in Int /\ m.req_seq <= Tail(link[p])[i].req_seq
             /\ m.type = "I" => /\ m.tx_seq \in 0..s.next_tx_seq - 1
                                /\ m.tx_seq >= s.expected_ack_seq => Carries(m, s.unacked_list[m.tx_seq])
<1> DEFINE b == link[p]
           e == ep[p]
           s == ep[Peer(p)]
           l == Len(b)
<1>1. /\ IsSeq(b) /\ Direction(e, s, b, link[Peer(p)]) /\ Direction(s, e, link[Peer(p)], b)
      /\ e.expected_ack_seq \in Int /\ s.expected_tx_seq \in Int
  BY Both, Zenon
<1>2. b # << >>
  BY Zenon
<1> HIDE DEF b, e, s
<1>3. /\ l \in Nat \ {0} /\ Head(b) = b[1] /\ Len(Tail(b)) = l - 1
      /\ \A i \in 1..l - 1 : Tail(b)[i] = b[i + 1]
  BY <1>1, <1>2, Taken, Zenon
<1>4. /\ \A i \in 1..l : b[i].req_seq \in e.expected_ack_seq..s.expected_tx_seq
      /\ \A i, j \in 1..l : i < j => b[i].req_seq <= b[j].req_seq
  BY <1>1, Zenon DEF Direction
<1>5. \A i \in 1..l :
        b[i].type = "I" => /\ b[i].tx_seq \in 0..s.next_tx_seq - 1
                           /\ b[i].tx_seq >= s.expected_ack_seq => Carries(b[i], s.unacked_list[b[i].tx_seq])
  BY <1>1, Zenon DEF Direction
<1>6. /\ 1 \in 1..l
      /\ \A i \in 1..l - 1 : i + 1 \in 1..l /\ 1 < i + 1
  <2> HIDE DEF l
  <2> QED BY <1>3
<1> HIDE DEF l
<1>7. ASSUME NEW i \in 1..l - 1 PROVE Tail(b)[i].req_seq \in Int /\ Head(b).req_seq <= Tail(b)[i].req_seq
  <2>1. Tail(b)[i] = b[i + 1] /\ i + 1 \in 1..l /\ 1 < i + 1
    BY <1>3, <1>6, Zenon
  <2>2. b[i + 1].req_seq \in e.expected_ack_seq..s.expected_tx_seq /\ b[1].req_seq <= b[i + 1].req_seq
    BY <1>4, <1>6, <2>1, Zenon
  <2>3. b[i + 1].req_seq \in Int
    BY <1>1, <2>2
  <2> QED BY <1>3, <2>1, <2>2, <2>3, Zenon
<1> QED BY <1>3, <1>4, <1>5, <1>6, <1>7, Zenon DEF b, e, s

\* The controller of p accepts the I-frame it waits for.
LEMMA AcceptsInv ==
  ASSUME IInv, NEW p \in Peers, link[p] # << >>, NEW t, Ran(p, t, Tail(link[p])),
         sdus' = sdus, sent' = sent, delivered' = delivered,
         NEW m, m = Head(link[p]), m.type = "I", m.tx_seq = ep[p].expected_tx_seq,
         Accepts(ep[p], m, t), Takes(ep[p], m, t), Flags(t)
  PROVE  IInv'
<1> DEFINE q == Peer(p)
           e == ep[p]
           s == ep[q]
           left == Tail(link[p])
           S == sdus[q]
           d == delivered[p]
           n == sent[q]
           z == <<n + 1, 1>>
           x == e.expected_tx_seq
<1>1. /\ DOMAIN sent = Peers /\ DOMAIN delivered = Peers /\ sent[p] \in 0..Len(sdus[p]) /\ e.out = << >>
      /\ S \in Seq(Nat \ {0}) /\ n \in 0..Len(S)
  BY TwoPeers, Zenon DEF IInv
<1>2. /\ Ready(t) /\ t.overtaken = e.overtaken /\ (e.lapped => t.lapped)
      /\ Good(e) /\ e.out = << >> /\ m.req_seq \in e.expected_ack_seq..e.next_tx_seq
           /\ x < 63 /\ ~t.lapped =>
           /\ Good(t) /\ Moved(e, t) /\ t.expected_ack_seq <= m.req_seq
           /\ t.expected_tx_seq = x + 1
  BY Zenon DEF Accepts
<1>3. ASSUME FirstLap
      PROVE  /\ Good(e) /\ Good(s)
             /\ ~e.overtaken => Flow(e, s, delivered[q], sdus[p], sent[p])
             /\ ~s.overtaken => Flow(s, e, d, S, n)
             /\ e.expected_ack_seq \in Int /\ e.next_tx_seq \in Int /\ x \in Int
             /\ s.expected_tx_seq \in Int /\ s.next_tx_seq \in Int /\ s.expected_ack_seq \in Int
             /\ s.expected_tx_seq <= e.next_tx_seq /\ s.expected_ack_seq <= x
  BY <1>3, Both, Zenon
<1>4. ASSUME FirstLap
      PROVE  /\ m.req_seq \in e.expected_ack_seq..s.expected_tx_seq
             /\ \A i \in 1..Len(left) : left[i].req_seq \in Int /\ m.req_seq <= left[i].req_seq
             /\ x \in 0..s.next_tx_seq - 1
             /\ x >= s.expected_ack_seq => Carries(m, s.unacked_list[x])
  BY <1>4, HeadIs, Zenon
<1>5. Ran(p, t, left) /\ Shorter(link[p], left)
  BY Zenon DEF Shorter
<1>6. \A D : \A k \in 1..Len(S) : \A j \in 1..S[k] :
        Awaited(e, D, S, m, k, j) =>
          /\ Received(t, D, S) /\ Want(t, D) = After(S, <<k, j>>)
          /\ "protocol" \in t.closed_by => "protocol" \in e.closed_by
  BY <1>1, Zenon DEF Takes
<1> HIDE DEF q, e, s, left, S, d, n, z, x
<1>7. ASSUME FirstLap
      PROVE  /\ m.req_seq \in e.expected_ack_seq..e.next_tx_seq /\ m.req_seq \in Int
             /\ m.req_seq <= s.expected_tx_seq
             /\ s.next_tx_seq <= Top(s) /\ Top(s) \in Int /\ x < 63 /\ x < s.next_tx_seq
             /\ x \in s.expected_ack_seq..Top(s) - 1 /\ x # Top(s) /\ x <= x + 1
             /\ x + 1 <= s.next_tx_seq /\ Carries(m, s.unacked_list[x])
  <2>1. s.next_tx_seq <= Top(s) /\ Top(s) \in Int /\ s.next_tx_seq <= 63
    BY <1>3, <1>7, TopIs, Zenon
  <2>2. /\ m.req_seq \in e.expected_ack_seq..e.next_tx_seq /\ m.req_seq \in Int
        /\ m.req_seq <= s.expected_tx_seq
        /\ x < 63 /\ x < s.next_tx_seq /\ x \in s.expected_ack_seq..Top(s) - 1 /\ x # Top(s)
        /\ x >= s.expected_ack_seq /\ x + 1 <= s.next_tx_seq /\ x <= x + 1
    <3> DEFINE k == m.req_seq
               a == e.expected_ack_seq
               b == s.expected_tx_seq
               c == e.next_tx_seq
               f == s.next_tx_seq
               g == s.expected_ack_seq
    <3>1. /\ a \in Int /\ b \in Int /\ c \in Int /\ f \in Int /\ g \in Int /\ x \in Int
          /\ b <= c /\ g <= x /\ k \in a..b /\ x \in 0..f - 1 /\ f <= Top(s) /\ Top(s) \in Int /\ f <= 63
      BY <1>3, <1>4, <1>7, <2>1, Zenon
    <3> HIDE DEF a, b, c, f, g, k
    <3>2. /\ k \in a..c /\ k \in Int /\ k <= b
          /\ x < 63 /\ x < f /\ x \in g..Top(s) - 1 /\ x # Top(s)
          /\ x >= g /\ x + 1 <= f /\ x <= x + 1
      BY <3>1
    <3> QED BY <3>2, Zenon DEF a, b, c, f, g, k
  <2> QED BY <1>4, <1>7, <2>1, <2>2, Zenon
<1>8. ASSUME FirstLap, ~t.lapped
      PROVE  /\ Good(t) /\ Moved(e, t) /\ Keeps(e, t) /\ t.expected_tx_seq = x + 1
             /\ t.expected_ack_seq <= s.expected_tx_seq
             /\ \A i \in 1..Len(left) : t.expected_ack_seq <= left[i].req_seq
             /\ x <= t.expected_tx_seq /\ t.expected_tx_seq <= s.next_tx_seq
  <2>1. Good(t) /\ Moved(e, t) /\ t.expected_ack_seq <= m.req_seq /\ t.expected_tx_seq = x + 1
    BY <1>1, <1>2, <1>3, <1>7, <1>8, Zenon
  <2>2. Keeps(e, t)
    BY <1>3, <1>8, <2>1, MovedKeeps, Zenon
  <2>3. t.expected_ack_seq \in Int
    BY <2>1, TopIs, Zenon
  <2>4. t.expected_ack_seq <= s.expected_tx_seq
    BY <1>3, <1>7, <1>8, <2>1, <2>3, AtMost, Zenon
  <2>5. ASSUME NEW i \in 1..Len(left) PROVE t.expected_ack_seq <= left[i].req_seq
    <3>1. left[i].req_seq \in Int /\ m.req_seq <= left[i].req_seq /\ m.req_seq \in Int
      BY <1>4, <1>7, <1>8, <2>5, Zenon
    <3> QED BY <2>1, <2>3, <3>1, AtMost, Zenon
  <2> QED BY <1>7, <1>8, <2>1, <2>2, <2>4, <2>5, Zenon
<1>9. ASSUME FirstLap, ~t.lapped, ~t.overtaken PROVE Flow(t, s, delivered[q], sdus[p], sent[p])
  BY <1>2, <1>3, <1>8, <1>9, FlowSender, Zenon
<1>10. ASSUME FirstLap, ~t.lapped, ~s.overtaken
       PROVE  /\ Flow(s, t, d, S, n)
              /\ "protocol" \in t.closed_by => "protocol" \in e.closed_by
  <2>1. Chain(s, S, n, z) /\ Received(e, d, S) /\ Place(s, x, z) = Want(e, d)
    BY <1>3, <1>10, Zenon DEF Flow, x, z
  <2>0. PICK k \in 1..n : \E j \in 1..S[k] : At(s, x) = Segment(k, S[k], j)
    BY <1>7, <1>10, <2>1, Zenon DEF Chain
  <2>2. PICK j \in 1..S[k] : At(s, x) = Segment(k, S[k], j)
    BY <2>0, Zenon
  <2>3. Place(s, x + 1, z) = After(S, At(s, x).payload)
    BY <1>7, <1>10, <2>1, Zenon DEF Chain
  <2>4. At(s, x) = s.unacked_list[x]
    BY <1>7, <1>10, Zenon DEF At
  <2>5. Segment(k, S[k], j).payload = <<k, j>>
    BY DEF Segment
  <2>6. Want(e, d) = <<k, j>>
    BY <1>7, <1>10, <2>1, <2>2, <2>5, Zenon DEF Place
  <2>7. Awaited(e, d, S, m, k, j)
    BY <1>7, <1>10, <2>1, <2>2, <2>4, <2>6, Zenon DEF Awaited
  <2>8. k \in 1..Len(S)
    BY <1>1
  <2>9. /\ Received(t, d, S) /\ Want(t, d) = After(S, <<k, j>>)
        /\ "protocol" \in t.closed_by => "protocol" \in e.closed_by
    BY <1>6, <2>7, <2>8, Zenon
  <2>10. Place(s, t.expected_tx_seq, z) = Want(t, d)
    BY <1>8, <1>10, <2>2, <2>3, <2>5, <2>9, Zenon
  <2> QED BY <2>1, <2>9, <2>10, Zenon DEF Flow, z
<1>11. ASSUME Narrow, FirstLap, ~t.lapped, ~t.overtaken, ~s.overtaken PROVE "protocol" \notin t.closed_by
  <2>1. \A y \in Peers : ~ep[y].overtaken
    BY <1>2, <1>11, TwoPeers, Zenon DEF e, s, q
  <2>2. "protocol" \notin e.closed_by
    BY <1>11, <2>1, Zenon DEF IInv, NoProtocolError, e
  <2> QED BY <1>10, <1>11, <2>2, Zenon
<1>12. sent'[p] = sent[p] /\ sent'[q] = sent[q] /\ delivered'[p] = delivered[p] /\ delivered'[q] = delivered[q]
  OBVIOUS
<1> QED BY <1>1, <1>2, <1>5, <1>8, <1>9, <1>10, <1>11, <1>12, RanInv, Zenon DEF e, s, q, x, d, S, n

\* The data controller receives a PDU.
LEMMA OnPduInv ==
  ASSUME IInv, NEW p \in Peers, OnPdu(p)
  PROVE  IInv'
<1> DEFINE m == Head(link[p])
           e == ep[p]
           left == Tail(link[p])
           t == IF m.type = "I" THEN recv_i_frame(e, m)
                ELSE IF m.type = "RR" THEN recv_rr(e, m)
                ELSE IF m.type = "RNR" THEN recv_rnr(e, m)
                ELSE recv_rej(e, m)
<1>1. link[p] # << >> /\ Ran(p, t, left) /\ sdus' = sdus /\ sent' = sent /\ delivered' = delivered
  BY Zenon DEF OnPdu
<1>2. Ready(e) /\ Flags(e)
  BY Zenon DEF IInv
<1>3. Shorter(link[p], left)
  BY <1>1, Zenon DEF Shorter
<1>4. FirstLap => /\ m.req_seq \in e.expected_ack_seq..ep[Peer(p)].expected_tx_seq
                  /\ \A i \in 1..Len(left) : left[i].req_seq \in Int /\ m.req_seq <= left[i].req_seq
  BY <1>1, HeadIs, Zenon
<1>5. \/ Answers(e, m.req_seq, t)
      \/ /\ m.type = "I" /\ m.tx_seq = e.expected_tx_seq /\ Accepts(e, m, t) /\ Takes(e, m, t) /\ Flags(t)
  <2> HIDE DEF m
  <2>1. CASE m.type = "I"
    BY <1>2, <2>1, IFrameHandled, Zenon
  <2>2. CASE m.type # "I"
    BY <1>2, <2>2, RrAnswers, RnrAnswers, RejAnswers, Zenon
  <2> QED BY <2>1, <2>2, Zenon
<1> HIDE DEF t
<1>6. CASE Answers(e, m.req_seq, t)
  BY <1>1, <1>3, <1>4, <1>6, AnswersInv, Zenon
<1>7. CASE m.type = "I" /\ m.tx_seq = e.expected_tx_seq /\ Accepts(e, m, t) /\ Takes(e, m, t) /\ Flags(t)
  BY <1>1, <1>7, AcceptsInv, Zenon
<1> QED BY <1>5, <1>6, <1>7, Zenon

-----------------------------------------------------------------------------
\* Fields set, PDUs sent, fields set: what retrans_timer_expires, monitor_timer_expires and
\* local_busy_clear do.
LEMMA LooseSends ==
  ASSUME NEW e, NEW c, NEW u, NEW t, Ready(e), Same(e, c, Loose \ {"lapped", "overtaken"}), Sends(c, u),
         Same(u, t, Loose \ {"lapped", "overtaken"})
  PROVE  /\ Ready(c) /\ Ready(t) /\ t.overtaken = e.overtaken /\ (e.lapped => t.lapped)
         /\ t.expected_tx_seq = e.expected_tx_seq /\ t.expected_ack_seq = e.expected_ack_seq
         /\ Good(e) /\ ~t.lapped => Good(t) /\ Moved(e, t)
<1>1. Same(e, c, Loose) /\ Same(u, t, Loose)
  BY Zenon DEF Same
<1>2. /\ DOMAIN c = Fields /\ c.lapped = e.lapped /\ c.overtaken = e.overtaken
      /\ c.pending_frames = e.pending_frames
      /\ c.expected_tx_seq = e.expected_tx_seq /\ c.expected_ack_seq = e.expected_ack_seq
  BY Zenon DEF Same, Fields, Loose
<1>3. /\ u.overtaken = c.overtaken /\ u.expected_tx_seq = c.expected_tx_seq
      /\ u.expected_ack_seq = c.expected_ack_seq
  BY Zenon DEF Sends, Same, Fields, Sending
<1>4. /\ DOMAIN t = Fields /\ t.lapped = u.lapped /\ t.overtaken = u.overtaken
      /\ t.pending_frames = u.pending_frames
      /\ t.expected_tx_seq = u.expected_tx_seq /\ t.expected_ack_seq = u.expected_ack_seq
  BY Zenon DEF Same, Fields, Loose
<1>5. Ready(c) /\ Ready(t) /\ (e.lapped => t.lapped)
  BY <1>2, <1>4, Zenon DEF Ready, Sends
<1>6. ASSUME Good(e), ~t.lapped PROVE Good(t) /\ Moved(e, t)
  <2>1. Good(c) /\ Further(e, c)
    BY <1>1, <1>6, LooseKeeps, Zenon
  <2>2. Good(u) /\ Further(c, u)
    BY <1>4, <1>6, <2>1, Zenon DEF Sends
  <2>3. Good(t) /\ Further(u, t)
    BY <1>1, <2>2, LooseKeeps, Zenon
  <2>4. Moved(e, e)
    <3>1. e.next_tx_seq >= e.next_tx_seq /\ e.expected_ack_seq >= e.expected_ack_seq
      <4>1. e.next_tx_seq \in Int /\ e.expected_ack_seq \in Int
        BY <1>6, TopIs, Zenon
      <4> QED BY <4>1
    <3> QED BY <3>1, Zenon DEF Moved
  <2>5. Moved(e, c)
    BY <1>2, <1>6, <2>1, <2>4, MovedFurther, Zenon
  <2>6. Moved(e, u)
    BY <1>3, <1>6, <2>1, <2>2, <2>5, MovedFurther, Zenon
  <2> QED BY <1>4, <1>6, <2>2, <2>3, <2>6, MovedFurther, Zenon
<1> QED BY <1>2, <1>3, <1>4, <1>5, <1>6, Zenon

\* The fields that a timer sets.
Timing == {"retrans_timer", "monitor_timer", "retry_count", "tx_state", "closed_by"}

\* What a timer does counts as an answer to a PDU that acknowledges nothing.
LEMMA TimerAnswers ==
  ASSUME NEW e, Ready(e), NEW c, NEW u, NEW t, Same(e, c, Timing \ {"closed_by"}), Sends(c, u),
         Same(u, t, Timing), t.tx_state \in {e.tx_state, "WAIT_F"},
         "protocol" \in t.closed_by => "protocol" \in u.closed_by
  PROVE  Answers(e, e.expected_ack_seq, t)
<1>1. Same(e, c, Loose \ {"lapped", "overtaken"}) /\ Same(u, t, Loose \ {"lapped", "overtaken"})
  <2>1. Timing \subseteq Loose \ {"lapped", "overtaken"}
    BY DEF Timing, Loose
  <2> QED BY <2>1, Zenon DEF Same
<1>2. /\ Ready(t) /\ t.overtaken = e.overtaken /\ (e.lapped => t.lapped)
      /\ t.expected_ack_seq = e.expected_ack_seq
      /\ Good(e) /\ ~t.lapped => Good(t) /\ Moved(e, t)
  BY ONLY Ready(e), Sends(c, u), <1>1, LooseSends
<1>3. ASSUME Good(e) PROVE e.expected_ack_seq <= e.expected_ack_seq
  <2>1. e.expected_ack_seq \in Int
    BY <1>3, TopIs, Zenon
  <2> QED BY <2>1
<1>4. Serves(e, e.expected_ack_seq, t)
  BY <1>2, <1>3, Zenon DEF Serves
<1>5. /\ Receiving \cap Timing = {} /\ Receiving \cap Sending = {} /\ Receiving \subseteq Fields
      /\ "rx_state" \in Fields /\ "rx_state" \notin Timing /\ "rx_state" \notin Sending
      /\ "closed_by" \in Fields /\ "on_empty" \in Receiving /\ "local_busy" \in Receiving
  BY DEF Receiving, Timing, Sending, Fields
<1>6. \A f \in Receiving : t[f] = e[f]
  BY <1>5, Zenon DEF Sends, Same
<1>7. t.rx_state = e.rx_state
  BY <1>5, Zenon DEF Sends, Same
<1>8. Flags(e) => Flags(t)
  BY <1>5, <1>6, <1>7, Zenon DEF Flags
<1>9. "protocol" \in t.closed_by => "protocol" \in e.closed_by
  <2>1. c.closed_by = e.closed_by
    BY <1>5, Zenon DEF Same
  <2> QED BY <2>1, Zenon DEF Sends
<1> QED BY <1>4, <1>6, <1>8, <1>9, Zenon DEF Answers

\* What AnswersInv asks of a handler that takes no frame from the link.
LEMMA NothingTaken ==
  ASSUME IInv, NEW p \in Peers
  PROVE  /\ Shorter(link[p], link[p])
         /\ FirstLap => /\ ep[p].expected_ack_seq \in ep[p].expected_ack_seq..ep[Peer(p)].expected_tx_seq
                        /\ \A i \in 1..Len(link[p]) :
                             link[p][i].req_seq \in Int /\ ep[p].expected_ack_seq <= link[p][i].req_seq
<1>1. Shorter(link[p], link[p])
  BY Zenon DEF Shorter
<1>2. ASSUME FirstLap
      PROVE  /\ ep[p].expected_ack_seq \in ep[p].expected_ack_seq..ep[Peer(p)].expected_tx_seq
             /\ \A i \in 1..Len(link[p]) :
                  link[p][i].req_seq \in Int /\ ep[p].expected_ack_seq <= link[p][i].req_seq
  <2> DEFINE a == ep[p].expected_ack_seq
             b == ep[Peer(p)].expected_tx_seq
  <2>1. a \in Int /\ b \in Int /\ a <= b /\ Direction(ep[p], ep[Peer(p)], link[p], link[Peer(p)])
    BY <1>2, Both, Zenon
  <2>2. \A i \in 1..Len(link[p]) : link[p][i].req_seq \in a..b
    BY <2>1, Zenon DEF Direction
  <2> HIDE DEF a, b
  <2>3. ASSUME NEW i \in 1..Len(link[p]) PROVE link[p][i].req_seq \in Int /\ a <= link[p][i].req_seq
    <3> DEFINE k == link[p][i].req_seq
    <3>1. k \in a..b
      BY <2>2, Zenon
    <3> HIDE DEF k
    <3>2. k \in Int /\ a <= k
      BY <2>1, <3>1
    <3> QED BY <3>2, Zenon DEF k
  <2>4. a \in a..b
    BY <2>1
  <2> QED BY <2>3, <2>4, Zenon DEF a, b
<1> QED BY <1>1, <1>2, Zenon

\* The retransmission timer expires.
LEMMA RetransTimerInv ==
  ASSUME IInv, NEW p \in Peers, retrans_timer_expires(p)
  PROVE  IInv'
<1> DEFINE e == ep[p]
           c == [e EXCEPT !.retrans_timer = FALSE]
           u == send_rr_or_rnr(c, TRUE, FALSE)
           w == [u EXCEPT !.retry_count = 1, !.monitor_timer = TRUE, !.tx_state = "WAIT_F"]
           t == IF c.tx_state = "XMIT" THEN w ELSE c
<1>1. Ran(p, t, link[p]) /\ sdus' = sdus /\ sent' = sent /\ delivered' = delivered
  BY Zenon DEF retrans_timer_expires
<1>2. Ready(e)
  BY Zenon DEF IInv
<1>3. Same(e, c, Timing \ {"closed_by"}) /\ c.tx_state = e.tx_state /\ Ready(c) /\ c.closed_by = e.closed_by
  <2>1. /\ DOMAIN c = Fields /\ c.tx_state = e.tx_state /\ c.pending_frames = e.pending_frames
        /\ c.closed_by = e.closed_by /\ Same(e, c, {"retrans_timer"})
    BY <1>2, Zenon DEF Ready, Fields, Same
  <2>2. "retrans_timer" \in Timing \ {"closed_by"}
    BY DEF Timing
  <2> QED BY <1>2, <2>1, <2>2, Zenon DEF Ready, Same
<1> HIDE DEF e, c
<1>4. Sends(c, u) /\ Sends(c, c)
  BY <1>3, SendsRr, SendsSame, Zenon DEF Ready
<1> HIDE DEF u
<1>5. Same(u, w, Timing) /\ w.tx_state = "WAIT_F" /\ w.closed_by = u.closed_by
  <2>1. DOMAIN u = Fields
    BY <1>4, Zenon DEF Sends, Same
  <2>2. /\ Same(u, w, {"retry_count", "monitor_timer", "tx_state"})
        /\ w.tx_state = "WAIT_F" /\ w.closed_by = u.closed_by
    BY <2>1, Zenon DEF Fields, Same
  <2>3. {"retry_count", "monitor_timer", "tx_state"} \subseteq Timing
    BY DEF Timing
  <2> HIDE DEF w
  <2> QED BY <2>2, <2>3, Zenon DEF Same
<1> HIDE DEF w
<1>6. Same(c, c, Timing)
  BY <1>3, Zenon DEF Same
<1>7. Answers(e, e.expected_ack_seq, w) /\ Answers(e, e.expected_ack_seq, c)
  BY <1>2, <1>3, <1>4, <1>5, <1>6, TimerAnswers, Zenon
<1>8. Answers(e, e.expected_ack_seq, t)
  BY <1>7, Zenon
<1> HIDE DEF t
<1> QED BY <1>1, <1>8, NothingTaken, AnswersInv, Zenon DEF e

\* The monitor timer expires.
LEMMA MonitorTimerInv ==
  ASSUME IInv, NEW p \in Peers, monitor_timer_expires(p)
  PROVE  IInv'
<1> DEFINE e == ep[p]
           c == [e EXCEPT !.monitor_timer = FALSE]
           u == send_rr_or_rnr(c, TRUE, FALSE)
           w == [u EXCEPT !.retry_count = @ + 1, !.monitor_timer = TRUE]
           x == CloseChannel(c, "retries")
           t == IF c.tx_state # "WAIT_F" THEN c
                ELSE IF c.retry_count < local_max_transmit_ THEN w ELSE x
<1>1. Ran(p, t, link[p]) /\ sdus' = sdus /\ sent' = sent /\ delivered' = delivered
  BY Zenon DEF monitor_timer_expires
<1>2. Ready(e)
  BY Zenon DEF IInv
<1>3. Same(e, c, Timing \ {"closed_by"}) /\ c.tx_state = e.tx_state /\ Ready(c)
  <2>1. /\ DOMAIN c = Fields /\ c.tx_state = e.tx_state /\ c.pending_frames = e.pending_frames
        /\ Same(e, c, {"monitor_timer"})
    BY <1>2, Zenon DEF Ready, Fields, Same
  <2>2. "monitor_timer" \in Timing \ {"closed_by"}
    BY DEF Timing
  <2> QED BY <1>2, <2>1, <2>2, Zenon DEF Ready, Same
<1> HIDE DEF e, c
<1>4. Sends(c, u) /\ Sends(c, c)
  BY <1>3, SendsRr, SendsSame, Zenon DEF Ready
<1> HIDE DEF u
<1>5. Same(u, w, Timing) /\ w.tx_state = c.tx_state /\ w.closed_by = u.closed_by
  <2>1. DOMAIN u = Fields /\ u.tx_state = c.tx_state
    BY <1>4, Zenon DEF Sends, Same, Fields, Sending
  <2>2. /\ Same(u, w, {"retry_count", "monitor_timer"})
        /\ w.tx_state = u.tx_state /\ w.closed_by = u.closed_by
    BY <2>1, Zenon DEF Fields, Same
  <2>3. {"retry_count", "monitor_timer"} \subseteq Timing
    BY DEF Timing
  <2> HIDE DEF w
  <2> QED BY <2>1, <2>2, <2>3, Zenon DEF Same
<1> HIDE DEF w
<1>6. Same(c, x, Timing) /\ x.tx_state = c.tx_state /\ x.closed_by = c.closed_by \cup {"retries"}
  <2>1. /\ Same(c, x, {"closed_by"}) /\ x.tx_state = c.tx_state /\ x.closed_by = c.closed_by \cup {"retries"}
    BY <1>3, Zenon DEF CloseChannel, Fields, Same, Ready
  <2>2. "closed_by" \in Timing
    BY DEF Timing
  <2> HIDE DEF x
  <2> QED BY <2>1, <2>2, Zenon DEF Same
<1> HIDE DEF x
<1>7. "protocol" \in x.closed_by => "protocol" \in c.closed_by
  <2>1. "retries" # "protocol"
    OBVIOUS
  <2> QED BY <1>6, <2>1, Zenon
<1>8. Same(c, c, Timing)
  BY <1>3, Zenon DEF Same, Ready
<1>9. /\ Answers(e, e.expected_ack_seq, w) /\ Answers(e, e.expected_ack_seq, c)
      /\ Answers(e, e.expected_ack_seq, x)
  BY <1>2, <1>3, <1>4, <1>5, <1>6, <1>7, <1>8, TimerAnswers, Zenon
<1>10. Answers(e, e.expected_ack_seq, t)
  BY <1>9, Zenon
<1> HIDE DEF t
<1> QED BY <1>1, <1>10, NothingTaken, AnswersInv, Zenon DEF e

-----------------------------------------------------------------------------
\* A client hands over an SDU.
LEMMA OnSduInv ==
  ASSUME IInv, NEW p \in Peers, OnSdu(p)
  PROVE  IInv'
<1> DEFINE q == Peer(p)
           e == ep[p]
           s == ep[q]
           S == sdus[p]
           d == delivered[q]
           N == sent[p]
           K == N + 1
           h == CHOOSE g : Handed(e, K, S[K], S[K], g)
           t == h[S[K]]
           z == <<K, 1>>
           y == <<K + 1, 1>>
<1>1. /\ N < Len(S) /\ Ran(p, t, link[p]) /\ sent' = [sent EXCEPT ![p] = N + 1]
      /\ sdus' = sdus /\ delivered' = delivered
  BY Zenon DEF OnSdu, Handed
<1>2. /\ DOMAIN sent = Peers /\ DOMAIN delivered = Peers /\ sdus \in [Peers -> Seq(Nat \ {0})]
      /\ N \in 0..Len(S) /\ Ready(e) /\ Flags(e)
  BY Zenon DEF IInv
<1>3. S \in Seq(Nat \ {0})
  BY <1>2, Zenon
<1>4. q \in Peers /\ q # p
  BY TwoPeers, Zenon
<1>5. sent'[p] = K /\ sent'[q] = sent[q] /\ DOMAIN sent' = Peers
  BY <1>1, <1>2, <1>4, Zenon
<1>6. ASSUME FirstLap
      PROVE  /\ Good(e) /\ Good(s)
             /\ ~e.overtaken => Flow(e, s, d, S, N)
             /\ ~s.overtaken => Flow(s, e, delivered[p], sdus[q], sent[q])
             /\ e.expected_tx_seq \in Int /\ e.expected_ack_seq \in Int
             /\ s.expected_tx_seq \in Int /\ e.next_tx_seq \in Int
             /\ e.expected_ack_seq <= s.expected_tx_seq /\ s.expected_tx_seq <= e.next_tx_seq
             /\ e.expected_tx_seq <= s.next_tx_seq
             /\ Direction(e, s, link[p], link[q])
  BY <1>6, Both, Zenon
<1> HIDE DEF q, e, s, S, d, N
<1>7. K \in Nat \ {0} /\ K \in 1..Len(S) /\ S[K] \in Nat \ {0} /\ K - 1 = N /\ K \in 0..Len(S)
  <2> DEFINE l == Len(S)
  <2>1. l \in Nat
    BY <1>3
  <2> HIDE DEF l
  <2>2. N \in 0..l /\ N < l
    BY <1>1, <1>2, Zenon DEF l
  <2>3. K \in Nat \ {0} /\ K \in 1..l /\ K - 1 = N /\ K \in 0..l
    BY <2>1, <2>2
  <2>4. K \in 1..Len(S)
    BY <2>3, Zenon DEF l
  <2>5. S[K] \in Nat \ {0}
    BY <1>3, <2>4
  <2> QED BY <2>3, <2>5, Zenon DEF l
<1> HIDE DEF K
<1>8. Handed(e, K, S[K], S[K], h)
  <2>1. S[K] \in Nat
    BY <1>7
  <2>2. \E g : Handed(e, K, S[K], S[K], g)
    BY <2>1, HandedExists, Zenon
  <2> QED BY <2>2, Zenon
<1> HIDE DEF h
<1>9. Gave(e, t, S, K, y)
  BY <1>2, <1>7, <1>8, GaveAll, Zenon
<1> HIDE DEF t, y, z
<1>10. /\ Same(e, t, Requesting) /\ Ready(t) /\ (e.lapped => t.lapped) /\ (e.overtaken => t.overtaken)
       /\ Good(e) /\ ~t.lapped =>
            /\ Good(t) /\ Keeps(e, t)
            /\ ~t.overtaken /\ Chain(e, S, K - 1, z) =>
                 /\ Chain(t, S, K, y) /\ Top(t) >= Top(e)
                 /\ \A x \in e.expected_ack_seq..Top(e) : Place(t, x, y) = Place(e, x, z)
  BY <1>9, Zenon DEF Gave, z
<1>11. /\ t.expected_ack_seq = e.expected_ack_seq /\ t.expected_tx_seq = e.expected_tx_seq
       /\ t.enqueue_buffer = e.enqueue_buffer /\ t.sar_state = e.sar_state
       /\ t.reassembly_stage = e.reassembly_stage /\ t.remaining = e.remaining
       /\ t.on_empty = e.on_empty /\ t.local_busy = e.local_busy
       /\ t.rx_state = e.rx_state /\ t.tx_state = e.tx_state /\ t.closed_by = e.closed_by
  BY <1>10, Zenon DEF Same, Fields, Requesting, Numbering
<1>12. Flags(t)
  BY <1>2, <1>11, Zenon DEF Flags
<1>13. /\ Shorter(link[p], link[p])
       /\ FirstLap => \A i \in 1..Len(link[p]) : e.expected_ack_seq <= link[p][i].req_seq
  BY NothingTaken, Zenon DEF e
<1>14. ASSUME FirstLap, ~t.lapped
       PROVE  /\ Good(t) /\ Keeps(e, t)
              /\ t.expected_ack_seq <= s.expected_tx_seq
              /\ \A i \in 1..Len(link[p]) : t.expected_ack_seq <= link[p][i].req_seq
              /\ e.expected_tx_seq <= t.expected_tx_seq /\ t.expected_tx_seq <= s.next_tx_seq
  <2>1. e.expected_tx_seq <= e.expected_tx_seq
    BY <1>6, <1>14
  <2> QED BY <1>6, <1>10, <1>11, <1>13, <1>14, <2>1, Zenon
<1>15. ASSUME FirstLap, ~t.lapped, ~t.overtaken PROVE Flow(t, s, d, S, K)
  <2> DEFINE x == s.expected_tx_seq
  <2>1. Chain(e, S, K - 1, z) /\ Received(s, d, S) /\ Place(e, x, z) = Want(s, d)
    <3>1. Flow(e, s, d, S, N)
      BY <1>6, <1>10, <1>15, Zenon
    <3>2. z = <<N + 1, 1>> /\ K - 1 = N
      BY <1>7, Zenon DEF z, K
    <3> QED BY <3>1, <3>2, Zenon DEF Flow
  <2>2. /\ Chain(t, S, K, y)
        /\ \A i \in e.expected_ack_seq..Top(e) : Place(t, i, y) = Place(e, i, z)
    BY <1>6, <1>10, <1>15, <2>1, Zenon
  <2>3. x \in e.expected_ack_seq..Top(e)
    <3> DEFINE a == e.expected_ack_seq
               n == e.next_tx_seq
    <3>1. /\ x \in Int /\ a \in Int /\ n \in Int /\ a <= x /\ x <= n /\ n <= Top(e) /\ Top(e) \in Int
      BY <1>6, <1>15, TopIs, Zenon
    <3> HIDE DEF a, n, x
    <3>2. x \in a..Top(e)
      BY <3>1
    <3> QED BY <3>2, Zenon DEF a
  <2>4. Place(t, x, y) = Want(s, d)
    BY <2>1, <2>2, <2>3, Zenon
  <2> QED BY <2>1, <2>2, <2>4, Zenon DEF Flow, y
<1>16. ASSUME FirstLap, ~s.overtaken PROVE Flow(s, t, delivered[p], sdus[q], sent[q])
  <2>1. Flow(s, e, delivered[p], sdus[q], sent[q])
    BY <1>6, <1>16, Zenon
  <2>2. \A D, U : Want(t, D) = Want(e, D) /\ (Received(e, D, U) => Received(t, D, U))
    BY <1>11, ReceivedSame, Zenon
  <2> QED BY <1>11, <2>1, <2>2, Zenon DEF Flow
<1>17. ASSUME Narrow, FirstLap, ~t.lapped, ~t.overtaken, ~s.overtaken PROVE "protocol" \notin t.closed_by
  <2>1. \A x \in Peers : ~ep[x].overtaken
    BY <1>10, <1>17, TwoPeers, Zenon DEF e, s, q
  <2>2. "protocol" \notin e.closed_by
    BY <1>17, <2>1, Zenon DEF IInv, NoProtocolError, e
  <2> QED BY <1>11, <2>2, Zenon
<1>18. delivered'[p] = delivered[p] /\ delivered'[q] = delivered[q] /\ DOMAIN delivered' = Peers
  BY <1>1, <1>2, Zenon
<1>19. sent'[p] \in 0..Len(sdus[p]) /\ sent'[p] = K
  BY <1>5, <1>7, Zenon DEF S
<1> QED BY <1>1, <1>5, <1>10, <1>12, <1>13, <1>14, <1>15, <1>16, <1>17, <1>18, <1>19, RanInv, Zenon
        DEF e, s, q, d, S

\* Fewer frames on the link.
LEMMA DirectionLess ==
  ASSUME NEW s, NEW r, NEW back, NEW forth, NEW b, NEW f, IsSeq(back), IsSeq(forth),
         Shorter(back, b), Shorter(forth, f), Direction(s, r, back, forth)
  PROVE  Direction(s, r, b, f)
<1>1. PICK k \in {0, 1} : \A i \in 1..Len(b) : i + k \in 1..Len(back) /\ b[i] = back[i + k]
  BY ShorterIs, Zenon
<1>2. PICK l \in {0, 1} : \A i \in 1..Len(f) : i + l \in 1..Len(forth) /\ f[i] = forth[i + l]
  BY ShorterIs, Zenon
<1>3. Len(b) \in Nat
  BY ShorterIs, Zenon
<1>4. /\ s.expected_ack_seq <= r.expected_tx_seq /\ r.expected_tx_seq <= s.next_tx_seq
      /\ \A i \in 1..Len(back) : back[i].req_seq \in s.expected_ack_seq..r.expected_tx_seq
      /\ \A i, j \in 1..Len(back) : i < j => back[i].req_seq <= back[j].req_seq
  BY Zenon DEF Direction
<1>5. \A i \in 1..Len(forth) :
        forth[i].type = "I" =>
          /\ forth[i].tx_seq \in 0..s.next_tx_seq - 1
          /\ forth[i].tx_seq >= s.expected_ack_seq => Carries(forth[i], s.unacked_list[forth[i].tx_seq])
  BY Zenon DEF Direction
<1>6. \A i \in 1..Len(b) : b[i].req_seq \in s.expected_ack_seq..r.expected_tx_seq
  BY <1>1, <1>4, Zenon
<1>7. ASSUME NEW i \in 1..Len(b), NEW j \in 1..Len(b), i < j PROVE b[i].req_seq <= b[j].req_seq
  <2>1. i + k < j + k
    BY <1>3, <1>7
  <2> QED BY <1>1, <1>4, <2>1, Zenon
<1>8. \A i \in 1..Len(f) :
        f[i].type = "I" =>
          /\ f[i].tx_seq \in 0..s.next_tx_seq - 1
          /\ f[i].tx_seq >= s.expected_ack_seq => Carries(f[i], s.unacked_list[f[i].tx_seq])
  BY <1>2, <1>5, Zenon
<1> QED BY <1>4, <1>6, <1>7, <1>8, Zenon DEF Direction

\* A frame is lost.
LEMMA LoseInv ==
  ASSUME IInv, NEW p \in Peers, Lose(p)
  PROVE  IInv'
<1>1. /\ link[p] # << >> /\ link' = [link EXCEPT ![p] = Tail(@)]
      /\ sdus' = sdus /\ ep' = ep /\ sent' = sent /\ delivered' = delivered
  BY Zenon DEF Lose
<1>2. DOMAIN link = Peers
  BY Zenon DEF IInv
<1>3. DOMAIN link' = Peers /\ \A x \in Peers : Shorter(link[x], link'[x])
  <2>1. \A x \in Peers : link'[x] = IF x = p THEN Tail(link[p]) ELSE link[x]
    BY <1>1, <1>2, Zenon
  <2> QED BY <1>1, <1>2, <2>1, Zenon DEF Shorter
<1>4. ASSUME FirstLap, NEW x \in Peers
      PROVE  /\ Good(ep[x]) /\ IsSeq(link'[x])
             /\ Direction(ep[x], ep[Peer(x)], link'[x], link'[Peer(x)])
             /\ ~ep[x].overtaken => Flow(ep[x], ep[Peer(x)], delivered[Peer(x)], sdus[x], sent[x])
  <2>1. Peer(x) \in Peers
    BY TwoPeers, Zenon
  <2>2. /\ Good(ep[x]) /\ IsSeq(link[x]) /\ IsSeq(link[Peer(x)])
        /\ Direction(ep[x], ep[Peer(x)], link[x], link[Peer(x)])
        /\ ~ep[x].overtaken => Flow(ep[x], ep[Peer(x)], delivered[Peer(x)], sdus[x], sent[x])
    BY <1>4, <2>1, Zenon DEF IInv
  <2>3. Direction(ep[x], ep[Peer(x)], link'[x], link'[Peer(x)])
    BY <1>3, <2>1, <2>2, DirectionLess, Zenon
  <2>4. IsSeq(link'[x])
    BY <1>3, <2>2, ShorterIs, Zenon
  <2> QED BY <2>2, <2>3, <2>4, Zenon
<1>5. FirstLap' <=> FirstLap
  BY <1>1, Zenon DEF FirstLap
<1>6. NoProtocolError <=> NoProtocolError'
  BY <1>1, <1>5, Zenon DEF NoProtocolError
<1> QED BY <1>1, <1>3, <1>4, <1>5, <1>6, Zenon DEF IInv, Narrow

\* The channel is torn down, or nothing happens.
LEMMA StayInv ==
  ASSUME IInv, sdus' = sdus, ep' = ep, link' = link, sent' = sent, delivered' = delivered
  PROVE  IInv'
<1>1. FirstLap' <=> FirstLap
  BY Zenon DEF FirstLap
<1>2. NoProtocolError <=> NoProtocolError'
  BY <1>1, Zenon DEF NoProtocolError
<1> QED BY <1>1, <1>2, Zenon DEF IInv, Narrow

-----------------------------------------------------------------------------
\* The client takes the first SDU that waits for it.
LEMMA ReceivedTaken ==
  ASSUME NEW e, NEW t, NEW d, NEW S, Received(e, d, S), e.enqueue_buffer # << >>,
         t.enqueue_buffer = Tail(e.enqueue_buffer), t.sar_state = e.sar_state,
         t.reassembly_stage = e.reassembly_stage, t.remaining = e.remaining
  PROVE  LET D == Append(d, Head(e.enqueue_buffer))
         IN  Received(t, D, S) /\ Want(t, D) = Want(e, d)
<1> DEFINE b == e.enqueue_buffer
           c == Tail(b)
           x == Head(b)
           D == Append(d, x)
           ld == Len(d)
           lb == Len(b)
<1>1. /\ IsSeq(d) /\ IsSeq(b)
      /\ \A k \in 1..ld : d[k] = Whole(k, S[k])
      /\ \A k \in 1..lb : b[k] = Whole(ld + k, S[ld + k])
      /\ e.sar_state # "END" =>
           LET k == Number(e, d)
               j == Len(e.reassembly_stage)
           IN  /\ k \in 1..Len(S) /\ j \in 1..S[k] - 1 /\ e.reassembly_stage = Whole(k, j)
               /\ e.remaining = uint16(S[k] - j)
  BY Zenon DEF Received
<1>2. b # << >> /\ t.enqueue_buffer = c
  BY Zenon
<1> HIDE DEF b
<1>3. /\ IsSeq(c) /\ lb \in Nat \ {0} /\ Len(c) = lb - 1 /\ Head(b) = b[1]
      /\ \A i \in 1..lb - 1 : c[i] = b[i + 1]
  BY <1>1, <1>2, Taken, Zenon
<1>4. /\ IsSeq(D) /\ ld \in Nat /\ Len(D) = ld + 1 /\ D[ld + 1] = x
      /\ \A i \in 1..ld : D[i] = d[i]
  <2>1. IsSeq(d)
    BY <1>1, Zenon
  <2> HIDE DEF x
  <2> QED BY ONLY <2>1, Appended
<1> HIDE DEF c, D, ld, lb, x
<1>5. ASSUME NEW k \in 1..ld + 1 PROVE D[k] = Whole(k, S[k])
  <2>1. CASE k \in 1..ld
    BY <1>1, <1>4, <2>1, Zenon
  <2>2. CASE k \notin 1..ld
    <3>1. k = ld + 1 /\ 1 \in 1..lb
      BY <1>3, <1>4, <2>2
    <3> QED BY <1>1, <1>3, <1>4, <3>1, Zenon DEF x
  <2> QED BY <2>1, <2>2, Zenon
<1>6. ASSUME NEW k \in 1..lb - 1 PROVE c[k] = Whole((ld + 1) + k, S[(ld + 1) + k])
  <2>1. k + 1 \in 1..lb /\ ld + (k + 1) = (ld + 1) + k
    BY <1>3, <1>4
  <2>2. c[k] = b[k + 1] /\ b[k + 1] = Whole(ld + (k + 1), S[ld + (k + 1)])
    BY <1>1, <1>3, <2>1, Zenon
  <2> QED BY <2>1, <2>2, Zenon
<1>7. Number(t, D) = Number(e, d)
  <2>1. Number(t, D) = Len(D) + Len(c) + 1 /\ Number(e, d) = ld + lb + 1
    BY <1>2, Zenon DEF Number, ld, lb, b
  <2>2. (ld + 1) + (lb - 1) + 1 = ld + lb + 1
    BY <1>3, <1>4
  <2> QED BY <1>3, <1>4, <2>1, <2>2, Zenon
<1>8. Want(t, D) = Want(e, d)
  BY <1>7, Zenon DEF Want
<1>9. Received(t, D, S)
  BY <1>1, <1>2, <1>3, <1>4, <1>5, <1>6, <1>7, Zenon DEF Received
<1> QED BY <1>8, <1>9, Zenon DEF D, x, b

\* The fields that enqueue_callback sets.
Clearing ==
  {"enqueue_buffer", "on_empty", "local_busy", "rnr_sent", "retry_count", "retrans_timer", "monitor_timer"}

\* local_busy_clear.
LEMMA Clears ==
  ASSUME NEW e, Ready(e), NEW c, Same(e, c, {"enqueue_buffer", "on_empty"}),
         NEW t, t = local_busy_clear(c) \/ t = c
  PROVE  \E v, u : /\ Same(e, v, Clearing) /\ Sends(v, u) /\ Same(u, t, Clearing)
                   /\ t.enqueue_buffer = c.enqueue_buffer
                   /\ t.on_empty = c.on_empty /\ (t.local_busy => c.local_busy)
                   /\ "protocol" \in t.closed_by => "protocol" \in e.closed_by
<1> DEFINE clear == [c EXCEPT !.local_busy = FALSE, !.rnr_sent = FALSE]
           w == send_rr(clear, TRUE, FALSE)
           r == [w EXCEPT !.retry_count = 1, !.retrans_timer = FALSE, !.monitor_timer = TRUE]
<1>1. t = c \/ t = clear \/ t = r
  BY Zenon DEF local_busy_clear
<1>2. /\ DOMAIN c = Fields /\ c.pending_frames = e.pending_frames /\ c.closed_by = e.closed_by
  BY Zenon DEF Same, Fields
<1>3. Same(e, c, Clearing)
  <2>1. {"enqueue_buffer", "on_empty"} \subseteq Clearing
    BY DEF Clearing
  <2> QED BY <2>1, Zenon DEF Same
<1>4. /\ Same(c, clear, {"local_busy", "rnr_sent"}) /\ clear.local_busy = FALSE
      /\ clear.enqueue_buffer = c.enqueue_buffer /\ clear.on_empty = c.on_empty
      /\ clear.closed_by = c.closed_by /\ clear.pending_frames = c.pending_frames
  BY <1>2, Zenon DEF Same, Fields
<1> HIDE DEF clear
<1>5. Same(e, clear, Clearing)
  <2>1. {"local_busy", "rnr_sent"} \subseteq Clearing
    BY DEF Clearing
  <2> QED BY <1>3, <1>4, <2>1, Zenon DEF Same
<1>6. Ready(c) /\ Ready(clear)
  BY <1>2, <1>4, Zenon DEF Ready, Same
<1>7. Sends(c, c) /\ Sends(clear, clear) /\ Sends(clear, w)
  BY <1>6, SendsSame, SendsRr, Zenon DEF Ready
<1> HIDE DEF w
<1>8. /\ DOMAIN w = Fields /\ w.enqueue_buffer = clear.enqueue_buffer /\ w.on_empty = clear.on_empty
      /\ w.local_busy = clear.local_busy /\ ("protocol" \in w.closed_by => "protocol" \in clear.closed_by)
  BY <1>7, Zenon DEF Sends, Same, Fields, Sending
<1>9. /\ Same(w, r, {"retry_count", "retrans_timer", "monitor_timer"}) /\ r.closed_by = w.closed_by
      /\ r.enqueue_buffer = w.enqueue_buffer /\ r.on_empty = w.on_empty /\ r.local_busy = w.local_busy
  BY <1>8, Zenon DEF Same, Fields
<1> HIDE DEF r
<1>10. Same(w, r, Clearing)
  <2>1. {"retry_count", "retrans_timer", "monitor_timer"} \subseteq Clearing
    BY DEF Clearing
  <2> QED BY <1>9, <2>1, Zenon DEF Same
<1>11. Same(c, c, Clearing) /\ Same(clear, clear, Clearing)
  BY <1>6, Zenon DEF Same, Ready
<1>12. CASE t = c
  BY <1>2, <1>3, <1>7, <1>11, <1>12, Zenon
<1>13. CASE t = clear
  BY <1>2, <1>4, <1>5, <1>7, <1>11, <1>13, Zenon
<1>14. CASE t = r
  BY <1>2, <1>4, <1>5, <1>7, <1>8, <1>9, <1>10, <1>14, Zenon
<1> QED BY <1>1, <1>12, <1>13, <1>14, Zenon

\* EnqueueBuffer::enqueue_callback.
LEMMA EnqueueCallbackInv ==
  ASSUME IInv, NEW p \in Peers, enqueue_callback(p)
  PROVE  IInv'
<1> DEFINE q == Peer(p)
           e == ep[p]
           s == ep[q]
           d == delivered[p]
           x == Head(e.enqueue_buffer)
           D == Append(d, x)
           c1 == [e EXCEPT !.enqueue_buffer = Tail(@)]
           c2 == [c1 EXCEPT !.on_empty = 0]
           t == IF c1.enqueue_buffer = << >> /\ c1.on_empty > 0 THEN local_busy_clear(c2) ELSE c1
<1>1. /\ e.enqueue_buffer # << >> /\ Ran(p, t, link[p])
      /\ delivered' = [delivered EXCEPT ![p] = Append(@, x)]
      /\ sdus' = sdus /\ sent' = sent
  BY Zenon DEF enqueue_callback
<1>2. /\ DOMAIN sent = Peers /\ DOMAIN delivered = Peers /\ sent[p] \in 0..Len(sdus[p])
      /\ Ready(e) /\ Flags(e)
  BY Zenon DEF IInv
<1>3. q \in Peers /\ q # p
  BY TwoPeers, Zenon
<1>4. delivered'[p] = D /\ delivered'[q] = delivered[q] /\ DOMAIN delivered' = Peers
  BY <1>1, <1>2, <1>3, Zenon
<1>5. ASSUME FirstLap
      PROVE  /\ Good(e) /\ Good(s)
             /\ ~e.overtaken => Flow(e, s, delivered[q], sdus[p], sent[p])
             /\ ~s.overtaken => Flow(s, e, d, sdus[q], sent[q])
             /\ e.expected_tx_seq \in Int /\ s.expected_tx_seq \in Int
             /\ e.expected_ack_seq <= s.expected_tx_seq /\ s.expected_tx_seq <= e.next_tx_seq
             /\ e.expected_tx_seq <= s.next_tx_seq
  BY <1>5, Both, Zenon
<1>6. /\ Shorter(link[p], link[p])
      /\ FirstLap => \A i \in 1..Len(link[p]) : e.expected_ack_seq <= link[p][i].req_seq
  BY NothingTaken, Zenon
<1>7. /\ Same(e, c1, {"enqueue_buffer", "on_empty"}) /\ c1.enqueue_buffer = Tail(e.enqueue_buffer)
      /\ c1.on_empty = e.on_empty /\ c1.local_busy = e.local_busy
  BY <1>2, Zenon DEF Ready, Same, Fields
<1> HIDE DEF c1
<1>8. /\ Same(e, c2, {"enqueue_buffer", "on_empty"}) /\ c2.enqueue_buffer = c1.enqueue_buffer
      /\ c2.on_empty = 0 /\ c2.local_busy = c1.local_busy
  BY <1>7, Zenon DEF Same, Fields
<1> HIDE DEF q, e, s, d, x, D, c2
<1>9. PICK v, u : /\ Same(e, v, Clearing) /\ Sends(v, u) /\ Same(u, t, Clearing)
                  /\ t.enqueue_buffer = c1.enqueue_buffer
                  /\ "protocol" \in t.closed_by => "protocol" \in e.closed_by
  <2>1. CASE c1.enqueue_buffer = << >> /\ c1.on_empty > 0
    <3>1. t = local_busy_clear(c2)
      BY <2>1, Zenon
    <3> HIDE DEF t
    <3> QED BY <1>2, <1>8, <3>1, Clears, ZenonT(60)
  <2>2. CASE ~(c1.enqueue_buffer = << >> /\ c1.on_empty > 0)
    <3>1. t = c1
      BY <2>2, Zenon
    <3> HIDE DEF t
    <3> QED BY <1>2, <1>7, <3>1, Clears, Zenon
  <2> QED BY <2>1, <2>2, Zenon
<1>10. t.on_empty \in {0, 1} /\ (t.on_empty = 1 => t.local_busy) /\ (t.local_busy => e.local_busy)
  <2>1. CASE c1.enqueue_buffer = << >> /\ c1.on_empty > 0
    <3>1. t = local_busy_clear(c2)
      BY <2>1, Zenon
    <3> HIDE DEF t
    <3>2. t.on_empty = c2.on_empty /\ (t.local_busy => c2.local_busy)
      BY <1>2, <1>8, <3>1, Clears, Zenon
    <3>3. 0 # 1
      OBVIOUS
    <3> QED BY <1>7, <1>8, <3>2, <3>3, Zenon
  <2>2. CASE ~(c1.enqueue_buffer = << >> /\ c1.on_empty > 0)
    <3>1. t = c1
      BY <2>2, Zenon
    <3> HIDE DEF t
    <3> QED BY <1>2, <1>7, <3>1, Zenon DEF Flags
  <2> QED BY <2>1, <2>2, Zenon
<1> HIDE DEF t
<1>11. Same(e, v, Loose \ {"lapped", "overtaken"}) /\ Same(u, t, Loose \ {"lapped", "overtaken"})
  <2>1. Clearing \subseteq Loose \ {"lapped", "overtaken"}
    BY DEF Clearing, Loose
  <2> QED BY <1>9, <2>1, Zenon DEF Same
<1>12. /\ Ready(t) /\ t.overtaken = e.overtaken /\ (e.lapped => t.lapped)
       /\ t.expected_tx_seq = e.expected_tx_seq /\ t.expected_ack_seq = e.expected_ack_seq
       /\ Good(e) /\ ~t.lapped => Good(t) /\ Moved(e, t)
  <2>1. Ready(e) /\ Sends(v, u)
    BY <1>2, <1>9, Zenon
  <2> QED BY ONLY <1>11, <2>1, LooseSends
<1>13. /\ t.rx_state = e.rx_state /\ t.tx_state = e.tx_state
       /\ t.sar_state = e.sar_state /\ t.reassembly_stage = e.reassembly_stage /\ t.remaining = e.remaining
  <2>1. /\ v.rx_state = e.rx_state /\ v.tx_state = e.tx_state
        /\ v.sar_state = e.sar_state /\ v.reassembly_stage = e.reassembly_stage /\ v.remaining = e.remaining
    BY <1>9, Zenon DEF Same, Fields, Clearing
  <2>2. /\ u.rx_state = v.rx_state /\ u.tx_state = v.tx_state
        /\ u.sar_state = v.sar_state /\ u.reassembly_stage = v.reassembly_stage /\ u.remaining = v.remaining
    BY <1>9, Zenon DEF Sends, Same, Fields, Sending
  <2>3. /\ t.rx_state = u.rx_state /\ t.tx_state = u.tx_state
        /\ t.sar_state = u.sar_state /\ t.reassembly_stage = u.reassembly_stage /\ t.remaining = u.remaining
    BY <1>9, Zenon DEF Same, Fields, Clearing
  <2> QED BY <2>1, <2>2, <2>3, Zenon
<1>14. Flags(t)
  BY <1>2, <1>10, <1>13, Zenon DEF Flags
<1>15. ASSUME FirstLap, ~t.lapped
       PROVE  /\ Good(t) /\ Moved(e, t) /\ Keeps(e, t)
              /\ t.expected_ack_seq <= s.expected_tx_seq
              /\ \A i \in 1..Len(link[p]) : t.expected_ack_seq <= link[p][i].req_seq
              /\ e.expected_tx_seq <= t.expected_tx_seq /\ t.expected_tx_seq <= s.next_tx_seq
  <2>1. Good(t) /\ Moved(e, t)
    BY <1>5, <1>12, <1>15, Zenon
  <2>2. Keeps(e, t)
    BY <1>5, <1>15, <2>1, MovedKeeps, Zenon
  <2>3. e.expected_tx_seq <= e.expected_tx_seq
    BY <1>5, <1>15
  <2> QED BY <1>5, <1>6, <1>12, <1>15, <2>1, <2>2, <2>3, Zenon
<1>16. ASSUME FirstLap, ~t.lapped, ~t.overtaken PROVE Flow(t, s, delivered[q], sdus[p], sent[p])
  BY <1>5, <1>12, <1>15, <1>16, FlowSender, Zenon
<1>17. ASSUME FirstLap, ~s.overtaken PROVE Flow(s, t, D, sdus[q], sent[q])
  <2>1. Flow(s, e, d, sdus[q], sent[q])
    BY <1>5, <1>17, Zenon
  <2>2. Received(t, D, sdus[q]) /\ Want(t, D) = Want(e, d)
    <3>1. t.enqueue_buffer = Tail(e.enqueue_buffer) /\ e.enqueue_buffer # << >>
      BY <1>1, <1>7, <1>9, Zenon
    <3>2. Received(e, d, sdus[q])
      BY <2>1, Zenon DEF Flow
    <3> QED BY <1>13, <3>1, <3>2, ReceivedTaken, Zenon DEF D, x
  <2> QED BY <1>12, <2>1, <2>2, Zenon DEF Flow
<1>18. ASSUME Narrow, FirstLap, ~t.lapped, ~t.overtaken, ~s.overtaken PROVE "protocol" \notin t.closed_by
  <2>1. \A y \in Peers : ~ep[y].overtaken
    BY <1>12, <1>18, TwoPeers, Zenon DEF e, s, q
  <2>2. "protocol" \notin e.closed_by
    BY <1>18, <2>1, Zenon DEF IInv, NoProtocolError, e
  <2> QED BY <1>9, <2>2, Zenon
<1>19. sent'[p] = sent[p] /\ sent'[q] = sent[q]
  BY <1>1, Zenon
<1> QED BY <1>1, <1>2, <1>4, <1>6, <1>12, <1>14, <1>15, <1>16, <1>17, <1>18, <1>19, RanInv, Zenon
        DEF e, s, q

-----------------------------------------------------------------------------
\* The channel at the start: nothing sent, nothing received.
LEMMA ControllerIs ==
  ASSUME NEW k \in 0..63
  PROVE  LET c == Controller(k)
         IN  /\ Ready(c) /\ c.out = << >> /\ Flags(c) /\ Good(c) /\ c.closed_by = {}
             /\ Direction(c, c, << >>, << >>)
             /\ \A S : Flow(c, c, << >>, S, 0)
<1> DEFINE c == Controller(k)
<1>1. << >> \in Seq({}) /\ Len(<< >>) = 0 /\ 1..0 = {} /\ DOMAIN << >> = {}
  OBVIOUS
<1>2. IsSeq(<< >>)
  BY <1>1, Zenon DEF IsSeq
<1>3. /\ DOMAIN c = Fields /\ c.out = << >> /\ c.pending_frames = << >> /\ c.enqueue_buffer = << >>
      /\ c.sar_state = "END" /\ c.unacked_list = << >> /\ c.unacked_frames = 0
      /\ c.next_tx_seq = k /\ c.expected_ack_seq = k /\ c.expected_tx_seq = k /\ c.buffer_seq = k
      /\ c.on_empty = 0 /\ ~c.local_busy /\ c.rx_state = "RECV" /\ c.tx_state = "XMIT" /\ c.closed_by = {}
  BY SMTT(30) DEF Controller, Fields
<1> HIDE DEF c
<1>4. Ready(c)
  BY <1>2, <1>3, Zenon DEF Ready
<1>5. Flags(c)
  BY <1>3 DEF Flags
<1>6. k - k = 0 /\ k..k - 1 = {} /\ k \in 0..k /\ 0 <= remote_tx_window_ /\ k <= k /\ k + 0 = k
  BY ErtmAssumption
<1>7. Good(c)
  <2>1. Numbers(c)
    BY <1>3, <1>6, Zenon DEF Numbers
  <2>2. c.unacked_frames = c.next_tx_seq - c.expected_ack_seq /\ c.unacked_frames <= remote_tx_window_
    BY <1>3, <1>6, Zenon
  <2>3. DOMAIN c.unacked_list = c.expected_ack_seq..c.next_tx_seq - 1
    BY <1>1, <1>3, <1>6, Zenon
  <2>4. IsSeq(c.out) /\ \A i \in 1..Len(c.out) : Sendable(c, c.out[i])
    BY <1>1, <1>2, <1>3, Zenon
  <2> QED BY <1>2, <1>3, <2>1, <2>2, <2>3, <2>4, Zenon DEF Good
<1>8. Direction(c, c, << >>, << >>)
  BY <1>1, <1>3, <1>6, Zenon DEF Direction
<1>9. Top(c) = k
  BY <1>1, <1>3, <1>6, Zenon DEF Top
<1>10. ASSUME NEW S PROVE Flow(c, c, << >>, S, 0)
  <2>1. Chain(c, S, 0, <<0 + 1, 1>>)
    BY <1>3, <1>6, <1>9, Zenon DEF Chain
  <2>2. Received(c, << >>, S)
    BY <1>1, <1>2, <1>3, Zenon DEF Received
  <2>3. Number(c, << >>) = 1 /\ 0 + 1 = 1
    <3>1. Number(c, << >>) = 0 + 0 + 1
      BY <1>1, <1>3, Zenon DEF Number
    <3> QED BY <3>1
  <2>4. Place(c, k, <<0 + 1, 1>>) = Want(c, << >>)
    BY <1>3, <1>9, <2>3, Zenon DEF Place, Want
  <2> QED BY <1>3, <2>1, <2>2, <2>4, Zenon DEF Flow
<1> QED BY <1>3, <1>4, <1>5, <1>7, <1>8, <1>10, Zenon DEF c

\* Init establishes the invariant, whatever number the modelled part starts from.
LEMMA InitInv ==
  ASSUME Init
  PROVE  IInv
<1>1. PICK k \in FirstSeqs : ep = [p \in Peers |-> Controller(k)]
  BY Zenon DEF Init
<1>2. k \in 0..63
  BY ErtmAssumption, Zenon
<1> DEFINE c == Controller(k)
<1>3. /\ DOMAIN ep = Peers /\ \A p \in Peers : ep[p] = c
  BY <1>1, Zenon
<1>4. /\ Ready(c) /\ c.out = << >> /\ Flags(c) /\ Good(c) /\ c.closed_by = {}
      /\ Direction(c, c, << >>, << >>)
      /\ \A S : Flow(c, c, << >>, S, 0)
  BY <1>2, ControllerIs, Zenon
<1> HIDE DEF c
<1>5. /\ DOMAIN link = Peers /\ \A p \in Peers : link[p] = << >>
      /\ DOMAIN sent = Peers /\ \A p \in Peers : sent[p] = 0
      /\ DOMAIN delivered = Peers /\ \A p \in Peers : delivered[p] = << >>
  BY Zenon DEF Init
<1>6. sdus \in [Peers -> Seq(Nat \ {0})]
  BY ErtmAssumption, Zenon DEF Init
<1>7. \A p \in Peers : sent[p] \in 0..Len(sdus[p])
  <2> SUFFICES ASSUME NEW p \in Peers PROVE sent[p] \in 0..Len(sdus[p])
    BY Zenon
  <2>1. sdus[p] \in Seq(Nat \ {0})
    BY <1>6, Zenon
  <2>2. 0 \in 0..Len(sdus[p])
    BY <2>1
  <2> QED BY <1>5, <2>2, Zenon
<1>8. IsSeq(<< >>)
  <2>1. << >> \in Seq({})
    OBVIOUS
  <2> QED BY <2>1, Zenon DEF IsSeq
<1>9. \A p \in Peers : Peer(p) \in Peers
  BY TwoPeers, Zenon
<1>10. NoProtocolError
  BY <1>3, <1>4, Zenon DEF NoProtocolError
<1>11. ASSUME NEW p \in Peers
       PROVE  /\ Good(ep[p]) /\ IsSeq(link[p])
              /\ Direction(ep[p], ep[Peer(p)], link[p], link[Peer(p)])
              /\ ~ep[p].overtaken => Flow(ep[p], ep[Peer(p)], delivered[Peer(p)], sdus[p], sent[p])
  <2>1. /\ ep[p] = c /\ ep[Peer(p)] = c /\ link[p] = << >> /\ link[Peer(p)] = << >>
        /\ delivered[Peer(p)] = << >> /\ sent[p] = 0
    BY <1>3, <1>5, <1>9, Zenon
  <2> QED BY <1>4, <1>8, <2>1, Zenon
<1>12. \A p \in Peers : Ready(ep[p]) /\ ep[p].out = << >> /\ Flags(ep[p])
  BY <1>3, <1>4, Zenon
<1> QED BY <1>3, <1>5, <1>6, <1>7, <1>10, <1>11, <1>12, Zenon DEF IInv

\* Every step of the system keeps the invariant.
LEMMA NextInv ==
  ASSUME IInv, [Next]_vars
  PROVE  IInv'
<1>1. CASE UNCHANGED vars
  BY <1>1, StayInv, Zenon DEF vars
<1>2. CASE Disconnect
  BY <1>2, StayInv, Zenon DEF Disconnect
<1>3. ASSUME NEW p \in Peers,
             \/ OnSdu(p) \/ OnPdu(p) \/ Lose(p) \/ enqueue_callback(p)
             \/ retrans_timer_expires(p) \/ monitor_timer_expires(p)
      PROVE  IInv'
  BY <1>3, OnSduInv, OnPduInv, LoseInv, EnqueueCallbackInv, RetransTimerInv, MonitorTimerInv, Zenon
<1> QED BY <1>1, <1>2, <1>3, Zenon DEF Next

\* The invariant holds in every reachable state.
LEMMA IInvHolds == Spec => []IInv
BY InitInv, NextInv, PTL DEF Spec

-----------------------------------------------------------------------------
\* The buffer of SDUs that wait for the client registers its callback once: the ASSERT in
\* EnqueueBuffer::NotifyOnEmpty never fails, in any number of laps, for any window and any
\* losses and expirations (EnqueueSdu, local_busy_clear, recv_i_frame).
THEOREM NotifyOnEmptyOnceHolds == Spec => []NotifyOnEmptyOnce
<1>1. IInv => NotifyOnEmptyOnce
  <2> SUFFICES ASSUME IInv, NEW p \in Peers PROVE ep[p].on_empty <= 1
    BY Zenon DEF NotifyOnEmptyOnce
  <2>1. ep[p].on_empty \in {0, 1}
    BY Zenon DEF IInv, Flags
  <2> QED BY <2>1
<1> QED BY <1>1, IInvHolds, PTL

\* Within one lap the two controllers agree on the window: unacked_frames_ is what lies between
\* expected_ack_seq_ and next_tx_seq_ and at most the negotiated window, and the peer expects one
\* of those frames or the next one (send_data, process_req_seq, accept_i_frame).
THEOREM WindowsAgreeHolds == Spec => []WindowsAgree
<1>1. IInv => WindowsAgree
  <2> SUFFICES ASSUME IInv, FirstLap, NEW p \in Peers
               PROVE  LET e == ep[p]
                          received == (ep[Peer(p)].expected_tx_seq - e.expected_ack_seq) % kMaxTxWin
                      IN  /\ e.unacked_frames <= remote_tx_window_
                          /\ e.unacked_frames = (e.next_tx_seq - e.expected_ack_seq) % kMaxTxWin
                          /\ received <= e.unacked_frames
    BY Zenon DEF WindowsAgree
  <2> DEFINE e == ep[p]
             a == e.expected_ack_seq
             n == e.next_tx_seq
             x == ep[Peer(p)].expected_tx_seq
             u == e.unacked_frames
  <2>1. Good(e) /\ a \in Int /\ n \in Int /\ x \in Int /\ a <= x /\ x <= n
    BY Both, Zenon
  <2>2. u = n - a /\ u <= remote_tx_window_
    BY <2>1, Zenon DEF Good
  <2>3. 0 <= a /\ n <= 63
    BY <2>1, TopIs, Zenon
  <2> HIDE DEF e, a, n, x, u
  <2>4. n - a \in 0..63 /\ x - a \in 0..63 /\ x - a <= n - a
    BY <2>1, <2>3
  <2>5. (n - a) % kMaxTxWin = n - a /\ (x - a) % kMaxTxWin = x - a
    BY <2>4 DEF kMaxTxWin
  <2>6. u = (n - a) % kMaxTxWin /\ (x - a) % kMaxTxWin <= u
    BY <2>2, <2>4, <2>5, Zenon
  <2> QED BY <2>2, <2>6, Zenon DEF e, a, n, x, u
<1> QED BY <1>1, IInvHolds, PTL

\* Within one lap, and as long as no segment was sent before the pending ones, what reaches a
\* client is a prefix of the SDUs that the peer's client handed over, each of them whole: whatever
\* the link loses and whenever timers expire, for every traffic, window and number of
\* transmissions (OnSdu, recv_i_frame, retransmit_i_frames, stage_for_reassembly).
THEOREM InOrderHolds == Spec => []InOrder
<1>1. IInv => InOrder
  <2> SUFFICES ASSUME IInv, FirstLap, NEW p \in Peers, ~ep[Peer(p)].overtaken PROVE Faithful(p)
    BY Zenon DEF InOrder
  <2> DEFINE q == Peer(p)
             e == ep[p]
             s == ep[q]
             d == delivered[p]
             b == e.enqueue_buffer
             S == sdus[q]
             n == sent[q]
             x == e.expected_tx_seq
             z == <<n + 1, 1>>
             got == d \o b
             ld == Len(d)
             lb == Len(b)
  <2>1. /\ Good(s) /\ Flow(s, e, d, S, n) /\ x \in Int /\ s.expected_ack_seq \in Int /\ s.next_tx_seq \in Int
        /\ s.expected_ack_seq <= x /\ x <= s.next_tx_seq
    BY Both, Zenon
  <2>2. q \in Peers /\ S \in Seq(Nat \ {0}) /\ n \in 0..Len(S)
    BY TwoPeers, Zenon DEF IInv
  <2>3. /\ IsSeq(d) /\ IsSeq(b)
        /\ \A k \in 1..ld : d[k] = Whole(k, S[k])
        /\ \A k \in 1..lb : b[k] = Whole(ld + k, S[ld + k])
    BY <2>1, Zenon DEF Flow, Received
  <2>4. Number(e, d) = ld + lb + 1
    BY Zenon DEF Number
  <2>5. Faithful(p) <=> Len(got) <= n /\ \A k \in 1..Len(got) : got[k] = Whole(k, S[k])
    BY Zenon DEF Faithful
  <2> HIDE DEF q, e, s, d, b, S, n, x
  <2>6. /\ ld \in Nat /\ lb \in Nat /\ Len(got) = ld + lb
        /\ \A i \in 1..ld : got[i] = d[i]
        /\ \A i \in 1..lb : got[ld + i] = b[i]
    <3>1. IsSeq(d) /\ IsSeq(b)
      BY <2>3, Zenon
    <3> QED BY ONLY <3>1, Joined
  <2> HIDE DEF got, ld, lb
  <2>7. n \in Nat
    BY <2>2
  <2>8. Want(e, d)[1] = ld + lb + 1
    BY <2>4 DEF Want
  <2>9. ld + lb <= n
    <3>1. Chain(s, S, n, z) /\ Place(s, x, z) = Want(e, d)
      BY <2>1, Zenon DEF Flow, x
    <3>2. CASE x = Top(s)
      <4>1. Want(e, d) = <<n + 1, 1>>
        BY <3>1, <3>2, Zenon DEF Place
      <4>2. ld + lb + 1 = n + 1
        BY <2>8, <4>1
      <4> QED BY <2>6, <2>7, <4>2
    <3>3. CASE x # Top(s)
      <4>1. x \in s.expected_ack_seq..Top(s) - 1
        <5>1. Top(s) \in Int /\ s.next_tx_seq <= Top(s)
          BY <2>1, TopIs, Zenon
        <5> QED BY <2>1, <3>3, <5>1
      <4>2. PICK k \in 1..n : \E j \in 1..S[k] : At(s, x) = Segment(k, S[k], j)
        BY <3>1, <4>1, Zenon DEF Chain
      <4>3. PICK j \in 1..S[k] : At(s, x) = Segment(k, S[k], j)
        BY <4>2, Zenon
      <4>4. Segment(k, S[k], j).payload = <<k, j>>
        BY DEF Segment
      <4>5. Want(e, d) = <<k, j>>
        BY <3>1, <3>3, <4>3, <4>4, Zenon DEF Place
      <4>6. ld + lb + 1 = k
        BY <2>8, <4>5
      <4> QED BY <2>6, <2>7, <4>6
    <3> QED BY <3>2, <3>3, Zenon
  <2>10. ASSUME NEW k \in 1..ld + lb PROVE got[k] = Whole(k, S[k])
    <3>1. CASE k \in 1..ld
      BY <2>3, <2>6, <3>1, Zenon
    <3>2. CASE k \notin 1..ld
      <4>1. k - ld \in 1..lb /\ ld + (k - ld) = k
        BY <2>6, <3>2
      <4>2. got[ld + (k - ld)] = Whole(ld + (k - ld), S[ld + (k - ld)])
        BY <2>3, <2>6, <4>1, Zenon
      <4> QED BY <4>1, <4>2, Zenon
    <3> QED BY <3>1, <3>2, Zenon
  <2> QED BY <2>5, <2>6, <2>9, <2>10, Zenon
<1> QED BY <1>1, IInvHolds, PTL

\* With a window of at most 54 frames, no frame that one controller sends is ever taken by the
\* other for a protocol violation within one lap, if no segment was sent before the pending ones
\* (with_invalid_req_seq, stage_for_reassembly).
THEOREM NoProtocolErrorHolds ==
  ASSUME Narrow
  PROVE  Spec => []NoProtocolError
<1>1. IInv => NoProtocolError
  BY Zenon DEF IInv
<1> QED BY <1>1, IInvHolds, PTL
=============================================================================
