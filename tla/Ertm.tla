-------------------------------- MODULE Ertm --------------------------------
(***************************************************************************)
(* Enhanced Retransmission Mode of an L2CAP channel: two ErtmControllers   *)
(* (gd/l2cap/internal/enhanced_retransmission_mode_channel_data_           *)
(* controller.cc) joined by a link that may lose frames.  A controller is  *)
(* a record of the fields of ErtmController and of its impl; every handler *)
(* of the code is an operator from the record to the record the handler    *)
(* leaves, and the PDUs it hands to send_pdu are appended to "out".        *)
(*                                                                         *)
(* SDUs are cut into segments; a segment's payload is the pair <<number of *)
(* the SDU, number of the segment>> and all segments have size 1.          *)
(*                                                                         *)
(* Two fields are history, for the properties: lapped (next_tx_seq_ went   *)
(* back to 0) and overtaken (a segment was sent before the ones that wait  *)
(* in pending_frames_).                                                    *)
(***************************************************************************)
EXTENDS Integers, Sequences

CONSTANTS Peers,                 \* the two ends of the channel
          SduChoices,            \* traffic: SDU sizes in segments, for each peer in order
          FirstSeqs,             \* sequence number the modelled part starts from
          remote_tx_window_,     \* negotiated: frames that may be unacknowledged
          local_max_transmit_,   \* negotiated: transmissions before giving up
          MaxFaults              \* bound: frames the link loses and timers that expire

ASSUME ErtmAssumption ==
    /\ \E p, q \in Peers : p # q /\ Peers = {p, q}
    /\ SduChoices \subseteq [Peers -> Seq(Nat \ {0})]
    /\ remote_tx_window_ \in 1..63 /\ local_max_transmit_ \in Nat \ {0}
    /\ FirstSeqs \subseteq 0..63 /\ MaxFaults \in Nat

VARIABLES sdus,       \* sdus[p]: sizes of the SDUs that p's client sends
          ep,         \* ep[p]: the controller of p
          link,       \* link[p]: frames on their way to p, oldest first
          sent,       \* sent[p]: SDUs p's client has handed to OnSdu
          delivered,  \* delivered[p]: SDUs p's client has taken from the channel's queue
          open,       \* neither side has torn the channel down
          faults      \* frames lost and timers expired so far

vars == <<sdus, ep, link, sent, delivered, open, faults>>

Peer(p) == CHOOSE q \in Peers : q # p

kMaxTxWin == 64

local_tx_window_ == 10

kEnqueueBufferBusyThreshold == 3

uint8(n) == n % 256

uint16(n) == n % 65536

\* A controller whose first "first" frames in each direction are acknowledged.
Controller(first) ==
    [tx_state |-> "XMIT", rx_state |-> "RECV",
     next_tx_seq |-> first, expected_ack_seq |-> first,
     expected_tx_seq |-> first, buffer_seq |-> first,
     remote_busy |-> FALSE, local_busy |-> FALSE, rnr_sent |-> FALSE, rej_actioned |-> FALSE,
     unacked_frames |-> 0, unacked_list |-> << >>, pending_frames |-> << >>,
     retry_count |-> 0, retry_i_frames |-> << >>,
     retrans_timer |-> FALSE, monitor_timer |-> FALSE,
     sar_state |-> "END", reassembly_stage |-> << >>, remaining |-> 0,
     enqueue_buffer |-> << >>, on_empty |-> 0,
     closed_by |-> {}, out |-> << >>, lapped |-> FALSE, overtaken |-> FALSE]

Init ==
    /\ sdus \in SduChoices
    /\ \E first \in FirstSeqs : ep = [p \in Peers |-> Controller(first)]
    /\ link = [p \in Peers |-> << >>]
    /\ sent = [p \in Peers |-> 0]
    /\ delivered = [p \in Peers |-> << >>]
    /\ open = TRUE
    /\ faults = 0

(***************************************************************************)
(* Conditions.                                                             *)
(***************************************************************************)
sequence_less_than(x, y) == x < y \/ kMaxTxWin - (x - y) < local_tx_window_

sequence_less_than_or_equal(x, y) == x <= y \/ kMaxTxWin - (x - y) <= local_tx_window_

rem_window_not_full_mut(e) == e.unacked_frames <= remote_tx_window_

rem_window_not_full(e) == e.unacked_frames < remote_tx_window_

with_expected_tx_seq_mut(e, tx_seq) == sequence_less_than_or_equal(e.expected_tx_seq, tx_seq)

with_expected_tx_seq(e, tx_seq) == tx_seq = e.expected_tx_seq

with_valid_req_seq(e, req_seq) ==
    /\ sequence_less_than_or_equal(e.expected_ack_seq, req_seq)
    /\ sequence_less_than_or_equal(req_seq, e.next_tx_seq)

with_invalid_req_seq_mut(e, req_seq) ==
    sequence_less_than(req_seq, e.expected_ack_seq) \/ sequence_less_than_or_equal(e.next_tx_seq, req_seq)

with_invalid_req_seq(e, req_seq) ==
    \/ sequence_less_than(req_seq, e.expected_ack_seq)
    \/ sequence_less_than(e.next_tx_seq, req_seq)

\* "f == Final::NOT_SET ^ tx_state_ == TxState::WAIT_F"
with_valid_f_bit(e, f) == ~f # (e.tx_state = "WAIT_F")

with_unexpected_tx_seq(e, tx_seq) ==
    /\ sequence_less_than(e.expected_tx_seq, tx_seq)
    /\ sequence_less_than_or_equal(tx_seq, uint8(e.expected_tx_seq + local_tx_window_))

with_duplicate_tx_seq(e, tx_seq) ==
    /\ sequence_less_than(tx_seq, e.expected_tx_seq)
    /\ sequence_less_than_or_equal(uint8(e.expected_tx_seq - local_tx_window_), tx_seq)

with_invalid_tx_seq(e, tx_seq) ==
    \/ sequence_less_than(tx_seq, uint8(e.expected_tx_seq - local_tx_window_))
    \/ sequence_less_than(uint8(e.expected_tx_seq + local_tx_window_), tx_seq)

\* f[x] = v
Put(f, x, v) == [y \in DOMAIN f \cup {x} |-> IF y = x THEN v ELSE f[y]]

\* f.emplace(x, v): an entry that is already there stays.
Emplace(f, x, v) == IF x \in DOMAIN f THEN f ELSE Put(f, x, v)

\* retry_i_frames_[i]; a std::map creates a missing entry with the value 0
retries(e, i) == IF i \in DOMAIN e.retry_i_frames THEN e.retry_i_frames[i] ELSE 0

(***************************************************************************)
(* Actions of the controller.                                              *)
(***************************************************************************)
CloseChannel(e, why) == [e EXCEPT !.closed_by = @ \cup {why}]

send_s_frame(e, s, req_seq, p, f) ==
    [e EXCEPT !.out = Append(@, [type |-> s, req_seq |-> req_seq, p |-> p, f |-> f])]

IFrame(e, segment, payload, tx_seq, f) ==
    [type |-> "I", req_seq |-> e.buffer_seq, p |-> FALSE, f |-> f, tx_seq |-> tx_seq,
     sar |-> segment.sar, sdu_size |-> segment.sdu_size, payload |-> payload]

\* The payload that goes out is the one in the list.
send_data(e, segment, f) ==
    LET n    == e.next_tx_seq
        list == Emplace(e.unacked_list, n, segment)
    IN  [e EXCEPT !.unacked_list = list,
                  !.out = Append(@, IFrame(e, segment, list[n].payload, n, f)),
                  !.unacked_frames = @ + 1,
                  !.retry_i_frames = Put(@, n, 1),
                  !.next_tx_seq = (n + 1) % kMaxTxWin,
                  !.retrans_timer = TRUE,
                  !.lapped = @ \/ n + 1 = kMaxTxWin]

data_request(e, segment) ==
    IF e.tx_state = "XMIT" /\ ~e.remote_busy /\ rem_window_not_full(e)
    THEN [send_data(e, segment, FALSE) EXCEPT !.overtaken = @ \/ e.pending_frames # << >>]
    ELSE IF \/ e.tx_state = "XMIT" /\ (e.remote_busy \/ e.unacked_frames = remote_tx_window_)
            \/ e.tx_state = "WAIT_F"
         THEN [e EXCEPT !.pending_frames = Append(@, segment)]
         ELSE e

\* One turn of the loop of send_pending_i_frames.
send_pending(e, f) ==
    IF rem_window_not_full(e) /\ e.pending_frames # << >>
    THEN [send_data(e, Head(e.pending_frames), f) EXCEPT !.pending_frames = Tail(@)]
    ELSE e

\* The window's room is filled with pending frames; only the first carries f.
send_pending_i_frames(e, f) ==
    LET room == remote_tx_window_ - e.unacked_frames
        n == IF room \in 0..Len(e.pending_frames) THEN room ELSE Len(e.pending_frames)
        filled[i \in 0..n] == IF i = 0 THEN e ELSE send_pending(filled[i - 1], f /\ i = 1)
    IN  IF e.tx_state = "WAIT_F" THEN e ELSE filled[n]

\* The unacknowledged frames from req_seq on, up to the first number that is
\* not in the list ("i" is not reduced modulo kMaxTxWin) or that has used up
\* its transmissions.
retransmit_i_frames(e, req_seq, p) ==
    LET last  == CHOOSE i \in req_seq..kMaxTxWin :
                   /\ i \notin DOMAIN e.unacked_list
                   /\ \A j \in req_seq..(i - 1) : j \in DOMAIN e.unacked_list
        spent == {i \in req_seq..(last - 1) : retries(e, i) = local_max_transmit_}
        upto  == IF spent = {} THEN last ELSE CHOOSE i \in spent : \A j \in spent : i <= j
        again == req_seq..(upto - 1)
        Frame(i) == IFrame(e, e.unacked_list[i], e.unacked_list[i].payload, i, p /\ i = req_seq)
        e1    == [e EXCEPT !.out = @ \o [j \in 1..(upto - req_seq) |-> Frame(req_seq + j - 1)],
                           !.retry_i_frames = [i \in DOMAIN @ \cup again |->
                                                 IF i \in again THEN retries(e, i) + 1 ELSE @[i]]]
    IN  IF spent # {} THEN CloseChannel(e1, "retries")
                      ELSE [e1 EXCEPT !.retrans_timer = @ \/ again # {}]

send_rnr(e, f) == [send_s_frame(e, "RNR", e.expected_tx_seq, FALSE, f) EXCEPT !.rnr_sent = TRUE]

send_rr(e, p, f) == send_s_frame(e, "RR", e.expected_tx_seq, p, f)

send_rr_or_rnr(e, p, f) == send_s_frame(e, IF e.local_busy THEN "RNR" ELSE "RR", e.buffer_seq, p, f)

send_ack(e) ==
    IF e.local_busy THEN send_rnr(e, FALSE)
    ELSE IF ~e.remote_busy /\ e.pending_frames # << >> /\ rem_window_not_full(e)
         THEN send_pending_i_frames(e, FALSE)
         ELSE send_rr(e, FALSE, FALSE)

\* The peer is no longer busy: unacknowledged frames are timed again.
remote_ready(e) ==
    [e EXCEPT !.retrans_timer = @ \/ (e.remote_busy /\ e.unacked_frames > 0), !.remote_busy = FALSE]

send_i_or_rr_or_rnr(e) ==
    LET e1 == IF e.local_busy THEN send_rnr(e, TRUE) ELSE e
        e2 == send_pending_i_frames(remote_ready(e1), TRUE)
    IN  IF e.local_busy THEN e2 ELSE send_rr(e2, FALSE, TRUE)

process_req_seq_mut(e, req_seq) ==
    LET acked == e.expected_ack_seq..(req_seq - 1)
        Without(f) == [i \in DOMAIN f \ acked |-> f[i]]
    IN  [e EXCEPT !.unacked_list = Without(@), !.retry_i_frames = Without(@),
                  !.unacked_frames = @ - ((req_seq - e.expected_ack_seq + kMaxTxWin) % kMaxTxWin),
                  !.expected_ack_seq = req_seq, !.retrans_timer = FALSE]

process_req_seq(e, req_seq) ==
    LET acked    == e.expected_ack_seq..(req_seq - 1)
        unacked  == e.unacked_frames - ((req_seq - e.expected_ack_seq + kMaxTxWin) % kMaxTxWin)
        Without(f) == [i \in DOMAIN f \ acked |-> f[i]]
    IN  [e EXCEPT !.unacked_list = Without(@), !.retry_i_frames = Without(@),
                  !.unacked_frames = unacked, !.expected_ack_seq = req_seq,
                  !.retrans_timer = @ /\ unacked # 0]

\* pass_to_tx: recv_req_seq_and_f_bit
pass_to_tx(e, req_seq, f) ==
    LET e1 == process_req_seq(e, req_seq)
    IN  IF e.tx_state = "WAIT_F" /\ f
        THEN [e1 EXCEPT !.monitor_timer = FALSE, !.tx_state = "XMIT",
                        !.retrans_timer = @ \/ e1.unacked_frames > 0]
        ELSE e1

(***************************************************************************)
(* Reassembly.                                                             *)
(***************************************************************************)
EnqueueSdu_mut(e, sdu) ==
    LET buffer == Append(e.enqueue_buffer, sdu)
    IN  [e EXCEPT !.enqueue_buffer = buffer,
                  !.on_empty = IF Len(buffer) = kEnqueueBufferBusyThreshold THEN @ + 1 ELSE @]

\* A whole SDU enters the channel's queue; at the threshold the controller
\* claims to be busy until the queue is empty.
EnqueueSdu(e, sdu) ==
    LET buffer == Append(e.enqueue_buffer, sdu)
        full   == Len(buffer) = kEnqueueBufferBusyThreshold
    IN  [e EXCEPT !.enqueue_buffer = buffer,
                  !.local_busy = @ \/ full,
                  !.on_empty = IF full THEN @ + 1 ELSE @]

stage_for_reassembly(e, m) ==
    LET first == m.sar \in {"UNSEGMENTED", "START"}
        rest  == uint16(e.remaining - 1)
        whole == Append(e.reassembly_stage, m.payload)
    IN  IF first # (e.sar_state = "END") THEN CloseChannel(e, "protocol")
        ELSE IF m.sar = "UNSEGMENTED" THEN EnqueueSdu(e, <<m.payload>>)
        ELSE IF m.sar = "START"
             THEN [e EXCEPT !.sar_state = "START", !.reassembly_stage = <<m.payload>>,
                            !.remaining = uint16(m.sdu_size - 1)]
        ELSE IF m.sar = "CONTINUATION" THEN [e EXCEPT !.reassembly_stage = whole, !.remaining = rest]
        ELSE IF rest = 0
             THEN EnqueueSdu([e EXCEPT !.sar_state = "END", !.reassembly_stage = whole, !.remaining = 0], whole)
        ELSE CloseChannel([e EXCEPT !.sar_state = "END", !.reassembly_stage = << >>, !.remaining = 0], "protocol")

data_indication(e, m) == [stage_for_reassembly(e, m) EXCEPT !.buffer_seq = (@ + 1) % kMaxTxWin]

(***************************************************************************)
(* Events.                                                                 *)
(***************************************************************************)
\* What the answer to a poll sets going.
poll_answered(e, req_seq, p) ==
    IF e.rej_actioned THEN [e EXCEPT !.rej_actioned = FALSE] ELSE retransmit_i_frames(e, req_seq, p)

\* The expected I-frame, in either receiver state.
accept_i_frame(e, m) ==
    LET e1 == data_indication(pass_to_tx([e EXCEPT !.expected_tx_seq = (@ + 1) % kMaxTxWin], m.req_seq, m.f), m)
        e2 == IF ~m.f THEN e1
              ELSE IF e1.rej_actioned THEN [e1 EXCEPT !.rej_actioned = FALSE]
              ELSE send_pending_i_frames(retransmit_i_frames(e1, m.req_seq, FALSE), FALSE)
    IN  send_ack(e2)

recv_i_frame(e, m) ==
    LET valid      == with_valid_req_seq(e, m.req_seq) /\ with_valid_f_bit(e, m.f)
        expected   == with_expected_tx_seq(e, m.tx_seq)
        passed     == pass_to_tx(e, m.req_seq, m.f)
    IN  IF e.rx_state = "REJ_SENT"
        THEN IF valid /\ expected THEN [accept_i_frame(e, m) EXCEPT !.rx_state = "RECV"]
             ELSE IF valid /\ with_unexpected_tx_seq(e, m.tx_seq) THEN passed
             ELSE e
        ELSE IF valid /\ expected /\ ~e.local_busy THEN accept_i_frame(e, m)
        ELSE IF valid /\ with_duplicate_tx_seq(e, m.tx_seq) /\ ~e.local_busy THEN passed
        ELSE IF valid /\ with_unexpected_tx_seq(e, m.tx_seq) /\ ~e.local_busy
             THEN [send_s_frame(passed, "REJ", e.expected_tx_seq, FALSE, FALSE) EXCEPT !.rx_state = "REJ_SENT"]
        ELSE IF valid /\ (expected \/ ~with_invalid_tx_seq(e, m.tx_seq)) /\ e.local_busy THEN passed
        ELSE IF \/ with_invalid_tx_seq(e, m.tx_seq) /\ local_tx_window_ > kMaxTxWin \div 2
                \/ with_invalid_req_seq(e, m.req_seq)
             THEN CloseChannel(e, "protocol")
        ELSE e

recv_rr(e, m) ==
    LET passed == pass_to_tx(e, m.req_seq, m.f)
        valid  == with_valid_req_seq(e, m.req_seq) /\ with_valid_f_bit(e, m.f)
        recv   == e.rx_state = "RECV"
    IN  IF valid /\ m.f
        THEN send_pending_i_frames(poll_answered([passed EXCEPT !.remote_busy = FALSE], m.req_seq, m.p), FALSE)
        ELSE IF valid /\ m.p
             THEN IF recv THEN send_i_or_rr_or_rnr(passed) ELSE send_rr(remote_ready(passed), FALSE, TRUE)
        ELSE IF valid
             THEN IF recv THEN send_pending_i_frames(remote_ready(passed), FALSE) ELSE send_ack(remote_ready(passed))
        ELSE IF with_invalid_req_seq(e, m.req_seq) THEN CloseChannel(e, "protocol")
        ELSE e

recv_rej(e, m) ==
    LET passed == [pass_to_tx(e, m.req_seq, m.f) EXCEPT !.remote_busy = FALSE]
        left   == retries(e, m.req_seq) < local_max_transmit_
        known  == with_valid_req_seq(e, m.req_seq)
        valid  == known /\ left /\ with_valid_f_bit(e, m.f)
    IN  IF valid /\ m.f THEN send_pending_i_frames(poll_answered(passed, m.req_seq, m.p), FALSE)
        ELSE IF valid
             THEN LET e1 == send_pending_i_frames(retransmit_i_frames(passed, m.req_seq, m.p), FALSE)
                  IN  [e1 EXCEPT !.rej_actioned = @ \/ e1.tx_state = "WAIT_F"]
        ELSE IF known /\ ~left THEN CloseChannel(e, "retries")
        ELSE IF with_invalid_req_seq(e, m.req_seq) THEN CloseChannel(e, "protocol")
        ELSE e

recv_rnr(e, m) ==
    LET passed  == [pass_to_tx(e, m.req_seq, m.f) EXCEPT !.remote_busy = TRUE]
        stopped == [passed EXCEPT !.retrans_timer = FALSE]
    IN  IF with_valid_req_seq(e, m.req_seq) /\ with_valid_f_bit(e, m.f)
        THEN IF e.rx_state = "REJ_SENT" THEN send_rr(passed, FALSE, ~m.p)
             ELSE IF m.p THEN send_rr_or_rnr(stopped, FALSE, TRUE) ELSE stopped
        ELSE IF with_invalid_req_seq(e, m.req_seq) THEN CloseChannel(e, "protocol")
        ELSE e

local_busy_clear(e) ==
    LET clear == [e EXCEPT !.local_busy = FALSE, !.rnr_sent = FALSE]
    IN  IF e.tx_state # "XMIT" THEN e
        ELSE IF e.rnr_sent
             THEN [send_rr(clear, TRUE, FALSE) EXCEPT !.retry_count = 1, !.retrans_timer = FALSE,
                                                      !.monitor_timer = TRUE]
             ELSE clear

(***************************************************************************)
(* The system.                                                             *)
(***************************************************************************)
\* The i-th of the size segments of an SDU.
Segment(sdu, size, i) ==
    [sar |-> IF size = 1 THEN "UNSEGMENTED" ELSE IF i = 1 THEN "START"
             ELSE IF i = size THEN "END" ELSE "CONTINUATION",
     sdu_size |-> IF i = 1 /\ size > 1 THEN size ELSE 0,
     payload |-> <<sdu, i>>]

\* A handler of p ran and left e; its PDUs go to the peer in order.
Ran(p, e, incoming) ==
    /\ ep' = [ep EXCEPT ![p] = [e EXCEPT !.out = << >>]]
    /\ link' = [link EXCEPT ![p] = incoming, ![Peer(p)] = @ \o e.out]

OnSdu(p) ==
    /\ open /\ sent[p] < Len(sdus[p])
    /\ LET n == sdus[p][sent[p] + 1]
           handed[i \in 0..n] ==
               IF i = 0 THEN ep[p] ELSE data_request(handed[i - 1], Segment(sent[p] + 1, n, i))
       IN  Ran(p, handed[n], link[p])
    /\ sent' = [sent EXCEPT ![p] = @ + 1]
    /\ UNCHANGED <<sdus, delivered, open, faults>>

OnPdu(p) ==
    /\ open /\ link[p] # << >>
    /\ LET m == Head(link[p])
           e == IF m.type = "I" THEN recv_i_frame(ep[p], m)
                ELSE IF m.type = "RR" THEN recv_rr(ep[p], m)
                ELSE IF m.type = "RNR" THEN recv_rnr(ep[p], m)
                ELSE recv_rej(ep[p], m)
       IN  Ran(p, e, Tail(link[p]))
    /\ UNCHANGED <<sdus, sent, delivered, open, faults>>

\* A frame whose check sequence is wrong is dropped by on_pdu_fcs.
Lose(p) ==
    /\ open /\ link[p] # << >> /\ faults < MaxFaults
    /\ link' = [link EXCEPT ![p] = Tail(@)]
    /\ faults' = faults + 1
    /\ UNCHANGED <<sdus, ep, sent, delivered, open>>

retrans_timer_expires(p) ==
    /\ open /\ ep[p].retrans_timer /\ faults < MaxFaults
    /\ LET e == [ep[p] EXCEPT !.retrans_timer = FALSE]
       IN  Ran(p, IF e.tx_state = "XMIT"
                  THEN [send_rr_or_rnr(e, TRUE, FALSE) EXCEPT !.retry_count = 1, !.monitor_timer = TRUE,
                                                              !.tx_state = "WAIT_F"]
                  ELSE e, link[p])
    /\ faults' = faults + 1
    /\ UNCHANGED <<sdus, sent, delivered, open>>

monitor_timer_expires(p) ==
    /\ open /\ ep[p].monitor_timer /\ faults < MaxFaults
    /\ LET e == [ep[p] EXCEPT !.monitor_timer = FALSE]
       IN  Ran(p, IF e.tx_state # "WAIT_F" THEN e
                  ELSE IF e.retry_count < local_max_transmit_
                  THEN [send_rr_or_rnr(e, TRUE, FALSE) EXCEPT !.retry_count = @ + 1, !.monitor_timer = TRUE]
                  ELSE CloseChannel(e, "retries"), link[p])
    /\ faults' = faults + 1
    /\ UNCHANGED <<sdus, sent, delivered, open>>

\* EnqueueBuffer::enqueue_callback: the client's queue has room for an SDU.
enqueue_callback(p) ==
    /\ open /\ ep[p].enqueue_buffer # << >>
    /\ LET e == [ep[p] EXCEPT !.enqueue_buffer = Tail(@)]
       IN  Ran(p, IF e.enqueue_buffer = << >> /\ e.on_empty > 0
                  THEN local_busy_clear([e EXCEPT !.on_empty = 0])
                  ELSE e, link[p])
    /\ delivered' = [delivered EXCEPT ![p] = Append(@, Head(ep[p].enqueue_buffer))]
    /\ UNCHANGED <<sdus, sent, open, faults>>

\* The disconnection request that close_channel sends ends the channel.
Disconnect ==
    /\ open /\ \E p \in Peers : ep[p].closed_by # {}
    /\ open' = FALSE
    /\ UNCHANGED <<sdus, ep, link, sent, delivered, faults>>

Next ==
    \/ \E p \in Peers : \/ OnSdu(p) \/ OnPdu(p) \/ Lose(p) \/ enqueue_callback(p)
                        \/ retrans_timer_expires(p) \/ monitor_timer_expires(p)
    \/ Disconnect

Spec == Init /\ [][Next]_vars

-----------------------------------------------------------------------------
Whole(sdu, size) == [i \in 1..size |-> <<sdu, i>>]

\* No sequence number has been used a second time.
FirstLap == \A p \in Peers : ~ep[p].lapped

\* The SDUs that reached p's client, or wait for it, are the peer's first ones, whole.
Faithful(p) ==
    LET got == delivered[p] \o ep[p].enqueue_buffer
    IN  /\ Len(got) <= sent[Peer(p)]
        /\ \A k \in 1..Len(got) : got[k] = Whole(k, sdus[Peer(p)][k])

\* Every SDU that reaches a client is the peer's next SDU, whole and unchanged.
Reliable == \A p \in Peers : Faithful(p)

\* Within one lap, and as long as the peer's data_request does not send a segment
\* before the ones that wait in pending_frames_, every SDU that reaches a client is the
\* peer's next SDU, whole and unchanged, whatever is lost, retransmitted or timed out:
\* tx_seq, REJ, send_pending_i_frames and the reassembly of stage_for_reassembly together.
InOrder == FirstLap => \A p \in Peers : ~ep[Peer(p)].overtaken => Faithful(p)

\* unacked_frames_ never exceeds the negotiated window (data_request would drop
\* the frame without a trace), counts the frames from expected_ack_seq_ to
\* next_tx_seq_, and the peer expects one of those or the next.
WindowsAgree ==
    FirstLap => \A p \in Peers :
        LET e == ep[p]
            received == (ep[Peer(p)].expected_tx_seq - e.expected_ack_seq) % kMaxTxWin
        IN  /\ e.unacked_frames <= remote_tx_window_
            /\ e.unacked_frames = (e.next_tx_seq - e.expected_ack_seq) % kMaxTxWin
            /\ received <= e.unacked_frames

\* Between two controllers no frame is ever taken for a protocol violation
\* (invalid req_seq, tx_seq or segmentation): only a frame or a poll that has
\* used up its transmissions closes the channel.
NoProtocolError ==
    FirstLap /\ (\A p \in Peers : ~ep[p].overtaken) => \A p \in Peers : "protocol" \notin ep[p].closed_by

\* ASSERT(callback_on_empty_.is_null()) in EnqueueBuffer::NotifyOnEmpty: the
\* buffer does not reach the threshold again before it has been empty.
NotifyOnEmptyOnce == \A p \in Peers : ep[p].on_empty <= 1

\* Nothing is in flight, queued or timed: no event will reach the channel.
Quiescent ==
    /\ open
    /\ \A p \in Peers : /\ sent[p] = Len(sdus[p]) /\ link[p] = << >> /\ ep[p].enqueue_buffer = << >>
                        /\ ~ep[p].retrans_timer /\ ~ep[p].monitor_timer /\ ep[p].closed_by = {}

\* As long as no client lets its queue reach the threshold, the channel never
\* waits for something that will not come: when no frame is in flight and no
\* timer runs, every SDU has been delivered.
NeverStuck ==
    Quiescent /\ (\A p \in Peers : Len(sdus[p]) < kEnqueueBufferBusyThreshold)
        => \A p \in Peers : Len(delivered[p]) = Len(sdus[Peer(p)])
=============================================================================
