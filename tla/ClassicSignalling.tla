------------------------- MODULE ClassicSignalling -------------------------
(***************************************************************************)
(* How two devices open, configure and close L2CAP channels over one       *)
(* BR/EDR link: at each end a classic::internal::Link with its             *)
(* ClassicSignallingManager, DynamicChannelAllocator and                   *)
(* DataPipelineManager (gd/l2cap/classic/internal/link.cc,                 *)
(* signalling_manager.cc, gd/l2cap/internal/dynamic_channel_allocator.cc,  *)
(* data_pipeline_manager.cc), joined by a connection that delivers         *)
(* signalling packets in order.                                            *)
(*                                                                         *)
(* An end is a record; every function of the code is an operator from the  *)
(* record to the one it leaves.  Handlers run on the L2CAP handler, so     *)
(* each is one step.  Packets to send are gathered in "out", questions to  *)
(* the security module in "ask".  All channels belong to one PSM.          *)
(* Channel identifiers count from 1 (kFirstDynamicChannel in the code);    *)
(* 0 is kInvalidCid.                                                       *)
(***************************************************************************)
EXTENDS Naturals, Sequences, FiniteSets

CONSTANTS Ends,          \* the two devices
          Modes,         \* channel modes a service may ask for; "none": no service
          IncomingMtus,  \* values of incoming_mtu of a service
          MinimalMtu,    \* minimal_remote_mtu of both services
          Verdicts,      \* answers the security module may give
          MaxRequests,   \* bound: ConnectChannel calls at each end
          MaxCloses,     \* bound: DynamicChannel::Close calls
          MaxTimeouts    \* bound: expiries of response timers

ASSUME SignallingAssumption ==
  /\ Cardinality(Ends) = 2 /\ Modes \subseteq {"none", "BASIC", "ERTM", "OPTIONAL"}
  /\ IncomingMtus \subseteq Nat /\ MinimalMtu \in Nat /\ Verdicts \subseteq BOOLEAN
  /\ MaxRequests \in Nat /\ MaxCloses \in Nat /\ MaxTimeouts \in Nat

VARIABLES end,        \* end[p]: p's end of the link
          wire,       \* wire[p]: packets on their way to p, oldest first
          security,   \* security[p]: questions that p's security module did not answer yet
          closes, timeouts,
          denied      \* a security module has refused a channel

vars == <<end, wire, security, closes, timeouts, denied>>

Other(p) == CHOOSE q \in Ends : q # p

kDefaultClassicMtu == 672

\* More than ConnectChannel can use: the code has 65472 identifiers.
kLastDynamicChannel == 2 * MaxRequests + 1

NoConfig == [mtu |-> 0, mode |-> "none"]

PendingCommand(code, source, dest, config) ==
  [code |-> code, id |-> 0, source |-> source, dest |-> dest, config |-> config]

NoCommand == PendingCommand("NONE", 0, 0, NoConfig)

Response(code, id, source, dest, result, config) ==
  [code |-> code, id |-> id, source |-> source, dest |-> dest, result |-> result, config |-> config]

(***************************************************************************)
(* Requests go out one at a time.                                          *)
(***************************************************************************)
Enqueue(m, packet) == [m EXCEPT !.out = Append(@, packet)]

handle_send_next_command(m) ==
  IF m.pending_commands = << >> THEN [m EXCEPT !.command_just_sent = NoCommand]
  ELSE LET c == Head(m.pending_commands)
       IN  Enqueue([m EXCEPT !.command_just_sent = c, !.pending_commands = Tail(@), !.alarm = TRUE], c)

\* The end of every Send...Request: number the command, queue it, send it if none is outstanding.
push(m, c) ==
  LET q == [m EXCEPT !.pending_commands = Append(@, [c EXCEPT !.id = m.next_signal_id]),
                     !.next_signal_id = (@ % 255) + 1]
  IN  IF m.command_just_sent.id = 0 THEN handle_send_next_command(q) ELSE q

SendInformationRequest(m, type) == push(m, PendingCommand(type, 0, 0, NoConfig))

send_configuration_request(m, remote_cid, config) ==
  push(m, PendingCommand("CONFIGURATION_REQUEST", 0, remote_cid, config))

SendDisconnectionRequest(m, cid, remote_cid) ==
  push(m, PendingCommand("DISCONNECTION_REQUEST", cid, remote_cid, NoConfig))

(***************************************************************************)
(* DynamicChannelAllocator and the user's callbacks.                       *)
(***************************************************************************)
Fresh(m) == (1..kLastDynamicChannel) \ m.used_cid

used_remote_cid(m) == {m.channels[c].remote : c \in DOMAIN m.channels}

Without(f, x) == [y \in DOMAIN f \ {x} |-> f[y]]

Put(f, x, v) == [y \in DOMAIN f \cup {x} |-> IF y = x THEN v ELSE f[y]]

ReserveChannel(m) ==
  IF Fresh(m) = {} THEN 0 ELSE CHOOSE c \in Fresh(m) : \A d \in Fresh(m) : c <= d

FreeChannel(m, cid) == [m EXCEPT !.used_cid = @ \ {cid}, !.channels = Without(@, cid)]

\* AllocateChannel, AllocateReservedChannel, for a remote_cid that is not in use.
AllocateChannel(m, cid, remote_cid, local_initiated) ==
  [m EXCEPT !.used_cid = @ \cup {cid},
            !.channels = Put(@, cid, [remote |-> remote_cid, local_initiated |-> local_initiated])]

FindChannelByRemoteCid(m, remote_cid) ==
  {c \in DOMAIN m.channels : m.channels[c].remote = remote_cid}

Abort(m, why) == [m EXCEPT !.aborted = why]

\* DataPipelineManager, with the configuration that UpdateClassicConfiguration hands on.
AttachChannel(m, cid, st) ==
  IF cid \in DOMAIN m.sender_map THEN Abort(m, "AttachChannel")
  ELSE [m EXCEPT !.sender_map = Put(@, cid, [mode |-> st.mode, fcs |-> st.fcs])]

DetachChannel(m, cid) ==
  IF cid \in DOMAIN m.sender_map THEN [m EXCEPT !.sender_map = Without(@, cid)]
  ELSE Abort(m, "DetachChannel")

\* on_open_callback_ or on_fail_callback_ of the request that waits for cid.
Notify(m, cid) ==
  IF cid \in DOMAIN m.pending_connection
  THEN [m EXCEPT !.waiting = @ \ {m.pending_connection[cid]}, !.pending_connection = Without(@, cid)]
  ELSE Abort(m, "NotifyChannelCreation")

OnOutgoingConnectionRequestFail(m, cid) ==
  FreeChannel(IF cid \in DOMAIN m.pending_connection THEN Notify(m, cid) ELSE m, cid)

(***************************************************************************)
(* Configuration.                                                          *)
(***************************************************************************)
NewState == [state |-> "WAIT_CONFIG_REQ_RSP", mode |-> "none", fcs |-> TRUE]

\* channel_configuration_[cid], which the map creates when it is missing.
ConfigurationState(m, cid) ==
  IF cid \in DOMAIN m.configuration THEN m.configuration[cid] ELSE NewState

SetConfiguration(m, cid, st) == [m EXCEPT !.configuration = Put(@, cid, st)]

SendInitialConfigRequest(m, cid) ==
  IF cid \notin DOMAIN m.channels THEN Abort(m, "SendInitialConfigRequest") ELSE
  LET mode == IF m.service.mode = "BASIC" THEN "BASIC" ELSE "ERTM"
      q == SetConfiguration(m, cid, [ConfigurationState(m, cid) EXCEPT !.mode = mode,
                                                                        !.fcs = m.remote_supports])
  IN  send_configuration_request(q, m.channels[cid].remote,
        [mtu |-> m.service.incoming_mtu, mode |-> IF mode = "BASIC" THEN "none" ELSE mode])

SendInitialConfigRequestOrQueue(m, cid) ==
  IF m.remote_extended_feature_received THEN SendInitialConfigRequest(m, cid)
  ELSE [m EXCEPT !.pending_configuration = Append(@, cid)]

\* The channel is usable: tell the user, attach it to the data pipeline.
open_channel(m, cid, st) ==
  LET q == IF m.channels[cid].local_initiated THEN Notify(m, cid) ELSE m
  IN  AttachChannel(SetConfiguration(q, cid, [st EXCEPT !.state = "CONFIGURED"]), cid, st)

adopt_mode_mut(st, config) == st

adopt_mode(st, config) == IF config.mode = "none" THEN st ELSE [st EXCEPT !.mode = config.mode]

OnConfigurationRequest(m, r) ==
  IF r.dest \notin DOMAIN m.channels THEN m ELSE
  LET cid == r.dest
      remote == m.channels[cid].remote
      low == r.config.mtu < m.service.minimal_remote_mtu
      answer == [r.config EXCEPT !.mtu = IF low THEN m.service.minimal_remote_mtu ELSE @]
      old == ConfigurationState(m, cid)
      st == adopt_mode(old, r.config)
      q == CASE st.state = "WAIT_CONFIG_REQ" -> open_channel(m, cid, st)
             [] st.state = "WAIT_CONFIG_REQ_RSP" ->
                  SetConfiguration(m, cid, [st EXCEPT !.state = "WAIT_CONFIG_RSP"])
             [] OTHER -> SetConfiguration(m, cid, st)
  IN  IF r.config.mode = "none" /\ m.service.mode = "ERTM"
      THEN SendDisconnectionRequest(SetConfiguration(m, cid, st), cid, remote)
      ELSE Enqueue(q, Response("CONFIGURATION_RESPONSE", r.id, remote, 0,
                               IF low THEN "UNACCEPTABLE" ELSE "SUCCESS", answer))

negotiate_configuration(m, cid, config) ==
  LET q == SetConfiguration(m, cid, adopt_mode(ConfigurationState(m, cid), config))
  IN  send_configuration_request(q, m.channels[cid].remote, [config EXCEPT !.mtu = kDefaultClassicMtu])

\* r answers the command that was sent last.
Expected(m, r, code) == m.command_just_sent.id = r.id /\ m.command_just_sent.code = code

Cancel(m) == [m EXCEPT !.alarm = FALSE]

OnConfigurationResponse(m, r) ==
  IF ~Expected(m, r, "CONFIGURATION_REQUEST") THEN m
  ELSE IF r.source \notin DOMAIN m.channels THEN handle_send_next_command(m)
  ELSE LET cid == r.source
           st == ConfigurationState(m, cid)
           q == IF r.result = "UNACCEPTABLE" THEN negotiate_configuration(m, cid, r.config)
                ELSE IF r.config.mode \notin {"none", st.mode}
                THEN SendDisconnectionRequest(m, cid, m.channels[cid].remote)
                ELSE CASE st.state = "WAIT_CONFIG_RSP" -> open_channel(m, cid, st)
                       [] st.state = "WAIT_CONFIG_REQ_RSP" ->
                            SetConfiguration(m, cid, [st EXCEPT !.state = "WAIT_CONFIG_REQ"])
                       [] OTHER -> m
       IN  handle_send_next_command(Cancel(q))

(***************************************************************************)
(* Connection.                                                             *)
(***************************************************************************)
\* Link::SendConnectionRequest for a cid that was just reserved.
SendConnectionRequest(m, request) ==
  LET cid == ReserveChannel(m)
  IN  IF m.service.mode = "ERTM" /\ ~m.remote_extended_feature_received
      THEN [m EXCEPT !.pending_dynamic = Append(@, request)]
      ELSE IF m.service.mode = "ERTM" /\ ~m.remote_supports
      THEN [m EXCEPT !.waiting = @ \ {request}]
      ELSE [m EXCEPT !.used_cid = @ \cup {cid}, !.pending_connection = Put(@, cid, request),
                     !.ask = @ \cup {[way |-> "out", cid |-> cid, id |-> 0]}]

on_security_result_for_outgoing(m, cid, result) ==
  IF ~result THEN OnOutgoingConnectionRequestFail(m, cid)
  ELSE push(m, PendingCommand("CONNECTION_REQUEST", cid, 0, NoConfig))

send_connection_response(m, id, remote_cid, cid, result) ==
  Enqueue(m, Response("CONNECTION_RESPONSE", id, remote_cid, cid, result, NoConfig))

OnConnectionRequest(m, r) ==
  IF m.service.mode = "none"
  THEN send_connection_response(m, r.id, r.source, 0, "PSM_NOT_SUPPORTED")
  ELSE [m EXCEPT !.ask = @ \cup {[way |-> "in", cid |-> r.source, id |-> r.id]}]

on_security_result_for_incoming(m, remote_cid, id, result) ==
  LET q == IF result THEN m
           ELSE OnOutgoingConnectionRequestFail(
                  send_connection_response(m, id, remote_cid, 0, "SECURITY_BLOCK"), 0)
      cid == ReserveChannel(q)
      new == AllocateChannel(q, cid, remote_cid, FALSE)
  IN  IF remote_cid \in used_remote_cid(q) \/ cid = 0 THEN q
      ELSE SendInitialConfigRequestOrQueue(
             send_connection_response(new, id, remote_cid, cid, "SUCCESS"), cid)

OnConnectionResponse(m, r) ==
  LET q == Cancel([m EXCEPT !.command_just_sent = NoCommand])
      new == AllocateChannel(q, r.source, r.dest, TRUE)
  IN  CASE ~Expected(m, r, "CONNECTION_REQUEST") -> m
        [] Expected(m, r, "CONNECTION_REQUEST") /\ m.command_just_sent.source # r.source ->
             handle_send_next_command(m)
        [] OTHER ->
             IF r.result # "SUCCESS"
             THEN handle_send_next_command(OnOutgoingConnectionRequestFail(q, r.source))
             ELSE IF r.dest \in used_remote_cid(m) \/ r.source \in DOMAIN m.channels
             THEN Abort(q, "OnConnectionResponse")
             ELSE SendInitialConfigRequestOrQueue(new, r.source)

(***************************************************************************)
(* Disconnection.                                                          *)
(***************************************************************************)
erase_mut(m, cid) == m

erase(m, cid) == [m EXCEPT !.configuration = Without(@, cid)]

close_channel(m, cid) ==
  LET q == FreeChannel(erase(m, cid), cid)
  IN  IF ConfigurationState(m, cid).state = "CONFIGURED" THEN DetachChannel(q, cid) ELSE q

OnDisconnectionRequest(m, r) ==
  IF r.dest \notin DOMAIN m.channels THEN m
  ELSE close_channel(Enqueue(m, Response("DISCONNECTION_RESPONSE", r.id, r.source, r.dest,
                                         "SUCCESS", NoConfig)), r.dest)

OnDisconnectionResponse(m, r) ==
  IF ~Expected(m, r, "DISCONNECTION_REQUEST") THEN m
  ELSE handle_send_next_command(
         Cancel(IF r.source \in DOMAIN m.channels THEN close_channel(m, r.source) ELSE m))

(***************************************************************************)
(* What the other end supports.                                            *)
(***************************************************************************)
connect_to_pending_dynamic_channels_mut(m) == m

connect_to_pending_dynamic_channels(m) ==
  LET n == Len(m.pending_dynamic)
      connected[i \in 0..n] ==
        IF i = 0 THEN m ELSE SendConnectionRequest(connected[i - 1], m.pending_dynamic[i])
  IN  connected[n]

send_pending_configuration_requests(m) ==
  LET n == Len(m.pending_configuration)
      asked[i \in 0..n] ==
        IF i = 0 THEN m ELSE SendInitialConfigRequest(asked[i - 1], m.pending_configuration[i])
  IN  [asked[n] EXCEPT !.pending_configuration = << >>]

OnRemoteExtendedFeatureReceived(m, supported) ==
  send_pending_configuration_requests(connect_to_pending_dynamic_channels(
    [m EXCEPT !.remote_extended_feature_received = TRUE, !.remote_supports = supported]))

OnInformationRequest(m, r) ==
  Enqueue(m, Response("INFORMATION_RESPONSE", r.id, 0, 0, r.code, NoConfig))

OnInformationResponse(m, r) ==
  IF ~Expected(m, r, r.result) THEN m
  ELSE handle_send_next_command(Cancel(
         IF r.result = "EXTENDED_FEATURES" THEN OnRemoteExtendedFeatureReceived(m, TRUE) ELSE m))

on_command_timeout(m) ==
  LET c == m.command_just_sent
      lost == FindChannelByRemoteCid(m, c.dest)
      q == Cancel(m)
  IN  IF c.id = 0 THEN q ELSE
      CASE c.code = "CONNECTION_REQUEST" ->
             handle_send_next_command(OnOutgoingConnectionRequestFail(q, c.source))
        [] c.code = "CONFIGURATION_REQUEST" ->
             IF lost = {} THEN Abort(q, "on_command_timeout")
             ELSE LET cid == CHOOSE x \in lost : TRUE IN SendDisconnectionRequest(q, cid, c.dest)
        [] c.code = "EXTENDED_FEATURES" ->
             handle_send_next_command(OnRemoteExtendedFeatureReceived(q, FALSE))
        [] OTHER -> handle_send_next_command(q)

\* The constructor and LinkManager::OnConnectSuccess; requests made before the link came up
\* are in pending_dynamic_psm_list_.
Link(option, requests) ==
  LET m == [service |-> option, next_signal_id |-> 1, command_just_sent |-> NoCommand,
            pending_commands |-> << >>, alarm |-> FALSE,
            remote_extended_feature_received |-> FALSE, remote_supports |-> FALSE,
            pending_dynamic |-> requests, pending_configuration |-> << >>,
            used_cid |-> {}, channels |-> << >>, configuration |-> << >>,
            pending_connection |-> << >>, sender_map |-> << >>,
            requests |-> Len(requests), waiting |-> {requests[i] : i \in DOMAIN requests},
            aborted |-> "no", out |-> << >>, ask |-> {}]
  IN  SendInformationRequest(SendInformationRequest(m, "EXTENDED_FEATURES"), "FIXED_CHANNELS")

(***************************************************************************)
(* The two ends run.                                                       *)
(***************************************************************************)
Options == [mode : Modes, incoming_mtu : IncomingMtus, minimal_remote_mtu : {MinimalMtu}]

Started(option, requests, p) == [Link(option[p], requests[p]) EXCEPT !.out = << >>]

Init ==
  \E option \in [Ends -> Options], requests \in [Ends -> {<< >>, <<1>>}] :
    /\ \A p \in Ends : option[p].mode = "none" => requests[p] = << >>
    /\ end = [p \in Ends |-> Started(option, requests, p)]
    /\ wire = [p \in Ends |-> Link(option[Other(p)], requests[Other(p)]).out]
    /\ security = [p \in Ends |-> {}]
    /\ closes = 0 /\ timeouts = 0 /\ denied = FALSE

\* p's handler leaves m; what it sent goes to the other end.
Ran(p, m, rest) ==
  /\ end' = [end EXCEPT ![p] = [m EXCEPT !.out = << >>, !.ask = {}]]
  /\ wire' = [rest EXCEPT ![Other(p)] = @ \o m.out]

Asked(p, m, left) == security' = [security EXCEPT ![p] = left \cup m.ask]

\* A device stops when a handler aborts.
Running(p) == end[p].aborted = "no"

ConnectChannel(p) ==
  LET n == end[p].requests + 1
      m == SendConnectionRequest([end[p] EXCEPT !.requests = n, !.waiting = @ \cup {n}], n)
  IN  /\ Running(p) /\ n <= MaxRequests /\ end[p].service.mode # "none"
      /\ Ran(p, m, wire) /\ Asked(p, m, security[p])
      /\ UNCHANGED <<closes, timeouts, denied>>

Close(p) ==
  /\ Running(p) /\ closes < MaxCloses
  /\ \E cid \in DOMAIN end[p].sender_map :
       Ran(p, SendDisconnectionRequest(end[p], cid, end[p].channels[cid].remote), wire)
  /\ closes' = closes + 1
  /\ UNCHANGED <<security, timeouts, denied>>

SecurityResult(p) ==
  /\ Running(p)
  /\ \E q \in security[p], result \in Verdicts :
       LET m == IF q.way = "out" THEN on_security_result_for_outgoing(end[p], q.cid, result)
                ELSE on_security_result_for_incoming(end[p], q.cid, q.id, result)
       IN  /\ Ran(p, m, wire) /\ Asked(p, m, security[p] \ {q})
           /\ denied' = (denied \/ ~result)
  /\ UNCHANGED <<closes, timeouts>>

handle_one_command(m, r) ==
  CASE r.code = "CONNECTION_REQUEST" -> OnConnectionRequest(m, r)
    [] r.code = "CONNECTION_RESPONSE" -> OnConnectionResponse(m, r)
    [] r.code = "CONFIGURATION_REQUEST" -> OnConfigurationRequest(m, r)
    [] r.code = "CONFIGURATION_RESPONSE" -> OnConfigurationResponse(m, r)
    [] r.code = "DISCONNECTION_REQUEST" -> OnDisconnectionRequest(m, r)
    [] r.code = "DISCONNECTION_RESPONSE" -> OnDisconnectionResponse(m, r)
    [] r.code = "INFORMATION_RESPONSE" -> OnInformationResponse(m, r)
    [] OTHER -> OnInformationRequest(m, r)

on_incoming_packet(p) ==
  /\ Running(p) /\ wire[p] # << >>
  /\ LET m == handle_one_command(end[p], Head(wire[p]))
     IN  /\ Ran(p, m, [wire EXCEPT ![p] = Tail(@)])
         /\ Asked(p, m, security[p])
  /\ UNCHANGED <<closes, timeouts, denied>>

Timeout(p) ==
  /\ Running(p) /\ end[p].alarm /\ timeouts < MaxTimeouts
  /\ LET m == on_command_timeout(end[p]) IN Ran(p, m, wire) /\ Asked(p, m, security[p])
  /\ timeouts' = timeouts + 1
  /\ UNCHANGED <<closes, denied>>

Next ==
  \E p \in Ends : \/ ConnectChannel(p) \/ Close(p) \/ SecurityResult(p)
                  \/ on_incoming_packet(p) \/ Timeout(p)

Spec == Init /\ [][Next]_vars

Symmetry == {[p \in Ends |-> p], [p \in Ends |-> Other(p)]}

(***************************************************************************)
(* Properties.                                                             *)
(***************************************************************************)
Smooth == timeouts = 0 /\ ~denied

Quiet == \A p \in Ends : wire[p] = << >> /\ security[p] = {}

\* One service insists on ERTM and the other knows only Basic mode.
Conflict == {end[p].service.mode : p \in Ends} = {"BASIC", "ERTM"}

Negotiates == \E p \in Ends : end[p].service.incoming_mtu < MinimalMtu

\* The books of Link, DynamicChannelAllocator, ClassicSignallingManager and DataPipelineManager
\* agree whatever is closed, refused or late: a channel is in sender_map_ exactly when its
\* configuration state is CONFIGURED, has a reserved identifier, and no two channels have the
\* same remote end.  So no ASSERT of AttachChannel, DetachChannel or NotifyChannelCreation fails.
BooksAgree ==
  \A p \in Ends :
    LET m == end[p]
    IN  /\ m.aborted \notin {"AttachChannel", "DetachChannel", "NotifyChannelCreation"}
        /\ DOMAIN m.sender_map = {c \in DOMAIN m.configuration : m.configuration[c].state = "CONFIGURED"}
        /\ DOMAIN m.configuration \subseteq DOMAIN m.channels /\ DOMAIN m.channels \subseteq m.used_cid
        /\ \A c, d \in DOMAIN m.channels : m.channels[c].remote = m.channels[d].remote => c = d

\* As long as no response is late and no channel is refused, no handler meets a channel that
\* does not exist, and opening and closing comes to an end at both sides: when nothing is on its
\* way any more, no command is outstanding or queued (handle_send_next_command was called as
\* often as needed), every channel of one side is the other end of a channel of the other side,
\* all are configured and attached, and if nobody closed a channel every caller of
\* ConnectChannel was called back.  The end leaves out services whose modes conflict (one side
\* disconnects without answering the configuration request), and closing while the other side
\* closes or negotiates.
Settles ==
  Smooth =>
    \A p \in Ends :
      /\ Running(p)
      /\ ~Conflict /\ closes <= (IF Negotiates THEN 0 ELSE 1) /\ Quiet =>
           /\ end[p].command_just_sent.id = 0 /\ end[p].pending_commands = << >>
           /\ DOMAIN end[p].sender_map = DOMAIN end[p].channels
           /\ closes = 0 => end[p].waiting = {}
           /\ \A c \in DOMAIN end[p].channels :
                LET d == end[p].channels[c].remote
                IN  d \in DOMAIN end[Other(p)].channels /\ end[Other(p)].channels[d].remote = c

\* The two ends of a channel run the same data controller, with or without a frame check
\* sequence: what OnConfigurationRequest, OnConfigurationResponse and SendInitialConfigRequest
\* leave in the ChannelConfigurationState that UpdateClassicConfiguration reads.
ModesAgree ==
  Smooth =>
  \A p \in Ends : \A c \in DOMAIN end[p].sender_map :
    LET q == Other(p)
        d == end[p].channels[c].remote
    IN  d \in DOMAIN end[q].sender_map /\ end[q].channels[d].remote = c =>
          end[p].sender_map[c] = end[q].sender_map[d]

\* A command that waits in pending_commands_ will be sent: a response or the timer of the
\* outstanding command is still to come.  In particular the disconnection request of
\* on_command_timeout, when a configuration request was not answered, leaves the device.
QueueMoves == \A p \in Ends : Running(p) /\ end[p].pending_commands # << >> => end[p].alarm

=============================================================================
