# A TLA+ model of the gd Bluetooth stack

The repository holds two Bluetooth host stacks: the older one (`stack/`, `bta/`,
`btif/`, `osi/`, `hci/`) and its replacement `gd/`, in which every component is a
`Module` with a `Handler`, components exchange packets through reactive queues,
and the controller is reached through one HCI layer. This project models the
concurrent core of `gd/`: the primitives everything else runs on, the command flow
of the HCI layer, the sharing of the controller's ACL buffers and of its radio, and
two protocols of L2CAP, each with both of its ends.

## The system and its parts

| part | source (under `src/gd/`) | state | operations | what is hard about it |
|---|---|---|---|---|
| Reactor, Thread | `os/linux_generic/reactor.cc`, `thread.cc` | epoll set, heap of reactables, invalidation list, control eventfd, future of the executing reactable | Run, Stop, Register, Unregister, WaitForUnregisteredReactable, WaitForIdle | pointers in a collected batch outlive their objects; unregistering from other threads |
| Handler | `os/linux_generic/handler.cc` | task queue, eventfd | Post, Clear, WaitUntilStopped, handle_next_event | the eventfd is written outside the lock; Clear races the reactor thread |
| Queue, EnqueueBuffer | `os/queue.h`, `os/linux_generic/queue.tpp`, `reactive_semaphore.cc` | items, two semaphores, a buffer | RegisterEnqueue/Dequeue, Unregister*, TryDequeue, Enqueue, Clear, NotifyOnEmpty, destruction | registration must follow the buffer; a mutex is held across a wait |
| Alarm | `os/linux_generic/alarm.cc` | timerfd, task | Schedule, Cancel, on_fire, destruction | expiry, cancellation and the batch of events in any order |
| HciLayer | `hci/hci_layer.cc` | command queue, waiting command, credits, two alarms | EnqueueCommand, events, responses, timeout, abort | an answer takes two turns of the handler and races the timeout |
| RoundRobinScheduler | `hci/acl_manager/round_robin_scheduler.cc` | connections, fragments, two credit pools, starting point | Register, Unregister, SetLinkPriority, rounds, completions | connections end while their packets are out |
| LeAddressManager, with le_impl and LeScanningManager as clients | `hci/le_address_manager.cc`, `hci/acl_manager/le_impl.h`, `hci/le_scanning_manager.cc` | state of each client, cached commands, address, rotation alarm | register, unregister, pause, resume and their acknowledgements, commands and completions | requests and acknowledgements cross in the handler's queue |
| ERTM | `l2cap/internal/enhanced_retransmission_mode_channel_data_controller.cc` | windows, transmitter and receiver state, two timers, reassembly | SDU, I-frame, RR, RNR, REJ, two timeouts | sequence numbers modulo 64; losses, polls and a busy receiver together |
| classic signalling: Link, ClassicSignallingManager, DynamicChannelAllocator, DataPipelineManager | `l2cap/classic/internal/link.cc`, `signalling_manager.cc`, `l2cap/internal/` | outstanding and queued commands, channels, configuration states | connect, close, requests, responses, timeouts, security results | four classes keep books of the same channels; both ends act at once |

A Thread runs a Reactor; a Handler, an Alarm and each end of a Queue are reactables
of one; everything from HciLayer on runs on a Handler and uses Queues and Alarms.
ERTM sits behind an EnqueueBuffer, and the signalling decides which data controller
a channel gets. `PROJECT.json` lists these and the parts that are not modelled.

## Modules

* `SequentialContext`: what a Handler promises. Closures start in the order of
  posting, one at a time, at most once, and none after Clear.
* `Handler`: Post is two steps (push under the lock, write outside it), Clear is three,
  and handle_next_event ends before the closure runs. It refines `SequentialContext` (property `Sequential`).
* `Reactor`: one action per section under a mutex. Addresses are reused and every
  registration has a number of its own, so an old event is told from a new one.
  Touching a deleted object ends the behaviour. `raced` is a history variable: Run
  cleared the invalidation list while a thread was inside Unregister.
* `FifoChannel`: what Queue and EnqueueBuffer promise together.
  `ReactiveQueue` refines it (property `InOrder`) by the mapping
  `pipe <- queue \o hand \o buffer`.
* `Alarm`: one alarm, its users on any thread, and the batch of epoll events.
* `HciLayer`: the handler's tasks are explicit, so on_hci_event and the callback it
  posts are separate turns. HAL, controller and clients are the environment; whether
  the controller is faulty (late, silent, inflamed) is chosen at the start.
* `RoundRobinScheduler`: a packet is known by its connection. `ready` is the order in
  which epoll reports queues. HCI queue and controller are one counter per connection.
* `LeAddressManager`: the state of the host is one record, and every function of the code
  is an operator from the record to the one it leaves, so a handler that calls five
  others is one step. OnPause and OnResume are called inside the step; everything that the
  code posts is a task. The controller rejects what it must not do while the radio is in use.
  `crossed` is not in the code: it remembers the clients that unregister_client erased
  while an acknowledgement of theirs was on its way, about which less is true (below).
* `Ertm` (with `MCErtm`): two controllers in the same style, joined by a link that
  delivers in order and loses frames. A segment is a pair of numbers. Two fields of a
  controller are history: `lapped` (its sequence numbers went past 63) and `overtaken`
  (data_request sent a segment while others waited in pending_frames_).
* `ClassicSignalling`: two ends in the same style, joined by a reliable link. All
  channels belong to one PSM; identifiers count from 1.
* `ReactorProofs`, `HandlerAlarmProofs`, `QueueProofs`, `HciProofs`, `SchedulerProofs`,
  `LeAddressProofs`, `SignallingProofs`, `ErtmProofs`: the proofs, each about the module or
  modules it extends.

Operators whose name ends in `_mut` (or whose comment says "Mutant") are faulty variants
of the definition that follows them. The specifications do not use them; replacing the
definition by one of them must break the property that `PROJECT.json` pairs it with.

## Runs

| run | instance | what it shows |
|---|---|---|
| `handler` | 3 posters, 5 closures | no wake-up is lost, the handler is quiet after WaitUntilStopped, closures run, Clear completes, and Handler implements SequentialContext |
| `reactor` | 2 addresses, 2 other threads of which one unregisters, 2 registrations, 1 WaitForIdle | but for one race Run stays off deleted objects and old events; a wait that answers true is right; Unregister returns; Thread::Stop ends the loop |
| `queue` | capacity 2, 7 items, 2 Clears from either thread | semaphores agree with the queue, no assertion fires, nothing is stranded, lost or reordered, on-empty callbacks run |
| `alarm` | 4 tasks, users on any thread | tasks run when due, once, not after they were given up, and eventually |
| `hci` | 2 commands and Reset, a controller with and without faults | without faults one command at a time and in order, no assertion fails, all are answered; with faults the timeout alarm watches exactly the outstanding command and every command is answered or the process aborts |
| `scheduler` | 2 classic and 1 LE connection that come and go | assertions and counts hold, buffers are not overrun, no idling and no stall until a connection ends |
| `le_address` | both clients, 3 calls of clients or expiries, every policy, both values of the flags | a client counted as paused is paused, and everyone resumes when the last command is answered, unless the client crossed; host and controller agree on address and scan |
| `ertm` | windows of 2, 2 transmissions, 4 losses or timeouts; traffic both ways with segmentation, and one SDU more than makes the receiver busy | SDUs arrive whole and in order unless a segment overtook others, the windows agree, no protocol error, the channel is never stuck |
| `signalling` | all pairs of modes and MTUs, one ConnectChannel at each end (also before the link is up), 2 closes, refusals, 1 timeout | the books agree; without lateness and refusals both ends settle and use the same mode |
| `ertm_wrap` | violation | `Reliable`, which is `InOrder` without its premises: after a lap of sequence numbers an old payload is sent under a new number |
| `le_address_assert` | violation | handle_next_command without a command |
| `signalling_timeout` | violation | the disconnection request after a configuration timeout is never sent |

### Bounds

Two registrations give either reuse of an address or two reactables at a time, not
both; the same properties also held with three registrations and one other thread
(244084 states). A second other thread lets one wait while another stops or registers.
A capacity of 2 tells full, partly full and empty apart. Two fragments per packet let
credits run out inside a packet; one or two credits per pool make exhaustion common.
Two commands beyond Reset give a command behind one that times out. `MaxPosted` bounds
rounds posted and not run, `MaxEvents` the events on their way. Three calls let a client
register, start and be interrupted while the other changes the lists or the address
rotates. Four losses or timeouts let a retransmission, the poll that follows it and its
answer be lost, too; the
sequence numbers of `ertm` start at 0 and do not wrap (`ertm_wrap` does that). One
request at each end gives crossing connections, two closes give crossing closes. No
bound is claimed to be complete; the proofs are for what must hold without bounds.

Most runs switch the deadlock check off because a bounded instance ends when its
items, commands or calls are used up, or because a failed assertion ends the process.
`scheduler` keeps it on.

### Fairness

Weak fairness of a reactor's thread: the operating system schedules it, and epoll is
level triggered, so a ready reactable is reported again. A call that was entered is
carried on. Nobody is obliged to call anything. `HciLayer` also assumes that alarms
fire and that the controller does not keep its credits at 0 for ever; a controller
without faults answers, a faulty one need not. The scheduler's controller completes
packets; fairness is of the handler's thread as a whole, not of each of its reactables.

`Ertm`, `LeAddressManager` and `ClassicSignalling` have no liveness property: a lost
frame or a timeout is bounded, so "eventually" is stated as what must be true once
nothing is on its way any more (`NeverStuck`, `ResumedWhenDone`, `HostAgrees`, `Settles`).

## Proofs

Checked by TLAPS, for every value of the constants allowed by the named assumptions.

`ReactorProofs` (any addresses, threads and registrations; every thread may unregister). The invariant `IInv` is types and, as long as the race has not happened,
`Safe`: a registration belongs to its owner or to exactly one call of Unregister; its
number is used once; what Run executes is alive and no thread deletes it; an event that
Run has not looked at is of a registration nobody has erased, or its address is in the
invalidation list; a thread that waits for the executing reactable finds the future
pending. The hard cases are `RegisterSafe`, where an address is reused while old events
for it are still queued, `PollSafe`, where epoll reports a reactable between its entry
in the list and its removal, and `TopSafe`, the one step that needs the race not to
have happened. From it follow `WaitIsEnough` (`WaitedIsOver`), `NoStaleCallback`
(`OnlyLiveRegistrations`) and `OneRaceOnly` (`CrashNeedsRace`). The last also needs
`Idling`, what the counter of control_fd_ can hold, and the premise that WaitForIdle is
called at most once: with two calls the null promise is reachable (below).

`HandlerAlarmProofs` (finite set of posters, any bound on closures). The inductive
invariant adds to the checked properties that a handler is cleared from the first
section of Clear on and then has no task, that a reported readiness is still there
while it is not cleared, that a closure is current exactly while it runs, and that
after Unregister nothing is collected. Without these the eventfd could be drained
between epoll_wait and the read. `AssertionHolds`, `WakeupsExact`, `QuietAfterStop`,
and `ImplementsContext` (the refinement).

`QueueProofs` (any capacity, any number of items and Clears). The invariant says which
steps hold the mutex (`Locking`), that the callback has taken an item exactly between
taking and pushing (`HandIsFull`), that a place it was called for stays free until it
pushes (`PlaceIsKept`), and where the destructor meets the callback (`OwnThread`).
From it `SemaphoresExact` and `NothingStranded` follow without conditions,
`AssertionsHold` and `DestructionIsSafe` for a buffer that is destroyed on its own
thread (they fail otherwise, see below), and `ImplementsFifo`, the refinement of
`FifoChannel`: lemmas about concatenation show that each step leaves
`queue \o hand \o buffer` alone, appends to it, takes its head, or cuts off the buffer.

`HandlerAlarmProofs` on Alarm (any number of tasks). `StartsWhenDue` (`RunsWhenDue`) needs that an armed timer has no
expiration to be read, that the timerfd always belongs to the last task (`TimerIsForLast`:
an expiration that on_fire reads was not of an earlier task) and that a task that was
moved out is in no other place (`MovedTask`).

`HciProofs` (any op codes, commands and credits). Between the controller's answer and the callback a response is a task of the handler, twice. The
invariant `OneOutstanding` counts it wherever it is: if a command is waited for it is in
front of the queue and either the controller has it or exactly one task carries its
response; if not, there is neither. `CommandsAreWatched` holds for any controller;
`NoUnexpectedResponse`, `NeverAborts` and `ServesInOrder` for one without faults. The
last one adds `Ordered`: the commands answered, those in the queue, and those whose
enqueue_command is still posted are, in this order, all that were accepted.

`SchedulerProofs` (any connections, positive numbers of buffers).
`FragmentHasCredit` proves `SendHasCredit`. It is not inductive alone: buffer_packet
registers the enqueue end without looking at the credits. The strengthening
`RegisteredMaySend` says that a queue is registered only while nothing is to be sent
and its pool has a credit, and it holds because only sending takes credits, which
happens while no queue is registered, and because the cap of incoming_acl_credits
leaves at least one. `OnePacketAtATime` follows from the same invariant, and `NeverIdle`
proves `WorkConserving` relative to it. The reactor's rule that only registered queues
are called is a guard of BufferPacket.
`CreditsExact` (`CreditsConserved`) and `BuffersNotOverrun` (`NoOverrun`) are about sums
over the connections of a pool. A sum is the number of elements of a set of places
(`Places`), so that a step that changes one connection changes the sum by the same
amount (`TotalChange`). The invariant `CInv` says in addition that all fragments in the
queue are of one connection, and what becomes of them when it ends: Unregister has then
given back credits that are still to be spent (`Stale`), so free credits and packets
together exceed the buffers, by no more than the fragments that wait; the packets alone
never do, because sending needs a credit.

`LeAddressProofs` (any devices, policies, number of calls, either order of the clients).
`PausesInFact` (`PausedInFact`), `ResumesWhenDone` (`ResumedWhenDone`) and
`HostAgreesHolds` (`HostAgrees`) rest on one invariant, because what a client does is
decided by what is still queued: the tasks of the handler and the commands for the
controller. Both are described by three predicates of a queue: a task is in it (`Has`),
one is before another (`Before`), one is the last of its kind (`Final`); `AppendHas` and
`TailHas` say what posting and running do to them. `Inv` then says of each client that
has not crossed (`Good`) that it has paused from the moment its acknowledgement is
posted, that no resumption overtakes that acknowledgement unless commands are left, and
that a paused client has something on its way that will resume it; that a client in a
waiting state has its acknowledgement queued (`Waits`); that nothing is sent before the
policy is set (`Early`); that le_impl knows whether it is registered once the tasks have
run (`LeKnows`) and holds connections back only while it is paused or a pause will come
(`LePauses`; `ScanPauses` for the scanner); that the last scan command tells what the
host believes (`Scans`), and the last set_random_address what address it expects
(`Addresses`). The first part of the module proves for every function of the code what it
does to the host (`PauseAllIs`, `ResumeAllIs`, ...), the second that each step keeps
`Inv`. The hardest steps are the resumption, where le_impl may start or unregister and the
scanner may start inside the same call, and unregister_client, where `crossed` is needed.

`SignallingProofs` (any services, any number of requests, closes and expiries, any
answers of the security modules). `BooksAgreeHolds` (`BooksAgree`) needs one premise,
`Available`: the allocator always finds a free identifier, as it does until all 65472 are
in use. The invariant of an end says where the opening of a channel stands. While the
security module is asked, while the connection request waits in pending_commands_, and
until it is answered, the identifier is reserved, the caller waits, and the opening is at
one of these places only; afterwards a caller waits until its channel is configured
(`Waits`). Without this a late or repeated answer could attach a channel twice. Every
function of the code has a lemma that says it keeps the invariant.

`ErtmProofs` (any traffic, any window and number of transmissions, any number of losses
and timeouts). The invariant has four parts. `Flags` is what one controller keeps for
ever: it accepts no SDU while it is busy (`NotifyOnEmptyOnceHolds`). `Good` is what it
keeps while its numbers have not wrapped: unacked_list_ holds exactly the frames from
expected_ack_seq_ to next_tx_seq_, and they fit the window. `Direction` relates the sender,
the link and the receiver: acknowledgements in flight never decrease and lie between what
the sender knows and what the receiver expects, and a frame in flight that is not yet
acknowledged carries the segment that unacked_list_ has for its number. The restriction
to unacknowledged frames matters: an older copy may still be on its way, and then
with_expected_tx_seq refuses it. `Flow` says that the segments a sender holds, in
unacked_list_ and then in pending_frames_, follow each other in the traffic, and that the
receiver has delivered or staged exactly those before the one it expects. `WindowsAgreeHolds`
follows from `Good` and `Direction`, `InOrderHolds` from `Flow`, `NoProtocolErrorHolds` from
all. Their premises are real: after a lap `process_req_seq` leaves frames in the list;
a segment that overtakes others breaks `Flow`; and `NoProtocolErrorHolds` assumes `Narrow`,
a window of at most 54, because sequence_less_than takes a number more than 54 below
another for one that has wrapped.

The loops over lists in ClassicSignalling and Ertm are recursive functions. Their proofs go
through the turns with a lemma `Induction` whose parameter is the set of good turns; it
follows from the well-foundedness of < on the naturals.

Only model-checked: everything about liveness and fairness (out of the prover's reach).
That includes two invariants that stand for liveness and say something of every state in
which nothing is on its way: `Settles` and `NeverStuck`. Their invariant would have to say for each
state of both ends which message or timer still leads on, including after a poll or a
configuration request was lost or refused. `ModesAgree` is also left to TLC: it depends on
the order of two negotiations that cross, and the invariant of `BooksAgree` says nothing
of the contents of configuration requests.

## Further disagreements

Met while modelling. No run keeps them.

| where | what the code does |
|---|---|
| `reactor.cc:95` | Run clears invalidation_list_ while a thread may be between its entry and epoll_ctl: the reactable can be reported again, deleted by Unregister, and used by Run. The comment at line 204 calls it thread safe. `CrashNeedsRace` without its premise is violated |
| `reactor.cc`, WaitForUnregisteredReactable | keeps mutex_ while it waits for a callback that may need it |
| `reactor.cc`, WaitForIdle | repeated after a timeout it can leave Run with no promise (MaxIdles = 2) |
| `queue.h`, the destructor | on another thread it may miss a callback that has just cleared the flag: `DestroyedIsUnused` with RemoteDestroy = TRUE is violated |
| `queue.h`, Clear | on another thread it waits with the mutex that the callback is blocked on, gives up and empties the buffer under the callback |
| `alarm.cc`, Cancel | after the expiry was collected, on_fire reads a blocking timerfd and keeps the mutex; from another thread, Cancel may come too late for a task that on_fire has taken |
| `hci_layer.cc:170`, `:302` | a response that waits for its second turn when the timeout fires, or that comes later, fails an assertion, so the process dies before the debug information is collected |
| `round_robin_scheduler.cc:56` | Unregister reclaims credits but starts no round: the other connections of the type may wait although there are credits |
| `round_robin_scheduler.cc:165` | fragments count as sent when they are buffered: Unregister gives back credits that those fragments use afterwards, and the cap then loses others |
| `round_robin_scheduler.cc`, starting_point_ | moves twice per packet: of two connections one may never have its turn; and since fragments of two packets never meet, the priority of a link changes nothing |
| ERTM, sequence_less_than | `NoProtocolError` without `FirstLap` is violated when the numbers wrap (FirstSeqs = {62, 63}): a valid acknowledgement is taken for an invalid one and the channel is closed. With a window above 54 a valid acknowledgement can be taken for an invalid one before the wrap; the comment at line 495 assumes an overflow of at most local_tx_window_ |
| ERTM, data_request (`:100`) | sends at once when the window has room, also when earlier segments wait in pending_frames_: an acknowledgement in a duplicate or unexpected I-frame makes room and sends none of them, and the next SDU then overtakes them. `Reliable`, without the premises of `InOrder`, is violated |
| ERTM, polls | two sides that poll each other both wait for a final bit and answer neither; recv_rnr in REJ_SENT answers the final bit the wrong way round; rej_actioned_ is never set |
| ERTM, local_busy_clear | does nothing in WAIT_F: a receiver that was busy stays busy, and `NeverStuck` without its premise is violated |
| `le_address_manager.cc:211` | the assertions of ack_pause and ack_resume fail for a client that unregistered in between |
| `le_address_manager.cc:210`, ack_pause | a client that unregisters and registers again while its acknowledgement is on its way is counted as paused on the strength of the old one, although it runs; with five calls `PausedInFact` over all clients is violated that way |
| `le_address_manager.cc:354` | a command is forgotten when a client registers between the pause and its acknowledgement |
| `le_scanning_manager.cc`, OnPause | stopping a scan while paused leaves paused_ set when the client unregisters; a second OnPause forgets that the scan is to be resumed |
| `signalling_manager.cc`, on_command_timeout | dereferences a null channel when it is gone already |
| `signalling_manager.cc`, OnConfigurationRequest | a side that insists on ERTM disconnects without answering, and the caller of ConnectChannel at the other side is not called back; a request with an unacceptable MTU moves the state nevertheless, other than `channel_configuration_state.h:36` says |
| `signalling_manager.cc:215` | a refused incoming connection is allocated nevertheless and a second, successful response is sent |
| `signalling_manager.cc:591` | with crossing closes a queued disconnection request can close a new channel with the same identifier ("TODO: check cid match") |
| `signalling_manager.cc`, features | when the information request times out, the two ends may disagree on mode or check sequence |
| `link.cc`, OnAclDisconnected | requests that wait for the feature exchange are not failed |

## What is not modelled

In the modelled parts: Reactor::ModifyRegistration; registration of event handlers
and Stop in HciLayer; the scheduler's destructor, the contents of packets and
fragments, and reuse of a handle while something of its former connection is under
way (`Gone` assumes there is none). In `Ertm` selective rejects, which the controller never
sends, and the check sequence, which appears as the loss of a frame. In `LeAddressManager`
the advertising manager, the filters of the scanner and the lists' contents. In
`ClassicSignalling` command rejects, echo, PENDING responses and unknown codes, the loss
of the link, the idle timer, several PSMs, and an MTU negotiation above the default.

The modules stand for some three thousand of the repository's 440000 lines. Most
of the rest is the older stack: several hundred thousand lines of profiles and protocols
whose state is global and whose concurrency is that of one main thread, audio codecs,
generated packet code, byte layouts, tools and tests. Modelling them from the outside,
without their control flow, would say nothing about them. Within `gd/` the parts that are
left out are mostly I/O (HAL, storage), dispatch (L2CAP sender and receiver), or sequences of
steps on one thread that a test reaches (ModuleRegistry). Pairing (`security/`) and LE L2CAP
are what a next extension would model. `PROJECT.json` has the reason for each part.
