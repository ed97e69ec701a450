# Verification of the PULSE/aioquic prototype

This directory holds TLA+ models of the QUIC stack in `src/aioquic` and of the PULSE
congestion controller that `src/aioquic/quic/congestion/pulse.py` adds to it, TLC
configurations that check the models on small instances, and proofs that TLAPS checks for
every instance. Paths below are relative to the repository.

## 1. The system

aioquic is a QUIC implementation without I/O of its own: `QuicConnection`
(`src/aioquic/quic/connection.py`) is a state machine that is given datagrams and the time
and gives back datagrams, events and the next timer. The prototype runs it under asyncio
(`src/aioquic/asyncio`), with congestion controllers that are chosen by name, one of which,
PULSE, modulates its window periodically and reads the response of the path from the
acknowledgements. `thesis/` holds the client, the server, the sampling and the monitor.

| Component | Where | State it keeps | Operations | What makes it correct |
|---|---|---|---|---|
| Stream sender | `quic/stream.py` `QuicStreamSender` | buffer, pending and acknowledged ranges, FIN and reset flags | write, reset, get_frame, get_reset_frame, delivery callbacks | no byte forgotten or repeated, one final size, finishes only when all is acknowledged |
| Stream receiver | `quic/stream.py` `QuicStreamReceiver` | buffer, received ranges, final size | handle_frame, handle_reset, stop | bytes in order and once, no gaps, no truncation |
| RangeSet | `quic/rangeset.py` | sorted list of ranges | add, subtract, shift, bounds | canonical list that stands for a set |
| Loss recovery | `quic/recovery.py`, with `connection.py` | sent packets per space, counters, loss time | on_packet_sent, on_ack_received, timeouts, discard | counters match the packets, every loss found |
| Pacer | `quic/recovery.py` | bucket | next_send_time, update_after_send | never starves the connection |
| Reno, Cubic | `quic/congestion/*.py` | window, threshold, recovery start | callbacks of the recovery | one reduction per flight, window above its minimum |
| PULSE | `quic/congestion/pulse.py`, `thesis/AnalyzerUnit.py`, `thesis/TimestampLogger.py` | base and modulated window, operation state, sample queue | three periodic tasks, callbacks of the recovery | decisions rest on fresh samples, corrections are judged |
| Packet builder | `quic/packet_builder.py` | half-built datagram and packet | start_packet, start_frame, flush | stays within the room, registers what it sends |
| Connection: flow control, streams queue | `quic/connection.py` | limits, queue of streams | write and handle the frames on limits | no blocked stream stays blocked, limits only grow |
| Connection: IDs, paths | `quic/connection.py` | connection IDs, challenges | issue, retire, challenge, migrate | IDs in use are known to both sides |
| Connection: handshake, epochs, Retry | `quic/connection.py`, `tls.py` | keys and spaces by epoch | receive, discard, restart | no data left behind in a discarded space |
| Connection: close and timers | `quic/connection.py` | state, close deadline | close, drain, idle timeout | ends once, with one event |
| asyncio layer | `asyncio/*.py` | waiters, timer handle, table of connections | transmit, handle_timer, datagram_received | no waiter waits forever |
| HTTP/3, HTTP/0.9 | `h3/`, `h0/` | state of each stream | handle_event, send_* | frames in an allowed order |
| Thesis programs | `thesis/*.py` | queue between provider and client, client process | run, start/stop button | the client ends when the data ends |

How they interact: the connection writes frames into the packets of the builder and
registers with each a delivery handler (`start_frame(handler=...)`); the recovery calls the
handlers with ACKED or LOST, and the congestion controller with what left the flight; the
streams put back into `_pending` what was lost; the connection polls `buffer_is_empty`,
`reset_pending` and `stop_pending` of each stream when it is asked for datagrams. PULSE
shares its window with that machinery and runs its own asyncio tasks. The asyncio protocol
calls the connection for each datagram, timer and request of the application, takes the
events, then what is to be sent, then the next deadline; the asyncio server finds the
connection of a datagram in a table of connection IDs that events keep up to date. The
connection and the TLS engine call each other: messages of a CRYPTO stream go in, messages
and traffic keys come out. HTTP/3 reads the events of streams and writes streams.

The behaviours that are hard: delivery reports that come late, twice for one byte or in the
wrong order; frames that are repeated or overlap; a reset that races with data; the loss of
a frame between "taken" and "written" when the packet is full; counters kept by five paths;
timers that are computed, waited for and only then acted upon; tasks that interleave with
callbacks and are late; a timer that must stand for four deadlines; two ends that wait for
each other's credit or answer; keys and spaces that are discarded while their packets are
under way; identifiers that are issued and retired in messages that repeat; headers that
wait for another stream. PROJECT.json lists them as hazards, each at its line with the
properties that would catch it.

## 2. The modules

| Module | Models |
|---|---|
| `StreamFrames` | byte offsets and STREAM frames, shared by both ends |
| `StreamSender` | `QuicStreamSender`, one action per method and per way through `get_frame`; its safety properties |
| `StreamReceiver` | `QuicStreamReceiver`, one operator per method, as actions on its variables |
| `StreamTransfer` | composes a sender and a receiver with the connection handlers between them and a network that loses, duplicates, delays and reorders; properties end to end, fairness, refinement |
| `ByteStream` | the abstract specification: what a stream promises two applications |
| `OffsetSet`, `RangeSet` | a set of offsets, and the list of ranges that implements it |
| `Reno` | the controllers of `reno.py` and `reno_default.py`, as operators on the record of their attributes |
| `Recovery` | `QuicPacketRecovery` with its packet number spaces, sending within the window, both timers |
| `Pulse` | the tasks, states and callbacks of PULSE with its sample queue |
| `FlowControl` | the limits of a connection, of its streams and on their number, at the end that sends and at the end that grants, with the frames on limits between them |
| `TLS` | the state machine of `tls.py`, both roles, as operators on a context |
| `Handshake` | two connections with `TLS`, the asyncio server's answers to the first packet, their spaces, keys, probes and credit, over a network with faults |
| `ConnectionIds` | two connections after the handshake: IDs, paths, and the server's table |
| `Endpoint` | the asyncio client around its connection: deadlines, timer, scheduled transmissions, pacer, closing, waiters |
| `H3` | HTTP/3 responses and pushes from a server to a client, with the QPACK encoder stream |
| `MCRecovery`, `MCFlowControl`, `MCHandshake` | definitions for TLC |
| `FoldLemmas` | lemmas on induction, folds, sums and recursive functions that the proofs share |
| `Stream_proofs`, `Recovery_proofs`, `SendingLimits_proofs`, `Handshake_proofs`, `ConnectionIds_proofs`, `Endpoint_proofs`, `H3_proofs` | theorems; those about the sender, the transfer and the ranges share a module, and so do those about flow control and PULSE (`PulseInit`, `PulseNext` and `PulseSpec` have names of their own for that) |

Composition: `StreamTransfer` extends both halves of a stream; `Recovery` holds a `Reno`
record; `Handshake` holds a `TLS` context in each connection. `Handshake`, `ConnectionIds`
and `Endpoint` cover the same class, `QuicConnection`, in different parts of its life and
from different sides: what is one step in one of them (the handshake in `Endpoint`, a
packet's fate in `ConnectionIds`) is taken apart in another.

### Streams

A byte is named by its offset, so that bytes are told apart and every misplaced one is
seen. `_buffer` is the interval `s_buffer_start..s_buffer_stop`; `_pending` and `_acked` are
sets of offsets, which `RangeSet` shows to be what the lists of ranges stand for. Variables
keep the names of the attributes, with `s_` for the sender and `r_` for the receiver. The
delivery callbacks that are registered are the set `s_sent`: the builder registers one with
each frame and the recovery calls it once.

`get_frame` has four outcomes and is modelled by four actions: data from the first pending
range, cut anywhere by the room or the flow control limits (`SendData`); the end alone
(`SendFin`); the end alone when `start_frame` raises (`SendFinStopped`); and nothing, which
sets `buffer_is_empty` (`NothingToSend`). The receiver's `handle_frame` keeps its fast path
and its buffer apart; the zeros of `bytearray(gap)` are the value `Gap`, so that delivering
one would show. `r_delivered`, `r_ended` and `r_reset_seen` are the events handed to the
application.

In `StreamTransfer` a frame under way stays until it is dropped, so that it may arrive any
number of times and in any order; `got` remembers which frames in flight have arrived,
because only those can be acknowledged. A frame may be reported lost at any time, also after
it arrived: the recovery may be wrong about that. An application that resets or stops is
switched on by `Aborts`.

### Recovery and Reno

Packets are numbered across the spaces, as in the connection. `sent_packets[e]` maps the
numbers to kind, time and size; the kinds are those the recovery distinguishes (only an ACK,
padding, data, CRYPTO). `ReceiveAck` takes any set of numbers sent in the space, those
reported before included; of the latter only the largest can matter, and `Acks` leaves the
others out. Time is in ticks, the loss delay one of a set from which each round trip time
sample draws. The probe timeout may come at any time when no loss time is set: its length
and back-off are left out, which adds behaviours and removes none. `cut_at` and `examined`
are history variables for the properties.

### Flow control

Bytes are only counted here: of a stream the highest offset is kept, at both ends, and
`counted` splits `_local_max_data.used` by streams, to see what is counted twice. A limit
has a `value`, what was `sent` of it, and at the other end what is known of it (`remote`);
the MAX_DATA, MAX_STREAMS and MAX_STREAM_DATA code is the same but for where `used` comes
from, so one action (`WriteLimit`) stands for the three, and `WriteLimitStopped` for the
packet that is full after the limit was doubled. Every frame that was sent stays under way:
it may arrive late, more than once, after newer ones, or never. The streams are
unidirectional; which part of the data is sent again, and when, is `StreamSender`'s matter.

### PULSE

The three tasks sleep equally long between their rounds, so rounds come in turns: between
two rounds of a task each other task has one. A turn is one `Tick`, with the rounds in any
order. A turn takes one sampling interval at least, and up to `MaxLateness` if the event
loop is late; the states are timed by the clock (`state_age`) while the queue is filled by
rounds, and the difference between the two is what the properties on samples are about. What
decides between INCREASE, STATIC and CORRECT is a percentile or a mean of ratios: it is any
outcome here, so the properties hold whatever the path does. As in the code, STARTUP lasts
one length of the queue: `control` doubles the truth value of `state_active_over`.

### Handshake and TLS

A connection is a record named after the attributes of `QuicConnection`. The asyncio layer
calls `datagrams_to_send` after each datagram and each timer, so an action is one of these
with everything that is handled and sent in it. A unit of a CRYPTO stream is one TLS
message, placed by its number; HANDSHAKE_DONE and PING are units too. An acknowledgement
names the units that were received, in place of packet numbers. `datagrams_to_send` packs
the units into datagrams of a `Room` and stops where the credit of an unvalidated path
ends, counted in datagrams. `_initialize` replaces TLS context, keys and spaces, which a
Retry and an incompatible version cause in mid-flight; `_discard_epoch` does what the code
does at each of its callers. `TLS` has a handler for each message; a message that the state
does not expect is an alert. Certificates, binders and signatures are right, since both ends
are honest. `scenario` is the configuration: ticket known, unknown or none, client
certificates, versions, Retry.

The two ends of a scenario fit (`ScenariosFit`): they have a version in common, since
otherwise the client gives up as it should; and a server that asks for a certificate does not
know the ticket of the client. The second leaves out what the code gets wrong: after a
resumption the server's flight has no CertificateRequest, but `_server_handle_hello` still
goes on to expect a certificate (`tls.py:2089`). The attribute that turns the request on is
private and "For test purposes only" (`tls.py:1275`): nothing but tests sets it.

### Connection IDs and paths

An ID is its sequence number and a challenge is the address it went to. A packet holds all
that waits, and the network keeps every packet for ever: that one is lost, late or comes
again needs no action of its own. The events for the server's table are kept in the
connection until the asyncio layer takes them, after a datagram or a timer and before it
transmits: what a transmission adds waits for the next turn, as in the code. A
NEW_CONNECTION_ID is checked against both limits of the code, on the IDs in reserve and on
the retirements that wait (`MaxPending`); a RETIRE_CONNECTION_ID that is taken for lost waits
again, and counts.

### Endpoint

A deadline is the time left until it, `Never` if it is not set. `transmit` is the asyncio
method: it sends all that window and pacer allow and arms the timer from `get_timer`;
`TransmitTask` is the callback that `call_soon` scheduled, `HandleTimer` that of the timer.
A frame that does not fit the window leaves the loop of `_write_application` after the
acknowledgement was written, as `QuicPacketBuilderStop` does. When `datagrams_to_send`
raises, `transmit` ends before the timer is armed. The waiters are the futures of
`wait_connected` and `ping` and a coroutine that reads a stream. The handshake is one packet
and one answer here. Packets in flight are kept by their numbers. The peer may send at any
time and for ever, fall silent, or be gone for good (`peer_gone`); only while packets in
flight have numbers above `MaxNumber` does it wait. A window has room for one
packet at least, as Reno's has (section 4 says what a smaller window of PULSE does).

### HTTP/3

A frame is a sequence of units: its type, its size, and its body; the network cuts a stream
between any two, so that headers, sizes and bodies arrive in parts. The server's part is
what its application calls in an allowed order; the client's is `H3Stream` with the handlers
and the loop of `_receive_request_or_push_data`. QPACK is external: of its instructions only
the number counts, a header block needs the first few of them. Frames of a reserved type,
which this server never writes but others do, are sent too. The push stream is that of the
first promise.

## 3. The runs

| Run | Checks | Bounds and why they are enough |
|---|---|---|
| `stream` | types; `NoByteForgotten`, `OnePlaceForEachByte`, `ScheduledWhilePending`, `FinFrameEndsStream` of the sender; `AckedIsReceived`, `FinishedTogether`, `NoFinalSizeError`, `RangesAreHeld` of both ends; `ImplementsByteStream` | 2 bytes, 2 frames under way, both aborts. Two bytes give a gap, two ranges, frames that overlap after a loss, and an end apart from the data |
| `stream_live` | `WrittenIsDelivered`, `ResetIsSeen` under `FairSpec` | 2 bytes, 1 frame under way, resets |
| `rangeset` | `Canonical`, refinement to `OffsetSet` | offsets 0..9: up to five ranges, so that an added range can join several and a removed one split one in the middle of the list |
| `recovery` | `CountersMatch`, `WindowHolds`, `OneCutPerFlight`, `OvertakenIsReported` under `FairSpec` | two spaces, 3 packets of all kinds, 4 ticks, a packet threshold of 2 in place of 3, so that both rules of loss detection apply |
| `pulse` | `QueueFilledAfterStartup`, `EstimateIsFresh`, `WindowFollowsBase`, `CorrectionIsJudged` | a queue of 3 samples, turns of 1 or 2 intervals, 1 packet in flight: windows from 0 to twice the start |
| `flow` | types, `NoLimitError`, `LimitsReachSender`, `LimitIsRaised` | two streams, one of which may be reset, a byte each, all limits 1 at the start, two frames with a handler: each limit is reached, raised (that of the connection and of the streams twice), lost and overtaken. `NoLimitError` leaves out the cases in 4 |
| `handshake` | `NoError`, `NothingStranded`, `EndsAgree`, `HandshakeCompletes` under `FairSpec` | four scenarios: a full handshake with tickets; a resumption with Retry; a ticket the server forgot, a client certificate asked for and not there, and Version Negotiation; a client certificate and a compatible change of version. Datagrams arrive in any order, and one is lost or comes twice or a timer fires early (`MaxFaults = 1`), anywhere. `Amplification = 3` as in the code, `Room = 2` makes the server's flight longer than its credit when there are certificates |
| `ids` | `IdsAreKnown`, `TableFollowsIds`, `PathsAreFollowed` | three IDs at a time, two addresses, 3 packets of the client, 2 of the server, one datagram that comes again: an ID can be retired and replaced, its frames lost and repeated, and the client can go away and come back. `MAX_PENDING_RETIRES = 0` in place of 100: one retirement that comes back is too many, so that the check on them is met. What the property says with a limit above 0 is for the theorem |
| `endpoint` | `NothingIsForgotten`, `PingsAreTracked`, `EveryWaiterIsWoken` under `FairSpec` | one ping, one stream that is read, one unit of data, a window of one packet, a pacer that lets one packet go, a peer that may send without end (`MaxNumber = 2`), idle time 3, probe time 1 with one doubling: window, pacer, acknowledgement and loss all come to hold something back, in any order with the end of the connection |
| `h3` | `NoProtocolError`, `EventsFollowMessage`, `BlockedForInserts`, `AllIsReported` | 3 frames on two streams, 2 units of data, 2 encoder instructions. A block that is stuck, one that is not, and data behind them. Promises need no instruction here (`PromiseNeeds = {0}`), see 4 |
| `h3_promise`, `endpoint_close` | one property each, which the code violates | see 4 |

CHECK_DEADLOCK is off where the system may stop: a finished stream, an idle connection, the
end of the bounded time.

**Fairness.** `stream_live` assumes that the connection transmits data and resets while it
has some (the event loop calls `transmit` after every event and timer), that a frame with a
given byte, or a reset, that is sent over and over gets through and is acknowledged at some
time (strong fairness of delivery and acknowledgement, per byte: a network that drops
everything is not a network), and that what is in flight is reported at some time, which the
loss and probe timers see to. Nothing is assumed of the applications. `recovery`
assumes that time passes and that the timer which `get_timer` returns is served; nothing is
assumed of the peer. `pulse` assumes that the event loop runs every task that is due and that
time passes. `handshake` assumes that the client connects, that a datagram which was not lost
arrives at some time, and that a timer which is due again and again fires (strong fairness,
since a datagram of the other end may come first). Faults are not fair, and there is a
limited number of them: a network that loses everything completes no handshake. `endpoint`
assumes that time passes and that the event loop runs the timer and the callbacks that are
due; nothing is assumed of the network, of the peer or of the application. A peer that goes
on sending keeps the connection from its idle timeout, and then nothing says that a ping is
acknowledged or a stream ends. So `EveryWaiterIsWoken` claims two things: once either side has
begun to close, or the peer is gone (one that falls silent for ever is gone), the connection
ends and all are woken; and who waits for a handshake that is not complete is woken by it or
by the end, whatever the peer does, as long as what it sends first is the answer to the
handshake or a CONNECTION_CLOSE. What it does not claim, since the code does not keep it, is
in 4 (`MCEndpointLate.cfg`).

In `Handshake` and `Endpoint` fairness of an action is written out as "its condition is
false again and again, or such a step is taken again and again": the actions have large
nondeterministic bodies, and the condition is their guard. Each comes with a comment that
says which WF or SF it stands for.

The bounds that appear in guards are named where they are declared (`MaxOffset`, `MaxNet`,
`MaxPacket`, `MaxTime`, `MaxBase`, `MaxFlight`, `MaxPackets`, `MaxAcked`, `MaxSize`, `MaxCounted`,
`MaxCredit`, `MaxFaults`, `ServerPackets`, `ClientPackets`, `MaxRepeats`, `MaxBackoff`,
`MaxWork`, `MaxSoon`, `MaxNumber`, `MaxFrames`, `MaxData`, `MaxInserts`).

## 4. What the code does differently from what it says

Two of these are runs:

- `h3_promise`: a PUSH_PROMISE whose header block waits for QPACK instructions is resumed as
  if it were HEADERS (`h3/connection.py:1177`, under the comment "# resume headers"). The
  headers of the promise are validated as those of a response and the client closes the
  connection with an error. The peer did nothing wrong.
- `endpoint_close`: `close()` with a reason phrase that does not fit a packet makes
  `start_frame` raise `QuicPacketBuilderStop` outside the `try` that catches it
  (`connection.py:3256`). `transmit` ends before it arms the timer again, and so do all
  later ones: the connection never ends and nobody who waits for it is woken, against "Wait
  for the connection to be closed." (`asyncio/protocol.py:135`).

The others have a configuration of their own, in which TLC finds the property violated; the
command is `tlc -config <file> <module>`:

- `MCStreamFin.cfg` (`StreamTransfer`): when the FIN has to go in a frame of its own and the packet
  has no room, `get_frame` has already cleared `_pending_eof` when `start_frame` raises
  `QuicPacketBuilderStop`. The end is never sent, against "If set to `True`, the FIN bit will
  be set" (`connection.py:1138`). Data does not have this problem: `get_frame` returns none
  of it when there is no room.
- `MCStreamEnd.cfg` (`StreamTransfer`): after a RESET_STREAM, a late frame that reaches the final
  size is announced with `end_stream=True` although nothing had the FIN bit
  (`events.py:109`). `ByteStream` allows it, since the application is told of the reset.
- `MCStreamStop.cfg` (`StreamTransfer`): a STOP_SENDING for a stream that was reset before runs into
  the assertion in `reset` (`stream.py:319`), and the exception leaves `receive_datagram`.
- `MCFlowBlocked.cfg` (`MCFlowControl`): a stream beyond the peer's limit on streams is marked
  as blocked (`connection.py:1424`), but the loop in `_write_application` looks at the mark
  only for data: if the application resets the stream, its RESET_STREAM goes out at once and
  the peer closes the connection with "Too many streams open".
- `MCIdsResponse.cfg` (`ConnectionIds`): a datagram that comes twice is handled twice
  (`receive_datagram` drops no duplicates), so a repeated PATH_RESPONSE answers no challenge
  any more and is a protocol error. `IdsAreKnown` leaves this error out.
- `MCEndpointLate.cfg` (`Endpoint`): `_connected` is set only if somebody waits when the
  handshake completes (`asyncio/protocol.py:223`), so a `wait_connected` after that waits for
  the end of the connection, for ever with a peer that goes on sending, against "Wait for the
  TLS handshake to complete." (`asyncio/protocol.py:141`).

Related, and left out of `NoLimitError` by `CountedOnce`: `handle_reset` does not raise
`highest_offset`, so a RESET_STREAM that is repeated, or data that comes after it, counts
the same bytes against the limit of the connection again (`connection.py:2113`, `2256`).
`AllIsReported` sets apart (`EndIsSilent`) a frame of a reserved type that comes last with
the end of the stream: it gives no event, so no event has `stream_ended`.

`IdsAreKnown` has an exception for the check on pending retirements (`connection.py:1981`).
When acknowledgements and losses bring back more retirements than the limit allows, and a
NEW_CONNECTION_ID of the peer follows in the same packet, the connection ends with
CONNECTION_ID_LIMIT_ERROR though the peer did nothing wrong. The comment at the check says
that frames which were not acknowledged may take the list above the limit, "but that's ok as
it is bounded": it is (an ID is retired once, `RetiredOnce`), but it is not ok for the next
frame that is checked. With the code's limits that takes 33 retirements at once.

Seen while modelling, without a property: a `ping` or a reader that starts after the end of
the connection is never woken (`EveryWaiterIsWoken` is of waiters before the end); a DATAGRAM
that fits no packet stays at the head of its queue (`connection.py:3102`); `_pacing_at` keeps its old value when a packet stops early; a
connection in CLOSING never repeats its CONNECTION_CLOSE; with a PULSE window smaller than a
datagram and nothing in flight, nothing is sent and no loss timer is set; a server that asks
for client certificates waits for one also after a resumption, where it did not ask (the
option is private and used by tests); `_parse_transport_parameters` assigns
`_remote_ack_delay_exponent` to itself (`connection.py:2828`), so the peer's is ignored.

## 5. The proofs

TLAPS checks every theorem for all values of the constants, from the named assumptions on
them only.

**Sender** (the first part of `Stream_proofs`). The properties are not inductive: that an acknowledged
range can be taken off the front needs that acknowledged, pending and in-flight bytes are
disjoint and within the buffer, that frames in flight do not overlap, and that the first run
of acknowledged bytes never starts before the buffer. `SenderInv` joins the type invariant,
the four properties and these facts; one lemma per action shows that it is kept. The lemma
that a nonempty set of offsets has a first run rests on the well-ordering of the naturals.

**Transfer** (the second part of `Stream_proofs`). `TransferInv` adds what relates the two ends: every
frame under way is of bytes that were written and ends the stream if it has the FIN bit;
what has arrived of the frames in flight is held or delivered; the final size that the
receiver knows is the one the sender will use; the receiver's buffer reaches exactly to the
highest offset. The safety of the sender is taken from the first part, since every action
is a step of the sender or leaves it alone. From the invariant follow `DeliveredInOrder`,
`EndMeansAll`, `AckedIsReceived`, `FinishedTogether`, `NoFinalSizeError`, `RangesAreHeld`,
and the refinement: each step of `StreamTransfer` is a step of `ByteStream` or a stutter.

**PULSE** (the second part of `SendingLimits_proofs`). The first invariant counts: samples since the base was set, and samples
in the queue, times the lateness are at least the time in the state, give or take the sample
of the turn. With a punctual loop (`MaxLateness = 1`) the theorems say that the queue is full
and fresh. The second, `WindowInv`, is for every lateness and every order of the tasks: a
base that is outside the amplitude of the window was either set in this turn, and has at
most one sample, or in the last, and then the window has yet to have its round. For that
the base has to stay a number: the estimates choose the least and the greatest of a finite
queue, which exist because the naturals are well-ordered, and the modulated window is
within the amplitude because the quotient keeps the order.

**Flow control** (the first part of `SendingLimits_proofs`). `GrantInv` adds to `LimitsReachSender` that frames
carry only what was granted, that what a limit's `sent` says was granted, and that a limit in
a frame which can be acknowledged is known to the sender: without the last, the step that
drops an acknowledged frame would leave nothing in its place. `NoLimitError` needs the other
direction as well, `SpendInv`: the sender keeps to the limits it knows, of each stream and of
the sum of all, and no frame holds more than was sent. With `GrantInv`, what it knows was
granted, and the receiver's sums are at most the sender's. `LimitIsRaised` needs that what
was used cannot be more than the limit, so that "used up" is an equality term by term.

**RangeSet** (the third part of `Stream_proofs`). `RangesSorted` says that each range is not empty and ends
before the next begins; it is `Canonical` in the form that the loops keep. The loops of `add`
and `subtract` are recursive functions. `AbsorbMerges` says of the first how far it reaches:
the ranges it takes in are those that touch the new one, and what it returns covers exactly
them; `SubtractFromLeaves` says that the second leaves of the ranges behind a place what is
not subtracted. From these each operation is the operation on sets that `OffsetSet` names,
so the sets which the stream modules keep in place of the lists are justified for any list.

**Recovery** (`Recovery_proofs`). The counters alone are not inductive: `RecoveryInv` joins
the types, `CountersMatch`, that the numbers used so far are those below the next (a packet
that is sent is a new one, so it is counted once), and `BeforeCut`: what was sent before the
last reduction was sent no later than `recovery_start`. The last is what makes the time, by
which the code decides, agree with the packet numbers, by which `OneCutPerFlight` is stated.
The counters are sums over functions that change in a set of places at once, when an
acknowledgement reports and removes many packets; `FoldLemmas` has what such a sum becomes.
Reno's callbacks are lemmas of their own, for every window: halving keeps it above its
minimum and above the threshold.

**Handshake** (`Handshake_proofs`). Each invariant is about messages that one end has written
and the other has read or not, so `IInv` says of the two connections how far each is in what
the other has written, and of each datagram what it may hold. `ClientWaits`, `ClientReads`,
`ServerWaits` and `ServerReads` are the stages: what an end has written (`ServerFlight`,
`ClientFlight`) depends on the scenario alone, and its TLS state, its keys and whether it is
complete depend on the number of messages it has handled (`ClientState`, `ServerState`). That
is why no order of datagrams can bring a message in a state that does not expect it. `Own`
and `Heard` tie the recovery to that: all that is pending, in flight, overtaken, received or
in a datagram was written by its sender, whatever was lost or acknowledged. `Introduced` says
what each end knows of the connection IDs, and that a server exists only for the keys which
the client has now: a Retry or a Version Negotiation, which make the client start anew in
mid-flight, come too late once a server has answered, and what the client sent before has
keys that the server does not take or a version that it does not have (`ForServer`). The
version that the client will go over to is that of the datagrams with CRYPTO from the server
(`ForClient`). `Discards` says why keys may be gone, and gives `NothingStranded`.

The proof of a step goes along the nesting of the handlers. For each TLS handler a lemma says
what it writes, where it moves and what keys it sets up; `ClientHandlesNext` and
`ServerHandlesNext` take the next message of a stage; the loops over messages, frames and
packets, which are recursive functions, keep `Matched`, that the pair stays a pair while one
end changes. Since an end is never taken back (`Advances`), what the other end and the
datagrams rest on stays true. Loss, acknowledgement and timers are `Quiet`: they change only
what is under way. The theorems are for any room, credit and number of faults and any set of
configurations that fit.

**Connection IDs** (`ConnectionIds_proofs`). A packet changes a connection frame by frame,
in a fold over its frames, and is built from what one end has and read by the other after any
delay. So `IdsInv` relates three things. The two ends (`Agree`, both ways): what one knows of
the other's IDs was issued, and all of it that is not `Gone` is still kept there. Each end
itself (`Sound`): it has as many IDs as the limit, the IDs of the peer that it uses and has in
reserve are different, it retires only what is gone, and it retires each ID once
(`RetiredOnce`): the retirement waits, or is in one packet in flight, so losses bring back at
most one for each ID that is gone, and an error for pending retirements (`FailedWell`) means
that more are gone than may wait. Each packet under way (`PacketOK`):
it issues only what was issued and retires only what is gone, and not the ID that it is
addressed to. The facts of a packet stay true while its sender goes on, which is why loss,
repetition and delay do no harm; `Gone` is what makes them so. A limit on what may be in
reserve follows by counting: what an end has not given up is among the IDs its peer keeps.
For the table, `TableOf` puts the events that wait after the table as it is. For the paths,
`NewestFollowed` needs that a number names one packet, since the newest non-probing packet is
remembered by its number. One lemma per frame and per step of `receive_datagram` shows that
`Sound` is kept; `FramesSound` then goes along the fold, with what is expected of each frame
that is still to come (`FramesExpected`).

**Endpoint** (`Endpoint_proofs`). `IInv` joins three things. `Tracked`: a ping that somebody
waits for has one place, and every other ping none. `CloseGoesOut`: a close that is due and
fits a packet has been written. `Going`: the timer is no later than the pacer and the loss of
packets (`Armed`), and a frame that waits has one of the two set, unless a transmission is
scheduled (`Held`). Nearly every step ends in `transmit`, so one lemma, `Transmits`, restores
all of it from the little that a caller leaves true (`Calls`: the types, `Tracked`, that the
connection was started). The loop of `_write_application` is a recursive function of turns,
and a measure bounds them: each turn but the last takes one packet of the room or the
acknowledgement that is due, so the last turn has stopped for the pacer, for want of room (then
a packet is in flight and the probe timer is set), or because nothing waits. Time is the step
without `transmit`: all deadlines move alike, and the probe timeout, which is counted from the
last packet, no faster. `NothingIsForgotten` has the hypothesis that the application has no
reason for closing which fits no packet (`"long" \notin Reasons`): with one the code does
forget, as the run `endpoint_close` shows. `FramesGoOn` says for all reasons that nothing but
such a close can do that.

**HTTP/3** (`H3_proofs`). What a stream has still to read is the rest of the frame in hand and
then whole frames; these take the message from what the client has counted to what the server
has written (`Carries`). That relation is a least set, the meet of all sets closed under the
frames, instead of a recursion over the data: a frame is put at the end by the server and
taken from the front by the client without an induction over the sequence. The invariant adds
what was told to the application and where a stream rests when it waits for instructions or
for more data. The loop of the client is opened by its recursive function. Whatever the blocks
need, the events follow the message (`EventsFollow`), an open connection reports all that has
come (`OpenConnectionReports`), and the only error is that of a promise which had to wait
(`OnlyPromisesFail`). `NoError`, `BlockedStreamsWait` and `AllReported` have the hypothesis
that promises need no instruction (`PromiseNeeds \subseteq {0}`), as those of a server that
encodes them without the dynamic table: with others the code violates them, as the run
`h3_promise` shows.

**Induction.** The provers cannot take an operator as a parameter, which the induction
theorems of the library do. `FoldLemmas` states them with sets in place of predicates: a set
of numbers that has 0 and with each number the next has all of them (`InductionUpTo`), and
sets of sets likewise (`AllSubsets`). A fold is opened by the function that its step is: there
is a function on 0..n that starts with the base and goes from each place to the next by the
step, and the fold is its last value (`LeftFoldWalks`). With these, folds and recursive
functions are in reach.

Only checked by TLC: liveness and everything under fairness (`WrittenIsDelivered`,
`ResetIsSeen`, `OvertakenIsReported`, `CorrectionIsJudged`, `HandshakeCompletes`,
`EveryWaiterIsWoken`), which is out of these provers' reach; and the violations. Every invariant
and every action property that a passing run checks is stated by a theorem.

## 6. Not modelled

Whole components:

- Coding and cryptography (`packet.py`, `crypto.py`, `_buffer.c`, `_crypto.c`, the message
  formats and key schedule of `tls.py`), qlog, configuration: data transformations or pure
  output. The key update of 1-RTT is part of this.
- Cubic: a floating point function of time; what is discrete about it, a restart after two
  idle seconds, has no one to interleave with.
- The thesis programs and the live monitor: threads of a queue, CSV files and plots around
  the library. `AnalyzerUnit` and `TimestampLogger` are modelled as far as PULSE calls them.
- HTTP/0.9 and the programs under `examples/`.

Of the modelled parts:

- Streams: error codes and reasons.
- Recovery: the arithmetic of round trip times, the length of the probe timeout. Reno's
  `QuicRttMonitor` (any answer) and its monitoring sums. PULSE: the congestion ratio.
- Flow control: the order of the queue of streams, the *_BLOCKED frames, streams with two
  halves, streams that are discarded.
- Handshake: 0-RTT data (its keys are there), the congestion window and the pacer, the idle
  timeout (it would excuse a handshake that does not complete), the check of
  `initial_source_connection_id`, CONNECTION_CLOSE after an error: an error ends what the
  model looks at.
- Connection IDs: frames that do not fit a packet; `retire_prior_to` above 0, which the code
  handles and never sends; stateless resets; the congestion window.
- Endpoint: DATAGRAM frames, more than one stream, retry and migration; the buffered data
  of `StreamReader`; `QuicServer.close`.
- HTTP/3: requests from the client (their direction is the same code without pushes),
  HTTP/3 datagrams, WebTransport, the QPACK decoder stream, `validate_*_headers` other than
  that a promise is not a response.

Next, in this order:

1. The queue of streams: turns when a packet is full, streams that are discarded; the
   *_BLOCKED frames; flow control with both halves of a stream; DATAGRAM frames.
2. 0-RTT data across a Retry and a rejection; the packet builder with its limits.
3. The handshake as an abstract specification of what two ends agree on, implemented by
   `Handshake`.
