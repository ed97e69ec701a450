------------------------------ MODULE Endpoint ------------------------------
(***************************************************************************)
(* One client: a QuicConnectionProtocol (asyncio/protocol.py) around its   *)
(* QuicConnection, from connect() to the end of the closing period.  The   *)
(* module models what makes the connection go on by itself: the deadlines  *)
(* (idle or closing, acknowledgement, loss, pacing), the one asyncio timer *)
(* that stands for them, the transmissions that are scheduled, what keeps  *)
(* a packet from being written (the congestion window, the pacer), and the *)
(* coroutines that wait for an event of the connection.                    *)
(*                                                                         *)
(* A step is one callback of the event loop or one call of the             *)
(* application, with everything it does before it returns.  A deadline is  *)
(* the time left until it; it stops at -1, the past.  The handshake is one *)
(* packet and one answer (Handshake.tla has the rest), a packet is as      *)
(* large as a datagram and carries one unit of stream data, and the window *)
(* counts packets.                                                         *)
(***************************************************************************)
EXTENDS Integers, FiniteSetsExt, Functions

CONSTANTS
    Never,       \* a deadline that is not set: later than all others
    Uids,        \* the pings the application may send
    Reasons,     \* of "short", and "long" for one that does not fit a packet
    Idle,        \* the idle timeout
    Probe,       \* get_probe_timeout()
    AckDelay,
    PacketTime,  \* the pacer's time per packet
    MaxBucket,   \* and the packets it lets go at once
    Windows,     \* the congestion window is one of these
    MaxBackoff,  \* bound: pto_count is not counted any further
    MaxWork,     \* bound: units of stream data that wait
    MaxSoon,     \* bound: transmissions that are scheduled
    MaxNumber    \* bound: the peer waits while packets with higher numbers are in flight

Closing == 3 * Probe

\* get_probe_timeout() * 2 ** pto_count
timeout[n \in 0..MaxBackoff] == IF n = 0 THEN Probe ELSE 2 * timeout[n - 1]
Longest == timeout[MaxBackoff] + 1

ASSUME BoundsAssumption ==
    /\ {Never, Idle, Probe, AckDelay, PacketTime, MaxBucket, MaxBackoff, MaxWork, MaxSoon,
         MaxNumber} \subseteq Nat
    /\ \A d \in {1, Idle, Closing, AckDelay, PacketTime, Longest} : d < Never

\* A window has room for one packet at least, as that of Reno has; an identifier of a
\* ping is not the name of another event.
ASSUME WindowsAssumption == Windows \subseteq Nat \ {0}
ASSUME UidsAssumption == Uids \cap {"connected", "reader", "terminated"} = {}

VARIABLES
    quic, protocol,
    peer_gone    \* nothing comes from the peer any more, as when it has crashed

vars == <<quic, protocol, peer_gone>>

END_STATES == {"CLOSING", "DRAINING", "TERMINATED"}

Ended == quic.state \in END_STATES
Connected == quic.close_at # Never \/ quic.state # "FIRSTFLIGHT"

Init ==
    /\ \E w \in Windows :
          quic = [state |-> "FIRSTFLIGHT", complete |-> FALSE,
                  cause |-> "none", reason |-> "short", close_pending |-> FALSE,
                  close_at |-> Never, ack_at |-> Never, pacing_at |-> Never,
                  loss_at |-> Never, loss_time |-> Never, pto_count |-> 0,
                  last_sent |-> 0, window |-> w, sent |-> << >>,
                  packet_time |-> FALSE, bucket |-> 0,
                  crypto |-> FALSE, probe_pending |-> FALSE,
                  ping_pending |-> {}, work |-> 0]
    /\ protocol = [timer |-> Never, transmit_task |-> FALSE, soon |-> 0,
                   connected |-> FALSE, closed |-> FALSE,
                   waiters |-> {}, used |-> {}]
    /\ peer_gone = FALSE

-----------------------------------------------------------------------------
(* Deadlines.                                                              *)

Passed(d) == IF d = Never THEN Never ELSE Max({d - 1, -1})

\* The acknowledgement-eliciting packets, and a handshake that the peer may not
\* have seen, keep the probe timer running; a packet that was overtaken comes
\* first.
get_loss_detection_time(q) ==
    IF q.loss_time # Never THEN q.loss_time
    ELSE IF ~q.complete \/ DOMAIN q.sent # {}
    THEN Max({timeout[q.pto_count] - q.last_sent, -1})
    ELSE Never

\* Variant with a slip: the pacer is forgotten.
TimerUnpaced(q) ==
    IF q.state \in END_STATES THEN q.close_at
    ELSE Min({q.close_at, q.ack_at, get_loss_detection_time(q)})

get_timer(q) ==
    IF q.state \in END_STATES THEN q.close_at
    ELSE Min({q.close_at, q.ack_at, get_loss_detection_time(q), q.pacing_at})

\* The pacer: the time at which the next packet may go, Never for now.
next_send_time(q) ==
    IF q.packet_time /\ q.bucket <= 0 THEN PacketTime ELSE Never

update_after_send(q) == [q EXCEPT !.bucket = Max({@ - 1, 0})]

-----------------------------------------------------------------------------
(* Sending.                                                                *)

\* The room in the window; a probe makes its own.
MaxFlight(q) ==
    LET free == Max({q.window - Cardinality(DOMAIN q.sent), 0})
    IN  IF q.probe_pending /\ free < 1 THEN 1 ELSE free

Packet(q) == [crypto |-> ~q.complete, pings |-> q.ping_pending, overtaken |-> FALSE]

\* A packet that elicits an acknowledgement is registered, with a number above those of
\* the others in flight.
on_packet_sent(q, p) ==
    LET number == Max(DOMAIN q.sent \cup {0}) + 1
    IN  [q EXCEPT !.sent = [n \in DOMAIN @ \cup {number} |-> IF n = number THEN p ELSE @[n]],
                  !.last_sent = 0]

_write_handshake(q) ==
    IF (q.crypto \/ q.probe_pending) /\ MaxFlight(q) > 0
    THEN on_packet_sent([q EXCEPT !.crypto = FALSE, !.probe_pending = FALSE],
                        [Packet(q) EXCEPT !.pings = {}])
    ELSE q

\* A turn of the loop that writes one packet after the other; "more" says whether there
\* is another turn.  An acknowledgement that is late is not paced; it is not limited by
\* the window either, but a frame after it that is leaves the loop
\* (QuicPacketBuilderStop).
Turn(q, room, more) == [q |-> q, room |-> room, more |-> more]

WritePacket(turn) ==
    LET q == turn.q
        paced == q.ack_at >= 0
        paced_q == IF paced THEN [q EXCEPT !.pacing_at = next_send_time(q)] ELSE q
        acknowledges == q.ack_at <= 0
        acknowledged == IF acknowledges THEN [paced_q EXCEPT !.ack_at = Never]
                        ELSE paced_q
        frames == q.ping_pending # {} \/ q.probe_pending \/ q.work > 0
        written == [acknowledged EXCEPT !.ping_pending = {}, !.probe_pending = FALSE,
                                        !.work = Max({@ - 1, 0})]
    IN  IF ~turn.more THEN turn
        ELSE IF paced /\ paced_q.pacing_at # Never THEN Turn(paced_q, turn.room, FALSE)
        ELSE IF frames /\ turn.room = 0 THEN Turn(acknowledged, 0, FALSE)
        ELSE IF frames
        THEN Turn(update_after_send(on_packet_sent(written, Packet(q))), turn.room - 1, TRUE)
        ELSE IF acknowledges THEN Turn(update_after_send(acknowledged), turn.room, TRUE)
        ELSE Turn(paced_q, turn.room, FALSE)

\* Each packet takes room but one that only acknowledges, and the last turn writes none.
_write_application(q) ==
    LET turns == MaxFlight(q) + 2
        turn[i \in 0..turns] == IF i = 0 THEN Turn(q, MaxFlight(q), TRUE)
                                ELSE WritePacket(turn[i - 1])
    IN  turn[turns].q

\* Not in a packet: start_frame() raises, and the call in datagrams_to_send()
\* is not guarded.  In a handshake packet the reason is left out.
Unsendable(q) == q.close_pending /\ q.complete /\ q.reason = "long"

\* What the connection does not look at again once it closes is not kept.
Forgotten(q) == [q EXCEPT !.ack_at = Never, !.pacing_at = Never, !.loss_at = Never,
                          !.loss_time = Never, !.pto_count = 0, !.last_sent = 0,
                          !.sent = << >>, !.bucket = 0, !.crypto = FALSE,
                          !.probe_pending = FALSE, !.ping_pending = {}, !.work = 0]

_close_begin(q, state) == [Forgotten(q) EXCEPT !.close_at = Closing, !.state = state]

datagrams_to_send(q) ==
    IF q.state \in END_STATES THEN q
    ELSE IF q.close_pending
    THEN _close_begin([q EXCEPT !.close_pending = FALSE], "CLOSING")
    ELSE IF q.complete THEN _write_application(q)
    ELSE _write_handshake(q)

\* transmit(): sends and arms the timer again, unless the sending raises.
transmit(q, p) ==
    LET cleared == [p EXCEPT !.transmit_task = FALSE]
        after == datagrams_to_send(q)
    IN  IF q.state \notin END_STATES /\ Unsendable(q)
        THEN /\ quic' = q
             /\ protocol' = cleared
        ELSE /\ quic' = IF after.state \in END_STATES THEN after
                        ELSE [after EXCEPT !.loss_at = get_loss_detection_time(after)]
             /\ protocol' = [cleared EXCEPT !.timer = get_timer(after)]

-----------------------------------------------------------------------------
(* Events, and the coroutines that wait for them.                          *)

\* Each waits for an event of its own and all for the end.  That the connection is up is
\* remembered only when somebody waits for it.
_process_events(p, events) ==
    IF "terminated" \in events THEN [p EXCEPT !.waiters = {}, !.closed = TRUE]
    ELSE [p EXCEPT !.waiters = @ \ events,
                   !.connected = @ \/ "connected" \in p.waiters \cap events]

-----------------------------------------------------------------------------
(* Losses and acknowledgements.                                            *)

Remaining(q, gone) == Restrict(q.sent, DOMAIN q.sent \ gone)

\* Variant with a slip: what a lost packet carried is not asked for again.
LostForGood(q, lost) ==
    [q EXCEPT !.sent = Remaining(q, lost), !.crypto = @ \/ \E n \in lost : q.sent[n].crypto]

\* The packets are taken out, and their delivery handlers called.
_on_packets_lost(q, lost) ==
    [q EXCEPT !.sent = Remaining(q, lost),
              !.crypto = @ \/ \E n \in lost : q.sent[n].crypto,
              !.ping_pending = @ \cup UNION {q.sent[n].pings : n \in lost}]

_detect_loss(q) ==
    [_on_packets_lost(q, {n \in DOMAIN q.sent : q.sent[n].overtaken})
        EXCEPT !.loss_time = Never]

reschedule_data(q) ==
    [_on_packets_lost(q, {n \in DOMAIN q.sent : q.sent[n].crypto})
        EXCEPT !.probe_pending = TRUE]

on_loss_detection_timeout(q) ==
    IF q.loss_time # Never THEN _detect_loss(q)
    ELSE reschedule_data([q EXCEPT !.pto_count = Min({@ + 1, MaxBackoff})])

\* The packets in "acked" are reported.  Those before the last of them are overtaken;
\* they are lost at once when they are far behind ("far"), and otherwise when the time
\* threshold is over.
on_ack_received(q, acked, far, w) ==
    LET rest == DOMAIN q.sent \ acked
        late == {n \in rest : q.sent[n].overtaken \/ n < Max(acked)}
        seen == [q EXCEPT !.sent = [n \in rest |-> [@[n] EXCEPT !.overtaken = n \in late]],
                          !.pto_count = 0, !.window = w, !.packet_time = TRUE,
                          !.bucket = IF q.packet_time THEN @ ELSE MaxBucket,
                          !.loss_time = IF late # {} THEN 1 ELSE Never]
    IN  IF far THEN _detect_loss(seen) ELSE seen

-----------------------------------------------------------------------------
(* The application.                                                        *)

connect(waits) ==
    /\ ~Connected
    /\ transmit([quic EXCEPT !.close_at = Max({Idle, Closing}), !.crypto = TRUE],
                IF waits THEN [protocol EXCEPT !.waiters = @ \cup {"connected"}]
                ELSE protocol)
    /\ UNCHANGED peer_gone

wait_connected ==
    /\ Connected
    /\ "connected" \notin protocol.waiters
    /\ ~protocol.connected
    /\ protocol' = [protocol EXCEPT !.waiters = @ \cup {"connected"}]
    /\ UNCHANGED <<quic, peer_gone>>

ping(u) ==
    /\ Connected
    /\ u \notin protocol.used
    /\ transmit([quic EXCEPT !.ping_pending = @ \cup {u}],
                [protocol EXCEPT !.waiters = @ \cup {u}, !.used = @ \cup {u}])
    /\ UNCHANGED peer_gone

\* A stream, with a coroutine that reads it to its end.
create_stream ==
    /\ Connected
    /\ "reader" \notin protocol.used
    /\ protocol' = [protocol EXCEPT !.waiters = @ \cup {"reader"},
                                    !.used = @ \cup {"reader"}]
    /\ UNCHANGED <<quic, peer_gone>>

\* write() of the stream's adapter: a transmission is scheduled, unless one is.
write ==
    /\ Connected
    /\ quic.work < MaxWork
    /\ protocol.soon < MaxSoon
    /\ quic' = [quic EXCEPT !.work = @ + 1]
    /\ protocol' = IF protocol.transmit_task THEN protocol
                   ELSE [protocol EXCEPT !.transmit_task = TRUE, !.soon = @ + 1]
    /\ UNCHANGED peer_gone

close(reason) ==
    /\ Connected
    /\ transmit(IF quic.cause = "none" /\ quic.state \notin END_STATES
                THEN [quic EXCEPT !.cause = "local", !.reason = reason,
                                  !.close_pending = TRUE]
                ELSE quic,
                protocol)
    /\ UNCHANGED peer_gone

-----------------------------------------------------------------------------
(* The event loop.                                                         *)

\* A transmission that was scheduled runs, though another may have been faster.
TransmitTask ==
    /\ protocol.soon > 0
    /\ transmit(quic, [protocol EXCEPT !.soon = @ - 1])
    /\ UNCHANGED peer_gone

Due == protocol.timer # Never /\ protocol.timer <= 0

\* Variant with a slip: the closing period leaves no event.
CloseEndSilently(q) ==
    [quic |-> [Forgotten(q) EXCEPT !.state = "TERMINATED", !.close_at = Never],
     events |-> IF q.state \in END_STATES THEN {} ELSE {"terminated"}]

_close_end(q) ==
    [quic |-> [Forgotten(q) EXCEPT !.state = "TERMINATED", !.close_at = Never],
     events |-> {"terminated"}]

handle_timer(q) ==
    IF q.close_at <= 0
    THEN _close_end([q EXCEPT !.cause = IF @ = "none" THEN "idle" ELSE @])
    ELSE [quic |-> IF q.loss_at <= 0 THEN on_loss_detection_timeout(q) ELSE q,
          events |-> {}]

HandleTimer ==
    /\ Due
    /\ LET handled == handle_timer(quic)
       IN  transmit(handled.quic,
                    _process_events([protocol EXCEPT !.timer = Never], handled.events))
    /\ UNCHANGED peer_gone

Tick ==
    /\ Connected
    /\ quic' = [quic EXCEPT !.close_at = Passed(@), !.ack_at = Passed(@),
                            !.pacing_at = Passed(@), !.loss_at = Passed(@),
                            !.loss_time = Passed(@),
                            !.last_sent = IF Ended THEN @ ELSE Min({@ + 1, Longest}),
                            !.bucket = IF quic.packet_time /\ ~Ended
                                       THEN Min({@ + 1, MaxBucket}) ELSE @]
    /\ protocol' = [protocol EXCEPT !.timer = Passed(@)]
    /\ UNCHANGED peer_gone

-----------------------------------------------------------------------------
(* A datagram of the peer: it is handled, then the events, then what is to *)
(* be sent.  "handled" is the connection after the payload.                *)

Receive(handled, events) ==
    LET renewed == IF handled.state \in END_STATES \/ handled.close_pending THEN handled
                   ELSE [handled EXCEPT !.close_at = Max({Idle, Closing})]
    IN  /\ ~peer_gone
        /\ \A n \in DOMAIN quic.sent : n <= MaxNumber
        /\ transmit(renewed, _process_events(protocol, events))
        /\ UNCHANGED peer_gone

Listening == Connected /\ ~Ended

\* The packet asks for an acknowledgement.
Eliciting(q) ==
    IF ~q.close_pending /\ q.ack_at = Never THEN [q EXCEPT !.ack_at = AckDelay] ELSE q

\* The answer to the handshake acknowledges all of it.
ReceiveAnswer ==
    /\ Listening
    /\ ~quic.complete
    /\ Receive([quic EXCEPT !.state = "CONNECTED", !.complete = TRUE, !.crypto = FALSE,
                            !.sent = << >>, !.pto_count = 0],
               {"connected"})

ReceiveAck ==
    /\ Listening
    /\ quic.complete
    /\ \E acked \in SUBSET DOMAIN quic.sent \ {{}}, far \in BOOLEAN, w \in Windows :
          Receive(on_ack_received(quic, acked, far, w),
                  UNION {quic.sent[n].pings : n \in acked})

\* Application data or a PING; with it the stream of the reader may end.
ReceiveData(last) ==
    /\ Listening
    /\ quic.complete
    /\ last => "reader" \in protocol.used
    /\ Receive(Eliciting(quic), IF last THEN {"reader"} ELSE {})

\* CONNECTION_CLOSE, unless there is a reason to close already.
ReceiveClose ==
    /\ Listening
    /\ Receive(IF quic.cause = "none"
               THEN _close_begin([quic EXCEPT !.cause = "peer"], "DRAINING")
               ELSE quic,
               {})

\* The peer crashes or cannot be reached any more.  (Where nobody waits, or the
\* connection is about to end, it would be no different from a peer that is silent.)
PeerGone ==
    /\ Listening
    /\ ~peer_gone /\ protocol.waiters # {} /\ quic.cause = "none"
    /\ peer_gone' = TRUE
    /\ UNCHANGED <<quic, protocol>>

Next ==
    \/ \E waits \in BOOLEAN : connect(waits)
    \/ wait_connected
    \/ \E u \in Uids : ping(u)
    \/ create_stream
    \/ write
    \/ \E reason \in Reasons : close(reason)
    \/ TransmitTask
    \/ HandleTimer
    \/ Tick
    \/ ReceiveAnswer
    \/ ReceiveAck
    \/ \E last \in BOOLEAN : ReceiveData(last)
    \/ ReceiveClose
    \/ PeerGone

Spec == Init /\ [][Next]_vars

\* Time passes, and the event loop runs what is due.  Nothing is assumed of the
\* application or of the peer, which may be gone, send for ever or say nothing.
\* (Weak fairness of HandleTimer and TransmitTask, written out: the one is
\* enabled when the timer is due, the other when a transmission is scheduled,
\* which no other step takes back.)
Fairness ==
    /\ WF_vars(Tick)
    /\ []<>~Due \/ []<><<HandleTimer>>_vars
    /\ []<>(protocol.soon = 0) \/ []<><<protocol'.soon < protocol.soon>>_vars

FairSpec == Spec /\ Fairness

-----------------------------------------------------------------------------
(* Properties.                                                             *)

HasFrames ==
    IF quic.complete THEN quic.ping_pending # {} \/ quic.probe_pending \/ quic.work > 0
    ELSE quic.crypto \/ quic.probe_pending

\* Whatever kept a frame from being written, something other than the end of
\* the connection will try again: a transmission is scheduled, or the timer is
\* set, no later than the pacer allows or the loss of what fills the window
\* would be noticed.
NothingIsForgotten ==
    Connected /\ ~Ended /\ HasFrames /\ protocol.soon = 0 =>
        \/ quic.pacing_at # Never /\ protocol.timer <= quic.pacing_at
        \/ /\ get_loss_detection_time(quic) # Never
           /\ protocol.timer <= get_loss_detection_time(quic)

\* A PING whose answer somebody waits for is either still to be sent or in one
\* packet whose fate is not known, never in both and never in neither.
Carriers(u) == {n \in DOMAIN quic.sent : u \in quic.sent[n].pings}

PingsAreTracked ==
    ~Ended => \A u \in protocol.waiters \cap Uids :
                 IF u \in quic.ping_pending THEN Carriers(u) = {}
                 ELSE \E n \in DOMAIN quic.sent : Carriers(u) = {n}

\* The connection cannot go on for ever.
Ending == peer_gone \/ quic.cause # "none"

\* A coroutine that waits for the handshake, for the answer to a ping or for the end of
\* a stream is woken in the end, whatever the network loses, by the event or by the end
\* of the connection: all of them once the peer is gone or either side has begun to
\* close, and one that waits for a handshake that is not complete in any case, as long as
\* what the peer sends before is the answer to it.
EveryWaiterIsWoken ==
    (/\ ~protocol.closed
     /\ Ending \/ ("connected" \in protocol.waiters /\ ~quic.complete))
    ~> IF protocol.closed THEN protocol.waiters = {}
       ELSE ~Ending /\ "connected" \notin protocol.waiters

\* "Wait for the TLS handshake to complete.": so does wait_connected() when nobody waited
\* before, though the handshake was complete.
ConnectedIsSeen ==
    ("connected" \in protocol.waiters /\ ~protocol.closed)
        ~> ("connected" \notin protocol.waiters)
=============================================================================
