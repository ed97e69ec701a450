------------------------------ MODULE Handshake ------------------------------
(***************************************************************************)
(* The handshake of a client and a server over a network that loses,       *)
(* repeats and reorders: QuicConnection of quic/connection.py at both      *)
(* ends, with its packet number spaces, keys, probes and the limit on what *)
(* a server may send before it has validated the client; the asyncio       *)
(* server, which answers the first packet with Retry or Version            *)
(* Negotiation or creates the connection; and the TLS engine (module TLS). *)
(*                                                                         *)
(* The asyncio layer calls datagrams_to_send after each datagram and each  *)
(* timer, so one action is a datagram or a timer with all that it sends.   *)
(* A TLS message is a unit of CRYPTO data, placed by its number in the     *)
(* stream of its epoch; packets carry whole messages.  An acknowledgement  *)
(* names what was received instead of packet numbers.                      *)
(***************************************************************************)
EXTENDS TLS, SequencesExt, Integers

CONSTANTS
    Scenarios,        \* configurations of the two ends to be explored
    Room,             \* what fits in a datagram
    Amplification,    \* datagrams sent for one received, 3 in the code
    MaxCredit,        \* bound on what the server may send, in datagrams
    MaxFaults         \* bound on datagrams lost or repeated and timers early

End == {"client", "server"}
Other(x) == CHOOSE y \in End : y # x

ASSUME RoomAssumption ==
    /\ {Room, Amplification, MaxCredit} \subseteq Nat \ {0}
    /\ MaxFaults \in Nat

None == "none"

\* What becomes of the first value in n steps.
Steps(Step(_, _), first, n) ==
    LET after[i \in 0..n] == IF i = 0 THEN first ELSE Step(after[i - 1], i)
    IN after[n]

\* What a configuration of the two ends consists of.
ASSUME ScenariosAssumption ==
    \A z \in Scenarios :
        /\ z.options \in [End -> [ticket : BOOLEAN, knows_ticket : BOOLEAN, tickets : BOOLEAN,
                                  request_certificate : BOOLEAN, certificate : BOOLEAN]]
        /\ z.original_version \in STRING
        /\ z.versions \in [End -> Seq(STRING \ {None})]
        /\ z.retry \in BOOLEAN

\* The two ends fit: they have a version in common, and a server that asks for a
\* certificate does not know the ticket of the client.
ASSUME ScenariosFit ==
    \A z \in Scenarios :
        /\ Range(z.versions["client"]) \cap Range(z.versions["server"]) # {}
        /\ ~(/\ z.options["client"].ticket
             /\ z.options["server"].knows_ticket
             /\ z.options["server"].request_certificate)

VARIABLES
    scenario,         \* what both ends are configured with
    conn,             \* the connection of each end
    net,              \* datagrams under way
    faults            \* what went wrong so far

vars == <<scenario, conn, net, faults>>

-----------------------------------------------------------------------------
(* Contents *)

\* A unit of an epoch: a message of the CRYPTO stream, HANDSHAKE_DONE or a PING.
Crypto(n, message) == [kind |-> "crypto", n |-> n, message |-> message]
Done == [kind |-> "handshake_done", n |-> 0, message |-> Message("none")]
Ping == [kind |-> "ping", n |-> -1, message |-> Message("none")]

\* Units by their numbers, a PING first.
InOrder(units) ==
    LET first(rest) == CHOOSE u \in rest : \A v \in rest : u.n =< v.n
        order[rest \in SUBSET units] ==
            IF rest = {} THEN <<>> ELSE <<first(rest)>> \o order[rest \ {first(rest)}]
    IN order[units]

IsCrypto(unit) == unit.kind = "crypto"
Size(unit) ==
    CASE unit.message.type \in {"client_hello", "certificate"} -> Room
      [] unit.message.type \in {"none", "certificate_request", "empty_certificate"} -> 0
      [] OTHER -> Room \div 2

Packet(units, ack) == [units |-> units, ack |-> ack]
EmptyPacket == Packet({}, {})
IsEmpty(packet) == packet = EmptyPacket

\* The connection of an end before it did anything.
NewConnection(x) ==
    [tls |-> NewContext(x = "client", scenario.options[x]),
     pending |-> [e \in Epoch |-> {}],     \* what a stream's sender has to send
     flight |-> [e \in Epoch |-> <<>>],    \* sent_packets, in the order sent
     overtaken |-> [e \in Epoch |-> {}],   \* in flight before one acknowledged
     received |-> [e \in Epoch |-> {}],    \* ack_queue and the stream's receiver
     handled |-> [e \in Epoch |-> 0],      \* messages given to TLS
     ack_at |-> {},                        \* spaces with an acknowledgement due
     discarded |-> {},
     state |-> "FIRSTFLIGHT",
     probe_pending |-> FALSE,
     crypto_retransmitted |-> FALSE,
     handshake_complete |-> FALSE,
     handshake_confirmed |-> FALSE,
     peer_completed_address_validation |-> x = "server",
     is_validated |-> x = "client",        \* of the network path
     credit |-> 0,                         \* bytes_received * 3 - bytes_sent
     cryptos_initial |-> None,             \* connection ID the keys come from
     version |-> scenario.original_version,
     peer_cid |-> "original",
     original_cid |-> "original",
     retry_source_cid |-> None,
     retry_count |-> 0,
     version_negotiated_compatible |-> FALSE,
     version_negotiated_incompatible |-> FALSE,
     failed |-> FALSE]                     \* a QuicConnectionError or an alert

-----------------------------------------------------------------------------
(* Keys and spaces *)

HasKey(st, direction, e) ==
    /\ e \notin st.discarded
    /\ IF e = "initial" THEN st.cryptos_initial # None ELSE <<direction, e>> \in st.tls.keys

_discard_epoch(st, e) ==
    IF e \in st.discarded THEN st
    ELSE [st EXCEPT !.discarded = @ \cup {e}, !.flight[e] = <<>>,
                    !.overtaken[e] = {}, !.ack_at = @ \ {e}]

\* _push_crypto_data: what TLS wrote beyond `before' is to be sent.
_push_crypto_data(st, before) ==
    LET new(e) == {Crypto(n, st.tls.out[e][n]) :
                      n \in (Len(before.out[e]) + 1)..Len(st.tls.out[e])}
    IN [st EXCEPT !.pending = [e \in Epoch |-> @[e] \cup new(e)]]

Units(sequence) == {sequence[i] : i \in DOMAIN sequence}
Without(sequence, units) ==
    Steps(LAMBDA kept, i : IF sequence[i] \in units THEN kept ELSE Append(kept, sequence[i]),
          <<>>, Len(sequence))

\* Units that were reported lost: CRYPTO and HANDSHAKE_DONE are sent again.
_on_packets_lost(st, e, units) ==
    [st EXCEPT !.flight[e] = Without(@, units),
               !.overtaken[e] = @ \ units,
               !.pending[e] = @ \cup (units \ {Ping})]

\* All CRYPTO in flight is taken for lost, and a probe is to be sent.
reschedule_data(st) ==
    LET crypto(e) == {u \in Units(st.flight[e]) : IsCrypto(u)}
        initial == _on_packets_lost(st, "initial", crypto("initial"))
        handshake == _on_packets_lost(initial, "handshake", crypto("handshake"))
        one_rtt == _on_packets_lost(handshake, "one_rtt", crypto("one_rtt"))
    IN [one_rtt EXCEPT !.probe_pending = TRUE]

rescheduleOnce(st) ==
    IF st.crypto_retransmitted THEN st
    ELSE [reschedule_data(st) EXCEPT !.crypto_retransmitted = TRUE]

-----------------------------------------------------------------------------
(* datagrams_to_send *)

\* What is written first in each epoch, whatever room there is: an ACK, and a
\* PING if a probe is due, nothing else is sent and no better epoch has keys.
Acknowledgement(st, e) == IF e \in st.ack_at THEN st.received[e] ELSE {}

Writable(st) ==
    {e \in Epoch : /\ HasKey(st, "encrypt", e)
                   /\ e # "one_rtt" => ~st.handshake_confirmed}

ProbeEpoch(st) ==
    CASE "one_rtt" \in Writable(st) /\ st.handshake_complete -> "one_rtt"
      [] "handshake" \in Writable(st) -> "handshake"
      [] OTHER -> "initial"

\* The units to be sent, in the order of the epochs and of the streams.
ToSend(st) ==
    LET sorted(e) == IF e \in Writable(st) THEN InOrder(st.pending[e]) ELSE <<>>
        of(e) == [i \in DOMAIN sorted(e) |-> <<e, sorted(e)[i]>>]
    IN of("initial") \o of("handshake") \o of("one_rtt")

\* The units are packed into datagrams, each as full as they let it be.
Fits(bin, unit) == MapThenSumSet(LAMBDA u : Size(u[2]), bin \cup {unit}) =< Room

Pack(units) ==
    LET add(bins, i) ==
            LET last == Len(bins)
            IN IF last > 0 /\ Fits(bins[last], units[i])
               THEN [bins EXCEPT ![last] = @ \cup {units[i]}]
               ELSE Append(bins, {units[i]})
    IN Steps(add, <<>>, Len(units))

Unpacked(bin, e) == {u[2] : u \in {v \in bin : v[1] = e}}

\* A datagram that has room for nothing but what each is opened with.
Wanted(bins, opens) == IF bins = <<>> /\ opens THEN <<{}>> ELSE bins

\* The packets of each datagram; the first has the acknowledgements and the PING.
Packets(st, bins, acks, pings) ==
    [i \in DOMAIN bins |-> [e \in Epoch |->
        Packet(Unpacked(bins[i], e) \cup (IF i = 1 /\ e \in pings THEN {Ping} ELSE {}),
               IF i = 1 /\ e \in acks THEN Acknowledgement(st, e) ELSE {})]]

\* The server stops when its credit for an unvalidated path is used up.
Allowed(st, packets) ==
    IF st.is_validated THEN packets ELSE SubSeq(packets, 1, Min({st.credit, Len(packets)}))

\* The datagrams that are sent, and what becomes of the connection.
Sent(x, st, packets) ==
    LET datagram(i) == [to |-> Other(x), kind |-> "packets", packets |-> packets[i],
                        initial_cid |-> st.cryptos_initial, version |-> st.version,
                        cid |-> st.peer_cid, token |-> st.retry_count > 0,
                        versions |-> <<>>]
        new(e) == UNION {packets[i][e].units : i \in DOMAIN packets}
        sent == [st EXCEPT
            !.flight = [e \in Epoch |-> Without(@[e], new(e)) \o InOrder(new(e))],
            !.overtaken = [e \in Epoch |-> @[e] \ new(e)],
            !.pending = [e \in Epoch |-> @[e] \ new(e)],
            !.ack_at = {e \in @ : \A i \in DOMAIN packets : packets[i][e].ack = {}},
            !.probe_pending = @ /\ packets = <<>>,
            !.credit = IF st.is_validated THEN 0 ELSE @ - Len(packets)]
        usesHandshake == \E i \in DOMAIN packets : ~IsEmpty(packets[i]["handshake"])
    IN [datagrams |-> {datagram(i) : i \in DOMAIN packets},
        st |-> IF x = "client" /\ usesHandshake
               THEN _discard_epoch(sent, "initial") ELSE sent]

datagrams_to_send(x, st) ==
    LET probes == st.probe_pending /\ ~(\E e \in Writable(st) :
                    \E u \in st.pending[e] : IsCrypto(u))
        acks == {e \in Writable(st) : Acknowledgement(st, e) # {}}
        bins == Wanted(Pack(ToSend(st)), acks # {} \/ probes)
        pings == IF probes THEN {ProbeEpoch(st)} ELSE {}
    IN Sent(x, st, Allowed(st, Packets(st, bins, acks, pings)))

-----------------------------------------------------------------------------
(* The start of a connection *)

\* A variant for the checks: the version is the one of the configuration.
TransportParametersStale(x, st) ==
    [chosen |-> scenario.original_version,
     available |-> scenario.versions[x],
     original |-> IF x = "server" THEN st.original_cid ELSE None,
     retry |-> IF x = "server" THEN st.retry_source_cid ELSE None]

\* _serialize_transport_parameters, of which the handshake depends on these.
TransportParameters(x, st) ==
    [chosen |-> st.version,
     available |-> scenario.versions[x],
     original |-> IF x = "server" THEN st.original_cid ELSE None,
     retry |-> IF x = "server" THEN st.retry_source_cid ELSE None]

\* _initialize: a new TLS context, new keys and new packet spaces.
_initialize(x, st, cid) ==
    LET new == NewConnection(x)
        tls == [new.tls EXCEPT !.handshake_extensions = TransportParameters(x, st)]
    IN [st EXCEPT !.tls = tls, !.cryptos_initial = cid,
                  !.pending = new.pending, !.flight = new.flight,
                  !.overtaken = new.overtaken, !.received = new.received,
                  !.handled = new.handled, !.ack_at = {}, !.discarded = {}]

_connect(st) ==
    LET initialized == _initialize("client", st, st.peer_cid)
    IN _push_crypto_data([initialized EXCEPT !.tls = _client_send_hello(@)],
                         initialized.tls)

\* What the asyncio server makes of an INITIAL packet for nobody it knows: the
\* address is validated if the packet returns a token.
NewServer(d) ==
    LET st == [NewConnection("server") EXCEPT
            !.is_validated = FALSE,
            !.version = d.version,
            !.retry_source_cid = IF d.token THEN d.cid ELSE None]
    IN _initialize("server", st, d.cid)

-----------------------------------------------------------------------------
(* receive_datagram *)

\* The first of the versions that is among others, if there is one.
FirstCommon(versions, others, otherwise) ==
    LET common == {i \in DOMAIN versions : versions[i] \in others}
    IN IF common = {} THEN otherwise ELSE versions[Min(common)]

\* A server goes over to the first version the client has that both support;
\* the versions of a model that both ends have are compatible.
Negotiated(st, extensions) ==
    FirstCommon(extensions.available, Range(scenario.versions["server"]) \cup {st.version},
                st.version)

\* _parse_transport_parameters: the version the peer chose is that of the packet,
\* and the IDs of the server's are those the client has seen.
ParametersHold(x, st, extensions, version) ==
    /\ extensions.chosen = version
    /\ x = "client" => /\ extensions.original = st.original_cid
                       /\ extensions.retry = st.retry_source_cid

\* _alpn_handler, called from the handler of the message with the extensions.
_alpn_handler(x, st, message, version) ==
    LET moved == IF x = "server"
                 THEN [st EXCEPT !.version = Negotiated(st, message.extensions),
                                 !.version_negotiated_compatible = TRUE]
                 ELSE st
    IN IF message.extensions = NoExtensions THEN st
       ELSE IF ~ParametersHold(x, st, message.extensions, version)
       THEN [st EXCEPT !.failed = TRUE]
       ELSE [moved EXCEPT !.tls.handshake_extensions = TransportParameters(x, moved)]

\* A variant for the checks: the client stays with the version of its offer.
UpdateTrafficKeyOnly(x, st, version) == st

\* The client takes the version of the packet that gave it keys.
_update_traffic_key(x, st, version) ==
    IF x = "client" /\ ~st.version_negotiated_compatible
    THEN [st EXCEPT !.version = version, !.version_negotiated_compatible = TRUE]
    ELSE st

\* A variant for the checks: a client discards its handshake keys as a server does.
CompletedAlike(x, st) ==
    IF st.handshake_complete \/ ~IsComplete(st.tls) THEN st
    ELSE LET complete == [_discard_epoch(st, "handshake") EXCEPT
                             !.handshake_complete = TRUE]
         IN IF x = "client" THEN complete
            ELSE [complete EXCEPT !.handshake_confirmed = TRUE,
                                  !.pending["one_rtt"] = @ \cup {Done}]

\* The end of the handshake, for a server also its confirmation.
Completed(x, st) ==
    LET complete == [st EXCEPT !.handshake_complete = TRUE]
    IN IF st.handshake_complete \/ ~IsComplete(st.tls) THEN st
       ELSE IF x = "client" THEN complete
       ELSE [_discard_epoch(complete, "handshake") EXCEPT
                 !.handshake_confirmed = TRUE,
                 !.pending["one_rtt"] = @ \cup {Done}]

HandleMessage(x, st, e, message, version) ==
    LET negotiated == _alpn_handler(x, st, message, version)
        tls == _handle_reassembled_message(negotiated.tls, message)
        updated == IF tls.keys # st.tls.keys
                   THEN _update_traffic_key(x, negotiated, version) ELSE negotiated
        handled == [updated EXCEPT !.tls = tls, !.failed = @ \/ tls.alert,
                                   !.handled[e] = @ + 1]
    IN Completed(x, _push_crypto_data(handled, st.tls))

\* The next message, once it has come.
HandleNext(x, st, e, version) ==
    LET next == {u \in st.received[e] : IsCrypto(u) /\ u.n = st.handled[e] + 1}
    IN IF st.failed \/ next = {} THEN st
       ELSE HandleMessage(x, st, e, (CHOOSE u \in next : TRUE).message, version)

\* Data that is not next in the stream is taken for a duplicate.
_handle_crypto_frame(x, st, e, unit, version) ==
    LET recorded == [st EXCEPT !.received[e] = @ \cup {unit}]
    IN IF unit.n = st.handled[e] + 1
       THEN Steps(LAMBDA s, i : HandleNext(x, s, e, version),
                  recorded, Cardinality(recorded.received[e]))
       ELSE IF x = "server" /\ e = "initial" THEN rescheduleOnce(recorded)
       ELSE recorded

_handle_ack_frame(st, e, ack) ==
    LET flight == st.flight[e]
        newest == {i \in DOMAIN flight : flight[i] \in ack}
        before == {flight[i] : i \in {j \in DOMAIN flight : \E k \in newest : j < k}}
    IN IF ack = {} THEN st
       ELSE [st EXCEPT !.peer_completed_address_validation =
                           @ \/ e \in {"handshake", "one_rtt"},
                       !.flight[e] = Without(@, ack),
                       !.overtaken[e] = (@ \cup before) \ ack]

_handle_handshake_done_frame(st) ==
    IF st.handshake_confirmed THEN st
    ELSE [_discard_epoch(st, "handshake") EXCEPT
             !.handshake_confirmed = TRUE,
             !.peer_completed_address_validation = TRUE]

HandleUnit(x, st, e, unit, version) ==
    IF st.failed \/ unit = Ping THEN st
    ELSE IF unit = Done THEN _handle_handshake_done_frame(st)
    ELSE _handle_crypto_frame(x, st, e, unit, version)

\* A packet that can be decrypted.
_payload_received(x, st, e, packet, version) ==
    LET discarded == IF x = "server" /\ e = "handshake"
                     THEN _discard_epoch(st, "initial") ELSE st
        connected == [discarded EXCEPT !.state = "CONNECTED", !.peer_cid = Other(x)]
        units == InOrder(packet.units)
        after == Steps(LAMBDA s, i : HandleUnit(x, s, e, units[i], version),
                       _handle_ack_frame(connected, e, packet.ack), Len(units))
    IN IF after.failed THEN after
       ELSE [after EXCEPT
                !.is_validated = @ \/ e = "handshake",
                !.received[e] = @ \cup packet.units,
                !.ack_at = IF packet.units # {} /\ e \notin after.discarded
                           THEN @ \cup {e} ELSE @]

ReceivePacket(x, st, d, e) ==
    LET packet == d.packets[e]
        wrongKey == e = "initial" /\ d.initial_cid # st.cryptos_initial
    IN IF IsEmpty(packet) \/ st.failed THEN st
       ELSE IF ~HasKey(st, "decrypt", e)
       THEN IF x = "client" /\ e # "initial" THEN rescheduleOnce(st) ELSE st
       ELSE IF wrongKey THEN st
       ELSE _payload_received(x, st, e, packet, d.version)

_receive_retry_packet(st, d) ==
    IF st.retry_count = 0 /\ d.initial_cid = st.peer_cid
    THEN _connect([st EXCEPT !.peer_cid = "retry", !.retry_count = 1,
                             !.retry_source_cid = "retry"])
    ELSE st

_receive_version_negotiation_packet(st, d) ==
    LET acts == /\ st.state = "FIRSTFLIGHT"
                /\ ~st.version_negotiated_incompatible
                /\ st.version \notin Range(d.versions)
        version == FirstCommon(scenario.versions["client"], Range(d.versions), None)
    IN IF ~acts THEN st
       ELSE IF version = None THEN [st EXCEPT !.failed = TRUE]
       ELSE _connect([st EXCEPT !.version = version,
                                !.version_negotiated_incompatible = TRUE])

\* The packets of a datagram are taken in their order.
receive_datagram(x, st, d) ==
    LET counted == IF st.is_validated THEN st
                   ELSE [st EXCEPT !.credit = Min({@ + Amplification, MaxCredit})]
        initial == ReceivePacket(x, counted, d, "initial")
        handshake == ReceivePacket(x, initial, d, "handshake")
    IN IF d.kind = "retry" THEN _receive_retry_packet(st, d)
       ELSE IF d.kind = "version_negotiation" THEN _receive_version_negotiation_packet(st, d)
       ELSE IF d.version \notin Range(scenario.versions[x]) THEN counted
       ELSE ReceivePacket(x, handshake, d, "one_rtt")

-----------------------------------------------------------------------------
(* Actions *)

Init ==
    /\ scenario \in Scenarios
    /\ conn = [x \in End |-> NewConnection(x)]
    /\ net = {}
    /\ faults = 0

Exists(x) == conn[x].cryptos_initial # None

\* transmit: what the connection has to send, over what is left of the network.
Transmit(x, st, left) ==
    LET sending == datagrams_to_send(x, st)
    IN /\ conn' = [conn EXCEPT ![x] = sending.st]
       /\ net' = left \cup sending.datagrams

Connect ==
    /\ ~Exists("client")
    /\ Transmit("client", _connect(conn["client"]), net)
    /\ UNCHANGED <<scenario, faults>>

\* The asyncio server: its answers that need no connection.
Answer(d, kind) ==
    [d EXCEPT !.to = "client", !.kind = kind, !.packets = [e \in Epoch |-> EmptyPacket],
              !.versions = scenario.versions["server"], !.token = FALSE,
              !.initial_cid = d.cid, !.cid = "client"]

IsNew(d) ==
    /\ ~(Exists("server") /\ d.cid \in {conn["server"].cryptos_initial, "server"})
    /\ ~IsEmpty(d.packets["initial"])

NegotiateVersion(d, left) ==
    /\ d.to = "server"
    /\ d.version \notin Range(scenario.versions["server"])
    /\ net' = left \cup {Answer(d, "version_negotiation")}
    /\ UNCHANGED conn

Retry(d, left) ==
    /\ d.to = "server"
    /\ d.version \in Range(scenario.versions["server"])
    /\ IsNew(d) /\ scenario.retry /\ ~d.token
    /\ net' = left \cup {Answer(d, "retry")}
    /\ UNCHANGED conn

Accept(d, left) ==
    /\ d.to = "server"
    /\ d.version \in Range(scenario.versions["server"])
    /\ IsNew(d) /\ (scenario.retry => d.token)
    /\ Transmit("server", receive_datagram("server", NewServer(d), d), left)

Process(d, left) ==
    /\ Exists(d.to)
    /\ d.to = "server" => /\ d.version \in Range(scenario.versions["server"])
                          /\ ~IsNew(d)
    /\ Transmit(d.to, receive_datagram(d.to, conn[d.to], d), left)

Handle(d, left) ==
    \/ NegotiateVersion(d, left)
    \/ Retry(d, left)
    \/ Accept(d, left)
    \/ Process(d, left)

Deliver(d) ==
    /\ Handle(d, net \ {d})
    /\ UNCHANGED <<scenario, faults>>

Fault ==
    /\ faults < MaxFaults
    /\ faults' = faults + 1
    /\ UNCHANGED scenario

Repeat(d) == Fault /\ Handle(d, net)

Lose(d) == Fault /\ net' = net \ {d} /\ UNCHANGED conn

\* A variant for the checks: armed only while something is in flight.
IsArmedInFlight(st) == \E e \in Epoch : st.flight[e] # <<>>

\* get_loss_detection_time: the timer is armed.
IsArmed(st) ==
    \/ ~st.peer_completed_address_validation
    \/ \E e \in Epoch : st.flight[e] # <<>>

on_loss_detection_timeout(st) ==
    IF \A e \in Epoch : st.overtaken[e] = {} THEN reschedule_data(st)
    ELSE LET e == CHOOSE i \in Epoch : st.overtaken[i] # {}
         IN _on_packets_lost(st, e, st.overtaken[e])

Expire(x) ==
    /\ Exists(x)
    /\ IsArmed(conn[x])
    /\ Transmit(x, on_loss_detection_timeout(conn[x]), net)

\* A timer is longer than the round trip when nothing goes wrong.
Timer(x) ==
    /\ net = {}
    /\ Expire(x)
    /\ UNCHANGED <<scenario, faults>>

EarlyTimer(x) ==
    /\ net # {}
    /\ Fault
    /\ Expire(x)

Next ==
    \/ Connect
    \/ \E d \in net : Deliver(d) \/ Repeat(d) \/ Lose(d)
    \/ \E x \in End : Timer(x) \/ EarlyTimer(x)

Spec == Init /\ [][Next]_vars

\* The loop runs what is due: a datagram that came, a timer that is over.  These
\* are WF_vars(Connect), WF_vars(\E d \in net : Deliver(d)) and, since what one end
\* does moves no deadline of the other, SF_vars(Timer(x)); with the conditions of
\* their guards for ENABLED and, for the actions, what tells their steps apart.
Due(x) == net = {} /\ Exists(x) /\ IsArmed(conn[x])
ConnectFairness == []<>Exists("client") \/ []<><<~Exists("client")>>_vars
DeliverFairness == []<>(net = {}) \/ []<><<net # {} /\ faults' = faults>>_vars
TimerFairness(x) == <>[]~Due(x) \/ []<><<Due(x) /\ conn'[x] # conn[x]>>_vars

FairSpec == /\ Spec
            /\ ConnectFairness
            /\ DeliverFairness
            /\ \A x \in End : TimerFairness(x)

-----------------------------------------------------------------------------
(* Properties *)

Failed == \E x \in End : conn[x].failed

\* Whatever the network does, two honest ends that fit raise no alert and no
\* QuicConnectionError: no message comes in a state that does not expect it, and
\* the connection IDs and the version in the transport parameters are those of
\* the packets, after a Retry or another version too.
NoError == ~Failed

\* An end that has discarded the keys of an epoch needs to send nothing more in
\* it: the peer has had all of the epoch's messages (_discard_epoch).
NothingStranded ==
    \A x \in End : \A e \in conn[x].discarded :
        conn[Other(x)].handled[e] >= Len(conn[x].tls.out[e])

\* Once both ends have completed the handshake they agree on the version, on
\* the resumption and on the acceptance of early data.
EndsAgree ==
    LET agreed(x) == <<conn[x].version, conn[x].tls.session_resumed,
                       conn[x].tls.early_data_accepted>>
    IN (\A x \in End : conn[x].handshake_complete) => agreed("client") = agreed("server")

\* Whatever was lost, repeated or late, the handshake is confirmed at both ends
\* and everything is acknowledged, so that the timers come to rest: no wait of
\* the server for credit and of the client for an answer stays for ever.
HandshakeCompletes ==
    <>[](\A x \in End : conn[x].handshake_confirmed /\ ~IsArmed(conn[x]))
=============================================================================
