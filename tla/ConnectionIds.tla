---------------------------- MODULE ConnectionIds ----------------------------
(***************************************************************************)
(* Connection IDs and network paths after the handshake: the two ends'     *)
(* QuicConnection of quic/connection.py, which issue, use and retire IDs   *)
(* and validate the path, the table by which the asyncio server finds the  *)
(* connection of a datagram, and a network that loses, repeats and         *)
(* reorders.  A connection ID is its sequence number at the end that       *)
(* issued it, a challenge is the address it was sent to.                   *)
(*                                                                         *)
(* The asyncio layer takes the events of the connection after a datagram   *)
(* or a timer and only then transmits, so what transmitting adds to the    *)
(* events waits for the next datagram or timer.                            *)
(***************************************************************************)
EXTENDS SequencesExt, FiniteSetsExt, Integers

CONSTANTS
    Limit,          \* active_connection_id_limit of both ends, 8 in the code
    MAX_PENDING_RETIRES,  \* 100 in the code
    Addresses,      \* where the client may be
    Home,           \* where it was during the handshake
    ServerPackets,        \* bound on the packets of the server
    ClientPackets,     \* bound on the packets of the client
    MaxRepeats      \* bound on the datagrams that come twice

ASSUME LimitAssumption == Limit \in Nat /\ Limit >= 2
ASSUME AddressAssumption == Home \in Addresses
ASSUME RetiresAssumption == MAX_PENDING_RETIRES \in Nat
ASSUME BoundAssumption == {ServerPackets, ClientPackets, MaxRepeats} \subseteq Nat

End == {"client", "server"}
Other(x) == CHOOSE y \in End : y # x
None == "none"
Reason == {None, "limit", "pending", "retire_unknown", "retire_current", "response"}

VARIABLES
    conn,           \* the connection of each end
    address,        \* where the client is
    net,            \* datagrams sent, any of which may never come
    routes,         \* _protocols of the server: IDs that lead to the connection
    repeats,
    history         \* for the properties: where the client had a challenge, and
                    \* the newest packet of the server's that is not a probe

vars == <<conn, address, net, routes, repeats, history>>

-----------------------------------------------------------------------------
(* The state of a connection *)

Path(addr, validated) ==
    [addr |-> addr, is_validated |-> validated,
     local_challenge_sent |-> FALSE, remote_challenges |-> <<>>]

Connection(x) ==
    [host_cids |-> 0..(Limit - 1),
     unsent |-> 1..(Limit - 1),             \* those whose was_sent is false
     host_cid_seq |-> Limit,
     host_cid |-> 0,                        \* the one the peer is taken to use
     peer_cid |-> 0,
     peer_cid_available |-> <<>>,
     peer_cid_sequence_numbers |-> {0},
     retire_connection_ids |-> <<>>,
     network_paths |-> <<Path(IF x = "server" THEN Home ELSE "server", TRUE)>>,
     local_challenges |-> {},
     largest_received_packet |-> -1,
     received |-> {},
     ack_at |-> FALSE,
     probe_pending |-> FALSE,
     packet_number |-> 0,
     sent_packets |-> {},
     events |-> <<>>,
     terminated |-> FALSE,
     failed |-> None]

Init ==
    /\ conn = [x \in End |-> Connection(x)]
    /\ address = Home
    /\ net = {}
    /\ routes = {0}
    /\ repeats = 0
    /\ history = [challenged |-> {}, newest |-> [pn |-> -1, addr |-> Home]]

-----------------------------------------------------------------------------
(* Own and peer connection IDs *)

_replenish_connection_ids(st) ==
    LET missing == Limit - Cardinality(st.host_cids)
        new == st.host_cid_seq..(st.host_cid_seq + missing - 1)
    IN [st EXCEPT !.host_cids = @ \cup new, !.unsent = @ \cup new,
                  !.host_cid_seq = @ + missing]

\* IDs in the order of their sequence numbers, in which they are kept.
InOrder(ids) ==
    CHOOSE s \in [1..Cardinality(ids) -> ids] : \A i, j \in DOMAIN s : i < j => s[i] < s[j]

\* The same of each item: the frames, or the events of the layer above.
Tagged(kind, items) == [i \in DOMAIN items |-> <<kind, items[i]>>]

change_connection_id(st) ==
    IF st.peer_cid_available = <<>> THEN st
    ELSE [st EXCEPT !.retire_connection_ids = Append(@, st.peer_cid),
                    !.peer_cid = Head(st.peer_cid_available),
                    !.peer_cid_available = Tail(@)]

\* How many retirements may wait to be sent when another ID comes.
MaxPending == Min({4 * Limit, MAX_PENDING_RETIRES})

\* A variant for the checks: a repeated frame is taken for a new ID.
HandleNewConnectionIdAgain(st, n) ==
    [st EXCEPT !.peer_cid_available = IF n \in Range(@) THEN @ ELSE Append(@, n)]

\* retire_prior_to is always 0 in what the code sends.
_handle_new_connection_id_frame(st, n) ==
    LET known == n \in st.peer_cid_sequence_numbers
        taken == [st EXCEPT !.peer_cid_sequence_numbers = @ \cup {n},
                            !.peer_cid_available = IF known THEN @ ELSE Append(@, n)]
    IN [taken EXCEPT !.failed =
            IF 1 + Len(taken.peer_cid_available) > Limit THEN "limit"
            ELSE IF Len(taken.retire_connection_ids) > MaxPending THEN "pending"
            ELSE @]

\* A variant for the checks: the server is not told that the ID is gone.
HandleRetireSilently(st, n, dcid) ==
    _replenish_connection_ids([st EXCEPT !.host_cids = @ \ {n}, !.unsent = @ \ {n}])

_handle_retire_connection_id_frame(st, n, dcid) ==
    IF n >= st.host_cid_seq THEN [st EXCEPT !.failed = "retire_unknown"]
    ELSE IF n \in st.host_cids /\ n = dcid THEN [st EXCEPT !.failed = "retire_current"]
    ELSE _replenish_connection_ids(
            [st EXCEPT !.host_cids = @ \ {n}, !.unsent = @ \ {n},
                       !.events = IF n \in st.host_cids THEN Append(@, <<"retired", n>>)
                                                        ELSE @])

-----------------------------------------------------------------------------
(* Paths *)

_handle_path_challenge_frame(st, i, challenge) ==
    [st EXCEPT !.network_paths[i].remote_challenges = Append(@, challenge)]

_handle_path_response_frame(st, challenge) ==
    LET path == CHOOSE i \in DOMAIN st.network_paths :
                    st.network_paths[i].addr = challenge
    IN IF challenge \notin st.local_challenges THEN [st EXCEPT !.failed = "response"]
       ELSE [st EXCEPT !.local_challenges = @ \ {challenge},
                       !.network_paths[path].is_validated = TRUE]

\* The place of the path of a datagram, new paths at the end.
PathOf(st, addr) ==
    IF \E i \in DOMAIN st.network_paths : st.network_paths[i].addr = addr
    THEN CHOOSE i \in DOMAIN st.network_paths : st.network_paths[i].addr = addr
    ELSE Len(st.network_paths) + 1

_find_network_path(st, addr) ==
    IF PathOf(st, addr) \in DOMAIN st.network_paths THEN st
    ELSE [st EXCEPT !.network_paths = Append(@, Path(addr, FALSE))]

\* A variant for the checks: late packets promote their path too.
PromoteAlways(st, i, pn, is_probing) ==
    IF i = 1 \/ is_probing THEN st
    ELSE [st EXCEPT !.network_paths = <<@[i]>> \o RemoveAt(@, i)]

Promote(st, i, pn, is_probing) ==
    IF i = 1 \/ is_probing \/ pn <= st.largest_received_packet THEN st
    ELSE [st EXCEPT !.network_paths = <<@[i]>> \o RemoveAt(@, i)]

-----------------------------------------------------------------------------
(* Packets *)

\* What a packet says; `data' stands for any frame that is not a probe.
IsAckEliciting(p) ==
    \/ p.new_cids # {} \/ p.retired # <<>> \/ p.responses # <<>>
    \/ p.challenge # None \/ p.data
IsProbing(p) == p.ack = {} /\ p.retired = <<>> /\ ~p.data
IsEmpty(p) == p.ack = {} /\ ~IsAckEliciting(p)

\* The challenge of a path is lost for good, as the answer is, when the packet
\* is: they have no delivery handler.
_on_packets_lost(st, lost) ==
    [st EXCEPT !.sent_packets = @ \ lost,
               !.unsent = @ \cup ((UNION {p.new_cids : p \in lost}) \cap st.host_cids),
               !.retire_connection_ids = @ \o
                    FlattenSeq(SetToSeq({p.retired : p \in lost}))]

\* on_ack_received, with any packets before the acknowledged ones lost.
_handle_ack_frame(st, ack, lost) ==
    LET acked == {p \in st.sent_packets : p.pn \in ack}
    IN _on_packets_lost([st EXCEPT !.sent_packets = @ \ acked], lost)

Overtaken(st, ack) ==
    {p \in st.sent_packets : p.pn \notin ack /\ \E n \in ack : p.pn < n}

\* datagrams_to_send: one packet with all that waits, or none; `acks' is whether
\* the acknowledgement is due.
Packet(x, st, addr, acks, data) ==
    LET path == Head(st.network_paths)
        challenges == ~path.is_validated /\ ~path.local_challenge_sent
    IN [from |-> x, pn |-> st.packet_number, dcid |-> st.peer_cid,
        addr |-> IF x = "client" THEN addr ELSE path.addr,
        ack |-> IF acks /\ st.ack_at THEN st.received ELSE {},
        challenge |-> IF challenges THEN path.addr ELSE None,
        responses |-> path.remote_challenges,
        new_cids |-> st.unsent,
        retired |-> st.retire_connection_ids,
        data |-> data \/ st.probe_pending]

\* The path, its challenge and its answers in the packet.
Probed(path, challenge) ==
    [path EXCEPT !.local_challenge_sent = @ \/ challenge # None, !.remote_challenges = <<>>]

Written(st, p) ==
    [st EXCEPT
        !.network_paths[1] = Probed(@, p.challenge),
        !.packet_number = @ + 1,
        !.sent_packets = IF IsAckEliciting(p)
            THEN @ \cup {[pn |-> p.pn, new_cids |-> p.new_cids, retired |-> p.retired]}
            ELSE @,
        !.ack_at = @ /\ p.ack = {},
        !.local_challenges = @ \cup ({p.challenge} \ {None}),
        !.unsent = {},
        !.retire_connection_ids = <<>>,
        !.probe_pending = FALSE,
        !.events = @ \o Tagged("issued", InOrder(p.new_cids))]

\* The frames of a packet after those that acknowledge and challenge.
Frames(p) ==
    Tagged("response", p.responses) \o Tagged("new", InOrder(p.new_cids))
        \o Tagged("retire", p.retired)

_handle_frame(st, frame, dcid) ==
    IF st.failed # None THEN st
    ELSE CASE frame[1] = "response" -> _handle_path_response_frame(st, frame[2])
           [] frame[1] = "new" -> _handle_new_connection_id_frame(st, frame[2])
           [] frame[1] = "retire" -> _handle_retire_connection_id_frame(st, frame[2], dcid)

\* receive_datagram for a packet that is decrypted.
_payload_received(st, i, p, lost) ==
    LET acked == _handle_ack_frame(st, p.ack, lost)
        challenged == IF p.challenge = None THEN acked
                      ELSE _handle_path_challenge_frame(acked, i, p.challenge)
        handle(s, frame) == _handle_frame(s, frame, p.dcid)
    IN FoldLeft(handle, challenged, Frames(p))

\* A server whose peer is seen to use another ID changes its own too.
Migrate(x, st, p) ==
    IF x = "server" /\ p.dcid # st.host_cid
    THEN change_connection_id([st EXCEPT !.host_cid = p.dcid])
    ELSE st

receive_datagram(x, st, p, lost) ==
    LET addr == IF x = "server" THEN p.addr ELSE "server"
        found == _find_network_path(st, addr)
        i == PathOf(found, addr)
        handled == _payload_received(found, i, p, lost)
        promoted == Promote(Migrate(x, handled, p), i, p.pn, IsProbing(p))
    IN IF handled.failed # None THEN handled
       ELSE [promoted EXCEPT
                !.largest_received_packet = Max({@, p.pn}),
                !.received = @ \cup {p.pn},
                !.ack_at = @ \/ IsAckEliciting(p)]

-----------------------------------------------------------------------------
(* The server's table *)

\* _connection_id_issued, _connection_id_retired and _connection_terminated.
Take(table, event) ==
    CASE event[1] = "issued" -> table \cup {event[2]}
      [] event[1] = "retired" -> table \ {event[2]}
      [] event[1] = "terminated" -> {}

_process_events(table, events) == FoldLeft(Take, table, events)

Collect(x, st) ==
    routes' = IF x = "server" THEN _process_events(routes, st.events) ELSE routes

\* transmit: what waits is sent, if there is something.
Transmit(x, st, acks, data) ==
    LET p == Packet(x, st, address, acks, data)
        silent == IsEmpty(p) \/ st.failed # None \/ st.terminated
        bound == IF x = "client" THEN ClientPackets ELSE ServerPackets
    IN /\ ~silent => st.packet_number < bound
       /\ conn' = [conn EXCEPT ![x] = IF silent THEN st ELSE Written(st, p)]
       /\ net' = IF silent THEN net ELSE net \cup {p}

-----------------------------------------------------------------------------
(* Actions *)

Open(x) == ~conn[x].terminated /\ conn[x].failed = None

\* An API call of the client or the server, with its transmit; acknowledgements
\* wait for their time or go along.
Use(x, st, data) ==
    /\ Open(x)
    /\ \E acks \in BOOLEAN : Transmit(x, st, acks, data)
    /\ UNCHANGED <<address, routes, repeats, history>>

Send(x) == Use(x, conn[x], TRUE)

ChangeConnectionId(x) ==
    /\ conn[x].peer_cid_available # <<>>
    /\ Use(x, change_connection_id(conn[x]), FALSE)

\* A router between client and server gives the client another address.
Rebind ==
    /\ \E addr \in Addresses \ {address} : address' = addr
    /\ UNCHANGED <<conn, net, routes, repeats, history>>

\* The client drops what is not for an ID it knows, the server's table what is
\* not for an ID it leads somewhere, as if the network had lost it.
Reaches(p) ==
    IF p.from = "server" THEN p.dcid \in conn["client"].host_cids /\ p.addr = address
    ELSE p.dcid \in routes

\* The acknowledgement of the packet waits for _ack_delay; one that was due
\* before may go along, when the loop is late.
Receive(x, p) ==
    /\ p.from = Other(x)
    /\ Open(x)
    /\ Reaches(p)
    /\ \E lost \in SUBSET Overtaken(conn[x], p.ack), acks \in {FALSE, conn[x].ack_at} :
        LET st == receive_datagram(x, conn[x], p, lost)
        IN /\ Transmit(x, [st EXCEPT !.events = <<>>], acks, FALSE)
           /\ Collect(x, st)
           /\ history' = [history EXCEPT
                !.challenged = IF p.challenge = None THEN @ ELSE @ \cup {address},
                !.newest = IF /\ x = "server" /\ st.failed = None
                              /\ ~IsProbing(p) /\ p.pn > @.pn
                           THEN [pn |-> p.pn, addr |-> p.addr] ELSE @]
    /\ UNCHANGED address

Deliver(x, p) ==
    /\ p.pn \notin conn[x].received
    /\ Receive(x, p)
    /\ UNCHANGED repeats

Repeat(x, p) ==
    /\ p.pn \in conn[x].received
    /\ repeats < MaxRepeats
    /\ repeats' = repeats + 1
    /\ Receive(x, p)

Expire(x, st, acks) ==
    /\ Open(x)
    /\ Transmit(x, [st EXCEPT !.events = <<>>], acks, FALSE)
    /\ Collect(x, st)
    /\ UNCHANGED <<address, repeats, history>>

AckTimer(x) == conn[x].ack_at /\ Expire(x, conn[x], TRUE)

\* The loss timer, armed while something is in flight: a probe is sent.
LossTimer(x) ==
    /\ conn[x].sent_packets # {}
    /\ \E acks \in BOOLEAN : Expire(x, [conn[x] EXCEPT !.probe_pending = TRUE], acks)

\* The server is done with the connection: _close_end in handle_timer.
Terminate ==
    /\ Open("server")
    /\ LET st == [conn["server"] EXCEPT !.events = Append(@, <<"terminated", 0>>),
                                        !.terminated = TRUE]
       IN /\ Collect("server", st)
          /\ conn' = [conn EXCEPT !["server"] = [st EXCEPT !.events = <<>>]]
    /\ UNCHANGED <<address, net, repeats, history>>

Next ==
    \/ Rebind
    \/ Terminate
    \/ \E x \in End :
        \/ Send(x)
        \/ ChangeConnectionId(x)
        \/ AckTimer(x)
        \/ LossTimer(x)
        \/ \E p \in net : Deliver(x, p) \/ Repeat(x, p)

Spec == Init /\ [][Next]_vars

-----------------------------------------------------------------------------
(* Properties *)

\* The IDs of its peer that an end has given up.
GivenUp(x) ==
    conn[x].peer_cid_sequence_numbers
        \ ({conn[x].peer_cid} \cup Range(conn[x].peer_cid_available))

\* IDs are lost and found: whatever is lost, repeated or late, every ID that an
\* end uses or may go over to is one that its peer answers to, and no end finds
\* the other's NEW_CONNECTION_ID or RETIRE_CONNECTION_ID frames in error, unless
\* it has given up more IDs than may wait to be retired: then losses can bring
\* so many of its own RETIRE_CONNECTION_ID frames back that the next ID is one
\* too many.
IdsAreKnown ==
    \A x \in End :
        /\ \/ conn[x].failed \in {None, "response"}
           \/ conn[x].failed = "pending" /\ Cardinality(GivenUp(x)) > MaxPending
        /\ {conn[x].peer_cid} \cup Range(conn[x].peer_cid_available)
            \subseteq conn[Other(x)].host_cids

\* The server's table is behind the connection by the events that wait, and by
\* nothing else: with them it leads from the IDs that were sent and not retired,
\* and it leads from none when the connection is gone.
TableFollowsIds ==
    LET server == conn["server"]
        sent == server.host_cids \ server.unsent
        table == _process_events(routes, server.events)
    IN IF server.terminated THEN routes = {}
       ELSE sent \subseteq table /\ table \subseteq server.host_cids

\* A path is validated only if the client had a challenge at its address, and
\* the path in use is that of the newest packet, unless it was only a probe.
PathsAreFollowed ==
    LET paths == conn["server"].network_paths
    IN /\ \A i \in DOMAIN paths :
            paths[i].is_validated => paths[i].addr \in {Home} \cup history.challenged
       /\ conn["server"].largest_received_packet = history.newest.pn
            => Head(paths).addr = history.newest.addr

\* "QUIC stack conforming with RFC 9000": a PATH_RESPONSE that answers a
\* challenge of the server is not found in error.
ResponseMatches == conn["server"].failed # "response"
=============================================================================
