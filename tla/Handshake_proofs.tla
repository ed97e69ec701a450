-------------------------- MODULE Handshake_proofs --------------------------
(***************************************************************************)
(* Proofs about Handshake.tla, for every room in a datagram, credit,       *)
(* number of faults and configurations that fit: neither end finds an      *)
(* error, what an end discards is not needed any more, and both agree.     *)
(* The invariant says of the two connections how far each is in what the   *)
(* other has written, and of each datagram what it may hold.               *)
(***************************************************************************)
EXTENDS Handshake, FoldLemmas, SequenceTheorems

-----------------------------------------------------------------------------
(* Types.                                                                  *)

MessageKind == {"none", "client_hello", "server_hello", "encrypted_extensions",
                "certificate_request", "certificate", "empty_certificate",
                "certificate_verify", "finished", "new_session_ticket"}
State == {"CLIENT_HANDSHAKE_START", "CLIENT_EXPECT_SERVER_HELLO",
          "CLIENT_EXPECT_ENCRYPTED_EXTENSIONS",
          "CLIENT_EXPECT_CERTIFICATE_REQUEST_OR_CERTIFICATE",
          "CLIENT_EXPECT_CERTIFICATE", "CLIENT_EXPECT_CERTIFICATE_VERIFY",
          "CLIENT_EXPECT_FINISHED", "CLIENT_POST_HANDSHAKE",
          "SERVER_EXPECT_CLIENT_HELLO", "SERVER_EXPECT_CERTIFICATE",
          "SERVER_EXPECT_CERTIFICATE_VERIFY", "SERVER_EXPECT_FINISHED",
          "SERVER_POST_HANDSHAKE"}
Cid == {None, "original", "retry", "client", "server"}

Parameters == [chosen : STRING, available : Seq(STRING \ {None}),
               original : Cid, retry : Cid]
Extensions == {NoExtensions} \cup Parameters
Messages == [type : MessageKind, psk : BOOLEAN, early : BOOLEAN, extensions : Extensions]
UnitType == [kind : {"crypto", "handshake_done", "ping"}, n : Int, message : Messages]
Options == [ticket : BOOLEAN, knows_ticket : BOOLEAN, tickets : BOOLEAN,
            request_certificate : BOOLEAN, certificate : BOOLEAN]

Outputs == [Epoch -> Seq(Messages)]
Contexts ==
    [is_client : BOOLEAN, options : Options, handshake_extensions : Extensions,
     state : State, keys : SUBSET Keys, session_resumed : BOOLEAN,
     early_data_accepted : BOOLEAN, certificate_request : BOOLEAN,
     out : Outputs, alert : BOOLEAN]

UnitSets == [Epoch -> SUBSET UnitType]
Flights == [Epoch -> Seq(UnitType)]
Counters == [Epoch -> Nat]
Connections ==
    [tls : Contexts, pending : UnitSets, flight : Flights, overtaken : UnitSets,
     received : UnitSets, handled : Counters, ack_at : SUBSET Epoch,
     discarded : SUBSET Epoch, state : {"FIRSTFLIGHT", "CONNECTED"}, probe_pending : BOOLEAN,
     crypto_retransmitted : BOOLEAN, handshake_complete : BOOLEAN,
     handshake_confirmed : BOOLEAN, peer_completed_address_validation : BOOLEAN,
     is_validated : BOOLEAN, credit : Nat, cryptos_initial : Cid, version : STRING,
     peer_cid : Cid, original_cid : Cid, retry_source_cid : Cid,
     retry_count : Nat, version_negotiated_compatible : BOOLEAN,
     version_negotiated_incompatible : BOOLEAN, failed : BOOLEAN]

PacketType == [units : SUBSET UnitType, ack : SUBSET UnitType]
DatagramType ==
    [to : End, kind : {"packets", "retry", "version_negotiation"},
     packets : [Epoch -> PacketType], initial_cid : Cid, version : STRING,
     cid : Cid, token : BOOLEAN, versions : Seq(STRING \ {None})]

-----------------------------------------------------------------------------
(* The invariant.                                                          *)

Supported(version) == version \in Range(scenario.versions["server"])
Resumes == scenario.options["client"].ticket /\ scenario.options["server"].knows_ticket
Requests == scenario.options["server"].request_certificate

\* What an end may have under way in an epoch.
Cryptos(st, e) == {Crypto(n, st.tls.out[e][n]) : n \in 1..Len(st.tls.out[e])}
Sendable(x, st, e) ==
    {Ping} \cup Cryptos(st, e)
           \cup (IF x = "server" /\ st.handshake_complete THEN {Done} ELSE {})

Own(x, st) ==
    \A e \in Epoch : /\ st.pending[e] \subseteq Sendable(x, st, e)
                     /\ Units(st.flight[e]) \subseteq Sendable(x, st, e)
                     /\ st.overtaken[e] \subseteq Sendable(x, st, e)

Heard(st, y, other) == \A e \in Epoch : st.received[e] \subseteq Sendable(y, other, e)

\* The messages of the two ends.
Hello(version) ==
    [Message("client_hello") EXCEPT
        !.psk = scenario.options["client"].ticket,
        !.early = scenario.options["client"].ticket,
        !.extensions = [chosen |-> version, available |-> scenario.versions["client"],
                        original |-> None, retry |-> None]]

ServerHello == [Message("server_hello") EXCEPT !.psk = Resumes]

EncryptedExtensions(s) ==
    [Message("encrypted_extensions") EXCEPT
        !.early = s.tls.early_data_accepted,
        !.extensions = TransportParameters("server", s)]

ServerFlight(s) ==
    IF Resumes THEN <<EncryptedExtensions(s), Message("finished")>>
    ELSE IF Requests
    THEN <<EncryptedExtensions(s), Message("certificate_request"), Message("certificate"),
           Message("certificate_verify"), Message("finished")>>
    ELSE <<EncryptedExtensions(s), Message("certificate"), Message("certificate_verify"),
           Message("finished")>>

ClientFlight ==
    IF ~Requests THEN <<Message("finished")>>
    ELSE IF scenario.options["client"].certificate
    THEN <<Message("certificate"), Message("certificate_verify"), Message("finished")>>
    ELSE <<Message("empty_certificate"), Message("finished")>>

\* What the client expects after k messages of the server's flight.
ClientState(k, flight) ==
    IF k = Len(flight) THEN "CLIENT_POST_HANDSHAKE"
    ELSE IF k = 0 THEN "CLIENT_EXPECT_ENCRYPTED_EXTENSIONS"
    ELSE IF flight[k + 1].type = "finished" THEN "CLIENT_EXPECT_FINISHED"
    ELSE IF flight[k + 1].type = "certificate_verify" THEN "CLIENT_EXPECT_CERTIFICATE_VERIFY"
    ELSE IF k = 1 THEN "CLIENT_EXPECT_CERTIFICATE_REQUEST_OR_CERTIFICATE"
    ELSE "CLIENT_EXPECT_CERTIFICATE"

\* What the server expects after k messages of the client's flight.
ServerState(k, flight) ==
    IF k = 0 THEN IF Requests THEN "SERVER_EXPECT_CERTIFICATE" ELSE "SERVER_EXPECT_FINISHED"
    ELSE IF k = Len(flight) THEN "SERVER_POST_HANDSHAKE"
    ELSE IF flight[k + 1].type = "certificate_verify" THEN "SERVER_EXPECT_CERTIFICATE_VERIFY"
    ELSE "SERVER_EXPECT_FINISHED"

\* The client before it has an answer, and with one.
ClientWaits(c) ==
    /\ c.tls.keys \subseteq {<<"encrypt", "zero_rtt">>}
    /\ c.handled = [e \in Epoch |-> 0]
    /\ c.tls.out["handshake"] = <<>> /\ c.tls.out["one_rtt"] = <<>>
    /\ ~c.handshake_complete /\ ~c.version_negotiated_compatible
    /\ ~c.tls.certificate_request
    /\ c.cryptos_initial = None => /\ c.tls.state = "CLIENT_HANDSHAKE_START"
                                   /\ c.tls.out["initial"] = <<>>
    /\ c.cryptos_initial # None => /\ c.tls.state = "CLIENT_EXPECT_SERVER_HELLO"
                                   /\ c.tls.out["initial"] = <<Hello(c.version)>>

ClientReads(c, s) ==
    LET flight == ServerFlight(s)
        k == c.handled["handshake"]
    IN /\ s.handled["initial"] = 1 /\ c.handled["initial"] = 1
       /\ Len(c.tls.out["initial"]) = 1 /\ c.tls.out["one_rtt"] = <<>>
       /\ c.tls.session_resumed = Resumes
       /\ c.version = s.version /\ c.version_negotiated_compatible
       /\ k =< Len(flight)
       /\ c.tls.state = ClientState(k, flight)
       /\ c.tls.certificate_request <=> \E i \in 1..k : flight[i].type = "certificate_request"
       /\ k > 0 => c.tls.early_data_accepted = s.tls.early_data_accepted
       /\ <<"encrypt", "handshake">> \in c.tls.keys => k > 0
       /\ <<"decrypt", "one_rtt">> \in c.tls.keys => k = Len(flight)
       /\ c.handshake_complete <=> k = Len(flight)
       /\ c.tls.out["handshake"] = IF k = Len(flight) THEN ClientFlight ELSE <<>>

\* The server before it has read the hello, and after it.
ServerWaits(s) ==
    /\ s.tls.keys = {}
    /\ s.handled = [e \in Epoch |-> 0]
    /\ s.tls.out = [e \in Epoch |-> <<>>]
    /\ ~s.handshake_complete
    /\ s.tls.state = "SERVER_EXPECT_CLIENT_HELLO"

ServerReads(s, c) ==
    LET flight == c.tls.out["handshake"]
        k == s.handled["handshake"]
    IN /\ s.handled["initial"] = 1
       /\ s.cryptos_initial # None /\ c.cryptos_initial # None
       /\ s.tls.out["initial"] = <<ServerHello>>
       /\ s.tls.out["handshake"] = ServerFlight(s)
       /\ \A i \in DOMAIN s.tls.out["one_rtt"] :
              s.tls.out["one_rtt"][i] = Message("new_session_ticket")
       /\ s.tls.session_resumed = Resumes
       /\ k =< Len(flight)
       /\ s.tls.state = ServerState(k, flight)
       /\ <<"decrypt", "one_rtt">> \in s.tls.keys => s.handshake_complete
       /\ s.handshake_complete <=> k > 0 /\ k = Len(flight)

\* Each end knows the IDs of the other; there is no server yet or it was given the
\* keys of the client, whose version it has.
InitialCid(c) == IF c.retry_count = 0 THEN "original" ELSE "retry"

Introduced(c, s) ==
    /\ c.retry_count \in {0, 1} /\ (c.retry_count = 1 => scenario.retry)
    /\ c.cryptos_initial \in {None, InitialCid(c)}
    /\ c.cryptos_initial = None => c.retry_count = 0
    /\ c.retry_source_cid = IF c.retry_count = 1 THEN "retry" ELSE None
    /\ c.original_cid = "original" /\ s.original_cid = "original"
    /\ c.peer_cid \in {InitialCid(c), "server"}
    /\ s.cryptos_initial = None =>
           /\ c.peer_cid = InitialCid(c)
           /\ c.received = [e \in Epoch |-> {}]
    /\ s.cryptos_initial # None =>
           /\ s.cryptos_initial = c.cryptos_initial
           /\ s.retry_source_cid = c.retry_source_cid
           /\ scenario.retry <=> c.retry_count = 1
           /\ Supported(c.version) /\ Supported(s.version)

\* Why the keys of an epoch may be gone.
Discards(c, s) ==
    /\ "initial" \in c.discarded \cup s.discarded => c.handled["initial"] = 1
    /\ "handshake" \in c.discarded \cup s.discarded => s.handshake_complete
    /\ "one_rtt" \notin c.discarded \cup s.discarded

\* What is due to the order of the messages.
Progress(c, s) ==
    /\ ~c.failed /\ ~s.failed
    /\ ~c.tls.alert /\ ~s.tls.alert
    /\ c.tls.options = scenario.options["client"]
    /\ s.tls.options = scenario.options["server"]
    /\ ClientWaits(c) \/ ClientReads(c, s)
    /\ ServerWaits(s) \/ ServerReads(s, c)

Pair(c, s) ==
    /\ c \in Connections /\ s \in Connections
    /\ Progress(c, s)
    /\ Own("client", c) /\ Own("server", s)
    /\ Heard(c, "server", s) /\ Heard(s, "client", c)
    /\ Introduced(c, s)
    /\ Discards(c, s)

\* A datagram for the server.  It counts when its keys are those of the client now and
\* its version is one the server has.
Counts(d, c) == d.initial_cid = c.cryptos_initial /\ Supported(d.version)

ForServer(d, c, s) ==
    /\ d.kind = "packets"
    /\ d.initial_cid \in {"original", "retry"}
    /\ d.cid \in {d.initial_cid, "server"}
    /\ d.cid = "server" => s.cryptos_initial # None
    /\ d.token <=> d.initial_cid = "retry"
    /\ d.initial_cid = "retry" => c.retry_count = 1
    /\ c.cryptos_initial # None
    /\ Supported(d.version) => Supported(c.version)
    /\ \A e \in Epoch : e # "initial" \/ Counts(d, c)
                            => d.packets[e].units \subseteq Sendable("client", c, e)
    /\ Counts(d, c) /\ s.handled["initial"] # 1 => d.version = c.version
    /\ ~IsEmpty(d.packets["handshake"]) => c.handled["initial"] = 1

\* A datagram for the client.
ForClient(d, s) ==
    /\ d.kind = "retry" => scenario.retry
    /\ d.kind = "version_negotiation" => d.versions = scenario.versions["server"]
    /\ d.kind = "packets" =>
           /\ s.cryptos_initial # None
           /\ \A e \in Epoch : d.packets[e].units \subseteq Sendable("server", s, e)
           /\ (\E e \in Epoch : \E u \in d.packets[e].units : IsCrypto(u))
                  => d.version = s.version

Datagram(d, c, s) ==
    /\ d \in DatagramType
    /\ d.to = "server" => ForServer(d, c, s)
    /\ d.to = "client" => ForClient(d, s)

\* A server that does not exist yet has received nothing.
Untouched(s) == s.cryptos_initial = None => s.received = [e \in Epoch |-> {}]

IInv ==
    /\ scenario \in Scenarios
    /\ \E c, s \in Connections :
          /\ conn = [x \in End |-> IF x = "client" THEN c ELSE s]
          /\ Pair(c, s) /\ Untouched(s)
          /\ \A d \in net : Datagram(d, c, s)

-----------------------------------------------------------------------------
(* What the operators on sequences of units give.                          *)

\* There are two ends.
LEMMA Ends == \A x \in End : x = "client" \/ x = "server"
BY DEF End

\* Each end is the other of the other.
LEMMA Others == Other("client") = "server" /\ Other("server") = "client"
<1>1. \E y \in End : y # "client"
      BY DEF End
<1>2. \E y \in End : y # "server"
      BY DEF End
<1>3. QED BY <1>1, <1>2 DEF Other, End

\* The three epochs.
LEMMA EpochsAre == /\ "initial" \in Epoch /\ "handshake" \in Epoch /\ "one_rtt" \in Epoch
                   /\ \A e \in Epoch : e = "initial" \/ e = "handshake" \/ e = "one_rtt"
BY DEF Epoch

\* The recursive function that stands in Without, and what is left of a sequence.
IsKept(f, sequence, units) ==
    f = [i \in 0..Len(sequence) |->
            IF i = 0 THEN <<>>
            ELSE IF sequence[i] \in units THEN f[i - 1]
            ELSE Append(f[i - 1], sequence[i])]

\* Without takes units out of a sequence and puts none in.
LEMMA WithoutIsPart ==
    ASSUME NEW U, NEW sequence \in Seq(U), NEW units
    PROVE  /\ Without(sequence, units) \in Seq(U)
           /\ Units(Without(sequence, units)) \subseteq Units(sequence)
<1> DEFINE n == Len(sequence)
           R == Units(sequence)
           V == Seq(R)
           step == [p \in (1..n) \X V |-> IF sequence[p[1]] \in units THEN p[2]
                                          ELSE Append(p[2], sequence[p[1]])]
           f == CHOOSE g : IsKept(g, sequence, units)
<1>1. n \in Nat /\ DOMAIN sequence = 1..n /\ \A i \in 1..n : sequence[i] \in R
      BY DEF Units
<1>2. <<>> \in V
      OBVIOUS
<1>3. step \in [(1..n) \X V -> V]
  <2>1. SUFFICES ASSUME NEW i \in 1..n, NEW v \in V
                 PROVE  (IF sequence[i] \in units THEN v ELSE Append(v, sequence[i])) \in V
        OBVIOUS
  <2>2. QED BY <1>1, <2>1
<1>4. PICK h \in [0..n -> V] :
          h[0] = <<>> /\ \A i \in 1..n : h[i] = step[<<i, h[i - 1]>>]
  <2> HIDE DEF n, V, step
  <2>1. Walks(n, V, <<>>, step) # {}
        BY <1>1, <1>2, <1>3, StepsExist
  <2>2. QED BY <2>1 DEF Walks
<1>5. \A i \in 1..n : h[i] = IF sequence[i] \in units THEN h[i - 1]
                             ELSE Append(h[i - 1], sequence[i])
  <2> SUFFICES ASSUME NEW i \in 1..n
               PROVE  h[i] = IF sequence[i] \in units THEN h[i - 1]
                             ELSE Append(h[i - 1], sequence[i])
      OBVIOUS
  <2>1. i - 1 \in 0..n
        BY <1>1
  <2>2. h[i - 1] \in V
        BY <2>1
  <2>3. h[i] = step[<<i, h[i - 1]>>]
        BY <1>4
  <2>4. QED BY <2>2, <2>3
<1>6. IsKept(h, sequence, units)
  <2> DEFINE G(g) == [i \in 0..n |-> IF i = 0 THEN <<>>
                                     ELSE IF sequence[i] \in units THEN g[i - 1]
                                     ELSE Append(g[i - 1], sequence[i])]
  <2>1. \A i \in 0..n : h[i] = G(h)[i]
    <3> SUFFICES ASSUME NEW i \in 0..n PROVE h[i] = G(h)[i]
        OBVIOUS
    <3>1. i = 0 \/ i \in 1..n
          BY <1>1
    <3> HIDE DEF n, V
    <3>2. QED BY <1>4, <1>5, <3>1
  <2>2. h = G(h)
        BY <2>1
  <2>3. QED BY <2>2 DEF IsKept
<1>7. IsKept(f, sequence, units)
      BY <1>6
<1>8. \A i \in 0..n : f[i] = IF i = 0 THEN <<>>
                             ELSE IF sequence[i] \in units THEN f[i - 1]
                             ELSE Append(f[i - 1], sequence[i])
  <2> HIDE DEF f
  <2> QED BY <1>7 DEF IsKept
<1>9. f[n] \in V
  <2> HIDE DEF f, R
  <2> DEFINE Good == {i \in 0..n : f[i] \in V}
  <2>1. 0 \in Good
    <3>1. 0 \in 0..n
          BY <1>1
    <3> HIDE DEF V, n
    <3>2. f[0] = <<>>
          BY <1>8, <3>1
    <3>3. QED BY <1>2, <3>1, <3>2
  <2>2. ASSUME NEW k \in 0..(n - 1), k \in Good PROVE k + 1 \in Good
    <3>1. k + 1 \in 0..n /\ k + 1 # 0 /\ (k + 1) - 1 = k /\ k + 1 \in 1..n
          BY <1>1
    <3>2. f[k + 1] = IF sequence[k + 1] \in units THEN f[k]
                     ELSE Append(f[k], sequence[k + 1])
          BY <1>8, <3>1
    <3>3. sequence[k + 1] \in R /\ f[k] \in V
          BY <1>1, <2>2, <3>1
    <3>4. f[k + 1] \in V
          BY <3>2, <3>3
    <3>5. QED BY <3>1, <3>4
  <2>3. n \in Good
    <3> HIDE DEF Good, n
    <3>1. \A k \in 0..n : k \in Good
          BY <1>1, <2>1, <2>2, InductionUpTo
    <3>2. QED BY <1>1, <3>1
  <2>4. QED BY <2>3
<1>10. Without(sequence, units) = f[n]
      BY DEF Without, Steps, IsKept
<1>11. R \subseteq U
      BY DEF Units
<1>12. \A q \in V : q \in Seq(U) /\ Units(q) \subseteq R
  <2> HIDE DEF R
  <2> SUFFICES ASSUME NEW q \in V PROVE q \in Seq(U) /\ Units(q) \subseteq R
      OBVIOUS
  <2>1. \A i \in DOMAIN q : q[i] \in R
        OBVIOUS
  <2>2. QED BY <1>11, <2>1 DEF Units
<1>13. QED BY <1>9, <1>10, <1>12

\* Some unit of every finite set of them has a least number.
LEMMA LeastUnit ==
    ASSUME NEW s \in SUBSET UnitType, IsFiniteSet(s), s # {}
    PROVE  \E u \in s : \A v \in s : u.n =< v.n
<1> DEFINE Good == {t \in SUBSET s : t # {} => \E u \in t : \A v \in t : u.n =< v.n}
<1>1. \A u \in s : u.n \in Int
      BY DEF UnitType
<1>2. {} \in Good
      OBVIOUS
<1>3. ASSUME NEW t \in SUBSET s, t # {}, \A x \in t : t \ {x} \in Good
      PROVE  t \in Good
  <2>1. PICK x \in t : TRUE
        BY <1>3
  <2>2. CASE t \ {x} = {}
        BY <1>1, <2>1, <2>2
  <2>3. CASE t \ {x} # {}
    <3>1. PICK u \in t \ {x} : \A v \in t \ {x} : u.n =< v.n
          BY <1>3, <2>1, <2>3
    <3>2. CASE u.n =< x.n
          BY <3>1, <3>2
    <3>3. CASE ~(u.n =< x.n)
      <4>1. \A v \in t : x.n =< v.n
            BY <1>1, <2>1, <3>1, <3>3
      <4>2. QED BY <2>1, <4>1
    <3>4. QED BY <3>2, <3>3
  <2>4. QED BY <2>2, <2>3
<1>4. s \in Good
  <2> HIDE DEF Good
  <2> QED BY <1>2, <1>3, AllSubsets
<1>5. QED BY <1>4

\* The recursive function that stands in InOrder.
First(rest) == CHOOSE u \in rest : \A v \in rest : u.n =< v.n
IsOrder(f, units) ==
    f = [rest \in SUBSET units |->
            IF rest = {} THEN <<>> ELSE <<First(rest)>> \o f[rest \ {First(rest)}]]

\* InOrder makes a sequence of units of the set.
LEMMA InOrderIsPart ==
    ASSUME NEW units \in SUBSET UnitType, IsFiniteSet(units)
    PROVE  InOrder(units) \in Seq(units)
<1> DEFINE V == Seq(units)
           pick == [s \in SUBSET units |-> First(s)]
           step == [p \in units \X V |-> <<p[1]>> \o p[2]]
           f == CHOOSE g : IsOrder(g, units)
<1>1. \A s \in SUBSET units : s # {} => First(s) \in s
  <2> SUFFICES ASSUME NEW s \in SUBSET units, s # {} PROVE First(s) \in s
      OBVIOUS
  <2>1. \E u \in s : \A v \in s : u.n =< v.n
        BY FS_Subset, LeastUnit
  <2>2. QED BY <2>1 DEF First
<1>2. \A s \in SUBSET units : pick[s] = First(s)
      OBVIOUS
<1>3. \A s \in SUBSET units : s # {} => pick[s] \in s
      BY <1>1, <1>2
<1>4. <<>> \in V
      OBVIOUS
<1>5. step \in [units \X V -> V]
  <2>1. ASSUME NEW u \in units, NEW v \in V PROVE <<u>> \o v \in V
        OBVIOUS
  <2>2. QED BY <2>1
<1>6. PICK it \in Iterations(units, V, <<>>, pick, step) : TRUE
  <2> HIDE DEF V, pick, step
  <2> QED BY <1>3, <1>4, <1>5, FoldExists
<1>7. /\ it \in [SUBSET units -> V]
      /\ it = [s \in SUBSET units |->
                  IF s = {} THEN <<>> ELSE step[<<pick[s], it[s \ {pick[s]}]>>]]
      BY <1>6 DEF Iterations
<1>8. ASSUME NEW s \in SUBSET units
      PROVE  it[s] = IF s = {} THEN <<>> ELSE <<First(s)>> \o it[s \ {First(s)}]
  <2>1. CASE s = {}
        BY <1>7, <2>1
  <2>2. CASE s # {}
    <3>1. pick[s] = First(s) /\ First(s) \in units
          BY <1>1, <1>2, <2>2
    <3>2. it[s \ {First(s)}] \in V
          BY <1>7
    <3>3. step[<<First(s), it[s \ {First(s)}]>>] = <<First(s)>> \o it[s \ {First(s)}]
          BY <3>1, <3>2
    <3>4. it[s] = step[<<pick[s], it[s \ {pick[s]}]>>]
      <4> HIDE DEF pick, step, V
      <4> QED BY <1>7, <2>2
    <3>5. QED BY <2>2, <3>1, <3>3, <3>4
  <2>3. QED BY <2>1, <2>2
<1>9. IsOrder(it, units)
  <2> DEFINE G(g) == [s \in SUBSET units |-> IF s = {} THEN <<>>
                                            ELSE <<First(s)>> \o g[s \ {First(s)}]]
  <2>1. it = G(it)
    <3> HIDE DEF V, pick, step
    <3>1. it = [s \in SUBSET units |-> it[s]]
          BY <1>7
    <3>2. QED BY <1>8, <3>1
  <2>2. QED BY <2>1 DEF IsOrder
<1>10. IsOrder(f, units)
      BY <1>9
<1>11. \A s \in SUBSET units :
          f[s] = IF s = {} THEN <<>> ELSE <<First(s)>> \o f[s \ {First(s)}]
  <2> HIDE DEF f
  <2> QED BY <1>10 DEF IsOrder
<1>12. units \in {s \in SUBSET units : f[s] \in V}
  <2> DEFINE Good == {s \in SUBSET units : f[s] \in V}
  <2> HIDE DEF f
  <2>1. {} \in Good
        BY <1>4, <1>11
  <2>2. ASSUME NEW s \in SUBSET units, s # {} /\ \A x \in s : s \ {x} \in Good
        PROVE  s \in Good
    <3>1. First(s) \in s
          BY <1>1, <2>2
    <3>2. s \ {First(s)} \in Good /\ First(s) \in units
          BY <2>2, <3>1
    <3>3. f[s] = <<First(s)>> \o f[s \ {First(s)}]
          BY <1>11, <2>2
    <3>4. f[s] \in V
          BY <3>2, <3>3
    <3>5. QED BY <3>4
  <2> HIDE DEF Good
  <2>3. units \in Good
        BY <2>1, <2>2, AllSubsets
  <2>4. QED BY <2>3 DEF Good
<1>13. InOrder(units) = f[units]
      BY DEF InOrder, IsOrder, First
<1>14. QED BY <1>12, <1>13

\* The recursive function that stands in Pack.
IsPacked(f, units) ==
    f = [i \in 0..Len(units) |->
            IF i = 0 THEN <<>>
            ELSE LET last == Len(f[i - 1])
                 IN IF last > 0 /\ Fits(f[i - 1][last], units[i])
                    THEN [f[i - 1] EXCEPT ![last] = @ \cup {units[i]}]
                    ELSE Append(f[i - 1], {units[i]})]

\* Pack makes bins of the units it is given.
LEMMA PackIsPart ==
    ASSUME NEW P, NEW units \in Seq(P)
    PROVE  Pack(units) \in Seq(SUBSET P)
<1> DEFINE n == Len(units)
           V == Seq(SUBSET P)
           Put(v, u) == IF Len(v) > 0 /\ Fits(v[Len(v)], u)
                        THEN [v EXCEPT ![Len(v)] = @ \cup {u}]
                        ELSE Append(v, {u})
           step == [p \in (1..n) \X V |-> Put(p[2], units[p[1]])]
           f == CHOOSE g : IsPacked(g, units)
<1>1. n \in Nat /\ \A i \in 1..n : units[i] \in P
      OBVIOUS
<1>2. <<>> \in V
      OBVIOUS
<1>3. ASSUME NEW v \in V, NEW u \in P PROVE Put(v, u) \in V
  <2>1. CASE Len(v) > 0 /\ Fits(v[Len(v)], u)
    <3>1. Len(v) \in 1..Len(v) /\ v[Len(v)] \cup {u} \in SUBSET P
          BY <2>1
    <3>2. [v EXCEPT ![Len(v)] = v[Len(v)] \cup {u}] \in V
          BY <3>1
    <3>3. QED BY <2>1, <3>2
  <2>2. CASE ~(Len(v) > 0 /\ Fits(v[Len(v)], u))
    <3>1. Append(v, {u}) \in V
          OBVIOUS
    <3>2. QED BY <2>2, <3>1
  <2>3. QED BY <2>1, <2>2
<1>4. step \in [(1..n) \X V -> V]
  <2> HIDE DEF V, Put
  <2> QED BY <1>1, <1>3
<1>5. PICK h \in [0..n -> V] :
          h[0] = <<>> /\ \A i \in 1..n : h[i] = step[<<i, h[i - 1]>>]
  <2> HIDE DEF n, V, step
  <2>1. Walks(n, V, <<>>, step) # {}
        BY <1>1, <1>2, <1>4, StepsExist
  <2>2. QED BY <2>1 DEF Walks
<1>6. \A i \in 1..n : h[i] = Put(h[i - 1], units[i])
  <2> HIDE DEF V, Put
  <2> SUFFICES ASSUME NEW i \in 1..n PROVE h[i] = Put(h[i - 1], units[i])
      OBVIOUS
  <2>1. i - 1 \in 0..n
        BY <1>1
  <2>2. h[i - 1] \in V
        BY <2>1
  <2>3. h[i] = step[<<i, h[i - 1]>>]
        BY <1>5
  <2>4. QED BY <2>2, <2>3
<1>7. IsPacked(h, units)
  <2> DEFINE G(g) == [i \in 0..n |-> IF i = 0 THEN <<>> ELSE Put(g[i - 1], units[i])]
  <2>1. \A i \in 0..n : h[i] = G(h)[i]
    <3> SUFFICES ASSUME NEW i \in 0..n PROVE h[i] = G(h)[i]
        OBVIOUS
    <3>1. i = 0 \/ i \in 1..n
          BY <1>1
    <3> HIDE DEF n, V, Put
    <3>2. QED BY <1>5, <1>6, <3>1
  <2>2. h = G(h)
    <3> HIDE DEF V, Put
    <3> QED BY <2>1
  <2>3. QED BY <2>2 DEF IsPacked
<1>8. IsPacked(f, units)
      BY <1>7
<1>9. \A i \in 0..n : f[i] = IF i = 0 THEN <<>> ELSE Put(f[i - 1], units[i])
  <2> HIDE DEF f
  <2> QED BY <1>8 DEF IsPacked
<1>10. f[n] \in V
  <2> HIDE DEF f, Put
  <2> DEFINE Good == {i \in 0..n : f[i] \in V}
  <2>1. 0 \in Good
    <3>1. 0 \in 0..n
          BY <1>1
    <3> HIDE DEF V, n
    <3>2. f[0] = <<>>
          BY <1>9, <3>1
    <3>3. QED BY <1>2, <3>1, <3>2
  <2>2. ASSUME NEW k \in 0..(n - 1), k \in Good PROVE k + 1 \in Good
    <3>1. k + 1 \in 0..n /\ k + 1 # 0 /\ (k + 1) - 1 = k /\ k + 1 \in 1..n
          BY <1>1
    <3> HIDE DEF V, n
    <3>2. f[k + 1] = Put(f[k], units[k + 1])
          BY <1>9, <3>1
    <3>3. units[k + 1] \in P /\ f[k] \in V
          BY <1>1, <2>2, <3>1
    <3>4. f[k + 1] \in V
          BY <1>3, <3>2, <3>3
    <3>5. QED BY <3>1, <3>4
  <2>3. n \in Good
    <3> HIDE DEF Good, n
    <3>1. \A k \in 0..n : k \in Good
          BY <1>1, <2>1, <2>2, InductionUpTo
    <3>2. QED BY <1>1, <3>1
  <2>4. QED BY <2>3
<1>11. Pack(units) = f[n]
      BY DEF Pack, Steps, IsPacked
<1>12. QED BY <1>10, <1>11

-----------------------------------------------------------------------------
(* What an end may have under way.                                         *)

\* A message of a kind is a message, of that kind, without a ticket and without
\* parameters.
LEMMA MessageType ==
    ASSUME NEW type \in MessageKind
    PROVE  /\ Message(type) \in Messages
           /\ Message(type).type = type /\ ~Message(type).psk
           /\ ~Message(type).early /\ Message(type).extensions = NoExtensions
BY DEF Message, Messages, Extensions

\* A PING, a HANDSHAKE_DONE and pieces of CRYPTO are units, and none is another.
LEMMA UnitTypes ==
    /\ Ping \in UnitType /\ Done \in UnitType /\ Ping # Done
    /\ ~IsCrypto(Ping) /\ ~IsCrypto(Done)
    /\ \A n \in Int : \A m \in Messages :
          /\ Crypto(n, m) \in UnitType /\ IsCrypto(Crypto(n, m))
          /\ Crypto(n, m).n = n /\ Crypto(n, m).message = m
<1>1. Message("none") \in Messages
      BY MessageType DEF MessageKind
<1>2. Ping \in UnitType /\ Done \in UnitType
  <2>1. -1 \in Int /\ 0 \in Int
        OBVIOUS
  <2> HIDE DEF Messages
  <2>2. [kind |-> "ping", n |-> -1, message |-> Message("none")] \in UnitType
        BY <1>1, <2>1 DEF UnitType
  <2>3. [kind |-> "handshake_done", n |-> 0, message |-> Message("none")] \in UnitType
        BY <1>1, <2>1 DEF UnitType
  <2>4. QED BY <2>2, <2>3 DEF Ping, Done
<1>3. Ping.kind = "ping" /\ Done.kind = "handshake_done"
      BY DEF Ping, Done
<1>4. Ping # Done /\ ~IsCrypto(Ping) /\ ~IsCrypto(Done)
      BY <1>3 DEF IsCrypto
<1>5. ASSUME NEW n \in Int, NEW m \in Messages
      PROVE  /\ Crypto(n, m) \in UnitType /\ IsCrypto(Crypto(n, m))
             /\ Crypto(n, m).n = n /\ Crypto(n, m).message = m
      BY DEF Crypto, UnitType, IsCrypto
<1>6. QED BY <1>2, <1>4, <1>5

\* What the messages of an end are, by their numbers; all others are not CRYPTO.
LEMMA SendableUnits ==
    ASSUME NEW st \in Connections, NEW e \in Epoch, NEW x, NEW u \in Sendable(x, st, e)
    PROVE  /\ IsCrypto(u) <=> u \in Cryptos(st, e)
           /\ IsCrypto(u) => /\ u.n \in 1..Len(st.tls.out[e])
                             /\ u.message = st.tls.out[e][u.n]
           /\ ~IsCrypto(u) => \/ u = Ping
                              \/ u = Done /\ x = "server" /\ st.handshake_complete
<1>1. st.tls.out[e] \in Seq(Messages)
      BY DEF Connections, Contexts, Outputs
<1>2. \A n \in 1..Len(st.tls.out[e]) : st.tls.out[e][n] \in Messages /\ n \in Int
      BY <1>1
<1>3. \A v \in Cryptos(st, e) : IsCrypto(v) /\ v.n \in 1..Len(st.tls.out[e])
                                /\ v.message = st.tls.out[e][v.n]
      BY <1>2, UnitTypes DEF Cryptos
<1>4. QED BY <1>3, UnitTypes DEF Sendable

\* What an end may have under way is a finite set of units.
LEMMA SendableType ==
    ASSUME NEW st \in Connections, NEW e \in Epoch, NEW x
    PROVE  /\ Sendable(x, st, e) \in SUBSET UnitType
           /\ IsFiniteSet(Sendable(x, st, e))
           /\ Ping \in Sendable(x, st, e)
<1>1. st.tls.out[e] \in Seq(Messages)
      BY DEF Connections, Contexts, Outputs
<1>2. \A n \in 1..Len(st.tls.out[e]) : st.tls.out[e][n] \in Messages /\ n \in Int
      BY <1>1
<1>3. Sendable(x, st, e) \in SUBSET UnitType
      BY <1>2, UnitTypes DEF Cryptos, Sendable
<1>4. IsFiniteSet(Cryptos(st, e))
  <2>1. IsFiniteSet(1..Len(st.tls.out[e]))
        BY <1>1, FS_Interval
  <2> DEFINE f == [n \in 1..Len(st.tls.out[e]) |-> Crypto(n, st.tls.out[e][n])]
  <2>2. f \in Surjection(1..Len(st.tls.out[e]), Cryptos(st, e))
        BY DEF Surjection, Cryptos
  <2> HIDE DEF f
  <2>3. QED BY <2>1, <2>2, FS_Surjection
<1>5. IsFiniteSet({Ping} \cup Cryptos(st, e))
      BY <1>4, FS_Singleton, FS_Union
<1>6. IsFiniteSet(IF x = "server" /\ st.handshake_complete THEN {Done} ELSE {})
      BY FS_Singleton, FS_EmptySet
<1>7. IsFiniteSet(Sendable(x, st, e))
      BY <1>5, <1>6, FS_Union DEF Sendable
<1>8. QED BY <1>3, <1>7 DEF Sendable

\* An output grows when messages are added after those that it has.
OutputGrows(a, b) ==
    \A e \in Epoch : /\ Len(a[e]) =< Len(b[e])
                     /\ \A n \in 1..Len(a[e]) : b[e][n] = a[e][n]

\* An end that writes more and does not become incomplete may have no less under
\* way.
LEMMA SendableGrows ==
    ASSUME NEW st \in Connections, NEW st2 \in Connections, NEW x,
           OutputGrows(st.tls.out, st2.tls.out),
           st.handshake_complete => st2.handshake_complete
    PROVE  \A e \in Epoch : Sendable(x, st, e) \subseteq Sendable(x, st2, e)
<1> SUFFICES ASSUME NEW e \in Epoch PROVE Sendable(x, st, e) \subseteq Sendable(x, st2, e)
    OBVIOUS
<1>1. st.tls.out[e] \in Seq(Messages) /\ st2.tls.out[e] \in Seq(Messages)
      BY DEF Connections, Contexts, Outputs
<1>2. Cryptos(st, e) \subseteq Cryptos(st2, e)
  <2>1. \A n \in 1..Len(st.tls.out[e]) : n \in 1..Len(st2.tls.out[e])
                                         /\ st2.tls.out[e][n] = st.tls.out[e][n]
        BY <1>1 DEF OutputGrows
  <2>2. QED BY <2>1 DEF Cryptos
<1>3. QED BY <1>2 DEF Sendable

-----------------------------------------------------------------------------
(* What a step of one end leaves of what is known of the two.              *)

\* The two connections, of which x's is st.
Matched(x, st, other) == IF x = "client" THEN Pair(st, other) ELSE Pair(other, st)

\* What tells how far a connection is is the same.
SameCourse(a, b) ==
    /\ b.tls = a.tls /\ b.handled = a.handled
    /\ b.handshake_complete = a.handshake_complete /\ b.failed = a.failed
    /\ b.cryptos_initial = a.cryptos_initial /\ b.version = a.version
    /\ b.original_cid = a.original_cid /\ b.retry_source_cid = a.retry_source_cid
    /\ b.retry_count = a.retry_count
    /\ b.version_negotiated_compatible = a.version_negotiated_compatible

\* A step that changes only what is under way from x.
Quiet(x, a, b) ==
    /\ b \in Connections
    /\ SameCourse(a, b)
    /\ b.discarded = a.discarded /\ b.received = a.received /\ b.peer_cid = a.peer_cid
    /\ Own(x, b)

\* What only grows in a connection.
Advances(x, a, b) ==
    /\ \A e \in Epoch : Sendable(x, a, e) \subseteq Sendable(x, b, e)
    /\ b.cryptos_initial = a.cryptos_initial /\ b.retry_count = a.retry_count
    /\ a.handshake_complete => b.handshake_complete
    /\ a.handled["initial"] = 1 => b.handled["initial"] = 1 /\ b.version = a.version
    /\ b.handled["initial"] # 1 => b.version = a.version

\* What advances from one state to a second and on to a third advances.
LEMMA AdvancesFurther ==
    ASSUME NEW x, NEW a, NEW b, NEW c, Advances(x, a, b), Advances(x, b, c)
    PROVE  Advances(x, a, c)
BY DEF Advances

\* An end that changed nothing the other relies on advances.
LEMMA StandingStill ==
    ASSUME NEW x, NEW a \in Connections, NEW b \in Connections, SameCourse(a, b)
    PROVE  /\ Advances(x, a, b)
           /\ \A e \in Epoch : Sendable(x, b, e) = Sendable(x, a, e)
<1>1. \A e \in Epoch : Sendable(x, b, e) = Sendable(x, a, e)
      BY DEF SameCourse, Sendable, Cryptos
<1>2. QED BY <1>1 DEF SameCourse, Advances

\* What is under way from x is as it was, and so is what it may have under way.
LEMMA OwnKept ==
    ASSUME NEW x, NEW a \in Connections, NEW b \in Connections, SameCourse(a, b), Own(x, a),
           b.pending = a.pending, b.flight = a.flight, b.overtaken = a.overtaken
    PROVE  Own(x, b)
<1>1. \A i \in Epoch : Sendable(x, b, i) = Sendable(x, a, i)
      BY StandingStill
<1>2. ASSUME NEW i \in Epoch
      PROVE  /\ b.pending[i] \subseteq Sendable(x, b, i)
             /\ Units(b.flight[i]) \subseteq Sendable(x, b, i)
             /\ b.overtaken[i] \subseteq Sendable(x, b, i)
  <2>1. Sendable(x, b, i) = Sendable(x, a, i)
        BY <1>1
  <2>2. /\ a.pending[i] \subseteq Sendable(x, a, i)
        /\ Units(a.flight[i]) \subseteq Sendable(x, a, i)
        /\ a.overtaken[i] \subseteq Sendable(x, a, i)
        BY DEF Own
  <2>3. QED BY <2>1, <2>2
<1>3. QED BY ONLY <1>2, Zenon DEF Own

\* What an end has heard depends on what it has received and on nothing else of
\* it.
LEMMA HeardKept ==
    ASSUME NEW y, NEW a, NEW b, NEW other, Heard(a, y, other), b.received = a.received
    PROVE  Heard(b, y, other)
<1>1. ASSUME NEW e \in Epoch PROVE b.received[e] \subseteq Sendable(y, other, e)
      BY DEF Heard
<1>2. QED BY <1>1, Zenon DEF Heard

\* Two quiet steps are a quiet one.
LEMMA QuietFurther ==
    ASSUME NEW x, NEW a, NEW b, NEW c, Quiet(x, a, b), Quiet(x, b, c)
    PROVE  Quiet(x, a, c)
BY DEF Quiet, SameCourse

\* Progress does not see what a quiet step changes.
LEMMA ProgressKept ==
    ASSUME NEW a \in Connections, NEW b \in Connections, SameCourse(a, b), NEW st
    PROVE  /\ Progress(a, st) => Progress(b, st)
           /\ Progress(st, a) => Progress(st, b)
<1>1. ServerFlight(b) = ServerFlight(a)
      BY DEF SameCourse, ServerFlight, EncryptedExtensions, TransportParameters
<1>2. ClientWaits(a) => ClientWaits(b)
      BY DEF SameCourse, ClientWaits
<1>3. /\ ClientReads(a, st) => ClientReads(b, st)
      /\ ClientReads(st, a) => ClientReads(st, b)
  <2> USE DEF SameCourse
  <2>1. ClientReads(a, st) => ClientReads(b, st)
        BY DEF ClientReads
  <2>2. ClientReads(st, a) => ClientReads(st, b)
        BY <1>1 DEF ClientReads
  <2>3. QED BY <2>1, <2>2
<1>4. ServerWaits(a) => ServerWaits(b)
      BY DEF SameCourse, ServerWaits
<1>5. /\ ServerReads(a, st) => ServerReads(b, st)
      /\ ServerReads(st, a) => ServerReads(st, b)
  <2> USE DEF SameCourse
  <2>1. ServerReads(a, st) => ServerReads(b, st)
        BY <1>1 DEF ServerReads
  <2>2. ServerReads(st, a) => ServerReads(st, b)
        BY DEF ServerReads
  <2>3. QED BY <2>1, <2>2
<1>6. b.failed = a.failed /\ b.tls = a.tls
      BY DEF SameCourse
<1>7. Progress(a, st) => Progress(b, st)
      BY <1>2, <1>3, <1>5, <1>6 DEF Progress
<1>8. Progress(st, a) => Progress(st, b)
      BY <1>3, <1>4, <1>5, <1>6 DEF Progress
<1>9. QED BY <1>7, <1>8

\* What may be changed beside the course: the keys of epochs that were left, what was
\* received, and the client learns the ID of the server.
LEMMA MatchedKept ==
    ASSUME NEW x \in End, NEW a, NEW other, Matched(x, a, other),
           NEW b \in Connections, SameCourse(a, b), Own(x, b), Heard(b, Other(x), other),
           other.cryptos_initial = None => b.received = a.received,
           x = "client" => \/ b.peer_cid = a.peer_cid
                           \/ b.peer_cid = "server" /\ other.cryptos_initial # None,
           \A e \in b.discarded :
               \/ e \in a.discarded
               \/ e = "initial" /\ (IF x = "client" THEN a ELSE other).handled["initial"] = 1
               \/ /\ e = "handshake"
                  /\ (IF x = "client" THEN other ELSE a).handshake_complete
    PROVE  Matched(x, b, other) /\ Advances(x, a, b)
<1>1. a \in Connections
      BY DEF Matched, Pair
<1>2. Advances(x, a, b) /\ \A e \in Epoch : Sendable(x, b, e) = Sendable(x, a, e)
      BY <1>1, StandingStill
<1>3. CASE x = "client"
  <2>1. Pair(a, other) /\ Other(x) = "server"
        BY <1>3, Others DEF Matched
  <2>2. Progress(b, other)
        BY <1>1, <2>1, ProgressKept DEF Pair
  <2>3. Heard(other, "client", b)
        BY <1>2, <1>3, <2>1 DEF Pair, Heard
  <2>4. Introduced(b, other)
        BY <1>3, <2>1 DEF Pair, Introduced, SameCourse, InitialCid
  <2>5. Discards(b, other)
        BY <1>3, <2>1 DEF Pair, Discards, SameCourse
  <2>6. Pair(b, other)
        BY <1>3, <2>1, <2>2, <2>3, <2>4, <2>5 DEF Pair
  <2>7. QED BY <1>2, <1>3, <2>6 DEF Matched
<1>4. CASE x = "server"
  <2>1. Pair(other, a) /\ Other(x) = "client" /\ x # "client"
        BY <1>4, Others DEF Matched
  <2>2. Progress(other, b)
        BY <1>1, <2>1, ProgressKept DEF Pair
  <2>3. Heard(other, "server", b)
        BY <1>2, <1>4, <2>1 DEF Pair, Heard
  <2>4. Introduced(other, b)
        BY <1>4, <2>1 DEF Pair, Introduced, SameCourse, InitialCid
  <2>5. Discards(other, b)
        BY <1>4, <2>1 DEF Pair, Discards, SameCourse
  <2>6. Pair(other, b)
        BY <1>4, <2>1, <2>2, <2>3, <2>4, <2>5 DEF Pair
  <2>7. QED BY <1>2, <2>1, <2>6 DEF Matched
<1>5. QED BY <1>3, <1>4, Ends

\* A quiet step keeps an end matched with the other.
LEMMA MatchedQuiet ==
    ASSUME NEW x \in End, NEW a, NEW other, Matched(x, a, other), NEW b, Quiet(x, a, b)
    PROVE  Matched(x, b, other) /\ Advances(x, a, b)
<1>1. Heard(a, Other(x), other) /\ x \in {"client", "server"}
      BY Others, Ends DEF Matched, Pair
<1>2. Heard(b, Other(x), other)
      BY <1>1 DEF Heard, Quiet
<1>3. QED BY <1>2, MatchedKept DEF Quiet

\* What is known of a datagram when x's connection is st.
Known(x, d, st, other) == IF x = "client" THEN Datagram(d, st, other) ELSE Datagram(d, other, st)

\* It stays so when x advances, whether the datagram is for x or from it.
LEMMA DatagramStays ==
    ASSUME NEW x \in End, NEW a, NEW b, NEW other, Matched(x, a, other),
           Matched(x, b, other), Advances(x, a, b), NEW d, Known(x, d, a, other)
    PROVE  Known(x, d, b, other)
<1>1. CASE x = "client"
  <2>1. Pair(a, other) /\ Pair(b, other) /\ Datagram(d, a, other)
        BY <1>1 DEF Matched, Known
  <2>2. ASSUME d.to = "server", ForServer(d, a, other) PROVE ForServer(d, b, other)
    <3>1. other.handled["initial"] # 1 => b.version = a.version
      <4>1. b.handled["initial"] = 1 => ClientReads(b, other)
            BY <2>1, EpochsAre DEF Pair, Progress, ClientWaits
      <4>2. QED BY <1>1, <4>1 DEF ClientReads, Advances
    <3>2. Counts(d, b) <=> Counts(d, a)
          BY DEF Counts, Advances
    <3>3. Supported(a.version) => Supported(b.version)
      <4>1. other.cryptos_initial # None => Supported(b.version)
            BY <2>1 DEF Pair, Introduced
      <4>2. other.cryptos_initial = None => ServerWaits(other)
            BY <2>1 DEF Pair, Progress, ServerReads
      <4>3. QED BY <3>1, <4>1, <4>2, EpochsAre DEF ServerWaits
    <3>4. QED BY <1>1, <2>2, <3>1, <3>2, <3>3, EpochsAre DEF ForServer, Advances
  <2>3. QED BY <1>1, <2>1, <2>2 DEF Datagram, Known
<1>2. CASE x = "server"
  <2>1. Pair(other, a) /\ Pair(other, b) /\ Datagram(d, other, a)
        BY <1>2 DEF Matched, Known
  <2>2. ASSUME d.to = "server", ForServer(d, other, a) PROVE ForServer(d, other, b)
        BY <1>2, <2>2 DEF ForServer, Advances
  <2>3. ASSUME d.to = "client", ForClient(d, a) PROVE ForClient(d, b)
    <3>1. ASSUME d.kind = "packets", NEW e \in Epoch, NEW u \in d.packets[e].units, IsCrypto(u)
          PROVE  d.version = b.version
      <4>1. u \in Sendable("server", a, e) /\ d.version = a.version /\ a \in Connections
            BY <2>1, <2>3, <3>1 DEF ForClient, Pair
      <4>2. u.n \in 1..Len(a.tls.out[e])
            BY <3>1, <4>1, SendableUnits
      <4>3. ~ServerWaits(a)
            BY <4>2 DEF ServerWaits
      <4>4. a.handled["initial"] = 1
            BY <2>1, <4>3 DEF Pair, Progress, ServerReads
      <4>5. QED BY <4>1, <4>4 DEF Advances
    <3>2. QED BY <1>2, <2>3, <3>1 DEF ForClient, Advances
  <2>4. QED BY <1>2, <2>1, <2>2, <2>3 DEF Datagram, Known
<1>3. QED BY <1>1, <1>2, Ends

-----------------------------------------------------------------------------
(* Loss, acknowledgements, timers and keys that are left.                  *)

\* _on_packets_lost() brings back what was under way and no more.
LEMMA LostQuiet ==
    ASSUME NEW x, NEW a \in Connections, Own(x, a), NEW e \in Epoch,
           NEW units \in SUBSET Sendable(x, a, e)
    PROVE  Quiet(x, a, _on_packets_lost(a, e, units))
<1> DEFINE b == _on_packets_lost(a, e, units)
           kept == Without(a.flight[e], units)
<1>1. /\ a.flight \in Flights /\ a.overtaken \in UnitSets /\ a.pending \in UnitSets
      BY DEF Connections
<1>2. /\ kept \in Seq(UnitType) /\ Units(kept) \subseteq Units(a.flight[e])
  <2>1. a.flight[e] \in Seq(UnitType)
        BY <1>1 DEF Flights
  <2>2. QED BY <2>1, WithoutIsPart
<1>3. units \in SUBSET UnitType
      BY SendableType
<1> HIDE DEF kept
<1>4. /\ [a.flight EXCEPT ![e] = kept] \in Flights
      /\ [a.overtaken EXCEPT ![e] = @ \ units] \in UnitSets
      /\ [a.pending EXCEPT ![e] = @ \cup (units \ {Ping})] \in UnitSets
      BY <1>1, <1>2, <1>3 DEF Flights, UnitSets
<1>5. b = [a EXCEPT !.flight = [a.flight EXCEPT ![e] = kept],
                    !.overtaken = [a.overtaken EXCEPT ![e] = @ \ units],
                    !.pending = [a.pending EXCEPT ![e] = @ \cup (units \ {Ping})]]
      BY DEF _on_packets_lost, Connections, kept
<1> HIDE DEF b
<1>6. b \in Connections /\ SameCourse(a, b) /\ b.discarded = a.discarded
      /\ b.received = a.received /\ b.peer_cid = a.peer_cid
      /\ b.flight = [a.flight EXCEPT ![e] = kept]
      /\ b.overtaken = [a.overtaken EXCEPT ![e] = @ \ units]
      /\ b.pending = [a.pending EXCEPT ![e] = @ \cup (units \ {Ping})]
      BY <1>4, <1>5 DEF Connections, SameCourse
<1>7. \A i \in Epoch : Sendable(x, b, i) = Sendable(x, a, i)
      BY <1>6, StandingStill
<1>8. Own(x, b)
      BY <1>1, <1>2, <1>6, <1>7 DEF Own, Flights, UnitSets
<1>9. QED BY <1>6, <1>8 DEF Quiet, b

\* reschedule_data and what makes it happen once only.
LEMMA RescheduleQuiet ==
    ASSUME NEW x, NEW a \in Connections, Own(x, a)
    PROVE  /\ Quiet(x, a, reschedule_data(a))
           /\ Quiet(x, a, rescheduleOnce(a))
<1> DEFINE crypto(e) == {u \in Units(a.flight[e]) : IsCrypto(u)}
           initial == _on_packets_lost(a, "initial", crypto("initial"))
           handshake == _on_packets_lost(initial, "handshake", crypto("handshake"))
           one_rtt == _on_packets_lost(handshake, "one_rtt", crypto("one_rtt"))
           b == [one_rtt EXCEPT !.probe_pending = TRUE]
<1>1. \A e \in Epoch : crypto(e) \in SUBSET Sendable(x, a, e)
      BY DEF Own
<1> HIDE DEF crypto
<1>2. Quiet(x, a, initial)
      BY <1>1, LostQuiet, EpochsAre
<1> HIDE DEF initial
<1>3. Quiet(x, a, handshake)
  <2>1. initial \in Connections /\ Own(x, initial)
        /\ crypto("handshake") \in SUBSET Sendable(x, initial, "handshake")
        BY <1>1, <1>2, StandingStill, EpochsAre DEF Quiet
  <2>2. Quiet(x, initial, handshake)
        BY <2>1, LostQuiet, EpochsAre
  <2>3. QED BY <1>2, <2>2, QuietFurther
<1> HIDE DEF handshake
<1>4. Quiet(x, a, one_rtt)
  <2>1. handshake \in Connections /\ Own(x, handshake)
        /\ crypto("one_rtt") \in SUBSET Sendable(x, handshake, "one_rtt")
        BY <1>1, <1>3, StandingStill, EpochsAre DEF Quiet
  <2>2. Quiet(x, handshake, one_rtt)
        BY <2>1, LostQuiet, EpochsAre
  <2>3. QED BY <1>3, <2>2, QuietFurther
<1> HIDE DEF one_rtt
<1>5. Quiet(x, a, b)
  <2>1. b \in Connections /\ SameCourse(one_rtt, b)
        /\ b.discarded = one_rtt.discarded /\ b.received = one_rtt.received
        /\ b.peer_cid = one_rtt.peer_cid /\ b.flight = one_rtt.flight
        /\ b.overtaken = one_rtt.overtaken /\ b.pending = one_rtt.pending
        BY <1>4 DEF Quiet, Connections, SameCourse
  <2>2. one_rtt \in Connections /\ Own(x, one_rtt)
        BY <1>4 DEF Quiet
  <2>3. Own(x, b)
        BY ONLY <2>1, <2>2, OwnKept
  <2>4. Quiet(x, one_rtt, b)
        BY <2>1, <2>3 DEF Quiet
  <2>5. QED BY <1>4, <2>4, QuietFurther
<1>6. reschedule_data(a) = b
      BY DEF reschedule_data, one_rtt, handshake, initial, crypto
<1> HIDE DEF b
<1>7. Quiet(x, a, rescheduleOnce(a))
  <2>1. CASE a.crypto_retransmitted
    <3>1. Quiet(x, a, a)
          BY DEF Quiet, SameCourse
    <3>2. QED BY <2>1, <3>1 DEF rescheduleOnce
  <2>2. CASE ~a.crypto_retransmitted
    <3> DEFINE c == [b EXCEPT !.crypto_retransmitted = TRUE]
    <3>1. c \in Connections /\ SameCourse(b, c)
          /\ c.discarded = b.discarded /\ c.received = b.received
          /\ c.peer_cid = b.peer_cid /\ c.flight = b.flight
          /\ c.overtaken = b.overtaken /\ c.pending = b.pending
          BY <1>5 DEF Quiet, Connections, SameCourse
    <3> HIDE DEF c
    <3>2. Own(x, c)
          BY <1>5, <3>1, StandingStill DEF Quiet, Own
    <3>3. Quiet(x, b, c)
          BY <3>1, <3>2 DEF Quiet
    <3>4. QED BY <1>5, <1>6, <2>2, <3>3, QuietFurther DEF rescheduleOnce, c
  <2>3. QED BY <2>1, <2>2
<1>8. QED BY <1>5, <1>6, <1>7

\* on_loss_detection_timeout() brings back what was under way and asks for a
\* probe.
LEMMA TimeoutQuiet ==
    ASSUME NEW x, NEW a \in Connections, Own(x, a)
    PROVE  Quiet(x, a, on_loss_detection_timeout(a))
<1>1. CASE \A e \in Epoch : a.overtaken[e] = {}
      BY <1>1, RescheduleQuiet DEF on_loss_detection_timeout
<1>2. CASE ~(\A e \in Epoch : a.overtaken[e] = {})
  <2> DEFINE e == CHOOSE i \in Epoch : a.overtaken[i] # {}
  <2>1. e \in Epoch
        BY <1>2
  <2> HIDE DEF e
  <2>2. a.overtaken[e] \in SUBSET Sendable(x, a, e)
        BY <2>1 DEF Own
  <2>3. Quiet(x, a, _on_packets_lost(a, e, a.overtaken[e]))
        BY <2>1, <2>2, LostQuiet
  <2>4. QED BY <1>2, <2>3 DEF on_loss_detection_timeout, e
<1>3. QED BY <1>1, <1>2

\* _handle_ack_frame() brings back what was overtaken and no more.
LEMMA AckQuiet ==
    ASSUME NEW x, NEW a \in Connections, Own(x, a), NEW e \in Epoch, NEW ack
    PROVE  Quiet(x, a, _handle_ack_frame(a, e, ack))
<1>1. CASE ack = {}
  <2>1. Quiet(x, a, a)
        BY DEF Quiet, SameCourse
  <2>2. QED BY <1>1, <2>1 DEF _handle_ack_frame
<1>2. CASE ack # {}
  <2> DEFINE flight == a.flight[e]
             newest == {i \in DOMAIN flight : flight[i] \in ack}
             before == {flight[i] : i \in {j \in DOMAIN flight : \E k \in newest : j < k}}
             kept == Without(flight, ack)
             validated == a.peer_completed_address_validation
                              \/ e \in {"handshake", "one_rtt"}
             b == _handle_ack_frame(a, e, ack)
  <2>1. /\ a.flight \in Flights /\ a.overtaken \in UnitSets /\ flight \in Seq(UnitType)
        BY DEF Connections, Flights
  <2>2. before \subseteq Units(flight)
        BY DEF Units
  <2>3. before \subseteq UnitType
        BY <2>1, <2>2 DEF Units
  <2>4. kept \in Seq(UnitType) /\ Units(kept) \subseteq Units(flight)
        BY <2>1, WithoutIsPart
  <2> HIDE DEF before, kept, newest
  <2>5. b = [a EXCEPT !.peer_completed_address_validation = validated,
                      !.flight = [a.flight EXCEPT ![e] = kept],
                      !.overtaken = [a.overtaken EXCEPT ![e] = (@ \cup before) \ ack]]
        BY <1>2 DEF _handle_ack_frame, Connections, kept, before, newest
  <2>6. [a.flight EXCEPT ![e] = kept] \in Flights
        BY <2>1, <2>4 DEF Flights
  <2>7. [a.overtaken EXCEPT ![e] = (@ \cup before) \ ack] \in UnitSets
        BY <2>1, <2>3 DEF UnitSets
  <2> HIDE DEF b
  <2>8. b \in Connections /\ SameCourse(a, b) /\ b.discarded = a.discarded
        /\ b.received = a.received /\ b.peer_cid = a.peer_cid
        /\ b.flight = [a.flight EXCEPT ![e] = kept]
        /\ b.overtaken = [a.overtaken EXCEPT ![e] = (@ \cup before) \ ack]
        /\ b.pending = a.pending
        BY <2>5, <2>6, <2>7 DEF Connections, SameCourse
  <2>9. \A i \in Epoch : Sendable(x, b, i) = Sendable(x, a, i)
        BY <2>8, StandingStill
  <2>10. Own(x, b)
        BY <2>1, <2>2, <2>4, <2>8, <2>9 DEF Own, Flights, UnitSets
  <2>11. QED BY <2>8, <2>10 DEF Quiet, b
<1>3. QED BY <1>1, <1>2

\* An end leaves an epoch.
LEMMA DiscardIs ==
    ASSUME NEW x, NEW a \in Connections, Own(x, a), NEW e \in Epoch,
           NEW b, b = _discard_epoch(a, e)
    PROVE  /\ b \in Connections /\ SameCourse(a, b) /\ Own(x, b)
           /\ b.received = a.received /\ b.peer_cid = a.peer_cid
           /\ b.discarded = a.discarded \cup {e}
           /\ b.pending = a.pending
<1>1. CASE e \in a.discarded
      BY <1>1 DEF _discard_epoch, SameCourse
<1>2. CASE e \notin a.discarded
  <2>1. /\ a.flight \in Flights /\ a.overtaken \in UnitSets /\ a.ack_at \in SUBSET Epoch
        /\ a.discarded \in SUBSET Epoch
        BY DEF Connections
  <2> DEFINE gone == a.discarded \cup {e}
             flight == [a.flight EXCEPT ![e] = <<>>]
             overtaken == [a.overtaken EXCEPT ![e] = {}]
             due == a.ack_at \ {e}
  <2>2. b = [a EXCEPT !.discarded = gone, !.flight = flight, !.overtaken = overtaken,
                      !.ack_at = due]
        BY <1>2 DEF _discard_epoch, Connections
  <2>3. /\ flight \in Flights /\ overtaken \in UnitSets
        /\ due \in SUBSET Epoch /\ gone \in SUBSET Epoch
        BY <2>1 DEF Flights, UnitSets
  <2>4. /\ b.flight = [a.flight EXCEPT ![e] = <<>>]
        /\ b.overtaken = [a.overtaken EXCEPT ![e] = {}]
        /\ b.discarded = a.discarded \cup {e}
        /\ b \in Connections /\ SameCourse(a, b)
        /\ b.received = a.received /\ b.peer_cid = a.peer_cid /\ b.pending = a.pending
    <3> HIDE DEF gone, flight, overtaken, due
    <3>1. b \in Connections
          BY ONLY a \in Connections, <2>2, <2>3 DEF Connections
    <3>2. /\ b.flight = flight /\ b.overtaken = overtaken /\ b.discarded = gone
          /\ SameCourse(a, b)
          /\ b.received = a.received /\ b.peer_cid = a.peer_cid /\ b.pending = a.pending
          BY <2>2 DEF Connections, SameCourse
    <3>3. QED BY <3>1, <3>2 DEF gone, flight, overtaken
  <2>5. \A i \in Epoch : Sendable(x, b, i) = Sendable(x, a, i)
        BY <2>4, StandingStill
  <2>6. Units(<<>>) = {}
        BY DEF Units
  <2>7. Own(x, b)
        BY <2>1, <2>4, <2>5, <2>6 DEF Own, Flights, UnitSets
  <2>8. QED BY <2>4, <2>7
<1>3. QED BY <1>1, <1>2

-----------------------------------------------------------------------------
(* datagrams_to_send.                                                      *)

\* A packet of epoch e that a may send, and the packets of a datagram.
MaySend(a, e, p) ==
    /\ p.units \subseteq a.pending[e] \cup {Ping}
    /\ ~IsEmpty(p) => e = "initial" \/ e \in Writable(a)
MaySendAll(a) == {q \in [Epoch -> PacketType] : \A e \in Epoch : MaySend(a, e, q[e])}

\* Every packet of a datagram carries what its end may send, and is in flight as
\* such.
LEMMA PacketsAreSendable ==
    ASSUME NEW x, NEW a \in Connections, Own(x, a), NEW acks \in SUBSET Writable(a),
           NEW opens, NEW pings, pings \subseteq {ProbeEpoch(a)}
    PROVE  /\ Packets(a, Wanted(Pack(ToSend(a)), opens), acks, pings) \in Seq(MaySendAll(a))
           /\ Allowed(a, Packets(a, Wanted(Pack(ToSend(a)), opens), acks, pings))
                  \in Seq(MaySendAll(a))
           /\ ~a.is_validated =>
                  Len(Allowed(a, Packets(a, Wanted(Pack(ToSend(a)), opens), acks, pings)))
                      =< a.credit
<1> DEFINE P == {p \in Epoch \X UnitType : p[1] \in Writable(a) /\ p[2] \in a.pending[p[1]]}
           sorted(e) == IF e \in Writable(a) THEN InOrder(a.pending[e]) ELSE <<>>
           of(e) == [i \in DOMAIN sorted(e) |-> <<e, sorted(e)[i]>>]
           bins == Wanted(Pack(ToSend(a)), opens)
           packets == Packets(a, bins, acks, pings)
<1>1. ASSUME NEW e \in Epoch PROVE of(e) \in Seq(P)
  <2>1. a.pending[e] \in SUBSET UnitType /\ IsFiniteSet(a.pending[e])
    <3>1. a.pending[e] \subseteq Sendable(x, a, e)
          BY DEF Own
    <3>2. QED BY <3>1, SendableType, FS_Subset
  <2>2. InOrder(a.pending[e]) \in Seq(a.pending[e])
        BY <2>1, InOrderIsPart
  <2>3. CASE e \in Writable(a)
    <3> DEFINE q == InOrder(a.pending[e])
    <3>1. \A i \in 1..Len(q) : <<e, q[i]>> \in P
          BY <2>1, <2>2, <2>3
    <3>2. of(e) = [i \in 1..Len(q) |-> <<e, q[i]>>] /\ Len(q) \in Nat
          BY <2>2, <2>3
    <3> HIDE DEF P, q, of
    <3>3. QED BY <3>1, <3>2
  <2>4. CASE e \notin Writable(a)
    <3>1. of(e) = <<>>
          BY <2>4
    <3>2. QED BY <3>1
  <2>5. QED BY <2>3, <2>4
<1>2. ToSend(a) \in Seq(P)
  <2>1. ToSend(a) = of("initial") \o of("handshake") \o of("one_rtt")
        BY DEF ToSend
  <2> HIDE DEF P, of
  <2>2. QED BY <1>1, <2>1, EpochsAre
<1>3. bins \in Seq(SUBSET P)
  <2>1. Pack(ToSend(a)) \in Seq(SUBSET P)
    <3> HIDE DEF P
    <3> QED BY <1>2, PackIsPart
  <2> HIDE DEF P
  <2>2. <<{}>> \in Seq(SUBSET P)
        OBVIOUS
  <2>3. QED BY <2>1, <2>2 DEF Wanted
<1>4. ProbeEpoch(a) = "initial" \/ ProbeEpoch(a) \in Writable(a)
      BY DEF ProbeEpoch
<1>5. ASSUME NEW i \in DOMAIN bins PROVE packets[i] \in MaySendAll(a)
  <2> DEFINE units(e) == Unpacked(bins[i], e) \cup
                             (IF i = 1 /\ e \in pings THEN {Ping} ELSE {})
             ack(e) == IF i = 1 /\ e \in acks THEN Acknowledgement(a, e) ELSE {}
  <2>1. packets[i] = [e \in Epoch |-> Packet(units(e), ack(e))]
        BY DEF Packets
  <2>2. ASSUME NEW e \in Epoch
        PROVE  /\ Packet(units(e), ack(e)) \in PacketType
               /\ MaySend(a, e, Packet(units(e), ack(e)))
    <3>1. bins[i] \in SUBSET P
          BY <1>3
    <3>2. Unpacked(bins[i], e) \subseteq a.pending[e]
          BY <3>1 DEF Unpacked
    <3>3. Unpacked(bins[i], e) # {} => e \in Writable(a)
          BY <3>1 DEF Unpacked
    <3>4. a.pending[e] \subseteq UnitType /\ Ping \in UnitType
          BY UnitTypes DEF Connections, UnitSets
    <3>5. Acknowledgement(a, e) \subseteq UnitType
          BY DEF Acknowledgement, Connections, UnitSets
    <3>6. units(e) \subseteq a.pending[e] \cup {Ping}
          BY <3>2
    <3>7. units(e) \subseteq UnitType /\ ack(e) \subseteq UnitType
          BY <3>4, <3>5, <3>6
    <3>8. units(e) # {} \/ ack(e) # {} => e = "initial" \/ e \in Writable(a)
          BY <1>4, <3>3
    <3> HIDE DEF units, ack
    <3>9. QED BY <3>6, <3>7, <3>8 DEF Packet, PacketType, MaySend, IsEmpty, EmptyPacket
  <2> HIDE DEF units, ack, packets
  <2>3. QED BY <2>1, <2>2 DEF MaySendAll
<1>6. packets \in Seq(MaySendAll(a)) /\ Len(packets) = Len(bins)
  <2>1. packets = [i \in 1..Len(bins) |-> packets[i]] /\ Len(bins) \in Nat
        /\ DOMAIN bins = 1..Len(bins)
    <3>1. DOMAIN bins = 1..Len(bins) /\ Len(bins) \in Nat
      <4> HIDE DEF bins, P
      <4> QED BY <1>3
    <3>2. packets = [i \in DOMAIN bins |-> packets[i]]
          BY DEF Packets
    <3>3. QED BY <3>1, <3>2
  <2> HIDE DEF packets, bins
  <2>2. QED BY <1>5, <2>1
<1>7. CASE a.is_validated
      BY <1>6, <1>7 DEF Allowed
<1>8. CASE ~a.is_validated
  <2> DEFINE m == Min({a.credit, Len(packets)})
             allowed == SubSeq(packets, 1, m)
  <2>1. a.credit \in Nat /\ Len(packets) \in Nat
        BY <1>6 DEF Connections
  <2>2. m \in Nat /\ m =< a.credit /\ m =< Len(packets)
    <3> HIDE DEF packets
    <3>1. \E n \in {a.credit, Len(packets)} : \A y \in {a.credit, Len(packets)} : n =< y
          BY <2>1
    <3>2. QED BY <2>1, <3>1 DEF Min
  <2> HIDE DEF m, packets
  <2>3. allowed = [i \in 1..m |-> packets[i]]
        BY <2>2
  <2>4. \A i \in 1..m : packets[i] \in MaySendAll(a)
        BY <1>6, <2>1, <2>2
  <2>5. allowed \in Seq(MaySendAll(a)) /\ Len(allowed) = m
        BY <2>2, <2>3, <2>4
  <2>6. QED BY <1>6, <1>8, <2>2, <2>5 DEF Allowed, m, packets
<1>9. QED BY <1>7, <1>8, <1>6

\* What is sent, and what is known of the sender after it.
LEMMA SentIsKnown ==
    ASSUME scenario \in Scenarios, NEW x \in End, NEW a, NEW other, Matched(x, a, other),
           a.cryptos_initial # None, NEW packets \in Seq(MaySendAll(a)),
           ~a.is_validated => Len(packets) =< a.credit
    PROVE  LET sent == Sent(x, a, packets)
           IN /\ Matched(x, sent.st, other) /\ Advances(x, a, sent.st)
              /\ \A d \in sent.datagrams : Known(x, d, sent.st, other)
<1> DEFINE datagram(i) == [to |-> Other(x), kind |-> "packets", packets |-> packets[i],
                           initial_cid |-> a.cryptos_initial, version |-> a.version,
                           cid |-> a.peer_cid, token |-> a.retry_count > 0,
                           versions |-> <<>>]
           new(e) == UNION {packets[i][e].units : i \in DOMAIN packets}
           flight == [e \in Epoch |-> Without(a.flight[e], new(e)) \o InOrder(new(e))]
           overtaken == [e \in Epoch |-> a.overtaken[e] \ new(e)]
           pending == [e \in Epoch |-> a.pending[e] \ new(e)]
           ack_at == {e \in a.ack_at : \A i \in DOMAIN packets : packets[i][e].ack = {}}
           probe == a.probe_pending /\ packets = <<>>
           credit == IF a.is_validated THEN 0 ELSE a.credit - Len(packets)
           b == [a EXCEPT !.flight = flight, !.overtaken = overtaken, !.pending = pending,
                          !.ack_at = ack_at, !.probe_pending = probe, !.credit = credit]
           usesHandshake == \E i \in DOMAIN packets : ~IsEmpty(packets[i]["handshake"])
           c == IF x = "client" /\ usesHandshake THEN _discard_epoch(b, "initial") ELSE b
<1>1. Sent(x, a, packets) = [datagrams |-> {datagram(i) : i \in DOMAIN packets}, st |-> c]
      BY DEF Sent
<1>2. a \in Connections /\ Own(x, a)
      BY Ends DEF Matched, Pair
<1>3. \A i \in DOMAIN packets : /\ packets[i] \in [Epoch -> PacketType]
                                /\ \A e \in Epoch : MaySend(a, e, packets[i][e])
      BY DEF MaySendAll
<1>4. ASSUME NEW e \in Epoch
      PROVE  /\ new(e) \subseteq Sendable(x, a, e)
             /\ new(e) \subseteq UnitType
             /\ InOrder(new(e)) \in Seq(new(e))
  <2>1. \A i \in DOMAIN packets : packets[i][e].units \subseteq Sendable(x, a, e)
    <3>1. a.pending[e] \cup {Ping} \subseteq Sendable(x, a, e)
          BY <1>2, SendableType DEF Own
    <3>2. QED BY <1>3, <3>1 DEF MaySend
  <2>2. new(e) \subseteq Sendable(x, a, e)
        BY <2>1
  <2> HIDE DEF new
  <2>3. new(e) \in SUBSET UnitType /\ IsFiniteSet(new(e))
        BY <1>2, <2>2, SendableType, FS_Subset
  <2>4. QED BY <2>2, <2>3, InOrderIsPart
<1> HIDE DEF new
<1>5. ASSUME NEW e \in Epoch
      PROVE  /\ flight[e] \in Seq(UnitType)
             /\ Units(flight[e]) \subseteq Sendable(x, a, e)
  <2> DEFINE p == Without(a.flight[e], new(e))
             q == InOrder(new(e))
  <2>1. a.flight[e] \in Seq(UnitType) /\ Units(a.flight[e]) \subseteq Sendable(x, a, e)
        BY <1>2 DEF Connections, Flights, Own
  <2>2. p \in Seq(UnitType) /\ Units(p) \subseteq Units(a.flight[e])
        BY <2>1, WithoutIsPart
  <2>3. q \in Seq(new(e)) /\ new(e) \subseteq UnitType /\ new(e) \subseteq Sendable(x, a, e)
        BY <1>4
  <2>4. flight[e] = p \o q
        OBVIOUS
  <2> HIDE DEF p, q, flight
  <2>5. q \in Seq(UnitType) /\ Units(q) \subseteq Sendable(x, a, e)
        BY <2>3 DEF Units
  <2>6. p \o q \in Seq(UnitType)
        BY <2>2, <2>5
  <2>7. Units(p \o q) \subseteq Units(p) \cup Units(q)
    <3> SUFFICES ASSUME NEW i \in DOMAIN (p \o q) PROVE (p \o q)[i] \in Units(p) \cup Units(q)
        BY DEF Units
    <3>1. Len(p) \in Nat /\ Len(q) \in Nat /\ i \in 1..(Len(p) + Len(q))
          BY <2>2, <2>5
    <3>2. CASE i =< Len(p)
          BY <2>2, <2>5, <3>1, <3>2 DEF Units
    <3>3. CASE i > Len(p)
      <4>1. i - Len(p) \in 1..Len(q) /\ (p \o q)[i] = q[i - Len(p)]
            BY <2>2, <2>5, <3>1, <3>3
      <4>2. QED BY <2>5, <4>1 DEF Units
    <3>4. QED BY <3>1, <3>2, <3>3
  <2>8. QED BY <2>1, <2>2, <2>4, <2>5, <2>6, <2>7
<1>6. /\ flight \in Flights /\ overtaken \in UnitSets /\ pending \in UnitSets
      /\ ack_at \in SUBSET Epoch /\ probe \in BOOLEAN /\ credit \in Nat
  <2>1. a.overtaken \in UnitSets /\ a.pending \in UnitSets /\ a.ack_at \in SUBSET Epoch
        /\ a.probe_pending \in BOOLEAN /\ a.credit \in Nat /\ a.is_validated \in BOOLEAN
        BY <1>2 DEF Connections
  <2>2. flight \in Flights
        BY <1>5 DEF Flights
  <2>3. overtaken \in UnitSets /\ pending \in UnitSets
        BY <2>1 DEF UnitSets
  <2>4. credit \in Nat
    <3>1. Len(packets) \in Nat
          OBVIOUS
    <3>2. QED BY <2>1, <3>1
  <2>5. QED BY <2>1, <2>2, <2>3, <2>4
<1>7. /\ b \in Connections /\ SameCourse(a, b) /\ b.discarded = a.discarded
      /\ b.received = a.received /\ b.peer_cid = a.peer_cid
      /\ b.flight = flight /\ b.overtaken = overtaken /\ b.pending = pending
  <2> HIDE DEF flight, overtaken, pending, ack_at, probe, credit
  <2>1. b = [a EXCEPT !.flight = flight, !.overtaken = overtaken, !.pending = pending,
                      !.ack_at = ack_at, !.probe_pending = probe, !.credit = credit]
        OBVIOUS
  <2> HIDE DEF b
  <2>2. b \in Connections
        BY <1>2, <1>6, <2>1 DEF Connections
  <2>3. SameCourse(a, b) /\ b.discarded = a.discarded
        BY <1>2, <2>1 DEF Connections, SameCourse
  <2>4. /\ b.received = a.received /\ b.peer_cid = a.peer_cid
        /\ b.flight = flight /\ b.overtaken = overtaken /\ b.pending = pending
        BY <1>2, <2>1 DEF Connections
  <2>5. QED BY <2>2, <2>3, <2>4
<1>8. Own(x, b)
  <2>1. \A e \in Epoch : Sendable(x, b, e) = Sendable(x, a, e)
    <3> HIDE DEF b
    <3> QED BY <1>2, <1>7, StandingStill
  <2>2. \A e \in Epoch : overtaken[e] \subseteq a.overtaken[e] /\ pending[e] \subseteq a.pending[e]
        OBVIOUS
  <2> HIDE DEF b, flight, overtaken, pending
  <2>3. QED BY <1>2, <1>5, <1>7, <2>1, <2>2 DEF Own
<1>9. Quiet(x, a, b)
      BY <1>7, <1>8 DEF Quiet
<1> HIDE DEF b, flight, overtaken, pending, ack_at, probe, credit
<1>10. Matched(x, b, other) /\ Advances(x, a, b)
      BY <1>9, MatchedQuiet
<1>11. ASSUME x = "client",
              NEW i \in DOMAIN packets, ~IsEmpty(packets[i]["handshake"])
       PROVE  a.handled["initial"] = 1
  <2>1. "handshake" \in Writable(a)
        BY <1>3, <1>11, EpochsAre DEF MaySend
  <2>2. <<"encrypt", "handshake">> \in a.tls.keys
        BY <2>1 DEF Writable, HasKey
  <2>3. Pair(a, other)
        BY <1>11 DEF Matched
  <2>4. ~ClientWaits(a)
        BY <2>2 DEF ClientWaits
  <2>5. QED BY <2>3, <2>4 DEF Pair, Progress, ClientReads
<1>12. Matched(x, c, other) /\ Advances(x, a, c) /\ SameCourse(a, c)
       /\ c.peer_cid = a.peer_cid
  <2>1. CASE x = "client" /\ usesHandshake
    <3>1. c = _discard_epoch(b, "initial")
          BY <2>1
    <3> HIDE DEF c
    <3>2. /\ c \in Connections /\ SameCourse(b, c) /\ Own(x, c)
          /\ c.received = b.received /\ c.peer_cid = b.peer_cid
          /\ c.discarded = b.discarded \cup {"initial"}
          BY <1>7, <1>8, <3>1, DiscardIs, EpochsAre
    <3>3. b.handled["initial"] = 1
          BY <1>7, <1>11, <2>1 DEF SameCourse
    <3>4. Heard(c, Other(x), other)
      <4>1. Heard(b, Other(x), other)
            BY <1>10, <2>1, Others DEF Matched, Pair
      <4>2. QED BY <3>2, <4>1 DEF Heard
    <3>5. Matched(x, c, other) /\ Advances(x, b, c)
          BY <1>10, <2>1, <3>2, <3>3, <3>4, MatchedKept
    <3>6. QED BY <1>7, <1>10, <3>2, <3>5, AdvancesFurther DEF SameCourse
  <2>2. CASE ~(x = "client" /\ usesHandshake)
        BY <1>7, <1>10, <2>2
  <2>3. QED BY <2>1, <2>2
<1> HIDE DEF c
<1>13. ASSUME NEW i \in DOMAIN packets PROVE Known(x, datagram(i), c, other)
  <2> DEFINE d == datagram(i)
  <2>1. /\ d.to = Other(x) /\ d.kind = "packets" /\ d.packets = packets[i]
        /\ d.initial_cid = a.cryptos_initial /\ d.version = a.version
        /\ d.cid = a.peer_cid /\ d.token = (a.retry_count > 0) /\ d.versions = <<>>
        OBVIOUS
  <2>2. d \in DatagramType
    <3>1. Other(x) \in End
          BY Others, Ends DEF End
    <3>2. packets[i] \in [Epoch -> PacketType] /\ a.cryptos_initial \in Cid
          /\ a.version \in STRING /\ a.peer_cid \in Cid /\ a.retry_count \in Nat
          BY <1>2, <1>3 DEF Connections
    <3>3. <<>> \in Seq(STRING \ {None})
          OBVIOUS
    <3>4. (a.retry_count > 0) \in BOOLEAN
          OBVIOUS
    <3>5. QED BY <3>1, <3>2, <3>3, <3>4 DEF DatagramType
  <2>3. \A e \in Epoch : packets[i][e].units \subseteq Sendable(x, c, e)
    <3>1. \A e \in Epoch : packets[i][e].units \subseteq new(e)
          BY DEF new
    <3>2. QED BY <1>4, <1>12, <3>1 DEF Advances
  <2> HIDE DEF d
  <2>4. CASE x = "client"
    <3>1. Pair(c, other) /\ d.to = "server"
          BY <1>12, <2>1, <2>4, Others DEF Matched
    <3>2. c.cryptos_initial = a.cryptos_initial /\ c.retry_count = a.retry_count
          /\ c.version = a.version /\ c.handled = a.handled
          BY <1>12 DEF SameCourse
    <3>3. d.initial_cid = InitialCid(c) /\ c.retry_count \in {0, 1}
          /\ d.cid \in {InitialCid(c), "server"}
          /\ (d.cid = "server" => other.cryptos_initial # None)
          BY <1>12, <2>1, <3>1, <3>2 DEF Pair, Introduced, InitialCid
    <3>4. ForServer(d, c, other)
      <4>1. ~IsEmpty(d.packets["handshake"]) => c.handled["initial"] = 1
            BY <1>11, <2>1, <2>4, <3>2
      <4>2. \A e \in Epoch : d.packets[e].units \subseteq Sendable("client", c, e)
            BY <2>1, <2>3, <2>4
      <4>3. d.initial_cid = c.cryptos_initial /\ d.version = c.version
            BY <2>1, <3>2
      <4>4. d.token <=> d.initial_cid = "retry"
        <5>1. d.token <=> a.retry_count > 0
              BY <2>1
        <5>2. a.retry_count > 0 <=> a.retry_count = 1
              BY <3>2, <3>3
        <5>3. d.initial_cid = "retry" <=> c.retry_count = 1
              BY <3>3 DEF InitialCid
        <5>4. QED BY <3>2, <5>1, <5>2, <5>3
      <4>5. d.initial_cid = "retry" <=> c.retry_count = 1
            BY <3>3 DEF InitialCid
      <4>6. d.cid \in {d.initial_cid, "server"} /\ d.initial_cid \in {"original", "retry"}
            BY <3>3 DEF InitialCid
      <4>7. d.kind = "packets" /\ c.cryptos_initial # None
            BY <2>1, <3>2
      <4>8. QED BY <3>3, <4>1, <4>2, <4>3, <4>4, <4>5, <4>6, <4>7 DEF ForServer
    <3>5. QED BY <2>2, <2>4, <3>1, <3>4 DEF Known, Datagram, d
  <2>5. CASE x = "server"
    <3>1. d.to = "client" /\ x # "client"
          BY <2>1, <2>5, Others
    <3>2. c.cryptos_initial = a.cryptos_initial /\ c.version = a.version
          BY <1>12 DEF SameCourse
    <3>3. ForClient(d, c)
          BY <2>1, <2>3, <2>5, <3>2 DEF ForClient
    <3>4. QED BY <2>2, <3>1, <3>3 DEF Known, Datagram, d
  <2>6. QED BY <2>4, <2>5, Ends
<1>14. QED BY <1>1, <1>12, <1>13

\* datagrams_to_send is the sending of packets that it may send.
LEMMA SendingIsKnown ==
    ASSUME scenario \in Scenarios, NEW x \in End, NEW a, NEW other, Matched(x, a, other),
           a.cryptos_initial # None
    PROVE  LET sending == datagrams_to_send(x, a)
           IN /\ Matched(x, sending.st, other) /\ Advances(x, a, sending.st)
              /\ \A d \in sending.datagrams : Known(x, d, sending.st, other)
<1> DEFINE probes == a.probe_pending /\ ~(\E e \in Writable(a) :
                         \E u \in a.pending[e] : IsCrypto(u))
           acks == {e \in Writable(a) : Acknowledgement(a, e) # {}}
           opens == acks # {} \/ probes
           pings == IF probes THEN {ProbeEpoch(a)} ELSE {}
           packets == Allowed(a, Packets(a, Wanted(Pack(ToSend(a)), opens), acks, pings))
<1>1. a \in Connections /\ Own(x, a)
      BY Ends DEF Matched, Pair
<1>2. datagrams_to_send(x, a) = Sent(x, a, packets)
      BY DEF datagrams_to_send
<1>3. packets \in Seq(MaySendAll(a)) /\ (~a.is_validated => Len(packets) =< a.credit)
  <2>1. acks \in SUBSET Writable(a) /\ pings \subseteq {ProbeEpoch(a)}
        OBVIOUS
  <2> HIDE DEF acks, opens, pings
  <2>2. QED BY <1>1, <2>1, PacketsAreSendable
<1> HIDE DEF packets
<1>4. QED BY <1>2, <1>3, SentIsKnown

-----------------------------------------------------------------------------
(* The TLS messages.                                                       *)

\* Which handler a message comes to.
LEMMA Handlers ==
    ASSUME NEW tls, NEW m
    PROVE  LET done == _handle_reassembled_message(tls, m)
           IN /\ tls.state = "CLIENT_EXPECT_SERVER_HELLO" /\ m.type = "server_hello"
                     => done = _client_handle_hello(tls, m)
              /\ tls.state = "CLIENT_EXPECT_ENCRYPTED_EXTENSIONS"
                 /\ m.type = "encrypted_extensions"
                     => done = _client_handle_encrypted_extensions(tls, m)
              /\ tls.state = "CLIENT_EXPECT_CERTIFICATE_REQUEST_OR_CERTIFICATE"
                 /\ m.type = "certificate_request"
                     => done = _client_handle_certificate_request(tls)
              /\ tls.state \in {"CLIENT_EXPECT_CERTIFICATE_REQUEST_OR_CERTIFICATE",
                                "CLIENT_EXPECT_CERTIFICATE"} /\ m.type = "certificate"
                     => done = _client_handle_certificate(tls)
              /\ tls.state = "CLIENT_EXPECT_CERTIFICATE_VERIFY"
                 /\ m.type = "certificate_verify"
                     => done = _client_handle_certificate_verify(tls)
              /\ tls.state = "CLIENT_EXPECT_FINISHED" /\ m.type = "finished"
                     => done = _client_handle_finished(tls)
              /\ tls.state = "CLIENT_POST_HANDSHAKE" /\ m.type = "new_session_ticket"
                     => done = tls
              /\ tls.state = "SERVER_EXPECT_CLIENT_HELLO" /\ m.type = "client_hello"
                     => done = _server_handle_hello(tls, m)
              /\ tls.state = "SERVER_EXPECT_CERTIFICATE"
                 /\ m.type \in {"certificate", "empty_certificate"}
                     => done = _server_handle_certificate(tls, m)
              /\ tls.state = "SERVER_EXPECT_CERTIFICATE_VERIFY"
                 /\ m.type = "certificate_verify"
                     => done = _server_handle_certificate_verify(tls)
              /\ tls.state = "SERVER_EXPECT_FINISHED" /\ m.type = "finished"
                     => done = _server_handle_finished(tls)
BY DEF _handle_reassembled_message

\* What a scenario says of the two ends.
LEMMA ScenarioIs ==
    ASSUME scenario \in Scenarios
    PROVE  /\ \A x \in End : scenario.options[x] \in Options
           /\ \A x \in End : scenario.versions[x] \in Seq(STRING \ {None})
           /\ scenario.original_version \in STRING /\ scenario.retry \in BOOLEAN
           /\ Range(scenario.versions["client"]) \cap Range(scenario.versions["server"]) # {}
           /\ ~(Resumes /\ Requests)
           /\ Resumes \in BOOLEAN /\ Requests \in BOOLEAN
<1>1. /\ \A x \in End : scenario.options[x] \in Options
      /\ \A x \in End : scenario.versions[x] \in Seq(STRING \ {None})
      /\ scenario.original_version \in STRING /\ scenario.retry \in BOOLEAN
      BY ScenariosAssumption DEF Options
<1>2. /\ Range(scenario.versions["client"]) \cap Range(scenario.versions["server"]) # {}
      /\ ~(Resumes /\ Requests)
      BY ScenariosFit DEF Resumes, Requests
<1>3. Resumes \in BOOLEAN /\ Requests \in BOOLEAN
      BY <1>1 DEF Resumes, Requests, End, Options
<1>4. QED BY <1>1, <1>2, <1>3

\* The parameters of an end are parameters.
LEMMA ParametersType ==
    ASSUME scenario \in Scenarios, NEW x \in End, NEW st \in Connections
    PROVE  TransportParameters(x, st) \in Parameters
<1>1. scenario.versions[x] \in Seq(STRING \ {None})
      BY ScenarioIs
<1>2. st.version \in STRING /\ st.original_cid \in Cid /\ st.retry_source_cid \in Cid
      BY DEF Connections
<1>3. None \in Cid
      BY DEF Cid
<1> HIDE DEF Cid
<1>4. QED BY <1>1, <1>2, <1>3 DEF TransportParameters, Parameters

\* No parameters are the missing extensions.
LEMMA ParametersDiffer == NoExtensions \notin Parameters
<1>1. \A p \in Parameters : "available" \in DOMAIN p
      BY DEF Parameters
<1>2. DOMAIN NoExtensions = {"chosen"}
      BY DEF NoExtensions
<1>3. QED BY <1>1, <1>2

\* What a message leaves of x's connection a.
Effect(x, a, b, e, tls, version, negotiated) ==
    /\ b \in Connections /\ Own(x, b)
    /\ b.tls = tls /\ b.version = version
    /\ b.version_negotiated_compatible = negotiated
    /\ b.handled = [a.handled EXCEPT ![e] = @ + 1]
    /\ b.failed <=> a.failed \/ tls.alert
    /\ b.handshake_complete <=> a.handshake_complete \/ IsComplete(tls)
    /\ b.cryptos_initial = a.cryptos_initial /\ b.original_cid = a.original_cid
    /\ b.retry_source_cid = a.retry_source_cid /\ b.retry_count = a.retry_count
    /\ b.received = a.received /\ b.peer_cid = a.peer_cid
    /\ \/ b.discarded = a.discarded
       \/ /\ x = "server" /\ b.handshake_complete
          /\ b.discarded = a.discarded \cup {"handshake"}

\* A message was handled, and what TLS wrote is not yet to be sent.
Handled(a, p, e, tls, version, negotiated) ==
    /\ p \in Connections
    /\ p.tls = tls /\ p.version = version /\ p.version_negotiated_compatible = negotiated
    /\ p.handled = [a.handled EXCEPT ![e] = @ + 1]
    /\ p.failed <=> a.failed \/ tls.alert
    /\ p.handshake_complete = a.handshake_complete
    /\ p.cryptos_initial = a.cryptos_initial /\ p.original_cid = a.original_cid
    /\ p.retry_source_cid = a.retry_source_cid /\ p.retry_count = a.retry_count
    /\ p.received = a.received /\ p.peer_cid = a.peer_cid /\ p.discarded = a.discarded
    /\ p.flight = a.flight /\ p.overtaken = a.overtaken /\ p.pending = a.pending

\* An end that hands more of its TLS output to the streams stays a connection that
\* may send what it has written.
LEMMA PushingIs ==
    ASSUME NEW x \in End, NEW a \in Connections, Own(x, a), NEW e \in Epoch,
           NEW tls \in Contexts, OutputGrows(a.tls.out, tls.out),
           NEW version \in STRING, NEW negotiated \in BOOLEAN, NEW p,
           Handled(a, p, e, tls, version, negotiated)
    PROVE  Effect(x, a, Completed(x, _push_crypto_data(p, a.tls)), e, tls, version, negotiated)
<1> DEFINE new(i) == {Crypto(n, tls.out[i][n]) :
                         n \in (Len(a.tls.out[i]) + 1)..Len(tls.out[i])}
           pending == [i \in Epoch |-> a.pending[i] \cup new(i)]
           handled == [a.handled EXCEPT ![e] = @ + 1]
           q == _push_crypto_data(p, a.tls)
           b == Completed(x, q)
<1>2. ASSUME NEW i \in Epoch PROVE new(i) \subseteq Cryptos([tls |-> tls], i)
  <2>1. a.tls.out[i] \in Seq(Messages) /\ tls.out[i] \in Seq(Messages)
        BY DEF Connections, Contexts, Outputs
  <2>2. \A n \in (Len(a.tls.out[i]) + 1)..Len(tls.out[i]) : n \in 1..Len(tls.out[i])
        BY <2>1
  <2>3. QED BY <2>2 DEF Cryptos
<1>3. ASSUME NEW i \in Epoch PROVE new(i) \subseteq UnitType
  <2>1. a.tls.out[i] \in Seq(Messages) /\ tls.out[i] \in Seq(Messages)
        BY DEF Connections, Contexts, Outputs
  <2>2. \A n \in (Len(a.tls.out[i]) + 1)..Len(tls.out[i]) :
            n \in Int /\ tls.out[i][n] \in Messages
        BY <2>1
  <2>3. QED BY <2>2, UnitTypes
<1>4. a.pending \in UnitSets
      BY DEF Connections
<1>5. pending \in UnitSets
  <2> HIDE DEF new
  <2> QED BY <1>3, <1>4 DEF UnitSets
<1>6. q = [p EXCEPT !.pending = pending]
  <2>1. p.tls = tls /\ p.pending = a.pending
        BY DEF Handled
  <2>2. QED BY <2>1 DEF _push_crypto_data
<1>7. p \in Connections
      BY DEF Handled
<1> HIDE DEF pending, q, handled
<1>8. q \in Connections
      BY <1>5, <1>6, <1>7 DEF Connections
<1>9. /\ q.tls = tls /\ q.version = version /\ q.version_negotiated_compatible = negotiated
      /\ q.handled = handled /\ (q.failed <=> a.failed \/ tls.alert)
      /\ q.handshake_complete = a.handshake_complete
      /\ q.cryptos_initial = a.cryptos_initial /\ q.original_cid = a.original_cid
      /\ q.retry_source_cid = a.retry_source_cid /\ q.retry_count = a.retry_count
  <2>1. /\ q.tls = p.tls /\ q.version = p.version
        /\ q.version_negotiated_compatible = p.version_negotiated_compatible
        /\ q.handled = p.handled /\ q.failed = p.failed
        /\ q.handshake_complete = p.handshake_complete
        /\ q.cryptos_initial = p.cryptos_initial /\ q.original_cid = p.original_cid
        /\ q.retry_source_cid = p.retry_source_cid /\ q.retry_count = p.retry_count
        BY <1>6, <1>7 DEF Connections
  <2>2. QED BY <2>1 DEF Handled, handled
<1>10. /\ q.received = a.received /\ q.peer_cid = a.peer_cid /\ q.discarded = a.discarded
       /\ q.flight = a.flight /\ q.overtaken = a.overtaken /\ q.pending = pending
  <2>1. /\ q.received = p.received /\ q.peer_cid = p.peer_cid /\ q.discarded = p.discarded
        /\ q.flight = p.flight /\ q.overtaken = p.overtaken /\ q.pending = pending
        BY <1>6, <1>7 DEF Connections
  <2>2. QED BY <2>1 DEF Handled
<1>11. Own(x, q)
  <2>1. \A i \in Epoch : Sendable(x, a, i) \subseteq Sendable(x, q, i)
        BY <1>8, <1>9, SendableGrows
  <2> HIDE DEF new
  <2>2. ASSUME NEW i \in Epoch PROVE new(i) \subseteq Sendable(x, q, i)
    <3>1. Cryptos([tls |-> tls], i) = Cryptos(q, i)
          BY <1>9 DEF Cryptos
    <3>2. new(i) \subseteq Cryptos(q, i)
          BY <1>2, <3>1
    <3>3. QED BY <3>2 DEF Sendable
  <2>3. ASSUME NEW i \in Epoch PROVE q.pending[i] = a.pending[i] \cup new(i)
        BY <1>10 DEF pending
  <2>4. ASSUME NEW i \in Epoch
        PROVE  /\ q.pending[i] \subseteq Sendable(x, q, i)
               /\ Units(q.flight[i]) \subseteq Sendable(x, q, i)
               /\ q.overtaken[i] \subseteq Sendable(x, q, i)
        BY <1>10, <2>1, <2>2, <2>3 DEF Own
  <2>5. QED BY <2>4 DEF Own
<1>12. CASE q.handshake_complete \/ ~IsComplete(tls)
  <2>1. b = q
        BY <1>9, <1>12 DEF Completed
  <2>2. QED BY <1>8, <1>9, <1>10, <1>11, <1>12, <2>1 DEF Effect, handled, q
<1>13. CASE ~q.handshake_complete /\ IsComplete(tls)
  <2> DEFINE c == [q EXCEPT !.handshake_complete = TRUE]
  <2>1. /\ c \in Connections /\ c.handshake_complete
        /\ c.tls = q.tls /\ c.version = q.version
        /\ c.version_negotiated_compatible = q.version_negotiated_compatible
        /\ c.handled = q.handled /\ c.failed = q.failed
        /\ c.cryptos_initial = q.cryptos_initial /\ c.original_cid = q.original_cid
        /\ c.retry_source_cid = q.retry_source_cid /\ c.retry_count = q.retry_count
        BY <1>8 DEF Connections
  <2>2. /\ c.received = q.received /\ c.peer_cid = q.peer_cid /\ c.discarded = q.discarded
        /\ c.flight = q.flight /\ c.overtaken = q.overtaken /\ c.pending = q.pending
        BY <1>8 DEF Connections
  <2> HIDE DEF c
  <2>3. Own(x, c)
    <3>1. OutputGrows(q.tls.out, c.tls.out)
      <4>1. \A i \in Epoch : tls.out[i] \in Seq(Messages)
            BY DEF Contexts, Outputs
      <4>2. q.tls = tls /\ c.tls = tls
            BY <1>9, <2>1
      <4>3. QED BY ONLY <4>1, <4>2 DEF OutputGrows
    <3>2. \A i \in Epoch : Sendable(x, q, i) \subseteq Sendable(x, c, i)
          BY <1>8, <2>1, <3>1, SendableGrows
    <3>3. ASSUME NEW i \in Epoch
          PROVE  /\ c.pending[i] \subseteq Sendable(x, c, i)
                 /\ Units(c.flight[i]) \subseteq Sendable(x, c, i)
                 /\ c.overtaken[i] \subseteq Sendable(x, c, i)
          BY <1>11, <2>2, <3>2 DEF Own
    <3>4. QED BY <3>3 DEF Own
  <2>4. CASE x = "client"
    <3>1. b = c
          BY <1>9, <1>13, <2>4 DEF Completed, c
    <3>2. QED BY <1>9, <1>10, <1>13, <2>1, <2>2, <2>3, <3>1 DEF Effect, handled, q
  <2>5. CASE x = "server"
    <3> DEFINE g == _discard_epoch(c, "handshake")
               told == [g.pending EXCEPT !["one_rtt"] = @ \cup {Done}]
    <3>1. /\ g \in Connections /\ SameCourse(c, g) /\ Own(x, g)
          /\ g.received = c.received /\ g.peer_cid = c.peer_cid
          /\ g.discarded = c.discarded \cup {"handshake"}
      <4>1. g = _discard_epoch(c, "handshake")
            OBVIOUS
      <4> HIDE DEF g
      <4>2. c \in Connections /\ Own(x, c) /\ "handshake" \in Epoch
            BY <2>1, <2>3, EpochsAre
      <4>3. g \in Connections
            BY <4>1, <4>2, DiscardIs
      <4>4. SameCourse(c, g)
            BY <4>1, <4>2, DiscardIs
      <4>5. Own(x, g)
            BY <4>1, <4>2, DiscardIs
      <4>6. g.received = c.received /\ g.peer_cid = c.peer_cid
            BY <4>1, <4>2, DiscardIs
      <4>7. g.discarded = c.discarded \cup {"handshake"}
            BY <4>1, <4>2, DiscardIs
      <4>8. QED BY <4>3, <4>4, <4>5, <4>6, <4>7
    <3>2. b = [g EXCEPT !.handshake_confirmed = TRUE, !.pending = told]
      <4>1. b = [g EXCEPT !.handshake_confirmed = TRUE,
                          !.pending["one_rtt"] = @ \cup {Done}]
            BY <1>9, <1>13, <2>5 DEF Completed, c
      <4> HIDE DEF g, b
      <4>2. QED BY <3>1, <4>1 DEF Connections
    <3> HIDE DEF g
    <3>3. g.pending \in UnitSets /\ told \in UnitSets
      <4>1. g.pending \in UnitSets
            BY <3>1 DEF Connections
      <4>2. g.pending["one_rtt"] \cup {Done} \in SUBSET UnitType
            BY <4>1, UnitTypes, EpochsAre DEF UnitSets
      <4>3. QED BY <4>1, <4>2 DEF UnitSets
    <3>4. \A i \in Epoch : told[i] \subseteq g.pending[i] \cup {Done}
          BY <3>3 DEF UnitSets
    <3> HIDE DEF told, b
    <3>5. b \in Connections
          BY <3>1, <3>2, <3>3 DEF Connections
    <3>6. SameCourse(g, b) /\ b.received = g.received /\ b.peer_cid = g.peer_cid
          /\ b.discarded = g.discarded /\ b.flight = g.flight /\ b.overtaken = g.overtaken
          /\ b.pending = told
          BY <3>1, <3>2 DEF Connections, SameCourse
    <3>7. b.handshake_complete
          BY <2>1, <3>1, <3>6 DEF SameCourse
    <3>8. Own(x, b)
      <4>1. \A i \in Epoch : Sendable(x, b, i) = Sendable(x, g, i)
            BY <3>1, <3>5, <3>6, StandingStill
      <4>2. \A i \in Epoch : Done \in Sendable(x, b, i)
            BY <2>5, <3>7 DEF Sendable
      <4>3. ASSUME NEW i \in Epoch
            PROVE  /\ b.pending[i] \subseteq Sendable(x, b, i)
                   /\ Units(b.flight[i]) \subseteq Sendable(x, b, i)
                   /\ b.overtaken[i] \subseteq Sendable(x, b, i)
            BY <3>1, <3>4, <3>6, <4>1, <4>2 DEF Own
      <4>4. QED BY <4>3 DEF Own
    <3>9. /\ b.tls = tls /\ b.version = version
          /\ b.version_negotiated_compatible = negotiated /\ b.handled = handled
          /\ (b.failed <=> a.failed \/ tls.alert)
          /\ b.cryptos_initial = a.cryptos_initial /\ b.original_cid = a.original_cid
          /\ b.retry_source_cid = a.retry_source_cid /\ b.retry_count = a.retry_count
          BY <1>9, <2>1, <3>1, <3>6 DEF SameCourse
    <3>10. /\ b.received = a.received /\ b.peer_cid = a.peer_cid
           /\ b.discarded = a.discarded \cup {"handshake"}
          BY <1>10, <2>2, <3>1, <3>6
    <3>11. QED BY <1>13, <2>5, <3>5, <3>7, <3>8, <3>9, <3>10 DEF Effect, handled, b, q
  <2>6. QED BY <2>4, <2>5, Ends
<1>14. QED BY <1>12, <1>13

\* A message after which the order of the messages is kept leaves all that is known.
LEMMA EffectMatched ==
    ASSUME NEW x \in End, NEW a, NEW other, Matched(x, a, other), NEW e \in Epoch,
           NEW b, NEW tls, OutputGrows(a.tls.out, tls.out), NEW version, NEW negotiated,
           Effect(x, a, b, e, tls, version, negotiated),
           IF x = "client" THEN Progress(b, other) ELSE Progress(other, b),
           e = "initial" => a.handled["initial"] = 0,
           version = a.version \/ (e = "initial" /\ Supported(version))
    PROVE  Matched(x, b, other) /\ Advances(x, a, b)
<1>1. a \in Connections /\ b \in Connections /\ other \in Connections /\ Own(x, a) /\ Own(x, b)
      BY Ends DEF Matched, Pair, Effect
<1>2. a.handled \in Counters
      BY <1>1 DEF Connections
<1>3. b.handled["initial"] = IF e = "initial" THEN 1 ELSE a.handled["initial"]
      BY <1>2, EpochsAre DEF Effect, Counters
<1>4. a.handshake_complete => b.handshake_complete
      BY DEF Effect
<1>5. \A i \in Epoch : Sendable(x, a, i) \subseteq Sendable(x, b, i)
  <2>1. OutputGrows(a.tls.out, b.tls.out)
        BY DEF Effect
  <2>2. QED BY <1>1, <1>4, <2>1, SendableGrows
<1>6. Advances(x, a, b)
      BY <1>3, <1>4, <1>5 DEF Advances, Effect
<1>7. CASE x = "client"
  <2>1. Pair(a, other) /\ Progress(b, other)
        BY <1>7 DEF Matched
  <2>2. Heard(b, "server", other) /\ Heard(other, "client", b)
        BY <1>5, <1>7, <2>1 DEF Pair, Heard, Effect
  <2>3. Introduced(b, other)
        BY <2>1 DEF Pair, Introduced, Effect, InitialCid
  <2>4. Discards(b, other)
        BY <1>3, <1>7, <2>1 DEF Pair, Discards, Effect
  <2>5. Pair(b, other)
        BY <1>1, <1>7, <2>1, <2>2, <2>3, <2>4 DEF Pair
  <2>6. QED BY <1>6, <1>7, <2>5 DEF Matched
<1>8. CASE x = "server"
  <2>1. Pair(other, a) /\ Progress(other, b) /\ x # "client"
        BY <1>8 DEF Matched
  <2>2. Heard(other, "server", b) /\ Heard(b, "client", other)
        BY <1>5, <1>8, <2>1 DEF Pair, Heard, Effect
  <2>3. Introduced(other, b)
        BY <2>1 DEF Pair, Introduced, Effect, InitialCid
  <2>4. Discards(other, b)
        BY <1>4, <1>8, <2>1 DEF Pair, Discards, Effect
  <2>5. Pair(other, b)
        BY <1>1, <1>8, <2>1, <2>2, <2>3, <2>4 DEF Pair
  <2>6. QED BY <1>6, <2>1, <2>5 DEF Matched
<1>9. QED BY <1>7, <1>8, Ends

-----------------------------------------------------------------------------
(* The flights.                                                            *)

\* Where the client is in a flight of the server, and what comes next.
LEMMA ServerFlightIs ==
    ASSUME scenario \in Scenarios, NEW s \in Connections
    PROVE  LET flight == ServerFlight(s)
           IN /\ flight \in Seq(Messages) /\ Len(flight) >= 2
              /\ flight[1] = EncryptedExtensions(s)
              /\ flight[1].type = "encrypted_extensions"
              /\ \A i \in 2..Len(flight) :
                    /\ flight[i].extensions = NoExtensions
                    /\ flight[i].type \in {"certificate_request", "certificate",
                                           "certificate_verify", "finished"}
                    /\ flight[i].type = "certificate_request" <=> Requests /\ i = 2
                    /\ flight[i].type = "finished" <=> i = Len(flight)
                    /\ flight[i].type = "certificate_verify" <=> ~Resumes /\ i = Len(flight) - 1
                    /\ flight[i].type = "certificate" <=> ~Resumes /\ i = Len(flight) - 2
              /\ Resumes => Len(flight) = 2
              /\ ~Resumes /\ Requests => Len(flight) = 5
              /\ ~Resumes /\ ~Requests => Len(flight) = 4
<1> DEFINE flight == ServerFlight(s)
           m(type) == Message(type)
<1>1. /\ EncryptedExtensions(s) \in Messages
      /\ EncryptedExtensions(s).type = "encrypted_extensions"
  <2>1. Message("encrypted_extensions") \in Messages
        /\ Message("encrypted_extensions").type = "encrypted_extensions"
        BY MessageType DEF MessageKind
  <2>2. TransportParameters("server", s) \in Extensions
        BY ParametersType DEF Extensions, End
  <2>3. s.tls.early_data_accepted \in BOOLEAN
        BY DEF Connections, Contexts
  <2> HIDE DEF Extensions
  <2>4. QED BY <2>1, <2>2, <2>3 DEF EncryptedExtensions, Messages
<1>2. ASSUME NEW type \in {"certificate_request", "certificate", "certificate_verify",
                           "finished"}
      PROVE  /\ Message(type) \in Messages /\ Message(type).type = type
             /\ Message(type).extensions = NoExtensions
      BY MessageType DEF MessageKind
<1>3. CASE Resumes
  <2>1. flight = <<EncryptedExtensions(s), m("finished")>> /\ ~Requests
        BY <1>3, ScenarioIs DEF ServerFlight
  <2> HIDE DEF flight
  <2>2. QED BY <1>1, <1>2, <1>3, <2>1 DEF flight
<1>4. CASE ~Resumes /\ Requests
  <2>1. flight = <<EncryptedExtensions(s), m("certificate_request"), m("certificate"),
                   m("certificate_verify"), m("finished")>>
        BY <1>4 DEF ServerFlight
  <2> HIDE DEF flight
  <2>2. QED BY <1>1, <1>2, <1>4, <2>1 DEF flight
<1>5. CASE ~Resumes /\ ~Requests
  <2>1. flight = <<EncryptedExtensions(s), m("certificate"), m("certificate_verify"),
                   m("finished")>>
        BY <1>5 DEF ServerFlight
  <2> HIDE DEF flight
  <2>2. QED BY <1>1, <1>2, <1>5, <2>1 DEF flight
<1>6. QED BY <1>3, <1>4, <1>5

\* What each message of the flight is for the client.
LEMMA ClientStates ==
    ASSUME scenario \in Scenarios, NEW s \in Connections,
           NEW k \in 0..(Len(ServerFlight(s)) - 1)
    PROVE  LET flight == ServerFlight(s)
               state == ClientState(k, flight)
               after == ClientState(k + 1, flight)
               type == flight[k + 1].type
           IN \/ /\ k = 0 /\ type = "encrypted_extensions"
                 /\ state = "CLIENT_EXPECT_ENCRYPTED_EXTENSIONS"
                 /\ after = IF Resumes THEN "CLIENT_EXPECT_FINISHED"
                            ELSE "CLIENT_EXPECT_CERTIFICATE_REQUEST_OR_CERTIFICATE"
                 /\ k + 1 # Len(flight)
              \/ /\ k = 1 /\ type = "certificate_request"
                 /\ state = "CLIENT_EXPECT_CERTIFICATE_REQUEST_OR_CERTIFICATE"
                 /\ after = "CLIENT_EXPECT_CERTIFICATE"
                 /\ k + 1 # Len(flight)
              \/ /\ k > 0 /\ type = "certificate"
                 /\ state \in {"CLIENT_EXPECT_CERTIFICATE_REQUEST_OR_CERTIFICATE",
                               "CLIENT_EXPECT_CERTIFICATE"}
                 /\ after = "CLIENT_EXPECT_CERTIFICATE_VERIFY"
                 /\ k + 1 # Len(flight)
              \/ /\ k > 0 /\ type = "certificate_verify"
                 /\ state = "CLIENT_EXPECT_CERTIFICATE_VERIFY"
                 /\ after = "CLIENT_EXPECT_FINISHED"
                 /\ k + 1 # Len(flight)
              \/ /\ k > 0 /\ type = "finished"
                 /\ state = "CLIENT_EXPECT_FINISHED"
                 /\ after = "CLIENT_POST_HANDSHAKE"
                 /\ k + 1 = Len(flight)
<1> DEFINE flight == ServerFlight(s)
           n == Len(flight)
<1>1. /\ n \in {2, 4, 5}
      /\ Resumes => n = 2
      /\ ~Resumes /\ Requests => n = 5
      /\ ~Resumes /\ ~Requests => n = 4
      /\ ~(Resumes /\ Requests)
      /\ flight[1].type = "encrypted_extensions"
      /\ \A i \in 2..n :
            /\ flight[i].type \in {"certificate_request", "certificate",
                                   "certificate_verify", "finished"}
            /\ flight[i].type = "certificate_request" <=> Requests /\ i = 2
            /\ flight[i].type = "finished" <=> i = n
            /\ flight[i].type = "certificate_verify" <=> ~Resumes /\ i = n - 1
            /\ flight[i].type = "certificate" <=> ~Resumes /\ i = n - 2
      BY ServerFlightIs, ScenarioIs
<1> HIDE DEF flight, n
<1>2. k \in Nat /\ k + 1 \in 1..n /\ (k > 0 => k + 1 \in 2..n) /\ (k + 1 < n => k + 2 \in 2..n)
      BY <1>1 DEF n, flight
<1> DEFINE state == ClientState(k, flight)
           after == ClientState(k + 1, flight)
           type == flight[k + 1].type
<1>3. /\ k = 0 => state = "CLIENT_EXPECT_ENCRYPTED_EXTENSIONS"
      /\ k > 0 => state =
            IF type = "finished" THEN "CLIENT_EXPECT_FINISHED"
            ELSE IF type = "certificate_verify" THEN "CLIENT_EXPECT_CERTIFICATE_VERIFY"
            ELSE IF k = 1 THEN "CLIENT_EXPECT_CERTIFICATE_REQUEST_OR_CERTIFICATE"
            ELSE "CLIENT_EXPECT_CERTIFICATE"
      BY <1>2 DEF ClientState, n
<1>4. /\ k + 1 = n => after = "CLIENT_POST_HANDSHAKE"
      /\ k + 1 # n => after =
            IF flight[k + 2].type = "finished" THEN "CLIENT_EXPECT_FINISHED"
            ELSE IF flight[k + 2].type = "certificate_verify"
            THEN "CLIENT_EXPECT_CERTIFICATE_VERIFY"
            ELSE IF k = 0 THEN "CLIENT_EXPECT_CERTIFICATE_REQUEST_OR_CERTIFICATE"
            ELSE "CLIENT_EXPECT_CERTIFICATE"
  <2>1. (k + 1) + 1 = k + 2 /\ k + 1 # 0 /\ (k + 1 = 1 <=> k = 0)
        BY <1>2
  <2>2. QED BY <2>1 DEF ClientState, n
<1> HIDE DEF state, after
<1>5. CASE k = 0
  <2>1. type = "encrypted_extensions" /\ k + 1 # n
        BY <1>1, <1>5
  <2>2. 2 \in 2..n /\ k + 2 = 2
        BY <1>1, <1>5
  <2>3. after = IF Resumes THEN "CLIENT_EXPECT_FINISHED"
                ELSE "CLIENT_EXPECT_CERTIFICATE_REQUEST_OR_CERTIFICATE"
        BY <1>1, <1>4, <1>5, <2>1, <2>2
  <2>4. QED BY <1>3, <1>5, <2>1, <2>3 DEF state, after, n, flight
<1>6. CASE k > 0
  <2>1. CASE type = "certificate_request"
    <3>1. k = 1 /\ n = 5 /\ ~Resumes
          BY <1>1, <1>2, <1>6, <2>1
    <3>2. flight[k + 2].type = "certificate"
          BY <1>1, <3>1
    <3>3. QED BY <1>3, <1>4, <1>6, <2>1, <3>1, <3>2 DEF state, after, n, flight
  <2>2. CASE type = "certificate"
    <3>1. k + 1 = n - 2 /\ ~Resumes /\ k + 2 \in 2..n
          BY <1>1, <1>2, <1>6, <2>2
    <3>2. flight[k + 2].type = "certificate_verify" /\ k + 1 # n
          BY <1>1, <1>2, <3>1
    <3>3. QED BY <1>3, <1>4, <1>6, <2>2, <3>1, <3>2 DEF state, after, n, flight
  <2>3. CASE type = "certificate_verify"
    <3>1. k + 1 = n - 1 /\ k + 2 \in 2..n /\ k + 2 = n
          BY <1>1, <1>2, <1>6, <2>3
    <3>2. flight[k + 2].type = "finished" /\ k + 1 # n
          BY <1>1, <1>2, <3>1
    <3>3. QED BY <1>3, <1>4, <1>6, <2>3, <3>1, <3>2 DEF state, after, n, flight
  <2>4. CASE type = "finished"
    <3>1. k + 1 = n
          BY <1>1, <1>2, <1>6, <2>4
    <3>2. QED BY <1>3, <1>4, <1>6, <2>4, <3>1 DEF state, after, n, flight
  <2>5. QED BY <1>1, <1>2, <1>6, <2>1, <2>2, <2>3, <2>4
<1>7. QED BY <1>2, <1>5, <1>6

-----------------------------------------------------------------------------
(* The client reads.                                                       *)

\* What the handler of the extensions of a message sets: the version, that it is agreed,
\* and what TLS knows then.
Heeds(x, a, m, version, v, w, t) ==
    _alpn_handler(x, a, m, version) =
        [a EXCEPT !.version = v, !.version_negotiated_compatible = w, !.tls = t]

\* What TLS makes of a message, when the handler of the extensions has set the version;
\* the client takes that of the packet when it is given keys for the first time.
LEMMA MessageIs ==
    ASSUME NEW x \in End, NEW a \in Connections, Own(x, a), NEW e \in Epoch, NEW m,
           NEW version \in STRING,
           NEW v \in STRING, NEW w \in BOOLEAN, NEW t \in Contexts,
           Heeds(x, a, m, version, v, w, t),
           NEW tls \in Contexts, tls = _handle_reassembled_message(t, m),
           OutputGrows(a.tls.out, tls.out),
           x = "client" => w \/ tls.keys # a.tls.keys
    PROVE  Effect(x, a, HandleMessage(x, a, e, m, version), e, tls,
                  IF x = "client" /\ ~w THEN version ELSE v, x = "client" \/ w)
<1> DEFINE v2 == IF x = "client" /\ ~w THEN version ELSE v
           w2 == x = "client" \/ w
           n == _alpn_handler(x, a, m, version)
           updated == IF tls.keys # a.tls.keys
                      THEN _update_traffic_key(x, n, version) ELSE n
           p == [updated EXCEPT !.tls = tls, !.failed = @ \/ tls.alert, !.handled[e] = @ + 1]
<1>1. n = [a EXCEPT !.version = v, !.version_negotiated_compatible = w, !.tls = t]
      BY DEF Heeds
<1> HIDE DEF n
<1>2. n.tls = t /\ n.version_negotiated_compatible = w /\ n \in Connections
      BY <1>1 DEF Connections
<1>3. HandleMessage(x, a, e, m, version) = Completed(x, _push_crypto_data(p, a.tls))
      BY <1>2 DEF HandleMessage, n
<1>4. v2 \in STRING /\ w2 \in BOOLEAN
      OBVIOUS
<1>5. updated = [a EXCEPT !.version = v2, !.version_negotiated_compatible = w2, !.tls = t]
  <2>1. CASE x = "client" /\ ~w
    <3>1. updated = [n EXCEPT !.version = version, !.version_negotiated_compatible = TRUE]
          BY <1>2, <2>1 DEF _update_traffic_key
    <3>2. v2 = version /\ w2 = TRUE
          BY <2>1
    <3> HIDE DEF updated, v2, w2
    <3>3. QED BY <1>1, <3>1, <3>2 DEF Connections
  <2>2. CASE ~(x = "client" /\ ~w)
    <3>1. updated = n
          BY <1>2, <2>2 DEF _update_traffic_key
    <3>2. v2 = v /\ w2 = w
          BY <2>2
    <3>3. QED BY <1>1, <3>1, <3>2
  <2>3. QED BY <2>1, <2>2
<1> HIDE DEF updated, v2, w2
<1>6. /\ updated \in Connections /\ updated.version = v2
      /\ updated.version_negotiated_compatible = w2
      /\ updated.handled = a.handled /\ updated.failed = a.failed
      /\ updated.handshake_complete = a.handshake_complete
      /\ updated.cryptos_initial = a.cryptos_initial /\ updated.original_cid = a.original_cid
      /\ updated.retry_source_cid = a.retry_source_cid /\ updated.retry_count = a.retry_count
      /\ updated.received = a.received /\ updated.peer_cid = a.peer_cid
      /\ updated.discarded = a.discarded /\ updated.flight = a.flight
      /\ updated.overtaken = a.overtaken /\ updated.pending = a.pending
  <2>1. updated \in Connections
        BY ONLY a \in Connections, t \in Contexts, <1>4, <1>5 DEF Connections
  <2>2. QED BY <1>5, <2>1 DEF Connections
<1>7. Handled(a, p, e, tls, v2, w2)
  <2> DEFINE failed == updated.failed \/ tls.alert
             handled == [updated.handled EXCEPT ![e] = @ + 1]
  <2>1. failed \in BOOLEAN /\ handled \in Counters
        BY <1>6 DEF Connections, Counters, Contexts
  <2>2. p = [updated EXCEPT !.tls = tls, !.failed = failed, !.handled = handled]
        OBVIOUS
  <2> HIDE DEF p, failed, handled
  <2>3. p \in Connections
    <3>1. updated \in Connections /\ tls \in Contexts
          BY <1>6
    <3>2. [updated EXCEPT !.tls = tls] \in Connections
          BY ONLY <3>1 DEF Connections
    <3> DEFINE q == [updated EXCEPT !.tls = tls]
               r == [q EXCEPT !.failed = failed]
    <3>3. q \in Connections /\ p = [q EXCEPT !.failed = failed, !.handled = handled]
          BY <2>2, <3>2
    <3> HIDE DEF q
    <3>4. r \in Connections
          BY ONLY <2>1, <3>3 DEF Connections
    <3>5. p = [r EXCEPT !.handled = handled]
          BY <3>3
    <3> HIDE DEF r
    <3>6. QED BY ONLY <2>1, <3>4, <3>5 DEF Connections
  <2>4. /\ p.tls = tls /\ p.version = updated.version
        /\ p.version_negotiated_compatible = updated.version_negotiated_compatible
        /\ p.handled = handled /\ p.failed = failed
        /\ p.handshake_complete = updated.handshake_complete
        /\ p.cryptos_initial = updated.cryptos_initial
        /\ p.original_cid = updated.original_cid
        /\ p.retry_source_cid = updated.retry_source_cid
        /\ p.retry_count = updated.retry_count
        BY <1>6, <2>2 DEF Connections
  <2>5. /\ p.received = updated.received /\ p.peer_cid = updated.peer_cid
        /\ p.discarded = updated.discarded /\ p.flight = updated.flight
        /\ p.overtaken = updated.overtaken /\ p.pending = updated.pending
        BY <1>6, <2>2 DEF Connections
  <2>6. p.handled = [a.handled EXCEPT ![e] = @ + 1]
        BY <1>6, <2>4 DEF handled
  <2>7. p.failed <=> a.failed \/ tls.alert
        BY <1>6, <2>4 DEF failed
  <2>8. QED BY <1>6, <2>3, <2>4, <2>5, <2>6, <2>7 DEF Handled
<1> HIDE DEF p
<1>8. Effect(x, a, Completed(x, _push_crypto_data(p, a.tls)), e, tls, v2, w2)
  <2>1. x \in End /\ a \in Connections /\ Own(x, a) /\ e \in Epoch /\ tls \in Contexts
        /\ OutputGrows(a.tls.out, tls.out)
        OBVIOUS
  <2>2. QED BY ONLY <1>4, <1>7, <2>1, PushingIs
<1>9. QED BY <1>3, <1>8 DEF v2, w2

\* A message that has no extensions.
LEMMA PlainMessage ==
    ASSUME NEW x \in End, NEW a \in Connections, Own(x, a), NEW e \in Epoch,
           NEW m, m.extensions = NoExtensions, NEW version \in STRING,
           NEW tls \in Contexts, tls = _handle_reassembled_message(a.tls, m),
           OutputGrows(a.tls.out, tls.out),
           x = "client" => a.version_negotiated_compatible \/ tls.keys # a.tls.keys
    PROVE  Effect(x, a, HandleMessage(x, a, e, m, version), e, tls,
                  IF x = "client" /\ ~a.version_negotiated_compatible
                  THEN version ELSE a.version,
                  x = "client" \/ a.version_negotiated_compatible)
<1> DEFINE v == a.version
           w == a.version_negotiated_compatible
           t == a.tls
<1>1. _alpn_handler(x, a, m, version) = a
      BY DEF _alpn_handler
<1>2. v \in STRING /\ w \in BOOLEAN /\ t \in Contexts
      BY DEF Connections
<1>3. a = [a EXCEPT !.version = v, !.version_negotiated_compatible = w, !.tls = t]
      BY DEF Connections
<1>4. Heeds(x, a, m, version, v, w, t)
      BY <1>1, <1>3 DEF Heeds
<1>5. /\ x \in End /\ a \in Connections /\ Own(x, a) /\ e \in Epoch /\ version \in STRING
      /\ tls \in Contexts /\ tls = _handle_reassembled_message(t, m)
      /\ OutputGrows(a.tls.out, tls.out)
      /\ x = "client" => w \/ tls.keys # a.tls.keys
      OBVIOUS
<1> HIDE DEF v, w, t
<1>6. Effect(x, a, HandleMessage(x, a, e, m, version), e, tls,
             IF x = "client" /\ ~w THEN version ELSE v, x = "client" \/ w)
      BY ONLY <1>2, <1>4, <1>5, MessageIs
<1>7. QED BY <1>6 DEF v, w

\* Moving to another state of TLS changes nothing else.
LEMMA ContextIs ==
    ASSUME NEW tls \in Contexts
    PROVE  /\ \A state \in State : Moved(tls, state) \in Contexts
           /\ OutputGrows(tls.out, tls.out)
           /\ \A e \in Epoch : tls.out[e] \in Seq(Messages)
<1>1. \A state \in State : Moved(tls, state) \in Contexts
      BY DEF Moved, Contexts
<1>2. \A e \in Epoch : tls.out[e] \in Seq(Messages)
      BY DEF Contexts, Outputs
<1>3. QED BY <1>1, <1>2 DEF OutputGrows

\* The ServerHello is a message with no parameters.
LEMMA ServerHelloIs ==
    ASSUME scenario \in Scenarios
    PROVE  /\ ServerHello \in Messages /\ ServerHello.type = "server_hello"
           /\ ServerHello.psk = Resumes /\ ServerHello.extensions = NoExtensions
<1>1. /\ Message("server_hello") \in Messages
      /\ Message("server_hello").type = "server_hello"
      /\ Message("server_hello").extensions = NoExtensions
      BY MessageType DEF MessageKind
<1>2. Resumes \in BOOLEAN
      BY ScenarioIs
<1> HIDE DEF Resumes
<1>3. QED BY <1>1, <1>2 DEF ServerHello, Messages

\* The server's hello gives the client the keys of the handshake and its version.
LEMMA ClientTakesHello ==
    ASSUME scenario \in Scenarios, NEW c, NEW s, Pair(c, s), ClientWaits(c),
           ServerReads(s, c)
    PROVE  LET b == HandleMessage("client", c, "initial", ServerHello, s.version)
           IN Matched("client", b, s) /\ Advances("client", c, b)
<1> DEFINE t == c.tls
           key == <<"decrypt", "handshake">>
           tls == _handle_reassembled_message(t, ServerHello)
           b == HandleMessage("client", c, "initial", ServerHello, s.version)
           known == [t EXCEPT !.session_resumed = Resumes, !.keys = @ \cup {key},
                              !.state = "CLIENT_EXPECT_ENCRYPTED_EXTENSIONS"]
<1>1. /\ c \in Connections /\ s \in Connections /\ Own("client", c) /\ t \in Contexts
      /\ s.version \in STRING /\ t.options = scenario.options["client"] /\ ~t.alert
      /\ ~c.failed /\ c.cryptos_initial # None
      BY DEF Pair, Progress, ServerReads, Connections
<1>2. t.state = "CLIENT_EXPECT_SERVER_HELLO"
      BY <1>1 DEF ClientWaits
<1>3. tls = known
  <2>1. tls = _client_handle_hello(t, ServerHello)
        BY <1>2, ServerHelloIs, Handlers
  <2>2. ~(ServerHello.psk /\ ~t.options.ticket)
        BY <1>1, ServerHelloIs DEF Resumes
  <2> HIDE DEF Resumes, t, tls
  <2>3. tls = Moved(Setup([t EXCEPT !.session_resumed = Resumes], {key}),
                    "CLIENT_EXPECT_ENCRYPTED_EXTENSIONS")
        BY <2>1, <2>2, ServerHelloIs DEF _client_handle_hello
  <2>4. QED BY <1>1, <2>3 DEF Moved, Setup, Contexts
<1>4. /\ tls \in Contexts /\ tls.out = t.out /\ ~tls.alert /\ tls.options = t.options
      /\ tls.session_resumed = Resumes /\ tls.keys = t.keys \cup {key}
      /\ tls.state = "CLIENT_EXPECT_ENCRYPTED_EXTENSIONS"
      /\ tls.certificate_request = t.certificate_request
  <2>1. key \in Keys
        BY EpochsAre DEF Keys
  <2>2. Resumes \in BOOLEAN
        BY ScenarioIs
  <2>3. "CLIENT_EXPECT_ENCRYPTED_EXTENSIONS" \in State
        BY DEF State
  <2> HIDE DEF key, tls, Resumes, State, t
  <2>4. QED BY <1>1, <1>3, <2>1, <2>2, <2>3 DEF Contexts
<1>5. key \notin t.keys
      BY DEF ClientWaits
<1> HIDE DEF known
<1>6. Effect("client", c, b, "initial", tls, s.version, TRUE)
  <2>1. OutputGrows(c.tls.out, tls.out)
        BY <1>1, <1>4, ContextIs
  <2>2. ServerHello \in Messages /\ ServerHello.extensions = NoExtensions
        BY ServerHelloIs
  <2>3. tls.keys # c.tls.keys
        BY <1>4, <1>5
  <2>4. "client" \in End /\ "initial" \in Epoch
        BY EpochsAre DEF End
  <2>5. ~c.version_negotiated_compatible
        BY DEF ClientWaits
  <2>6. tls = _handle_reassembled_message(c.tls, ServerHello)
        OBVIOUS
  <2> HIDE DEF tls, t
  <2>7. Effect("client", c, b, "initial", tls,
               IF "client" = "client" /\ ~c.version_negotiated_compatible
               THEN s.version ELSE c.version,
               "client" = "client" \/ c.version_negotiated_compatible)
        BY <1>1, <1>4, <2>1, <2>2, <2>3, <2>4, <2>6, PlainMessage
  <2>8. QED BY <2>5, <2>7
<1> HIDE DEF b, tls
<1>7. /\ b.tls = tls /\ b.version = s.version /\ b.version_negotiated_compatible
      /\ b.handled = [c.handled EXCEPT !["initial"] = @ + 1]
      /\ ~b.failed /\ ~b.handshake_complete /\ b.cryptos_initial = c.cryptos_initial
  <2>1. ~IsComplete(tls)
        BY <1>4 DEF IsComplete
  <2>2. QED BY <1>1, <1>4, <1>6, <2>1 DEF Effect, ClientWaits
<1>8. b.handled["initial"] = 1 /\ b.handled["handshake"] = 0
      BY <1>7, EpochsAre DEF ClientWaits
<1>9. ClientReads(b, s)
  <2>1. Len(ServerFlight(s)) >= 2 /\ 0 # Len(ServerFlight(s)) /\ 0 =< Len(ServerFlight(s))
        BY <1>1, ServerFlightIs
  <2>2. ClientState(0, ServerFlight(s)) = "CLIENT_EXPECT_ENCRYPTED_EXTENSIONS"
        BY <2>1 DEF ClientState
  <2>3. Len(b.tls.out["initial"]) = 1 /\ b.tls.out["one_rtt"] = <<>>
        /\ b.tls.out["handshake"] = <<>>
    <3>1. /\ c.tls.out["initial"] = <<Hello(c.version)>> /\ c.tls.out["one_rtt"] = <<>>
          /\ c.tls.out["handshake"] = <<>>
          BY <1>1 DEF ClientWaits
    <3>2. b.tls.out = c.tls.out
          BY <1>4, <1>7
    <3>3. Len(<<Hello(c.version)>>) = 1
          OBVIOUS
    <3>4. QED BY ONLY <3>1, <3>2, <3>3
  <2>4. ~b.tls.certificate_request /\ ~(\E i \in 1..0 : ServerFlight(s)[i].type = "certificate_request")
        BY <1>4, <1>7 DEF ClientWaits
  <2>5. /\ <<"encrypt", "handshake">> \notin b.tls.keys
        /\ <<"decrypt", "one_rtt">> \notin b.tls.keys
        BY <1>4, <1>7 DEF ClientWaits
  <2>6. s.handled["initial"] = 1
        BY DEF ServerReads
  <2>7. b.tls.session_resumed = Resumes /\ b.tls.state = "CLIENT_EXPECT_ENCRYPTED_EXTENSIONS"
        BY <1>4, <1>7
  <2>8. QED BY <1>7, <1>8, <2>1, <2>2, <2>3, <2>4, <2>5, <2>6, <2>7 DEF ClientReads
<1>10. ServerReads(s, b)
  <2>1. b.tls.out = c.tls.out /\ b.cryptos_initial # None
        BY <1>1, <1>4, <1>7
  <2>2. QED BY <2>1 DEF ServerReads
<1>11. Progress(b, s)
      BY <1>1, <1>4, <1>7, <1>9, <1>10 DEF Pair, Progress
<1>12. c.handled["initial"] = 0 /\ Supported(s.version) /\ Matched("client", c, s)
       /\ "client" \in End
  <2>1. Supported(s.version)
        BY DEF Pair, Introduced, ServerReads
  <2>2. QED BY <2>1, EpochsAre DEF ClientWaits, Matched, End
<1>13. OutputGrows(c.tls.out, tls.out)
      BY <1>1, <1>4, ContextIs
<1>14. QED BY <1>6, <1>11, <1>12, <1>13, EffectMatched, EpochsAre DEF b

-----------------------------------------------------------------------------
(* The messages of the server's flight.                                    *)

\* Sequences joined, the second of one element.
LEMMA Joined ==
    ASSUME NEW S, NEW f \in Seq(S), NEW g \in Seq(S), NEW h \in Seq(S),
           Len(g) = 1, Len(h) = Len(f) + 1, \A i \in 1..Len(f) : h[i] = f[i],
           h[Len(f) + 1] = g[1]
    PROVE  f \o g = h
<1>1. /\ f \o g \in Seq(S) /\ Len(f \o g) = Len(f) + Len(g)
      /\ \A i \in 1..Len(f) + Len(g) : (f \o g)[i] = IF i <= Len(f) THEN f[i] ELSE g[i - Len(f)]
      BY ConcatProperties
<1>2. Len(f \o g) = Len(h)
      BY <1>1
<1>3. \A i \in 1..Len(f \o g) : (f \o g)[i] = h[i]
  <2> SUFFICES ASSUME NEW i \in 1..Len(f) + 1 PROVE (f \o g)[i] = h[i]
      BY <1>1
  <2>1. CASE i =< Len(f)
        BY <1>1, <2>1
  <2>2. CASE i = Len(f) + 1
    <3>1. i - Len(f) = 1 /\ ~(i =< Len(f))
          BY <2>2
    <3>2. QED BY <1>1, <2>2, <3>1
  <2>3. Len(f) \in Nat
        OBVIOUS
  <2>4. i =< Len(f) \/ i = Len(f) + 1
        BY <2>3
  <2>5. QED BY <2>1, <2>2, <2>4
<1>4. QED BY <1>1, <1>2, <1>3, SeqEqual

\* Tuples put together.
LEMMA Tuples ==
    ASSUME NEW S, NEW p \in S, NEW q \in S, NEW r \in S
    PROVE  <<p>> \o <<r>> = <<p, r>> /\ <<p, q>> \o <<r>> = <<p, q, r>>
<1>1. /\ <<p>> \in Seq(S) /\ Len(<<p>>) = 1 /\ <<p>>[1] = p
      /\ <<p, q>> \in Seq(S) /\ Len(<<p, q>>) = 2 /\ <<p, q>>[1] = p /\ <<p, q>>[2] = q
      /\ <<r>> \in Seq(S) /\ Len(<<r>>) = 1 /\ <<r>>[1] = r
      /\ <<p, r>> \in Seq(S) /\ Len(<<p, r>>) = 2 /\ <<p, r>>[1] = p /\ <<p, r>>[2] = r
      /\ <<p, q, r>> \in Seq(S) /\ Len(<<p, q, r>>) = 3
      /\ <<p, q, r>>[1] = p /\ <<p, q, r>>[2] = q /\ <<p, q, r>>[3] = r
      OBVIOUS
<1> DEFINE f == <<p>>
           g == <<p, q>>
           h == <<r>>
           j == <<p, r>>
           k == <<p, q, r>>
<1>2. /\ f \in Seq(S) /\ Len(f) = 1 /\ f[1] = p
      /\ g \in Seq(S) /\ Len(g) = 2 /\ g[1] = p /\ g[2] = q
      /\ h \in Seq(S) /\ Len(h) = 1 /\ h[1] = r
      /\ j \in Seq(S) /\ Len(j) = 2 /\ j[1] = p /\ j[2] = r
      /\ k \in Seq(S) /\ Len(k) = 3 /\ k[1] = p /\ k[2] = q /\ k[3] = r
      BY <1>1
<1> HIDE DEF f, g, h, j, k
<1>3. f \o h = j
  <2>1. Len(h) = 1 /\ Len(j) = Len(f) + 1 /\ (\A i \in 1..Len(f) : j[i] = f[i])
        /\ j[Len(f) + 1] = h[1]
    <3>1. Len(f) + 1 = 2 /\ 1..Len(f) = {1}
          BY <1>2
    <3>2. QED BY <1>2, <3>1
  <2>2. QED BY <1>2, <2>1, Joined
<1>4. g \o h = k
  <2>1. Len(h) = 1 /\ Len(k) = Len(g) + 1 /\ (\A i \in 1..Len(g) : k[i] = g[i])
        /\ k[Len(g) + 1] = h[1]
    <3>1. Len(g) + 1 = 3 /\ 1..Len(g) = {1, 2}
          BY <1>2
    <3>2. QED BY <1>2, <3>1
  <2>2. QED BY <1>2, <2>1, Joined
<1>5. QED BY <1>3, <1>4 DEF f, g, h, j, k

\* What a message of the server's flight does to the client's TLS context.
FlightStep(t, u, m, k, flight) ==
    /\ u \in Contexts /\ u.alert = t.alert /\ u.options = t.options
    /\ u.session_resumed = t.session_resumed
    /\ u.state = ClientState(k + 1, flight)
    /\ u.certificate_request <=> t.certificate_request \/ m.type = "certificate_request"
    /\ u.early_data_accepted = IF k = 0 THEN m.early ELSE t.early_data_accepted
    /\ u.keys = t.keys \cup (IF k = 0 THEN {<<"encrypt", "handshake">>} ELSE {})
                       \cup (IF k + 1 = Len(flight)
                             THEN {"encrypt", "decrypt"} \X {"one_rtt"} ELSE {})
    /\ u.out = IF k + 1 = Len(flight)
               THEN [t.out EXCEPT !["handshake"] = @ \o ClientFlight] ELSE t.out

\* The same, when the message moves the state and nothing else.
LEMMA PlainFlightStep ==
    ASSUME scenario \in Scenarios, NEW s \in Connections,
           NEW k \in 1..(Len(ServerFlight(s)) - 1), k + 1 # Len(ServerFlight(s)),
           NEW t \in Contexts, NEW state \in State, state = ClientState(k + 1, ServerFlight(s)),
           NEW m, m.type # "certificate_request"
    PROVE  FlightStep(t, Moved(t, state), m, k, ServerFlight(s))
<1> DEFINE u == Moved(t, state)
<1>1. /\ u \in Contexts /\ u.alert = t.alert /\ u.options = t.options
      /\ u.session_resumed = t.session_resumed /\ u.state = state
      /\ u.certificate_request = t.certificate_request
      /\ u.early_data_accepted = t.early_data_accepted
      /\ u.keys = t.keys /\ u.out = t.out
  <2> HIDE DEF State
  <2>1. QED BY DEF Moved, Contexts
<1> HIDE DEF u
<1>2. k # 0
      BY ServerFlightIs
<1>3. QED BY <1>1, <1>2 DEF FlightStep, u

\* The last flight of the client is one of three, of messages without parameters.
LEMMA ClientFlightIs ==
    ASSUME scenario \in Scenarios
    PROVE  /\ ClientFlight \in Seq(Messages) /\ Len(ClientFlight) > 0
           /\ \A i \in 1..Len(ClientFlight) : ClientFlight[i].extensions = NoExtensions
<1> DEFINE m(type) == Message(type)
<1>1. ASSUME NEW type \in {"certificate", "empty_certificate", "certificate_verify",
                           "finished"}
      PROVE  /\ m(type) \in Messages /\ m(type).extensions = NoExtensions
      BY MessageType DEF MessageKind
<1> HIDE DEF m
<1>2. CASE ~Requests
  <2>1. ClientFlight = <<m("finished")>>
        BY <1>2 DEF ClientFlight, m
  <2>2. QED BY <1>1, <2>1
<1>3. CASE Requests /\ scenario.options["client"].certificate
  <2>1. ClientFlight = <<m("certificate"), m("certificate_verify"), m("finished")>>
        BY <1>3 DEF ClientFlight, m
  <2>2. QED BY <1>1, <2>1
<1>4. CASE Requests /\ ~scenario.options["client"].certificate
  <2>1. ClientFlight = <<m("empty_certificate"), m("finished")>>
        BY <1>4 DEF ClientFlight, m
  <2>2. QED BY <1>1, <2>1
<1>5. QED BY <1>2, <1>3, <1>4

\* Finished is answered by the flight of the client.
LEMMA FinishedIs ==
    ASSUME scenario \in Scenarios, NEW t \in Contexts,
           t.options = scenario.options["client"], t.certificate_request <=> Requests
    PROVE  LET u == _client_handle_finished(t)
           IN /\ u \in Contexts /\ u.alert = t.alert /\ u.options = t.options
              /\ u.session_resumed = t.session_resumed
              /\ u.state = "CLIENT_POST_HANDSHAKE"
              /\ u.certificate_request = t.certificate_request
              /\ u.early_data_accepted = t.early_data_accepted
              /\ u.keys = t.keys \cup ({"encrypt", "decrypt"} \X {"one_rtt"})
              /\ u.out = [t.out EXCEPT !["handshake"] = @ \o ClientFlight]
<1> DEFINE certificate == IF t.options.certificate
               THEN <<Message("certificate"), Message("certificate_verify")>>
               ELSE <<Message("empty_certificate")>>
           flight == (IF t.certificate_request THEN certificate ELSE <<>>)
                         \o <<Message("finished")>>
           keys == t.keys \cup ({"encrypt", "decrypt"} \X {"one_rtt"})
           out == [t.out EXCEPT !["handshake"] = @ \o ClientFlight]
           u == _client_handle_finished(t)
<1>1. flight = ClientFlight
  <2>1. ASSUME NEW p \in Messages, NEW q \in Messages, NEW r \in Messages
        PROVE  /\ <<p, q>> \o <<r>> = <<p, q, r>> /\ <<p>> \o <<r>> = <<p, r>>
               /\ <<>> \o <<r>> = <<r>>
    <3>1. /\ <<p, q>> \o <<r>> = <<p, q, r>> /\ <<p>> \o <<r>> = <<p, r>>
          BY Tuples
    <3>2. <<r>> \in Seq(Messages)
          OBVIOUS
    <3>3. <<>> \o <<r>> = <<r>>
          BY <3>2, ConcatEmptySeq
    <3>4. QED BY <3>1, <3>3
  <2>6. \A type \in {"certificate", "empty_certificate", "certificate_verify", "finished"} :
            Message(type) \in Messages
        BY MessageType DEF MessageKind
  <2>2. CASE ~Requests
        BY <2>1, <2>6, <2>2 DEF ClientFlight
  <2>3. CASE Requests /\ scenario.options["client"].certificate
        BY <2>1, <2>6, <2>3 DEF ClientFlight
  <2>4. CASE Requests /\ ~scenario.options["client"].certificate
        BY <2>1, <2>6, <2>4 DEF ClientFlight
  <2>5. QED BY <2>2, <2>3, <2>4
<1>2. u = Moved(Push(Setup(t, {"encrypt", "decrypt"} \X {"one_rtt"}), "handshake", flight),
                "CLIENT_POST_HANDSHAKE")
      BY DEF _client_handle_finished
<1> HIDE DEF flight
<1>3. u = [t EXCEPT !.keys = keys, !.out = out, !.state = "CLIENT_POST_HANDSHAKE"]
  <2>1. u = Moved(Push(Setup(t, {"encrypt", "decrypt"} \X {"one_rtt"}), "handshake",
                       ClientFlight), "CLIENT_POST_HANDSHAKE")
        BY <1>1, <1>2
  <2> HIDE DEF u
  <2>2. QED BY <2>1 DEF Moved, Push, Setup, Contexts
<1>4. out \in Outputs
  <2>1. t.out \in Outputs /\ t.out["handshake"] \in Seq(Messages)
        BY EpochsAre DEF Contexts, Outputs
  <2>2. t.out["handshake"] \o ClientFlight \in Seq(Messages)
        BY <2>1, ClientFlightIs
  <2>3. QED BY <2>1, <2>2 DEF Outputs
<1>5. keys \in SUBSET Keys
  <2>1. {"encrypt", "decrypt"} \X {"one_rtt"} \subseteq Keys
        BY EpochsAre DEF Keys
  <2>2. QED BY <2>1 DEF Contexts
<1>6. "CLIENT_POST_HANDSHAKE" \in State
      BY DEF State
<1> HIDE DEF keys, out, u, State
<1>7. u \in Contexts
      BY <1>3, <1>4, <1>5, <1>6 DEF Contexts
<1>8. QED BY <1>3, <1>7 DEF Contexts, keys, out, u

\* The client takes any message of the server's flight in its turn.
LEMMA FlightStepIs ==
    ASSUME scenario \in Scenarios, NEW s \in Connections,
           NEW k \in 0..(Len(ServerFlight(s)) - 1),
           NEW t \in Contexts, t.options = scenario.options["client"],
           t.session_resumed = Resumes, t.state = ClientState(k, ServerFlight(s)),
           t.certificate_request <=>
               \E i \in 1..k : ServerFlight(s)[i].type = "certificate_request"
    PROVE  FlightStep(t, _handle_reassembled_message(t, ServerFlight(s)[k + 1]),
                      ServerFlight(s)[k + 1], k, ServerFlight(s))
<1> DEFINE flight == ServerFlight(s)
           m == flight[k + 1]
           u == _handle_reassembled_message(t, m)
           state == t.state
           after == ClientState(k + 1, flight)
<1>1. /\ flight \in Seq(Messages) /\ Len(flight) >= 2
      /\ \A i \in 2..Len(flight) : flight[i].type = "certificate_request" <=> Requests /\ i = 2
      /\ flight[1].type = "encrypted_extensions"
      /\ Resumes => Len(flight) = 2
      /\ ~Resumes /\ Requests => Len(flight) = 5
      /\ Resumes \in BOOLEAN /\ ~(Resumes /\ Requests)
      BY ServerFlightIs, ScenarioIs
<1>2. \/ /\ k = 0 /\ m.type = "encrypted_extensions"
         /\ state = "CLIENT_EXPECT_ENCRYPTED_EXTENSIONS"
         /\ after = IF Resumes THEN "CLIENT_EXPECT_FINISHED"
                    ELSE "CLIENT_EXPECT_CERTIFICATE_REQUEST_OR_CERTIFICATE"
         /\ k + 1 # Len(flight)
      \/ /\ k = 1 /\ m.type = "certificate_request"
         /\ state = "CLIENT_EXPECT_CERTIFICATE_REQUEST_OR_CERTIFICATE"
         /\ after = "CLIENT_EXPECT_CERTIFICATE"
         /\ k + 1 # Len(flight)
      \/ /\ k > 0 /\ m.type = "certificate"
         /\ state \in {"CLIENT_EXPECT_CERTIFICATE_REQUEST_OR_CERTIFICATE",
                       "CLIENT_EXPECT_CERTIFICATE"}
         /\ after = "CLIENT_EXPECT_CERTIFICATE_VERIFY"
         /\ k + 1 # Len(flight)
      \/ /\ k > 0 /\ m.type = "certificate_verify"
         /\ state = "CLIENT_EXPECT_CERTIFICATE_VERIFY"
         /\ after = "CLIENT_EXPECT_FINISHED"
         /\ k + 1 # Len(flight)
      \/ /\ k > 0 /\ m.type = "finished"
         /\ state = "CLIENT_EXPECT_FINISHED"
         /\ after = "CLIENT_POST_HANDSHAKE"
         /\ k + 1 = Len(flight)
      BY ClientStates
<1>3. k \in Nat /\ k + 1 \in 1..Len(flight)
      BY <1>1
<1>4. m \in Messages
      BY <1>1, <1>3
<1>5. /\ "CLIENT_EXPECT_FINISHED" \in State
      /\ "CLIENT_EXPECT_CERTIFICATE_REQUEST_OR_CERTIFICATE" \in State
      /\ "CLIENT_EXPECT_CERTIFICATE" \in State /\ "CLIENT_EXPECT_CERTIFICATE_VERIFY" \in State
      BY DEF State
<1> HIDE DEF flight, m, u, after, state
<1>6. CASE k = 0
  <2>1. m.type = "encrypted_extensions" /\ state = "CLIENT_EXPECT_ENCRYPTED_EXTENSIONS"
        /\ k + 1 # Len(flight)
        /\ after = IF Resumes THEN "CLIENT_EXPECT_FINISHED"
                   ELSE "CLIENT_EXPECT_CERTIFICATE_REQUEST_OR_CERTIFICATE"
        BY <1>2, <1>6
  <2>2. u = _client_handle_encrypted_extensions(t, m)
        BY <2>1, Handlers DEF state, u
  <2>3. u = Moved(Setup([t EXCEPT !.early_data_accepted = m.early],
                        {<<"encrypt", "handshake">>}), after)
        BY <2>1, <2>2 DEF _client_handle_encrypted_extensions, Setup
  <2>4. m.early \in BOOLEAN /\ after \in State
        BY <1>4, <1>5, <2>1 DEF Messages
  <2> DEFINE keys == t.keys \cup {<<"encrypt", "handshake">>}
             early == m.early
  <2>5. keys \in SUBSET Keys
        BY EpochsAre DEF Contexts, Keys
  <2>6. u = [t EXCEPT !.early_data_accepted = early, !.keys = keys, !.state = after]
        BY <2>3 DEF Moved, Setup, Contexts
  <2> HIDE DEF keys, early, State
  <2>7. u \in Contexts
        BY <2>4, <2>5, <2>6 DEF Contexts, early
  <2>8. /\ u.alert = t.alert /\ u.options = t.options /\ u.session_resumed = t.session_resumed
        /\ u.state = after /\ u.certificate_request = t.certificate_request
        /\ u.early_data_accepted = early /\ u.keys = keys /\ u.out = t.out
        BY <2>6 DEF Contexts
  <2>9. QED BY <1>6, <2>1, <2>7, <2>8 DEF FlightStep, keys, early, after, u, m, flight
<1>7. CASE m.type = "certificate_request"
  <2>1. k = 1 /\ state = "CLIENT_EXPECT_CERTIFICATE_REQUEST_OR_CERTIFICATE"
        /\ k + 1 # Len(flight) /\ after = "CLIENT_EXPECT_CERTIFICATE"
        BY <1>2, <1>7
  <2>2. u = _client_handle_certificate_request(t)
        BY <1>7, <2>1, Handlers DEF state, u
  <2>3. u = [t EXCEPT !.certificate_request = TRUE, !.state = after]
        BY <2>1, <2>2 DEF _client_handle_certificate_request, Moved, Contexts
  <2> HIDE DEF State
  <2>4. u \in Contexts
        BY <1>5, <2>1, <2>3 DEF Contexts
  <2>5. /\ u.alert = t.alert /\ u.options = t.options /\ u.session_resumed = t.session_resumed
        /\ u.state = after /\ u.certificate_request
        /\ u.early_data_accepted = t.early_data_accepted /\ u.keys = t.keys /\ u.out = t.out
        BY <2>3 DEF Contexts
  <2>6. QED BY <1>7, <2>1, <2>4, <2>5 DEF FlightStep, after, u, m, flight
<1>8. CASE m.type \in {"certificate", "certificate_verify"}
  <2>1. k > 0 /\ k + 1 # Len(flight) /\ u = Moved(t, after) /\ after \in State
        /\ m.type # "certificate_request"
    <3>1. CASE m.type = "certificate"
      <4>1. k > 0 /\ k + 1 # Len(flight) /\ after = "CLIENT_EXPECT_CERTIFICATE_VERIFY"
            /\ state \in {"CLIENT_EXPECT_CERTIFICATE_REQUEST_OR_CERTIFICATE",
                          "CLIENT_EXPECT_CERTIFICATE"}
            BY <1>2, <3>1
      <4>2. u = _client_handle_certificate(t)
            BY <3>1, <4>1, Handlers DEF state, u
      <4>3. QED BY <1>5, <3>1, <4>1, <4>2 DEF _client_handle_certificate
    <3>2. CASE m.type = "certificate_verify"
      <4>1. k > 0 /\ k + 1 # Len(flight) /\ after = "CLIENT_EXPECT_FINISHED"
            /\ state = "CLIENT_EXPECT_CERTIFICATE_VERIFY"
            BY <1>2, <3>2
      <4>2. u = _client_handle_certificate_verify(t)
            BY <3>2, <4>1, Handlers DEF state, u
      <4>3. QED BY <1>5, <3>2, <4>1, <4>2 DEF _client_handle_certificate_verify
    <3>3. QED BY <1>8, <3>1, <3>2
  <2>2. k \in 1..(Len(ServerFlight(s)) - 1)
        BY <1>1, <2>1 DEF flight
  <2>3. QED BY <2>1, <2>2, PlainFlightStep DEF flight, after, u, m
<1>9. CASE m.type = "finished"
  <2>1. k > 0 /\ k + 1 = Len(flight) /\ state = "CLIENT_EXPECT_FINISHED"
        /\ after = "CLIENT_POST_HANDSHAKE"
        BY <1>2, <1>9
  <2>2. u = _client_handle_finished(t)
        BY <1>9, <2>1, Handlers DEF state, u
  <2>3. t.certificate_request <=> Requests
    <3>1. CASE Requests
      <4>1. Len(flight) = 5
            BY <1>1, <3>1
      <4>4. k = 4
            BY <1>3, <2>1, <4>1
      <4>2. flight[2].type = "certificate_request"
            BY <1>1, <3>1, <4>1
      <4>3. QED BY <3>1, <4>2, <4>4 DEF flight
    <3>2. CASE ~Requests
      <4>1. ASSUME NEW i \in 1..k PROVE flight[i].type # "certificate_request"
        <5>1. i = 1 \/ i \in 2..Len(flight)
              BY <1>1, <1>3
        <5>2. QED BY <1>1, <3>2, <5>1
      <4>2. QED BY <3>2, <4>1 DEF flight
    <3>3. QED BY <3>1, <3>2
  <2>4. /\ u \in Contexts /\ u.alert = t.alert /\ u.options = t.options
        /\ u.session_resumed = t.session_resumed
        /\ u.state = "CLIENT_POST_HANDSHAKE"
        /\ u.certificate_request = t.certificate_request
        /\ u.early_data_accepted = t.early_data_accepted
        /\ u.keys = t.keys \cup ({"encrypt", "decrypt"} \X {"one_rtt"})
        /\ u.out = [t.out EXCEPT !["handshake"] = @ \o ClientFlight]
        BY <2>2, <2>3, FinishedIs
  <2>5. k # 0
        BY <2>1
  <2>6. QED BY <1>9, <2>1, <2>4, <2>5 DEF FlightStep, after, u, m, flight
<1>10. QED BY <1>2, <1>6, <1>7, <1>8, <1>9

\* The client takes the next message of the server's flight.
LEMMA ClientTakesFlight ==
    ASSUME scenario \in Scenarios, NEW c, NEW s, Pair(c, s), ClientReads(c, s),
           ServerReads(s, c), NEW k, k = c.handled["handshake"], k < Len(ServerFlight(s))
    PROVE  LET b == HandleMessage("client", c, "handshake", ServerFlight(s)[k + 1], c.version)
           IN Matched("client", b, s) /\ Advances("client", c, b)
<1> DEFINE flight == ServerFlight(s)
           m == flight[k + 1]
           t == IF k = 0 THEN [c.tls EXCEPT !.handshake_extensions =
                                   TransportParameters("client", c)]
                ELSE c.tls
           u == _handle_reassembled_message(t, m)
           b == HandleMessage("client", c, "handshake", m, c.version)
<1>1. /\ c \in Connections /\ s \in Connections /\ Own("client", c)
      /\ c.tls \in Contexts /\ c.handled \in Counters /\ c.version \in STRING
      /\ c.tls.options = scenario.options["client"] /\ ~c.tls.alert /\ ~c.failed
      /\ "client" \in End
      BY DEF Pair, Progress, Connections, End
<1>2. /\ flight \in Seq(Messages) /\ Len(flight) >= 2
      /\ flight[1] = EncryptedExtensions(s)
      /\ \A i \in 2..Len(flight) : flight[i].extensions = NoExtensions
      BY <1>1, ServerFlightIs
<1>3. k \in Nat /\ k \in 0..(Len(flight) - 1) /\ k + 1 \in 1..Len(flight)
      BY <1>1, <1>2, EpochsAre DEF Counters
<1>4. m \in Messages
      BY <1>2, <1>3
<1>5. /\ t \in Contexts /\ t.options = c.tls.options /\ t.alert = c.tls.alert
      /\ t.session_resumed = c.tls.session_resumed /\ t.state = c.tls.state
      /\ t.certificate_request = c.tls.certificate_request
      /\ t.early_data_accepted = c.tls.early_data_accepted
      /\ t.keys = c.tls.keys /\ t.out = c.tls.out
  <2>1. CASE k = 0
    <3> DEFINE p == TransportParameters("client", c)
    <3>1. p \in Extensions
          BY <1>1, ParametersType DEF Extensions
    <3> HIDE DEF p
    <3>2. t = [c.tls EXCEPT !.handshake_extensions = p]
          BY <2>1 DEF p
    <3> HIDE DEF t, Extensions
    <3>3. QED BY <1>1, <3>1, <3>2 DEF Contexts
  <2>2. CASE k # 0
        BY <1>1, <2>2
  <2>3. QED BY <2>1, <2>2
<1>6. _alpn_handler("client", c, m, c.version) =
          [c EXCEPT !.version = c.version, !.version_negotiated_compatible = TRUE, !.tls = t]
  <2>1. c = [c EXCEPT !.version = c.version, !.version_negotiated_compatible = TRUE]
    <3>1. c.version_negotiated_compatible = TRUE
          BY <1>1 DEF ClientReads, Connections
    <3>2. QED BY <1>1, <3>1 DEF Connections
  <2>2. CASE k = 0
    <3>1. m = EncryptedExtensions(s)
          BY <1>2, <2>2
    <3>2. m.extensions = TransportParameters("server", s)
      <4>1. Message("encrypted_extensions") \in Messages
            BY MessageType DEF MessageKind
      <4>2. QED BY <3>1, <4>1 DEF EncryptedExtensions, Messages
    <3>3. m.extensions # NoExtensions
          BY <1>1, <3>2, ParametersType, ParametersDiffer DEF End
    <3>4. ParametersHold("client", c, m.extensions, c.version)
      <4>1. /\ c.version = s.version /\ s.original_cid = c.original_cid
            /\ s.retry_source_cid = c.retry_source_cid
            BY DEF ClientReads, ServerReads, Pair, Introduced
      <4>2. QED BY <3>2, <4>1 DEF ParametersHold, TransportParameters
    <3>5. _alpn_handler("client", c, m, c.version) =
              [c EXCEPT !.tls.handshake_extensions = TransportParameters("client", c)]
          BY <3>3, <3>4 DEF _alpn_handler
    <3>6. _alpn_handler("client", c, m, c.version) = [c EXCEPT !.tls = t]
          BY <2>2, <3>5
    <3> HIDE DEF t
    <3>7. QED BY <1>1, <2>1, <3>6 DEF Connections
  <2>3. CASE k # 0
    <3>1. m.extensions = NoExtensions
      <4>1. k + 1 \in 2..Len(flight)
            BY <1>2, <1>3, <2>3
      <4>2. QED BY <1>2, <4>1
    <3>2. _alpn_handler("client", c, m, c.version) = c
          BY <3>1 DEF _alpn_handler
    <3>3. t = c.tls
          BY <2>3
    <3> HIDE DEF t
    <3>4. QED BY <1>1, <2>1, <3>2, <3>3 DEF Connections
  <2>4. QED BY <2>2, <2>3
<1>7. /\ c.tls.state = ClientState(k, flight) /\ c.tls.session_resumed = Resumes
      /\ c.tls.certificate_request <=> \E i \in 1..k : flight[i].type = "certificate_request"
      /\ k > 0 => c.tls.early_data_accepted = s.tls.early_data_accepted
      /\ c.tls.out["handshake"] = <<>> /\ ~c.handshake_complete
      BY <1>2, <1>3 DEF ClientReads
<1> HIDE DEF t
<1>8. FlightStep(t, u, m, k, flight)
      BY <1>1, <1>3, <1>5, <1>7, FlightStepIs
<1> HIDE DEF flight
<1>9. /\ u \in Contexts /\ ~u.alert /\ u.options = c.tls.options
      /\ u.session_resumed = Resumes /\ u.state = ClientState(k + 1, flight)
      /\ u.certificate_request <=> c.tls.certificate_request \/ m.type = "certificate_request"
      /\ u.early_data_accepted = IF k = 0 THEN m.early ELSE c.tls.early_data_accepted
      /\ u.keys = c.tls.keys \cup (IF k = 0 THEN {<<"encrypt", "handshake">>} ELSE {})
                      \cup (IF k + 1 = Len(flight)
                            THEN {"encrypt", "decrypt"} \X {"one_rtt"} ELSE {})
      /\ u.out = IF k + 1 = Len(flight)
                 THEN [c.tls.out EXCEPT !["handshake"] = ClientFlight] ELSE c.tls.out
  <2>1. <<>> \o ClientFlight = ClientFlight
        BY ClientFlightIs, ConcatEmptySeq
  <2> HIDE DEF u, m
  <2>2. /\ u \in Contexts /\ u.alert = t.alert /\ u.options = t.options
        /\ u.session_resumed = t.session_resumed /\ u.state = ClientState(k + 1, flight)
        /\ u.early_data_accepted = IF k = 0 THEN m.early ELSE t.early_data_accepted
        BY <1>8 DEF FlightStep
  <2>3. u.certificate_request <=> t.certificate_request \/ m.type = "certificate_request"
        BY <1>8 DEF FlightStep
  <2>4. u.keys = t.keys \cup (IF k = 0 THEN {<<"encrypt", "handshake">>} ELSE {})
                      \cup (IF k + 1 = Len(flight)
                            THEN {"encrypt", "decrypt"} \X {"one_rtt"} ELSE {})
        BY <1>8 DEF FlightStep
  <2>5. u.out = IF k + 1 = Len(flight)
                THEN [c.tls.out EXCEPT !["handshake"] = ClientFlight] ELSE c.tls.out
    <3>1. u.out = IF k + 1 = Len(flight)
                  THEN [t.out EXCEPT !["handshake"] = @ \o ClientFlight] ELSE t.out
          BY <1>8 DEF FlightStep
    <3>2. t.out = c.tls.out /\ t.out["handshake"] = <<>>
          BY <1>5, <1>7
    <3>3. QED BY <2>1, <3>1, <3>2
  <2>6. t.certificate_request = c.tls.certificate_request /\ t.keys = c.tls.keys
        /\ t.early_data_accepted = c.tls.early_data_accepted
        /\ t.alert = c.tls.alert /\ t.options = c.tls.options
        /\ t.session_resumed = Resumes /\ ~c.tls.alert
        BY <1>1, <1>5, <1>7
  <2>7. u.certificate_request <=> c.tls.certificate_request \/ m.type = "certificate_request"
        BY <2>3, <2>6
  <2>8. ~u.alert
        BY <2>2, <2>6
  <2>9. QED BY <2>2, <2>4, <2>5, <2>6, <2>7, <2>8
<1> HIDE DEF u, m
<1>10. OutputGrows(c.tls.out, u.out)
  <2>1. \A e \in Epoch : c.tls.out[e] \in Seq(Messages)
        BY <1>1, ContextIs
  <2>2. CASE k + 1 = Len(flight)
    <3>1. u.out = [c.tls.out EXCEPT !["handshake"] = ClientFlight] /\ c.tls.out \in Outputs
          BY <1>1, <1>9, <2>2 DEF Contexts
    <3>2. Len(ClientFlight) \in Nat /\ Len(<<>>) = 0
          BY ClientFlightIs
    <3>3. ASSUME NEW e \in Epoch
          PROVE  /\ Len(c.tls.out[e]) =< Len(u.out[e])
                 /\ \A n \in 1..Len(c.tls.out[e]) : u.out[e][n] = c.tls.out[e][n]
      <4>1. CASE e = "handshake"
        <5>1. u.out[e] = ClientFlight /\ c.tls.out[e] = <<>>
              BY <1>7, <3>1, <4>1 DEF Outputs
        <5>2. QED BY <3>2, <5>1
      <4>2. CASE e # "handshake"
        <5>1. u.out[e] = c.tls.out[e]
              BY <3>1, <4>2 DEF Outputs
        <5>2. QED BY <2>1, <5>1
      <4>3. QED BY <4>1, <4>2
    <3>4. QED BY ONLY <3>3, Zenon DEF OutputGrows
  <2>3. CASE k + 1 # Len(flight)
    <3>1. u.out = c.tls.out
          BY <1>9, <2>3
    <3>2. QED BY <1>1, <3>1, ContextIs
  <2>4. QED BY <2>2, <2>3
<1>11. Effect("client", c, b, "handshake", u, c.version, TRUE)
  <2> DEFINE x == "client"
             e == "handshake"
             v == c.version
             version == c.version
             w == TRUE
  <2>1. /\ x \in End /\ c \in Connections /\ Own(x, c) /\ e \in Epoch /\ v \in STRING
        /\ version \in STRING /\ w \in BOOLEAN /\ t \in Contexts /\ u \in Contexts
        /\ u = _handle_reassembled_message(t, m)
        /\ OutputGrows(c.tls.out, u.out)
        /\ x = "client" => w \/ u.keys # c.tls.keys
        BY <1>1, <1>5, <1>9, <1>10, EpochsAre DEF u
  <2>2. Heeds(x, c, m, version, v, w, t)
        BY <1>6 DEF Heeds
  <2> HIDE DEF w, x, e, v, version
  <2>3. Effect(x, c, HandleMessage(x, c, e, m, version), e, u,
               IF x = "client" /\ ~w THEN version ELSE v, x = "client" \/ w)
        BY ONLY <2>1, <2>2, MessageIs
  <2>4. QED BY <2>3 DEF w, x, e, v, version, b
<1> HIDE DEF b
<1>12. /\ b.tls = u /\ b.version = c.version /\ b.version_negotiated_compatible
       /\ b.handled = [c.handled EXCEPT !["handshake"] = @ + 1]
       /\ ~b.failed /\ b.cryptos_initial = c.cryptos_initial
       /\ b.handshake_complete <=> IsComplete(u)
      BY <1>1, <1>7, <1>9, <1>11 DEF Effect
<1>13. b.handled["initial"] = c.handled["initial"] /\ b.handled["handshake"] = k + 1
      BY <1>1, <1>12, EpochsAre DEF Counters
<1>14. IsComplete(u) <=> k + 1 = Len(flight)
  <2>1. k + 1 = Len(flight) => u.state = "CLIENT_POST_HANDSHAKE"
        BY <1>9 DEF ClientState
  <2>2. k + 1 # Len(flight) => u.state \notin {"CLIENT_POST_HANDSHAKE", "SERVER_POST_HANDSHAKE"}
        BY <1>9 DEF ClientState
  <2>3. QED BY <2>1, <2>2 DEF IsComplete
<1>15. ClientReads(b, s)
  <2>1. /\ s.handled["initial"] = 1 /\ b.handled["initial"] = 1
        /\ b.version = s.version /\ b.version_negotiated_compatible
        /\ b.tls.session_resumed = Resumes
        /\ k + 1 =< Len(flight)
        /\ b.tls.state = ClientState(k + 1, flight)
        BY <1>2, <1>3, <1>9, <1>12, <1>13 DEF ClientReads
  <2>2. Len(b.tls.out["initial"]) = 1 /\ b.tls.out["one_rtt"] = <<>>
        /\ b.tls.out["handshake"] = IF k + 1 = Len(flight) THEN ClientFlight ELSE <<>>
    <3>1. c.tls.out \in Outputs /\ Len(c.tls.out["initial"]) = 1 /\ c.tls.out["one_rtt"] = <<>>
          BY <1>1 DEF Contexts, ClientReads
    <3>2. QED BY <1>7, <1>9, <1>12, <3>1, EpochsAre DEF Outputs
  <2>3. b.tls.certificate_request <=>
            \E i \in 1..(k + 1) : flight[i].type = "certificate_request"
    <3>1. \A i : i \in 1..(k + 1) <=> i \in 1..k \/ i = k + 1
      <4>1. k \in Nat
            BY <1>3
      <4>2. QED BY ONLY <4>1
    <3>2. QED BY <1>7, <1>9, <1>12, <3>1 DEF m
  <2>4. b.tls.early_data_accepted = s.tls.early_data_accepted
    <3>1. CASE k = 0
      <4>1. m = EncryptedExtensions(s)
            BY <1>2, <3>1 DEF m
      <4>2. m.early = s.tls.early_data_accepted
        <5>1. Message("encrypted_extensions") \in Messages
              BY MessageType DEF MessageKind
        <5>2. QED BY <4>1, <5>1 DEF EncryptedExtensions, Messages
      <4>3. QED BY <1>9, <1>12, <3>1, <4>2
    <3>2. CASE k # 0
          BY <1>3, <1>7, <1>9, <1>12, <3>2
    <3>3. QED BY <3>1, <3>2
  <2>5. /\ k + 1 > 0
        /\ <<"decrypt", "one_rtt">> \in b.tls.keys => k + 1 = Len(flight)
    <3>1. <<"decrypt", "one_rtt">> \notin c.tls.keys
          BY <1>2, <1>3 DEF ClientReads, flight
    <3>2. QED BY <1>3, <1>9, <1>12, <3>1
  <2>6. b.handshake_complete <=> k + 1 = Len(flight)
        BY <1>12, <1>14
  <2>7. QED BY <1>13, <2>1, <2>2, <2>3, <2>4, <2>5, <2>6 DEF ClientReads, flight
<1>16. ServerReads(s, b)
  <2>1. CASE k + 1 = Len(flight)
    <3>1. b.tls.out["handshake"] = ClientFlight
      <4>1. c.tls.out \in Outputs
            BY <1>1 DEF Contexts
      <4>2. QED BY <1>9, <1>12, <2>1, <4>1, EpochsAre DEF Outputs
    <3>2. s.handled["handshake"] = 0
      <4>1. s.handled["handshake"] \in Nat
            BY <1>1, EpochsAre DEF Connections, Counters
      <4>2. s.handled["handshake"] =< Len(<<>>) /\ Len(<<>>) = 0
            BY <1>7 DEF ServerReads
      <4>3. QED BY <4>1, <4>2
    <3>3. 0 =< Len(ClientFlight)
          BY ClientFlightIs
    <3>4. \A f : ServerState(0, f) = IF Requests THEN "SERVER_EXPECT_CERTIFICATE"
                                     ELSE "SERVER_EXPECT_FINISHED"
          BY DEF ServerState
    <3>5. QED BY <1>12, <3>1, <3>2, <3>3, <3>4 DEF ServerReads
  <2>2. CASE k + 1 # Len(flight)
    <3>1. b.tls.out = c.tls.out
          BY <1>9, <1>12, <2>2
    <3>2. QED BY <1>12, <3>1 DEF ServerReads
  <2>3. QED BY <2>1, <2>2
<1>17. Progress(b, s)
      BY <1>1, <1>9, <1>12, <1>15, <1>16 DEF Pair, Progress
<1>18. Matched("client", c, s)
      BY DEF Matched
<1>19. Matched("client", b, s) /\ Advances("client", c, b)
  <2>1. /\ "client" \in End /\ "handshake" \in Epoch /\ ~("handshake" = "initial")
        /\ IF "client" = "client" THEN Progress(b, s) ELSE Progress(s, b)
        /\ c.version = c.version \/ ("handshake" = "initial" /\ Supported(c.version))
        BY <1>17, EpochsAre DEF End
  <2>2. QED BY ONLY <1>10, <1>11, <1>18, <2>1, EffectMatched
<1>20. QED BY <1>19 DEF b, m, flight

\* A ticket changes nothing.
LEMMA ClientTakesTicket ==
    ASSUME scenario \in Scenarios, NEW c, NEW s, Pair(c, s), ClientReads(c, s),
           ServerReads(s, c), c.handshake_complete
    PROVE  LET b == HandleMessage("client", c, "one_rtt", Message("new_session_ticket"), c.version)
           IN Matched("client", b, s) /\ Advances("client", c, b)
<1> DEFINE m == Message("new_session_ticket")
           b == HandleMessage("client", c, "one_rtt", m, c.version)
<1>1. /\ c \in Connections /\ s \in Connections /\ Own("client", c)
      /\ c.tls \in Contexts /\ c.handled \in Counters /\ c.version \in STRING
      /\ ~c.tls.alert /\ ~c.failed /\ "client" \in End /\ "one_rtt" \in Epoch
      BY EpochsAre DEF Pair, Progress, Connections, End
<1>2. m \in Messages /\ m.type = "new_session_ticket" /\ m.extensions = NoExtensions
      BY MessageType DEF MessageKind
<1>3. c.tls.state = "CLIENT_POST_HANDSHAKE" /\ c.version_negotiated_compatible
      BY DEF ClientReads, ClientState
<1> HIDE DEF m
<1>4. c.tls = _handle_reassembled_message(c.tls, m)
      BY <1>2, <1>3, Handlers
<1>5. OutputGrows(c.tls.out, c.tls.out)
      BY <1>1, ContextIs
<1>6. Effect("client", c, b, "one_rtt", c.tls, c.version, TRUE)
  <2> DEFINE x == "client"
             e == "one_rtt"
             version == c.version
             tls == c.tls
  <2>1. /\ x \in End /\ c \in Connections /\ Own(x, c) /\ e \in Epoch /\ version \in STRING
        /\ m.extensions = NoExtensions
        /\ tls \in Contexts /\ tls = _handle_reassembled_message(c.tls, m)
        /\ OutputGrows(c.tls.out, tls.out)
        /\ x = "client" => c.version_negotiated_compatible \/ tls.keys # c.tls.keys
        BY <1>1, <1>2, <1>3, <1>4, <1>5
  <2> HIDE DEF x, e, version, tls
  <2>2. Effect(x, c, HandleMessage(x, c, e, m, version), e, tls,
               IF x = "client" /\ ~c.version_negotiated_compatible THEN version ELSE c.version,
               x = "client" \/ c.version_negotiated_compatible)
        BY ONLY <2>1, PlainMessage
  <2>3. QED BY <1>3, <2>2 DEF x, e, version, tls, b
<1> HIDE DEF b
<1>7. /\ b.tls = c.tls /\ b.version = c.version /\ b.version_negotiated_compatible
      /\ b.handled = [c.handled EXCEPT !["one_rtt"] = @ + 1]
      /\ ~b.failed /\ b.handshake_complete /\ b.cryptos_initial = c.cryptos_initial
      BY <1>1, <1>6 DEF Effect
<1>8. /\ b.handled["initial"] = c.handled["initial"]
      /\ b.handled["handshake"] = c.handled["handshake"]
      BY <1>1, <1>7, EpochsAre DEF Counters
<1>9. ClientReads(b, s)
      BY <1>7, <1>8 DEF ClientReads
<1>10. ServerReads(s, b)
      BY <1>7 DEF ServerReads
<1>11. Progress(b, s)
      BY <1>1, <1>7, <1>9, <1>10 DEF Pair, Progress
<1>12. Matched("client", c, s)
      BY DEF Matched
<1>13. Matched("client", b, s) /\ Advances("client", c, b)
  <2>1. /\ "client" \in End /\ "one_rtt" \in Epoch /\ ~("one_rtt" = "initial")
        /\ IF "client" = "client" THEN Progress(b, s) ELSE Progress(s, b)
        /\ c.version = c.version \/ ("one_rtt" = "initial" /\ Supported(c.version))
        BY <1>11, EpochsAre DEF End
  <2>2. QED BY ONLY <1>5, <1>6, <1>12, <2>1, EffectMatched
<1>14. QED BY <1>13 DEF b, m

-----------------------------------------------------------------------------
(* The server reads.                                                       *)

\* The first common version is one of both ends, or there is none and it is the
\* default.
LEMMA FirstCommonIs ==
    ASSUME NEW S, NEW versions \in Seq(S), NEW others, NEW otherwise
    PROVE  \/ /\ FirstCommon(versions, others, otherwise) \in others
              /\ FirstCommon(versions, others, otherwise) \in Range(versions)
           \/ /\ FirstCommon(versions, others, otherwise) = otherwise
              /\ Range(versions) \cap others = {}
<1> DEFINE common == {i \in DOMAIN versions : versions[i] \in others}
<1>1. CASE common = {}
  <2>1. Range(versions) \cap others = {}
        BY <1>1 DEF Range
  <2>2. QED BY <1>1, <2>1 DEF FirstCommon
<1>2. CASE common # {}
  <2>1. common \in SUBSET Nat
        OBVIOUS
  <2> HIDE DEF common
  <2>3. \E n \in common : \A i \in common : n =< i
        BY <1>2, <2>1, NaturalsHaveLeast
  <2>4. Min(common) \in common
        BY <2>3 DEF Min
  <2>5. versions[Min(common)] \in others /\ versions[Min(common)] \in Range(versions)
        BY <2>4 DEF Range, common
  <2>6. QED BY <1>2, <2>5 DEF FirstCommon, common
<1>3. QED BY <1>1, <1>2

\* Sequences joined, the first of one element.
LEMMA Preceded ==
    ASSUME NEW S, NEW p \in S, NEW g \in Seq(S), NEW h \in Seq(S),
           Len(h) = Len(g) + 1, h[1] = p, \A i \in 1..Len(g) : h[i + 1] = g[i]
    PROVE  <<p>> \o g = h
<1> DEFINE f == <<p>>
<1>0. f \in Seq(S) /\ Len(f) = 1 /\ f[1] = p
      OBVIOUS
<1> HIDE DEF f
<1>1. /\ f \o g \in Seq(S) /\ Len(f \o g) = Len(f) + Len(g)
      /\ \A i \in 1..Len(f) + Len(g) : (f \o g)[i] = IF i <= Len(f) THEN f[i] ELSE g[i - Len(f)]
      BY <1>0, ConcatProperties
<1>2. Len(f \o g) = Len(h) /\ Len(g) \in Nat
      BY <1>0, <1>1
<1>3. \A i \in 1..Len(f \o g) : (f \o g)[i] = h[i]
  <2> SUFFICES ASSUME NEW i \in 1..Len(g) + 1 PROVE (f \o g)[i] = h[i]
      BY <1>0, <1>1, <1>2
  <2>1. i \in 1..Len(f) + Len(g)
        BY <1>0, <1>2
  <2>2. CASE i = 1
        BY <1>0, <1>1, <2>1, <2>2
  <2>3. CASE i # 1
    <3>1. i - 1 \in 1..Len(g) /\ ~(i =< Len(f)) /\ i - Len(f) = i - 1 /\ (i - 1) + 1 = i
          BY <1>0, <1>2, <2>3
    <3>2. (f \o g)[i] = g[i - 1]
          BY <1>1, <2>1, <3>1
    <3>3. h[(i - 1) + 1] = g[i - 1]
          BY <3>1
    <3>4. QED BY <3>1, <3>2, <3>3
  <2>4. QED BY <2>2, <2>3
<1>4. f \o g = h
      BY <1>1, <1>2, <1>3, SeqEqual
<1>5. QED BY <1>4 DEF f

\* Sequences of the messages that a flight may have.
LEMMA MoreTuples ==
    ASSUME NEW S, NEW p \in S, NEW q \in S, NEW r \in S, NEW t \in S, NEW u \in S
    PROVE  /\ (<<p>> \o <<>>) \o <<u>> = <<p, u>>
           /\ (<<p>> \o (<<>> \o <<r, t>>)) \o <<u>> = <<p, r, t, u>>
           /\ (<<p>> \o (<<q>> \o <<r, t>>)) \o <<u>> = <<p, q, r, t, u>>
<1> DEFINE one(z) == <<z>>
           two(y, z) == <<y, z>>
           three(x, y, z) == <<x, y, z>>
           four(w, x, y, z) == <<w, x, y, z>>
           five == <<p, q, r, t, u>>
<1>1. \A z \in S : one(z) \in Seq(S) /\ Len(one(z)) = 1 /\ one(z)[1] = z
      OBVIOUS
<1>2. \A y, z \in S : two(y, z) \in Seq(S) /\ Len(two(y, z)) = 2 /\ two(y, z)[1] = y
                      /\ two(y, z)[2] = z
      OBVIOUS
<1>3. \A x, y, z \in S : /\ three(x, y, z) \in Seq(S) /\ Len(three(x, y, z)) = 3
                         /\ three(x, y, z)[1] = x /\ three(x, y, z)[2] = y
                         /\ three(x, y, z)[3] = z
      OBVIOUS
<1>4. \A w, x, y, z \in S : /\ four(w, x, y, z) \in Seq(S) /\ Len(four(w, x, y, z)) = 4
                            /\ four(w, x, y, z)[1] = w /\ four(w, x, y, z)[2] = x
                            /\ four(w, x, y, z)[3] = y /\ four(w, x, y, z)[4] = z
      OBVIOUS
<1>5. /\ five \in Seq(S) /\ Len(five) = 5 /\ five[1] = p /\ five[2] = q /\ five[3] = r
      /\ five[4] = t /\ five[5] = u
      OBVIOUS
<1>6. <<p>> \o <<>> = one(p) /\ <<>> \o <<r, t>> = two(r, t)
      BY <1>1, <1>2, ConcatEmptySeq
<1>7. <<p>> \o <<u>> = two(p, u)
      BY Tuples
<1> DEFINE a == two(r, t)
           b == three(p, r, t)
           c == three(q, r, t)
           d == four(p, q, r, t)
           e == four(p, r, t, u)
           o == one(u)
<1>8. /\ a \in Seq(S) /\ Len(a) = 2 /\ a[1] = r /\ a[2] = t
      /\ b \in Seq(S) /\ Len(b) = 3 /\ b[1] = p /\ b[2] = r /\ b[3] = t
      /\ c \in Seq(S) /\ Len(c) = 3 /\ c[1] = q /\ c[2] = r /\ c[3] = t
      /\ d \in Seq(S) /\ Len(d) = 4 /\ d[1] = p /\ d[2] = q /\ d[3] = r /\ d[4] = t
      /\ e \in Seq(S) /\ Len(e) = 4 /\ e[1] = p /\ e[2] = r /\ e[3] = t /\ e[4] = u
      /\ o \in Seq(S) /\ Len(o) = 1 /\ o[1] = u
      BY <1>1, <1>2, <1>3, <1>4
<1> HIDE DEF a, b, c, d, e, o, five
<1>9. <<p>> \o a = b
  <2>1. Len(a) + 1 = 3 /\ 1..Len(a) = {1, 2} /\ 1 + 1 = 2 /\ 2 + 1 = 3
        BY <1>8
  <2>2. Len(b) = Len(a) + 1 /\ b[1] = p /\ \A i \in 1..Len(a) : b[i + 1] = a[i]
        BY <1>8, <2>1
  <2>3. QED BY <1>8, <2>2, Preceded
<1>10. <<q>> \o a = c
  <2>1. Len(a) + 1 = 3 /\ 1..Len(a) = {1, 2} /\ 1 + 1 = 2 /\ 2 + 1 = 3
        BY <1>8
  <2>2. Len(c) = Len(a) + 1 /\ c[1] = q /\ \A i \in 1..Len(a) : c[i + 1] = a[i]
        BY <1>8, <2>1
  <2>3. QED BY <1>8, <2>2, Preceded
<1>11. <<p>> \o c = d
  <2>1. Len(c) + 1 = 4 /\ 1..Len(c) = {1, 2, 3} /\ 1 + 1 = 2 /\ 2 + 1 = 3 /\ 3 + 1 = 4
        BY <1>8
  <2>2. Len(d) = Len(c) + 1 /\ d[1] = p /\ \A i \in 1..Len(c) : d[i + 1] = c[i]
        BY <1>8, <2>1
  <2>3. QED BY <1>8, <2>2, Preceded
<1>12. b \o o = e
  <2>1. Len(b) + 1 = 4 /\ 1..Len(b) = {1, 2, 3}
        BY <1>8
  <2>2. Len(o) = 1 /\ Len(e) = Len(b) + 1 /\ e[Len(b) + 1] = o[1]
        /\ \A i \in 1..Len(b) : e[i] = b[i]
        BY <1>8, <2>1
  <2>3. QED BY <1>8, <2>2, Joined
<1>13. d \o o = five
  <2>1. Len(d) + 1 = 5 /\ 1..Len(d) = {1, 2, 3, 4}
        BY <1>8
  <2>2. Len(o) = 1 /\ Len(five) = Len(d) + 1 /\ five[Len(d) + 1] = o[1]
        /\ \A i \in 1..Len(d) : five[i] = d[i]
        BY <1>5, <1>8, <2>1
  <2>3. QED BY <1>5, <1>8, <2>2, Joined
<1>14. (<<p>> \o <<>>) \o <<u>> = <<p, u>>
      BY <1>6, <1>7
<1>15. (<<p>> \o (<<>> \o <<r, t>>)) \o <<u>> = <<p, r, t, u>>
      BY <1>6, <1>9, <1>12 DEF a, b, e, o
<1>16. (<<p>> \o (<<q>> \o <<r, t>>)) \o <<u>> = <<p, q, r, t, u>>
      BY <1>10, <1>11, <1>13 DEF a, c, d, o, five
<1>17. QED BY <1>14, <1>15, <1>16

\* The flight of a server whose encrypted extensions are m.
FlightAfter(m) ==
    IF Resumes THEN <<m, Message("finished")>>
    ELSE IF Requests
    THEN <<m, Message("certificate_request"), Message("certificate"),
           Message("certificate_verify"), Message("finished")>>
    ELSE <<m, Message("certificate"), Message("certificate_verify"), Message("finished")>>

\* A context that has replied: what is in its output, and where it stands.
Replies(t, u, m) ==
    /\ u \in Contexts /\ u.alert = t.alert /\ u.options = t.options
    /\ u.session_resumed = Resumes /\ u.early_data_accepted = Resumes
    /\ <<"decrypt", "one_rtt">> \notin u.keys
    /\ u.out["initial"] = <<ServerHello>>
    /\ u.out["handshake"] = FlightAfter(m)

\* The flight of the server whose EncryptedExtensions are m, by what it decided.
LEMMA FlightAfterIs ==
    ASSUME scenario \in Scenarios, NEW m \in Messages
    PROVE  /\ FlightAfter(m) \in Seq(Messages)
           /\ FlightAfter(m) = (<<m>> \o (IF Resumes THEN <<>> ELSE
                 (IF Requests THEN <<Message("certificate_request")>> ELSE <<>>)
                     \o <<Message("certificate"), Message("certificate_verify")>>))
                 \o <<Message("finished")>>
<1> DEFINE p(type) == Message(type)
<1>1. \A type \in {"certificate_request", "certificate", "certificate_verify", "finished"} :
          p(type) \in Messages
      BY MessageType DEF MessageKind
<1>2. ~(Resumes /\ Requests)
      BY ScenarioIs
<1>3. CASE Resumes
  <2>1. FlightAfter(m) = <<m, p("finished")>>
        BY <1>3 DEF FlightAfter
  <2>2. (<<m>> \o <<>>) \o <<p("finished")>> = <<m, p("finished")>>
    <3> HIDE DEF p
    <3>1. <<m>> \in Seq(Messages) /\ p("finished") \in Messages
          BY <1>1
    <3>2. <<m>> \o <<>> = <<m>>
          BY <3>1, ConcatEmptySeq
    <3>3. <<m>> \o <<p("finished")>> = <<m, p("finished")>>
          BY <3>1, Tuples
    <3>4. QED BY <3>2, <3>3
  <2> HIDE DEF p
  <2>3. <<m, p("finished")>> \in Seq(Messages)
        BY <1>1
  <2>4. QED BY <1>3, <2>1, <2>2, <2>3 DEF p
<1>4. CASE ~Resumes /\ Requests
  <2>1. FlightAfter(m) = <<m, p("certificate_request"), p("certificate"),
                           p("certificate_verify"), p("finished")>>
        BY <1>4 DEF FlightAfter
  <2>2. (<<m>> \o (<<p("certificate_request")>> \o <<p("certificate"), p("certificate_verify")>>))
            \o <<p("finished")>>
        = <<m, p("certificate_request"), p("certificate"), p("certificate_verify"),
            p("finished")>>
        BY <1>1, MoreTuples
  <2> HIDE DEF p
  <2>3. <<m, p("certificate_request"), p("certificate"), p("certificate_verify"),
          p("finished")>> \in Seq(Messages)
        BY <1>1
  <2>4. QED BY <1>4, <2>1, <2>2, <2>3 DEF p
<1>5. CASE ~Resumes /\ ~Requests
  <2>1. FlightAfter(m) = <<m, p("certificate"), p("certificate_verify"), p("finished")>>
        BY <1>5 DEF FlightAfter
  <2>2. (<<m>> \o (<<>> \o <<p("certificate"), p("certificate_verify")>>)) \o <<p("finished")>>
        = <<m, p("certificate"), p("certificate_verify"), p("finished")>>
        BY <1>1, MoreTuples
  <2> HIDE DEF p
  <2>3. <<m, p("certificate"), p("certificate_verify"), p("finished")>> \in Seq(Messages)
        BY <1>1
  <2>4. QED BY <1>5, <2>1, <2>2, <2>3 DEF p
<1>6. QED BY <1>3, <1>4, <1>5

\* Writing more of an epoch.
WritesMore(t, u, e, messages) ==
    /\ u \in Contexts /\ u.alert = t.alert /\ u.options = t.options
    /\ u.session_resumed = t.session_resumed
    /\ u.early_data_accepted = t.early_data_accepted
    /\ u.certificate_request = t.certificate_request
    /\ u.keys = t.keys /\ u.state = t.state
    /\ u.out = [t.out EXCEPT ![e] = @ \o messages]
    /\ OutputGrows(t.out, u.out)

\* Messages pushed in an epoch follow the others of that epoch.
LEMMA Pushed ==
    ASSUME NEW t \in Contexts, NEW e \in Epoch, NEW messages \in Seq(Messages)
    PROVE  WritesMore(t, Push(t, e, messages), e, messages)
<1> DEFINE out == [t.out EXCEPT ![e] = @ \o messages]
           u == Push(t, e, messages)
<1>1. u = [t EXCEPT !.out = out]
      BY DEF Push, Contexts
<1>2. t.out \in Outputs /\ t.out[e] \in Seq(Messages)
      BY DEF Contexts, Outputs
<1>3. /\ t.out[e] \o messages \in Seq(Messages)
      /\ Len(t.out[e] \o messages) = Len(t.out[e]) + Len(messages)
      /\ \A n \in 1..Len(t.out[e]) + Len(messages) : (t.out[e] \o messages)[n] =
            IF n <= Len(t.out[e]) THEN t.out[e][n] ELSE messages[n - Len(t.out[e])]
      BY <1>2, ConcatProperties
<1>4. out \in Outputs
      BY <1>2, <1>3 DEF Outputs
<1>5. OutputGrows(t.out, out)
  <2>1. ASSUME NEW i \in Epoch
        PROVE  Len(t.out[i]) =< Len(out[i]) /\ \A n \in 1..Len(t.out[i]) : out[i][n] = t.out[i][n]
    <3>1. t.out[i] \in Seq(Messages)
          BY <1>2 DEF Outputs
    <3>2. CASE i = e
      <4>1. out[i] = t.out[e] \o messages
            BY <1>2, <3>2 DEF Outputs
      <4> HIDE DEF out
      <4>2. Len(t.out[e]) \in Nat /\ Len(messages) \in Nat
            BY <1>2
      <4>3. \A n \in 1..Len(t.out[e]) : n \in 1..Len(t.out[e]) + Len(messages)
                                        /\ n =< Len(t.out[e])
            BY <4>2
      <4>4. Len(t.out[e]) =< Len(out[i])
            BY <1>3, <4>1, <4>2
      <4>5. \A n \in 1..Len(t.out[e]) : out[i][n] = t.out[e][n]
            BY <1>3, <4>1, <4>3
      <4>6. QED BY <3>2, <4>4, <4>5
    <3>3. CASE i # e
      <4>1. out[i] = t.out[i]
            BY <1>2, <3>3 DEF Outputs
      <4>2. QED BY <3>1, <4>1
    <3>4. QED BY <3>2, <3>3
  <2> HIDE DEF out
  <2>2. QED BY ONLY <2>1, Zenon DEF OutputGrows
<1> HIDE DEF out, u
<1>6. u \in Contexts
      BY <1>1, <1>4 DEF Contexts
<1>7. /\ u.alert = t.alert /\ u.options = t.options
      /\ u.session_resumed = t.session_resumed
      /\ u.early_data_accepted = t.early_data_accepted
      /\ u.certificate_request = t.certificate_request
      /\ u.keys = t.keys /\ u.state = t.state /\ u.out = out
      BY <1>1 DEF Contexts
<1>8. QED BY <1>5, <1>6, <1>7 DEF WritesMore, u, out

\* What the server sets up and writes, where it resumes the session, takes early data and
\* asks for a certificate or not.
KeysAfter(early) ==
    {<<"encrypt", "handshake">>, <<"decrypt", "handshake">>, <<"encrypt", "one_rtt">>}
        \cup (IF early THEN {<<"decrypt", "zero_rtt">>} ELSE {})

RepliedWith(t, resumed, early, hello, flight) ==
    Push(Push(Setup([t EXCEPT !.session_resumed = resumed, !.early_data_accepted = early],
                    KeysAfter(early)),
              "initial", <<hello>>),
         "handshake", flight)

\* What the handler of the hello decides and writes.
Decides(t, m, resumed, requests, hello, extensions, flight) ==
    /\ resumed = (m.psk /\ t.options.knows_ticket)
    /\ resumed = (resumed /\ m.early)
    /\ requests = (t.options.request_certificate /\ ~resumed)
    /\ hello = [Message("server_hello") EXCEPT !.psk = resumed]
    /\ extensions = [Message("encrypted_extensions") EXCEPT
                         !.early = resumed, !.extensions = t.handshake_extensions]
    /\ flight = (<<extensions>> \o (IF resumed THEN <<>> ELSE
                    (IF requests THEN <<Message("certificate_request")>> ELSE <<>>)
                        \o <<Message("certificate"), Message("certificate_verify")>>))
                    \o <<Message("finished")>>

\* _server_handle_hello() by its decisions, given a name each.
LEMMA HelloUnfolds ==
    ASSUME NEW t, NEW m, NEW resumed, NEW requests, NEW hello, NEW extensions, NEW flight,
           Decides(t, m, resumed, requests, hello, extensions, flight)
    PROVE  _server_handle_hello(t, m) =
               IF t.options.request_certificate
               THEN Moved(RepliedWith(t, resumed, resumed, hello, flight),
                          "SERVER_EXPECT_CERTIFICATE")
               ELSE _server_expect_finished(RepliedWith(t, resumed, resumed, hello, flight))
BY DEF Decides, _server_handle_hello, RepliedWith, KeysAfter

\* What the server has written and may read when it has answered.
LEMMA RepliedIs ==
    ASSUME scenario \in Scenarios, NEW t \in Contexts, t.keys = {},
           t.out = [e \in Epoch |-> <<>>], NEW m \in Messages
    PROVE  LET r == RepliedWith(t, Resumes, Resumes, ServerHello, FlightAfter(m))
           IN /\ Replies(t, r, m)
              /\ r.out["one_rtt"] = <<>>
<1> DEFINE u == RepliedWith(t, Resumes, Resumes, ServerHello, FlightAfter(m))
           set == Setup([t EXCEPT !.session_resumed = Resumes,
                                  !.early_data_accepted = Resumes], KeysAfter(Resumes))
           first == Push(set, "initial", <<ServerHello>>)
           keys == KeysAfter(Resumes)
<1>1. Resumes \in BOOLEAN
      BY ScenarioIs
<1>2. keys \in SUBSET Keys /\ <<"decrypt", "one_rtt">> \notin keys
  <2>1. {<<"encrypt", "handshake">>, <<"decrypt", "handshake">>, <<"encrypt", "one_rtt">>,
         <<"decrypt", "zero_rtt">>} \subseteq Keys
        BY EpochsAre DEF Keys
  <2>2. keys \subseteq {<<"encrypt", "handshake">>, <<"decrypt", "handshake">>,
                        <<"encrypt", "one_rtt">>, <<"decrypt", "zero_rtt">>}
        BY DEF KeysAfter
  <2>3. QED BY <2>1, <2>2
<1> DEFINE resumed == Resumes
<1>3. set = [t EXCEPT !.session_resumed = resumed, !.early_data_accepted = resumed,
                      !.keys = keys]
  <2> HIDE DEF keys
  <2>1. set = Setup([t EXCEPT !.session_resumed = resumed, !.early_data_accepted = resumed],
                    keys)
        BY DEF keys
  <2> HIDE DEF set, resumed
  <2>2. QED BY <2>1 DEF Setup, Contexts
<1> HIDE DEF set, keys, resumed
<1>4. resumed \in BOOLEAN
      BY <1>1 DEF resumed
<1>5. /\ set \in Contexts /\ set.alert = t.alert /\ set.options = t.options
      /\ set.session_resumed = resumed /\ set.early_data_accepted = resumed
      /\ set.keys = keys /\ set.out = t.out
  <2>1. set \in Contexts
        BY <1>2, <1>3, <1>4 DEF Contexts
  <2>2. QED BY <1>3, <2>1 DEF Contexts
<1>6. <<ServerHello>> \in Seq(Messages) /\ FlightAfter(m) \in Seq(Messages)
  <2>1. ServerHello \in Messages
        BY ServerHelloIs
  <2>2. <<ServerHello>> \in Seq(Messages)
        BY <2>1
  <2>3. QED BY <2>2, FlightAfterIs
<1>7. /\ first \in Contexts /\ first.alert = t.alert /\ first.options = t.options
      /\ first.session_resumed = resumed /\ first.early_data_accepted = resumed
      /\ first.keys = keys
      /\ first.out = [t.out EXCEPT !["initial"] = <<>> \o <<ServerHello>>]
  <2>1. /\ first \in Contexts /\ first.alert = set.alert /\ first.options = set.options
        /\ first.session_resumed = set.session_resumed
        /\ first.early_data_accepted = set.early_data_accepted
        /\ first.keys = set.keys
        /\ first.out = [set.out EXCEPT !["initial"] = @ \o <<ServerHello>>]
    <3>1. WritesMore(set, first, "initial", <<ServerHello>>)
          BY <1>5, <1>6, EpochsAre, Pushed
    <3> HIDE DEF first
    <3>2. QED BY <3>1 DEF WritesMore
  <2>2. set.out["initial"] = <<>>
        BY <1>5, EpochsAre
  <2> HIDE DEF first
  <2>3. QED BY <1>5, <2>1, <2>2
<1> HIDE DEF first
<1>8. /\ u \in Contexts /\ u.alert = first.alert /\ u.options = first.options
      /\ u.session_resumed = first.session_resumed
      /\ u.early_data_accepted = first.early_data_accepted
      /\ u.keys = first.keys
      /\ u.out = [first.out EXCEPT !["handshake"] = @ \o FlightAfter(m)]
  <2>1. u = Push(first, "handshake", FlightAfter(m))
        BY DEF RepliedWith, first, set
  <2> HIDE DEF u
  <2>2. WritesMore(first, u, "handshake", FlightAfter(m))
        BY <1>6, <1>7, <2>1, EpochsAre, Pushed
  <2>3. QED BY <2>2 DEF WritesMore
<1> HIDE DEF u
<1>9. <<>> \o <<ServerHello>> = <<ServerHello>> /\ <<>> \o FlightAfter(m) = FlightAfter(m)
      BY <1>6, ConcatEmptySeq
<1>10. u.out["initial"] = <<ServerHello>> /\ u.out["handshake"] = FlightAfter(m)
       /\ u.out["one_rtt"] = <<>>
  <2>1. /\ first.out["initial"] = <<ServerHello>> /\ first.out["handshake"] = <<>>
        /\ first.out["one_rtt"] = <<>> /\ DOMAIN first.out = Epoch
        BY <1>7, <1>9, EpochsAre
  <2>2. QED BY <1>8, <1>9, <2>1, EpochsAre
<1>11. Replies(t, u, m)
      BY <1>2, <1>7, <1>8, <1>10 DEF Replies, resumed
<1>12. QED BY <1>10, <1>11 DEF u

\* Only the state is moved, or tickets are written before it is.
Passes(t, u, state) ==
    /\ u \in Contexts /\ u.alert = t.alert /\ u.options = t.options
    /\ u.session_resumed = t.session_resumed
    /\ u.early_data_accepted = t.early_data_accepted
    /\ u.keys = t.keys /\ u.state = state
    /\ u.out["initial"] = t.out["initial"] /\ u.out["handshake"] = t.out["handshake"]
    /\ \A i \in DOMAIN u.out["one_rtt"] :
           \/ i \in DOMAIN t.out["one_rtt"] /\ u.out["one_rtt"][i] = t.out["one_rtt"][i]
           \/ u.out["one_rtt"][i] = Message("new_session_ticket")
    /\ OutputGrows(t.out, u.out)

\* A state of TLS that only moves passes a message.
LEMMA MovedPasses ==
    ASSUME NEW t \in Contexts, NEW state \in State
    PROVE  Passes(t, Moved(t, state), state)
<1> DEFINE u == Moved(t, state)
<1>1. /\ u \in Contexts /\ u.alert = t.alert /\ u.options = t.options
      /\ u.session_resumed = t.session_resumed
      /\ u.early_data_accepted = t.early_data_accepted
      /\ u.keys = t.keys /\ u.state = state /\ u.out = t.out
  <2> HIDE DEF State
  <2>1. u \in Contexts
        BY ContextIs
  <2>2. QED BY <2>1 DEF Moved, Contexts
<1> HIDE DEF u
<1>2. OutputGrows(t.out, u.out)
      BY <1>1, ContextIs
<1>3. QED BY <1>1, <1>2 DEF Passes, u

\* The server that comes to expect the Finished passes a message: it may add a
\* ticket.
LEMMA ExpectFinishedPasses ==
    ASSUME NEW t \in Contexts
    PROVE  Passes(t, _server_expect_finished(t), "SERVER_EXPECT_FINISHED")
<1> DEFINE tickets == IF t.options.tickets THEN <<Message("new_session_ticket")>> ELSE <<>>
           r == Push(t, "one_rtt", tickets)
           state == "SERVER_EXPECT_FINISHED"
           u == Moved(r, state)
<1>1. /\ tickets \in Seq(Messages) /\ \A i \in DOMAIN tickets :
                                          tickets[i] = Message("new_session_ticket")
  <2>1. Message("new_session_ticket") \in Messages
        BY MessageType DEF MessageKind
  <2> HIDE DEF Messages
  <2>2. QED BY <2>1
<1> HIDE DEF tickets
<1>2. WritesMore(t, r, "one_rtt", tickets)
      BY <1>1, EpochsAre, Pushed
<1> HIDE DEF r
<1>3. /\ r \in Contexts /\ r.alert = t.alert /\ r.options = t.options
      /\ r.session_resumed = t.session_resumed
      /\ r.early_data_accepted = t.early_data_accepted
      /\ r.keys = t.keys /\ r.out = [t.out EXCEPT !["one_rtt"] = @ \o tickets]
      /\ OutputGrows(t.out, r.out)
      BY <1>2 DEF WritesMore
<1>4. state \in State
      BY DEF State
<1> HIDE DEF state
<1>5. Passes(r, u, state)
      BY <1>3, <1>4, MovedPasses
<1> HIDE DEF u
<1>6. u.out["initial"] = r.out["initial"] /\ u.out["handshake"] = r.out["handshake"]
      /\ u.out["one_rtt"] = r.out["one_rtt"]
  <2>1. u = [r EXCEPT !.state = state]
        BY DEF u, Moved
  <2>2. u.out = r.out
        BY <1>3, <2>1 DEF Contexts
  <2>3. QED BY <2>2
<1>7. t.out \in Outputs /\ t.out["one_rtt"] \in Seq(Messages)
      BY EpochsAre DEF Contexts, Outputs
<1>8. /\ r.out["initial"] = t.out["initial"] /\ r.out["handshake"] = t.out["handshake"]
      /\ r.out["one_rtt"] = t.out["one_rtt"] \o tickets
      BY <1>3, <1>7, EpochsAre DEF Outputs
<1>9. ASSUME NEW i \in DOMAIN r.out["one_rtt"]
      PROVE  \/ i \in DOMAIN t.out["one_rtt"] /\ r.out["one_rtt"][i] = t.out["one_rtt"][i]
             \/ r.out["one_rtt"][i] = Message("new_session_ticket")
  <2> DEFINE f == t.out["one_rtt"]
  <2>1. /\ f \o tickets \in Seq(Messages) /\ Len(f \o tickets) = Len(f) + Len(tickets)
        /\ \A n \in 1..Len(f) + Len(tickets) : (f \o tickets)[n] =
              IF n <= Len(f) THEN f[n] ELSE tickets[n - Len(f)]
        BY <1>1, <1>7, ConcatProperties
  <2>2. Len(f) \in Nat /\ Len(tickets) \in Nat /\ DOMAIN f = 1..Len(f)
        /\ DOMAIN tickets = 1..Len(tickets) /\ DOMAIN (f \o tickets) = 1..Len(f \o tickets)
        BY <1>1, <1>7, <2>1
  <2> HIDE DEF f
  <2>3. r.out["one_rtt"] = f \o tickets
        BY <1>8 DEF f
  <2>4. i \in 1..Len(f) + Len(tickets)
        BY <2>1, <2>2, <2>3
  <2>5. CASE i =< Len(f)
    <3>1. i \in DOMAIN f /\ (f \o tickets)[i] = f[i]
          BY <2>1, <2>2, <2>4, <2>5
    <3>2. QED BY <2>3, <3>1 DEF f
  <2>6. CASE ~(i =< Len(f))
    <3>1. i - Len(f) \in DOMAIN tickets /\ (f \o tickets)[i] = tickets[i - Len(f)]
          BY <2>1, <2>2, <2>4, <2>6
    <3>2. tickets[i - Len(f)] = Message("new_session_ticket")
          BY <1>1, <3>1
    <3>3. QED BY <2>3, <3>1, <3>2
  <2>7. QED BY <2>5, <2>6
<1>10. OutputGrows(t.out, u.out)
  <2>1. u.out = r.out
    <3>1. u = [r EXCEPT !.state = state]
          BY DEF u, Moved
    <3>2. QED BY <1>3, <3>1 DEF Contexts
  <2>2. QED BY <1>3, <2>1
<1>11. /\ u \in Contexts /\ u.alert = t.alert /\ u.options = t.options
       /\ u.session_resumed = t.session_resumed
       /\ u.early_data_accepted = t.early_data_accepted
       /\ u.keys = t.keys /\ u.state = state
      BY <1>3, <1>5 DEF Passes
<1>12. Passes(t, u, state)
      BY <1>6, <1>8, <1>9, <1>10, <1>11 DEF Passes
<1>13. QED BY <1>12 DEF _server_expect_finished, u, r, tickets, state

\* The encrypted extensions of a server that answers.
Replying(t) ==
    [Message("encrypted_extensions") EXCEPT
        !.early = Resumes, !.extensions = t.handshake_extensions]

\* The hello of the client is answered.
LEMMA HelloAnswered ==
    ASSUME scenario \in Scenarios, NEW t \in Contexts, t.options = scenario.options["server"],
           t.keys = {}, t.out = [e \in Epoch |-> <<>>], NEW m,
           m.psk = scenario.options["client"].ticket,
           m.early = scenario.options["client"].ticket,
           NEW extensions, extensions = Replying(t)
    PROVE  LET u == _server_handle_hello(t, m)
           IN /\ Replies(t, u, extensions)
              /\ \A i \in DOMAIN u.out["one_rtt"] :
                     u.out["one_rtt"][i] = Message("new_session_ticket")
              /\ u.state = IF Requests THEN "SERVER_EXPECT_CERTIFICATE"
                           ELSE "SERVER_EXPECT_FINISHED"
              /\ OutputGrows(t.out, u.out)
<1> DEFINE u == _server_handle_hello(t, m)
           r == RepliedWith(t, Resumes, Resumes, ServerHello, FlightAfter(extensions))
<1>1. /\ Resumes \in BOOLEAN /\ Requests \in BOOLEAN /\ ~(Resumes /\ Requests)
      /\ scenario.options["client"] \in Options /\ scenario.options["server"] \in Options
      BY ScenarioIs DEF End
<1>2. extensions \in Messages
  <2>1. Message("encrypted_extensions") \in Messages
        BY MessageType DEF MessageKind
  <2>2. t.handshake_extensions \in Extensions
        BY DEF Contexts
  <2> DEFINE resumes == Resumes
  <2>3. resumes \in BOOLEAN /\ extensions = [Message("encrypted_extensions") EXCEPT
                             !.early = resumes, !.extensions = t.handshake_extensions]
        BY <1>1 DEF Replying
  <2> HIDE DEF resumes, Extensions
  <2>4. QED BY <2>1, <2>2, <2>3 DEF Messages
<1>3. u = IF t.options.request_certificate THEN Moved(r, "SERVER_EXPECT_CERTIFICATE")
          ELSE _server_expect_finished(r)
  <2> DEFINE resumed == Resumes
             requests == t.options.request_certificate /\ ~Resumes
             flight == FlightAfter(extensions)
             hello == ServerHello
  <2>1. resumed = (m.psk /\ t.options.knows_ticket)
        BY DEF Resumes
  <2>2. resumed = (resumed /\ m.early)
        BY <1>1 DEF Resumes, Options
  <2>3. requests = (t.options.request_certificate /\ ~resumed)
        OBVIOUS
  <2>4. hello = [Message("server_hello") EXCEPT !.psk = resumed]
        BY DEF ServerHello
  <2>5. extensions = [Message("encrypted_extensions") EXCEPT
                          !.early = resumed, !.extensions = t.handshake_extensions]
        BY DEF Replying
  <2>6. flight = (<<extensions>> \o (IF resumed THEN <<>> ELSE
                       (IF requests THEN <<Message("certificate_request")>> ELSE <<>>)
                           \o <<Message("certificate"), Message("certificate_verify")>>))
                       \o <<Message("finished")>>
    <3>1. ~resumed => (requests <=> Requests)
          BY DEF Requests
    <3> HIDE DEF requests, resumed
    <3>2. (IF resumed THEN <<>> ELSE
             (IF requests THEN <<Message("certificate_request")>> ELSE <<>>)
                 \o <<Message("certificate"), Message("certificate_verify")>>)
          = (IF resumed THEN <<>> ELSE
             (IF Requests THEN <<Message("certificate_request")>> ELSE <<>>)
                 \o <<Message("certificate"), Message("certificate_verify")>>)
          BY <3>1
    <3>3. flight = (<<extensions>> \o (IF resumed THEN <<>> ELSE
                       (IF Requests THEN <<Message("certificate_request")>> ELSE <<>>)
                           \o <<Message("certificate"), Message("certificate_verify")>>))
                       \o <<Message("finished")>>
          BY <1>2, FlightAfterIs DEF resumed
    <3> HIDE DEF flight
    <3>4. QED BY <3>2, <3>3
  <2> HIDE DEF resumed, requests, flight, hello
  <2>7. Decides(t, m, resumed, requests, hello, extensions, flight)
        BY ONLY <2>1, <2>2, <2>3, <2>4, <2>5, <2>6 DEF Decides
  <2>8. u = IF t.options.request_certificate
            THEN Moved(RepliedWith(t, resumed, resumed, hello, flight),
                       "SERVER_EXPECT_CERTIFICATE")
            ELSE _server_expect_finished(RepliedWith(t, resumed, resumed, hello, flight))
        BY ONLY <2>7, HelloUnfolds
  <2>9. QED BY <2>8 DEF resumed, flight, hello
<1>4. Replies(t, r, extensions) /\ r.out["one_rtt"] = <<>>
      BY <1>2, RepliedIs
<1> HIDE DEF u, r
<1>5. Passes(r, u, IF Requests THEN "SERVER_EXPECT_CERTIFICATE" ELSE "SERVER_EXPECT_FINISHED")
  <2>1. r \in Contexts
        BY <1>4 DEF Replies
  <2>2. CASE Requests
    <3>1. u = Moved(r, "SERVER_EXPECT_CERTIFICATE")
          BY <1>3, <2>2 DEF Requests
    <3>2. "SERVER_EXPECT_CERTIFICATE" \in State
          BY DEF State
    <3>3. QED BY <2>1, <2>2, <3>1, <3>2, MovedPasses
  <2>3. CASE ~Requests
    <3>1. u = _server_expect_finished(r)
          BY <1>3, <2>3 DEF Requests
    <3>2. QED BY <2>1, <2>3, <3>1, ExpectFinishedPasses
  <2>4. QED BY <2>2, <2>3
<1>6. Replies(t, u, extensions)
      BY <1>4, <1>5 DEF Replies, Passes
<1>7. \A i \in DOMAIN u.out["one_rtt"] : u.out["one_rtt"][i] = Message("new_session_ticket")
  <2>1. DOMAIN r.out["one_rtt"] = {}
        BY <1>4
  <2>2. QED BY <1>5, <2>1 DEF Passes
<1>8. OutputGrows(t.out, u.out)
  <2>1. ASSUME NEW e \in Epoch
        PROVE  /\ Len(t.out[e]) =< Len(u.out[e])
               /\ \A n \in 1..Len(t.out[e]) : u.out[e][n] = t.out[e][n]
    <3>1. t.out[e] = <<>>
          OBVIOUS
    <3>2. u.out[e] \in Seq(Messages)
          BY <1>6, ContextIs DEF Replies
    <3>3. Len(t.out[e]) = 0 /\ Len(u.out[e]) \in Nat
          BY <3>1, <3>2
    <3>4. QED BY <3>3
  <2>2. QED BY ONLY <2>1, Zenon DEF OutputGrows
<1>9. u.state = IF Requests THEN "SERVER_EXPECT_CERTIFICATE" ELSE "SERVER_EXPECT_FINISHED"
      BY <1>5 DEF Passes
<1>10. QED BY <1>6, <1>7, <1>8, <1>9 DEF u

\* The ClientHello carries the parameters of the client.
LEMMA HelloIs ==
    ASSUME scenario \in Scenarios, NEW version \in STRING
    PROVE  /\ Hello(version) \in Messages /\ Hello(version).type = "client_hello"
           /\ Hello(version).psk = scenario.options["client"].ticket
           /\ Hello(version).early = scenario.options["client"].ticket
           /\ Hello(version).extensions =
                  [chosen |-> version, available |-> scenario.versions["client"],
                   original |-> None, retry |-> None]
           /\ Hello(version).extensions # NoExtensions
<1> DEFINE p == [chosen |-> version, available |-> scenario.versions["client"],
                 original |-> None, retry |-> None]
           ticket == scenario.options["client"].ticket
<1>1. p \in Parameters
  <2>1. scenario.versions["client"] \in Seq(STRING \ {None}) /\ None \in Cid
        BY ScenarioIs DEF End, Cid
  <2> HIDE DEF Cid
  <2>2. QED BY <2>1 DEF Parameters
<1>2. p \in Extensions /\ p # NoExtensions
      BY <1>1, ParametersDiffer DEF Extensions
<1>3. ticket \in BOOLEAN
      BY ScenarioIs DEF End, Options
<1>4. Message("client_hello") \in Messages /\ Message("client_hello").type = "client_hello"
      BY MessageType DEF MessageKind
<1> DEFINE h == Hello(version)
<1>5. h = [Message("client_hello") EXCEPT !.psk = ticket, !.early = ticket, !.extensions = p]
      BY DEF Hello
<1> HIDE DEF p, ticket, h, Extensions
<1>6. /\ h \in Messages /\ h.type = "client_hello" /\ h.psk = ticket /\ h.early = ticket
      /\ h.extensions = p
      BY <1>2, <1>3, <1>4, <1>5 DEF Messages
<1>7. QED BY <1>2, <1>6 DEF p, ticket, h

\* The server takes the hello of the client, goes over to a version and answers.
LEMMA ServerTakesHello ==
    ASSUME scenario \in Scenarios, NEW c, NEW s, Pair(c, s), ServerWaits(s),
           s.cryptos_initial # None
    PROVE  LET b == HandleMessage("server", s, "initial", Hello(c.version), c.version)
           IN Matched("server", b, c) /\ Advances("server", s, b)
<1> DEFINE m == Hello(c.version)
           v == Negotiated(s, m.extensions)
           moved == [s EXCEPT !.version = v, !.version_negotiated_compatible = TRUE]
           p == TransportParameters("server", moved)
           t == [s.tls EXCEPT !.handshake_extensions = p]
           u == _handle_reassembled_message(t, m)
           extensions == Replying(t)
           b == HandleMessage("server", s, "initial", m, c.version)
<1>1. /\ c \in Connections /\ s \in Connections /\ Own("server", s)
      /\ s.tls \in Contexts /\ s.handled \in Counters /\ c.version \in STRING
      /\ s.tls.options = scenario.options["server"] /\ ~s.tls.alert /\ ~s.failed
      /\ "server" \in End /\ "initial" \in Epoch
      BY EpochsAre DEF Pair, Progress, Connections, End
<1>2. /\ m \in Messages /\ m.type = "client_hello"
      /\ m.psk = scenario.options["client"].ticket
      /\ m.early = scenario.options["client"].ticket
      /\ m.extensions = [chosen |-> c.version, available |-> scenario.versions["client"],
                         original |-> None, retry |-> None]
      /\ m.extensions # NoExtensions
      BY <1>1, HelloIs
<1>3. /\ s.cryptos_initial = c.cryptos_initial /\ Supported(s.version)
      /\ s.handled["initial"] = 0 /\ s.handled["handshake"] = 0
      BY EpochsAre DEF Pair, Introduced, ServerWaits
<1>4. ClientWaits(c) /\ c.tls.out["handshake"] = <<>>
  <2>1. ~ClientReads(c, s)
        BY <1>3 DEF ClientReads
  <2>2. QED BY <2>1 DEF Pair, Progress, ClientWaits
<1> HIDE DEF m
<1>5. v \in STRING /\ Supported(v)
  <2>1. m.extensions.available = scenario.versions["client"]
        BY <1>2
  <2>2. scenario.versions["client"] \in Seq(STRING \ {None})
        /\ scenario.versions["server"] \in Seq(STRING \ {None})
        BY ScenarioIs DEF End
  <2> DEFINE versions == scenario.versions["client"]
             others == Range(scenario.versions["server"]) \cup {s.version}
  <2>3. v = FirstCommon(versions, others, s.version)
        BY <2>1 DEF Negotiated
  <2> HIDE DEF versions, v
  <2>4. v \in others \/ v = s.version
        BY <2>2, <2>3, FirstCommonIs DEF versions
  <2>5. Supported(v)
        BY <1>3, <2>4 DEF Supported
  <2>6. \A w \in Range(scenario.versions["server"]) : w \in STRING
        BY <2>2 DEF Range
  <2>7. QED BY <2>5, <2>6 DEF Supported
<1> HIDE DEF v
<1>6. /\ moved \in Connections /\ moved.version = v /\ moved.original_cid = s.original_cid
      /\ moved.retry_source_cid = s.retry_source_cid /\ moved.tls = s.tls
      BY <1>1, <1>5 DEF Connections
<1>7. p \in Extensions
      BY <1>6, <1>1, ParametersType DEF Extensions
<1>8. _alpn_handler("server", s, m, c.version) =
          [s EXCEPT !.version = v, !.version_negotiated_compatible = TRUE, !.tls = t]
  <2>1. ParametersHold("server", s, m.extensions, c.version)
        BY <1>2 DEF ParametersHold
  <2>2. _alpn_handler("server", s, m, c.version) =
            [moved EXCEPT !.tls.handshake_extensions = p]
        BY <1>2, <2>1 DEF _alpn_handler, v
  <2> HIDE DEF p
  <2>3. QED BY <1>1, <2>2 DEF Connections
<1> HIDE DEF p
<1>9. /\ t \in Contexts /\ t.options = s.tls.options /\ t.alert = s.tls.alert
      /\ t.state = s.tls.state /\ t.handshake_extensions = p
      /\ t.keys = s.tls.keys /\ t.out = s.tls.out
  <2> HIDE DEF Extensions
  <2>1. t = [s.tls EXCEPT !.handshake_extensions = p]
        OBVIOUS
  <2> HIDE DEF t
  <2>2. QED BY <1>1, <1>7, <2>1 DEF Contexts
<1>10. /\ t.options = scenario.options["server"] /\ t.keys = {}
       /\ t.out = [e \in Epoch |-> <<>>] /\ t.state = "SERVER_EXPECT_CLIENT_HELLO"
       /\ ~t.alert
      BY <1>1, <1>9 DEF ServerWaits
<1> HIDE DEF t
<1>11. u = _server_handle_hello(t, m)
      BY <1>2, <1>10, Handlers
<1>12. /\ Replies(t, u, extensions)
       /\ \A i \in DOMAIN u.out["one_rtt"] : u.out["one_rtt"][i] = Message("new_session_ticket")
       /\ u.state = IF Requests THEN "SERVER_EXPECT_CERTIFICATE" ELSE "SERVER_EXPECT_FINISHED"
       /\ OutputGrows(t.out, u.out)
  <2>1. extensions = Replying(t)
        OBVIOUS
  <2> HIDE DEF extensions, u
  <2>2. QED BY <1>2, <1>9, <1>10, <1>11, <2>1, HelloAnswered
<1> HIDE DEF extensions
<1>13. /\ u \in Contexts /\ ~u.alert /\ u.options = scenario.options["server"]
       /\ u.session_resumed = Resumes /\ u.early_data_accepted = Resumes
       /\ <<"decrypt", "one_rtt">> \notin u.keys
       /\ u.out["initial"] = <<ServerHello>>
       /\ u.out["handshake"] = FlightAfter(extensions)
       /\ OutputGrows(s.tls.out, u.out)
  <2> HIDE DEF u
  <2>1. QED BY <1>9, <1>10, <1>12 DEF Replies
<1>14. Effect("server", s, b, "initial", u, v, TRUE)
  <2> DEFINE x == "server"
             e == "initial"
             version == c.version
             w == TRUE
  <2>1. /\ x \in End /\ s \in Connections /\ Own(x, s) /\ e \in Epoch /\ v \in STRING
        /\ version \in STRING /\ w \in BOOLEAN /\ t \in Contexts /\ u \in Contexts
        /\ u = _handle_reassembled_message(t, m)
        /\ OutputGrows(s.tls.out, u.out)
        /\ x = "client" => w \/ u.keys # s.tls.keys
        BY <1>1, <1>5, <1>9, <1>13
  <2>2. Heeds(x, s, m, version, v, w, t)
        BY <1>8 DEF Heeds
  <2> HIDE DEF w, x, e, version, u
  <2>3. Effect(x, s, HandleMessage(x, s, e, m, version), e, u,
               IF x = "client" /\ ~w THEN version ELSE v, x = "client" \/ w)
        BY ONLY <2>1, <2>2, MessageIs
  <2>4. QED BY <2>3 DEF w, x, e, version, b
<1> HIDE DEF b, u
<1>15. /\ b.tls = u /\ b.version = v
       /\ b.handled = [s.handled EXCEPT !["initial"] = @ + 1]
       /\ ~b.failed /\ ~b.handshake_complete /\ b.cryptos_initial = s.cryptos_initial
       /\ b.original_cid = s.original_cid /\ b.retry_source_cid = s.retry_source_cid
  <2>1. ~IsComplete(u)
        BY <1>12 DEF IsComplete
  <2>2. ~s.handshake_complete
        BY DEF ServerWaits
  <2>3. QED BY <1>1, <1>13, <1>14, <2>1, <2>2 DEF Effect
<1>16. b.handled["initial"] = 1 /\ b.handled["handshake"] = 0
      BY <1>1, <1>3, <1>15, EpochsAre DEF Counters
<1>17. EncryptedExtensions(b) = extensions
  <2>1. TransportParameters("server", b) = p
        BY <1>6, <1>15 DEF TransportParameters, p
  <2>2. QED BY <1>9, <1>13, <1>15, <2>1 DEF EncryptedExtensions, extensions, Replying
<1>18. ServerFlight(b) = FlightAfter(extensions)
      BY <1>17 DEF ServerFlight, FlightAfter
<1>19. ServerReads(b, c)
  <2>1. b.cryptos_initial # None /\ c.cryptos_initial # None
        BY <1>3, <1>15
  <2>2. b.tls.out["initial"] = <<ServerHello>> /\ b.tls.out["handshake"] = ServerFlight(b)
        BY <1>13, <1>15, <1>18
  <2>3. \A i \in DOMAIN b.tls.out["one_rtt"] :
            b.tls.out["one_rtt"][i] = Message("new_session_ticket")
        BY <1>12, <1>15
  <2>4. b.tls.session_resumed = Resumes /\ <<"decrypt", "one_rtt">> \notin b.tls.keys
        BY <1>13, <1>15
  <2>5. b.tls.state = ServerState(0, c.tls.out["handshake"])
        BY <1>12, <1>15 DEF ServerState
  <2>6. 0 =< Len(c.tls.out["handshake"])
        BY <1>4
  <2>7. QED BY <1>15, <1>16, <2>1, <2>2, <2>3, <2>4, <2>5, <2>6 DEF ServerReads
<1>20. Progress(c, b)
  <2>1. ~c.failed /\ ~c.tls.alert /\ c.tls.options = scenario.options["client"]
        BY DEF Pair, Progress
  <2>2. QED BY <1>4, <1>13, <1>15, <1>19, <2>1 DEF Progress
<1>21. Matched("server", s, c)
      BY DEF Matched
<1>22. Matched("server", b, c) /\ Advances("server", s, b)
  <2>1. /\ "server" \in End /\ "initial" \in Epoch /\ s.handled["initial"] = 0
        /\ IF "server" = "client" THEN Progress(b, c) ELSE Progress(c, b)
        /\ v = s.version \/ ("initial" = "initial" /\ Supported(v))
        BY <1>1, <1>3, <1>5, <1>20
  <2>2. OutputGrows(s.tls.out, u.out)
        BY <1>13
  <2>3. QED BY ONLY <1>14, <1>21, <2>1, <2>2, EffectMatched
<1>23. QED BY <1>22 DEF b, m

\* What each message of the client's flight is for the server.
LEMMA ServerStates ==
    ASSUME scenario \in Scenarios, NEW k \in 0..(Len(ClientFlight) - 1)
    PROVE  LET state == ServerState(k, ClientFlight)
               after == ServerState(k + 1, ClientFlight)
               type == ClientFlight[k + 1].type
           IN \/ /\ type = "certificate" /\ state = "SERVER_EXPECT_CERTIFICATE"
                 /\ after = "SERVER_EXPECT_CERTIFICATE_VERIFY"
                 /\ k + 1 # Len(ClientFlight)
              \/ /\ type = "empty_certificate" /\ state = "SERVER_EXPECT_CERTIFICATE"
                 /\ after = "SERVER_EXPECT_FINISHED"
                 /\ k + 1 # Len(ClientFlight)
              \/ /\ type = "certificate_verify" /\ state = "SERVER_EXPECT_CERTIFICATE_VERIFY"
                 /\ after = "SERVER_EXPECT_FINISHED"
                 /\ k + 1 # Len(ClientFlight)
              \/ /\ type = "finished" /\ state = "SERVER_EXPECT_FINISHED"
                 /\ after = "SERVER_POST_HANDSHAKE"
                 /\ k + 1 = Len(ClientFlight)
<1> DEFINE flight == ClientFlight
           n == Len(flight)
           m(type) == Message(type)
<1>1. \A type \in {"certificate", "empty_certificate", "certificate_verify", "finished"} :
          m(type).type = type
      BY MessageType DEF MessageKind
<1> HIDE DEF m
<1>2. CASE ~Requests
  <2>1. flight = <<m("finished")>>
        BY <1>2 DEF ClientFlight, m
  <2>2. n = 1 /\ flight[1].type = "finished"
        BY <1>1, <2>1
  <2>3. k = 0
        BY <2>2
  <2>4. QED BY <1>2, <2>2, <2>3 DEF ServerState
<1>3. CASE Requests /\ scenario.options["client"].certificate
  <2>1. flight = <<m("certificate"), m("certificate_verify"), m("finished")>>
        BY <1>3 DEF ClientFlight, m
  <2>2. /\ n = 3 /\ flight[1].type = "certificate" /\ flight[2].type = "certificate_verify"
        /\ flight[3].type = "finished"
        BY <1>1, <2>1
  <2>3. k \in {0, 1, 2}
        BY <2>2
  <2> HIDE DEF flight
  <2>4. CASE k = 0
        BY <1>3, <2>2, <2>4 DEF ServerState, flight
  <2>5. CASE k = 1
        BY <1>3, <2>2, <2>5 DEF ServerState, flight
  <2>6. CASE k = 2
        BY <1>3, <2>2, <2>6 DEF ServerState, flight
  <2>7. QED BY <2>3, <2>4, <2>5, <2>6
<1>4. CASE Requests /\ ~scenario.options["client"].certificate
  <2>1. flight = <<m("empty_certificate"), m("finished")>>
        BY <1>4 DEF ClientFlight, m
  <2>2. n = 2 /\ flight[1].type = "empty_certificate" /\ flight[2].type = "finished"
        BY <1>1, <2>1
  <2>3. k \in {0, 1}
        BY <2>2
  <2> HIDE DEF flight
  <2>4. CASE k = 0
        BY <1>4, <2>2, <2>4 DEF ServerState, flight
  <2>5. CASE k = 1
        BY <1>4, <2>2, <2>5 DEF ServerState, flight
  <2>6. QED BY <2>3, <2>4, <2>5
<1>5. QED BY <1>2, <1>3, <1>4

\* What a message of the client's flight does to the server's TLS context.
ServerStep(t, u, after, last) ==
    /\ u \in Contexts /\ u.alert = t.alert /\ u.options = t.options
    /\ u.session_resumed = t.session_resumed
    /\ u.early_data_accepted = t.early_data_accepted
    /\ u.state = after
    /\ <<"decrypt", "one_rtt">> \in u.keys => last \/ <<"decrypt", "one_rtt">> \in t.keys
    /\ u.out["initial"] = t.out["initial"] /\ u.out["handshake"] = t.out["handshake"]
    /\ \A i \in DOMAIN u.out["one_rtt"] :
           \/ i \in DOMAIN t.out["one_rtt"] /\ u.out["one_rtt"][i] = t.out["one_rtt"][i]
           \/ u.out["one_rtt"][i] = Message("new_session_ticket")
    /\ OutputGrows(t.out, u.out)

\* The Finished of the client completes the server.
LEMMA ServerFinishedIs ==
    ASSUME NEW t \in Contexts
    PROVE  ServerStep(t, _server_handle_finished(t), "SERVER_POST_HANDSHAKE", TRUE)
<1> DEFINE keys == t.keys \cup {<<"decrypt", "one_rtt">>}
           u == _server_handle_finished(t)
           state == "SERVER_POST_HANDSHAKE"
<1>1. u = [t EXCEPT !.keys = keys, !.state = state]
      BY DEF _server_handle_finished, Moved, Setup, Contexts
<1>2. keys \in SUBSET Keys /\ state \in State
      BY EpochsAre DEF Keys, Contexts, State
<1> HIDE DEF keys, u, state, State
<1>3. u \in Contexts
      BY <1>1, <1>2 DEF Contexts
<1>4. /\ u.alert = t.alert /\ u.options = t.options /\ u.session_resumed = t.session_resumed
      /\ u.early_data_accepted = t.early_data_accepted /\ u.state = state /\ u.out = t.out
      BY <1>1, <1>3 DEF Contexts
<1>5. OutputGrows(t.out, u.out)
      BY <1>4, ContextIs
<1>6. QED BY <1>3, <1>4, <1>5 DEF ServerStep, u, state

\* A message that is passed is a step of the server.
LEMMA PassesIsStep ==
    ASSUME NEW t, NEW u, NEW state, Passes(t, u, state)
    PROVE  ServerStep(t, u, state, FALSE)
BY DEF Passes, ServerStep

\* Each message of the flight of the client takes the server one state further, to
\* the end.
LEMMA ServerStepIs ==
    ASSUME scenario \in Scenarios, NEW k \in 0..(Len(ClientFlight) - 1),
           NEW t \in Contexts, t.state = ServerState(k, ClientFlight)
    PROVE  ServerStep(t, _handle_reassembled_message(t, ClientFlight[k + 1]),
                      ServerState(k + 1, ClientFlight), k + 1 = Len(ClientFlight))
<1> DEFINE m == ClientFlight[k + 1]
           u == _handle_reassembled_message(t, m)
           state == t.state
           after == ServerState(k + 1, ClientFlight)
           last == k + 1 = Len(ClientFlight)
<1>1. \/ /\ m.type = "certificate" /\ state = "SERVER_EXPECT_CERTIFICATE"
         /\ after = "SERVER_EXPECT_CERTIFICATE_VERIFY" /\ ~last
      \/ /\ m.type = "empty_certificate" /\ state = "SERVER_EXPECT_CERTIFICATE"
         /\ after = "SERVER_EXPECT_FINISHED" /\ ~last
      \/ /\ m.type = "certificate_verify" /\ state = "SERVER_EXPECT_CERTIFICATE_VERIFY"
         /\ after = "SERVER_EXPECT_FINISHED" /\ ~last
      \/ /\ m.type = "finished" /\ state = "SERVER_EXPECT_FINISHED"
         /\ after = "SERVER_POST_HANDSHAKE" /\ last
      BY ServerStates
<1> HIDE DEF m, u, state, after, last
<1>2. CASE m.type = "certificate"
  <2>1. /\ state = "SERVER_EXPECT_CERTIFICATE"
        /\ after = "SERVER_EXPECT_CERTIFICATE_VERIFY" /\ ~last
        BY <1>1, <1>2
  <2>2. u = _server_handle_certificate(t, m)
        BY <1>2, <2>1, Handlers DEF state, u
  <2>3. u = Moved(t, after) /\ after \in State
        BY <1>2, <2>1, <2>2 DEF _server_handle_certificate, State
  <2>4. ServerStep(t, u, after, FALSE)
        BY <2>3, MovedPasses, PassesIsStep
  <2>5. QED BY <2>1, <2>4 DEF m, u, after, last
<1>3. CASE m.type \in {"empty_certificate", "certificate_verify"}
  <2>1. after = "SERVER_EXPECT_FINISHED" /\ ~last /\ u = _server_expect_finished(t)
    <3>1. CASE m.type = "empty_certificate"
      <4>1. /\ state = "SERVER_EXPECT_CERTIFICATE"
            /\ after = "SERVER_EXPECT_FINISHED" /\ ~last
            BY <1>1, <3>1
      <4>2. u = _server_handle_certificate(t, m)
            BY <3>1, <4>1, Handlers DEF state, u
      <4>3. QED BY <3>1, <4>1, <4>2 DEF _server_handle_certificate
    <3>2. CASE m.type = "certificate_verify"
      <4>1. /\ state = "SERVER_EXPECT_CERTIFICATE_VERIFY"
            /\ after = "SERVER_EXPECT_FINISHED" /\ ~last
            BY <1>1, <3>2
      <4>2. u = _server_handle_certificate_verify(t)
            BY <3>2, <4>1, Handlers DEF state, u
      <4>3. QED BY <4>1, <4>2 DEF _server_handle_certificate_verify
    <3>3. QED BY <1>3, <3>1, <3>2
  <2>2. ServerStep(t, u, after, FALSE)
        BY <2>1, ExpectFinishedPasses, PassesIsStep
  <2>3. QED BY <2>1, <2>2 DEF m, u, after, last
<1>4. CASE m.type = "finished"
  <2>1. state = "SERVER_EXPECT_FINISHED" /\ after = "SERVER_POST_HANDSHAKE" /\ last
        BY <1>1, <1>4
  <2>2. u = _server_handle_finished(t)
        BY <1>4, <2>1, Handlers DEF state, u
  <2>3. ServerStep(t, u, after, TRUE)
        BY <2>1, <2>2, ServerFinishedIs
  <2>4. QED BY <2>1, <2>3 DEF m, u, after, last
<1>5. QED BY <1>1, <1>2, <1>3, <1>4

\* The server takes the next message of the client's flight.
LEMMA ServerTakesFlight ==
    ASSUME scenario \in Scenarios, NEW c, NEW s, Pair(c, s), ServerReads(s, c),
           NEW k, k = s.handled["handshake"], k < Len(c.tls.out["handshake"]),
           NEW version \in STRING
    PROVE  LET b == HandleMessage("server", s, "handshake", c.tls.out["handshake"][k + 1],
                                  version)
           IN Matched("server", b, c) /\ Advances("server", s, b)
<1> DEFINE flight == ClientFlight
           m == flight[k + 1]
           t == s.tls
           u == _handle_reassembled_message(t, m)
           b == HandleMessage("server", s, "handshake", m, version)
           last == k + 1 = Len(flight)
<1>1. /\ c \in Connections /\ s \in Connections /\ Own("server", s)
      /\ t \in Contexts /\ s.handled \in Counters /\ s.version \in STRING
      /\ t.options = scenario.options["server"] /\ ~t.alert /\ ~s.failed
      /\ "server" \in End /\ "handshake" \in Epoch
      BY EpochsAre DEF Pair, Progress, Connections, End
<1>2. k \in Nat
      BY <1>1, EpochsAre DEF Counters
<1>3. ClientReads(c, s) /\ c.tls.out["handshake"] = flight
  <2>1. ~ClientWaits(c)
    <3>1. Len(<<>>) = 0
          OBVIOUS
    <3>2. c.tls.out["handshake"] # <<>>
          BY <1>2, <3>1
    <3>3. QED BY <3>2 DEF ClientWaits
  <2>2. ClientReads(c, s)
        BY <2>1 DEF Pair, Progress
  <2>3. c.tls.out["handshake"] # <<>>
    <3>1. Len(<<>>) = 0
          OBVIOUS
    <3>2. QED BY <1>2, <3>1
  <2>4. QED BY <2>2, <2>3 DEF ClientReads
<1>4. /\ flight \in Seq(Messages) /\ \A i \in 1..Len(flight) : flight[i].extensions = NoExtensions
      BY ClientFlightIs
<1>5. k \in 0..(Len(flight) - 1) /\ k + 1 \in 1..Len(flight)
  <2>1. Len(flight) \in Nat /\ k < Len(flight)
        BY <1>3, <1>4
  <2> HIDE DEF flight
  <2>2. QED BY <1>2, <2>1
<1>6. m.extensions = NoExtensions
      BY <1>4, <1>5
<1>7. t.state = ServerState(k, flight) /\ ~s.handshake_complete
      /\ <<"decrypt", "one_rtt">> \notin t.keys
  <2>1. k # Len(flight)
        BY <1>2, <1>3
  <2>2. QED BY <1>3, <2>1 DEF ServerReads
<1>8. ServerStep(t, u, ServerState(k + 1, flight), last)
      BY <1>1, <1>5, <1>7, ServerStepIs
<1> HIDE DEF flight, m, u
<1>9. /\ u \in Contexts /\ ~u.alert /\ u.options = scenario.options["server"]
      /\ u.session_resumed = t.session_resumed
      /\ u.early_data_accepted = t.early_data_accepted
      /\ u.state = ServerState(k + 1, flight)
      /\ <<"decrypt", "one_rtt">> \in u.keys => last
      /\ u.out["initial"] = t.out["initial"] /\ u.out["handshake"] = t.out["handshake"]
      /\ OutputGrows(t.out, u.out)
      BY <1>1, <1>7, <1>8 DEF ServerStep
<1>10. \A i \in DOMAIN u.out["one_rtt"] : u.out["one_rtt"][i] = Message("new_session_ticket")
      BY <1>8 DEF ServerStep, ServerReads
<1>11. Effect("server", s, b, "handshake", u, s.version, s.version_negotiated_compatible)
  <2> DEFINE x == "server"
             e == "handshake"
  <2>1. /\ x \in End /\ s \in Connections /\ Own(x, s) /\ e \in Epoch /\ version \in STRING
        /\ m.extensions = NoExtensions
        /\ u \in Contexts /\ u = _handle_reassembled_message(s.tls, m)
        /\ OutputGrows(s.tls.out, u.out)
        /\ x = "client" => s.version_negotiated_compatible \/ u.keys # s.tls.keys
        BY <1>1, <1>6, <1>9 DEF u
  <2> HIDE DEF x, e
  <2>2. Effect(x, s, HandleMessage(x, s, e, m, version), e, u,
               IF x = "client" /\ ~s.version_negotiated_compatible THEN version ELSE s.version,
               x = "client" \/ s.version_negotiated_compatible)
        BY ONLY <2>1, PlainMessage
  <2>3. s.version_negotiated_compatible \in BOOLEAN /\ x # "client"
        BY <1>1 DEF Connections, x
  <2>4. (x = "client" \/ s.version_negotiated_compatible) = s.version_negotiated_compatible
        BY <2>3
  <2>5. QED BY <2>2, <2>3, <2>4 DEF x, e, b
<1> HIDE DEF b
<1>12. /\ b.tls = u /\ b.version = s.version
       /\ b.handled = [s.handled EXCEPT !["handshake"] = @ + 1]
       /\ ~b.failed /\ b.cryptos_initial = s.cryptos_initial
       /\ b.original_cid = s.original_cid /\ b.retry_source_cid = s.retry_source_cid
       /\ b.handshake_complete <=> IsComplete(u)
      BY <1>1, <1>7, <1>9, <1>11 DEF Effect
<1>13. b.handled["initial"] = s.handled["initial"] /\ b.handled["handshake"] = k + 1
      BY <1>1, <1>12, EpochsAre DEF Counters
<1>14. IsComplete(u) <=> last
  <2>1. last => u.state = "SERVER_POST_HANDSHAKE"
    <3>1. k + 1 # 0
          BY <1>2
    <3>2. QED BY <1>9, <3>1 DEF ServerState
  <2>2. ~last => u.state \notin {"CLIENT_POST_HANDSHAKE", "SERVER_POST_HANDSHAKE"}
        BY <1>9 DEF ServerState
  <2>3. QED BY <2>1, <2>2 DEF IsComplete
<1>15. ServerFlight(b) = ServerFlight(s)
  <2>1. EncryptedExtensions(b) = EncryptedExtensions(s)
        BY <1>9, <1>12 DEF EncryptedExtensions, TransportParameters
  <2>2. QED BY <2>1 DEF ServerFlight
<1>16. ServerReads(b, c)
  <2>1. /\ b.handled["initial"] = 1 /\ b.cryptos_initial # None /\ c.cryptos_initial # None
        /\ b.tls.out["initial"] = <<ServerHello>> /\ b.tls.out["handshake"] = ServerFlight(b)
        /\ b.tls.session_resumed = Resumes
        BY <1>9, <1>12, <1>13, <1>15 DEF ServerReads
  <2>2. \A i \in DOMAIN b.tls.out["one_rtt"] :
            b.tls.out["one_rtt"][i] = Message("new_session_ticket")
        BY <1>10, <1>12
  <2>3. k + 1 =< Len(flight) /\ k + 1 > 0
        BY <1>2, <1>5
  <2>4. b.tls.state = ServerState(k + 1, flight)
        BY <1>9, <1>12
  <2>5. b.handshake_complete <=> k + 1 > 0 /\ k + 1 = Len(flight)
        BY <1>12, <1>14, <2>3
  <2>6. <<"decrypt", "one_rtt">> \in b.tls.keys => b.handshake_complete
        BY <1>9, <1>12, <1>14
  <2>7. QED BY <1>3, <1>13, <2>1, <2>2, <2>3, <2>4, <2>5, <2>6 DEF ServerReads
<1>17. ClientReads(c, b)
  <2>1. b.version = s.version /\ b.tls.early_data_accepted = s.tls.early_data_accepted
        BY <1>9, <1>12
  <2>2. QED BY <1>3, <1>13, <1>15, <2>1 DEF ClientReads
<1>18. Progress(c, b)
  <2>1. ~c.failed /\ ~c.tls.alert /\ c.tls.options = scenario.options["client"]
        BY DEF Pair, Progress
  <2>2. QED BY <1>9, <1>12, <1>16, <1>17, <2>1 DEF Progress
<1>19. Matched("server", s, c)
      BY DEF Matched
<1>20. Matched("server", b, c) /\ Advances("server", s, b)
  <2>1. /\ "server" \in End /\ "handshake" \in Epoch /\ ~("handshake" = "initial")
        /\ IF "server" = "client" THEN Progress(b, c) ELSE Progress(c, b)
        /\ s.version = s.version \/ ("handshake" = "initial" /\ Supported(s.version))
        BY <1>1, <1>18
  <2>2. OutputGrows(s.tls.out, u.out)
        BY <1>9
  <2>3. QED BY ONLY <1>11, <1>19, <2>1, <2>2, EffectMatched
<1>21. QED BY <1>3, <1>20 DEF b, m, flight

-----------------------------------------------------------------------------
(* The units of a packet.                                                  *)

\* When x may be given CRYPTO data of epoch e in a packet of a version.
Prepared(x, st, other, e, version) ==
    IF x = "client"
    THEN /\ e = "handshake" => st.handled["initial"] = 1
         /\ e = "one_rtt" => st.handshake_complete
         /\ version = other.version
    ELSE /\ st.cryptos_initial # None
         /\ st.handled["initial"] # 1 => version = other.version

\* An end that advances stays prepared for the next message.
LEMMA PreparedStays ==
    ASSUME NEW x, NEW a, NEW b, NEW other, NEW e, NEW version, Advances(x, a, b),
           Prepared(x, a, other, e, version)
    PROVE  Prepared(x, b, other, e, version)
BY DEF Advances, Prepared

\* The client that handles the next message of what it has received stays matched
\* with the server.
LEMMA ClientHandlesNext ==
    ASSUME scenario \in Scenarios, NEW c, NEW s, Pair(c, s), NEW e \in Epoch,
           NEW version, Prepared("client", c, s, e, version)
    PROVE  LET b == HandleNext("client", c, e, version)
           IN Matched("client", b, s) /\ Advances("client", c, b)
<1> DEFINE next == {u \in c.received[e] : IsCrypto(u) /\ u.n = c.handled[e] + 1}
           u == CHOOSE i \in next : TRUE
           b == HandleNext("client", c, e, version)
           out == s.tls.out[e]
<1>1. c \in Connections /\ s \in Connections /\ Matched("client", c, s) /\ c.handled \in Counters
      BY DEF Pair, Matched, Connections
<1>2. CASE c.failed \/ next = {}
  <2>1. b = c
        BY <1>2 DEF HandleNext
  <2>2. Advances("client", c, c)
        BY DEF Advances
  <2>3. QED BY <1>1, <2>1, <2>2
<1>3. CASE ~(c.failed \/ next = {})
  <2>1. u \in c.received[e] /\ IsCrypto(u) /\ u.n = c.handled[e] + 1
        BY <1>3
  <2>2. b = HandleMessage("client", c, e, u.message, version)
        BY <1>3 DEF HandleNext
  <2> HIDE DEF u, b
  <2>3. u \in Sendable("server", s, e)
        BY <2>1 DEF Pair, Heard
  <2>4. u.n \in 1..Len(out) /\ u.message = out[u.n]
        BY <1>1, <2>1, <2>3, SendableUnits
  <2>5. version = s.version
        BY DEF Prepared
  <2>6. ServerReads(s, c)
    <3>1. ~ServerWaits(s)
      <4>1. Len(<<>>) = 0
            OBVIOUS
      <4>2. out # <<>>
            BY <2>4, <4>1
      <4>3. QED BY <4>2 DEF ServerWaits
    <3>2. QED BY <3>1 DEF Pair, Progress
  <2>7. CASE e = "initial"
    <3>1. out = <<ServerHello>>
          BY <2>6, <2>7 DEF ServerReads
    <3>2. u.n = 1 /\ u.message = ServerHello
          BY <2>4, <3>1
    <3>3. ClientWaits(c)
      <4>1. c.handled["initial"] + 1 = 1
            BY <2>1, <2>7, <3>2
      <4>2. c.handled["initial"] # 1
            BY <4>1
      <4>3. QED BY <4>2 DEF Pair, Progress, ClientReads
    <3>4. b = HandleMessage("client", c, "initial", ServerHello, s.version)
          BY <2>2, <2>5, <2>7, <3>2
    <3>5. QED BY <2>6, <3>3, <3>4, ClientTakesHello DEF b
  <2>8. CASE e = "handshake"
    <3>1. ClientReads(c, s)
      <4>1. c.handled["initial"] = 1
            BY <2>8 DEF Prepared
      <4>2. QED BY <4>1, EpochsAre DEF Pair, Progress, ClientWaits
    <3>2. out = ServerFlight(s) /\ c.version = s.version
          BY <2>6, <2>8, <3>1 DEF ServerReads, ClientReads
    <3> DEFINE k == c.handled["handshake"]
    <3>3. k \in Nat /\ u.n = k + 1
          BY <1>1, <2>1, <2>8, EpochsAre DEF Counters
    <3>4. k < Len(ServerFlight(s)) /\ u.message = ServerFlight(s)[k + 1]
      <4>1. Len(ServerFlight(s)) \in Nat
            BY <1>1, ServerFlightIs
      <4> HIDE DEF k
      <4>2. QED BY <2>4, <3>2, <3>3, <4>1
    <3>5. b = HandleMessage("client", c, "handshake", ServerFlight(s)[k + 1], c.version)
          BY <2>2, <2>5, <2>8, <3>2, <3>4
    <3>6. QED BY <2>6, <3>1, <3>4, <3>5, ClientTakesFlight DEF b
  <2>9. CASE e = "one_rtt"
    <3>1. c.handshake_complete
          BY <2>9 DEF Prepared
    <3>2. ClientReads(c, s)
          BY <3>1 DEF Pair, Progress, ClientWaits
    <3>3. out \in Seq(Messages)
          BY <1>1, <2>9, EpochsAre DEF Connections, Contexts, Outputs
    <3>4. u.message = Message("new_session_ticket") /\ c.version = s.version
      <4>1. u.n \in DOMAIN out
            BY <2>4, <3>3
      <4>2. QED BY <2>4, <2>6, <2>9, <3>2, <4>1 DEF ServerReads, ClientReads
    <3>5. b = HandleMessage("client", c, "one_rtt", Message("new_session_ticket"), c.version)
          BY <2>2, <2>5, <2>9, <3>4
    <3>6. QED BY <2>6, <3>1, <3>2, <3>5, ClientTakesTicket DEF b
  <2>10. QED BY <2>7, <2>8, <2>9, EpochsAre
<1>4. QED BY <1>2, <1>3

\* The server that handles the next message of what it has received stays matched
\* with the client.
LEMMA ServerHandlesNext ==
    ASSUME scenario \in Scenarios, NEW c, NEW s, Pair(c, s), NEW e \in Epoch,
           NEW version \in STRING, Prepared("server", s, c, e, version)
    PROVE  LET b == HandleNext("server", s, e, version)
           IN Matched("server", b, c) /\ Advances("server", s, b)
<1> DEFINE next == {u \in s.received[e] : IsCrypto(u) /\ u.n = s.handled[e] + 1}
           u == CHOOSE i \in next : TRUE
           b == HandleNext("server", s, e, version)
           out == c.tls.out[e]
<1>1. c \in Connections /\ s \in Connections /\ Matched("server", s, c) /\ s.handled \in Counters
      BY DEF Pair, Matched, Connections
<1>2. CASE s.failed \/ next = {}
  <2>1. b = s
        BY <1>2 DEF HandleNext
  <2>2. Advances("server", s, s)
        BY DEF Advances
  <2>3. QED BY <1>1, <2>1, <2>2
<1>3. CASE ~(s.failed \/ next = {})
  <2>1. u \in s.received[e] /\ IsCrypto(u) /\ u.n = s.handled[e] + 1
        BY <1>3
  <2>2. b = HandleMessage("server", s, e, u.message, version)
        BY <1>3 DEF HandleNext
  <2> HIDE DEF u, b
  <2>3. u \in Sendable("client", c, e)
        BY <2>1 DEF Pair, Heard
  <2>4. u.n \in 1..Len(out) /\ u.message = out[u.n]
        BY <1>1, <2>1, <2>3, SendableUnits
  <2>5. out # <<>> /\ s.cryptos_initial # None
    <3>1. Len(<<>>) = 0
          OBVIOUS
    <3>2. QED BY <2>4, <3>1 DEF Prepared
  <2>6. c.cryptos_initial = s.cryptos_initial
        BY <2>5 DEF Pair, Introduced
  <2>7. CASE e = "initial"
    <3>1. Len(out) = 1
      <4>1. CASE ClientWaits(c)
        <5>1. out = <<Hello(c.version)>>
              BY <2>5, <2>6, <2>7, <4>1 DEF ClientWaits
        <5>2. QED BY <5>1
      <4>2. CASE ClientReads(c, s)
            BY <2>7, <4>2 DEF ClientReads
      <4>3. QED BY <4>1, <4>2 DEF Pair, Progress
    <3>2. u.n = 1
          BY <2>4, <3>1
    <3>3. s.handled["initial"] # 1
      <4>1. s.handled["initial"] + 1 = 1
            BY <2>1, <2>7, <3>2
      <4>2. QED BY <4>1
    <3>4. ServerWaits(s) /\ ClientWaits(c)
          BY <3>3 DEF Pair, Progress, ServerReads, ClientReads
    <3>5. out = <<Hello(c.version)>> /\ version = c.version
          BY <2>5, <2>6, <2>7, <3>3, <3>4 DEF ClientWaits, Prepared
    <3>6. u.message = Hello(c.version)
          BY <2>4, <3>2, <3>5
    <3>7. b = HandleMessage("server", s, "initial", Hello(c.version), c.version)
          BY <2>2, <2>7, <3>5, <3>6
    <3>8. QED BY <2>5, <3>4, <3>7, ServerTakesHello DEF b
  <2>8. CASE e = "handshake"
    <3>1. ~ClientWaits(c)
          BY <2>5, <2>8 DEF ClientWaits
    <3>2. s.handled["initial"] = 1
          BY <3>1 DEF Pair, Progress, ClientReads
    <3>3. ServerReads(s, c)
          BY <3>2, EpochsAre DEF Pair, Progress, ServerWaits
    <3> DEFINE k == s.handled["handshake"]
    <3>4. k \in Nat /\ u.n = k + 1
          BY <1>1, <2>1, <2>8, EpochsAre DEF Counters
    <3>5. k < Len(c.tls.out["handshake"]) /\ u.message = c.tls.out["handshake"][k + 1]
      <4>1. out \in Seq(Messages)
            BY <1>1 DEF Connections, Contexts, Outputs
      <4>2. Len(out) \in Nat
            BY <4>1
      <4> HIDE DEF k
      <4>3. QED BY <2>4, <2>8, <3>4, <4>2
    <3>6. b = HandleMessage("server", s, "handshake", c.tls.out["handshake"][k + 1], version)
          BY <2>2, <2>8, <3>5
    <3>7. QED BY <3>3, <3>5, <3>6, ServerTakesFlight DEF b
  <2>9. CASE e = "one_rtt"
        BY <2>5, <2>9 DEF Pair, Progress, ClientWaits, ClientReads
  <2>10. QED BY <2>7, <2>8, <2>9, EpochsAre
<1>4. QED BY <1>2, <1>3

\* The next message leaves all that is known of the two.
LEMMA NextMatched ==
    ASSUME scenario \in Scenarios, NEW x \in End, NEW a, NEW other, Matched(x, a, other),
           NEW e \in Epoch, NEW version \in STRING, Prepared(x, a, other, e, version)
    PROVE  LET b == HandleNext(x, a, e, version)
           IN /\ Matched(x, b, other) /\ Advances(x, a, b)
              /\ Prepared(x, b, other, e, version)
<1> DEFINE b == HandleNext(x, a, e, version)
<1>1. Matched(x, b, other) /\ Advances(x, a, b)
  <2>1. CASE x = "client"
    <3>1. Pair(a, other) /\ Prepared("client", a, other, e, version)
          BY <2>1 DEF Matched
    <3>2. QED BY <2>1, <3>1, ClientHandlesNext
  <2>2. CASE x = "server"
    <3>1. Pair(other, a) /\ Prepared("server", a, other, e, version)
          BY <2>2 DEF Matched
    <3>2. QED BY <2>2, <3>1, ServerHandlesNext
  <2>3. QED BY <2>1, <2>2, Ends
<1> HIDE DEF b
<1>2. Prepared(x, b, other, e, version)
      BY <1>1, PreparedStays
<1>3. QED BY <1>1, <1>2 DEF b

\* The recursive function that stands in _handle_crypto_frame.
AreHandled(f, x, recorded, e, version, most) ==
    f = [i \in 0..most |-> IF i = 0 THEN recorded ELSE HandleNext(x, f[i - 1], e, version)]

\* All the messages that have come, one after the other.
LEMMA AllNextMatched ==
    ASSUME scenario \in Scenarios, NEW x \in End, NEW a, NEW other, Matched(x, a, other),
           NEW e \in Epoch, NEW version \in STRING, Prepared(x, a, other, e, version),
           NEW most \in Nat,
           NEW f, f = CHOOSE g : AreHandled(g, x, a, e, version, most)
    PROVE  Matched(x, f[most], other) /\ Advances(x, a, f[most])
<1> DEFINE V == {v \in Connections : /\ Matched(x, v, other) /\ Advances(x, a, v)
                                     /\ Prepared(x, v, other, e, version)}
           Put(v) == HandleNext(x, v, e, version)
           step == [p \in (1..most) \X V |-> Put(p[2])]
<1>1. a \in V
  <2>1. a \in Connections
        BY Ends DEF Matched, Pair
  <2>2. Advances(x, a, a)
        BY DEF Advances
  <2>3. QED BY <2>1, <2>2
<1>2. ASSUME NEW v \in V PROVE Put(v) \in V
  <2>1. /\ Matched(x, v, other) /\ Advances(x, a, v) /\ Prepared(x, v, other, e, version)
        OBVIOUS
  <2>2. /\ Matched(x, Put(v), other) /\ Advances(x, v, Put(v))
        /\ Prepared(x, Put(v), other, e, version)
        BY <2>1, NextMatched
  <2> HIDE DEF Put
  <2>3. Advances(x, a, Put(v))
        BY <2>1, <2>2, AdvancesFurther
  <2>4. Put(v) \in Connections
        BY <2>2, Ends DEF Matched, Pair
  <2>5. QED BY <2>2, <2>3, <2>4
<1>3. step \in [(1..most) \X V -> V]
  <2> HIDE DEF V, Put
  <2> QED BY <1>2
<1>4. PICK h \in [0..most -> V] : h[0] = a /\ \A i \in 1..most : h[i] = step[<<i, h[i - 1]>>]
  <2> HIDE DEF V, step
  <2>1. Walks(most, V, a, step) # {}
        BY <1>1, <1>3, StepsExist
  <2>2. QED BY <2>1 DEF Walks
<1>5. \A i \in 1..most : h[i] = Put(h[i - 1])
  <2> HIDE DEF V, Put
  <2> SUFFICES ASSUME NEW i \in 1..most PROVE h[i] = Put(h[i - 1])
      OBVIOUS
  <2>1. i - 1 \in 0..most
        OBVIOUS
  <2>2. h[i - 1] \in V
        BY <2>1
  <2>3. h[i] = step[<<i, h[i - 1]>>]
        BY <1>4
  <2>4. QED BY <2>2, <2>3
<1>6. AreHandled(h, x, a, e, version, most)
  <2> DEFINE G(g) == [i \in 0..most |-> IF i = 0 THEN a ELSE Put(g[i - 1])]
  <2>1. \A i \in 0..most : h[i] = G(h)[i]
    <3> SUFFICES ASSUME NEW i \in 0..most PROVE h[i] = G(h)[i]
        OBVIOUS
    <3>1. i = 0 \/ i \in 1..most
          OBVIOUS
    <3> HIDE DEF V, Put
    <3>2. QED BY <1>4, <1>5, <3>1
  <2>2. h = G(h)
    <3> HIDE DEF V, Put
    <3> QED BY <2>1
  <2>3. QED BY <2>2 DEF AreHandled
<1>7. AreHandled(f, x, a, e, version, most)
      BY <1>6
<1>8. \A i \in 0..most : f[i] = IF i = 0 THEN a ELSE Put(f[i - 1])
      BY <1>7 DEF AreHandled
<1>9. f[most] \in V
  <2> HIDE DEF Put
  <2> DEFINE Good == {i \in 0..most : f[i] \in V}
  <2>1. 0 \in Good
    <3>1. 0 \in 0..most
          OBVIOUS
    <3> HIDE DEF V
    <3>2. f[0] = a
          BY <1>8, <3>1
    <3>3. QED BY <1>1, <3>1, <3>2
  <2>2. ASSUME NEW k \in 0..(most - 1), k \in Good PROVE k + 1 \in Good
    <3>1. k + 1 \in 0..most /\ k + 1 # 0 /\ (k + 1) - 1 = k
          OBVIOUS
    <3> HIDE DEF V
    <3>2. f[k + 1] = Put(f[k])
          BY <1>8, <3>1
    <3>3. f[k] \in V
          BY <2>2
    <3>4. f[k + 1] \in V
          BY <1>2, <3>2, <3>3
    <3>5. QED BY <3>1, <3>4
  <2>3. most \in Good
    <3> HIDE DEF Good
    <3>1. \A k \in 0..most : k \in Good
          BY <2>1, <2>2, InductionUpTo
    <3>2. QED BY <3>1
  <2>4. QED BY <2>3
<1>10. QED BY <1>9

\* What was received is recorded.
Recorded(a, b, e, units) == b = [a EXCEPT !.received[e] = @ \cup units]

\* Units an end records as received were sent to it.
LEMMA RecordedIs ==
    ASSUME NEW x \in End, NEW a, NEW other, Matched(x, a, other), NEW e \in Epoch,
           other.cryptos_initial # None, NEW units \in SUBSET Sendable(Other(x), other, e),
           NEW b, Recorded(a, b, e, units)
    PROVE  /\ Matched(x, b, other) /\ Advances(x, a, b) /\ SameCourse(a, b)
           /\ b.received[e] = a.received[e] \cup units
           /\ b.discarded = a.discarded
<1> DEFINE received == [a.received EXCEPT ![e] = @ \cup units]
<1>1. /\ a \in Connections /\ other \in Connections /\ Own(x, a) /\ Heard(a, Other(x), other)
      BY Ends, Others DEF Matched, Pair
<1>2. a.received \in UnitSets
      BY <1>1 DEF Connections
<1>3. units \in SUBSET UnitType
      BY <1>1, SendableType
<1>4. received \in UnitSets
      BY <1>2, <1>3 DEF UnitSets
<1>5. b = [a EXCEPT !.received = received]
      BY <1>1 DEF Connections, Recorded
<1>6. \A i \in Epoch : received[i] = IF i = e THEN a.received[e] \cup units ELSE a.received[i]
      BY <1>2 DEF UnitSets
<1> HIDE DEF received
<1>7. b \in Connections
      BY <1>1, <1>4, <1>5 DEF Connections
<1>8. /\ SameCourse(a, b) /\ b.received = received /\ b.discarded = a.discarded
      /\ b.peer_cid = a.peer_cid /\ b.flight = a.flight /\ b.overtaken = a.overtaken
      /\ b.pending = a.pending
      BY <1>1, <1>5 DEF Connections, SameCourse
<1>9. Own(x, b)
      BY ONLY <1>1, <1>7, <1>8, OwnKept
<1>10. Heard(b, Other(x), other)
  <2>1. ASSUME NEW i \in Epoch PROVE b.received[i] \subseteq Sendable(Other(x), other, i)
    <3>1. a.received[i] \subseteq Sendable(Other(x), other, i)
          BY <1>1 DEF Heard
    <3>2. b.received[i] = IF i = e THEN a.received[i] \cup units ELSE a.received[i]
          BY <1>6, <1>8
    <3>3. QED BY ONLY <3>1, <3>2, units \in SUBSET Sendable(Other(x), other, e)
  <2>2. QED BY <2>1 DEF Heard
<1>11. \A i \in b.discarded : i \in a.discarded
      BY <1>8
<1>12. Matched(x, b, other) /\ Advances(x, a, b)
  <2>1. x = "client" => b.peer_cid = a.peer_cid
        BY <1>8
  <2>2. QED BY <1>7, <1>8, <1>9, <1>10, <1>11, <2>1, MatchedKept
<1>13. QED BY <1>6, <1>8, <1>12

\* _handle_crypto_frame() keeps an end matched, however many messages the frame
\* completes.
LEMMA CryptoFrameMatched ==
    ASSUME scenario \in Scenarios, NEW x \in End, NEW a, NEW other, Matched(x, a, other),
           NEW e \in Epoch, NEW version \in STRING, Prepared(x, a, other, e, version),
           other.cryptos_initial # None, NEW unit \in Sendable(Other(x), other, e)
    PROVE  LET b == _handle_crypto_frame(x, a, e, unit, version)
           IN Matched(x, b, other) /\ Advances(x, a, b)
<1> DEFINE b == _handle_crypto_frame(x, a, e, unit, version)
           recorded == [a EXCEPT !.received[e] = @ \cup {unit}]
           most == Cardinality(recorded.received[e])
           f == CHOOSE g : AreHandled(g, x, recorded, e, version, most)
<1>1. b = IF unit.n = a.handled[e] + 1 THEN f[most]
          ELSE IF x = "server" /\ e = "initial" THEN rescheduleOnce(recorded)
          ELSE recorded
      BY DEF Steps, _handle_crypto_frame, AreHandled
<1>2. Matched(x, recorded, other) /\ Advances(x, a, recorded)
  <2>1. Recorded(a, recorded, e, {unit})
        BY DEF Recorded
  <2> HIDE DEF recorded
  <2>2. {unit} \in SUBSET Sendable(Other(x), other, e)
        OBVIOUS
  <2>3. Matched(x, a, other) /\ other.cryptos_initial # None
        OBVIOUS
  <2>4. QED BY ONLY x \in End, e \in Epoch, <2>1, <2>2, <2>3, RecordedIs
<1>3. most \in Nat
  <2> HIDE DEF recorded
  <2>1. recorded.received[e] \subseteq Sendable(Other(x), other, e) /\ other \in Connections
        BY <1>2, Ends, Others DEF Matched, Pair, Heard
  <2>2. QED BY <2>1, SendableType, FS_Subset, FS_CardinalityType
<1> HIDE DEF recorded, most
<1>4. CASE unit.n = a.handled[e] + 1
  <2>1. Prepared(x, recorded, other, e, version)
        BY <1>2, PreparedStays
  <2>2. Matched(x, f[most], other) /\ Advances(x, recorded, f[most])
        BY <1>2, <1>3, <2>1, AllNextMatched
  <2> HIDE DEF f
  <2>3. QED BY <1>1, <1>2, <1>4, <2>2, AdvancesFurther
<1>5. CASE unit.n # a.handled[e] + 1 /\ x = "server" /\ e = "initial"
  <2>1. recorded \in Connections /\ Own(x, recorded)
        BY <1>2, Ends DEF Matched, Pair
  <2>2. Quiet(x, recorded, rescheduleOnce(recorded))
        BY <2>1, RescheduleQuiet
  <2>3. b = rescheduleOnce(recorded)
        BY <1>1, <1>5
  <2>4. Matched(x, b, other) /\ Advances(x, recorded, b)
        BY <1>2, <2>2, <2>3, MatchedQuiet
  <2>5. QED BY <1>2, <2>4, AdvancesFurther
<1>6. CASE unit.n # a.handled[e] + 1 /\ ~(x = "server" /\ e = "initial")
      BY <1>1, <1>2, <1>6
<1>7. QED BY <1>4, <1>5, <1>6

\* HANDSHAKE_DONE comes from a server that has completed the handshake.
LEMMA DoneMatched ==
    ASSUME NEW x \in End, NEW a, NEW other, Matched(x, a, other), NEW e \in Epoch,
           other.cryptos_initial # None, Done \in Sendable(Other(x), other, e)
    PROVE  LET b == _handle_handshake_done_frame(a)
           IN Matched(x, b, other) /\ Advances(x, a, b)
<1> DEFINE p == _discard_epoch(a, "handshake")
           b == _handle_handshake_done_frame(a)
<1>1. /\ a \in Connections /\ other \in Connections /\ Own(x, a) /\ Heard(a, Other(x), other)
      BY Ends, Others DEF Matched, Pair
<1>2. x = "client" /\ other.handshake_complete
  <2>1. Other(x) = "server" /\ other.handshake_complete
        BY <1>1, UnitTypes, SendableUnits
  <2>2. QED BY <2>1, Ends, Others
<1>3. /\ p \in Connections /\ SameCourse(a, p) /\ Own(x, p)
      /\ p.received = a.received /\ p.peer_cid = a.peer_cid
      /\ p.discarded = a.discarded \cup {"handshake"}
  <2>1. p = _discard_epoch(a, "handshake") /\ "handshake" \in Epoch
        BY EpochsAre
  <2> HIDE DEF p
  <2>2. QED BY ONLY <1>1, <2>1, DiscardIs
<1>4. CASE a.handshake_confirmed
  <2>1. b = a
        BY <1>4 DEF _handle_handshake_done_frame
  <2>2. Advances(x, a, a)
        BY DEF Advances
  <2>3. QED BY <2>1, <2>2
<1>5. CASE ~a.handshake_confirmed
  <2>1. b = [p EXCEPT !.handshake_confirmed = TRUE, !.peer_completed_address_validation = TRUE]
        BY <1>5 DEF _handle_handshake_done_frame
  <2> HIDE DEF p, b
  <2>2. /\ b \in Connections /\ SameCourse(p, b)
        /\ b.received = p.received /\ b.peer_cid = p.peer_cid /\ b.discarded = p.discarded
        /\ b.pending = p.pending /\ b.flight = p.flight /\ b.overtaken = p.overtaken
        BY <1>3, <2>1 DEF Connections, SameCourse
  <2>3. SameCourse(a, b)
        BY <1>3, <2>2 DEF SameCourse
  <2>4. Own(x, b)
        BY ONLY <1>3, <2>2, OwnKept
  <2>5. Heard(b, Other(x), other)
        BY <1>1, <1>3, <2>2, HeardKept
  <2>6. \A i \in b.discarded : i \in a.discarded \/ i = "handshake"
        BY <1>3, <2>2
  <2>7. Matched(x, b, other) /\ Advances(x, a, b)
        BY <1>2, <1>3, <2>2, <2>3, <2>4, <2>5, <2>6, MatchedKept
  <2>8. QED BY <2>7 DEF b
<1>6. QED BY <1>4, <1>5

\* One unit of a packet.
LEMMA UnitMatched ==
    ASSUME scenario \in Scenarios, NEW x \in End, NEW a, NEW other, Matched(x, a, other),
           NEW e \in Epoch, NEW version \in STRING, other.cryptos_initial # None,
           NEW unit \in Sendable(Other(x), other, e),
           IsCrypto(unit) => Prepared(x, a, other, e, version)
    PROVE  LET b == HandleUnit(x, a, e, unit, version)
           IN Matched(x, b, other) /\ Advances(x, a, b)
<1> DEFINE b == HandleUnit(x, a, e, unit, version)
<1>1. CASE a.failed \/ unit = Ping
  <2>1. b = a
        BY <1>1 DEF HandleUnit
  <2>2. Advances(x, a, a)
        BY DEF Advances
  <2>3. QED BY <2>1, <2>2
<1>2. CASE ~(a.failed \/ unit = Ping) /\ unit = Done
  <2>1. b = _handle_handshake_done_frame(a)
        BY <1>2 DEF HandleUnit
  <2>2. Done \in Sendable(Other(x), other, e)
        BY <1>2
  <2> HIDE DEF b
  <2>3. Matched(x, b, other) /\ Advances(x, a, b)
        BY <2>1, <2>2, DoneMatched
  <2>4. QED BY <2>3 DEF b
<1>3. CASE ~(a.failed \/ unit = Ping) /\ unit # Done
  <2>1. b = _handle_crypto_frame(x, a, e, unit, version)
        BY <1>3 DEF HandleUnit
  <2>2. other \in Connections
        BY Ends, Others DEF Matched, Pair
  <2>3. IsCrypto(unit)
        BY <1>3, <2>2, SendableUnits
  <2> HIDE DEF b
  <2>4. Matched(x, b, other) /\ Advances(x, a, b)
        BY <2>1, <2>3, CryptoFrameMatched
  <2>5. QED BY <2>4 DEF b
<1>4. QED BY <1>1, <1>2, <1>3

\* The recursive function that stands in _payload_received, and when the units of a
\* packet may be given.
AreTaken(f, x, start, e, units, version) ==
    f = [i \in 0..Len(units) |->
            IF i = 0 THEN start ELSE HandleUnit(x, f[i - 1], e, units[i], version)]
Allowable(x, st, other, e, version, units) ==
    (\E u \in units : IsCrypto(u)) => Prepared(x, st, other, e, version)

\* The units of a packet, one after the other.
LEMMA UnitsMatched ==
    ASSUME scenario \in Scenarios, NEW x \in End, NEW a, NEW other, Matched(x, a, other),
           NEW e \in Epoch, NEW version \in STRING, other.cryptos_initial # None,
           NEW held \in SUBSET Sendable(Other(x), other, e),
           Allowable(x, a, other, e, version, held), NEW units \in Seq(held),
           NEW f, f = CHOOSE g : AreTaken(g, x, a, e, units, version)
    PROVE  Matched(x, f[Len(units)], other) /\ Advances(x, a, f[Len(units)])
<1> DEFINE most == Len(units)
           V == {v \in Connections : /\ Matched(x, v, other) /\ Advances(x, a, v)
                                     /\ Allowable(x, v, other, e, version, held)}
           Put(i, v) == HandleUnit(x, v, e, units[i], version)
           step == [p \in (1..most) \X V |-> Put(p[1], p[2])]
<1>0. most \in Nat
      OBVIOUS
<1>1. a \in V
  <2>1. a \in Connections
        BY Ends DEF Matched, Pair
  <2>2. Advances(x, a, a)
        BY DEF Advances
  <2>3. QED BY <2>1, <2>2
<1>2. ASSUME NEW i \in 1..most, NEW v \in V PROVE Put(i, v) \in V
  <2>1. /\ Matched(x, v, other) /\ Advances(x, a, v)
        /\ Allowable(x, v, other, e, version, held)
        OBVIOUS
  <2>2. units[i] \in held
        OBVIOUS
  <2>3. units[i] \in Sendable(Other(x), other, e)
        BY <2>2
  <2>4. IsCrypto(units[i]) => Prepared(x, v, other, e, version)
        BY <2>1, <2>2 DEF Allowable
  <2>5. Matched(x, Put(i, v), other) /\ Advances(x, v, Put(i, v))
        BY ONLY scenario \in Scenarios, x \in End, e \in Epoch, version \in STRING,
                other.cryptos_initial # None, <2>1, <2>3, <2>4, UnitMatched
  <2> HIDE DEF Put
  <2>6. Advances(x, a, Put(i, v))
        BY <2>1, <2>5, AdvancesFurther
  <2>7. Allowable(x, Put(i, v), other, e, version, held)
        BY ONLY <2>1, <2>5, PreparedStays DEF Allowable
  <2>8. Put(i, v) \in Connections
        BY <2>5, Ends DEF Matched, Pair
  <2>9. QED BY <2>5, <2>6, <2>7, <2>8
<1>3. step \in [(1..most) \X V -> V]
  <2> HIDE DEF V, Put, most
  <2> QED BY <1>2
<1>4. PICK h \in [0..most -> V] : h[0] = a /\ \A i \in 1..most : h[i] = step[<<i, h[i - 1]>>]
  <2> HIDE DEF V, step, most
  <2>1. Walks(most, V, a, step) # {}
        BY <1>0, <1>1, <1>3, StepsExist
  <2>2. QED BY <2>1 DEF Walks
<1>5. \A i \in 1..most : h[i] = Put(i, h[i - 1])
  <2> HIDE DEF V, Put, most
  <2> SUFFICES ASSUME NEW i \in 1..most PROVE h[i] = Put(i, h[i - 1])
      OBVIOUS
  <2>1. i - 1 \in 0..most
        BY <1>0
  <2>2. h[i - 1] \in V
        BY <2>1
  <2>3. h[i] = step[<<i, h[i - 1]>>]
        BY <1>4
  <2>4. QED BY <2>2, <2>3
<1>6. AreTaken(h, x, a, e, units, version)
  <2> DEFINE G(g) == [i \in 0..most |-> IF i = 0 THEN a ELSE Put(i, g[i - 1])]
  <2>1. \A i \in 0..most : h[i] = G(h)[i]
    <3> SUFFICES ASSUME NEW i \in 0..most PROVE h[i] = G(h)[i]
        OBVIOUS
    <3>1. i = 0 \/ i \in 1..most
          BY <1>0
    <3> HIDE DEF V, Put, most
    <3>2. QED BY <1>4, <1>5, <3>1
  <2>2. h = G(h)
    <3> HIDE DEF V, Put, most
    <3> QED BY <2>1
  <2>3. QED BY <2>2 DEF AreTaken
<1>7. AreTaken(f, x, a, e, units, version)
      BY <1>6
<1>8. \A i \in 0..most : f[i] = IF i = 0 THEN a ELSE Put(i, f[i - 1])
      BY <1>7 DEF AreTaken
<1>9. f[most] \in V
  <2> HIDE DEF Put, most
  <2> DEFINE Good == {i \in 0..most : f[i] \in V}
  <2>1. 0 \in Good
    <3>1. 0 \in 0..most
          BY <1>0
    <3> HIDE DEF V
    <3>2. f[0] = a
          BY <1>8, <3>1
    <3>3. QED BY <1>1, <3>1, <3>2
  <2>2. ASSUME NEW k \in 0..(most - 1), k \in Good PROVE k + 1 \in Good
    <3>1. k + 1 \in 0..most /\ k + 1 \in 1..most /\ k + 1 # 0 /\ (k + 1) - 1 = k
          BY <1>0
    <3> HIDE DEF V
    <3>2. f[k + 1] = Put(k + 1, f[k])
          BY <1>8, <3>1
    <3>3. f[k] \in V
          BY <2>2
    <3>4. f[k + 1] \in V
          BY <1>2, <3>1, <3>2, <3>3
    <3>5. QED BY <3>1, <3>4
  <2>3. most \in Good
    <3> HIDE DEF Good
    <3>1. \A k \in 0..most : k \in Good
          BY <1>0, <2>1, <2>2, InductionUpTo
    <3>2. QED BY <1>0, <3>1
  <2>4. QED BY <2>3
<1>10. QED BY <1>9

\* What _payload_received does before and after the units.
Connecting(x, a, e) ==
    [(IF x = "server" /\ e = "handshake" THEN _discard_epoch(a, "initial") ELSE a)
        EXCEPT !.state = "CONNECTED", !.peer_cid = Other(x)]

Noted(a, e, units) ==
    [a EXCEPT !.is_validated = @ \/ e = "handshake",
              !.received[e] = @ \cup units,
              !.ack_at = IF units # {} /\ e \notin a.discarded THEN @ \cup {e} ELSE @]

\* An end that comes to be CONNECTED stays matched with the other.
LEMMA ConnectingMatched ==
    ASSUME NEW x \in End, NEW a, NEW other, Matched(x, a, other), NEW e \in Epoch,
           other.cryptos_initial # None,
           x = "server" /\ e = "handshake" => other.handled["initial"] = 1,
           NEW b, b = Connecting(x, a, e)
    PROVE  Matched(x, b, other) /\ Advances(x, a, b)
<1> DEFINE p == IF x = "server" /\ e = "handshake" THEN _discard_epoch(a, "initial") ELSE a
<1>1. /\ a \in Connections /\ other \in Connections /\ Own(x, a) /\ Heard(a, Other(x), other)
      BY Ends, Others DEF Matched, Pair
<1>2. /\ p \in Connections /\ SameCourse(a, p) /\ Own(x, p) /\ p.received = a.received
      /\ \A i \in p.discarded : \/ i \in a.discarded
                                \/ i = "initial" /\ x = "server" /\ e = "handshake"
  <2>1. CASE x = "server" /\ e = "handshake"
    <3>1. p = _discard_epoch(a, "initial") /\ "initial" \in Epoch
          BY <2>1, EpochsAre
    <3> HIDE DEF p
    <3>2. /\ p \in Connections /\ SameCourse(a, p) /\ Own(x, p) /\ p.received = a.received
          /\ p.discarded = a.discarded \cup {"initial"}
          BY ONLY <1>1, <3>1, DiscardIs
    <3>3. QED BY <2>1, <3>2
  <2>2. CASE ~(x = "server" /\ e = "handshake")
        BY <1>1, <2>2 DEF SameCourse
  <2>3. QED BY <2>1, <2>2
<1>3. b = [p EXCEPT !.state = "CONNECTED", !.peer_cid = Other(x)]
      BY DEF Connecting
<1> HIDE DEF p
<1>4. /\ b \in Connections /\ SameCourse(p, b)
      /\ b.received = p.received /\ b.discarded = p.discarded
      /\ b.pending = p.pending /\ b.flight = p.flight /\ b.overtaken = p.overtaken
      /\ b.peer_cid = Other(x)
  <2> DEFINE y == Other(x)
  <2>1. y \in Cid
        BY Ends, Others DEF Cid
  <2>2. b = [p EXCEPT !.state = "CONNECTED", !.peer_cid = y]
        BY <1>3
  <2>3. p \in Connections
        BY <1>2
  <2> HIDE DEF y
  <2>4. b \in Connections
        BY ONLY <2>1, <2>2, <2>3 DEF Connections
  <2>5. /\ SameCourse(p, b)
        /\ b.received = p.received /\ b.discarded = p.discarded
        /\ b.pending = p.pending /\ b.flight = p.flight /\ b.overtaken = p.overtaken
        /\ b.peer_cid = y
        BY ONLY <2>1, <2>2, <2>3 DEF Connections, SameCourse
  <2>6. QED BY <2>4, <2>5 DEF y
<1>5. SameCourse(a, b)
      BY <1>2, <1>4 DEF SameCourse
<1>6. Own(x, b)
      BY ONLY <1>2, <1>4, OwnKept
<1>7. Heard(b, Other(x), other)
      BY <1>1, <1>2, <1>4, HeardKept
<1>8. x = "client" => b.peer_cid = "server"
      BY <1>4, Others
<1>9. \A i \in b.discarded :
          \/ i \in a.discarded
          \/ i = "initial" /\ (IF x = "client" THEN a ELSE other).handled["initial"] = 1
      BY <1>2, <1>4
<1>10. b.received = a.received
       BY <1>2, <1>4
<1>11. QED BY <1>4, <1>5, <1>6, <1>7, <1>8, <1>9, <1>10, MatchedKept

\* An end that notes what it has received and has to acknowledge stays matched.
LEMMA NotedMatched ==
    ASSUME NEW x \in End, NEW a, NEW other, Matched(x, a, other), NEW e \in Epoch,
           other.cryptos_initial # None, NEW units \in SUBSET Sendable(Other(x), other, e),
           NEW b, b = Noted(a, e, units)
    PROVE  Matched(x, b, other) /\ Advances(x, a, b)
<1> DEFINE r == [a EXCEPT !.received[e] = @ \cup units]
           due == IF units # {} /\ e \notin a.discarded THEN a.ack_at \cup {e} ELSE a.ack_at
           valid == a.is_validated \/ e = "handshake"
<1>1. Recorded(a, r, e, units)
      BY DEF Recorded
<1>2. a \in Connections
      BY Ends DEF Matched, Pair
<1>3. b = [r EXCEPT !.is_validated = valid, !.ack_at = due]
      BY <1>2 DEF Noted, Connections
<1>4. due \in SUBSET Epoch /\ valid \in BOOLEAN
      BY <1>2 DEF Connections
<1> HIDE DEF r, due, valid
<1>5. Matched(x, r, other) /\ Advances(x, a, r)
      BY ONLY x \in End, Matched(x, a, other), e \in Epoch, other.cryptos_initial # None,
              units \in SUBSET Sendable(Other(x), other, e), <1>1, RecordedIs
<1>6. r \in Connections /\ Own(x, r)
      BY <1>5, Ends DEF Matched, Pair
<1>7. /\ b \in Connections /\ SameCourse(r, b)
      /\ b.received = r.received /\ b.discarded = r.discarded
      /\ b.pending = r.pending /\ b.flight = r.flight /\ b.overtaken = r.overtaken
      /\ b.peer_cid = r.peer_cid
  <2>1. r \in Connections
        BY <1>6
  <2>2. b \in Connections
        BY ONLY <1>3, <1>4, <2>1 DEF Connections
  <2>3. /\ SameCourse(r, b)
        /\ b.received = r.received /\ b.discarded = r.discarded
        /\ b.pending = r.pending /\ b.flight = r.flight /\ b.overtaken = r.overtaken
        /\ b.peer_cid = r.peer_cid
        BY ONLY <1>3, <1>4, <2>1 DEF Connections, SameCourse
  <2>4. QED BY <2>2, <2>3
<1>8. Own(x, b)
      BY ONLY <1>6, <1>7, OwnKept
<1>9. Quiet(x, r, b)
      BY <1>7, <1>8 DEF Quiet
<1> HIDE DEF Noted
<1>10. Matched(x, b, other) /\ Advances(x, r, b)
       BY ONLY x \in End, <1>5, <1>9, MatchedQuiet
<1>11. QED BY ONLY <1>5, <1>10, AdvancesFurther

\* A packet that can be decrypted.
LEMMA PayloadMatched ==
    ASSUME scenario \in Scenarios, NEW x \in End, NEW a, NEW other, Matched(x, a, other),
           NEW e \in Epoch, NEW version \in STRING, other.cryptos_initial # None,
           NEW packet, packet.units \in SUBSET Sendable(Other(x), other, e),
           Allowable(x, a, other, e, version, packet.units),
           x = "server" /\ e = "handshake" => other.handled["initial"] = 1
    PROVE  LET b == _payload_received(x, a, e, packet, version)
           IN Matched(x, b, other) /\ Advances(x, a, b)
<1> DEFINE p == Connecting(x, a, e)
           q == _handle_ack_frame(p, e, packet.ack)
           units == InOrder(packet.units)
           f == CHOOSE g : AreTaken(g, x, q, e, units, version)
           after == f[Len(units)]
           b == _payload_received(x, a, e, packet, version)
<1>1. b = IF after.failed THEN after ELSE Noted(after, e, packet.units)
      BY DEF Steps, _payload_received, Noted, AreTaken, Connecting
<1> HIDE DEF b
<1>2. Matched(x, p, other) /\ Advances(x, a, p)
  <2>1. p = Connecting(x, a, e)
        OBVIOUS
  <2> HIDE DEF p
  <2>2. QED BY <2>1, ConnectingMatched
<1> HIDE DEF p
<1>3. Matched(x, q, other) /\ Advances(x, a, q)
  <2>1. p \in Connections /\ Own(x, p)
        BY <1>2, Ends DEF Matched, Pair
  <2>2. Quiet(x, p, q)
        BY <2>1, AckQuiet
  <2> HIDE DEF q
  <2>3. Matched(x, q, other) /\ Advances(x, p, q)
        BY <1>2, <2>2, MatchedQuiet
  <2>4. QED BY <1>2, <2>3, AdvancesFurther
<1> HIDE DEF q
<1>4. units \in Seq(packet.units)
  <2>1. other \in Connections
        BY Ends DEF Matched, Pair
  <2>2. packet.units \in SUBSET UnitType /\ IsFiniteSet(packet.units)
        BY <2>1, SendableType, FS_Subset
  <2>3. QED BY <2>2, InOrderIsPart
<1> HIDE DEF units
<1>5. Matched(x, after, other) /\ Advances(x, a, after)
  <2>1. Allowable(x, q, other, e, version, packet.units)
        BY <1>3, PreparedStays DEF Allowable
  <2>2. f = CHOOSE g : AreTaken(g, x, q, e, units, version)
        OBVIOUS
  <2> HIDE DEF f
  <2>3. Matched(x, f[Len(units)], other) /\ Advances(x, q, f[Len(units)])
        BY ONLY scenario \in Scenarios, x \in End, e \in Epoch, version \in STRING,
                other.cryptos_initial # None,
                packet.units \in SUBSET Sendable(Other(x), other, e),
                <1>3, <1>4, <2>1, <2>2, UnitsMatched
  <2>4. QED BY <1>3, <2>3, AdvancesFurther
<1> HIDE DEF after
<1>6. CASE after.failed
  <2>1. b = after
        BY <1>1, <1>6
  <2>2. Matched(x, b, other) /\ Advances(x, a, b)
        BY <1>5, <2>1
  <2>3. QED BY <2>2 DEF b
<1>7. CASE ~after.failed
  <2>1. b = Noted(after, e, packet.units)
        BY <1>1, <1>7
  <2>2. Matched(x, b, other) /\ Advances(x, after, b)
        BY <1>5, <2>1, NotedMatched
  <2>3. Advances(x, a, b)
        BY <1>5, <2>2, AdvancesFurther
  <2>4. QED BY <2>2, <2>3 DEF b
<1>8. QED BY <1>6, <1>7

-----------------------------------------------------------------------------
(* Datagrams that come.                                                    *)

\* The keys that a connection has tell how far it is.
LEMMA KeysTell ==
    ASSUME NEW x \in End, NEW a, NEW other, Matched(x, a, other), NEW e \in Epoch,
           HasKey(a, "decrypt", e), e # "initial"
    PROVE  /\ x = "client" /\ e = "handshake" => a.handled["initial"] = 1
           /\ x = "client" /\ e = "one_rtt" => a.handshake_complete
           /\ x = "server" => a.handled["initial"] = 1
<1>1. <<"decrypt", e>> \in a.tls.keys
      BY DEF HasKey
<1>2. CASE x = "client"
  <2>1. ClientWaits(a) \/ ClientReads(a, other)
        BY <1>2 DEF Matched, Pair, Progress
  <2>2. ~ClientWaits(a)
        BY <1>1 DEF ClientWaits
  <2>3. ClientReads(a, other)
        BY <2>1, <2>2
  <2>4. /\ a.handled["initial"] = 1
        /\ <<"decrypt", "one_rtt">> \in a.tls.keys => a.handshake_complete
        BY <2>3 DEF ClientReads
  <2>5. QED BY <1>1, <1>2, <2>4
<1>3. CASE x = "server"
  <2>1. ServerWaits(a) \/ ServerReads(a, other)
        BY <1>3, Ends DEF Matched, Pair, Progress
  <2>2. ~ServerWaits(a)
        BY <1>1 DEF ServerWaits
  <2>3. a.handled["initial"] = 1
        BY <2>1, <2>2 DEF ServerReads
  <2>4. QED BY <1>3, <2>3
<1>4. QED BY <1>2, <1>3, Ends

\* What is known of a packet of a datagram that x can decrypt.
LEMMA PacketIsKnown ==
    ASSUME NEW x \in End, NEW a, NEW other, Matched(x, a, other), a.cryptos_initial # None,
           NEW d, Known(x, d, a, other), d.to = x, d.kind = "packets",
           x = "server" => Supported(d.version), NEW e \in Epoch,
           HasKey(a, "decrypt", e), ~(e = "initial" /\ d.initial_cid # a.cryptos_initial)
    PROVE  /\ other.cryptos_initial # None /\ d.version \in STRING
           /\ d.packets[e].units \in SUBSET Sendable(Other(x), other, e)
           /\ Allowable(x, a, other, e, d.version, d.packets[e].units)
           /\ x = "server" /\ e = "handshake" /\ ~IsEmpty(d.packets[e])
                  => other.handled["initial"] = 1
<1> DEFINE units == d.packets[e].units
<1>1. d.version \in STRING
      BY DEF Known, Datagram, DatagramType
<1>2. CASE x = "client"
  <2>1. ForClient(d, other)
        BY <1>2 DEF Known, Datagram
  <2>2. /\ other.cryptos_initial # None
        /\ units \subseteq Sendable("server", other, e)
        /\ (\E u \in units : IsCrypto(u)) => d.version = other.version
        BY <2>1 DEF ForClient
  <2>3. /\ e = "handshake" => a.handled["initial"] = 1
        /\ e = "one_rtt" => a.handshake_complete
    <3>1. CASE e = "initial"
          BY <3>1
    <3>2. CASE e # "initial"
          BY <1>2, <3>2, KeysTell
    <3>3. QED BY <3>1, <3>2
  <2> HIDE DEF units
  <2>4. Allowable(x, a, other, e, d.version, units)
        BY <1>2, <2>2, <2>3 DEF Allowable, Prepared
  <2>5. units \in SUBSET Sendable(Other(x), other, e)
        BY <1>2, <2>2, Others
  <2>6. x # "server"
        BY <1>2
  <2>7. QED BY <1>1, <2>2, <2>4, <2>5, <2>6 DEF units
<1>3. CASE x = "server"
  <2>1. ForServer(d, other, a) /\ Introduced(other, a)
        BY <1>3, Ends DEF Known, Datagram, Matched, Pair
  <2>2. a.cryptos_initial = other.cryptos_initial
        BY <2>1 DEF Introduced
  <2>3. e = "initial" => Counts(d, other)
        BY <1>3, <2>2 DEF Counts
  <2>4. units \subseteq Sendable("client", other, e)
        BY <2>1, <2>3 DEF ForServer
  <2>5. a.handled["initial"] # 1 => d.version = other.version
    <3>1. CASE e = "initial"
          BY <2>1, <2>3, <3>1 DEF ForServer
    <3>2. CASE e # "initial"
          BY <1>3, <3>2, KeysTell
    <3>3. QED BY <3>1, <3>2
  <2> HIDE DEF units
  <2>6. Allowable(x, a, other, e, d.version, units)
        BY <1>3, <2>5 DEF Allowable, Prepared
  <2>7. units \in SUBSET Sendable(Other(x), other, e)
        BY <1>3, <2>4, Others
  <2>8. /\ other.cryptos_initial # None
        /\ ~IsEmpty(d.packets["handshake"]) => other.handled["initial"] = 1
        BY <2>1 DEF ForServer
  <2>9. QED BY <1>1, <2>6, <2>7, <2>8 DEF units
<1>4. QED BY <1>2, <1>3, Ends

\* A packet of a datagram.
LEMMA PacketMatched ==
    ASSUME scenario \in Scenarios, NEW x \in End, NEW a, NEW other, Matched(x, a, other),
           a.cryptos_initial # None, NEW d, Known(x, d, a, other), d.to = x,
           d.kind = "packets", x = "server" => Supported(d.version), NEW e \in Epoch
    PROVE  LET b == ReceivePacket(x, a, d, e)
           IN Matched(x, b, other) /\ Advances(x, a, b) /\ Known(x, d, b, other)
<1> DEFINE b == ReceivePacket(x, a, d, e)
           packet == d.packets[e]
           wrongKey == e = "initial" /\ d.initial_cid # a.cryptos_initial
<1>1. \/ b = a
      \/ b = rescheduleOnce(a)
      \/ /\ ~IsEmpty(packet) /\ HasKey(a, "decrypt", e) /\ ~wrongKey
         /\ b = _payload_received(x, a, e, packet, d.version)
      BY DEF ReceivePacket
<1> HIDE DEF b
<1>2. Matched(x, b, other) /\ Advances(x, a, b)
  <2>1. CASE b = a
    <3>1. Advances(x, a, a)
          BY DEF Advances
    <3>2. QED BY <2>1, <3>1
  <2>2. CASE b = rescheduleOnce(a)
    <3>1. a \in Connections /\ Own(x, a)
          BY Ends DEF Matched, Pair
    <3>2. Quiet(x, a, b)
          BY <2>2, <3>1, RescheduleQuiet
    <3>3. QED BY <3>2, MatchedQuiet
  <2>3. CASE /\ ~IsEmpty(packet) /\ HasKey(a, "decrypt", e) /\ ~wrongKey
             /\ b = _payload_received(x, a, e, packet, d.version)
    <3>1. /\ other.cryptos_initial # None /\ d.version \in STRING
          /\ packet.units \in SUBSET Sendable(Other(x), other, e)
          /\ Allowable(x, a, other, e, d.version, packet.units)
          /\ x = "server" /\ e = "handshake" => other.handled["initial"] = 1
          BY <2>3, PacketIsKnown
    <3> HIDE DEF packet
    <3>2. QED BY <2>3, <3>1, PayloadMatched
  <2>4. QED BY <1>1, <2>1, <2>2, <2>3
<1>3. Known(x, d, b, other)
      BY <1>2, DatagramStays
<1>4. QED BY <1>2, <1>3 DEF b

\* What the server may send grows with what comes.
Counted(st) ==
    IF st.is_validated THEN st
    ELSE [st EXCEPT !.credit = Min({@ + Amplification, MaxCredit})]

\* An end that counts the bytes it may send before the path is validated stays
\* matched.
LEMMA CountedMatched ==
    ASSUME NEW x \in End, NEW a, NEW other, Matched(x, a, other)
    PROVE  LET b == Counted(a) IN Matched(x, b, other) /\ Advances(x, a, b)
<1> DEFINE m == Min({a.credit + Amplification, MaxCredit})
           b == Counted(a)
<1>1. a \in Connections /\ Own(x, a)
      BY Ends DEF Matched, Pair
<1>2. m \in Nat
  <2> DEFINE p == a.credit + Amplification
  <2>1. p \in Nat /\ MaxCredit \in Nat
        BY <1>1, RoomAssumption DEF Connections
  <2>2. \E n \in {p, MaxCredit} : \A i \in {p, MaxCredit} : n =< i
        BY <2>1
  <2> HIDE DEF p
  <2>3. Min({p, MaxCredit}) \in {p, MaxCredit}
        BY <2>2 DEF Min
  <2>4. QED BY <2>1, <2>3 DEF p
<1>3. Quiet(x, a, b)
  <2>1. CASE a.is_validated
        BY <1>1, <2>1 DEF Counted, Quiet, SameCourse
  <2>2. CASE ~a.is_validated
    <3>1. b = [a EXCEPT !.credit = m]
          BY <2>2 DEF Counted
    <3> HIDE DEF b, m
    <3>2. b \in Connections
          BY ONLY <1>1, <1>2, <3>1 DEF Connections
    <3>3. /\ SameCourse(a, b) /\ b.discarded = a.discarded /\ b.received = a.received
          /\ b.peer_cid = a.peer_cid /\ b.pending = a.pending /\ b.flight = a.flight
          /\ b.overtaken = a.overtaken
          BY ONLY <1>1, <1>2, <3>1 DEF Connections, SameCourse
    <3>4. Own(x, b)
          BY ONLY <1>1, <3>2, <3>3, OwnKept
    <3>5. QED BY <3>2, <3>3, <3>4 DEF Quiet
  <2>3. QED BY <2>1, <2>2
<1> HIDE DEF b
<1>4. Matched(x, b, other) /\ Advances(x, a, b)
      BY <1>3, MatchedQuiet
<1>5. QED BY <1>4 DEF b

\* A datagram with packets for x.
LEMMA PacketsMatched ==
    ASSUME scenario \in Scenarios, NEW x \in End, NEW a, NEW other, Matched(x, a, other),
           a.cryptos_initial # None, NEW d, Known(x, d, a, other), d.to = x,
           d.kind = "packets", x = "server" => Supported(d.version)
    PROVE  LET b == receive_datagram(x, a, d)
           IN Matched(x, b, other) /\ Advances(x, a, b)
<1> DEFINE counted == Counted(a)
           initial == ReceivePacket(x, counted, d, "initial")
           handshake == ReceivePacket(x, initial, d, "handshake")
           one_rtt == ReceivePacket(x, handshake, d, "one_rtt")
           b == receive_datagram(x, a, d)
           Stays(v) == Matched(x, v, other) /\ Advances(x, a, v) /\ Known(x, d, v, other)
<1>1. b = counted \/ b = one_rtt
      BY DEF receive_datagram, Counted
<1>2. Stays(counted)
  <2>1. Matched(x, counted, other) /\ Advances(x, a, counted)
        BY CountedMatched
  <2> HIDE DEF counted
  <2>2. Known(x, d, counted, other)
        BY <2>1, DatagramStays
  <2>3. QED BY <2>1, <2>2
<1> HIDE DEF b, counted
<1>3. ASSUME NEW v, Stays(v), NEW e \in Epoch PROVE Stays(ReceivePacket(x, v, d, e))
  <2> DEFINE w == ReceivePacket(x, v, d, e)
  <2>1. v.cryptos_initial # None
        BY <1>3 DEF Advances
  <2>2. Matched(x, w, other) /\ Advances(x, v, w) /\ Known(x, d, w, other)
        BY <1>3, <2>1, PacketMatched
  <2> HIDE DEF w
  <2>3. Advances(x, a, w)
        BY <1>3, <2>2, AdvancesFurther
  <2>4. Stays(w)
        BY <2>2, <2>3
  <2>5. QED BY <2>4 DEF w
<1> HIDE DEF Stays
<1>4. Stays(initial)
      BY <1>2, <1>3, EpochsAre
<1> HIDE DEF initial
<1>5. Stays(handshake)
      BY <1>3, <1>4, EpochsAre
<1> HIDE DEF handshake
<1>6. Stays(one_rtt)
      BY <1>3, <1>5, EpochsAre
<1> HIDE DEF one_rtt
<1>7. Stays(b)
      BY <1>1, <1>2, <1>6
<1>8. QED BY <1>7 DEF b, Stays

-----------------------------------------------------------------------------
(* Connections that start.                                                 *)

\* A context of TLS at its start.
LEMMA NewContextIs ==
    ASSUME scenario \in Scenarios, NEW x \in End,
           NEW t, t = NewContext(x = "client", scenario.options[x])
    PROVE  /\ t \in Contexts /\ t.options = scenario.options[x] /\ t.keys = {} /\ ~t.alert
           /\ ~t.certificate_request /\ t.out = [e \in Epoch |-> <<>>]
           /\ t.state = IF x = "client" THEN "CLIENT_HANDSHAKE_START"
                        ELSE "SERVER_EXPECT_CLIENT_HELLO"
<1> DEFINE options == scenario.options[x]
           is_client == x = "client"
           state == IF is_client THEN "CLIENT_HANDSHAKE_START" ELSE "SERVER_EXPECT_CLIENT_HELLO"
           out == [e \in Epoch |-> <<>>]
<1>1. options \in Options /\ is_client \in BOOLEAN /\ state \in State
      BY ScenarioIs DEF State
<1>2. out \in Outputs
      BY DEF Outputs
<1>3. NoExtensions \in Extensions /\ {} \in SUBSET Keys
      BY DEF Extensions
<1>4. t = [is_client |-> is_client, options |-> options,
           handshake_extensions |-> NoExtensions, state |-> state, keys |-> {},
           session_resumed |-> FALSE, early_data_accepted |-> FALSE,
           certificate_request |-> FALSE, out |-> out, alert |-> FALSE]
      BY DEF NewContext
<1>5. state = IF x = "client" THEN "CLIENT_HANDSHAKE_START" ELSE "SERVER_EXPECT_CLIENT_HELLO"
      OBVIOUS
<1> HIDE DEF options, is_client, state, out
<1>6. t \in Contexts
      BY ONLY <1>1, <1>2, <1>3, <1>4 DEF Contexts
<1>7. QED BY <1>4, <1>5, <1>6 DEF options, out

\* A connection at its start.
Fresh(x, n) ==
    /\ n \in Connections
    /\ n.tls = NewContext(x = "client", scenario.options[x])
    /\ n.pending = [e \in Epoch |-> {}] /\ n.flight = [e \in Epoch |-> <<>>]
    /\ n.overtaken = [e \in Epoch |-> {}] /\ n.received = [e \in Epoch |-> {}]
    /\ n.handled = [e \in Epoch |-> 0] /\ n.discarded = {}
    /\ ~n.handshake_complete /\ ~n.version_negotiated_compatible /\ ~n.failed
    /\ n.cryptos_initial = None /\ n.version = scenario.original_version
    /\ n.peer_cid = "original" /\ n.original_cid = "original"
    /\ n.retry_source_cid = None /\ n.retry_count = 0

\* NewConnection() gives such a connection.
LEMMA NewConnectionIs ==
    ASSUME scenario \in Scenarios, NEW x \in End, NEW n, n = NewConnection(x)
    PROVE  Fresh(x, n)
<1> DEFINE tls == NewContext(x = "client", scenario.options[x])
           empty == [e \in Epoch |-> {}]
           none == [e \in Epoch |-> <<>>]
           zero == [e \in Epoch |-> 0]
           version == scenario.original_version
           server == x = "server"
           client == x = "client"
<1>1. tls \in Contexts
      BY NewContextIs
<1>2. empty \in UnitSets /\ none \in Flights /\ zero \in Counters
      BY DEF UnitSets, Flights, Counters
<1>3. version \in STRING /\ server \in BOOLEAN /\ client \in BOOLEAN
      BY ScenarioIs
<1>4. "original" \in Cid /\ None \in Cid
      BY DEF Cid
<1>5. n = [tls |-> tls, pending |-> empty, flight |-> none, overtaken |-> empty,
           received |-> empty, handled |-> zero, ack_at |-> {}, discarded |-> {},
           state |-> "FIRSTFLIGHT", probe_pending |-> FALSE, crypto_retransmitted |-> FALSE,
           handshake_complete |-> FALSE, handshake_confirmed |-> FALSE,
           peer_completed_address_validation |-> server, is_validated |-> client,
           credit |-> 0, cryptos_initial |-> None, version |-> version,
           peer_cid |-> "original", original_cid |-> "original", retry_source_cid |-> None,
           retry_count |-> 0, version_negotiated_compatible |-> FALSE,
           version_negotiated_incompatible |-> FALSE, failed |-> FALSE]
      BY DEF NewConnection
<1> HIDE DEF tls, empty, none, zero, version, server, client
<1>6. n \in Connections
      BY <1>1, <1>2, <1>3, <1>4, <1>5 DEF Connections
<1>7. QED BY <1>5, <1>6 DEF Fresh, tls, empty, none, zero, version

\* A connection with nothing under way may have anything under way.
LEMMA NothingUnderWay ==
    ASSUME NEW x, NEW st, st.pending = [e \in Epoch |-> {}],
           st.flight = [e \in Epoch |-> <<>>], st.overtaken = [e \in Epoch |-> {}]
    PROVE  Own(x, st)
<1>1. ASSUME NEW e \in Epoch
      PROVE  /\ st.pending[e] \subseteq Sendable(x, st, e)
             /\ Units(st.flight[e]) \subseteq Sendable(x, st, e)
             /\ st.overtaken[e] \subseteq Sendable(x, st, e)
  <2>1. st.pending[e] = {} /\ st.flight[e] = <<>> /\ st.overtaken[e] = {}
        OBVIOUS
  <2>2. Units(<<>>) = {}
        BY DEF Units
  <2>3. QED BY <2>1, <2>2
<1>2. QED BY <1>1, Zenon DEF Own

\* A connection is initialized.
Initialized(st, b, x, cid) ==
    /\ b \in Connections
    /\ b.tls = [NewContext(x = "client", scenario.options[x])
                    EXCEPT !.handshake_extensions = TransportParameters(x, st)]
    /\ b.cryptos_initial = cid
    /\ b.pending = [e \in Epoch |-> {}] /\ b.flight = [e \in Epoch |-> <<>>]
    /\ b.overtaken = [e \in Epoch |-> {}] /\ b.received = [e \in Epoch |-> {}]
    /\ b.handled = [e \in Epoch |-> 0] /\ b.discarded = {}
    /\ b.handshake_complete = st.handshake_complete /\ b.failed = st.failed
    /\ b.version = st.version /\ b.peer_cid = st.peer_cid
    /\ b.original_cid = st.original_cid /\ b.retry_source_cid = st.retry_source_cid
    /\ b.retry_count = st.retry_count
    /\ b.version_negotiated_compatible = st.version_negotiated_compatible

\* _initialize() gives an end the keys for an ID and a TLS context that has done
\* nothing.
LEMMA InitializedIs ==
    ASSUME scenario \in Scenarios, NEW x \in End, NEW st \in Connections, NEW cid \in Cid,
           NEW b, b = _initialize(x, st, cid)
    PROVE  /\ Initialized(st, b, x, cid)
           /\ b.tls \in Contexts
<1> DEFINE n == NewConnection(x)
           t == NewContext(x = "client", scenario.options[x])
           tls == [t EXCEPT !.handshake_extensions = TransportParameters(x, st)]
           empty == [e \in Epoch |-> {}]
           none == [e \in Epoch |-> <<>>]
           zero == [e \in Epoch |-> 0]
<1>1. /\ n.tls = t /\ n.pending = empty /\ n.flight = none /\ n.overtaken = empty
      /\ n.received = empty /\ n.handled = zero
  <2>1. n = NewConnection(x)
        OBVIOUS
  <2> HIDE DEF n
  <2>2. QED BY <2>1, NewConnectionIs DEF Fresh
<1>2. t \in Contexts
      BY NewContextIs
<1>3. TransportParameters(x, st) \in Extensions
      BY ParametersType DEF Extensions
<1>4. tls \in Contexts
  <2> HIDE DEF t
  <2> QED BY <1>2, <1>3 DEF Contexts
<1>5. b = [st EXCEPT !.tls = tls, !.cryptos_initial = cid, !.pending = empty,
                     !.flight = none, !.overtaken = empty, !.received = empty,
                     !.handled = zero, !.ack_at = {}, !.discarded = {}]
  <2>1. b = [st EXCEPT !.tls = [n.tls EXCEPT !.handshake_extensions =
                                                 TransportParameters(x, st)],
                       !.cryptos_initial = cid, !.pending = n.pending,
                       !.flight = n.flight, !.overtaken = n.overtaken,
                       !.received = n.received, !.handled = n.handled, !.ack_at = {},
                       !.discarded = {}]
        BY DEF _initialize
  <2> HIDE DEF n, t, empty, none, zero
  <2>2. QED BY <1>1, <2>1
<1>6. empty \in UnitSets /\ none \in Flights /\ zero \in Counters
      BY DEF UnitSets, Flights, Counters
<1> HIDE DEF tls, empty, none, zero
<1>7. b \in Connections
  <2> DEFINE mid == [st EXCEPT !.tls = tls, !.cryptos_initial = cid, !.pending = empty,
                               !.flight = none]
             nobody == {}
  <2>1. mid \in Connections
        BY ONLY st \in Connections, cid \in Cid, <1>4, <1>6 DEF Connections
  <2>2. b = [mid EXCEPT !.overtaken = empty, !.received = empty, !.handled = zero,
                        !.ack_at = nobody, !.discarded = nobody]
        BY ONLY st \in Connections, <1>5 DEF Connections
  <2>3. nobody \in SUBSET Epoch
        OBVIOUS
  <2> HIDE DEF mid, nobody
  <2>4. QED BY ONLY <1>6, <2>1, <2>2, <2>3 DEF Connections
<1>8. /\ b.tls = tls /\ b.cryptos_initial = cid
      /\ b.pending = empty /\ b.flight = none /\ b.overtaken = empty /\ b.received = empty
      /\ b.handled = zero /\ b.discarded = {}
      /\ b.handshake_complete = st.handshake_complete /\ b.failed = st.failed
      /\ b.version = st.version /\ b.peer_cid = st.peer_cid
      /\ b.original_cid = st.original_cid /\ b.retry_source_cid = st.retry_source_cid
      /\ b.retry_count = st.retry_count
      /\ b.version_negotiated_compatible = st.version_negotiated_compatible
      BY ONLY st \in Connections, <1>5 DEF Connections
<1>9. QED BY <1>4, <1>7, <1>8 DEF Initialized, tls, t, empty, none, zero

\* The hello is written first of all.
LEMMA SendHelloIs ==
    ASSUME scenario \in Scenarios, NEW st \in Connections, NEW t \in Contexts,
           t.options = scenario.options["client"], t.keys = {}, ~t.alert,
           ~t.certificate_request, t.out = [e \in Epoch |-> <<>>],
           t.handshake_extensions = TransportParameters("client", st)
    PROVE  LET u == _client_send_hello(t)
           IN /\ u \in Contexts /\ ~u.alert /\ u.options = t.options
              /\ ~u.certificate_request /\ u.keys \subseteq {<<"encrypt", "zero_rtt">>}
              /\ u.state = "CLIENT_EXPECT_SERVER_HELLO"
              /\ u.out = [t.out EXCEPT !["initial"] = <<Hello(st.version)>>]
<1> DEFINE ticket == t.options.ticket
           hello == [Message("client_hello") EXCEPT !.psk = ticket, !.early = ticket,
                                                    !.extensions = t.handshake_extensions]
           keys == IF ticket THEN {<<"encrypt", "zero_rtt">>} ELSE {}
           k == t.keys \cup keys
           out == [t.out EXCEPT !["initial"] = <<Hello(st.version)>>]
           u == _client_send_hello(t)
<1>1. hello = Hello(st.version)
  <2>1. TransportParameters("client", st) =
            [chosen |-> st.version, available |-> scenario.versions["client"],
             original |-> None, retry |-> None]
        BY DEF TransportParameters
  <2>2. QED BY <2>1 DEF Hello
<1>2. hello \in Messages
  <2>1. st.version \in STRING
        BY DEF Connections
  <2>2. Hello(st.version) \in Messages
        BY <2>1, HelloIs
  <2> HIDE DEF hello
  <2>3. QED BY <1>1, <2>2
<1>3. k \in SUBSET Keys /\ k \subseteq {<<"encrypt", "zero_rtt">>}
      BY DEF Keys, Epoch
<1>4. u = [t EXCEPT !.keys = k, !.out["initial"] = @ \o <<hello>>,
                    !.state = "CLIENT_EXPECT_SERVER_HELLO"]
      BY DEF _client_send_hello, Moved, Push, Setup, Contexts
<1>5. t.out["initial"] = <<>> /\ "initial" \in Epoch
      BY EpochsAre
<1> HIDE DEF hello, k, u
<1>6. <<>> \o <<hello>> = <<Hello(st.version)>>
      BY <1>1, <1>2
<1>7. out \in Outputs
  <2>1. <<Hello(st.version)>> \in Seq(Messages)
        BY <1>1, <1>2
  <2>2. QED BY <2>1 DEF Contexts, Outputs
<1>8. u = [t EXCEPT !.keys = k, !.out = out, !.state = "CLIENT_EXPECT_SERVER_HELLO"]
      BY <1>4, <1>5, <1>6 DEF Contexts
<1> HIDE DEF out
<1>9. "CLIENT_EXPECT_SERVER_HELLO" \in State
      BY DEF State
<1>10. u \in Contexts
       BY ONLY t \in Contexts, <1>3, <1>7, <1>8, <1>9 DEF Contexts
<1>11. /\ u.alert = t.alert /\ u.options = t.options
       /\ u.certificate_request = t.certificate_request /\ u.keys = k
       /\ u.state = "CLIENT_EXPECT_SERVER_HELLO" /\ u.out = out
       BY ONLY t \in Contexts, <1>8 DEF Contexts
<1>12. QED BY <1>3, <1>10, <1>11 DEF u, out

\* The client connects: it has written its hello and nothing else.
Connected(st, b) ==
    /\ b \in Connections
    /\ ~b.tls.alert /\ b.tls.options = scenario.options["client"]
    /\ ~b.tls.certificate_request /\ b.tls.keys \subseteq {<<"encrypt", "zero_rtt">>}
    /\ b.tls.state = "CLIENT_EXPECT_SERVER_HELLO"
    /\ b.tls.out = [e \in Epoch |-> IF e = "initial" THEN <<Hello(st.version)>> ELSE <<>>]
    /\ Own("client", b)
    /\ b.cryptos_initial = st.peer_cid
    /\ b.received = [e \in Epoch |-> {}]
    /\ b.handled = [e \in Epoch |-> 0] /\ b.discarded = {}
    /\ b.handshake_complete = st.handshake_complete /\ b.failed = st.failed
    /\ b.version = st.version /\ b.peer_cid = st.peer_cid
    /\ b.original_cid = st.original_cid /\ b.retry_source_cid = st.retry_source_cid
    /\ b.retry_count = st.retry_count
    /\ b.version_negotiated_compatible = st.version_negotiated_compatible

\* _connect() writes the ClientHello and nothing else.
LEMMA ConnectedIs ==
    ASSUME scenario \in Scenarios, NEW st \in Connections, NEW b, b = _connect(st)
    PROVE  Connected(st, b)
<1> DEFINE p == _initialize("client", st, st.peer_cid)
           t == NewContext("client" = "client", scenario.options["client"])
           tls == [t EXCEPT !.handshake_extensions = TransportParameters("client", st)]
           u == _client_send_hello(p.tls)
           q == [p EXCEPT !.tls = u]
           new(e) == {Crypto(n, u.out[e][n]) : n \in (Len(p.tls.out[e]) + 1)..Len(u.out[e])}
           pending == [e \in Epoch |-> p.pending[e] \cup new(e)]
<1>1. "client" \in End /\ st.peer_cid \in Cid
      BY DEF Connections, End
<1>2. Initialized(st, p, "client", st.peer_cid) /\ p.tls \in Contexts
  <2>1. p = _initialize("client", st, st.peer_cid)
        OBVIOUS
  <2> HIDE DEF p
  <2>2. QED BY <1>1, <2>1, InitializedIs
<1>3. b = _push_crypto_data(q, p.tls)
      BY DEF _connect
<1>4. /\ t \in Contexts /\ t.options = scenario.options["client"] /\ t.keys = {} /\ ~t.alert
      /\ ~t.certificate_request /\ t.out = [e \in Epoch |-> <<>>]
      BY <1>1, NewContextIs
<1>5. p.tls = tls
      BY <1>2 DEF Initialized
<1> HIDE DEF t
<1>6. /\ tls.options = scenario.options["client"] /\ tls.keys = {} /\ ~tls.alert
      /\ ~tls.certificate_request /\ tls.out = [e \in Epoch |-> <<>>]
      /\ tls.handshake_extensions = TransportParameters("client", st)
      BY <1>4 DEF Contexts
<1> HIDE DEF p, tls
<1>7. /\ u \in Contexts /\ ~u.alert /\ u.options = scenario.options["client"]
      /\ ~u.certificate_request /\ u.keys \subseteq {<<"encrypt", "zero_rtt">>}
      /\ u.state = "CLIENT_EXPECT_SERVER_HELLO"
      /\ u.out = [e \in Epoch |-> IF e = "initial" THEN <<Hello(st.version)>> ELSE <<>>]
  <2>1. /\ u \in Contexts /\ ~u.alert /\ u.options = p.tls.options
        /\ ~u.certificate_request /\ u.keys \subseteq {<<"encrypt", "zero_rtt">>}
        /\ u.state = "CLIENT_EXPECT_SERVER_HELLO"
        /\ u.out = [p.tls.out EXCEPT !["initial"] = <<Hello(st.version)>>]
        BY <1>2, <1>5, <1>6, SendHelloIs
  <2> HIDE DEF u
  <2>2. QED BY <1>5, <1>6, <2>1
<1> HIDE DEF u
<1>8. q \in Connections /\ q.tls = u /\ q.pending = p.pending
      BY <1>2, <1>7 DEF Connections, Initialized
<1>9. b = [q EXCEPT !.pending = pending]
      BY <1>3, <1>8 DEF _push_crypto_data, Connections
<1>10. \A e \in Epoch : pending[e] \subseteq Cryptos(q, e)
  <2> SUFFICES ASSUME NEW e \in Epoch PROVE pending[e] \subseteq Cryptos(q, e)
      BY Zenon
  <2>1. p.pending[e] = {} /\ Len(p.tls.out[e]) = 0
    <3>1. p.pending = [i \in Epoch |-> {}] /\ p.tls.out = [i \in Epoch |-> <<>>]
          BY <1>2, <1>5, <1>6 DEF Initialized
    <3>2. p.tls.out[e] = <<>>
          BY <3>1
    <3>3. QED BY <3>1, <3>2
  <2>2. pending[e] = new(e)
        BY <2>1
  <2>3. new(e) \subseteq Cryptos(q, e)
        BY <1>8, <2>1 DEF Cryptos
  <2>4. QED BY <2>2, <2>3
<1>11. pending \in UnitSets
  <2>1. \A e \in Epoch : Cryptos(q, e) \subseteq UnitType
        BY <1>8, SendableType DEF Sendable
  <2> HIDE DEF new
  <2>2. QED BY <1>10, <2>1 DEF UnitSets
<1> HIDE DEF pending, q
<1>12. b \in Connections
       BY ONLY <1>8, <1>9, <1>11 DEF Connections
<1>13. b.tls = u /\ b.pending = pending /\ b.flight = q.flight /\ b.overtaken = q.overtaken
       BY ONLY <1>8, <1>9 DEF Connections
<1>14. q.flight = [e \in Epoch |-> <<>>] /\ q.overtaken = [e \in Epoch |-> {}]
       BY <1>2 DEF q, Connections, Initialized
<1>15. Own("client", b)
  <2>1. ASSUME NEW e \in Epoch
        PROVE  /\ b.pending[e] \subseteq Sendable("client", b, e)
               /\ Units(b.flight[e]) \subseteq Sendable("client", b, e)
               /\ b.overtaken[e] \subseteq Sendable("client", b, e)
    <3>1. Cryptos(b, e) = Cryptos(q, e)
          BY <1>8, <1>13 DEF Cryptos
    <3>2. b.pending[e] \subseteq Sendable("client", b, e)
          BY <1>10, <1>13, <3>1 DEF Sendable
    <3>3. b.flight[e] = <<>> /\ b.overtaken[e] = {}
          BY <1>13, <1>14
    <3>4. Units(<<>>) = {}
          BY DEF Units
    <3>5. QED BY <3>2, <3>3, <3>4
  <2>2. QED BY <2>1, Zenon DEF Own
<1>16. /\ b.cryptos_initial = p.cryptos_initial /\ b.received = p.received
       /\ b.handled = p.handled /\ b.discarded = p.discarded
       /\ b.handshake_complete = p.handshake_complete /\ b.failed = p.failed
       /\ b.version = p.version /\ b.peer_cid = p.peer_cid
       /\ b.original_cid = p.original_cid /\ b.retry_source_cid = p.retry_source_cid
       /\ b.retry_count = p.retry_count
       /\ b.version_negotiated_compatible = p.version_negotiated_compatible
  <2>1. p \in Connections
        BY <1>2 DEF Initialized
  <2>2. b = [[p EXCEPT !.tls = u] EXCEPT !.pending = pending]
        BY <1>9 DEF q
  <2>3. QED BY ONLY <2>1, <2>2 DEF Connections
<1>17. QED
  <2>1. /\ b \in Connections /\ Own("client", b)
        /\ ~b.tls.alert /\ b.tls.options = scenario.options["client"]
        /\ ~b.tls.certificate_request /\ b.tls.keys \subseteq {<<"encrypt", "zero_rtt">>}
        /\ b.tls.state = "CLIENT_EXPECT_SERVER_HELLO"
        /\ b.tls.out = [e \in Epoch |-> IF e = "initial" THEN <<Hello(st.version)>> ELSE <<>>]
        BY <1>7, <1>12, <1>13, <1>15
  <2>2. QED BY <1>2, <1>16, <2>1 DEF Connected, Initialized

\* Until there is a server the client has no answer.
LEMMA BothWait ==
    ASSUME NEW c, NEW s, Pair(c, s), s.cryptos_initial = None
    PROVE  ClientWaits(c) /\ ServerWaits(s)
<1>1. ServerWaits(s)
      BY DEF Pair, Progress, ServerReads
<1>2. s.handled["initial"] = 0
      BY <1>1, EpochsAre DEF ServerWaits
<1>3. ~ClientReads(c, s)
      BY <1>2 DEF ClientReads
<1>4. ClientWaits(c)
      BY <1>3 DEF Pair, Progress
<1>5. QED BY <1>1, <1>4

\* How the client may start, for the first time or again: what it sent before is of no use
\* to the server any more.
Starting(c, st) ==
    /\ st \in Connections
    /\ st.retry_count \in {0, 1} /\ (st.retry_count = 1 => scenario.retry)
    /\ st.peer_cid = InitialCid(st)
    /\ st.retry_source_cid = IF st.retry_count = 1 THEN "retry" ELSE None
    /\ st.original_cid = "original"
    /\ ~st.handshake_complete /\ ~st.version_negotiated_compatible /\ ~st.failed
    /\ c.retry_count = 1 => st.retry_count = 1
    /\ Supported(c.version) => Supported(st.version)
    /\ \/ c.cryptos_initial = None
       \/ c.retry_count = 0 /\ st.retry_count = 1
       \/ ~Supported(c.version) /\ st.retry_count = c.retry_count

\* A client that starts, for the first time or once more, is matched with a server
\* that does not exist yet.
LEMMA StartingMatched ==
    ASSUME scenario \in Scenarios, NEW c, NEW s, Pair(c, s), s.cryptos_initial = None,
           Untouched(s), NEW st, Starting(c, st), NEW b, b = _connect(st)
    PROVE  /\ Pair(b, s) /\ b.cryptos_initial # None
           /\ \A d : Datagram(d, c, s) => Datagram(d, b, s)
<1>1. st \in Connections
      BY DEF Starting
<1>2. Connected(st, b)
      BY <1>1, ConnectedIs
<1>3. ClientWaits(c) /\ ServerWaits(s)
      BY BothWait
<1>4. s \in Connections /\ Own("server", s)
      BY DEF Pair
<1>5. InitialCid(st) \in {"original", "retry"} /\ InitialCid(b) = InitialCid(st)
      BY <1>2 DEF InitialCid, Connected
<1>6. b.cryptos_initial = InitialCid(b) /\ b.peer_cid = InitialCid(b)
      BY <1>2, <1>5 DEF Connected, Starting
<1>7. b.cryptos_initial # None
      BY <1>5, <1>6 DEF None
<1>8. /\ b.tls.out["initial"] = <<Hello(b.version)>>
      /\ b.tls.out["handshake"] = <<>> /\ b.tls.out["one_rtt"] = <<>>
      BY <1>2, EpochsAre DEF Connected
<1>9. ClientWaits(b)
  <2>1. /\ b.tls.keys \subseteq {<<"encrypt", "zero_rtt">>}
        /\ b.handled = [e \in Epoch |-> 0]
        BY <1>2 DEF Connected
  <2>2. ~b.handshake_complete
        BY <1>2 DEF Connected, Starting
  <2>3. ~b.version_negotiated_compatible
        BY <1>2 DEF Connected, Starting
  <2>4. ~b.tls.certificate_request /\ b.tls.state = "CLIENT_EXPECT_SERVER_HELLO"
        BY <1>2 DEF Connected
  <2>5. QED BY ONLY <1>7, <1>8, <2>1, <2>2, <2>3, <2>4 DEF ClientWaits
<1>10. Progress(b, s)
       BY <1>2, <1>3, <1>9 DEF Progress, Connected, Starting, Pair
<1>11. Heard(b, "server", s)
  <2>1. ASSUME NEW e \in Epoch PROVE b.received[e] \subseteq Sendable("server", s, e)
    <3>1. b.received[e] = {}
          BY <1>2 DEF Connected
    <3>2. QED BY <3>1
  <2>2. QED BY <2>1, Zenon DEF Heard
<1>12. Heard(s, "client", b)
  <2>1. ASSUME NEW e \in Epoch PROVE s.received[e] \subseteq Sendable("client", b, e)
    <3>1. s.received[e] = {}
          BY DEF Untouched
    <3>2. QED BY <3>1
  <2>2. QED BY <2>1, Zenon DEF Heard
<1>13. Introduced(b, s)
  <2>1. b.retry_count = st.retry_count /\ b.retry_source_cid = st.retry_source_cid
        BY <1>2 DEF Connected
  <2>2. b.original_cid = "original" /\ s.original_cid = "original"
        BY <1>2 DEF Connected, Starting, Pair, Introduced
  <2>3. b.received = [e \in Epoch |-> {}]
        BY <1>2 DEF Connected
  <2>4. /\ b.retry_count \in {0, 1} /\ (b.retry_count = 1 => scenario.retry)
        /\ b.retry_source_cid = IF b.retry_count = 1 THEN "retry" ELSE None
        BY <2>1 DEF Starting
  <2>5. s.cryptos_initial = None
        OBVIOUS
  <2>6. QED BY ONLY <1>6, <1>7, <2>2, <2>3, <2>4, <2>5 DEF Introduced
<1>14. Discards(b, s)
  <2>1. b.discarded = {} /\ Discards(c, s)
        BY <1>2 DEF Connected, Pair
  <2>2. "initial" \notin s.discarded
    <3>1. c.handled["initial"] = 0
          BY <1>3, EpochsAre DEF ClientWaits
    <3>2. QED BY <2>1, <3>1 DEF Discards
  <2>3. QED BY <2>1, <2>2 DEF Discards
<1>15. Pair(b, s)
       BY <1>2, <1>4, <1>10, <1>11, <1>12, <1>13, <1>14 DEF Pair, Connected
<1>16. ASSUME NEW d, Datagram(d, c, s) PROVE Datagram(d, b, s)
  <2>1. CASE d.to = "server"
    <3>1. ForServer(d, c, s) /\ d \in DatagramType
          BY <1>16, <2>1 DEF Datagram
    <3>2. c.cryptos_initial = InitialCid(c) /\ c.retry_count \in {0, 1}
          BY <3>1 DEF ForServer, Introduced, Pair
    <3>3. ~Counts(d, b)
      <4>1. CASE c.cryptos_initial = None
            BY <3>1, <4>1 DEF ForServer
      <4>2. CASE c.retry_count = 0 /\ st.retry_count = 1
        <5>1. b.cryptos_initial = "retry"
              BY <1>2, <1>6, <4>2 DEF Connected, InitialCid
        <5>2. d.initial_cid # "retry"
              BY <3>1, <4>2 DEF ForServer
        <5>3. QED BY <5>1, <5>2 DEF Counts
      <4>3. CASE ~Supported(c.version)
        <5>1. ~Supported(d.version)
              BY <3>1, <4>3 DEF ForServer
        <5>2. QED BY <5>1 DEF Counts
      <4>4. QED BY <4>1, <4>2, <4>3 DEF Starting
    <3>4. ASSUME NEW e \in Epoch, e # "initial"
          PROVE  d.packets[e].units \subseteq Sendable("client", b, e)
      <4>1. d.packets[e].units \subseteq Sendable("client", c, e)
            BY <3>1, <3>4 DEF ForServer
      <4>2. c.tls.out[e] = <<>>
            BY <1>3, <3>4, EpochsAre DEF ClientWaits
      <4>3. Cryptos(c, e) = {}
            BY <4>2 DEF Cryptos
      <4>4. Sendable("client", c, e) = {Ping}
            BY <4>3 DEF Sendable
      <4>5. Ping \in Sendable("client", b, e)
            BY DEF Sendable
      <4>6. QED BY <4>1, <4>4, <4>5
    <3>5. IsEmpty(d.packets["handshake"])
      <4>1. c.handled["initial"] = 0
            BY <1>3, EpochsAre DEF ClientWaits
      <4>2. QED BY <3>1, <4>1 DEF ForServer
    <3>6. /\ d.initial_cid = "retry" => b.retry_count = 1
          /\ Supported(d.version) => Supported(b.version)
          BY <1>2, <3>1 DEF ForServer, Starting, Connected
    <3>7. ForServer(d, b, s)
          BY <1>7, <3>1, <3>3, <3>4, <3>5, <3>6 DEF ForServer
    <3>8. QED BY <2>1, <3>1, <3>7 DEF Datagram
  <2>2. CASE d.to # "server"
        BY <1>16, <2>2 DEF Datagram
  <2>3. QED BY <2>1, <2>2
<1>17. QED BY <1>7, <1>15, <1>16

\* The client connects.
LEMMA ConnectMatched ==
    ASSUME scenario \in Scenarios, NEW c, NEW s, Pair(c, s), Untouched(s),
           c.cryptos_initial = None, NEW b, b = _connect(c)
    PROVE  /\ Pair(b, s) /\ b.cryptos_initial # None
           /\ \A d : Datagram(d, c, s) => Datagram(d, b, s)
<1>1. s.cryptos_initial = None
      BY DEF Pair, Introduced
<1>2. ClientWaits(c)
      BY <1>1, BothWait
<1>3. c.peer_cid = InitialCid(c)
      BY <1>1 DEF Pair, Introduced
<1>4. Starting(c, c)
      BY <1>2, <1>3 DEF Starting, Pair, Progress, Introduced, ClientWaits
<1>5. QED BY <1>1, <1>4, StartingMatched

\* A Retry, which comes from a server that there is not yet.
LEMMA RetryMatched ==
    ASSUME scenario \in Scenarios, NEW c, NEW s, Pair(c, s), Untouched(s),
           c.cryptos_initial # None, NEW d, scenario.retry,
           NEW b, b = _receive_retry_packet(c, d)
    PROVE  /\ Pair(b, s) /\ b.cryptos_initial # None
           /\ \A m : Datagram(m, c, s) => Datagram(m, b, s)
<1>1. CASE c.retry_count = 0 /\ d.initial_cid = c.peer_cid
  <2> DEFINE st == [c EXCEPT !.peer_cid = "retry", !.retry_count = 1,
                             !.retry_source_cid = "retry"]
  <2>1. s.cryptos_initial = None
        BY <1>1 DEF Pair, Introduced
  <2>2. ClientWaits(c)
        BY <2>1, BothWait
  <2>3. b = _connect(st)
        BY <1>1 DEF _receive_retry_packet
  <2>4. c \in Connections /\ "retry" \in Cid
        BY DEF Pair, Cid
  <2>5. /\ st \in Connections /\ st.peer_cid = "retry" /\ st.retry_count = 1
        /\ st.retry_source_cid = "retry" /\ st.original_cid = c.original_cid
        /\ st.handshake_complete = c.handshake_complete /\ st.failed = c.failed
        /\ st.version_negotiated_compatible = c.version_negotiated_compatible
        /\ st.version = c.version
        BY ONLY <2>4 DEF Connections
  <2> HIDE DEF st
  <2>6. InitialCid(st) = "retry"
        BY <2>5 DEF InitialCid
  <2>7. Starting(c, st)
        BY <1>1, <2>2, <2>5, <2>6 DEF Starting, Pair, Progress, Introduced, ClientWaits
  <2>8. QED BY <2>1, <2>3, <2>7, StartingMatched
<1>2. CASE ~(c.retry_count = 0 /\ d.initial_cid = c.peer_cid)
      BY <1>2 DEF _receive_retry_packet
<1>3. QED BY <1>1, <1>2

\* A Version Negotiation, which comes from a server that has no version of the client's.
LEMMA VersionNegotiationMatched ==
    ASSUME scenario \in Scenarios, NEW c, NEW s, Pair(c, s), Untouched(s),
           c.cryptos_initial # None, NEW d, d.versions = scenario.versions["server"],
           NEW b, b = _receive_version_negotiation_packet(c, d)
    PROVE  /\ Pair(b, s) /\ b.cryptos_initial # None
           /\ \A m : Datagram(m, c, s) => Datagram(m, b, s)
<1> DEFINE theirs == scenario.versions["server"]
           version == FirstCommon(scenario.versions["client"], Range(theirs), None)
           st == [c EXCEPT !.version = version, !.version_negotiated_incompatible = TRUE]
<1>1. version \in Range(theirs) /\ version # None /\ version \in STRING
  <2> DEFINE others == Range(theirs)
             ours == scenario.versions["client"]
  <2>1. /\ ours \in Seq(STRING \ {None}) /\ theirs \in Seq(STRING \ {None})
        /\ Range(ours) \cap others # {}
        BY ScenarioIs DEF End
  <2>2. \A v \in others : v # None /\ v \in STRING
        BY <2>1 DEF Range
  <2> HIDE DEF others, ours
  <2>3. FirstCommon(ours, others, None) \in others
        BY ONLY <2>1, FirstCommonIs
  <2>4. QED BY <2>2, <2>3 DEF others, ours
<1>2. \/ b = c
      \/ ~Supported(c.version) /\ b = _connect(st)
      BY <1>1 DEF _receive_version_negotiation_packet, Supported
<1>3. CASE b = c
      BY <1>3
<1>4. CASE ~Supported(c.version) /\ b = _connect(st)
  <2>1. s.cryptos_initial = None
        BY <1>4 DEF Pair, Introduced
  <2>2. ClientWaits(c)
        BY <2>1, BothWait
  <2>3. c \in Connections
        BY DEF Pair
  <2>4. b = _connect(st)
        BY <1>4
  <2> HIDE DEF version
  <2>5. /\ st \in Connections /\ st.peer_cid = c.peer_cid /\ st.retry_count = c.retry_count
        /\ st.retry_source_cid = c.retry_source_cid /\ st.original_cid = c.original_cid
        /\ st.handshake_complete = c.handshake_complete /\ st.failed = c.failed
        /\ st.version_negotiated_compatible = c.version_negotiated_compatible
        BY ONLY <1>1, <2>3 DEF Connections
  <2> HIDE DEF st
  <2>6. InitialCid(st) = InitialCid(c) /\ c.peer_cid = InitialCid(c)
        BY <2>1, <2>5 DEF InitialCid, Pair, Introduced
  <2>7. Starting(c, st)
        BY <1>4, <2>2, <2>5, <2>6 DEF Starting, Pair, Progress, Introduced, ClientWaits
  <2>8. QED BY <2>1, <2>4, <2>7, StartingMatched
<1>5. QED BY <1>2, <1>3, <1>4

\* The server starts, with the keys and the version of the datagram that made it.
LEMMA NewServerMatched ==
    ASSUME scenario \in Scenarios, NEW c, NEW s, Pair(c, s), NEW d, Datagram(d, c, s),
           d.to = "server", Supported(d.version), scenario.retry => d.token,
           ~(s.cryptos_initial # None /\ d.cid \in {s.cryptos_initial, "server"}),
           NEW b, b = NewServer(d)
    PROVE  /\ Pair(c, b) /\ b.cryptos_initial # None
           /\ \A m : Datagram(m, c, s) => Datagram(m, c, b)
<1> DEFINE n == NewConnection("server")
           id == IF d.token THEN d.cid ELSE None
           version == d.version
           st == [n EXCEPT !.is_validated = FALSE, !.version = version,
                           !.retry_source_cid = id]
<1>1. ForServer(d, c, s) /\ d \in DatagramType /\ Introduced(c, s)
      BY DEF Datagram, Pair
<1>2. d.initial_cid = c.cryptos_initial /\ (scenario.retry <=> c.retry_count = 1)
  <2>1. /\ c.cryptos_initial = IF c.retry_count = 0 THEN "original" ELSE "retry"
        /\ c.retry_count \in {0, 1} /\ (c.retry_count = 1 => scenario.retry)
        BY <1>1 DEF Introduced, ForServer, InitialCid
  <2>2. CASE scenario.retry
    <3>1. d.initial_cid = "retry" /\ c.retry_count = 1
          BY <1>1, <2>2 DEF ForServer
    <3>2. QED BY <2>1, <2>2, <3>1
  <2>3. CASE ~scenario.retry
    <3>1. c.retry_count = 0
          BY <2>1, <2>3
    <3>2. d.initial_cid = "original"
          BY <1>1, <3>1 DEF ForServer
    <3>3. QED BY <2>1, <2>3, <3>1, <3>2
  <2>4. QED BY <2>2, <2>3
<1>3. s.cryptos_initial = None
  <2>1. SUFFICES ASSUME s.cryptos_initial # None PROVE FALSE
        OBVIOUS
  <2>2. s.cryptos_initial = c.cryptos_initial
        BY <1>1, <2>1 DEF Introduced
  <2>3. d.cid \in {d.initial_cid, "server"}
        BY <1>1 DEF ForServer
  <2>4. QED BY <1>2, <2>1, <2>2, <2>3
<1>4. d.cid = d.initial_cid /\ d.initial_cid \in {"original", "retry"}
      BY <1>1, <1>3 DEF ForServer
<1>5. ClientWaits(c) /\ ServerWaits(s)
      BY <1>3, BothWait
<1>6. "server" \in End
      BY DEF End
<1>7. n \in Connections
  <2> HIDE DEF n
  <2>1. QED BY <1>6, NewConnectionIs DEF Fresh, n
<1>8. /\ ~n.handshake_complete /\ ~n.failed /\ n.original_cid = "original"
  <2>1. n = NewConnection("server")
        OBVIOUS
  <2> HIDE DEF n
  <2>2. QED BY <1>6, <2>1, NewConnectionIs DEF Fresh
<1>9. b = _initialize("server", st, d.cid)
      BY DEF NewServer
<1>10. version \in STRING /\ id \in Cid /\ d.cid \in Cid
       BY <1>1 DEF DatagramType, Cid
<1> HIDE DEF n, id, version
<1>11. /\ st \in Connections /\ st.handshake_complete = n.handshake_complete
       /\ st.failed = n.failed /\ st.original_cid = n.original_cid
       /\ st.version = version /\ st.retry_source_cid = id
       BY ONLY <1>7, <1>10 DEF Connections
<1> HIDE DEF st
<1>12. Initialized(st, b, "server", d.cid) /\ b.tls \in Contexts
       BY <1>6, <1>9, <1>10, <1>11, InitializedIs
<1>13. /\ b.tls.options = scenario.options["server"] /\ b.tls.keys = {} /\ ~b.tls.alert
       /\ b.tls.out = [e \in Epoch |-> <<>>]
       /\ b.tls.state = "SERVER_EXPECT_CLIENT_HELLO"
  <2> DEFINE x == "server"
             t == NewContext(x = "client", scenario.options[x])
  <2>1. /\ t \in Contexts /\ t.options = scenario.options[x] /\ t.keys = {} /\ ~t.alert
        /\ t.out = [e \in Epoch |-> <<>>]
        /\ t.state = IF x = "client" THEN "CLIENT_HANDSHAKE_START"
                     ELSE "SERVER_EXPECT_CLIENT_HELLO"
    <3>1. t = NewContext(x = "client", scenario.options[x]) /\ x \in End
          BY <1>6
    <3> HIDE DEF t, x
    <3>2. QED BY <3>1, NewContextIs
  <2>2. b.tls = [t EXCEPT !.handshake_extensions = TransportParameters("server", st)]
        BY <1>12 DEF Initialized
  <2> HIDE DEF t
  <2>3. QED BY <2>1, <2>2 DEF Contexts
<1>14. ServerWaits(b)
       BY <1>8, <1>11, <1>12, <1>13 DEF ServerWaits, Initialized
<1>15. Progress(c, b)
       BY <1>5, <1>8, <1>11, <1>12, <1>13, <1>14 DEF Progress, Pair, Initialized
<1>16. Own("server", b)
       BY <1>12, NothingUnderWay DEF Initialized
<1>17. Heard(c, "server", b)
  <2>1. ASSUME NEW e \in Epoch PROVE c.received[e] \subseteq Sendable("server", b, e)
    <3>1. c.received[e] = {}
          BY <1>1, <1>3 DEF Introduced
    <3>2. QED BY <3>1
  <2>2. QED BY <2>1, Zenon DEF Heard
<1>18. Heard(b, "client", c)
  <2>1. ASSUME NEW e \in Epoch PROVE b.received[e] \subseteq Sendable("client", c, e)
    <3>1. b.received[e] = {}
          BY <1>12 DEF Initialized
    <3>2. QED BY <3>1
  <2>2. QED BY <2>1, Zenon DEF Heard
<1>19. b.cryptos_initial = c.cryptos_initial /\ b.cryptos_initial # None
       BY <1>2, <1>4, <1>12 DEF Initialized, None
<1>20. Introduced(c, b)
  <2>1. b.original_cid = "original" /\ b.version = d.version
        BY <1>8, <1>11, <1>12 DEF Initialized, version
  <2>2. b.retry_source_cid = c.retry_source_cid
    <3>1. d.token <=> c.retry_count = 1
          BY <1>1, <1>2, <1>4 DEF ForServer, Introduced, InitialCid
    <3>2. d.token => d.cid = "retry"
          BY <1>1, <1>4 DEF ForServer
    <3>3. QED BY <1>1, <1>11, <1>12, <3>1, <3>2 DEF Initialized, id, Introduced
  <2>3. Supported(c.version)
        BY <1>1 DEF ForServer
  <2>4. QED BY <1>1, <1>2, <1>19, <2>1, <2>2, <2>3 DEF Introduced
<1>21. Discards(c, b)
  <2>1. b.discarded = {} /\ Discards(c, s)
        BY <1>12 DEF Initialized, Pair
  <2>2. "handshake" \notin c.discarded
        BY <1>5, <2>1 DEF Discards, ServerWaits
  <2>3. QED BY <2>1, <2>2 DEF Discards
<1>22. Pair(c, b)
       BY <1>12, <1>15, <1>16, <1>17, <1>18, <1>20, <1>21 DEF Pair, Initialized
<1>23. ASSUME NEW m, Datagram(m, c, s) PROVE Datagram(m, c, b)
  <2>1. s.handled["initial"] = 0
        BY <1>5, EpochsAre DEF ServerWaits
  <2>2. ForServer(m, c, s) => ForServer(m, c, b)
        BY <1>19, <2>1 DEF ForServer
  <2>3. ForClient(m, s) => ForClient(m, b)
        BY <1>3 DEF ForClient
  <2>4. QED BY <1>23, <2>2, <2>3 DEF Datagram
<1>24. QED BY <1>19, <1>22, <1>23

\* What comes of any datagram for a connection that there is.
LEMMA ReceivedMatched ==
    ASSUME scenario \in Scenarios, NEW x \in End, NEW a, NEW other, Matched(x, a, other),
           a.cryptos_initial # None, x = "client" => Untouched(other),
           NEW d, Known(x, d, a, other), d.to = x, x = "server" => Supported(d.version)
    PROVE  LET b == receive_datagram(x, a, d)
           IN /\ Matched(x, b, other) /\ b.cryptos_initial # None
              /\ \A m : Known(x, m, a, other) => Known(x, m, b, other)
<1> DEFINE b == receive_datagram(x, a, d)
<1>1. d.kind \in {"packets", "retry", "version_negotiation"}
      BY DEF Known, Datagram, DatagramType
<1>2. CASE d.kind = "packets"
  <2>1. Matched(x, b, other) /\ Advances(x, a, b)
        BY <1>2, PacketsMatched
  <2> HIDE DEF b
  <2>2. b.cryptos_initial # None
        BY <2>1 DEF Advances
  <2>3. ASSUME NEW m, Known(x, m, a, other) PROVE Known(x, m, b, other)
        BY <2>1, <2>3, DatagramStays
  <2>4. QED BY <2>1, <2>2, <2>3 DEF b
<1>3. CASE d.kind # "packets"
  <2>1. x = "client" /\ ForClient(d, other)
    <3>1. x # "server"
          BY <1>3, Ends DEF Known, Datagram, ForServer
    <3>2. x = "client"
          BY <3>1, Ends
    <3>3. QED BY <3>2 DEF Known, Datagram
  <2>2. Pair(a, other) /\ Untouched(other)
        BY <2>1 DEF Matched
  <2>3. Pair(b, other) /\ b.cryptos_initial # None
        /\ \A m : Datagram(m, a, other) => Datagram(m, b, other)
    <3>1. CASE d.kind = "retry"
      <4>1. b = _receive_retry_packet(a, d)
            BY <3>1 DEF receive_datagram
      <4>2. scenario.retry
            BY <2>1, <3>1 DEF ForClient
      <4> HIDE DEF b
      <4>3. QED BY <2>2, <4>1, <4>2, RetryMatched
    <3>2. CASE d.kind = "version_negotiation"
      <4>1. b = _receive_version_negotiation_packet(a, d)
            BY <3>2 DEF receive_datagram
      <4>2. d.versions = scenario.versions["server"]
            BY <2>1, <3>2 DEF ForClient
      <4> HIDE DEF b
      <4>3. QED BY <2>2, <4>1, <4>2, VersionNegotiationMatched
    <3>3. QED BY <1>1, <1>3, <3>1, <3>2
  <2> HIDE DEF b
  <2>4. QED BY <2>1, <2>3 DEF Matched, Known, b
<1>4. QED BY <1>2, <1>3

\* An answer that needs no connection.
LEMMA AnswerIs ==
    ASSUME scenario \in Scenarios, NEW c, NEW s, NEW d, Datagram(d, c, s),
           NEW kind \in {"retry", "version_negotiation"}, kind = "retry" => scenario.retry,
           NEW b, b = Answer(d, kind)
    PROVE  Datagram(b, c, s)
<1> DEFINE packets == [e \in Epoch |-> EmptyPacket]
           versions == scenario.versions["server"]
<1>1. packets \in [Epoch -> PacketType]
      BY DEF EmptyPacket, Packet, PacketType
<1>2. versions \in Seq(STRING \ {None})
      BY ScenarioIs DEF End
<1>3. "client" \in End /\ "client" \in Cid /\ d \in DatagramType
      BY DEF End, Cid, Datagram
<1>4. b = [d EXCEPT !.to = "client", !.kind = kind, !.packets = packets,
                    !.versions = versions, !.token = FALSE, !.initial_cid = d.cid,
                    !.cid = "client"]
      BY DEF Answer
<1>5. d.cid \in Cid
      BY <1>3 DEF DatagramType
<1> HIDE DEF packets
<1>6. b.to = "client" /\ b.kind = kind /\ b.versions = versions
      BY ONLY <1>3, <1>4 DEF DatagramType
<1> HIDE DEF versions
<1>7. b \in DatagramType
      BY ONLY <1>1, <1>2, <1>3, <1>4, <1>5, kind \in {"retry", "version_negotiation"}
      DEF DatagramType
<1>8. ForClient(b, s)
      BY <1>6 DEF ForClient, versions
<1>9. QED BY <1>6, <1>7, <1>8 DEF Datagram

-----------------------------------------------------------------------------
(* The configurations stay as they are, and so does all that is said of    *)
(* two connections.                                                        *)

\* The flights depend on the scenario, which does not change.
LEMMA FlightsStay ==
    ASSUME scenario' = scenario, NEW s
    PROVE  /\ ServerFlight(s)' = ServerFlight(s) /\ ClientFlight' = ClientFlight
           /\ Resumes' = Resumes /\ Requests' = Requests
           /\ ServerHello' = ServerHello
<1>1. Resumes' = Resumes /\ Requests' = Requests
      BY DEF Resumes, Requests
<1>2. EncryptedExtensions(s)' = EncryptedExtensions(s)
      BY DEF EncryptedExtensions, TransportParameters
<1>3. ServerFlight(s)' = ServerFlight(s)
      BY <1>1, <1>2 DEF ServerFlight
<1>4. ClientFlight' = ClientFlight
      BY <1>1 DEF ClientFlight
<1>5. ServerHello' = ServerHello
      BY DEF ServerHello, Resumes
<1>6. QED BY <1>1, <1>3, <1>4, <1>5

\* How far the client has read depends on nothing else that changes.
LEMMA ReadingStays ==
    ASSUME scenario' = scenario, NEW c, NEW s
    PROVE  /\ ClientWaits(c) => ClientWaits(c)'
           /\ ClientReads(c, s) => ClientReads(c, s)'
           /\ ServerReads(s, c) => ServerReads(s, c)'
           /\ ServerWaits(s) => ServerWaits(s)'
<1>1. \A version : Hello(version)' = Hello(version)
      BY DEF Hello
<1>2. ClientWaits(c) => ClientWaits(c)'
      BY <1>1 DEF ClientWaits
<1>3. /\ ServerFlight(s)' = ServerFlight(s) /\ ClientFlight' = ClientFlight
      /\ Resumes' = Resumes /\ Requests' = Requests
      /\ ServerHello' = ServerHello
      BY FlightsStay
<1>4. ClientReads(c, s) => ClientReads(c, s)'
      BY <1>3 DEF ClientReads
<1>5. \A k, flight : ServerState(k, flight)' = ServerState(k, flight)
      BY <1>3 DEF ServerState
<1>6. ServerReads(s, c) => ServerReads(s, c)'
      BY <1>3, <1>5 DEF ServerReads
<1>7. ServerWaits(s) => ServerWaits(s)'
      BY DEF ServerWaits
<1>8. QED BY <1>2, <1>4, <1>6, <1>7

\* What the invariant says of the two ends depends on nothing else that changes.
LEMMA PairStays ==
    ASSUME scenario' = scenario, NEW c, NEW s, Pair(c, s)
    PROVE  Pair(c, s)'
<1>1. \A version : Supported(version)' <=> Supported(version)
      BY DEF Supported
<1>2. Introduced(c, s)'
      BY <1>1 DEF Pair, Introduced
<1>3. Progress(c, s)'
      BY ReadingStays DEF Pair, Progress
<1>4. QED BY <1>2, <1>3 DEF Pair

\* What it says of a datagram depends on nothing else that changes.
LEMMA DatagramRemains ==
    ASSUME scenario' = scenario, NEW c, NEW s, NEW d, Datagram(d, c, s)
    PROVE  Datagram(d, c, s)'
<1>1. \A version : Supported(version)' <=> Supported(version)
      BY DEF Supported
<1>2. Counts(d, c)' <=> Counts(d, c)
      BY <1>1 DEF Counts
<1>3. ForServer(d, c, s) => ForServer(d, c, s)'
      BY <1>1, <1>2 DEF ForServer
<1>4. ForClient(d, s) => ForClient(d, s)'
      BY DEF ForClient
<1>5. QED BY <1>3, <1>4 DEF Datagram

\* The two connections after a step.
LEMMA InvariantFollows ==
    ASSUME scenario \in Scenarios, scenario' = scenario, NEW c, NEW s, Pair(c, s),
           Untouched(s), conn' = [x \in End |-> IF x = "client" THEN c ELSE s],
           \A d \in net' : Datagram(d, c, s)
    PROVE  IInv'
<1>1. Pair(c, s)'
      BY PairStays
<1>2. c \in Connections /\ s \in Connections
      BY DEF Pair
<1>3. (scenario \in Scenarios)'
      OBVIOUS
<1>4. ASSUME NEW d \in net' PROVE Datagram(d, c, s)'
  <2>1. Datagram(d, c, s)
        OBVIOUS
  <2>2. QED BY <2>1, DatagramRemains
<1>5. \A d \in net' : Datagram(d, c, s)'
      BY <1>4
<1>6. Untouched(s)'
      BY DEF Untouched
<1>7. QED BY <1>1, <1>2, <1>3, <1>5, <1>6 DEF IInv

-----------------------------------------------------------------------------
(* The steps.                                                              *)

\* Both connections, of which x's is st.
Both(x, st, other) ==
    [y \in End |-> IF y = "client" THEN (IF x = "client" THEN st ELSE other)
                   ELSE (IF x = "client" THEN other ELSE st)]

\* What is sent after a step of x.
LEMMA TransmitKept ==
    ASSUME scenario \in Scenarios, scenario' = scenario, NEW x \in End, NEW st, NEW other,
           NEW before, conn = Both(x, before, other),
           Matched(x, st, other), st.cryptos_initial # None, x = "client" => Untouched(other),
           NEW left, \A d \in left : Known(x, d, st, other), Transmit(x, st, left)
    PROVE  IInv'
<1> DEFINE sending == datagrams_to_send(x, st)
           b == sending.st
           more == sending.datagrams
<1>1. conn' = [conn EXCEPT ![x] = b] /\ net' = left \cup more
      BY DEF Transmit
<1>2. /\ Matched(x, b, other) /\ Advances(x, st, b)
      /\ \A d \in more : Known(x, d, b, other)
      BY SendingIsKnown
<1> HIDE DEF sending, b, more
<1>3. conn' = Both(x, b, other)
  <2>1. \A y \in End : [conn EXCEPT ![x] = b][y] = Both(x, b, other)[y]
    <3> SUFFICES ASSUME NEW y \in End PROVE [conn EXCEPT ![x] = b][y] = Both(x, b, other)[y]
        OBVIOUS
    <3>1. [conn EXCEPT ![x] = b][y] = IF y = x THEN b ELSE Both(x, before, other)[y]
          BY DEF Both
    <3>2. y = x => Both(x, b, other)[y] = b
          BY Ends DEF Both
    <3>3. y # x => Both(x, before, other)[y] = Both(x, b, other)[y]
          BY Ends DEF Both
    <3>4. QED BY <3>1, <3>2, <3>3
  <2>2. [conn EXCEPT ![x] = b] = [y \in End |-> [conn EXCEPT ![x] = b][y]]
        BY DEF Both
  <2>3. Both(x, b, other) = [y \in End |-> Both(x, b, other)[y]]
        BY DEF Both
  <2>4. QED BY <1>1, <2>1, <2>2, <2>3
<1>4. \A d \in net' : Known(x, d, b, other)
  <2> SUFFICES ASSUME NEW d \in net' PROVE Known(x, d, b, other)
      OBVIOUS
  <2>1. CASE d \in more
        BY <1>2, <2>1
  <2>2. CASE d \in left
    <3>1. Known(x, d, st, other)
          BY <2>2
    <3>2. QED BY <1>2, <3>1, DatagramStays
  <2>3. QED BY <1>1, <2>1, <2>2
<1>5. b.cryptos_initial # None
      BY <1>2 DEF Advances
<1>6. CASE x = "client"
  <2>1. Pair(b, other) /\ Untouched(other)
        BY <1>2, <1>6 DEF Matched
  <2>2. conn' = [y \in End |-> IF y = "client" THEN b ELSE other]
        BY <1>3, <1>6 DEF Both
  <2>3. \A d \in net' : Datagram(d, b, other)
        BY <1>4, <1>6 DEF Known
  <2>4. QED BY <2>1, <2>2, <2>3, InvariantFollows
<1>7. CASE x = "server"
  <2>1. Pair(other, b) /\ Untouched(b)
        BY <1>2, <1>5, <1>7 DEF Matched, Untouched
  <2>2. conn' = [y \in End |-> IF y = "client" THEN other ELSE b]
        BY <1>3, <1>7 DEF Both
  <2>3. \A d \in net' : Datagram(d, other, b)
        BY <1>4, <1>7 DEF Known
  <2>4. QED BY <2>1, <2>2, <2>3, InvariantFollows
<1>8. QED BY <1>6, <1>7, Ends

\* The invariant, seen by x.
LEMMA SeenBy ==
    ASSUME IInv, NEW x \in End
    PROVE  /\ scenario \in Scenarios
           /\ conn = Both(x, conn[x], conn[Other(x)])
           /\ Matched(x, conn[x], conn[Other(x)])
           /\ x = "client" => Untouched(conn[Other(x)])
           /\ \A d \in net : Known(x, d, conn[x], conn[Other(x)])
<1>1. PICK c \in Connections, s \in Connections :
          /\ conn = [y \in End |-> IF y = "client" THEN c ELSE s]
          /\ Pair(c, s) /\ Untouched(s)
          /\ \A d \in net : Datagram(d, c, s)
      BY DEF IInv
<1>2. conn["client"] = c /\ conn["server"] = s
      BY <1>1 DEF End
<1>3. scenario \in Scenarios
      BY DEF IInv
<1>4. CASE x = "client"
  <2>1. conn[x] = c /\ conn[Other(x)] = s
        BY <1>2, <1>4, Others
  <2>2. conn = Both(x, c, s)
        BY <1>1, <1>4 DEF Both
  <2>3. Matched(x, c, s) /\ \A d \in net : Known(x, d, c, s)
        BY <1>1, <1>4 DEF Matched, Known
  <2>4. QED BY <1>1, <1>3, <2>1, <2>2, <2>3
<1>5. CASE x = "server"
  <2>1. conn[x] = s /\ conn[Other(x)] = c
        BY <1>2, <1>5, Others
  <2>2. conn = Both(x, s, c)
        BY <1>1, <1>5 DEF Both
  <2>3. Matched(x, s, c) /\ \A d \in net : Known(x, d, s, c)
        BY <1>1, <1>5 DEF Matched, Known
  <2>4. QED BY <1>3, <1>5, <2>1, <2>2, <2>3
<1>6. QED BY <1>4, <1>5, Ends

\* Connect keeps the invariant.
LEMMA ConnectKept ==
    ASSUME IInv, Connect
    PROVE  IInv'
<1> DEFINE x == "client"
           c == conn["client"]
           s == conn["server"]
           b == _connect(c)
<1>1. x \in End
      BY DEF End
<1>2. /\ scenario \in Scenarios /\ conn = Both(x, c, s) /\ Matched(x, c, s)
      /\ Untouched(s) /\ \A d \in net : Known(x, d, c, s)
      BY <1>1, SeenBy, Others
<1>3. c.cryptos_initial = None
      BY DEF Connect, Exists
<1>4. /\ Pair(b, s) /\ b.cryptos_initial # None
      /\ \A d : Datagram(d, c, s) => Datagram(d, b, s)
  <2>1. Pair(c, s)
        BY <1>2 DEF Matched
  <2> HIDE DEF c, s
  <2>2. QED BY <1>2, <1>3, <2>1, ConnectMatched
<1>5. Transmit(x, b, net) /\ scenario' = scenario
      BY DEF Connect
<1> HIDE DEF b, c, s
<1>6. Matched(x, b, s) /\ \A d \in net : Known(x, d, b, s)
      BY <1>2, <1>4 DEF Matched, Known
<1> HIDE DEF x
<1>7. QED BY <1>1, <1>2, <1>4, <1>5, <1>6, TransmitKept

\* A datagram an end processes, to its answer, keeps the invariant.
LEMMA ProcessKept ==
    ASSUME IInv, scenario' = scenario, NEW d \in net, NEW left \in SUBSET net,
           Process(d, left)
    PROVE  IInv'
<1> DEFINE x == d.to
           a == conn[x]
           other == conn[Other(x)]
           b == receive_datagram(x, a, d)
<1>1. x \in End
  <2>1. \E y, z : Datagram(d, y, z)
        BY DEF IInv
  <2>2. QED BY <2>1 DEF Datagram, DatagramType
<1>2. /\ scenario \in Scenarios /\ conn = Both(x, a, other) /\ Matched(x, a, other)
      /\ x = "client" => Untouched(other)
      /\ \A m \in net : Known(x, m, a, other)
      BY <1>1, SeenBy
<1>3. /\ a.cryptos_initial # None /\ Transmit(x, b, left)
      /\ x = "server" => Supported(d.version)
      BY DEF Process, Exists, Supported
<1> HIDE DEF a, other
<1>4. d.to = x
      OBVIOUS
<1> HIDE DEF x
<1>5. /\ Matched(x, b, other) /\ b.cryptos_initial # None
      /\ \A m : Known(x, m, a, other) => Known(x, m, b, other)
      BY <1>1, <1>2, <1>3, <1>4, ReceivedMatched
<1> HIDE DEF b
<1>6. \A m \in left : Known(x, m, b, other)
      BY <1>2, <1>5
<1>7. QED BY <1>1, <1>2, <1>3, <1>5, <1>6, TransmitKept

\* The first datagram, for which the server comes to be, keeps the invariant.
LEMMA AcceptKept ==
    ASSUME IInv, scenario' = scenario, NEW d \in net, NEW left \in SUBSET net,
           Accept(d, left)
    PROVE  IInv'
<1> DEFINE x == "server"
           c == conn["client"]
           s == conn["server"]
           n == NewServer(d)
           b == receive_datagram(x, n, d)
<1>1. x \in End
      BY DEF End
<1>2. /\ scenario \in Scenarios /\ conn = Both(x, s, c) /\ Matched(x, s, c)
      /\ \A m \in net : Known(x, m, s, c)
      BY <1>1, SeenBy, Others
<1>3. /\ d.to = x /\ Supported(d.version) /\ (scenario.retry => d.token)
      /\ ~(s.cryptos_initial # None /\ d.cid \in {s.cryptos_initial, "server"})
      /\ Transmit(x, b, left)
      BY DEF Accept, IsNew, Exists, Supported
<1> HIDE DEF c, s
<1>4. Pair(c, s) /\ \A m \in net : Datagram(m, c, s)
      BY <1>2 DEF Matched, Known
<1>5. /\ Pair(c, n) /\ n.cryptos_initial # None
      /\ \A m : Datagram(m, c, s) => Datagram(m, c, n)
      BY <1>2, <1>3, <1>4, NewServerMatched
<1> HIDE DEF n
<1>6. Matched(x, n, c) /\ \A m \in net : Known(x, m, n, c)
      BY <1>4, <1>5 DEF Matched, Known
<1>7. x # "client"
      OBVIOUS
<1> HIDE DEF x
<1>8. /\ Matched(x, b, c) /\ b.cryptos_initial # None
      /\ \A m : Known(x, m, n, c) => Known(x, m, b, c)
      BY <1>1, <1>2, <1>3, <1>5, <1>6, <1>7, ReceivedMatched
<1> HIDE DEF b
<1>9. \A m \in left : Known(x, m, b, c)
      BY <1>6, <1>8
<1>10. QED BY <1>1, <1>2, <1>3, <1>7, <1>8, <1>9, TransmitKept


\* Datagrams come and go while the connections stay as they are.
LEMMA AnsweredKept ==
    ASSUME IInv, scenario' = scenario, conn' = conn, NEW left \in SUBSET net, NEW more,
           \A c, s : (\A d \in net : Datagram(d, c, s)) => \A d \in more : Datagram(d, c, s),
           net' = left \cup more
    PROVE  IInv'
<1>1. PICK c \in Connections, s \in Connections :
          /\ conn = [y \in End |-> IF y = "client" THEN c ELSE s]
          /\ Pair(c, s) /\ Untouched(s)
          /\ \A d \in net : Datagram(d, c, s)
      BY DEF IInv
<1>2. \A d \in net' : Datagram(d, c, s)
      BY <1>1
<1>3. scenario \in Scenarios /\ conn' = [y \in End |-> IF y = "client" THEN c ELSE s]
      BY <1>1 DEF IInv
<1>4. QED BY <1>1, <1>2, <1>3, InvariantFollows

\* A datagram that a Retry or a Version Negotiation answers keeps the invariant.
LEMMA AnswerKept ==
    ASSUME IInv, scenario' = scenario, conn' = conn, NEW left \in SUBSET net, NEW d \in net,
           NEW kind \in {"retry", "version_negotiation"}, kind = "retry" => scenario.retry,
           net' = left \cup {Answer(d, kind)}
    PROVE  IInv'
<1> DEFINE b == Answer(d, kind)
<1>1. scenario \in Scenarios
      BY DEF IInv
<1>2. ASSUME NEW c, NEW s, \A m \in net : Datagram(m, c, s)
      PROVE  \A m \in {b} : Datagram(m, c, s)
  <2>1. Datagram(d, c, s)
        BY <1>2
  <2>2. Datagram(b, c, s)
        BY <1>1, <2>1, AnswerIs
  <2> HIDE DEF b
  <2>3. QED BY <2>2
<1> HIDE DEF b
<1>3. net' = left \cup {b}
      BY DEF b
<1>4. QED BY <1>2, <1>3, AnsweredKept

\* A datagram that is handled in one of these ways keeps the invariant.
LEMMA HandleKept ==
    ASSUME IInv, scenario' = scenario, NEW d \in net, NEW left \in SUBSET net,
           Handle(d, left)
    PROVE  IInv'
<1>1. CASE NegotiateVersion(d, left)
  <2>1. conn' = conn /\ net' = left \cup {Answer(d, "version_negotiation")}
        BY <1>1 DEF NegotiateVersion
  <2>2. QED BY <2>1, AnswerKept
<1>2. CASE Retry(d, left)
  <2>1. conn' = conn /\ net' = left \cup {Answer(d, "retry")} /\ scenario.retry
        BY <1>2 DEF Retry
  <2>2. QED BY <2>1, AnswerKept
<1>3. CASE Accept(d, left)
      BY <1>3, AcceptKept
<1>4. CASE Process(d, left)
      BY <1>4, ProcessKept
<1>5. QED BY <1>1, <1>2, <1>3, <1>4 DEF Handle

\* A timer that expires keeps the invariant.
LEMMA ExpireKept ==
    ASSUME IInv, scenario' = scenario, NEW x \in End, Expire(x)
    PROVE  IInv'
<1> DEFINE a == conn[x]
           other == conn[Other(x)]
           b == on_loss_detection_timeout(a)
<1>1. /\ scenario \in Scenarios /\ conn = Both(x, a, other) /\ Matched(x, a, other)
      /\ x = "client" => Untouched(other)
      /\ \A m \in net : Known(x, m, a, other)
      BY SeenBy
<1>2. a.cryptos_initial # None /\ Transmit(x, b, net)
      BY DEF Expire, Exists
<1> HIDE DEF a, other
<1>3. a \in Connections /\ Own(x, a)
      BY <1>1, Ends DEF Matched, Pair
<1>4. Quiet(x, a, b)
      BY <1>3, TimeoutQuiet
<1> HIDE DEF b
<1>5. Matched(x, b, other) /\ Advances(x, a, b)
      BY <1>1, <1>4, MatchedQuiet
<1>6. ASSUME NEW m \in net PROVE Known(x, m, b, other)
  <2>1. Known(x, m, a, other)
        BY <1>1
  <2>2. QED BY <1>1, <1>5, <2>1, DatagramStays
<1>7. b.cryptos_initial # None
      BY <1>2, <1>5 DEF Advances
<1>8. QED BY <1>1, <1>2, <1>5, <1>6, <1>7, TransmitKept

\* At first neither end has done anything.
LEMMA InitIInv == Init => IInv
<1> SUFFICES ASSUME Init PROVE IInv
    OBVIOUS
<1> DEFINE c == NewConnection("client")
           s == NewConnection("server")
           z == "client"
           tc == NewContext(z = "client", scenario.options[z])
           y == "server"
           ts == NewContext(y = "client", scenario.options[y])
<1>1. scenario \in Scenarios /\ net = {} /\ "client" \in End /\ "server" \in End
      BY DEF Init, End
<1>2. /\ c \in Connections /\ c.tls = tc
      /\ c.pending = [e \in Epoch |-> {}] /\ c.flight = [e \in Epoch |-> <<>>]
      /\ c.overtaken = [e \in Epoch |-> {}] /\ c.received = [e \in Epoch |-> {}]
      /\ c.handled = [e \in Epoch |-> 0] /\ c.discarded = {}
      /\ ~c.handshake_complete /\ ~c.version_negotiated_compatible /\ ~c.failed
      /\ c.cryptos_initial = None
      /\ c.peer_cid = "original" /\ c.original_cid = "original"
      /\ c.retry_source_cid = None /\ c.retry_count = 0
  <2>1. c = NewConnection(z) /\ z \in End
        BY <1>1
  <2>2. tc = NewContext(z = "client", scenario.options[z])
        OBVIOUS
  <2> HIDE DEF c, tc, z
  <2>3. Fresh(z, c)
        BY <1>1, <2>1, NewConnectionIs
  <2>4. QED BY <2>2, <2>3 DEF Fresh
<1>3. /\ s \in Connections /\ s.tls = ts
      /\ s.pending = [e \in Epoch |-> {}] /\ s.flight = [e \in Epoch |-> <<>>]
      /\ s.overtaken = [e \in Epoch |-> {}] /\ s.received = [e \in Epoch |-> {}]
      /\ s.handled = [e \in Epoch |-> 0] /\ s.discarded = {}
      /\ ~s.handshake_complete /\ ~s.failed
      /\ s.cryptos_initial = None /\ s.original_cid = "original"
  <2>1. s = NewConnection(y) /\ y \in End
        BY <1>1
  <2>2. ts = NewContext(y = "client", scenario.options[y])
        OBVIOUS
  <2> HIDE DEF s, ts, y
  <2>3. Fresh(y, s)
        BY <1>1, <2>1, NewConnectionIs
  <2>4. QED BY <2>2, <2>3 DEF Fresh
<1>4. /\ tc.options = scenario.options["client"] /\ tc.keys = {} /\ ~tc.alert
      /\ ~tc.certificate_request /\ tc.out = [e \in Epoch |-> <<>>]
      /\ tc.state = "CLIENT_HANDSHAKE_START"
  <2>1. tc = NewContext(z = "client", scenario.options[z]) /\ z \in End
        BY <1>1
  <2> HIDE DEF tc, z
  <2>2. /\ tc.options = scenario.options[z] /\ tc.keys = {} /\ ~tc.alert
        /\ ~tc.certificate_request /\ tc.out = [e \in Epoch |-> <<>>]
        /\ tc.state = IF z = "client" THEN "CLIENT_HANDSHAKE_START"
                      ELSE "SERVER_EXPECT_CLIENT_HELLO"
        BY <1>1, <2>1, NewContextIs
  <2>3. QED BY <2>2 DEF z
<1>5. /\ ts.options = scenario.options["server"] /\ ts.keys = {} /\ ~ts.alert
      /\ ts.out = [e \in Epoch |-> <<>>]
      /\ ts.state = "SERVER_EXPECT_CLIENT_HELLO"
  <2>1. ts = NewContext(y = "client", scenario.options[y]) /\ y \in End
        BY <1>1
  <2> HIDE DEF ts, y
  <2>2. /\ ts.options = scenario.options[y] /\ ts.keys = {} /\ ~ts.alert
        /\ ts.out = [e \in Epoch |-> <<>>]
        /\ ts.state = IF y = "client" THEN "CLIENT_HANDSHAKE_START"
                      ELSE "SERVER_EXPECT_CLIENT_HELLO"
        BY <1>1, <2>1, NewContextIs
  <2>3. QED BY <2>2 DEF y
<1>6. conn = [x \in End |-> IF x = "client" THEN c ELSE s]
  <2>1. conn = [x \in End |-> NewConnection(x)]
        BY DEF Init
  <2>2. \A x \in End : NewConnection(x) = IF x = "client" THEN c ELSE s
        BY Ends
  <2> HIDE DEF c, s
  <2>3. QED BY <2>1, <2>2
<1> HIDE DEF c, s, tc, ts, y, z
<1>7. c.tls.out["initial"] = <<>> /\ c.tls.out["handshake"] = <<>> /\ c.tls.out["one_rtt"] = <<>>
      BY <1>2, <1>4, EpochsAre
<1>8. ClientWaits(c)
      BY <1>2, <1>4, <1>7 DEF ClientWaits
<1>9. ServerWaits(s)
      BY <1>3, <1>5 DEF ServerWaits
<1>10. Progress(c, s)
       BY <1>2, <1>3, <1>4, <1>5, <1>8, <1>9 DEF Progress
<1>11. Own("client", c) /\ Own("server", s)
       BY <1>2, <1>3, NothingUnderWay
<1>12. Heard(c, "server", s)
  <2>1. ASSUME NEW e \in Epoch PROVE c.received[e] \subseteq Sendable("server", s, e)
        BY <1>2
  <2>2. QED BY <2>1, Zenon DEF Heard
<1>13. Heard(s, "client", c)
  <2>1. ASSUME NEW e \in Epoch PROVE s.received[e] \subseteq Sendable("client", c, e)
        BY <1>3
  <2>2. QED BY <2>1, Zenon DEF Heard
<1>14. Introduced(c, s)
       BY <1>2, <1>3 DEF Introduced, InitialCid
<1>15. Discards(c, s)
       BY <1>2, <1>3 DEF Discards
<1>16. Pair(c, s) /\ Untouched(s)
       BY <1>2, <1>3, <1>10, <1>11, <1>12, <1>13, <1>14, <1>15 DEF Pair, Untouched
<1>17. \A d \in net : Datagram(d, c, s)
       BY <1>1
<1>18. QED BY <1>1, <1>2, <1>3, <1>6, <1>16, <1>17 DEF IInv

\* Every step keeps the invariant.
LEMMA NextIInv == IInv /\ [Next]_vars => IInv'
<1> SUFFICES ASSUME IInv, [Next]_vars PROVE IInv'
    OBVIOUS
<1>1. CASE Connect
      BY <1>1, ConnectKept
<1>2. ASSUME NEW d \in net, Deliver(d) PROVE IInv'
  <2>1. scenario' = scenario /\ Handle(d, net \ {d})
        BY <1>2 DEF Deliver
  <2>2. net \ {d} \in SUBSET net
        OBVIOUS
  <2>3. QED BY <2>1, <2>2, HandleKept
<1>3. ASSUME NEW d \in net, Repeat(d) PROVE IInv'
  <2>1. scenario' = scenario /\ Handle(d, net)
        BY <1>3 DEF Repeat, Fault
  <2>2. QED BY <2>1, HandleKept
<1>4. ASSUME NEW d \in net, Lose(d) PROVE IInv'
  <2>1. scenario' = scenario /\ conn' = conn /\ net' = (net \ {d}) \cup {}
        BY <1>4 DEF Lose, Fault
  <2>2. net \ {d} \in SUBSET net
        OBVIOUS
  <2>3. QED BY <2>1, <2>2, AnsweredKept
<1>5. ASSUME NEW x \in End, Timer(x) PROVE IInv'
      BY <1>5, ExpireKept DEF Timer
<1>6. ASSUME NEW x \in End, EarlyTimer(x) PROVE IInv'
      BY <1>6, ExpireKept DEF EarlyTimer, Fault
<1>7. CASE UNCHANGED vars
  <2>1. scenario' = scenario /\ conn' = conn /\ net' = net \cup {}
        BY <1>7 DEF vars
  <2>2. QED BY <2>1, AnsweredKept
<1>8. QED BY <1>1, <1>2, <1>3, <1>4, <1>5, <1>6, <1>7 DEF Next

-----------------------------------------------------------------------------
(* What follows from the invariant.                                        *)

\* Both connections are well-typed, how far each is goes with what the other has
\* written, and every datagram under way holds what its sender has written.
THEOREM HandshakeInvariant == Spec => []IInv
<1>1. Init => IInv
      BY InitIInv
<1>2. IInv /\ [Next]_vars => IInv'
      BY NextIInv
<1>3. QED BY <1>1, <1>2, PTL DEF Spec

\* The invariant leaves no error to find.
LEMMA NoErrorFollows == IInv => NoError
<1> SUFFICES ASSUME IInv, NEW x \in End PROVE ~conn[x].failed
    BY DEF NoError, Failed
<1>1. Matched(x, conn[x], conn[Other(x)])
      BY SeenBy
<1>2. QED BY <1>1 DEF Matched, Pair, Progress

\* Whatever the network loses, repeats and reorders, neither end raises an alert or a
\* QuicConnectionError (handle_message, _parse_transport_parameters and
\* _receive_version_negotiation_packet), after a Retry or another version too.
THEOREM HonestEndsFindNoError == Spec => []NoError
<1>1. IInv => NoError
      BY NoErrorFollows
<1>2. QED BY <1>1, HandshakeInvariant, PTL

\* What the two ends have handled and written tells that nothing is stranded.
LEMMA NothingStrandedFollows == IInv => NothingStranded
<1> SUFFICES ASSUME IInv PROVE NothingStranded
    OBVIOUS
<1>1. PICK c \in Connections, s \in Connections :
          /\ conn = [y \in End |-> IF y = "client" THEN c ELSE s] /\ Pair(c, s)
      BY DEF IInv
<1>2. conn["client"] = c /\ conn["server"] = s
      BY <1>1 DEF End
<1>3. scenario \in Scenarios
      BY DEF IInv
<1>4. c.handled["initial"] = 1 => /\ Len(c.tls.out["initial"]) =< s.handled["initial"]
                                  /\ Len(s.tls.out["initial"]) =< c.handled["initial"]
  <2> SUFFICES ASSUME c.handled["initial"] = 1
               PROVE  /\ Len(c.tls.out["initial"]) =< s.handled["initial"]
                      /\ Len(s.tls.out["initial"]) =< c.handled["initial"]
      OBVIOUS
  <2>1. ~ClientWaits(c)
        BY EpochsAre DEF ClientWaits
  <2>2. ClientReads(c, s)
        BY <1>1, <2>1 DEF Pair, Progress
  <2>3. s.handled["initial"] = 1 /\ Len(c.tls.out["initial"]) = 1
        BY <2>2 DEF ClientReads
  <2>4. ~ServerWaits(s)
        BY <2>3, EpochsAre DEF ServerWaits
  <2>5. s.tls.out["initial"] = <<ServerHello>>
        BY <1>1, <2>4 DEF Pair, Progress, ServerReads
  <2>6. QED BY <2>3, <2>5
<1>5. s.handshake_complete => /\ Len(c.tls.out["handshake"]) =< s.handled["handshake"]
                              /\ Len(s.tls.out["handshake"]) =< c.handled["handshake"]
  <2> SUFFICES ASSUME s.handshake_complete
               PROVE  /\ Len(c.tls.out["handshake"]) =< s.handled["handshake"]
                      /\ Len(s.tls.out["handshake"]) =< c.handled["handshake"]
      OBVIOUS
  <2>1. ServerReads(s, c)
        BY <1>1 DEF Pair, Progress, ServerWaits
  <2>2. /\ s.handled["handshake"] > 0
        /\ s.handled["handshake"] = Len(c.tls.out["handshake"])
        /\ s.tls.out["handshake"] = ServerFlight(s)
        BY <2>1 DEF ServerReads
  <2>3. c.tls.out["handshake"] # <<>>
        BY <2>2
  <2>4. ClientReads(c, s)
        BY <1>1, <2>3 DEF Pair, Progress, ClientWaits
  <2>5. c.handled["handshake"] = Len(ServerFlight(s))
        BY <2>3, <2>4 DEF ClientReads
  <2>6. c.handled["handshake"] \in Nat /\ s.handled["handshake"] \in Nat
        BY <1>1, EpochsAre DEF Pair, Connections, Counters
  <2>7. QED BY <2>2, <2>5, <2>6
<1>6. Discards(c, s)
      BY <1>1 DEF Pair
<1>7. ASSUME NEW e \in c.discarded PROVE s.handled[e] >= Len(c.tls.out[e])
  <2>1. e = "initial" \/ e = "handshake"
        BY <1>1, <1>6, EpochsAre DEF Discards, Connections
  <2>2. QED BY <1>4, <1>5, <1>6, <2>1 DEF Discards
<1>8. ASSUME NEW e \in s.discarded PROVE c.handled[e] >= Len(s.tls.out[e])
  <2>1. e = "initial" \/ e = "handshake"
        BY <1>1, <1>6, EpochsAre DEF Discards, Connections
  <2>2. QED BY <1>4, <1>5, <1>6, <2>1 DEF Discards
<1>9. QED BY <1>2, <1>7, <1>8, Ends, Others DEF NothingStranded

\* No end discards the keys of an epoch (_discard_epoch) while the other lacks a message
\* that it wrote there.
THEOREM DiscardedEpochsAreDone == Spec => []NothingStranded
<1>1. IInv => NothingStranded
      BY NothingStrandedFollows
<1>2. QED BY <1>1, HandshakeInvariant, PTL

\* Ends that are complete have read the whole of what the other has written, so
\* they agree.
LEMMA EndsAgreeFollows == IInv => EndsAgree
<1> SUFFICES ASSUME IInv, conn["client"].handshake_complete, conn["server"].handshake_complete
             PROVE  /\ conn["client"].version = conn["server"].version
                    /\ conn["client"].tls.session_resumed = conn["server"].tls.session_resumed
                    /\ conn["client"].tls.early_data_accepted
                           = conn["server"].tls.early_data_accepted
    BY DEF EndsAgree, End
<1>1. PICK c \in Connections, s \in Connections :
          /\ conn = [y \in End |-> IF y = "client" THEN c ELSE s] /\ Pair(c, s)
      BY DEF IInv
<1>2. conn["client"] = c /\ conn["server"] = s
      BY <1>1 DEF End
<1>3. scenario \in Scenarios
      BY DEF IInv
<1>4. ClientReads(c, s) /\ ServerReads(s, c)
      BY <1>1, <1>2 DEF Pair, Progress, ClientWaits, ServerWaits
<1>5. c.handled["handshake"] = Len(ServerFlight(s)) /\ Len(ServerFlight(s)) >= 2
      BY <1>2, <1>3, <1>4, ServerFlightIs DEF ClientReads
<1>6. c.handled["handshake"] > 0
      BY <1>5
<1>7. /\ c.version = s.version /\ c.tls.session_resumed = Resumes
      /\ c.tls.early_data_accepted = s.tls.early_data_accepted
      BY <1>4, <1>6 DEF ClientReads
<1>8. s.tls.session_resumed = Resumes
      BY <1>4 DEF ServerReads
<1>9. QED BY <1>2, <1>7, <1>8

\* When both ends have completed the handshake they have the same version, and agree on
\* the resumption and on early data (_alpn_handler, _update_traffic_key and the handlers
\* of the hellos and of the encrypted extensions).
THEOREM CompleteEndsAgree == Spec => []EndsAgree
<1>1. IInv => EndsAgree
      BY EndsAgreeFollows
<1>2. QED BY <1>1, HandshakeInvariant, PTL
=============================================================================
