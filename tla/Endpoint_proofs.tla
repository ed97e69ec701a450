-------------------------- MODULE Endpoint_proofs ---------------------------
(***************************************************************************)
(* Proofs about Endpoint.tla, for all deadlines, windows and pings: what   *)
(* keeps a frame from being written leaves something that will try again,  *)
(* and a ping that somebody waits for is in one place.                     *)
(***************************************************************************)
EXTENDS Endpoint, FoldLemmas

Names == Uids \cup {"connected", "reader"}
Deadline == -1..Never
Packets == [crypto : BOOLEAN, pings : SUBSET Uids, overtaken : BOOLEAN]

\* Packets by their numbers.
Flights == UNION {[N -> Packets] : N \in {S \in SUBSET Nat : IsFiniteSet(S)}}

Quic ==
    [state : {"FIRSTFLIGHT", "CONNECTED"} \cup END_STATES, complete : BOOLEAN,
     cause : {"none", "local", "peer", "idle"}, reason : Reasons \cup {"short"},
     close_pending : BOOLEAN, close_at : Deadline, ack_at : Deadline,
     pacing_at : Deadline, loss_at : Deadline, loss_time : Deadline,
     pto_count : 0..MaxBackoff, last_sent : Nat, window : Windows, sent : Flights,
     packet_time : BOOLEAN, bucket : Nat, crypto : BOOLEAN, probe_pending : BOOLEAN,
     ping_pending : SUBSET Uids, work : Nat]

Protocol ==
    [timer : Deadline, transmit_task : BOOLEAN, soon : Nat, connected : BOOLEAN,
     closed : BOOLEAN, waiters : SUBSET Names, used : SUBSET Names]

-----------------------------------------------------------------------------
(* The invariant.                                                          *)

Over(q) == q.state \in END_STATES

\* A ping has one place if somebody waits for its answer and none otherwise.
OnePlace(q, u) ==
    IF u \in q.ping_pending THEN \A n \in DOMAIN q.sent : u \notin q.sent[n].pings
    ELSE \E n \in DOMAIN q.sent : \A m \in DOMAIN q.sent : u \in q.sent[m].pings <=> m = n

NoPlace(q, u) ==
    u \notin q.ping_pending /\ \A n \in DOMAIN q.sent : u \notin q.sent[n].pings

\* A packet of the handshake has no pings.
Tracked(q, waiters) ==
    /\ \A u \in Uids : IF u \in waiters THEN OnePlace(q, u) ELSE NoPlace(q, u)
    /\ ~q.complete => \A n \in DOMAIN q.sent : q.sent[n].pings = {}

\* A connection that closes says so in its next packet, unless it cannot.
CloseGoesOut(q) == q.close_pending => Unsendable(q)

Frames(q) ==
    IF q.complete THEN q.ping_pending # {} \/ q.probe_pending \/ q.work > 0
    ELSE q.crypto \/ q.probe_pending

\* The timer stands for the pacer and the loss of packets.
Armed(q, timer) == timer <= q.pacing_at /\ timer <= get_loss_detection_time(q)

\* One of them is set when a frame was held back.
Held(q) == Frames(q) => q.pacing_at # Never \/ get_loss_detection_time(q) # Never

Going(q, p) == ~Unsendable(q) => Armed(q, p.timer) /\ (p.soon = 0 => Held(q))

IInv ==
    /\ quic \in Quic
    /\ protocol \in Protocol
    /\ protocol.waiters \cap Uids \subseteq protocol.used
    /\ protocol.transmit_task => protocol.soon > 0
    /\ ~Connected => protocol.soon = 0 /\ protocol.timer = Never
    /\ ~Ended => Tracked(quic, protocol.waiters) /\ CloseGoesOut(quic)
    /\ Connected /\ ~Ended => Going(quic, protocol)

-----------------------------------------------------------------------------
(* Deadlines.                                                              *)

\* The bounds are numbers, and each deadline comes before Never.
LEMMA Bounds ==
    /\ Never \in Nat /\ Idle \in Nat /\ Probe \in Nat /\ AckDelay \in Nat
    /\ PacketTime \in Nat /\ MaxBucket \in Nat /\ MaxBackoff \in Nat
    /\ 1 < Never /\ Idle < Never /\ Closing < Never /\ AckDelay < Never
    /\ PacketTime < Never /\ Longest < Never
    /\ Closing \in Nat
<1>1. Probe \in Nat
      BY BoundsAssumption
<1>2. Closing \in Nat
      BY <1>1 DEF Closing
<1>3. QED BY <1>2, BoundsAssumption

\* The larger and the smaller of two numbers.
LEMMA MaxOfTwo ==
    ASSUME NEW a \in Int, NEW b \in Int
    PROVE  Max({a, b}) = IF a >= b THEN a ELSE b
<1> DEFINE m == IF a >= b THEN a ELSE b
<1>1. m \in {a, b} /\ \A z \in {a, b} : m >= z
      OBVIOUS
<1>2. \A x \in {a, b} : (\A z \in {a, b} : x >= z) => x = m
      OBVIOUS
<1> HIDE DEF m
<1>3. Max({a, b}) = m
      BY <1>1, <1>2 DEF Max
<1>4. QED BY <1>3 DEF m

LEMMA MinOfTwo ==
    ASSUME NEW a \in Int, NEW b \in Int
    PROVE  Min({a, b}) = IF a <= b THEN a ELSE b
<1> DEFINE m == IF a <= b THEN a ELSE b
<1>1. m \in {a, b} /\ \A z \in {a, b} : m <= z
      OBVIOUS
<1>2. \A x \in {a, b} : (\A z \in {a, b} : x <= z) => x = m
      OBVIOUS
<1> HIDE DEF m
<1>3. Min({a, b}) = m
      BY <1>1, <1>2 DEF Min
<1>4. QED BY <1>3 DEF m

\* The least of four numbers is one of them.
LEMMA MinOfFour ==
    ASSUME NEW a \in Int, NEW b \in Int, NEW c \in Int, NEW d \in Int
    PROVE  /\ Min({a, b, c, d}) \in {a, b, c, d}
           /\ Min({a, b, c, d}) <= a /\ Min({a, b, c, d}) <= b
           /\ Min({a, b, c, d}) <= c /\ Min({a, b, c, d}) <= d
<1>1. \E m \in {a, b, c, d} : \A z \in {a, b, c, d} : m <= z
      OBVIOUS
<1>2. /\ Min({a, b, c, d}) \in {a, b, c, d}
      /\ \A z \in {a, b, c, d} : Min({a, b, c, d}) <= z
      BY <1>1 DEF Min
<1>3. QED BY <1>2

\* Each timeout is a number, and none is longer than the last.
LEMMA Timeouts ==
    \A k \in 0..MaxBackoff : timeout[k] \in Nat /\ timeout[k] < Longest
<1> DEFINE n == MaxBackoff
           Is(f) == f = [k \in 0..n |-> IF k = 0 THEN Probe ELSE 2 * f[k - 1]]
           step == [p \in (1..n) \X Nat |-> 2 * p[2]]
<1>1. n \in Nat /\ Probe \in Nat
      BY Bounds
<1>2. PICK h \in [0..n -> Nat] : h[0] = Probe /\ \A i \in 1..n : h[i] = step[<<i, h[i - 1]>>]
  <2>1. step \in [(1..n) \X Nat -> Nat]
        OBVIOUS
  <2> HIDE DEF n, step
  <2>2. Walks(n, Nat, Probe, step) # {}
        BY <1>1, <2>1, StepsExist
  <2>3. QED BY <2>2 DEF Walks
<1>3. Is(h)
  <2>1. ASSUME NEW i \in 1..n PROVE h[i] = 2 * h[i - 1]
    <3>1. i - 1 \in 0..n /\ h[i - 1] \in Nat
          BY <1>1
    <3>2. step[<<i, h[i - 1]>>] = 2 * h[i - 1]
          BY <3>1
    <3> HIDE DEF step
    <3>3. QED BY <1>2, <3>2
  <2>2. \A i \in 0..n : h[i] = IF i = 0 THEN Probe ELSE 2 * h[i - 1]
    <3> HIDE DEF step, n
    <3> QED BY <1>1, <1>2, <2>1
  <2> HIDE DEF step, n
  <2>3. QED BY <1>2, <2>2
<1>4. Is(timeout)
  <2>1. timeout = CHOOSE f : Is(f)
        BY DEF timeout
  <2> HIDE DEF Is
  <2>2. QED BY <1>3, <2>1
<1> HIDE DEF n
<1>5. timeout[0] = Probe /\ \A k \in 1..n : timeout[k] = 2 * timeout[k - 1]
  <2>1. \A k \in 0..n : timeout[k] = IF k = 0 THEN Probe ELSE 2 * timeout[k - 1]
        BY <1>4
  <2>2. QED BY <1>1, <2>1
<1> DEFINE Good == {k \in 0..n : /\ timeout[k] \in Nat
                                 /\ \A j \in 0..k : timeout[j] \in Nat /\ timeout[j] <= timeout[k]}
<1>6. 0 \in Good
      BY <1>1, <1>5
<1>7. ASSUME NEW k \in 0..(n - 1), k \in Good PROVE k + 1 \in Good
  <2>1. k + 1 \in 1..n /\ (k + 1) - 1 = k
        BY <1>1
  <2>2. timeout[k + 1] = 2 * timeout[k] /\ timeout[k] \in Nat
        BY <1>5, <1>7, <2>1
  <2>3. timeout[k + 1] \in Nat /\ timeout[k] <= timeout[k + 1]
        BY <2>2
  <2>4. ASSUME NEW j \in 0..(k + 1) PROVE timeout[j] \in Nat /\ timeout[j] <= timeout[k + 1]
    <3>1. CASE j = k + 1
          BY <2>3, <3>1
    <3>2. CASE j # k + 1
      <4>1. j \in 0..k
            BY <3>2
      <4>2. timeout[j] \in Nat /\ timeout[j] <= timeout[k]
            BY <1>7, <4>1
      <4>3. QED BY <2>2, <2>3, <4>2
    <3>3. QED BY <3>1, <3>2
  <2>5. k + 1 \in 0..n
        BY <2>1
  <2>6. QED BY <2>3, <2>4, <2>5
<1>8. n \in Good
  <2>1. \A k \in 0..n : k \in Good
    <3> HIDE DEF Good
    <3> QED BY <1>1, <1>6, <1>7, InductionUpTo
  <2>2. QED BY <1>1, <2>1
<1>9. \A k \in 0..n : timeout[k] \in Nat /\ timeout[k] <= timeout[n]
      BY <1>8
<1>10. Longest = timeout[n] + 1 /\ timeout[n] \in Nat
       BY <1>8 DEF Longest, n
<1>11. \A k \in 0..n : timeout[k] \in Nat /\ timeout[k] < Longest
       BY <1>9, <1>10
<1>12. QED BY <1>11 DEF n

\* When the loss of packets will be noticed, and whether it will.
LEMMA LossTime ==
    ASSUME NEW q \in Quic
    PROVE  /\ get_loss_detection_time(q) \in Deadline
           /\ get_loss_detection_time(q) # Never <=>
                  q.loss_time # Never \/ ~q.complete \/ DOMAIN q.sent # {}
<1> DEFINE left == timeout[q.pto_count] - q.last_sent
<1>1. q.loss_time \in Deadline /\ q.pto_count \in 0..MaxBackoff /\ q.last_sent \in Nat
      BY DEF Quic
<1>2. Never \in Nat /\ Longest < Never /\ 1 < Never
      BY Bounds
<1>3. timeout[q.pto_count] \in Nat /\ timeout[q.pto_count] < Longest /\ Longest \in Nat
      BY <1>1, Timeouts, Bounds DEF Longest
<1>4. left \in Int /\ left < Never
      BY <1>1, <1>2, <1>3
<1> HIDE DEF left
<1>5. Max({left, -1}) = IF left >= -1 THEN left ELSE -1
      BY <1>4, MaxOfTwo
<1>6. Max({left, -1}) \in Deadline /\ Max({left, -1}) # Never
      BY <1>2, <1>4, <1>5 DEF Deadline
<1>7. Never \in Deadline
      BY <1>2 DEF Deadline
<1>8. QED BY <1>1, <1>6, <1>7 DEF get_loss_detection_time, left

\* The timer is a deadline, no later than those it stands for.
LEMMA TimerArms ==
    ASSUME NEW q \in Quic
    PROVE  /\ get_timer(q) \in Deadline
           /\ ~Over(q) => Armed(q, get_timer(q)) /\ get_timer(q) <= q.close_at
<1> DEFINE loss == get_loss_detection_time(q)
<1>1. q.close_at \in Deadline /\ q.ack_at \in Deadline /\ q.pacing_at \in Deadline
      BY DEF Quic
<1>2. loss \in Deadline
      BY LossTime
<1>3. Never \in Nat
      BY Bounds
<1> DEFINE a == q.close_at
           b == q.ack_at
           c == q.pacing_at
           least == Min({a, b, loss, c})
<1>4. a \in Int /\ b \in Int /\ c \in Int /\ loss \in Int
      BY <1>1, <1>2, <1>3 DEF Deadline
<1>5. /\ least \in {a, b, loss, c}
      /\ least <= a /\ least <= loss /\ least <= c
  <2> HIDE DEF a, b, c, loss
  <2> QED BY <1>4, MinOfFour
<1>6. get_timer(q) = IF Over(q) THEN a ELSE least
      BY DEF get_timer, Over
<1> HIDE DEF least
<1>7. QED BY <1>1, <1>2, <1>5, <1>6 DEF Armed

-----------------------------------------------------------------------------
(* Packets in flight.                                                      *)

\* The packets in flight have numbers, finitely many.
LEMMA FlightFacts ==
    ASSUME NEW sent \in Flights
    PROVE  /\ DOMAIN sent \in SUBSET Nat /\ IsFiniteSet(DOMAIN sent)
           /\ \A n \in DOMAIN sent : sent[n] \in Packets
BY DEF Flights

\* Packets with numbers are packets in flight.
LEMMA FlightBuilt ==
    ASSUME NEW N \in SUBSET Nat, IsFiniteSet(N), NEW sent \in [N -> Packets]
    PROVE  sent \in Flights
BY DEF Flights

\* None in flight.
LEMMA NothingInFlight == << >> \in Flights /\ DOMAIN << >> = {}
<1>1. << >> \in [{} -> Packets] /\ DOMAIN << >> = {}
      OBVIOUS
<1>2. IsFiniteSet({}) /\ {} \in SUBSET Nat
      BY FS_EmptySet
<1>3. QED BY <1>1, <1>2, FlightBuilt

\* Those that remain when some are taken out.
LEMMA FlightRemains ==
    ASSUME NEW q \in Quic, NEW gone
    PROVE  /\ Remaining(q, gone) \in Flights
           /\ DOMAIN Remaining(q, gone) = DOMAIN q.sent \ gone
           /\ \A n \in DOMAIN q.sent \ gone : Remaining(q, gone)[n] = q.sent[n]
<1> DEFINE N == DOMAIN q.sent \ gone
           rest == Remaining(q, gone)
<1>1. q.sent \in Flights
      BY DEF Quic
<1>2. /\ DOMAIN q.sent \in SUBSET Nat /\ IsFiniteSet(DOMAIN q.sent)
      /\ \A n \in DOMAIN q.sent : q.sent[n] \in Packets
      BY <1>1, FlightFacts
<1>3. N \in SUBSET Nat /\ IsFiniteSet(N)
      BY <1>2, FS_Difference
<1>4. rest = [n \in N |-> q.sent[n]]
      BY DEF Remaining, Restrict
<1> HIDE DEF rest
<1>5. rest \in [N -> Packets]
      BY <1>2, <1>4
<1>6. rest \in Flights
      BY <1>3, <1>5, FlightBuilt
<1>7. QED BY <1>4, <1>6 DEF rest

\* The room is a number, and when there is none something is in flight.
LEMMA RoomInWindow ==
    ASSUME NEW q \in Quic
    PROVE  /\ MaxFlight(q) \in Nat
           /\ MaxFlight(q) = 0 => DOMAIN q.sent # {}
<1> DEFINE size == Cardinality(DOMAIN q.sent)
           left == q.window - size
           free == Max({left, 0})
<1>1. q.sent \in Flights /\ q.window \in Nat \ {0}
      BY WindowsAssumption DEF Quic
<1>2. size \in Nat
      BY <1>1, FlightFacts, FS_CardinalityType
<1>3. DOMAIN q.sent = {} => size = 0
      BY FS_EmptySet
<1> HIDE DEF size
<1>4. left \in Int
      BY <1>1, <1>2
<1>5. size = 0 => left > 0
      BY <1>1
<1> HIDE DEF left
<1>6. free = IF left >= 0 THEN left ELSE 0
      BY <1>4, MaxOfTwo
<1>7. free \in Nat /\ (free = 0 => size # 0)
      BY <1>4, <1>5, <1>6
<1>8. MaxFlight(q) = IF q.probe_pending /\ free < 1 THEN 1 ELSE free
      BY DEF MaxFlight, free, left, size
<1>9. QED BY <1>3, <1>7, <1>8

\* A packet that is sent is one more, and the others are as they were.
LEMMA PacketIsSent ==
    ASSUME NEW q \in Quic, NEW p \in Packets
    PROVE  \E number \in Nat \ DOMAIN q.sent :
              LET sent == [n \in DOMAIN q.sent \cup {number} |->
                              IF n = number THEN p ELSE q.sent[n]]
              IN  /\ sent \in Flights
                  /\ on_packet_sent(q, p) = [q EXCEPT !.sent = sent, !.last_sent = 0]
<1> DEFINE number == Max(DOMAIN q.sent \cup {0}) + 1
           N == DOMAIN q.sent \cup {number}
           sent == [n \in N |-> IF n = number THEN p ELSE q.sent[n]]
<1>1. q.sent \in Flights
      BY DEF Quic
<1>2. /\ DOMAIN q.sent \in SUBSET Nat /\ IsFiniteSet(DOMAIN q.sent)
      /\ \A n \in DOMAIN q.sent : q.sent[n] \in Packets
      BY <1>1, FlightFacts
<1>3. number \in Nat /\ number \notin DOMAIN q.sent
  <2> DEFINE M == DOMAIN q.sent \cup {0}
  <2>1. M \in SUBSET Nat /\ IsFiniteSet(M) /\ M # {}
        BY <1>2, FS_AddElement
  <2> HIDE DEF M
  <2>2. Max(M) \in M /\ \A y \in M : y <= Max(M)
        BY <2>1, MaxOfFinite
  <2> DEFINE m == Max(M)
  <2>3. m \in M /\ \A y \in M : y <= m
        BY <2>2
  <2> HIDE DEF m
  <2>4. m + 1 \in Nat /\ m + 1 \notin M
        BY <2>1, <2>3
  <2>5. QED BY <2>4 DEF M, m
<1>4. on_packet_sent(q, p) = [q EXCEPT !.sent = sent, !.last_sent = 0]
      BY DEF on_packet_sent
<1> HIDE DEF number
<1>5. N \in SUBSET Nat /\ IsFiniteSet(N)
      BY <1>2, <1>3, FS_AddElement
<1>6. sent \in [N -> Packets]
      BY <1>2
<1> HIDE DEF sent
<1>7. sent \in Flights
      BY <1>5, <1>6, FlightBuilt
<1>8. QED BY <1>3, <1>4, <1>7 DEF sent

-----------------------------------------------------------------------------
(* The loop that writes packets.                                           *)

\* What no transmission changes.
SameCourse(q, old) ==
    /\ q.state = old.state /\ q.complete = old.complete
    /\ q.close_pending = old.close_pending /\ q.reason = old.reason
    /\ q.close_at = old.close_at

\* The packet takes the pings that wait, and their places are now in it.
LEMMA PingsMove ==
    ASSUME NEW q, NEW W, Tracked(q, W), q.complete, NEW p, p.pings = q.ping_pending,
           NEW number, number \notin DOMAIN q.sent,
           NEW r, r.complete, r.ping_pending = {},
           r.sent = [n \in DOMAIN q.sent \cup {number} |->
                        IF n = number THEN p ELSE q.sent[n]]
    PROVE  Tracked(r, W)
<1>1. /\ DOMAIN r.sent = DOMAIN q.sent \cup {number}
      /\ r.sent[number] = p
      /\ \A n \in DOMAIN q.sent : r.sent[n] = q.sent[n]
      OBVIOUS
<1>2. ASSUME NEW u \in Uids, OnePlace(q, u) PROVE OnePlace(r, u)
  <2>1. CASE u \in q.ping_pending
    <3>1. \A n \in DOMAIN q.sent : u \notin q.sent[n].pings
          BY <1>2, <2>1 DEF OnePlace
    <3>2. \A m \in DOMAIN r.sent : u \in r.sent[m].pings <=> m = number
          BY <1>1, <2>1, <3>1
    <3>3. QED BY <1>1, <3>2 DEF OnePlace
  <2>2. CASE u \notin q.ping_pending
    <3>1. PICK n \in DOMAIN q.sent :
              \A m \in DOMAIN q.sent : u \in q.sent[m].pings <=> m = n
          BY <1>2, <2>2 DEF OnePlace
    <3>2. \A m \in DOMAIN r.sent : u \in r.sent[m].pings <=> m = n
          BY <1>1, <2>2, <3>1
    <3>3. QED BY <1>1, <3>1, <3>2 DEF OnePlace
  <2>3. QED BY <2>1, <2>2
<1>3. ASSUME NEW u \in Uids, NoPlace(q, u) PROVE NoPlace(r, u)
      BY <1>1, <1>3 DEF NoPlace
<1>4. QED BY <1>2, <1>3 DEF Tracked

\* The pings are where they were when neither they nor the packets in flight change.
LEMMA PingsStay ==
    ASSUME NEW q, NEW W, Tracked(q, W), NEW r, r.sent = q.sent,
           r.ping_pending = q.ping_pending, r.complete = q.complete
    PROVE  Tracked(r, W)
BY DEF Tracked, OnePlace, NoPlace

\* Before turn k + 1 of the loop: it goes on, with turns left for the room and for an
\* acknowledgement, or it was left and what holds a frame back is set.
Writing(W, old, k, t) ==
    /\ t = Turn(t.q, t.room, t.more)
    /\ t.q \in Quic /\ t.room \in Nat /\ t.more \in BOOLEAN
    /\ SameCourse(t.q, old)
    /\ Tracked(t.q, W)
    /\ t.room = 0 => DOMAIN t.q.sent # {}
    /\ IF t.more
       THEN t.room + (IF t.q.ack_at <= 0 THEN 1 ELSE 0) + k <= MaxFlight(old) + 1
       ELSE Held(t.q)

\* A turn of the loop.
LEMMA TurnWrites ==
    ASSUME NEW W, NEW old \in Quic, old.complete, NEW k \in Nat, NEW t, Writing(W, old, k, t)
    PROVE  Writing(W, old, k + 1, WritePacket(t))
<1> DEFINE q == t.q
           paced == q.ack_at >= 0
           paced_q == IF paced THEN [q EXCEPT !.pacing_at = next_send_time(q)] ELSE q
           acknowledges == q.ack_at <= 0
           acknowledged == IF acknowledges THEN [paced_q EXCEPT !.ack_at = Never]
                           ELSE paced_q
           frames == q.ping_pending # {} \/ q.probe_pending \/ q.work > 0
           written == [acknowledged EXCEPT !.ping_pending = {}, !.probe_pending = FALSE,
                                           !.work = Max({@ - 1, 0})]
           next == WritePacket(t)
<1>1. /\ q \in Quic /\ t.room \in Nat /\ t.more \in BOOLEAN
      /\ SameCourse(q, old) /\ Tracked(q, W)
      /\ t.room = 0 => DOMAIN q.sent # {}
      BY DEF Writing
<1>2. q.ack_at \in Deadline /\ q.complete
      BY <1>1 DEF Quic, SameCourse
<1>3. /\ Never \in Nat /\ 1 < Never /\ Never \in Deadline
      /\ MaxFlight(old) \in Nat
      BY Bounds, RoomInWindow DEF Deadline
<1>4. CASE ~t.more
  <2>1. next = t
        BY <1>4 DEF WritePacket
  <2> HIDE DEF next
  <2>2. QED BY <1>4, <2>1 DEF Writing, next
<1>5. CASE t.more
  <2>1. t.room + (IF acknowledges THEN 1 ELSE 0) + k <= MaxFlight(old) + 1
        BY <1>5 DEF Writing
  <2>2. /\ paced_q \in Quic /\ SameCourse(paced_q, old) /\ Tracked(paced_q, W)
        /\ paced_q.sent = q.sent /\ paced_q.ping_pending = q.ping_pending
        /\ paced_q.probe_pending = q.probe_pending /\ paced_q.work = q.work
        /\ paced_q.ack_at = q.ack_at /\ paced_q.complete
    <3>1. next_send_time(q) \in Deadline
          BY <1>3, Bounds DEF next_send_time, Deadline
    <3>2. /\ paced_q \in Quic /\ SameCourse(paced_q, old)
          /\ paced_q.sent = q.sent /\ paced_q.ping_pending = q.ping_pending
          /\ paced_q.probe_pending = q.probe_pending /\ paced_q.work = q.work
          /\ paced_q.ack_at = q.ack_at /\ paced_q.complete = q.complete
      <4>1. CASE paced
        <5>1. paced_q = [q EXCEPT !.pacing_at = next_send_time(q)]
              BY <4>1
        <5> HIDE DEF paced_q, q
        <5>2. QED BY <1>1, <3>1, <5>1 DEF Quic, SameCourse
      <4>2. CASE ~paced
        <5>1. paced_q = q
              BY <4>2
        <5>2. QED BY <1>1, <5>1
      <4>3. QED BY <4>1, <4>2
    <3> HIDE DEF paced_q, q
    <3>3. Tracked(paced_q, W)
          BY <1>1, <3>2, PingsStay
    <3>4. QED BY <1>2, <3>2, <3>3
  <2> HIDE DEF paced_q
  <2>3. /\ acknowledged \in Quic /\ SameCourse(acknowledged, old)
        /\ Tracked(acknowledged, W)
        /\ acknowledged.sent = q.sent /\ acknowledged.ping_pending = q.ping_pending
        /\ acknowledged.probe_pending = q.probe_pending /\ acknowledged.work = q.work
        /\ acknowledged.complete /\ acknowledged.bucket \in Nat
        /\ ~(acknowledged.ack_at <= 0)
    <3>1. /\ acknowledged \in Quic /\ SameCourse(acknowledged, old)
          /\ acknowledged.sent = q.sent /\ acknowledged.ping_pending = q.ping_pending
          /\ acknowledged.probe_pending = q.probe_pending /\ acknowledged.work = q.work
          /\ acknowledged.complete /\ acknowledged.bucket \in Nat
          BY <1>3, <2>2 DEF Quic, SameCourse
    <3>2. ~(acknowledged.ack_at <= 0)
          BY <1>2, <1>3, <2>2 DEF Deadline, Quic
    <3> HIDE DEF acknowledged, q
    <3>3. Tracked(acknowledged, W)
          BY <2>2, <3>1, PingsStay
    <3>4. QED BY <3>1, <3>2, <3>3
  <2> HIDE DEF acknowledged
  <2>4. CASE paced /\ paced_q.pacing_at # Never
    <3>1. next = Turn(paced_q, t.room, FALSE)
          BY <1>5, <2>4 DEF WritePacket, paced_q
    <3> HIDE DEF next
    <3>2. /\ next.q = paced_q /\ next.room = t.room /\ next.more = FALSE
          /\ next = Turn(next.q, next.room, next.more)
          BY <3>1 DEF Turn
    <3>3. Held(paced_q)
          BY <2>4 DEF Held
    <3>4. QED BY <1>1, <2>2, <3>2, <3>3 DEF Writing, next
  <2>5. CASE ~(paced /\ paced_q.pacing_at # Never) /\ frames /\ t.room = 0
    <3>1. next = Turn(acknowledged, 0, FALSE)
          BY <1>5, <2>5 DEF WritePacket, paced_q, acknowledged
    <3> HIDE DEF next
    <3>2. /\ next.q = acknowledged /\ next.room = 0 /\ next.more = FALSE
          /\ next = Turn(next.q, next.room, next.more)
          BY <3>1 DEF Turn
    <3>3. Held(acknowledged)
      <4>1. DOMAIN acknowledged.sent # {}
            BY <1>1, <2>3, <2>5
      <4>2. QED BY <2>3, <4>1, LossTime DEF Held
    <3>4. QED BY <1>1, <2>3, <2>5, <3>2, <3>3 DEF Writing, next
  <2>6. CASE ~(paced /\ paced_q.pacing_at # Never) /\ frames /\ t.room # 0
    <3> DEFINE p == Packet(q)
               sending == on_packet_sent(written, p)
               r == update_after_send(sending)
    <3>1. next = Turn(r, t.room - 1, TRUE)
          BY <1>5, <2>6 DEF WritePacket, paced_q, acknowledged
    <3>2. /\ written \in Quic /\ SameCourse(written, old) /\ written.sent = q.sent
          /\ written.ping_pending = {} /\ written.complete /\ ~(written.ack_at <= 0)
      <4>1. acknowledged.work - 1 \in Int
            BY <2>3 DEF Quic
      <4> DEFINE w == acknowledged.work - 1
                 left == Max({w, 0})
      <4> HIDE DEF w
      <4>2. left = IF w >= 0 THEN w ELSE 0
            BY <4>1, MaxOfTwo DEF w
      <4>3. left \in Nat
            BY <4>1, <4>2 DEF w
      <4>4. written = [acknowledged EXCEPT !.ping_pending = {}, !.probe_pending = FALSE,
                                           !.work = left]
            BY DEF w
      <4> HIDE DEF left, written
      <4>5. QED BY <2>3, <4>3, <4>4 DEF Quic, SameCourse
    <3>3. p \in Packets /\ p.pings = q.ping_pending
          BY <1>1 DEF Packet, Packets, Quic
    <3> HIDE DEF written, p
    <3>4. PICK number \in Nat \ DOMAIN written.sent :
              LET sent == [n \in DOMAIN written.sent \cup {number} |->
                              IF n = number THEN p ELSE written.sent[n]]
              IN  /\ sent \in Flights
                  /\ sending = [written EXCEPT !.sent = sent, !.last_sent = 0]
          BY <3>2, <3>3, PacketIsSent
    <3> DEFINE sent == [n \in DOMAIN written.sent \cup {number} |->
                           IF n = number THEN p ELSE written.sent[n]]
    <3>5. sent \in Flights /\ sending = [written EXCEPT !.sent = sent, !.last_sent = 0]
          BY <3>4
    <3>6. DOMAIN sent # {}
          OBVIOUS
    <3> HIDE DEF sent, sending
    <3>7. /\ sending \in Quic /\ SameCourse(sending, old) /\ sending.sent = sent
          /\ sending.ping_pending = {} /\ sending.complete /\ ~(sending.ack_at <= 0)
          BY <3>2, <3>5 DEF Quic, SameCourse
    <3>8. /\ r \in Quic /\ SameCourse(r, old) /\ r.sent = sent
          /\ r.ping_pending = {} /\ r.complete /\ ~(r.ack_at <= 0)
      <4>1. sending.bucket - 1 \in Int
            BY <3>7 DEF Quic
      <4> DEFINE b == sending.bucket - 1
                 left == Max({b, 0})
      <4> HIDE DEF b
      <4>2. left = IF b >= 0 THEN b ELSE 0
            BY <4>1, MaxOfTwo DEF b
      <4>3. left \in Nat
            BY <4>1, <4>2 DEF b
      <4>4. r = [sending EXCEPT !.bucket = left]
            BY DEF update_after_send, b
      <4> HIDE DEF left, r
      <4>5. QED BY <3>7, <4>3, <4>4 DEF Quic, SameCourse
    <3> HIDE DEF r
    <3>9. Tracked(r, W)
      <4>1. number \notin DOMAIN q.sent
            BY <3>2, <3>4
      <4>2. sent = [n \in DOMAIN q.sent \cup {number} |-> IF n = number THEN p ELSE q.sent[n]]
            BY <3>2 DEF sent
      <4> HIDE DEF q
      <4>3. QED BY <1>1, <1>2, <3>3, <3>8, <4>1, <4>2, PingsMove
    <3> HIDE DEF next
    <3>10. /\ next.q = r /\ next.room = t.room - 1 /\ next.more = TRUE
           /\ next = Turn(next.q, next.room, next.more)
           BY <3>1 DEF Turn
    <3>11. next.room \in Nat /\ next.room + 0 + (k + 1) <= MaxFlight(old) + 1
           BY <1>1, <1>3, <2>1, <2>6, <3>10
    <3>12. QED BY <3>6, <3>8, <3>9, <3>10, <3>11 DEF Writing, next
  <2>7. CASE ~(paced /\ paced_q.pacing_at # Never) /\ ~frames /\ acknowledges
    <3> DEFINE r == update_after_send(acknowledged)
    <3>1. next = Turn(r, t.room, TRUE)
          BY <1>5, <2>7 DEF WritePacket, paced_q, acknowledged
    <3>2. /\ r \in Quic /\ SameCourse(r, old) /\ r.sent = q.sent
          /\ r.ping_pending = q.ping_pending /\ r.complete /\ ~(r.ack_at <= 0)
      <4>1. acknowledged.bucket - 1 \in Int
            BY <2>3
      <4> DEFINE b == acknowledged.bucket - 1
                 left == Max({b, 0})
      <4> HIDE DEF b
      <4>2. left = IF b >= 0 THEN b ELSE 0
            BY <4>1, MaxOfTwo DEF b
      <4>3. left \in Nat
            BY <4>1, <4>2 DEF b
      <4>4. r = [acknowledged EXCEPT !.bucket = left]
            BY DEF update_after_send, b
      <4> HIDE DEF left, r
      <4>5. QED BY <2>3, <4>3, <4>4 DEF Quic, SameCourse
    <3> HIDE DEF r, q
    <3>3. Tracked(r, W)
          BY <1>1, <1>2, <3>2, PingsStay
    <3> HIDE DEF next
    <3>4. /\ next.q = r /\ next.room = t.room /\ next.more = TRUE
          /\ next = Turn(next.q, next.room, next.more)
          BY <3>1 DEF Turn
    <3>5. next.room + 0 + (k + 1) <= MaxFlight(old) + 1
          BY <1>1, <1>3, <2>1, <2>7, <3>4
    <3>6. QED BY <1>1, <3>2, <3>3, <3>4, <3>5 DEF Writing, next
  <2>8. CASE ~(paced /\ paced_q.pacing_at # Never) /\ ~frames /\ ~acknowledges
    <3>1. next = Turn(paced_q, t.room, FALSE)
          BY <1>5, <2>8 DEF WritePacket, paced_q
    <3> HIDE DEF next
    <3>2. /\ next.q = paced_q /\ next.room = t.room /\ next.more = FALSE
          /\ next = Turn(next.q, next.room, next.more)
          BY <3>1 DEF Turn
    <3>3. Held(paced_q)
          BY <2>2, <2>8 DEF Held, Frames
    <3>4. QED BY <1>1, <2>2, <3>2, <3>3 DEF Writing, next
  <2>9. QED BY <2>4, <2>5, <2>6, <2>7, <2>8
<1>6. QED BY <1>1, <1>4, <1>5

\* The loop ends, with every ping in its place, and where a frame was held back.
LEMMA LoopWrites ==
    ASSUME NEW W, NEW q \in Quic, q.complete, Tracked(q, W)
    PROVE  LET after == _write_application(q)
           IN  after \in Quic /\ SameCourse(after, q) /\ Tracked(after, W) /\ Held(after)
<1> DEFINE n == MaxFlight(q) + 2
           Turns == [q : Quic, room : Nat, more : BOOLEAN]
           start == Turn(q, MaxFlight(q), TRUE)
           OK(k, t) == Writing(W, q, k, t)
           Next1(t) == IF WritePacket(t) \in Turns THEN WritePacket(t) ELSE t
           step == [p \in (1..n) \X Turns |-> Next1(p[2])]
           Is(f) == f = [i \in 0..n |-> IF i = 0 THEN start ELSE WritePacket(f[i - 1])]
<1>1. MaxFlight(q) \in Nat /\ (MaxFlight(q) = 0 => DOMAIN q.sent # {})
      BY RoomInWindow
<1>2. n \in Nat
      BY <1>1
<1>3. OK(0, start)
  <2>1. /\ start.q = q /\ start.room = MaxFlight(q) /\ start.more = TRUE
        /\ start = Turn(start.q, start.room, start.more)
        BY DEF Turn
  <2>2. SameCourse(q, q)
        BY DEF SameCourse
  <2> HIDE DEF start
  <2>3. start.room + (IF start.q.ack_at <= 0 THEN 1 ELSE 0) + 0 <= MaxFlight(q) + 1
        BY <1>1, <2>1
  <2>4. QED BY <1>1, <2>1, <2>2, <2>3 DEF Writing
<1>4. ASSUME NEW k \in Nat, NEW t, OK(k, t)
      PROVE  OK(k + 1, WritePacket(t)) /\ t \in Turns
  <2>1. OK(k + 1, WritePacket(t))
        BY <1>4, TurnWrites
  <2>2. t = [q |-> t.q, room |-> t.room, more |-> t.more]
        /\ t.q \in Quic /\ t.room \in Nat /\ t.more \in BOOLEAN
        BY <1>4 DEF Writing, Turn
  <2>3. t \in Turns
        BY <2>2
  <2>4. QED BY <2>1, <2>3
<1>5. start \in Turns
  <2> HIDE DEF OK, start, Turns
  <2> QED BY <1>3, <1>4
<1>6. step \in [(1..n) \X Turns -> Turns]
  <2>1. \A t \in Turns : Next1(t) \in Turns
    <3> HIDE DEF Turns
    <3> QED OBVIOUS
  <2> HIDE DEF Turns, Next1, n
  <2>2. QED BY <2>1
<1>7. PICK h \in [0..n -> Turns] :
          h[0] = start /\ \A i \in 1..n : h[i] = step[<<i, h[i - 1]>>]
  <2> HIDE DEF Turns, step, start, n
  <2>1. Walks(n, Turns, start, step) # {}
        BY <1>2, <1>5, <1>6, StepsExist
  <2>2. QED BY <2>1 DEF Walks
<1> DEFINE Good == {k \in 0..n : OK(k, h[k]) /\ (k # 0 => h[k] = WritePacket(h[k - 1]))}
<1>8. 0 \in Good
  <2> HIDE DEF OK, start
  <2> QED BY <1>2, <1>3, <1>7
<1>9. ASSUME NEW k \in 0..(n - 1), k \in Good PROVE k + 1 \in Good
  <2>1. k \in Nat /\ k + 1 \in 1..n /\ k + 1 \in 0..n /\ k \in 0..n /\ (k + 1) - 1 = k
        /\ k + 1 # 0 /\ k + 1 \in Nat
        BY <1>2
  <2> DEFINE P == WritePacket(h[k])
  <2>2. OK(k + 1, P) /\ h[k] \in Turns
    <3>1. OK(k, h[k])
          BY <1>9
    <3> HIDE DEF OK, Turns
    <3>2. QED BY <1>4, <2>1, <3>1
  <2>3. P \in Turns
    <3> HIDE DEF OK, P, Turns
    <3> QED BY <1>4, <2>1, <2>2
  <2>4. h[k + 1] = P
    <3>1. h[k + 1] = step[<<k + 1, h[k]>>]
          BY <1>7, <2>1
    <3>2. step[<<k + 1, h[k]>>] = Next1(h[k])
      <4> HIDE DEF Turns, Next1, n
      <4> QED BY <2>1, <2>2
    <3>3. Next1(h[k]) = P
      <4> HIDE DEF Turns
      <4> QED BY <2>3
    <3>4. QED BY <3>1, <3>2, <3>3
  <2> HIDE DEF P, OK
  <2>5. OK(k + 1, h[k + 1])
        BY <2>2, <2>4
  <2>6. h[k + 1] = WritePacket(h[(k + 1) - 1])
        BY <2>1, <2>4 DEF P
  <2>7. QED BY <2>1, <2>5, <2>6
<1>10. \A k \in 0..n : k \in Good
  <2> HIDE DEF Good, n
  <2> QED BY <1>2, <1>8, <1>9, InductionUpTo
<1>11. Is(h)
  <2>1. \A i \in 0..n : h[i] = IF i = 0 THEN start ELSE WritePacket(h[i - 1])
    <3> HIDE DEF OK, start, n
    <3> QED BY <1>7, <1>10
  <2> HIDE DEF start, n, Turns
  <2>2. QED BY <1>7, <2>1
<1>12. PICK f : Is(f) /\ _write_application(q) = f[n].q
  <2>1. _write_application(q) = (CHOOSE f : Is(f))[n].q
        BY DEF _write_application
  <2> HIDE DEF Is
  <2>2. Is(CHOOSE f : Is(f))
        BY <1>11
  <2>3. QED BY <2>1, <2>2
<1> DEFINE Fine == {k \in 0..n : OK(k, f[k])}
<1>13. \A i \in 0..n : f[i] = IF i = 0 THEN start ELSE WritePacket(f[i - 1])
  <2> HIDE DEF start, n
  <2> QED BY <1>12
<1>14. 0 \in Fine
  <2>1. 0 \in 0..n /\ f[0] = start
    <3> HIDE DEF start, n
    <3> QED BY <1>2, <1>13
  <2> HIDE DEF OK, start
  <2>2. QED BY <1>3, <2>1
<1>15. ASSUME NEW k \in 0..(n - 1), k \in Fine PROVE k + 1 \in Fine
  <2>1. k \in Nat /\ k + 1 \in 0..n /\ (k + 1) - 1 = k /\ k + 1 # 0
        BY <1>2
  <2>2. f[k + 1] = WritePacket(f[k])
    <3> HIDE DEF start, n
    <3> QED BY <1>13, <2>1
  <2>3. OK(k, f[k])
        BY <1>15
  <2> HIDE DEF OK
  <2>4. OK(k + 1, WritePacket(f[k]))
        BY <1>4, <2>1, <2>3
  <2>5. QED BY <2>1, <2>2, <2>4
<1>16. OK(n, f[n])
  <2>1. \A k \in 0..n : k \in Fine
    <3> HIDE DEF Fine, n
    <3> QED BY <1>2, <1>14, <1>15, InductionUpTo
  <2>2. n \in 0..n
        BY <1>2
  <2> HIDE DEF OK, n
  <2>3. QED BY <2>1, <2>2
<1> DEFINE last == f[n]
<1> HIDE DEF last
<1>17. Writing(W, q, n, last)
       BY <1>16 DEF last
<1>18. ~last.more
  <2>1. SUFFICES ASSUME last.more PROVE FALSE
        OBVIOUS
  <2>2. last.room \in Nat /\ last.room + (IF last.q.ack_at <= 0 THEN 1 ELSE 0) + n <= MaxFlight(q) + 1
        BY <1>17, <2>1 DEF Writing
  <2>3. last.room + 0 + n <= MaxFlight(q) + 1 \/ last.room + 1 + n <= MaxFlight(q) + 1
        BY <2>2
  <2>4. QED BY <1>1, <2>2, <2>3
<1>19. last.q \in Quic /\ SameCourse(last.q, q) /\ Tracked(last.q, W) /\ Held(last.q)
       BY <1>17, <1>18 DEF Writing
<1>20. QED BY <1>12, <1>19 DEF last

\* A packet of the handshake.
LEMMA HandshakeWrites ==
    ASSUME NEW W, NEW q \in Quic, ~q.complete, Tracked(q, W)
    PROVE  LET after == _write_handshake(q)
           IN  after \in Quic /\ SameCourse(after, q) /\ Tracked(after, W) /\ Held(after)
<1> DEFINE after == _write_handshake(q)
           cleared == [q EXCEPT !.crypto = FALSE, !.probe_pending = FALSE]
           p == [Packet(q) EXCEPT !.pings = {}]
<1>1. CASE ~((q.crypto \/ q.probe_pending) /\ MaxFlight(q) > 0)
  <2>1. after = q
        BY <1>1 DEF _write_handshake
  <2>2. SameCourse(q, q)
        BY DEF SameCourse
  <2>3. Held(q)
        BY LossTime DEF Held
  <2>4. QED BY <2>1, <2>2, <2>3
<1>2. CASE (q.crypto \/ q.probe_pending) /\ MaxFlight(q) > 0
  <2>1. after = on_packet_sent(cleared, p)
        BY <1>2 DEF _write_handshake
  <2>2. p \in Packets /\ p.pings = {}
        BY DEF Packet, Packets, Quic
  <2>3. /\ cleared \in Quic /\ cleared.sent = q.sent /\ SameCourse(cleared, q)
        /\ cleared.ping_pending = q.ping_pending /\ ~cleared.complete
        BY DEF Quic, SameCourse
  <2> HIDE DEF cleared, p, after
  <2>4. PICK number \in Nat \ DOMAIN cleared.sent :
            LET sent == [n \in DOMAIN cleared.sent \cup {number} |->
                            IF n = number THEN p ELSE cleared.sent[n]]
            IN  /\ sent \in Flights
                /\ on_packet_sent(cleared, p) = [cleared EXCEPT !.sent = sent, !.last_sent = 0]
        BY <2>2, <2>3, PacketIsSent
  <2> DEFINE sent == [n \in DOMAIN cleared.sent \cup {number} |->
                         IF n = number THEN p ELSE cleared.sent[n]]
  <2>5. sent \in Flights /\ after = [cleared EXCEPT !.sent = sent, !.last_sent = 0]
        BY <2>1, <2>4
  <2>6. /\ DOMAIN sent = DOMAIN q.sent \cup {number} /\ number \notin DOMAIN q.sent
        /\ sent[number].pings = {}
        /\ \A n \in DOMAIN q.sent : sent[n] = q.sent[n]
        BY <2>2, <2>3, <2>4
  <2> HIDE DEF sent
  <2>7. /\ after \in Quic /\ SameCourse(after, q) /\ after.sent = sent
        /\ after.ping_pending = q.ping_pending /\ ~after.complete
        BY <2>3, <2>5 DEF Quic, SameCourse
  <2>8. Tracked(after, W)
    <3>1. \A n \in DOMAIN after.sent : after.sent[n].pings = {}
          BY <2>6, <2>7 DEF Tracked
    <3>2. \A n \in DOMAIN q.sent : q.sent[n].pings = {}
          BY DEF Tracked
    <3>3. ASSUME NEW u \in Uids PROVE OnePlace(q, u) => OnePlace(after, u)
          BY <2>7, <3>1, <3>2 DEF OnePlace
    <3>4. ASSUME NEW u \in Uids PROVE NoPlace(q, u) => NoPlace(after, u)
          BY <2>7, <3>1 DEF NoPlace
    <3>5. QED BY <3>1, <3>3, <3>4 DEF Tracked
  <2>9. Held(after)
        BY <2>7, LossTime DEF Held
  <2>10. QED BY <2>7, <2>8, <2>9 DEF after
<1>3. QED BY <1>1, <1>2

\* What a closing connection keeps.
LEMMA ClosingIsOver ==
    ASSUME NEW q \in Quic, NEW state \in END_STATES
    PROVE  _close_begin(q, state) \in Quic /\ Over(_close_begin(q, state))
<1>1. Never \in Deadline /\ Closing \in Deadline /\ 0 \in 0..MaxBackoff
      BY Bounds DEF Deadline
<1> DEFINE f == Forgotten(q)
<1>2. f \in Quic
      BY <1>1, NothingInFlight DEF Forgotten, Quic
<1> HIDE DEF f
<1>3. QED BY <1>1, <1>2 DEF _close_begin, f, Quic, Over

-----------------------------------------------------------------------------
(* Transmissions.                                                          *)

\* What a transmission of a connection that can send leaves of it.
LEMMA Sends ==
    ASSUME NEW W, NEW q \in Quic, ~Over(q), Tracked(q, W), ~Unsendable(q)
    PROVE  LET after == datagrams_to_send(q)
           IN  /\ after \in Quic
               /\ \/ Over(after)
                  \/ ~after.close_pending /\ SameCourse(after, q) /\ Tracked(after, W)
                     /\ Held(after)
<1> DEFINE closed == [q EXCEPT !.close_pending = FALSE]
<1>1. CASE q.close_pending
  <2>1. datagrams_to_send(q) = _close_begin(closed, "CLOSING")
        BY <1>1 DEF datagrams_to_send, Over
  <2>2. closed \in Quic /\ "CLOSING" \in END_STATES
        BY DEF Quic, END_STATES
  <2> HIDE DEF closed
  <2>3. QED BY <2>1, <2>2, ClosingIsOver
<1>2. CASE ~q.close_pending /\ q.complete
  <2>1. datagrams_to_send(q) = _write_application(q)
        BY <1>2 DEF datagrams_to_send, Over
  <2>2. LET after == _write_application(q)
        IN  after \in Quic /\ SameCourse(after, q) /\ Tracked(after, W) /\ Held(after)
        BY <1>2, LoopWrites
  <2>3. QED BY <1>2, <2>1, <2>2 DEF SameCourse
<1>3. CASE ~q.close_pending /\ ~q.complete
  <2>1. datagrams_to_send(q) = _write_handshake(q)
        BY <1>3 DEF datagrams_to_send, Over
  <2>2. LET after == _write_handshake(q)
        IN  after \in Quic /\ SameCourse(after, q) /\ Tracked(after, W) /\ Held(after)
        BY <1>3, HandshakeWrites
  <2>3. QED BY <1>3, <2>1, <2>2 DEF SameCourse
<1>4. QED BY <1>1, <1>2, <1>3

\* That the connection was started, and what a transmission starts from.
Up(q) == q.close_at # Never \/ q.state # "FIRSTFLIGHT"

Calls(q, p) ==
    /\ q \in Quic /\ p \in Protocol
    /\ Up(q)
    /\ ~Over(q) => Tracked(q, p.waiters)
    /\ p.waiters \cap Uids \subseteq p.used

\* A transmission restores the invariant, whatever was done before it.
LEMMA Transmits ==
    ASSUME NEW q, NEW p, Calls(q, p), transmit(q, p)
    PROVE  IInv'
<1> DEFINE cleared == [p EXCEPT !.transmit_task = FALSE]
           after == datagrams_to_send(q)
<1>1. q \in Quic /\ p \in Protocol /\ Up(q) /\ p.waiters \cap Uids \subseteq p.used
      BY DEF Calls
<1>2. CASE ~Over(q) /\ Unsendable(q)
  <2>1. quic' = q /\ protocol' = cleared
        BY <1>2 DEF transmit, Over
  <2>2. /\ protocol' \in Protocol /\ protocol'.waiters = p.waiters
        /\ protocol'.used = p.used /\ ~protocol'.transmit_task
        BY <1>1, <2>1 DEF Protocol
  <2>3. Connected'
        BY <1>1, <2>1 DEF Connected, Up
  <2>4. Tracked(quic', protocol'.waiters) /\ CloseGoesOut(quic')
        BY <1>2, <2>1, <2>2 DEF Calls, CloseGoesOut
  <2>5. Unsendable(quic')
        BY <1>2, <2>1
  <2> HIDE DEF cleared
  <2>6. QED BY <1>1, <2>1, <2>2, <2>3, <2>4, <2>5 DEF IInv, Going
<1>3. CASE Over(q)
  <2>1. after = q
        BY <1>3 DEF datagrams_to_send, Over
  <2>2. quic' = q /\ protocol' = [cleared EXCEPT !.timer = get_timer(q)]
        BY <1>3, <2>1 DEF transmit, Over
  <2>3. get_timer(q) \in Deadline
        BY <1>1, TimerArms
  <2>4. /\ protocol' \in Protocol /\ protocol'.waiters = p.waiters
        /\ protocol'.used = p.used /\ ~protocol'.transmit_task
        BY <1>1, <2>2, <2>3 DEF Protocol
  <2>5. Connected' /\ Ended'
        BY <1>1, <1>3, <2>2 DEF Connected, Up, Over, Ended
  <2>6. QED BY <1>1, <2>2, <2>4, <2>5 DEF IInv
<1>4. CASE ~Over(q) /\ ~Unsendable(q)
  <2>1. Tracked(q, p.waiters)
        BY <1>4 DEF Calls
  <2>2. /\ after \in Quic
        /\ \/ Over(after)
           \/ ~after.close_pending /\ SameCourse(after, q) /\ Tracked(after, p.waiters)
              /\ Held(after)
        BY <1>1, <1>4, <2>1, Sends
  <2> HIDE DEF after
  <2>3. /\ quic' = IF Over(after) THEN after
                   ELSE [after EXCEPT !.loss_at = get_loss_detection_time(after)]
        /\ protocol' = [cleared EXCEPT !.timer = get_timer(after)]
        BY <1>4 DEF transmit, Over, after
  <2>4. /\ get_timer(after) \in Deadline /\ get_loss_detection_time(after) \in Deadline
        /\ ~Over(after) => Armed(after, get_timer(after))
        BY <2>2, TimerArms, LossTime
  <2>5. /\ protocol' \in Protocol /\ protocol'.waiters = p.waiters
        /\ protocol'.used = p.used /\ ~protocol'.transmit_task
        /\ protocol'.timer = get_timer(after)
        BY <1>1, <2>3, <2>4 DEF Protocol
  <2>6. CASE Over(after)
    <3>1. quic' = after /\ Connected' /\ Ended'
          BY <2>3, <2>6 DEF Connected, Over, Ended, END_STATES
    <3>2. QED BY <1>1, <2>2, <2>5, <3>1 DEF IInv
  <2>7. CASE ~Over(after)
    <3>1. quic' = [after EXCEPT !.loss_at = get_loss_detection_time(after)]
          BY <2>3, <2>7
    <3>2. /\ quic' \in Quic /\ SameCourse(quic', q) /\ ~quic'.close_pending
          /\ quic'.sent = after.sent /\ quic'.ping_pending = after.ping_pending
          /\ quic'.complete = after.complete /\ quic'.loss_time = after.loss_time
          /\ quic'.pto_count = after.pto_count /\ quic'.last_sent = after.last_sent
          /\ quic'.pacing_at = after.pacing_at /\ quic'.probe_pending = after.probe_pending
          /\ quic'.work = after.work /\ quic'.crypto = after.crypto
          BY <2>2, <2>4, <2>7, <3>1 DEF Quic, SameCourse
    <3>3. Tracked(quic', protocol'.waiters)
          BY <2>2, <2>5, <2>7, <3>2, PingsStay
    <3>4. get_loss_detection_time(quic') = get_loss_detection_time(after)
          BY <3>2 DEF get_loss_detection_time
    <3>5. Held(quic')
          BY <2>2, <2>7, <3>2, <3>4 DEF Held, Frames
    <3>6. Armed(quic', protocol'.timer)
          BY <2>4, <2>5, <2>7, <3>2, <3>4 DEF Armed
    <3>7. Connected'
          BY <1>1, <3>2 DEF Connected, Up, SameCourse
    <3>8. CloseGoesOut(quic')
          BY <3>2 DEF CloseGoesOut
    <3>9. QED BY <1>1, <2>5, <3>2, <3>3, <3>5, <3>6, <3>7, <3>8 DEF IInv, Going
  <2>8. QED BY <2>6, <2>7
<1>5. QED BY <1>2, <1>3, <1>4

-----------------------------------------------------------------------------
(* Losses and acknowledgements.                                            *)

\* The pings of packets that are lost are to be sent again.
LEMMA LossTracked ==
    ASSUME NEW W, NEW q \in Quic, NEW lost \in SUBSET DOMAIN q.sent
    PROVE  LET r == _on_packets_lost(q, lost)
           IN  /\ r \in Quic /\ SameCourse(r, q)
               /\ Tracked(q, W) => Tracked(r, W)
<1> DEFINE r == _on_packets_lost(q, lost)
           sent == Remaining(q, lost)
           pings == q.ping_pending \cup UNION {q.sent[n].pings : n \in lost}
           crypto == q.crypto \/ \E n \in lost : q.sent[n].crypto
<1>1. /\ sent \in Flights /\ DOMAIN sent = DOMAIN q.sent \ lost
      /\ \A n \in DOMAIN q.sent \ lost : sent[n] = q.sent[n]
      BY FlightRemains
<1>2. q.sent \in Flights /\ q.ping_pending \in SUBSET Uids
      BY DEF Quic
<1>3. \A n \in DOMAIN q.sent : q.sent[n].pings \in SUBSET Uids
      BY <1>2, FlightFacts DEF Packets
<1>4. pings \in SUBSET Uids /\ crypto \in BOOLEAN
  <2>1. crypto \in BOOLEAN
        BY DEF Quic
  <2>2. pings \in SUBSET Uids
        BY <1>2, <1>3
  <2>3. QED BY <2>1, <2>2
<1>5. r = [q EXCEPT !.sent = sent, !.crypto = crypto, !.ping_pending = pings]
      BY DEF _on_packets_lost
<1>6. \A u : u \in pings <=> u \in q.ping_pending \/ \E n \in lost : u \in q.sent[n].pings
      OBVIOUS
<1> HIDE DEF sent, pings, crypto, r
<1>7. /\ r \in Quic /\ SameCourse(r, q) /\ r.sent = sent /\ r.ping_pending = pings
      /\ r.complete = q.complete
      BY <1>1, <1>4, <1>5 DEF Quic, SameCourse
<1>8. ASSUME Tracked(q, W) PROVE Tracked(r, W)
  <2>1. ASSUME NEW u \in Uids, OnePlace(q, u) PROVE OnePlace(r, u)
    <3>1. CASE u \in q.ping_pending
          BY <1>1, <1>6, <1>7, <2>1, <3>1 DEF OnePlace
    <3>2. CASE u \notin q.ping_pending
      <4>1. PICK n \in DOMAIN q.sent :
                \A m \in DOMAIN q.sent : u \in q.sent[m].pings <=> m = n
            BY <2>1, <3>2 DEF OnePlace
      <4>2. CASE n \in lost
            BY <1>1, <1>6, <1>7, <4>1, <4>2 DEF OnePlace
      <4>3. CASE n \notin lost
        <5>1. u \notin pings
              BY <1>6, <3>2, <4>1, <4>3
        <5>2. n \in DOMAIN r.sent /\ \A m \in DOMAIN r.sent : u \in r.sent[m].pings <=> m = n
              BY <1>1, <1>7, <4>1, <4>3
        <5>3. QED BY <1>7, <5>1, <5>2 DEF OnePlace
      <4>4. QED BY <4>2, <4>3
    <3>3. QED BY <3>1, <3>2
  <2>2. ASSUME NEW u \in Uids, NoPlace(q, u) PROVE NoPlace(r, u)
        BY <1>1, <1>6, <1>7, <2>2 DEF NoPlace
  <2>3. ~q.complete => \A n \in DOMAIN r.sent : r.sent[n].pings = {}
        BY <1>1, <1>7, <1>8 DEF Tracked
  <2>4. QED BY <1>7, <1>8, <2>1, <2>2, <2>3 DEF Tracked
<1>9. QED BY <1>7, <1>8 DEF r

\* Overtaken packets are lost.
LEMMA DetectTracked ==
    ASSUME NEW W, NEW q \in Quic
    PROVE  LET r == _detect_loss(q)
           IN  /\ r \in Quic /\ SameCourse(r, q)
               /\ Tracked(q, W) => Tracked(r, W)
<1> DEFINE lost == {n \in DOMAIN q.sent : q.sent[n].overtaken}
           l == _on_packets_lost(q, lost)
           r == _detect_loss(q)
<1>1. lost \in SUBSET DOMAIN q.sent
      OBVIOUS
<1>2. r = [l EXCEPT !.loss_time = Never]
      BY DEF _detect_loss
<1> HIDE DEF lost
<1>3. l \in Quic /\ SameCourse(l, q) /\ (Tracked(q, W) => Tracked(l, W))
      BY <1>1, LossTracked
<1> HIDE DEF l, r
<1>4. Never \in Deadline
      BY Bounds DEF Deadline
<1>5. /\ r \in Quic /\ SameCourse(r, q) /\ r.sent = l.sent
      /\ r.ping_pending = l.ping_pending /\ r.complete = l.complete
      BY <1>2, <1>3, <1>4 DEF Quic, SameCourse
<1>6. Tracked(q, W) => Tracked(r, W)
      BY <1>3, <1>5, PingsStay
<1>7. QED BY <1>5, <1>6 DEF r

\* And so are those of the handshake when a probe is due.
LEMMA RescheduleTracked ==
    ASSUME NEW W, NEW q \in Quic
    PROVE  LET r == reschedule_data(q)
           IN  /\ r \in Quic /\ SameCourse(r, q)
               /\ Tracked(q, W) => Tracked(r, W)
<1> DEFINE lost == {n \in DOMAIN q.sent : q.sent[n].crypto}
           l == _on_packets_lost(q, lost)
           r == reschedule_data(q)
<1>1. lost \in SUBSET DOMAIN q.sent
      OBVIOUS
<1>2. r = [l EXCEPT !.probe_pending = TRUE]
      BY DEF reschedule_data
<1> HIDE DEF lost
<1>3. l \in Quic /\ SameCourse(l, q) /\ (Tracked(q, W) => Tracked(l, W))
      BY <1>1, LossTracked
<1> HIDE DEF l, r
<1>4. /\ r \in Quic /\ SameCourse(r, q) /\ r.sent = l.sent
      /\ r.ping_pending = l.ping_pending /\ r.complete = l.complete
      BY <1>2, <1>3 DEF Quic, SameCourse
<1>5. Tracked(q, W) => Tracked(r, W)
      BY <1>3, <1>4, PingsStay
<1>6. QED BY <1>4, <1>5 DEF r

\* The timer of the recovery loses no ping.
LEMMA TimeoutTracked ==
    ASSUME NEW W, NEW q \in Quic
    PROVE  LET r == on_loss_detection_timeout(q)
           IN  /\ r \in Quic /\ SameCourse(r, q)
               /\ Tracked(q, W) => Tracked(r, W)
<1> DEFINE r == on_loss_detection_timeout(q)
           count == Min({q.pto_count + 1, MaxBackoff})
           more == [q EXCEPT !.pto_count = count]
<1>1. CASE q.loss_time # Never
  <2>1. r = _detect_loss(q)
        BY <1>1 DEF on_loss_detection_timeout
  <2>2. QED BY <2>1, DetectTracked
<1>2. CASE q.loss_time = Never
  <2>1. r = reschedule_data(more)
        BY <1>2 DEF on_loss_detection_timeout
  <2>2. count \in 0..MaxBackoff
    <3> DEFINE a == q.pto_count + 1
    <3>1. a \in Nat /\ MaxBackoff \in Nat
          BY Bounds DEF Quic
    <3> HIDE DEF a
    <3>2. Min({a, MaxBackoff}) = IF a <= MaxBackoff THEN a ELSE MaxBackoff
          BY <3>1, MinOfTwo
    <3>3. QED BY <3>1, <3>2 DEF a
  <2> HIDE DEF count
  <2>3. /\ more \in Quic /\ SameCourse(more, q) /\ more.sent = q.sent
        /\ more.ping_pending = q.ping_pending /\ more.complete = q.complete
        BY <2>2 DEF Quic, SameCourse
  <2> HIDE DEF more, r
  <2>4. Tracked(q, W) => Tracked(more, W)
        BY <2>3, PingsStay
  <2>5. r \in Quic /\ SameCourse(r, more) /\ (Tracked(more, W) => Tracked(r, W))
        BY <2>1, <2>3, RescheduleTracked
  <2>6. SameCourse(r, q)
        BY <2>3, <2>5 DEF SameCourse
  <2>7. QED BY <2>4, <2>5, <2>6 DEF r
<1>3. QED BY <1>1, <1>2

\* An acknowledgement takes away the pings that it answers, and no others.
LEMMA AckTracked ==
    ASSUME NEW W, NEW q \in Quic, Tracked(q, W), q.complete,
           NEW acked \in SUBSET DOMAIN q.sent, NEW far \in BOOLEAN, NEW w \in Windows
    PROVE  LET r == on_ack_received(q, acked, far, w)
               answered == UNION {q.sent[n].pings : n \in acked}
           IN  r \in Quic /\ SameCourse(r, q) /\ Tracked(r, W \ answered)
<1> DEFINE rest == DOMAIN q.sent \ acked
           late == {n \in rest : q.sent[n].overtaken \/ n < Max(acked)}
           sent == [n \in rest |-> [q.sent[n] EXCEPT !.overtaken = n \in late]]
           seen == [q EXCEPT !.sent = sent, !.pto_count = 0, !.window = w,
                             !.packet_time = TRUE,
                             !.bucket = IF q.packet_time THEN @ ELSE MaxBucket,
                             !.loss_time = IF late # {} THEN 1 ELSE Never]
           answered == UNION {q.sent[n].pings : n \in acked}
           V == W \ answered
           r == on_ack_received(q, acked, far, w)
<1>1. r = IF far THEN _detect_loss(seen) ELSE seen
      BY DEF on_ack_received
<1>2. q.sent \in Flights
      BY DEF Quic
<1>3. /\ DOMAIN q.sent \in SUBSET Nat /\ IsFiniteSet(DOMAIN q.sent)
      /\ \A n \in DOMAIN q.sent : q.sent[n] \in Packets
      BY <1>2, FlightFacts
<1>4. rest \in SUBSET Nat /\ IsFiniteSet(rest)
      BY <1>3, FS_Difference
<1> HIDE DEF late
<1>5. \A n \in rest : /\ sent[n] \in Packets
                      /\ sent[n].pings = q.sent[n].pings
  <2> SUFFICES ASSUME NEW n \in rest
               PROVE  sent[n] \in Packets /\ sent[n].pings = q.sent[n].pings
      OBVIOUS
  <2> DEFINE p == q.sent[n]
             b == n \in late
  <2>1. p \in Packets /\ b \in BOOLEAN
        BY <1>3
  <2>2. sent[n] = [p EXCEPT !.overtaken = b]
        OBVIOUS
  <2> HIDE DEF b, p
  <2>3. [p EXCEPT !.overtaken = b] \in Packets /\ [p EXCEPT !.overtaken = b].pings = p.pings
        BY <2>1 DEF Packets
  <2> HIDE DEF sent
  <2>4. QED BY <2>2, <2>3 DEF p
<1>6. sent \in Flights /\ DOMAIN sent = rest
  <2>1. sent \in [rest -> Packets]
        BY <1>5
  <2> HIDE DEF sent, rest
  <2>2. QED BY <1>4, <2>1, FlightBuilt
<1> HIDE DEF sent
<1>7. /\ seen \in Quic /\ SameCourse(seen, q) /\ seen.sent = sent
      /\ seen.ping_pending = q.ping_pending /\ seen.complete
  <2>1. Never \in Deadline /\ 1 \in Deadline /\ 0 \in 0..MaxBackoff /\ MaxBucket \in Nat
        BY Bounds DEF Deadline
  <2> HIDE DEF rest
  <2>2. QED BY <1>6, <2>1 DEF Quic, SameCourse
<1> HIDE DEF seen
<1>8. \A u : u \in answered <=> \E n \in acked : u \in q.sent[n].pings
      OBVIOUS
<1> HIDE DEF answered
<1>9. Tracked(seen, V)
  <2>1. ASSUME NEW u \in Uids, u \in W, u \notin answered PROVE OnePlace(seen, u)
    <3>1. OnePlace(q, u)
          BY <2>1 DEF Tracked
    <3>2. CASE u \in q.ping_pending
          BY <1>5, <1>6, <1>7, <3>1, <3>2 DEF OnePlace
    <3>3. CASE u \notin q.ping_pending
      <4>1. PICK n \in DOMAIN q.sent :
                \A m \in DOMAIN q.sent : u \in q.sent[m].pings <=> m = n
            BY <3>1, <3>3 DEF OnePlace
      <4>2. n \in rest
            BY <1>8, <2>1, <4>1
      <4>3. \A m \in rest : u \in sent[m].pings <=> m = n
            BY <1>5, <4>1
      <4>4. QED BY <1>6, <1>7, <3>3, <4>2, <4>3 DEF OnePlace
    <3>4. QED BY <3>2, <3>3
  <2>2. ASSUME NEW u \in Uids, u \notin W PROVE NoPlace(seen, u)
    <3>1. NoPlace(q, u)
          BY <2>2 DEF Tracked
    <3>2. QED BY <1>5, <1>6, <1>7, <3>1 DEF NoPlace
  <2>3. ASSUME NEW u \in Uids, u \in W, u \in answered PROVE NoPlace(seen, u)
    <3>1. OnePlace(q, u)
          BY <2>3 DEF Tracked
    <3>2. PICK n \in acked : u \in q.sent[n].pings
          BY <1>8, <2>3
    <3>3. u \notin q.ping_pending /\ \A m \in DOMAIN q.sent : u \in q.sent[m].pings => m = n
          BY <3>1, <3>2 DEF OnePlace
    <3>4. QED BY <1>5, <1>6, <1>7, <3>2, <3>3 DEF NoPlace
  <2>4. QED BY <1>7, <2>1, <2>2, <2>3 DEF Tracked
<1> HIDE DEF V, r
<1>10. r \in Quic /\ SameCourse(r, q) /\ Tracked(r, V)
  <2>1. CASE ~far
        BY <1>1, <1>7, <1>9, <2>1
  <2>2. CASE far
    <3>1. r \in Quic /\ SameCourse(r, seen) /\ Tracked(r, V)
          BY <1>1, <1>7, <1>9, <2>2, DetectTracked
    <3>2. SameCourse(r, q)
          BY <1>7, <3>1 DEF SameCourse
    <3>3. QED BY <3>1, <3>2
  <2>3. QED BY <2>1, <2>2
<1>11. QED BY <1>10 DEF r, V, answered

-----------------------------------------------------------------------------
(* The steps.                                                              *)

\* At the start nothing waits and nothing is set.
LEMMA InitInv == Init => IInv
<1> SUFFICES ASSUME Init PROVE IInv
    OBVIOUS
<1>1. Never \in Deadline /\ 0 \in 0..MaxBackoff
      BY Bounds DEF Deadline
<1>2. quic \in Quic
      BY <1>1, NothingInFlight DEF Init, Quic
<1>3. protocol \in Protocol
      BY <1>1 DEF Init, Protocol
<1>4. ~Connected /\ ~Ended
      BY DEF Init, Connected, Ended, END_STATES
<1>5. Tracked(quic, protocol.waiters)
      BY NothingInFlight DEF Init, Tracked, NoPlace
<1>6. CloseGoesOut(quic)
      BY DEF Init, CloseGoesOut
<1>7. protocol.waiters \cap Uids \subseteq protocol.used /\ ~protocol.transmit_task
      /\ protocol.soon = 0 /\ protocol.timer = Never
      BY DEF Init
<1>8. QED BY <1>2, <1>3, <1>4, <1>5, <1>6, <1>7 DEF IInv

\* The invariant at the beginning of a step, in the terms of the lemmas.
LEMMA InvFacts ==
    ASSUME IInv
    PROVE  /\ quic \in Quic /\ protocol \in Protocol
           /\ protocol.waiters \cap Uids \subseteq protocol.used
           /\ Connected <=> Up(quic)
           /\ Ended <=> Over(quic)
           /\ ~Over(quic) => Tracked(quic, protocol.waiters) /\ CloseGoesOut(quic)
           /\ protocol.soon # 0 \/ protocol.timer # Never => Connected
BY DEF IInv, Connected, Up, Ended, Over

\* Whatever else a coroutine waits for is not a ping.
LEMMA OtherNames == "connected" \notin Uids /\ "reader" \notin Uids
BY UidsAssumption

\* What waits for a ping is all that counts.
LEMMA SameWaiters ==
    ASSUME NEW q, NEW W, NEW V, Tracked(q, W), W \cap Uids = V \cap Uids
    PROVE  Tracked(q, V)
<1>1. \A u \in Uids : u \in W <=> u \in V
      OBVIOUS
<1>2. QED BY <1>1 DEF Tracked

\* The end of the idle time is a deadline.
LEMMA IdleTime == Max({Idle, Closing}) \in Deadline /\ Max({Idle, Closing}) # Never
<1>1. Idle \in Nat /\ Closing \in Nat /\ Idle < Never /\ Closing < Never /\ Never \in Nat
      BY Bounds
<1>2. Max({Idle, Closing}) = IF Idle >= Closing THEN Idle ELSE Closing
      BY <1>1, MaxOfTwo
<1>3. QED BY <1>1, <1>2 DEF Deadline

\* connect()
LEMMA ConnectInv ==
    ASSUME IInv, NEW waits \in BOOLEAN, connect(waits)
    PROVE  IInv'
<1> DEFINE idle == Max({Idle, Closing})
           q == [quic EXCEPT !.close_at = idle, !.crypto = TRUE]
           p == IF waits THEN [protocol EXCEPT !.waiters = @ \cup {"connected"}]
                ELSE protocol
<1>1. /\ quic \in Quic /\ protocol \in Protocol
      /\ protocol.waiters \cap Uids \subseteq protocol.used
      /\ ~Over(quic) => Tracked(quic, protocol.waiters)
      BY InvFacts
<1>2. idle \in Deadline /\ idle # Never
      BY IdleTime
<1>3. transmit(q, p)
      BY DEF connect
<1> HIDE DEF idle
<1>4. /\ q \in Quic /\ Up(q) /\ q.state = quic.state /\ q.complete = quic.complete
      /\ q.sent = quic.sent /\ q.ping_pending = quic.ping_pending
      BY <1>1, <1>2 DEF Quic, Up
<1>5. /\ p \in Protocol /\ p.waiters \cap Uids = protocol.waiters \cap Uids
      /\ p.used = protocol.used
      BY <1>1, OtherNames DEF Protocol, Names
<1> HIDE DEF q, p
<1>6. ~Over(q) => Tracked(q, p.waiters)
  <2>1. SUFFICES ASSUME ~Over(q) PROVE Tracked(q, p.waiters)
        OBVIOUS
  <2>2. Tracked(quic, protocol.waiters)
        BY <1>1, <1>4, <2>1 DEF Over
  <2>3. Tracked(q, protocol.waiters)
        BY <1>4, <2>2, PingsStay
  <2>4. QED BY <1>5, <2>3, SameWaiters
<1>7. Calls(q, p)
      BY <1>1, <1>4, <1>5, <1>6 DEF Calls
<1>8. QED BY <1>3, <1>7, Transmits

\* Only a coroutine that is no ping starts to wait.
LEMMA WaitInv ==
    ASSUME IInv, quic' = quic, Connected, NEW name \in {"connected", "reader"},
           protocol' \in Protocol, protocol'.waiters = protocol.waiters \cup {name},
           protocol.used \subseteq protocol'.used, protocol'.soon = protocol.soon,
           protocol'.timer = protocol.timer,
           protocol'.transmit_task = protocol.transmit_task
    PROVE  IInv'
<1>1. protocol'.waiters \cap Uids = protocol.waiters \cap Uids
      BY OtherNames
<1>2. Connected' /\ (Ended' <=> Ended)
      BY DEF Connected, Ended
<1>3. Tracked(quic, protocol.waiters) => Tracked(quic, protocol'.waiters)
      BY <1>1, SameWaiters
<1>4. QED BY <1>1, <1>2, <1>3 DEF IInv, Going

\* wait_connected()
LEMMA WaitConnectedInv == ASSUME IInv, wait_connected PROVE IInv'
<1>1. protocol \in Protocol
      BY InvFacts
<1>2. Connected /\ quic' = quic
      /\ protocol' = [protocol EXCEPT !.waiters = @ \cup {"connected"}]
      BY DEF wait_connected
<1>3. /\ protocol' \in Protocol /\ protocol'.waiters = protocol.waiters \cup {"connected"}
      /\ protocol'.used = protocol.used /\ protocol'.soon = protocol.soon
      /\ protocol'.timer = protocol.timer /\ protocol'.transmit_task = protocol.transmit_task
      BY <1>1, <1>2 DEF Protocol, Names
<1>4. QED BY <1>2, <1>3, WaitInv

\* create_stream()
LEMMA CreateStreamInv == ASSUME IInv, create_stream PROVE IInv'
<1>1. protocol \in Protocol
      BY InvFacts
<1>2. Connected /\ quic' = quic
      /\ protocol' = [protocol EXCEPT !.waiters = @ \cup {"reader"}, !.used = @ \cup {"reader"}]
      BY DEF create_stream
<1>3. /\ protocol' \in Protocol /\ protocol'.waiters = protocol.waiters \cup {"reader"}
      /\ protocol.used \subseteq protocol'.used /\ protocol'.soon = protocol.soon
      /\ protocol'.timer = protocol.timer /\ protocol'.transmit_task = protocol.transmit_task
      BY <1>1, <1>2 DEF Protocol, Names
<1>4. QED BY <1>2, <1>3, WaitInv

\* ping()
LEMMA PingInv == ASSUME IInv, NEW u \in Uids, ping(u) PROVE IInv'
<1> DEFINE q == [quic EXCEPT !.ping_pending = @ \cup {u}]
           p == [protocol EXCEPT !.waiters = @ \cup {u}, !.used = @ \cup {u}]
<1>1. /\ quic \in Quic /\ protocol \in Protocol /\ Up(quic)
      /\ protocol.waiters \cap Uids \subseteq protocol.used
      /\ ~Over(quic) => Tracked(quic, protocol.waiters)
      BY InvFacts DEF ping
<1>2. transmit(q, p) /\ u \notin protocol.used
      BY DEF ping
<1>3. /\ q \in Quic /\ Up(q) /\ q.state = quic.state /\ q.complete = quic.complete
      /\ q.sent = quic.sent /\ q.ping_pending = quic.ping_pending \cup {u}
      BY <1>1 DEF Quic, Up
<1>4. /\ p \in Protocol /\ p.waiters = protocol.waiters \cup {u}
      /\ p.used = protocol.used \cup {u}
      BY <1>1 DEF Protocol, Names
<1> HIDE DEF q, p
<1>5. ~Over(q) => Tracked(q, p.waiters)
  <2>1. SUFFICES ASSUME ~Over(q) PROVE Tracked(q, p.waiters)
        OBVIOUS
  <2>2. Tracked(quic, protocol.waiters)
        BY <1>1, <1>3, <2>1 DEF Over
  <2>3. u \notin protocol.waiters
        BY <1>1, <1>2
  <2>4. OnePlace(q, u)
        BY <1>3, <2>2, <2>3 DEF Tracked, NoPlace, OnePlace
  <2>5. ASSUME NEW v \in Uids, v # u
        PROVE  IF v \in p.waiters THEN OnePlace(q, v) ELSE NoPlace(q, v)
        BY <1>3, <1>4, <2>2, <2>5 DEF Tracked, NoPlace, OnePlace
  <2>6. u \in p.waiters
        BY <1>4
  <2>7. ~q.complete => \A n \in DOMAIN q.sent : q.sent[n].pings = {}
        BY <1>3, <2>2 DEF Tracked
  <2>8. QED BY <2>4, <2>5, <2>6, <2>7 DEF Tracked
<1>6. Calls(q, p)
      BY <1>1, <1>3, <1>4, <1>5 DEF Calls
<1>7. QED BY <1>2, <1>6, Transmits

\* write(): a transmission is scheduled.
LEMMA WriteInv == ASSUME IInv, write PROVE IInv'
<1>1. /\ quic \in Quic /\ protocol \in Protocol
      BY InvFacts
<1>2. /\ Connected
      /\ quic' = [quic EXCEPT !.work = @ + 1]
      /\ protocol' = IF protocol.transmit_task THEN protocol
                     ELSE [protocol EXCEPT !.transmit_task = TRUE, !.soon = @ + 1]
      BY DEF write
<1>3. /\ quic' \in Quic /\ quic'.sent = quic.sent /\ quic'.complete = quic.complete
      /\ quic'.ping_pending = quic.ping_pending /\ quic'.state = quic.state
      /\ quic'.close_pending = quic.close_pending /\ quic'.reason = quic.reason
      /\ quic'.close_at = quic.close_at /\ quic'.pacing_at = quic.pacing_at
      /\ quic'.loss_time = quic.loss_time /\ quic'.pto_count = quic.pto_count
      /\ quic'.last_sent = quic.last_sent
      BY <1>1, <1>2 DEF Quic
<1>4. /\ protocol' \in Protocol /\ protocol'.soon > 0
      /\ protocol'.waiters = protocol.waiters /\ protocol'.used = protocol.used
      /\ protocol'.timer = protocol.timer
  <2>1. CASE protocol.transmit_task
    <3>1. protocol' = protocol /\ protocol.soon > 0
          BY <1>2, <2>1 DEF IInv
    <3>2. QED BY <1>1, <3>1
  <2>2. CASE ~protocol.transmit_task
    <3>1. protocol' = [protocol EXCEPT !.transmit_task = TRUE, !.soon = @ + 1]
          BY <1>2, <2>2
    <3>2. protocol.soon + 1 \in Nat /\ protocol.soon + 1 > 0
          BY <1>1 DEF Protocol
    <3>3. protocol'.soon = protocol.soon + 1
          BY <1>1, <3>1 DEF Protocol
    <3>4. /\ protocol' \in Protocol /\ protocol'.waiters = protocol.waiters
          /\ protocol'.used = protocol.used /\ protocol'.timer = protocol.timer
          BY <1>1, <3>1, <3>2 DEF Protocol
    <3>5. QED BY <3>2, <3>3, <3>4
  <2>3. QED BY <2>1, <2>2
<1>5. Connected' /\ (Ended' <=> Ended) /\ (Unsendable(quic') <=> Unsendable(quic))
      BY <1>2, <1>3 DEF Connected, Ended, Unsendable
<1>6. ~Ended => Tracked(quic', protocol'.waiters) /\ CloseGoesOut(quic')
  <2>1. SUFFICES ASSUME ~Ended PROVE Tracked(quic', protocol'.waiters) /\ CloseGoesOut(quic')
        OBVIOUS
  <2>2. Tracked(quic, protocol.waiters) /\ CloseGoesOut(quic)
        BY <2>1 DEF IInv
  <2>3. Tracked(quic', protocol.waiters)
        BY <1>3, <2>2, PingsStay
  <2>4. CloseGoesOut(quic')
        BY <1>3, <1>5, <2>2 DEF CloseGoesOut
  <2>5. QED BY <1>4, <2>3, <2>4
<1>7. get_loss_detection_time(quic') = get_loss_detection_time(quic)
      BY <1>3 DEF get_loss_detection_time
<1>8. ~Ended => Going(quic', protocol')
  <2>1. SUFFICES ASSUME ~Ended, ~Unsendable(quic')
                 PROVE  Armed(quic', protocol'.timer) /\ protocol'.soon # 0
        BY DEF Going
  <2>2. Armed(quic, protocol.timer)
        BY <1>2, <1>5, <2>1 DEF IInv, Going
  <2>3. Armed(quic', protocol'.timer)
        BY <1>3, <1>4, <1>7, <2>2 DEF Armed
  <2>4. protocol'.soon # 0
        BY <1>4
  <2>5. QED BY <2>3, <2>4
<1>9. protocol'.waiters \cap Uids \subseteq protocol'.used
      BY <1>4 DEF IInv
<1>10. QED BY <1>3, <1>4, <1>5, <1>6, <1>8, <1>9 DEF IInv

\* close()
LEMMA CloseInv == ASSUME IInv, NEW reason \in Reasons, close(reason) PROVE IInv'
<1> DEFINE q == IF quic.cause = "none" /\ quic.state \notin END_STATES
                THEN [quic EXCEPT !.cause = "local", !.reason = reason,
                                  !.close_pending = TRUE]
                ELSE quic
<1>1. /\ quic \in Quic /\ protocol \in Protocol /\ Up(quic)
      /\ protocol.waiters \cap Uids \subseteq protocol.used
      /\ ~Over(quic) => Tracked(quic, protocol.waiters)
      BY InvFacts DEF close
<1>2. transmit(q, protocol)
      BY DEF close
<1>3. /\ q \in Quic /\ Up(q) /\ q.state = quic.state /\ q.complete = quic.complete
      /\ q.sent = quic.sent /\ q.ping_pending = quic.ping_pending
  <2>1. CASE quic.cause = "none" /\ quic.state \notin END_STATES
    <3>1. q = [quic EXCEPT !.cause = "local", !.reason = reason, !.close_pending = TRUE]
          BY <2>1
    <3> HIDE DEF q
    <3>2. QED BY <1>1, <3>1 DEF Quic, Up
  <2>2. CASE ~(quic.cause = "none" /\ quic.state \notin END_STATES)
    <3>1. q = quic
          BY <2>2
    <3>2. QED BY <1>1, <3>1
  <2>3. QED BY <2>1, <2>2
<1> HIDE DEF q
<1>4. ~Over(q) => Tracked(q, protocol.waiters)
  <2>1. SUFFICES ASSUME ~Over(q) PROVE Tracked(q, protocol.waiters)
        OBVIOUS
  <2>2. Tracked(quic, protocol.waiters)
        BY <1>1, <1>3, <2>1 DEF Over
  <2>3. QED BY <1>3, <2>2, PingsStay
<1>5. Calls(q, protocol)
      BY <1>1, <1>3, <1>4 DEF Calls
<1>6. QED BY <1>2, <1>5, Transmits

\* A transmission that was scheduled.
LEMMA TransmitTaskInv == ASSUME IInv, TransmitTask PROVE IInv'
<1> DEFINE p == [protocol EXCEPT !.soon = @ - 1]
<1>1. /\ quic \in Quic /\ protocol \in Protocol
      /\ protocol.waiters \cap Uids \subseteq protocol.used
      /\ ~Over(quic) => Tracked(quic, protocol.waiters)
      BY InvFacts
<1>2. transmit(quic, p) /\ protocol.soon > 0
      BY DEF TransmitTask
<1>3. Up(quic)
      BY <1>1, <1>2, InvFacts DEF Protocol
<1>4. p \in Protocol /\ p.waiters = protocol.waiters /\ p.used = protocol.used
      BY <1>1, <1>2 DEF Protocol
<1> HIDE DEF p
<1>5. Calls(quic, p)
      BY <1>1, <1>3, <1>4 DEF Calls
<1>6. QED BY <1>2, <1>5, Transmits

\* Events wake those who wait for them.
LEMMA EventsWake ==
    ASSUME NEW p \in Protocol, NEW events
    PROVE  LET r == _process_events(p, events)
           IN  /\ r \in Protocol /\ r.used = p.used
               /\ r.waiters = IF "terminated" \in events THEN {} ELSE p.waiters \ events
BY DEF _process_events, Protocol

\* The timer.
LEMMA HandleTimerInv == ASSUME IInv, HandleTimer PROVE IInv'
<1> DEFINE handled == handle_timer(quic)
           cleared == [protocol EXCEPT !.timer = Never]
           p == _process_events(cleared, handled.events)
           ending == [quic EXCEPT !.cause = IF @ = "none" THEN "idle" ELSE @]
<1>1. /\ quic \in Quic /\ protocol \in Protocol
      /\ protocol.waiters \cap Uids \subseteq protocol.used
      /\ ~Over(quic) => Tracked(quic, protocol.waiters)
      BY InvFacts
<1>2. transmit(handled.quic, p) /\ Due
      BY DEF HandleTimer
<1>3. Up(quic)
      BY <1>1, <1>2, InvFacts DEF Due
<1>4. Never \in Deadline /\ 0 \in 0..MaxBackoff
      BY Bounds DEF Deadline
<1>5. /\ cleared \in Protocol /\ cleared.waiters = protocol.waiters
      /\ cleared.used = protocol.used
      BY <1>1, <1>4 DEF Protocol
<1>6. CASE quic.close_at <= 0
  <2>1. handled = _close_end(ending)
        BY <1>6 DEF handle_timer
  <2>2. ending \in Quic
    <3> DEFINE c == IF quic.cause = "none" THEN "idle" ELSE quic.cause
    <3>1. c \in {"none", "local", "peer", "idle"}
          BY <1>1 DEF Quic
    <3>2. ending = [quic EXCEPT !.cause = c]
          BY <1>1 DEF Quic
    <3> HIDE DEF c, ending
    <3>3. QED BY <1>1, <3>1, <3>2 DEF Quic
  <2> HIDE DEF ending, handled
  <2>3. /\ handled.quic = [Forgotten(ending) EXCEPT !.state = "TERMINATED", !.close_at = Never]
        /\ handled.events = {"terminated"}
        BY <2>1 DEF _close_end
  <2> DEFINE f == Forgotten(ending)
  <2>4. f \in Quic
        BY <1>4, <2>2, NothingInFlight DEF Forgotten, Quic
  <2> HIDE DEF f
  <2>5. handled.quic \in Quic /\ Over(handled.quic) /\ Up(handled.quic)
        BY <1>4, <2>3, <2>4 DEF f, Quic, Over, Up, END_STATES
  <2> HIDE DEF cleared
  <2>6. p \in Protocol /\ p.used = protocol.used /\ p.waiters = {}
        BY <1>5, <2>3, EventsWake
  <2> HIDE DEF p
  <2>7. Calls(handled.quic, p)
        BY <2>5, <2>6 DEF Calls
  <2>8. QED BY <1>2, <2>7, Transmits DEF handled
<1>7. CASE ~(quic.close_at <= 0)
  <2> DEFINE q == IF quic.loss_at <= 0 THEN on_loss_detection_timeout(quic) ELSE quic
  <2>1. handled = [quic |-> q, events |-> {}]
        BY <1>7 DEF handle_timer
  <2>2. /\ q \in Quic /\ SameCourse(q, quic)
        /\ Tracked(quic, protocol.waiters) => Tracked(q, protocol.waiters)
    <3>1. CASE quic.loss_at <= 0
          BY <1>1, <3>1, TimeoutTracked
    <3>2. CASE ~(quic.loss_at <= 0)
          BY <1>1, <3>2 DEF SameCourse
    <3>3. QED BY <3>1, <3>2
  <2> HIDE DEF q, handled
  <2>3. handled.quic = q /\ handled.events = {}
        BY <2>1
  <2> HIDE DEF cleared
  <2>4. p \in Protocol /\ p.used = protocol.used /\ p.waiters = protocol.waiters
        BY <1>5, <2>3, EventsWake
  <2> HIDE DEF p
  <2>5. Calls(q, p)
        BY <1>1, <1>3, <2>2, <2>4 DEF Calls, Up, Over, SameCourse
  <2>6. QED BY <1>2, <2>3, <2>5, Transmits DEF handled
<1>8. QED BY <1>6, <1>7

\* Time passes for all deadlines alike.
LEMMA PassedFacts ==
    ASSUME NEW d \in Deadline
    PROVE  /\ Passed(d) \in Deadline
           /\ Passed(d) = Never <=> d = Never
           /\ d # Never => Passed(d) = IF d >= 0 THEN d - 1 ELSE -1
<1>1. Never \in Nat /\ d \in Int /\ d <= Never /\ d >= -1
      BY Bounds DEF Deadline
<1> DEFINE e == d - 1
<1>2. e \in Int
      BY <1>1
<1> HIDE DEF e
<1>3. Max({e, -1}) = IF e >= -1 THEN e ELSE -1
      BY <1>2, MaxOfTwo
<1>4. Passed(d) = IF d = Never THEN Never ELSE Max({e, -1})
      BY DEF Passed, e
<1>5. Passed(d) = IF d = Never THEN Never ELSE IF d >= 0 THEN d - 1 ELSE -1
      BY <1>1, <1>3, <1>4 DEF e
<1>6. QED BY <1>1, <1>5 DEF Deadline

\* What comes no later still does when time has passed.
LEMMA PassedTogether ==
    ASSUME NEW d \in Deadline, NEW e \in Deadline, d <= e
    PROVE  Passed(d) <= Passed(e)
<1>1. Never \in Nat
      BY Bounds
<1>2. d \in Int /\ e \in Int /\ d <= Never /\ e <= Never /\ d >= -1 /\ e >= -1
      BY <1>1 DEF Deadline
<1>3. /\ Passed(d) \in Deadline /\ Passed(e) \in Deadline
      /\ d = Never => Passed(d) = Never
      /\ e = Never => Passed(e) = Never
      /\ d # Never => Passed(d) = IF d >= 0 THEN d - 1 ELSE -1
      /\ e # Never => Passed(e) = IF e >= 0 THEN e - 1 ELSE -1
      BY PassedFacts
<1>4. CASE e = Never
      BY <1>1, <1>3, <1>4 DEF Deadline
<1>5. CASE e # Never
  <2>1. d # Never
        BY <1>1, <1>2, <1>5
  <2>2. QED BY <1>2, <1>3, <1>5, <2>1
<1>6. QED BY <1>4, <1>5

\* The time of a loss comes no faster than time passes.
LEMMA LossPasses ==
    ASSUME NEW q \in Quic, NEW r \in Quic, r.complete = q.complete, r.sent = q.sent,
           r.pto_count = q.pto_count, r.loss_time = Passed(q.loss_time),
           r.last_sent <= q.last_sent + 1
    PROVE  Passed(get_loss_detection_time(q)) <= get_loss_detection_time(r)
<1> DEFINE left(x) == timeout[x.pto_count] - x.last_sent
           a == left(q)
           b == left(r)
<1>1. /\ q.loss_time \in Deadline /\ q.pto_count \in 0..MaxBackoff
      /\ q.last_sent \in Nat /\ r.last_sent \in Nat
      BY DEF Quic
<1>2. Never \in Nat /\ Longest < Never /\ timeout[q.pto_count] \in Nat
      /\ timeout[q.pto_count] < Longest
      BY <1>1, Bounds, Timeouts
<1>3. r.loss_time = Never <=> q.loss_time = Never
      BY <1>1, PassedFacts
<1>4. CASE q.loss_time # Never
  <2>1. /\ get_loss_detection_time(q) = q.loss_time
        /\ get_loss_detection_time(r) = Passed(q.loss_time)
        BY <1>3, <1>4 DEF get_loss_detection_time
  <2>2. Passed(q.loss_time) \in Deadline
        BY <1>1, PassedFacts
  <2>3. QED BY <1>2, <2>1, <2>2 DEF Deadline
<1>5. CASE q.loss_time = Never /\ (~q.complete \/ DOMAIN q.sent # {})
  <2>1. /\ get_loss_detection_time(q) = Max({a, -1})
        /\ get_loss_detection_time(r) = Max({b, -1})
        BY <1>3, <1>5 DEF get_loss_detection_time
  <2>2. a \in Int /\ b \in Int /\ b >= a - 1
        BY <1>1, <1>2
  <2> HIDE DEF a, b
  <2>3. /\ Max({a, -1}) = IF a >= -1 THEN a ELSE -1
        /\ Max({b, -1}) = IF b >= -1 THEN b ELSE -1
        BY <2>2, MaxOfTwo
  <2>4. get_loss_detection_time(q) \in Deadline /\ get_loss_detection_time(q) # Never
        BY <1>5, LossTime
  <2> DEFINE l == get_loss_detection_time(q)
             m == get_loss_detection_time(r)
  <2>5. l = (IF a >= -1 THEN a ELSE -1) /\ m = (IF b >= -1 THEN b ELSE -1)
        BY <2>1, <2>3
  <2>6. Passed(l) = IF l >= 0 THEN l - 1 ELSE -1
        BY <2>4, PassedFacts
  <2> HIDE DEF l, m
  <2>7. Passed(l) <= m
        BY <2>2, <2>5, <2>6
  <2>8. QED BY <2>7 DEF l, m
<1>6. CASE q.loss_time = Never /\ ~(~q.complete \/ DOMAIN q.sent # {})
  <2>1. get_loss_detection_time(q) = Never /\ get_loss_detection_time(r) = Never
        BY <1>3, <1>6 DEF get_loss_detection_time
  <2>2. Passed(Never) = Never
        BY DEF Passed
  <2>3. QED BY <1>2, <2>1, <2>2
<1>7. QED BY <1>4, <1>5, <1>6

\* Time passes.
LEMMA TickInv == ASSUME IInv, Tick PROVE IInv'
<1> DEFINE last_sent == IF Ended THEN quic.last_sent ELSE Min({quic.last_sent + 1, Longest})
           bucket == IF quic.packet_time /\ ~Ended THEN Min({quic.bucket + 1, MaxBucket})
                     ELSE quic.bucket
<1>1. /\ quic \in Quic /\ protocol \in Protocol /\ Connected
      BY InvFacts DEF Tick
<1>2. /\ quic' = [quic EXCEPT !.close_at = Passed(@), !.ack_at = Passed(@),
                              !.pacing_at = Passed(@), !.loss_at = Passed(@),
                              !.loss_time = Passed(@), !.last_sent = last_sent,
                              !.bucket = bucket]
      /\ protocol' = [protocol EXCEPT !.timer = Passed(@)]
  <2>1. quic.last_sent \in Nat /\ quic.bucket \in Nat
        BY <1>1 DEF Quic
  <2>2. QED BY <1>1 DEF Tick, Quic
<1>3. last_sent \in Nat /\ last_sent <= quic.last_sent + 1
  <2> DEFINE a == quic.last_sent + 1
  <2>1. quic.last_sent \in Nat /\ a \in Nat /\ Longest \in Nat
    <3>1. MaxBackoff \in 0..MaxBackoff
          BY Bounds
    <3>2. QED BY <1>1, <3>1, Timeouts DEF Quic, Longest
  <2> HIDE DEF a
  <2>2. Min({a, Longest}) = IF a <= Longest THEN a ELSE Longest
        BY <2>1, MinOfTwo
  <2>3. Min({a, Longest}) \in Nat /\ Min({a, Longest}) <= a
        BY <2>1, <2>2
  <2>4. QED BY <2>1, <2>3 DEF a
<1>4. bucket \in Nat
  <2> DEFINE a == quic.bucket + 1
  <2>1. quic.bucket \in Nat /\ a \in Nat /\ MaxBucket \in Nat
        BY <1>1, Bounds DEF Quic
  <2> HIDE DEF a
  <2>2. Min({a, MaxBucket}) = IF a <= MaxBucket THEN a ELSE MaxBucket
        BY <2>1, MinOfTwo
  <2>3. Min({a, MaxBucket}) \in Nat
        BY <2>1, <2>2
  <2>4. QED BY <2>1, <2>3 DEF a
<1> HIDE DEF last_sent, bucket
<1>5. /\ quic.close_at \in Deadline /\ quic.ack_at \in Deadline /\ quic.pacing_at \in Deadline
      /\ quic.loss_at \in Deadline /\ quic.loss_time \in Deadline
      /\ protocol.timer \in Deadline
      BY <1>1 DEF Quic, Protocol
<1>6. /\ quic' \in Quic /\ quic'.sent = quic.sent /\ quic'.complete = quic.complete
      /\ quic'.ping_pending = quic.ping_pending /\ quic'.state = quic.state
      /\ quic'.close_pending = quic.close_pending /\ quic'.reason = quic.reason
      /\ quic'.close_at = Passed(quic.close_at) /\ quic'.pacing_at = Passed(quic.pacing_at)
      /\ quic'.loss_time = Passed(quic.loss_time) /\ quic'.pto_count = quic.pto_count
      /\ quic'.last_sent = last_sent /\ quic'.probe_pending = quic.probe_pending
      /\ quic'.work = quic.work /\ quic'.crypto = quic.crypto
  <2>1. /\ Passed(quic.close_at) \in Deadline /\ Passed(quic.ack_at) \in Deadline
        /\ Passed(quic.pacing_at) \in Deadline /\ Passed(quic.loss_at) \in Deadline
        /\ Passed(quic.loss_time) \in Deadline
        BY <1>5, PassedFacts
  <2>2. QED BY <1>1, <1>2, <1>3, <1>4, <2>1 DEF Quic
<1>7. /\ protocol' \in Protocol /\ protocol'.waiters = protocol.waiters
      /\ protocol'.used = protocol.used /\ protocol'.soon = protocol.soon
      /\ protocol'.transmit_task = protocol.transmit_task
      /\ protocol'.timer = Passed(protocol.timer)
  <2>1. Passed(protocol.timer) \in Deadline
        BY <1>5, PassedFacts
  <2>2. QED BY <1>1, <1>2, <2>1 DEF Protocol
<1>8. Connected' /\ (Ended' <=> Ended) /\ (Unsendable(quic') <=> Unsendable(quic))
  <2>1. Passed(quic.close_at) = Never <=> quic.close_at = Never
        BY <1>5, PassedFacts
  <2>2. QED BY <1>1, <1>6, <2>1 DEF Connected, Ended, Unsendable
<1>9. ~Ended => Tracked(quic', protocol'.waiters) /\ CloseGoesOut(quic')
  <2>1. SUFFICES ASSUME ~Ended PROVE Tracked(quic', protocol'.waiters) /\ CloseGoesOut(quic')
        OBVIOUS
  <2>2. Tracked(quic, protocol.waiters) /\ CloseGoesOut(quic)
        BY <2>1 DEF IInv
  <2>3. Tracked(quic', protocol.waiters)
        BY <1>6, <2>2, PingsStay
  <2>4. CloseGoesOut(quic')
        BY <1>6, <1>8, <2>2 DEF CloseGoesOut
  <2>5. QED BY <1>7, <2>3, <2>4
<1>10. ~Ended => Going(quic', protocol')
  <2>1. SUFFICES ASSUME ~Ended, ~Unsendable(quic')
                 PROVE  Armed(quic', protocol'.timer) /\ (protocol'.soon = 0 => Held(quic'))
        BY DEF Going
  <2>2. Armed(quic, protocol.timer) /\ (protocol.soon = 0 => Held(quic))
        BY <1>1, <1>8, <2>1 DEF IInv, Going
  <2> DEFINE t == protocol.timer
             l == get_loss_detection_time(quic)
             m == get_loss_detection_time(quic')
  <2>3. l \in Deadline /\ m \in Deadline /\ t \in Deadline
        BY <1>1, <1>5, <1>6, LossTime
  <2>4. t <= quic.pacing_at /\ t <= l
        BY <2>2 DEF Armed
  <2>5. Passed(l) <= m
        BY <1>1, <1>3, <1>6, LossPasses
  <2>6. l # Never => m # Never
    <3>1. quic.loss_time # Never => quic'.loss_time # Never
          BY <1>5, <1>6, PassedFacts
    <3>2. QED BY <1>1, <1>6, <3>1, LossTime
  <2> HIDE DEF t, l, m
  <2>7. Passed(t) <= Passed(l) /\ Passed(t) <= Passed(quic.pacing_at)
        BY <1>5, <2>3, <2>4, PassedTogether
  <2>8. Passed(t) <= m
    <3>1. Passed(t) \in Deadline /\ Passed(l) \in Deadline
          BY <2>3, PassedFacts
    <3>2. Passed(t) \in Int /\ Passed(l) \in Int /\ m \in Int
          BY <2>3, <3>1, Bounds DEF Deadline
    <3>3. QED BY <2>5, <2>7, <3>2
  <2>9. Armed(quic', protocol'.timer)
        BY <1>6, <1>7, <2>7, <2>8 DEF Armed, t, m
  <2>10. quic.pacing_at # Never => quic'.pacing_at # Never
        BY <1>5, <1>6, PassedFacts
  <2>11. protocol'.soon = 0 => Held(quic')
    <3>1. Frames(quic') <=> Frames(quic)
          BY <1>6 DEF Frames
    <3>2. QED BY <1>7, <2>2, <2>6, <2>10, <3>1 DEF Held, l, m
  <2>12. QED BY <2>9, <2>11
<1>11. protocol'.waiters \cap Uids \subseteq protocol'.used
       BY <1>7 DEF IInv
<1>12. protocol'.transmit_task => protocol'.soon > 0
       BY <1>7 DEF IInv
<1>13. QED BY <1>6, <1>7, <1>8, <1>9, <1>10, <1>11, <1>12 DEF IInv

-----------------------------------------------------------------------------
(* Datagrams of the peer.                                                  *)

\* What a datagram does ends in a transmission.
LEMMA ReceiveInv ==
    ASSUME NEW handled \in Quic, NEW events, IInv, Up(handled), "terminated" \notin events,
           ~Over(handled) => Tracked(handled, protocol.waiters \ events),
           Receive(handled, events)
    PROVE  IInv'
<1> DEFINE idle == Max({Idle, Closing})
           renewed == IF handled.state \in END_STATES \/ handled.close_pending THEN handled
                      ELSE [handled EXCEPT !.close_at = idle]
           p == _process_events(protocol, events)
<1>1. protocol \in Protocol /\ protocol.waiters \cap Uids \subseteq protocol.used
      BY InvFacts
<1>2. transmit(renewed, p)
      BY DEF Receive
<1>3. idle \in Deadline /\ idle # Never
      BY IdleTime
<1> HIDE DEF idle
<1>4. /\ renewed \in Quic /\ Up(renewed) /\ renewed.state = handled.state
      /\ renewed.complete = handled.complete /\ renewed.sent = handled.sent
      /\ renewed.ping_pending = handled.ping_pending
  <2>1. CASE handled.state \in END_STATES \/ handled.close_pending
        BY <2>1
  <2>2. CASE ~(handled.state \in END_STATES \/ handled.close_pending)
    <3>1. renewed = [handled EXCEPT !.close_at = idle]
          BY <2>2
    <3> HIDE DEF renewed
    <3>2. QED BY <1>3, <3>1 DEF Quic, Up
  <2>3. QED BY <2>1, <2>2
<1>5. p \in Protocol /\ p.used = protocol.used /\ p.waiters = protocol.waiters \ events
      BY <1>1, EventsWake
<1> HIDE DEF renewed, p
<1>6. ~Over(renewed) => Tracked(renewed, p.waiters)
  <2>1. SUFFICES ASSUME ~Over(renewed) PROVE Tracked(renewed, p.waiters)
        OBVIOUS
  <2>2. Tracked(handled, p.waiters)
        BY <1>4, <1>5, <2>1 DEF Over
  <2>3. QED BY <1>4, <2>2, PingsStay
<1>7. p.waiters \cap Uids \subseteq p.used
      BY <1>1, <1>5
<1>8. Calls(renewed, p)
      BY <1>4, <1>5, <1>6, <1>7 DEF Calls
<1>9. QED BY <1>2, <1>8, Transmits

\* What a datagram finds: a connection that is up and not over.
LEMMA ListeningFacts ==
    ASSUME IInv, Listening
    PROVE  quic \in Quic /\ Up(quic) /\ ~Over(quic) /\ Tracked(quic, protocol.waiters)
BY InvFacts DEF Listening

\* The answer to the handshake, which had no ping.
LEMMA ReceiveAnswerInv == ASSUME IInv, ReceiveAnswer PROVE IInv'
<1> DEFINE q == [quic EXCEPT !.state = "CONNECTED", !.complete = TRUE, !.crypto = FALSE,
                             !.sent = << >>, !.pto_count = 0]
           W == protocol.waiters \ {"connected"}
<1>1. quic \in Quic /\ Tracked(quic, protocol.waiters) /\ ~quic.complete
      BY ListeningFacts DEF ReceiveAnswer
<1>2. Receive(q, {"connected"})
      BY DEF ReceiveAnswer
<1>3. 0 \in 0..MaxBackoff /\ << >> \in Flights /\ DOMAIN << >> = {}
      BY Bounds, NothingInFlight
<1>4. /\ q \in Quic /\ Up(q) /\ q.complete /\ q.sent = << >>
      /\ q.ping_pending = quic.ping_pending
      BY <1>1, <1>3 DEF Quic, Up
<1> HIDE DEF q
<1>5. protocol.waiters \cap Uids = W \cap Uids
      BY OtherNames
<1> HIDE DEF W
<1>6. Tracked(quic, W)
      BY <1>1, <1>5, SameWaiters
<1>7. Tracked(q, W)
  <2>1. \A n \in DOMAIN quic.sent : quic.sent[n].pings = {}
        BY <1>1 DEF Tracked
  <2>2. ASSUME NEW u \in Uids, u \in W PROVE OnePlace(q, u)
    <3>1. OnePlace(quic, u)
          BY <1>6, <2>2 DEF Tracked
    <3>2. u \in quic.ping_pending
          BY <2>1, <3>1 DEF OnePlace
    <3>3. QED BY <1>3, <1>4, <3>2 DEF OnePlace
  <2>3. ASSUME NEW u \in Uids, u \notin W PROVE NoPlace(q, u)
    <3>1. NoPlace(quic, u)
          BY <1>6, <2>3 DEF Tracked
    <3>2. QED BY <1>3, <1>4, <3>1 DEF NoPlace
  <2>4. QED BY <1>4, <2>2, <2>3 DEF Tracked
<1>8. "terminated" \notin {"connected"}
      OBVIOUS
<1>9. QED BY <1>2, <1>4, <1>7, <1>8, ReceiveInv DEF W

\* An acknowledgement.
LEMMA ReceiveAckInv == ASSUME IInv, ReceiveAck PROVE IInv'
<1>1. quic \in Quic /\ Up(quic) /\ Tracked(quic, protocol.waiters) /\ quic.complete
      BY ListeningFacts DEF ReceiveAck
<1>2. PICK acked \in SUBSET DOMAIN quic.sent, far \in BOOLEAN, w \in Windows :
          Receive(on_ack_received(quic, acked, far, w),
                  UNION {quic.sent[n].pings : n \in acked})
      BY DEF ReceiveAck
<1> DEFINE r == on_ack_received(quic, acked, far, w)
           answered == UNION {quic.sent[n].pings : n \in acked}
<1>3. r \in Quic /\ SameCourse(r, quic) /\ Tracked(r, protocol.waiters \ answered)
      BY <1>1, AckTracked
<1>4. "terminated" \notin answered
  <2>1. \A n \in DOMAIN quic.sent : quic.sent[n] \in Packets
        BY <1>1, FlightFacts DEF Quic
  <2>2. \A n \in acked : quic.sent[n].pings \subseteq Uids
        BY <2>1 DEF Packets
  <2>3. QED BY <2>2, UidsAssumption
<1>5. Receive(r, answered)
      BY <1>2
<1> HIDE DEF r, answered
<1>6. Up(r)
      BY <1>1, <1>3 DEF Up, SameCourse
<1>7. QED BY <1>3, <1>4, <1>5, <1>6, ReceiveInv

\* Data, or a ping of the peer.
LEMMA ReceiveDataInv == ASSUME IInv, NEW last \in BOOLEAN, ReceiveData(last) PROVE IInv'
<1> DEFINE q == Eliciting(quic)
           events == IF last THEN {"reader"} ELSE {}
           W == protocol.waiters \ events
<1>1. quic \in Quic /\ Up(quic) /\ Tracked(quic, protocol.waiters)
      BY ListeningFacts DEF ReceiveData
<1>2. Receive(q, events)
      BY DEF ReceiveData
<1>3. AckDelay \in Deadline
      BY Bounds DEF Deadline
<1>4. /\ q \in Quic /\ Up(q) /\ q.state = quic.state /\ q.complete = quic.complete
      /\ q.sent = quic.sent /\ q.ping_pending = quic.ping_pending
      BY <1>1, <1>3 DEF Eliciting, Quic, Up
<1> HIDE DEF q
<1>5. "terminated" \notin events /\ protocol.waiters \cap Uids = W \cap Uids
      BY OtherNames
<1> HIDE DEF W
<1>6. Tracked(quic, W)
      BY <1>1, <1>5, SameWaiters
<1>7. Tracked(q, W)
      BY <1>4, <1>6, PingsStay
<1> HIDE DEF events
<1>8. QED BY <1>2, <1>4, <1>5, <1>7, ReceiveInv DEF W

\* The peer closes.
LEMMA ReceiveCloseInv == ASSUME IInv, ReceiveClose PROVE IInv'
<1> DEFINE closed == [quic EXCEPT !.cause = "peer"]
           q == IF quic.cause = "none" THEN _close_begin(closed, "DRAINING") ELSE quic
           W == protocol.waiters \ {}
<1>1. quic \in Quic /\ Up(quic) /\ Tracked(quic, protocol.waiters)
      BY ListeningFacts DEF ReceiveClose
<1>2. Receive(q, {})
      BY DEF ReceiveClose
<1>3. W = protocol.waiters
      OBVIOUS
<1> HIDE DEF W
<1>4. q \in Quic /\ Up(q) /\ (~Over(q) => Tracked(q, W))
  <2>1. CASE quic.cause = "none"
    <3>1. closed \in Quic /\ "DRAINING" \in END_STATES
          BY <1>1 DEF Quic, END_STATES
    <3> HIDE DEF closed
    <3>2. q = _close_begin(closed, "DRAINING")
          BY <2>1
    <3> HIDE DEF q
    <3>3. q \in Quic /\ Over(q)
          BY <3>1, <3>2, ClosingIsOver
    <3>4. Up(q)
          BY <3>3 DEF Up, Over, END_STATES
    <3>5. QED BY <3>3, <3>4
  <2>2. CASE quic.cause # "none"
        BY <1>1, <1>3, <2>2
  <2>3. QED BY <2>1, <2>2
<1> HIDE DEF q
<1>5. QED BY <1>2, <1>4, ReceiveInv DEF W

-----------------------------------------------------------------------------
(* Theorems.                                                               *)

LEMMA NextInv == ASSUME IInv, [Next]_vars PROVE IInv'
<1>1. CASE \E waits \in BOOLEAN : connect(waits)
      BY <1>1, ConnectInv
<1>2. CASE wait_connected
      BY <1>2, WaitConnectedInv
<1>3. CASE \E u \in Uids : ping(u)
      BY <1>3, PingInv
<1>4. CASE create_stream
      BY <1>4, CreateStreamInv
<1>5. CASE write
      BY <1>5, WriteInv
<1>6. CASE \E reason \in Reasons : close(reason)
      BY <1>6, CloseInv
<1>7. CASE TransmitTask
      BY <1>7, TransmitTaskInv
<1>8. CASE HandleTimer
      BY <1>8, HandleTimerInv
<1>9. CASE Tick
      BY <1>9, TickInv
<1>10. CASE ReceiveAnswer
       BY <1>10, ReceiveAnswerInv
<1>11. CASE ReceiveAck
       BY <1>11, ReceiveAckInv
<1>12. CASE \E last \in BOOLEAN : ReceiveData(last)
       BY <1>12, ReceiveDataInv
<1>13. CASE ReceiveClose
       BY <1>13, ReceiveCloseInv
<1>14. CASE PeerGone \/ UNCHANGED vars
  <2>1. /\ quic' = quic /\ protocol' = protocol
        BY <1>14 DEF vars, PeerGone
  <2>2. QED BY <2>1 DEF IInv, Connected, Ended
<1>15. QED BY <1>1, <1>2, <1>3, <1>4, <1>5, <1>6, <1>7, <1>8, <1>9, <1>10, <1>11, <1>12,
             <1>13, <1>14 DEF Next

\* In every state a ping has a place for each answer that is waited for and none else, a
\* close that can be written is not put off, and the timer stands for the pacer and for
\* the loss of packets (transmit(), datagrams_to_send(), get_timer(), handle_timer(),
\* receive_datagram()).
THEOREM EndpointInvariant == Spec => []IInv
<1>1. Init => IInv
      BY InitInv
<1>2. IInv /\ [Next]_vars => IInv'
      BY NextInv
<1>3. QED BY <1>1, <1>2, PTL DEF Spec

\* A PING whose answer somebody waits for is either still to be sent or in one packet
\* whose fate is not known: _on_ping_delivery() asks for it again when its packet is
\* lost, and neither a probe nor an overtaken packet puts it in two.
THEOREM OnePlaceForEachPing == Spec => []PingsAreTracked
<1>1. IInv => PingsAreTracked
  <2> SUFFICES ASSUME IInv, ~Ended, NEW u \in protocol.waiters \cap Uids
               PROVE  IF u \in quic.ping_pending THEN Carriers(u) = {}
                      ELSE \E n \in DOMAIN quic.sent : Carriers(u) = {n}
      BY DEF PingsAreTracked
  <2>1. OnePlace(quic, u)
        BY DEF IInv, Tracked
  <2>2. CASE u \in quic.ping_pending
        BY <2>1, <2>2 DEF OnePlace, Carriers
  <2>3. CASE u \notin quic.ping_pending
    <3>1. PICK n \in DOMAIN quic.sent :
              \A m \in DOMAIN quic.sent : u \in quic.sent[m].pings <=> m = n
          BY <2>1, <2>3 DEF OnePlace
    <3>2. Carriers(u) = {n}
          BY <3>1 DEF Carriers
    <3>3. QED BY <2>3, <3>2
  <2>4. QED BY <2>2, <2>3
<1>2. QED BY <1>1, EndpointInvariant, PTL

\* What is armed and held in a state is enough for what waits there.
LEMMA GoingIsEnough == IInv => (~Unsendable(quic) => NothingIsForgotten)
<1> SUFFICES ASSUME IInv, ~Unsendable(quic), Connected, ~Ended, HasFrames, protocol.soon = 0
             PROVE  \/ quic.pacing_at # Never /\ protocol.timer <= quic.pacing_at
                    \/ /\ get_loss_detection_time(quic) # Never
                       /\ protocol.timer <= get_loss_detection_time(quic)
    BY DEF NothingIsForgotten
<1>1. Armed(quic, protocol.timer) /\ Held(quic)
      BY DEF IInv, Going
<1>2. Frames(quic)
      BY DEF HasFrames, Frames
<1>3. QED BY <1>1, <1>2 DEF Armed, Held

\* Whatever kept a frame from being written (the window, the pacer, the handshake), the
\* timer will try again, as long as the connection has no reason for closing that does
\* not fit a packet.
THEOREM FramesGoOn == Spec => [](~Unsendable(quic) => NothingIsForgotten)
<1>1. QED BY EndpointInvariant, GoingIsEnough, PTL

\* So nothing is forgotten at all when the application has short reasons to close.
THEOREM NothingForgotten ==
    ASSUME "long" \notin Reasons
    PROVE  Spec => []NothingIsForgotten
<1>1. IInv => ~Unsendable(quic)
      BY DEF IInv, Quic, Unsendable
<1>2. IInv => NothingIsForgotten
      BY <1>1, GoingIsEnough
<1>3. QED BY <1>2, EndpointInvariant, PTL

=============================================================================
