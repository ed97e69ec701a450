-------------------------- MODULE Recovery_proofs --------------------------
(***************************************************************************)
(* Proofs about Recovery: the counters of what is in flight are what they  *)
(* count, the window holds, and the losses of one flight reduce it once.   *)
(***************************************************************************)
EXTENDS Recovery, FoldLemmas

-----------------------------------------------------------------------------
(* The inductive invariant.                                                *)

Packet == [kind : Kind, sent_time : Nat, sent_bytes : Nat]

Controls ==
    {c \in [bytes_in_flight : Int, congestion_window : Nat, stash : Nat,
            ssthresh : Nat \cup {NoThreshold}, recovery_start : Nat] :
        /\ c.congestion_window >= MinimumWindow
        /\ c.ssthresh # NoThreshold => c.congestion_window >= c.ssthresh}

\* The packets of a space were sent in it, and not later than now.
SpaceOK(e) ==
    /\ numbers[e] \subseteq Number
    /\ DOMAIN sent_packets[e] \subseteq numbers[e]
    /\ sent_packets[e] \in [DOMAIN sent_packets[e] -> Packet]
    /\ \A n \in DOMAIN sent_packets[e] : sent_packets[e][n].sent_time <= now

StateOK ==
    /\ now \in Nat
    /\ DOMAIN numbers = Epochs /\ DOMAIN sent_packets = Epochs
    /\ \A e \in Epochs : SpaceOK(e)
    /\ ack_eliciting_in_flight \in [Epochs -> Int]
    /\ cc \in Controls
    /\ cc.recovery_start <= now

\* The numbers used are those below the next one.
Numbered ==
    /\ NextNumber \in Nat
    /\ UNION {numbers[e] : e \in Epochs} = 0..(NextNumber - 1)

\* What was sent before the window was last reduced was sent before the last
\* congestion event began.
BeforeCut ==
    /\ cut_at \in Nat /\ cut_at <= NextNumber
    /\ \A e \in Epochs : \A n \in DOMAIN sent_packets[e] :
          n < cut_at => sent_packets[e][n].sent_time <= cc.recovery_start

RecoveryInv == StateOK /\ Numbered /\ BeforeCut /\ CountersMatch

-----------------------------------------------------------------------------
(* What the congestion controller does.                                    *)

\* A record with every field of a control that holds its window is a control.
LEMMA ControlsFields ==
    ASSUME NEW c \in Controls
    PROVE  /\ c.bytes_in_flight \in Int /\ c.congestion_window \in Nat /\ c.stash \in Nat
           /\ c.ssthresh \in Nat \cup {NoThreshold} /\ c.recovery_start \in Nat
           /\ c.congestion_window >= MinimumWindow
           /\ c.ssthresh # NoThreshold => c.congestion_window >= c.ssthresh
BY DEF Controls

\* The whole of some windows fits into what is divided by the window.
LEMMA Quotient ==
    ASSUME NEW a \in Nat, NEW b \in Nat \ {0}
    PROVE  a \div b \in Nat /\ a - (a \div b) * b \in Nat
<1>1. a \div b \in Int /\ a = b * (a \div b) + (a % b) /\ a % b \in 0..(b - 1)
      OBVIOUS
<1>2. a \div b >= 0
      OBVIOUS
<1> DEFINE q == a \div b
           r == a % b
           m == q * b
<1>3. q \in Nat /\ m \in Int /\ a = m + r /\ r >= 0 /\ r \in Int
      BY <1>1, <1>2
<1>4. a - m \in Nat
  <2> HIDE DEF m, r
  <2> QED BY <1>3
<1>5. QED BY <1>3, <1>4

\* half of a window
LEMMA Reduction ==
    ASSUME NEW w \in Nat
    PROVE  Reduced(w) \in Nat /\ Reduced(w) >= MinimumWindow
<1>1. w \div 2 \in Nat
      BY Quotient
<1>2. MinimumWindow \in Nat
      BY WindowAssumption
<1>3. QED BY <1>1, <1>2 DEF Reduced

\* A window that is widened is as good as before.
LEMMA Widened ==
    ASSUME NEW c \in Controls, NEW more \in Nat, NEW left \in Nat
    PROVE  LET d == [c EXCEPT !.stash = left, !.congestion_window = @ + more]
           IN  /\ d \in Controls
               /\ d.bytes_in_flight = c.bytes_in_flight
               /\ d.congestion_window >= c.congestion_window
               /\ d.recovery_start = c.recovery_start
<1> DEFINE d == [c EXCEPT !.stash = left, !.congestion_window = @ + more]
           R == [bytes_in_flight : Int, congestion_window : Nat, stash : Nat,
                 ssthresh : Nat \cup {NoThreshold}, recovery_start : Nat]
<1>1. c \in R /\ c.congestion_window + more \in Nat
      BY DEF Controls
<1>2. d \in R
  <2> DEFINE w == c.congestion_window + more
  <2>1. d = [c EXCEPT !.stash = left, !.congestion_window = w]
        BY <1>1
  <2>2. w \in Nat
        BY <1>1
  <2> HIDE DEF w
  <2>3. QED BY <1>1, <2>1, <2>2
<1>3. /\ d.congestion_window = c.congestion_window + more /\ d.ssthresh = c.ssthresh
      /\ d.bytes_in_flight = c.bytes_in_flight /\ d.recovery_start = c.recovery_start
      BY <1>1
<1>4. MinimumWindow \in Nat
      BY WindowAssumption
<1> HIDE DEF d
<1>5. d \in Controls /\ d.congestion_window >= c.congestion_window
  <2>1. d.congestion_window >= MinimumWindow
        BY <1>1, <1>3, <1>4 DEF Controls
  <2>2. d.ssthresh # NoThreshold => d.congestion_window >= d.ssthresh
        BY <1>1, <1>3 DEF Controls, NoThreshold
  <2>3. QED BY <1>1, <1>2, <1>3, <2>1, <2>2 DEF Controls
<1>6. QED BY <1>3, <1>5 DEF d

\* An acknowledged packet leaves the bytes in flight, and narrows no window.
LEMMA PacketAcked ==
    ASSUME NEW c \in Controls, NEW p \in Packet
    PROVE  /\ OnPacketAcked(c, p) \in Controls
           /\ OnPacketAcked(c, p).bytes_in_flight = c.bytes_in_flight - p.sent_bytes
           /\ OnPacketAcked(c, p).congestion_window >= c.congestion_window
           /\ OnPacketAcked(c, p).recovery_start = c.recovery_start
<1> DEFINE d == [c EXCEPT !.bytes_in_flight = @ - p.sent_bytes]
<1>1. p.sent_bytes \in Nat /\ DatagramSize \in Nat /\ MinimumWindow \in Nat \ {0}
      BY WindowAssumption DEF Packet
<1>2. /\ d \in Controls /\ d.bytes_in_flight = c.bytes_in_flight - p.sent_bytes
      /\ d.congestion_window = c.congestion_window /\ d.recovery_start = c.recovery_start
      BY <1>1 DEF Controls
<1> HIDE DEF d
<1>3. /\ Grown(d, p) \in Controls
      /\ Grown(d, p).bytes_in_flight = d.bytes_in_flight
      /\ Grown(d, p).congestion_window >= d.congestion_window
      /\ Grown(d, p).recovery_start = d.recovery_start
  <2>1. CASE InRecovery(d, p)
        BY <1>2, <2>1 DEF Grown, Controls
  <2>2. CASE ~InRecovery(d, p) /\ SlowStart(d)
    <3> DEFINE more == p.sent_bytes
               left == d.stash
    <3>1. Grown(d, p) = [d EXCEPT !.congestion_window = @ + more]
          BY <2>2 DEF Grown
    <3>2. more \in Nat /\ left \in Nat
          BY <1>1, <1>2 DEF Controls
    <3>3. Grown(d, p) = [d EXCEPT !.stash = left, !.congestion_window = @ + more]
          BY <1>2, <3>1 DEF Controls
    <3> HIDE DEF more, left
    <3>4. LET e == [d EXCEPT !.stash = left, !.congestion_window = @ + more]
          IN  /\ e \in Controls /\ e.bytes_in_flight = d.bytes_in_flight
              /\ e.congestion_window >= d.congestion_window
              /\ e.recovery_start = d.recovery_start
          BY <1>2, <3>2, Widened
    <3>5. QED BY <3>3, <3>4
  <2>3. CASE ~InRecovery(d, p) /\ ~SlowStart(d)
    <3> DEFINE stash == d.stash + p.sent_bytes
               count == stash \div d.congestion_window
               left == stash - count * d.congestion_window
               more == count * DatagramSize
    <3>1. Grown(d, p) = [d EXCEPT !.stash = left,
                                  !.congestion_window = @ + more]
          BY <2>3 DEF Grown
    <3>2. stash \in Nat /\ d.congestion_window \in Nat \ {0}
          BY <1>1, <1>2 DEF Controls
    <3>3. count \in Nat /\ left \in Nat
      <4> HIDE DEF stash
      <4> QED BY <3>2, Quotient
    <3>4. more \in Nat
      <4> HIDE DEF count
      <4> QED BY <1>1, <3>3
    <3> HIDE DEF left, more
    <3>5. LET e == [d EXCEPT !.stash = left, !.congestion_window = @ + more]
          IN  /\ e \in Controls /\ e.bytes_in_flight = d.bytes_in_flight
              /\ e.congestion_window >= d.congestion_window
              /\ e.recovery_start = d.recovery_start
          BY <1>2, <3>3, <3>4, Widened
    <3>6. QED BY <3>1, <3>5
  <2>4. QED BY <2>1, <2>2, <2>3
<1>4. QED BY <1>2, <1>3 DEF OnPacketAcked, d

\* Acknowledged packets, each in its turn, leave the bytes in flight, and narrow no window.
LEMMA PacketsAcked ==
    ASSUME NEW c \in Controls, NEW S \in SUBSET Nat, IsFiniteSet(S),
           NEW packets \in [S -> Packet]
    PROVE  /\ OnPacketsAcked(c, packets) \in Controls
           /\ OnPacketsAcked(c, packets).bytes_in_flight = c.bytes_in_flight - SumBytes(packets)
           /\ OnPacketsAcked(c, packets).congestion_window >= c.congestion_window
           /\ OnPacketsAcked(c, packets).recovery_start = c.recovery_start
<1> DEFINE Turn(it) == [s \in SUBSET S |->
                           IF s = {} THEN c
                           ELSE OnPacketAcked(it[s \ {Max(s)}], packets[Max(s)])]
           pick == [s \in SUBSET S |-> Max(s)]
           step == [x \in S \X Controls |-> OnPacketAcked(x[2], packets[x[1]])]
           it0 == CHOOSE it : it = Turn(it)
           bytes == [n \in S |-> packets[n].sent_bytes]
<1>1. OnPacketsAcked(c, packets) = it0[S]
  <2>1. DOMAIN packets = S
        OBVIOUS
  <2>2. OnPacketsAcked(c, packets) = (CHOOSE it : it = [s \in SUBSET DOMAIN packets |->
                IF s = {} THEN c
                ELSE OnPacketAcked(it[s \ {Max(s)}], packets[Max(s)])])[DOMAIN packets]
        BY DEF OnPacketsAcked, MapThenFoldSet
  <2>3. QED BY <2>1, <2>2
<1>2. \A s \in SUBSET S : s # {} => Max(s) \in s
  <2>1. ASSUME NEW s \in SUBSET S, s # {} PROVE Max(s) \in s
    <3>1. IsFiniteSet(s) /\ s \in SUBSET Nat
          BY FS_Subset
    <3>2. QED BY <2>1, <3>1, MaxOfFinite
  <2>2. QED BY <2>1
<1>3. step \in [S \X Controls -> Controls]
  <2>1. ASSUME NEW x \in S \X Controls PROVE OnPacketAcked(x[2], packets[x[1]]) \in Controls
        BY PacketAcked
  <2>2. QED BY <2>1
<1>4. PICK it : it \in Iterations(S, Controls, c, pick, step)
  <2>1. \A s \in SUBSET S : s # {} => pick[s] \in s
        BY <1>2
  <2> HIDE DEF pick, step
  <2>2. Iterations(S, Controls, c, pick, step) # {}
        BY <1>3, <2>1, FoldExists
  <2>3. QED BY <2>2
<1>5. it \in [SUBSET S -> Controls] /\ it = Turn(it)
  <2>1. /\ it \in [SUBSET S -> Controls]
        /\ it = [s \in SUBSET S |->
                    IF s = {} THEN c ELSE step[<<pick[s], it[s \ {pick[s]}]>>]]
        BY <1>4 DEF Iterations
  <2>2. \A s \in SUBSET S : pick[s] = Max(s)
        OBVIOUS
  <2>3. ASSUME NEW s \in SUBSET S, s # {}
        PROVE  step[<<Max(s), it[s \ {Max(s)}]>>]
                   = OnPacketAcked(it[s \ {Max(s)}], packets[Max(s)])
    <3>1. Max(s) \in S /\ it[s \ {Max(s)}] \in Controls
          BY <1>2, <2>1, <2>3
    <3>2. QED BY <3>1
  <2> HIDE DEF pick, step
  <2>4. QED BY <2>1, <2>2, <2>3
<1>6. it0 = Turn(it0)
  <2> HIDE DEF Turn
  <2>1. QED BY <1>5
<1>7. IsFiniteSet(S) /\ bytes \in [S -> Int] /\ SumBytes(packets) = SumFunction(bytes)
      BY DEF Packet, SumBytes
<1> HIDE DEF bytes
<1>8. PICK B : IsSum(B, bytes, S) /\ SumFunction(bytes) = B[S]
      BY <1>7, SumFunctionIsSum
<1> DEFINE Good == {s \in SUBSET S :
                       /\ it0[s] \in Controls
                       /\ it0[s].bytes_in_flight = c.bytes_in_flight - B[s]
                       /\ it0[s].congestion_window >= c.congestion_window
                       /\ it0[s].recovery_start = c.recovery_start}
<1>9. \A s \in SUBSET S : s \in Good
  <2> HIDE DEF it0
  <2>1. {} \in Good
    <3>1. it0[{}] = c /\ B[{}] = 0
          BY <1>6, <1>8 DEF IsSum
    <3>2. QED BY <3>1 DEF Controls
  <2>2. ASSUME NEW s \in SUBSET S, s # {}, \A x \in s : s \ {x} \in Good PROVE s \in Good
    <3> DEFINE n == Max(s)
               d == it0[s \ {n}]
               p == packets[n]
    <3>1. n \in s /\ s \ {n} \in Good
          BY <1>2, <2>2
    <3>2. it0[s] = OnPacketAcked(d, p)
          BY <1>6, <2>2
    <3>3. p \in Packet /\ d \in Controls /\ bytes[n] = p.sent_bytes
          BY <3>1 DEF bytes
    <3>4. B[s] = bytes[n] + B[s \ {n}] /\ bytes[n] \in Int /\ B[s \ {n}] \in Int
      <4> HIDE DEF n
      <4>1. QED BY <1>7, <1>8, <3>1 DEF IsSum
    <3>5. /\ d.bytes_in_flight = c.bytes_in_flight - B[s \ {n}]
          /\ d.congestion_window >= c.congestion_window
          /\ d.recovery_start = c.recovery_start
          BY <3>1
    <3> HIDE DEF n, d, p, Good
    <3>6. /\ OnPacketAcked(d, p) \in Controls
          /\ OnPacketAcked(d, p).bytes_in_flight = d.bytes_in_flight - p.sent_bytes
          /\ OnPacketAcked(d, p).congestion_window >= d.congestion_window
          /\ OnPacketAcked(d, p).recovery_start = d.recovery_start
          BY <3>3, PacketAcked
    <3>7. it0[s].bytes_in_flight = c.bytes_in_flight - B[s]
          BY <3>2, <3>3, <3>4, <3>5, <3>6, ControlsFields
    <3>8. it0[s].congestion_window >= c.congestion_window
          BY <3>2, <3>3, <3>5, <3>6, ControlsFields
    <3>9. QED BY <3>2, <3>5, <3>6, <3>7, <3>8 DEF Good
  <2> HIDE DEF Good
  <2>3. QED BY <2>1, <2>2, AllSubsets
<1>10. S \in Good
  <2> HIDE DEF Good
  <2>1. QED BY <1>9
<1> HIDE DEF it0
<1>11. QED BY <1>1, <1>7, <1>8, <1>10

\* Packets that leave without a verdict.
LEMMA PacketsExpired ==
    ASSUME NEW c \in Controls, NEW packets, SumBytes(packets) \in Int
    PROVE  /\ OnPacketsExpired(c, packets) \in Controls
           /\ OnPacketsExpired(c, packets).bytes_in_flight
                  = c.bytes_in_flight - SumBytes(packets)
           /\ OnPacketsExpired(c, packets).congestion_window = c.congestion_window
           /\ OnPacketsExpired(c, packets).recovery_start = c.recovery_start
<1> DEFINE b == SumBytes(packets)
<1> HIDE DEF b
<1>1. OnPacketsExpired(c, packets) = [c EXCEPT !.bytes_in_flight = @ - b] /\ b \in Int
      BY DEF OnPacketsExpired, b
<1>2. QED BY <1>1 DEF Controls, b

\* A round trip time that increases narrows no window.
LEMMA RttMeasured ==
    ASSUME NEW c \in Controls, NEW increasing
    PROVE  /\ OnRttMeasurement(c, increasing) \in Controls
           /\ OnRttMeasurement(c, increasing).bytes_in_flight = c.bytes_in_flight
           /\ OnRttMeasurement(c, increasing).congestion_window = c.congestion_window
           /\ OnRttMeasurement(c, increasing).recovery_start = c.recovery_start
BY DEF Controls, OnRttMeasurement, NoThreshold

\* Packets that are lost, none of them sent later than now, narrow the window only when
\* one of them was sent after the last congestion event began, and another begins now.
LEMMA PacketsLost ==
    ASSUME NEW c \in Controls, NEW S \in SUBSET Nat, IsFiniteSet(S), S # {},
           NEW packets \in [S -> Packet], NEW time \in Nat,
           SumBytes(packets) \in Int
    PROVE  LET d == OnPacketsLost(c, packets, time)
           IN  /\ d \in Controls
               /\ d.bytes_in_flight = c.bytes_in_flight - SumBytes(packets)
               /\ d.recovery_start \in {c.recovery_start, time}
               /\ d.congestion_window < c.congestion_window =>
                      /\ d.recovery_start = time
                      /\ \E n \in S : packets[n].sent_time > c.recovery_start
<1> DEFINE left == OnPacketsExpired(c, packets)
           window == Reduced(left.congestion_window)
           threshold == Reduced(c.congestion_window)
           d == OnPacketsLost(c, packets, time)
           e == [left EXCEPT !.recovery_start = time,
                             !.congestion_window = window, !.ssthresh = threshold]
<1>1. /\ left \in Controls
      /\ left.bytes_in_flight = c.bytes_in_flight - SumBytes(packets)
      /\ left.congestion_window = c.congestion_window
      /\ left.recovery_start = c.recovery_start
      BY PacketsExpired
<1>2. window \in Nat /\ window = threshold /\ window >= MinimumWindow
      BY <1>1, Reduction DEF Controls
<1>3. CASE StartsEvent(c, packets)
  <2>1. d = e
        BY <1>3 DEF OnPacketsLost
  <2> HIDE DEF window, threshold, left
  <2>2. /\ e \in Controls /\ e.recovery_start = time
        /\ e.bytes_in_flight = left.bytes_in_flight
    <3> DEFINE R == [bytes_in_flight : Int, congestion_window : Nat, stash : Nat,
                     ssthresh : Nat \cup {NoThreshold}, recovery_start : Nat]
    <3>1. left \in R
          BY <1>1 DEF Controls
    <3>2. e \in R
          BY <1>2, <3>1
    <3>3. /\ e.congestion_window = window /\ e.ssthresh = threshold
          /\ e.recovery_start = time /\ e.bytes_in_flight = left.bytes_in_flight
          BY <3>1
    <3> HIDE DEF e
    <3>4. QED BY <1>2, <3>2, <3>3 DEF Controls
  <2>3. Max(DOMAIN packets) \in S /\ packets[Max(DOMAIN packets)].sent_time > c.recovery_start
    <3>1. DOMAIN packets = S
          OBVIOUS
    <3>2. packets[Max(DOMAIN packets)].sent_time > c.recovery_start
          BY <1>3 DEF StartsEvent, Latest
    <3>3. Max(S) \in S
          BY MaxOfFinite
    <3>4. QED BY <3>1, <3>2, <3>3
  <2> HIDE DEF d, e
  <2>4. /\ d \in Controls
        /\ d.bytes_in_flight = c.bytes_in_flight - SumBytes(packets)
        /\ d.recovery_start = time
        /\ \E n \in S : packets[n].sent_time > c.recovery_start
        BY <1>1, <2>1, <2>2, <2>3
  <2>5. QED BY <2>4 DEF d
<1>4. CASE ~StartsEvent(c, packets)
  <2>1. d = left
        BY <1>4 DEF OnPacketsLost
  <2> HIDE DEF d, left
  <2>2. /\ d \in Controls
        /\ d.bytes_in_flight = c.bytes_in_flight - SumBytes(packets)
        /\ d.recovery_start = c.recovery_start
        /\ ~(d.congestion_window < c.congestion_window)
        BY <1>1, <2>1, ControlsFields
  <2>3. QED BY <2>2 DEF d
<1>5. QED BY <1>3, <1>4

-----------------------------------------------------------------------------
(* Packets by number.                                                      *)

\* Of some packets, those in flight have bytes, and those that elicit an
\* acknowledgement are counted.
LEMMA CountsType ==
    ASSUME NEW S \in SUBSET Nat, IsFiniteSet(S), NEW packets \in [S -> Packet]
    PROVE  BytesOf(packets) \in Int /\ ElicitingIn(packets) \in Nat
<1> DEFINE T == {n \in S : InFlight(packets[n])}
           E == {n \in S : Eliciting(packets[n])}
           bytes == [n \in T |-> packets[n].sent_bytes]
<1>1. IsFiniteSet(T) /\ IsFiniteSet(E)
      BY FS_Subset
<1>2. BytesOf(packets) = SumFunction(bytes) /\ ElicitingIn(packets) = Cardinality(E)
      BY DEF BytesOf, SumBytes, Those, Restrict, InFlight, ElicitingIn, Eliciting
<1>3. bytes \in [T -> Int]
  <2>1. \A n \in T : packets[n].sent_bytes \in Int
        BY DEF Packet
  <2>2. QED BY <2>1
<1> HIDE DEF bytes, T, E
<1>4. QED BY <1>1, <1>2, <1>3, SumFunctionType, FS_CardinalityType

\* The counts of some packets are those of a part and those of the rest.
LEMMA CountsOfParts ==
    ASSUME NEW S \in SUBSET Nat, IsFiniteSet(S), NEW packets \in [S -> Packet],
           NEW A \in SUBSET S, NEW B, B = S \ A
    PROVE  /\ BytesOf(packets) = BytesOf(Restrict(packets, A)) + BytesOf(Restrict(packets, B))
           /\ ElicitingIn(packets)
                  = ElicitingIn(Restrict(packets, A)) + ElicitingIn(Restrict(packets, B))
<1> DEFINE T(R) == {n \in R : InFlight(packets[n])}
           E(R) == {n \in R : Eliciting(packets[n])}
           bytes(R) == [n \in T(R) |-> packets[n].sent_bytes]
<1>1. ASSUME NEW R \in SUBSET S
      PROVE  /\ BytesOf(Restrict(packets, R)) = SumFunction(bytes(R))
             /\ ElicitingIn(Restrict(packets, R)) = Cardinality(E(R))
  <2>1. /\ Those(Restrict(packets, R), InFlight) = [n \in T(R) |-> packets[n]]
        /\ DOMAIN Those(Restrict(packets, R), Eliciting) = E(R)
        BY DEF Those, Restrict, InFlight, Eliciting
  <2>2. SumBytes([n \in T(R) |-> packets[n]]) = SumFunction(bytes(R))
        BY DEF SumBytes
  <2>3. QED BY <2>1, <2>2 DEF BytesOf, ElicitingIn
<1>2. Restrict(packets, S) = packets
      BY DEF Restrict
<1>3. T(A) \in SUBSET T(S) /\ T(S) \ T(A) = T(B) /\ IsFiniteSet(T(S))
      BY FS_Subset
<1>4. E(A) \cup E(B) = E(S) /\ E(A) \cap E(B) = {} /\ IsFiniteSet(E(A)) /\ IsFiniteSet(E(B))
  <2>1. E(A) \in SUBSET S /\ E(B) \in SUBSET S
        OBVIOUS
  <2>2. IsFiniteSet(E(A)) /\ IsFiniteSet(E(B))
        BY <2>1, FS_Subset
  <2>3. QED BY <2>2
<1>5. \A n \in S : packets[n].sent_bytes \in Int
      BY DEF Packet
<1>6. SumFunction(bytes(S)) = SumFunction(bytes(A)) + SumFunction(bytes(B))
  <2> DEFINE bS == bytes(S)
             bA == bytes(A)
             bB == bytes(B)
             tS == T(S)
             tA == T(A)
             tB == T(B)
  <2>1. bS \in [tS -> Int] /\ bA \in [tA -> Int] /\ bB \in [tB -> Int]
        BY <1>5
  <2>2. (\A n \in tA : bA[n] = bS[n]) /\ (\A n \in tB : bB[n] = bS[n])
        BY <1>3
  <2>3. tA \in SUBSET tS /\ tB = tS \ tA /\ IsFiniteSet(tS)
        BY <1>3
  <2> HIDE DEF bS, bA, bB, tS, tA, tB
  <2>4. SumFunction(bS) = SumFunction(bA) + SumFunction(bB)
        BY <2>1, <2>2, <2>3, SumFunctionParts
  <2>5. QED BY <2>4 DEF bS, bA, bB
<1>7. Cardinality(E(S)) = Cardinality(E(A)) + Cardinality(E(B))
  <2> HIDE DEF E
  <2>1. Cardinality(E(A) \cup E(B))
            = Cardinality(E(A)) + Cardinality(E(B)) - Cardinality(E(A) \cap E(B))
        BY <1>4, FS_Union
  <2>2. Cardinality(E(A) \cap E(B)) = 0
        BY <1>4, FS_EmptySet
  <2>3. Cardinality(E(A)) \in Nat /\ Cardinality(E(B)) \in Nat
        BY <1>4, FS_CardinalityType
  <2>4. QED BY <1>4, <2>1, <2>2, <2>3
<1> HIDE DEF bytes, E
<1>8. S \in SUBSET S /\ B \in SUBSET S
      OBVIOUS
<1>9. QED BY <1>1, <1>2, <1>6, <1>7, <1>8

\* One more packet adds itself to the counts.
LEMMA CountsOfWith ==
    ASSUME NEW S \in SUBSET Nat, IsFiniteSet(S), NEW packets \in [S -> Packet],
           NEW n \in Nat \ S, NEW p \in Packet
    PROVE  /\ BytesOf(With(packets, n, p))
                  = BytesOf(packets) + (IF InFlight(p) THEN p.sent_bytes ELSE 0)
           /\ ElicitingIn(With(packets, n, p))
                  = ElicitingIn(packets) + (IF Eliciting(p) THEN 1 ELSE 0)
<1> DEFINE S1 == S \cup {n}
           more == With(packets, n, p)
           one == [m \in {n} |-> p]
<1>1. S1 \in SUBSET Nat /\ IsFiniteSet(S1) /\ more \in [S1 -> Packet]
      BY FS_AddElement DEF With
<1>2. S1 \ S = {n} /\ S \in SUBSET S1
      OBVIOUS
<1>3. Restrict(more, S) = packets /\ Restrict(more, {n}) = one
      BY DEF With, Restrict
<1>4. IsFiniteSet({n})
      BY FS_Singleton
<1>5. /\ BytesOf(more) = BytesOf(packets) + BytesOf(one)
      /\ ElicitingIn(more) = ElicitingIn(packets) + ElicitingIn(one)
  <2> HIDE DEF more, one, S1
  <2>1. QED BY <1>1, <1>2, <1>3, CountsOfParts
<1>6. BytesOf(one) = IF InFlight(p) THEN p.sent_bytes ELSE 0
  <2>1. CASE InFlight(p)
    <3> DEFINE g == [m \in {n} |-> p.sent_bytes]
               z == [m \in {n} |-> 0]
    <3>1. Those(one, InFlight) = one
          BY <2>1 DEF Those, Restrict, InFlight
    <3>2. SumBytes(one) = SumFunction(g)
          BY DEF SumBytes
    <3>3. p.sent_bytes \in Int
          BY DEF Packet
    <3>4. PICK G : IsSum(G, g, {n}) /\ SumFunction(g) = G[{n}]
      <4>1. g \in [{n} -> Int]
            BY <3>3
      <4> HIDE DEF g
      <4>2. QED BY <1>4, <4>1, SumFunctionIsSum
    <3>5. G[{n}] = g[n] + G[{n} \ {n}]
          BY <3>4 DEF IsSum
    <3>6. {n} \ {n} = {} /\ G[{}] = 0
          BY <3>4 DEF IsSum
    <3>7. SumFunction(g) = p.sent_bytes
          BY <3>3, <3>4, <3>5, <3>6
    <3>8. QED BY <2>1, <3>1, <3>2, <3>7 DEF BytesOf
  <2>2. CASE ~InFlight(p)
    <3> DEFINE none == [m \in {} |-> p]
               g == [m \in {} |-> p.sent_bytes]
    <3>1. Those(one, InFlight) = none
          BY <2>2 DEF Those, Restrict, InFlight
    <3>2. SumBytes(none) = SumFunction(g)
      <4>1. [m \in {} |-> none[m].sent_bytes] = g
            OBVIOUS
      <4>2. QED BY <4>1 DEF SumBytes
    <3>3. g \in [{} -> Int]
          OBVIOUS
    <3> HIDE DEF g, none, one
    <3>4. SumFunction(g) = 0
          BY <3>3, SumFunctionEmpty
    <3>5. QED BY <2>2, <3>1, <3>2, <3>4 DEF BytesOf
  <2>3. QED BY <2>1, <2>2
<1>7. ElicitingIn(one) = IF Eliciting(p) THEN 1 ELSE 0
  <2>1. DOMAIN Those(one, Eliciting) = IF Eliciting(p) THEN {n} ELSE {}
        BY DEF Those, Restrict, Eliciting
  <2>2. QED BY <2>1, FS_EmptySet, FS_Singleton DEF ElicitingIn
<1>8. QED BY <1>5, <1>6, <1>7

\* Nothing counts for nothing.
LEMMA CountsOfNone ==
    BytesOf(<< >>) = 0 /\ ElicitingIn(<< >>) = 0
<1> DEFINE none == << >>
           g == [m \in {} |-> 0]
<1>1. DOMAIN none = {}
      OBVIOUS
<1>2. /\ Those(none, InFlight) = [n \in {} |-> none[n]]
      /\ Those(none, Eliciting) = [n \in {} |-> none[n]]
      BY <1>1 DEF Those, Restrict
<1>3. SumBytes([n \in {} |-> none[n]]) = SumFunction(g)
  <2>1. [m \in {} |-> [n \in {} |-> none[n]][m].sent_bytes] = g
        OBVIOUS
  <2>2. QED BY <2>1 DEF SumBytes
<1>4. g \in [{} -> Int]
      OBVIOUS
<1> HIDE DEF g
<1>5. SumFunction(g) = 0
      BY <1>4, SumFunctionEmpty
<1>6. QED BY <1>2, <1>3, <1>5, FS_EmptySet DEF BytesOf, ElicitingIn

\* What packets that are lost do to the controller: as PacketsLost says, of those of
\* them that were in flight.
LEMMA LossControlled ==
    ASSUME NEW c \in Controls, NEW S \in SUBSET Nat, IsFiniteSet(S),
           NEW gone \in [S -> Packet], now \in Nat
    PROVE  LET d == ControlAfterLoss(c, gone)
           IN  /\ d \in Controls
               /\ d.bytes_in_flight = c.bytes_in_flight - BytesOf(gone)
               /\ d.recovery_start \in {c.recovery_start, now}
               /\ d.congestion_window < c.congestion_window =>
                      /\ d.recovery_start = now
                      /\ \E n \in S : gone[n].sent_time > c.recovery_start
<1> DEFINE T == {n \in S : InFlight(gone[n])}
           flight == Those(gone, InFlight)
           d == ControlAfterLoss(c, gone)
<1>1. /\ T \in SUBSET Nat /\ IsFiniteSet(T) /\ flight \in [T -> Packet] /\ DOMAIN flight = T
      /\ \A n \in T : flight[n] = gone[n]
      BY FS_Subset DEF Those, Restrict
<1>2. BytesOf(gone) = SumBytes(flight) /\ SumBytes(flight) \in Int
      BY CountsType DEF BytesOf
<1>3. CASE T = {}
  <2>1. d = c
        BY <1>1, <1>3 DEF ControlAfterLoss
  <2>2. SumBytes(flight) = 0
    <3> DEFINE g == [n \in DOMAIN flight |-> flight[n].sent_bytes]
    <3>1. g \in [{} -> Int]
          BY <1>1, <1>3
    <3> HIDE DEF g
    <3>2. SumFunction(g) = 0
          BY <3>1, SumFunctionEmpty
    <3>3. QED BY <3>2 DEF SumBytes, g
  <2> HIDE DEF d
  <2>3. /\ d \in Controls
        /\ d.bytes_in_flight = c.bytes_in_flight - BytesOf(gone)
        /\ d.recovery_start = c.recovery_start
        /\ ~(d.congestion_window < c.congestion_window)
        BY <1>2, <2>1, <2>2, ControlsFields
  <2>4. QED BY <2>3 DEF d
<1>4. CASE T # {}
  <2>1. d = OnPacketsLost(c, flight, now)
        BY <1>1, <1>4 DEF ControlAfterLoss
  <2> HIDE DEF T, flight, d
  <2>2. /\ d \in Controls
        /\ d.bytes_in_flight = c.bytes_in_flight - SumBytes(flight)
        /\ d.recovery_start \in {c.recovery_start, now}
        /\ d.congestion_window < c.congestion_window =>
               /\ d.recovery_start = now
               /\ \E n \in T : flight[n].sent_time > c.recovery_start
    <3> DEFINE time == now
    <3>1. time \in Nat
          OBVIOUS
    <3>2. d = OnPacketsLost(c, flight, time)
          BY <2>1
    <3> HIDE DEF time
    <3>3. /\ d \in Controls
          /\ d.bytes_in_flight = c.bytes_in_flight - SumBytes(flight)
          /\ d.recovery_start \in {c.recovery_start, time}
          /\ d.congestion_window < c.congestion_window =>
                 /\ d.recovery_start = time
                 /\ \E n \in T : flight[n].sent_time > c.recovery_start
          BY <1>1, <1>2, <1>4, <3>1, <3>2, PacketsLost
    <3>4. QED BY <3>3 DEF time
  <2>3. (\E n \in T : flight[n].sent_time > c.recovery_start) =>
            \E n \in S : gone[n].sent_time > c.recovery_start
        BY <1>1 DEF T
  <2>4. QED BY <1>2, <2>2, <2>3 DEF d
<1>5. QED BY <1>3, <1>4

-----------------------------------------------------------------------------
(* The counters of all spaces.                                             *)

\* There are finitely many spaces, and finitely many packets in each.
LEMMA EpochsFinite == IsFiniteSet(Epochs)
<1>1. Spaces \in Seq(Epochs)
      BY SpacesAssumption
<1> DEFINE I == 1..Len(Spaces)
<1>2. Epochs = {Spaces[i] : i \in I}
      BY <1>1 DEF Epochs, ToSet
<1>3. IsFiniteSet(I)
      BY <1>1, FS_Interval
<1> DEFINE f == [i \in I |-> Spaces[i]]
<1>4. f \in Surjection(I, Epochs)
      BY <1>2 DEF Surjection
<1> HIDE DEF I, f
<1>5. QED BY <1>3, <1>4, FS_Surjection

\* A space holds finitely many packets, by their numbers.
LEMMA SpaceFinite ==
    ASSUME StateOK, NEW e \in Epochs
    PROVE  /\ DOMAIN sent_packets[e] \in SUBSET Nat
           /\ IsFiniteSet(DOMAIN sent_packets[e])
           /\ sent_packets[e] \in [DOMAIN sent_packets[e] -> Packet]
<1>1. DOMAIN sent_packets[e] \in SUBSET Number /\ Number \in SUBSET Nat
      BY DEF StateOK, SpaceOK, Number
<1>2. IsFiniteSet(Number)
  <2>1. 0 \in Int /\ MaxPacket - 1 \in Int
        BY BoundAssumption
  <2>2. QED BY <2>1, FS_Interval DEF Number
<1>3. IsFiniteSet(DOMAIN sent_packets[e])
      BY <1>1, <1>2, FS_Subset
<1>4. QED BY <1>1, <1>3 DEF StateOK, SpaceOK

\* A space whose packets change by what the counters change by keeps them right.
LEMMA OneSpaceCounts ==
    ASSUME StateOK, CountersMatch, NEW e \in Epochs, NEW packets,
           sent_packets' = [sent_packets EXCEPT ![e] = packets],
           BytesOf(packets) \in Int, ElicitingIn(packets) \in Int,
           cc'.bytes_in_flight
               = cc.bytes_in_flight - BytesOf(sent_packets[e]) + BytesOf(packets),
           ack_eliciting_in_flight' = [ack_eliciting_in_flight EXCEPT
               ![e] = @ - ElicitingIn(sent_packets[e]) + ElicitingIn(packets)]
    PROVE  CountersMatch'
<1> DEFINE f == [d \in Epochs |-> BytesOf(sent_packets[d])]
           g == [d \in Epochs |-> BytesOf(sent_packets'[d])]
<1>1. /\ sent_packets'[e] = packets
      /\ \A d \in Epochs \ {e} : sent_packets'[d] = sent_packets[d]
      BY DEF StateOK
<1>2. \A d \in Epochs : BytesOf(sent_packets[d]) \in Int
      BY SpaceFinite, CountsType
<1>3. /\ f \in [Epochs -> Int] /\ g \in [Epochs -> Int]
      /\ \A d \in Epochs \ {e} : g[d] = f[d]
      /\ f[e] = BytesOf(sent_packets[e]) /\ g[e] = BytesOf(packets)
      BY <1>1, <1>2
<1>4. SumFunction(g) = SumFunction(f) - f[e] + g[e]
  <2> HIDE DEF f, g
  <2>1. QED BY <1>3, EpochsFinite, SumFunctionUpdate
<1>5. cc.bytes_in_flight = SumFunction(f)
      BY DEF CountersMatch
<1>6. cc'.bytes_in_flight = SumFunction(g)
  <2> HIDE DEF f, g
  <2>1. QED BY <1>3, <1>4, <1>5
<1>7. ASSUME NEW d \in Epochs
      PROVE  ack_eliciting_in_flight'[d] = ElicitingIn(sent_packets'[d])
  <2>1. /\ ack_eliciting_in_flight \in [Epochs -> Int]
        /\ ack_eliciting_in_flight[d] = ElicitingIn(sent_packets[d])
        BY DEF StateOK, CountersMatch
  <2>2. CASE d = e
    <3>1. ack_eliciting_in_flight'[e] = ack_eliciting_in_flight[e]
                  - ElicitingIn(sent_packets[e]) + ElicitingIn(packets)
          BY <2>1
    <3>2. ElicitingIn(sent_packets[e]) \in Int
          BY SpaceFinite, CountsType
    <3>3. QED BY <1>1, <2>1, <2>2, <3>1, <3>2
  <2>3. CASE d # e
        BY <1>1, <2>1, <2>3
  <2>4. QED BY <2>2, <2>3
<1>8. CountersMatch' = (/\ cc'.bytes_in_flight = SumFunction(g)
                        /\ \A d \in Epochs :
                              ack_eliciting_in_flight'[d] = ElicitingIn(sent_packets'[d]))
      BY DEF CountersMatch, BytesOf, ElicitingIn, SumBytes, Those, InFlight, Eliciting
<1>9. QED BY <1>6, <1>7, <1>8

\* When packets are only taken out, and the window narrows only as a congestion event
\* begins, the invariant holds on.
LEMMA Shrinks ==
    ASSUME RecoveryInv, now' = now, numbers' = numbers, DOMAIN sent_packets' = Epochs,
           \A e \in Epochs : \E A \in SUBSET DOMAIN sent_packets[e] :
               sent_packets'[e] = Restrict(sent_packets[e], A),
           ack_eliciting_in_flight' \in [Epochs -> Int], CountersMatch',
           cc' \in Controls, cc'.recovery_start \in {cc.recovery_start, now},
           \/ cut_at' = cut_at
           \/ cut_at' = NextNumber /\ cc'.recovery_start = now
    PROVE  RecoveryInv'
<1> USE DEF RecoveryInv, StateOK
<1>1. NextNumber' = NextNumber
      BY DEF NextNumber
<1>2. ASSUME NEW e \in Epochs PROVE SpaceOK(e)'
  <2>1. PICK A \in SUBSET DOMAIN sent_packets[e] :
            sent_packets'[e] = Restrict(sent_packets[e], A)
        OBVIOUS
  <2>2. SpaceOK(e)
        OBVIOUS
  <2>3. /\ DOMAIN sent_packets'[e] = A
        /\ \A n \in A : sent_packets'[e][n] = sent_packets[e][n]
        /\ sent_packets'[e] \in [A -> Packet]
        BY <2>1, <2>2 DEF Restrict, SpaceOK
  <2>4. QED BY <2>2, <2>3 DEF SpaceOK
<1>3. StateOK'
      BY <1>2, ControlsFields
<1>4. Numbered'
      BY <1>1 DEF Numbered
<1>5. BeforeCut'
  <2>1. cut_at' \in Nat /\ cut_at' <= NextNumber'
        BY <1>1 DEF BeforeCut, Numbered
  <2>2. ASSUME NEW e \in Epochs, NEW n \in DOMAIN sent_packets'[e], n < cut_at'
        PROVE  sent_packets'[e][n].sent_time <= cc'.recovery_start
    <3>1. PICK A \in SUBSET DOMAIN sent_packets[e] :
              sent_packets'[e] = Restrict(sent_packets[e], A)
          OBVIOUS
    <3>2. n \in DOMAIN sent_packets[e] /\ sent_packets'[e][n] = sent_packets[e][n]
          BY <2>2, <3>1 DEF Restrict
    <3>3. sent_packets[e][n].sent_time \in Nat /\ sent_packets[e][n].sent_time <= now
          BY <3>2 DEF SpaceOK, Packet
    <3>4. CASE cc'.recovery_start = now
          BY <3>2, <3>3, <3>4
    <3>5. CASE cc'.recovery_start = cc.recovery_start /\ cut_at' = cut_at
          BY <2>2, <3>2, <3>5 DEF BeforeCut
    <3>6. CASE cc'.recovery_start = cc.recovery_start /\ cc.recovery_start = now
          BY <3>2, <3>3, <3>6
    <3>7. QED BY <3>4, <3>5
  <2>3. QED BY <2>1, <2>2 DEF BeforeCut
<1>6. QED BY <1>3, <1>4, <1>5

-----------------------------------------------------------------------------
(* Losses.                                                                 *)

\* The window is narrowed for a packet sent after it was last narrowed.
CutIsNew ==
    cc'.congestion_window < cc.congestion_window =>
        \E e \in Epochs : \E n \in DOMAIN sent_packets[e] \ DOMAIN sent_packets'[e] : n >= cut_at

\* A packet sent after the last congestion event began was sent after the last cut.
LEMMA SentSinceCut ==
    ASSUME RecoveryInv, NEW e \in Epochs, NEW n \in DOMAIN sent_packets[e],
           sent_packets[e][n].sent_time > cc.recovery_start
    PROVE  n >= cut_at
<1>1. n \in Nat /\ cut_at \in Nat
      BY SpaceFinite DEF RecoveryInv, BeforeCut
<1>2. sent_packets[e][n].sent_time \in Nat /\ cc.recovery_start \in Nat
      BY SpaceFinite, ControlsFields DEF RecoveryInv, StateOK, Packet
<1>3. ~(n < cut_at)
      BY <1>2 DEF RecoveryInv, BeforeCut
<1>4. QED BY <1>1, <1>3

\* Looking for losses in a space, some of whose packets were acknowledged.
LEMMA LossDetected ==
    ASSUME RecoveryInv, now' = now, numbers' = numbers, NEW e \in Epochs,
           NEW A \in SUBSET DOMAIN sent_packets[e], NEW control \in Controls,
           control.bytes_in_flight = cc.bytes_in_flight
               - BytesOf(Restrict(sent_packets[e], DOMAIN sent_packets[e] \ A)),
           control.congestion_window >= cc.congestion_window,
           control.recovery_start = cc.recovery_start,
           DetectLoss(e, Restrict(sent_packets[e], A), control)
    PROVE  RecoveryInv' /\ CutIsNew
<1> DEFINE S == DOMAIN sent_packets[e]
           packets == sent_packets[e]
           rest == Restrict(packets, A)
           newly == Restrict(packets, S \ A)
           gone == LostOf(rest, largest_acked_packet'[e], loss_delay')
           G == DOMAIN gone
           left == Without(rest, gone)
<1>1. /\ S \in SUBSET Nat /\ IsFiniteSet(S) /\ packets \in [S -> Packet]
      /\ A \in SUBSET Nat /\ IsFiniteSet(A) /\ rest \in [A -> Packet]
      /\ S \ A \in SUBSET Nat /\ IsFiniteSet(S \ A) /\ newly \in [S \ A -> Packet]
  <2>1. S \in SUBSET Nat /\ IsFiniteSet(S) /\ packets \in [S -> Packet]
        BY SpaceFinite DEF RecoveryInv
  <2>2. rest \in [A -> Packet] /\ newly \in [S \ A -> Packet]
        BY <2>1 DEF Restrict
  <2>3. QED BY <2>1, <2>2, FS_Subset
<1>2. /\ G \in SUBSET A /\ gone = Restrict(rest, G) /\ left = Restrict(rest, A \ G)
      BY <1>1 DEF LostOf, Without, Restrict
<1>3. left = Restrict(packets, A \ G) /\ Without(packets, rest) = newly
      BY <1>1, <1>2 DEF Without, Restrict
<1>4. gone \in [G -> Packet] /\ left \in [A \ G -> Packet]
      /\ \A n \in G : gone[n] = packets[n]
      BY <1>1, <1>2 DEF Restrict
<1>5. /\ G \in SUBSET Nat /\ IsFiniteSet(G) /\ A \ G \in SUBSET Nat /\ IsFiniteSet(A \ G)
      BY <1>1, <1>2, FS_Subset
<1>6. /\ sent_packets' = [sent_packets EXCEPT ![e] = left]
      /\ ack_eliciting_in_flight' = [ack_eliciting_in_flight EXCEPT
             ![e] = @ - ElicitingIn(newly) - ElicitingIn(gone)]
      /\ cc' = ControlAfterLoss(control, gone)
      /\ cut_at' = IF cc'.congestion_window < cc.congestion_window THEN NextNumber ELSE cut_at
      BY <1>3 DEF DetectLoss, WindowHistory
<1> HIDE DEF S, packets, rest, newly, gone, G, left
<1>7. /\ BytesOf(packets) = BytesOf(newly) + BytesOf(rest)
      /\ ElicitingIn(packets) = ElicitingIn(newly) + ElicitingIn(rest)
  <2>1. A = S \ (S \ A) /\ S \ A \in SUBSET S
        BY DEF S
  <2>2. QED BY <1>1, <2>1, CountsOfParts DEF newly, rest
<1>8. /\ BytesOf(rest) = BytesOf(gone) + BytesOf(left)
      /\ ElicitingIn(rest) = ElicitingIn(gone) + ElicitingIn(left)
      BY <1>1, <1>2, CountsOfParts
<1>9. /\ BytesOf(newly) \in Int /\ BytesOf(gone) \in Int /\ BytesOf(left) \in Int
      /\ ElicitingIn(newly) \in Int /\ ElicitingIn(gone) \in Int /\ ElicitingIn(left) \in Int
      BY <1>1, <1>4, <1>5, CountsType
<1>10. /\ cc' \in Controls
       /\ cc'.bytes_in_flight = control.bytes_in_flight - BytesOf(gone)
       /\ cc'.recovery_start \in {control.recovery_start, now}
       /\ cc'.congestion_window < control.congestion_window =>
              /\ cc'.recovery_start = now
              /\ \E n \in G : gone[n].sent_time > control.recovery_start
  <2>1. now \in Nat
        BY DEF RecoveryInv, StateOK
  <2>2. QED BY <1>4, <1>5, <1>6, <2>1, LossControlled
<1>11. cc.bytes_in_flight \in Int /\ ack_eliciting_in_flight[e] \in Int
       BY ControlsFields DEF RecoveryInv, StateOK
<1>12. CountersMatch'
  <2>1. cc'.bytes_in_flight = cc.bytes_in_flight - BytesOf(packets) + BytesOf(left)
    <3>1. control.bytes_in_flight = cc.bytes_in_flight - BytesOf(newly)
          BY DEF newly, packets, S
    <3>2. QED BY <1>7, <1>8, <1>9, <1>10, <1>11, <3>1
  <2>2. ack_eliciting_in_flight[e] - ElicitingIn(newly) - ElicitingIn(gone)
            = ack_eliciting_in_flight[e] - ElicitingIn(packets) + ElicitingIn(left)
        BY <1>7, <1>8, <1>9, <1>11
  <2>3. ack_eliciting_in_flight' = [ack_eliciting_in_flight EXCEPT
            ![e] = @ - ElicitingIn(packets) + ElicitingIn(left)]
        BY <1>6, <2>2
  <2>4. QED BY <1>6, <1>9, <2>1, <2>3, OneSpaceCounts DEF RecoveryInv, packets
<1>13. cc'.congestion_window < cc.congestion_window =>
           cc'.congestion_window < control.congestion_window
       BY <1>10, ControlsFields DEF RecoveryInv, StateOK
<1>14. RecoveryInv'
  <2>1. DOMAIN sent_packets' = Epochs
        BY <1>6 DEF RecoveryInv, StateOK
  <2>2. ASSUME NEW d \in Epochs
        PROVE  \E B \in SUBSET DOMAIN sent_packets[d] :
                   sent_packets'[d] = Restrict(sent_packets[d], B)
    <3>1. CASE d = e
      <4>1. sent_packets'[d] = left /\ A \ G \in SUBSET S
            BY <1>6, <3>1 DEF RecoveryInv, StateOK, S
      <4>2. QED BY <1>3, <3>1, <4>1 DEF packets, S
    <3>2. CASE d # e
      <4>1. sent_packets'[d] = sent_packets[d]
            BY <1>6, <3>2 DEF RecoveryInv, StateOK
      <4>2. Restrict(sent_packets[d], DOMAIN sent_packets[d]) = sent_packets[d]
            BY SpaceFinite DEF Restrict, RecoveryInv
      <4>3. QED BY <4>1, <4>2
    <3>3. QED BY <3>1, <3>2
  <2>3. ack_eliciting_in_flight' \in [Epochs -> Int]
        BY <1>6, <1>9, <1>11 DEF RecoveryInv, StateOK
  <2>4. \/ cut_at' = cut_at
        \/ cut_at' = NextNumber /\ cc'.recovery_start = now
        BY <1>6, <1>10, <1>13
  <2>5. QED BY <1>10, <1>12, <2>1, <2>2, <2>3, <2>4, Shrinks
<1>15. CutIsNew
  <2>1. SUFFICES ASSUME cc'.congestion_window < cc.congestion_window
                 PROVE  \E n \in S \ DOMAIN sent_packets'[e] : n >= cut_at
        BY DEF CutIsNew, S
  <2>2. PICK n \in G : gone[n].sent_time > cc.recovery_start
        BY <1>10, <1>13, <2>1
  <2>3. n \in S /\ packets[n].sent_time > cc.recovery_start
        BY <1>2, <1>4, <2>2 DEF S
  <2>4. n >= cut_at
        BY <2>3, SentSinceCut DEF S, packets
  <2>5. DOMAIN sent_packets'[e] = A \ G
        BY <1>4, <1>6 DEF RecoveryInv, StateOK
  <2>6. QED BY <2>2, <2>3, <2>4, <2>5
<1>16. QED BY <1>14, <1>15

\* The CRYPTO packets of all spaces count as lost, one space after the other.
LEMMA CryptoRescheduled ==
    ASSUME RecoveryInv, now' = now, numbers' = numbers, RescheduleData
    PROVE  RecoveryInv' /\ CutIsNew
<1> DEFINE crypto(e) == Those(sent_packets[e], IsCrypto)
           C(e) == DOMAIN crypto(e)
           left(e) == Without(sent_packets[e], crypto(e))
           AfterSpace(control, e) == ControlAfterLoss(control, crypto(e))
           N == Len(Spaces)
           bytes == [e \in Epochs |-> BytesOf(crypto(e))]
           old == [e \in Epochs |-> BytesOf(sent_packets[e])]
           new == [e \in Epochs |-> BytesOf(left(e))]
<1>1. /\ sent_packets' = [e \in Epochs |-> left(e)]
      /\ ack_eliciting_in_flight' =
             [e \in Epochs |-> ack_eliciting_in_flight[e] - ElicitingIn(crypto(e))]
      /\ cc' = FoldLeft(AfterSpace, cc, Spaces)
      /\ cut_at' = IF cc'.congestion_window < cc.congestion_window THEN NextNumber ELSE cut_at
      BY DEF RescheduleData, WindowHistory
<1>2. ASSUME NEW e \in Epochs
      PROVE  /\ C(e) \in SUBSET DOMAIN sent_packets[e]
             /\ crypto(e) = Restrict(sent_packets[e], C(e))
             /\ left(e) = Restrict(sent_packets[e], DOMAIN sent_packets[e] \ C(e))
             /\ crypto(e) \in [C(e) -> Packet]
             /\ \A n \in C(e) : crypto(e)[n] = sent_packets[e][n]
             /\ C(e) \in SUBSET Nat /\ IsFiniteSet(C(e))
             /\ BytesOf(sent_packets[e]) = BytesOf(crypto(e)) + BytesOf(left(e))
             /\ ElicitingIn(sent_packets[e]) = ElicitingIn(crypto(e)) + ElicitingIn(left(e))
             /\ BytesOf(sent_packets[e]) \in Int /\ ElicitingIn(sent_packets[e]) \in Int
             /\ BytesOf(crypto(e)) \in Int /\ BytesOf(left(e)) \in Int
             /\ ElicitingIn(crypto(e)) \in Int /\ ElicitingIn(left(e)) \in Int
  <2> DEFINE S == DOMAIN sent_packets[e]
             packets == sent_packets[e]
             c == crypto(e)
             l == left(e)
             A == C(e)
             B == S \ A
  <2>1. S \in SUBSET Nat /\ IsFiniteSet(S) /\ packets \in [S -> Packet]
        BY SpaceFinite DEF RecoveryInv
  <2>2. /\ A \in SUBSET S /\ c = Restrict(packets, A) /\ l = Restrict(packets, B)
        /\ c \in [A -> Packet] /\ l \in [B -> Packet]
        /\ \A n \in A : c[n] = packets[n]
        BY <2>1 DEF Those, Without, Restrict
  <2>3. A \in SUBSET Nat /\ IsFiniteSet(A) /\ B \in SUBSET Nat /\ IsFiniteSet(B)
        BY <2>1, <2>2, FS_Subset
  <2>4. B = S \ A
        OBVIOUS
  <2> HIDE DEF S, packets, c, l, A, B
  <2>5. /\ BytesOf(packets) = BytesOf(c) + BytesOf(l)
        /\ ElicitingIn(packets) = ElicitingIn(c) + ElicitingIn(l)
        BY <2>1, <2>2, <2>4, CountsOfParts
  <2>6. /\ BytesOf(packets) \in Int /\ ElicitingIn(packets) \in Int
        /\ BytesOf(c) \in Int /\ BytesOf(l) \in Int
        /\ ElicitingIn(c) \in Int /\ ElicitingIn(l) \in Int
        BY <2>1, <2>2, <2>3, CountsType
  <2>7. QED BY <2>2, <2>3, <2>5, <2>6 DEF S, packets, c, l, A, B
<1> HIDE DEF crypto, C, left
<1>3. /\ N \in Nat /\ N # 0 /\ DOMAIN Spaces = 1..N
      /\ \A i \in 1..N : Spaces[i] \in Epochs
      /\ \A e \in Epochs : \E i \in 1..N : Spaces[i] = e
      /\ \A i, j \in 1..N : Spaces[i] = Spaces[j] => i = j
      BY SpacesAssumption DEF Epochs, ToSet, IsInjective
<1>4. bytes \in [Epochs -> Int] /\ \A e \in Epochs : bytes[e] = BytesOf(crypto(e))
      BY <1>2
<1>5. PICK F : IsSum(F, bytes, Epochs) /\ SumFunction(bytes) = F[Epochs]
  <2> HIDE DEF bytes
  <2>1. QED BY <1>4, EpochsFinite, SumFunctionIsSum
<1> DEFINE some(k) == {Spaces[i] : i \in 1..k}
           Moved(c) == c.congestion_window < cc.congestion_window =>
                           /\ c.recovery_start = now
                           /\ \E e \in Epochs : \E n \in C(e) : n >= cut_at
           step == [x \in (1..N) \X Controls |-> AfterSpace(x[2], Spaces[x[1]])]
<1>6. now \in Nat /\ cc \in Controls /\ cc.recovery_start <= now
      BY DEF RecoveryInv, StateOK
<1>7. ASSUME NEW c \in Controls, NEW e \in Epochs
      PROVE  /\ AfterSpace(c, e) \in Controls
             /\ AfterSpace(c, e).bytes_in_flight = c.bytes_in_flight - bytes[e]
             /\ AfterSpace(c, e).recovery_start \in {c.recovery_start, now}
             /\ AfterSpace(c, e).congestion_window < c.congestion_window =>
                    /\ AfterSpace(c, e).recovery_start = now
                    /\ \E n \in C(e) : sent_packets[e][n].sent_time > c.recovery_start
  <2> DEFINE gone == crypto(e)
             S == C(e)
             d == ControlAfterLoss(c, gone)
  <2>1. gone \in [S -> Packet] /\ S \in SUBSET Nat /\ IsFiniteSet(S)
        /\ \A n \in S : gone[n] = sent_packets[e][n]
        BY <1>2
  <2>2. AfterSpace(c, e) = d /\ bytes[e] = BytesOf(gone)
        BY <1>4
  <2> HIDE DEF gone, S
  <2>3. /\ d \in Controls
        /\ d.bytes_in_flight = c.bytes_in_flight - BytesOf(gone)
        /\ d.recovery_start \in {c.recovery_start, now}
        /\ d.congestion_window < c.congestion_window =>
               /\ d.recovery_start = now
               /\ \E n \in S : gone[n].sent_time > c.recovery_start
        BY <1>6, <2>1, LossControlled
  <2> HIDE DEF d, AfterSpace
  <2>4. QED BY <2>1, <2>2, <2>3 DEF S
<1>8. step \in [(1..N) \X Controls -> Controls]
      /\ \A i \in 1..N, c \in Controls : step[<<i, c>>] = AfterSpace(c, Spaces[i])
  <2>1. \A x \in (1..N) \X Controls : AfterSpace(x[2], Spaces[x[1]]) \in Controls
        BY <1>3, <1>7
  <2> HIDE DEF AfterSpace
  <2>2. QED BY <2>1
<1> HIDE DEF AfterSpace, bytes, some, C
<1>9. PICK h \in [0..N -> Controls] :
          /\ h[0] = cc /\ h[N] = cc'
          /\ \A i \in 1..N : h[i] = AfterSpace(h[i - 1], Spaces[i])
  <2> DEFINE Turn(it) == [s \in SUBSET (1..N) |->
                             IF s = {} THEN cc
                             ELSE AfterSpace(it[s \ {Max(s)}], Spaces[Max(s)])]
             it0 == CHOOSE it : it = Turn(it)
  <2>1. cc' = it0[1..N]
    <3>1. FoldLeft(AfterSpace, cc, Spaces) = (CHOOSE it : it = [s \in SUBSET DOMAIN Spaces |->
                IF s = {} THEN cc
                ELSE AfterSpace(it[s \ {Max(s)}], Spaces[Max(s)])])[DOMAIN Spaces]
          BY DEF FoldLeft, MapThenFoldSet
    <3>2. QED BY <1>1, <1>3, <3>1
  <2>2. PICK it \in [SUBSET (1..N) -> Controls] :
            it = [s \in SUBSET (1..N) |->
                     IF s = {} THEN cc ELSE step[<<Max(s), it[s \ {Max(s)}]>>]]
    <3> HIDE DEF step, N
    <3>1. LeftIterations(N, Controls, cc, step) # {}
          BY <1>3, <1>6, <1>8, LeftFoldExists
    <3>2. QED BY <3>1 DEF LeftIterations
  <2>3. it = Turn(it)
    <3>1. ASSUME NEW s \in SUBSET (1..N), s # {}
          PROVE  step[<<Max(s), it[s \ {Max(s)}]>>]
                     = AfterSpace(it[s \ {Max(s)}], Spaces[Max(s)])
      <4>1. Max(s) \in 1..N /\ it[s \ {Max(s)}] \in Controls
        <5> HIDE DEF N
        <5>1. Max(s) \in s
              BY <1>3, <3>1, MaxOfSome
        <5>2. QED BY <5>1
      <4> HIDE DEF step
      <4>2. QED BY <1>8, <4>1
    <3> HIDE DEF step
    <3>2. QED BY <2>2, <3>1
  <2>4. it0 = Turn(it0)
    <3> HIDE DEF Turn
    <3>1. QED BY <2>3
  <2> HIDE DEF it0, step, N
  <2>5. it0[{}] = cc
        BY <2>4
  <2>6. ASSUME NEW k \in 1..N, it0[1..(k - 1)] \in Controls
        PROVE  it0[1..k] = step[<<k, it0[1..(k - 1)]>>]
    <3>1. k \in Nat \ {0} /\ (1..k) \in SUBSET (1..N) /\ (1..k) # {}
      <4>1. k \in Int /\ 1 <= k /\ k <= N /\ N \in Int
            BY <1>3
      <4>2. k \in 1..k /\ \A i \in 1..k : i \in 1..N
            BY <4>1
      <4>3. QED BY <4>1, <4>2
    <3>2. Max(1..k) = k /\ (1..k) \ {k} = 1..(k - 1)
          BY <3>1, MaxUpTo
    <3>3. it0[1..k] = AfterSpace(it0[(1..k) \ {Max(1..k)}], Spaces[Max(1..k)])
          BY <2>4, <3>1
    <3>4. QED BY <1>8, <2>6, <3>2, <3>3
  <2>7. PICK h \in Walks(N, Controls, cc, step) : h[N] = it0[1..N]
    <3>1. FollowsLeft(it0, N, Controls, cc, step)
          BY <2>5, <2>6 DEF FollowsLeft
    <3>2. it0[1..N] \in WalksTo(N, Controls, cc, step)
          BY <1>3, <1>6, <1>8, <3>1, LeftFoldWalks
    <3>3. QED BY <3>2 DEF WalksTo
  <2>8. /\ h \in [0..N -> Controls] /\ h[0] = cc /\ h[N] = cc'
        /\ \A i \in 1..N : h[i] = step[<<i, h[i - 1]>>]
        BY <2>1, <2>7 DEF Walks
  <2>9. ASSUME NEW i \in 1..N PROVE h[i] = AfterSpace(h[i - 1], Spaces[i])
    <3>1. i - 1 \in 0..N
          BY <1>3
    <3>2. QED BY <1>8, <2>8, <3>1
  <2>10. QED BY <2>8, <2>9
<1> DEFINE Along == {k \in 0..N : /\ h[k].bytes_in_flight = cc.bytes_in_flight - F[some(k)]
                                  /\ h[k].recovery_start \in {cc.recovery_start, now}
                                  /\ Moved(h[k])}
<1>10. 0 \in Along
  <2>1. some(0) = {}
        BY DEF some
  <2>2. F[{}] = 0 /\ cc.bytes_in_flight \in Int
        BY <1>5, <1>6, ControlsFields DEF IsSum
  <2>3. ~(cc.congestion_window < cc.congestion_window)
        BY <1>6, ControlsFields
  <2>4. 0 \in 0..N
        BY <1>3
  <2> HIDE DEF N
  <2>5. QED BY <1>9, <2>1, <2>2, <2>3, <2>4
<1>11. ASSUME NEW k \in 0..(N - 1), k \in Along PROVE k + 1 \in Along
  <2> DEFINE e == Spaces[k + 1]
             c == h[k]
             d == h[k + 1]
  <2>1. k \in 0..N /\ k + 1 \in 0..N /\ k + 1 \in 1..N /\ (k + 1) - 1 = k
        BY <1>3
  <2>2. e \in Epochs /\ c \in Controls /\ d = AfterSpace(c, e)
    <3> HIDE DEF N
    <3>1. QED BY <1>3, <1>9, <2>1
  <2>3. /\ c.bytes_in_flight = cc.bytes_in_flight - F[some(k)]
        /\ c.recovery_start \in {cc.recovery_start, now}
        /\ Moved(c)
        BY <1>11
  <2>4. some(k + 1) \in SUBSET Epochs /\ e \in some(k + 1) /\ some(k + 1) \ {e} = some(k)
    <3>1. \A i \in 1..(k + 1) : i \in 1..N
          BY <2>1
    <3>2. \A i \in 1..(k + 1) : i \in 1..k <=> i # k + 1
          BY <2>1
    <3> HIDE DEF N
    <3>3. \A i \in 1..(k + 1) : Spaces[i] = Spaces[k + 1] <=> i = k + 1
          BY <1>3, <2>1, <3>1
    <3>4. k + 1 \in 1..(k + 1) /\ \A i \in 1..k : i \in 1..(k + 1)
          BY <2>1
    <3>5. QED BY <1>3, <3>1, <3>2, <3>3, <3>4 DEF some
  <2> HIDE DEF e, c, d
  <2>5. /\ d \in Controls
        /\ d.bytes_in_flight = c.bytes_in_flight - bytes[e]
        /\ d.recovery_start \in {c.recovery_start, now}
        /\ d.congestion_window < c.congestion_window =>
               /\ d.recovery_start = now
               /\ \E n \in C(e) : sent_packets[e][n].sent_time > c.recovery_start
        BY <1>7, <2>2
  <2>6. d.bytes_in_flight = cc.bytes_in_flight - F[some(k + 1)]
    <3>1. F[some(k + 1)] = bytes[e] + F[some(k)] /\ F[some(k)] \in Int
      <4>1. some(k) \in SUBSET Epochs
            BY <2>4
      <4>2. QED BY <1>5, <2>4, <4>1 DEF IsSum
    <3>2. bytes[e] \in Int /\ cc.bytes_in_flight \in Int
          BY <1>4, <1>6, <2>2, ControlsFields
    <3>3. QED BY <2>3, <2>5, <3>1, <3>2
  <2>7. Moved(d)
    <3>1. SUFFICES ASSUME d.congestion_window < cc.congestion_window
                   PROVE  /\ d.recovery_start = now
                          /\ \E f \in Epochs : \E n \in C(f) : n >= cut_at
          OBVIOUS
    <3>2. CASE d.congestion_window < c.congestion_window
      <4>1. PICK n \in C(e) : sent_packets[e][n].sent_time > c.recovery_start
            BY <2>5, <3>2
      <4>2. n \in DOMAIN sent_packets[e] /\ sent_packets[e][n].sent_time \in Nat
        <5>1. n \in DOMAIN sent_packets[e]
              BY <1>2, <2>2
        <5>2. QED BY <2>2, <5>1, SpaceFinite DEF RecoveryInv, Packet
      <4>3. sent_packets[e][n].sent_time > cc.recovery_start
            BY <1>6, <2>3, <4>1, <4>2, ControlsFields
      <4>4. n >= cut_at
            BY <2>2, <4>2, <4>3, SentSinceCut
      <4>5. QED BY <2>2, <2>5, <3>2, <4>4
    <3>3. CASE ~(d.congestion_window < c.congestion_window)
      <4>1. c.congestion_window < cc.congestion_window
            BY <1>6, <2>2, <2>5, <3>1, <3>3, ControlsFields
      <4>2. QED BY <2>3, <2>5, <4>1
    <3>4. QED BY <3>2, <3>3
  <2>8. d.recovery_start \in {cc.recovery_start, now}
        BY <2>3, <2>5
  <2>9. QED BY <2>1, <2>6, <2>7, <2>8 DEF d
<1>12. N \in Along
  <2>1. N \in 0..N
        BY <1>3
  <2> HIDE DEF Along, N
  <2>2. QED BY <1>3, <1>10, <1>11, <2>1, InductionUpTo
<1>13. /\ cc' \in Controls
       /\ cc'.bytes_in_flight = cc.bytes_in_flight - SumFunction(bytes)
       /\ cc'.recovery_start \in {cc.recovery_start, now}
       /\ Moved(cc')
  <2>1. some(N) = Epochs
    <3> HIDE DEF N
    <3>1. QED BY <1>3 DEF some
  <2>2. h[N] \in Controls
    <3> HIDE DEF N
    <3>1. N \in 0..N
          BY <1>3
    <3>2. QED BY <3>1
  <2> HIDE DEF N, Moved
  <2>3. QED BY <1>5, <1>9, <1>12, <2>1, <2>2
<1> HIDE DEF Along, N, step
<1>14. CountersMatch'
  <2>1. /\ old \in [Epochs -> Int] /\ new \in [Epochs -> Int]
        /\ \A e \in Epochs : old[e] = bytes[e] + new[e]
    <3>1. \A e \in Epochs : BytesOf(sent_packets[e]) \in Int
          BY <1>2
    <3>2. QED BY <1>2, <1>4, <3>1
  <2>2. new = [e \in Epochs |-> BytesOf(sent_packets'[e])]
        BY <1>1
  <2>3. cc.bytes_in_flight = SumFunction(old)
        BY DEF RecoveryInv, CountersMatch
  <2> HIDE DEF old, new
  <2>4. SumFunction(old) = SumFunction(bytes) + SumFunction(new)
    <3>1. AddsUp(old, bytes, new, Epochs)
          BY <1>4, <2>1 DEF AddsUp
    <3>2. QED BY <3>1, EpochsFinite, SumOfSums
  <2>5. SumFunction(bytes) \in Int /\ SumFunction(new) \in Int
        BY <1>4, <2>1, EpochsFinite, SumFunctionType
  <2>6. cc'.bytes_in_flight = SumFunction(new)
        BY <1>13, <2>3, <2>4, <2>5
  <2>7. ASSUME NEW e \in Epochs
        PROVE  ack_eliciting_in_flight'[e] = ElicitingIn(sent_packets'[e])
    <3>1. ack_eliciting_in_flight[e] = ElicitingIn(sent_packets[e])
          BY DEF RecoveryInv, CountersMatch
    <3>2. ack_eliciting_in_flight'[e] = ack_eliciting_in_flight[e] - ElicitingIn(crypto(e))
          /\ sent_packets'[e] = left(e)
          BY <1>1
    <3>3. /\ ElicitingIn(sent_packets[e]) = ElicitingIn(crypto(e)) + ElicitingIn(left(e))
          /\ ElicitingIn(crypto(e)) \in Int /\ ElicitingIn(left(e)) \in Int
          BY <1>2
    <3>4. QED BY <3>1, <3>2, <3>3
  <2>8. CountersMatch' = (/\ cc'.bytes_in_flight = SumFunction(new)
                          /\ \A e \in Epochs :
                                ack_eliciting_in_flight'[e] = ElicitingIn(sent_packets'[e]))
        BY <2>2 DEF CountersMatch, BytesOf, ElicitingIn, SumBytes, Those, InFlight, Eliciting
  <2>9. QED BY <2>6, <2>7, <2>8
<1>15. RecoveryInv'
  <2>1. DOMAIN sent_packets' = Epochs
        BY <1>1
  <2>2. \A e \in Epochs : \E A \in SUBSET DOMAIN sent_packets[e] :
            sent_packets'[e] = Restrict(sent_packets[e], A)
    <3>1. ASSUME NEW e \in Epochs
          PROVE  \E A \in SUBSET DOMAIN sent_packets[e] :
                     sent_packets'[e] = Restrict(sent_packets[e], A)
      <4>1. sent_packets'[e] = Restrict(sent_packets[e], DOMAIN sent_packets[e] \ C(e))
            BY <1>1, <1>2
      <4>2. QED BY <4>1
    <3>2. QED BY <3>1
  <2>3. ack_eliciting_in_flight' \in [Epochs -> Int]
    <3>1. ASSUME NEW e \in Epochs
          PROVE  ack_eliciting_in_flight[e] - ElicitingIn(crypto(e)) \in Int
      <4>1. ack_eliciting_in_flight[e] \in Int
            BY DEF RecoveryInv, StateOK
      <4>2. ElicitingIn(crypto(e)) \in Int
            BY <1>2
      <4>3. QED BY <4>1, <4>2
    <3>2. QED BY <1>1, <3>1
  <2>4. \/ cut_at' = cut_at
        \/ cut_at' = NextNumber /\ cc'.recovery_start = now
        BY <1>1, <1>13
  <2>5. QED BY <1>13, <1>14, <2>1, <2>2, <2>3, <2>4, Shrinks
<1>16. CutIsNew
  <2>1. SUFFICES ASSUME cc'.congestion_window < cc.congestion_window
                 PROVE  \E e \in Epochs :
                            \E n \in DOMAIN sent_packets[e] \ DOMAIN sent_packets'[e] : n >= cut_at
        BY DEF CutIsNew
  <2>2. PICK e \in Epochs : \E n \in C(e) : n >= cut_at
        BY <1>13, <2>1
  <2> PICK n \in C(e) : n >= cut_at
      BY <2>2
  <2>3. DOMAIN sent_packets'[e] = DOMAIN sent_packets[e] \ C(e)
        BY <1>1, <1>2 DEF Restrict
  <2>4. n \in DOMAIN sent_packets[e]
        BY <1>2
  <2>5. QED BY <2>2, <2>3, <2>4
<1>17. QED BY <1>15, <1>16

-----------------------------------------------------------------------------
(* The steps.                                                              *)

invVars == <<numbers, sent_packets, ack_eliciting_in_flight, cc, cut_at>>

\* At the start nothing was sent.
LEMMA RecoveryInit == Init => RecoveryInv
<1> SUFFICES ASSUME Init PROVE RecoveryInv
    OBVIOUS
<1> USE DEF Init
<1>1. \A e \in Epochs : SpaceOK(e)
  <2> SUFFICES ASSUME NEW e \in Epochs PROVE SpaceOK(e)
      OBVIOUS
  <2>1. numbers[e] = {} /\ sent_packets[e] = << >>
        OBVIOUS
  <2>2. DOMAIN << >> = {} /\ << >> \in [{} -> Packet]
        OBVIOUS
  <2>3. QED BY <2>1, <2>2 DEF SpaceOK
<1>2. cc \in Controls /\ cc.recovery_start = 0 /\ cc.bytes_in_flight = 0
      BY WindowAssumption DEF InitialControl, Controls, NoThreshold
<1>3. StateOK
      BY <1>1, <1>2 DEF StateOK
<1>4. NextNumber = 0 /\ UNION {numbers[e] : e \in Epochs} = {}
  <2>1. UNION {numbers[e] : e \in Epochs} = {}
        OBVIOUS
  <2>2. QED BY <2>1, FS_EmptySet DEF NextNumber
<1>5. Numbered
  <2>1. 0..(0 - 1) = {}
        OBVIOUS
  <2>2. QED BY <1>4, <2>1 DEF Numbered
<1>6. BeforeCut
      BY <1>4 DEF BeforeCut
<1>7. CountersMatch
  <2> DEFINE f == [e \in Epochs |-> BytesOf(sent_packets[e])]
  <2>1. \A e \in Epochs : f[e] = 0 /\ BytesOf(sent_packets[e]) = 0
                              /\ ElicitingIn(sent_packets[e]) = 0
        BY CountsOfNone
  <2>2. f \in [Epochs -> Int]
        BY <2>1
  <2>3. AddsUp(f, f, f, Epochs)
        BY <2>1, <2>2 DEF AddsUp
  <2> HIDE DEF f
  <2>4. SumFunction(f) = SumFunction(f) + SumFunction(f) /\ SumFunction(f) \in Int
        BY <2>2, <2>3, EpochsFinite, SumOfSums, SumFunctionType
  <2>5. SumFunction(f) = 0
        BY <2>4
  <2>6. QED BY <1>2, <2>1, <2>5 DEF CountersMatch, f
<1>8. QED BY <1>3, <1>5, <1>6, <1>7 DEF RecoveryInv

\* What leaves the spaces and the controller alone keeps the invariant.
LEMMA Unaffected ==
    ASSUME RecoveryInv, UNCHANGED invVars, now' \in Nat, now' >= now
    PROVE  RecoveryInv' /\ CutIsNew
<1> USE DEF RecoveryInv, invVars
<1>1. NextNumber' = NextNumber
      BY DEF NextNumber
<1>2. StateOK'
  <2>1. ASSUME NEW e \in Epochs PROVE SpaceOK(e)'
    <3>1. ASSUME NEW n \in DOMAIN sent_packets[e]
          PROVE  sent_packets[e][n].sent_time <= now'
      <4>1. sent_packets[e][n].sent_time \in Nat /\ sent_packets[e][n].sent_time <= now
            BY DEF StateOK, SpaceOK, Packet
      <4>2. QED BY <4>1 DEF StateOK
    <3>2. QED BY <3>1 DEF StateOK, SpaceOK
  <2>2. cc.recovery_start <= now'
        BY ControlsFields DEF StateOK
  <2>3. QED BY <2>1, <2>2 DEF StateOK
<1>3. Numbered' /\ BeforeCut'
      BY <1>1 DEF Numbered, BeforeCut
<1>4. CountersMatch'
      BY DEF CountersMatch, BytesOf, ElicitingIn, SumBytes, Those, InFlight, Eliciting
<1>5. CutIsNew
      BY ControlsFields DEF CutIsNew, StateOK
<1>6. QED BY <1>2, <1>3, <1>4, <1>5

\* A packet is sent.
LEMMA SendInv ==
    ASSUME RecoveryInv, NEW e \in Epochs, NEW kind \in Kind, Send(e, kind)
    PROVE  RecoveryInv' /\ CutIsNew
<1> DEFINE p == [kind |-> kind, sent_time |-> now, sent_bytes |-> DatagramSize]
           S == DOMAIN sent_packets[e]
           n == NextNumber
           packets == With(sent_packets[e], n, p)
           U == UNION {numbers[d] : d \in Epochs}
<1> USE DEF RecoveryInv
<1>1. /\ n < MaxPacket
      /\ numbers' = [numbers EXCEPT ![e] = @ \cup {n}]
      /\ sent_packets' = [sent_packets EXCEPT ![e] = packets]
      /\ ack_eliciting_in_flight' =
             [ack_eliciting_in_flight EXCEPT ![e] = IF Eliciting(p) THEN @ + 1 ELSE @]
      /\ cc' = IF InFlight(p) THEN OnPacketSent(cc, p) ELSE cc
      /\ now' = now /\ cut_at' = cut_at
      BY DEF Send, OnPacketSentIn, history
<1>2. p \in Packet /\ p.sent_time = now
      BY WindowAssumption DEF Packet, StateOK
<1>3. S \in SUBSET Nat /\ IsFiniteSet(S) /\ sent_packets[e] \in [S -> Packet]
      BY SpaceFinite
<1>4. n \in Nat /\ U = 0..(n - 1) /\ n \notin U
      BY DEF Numbered
<1>5. n \in Nat \ S
      BY <1>4 DEF StateOK, SpaceOK
<1> HIDE DEF p, S, packets
<1>6. NextNumber' = n + 1 /\ UNION {numbers'[d] : d \in Epochs} = 0..n
  <2>1. UNION {numbers'[d] : d \in Epochs} = U \cup {n}
        BY <1>1 DEF StateOK
  <2>2. U \cup {n} = 0..n
    <3> DEFINE k == NextNumber
    <3>1. k \in Nat /\ U = 0..(k - 1) /\ n = k
          BY <1>4
    <3> HIDE DEF k, n, U
    <3>2. U \cup {k} = 0..k
          BY <3>1
    <3>3. QED BY <3>1, <3>2
  <2>3. Cardinality(0..n) = n + 1
    <3>1. 0 \in Int /\ n \in Int /\ ~(0 > n)
          BY <1>4
    <3> HIDE DEF n
    <3>2. Cardinality(0..n) = n - 0 + 1
          BY <3>1, FS_Interval
    <3>3. QED BY <3>1, <3>2
  <2>4. NextNumber' = Cardinality(UNION {numbers'[d] : d \in Epochs})
        BY DEF NextNumber
  <2> HIDE DEF n, U
  <2>5. QED BY <2>1, <2>2, <2>3, <2>4
<1>7. Numbered'
      BY <1>4, <1>6 DEF Numbered
<1>8. /\ DOMAIN packets = S \cup {n}
      /\ \A m \in S : m # n /\ packets[m] = sent_packets[e][m]
      /\ packets[n] = p
      /\ packets \in [S \cup {n} -> Packet]
      BY <1>2, <1>3, <1>5 DEF With, packets, S
<1>9. /\ cc' \in Controls /\ cc'.recovery_start = cc.recovery_start
      /\ cc'.congestion_window = cc.congestion_window
      /\ cc'.bytes_in_flight
             = cc.bytes_in_flight + (IF InFlight(p) THEN p.sent_bytes ELSE 0)
  <2>1. p.sent_bytes \in Nat /\ cc \in Controls
        BY <1>2 DEF Packet, StateOK
  <2>2. CASE InFlight(p)
    <3> DEFINE b == p.sent_bytes
    <3>1. cc' = [cc EXCEPT !.bytes_in_flight = @ + b] /\ b \in Nat
          BY <1>1, <2>1, <2>2 DEF OnPacketSent
    <3> HIDE DEF b
    <3>2. /\ cc' \in Controls /\ cc'.recovery_start = cc.recovery_start
          /\ cc'.congestion_window = cc.congestion_window
          /\ cc'.bytes_in_flight = cc.bytes_in_flight + b
          BY <2>1, <3>1 DEF Controls
    <3>3. QED BY <2>2, <3>2 DEF b
  <2>3. CASE ~InFlight(p)
        BY <1>1, <2>1, <2>3, ControlsFields
  <2>4. QED BY <2>2, <2>3
<1>10. /\ BytesOf(packets)
              = BytesOf(sent_packets[e]) + (IF InFlight(p) THEN p.sent_bytes ELSE 0)
       /\ ElicitingIn(packets)
              = ElicitingIn(sent_packets[e]) + (IF Eliciting(p) THEN 1 ELSE 0)
       /\ BytesOf(sent_packets[e]) \in Int /\ ElicitingIn(sent_packets[e]) \in Int
       BY <1>2, <1>3, <1>5, CountsOfWith, CountsType DEF packets
<1>11. p.sent_bytes \in Int /\ cc.bytes_in_flight \in Int
           /\ ack_eliciting_in_flight[e] \in Int
       BY <1>2, ControlsFields DEF Packet, StateOK
<1>12. CountersMatch'
  <2>1. BytesOf(packets) \in Int /\ ElicitingIn(packets) \in Int
        BY <1>10, <1>11
  <2>2. cc'.bytes_in_flight
            = cc.bytes_in_flight - BytesOf(sent_packets[e]) + BytesOf(packets)
        BY <1>9, <1>10, <1>11
  <2>3. (IF Eliciting(p) THEN ack_eliciting_in_flight[e] + 1 ELSE ack_eliciting_in_flight[e])
            = ack_eliciting_in_flight[e] - ElicitingIn(sent_packets[e]) + ElicitingIn(packets)
        BY <1>10, <1>11
  <2>4. ack_eliciting_in_flight' = [ack_eliciting_in_flight EXCEPT
            ![e] = @ - ElicitingIn(sent_packets[e]) + ElicitingIn(packets)]
        BY <1>1, <2>3
  <2>5. QED BY <1>1, <2>1, <2>2, <2>4, OneSpaceCounts
<1>13. StateOK'
  <2>1. ASSUME NEW d \in Epochs PROVE SpaceOK(d)'
    <3>1. SpaceOK(d)
          BY DEF StateOK
    <3>2. CASE d = e
      <4>1. numbers'[d] = numbers[d] \cup {n} /\ sent_packets'[d] = packets
            BY <1>1, <3>2 DEF StateOK
      <4>2. n \in Number
            BY <1>1, <1>4, BoundAssumption DEF Number
      <4>3. \A m \in S \cup {n} : packets[m].sent_time <= now
            BY <1>2, <1>8, <3>1, <3>2 DEF SpaceOK, S, StateOK
      <4> HIDE DEF n
      <4>4. QED BY <1>1, <1>8, <3>1, <3>2, <4>1, <4>2, <4>3 DEF SpaceOK, S
    <3>3. CASE d # e
      <4>1. numbers'[d] = numbers[d] /\ sent_packets'[d] = sent_packets[d]
            BY <1>1, <3>3 DEF StateOK
      <4>2. QED BY <1>1, <3>1, <4>1 DEF SpaceOK
    <3>4. QED BY <3>2, <3>3
  <2>2. DOMAIN numbers' = Epochs /\ DOMAIN sent_packets' = Epochs
        BY <1>1 DEF StateOK
  <2>3. ack_eliciting_in_flight' \in [Epochs -> Int]
        BY <1>1, <1>11 DEF StateOK
  <2>4. now' \in Nat /\ cc'.recovery_start <= now'
        BY <1>1, <1>9 DEF StateOK
  <2>5. QED BY <1>9, <2>1, <2>2, <2>3, <2>4 DEF StateOK
<1>14. BeforeCut'
  <2>1. cut_at' \in Nat /\ cut_at' <= NextNumber' /\ cut_at <= n /\ cut_at \in Nat
        BY <1>1, <1>4, <1>6 DEF BeforeCut
  <2>2. ASSUME NEW d \in Epochs, NEW m \in DOMAIN sent_packets'[d], m < cut_at'
        PROVE  sent_packets'[d][m].sent_time <= cc'.recovery_start
    <3>1. m # n
          BY <1>1, <1>4, <2>1, <2>2
    <3>2. m \in DOMAIN sent_packets[d] /\ sent_packets'[d][m] = sent_packets[d][m]
      <4>1. CASE d = e
        <5>1. sent_packets'[d] = packets
              BY <1>1, <4>1 DEF StateOK
        <5> HIDE DEF n
        <5>2. QED BY <1>8, <2>2, <3>1, <4>1, <5>1 DEF S
      <4>2. CASE d # e
            BY <1>1, <2>2, <4>2 DEF StateOK
      <4>3. QED BY <4>1, <4>2
    <3>3. QED BY <1>1, <1>9, <2>2, <3>2 DEF BeforeCut
  <2>3. QED BY <2>1, <2>2 DEF BeforeCut
<1>15. CutIsNew
       BY <1>9, ControlsFields DEF CutIsNew, StateOK
<1>16. QED BY <1>7, <1>12, <1>13, <1>14, <1>15

\* An acknowledgement arrives.
LEMMA ReceiveAckInv ==
    ASSUME RecoveryInv, NEW e \in Epochs, NEW ack, ReceiveAck(e, ack)
    PROVE  RecoveryInv' /\ CutIsNew
<1> DEFINE S == DOMAIN sent_packets[e]
           N == ack \cap S
           newly == Restrict(sent_packets[e], N)
           left == Without(sent_packets[e], newly)
           flight == Those(newly, InFlight)
           control == OnPacketsAcked(cc, flight)
<1>1. /\ now' = now /\ numbers' = numbers
      /\ \/ UNCHANGED <<sent_packets, ack_eliciting_in_flight, cc, cut_at>>
         \/ \E increasing \in BOOLEAN :
                DetectLoss(e, left, OnRttMeasurement(control, increasing))
         \/ DetectLoss(e, left, control)
      BY DEF ReceiveAck, history
<1>2. S \in SUBSET Nat /\ IsFiniteSet(S) /\ sent_packets[e] \in [S -> Packet]
      BY SpaceFinite DEF RecoveryInv
<1>3. /\ DOMAIN newly = N /\ newly \in [N -> Packet]
      /\ left = Restrict(sent_packets[e], S \ N) /\ S \ (S \ N) = N
      /\ N \in SUBSET Nat /\ IsFiniteSet(N)
      BY <1>2, FS_Subset DEF Restrict, Without
<1>4. /\ DOMAIN flight \in SUBSET Nat /\ IsFiniteSet(DOMAIN flight)
      /\ flight \in [DOMAIN flight -> Packet] /\ BytesOf(newly) = SumBytes(flight)
      BY <1>3, FS_Subset DEF Those, Restrict, BytesOf
<1>5. cc \in Controls /\ S \ N \in SUBSET S
      BY DEF RecoveryInv, StateOK
<1> HIDE DEF newly, left, flight
<1>6. /\ control \in Controls
      /\ control.bytes_in_flight = cc.bytes_in_flight - BytesOf(newly)
      /\ control.congestion_window >= cc.congestion_window
      /\ control.recovery_start = cc.recovery_start
      BY <1>4, <1>5, PacketsAcked
<1> HIDE DEF control
<1> DEFINE A == S \ N
<1>7. BytesOf(newly) = BytesOf(Restrict(sent_packets[e], S \ A)) /\ A \in SUBSET S
      BY <1>3 DEF newly
<1> HIDE DEF A
<1>8. ASSUME NEW c \in Controls, c.bytes_in_flight = control.bytes_in_flight,
             c.congestion_window = control.congestion_window,
             c.recovery_start = control.recovery_start, DetectLoss(e, left, c)
      PROVE  RecoveryInv' /\ CutIsNew
  <2>1. /\ c.bytes_in_flight = cc.bytes_in_flight - BytesOf(Restrict(sent_packets[e], S \ A))
        /\ c.congestion_window >= cc.congestion_window
        /\ c.recovery_start = cc.recovery_start
        BY <1>6, <1>7, <1>8
  <2>2. DetectLoss(e, Restrict(sent_packets[e], A), c)
        BY <1>3, <1>8 DEF A
  <2>3. QED BY <1>1, <1>7, <2>1, <2>2, LossDetected
<1>9. CASE UNCHANGED <<sent_packets, ack_eliciting_in_flight, cc, cut_at>>
      BY <1>1, <1>9, Unaffected DEF invVars, RecoveryInv, StateOK
<1>10. CASE \E increasing \in BOOLEAN :
                DetectLoss(e, left, OnRttMeasurement(control, increasing))
  <2>1. PICK increasing \in BOOLEAN :
            DetectLoss(e, left, OnRttMeasurement(control, increasing))
        BY <1>10
  <2> DEFINE c == OnRttMeasurement(control, increasing)
  <2>2. /\ c \in Controls /\ c.bytes_in_flight = control.bytes_in_flight
        /\ c.congestion_window = control.congestion_window
        /\ c.recovery_start = control.recovery_start
        BY <1>6, RttMeasured
  <2>3. DetectLoss(e, left, c)
        BY <2>1
  <2> HIDE DEF c
  <2>4. QED BY <1>8, <2>2, <2>3
<1>11. CASE DetectLoss(e, left, control)
       BY <1>6, <1>8, <1>11
<1>12. QED BY <1>1, <1>9, <1>10, <1>11

\* The loss timer fires: nothing was acknowledged.
LEMMA LossTimeoutInv ==
    ASSUME RecoveryInv, NEW e \in Epochs, LossTimeout(e)
    PROVE  RecoveryInv' /\ CutIsNew
<1> DEFINE S == DOMAIN sent_packets[e]
           none == Restrict(sent_packets[e], S \ S)
<1>1. S \in SUBSET Nat /\ IsFiniteSet(S) /\ sent_packets[e] \in [S -> Packet]
      BY SpaceFinite DEF RecoveryInv
<1>2. Restrict(sent_packets[e], S) = sent_packets[e]
      BY <1>1 DEF Restrict
<1>3. BytesOf(none) = 0
  <2>1. BytesOf(sent_packets[e]) = BytesOf(Restrict(sent_packets[e], S)) + BytesOf(none)
    <3> DEFINE packets == sent_packets[e]
               B == S \ S
    <3>1. S \in SUBSET S /\ B = S \ S /\ packets \in [S -> Packet]
          BY <1>1
    <3> HIDE DEF packets, B, S
    <3>2. BytesOf(packets) = BytesOf(Restrict(packets, S)) + BytesOf(Restrict(packets, B))
          BY <1>1, <3>1, CountsOfParts
    <3>3. QED BY <3>1, <3>2 DEF packets, B, S
  <2>2. BytesOf(none) \in Int
    <3>1. S \ S \in SUBSET Nat /\ IsFiniteSet(S \ S) /\ none \in [S \ S -> Packet]
          BY <1>1, FS_Subset DEF Restrict
    <3> HIDE DEF none
    <3>2. QED BY <3>1, CountsType
  <2>3. BytesOf(sent_packets[e]) \in Int
        BY <1>1, CountsType
  <2> HIDE DEF none
  <2>4. QED BY <1>2, <2>1, <2>2, <2>3
<1>4. cc \in Controls /\ cc.bytes_in_flight \in Int /\ cc.congestion_window >= cc.congestion_window
      BY ControlsFields DEF RecoveryInv, StateOK
<1>5. cc.bytes_in_flight = cc.bytes_in_flight - BytesOf(none)
      BY <1>3, <1>4
<1>6. /\ now' = now /\ numbers' = numbers
      /\ DetectLoss(e, Restrict(sent_packets[e], S), cc)
      BY <1>2 DEF LossTimeout
<1>7. S \in SUBSET S
      OBVIOUS
<1>8. QED BY <1>4, <1>5, <1>6, <1>7, LossDetected

\* The connection is done with a space.
LEMMA DiscardSpaceInv ==
    ASSUME RecoveryInv, NEW e \in Epochs, DiscardSpace(e)
    PROVE  RecoveryInv' /\ CutIsNew
<1> DEFINE S == DOMAIN sent_packets[e]
           packets == sent_packets[e]
           none == << >>
<1>1. /\ now' = now /\ numbers' = numbers /\ cut_at' = cut_at
      /\ cc' = OnPacketsExpired(cc, Those(packets, InFlight))
      /\ sent_packets' = [sent_packets EXCEPT ![e] = none]
      /\ ack_eliciting_in_flight' = [ack_eliciting_in_flight EXCEPT ![e] = 0]
      BY DEF DiscardSpace, history
<1>2. S \in SUBSET Nat /\ IsFiniteSet(S) /\ packets \in [S -> Packet]
      BY SpaceFinite DEF RecoveryInv
<1>3. none = Restrict(packets, {})
      BY <1>2 DEF Restrict
<1>4. /\ BytesOf(none) = 0 /\ ElicitingIn(none) = 0
      /\ BytesOf(packets) \in Int /\ ElicitingIn(packets) \in Int
      BY <1>2, CountsOfNone, CountsType
<1>5. BytesOf(packets) = SumBytes(Those(packets, InFlight))
      BY DEF BytesOf
<1>6. /\ cc \in Controls /\ cc.bytes_in_flight \in Int
      /\ ack_eliciting_in_flight[e] = ElicitingIn(packets)
      /\ ack_eliciting_in_flight \in [Epochs -> Int] /\ DOMAIN sent_packets = Epochs
      BY ControlsFields DEF RecoveryInv, StateOK, CountersMatch
<1> HIDE DEF none, packets
<1>7. /\ cc' \in Controls /\ cc'.bytes_in_flight = cc.bytes_in_flight - BytesOf(packets)
      /\ cc'.congestion_window = cc.congestion_window
      /\ cc'.recovery_start = cc.recovery_start
      BY <1>1, <1>4, <1>5, <1>6, PacketsExpired
<1>8. CountersMatch'
  <2>1. cc'.bytes_in_flight = cc.bytes_in_flight - BytesOf(sent_packets[e]) + BytesOf(none)
        BY <1>4, <1>6, <1>7 DEF packets
  <2>2. ack_eliciting_in_flight' = [ack_eliciting_in_flight EXCEPT
            ![e] = @ - ElicitingIn(sent_packets[e]) + ElicitingIn(none)]
    <3>1. 0 = ack_eliciting_in_flight[e] - ElicitingIn(sent_packets[e]) + ElicitingIn(none)
          BY <1>4, <1>6 DEF packets
    <3>2. QED BY <1>1, <3>1
  <2>3. BytesOf(none) \in Int /\ ElicitingIn(none) \in Int
        BY <1>4
  <2>4. QED BY <1>1, <2>1, <2>2, <2>3, OneSpaceCounts DEF RecoveryInv
<1>9. ASSUME NEW d \in Epochs
      PROVE  \E A \in SUBSET DOMAIN sent_packets[d] :
                 sent_packets'[d] = Restrict(sent_packets[d], A)
  <2>1. CASE d = e
    <3>1. sent_packets'[d] = none
          BY <1>1, <1>6, <2>1
    <3>2. {} \in SUBSET DOMAIN sent_packets[d]
          OBVIOUS
    <3>3. QED BY <1>3, <2>1, <3>1, <3>2 DEF packets
  <2>2. CASE d # e
    <3>1. sent_packets'[d] = sent_packets[d]
          BY <1>1, <1>6, <2>2
    <3>2. Restrict(sent_packets[d], DOMAIN sent_packets[d]) = sent_packets[d]
          BY SpaceFinite DEF Restrict, RecoveryInv
    <3>3. QED BY <3>1, <3>2
  <2>3. QED BY <2>1, <2>2
<1>10. /\ DOMAIN sent_packets' = Epochs /\ ack_eliciting_in_flight' \in [Epochs -> Int]
       /\ cc'.recovery_start \in {cc.recovery_start, now}
       BY <1>1, <1>6, <1>7
<1>11. RecoveryInv'
       BY <1>1, <1>7, <1>8, <1>9, <1>10, Shrinks
<1>12. CutIsNew
       BY <1>6, <1>7, ControlsFields DEF CutIsNew
<1>13. QED BY <1>11, <1>12

\* Every step keeps the invariant, and a window is cut for new losses only.
LEMMA RecoveryStep == RecoveryInv /\ [Next]_vars => RecoveryInv' /\ CutIsNew
<1> SUFFICES ASSUME RecoveryInv, [Next]_vars PROVE RecoveryInv' /\ CutIsNew
    OBVIOUS
<1>1. now \in Nat
      BY DEF RecoveryInv, StateOK
<1>2. CASE Tick
      BY <1>1, <1>2, Unaffected DEF Tick, spaceVars, history, invVars
<1>3. ASSUME NEW t \in Traffic, Send(t[1], t[2]) PROVE RecoveryInv' /\ CutIsNew
  <2>1. t[1] \in Epochs /\ t[2] \in Kind
        BY TrafficAssumption
  <2>2. QED BY <1>3, <2>1, SendInv
<1>4. ASSUME NEW e \in Epochs, NEW ack \in Acks(e), ReceiveAck(e, ack)
      PROVE  RecoveryInv' /\ CutIsNew
      BY <1>4, ReceiveAckInv
<1>5. ASSUME NEW e \in Epochs, LossTimeout(e) PROVE RecoveryInv' /\ CutIsNew
      BY <1>5, LossTimeoutInv
<1>6. ASSUME NEW e \in Epochs, DiscardSpace(e) PROVE RecoveryInv' /\ CutIsNew
      BY <1>6, DiscardSpaceInv
<1>7. CASE ProbeTimeout \/ RetransmitCrypto
  <2>1. RescheduleData
        BY <1>7 DEF ProbeTimeout, RetransmitCrypto
  <2>2. now' = now /\ numbers' = numbers
        BY <2>1 DEF RescheduleData
  <2>3. QED BY <2>1, <2>2, CryptoRescheduled
<1>8. CASE UNCHANGED vars
      BY <1>1, <1>8, Unaffected DEF vars, spaceVars, history, invVars
<1>9. QED BY <1>2, <1>3, <1>4, <1>5, <1>6, <1>7, <1>8 DEF Next

\* Whatever is sent, acknowledged, lost, rescheduled or discarded, in any order, the
\* state keeps its type, packets their numbers and the history its meaning.
THEOREM RecoveryInvariant == Spec => []RecoveryInv
<1>1. QED BY RecoveryInit, RecoveryStep, PTL DEF Spec

\* bytes_in_flight and ack_eliciting_in_flight of recovery.py are what they count.
THEOREM RecoveryCounters == Spec => []CountersMatch
<1>1. RecoveryInv => CountersMatch
      BY DEF RecoveryInv
<1>2. QED BY <1>1, RecoveryInvariant, PTL

\* The congestion window of reno.py stays above its minimum and, in congestion
\* avoidance, above the threshold.
THEOREM RecoveryWindow == Spec => []WindowHolds
<1>1. RecoveryInv => WindowHolds
      BY ControlsFields DEF RecoveryInv, StateOK, WindowHolds
<1>2. QED BY <1>1, RecoveryInvariant, PTL

\* on_packets_lost() narrows the window once for the packets of one flight.
THEOREM RecoveryCuts == Spec => OneCutPerFlight
<1>1. RecoveryInv /\ [Next]_vars =>
          [cc'.congestion_window < cc.congestion_window =>
              \E e \in Epochs : \E n \in DOMAIN sent_packets[e] \ DOMAIN sent_packets'[e] :
                  n >= cut_at]_vars
      BY RecoveryStep DEF CutIsNew
<1>2. QED BY <1>1, RecoveryInvariant, PTL DEF Spec, OneCutPerFlight
=============================================================================
