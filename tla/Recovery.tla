------------------------------ MODULE Recovery ------------------------------
(***************************************************************************)
(* Loss detection: QuicPacketRecovery of quic/recovery.py with the packet  *)
(* number spaces it watches, one for each epoch, and the way the           *)
(* connection sends within the congestion window.  Time is counted in      *)
(* ticks, the window in bytes.  A probe timeout may come at any time, so   *)
(* its length and its back-off, _pto_count, are left out.                  *)
(***************************************************************************)
EXTENDS Reno, FiniteSets, SequencesExt

CONSTANTS
    Spaces,           \* the epochs of the spaces, in their order; the last is kept
    Traffic,          \* what the connection sends: pairs of epoch and kind
    PacketThreshold,  \* K_PACKET_THRESHOLD
    LossDelays,       \* what loss_delay may be, as the round trip time varies
    MaxPacket,        \* bound: packets sent
    MaxTime           \* bound: ticks

Kind == {"ack", "padding", "data", "crypto"}
Epochs == ToSet(Spaces)

ASSUME SpacesAssumption ==
    /\ Spaces \in Seq(Epochs) /\ Spaces # << >>
    /\ IsInjective(Spaces)
ASSUME TrafficAssumption == Traffic \subseteq Epochs \X Kind
ASSUME ThresholdAssumption ==
    /\ PacketThreshold \in Nat \ {0}
    /\ LossDelays \subseteq Nat \ {0} /\ LossDelays # {}
ASSUME BoundAssumption == MaxPacket \in Nat /\ MaxTime \in Nat

MaxLossDelay == CHOOSE d \in LossDelays : \A e \in LossDelays : e <= d

NoTime == -1          \* loss_time is None

VARIABLES
    now,
    numbers,          \* for each space, the numbers of the packets sent in it
    sent_packets,     \* for each space, the packets not yet reported, by number
    ack_eliciting_in_flight, largest_acked_packet, loss_time, discarded,
    cc,               \* the congestion controller
    loss_delay,       \* from the round trip time estimate
    probe_pending,
    crypto_retransmitted,
    cut_at,           \* history: packets sent when the window was last reduced
    examined          \* history: largest_acked_packet at the last _detect_loss()

spaceVars == <<sent_packets, ack_eliciting_in_flight, largest_acked_packet, loss_time,
               discarded>>
connectionVars == <<probe_pending, crypto_retransmitted>>
history == <<cut_at, examined>>
vars == <<now, numbers, spaceVars, cc, loss_delay, connectionVars, history>>

Number == 0..(MaxPacket - 1)

\* The connection numbers its packets across the spaces.
NextNumber == Cardinality(UNION {numbers[e] : e \in Epochs})

Eliciting(p) == p.kind \in {"data", "crypto"}
InFlight(p) == p.kind # "ack"

\* Operators on packets by number, as in sent_packets[e].
Those(packets, Test(_)) == Restrict(packets, {n \in DOMAIN packets : Test(packets[n])})
\* Variant of Without with a slip: what was reported stays.
WithAll(packets, gone) == packets
Without(packets, gone) == Restrict(packets, DOMAIN packets \ DOMAIN gone)
With(packets, n, p) ==
    [m \in DOMAIN packets \cup {n} |-> IF m = n THEN p ELSE packets[m]]
ElicitingIn(packets) == Cardinality(DOMAIN Those(packets, Eliciting))

Init ==
    /\ now = 1
    /\ numbers = [e \in Epochs |-> {}]
    /\ sent_packets = [e \in Epochs |-> << >>]
    /\ ack_eliciting_in_flight = [e \in Epochs |-> 0]
    /\ largest_acked_packet = [e \in Epochs |-> 0]
    /\ loss_time = [e \in Epochs |-> NoTime]
    /\ discarded = [e \in Epochs |-> FALSE]
    /\ cc = InitialControl
    /\ loss_delay \in LossDelays
    /\ probe_pending = FALSE
    /\ crypto_retransmitted = FALSE
    /\ cut_at = 0
    /\ examined = [e \in Epochs |-> NoTime]

Tick ==
    /\ now < MaxTime
    /\ now' = now + 1
    /\ UNCHANGED <<numbers, spaceVars, cc, loss_delay, connectionVars, history>>

-----------------------------------------------------------------------------
(* The connection sends a packet: datagrams_to_send(), on_packet_sent().   *)
(* Bound: nothing is sent so late that its loss could not be detected.     *)

\* A pending probe makes room for itself.
MaxFlightBytes ==
    LET room == cc.congestion_window - cc.bytes_in_flight
    IN  IF probe_pending /\ room < DatagramSize THEN DatagramSize ELSE room

OnPacketSentIn(e, n, p) ==
    /\ sent_packets' = [sent_packets EXCEPT ![e] = With(@, n, p)]
    /\ ack_eliciting_in_flight' =
           [ack_eliciting_in_flight EXCEPT ![e] = IF Eliciting(p) THEN @ + 1 ELSE @]
    /\ cc' = IF InFlight(p) THEN OnPacketSent(cc, p) ELSE cc

Send(e, kind) ==
    LET p == [kind |-> kind, sent_time |-> now, sent_bytes |-> DatagramSize]
    IN  /\ ~discarded[e]
        /\ NextNumber < MaxPacket
        /\ now + MaxLossDelay <= MaxTime
        /\ InFlight(p) => p.sent_bytes <= MaxFlightBytes
        /\ numbers' = [numbers EXCEPT ![e] = @ \cup {NextNumber}]
        /\ OnPacketSentIn(e, NextNumber, p)
        /\ probe_pending' = (probe_pending /\ ~Eliciting(p))
        /\ UNCHANGED <<now, largest_acked_packet, loss_time, discarded, loss_delay,
                       crypto_retransmitted, history>>

-----------------------------------------------------------------------------
(* Losses.                                                                 *)

\* Variant with a slip: packets that were not in flight are counted.
ControlAfterAny(control, gone) ==
    IF DOMAIN gone = {} THEN control ELSE OnPacketsLost(control, gone, now)

\* The part of _on_packets_lost() that informs the congestion controller.
ControlAfterLoss(control, gone) ==
    LET gone_in_flight == Those(gone, InFlight)
    IN  IF DOMAIN gone_in_flight = {} THEN control
        ELSE OnPacketsLost(control, gone_in_flight, now)

\* Remembers when the window was reduced.
WindowHistory ==
    cut_at' = IF cc'.congestion_window < cc.congestion_window THEN NextNumber ELSE cut_at

\* _detect_loss(): which packets, none of them after the largest acknowledged,
\* are lost, and when the next one will be.
LostOf(packets, largest, delay) ==
    Restrict(packets, {n \in DOMAIN packets :
                          /\ n <= largest
                          /\ \/ n <= largest - PacketThreshold
                             \/ packets[n].sent_time <= now - delay})

\* Variant of NextLoss with a slip: the timer is not set again.
NoNextLoss(packets, largest, delay) == NoTime

NextLoss(packets, largest, delay) ==
    LET times == {packets[n].sent_time + delay : n \in {m \in DOMAIN packets : m <= largest}}
    IN  IF times = {} THEN NoTime ELSE CHOOSE t \in times : \A u \in times : t <= u

\* From the packets that a space has left, and the controller's new state.
DetectLoss(e, packets, control) ==
    LET gone == LostOf(packets, largest_acked_packet'[e], loss_delay')
        left == Without(packets, gone)
    IN  /\ sent_packets' = [sent_packets EXCEPT ![e] = left]
        /\ loss_time' =
               [loss_time EXCEPT ![e] = NextLoss(left, largest_acked_packet'[e], loss_delay')]
        /\ ack_eliciting_in_flight' =
               [ack_eliciting_in_flight EXCEPT
                   ![e] = @ - ElicitingIn(Without(sent_packets[e], packets))
                            - ElicitingIn(gone)]
        /\ cc' = ControlAfterLoss(control, gone)
        /\ WindowHistory
        /\ examined' = [examined EXCEPT ![e] = largest_acked_packet'[e]]

-----------------------------------------------------------------------------
(* An acknowledgement arrives: on_ack_received().  It names packets that    *)
(* were sent in the space, those reported before included.                 *)

\* A sample of the round trip time, when the largest number acknowledged is
\* newly so and something newly acknowledged elicited it.
TakesSample(ack, newly) ==
    /\ \E n \in DOMAIN newly : \A m \in ack : m <= n
    /\ \E n \in DOMAIN newly : Eliciting(newly[n])

\* Of the numbers reported before, only the largest of all makes a difference.
Acks(e) ==
    {ack \in SUBSET numbers[e] :
        /\ ack # {}
        /\ \A n \in ack \ DOMAIN sent_packets[e] : \A m \in ack : m <= n}

ReceiveAck(e, ack) ==
    LET newly == Restrict(sent_packets[e], ack \cap DOMAIN sent_packets[e])
        left == Without(sent_packets[e], newly)
        control == OnPacketsAcked(cc, Those(newly, InFlight))
    IN  /\ ~discarded[e]
        /\ largest_acked_packet' =
               [largest_acked_packet EXCEPT
                   ![e] = CHOOSE n \in ack \cup {@} : \A m \in ack \cup {@} : m <= n]
        /\ \/ /\ DOMAIN newly = {}
              /\ UNCHANGED <<sent_packets, loss_time, ack_eliciting_in_flight, cc,
                             loss_delay, history>>
           \/ /\ DOMAIN newly # {} /\ TakesSample(ack, newly)
              /\ loss_delay' \in LossDelays
              /\ \E increasing \in BOOLEAN :
                    DetectLoss(e, left, OnRttMeasurement(control, increasing))
           \/ /\ DOMAIN newly # {} /\ ~TakesSample(ack, newly)
              /\ UNCHANGED loss_delay
              /\ DetectLoss(e, left, control)
        /\ UNCHANGED <<now, numbers, discarded, connectionVars>>

-----------------------------------------------------------------------------
(* The loss detection timer fires: on_loss_detection_timeout().            *)

\* _get_loss_space()
LossSpace(e) ==
    /\ loss_time[e] # NoTime
    /\ \A f \in Epochs : loss_time[f] # NoTime => loss_time[e] <= loss_time[f]

LossTimeout(e) ==
    /\ LossSpace(e)
    /\ now >= loss_time[e]
    /\ UNCHANGED <<now, numbers, largest_acked_packet, discarded, loss_delay,
                   connectionVars>>
    /\ DetectLoss(e, sent_packets[e], cc)

\* reschedule_data(): the CRYPTO packets of every space count as lost, one
\* space after the other.
IsCrypto(p) == p.kind = "crypto"

RescheduleData ==
    LET crypto(e) == Those(sent_packets[e], IsCrypto)
        AfterSpace(control, e) == ControlAfterLoss(control, crypto(e))
    IN  /\ sent_packets' = [e \in Epochs |-> Without(sent_packets[e], crypto(e))]
        /\ ack_eliciting_in_flight' =
               [e \in Epochs |-> ack_eliciting_in_flight[e] - ElicitingIn(crypto(e))]
        /\ cc' = FoldLeft(AfterSpace, cc, Spaces)
        /\ probe_pending' = TRUE
        /\ WindowHistory
        /\ UNCHANGED <<now, numbers, largest_acked_packet, loss_time, discarded,
                       loss_delay, examined>>

\* The timer runs while something is in flight, or for a client while the server
\* may not have validated its address: at any time.
ProbeTimeout ==
    /\ \A e \in Epochs : loss_time[e] = NoTime
    /\ RescheduleData
    /\ UNCHANGED crypto_retransmitted

\* Once in the life of a connection, a packet that cannot be decrypted yet, or
\* CRYPTO data that came before, shows that the peer misses CRYPTO data.
RetransmitCrypto ==
    /\ ~crypto_retransmitted
    /\ crypto_retransmitted' = TRUE
    /\ RescheduleData

-----------------------------------------------------------------------------
(* The connection is done with an epoch: _discard_epoch().                 *)

DiscardSpace(e) ==
    /\ e # Last(Spaces)
    /\ ~discarded[e]
    /\ discarded' = [discarded EXCEPT ![e] = TRUE]
    /\ cc' = OnPacketsExpired(cc, Those(sent_packets[e], InFlight))
    /\ sent_packets' = [sent_packets EXCEPT ![e] = << >>]
    /\ ack_eliciting_in_flight' = [ack_eliciting_in_flight EXCEPT ![e] = 0]
    /\ loss_time' = [loss_time EXCEPT ![e] = NoTime]
    /\ UNCHANGED <<now, numbers, largest_acked_packet, loss_delay, connectionVars,
                   history>>

-----------------------------------------------------------------------------
Next ==
    \/ Tick
    \/ \E t \in Traffic : Send(t[1], t[2])
    \/ \E e \in Epochs : \/ \E ack \in Acks(e) : ReceiveAck(e, ack)
                         \/ LossTimeout(e)
                         \/ DiscardSpace(e)
    \/ ProbeTimeout
    \/ RetransmitCrypto

Spec == Init /\ [][Next]_vars

-----------------------------------------------------------------------------
(* Safety.                                                                 *)

TypeOK ==
    /\ now \in 1..MaxTime
    /\ \A e \in Epochs :
          /\ numbers[e] \subseteq Number
          /\ DOMAIN sent_packets[e] \subseteq numbers[e]
          /\ \A n \in DOMAIN sent_packets[e] :
                /\ <<e, sent_packets[e][n].kind>> \in Traffic
                /\ sent_packets[e][n].sent_time \in 1..now
          /\ ack_eliciting_in_flight[e] \in 0..MaxPacket
          /\ largest_acked_packet[e] \in Number
          /\ loss_time[e] \in {NoTime} \cup 1..MaxTime
          /\ discarded[e] \in BOOLEAN
    /\ cc.bytes_in_flight \in Nat /\ cc.congestion_window \in Nat
    /\ cc.ssthresh \in Nat \cup {NoThreshold} /\ cc.stash \in Nat
    /\ cc.recovery_start \in 0..now
    /\ loss_delay \in LossDelays
    /\ probe_pending \in BOOLEAN /\ crypto_retransmitted \in BOOLEAN
    /\ cut_at \in 0..MaxPacket
    /\ examined \in [Epochs -> {NoTime} \cup Number]

\* The counters are what they count, however packets are acknowledged, lost,
\* rescheduled or dropped with their space: what leaves twice or is not
\* subtracted narrows or widens the congestion window for good, and stops or
\* keeps alive the probe timer.
BytesOf(packets) == SumBytes(Those(packets, InFlight))

CountersMatch ==
    /\ cc.bytes_in_flight = SumFunction([e \in Epochs |-> BytesOf(sent_packets[e])])
    /\ \A e \in Epochs : ack_eliciting_in_flight[e] = ElicitingIn(sent_packets[e])

\* The window never falls below its minimum, and slow start, once left, is not
\* entered again.
WindowHolds ==
    /\ cc.congestion_window >= MinimumWindow
    /\ cc.ssthresh # NoThreshold => cc.congestion_window >= cc.ssthresh

\* The losses of one flight reduce the window once: it is reduced again only
\* when a packet is lost that was sent after it was reduced.
OneCutPerFlight ==
    [][cc'.congestion_window < cc.congestion_window =>
          \E e \in Epochs : \E n \in DOMAIN sent_packets[e] \ DOMAIN sent_packets'[e] :
              n >= cut_at]_vars

-----------------------------------------------------------------------------
(* Liveness.  Time passes and the connection serves its loss timer, which  *)
(* get_timer() returns after every event.  Nothing is assumed of the peer. *)

Fairness == WF_vars(Tick) /\ WF_vars(\E e \in Epochs : LossTimeout(e))

FairSpec == Spec /\ Fairness

\* A packet that a later packet overtook, when an acknowledgement was last
\* looked at, is reported in the end by the loss timer alone, whatever is sent,
\* rescheduled or discarded in between: its data is not stuck until a probe.
\* (Not so when the acknowledgement names only packets that were reported
\* before: on_ack_received() then returns before _detect_loss().)
Overtaken(e, n) == n \in DOMAIN sent_packets[e] /\ n <= examined[e]

OvertakenIsReported == \A e \in Epochs, n \in Number : Overtaken(e, n) ~> ~Overtaken(e, n)
=============================================================================
