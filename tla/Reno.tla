-------------------------------- MODULE Reno --------------------------------
(***************************************************************************)
(* The congestion controllers RenoCongestionControl of congestion/reno.py  *)
(* and congestion/reno_default.py, as operators on the record cc of their  *)
(* attributes.  A packet p is a record with its sent_bytes and sent_time,  *)
(* packets are a function from packet numbers, in the order of which the   *)
(* code has them in a list.  The sums kept for monitoring are in module    *)
(* Pulse.                                                                  *)
(***************************************************************************)
EXTENDS FiniteSetsExt, Functions, Integers

CONSTANTS
    InitialWindow,    \* K_INITIAL_WINDOW datagrams, in bytes
    MinimumWindow,    \* K_MINIMUM_WINDOW datagrams, in bytes
    DatagramSize      \* _max_datagram_size

ASSUME WindowAssumption ==
    /\ DatagramSize \in Nat \ {0}
    /\ MinimumWindow \in Nat \ {0}
    /\ InitialWindow \in Nat
    /\ InitialWindow >= MinimumWindow

NoThreshold == -1     \* ssthresh is None

InitialControl ==
    [bytes_in_flight |-> 0, congestion_window |-> InitialWindow,
     ssthresh |-> NoThreshold, stash |-> 0, recovery_start |-> 0]

SumBytes(packets) == SumFunction([n \in DOMAIN packets |-> packets[n].sent_bytes])

OnPacketSent(cc, p) == [cc EXCEPT !.bytes_in_flight = @ + p.sent_bytes]

\* on_packet_acked(): the window stays as it is in congestion recovery, grows
\* by what was acknowledged in slow start, and by a datagram for each window
\* that was acknowledged in congestion avoidance.
InRecovery(cc, p) == p.sent_time <= cc.recovery_start

SlowStart(cc) == cc.ssthresh = NoThreshold \/ cc.congestion_window < cc.ssthresh

Grown(cc, p) ==
    IF InRecovery(cc, p) THEN cc
    ELSE IF SlowStart(cc)
         THEN [cc EXCEPT !.congestion_window = @ + p.sent_bytes]
         ELSE LET stash == cc.stash + p.sent_bytes
                  count == stash \div cc.congestion_window
              IN  [cc EXCEPT !.stash = stash - count * cc.congestion_window,
                             !.congestion_window = @ + count * DatagramSize]

OnPacketAcked(cc, p) ==
    Grown([cc EXCEPT !.bytes_in_flight = @ - p.sent_bytes], p)

\* The calls for one packet after the other, as the recovery makes them.
OnPacketsAcked(cc, packets) ==
    MapThenFoldSet(LAMBDA p, control : OnPacketAcked(control, p), cc,
                   LAMBDA n : packets[n], LAMBDA rest : Max(rest), DOMAIN packets)

OnPacketsExpired(cc, packets) ==
    [cc EXCEPT !.bytes_in_flight = @ - SumBytes(packets)]

\* on_packets_lost(): the last packet of the list is the last one sent.  A loss starts
\* a congestion event only if it was sent after the last one began.
\* Variants with a slip: the minimum is left out, and a packet sent at the time
\* of the last event counts.
Halved(window) == window \div 2
Latest(packets) == packets[Max(DOMAIN packets)]

StartsEventAgain(cc, packets) == Latest(packets).sent_time >= cc.recovery_start

StartsEvent(cc, packets) == Latest(packets).sent_time > cc.recovery_start

Reduced(window) == IF window \div 2 > MinimumWindow THEN window \div 2 ELSE MinimumWindow

OnPacketsLost(cc, packets, now) ==
    LET left == OnPacketsExpired(cc, packets)
    IN  IF StartsEvent(cc, packets)
        THEN [left EXCEPT !.recovery_start = now,
                          !.congestion_window = Reduced(@),
                          !.ssthresh = Reduced(cc.congestion_window)]
        ELSE left

\* on_rtt_measurement(): a round trip time that keeps increasing ends slow
\* start.
OnRttMeasurement(cc, increasing) ==
    IF cc.ssthresh = NoThreshold /\ increasing
    THEN [cc EXCEPT !.ssthresh = cc.congestion_window]
    ELSE cc
=============================================================================
