-------------------------------- MODULE Pulse --------------------------------
(***************************************************************************)
(* PulseCongestionControl of congestion/pulse.py with the part of its      *)
(* AnalyzerUnit that decides: three tasks, each of which does one round    *)
(* and sleeps for a sampling interval, and the callbacks of the recovery,  *)
(* which may come between any two rounds.  The sleeps are equally long, so *)
(* between two rounds of a task each other task has one, and the rounds    *)
(* are grouped in turns, here of any order.  How long a turn takes is up   *)
(* to the event loop: a sampling interval at least.                        *)
(*                                                                         *)
(* Bytes are whole numbers, amplitudes and growth percentages, and round   *)
(* trip times multiples of the sampling interval.  What decides between    *)
(* the states, the mean or percentile of congwin_to_response_ratio, is any *)
(* value; the sums that only the logs and the monitor read are left out.   *)
(***************************************************************************)
EXTENDS SequencesExt, FiniteSetsExt, Integers

CONSTANTS
    QueueLength,      \* maxlen of input_queue: samples in two periods
    BaseStart,        \* cwnd_base_0
    Amplitude,        \* base_to_amplitude_ratio, in percent
    Growth,           \* 2 * pi * ratio * frequency * phi, in percent
    InitialWindow,    \* K_INITIAL_WINDOW datagrams, in bytes
    PacketBytes,      \* bytes of a packet
    Rtts,             \* round trip times, in sampling intervals
    InitialRtt,       \* initial_rtt
    FallbackRtt,      \* get_rtt_estimate() without samples
    MaxLateness,      \* what a turn takes at most, in sampling intervals
    MaxBase,          \* bound: the base of the window
    MaxPackets,       \* bound: packets in flight
    MaxAcked          \* bound: packets acknowledged in an interval

ASSUME PulseAssumption ==
    /\ {QueueLength, PacketBytes, MaxLateness} \subseteq Nat \ {0}
    /\ {BaseStart, Growth, InitialWindow, MaxBase, MaxPackets, MaxAcked} \subseteq Nat
    /\ Amplitude \in 0..100
    /\ Rtts \cup {InitialRtt, FallbackRtt} \subseteq Nat \ {0}

Task == {"modulate", "log", "control"}
OperationState == {"STARTUP", "INCREASE", "CORRECT", "STATIC", "SENSE"}

VARIABLES
    operation_state,
    state_age,        \* intervals since state_start_t, counted up to QueueLength
    base_cwnd, congestion_window, bytes_in_flight,
    acked_bytes_in_interval,
    rtt_estimate, latest_rtt,
    input_queue,      \* samples: acknowledged bytes and round trip time
    ran,              \* the tasks that did their round in this turn
    samples_since     \* history: samples since base_cwnd was set, up to QueueLength

stateVars == <<operation_state, state_age>>
windowVars == <<base_cwnd, congestion_window>>
packetVars == <<bytes_in_flight, acked_bytes_in_interval, latest_rtt>>
pulseVars == <<stateVars, windowVars, packetVars, rtt_estimate, input_queue, ran,
               samples_since>>

PulseInit ==
    /\ operation_state = "STARTUP"
    /\ state_age = 0
    /\ base_cwnd = BaseStart
    /\ congestion_window = InitialWindow
    /\ bytes_in_flight = 0
    /\ acked_bytes_in_interval = 0
    /\ rtt_estimate = InitialRtt
    /\ latest_rtt = InitialRtt
    /\ input_queue = << >>
    /\ ran = {}
    /\ samples_since = 0

UpTo(limit, n) == IF n < limit THEN n ELSE limit

\* The turn is over.
Tick ==
    /\ ran = Task
    /\ ran' = {}
    /\ \E late \in 1..MaxLateness : state_age' = UpTo(QueueLength, state_age + late)
    /\ UNCHANGED <<operation_state, windowVars, packetVars, rtt_estimate, input_queue,
                   samples_since>>

Round(task) ==
    /\ task \notin ran
    /\ ran' = ran \cup {task}

-----------------------------------------------------------------------------
(* The callbacks of the recovery and the connection.                       *)

\* on_packet_sent(): the connection sends within the window, or a probe for
\* what is in flight.
PacketSent ==
    /\ bytes_in_flight < MaxPackets * PacketBytes
    /\ bytes_in_flight + PacketBytes <= congestion_window \/ bytes_in_flight > 0
    /\ bytes_in_flight' = bytes_in_flight + PacketBytes
    /\ UNCHANGED <<stateVars, windowVars, acked_bytes_in_interval, latest_rtt,
                   rtt_estimate, input_queue, ran, samples_since>>

\* on_packet_acked(): the bytes are scaled to a round trip time.
PacketAcked ==
    /\ bytes_in_flight > 0
    /\ acked_bytes_in_interval < MaxAcked * PacketBytes
    /\ bytes_in_flight' = bytes_in_flight - PacketBytes
    /\ acked_bytes_in_interval' = acked_bytes_in_interval + PacketBytes * rtt_estimate
    /\ UNCHANGED <<stateVars, windowVars, latest_rtt, rtt_estimate, input_queue, ran,
                   samples_since>>

\* on_packets_lost() and on_packets_expired(): the window stays as it is.
PacketGone ==
    /\ bytes_in_flight > 0
    /\ bytes_in_flight' = bytes_in_flight - PacketBytes
    /\ UNCHANGED <<stateVars, windowVars, acked_bytes_in_interval, latest_rtt,
                   rtt_estimate, input_queue, ran, samples_since>>

\* on_rtt_measurement()
RttMeasured ==
    /\ latest_rtt' \in Rtts
    /\ UNCHANGED <<stateVars, windowVars, bytes_in_flight, acked_bytes_in_interval,
                   rtt_estimate, input_queue, ran, samples_since>>

-----------------------------------------------------------------------------
(* The tasks.                                                              *)

\* int(base + amplitude * periodic_component), the component being between
\* -percent and percent of one.
Modulated(base, percent) == (base * (100 * 100 + Amplitude * percent)) \div (100 * 100)

\* Variant of Modulate with a slip: the window is modulated, not its base.
ModulateWindow ==
    /\ Round("modulate")
    /\ \E percent \in {-100, 0, 100} :
          congestion_window' = Modulated(congestion_window, percent)
    /\ UNCHANGED <<stateVars, base_cwnd, packetVars, rtt_estimate, input_queue,
                   samples_since>>

\* A round of modulate_congestion_window(): the waveform is at its low, its
\* middle or its peak.
Modulate ==
    /\ Round("modulate")
    /\ \E percent \in {-100, 0, 100} : congestion_window' = Modulated(base_cwnd, percent)
    /\ UNCHANGED <<stateVars, base_cwnd, packetVars, rtt_estimate, input_queue,
                   samples_since>>

\* A round of pass_timestamps(): a sample enters the queue, which keeps the
\* latest of them, and the interval starts again.
Sample == [acked |-> acked_bytes_in_interval, rtt |-> latest_rtt]

Log ==
    /\ Round("log")
    /\ LET all == Append(input_queue, Sample)
       IN  input_queue' = IF Len(all) > QueueLength THEN Tail(all) ELSE all
    /\ acked_bytes_in_interval' = 0
    /\ samples_since' = UpTo(QueueLength, samples_since + 1)
    /\ UNCHANGED <<stateVars, windowVars, bytes_in_flight, latest_rtt, rtt_estimate>>

\* get_rtt_estimate() and get_bdp_estimate()
RttEstimate ==
    IF input_queue = << >> THEN FallbackRtt
    ELSE Min({s.rtt : s \in ToSet(input_queue)})
BdpEstimate == Max({s.acked : s \in ToSet(input_queue)})

\* change_operation_state()
ChangeOperationState(state) ==
    /\ operation_state' = state
    /\ state_age' = 0

SetBase(base) ==
    /\ base_cwnd' = base
    /\ samples_since' = 0

\* state_active_over(): a round that comes so many sleeps later comes later than
\* so many intervals.
\* The variant with a slip has one interval too few.
ActiveAlmostOverQueue == state_age >= QueueLength - 1

ActiveOverQueue == state_age >= QueueLength

\* A round of control(), by state.  STARTUP multiplies the outcome of
\* state_active_over() by 2, not its argument.
ControlStartup ==
    /\ operation_state = "STARTUP"
    /\ IF ActiveOverQueue
       THEN rtt_estimate' = RttEstimate /\ ChangeOperationState("INCREASE")
       ELSE UNCHANGED <<rtt_estimate, stateVars>>
    /\ UNCHANGED <<base_cwnd, samples_since>>

NextStep(base) == base + (base * Growth) \div 100

ControlIncrease ==
    /\ operation_state = "INCREASE"
    /\ NextStep(base_cwnd) <= MaxBase
    /\ SetBase(NextStep(base_cwnd))
    /\ ChangeOperationState("CORRECT") \/ UNCHANGED stateVars
    /\ UNCHANGED rtt_estimate

ControlStatic ==
    /\ operation_state = "STATIC"
    /\ ChangeOperationState("CORRECT") \/ UNCHANGED stateVars
    /\ UNCHANGED <<base_cwnd, samples_since, rtt_estimate>>

ControlCorrect ==
    /\ operation_state = "CORRECT"
    /\ IF input_queue = << >> THEN UNCHANGED <<base_cwnd, samples_since>>
                              ELSE SetBase(BdpEstimate)
    /\ ChangeOperationState("SENSE")
    /\ UNCHANGED rtt_estimate

\* Variant of ControlSense with a slip: each round starts the state anew.
ControlSenseRestarted ==
    /\ operation_state = "SENSE"
    /\ rtt_estimate' = RttEstimate
    /\ IF ActiveOverQueue THEN ChangeOperationState("STATIC")
                          ELSE ChangeOperationState("SENSE")
    /\ UNCHANGED <<base_cwnd, samples_since>>

ControlSense ==
    /\ operation_state = "SENSE"
    /\ rtt_estimate' = RttEstimate
    /\ IF ActiveOverQueue THEN ChangeOperationState("STATIC") ELSE UNCHANGED stateVars
    /\ UNCHANGED <<base_cwnd, samples_since>>

Control ==
    /\ Round("control")
    /\ \/ ControlStartup \/ ControlIncrease \/ ControlStatic
       \/ ControlCorrect \/ ControlSense
    /\ UNCHANGED <<congestion_window, packetVars, input_queue>>

-----------------------------------------------------------------------------
PulseNext ==
    \/ Tick
    \/ PacketSent \/ PacketAcked \/ PacketGone \/ RttMeasured
    \/ Modulate \/ Log \/ Control

\* The event loop runs every task that is due, and its timers.
PulseFairness ==
    /\ WF_pulseVars(Tick) /\ WF_pulseVars(Modulate)
    /\ WF_pulseVars(Log) /\ WF_pulseVars(Control)

PulseSpec == PulseInit /\ [][PulseNext]_pulseVars /\ PulseFairness

-----------------------------------------------------------------------------
(* Properties.                                                             *)

PulseTypeOK ==
    /\ operation_state \in OperationState
    /\ state_age \in 0..QueueLength
    /\ base_cwnd \in Nat /\ congestion_window \in Nat
    /\ bytes_in_flight \in 0..(MaxPackets * PacketBytes)
    /\ acked_bytes_in_interval \in Nat
    /\ rtt_estimate \in Nat \ {0} /\ latest_rtt \in Nat \ {0}
    /\ Len(input_queue) <= QueueLength
    /\ \A s \in ToSet(input_queue) : s.acked \in Nat /\ s.rtt \in Nat \ {0}
    /\ ran \subseteq Task
    /\ samples_since \in 0..QueueLength

\* The states are timed by the clock and the queue is filled by rounds: as late
\* as the turns may be, STARTUP ends only once there are enough samples in the
\* queue to span its length in time, and a full queue if the loop is punctual
\* (though STARTUP seems meant to last twice as long).
QueueFilledAfterStartup ==
    operation_state # "STARTUP" => Len(input_queue) * MaxLateness >= QueueLength

\* When STATIC decides that the base has to be corrected, the samples taken since
\* the base was set span the length of the queue in time: with a punctual loop
\* the next estimate of the bandwidth-delay product rests on none of the window
\* before.
EstimateIsFresh ==
    [][operation_state = "STATIC" /\ operation_state' = "CORRECT"
          => samples_since * MaxLateness >= QueueLength]_pulseVars

\* All samples but the first two after the base was set are of a window within
\* the amplitude around the base, whatever the order of the tasks.
WithinAmplitude ==
    congestion_window \in Modulated(base_cwnd, -100)..Modulated(base_cwnd, 100)

WindowFollowsBase == samples_since > 2 => WithinAmplitude

\* A correction is judged in the end: SENSE does not last forever.
CorrectionIsJudged == operation_state = "CORRECT" ~> operation_state = "STATIC"
=============================================================================
