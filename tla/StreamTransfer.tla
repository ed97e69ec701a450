--------------------------- MODULE StreamTransfer ---------------------------
(***************************************************************************)
(* One direction of a QUIC stream between two connections: a sender and a  *)
(* receiver, and the packets between them, which the network may lose,     *)
(* duplicate, delay and reorder.  A packet that carries a frame is named   *)
(* by the frame.  The recovery of the sending side may report a frame as   *)
(* acknowledged once a packet with it arrived, and as lost at any time,    *)
(* late packets included.                                                  *)
(***************************************************************************)
EXTENDS StreamSender, StreamReceiver, FiniteSets

CONSTANTS
    MaxNet,           \* bound: STREAM frames under way at once
    Aborts            \* bound: what the applications do besides writing

ASSUME MaxNetAssumption == MaxNet \in Nat
ASSUME AbortsAssumption == Aborts \subseteq {"reset", "stop"}

VARIABLES
    net,              \* STREAM frames under way
    got,              \* frames of s_sent that the receiver processed
    reset_net,        \* final sizes of the RESET_STREAM frames under way
    reset_got,        \* the RESET_STREAM of s_reset_sent was processed
    stop_net,         \* a STOP_SENDING is under way
    stop_got,         \* the STOP_SENDING of r_stop_sent was processed
    assert_failed     \* an AssertionError left receive_datagram()

frameVars == <<net, got>>
resetNetVars == <<reset_net, reset_got>>
stopNetVars == <<stop_net, stop_got>>
netVars == <<frameVars, resetNetVars, stopNetVars, assert_failed>>
vars == <<senderVars, receiverVars, netVars>>

NetTypeOK ==
    /\ net \subseteq Frame
    /\ got \subseteq Frame
    /\ reset_net \subseteq Offset
    /\ reset_got \in BOOLEAN
    /\ stop_net \in BOOLEAN
    /\ stop_got \in BOOLEAN
    /\ assert_failed \in BOOLEAN

TypeOK == SenderTypeOK /\ ReceiverTypeOK /\ NetTypeOK

Init ==
    /\ SenderInit
    /\ ReceiverInit
    /\ net = {}
    /\ got = {}
    /\ reset_net = {}
    /\ reset_got = FALSE
    /\ stop_net = FALSE
    /\ stop_got = FALSE
    /\ assert_failed = FALSE

-----------------------------------------------------------------------------
(* The sending application and its connection.                             *)

AppWrite ==
    /\ \E size \in Offset, end_stream \in BOOLEAN : Write(size, end_stream)
    /\ UNCHANGED <<receiverVars, netVars>>

AppReset ==
    /\ "reset" \in Aborts
    /\ Reset
    /\ UNCHANGED <<receiverVars, netVars>>

Enter(f) ==
    /\ net' = net \cup {f}
    /\ Cardinality(net') <= MaxNet

TransmitData ==
    /\ \E start, stop \in Offset :
          SendData(start, stop) /\ Enter(DataFrame(start, stop))
    /\ UNCHANGED <<receiverVars, got, resetNetVars, stopNetVars, assert_failed>>

TransmitFin ==
    /\ SendFin
    /\ Enter(FinFrame)
    /\ UNCHANGED <<receiverVars, got, resetNetVars, stopNetVars, assert_failed>>

TransmitFinStopped ==
    /\ SendFinStopped
    /\ UNCHANGED <<receiverVars, netVars>>

TransmitNothing ==
    /\ NothingToSend
    /\ UNCHANGED <<receiverVars, netVars>>

TransmitReset ==
    /\ SendReset
    /\ reset_net' = reset_net \cup {FinalSize}
    /\ UNCHANGED <<receiverVars, frameVars, reset_got, stopNetVars, assert_failed>>

-----------------------------------------------------------------------------
(* The receiving application and its connection.                           *)

AppStop ==
    /\ "stop" \in Aborts
    /\ Stop
    /\ UNCHANGED <<senderVars, netVars>>

TransmitStop ==
    /\ SendStop
    /\ stop_net' = TRUE
    /\ UNCHANGED <<senderVars, frameVars, resetNetVars, stop_got, assert_failed>>

-----------------------------------------------------------------------------
(* The network delivers a packet, which may stay for a second delivery, or *)
(* drops it.                                                               *)

DeliverFrame(f) ==
    /\ f \in net
    /\ HandleFrame(f)
    /\ got' = got \cup ({f} \cap s_sent)
    /\ UNCHANGED <<senderVars, net, resetNetVars, stopNetVars, assert_failed>>

DropFrame(f) ==
    /\ f \in net
    /\ net' = net \ {f}
    /\ UNCHANGED <<senderVars, receiverVars, got, resetNetVars, stopNetVars,
                   assert_failed>>

DeliverReset ==
    /\ \E final_size \in reset_net : HandleReset(final_size)
    /\ reset_got' = s_reset_sent
    /\ UNCHANGED <<senderVars, frameVars, reset_net, stopNetVars, assert_failed>>

DropReset ==
    /\ reset_net # {}
    /\ reset_net' = {}
    /\ UNCHANGED <<senderVars, receiverVars, frameVars, reset_got, stopNetVars,
                   assert_failed>>

\* _handle_stop_sending_frame() resets the sender of the stream.
DeliverStop ==
    /\ stop_net
    /\ Reset
    /\ stop_got' = r_stop_sent
    /\ UNCHANGED <<receiverVars, frameVars, resetNetVars, stop_net, assert_failed>>

\* reset() refuses to be called twice: the packet is not acknowledged.
DeliverStopAgain ==
    /\ stop_net
    /\ s_reset
    /\ assert_failed' = TRUE
    /\ UNCHANGED <<senderVars, receiverVars, frameVars, resetNetVars, stopNetVars>>

DropStop ==
    /\ stop_net
    /\ stop_net' = FALSE
    /\ UNCHANGED <<senderVars, receiverVars, frameVars, resetNetVars, stop_got,
                   assert_failed>>

-----------------------------------------------------------------------------
(* The recovery reports what became of a packet.                           *)

FrameAcked(f) ==
    /\ f \in got
    /\ OnDataAcked(f)
    /\ got' = got \ {f}
    /\ UNCHANGED <<receiverVars, net, resetNetVars, stopNetVars, assert_failed>>

FrameLost(f) ==
    /\ OnDataLost(f)
    /\ got' = got \ {f}
    /\ UNCHANGED <<receiverVars, net, resetNetVars, stopNetVars, assert_failed>>

ResetReported ==
    /\ (reset_got /\ OnResetAcked) \/ OnResetLost
    /\ reset_got' = FALSE
    /\ UNCHANGED <<receiverVars, frameVars, reset_net, stopNetVars, assert_failed>>

StopReported ==
    /\ (stop_got /\ OnStopAcked) \/ OnStopLost
    /\ stop_got' = FALSE
    /\ UNCHANGED <<senderVars, frameVars, resetNetVars, stop_net, assert_failed>>

-----------------------------------------------------------------------------
SenderSide ==
    \/ AppWrite \/ AppReset
    \/ TransmitData \/ TransmitFin \/ TransmitFinStopped \/ TransmitNothing
    \/ TransmitReset
    \/ \E f \in s_sent : FrameAcked(f) \/ FrameLost(f)
    \/ ResetReported

ReceiverSide == AppStop \/ TransmitStop \/ StopReported

Network ==
    \/ \E f \in net : DeliverFrame(f) \/ DropFrame(f)
    \/ DeliverReset \/ DropReset
    \/ DeliverStop \/ DeliverStopAgain \/ DropStop

Next == SenderSide \/ ReceiverSide \/ Network

Spec == Init /\ [][Next]_vars

-----------------------------------------------------------------------------
(* Safety.                                                                 *)

\* What the application got is what was written, from the first byte on, each
\* byte once and none of the zeros that fill a gap (handle_frame).
DeliveredInOrder ==
    r_delivered = [i \in 1..r_buffer_start |-> i - 1]

\* The application is told of the end only when it has the whole of a stream
\* whose end was written, or after it was told of a reset: no truncation,
\* however the frames arrive.
EndMeansAll ==
    r_ended => \/ s_buffer_fin # NoFin /\ r_buffer_start = s_buffer_fin
               \/ r_reset_seen

\* "end_stream: Whether the STREAM frame had the FIN bit set" (events.py): the
\* end is announced only of a stream whose end was written.
EndWasWritten == r_ended => s_buffer_fin # NoFin

\* The sender drops from its buffer, or counts as acknowledged, only bytes
\* that the receiver holds or has delivered (on_data_delivery).
AckedIsReceived ==
    \A o \in 0..(s_buffer_stop - 1) :
        o < s_buffer_start \/ o \in s_acked => o < r_buffer_start \/ o \in r_ranges

\* A sender that has finished leaves a receiver that has finished: everything
\* delivered up to the end, or the reset seen.
FinishedTogether ==
    s_is_finished => r_is_finished

\* No packet of an honest sender makes the receiver raise FinalSizeError,
\* whatever was lost, repeated or reset in between.
NoFinalSizeError ==
    /\ \A f \in net : FinalSizeHolds(f)
    /\ \A final_size \in reset_net : ResetSizeHolds(final_size)

\* The buffer reaches exactly to the highest offset seen, and every byte that
\* is marked as received is a received byte of it: a gap is never delivered.
RangesAreHeld ==
    /\ r_buffer_start + r_buffer_len = r_highest_offset
    /\ r_ranges = r_held
    /\ \A o \in r_ranges : r_buffer_start < o /\ o < r_highest_offset

\* reset() is called at most once: its assertion "cannot call reset() more
\* than once" holds, of a STOP_SENDING frame as of the application.
ResetCalledOnce == ~assert_failed

-----------------------------------------------------------------------------
(* Liveness.  The connection transmits whenever it has something to send   *)
(* and room comes back; a byte, an end or a reset that is sent over and    *)
(* over arrives and is acknowledged at some time; and the loss timer or    *)
(* the probe timeout reports as lost what is not acknowledged.             *)

DeliverSome(frames) == \E f \in frames : DeliverFrame(f)
AckSome(frames) == \E f \in frames : FrameAcked(f)
ReportSome(frames) == \E f \in frames : FrameAcked(f) \/ FrameLost(f)

FramesWith(byte) == {f \in Frame : byte \in Bytes(f)}
FramesWithFin == {f \in Frame : f.fin}

FairTo(frames) ==
    /\ SF_vars(DeliverSome(frames))
    /\ SF_vars(AckSome(frames))
    /\ WF_vars(ReportSome(frames))

Fairness ==
    /\ WF_vars(TransmitData)
    /\ WF_vars(TransmitReset)
    /\ \A byte \in 0..(MaxOffset - 1) : FairTo(FramesWith(byte))
    /\ WF_vars(\E f \in net : DropFrame(f))
    /\ SF_vars(DeliverReset)
    /\ WF_vars(ResetReported)

FinFairness == WF_vars(TransmitFin \/ TransmitFinStopped) /\ FairTo(FramesWithFin)

FairSpec == Spec /\ Fairness
FairFinSpec == FairSpec /\ FinFairness

\* Every byte written is delivered in the end, unless the stream is reset.
WrittenIsDelivered ==
    \A n \in 1..MaxOffset : s_buffer_stop >= n ~> Len(r_delivered) >= n \/ s_reset

\* A reset is seen by the receiver in the end.
ResetIsSeen == s_reset ~> r_reset_seen

\* The end of a stream is delivered in the end, unless the stream is reset:
\* "end_stream: If set to `True`, the FIN bit will be set" (send_stream_data).
EndIsDelivered == (s_buffer_fin # NoFin) ~> (r_ended \/ s_reset)

-----------------------------------------------------------------------------
(* The transfer implements the byte stream.                                *)

Abstract == INSTANCE ByteStream WITH
    written <- s_buffer_stop, closed <- (s_buffer_fin # NoFin),
    aborted <- s_reset, delivered <- r_delivered, ended <- r_ended,
    abort_seen <- r_reset_seen

ImplementsByteStream == Abstract!Spec
=============================================================================
