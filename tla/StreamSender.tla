---------------------------- MODULE StreamSender ----------------------------
(***************************************************************************)
(* The sending part of a QUIC stream: class QuicStreamSender of            *)
(* quic/stream.py, driven the way quic/connection.py drives it.  A byte is *)
(* named by its offset, so _buffer is the interval from s_buffer_start to  *)
(* s_buffer_stop, and the RangeSets _pending and _acked are sets of        *)
(* offsets (module RangeSet relates the list of ranges to the set).        *)
(*                                                                         *)
(* s_sent holds the delivery callbacks that are registered: one frame for  *)
(* each STREAM frame in a packet that is neither acknowledged nor lost.    *)
(***************************************************************************)
EXTENDS StreamFrames

VARIABLES
    s_buffer_is_empty, s_highest_offset, s_is_finished, s_reset_pending,
    s_acked, s_acked_fin, s_buffer_fin, s_buffer_start, s_buffer_stop,
    s_pending, s_pending_eof,
    s_reset,          \* _reset_error_code is not None
    s_sent,           \* frames whose on_data_delivery is registered
    s_reset_sent      \* on_reset_delivery is registered

bufferVars == <<s_acked, s_acked_fin, s_buffer_start, s_is_finished>>
writeVars == <<s_buffer_fin, s_buffer_stop>>
resetVars == <<s_reset, s_reset_pending, s_reset_sent>>
senderVars == <<s_buffer_is_empty, s_highest_offset, s_pending, s_pending_eof,
                s_sent, bufferVars, writeVars, resetVars>>

SenderTypeOK ==
    /\ s_buffer_is_empty \in BOOLEAN
    /\ s_highest_offset \in Offset
    /\ s_is_finished \in BOOLEAN
    /\ s_reset_pending \in BOOLEAN
    /\ s_acked \subseteq Offset
    /\ s_acked_fin \in BOOLEAN
    /\ s_buffer_fin \in Offset \cup {NoFin}
    /\ s_buffer_start \in Offset
    /\ s_buffer_stop \in Offset
    /\ s_pending \subseteq Offset
    /\ s_pending_eof \in BOOLEAN
    /\ s_reset \in BOOLEAN
    /\ s_sent \subseteq Frame
    /\ s_reset_sent \in BOOLEAN

SenderInit ==
    /\ s_buffer_is_empty = TRUE
    /\ s_highest_offset = 0
    /\ s_is_finished = FALSE
    /\ s_reset_pending = FALSE
    /\ s_acked = {}
    /\ s_acked_fin = FALSE
    /\ s_buffer_fin = NoFin
    /\ s_buffer_start = 0
    /\ s_buffer_stop = 0
    /\ s_pending = {}
    /\ s_pending_eof = FALSE
    /\ s_reset = FALSE
    /\ s_sent = {}
    /\ s_reset_sent = FALSE

-----------------------------------------------------------------------------
(* The application.                                                        *)

\* write(): the two assertions are the guard.
Write(size, end_stream) ==
    /\ s_buffer_fin = NoFin
    /\ ~s_reset
    /\ s_buffer_stop + size <= MaxOffset
    /\ s_buffer_is_empty' = (s_buffer_is_empty /\ size = 0 /\ ~end_stream)
    /\ s_pending' = s_pending \cup s_buffer_stop..(s_buffer_stop + size - 1)
    /\ s_buffer_stop' = s_buffer_stop + size
    /\ s_buffer_fin' = IF end_stream THEN s_buffer_stop' ELSE NoFin
    /\ s_pending_eof' = (s_pending_eof \/ end_stream)
    /\ UNCHANGED <<s_highest_offset, s_sent, bufferVars, resetVars>>

\* reset(): the assertion is the guard.
Reset ==
    /\ ~s_reset
    /\ s_reset' = TRUE
    /\ s_reset_pending' = TRUE
    /\ s_buffer_is_empty' = TRUE
    /\ UNCHANGED <<s_highest_offset, s_pending, s_pending_eof, s_sent,
                   s_reset_sent, bufferVars, writeVars>>

-----------------------------------------------------------------------------
(* The connection fills a packet.                                          *)

\* The connection asks for a frame only if no reset has to go first.
MaySend == ~s_reset_pending /\ ~s_buffer_is_empty

FirstPending(start) ==
    start \in s_pending /\ \A o \in s_pending : start <= o

\* get_frame() with data in the first pending range.  The room in the packet
\* and the flow control limits cut the range anywhere after its first byte.
\* Variants with a slip: the last byte is not registered, and the FIN bit is set
\* on every frame once the end is written.
DataFrameShort(start, stop) ==
    [start |-> start, stop |-> stop - 1, fin |-> s_buffer_fin = stop]
DataFrameEarlyFin(start, stop) ==
    [start |-> start, stop |-> stop, fin |-> s_buffer_fin # NoFin]

DataFrame(start, stop) ==
    [start |-> start, stop |-> stop, fin |-> s_buffer_fin = stop]

SendData(start, stop) ==
    /\ MaySend
    /\ FirstPending(start)
    /\ start < stop
    /\ start..(stop - 1) \subseteq s_pending
    /\ s_pending' = s_pending \ (start..(stop - 1))
    /\ s_highest_offset' = Larger(s_highest_offset, stop)
    /\ s_pending_eof' = (s_pending_eof /\ s_buffer_fin # stop)
    /\ s_sent' = s_sent \cup {DataFrame(start, stop)}
    /\ UNCHANGED <<s_buffer_is_empty, bufferVars, writeVars, resetVars>>

\* Variant with a slip: the end stays pending.
TakeFinAndKeep ==
    /\ MaySend
    /\ s_pending = {}
    /\ s_pending_eof
    /\ UNCHANGED s_pending_eof

\* get_frame() with nothing pending but the end of the stream ...
TakeFin ==
    /\ MaySend
    /\ s_pending = {}
    /\ s_pending_eof
    /\ s_pending_eof' = FALSE

\* Variant with a slip: the end takes its last byte along.
FinFrameWithByte == [start |-> s_buffer_fin - 1, stop |-> s_buffer_fin, fin |-> TRUE]

FinFrame == [start |-> s_buffer_fin, stop |-> s_buffer_fin, fin |-> TRUE]

SendFin ==
    /\ TakeFin
    /\ s_sent' = s_sent \cup {FinFrame}
    /\ UNCHANGED <<s_buffer_is_empty, s_highest_offset, s_pending,
                   bufferVars, writeVars, resetVars>>

\* ... and start_frame() then raises QuicPacketBuilderStop, for want of room
\* in the packet or in the congestion window: nothing is registered or sent.
SendFinStopped ==
    /\ TakeFin
    /\ UNCHANGED <<s_buffer_is_empty, s_highest_offset, s_pending, s_sent,
                   bufferVars, writeVars, resetVars>>

\* get_frame() with nothing to send.
NothingToSend ==
    /\ MaySend
    /\ s_pending = {}
    /\ ~s_pending_eof
    /\ s_buffer_is_empty' = TRUE
    /\ UNCHANGED <<s_highest_offset, s_pending, s_pending_eof, s_sent,
                   bufferVars, writeVars, resetVars>>

\* The final size in get_reset_frame(), and a variant with a slip: what is
\* acknowledged in place of what was sent.
AckedSize == s_buffer_start

FinalSize == s_highest_offset

\* _write_reset_stream_frame(): room is checked before get_reset_frame().
SendReset ==
    /\ s_reset_pending
    /\ s_reset_pending' = FALSE
    /\ s_reset_sent' = TRUE
    /\ UNCHANGED <<s_reset, s_buffer_is_empty, s_highest_offset, s_pending,
                   s_pending_eof, s_sent, bufferVars, writeVars>>

-----------------------------------------------------------------------------
(* The recovery reports what became of a packet.                           *)

\* Variant with a slip: the first range is released wherever it starts.
ReleaseFirstRange(now_acked) ==
    IF now_acked = {}
    THEN s_acked' = {} /\ UNCHANGED s_buffer_start
    ELSE \E start, stop \in Offset :
            /\ FirstRange(now_acked, start, stop)
            /\ s_acked' = now_acked \ (start..(stop - 1))
            /\ s_buffer_start' = stop

\* Acknowledged data leaves the buffer once everything before it has.
ReleaseAcked(now_acked) ==
    IF s_buffer_start \in now_acked /\ \A o \in now_acked : s_buffer_start <= o
    THEN \E stop \in Offset :
            /\ FirstRange(now_acked, s_buffer_start, stop)
            /\ s_acked' = now_acked \ (s_buffer_start..(stop - 1))
            /\ s_buffer_start' = stop
    ELSE s_acked' = now_acked /\ UNCHANGED s_buffer_start

\* on_data_delivery(ACKED, ...)
OnDataAcked(f) ==
    /\ f \in s_sent
    /\ s_sent' = s_sent \ {f}
    /\ IF s_reset
       THEN UNCHANGED bufferVars
       ELSE /\ IF f.stop > f.start
               THEN ReleaseAcked(s_acked \cup Bytes(f))
               ELSE UNCHANGED <<s_acked, s_buffer_start>>
            /\ s_acked_fin' = (s_acked_fin \/ f.fin)
            /\ s_is_finished' = (s_is_finished \/
                                 (s_buffer_start' = s_buffer_fin /\ s_acked_fin'))
    /\ UNCHANGED <<s_buffer_is_empty, s_highest_offset, s_pending, s_pending_eof,
                   writeVars, resetVars>>

\* What was lost is sent again.
\* Variant with a slip: the connection is not told.
RequeueUnscheduled(f) ==
    /\ s_pending' = s_pending \cup Bytes(f)
    /\ s_pending_eof' = (s_pending_eof \/ f.fin)
    /\ UNCHANGED s_buffer_is_empty

Requeue(f) ==
    /\ s_buffer_is_empty' = FALSE
    /\ s_pending' = s_pending \cup Bytes(f)
    /\ s_pending_eof' = (s_pending_eof \/ f.fin)

\* on_data_delivery(LOST, ...)
OnDataLost(f) ==
    /\ f \in s_sent
    /\ s_sent' = s_sent \ {f}
    /\ IF s_reset
       THEN UNCHANGED <<s_buffer_is_empty, s_pending, s_pending_eof>>
       ELSE Requeue(f)
    /\ UNCHANGED <<s_highest_offset, bufferVars, writeVars, resetVars>>

\* on_reset_delivery(ACKED)
OnResetAcked ==
    /\ s_reset_sent
    /\ s_reset_sent' = FALSE
    /\ s_is_finished' = TRUE
    /\ UNCHANGED <<s_buffer_is_empty, s_highest_offset, s_pending, s_pending_eof,
                   s_sent, s_acked, s_acked_fin, s_buffer_start, writeVars,
                   s_reset, s_reset_pending>>

\* on_reset_delivery(LOST), and a variant with a slip: it is not sent again.
OnResetLostForGood ==
    /\ s_reset_sent
    /\ s_reset_sent' = FALSE
    /\ UNCHANGED <<s_buffer_is_empty, s_highest_offset, s_pending, s_pending_eof,
                   s_sent, bufferVars, writeVars, s_reset, s_reset_pending>>

OnResetLost ==
    /\ s_reset_sent
    /\ s_reset_sent' = FALSE
    /\ s_reset_pending' = TRUE
    /\ UNCHANGED <<s_buffer_is_empty, s_highest_offset, s_pending, s_pending_eof,
                   s_sent, bufferVars, writeVars, s_reset>>

-----------------------------------------------------------------------------
SenderNext ==
    \/ \E size \in Offset, end_stream \in BOOLEAN : Write(size, end_stream)
    \/ Reset
    \/ \E start, stop \in Offset : SendData(start, stop)
    \/ SendFin
    \/ SendFinStopped
    \/ NothingToSend
    \/ SendReset
    \/ \E f \in s_sent : OnDataAcked(f) \/ OnDataLost(f)
    \/ OnResetAcked
    \/ OnResetLost

SenderSpec == SenderInit /\ [][SenderNext]_senderVars

-----------------------------------------------------------------------------
(* Safety.                                                                 *)

InFlight == UNION {Bytes(f) : f \in s_sent}

\* Until the stream is reset, a byte that was written and is not acknowledged
\* waits to be sent or its delivery is awaited: no order of acknowledgements
\* and losses makes the sender forget a byte.
NoByteForgotten ==
    ~s_reset => s_buffer_start..(s_buffer_stop - 1) \subseteq
                    s_acked \cup s_pending \cup InFlight

\* ... and it is in one of the three places only: nothing is sent twice while
\* its delivery is awaited, and nothing acknowledged is sent again.  The frames
\* in flight do not overlap either, so that an acknowledged range never starts
\* before the buffer, and a second frame with only the end of the stream is not
\* sent while the first is in flight.
OnePlaceForEachByte ==
    /\ s_pending \cap InFlight = {}
    /\ s_acked \cap (s_pending \cup InFlight) = {}
    /\ \A f, g \in s_sent : f # g => Bytes(f) \cap Bytes(g) = {}
    /\ s_pending = {} /\ s_pending_eof => FinFrame \notin s_sent

\* get_frame() slices _buffer from start - _buffer_start: nothing pending lies
\* before the start of the buffer, where the slice would be of other bytes.
PendingIsBuffered ==
    \A o \in s_pending \cup InFlight : s_buffer_start <= o /\ o < s_buffer_stop

\* The connection looks at buffer_is_empty only: it is never set while there
\* is something left to send, and after a reset, when get_frame() must not be
\* called any more, it stays set.
ScheduledWhilePending ==
    /\ s_buffer_is_empty => s_reset \/ (s_pending = {} /\ ~s_pending_eof)
    /\ s_reset => s_buffer_is_empty

\* on_data_delivery() asserts that a frame with the FIN bit ends the stream.
FinFrameEndsStream ==
    \A f \in s_sent : f.fin => s_buffer_fin # NoFin /\ f.stop = s_buffer_fin
=============================================================================
