--------------------------- MODULE StreamReceiver ---------------------------
(***************************************************************************)
(* The receiving part of a QUIC stream: class QuicStreamReceiver of        *)
(* quic/stream.py.  The bytearray _buffer starts at offset r_buffer_start  *)
(* and is r_buffer_len bytes long; r_held are the offsets at which it      *)
(* holds received data, the others being the zeros a gap is filled with.   *)
(*                                                                         *)
(* r_delivered, r_ended and r_reset_seen record the events handed to the   *)
(* application: the bytes of StreamDataReceived one after the other, an    *)
(* end_stream, and a StreamReset.                                          *)
(***************************************************************************)
EXTENDS StreamFrames, Sequences

Gap == -1             \* a zero of bytearray(gap)

VARIABLES
    r_highest_offset, r_is_finished, r_final_size,
    r_buffer_start, r_buffer_len, r_held, r_ranges,
    r_stop_pending,
    r_stopped,        \* _stop_error_code is not None
    r_stop_sent,      \* on_stop_sending_delivery is registered
    r_delivered, r_ended, r_reset_seen

dataVars == <<r_highest_offset, r_buffer_start, r_buffer_len, r_held, r_ranges,
              r_delivered, r_ended>>
stopVars == <<r_stop_pending, r_stopped, r_stop_sent>>
receiverVars == <<r_is_finished, r_final_size, r_reset_seen, dataVars, stopVars>>

ReceiverTypeOK ==
    /\ r_highest_offset \in Offset
    /\ r_is_finished \in BOOLEAN
    /\ r_final_size \in Offset \cup {NoFin}
    /\ r_buffer_start \in Offset
    /\ r_buffer_len \in Offset
    /\ r_held \subseteq Offset
    /\ r_ranges \subseteq Offset
    /\ r_stop_pending \in BOOLEAN
    /\ r_stopped \in BOOLEAN
    /\ r_stop_sent \in BOOLEAN
    /\ r_delivered \in Seq(Offset \cup {Gap})
    /\ r_ended \in BOOLEAN
    /\ r_reset_seen \in BOOLEAN

ReceiverInit ==
    /\ r_highest_offset = 0
    /\ r_is_finished = FALSE
    /\ r_final_size = NoFin
    /\ r_buffer_start = 0
    /\ r_buffer_len = 0
    /\ r_held = {}
    /\ r_ranges = {}
    /\ r_stop_pending = FALSE
    /\ r_stopped = FALSE
    /\ r_stop_sent = FALSE
    /\ r_delivered = << >>
    /\ r_ended = FALSE
    /\ r_reset_seen = FALSE

-----------------------------------------------------------------------------
(* A STREAM frame arrives.                                                 *)

\* The two tests of handle_frame() that raise FinalSizeError both pass.
FinalSizeHolds(f) ==
    r_final_size # NoFin =>
        /\ f.stop <= r_final_size
        /\ f.fin => f.stop = r_final_size

\* Variants with a slip: either test is left out.
InOrderChunkOverBuffer(f) == f.start = r_buffer_start /\ f.stop > f.start
AnyChunk(f) == f.stop > f.start /\ r_buffer_len = 0

\* A new in-order chunk while nothing is buffered goes straight through.
InOrderChunk(f) ==
    f.start = r_buffer_start /\ f.stop > f.start /\ r_buffer_len = 0

PassThrough(f) ==
    /\ r_buffer_start' = f.stop
    /\ r_delivered' = r_delivered \o [i \in 1..(f.stop - f.start) |-> f.start + i - 1]
    /\ r_is_finished' = (r_is_finished \/ f.fin)
    /\ r_ended' = (r_ended \/ f.fin)
    /\ UNCHANGED <<r_buffer_len, r_held, r_ranges>>

\* _pull_data(): the bytes from the front of the buffer up to stop.
PulledData(held, len, stop) ==
    LET n == stop - r_buffer_start
    IN  [i \in 1..(IF n < len THEN n ELSE len) |->
            IF r_buffer_start + i - 1 \in held THEN r_buffer_start + i - 1 ELSE Gap]

PullData(ranges, held, len) ==
    IF r_buffer_start \in ranges /\ \A o \in ranges : r_buffer_start <= o
    THEN \E stop \in Offset :
            /\ FirstRange(ranges, r_buffer_start, stop)
            /\ r_ranges' = ranges \ (r_buffer_start..(stop - 1))
            /\ r_held' = held \ (r_buffer_start..(stop - 1))
            /\ r_buffer_len' = Larger(len - (stop - r_buffer_start), 0)
            /\ r_buffer_start' = stop
            /\ r_delivered' = r_delivered \o PulledData(held, len, stop)
    ELSE /\ r_ranges' = ranges
         /\ r_held' = held
         /\ r_buffer_len' = len
         /\ UNCHANGED <<r_buffer_start, r_delivered>>

\* Anything else: what is already delivered is cut off the frame, the rest is
\* stored, with a gap before it if need be, and the front is pulled.
BufferAndPull(f) ==
    LET start == Larger(f.start, r_buffer_start)
        new == start..(f.stop - 1)
        end == Larger(start, f.stop)
    IN  /\ PullData(r_ranges \cup new, r_held \cup new,
                    Larger(r_buffer_len, end - r_buffer_start))
        /\ r_ended' = (r_ended \/ r_buffer_start' = r_final_size')
        /\ r_is_finished' = (r_is_finished \/ r_buffer_start' = r_final_size')

HandleFrame(f) ==
    /\ FinalSizeHolds(f)
    /\ r_final_size' = IF f.fin THEN f.stop ELSE r_final_size
    /\ r_highest_offset' = Larger(r_highest_offset, f.stop)
    /\ IF InOrderChunk(f) THEN PassThrough(f) ELSE BufferAndPull(f)
    /\ UNCHANGED <<r_reset_seen, stopVars>>

-----------------------------------------------------------------------------
(* A RESET_STREAM frame arrives.                                           *)

ResetSizeHolds(final_size) ==
    r_final_size # NoFin => final_size = r_final_size

HandleReset(final_size) ==
    /\ ResetSizeHolds(final_size)
    /\ r_final_size' = final_size
    /\ r_is_finished' = TRUE
    /\ r_reset_seen' = TRUE
    /\ UNCHANGED <<dataVars, stopVars>>

-----------------------------------------------------------------------------
(* The application asks the peer to stop sending (bound: once).            *)

Stop ==
    /\ ~r_stopped
    /\ r_stopped' = TRUE
    /\ r_stop_pending' = TRUE
    /\ UNCHANGED <<r_is_finished, r_final_size, r_reset_seen, r_stop_sent, dataVars>>

SendStop ==
    /\ r_stop_pending
    /\ r_stop_pending' = FALSE
    /\ r_stop_sent' = TRUE
    /\ UNCHANGED <<r_is_finished, r_final_size, r_reset_seen, r_stopped, dataVars>>

OnStopAcked ==
    /\ r_stop_sent
    /\ r_stop_sent' = FALSE
    /\ UNCHANGED <<r_is_finished, r_final_size, r_reset_seen, r_stopped,
                   r_stop_pending, dataVars>>

OnStopLost ==
    /\ r_stop_sent
    /\ r_stop_sent' = FALSE
    /\ r_stop_pending' = TRUE
    /\ UNCHANGED <<r_is_finished, r_final_size, r_reset_seen, r_stopped, dataVars>>
=============================================================================
