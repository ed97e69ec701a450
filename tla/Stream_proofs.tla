---------------------------- MODULE Stream_proofs ---------------------------
(***************************************************************************)
(* Proofs about a stream, for every number of bytes: its sending part, the *)
(* stream from end to end over a network that loses, repeats, delays and   *)
(* reorders, and the lists of ranges that keep the offsets of both ends.   *)
(***************************************************************************)
EXTENDS StreamTransfer, RangeSet, FoldLemmas, SequenceTheorems

-----------------------------------------------------------------------------
(* The sending part.                                                       *)

\* Where the offsets lie: acknowledged bytes strictly after the start of the
\* buffer, and everything from the highest offset on still to be sent.
OffsetsInPlace ==
    /\ s_buffer_start <= s_highest_offset /\ s_highest_offset <= s_buffer_stop
    /\ \A o \in s_acked : s_buffer_start < o /\ o < s_highest_offset
    /\ \A o \in s_pending : s_buffer_start <= o /\ o < s_buffer_stop
    /\ s_highest_offset..(s_buffer_stop - 1) \subseteq s_pending

\* What a frame in flight looks like.
FramesInPlace ==
    \A f \in s_sent :
        /\ f.start < f.stop \/ (f.start = f.stop /\ f.fin)
        /\ s_buffer_start <= f.start
        /\ f.stop <= s_highest_offset
        /\ f.fin => s_buffer_fin # NoFin /\ f.stop = s_buffer_fin

\* The frames in flight, the pending and the acknowledged bytes are apart.
BytesApart ==
    /\ s_pending \cap s_acked = {}
    /\ \A f \in s_sent : Bytes(f) \cap (s_pending \cup s_acked) = {}
    /\ \A f, g \in s_sent : f # g => Bytes(f) \cap Bytes(g) = {}

\* The end of the stream: pending with the last byte if it is in flight alone.
FinInPlace ==
    /\ s_buffer_fin # NoFin => s_buffer_fin = s_buffer_stop
    /\ s_pending_eof => s_buffer_fin # NoFin
    /\ s_pending_eof /\ FinFrame \in s_sent => s_buffer_fin - 1 \in s_pending

ResetInPlace == s_reset_pending \/ s_reset_sent => s_reset

SenderInv ==
    /\ SenderTypeOK
    /\ OffsetsInPlace
    /\ FramesInPlace
    /\ BytesApart
    /\ FinInPlace
    /\ ResetInPlace
    /\ ScheduledWhilePending
    /\ NoByteForgotten

-----------------------------------------------------------------------------
\* At the start nothing is written or sent.
LEMMA InitInv == SenderInit => SenderInv
<1> SUFFICES ASSUME SenderInit PROVE SenderInv
    OBVIOUS
<1> USE MaxOffsetAssumption DEF SenderInit, Offset, NoFin
<1>1. SenderTypeOK
  <2>1. 0 \in Offset
        OBVIOUS
  <2>2. QED BY <2>1, Zenon DEF SenderTypeOK
<1>2. OffsetsInPlace
      BY DEF OffsetsInPlace
<1>3. FramesInPlace /\ BytesApart /\ FinInPlace
      BY DEF FramesInPlace, BytesApart, FinInPlace
<1>4. ResetInPlace /\ ScheduledWhilePending
      BY DEF ResetInPlace, ScheduledWhilePending
<1>5. NoByteForgotten
      BY DEF NoByteForgotten
<1>6. QED BY <1>1, <1>2, <1>3, <1>4, <1>5 DEF SenderInv

\* write(): more is in the buffer, and waits.
LEMMA WriteInv ==
    ASSUME SenderInv, NEW size \in Offset, NEW end_stream \in BOOLEAN,
           Write(size, end_stream)
    PROVE  SenderInv'
<1> USE MaxOffsetAssumption DEF Offset, NoFin, Write, bufferVars, resetVars
<1>1. SenderTypeOK'
      BY DEF SenderInv, SenderTypeOK
<1>2. OffsetsInPlace'
      BY DEF SenderInv, SenderTypeOK, OffsetsInPlace
<1>3. FramesInPlace'
      BY DEF SenderInv, SenderTypeOK, OffsetsInPlace, FramesInPlace, Frame
<1>4. BytesApart'
      BY DEF SenderInv, SenderTypeOK, OffsetsInPlace, FramesInPlace, BytesApart,
             Bytes, Frame
<1>5. FinInPlace'
      BY DEF SenderInv, SenderTypeOK, FramesInPlace, FinInPlace, FinFrame
<1>6. ResetInPlace' /\ ScheduledWhilePending'
      BY DEF SenderInv, SenderTypeOK, ResetInPlace, ScheduledWhilePending
<1>7. NoByteForgotten'
      BY DEF SenderInv, SenderTypeOK, NoByteForgotten, InFlight
<1>8. QED BY <1>1, <1>2, <1>3, <1>4, <1>5, <1>6, <1>7 DEF SenderInv

\* reset(): the rest of the stream is given up.
LEMMA ResetInv == SenderInv /\ Reset => SenderInv'
<1> SUFFICES ASSUME SenderInv, Reset PROVE SenderInv'
    OBVIOUS
<1> USE DEF Reset, bufferVars, writeVars
<1>1. SenderTypeOK'
      BY DEF SenderInv, SenderTypeOK
<1>2. OffsetsInPlace' /\ FramesInPlace' /\ BytesApart' /\ FinInPlace'
      BY DEF SenderInv, OffsetsInPlace, FramesInPlace, BytesApart, FinInPlace,
             FinFrame
<1>3. ResetInPlace' /\ ScheduledWhilePending' /\ NoByteForgotten'
      BY DEF SenderInv, ResetInPlace, ScheduledWhilePending, NoByteForgotten
<1>4. QED BY <1>1, <1>2, <1>3 DEF SenderInv

\* The frame that SendData registers: its bytes were pending, all of them.
LEMMA SendDataInv ==
    ASSUME SenderInv, NEW start \in Offset, NEW stop \in Offset,
           SendData(start, stop)
    PROVE  SenderInv'
<1> DEFINE f == DataFrame(start, stop)
<1> USE MaxOffsetAssumption
    DEF Offset, NoFin, SendData, MaySend, FirstPending, bufferVars, writeVars,
        resetVars
<1>1. f \in Frame /\ f.start = start /\ f.stop = stop /\ (f.fin <=> s_buffer_fin = stop)
      BY DEF DataFrame, Frame
<1>2. Bytes(f) = start..(stop - 1) /\ Bytes(f) \subseteq s_pending
      BY <1>1 DEF Bytes
<1>3. s_sent' = s_sent \cup {f} /\ s_pending' = s_pending \ Bytes(f)
      BY <1>2
<1>4. s_highest_offset' = Larger(s_highest_offset, stop)
      OBVIOUS
<1> HIDE DEF f
<1>5. SenderTypeOK'
      BY <1>1, <1>3, <1>4 DEF SenderInv, SenderTypeOK, Larger
<1>a. stop <= s_buffer_stop
  <2>1. stop - 1 \in s_pending
        OBVIOUS
  <2>2. QED BY <2>1 DEF SenderInv, OffsetsInPlace, SenderTypeOK
<1>6. OffsetsInPlace'
  <2>1. start <= s_highest_offset
        BY DEF SenderInv, OffsetsInPlace, SenderTypeOK
  <2>3. s_highest_offset'..(s_buffer_stop - 1) \subseteq s_pending'
        BY <1>2, <1>3, <1>4, <2>1 DEF SenderInv, OffsetsInPlace, SenderTypeOK, Larger
  <2>4. QED BY <1>3, <1>4, <1>a, <2>1, <2>3
               DEF SenderInv, OffsetsInPlace, SenderTypeOK, Larger
<1>7. FramesInPlace'
  <2>1. SUFFICES ASSUME NEW g \in s_sent'
                 PROVE  /\ g.start < g.stop \/ (g.start = g.stop /\ g.fin)
                        /\ s_buffer_start <= g.start
                        /\ g.stop <= s_highest_offset'
                        /\ g.fin => s_buffer_fin # NoFin /\ g.stop = s_buffer_fin
        BY DEF FramesInPlace
  <2>2. CASE g = f
        BY <1>1, <1>4, <2>2 DEF SenderInv, OffsetsInPlace, SenderTypeOK, Larger
  <2>3. CASE g \in s_sent
        BY <1>4, <2>3 DEF SenderInv, SenderTypeOK, FramesInPlace, Frame, Larger
  <2>4. QED BY <1>3, <2>2, <2>3
<1>8. BytesApart'
  <2>1. \A g \in s_sent : Bytes(g) \cap Bytes(f) = {}
        BY <1>2 DEF SenderInv, BytesApart
  <2>2. QED BY <1>2, <1>3, <2>1 DEF SenderInv, BytesApart
<1>9. FinInPlace'
  <2>1. s_pending_eof' => s_pending_eof /\ s_buffer_fin - 1 \notin Bytes(f)
        BY <1>2, <1>a DEF SenderInv, SenderTypeOK, FinInPlace, OffsetsInPlace
  <2>2. FinFrame \in s_sent' => FinFrame \in s_sent
    <3>1. FinFrame.start = FinFrame.stop
          BY DEF FinFrame
    <3>2. f.start # f.stop
          BY <1>1
    <3>3. QED BY <1>3, <3>1, <3>2
  <2>3. FinFrame' = FinFrame
        BY DEF FinFrame
  <2>4. QED BY <1>3, <2>1, <2>2, <2>3 DEF SenderInv, FinInPlace
<1>10. ResetInPlace' /\ ScheduledWhilePending'
      BY DEF SenderInv, ResetInPlace, ScheduledWhilePending
<1>11. NoByteForgotten'
  <2>1. InFlight' = InFlight \cup Bytes(f)
        BY <1>3 DEF InFlight
  <2>2. QED BY <1>3, <2>1 DEF SenderInv, NoByteForgotten
<1>12. QED BY <1>5, <1>6, <1>7, <1>8, <1>9, <1>10, <1>11 DEF SenderInv

\* get_frame() for a frame that is the end of the stream and nothing else.
LEMMA SendFinInv == SenderInv /\ SendFin => SenderInv'
<1> SUFFICES ASSUME SenderInv, SendFin PROVE SenderInv'
    OBVIOUS
<1> USE MaxOffsetAssumption
    DEF Offset, NoFin, SendFin, TakeFin, MaySend, bufferVars, writeVars, resetVars
<1>1. /\ s_buffer_fin \in Offset
      /\ s_buffer_fin = s_buffer_stop
      /\ s_buffer_fin = s_highest_offset
      BY DEF SenderInv, SenderTypeOK, FinInPlace, OffsetsInPlace
<1>2. FinFrame \in Frame /\ Bytes(FinFrame) = {}
      BY <1>1 DEF FinFrame, Frame, Bytes
<1>3. FinFrame' = FinFrame
      BY DEF FinFrame
<1>4. SenderTypeOK'
      BY <1>2 DEF SenderInv, SenderTypeOK
<1>5. OffsetsInPlace'
      BY DEF SenderInv, OffsetsInPlace
<1>6. FramesInPlace'
      BY <1>1 DEF SenderInv, SenderTypeOK, OffsetsInPlace, FramesInPlace, FinFrame
<1>7. BytesApart'
      BY <1>2 DEF SenderInv, BytesApart
<1>8. FinInPlace' /\ ResetInPlace' /\ ScheduledWhilePending'
      BY DEF SenderInv, FinInPlace, ResetInPlace, ScheduledWhilePending
<1>9. NoByteForgotten'
      BY <1>2 DEF SenderInv, NoByteForgotten, InFlight
<1>10. QED BY <1>4, <1>5, <1>6, <1>7, <1>8, <1>9 DEF SenderInv

\* Nothing but buffer_is_empty, the end that is pending and the reset change.
LEMMA NoFrameInv ==
    SenderInv /\ (SendFinStopped \/ NothingToSend \/ SendReset) => SenderInv'
<1> SUFFICES ASSUME SenderInv, SendFinStopped \/ NothingToSend \/ SendReset
             PROVE  SenderInv'
    OBVIOUS
<1> USE DEF SendFinStopped, TakeFin, NothingToSend, SendReset, MaySend, bufferVars,
            writeVars, resetVars
<1>1. SenderTypeOK'
      BY DEF SenderInv, SenderTypeOK
<1>2. OffsetsInPlace' /\ FramesInPlace' /\ BytesApart'
      BY DEF SenderInv, OffsetsInPlace, FramesInPlace, BytesApart
<1>3. FinInPlace'
  <2>1. FinFrame' = FinFrame
        BY DEF FinFrame
  <2>2. QED BY <2>1 DEF SenderInv, FinInPlace
<1>4. ResetInPlace' /\ ScheduledWhilePending'
      BY DEF SenderInv, ResetInPlace, ScheduledWhilePending
<1>5. NoByteForgotten'
      BY DEF SenderInv, NoByteForgotten, InFlight
<1>6. QED BY <1>1, <1>2, <1>3, <1>4, <1>5 DEF SenderInv

\* on_data_delivery() for a frame that is lost: it waits again, if it was not given up.
LEMMA LostInv ==
    ASSUME SenderInv, NEW f \in s_sent, OnDataLost(f)
    PROVE  SenderInv'
<1> USE MaxOffsetAssumption
    DEF Offset, NoFin, OnDataLost, Requeue, bufferVars, writeVars, resetVars
<1>1. f \in Frame /\ f.start \in Offset /\ f.stop \in Offset /\ f.fin \in BOOLEAN
      BY DEF SenderInv, SenderTypeOK, Frame
<1>2. Bytes(f) = f.start..(f.stop - 1)
      BY DEF Bytes
<1>3. SenderTypeOK'
  <2>1. s_pending' \subseteq Offset /\ s_sent' \subseteq Frame
    <3>1. Bytes(f) \subseteq Offset
          BY <1>1, <1>2
    <3>2. QED BY <3>1 DEF SenderInv, SenderTypeOK
  <2>2. s_pending_eof' \in BOOLEAN /\ s_buffer_is_empty' \in BOOLEAN
    <3>1. CASE s_reset
          BY <3>1 DEF SenderInv, SenderTypeOK
    <3>2. CASE ~s_reset
          BY <1>1, <3>2 DEF SenderInv, SenderTypeOK
    <3>3. QED BY <3>1, <3>2
  <2>3. QED BY <2>1, <2>2 DEF SenderInv, SenderTypeOK
<1>4. OffsetsInPlace'
  <2>1. CASE s_reset
        BY <2>1 DEF SenderInv, OffsetsInPlace
  <2>2. CASE ~s_reset
    <3>1. s_buffer_start <= f.start /\ f.stop <= s_buffer_stop
          BY <1>1 DEF SenderInv, SenderTypeOK, OffsetsInPlace, FramesInPlace
    <3>2. s_pending' = s_pending \cup (f.start..(f.stop - 1))
          BY <1>2, <2>2
    <3>3. QED BY <1>1, <3>1, <3>2 DEF SenderInv, SenderTypeOK, OffsetsInPlace
  <2>3. QED BY <2>1, <2>2
<1>5. FramesInPlace'
      BY DEF SenderInv, FramesInPlace
<1>6. BytesApart'
      BY DEF SenderInv, BytesApart
<1>7. FinInPlace'
  <2>1. CASE s_reset
        BY <2>1 DEF SenderInv, FinInPlace, FinFrame
  <2>2. CASE ~s_reset /\ f.start < f.stop
        BY <1>1, <1>2, <2>2
           DEF SenderInv, SenderTypeOK, FinInPlace, FramesInPlace, FinFrame
  <2>3. CASE ~s_reset /\ ~(f.start < f.stop)
    <3>1. f.start = f.stop /\ f.fin /\ f.stop = s_buffer_fin /\ s_buffer_fin # NoFin
          BY <2>3 DEF SenderInv, FramesInPlace
    <3>2. f = FinFrame
          BY <1>1, <3>1 DEF FinFrame, Frame
    <3>3. QED BY <2>3, <3>1, <3>2 DEF SenderInv, FinInPlace, FinFrame
  <2>4. QED BY <2>1, <2>2, <2>3
<1>8. ResetInPlace' /\ ScheduledWhilePending'
      BY DEF SenderInv, SenderTypeOK, ResetInPlace, ScheduledWhilePending
<1>9. NoByteForgotten'
  <2>1. InFlight \subseteq InFlight' \cup Bytes(f)
        BY DEF InFlight
  <2>2. QED BY <2>1 DEF SenderInv, NoByteForgotten
<1>10. QED BY <1>3, <1>4, <1>5, <1>6, <1>7, <1>8, <1>9 DEF SenderInv

\* What an acknowledgement releases: a prefix of the buffer, all of it
\* acknowledged, so that what stays acknowledged lies after a gap.
LEMMA ReleaseAckedPrefix ==
    ASSUME SenderInv, NEW f \in s_sent, OnDataAcked(f), ~s_reset
    PROVE  /\ s_buffer_start <= s_buffer_start'
           /\ s_buffer_start' <= s_highest_offset
           /\ s_buffer_start' \in Offset
           /\ s_buffer_start..(s_buffer_start' - 1) \subseteq s_acked \cup Bytes(f)
           /\ s_acked' \subseteq s_acked \cup Bytes(f)
           /\ \A o \in s_acked' : s_buffer_start' < o /\ o < s_highest_offset
           /\ \A o \in s_acked \cup Bytes(f) : o < s_buffer_start' \/ o \in s_acked'
<1> DEFINE now_acked == s_acked \cup Bytes(f)
<1> USE MaxOffsetAssumption DEF Offset
<1>1. f.start \in Offset /\ f.stop \in Offset
      BY DEF SenderInv, SenderTypeOK, Frame
<1>2. \A o \in now_acked : /\ o \in Offset
                           /\ s_buffer_start <= o
                           /\ o < s_highest_offset
      BY <1>1 DEF SenderInv, SenderTypeOK, OffsetsInPlace, FramesInPlace, Bytes
<1>3. /\ s_buffer_start \in Offset
      /\ s_highest_offset \in Offset
      /\ s_buffer_start <= s_highest_offset
      /\ \A o \in s_acked : s_buffer_start < o
      BY DEF SenderInv, SenderTypeOK, OffsetsInPlace
<1>4. CASE f.stop > f.start
  <2>1. ReleaseAcked(now_acked)
        BY <1>4 DEF OnDataAcked
  <2>2. CASE s_buffer_start \in now_acked
    <3>1. PICK stop \in Offset :
                /\ FirstRange(now_acked, s_buffer_start, stop)
                /\ s_acked' = now_acked \ (s_buffer_start..(stop - 1))
                /\ s_buffer_start' = stop
          BY <1>2, <2>1, <2>2 DEF ReleaseAcked
    <3>2. /\ s_buffer_start < stop
          /\ s_buffer_start..(stop - 1) \subseteq now_acked
          /\ stop \notin now_acked
          BY <3>1 DEF FirstRange
    <3>3. stop - 1 \in now_acked
          BY <1>3, <3>2
    <3>4. stop <= s_highest_offset
          BY <1>2, <1>3, <3>3
    <3>5. \A o \in s_acked' : stop < o /\ o < s_highest_offset
          BY <1>2, <1>3, <3>1, <3>2
    <3>6. QED BY <1>2, <1>3, <3>1, <3>2, <3>4, <3>5
  <2>3. CASE s_buffer_start \notin now_acked
    <3>1. s_acked' = now_acked /\ s_buffer_start' = s_buffer_start
          BY <2>1, <2>3 DEF ReleaseAcked
    <3>2. QED BY <1>2, <1>3, <2>3, <3>1
  <2>4. QED BY <2>2, <2>3
<1>5. CASE ~(f.stop > f.start)
  <2>1. Bytes(f) = {}
        BY <1>1, <1>5 DEF Bytes
  <2>2. s_acked' = s_acked /\ s_buffer_start' = s_buffer_start
        BY <1>5 DEF OnDataAcked
  <2>3. QED BY <1>2, <1>3, <2>1, <2>2
<1>6. QED BY <1>4, <1>5

\* on_data_delivery() for a frame that is acknowledged: the buffer is cut where it can be.
LEMMA AckedInv ==
    ASSUME SenderInv, NEW f \in s_sent, OnDataAcked(f)
    PROVE  SenderInv'
<1> USE MaxOffsetAssumption DEF Offset, NoFin
<1>1. CASE s_reset
  <2> USE <1>1 DEF OnDataAcked, bufferVars, writeVars, resetVars
  <2>1. SenderTypeOK'
        BY DEF SenderInv, SenderTypeOK
  <2>2. OffsetsInPlace' /\ FramesInPlace' /\ BytesApart'
        BY DEF SenderInv, OffsetsInPlace, FramesInPlace, BytesApart
  <2>3. FinInPlace'
        BY DEF SenderInv, FinInPlace, FinFrame
  <2>4. ResetInPlace' /\ ScheduledWhilePending' /\ NoByteForgotten'
        BY DEF SenderInv, ResetInPlace, ScheduledWhilePending, NoByteForgotten
  <2>5. QED BY <2>1, <2>2, <2>3, <2>4 DEF SenderInv
<1>2. CASE ~s_reset
  <2>1. /\ s_buffer_start <= s_buffer_start'
        /\ s_buffer_start' <= s_highest_offset
        /\ s_buffer_start' \in Offset
        /\ s_buffer_start..(s_buffer_start' - 1) \subseteq s_acked \cup Bytes(f)
        /\ s_acked' \subseteq s_acked \cup Bytes(f)
        /\ \A o \in s_acked' : s_buffer_start' < o /\ o < s_highest_offset
        /\ \A o \in s_acked \cup Bytes(f) : o < s_buffer_start' \/ o \in s_acked'
        BY <1>2, ReleaseAckedPrefix
  <2>2. /\ s_sent' = s_sent \ {f}
        /\ UNCHANGED <<s_buffer_is_empty, s_highest_offset, s_pending,
                       s_pending_eof, writeVars, resetVars>>
        /\ s_acked_fin' = (s_acked_fin \/ f.fin)
        /\ s_is_finished' = (s_is_finished \/
                             (s_buffer_start' = s_buffer_fin /\ s_acked_fin'))
        BY <1>2 DEF OnDataAcked
  <2>3. \A g \in s_sent : g \in Frame /\ g.start \in Offset /\ g.stop \in Offset
        BY DEF SenderInv, SenderTypeOK, Frame
  <2> USE DEF writeVars, resetVars
  <2>4. SenderTypeOK'
    <3>1. s_acked' \subseteq Offset
          BY <2>1, <2>3 DEF SenderInv, SenderTypeOK, Bytes
    <3>2. s_acked_fin' \in BOOLEAN /\ s_is_finished' \in BOOLEAN
          BY <2>2
    <3>3. QED BY <2>1, <2>2, <3>1, <3>2 DEF SenderInv, SenderTypeOK
  <2>a. s_buffer_start \in Int /\ s_buffer_start' \in Int
        BY <2>1 DEF SenderInv, SenderTypeOK
  <2>b. ASSUME NEW o \in Int, s_buffer_start <= o, o \notin s_acked \cup Bytes(f)
        PROVE  s_buffer_start' <= o
    <3>1. s_buffer_start..(s_buffer_start' - 1) \subseteq s_acked \cup Bytes(f)
          BY <2>1
    <3>2. o \notin s_buffer_start..(s_buffer_start' - 1)
          BY <2>b, <3>1
    <3>3. \A a, b, c \in Int : a <= c /\ c \notin a..(b - 1) => b <= c
          OBVIOUS
    <3>4. s_buffer_start <= o
          BY <2>b
    <3>5. QED BY <2>a, <3>2, <3>3, <3>4
  <2>5. \A o \in s_pending : s_buffer_start' <= o
    <3>1. SUFFICES ASSUME NEW o \in s_pending PROVE s_buffer_start' <= o
          OBVIOUS
    <3>2. o \in Int /\ s_buffer_start <= o
          BY DEF SenderInv, SenderTypeOK, OffsetsInPlace
    <3>3. o \notin s_acked \cup Bytes(f)
          BY DEF SenderInv, BytesApart
    <3>4. QED BY <2>b, <3>2, <3>3
  <2>6. OffsetsInPlace'
        BY <2>1, <2>2, <2>5 DEF SenderInv, OffsetsInPlace
  <2>7. FramesInPlace'
    <3>1. SUFFICES ASSUME NEW g \in s_sent, g # f
                   PROVE  s_buffer_start' <= g.start
          BY <2>2 DEF SenderInv, FramesInPlace
    <3>2. CASE g.start < g.stop
      <4>1. g.start \in Bytes(g)
            BY <2>3, <3>2 DEF Bytes
      <4>2. g.start \notin s_acked \cup Bytes(f)
            BY <3>1, <4>1 DEF SenderInv, BytesApart
      <4>3. g.start \in Int /\ s_buffer_start <= g.start
            BY <2>3 DEF SenderInv, FramesInPlace
      <4>4. QED BY <2>b, <4>2, <4>3
    <3>3. CASE ~(g.start < g.stop)
      <4>1. g.start = s_buffer_stop
            BY <3>3 DEF SenderInv, FramesInPlace, FinInPlace
      <4>2. QED BY <2>1, <4>1 DEF SenderInv, SenderTypeOK, OffsetsInPlace
    <3>4. QED BY <3>2, <3>3
  <2>8. BytesApart'
        BY <2>1, <2>2 DEF SenderInv, BytesApart
  <2>9. FinInPlace'
    <3>1. FinFrame' = FinFrame
          BY <2>2 DEF FinFrame
    <3>2. QED BY <2>2, <3>1 DEF SenderInv, FinInPlace
  <2>10. ResetInPlace' /\ ScheduledWhilePending'
        BY <2>2 DEF SenderInv, ResetInPlace, ScheduledWhilePending
  <2>11. NoByteForgotten'
    <3>1. InFlight \subseteq InFlight' \cup Bytes(f)
          BY <2>2 DEF InFlight
    <3>2. SUFFICES ASSUME NEW o \in s_buffer_start'..(s_buffer_stop - 1)
                   PROVE  o \in s_acked' \cup s_pending \cup InFlight'
          BY <2>2 DEF NoByteForgotten
    <3>3. o \in s_acked \cup s_pending \cup InFlight
          BY <1>2, <2>1 DEF SenderInv, SenderTypeOK, NoByteForgotten
    <3>4. o \in s_acked \cup Bytes(f) => o \in s_acked'
          BY <2>1
    <3>5. QED BY <3>1, <3>3, <3>4
  <2>12. QED BY <2>4, <2>6, <2>7, <2>8, <2>9, <2>10, <2>11 DEF SenderInv
<1>3. QED BY <1>1, <1>2

\* on_reset_delivery(): the RESET_STREAM is acknowledged, or waits again.
LEMMA ResetReportedInv == SenderInv /\ (OnResetAcked \/ OnResetLost) => SenderInv'
<1> SUFFICES ASSUME SenderInv, OnResetAcked \/ OnResetLost PROVE SenderInv'
    OBVIOUS
<1> USE DEF OnResetAcked, OnResetLost, bufferVars, writeVars
<1>1. SenderTypeOK'
      BY DEF SenderInv, SenderTypeOK
<1>2. OffsetsInPlace' /\ FramesInPlace' /\ BytesApart'
      BY DEF SenderInv, OffsetsInPlace, FramesInPlace, BytesApart
<1>3. FinInPlace'
  <2>1. FinFrame' = FinFrame
        BY DEF FinFrame
  <2>2. QED BY <2>1 DEF SenderInv, FinInPlace
<1>4. ResetInPlace' /\ ScheduledWhilePending' /\ NoByteForgotten'
      BY DEF SenderInv, ResetInPlace, ScheduledWhilePending, NoByteForgotten,
             InFlight
<1>5. QED BY <1>1, <1>2, <1>3, <1>4 DEF SenderInv

-----------------------------------------------------------------------------
\* Every step of a sender keeps the invariant.
LEMMA StepInv == SenderInv /\ [SenderNext]_senderVars => SenderInv'
<1> SUFFICES ASSUME SenderInv, [SenderNext]_senderVars PROVE SenderInv'
    OBVIOUS
<1>1. CASE \E size \in Offset, end_stream \in BOOLEAN : Write(size, end_stream)
      BY <1>1, WriteInv
<1>2. CASE Reset
      BY <1>2, ResetInv
<1>3. CASE \E start, stop \in Offset : SendData(start, stop)
      BY <1>3, SendDataInv
<1>4. CASE SendFin
      BY <1>4, SendFinInv
<1>5. CASE SendFinStopped \/ NothingToSend \/ SendReset
      BY <1>5, NoFrameInv
<1>6. CASE \E f \in s_sent : OnDataAcked(f) \/ OnDataLost(f)
      BY <1>6, AckedInv, LostInv
<1>7. CASE OnResetAcked \/ OnResetLost
      BY <1>7, ResetReportedInv
<1>8. CASE UNCHANGED senderVars
  <2> USE <1>8 DEF senderVars, bufferVars, writeVars, resetVars
  <2>1. SenderTypeOK'
        BY DEF SenderInv, SenderTypeOK
  <2>2. OffsetsInPlace' /\ FramesInPlace' /\ BytesApart'
        BY DEF SenderInv, OffsetsInPlace, FramesInPlace, BytesApart
  <2>3. FinInPlace'
    <3>1. FinFrame' = FinFrame
          BY DEF FinFrame
    <3>2. QED BY <3>1 DEF SenderInv, FinInPlace
  <2>4. ResetInPlace' /\ ScheduledWhilePending' /\ NoByteForgotten'
        BY DEF SenderInv, ResetInPlace, ScheduledWhilePending, NoByteForgotten,
               InFlight
  <2>5. QED BY <2>1, <2>2, <2>3, <2>4 DEF SenderInv
<1>9. QED BY <1>1, <1>2, <1>3, <1>4, <1>5, <1>6, <1>7, <1>8 DEF SenderNext

\* The inductive invariant of the sender holds in every reachable state.
THEOREM SenderInvariant == SenderSpec => []SenderInv
<1>1. QED BY InitInv, StepInv, PTL DEF SenderSpec

\* The properties that the runs check follow from the invariant.
LEMMA InvSafety ==
    SenderInv => /\ NoByteForgotten
                 /\ OnePlaceForEachByte
                 /\ PendingIsBuffered
                 /\ ScheduledWhilePending
                 /\ FinFrameEndsStream
<1> SUFFICES ASSUME SenderInv
             PROVE  OnePlaceForEachByte /\ PendingIsBuffered /\ FinFrameEndsStream
    BY DEF SenderInv
<1>1. s_pending \cap InFlight = {} /\ s_acked \cap (s_pending \cup InFlight) = {}
      BY DEF SenderInv, BytesApart, InFlight
<1>2. s_pending = {} /\ s_pending_eof => FinFrame \notin s_sent
      BY DEF SenderInv, FinInPlace
<1>3. OnePlaceForEachByte
      BY <1>1, <1>2 DEF OnePlaceForEachByte, SenderInv, BytesApart
<1>4. ASSUME NEW o \in InFlight
      PROVE  s_buffer_start <= o /\ o < s_buffer_stop
  <2>1. PICK f \in s_sent : o \in Bytes(f)
        BY DEF InFlight
  <2>2. f.start \in Int /\ f.stop \in Int
        BY MaxOffsetAssumption DEF SenderInv, SenderTypeOK, Frame, Offset
  <2>3. QED BY <2>1, <2>2, MaxOffsetAssumption
            DEF SenderInv, SenderTypeOK, FramesInPlace, OffsetsInPlace, Bytes, Offset
<1>5. PendingIsBuffered
      BY <1>4 DEF PendingIsBuffered, SenderInv, OffsetsInPlace
<1>6. FinFrameEndsStream
      BY DEF FinFrameEndsStream, SenderInv, FramesInPlace
<1>7. QED BY <1>3, <1>5, <1>6

\* The sender forgets no byte, whatever is acknowledged or lost in whatever
\* order: each stays acknowledged, pending or in flight (NoByteForgotten).
THEOREM SenderForgetsNoByte == SenderSpec => []NoByteForgotten
<1>1. QED BY SenderInvariant, InvSafety, PTL

\* Each byte is in one place: what is in flight is not sent again before it is
\* reported, and what is acknowledged never is (OnePlaceForEachByte).
THEOREM SenderSendsOnce == SenderSpec => []OnePlaceForEachByte
<1>1. QED BY SenderInvariant, InvSafety, PTL

\* buffer_is_empty never hides something to send (ScheduledWhilePending).
THEOREM SenderStaysScheduled == SenderSpec => []ScheduledWhilePending
<1>1. QED BY SenderInvariant, InvSafety, PTL

\* The assertion of on_data_delivery() on the FIN bit never fails.
THEOREM SenderFinMatches == SenderSpec => []FinFrameEndsStream
<1>1. QED BY SenderInvariant, InvSafety, PTL

-----------------------------------------------------------------------------
(* From end to end.                                                        *)

\* What the receiver has of a stream: delivered, or marked as received.
Received(o) == o < r_buffer_start \/ o \in r_ranges

\* Frames under way were cut from what was sent.
NetInPlace ==
    \A f \in net :
        /\ f.start <= f.stop
        /\ f.stop <= s_highest_offset
        /\ f.fin => s_buffer_fin # NoFin /\ f.stop = s_buffer_fin

BufferInPlace ==
    /\ r_buffer_start \in Offset
    /\ r_buffer_len \in Offset
    /\ r_highest_offset <= s_highest_offset
    /\ RangesAreHeld
    /\ DeliveredInOrder

\* A final size that is known is all that was ever sent.
FinalSizeInPlace ==
    r_final_size # NoFin =>
        /\ r_final_size = s_highest_offset
        /\ s_buffer_fin = r_final_size \/ r_reset_seen
        /\ r_is_finished \/ r_highest_offset = r_final_size
        /\ r_buffer_start = r_final_size => r_is_finished

ResetsInPlace ==
    /\ \A final_size \in reset_net : s_reset /\ final_size = s_highest_offset
    /\ r_reset_seen => s_reset /\ r_is_finished
    /\ reset_got => r_is_finished

\* What was processed is there, and so is what was acknowledged.
GotIsReceived ==
    \A f \in got : /\ \A o \in Bytes(f) : Received(o)
                   /\ f.fin => r_final_size # NoFin

AckedInPlace ==
    /\ \A o \in 0..(s_buffer_start - 1) : Received(o)
    /\ \A o \in s_acked : Received(o)
    /\ s_acked_fin => r_final_size # NoFin

TransferInv ==
    /\ NetTypeOK
    /\ ReceiverTypeOK
    /\ NetInPlace
    /\ BufferInPlace
    /\ FinalSizeInPlace
    /\ ResetsInPlace
    /\ GotIsReceived
    /\ AckedInPlace
    /\ EndMeansAll
    /\ FinishedTogether

-----------------------------------------------------------------------------
\* Bytes delivered in order, followed by the next ones in order.
LEMMA PrefixExtends ==
    ASSUME NEW a \in Nat, NEW c \in Nat, a <= c
    PROVE  [i \in 1..a |-> i - 1] \o [i \in 1..(c - a) |-> a + i - 1]
               = [i \in 1..c |-> i - 1]
<1> DEFINE s == [i \in 1..a |-> i - 1]
           t == [i \in 1..(c - a) |-> a + i - 1]
           u == [i \in 1..c |-> i - 1]
<1>1. s \in Seq(Int) /\ t \in Seq(Int) /\ u \in Seq(Int)
      OBVIOUS
<1>2. Len(s) = a /\ Len(t) = c - a /\ Len(u) = c
      OBVIOUS
<1>3. s \o t \in Seq(Int) /\ Len(s \o t) = c
      BY <1>1, <1>2
<1>4. \A i \in 1..c : (s \o t)[i] = u[i]
  <2>1. SUFFICES ASSUME NEW i \in 1..c PROVE (s \o t)[i] = u[i]
        OBVIOUS
  <2>2. CASE i <= a
        BY <1>1, <1>2, <2>2
  <2>3. CASE i > a
        BY <1>1, <1>2, <2>3
  <2>4. QED BY <2>2, <2>3
<1>5. QED BY <1>1, <1>2, <1>3, <1>4, SeqEqual

\* At the start nothing is sent or received.
LEMMA TransferInit == Init => TransferInv
<1> SUFFICES ASSUME Init PROVE TransferInv
    OBVIOUS
<1> USE MaxOffsetAssumption DEF Init, SenderInit, ReceiverInit, Offset, NoFin
<1>1. NetTypeOK
      BY Zenon DEF NetTypeOK
<1>2. ReceiverTypeOK
  <2>1. 0 \in Offset /\ << >> \in Seq(Offset \cup {Gap})
        OBVIOUS
  <2>2. QED BY <2>1, Zenon DEF ReceiverTypeOK
<1>3. BufferInPlace
      BY DEF BufferInPlace, RangesAreHeld, DeliveredInOrder
<1>4. NetInPlace /\ FinalSizeInPlace /\ ResetsInPlace
      BY DEF NetInPlace, FinalSizeInPlace, ResetsInPlace
<1>5. GotIsReceived /\ AckedInPlace
      BY DEF GotIsReceived, AckedInPlace
<1>6. EndMeansAll /\ FinishedTogether
      BY DEF EndMeansAll, FinishedTogether
<1>7. QED BY <1>1, <1>2, <1>3, <1>4, <1>5, <1>6 DEF TransferInv

-----------------------------------------------------------------------------
(* The receiver.                                                           *)

\* Pulling from a buffer whose marked bytes are held hands over the bytes that
\* follow those delivered, and leaves a gap at the front.
LEMMA PullDataEffect ==
    ASSUME ReceiverTypeOK, DeliveredInOrder, r_buffer_start \in Offset,
           NEW held, NEW len \in Nat,
           \A o \in held : /\ o \in Offset
                           /\ r_buffer_start <= o
                           /\ o < r_buffer_start + len,
           r_buffer_start + len <= MaxOffset,
           PullData(held, held, len)
    PROVE  /\ r_buffer_start <= r_buffer_start' /\ r_buffer_start' \in Offset
           /\ r_buffer_len' \in Offset
           /\ r_buffer_start' + r_buffer_len' = r_buffer_start + len
           /\ r_ranges' = r_held' /\ r_ranges' \subseteq held
           /\ \A o \in r_ranges' : /\ r_buffer_start' < o
                                   /\ o < r_buffer_start + len
           /\ \A o \in held : o < r_buffer_start' \/ o \in r_ranges'
           /\ r_buffer_start..(r_buffer_start' - 1) \subseteq held
           /\ DeliveredInOrder'
<1> USE MaxOffsetAssumption DEF Offset
<1>1. CASE r_buffer_start \in held
  <2>1. PICK stop \in Offset :
            /\ FirstRange(held, r_buffer_start, stop)
            /\ r_ranges' = held \ (r_buffer_start..(stop - 1))
            /\ r_held' = held \ (r_buffer_start..(stop - 1))
            /\ r_buffer_len' = Larger(len - (stop - r_buffer_start), 0)
            /\ r_buffer_start' = stop
            /\ r_delivered' = r_delivered \o PulledData(held, len, stop)
        BY <1>1 DEF PullData
  <2>2. /\ r_buffer_start < stop
        /\ r_buffer_start..(stop - 1) \subseteq held
        /\ stop \notin held
        BY <2>1 DEF FirstRange
  <2>3. stop <= r_buffer_start + len
    <3>1. stop - 1 \in held
          BY <2>2
    <3>2. QED BY <3>1
  <2>4. r_buffer_len' = len - (stop - r_buffer_start)
        BY <2>1, <2>3 DEF Larger
  <2>5. \A o \in r_ranges' : stop < o
        BY <2>1, <2>2
  <2>6. PulledData(held, len, stop)
            = [i \in 1..(stop - r_buffer_start) |-> r_buffer_start + i - 1]
    <3>1. \A i \in 1..(stop - r_buffer_start) : r_buffer_start + i - 1 \in held
          BY <2>2
    <3>2. (IF stop - r_buffer_start < len THEN stop - r_buffer_start ELSE len)
              = stop - r_buffer_start
          BY <2>2, <2>3
    <3>3. QED BY <3>1, <3>2 DEF PulledData
  <2>7. DeliveredInOrder'
    <3> DEFINE last == r_buffer_start'
    <3>1. last = stop /\ last \in Nat /\ r_buffer_start <= last
          BY <2>1, <2>2
    <3>2. r_delivered' = [i \in 1..r_buffer_start |-> i - 1] \o
                         [i \in 1..(last - r_buffer_start) |-> r_buffer_start + i - 1]
          BY <2>1, <2>6, <3>1 DEF DeliveredInOrder
    <3> HIDE DEF last
    <3>3. r_delivered' = [i \in 1..last |-> i - 1]
          BY <3>1, <3>2, PrefixExtends
    <3>4. QED BY <3>3 DEF DeliveredInOrder, last
  <2>8. /\ r_buffer_start <= r_buffer_start' /\ r_buffer_start' \in Offset
        /\ r_buffer_len' \in Offset
        /\ r_buffer_start' + r_buffer_len' = r_buffer_start + len
    <3>1. r_buffer_start' = stop
          BY <2>1
    <3>2. r_buffer_start < stop
          BY <2>2
    <3>3. QED BY <2>3, <2>4, <3>1, <3>2
  <2>9. /\ r_ranges' = r_held' /\ r_ranges' \subseteq held
        /\ r_buffer_start..(r_buffer_start' - 1) \subseteq held
        BY <2>1, <2>2
  <2>10. \A o \in r_ranges' : /\ r_buffer_start' < o
                              /\ o < r_buffer_start + len
        BY <2>1, <2>5
  <2>11. \A o \in held : o < r_buffer_start' \/ o \in r_ranges'
        BY <2>1
  <2>12. QED BY <2>7, <2>8, <2>9, <2>10, <2>11
<1>2. CASE r_buffer_start \notin held
  <2>1. /\ r_ranges' = held /\ r_held' = held
        /\ r_buffer_len' = len
        /\ UNCHANGED <<r_buffer_start, r_delivered>>
        BY <1>2 DEF PullData
  <2>2. DeliveredInOrder'
        BY <2>1 DEF DeliveredInOrder
  <2>3. QED BY <1>2, <2>1, <2>2
<1>3. QED BY <1>1, <1>2

\* A frame that was sent extends what is received by its bytes, and leaves the
\* buffer of the receiver in order, whichever of the two paths it takes.
LEMMA DeliverFrameEffect ==
    ASSUME SenderInv, TransferInv, NEW f \in net, DeliverFrame(f)
    PROVE  /\ BufferInPlace'
           /\ r_buffer_start <= r_buffer_start'
           /\ r_highest_offset' = Larger(r_highest_offset, f.stop)
           /\ r_ranges' \subseteq Offset
           /\ \A o \in Offset : Received(o) \/ o \in Bytes(f) => Received(o)'
<1> USE MaxOffsetAssumption DEF Offset
<1>1. /\ f.start \in Offset /\ f.stop \in Offset /\ f.fin \in BOOLEAN
      /\ f.start <= f.stop /\ f.stop <= s_highest_offset
      /\ s_highest_offset \in Offset
      BY DEF TransferInv, NetTypeOK, NetInPlace, Frame, SenderInv, SenderTypeOK
<1>2. /\ r_buffer_start \in Offset /\ r_buffer_len \in Offset
      /\ r_highest_offset \in Offset /\ r_highest_offset <= s_highest_offset
      /\ RangesAreHeld /\ DeliveredInOrder /\ ReceiverTypeOK
      BY DEF TransferInv, BufferInPlace, ReceiverTypeOK
<1>3. /\ r_highest_offset' = Larger(r_highest_offset, f.stop)
      /\ r_highest_offset' <= s_highest_offset
      /\ s_highest_offset' = s_highest_offset
      BY <1>1, <1>2 DEF DeliverFrame, HandleFrame, senderVars, Larger
<1>4. CASE InOrderChunk(f)
  <2>1. /\ r_buffer_start' = f.stop
        /\ r_delivered' = r_delivered \o
                          [i \in 1..(f.stop - f.start) |-> f.start + i - 1]
        /\ UNCHANGED <<r_buffer_len, r_held, r_ranges>>
        BY <1>4 DEF DeliverFrame, HandleFrame, PassThrough
  <2>2. f.start = r_buffer_start /\ r_buffer_start < f.stop /\ r_buffer_len = 0
        BY <1>1, <1>2, <1>4 DEF InOrderChunk
  <2>3. r_highest_offset = r_buffer_start /\ r_ranges = {} /\ r_held = {}
        BY <1>2, <2>2 DEF RangesAreHeld, ReceiverTypeOK
  <2>4. RangesAreHeld'
        BY <1>1, <1>2, <1>3, <2>1, <2>2, <2>3 DEF RangesAreHeld, Larger
  <2>5. DeliveredInOrder'
    <3>1. /\ r_buffer_start \in Nat /\ f.stop \in Nat
          /\ r_buffer_start <= f.stop
          BY <1>1, <1>2, <2>2
    <3>2. r_delivered' = [i \in 1..f.stop |-> i - 1]
          BY <1>2, <2>1, <2>2, <3>1, PrefixExtends DEF DeliveredInOrder
    <3>3. QED BY <2>1, <3>2 DEF DeliveredInOrder
  <2>6. BufferInPlace'
        BY <1>1, <1>2, <1>3, <2>1, <2>4, <2>5 DEF BufferInPlace
  <2>7. \A o \in Offset : Received(o) \/ o \in Bytes(f) => Received(o)'
        BY <1>1, <1>2, <2>1, <2>2, <2>3 DEF Received, Bytes
  <2>8. r_buffer_start <= r_buffer_start' /\ r_ranges' \subseteq Offset
        BY <1>1, <1>2, <2>1, <2>2, <2>3
  <2>9. QED BY <1>3, <2>6, <2>7, <2>8
<1>5. CASE ~InOrderChunk(f)
  <2> DEFINE start == Larger(f.start, r_buffer_start)
             new == start..(f.stop - 1)
             held == r_held \cup new
             len == Larger(r_buffer_len, Larger(start, f.stop) - r_buffer_start)
  <2>1. PullData(held, held, len)
        BY <1>2, <1>5 DEF DeliverFrame, HandleFrame, BufferAndPull, RangesAreHeld
  <2>2. len \in Nat /\ r_buffer_start + len = r_highest_offset'
        BY <1>1, <1>2, <1>3 DEF Larger, RangesAreHeld
  <2>3. \A o \in held : /\ o \in Offset
                        /\ r_buffer_start <= o
                        /\ o < r_buffer_start + len
    <3>1. \A o \in r_held : /\ o \in Offset
                            /\ r_buffer_start <= o
                            /\ o < r_highest_offset
          BY <1>2 DEF RangesAreHeld, ReceiverTypeOK
    <3>2. r_highest_offset <= r_highest_offset' /\ f.stop <= r_highest_offset'
          BY <1>1, <1>2, <1>3 DEF Larger
    <3>3. \A o \in new : /\ o \in Offset
                         /\ r_buffer_start <= o
                         /\ o < f.stop
          BY <1>1, <1>2 DEF Larger
    <3>4. r_highest_offset' \in Int
          BY <1>1, <1>2, <1>3 DEF Larger
    <3> HIDE DEF len, new
    <3>5. QED BY <1>1, <1>2, <2>2, <3>1, <3>2, <3>3, <3>4
  <2>4. r_buffer_start + len <= MaxOffset
        BY <1>1, <1>2, <1>3, <2>2
  <2> HIDE DEF len, held
  <2>5. /\ r_buffer_start <= r_buffer_start' /\ r_buffer_start' \in Offset
        /\ r_buffer_len' \in Offset
        /\ r_buffer_start' + r_buffer_len' = r_buffer_start + len
        /\ r_ranges' = r_held' /\ r_ranges' \subseteq held
        /\ \A o \in r_ranges' : /\ r_buffer_start' < o
                                /\ o < r_buffer_start + len
        /\ \A o \in held : o < r_buffer_start' \/ o \in r_ranges'
        /\ DeliveredInOrder'
        BY <1>2, <2>1, <2>2, <2>3, <2>4, PullDataEffect
  <2>6. RangesAreHeld'
        BY <2>2, <2>5 DEF RangesAreHeld
  <2>7. BufferInPlace'
        BY <1>3, <2>5, <2>6 DEF BufferInPlace
  <2>8. ASSUME NEW o \in Offset, Received(o) \/ o \in Bytes(f)
        PROVE  Received(o)'
    <3>1. o < r_buffer_start \/ o \in held
          BY <1>1, <1>2, <2>8 DEF Received, Bytes, held, Larger, RangesAreHeld
    <3>2. QED BY <1>2, <2>5, <3>1 DEF Received
  <2>9. r_ranges' \subseteq Offset
        BY <2>3, <2>5
  <2>10. QED BY <1>3, <2>5, <2>7, <2>8, <2>9
<1>6. QED BY <1>4, <1>5

-----------------------------------------------------------------------------
(* One step.                                                               *)

\* The steps that leave the data of both sides alone: frames and reports go
\* away, or a reset or a stop is requested.
Quiet ==
    /\ NetTypeOK' /\ ReceiverTypeOK'
    /\ UNCHANGED <<s_highest_offset, s_buffer_fin, s_buffer_start, s_acked,
                   s_acked_fin, s_is_finished>>
    /\ UNCHANGED <<dataVars, r_is_finished, r_final_size, r_reset_seen>>
    /\ net' \subseteq net /\ got' \subseteq got
    /\ reset_net' \subseteq reset_net /\ (reset_got' => reset_got)
    /\ s_reset => s_reset'

\* They keep the invariant.
LEMMA QuietStep ==
    ASSUME TransferInv, Quiet
    PROVE  TransferInv'
<1> USE DEF TransferInv, dataVars, Quiet
<1>1. NetInPlace'
      BY DEF NetInPlace
<1>2. BufferInPlace'
      BY DEF BufferInPlace, RangesAreHeld, DeliveredInOrder
<1>3. FinalSizeInPlace' /\ ResetsInPlace'
      BY DEF FinalSizeInPlace, ResetsInPlace
<1>4. GotIsReceived' /\ AckedInPlace'
      BY DEF GotIsReceived, AckedInPlace, Received
<1>5. EndMeansAll' /\ FinishedTogether'
      BY DEF EndMeansAll, FinishedTogether
<1>6. QED BY <1>1, <1>2, <1>3, <1>4, <1>5

\* The application writes: what was sent and received is the same.
LEMMA AppWriteInv == SenderInv /\ TransferInv /\ AppWrite => TransferInv'
<1> SUFFICES ASSUME SenderInv, TransferInv, AppWrite PROVE TransferInv'
    OBVIOUS
<1>1. PICK size \in Offset, end_stream \in BOOLEAN : Write(size, end_stream)
      BY DEF AppWrite
<1>2. /\ UNCHANGED <<receiverVars, netVars>>
      /\ UNCHANGED <<s_highest_offset, s_buffer_start, s_acked, s_acked_fin,
                     s_is_finished, s_reset>>
      /\ s_buffer_fin = NoFin
      BY <1>1 DEF AppWrite, Write, bufferVars, resetVars
<1> USE <1>2 DEF TransferInv, receiverVars, dataVars, stopVars, netVars, frameVars,
                 resetNetVars, stopNetVars
<1>3. NetTypeOK' /\ ReceiverTypeOK'
      BY DEF NetTypeOK, ReceiverTypeOK
<1>4. NetInPlace' /\ EndMeansAll'
      BY DEF NetInPlace, EndMeansAll
<1>5. BufferInPlace'
      BY DEF BufferInPlace, RangesAreHeld, DeliveredInOrder
<1>6. FinalSizeInPlace' /\ ResetsInPlace'
      BY DEF FinalSizeInPlace, ResetsInPlace
<1>7. GotIsReceived' /\ AckedInPlace' /\ FinishedTogether'
      BY DEF GotIsReceived, AckedInPlace, Received, FinishedTogether
<1>8. QED BY <1>3, <1>4, <1>5, <1>6, <1>7

\* A transmitted frame lies below the highest offset, which moves only while
\* neither the end of the stream nor a reset has fixed it.
LEMMA EnterInv ==
    ASSUME SenderInv, TransferInv, NEW f \in Frame,
           f.start <= f.stop, f.stop <= s_buffer_stop,
           f.fin => s_buffer_fin # NoFin /\ f.stop = s_buffer_fin,
           s_highest_offset' = Larger(s_highest_offset, f.stop), ~s_reset,
           net' = net \cup {f},
           UNCHANGED <<bufferVars, writeVars, resetVars, receiverVars, got,
                       resetNetVars, stopNetVars, assert_failed>>
    PROVE  TransferInv'
<1> USE DEF TransferInv, bufferVars, writeVars, resetVars, receiverVars, dataVars,
            stopVars, resetNetVars, stopNetVars
<1>1. NetTypeOK' /\ ReceiverTypeOK'
      BY DEF NetTypeOK, ReceiverTypeOK
<1>2. /\ s_highest_offset \in Int /\ f.stop \in Int /\ s_buffer_stop \in Int
      /\ s_highest_offset <= s_buffer_stop
      /\ s_buffer_fin # NoFin => s_buffer_fin = s_buffer_stop
      BY MaxOffsetAssumption
      DEF SenderInv, SenderTypeOK, OffsetsInPlace, FinInPlace, Frame, Offset
<1>3. s_highest_offset <= s_highest_offset' /\ f.stop <= s_highest_offset'
      BY <1>2 DEF Larger
<1>4. s_highest_offset' \in Int /\ s_highest_offset' <= s_buffer_stop
      BY <1>2 DEF Larger
<1>5. NetInPlace'
  <2>1. \A g \in net : g.stop \in Int
        BY MaxOffsetAssumption DEF NetTypeOK, Frame, Offset
  <2>2. QED BY <1>2, <1>3, <1>4, <2>1 DEF NetInPlace
<1>6. BufferInPlace'
  <2>1. r_highest_offset \in Int
        BY MaxOffsetAssumption DEF ReceiverTypeOK, Offset
  <2>2. r_highest_offset' <= s_highest_offset'
        BY <1>2, <1>3, <1>4, <2>1 DEF BufferInPlace
  <2>3. QED BY <2>2 DEF BufferInPlace, RangesAreHeld, DeliveredInOrder
<1>7. ~r_reset_seen /\ reset_net = {}
      BY DEF ResetsInPlace
<1>8. FinalSizeInPlace'
  <2>1. CASE r_final_size = NoFin
        BY <2>1 DEF FinalSizeInPlace
  <2>2. CASE r_final_size # NoFin
    <3>1. s_highest_offset' = s_highest_offset
          BY <1>2, <1>3, <1>4, <1>7, <2>2 DEF FinalSizeInPlace
    <3>2. QED BY <3>1 DEF FinalSizeInPlace
  <2>3. QED BY <2>1, <2>2
<1>9. ResetsInPlace'
      BY <1>7 DEF ResetsInPlace
<1>10. GotIsReceived' /\ AckedInPlace' /\ EndMeansAll' /\ FinishedTogether'
      BY DEF GotIsReceived, AckedInPlace, Received, EndMeansAll, FinishedTogether
<1>11. QED BY <1>1, <1>5, <1>6, <1>8, <1>9, <1>10

\* A frame with data, or the end of the stream, is sent.
LEMMA TransmitInv ==
    SenderInv /\ TransferInv /\ (TransmitData \/ TransmitFin) => TransferInv'
<1> SUFFICES ASSUME SenderInv, TransferInv, TransmitData \/ TransmitFin
             PROVE  TransferInv'
    OBVIOUS
<1> USE MaxOffsetAssumption DEF Offset
<1>1. CASE TransmitData
  <2>1. PICK start \in Offset, stop \in Offset :
            SendData(start, stop) /\ Enter(DataFrame(start, stop))
        BY <1>1 DEF TransmitData
  <2> DEFINE f == DataFrame(start, stop)
  <2>2. /\ f \in Frame /\ f.start = start /\ f.stop = stop
        /\ f.fin <=> s_buffer_fin = stop
        BY DEF DataFrame, Frame
  <2>3. ~s_reset
        BY <2>1 DEF SendData, MaySend, SenderInv, ScheduledWhilePending
  <2>4. start < stop /\ stop <= s_buffer_stop
    <3>1. start < stop /\ stop - 1 \in s_pending
          BY <2>1 DEF SendData
    <3>2. QED BY <3>1 DEF SenderInv, SenderTypeOK, OffsetsInPlace
  <2>5. s_highest_offset' = Larger(s_highest_offset, f.stop) /\ net' = net \cup {f}
        BY <2>1, <2>2 DEF SendData, Enter
  <2>6. UNCHANGED <<bufferVars, writeVars, resetVars, receiverVars, got,
                    resetNetVars, stopNetVars, assert_failed>>
        BY <1>1, <2>1 DEF TransmitData, SendData
  <2> HIDE DEF f
  <2>7. f.start <= f.stop /\ f.stop <= s_buffer_stop
        BY <2>2, <2>4
  <2>8. f.fin => s_buffer_fin # NoFin /\ f.stop = s_buffer_fin
        BY <2>2 DEF NoFin
  <2>9. QED BY <2>2, <2>3, <2>5, <2>6, <2>7, <2>8, EnterInv
<1>2. CASE TransmitFin
  <2>1. /\ s_pending = {} /\ s_pending_eof /\ ~s_buffer_is_empty
        /\ s_highest_offset' = s_highest_offset
        /\ net' = net \cup {FinFrame}
        BY <1>2 DEF TransmitFin, SendFin, TakeFin, MaySend, Enter
  <2>2. s_buffer_fin # NoFin /\ s_buffer_fin = s_buffer_stop
        BY <2>1 DEF SenderInv, FinInPlace
  <2>3. /\ s_buffer_stop \in Offset /\ s_highest_offset \in Offset
        /\ s_buffer_stop <= s_highest_offset
        BY <2>1 DEF SenderInv, SenderTypeOK, OffsetsInPlace
  <2>4. /\ FinFrame \in Frame
        /\ FinFrame.start = s_buffer_fin /\ FinFrame.stop = s_buffer_fin
        BY <2>2, <2>3 DEF FinFrame, Frame
  <2>5. ~s_reset
        BY <2>1 DEF SenderInv, ScheduledWhilePending
  <2>6. s_highest_offset' = Larger(s_highest_offset, FinFrame.stop)
        BY <2>1, <2>2, <2>3, <2>4 DEF SenderInv, OffsetsInPlace, Larger
  <2>7. UNCHANGED <<bufferVars, writeVars, resetVars, receiverVars, got,
                    resetNetVars, stopNetVars, assert_failed>>
        BY <1>2 DEF TransmitFin, SendFin
  <2>8. /\ FinFrame.start <= FinFrame.stop /\ FinFrame.stop <= s_buffer_stop
        /\ s_buffer_fin # NoFin /\ FinFrame.stop = s_buffer_fin
        BY <2>2, <2>3, <2>4
  <2>9. net' = net \cup {FinFrame}
        BY <2>1
  <2>10. QED BY <2>4, <2>5, <2>6, <2>7, <2>8, <2>9, EnterInv
<1>3. QED BY <1>1, <1>2

\* A RESET_STREAM carries the highest offset, which a reset has fixed.
LEMMA TransmitResetInv == SenderInv /\ TransferInv /\ TransmitReset => TransferInv'
<1> SUFFICES ASSUME SenderInv, TransferInv, TransmitReset PROVE TransferInv'
    OBVIOUS
<1>1. /\ s_reset
      /\ reset_net' = reset_net \cup {s_highest_offset}
      /\ UNCHANGED <<s_reset, s_highest_offset, bufferVars, writeVars, receiverVars,
                     frameVars, reset_got, stopNetVars, assert_failed>>
      BY DEF TransmitReset, SendReset, FinalSize, SenderInv, ResetInPlace
<1> USE <1>1 DEF TransferInv, bufferVars, writeVars, receiverVars, dataVars,
                 stopVars, frameVars, stopNetVars
<1>2. NetTypeOK' /\ ReceiverTypeOK'
      BY DEF NetTypeOK, ReceiverTypeOK, SenderInv, SenderTypeOK
<1>3. NetInPlace' /\ FinalSizeInPlace'
      BY DEF NetInPlace, FinalSizeInPlace
<1>4. BufferInPlace'
      BY DEF BufferInPlace, RangesAreHeld, DeliveredInOrder
<1>5. ResetsInPlace'
      BY DEF ResetsInPlace
<1>6. GotIsReceived' /\ AckedInPlace' /\ EndMeansAll' /\ FinishedTogether'
      BY DEF GotIsReceived, AckedInPlace, Received, EndMeansAll, FinishedTogether
<1>7. QED BY <1>2, <1>3, <1>4, <1>5, <1>6

\* A RESET_STREAM arrives.
LEMMA DeliverResetInv == SenderInv /\ TransferInv /\ DeliverReset => TransferInv'
<1> SUFFICES ASSUME SenderInv, TransferInv, DeliverReset PROVE TransferInv'
    OBVIOUS
<1>1. PICK final_size \in reset_net : HandleReset(final_size)
      BY DEF DeliverReset
<1>2. /\ final_size \in Offset /\ final_size = s_highest_offset /\ s_reset
      BY DEF TransferInv, NetTypeOK, ResetsInPlace
<1>3. /\ r_final_size' = final_size /\ r_is_finished' = TRUE /\ r_reset_seen' = TRUE
      /\ reset_got' = s_reset_sent /\ UNCHANGED <<dataVars, stopVars>>
      /\ UNCHANGED <<senderVars, frameVars, reset_net, stopNetVars, assert_failed>>
      BY <1>1 DEF DeliverReset, HandleReset
<1> USE <1>2, <1>3 DEF TransferInv, senderVars, bufferVars, writeVars, resetVars,
                       dataVars, stopVars, frameVars, stopNetVars
<1>4. NetTypeOK'
      BY DEF NetTypeOK, SenderInv, SenderTypeOK
<1>5. ReceiverTypeOK'
      BY DEF ReceiverTypeOK
<1>6. BufferInPlace'
      BY DEF BufferInPlace, RangesAreHeld, DeliveredInOrder
<1>7. NetInPlace' /\ FinalSizeInPlace' /\ ResetsInPlace'
      BY DEF NetInPlace, FinalSizeInPlace, ResetsInPlace
<1>8. GotIsReceived' /\ AckedInPlace'
      BY MaxOffsetAssumption DEF GotIsReceived, AckedInPlace, Received, Offset, NoFin
<1>9. EndMeansAll' /\ FinishedTogether'
      BY DEF EndMeansAll, FinishedTogether
<1>10. QED BY <1>4, <1>5, <1>6, <1>7, <1>8, <1>9

\* The final sizes and the end of the stream, when a frame arrives.
LEMMA DeliverFrameEnds ==
    ASSUME SenderInv, TransferInv, NEW f \in net, DeliverFrame(f)
    PROVE  /\ FinalSizeInPlace'
           /\ EndMeansAll'
           /\ r_is_finished => r_is_finished'
           /\ r_final_size # NoFin \/ f.fin => r_final_size' # NoFin
<1> USE MaxOffsetAssumption DEF Offset
<1>1. /\ f.start \in Offset /\ f.stop \in Offset /\ f.fin \in BOOLEAN
      /\ f.start <= f.stop /\ f.stop <= s_highest_offset
      /\ f.fin => s_buffer_fin # NoFin /\ f.stop = s_buffer_fin
      BY DEF TransferInv, NetTypeOK, NetInPlace, Frame
<1>2. /\ s_highest_offset \in Offset /\ s_buffer_stop \in Offset
      /\ s_highest_offset <= s_buffer_stop
      /\ s_buffer_fin # NoFin => s_buffer_fin = s_buffer_stop
      BY DEF SenderInv, SenderTypeOK, OffsetsInPlace, FinInPlace
<1>3. /\ r_highest_offset \in Offset /\ r_highest_offset <= s_highest_offset
      /\ r_buffer_start \in Offset /\ r_buffer_len \in Offset
      /\ r_buffer_start + r_buffer_len = r_highest_offset
      /\ FinalSizeInPlace /\ EndMeansAll
      BY DEF TransferInv, BufferInPlace, ReceiverTypeOK, RangesAreHeld
<1>4. /\ r_final_size' = (IF f.fin THEN f.stop ELSE r_final_size)
      /\ r_highest_offset' = Larger(r_highest_offset, f.stop)
      /\ s_highest_offset' = s_highest_offset /\ s_buffer_fin' = s_buffer_fin
      /\ r_reset_seen' = r_reset_seen
      BY DEF DeliverFrame, HandleFrame, senderVars, writeVars
<1>5. /\ r_buffer_start' \in Offset /\ r_buffer_start <= r_buffer_start'
      /\ r_buffer_start' <= s_highest_offset
  <2>1. BufferInPlace' /\ r_buffer_start <= r_buffer_start'
        BY DeliverFrameEffect
  <2>2. /\ r_buffer_start' \in Offset /\ r_buffer_len' \in Offset
        /\ r_buffer_start' + r_buffer_len' = r_highest_offset'
        /\ r_highest_offset' <= s_highest_offset'
        BY <2>1 DEF BufferInPlace, RangesAreHeld
  <2>3. QED BY <1>2, <1>4, <2>1, <2>2
<1>6. r_is_finished => r_is_finished'
      BY DEF DeliverFrame, HandleFrame, PassThrough, BufferAndPull
<1>7. r_final_size # NoFin \/ f.fin => r_final_size' # NoFin
      BY <1>1, <1>4 DEF NoFin
<1>8. r_final_size' # NoFin => /\ r_final_size' = s_highest_offset
                               /\ s_buffer_fin = r_final_size' \/ r_reset_seen
      BY <1>1, <1>2, <1>3, <1>4 DEF FinalSizeInPlace
<1>9. r_final_size' # NoFin => r_is_finished' \/ r_highest_offset' = r_final_size'
      BY <1>1, <1>2, <1>3, <1>4, <1>6, <1>8 DEF FinalSizeInPlace, Larger
<1>10. CASE InOrderChunk(f)
  <2>1. /\ r_buffer_start' = f.stop
        /\ r_is_finished \/ f.fin => r_is_finished'
        /\ r_ended' => r_ended \/ f.fin
        BY <1>10 DEF DeliverFrame, HandleFrame, PassThrough
  <2>2. r_highest_offset < f.stop
        BY <1>1, <1>3, <1>10 DEF InOrderChunk
  <2>3. r_final_size' # NoFin => r_is_finished'
        BY <1>1, <1>2, <1>3, <1>4, <2>1, <2>2 DEF FinalSizeInPlace
  <2>4. FinalSizeInPlace'
        BY <1>4, <1>8, <2>3 DEF FinalSizeInPlace
  <2>5. EndMeansAll'
        BY <1>1, <1>2, <1>3, <1>4, <1>5, <2>1 DEF EndMeansAll
  <2>6. QED BY <1>6, <1>7, <2>4, <2>5
<1>11. CASE ~InOrderChunk(f)
  <2>1. /\ r_buffer_start' = r_final_size' => r_is_finished'
        /\ r_ended' => r_ended \/ r_buffer_start' = r_final_size'
        BY <1>11 DEF DeliverFrame, HandleFrame, BufferAndPull
  <2>2. FinalSizeInPlace'
        BY <1>4, <1>8, <1>9, <2>1 DEF FinalSizeInPlace
  <2>3. ASSUME r_ended PROVE EndMeansAll'
        BY <1>2, <1>3, <1>4, <1>5, <2>3 DEF EndMeansAll
  <2>4. ASSUME ~r_ended PROVE EndMeansAll'
    <3>1. SUFFICES ASSUME r_buffer_start' = r_final_size' PROVE EndMeansAll'
          BY <2>1, <2>4 DEF EndMeansAll
    <3>2. r_final_size' # NoFin
          BY <1>5, <3>1 DEF NoFin
    <3>3. QED BY <1>4, <1>8, <3>1, <3>2 DEF EndMeansAll
  <2>5. QED BY <1>6, <1>7, <2>2, <2>3, <2>4
<1>12. QED BY <1>10, <1>11

\* A STREAM frame arrives, new or again.
LEMMA DeliverFrameInv ==
    ASSUME SenderInv, TransferInv, NEW f \in net, DeliverFrame(f)
    PROVE  TransferInv'
<1>1. /\ UNCHANGED <<senderVars, net, resetNetVars, stopNetVars, assert_failed>>
      /\ UNCHANGED <<r_reset_seen, stopVars>>
      /\ got' = got \cup ({f} \cap s_sent)
      BY DEF DeliverFrame, HandleFrame
<1>2. /\ BufferInPlace'
      /\ r_ranges' \subseteq Offset
      /\ \A o \in Offset : Received(o) \/ o \in Bytes(f) => Received(o)'
      BY DeliverFrameEffect
<1>3. /\ FinalSizeInPlace' /\ EndMeansAll'
      /\ r_is_finished => r_is_finished'
      /\ r_final_size # NoFin \/ f.fin => r_final_size' # NoFin
      BY DeliverFrameEnds
<1> USE <1>1 DEF senderVars, bufferVars, writeVars, resetVars, resetNetVars,
                 stopNetVars, stopVars
<1>4. NetTypeOK'
      BY DEF TransferInv, NetTypeOK
<1>5. NetInPlace' /\ FinishedTogether'
      BY <1>3 DEF TransferInv, NetInPlace, FinishedTogether
<1>6. ResetsInPlace'
      BY <1>3 DEF TransferInv, ResetsInPlace
<1>7. GotIsReceived'
  <2>1. SUFFICES ASSUME NEW g \in got'
                 PROVE  /\ \A o \in Bytes(g) : Received(o)'
                        /\ g.fin => r_final_size' # NoFin
        BY DEF GotIsReceived
  <2>2. g \in Frame
        BY DEF TransferInv, NetTypeOK
  <2>3. \A o \in Bytes(g) : o \in Offset
        BY <2>2, MaxOffsetAssumption DEF Bytes, Frame, Offset
  <2>4. CASE g \in got
        BY <1>2, <1>3, <2>3, <2>4 DEF TransferInv, GotIsReceived
  <2>5. CASE g = f
        BY <1>2, <1>3, <2>3, <2>5
  <2>6. QED BY <2>4, <2>5
<1>8. AckedInPlace'
  <2>1. s_buffer_start \in Offset /\ s_acked \subseteq Offset
        BY DEF SenderInv, SenderTypeOK
  <2>2. \A o \in 0..(s_buffer_start - 1) : o \in Offset
        BY <2>1, MaxOffsetAssumption DEF Offset
  <2>3. \A o \in 0..(s_buffer_start - 1) : Received(o)'
        BY <1>2, <2>2 DEF TransferInv, AckedInPlace
  <2>4. \A o \in s_acked : Received(o)'
        BY <1>2, <2>1 DEF TransferInv, AckedInPlace
  <2>5. s_acked_fin => r_final_size' # NoFin
        BY <1>3 DEF TransferInv, AckedInPlace
  <2>6. QED BY <2>3, <2>4, <2>5 DEF AckedInPlace
<1>9. ReceiverTypeOK'
  <2> USE MaxOffsetAssumption DEF Offset
  <2>1. r_highest_offset' \in Offset /\ r_final_size' \in Offset \cup {NoFin}
        BY DEF TransferInv, NetTypeOK, ReceiverTypeOK, Frame, DeliverFrame,
               HandleFrame, Larger
  <2>2. /\ r_buffer_start' \in Offset /\ r_buffer_len' \in Offset
        /\ r_buffer_start' + r_buffer_len' = r_highest_offset'
        /\ r_ranges' = r_held' /\ DeliveredInOrder'
        BY <1>2 DEF BufferInPlace, RangesAreHeld
  <2>3. r_delivered' \in Seq(Offset \cup {Gap})
        BY <2>2 DEF DeliveredInOrder
  <2>4. r_is_finished' \in BOOLEAN /\ r_ended' \in BOOLEAN
        BY DEF TransferInv, NetTypeOK, ReceiverTypeOK, Frame, DeliverFrame,
               HandleFrame, PassThrough, BufferAndPull
  <2>5. QED BY <1>2, <2>1, <2>2, <2>3, <2>4 DEF TransferInv, ReceiverTypeOK
<1>10. QED BY <1>2, <1>3, <1>4, <1>5, <1>6, <1>7, <1>8, <1>9 DEF TransferInv

\* When the end and everything before it is acknowledged, the receiver, which
\* leaves no gap at the front of its buffer, has delivered the whole stream.
LEMMA AckedToTheEnd ==
    ASSUME SenderInv, TransferInv, r_final_size # NoFin, s_buffer_fin # NoFin,
           \A o \in 0..(s_buffer_fin - 1) : Received(o)
    PROVE  r_is_finished
<1> USE MaxOffsetAssumption DEF Offset
<1>1. r_final_size = s_highest_offset /\ FinalSizeInPlace
      BY DEF TransferInv, FinalSizeInPlace
<1>2. SUFFICES ASSUME ~r_is_finished PROVE FALSE
      OBVIOUS
<1>3. /\ ~r_reset_seen /\ s_buffer_fin = r_final_size
      /\ r_highest_offset = r_final_size /\ r_buffer_start # r_final_size
      BY <1>1, <1>2 DEF TransferInv, FinalSizeInPlace, ResetsInPlace
<1>4. /\ r_buffer_start \in Offset /\ r_buffer_len \in Offset
      /\ r_buffer_start + r_buffer_len = r_highest_offset
      /\ \A o \in r_ranges : r_buffer_start < o
      /\ r_final_size \in Offset \cup {NoFin}
      BY DEF TransferInv, BufferInPlace, RangesAreHeld, ReceiverTypeOK
<1>5. r_buffer_start \in 0..(s_buffer_fin - 1)
      BY <1>3, <1>4
<1>6. Received(r_buffer_start)
      BY <1>5
<1>7. QED BY <1>4, <1>6 DEF Received

\* A frame that the receiver got is acknowledged.
LEMMA FrameAckedInv ==
    ASSUME SenderInv, TransferInv, NEW f \in s_sent, FrameAcked(f)
    PROVE  TransferInv'
<1>1. /\ f \in got /\ got' = got \ {f} /\ OnDataAcked(f)
      /\ UNCHANGED <<receiverVars, net, resetNetVars, stopNetVars, assert_failed>>
      /\ UNCHANGED <<s_highest_offset, s_buffer_fin, s_reset>>
      BY DEF FrameAcked, OnDataAcked, writeVars, resetVars
<1> USE <1>1 DEF receiverVars, dataVars, stopVars, resetNetVars, stopNetVars
<1>2. NetTypeOK' /\ ReceiverTypeOK'
      BY DEF TransferInv, NetTypeOK, ReceiverTypeOK
<1>3. NetInPlace' /\ FinalSizeInPlace' /\ ResetsInPlace' /\ EndMeansAll'
      BY DEF TransferInv, NetInPlace, FinalSizeInPlace, ResetsInPlace, EndMeansAll
<1>4. BufferInPlace'
      BY DEF TransferInv, BufferInPlace, RangesAreHeld, DeliveredInOrder
<1>5. GotIsReceived'
      BY DEF TransferInv, GotIsReceived, Received
<1>6. CASE s_reset
  <2>1. UNCHANGED bufferVars
        BY <1>6 DEF OnDataAcked
  <2>2. AckedInPlace' /\ FinishedTogether'
        BY <2>1 DEF TransferInv, AckedInPlace, FinishedTogether, Received, bufferVars
  <2>3. QED BY <1>2, <1>3, <1>4, <1>5, <2>2 DEF TransferInv
<1>7. CASE ~s_reset
  <2>1. /\ s_buffer_start' \in Offset /\ s_buffer_start \in Offset
        /\ s_buffer_start..(s_buffer_start' - 1) \subseteq s_acked \cup Bytes(f)
        /\ s_acked' \subseteq s_acked \cup Bytes(f)
        BY <1>7, ReleaseAckedPrefix DEF SenderInv, SenderTypeOK
  <2>2. \A o \in s_acked \cup Bytes(f) : Received(o)
        BY DEF TransferInv, AckedInPlace, GotIsReceived
  <2>3. \A o \in 0..(s_buffer_start' - 1) : Received(o)
    <3>1. \A a, b \in Int : \A o \in 0..(b - 1) : o \in 0..(a - 1) \/ o \in a..(b - 1)
          OBVIOUS
    <3>2. s_buffer_start \in Int /\ s_buffer_start' \in Int
          BY <2>1, MaxOffsetAssumption DEF Offset
    <3>3. \A o \in 0..(s_buffer_start - 1) : Received(o)
          BY DEF TransferInv, AckedInPlace
    <3>4. QED BY <2>1, <2>2, <3>1, <3>2, <3>3
  <2>4. s_acked_fin' => r_final_size # NoFin
        BY <1>7 DEF OnDataAcked, TransferInv, AckedInPlace, GotIsReceived
  <2>5. AckedInPlace'
        BY <2>1, <2>2, <2>3, <2>4 DEF AckedInPlace, Received
  <2>6. FinishedTogether'
    <3>1. CASE s_is_finished
          BY <3>1 DEF TransferInv, FinishedTogether
    <3>2. CASE s_buffer_start' = s_buffer_fin /\ s_acked_fin'
      <4>1. s_buffer_fin # NoFin
            BY <2>1, <3>2, MaxOffsetAssumption DEF Offset, NoFin
      <4>2. r_is_finished
            BY <2>3, <2>4, <3>2, <4>1, AckedToTheEnd
      <4>3. QED BY <4>2 DEF FinishedTogether
    <3>3. CASE ~s_is_finished /\ ~(s_buffer_start' = s_buffer_fin /\ s_acked_fin')
          BY <1>7, <3>3 DEF OnDataAcked, FinishedTogether
    <3>4. QED BY <3>1, <3>2, <3>3
  <2>7. QED BY <1>2, <1>3, <1>4, <1>5, <2>5, <2>6 DEF TransferInv
<1>8. QED BY <1>6, <1>7

\* A frame is taken for lost, rightly or not.
LEMMA FrameLostInv ==
    ASSUME SenderInv, TransferInv, NEW f \in s_sent, FrameLost(f)
    PROVE  TransferInv'
<1>1. /\ got' = got \ {f}
      /\ UNCHANGED <<receiverVars, net, resetNetVars, stopNetVars, assert_failed>>
      /\ UNCHANGED <<s_highest_offset, bufferVars, writeVars, resetVars>>
      BY DEF FrameLost, OnDataLost
<1> USE <1>1 DEF bufferVars, writeVars, resetVars, receiverVars, dataVars, stopVars,
                 resetNetVars, stopNetVars
<1>2. NetTypeOK' /\ ReceiverTypeOK'
      BY DEF TransferInv, NetTypeOK, ReceiverTypeOK
<1>3. Quiet
      BY <1>2 DEF Quiet
<1>4. QED BY <1>3, QuietStep

\* A RESET_STREAM is acknowledged or taken for lost.
LEMMA ResetReportedStep == SenderInv /\ TransferInv /\ ResetReported => TransferInv'
<1> SUFFICES ASSUME SenderInv, TransferInv, ResetReported PROVE TransferInv'
    OBVIOUS
<1>1. /\ reset_got' = FALSE
      /\ UNCHANGED <<receiverVars, frameVars, reset_net, stopNetVars, assert_failed>>
      /\ UNCHANGED <<s_highest_offset, s_acked, s_acked_fin, s_buffer_start,
                     writeVars, s_reset>>
      /\ s_is_finished' => s_is_finished \/ reset_got
      BY DEF ResetReported, OnResetAcked, OnResetLost, bufferVars
<1> USE <1>1 DEF TransferInv, writeVars, receiverVars, dataVars, stopVars, frameVars,
                 stopNetVars
<1>2. NetTypeOK' /\ ReceiverTypeOK'
      BY DEF NetTypeOK, ReceiverTypeOK
<1>3. NetInPlace' /\ FinalSizeInPlace' /\ ResetsInPlace' /\ EndMeansAll'
      BY DEF NetInPlace, FinalSizeInPlace, ResetsInPlace, EndMeansAll
<1>4. BufferInPlace'
      BY DEF BufferInPlace, RangesAreHeld, DeliveredInOrder
<1>5. GotIsReceived' /\ AckedInPlace'
      BY DEF GotIsReceived, AckedInPlace, Received
<1>6. FinishedTogether'
      BY DEF FinishedTogether, ResetsInPlace
<1>7. QED BY <1>2, <1>3, <1>4, <1>5, <1>6

\* The other steps.
LEMMA QuietInv ==
    ASSUME SenderInv, TransferInv,
           \/ AppReset \/ TransmitFinStopped \/ TransmitNothing
           \/ AppStop \/ TransmitStop \/ StopReported
           \/ DropReset \/ DeliverStop \/ DeliverStopAgain \/ DropStop
           \/ \E f \in net : DropFrame(f)
    PROVE  TransferInv'
<1> USE DEF TransferInv, NetTypeOK, ReceiverTypeOK, senderVars, bufferVars,
            writeVars, resetVars, receiverVars, dataVars, stopVars,
            netVars, frameVars, resetNetVars, stopNetVars
<1>1. CASE AppReset
  <2>1. Quiet
        BY <1>1 DEF Quiet, AppReset, Reset
  <2>2. QED BY <2>1, QuietStep
<1>2. CASE TransmitFinStopped
  <2>1. Quiet
        BY <1>2 DEF Quiet, TransmitFinStopped, SendFinStopped
  <2>2. QED BY <2>1, QuietStep
<1>3. CASE TransmitNothing
  <2>1. Quiet
        BY <1>3 DEF Quiet, TransmitNothing, NothingToSend
  <2>2. QED BY <2>1, QuietStep
<1>4. CASE AppStop
  <2>1. Quiet
        BY <1>4 DEF Quiet, AppStop, Stop
  <2>2. QED BY <2>1, QuietStep
<1>5. CASE TransmitStop
  <2>1. Quiet
        BY <1>5 DEF Quiet, TransmitStop, SendStop
  <2>2. QED BY <2>1, QuietStep
<1>6. CASE StopReported
  <2>1. NetTypeOK' /\ ReceiverTypeOK'
    <3>1. stop_got' \in BOOLEAN /\ r_stop_sent' \in BOOLEAN /\ r_stop_pending' \in BOOLEAN
          BY <1>6 DEF StopReported, OnStopAcked, OnStopLost
    <3>2. UNCHANGED <<r_is_finished, r_final_size, r_reset_seen, r_stopped, dataVars,
                      frameVars, resetNetVars, stop_net, assert_failed>>
          BY <1>6 DEF StopReported, OnStopAcked, OnStopLost
    <3>3. QED BY <3>1, <3>2 DEF frameVars
  <2>2. Quiet
        BY <1>6, <2>1 DEF Quiet, StopReported, OnStopAcked, OnStopLost
  <2>3. QED BY <2>2, QuietStep
<1>7. CASE DropReset
  <2>1. Quiet
        BY <1>7 DEF Quiet, DropReset
  <2>2. QED BY <2>1, QuietStep
<1>8. CASE DeliverStop
  <2>1. Quiet
        BY <1>8 DEF Quiet, DeliverStop, Reset
  <2>2. QED BY <2>1, QuietStep
<1>9. CASE DeliverStopAgain
  <2>1. Quiet
        BY <1>9 DEF Quiet, DeliverStopAgain
  <2>2. QED BY <2>1, QuietStep
<1>10. CASE DropStop
  <2>1. NetTypeOK' /\ ReceiverTypeOK'
    <3>1. stop_net' \in BOOLEAN
          BY <1>10 DEF DropStop
    <3>2. UNCHANGED <<receiverVars, frameVars, resetNetVars, stop_got, assert_failed>>
          BY <1>10 DEF DropStop
    <3>3. QED BY <3>1, <3>2 DEF frameVars
  <2>2. Quiet
        BY <1>10, <2>1 DEF Quiet, DropStop
  <2>3. QED BY <2>2, QuietStep
<1>11. CASE \E f \in net : DropFrame(f)
  <2>1. Quiet
        BY <1>11 DEF Quiet, DropFrame
  <2>2. QED BY <2>1, QuietStep
<1>12. QED BY <1>1, <1>2, <1>3, <1>4, <1>5, <1>6, <1>7, <1>8, <1>9, <1>10, <1>11

-----------------------------------------------------------------------------
(* The theorems.                                                           *)

\* The steps of the transfer drive the sender by its own actions only.
LEMMA TransferDrivesSender == Next => [SenderNext]_senderVars
<1> SUFFICES ASSUME Next PROVE [SenderNext]_senderVars
    OBVIOUS
<1>1. CASE AppWrite \/ AppReset \/ TransmitData \/ TransmitFin
           \/ TransmitFinStopped \/ TransmitNothing \/ TransmitReset
      BY <1>1 DEF AppWrite, AppReset, TransmitData, TransmitFin, TransmitFinStopped,
                  TransmitNothing, TransmitReset, SenderNext
<1>2. CASE \E f \in s_sent : FrameAcked(f) \/ FrameLost(f)
      BY <1>2 DEF FrameAcked, FrameLost, SenderNext
<1>3. CASE ResetReported
      BY <1>3 DEF ResetReported, SenderNext
<1>4. CASE ReceiverSide
      BY <1>4 DEF ReceiverSide, AppStop, TransmitStop, StopReported
<1>5. CASE \E f \in net : DeliverFrame(f) \/ DropFrame(f)
      BY <1>5 DEF DeliverFrame, DropFrame
<1>6. CASE DeliverReset \/ DropReset \/ DeliverStop \/ DeliverStopAgain \/ DropStop
      BY <1>6 DEF DeliverReset, DropReset, DeliverStop, DeliverStopAgain, DropStop,
                  SenderNext
<1>7. QED BY <1>1, <1>2, <1>3, <1>4, <1>5, <1>6 DEF Next, SenderSide, Network

\* Every step of the two ends and the network keeps the invariant.
LEMMA TransferStep == SenderInv /\ TransferInv /\ [Next]_vars => TransferInv'
<1> SUFFICES ASSUME SenderInv, TransferInv, [Next]_vars PROVE TransferInv'
    OBVIOUS
<1>1. CASE AppWrite \/ TransmitData \/ TransmitFin \/ TransmitReset \/ ResetReported
      BY <1>1, AppWriteInv, TransmitInv, TransmitResetInv, ResetReportedStep
<1>2. CASE \E f \in s_sent : FrameAcked(f) \/ FrameLost(f)
      BY <1>2, FrameAckedInv, FrameLostInv
<1>3. CASE \E f \in net : DeliverFrame(f)
      BY <1>3, DeliverFrameInv
<1>4. CASE DeliverReset
      BY <1>4, DeliverResetInv
<1>5. CASE \/ AppReset \/ TransmitFinStopped \/ TransmitNothing \/ ReceiverSide
           \/ DropReset \/ DeliverStop \/ DeliverStopAgain \/ DropStop
           \/ \E f \in net : DropFrame(f)
      BY <1>5, QuietInv DEF ReceiverSide
<1>6. CASE UNCHANGED vars
  <2> USE <1>6 DEF vars, senderVars, bufferVars, writeVars, resetVars, receiverVars,
                   dataVars, stopVars, netVars, frameVars, resetNetVars, stopNetVars
  <2>1. NetTypeOK' /\ ReceiverTypeOK'
        BY DEF TransferInv, NetTypeOK, ReceiverTypeOK
  <2>2. Quiet
        BY <2>1 DEF Quiet
  <2>3. QED BY <2>2, QuietStep
<1>7. QED BY <1>1, <1>2, <1>3, <1>4, <1>5, <1>6 DEF Next, SenderSide, Network

\* The inductive invariant of the whole: the sender's, and what it means for
\* the receiver and for what is under way.
THEOREM TransferInvariant == Spec => [](SenderInv /\ TransferInv)
<1>1. Init => SenderInv /\ TransferInv
      BY InitInv, TransferInit DEF Init
<1>2. SenderInv /\ TransferInv /\ [Next]_vars => SenderInv' /\ TransferInv'
  <2> SUFFICES ASSUME SenderInv, TransferInv, [Next]_vars
               PROVE  SenderInv' /\ TransferInv'
      OBVIOUS
  <2>1. [SenderNext]_senderVars
    <3>1. CASE Next
          BY <3>1, TransferDrivesSender
    <3>2. CASE UNCHANGED vars
          BY <3>2 DEF vars
    <3>3. QED BY <3>1, <3>2
  <2>2. QED BY <2>1, StepInv, TransferStep
<1>3. QED BY <1>1, <1>2, PTL DEF Spec

\* The properties that the runs check follow from the two invariants.
LEMMA TransferSafety ==
    SenderInv /\ TransferInv => /\ DeliveredInOrder
                                /\ EndMeansAll
                                /\ AckedIsReceived
                                /\ FinishedTogether
                                /\ NoFinalSizeError
                                /\ RangesAreHeld
<1> SUFFICES ASSUME SenderInv, TransferInv
             PROVE  AckedIsReceived /\ NoFinalSizeError
    BY DEF TransferInv, BufferInPlace
<1> USE MaxOffsetAssumption DEF Offset
<1>1. AckedIsReceived
  <2>1. ASSUME NEW o \in 0..(s_buffer_stop - 1), o < s_buffer_start \/ o \in s_acked
        PROVE  o < r_buffer_start \/ o \in r_ranges
    <3>1. o < s_buffer_start => o \in 0..(s_buffer_start - 1)
          BY DEF SenderInv, SenderTypeOK
    <3>2. QED BY <2>1, <3>1 DEF TransferInv, AckedInPlace, Received
  <2>2. QED BY <2>1 DEF AckedIsReceived
<1>2. NoFinalSizeError
  <2>1. /\ s_highest_offset \in Int /\ s_buffer_stop \in Int
        /\ s_highest_offset <= s_buffer_stop
        /\ s_buffer_fin # NoFin => s_buffer_fin = s_buffer_stop
        BY DEF SenderInv, SenderTypeOK, OffsetsInPlace, FinInPlace
  <2>2. r_final_size # NoFin => r_final_size = s_highest_offset
        BY DEF TransferInv, FinalSizeInPlace
  <2>3. ASSUME NEW f \in net PROVE FinalSizeHolds(f)
    <3>1. /\ f.stop \in Int /\ f.stop <= s_highest_offset
          /\ f.fin => s_buffer_fin # NoFin /\ f.stop = s_buffer_fin
          BY DEF TransferInv, NetTypeOK, NetInPlace, Frame
    <3>2. QED BY <2>1, <2>2, <3>1 DEF FinalSizeHolds
  <2>4. ASSUME NEW final_size \in reset_net PROVE ResetSizeHolds(final_size)
        BY <2>2 DEF ResetSizeHolds, TransferInv, ResetsInPlace
  <2>5. QED BY <2>3, <2>4 DEF NoFinalSizeError
<1>3. QED BY <1>1, <1>2

\* Offsets stay within the stream, and what is under way or reported was a frame.
THEOREM TransferTypes == Spec => []TypeOK
<1>1. SenderInv /\ TransferInv => TypeOK
      BY DEF TypeOK, SenderInv, TransferInv
<1>2. QED BY <1>1, TransferInvariant, PTL

\* The application gets the bytes that were written, in order and each once
\* (handle_frame, _pull_data), however the frames were cut and arrived.
THEOREM TransferDeliversInOrder == Spec => []DeliveredInOrder
<1>1. QED BY TransferInvariant, TransferSafety, PTL

\* The end of the stream is never announced early (handle_frame).
THEOREM TransferEndsAtTheEnd == Spec => []EndMeansAll
<1>1. QED BY TransferInvariant, TransferSafety, PTL

\* What on_data_delivery() drops from the buffer, the receiver has.
THEOREM TransferAcksReceived == Spec => []AckedIsReceived
<1>1. QED BY TransferInvariant, TransferSafety, PTL

\* A finished sender leaves a finished receiver: the connection may forget the
\* stream on both sides.
THEOREM TransferFinishesTogether == Spec => []FinishedTogether
<1>1. QED BY TransferInvariant, TransferSafety, PTL

\* Neither handle_frame() nor handle_reset() raises FinalSizeError on what the
\* sender of this code sends.
THEOREM TransferAgreesOnSize == Spec => []NoFinalSizeError
<1>1. QED BY TransferInvariant, TransferSafety, PTL

\* The buffer of the receiver ends at the highest offset, and its gaps are
\* never marked as received.
THEOREM TransferKeepsGapsOut == Spec => []RangesAreHeld
<1>1. QED BY TransferInvariant, TransferSafety, PTL

\* Over the network too, the sender forgets no byte and sends none twice.
THEOREM TransferKeepsBytes ==
    Spec => [](NoByteForgotten /\ OnePlaceForEachByte /\ ScheduledWhilePending
               /\ FinFrameEndsStream)
<1>1. QED BY TransferInvariant, InvSafety, PTL

-----------------------------------------------------------------------------
(* The refinement.                                                         *)

\* The initial states are those of the byte stream.
LEMMA AbstractInit == Init => Abstract!Init
BY DEF Init, SenderInit, ReceiverInit, Abstract!Init, NoFin

\* A frame that is processed hands over a longer prefix of what was written.
LEMMA AbstractDeliver ==
    ASSUME SenderInv, TransferInv, TransferInv', NEW f \in net, DeliverFrame(f)
    PROVE  Abstract!Deliver
<1> USE MaxOffsetAssumption DEF Offset
<1>1. /\ UNCHANGED <<s_buffer_stop, s_buffer_fin, s_reset, r_reset_seen>>
      /\ s_highest_offset' = s_highest_offset
      BY DEF DeliverFrame, HandleFrame, senderVars, writeVars, resetVars
<1>2. r_buffer_start <= r_buffer_start'
      BY DeliverFrameEffect
<1>3. /\ r_buffer_start \in Nat /\ r_buffer_start' \in Nat
      /\ r_buffer_start' <= s_highest_offset
  <2>1. BufferInPlace' /\ ReceiverTypeOK' /\ r_buffer_start \in Offset
        BY DEF TransferInv, ReceiverTypeOK
  <2>2. /\ r_buffer_start' \in Offset /\ r_buffer_len' \in Offset
        /\ r_buffer_start' + r_buffer_len' = r_highest_offset'
        /\ r_highest_offset' <= s_highest_offset'
        BY <2>1 DEF BufferInPlace, RangesAreHeld
  <2>3. s_highest_offset \in Offset
        BY DEF SenderInv, SenderTypeOK
  <2>4. QED BY <1>1, <2>1, <2>2, <2>3
<1>4. /\ s_highest_offset <= s_buffer_stop /\ s_buffer_stop \in Nat
      /\ s_highest_offset \in Nat
      /\ s_buffer_fin # NoFin => s_buffer_fin = s_buffer_stop
      BY DEF SenderInv, SenderTypeOK, OffsetsInPlace, FinInPlace
<1>5. /\ r_delivered = [i \in 1..r_buffer_start |-> i - 1]
      /\ r_delivered' = [i \in 1..r_buffer_start' |-> i - 1]
      BY DEF TransferInv, BufferInPlace, DeliveredInOrder
<1>6. Len(r_delivered) = r_buffer_start /\ Len(r_delivered') = r_buffer_start'
  <2>1. ASSUME NEW n \in Nat PROVE Len([i \in 1..n |-> i - 1]) = n
        OBVIOUS
  <2>2. QED BY <1>3, <1>5, <2>1
<1>7. \E n \in Len(r_delivered)..s_buffer_stop : r_delivered' = Abstract!Prefix(n)
  <2>1. r_buffer_start' \in Len(r_delivered)..s_buffer_stop
    <3>1. r_buffer_start' \in r_buffer_start..s_buffer_stop
          BY <1>2, <1>3, <1>4
    <3>2. QED BY <1>6, <3>1
  <2>2. r_delivered' = Abstract!Prefix(r_buffer_start')
        BY <1>5 DEF Abstract!Prefix
  <2>3. QED BY <2>1, <2>2
<1>8. \/ r_ended' = r_ended
      \/ /\ r_ended' = TRUE
         /\ (s_buffer_fin # NoFin /\ Len(r_delivered') = s_buffer_stop) \/ r_reset_seen
  <2>1. r_ended \in BOOLEAN /\ r_ended' \in BOOLEAN
        BY DEF TransferInv, ReceiverTypeOK
  <2>2. r_ended => r_ended'
        BY DEF DeliverFrame, HandleFrame, PassThrough, BufferAndPull
  <2>3. r_ended' => (s_buffer_fin # NoFin /\ Len(r_delivered') = s_buffer_stop)
                        \/ r_reset_seen
        BY <1>1, <1>4, <1>6 DEF TransferInv, EndMeansAll
  <2>4. QED BY <2>1, <2>2, <2>3, Zenon
<1>9. QED BY <1>1, <1>7, <1>8 DEF Abstract!Deliver

\* Every step is a step of the byte stream, or none.
LEMMA AbstractStep ==
    SenderInv /\ TransferInv /\ TransferInv' /\ [Next]_vars
        => [Abstract!Next]_(Abstract!vars)
<1> SUFFICES ASSUME SenderInv, TransferInv, TransferInv', [Next]_vars
             PROVE  [Abstract!Next]_(Abstract!vars)
    OBVIOUS
<1> USE DEF Abstract!Next
<1>1. CASE AppWrite
  <2>1. PICK size \in Offset, end_stream \in BOOLEAN : Write(size, end_stream)
        BY <1>1 DEF AppWrite
  <2>2. s_buffer_stop' \in s_buffer_stop..MaxOffset
        BY <2>1, MaxOffsetAssumption DEF Write, Offset, SenderInv, SenderTypeOK
  <2>3. Abstract!Write
        BY <1>1, <2>1, <2>2
        DEF AppWrite, Write, resetVars, receiverVars, dataVars, Abstract!Write
  <2>4. QED BY <2>3
<1>2. CASE AppReset \/ DeliverStop
  <2>1. Abstract!Abort
        BY <1>2 DEF AppReset, DeliverStop, Reset, writeVars, receiverVars, dataVars,
                    Abstract!Abort
  <2>2. QED BY <2>1
<1>3. CASE \E f \in net : DeliverFrame(f)
      BY <1>3, AbstractDeliver
<1>4. CASE DeliverReset
  <2>1. PICK final_size \in reset_net : HandleReset(final_size)
        BY <1>4 DEF DeliverReset
  <2>2. Abstract!SeeAbort
        BY <1>4, <2>1 DEF DeliverReset, HandleReset, TransferInv, ResetsInPlace,
                          senderVars, writeVars, resetVars, dataVars,
                          Abstract!SeeAbort
  <2>3. QED BY <2>2
<1>5. ASSUME UNCHANGED <<s_buffer_stop, s_buffer_fin, s_reset, r_delivered, r_ended,
                         r_reset_seen>>
      PROVE  UNCHANGED Abstract!vars
      BY <1>5 DEF Abstract!vars
<1> USE DEF senderVars, bufferVars, writeVars, resetVars, receiverVars, dataVars,
            netVars, vars
<1>6. CASE TransmitData \/ TransmitFin \/ TransmitFinStopped \/ TransmitNothing
           \/ TransmitReset \/ ResetReported
      BY <1>5, <1>6 DEF TransmitData, TransmitFin, TransmitFinStopped,
                        TransmitNothing, TransmitReset, ResetReported,
                        SendData, SendFin, SendFinStopped, NothingToSend,
                        SendReset, OnResetAcked, OnResetLost
<1>7. CASE \E f \in s_sent : FrameAcked(f) \/ FrameLost(f)
      BY <1>5, <1>7 DEF FrameAcked, FrameLost, OnDataAcked, OnDataLost
<1>8. CASE ReceiverSide
      BY <1>5, <1>8 DEF ReceiverSide, AppStop, TransmitStop, StopReported, Stop,
                        SendStop, OnStopAcked, OnStopLost
<1>9. CASE DropReset \/ DeliverStopAgain \/ DropStop \/ \E f \in net : DropFrame(f)
      BY <1>5, <1>9 DEF DropReset, DeliverStopAgain, DropStop, DropFrame
<1>10. CASE UNCHANGED vars
      BY <1>5, <1>10
<1>11. QED BY <1>1, <1>2, <1>3, <1>4, <1>6, <1>7, <1>8, <1>9, <1>10
           DEF Next, SenderSide, Network

\* The two ends and the network between them implement the byte stream that
\* the applications are promised.
THEOREM TransferImplementsByteStream == Spec => ImplementsByteStream
<1>1. QED BY AbstractInit, AbstractStep, TransferInvariant, PTL
          DEF Spec, ImplementsByteStream, Abstract!Spec

-----------------------------------------------------------------------------
(* The lists of ranges: what each of them is.                              *)

Spans == {r \in [start : Offset, stop : Offset] : r.start < r.stop}

\* There is a gap between any two ranges of the list.
Sorted(q) == \A i, j \in 1..Len(q) : i < j => q[i].stop < q[j].start

Lists == {q \in Seq(Spans) : Sorted(q)}

\* The offsets that the items from m to n of the list hold.
Held(q, m, n) == {o \in Offset : \E i \in m..n : q[i].start <= o /\ o < q[i].stop}

\* The inductive invariant: Canonical follows from it.
RangesSorted == ranges \in Lists

-----------------------------------------------------------------------------
(* Lists of ranges.                                                        *)

\* A range is a record of two offsets.
LEMMA SpanType ==
    ASSUME NEW a \in Offset, NEW b \in Offset, a < b
    PROVE  /\ Span(a, b) \in Spans
           /\ Span(a, b).start = a
           /\ Span(a, b).stop = b
<1>1. Offset \subseteq Nat
      BY MaxOffsetAssumption DEF Offset
<1>2. QED BY <1>1 DEF Span, Spans

\* What is known of a list and of its items.
LEMMA ListFacts ==
    ASSUME NEW q \in Lists
    PROVE  /\ q \in Seq(Spans)
           /\ Len(q) \in Nat
           /\ DOMAIN q = 1..Len(q)
           /\ \A i \in 1..Len(q) : /\ q[i] \in Spans
                                   /\ q[i].start \in Nat
                                   /\ q[i].stop \in Nat
                                   /\ q[i].start \in Offset
                                   /\ q[i].stop \in Offset
                                   /\ q[i].start < q[i].stop
           /\ \A i, j \in 1..Len(q) : i < j => q[i].stop < q[j].start
<1>1. q \in Seq(Spans) /\ Len(q) \in Nat /\ DOMAIN q = 1..Len(q)
      BY LenProperties DEF Lists
<1>2. ASSUME NEW i \in 1..Len(q) PROVE q[i] \in Spans
      BY <1>1, ElementOfSeq
<1>3. Offset \subseteq Nat
      BY MaxOffsetAssumption DEF Offset
<1>4. ASSUME NEW r \in Spans
      PROVE  r.start \in Offset /\ r.stop \in Offset /\ r.start < r.stop
      BY DEF Spans
<1>5. \A i, j \in 1..Len(q) : i < j => q[i].stop < q[j].start
      BY DEF Lists, Sorted
<1>6. QED BY <1>1, <1>2, <1>3, <1>4, <1>5

\* The items from m to n of a list are a list.
LEMMA PartOfList ==
    ASSUME NEW q \in Lists, NEW m \in 1..(Len(q) + 1), NEW n \in 0..Len(q)
    PROVE  /\ SubSeq(q, m, n) \in Lists
           /\ \A i \in 1..Len(SubSeq(q, m, n)) :
                  m + i - 1 \in m..n /\ SubSeq(q, m, n)[i] = q[m + i - 1]
           /\ Held(SubSeq(q, m, n), 1, Len(SubSeq(q, m, n))) = Held(q, m, n)
<1> DEFINE s == SubSeq(q, m, n)
<1>1. Len(q) \in Nat /\ m \in Int /\ n \in Int
      BY ListFacts
<1>2. \A i \in m..n : q[i] \in Spans
      BY <1>1, ListFacts
<1>3. /\ s \in Seq(Spans)
      /\ Len(s) = IF m <= n THEN n - m + 1 ELSE 0
      /\ \A i \in 1..(n - m + 1) : s[i] = q[m + i - 1]
      BY <1>1, <1>2, SubSeqProperties
<1> HIDE DEF s
<1>4. \A i \in 1..Len(s) : m + i - 1 \in m..n /\ m + i - 1 \in 1..Len(q) /\ s[i] = q[m + i - 1]
      BY <1>1, <1>3
<1>5. Sorted(s)
  <2>1. SUFFICES ASSUME NEW i \in 1..Len(s), NEW j \in 1..Len(s), i < j
                 PROVE  s[i].stop < s[j].start
        BY DEF Sorted
  <2>2. m + i - 1 < m + j - 1
        BY <1>1, <1>3, <2>1
  <2>3. QED BY <1>4, <2>2, ListFacts
<1>6. Held(s, 1, Len(s)) = Held(q, m, n)
  <2>1. ASSUME NEW i \in m..n PROVE \E k \in 1..Len(s) : s[k] = q[i]
    <3>1. i - m + 1 \in 1..Len(s) /\ m + (i - m + 1) - 1 = i
          BY <1>1, <1>3
    <3>2. QED BY <1>4, <3>1
  <2>2. ASSUME NEW k \in 1..Len(s) PROVE \E i \in m..n : s[k] = q[i]
        BY <1>4
  <2>3. QED BY <2>1, <2>2 DEF Held
<1>7. QED BY <1>3, <1>4, <1>5, <1>6 DEF s, Lists

\* One range is a list.
LEMMA OneRange ==
    ASSUME NEW r \in Spans
    PROVE  /\ <<r>> \in Lists
           /\ Len(<<r>>) = 1
           /\ \A i \in 1..1 : <<r>>[i] = r
           /\ Held(<<r>>, 1, 1) = r.start..(r.stop - 1)
<1>1. r.start \in Offset /\ r.stop \in Offset /\ r.start < r.stop
      BY DEF Spans
<1>2. <<r>> \in Seq(Spans) /\ Len(<<r>>) = 1 /\ <<r>>[1] = r
      BY DEF Spans
<1>3. Sorted(<<r>>)
      BY <1>2 DEF Sorted
<1>4. \A i \in 1..1 : <<r>>[i] = r
      BY <1>2
<1>5. Held(<<r>>, 1, 1) = {o \in Offset : r.start <= o /\ o < r.stop}
      BY <1>4 DEF Held
<1>6. {o \in Offset : r.start <= o /\ o < r.stop} = r.start..(r.stop - 1)
      BY <1>1, MaxOffsetAssumption DEF Offset
<1>7. QED BY <1>2, <1>3, <1>4, <1>5, <1>6 DEF Lists

\* No range is a list.
LEMMA NoRange ==
    /\ << >> \in Lists
    /\ Len(<< >>) = 0
    /\ Held(<< >>, 1, 0) = {}
<1>1. << >> \in Seq(Spans) /\ Len(<< >>) = 0
      BY EmptySeq
<1>2. QED BY <1>1 DEF Lists, Sorted, Held

\* Two lists one of which lies before the other make a list.
LEMMA JoinedLists ==
    ASSUME NEW p \in Lists, NEW q \in Lists,
           \A i \in 1..Len(p), j \in 1..Len(q) : p[i].stop < q[j].start
    PROVE  /\ p \o q \in Lists
           /\ Len(p \o q) = Len(p) + Len(q)
           /\ \A k \in 1..Len(p \o q) :
                  \/ \E i \in 1..Len(p) : (p \o q)[k] = p[i]
                  \/ \E j \in 1..Len(q) : (p \o q)[k] = q[j]
           /\ Held(p \o q, 1, Len(p \o q)) = Held(p, 1, Len(p)) \cup Held(q, 1, Len(q))
<1> DEFINE s == p \o q
<1>1. Len(p) \in Nat /\ Len(q) \in Nat /\ p \in Seq(Spans) /\ q \in Seq(Spans)
      BY ListFacts
<1>2. /\ s \in Seq(Spans)
      /\ Len(s) = Len(p) + Len(q)
      /\ \A k \in 1..(Len(p) + Len(q)) : s[k] = IF k <= Len(p) THEN p[k] ELSE q[k - Len(p)]
      BY <1>1, ConcatProperties
<1> HIDE DEF s
<1>3. \A k \in 1..Len(s) : \/ k \in 1..Len(p) /\ s[k] = p[k]
                           \/ k > Len(p) /\ k - Len(p) \in 1..Len(q) /\ s[k] = q[k - Len(p)]
      BY <1>1, <1>2
<1>4. \A i \in 1..Len(p) : i \in 1..Len(s) /\ s[i] = p[i]
      BY <1>1, <1>2
<1>5. ASSUME NEW j \in 1..Len(q) PROVE Len(p) + j \in 1..Len(s) /\ s[Len(p) + j] = q[j]
  <2>1. Len(p) + j \in 1..Len(s) /\ (Len(p) + j) - Len(p) = j /\ ~(Len(p) + j <= Len(p))
        BY <1>1, <1>2
  <2>2. QED BY <1>2, <2>1
<1>6. Sorted(s)
  <2>1. SUFFICES ASSUME NEW i \in 1..Len(s), NEW j \in 1..Len(s), i < j
                 PROVE  s[i].stop < s[j].start
        BY DEF Sorted
  <2>2. CASE j \in 1..Len(p) /\ s[j] = p[j]
    <3>1. i \in 1..Len(p) /\ s[i] = p[i]
          BY <1>1, <1>2, <1>4, <2>1, <2>2
    <3>2. QED BY <2>1, <2>2, <3>1, ListFacts
  <2>3. CASE j > Len(p) /\ j - Len(p) \in 1..Len(q) /\ s[j] = q[j - Len(p)]
    <3>1. CASE i \in 1..Len(p) /\ s[i] = p[i]
          BY <2>3, <3>1
    <3>2. CASE i > Len(p) /\ i - Len(p) \in 1..Len(q) /\ s[i] = q[i - Len(p)]
      <4>1. i - Len(p) < j - Len(p)
            BY <1>1, <1>2, <2>1
      <4>2. QED BY <2>3, <3>2, <4>1, ListFacts
    <3>3. QED BY <1>3, <3>1, <3>2
  <2>4. QED BY <1>3, <2>2, <2>3
<1>7. \A k \in 1..Len(s) : \/ \E i \in 1..Len(p) : s[k] = p[i]
                           \/ \E j \in 1..Len(q) : s[k] = q[j]
      BY <1>3
<1>8. Held(s, 1, Len(s)) = Held(p, 1, Len(p)) \cup Held(q, 1, Len(q))
  <2>1. \A i \in 1..Len(p) : \E k \in 1..Len(s) : s[k] = p[i]
        BY <1>4
  <2>2. \A j \in 1..Len(q) : \E k \in 1..Len(s) : s[k] = q[j]
        BY <1>5
  <2>3. QED BY <1>7, <2>1, <2>2 DEF Held
<1>9. QED BY <1>2, <1>6, <1>7, <1>8 DEF s, Lists

\* A range put in the place of the items from i to k of the list, and after the items
\* that end before it and before the items that start after it, makes a list.
LEMMA RangePlaced ==
    ASSUME NEW q \in Lists, NEW i \in 1..(Len(q) + 1), NEW k \in (i - 1)..Len(q),
           NEW r \in Spans,
           \A j \in 1..(i - 1) : q[j].stop < r.start,
           \A j \in (k + 1)..Len(q) : r.stop < q[j].start
    PROVE  LET s == SubSeq(q, 1, i - 1) \o <<r>> \o SubSeq(q, k + 1, Len(q))
           IN  /\ s \in Lists
               /\ Held(s, 1, Len(s)) = Held(q, 1, i - 1) \cup r.start..(r.stop - 1)
                                       \cup Held(q, k + 1, Len(q))
<1> DEFINE p == SubSeq(q, 1, i - 1)
           t == SubSeq(q, k + 1, Len(q))
           m == <<r>>
<1>1. Len(q) \in Nat
      BY ListFacts
<1>2. /\ p \in Lists
      /\ \A j \in 1..Len(p) : 1 + j - 1 \in 1..(i - 1) /\ p[j] = q[1 + j - 1]
      /\ Held(p, 1, Len(p)) = Held(q, 1, i - 1)
  <2>1. 1 \in 1..(Len(q) + 1) /\ i - 1 \in 0..Len(q)
        BY <1>1
  <2>2. QED BY <2>1, PartOfList
<1>3. /\ t \in Lists
      /\ \A j \in 1..Len(t) : k + 1 + j - 1 \in (k + 1)..Len(q) /\ t[j] = q[k + 1 + j - 1]
      /\ Held(t, 1, Len(t)) = Held(q, k + 1, Len(q))
  <2>1. k + 1 \in 1..(Len(q) + 1) /\ Len(q) \in 0..Len(q)
        BY <1>1
  <2>2. QED BY <2>1, PartOfList
<1>4. /\ m \in Lists
      /\ Len(m) = 1
      /\ \A j \in 1..1 : m[j] = r
      /\ Held(m, 1, Len(m)) = r.start..(r.stop - 1)
      BY OneRange
<1>5. r.start \in Nat /\ r.stop \in Nat /\ r.start < r.stop
      BY MaxOffsetAssumption DEF Spans, Offset
<1>6. \A j \in 1..Len(p) : p[j].stop < r.start /\ p[j].stop \in Nat
      BY <1>1, <1>2, ListFacts
<1>7. \A j \in 1..Len(t) : r.stop < t[j].start /\ t[j].start \in Nat
      BY <1>1, <1>3, ListFacts
<1> HIDE DEF p, t, m
<1> DEFINE u == p \o m
<1>8. /\ u \in Lists
      /\ \A j \in 1..Len(u) : \/ \E l \in 1..Len(p) : u[j] = p[l]
                              \/ \E l \in 1..Len(m) : u[j] = m[l]
      /\ Held(u, 1, Len(u)) = Held(p, 1, Len(p)) \cup Held(m, 1, Len(m))
  <2>1. \A a \in 1..Len(p), b \in 1..Len(m) : p[a].stop < m[b].start
        BY <1>4, <1>6
  <2>2. QED BY <1>2, <1>4, <2>1, JoinedLists
<1> HIDE DEF u
<1>9. \A a \in 1..Len(u), b \in 1..Len(t) : u[a].stop < t[b].start
  <2>1. ASSUME NEW a \in 1..Len(u) PROVE u[a].stop <= r.stop /\ u[a].stop \in Nat
    <3>1. \A x \in Nat : x < r.start => x <= r.stop
          BY <1>5
    <3>2. CASE \E l \in 1..Len(p) : u[a] = p[l]
          BY <1>6, <3>1, <3>2
    <3>3. CASE \E l \in 1..Len(m) : u[a] = m[l]
      <4>1. u[a] = r
            BY <1>4, <3>3
      <4>2. QED BY <1>5, <4>1
    <3>4. QED BY <1>8, <3>2, <3>3
  <2>2. \A x, y, z \in Nat : x <= y /\ y < z => x < z
        OBVIOUS
  <2>3. QED BY <1>5, <1>7, <2>1, <2>2
<1>10. /\ u \o t \in Lists
       /\ Held(u \o t, 1, Len(u \o t)) = Held(u, 1, Len(u)) \cup Held(t, 1, Len(t))
      BY <1>3, <1>8, <1>9, JoinedLists
<1>11. QED BY <1>2, <1>3, <1>4, <1>8, <1>10 DEF u, p, t, m

-----------------------------------------------------------------------------
(* add()                                                                   *)

\* There is a first item that the added range does not lie entirely after, if it is
\* only the place after the last.
LEMMA FirstNotBeforeFound ==
    ASSUME NEW start \in Offset, RangesSorted
    PROVE  LET i == FirstNotBefore(start)
           IN  /\ i \in 1..(Len(ranges) + 1)
               /\ \A j \in 1..(i - 1) : start > ranges[j].stop
               /\ i <= Len(ranges) => start <= ranges[i].stop
<1> DEFINE n == Len(ranges)
           Stops == {i \in 1..(n + 1) : i <= n => start <= ranges[i].stop}
<1>1. /\ n \in Nat
      /\ \A j \in 1..n : ranges[j].stop \in Nat
      BY ListFacts DEF RangesSorted
<1>2. start \in Nat
      BY MaxOffsetAssumption DEF Offset
<1>3. PICK i \in Stops : \A j \in Stops : i <= j
  <2>1. n + 1 \in Stops /\ Stops \in SUBSET Nat
        BY <1>1
  <2> HIDE DEF Stops
  <2>2. Stops # {}
        BY <2>1
  <2>3. QED BY <2>1, <2>2, NaturalsHaveLeast
<1>4. /\ i \in 1..(n + 1)
      /\ i <= n => start <= ranges[i].stop
      BY <1>3
<1>5. \A j \in 1..(i - 1) : start > ranges[j].stop
  <2>1. SUFFICES ASSUME NEW j \in 1..(i - 1) PROVE start > ranges[j].stop
        OBVIOUS
  <2>2. j \notin Stops /\ j \in 1..n
        BY <1>1, <1>3, <1>4
  <2>3. ~(start <= ranges[j].stop)
        BY <1>1, <2>2
  <2>4. QED BY <1>1, <1>2, <2>2, <2>3
<1>6. QED BY <1>4, <1>5 DEF FirstNotBefore

\* What add() knows when it has gone on from item j with a range that ends at end: the
\* items after j up to the last lie within the range that it has grown to, they hold what
\* it grew by, and the item after them lies after it.
Merged(j, end, r) ==
    /\ r.last \in j..Len(ranges)
    /\ r.stop \in Offset
    /\ end <= r.stop
    /\ \A k \in (j + 1)..r.last : ranges[k].stop <= r.stop
    /\ end..(r.stop - 1) \subseteq Held(ranges, j + 1, r.last)
    /\ r.last < Len(ranges) => r.stop < ranges[r.last + 1].start

\* The inner loop of add() does that.
LEMMA AbsorbMerges ==
    ASSUME RangesSorted, NEW i \in 1..Len(ranges), NEW stop \in Offset
    PROVE  Merged(i, stop, Absorb(i, stop))
<1> DEFINE n == Len(ranges)
           V == [Offset -> [last : 1..n, stop : Offset]]
           b == [end \in Offset |-> [last |-> n, stop |-> end]]
           Turn(j, g) == [end \in Offset |->
                             IF j < n /\ ranges[j + 1].start <= end
                             THEN g[Larger(ranges[j + 1].stop, end)]
                             ELSE [last |-> j, stop |-> end]]
           step == [p \in (1..(n - 1)) \X V |-> Turn(n - p[1], p[2])]
           Is(f) == f = [j \in 1..n |-> Turn(j, f[j + 1])]
<1>1. /\ n \in Nat /\ n # 0 /\ n - 1 \in Nat
      /\ \A j \in 1..n : /\ ranges[j].start \in Nat /\ ranges[j].stop \in Offset
                         /\ ranges[j].start < ranges[j].stop
      BY ListFacts DEF RangesSorted
<1>2. \A x, y \in Offset : Larger(x, y) \in Offset /\ x <= Larger(x, y) /\ y <= Larger(x, y)
      BY MaxOffsetAssumption DEF Larger, Offset
<1>3. b \in V
      BY <1>1
<1>4. ASSUME NEW j \in 1..n, NEW g \in V PROVE Turn(j, g) \in V
  <2>1. ASSUME NEW end \in Offset, j < n
        PROVE  g[Larger(ranges[j + 1].stop, end)] \in [last : 1..n, stop : Offset]
    <3>1. ranges[j + 1].stop \in Offset
          BY <1>1, <2>1
    <3>2. QED BY <1>2, <3>1
  <2>2. QED BY <2>1
<1>5. step \in [(1..(n - 1)) \X V -> V]
  <2>1. \A p \in (1..(n - 1)) \X V : n - p[1] \in 1..n /\ p[2] \in V
        BY <1>1
  <2> HIDE DEF V, Turn
  <2>2. QED BY <1>4, <2>1
<1>6. PICK h \in [0..(n - 1) -> V] :
          h[0] = b /\ \A d \in 1..(n - 1) : h[d] = step[<<d, h[d - 1]>>]
  <2> DEFINE N == n - 1
  <2> HIDE DEF V, b, step, n, N
  <2>1. N \in Nat /\ N = n - 1 /\ step \in [(1..N) \X V -> V]
        BY <1>1, <1>5 DEF N
  <2>2. Walks(N, V, b, step) # {}
        BY <1>3, <2>1, StepsExist
  <2>3. QED BY <2>1, <2>2 DEF Walks
<1>7. \A d \in 1..(n - 1) : h[d] = Turn(n - d, h[d - 1])
  <2> SUFFICES ASSUME NEW d \in 1..(n - 1) PROVE h[d] = Turn(n - d, h[d - 1])
      OBVIOUS
  <2>1. h[d - 1] \in V
    <3>1. d - 1 \in 0..(n - 1)
          BY <1>1
    <3> HIDE DEF V
    <3>2. QED BY <3>1
  <2> HIDE DEF V, Turn
  <2>2. step[<<d, h[d - 1]>>] = Turn(n - d, h[d - 1])
        BY <2>1
  <2>3. QED BY <1>6, <2>2
<1> DEFINE f == [j \in 1..n |-> h[n - j]]
<1>8. Is(f)
  <2>1. SUFFICES ASSUME NEW j \in 1..n PROVE h[n - j] = Turn(j, f[j + 1])
    <3> HIDE DEF Turn
    <3>1. QED OBVIOUS
  <2>2. CASE j = n
    <3>1. h[n - j] = b
          BY <1>1, <1>6, <2>2
    <3>2. Turn(j, f[j + 1]) = b
          BY <2>2
    <3>3. QED BY <3>1, <3>2
  <2>3. CASE j < n
    <3>1. n - j \in 1..(n - 1) /\ n - (n - j) = j /\ j + 1 \in 1..n /\ n - (j + 1) = n - j - 1
          BY <1>1, <2>3
    <3>2. f[j + 1] = h[n - j - 1]
          BY <3>1
    <3> HIDE DEF Turn, f
    <3>3. QED BY <1>7, <3>1, <3>2
  <2>4. QED BY <1>1, <2>2, <2>3
<1>9. PICK from : Is(from) /\ Absorb(i, stop) = from[i][stop]
  <2>1. Absorb(i, stop) = (CHOOSE g : Is(g))[i][stop]
        BY DEF Absorb
  <2> HIDE DEF Is, f
  <2>2. QED BY <1>8, <2>1
<1> DEFINE Done == {d \in 0..(n - 1) : \A end \in Offset :
                                           Merged(n - d, end, from[n - d][end])}
<1>10. ASSUME NEW j \in 1..n, NEW end \in Offset
       PROVE  from[j][end] = IF j < n /\ ranges[j + 1].start <= end
                             THEN from[j + 1][Larger(ranges[j + 1].stop, end)]
                             ELSE [last |-> j, stop |-> end]
  <2> DEFINE g == from[j + 1]
  <2>1. from[j] = Turn(j, g)
    <3> HIDE DEF Turn
    <3>1. QED BY <1>9
  <2> HIDE DEF g
  <2>2. Turn(j, g)[end] = IF j < n /\ ranges[j + 1].start <= end
                          THEN g[Larger(ranges[j + 1].stop, end)]
                          ELSE [last |-> j, stop |-> end]
        OBVIOUS
  <2> HIDE DEF Turn
  <2>3. QED BY <2>1, <2>2 DEF g
<1>11. ASSUME NEW j \in 1..n, NEW end \in Offset,
              ~(j < n /\ ranges[j + 1].start <= end)
       PROVE  Merged(j, end, from[j][end])
  <2> DEFINE r == from[j][end]
  <2>1. r.last = j /\ r.stop = end
    <3>1. r = [last |-> j, stop |-> end]
      <4> HIDE DEF Is
      <4>1. QED BY <1>10, <1>11
    <3> HIDE DEF r
    <3>2. QED BY <3>1
  <2> HIDE DEF r
  <2>2. end \in Nat
        BY MaxOffsetAssumption DEF Offset
  <2>3. j < n => end < ranges[j + 1].start
        BY <1>1, <1>11, <2>2
  <2>4. QED BY <1>1, <2>1, <2>2, <2>3 DEF Merged, r
<1>12. 0 \in Done
  <2>1. n \in 1..n /\ 0 \in 0..(n - 1) /\ n - 0 = n /\ ~(n < n)
        BY <1>1
  <2> HIDE DEF Is
  <2>2. QED BY <1>11, <2>1
<1>13. ASSUME NEW d \in 0..(n - 2), d \in Done PROVE d + 1 \in Done
  <2> DEFINE j == n - (d + 1)
  <2>1. j \in 1..n /\ j < n /\ j + 1 = n - d /\ d + 1 \in 0..(n - 1) /\ j + 1 \in 1..n
        BY <1>1
  <2>2. SUFFICES ASSUME NEW end \in Offset PROVE Merged(j, end, from[j][end])
        BY <2>1
  <2> HIDE DEF j, Is
  <2>3. CASE ~(ranges[j + 1].start <= end)
        BY <1>11, <2>1, <2>3
  <2>4. CASE ranges[j + 1].start <= end
    <3> DEFINE next == Larger(ranges[j + 1].stop, end)
               r == from[j + 1][next]
    <3>1. next \in Offset /\ ranges[j + 1].stop <= next /\ end <= next
          /\ (next = end \/ next = ranges[j + 1].stop)
      <4>1. ranges[j + 1].stop \in Offset
            BY <1>1, <2>1
      <4>2. QED BY <1>2, <4>1 DEF Larger
    <3>2. from[j][end] = r
          BY <1>10, <2>1, <2>4
    <3>3. Merged(j + 1, next, r)
          BY <1>13, <2>1, <3>1
    <3> HIDE DEF next, r
    <3>4. /\ r.last \in (j + 1)..n
          /\ r.stop \in Offset
          /\ next <= r.stop
          /\ \A k \in (j + 1 + 1)..r.last : ranges[k].stop <= r.stop
          /\ next..(r.stop - 1) \subseteq Held(ranges, j + 1 + 1, r.last)
          /\ r.last < n => r.stop < ranges[r.last + 1].start
          BY <3>3 DEF Merged
    <3>5. /\ next \in Nat /\ end \in Nat /\ r.stop \in Nat /\ r.last \in Nat /\ j \in Nat
          /\ ranges[j + 1].start \in Nat /\ ranges[j + 1].stop \in Nat
      <4>1. Offset \subseteq Nat
            BY MaxOffsetAssumption DEF Offset
      <4>2. ranges[j + 1].stop \in Offset
            BY <1>1, <2>1
      <4>3. ranges[j + 1].start \in Nat
            BY <1>1, <2>1
      <4>4. n - (d + 1) \in Nat /\ r.last \in (j + 1)..n
            BY <2>1, <3>4 DEF j
      <4>5. r.last \in Nat /\ j \in Nat
            BY <1>1, <4>4, <2>1 DEF j
      <4>6. QED BY <3>1, <3>4, <4>1, <4>2, <4>3, <4>5
    <3>6. \A k \in (j + 1)..r.last : ranges[k].stop <= r.stop
      <4>1. ASSUME NEW k \in (j + 1)..r.last PROVE ranges[k].stop <= r.stop
        <5>1. CASE k = j + 1
              BY <3>1, <3>4, <3>5, <5>1, SMTT(30)
        <5>2. CASE k # j + 1
          <6>1. k \in (j + 1 + 1)..r.last
                BY <3>5, <5>2
          <6>2. QED BY <3>4, <6>1
        <5>3. QED BY <5>1, <5>2
      <4>2. QED BY <4>1
    <3>7. end..(r.stop - 1) \subseteq Held(ranges, j + 1, r.last)
      <4>1. SUFFICES ASSUME NEW o \in end..(r.stop - 1) PROVE o \in Held(ranges, j + 1, r.last)
            OBVIOUS
      <4>2. CASE o < next
        <5>1. ranges[j + 1].start <= o /\ o < ranges[j + 1].stop
              BY <1>1, <2>1, <2>4, <3>1, <3>5, <4>2, SMTT(30)
        <5>2. j + 1 \in (j + 1)..r.last
              BY <3>4, <3>5
        <5>3. o \in Offset
              BY <3>4, <3>5, MaxOffsetAssumption, SMTT(30) DEF Offset
        <5>4. QED BY <5>1, <5>2, <5>3 DEF Held
      <4>3. CASE next <= o
        <5>1. o \in next..(r.stop - 1)
              BY <3>5, <4>3
        <5>2. o \in Held(ranges, j + 1 + 1, r.last)
              BY <3>4, <5>1
        <5>3. \A k \in (j + 1 + 1)..r.last : k \in (j + 1)..r.last
              BY <3>5
        <5>4. QED BY <5>2, <5>3 DEF Held
      <4>4. QED BY <3>5, <4>2, <4>3
    <3>8. r.last \in j..n
          BY <1>1, <3>4, <3>5
    <3>9. end <= r.stop
          BY <3>1, <3>4, <3>5
    <3>10. QED BY <3>2, <3>4, <3>6, <3>7, <3>8, <3>9 DEF Merged
  <2>5. QED BY <2>3, <2>4
<1>14. n - i \in Done
  <2> DEFINE N == n - 1
  <2>1. N \in Nat /\ n - i \in 0..N /\ N - 1 = n - 2
        BY <1>1
  <2>2. \A d \in 0..(N - 1) : d \in Done => d + 1 \in Done
    <3> HIDE DEF Done
    <3>1. 0..(N - 1) = 0..(n - 2)
          BY <2>1
    <3> HIDE DEF N
    <3>2. QED BY <1>13, <3>1
  <2> HIDE DEF Done, N
  <2>3. QED BY <1>12, <2>1, <2>2, InductionUpTo
<1>15. QED
  <2>1. n - (n - i) = i
        BY <1>1
  <2> HIDE DEF Is
  <2>2. QED BY <1>9, <1>14, <2>1

\* What is held by the items from l to n is held by those from l to m or by those after.
LEMMA HeldParts ==
    ASSUME NEW q, NEW l \in Int, NEW m \in Int, NEW n \in Int, l <= m + 1, m <= n
    PROVE  Held(q, l, n) = Held(q, l, m) \cup Held(q, m + 1, n)
<1>1. \A i \in l..n : i \in l..m \/ i \in (m + 1)..n
      OBVIOUS
<1>2. (\A i \in l..m : i \in l..n) /\ (\A i \in (m + 1)..n : i \in l..n)
      OBVIOUS
<1>3. QED BY <1>1, <1>2 DEF Held

\* Of two ranges of a list, the later one starts no earlier.
LEMMA LaterStarts ==
    ASSUME NEW q \in Lists, NEW i \in 1..Len(q), NEW j \in i..Len(q)
    PROVE  q[i].start <= q[j].start
<1>1. j \in 1..Len(q) /\ (i = j \/ i < j)
      BY ListFacts
<1>2. CASE i < j
  <2>1. q[i].stop < q[j].start /\ q[i].start < q[i].stop
        BY <1>1, <1>2, ListFacts
  <2>2. QED BY <1>1, <2>1, ListFacts
<1>3. QED BY <1>1, <1>2, ListFacts

\* What one item of a list holds.
LEMMA OneHeld ==
    ASSUME NEW q \in Lists, NEW i \in 1..Len(q)
    PROVE  Held(q, i, i) = q[i].start..(q[i].stop - 1)
<1> DEFINE r == q[i]
<1>1. i \in Int /\ r.start \in Offset /\ r.stop \in Offset
      BY ListFacts
<1>2. \A j \in i..i : j = i
      BY <1>1
<1>3. i \in i..i
      BY <1>1
<1>4. Held(q, i, i) = {o \in Offset : r.start <= o /\ o < r.stop}
      BY <1>2, <1>3 DEF Held
<1> HIDE DEF r
<1>5. {o \in Offset : r.start <= o /\ o < r.stop} = r.start..(r.stop - 1)
      BY <1>1, MaxOffsetAssumption DEF Offset
<1>6. QED BY <1>4, <1>5 DEF r

\* The set that a list stands for.
LEMMA MembersOfList ==
    ASSUME NEW q \in Lists
    PROVE  {o \in Offset : \E i \in DOMAIN q : q[i].start <= o /\ o < q[i].stop}
           = Held(q, 1, Len(q))
BY ListFacts DEF Held

\* add() adds what it is given to the set that the list stands for, and keeps it a list.
LEMMA AddAdds ==
    ASSUME RangesSorted, NEW start \in Offset, NEW stop \in Offset, Add(start, stop)
    PROVE  /\ RangesSorted'
           /\ Members' = Members \cup start..(stop - 1)
<1> DEFINE n == Len(ranges)
           i == FirstNotBefore(start)
           Result(p, r, t) == SubSeq(ranges, 1, p) \o <<r>> \o SubSeq(ranges, t, n)
<1>1. /\ n \in Nat /\ ranges \in Seq(Spans) /\ ranges \in Lists
      /\ \A j \in 1..n : /\ ranges[j].start \in Nat /\ ranges[j].stop \in Nat
                         /\ ranges[j].start \in Offset /\ ranges[j].stop \in Offset
                         /\ ranges[j].start < ranges[j].stop
      /\ \A j, k \in 1..n : j < k => ranges[j].stop < ranges[k].start
      BY ListFacts DEF RangesSorted
<1>2. /\ i \in 1..(n + 1)
      /\ \A j \in 1..(i - 1) : start > ranges[j].stop
      /\ i <= n => start <= ranges[i].stop
      BY FirstNotBeforeFound
<1>3. start \in Nat /\ stop \in Nat /\ start < stop
      BY MaxOffsetAssumption DEF Add, Offset
<1> HIDE DEF i
<1>4. ASSUME NEW k \in (i - 1)..n, NEW r \in Spans,
             \A j \in 1..(i - 1) : ranges[j].stop < r.start,
             \A j \in (k + 1)..n : r.stop < ranges[j].start,
             Held(ranges, i, k) \subseteq r.start..(r.stop - 1),
             start..(stop - 1) \subseteq r.start..(r.stop - 1),
             r.start..(r.stop - 1) \subseteq start..(stop - 1) \cup Held(ranges, i, k),
             ranges' = Result(i - 1, r, k + 1)
      PROVE  RangesSorted' /\ Members' = Members \cup start..(stop - 1)
  <2>1. /\ ranges' \in Lists
        /\ Held(ranges', 1, Len(ranges')) = Held(ranges, 1, i - 1) \cup r.start..(r.stop - 1)
                                            \cup Held(ranges, k + 1, n)
        BY <1>1, <1>2, <1>4, RangePlaced
  <2>2. /\ Held(ranges, 1, n) = Held(ranges, 1, i - 1) \cup Held(ranges, i, n)
        /\ Held(ranges, i, n) = Held(ranges, i, k) \cup Held(ranges, k + 1, n)
    <3>1. /\ i - 1 \in Int /\ 1 <= (i - 1) + 1 /\ i - 1 <= n /\ (i - 1) + 1 = i
          /\ i \in Int /\ k \in Int /\ n \in Int /\ i <= k + 1 /\ k <= n
          BY <1>1, <1>2
    <3>2. QED BY <3>1, HeldParts
  <2>3. Members = Held(ranges, 1, n) /\ Members' = Held(ranges', 1, Len(ranges'))
        BY <1>1, <2>1, MembersOfList DEF Members, Holds
  <2>4. QED BY <1>4, <2>1, <2>2, <2>3 DEF RangesSorted
<1>5. Span(start, stop) \in Spans /\ Span(start, stop).start = start
      /\ Span(start, stop).stop = stop
      BY <1>3, SpanType
<1>6. CASE i > n /\ ranges' = Append(ranges, Span(start, stop))
  <2> DEFINE r == Span(start, stop)
  <2>1. i = n + 1 /\ n \in (i - 1)..n
        BY <1>1, <1>2, <1>6
  <2>2. ranges' = Result(i - 1, r, n + 1)
    <3>1. SubSeq(ranges, 1, n) = ranges /\ SubSeq(ranges, n + 1, n) = << >>
          BY <1>1, SubSeqFull, SubSeqEmpty
    <3>2. Append(ranges, r) = ranges \o <<r>> /\ ranges \o <<r>> \in Seq(Spans)
          BY <1>1, <1>5, AppendIsConcat, AppendProperties
    <3>3. (ranges \o <<r>>) \o << >> = ranges \o <<r>>
          BY <3>2, ConcatEmptySeq
    <3>4. i - 1 = n
          BY <1>1, <2>1
    <3> HIDE DEF r
    <3>5. QED BY <1>6, <3>1, <3>2, <3>3, <3>4 DEF r
  <2>3. Held(ranges, i, n) = {}
        BY <1>1, <2>1 DEF Held
  <2>4. \A j \in (n + 1)..n : FALSE
        BY <1>1
  <2> HIDE DEF r, Result
  <2>5. QED BY <1>2, <1>3, <1>4, <1>5, <2>1, <2>2, <2>3, <2>4 DEF r
<1>7. CASE /\ i <= n /\ stop < ranges[i].start
           /\ ranges' = InsertAt(ranges, i, Span(start, stop))
  <2>1. i - 1 \in (i - 1)..n /\ i \in 1..n /\ (i - 1) + 1 = i
        BY <1>1, <1>2, <1>7
  <2>2. ranges' = Result(i - 1, Span(start, stop), (i - 1) + 1)
        BY <1>7, <2>1 DEF InsertAt
  <2>3. Held(ranges, i, i - 1) = {}
        BY <2>1 DEF Held
  <2>4. ASSUME NEW j \in i..n PROVE stop < ranges[j].start
    <3>1. j \in 1..n /\ (j = i \/ i < j)
          BY <1>1, <2>1
    <3>2. ranges[i].start <= ranges[j].start
          BY <1>1, <2>1, <3>1, LaterStarts
    <3>3. stop < ranges[i].start
          BY <1>7
    <3>4. /\ stop \in Nat /\ ranges[i].start \in Nat /\ ranges[j].start \in Nat
          BY <1>1, <1>3, <2>1, <3>1
    <3>5. \A x, y, z \in Nat : x < y /\ y <= z => x < z
          OBVIOUS
    <3>6. QED BY <3>2, <3>3, <3>4, <3>5
  <2> HIDE DEF Result
  <2>5. QED BY <1>2, <1>3, <1>4, <1>5, <2>1, <2>2, <2>3, <2>4
<1>8. CASE /\ i <= n /\ stop >= ranges[i].start
           /\ LET low == IF start < ranges[i].start THEN start ELSE ranges[i].start
                  merged == Absorb(i, Larger(stop, ranges[i].stop))
              IN  ranges' = SubSeq(ranges, 1, i - 1)
                            \o <<Span(low, merged.stop)>>
                            \o SubSeq(ranges, merged.last + 1, Len(ranges))
  <2> DEFINE low == IF start < ranges[i].start THEN start ELSE ranges[i].start
             high == Larger(stop, ranges[i].stop)
             merged == Absorb(i, high)
  <2>1. ranges' = Result(i - 1, Span(low, merged.stop), merged.last + 1)
        BY <1>8
  <2>2. i \in 1..n
        BY <1>1, <1>2, <1>8
  <2>3. high \in Offset /\ stop <= high /\ ranges[i].stop <= high
        /\ (high = stop \/ high = ranges[i].stop)
        BY <1>1, <1>3, <2>2 DEF Larger
  <2>4. low \in Offset /\ low <= start /\ low <= ranges[i].start
        /\ (low = start \/ low = ranges[i].start)
        BY <1>1, <1>3, <2>2
  <2> HIDE DEF low, high
  <2>5. Merged(i, high, merged)
        BY <2>2, <2>3, AbsorbMerges
  <2> HIDE DEF merged
  <2> DEFINE k == merged.last
             r == Span(low, merged.stop)
  <2>6. /\ k \in i..n
        /\ merged.stop \in Offset
        /\ high <= merged.stop
        /\ \A j \in (i + 1)..k : ranges[j].stop <= merged.stop
        /\ high..(merged.stop - 1) \subseteq Held(ranges, i + 1, k)
        /\ k < n => merged.stop < ranges[k + 1].start
        BY <2>5 DEF Merged
  <2>7. low \in Nat /\ high \in Nat /\ merged.stop \in Nat
        BY <2>3, <2>4, <2>6, MaxOffsetAssumption DEF Offset
  <2>8. low < merged.stop
        BY <1>1, <1>3, <2>2, <2>3, <2>4, <2>6, <2>7
  <2>9. r \in Spans /\ r.start = low /\ r.stop = merged.stop
        BY <2>4, <2>6, <2>8, SpanType
  <2> HIDE DEF r, k
  <2>10. k \in (i - 1)..n
         BY <1>1, <2>2, <2>6
  <2>11. \A j \in 1..(i - 1) : ranges[j].stop < r.start
    <3>1. SUFFICES ASSUME NEW j \in 1..(i - 1) PROVE ranges[j].stop < low
          BY <2>9
    <3>2. j \in 1..n /\ j < i
          BY <1>1, <2>2
    <3>3. ranges[j].stop < start /\ ranges[j].stop < ranges[i].start
          BY <1>1, <1>2, <1>3, <2>2, <3>2
    <3>4. QED BY <2>4, <3>3
  <2>12. \A j \in (k + 1)..n : r.stop < ranges[j].start
    <3>1. SUFFICES ASSUME NEW j \in (k + 1)..n PROVE r.stop < ranges[j].start
          OBVIOUS
    <3>2. k + 1 \in 1..n /\ j \in 1..n /\ k < n
          BY <1>1, <2>2, <2>6
    <3>3. merged.stop < ranges[k + 1].start
          BY <2>6, <3>2
    <3>4. ranges[k + 1].start <= ranges[j].start
          BY <1>1, <3>2
    <3>5. QED BY <1>1, <2>7, <2>9, <3>2, <3>3, <3>4
  <2>13. Held(ranges, i, k) \subseteq r.start..(r.stop - 1)
    <3>1. SUFFICES ASSUME NEW o \in Held(ranges, i, k) PROVE o \in r.start..(r.stop - 1)
          OBVIOUS
    <3>2. PICK j \in i..k : ranges[j].start <= o /\ o < ranges[j].stop
          BY DEF Held
    <3>3. j \in 1..n /\ (j = i \/ j \in (i + 1)..k)
          BY <1>1, <2>2, <2>6
    <3>4. ranges[j].stop <= merged.stop /\ ranges[i].start <= ranges[j].start
      <4>1. ranges[j].stop <= merged.stop
        <5>1. CASE j = i
              BY <1>1, <2>2, <2>3, <2>6, <2>7, <5>1
        <5>2. CASE j \in (i + 1)..k
              BY <2>6, <5>2
        <5>3. QED BY <3>3, <5>1, <5>2
      <4>2. QED BY <2>2, <3>2, <3>3, <4>1, LaterStarts, <1>1
    <3>5. o \in Nat
          BY MaxOffsetAssumption DEF Held, Offset
    <3>6. low <= o /\ o < merged.stop
      <4>1. /\ ranges[j].start \in Nat /\ ranges[j].stop \in Nat /\ ranges[i].start \in Nat
            BY <1>1, <2>2, <3>3
      <4>2. ranges[i].start <= o
            BY <3>2, <3>4, <3>5, <4>1
      <4>3. QED BY <2>4, <2>7, <3>2, <3>4, <3>5, <4>1, <4>2
    <3>7. QED BY <2>7, <2>9, <3>5, <3>6
  <2>14. start..(stop - 1) \subseteq r.start..(r.stop - 1)
         BY <1>3, <2>3, <2>4, <2>6, <2>7, <2>9
  <2>15. r.start..(r.stop - 1) \subseteq start..(stop - 1) \cup Held(ranges, i, k)
    <3>1. SUFFICES ASSUME NEW o \in low..(merged.stop - 1)
                   PROVE  o \in start..(stop - 1) \cup Held(ranges, i, k)
          BY <2>9
    <3>2. o \in Offset
          BY <2>6, <2>7, MaxOffsetAssumption DEF Offset
    <3>3. i \in i..k
          BY <2>2, <2>6
    <3>4. CASE o >= high
      <4>1. o \in Held(ranges, i + 1, k)
            BY <2>6, <2>7, <3>4
      <4>2. \A j \in (i + 1)..k : j \in i..k
            BY <2>2, <2>6
      <4>3. QED BY <4>1, <4>2 DEF Held
    <3>5. CASE o < high /\ ranges[i].start <= o /\ o < ranges[i].stop
          BY <3>2, <3>3, <3>5 DEF Held
    <3>6. CASE o < high /\ ~(ranges[i].start <= o /\ o < ranges[i].stop)
      <4>1. o \in Nat /\ low <= o /\ ranges[i].start \in Nat /\ ranges[i].stop \in Nat
        <5>1. o \in Nat
              BY <3>2, MaxOffsetAssumption DEF Offset
        <5>2. low <= o
              BY <2>7, <3>1
        <5>3. QED BY <1>1, <2>2, <5>1, <5>2
      <4>2. start <= ranges[i].stop /\ ranges[i].start <= stop
            BY <1>1, <1>2, <1>3, <1>8, <2>2
      <4>3. start <= o /\ o < stop
            BY <1>3, <2>3, <2>4, <2>7, <3>6, <4>1, <4>2
      <4>4. QED BY <1>3, <4>1, <4>3
    <3>7. QED BY <2>7, <3>4, <3>5, <3>6
  <2> HIDE DEF Result
  <2>16. QED BY <1>4, <2>1, <2>9, <2>10, <2>11, <2>12, <2>13, <2>14, <2>15 DEF r, k
<1>9. QED BY <1>6, <1>7, <1>8 DEF Add, i

-----------------------------------------------------------------------------
(* subtract() and shift()                                                  *)

\* What subtract() leaves of one range is a list within the range, which holds what the
\* range held and the removed range did not.
LEMMA RemainderLeft ==
    ASSUME NEW r \in Spans, NEW start \in Offset, NEW stop \in Offset,
           start < stop, start < r.stop, r.start < stop
    PROVE  LET q == Remainder(r, start, stop)
           IN  /\ q \in Lists
               /\ Held(q, 1, Len(q)) = (r.start..(r.stop - 1)) \ (start..(stop - 1))
               /\ \A k \in 1..Len(q) : r.start <= q[k].start /\ q[k].stop <= r.stop
<1> DEFINE q == Remainder(r, start, stop)
           low == Span(r.start, start)
           high == Span(stop, r.stop)
<1>1. /\ r.start \in Nat /\ r.stop \in Nat /\ start \in Nat /\ stop \in Nat
      /\ r.start \in Offset /\ r.stop \in Offset /\ r.start < r.stop
      BY MaxOffsetAssumption DEF Spans, Offset
<1>2. start > r.start => low \in Spans /\ low.start = r.start /\ low.stop = start
      BY <1>1, SpanType
<1>3. stop < r.stop => high \in Spans /\ high.start = stop /\ high.stop = r.stop
      BY <1>1, SpanType
<1> HIDE DEF low, high
<1>4. CASE start <= r.start /\ stop >= r.stop
  <2>1. q = << >>
        BY <1>4 DEF Remainder
  <2>2. (r.start..(r.stop - 1)) \ (start..(stop - 1)) = {}
        BY <1>1, <1>4
  <2>3. \A k \in 1..0 : FALSE
        OBVIOUS
  <2>4. QED BY <2>1, <2>2, <2>3, NoRange
<1>5. CASE start > r.start /\ stop >= r.stop
  <2>1. q = <<low>> \o << >>
    <3>1. ~(start <= r.start) /\ ~(stop < r.stop)
          BY <1>1, <1>5
    <3>2. QED BY <1>5, <3>1 DEF Remainder, low
  <2>2. /\ <<low>> \in Lists /\ Len(<<low>>) = 1 /\ \A k \in 1..1 : <<low>>[k] = low
        /\ Held(<<low>>, 1, 1) = low.start..(low.stop - 1)
        BY <1>2, <1>5, OneRange
  <2>3. q = <<low>>
        BY <2>1, <2>2, ConcatEmptySeq, ListFacts
  <2>4. (r.start..(r.stop - 1)) \ (start..(stop - 1)) = r.start..(start - 1)
        BY <1>1, <1>5
  <2> HIDE DEF q
  <2>5. QED BY <1>1, <1>2, <1>5, <2>2, <2>3, <2>4 DEF q
<1>6. CASE start > r.start /\ stop < r.stop
  <2>1. q = <<low>> \o <<high>>
    <3>1. ~(start <= r.start)
          BY <1>1, <1>6
    <3>2. QED BY <1>6, <3>1 DEF Remainder, low, high
  <2>2. /\ <<low>> \in Lists /\ Len(<<low>>) = 1 /\ \A k \in 1..1 : <<low>>[k] = low
        /\ Held(<<low>>, 1, 1) = low.start..(low.stop - 1)
        BY <1>2, <1>6, OneRange
  <2>3. /\ <<high>> \in Lists /\ Len(<<high>>) = 1 /\ \A k \in 1..1 : <<high>>[k] = high
        /\ Held(<<high>>, 1, 1) = high.start..(high.stop - 1)
        BY <1>3, <1>6, OneRange
  <2> HIDE DEF q
  <2>4. \A i \in 1..Len(<<low>>), j \in 1..Len(<<high>>) : <<low>>[i].stop < <<high>>[j].start
        BY <1>2, <1>3, <1>6, <2>2, <2>3
  <2>5. /\ q \in Lists
        /\ \A k \in 1..Len(q) : \/ \E i \in 1..Len(<<low>>) : q[k] = <<low>>[i]
                                \/ \E j \in 1..Len(<<high>>) : q[k] = <<high>>[j]
        /\ Held(q, 1, Len(q)) = Held(<<low>>, 1, Len(<<low>>))
                                \cup Held(<<high>>, 1, Len(<<high>>))
    <3> DEFINE a == <<low>>
               c == <<high>>
    <3>1. a \in Lists /\ c \in Lists /\ q = a \o c
          BY <2>1, <2>2, <2>3
    <3>2. \A i \in 1..Len(a), j \in 1..Len(c) : a[i].stop < c[j].start
          BY <2>4
    <3> HIDE DEF a, c
    <3>3. /\ q \in Lists
          /\ \A k \in 1..Len(q) : \/ \E i \in 1..Len(a) : q[k] = a[i]
                                  \/ \E j \in 1..Len(c) : q[k] = c[j]
          /\ Held(q, 1, Len(q)) = Held(a, 1, Len(a)) \cup Held(c, 1, Len(c))
          BY <3>1, <3>2, JoinedLists
    <3>4. QED BY <3>3 DEF a, c
  <2>6. (r.start..(r.stop - 1)) \ (start..(stop - 1))
        = r.start..(start - 1) \cup stop..(r.stop - 1)
        BY <1>1, <1>6
  <2>7. \A k \in 1..Len(q) : q[k] = low \/ q[k] = high
        BY <2>2, <2>3, <2>5
  <2>8. \A k \in 1..Len(q) : r.start <= q[k].start /\ q[k].stop <= r.stop
        BY <1>1, <1>2, <1>3, <1>6, <2>7
  <2>9. QED BY <1>2, <1>3, <1>6, <2>2, <2>3, <2>5, <2>6, <2>8 DEF q
<1>7. CASE start <= r.start /\ stop < r.stop
  <2>1. q = <<high>>
        BY <1>1, <1>7 DEF Remainder, high
  <2>2. /\ <<high>> \in Lists /\ Len(<<high>>) = 1 /\ \A k \in 1..1 : <<high>>[k] = high
        /\ Held(<<high>>, 1, 1) = high.start..(high.stop - 1)
        BY <1>3, <1>7, OneRange
  <2>3. (r.start..(r.stop - 1)) \ (start..(stop - 1)) = stop..(r.stop - 1)
        BY <1>1, <1>7
  <2> HIDE DEF q
  <2>4. QED BY <1>1, <1>3, <1>7, <2>1, <2>2, <2>3 DEF q
<1>8. QED BY <1>1, <1>4, <1>5, <1>6, <1>7

\* What subtract() makes of the items from i on: a list that starts no earlier and holds
\* what they held and the removed range did not.
Left(i, start, stop, q) ==
    /\ q \in Lists
    /\ Held(q, 1, Len(q)) = Held(ranges, i, Len(ranges)) \ (start..(stop - 1))
    /\ \A k \in 1..Len(q) : i <= Len(ranges) /\ ranges[i].start <= q[k].start

\* The items from i on, when the removed range lies before them.
LEMMA RestIsKept ==
    ASSUME RangesSorted, NEW start \in Offset, NEW stop \in Offset,
           NEW i \in 1..Len(ranges), stop <= ranges[i].start
    PROVE  Left(i, start, stop, SubSeq(ranges, i, Len(ranges)))
<1> DEFINE n == Len(ranges)
           q == SubSeq(ranges, i, n)
<1>1. ranges \in Lists /\ n \in Nat /\ i \in 1..(n + 1) /\ n \in 0..n
      /\ stop \in Nat
      BY ListFacts, MaxOffsetAssumption DEF RangesSorted, Offset
<1>2. /\ q \in Lists
      /\ \A k \in 1..Len(q) : i + k - 1 \in i..n /\ q[k] = ranges[i + k - 1]
      /\ Held(q, 1, Len(q)) = Held(ranges, i, n)
      BY <1>1, PartOfList
<1>3. \A j \in i..n : ranges[i].start <= ranges[j].start
      BY <1>1, LaterStarts
<1>4. \A o \in Held(ranges, i, n) : o \notin start..(stop - 1)
  <2>1. SUFFICES ASSUME NEW o \in Held(ranges, i, n) PROVE ~(o < stop)
        BY <1>1, MaxOffsetAssumption DEF Held, Offset
  <2>2. PICK j \in i..n : ranges[j].start <= o
        BY DEF Held
  <2>3. o \in Nat /\ ranges[j].start \in Nat /\ ranges[i].start \in Nat
        BY <1>1, ListFacts, MaxOffsetAssumption DEF Held, Offset
  <2>4. QED BY <1>1, <1>3, <2>2, <2>3
<1> HIDE DEF q
<1>5. QED BY <1>1, <1>2, <1>3, <1>4, SMTT(30) DEF Left, q

\* One turn of the loop, when what it makes of the items after i is known.
LEMMA OneSubtracted ==
    ASSUME RangesSorted, NEW start \in Offset, NEW stop \in Offset, start < stop,
           NEW i \in 1..Len(ranges), ranges[i].start < stop,
           NEW rest, Left(i + 1, start, stop, rest)
    PROVE  Left(i, start, stop,
                (IF start >= ranges[i].stop THEN <<ranges[i]>>
                 ELSE Remainder(ranges[i], start, stop)) \o rest)
<1> DEFINE n == Len(ranges)
           r == ranges[i]
           q == IF start >= r.stop THEN <<r>> ELSE Remainder(r, start, stop)
<1>1. /\ ranges \in Lists /\ n \in Nat
      /\ r \in Spans /\ r.start \in Nat /\ r.stop \in Nat /\ r.start < r.stop
      /\ start \in Nat /\ stop \in Nat
      BY ListFacts, MaxOffsetAssumption DEF RangesSorted, Offset
<1>2. /\ rest \in Lists
      /\ Held(rest, 1, Len(rest)) = Held(ranges, i + 1, n) \ (start..(stop - 1))
      /\ \A k \in 1..Len(rest) : i + 1 <= n /\ ranges[i + 1].start <= rest[k].start
      BY DEF Left
<1>0. ASSUME NEW k \in 1..Len(rest)
      PROVE  r.stop < rest[k].start /\ rest[k].start \in Nat
  <2>1. i + 1 \in 1..n /\ i < i + 1 /\ ranges[i + 1].start <= rest[k].start
        BY <1>1, <1>2
  <2>2. r.stop < ranges[i + 1].start /\ ranges[i + 1].start \in Nat
        BY <1>1, <2>1, ListFacts
  <2>3. rest[k].start \in Nat
        BY <1>2, ListFacts
  <2> HIDE DEF r
  <2>4. \A x, y, z \in Nat : x < y /\ y <= z => x < z
        OBVIOUS
  <2>5. QED BY <1>1, <2>1, <2>2, <2>3, <2>4
<1>3. /\ q \in Lists
      /\ Held(q, 1, Len(q)) = (r.start..(r.stop - 1)) \ (start..(stop - 1))
      /\ \A k \in 1..Len(q) : r.start <= q[k].start /\ q[k].stop <= r.stop
  <2>1. CASE start >= r.stop
    <3>1. (r.start..(r.stop - 1)) \ (start..(stop - 1)) = r.start..(r.stop - 1)
      <4> HIDE DEF r
      <4>1. \A o \in r.start..(r.stop - 1) : o \notin start..(stop - 1)
            BY <1>1, <2>1
      <4>2. QED BY <4>1
    <3>2. q = <<r>>
          BY <2>1
    <3> HIDE DEF q, r
    <3>3. QED BY <1>1, <3>1, <3>2, OneRange, SMTT(30)
  <2>2. CASE ~(start >= r.stop)
    <3>1. q = Remainder(r, start, stop) /\ start < r.stop
          BY <1>1, <2>2
    <3> HIDE DEF q
    <3>2. QED BY <1>1, <3>1, RemainderLeft
  <2>3. QED BY <2>1, <2>2
<1> HIDE DEF q
<1>4. Held(ranges, i, n) = (r.start..(r.stop - 1)) \cup Held(ranges, i + 1, n)
  <2>1. Held(ranges, i, i) = r.start..(r.stop - 1)
        BY <1>1, OneHeld
  <2>2. Held(ranges, i, n) = Held(ranges, i, i) \cup Held(ranges, i + 1, n)
        BY <1>1, HeldParts
  <2>3. QED BY <2>1, <2>2
<1>5. ASSUME NEW j \in 1..Len(q), NEW k \in 1..Len(rest)
      PROVE  q[j].stop < rest[k].start
  <2>1. r.stop < rest[k].start /\ rest[k].start \in Nat
        BY <1>0
  <2>2. q[j].stop \in Nat /\ q[j].stop <= r.stop
        BY <1>3, ListFacts
  <2> HIDE DEF r
  <2>3. \A x, y, z \in Nat : x <= y /\ y < z => x < z
        OBVIOUS
  <2>4. QED BY <1>1, <2>1, <2>2, <2>3
<1>6. /\ q \o rest \in Lists
      /\ \A k \in 1..Len(q \o rest) : \/ \E l \in 1..Len(q) : (q \o rest)[k] = q[l]
                                      \/ \E l \in 1..Len(rest) : (q \o rest)[k] = rest[l]
      /\ Held(q \o rest, 1, Len(q \o rest)) = Held(q, 1, Len(q)) \cup Held(rest, 1, Len(rest))
      BY <1>2, <1>3, <1>5, JoinedLists
<1>7. \A l \in 1..Len(rest) : r.start <= rest[l].start
  <2> SUFFICES ASSUME NEW l \in 1..Len(rest) PROVE r.start <= rest[l].start
      OBVIOUS
  <2>1. r.stop < rest[l].start /\ rest[l].start \in Nat
        BY <1>0
  <2> HIDE DEF r
  <2>2. QED BY <1>1, <2>1
<1> HIDE DEF r
<1>8. Left(i, start, stop, q \o rest)
      BY <1>2, <1>3, <1>4, <1>6, <1>7 DEF Left, r
<1>9. QED BY <1>8 DEF q, r

\* The loop of subtract() does that with the whole list.
LEMMA SubtractFromLeaves ==
    ASSUME RangesSorted, NEW start \in Offset, NEW stop \in Offset, start < stop
    PROVE  Left(1, start, stop, SubtractFrom(start, stop))
<1> DEFINE n == Len(ranges)
           V == Seq(Spans)
           Turn(i, g) == IF i > n THEN << >>
                         ELSE IF stop <= ranges[i].start THEN SubSeq(ranges, i, n)
                         ELSE (IF start >= ranges[i].stop THEN <<ranges[i]>>
                               ELSE Remainder(ranges[i], start, stop)) \o g
           Good(i) == {q \in V : Left(i, start, stop, q)}
           Is(f) == f = [i \in 1..(n + 1) |-> Turn(i, f[i + 1])]
<1>1. /\ n \in Nat /\ n + 1 \in 1..(n + 1)
      /\ ranges \in Lists /\ start \in Nat /\ stop \in Nat
      /\ \A i \in 1..n : ranges[i].start \in Nat /\ ranges[i].stop \in Nat
      BY ListFacts, MaxOffsetAssumption DEF RangesSorted, Offset
<1>2. ASSUME NEW g PROVE Left(n + 1, start, stop, Turn(n + 1, g))
  <2>1. Turn(n + 1, g) = << >>
        BY <1>1
  <2>2. \A k \in 1..0 : FALSE
        OBVIOUS
  <2>3. Held(ranges, n + 1, n) = {}
        BY <1>1 DEF Held
  <2> HIDE DEF Turn, n
  <2>4. QED BY <2>1, <2>2, <2>3, NoRange DEF Left, n
<1>3. ASSUME NEW i \in 1..n, NEW g, Left(i + 1, start, stop, g)
      PROVE  Left(i, start, stop, Turn(i, g))
  <2>1. CASE stop <= ranges[i].start
    <3>1. Turn(i, g) = SubSeq(ranges, i, n)
          BY <1>1, <2>1
    <3> HIDE DEF Turn
    <3>2. QED BY <2>1, <3>1, RestIsKept
  <2>2. CASE ~(stop <= ranges[i].start)
    <3>1. Turn(i, g) = (IF start >= ranges[i].stop THEN <<ranges[i]>>
                        ELSE Remainder(ranges[i], start, stop)) \o g
      <4>1. ~(i > n)
            BY <1>1
      <4>2. QED BY <2>2, <4>1
    <3>2. ranges[i].start < stop
          BY <1>1, <2>2
    <3> HIDE DEF Turn
    <3>3. QED BY <1>3, <3>1, <3>2, OneSubtracted
  <2>3. QED BY <2>1, <2>2
<1> DEFINE step == [p \in (1..n) \X V |-> Turn(n + 1 - p[1], p[2])]
           b == << >>
<1>4. b \in V
      BY EmptySeq
<1>5. ASSUME NEW i \in 1..n, NEW g \in V PROVE Turn(i, g) \in V
  <2>1. ranges[i] \in Spans /\ ~(i > n)
        BY <1>1, ListFacts
  <2>2. CASE stop <= ranges[i].start
    <3>1. SubSeq(ranges, i, n) \in V
          BY <2>2, RestIsKept DEF Left, Lists
    <3>2. QED BY <2>1, <2>2, <3>1
  <2>3. CASE ~(stop <= ranges[i].start)
    <3> DEFINE q == IF start >= ranges[i].stop THEN <<ranges[i]>>
                    ELSE Remainder(ranges[i], start, stop)
    <3>1. q \in V
      <4>1. CASE start >= ranges[i].stop
        <5>1. <<ranges[i]>> \in V
              BY <2>1, OneRange DEF Lists
        <5>2. QED BY <4>1, <5>1
      <4>2. CASE ~(start >= ranges[i].stop)
        <5>1. start < ranges[i].stop /\ ranges[i].start < stop
          <6>1. ranges[i].start \in Nat /\ ranges[i].stop \in Nat
                BY <1>1
          <6>2. \A x, y \in Nat : ~(x >= y) => x < y
                OBVIOUS
          <6>3. \A x, y \in Nat : ~(x <= y) => y < x
                OBVIOUS
          <6>4. QED BY <1>1, <2>3, <4>2, <6>1, <6>2, <6>3
        <5>2. Remainder(ranges[i], start, stop) \in V
              BY <2>1, <5>1, RemainderLeft DEF Lists
        <5>3. QED BY <4>2, <5>2
      <4>3. QED BY <4>1, <4>2
    <3>2. Turn(i, g) = q \o g
          BY <2>1, <2>3
    <3> HIDE DEF q, Turn
    <3>3. QED BY <3>1, <3>2, ConcatProperties
  <2>4. QED BY <2>2, <2>3
<1>6. step \in [(1..n) \X V -> V]
  <2>1. \A p \in (1..n) \X V : n + 1 - p[1] \in 1..n /\ p[2] \in V
        BY <1>1
  <2> HIDE DEF V, Turn
  <2>2. QED BY <1>5, <2>1
<1>7. PICK h \in [0..n -> V] : h[0] = b /\ \A d \in 1..n : h[d] = step[<<d, h[d - 1]>>]
  <2> HIDE DEF V, b, step, n
  <2>1. Walks(n, V, b, step) # {}
        BY <1>1, <1>4, <1>6, StepsExist
  <2>2. QED BY <2>1 DEF Walks
<1>8. ASSUME NEW d \in 1..n PROVE h[d] = Turn(n + 1 - d, h[d - 1])
  <2>1. h[d - 1] \in V
    <3>1. d - 1 \in 0..n
          BY <1>1
    <3> HIDE DEF V
    <3>2. QED BY <1>7, <3>1
  <2> HIDE DEF V, Turn
  <2>2. step[<<d, h[d - 1]>>] = Turn(n + 1 - d, h[d - 1])
        BY <2>1
  <2>3. QED BY <1>7, <2>2
<1> DEFINE f == [i \in 1..(n + 1) |-> h[n + 1 - i]]
<1>9. Is(f)
  <2>1. SUFFICES ASSUME NEW i \in 1..(n + 1) PROVE h[n + 1 - i] = Turn(i, f[i + 1])
    <3> HIDE DEF Turn
    <3>1. QED OBVIOUS
  <2>2. CASE i = n + 1
    <3>1. h[n + 1 - i] = << >>
          BY <1>1, <1>7, <2>2
    <3>2. Turn(i, f[i + 1]) = << >>
          BY <1>1, <2>2
    <3>3. QED BY <3>1, <3>2
  <2>3. CASE i # n + 1
    <3>1. /\ n + 1 - i \in 1..n /\ n + 1 - (n + 1 - i) = i /\ i + 1 \in 1..(n + 1)
          /\ n + 1 - (i + 1) = (n + 1 - i) - 1
      <4>1. n \in Nat
            BY <1>1
      <4> HIDE DEF n
      <4>2. QED BY <2>3, <4>1
    <3>2. f[i + 1] = h[(n + 1 - i) - 1]
          BY <3>1
    <3> HIDE DEF Turn, f
    <3>3. QED BY <1>8, <3>1, <3>2
  <2>4. QED BY <2>2, <2>3
<1>10. PICK from : Is(from) /\ SubtractFrom(start, stop) = from[1]
  <2>1. SubtractFrom(start, stop) = (CHOOSE g : Is(g))[1]
        BY DEF SubtractFrom
  <2> HIDE DEF Is, f
  <2>2. QED BY <1>9, <2>1
<1>11. ASSUME NEW i \in 1..(n + 1) PROVE from[i] = Turn(i, from[i + 1])
  <2> HIDE DEF Turn
  <2>1. QED BY <1>10
<1> DEFINE Done == {d \in 0..n : Left(n + 1 - d, start, stop, from[n + 1 - d])}
<1> HIDE DEF Is, Turn
<1>12. 0 \in Done
  <2>1. n + 1 - 0 = n + 1 /\ 0 \in 0..n
        BY <1>1
  <2>2. QED BY <1>1, <1>2, <1>11, <2>1
<1>13. ASSUME NEW d \in 0..(n - 1), d \in Done PROVE d + 1 \in Done
  <2>1. /\ n + 1 - (d + 1) \in 1..n /\ n + 1 - (d + 1) \in 1..(n + 1)
        /\ n + 1 - (d + 1) + 1 = n + 1 - d /\ d + 1 \in 0..n
        BY <1>1
  <2>2. Left(n + 1 - d, start, stop, from[n + 1 - d])
        BY <1>13
  <2>3. QED BY <1>3, <1>11, <2>1, <2>2
<1>14. n \in Done
  <2> HIDE DEF Done, n
  <2>1. \A k \in 0..n : k \in Done
        BY <1>1, <1>12, <1>13, InductionUpTo
  <2>2. QED BY <1>1, <2>1
<1>15. n + 1 - n = 1
       BY <1>1
<1>16. QED BY <1>10, <1>14, <1>15

\* subtract() takes what it is given out of the set that the list stands for, and keeps it
\* a list.
LEMMA SubtractSubtracts ==
    ASSUME RangesSorted, NEW start \in Offset, NEW stop \in Offset, Subtract(start, stop)
    PROVE  /\ RangesSorted'
           /\ Members' = Members \ (start..(stop - 1))
<1>1. start < stop /\ ranges' = SubtractFrom(start, stop)
      BY DEF Subtract
<1>2. /\ ranges' \in Lists
      /\ Held(ranges', 1, Len(ranges')) = Held(ranges, 1, Len(ranges)) \ (start..(stop - 1))
      BY <1>1, SubtractFromLeaves DEF Left
<1>3. Members = Held(ranges, 1, Len(ranges)) /\ Members' = Held(ranges', 1, Len(ranges'))
      BY <1>2, MembersOfList DEF Members, Holds, RangesSorted
<1>4. QED BY <1>2, <1>3 DEF RangesSorted

\* The first item of the list is the first run of the set, which shift() takes away.
LEMMA ShiftShifts ==
    ASSUME RangesSorted, Shift
    PROVE  /\ RangesSorted'
           /\ ranges[1].start \in Offset /\ ranges[1].stop \in Offset
           /\ FirstRange(Members, ranges[1].start, ranges[1].stop)
           /\ Members' = Members \ (ranges[1].start..(ranges[1].stop - 1))
<1> DEFINE n == Len(ranges)
           r == ranges[1]
<1>1. /\ ranges \in Lists /\ ranges \in Seq(Spans) /\ n \in Nat /\ n # 0
      /\ ranges # << >> /\ ranges' = Tail(ranges)
      BY ListFacts, EmptySeq DEF RangesSorted, Shift
<1>2. /\ 1 \in 1..n
      /\ r.start \in Nat /\ r.stop \in Nat /\ r.start < r.stop
      /\ r.start \in Offset /\ r.stop \in Offset
      BY <1>1, ListFacts
<1>3. ranges' = SubSeq(ranges, 2, n)
      BY <1>1, TailIsSubSeq
<1>4. /\ ranges' \in Lists
      /\ Held(ranges', 1, Len(ranges')) = Held(ranges, 2, n)
  <2>1. 2 \in 1..(n + 1) /\ n \in 0..n
        BY <1>1
  <2>2. QED BY <1>1, <1>3, <2>1, PartOfList
<1>5. Members = Held(ranges, 1, n) /\ Members' = Held(ranges', 1, Len(ranges'))
      BY <1>1, <1>4, MembersOfList DEF Members, Holds
<1>6. Held(ranges, 1, n) = Held(ranges, 1, 1) \cup Held(ranges, 2, n)
      BY <1>1, HeldParts
<1>7. Held(ranges, 1, 1) = r.start..(r.stop - 1)
      BY <1>1, <1>2, OneHeld
<1>8. \A o \in Held(ranges, 2, n) : o \in Nat /\ r.stop < o
  <2>1. SUFFICES ASSUME NEW o \in Held(ranges, 2, n) PROVE o \in Nat /\ r.stop < o
        OBVIOUS
  <2>2. PICK j \in 2..n : ranges[j].start <= o
        BY DEF Held
  <2>3. j \in 1..n /\ 1 < j
        BY <1>1
  <2>4. r.stop < ranges[j].start /\ ranges[j].start \in Nat
        BY <1>1, <1>2, <2>3, ListFacts
  <2>5. o \in Nat
        BY MaxOffsetAssumption DEF Held, Offset
  <2>6. QED BY <1>2, <2>2, <2>4, <2>5
<1> HIDE DEF r
<1>9. Members = (r.start..(r.stop - 1)) \cup Held(ranges, 2, n)
      BY <1>5, <1>6, <1>7
<1>10. FirstRange(Members, r.start, r.stop)
  <2>1. r.start \in Members
        BY <1>2, <1>9
  <2>2. \A o \in Members : r.start <= o
        BY <1>2, <1>8, <1>9
  <2>3. r.start..(r.stop - 1) \subseteq Members
        BY <1>9
  <2>4. r.stop \notin Members
    <3>1. r.stop \notin r.start..(r.stop - 1)
          BY <1>2
    <3>2. r.stop \notin Held(ranges, 2, n)
          BY <1>2, <1>8
    <3>3. QED BY <1>9, <3>1, <3>2
  <2>5. QED BY <1>2, <2>1, <2>2, <2>3, <2>4 DEF FirstRange
<1>11. Members' = Members \ (r.start..(r.stop - 1))
       BY <1>2, <1>4, <1>5, <1>8, <1>9
<1>12. QED BY <1>2, <1>4, <1>10, <1>11 DEF r, RangesSorted

-----------------------------------------------------------------------------
(* The list.                                                               *)

\* The invariant holds of the empty list.
LEMMA RangesStart == RangesInit => RangesSorted /\ Members = {}
<1> SUFFICES ASSUME RangesInit PROVE RangesSorted /\ Members = {}
    OBVIOUS
<1>1. ranges = << >>
      BY DEF RangesInit
<1>2. QED BY <1>1, NoRange, MembersOfList DEF RangesSorted, Members, Holds

\* Every operation keeps the invariant and is one of the operations of the set.
LEMMA RangesStep ==
    ASSUME RangesSorted, [RangesNext]_<<ranges, call>>
    PROVE  RangesSorted' /\ [Set!Next]_<<Members, call>>
<1>1. Set!Offset = Offset
      BY DEF Set!Offset, Offset
<1>2. ASSUME NEW start \in Offset, NEW stop \in Offset, Add(start, stop)
      PROVE  RangesSorted' /\ Set!Next
  <2>1. /\ RangesSorted'
        /\ Members' = Members \cup start..(stop - 1)
        BY <1>2, AddAdds
  <2>2. start < stop /\ call' = <<"add", start, stop>>
        BY <1>2 DEF Add
  <2>3. Set!Add(start, stop)
        BY <2>1, <2>2 DEF Set!Add
  <2>4. QED BY <1>1, <2>1, <2>3 DEF Set!Next
<1>3. ASSUME NEW start \in Offset, NEW stop \in Offset, Subtract(start, stop)
      PROVE  RangesSorted' /\ Set!Next
  <2>1. /\ RangesSorted'
        /\ Members' = Members \ (start..(stop - 1))
        BY <1>3, SubtractSubtracts
  <2>2. start < stop /\ call' = <<"subtract", start, stop>>
        BY <1>3 DEF Subtract
  <2>3. Set!Subtract(start, stop)
        BY <2>1, <2>2 DEF Set!Subtract
  <2>4. QED BY <1>1, <2>1, <2>3 DEF Set!Next
<1>4. ASSUME Shift PROVE RangesSorted' /\ Set!Next
  <2>1. /\ RangesSorted'
        /\ ranges[1].start \in Offset /\ ranges[1].stop \in Offset
        /\ FirstRange(Members, ranges[1].start, ranges[1].stop)
        /\ Members' = Members \ (ranges[1].start..(ranges[1].stop - 1))
        BY <1>4, ShiftShifts
  <2>2. call' = <<"shift">>
        BY <1>4 DEF Shift
  <2>3. Set!Shift(ranges[1].start, ranges[1].stop)
        BY <2>1, <2>2 DEF Set!Shift, Set!FirstRange, FirstRange
  <2>4. QED BY <1>1, <2>1, <2>3 DEF Set!Next
<1>5. CASE UNCHANGED <<ranges, call>>
      BY <1>5 DEF RangesSorted, Members, Holds
<1>6. QED BY <1>2, <1>3, <1>4, <1>5 DEF RangesNext

\* The invariant says at least what the property of the runs says.
LEMMA SortedIsCanonical == RangesSorted => Canonical
<1> SUFFICES ASSUME RangesSorted PROVE Canonical
    OBVIOUS
<1> DEFINE n == Len(ranges)
<1>1. /\ ranges \in Lists /\ n \in Nat /\ DOMAIN ranges = 1..n
      /\ \A i \in 1..n : /\ ranges[i].start \in Nat /\ ranges[i].stop \in Nat
                         /\ ranges[i].start < ranges[i].stop
      /\ \A i, j \in 1..n : i < j => ranges[i].stop < ranges[j].start
      BY ListFacts DEF RangesSorted
<1>2. \A i \in 1..(n - 1) : ranges[i].stop < ranges[i + 1].start
      BY <1>1
<1>3. ASSUME ranges # << >>, NEW o \in Members
      PROVE  o \in ranges[1].start..(ranges[n].stop - 1)
  <2>1. n # 0 /\ 1 \in 1..n /\ n \in 1..n
        BY <1>1, <1>3, EmptySeq, ListFacts
  <2>2. PICK i \in 1..n : ranges[i].start <= o /\ o < ranges[i].stop
        BY <1>1, <1>3 DEF Members, Holds
  <2>3. ranges[1].start <= ranges[i].start
        BY <1>1, <2>1, LaterStarts
  <2>4. ranges[i].stop <= ranges[n].stop
    <3>1. ranges[i].stop \in Nat /\ ranges[n].start \in Nat /\ ranges[n].stop \in Nat
          /\ ranges[n].start < ranges[n].stop
          BY <1>1, <2>1
    <3>2. CASE i = n
          BY <3>1, <3>2
    <3>3. CASE i < n
      <4>1. ranges[i].stop < ranges[n].start
            BY <1>1, <2>1, <3>3
      <4> HIDE DEF n
      <4>2. QED BY <3>1, <4>1
    <3>4. i = n \/ i < n
      <4>1. n \in Nat
            BY <1>1
      <4> HIDE DEF n
      <4>2. QED BY <4>1
    <3>5. QED BY <3>2, <3>3, <3>4
  <2>5. o \in Nat
        BY <1>3, MaxOffsetAssumption DEF Members, Offset
  <2>6. /\ ranges[1].start \in Nat /\ ranges[i].start \in Nat /\ ranges[i].stop \in Nat
        /\ ranges[n].stop \in Nat
        BY <1>1, <2>1
  <2>7. ranges[1].start <= o /\ o < ranges[n].stop
    <3>1. \A x, y, z \in Nat : x <= y /\ y <= z => x <= z
          OBVIOUS
    <3>2. \A x, y, z \in Nat : x < y /\ y <= z => x < z
          OBVIOUS
    <3>3. QED BY <2>2, <2>3, <2>4, <2>5, <2>6, <3>1, <3>2
  <2>8. QED BY <2>5, <2>6, <2>7
<1>4. QED BY <1>1, <1>2, <1>3 DEF Canonical, Bounds, Span

\* Whatever is added, subtracted and shifted, in any order, the list is sorted, its ranges
\* are not empty and there is a gap between any two.
THEOREM ListIsCanonical == RangesSpec => []Canonical
<1>1. RangesInit => RangesSorted
      BY RangesStart
<1>2. RangesSorted /\ [RangesNext]_<<ranges, call>> => RangesSorted'
      BY RangesStep
<1>3. QED BY <1>1, <1>2, SortedIsCanonical, PTL DEF RangesSpec

\* The list is the set of offsets of OffsetSet.tla, which the stream modules keep in its
\* place: add() is union, subtract() difference, and shift() takes the first run.
THEOREM ListIsSet == RangesSpec => ImplementsOffsetSet
<1>1. RangesInit => RangesSorted
      BY RangesStart
<1>2. RangesSorted /\ [RangesNext]_<<ranges, call>> => RangesSorted'
      BY RangesStep
<1>3. RangesInit => Set!Init
      BY RangesStart DEF RangesInit, Set!Init
<1>4. RangesSorted /\ [RangesNext]_<<ranges, call>> => [Set!Next]_<<Members, call>>
      BY RangesStep
<1>5. QED BY <1>1, <1>2, <1>3, <1>4, PTL DEF RangesSpec, ImplementsOffsetSet, Set!Spec
=============================================================================
