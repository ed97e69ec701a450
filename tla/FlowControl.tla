---------------------------- MODULE FlowControl -----------------------------
(***************************************************************************)
(* Flow control between two connections, of quic/connection.py: one opens  *)
(* streams of one type and sends on them, the other one grants it limits   *)
(* on the data of the connection, on the data of each stream and on the    *)
(* number of streams, and doubles a limit when more than half is used.     *)
(* The frames are lost, duplicated, delayed and reordered.                 *)
(*                                                                         *)
(* The streams are unidirectional: the sender never discards them, since   *)
(* the receiving part of a stream that is for sending never is finished.   *)
(* Of the data of a stream only the highest offset counts.  The streams    *)
(* are numbered from 0 (their stream_id // 4) and opened in this order.    *)
(***************************************************************************)
EXTENDS Integers, FiniteSets, Functions

CONSTANTS
    Streams,          \* the streams that the application may open
    InitialLimit,     \* transport parameters, for "data", "stream" and "streams"
    Resets,           \* streams that the application may reset
    MaxSize,          \* bound: bytes of each stream
    MaxCounted,       \* bound: bytes that the receiver counts of a stream
    MaxFlight         \* bound: frames whose fate the recovery does not know

ASSUME StreamsAssumption ==
    /\ Streams = 0..(Cardinality(Streams) - 1) /\ IsFiniteSet(Streams)
    /\ Resets \subseteq Streams
ASSUME InitialLimitAssumption == InitialLimit \in [{"data", "stream", "streams"} -> Nat \ {0}]
ASSUME BoundAssumption ==
    /\ MaxSize \in [Streams -> Nat] /\ MaxCounted \in Nat /\ MaxFlight \in Nat

\* The limits: max_data, max_streams, and max_stream_data of each stream.
DataLimit == <<"data", 0>>
StreamsLimit == <<"streams", 0>>
StreamLimit(s) == <<"stream", s>>
Limits == {DataLimit, StreamsLimit} \cup {StreamLimit(s) : s \in Streams}

\* The frames.  A MAX_DATA, MAX_STREAMS or MAX_STREAM_DATA frame names its limit.
Data(s, stop) == [type |-> "stream", limit |-> StreamLimit(s), size |-> stop]
ResetStream(s, final_size) == [type |-> "reset", limit |-> StreamLimit(s), size |-> final_size]
Maximum(l, max) == [type |-> "max", limit |-> l, size |-> max]
StreamOf(f) == f.limit[2]

VARIABLES
    highest,          \* sender.highest_offset
    reset,            \* for each stream: "none", "pending" (reset_pending) or "sent"
    remote,           \* _remote_max_data, _remote_max_streams, max_stream_data_remote
    known,            \* streams in _streams of the receiver
    ended,            \* streams that were reset, receiver.is_finished
    finished,         \* _streams_finished of the receiver
    received,         \* receiver.highest_offset
    counted,          \* what _local_max_data.used counts of each stream
    streams_used,     \* _local_max_streams.used
    value,            \* value of each limit: max_stream_data_local of a stream
    sent,             \* sent of each limit: max_stream_data_local_sent of a stream
    net,              \* frames that were sent: each may arrive late, never, or again
    flight,           \* MAX_* and RESET_STREAM frames whose handler is registered
    got               \* of these, the ones that the peer has processed

senderVars == <<highest, reset>>
receiverVars == <<known, ended, finished, received, counted, streams_used>>
grantVars == <<value, sent>>
netVars == <<net, flight, got>>
vars == <<senderVars, remote, receiverVars, grantVars, netVars>>

InitialOf(l) == InitialLimit[l[1]]

Init ==
    /\ highest = [s \in Streams |-> 0]
    /\ reset = [s \in Streams |-> "none"]
    /\ remote = [l \in Limits |-> InitialOf(l)]
    /\ known = {}
    /\ ended = {}
    /\ finished = {}
    /\ received = [s \in Streams |-> 0]
    /\ counted = [s \in Streams |-> 0]
    /\ streams_used = 0
    /\ value = [l \in Limits |-> InitialOf(l)]
    /\ sent = [l \in Limits |-> InitialOf(l)]
    /\ net = {}
    /\ flight = {}
    /\ got = {}

Larger(a, b) == IF a > b THEN a ELSE b
Total(f) == SumFunction(f)

\* A frame is put into a packet; of a MAX_* or RESET_STREAM frame the recovery
\* will tell whether it was acknowledged or lost.
Transmit(f) ==
    /\ net' = net \cup {f}
    /\ flight' = IF f.type = "stream" THEN flight ELSE flight \cup {f}
    /\ got' = got \ {f}
    /\ Cardinality(flight') <= MaxFlight

-----------------------------------------------------------------------------
(* The sending side.  The application opens a stream by its first use and  *)
(* always has more to write, up to MaxSize; what it has written and is not *)
(* sent yet changes nothing here.                                          *)

\* A stream whose number is not below _remote_max_streams is blocked until the
\* limit is raised: is_blocked and _unblock_streams().
Blocked(s) == s >= remote[StreamsLimit]

Reset(s) ==
    /\ s \in Resets
    /\ reset[s] = "none"
    /\ reset' = [reset EXCEPT ![s] = "pending"]
    /\ UNCHANGED <<highest, remote, receiverVars, grantVars, netVars>>

\* What a frame of the stream may carry beyond the highest offset: max_offset in
\* _write_application(), _remote_max_data_used being the sum of what was sent.
\* Variant with a slip: the limit of the connection is left out.
CreditOfStream(s) == remote[StreamLimit(s)] - highest[s]

Credit(s) ==
    LET connection == remote[DataLimit] - Total(highest)
        stream == remote[StreamLimit(s)] - highest[s]
    IN  IF connection < stream THEN connection ELSE stream

\* The turn of a stream in _write_application(), in whatever place of the queue
\* it is.  A stream that was reset sends the final size, blocked or not, and no
\* more data.
SendReset(s) ==
    /\ reset[s] = "pending"
    /\ Transmit(ResetStream(s, highest[s]))
    /\ reset' = [reset EXCEPT ![s] = "sent"]
    /\ UNCHANGED <<highest, remote, receiverVars, grantVars>>

\* Else data goes out: a part that was sent before (which one and when is the
\* matter of StreamSender), or new bytes.
SendAgain(s, stop) ==
    /\ reset[s] = "none" /\ ~Blocked(s)
    /\ stop <= highest[s]
    /\ Transmit(Data(s, stop))
    /\ UNCHANGED <<senderVars, remote, receiverVars, grantVars>>

SendNew(s, new) ==
    /\ reset[s] = "none" /\ ~Blocked(s)
    /\ new <= Credit(s) /\ highest[s] + new <= MaxSize[s]
    /\ Transmit(Data(s, highest[s] + new))
    /\ highest' = [highest EXCEPT ![s] = @ + new]
    /\ UNCHANGED <<reset, remote, receiverVars, grantVars>>

-----------------------------------------------------------------------------
(* The receiving side.                                                     *)

\* The tests of _get_or_create_stream(), _handle_stream_frame() and
\* _handle_reset_stream_frame() before anything changes.  Frames of a finished
\* stream are skipped.
NewlyReceived(f) == Larger(0, f.size - received[StreamOf(f)])

Accepted(f) ==
    LET s == StreamOf(f)
    IN  f.type # "max" /\ s \notin finished =>
            /\ s \in known \/ s + 1 <= value[StreamsLimit]
            /\ f.size <= value[StreamLimit(s)]
            /\ Total(counted) + NewlyReceived(f) <= value[DataLimit]

\* A STREAM or RESET_STREAM frame is processed.  The final size of a reset is
\* counted but does not raise the highest offset.
ProcessFrame(f) ==
    LET s == StreamOf(f)
    IN  IF s \in finished
        THEN UNCHANGED receiverVars
        ELSE /\ Accepted(f)
             /\ known' = known \cup {s}
             /\ streams_used' = IF s \in known THEN streams_used ELSE Larger(streams_used, s + 1)
             /\ counted' = [counted EXCEPT ![s] = @ + NewlyReceived(f)]
             /\ counted'[s] <= MaxCounted
             /\ received' = [received EXCEPT ![s] = IF f.type = "stream" THEN Larger(@, f.size) ELSE @]
             /\ ended' = IF f.type = "reset" THEN ended \cup {s} ELSE ended
             /\ UNCHANGED finished

\* The stream, done with receiving and never used for sending, is discarded.
\* Variant with a slip: it is discarded before it has ended.
DiscardEarly(s) ==
    /\ s \in known
    /\ known' = known \ {s}
    /\ finished' = finished \cup {s}
    /\ UNCHANGED <<senderVars, remote, ended, received, counted, streams_used, grantVars,
                   netVars>>

Discard(s) ==
    /\ s \in known \cap ended
    /\ known' = known \ {s}
    /\ finished' = finished \cup {s}
    /\ UNCHANGED <<senderVars, remote, ended, received, counted, streams_used, grantVars,
                   netVars>>

\* What the receiver counts against a limit.
Used(l) ==
    CASE l = DataLimit -> Total(counted)
      [] l = StreamsLimit -> streams_used
      [] OTHER -> received[l[2]]

\* One round of the loop of _write_connection_limits(), or _write_stream_limits()
\* of a stream: the limit is doubled if more than half of it is used, and sent if
\* it is not what was sent last, unless the packet is full.
\* Variant with a slip: a limit is raised only once it is used up.
RaisedLate(l) == IF Used(l) > value[l] THEN 2 * value[l] ELSE value[l]

Raised(l) == IF Used(l) * 2 > value[l] THEN 2 * value[l] ELSE value[l]

WriteLimit(l) ==
    /\ l \in {DataLimit, StreamsLimit} \cup {StreamLimit(s) : s \in known}
    /\ value' = [value EXCEPT ![l] = Raised(l)]
    /\ sent[l] # value'[l]
    /\ sent' = [sent EXCEPT ![l] = value'[l]]
    /\ Transmit(Maximum(l, value'[l]))
    /\ UNCHANGED <<senderVars, remote, receiverVars>>

WriteLimitStopped(l) ==
    /\ l \in {DataLimit, StreamsLimit} \cup {StreamLimit(s) : s \in known}
    /\ value' = [value EXCEPT ![l] = Raised(l)]
    /\ value' # value
    /\ UNCHANGED <<senderVars, remote, receiverVars, sent, netVars>>

-----------------------------------------------------------------------------
(* The network and the recovery.                                           *)

Deliver(f) ==
    /\ f \in net
    /\ \/ /\ f.type = "max"
          /\ remote' = [remote EXCEPT ![f.limit] = Larger(@, f.size)]
          /\ UNCHANGED receiverVars
       \/ /\ f.type # "max"
          /\ ProcessFrame(f)
          /\ UNCHANGED remote
    /\ got' = got \cup ({f} \cap flight)
    /\ UNCHANGED <<senderVars, grantVars, net, flight>>

Reported(f) ==
    /\ flight' = flight \ {f}
    /\ got' = got \ {f}
    /\ UNCHANGED <<highest, remote, receiverVars, value, net>>

Acked(f) ==
    /\ f \in got
    /\ Reported(f)
    /\ UNCHANGED <<reset, sent>>

\* _on_connection_limit_delivery() and _on_max_stream_data_delivery(): the limit
\* counts as never sent.  Variant with a slip: it counts as sent.
ForgetLoss(l) == UNCHANGED sent

ForgetSent(l) == sent' = [sent EXCEPT ![l] = 0]

Lost(f) ==
    /\ f \in flight
    /\ Reported(f)
    /\ \/ /\ f.type = "reset"
          /\ reset' = [reset EXCEPT ![StreamOf(f)] = "pending"]
          /\ UNCHANGED sent
       \/ /\ f.type = "max"
          /\ ForgetSent(f.limit)
          /\ UNCHANGED reset

-----------------------------------------------------------------------------
Next ==
    \/ \E s \in Streams :
          \/ Reset(s) \/ SendReset(s) \/ Discard(s)
          \/ \E n \in 1..MaxSize[s] : SendAgain(s, n) \/ SendNew(s, n)
    \/ \E l \in Limits : WriteLimit(l) \/ WriteLimitStopped(l)
    \/ \E f \in net : Deliver(f)
    \/ \E f \in flight : Acked(f) \/ Lost(f)

Spec == Init /\ [][Next]_vars

-----------------------------------------------------------------------------
(* Safety.                                                                 *)

TypeOK ==
    /\ \A s \in Streams :
          /\ highest[s] \in 0..MaxSize[s] /\ received[s] \in 0..highest[s] /\ counted[s] \in Nat
          /\ reset[s] \in {"none", "pending", "sent"}
    /\ known \subseteq Streams /\ finished \subseteq ended /\ ended \subseteq Streams
    /\ streams_used \in 0..Cardinality(Streams)
    /\ \A l \in Limits : value[l] \in Nat /\ sent[l] \in Nat /\ remote[l] \in Nat
    /\ got \subseteq flight

\* A sender that keeps to the limits it knows never runs into an error for going
\* beyond them, in whatever order its frames and the limits arrive.  Two cases are
\* set apart: a stream that was reset while it was blocked, and a connection on
\* which the receiver has counted the bytes of a reset twice.
CountedOnce(f) ==
    /\ \A s \in Streams : counted[s] <= highest[s]
    /\ counted[StreamOf(f)] + NewlyReceived(f) <= highest[StreamOf(f)]

NoLimitError ==
    \A f \in net :
        f.type # "max" /\ CountedOnce(f) /\ ~Blocked(StreamOf(f)) => Accepted(f)

\* "Too many streams open": the receiver closes the connection with this error
\* only if its peer opened a stream beyond the limit, while the streams beyond
\* the limit are marked as blocked.
BlockedStreamIsSilent == \A f \in net : f.type # "max" => ~Blocked(StreamOf(f))

\* The sender knows no limit that was not granted, and a limit it does not know
\* yet is on its way: to be sent, or in a frame whose loss would be noticed.  So a
\* lost, late or repeated frame never leaves a stream blocked for good.
LimitsReachSender ==
    \A l \in Limits :
        /\ remote[l] <= value[l]
        /\ remote[l] < value[l] =>
              sent[l] # value[l] \/ Maximum(l, value[l]) \in flight

\* A sender that has used up a limit gets a higher one once the receiver has seen
\* all that was sent, whichever of the limits it is that stops it.
LimitIsRaised ==
    /\ \A s \in Streams :
          highest[s] = remote[StreamLimit(s)] /\ received[s] = highest[s]
             => Raised(StreamLimit(s)) > remote[StreamLimit(s)]
    /\ Total(highest) = remote[DataLimit] /\ (\A s \in Streams : counted[s] >= highest[s])
          => Raised(DataLimit) > remote[DataLimit]
    /\ streams_used = remote[StreamsLimit] => Raised(StreamsLimit) > remote[StreamsLimit]
=============================================================================
