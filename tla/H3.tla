--------------------------------- MODULE H3 ---------------------------------
(***************************************************************************)
(* HTTP/3 from a server that responds and pushes to a client: class        *)
(* H3Connection of h3/connection.py at both ends.  QUIC delivers each      *)
(* stream in order but cuts it anywhere, brings the streams in any order,  *)
(* and may bring the end of a stream with its last bytes or alone.         *)
(*                                                                         *)
(* A frame is written as units: its type, its size, and its body.  The     *)
(* server's part is what its application called (sent, wire); the client's *)
(* is the H3Stream of each stream, named as in the code.  The QPACK        *)
(* library is external: of its encoder instructions only the number        *)
(* counts, and a header block needs the first `need' of them.              *)
(***************************************************************************)
EXTENDS SequencesExt, FiniteSets, Integers

CONSTANTS
    MaxFrames,        \* bound on the frames of both streams
    MaxData,          \* bound on the data of a message
    MaxInserts,       \* bound on the instructions of the QPACK encoder
    MaxPushId,        \* _max_push_id of the client, 8 in the code
    PromiseNeeds      \* instructions that a promise's block may need

ASSUME BoundsAssumption ==
    /\ MaxFrames \in Nat
    /\ MaxData \in Nat
    /\ MaxInserts \in Nat
    /\ MaxPushId \in Nat
    /\ PromiseNeeds \subseteq 0..MaxInserts

Streams == {"request", "push"}
HeadersState == {"initial", "after_headers", "after_trailers"}
None == -1

VARIABLES
    sent,             \* parts of the message the server sent on each stream
    wire,             \* units of each stream that have not arrived
    fin,              \* the end of each stream: "none", "sent" or "arrived"
    headers_send_state,
    frames,           \* number of frames that the server wrote
    declared,         \* content-length of each message, or None
    next_push_id,
    inserts,          \* encoder instructions that the server sent
    control,          \* control frames on their way to each end
    settings_received,
    max_push_id,      \* what the server knows of the client's
    stream,           \* the client's H3Stream of each stream
    inserts_received, \* encoder instructions that the client has
    seen,             \* parts that the events of the client reported
    is_done

serverVars == <<sent, wire, fin, headers_send_state, frames, declared,
                next_push_id, inserts>>
controlVars == <<control, settings_received, max_push_id>>
clientVars == <<stream, inserts_received, seen, is_done>>
vars == <<serverVars, controlVars, clientVars>>

Frame(type, size, need, length) ==
    [type |-> type, size |-> size, need |-> need, length |-> length]
Unit(part, frame) == [part |-> part, frame |-> frame]

encode_frame(frame) ==
    <<Unit("type", frame), Unit("size", frame)>>
        \o [i \in 1..frame.size |-> Unit("body", frame)]

\* The two units that open a push stream.
PushPrefix ==
    LET opening == Frame("push_stream", 0, 0, None)
    IN <<Unit("stream_type", opening), Unit("push_id", opening)>>

NewStream ==
    [buffer |-> <<>>, blocked |-> FALSE, ended |-> FALSE,
     frame_size |-> None, frame |-> Frame("none", 0, 0, None),
     headers_recv_state |-> "initial", stream_type |-> "none",
     push_id |-> None, expected_content_length |-> None,
     content_length |-> 0, need |-> 0]

\* _init_connection: SETTINGS at both ends, MAX_PUSH_ID from the client.
Init ==
    /\ sent = [s \in Streams |-> <<>>]
    /\ wire = [s \in Streams |-> <<>>]
    /\ fin = [s \in Streams |-> "none"]
    /\ headers_send_state = [s \in Streams |-> "initial"]
    /\ frames = 0
    /\ declared = [s \in Streams |-> None]
    /\ next_push_id = 0
    /\ inserts = 0
    /\ control = [end \in {"client", "server"} |->
                    IF end = "client" THEN <<"settings">>
                    ELSE <<"settings", "max_push_id">>]
    /\ settings_received = [end \in {"client", "server"} |-> FALSE]
    /\ max_push_id = None
    /\ stream = [s \in Streams |-> NewStream]
    /\ inserts_received = 0
    /\ seen = [s \in Streams |-> <<>>]
    /\ is_done = FALSE

-----------------------------------------------------------------------------
(* The server *)

\* Adds a frame, and the end of the stream, and what they mean to the peer.
Write(s, frame, parts, end) ==
    /\ fin[s] = "none"
    /\ frames < MaxFrames
    /\ frames' = frames + 1
    /\ sent' = [sent EXCEPT ![s] = @ \o parts \o
                    (IF end THEN <<"end">> ELSE <<>>)]
    /\ fin' = [fin EXCEPT ![s] = IF end THEN "sent" ELSE @]

WriteOn(s, units) == wire' = [wire EXCEPT ![s] = @ \o units]

\* The encoder may insert one entry for a block, and refer to any entry, once
\* the peer's settings gave it a table.
Encoded(need) ==
    /\ need \in 0..MaxInserts
    /\ IF settings_received["server"]
       THEN need =< inserts + 1
       ELSE need = 0
    /\ inserts' = IF need > inserts THEN need ELSE inserts

DataSent(s) == Cardinality({i \in DOMAIN sent[s] : sent[s][i] = "data"})
Fulfilled(s, length) == length = None \/ length = DataSent(s)

IsOpen(s) == s = "push" => next_push_id > 0

\* Headers, with a content-length perhaps; its value is that of the message.
SendHeaders(s, end) ==
    /\ IsOpen(s)
    /\ headers_send_state[s] = "initial"
    /\ \E need \in 0..MaxInserts, length \in {None} \cup 0..MaxData :
        LET frame == Frame("headers", 1, need, length)
        IN /\ end => Fulfilled(s, length)
           /\ Encoded(need)
           /\ Write(s, frame, <<"headers">>, end)
           /\ WriteOn(s, encode_frame(frame))
           /\ declared' = [declared EXCEPT ![s] = length]
    /\ headers_send_state' = [headers_send_state EXCEPT ![s] = "after_headers"]
    /\ UNCHANGED <<next_push_id, controlVars, clientVars>>

SendTrailers(s, end) ==
    /\ headers_send_state[s] = "after_headers"
    /\ end => Fulfilled(s, declared[s])
    /\ \E need \in 0..MaxInserts :
        LET frame == Frame("headers", 1, need, None)
        IN /\ Encoded(need)
           /\ Write(s, frame, <<"trailers">>, end)
           /\ WriteOn(s, encode_frame(frame))
    /\ headers_send_state' = [headers_send_state EXCEPT ![s] = "after_trailers"]
    /\ UNCHANGED <<declared, next_push_id, controlVars, clientVars>>

SendData(s, end) ==
    /\ headers_send_state[s] = "after_headers"
    /\ \E size \in 0..(MaxData - DataSent(s)) :
        LET frame == Frame("data", size, 0, None)
            total == DataSent(s) + size
        IN /\ declared[s] # None => IF end THEN total = declared[s]
                                    ELSE total =< declared[s]
           /\ Write(s, frame, [i \in 1..size |-> "data"], end)
           /\ WriteOn(s, encode_frame(frame))
    /\ UNCHANGED <<headers_send_state, declared, next_push_id, inserts,
                   controlVars, clientVars>>

\* A frame of a reserved type, which other servers send; never by this code.
SendReserved(s, end) ==
    /\ IsOpen(s)
    /\ headers_send_state[s] # "initial"
    /\ end => Fulfilled(s, declared[s])
    /\ LET frame == Frame("reserved", 1, 0, None)
       IN /\ Write(s, frame, <<>>, end)
          /\ WriteOn(s, encode_frame(frame))
    /\ UNCHANGED <<headers_send_state, declared, next_push_id, inserts,
                   controlVars, clientVars>>

\* NoAvailablePushIDError is raised unless the client gave the identifier.  The
\* stream of the first push is the one looked at.
send_push_promise ==
    /\ max_push_id # None
    /\ next_push_id < max_push_id
    /\ next_push_id' = next_push_id + 1
    /\ \E need \in PromiseNeeds :
        LET frame == Frame("push_promise", 1, need, None)
        IN /\ Encoded(need)
           /\ Write("request", frame, <<"promise">>, FALSE)
           /\ wire' = [wire EXCEPT !["request"] = @ \o encode_frame(frame),
                                   !["push"] = IF next_push_id = 0 THEN PushPrefix
                                               ELSE @]
    /\ UNCHANGED <<headers_send_state, declared, controlVars, clientVars>>

-----------------------------------------------------------------------------
(* The client: frames of a request or push stream *)

\* What a handler leaves: the stream, the parts it reported, and whether it
\* raised a ProtocolError or the library raised StreamBlocked.
Result(st, parts, raised) == [st |-> st, parts |-> parts, raised |-> raised]

_check_content_length(st) ==
    \/ st.expected_content_length = None
    \/ st.content_length = st.expected_content_length

Ended(parts, stream_ended) == IF stream_ended THEN Append(parts, "end") ELSE parts

HandleData(st, size, stream_ended) ==
    LET counted == [st EXCEPT !.content_length = @ + size]
    IN IF \/ st.headers_recv_state # "after_headers"
          \/ stream_ended /\ ~_check_content_length(counted)
       THEN Result(st, <<>>, "error")
       ELSE Result(counted,
                   Ended([i \in 1..size |-> "data"], stream_ended), "none")

\* validate_headers, for a response or its trailers: the block of a promise
\* holds :method, which neither may.
validate_headers(frame) == frame.type = "headers"

HandleHeaders(st, frame, stream_ended, table) ==
    LET first == st.headers_recv_state = "initial"
        checked == IF first /\ frame.length # None
                   THEN [st EXCEPT !.expected_content_length = frame.length]
                   ELSE st
        done == [checked EXCEPT !.headers_recv_state =
                    IF first THEN "after_headers" ELSE "after_trailers"]
        invalid == \/ ~validate_headers(frame)
                   \/ stream_ended /\ ~_check_content_length(checked)
    IN IF st.headers_recv_state = "after_trailers" THEN Result(st, <<>>, "error")
       ELSE IF frame.need > table THEN Result(st, <<>>, "blocked")
       ELSE IF invalid THEN Result(st, <<>>, "error")
       ELSE Result(done, Ended(<<IF first THEN "headers" ELSE "trailers">>,
                               stream_ended), "none")

HandlePromise(st, frame, table) ==
    IF st.push_id # None THEN Result(st, <<>>, "error")
    ELSE IF frame.need > table THEN Result(st, <<>>, "blocked")
    ELSE Result(st, <<"promise">>, "none")

_handle_request_or_push_frame(st, frame, size, stream_ended, table) ==
    CASE frame.type = "data" -> HandleData(st, size, stream_ended)
      [] frame.type = "headers" -> HandleHeaders(st, frame, stream_ended, table)
      [] frame.type = "push_promise" -> HandlePromise(st, frame, table)
      [] OTHER -> Result(st, <<>>, "none")

\* The stream before the next frame is read: a frame header needs two units.
FetchHeader(st) ==
    IF st.frame_size # None THEN st
    ELSE [st EXCEPT !.frame = st.buffer[1].frame,
                    !.frame_size = st.buffer[1].frame.size,
                    !.buffer = SubSeq(@, 3, Len(@))]

\* Whether the end of the stream follows the frame that was taken.
EndsStreamEarly(st) == st.ended
EndsStream(st) == st.ended /\ st.buffer = <<>>

\* One turn of the loop over the buffer; "stop" leaves the loop.
ParseFrame(run, table) ==
    LET st == run.st
        header == FetchHeader(st)
        chunk_size == Min({header.frame_size, Len(header.buffer)})
        whole == chunk_size = header.frame_size
        taken == [header EXCEPT
                    !.frame_size = IF whole THEN None ELSE @ - chunk_size,
                    !.buffer = SubSeq(@, chunk_size + 1, Len(@))]
        handled == _handle_request_or_push_frame(taken, header.frame, chunk_size,
                        EndsStream(taken), table)
    IN IF run.raised # "none" \/ st.buffer = <<>> THEN run
       ELSE IF st.frame_size = None /\ Len(st.buffer) < 2
       THEN Result(st, run.parts, "stop")
       ELSE IF header.frame.type # "data" /\ ~whole
       THEN Result(header, run.parts, "stop")
       ELSE IF handled.raised = "blocked"
       THEN Result([taken EXCEPT !.blocked = TRUE, !.need = header.frame.need],
                   run.parts, "stop")
       ELSE Result(handled.st, run.parts \o handled.parts, handled.raised)

ParseFrames(st, table) ==
    LET turn[i \in 0..Len(st.buffer)] ==
            IF i = 0 THEN Result(st, <<>>, "none") ELSE ParseFrame(turn[i - 1], table)
    IN turn[Len(st.buffer)]

\* A part of a DATA frame, taken without the loop.
TakeFragmentUncounted(st) ==
    [st EXCEPT !.frame_size = @ - Len(st.buffer), !.buffer = <<>>]
TakeFragment(st) ==
    [st EXCEPT !.content_length = @ + Len(st.buffer),
               !.frame_size = @ - Len(st.buffer), !.buffer = <<>>]

\* The stream has the data already; stream_ended says that its end came now.
_receive_request_or_push_data(st, stream_ended, table) ==
    LET size == Len(st.buffer)
        fragment == /\ st.frame.type = "data"
                    /\ st.frame_size # None
                    /\ size < st.frame_size
    IN IF st.blocked THEN Result(st, <<>>, "none")
       ELSE IF fragment
       THEN Result(TakeFragment(st), [i \in 1..size |-> "data"], "none")
       ELSE IF stream_ended /\ size = 0
       THEN IF _check_content_length(st) THEN Result(st, <<"end">>, "none")
            ELSE Result(st, <<>>, "error")
       ELSE ParseFrames(st, table)

\* The part of _receive_stream_data_uni that opens a push stream.
OpenPush(st) ==
    LET typed == IF st.stream_type = "none" /\ st.buffer # <<>>
                 THEN [st EXCEPT !.stream_type = "push", !.buffer = Tail(@)]
                 ELSE st
    IN IF typed.stream_type = "push" /\ typed.push_id = None /\ typed.buffer # <<>>
       THEN [typed EXCEPT !.push_id = 0, !.buffer = Tail(@)]
       ELSE typed

_receive_stream_data_uni(st, stream_ended, table) ==
    LET opened == OpenPush(st)
    IN IF opened.push_id = None THEN Result(opened, <<>>, "none")
       ELSE _receive_request_or_push_data(opened, stream_ended, table)

-----------------------------------------------------------------------------
(* The client: handle_event *)

\* A ProtocolError closes the connection; its events are lost.
Finish(s, handled) ==
    /\ stream' = [stream EXCEPT ![s] = handled.st]
    /\ is_done' = (handled.raised = "error")
    /\ seen' = IF is_done' THEN seen
               ELSE [seen EXCEPT ![s] = @ \o handled.parts]

\* The stream with what has come for it.
ArrivedUnlessBlocked(st, units, stream_ended) ==
    [st EXCEPT !.buffer = @ \o units,
               !.ended = @ \/ (stream_ended /\ ~st.blocked)]
Arrived(st, units, stream_ended) ==
    [st EXCEPT !.buffer = @ \o units, !.ended = @ \/ stream_ended]

\* The first `count' units on their way, and the end of the stream with the
\* last of them or alone.
ReceiveStream(s, count, stream_ended) ==
    /\ ~is_done
    /\ count > 0 \/ stream_ended
    /\ stream_ended => fin[s] = "sent" /\ count = Len(wire[s])
    /\ fin' = [fin EXCEPT ![s] = IF stream_ended THEN "arrived" ELSE @]
    /\ wire' = [wire EXCEPT ![s] = SubSeq(@, count + 1, Len(@))]
    /\ LET st == Arrived(stream[s], SubSeq(wire[s], 1, count), stream_ended)
           receive(table) == IF s = "push"
                THEN _receive_stream_data_uni(st, stream_ended, table)
                ELSE _receive_request_or_push_data(st, stream_ended, table)
       IN Finish(s, receive(inserts_received))
    /\ UNCHANGED <<sent, headers_send_state, frames, declared, next_push_id,
                   inserts, controlVars, inserts_received>>

\* A stream that the new instructions unblock: whatever frame was blocked, it
\* is taken up as HEADERS, then what came since is read.
Resume(st, table) ==
    LET headers == HandleHeaders(st, st.frame, EndsStream(st), table)
        unblocked == [headers.st EXCEPT !.blocked = FALSE]
        rest == _receive_request_or_push_data(unblocked, st.ended, table)
    IN IF headers.raised # "none" THEN headers
       ELSE IF st.buffer = <<>> THEN Result(unblocked, headers.parts, "none")
       ELSE Result(rest.st, headers.parts \o rest.parts, rest.raised)

UnblockedLate(table) == {s \in Streams : stream[s].blocked /\ stream[s].need < table}
Unblocked(table) == {s \in Streams : stream[s].blocked /\ stream[s].need =< table}

ReceiveEncoder(count) ==
    /\ ~is_done
    /\ LET table == inserts_received + count
           resumed == [s \in Unblocked(table) |-> Resume(stream[s], table)]
       IN /\ table =< inserts
          /\ inserts_received' = table
          /\ stream' = [s \in Streams |-> IF s \in DOMAIN resumed
                                          THEN resumed[s].st ELSE stream[s]]
          /\ is_done' = (\E s \in DOMAIN resumed : resumed[s].raised = "error")
          /\ seen' = IF is_done' THEN seen
                     ELSE [s \in Streams |-> IF s \in DOMAIN resumed
                             THEN seen[s] \o resumed[s].parts ELSE seen[s]]
    /\ UNCHANGED <<serverVars, controlVars>>

\* _handle_control_frame, for each frame that has arrived whole.
ReceiveControl(end) ==
    /\ control[end] # <<>>
    /\ LET frame == Head(control[end])
       IN \/ /\ frame = "settings"
             /\ ~settings_received[end]
             /\ settings_received' = [settings_received EXCEPT ![end] = TRUE]
             /\ UNCHANGED max_push_id
          \/ /\ frame = "max_push_id"
             /\ settings_received[end]
             /\ max_push_id' = MaxPushId
             /\ UNCHANGED settings_received
    /\ control' = [control EXCEPT ![end] = Tail(@)]
    /\ UNCHANGED <<serverVars, clientVars>>

Next ==
    \/ \E s \in Streams, end \in BOOLEAN :
        SendHeaders(s, end) \/ SendTrailers(s, end) \/ SendData(s, end)
            \/ SendReserved(s, end)
    \/ send_push_promise
    \/ \E s \in Streams : \E count \in 0..Len(wire[s]), ended \in BOOLEAN :
        ReceiveStream(s, count, ended)
    \/ \E count \in 1..MaxInserts : ReceiveEncoder(count)
    \/ \E end \in {"client", "server"} : ReceiveControl(end)

Spec == Init /\ [][Next]_vars

-----------------------------------------------------------------------------
(* Properties *)

\* Whatever the server's application sends in an allowed order, and however the
\* network cuts and interleaves the streams, the client finds no protocol error.
NoProtocolError == ~is_done

\* The events of a stream report what was sent on it, in that order, once, and
\* the end after all of it.
EventsFollowMessage == \A s \in Streams : IsPrefix(seen[s], sent[s])

\* A stream is blocked only for want of encoder instructions.
BlockedForInserts ==
    \A s \in Streams : stream[s].blocked => stream[s].need > inserts_received

\* A reserved frame is no event, so it cannot report the end that came with it.
EndIsSilent(s) == stream[s].frame.type = "reserved"

\* When all of a stream has come and it is not blocked, the application has
\* been told everything, the end included unless a reserved frame came last.
AllIsReported ==
    \A s \in Streams :
        fin[s] = "arrived" /\ ~stream[s].blocked =>
            \/ seen[s] = sent[s]
            \/ EndIsSilent(s) /\ Append(seen[s], "end") = sent[s]
=============================================================================
