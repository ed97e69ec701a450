--------------------------------- MODULE TLS ---------------------------------
(***************************************************************************)
(* The TLS 1.3 engine: class Context of tls.py, as operators on the record *)
(* of its attributes.  handle_message takes the messages of a CRYPTO       *)
(* stream one by one; each handler moves the state, gives traffic keys to  *)
(* the connection (update_traffic_key_cb) and writes messages to the       *)
(* buffers of the epochs.  A message keeps what changes the course of the  *)
(* handshake; the cryptography is external and honest, so a signature, a   *)
(* binder or verify_data is right.                                         *)
(***************************************************************************)
EXTENDS Sequences

Epoch == {"initial", "handshake", "one_rtt"}
Keys == {"encrypt", "decrypt"} \X (Epoch \cup {"zero_rtt"})

NoExtensions == [chosen |-> "none"]
Message(type) ==
    [type |-> type, psk |-> FALSE, early |-> FALSE, extensions |-> NoExtensions]

\* The options are those of the configuration: a ticket at the client, whether
\* the server still knows it, whether it asks for a certificate
\* (_request_client_certificate), and whether the client has one.
NewContext(is_client, options) ==
    [is_client |-> is_client,
     options |-> options,
     handshake_extensions |-> NoExtensions,
     state |-> IF is_client THEN "CLIENT_HANDSHAKE_START"
               ELSE "SERVER_EXPECT_CLIENT_HELLO",
     keys |-> {},
     session_resumed |-> FALSE,
     early_data_accepted |-> FALSE,
     certificate_request |-> FALSE,
     out |-> [e \in Epoch |-> <<>>],
     alert |-> FALSE]

Alert(tls) == [tls EXCEPT !.alert = TRUE]
Moved(tls, state) == [tls EXCEPT !.state = state]
Setup(tls, keys) == [tls EXCEPT !.keys = @ \cup keys]
Push(tls, epoch, messages) == [tls EXCEPT !.out[epoch] = @ \o messages]

_client_send_hello(tls) ==
    LET ticket == tls.options.ticket
        hello == [Message("client_hello") EXCEPT
                      !.psk = ticket, !.early = ticket,
                      !.extensions = tls.handshake_extensions]
        keys == IF ticket THEN {<<"encrypt", "zero_rtt">>} ELSE {}
    IN Moved(Push(Setup(tls, keys), "initial", <<hello>>),
             "CLIENT_EXPECT_SERVER_HELLO")

_client_handle_hello(tls, message) ==
    IF message.psk /\ ~tls.options.ticket THEN Alert(tls)
    ELSE Moved(Setup([tls EXCEPT !.session_resumed = message.psk],
                     {<<"decrypt", "handshake">>}),
               "CLIENT_EXPECT_ENCRYPTED_EXTENSIONS")

_client_handle_encrypted_extensions(tls, message) ==
    Moved(Setup([tls EXCEPT !.early_data_accepted = message.early],
                {<<"encrypt", "handshake">>}),
          IF tls.session_resumed THEN "CLIENT_EXPECT_FINISHED"
          ELSE "CLIENT_EXPECT_CERTIFICATE_REQUEST_OR_CERTIFICATE")

_client_handle_certificate_request(tls) ==
    Moved([tls EXCEPT !.certificate_request = TRUE], "CLIENT_EXPECT_CERTIFICATE")

_client_handle_certificate(tls) == Moved(tls, "CLIENT_EXPECT_CERTIFICATE_VERIFY")

_client_handle_certificate_verify(tls) == Moved(tls, "CLIENT_EXPECT_FINISHED")

\* The flight of the client: its certificate if it was asked for one, empty if
\* it has none, and Finished.
_client_handle_finished(tls) ==
    LET certificate == IF tls.options.certificate
            THEN <<Message("certificate"), Message("certificate_verify")>>
            ELSE <<Message("empty_certificate")>>
        flight == (IF tls.certificate_request THEN certificate ELSE <<>>)
                    \o <<Message("finished")>>
    IN Moved(Push(Setup(tls, {"encrypt", "decrypt"} \X {"one_rtt"}),
                  "handshake", flight),
             "CLIENT_POST_HANDSHAKE")

\* After all that the client has to say but Finished, a ticket may be written.
_server_expect_finished(tls) ==
    Moved(Push(tls, "one_rtt", IF tls.options.tickets
                               THEN <<Message("new_session_ticket")>> ELSE <<>>),
          "SERVER_EXPECT_FINISHED")

_server_handle_hello(tls, message) ==
    LET resumed == message.psk /\ tls.options.knows_ticket
        early == resumed /\ message.early
        requests == tls.options.request_certificate /\ ~resumed
        hello == [Message("server_hello") EXCEPT !.psk = resumed]
        extensions == [Message("encrypted_extensions") EXCEPT
                           !.early = early, !.extensions = tls.handshake_extensions]
        authentication ==
            (IF requests THEN <<Message("certificate_request")>> ELSE <<>>)
                \o <<Message("certificate"), Message("certificate_verify")>>
        flight == <<extensions>>
                    \o (IF resumed THEN <<>> ELSE authentication)
                    \o <<Message("finished")>>
        keys == {<<"encrypt", "handshake">>, <<"decrypt", "handshake">>,
                 <<"encrypt", "one_rtt">>}
                    \cup (IF early THEN {<<"decrypt", "zero_rtt">>} ELSE {})
        replied == Push(Push(Setup([tls EXCEPT !.session_resumed = resumed,
                                               !.early_data_accepted = early],
                                   keys),
                             "initial", <<hello>>),
                        "handshake", flight)
    IN IF tls.options.request_certificate
       THEN Moved(replied, "SERVER_EXPECT_CERTIFICATE")
       ELSE _server_expect_finished(replied)

_server_handle_certificate(tls, message) ==
    IF message.type = "certificate"
    THEN Moved(tls, "SERVER_EXPECT_CERTIFICATE_VERIFY")
    ELSE _server_expect_finished(tls)

_server_handle_certificate_verify(tls) == _server_expect_finished(tls)

_server_handle_finished(tls) ==
    Moved(Setup(tls, {<<"decrypt", "one_rtt">>}), "SERVER_POST_HANDSHAKE")

\* A message that the state does not expect raises AlertUnexpectedMessage.
_handle_reassembled_message(tls, message) ==
    LET is(state, types) == tls.state = state /\ message.type \in types
    IN CASE is("CLIENT_EXPECT_SERVER_HELLO", {"server_hello"}) ->
                _client_handle_hello(tls, message)
         [] is("CLIENT_EXPECT_ENCRYPTED_EXTENSIONS", {"encrypted_extensions"}) ->
                _client_handle_encrypted_extensions(tls, message)
         [] is("CLIENT_EXPECT_CERTIFICATE_REQUEST_OR_CERTIFICATE",
               {"certificate_request"}) ->
                _client_handle_certificate_request(tls)
         [] \/ is("CLIENT_EXPECT_CERTIFICATE_REQUEST_OR_CERTIFICATE", {"certificate"})
            \/ is("CLIENT_EXPECT_CERTIFICATE", {"certificate"}) ->
                _client_handle_certificate(tls)
         [] is("CLIENT_EXPECT_CERTIFICATE_VERIFY", {"certificate_verify"}) ->
                _client_handle_certificate_verify(tls)
         [] is("CLIENT_EXPECT_FINISHED", {"finished"}) ->
                _client_handle_finished(tls)
         [] is("CLIENT_POST_HANDSHAKE", {"new_session_ticket"}) -> tls
         [] is("SERVER_EXPECT_CLIENT_HELLO", {"client_hello"}) ->
                _server_handle_hello(tls, message)
         [] is("SERVER_EXPECT_CERTIFICATE", {"certificate", "empty_certificate"}) ->
                _server_handle_certificate(tls, message)
         [] is("SERVER_EXPECT_CERTIFICATE_VERIFY", {"certificate_verify"}) ->
                _server_handle_certificate_verify(tls)
         [] is("SERVER_EXPECT_FINISHED", {"finished"}) ->
                _server_handle_finished(tls)
         [] OTHER -> Alert(tls)

IsComplete(tls) == tls.state \in {"CLIENT_POST_HANDSHAKE", "SERVER_POST_HANDSHAKE"}
=============================================================================
