---------------------------- MODULE MCHandshake ----------------------------
(* An instance of Handshake: four configurations of the two ends. *)
EXTENDS Handshake

Option(ticket, knows_ticket, tickets, request, certificate) ==
    [ticket |-> ticket, knows_ticket |-> knows_ticket, tickets |-> tickets,
     request_certificate |-> request, certificate |-> certificate]
Plain == Option(FALSE, FALSE, FALSE, FALSE, FALSE)
Both(client, server) == [x \in End |-> IF x = "client" THEN client ELSE server]

Scenario(options, original_version, versions, retry) ==
    [options |-> options, original_version |-> original_version,
     versions |-> versions, retry |-> retry]
Same == Both(<<"v1">>, <<"v1">>)

MCScenarios == {
    Scenario(Both(Plain, [Plain EXCEPT !.tickets = TRUE]), "v1", Same, FALSE),
    Scenario(Both([Plain EXCEPT !.ticket = TRUE], [Plain EXCEPT !.knows_ticket = TRUE]),
             "v1", Same, TRUE),
    Scenario(Both([Plain EXCEPT !.ticket = TRUE],
                  [Plain EXCEPT !.request_certificate = TRUE]),
             "v0", Both(<<"v0", "v1">>, <<"v1">>), FALSE),
    Scenario(Both([Plain EXCEPT !.certificate = TRUE],
                  [Plain EXCEPT !.request_certificate = TRUE]),
             "v1", Both(<<"v2", "v1">>, <<"v1", "v2">>), FALSE)}
=============================================================================
