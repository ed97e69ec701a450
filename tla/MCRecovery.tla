----------------------------- MODULE MCRecovery -----------------------------
EXTENDS Recovery

MCSpaces == <<"handshake", "application">>
MCTraffic == {<<"handshake", "crypto">>, <<"application", "data">>}
MCTrafficAndAcks == MCTraffic \cup {<<"application", "ack">>}
=============================================================================
