----------------------------- MODULE ByteStream -----------------------------
(***************************************************************************)
(* What one direction of a QUIC stream promises its two applications: the  *)
(* bytes written on one side are handed over on the other, in order and    *)
(* each once; the end of the stream is announced only after the last byte  *)
(* of a stream that was closed, or after a reset (the receiver announces   *)
(* the end of a reset stream too, see EndWasWritten in StreamTransfer);    *)
(* and a reset is seen only after one was requested.                       *)
(***************************************************************************)
EXTENDS Integers, Sequences

CONSTANT MaxOffset

VARIABLES written,     \* how many bytes the sending application wrote
          closed,      \* it has also written the end of the stream
          aborted,     \* the stream was reset
          delivered,   \* the bytes the receiving application got
          ended,       \* it got the end of the stream
          abort_seen   \* it was told of the reset

vars == <<written, closed, aborted, delivered, ended, abort_seen>>

\* The first n bytes ever written: byte i of the stream is named i - 1.
Prefix(n) == [i \in 1..n |-> i - 1]

Init ==
    /\ written = 0
    /\ closed = FALSE
    /\ aborted = FALSE
    /\ delivered = << >>
    /\ ended = FALSE
    /\ abort_seen = FALSE

Write ==
    /\ ~closed
    /\ ~aborted
    /\ written' \in written..MaxOffset
    /\ closed' \in BOOLEAN
    /\ UNCHANGED <<aborted, delivered, ended, abort_seen>>

Abort ==
    /\ aborted' = TRUE
    /\ UNCHANGED <<written, closed, delivered, ended, abort_seen>>

Deliver ==
    /\ \E n \in Len(delivered)..written : delivered' = Prefix(n)
    /\ \/ ended' = ended
       \/ /\ ended' = TRUE
          /\ (closed /\ Len(delivered') = written) \/ abort_seen
    /\ UNCHANGED <<written, closed, aborted, abort_seen>>

SeeAbort ==
    /\ aborted
    /\ abort_seen' = TRUE
    /\ UNCHANGED <<written, closed, aborted, delivered, ended>>

Next == Write \/ Abort \/ Deliver \/ SeeAbort

Spec == Init /\ [][Next]_vars
=============================================================================
