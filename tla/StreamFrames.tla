---------------------------- MODULE StreamFrames ----------------------------
(***************************************************************************)
(* What the two parts of a stream share: byte offsets, STREAM frames, and  *)
(* the first range of a set of offsets (ranges[0] of a RangeSet).  A byte  *)
(* is named by its offset.                                                 *)
(***************************************************************************)
EXTENDS Integers

CONSTANT MaxOffset    \* bound: bytes the application may write

ASSUME MaxOffsetAssumption == MaxOffset \in Nat

NoFin == -1           \* _buffer_fin or _final_size is None

Offset == 0..MaxOffset
Frame == [start : Offset, stop : Offset, fin : BOOLEAN]
Bytes(f) == f.start..(f.stop - 1)

\* The first range of the set starts at start and ends before stop.
FirstRange(set, start, stop) ==
    /\ start \in set
    /\ \A o \in set : start <= o
    /\ start < stop
    /\ start..(stop - 1) \subseteq set
    /\ stop \notin set

Larger(a, b) == IF a > b THEN a ELSE b
=============================================================================
