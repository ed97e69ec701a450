----------------------------- MODULE OffsetSet ------------------------------
(***************************************************************************)
(* What a RangeSet stands for: a set of offsets that intervals are added   *)
(* to and subtracted from, and whose first run is taken away.  The stream  *)
(* modules keep such sets where the code keeps RangeSets.                  *)
(***************************************************************************)
EXTENDS StreamFrames

VARIABLES members,
          call       \* the operation that was called last

Init ==
    /\ members = {}
    /\ call = << >>

Add(start, stop) ==
    /\ call' = <<"add", start, stop>>
    /\ start < stop
    /\ members' = members \cup start..(stop - 1)

Subtract(start, stop) ==
    /\ call' = <<"subtract", start, stop>>
    /\ start < stop
    /\ members' = members \ (start..(stop - 1))

Shift(start, stop) ==
    /\ call' = <<"shift">>
    /\ FirstRange(members, start, stop)
    /\ members' = members \ (start..(stop - 1))

Next == \E start, stop \in Offset :
            Add(start, stop) \/ Subtract(start, stop) \/ Shift(start, stop)

Spec == Init /\ [][Next]_<<members, call>>
=============================================================================
