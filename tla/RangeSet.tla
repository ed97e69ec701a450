------------------------------ MODULE RangeSet ------------------------------
(***************************************************************************)
(* class RangeSet of quic/rangeset.py: a list of ranges, and the way add() *)
(* and subtract() walk through it.                                         *)
(***************************************************************************)
EXTENDS StreamFrames, SequencesExt

Span(start, stop) == [start |-> start, stop |-> stop]

VARIABLES ranges,
          call       \* history: the operation that was called last

RangesInit ==
    /\ ranges = << >>
    /\ call = << >>

-----------------------------------------------------------------------------
\* Variant with a slip: a range that ends where the added one starts is passed.
FirstOverlapping(start) ==
    CHOOSE i \in 1..(Len(ranges) + 1) :
        /\ \A j \in 1..(i - 1) : start >= ranges[j].stop
        /\ i <= Len(ranges) => start < ranges[i].stop

\* The first item that the added range does not lie entirely after; one past
\* the end if there is none.
FirstNotBefore(start) ==
    CHOOSE i \in 1..(Len(ranges) + 1) :
        /\ \A j \in 1..(i - 1) : start > ranges[j].stop
        /\ i <= Len(ranges) => start <= ranges[i].stop

\* The inner loop of add(): following items are merged as long as they start
\* within the range, which grows by them.  The result is the last item merged
\* and the end of the range.
Absorb(i, stop) ==
    LET from[j \in 1..Len(ranges)] ==
            [end \in Offset |->
                IF j < Len(ranges) /\ ranges[j + 1].start <= end
                THEN from[j + 1][Larger(ranges[j + 1].stop, end)]
                ELSE [last |-> j, stop |-> end]]
    IN  from[i][stop]

Add(start, stop) ==
    LET i == FirstNotBefore(start)
    IN  /\ start < stop
        /\ call' = <<"add", start, stop>>
        /\ \/ /\ i > Len(ranges)
              /\ ranges' = Append(ranges, Span(start, stop))
           \/ /\ i <= Len(ranges)
              /\ stop < ranges[i].start
              /\ ranges' = InsertAt(ranges, i, Span(start, stop))
           \/ /\ i <= Len(ranges)
              /\ stop >= ranges[i].start
              /\ LET low == IF start < ranges[i].start THEN start ELSE ranges[i].start
                     merged == Absorb(i, Larger(stop, ranges[i].stop))
                 IN  ranges' = SubSeq(ranges, 1, i - 1)
                               \o <<Span(low, merged.stop)>>
                               \o SubSeq(ranges, merged.last + 1, Len(ranges))

\* Variant with a slip: a range is not split in two.
RemainderUnsplit(r, start, stop) ==
    IF start <= r.start /\ stop >= r.stop THEN << >>
    ELSE IF start > r.start THEN <<Span(r.start, start)>>
                            ELSE <<Span(stop, r.stop)>>

\* What subtract() leaves of one item that the removed range overlaps.
Remainder(r, start, stop) ==
    IF start <= r.start /\ stop >= r.stop THEN << >>
    ELSE IF start > r.start
         THEN <<Span(r.start, start)>> \o
              (IF stop < r.stop THEN <<Span(stop, r.stop)>> ELSE << >>)
         ELSE <<Span(stop, r.stop)>>

\* The loop of subtract() from item i on: it stops at an item that lies after
\* the removed range.
SubtractFrom(start, stop) ==
    LET from[i \in 1..(Len(ranges) + 1)] ==
            IF i > Len(ranges) THEN << >>
            ELSE LET r == ranges[i]
                 IN  IF stop <= r.start THEN SubSeq(ranges, i, Len(ranges))
                     ELSE (IF start >= r.stop THEN <<r>> ELSE Remainder(r, start, stop))
                          \o from[i + 1]
    IN  from[1]

Subtract(start, stop) ==
    /\ start < stop
    /\ call' = <<"subtract", start, stop>>
    /\ ranges' = SubtractFrom(start, stop)

\* shift() takes the first range away.
Shift ==
    /\ ranges # << >>
    /\ call' = <<"shift">>
    /\ ranges' = Tail(ranges)

\* __contains__()
Holds(val) == \E i \in DOMAIN ranges : ranges[i].start <= val /\ val < ranges[i].stop

\* bounds()
Bounds == Span(ranges[1].start, ranges[Len(ranges)].stop)

RangesNext ==
    \/ \E start, stop \in Offset : Add(start, stop) \/ Subtract(start, stop)
    \/ Shift

RangesSpec == RangesInit /\ [][RangesNext]_<<ranges, call>>

-----------------------------------------------------------------------------
(* Safety.                                                                 *)

Members == {o \in Offset : Holds(o)}

\* The list is sorted, its ranges are not empty and no two touch: equal sets
\* have equal lists, which __eq__ relies on, item 0 is the first run of the set
\* (_pull_data, on_data_delivery), and bounds() ends at its largest member
\* (on_ack_received).
Canonical ==
    /\ \A i \in DOMAIN ranges : ranges[i].start < ranges[i].stop
    /\ \A i \in 1..(Len(ranges) - 1) : ranges[i].stop < ranges[i + 1].start
    /\ ranges # << >> => Members \subseteq Bounds.start..(Bounds.stop - 1)

\* The list of ranges is the set of offsets: add() is union, subtract() is
\* difference and shift() takes the first run of the set.
Set == INSTANCE OffsetSet WITH members <- Members

ImplementsOffsetSet == Set!Spec
=============================================================================
