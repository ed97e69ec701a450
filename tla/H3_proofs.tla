------------------------------ MODULE H3_proofs ------------------------------
(***************************************************************************)
(* Proofs about H3.tla, for any number of frames, any sizes and needs, and *)
(* every way in which the streams are cut and interleaved.  The invariant  *)
(* says of each stream what is still to come: the rest of the frame that   *)
(* the client is reading, then whole frames, which take the message from   *)
(* what the client has counted to what the server has written.             *)
(***************************************************************************)
EXTENDS H3, FoldLemmas, SequenceTheorems

Kind == {"headers", "data", "push_promise", "reserved", "push_stream", "none"}
Length == Nat \cup {None}
FrameType == [type : Kind, size : Nat, need : Nat, length : Length]
UnitType == [part : {"type", "size", "body", "stream_type", "push_id"}, frame : FrameType]
Part == {"headers", "trailers", "data", "promise", "end"}
StreamType ==
    [buffer : Seq(UnitType), blocked : BOOLEAN, ended : BOOLEAN, frame_size : Length,
     frame : FrameType, headers_recv_state : HeadersState, stream_type : {"none", "push"},
     push_id : {None, 0}, expected_content_length : Length, content_length : Nat,
     need : Nat]

-----------------------------------------------------------------------------
(* Messages and the frames that carry them.                                *)

\* How far a message is: its headers and trailers, its data, what it declared, and the
\* type of the last frame.
MessageType == [phase : HeadersState, data : Nat, declared : Length, last : Kind]

\* The frames that may come next in a message on stream s.
Allowed(s, f, x) ==
    \/ /\ f.type = "headers" /\ f.size = 1
       /\ x.phase # "after_trailers"
       /\ x.phase = "after_headers" => f.length = None
       /\ x.phase = "initial" => x.declared = None
    \/ f.type = "data" /\ x.phase = "after_headers"
    \/ f.type = "push_promise" /\ f.size = 1 /\ s = "request" /\ f.need \in PromiseNeeds
    \/ f.type = "reserved" /\ f.size = 1

\* What the events report of a frame.
PartsOf(f, x) ==
    IF f.type = "headers" THEN <<IF x.phase = "initial" THEN "headers" ELSE "trailers">>
    ELSE IF f.type = "data" THEN [i \in 1..f.size |-> "data"]
    ELSE IF f.type = "push_promise" THEN <<"promise">>
    ELSE << >>

\* How far the message is after a frame.
After(f, x) ==
    [phase |-> IF f.type # "headers" THEN x.phase
               ELSE IF x.phase = "initial" THEN "after_headers" ELSE "after_trailers",
     data |-> IF f.type = "data" THEN x.data + f.size ELSE x.data,
     declared |-> IF f.type = "headers" /\ x.phase = "initial" THEN f.length
                  ELSE x.declared,
     last |-> f.type]

\* Units, how far the message is before them, and the parts they report.
Portion == Seq(UnitType) \X MessageType \X Seq(Part)

\* A set of portions that has the empty one, for a message as far as y, and with each
\* portion that which has one allowed frame more in front.
Closed(s, y, S) ==
    /\ << << >>, y, << >> >> \in S
    /\ \A f \in FrameType, x \in MessageType, u \in Seq(UnitType), p \in Seq(Part) :
          Allowed(s, f, x) /\ <<u, After(f, x), p>> \in S
              => <<encode_frame(f) \o u, x, PartsOf(f, x) \o p>> \in S

\* The units are whole frames, which take the message from x to y and report p: the
\* portion is in every such set.
Carries(s, u, x, p, y) ==
    /\ <<u, x, p>> \in Portion
    /\ \A S \in SUBSET Portion : Closed(s, y, S) => <<u, x, p>> \in S

-----------------------------------------------------------------------------
(* What is left of a sequence.                                             *)

\* A sequence without its first k items.
Drop(u, k) == SubSeq(u, k + 1, Len(u))

\* It has the other items.
LEMMA DropItems ==
    ASSUME NEW U, NEW u \in Seq(U), NEW k \in 0..Len(u)
    PROVE  /\ Drop(u, k) \in Seq(U)
           /\ Len(Drop(u, k)) = Len(u) - k
           /\ \A i \in 1..(Len(u) - k) : Drop(u, k)[i] = u[k + i]
<1>1. Len(u) \in Nat /\ \A i \in 1..Len(u) : u[i] \in U
      BY LenProperties, ElementOfSeq
<1>2. \A i \in (k + 1)..Len(u) : u[i] \in U
      BY <1>1
<1> DEFINE m == k + 1
           n == Len(u)
<1>3. m \in Int /\ n \in Int
      BY <1>1
<1>4. /\ SubSeq(u, m, n) \in Seq(U)
      /\ Len(SubSeq(u, m, n)) = IF m <= n THEN n - m + 1 ELSE 0
      /\ \A i \in 1..(n - m + 1) : SubSeq(u, m, n)[i] = u[m + i - 1]
      BY <1>2, <1>3, SubSeqProperties
<1>5. n - m + 1 = Len(u) - k /\ (m <= n \/ Len(u) - k = 0)
      BY <1>1
<1>6. \A i \in Int : m + i - 1 = k + i
      OBVIOUS
<1>7. Drop(u, k) = SubSeq(u, m, n)
      BY DEF Drop
<1> HIDE DEF m, n
<1>8. \A i \in 1..(Len(u) - k) : SubSeq(u, m, n)[i] = u[k + i]
      BY <1>4, <1>5, <1>6
<1>9. QED BY <1>1, <1>4, <1>5, <1>7, <1>8

\* Nothing is left without all, and all is left without none.
LEMMA DropEnds ==
    ASSUME NEW U, NEW u \in Seq(U)
    PROVE  Drop(u, 0) = u /\ Drop(u, Len(u)) = << >>
<1>1. Len(u) \in Nat
      BY LenProperties
<1>2. Drop(u, 0) = u
      BY SubSeqFull DEF Drop
<1>3. Len(Drop(u, Len(u))) = 0 /\ Drop(u, Len(u)) \in Seq(U)
  <2>1. Len(u) \in 0..Len(u) /\ Len(u) - Len(u) = 0
        BY <1>1
  <2>2. QED BY <2>1, DropItems
<1>4. QED BY <1>2, <1>3, EmptySeq

\* What is dropped in front leaves what was appended.
LEMMA DropConcat ==
    ASSUME NEW U, NEW u \in Seq(U), NEW v \in Seq(U), NEW k \in 0..Len(u)
    PROVE  Drop(u \o v, k) = Drop(u, k) \o v
<1> DEFINE a == u \o v
           b == Drop(u, k)
           c == Drop(a, k)
           d == b \o v
<1>1. Len(u) \in Nat /\ Len(v) \in Nat
      BY LenProperties
<1>2. /\ a \in Seq(U) /\ Len(a) = Len(u) + Len(v)
      /\ \A i \in 1..(Len(u) + Len(v)) : a[i] = IF i <= Len(u) THEN u[i] ELSE v[i - Len(u)]
      BY ConcatProperties
<1>3. /\ b \in Seq(U) /\ Len(b) = Len(u) - k
      /\ \A i \in 1..(Len(u) - k) : b[i] = u[k + i]
      BY DropItems
<1>4. k \in 0..Len(a)
      BY <1>1, <1>2
<1> HIDE DEF a
<1>5. /\ c \in Seq(U) /\ Len(c) = Len(a) - k
      /\ \A i \in 1..(Len(a) - k) : c[i] = a[k + i]
  <2>1. c = Drop(a, k)
        OBVIOUS
  <2> HIDE DEF b, c, d
  <2>2. QED BY <1>2, <1>4, <2>1, DropItems
<1> HIDE DEF b, c
<1>6. /\ d \in Seq(U) /\ Len(d) = Len(b) + Len(v)
      /\ \A i \in 1..(Len(b) + Len(v)) : d[i] = IF i <= Len(b) THEN b[i] ELSE v[i - Len(b)]
      BY <1>3, ConcatProperties
<1> HIDE DEF d
<1>7. Len(c) = Len(d)
      BY <1>1, <1>2, <1>3, <1>5, <1>6
<1>8. ASSUME NEW i \in 1..Len(c) PROVE c[i] = d[i]
  <2>1. c[i] = a[k + i] /\ k + i \in 1..(Len(u) + Len(v))
        BY <1>1, <1>2, <1>5
  <2>2. CASE i <= Len(u) - k
    <3>1. k + i <= Len(u) /\ i \in 1..(Len(u) - k) /\ i \in 1..(Len(b) + Len(v))
          BY <1>1, <1>3, <2>2
    <3>2. QED BY <1>2, <1>3, <1>6, <2>1, <2>2, <3>1
  <2>3. CASE ~(i <= Len(u) - k)
    <3>1. ~(k + i <= Len(u)) /\ k + i - Len(u) = i - Len(b) /\ ~(i <= Len(b))
          BY <1>1, <1>3, <2>3
    <3>2. i \in 1..(Len(b) + Len(v))
          BY <1>6, <1>7
    <3>3. a[k + i] = v[k + i - Len(u)]
          BY <1>2, <2>1, <3>1
    <3>4. d[i] = v[i - Len(b)]
          BY <1>6, <3>1, <3>2
    <3>5. QED BY <2>1, <3>1, <3>3, <3>4
  <2>4. QED BY <2>2, <2>3
<1>9. c = d
      BY <1>5, <1>6, <1>7, <1>8, SeqEqual
<1>10. QED BY <1>9 DEF a, b, c, d

\* To drop some and then others is to drop them all.
LEMMA DropTwice ==
    ASSUME NEW U, NEW u \in Seq(U), NEW i \in Nat, NEW j \in Nat, i + j <= Len(u)
    PROVE  Drop(Drop(u, i), j) = Drop(u, i + j)
<1> DEFINE b == Drop(u, i)
           c == Drop(b, j)
           d == Drop(u, i + j)
<1>1. Len(u) \in Nat /\ i \in 0..Len(u) /\ i + j \in 0..Len(u)
      BY LenProperties
<1>2. /\ b \in Seq(U) /\ Len(b) = Len(u) - i
      /\ \A k \in 1..(Len(u) - i) : b[k] = u[i + k]
      BY <1>1, DropItems
<1> DEFINE n == i + j
<1>3. /\ d \in Seq(U) /\ Len(d) = Len(u) - n
      /\ \A k \in 1..(Len(u) - n) : d[k] = u[n + k]
  <2>1. n \in 0..Len(u)
        BY <1>1
  <2> HIDE DEF n
  <2>2. d = Drop(u, n)
        BY DEF n
  <2> HIDE DEF d
  <2>3. QED BY <2>1, <2>2, DropItems
<1>4. j \in 0..Len(b)
      BY <1>1, <1>2
<1> HIDE DEF b, d
<1>5. /\ c \in Seq(U) /\ Len(c) = Len(b) - j
      /\ \A k \in 1..(Len(b) - j) : c[k] = b[j + k]
  <2>1. c = Drop(b, j)
        OBVIOUS
  <2> HIDE DEF b, c, d, n
  <2>2. b \in Seq(U) /\ j \in 0..Len(b)
        BY <1>2, <1>4
  <2>3. QED BY ONLY <2>1, <2>2, DropItems
<1> HIDE DEF c
<1>6. Len(c) = Len(d)
      BY <1>1, <1>2, <1>3, <1>5
<1>7. ASSUME NEW k \in 1..Len(c) PROVE c[k] = d[k]
  <2>1. j + k \in 1..(Len(u) - i) /\ i + (j + k) = n + k /\ k \in 1..(Len(u) - n)
        /\ k \in 1..(Len(b) - j)
        BY <1>1, <1>2, <1>5
  <2> HIDE DEF n
  <2>2. c[k] = b[j + k] /\ b[j + k] = u[i + (j + k)] /\ d[k] = u[n + k]
        BY <1>2, <1>3, <1>5, <2>1
  <2>3. QED BY <2>1, <2>2
<1>8. c = d
  <2> HIDE DEF n
  <2> QED BY <1>3, <1>5, <1>6, <1>7, SeqEqual
<1>9. QED BY <1>8 DEF b, c, d

\* The first items and what is left without them.
LEMMA TakeAndDrop ==
    ASSUME NEW U, NEW u \in Seq(U), NEW k \in 0..Len(u)
    PROVE  /\ SubSeq(u, 1, k) \in Seq(U) /\ Len(SubSeq(u, 1, k)) = k
           /\ SubSeq(u, 1, k) \o Drop(u, k) = u
<1>1. Len(u) \in Nat /\ \A i \in 1..Len(u) : u[i] \in U
      BY LenProperties, ElementOfSeq
<1>2. \A i \in 1..k : u[i] \in U
      BY <1>1
<1> DEFINE one == 1
<1>3. /\ SubSeq(u, 1, k) \in Seq(U) /\ Len(SubSeq(u, 1, k)) = IF 1 <= k THEN k - 1 + 1 ELSE 0
  <2>1. one \in Int /\ k \in Int /\ \A i \in one..k : u[i] \in U
        BY <1>2
  <2> HIDE DEF one
  <2>2. /\ SubSeq(u, one, k) \in Seq(U)
        /\ Len(SubSeq(u, one, k)) = IF one <= k THEN k - one + 1 ELSE 0
        BY <2>1, SubSeqProperties
  <2>3. QED BY <2>2 DEF one
<1>4. SubSeq(u, 1, k) \o SubSeq(u, k + 1, Len(u)) = SubSeq(u, 1, Len(u))
  <2>1. one \in 1..(Len(u) + 1) /\ k \in (one - 1)..Len(u) /\ Len(u) \in k..Len(u)
        BY <1>1
  <2> HIDE DEF one
  <2>2. SubSeq(u, one, k) \o SubSeq(u, k + 1, Len(u)) = SubSeq(u, one, Len(u))
        BY <2>1, ConcatAdjacentSubSeq
  <2>3. QED BY <2>2 DEF one
<1>5. SubSeq(u, 1, Len(u)) = u
      BY SubSeqFull
<1>6. Len(SubSeq(u, 1, k)) = k
      BY <1>3
<1>7. SubSeq(u, 1, k) \o Drop(u, k) = u
      BY <1>4, <1>5 DEF Drop
<1>8. SubSeq(u, 1, k) \in Seq(U)
      BY <1>3
<1>9. QED BY <1>6, <1>7, <1>8

-----------------------------------------------------------------------------
(* Frames and what they carry.                                             *)

\* Units are put together in any order.
LEMMA UnitsTogether ==
    ASSUME NEW a \in Seq(UnitType), NEW b \in Seq(UnitType), NEW c \in Seq(UnitType)
    PROVE  (a \o b) \o c = a \o (b \o c)
BY ConcatAssociative

\* And so are parts.
LEMMA PartsTogether ==
    ASSUME NEW a \in Seq(Part), NEW b \in Seq(Part), NEW c \in Seq(Part)
    PROVE  (a \o b) \o c = a \o (b \o c)
BY ConcatAssociative

\* A frame is its type, its size and its body.
LEMMA FrameUnits ==
    ASSUME NEW f \in FrameType
    PROVE  /\ encode_frame(f) \in Seq(UnitType)
           /\ Len(encode_frame(f)) = f.size + 2
           /\ encode_frame(f)[1] = Unit("type", f)
<1> DEFINE head == <<Unit("type", f), Unit("size", f)>>
           body == [i \in 1..f.size |-> Unit("body", f)]
<1>1. /\ Unit("type", f) \in UnitType /\ Unit("size", f) \in UnitType
      /\ Unit("body", f) \in UnitType
      BY DEF Unit, UnitType
<1>2. f.size \in Nat
      BY DEF FrameType
<1>3. head \in Seq(UnitType) /\ Len(head) = 2 /\ head[1] = Unit("type", f)
      BY <1>1
<1>4. body \in Seq(UnitType) /\ Len(body) = f.size
      BY <1>1, <1>2
<1>5. encode_frame(f) = head \o body
      BY DEF encode_frame
<1> HIDE DEF head, body
<1>6. /\ head \o body \in Seq(UnitType)
      /\ Len(head \o body) = Len(head) + Len(body)
      /\ \A i \in 1..(Len(head) + Len(body)) : (head \o body)[i] =
             IF i <= Len(head) THEN head[i] ELSE body[i - Len(head)]
      BY <1>3, <1>4, ConcatProperties
<1>7. 1 \in 1..(Len(head) + Len(body)) /\ 1 <= Len(head)
      BY <1>2, <1>3, <1>4
<1>8. (head \o body)[1] = Unit("type", f)
      BY <1>3, <1>6, <1>7
<1>9. Len(head \o body) = f.size + 2
      BY <1>2, <1>3, <1>4, <1>6
<1>10. QED BY <1>5, <1>6, <1>8, <1>9

\* Without the frame in front, the units are those after it.
LEMMA FrameInFront ==
    ASSUME NEW f \in FrameType, NEW u \in Seq(UnitType)
    PROVE  /\ encode_frame(f) \o u \in Seq(UnitType)
           /\ Len(encode_frame(f) \o u) = f.size + 2 + Len(u)
           /\ (encode_frame(f) \o u)[1] = Unit("type", f)
           /\ Drop(encode_frame(f) \o u, f.size + 2) = u
<1> DEFINE e == encode_frame(f)
<1>1. e \in Seq(UnitType) /\ Len(e) = f.size + 2 /\ e[1] = Unit("type", f)
      BY FrameUnits
<1>2. f.size \in Nat /\ Len(u) \in Nat
      BY LenProperties DEF FrameType
<1> HIDE DEF e
<1>3. /\ e \o u \in Seq(UnitType)
      /\ Len(e \o u) = Len(e) + Len(u)
      /\ \A i \in 1..(Len(e) + Len(u)) : (e \o u)[i] =
             IF i <= Len(e) THEN e[i] ELSE u[i - Len(e)]
      BY <1>1, ConcatProperties
<1>4. 1 \in 1..(Len(e) + Len(u)) /\ 1 <= Len(e)
      BY <1>1, <1>2
<1>5. (e \o u)[1] = Unit("type", f)
      BY <1>1, <1>3, <1>4
<1>6. Drop(e \o u, Len(e)) = Drop(e, Len(e)) \o u
  <2>1. Len(e) \in 0..Len(e)
        BY <1>1, <1>2
  <2>2. QED BY <1>1, <2>1, DropConcat
<1>7. Drop(e, Len(e)) \o u = u
      BY <1>1, DropEnds, ConcatEmptySeq
<1>8. QED BY <1>1, <1>3, <1>5, <1>6, <1>7 DEF e

\* What a frame makes of a message.
LEMMA FrameTypes ==
    ASSUME NEW f \in FrameType, NEW x \in MessageType
    PROVE  After(f, x) \in MessageType /\ PartsOf(f, x) \in Seq(Part)
<1>1. f.size \in Nat /\ f.length \in Length
      BY DEF FrameType
<1>2. After(f, x) \in MessageType
  <2>1. /\ x.phase \in HeadersState /\ x.data \in Nat /\ x.declared \in Length
        /\ f.type \in Kind
        BY DEF MessageType, FrameType
  <2>2. "after_headers" \in HeadersState /\ "after_trailers" \in HeadersState
        BY DEF HeadersState
  <2>3. x.data + f.size \in Nat
        BY <1>1, <2>1
  <2>4. QED BY <1>1, <2>1, <2>2, <2>3 DEF After, MessageType
<1>3. [i \in 1..f.size |-> "data"] \in Seq(Part)
  <2>1. "data" \in Part
        BY DEF Part
  <2>2. QED BY <1>1, <2>1
<1>4. <<"headers">> \in Seq(Part) /\ <<"trailers">> \in Seq(Part) /\ <<"promise">> \in Seq(Part)
      /\ << >> \in Seq(Part)
      BY DEF Part
<1>5. PartsOf(f, x) \in Seq(Part)
      BY <1>3, <1>4 DEF PartsOf
<1>6. QED BY <1>2, <1>5

-----------------------------------------------------------------------------
(* What units carry.                                                       *)

\* The parts of a portion.
LEMMA CarriesTypes ==
    ASSUME NEW s, NEW u, NEW x, NEW p, NEW y, Carries(s, u, x, p, y)
    PROVE  u \in Seq(UnitType) /\ x \in MessageType /\ p \in Seq(Part)
<1>1. <<u, x, p>> \in Portion
      BY DEF Carries
<1>2. QED BY <1>1 DEF Portion

\* No units, with nothing to report.
LEMMA EmptyPortion ==
    ASSUME NEW y \in MessageType
    PROVE  << << >>, y, << >> >> \in Portion
<1>1. << >> \in Seq(UnitType)
      BY EmptySeq
<1>2. << >> \in Seq(Part)
      BY EmptySeq
<1> DEFINE e == << >>
<1> HIDE DEF e
<1>3. <<e, y, e>> \in Seq(UnitType) \X MessageType \X Seq(Part)
      BY <1>1, <1>2 DEF e
<1>4. QED BY <1>3 DEF e, Portion

\* No units carry no frames.
LEMMA CarriesNone ==
    ASSUME NEW s, NEW y \in MessageType
    PROVE  Carries(s, << >>, y, << >>, y)
<1>1. << << >>, y, << >> >> \in Portion
      BY EmptyPortion
<1>2. \A S \in SUBSET Portion : Closed(s, y, S) => << << >>, y, << >> >> \in S
      BY Zenon DEF Closed
<1>3. QED BY <1>1, <1>2, Zenon DEF Carries

\* An allowed frame comes in front.
LEMMA CarriesMore ==
    ASSUME NEW s, NEW f \in FrameType, NEW x \in MessageType, NEW u, NEW p, NEW y,
           Allowed(s, f, x), Carries(s, u, After(f, x), p, y)
    PROVE  Carries(s, encode_frame(f) \o u, x, PartsOf(f, x) \o p, y)
<1> DEFINE v == encode_frame(f) \o u
           q == PartsOf(f, x) \o p
<1>1. u \in Seq(UnitType) /\ p \in Seq(Part)
      BY CarriesTypes
<1>2. v \in Seq(UnitType)
      BY <1>1, FrameInFront
<1>3. q \in Seq(Part)
      BY <1>1, FrameTypes, ConcatProperties
<1>4. <<v, x, q>> \in Portion
      BY <1>2, <1>3 DEF Portion
<1>5. ASSUME NEW S \in SUBSET Portion, Closed(s, y, S) PROVE <<v, x, q>> \in S
  <2>1. <<u, After(f, x), p>> \in S
        BY <1>5 DEF Carries
  <2>2. QED BY <1>1, <1>5, <2>1 DEF Closed
<1> HIDE DEF v, q
<1>6. Carries(s, v, x, q, y)
      BY <1>4, <1>5 DEF Carries
<1>7. QED BY <1>6 DEF v, q

\* The units have a frame in front of others.
FirstFrame(s, u, x, p, y) ==
    \E f \in FrameType, v \in Seq(UnitType), q \in Seq(Part) :
        /\ Allowed(s, f, x)
        /\ u = encode_frame(f) \o v
        /\ p = PartsOf(f, x) \o q
        /\ Carries(s, v, After(f, x), q, y)

\* Units that carry frames are none, or have a frame in front of others.
LEMMA CarriesFirst ==
    ASSUME NEW s, NEW u, NEW x, NEW p, NEW y \in MessageType, Carries(s, u, x, p, y)
    PROVE  <<u, x, p>> = << << >>, y, << >> >> \/ FirstFrame(s, u, x, p, y)
<1> DEFINE S == {t \in Portion : t = << << >>, y, << >> >> \/ FirstFrame(s, t[1], t[2], t[3], y)}
<1>1. << << >>, y, << >> >> \in S
      BY EmptyPortion
<1>2. ASSUME NEW f \in FrameType, NEW z \in MessageType, NEW v \in Seq(UnitType),
             NEW q \in Seq(Part), Allowed(s, f, z), <<v, After(f, z), q>> \in S
      PROVE  <<encode_frame(f) \o v, z, PartsOf(f, z) \o q>> \in S
  <2> DEFINE a == After(f, z)
             w == encode_frame(f) \o v
             r == PartsOf(f, z) \o q
  <2>1. Carries(s, v, a, q, y)
    <3> HIDE DEF a
    <3>1. <<v, a, q>> = << << >>, y, << >> >> \/ FirstFrame(s, v, a, q, y)
          BY <1>2 DEF a
    <3>2. CASE <<v, a, q>> = << << >>, y, << >> >>
      <4>1. v = << >> /\ a = y /\ q = << >>
            BY <3>2
      <4>2. QED BY <4>1, CarriesNone
    <3>3. CASE FirstFrame(s, v, a, q, y)
      <4>1. PICK g \in FrameType, v2 \in Seq(UnitType), q2 \in Seq(Part) :
                /\ Allowed(s, g, a)
                /\ v = encode_frame(g) \o v2
                /\ q = PartsOf(g, a) \o q2
                /\ Carries(s, v2, After(g, a), q2, y)
            BY <3>3 DEF FirstFrame
      <4>2. a \in MessageType
            BY FrameTypes DEF a
      <4>3. QED BY <4>1, <4>2, CarriesMore
    <3>4. QED BY <3>1, <3>2, <3>3
  <2>2. w \in Seq(UnitType)
        BY FrameInFront
  <2>3. r \in Seq(Part)
        BY FrameTypes, ConcatProperties
  <2>4. FirstFrame(s, w, z, r, y)
        BY <1>2, <2>1 DEF FirstFrame
  <2> HIDE DEF w, r
  <2>5. <<w, z, r>> \in Portion
        BY <2>2, <2>3 DEF Portion
  <2>6. <<w, z, r>> \in S
        BY <2>4, <2>5
  <2>7. QED BY <2>6 DEF w, r
<1>3. Closed(s, y, S)
  <2> HIDE DEF S
  <2> QED BY <1>1, <1>2 DEF Closed
<1>4. <<u, x, p>> \in S
  <2>1. S \in SUBSET Portion
        OBVIOUS
  <2> HIDE DEF S
  <2>2. QED BY <1>3, <2>1 DEF Carries
<1>5. QED BY <1>4

\* A frame comes after the others.
LEMMA CarriesAppended ==
    ASSUME NEW s, NEW u, NEW x, NEW p, NEW y \in MessageType, Carries(s, u, x, p, y),
           NEW g \in FrameType, Allowed(s, g, y)
    PROVE  Carries(s, u \o encode_frame(g), x, p \o PartsOf(g, y), After(g, y))
<1> DEFINE e == encode_frame(g)
           d == PartsOf(g, y)
           z == After(g, y)
           S == {t \in Portion : Carries(s, t[1] \o e, t[2], t[3] \o d, z)}
<1>1. e \in Seq(UnitType) /\ d \in Seq(Part) /\ z \in MessageType
      BY FrameUnits, FrameTypes
<1>2. << << >>, y, << >> >> \in S
  <2>1. Carries(s, << >>, z, << >>, z)
        BY <1>1, CarriesNone
  <2>2. Carries(s, e \o << >>, y, d \o << >>, z)
        BY <2>1, CarriesMore
  <2>3. e \o << >> = << >> \o e /\ d \o << >> = << >> \o d
        BY <1>1, ConcatEmptySeq
  <2> HIDE DEF e, d, z
  <2>4. Carries(s, << >> \o e, y, << >> \o d, z)
        BY <2>2, <2>3
  <2>5. << << >>, y, << >> >> \in Portion
        BY EmptyPortion
  <2>6. QED BY <2>4, <2>5
<1>3. ASSUME NEW f \in FrameType, NEW a \in MessageType, NEW v \in Seq(UnitType),
             NEW q \in Seq(Part), Allowed(s, f, a), <<v, After(f, a), q>> \in S
      PROVE  <<encode_frame(f) \o v, a, PartsOf(f, a) \o q>> \in S
  <2> DEFINE h == encode_frame(f)
             k == PartsOf(f, a)
  <2>1. h \in Seq(UnitType) /\ k \in Seq(Part)
        BY FrameUnits, FrameTypes
  <2>2. Carries(s, v \o e, After(f, a), q \o d, z)
    <3> HIDE DEF e, d, z
    <3> QED BY <1>3
  <2>3. Carries(s, h \o (v \o e), a, k \o (q \o d), z)
    <3> HIDE DEF e, d, z
    <3> QED BY <1>3, <2>2, CarriesMore
  <2> HIDE DEF h, k, e, d, z
  <2>0. v \in Seq(UnitType) /\ q \in Seq(Part)
        BY <1>3
  <2>4. (h \o v) \o e = h \o (v \o e)
    <3>1. e \in Seq(UnitType) /\ h \in Seq(UnitType)
          BY <1>1, <2>1
    <3>2. QED BY ONLY <2>0, <3>1, UnitsTogether, Zenon
  <2>5. (k \o q) \o d = k \o (q \o d)
    <3>1. d \in Seq(Part) /\ k \in Seq(Part)
          BY <1>1, <2>1
    <3>2. QED BY ONLY <2>0, <3>1, PartsTogether, Zenon
  <2>6. h \o v \in Seq(UnitType) /\ k \o q \in Seq(Part)
        BY <2>1, ConcatProperties
  <2>7. <<h \o v, a, k \o q>> \in Portion
        BY <2>6 DEF Portion
  <2>8. Carries(s, (h \o v) \o e, a, (k \o q) \o d, z)
        BY <2>3, <2>4, <2>5
  <2>9. <<h \o v, a, k \o q>> \in S
        BY <2>7, <2>8
  <2>10. QED BY <2>9 DEF h, k
<1>4. Closed(s, y, S)
  <2> HIDE DEF S
  <2> QED BY <1>2, <1>3 DEF Closed
<1>5. <<u, x, p>> \in S
  <2>1. S \in SUBSET Portion
        OBVIOUS
  <2> HIDE DEF S
  <2>2. QED BY <1>4, <2>1 DEF Carries
<1>6. QED BY <1>5

\* The units that are left are none when their number is, and then the message is as
\* far as it will be; and there is never one alone.
LEMMA CarriesEnd ==
    ASSUME NEW s, NEW u, NEW x, NEW p, NEW y \in MessageType, Carries(s, u, x, p, y),
           Len(u) < 2
    PROVE  u = << >> /\ x = y /\ p = << >>
<1>1. CASE FirstFrame(s, u, x, p, y)
  <2>1. PICK f \in FrameType, v \in Seq(UnitType) : u = encode_frame(f) \o v
        BY <1>1 DEF FirstFrame
  <2>2. Len(u) = f.size + 2 + Len(v)
        BY <2>1, FrameInFront
  <2>3. f.size \in Nat /\ Len(v) \in Nat
        BY LenProperties DEF FrameType
  <2>4. QED BY <2>2, <2>3
<1>2. CASE <<u, x, p>> = << << >>, y, << >> >>
      BY <1>2
<1>3. QED BY <1>1, <1>2, CarriesFirst

-----------------------------------------------------------------------------
(* What a stream has still to read.                                        *)

\* How far the message is that the client has counted.
Message(st) ==
    [phase |-> st.headers_recv_state, data |-> st.content_length,
     declared |-> st.expected_content_length, last |-> st.frame.type]

\* What is left of the frame in hand; the body of a blocked one has been taken.
Rest(st) == [st.frame EXCEPT !.size = IF st.blocked THEN 1 ELSE st.frame_size]
InHand(st) == st.blocked \/ st.frame_size # None
BodyAhead(st) == IF st.blocked THEN 0 ELSE st.frame_size

\* The units u are what is left of the frame in hand, and whole frames, which take the
\* message from what the client has counted to y and report q.
Reads(s, st, u, q, y) ==
    IF ~InHand(st) THEN Carries(s, u, Message(st), q, y)
    ELSE /\ BodyAhead(st) \in 0..Len(u)
         /\ Allowed(s, Rest(st), Message(st))
         /\ \E r \in Seq(Part) :
               /\ q = PartsOf(Rest(st), Message(st)) \o r
               /\ Carries(s, Drop(u, BodyAhead(st)), After(Rest(st), Message(st)), r, y)

AllData(n) == [i \in 1..n |-> "data"]

\* A message that may end here.
Complete(y) == (y.declared = None \/ y.data = y.declared) /\ y.last # "push_promise"

\* The stream s, what is on its way, where its message ends, and whether it has ended.
Context(s, w, y, E) ==
    /\ s \in Streams /\ w \in Seq(UnitType) /\ y \in MessageType /\ E \in BOOLEAN
    /\ E => w = << >> /\ Complete(y)

\* What no frame changes in a stream.
SameStream(st, old) ==
    st.ended = old.ended /\ st.stream_type = old.stream_type /\ st.push_id = old.push_id

\* What the client knows of a stream is well typed.
LEMMA MessageTypes ==
    ASSUME NEW st \in StreamType
    PROVE  /\ Message(st) \in MessageType
           /\ InHand(st) => Rest(st) \in FrameType /\ BodyAhead(st) \in Nat
<1>1. /\ st.headers_recv_state \in HeadersState /\ st.content_length \in Nat
      /\ st.expected_content_length \in Length /\ st.frame \in FrameType
      /\ st.frame_size \in Length /\ st.blocked \in BOOLEAN
      BY DEF StreamType
<1>2. st.frame.type \in Kind
      BY <1>1 DEF FrameType
<1>3. Message(st) \in MessageType
      BY <1>1, <1>2 DEF Message, MessageType
<1>4. ASSUME InHand(st) PROVE Rest(st) \in FrameType /\ BodyAhead(st) \in Nat
  <2>1. (IF st.blocked THEN 1 ELSE st.frame_size) \in Nat /\ BodyAhead(st) \in Nat
        BY <1>1, <1>4 DEF InHand, Length, BodyAhead
  <2>2. Rest(st) \in FrameType
        BY <1>1, <2>1 DEF Rest, FrameType
  <2>3. QED BY <2>1, <2>2
<1>5. QED BY <1>3, <1>4

\* What is read is typed.
LEMMA ReadsTypes ==
    ASSUME NEW s, NEW st \in StreamType, NEW u, NEW q, NEW y, Reads(s, st, u, q, y)
    PROVE  q \in Seq(Part)
<1>1. CASE ~InHand(st)
      BY <1>1, CarriesTypes DEF Reads
<1>2. CASE InHand(st)
  <2>1. PICK r \in Seq(Part) : q = PartsOf(Rest(st), Message(st)) \o r
        BY <1>2 DEF Reads
  <2>2. PartsOf(Rest(st), Message(st)) \in Seq(Part)
        BY <1>2, MessageTypes, FrameTypes
  <2>3. QED BY <2>1, <2>2, ConcatProperties
<1>3. QED BY <1>1, <1>2

\* The type of the last frame tells nothing about what may come next.
LEMMA LastIsPast ==
    ASSUME NEW s, NEW f, NEW x, NEW z,
           x.phase = z.phase, x.data = z.data, x.declared = z.declared
    PROVE  /\ Allowed(s, f, x) = Allowed(s, f, z)
           /\ PartsOf(f, x) = PartsOf(f, z)
           /\ After(f, x) = After(f, z)
BY DEF Allowed, PartsOf, After

\* Data in two parts.
LEMMA DataInTwo ==
    ASSUME NEW n \in Nat, NEW m \in 0..n
    PROVE  AllData(n) = AllData(m) \o AllData(n - m)
<1> DEFINE k == n - m
           a == AllData(m)
           b == AllData(k)
           c == AllData(n)
<1>1. k \in Nat /\ m \in Nat /\ m + k = n
      OBVIOUS
<1>2. "data" \in Part
      BY DEF Part
<1> HIDE DEF k
<1>3. a \in Seq(Part) /\ Len(a) = m /\ \A i \in 1..m : a[i] = "data"
      BY <1>1, <1>2 DEF AllData
<1>4. b \in Seq(Part) /\ Len(b) = k /\ \A i \in 1..k : b[i] = "data"
      BY <1>1, <1>2 DEF AllData
<1>5. c \in Seq(Part) /\ Len(c) = n /\ \A i \in 1..n : c[i] = "data"
      BY <1>2 DEF AllData
<1> HIDE DEF a, b, c
<1> DEFINE d == a \o b
<1>6. /\ d \in Seq(Part) /\ Len(d) = Len(a) + Len(b)
      /\ \A i \in 1..(Len(a) + Len(b)) : d[i] = IF i <= Len(a) THEN a[i] ELSE b[i - Len(a)]
      BY <1>3, <1>4, ConcatProperties
<1> HIDE DEF d
<1>7. Len(d) = Len(c)
      BY <1>1, <1>3, <1>4, <1>5, <1>6
<1>8. ASSUME NEW i \in 1..Len(c) PROVE c[i] = d[i]
      BY <1>1, <1>3, <1>4, <1>5, <1>6
<1>9. c = d
      BY <1>5, <1>6, <1>7, <1>8, SeqEqual
<1>10. QED BY <1>9 DEF a, b, c, d, k

\* Reading the type and the size takes the first frame in hand.
LEMMA HeaderFetched ==
    ASSUME NEW s, NEW w, NEW y, NEW E, Context(s, w, y, E), NEW q, NEW st \in StreamType,
           ~st.blocked, st.buffer # << >>, st.frame_size = None => Len(st.buffer) >= 2,
           Reads(s, st, st.buffer \o w, q, y)
    PROVE  /\ FetchHeader(st) \in StreamType
           /\ ~FetchHeader(st).blocked /\ FetchHeader(st).frame_size # None
           /\ SameStream(FetchHeader(st), st)
           /\ Reads(s, FetchHeader(st), FetchHeader(st).buffer \o w, q, y)
           /\ Len(FetchHeader(st).buffer) =<
                  IF st.frame_size = None THEN Len(st.buffer) - 2 ELSE Len(st.buffer)
<1>1. CASE st.frame_size # None
  <2>1. FetchHeader(st) = st /\ Len(st.buffer) \in Nat
        BY <1>1, LenProperties DEF FetchHeader, StreamType
  <2>2. QED BY <1>1, <2>1 DEF SameStream
<1>2. CASE st.frame_size = None
  <2> DEFINE b == st.buffer
             u == b \o w
             x == Message(st)
             H == FetchHeader(st)
  <2>1. b \in Seq(UnitType) /\ w \in Seq(UnitType) /\ Len(b) \in Nat /\ Len(w) \in Nat
        /\ y \in MessageType
        BY LenProperties DEF StreamType, Context
  <2>2. /\ u \in Seq(UnitType) /\ Len(u) = Len(b) + Len(w)
        /\ \A i \in 1..(Len(b) + Len(w)) : u[i] = IF i <= Len(b) THEN b[i] ELSE w[i - Len(b)]
        BY <2>1, ConcatProperties
  <2>3. Carries(s, u, x, q, y)
        BY <1>2 DEF Reads, InHand
  <2>4. Len(b) >= 2 /\ Len(u) # 0
        BY <1>2, <2>1, <2>2
  <2> HIDE DEF u, x
  <2>5. u # << >>
        BY <2>2, <2>4, EmptySeq
  <2>6. FirstFrame(s, u, x, q, y)
        BY <2>1, <2>3, <2>5, CarriesFirst
  <2>7. PICK f \in FrameType, v \in Seq(UnitType), r \in Seq(Part) :
            /\ Allowed(s, f, x)
            /\ u = encode_frame(f) \o v
            /\ q = PartsOf(f, x) \o r
            /\ Carries(s, v, After(f, x), r, y)
        BY <2>6 DEF FirstFrame
  <2>8. f.size \in Nat /\ f.size # None
        BY DEF FrameType, None
  <2>9. u[1] = Unit("type", f) /\ Len(u) = f.size + 2 + Len(v) /\ Drop(u, f.size + 2) = v
        BY <2>7, FrameInFront
  <2>10. st.buffer[1].frame = f
    <3>1. 1 \in 1..(Len(b) + Len(w)) /\ 1 <= Len(b)
          BY <2>1, <2>4
    <3>2. u[1] = b[1]
          BY <2>2, <3>1
    <3>3. QED BY <2>9, <3>2 DEF Unit
  <2>11. SubSeq(st.buffer, 3, Len(st.buffer)) = Drop(b, 2)
    <3>1. 2 + 1 = 3
          OBVIOUS
    <3>2. QED BY <3>1 DEF Drop
  <2>12. H = [st EXCEPT !.frame = f, !.frame_size = f.size, !.buffer = Drop(b, 2)]
        BY <1>2, <2>10, <2>11 DEF FetchHeader
  <2> DEFINE two == 2
             h == Drop(b, two)
  <2>13. two \in 0..Len(b) /\ two \in Nat
        BY <2>1, <2>4
  <2>14. h \in Seq(UnitType) /\ Len(h) = Len(b) - two
    <3> HIDE DEF two
    <3> QED BY <2>1, <2>13, DropItems
  <2>15. h \o w = Drop(u, two)
    <3> HIDE DEF two
    <3> QED BY <2>1, <2>13, DropConcat DEF u
  <2>16. Drop(h \o w, f.size) = v /\ Len(h \o w) = f.size + Len(v)
    <3>1. two + f.size <= Len(u) /\ two + f.size = f.size + 2 /\ two \in 0..Len(u)
          /\ Len(u) - two = f.size + Len(v)
      <4> DEFINE m == f.size
                 n == Len(v)
                 l == Len(u)
      <4>1. m \in Nat /\ n \in Nat /\ l = m + 2 + n
            BY <2>8, <2>9, LenProperties
      <4> HIDE DEF m, n, l
      <4>2. two + m <= l /\ two + m = m + 2 /\ two \in 0..l /\ l - two = m + n
            BY <4>1
      <4>3. QED BY <4>2 DEF m, n, l
    <3> HIDE DEF two
    <3>2. Drop(Drop(u, two), f.size) = Drop(u, two + f.size)
          BY <2>2, <2>8, <2>13, <3>1, DropTwice
    <3>3. Len(Drop(u, two)) = Len(u) - two
          BY <2>2, <3>1, DropItems
    <3>4. QED BY <2>9, <2>15, <3>1, <3>2, <3>3
  <2> HIDE DEF h, H
  <2>17. H = [st EXCEPT !.frame = f, !.frame_size = f.size, !.buffer = h]
        BY <2>12 DEF h
  <2>18. H \in StreamType
        BY <2>8, <2>14, <2>17 DEF StreamType, Length
  <2>19. /\ ~H.blocked /\ H.frame_size = f.size /\ H.buffer = h /\ H.frame = f
         /\ H.headers_recv_state = st.headers_recv_state
         /\ H.content_length = st.content_length
         /\ H.expected_content_length = st.expected_content_length
         /\ SameStream(H, st)
        BY <2>17 DEF StreamType, SameStream
  <2>20. Rest(H) = f /\ BodyAhead(H) = f.size /\ InHand(H)
    <3>1. Rest(H) = [f EXCEPT !.size = f.size]
          BY <2>19 DEF Rest
    <3>2. QED BY <2>8, <2>19, <3>1 DEF FrameType, BodyAhead, InHand
  <2>21. /\ Message(H).phase = x.phase /\ Message(H).data = x.data
         /\ Message(H).declared = x.declared
        BY <2>19 DEF Message, x
  <2>22. /\ Allowed(s, f, Message(H))
         /\ PartsOf(f, Message(H)) = PartsOf(f, x)
         /\ After(f, Message(H)) = After(f, x)
        BY <2>7, <2>21, LastIsPast
  <2>23. f.size \in 0..Len(h \o w)
        BY <2>8, <2>16, LenProperties
  <2>24. Reads(s, H, h \o w, q, y)
        BY <2>7, <2>16, <2>20, <2>22, <2>23 DEF Reads
  <2>25. QED BY <1>2, <2>8, <2>14, <2>18, <2>19, <2>24 DEF H
<1>3. QED BY <1>1, <1>2

\* A stream that has a DATA frame in hand of which only a part has come, and what it is
\* when the part is taken.
FragmentCame(s, w, y, E, q, st) ==
    /\ Context(s, w, y, E)
    /\ st \in StreamType /\ ~st.blocked
    /\ st.frame.type = "data" /\ st.frame_size # None /\ Len(st.buffer) < st.frame_size
    /\ Reads(s, st, st.buffer \o w, q, y)

FragmentLeft(s, w, y, q, st, new) ==
    /\ new \in StreamType /\ new.buffer = << >> /\ ~new.blocked
    /\ new.frame_size # None /\ new.frame_size > 0
    /\ SameStream(new, st)
    /\ st.headers_recv_state = "after_headers"
    /\ AllData(Len(st.buffer)) \in Seq(Part)
    /\ \E r \in Seq(Part) : q = AllData(Len(st.buffer)) \o r /\ Reads(s, new, w, r, y)

\* A part of a DATA frame is counted, and the rest of the frame stays in hand.
LEMMA FragmentTaken ==
    ASSUME NEW s, NEW w, NEW y, NEW E, NEW q, NEW st, FragmentCame(s, w, y, E, q, st)
    PROVE  FragmentLeft(s, w, y, q, st, TakeFragment(st)) /\ w # << >>
<1>0. /\ Context(s, w, y, E)
      /\ st \in StreamType /\ ~st.blocked
      /\ st.frame.type = "data" /\ st.frame_size # None /\ Len(st.buffer) < st.frame_size
      /\ Reads(s, st, st.buffer \o w, q, y)
      BY DEF FragmentCame
<1> DEFINE b == st.buffer
           m == Len(b)
           n == st.frame_size
           k == n - m
           u == b \o w
           x == Message(st)
           T == TakeFragment(st)
<1>1. b \in Seq(UnitType) /\ w \in Seq(UnitType) /\ m \in Nat /\ Len(w) \in Nat
      BY <1>0, LenProperties DEF StreamType, Context
<1>2. u \in Seq(UnitType) /\ Len(u) = m + Len(w)
      BY <1>0, <1>1, ConcatProperties
<1>3. n \in Nat /\ m < n /\ k \in Nat /\ k > 0 /\ m + k = n /\ m \in 0..n
      BY <1>0, <1>1 DEF StreamType, Length
<1>4. InHand(st) /\ BodyAhead(st) = n
      BY <1>0 DEF InHand, BodyAhead
<1> DEFINE g == Rest(st)
<1>5. g.type = "data" /\ g.size = n /\ g \in FrameType
  <2>1. g \in FrameType
        BY <1>0, <1>4, MessageTypes
  <2>2. g.type = "data" /\ g.size = n
        BY <1>0 DEF Rest, StreamType, FrameType
  <2>3. QED BY <2>1, <2>2
<1>6. n \in 0..Len(u) /\ Allowed(s, g, x)
      BY <1>0, <1>4 DEF Reads
<1>7. PICK r \in Seq(Part) : /\ q = PartsOf(g, x) \o r
                             /\ Carries(s, Drop(u, n), After(g, x), r, y)
      BY <1>0, <1>4 DEF Reads
<1>8. x.phase = "after_headers" /\ st.headers_recv_state = "after_headers"
      BY <1>0, <1>5, <1>6 DEF Allowed, Message
<1>9. w # << >>
  <2>1. w = << >> => Len(w) = 0
        OBVIOUS
  <2>2. QED BY <1>1, <1>2, <1>3, <1>6, <2>1
<1>10. /\ T \in StreamType
       /\ T.buffer = << >> /\ ~T.blocked /\ T.frame_size = k
       /\ T.frame = st.frame /\ T.headers_recv_state = st.headers_recv_state
       /\ T.expected_content_length = st.expected_content_length
       /\ T.content_length = st.content_length + m
       /\ SameStream(T, st)
  <2>1. st.content_length + m \in Nat /\ k \in Length
        BY <1>0, <1>1, <1>3 DEF StreamType, Length
  <2>2. << >> \in Seq(UnitType)
        BY <1>0, EmptySeq
  <2> DEFINE c == st.content_length + m
             e == << >>
  <2>3. T = [st EXCEPT !.content_length = c, !.frame_size = k, !.buffer = e]
        BY <1>0 DEF TakeFragment
  <2> HIDE DEF T, c, k, e
  <2>4. T \in StreamType
        BY <1>0, <2>1, <2>2, <2>3 DEF StreamType, c, e
  <2>5. /\ T.buffer = e /\ ~T.blocked /\ T.frame_size = k
        /\ T.frame = st.frame /\ T.headers_recv_state = st.headers_recv_state
        /\ T.expected_content_length = st.expected_content_length
        /\ T.content_length = c
        /\ SameStream(T, st)
        BY <1>0, <2>3 DEF StreamType, SameStream
  <2>6. QED BY <2>4, <2>5 DEF c, e
<1> HIDE DEF T, k, u
<1>11. k # None
       BY <1>0, <1>3 DEF None
<1>12. InHand(T) /\ BodyAhead(T) = k
       BY <1>0, <1>10, <1>11 DEF InHand, BodyAhead
<1>13. Rest(T).type = "data" /\ Rest(T).size = k /\ Rest(T).length = g.length
  <2>1. Rest(T) = [st.frame EXCEPT !.size = k]
        BY <1>0, <1>10 DEF Rest
  <2>2. QED BY <1>0, <2>1 DEF Rest, StreamType, FrameType
<1>14. Message(T).phase = x.phase /\ Message(T).data = x.data + m /\ Message(T).declared = x.declared
       BY <1>0, <1>10 DEF Message
<1>15. Allowed(s, Rest(T), Message(T))
       BY <1>0, <1>8, <1>13, <1>14 DEF Allowed
<1>16. After(Rest(T), Message(T)) = After(g, x)
  <2>1. x.data \in Nat /\ (x.data + m) + k = x.data + n
    <3>1. x.data \in Nat
          BY <1>0, MessageTypes DEF MessageType
    <3>2. QED BY <1>1, <1>3, <3>1
  <2> HIDE DEF g, x, n
  <2>2. QED BY <1>5, <1>13, <1>14, <2>1 DEF After
<1>17. Drop(w, k) = Drop(u, n) /\ k \in 0..Len(w)
  <2>1. Drop(u, m) = w
    <3>1. m \in 0..Len(b)
          BY <1>0, <1>1
    <3>2. Drop(u, m) = Drop(b, m) \o w
          BY <1>0, <1>1, <3>1, DropConcat DEF u
    <3>3. Drop(b, m) = << >>
          BY <1>0, <1>1, DropEnds
    <3>4. QED BY <1>1, <3>2, <3>3, ConcatEmptySeq
  <2>2. m + k <= Len(u) /\ k \in 0..Len(w)
        BY <1>0, <1>1, <1>2, <1>3, <1>6
  <2>3. Drop(Drop(u, m), k) = Drop(u, m + k)
    <3> HIDE DEF m
    <3> QED BY <1>1, <1>2, <1>3, <2>2, DropTwice
  <2>4. QED BY <1>3, <2>1, <2>2, <2>3
<1>18. PartsOf(Rest(T), Message(T)) = AllData(k) /\ PartsOf(g, x) = AllData(n)
       BY <1>0, <1>5, <1>13 DEF PartsOf, AllData
<1>19. AllData(n) = AllData(m) \o AllData(k)
  <2>1. n - m = k
        BY <1>0 DEF k
  <2>2. QED BY <1>3, <2>1, DataInTwo
<1>20. AllData(m) \in Seq(Part) /\ AllData(k) \in Seq(Part)
  <2>1. "data" \in Part
        BY <1>0 DEF Part
  <2>2. QED BY <1>1, <1>3, <2>1 DEF AllData
<1>21. q = AllData(m) \o (AllData(k) \o r)
  <2> DEFINE a == AllData(m)
             c == AllData(k)
  <2>0. a \in Seq(Part) /\ c \in Seq(Part) /\ r \in Seq(Part)
        BY <1>0, <1>7, <1>20
  <2> HIDE DEF a, c
  <2>3. (a \o c) \o r = a \o (c \o r)
        BY ONLY <2>0, PartsTogether, Zenon
  <2>1. (AllData(m) \o AllData(k)) \o r = AllData(m) \o (AllData(k) \o r)
        BY <2>3 DEF a, c
  <2>2. QED BY <1>7, <1>18, <1>19, <2>1
<1>22. Reads(s, T, w, AllData(k) \o r, y)
       BY <1>0, <1>7, <1>12, <1>15, <1>16, <1>17, <1>18 DEF Reads
<1>23. AllData(k) \o r \in Seq(Part)
       BY <1>0, <1>7, <1>20, ConcatProperties
<1>24. FragmentLeft(s, w, y, q, st, T)
       BY <1>3, <1>8, <1>10, <1>11, <1>20, <1>21, <1>22, <1>23 DEF FragmentLeft
<1>25. QED BY <1>9, <1>24 DEF T

-----------------------------------------------------------------------------
(* A frame that has come whole.                                            *)

\* What was reported of the parts q, and what stays r.  The end is not reported with a
\* reserved frame.
Told(E, st, q, parts, r) ==
    \/ /\ q = parts \o r
       /\ E /\ st.buffer = << >> /\ ~st.blocked => st.frame.type = "reserved"
    \/ /\ E /\ st.buffer = << >> /\ ~st.blocked
       /\ parts = q \o <<"end">> /\ r = << >>

\* The stream without the frame in hand, and what becomes of the frame.
Taken(H) == [H EXCEPT !.frame_size = None, !.buffer = Drop(H.buffer, H.frame_size)]
HandledFrame(H, table) ==
    _handle_request_or_push_frame(Taken(H), H.frame, H.frame_size,
                                  EndsStream(Taken(H)), table)
Blocking(H) == [Taken(H) EXCEPT !.blocked = TRUE, !.need = H.frame.need]

\* A stream whose frame in hand, which has come whole, is the next of its message.
WholeFrame(s, w, y, E, q, H) ==
    /\ Context(s, w, y, E)
    /\ H \in StreamType /\ ~H.blocked /\ H.frame_size # None /\ H.ended = E
    /\ H.frame_size =< Len(H.buffer)
    /\ s = "request" => H.push_id = None
    /\ Reads(s, H, H.buffer \o w, q, y)

\* What comes after it.
AfterFrame(s, w, y, q, H, r) ==
    /\ r \in Seq(Part)
    /\ q = PartsOf(Rest(H), Message(H)) \o r
    /\ Carries(s, Taken(H).buffer \o w, After(Rest(H), Message(H)), r, y)

\* The stream without the frame.
LEMMA TakenTypes ==
    ASSUME NEW s, NEW w, NEW y, NEW E, NEW q, NEW H, WholeFrame(s, w, y, E, q, H)
    PROVE  /\ Taken(H) \in StreamType
           /\ Taken(H).frame_size = None /\ ~Taken(H).blocked
           /\ Taken(H).frame = H.frame /\ SameStream(Taken(H), H)
           /\ Message(Taken(H)) = Message(H)
           /\ Taken(H).buffer = Drop(H.buffer, H.frame_size)
           /\ Len(Taken(H).buffer) = Len(H.buffer) - H.frame_size
           /\ H.frame_size \in Nat /\ H.frame_size \in 0..Len(H.buffer)
<1> USE DEF WholeFrame
<1>1. H.buffer \in Seq(UnitType) /\ Len(H.buffer) \in Nat
      BY LenProperties DEF StreamType
<1>2. H.frame_size \in Nat /\ H.frame_size \in 0..Len(H.buffer)
      BY <1>1 DEF StreamType, Length
<1> DEFINE b == H.buffer
           n == H.frame_size
           h == Drop(b, n)
<1>3. h \in Seq(UnitType) /\ Len(h) = Len(b) - n
      BY <1>1, <1>2, DropItems
<1>4. Taken(H) = [H EXCEPT !.frame_size = None, !.buffer = h]
      BY DEF Taken
<1> HIDE DEF h
<1>5. Taken(H) \in StreamType
      BY <1>3, <1>4 DEF StreamType, Length
<1>6. /\ Taken(H).frame_size = None /\ ~Taken(H).blocked
      /\ Taken(H).frame = H.frame /\ SameStream(Taken(H), H)
      /\ Taken(H).buffer = h
      /\ Message(Taken(H)) = Message(H)
      BY <1>4 DEF StreamType, SameStream, Message
<1>7. QED BY <1>2, <1>3, <1>5, <1>6 DEF h

\* The frame is allowed, and the frames after it stay.
LEMMA FrameOfMessage ==
    ASSUME NEW s, NEW w, NEW y, NEW E, NEW q, NEW H, WholeFrame(s, w, y, E, q, H)
    PROVE  /\ Allowed(s, Rest(H), Message(H))
           /\ Rest(H) \in FrameType /\ Message(H) \in MessageType
           /\ Rest(H).type = H.frame.type /\ Rest(H).size = H.frame_size
           /\ Rest(H).need = H.frame.need /\ Rest(H).length = H.frame.length
           /\ \E r : AfterFrame(s, w, y, q, H, r)
<1>1. InHand(H) /\ BodyAhead(H) = H.frame_size
      BY DEF WholeFrame, InHand, BodyAhead
<1>2. /\ Allowed(s, Rest(H), Message(H))
      /\ \E r \in Seq(Part) :
            /\ q = PartsOf(Rest(H), Message(H)) \o r
            /\ Carries(s, Drop(H.buffer \o w, H.frame_size),
                       After(Rest(H), Message(H)), r, y)
      BY <1>1 DEF WholeFrame, Reads
<1>3. Drop(H.buffer \o w, H.frame_size) = Taken(H).buffer \o w
  <2>1. H.buffer \in Seq(UnitType) /\ w \in Seq(UnitType)
        BY DEF WholeFrame, StreamType, Context
  <2>2. Taken(H).buffer = Drop(H.buffer, H.frame_size) /\ H.frame_size \in 0..Len(H.buffer)
        BY TakenTypes
  <2> DEFINE b == H.buffer
             k == H.frame_size
  <2>3. b \in Seq(UnitType) /\ w \in Seq(UnitType) /\ k \in 0..Len(b)
        /\ Taken(H).buffer = Drop(b, k)
        BY <2>1, <2>2
  <2> HIDE DEF b, k
  <2>4. Drop(b \o w, k) = Drop(b, k) \o w
        BY ONLY <2>3, DropConcat
  <2>5. QED BY <2>3, <2>4 DEF b, k
<1>4. Rest(H) \in FrameType /\ Message(H) \in MessageType
      BY <1>1, MessageTypes DEF WholeFrame
<1>5. /\ Rest(H).type = H.frame.type /\ Rest(H).size = H.frame_size
      /\ Rest(H).need = H.frame.need /\ Rest(H).length = H.frame.length
      BY DEF WholeFrame, Rest, StreamType, FrameType
<1>6. \E r : AfterFrame(s, w, y, q, H, r)
      BY <1>2, <1>3 DEF AfterFrame
<1>7. QED BY <1>2, <1>4, <1>5, <1>6

\* With the end of the stream the message is complete.
LEMMA LastFrame ==
    ASSUME NEW s, NEW w, NEW y, NEW E, NEW q, NEW H, WholeFrame(s, w, y, E, q, H),
           NEW r, AfterFrame(s, w, y, q, H, r), EndsStream(Taken(H))
    PROVE  r = << >> /\ After(Rest(H), Message(H)) = y /\ Complete(y)
<1>0. H.ended /\ Taken(H).buffer = << >>
  <2>1. SameStream(Taken(H), H)
        BY TakenTypes
  <2>2. QED BY <2>1 DEF SameStream, EndsStream
<1>1. w = << >> /\ Complete(y) /\ y \in MessageType
      BY <1>0 DEF WholeFrame, Context
<1> DEFINE u == Taken(H).buffer \o w
<1>2. u = << >>
  <2>1. << >> \in Seq(UnitType)
        BY EmptySeq
  <2>2. QED BY <1>0, <1>1, <2>1, ConcatEmptySeq
<1>3. Len(u) < 2
      BY <1>2
<1>4. Carries(s, u, After(Rest(H), Message(H)), r, y)
      BY DEF AfterFrame
<1> HIDE DEF u
<1>5. r = << >> /\ After(Rest(H), Message(H)) = y
      BY <1>1, <1>3, <1>4, CarriesEnd
<1>6. QED BY <1>1, <1>5

\* A stream that has counted the frame and reported it, with the end of the stream when
\* it comes with the frame, has told what it had to.
LEMMA FrameReported ==
    ASSUME NEW s, NEW w, NEW y, NEW E, NEW q, NEW H, WholeFrame(s, w, y, E, q, H),
           NEW st \in StreamType, ~st.blocked, st.frame_size = None,
           st.buffer = Taken(H).buffer, st.frame = H.frame,
           Message(st) = After(Rest(H), Message(H)),
           NEW r, AfterFrame(s, w, y, q, H, r),
           NEW parts,
           \/ parts = Ended(PartsOf(Rest(H), Message(H)), EndsStream(Taken(H)))
           \/ H.frame.type = "reserved" /\ parts = << >>
    PROVE  /\ Reads(s, st, st.buffer \o w, r, y)
           /\ Told(E, st, q, parts, r)
           /\ parts \in Seq(Part)
<1> DEFINE p == PartsOf(Rest(H), Message(H))
           ends == EndsStream(Taken(H))
<1>1. Reads(s, st, st.buffer \o w, r, y)
      BY DEF Reads, InHand, AfterFrame
<1>2. p \in Seq(Part) /\ q = p \o r /\ r \in Seq(Part)
      BY FrameOfMessage, FrameTypes DEF AfterFrame
<1>3. ends = (E /\ st.buffer = << >>)
  <2>1. Taken(H).ended = E
    <3>1. SameStream(Taken(H), H)
          BY TakenTypes
    <3>2. QED BY <3>1 DEF WholeFrame, SameStream
  <2>2. QED BY <2>1 DEF EndsStream
<1>4. CASE parts = Ended(p, ends)
  <2> HIDE DEF p, ends
  <2>1. CASE ends
    <3>1. parts = Append(p, "end")
          BY <1>4, <2>1 DEF Ended
    <3>2. parts = p \o <<"end">> /\ parts \in Seq(Part)
      <4>1. "end" \in Part
            BY DEF Part
      <4>2. QED BY <1>2, <3>1, <4>1, AppendIsConcat, AppendProperties
    <3>3. E /\ st.buffer = << >>
          BY <1>3, <2>1
    <3>4. r = << >>
          BY <2>1, LastFrame DEF ends
    <3>5. q = p
          BY <1>2, <3>4, ConcatEmptySeq
    <3>6. QED BY <1>1, <3>2, <3>3, <3>4, <3>5 DEF Told
  <2>2. CASE ~ends
    <3>1. parts = p
          BY <1>4, <2>2 DEF Ended
    <3>2. QED BY <1>1, <1>2, <1>3, <2>2, <3>1 DEF Told
  <2>3. QED BY <2>1, <2>2
<1>5. CASE H.frame.type = "reserved" /\ parts = << >>
  <2>1. p = << >>
    <3>1. Rest(H).type = "reserved"
          BY <1>5, FrameOfMessage
    <3>2. QED BY <3>1 DEF PartsOf
  <2>2. << >> \in Seq(Part)
        BY EmptySeq
  <2>3. QED BY <1>1, <1>2, <1>5, <2>1, <2>2 DEF Told
<1>6. QED BY <1>4, <1>5

\* What a handler that reports the frame g leaves of the stream.
Counted(st, g, new) ==
    /\ new \in StreamType
    /\ Message(new) = After(g, Message(st))
    /\ new.buffer = st.buffer /\ new.frame_size = st.frame_size /\ new.frame = st.frame
    /\ new.blocked = st.blocked /\ SameStream(new, st)

\* A HEADERS frame is reported, with the end of the stream, when the encoder's
\* instructions are there and it comes where it may.
LEMMA HeadersCounted ==
    ASSUME NEW s, NEW table \in Nat, NEW st \in StreamType, NEW g \in FrameType,
           g.type = "headers", st.frame.type = "headers", st.frame.length = g.length,
           Allowed(s, g, Message(st)), st.frame.need =< table,
           EndsStream(st) => Complete(After(g, Message(st)))
    PROVE  /\ HandleHeaders(st, st.frame, EndsStream(st), table).raised = "none"
           /\ HandleHeaders(st, st.frame, EndsStream(st), table).parts =
                  Ended(PartsOf(g, Message(st)), EndsStream(st))
           /\ Counted(st, g, HandleHeaders(st, st.frame, EndsStream(st), table).st)
<1> DEFINE f == st.frame
           x == Message(st)
           first == st.headers_recv_state = "initial"
           checked == IF first /\ f.length # None
                      THEN [st EXCEPT !.expected_content_length = f.length] ELSE st
           phase == IF first THEN "after_headers" ELSE "after_trailers"
           done == [checked EXCEPT !.headers_recv_state = phase]
           result == HandleHeaders(st, f, EndsStream(st), table)
<1>1. f \in FrameType /\ f.length \in Length /\ f.need \in Nat
      BY DEF StreamType, FrameType
<1>2. st.headers_recv_state # "after_trailers"
      BY DEF Allowed, Message
<1>3. ~(f.need > table)
      BY <1>1
<1>4. /\ checked \in StreamType
      /\ checked.expected_content_length = After(g, x).declared
      /\ checked.content_length = After(g, x).data
      /\ checked.headers_recv_state = st.headers_recv_state
      /\ checked.buffer = st.buffer /\ checked.frame_size = st.frame_size
      /\ checked.frame = st.frame
      /\ checked.blocked = st.blocked /\ SameStream(checked, st)
  <2>1. CASE first /\ f.length # None
    <3>1. checked = [st EXCEPT !.expected_content_length = f.length]
          BY <2>1
    <3> HIDE DEF checked
    <3>2. checked \in StreamType
          BY <1>1, <3>1 DEF StreamType
    <3>3. /\ checked.expected_content_length = f.length
          /\ checked.content_length = st.content_length
          /\ checked.headers_recv_state = st.headers_recv_state
          /\ checked.buffer = st.buffer /\ checked.frame_size = st.frame_size
          /\ checked.frame = st.frame
          /\ checked.blocked = st.blocked /\ SameStream(checked, st)
          BY <3>1 DEF StreamType, SameStream
    <3>4. After(g, x).declared = f.length /\ After(g, x).data = st.content_length
          BY <2>1 DEF After, Message
    <3>5. QED BY <3>2, <3>3, <3>4
  <2>2. CASE ~(first /\ f.length # None)
    <3>1. checked = st
          BY <2>2
    <3> HIDE DEF checked
    <3>2. After(g, x).declared = st.expected_content_length /\ After(g, x).data = st.content_length
      <4>1. first => st.expected_content_length = None /\ g.length = None
            BY <2>2 DEF Allowed, Message
      <4>2. QED BY <4>1 DEF After, Message
    <3>3. QED BY <3>1, <3>2 DEF SameStream
  <2>3. QED BY <2>1, <2>2
<1>5. ~(\/ ~validate_headers(f)
        \/ EndsStream(st) /\ ~_check_content_length(checked))
  <2>1. validate_headers(f)
        BY DEF validate_headers
  <2>2. EndsStream(st) => _check_content_length(checked)
    <3> HIDE DEF checked
    <3> QED BY <1>4 DEF _check_content_length, Complete
  <2>3. QED BY <2>1, <2>2
<1>6. result = Result(done, Ended(<<IF first THEN "headers" ELSE "trailers">>, EndsStream(st)),
                      "none")
      BY <1>2, <1>3, <1>5 DEF HandleHeaders
<1>7. /\ done \in StreamType
      /\ done.expected_content_length = checked.expected_content_length
      /\ done.content_length = checked.content_length
      /\ done.headers_recv_state = phase
      /\ done.buffer = checked.buffer /\ done.frame_size = checked.frame_size
      /\ done.frame = checked.frame
      /\ done.blocked = checked.blocked /\ SameStream(done, checked)
  <2>1. phase \in HeadersState
        BY DEF HeadersState
  <2> HIDE DEF checked, phase
  <2>2. done \in StreamType
        BY <1>4, <2>1 DEF StreamType
  <2>3. QED BY <1>4, <2>2 DEF StreamType, SameStream
<1>8. Message(done) = After(g, x)
  <2>1. After(g, x).phase = phase /\ After(g, x).last = "headers"
        BY DEF After, Message
  <2> HIDE DEF done, checked, phase
  <2>2. Message(done) = [phase |-> After(g, x).phase, data |-> After(g, x).data,
                         declared |-> After(g, x).declared, last |-> After(g, x).last]
        BY <1>4, <1>7, <2>1 DEF Message
  <2>3. QED BY <2>2 DEF After
<1>9. Counted(st, g, done)
  <2> HIDE DEF done, checked, phase
  <2> QED BY <1>4, <1>7, <1>8 DEF Counted, SameStream
<1>10. PartsOf(g, x) = <<IF first THEN "headers" ELSE "trailers">>
       BY DEF PartsOf, Message
<1> HIDE DEF done, x, first
<1>11. QED BY <1>6, <1>9, <1>10 DEF Result, x

\* Data that comes where it may is counted and reported.
LEMMA DataCounted ==
    ASSUME NEW s, NEW st \in StreamType, NEW g \in FrameType,
           g.type = "data", st.frame.type = "data",
           Allowed(s, g, Message(st)),
           EndsStream(st) => Complete(After(g, Message(st)))
    PROVE  /\ HandleData(st, g.size, EndsStream(st)).raised = "none"
           /\ HandleData(st, g.size, EndsStream(st)).parts =
                  Ended(PartsOf(g, Message(st)), EndsStream(st))
           /\ Counted(st, g, HandleData(st, g.size, EndsStream(st)).st)
<1> DEFINE x == Message(st)
           c == st.content_length + g.size
           counted == [st EXCEPT !.content_length = c]
           result == HandleData(st, g.size, EndsStream(st))
<1>1. st.headers_recv_state = "after_headers"
      BY DEF Allowed, Message
<1>2. c \in Nat
      BY DEF StreamType, FrameType
<1>3. /\ counted \in StreamType
      /\ counted.content_length = c
      /\ counted.expected_content_length = st.expected_content_length
      /\ counted.headers_recv_state = st.headers_recv_state
      /\ counted.buffer = st.buffer /\ counted.frame_size = st.frame_size
      /\ counted.frame = st.frame
      /\ counted.blocked = st.blocked /\ SameStream(counted, st)
  <2> HIDE DEF c
  <2>1. counted \in StreamType
        BY <1>2 DEF StreamType
  <2>2. QED BY <2>1 DEF StreamType, SameStream
<1>4. Message(counted) = After(g, x)
  <2>1. After(g, x) = [phase |-> st.headers_recv_state, data |-> c,
                       declared |-> st.expected_content_length, last |-> "data"]
        BY DEF After, Message
  <2> HIDE DEF counted, c
  <2>2. QED BY <1>3, <2>1 DEF Message
<1>5. EndsStream(st) => _check_content_length(counted)
  <2>1. After(g, x).declared = st.expected_content_length /\ After(g, x).data = c
        BY DEF After, Message
  <2> HIDE DEF counted, c
  <2>2. QED BY <1>3, <2>1 DEF _check_content_length, Complete
<1>6. counted = [st EXCEPT !.content_length = @ + g.size]
      OBVIOUS
<1>7. result = Result(counted, Ended(AllData(g.size), EndsStream(st)), "none")
      BY <1>1, <1>5, <1>6 DEF HandleData, AllData
<1>8. PartsOf(g, x) = AllData(g.size)
      BY DEF PartsOf, AllData
<1>9. Counted(st, g, counted)
  <2> HIDE DEF counted
  <2> QED BY <1>3, <1>4 DEF Counted
<1> HIDE DEF counted, x
<1>10. QED BY <1>7, <1>8, <1>9 DEF Result, x

\* A stream that is blocked keeps the frame in hand, its body taken.
LEMMA FrameBlocks ==
    ASSUME NEW s, NEW w, NEW y, NEW E, NEW q, NEW H, WholeFrame(s, w, y, E, q, H),
           H.frame.type = "headers" \/ H.frame.type = "push_promise"
    PROVE  /\ Blocking(H) \in StreamType
           /\ Blocking(H).blocked /\ Blocking(H).frame_size = None
           /\ Blocking(H).frame = H.frame /\ Blocking(H).need = H.frame.need
           /\ Blocking(H).buffer = Taken(H).buffer
           /\ SameStream(Blocking(H), H)
           /\ Reads(s, Blocking(H), Blocking(H).buffer \o w, q, y)
           /\ H.frame.type = "push_promise" => H.frame.need \in PromiseNeeds
<1> DEFINE T == Taken(H)
           B == Blocking(H)
           g == Rest(H)
<1>1. /\ T \in StreamType /\ T.frame_size = None /\ T.frame = H.frame /\ SameStream(T, H)
      /\ Message(T) = Message(H)
      BY TakenTypes
<1>2. /\ Allowed(s, g, Message(H))
      /\ g.type = H.frame.type /\ g.size = H.frame_size /\ g.need = H.frame.need
      BY FrameOfMessage
<1>3. PICK r : AfterFrame(s, w, y, q, H, r)
      BY FrameOfMessage
<1>4. H.frame.need \in Nat
      BY DEF WholeFrame, StreamType, FrameType
<1>5. B = [T EXCEPT !.blocked = TRUE, !.need = H.frame.need]
      BY DEF Blocking
<1>6. H.frame_size = 1 /\ (H.frame.type = "push_promise" => H.frame.need \in PromiseNeeds)
      BY <1>2 DEF Allowed
<1>7. g = [H.frame EXCEPT !.size = 1]
      BY <1>6 DEF Rest, WholeFrame
<1> HIDE DEF T, B, g
<1>8. B \in StreamType
      BY <1>1, <1>4, <1>5 DEF StreamType
<1>9. /\ B.blocked /\ B.frame_size = None /\ B.frame = H.frame /\ B.need = H.frame.need
      /\ B.buffer = T.buffer /\ SameStream(B, H)
      /\ Message(B) = Message(T)
      BY <1>1, <1>5 DEF StreamType, SameStream, Message
<1>10. Rest(B) = g /\ InHand(B) /\ BodyAhead(B) = 0
       BY <1>7, <1>9 DEF Rest, InHand, BodyAhead
<1> DEFINE u == B.buffer \o w
<1>11. u \in Seq(UnitType) /\ Drop(u, 0) = u /\ 0 \in 0..Len(u)
  <2>1. B.buffer \in Seq(UnitType) /\ w \in Seq(UnitType)
        BY <1>8 DEF StreamType, WholeFrame, Context
  <2>2. u \in Seq(UnitType)
        BY <2>1, ConcatProperties
  <2> HIDE DEF u
  <2>3. QED BY <2>2, DropEnds, LenProperties
<1>12. /\ r \in Seq(Part) /\ q = PartsOf(g, Message(H)) \o r
       /\ Carries(s, u, After(g, Message(H)), r, y)
       BY <1>3, <1>9 DEF AfterFrame, T, g
<1>13. Reads(s, B, u, q, y)
  <2> HIDE DEF u
  <2> QED BY <1>1, <1>2, <1>9, <1>10, <1>11, <1>12 DEF Reads
<1>14. QED BY <1>6, <1>8, <1>9, <1>13 DEF T, B

-----------------------------------------------------------------------------
(* The loop over the buffer.                                               *)

\* What was reported of the parts q leaves the stream with the others to read.
Heard(s, w, y, E, q, old, st, parts) ==
    /\ st \in StreamType /\ SameStream(st, old) /\ parts \in Seq(Part)
    /\ \E r \in Seq(Part) : Reads(s, st, st.buffer \o w, r, y) /\ Told(E, st, q, parts, r)

\* A stream that waits: blocked for instructions, or for the units of a frame's header or
\* body.
AtRest(st, table) ==
    IF st.blocked
    THEN /\ st.frame_size = None /\ st.frame.type \in {"headers", "push_promise"}
         /\ st.need = st.frame.need /\ st.need > table
    ELSE IF st.frame_size = None THEN Len(st.buffer) =< 1
    ELSE st.buffer = << >> /\ st.frame_size > 0

\* A whole frame is reported, or blocks the stream for want of instructions.
LEMMA FrameHandled ==
    ASSUME NEW s, NEW w, NEW y, NEW E, NEW q, NEW H, WholeFrame(s, w, y, E, q, H),
           NEW table \in Nat
    PROVE  \/ /\ HandledFrame(H, table).raised = "blocked"
              /\ H.frame.type = "headers" \/ H.frame.type = "push_promise"
              /\ H.frame.need > table
           \/ /\ HandledFrame(H, table).raised = "none"
              /\ Heard(s, w, y, E, q, H, HandledFrame(H, table).st,
                       HandledFrame(H, table).parts)
              /\ ~HandledFrame(H, table).st.blocked
              /\ HandledFrame(H, table).st.frame_size = None
              /\ HandledFrame(H, table).st.buffer = Taken(H).buffer
<1> DEFINE T == Taken(H)
           g == Rest(H)
           res == HandledFrame(H, table)
<1>1. /\ T \in StreamType /\ T.frame_size = None /\ ~T.blocked /\ T.frame = H.frame
      /\ SameStream(T, H) /\ Message(T) = Message(H)
      BY TakenTypes
<1>2. /\ Allowed(s, g, Message(H)) /\ g \in FrameType
      /\ g.type = H.frame.type /\ g.size = H.frame_size
      /\ g.need = H.frame.need /\ g.length = H.frame.length
      BY FrameOfMessage
<1>3. PICK r : AfterFrame(s, w, y, q, H, r)
      BY FrameOfMessage
<1>4. H.frame.need \in Nat
      BY DEF WholeFrame, StreamType, FrameType
<1>5. EndsStream(T) => After(g, Message(H)) = y /\ Complete(y)
  <2> HIDE DEF g
  <2>1. ASSUME EndsStream(T) PROVE After(Rest(H), Message(H)) = y /\ Complete(y)
        BY <1>3, <2>1, LastFrame
  <2>2. QED BY <2>1 DEF g
<1>6. EndsStream(T) => Complete(After(g, Message(T)))
      BY <1>1, <1>5
<1>7. r \in Seq(Part)
      BY <1>3 DEF AfterFrame
<1>8. ASSUME NEW st, Counted(T, g, st), NEW parts,
             \/ parts = Ended(PartsOf(g, Message(H)), EndsStream(T))
             \/ H.frame.type = "reserved" /\ parts = << >>
      PROVE  /\ Heard(s, w, y, E, q, H, st, parts)
             /\ ~st.blocked /\ st.frame_size = None /\ st.buffer = T.buffer
  <2>1. /\ st \in StreamType /\ Message(st) = After(g, Message(T))
        /\ st.buffer = T.buffer /\ st.frame_size = None /\ st.frame = H.frame
        /\ ~st.blocked /\ SameStream(st, H)
        BY <1>1, <1>8 DEF Counted, SameStream
  <2>2. /\ Reads(s, st, st.buffer \o w, r, y)
        /\ Told(E, st, q, parts, r)
        /\ parts \in Seq(Part)
    <3>1. Message(st) = After(Rest(H), Message(H))
          BY <1>1, <2>1
    <3> HIDE DEF T, g
    <3>2. \/ parts = Ended(PartsOf(Rest(H), Message(H)), EndsStream(Taken(H)))
          \/ H.frame.type = "reserved" /\ parts = << >>
          BY <1>8 DEF T, g
    <3>3. st.buffer = Taken(H).buffer
          BY <2>1 DEF T
    <3>4. QED BY <1>3, <2>1, <3>1, <3>2, <3>3, FrameReported
  <2>3. QED BY <1>7, <2>1, <2>2 DEF Heard
<1> HIDE DEF T, g
<1>9. CASE H.frame.type = "data"
  <2>1. res = HandleData(T, g.size, EndsStream(T))
        BY <1>2, <1>9 DEF HandledFrame, _handle_request_or_push_frame, T
  <2> HIDE DEF res
  <2>2. /\ res.raised = "none"
        /\ res.parts = Ended(PartsOf(g, Message(T)), EndsStream(T))
        /\ Counted(T, g, res.st)
        BY <1>1, <1>2, <1>6, <1>9, <2>1, DataCounted
  <2>3. /\ Heard(s, w, y, E, q, H, res.st, res.parts)
        /\ ~res.st.blocked /\ res.st.frame_size = None /\ res.st.buffer = T.buffer
        BY <1>1, <1>8, <2>2
  <2>4. QED BY <2>2, <2>3 DEF res, T
<1>10. CASE H.frame.type = "headers"
  <2>1. res = HandleHeaders(T, T.frame, EndsStream(T), table)
        BY <1>1, <1>10 DEF HandledFrame, _handle_request_or_push_frame, T
  <2> HIDE DEF res
  <2>2. CASE T.frame.need > table
    <3>1. T.headers_recv_state # "after_trailers"
          BY <1>1, <1>2, <1>10 DEF Allowed, Message
    <3>2. res = Result(T, << >>, "blocked")
          BY <2>1, <2>2, <3>1 DEF HandleHeaders
    <3>3. QED BY <1>1, <1>10, <2>2, <3>2 DEF Result, res
  <2>3. CASE T.frame.need =< table
    <3>1. /\ res.raised = "none"
          /\ res.parts = Ended(PartsOf(g, Message(T)), EndsStream(T))
          /\ Counted(T, g, res.st)
          BY <1>1, <1>2, <1>6, <1>10, <2>1, <2>3, HeadersCounted
    <3>2. /\ Heard(s, w, y, E, q, H, res.st, res.parts)
          /\ ~res.st.blocked /\ res.st.frame_size = None /\ res.st.buffer = T.buffer
          BY <1>1, <1>8, <3>1
    <3>3. QED BY <3>1, <3>2 DEF res, T
  <2>4. QED BY <1>1, <1>4, <2>2, <2>3
<1>11. CASE H.frame.type = "push_promise"
  <2>1. res = HandlePromise(T, H.frame, table)
        BY <1>11 DEF HandledFrame, _handle_request_or_push_frame, T
  <2> HIDE DEF res
  <2>2. T.push_id = None
    <3>1. s = "request"
          BY <1>2, <1>11 DEF Allowed
    <3>2. QED BY <1>1, <3>1 DEF WholeFrame, SameStream
  <2>3. CASE H.frame.need > table
    <3>1. res = Result(T, << >>, "blocked")
          BY <2>1, <2>2, <2>3 DEF HandlePromise
    <3>2. QED BY <1>11, <2>3, <3>1 DEF Result, res
  <2>4. CASE ~(H.frame.need > table)
    <3>1. res = Result(T, <<"promise">>, "none")
          BY <2>1, <2>2, <2>4 DEF HandlePromise
    <3>2. PartsOf(g, Message(H)) = <<"promise">>
          BY <1>2, <1>11 DEF PartsOf
    <3>3. ~EndsStream(T)
          BY <1>2, <1>5, <1>11 DEF After, Complete
    <3>4. Ended(PartsOf(g, Message(H)), EndsStream(T)) = <<"promise">>
          BY <3>2, <3>3 DEF Ended
    <3>5. Counted(T, g, T)
      <4>1. After(g, Message(T)) = [phase |-> T.headers_recv_state, data |-> T.content_length,
                                    declared |-> T.expected_content_length, last |-> T.frame.type]
            BY <1>1, <1>2, <1>11 DEF After, Message
      <4>2. QED BY <1>1, <4>1 DEF Counted, Message, SameStream
    <3>6. res.st = T /\ res.parts = <<"promise">> /\ res.raised = "none"
          BY <3>1 DEF Result
    <3>7. /\ Heard(s, w, y, E, q, H, res.st, res.parts)
          /\ ~res.st.blocked /\ res.st.frame_size = None /\ res.st.buffer = T.buffer
          BY <1>8, <3>4, <3>5, <3>6
    <3>8. QED BY <3>6, <3>7 DEF res, T
  <2>5. QED BY <2>3, <2>4
<1>12. CASE H.frame.type = "reserved"
  <2>1. res = Result(T, << >>, "none")
        BY <1>12 DEF HandledFrame, _handle_request_or_push_frame, T
  <2> HIDE DEF res
  <2>2. Counted(T, g, T)
    <3>1. After(g, Message(T)) = [phase |-> T.headers_recv_state, data |-> T.content_length,
                                  declared |-> T.expected_content_length, last |-> T.frame.type]
          BY <1>1, <1>2, <1>12 DEF After, Message
    <3>2. QED BY <1>1, <3>1 DEF Counted, Message, SameStream
  <2>3. res.st = T /\ res.parts = << >> /\ res.raised = "none"
        BY <2>1 DEF Result
  <2>4. /\ Heard(s, w, y, E, q, H, res.st, res.parts)
        /\ ~res.st.blocked /\ res.st.frame_size = None /\ res.st.buffer = T.buffer
        BY <1>8, <1>12, <2>2, <2>3
  <2>5. QED BY <2>3, <2>4 DEF res, T
<1>13. \/ H.frame.type = "data" \/ H.frame.type = "headers"
       \/ H.frame.type = "push_promise" \/ H.frame.type = "reserved"
       BY <1>2 DEF Allowed
<1>14. QED BY <1>9, <1>10, <1>11, <1>12, <1>13

\* The run of the loop after k turns: it goes on, and has shortened the buffer in each
\* turn, or has stopped.
Running(s, w, y, E, q, old, table, k, run) ==
    /\ run = Result(run.st, run.parts, run.raised)
    /\ Heard(s, w, y, E, q, old, run.st, run.parts)
    /\ \/ /\ run.raised = "stop"
          /\ AtRest(run.st, table)
       \/ /\ run.raised = "none" /\ ~run.st.blocked
          /\ Len(run.st.buffer) + k =< Len(old.buffer)
          /\ run.st.frame_size = None \/ run.st.frame_size > 0
       \/ /\ run.raised = "none" /\ ~run.st.blocked
          /\ run.st.buffer = << >>
          /\ run.st.frame_size = None \/ run.st.frame_size > 0

\* What is reported of what stays to be read comes after what was reported.
LEMMA HeardMore ==
    ASSUME NEW s, NEW w, NEW y, NEW E, NEW q, NEW old, NEW mid, NEW st, NEW parts, NEW more,
           NEW r, parts \in Seq(Part), r \in Seq(Part), q = parts \o r,
           SameStream(mid, old), Heard(s, w, y, E, r, mid, st, more)
    PROVE  Heard(s, w, y, E, q, old, st, parts \o more)
<1>1. /\ st \in StreamType /\ SameStream(st, mid) /\ more \in Seq(Part)
      /\ \E a \in Seq(Part) : Reads(s, st, st.buffer \o w, a, y) /\ Told(E, st, r, more, a)
      BY DEF Heard
<1>2. PICK a \in Seq(Part) : Reads(s, st, st.buffer \o w, a, y) /\ Told(E, st, r, more, a)
      BY <1>1
<1>3. parts \o more \in Seq(Part)
      BY <1>1, ConcatProperties
<1>4. SameStream(st, old)
      BY <1>1 DEF SameStream
<1>5. Told(E, st, q, parts \o more, a)
  <2>1. CASE /\ r = more \o a
             /\ E /\ st.buffer = << >> /\ ~st.blocked => st.frame.type = "reserved"
    <3>1. (parts \o more) \o a = parts \o (more \o a)
      <4>1. parts \in Seq(Part) /\ more \in Seq(Part) /\ a \in Seq(Part)
            BY <1>1
      <4>2. QED BY ONLY <4>1, PartsTogether, Zenon
    <3> DEFINE p == parts \o more
    <3>2. q = p \o a
          BY <2>1, <3>1
    <3> HIDE DEF p
    <3>3. Told(E, st, q, p, a)
          BY <2>1, <3>2 DEF Told
    <3>4. QED BY <3>3 DEF p
  <2>2. CASE /\ E /\ st.buffer = << >> /\ ~st.blocked
             /\ more = r \o <<"end">> /\ a = << >>
    <3> DEFINE e == <<"end">>
               p == parts \o more
    <3>1. e \in Seq(Part)
          BY DEF Part
    <3>2. (parts \o r) \o e = parts \o (r \o e)
      <4>1. parts \in Seq(Part) /\ r \in Seq(Part) /\ e \in Seq(Part)
            BY <3>1
      <4> HIDE DEF e
      <4>2. QED BY ONLY <4>1, PartsTogether, Zenon
    <3>3. p = q \o e
          BY <2>2, <3>2
    <3> HIDE DEF p
    <3>4. Told(E, st, q, p, a)
          BY <2>2, <3>3 DEF Told
    <3>5. QED BY <3>4 DEF p
  <2>3. QED BY <1>2, <2>1, <2>2 DEF Told
<1>6. QED BY <1>1, <1>2, <1>3, <1>4, <1>5 DEF Heard

\* The smaller of two numbers.
LEMMA MinOfTwo ==
    ASSUME NEW a \in Nat, NEW b \in Nat
    PROVE  Min({a, b}) = IF a =< b THEN a ELSE b
<1> DEFINE m == IF a =< b THEN a ELSE b
<1>1. m \in {a, b} /\ \A z \in {a, b} : m =< z
      OBVIOUS
<1>2. \A x \in {a, b} : (\A z \in {a, b} : x =< z) => x = m
      OBVIOUS
<1> HIDE DEF m
<1>3. Min({a, b}) = m
      BY <1>1, <1>2 DEF Min
<1>4. QED BY <1>3 DEF m

\* A turn of the loop.
LEMMA TurnRuns ==
    ASSUME NEW s, NEW w, NEW y, NEW E, Context(s, w, y, E), NEW q \in Seq(Part),
           NEW old \in StreamType, old.ended = E, s = "request" => old.push_id = None,
           NEW table \in Nat, NEW k \in Nat, NEW run,
           Running(s, w, y, E, q, old, table, k, run)
    PROVE  Running(s, w, y, E, q, old, table, k + 1, ParseFrame(run, table))
<1> DEFINE st == run.st
           b == st.buffer
           H == FetchHeader(st)
           h == H.buffer
           chunk == Min({H.frame_size, Len(h)})
           whole == chunk = H.frame_size
           taken == [H EXCEPT !.frame_size = IF whole THEN None ELSE @ - chunk,
                              !.buffer = SubSeq(@, chunk + 1, Len(@))]
           handled == _handle_request_or_push_frame(taken, H.frame, chunk,
                          EndsStream(taken), table)
           next == ParseFrame(run, table)
<1>1. Heard(s, w, y, E, q, old, st, run.parts)
      BY DEF Running
<1>2. st \in StreamType /\ SameStream(st, old) /\ run.parts \in Seq(Part)
      BY <1>1 DEF Heard
<1>3. b \in Seq(UnitType) /\ Len(b) \in Nat /\ Len(old.buffer) \in Nat /\ w \in Seq(UnitType)
      BY <1>2, LenProperties DEF StreamType, Context
<1>4. CASE run.raised # "none" \/ b = << >>
  <2>1. next = run
        BY <1>4 DEF ParseFrame
  <2> HIDE DEF next, st, b
  <2>2. Running(s, w, y, E, q, old, table, k + 1, run)
        BY <1>4 DEF Running, st, b
  <2>3. QED BY <2>1, <2>2 DEF next
<1>5. CASE run.raised = "none" /\ b # << >>
  <2>1. /\ ~st.blocked /\ Len(b) + k =< Len(old.buffer)
        /\ st.frame_size = None \/ st.frame_size > 0
        BY <1>5 DEF Running
  <2>2. PICK r \in Seq(Part) : Reads(s, st, b \o w, r, y) /\ Told(E, st, q, run.parts, r)
        BY <1>1 DEF Heard
  <2>3. q = run.parts \o r
        BY <1>5, <2>2 DEF Told
  <2>4. Len(b) > 0
        BY <1>3, <1>5, EmptySeq
  <2>5. CASE st.frame_size = None /\ Len(b) < 2
    <3>1. next = Result(st, run.parts, "stop")
          BY <1>5, <2>5 DEF ParseFrame
    <3>2. ~E
      <4>1. E => w = << >>
            BY DEF Context
      <4>2. w = << >> => b \o w = b
            BY <1>3, ConcatEmptySeq
      <4>3. Carries(s, b \o w, Message(st), r, y)
            BY <2>1, <2>2, <2>5 DEF Reads, InHand
      <4>4. y \in MessageType
            BY DEF Context
      <4> HIDE DEF b, st
      <4>5. ASSUME b \o w = b PROVE FALSE
        <5>1. Carries(s, b, Message(st), r, y) /\ Len(b) < 2
              BY <2>5, <4>3, <4>5
        <5>2. b = << >>
              BY <4>4, <5>1, CarriesEnd
        <5>3. QED BY <1>5, <5>2
      <4>6. QED BY <4>1, <4>2, <4>5
    <3> HIDE DEF next, st
    <3>3. /\ next.st = st /\ next.parts = run.parts /\ next.raised = "stop"
          /\ next = Result(next.st, next.parts, next.raised)
          BY <3>1 DEF Result
    <3>4. AtRest(st, table)
          BY <1>3, <2>1, <2>5 DEF AtRest
    <3>5. QED BY <1>1, <3>3, <3>4 DEF Running, next
  <2>6. CASE ~(st.frame_size = None /\ Len(b) < 2)
    <3>1. /\ H \in StreamType /\ ~H.blocked /\ H.frame_size # None
          /\ SameStream(H, st)
          /\ Reads(s, H, h \o w, r, y)
          /\ Len(h) =< IF st.frame_size = None THEN Len(b) - 2 ELSE Len(b)
      <4> HIDE DEF st
      <4>1. st.frame_size = None => Len(st.buffer) >= 2
            BY <1>3, <2>6 DEF b
      <4>2. st.buffer # << >> /\ Reads(s, st, st.buffer \o w, r, y)
            BY <1>5, <2>2 DEF b
      <4>3. QED BY <1>2, <2>1, <4>1, <4>2, HeaderFetched DEF b
    <3>2. h \in Seq(UnitType) /\ Len(h) \in Nat /\ H.frame_size \in Nat
          BY <3>1, LenProperties DEF StreamType, Length
    <3> HIDE DEF H
    <3>3. chunk = IF H.frame_size =< Len(h) THEN H.frame_size ELSE Len(h)
          BY <3>2, MinOfTwo
    <3>4. Len(h) + k =< Len(old.buffer) /\ (H.frame_size > 0 \/ Len(h) + k + 1 =< Len(old.buffer))
      <4>1. CASE st.frame_size = None
        <5> HIDE DEF b, h
        <5>1. Len(h) =< Len(b) - 2 /\ Len(h) \in Nat /\ Len(b) + k =< Len(old.buffer)
              BY <2>1, <3>1, <3>2, <4>1
        <5>2. Len(h) + k + 1 =< Len(old.buffer) /\ Len(h) + k =< Len(old.buffer)
              BY <1>3, <5>1
        <5>3. QED BY <5>2
      <4>2. CASE st.frame_size # None
        <5>1. H = st
              BY <4>2 DEF FetchHeader, H
        <5> HIDE DEF b, h, st
        <5>2. Len(h) =< Len(b) /\ Len(h) \in Nat /\ Len(b) + k =< Len(old.buffer)
              BY <2>1, <3>1, <3>2, <4>2
        <5>3. Len(h) + k =< Len(old.buffer)
              BY <1>3, <5>2
        <5>4. H.frame_size > 0
              BY <2>1, <4>2, <5>1
        <5>5. QED BY <5>3, <5>4
      <4>3. QED BY <4>1, <4>2
    <3>5. CASE H.frame_size =< Len(h)
      <4>1. chunk = H.frame_size /\ whole
            BY <3>3, <3>5
      <4>2. taken = Taken(H)
            BY <4>1 DEF Taken, Drop
      <4>3. handled = HandledFrame(H, table)
            BY <4>1, <4>2 DEF HandledFrame
      <4> HIDE DEF taken, handled, chunk
      <4>4. WholeFrame(s, w, y, E, r, H)
        <5>1. H.ended = E /\ (s = "request" => H.push_id = None)
              BY <1>2, <3>1 DEF SameStream
        <5>2. QED BY <3>1, <3>5, <5>1 DEF WholeFrame
      <4>5. /\ Taken(H).buffer = Drop(h, H.frame_size)
            /\ Len(Taken(H).buffer) = Len(h) - H.frame_size
            /\ SameStream(Taken(H), H) /\ Taken(H).frame = H.frame
            BY <4>4, TakenTypes
      <4>6. CASE handled.raised = "blocked"
        <5>1. next = Result(Blocking(H), run.parts, "stop")
          <6>1. next = Result([taken EXCEPT !.blocked = TRUE, !.need = H.frame.need],
                              run.parts, "stop")
                BY <1>5, <2>6, <4>1, <4>6 DEF ParseFrame, H, taken, handled, chunk
          <6>2. QED BY <4>2, <6>1 DEF Blocking
        <5>2. (H.frame.type = "headers" \/ H.frame.type = "push_promise") /\ H.frame.need > table
              BY <4>3, <4>4, <4>6, FrameHandled
        <5> DEFINE B == Blocking(H)
        <5>3. /\ B \in StreamType /\ B.blocked /\ B.frame_size = None
              /\ B.frame = H.frame /\ B.need = H.frame.need
              /\ SameStream(B, H) /\ Reads(s, B, B.buffer \o w, r, y)
              BY <4>4, <5>2, FrameBlocks
        <5> HIDE DEF B, next, st
        <5>4. /\ next.st = B /\ next.parts = run.parts /\ next.raised = "stop"
              /\ next = Result(next.st, next.parts, next.raised)
              BY <5>1 DEF Result, B
        <5>5. Told(E, B, q, run.parts, r)
              BY <2>3, <5>3 DEF Told
        <5>6. SameStream(B, old)
              BY <1>2, <3>1, <5>3 DEF SameStream
        <5>7. Heard(s, w, y, E, q, old, B, run.parts)
              BY <1>2, <5>3, <5>5, <5>6 DEF Heard
        <5>8. AtRest(B, table)
              BY <5>2, <5>3 DEF AtRest
        <5>9. QED BY <5>4, <5>7, <5>8 DEF Running, next
      <4>7. CASE handled.raised # "blocked"
        <5>1. next = Result(handled.st, run.parts \o handled.parts, handled.raised)
              BY <1>5, <2>6, <4>1, <4>7 DEF ParseFrame, H, taken, handled, chunk
        <5>2. /\ handled.raised = "none"
              /\ Heard(s, w, y, E, r, H, handled.st, handled.parts)
              /\ ~handled.st.blocked /\ handled.st.frame_size = None
              /\ handled.st.buffer = Taken(H).buffer
              BY <4>3, <4>4, <4>7, FrameHandled
        <5>3. Heard(s, w, y, E, q, old, handled.st, run.parts \o handled.parts)
          <6>1. SameStream(H, old)
                BY <1>2, <3>1 DEF SameStream
          <6>2. QED BY <1>2, <2>3, <5>2, <6>1, HeardMore
        <5> HIDE DEF next, st
        <5>4. /\ next.st = handled.st /\ next.parts = run.parts \o handled.parts
              /\ next.raised = "none"
              /\ next = Result(next.st, next.parts, next.raised)
              BY <5>1, <5>2 DEF Result
        <5>5. Len(handled.st.buffer) + (k + 1) =< Len(old.buffer)
          <6>1. Len(handled.st.buffer) = Len(h) - H.frame_size
                BY <4>5, <5>2
          <6> DEFINE m == Len(h)
                     f == H.frame_size
                     o == Len(old.buffer)
          <6>2. /\ m \in Nat /\ f \in Nat /\ o \in Nat
                /\ m + k =< o /\ (f > 0 \/ m + k + 1 =< o)
                BY <1>3, <3>2, <3>4
          <6> HIDE DEF m, f, o
          <6>3. (m - f) + (k + 1) =< o
                BY <6>2
          <6>4. QED BY <6>1, <6>3 DEF m, f, o
        <5>6. QED BY <5>2, <5>3, <5>4, <5>5 DEF Running, next
      <4>8. QED BY <4>6, <4>7
    <3>6. CASE ~(H.frame_size =< Len(h))
      <4>1. chunk = Len(h) /\ ~whole /\ Len(h) < H.frame_size
            BY <3>2, <3>3, <3>6
      <4>2. CASE H.frame.type # "data"
        <5>1. next = Result(H, run.parts, "stop")
          <6> HIDE DEF taken, handled, chunk
          <6> QED BY <1>5, <2>6, <4>1, <4>2 DEF ParseFrame, H, chunk
        <5>2. H.frame_size = 1 /\ ~E
          <6>1. InHand(H) /\ BodyAhead(H) = H.frame_size
                BY <3>1 DEF InHand, BodyAhead
          <6>2. Allowed(s, Rest(H), Message(H)) /\ H.frame_size \in 0..Len(h \o w)
                BY <3>1, <6>1 DEF Reads
          <6>3. Rest(H).type = H.frame.type /\ Rest(H).size = H.frame_size
                BY <3>1 DEF Rest, StreamType, FrameType
          <6>4. H.frame_size = 1
                BY <4>2, <6>2, <6>3 DEF Allowed
          <6>5. w = << >> => h \o w = h
                BY <3>2, ConcatEmptySeq
          <6> HIDE DEF h
          <6>6. w # << >>
                BY <3>2, <4>1, <6>2, <6>5
          <6>7. QED BY <6>4, <6>6 DEF Context
        <5>3. h = << >>
          <6> HIDE DEF h
          <6>1. Len(h) = 0
                BY <3>2, <4>1, <5>2
          <6>2. QED BY <3>2, <6>1, EmptySeq
        <5> HIDE DEF next, st
        <5>4. /\ next.st = H /\ next.parts = run.parts /\ next.raised = "stop"
              /\ next = Result(next.st, next.parts, next.raised)
              BY <5>1 DEF Result
        <5>5. Told(E, H, q, run.parts, r)
              BY <2>3, <5>2 DEF Told
        <5>6. SameStream(H, old)
              BY <1>2, <3>1 DEF SameStream
        <5>7. Heard(s, w, y, E, q, old, H, run.parts)
              BY <1>2, <2>2, <3>1, <5>5, <5>6 DEF Heard
        <5>8. AtRest(H, table)
              BY <3>1, <5>2, <5>3 DEF AtRest
        <5>9. QED BY <5>4, <5>7, <5>8 DEF Running, next
      <4>3. CASE H.frame.type = "data"
        <5> DEFINE T == TakeFragment(H)
        <5>1. FragmentLeft(s, w, y, r, H, T) /\ w # << >>
          <6>1. FragmentCame(s, w, y, E, r, H)
                BY <3>1, <4>1, <4>3 DEF FragmentCame
          <6>2. QED BY <6>1, FragmentTaken
        <5>2. Drop(h, Len(h)) = << >> /\ ~E
              BY <3>2, <5>1, DropEnds DEF Context
        <5>3. taken = [H EXCEPT !.frame_size = H.frame_size - Len(h), !.buffer = << >>]
          <6>1. taken = [H EXCEPT !.frame_size = @ - chunk, !.buffer = Drop(h, chunk)]
                BY <4>1 DEF Drop
          <6>2. QED BY <4>1, <5>2, <6>1
        <5>4. taken.headers_recv_state = "after_headers" /\ ~EndsStream(taken)
          <6>1. taken.ended = E
                BY <1>2, <3>1, <5>3 DEF SameStream, StreamType
          <6> HIDE DEF taken
          <6>2. QED BY <3>1, <5>1, <5>2, <5>3, <6>1 DEF EndsStream, StreamType, FragmentLeft
        <5>5. [taken EXCEPT !.content_length = @ + chunk] = T
          <6> DEFINE n == H.frame_size - Len(h)
                     e == << >>
                     c == H.content_length + Len(h)
          <6>1. T = [H EXCEPT !.content_length = c, !.frame_size = n, !.buffer = e]
                BY DEF TakeFragment
          <6>2. taken = [H EXCEPT !.frame_size = n, !.buffer = e]
                BY <5>3
          <6>3. taken.content_length = H.content_length
                BY <3>1, <6>2 DEF StreamType
          <6> HIDE DEF taken, T, n, e
          <6>4. [taken EXCEPT !.content_length = @ + chunk] = [taken EXCEPT !.content_length = c]
                BY <4>1, <6>3
          <6> HIDE DEF c, chunk
          <6>5. [taken EXCEPT !.content_length = c] = T
                BY <3>1, <6>1, <6>2 DEF StreamType
          <6>6. QED BY <6>4, <6>5
        <5>6. handled = Result(T, AllData(Len(h)), "none")
          <6>1. handled = HandleData(taken, chunk, EndsStream(taken))
                BY <4>3 DEF _handle_request_or_push_frame
          <6> HIDE DEF taken, handled, T, chunk
          <6>2. HandleData(taken, chunk, EndsStream(taken)) =
                    Result(T, Ended(AllData(chunk), EndsStream(taken)), "none")
                BY <5>4, <5>5 DEF HandleData, AllData
          <6>3. QED BY <4>1, <5>4, <6>1, <6>2 DEF Ended
        <5> HIDE DEF handled, taken, T, chunk
        <5>7. handled.st = T /\ handled.parts = AllData(Len(h)) /\ handled.raised = "none"
              BY <5>6 DEF Result
        <5>8. next = Result(handled.st, run.parts \o handled.parts, handled.raised)
              BY <1>5, <2>6, <4>3, <5>7 DEF ParseFrame, H, taken, handled, chunk
        <5>9. PICK a \in Seq(Part) : r = AllData(Len(h)) \o a /\ Reads(s, T, w, a, y)
              BY <5>1 DEF FragmentLeft
        <5>10. T.buffer \o w = w
              BY <1>3, <5>1, ConcatEmptySeq DEF FragmentLeft
        <5>11. Heard(s, w, y, E, r, H, T, AllData(Len(h)))
          <6>1. Told(E, T, r, AllData(Len(h)), a)
                BY <5>2, <5>9 DEF Told
          <6>2. QED BY <5>1, <5>9, <5>10, <6>1 DEF Heard, FragmentLeft
        <5>12. Heard(s, w, y, E, q, old, T, run.parts \o AllData(Len(h)))
          <6>1. SameStream(H, old)
                BY <1>2, <3>1 DEF SameStream
          <6>2. QED BY <1>2, <2>3, <5>11, <6>1, HeardMore
        <5> HIDE DEF next, st
        <5>13. /\ next.st = T /\ next.parts = run.parts \o AllData(Len(h))
               /\ next.raised = "none"
               /\ next = Result(next.st, next.parts, next.raised)
               BY <5>7, <5>8 DEF Result
        <5>14. QED BY <5>1, <5>12, <5>13 DEF Running, FragmentLeft, next
      <4>4. QED BY <4>2, <4>3
    <3>7. QED BY <3>5, <3>6
  <2>7. QED BY <2>5, <2>6
<1>6. QED BY <1>4, <1>5

\* A stream that is not blocked, with what it has to read.
Ready(s, w, y, E, q, st) ==
    /\ Context(s, w, y, E)
    /\ st \in StreamType /\ ~st.blocked /\ st.ended = E
    /\ s = "request" => st.push_id = None
    /\ st.frame_size = None \/ st.frame_size > 0
    /\ Reads(s, st, st.buffer \o w, q, y)

\* What was read has been reported, and the stream waits for more.
Outcome(s, w, y, E, q, old, table, res) ==
    /\ Heard(s, w, y, E, q, old, res.st, res.parts)
    /\ res.raised # "error"
    /\ AtRest(res.st, table)

\* The loop reports what is in the buffer, without an error, and stops where nothing more
\* can be read.
LEMMA LoopRuns ==
    ASSUME NEW s, NEW w, NEW y, NEW E, NEW q, NEW st, Ready(s, w, y, E, q, st),
           NEW table \in Nat, st.ended => st.buffer # << >>
    PROVE  Outcome(s, w, y, E, q, st, table, ParseFrames(st, table))
<1> DEFINE n == Len(st.buffer)
           Run == [st : StreamType, parts : Seq(Part), raised : {"none", "stop"}]
           start == Result(st, << >>, "none")
           OK(k, run) == Running(s, w, y, E, q, st, table, k, run)
           Turn(run) == IF ParseFrame(run, table) \in Run THEN ParseFrame(run, table) ELSE run
           step == [p \in (1..n) \X Run |-> Turn(p[2])]
           Is(f) == f = [i \in 0..n |-> IF i = 0 THEN start ELSE ParseFrame(f[i - 1], table)]
<1>1. /\ Context(s, w, y, E) /\ st \in StreamType /\ ~st.blocked /\ st.ended = E
      /\ s = "request" => st.push_id = None
      /\ st.frame_size = None \/ st.frame_size > 0
      /\ Reads(s, st, st.buffer \o w, q, y)
      BY DEF Ready
<1>2. n \in Nat /\ q \in Seq(Part)
      BY <1>1, LenProperties, ReadsTypes DEF StreamType
<1>3. OK(0, start)
  <2>1. << >> \in Seq(Part) /\ << >> \o q = q
        BY <1>2, EmptySeq, ConcatEmptySeq
  <2>2. Told(E, st, q, << >>, q)
        BY <1>1, <2>1 DEF Told
  <2>3. Heard(s, w, y, E, q, st, st, << >>)
    <3> DEFINE e == << >>
    <3>1. e \in Seq(Part) /\ Told(E, st, q, e, q) /\ SameStream(st, st)
          BY <2>1, <2>2 DEF SameStream
    <3> HIDE DEF e
    <3>2. Heard(s, w, y, E, q, st, st, e)
          BY <1>1, <1>2, <3>1 DEF Heard
    <3>3. QED BY <3>2 DEF e
  <2>4. start.st = st /\ start.parts = << >> /\ start.raised = "none"
        BY DEF Result
  <2>5. Len(start.st.buffer) + 0 =< Len(st.buffer)
        BY <1>2, <2>4
  <2>6. start = Result(start.st, start.parts, start.raised)
        BY <2>4
  <2> HIDE DEF start
  <2>7. QED BY <1>1, <2>3, <2>4, <2>5, <2>6 DEF Running
<1>4. ASSUME NEW k \in Nat, NEW run, OK(k, run)
      PROVE  OK(k + 1, ParseFrame(run, table)) /\ run \in Run
  <2>1. OK(k + 1, ParseFrame(run, table))
        BY <1>1, <1>2, <1>4, TurnRuns
  <2>2. run \in Run
    <3>1. /\ run = [st |-> run.st, parts |-> run.parts, raised |-> run.raised]
          /\ run.st \in StreamType /\ run.parts \in Seq(Part)
          /\ run.raised \in {"none", "stop"}
          BY <1>4 DEF Running, Heard, Result
    <3>2. QED BY <3>1
  <2>3. QED BY <2>1, <2>2
<1>5. start \in Run
      BY <1>3, <1>4
<1>6. step \in [(1..n) \X Run -> Run]
  <2>1. \A run \in Run : Turn(run) \in Run
    <3> HIDE DEF Run
    <3> QED OBVIOUS
  <2> HIDE DEF Run, Turn, n
  <2>2. QED BY <2>1
<1>7. PICK h \in [0..n -> Run] :
          h[0] = start /\ \A i \in 1..n : h[i] = step[<<i, h[i - 1]>>]
  <2> HIDE DEF Run, step, start, n
  <2>1. Walks(n, Run, start, step) # {}
        BY <1>2, <1>5, <1>6, StepsExist
  <2>2. QED BY <2>1 DEF Walks
<1> DEFINE Good == {k \in 0..n : OK(k, h[k]) /\ (k # 0 => h[k] = ParseFrame(h[k - 1], table))}
<1>8. 0 \in Good
  <2> HIDE DEF OK, start
  <2> QED BY <1>2, <1>3, <1>7
<1>9. ASSUME NEW k \in 0..(n - 1), k \in Good PROVE k + 1 \in Good
  <2>1. k \in Nat /\ k + 1 \in 1..n /\ k + 1 \in 0..n /\ k \in 0..n /\ (k + 1) - 1 = k /\ k + 1 # 0
        BY <1>2
  <2> DEFINE P == ParseFrame(h[k], table)
  <2>2. OK(k + 1, P)
        BY <1>4, <1>9, <2>1
  <2>3. P \in Run
    <3>1. k + 1 \in Nat
          BY <2>1
    <3> HIDE DEF OK, P, Run
    <3>2. QED BY <1>4, <2>2, <3>1
  <2>4. h[k + 1] = P
    <3>1. h[k + 1] = step[<<k + 1, h[k]>>]
          BY <1>7, <2>1
    <3>2. h[k] \in Run
      <4> HIDE DEF Run, n
      <4> QED BY <1>7, <2>1
    <3>3. step[<<k + 1, h[k]>>] = Turn(h[k])
      <4> HIDE DEF Run, Turn, n
      <4> QED BY <2>1, <3>2
    <3>4. Turn(h[k]) = P
      <4> HIDE DEF Run
      <4> QED BY <2>3
    <3>5. QED BY <3>1, <3>3, <3>4
  <2> HIDE DEF P, OK
  <2>5. OK(k + 1, h[k + 1])
        BY <2>2, <2>4
  <2>6. h[k + 1] = ParseFrame(h[(k + 1) - 1], table)
        BY <2>1, <2>4 DEF P
  <2>7. QED BY <2>1, <2>5, <2>6
<1>10. \A k \in 0..n : k \in Good
  <2> HIDE DEF Good, n
  <2> QED BY <1>2, <1>8, <1>9, InductionUpTo
<1>11. Is(h)
  <2>1. \A i \in 0..n : h[i] = IF i = 0 THEN start ELSE ParseFrame(h[i - 1], table)
    <3> HIDE DEF OK, start, n
    <3> QED BY <1>7, <1>10
  <2> HIDE DEF start, n, Run
  <2>2. QED BY <1>7, <2>1
<1>12. PICK f : Is(f) /\ ParseFrames(st, table) = f[n]
  <2>1. ParseFrames(st, table) = (CHOOSE f : Is(f))[n]
        BY DEF ParseFrames
  <2> HIDE DEF Is
  <2>2. QED BY <1>11, <2>1
<1>13. \A k \in 0..n : k \in {j \in 0..n : f[j] = h[j]}
  <2> DEFINE Same == {j \in 0..n : f[j] = h[j]}
  <2> HIDE DEF start, n
  <2>1. 0 \in Same
        BY <1>2, <1>7, <1>12
  <2>2. ASSUME NEW k \in 0..(n - 1), k \in Same PROVE k + 1 \in Same
    <3>1. k + 1 \in 0..n /\ k + 1 # 0 /\ (k + 1) - 1 = k
          BY <1>2
    <3>2. f[k + 1] = ParseFrame(f[(k + 1) - 1], table) /\ h[k + 1] = ParseFrame(h[(k + 1) - 1], table)
          BY <1>11, <1>12, <3>1
    <3>3. QED BY <2>2, <3>1, <3>2
  <2> HIDE DEF Same
  <2>3. \A k \in 0..n : k \in Same
        BY <1>2, <2>1, <2>2, InductionUpTo
  <2>4. QED BY <2>3 DEF Same
<1> DEFINE res == ParseFrames(st, table)
<1>14. OK(n, res)
  <2> HIDE DEF OK, n, Is
  <2>1. n \in 0..n
        BY <1>2
  <2>2. res = h[n]
        BY <1>12, <1>13, <2>1
  <2>3. QED BY <1>10, <2>1, <2>2
<1> HIDE DEF res
<1>15. Heard(s, w, y, E, q, st, res.st, res.parts) /\ res.raised # "error"
      BY <1>14 DEF Running
<1>16. AtRest(res.st, table)
  <2> DEFINE b == res.st.buffer
  <2>1. b \in Seq(UnitType) /\ Len(b) \in Nat
        BY <1>15, LenProperties DEF Heard, StreamType
  <2>2. \/ res.raised = "stop" /\ AtRest(res.st, table)
        \/ /\ ~res.st.blocked /\ b = << >>
           /\ res.st.frame_size = None \/ res.st.frame_size > 0
    <3>1. CASE Len(b) + n =< Len(st.buffer)
      <4> DEFINE m == Len(b)
      <4>1. m \in Nat /\ m + n =< n
            BY <2>1, <3>1
      <4> HIDE DEF m, n
      <4>2. m = 0
            BY <1>2, <4>1
      <4>3. b = << >>
            BY <2>1, <4>2, EmptySeq DEF m
      <4>4. QED BY <1>14, <4>3 DEF Running
    <3>2. QED BY <1>14, <3>1 DEF Running
  <2>3. b = << >> => Len(b) =< 1
        BY <2>1, EmptySeq
  <2>4. QED BY <2>2, <2>3 DEF AtRest
<1>17. QED BY <1>15, <1>16 DEF Outcome, res

\* What arrives on a stream that is not blocked is reported, without an error.
LEMMA DataReceived ==
    ASSUME NEW s, NEW w, NEW y, NEW E, NEW q, NEW st, Ready(s, w, y, E, q, st),
           NEW table \in Nat
    PROVE  Outcome(s, w, y, E, q, st, table, _receive_request_or_push_data(st, E, table))
<1> DEFINE b == st.buffer
           res == _receive_request_or_push_data(st, E, table)
           fragment == st.frame.type = "data" /\ st.frame_size # None /\ Len(b) < st.frame_size
<1>1. /\ Context(s, w, y, E) /\ st \in StreamType /\ ~st.blocked /\ st.ended = E
      /\ st.frame_size = None \/ st.frame_size > 0
      /\ Reads(s, st, st.buffer \o w, q, y)
      BY DEF Ready
<1>2. b \in Seq(UnitType) /\ Len(b) \in Nat /\ w \in Seq(UnitType) /\ y \in MessageType
      /\ q \in Seq(Part)
      BY <1>1, LenProperties, ReadsTypes DEF StreamType, Context
<1>3. CASE fragment
  <2> DEFINE T == TakeFragment(st)
  <2>1. res = Result(T, AllData(Len(b)), "none")
        BY <1>1, <1>3 DEF _receive_request_or_push_data, AllData
  <2>2. FragmentLeft(s, w, y, q, st, T) /\ w # << >>
    <3>1. FragmentCame(s, w, y, E, q, st)
          BY <1>1, <1>3 DEF FragmentCame
    <3>2. QED BY <3>1, FragmentTaken
  <2> HIDE DEF res, T
  <2>3. res.st = T /\ res.parts = AllData(Len(b)) /\ res.raised = "none"
        BY <2>1 DEF Result
  <2>4. PICK a \in Seq(Part) : q = AllData(Len(b)) \o a /\ Reads(s, T, w, a, y)
        BY <2>2 DEF FragmentLeft
  <2>5. T.buffer \o w = w
        BY <1>2, <2>2, ConcatEmptySeq DEF FragmentLeft
  <2>6. ~E
        BY <1>1, <2>2 DEF Context
  <2>7. Told(E, T, q, AllData(Len(b)), a)
        BY <2>4, <2>6 DEF Told
  <2>8. Heard(s, w, y, E, q, st, T, AllData(Len(b)))
        BY <2>2, <2>4, <2>5, <2>7 DEF Heard, FragmentLeft
  <2>9. AtRest(T, table)
        BY <2>2 DEF AtRest, FragmentLeft
  <2>10. QED BY <2>3, <2>8, <2>9 DEF Outcome, res
<1>4. CASE ~fragment /\ E /\ Len(b) = 0
  <2>1. b = << >> /\ w = << >> /\ Complete(y)
        BY <1>1, <1>2, <1>4, EmptySeq DEF Context
  <2> DEFINE u == b \o w
  <2>2. u = << >>
    <3>1. << >> \in Seq(UnitType)
          BY EmptySeq
    <3>2. QED BY <2>1, <3>1, ConcatEmptySeq
  <2>3. Len(u) = 0
        BY <2>2
  <2>4. ~InHand(st)
    <3> HIDE DEF u
    <3>1. ASSUME InHand(st) PROVE FALSE
      <4>1. st.frame_size > 0 /\ st.frame_size \in 0..Len(u)
            BY <1>1, <3>1 DEF InHand, Reads, BodyAhead, u
      <4>2. QED BY <2>3, <4>1
    <3>2. QED BY <3>1
  <2>5. Carries(s, u, Message(st), q, y)
        BY <1>1, <2>4 DEF Reads
  <2>6. q = << >> /\ Message(st) = y
    <3> HIDE DEF u, b
    <3>1. Len(u) < 2
          BY <2>3
    <3>2. QED BY <1>2, <2>5, <3>1, CarriesEnd
  <2>7. _check_content_length(st)
        BY <2>1, <2>6 DEF Message, Complete, _check_content_length
  <2>8. res = Result(st, <<"end">>, "none")
        BY <1>1, <1>4, <2>7 DEF _receive_request_or_push_data
  <2> HIDE DEF res
  <2>9. res.st = st /\ res.parts = <<"end">> /\ res.raised = "none"
        BY <2>8 DEF Result
  <2>10. <<"end">> \in Seq(Part) /\ q \o <<"end">> = <<"end">>
    <3>1. <<"end">> \in Seq(Part)
          BY DEF Part
    <3>2. QED BY <2>6, <3>1, ConcatEmptySeq
  <2>11. Told(E, st, q, <<"end">>, q)
        BY <1>1, <1>4, <2>1, <2>6, <2>10 DEF Told
  <2>12. Heard(s, w, y, E, q, st, st, <<"end">>)
        BY <1>1, <1>2, <2>10, <2>11 DEF Heard, SameStream
  <2>13. AtRest(st, table)
        BY <1>1, <1>4, <2>4 DEF AtRest, InHand
  <2>14. QED BY <2>9, <2>12, <2>13 DEF Outcome, res
<1>5. CASE ~fragment /\ ~(E /\ Len(b) = 0)
  <2>1. res = ParseFrames(st, table)
        BY <1>1, <1>5 DEF _receive_request_or_push_data
  <2>2. st.ended => st.buffer # << >>
        BY <1>1, <1>5
  <2> HIDE DEF res
  <2>3. Outcome(s, w, y, E, q, st, table, ParseFrames(st, table))
        BY <2>2, LoopRuns
  <2>4. QED BY <2>1, <2>3 DEF res
<1>6. QED BY <1>3, <1>4, <1>5

-----------------------------------------------------------------------------
(* The units that open a push stream, and a stream that is unblocked.      *)

\* The number of units that the client has still to read before the frames.
Prefix(s, st) ==
    IF s = "request" \/ st.push_id # None THEN 0
    ELSE IF st.stream_type = "none" THEN 2 ELSE 1

\* What the stream st has to read, with the units w on their way, is q.
Coming(s, st, w, y, q) ==
    /\ Prefix(s, st) \in 0..Len(st.buffer \o w)
    /\ Prefix(s, st) > 0 => ~st.blocked /\ st.frame_size = None
    /\ s = "request" => st.push_id = None
    /\ s = "push" /\ st.push_id # None => st.stream_type = "push"
    /\ Reads(s, st, Drop(st.buffer \o w, Prefix(s, st)), q, y)

\* The same of a stream whose prefix waits for the network only.
Stage(s, st, w, y, q) == Coming(s, st, w, y, q) /\ (Prefix(s, st) > 0 => st.buffer = << >>)

Incoming(s, w, y, E, q, st, table) ==
    /\ Context(s, w, y, E)
    /\ st \in StreamType /\ st.ended = E
    /\ Coming(s, st, w, y, q)
    /\ IF st.blocked THEN AtRest(st, table) ELSE st.frame_size = None \/ st.frame_size > 0

\* What a handler of the client leaves: the stream waits, and what it reported is what
\* it read.
Moved(s, w, y, E, q, table, res) ==
    /\ res.st \in StreamType /\ res.st.ended = E /\ res.parts \in Seq(Part)
    /\ res.raised # "error"
    /\ AtRest(res.st, table)
    /\ \E r \in Seq(Part) : Stage(s, res.st, w, y, r) /\ Told(E, res.st, q, res.parts, r)

\* A stream that is past its prefix and is not blocked is ready.
LEMMA PastPrefix ==
    ASSUME NEW s, NEW w, NEW y, NEW E, NEW q, NEW st, NEW table \in Nat,
           Incoming(s, w, y, E, q, st, table), Prefix(s, st) = 0
    PROVE  /\ Reads(s, st, st.buffer \o w, q, y)
           /\ ~st.blocked => Ready(s, w, y, E, q, st)
<1>1. /\ Context(s, w, y, E) /\ st \in StreamType /\ st.ended = E
      /\ Coming(s, st, w, y, q)
      /\ ~st.blocked => st.frame_size = None \/ st.frame_size > 0
      BY DEF Incoming
<1> DEFINE u == st.buffer \o w
<1>2. Drop(u, 0) = u
  <2>1. st.buffer \in Seq(UnitType) /\ w \in Seq(UnitType)
        BY <1>1 DEF StreamType, Context
  <2>2. u \in Seq(UnitType)
        BY <2>1, ConcatProperties
  <2> HIDE DEF u
  <2>3. QED BY <2>2, DropEnds
<1>3. Reads(s, st, u, q, y)
  <2>1. Reads(s, st, Drop(u, Prefix(s, st)), q, y)
        BY <1>1 DEF Coming
  <2> HIDE DEF u
  <2>2. QED BY <1>2, <2>1
<1>4. s = "request" => st.push_id = None
      BY <1>1 DEF Coming
<1>5. QED BY <1>1, <1>3, <1>4 DEF Ready

\* Past the prefix, what the frames leave is what a handler leaves.
LEMMA FramesMove ==
    ASSUME NEW s, NEW w, NEW y, NEW E, NEW q, NEW old, NEW table, NEW res,
           w \in Seq(UnitType), old.ended = E, Prefix(s, old) = 0,
           s = "request" => old.push_id = None,
           s = "push" /\ old.push_id # None => old.stream_type = "push",
           Outcome(s, w, y, E, q, old, table, res)
    PROVE  Moved(s, w, y, E, q, table, res)
<1> DEFINE st == res.st
           u == st.buffer \o w
<1>1. /\ st \in StreamType /\ SameStream(st, old) /\ res.parts \in Seq(Part)
      /\ res.raised # "error" /\ AtRest(st, table)
      BY DEF Outcome, Heard
<1>2. PICK r \in Seq(Part) : Reads(s, st, u, r, y) /\ Told(E, st, q, res.parts, r)
      BY DEF Outcome, Heard
<1>3. Prefix(s, st) = 0 /\ st.ended = E
      BY <1>1 DEF Prefix, SameStream
<1>4. u \in Seq(UnitType) /\ Drop(u, 0) = u /\ 0 \in 0..Len(u)
  <2>1. st.buffer \in Seq(UnitType)
        BY <1>1 DEF StreamType
  <2>2. u \in Seq(UnitType)
        BY <2>1, ConcatProperties
  <2> HIDE DEF u
  <2>3. QED BY <2>2, DropEnds, LenProperties
<1>5. Stage(s, st, w, y, r)
  <2>1. Reads(s, st, Drop(u, Prefix(s, st)), r, y) /\ Prefix(s, st) \in 0..Len(u)
    <3> HIDE DEF u, st
    <3> QED BY <1>2, <1>3, <1>4
  <2>2. /\ s = "request" => st.push_id = None
        /\ s = "push" /\ st.push_id # None => st.stream_type = "push"
        BY <1>1 DEF SameStream
  <2>3. ~(Prefix(s, st) > 0)
        BY <1>3
  <2> HIDE DEF st
  <2>4. QED BY <2>1, <2>2, <2>3 DEF Stage, Coming
<1> HIDE DEF st
<1>6. QED BY <1>1, <1>2, <1>3, <1>5 DEF Moved, st

\* A unit of the prefix is read.
LEMMA PrefixUnitRead ==
    ASSUME NEW s, NEW w, NEW y, NEW E, NEW q, NEW st, NEW table,
           Incoming(s, w, y, E, q, st, table), Prefix(s, st) > 0, st.buffer # << >>,
           NEW new \in StreamType, new.buffer = Tail(st.buffer), ~new.blocked,
           new.frame_size = None, Message(new) = Message(st), new.ended = st.ended,
           Prefix(s, new) = Prefix(s, st) - 1, s = "request" => new.push_id = None,
           s = "push" /\ new.push_id # None => new.stream_type = "push"
    PROVE  Incoming(s, w, y, E, q, new, table)
<1> DEFINE b == st.buffer
           k == Prefix(s, st)
           j == Prefix(s, new)
           t == Tail(b)
           u == b \o w
           v == t \o w
<1>1. /\ Context(s, w, y, E) /\ st \in StreamType /\ st.ended = E
      /\ Coming(s, st, w, y, q)
      BY DEF Incoming
<1>2. b \in Seq(UnitType) /\ w \in Seq(UnitType) /\ Len(b) \in Nat /\ Len(w) \in Nat
      BY <1>1, LenProperties DEF StreamType, Context
<1>3. /\ t \in Seq(UnitType) /\ Len(t) = Len(b) - 1
      /\ \A i \in 1..(Len(b) - 1) : t[i] = b[i + 1]
      BY <1>2, HeadTailProperties
<1>4. Len(b) > 0
      BY <1>2, EmptySeq
<1> DEFINE one == 1
<1>5. one \in 0..Len(b) /\ one \in Nat
      BY <1>2, <1>4
<1>6. t = Drop(b, one)
  <2>1. /\ Drop(b, one) \in Seq(UnitType) /\ Len(Drop(b, one)) = Len(b) - one
        /\ \A i \in 1..(Len(b) - one) : Drop(b, one)[i] = b[one + i]
    <3> HIDE DEF one, b
    <3> QED BY <1>2, <1>5, DropItems
  <2> DEFINE d == Drop(b, one)
  <2>2. \A i \in 1..Len(t) : t[i] = d[i]
        BY <1>2, <1>3, <2>1
  <2>3. Len(t) = Len(d) /\ d \in Seq(UnitType)
        BY <1>3, <2>1
  <2> HIDE DEF d, t
  <2>4. t = d
        BY <1>3, <2>2, <2>3, SeqEqual
  <2>5. QED BY <2>4 DEF d
<1>7. v = Drop(u, one)
  <2> HIDE DEF one, b, t
  <2> QED BY <1>2, <1>5, <1>6, DropConcat
<1>8. u \in Seq(UnitType) /\ Len(u) = Len(b) + Len(w) /\ Len(v) = Len(t) + Len(w)
      BY <1>2, <1>3, ConcatProperties
<1>9. k \in 0..Len(u) /\ j = k - 1 /\ k \in 1..2
      BY <1>1 DEF Coming, Prefix
<1> HIDE DEF u, v, k, j, t
<1>10. j \in Nat /\ one + j = k /\ one + j <= Len(u) /\ j \in 0..Len(v)
       BY <1>2, <1>3, <1>8, <1>9
<1>11. Drop(v, j) = Drop(u, k)
  <2> HIDE DEF one
  <2>1. Drop(Drop(u, one), j) = Drop(u, one + j)
        BY <1>5, <1>8, <1>10, DropTwice
  <2>2. QED BY <1>7, <1>10, <2>1
<1>12. Carries(s, Drop(u, k), Message(st), q, y)
  <2>1. ~st.blocked /\ st.frame_size = None
        BY <1>1 DEF Coming
  <2>2. Reads(s, st, Drop(u, k), q, y)
        BY <1>1 DEF Coming, u, k
  <2>3. QED BY <2>1, <2>2 DEF Reads, InHand
<1>13. Reads(s, new, Drop(v, j), q, y)
       BY <1>11, <1>12 DEF Reads, InHand
<1>14. new.buffer \o w = v
       BY DEF v, t
<1>15. Coming(s, new, w, y, q)
       BY <1>10, <1>13, <1>14 DEF Coming, j
<1>16. QED BY <1>1, <1>15 DEF Incoming

\* The prefix is read as far as it has come.
LEMMA PushOpens ==
    ASSUME NEW w, NEW y, NEW E, NEW q, NEW st, NEW table,
           Incoming("push", w, y, E, q, st, table)
    PROVE  /\ Incoming("push", w, y, E, q, OpenPush(st), table)
           /\ OpenPush(st).push_id = None => OpenPush(st).buffer = << >>
<1> DEFINE o == IF st.stream_type = "none" /\ st.buffer # << >>
                THEN [st EXCEPT !.stream_type = "push", !.buffer = Tail(st.buffer)]
                ELSE st
<1>1. st \in StreamType /\ Coming("push", st, w, y, q) /\ st.ended = E
      BY DEF Incoming
<1>2. st.push_id \in {None, 0} /\ st.stream_type \in {"none", "push"} /\ None # 0
      BY <1>1 DEF StreamType, None
<1>3. /\ Incoming("push", w, y, E, q, o, table)
      /\ o.stream_type = "none" => o.buffer = << >>
  <2>1. CASE st.stream_type = "none" /\ st.buffer # << >>
    <3>1. st.push_id = None
          BY <1>1, <2>1 DEF Coming
    <3>2. Prefix("push", st) = 2
          BY <2>1, <3>1 DEF Prefix
    <3>3. ~st.blocked /\ st.frame_size = None
          BY <1>1, <3>2 DEF Coming
    <3> DEFINE t == Tail(st.buffer)
    <3>4. t \in Seq(UnitType)
          BY <1>1, <2>1, HeadTailProperties DEF StreamType
    <3>5. o = [st EXCEPT !.stream_type = "push", !.buffer = t]
          BY <2>1
    <3> HIDE DEF o, t
    <3>6. o \in StreamType
          BY <1>1, <3>4, <3>5 DEF StreamType
    <3>7. /\ o.buffer = t /\ ~o.blocked /\ o.frame_size = None /\ o.stream_type = "push"
          /\ o.push_id = None /\ o.ended = st.ended /\ Message(o) = Message(st)
          BY <1>1, <3>1, <3>3, <3>5 DEF StreamType, Message
    <3>8. Prefix("push", o) = Prefix("push", st) - 1 /\ Prefix("push", st) > 0
          BY <3>2, <3>7 DEF Prefix
    <3>9. o.buffer = Tail(st.buffer) /\ ("push" = "request" => o.push_id = None)
          BY <3>7 DEF t
    <3>10. Incoming("push", w, y, E, q, o, table)
           BY <2>1, <3>6, <3>7, <3>8, <3>9, PrefixUnitRead
    <3>11. QED BY <3>7, <3>10
  <2>2. CASE ~(st.stream_type = "none" /\ st.buffer # << >>)
    <3>1. o = st
          BY <2>2
    <3> HIDE DEF o
    <3>2. QED BY <2>2, <3>1
  <2>3. QED BY <2>1, <2>2
<1> DEFINE p == OpenPush(st)
<1>4. p = IF o.stream_type = "push" /\ o.push_id = None /\ o.buffer # << >>
          THEN [o EXCEPT !.push_id = 0, !.buffer = Tail(o.buffer)] ELSE o
      BY DEF OpenPush
<1> HIDE DEF o, p
<1>5. o \in StreamType /\ Coming("push", o, w, y, q)
      BY <1>3 DEF Incoming
<1>6. CASE o.stream_type = "push" /\ o.push_id = None /\ o.buffer # << >>
  <2>1. Prefix("push", o) = 1
        BY <1>6 DEF Prefix
  <2>2. ~o.blocked /\ o.frame_size = None
        BY <1>5, <2>1 DEF Coming
  <2> DEFINE t == Tail(o.buffer)
  <2>3. t \in Seq(UnitType)
        BY <1>5, <1>6, HeadTailProperties DEF StreamType
  <2>4. p = [o EXCEPT !.push_id = 0, !.buffer = t]
        BY <1>4, <1>6
  <2> HIDE DEF t
  <2>5. p \in StreamType
        BY <1>5, <2>3, <2>4 DEF StreamType
  <2>6. /\ p.buffer = t /\ ~p.blocked /\ p.frame_size = None /\ p.stream_type = "push"
        /\ p.push_id = 0 /\ p.ended = o.ended /\ Message(p) = Message(o)
        BY <1>5, <1>6, <2>2, <2>4 DEF StreamType, Message
  <2>7. Prefix("push", p) = Prefix("push", o) - 1 /\ Prefix("push", o) > 0
        BY <1>2, <2>1, <2>6 DEF Prefix
  <2>8. p.buffer = Tail(o.buffer) /\ ("push" = "request" => p.push_id = None)
        BY <2>6 DEF t
  <2>9. Incoming("push", w, y, E, q, p, table)
        BY <1>3, <1>6, <2>5, <2>6, <2>7, <2>8, PrefixUnitRead
  <2>10. QED BY <1>2, <2>6, <2>9 DEF p
<1>7. CASE ~(o.stream_type = "push" /\ o.push_id = None /\ o.buffer # << >>)
  <2>1. p = o
        BY <1>4, <1>7
  <2>2. o.push_id = None => o.buffer = << >>
        BY <1>3, <1>5, <1>7 DEF StreamType
  <2>3. QED BY <1>3, <2>1, <2>2 DEF p
<1>8. QED BY <1>6, <1>7

\* What a stream does with what has arrived.
Receives(s, st, E, table) ==
    IF s = "push" THEN _receive_stream_data_uni(st, E, table)
    ELSE _receive_request_or_push_data(st, E, table)

\* Past the prefix, a blocked stream reports nothing, and another what it can read.
LEMMA FramesReceived ==
    ASSUME NEW s, NEW w, NEW y, NEW E, NEW q, NEW st, NEW table \in Nat,
           Incoming(s, w, y, E, q, st, table), Prefix(s, st) = 0
    PROVE  Moved(s, w, y, E, q, table, _receive_request_or_push_data(st, E, table))
<1>1. /\ Context(s, w, y, E) /\ st \in StreamType /\ st.ended = E
      /\ Coming(s, st, w, y, q)
      BY DEF Incoming
<1>2. /\ s = "request" => st.push_id = None
      /\ s = "push" /\ st.push_id # None => st.stream_type = "push"
      BY <1>1 DEF Coming
<1>3. w \in Seq(UnitType)
      BY <1>1 DEF Context
<1> DEFINE res == _receive_request_or_push_data(st, E, table)
<1>4. Outcome(s, w, y, E, q, st, table, res)
  <2>1. CASE st.blocked
    <3>1. res = Result(st, << >>, "none")
          BY <2>1 DEF _receive_request_or_push_data
    <3> DEFINE e == << >>
    <3>2. e \in Seq(Part) /\ q \in Seq(Part) /\ q = e \o q
      <4>1. Reads(s, st, st.buffer \o w, q, y)
            BY PastPrefix
      <4>2. q \in Seq(Part)
            BY <1>1, <4>1, ReadsTypes
      <4>3. QED BY <4>2, EmptySeq, ConcatEmptySeq
    <3>3. res.st = st /\ res.parts = e /\ res.raised = "none"
          BY <3>1 DEF Result
    <3> HIDE DEF e, res
    <3>4. Told(E, st, q, e, q)
          BY <2>1, <3>2 DEF Told
    <3>5. Reads(s, st, st.buffer \o w, q, y)
          BY PastPrefix
    <3>6. Heard(s, w, y, E, q, st, st, e)
          BY <1>1, <3>2, <3>4, <3>5 DEF Heard, SameStream
    <3>7. AtRest(st, table)
          BY <2>1 DEF Incoming
    <3>8. QED BY <3>3, <3>6, <3>7 DEF Outcome
  <2>2. CASE ~st.blocked
    <3>1. Ready(s, w, y, E, q, st)
          BY <2>2, PastPrefix
    <3>2. QED BY <3>1, DataReceived
  <2>3. QED BY <2>1, <2>2
<1> HIDE DEF res
<1>5. Moved(s, w, y, E, q, table, res)
      BY <1>1, <1>2, <1>3, <1>4, FramesMove
<1>6. QED BY <1>5 DEF res

\* What arrives on a stream is read as far as it can be, without an error.
LEMMA StreamReceives ==
    ASSUME NEW s, NEW w, NEW y, NEW E, NEW q, NEW st, NEW table \in Nat,
           Incoming(s, w, y, E, q, st, table)
    PROVE  Moved(s, w, y, E, q, table, Receives(s, st, E, table))
<1>1. s \in Streams
      BY DEF Incoming, Context
<1>2. CASE s = "request"
  <2>1. Prefix(s, st) = 0
        BY <1>2 DEF Prefix
  <2>2. Receives(s, st, E, table) = _receive_request_or_push_data(st, E, table)
        BY <1>2 DEF Receives
  <2>3. QED BY <2>1, <2>2, FramesReceived
<1>3. CASE s = "push"
  <2> DEFINE o == OpenPush(st)
             res == Receives(s, st, E, table)
  <2>1. Incoming(s, w, y, E, q, o, table) /\ (o.push_id = None => o.buffer = << >>)
        BY <1>3, PushOpens
  <2>2. res = _receive_stream_data_uni(st, E, table)
        BY <1>3 DEF Receives
  <2> HIDE DEF o
  <2>3. CASE o.push_id # None
    <3>1. res = _receive_request_or_push_data(o, E, table)
          BY <2>2, <2>3 DEF _receive_stream_data_uni, o
    <3>2. Prefix(s, o) = 0
          BY <2>3 DEF Prefix
    <3> HIDE DEF res
    <3>3. Moved(s, w, y, E, q, table, _receive_request_or_push_data(o, E, table))
          BY <2>1, <3>2, FramesReceived
    <3>4. QED BY <3>1, <3>3 DEF res
  <2>4. CASE o.push_id = None
    <3> DEFINE e == << >>
    <3>1. res = Result(o, e, "none")
          BY <2>2, <2>4 DEF _receive_stream_data_uni, o
    <3>2. /\ Context(s, w, y, E) /\ o \in StreamType /\ o.ended = E
          /\ Coming(s, o, w, y, q) /\ o.buffer = << >>
          BY <2>1, <2>4 DEF Incoming
    <3>3. Prefix(s, o) \in 1..2 /\ Prefix(s, o) > 0
          BY <1>3, <2>4 DEF Prefix
    <3>4. ~o.blocked /\ o.frame_size = None
          BY <3>2, <3>3 DEF Coming
    <3>5. w \in Seq(UnitType) /\ o.buffer \o w = w
          BY <3>2, ConcatEmptySeq DEF Context
    <3>6. ~E
      <4>1. Len(w) > 0
            BY <3>2, <3>3, <3>5, LenProperties DEF Coming
      <4>2. w = << >> => Len(w) = 0
            OBVIOUS
      <4>3. QED BY <3>2, <4>1, <4>2 DEF Context
    <3>7. q \in Seq(Part) /\ e \in Seq(Part) /\ q = e \o q
      <4>1. Reads(s, o, Drop(o.buffer \o w, Prefix(s, o)), q, y)
            BY <3>2 DEF Coming
      <4>2. q \in Seq(Part)
            BY <3>2, <4>1, ReadsTypes
      <4>3. QED BY <4>2, EmptySeq, ConcatEmptySeq
    <3>8. AtRest(o, table)
      <4>1. Len(o.buffer) = 0
            BY <3>2
      <4>2. QED BY <3>4, <4>1 DEF AtRest
    <3> HIDE DEF e, res
    <3>9. res.st = o /\ res.parts = e /\ res.raised = "none"
          BY <3>1 DEF Result
    <3>10. Told(E, o, q, e, q)
           BY <3>6, <3>7 DEF Told
    <3>11. Stage(s, o, w, y, q)
           BY <3>2 DEF Stage
    <3>12. QED BY <3>2, <3>7, <3>8, <3>9, <3>10, <3>11 DEF Moved, res
  <2>5. QED BY <2>3, <2>4
<1>4. QED BY <1>1, <1>2, <1>3 DEF Streams

\* A blocked stream whose instructions have come.
Resuming(s, w, y, E, q, st, table) ==
    /\ Context(s, w, y, E)
    /\ st \in StreamType /\ st.ended = E
    /\ Coming(s, st, w, y, q)
    /\ st.blocked /\ st.frame_size = None
    /\ st.frame.need =< table

\* When the frame in hand is a HEADERS frame it is reported, with what came after it.
LEMMA HeadersResume ==
    ASSUME NEW s, NEW w, NEW y, NEW E, NEW q, NEW st, NEW table \in Nat,
           Resuming(s, w, y, E, q, st, table), st.frame.type = "headers"
    PROVE  Moved(s, w, y, E, q, table, Resume(st, table))
<1> DEFINE b == st.buffer
           g == Rest(st)
           x == Message(st)
           hd == HandleHeaders(st, st.frame, EndsStream(st), table)
           open == [hd.st EXCEPT !.blocked = FALSE]
           rest == _receive_request_or_push_data(open, st.ended, table)
           p == PartsOf(g, x)
           u == b \o w
           res == Resume(st, table)
<1>1. /\ Context(s, w, y, E) /\ st \in StreamType /\ st.ended = E
      /\ Coming(s, st, w, y, q)
      /\ st.blocked /\ st.frame_size = None
      /\ st.frame.need =< table
      BY DEF Resuming
<1>2. b \in Seq(UnitType) /\ w \in Seq(UnitType) /\ y \in MessageType /\ E \in BOOLEAN
      BY <1>1 DEF StreamType, Context
<1>3. Prefix(s, st) = 0
      BY <1>1 DEF Coming, Prefix
<1>4. u \in Seq(UnitType) /\ Drop(u, 0) = u
  <2>1. u \in Seq(UnitType)
        BY <1>2, ConcatProperties
  <2> HIDE DEF u
  <2>2. QED BY <2>1, DropEnds
<1>5. Reads(s, st, u, q, y)
  <2>1. Reads(s, st, Drop(u, Prefix(s, st)), q, y)
        BY <1>1 DEF Coming
  <2> HIDE DEF u
  <2>2. QED BY <1>3, <1>4, <2>1
<1>6. InHand(st) /\ BodyAhead(st) = 0
      BY <1>1 DEF InHand, BodyAhead
<1>7. PICK r \in Seq(Part) : q = p \o r /\ Carries(s, u, After(g, x), r, y)
  <2> HIDE DEF u, g, x
  <2>1. /\ Allowed(s, g, x)
        /\ \E r \in Seq(Part) : q = PartsOf(g, x) \o r /\ Carries(s, Drop(u, 0), After(g, x), r, y)
        BY <1>5, <1>6 DEF Reads, g, x
  <2>2. QED BY <1>4, <2>1
<1>8. Allowed(s, g, x)
      BY <1>5, <1>6 DEF Reads
<1>9. g \in FrameType /\ x \in MessageType
      BY <1>1, <1>6, MessageTypes
<1>10. g.type = "headers" /\ g.length = st.frame.length
       BY <1>1 DEF Rest, StreamType, FrameType
<1>11. p \in Seq(Part)
       BY <1>9, FrameTypes
<1>12. EndsStream(st) => r = << >> /\ After(g, x) = y /\ Complete(y)
  <2>1. SUFFICES ASSUME EndsStream(st)
                 PROVE  r = << >> /\ After(g, x) = y /\ Complete(y)
        OBVIOUS
  <2>2. b = << >> /\ w = << >> /\ Complete(y)
        BY <1>1, <2>1 DEF EndsStream, Context
  <2>3. u = << >>
    <3>1. << >> \in Seq(UnitType)
          BY EmptySeq
    <3>2. QED BY <2>2, <3>1, ConcatEmptySeq
  <2>4. Len(u) < 2
        BY <2>3
  <2> HIDE DEF u, g, x
  <2>5. QED BY <1>2, <1>7, <2>2, <2>4, CarriesEnd
<1> HIDE DEF g, x, u, p
<1>13. /\ hd.raised = "none"
       /\ hd.parts = Ended(p, EndsStream(st))
       /\ Counted(st, g, hd.st)
  <2>1. EndsStream(st) => Complete(After(g, Message(st)))
        BY <1>12 DEF x
  <2>2. Allowed(s, g, Message(st))
        BY <1>8 DEF x
  <2> HIDE DEF hd
  <2>3. /\ hd.raised = "none"
        /\ hd.parts = Ended(PartsOf(g, Message(st)), EndsStream(st))
        /\ Counted(st, g, hd.st)
        BY <1>1, <1>9, <1>10, <2>1, <2>2, HeadersCounted DEF hd
  <2>4. QED BY <2>3 DEF p, x
<1> HIDE DEF hd
<1>14. /\ open \in StreamType /\ ~open.blocked /\ open.frame_size = None
       /\ open.buffer = b /\ SameStream(open, st) /\ Message(open) = After(g, x)
  <2>1. /\ hd.st \in StreamType /\ Message(hd.st) = After(g, x)
        /\ hd.st.buffer = b /\ hd.st.frame_size = None /\ SameStream(hd.st, st)
        BY <1>1, <1>13 DEF Counted, x
  <2>2. open \in StreamType
        BY <2>1 DEF StreamType
  <2>3. /\ ~open.blocked /\ open.frame_size = hd.st.frame_size /\ open.buffer = hd.st.buffer
        /\ SameStream(open, hd.st) /\ Message(open) = Message(hd.st)
        BY <2>1 DEF StreamType, SameStream, Message
  <2>4. QED BY <2>1, <2>2, <2>3 DEF SameStream
<1> HIDE DEF open
<1>15. ~InHand(open) /\ Reads(s, open, open.buffer \o w, r, y)
  <2>1. ~InHand(open)
        BY <1>14 DEF InHand
  <2>2. open.buffer \o w = u
        BY <1>14 DEF u
  <2>3. QED BY <1>7, <1>14, <2>1, <2>2 DEF Reads
<1>16. /\ s = "request" => st.push_id = None
       /\ s = "push" /\ st.push_id # None => st.stream_type = "push"
       BY <1>1 DEF Coming
<1>17. Outcome(s, w, y, E, q, st, table, res)
  <2>1. CASE b = << >>
    <3>1. res = Result(open, hd.parts, "none")
          BY <1>13, <2>1 DEF Resume, hd, open
    <3> HIDE DEF res
    <3>2. res.st = open /\ res.parts = hd.parts /\ res.raised = "none"
          BY <3>1 DEF Result
    <3>3. AtRest(open, table)
      <4>1. Len(open.buffer) = 0
            BY <1>14, <2>1
      <4>2. QED BY <1>14, <4>1 DEF AtRest
    <3>4. Told(E, open, q, hd.parts, r) /\ hd.parts \in Seq(Part)
      <4>1. CASE EndsStream(st)
        <5>1. hd.parts = p \o <<"end">> /\ hd.parts \in Seq(Part)
          <6>1. "end" \in Part
                BY DEF Part
          <6>2. hd.parts = Append(p, "end")
                BY <1>13, <4>1 DEF Ended
          <6>3. QED BY <1>11, <6>1, <6>2, AppendIsConcat, AppendProperties
        <5>2. r = << >> /\ E
              BY <1>1, <1>12, <4>1 DEF EndsStream
        <5>3. q = p
              BY <1>7, <1>11, <5>2, ConcatEmptySeq
        <5>4. QED BY <1>14, <2>1, <5>1, <5>2, <5>3 DEF Told
      <4>2. CASE ~EndsStream(st)
        <5>1. hd.parts = p
              BY <1>13, <4>2 DEF Ended
        <5>2. ~E
              BY <1>1, <2>1, <4>2 DEF EndsStream
        <5>3. QED BY <1>7, <1>11, <5>1, <5>2 DEF Told
      <4>3. QED BY <4>1, <4>2
    <3>5. Heard(s, w, y, E, q, st, open, hd.parts)
          BY <1>14, <1>15, <3>4 DEF Heard
    <3>6. QED BY <3>2, <3>3, <3>5 DEF Outcome, res
  <2>2. CASE b # << >>
    <3>1. res = Result(rest.st, hd.parts \o rest.parts, rest.raised)
          BY <1>13, <2>2 DEF Resume, hd, open
    <3>2. hd.parts = p
      <4>1. ~EndsStream(st)
            BY <2>2 DEF EndsStream
      <4>2. QED BY <1>13, <4>1 DEF Ended
    <3>3. Ready(s, w, y, E, r, open)
          BY <1>1, <1>14, <1>15, <1>16 DEF Ready, SameStream
    <3>4. rest = _receive_request_or_push_data(open, E, table)
          BY <1>1
    <3> HIDE DEF rest, res
    <3>5. Outcome(s, w, y, E, r, open, table, _receive_request_or_push_data(open, E, table))
          BY <3>3, DataReceived
    <3>6. /\ Heard(s, w, y, E, r, open, rest.st, rest.parts)
          /\ rest.raised # "error" /\ AtRest(rest.st, table)
          BY <3>4, <3>5 DEF Outcome
    <3>7. Heard(s, w, y, E, q, st, rest.st, p \o rest.parts)
          BY <1>7, <1>11, <1>14, <3>6, HeardMore
    <3>8. /\ res.st = rest.st /\ res.parts = p \o rest.parts /\ res.raised = rest.raised
          BY <3>1, <3>2 DEF Result
    <3>9. QED BY <3>6, <3>7, <3>8 DEF Outcome, res
  <2>3. QED BY <2>1, <2>2
<1> HIDE DEF res
<1>18. Moved(s, w, y, E, q, table, res)
       BY <1>1, <1>2, <1>3, <1>16, <1>17, FramesMove
<1>19. QED BY <1>18 DEF res

\* When it is a PUSH_PROMISE frame, taking it up as HEADERS is a protocol error, and the
\* stream stays as it was.
LEMMA PromiseResumes ==
    ASSUME NEW s, NEW w, NEW y, NEW E, NEW q, NEW st, NEW table \in Nat,
           Resuming(s, w, y, E, q, st, table), st.frame.type = "push_promise"
    PROVE  Resume(st, table).raised = "error" /\ Resume(st, table).st = st
<1> DEFINE hd == HandleHeaders(st, st.frame, EndsStream(st), table)
<1>1. ~(st.frame.need > table)
  <2>1. st.frame.need \in Nat /\ st.frame.need =< table
        BY DEF Resuming, StreamType, FrameType
  <2>2. QED BY <2>1
<1>2. ~validate_headers(st.frame)
      BY DEF validate_headers
<1>3. hd = Result(st, << >>, "error")
      BY <1>1, <1>2 DEF HandleHeaders
<1> HIDE DEF hd
<1>4. hd.raised = "error" /\ hd.st = st
      BY <1>3 DEF Result
<1>5. Resume(st, table) = hd
      BY <1>4 DEF Resume, hd
<1>6. QED BY <1>4, <1>5

-----------------------------------------------------------------------------
(* Counting the data of a message.                                         *)

DataIn(q) == {i \in DOMAIN q : q[i] = "data"}
DataCount(q) == Cardinality(DataIn(q))

\* The places of the data in a sequence.
LEMMA DataPlaces ==
    ASSUME NEW q \in Seq(Part)
    PROVE  /\ DataIn(q) = {i \in 1..Len(q) : q[i] = "data"}
           /\ IsFiniteSet(DataIn(q)) /\ DataCount(q) \in Nat
<1>1. Len(q) \in Nat /\ DOMAIN q = 1..Len(q)
      BY LenProperties
<1>2. DataIn(q) \in SUBSET (1..Len(q))
      BY <1>1 DEF DataIn
<1>3. IsFiniteSet(1..Len(q))
  <2> DEFINE a == 1
             b == Len(q)
  <2>1. a \in Int /\ b \in Int
        BY <1>1
  <2> HIDE DEF a, b
  <2>2. IsFiniteSet(a..b)
        BY <2>1, FS_Interval
  <2>3. QED BY <2>2 DEF a, b
<1>4. IsFiniteSet(DataIn(q))
      BY <1>2, <1>3, FS_Subset
<1>5. DataCount(q) \in Nat
      BY <1>4, FS_CardinalityType DEF DataCount
<1>6. QED BY <1>1, <1>4, <1>5 DEF DataIn

\* Of two sequences.
LEMMA DataOfConcat ==
    ASSUME NEW q \in Seq(Part), NEW r \in Seq(Part)
    PROVE  DataCount(q \o r) = DataCount(q) + DataCount(r)
<1> DEFINE c == q \o r
           n == Len(q)
           m == Len(r)
           A == DataIn(q)
           B == DataIn(r)
           T == {i \in (n + 1)..(n + m) : r[i - n] = "data"}
<1>1. n \in Nat /\ m \in Nat
      BY LenProperties
<1>2. /\ c \in Seq(Part) /\ Len(c) = n + m
      /\ \A i \in 1..(n + m) : c[i] = IF i <= n THEN q[i] ELSE r[i - n]
      BY ConcatProperties
<1>3. /\ A = {i \in 1..n : q[i] = "data"} /\ IsFiniteSet(A)
      /\ B = {i \in 1..m : r[i] = "data"} /\ IsFiniteSet(B)
      /\ DataCount(q) \in Nat /\ DataCount(r) \in Nat
      BY DataPlaces
<1> HIDE DEF c, n, m, A, B
<1>4. DataIn(c) = {i \in 1..(n + m) : c[i] = "data"}
      BY <1>2, DataPlaces
<1>5. DataIn(c) = A \cup T
  <2>1. ASSUME NEW i \in 1..(n + m) PROVE c[i] = "data" <=> i \in A \cup T
    <3>1. CASE i <= n
          BY <1>1, <1>2, <1>3, <3>1
    <3>2. CASE ~(i <= n)
      <4>1. i \in (n + 1)..(n + m) /\ i \notin 1..n
            BY <1>1, <3>2
      <4>2. QED BY <1>2, <1>3, <3>2, <4>1
    <3>3. QED BY <3>1, <3>2
  <2>2. A \cup T \subseteq 1..(n + m)
        BY <1>1, <1>3
  <2> HIDE DEF T
  <2>3. QED BY <1>4, <2>1, <2>2
<1>6. A \cap T = {}
      BY <1>1, <1>3
<1> DEFINE f == [i \in B |-> n + i]
<1>7. f \in Bijection(B, T)
  <2>1. \A i \in B : i \in 1..m /\ n + i \in (n + 1)..(n + m) /\ (n + i) - n = i
        BY <1>1, <1>3
  <2>2. f \in [B -> T]
        BY <1>3, <2>1
  <2>3. \A i, j \in B : f[i] = f[j] => i = j
        BY <1>1, <2>1
  <2>4. \A t \in T : \E i \in B : f[i] = t
    <3>1. SUFFICES ASSUME NEW t \in T PROVE \E i \in B : f[i] = t
          OBVIOUS
    <3>2. t - n \in 1..m /\ n + (t - n) = t /\ r[t - n] = "data"
          BY <1>1
    <3>3. t - n \in B
          BY <1>3, <3>2
    <3>4. QED BY <3>2, <3>3
  <2> HIDE DEF f, T
  <2>5. QED BY <2>2, <2>3, <2>4 DEF Bijection, Injection, Surjection, IsInjective
<1>8. IsFiniteSet(T) /\ Cardinality(T) = Cardinality(B)
  <2> HIDE DEF f, T
  <2>1. ExistsBijection(B, T)
        BY <1>7 DEF ExistsBijection
  <2>2. QED BY <1>3, <2>1, FS_Bijection
<1> HIDE DEF T
<1>9. Cardinality(A \cup T) = Cardinality(A) + Cardinality(T) - Cardinality(A \cap T)
      BY <1>3, <1>8, FS_Union
<1>10. Cardinality(A \cap T) = 0
       BY <1>6, FS_EmptySet
<1>11. Cardinality(A) \in Nat /\ Cardinality(T) \in Nat
       BY <1>3, <1>8, FS_CardinalityType
<1>12. Cardinality(A \cup T) = Cardinality(A) + Cardinality(B)
       BY <1>8, <1>9, <1>10, <1>11
<1>13. QED BY <1>5, <1>12 DEF DataCount, c, A, B

\* Of parts that are no data.
LEMMA NoData ==
    /\ DataCount(<< >>) = 0
    /\ \A c \in Part : c # "data" => DataCount(<<c>>) = 0
<1>1. DataIn(<< >>) = {}
      BY DEF DataIn
<1>2. ASSUME NEW c \in Part, c # "data" PROVE DataIn(<<c>>) = {}
      BY <1>2 DEF DataIn
<1>3. QED BY <1>1, <1>2, FS_EmptySet DEF DataCount

\* Of nothing but data.
LEMMA OnlyData ==
    ASSUME NEW n \in Nat
    PROVE  DataCount(AllData(n)) = n
<1> DEFINE a == 1
           b == n
<1>1. DataIn(AllData(n)) = a..b
      BY DEF DataIn, AllData
<1>2. a \in Int /\ b \in Int
      OBVIOUS
<1>3. (IF a > b THEN 0 ELSE b - a + 1) = n
      OBVIOUS
<1> HIDE DEF a, b
<1>4. Cardinality(a..b) = IF a > b THEN 0 ELSE b - a + 1
      BY <1>2, FS_Interval
<1>5. QED BY <1>1, <1>3, <1>4 DEF DataCount

\* Of what a frame reports.
LEMMA DataOfFrame ==
    ASSUME NEW f \in FrameType, NEW x \in MessageType
    PROVE  DataCount(PartsOf(f, x)) = IF f.type = "data" THEN f.size ELSE 0
<1>1. "headers" \in Part /\ "trailers" \in Part /\ "promise" \in Part
      BY DEF Part
<1>2. CASE f.type = "headers"
      BY <1>1, <1>2, NoData DEF PartsOf
<1>3. CASE f.type = "data"
  <2>1. PartsOf(f, x) = AllData(f.size) /\ f.size \in Nat
        BY <1>3 DEF PartsOf, AllData, FrameType
  <2>2. QED BY <1>3, <2>1, OnlyData
<1>4. CASE f.type = "push_promise"
      BY <1>1, <1>4, NoData DEF PartsOf
<1>5. CASE f.type # "headers" /\ f.type # "data" /\ f.type # "push_promise"
      BY <1>5, NoData DEF PartsOf
<1>6. QED BY <1>2, <1>3, <1>4, <1>5

-----------------------------------------------------------------------------
(* A stream from the server's application to the client's.                 *)

\* How far a message is of which the server has sent `told'.
Progress(phase, told, length, last) ==
    [phase |-> phase, data |-> DataCount(told), declared |-> length, last |-> last]

\* What the events have reported, what stays to be read, and the end, are what was sent.
Account(f, st, told, heard, q) ==
    /\ f = "none" => told = heard \o q
    /\ f = "sent" => told = (heard \o q) \o <<"end">>
    /\ f = "arrived" =>
         \/ /\ told = (heard \o q) \o <<"end">>
            /\ ~st.blocked => st.frame.type = "reserved"
         \/ told = heard /\ ~st.blocked /\ q = << >>

\* The client follows the stream: it has to read what takes it to where the server is.
Tracks(s, st, w, f, told, heard, phase, length, table) ==
    \E last \in Kind, q \in Seq(Part) :
        /\ Stage(s, st, w, Progress(phase, told, length, last), q)
        /\ AtRest(st, table)
        /\ st.ended = (f = "arrived")
        /\ Account(f, st, told, heard, q)
        /\ f # "none" => Complete(Progress(phase, told, length, last))
        /\ f = "arrived" => w = << >>

\* What is known of such a stream by its type.
StreamTypes(s, st, w, f, told, heard, phase, length) ==
    /\ s \in Streams /\ st \in StreamType /\ w \in Seq(UnitType)
    /\ f \in {"none", "sent", "arrived"}
    /\ told \in Seq(Part) /\ heard \in Seq(Part)
    /\ phase \in HeadersState /\ length \in Length

\* How far a message is, is well typed.
LEMMA ProgressTypes ==
    ASSUME NEW phase \in HeadersState, NEW told \in Seq(Part), NEW length \in Length,
           NEW last \in Kind
    PROVE  Progress(phase, told, length, last) \in MessageType
<1>1. DataCount(told) \in Nat
      BY DataPlaces
<1>2. QED BY <1>1 DEF Progress, MessageType

\* A frame that is written joins what has to be read.
LEMMA FrameComing ==
    ASSUME NEW s, NEW st \in StreamType, NEW w \in Seq(UnitType), NEW y \in MessageType,
           NEW q, Coming(s, st, w, y, q), NEW f \in FrameType, Allowed(s, f, y)
    PROVE  Coming(s, st, w \o encode_frame(f), After(f, y), q \o PartsOf(f, y))
<1> DEFINE b == st.buffer
           e == encode_frame(f)
           d == PartsOf(f, y)
           z == After(f, y)
           k == Prefix(s, st)
           u == b \o w
           U == b \o (w \o e)
           v == Drop(u, k)
           V == Drop(U, k)
<1>1. b \in Seq(UnitType) /\ e \in Seq(UnitType) /\ w \in Seq(UnitType)
      BY FrameUnits DEF StreamType
<1>2. d \in Seq(Part) /\ z \in MessageType
      BY FrameTypes
<1>3. /\ k \in 0..Len(u)
      /\ k > 0 => ~st.blocked /\ st.frame_size = None
      /\ s = "request" => st.push_id = None
      /\ s = "push" /\ st.push_id # None => st.stream_type = "push"
      /\ Reads(s, st, v, q, y)
      BY DEF Coming
<1>4. U = u \o e
  <2> HIDE DEF b, e
  <2>1. (b \o w) \o e = b \o (w \o e)
        BY ONLY <1>1, UnitsTogether, Zenon
  <2>2. QED BY <2>1
<1>5. u \in Seq(UnitType) /\ Len(u) \in Nat
  <2>1. u \in Seq(UnitType)
        BY <1>1, ConcatProperties
  <2> HIDE DEF u
  <2>2. QED BY <2>1, LenProperties
<1> HIDE DEF b, e, d, z, k, u, U, v
<1>6. U \in Seq(UnitType) /\ Len(U) = Len(u) + Len(e) /\ Len(e) \in Nat
      BY <1>1, <1>4, <1>5, ConcatProperties, LenProperties
<1>7. V = v \o e
      BY <1>1, <1>3, <1>4, <1>5, DropConcat DEF v
<1>8. v \in Seq(UnitType) /\ Len(v) \in Nat
  <2>1. v \in Seq(UnitType)
        BY <1>3, <1>5, DropItems DEF v
  <2>2. QED BY <2>1, LenProperties
<1> HIDE DEF V
<1>9. k \in 0..Len(U)
      BY <1>3, <1>5, <1>6
<1>10. Reads(s, st, V, q \o d, z)
  <2>1. CASE ~InHand(st)
    <3>1. Carries(s, v, Message(st), q, y)
          BY <1>3, <2>1 DEF Reads
    <3>2. Carries(s, v \o e, Message(st), q \o d, z)
          BY <3>1, CarriesAppended DEF e, d, z
    <3>3. QED BY <1>7, <2>1, <3>2 DEF Reads
  <2>2. CASE InHand(st)
    <3> DEFINE n == BodyAhead(st)
               x == Message(st)
               g == Rest(st)
    <3>1. n \in 0..Len(v) /\ Allowed(s, g, x)
          BY <1>3, <2>2 DEF Reads
    <3>2. PICK r \in Seq(Part) : q = PartsOf(g, x) \o r /\ Carries(s, Drop(v, n), After(g, x), r, y)
          BY <1>3, <2>2 DEF Reads
    <3>3. PartsOf(g, x) \in Seq(Part)
          BY <2>2, MessageTypes, FrameTypes
    <3> HIDE DEF n, x, g
    <3>4. Carries(s, Drop(v, n) \o e, After(g, x), r \o d, z)
          BY <3>2, CarriesAppended DEF e, d, z
    <3>5. Drop(V, n) = Drop(v, n) \o e
          BY <1>1, <1>7, <1>8, <3>1, DropConcat
    <3>6. n \in 0..Len(V)
      <4>1. Len(V) = Len(v) + Len(e)
            BY <1>1, <1>7, <1>8, ConcatProperties
      <4>2. QED BY <1>6, <1>8, <3>1, <4>1
    <3>7. q \o d = PartsOf(g, x) \o (r \o d)
      <4> DEFINE p == PartsOf(g, x)
      <4>1. p \in Seq(Part) /\ r \in Seq(Part) /\ d \in Seq(Part)
            BY <1>2, <3>3
      <4> HIDE DEF p
      <4>2. (p \o r) \o d = p \o (r \o d)
            BY ONLY <4>1, PartsTogether, Zenon
      <4>3. q = p \o r
            BY <3>2 DEF p
      <4>4. QED BY <4>2, <4>3 DEF p
    <3>8. r \o d \in Seq(Part)
          BY <1>2, <3>2, ConcatProperties
    <3>9. QED BY <2>2, <3>1, <3>4, <3>5, <3>6, <3>7, <3>8 DEF Reads, n, x, g
  <2>3. QED BY <2>1, <2>2
<1>11. Coming(s, st, w \o e, z, q \o d)
       BY <1>3, <1>9, <1>10 DEF Coming, U, V, k, b
<1>12. QED BY <1>11 DEF e, z, d

\* The end after what was sent before.
EndOf(end) == IF end THEN <<"end">> ELSE << >>

\* The server writes a frame, and perhaps the end.
LEMMA TracksWritten ==
    ASSUME NEW s, NEW st, NEW w, NEW told, NEW heard, NEW phase, NEW length,
           StreamTypes(s, st, w, "none", told, heard, phase, length),
           NEW table, Tracks(s, st, w, "none", told, heard, phase, length, table),
           NEW f \in FrameType, NEW x, x = Progress(phase, told, length, "none"),
           Allowed(s, f, x), NEW end \in BOOLEAN, end => Complete(After(f, x))
    PROVE  Tracks(s, st, w \o encode_frame(f), IF end THEN "sent" ELSE "none",
                  (told \o PartsOf(f, x)) \o EndOf(end), heard,
                  After(f, x).phase, After(f, x).declared, table)
<1> USE DEF StreamTypes
<1>1. PICK last \in Kind, q \in Seq(Part) :
          /\ Stage(s, st, w, Progress(phase, told, length, last), q)
          /\ AtRest(st, table)
          /\ ~st.ended
          /\ told = heard \o q
      BY DEF Tracks, Account
<1> DEFINE y == Progress(phase, told, length, last)
           d == PartsOf(f, y)
           e == EndOf(end)
           told2 == (told \o d) \o e
           y2 == Progress(After(f, y).phase, told2, After(f, y).declared, f.type)
<1>2. /\ Allowed(s, f, y) /\ PartsOf(f, x) = d /\ After(f, x) = After(f, y)
  <2>1. x.phase = y.phase /\ x.data = y.data /\ x.declared = y.declared
        BY DEF Progress
  <2> HIDE DEF y
  <2>2. QED BY <2>1, LastIsPast
<1>3. y \in MessageType /\ d \in Seq(Part) /\ f.type \in Kind
  <2>1. y \in MessageType
        BY ProgressTypes
  <2> HIDE DEF y
  <2>2. QED BY <2>1, FrameTypes DEF FrameType
<1>4. e \in Seq(Part) /\ DataCount(e) = 0
  <2>1. <<"end">> \in Seq(Part) /\ "end" \in Part
        BY DEF Part
  <2>2. << >> \in Seq(Part)
        BY EmptySeq
  <2>3. QED BY <2>1, <2>2, NoData DEF EndOf
<1>5. /\ told2 \in Seq(Part)
      /\ DataCount(told2) = DataCount(told) + (IF f.type = "data" THEN f.size ELSE 0)
  <2> DEFINE a == told \o d
  <2>1. a \in Seq(Part) /\ DataCount(a) = DataCount(told) + DataCount(d)
        BY <1>3, DataOfConcat, ConcatProperties
  <2> HIDE DEF a, e, d
  <2>2. a \o e \in Seq(Part) /\ DataCount(a \o e) = DataCount(a) + DataCount(e)
        BY <1>4, <2>1, DataOfConcat, ConcatProperties
  <2>3. DataCount(d) = IF f.type = "data" THEN f.size ELSE 0
    <3> HIDE DEF y
    <3> QED BY <1>3, DataOfFrame DEF d
  <2>4. DataCount(told) \in Nat /\ DataCount(d) \in Nat
        BY <1>3, DataPlaces
  <2>5. QED BY <1>4, <2>1, <2>2, <2>3, <2>4 DEF a
<1>6. y2 = After(f, y)
  <2>1. y.data = DataCount(told) /\ DataCount(told) \in Nat /\ f.size \in Nat
        BY DataPlaces DEF Progress, FrameType
  <2>2. After(f, y).data = DataCount(told2) /\ After(f, y).last = f.type
    <3> HIDE DEF told2, y
    <3> QED BY <1>5, <2>1 DEF After
  <2> HIDE DEF told2, y
  <2>3. y2 = [phase |-> After(f, y).phase, data |-> After(f, y).data,
              declared |-> After(f, y).declared, last |-> After(f, y).last]
        BY <2>2 DEF Progress
  <2>4. QED BY <2>3 DEF After
<1>7. Coming(s, st, w, y, q)
      BY <1>1 DEF Stage
<1> HIDE DEF y, d, e
<1>8. Coming(s, st, w \o encode_frame(f), After(f, y), q \o d)
      BY <1>2, <1>3, <1>7, FrameComing DEF d
<1>9. Stage(s, st, w \o encode_frame(f), y2, q \o d)
      BY <1>1, <1>6, <1>8 DEF Stage
<1>10. q \o d \in Seq(Part)
       BY <1>3, ConcatProperties
<1>11. heard \o (q \o d) = told \o d
  <2>1. heard \in Seq(Part) /\ q \in Seq(Part) /\ d \in Seq(Part)
        BY <1>3
  <2>2. (heard \o q) \o d = heard \o (q \o d)
        BY ONLY <2>1, PartsTogether, Zenon
  <2>3. QED BY <1>1, <2>2
<1> DEFINE f2 == IF end THEN "sent" ELSE "none"
<1>12. Account(f2, st, told2, heard, q \o d)
  <2>1. CASE end
        BY <1>11, <2>1 DEF Account, EndOf, e
  <2>2. CASE ~end
    <3>1. told \o d \in Seq(Part)
          BY <1>3, ConcatProperties
    <3>2. told2 = told \o d
          BY <2>2, <3>1, ConcatEmptySeq DEF EndOf, e
    <3> HIDE DEF told2
    <3>3. QED BY <1>11, <2>2, <3>2 DEF Account
  <2>3. QED BY <2>1, <2>2
<1>13. f2 # "none" => Complete(y2)
       BY <1>2, <1>6
<1>14. f2 # "arrived" /\ (st.ended = (f2 = "arrived"))
       BY <1>1 DEF StreamType
<1> HIDE DEF f2, told2
<1>15. Tracks(s, st, w \o encode_frame(f), f2, told2, heard,
              After(f, y).phase, After(f, y).declared, table)
       BY <1>1, <1>3, <1>9, <1>10, <1>12, <1>13, <1>14 DEF Tracks, y2
<1>16. QED BY <1>2, <1>15 DEF f2, told2, e

\* What the server has sent, when q is what stays to be read and the end is there or not.
Owed(f, told, heard, q) ==
    IF f = "none" THEN told = heard \o q ELSE told = (heard \o q) \o <<"end">>

\* Where a stream is, of which q stays to be read.
Awaits(s, w, f, told, heard, y, q, E) ==
    /\ y \in MessageType /\ Context(s, w, y, E)
    /\ f \in {"none", "sent", "arrived"} /\ E = (f = "arrived")
    /\ heard \in Seq(Part) /\ told \in Seq(Part) /\ Owed(f, told, heard, q)
    /\ f # "none" => Complete(y)

\* After the end, a stream that waits and is not blocked has been read.
LEMMA AllRead ==
    ASSUME NEW s, NEW st \in StreamType, NEW y \in MessageType, NEW q, NEW table,
           Stage(s, st, << >>, y, q), AtRest(st, table), ~st.blocked
    PROVE  q = << >> /\ st.buffer = << >>
<1> DEFINE b == st.buffer
           u == b \o << >>
<1>1. b \in Seq(UnitType) /\ Len(b) \in Nat
      BY LenProperties DEF StreamType
<1>2. u = b
      BY <1>1, ConcatEmptySeq
<1>3. Coming(s, st, << >>, y, q) /\ (Prefix(s, st) > 0 => b = << >>)
      BY DEF Stage
<1>4. Prefix(s, st) \in 0..Len(u)
      BY <1>3 DEF Coming
<1>5. b = << >> => Len(b) = 0
      OBVIOUS
<1> HIDE DEF b, u
<1>6. Prefix(s, st) = 0
      BY <1>1, <1>2, <1>3, <1>4, <1>5
<1>7. Reads(s, st, b, q, y)
  <2>1. Reads(s, st, Drop(u, Prefix(s, st)), q, y)
        BY <1>3 DEF Coming, u, b
  <2>2. Drop(b, 0) = b
        BY <1>1, DropEnds
  <2>3. QED BY <1>2, <1>6, <2>1, <2>2
<1>8. ~InHand(st)
  <2>1. SUFFICES ASSUME InHand(st) PROVE FALSE
        OBVIOUS
  <2>2. b = << >> /\ st.frame_size > 0
        BY <2>1 DEF AtRest, InHand, b
  <2>3. st.frame_size \in 0..Len(b)
        BY <1>7, <2>1 DEF Reads, BodyAhead
  <2>4. QED BY <1>5, <2>2, <2>3
<1>9. Carries(s, b, Message(st), q, y)
      BY <1>7, <1>8 DEF Reads
<1>10. Len(b) < 2
  <2>1. Len(b) =< 1
        BY <1>8 DEF AtRest, InHand, b
  <2>2. QED BY <1>1, <2>1
<1>11. QED BY <1>9, <1>10, CarriesEnd DEF b

\* A handler of the client keeps the account.
LEMMA TracksMoved ==
    ASSUME NEW s, NEW w, NEW f, NEW told, NEW heard, NEW phase, NEW length, NEW last \in Kind,
           NEW q \in Seq(Part), NEW table \in Nat, NEW res, NEW E, NEW y,
           y = Progress(phase, told, length, last), Awaits(s, w, f, told, heard, y, q, E),
           Moved(s, w, y, E, q, table, res)
    PROVE  /\ Tracks(s, res.st, w, f, told, heard \o res.parts, phase, length, table)
           /\ heard \o res.parts \in Seq(Part)
           /\ res.st \in StreamType /\ res.raised # "error"
<1> DEFINE st == res.st
           p == res.parts
           e == <<"end">>
           h == heard \o p
<1>0. /\ y \in MessageType /\ Context(s, w, y, E)
      /\ f \in {"none", "sent", "arrived"} /\ E = (f = "arrived")
      /\ heard \in Seq(Part) /\ told \in Seq(Part) /\ Owed(f, told, heard, q)
      /\ f # "none" => Complete(y)
      BY DEF Awaits
<1> USE <1>0
<1>1. /\ st \in StreamType /\ st.ended = E /\ p \in Seq(Part)
      /\ res.raised # "error" /\ AtRest(st, table)
      BY DEF Moved
<1>2. PICK r \in Seq(Part) : Stage(s, st, w, y, r) /\ Told(E, st, q, p, r)
      BY DEF Moved
<1>3. e \in Seq(Part)
      BY DEF Part
<1>4. h \in Seq(Part)
      BY <1>1, ConcatProperties
<1>5. E => w = << >>
      BY DEF Context
<1>6. Account(f, st, told, h, r)
  <2>1. CASE /\ q = p \o r
             /\ E /\ st.buffer = << >> /\ ~st.blocked => st.frame.type = "reserved"
    <3>1. heard \o q = h \o r
      <4>1. heard \in Seq(Part) /\ p \in Seq(Part) /\ r \in Seq(Part)
            BY <1>1
      <4>2. heard \o q = heard \o (p \o r)
            BY <2>1
      <4> HIDE DEF p, h, e, st
      <4>3. (heard \o p) \o r = heard \o (p \o r)
            BY ONLY <4>1, PartsTogether, Zenon
      <4>4. h \o r = (heard \o p) \o r
            BY DEF h
      <4>5. QED BY <4>2, <4>3, <4>4
    <3> HIDE DEF e, h, p, st
    <3>2. f = "none" => told = h \o r
          BY <3>1 DEF Owed
    <3>3. f # "none" => told = (h \o r) \o <<"end">>
          BY <3>1 DEF Owed
    <3>4. f = "arrived" /\ ~st.blocked => st.frame.type = "reserved"
      <4>1. SUFFICES ASSUME f = "arrived", ~st.blocked PROVE st.frame.type = "reserved"
            OBVIOUS
      <4>2. Stage(s, st, << >>, y, r)
            BY <1>2, <1>5, <4>1
      <4>3. st.buffer = << >>
            BY <1>1, <4>1, <4>2, AllRead
      <4>4. QED BY <2>1, <4>1, <4>3
    <3>5. QED BY <3>2, <3>3, <3>4 DEF Account
  <2>2. CASE /\ E /\ st.buffer = << >> /\ ~st.blocked
             /\ p = q \o e /\ r = << >>
    <3>1. (heard \o q) \o e = h
      <4>1. heard \in Seq(Part) /\ q \in Seq(Part) /\ e \in Seq(Part)
            BY <1>3
      <4> HIDE DEF e, p, h, st
      <4>2. (heard \o q) \o e = heard \o (q \o e)
            BY ONLY <4>1, PartsTogether, Zenon
      <4>3. QED BY <2>2, <4>2 DEF h
    <3>2. told = h
          BY <2>2, <3>1 DEF Owed
    <3> HIDE DEF h, st
    <3>3. QED BY <2>2, <3>2 DEF Account
  <2> HIDE DEF st, p
  <2>3. QED BY <1>2, <2>1, <2>2 DEF Told
<1>7. f = "arrived" => w = << >>
      BY <1>5
<1> HIDE DEF st, p, h
<1>8. Tracks(s, st, w, f, told, h, phase, length, table)
      BY <1>1, <1>2, <1>6, <1>7 DEF Tracks
<1>9. QED BY <1>1, <1>4, <1>8 DEF st, h, p

\* What arrives joins the stream, and the end with it.
LEMMA UnitsArrive ==
    ASSUME NEW s \in Streams, NEW st \in StreamType, NEW w \in Seq(UnitType),
           NEW y \in MessageType, NEW q, NEW table, Stage(s, st, w, y, q),
           AtRest(st, table), ~st.ended, NEW count \in 0..Len(w), NEW end \in BOOLEAN,
           end => Complete(y) /\ count = Len(w)
    PROVE  Incoming(s, Drop(w, count), y, end, q,
                    Arrived(st, SubSeq(w, 1, count), end), table)
<1> DEFINE b == st.buffer
           a == SubSeq(w, 1, count)
           d == Drop(w, count)
           new == Arrived(st, a, end)
<1>1. b \in Seq(UnitType)
      BY DEF StreamType
<1>2. /\ a \in Seq(UnitType) /\ d \in Seq(UnitType) /\ a \o d = w
      /\ end => d = << >>
      BY TakeAndDrop, DropItems, DropEnds
<1> HIDE DEF a, d
<1>3. b \o a \in Seq(UnitType)
      BY <1>1, <1>2, ConcatProperties
<1>4. /\ new \in StreamType /\ new.ended = end /\ new.buffer = b \o a
      /\ new.blocked = st.blocked /\ new.frame_size = st.frame_size /\ new.frame = st.frame
      /\ new.push_id = st.push_id /\ new.stream_type = st.stream_type
      /\ new.need = st.need
      /\ Message(new) = Message(st)
  <2>1. new = [st EXCEPT !.buffer = b \o a, !.ended = end]
        BY DEF Arrived, StreamType
  <2>2. new \in StreamType
        BY <1>3, <2>1 DEF StreamType
  <2>3. QED BY <2>1, <2>2 DEF StreamType, Message
<1>5. new.buffer \o d = b \o w
  <2> HIDE DEF b, new
  <2>1. (b \o a) \o d = b \o (a \o d)
        BY <1>1, <1>2, UnitsTogether, Zenon
  <2>2. QED BY <1>2, <1>4, <2>1
<1>6. Coming(s, st, w, y, q)
      BY DEF Stage
<1> HIDE DEF new
<1>7. /\ InHand(new) = InHand(st) /\ BodyAhead(new) = BodyAhead(st)
      /\ Rest(new) = Rest(st) /\ Prefix(s, new) = Prefix(s, st)
      BY <1>4 DEF InHand, BodyAhead, Rest, Prefix
<1>8. Coming(s, new, d, y, q)
  <2> DEFINE v == Drop(b \o w, Prefix(s, st))
  <2>1. Reads(s, st, v, q, y)
        BY <1>6 DEF Coming
  <2> HIDE DEF v
  <2>2. Reads(s, new, v, q, y)
        BY <1>4, <1>7, <2>1 DEF Reads
  <2>3. Reads(s, new, Drop(new.buffer \o d, Prefix(s, new)), q, y)
        BY <1>5, <1>7, <2>2 DEF v
  <2>4. QED BY <1>4, <1>5, <1>6, <1>7, <2>3 DEF Coming
<1>9. Context(s, d, y, end)
      BY <1>2 DEF Context
<1>10. IF new.blocked THEN AtRest(new, table)
       ELSE new.frame_size = None \/ new.frame_size > 0
       BY <1>4 DEF AtRest
<1>11. Incoming(s, d, y, end, q, new, table)
       BY <1>4, <1>8, <1>9, <1>10 DEF Incoming
<1>12. QED BY <1>11 DEF d, new, a

\* The client receives a part of the stream, and perhaps its end.
LEMMA TracksReceived ==
    ASSUME NEW s, NEW st, NEW w, NEW f, NEW told, NEW heard, NEW phase, NEW length,
           StreamTypes(s, st, w, f, told, heard, phase, length),
           NEW table \in Nat, Tracks(s, st, w, f, told, heard, phase, length, table),
           NEW count \in 0..Len(w), NEW end \in BOOLEAN, count > 0 \/ end,
           end => f = "sent" /\ count = Len(w), NEW res,
           res = Receives(s, Arrived(st, SubSeq(w, 1, count), end), end, table)
    PROVE  /\ Tracks(s, res.st, Drop(w, count), IF end THEN "arrived" ELSE f, told,
                     heard \o res.parts, phase, length, table)
           /\ heard \o res.parts \in Seq(Part)
           /\ res.st \in StreamType /\ res.raised # "error"
<1> USE DEF StreamTypes
<1>1. PICK last \in Kind, q \in Seq(Part) :
          /\ Stage(s, st, w, Progress(phase, told, length, last), q)
          /\ AtRest(st, table)
          /\ st.ended = (f = "arrived")
          /\ Account(f, st, told, heard, q)
          /\ f # "none" => Complete(Progress(phase, told, length, last))
          /\ f = "arrived" => w = << >>
      BY DEF Tracks
<1> DEFINE y == Progress(phase, told, length, last)
           d == Drop(w, count)
           new == Arrived(st, SubSeq(w, 1, count), end)
           f2 == IF end THEN "arrived" ELSE f
<1>2. y \in MessageType
      BY ProgressTypes
<1>3. f # "arrived"
  <2>1. Len(<< >>) = 0
        OBVIOUS
  <2>2. QED BY <1>1, <2>1
<1>4. f2 \in {"none", "sent", "arrived"} /\ end = (f2 = "arrived")
      /\ (f2 # "none" => f # "none")
      BY <1>3
<1> HIDE DEF y
<1>5. Incoming(s, d, y, end, q, new, table)
      BY <1>1, <1>2, <1>3, UnitsArrive DEF y
<1>6. Context(s, d, y, end)
      BY <1>5 DEF Incoming
<1>7. Owed(f2, told, heard, q)
      BY <1>1, <1>3 DEF Owed, Account
<1> HIDE DEF d, new, f2
<1>8. Moved(s, d, y, end, q, table, Receives(s, new, end, table))
      BY <1>5, StreamReceives
<1>9. Moved(s, d, y, end, q, table, res)
      BY <1>8 DEF new
<1>10. f2 # "none" => Complete(y)
       BY <1>1, <1>4 DEF y
<1>11. y = Progress(phase, told, length, last) /\ heard \in Seq(Part) /\ told \in Seq(Part)
       BY DEF y
<1>12. Awaits(s, d, f2, told, heard, y, q, end)
       BY <1>2, <1>4, <1>6, <1>7, <1>10, <1>11 DEF Awaits
<1>13. /\ Tracks(s, res.st, d, f2, told, heard \o res.parts, phase, length, table)
       /\ heard \o res.parts \in Seq(Part)
       /\ res.st \in StreamType /\ res.raised # "error"
       BY <1>9, <1>11, <1>12, TracksMoved
<1>14. QED BY <1>13 DEF d, f2

\* The instructions that a blocked stream waits for come.  When it waits with a promise the
\* client finds a protocol error.
LEMMA TracksResumed ==
    ASSUME NEW s, NEW st, NEW w, NEW f, NEW told, NEW heard, NEW phase, NEW length,
           StreamTypes(s, st, w, f, told, heard, phase, length),
           NEW from, Tracks(s, st, w, f, told, heard, phase, length, from),
           NEW table \in Nat, st.blocked, st.need =< table, NEW res, res = Resume(st, table)
    PROVE  \/ /\ res.raised = "error" /\ res.st = st /\ st.frame.type = "push_promise"
              /\ st.frame.need \in PromiseNeeds /\ st.frame.need > from
           \/ /\ Tracks(s, res.st, w, f, told, heard \o res.parts, phase, length, table)
              /\ heard \o res.parts \in Seq(Part)
              /\ res.st \in StreamType /\ res.raised # "error"
<1> USE DEF StreamTypes
<1>1. PICK last \in Kind, q \in Seq(Part) :
          /\ Stage(s, st, w, Progress(phase, told, length, last), q)
          /\ AtRest(st, from)
          /\ st.ended = (f = "arrived")
          /\ Account(f, st, told, heard, q)
          /\ f # "none" => Complete(Progress(phase, told, length, last))
          /\ f = "arrived" => w = << >>
      BY DEF Tracks
<1> DEFINE y == Progress(phase, told, length, last)
           E == (f = "arrived")
<1>2. y \in MessageType
      BY ProgressTypes
<1>3. /\ st.frame_size = None /\ st.frame.type \in {"headers", "push_promise"}
      /\ st.frame.need =< table /\ st.frame.need > from
      BY <1>1 DEF AtRest
<1> HIDE DEF y
<1>4. Context(s, w, y, E)
      BY <1>1, <1>2 DEF Context, y
<1>5. Coming(s, st, w, y, q)
      BY <1>1 DEF Stage, y
<1>6. st.ended = E
      BY <1>1
<1>7. Owed(f, told, heard, q)
      BY <1>1 DEF Owed, Account
<1>8. f # "none" => Complete(y)
      BY <1>1 DEF y
<1>9. E \in BOOLEAN
      OBVIOUS
<1>10. Awaits(s, w, f, told, heard, y, q, E)
       BY <1>2, <1>4, <1>7, <1>8 DEF Awaits
<1> HIDE DEF E
<1>11. Resuming(s, w, y, E, q, st, table)
       BY <1>3, <1>4, <1>5, <1>6 DEF Resuming
<1>12. CASE st.frame.type = "headers"
  <2>1. Moved(s, w, y, E, q, table, res)
        BY <1>11, <1>12, HeadersResume
  <2>2. y = Progress(phase, told, length, last)
        BY DEF y
  <2>3. /\ Tracks(s, res.st, w, f, told, heard \o res.parts, phase, length, table)
        /\ heard \o res.parts \in Seq(Part)
        /\ res.st \in StreamType /\ res.raised # "error"
        BY <1>10, <2>1, <2>2, TracksMoved
  <2>4. QED BY <2>3
<1>13. CASE st.frame.type = "push_promise"
  <2>1. res.raised = "error" /\ res.st = st
        BY <1>11, <1>13, PromiseResumes
  <2>2. Allowed(s, Rest(st), Message(st))
        BY <1>5 DEF Coming, Reads, InHand
  <2>3. Rest(st).type = "push_promise" /\ Rest(st).need = st.frame.need
        BY <1>13 DEF Rest, StreamType, FrameType
  <2>4. st.frame.need \in PromiseNeeds
        BY <2>2, <2>3 DEF Allowed
  <2>5. QED BY <1>3, <1>13, <2>1, <2>4
<1>14. QED BY <1>3, <1>12, <1>13

\* A stream that the instructions do not unblock waits as before.
LEMMA TracksLater ==
    ASSUME NEW s, NEW st \in StreamType, NEW w, NEW f, NEW told, NEW heard, NEW phase,
           NEW length, NEW from, Tracks(s, st, w, f, told, heard, phase, length, from),
           NEW table \in Nat, ~(st.blocked /\ st.need =< table)
    PROVE  Tracks(s, st, w, f, told, heard, phase, length, table)
<1>1. st.need \in Nat
      BY DEF StreamType
<1>2. AtRest(st, from) => AtRest(st, table)
      BY <1>1 DEF AtRest
<1>3. QED BY <1>2 DEF Tracks

\* A stream before anything was sent.
LEMMA NewStreamTypes ==
    /\ NewStream \in StreamType
    /\ Message(NewStream) = Progress("initial", << >>, None, "none")
    /\ Message(NewStream) \in MessageType
    /\ \A table : AtRest(NewStream, table)
    /\ PushPrefix \in Seq(UnitType)
<1>1. None \in Length /\ 0 \in Nat /\ "none" \in Kind /\ "initial" \in HeadersState
      BY DEF Length, Kind, HeadersState
<1>2. Frame("none", 0, 0, None) \in FrameType
      BY <1>1 DEF Frame, FrameType
<1>3. << >> \in Seq(UnitType)
      BY EmptySeq
<1>4. NewStream \in StreamType
      BY <1>1, <1>2, <1>3 DEF NewStream, StreamType
<1>5. Message(NewStream) = [phase |-> "initial", data |-> 0, declared |-> None,
                            last |-> "none"]
      BY DEF Message, NewStream, Frame
<1>6. DataCount(<< >>) = 0
      BY NoData
<1>7. \A table : AtRest(NewStream, table)
  <2>1. ~NewStream.blocked /\ NewStream.frame_size = None /\ NewStream.buffer = << >>
        BY DEF NewStream
  <2>2. Len(<< >>) =< 1
        OBVIOUS
  <2>3. QED BY <2>1, <2>2 DEF AtRest
<1>8. PushPrefix \in Seq(UnitType)
  <2> DEFINE o == Frame("push_stream", 0, 0, None)
  <2>1. o \in FrameType
        BY <1>1 DEF Frame, FrameType, Kind
  <2> HIDE DEF o
  <2>2. Unit("stream_type", o) \in UnitType /\ Unit("push_id", o) \in UnitType
        BY <2>1 DEF Unit, UnitType
  <2>3. <<Unit("stream_type", o), Unit("push_id", o)>> \in Seq(UnitType)
        BY <2>2
  <2>4. QED BY <2>3 DEF PushPrefix, o
<1>9. Message(NewStream) \in MessageType
      BY <1>4, MessageTypes
<1>10. QED BY <1>4, <1>5, <1>6, <1>7, <1>8, <1>9 DEF Progress

\* The client follows a new stream, before its first unit or with the units that open a
\* push stream on their way.
LEMMA TracksNew ==
    ASSUME NEW s \in Streams, NEW w \in Seq(UnitType),
           w = IF s = "push" THEN PushPrefix ELSE << >>, NEW table
    PROVE  Tracks(s, NewStream, w, "none", << >>, << >>, "initial", None, table)
<1> DEFINE st == NewStream
           e == << >>
           y == Message(st)
           k == Prefix(s, st)
<1>1. /\ st \in StreamType /\ y \in MessageType /\ AtRest(st, table)
      /\ y = Progress("initial", e, None, "none")
      BY NewStreamTypes
<1>2. ~st.blocked /\ ~st.ended /\ st.frame_size = None /\ st.buffer = e
      /\ st.push_id = None /\ st.stream_type = "none"
      BY DEF NewStream
<1>3. st.buffer \o w = w
      BY <1>2, ConcatEmptySeq
<1>4. k = IF s = "push" THEN 2 ELSE 0
      BY <1>2 DEF Prefix, Streams
<1>5. Len(w) = k /\ Drop(w, k) = e
  <2>1. Len(PushPrefix) = 2
        BY DEF PushPrefix
  <2>2. Len(<< >>) = 0
        OBVIOUS
  <2> HIDE DEF k, st, y
  <2>3. Len(w) = k
    <3>1. CASE s = "push"
          BY <1>4, <2>1, <3>1
    <3>2. CASE s # "push"
      <4>1. w = << >> /\ k = 0
            BY <1>4, <3>2
      <4>2. QED BY ONLY <2>2, <4>1
    <3>3. QED BY <3>1, <3>2
  <2>4. QED BY <2>3, DropEnds
<1>6. Carries(s, e, y, e, y)
      BY <1>1, CarriesNone
<1>7. e \in Seq(Part) /\ e \o e = e
      BY EmptySeq, ConcatEmptySeq
<1> HIDE DEF st, e, y, k
<1>8. Reads(s, st, Drop(st.buffer \o w, k), e, y)
  <2>1. ~InHand(st)
        BY <1>2 DEF InHand
  <2>2. QED BY <1>3, <1>5, <1>6, <2>1 DEF Reads, y
<1>9. Coming(s, st, w, y, e)
  <2>1. k \in 0..Len(st.buffer \o w)
    <3>1. k \in Nat
          BY <1>4
    <3>2. Len(st.buffer \o w) = k
          BY <1>3, <1>5
    <3>3. k \in 0..k
          BY <3>1
    <3>4. QED BY <3>2, <3>3
  <2>2. QED BY <1>2, <1>8, <2>1 DEF Coming, k
<1>10. Stage(s, st, w, y, e)
       BY <1>2, <1>9 DEF Stage, e
<1>11. Account("none", st, e, e, e)
       BY <1>7 DEF Account
<1>12. "none" \in Kind
       BY DEF Kind
<1>13. Tracks(s, st, w, "none", e, e, "initial", None, table)
  <2> DEFINE f == "none"
             a == "initial"
             z == Progress(a, e, None, f)
  <2>1. /\ Stage(s, st, w, z, e) /\ AtRest(st, table) /\ Account(f, st, e, e, e)
        /\ st.ended = (f = "arrived")
    <3>1. Stage(s, st, w, z, e) /\ AtRest(st, table) /\ Account(f, st, e, e, e)
          BY <1>1, <1>10, <1>11
    <3>2. st.ended \in BOOLEAN
          BY <1>1 DEF StreamType
    <3>3. f # "arrived"
          OBVIOUS
    <3> HIDE DEF f
    <3>4. st.ended = (f = "arrived")
          BY <1>2, <3>2, <3>3
    <3> HIDE DEF z, a
    <3>5. QED BY <3>1, <3>4
  <2>2. f # "arrived" /\ (f # "none" => Complete(z))
        OBVIOUS
  <2>3. f \in Kind /\ e \in Seq(Part)
        BY <1>7, <1>12
  <2> HIDE DEF f, a
  <2>4. Tracks(s, st, w, f, e, e, a, None, table)
        BY <2>1, <2>2, <2>3 DEF Tracks
  <2>5. QED BY <2>4 DEF f, a
<1>14. QED BY <1>13 DEF st, e

-----------------------------------------------------------------------------
(* The invariant.                                                          *)

\* The types of the variables that the invariant reads.
Types ==
    /\ sent \in [Streams -> Seq(Part)]
    /\ wire \in [Streams -> Seq(UnitType)]
    /\ fin \in [Streams -> {"none", "sent", "arrived"}]
    /\ headers_send_state \in [Streams -> HeadersState]
    /\ declared \in [Streams -> Length]
    /\ next_push_id \in Nat /\ inserts \in Nat
    /\ stream \in [Streams -> StreamType]
    /\ inserts_received \in Nat
    /\ seen \in [Streams -> Seq(Part)]
    /\ is_done \in BOOLEAN

\* Before its headers a message has no length, and before the first promise the push stream
\* has nothing.
Undeclared == \A s \in Streams : headers_send_state[s] = "initial" => declared[s] = None
Unopened ==
    next_push_id = 0 =>
        /\ sent["push"] = << >> /\ wire["push"] = << >> /\ fin["push"] = "none"
        /\ headers_send_state["push"] = "initial" /\ seen["push"] = << >>
        /\ stream["push"] = NewStream

\* One sequence begins with the other, and so do what was sent and what was reported.
Begins(heard, told) == \E r \in Seq(Part) : told = heard \o r
Follows(s) == Begins(seen[s], sent[s])

StreamTracked(s) ==
    Tracks(s, stream[s], wire[s], fin[s], sent[s], seen[s], headers_send_state[s],
           declared[s], inserts_received)

Tracked == ~is_done => \A s \in Streams : IsOpen(s) => StreamTracked(s)

IInv ==
    /\ Types /\ Undeclared /\ Unopened
    /\ \A s \in Streams : Follows(s)
    /\ Tracked

\* What the invariant says of one stream.
LEMMA StreamTyped ==
    ASSUME Types, NEW s \in Streams
    PROVE  StreamTypes(s, stream[s], wire[s], fin[s], sent[s], seen[s],
                       headers_send_state[s], declared[s])
BY DEF Types, StreamTypes

\* The events of a stream that is tracked are the first that were sent.
LEMMA TracksFollows ==
    ASSUME NEW s, NEW st, NEW w, NEW f \in {"none", "sent", "arrived"}, NEW told,
           NEW heard \in Seq(Part), NEW phase, NEW length, NEW table,
           Tracks(s, st, w, f, told, heard, phase, length, table)
    PROVE  Begins(heard, told)
<1> DEFINE e == <<"end">>
           n == << >>
<1>1. PICK q \in Seq(Part) : Account(f, st, told, heard, q)
      BY DEF Tracks
<1>2. e \in Seq(Part) /\ n \in Seq(Part)
      BY DEF Part
<1>3. told = heard \o q \/ told = (heard \o q) \o e \/ told = heard
      BY <1>1 DEF Account
<1>4. heard = heard \o n
      BY ConcatEmptySeq
<1> HIDE DEF e, n
<1>5. (heard \o q) \o e = heard \o (q \o e) /\ q \o e \in Seq(Part)
      BY <1>2, PartsTogether, ConcatProperties
<1>6. QED BY <1>2, <1>3, <1>4, <1>5 DEF Begins

\* Initially nothing was sent.
LEMMA InitInv ==
    ASSUME Init
    PROVE  IInv
<1> USE DEF Init
<1>1. << >> \in Seq(Part) /\ << >> \in Seq(UnitType) /\ NewStream \in StreamType
      BY EmptySeq, NewStreamTypes
<1>2. None \in Length /\ "initial" \in HeadersState
      BY DEF Length, HeadersState
<1>3. Types
      BY <1>1, <1>2 DEF Types
<1>4. Undeclared
      BY DEF Undeclared
<1>5. Unopened
      BY DEF Unopened, Streams
<1>6. ASSUME NEW s \in Streams PROVE Follows(s)
  <2> DEFINE e == << >>
  <2>1. sent[s] = e /\ seen[s] = e /\ e \in Seq(Part) /\ e = e \o e
        BY <1>1, ConcatEmptySeq
  <2> HIDE DEF e
  <2>2. QED BY <2>1 DEF Follows, Begins
<1>7. ASSUME NEW s \in Streams, IsOpen(s) PROVE StreamTracked(s)
  <2> DEFINE w == << >>
             t == 0
  <2>1. s # "push" /\ w \in Seq(UnitType)
        BY <1>1, <1>7 DEF IsOpen
  <2>2. w = IF s = "push" THEN PushPrefix ELSE << >>
        BY <2>1
  <2> HIDE DEF w, t
  <2>3. Tracks(s, NewStream, w, "none", << >>, << >>, "initial", None, t)
        BY <2>1, <2>2, TracksNew
  <2>4. QED BY <2>3 DEF StreamTracked, w, t
<1>8. QED BY <1>3, <1>4, <1>5, <1>6, <1>7 DEF IInv, Tracked

-----------------------------------------------------------------------------
(* The steps of the server.                                                *)

\* How far the server is with a message; of its last frame nothing is asked.
Written(s) == Progress(headers_send_state[s], sent[s], declared[s], "none")

\* The server writes frame f on stream s, and perhaps the end; the first promise opens the
\* push stream.
Writes(s, f, end) ==
    /\ s \in Streams /\ f \in FrameType /\ end \in BOOLEAN
    /\ fin[s] = "none" /\ IsOpen(s)
    /\ Allowed(s, f, Written(s)) /\ (end => Complete(After(f, Written(s))))
    /\ sent' = [sent EXCEPT ![s] = (@ \o PartsOf(f, Written(s))) \o EndOf(end)]
    /\ fin' = [fin EXCEPT ![s] = IF end THEN "sent" ELSE "none"]
    /\ headers_send_state' = [headers_send_state EXCEPT ![s] = After(f, Written(s)).phase]
    /\ declared' = [declared EXCEPT ![s] = After(f, Written(s)).declared]
    /\ wire' \in [Streams -> Seq(UnitType)]
    /\ wire'[s] = wire[s] \o encode_frame(f)
    /\ \A t \in Streams \ {s} :
          wire'[t] = IF t = "push" /\ next_push_id = 0 /\ next_push_id' > 0 THEN PushPrefix
                     ELSE wire[t]
    /\ next_push_id' \in Nat /\ (next_push_id > 0 => next_push_id' > 0)
    /\ inserts' \in Nat
    /\ UNCHANGED clientVars

\* How far the server is, is well typed.
LEMMA WrittenTypes ==
    ASSUME Types, NEW s \in Streams
    PROVE  /\ Written(s) \in MessageType
           /\ Written(s).phase = headers_send_state[s]
           /\ Written(s).declared = declared[s]
           /\ Written(s).data = DataSent(s) /\ DataSent(s) \in Nat
<1>1. /\ headers_send_state[s] \in HeadersState /\ sent[s] \in Seq(Part)
      /\ declared[s] \in Length /\ "none" \in Kind
      BY DEF Types, Kind
<1>2. Written(s) \in MessageType
      BY <1>1, ProgressTypes DEF Written
<1>3. DataSent(s) = DataCount(sent[s])
      BY DEF DataSent, DataCount, DataIn
<1>4. DataCount(sent[s]) \in Nat
      BY <1>1, DataPlaces
<1>5. QED BY <1>2, <1>3, <1>4 DEF Written, Progress

\* A step of the server keeps the invariant.
LEMMA WritesInv ==
    ASSUME IInv, NEW s, NEW f, NEW end, Writes(s, f, end)
    PROVE  IInv'
<1> DEFINE x == Written(s)
           p == PartsOf(f, x)
           e == EndOf(end)
           c == encode_frame(f)
           z == After(f, x)
           n == IF end THEN "sent" ELSE "none"
<1>1. /\ Types /\ Undeclared /\ Unopened /\ Tracked
      /\ \A t \in Streams : Follows(t)
      BY DEF IInv
<1>2. /\ s \in Streams /\ f \in FrameType /\ end \in BOOLEAN
      /\ fin[s] = "none" /\ IsOpen(s)
      /\ Allowed(s, f, x) /\ (end => Complete(z))
      /\ sent' = [sent EXCEPT ![s] = (sent[s] \o p) \o e]
      /\ fin' = [fin EXCEPT ![s] = n]
      /\ headers_send_state' = [headers_send_state EXCEPT ![s] = z.phase]
      /\ declared' = [declared EXCEPT ![s] = z.declared]
      /\ wire' \in [Streams -> Seq(UnitType)]
      /\ wire'[s] = wire[s] \o c
      /\ \A t \in Streams \ {s} :
            wire'[t] = IF t = "push" /\ next_push_id = 0 /\ next_push_id' > 0
                       THEN PushPrefix ELSE wire[t]
      /\ next_push_id' \in Nat /\ (next_push_id > 0 => next_push_id' > 0)
      /\ inserts' \in Nat
      BY DEF Writes
<1>3. /\ stream' = stream /\ inserts_received' = inserts_received
      /\ seen' = seen /\ is_done' = is_done
      BY DEF Writes, clientVars
<1>4. /\ x \in MessageType /\ x.phase = headers_send_state[s] /\ x.declared = declared[s]
      BY <1>1, <1>2, WrittenTypes
<1>5. /\ e \in Seq(Part) /\ n \in {"none", "sent", "arrived"}
  <2>1. <<"end">> \in Seq(Part) /\ << >> \in Seq(Part)
        BY DEF Part
  <2>2. QED BY <2>1 DEF EndOf
<1> HIDE DEF x, e, n
<1>6. z \in MessageType /\ p \in Seq(Part)
      BY <1>2, <1>4, FrameTypes
<1>7. z.phase \in HeadersState /\ z.declared \in Length
      BY <1>6 DEF MessageType
<1>8. z.phase = "initial" => x.phase = "initial" /\ z.declared = x.declared
      BY <1>4 DEF After, MessageType, HeadersState
<1>9. (sent[s] \o p) \o e \in Seq(Part)
  <2>1. sent[s] \in Seq(Part)
        BY <1>1, <1>2 DEF Types
  <2> HIDE DEF p
  <2>2. sent[s] \o p \in Seq(Part)
        BY <1>6, <2>1, ConcatProperties
  <2>3. QED BY <1>5, <2>2, ConcatProperties
<1> HIDE DEF p, c, z
<1>10. Types'
       BY <1>1, <1>2, <1>3, <1>5, <1>7, <1>9 DEF Types
<1>11. Undeclared'
  <2>1. SUFFICES ASSUME NEW t \in Streams, headers_send_state'[t] = "initial"
                 PROVE  declared'[t] = None
        BY DEF Undeclared
  <2>2. CASE t = s
        BY <1>1, <1>2, <1>4, <1>8, <2>1, <2>2 DEF Undeclared, Types
  <2>3. CASE t # s
        BY <1>1, <1>2, <2>1, <2>3 DEF Undeclared, Types
  <2>4. QED BY <2>2, <2>3
<1>12. Unopened'
  <2>1. SUFFICES ASSUME next_push_id' = 0 PROVE Unopened'
        BY DEF Unopened
  <2>2. next_push_id = 0 /\ s # "push"
        BY <1>1, <1>2, <2>1 DEF IsOpen, Types
  <2>3. "push" \in Streams /\ "push" \in Streams \ {s}
        BY <2>2 DEF Streams
  <2>4. wire'["push"] = wire["push"]
        BY <1>2, <2>1, <2>3
  <2>5. /\ sent'["push"] = sent["push"] /\ fin'["push"] = fin["push"]
        /\ headers_send_state'["push"] = headers_send_state["push"]
        BY <1>1, <1>2, <2>2, <2>3 DEF Types
  <2>6. QED BY <1>1, <1>3, <2>2, <2>4, <2>5 DEF Unopened
<1>13. ASSUME NEW t \in Streams PROVE Follows(t)'
  <2>1. PICK r \in Seq(Part) : sent[t] = seen[t] \o r
        BY <1>1 DEF Follows, Begins
  <2>2. CASE t # s
    <3>1. sent'[t] = sent[t]
          BY <1>1, <1>2, <2>2 DEF Types
    <3>2. QED BY <1>3, <2>1, <3>1 DEF Follows, Begins
  <2>3. CASE t = s
    <3> DEFINE h == seen[t]
    <3>1. h \in Seq(Part)
          BY <1>1 DEF Types
    <3>2. sent'[t] = ((h \o r) \o p) \o e
          BY <1>1, <1>2, <2>1, <2>3 DEF Types
    <3> HIDE DEF h
    <3>3. (h \o r) \o p = h \o (r \o p) /\ r \o p \in Seq(Part)
          BY <1>6, <3>1, PartsTogether, ConcatProperties
    <3>4. (h \o (r \o p)) \o e = h \o ((r \o p) \o e) /\ (r \o p) \o e \in Seq(Part)
          BY <1>5, <3>1, <3>3, PartsTogether, ConcatProperties
    <3>5. sent'[t] = h \o ((r \o p) \o e)
          BY <3>2, <3>3, <3>4
    <3>6. QED BY <1>3, <3>4, <3>5 DEF Follows, Begins, h
  <2>4. QED BY <2>2, <2>3
<1>14. ASSUME ~is_done', NEW t \in Streams, IsOpen(t)' PROVE StreamTracked(t)'
  <2>1. ~is_done
        BY <1>3, <1>14
  <2>2. CASE t = s
    <3>1. /\ StreamTypes(s, stream[s], wire[s], "none", sent[s], seen[s],
                         headers_send_state[s], declared[s])
          /\ Tracks(s, stream[s], wire[s], "none", sent[s], seen[s],
                    headers_send_state[s], declared[s], inserts_received)
          BY <1>1, <1>2, <2>1, StreamTyped DEF Tracked, StreamTracked
    <3>2. x = Progress(headers_send_state[s], sent[s], declared[s], "none")
          BY DEF x, Written
    <3> DEFINE m == (sent[s] \o PartsOf(f, x)) \o EndOf(end)
               w == wire[s] \o encode_frame(f)
               u == IF end THEN "sent" ELSE "none"
               y == After(f, x)
    <3>3. Tracks(s, stream[s], w, u, m, seen[s], y.phase, y.declared, inserts_received)
          BY <1>2, <3>1, <3>2, TracksWritten DEF z
    <3>4. /\ wire'[s] = w /\ fin'[s] = u /\ sent'[s] = m
          /\ headers_send_state'[s] = y.phase /\ declared'[s] = y.declared
          BY <1>1, <1>2 DEF Types, p, e, c, z, n
    <3> HIDE DEF m, w, u, y
    <3>5. QED BY <1>3, <2>2, <3>3, <3>4 DEF StreamTracked
  <2>3. CASE t # s
    <3>1. /\ fin'[t] = fin[t] /\ sent'[t] = sent[t] /\ declared'[t] = declared[t]
          /\ headers_send_state'[t] = headers_send_state[t]
          BY <1>1, <1>2, <2>3 DEF Types
    <3>2. wire'[t] = IF t = "push" /\ next_push_id = 0 /\ next_push_id' > 0 THEN PushPrefix
                     ELSE wire[t]
          BY <1>2, <2>3
    <3>3. CASE IsOpen(t)
      <4>1. wire'[t] = wire[t]
            BY <3>2, <3>3 DEF IsOpen
      <4>2. StreamTracked(t)
            BY <1>1, <2>1, <3>3 DEF Tracked
      <4>3. QED BY <1>3, <3>1, <4>1, <4>2 DEF StreamTracked
    <3>4. CASE ~IsOpen(t)
      <4>1. t = "push" /\ next_push_id = 0 /\ next_push_id' > 0
            BY <1>1, <1>14, <3>4 DEF IsOpen, Types
      <4>2. wire'[t] = PushPrefix /\ PushPrefix \in Seq(UnitType)
            BY <3>2, <4>1, NewStreamTypes
      <4>3. /\ sent[t] = << >> /\ fin[t] = "none" /\ headers_send_state[t] = "initial"
            /\ seen[t] = << >> /\ stream[t] = NewStream /\ declared[t] = None
            BY <1>1, <4>1 DEF Unopened, Undeclared, Streams
      <4> DEFINE w == PushPrefix
                 k == inserts_received
      <4>4. w \in Seq(UnitType) /\ w = IF t = "push" THEN PushPrefix ELSE << >>
            BY <4>1, <4>2
      <4> HIDE DEF w, k
      <4>5. Tracks(t, NewStream, w, "none", << >>, << >>, "initial", None, k)
            BY <4>4, TracksNew
      <4>6. QED BY <1>3, <3>1, <4>2, <4>3, <4>5 DEF StreamTracked, w, k
    <3>5. QED BY <3>3, <3>4
  <2>4. QED BY <2>2, <2>3
<1>15. Tracked'
       BY <1>14 DEF Tracked
<1>16. QED BY <1>10, <1>11, <1>12, <1>13, <1>15 DEF IInv

\* What the encoder makes of a block.
LEMMA EncodedTypes ==
    ASSUME Types, NEW need, Encoded(need)
    PROVE  need \in Nat /\ inserts' \in Nat
<1>1. need \in Nat
      BY BoundsAssumption DEF Encoded
<1>2. QED BY <1>1 DEF Encoded, Types

\* A frame that is written on its stream alone.
LEMMA FrameWritten ==
    ASSUME Types, NEW s \in Streams, NEW f \in FrameType, NEW end \in BOOLEAN, IsOpen(s),
           Allowed(s, f, Written(s)), end => Complete(After(f, Written(s))),
           Write(s, f, PartsOf(f, Written(s)), end), WriteOn(s, encode_frame(f)),
           headers_send_state' = [headers_send_state EXCEPT ![s] = After(f, Written(s)).phase],
           declared' = [declared EXCEPT ![s] = After(f, Written(s)).declared],
           next_push_id' = next_push_id, inserts' \in Nat, UNCHANGED clientVars
    PROVE  Writes(s, f, end)
<1> DEFINE c == encode_frame(f)
<1>1. wire \in [Streams -> Seq(UnitType)] /\ next_push_id \in Nat
      BY DEF Types
<1>2. c \in Seq(UnitType) /\ wire[s] \in Seq(UnitType)
      BY <1>1, FrameUnits
<1>3. wire' = [wire EXCEPT ![s] = wire[s] \o c]
      BY <1>1 DEF WriteOn
<1> HIDE DEF c
<1>4. wire[s] \o c \in Seq(UnitType)
      BY <1>2, ConcatProperties
<1>5. /\ wire' \in [Streams -> Seq(UnitType)] /\ wire'[s] = wire[s] \o c
      /\ \A t \in Streams \ {s} : wire'[t] = wire[t]
      BY <1>1, <1>3, <1>4
<1>6. /\ fin[s] = "none"
      /\ fin' = [fin EXCEPT ![s] = IF end THEN "sent" ELSE "none"]
      BY DEF Write, Types
<1>7. sent' = [sent EXCEPT ![s] = (@ \o PartsOf(f, Written(s))) \o EndOf(end)]
      BY DEF Write, EndOf
<1>8. next_push_id' \in Nat /\ (next_push_id > 0 => next_push_id' > 0)
      BY <1>1
<1>9. \A t \in Streams \ {s} :
          wire'[t] = IF t = "push" /\ next_push_id = 0 /\ next_push_id' > 0 THEN PushPrefix
                     ELSE wire[t]
      BY <1>1, <1>5
<1>10. QED BY <1>5, <1>6, <1>7, <1>8, <1>9 DEF Writes, c

\* The message that ends is as long as it declared.
LEMMA FulfilledCompletes ==
    ASSUME Types, NEW s \in Streams, NEW f \in FrameType, f.type # "push_promise",
           After(f, Written(s)).data = DataSent(s),
           Fulfilled(s, After(f, Written(s)).declared)
    PROVE  Complete(After(f, Written(s)))
BY DEF Complete, Fulfilled, After

\* A stream with headers is open.
LEMMA HeadersOpen ==
    ASSUME Types, Unopened, NEW s \in Streams, headers_send_state[s] # "initial"
    PROVE  IsOpen(s)
BY DEF IsOpen, Unopened, Types

\* The headers of a message.
LEMMA SendHeadersInv ==
    ASSUME IInv, NEW s \in Streams, NEW end \in BOOLEAN, SendHeaders(s, end)
    PROVE  IInv'
<1>1. Types /\ Undeclared
      BY DEF IInv
<1>2. PICK need \in 0..MaxInserts, length \in {None} \cup 0..MaxData :
          /\ end => Fulfilled(s, length)
          /\ Encoded(need)
          /\ Write(s, Frame("headers", 1, need, length), <<"headers">>, end)
          /\ WriteOn(s, encode_frame(Frame("headers", 1, need, length)))
          /\ declared' = [declared EXCEPT ![s] = length]
      BY DEF SendHeaders
<1> DEFINE f == Frame("headers", 1, need, length)
           x == Written(s)
<1>3. /\ IsOpen(s) /\ headers_send_state[s] = "initial"
      /\ headers_send_state' = [headers_send_state EXCEPT ![s] = "after_headers"]
      /\ next_push_id' = next_push_id /\ UNCHANGED clientVars
      BY DEF SendHeaders
<1>4. f \in FrameType
  <2>1. need \in Nat /\ length \in Length /\ "headers" \in Kind
        BY BoundsAssumption DEF Length, Kind
  <2>2. QED BY <2>1 DEF Frame, FrameType
<1>5. f.type = "headers" /\ f.size = 1 /\ f.length = length
      BY DEF Frame
<1>6. x \in MessageType /\ x.phase = "initial" /\ x.declared = None /\ x.data = DataSent(s)
      BY <1>1, <1>3, WrittenTypes DEF Undeclared
<1>7. inserts' \in Nat
      BY <1>1, <1>2, EncodedTypes
<1> HIDE DEF f, x
<1>8. Allowed(s, f, x)
      BY <1>5, <1>6 DEF Allowed
<1>9. /\ PartsOf(f, x) = <<"headers">> /\ After(f, x).phase = "after_headers"
      /\ After(f, x).declared = length /\ After(f, x).data = DataSent(s)
      BY <1>5, <1>6 DEF PartsOf, After
<1>10. end => Complete(After(f, x))
       BY <1>1, <1>2, <1>4, <1>5, <1>9, FulfilledCompletes DEF x
<1>11. Writes(s, f, end)
       BY <1>1, <1>2, <1>3, <1>4, <1>7, <1>8, <1>9, <1>10, FrameWritten DEF f, x
<1>12. QED BY <1>11, WritesInv

\* Its trailers.
LEMMA SendTrailersInv ==
    ASSUME IInv, NEW s \in Streams, NEW end \in BOOLEAN, SendTrailers(s, end)
    PROVE  IInv'
<1>1. Types /\ Unopened
      BY DEF IInv
<1>2. PICK need \in 0..MaxInserts :
          /\ Encoded(need)
          /\ Write(s, Frame("headers", 1, need, None), <<"trailers">>, end)
          /\ WriteOn(s, encode_frame(Frame("headers", 1, need, None)))
      BY DEF SendTrailers
<1> DEFINE f == Frame("headers", 1, need, None)
           x == Written(s)
<1>3. /\ headers_send_state[s] = "after_headers" /\ (end => Fulfilled(s, declared[s]))
      /\ headers_send_state' = [headers_send_state EXCEPT ![s] = "after_trailers"]
      /\ declared' = declared /\ next_push_id' = next_push_id /\ UNCHANGED clientVars
      BY DEF SendTrailers
<1>4. f \in FrameType
  <2>1. need \in Nat /\ None \in Length /\ "headers" \in Kind
        BY BoundsAssumption DEF Length, Kind
  <2>2. QED BY <2>1 DEF Frame, FrameType
<1>5. f.type = "headers" /\ f.size = 1 /\ f.length = None
      BY DEF Frame
<1>6. /\ x \in MessageType /\ x.phase = "after_headers" /\ x.declared = declared[s]
      /\ x.data = DataSent(s)
      BY <1>1, <1>3, WrittenTypes
<1>7. inserts' \in Nat /\ IsOpen(s)
      BY <1>1, <1>2, <1>3, EncodedTypes, HeadersOpen
<1> HIDE DEF f, x
<1>8. Allowed(s, f, x)
      BY <1>5, <1>6 DEF Allowed
<1>9. /\ PartsOf(f, x) = <<"trailers">> /\ After(f, x).phase = "after_trailers"
      /\ After(f, x).declared = declared[s] /\ After(f, x).data = DataSent(s)
      BY <1>5, <1>6 DEF PartsOf, After
<1>10. end => Complete(After(f, x))
       BY <1>1, <1>3, <1>4, <1>5, <1>9, FulfilledCompletes DEF x
<1>11. declared' = [declared EXCEPT ![s] = After(f, x).declared]
       BY <1>1, <1>3, <1>9 DEF Types
<1>12. Writes(s, f, end)
       BY <1>1, <1>2, <1>3, <1>4, <1>7, <1>8, <1>9, <1>10, <1>11, FrameWritten DEF f, x
<1>13. QED BY <1>12, WritesInv

\* Its data.
LEMMA SendDataInv ==
    ASSUME IInv, NEW s \in Streams, NEW end \in BOOLEAN, SendData(s, end)
    PROVE  IInv'
<1>1. Types /\ Unopened
      BY DEF IInv
<1>2. PICK size \in 0..(MaxData - DataSent(s)) :
          /\ declared[s] # None => IF end THEN DataSent(s) + size = declared[s]
                                   ELSE DataSent(s) + size =< declared[s]
          /\ Write(s, Frame("data", size, 0, None), [i \in 1..size |-> "data"], end)
          /\ WriteOn(s, encode_frame(Frame("data", size, 0, None)))
      BY DEF SendData
<1> DEFINE f == Frame("data", size, 0, None)
           x == Written(s)
<1>3. /\ headers_send_state[s] = "after_headers"
      /\ headers_send_state' = headers_send_state /\ inserts' = inserts
      /\ declared' = declared /\ next_push_id' = next_push_id /\ UNCHANGED clientVars
      BY DEF SendData
<1>4. /\ x \in MessageType /\ x.phase = "after_headers" /\ x.declared = declared[s]
      /\ x.data = DataSent(s) /\ DataSent(s) \in Nat
      BY <1>1, <1>3, WrittenTypes
<1>5. f \in FrameType
  <2>1. size \in Nat /\ None \in Length /\ "data" \in Kind
        BY <1>4, BoundsAssumption DEF Length, Kind
  <2>2. QED BY <2>1 DEF Frame, FrameType
<1>6. f.type = "data" /\ f.size = size
      BY DEF Frame
<1>7. inserts' \in Nat /\ IsOpen(s)
      BY <1>1, <1>3, HeadersOpen DEF Types
<1> HIDE DEF f, x
<1>8. Allowed(s, f, x)
      BY <1>4, <1>6 DEF Allowed
<1>9. /\ PartsOf(f, x) = [i \in 1..size |-> "data"] /\ After(f, x).phase = "after_headers"
      /\ After(f, x).declared = declared[s] /\ After(f, x).data = DataSent(s) + size
      /\ After(f, x).last = "data"
      BY <1>4, <1>6 DEF PartsOf, After
<1>10. end => Complete(After(f, x))
       BY <1>2, <1>9 DEF Complete
<1>11. /\ declared' = [declared EXCEPT ![s] = After(f, x).declared]
       /\ headers_send_state' = [headers_send_state EXCEPT ![s] = After(f, x).phase]
       BY <1>1, <1>3, <1>9 DEF Types
<1>12. Write(s, f, PartsOf(f, x), end) /\ WriteOn(s, encode_frame(f))
       BY <1>2, <1>9 DEF f
<1>13. Writes(s, f, end)
       BY <1>1, <1>3, <1>5, <1>7, <1>8, <1>10, <1>11, <1>12, FrameWritten DEF x
<1>14. QED BY <1>13, WritesInv

\* A frame of a reserved type.
LEMMA SendReservedInv ==
    ASSUME IInv, NEW s \in Streams, NEW end \in BOOLEAN, SendReserved(s, end)
    PROVE  IInv'
<1> DEFINE f == Frame("reserved", 1, 0, None)
           x == Written(s)
<1>1. Types
      BY DEF IInv
<1>2. /\ IsOpen(s) /\ (end => Fulfilled(s, declared[s]))
      /\ Write(s, f, << >>, end) /\ WriteOn(s, encode_frame(f))
      /\ headers_send_state' = headers_send_state /\ inserts' = inserts
      /\ declared' = declared /\ next_push_id' = next_push_id /\ UNCHANGED clientVars
      BY DEF SendReserved
<1>3. f \in FrameType
  <2>1. None \in Length /\ "reserved" \in Kind
        BY DEF Length, Kind
  <2>2. QED BY <2>1 DEF Frame, FrameType
<1>4. f.type = "reserved" /\ f.size = 1
      BY DEF Frame
<1>5. /\ x \in MessageType /\ x.phase = headers_send_state[s] /\ x.declared = declared[s]
      /\ x.data = DataSent(s) /\ inserts' \in Nat
      BY <1>1, <1>2, WrittenTypes DEF Types
<1> HIDE DEF f, x
<1>6. Allowed(s, f, x)
      BY <1>4 DEF Allowed
<1>7. /\ PartsOf(f, x) = << >> /\ After(f, x).phase = headers_send_state[s]
      /\ After(f, x).declared = declared[s] /\ After(f, x).data = DataSent(s)
      BY <1>4, <1>5 DEF PartsOf, After
<1>8. end => Complete(After(f, x))
      BY <1>1, <1>2, <1>3, <1>4, <1>7, FulfilledCompletes DEF x
<1>9. /\ declared' = [declared EXCEPT ![s] = After(f, x).declared]
      /\ headers_send_state' = [headers_send_state EXCEPT ![s] = After(f, x).phase]
      BY <1>1, <1>2, <1>7 DEF Types
<1>10. Write(s, f, PartsOf(f, x), end)
       BY <1>2, <1>7
<1>11. Writes(s, f, end)
       BY <1>1, <1>2, <1>3, <1>5, <1>6, <1>8, <1>9, <1>10, FrameWritten DEF x
<1>12. QED BY <1>11, WritesInv

\* A promise, of which the first opens the push stream.
LEMMA PromiseInv ==
    ASSUME IInv, send_push_promise
    PROVE  IInv'
<1>1. Types
      BY DEF IInv
<1>2. PICK need \in PromiseNeeds :
          /\ Encoded(need)
          /\ Write("request", Frame("push_promise", 1, need, None), <<"promise">>, FALSE)
          /\ wire' = [wire EXCEPT
                !["request"] = @ \o encode_frame(Frame("push_promise", 1, need, None)),
                !["push"] = IF next_push_id = 0 THEN PushPrefix ELSE @]
      BY DEF send_push_promise
<1> DEFINE f == Frame("push_promise", 1, need, None)
           s == "request"
           end == FALSE
           x == Written(s)
           c == encode_frame(f)
<1>3. /\ next_push_id' = next_push_id + 1
      /\ headers_send_state' = headers_send_state /\ declared' = declared
      /\ UNCHANGED clientVars
      BY DEF send_push_promise
<1>4. s \in Streams /\ IsOpen(s) /\ "push" \in Streams /\ s # "push"
      /\ \A t \in Streams \ {s} : t = "push"
      BY DEF Streams, IsOpen
<1>5. need \in Nat /\ inserts' \in Nat
      BY <1>1, <1>2, EncodedTypes
<1>6. f \in FrameType
  <2>1. None \in Length /\ "push_promise" \in Kind
        BY DEF Length, Kind
  <2>2. QED BY <1>5, <2>1 DEF Frame, FrameType
<1>7. f.type = "push_promise" /\ f.size = 1 /\ f.need = need
      BY DEF Frame
<1>8. x \in MessageType /\ x.phase = headers_send_state[s] /\ x.declared = declared[s]
      BY <1>1, <1>4, WrittenTypes
<1>9. c \in Seq(UnitType) /\ PushPrefix \in Seq(UnitType)
      BY <1>6, FrameUnits, NewStreamTypes
<1>10. wire' = [wire EXCEPT ![s] = wire[s] \o c,
                            !["push"] = IF next_push_id = 0 THEN PushPrefix ELSE wire["push"]]
       BY <1>1, <1>2, <1>4 DEF Types
<1>11. /\ fin[s] = "none" /\ fin' = [fin EXCEPT ![s] = "none"]
       /\ sent' = [sent EXCEPT ![s] = (@ \o <<"promise">>) \o << >>]
       BY <1>1, <1>2, <1>4 DEF Write, Types
<1> HIDE DEF f, x, c
<1>12. Allowed(s, f, x)
       BY <1>2, <1>7 DEF Allowed
<1>13. /\ PartsOf(f, x) = <<"promise">> /\ After(f, x).phase = headers_send_state[s]
       /\ After(f, x).declared = declared[s]
       BY <1>7, <1>8 DEF PartsOf, After
<1>14. wire[s] \in Seq(UnitType) /\ wire["push"] \in Seq(UnitType)
       /\ wire \in [Streams -> Seq(UnitType)] /\ next_push_id \in Nat
       BY <1>1, <1>4 DEF Types
<1>15. wire[s] \o c \in Seq(UnitType)
       BY <1>9, <1>14, ConcatProperties
<1>16. /\ wire' \in [Streams -> Seq(UnitType)] /\ wire'[s] = wire[s] \o c
       /\ wire'["push"] = IF next_push_id = 0 THEN PushPrefix ELSE wire["push"]
       BY <1>4, <1>9, <1>10, <1>14, <1>15
<1>17. next_push_id' \in Nat /\ next_push_id' > 0
       BY <1>3, <1>14
<1>18. \A t \in Streams \ {s} :
           wire'[t] = IF t = "push" /\ next_push_id = 0 /\ next_push_id' > 0 THEN PushPrefix
                      ELSE wire[t]
       BY <1>4, <1>16, <1>17
<1>19. /\ declared' = [declared EXCEPT ![s] = After(f, x).declared]
       /\ headers_send_state' = [headers_send_state EXCEPT ![s] = After(f, x).phase]
       BY <1>1, <1>3, <1>4, <1>13 DEF Types
<1>20. /\ sent' = [sent EXCEPT ![s] = (@ \o PartsOf(f, x)) \o EndOf(end)]
       /\ fin' = [fin EXCEPT ![s] = IF end THEN "sent" ELSE "none"]
       BY <1>11, <1>13 DEF EndOf
<1>21. Writes(s, f, end)
       BY <1>3, <1>4, <1>5, <1>6, <1>11, <1>12, <1>16, <1>17, <1>18, <1>19, <1>20
       DEF Writes, x, c
<1>22. QED BY <1>21, WritesInv

-----------------------------------------------------------------------------
(* The steps of the client.                                                *)

\* A stream that was never opened does nothing at the client.
LEMMA UnopenedQuiet ==
    ASSUME Types, Unopened, NEW s \in Streams, ~IsOpen(s)
    PROVE  /\ s = "push" /\ next_push_id = 0
           /\ wire[s] = << >> /\ fin[s] = "none" /\ ~stream[s].blocked
BY DEF IsOpen, Unopened, Types, NewStream

\* What arrives on a stream is reported, without an error.
LEMMA ReceiveStreamInv ==
    ASSUME IInv, NEW s \in Streams, NEW count \in 0..Len(wire[s]), NEW end \in BOOLEAN,
           ReceiveStream(s, count, end)
    PROVE  IInv' /\ ~is_done'
<1> DEFINE st == stream[s]
           w == wire[s]
           res == Receives(s, Arrived(st, SubSeq(w, 1, count), end), end, inserts_received)
           n == IF end THEN "arrived" ELSE fin[s]
           d == Drop(w, count)
<1>1. /\ Types /\ Undeclared /\ Unopened /\ Tracked
      /\ \A t \in Streams : Follows(t)
      BY DEF IInv
<1>2. /\ ~is_done /\ (count > 0 \/ end) /\ (end => fin[s] = "sent" /\ count = Len(w))
      /\ fin' = [fin EXCEPT ![s] = n]
      /\ wire' = [wire EXCEPT ![s] = d]
      /\ Finish(s, res)
      /\ UNCHANGED <<sent, headers_send_state, frames, declared, next_push_id,
                     inserts, controlVars, inserts_received>>
  <2>1. /\ ~is_done /\ (count > 0 \/ end) /\ (end => fin[s] = "sent" /\ count = Len(w))
        /\ UNCHANGED <<sent, headers_send_state, frames, declared, next_push_id,
                       inserts, controlVars, inserts_received>>
        BY DEF ReceiveStream
  <2>2. fin' = [fin EXCEPT ![s] = n] /\ wire' = [wire EXCEPT ![s] = d]
        BY <1>1 DEF ReceiveStream, Types, Drop
  <2>3. Finish(s, res)
        BY DEF ReceiveStream, Receives
  <2>4. QED BY <2>1, <2>2, <2>3
<1>3. IsOpen(s)
  <2>1. Len(<< >>) = 0
        OBVIOUS
  <2>2. w = << >> /\ fin[s] = "none" => FALSE
        BY <1>2, <2>1
  <2>3. QED BY <1>1, <2>2, UnopenedQuiet
<1>4. /\ StreamTypes(s, st, w, fin[s], sent[s], seen[s], headers_send_state[s], declared[s])
      /\ Tracks(s, st, w, fin[s], sent[s], seen[s], headers_send_state[s], declared[s],
                inserts_received)
      /\ inserts_received \in Nat
      BY <1>1, <1>2, <1>3, StreamTyped DEF Tracked, StreamTracked, Types
<1>5. w \in Seq(UnitType) /\ d \in Seq(UnitType)
      BY <1>4, DropItems DEF StreamTypes
<1> HIDE DEF res, n, d
<1>6. /\ Tracks(s, res.st, d, n, sent[s], seen[s] \o res.parts, headers_send_state[s],
                declared[s], inserts_received)
      /\ seen[s] \o res.parts \in Seq(Part)
      /\ res.st \in StreamType /\ res.raised # "error"
  <2> DEFINE f == fin[s]
             told == sent[s]
             heard == seen[s]
             phase == headers_send_state[s]
             length == declared[s]
             table == inserts_received
  <2>1. /\ StreamTypes(s, st, w, f, told, heard, phase, length) /\ table \in Nat
        /\ Tracks(s, st, w, f, told, heard, phase, length, table)
        /\ count \in 0..Len(w) /\ (count > 0 \/ end)
        /\ end => f = "sent" /\ count = Len(w)
        /\ res = Receives(s, Arrived(st, SubSeq(w, 1, count), end), end, table)
        BY <1>2, <1>4 DEF res
  <2> HIDE DEF f, told, heard, phase, length, table, st, w
  <2>2. /\ Tracks(s, res.st, Drop(w, count), IF end THEN "arrived" ELSE f, told,
                  heard \o res.parts, phase, length, table)
        /\ heard \o res.parts \in Seq(Part)
        /\ res.st \in StreamType /\ res.raised # "error"
        BY <2>1, TracksReceived
  <2>3. QED BY <2>2 DEF f, told, heard, phase, length, table, n, d
<1>7. /\ stream' = [stream EXCEPT ![s] = res.st] /\ is_done' = FALSE
      /\ seen' = [seen EXCEPT ![s] = seen[s] \o res.parts]
      BY <1>1, <1>2, <1>6 DEF Finish, Types
<1>8. n \in {"none", "sent", "arrived"}
      BY <1>1 DEF n, Types
<1>9. Types'
      BY <1>1, <1>2, <1>5, <1>6, <1>7, <1>8 DEF Types
<1>10. Undeclared'
       BY <1>1, <1>2 DEF Undeclared
<1>11. Unopened'
  <2>1. SUFFICES ASSUME next_push_id' = 0 PROVE Unopened'
        BY DEF Unopened
  <2>2. s # "push" /\ next_push_id = 0 /\ "push" \in Streams
        BY <1>1, <1>2, <1>3, <2>1 DEF IsOpen, Types, Streams
  <2>3. /\ wire'["push"] = wire["push"] /\ fin'["push"] = fin["push"]
        /\ stream'["push"] = stream["push"] /\ seen'["push"] = seen["push"]
        BY <1>1, <1>2, <1>7, <2>2 DEF Types
  <2>4. QED BY <1>1, <1>2, <2>2, <2>3 DEF Unopened
<1>12. ASSUME NEW t \in Streams, IsOpen(t)' PROVE StreamTracked(t)'
  <2>1. CASE t = s
    <3>1. /\ stream'[s] = res.st /\ wire'[s] = d /\ fin'[s] = n
          /\ seen'[s] = seen[s] \o res.parts
          BY <1>1, <1>2, <1>7 DEF Types
    <3>2. QED BY <1>2, <1>6, <2>1, <3>1 DEF StreamTracked
  <2>2. CASE t # s
    <3>1. /\ stream'[t] = stream[t] /\ wire'[t] = wire[t] /\ fin'[t] = fin[t]
          /\ seen'[t] = seen[t]
          BY <1>1, <1>2, <1>7, <2>2 DEF Types
    <3>2. StreamTracked(t)
          BY <1>1, <1>2, <1>12 DEF Tracked, IsOpen
    <3>3. QED BY <1>2, <3>1, <3>2 DEF StreamTracked
  <2>3. QED BY <2>1, <2>2
<1>13. ASSUME NEW t \in Streams PROVE Follows(t)'
  <2>1. CASE t = s
    <3>1. seen'[s] = seen[s] \o res.parts
          BY <1>1, <1>7 DEF Types
    <3>2. Begins(seen[s] \o res.parts, sent[s])
      <4> DEFINE h == seen[s] \o res.parts
                 o == res.st
                 told == sent[s]
                 phase == headers_send_state[s]
                 length == declared[s]
                 table == inserts_received
      <4>1. Tracks(s, o, d, n, told, h, phase, length, table) /\ h \in Seq(Part)
            BY <1>6
      <4> HIDE DEF h, o, told, phase, length, table
      <4>2. Begins(h, told)
            BY <1>8, <4>1, TracksFollows
      <4>3. QED BY <4>2 DEF h, told
    <3>3. QED BY <1>2, <2>1, <3>1, <3>2 DEF Follows
  <2>2. CASE t # s
    <3>1. seen'[t] = seen[t]
          BY <1>1, <1>7, <2>2 DEF Types
    <3>2. QED BY <1>1, <1>2, <3>1 DEF Follows
  <2>3. QED BY <2>1, <2>2
<1>14. Tracked'
       BY <1>12 DEF Tracked
<1>15. QED BY <1>7, <1>9, <1>10, <1>11, <1>13, <1>14 DEF IInv

\* A promise whose block waits for instructions.
PromiseWaits(s) ==
    /\ stream[s].blocked /\ stream[s].frame.type = "push_promise"
    /\ stream[s].frame.need \in PromiseNeeds /\ stream[s].frame.need > inserts_received

\* One stream, when more instructions have come.
LEMMA StreamResumed ==
    ASSUME Types, Tracked, ~is_done, NEW s \in Streams, IsOpen(s), NEW table \in Nat,
           stream[s].blocked, stream[s].need =< table,
           NEW res, res = Resume(stream[s], table)
    PROVE  \/ res.raised = "error" /\ res.st = stream[s] /\ PromiseWaits(s)
           \/ /\ Tracks(s, res.st, wire[s], fin[s], sent[s], seen[s] \o res.parts,
                        headers_send_state[s], declared[s], table)
              /\ seen[s] \o res.parts \in Seq(Part)
              /\ res.st \in StreamType /\ res.raised # "error"
<1> DEFINE st == stream[s]
           w == wire[s]
           f == fin[s]
           told == sent[s]
           heard == seen[s]
           phase == headers_send_state[s]
           length == declared[s]
           from == inserts_received
<1>1. /\ StreamTypes(s, st, w, f, told, heard, phase, length)
      /\ Tracks(s, st, w, f, told, heard, phase, length, from)
      /\ st.blocked /\ st.need =< table /\ res = Resume(st, table)
      BY StreamTyped DEF Tracked, StreamTracked
<1> HIDE DEF st, w, f, told, heard, phase, length, from
<1>2. \/ /\ res.raised = "error" /\ res.st = st /\ st.frame.type = "push_promise"
         /\ st.frame.need \in PromiseNeeds /\ st.frame.need > from
      \/ /\ Tracks(s, res.st, w, f, told, heard \o res.parts, phase, length, table)
         /\ heard \o res.parts \in Seq(Part)
         /\ res.st \in StreamType /\ res.raised # "error"
      BY <1>1, TracksResumed
<1>3. CASE /\ res.raised = "error" /\ res.st = st /\ st.frame.type = "push_promise"
           /\ st.frame.need \in PromiseNeeds /\ st.frame.need > from
      BY <1>1, <1>3 DEF PromiseWaits, st, from
<1>4. CASE /\ Tracks(s, res.st, w, f, told, heard \o res.parts, phase, length, table)
           /\ heard \o res.parts \in Seq(Part)
           /\ res.st \in StreamType /\ res.raised # "error"
      BY <1>4 DEF w, f, told, heard, phase, length
<1>5. QED BY <1>2, <1>3, <1>4

\* What the encoder's instructions unblock is reported, unless a promise waited for them.
LEMMA ReceiveEncoderInv ==
    ASSUME IInv, NEW count \in 1..MaxInserts, ReceiveEncoder(count)
    PROVE  IInv' /\ (is_done' => \E s \in Streams : PromiseWaits(s))
<1> DEFINE table == inserts_received + count
           U == Unblocked(table)
           resumed == [s \in U |-> Resume(stream[s], table)]
<1>1. /\ Types /\ Undeclared /\ Unopened /\ Tracked
      /\ \A t \in Streams : Follows(t)
      BY DEF IInv
<1>2. /\ ~is_done
      /\ inserts_received' = table
      /\ stream' = [s \in Streams |-> IF s \in U THEN resumed[s].st ELSE stream[s]]
      /\ is_done' = (\E s \in U : resumed[s].raised = "error")
      /\ seen' = IF is_done' THEN seen
                 ELSE [s \in Streams |-> IF s \in U THEN seen[s] \o resumed[s].parts
                                         ELSE seen[s]]
      /\ UNCHANGED <<serverVars, controlVars>>
      BY DEF ReceiveEncoder
<1>3. /\ wire' = wire /\ fin' = fin /\ sent' = sent /\ declared' = declared
      /\ headers_send_state' = headers_send_state /\ next_push_id' = next_push_id
      /\ inserts' = inserts
      BY <1>2 DEF serverVars
<1>4. table \in Nat /\ inserts_received \in Nat
      BY <1>1, BoundsAssumption DEF Types
<1>5. U = {s \in Streams : stream[s].blocked /\ stream[s].need =< table}
      BY DEF Unblocked
<1> HIDE DEF U, table
<1>6. ASSUME NEW s \in U
      PROVE  /\ s \in Streams /\ IsOpen(s) /\ resumed[s] = Resume(stream[s], table)
             /\ \/ /\ resumed[s].raised = "error" /\ resumed[s].st = stream[s]
                   /\ PromiseWaits(s)
                \/ /\ Tracks(s, resumed[s].st, wire[s], fin[s], sent[s],
                             seen[s] \o resumed[s].parts, headers_send_state[s],
                             declared[s], table)
                   /\ seen[s] \o resumed[s].parts \in Seq(Part)
                   /\ resumed[s].st \in StreamType /\ resumed[s].raised # "error"
  <2>1. s \in Streams /\ stream[s].blocked /\ stream[s].need =< table
        BY <1>5
  <2>2. IsOpen(s)
        BY <1>1, <2>1, UnopenedQuiet
  <2>3. resumed[s] = Resume(stream[s], table)
        OBVIOUS
  <2> DEFINE res == resumed[s]
  <2> HIDE DEF resumed
  <2>4. res = Resume(stream[s], table)
        BY <2>3
  <2> HIDE DEF res
  <2>5. \/ res.raised = "error" /\ res.st = stream[s] /\ PromiseWaits(s)
        \/ /\ Tracks(s, res.st, wire[s], fin[s], sent[s], seen[s] \o res.parts,
                     headers_send_state[s], declared[s], table)
           /\ seen[s] \o res.parts \in Seq(Part)
           /\ res.st \in StreamType /\ res.raised # "error"
        BY <1>1, <1>2, <1>4, <2>1, <2>2, <2>4, StreamResumed
  <2>6. QED BY <2>1, <2>2, <2>3, <2>5 DEF res
<1> HIDE DEF resumed
<1>7. is_done' => \E s \in Streams : PromiseWaits(s)
      BY <1>2, <1>6
<1>8. ASSUME NEW s \in Streams PROVE stream'[s] \in StreamType /\ seen'[s] \in Seq(Part)
  <2>1. stream[s] \in StreamType /\ seen[s] \in Seq(Part)
        BY <1>1 DEF Types
  <2>2. CASE s \in U
    <3>1. stream'[s] = resumed[s].st
          BY <1>2, <2>2
    <3>2. stream'[s] \in StreamType
          BY <1>6, <2>1, <2>2, <3>1
    <3>3. CASE is_done'
          BY <1>2, <2>1, <3>2, <3>3
    <3>4. CASE ~is_done'
      <4>1. resumed[s].raised # "error"
            BY <1>2, <2>2, <3>4
      <4>2. seen[s] \o resumed[s].parts \in Seq(Part)
            BY <1>6, <2>2, <4>1
      <4>3. seen'[s] = seen[s] \o resumed[s].parts
            BY <1>2, <2>2, <3>4
      <4>4. QED BY <3>2, <4>2, <4>3
    <3>5. QED BY <3>3, <3>4
  <2>3. CASE s \notin U
        BY <1>2, <2>1, <2>3
  <2>4. QED BY <2>2, <2>3
<1>9. Types'
  <2>1. /\ stream' = [s \in Streams |-> stream'[s]]
        /\ seen' = [s \in Streams |-> seen'[s]]
    <3>1. seen = [s \in Streams |-> seen[s]]
          BY <1>1 DEF Types
    <3>2. CASE is_done'
          BY <1>2, <3>1, <3>2
    <3>3. CASE ~is_done'
          BY <1>2, <3>3
    <3>4. QED BY <1>2, <3>2, <3>3
  <2>2. stream' \in [Streams -> StreamType] /\ seen' \in [Streams -> Seq(Part)]
        BY <1>8, <2>1
  <2>3. is_done' \in BOOLEAN
        BY <1>2
  <2>4. QED BY <1>1, <1>2, <1>3, <1>4, <2>2, <2>3 DEF Types
<1>10. Undeclared'
       BY <1>1, <1>3 DEF Undeclared
<1>11. Unopened'
  <2>1. SUFFICES ASSUME next_push_id' = 0 PROVE Unopened'
        BY DEF Unopened
  <2>2. "push" \in Streams /\ next_push_id = 0 /\ ~IsOpen("push")
        BY <1>3, <2>1 DEF Streams, IsOpen
  <2>3. "push" \notin U
        BY <1>6, <2>2
  <2>4. stream'["push"] = stream["push"] /\ seen'["push"] = seen["push"]
        BY <1>2, <2>2, <2>3
  <2>5. QED BY <1>1, <1>3, <2>2, <2>4 DEF Unopened
<1>12. ASSUME ~is_done', NEW s \in Streams, IsOpen(s)' PROVE StreamTracked(s)'
  <2>1. CASE s \in U
    <3>1. resumed[s].raised # "error"
          BY <1>2, <1>12, <2>1
    <3>2. Tracks(s, resumed[s].st, wire[s], fin[s], sent[s], seen[s] \o resumed[s].parts,
                 headers_send_state[s], declared[s], table)
          BY <1>6, <2>1, <3>1
    <3>3. stream'[s] = resumed[s].st /\ seen'[s] = seen[s] \o resumed[s].parts
          BY <1>2, <1>12, <2>1
    <3>4. QED BY <1>2, <1>3, <3>2, <3>3 DEF StreamTracked
  <2>2. CASE s \notin U
    <3>1. stream'[s] = stream[s] /\ seen'[s] = seen[s]
          BY <1>2, <2>2
    <3>2. ~(stream[s].blocked /\ stream[s].need =< table)
          BY <1>5, <2>2
    <3> DEFINE st == stream[s]
               w == wire[s]
               f == fin[s]
               told == sent[s]
               heard == seen[s]
               phase == headers_send_state[s]
               length == declared[s]
               from == inserts_received
    <3>3. /\ Tracks(s, st, w, f, told, heard, phase, length, from)
          /\ st \in StreamType /\ ~(st.blocked /\ st.need =< table)
          BY <1>1, <1>2, <1>3, <1>12, <3>2 DEF Tracked, StreamTracked, IsOpen, Types
    <3> HIDE DEF st, w, f, told, heard, phase, length, from
    <3>4. Tracks(s, st, w, f, told, heard, phase, length, table)
          BY <1>4, <3>3, TracksLater
    <3>5. QED BY <1>2, <1>3, <3>1, <3>4
              DEF StreamTracked, st, w, f, told, heard, phase, length
  <2>3. QED BY <2>1, <2>2
<1>13. ASSUME NEW s \in Streams PROVE Follows(s)'
  <2>1. CASE s \in U /\ ~is_done'
    <3>1. resumed[s].raised # "error"
          BY <1>2, <2>1
    <3>2. /\ Tracks(s, resumed[s].st, wire[s], fin[s], sent[s], seen[s] \o resumed[s].parts,
                    headers_send_state[s], declared[s], table)
          /\ seen[s] \o resumed[s].parts \in Seq(Part)
          BY <1>6, <2>1, <3>1
    <3>3. fin[s] \in {"none", "sent", "arrived"}
          BY <1>1 DEF Types
    <3> DEFINE h == seen[s] \o resumed[s].parts
               o == resumed[s].st
               w == wire[s]
               f == fin[s]
               told == sent[s]
               phase == headers_send_state[s]
               length == declared[s]
    <3>4. Tracks(s, o, w, f, told, h, phase, length, table) /\ h \in Seq(Part)
          /\ f \in {"none", "sent", "arrived"}
          BY <3>2, <3>3
    <3> HIDE DEF h, o, w, f, told, phase, length
    <3>5. Begins(h, told)
          BY <3>4, TracksFollows
    <3>6. seen'[s] = h
          BY <1>2, <2>1 DEF h
    <3>7. QED BY <1>3, <3>5, <3>6 DEF Follows, told
  <2>2. CASE s \notin U \/ is_done'
    <3>1. seen'[s] = seen[s]
          BY <1>2, <2>2
    <3>2. QED BY <1>1, <1>3, <3>1 DEF Follows
  <2>3. QED BY <2>1, <2>2
<1>14. Tracked'
       BY <1>12 DEF Tracked
<1>15. QED BY <1>7, <1>9, <1>10, <1>11, <1>13, <1>14 DEF IInv

\* What the invariant does not read may change.
LEMMA OthersInv ==
    ASSUME IInv, UNCHANGED <<serverVars, clientVars>>
    PROVE  IInv'
BY DEF IInv, Types, Undeclared, Unopened, Follows, Tracked, StreamTracked, IsOpen,
       serverVars, clientVars

-----------------------------------------------------------------------------
(* The theorems.                                                           *)

\* Every step keeps the invariant, and only a promise that waits makes an error.
LEMMA NextInv ==
    ASSUME IInv, [Next]_vars
    PROVE  IInv' /\ (is_done' => is_done \/ \E s \in Streams : PromiseWaits(s))
<1>1. ASSUME NEW s \in Streams, NEW end \in BOOLEAN, SendHeaders(s, end)
      PROVE  IInv' /\ is_done' = is_done
      BY <1>1, SendHeadersInv DEF SendHeaders, clientVars
<1>2. ASSUME NEW s \in Streams, NEW end \in BOOLEAN, SendTrailers(s, end)
      PROVE  IInv' /\ is_done' = is_done
      BY <1>2, SendTrailersInv DEF SendTrailers, clientVars
<1>3. ASSUME NEW s \in Streams, NEW end \in BOOLEAN, SendData(s, end)
      PROVE  IInv' /\ is_done' = is_done
      BY <1>3, SendDataInv DEF SendData, clientVars
<1>4. ASSUME NEW s \in Streams, NEW end \in BOOLEAN, SendReserved(s, end)
      PROVE  IInv' /\ is_done' = is_done
      BY <1>4, SendReservedInv DEF SendReserved, clientVars
<1>5. CASE send_push_promise
      BY <1>5, PromiseInv DEF send_push_promise, clientVars
<1>6. ASSUME NEW s \in Streams, NEW count \in 0..Len(wire[s]), NEW end \in BOOLEAN,
             ReceiveStream(s, count, end)
      PROVE  IInv' /\ ~is_done'
      BY <1>6, ReceiveStreamInv
<1>7. ASSUME NEW count \in 1..MaxInserts, ReceiveEncoder(count)
      PROVE  IInv' /\ (is_done' => \E s \in Streams : PromiseWaits(s))
      BY <1>7, ReceiveEncoderInv
<1>8. ASSUME NEW end \in {"client", "server"}, ReceiveControl(end)
      PROVE  IInv' /\ is_done' = is_done
      BY <1>8, OthersInv DEF ReceiveControl, clientVars
<1>9. CASE UNCHANGED vars
      BY <1>9, OthersInv DEF vars, clientVars
<1>10. QED BY <1>1, <1>2, <1>3, <1>4, <1>5, <1>6, <1>7, <1>8, <1>9 DEF Next

\* A sequence that another begins with is its prefix.
LEMMA BeginsWithPrefix ==
    ASSUME NEW h \in Seq(Part), NEW told, Begins(h, told)
    PROVE  IsPrefix(h, told)
<1> DEFINE n == Len(h)
<1>1. PICK r \in Seq(Part) : told = h \o r
      BY DEF Begins
<1>2. /\ told \in Seq(Part) /\ Len(told) = n + Len(r)
      /\ \A i \in 1..(n + Len(r)) : told[i] = IF i <= n THEN h[i] ELSE r[i - n]
      BY <1>1, ConcatProperties
<1>3. n \in Nat /\ Len(r) \in Nat
      BY LenProperties
<1>4. n \in 0..Len(told) /\ n <= Len(told) /\ n \in 0..n
      BY <1>2, <1>3
<1> DEFINE a == SubSeq(h, 1, n)
           b == SubSeq(told, 1, n)
<1>5. a = h
      BY SubSeqFull
<1>6. b \in Seq(Part) /\ Len(b) = n /\ b \o Drop(told, n) = told
      BY <1>2, <1>4, TakeAndDrop
<1> HIDE DEF n, b
<1>7. Drop(told, n) \in Seq(Part)
      BY <1>2, <1>4, DropItems
<1>8. \A i \in 1..n : b[i] = h[i]
  <2> DEFINE d == Drop(told, n)
  <2> HIDE DEF d
  <2>1. d \in Seq(Part) /\ Len(d) \in Nat /\ told = b \o d
        BY <1>6, <1>7, LenProperties DEF d
  <2>2. \A i \in 1..(Len(b) + Len(d)) :
            (b \o d)[i] = IF i <= Len(b) THEN b[i] ELSE d[i - Len(b)]
        BY <1>6, <2>1, ConcatProperties
  <2>3. SUFFICES ASSUME NEW i \in 1..n PROVE b[i] = h[i]
        OBVIOUS
  <2>4. i <= n /\ i \in 1..(n + Len(d)) /\ i \in 1..(n + Len(r))
        BY <1>3, <2>1
  <2>5. told[i] = b[i]
        BY <1>6, <2>1, <2>2, <2>4
  <2>6. told[i] = h[i]
        BY <1>2, <2>4
  <2>7. QED BY <2>5, <2>6
<1>9. Len(h) = n
      BY DEF n
<1>10. b = h
       BY <1>6, <1>8, <1>9, SeqEqual
<1>11. QED BY <1>4, <1>5, <1>10 DEF IsPrefix, n, b

\* What the invariant says of the events, and of a connection without an error.
LEMMA InvProperties ==
    ASSUME IInv
    PROVE  /\ EventsFollowMessage
           /\ ~is_done => BlockedForInserts /\ AllIsReported
<1>1. Types /\ Unopened /\ Tracked /\ \A s \in Streams : Follows(s)
      BY DEF IInv
<1>2. ASSUME NEW s \in Streams PROVE IsPrefix(seen[s], sent[s])
  <2>1. seen[s] \in Seq(Part) /\ Begins(seen[s], sent[s])
        BY <1>1 DEF Types, Follows
  <2>2. QED BY <2>1, BeginsWithPrefix
<1>3. ASSUME ~is_done, NEW s \in Streams, stream[s].blocked
      PROVE  stream[s].need > inserts_received
  <2>1. IsOpen(s)
        BY <1>1, <1>3, UnopenedQuiet
  <2>2. AtRest(stream[s], inserts_received)
        BY <1>1, <1>3, <2>1 DEF Tracked, StreamTracked, Tracks
  <2>3. QED BY <1>3, <2>2 DEF AtRest
<1>4. ASSUME ~is_done, NEW s \in Streams, fin[s] = "arrived", ~stream[s].blocked
      PROVE  \/ seen[s] = sent[s]
             \/ EndIsSilent(s) /\ Append(seen[s], "end") = sent[s]
  <2> DEFINE st == stream[s]
             h == seen[s]
             e == <<"end">>
  <2>1. IsOpen(s)
        BY <1>1, <1>4, UnopenedQuiet
  <2>2. PICK last \in Kind, q \in Seq(Part) :
            /\ Stage(s, st, wire[s], Progress(headers_send_state[s], sent[s], declared[s],
                                              last), q)
            /\ AtRest(st, inserts_received)
            /\ Account(fin[s], st, sent[s], h, q)
            /\ fin[s] = "arrived" => wire[s] = << >>
        BY <1>1, <1>4, <2>1 DEF Tracked, StreamTracked, Tracks
  <2>3. /\ st \in StreamType /\ h \in Seq(Part) /\ sent[s] \in Seq(Part)
        /\ headers_send_state[s] \in HeadersState /\ declared[s] \in Length
        BY <1>1 DEF Types
  <2> DEFINE y == Progress(headers_send_state[s], sent[s], declared[s], last)
  <2>4. y \in MessageType
        BY <2>3, ProgressTypes
  <2> HIDE DEF st, h, y
  <2>5. Stage(s, st, << >>, y, q)
        BY <1>4, <2>2 DEF y
  <2>6. q = << >>
        BY <1>4, <2>2, <2>3, <2>4, <2>5, AllRead DEF st
  <2>7. h \o q = h
        BY <2>3, <2>6, ConcatEmptySeq
  <2>8. \/ sent[s] = h \o e /\ st.frame.type = "reserved"
        \/ sent[s] = h
        BY <1>4, <2>2, <2>7 DEF Account, st
  <2>9. "end" \in Part
        BY DEF Part
  <2> HIDE DEF e
  <2>10. Append(h, "end") = h \o e
         BY <2>3, <2>9, AppendIsConcat DEF e
  <2>11. QED BY <2>8, <2>10 DEF EndIsSilent, st, h
<1>5. QED BY <1>2, <1>3, <1>4 DEF EventsFollowMessage, BlockedForInserts, AllIsReported

\* The client follows each stream: what it has still to read are the frames that take the
\* message from what it has counted to what the server has written.
THEOREM MessagesTracked == Spec => []IInv
<1>1. Init => IInv
      BY InitInv
<1>2. IInv /\ [Next]_vars => IInv'
      BY NextInv
<1>3. QED BY <1>1, <1>2, PTL DEF Spec

\* The events of a stream are what was sent on it, in that order, once, even when a promise
\* ends the connection.
THEOREM EventsFollow == Spec => []EventsFollowMessage
<1>1. IInv => EventsFollowMessage
      BY InvProperties
<1>2. QED BY <1>1, MessagesTracked, PTL

\* As long as the connection is open a stream is blocked only for want of instructions, and
\* one that has come whole has been reported.
THEOREM OpenConnectionReports == Spec => [](~is_done => BlockedForInserts /\ AllIsReported)
<1>1. IInv => (~is_done => BlockedForInserts /\ AllIsReported)
      BY InvProperties
<1>2. QED BY <1>1, MessagesTracked, PTL

\* The only message in which the client finds a protocol error has a promise whose block
\* waited for instructions of the encoder.
THEOREM OnlyPromisesFail ==
    Spec => [][is_done' => is_done \/ \E s \in Streams : PromiseWaits(s)]_vars
<1>1. IInv /\ [Next]_vars => (is_done' => is_done \/ \E s \in Streams : PromiseWaits(s))
      BY NextInv
<1>2. QED BY <1>1, MessagesTracked, PTL DEF Spec

\* When no promise needs an instruction, the client finds no protocol error.
LEMMA NoErrorStep ==
    ASSUME PromiseNeeds \subseteq {0}, IInv, ~is_done, [Next]_vars
    PROVE  ~is_done'
<1>1. ASSUME NEW s \in Streams, PromiseWaits(s) PROVE FALSE
  <2>1. stream[s].frame.need = 0 /\ inserts_received \in Nat
        BY <1>1 DEF PromiseWaits, IInv, Types
  <2>2. QED BY <1>1, <2>1 DEF PromiseWaits
<1>2. QED BY <1>1, NextInv

\* However the streams are cut and interleaved: without an error.
THEOREM NoError ==
    ASSUME PromiseNeeds \subseteq {0}
    PROVE  Spec => []NoProtocolError
<1>1. Init => NoProtocolError
      BY DEF Init, NoProtocolError
<1>2. IInv /\ NoProtocolError /\ [Next]_vars => NoProtocolError'
      BY NoErrorStep DEF NoProtocolError
<1>3. QED BY <1>1, <1>2, MessagesTracked, PTL DEF Spec

\* Then a stream is only ever blocked for want of instructions.
THEOREM BlockedStreamsWait ==
    ASSUME PromiseNeeds \subseteq {0}
    PROVE  Spec => []BlockedForInserts
<1>1. NoProtocolError => ~is_done
      BY DEF NoProtocolError
<1>2. QED BY <1>1, NoError, OpenConnectionReports, PTL

\* And the application is told all that has come, but for an end after a reserved frame.
THEOREM AllReported ==
    ASSUME PromiseNeeds \subseteq {0}
    PROVE  Spec => []AllIsReported
<1>1. NoProtocolError => ~is_done
      BY DEF NoProtocolError
<1>2. QED BY <1>1, NoError, OpenConnectionReports, PTL

=============================================================================
