------------------------- MODULE ConnectionIds_proofs ------------------------
(***************************************************************************)
(* Proofs about ConnectionIds.tla, for every limit, any addresses and      *)
(* every way in which packets are lost, repeated and reordered: the ends   *)
(* agree on the IDs, the server's table follows them, and the path in use  *)
(* is that of the newest packet.                                           *)
(***************************************************************************)
EXTENDS ConnectionIds, FoldLemmas, SequenceTheorems

Place == Addresses \cup {"server"}

PathType == [addr : Place, is_validated : BOOLEAN, local_challenge_sent : BOOLEAN,
             remote_challenges : Seq(Place)]

SentType == [pn : Nat, new_cids : SUBSET Nat, retired : Seq(Nat)]

EventType == {"issued", "retired", "terminated"} \X Nat

State == [host_cids : SUBSET Nat, unsent : SUBSET Nat, host_cid_seq : Nat,
          host_cid : Nat, peer_cid : Nat, peer_cid_available : Seq(Nat),
          peer_cid_sequence_numbers : SUBSET Nat, retire_connection_ids : Seq(Nat),
          network_paths : Seq(PathType), local_challenges : SUBSET Place,
          largest_received_packet : Int, received : SUBSET Nat, ack_at : BOOLEAN,
          probe_pending : BOOLEAN, packet_number : Nat, sent_packets : SUBSET SentType,
          events : Seq(EventType), terminated : BOOLEAN, failed : Reason]

PacketType == [from : End, pn : Nat, dcid : Nat, addr : Place, ack : SUBSET Nat,
               challenge : Place \cup {None}, responses : Seq(Place),
               new_cids : SUBSET Nat, retired : Seq(Nat), data : BOOLEAN]

-----------------------------------------------------------------------------
(* What holds of the connection of one end.                                *)

\* The IDs of its own: so many as the limit allows, all of them issued.
OwnIds(s) ==
    /\ s.host_cids \subseteq 0..(s.host_cid_seq - 1)
    /\ Cardinality(s.host_cids) = Limit
    /\ s.unsent \subseteq s.host_cids

\* The IDs of the peer that it knows and will not use again.
Gone(s) ==
    s.peer_cid_sequence_numbers \ ({s.peer_cid} \cup Range(s.peer_cid_available))

\* An ID is retired once: it waits, or it is in one packet whose fate is not known.
RetiredOnce(s) ==
    /\ IsInjective(s.retire_connection_ids)
    /\ \A q \in s.sent_packets :
           IsInjective(q.retired) /\ Range(q.retired) \cap Range(s.retire_connection_ids) = {}
    /\ \A q, r \in s.sent_packets : q # r => Range(q.retired) \cap Range(r.retired) = {}

\* The IDs of the peer: only such are retired, in frames that wait or are under way.
PeerIds(s) ==
    /\ {s.peer_cid} \cup Range(s.peer_cid_available) \subseteq s.peer_cid_sequence_numbers
    /\ s.peer_cid \notin Range(s.peer_cid_available)
    /\ IsInjective(s.peer_cid_available)
    /\ Range(s.retire_connection_ids) \subseteq Gone(s)
    /\ IsFiniteSet(s.peer_cid_sequence_numbers)
    /\ IsFiniteSet(s.sent_packets)
    /\ \A q \in s.sent_packets : Range(q.retired) \subseteq Gone(s)
    /\ RetiredOnce(s)

\* The errors that an end may find: too many IDs wait to be retired only if more have
\* been given up than may.
FailedWell(s) ==
    \/ s.failed \in {None, "response"}
    \/ s.failed = "pending" /\ Cardinality(Gone(s)) > MaxPending

\* The paths: a challenge that is out was sent on one of them.
Paths(s) ==
    /\ s.network_paths # << >>
    /\ \A c \in s.local_challenges : \E i \in DOMAIN s.network_paths :
           s.network_paths[i].addr = c

\* What one end knows of the other's IDs is true: they were issued, and the other has
\* kept all but those that are gone.
Agree(s, other) ==
    /\ s.peer_cid_sequence_numbers \subseteq 0..(other.host_cid_seq - 1)
    /\ (0..(other.host_cid_seq - 1)) \ Gone(s) \subseteq other.host_cids

\* Where the client had a challenge: it answers no other, and no other address is
\* validated.
Challenged(x, s, seen) ==
    /\ x = "client" => \A i \in DOMAIN s.network_paths :
           Range(s.network_paths[i].remote_challenges) \subseteq seen
    /\ x = "server" => \A i \in DOMAIN s.network_paths :
           s.network_paths[i].is_validated => s.network_paths[i].addr \in {Home} \cup seen

\* The table that leads to the server's connection, when the events that wait are taken.
TableOf(x, s, table) ==
    x = "server" /\ ~s.terminated =>
        /\ s.host_cids \ s.unsent \subseteq _process_events(table, s.events)
        /\ _process_events(table, s.events) \subseteq s.host_cids

\* All of it.
Sound(x, s, other, seen, table) ==
    /\ s \in State
    /\ FailedWell(s)
    /\ OwnIds(s) /\ PeerIds(s) /\ Paths(s)
    /\ Agree(s, other) /\ Agree(other, s)
    /\ Challenged(x, s, seen)
    /\ TableOf(x, s, table)

-----------------------------------------------------------------------------
(* What holds of the packets.                                              *)

\* A packet under way: what it retires is gone, its own ID is not among that, what it
\* issues was issued, the server sends a challenge where it asks, and the client answers
\* only challenges that it had.
PacketOK(p, st, seen) ==
    /\ p.pn < st.packet_number
    /\ Range(p.retired) \subseteq Gone(st)
    /\ p.dcid \notin Range(p.retired)
    /\ p.new_cids \subseteq 0..(st.host_cid_seq - 1)
    /\ p.from = "server" /\ p.challenge # None => p.challenge = p.addr
    /\ p.from = "client" => Range(p.responses) \subseteq seen

\* The newest packet of the client that the server received, unless it was a probe.
NewestFollowed ==
    LET largest == conn["server"].largest_received_packet
    IN  /\ history.newest.pn <= largest
        /\ largest < conn["client"].packet_number
        /\ largest = history.newest.pn
               => Head(conn["server"].network_paths).addr = history.newest.addr
        /\ \A p \in net : p.from = "client" /\ p.pn = largest /\ ~IsProbing(p)
                              => history.newest.pn = largest

\* The inductive invariant.
IdsInv ==
    /\ conn \in [End -> State]
    /\ address \in Addresses
    /\ net \subseteq PacketType
    /\ routes \subseteq Nat
    /\ history \in [challenged : SUBSET Addresses, newest : [pn : Int, addr : Place]]
    /\ \A x \in End : Sound(x, conn[x], conn[Other(x)], history.challenged, routes)
    /\ conn["server"].terminated => routes = {}
    /\ \A p \in net : PacketOK(p, conn[p.from], history.challenged)
    /\ \A p, q \in net : p.from = q.from /\ p.pn = q.pn => p = q
    /\ NewestFollowed

-----------------------------------------------------------------------------
(* Ends, sequences and sets.                                               *)

\* There are two ends, and each is the other of the other.
LEMMA OtherEnd ==
    \A x \in End : Other(x) \in End /\ Other(x) # x /\ Other(Other(x)) = x
<1>1. \A x \in End : \E y \in End : y # x
      BY DEF End
<1>2. \A x \in End : Other(x) \in End /\ Other(x) # x
      BY <1>1 DEF Other
<1>3. \A x, y, z \in End : x # y /\ z # y => x = z
      BY DEF End
<1>4. QED BY <1>2, <1>3

\* What one item more, or one fewer in front, does to the range of a sequence.
LEMMA RangeOfAppend ==
    ASSUME NEW S, NEW s \in Seq(S), NEW e \in S
    PROVE  Range(Append(s, e)) = Range(s) \cup {e}
<1>1. /\ Append(s, e) = s \o <<e>>
      /\ <<e>> \in Seq(S)
      BY AppendIsConcat
<1>2. Range(<<e>>) = {e}
      BY DEF Range
<1> DEFINE one == <<e>>
<1>3. one \in Seq(S)
      BY <1>1
<1> HIDE DEF one
<1>4. Range(s \o one) = Range(s) \cup Range(one)
      BY <1>3, RangeConcatenation
<1>5. QED BY <1>1, <1>2, <1>4 DEF one

\* The range of a sequence is its head and the range of its tail.
LEMMA RangeOfTail ==
    ASSUME NEW S, NEW s \in Seq(S), s # << >>
    PROVE  Range(s) = {Head(s)} \cup Range(Tail(s))
<1>1. Head(s) = s[1] /\ 1 \in DOMAIN s /\ DOMAIN s = 1..Len(s) /\ Len(s) \in Nat
      BY EmptySeq, LenProperties
<1>2. /\ Tail(s) \in Seq(S) /\ Len(Tail(s)) = Len(s) - 1
      /\ \A i \in 1..Len(Tail(s)) : Tail(s)[i] = s[i + 1]
      BY HeadTailProperties
<1>3. DOMAIN Tail(s) = 1..(Len(s) - 1)
      BY <1>2, LenProperties
<1>4. ASSUME NEW i \in DOMAIN s, i # 1 PROVE \E j \in DOMAIN Tail(s) : Tail(s)[j] = s[i]
  <2>1. i - 1 \in DOMAIN Tail(s) /\ (i - 1) + 1 = i
        BY <1>1, <1>3, <1>4
  <2>2. QED BY <1>2, <1>3, <2>1
<1>5. ASSUME NEW j \in DOMAIN Tail(s) PROVE j + 1 \in DOMAIN s /\ Tail(s)[j] = s[j + 1]
      BY <1>1, <1>2, <1>3
<1>6. QED BY <1>1, <1>4, <1>5 DEF Range

\* Without repetition, what is in front does not come again.
LEMMA TailOfInjective ==
    ASSUME NEW S, NEW s \in Seq(S), s # << >>, IsInjective(s)
    PROVE  Head(s) \notin Range(Tail(s)) /\ IsInjective(Tail(s))
<1>1. Head(s) = s[1] /\ 1 \in DOMAIN s /\ DOMAIN s = 1..Len(s) /\ Len(s) \in Nat
      BY EmptySeq, LenProperties
<1>2. /\ DOMAIN Tail(s) = 1..(Len(s) - 1)
      /\ \A i \in 1..(Len(s) - 1) : Tail(s)[i] = s[i + 1]
      BY HeadTailProperties, LenProperties
<1>3. ASSUME NEW i \in 1..(Len(s) - 1) PROVE Tail(s)[i] # s[1]
  <2>1. i + 1 \in DOMAIN s /\ i + 1 # 1
        BY <1>1
  <2>2. s[i + 1] # s[1]
        BY <1>1, <2>1 DEF IsInjective
  <2>3. QED BY <1>2, <2>2
<1>4. ASSUME NEW i \in 1..(Len(s) - 1), NEW j \in 1..(Len(s) - 1), Tail(s)[i] = Tail(s)[j]
      PROVE  i = j
  <2>1. i + 1 \in DOMAIN s /\ j + 1 \in DOMAIN s
        BY <1>1
  <2>2. s[i + 1] = s[j + 1]
        BY <1>2, <1>4
  <2>3. i + 1 = j + 1
        BY <2>1, <2>2 DEF IsInjective
  <2>4. QED BY <2>3
<1>5. QED BY <1>1, <1>2, <1>3, <1>4 DEF Range, IsInjective

\* With one more at the end that was not in it, it is still without repetition.
LEMMA AppendOnce ==
    ASSUME NEW S, NEW s \in Seq(S), NEW e \in S, IsInjective(s), e \notin Range(s)
    PROVE  IsInjective(Append(s, e))
<1> DEFINE n == Len(s)
           more == Append(s, e)
<1>1. n \in Nat /\ DOMAIN s = 1..n
      BY LenProperties
<1>2. /\ DOMAIN more = 1..(n + 1)
      /\ \A i \in 1..n : more[i] = s[i]
      /\ more[n + 1] = e
  <2>1. /\ more \in Seq(S) /\ Len(more) = n + 1
        /\ \A i \in 1..n : more[i] = s[i]
        /\ more[n + 1] = e
        BY AppendProperties
  <2> HIDE DEF more, n
  <2>2. QED BY <2>1, LenProperties
<1>3. \A i \in 1..n : s[i] \in Range(s)
      BY <1>1 DEF Range
<1> HIDE DEF more, n
<1>4. \A i \in 1..(n + 1) : i \in 1..n \/ i = n + 1
      BY <1>1
<1>5. \A i, j \in 1..n : s[i] = s[j] => i = j
      BY <1>1 DEF IsInjective
<1>6. IsInjective(more)
      BY <1>2, <1>3, <1>4, <1>5 DEF IsInjective
<1>7. QED BY <1>6 DEF more

\* A sequence without repetition has as many items as it has different ones.
LEMMA LengthOfInjective ==
    ASSUME NEW S, NEW s \in Seq(S), IsInjective(s)
    PROVE  IsFiniteSet(Range(s)) /\ Cardinality(Range(s)) = Len(s)
<1>1. Len(s) \in Nat /\ DOMAIN s = 1..Len(s) /\ s \in [1..Len(s) -> Range(s)]
      BY LenProperties DEF Range
<1>2. IsFiniteSet(1..Len(s)) /\ Cardinality(1..Len(s)) = Len(s)
      BY <1>1, FS_Interval
<1> DEFINE n == Len(s)
<1>3. n \in Nat /\ DOMAIN s = 1..n /\ s \in [1..n -> Range(s)]
      BY <1>1
<1> HIDE DEF n
<1>4. s \in Surjection(1..n, Range(s))
      BY <1>3 DEF Surjection, Range
<1>5. s \in Injection(1..n, Range(s))
      BY <1>3 DEF Injection, IsInjective
<1>6. IsFiniteSet(1..n) /\ Cardinality(1..n) = n
      BY <1>2 DEF n
<1>7. IsFiniteSet(Range(s)) /\ Cardinality(Range(s)) = n
      BY <1>4, <1>5, <1>6, FS_Surjection
<1>8. QED BY <1>7 DEF n

\* One after the other, two sequences without repetition that share nothing are one without.
LEMMA ConcatOnce ==
    ASSUME NEW S, NEW a \in Seq(S), NEW b \in Seq(S), IsInjective(a), IsInjective(b),
           Range(a) \cap Range(b) = {}
    PROVE  IsInjective(a \o b)
<1> DEFINE m == Len(a)
           n == Len(b)
           c == a \o b
<1>1. m \in Nat /\ n \in Nat /\ DOMAIN a = 1..m /\ DOMAIN b = 1..n
      BY LenProperties
<1>2. /\ DOMAIN c = 1..(m + n)
      /\ \A i \in 1..(m + n) : c[i] = IF i <= m THEN a[i] ELSE b[i - m]
  <2>1. c \in Seq(S) /\ Len(c) = m + n
        BY ConcatProperties
  <2>2. \A i \in 1..(m + n) : c[i] = IF i <= m THEN a[i] ELSE b[i - m]
        BY ConcatProperties
  <2> HIDE DEF c, m, n
  <2>3. QED BY <2>1, <2>2, LenProperties
<1> HIDE DEF c, m, n
<1>3. ASSUME NEW i \in 1..(m + n)
      PROVE  \/ i \in 1..m /\ c[i] = a[i]
             \/ i - m \in 1..n /\ ~(i <= m) /\ c[i] = b[i - m]
      BY <1>1, <1>2
<1>4. \A i \in 1..m : a[i] \in Range(a)
      BY <1>1 DEF Range
<1>5. \A i \in 1..n : b[i] \in Range(b)
      BY <1>1 DEF Range
<1>6. ASSUME NEW i \in 1..(m + n), NEW j \in 1..(m + n), c[i] = c[j] PROVE i = j
  <2>1. CASE i \in 1..m /\ c[i] = a[i] /\ j \in 1..m /\ c[j] = a[j]
        BY <1>1, <1>6, <2>1 DEF IsInjective
  <2>2. CASE i - m \in 1..n /\ c[i] = b[i - m] /\ j - m \in 1..n /\ c[j] = b[j - m]
    <3>1. i - m = j - m
          BY <1>1, <1>6, <2>2 DEF IsInjective
    <3>2. QED BY <1>1, <3>1
  <2>3. QED BY <1>3, <1>4, <1>5, <1>6, <2>1, <2>2
<1>7. QED BY <1>2, <1>6 DEF IsInjective, c

\* The order of a finite set of IDs has each of them.
LEMMA InOrderIs ==
    ASSUME NEW ids \in SUBSET Nat, IsFiniteSet(ids)
    PROVE  InOrder(ids) \in Seq(Nat) /\ Range(InOrder(ids)) = ids
<1> DEFINE Sorted(s) == \A i, j \in DOMAIN s : i < j => s[i] < s[j]
           Good == {r \in SUBSET ids : \E s \in [1..Cardinality(r) -> r] : Sorted(s)}
<1>1. {} \in Good
  <2>1. Cardinality({}) = 0 /\ 1..0 = {}
        BY FS_EmptySet
  <2> DEFINE s == [i \in {} |-> i]
  <2>2. s \in [1..Cardinality({}) -> {}] /\ Sorted(s)
        BY <2>1
  <2> HIDE DEF s, Sorted
  <2>3. QED BY <2>2
<1>2. ASSUME NEW r \in SUBSET ids, r # {}, \A x \in r : r \ {x} \in Good
      PROVE  r \in Good
  <2> DEFINE m == Max(r)
             n == Cardinality(r)
  <2>1. IsFiniteSet(r) /\ n \in Nat /\ r \in SUBSET Nat
        BY FS_Subset, FS_CardinalityType
  <2>2. m \in r /\ \A y \in r : y <= m
        BY <1>2, <2>1, MaxOfFinite
  <2>3. Cardinality(r \ {m}) = n - 1
        BY <2>1, <2>2, FS_RemoveElement
  <2>4. PICK s \in [1..(n - 1) -> r \ {m}] : Sorted(s)
        BY <1>2, <2>2, <2>3
  <2> HIDE DEF m, n
  <2> DEFINE g == [i \in 1..n |-> IF i = n THEN m ELSE s[i]]
  <2>5. \A i \in 1..n : i # n => i \in 1..(n - 1)
        BY <2>1
  <2>6. g \in [1..n -> r]
        BY <2>2, <2>5
  <2>7. ASSUME NEW i \in 1..n, NEW j \in 1..n, i < j PROVE g[i] < g[j]
    <3>1. i \in 1..(n - 1) /\ g[i] = s[i] /\ s[i] \in r /\ s[i] # m
          BY <2>1, <2>5, <2>7
    <3>2. CASE j = n
      <4>1. g[j] = m /\ s[i] <= m /\ s[i] \in Nat /\ m \in Nat
            BY <2>1, <2>2, <3>1, <3>2
      <4> HIDE DEF g
      <4>2. QED BY <3>1, <4>1
    <3>3. CASE j # n
      <4>1. j \in 1..(n - 1) /\ g[j] = s[j] /\ i \in DOMAIN s /\ j \in DOMAIN s
            BY <2>5, <3>1, <3>3
      <4>2. QED BY <2>4, <2>7, <3>1, <4>1
    <3>4. QED BY <3>2, <3>3
  <2>8. Sorted(g)
        BY <2>6, <2>7
  <2> HIDE DEF g, Sorted
  <2>9. QED BY <2>6, <2>8 DEF n
<1>3. ids \in Good
  <2> HIDE DEF Good
  <2>1. \A r \in SUBSET ids : r # {} /\ (\A x \in r : r \ {x} \in Good) => r \in Good
        BY <1>2
  <2>2. QED BY <1>1, <2>1, AllSubsets
<1> DEFINE n == Cardinality(ids)
           s == InOrder(ids)
<1>4. s \in [1..n -> ids] /\ Sorted(s)
      BY <1>3 DEF InOrder
<1>5. n \in Nat /\ IsFiniteSet(1..n) /\ Cardinality(1..n) = n
      BY FS_CardinalityType, FS_Interval
<1> HIDE DEF s
<1>6. s \in Injection(1..n, ids)
  <2> HIDE DEF n
  <2>1. ASSUME NEW i \in 1..n, NEW j \in 1..n, s[i] = s[j] PROVE i = j
    <3>1. s[i] \in Nat /\ i \in DOMAIN s /\ j \in DOMAIN s
          BY <1>4
    <3>2. ~(i < j) /\ ~(j < i)
          BY <1>4, <2>1, <3>1
    <3>3. QED BY <1>5, <3>2
  <2>2. QED BY <1>4, <2>1 DEF Injection, IsInjective
<1>7. s \in Surjection(1..n, ids)
  <2> HIDE DEF n
  <2>1. Cardinality(1..n) = Cardinality(ids)
        BY <1>5 DEF n
  <2>2. QED BY <1>6, <2>1, FS_Injection
<1>8. s \in Seq(Nat)
  <2> HIDE DEF n
  <2>1. s \in [1..n -> Nat]
        BY <1>4
  <2>2. QED BY <1>5, <2>1
<1>9. Range(s) = ids
      BY <1>4, <1>7 DEF Range, Surjection
<1>10. QED BY <1>8, <1>9 DEF s

-----------------------------------------------------------------------------
(* The server's table.                                                     *)

\* What each event makes of the table.
TakeStep(events) ==
    [x \in (1..Len(events)) \X SUBSET Nat |-> Take(x[2], events[x[1]])]

\* The tables on the way.
Tables(table, events) == Walks(Len(events), SUBSET Nat, table, TakeStep(events))

\* An event leaves a set of IDs.
LEMMA TakeType ==
    ASSUME NEW table \in SUBSET Nat, NEW event \in EventType
    PROVE  Take(table, event) \in SUBSET Nat
BY DEF Take, EventType

\* The same of one event of several.
LEMMA TakeStepType ==
    ASSUME NEW events \in Seq(EventType)
    PROVE  /\ TakeStep(events) \in [(1..Len(events)) \X SUBSET Nat -> SUBSET Nat]
           /\ \A i \in 1..Len(events) : \A t \in SUBSET Nat :
                  TakeStep(events)[<<i, t>>] = Take(t, events[i])
<1>1. \A i \in 1..Len(events) : \A t \in SUBSET Nat : Take(t, events[i]) \in SUBSET Nat
      BY TakeType
<1>2. \A x \in (1..Len(events)) \X SUBSET Nat : Take(x[2], events[x[1]]) \in SUBSET Nat
      BY <1>1
<1>3. QED BY <1>2 DEF TakeStep

\* Processing events is taking one after the other.
LEMMA ProcessWalks ==
    ASSUME NEW table \in SUBSET Nat, NEW events \in Seq(EventType)
    PROVE  \E h \in Tables(table, events) : _process_events(table, events) = h[Len(events)]
<1> DEFINE N == Len(events)
           V == SUBSET Nat
           step == TakeStep(events)
           Turn(it) == [s \in SUBSET (1..N) |->
                           IF s = {} THEN table
                           ELSE Take(it[s \ {Max(s)}], events[Max(s)])]
           it0 == CHOOSE it : it = Turn(it)
<1>1. N \in Nat /\ DOMAIN events = 1..N
      BY LenProperties
<1>2. _process_events(table, events) = it0[1..N]
  <2>1. FoldLeft(Take, table, events) = (CHOOSE it : it = [s \in SUBSET DOMAIN events |->
                IF s = {} THEN table
                ELSE Take(it[s \ {Max(s)}], events[Max(s)])])[DOMAIN events]
        BY DEF FoldLeft, MapThenFoldSet
  <2>2. QED BY <1>1, <2>1 DEF _process_events
<1>3. /\ step \in [(1..N) \X V -> V]
      /\ \A i \in 1..N, t \in V : step[<<i, t>>] = Take(t, events[i])
      BY TakeStepType
<1>4. PICK it \in [SUBSET (1..N) -> V] :
          it = [s \in SUBSET (1..N) |->
                   IF s = {} THEN table ELSE step[<<Max(s), it[s \ {Max(s)}]>>]]
  <2>1. table \in V
        OBVIOUS
  <2> HIDE DEF step, N, V
  <2>2. LeftIterations(N, V, table, step) # {}
        BY <1>1, <1>3, <2>1, LeftFoldExists
  <2>3. QED BY <2>2 DEF LeftIterations
<1>5. it = Turn(it)
  <2>1. ASSUME NEW s \in SUBSET (1..N), s # {}
        PROVE  step[<<Max(s), it[s \ {Max(s)}]>>] = Take(it[s \ {Max(s)}], events[Max(s)])
    <3> HIDE DEF N, step
    <3>1. Max(s) \in 1..N
          BY <1>1, <2>1, MaxOfSome
    <3>2. it[s \ {Max(s)}] \in V
          OBVIOUS
    <3>3. QED BY <1>3, <3>1, <3>2
  <2> HIDE DEF step
  <2>2. QED BY <1>4, <2>1
<1>6. it0 = Turn(it0)
  <2> HIDE DEF Turn
  <2>1. QED BY <1>5
<1> HIDE DEF it0, step, N
<1>7. it0[{}] = table
      BY <1>6
<1>8. ASSUME NEW k \in 1..N, it0[1..(k - 1)] \in V
      PROVE  it0[1..k] = step[<<k, it0[1..(k - 1)]>>]
  <2>1. k \in Nat \ {0} /\ (1..k) \in SUBSET (1..N) /\ (1..k) # {}
    <3>1. k \in Int /\ 1 <= k /\ k <= N /\ N \in Int
          BY <1>1
    <3>2. k \in 1..k
          BY <3>1
    <3>3. \A i \in 1..k : i \in 1..N
          BY <3>1
    <3>4. k \in Nat \ {0}
          BY <3>1
    <3>5. (1..k) \in SUBSET (1..N)
          BY <3>3
    <3>6. QED BY <3>2, <3>4, <3>5
  <2>2. Max(1..k) = k /\ (1..k) \ {k} = 1..(k - 1)
        BY <2>1, MaxUpTo
  <2>3. it0[1..k] = Take(it0[(1..k) \ {Max(1..k)}], events[Max(1..k)])
        BY <1>6, <2>1
  <2>4. QED BY <1>3, <1>8, <2>2, <2>3
<1>9. it0[1..N] \in WalksTo(N, V, table, step)
  <2>1. FollowsLeft(it0, N, V, table, step)
        BY <1>7, <1>8 DEF FollowsLeft
  <2>2. table \in V
        OBVIOUS
  <2> HIDE DEF V
  <2>3. QED BY <1>1, <1>3, <2>1, <2>2, LeftFoldWalks
<1>10. QED BY <1>2, <1>9 DEF WalksTo, Tables, step, N

\* What events lead to, told by the tables on the way.
LEMMA ProcessTables ==
    ASSUME NEW table \in SUBSET Nat, NEW events \in Seq(EventType)
    PROVE  \E h \in [0..Len(events) -> SUBSET Nat] :
               /\ h[0] = table
               /\ \A i \in 1..Len(events) : h[i] = Take(h[i - 1], events[i])
               /\ _process_events(table, events) = h[Len(events)]
<1>1. Len(events) \in Nat
      BY LenProperties
<1>2. PICK h \in Tables(table, events) : _process_events(table, events) = h[Len(events)]
      BY ProcessWalks
<1>3. /\ h \in [0..Len(events) -> SUBSET Nat]
      /\ h[0] = table
      /\ \A i \in 1..Len(events) : h[i] = TakeStep(events)[<<i, h[i - 1]>>]
      BY <1>2 DEF Tables, Walks
<1>4. ASSUME NEW i \in 1..Len(events) PROVE h[i] = Take(h[i - 1], events[i])
  <2>1. i - 1 \in 0..Len(events)
        BY <1>1
  <2>2. h[i - 1] \in SUBSET Nat
        BY <1>3, <2>1
  <2>3. QED BY <1>3, <2>2, TakeStepType
<1>5. QED BY <1>2, <1>3, <1>4

\* No event leaves the table as it is.
LEMMA ProcessNone ==
    ASSUME NEW table \in SUBSET Nat
    PROVE  _process_events(table, << >>) = table
<1> DEFINE none == << >>
<1>1. none \in Seq(EventType) /\ Len(none) = 0
      BY EmptySeq
<1> HIDE DEF none
<1>2. PICK h \in [0..Len(none) -> SUBSET Nat] :
          /\ h[0] = table
          /\ \A i \in 1..Len(none) : h[i] = Take(h[i - 1], none[i])
          /\ _process_events(table, none) = h[Len(none)]
      BY <1>1, ProcessTables
<1>3. QED BY <1>1, <1>2 DEF none

\* More events are taken from where the others led.
LEMMA ProcessMore ==
    ASSUME NEW table \in SUBSET Nat, NEW a \in Seq(EventType), NEW b \in Seq(EventType)
    PROVE  /\ _process_events(table, a) \in SUBSET Nat
           /\ _process_events(table, a \o b)
                  = _process_events(_process_events(table, a), b)
<1> DEFINE ab == a \o b
           m == Len(a)
           n == Len(b)
<1>1. m \in Nat /\ n \in Nat /\ ab \in Seq(EventType) /\ Len(ab) = m + n
      /\ \A i \in 1..(m + n) : ab[i] = IF i <= m THEN a[i] ELSE b[i - m]
      BY LenProperties, ConcatProperties
<1> HIDE DEF m, n, ab
<1>2. \A i \in 1..n : ab[m + i] = b[i]
  <2> SUFFICES ASSUME NEW i \in 1..n PROVE ab[m + i] = b[i]
      OBVIOUS
  <2>1. m + i \in 1..(m + n) /\ ~(m + i <= m) /\ (m + i) - m = i
        BY <1>1
  <2>2. QED BY <1>1, <2>1
<1>3. PICK f \in [0..m -> SUBSET Nat] :
          /\ f[0] = table
          /\ \A i \in 1..m : f[i] = Take(f[i - 1], a[i])
          /\ _process_events(table, a) = f[m]
      BY ProcessTables DEF m
<1>4. f[m] \in SUBSET Nat
      BY <1>1
<1>5. PICK g \in [0..n -> SUBSET Nat] :
          /\ g[0] = f[m]
          /\ \A i \in 1..n : g[i] = Take(g[i - 1], b[i])
          /\ _process_events(f[m], b) = g[n]
      BY <1>4, ProcessTables DEF n
<1>6. PICK h \in [0..Len(ab) -> SUBSET Nat] :
          /\ h[0] = table
          /\ \A i \in 1..Len(ab) : h[i] = Take(h[i - 1], ab[i])
          /\ _process_events(table, ab) = h[Len(ab)]
      BY <1>1, ProcessTables
<1> DEFINE First == {k \in 0..m : h[k] = f[k]}
           Second == {k \in 0..n : h[m + k] = g[k]}
<1>7. \A k \in 0..m : k \in First
  <2>1. 0 \in First
        BY <1>1, <1>3, <1>6
  <2>2. ASSUME NEW k \in 0..(m - 1), k \in First PROVE k + 1 \in First
    <3>1. k + 1 \in 1..m /\ k + 1 \in 1..(m + n) /\ (k + 1) - 1 = k /\ k + 1 \in 0..m
          BY <1>1
    <3>2. h[k + 1] = Take(h[k], ab[k + 1]) /\ f[k + 1] = Take(f[k], a[k + 1])
          BY <1>1, <1>3, <1>6, <3>1
    <3>3. ab[k + 1] = a[k + 1] /\ h[k] = f[k]
          BY <1>1, <2>2, <3>1
    <3>4. h[k + 1] = f[k + 1]
          BY <3>2, <3>3
    <3>5. QED BY <3>1, <3>4
  <2> HIDE DEF First
  <2>3. QED BY <1>1, <2>1, <2>2, InductionUpTo
<1>8. \A k \in 0..n : k \in Second
  <2>1. 0 \in Second
    <3>1. m \in First /\ m + 0 = m /\ 0 \in 0..n
          BY <1>1, <1>7
    <3>2. QED BY <1>5, <3>1
  <2>2. ASSUME NEW k \in 0..(n - 1), k \in Second PROVE k + 1 \in Second
    <3>1. /\ k + 1 \in 1..n /\ (k + 1) - 1 = k /\ k + 1 \in 0..n
          /\ m + (k + 1) \in 1..(m + n) /\ (m + (k + 1)) - 1 = m + k
          BY <1>1
    <3>2. h[m + (k + 1)] = Take(h[m + k], ab[m + (k + 1)]) /\ g[k + 1] = Take(g[k], b[k + 1])
          BY <1>1, <1>5, <1>6, <3>1
    <3>3. ab[m + (k + 1)] = b[k + 1]
          BY <1>2, <3>1
    <3>4. h[m + k] = g[k]
          BY <2>2
    <3>5. h[m + (k + 1)] = g[k + 1]
          BY <3>2, <3>3, <3>4
    <3>6. QED BY <3>1, <3>5
  <2> HIDE DEF Second
  <2>3. QED BY <1>1, <2>1, <2>2, InductionUpTo
<1>9. h[m + n] = g[n]
      BY <1>1, <1>8
<1>10. QED BY <1>1, <1>3, <1>4, <1>5, <1>6, <1>9 DEF ab

\* One event more.
LEMMA ProcessOne ==
    ASSUME NEW table \in SUBSET Nat, NEW events \in Seq(EventType), NEW e \in EventType
    PROVE  _process_events(table, Append(events, e))
               = Take(_process_events(table, events), e)
<1> DEFINE one == <<e>>
           t == _process_events(table, events)
<1>1. one \in Seq(EventType) /\ Len(one) = 1 /\ one[1] = e
      OBVIOUS
<1>2. Append(events, e) = events \o one
      BY AppendIsConcat
<1> HIDE DEF one
<1>3. t \in SUBSET Nat /\ _process_events(table, events \o one) = _process_events(t, one)
      BY <1>1, ProcessMore
<1> HIDE DEF t
<1>4. PICK h \in [0..Len(one) -> SUBSET Nat] :
          /\ h[0] = t
          /\ \A i \in 1..Len(one) : h[i] = Take(h[i - 1], one[i])
          /\ _process_events(t, one) = h[Len(one)]
      BY <1>1, <1>3, ProcessTables
<1>5. h[1] = Take(t, e)
  <2>1. 1 \in 1..Len(one) /\ 1 - 1 = 0
        BY <1>1
  <2>2. QED BY <1>1, <1>4, <2>1
<1>6. QED BY <1>1, <1>2, <1>3, <1>4, <1>5 DEF t

\* IDs that are issued are added, whatever their order.
LEMMA ProcessIssued ==
    ASSUME NEW table \in SUBSET Nat, NEW ids \in Seq(Nat)
    PROVE  /\ Tagged("issued", ids) \in Seq(EventType)
           /\ _process_events(table, Tagged("issued", ids)) = table \cup Range(ids)
<1> DEFINE n == Len(ids)
           events == Tagged("issued", ids)
<1>1. n \in Nat /\ DOMAIN ids = 1..n /\ \A i \in 1..n : ids[i] \in Nat
      BY LenProperties, ElementOfSeq
<1>2. events = [i \in 1..n |-> <<"issued", ids[i]>>]
      BY <1>1 DEF Tagged
<1>3. events \in Seq(EventType) /\ Len(events) = n
  <2> HIDE DEF n
  <2>1. events \in [1..n -> EventType]
        BY <1>1, <1>2 DEF EventType
  <2>2. QED BY <1>1, <2>1
<1> HIDE DEF n, events
<1>4. PICK h \in [0..Len(events) -> SUBSET Nat] :
          /\ h[0] = table
          /\ \A i \in 1..Len(events) : h[i] = Take(h[i - 1], events[i])
          /\ _process_events(table, events) = h[Len(events)]
      BY <1>3, ProcessTables
<1> DEFINE Added == {k \in 0..n : h[k] = table \cup {ids[i] : i \in 1..k}}
<1>5. 0 \in Added
      BY <1>1, <1>4
<1>6. ASSUME NEW k \in 0..(n - 1), k \in Added PROVE k + 1 \in Added
  <2>1. k + 1 \in 1..n /\ (k + 1) - 1 = k /\ k + 1 \in 0..n
        BY <1>1
  <2>2. h[k + 1] = Take(h[k], <<"issued", ids[k + 1]>>)
        BY <1>2, <1>3, <1>4, <2>1
  <2>3. h[k + 1] = h[k] \cup {ids[k + 1]}
        BY <2>2 DEF Take
  <2>4. \A i : i \in 1..(k + 1) <=> i \in 1..k \/ i = k + 1
        BY <1>1
  <2>5. {ids[i] : i \in 1..(k + 1)} = {ids[i] : i \in 1..k} \cup {ids[k + 1]}
        BY <2>4
  <2>6. QED BY <1>6, <2>1, <2>3, <2>5
<1>7. n \in Added
  <2>1. \A k \in 0..n : k \in Added
    <3> HIDE DEF Added
    <3>1. QED BY <1>1, <1>5, <1>6, InductionUpTo
  <2>2. QED BY <1>1, <2>1
<1>8. Range(ids) = {ids[i] : i \in 1..n}
      BY <1>1 DEF Range
<1>9. QED BY <1>3, <1>4, <1>7, <1>8 DEF events

-----------------------------------------------------------------------------
(* What a lost packet had retired.                                         *)

\* Some sequences, one joined to the other.
LEMMA FlattenWalk ==
    ASSUME NEW S, NEW seqs \in Seq(Seq(S)), seqs # << >>
    PROVE  \E f : /\ f[1] = seqs[1]
                  /\ \A k \in 1..(Len(seqs) - 1) : f[k + 1] = f[k] \o seqs[k + 1]
                  /\ FlattenSeq(seqs) = f[Len(seqs)]
<1> DEFINE n == Len(seqs)
           V == Seq(S)
           Turn(f) == [i \in 1..n |-> IF i = 1 THEN seqs[i] ELSE f[i - 1] \o seqs[i]]
           flatten == CHOOSE f : f = Turn(f)
           step == [x \in (1..n) \X V |-> IF x[1] = 1 THEN seqs[1] ELSE x[2] \o seqs[x[1]]]
<1>1. n \in Nat /\ n # 0 /\ \A i \in 1..n : seqs[i] \in V
      BY EmptySeq, LenProperties, ElementOfSeq
<1>2. FlattenSeq(seqs) = flatten[n]
      BY <1>1 DEF FlattenSeq
<1>3. \A v \in V, i \in 1..n : v \o seqs[i] \in V
      BY <1>1, ConcatProperties
<1>4. 1 \in 1..n
      BY <1>1
<1>5. step \in [(1..n) \X V -> V]
      BY <1>1, <1>3, <1>4
<1>6. \A i \in 1..n, v \in V :
          step[<<i, v>>] = IF i = 1 THEN seqs[1] ELSE v \o seqs[i]
      OBVIOUS
<1>7. << >> \in V
      BY EmptySeq
<1>8. PICK h \in [0..n -> V] : \A i \in 1..n : h[i] = step[<<i, h[i - 1]>>]
  <2> HIDE DEF step, V, n
  <2>1. Walks(n, V, << >>, step) # {}
        BY <1>1, <1>5, <1>7, StepsExist
  <2>2. QED BY <2>1 DEF Walks
<1> DEFINE g == [i \in 1..n |-> h[i]]
<1> HIDE DEF n, V, step
<1>9. \A i \in 1..n : i # 1 => i - 1 \in 1..n /\ i - 1 \in 0..n
      BY <1>1
<1>10. g = Turn(g)
  <2>1. ASSUME NEW i \in 1..n PROVE g[i] = IF i = 1 THEN seqs[i] ELSE g[i - 1] \o seqs[i]
    <3>1. i - 1 \in 0..n /\ i \in 0..n
          BY <1>1
    <3>2. h[i] = IF i = 1 THEN seqs[1] ELSE h[i - 1] \o seqs[i]
          BY <1>6, <1>8, <3>1
    <3>3. QED BY <1>9, <3>2
  <2>2. QED BY <2>1
<1>11. flatten = Turn(flatten)
  <2> HIDE DEF g, Turn
  <2>1. QED BY <1>10
<1> HIDE DEF flatten
<1>12. flatten[1] = seqs[1]
       BY <1>4, <1>11
<1>13. ASSUME NEW k \in 1..(n - 1) PROVE flatten[k + 1] = flatten[k] \o seqs[k + 1]
  <2>1. \A j \in 1..n : j # 1 => flatten[j] = flatten[j - 1] \o seqs[j]
        BY <1>11
  <2>2. k + 1 \in 1..n /\ k + 1 # 1 /\ (k + 1) - 1 = k
        BY <1>1
  <2>3. flatten[k + 1] = flatten[(k + 1) - 1] \o seqs[k + 1]
        BY ONLY <2>1, <2>2, Zenon
  <2>4. QED BY <2>2, <2>3
<1>14. QED BY <1>2, <1>12, <1>13 DEF n

\* The whole has what they have; it is without repetition, if they are and share nothing.
LEMMA FlattenOnce ==
    ASSUME NEW S, NEW seqs \in Seq(Seq(S)),
           \A i \in 1..Len(seqs) : IsInjective(seqs[i]),
           \A i, j \in 1..Len(seqs) : i # j => Range(seqs[i]) \cap Range(seqs[j]) = {}
    PROVE  FlattenSeq(seqs) \in Seq(S) /\ IsInjective(FlattenSeq(seqs))
<1> DEFINE n == Len(seqs)
<1>1. n \in Nat /\ \A i \in 1..n : seqs[i] \in Seq(S)
      BY LenProperties, ElementOfSeq
<1>2. CASE n = 0
  <2>1. seqs = << >> /\ FlattenSeq(seqs) = seqs
        BY <1>2, EmptySeq DEF FlattenSeq
  <2>2. << >> \in Seq(S) /\ IsInjective(<< >>)
        BY DEF IsInjective
  <2>3. QED BY <2>1, <2>2
<1>3. CASE n # 0
  <2>1. seqs # << >>
        BY <1>3, EmptySeq
  <2>2. PICK f : /\ f[1] = seqs[1]
                 /\ \A k \in 1..(n - 1) : f[k + 1] = f[k] \o seqs[k + 1]
                 /\ FlattenSeq(seqs) = f[n]
        BY <2>1, FlattenWalk
  <2> DEFINE Fine == {i \in 0..n : i # 0 =>
                         /\ f[i] \in Seq(S) /\ IsInjective(f[i])
                         /\ \A e \in Range(f[i]) : \E j \in 1..i : e \in Range(seqs[j])}
  <2> HIDE DEF n
  <2>3. 0 \in Fine
        BY <1>1
  <2>4. ASSUME NEW k \in 0..(n - 1), k \in Fine PROVE k + 1 \in Fine
    <3>1. k + 1 \in 1..n /\ k + 1 \in 0..n /\ k \in Nat /\ k + 1 \in 1..(k + 1)
          BY <1>1
    <3>2. CASE k = 0
      <4>1. /\ f[1] \in Seq(S) /\ IsInjective(f[1]) /\ 1 \in 1..1
            /\ \A e \in Range(f[1]) : e \in Range(seqs[1])
            BY <1>1, <2>2, <3>1, <3>2 DEF n
      <4>2. QED BY <3>1, <3>2, <4>1
    <3>3. CASE k # 0
      <4>1. k \in 1..(n - 1)
            BY <3>1, <3>3
      <4>2. f[k + 1] = f[k] \o seqs[k + 1]
            BY <2>2, <4>1
      <4>3. /\ f[k] \in Seq(S) /\ IsInjective(f[k])
            /\ \A e \in Range(f[k]) : \E j \in 1..k : e \in Range(seqs[j])
            BY <2>4, <3>3
      <4>4. seqs[k + 1] \in Seq(S) /\ IsInjective(seqs[k + 1])
            BY <1>1, <3>1 DEF n
      <4>5. \A j \in 1..k : j \in 1..n /\ j # k + 1 /\ j \in 1..(k + 1)
            BY <1>1, <3>1
      <4>6. Range(f[k]) \cap Range(seqs[k + 1]) = {}
        <5>1. \A j \in 1..k : Range(seqs[j]) \cap Range(seqs[k + 1]) = {}
              BY <3>1, <4>5 DEF n
        <5>2. QED BY <4>3, <5>1
      <4>7. f[k + 1] \in Seq(S) /\ IsInjective(f[k + 1])
            BY <4>2, <4>3, <4>4, <4>6, ConcatOnce, ConcatProperties
      <4>8. Range(f[k + 1]) = Range(f[k]) \cup Range(seqs[k + 1])
            BY <4>2, <4>3, <4>4, RangeConcatenation
      <4>9. \A e \in Range(f[k + 1]) : \E j \in 1..(k + 1) : e \in Range(seqs[j])
            BY <3>1, <4>3, <4>5, <4>8
      <4>10. QED BY <3>1, <4>7, <4>9
    <3>4. QED BY <3>2, <3>3
  <2>5. n \in Fine
    <3>1. \A k \in 0..n : k \in Fine
      <4> HIDE DEF Fine
      <4>1. QED BY <1>1, <2>3, <2>4, InductionUpTo
    <3>2. n \in 0..n
          BY <1>1
    <3> HIDE DEF Fine
    <3>3. QED BY <3>1, <3>2
  <2>6. QED BY <1>3, <2>2, <2>5
<1>4. QED BY <1>2, <1>3

\* The members of a finite set in some order, each once.
LEMMA SetToSeqType ==
    ASSUME NEW R, IsFiniteSet(R)
    PROVE  SetToSeq(R) \in Seq(R) /\ IsInjective(SetToSeq(R))
<1> DEFINE n == Cardinality(R)
<1>1. n \in Nat /\ ExistsBijection(1..n, R)
      BY FS_CardinalityType
<1>2. \E f \in [1..n -> R] : IsInjective(f)
      BY <1>1 DEF ExistsBijection, Bijection, Injection, IsInjective
<1>3. SetToSeq(R) \in [1..n -> R] /\ IsInjective(SetToSeq(R))
      BY <1>2 DEF SetToSeq
<1> HIDE DEF n
<1>4. QED BY <1>1, <1>3

\* Of all packets of a finite set, the IDs retired in them are gone if those of each are,
\* and none comes twice if none is in two packets.
LEMMA RetiredAgain ==
    ASSUME NEW lost \in SUBSET SentType, IsFiniteSet(lost), NEW gone \in SUBSET Nat,
           \A q \in lost : Range(q.retired) \subseteq gone /\ IsInjective(q.retired),
           \A q, r \in lost : q # r => Range(q.retired) \cap Range(r.retired) = {}
    PROVE  /\ FlattenSeq(SetToSeq({q.retired : q \in lost})) \in Seq(Nat)
           /\ Range(FlattenSeq(SetToSeq({q.retired : q \in lost}))) \subseteq gone
           /\ IsInjective(FlattenSeq(SetToSeq({q.retired : q \in lost})))
<1> DEFINE R == {q.retired : q \in lost}
           f == [q \in lost |-> q.retired]
<1>1. IsFiniteSet(R)
  <2>1. f \in Surjection(lost, R)
        BY DEF Surjection
  <2> HIDE DEF f, R
  <2>2. QED BY <2>1, FS_Surjection
<1>2. ASSUME NEW q \in lost PROVE q.retired \in Seq(gone)
  <2>1. q.retired \in Seq(Nat)
        BY DEF SentType
  <2>2. q.retired \in Seq(Range(q.retired))
        BY <2>1, SeqOfRange
  <2>3. QED BY <2>2, SeqMonotonic
<1>3. /\ R \subseteq Seq(gone)
      /\ \A a \in R : IsInjective(a)
      /\ \A a, b \in R : a # b => Range(a) \cap Range(b) = {}
      BY <1>2
<1> HIDE DEF R
<1> DEFINE seqs == SetToSeq(R)
<1>4. seqs \in Seq(R) /\ IsInjective(seqs)
      BY <1>1, SetToSeqType
<1> HIDE DEF seqs
<1>5. seqs \in Seq(Seq(gone))
      BY <1>3, <1>4, SeqMonotonic
<1>6. /\ \A i \in 1..Len(seqs) : IsInjective(seqs[i])
      /\ \A i, j \in 1..Len(seqs) : i # j => Range(seqs[i]) \cap Range(seqs[j]) = {}
  <2>1. \A i \in 1..Len(seqs) : seqs[i] \in R /\ i \in DOMAIN seqs
        BY <1>4, ElementOfSeq, LenProperties
  <2>2. \A i, j \in 1..Len(seqs) : i # j => seqs[i] # seqs[j]
        BY <1>4, <2>1 DEF IsInjective
  <2>3. QED BY <1>3, <2>1, <2>2
<1>7. FlattenSeq(seqs) \in Seq(gone) /\ IsInjective(FlattenSeq(seqs))
      BY <1>5, <1>6, FlattenOnce
<1>8. FlattenSeq(seqs) \in Seq(Nat) /\ Range(FlattenSeq(seqs)) \subseteq gone
      BY <1>7, SeqMonotonic, RangeOfSeq
<1>9. QED BY <1>7, <1>8 DEF R, seqs

-----------------------------------------------------------------------------
(* What the operations of a connection do to it.                           *)

\* The smaller of two numbers, as the limit on what waits.
LEMMA MaxPendingType == MaxPending \in Nat
<1> DEFINE a == 4 * Limit
           b == MAX_PENDING_RETIRES
           m == IF a <= b THEN a ELSE b
<1>1. a \in Nat /\ b \in Nat
      BY LimitAssumption, RetiresAssumption
<1> HIDE DEF a, b
<1>2. m \in {a, b} /\ \A z \in {a, b} : m <= z
      BY <1>1
<1>3. \A x \in {a, b} : (\A z \in {a, b} : x <= z) => x = m
      BY <1>1
<1> HIDE DEF m
<1>4. MaxPending = m
      BY <1>2, <1>3 DEF MaxPending, Min, a, b
<1>5. QED BY <1>1, <1>2, <1>4

\* The parts of a connection.
OwnOf(s) == <<s.host_cids, s.unsent, s.host_cid_seq>>
PeerOf(s) == <<s.peer_cid, s.peer_cid_available, s.peer_cid_sequence_numbers,
               s.retire_connection_ids, s.sent_packets>>
PathsOf(s) == <<s.network_paths, s.local_challenges>>
TakenOf(s) == <<s.events, s.failed>>
RestOf(s) == <<s.packet_number, s.largest_received_packet, s.terminated>>

\* What never goes back while a packet is received, and the addresses that stay.
Follows(s, t) ==
    /\ Gone(s) \subseteq Gone(t)
    /\ s.host_cid_seq <= t.host_cid_seq
    /\ RestOf(t) = RestOf(s)

SamePlaces(s, t) ==
    /\ Len(t.network_paths) = Len(s.network_paths)
    /\ \A i \in 1..Len(s.network_paths) :
           t.network_paths[i].addr = s.network_paths[i].addr

\* With the parts the same, what holds of them is.
LEMMA SameOwn ==
    ASSUME NEW s, NEW t, OwnOf(t) = OwnOf(s), OwnIds(s)
    PROVE  /\ OwnIds(t)
           /\ t.host_cid_seq = s.host_cid_seq
           /\ \A other : Agree(other, s) => Agree(other, t)
BY DEF OwnOf, OwnIds, Agree

\* The same of what it knows of the peer.
LEMMA SamePeer ==
    ASSUME NEW s, NEW t, PeerOf(t) = PeerOf(s), PeerIds(s)
    PROVE  /\ PeerIds(t)
           /\ Gone(t) = Gone(s)
           /\ \A other : Agree(s, other) => Agree(t, other)
<1>1. Gone(t) = Gone(s)
      BY DEF PeerOf, Gone
<1>2. PeerIds(t)
      BY <1>1 DEF PeerOf, PeerIds, RetiredOnce
<1>3. \A other : Agree(s, other) => Agree(t, other)
      BY <1>1 DEF PeerOf, Agree
<1>4. QED BY <1>1, <1>2, <1>3

\* The same of the paths.
LEMMA SamePaths ==
    ASSUME NEW s, NEW t, PathsOf(t) = PathsOf(s), Paths(s)
    PROVE  /\ Paths(t)
           /\ SamePlaces(s, t)
           /\ \A x, seen : Challenged(x, s, seen) => Challenged(x, t, seen)
BY DEF PathsOf, Paths, SamePlaces, Challenged

\* The same of the table.
LEMMA SameTable ==
    ASSUME NEW s, NEW t, OwnOf(t) = OwnOf(s), TakenOf(t) = TakenOf(s), RestOf(t) = RestOf(s)
    PROVE  \A x, table : TableOf(x, s, table) => TableOf(x, t, table)
BY DEF OwnOf, TakenOf, RestOf, TableOf

\* The same of the error.
LEMMA SameFailed ==
    ASSUME NEW s, NEW t, Gone(t) = Gone(s), t.failed = s.failed, FailedWell(s)
    PROVE  FailedWell(t)
BY DEF FailedWell

\* The parts are what State says.
LEMMA StateFields ==
    ASSUME NEW s \in State
    PROVE  /\ s.host_cids \in SUBSET Nat /\ s.unsent \in SUBSET Nat
           /\ s.host_cid_seq \in Nat /\ s.peer_cid \in Nat
           /\ s.peer_cid_available \in Seq(Nat)
           /\ s.peer_cid_sequence_numbers \in SUBSET Nat
           /\ s.retire_connection_ids \in Seq(Nat)
           /\ s.network_paths \in Seq(PathType) /\ s.local_challenges \in SUBSET Place
           /\ s.sent_packets \in SUBSET SentType /\ s.events \in Seq(EventType)
           /\ s.packet_number \in Nat /\ s.largest_received_packet \in Int
           /\ s.received \in SUBSET Nat
           /\ s.terminated \in BOOLEAN /\ s.failed \in Reason
           /\ Gone(s) \in SUBSET Nat
BY DEF State, Gone

\* The more are given up, the better the error stands.
LEMMA MoreGone ==
    ASSUME NEW s, NEW t, FailedWell(s), PeerIds(t), Gone(s) \subseteq Gone(t),
           t.failed = s.failed
    PROVE  FailedWell(t)
<1>1. IsFiniteSet(Gone(t))
      BY FS_Subset DEF PeerIds, Gone
<1>2. /\ Cardinality(Gone(s)) \in Nat /\ Cardinality(Gone(t)) \in Nat
      /\ Cardinality(Gone(s)) <= Cardinality(Gone(t))
      BY <1>1, FS_Subset, FS_CardinalityType
<1>3. Cardinality(Gone(s)) > MaxPending => Cardinality(Gone(t)) > MaxPending
      BY <1>2, MaxPendingType
<1>4. QED BY <1>3 DEF FailedWell

\* change_connection_id(): the next ID is taken into use, the other is retired.
LEMMA ChangeSound ==
    ASSUME NEW x \in End, NEW s, NEW other, NEW seen, NEW table,
           Sound(x, s, other, seen, table)
    PROVE  /\ Sound(x, change_connection_id(s), other, seen, table)
           /\ Follows(s, change_connection_id(s))
           /\ SamePlaces(s, change_connection_id(s))
<1> DEFINE t == change_connection_id(s)
           avail == s.peer_cid_available
           old == s.peer_cid
<1>1. s \in State
      BY DEF Sound
<1>2. CASE avail = << >>
  <2>1. t = s
        BY <1>2 DEF change_connection_id
  <2>2. s.host_cid_seq <= s.host_cid_seq
        BY <1>1, StateFields
  <2>3. QED BY <2>1, <2>2 DEF Follows, SamePlaces
<1>3. CASE avail # << >>
  <2>1. /\ Head(avail) \in Nat /\ Tail(avail) \in Seq(Nat) /\ old \in Nat
        /\ avail \in Seq(Nat) /\ s.retire_connection_ids \in Seq(Nat)
        /\ Append(s.retire_connection_ids, old) \in Seq(Nat)
        BY <1>1, <1>3, StateFields, HeadTailProperties, AppendProperties
  <2>2. /\ t \in State
        /\ OwnOf(t) = OwnOf(s) /\ PathsOf(t) = PathsOf(s)
        /\ TakenOf(t) = TakenOf(s) /\ RestOf(t) = RestOf(s)
        BY <1>1, <1>3, <2>1 DEF State, change_connection_id, OwnOf, PathsOf, TakenOf, RestOf
  <2>3. /\ t.peer_cid = Head(avail) /\ t.peer_cid_available = Tail(avail)
        /\ t.peer_cid_sequence_numbers = s.peer_cid_sequence_numbers
        /\ t.retire_connection_ids = Append(s.retire_connection_ids, old)
        /\ t.sent_packets = s.sent_packets
        BY <1>1, <1>3 DEF State, change_connection_id
  <2> HIDE DEF t
  <2>4. Range(avail) = {Head(avail)} \cup Range(Tail(avail))
        BY <1>3, <2>1, RangeOfTail
  <2>5. /\ old \notin Range(avail) /\ IsInjective(avail)
        /\ {old} \cup Range(avail) \subseteq s.peer_cid_sequence_numbers
        BY DEF Sound, PeerIds
  <2>6. Gone(t) = Gone(s) \cup {old}
    <3>1. Head(avail) \notin Range(Tail(avail))
          BY <1>3, <2>1, <2>5, TailOfInjective
    <3>2. QED BY <2>3, <2>4, <2>5, <3>1 DEF Gone
  <2>7. PeerIds(t)
    <3>1. Range(t.retire_connection_ids) = Range(s.retire_connection_ids) \cup {old}
          BY <2>1, <2>3, RangeOfAppend, SMTT(30)
    <3>2. Head(avail) \notin Range(Tail(avail)) /\ IsInjective(Tail(avail))
          BY <1>3, <2>1, <2>5, TailOfInjective
    <3>3. /\ Range(s.retire_connection_ids) \subseteq Gone(s)
          /\ IsFiniteSet(s.sent_packets) /\ IsFiniteSet(s.peer_cid_sequence_numbers)
          /\ \A q \in s.sent_packets : Range(q.retired) \subseteq Gone(s)
          /\ RetiredOnce(s)
          BY DEF Sound, PeerIds
    <3>4. old \notin Gone(s)
          BY DEF Gone
    <3>5. IsInjective(t.retire_connection_ids)
      <4>1. old \notin Range(s.retire_connection_ids)
            BY <3>3, <3>4
      <4>2. QED BY <2>1, <2>3, <3>3, <4>1, AppendOnce DEF RetiredOnce
    <3>6. RetiredOnce(t)
          BY <2>3, <3>1, <3>3, <3>4, <3>5 DEF RetiredOnce
    <3>7. QED BY <2>3, <2>4, <2>5, <2>6, <3>1, <3>2, <3>3, <3>6 DEF PeerIds
  <2>8. Agree(t, other)
        BY <2>3, <2>6 DEF Sound, Agree
  <2>9. OwnIds(t) /\ Agree(other, t) /\ t.host_cid_seq = s.host_cid_seq
        BY <2>2, SameOwn DEF Sound
  <2>10. Paths(t) /\ Challenged(x, t, seen) /\ SamePlaces(s, t)
        BY <2>2, SamePaths DEF Sound
  <2>11. TableOf(x, t, table)
        BY <2>2, SameTable DEF Sound
  <2>12. FailedWell(t)
    <3>1. Gone(s) \subseteq Gone(t) /\ FailedWell(s) /\ t.failed = s.failed
          BY <2>2, <2>6 DEF Sound, TakenOf
    <3>2. QED BY <2>7, <3>1, MoreGone
  <2>13. Sound(x, t, other, seen, table)
        BY <2>2, <2>7, <2>8, <2>9, <2>10, <2>11, <2>12 DEF Sound
  <2>14. s.host_cid_seq <= t.host_cid_seq
        BY <1>1, <2>9, StateFields
  <2>15. Follows(s, t)
        BY <2>2, <2>6, <2>14 DEF Follows
  <2>16. QED BY <2>10, <2>13, <2>15 DEF t
<1>4. QED BY <1>2, <1>3

\* _handle_new_connection_id_frame(): the ID was issued by the other end. It is new or
\* known, and there are not more than the limit.
LEMMA NewSound ==
    ASSUME NEW x \in End, NEW s, NEW other \in State, OwnIds(other), NEW seen, NEW table,
           Sound(x, s, other, seen, table),
           NEW n \in 0..(other.host_cid_seq - 1)
    PROVE  /\ Sound(x, _handle_new_connection_id_frame(s, n), other, seen, table)
           /\ Follows(s, _handle_new_connection_id_frame(s, n))
           /\ SamePlaces(s, _handle_new_connection_id_frame(s, n))
<1> DEFINE t == _handle_new_connection_id_frame(s, n)
           avail == s.peer_cid_available
           ids == s.peer_cid_sequence_numbers
           more == IF n \in ids THEN avail ELSE Append(avail, n)
<1>1. /\ s \in State /\ n \in Nat /\ avail \in Seq(Nat) /\ other.host_cid_seq \in Nat
      /\ s.peer_cid \in Nat
      BY StateFields DEF Sound
<1>2. /\ {s.peer_cid} \cup Range(avail) \subseteq ids
      /\ s.peer_cid \notin Range(avail)
      /\ IsInjective(avail)
      /\ ids \subseteq 0..(other.host_cid_seq - 1)
      /\ (0..(other.host_cid_seq - 1)) \ Gone(s) \subseteq other.host_cids
      BY DEF Sound, PeerIds, Agree
<1>3. /\ more \in Seq(Nat)
      /\ Range(more) = Range(avail) \cup ({n} \ ids)
  <2>1. CASE n \in ids
        BY <1>1, <2>1
  <2>2. CASE n \notin ids
    <3>1. more = Append(avail, n)
          BY <2>2
    <3>2. more \in Seq(Nat) /\ Range(more) = Range(avail) \cup {n}
          BY <1>1, <3>1, AppendProperties, RangeOfAppend
    <3>3. QED BY <2>2, <3>2
  <2>3. QED BY <2>1, <2>2
<1>4. IsInjective(more)
  <2>1. n \notin ids => n \notin Range(avail)
        BY <1>2
  <2>2. QED BY <1>1, <1>2, <2>1, AppendOnce
<1> HIDE DEF more
<1>5. 1 + Len(more) <= Limit
  <2> DEFINE used == Range(more) \cup {s.peer_cid}
  <2>1. used \subseteq other.host_cids
    <3>1. used \subseteq 0..(other.host_cid_seq - 1)
          BY <1>2, <1>3
    <3>2. used \cap Gone(s) = {}
          BY <1>2, <1>3 DEF Gone
    <3>3. QED BY <1>2, <3>1, <3>2
  <2>2. IsFiniteSet(other.host_cids) /\ Cardinality(other.host_cids) = Limit
    <3>1. 0 \in Int /\ other.host_cid_seq - 1 \in Int
          BY <1>1
    <3>2. IsFiniteSet(0..(other.host_cid_seq - 1))
          BY <3>1, FS_Interval
    <3>3. QED BY <3>2, FS_Subset DEF OwnIds
  <2>3. IsFiniteSet(Range(more)) /\ Cardinality(Range(more)) = Len(more)
        BY <1>3, <1>4, LengthOfInjective
  <2>4. s.peer_cid \notin Range(more)
        BY <1>2, <1>3
  <2>5. Cardinality(used) = Len(more) + 1
        BY <2>3, <2>4, FS_AddElement
  <2>6. Cardinality(used) <= Limit
        BY <2>1, <2>2, FS_Subset
  <2>7. Len(more) \in Nat
        BY <1>3, LenProperties
  <2> HIDE DEF used
  <2>8. QED BY <2>5, <2>6, <2>7
<1> DEFINE error == IF Len(s.retire_connection_ids) > MaxPending THEN "pending" ELSE s.failed
<1>6. t = [s EXCEPT !.peer_cid_sequence_numbers = @ \cup {n},
                    !.peer_cid_available = more, !.failed = error]
  <2> DEFINE taken == [s EXCEPT !.peer_cid_sequence_numbers = @ \cup {n},
                                !.peer_cid_available = more]
  <2>1. /\ taken.peer_cid_available = more /\ taken.failed = s.failed
        /\ taken.retire_connection_ids = s.retire_connection_ids
        BY <1>1 DEF State
  <2>2. t = [taken EXCEPT !.failed =
                IF 1 + Len(taken.peer_cid_available) > Limit THEN "limit"
                ELSE IF Len(taken.retire_connection_ids) > MaxPending THEN "pending"
                ELSE taken.failed]
        BY DEF _handle_new_connection_id_frame, more
  <2>3. ~(1 + Len(more) > Limit)
    <3>1. Len(more) \in Nat
          BY <1>3, LenProperties
    <3>2. QED BY <1>5, <3>1, LimitAssumption
  <2> HIDE DEF taken
  <2>4. t = [taken EXCEPT !.failed = error]
        BY <2>1, <2>2, <2>3
  <2> HIDE DEF error
  <2>5. QED BY <1>1, <2>4 DEF State, taken
<1>20. error \in Reason /\ s.peer_cid_sequence_numbers \cup {n} \in SUBSET Nat
       BY <1>1, StateFields DEF Reason
<1> HIDE DEF error
<1>7. /\ t \in State
      /\ OwnOf(t) = OwnOf(s) /\ PathsOf(t) = PathsOf(s) /\ RestOf(t) = RestOf(s)
      /\ t.events = s.events /\ t.failed = error
  <2> HIDE DEF t, ids
  <2>1. t \in State
        BY <1>1, <1>3, <1>6, <1>20 DEF State
  <2>2. OwnOf(t) = OwnOf(s) /\ PathsOf(t) = PathsOf(s)
        BY <1>1, <1>6 DEF State, OwnOf, PathsOf
  <2>3. RestOf(t) = RestOf(s) /\ t.events = s.events /\ t.failed = error
        BY <1>1, <1>6 DEF State, RestOf
  <2>4. QED BY <2>1, <2>2, <2>3
<1>8. /\ t.peer_cid = s.peer_cid /\ t.peer_cid_available = more
      /\ t.peer_cid_sequence_numbers = ids \cup {n}
      /\ t.retire_connection_ids = s.retire_connection_ids
      /\ t.sent_packets = s.sent_packets
      BY <1>1, <1>6 DEF State
<1> HIDE DEF t
<1>9. Gone(t) = Gone(s)
      BY <1>2, <1>3, <1>8 DEF Gone
<1>10. PeerIds(t)
  <2>1. {t.peer_cid} \cup Range(more) \subseteq t.peer_cid_sequence_numbers
        BY <1>2, <1>3, <1>8
  <2>2. t.peer_cid \notin Range(more)
        BY <1>2, <1>3, <1>8
  <2>3. IsFiniteSet(t.peer_cid_sequence_numbers)
        BY <1>8, FS_AddElement DEF Sound, PeerIds
  <2>4. RetiredOnce(t)
        BY <1>8 DEF Sound, PeerIds, RetiredOnce
  <2>5. QED BY <1>4, <1>8, <1>9, <2>1, <2>2, <2>3, <2>4 DEF Sound, PeerIds
<1>11. Agree(t, other)
      BY <1>2, <1>8, <1>9 DEF Agree
<1>12. OwnIds(t) /\ Agree(other, t) /\ t.host_cid_seq = s.host_cid_seq
      BY <1>7, SameOwn DEF Sound
<1>13. Paths(t) /\ Challenged(x, t, seen) /\ SamePlaces(s, t)
      BY <1>7, SamePaths DEF Sound
<1>14. TableOf(x, t, table)
      BY <1>7 DEF Sound, TableOf, OwnOf, RestOf
<1>19. FailedWell(t)
  <2> DEFINE queue == s.retire_connection_ids
  <2>1. CASE Len(queue) > MaxPending
    <3>1. /\ queue \in Seq(Nat) /\ Range(queue) \subseteq Gone(t)
          /\ IsInjective(queue) /\ IsFiniteSet(Gone(t))
      <4>1. queue \in Seq(Nat)
            BY <1>1, StateFields
      <4>2. Range(queue) \subseteq Gone(t) /\ IsInjective(queue)
            BY <1>8, <1>10 DEF PeerIds, RetiredOnce
      <4>3. IsFiniteSet(Gone(t))
            BY <1>10, FS_Subset DEF PeerIds, Gone
      <4>4. QED BY <4>1, <4>2, <4>3
    <3>2. Cardinality(Range(queue)) = Len(queue)
          BY <3>1, LengthOfInjective
    <3>3. /\ Cardinality(Range(queue)) <= Cardinality(Gone(t))
          /\ Cardinality(Range(queue)) \in Nat /\ Cardinality(Gone(t)) \in Nat
          BY <3>1, FS_Subset, FS_CardinalityType
    <3>4. Cardinality(Gone(t)) > MaxPending
          BY <2>1, <3>2, <3>3, MaxPendingType
    <3>5. t.failed = "pending"
          BY <1>7, <2>1 DEF error
    <3>6. QED BY <3>4, <3>5 DEF FailedWell
  <2>2. CASE ~(Len(queue) > MaxPending)
    <3>1. t.failed = s.failed
          BY <1>7, <2>2 DEF error
    <3>2. QED BY <1>9, <3>1, SameFailed DEF Sound
  <2>3. QED BY <2>1, <2>2
<1>15. Sound(x, t, other, seen, table)
      BY <1>7, <1>10, <1>11, <1>12, <1>13, <1>14, <1>19 DEF Sound
<1>16. s.host_cid_seq <= t.host_cid_seq
      BY <1>1, <1>12, StateFields
<1>17. Follows(s, t)
      BY <1>7, <1>9, <1>16 DEF Follows
<1>18. QED BY <1>13, <1>15, <1>17 DEF t

\* _handle_retire_connection_id_frame(): the ID is one that the other end is done with.
\* It is given up, if it was not before, and another is issued for it.
LEMMA RetireSound ==
    ASSUME NEW x \in End, NEW s, NEW other \in State, NEW seen, NEW table \in SUBSET Nat,
           Sound(x, s, other, seen, table),
           NEW n \in Gone(other), NEW dcid, n # dcid
    PROVE  /\ Sound(x, _handle_retire_connection_id_frame(s, n, dcid), other, seen, table)
           /\ Follows(s, _handle_retire_connection_id_frame(s, n, dcid))
           /\ SamePlaces(s, _handle_retire_connection_id_frame(s, n, dcid))
<1> DEFINE t == _handle_retire_connection_id_frame(s, n, dcid)
           seq == s.host_cid_seq
           held == s.host_cids \ {n}
           missing == Limit - Cardinality(held)
           new == seq..(seq + missing - 1)
           then == IF n \in s.host_cids THEN Append(s.events, <<"retired", n>>) ELSE s.events
<1>1. /\ s \in State /\ seq \in Nat /\ s.events \in Seq(EventType)
      /\ s.host_cids \in SUBSET Nat /\ s.unsent \in SUBSET Nat
      BY StateFields DEF Sound
<1>2. /\ s.host_cids \subseteq 0..(seq - 1) /\ Cardinality(s.host_cids) = Limit
      /\ s.unsent \subseteq s.host_cids
      BY DEF Sound, OwnIds
<1>3. /\ other.peer_cid_sequence_numbers \subseteq 0..(seq - 1)
      /\ (0..(seq - 1)) \ Gone(other) \subseteq s.host_cids
      BY DEF Sound, Agree
<1>4. n \in 0..(seq - 1) /\ n \in Nat
      BY <1>3 DEF Gone
<1>5. /\ IsFiniteSet(s.host_cids) /\ IsFiniteSet(held)
      /\ Cardinality(held) = IF n \in s.host_cids THEN Limit - 1 ELSE Limit
  <2>1. IsFiniteSet(s.host_cids)
    <3>1. 0 \in Int /\ seq - 1 \in Int
          BY <1>1
    <3>2. IsFiniteSet(0..(seq - 1))
          BY <3>1, FS_Interval
    <3>3. QED BY <1>2, <3>2, FS_Subset
  <2>2. n \in s.host_cids => Cardinality(s.host_cids \ {n}) = Cardinality(s.host_cids) - 1
        BY <2>1, FS_RemoveElement
  <2>3. IsFiniteSet(held)
        BY <2>1, FS_Subset
  <2>4. n \notin s.host_cids => held = s.host_cids
        OBVIOUS
  <2>5. QED BY <1>2, <2>1, <2>2, <2>3, <2>4
<1>6. missing = IF n \in s.host_cids THEN 1 ELSE 0
      BY <1>5, LimitAssumption
<1> HIDE DEF missing, held
<1>7. new = IF n \in s.host_cids THEN {seq} ELSE {}
  <2>1. seq..(seq + 1 - 1) = {seq} /\ seq..(seq + 0 - 1) = {}
        BY <1>1
  <2>2. QED BY <1>6, <2>1
<1>8. then \in Seq(EventType)
  <2>1. <<"retired", n>> \in EventType
        BY <1>4 DEF EventType
  <2>2. QED BY <1>1, <2>1, AppendProperties
<1>9. t = [s EXCEPT !.host_cids = held \cup new,
                    !.unsent = (s.unsent \ {n}) \cup new,
                    !.host_cid_seq = seq + missing,
                    !.events = then]
  <2> DEFINE r == [s EXCEPT !.host_cids = @ \ {n}, !.unsent = @ \ {n},
                            !.events = IF n \in s.host_cids
                                       THEN Append(@, <<"retired", n>>) ELSE @]
  <2>1. t = _replenish_connection_ids(r)
    <3>1. ~(n >= seq)
          BY <1>1, <1>4
    <3>2. QED BY <3>1 DEF _handle_retire_connection_id_frame
  <2>2. /\ r = [s EXCEPT !.host_cids = held, !.unsent = s.unsent \ {n}, !.events = then]
        /\ r.host_cids = held /\ r.unsent = s.unsent \ {n} /\ r.host_cid_seq = seq
        /\ r.events = then
        BY <1>1 DEF State, held
  <2>3. t = [r EXCEPT !.host_cids = held \cup new, !.unsent = (s.unsent \ {n}) \cup new,
                      !.host_cid_seq = seq + missing]
    <3> HIDE DEF r, then, new
    <3>1. QED BY <2>1, <2>2 DEF _replenish_connection_ids, missing, new
  <2> HIDE DEF t, r, then, new
  <2>4. QED BY <1>1, <2>2, <2>3 DEF State
<1>10. missing \in Nat /\ new \in SUBSET Nat /\ held \in SUBSET Nat
      BY <1>1, <1>6, <1>7 DEF held
<1> HIDE DEF new, then
<1>11. /\ t \in State
      /\ PeerOf(t) = PeerOf(s) /\ PathsOf(t) = PathsOf(s) /\ RestOf(t) = RestOf(s)
      /\ t.failed = s.failed
  <2> HIDE DEF t
  <2>1. /\ held \cup new \in SUBSET Nat /\ (s.unsent \ {n}) \cup new \in SUBSET Nat
        /\ seq + missing \in Nat
    <3>1. held \cup new \in SUBSET Nat
          BY <1>10
    <3>2. (s.unsent \ {n}) \cup new \in SUBSET Nat
          BY <1>1, <1>10
    <3>3. seq + missing \in Nat
          BY <1>1, <1>10
    <3>4. QED BY <3>1, <3>2, <3>3
  <2> HIDE DEF seq
  <2>2. t \in State
        BY <1>1, <1>8, <1>9, <2>1 DEF State
  <2>3. PeerOf(t) = PeerOf(s) /\ PathsOf(t) = PathsOf(s)
        BY <1>1, <1>9 DEF State, PeerOf, PathsOf
  <2>4. RestOf(t) = RestOf(s) /\ t.failed = s.failed
        BY <1>1, <1>9 DEF State, RestOf
  <2>5. QED BY <2>2, <2>3, <2>4
<1>12. /\ t.host_cids = held \cup new /\ t.unsent = (s.unsent \ {n}) \cup new
      /\ t.host_cid_seq = seq + missing /\ t.events = then
      BY <1>1, <1>9 DEF State
<1> HIDE DEF t
<1>13. OwnIds(t)
  <2>1. t.host_cids \subseteq 0..(t.host_cid_seq - 1)
    <3>1. \A k \in held : k \in 0..(seq - 1)
          BY <1>2 DEF held
    <3>2. \A k \in new : k = seq /\ missing = 1
          BY <1>6, <1>7
    <3>3. \A k \in 0..(seq - 1) : k \in 0..((seq + missing) - 1)
          BY <1>1, <1>10
    <3>4. missing = 1 => seq \in 0..((seq + missing) - 1)
          BY <1>1
    <3> HIDE DEF seq
    <3>5. ASSUME NEW k \in held \cup new PROVE k \in 0..((seq + missing) - 1)
      <4>1. CASE k \in held
            BY <3>1, <3>3, <4>1
      <4>2. CASE k \in new
            BY <3>2, <3>4, <4>2
      <4>3. QED BY <3>5, <4>1, <4>2
    <3>6. held \cup new \subseteq 0..((seq + missing) - 1)
          BY <3>5
    <3>7. t.host_cids = held \cup new /\ t.host_cid_seq = seq + missing
          BY <1>12
    <3>8. QED BY <3>6, <3>7
  <2>2. Cardinality(t.host_cids) = Limit
    <3>1. CASE n \in s.host_cids
      <4>1. new = {seq} /\ seq \notin held /\ Cardinality(held) = Limit - 1
            BY <1>1, <1>2, <1>5, <1>7, <3>1 DEF held
      <4>2. Cardinality(held \cup {seq}) = Cardinality(held) + 1
            BY <1>5, <4>1, FS_AddElement
      <4>3. QED BY <1>12, <4>1, <4>2, LimitAssumption
    <3>2. CASE n \notin s.host_cids
          BY <1>5, <1>7, <1>12, <3>2
    <3>3. QED BY <3>1, <3>2
  <2>3. t.unsent \subseteq t.host_cids
        BY <1>2, <1>12 DEF held
  <2>4. QED BY <2>1, <2>2, <2>3 DEF OwnIds
<1>14. seq <= t.host_cid_seq
      BY <1>1, <1>10, <1>12
<1>15. Agree(other, t)
  <2>1. other.peer_cid_sequence_numbers \subseteq 0..(t.host_cid_seq - 1)
        BY <1>1, <1>3, <1>10, <1>12
  <2>2. ASSUME NEW k \in 0..(t.host_cid_seq - 1), k \notin Gone(other)
        PROVE  k \in t.host_cids
    <3>1. CASE k \in 0..(seq - 1)
          BY <1>3, <1>12, <2>2, <3>1 DEF held
    <3>2. CASE k \notin 0..(seq - 1)
      <4>1. k = seq /\ n \in s.host_cids
            BY <1>1, <1>6, <1>12, <3>2
      <4>2. QED BY <1>7, <1>12, <4>1
    <3>3. QED BY <3>1, <3>2
  <2>3. QED BY <2>1, <2>2 DEF Agree
<1>16. TableOf(x, t, table)
  <2>1. SUFFICES ASSUME x = "server", ~t.terminated
                 PROVE  /\ t.host_cids \ t.unsent \subseteq _process_events(table, t.events)
                        /\ _process_events(table, t.events) \subseteq t.host_cids
        BY DEF TableOf
  <2> DEFINE before == _process_events(table, s.events)
  <2>2. s.host_cids \ s.unsent \subseteq before /\ before \subseteq s.host_cids
    <3>1. ~s.terminated
          BY <1>11, <2>1 DEF RestOf
    <3>2. QED BY <2>1, <3>1 DEF Sound, TableOf
  <2>3. CASE n \in s.host_cids
    <3>1. _process_events(table, then) = Take(before, <<"retired", n>>)
      <4>1. then = Append(s.events, <<"retired", n>>) /\ <<"retired", n>> \in EventType
            BY <1>4, <2>3 DEF then, EventType
      <4>2. QED BY <1>1, <4>1, ProcessOne
    <3>2. _process_events(table, then) = before \ {n}
          BY <3>1 DEF Take
    <3>3. QED BY <1>12, <2>2, <3>2 DEF held
  <2>4. CASE n \notin s.host_cids
    <3>1. then = s.events
          BY <2>4 DEF then
    <3>2. QED BY <1>2, <1>7, <1>12, <2>2, <2>4, <3>1 DEF held
  <2>5. QED BY <2>3, <2>4
<1>17. PeerIds(t) /\ Gone(t) = Gone(s) /\ Agree(t, other)
      BY <1>11, SamePeer DEF Sound
<1>18. Paths(t) /\ Challenged(x, t, seen) /\ SamePlaces(s, t)
      BY <1>11, SamePaths DEF Sound
<1>19. Sound(x, t, other, seen, table)
  <2>1. FailedWell(t)
        BY <1>11, <1>17, SameFailed DEF Sound
  <2>2. QED BY <1>11, <1>13, <1>15, <1>16, <1>17, <1>18, <2>1 DEF Sound
<1>20. Follows(s, t)
      BY <1>11, <1>14, <1>17 DEF Follows
<1>21. QED BY <1>18, <1>19, <1>20 DEF t

\* One path changes, not in its address.
PathChanges(x, s, t, seen, i, q, out) ==
    /\ i \in 1..Len(s.network_paths)
    /\ q \in PathType
    /\ q.addr = s.network_paths[i].addr
    /\ x = "client" => Range(q.remote_challenges) \subseteq seen
    /\ x = "server" /\ q.is_validated => q.addr \in {Home} \cup seen
    /\ out \in SUBSET Place
    /\ \A c \in out : c \in s.local_challenges \/ c = q.addr
    /\ t = [s EXCEPT !.network_paths = [@ EXCEPT ![i] = q], !.local_challenges = out]

\* That does no harm.
LEMMA PathSound ==
    ASSUME NEW x \in End, NEW s, NEW t, NEW other, NEW seen, NEW table,
           Sound(x, s, other, seen, table),
           NEW i, NEW q, NEW out, PathChanges(x, s, t, seen, i, q, out)
    PROVE  Sound(x, t, other, seen, table) /\ Follows(s, t) /\ SamePlaces(s, t)
<1> DEFINE paths == s.network_paths
           then == [paths EXCEPT ![i] = q]
<1> USE DEF PathChanges
<1>1. s \in State /\ paths \in Seq(PathType) /\ Len(paths) \in Nat /\ DOMAIN paths = 1..Len(paths)
      BY StateFields, LenProperties DEF Sound
<1>2. /\ then \in Seq(PathType) /\ Len(then) = Len(paths)
      /\ \A j \in 1..Len(paths) : then[j] = IF j = i THEN q ELSE paths[j]
      BY <1>1, ExceptSeq
<1> HIDE DEF then
<1>3. DOMAIN then = 1..Len(paths)
      BY <1>2, LenProperties
<1>4. t = [s EXCEPT !.network_paths = then, !.local_challenges = out]
      BY <1>1 DEF State, then
<1>5. /\ t \in State
      /\ OwnOf(t) = OwnOf(s) /\ PeerOf(t) = PeerOf(s)
      /\ TakenOf(t) = TakenOf(s) /\ RestOf(t) = RestOf(s)
  <2>0. s \in State /\ then \in Seq(PathType) /\ out \in SUBSET Place
        BY <1>1, <1>2
  <2>1. t \in State
        BY ONLY <2>0, <1>4 DEF State
  <2>2. OwnOf(t) = OwnOf(s) /\ PeerOf(t) = PeerOf(s)
        BY <1>1, <1>4 DEF State, OwnOf, PeerOf
  <2>3. TakenOf(t) = TakenOf(s) /\ RestOf(t) = RestOf(s)
        BY <1>1, <1>4 DEF State, TakenOf, RestOf
  <2>4. QED BY <2>1, <2>2, <2>3
<1>6. t.network_paths = then /\ t.local_challenges = out
      BY <1>1, <1>4 DEF State
<1>7. /\ paths # << >>
      /\ \A c \in s.local_challenges : \E j \in 1..Len(paths) : paths[j].addr = c
      BY <1>1 DEF Sound, Paths
<1>8. SamePlaces(s, t)
      BY <1>2, <1>6 DEF SamePlaces
<1>9. Paths(t)
  <2>1. then # << >>
        BY <1>1, <1>2, <1>7, EmptySeq
  <2>2. \A j \in 1..Len(paths) : then[j].addr = paths[j].addr
        BY <1>2
  <2>3. ASSUME NEW c \in out PROVE \E j \in 1..Len(paths) : then[j].addr = c
        BY <1>7, <2>2
  <2>4. QED BY <1>3, <1>6, <2>1, <2>3 DEF Paths
<1>10. Challenged(x, t, seen)
  <2>1. Challenged(x, s, seen)
        BY DEF Sound
  <2>2. ASSUME x = "client", NEW j \in 1..Len(paths)
        PROVE  Range(then[j].remote_challenges) \subseteq seen
        BY <1>1, <1>2, <2>1, <2>2 DEF Challenged
  <2>3. ASSUME x = "server", NEW j \in 1..Len(paths), then[j].is_validated
        PROVE  then[j].addr \in {Home} \cup seen
        BY <1>1, <1>2, <2>1, <2>3 DEF Challenged
  <2>4. QED BY <1>3, <1>6, <2>2, <2>3 DEF Challenged
<1>11. OwnIds(t) /\ Agree(other, t) /\ t.host_cid_seq = s.host_cid_seq
      BY <1>5, SameOwn DEF Sound
<1>12. PeerIds(t) /\ Gone(t) = Gone(s) /\ Agree(t, other)
      BY <1>5, SamePeer DEF Sound
<1>13. TableOf(x, t, table) /\ FailedWell(t)
      BY <1>5, <1>12, SameTable, SameFailed DEF Sound, TakenOf
<1>14. Sound(x, t, other, seen, table)
      BY <1>5, <1>9, <1>10, <1>11, <1>12, <1>13 DEF Sound
<1>15. Follows(s, t)
      BY <1>1, <1>5, <1>11, <1>12, StateFields DEF Follows
<1>16. QED BY <1>8, <1>14, <1>15

\* _handle_path_challenge_frame(): the challenge waits for its answer.
LEMMA ChallengeSound ==
    ASSUME NEW x \in End, NEW s, NEW other, NEW seen, NEW table,
           Sound(x, s, other, seen, table),
           NEW i \in 1..Len(s.network_paths), NEW c \in Place,
           x = "client" => c \in seen
    PROVE  /\ Sound(x, _handle_path_challenge_frame(s, i, c), other, seen, table)
           /\ Follows(s, _handle_path_challenge_frame(s, i, c))
           /\ SamePlaces(s, _handle_path_challenge_frame(s, i, c))
<1> DEFINE t == _handle_path_challenge_frame(s, i, c)
           path == s.network_paths[i]
           q == [path EXCEPT !.remote_challenges = Append(@, c)]
<1>1. s \in State /\ s.network_paths \in Seq(PathType) /\ s.local_challenges \in SUBSET Place
      BY StateFields DEF Sound
<1>2. path \in PathType /\ path.remote_challenges \in Seq(Place)
  <2>1. path \in PathType
        BY <1>1, ElementOfSeq
  <2> HIDE DEF path
  <2>2. QED BY <2>1 DEF PathType
<1>3. /\ Append(path.remote_challenges, c) \in Seq(Place)
      /\ Range(Append(path.remote_challenges, c)) = Range(path.remote_challenges) \cup {c}
      BY <1>2, AppendProperties, RangeOfAppend
<1>4. /\ q \in PathType /\ q.addr = path.addr /\ q.is_validated = path.is_validated
      /\ q.remote_challenges = Append(path.remote_challenges, c)
      BY <1>2, <1>3 DEF PathType
<1>5. i \in DOMAIN s.network_paths
      BY <1>1, LenProperties
<1>6. t = [s EXCEPT !.network_paths = [@ EXCEPT ![i] = q],
                    !.local_challenges = s.local_challenges]
      BY <1>1, <1>5 DEF State, _handle_path_challenge_frame
<1>7. /\ x = "client" => Range(q.remote_challenges) \subseteq seen
      /\ x = "server" /\ q.is_validated => q.addr \in {Home} \cup seen
      BY <1>3, <1>4, <1>5 DEF Sound, Challenged
<1> HIDE DEF q, t
<1>8. Sound(x, t, other, seen, table) /\ Follows(s, t) /\ SamePlaces(s, t)
  <2>1. PathChanges(x, s, t, seen, i, q, s.local_challenges)
        BY <1>1, <1>4, <1>6, <1>7 DEF PathChanges
  <2>2. QED BY <2>1, PathSound
<1>9. QED BY <1>8 DEF t

\* _handle_path_response_frame(): if a challenge is answered that is out, the path it
\* was sent on is validated.
LEMMA ResponseSound ==
    ASSUME NEW x \in End, NEW s, NEW other, NEW seen, NEW table,
           Sound(x, s, other, seen, table), NEW c,
           x = "server" => c \in seen
    PROVE  /\ Sound(x, _handle_path_response_frame(s, c), other, seen, table)
           /\ Follows(s, _handle_path_response_frame(s, c))
           /\ SamePlaces(s, _handle_path_response_frame(s, c))
<1> DEFINE t == _handle_path_response_frame(s, c)
           paths == s.network_paths
<1>1. s \in State /\ paths \in Seq(PathType) /\ s.local_challenges \in SUBSET Place
      /\ Len(paths) \in Nat /\ DOMAIN paths = 1..Len(paths)
      BY StateFields, LenProperties DEF Sound
<1>2. CASE c \notin s.local_challenges
  <2>1. t = [s EXCEPT !.failed = "response"]
        BY <1>2 DEF _handle_path_response_frame
  <2> HIDE DEF t
  <2>2. t \in State /\ t.failed = "response" /\ OwnOf(t) = OwnOf(s) /\ PeerOf(t) = PeerOf(s)
    <3>1. t \in State /\ t.failed = "response"
          BY ONLY <1>1, <2>1 DEF State, Reason
    <3>2. OwnOf(t) = OwnOf(s) /\ PeerOf(t) = PeerOf(s)
          BY ONLY <1>1, <2>1 DEF State, OwnOf, PeerOf
    <3>3. QED BY <3>1, <3>2
  <2>3. PathsOf(t) = PathsOf(s) /\ RestOf(t) = RestOf(s) /\ t.events = s.events
        BY <1>1, <2>1 DEF State, PathsOf, RestOf
  <2> HIDE DEF t
  <2>4. OwnIds(t) /\ Agree(other, t) /\ t.host_cid_seq = s.host_cid_seq
        BY <2>2, SameOwn DEF Sound
  <2>5. PeerIds(t) /\ Gone(t) = Gone(s) /\ Agree(t, other)
        BY <2>2, SamePeer DEF Sound
  <2>6. Paths(t) /\ Challenged(x, t, seen) /\ SamePlaces(s, t)
        BY <2>3, SamePaths DEF Sound
  <2>7. TableOf(x, t, table)
        BY <2>2, <2>3 DEF Sound, TableOf, OwnOf, RestOf
  <2>8. Sound(x, t, other, seen, table)
    <3>1. FailedWell(t)
          BY <2>2 DEF FailedWell
    <3>2. QED BY <2>2, <2>4, <2>5, <2>6, <2>7, <3>1 DEF Sound
  <2>9. Follows(s, t)
        BY <1>1, <2>3, <2>4, <2>5, StateFields DEF Follows
  <2>10. QED BY <2>6, <2>8, <2>9 DEF t
<1>3. CASE c \in s.local_challenges
  <2> DEFINE i == CHOOSE i \in DOMAIN paths : paths[i].addr = c
             q == [paths[i] EXCEPT !.is_validated = TRUE]
             out == s.local_challenges \ {c}
  <2>1. \E j \in DOMAIN paths : paths[j].addr = c
        BY <1>3 DEF Sound, Paths
  <2>2. i \in 1..Len(paths) /\ paths[i].addr = c
        BY <1>1, <2>1
  <2>3. t = [s EXCEPT !.local_challenges = out, !.network_paths[i].is_validated = TRUE]
        BY <1>3 DEF _handle_path_response_frame
  <2> HIDE DEF i, t
  <2>4. paths[i] \in PathType
        BY <1>1, <2>2, ElementOfSeq
  <2>5. /\ q \in PathType /\ q.addr = paths[i].addr
        /\ q.remote_challenges = paths[i].remote_challenges
        BY <2>4 DEF PathType
  <2>6. t = [s EXCEPT !.network_paths = [@ EXCEPT ![i] = q], !.local_challenges = out]
        BY <1>1, <2>2, <2>3 DEF State
  <2>7. /\ x = "client" => Range(q.remote_challenges) \subseteq seen
        /\ x = "server" /\ q.is_validated => q.addr \in {Home} \cup seen
        BY <1>1, <2>2, <2>5 DEF Sound, Challenged
  <2>8. out \in SUBSET Place /\ \A d \in out : d \in s.local_challenges \/ d = q.addr
        BY <1>1
  <2> HIDE DEF q, out
  <2>9. Sound(x, t, other, seen, table) /\ Follows(s, t) /\ SamePlaces(s, t)
    <3>1. PathChanges(x, s, t, seen, i, q, out)
          BY <2>2, <2>5, <2>6, <2>7, <2>8 DEF PathChanges
    <3>2. QED BY <3>1, PathSound
  <2>10. QED BY <2>9 DEF t
<1>4. QED BY <1>2, <1>3

\* _find_network_path(): the path of the address is known from now on, and the path in
\* use stays.
LEMMA FindSound ==
    ASSUME NEW x \in End, NEW s, NEW other, NEW seen, NEW table,
           Sound(x, s, other, seen, table), NEW addr \in Place
    PROVE  /\ Sound(x, _find_network_path(s, addr), other, seen, table)
           /\ Follows(s, _find_network_path(s, addr))
           /\ PathOf(_find_network_path(s, addr), addr)
                  \in 1..Len(_find_network_path(s, addr).network_paths)
           /\ _find_network_path(s, addr)
                  .network_paths[PathOf(_find_network_path(s, addr), addr)].addr = addr
           /\ _find_network_path(s, addr).network_paths[1] = s.network_paths[1]
<1> DEFINE t == _find_network_path(s, addr)
           paths == s.network_paths
           Known(r) == \E i \in DOMAIN r.network_paths : r.network_paths[i].addr = addr
<1>1. s \in State /\ paths \in Seq(PathType) /\ Len(paths) \in Nat /\ DOMAIN paths = 1..Len(paths)
      BY StateFields, LenProperties DEF Sound
<1>2. ASSUME NEW r, Known(r)
      PROVE  /\ PathOf(r, addr) \in DOMAIN r.network_paths
             /\ r.network_paths[PathOf(r, addr)].addr = addr
      BY <1>2 DEF PathOf
<1>3. CASE Known(s)
  <2>1. t = s
        BY <1>2, <1>3 DEF _find_network_path
  <2>2. Follows(s, s)
        BY <1>1, StateFields DEF Follows
  <2> HIDE DEF t
  <2>3. PathOf(t, addr) \in 1..Len(t.network_paths) /\ t.network_paths[PathOf(t, addr)].addr = addr
        BY <1>1, <1>2, <1>3, <2>1
  <2>4. QED BY <2>1, <2>2, <2>3 DEF t
<1>4. CASE ~Known(s)
  <2> DEFINE new == Path(addr, FALSE)
             then == Append(paths, new)
             n == Len(paths) + 1
  <2>1. /\ new \in PathType /\ new.addr = addr /\ new.is_validated = FALSE
        /\ Range(new.remote_challenges) = {}
    <3>1. << >> \in Seq(Place)
          BY EmptySeq
    <3>2. Range(<< >>) = {}
          BY DEF Range
    <3>3. QED BY <3>1, <3>2 DEF Path, PathType
  <2>2. PathOf(s, addr) = n
        BY <1>4 DEF PathOf
  <2>3. t = [s EXCEPT !.network_paths = then]
    <3>1. n \notin DOMAIN paths
          BY <1>1
    <3>2. QED BY <2>2, <3>1 DEF _find_network_path
  <2> HIDE DEF new
  <2>4. /\ then \in Seq(PathType) /\ Len(then) = n
        /\ \A i \in 1..Len(paths) : then[i] = paths[i]
        /\ then[n] = new
        BY <1>1, <2>1, AppendProperties
  <2> HIDE DEF then
  <2>5. /\ t \in State
        /\ OwnOf(t) = OwnOf(s) /\ PeerOf(t) = PeerOf(s)
        /\ TakenOf(t) = TakenOf(s) /\ RestOf(t) = RestOf(s)
    <3>1. t \in State
          BY <1>1, <2>3, <2>4 DEF State
    <3>2. OwnOf(t) = OwnOf(s) /\ PeerOf(t) = PeerOf(s)
          BY <1>1, <2>3 DEF State, OwnOf, PeerOf
    <3>3. TakenOf(t) = TakenOf(s) /\ RestOf(t) = RestOf(s)
          BY <1>1, <2>3 DEF State, TakenOf, RestOf
    <3>4. QED BY <3>1, <3>2, <3>3
  <2>6. t.network_paths = then /\ t.local_challenges = s.local_challenges
        BY <1>1, <2>3 DEF State
  <2> HIDE DEF t
  <2>7. n \in Nat /\ DOMAIN then = 1..n /\ \A i \in 1..n : i \in 1..Len(paths) \/ i = n
        BY <1>1, <2>4, LenProperties
  <2>8. Paths(t)
    <3>1. \A c \in s.local_challenges : \E i \in 1..Len(paths) : then[i].addr = c
          BY <1>1, <2>4 DEF Sound, Paths
    <3>2. then # << >>
          BY <1>1, <2>4, EmptySeq
    <3>3. \A i \in 1..Len(paths) : i \in DOMAIN then
          BY <1>1, <2>7
    <3>4. QED BY <2>6, <3>1, <3>2, <3>3 DEF Paths
  <2>9. Challenged(x, t, seen)
    <3>1. \A i \in 1..Len(paths) : i \in DOMAIN paths
          BY <1>1
    <3>2. Challenged(x, s, seen)
          BY DEF Sound
    <3>3. \A i \in DOMAIN then : (\E j \in DOMAIN paths : then[i] = paths[j]) \/ then[i] = new
          BY <2>4, <2>7, <3>1
    <3>4. QED BY <2>1, <2>6, <3>2, <3>3 DEF Challenged
  <2>10. OwnIds(t) /\ Agree(other, t) /\ t.host_cid_seq = s.host_cid_seq
        BY <2>5, SameOwn DEF Sound
  <2>11. PeerIds(t) /\ Gone(t) = Gone(s) /\ Agree(t, other)
        BY <2>5, SamePeer DEF Sound
  <2>12. TableOf(x, t, table) /\ FailedWell(t)
        BY <2>5, <2>11, SameTable, SameFailed DEF Sound, TakenOf
  <2>13. Sound(x, t, other, seen, table)
        BY <2>5, <2>8, <2>9, <2>10, <2>11, <2>12 DEF Sound
  <2>14. Follows(s, t)
        BY <1>1, <2>5, <2>10, <2>11, StateFields DEF Follows
  <2>15. Known(t)
    <3>1. n \in DOMAIN then
          BY <1>1, <2>7
    <3>2. QED BY <2>1, <2>4, <2>6, <3>1
  <2>16. PathOf(t, addr) \in 1..Len(t.network_paths) /\ t.network_paths[PathOf(t, addr)].addr = addr
        BY <1>2, <2>4, <2>6, <2>7, <2>15
  <2>17. t.network_paths[1] = paths[1]
    <3>1. paths # << >>
          BY DEF Sound, Paths
    <3>2. 1 \in 1..Len(paths)
          BY <1>1, <3>1, EmptySeq
    <3>3. QED BY <2>4, <2>6, <3>2
  <2>18. QED BY <2>13, <2>14, <2>16, <2>17 DEF t
<1>5. QED BY <1>3, <1>4

\* _handle_ack_frame(): what was issued or retired in packets that are lost waits again.
LEMMA AckSound ==
    ASSUME NEW x \in End, NEW s, NEW other, NEW seen, NEW table,
           Sound(x, s, other, seen, table),
           NEW ack, NEW lost \in SUBSET Overtaken(s, ack)
    PROVE  /\ Sound(x, _handle_ack_frame(s, ack, lost), other, seen, table)
           /\ Follows(s, _handle_ack_frame(s, ack, lost))
           /\ SamePlaces(s, _handle_ack_frame(s, ack, lost))
<1> DEFINE t == _handle_ack_frame(s, ack, lost)
           acked == {p \in s.sent_packets : p.pn \in ack}
           left == (s.sent_packets \ acked) \ lost
           issued == UNION {p.new_cids : p \in lost}
           again == issued \cap s.host_cids
           tail == FlattenSeq(SetToSeq({p.retired : p \in lost}))
           retire == s.retire_connection_ids \o tail
<1>1. /\ s \in State /\ s.sent_packets \in SUBSET SentType /\ Gone(s) \in SUBSET Nat
      /\ s.retire_connection_ids \in Seq(Nat)
      /\ s.unsent \in SUBSET Nat /\ s.host_cids \in SUBSET Nat
      BY StateFields DEF Sound
<1>2. /\ IsFiniteSet(s.sent_packets)
      /\ \A q \in s.sent_packets : Range(q.retired) \subseteq Gone(s)
      /\ Range(s.retire_connection_ids) \subseteq Gone(s)
      /\ RetiredOnce(s)
      BY DEF Sound, PeerIds
<1>3. lost \subseteq s.sent_packets
      BY DEF Overtaken
<1> DEFINE those == UNION {Range(q.retired) : q \in lost}
<1>4. tail \in Seq(Nat) /\ Range(tail) \subseteq those /\ IsInjective(tail)
  <2>1. IsFiniteSet(lost)
        BY <1>2, <1>3, FS_Subset
  <2>2. lost \in SUBSET SentType /\ those \in SUBSET Nat
        BY <1>1, <1>2, <1>3
  <2>3. /\ \A q \in lost : Range(q.retired) \subseteq those /\ IsInjective(q.retired)
        /\ \A q, r \in lost : q # r => Range(q.retired) \cap Range(r.retired) = {}
        BY <1>2, <1>3 DEF RetiredOnce
  <2> HIDE DEF those
  <2>4. QED BY <2>1, <2>2, <2>3, RetiredAgain
<1>5. those \subseteq Gone(s) /\ those \cap Range(s.retire_connection_ids) = {}
       BY <1>2, <1>3 DEF RetiredOnce
<1>6. \A q \in left : Range(q.retired) \cap those = {}
       BY <1>2, <1>3 DEF RetiredOnce
<1> HIDE DEF tail, issued, those
<1>7. /\ retire \in Seq(Nat) /\ IsInjective(retire)
      /\ Range(retire) = Range(s.retire_connection_ids) \cup Range(tail)
  <2>1. retire \in Seq(Nat) /\ Range(retire) = Range(s.retire_connection_ids) \cup Range(tail)
        BY <1>1, <1>4, ConcatProperties, RangeConcatenation
  <2>2. IsInjective(retire)
    <3>1. Range(s.retire_connection_ids) \cap Range(tail) = {}
          BY <1>4, <1>5
    <3>2. IsInjective(s.retire_connection_ids)
          BY <1>2 DEF RetiredOnce
    <3>3. QED BY <1>1, <1>4, <3>1, <3>2, ConcatOnce
  <2>3. QED BY <2>1, <2>2
<1>8. left \in SUBSET SentType /\ again \in SUBSET s.host_cids
  <2>1. left \in SUBSET SentType
        BY <1>1
  <2>2. again \in SUBSET s.host_cids
        OBVIOUS
  <2>3. QED BY <2>1, <2>2
<1>9. t = [s EXCEPT !.sent_packets = left, !.unsent = s.unsent \cup again,
                    !.retire_connection_ids = retire]
  <2> DEFINE r == [s EXCEPT !.sent_packets = @ \ acked]
  <2>1. t = _on_packets_lost(r, lost)
        BY DEF _handle_ack_frame
  <2>2. /\ r.sent_packets = s.sent_packets \ acked /\ r.unsent = s.unsent
        /\ r.host_cids = s.host_cids /\ r.retire_connection_ids = s.retire_connection_ids
        BY <1>1 DEF State
  <2> HIDE DEF r, acked, t
  <2>3. t = [r EXCEPT !.sent_packets = left, !.unsent = s.unsent \cup again,
                      !.retire_connection_ids = retire]
    <3>1. t = [r EXCEPT !.sent_packets = @ \ lost, !.unsent = @ \cup (issued \cap r.host_cids),
                        !.retire_connection_ids = @ \o tail]
          BY <2>1 DEF _on_packets_lost, tail, issued
    <3>2. QED BY <2>2, <3>1
  <2> HIDE DEF left, again, retire
  <2>4. QED BY <1>1, <2>3 DEF State, r
<1> HIDE DEF left, again, retire, t
<1>10. s.unsent \cup again \in SUBSET Nat
      BY <1>1, <1>8
<1>11. /\ t \in State
       /\ PathsOf(t) = PathsOf(s) /\ TakenOf(t) = TakenOf(s) /\ RestOf(t) = RestOf(s)
  <2>1. t \in State
        BY <1>1, <1>7, <1>8, <1>9, <1>10 DEF State
  <2>2. PathsOf(t) = PathsOf(s) /\ TakenOf(t) = TakenOf(s) /\ RestOf(t) = RestOf(s)
        BY <1>1, <1>9 DEF State, PathsOf, TakenOf, RestOf
  <2>3. QED BY <2>1, <2>2
<1>12. /\ t.host_cids = s.host_cids /\ t.host_cid_seq = s.host_cid_seq
       /\ t.unsent = s.unsent \cup again /\ t.peer_cid = s.peer_cid
       /\ t.peer_cid_available = s.peer_cid_available
       /\ t.peer_cid_sequence_numbers = s.peer_cid_sequence_numbers
       /\ t.retire_connection_ids = retire /\ t.sent_packets = left
      BY <1>1, <1>9 DEF State
<1>13. OwnIds(t)
      BY <1>8, <1>12 DEF Sound, OwnIds
<1>14. Gone(t) = Gone(s)
      BY <1>12 DEF Gone
<1>15. PeerIds(t)
  <2>1. left \subseteq s.sent_packets
        BY DEF left
  <2>2. IsFiniteSet(left)
        BY <1>2, <2>1, FS_Subset
  <2>3. Range(retire) \subseteq Gone(s)
        BY <1>2, <1>4, <1>5, <1>7
  <2>4. RetiredOnce(t)
    <3>1. \A q \in left : Range(q.retired) \cap Range(retire) = {}
          BY <1>2, <1>4, <1>6, <1>7, <2>1 DEF RetiredOnce
    <3>2. QED BY <1>2, <1>7, <1>12, <2>1, <3>1 DEF RetiredOnce
  <2>5. QED BY <1>2, <1>12, <1>14, <2>1, <2>2, <2>3, <2>4 DEF Sound, PeerIds
<1>16. Agree(t, other) /\ Agree(other, t)
      BY <1>12, <1>14 DEF Sound, Agree
<1>17. Paths(t) /\ Challenged(x, t, seen) /\ SamePlaces(s, t)
      BY <1>11, SamePaths DEF Sound
<1>18. TableOf(x, t, table)
      BY <1>11, <1>12 DEF Sound, TableOf, TakenOf, RestOf
<1>19. Sound(x, t, other, seen, table)
  <2>1. FailedWell(t)
        BY <1>11, <1>14, SameFailed DEF Sound, TakenOf
  <2>2. QED BY <1>11, <1>13, <1>15, <1>16, <1>17, <1>18, <2>1 DEF Sound
<1>20. Follows(s, t)
      BY <1>1, <1>11, <1>12, <1>14, StateFields DEF Follows
<1>21. QED BY <1>17, <1>19, <1>20 DEF t

-----------------------------------------------------------------------------
(* The frames of a packet.                                                 *)

\* One step after the other follows the first.
LEMMA FollowsOn ==
    ASSUME NEW r \in State, NEW s \in State, NEW t \in State, Follows(r, s), Follows(s, t)
    PROVE  Follows(r, t)
<1>1. r.host_cid_seq \in Nat /\ s.host_cid_seq \in Nat /\ t.host_cid_seq \in Nat
      BY StateFields
<1>2. r.host_cid_seq <= s.host_cid_seq /\ s.host_cid_seq <= t.host_cid_seq
      BY DEF Follows
<1>3. r.host_cid_seq <= t.host_cid_seq
      BY <1>1, <1>2
<1>4. QED BY <1>3 DEF Follows

\* Addresses that stay twice stay.
LEMMA SamePlacesOn ==
    ASSUME NEW r, NEW s, NEW t, SamePlaces(r, s), SamePlaces(s, t)
    PROVE  SamePlaces(r, t)
BY DEF SamePlaces

\* Frames that an end may get: answers, IDs that the other has issued, and IDs that the
\* other is done with, of which the one that the packet is for is none.
Expected(x, other, seen, dcid) ==
    ({"response"} \X (IF x = "server" THEN seen ELSE Place))
        \cup ({"new"} \X (0..(other.host_cid_seq - 1)))
        \cup ({"retire"} \X (Gone(other) \ {dcid}))

\* Each is handled without harm.
LEMMA FrameSound ==
    ASSUME NEW x \in End, NEW s, NEW other \in State, OwnIds(other), NEW seen,
           NEW table \in SUBSET Nat, Sound(x, s, other, seen, table), NEW dcid,
           NEW frame \in Expected(x, other, seen, dcid)
    PROVE  /\ Sound(x, _handle_frame(s, frame, dcid), other, seen, table)
           /\ Follows(s, _handle_frame(s, frame, dcid))
           /\ SamePlaces(s, _handle_frame(s, frame, dcid))
<1>1. s \in State
      BY DEF Sound
<1>2. CASE s.failed # None
  <2>1. _handle_frame(s, frame, dcid) = s
        BY <1>2 DEF _handle_frame
  <2>2. Follows(s, s) /\ SamePlaces(s, s)
        BY <1>1, StateFields DEF Follows, SamePlaces
  <2>3. QED BY <2>1, <2>2
<1>3. CASE s.failed = None
  <2>1. CASE frame \in {"response"} \X (IF x = "server" THEN seen ELSE Place)
    <3>1. frame[1] = "response" /\ (x = "server" => frame[2] \in seen)
          BY <2>1
    <3>2. _handle_frame(s, frame, dcid) = _handle_path_response_frame(s, frame[2])
          BY <1>3, <3>1 DEF _handle_frame
    <3>3. QED BY <3>1, <3>2, ResponseSound
  <2>2. CASE frame \in {"new"} \X (0..(other.host_cid_seq - 1))
    <3>1. frame[1] = "new" /\ frame[2] \in 0..(other.host_cid_seq - 1)
          BY <2>2
    <3>2. _handle_frame(s, frame, dcid) = _handle_new_connection_id_frame(s, frame[2])
          BY <1>3, <3>1 DEF _handle_frame
    <3>3. QED BY <3>1, <3>2, NewSound
  <2>3. CASE frame \in {"retire"} \X (Gone(other) \ {dcid})
    <3>1. frame[1] = "retire" /\ frame[2] \in Gone(other) /\ frame[2] # dcid
          BY <2>3
    <3>2. _handle_frame(s, frame, dcid) = _handle_retire_connection_id_frame(s, frame[2], dcid)
          BY <1>3, <3>1 DEF _handle_frame
    <3>3. QED BY <3>1, <3>2, RetireSound
  <2>4. QED BY <2>1, <2>2, <2>3 DEF Expected
<1>4. QED BY <1>2, <1>3

\* Items of one kind.
LEMMA TaggedType ==
    ASSUME NEW kind, NEW S, NEW items \in Seq(S), NEW T, {kind} \X S \subseteq T
    PROVE  Tagged(kind, items) \in Seq(T)
<1> DEFINE n == Len(items)
<1>1. n \in Nat /\ DOMAIN items = 1..n /\ \A i \in 1..n : items[i] \in S
      BY LenProperties, ElementOfSeq
<1> HIDE DEF n
<1>2. Tagged(kind, items) = [i \in 1..n |-> <<kind, items[i]>>]
      BY <1>1 DEF Tagged
<1>3. \A i \in 1..n : <<kind, items[i]>> \in T
      BY <1>1
<1>4. Tagged(kind, items) \in [1..n -> T]
      BY <1>2, <1>3
<1>5. QED BY <1>1, <1>4

\* The frames of a packet under way are such.
LEMMA FramesExpected ==
    ASSUME NEW x \in End, NEW other \in State, NEW seen, NEW p \in PacketType,
           p.from = Other(x), PacketOK(p, other, seen)
    PROVE  Frames(p) \in Seq(Expected(x, other, seen, p.dcid))
<1> DEFINE E == Expected(x, other, seen, p.dcid)
           A == IF x = "server" THEN seen ELSE Place
           B == 0..(other.host_cid_seq - 1)
           C == Gone(other) \ {p.dcid}
<1>1. /\ p.responses \in Seq(Place) /\ p.new_cids \in SUBSET Nat /\ p.retired \in Seq(Nat)
      BY DEF PacketType
<1>2. /\ Range(p.retired) \subseteq C /\ p.new_cids \subseteq B
      /\ p.from = "client" => Range(p.responses) \subseteq seen
      BY DEF PacketOK
<1>3. x = "server" => p.from = "client"
      BY OtherEnd DEF End
<1>4. p.responses \in Seq(A)
  <2>1. Range(p.responses) \subseteq A
        BY <1>1, <1>2, <1>3, RangeOfSeq
  <2>2. QED BY <1>1, <2>1, SeqOfRange, SeqMonotonic
<1>5. p.retired \in Seq(C)
      BY <1>1, <1>2, SeqOfRange, SeqMonotonic
<1>6. InOrder(p.new_cids) \in Seq(B)
  <2>1. IsFiniteSet(B)
        BY StateFields, FS_Interval
  <2>2. IsFiniteSet(p.new_cids)
        BY <1>2, <2>1, FS_Subset
  <2>3. InOrder(p.new_cids) \in Seq(Nat) /\ Range(InOrder(p.new_cids)) = p.new_cids
        BY <1>1, <2>2, InOrderIs
  <2>4. InOrder(p.new_cids) \in Seq(p.new_cids)
        BY <2>3, SeqOfRange
  <2> HIDE DEF B
  <2>5. QED BY <1>2, <2>4, SeqMonotonic
<1>7. /\ {"response"} \X A \subseteq E /\ {"new"} \X B \subseteq E /\ {"retire"} \X C \subseteq E
      BY DEF Expected
<1> HIDE DEF A, B, C, E
<1>8. /\ Tagged("response", p.responses) \in Seq(E)
      /\ Tagged("new", InOrder(p.new_cids)) \in Seq(E)
      /\ Tagged("retire", p.retired) \in Seq(E)
      BY <1>4, <1>5, <1>6, <1>7, TaggedType
<1>9. Tagged("response", p.responses) \o Tagged("new", InOrder(p.new_cids)) \in Seq(E)
      BY <1>8, ConcatProperties
<1>10. Frames(p) \in Seq(E)
      BY <1>8, <1>9, ConcatProperties DEF Frames
<1>11. QED BY <1>10 DEF E

\* All frames of a packet, one after the other, as the fold in _payload_received.
HandleAll(b, frames, dcid) ==
    LET handle(s, frame) == _handle_frame(s, frame, dcid)
    IN FoldLeft(handle, b, frames)

\* Frames that may come do no harm, however many: each is handled without harm.
LEMMA FramesSound ==
    ASSUME NEW x \in End, NEW b, NEW other \in State, OwnIds(other), NEW seen,
           NEW table \in SUBSET Nat, Sound(x, b, other, seen, table), NEW dcid,
           NEW frames \in Seq(Expected(x, other, seen, dcid))
    PROVE  /\ Sound(x, HandleAll(b, frames, dcid), other, seen, table)
           /\ Follows(b, HandleAll(b, frames, dcid))
           /\ SamePlaces(b, HandleAll(b, frames, dcid))
<1> DEFINE N == Len(frames)
           V == {s \in State : /\ Sound(x, s, other, seen, table)
                               /\ Follows(b, s) /\ SamePlaces(b, s)}
           handle(s, frame) == _handle_frame(s, frame, dcid)
           step == [y \in (1..N) \X V |-> _handle_frame(y[2], frames[y[1]], dcid)]
           Turn(it) == [s \in SUBSET (1..N) |->
                           IF s = {} THEN b
                           ELSE handle(it[s \ {Max(s)}], frames[Max(s)])]
           it0 == CHOOSE it : it = Turn(it)
<1>1. N \in Nat /\ DOMAIN frames = 1..N
      /\ \A i \in 1..N : frames[i] \in Expected(x, other, seen, dcid)
      BY LenProperties, ElementOfSeq
<1>2. HandleAll(b, frames, dcid) = it0[1..N]
  <2>1. FoldLeft(handle, b, frames) = (CHOOSE it : it = [s \in SUBSET DOMAIN frames |->
                IF s = {} THEN b
                ELSE handle(it[s \ {Max(s)}], frames[Max(s)])])[DOMAIN frames]
        BY DEF FoldLeft, MapThenFoldSet
  <2>2. HandleAll(b, frames, dcid) = FoldLeft(handle, b, frames)
        BY DEF HandleAll
  <2>3. QED BY <1>1, <2>1, <2>2
<1>3. ASSUME NEW s \in V, NEW i \in 1..N PROVE _handle_frame(s, frames[i], dcid) \in V
  <2> DEFINE t == _handle_frame(s, frames[i], dcid)
  <2>1. Sound(x, t, other, seen, table) /\ Follows(s, t) /\ SamePlaces(s, t)
        BY <1>1, FrameSound
  <2>2. t \in State /\ b \in State /\ s \in State
        BY <2>1 DEF Sound
  <2> HIDE DEF t
  <2>3. Follows(b, t)
        BY <2>1, <2>2, FollowsOn
  <2>4. SamePlaces(b, t)
        BY <2>1, SamePlacesOn
  <2>5. QED BY <2>1, <2>2, <2>3, <2>4 DEF t
<1>4. b \in V
  <2>1. b \in State
        BY DEF Sound
  <2>2. QED BY <2>1, StateFields DEF Follows, SamePlaces
<1> HIDE DEF V
<1>5. /\ step \in [(1..N) \X V -> V]
      /\ \A i \in 1..N, s \in V : step[<<i, s>>] = _handle_frame(s, frames[i], dcid)
  <2>1. \A y \in (1..N) \X V : _handle_frame(y[2], frames[y[1]], dcid) \in V
        BY <1>3
  <2>2. QED BY <2>1
<1> HIDE DEF step, N
<1>6. PICK it \in [SUBSET (1..N) -> V] :
          it = [s \in SUBSET (1..N) |->
                   IF s = {} THEN b ELSE step[<<Max(s), it[s \ {Max(s)}]>>]]
  <2>1. LeftIterations(N, V, b, step) # {}
        BY <1>1, <1>4, <1>5, LeftFoldExists
  <2>2. QED BY <2>1 DEF LeftIterations
<1>7. it = Turn(it)
  <2>1. ASSUME NEW s \in SUBSET (1..N), s # {}
        PROVE  step[<<Max(s), it[s \ {Max(s)}]>>] = handle(it[s \ {Max(s)}], frames[Max(s)])
    <3>1. Max(s) \in s
          BY <1>1, <2>1, MaxOfSome
    <3>2. Max(s) \in 1..N /\ it[s \ {Max(s)}] \in V
          BY <3>1
    <3>3. QED BY <1>5, <3>2
  <2>2. QED BY <1>6, <2>1
<1>8. it0 = Turn(it0)
  <2> HIDE DEF Turn
  <2>1. QED BY <1>7
<1> HIDE DEF it0
<1>9. it0[{}] = b
      BY <1>8
<1>10. ASSUME NEW k \in 1..N, it0[1..(k - 1)] \in V
       PROVE  it0[1..k] = step[<<k, it0[1..(k - 1)]>>]
  <2>1. k \in Nat \ {0} /\ (1..k) \in SUBSET (1..N) /\ (1..k) # {}
    <3>1. k \in Int /\ 1 <= k /\ k <= N /\ N \in Int
          BY <1>1
    <3>2. k \in 1..k
          BY <3>1
    <3>3. \A i \in 1..k : i \in 1..N
          BY <3>1
    <3>4. k \in Nat \ {0}
          BY <3>1
    <3>5. (1..k) \in SUBSET (1..N)
          BY <3>3
    <3>6. QED BY <3>2, <3>4, <3>5
  <2>2. Max(1..k) = k /\ (1..k) \ {k} = 1..(k - 1)
        BY <2>1, MaxUpTo
  <2>3. it0[1..k] = handle(it0[(1..k) \ {Max(1..k)}], frames[Max(1..k)])
        BY <1>8, <2>1
  <2>4. QED BY <1>5, <1>10, <2>2, <2>3
<1>11. it0[1..N] \in WalksTo(N, V, b, step)
  <2>1. FollowsLeft(it0, N, V, b, step)
        BY <1>9, <1>10 DEF FollowsLeft
  <2>2. QED BY <1>1, <1>4, <1>5, <2>1, LeftFoldWalks
<1>12. it0[1..N] \in V
  <2>1. PICK h \in Walks(N, V, b, step) : it0[1..N] = h[N]
        BY <1>11 DEF WalksTo
  <2>2. h \in [0..N -> V] /\ N \in 0..N
        BY <1>1, <2>1 DEF Walks
  <2>3. QED BY <2>1, <2>2
<1>13. QED BY <1>2, <1>12 DEF V

-----------------------------------------------------------------------------
(* A packet is received.                                                   *)

\* What else changes does not matter to what holds.
LEMMA SameSound ==
    ASSUME NEW x \in End, NEW s, NEW other, NEW seen, NEW table,
           Sound(x, s, other, seen, table), NEW t \in State,
           OwnOf(t) = OwnOf(s), PeerOf(t) = PeerOf(s), PathsOf(t) = PathsOf(s),
           TakenOf(t) = TakenOf(s), t.terminated = s.terminated
    PROVE  /\ Sound(x, t, other, seen, table)
           /\ Gone(t) = Gone(s) /\ t.host_cid_seq = s.host_cid_seq /\ SamePlaces(s, t)
<1>1. OwnIds(t) /\ Agree(other, t) /\ t.host_cid_seq = s.host_cid_seq
      BY SameOwn DEF Sound
<1>2. PeerIds(t) /\ Gone(t) = Gone(s) /\ Agree(t, other)
      BY SamePeer DEF Sound
<1>3. Paths(t) /\ Challenged(x, t, seen) /\ SamePlaces(s, t)
      BY SamePaths DEF Sound
<1>4. TableOf(x, t, table)
      BY DEF Sound, TableOf, OwnOf, TakenOf
<1>5. FailedWell(t)
      BY <1>2, SameFailed DEF Sound, TakenOf
<1>6. QED BY <1>1, <1>2, <1>3, <1>4, <1>5 DEF Sound

\* The first of two numbers or the second.
LEMMA MaxOfTwo ==
    ASSUME NEW a \in Int, NEW b \in Int
    PROVE  Max({a, b}) = IF a < b THEN b ELSE a
<1> DEFINE m == IF a < b THEN b ELSE a
<1>1. m \in {a, b} /\ \A y \in {a, b} : m >= y
      OBVIOUS
<1>2. \A z \in {a, b} : (\A y \in {a, b} : z >= y) => z = m
      OBVIOUS
<1> HIDE DEF m
<1>3. Max({a, b}) = m
      BY <1>1, <1>2 DEF Max
<1>4. QED BY <1>3 DEF m

\* The items of a sequence are the same with one of them moved to the front.
LEMMA MoveToFront ==
    ASSUME NEW S, NEW s \in Seq(S), NEW i \in 1..Len(s)
    PROVE  /\ <<s[i]>> \o RemoveAt(s, i) \in Seq(S)
           /\ Range(<<s[i]>> \o RemoveAt(s, i)) = Range(s)
           /\ <<s[i]>> \o RemoveAt(s, i) # << >>
           /\ (<<s[i]>> \o RemoveAt(s, i))[1] = s[i]
<1> DEFINE n == Len(s)
           a == SubSeq(s, 1, i - 1)
           b == SubSeq(s, i + 1, n)
           one == <<s[i]>>
           moved == one \o RemoveAt(s, i)
<1>1. n \in Nat /\ DOMAIN s = 1..n /\ i \in Nat /\ \A j \in 1..n : s[j] \in S
      BY LenProperties, ElementOfSeq
<1>2. one \in Seq(S) /\ Len(one) = 1 /\ one[1] = s[i] /\ Range(one) = {s[i]}
      BY <1>1 DEF Range
<1>3. /\ a \in Seq(S) /\ Len(a) = i - 1
      /\ \A j \in 1..(i - 1) : a[j] = s[j]
  <2>1. 1 \in Int /\ i - 1 \in Int /\ \A j \in 1..(i - 1) : s[j] \in S
        BY <1>1
  <2>2. /\ a \in Seq(S) /\ Len(a) = IF 1 <= i - 1 THEN (i - 1) - 1 + 1 ELSE 0
        /\ \A j \in 1..((i - 1) - 1 + 1) : a[j] = s[1 + j - 1]
        BY <2>1, SubSeqProperties
  <2>3. \A j \in 1..(i - 1) : j \in 1..((i - 1) - 1 + 1) /\ 1 + j - 1 = j
        BY <1>1
  <2> HIDE DEF a
  <2>4. QED BY <1>1, <2>2, <2>3
<1>4. /\ b \in Seq(S) /\ Len(b) = n - i
      /\ \A j \in 1..(n - i) : b[j] = s[i + j]
  <2>1. i + 1 \in Int /\ n \in Int /\ \A j \in (i + 1)..n : s[j] \in S
        BY <1>1
  <2>2. /\ b \in Seq(S) /\ Len(b) = IF i + 1 <= n THEN n - (i + 1) + 1 ELSE 0
        /\ \A j \in 1..(n - (i + 1) + 1) : b[j] = s[(i + 1) + j - 1]
        BY <2>1, SubSeqProperties
  <2> HIDE DEF b, n
  <2>3. \A j \in 1..(n - i) : j \in 1..(n - (i + 1) + 1) /\ (i + 1) + j - 1 = i + j
        BY <1>1
  <2>4. QED BY <1>1, <2>2, <2>3
<1> HIDE DEF a, b, one, n
<1> DEFINE rest == a \o b
<1>5. RemoveAt(s, i) = rest
      BY DEF RemoveAt, a, b, n
<1>6. rest \in Seq(S) /\ Range(rest) = Range(a) \cup Range(b)
      BY <1>3, <1>4, ConcatProperties, RangeConcatenation
<1> HIDE DEF rest
<1>7. /\ moved = one \o rest /\ moved \in Seq(S)
      /\ Range(moved) = {s[i]} \cup (Range(a) \cup Range(b))
  <2>1. moved = one \o rest
        BY <1>5
  <2>2. one \o rest \in Seq(S) /\ Range(one \o rest) = Range(one) \cup Range(rest)
        BY <1>2, <1>6, ConcatProperties, RangeConcatenation
  <2>3. QED BY <1>2, <1>6, <2>1, <2>2
<1>8. moved[1] = s[i] /\ moved # << >>
  <2> HIDE DEF moved
  <2>1. /\ Len(one \o rest) = Len(one) + Len(rest)
        /\ \A j \in 1..(Len(one) + Len(rest)) :
               (one \o rest)[j] = IF j <= Len(one) THEN one[j] ELSE rest[j - Len(one)]
    <3>1. one \in Seq(S) /\ rest \in Seq(S)
          BY <1>2, <1>6
    <3>2. QED BY ONLY <3>1, ConcatProperties
  <2>2. Len(rest) \in Nat
        BY <1>6, LenProperties
  <2>3. 1 \in 1..(Len(one) + Len(rest)) /\ Len(moved) # 0
        BY <1>2, <1>7, <2>1, <2>2
  <2>4. moved[1] = s[i]
        BY <1>2, <1>7, <2>1, <2>3
  <2>5. moved # << >>
        BY <2>3, EmptySeq
  <2>6. QED BY <2>4, <2>5
<1>9. Range(s) = {s[i]} \cup (Range(a) \cup Range(b))
  <2>1. DOMAIN a = 1..(i - 1) /\ DOMAIN b = 1..(n - i)
        BY <1>3, <1>4, LenProperties
  <2>2. ASSUME NEW j \in 1..(i - 1) PROVE j \in DOMAIN s /\ a[j] = s[j]
        BY <1>1, <1>3 DEF n
  <2>3. ASSUME NEW j \in 1..(n - i) PROVE i + j \in DOMAIN s /\ b[j] = s[i + j]
        BY <1>1, <1>4
  <2>4. ASSUME NEW j \in DOMAIN s
        PROVE  \/ j = i \/ (\E k \in DOMAIN a : s[j] = a[k])
               \/ (\E k \in DOMAIN b : s[j] = b[k])
    <3>1. CASE j < i
      <4>1. j \in 1..(i - 1)
            BY <1>1, <3>1
      <4>2. QED BY <2>1, <2>2, <4>1
    <3>2. CASE j > i
      <4>1. j - i \in 1..(n - i) /\ i + (j - i) = j
            BY <1>1, <3>2
      <4>2. QED BY <2>1, <2>3, <4>1
    <3>3. QED BY <1>1, <3>1, <3>2
  <2>5. i \in DOMAIN s
        BY <1>1 DEF n
  <2>6. QED BY <2>1, <2>2, <2>3, <2>4, <2>5 DEF Range
<1>10. QED BY <1>7, <1>8, <1>9 DEF one

\* The newest packet's path is put in front, if it is not a probe.
LEMMA PromoteSound ==
    ASSUME NEW x \in End, NEW s, NEW other, NEW seen, NEW table,
           Sound(x, s, other, seen, table),
           NEW i \in 1..Len(s.network_paths), NEW pn \in Nat, NEW probing \in BOOLEAN
    PROVE  /\ Sound(x, Promote(s, i, pn, probing), other, seen, table)
           /\ Follows(s, Promote(s, i, pn, probing))
           /\ Promote(s, i, pn, probing).network_paths[1]
                  = s.network_paths[IF probing \/ pn <= s.largest_received_packet THEN 1 ELSE i]
<1> DEFINE t == Promote(s, i, pn, probing)
           paths == s.network_paths
           then == <<paths[i]>> \o RemoveAt(paths, i)
<1>1. s \in State /\ paths \in Seq(PathType)
      BY StateFields DEF Sound
<1>2. CASE i = 1 \/ probing \/ pn <= s.largest_received_packet
  <2>1. t = s
        BY <1>2 DEF Promote
  <2>2. Follows(s, s)
        BY <1>1, StateFields DEF Follows
  <2>3. QED BY <1>2, <2>1, <2>2
<1>3. CASE ~(i = 1 \/ probing \/ pn <= s.largest_received_packet)
  <2>1. then \in Seq(PathType) /\ Range(then) = Range(paths) /\ then # << >> /\ then[1] = paths[i]
        BY <1>1, MoveToFront
  <2>2. t = [s EXCEPT !.network_paths = then]
        BY <1>3 DEF Promote
  <2> HIDE DEF then
  <2>3. /\ t \in State /\ OwnOf(t) = OwnOf(s) /\ PeerOf(t) = PeerOf(s)
        /\ TakenOf(t) = TakenOf(s) /\ RestOf(t) = RestOf(s)
    <3>1. t \in State
          BY <1>1, <2>1, <2>2 DEF State
    <3>2. OwnOf(t) = OwnOf(s) /\ PeerOf(t) = PeerOf(s)
          BY <1>1, <2>2 DEF State, OwnOf, PeerOf
    <3>3. TakenOf(t) = TakenOf(s) /\ RestOf(t) = RestOf(s)
          BY <1>1, <2>2 DEF State, TakenOf, RestOf
    <3>4. QED BY <3>1, <3>2, <3>3
  <2>4. t.network_paths = then /\ t.local_challenges = s.local_challenges
        BY <1>1, <2>2 DEF State
  <2> HIDE DEF t
  <2>5. /\ \A j \in DOMAIN then : \E k \in DOMAIN paths : then[j] = paths[k]
        /\ \A k \in DOMAIN paths : \E j \in DOMAIN then : then[j] = paths[k]
        BY <2>1 DEF Range
  <2>6. Paths(t)
    <3>1. Paths(s)
          BY DEF Sound
    <3>2. ASSUME NEW c \in s.local_challenges PROVE \E j \in DOMAIN then : then[j].addr = c
      <4>1. PICK k \in DOMAIN paths : paths[k].addr = c
            BY <3>1 DEF Paths
      <4>2. PICK j \in DOMAIN then : then[j] = paths[k]
            BY <2>5
      <4>3. QED BY <4>1, <4>2
    <3>3. QED BY <2>1, <2>4, <3>2 DEF Paths
  <2>7. Challenged(x, t, seen)
    <3>1. Challenged(x, s, seen)
          BY DEF Sound
    <3>2. QED BY <2>4, <2>5, <3>1 DEF Challenged
  <2>8. OwnIds(t) /\ Agree(other, t) /\ t.host_cid_seq = s.host_cid_seq
        BY <2>3, SameOwn DEF Sound
  <2>9. PeerIds(t) /\ Gone(t) = Gone(s) /\ Agree(t, other)
        BY <2>3, SamePeer DEF Sound
  <2>10. TableOf(x, t, table) /\ FailedWell(t)
        BY <2>3, <2>9, SameTable, SameFailed DEF Sound, TakenOf
  <2>11. Sound(x, t, other, seen, table)
        BY <2>3, <2>6, <2>7, <2>8, <2>9, <2>10 DEF Sound
  <2>12. Follows(s, t)
        BY <1>1, <2>3, <2>8, <2>9, StateFields DEF Follows
  <2>13. QED BY <1>3, <2>1, <2>4, <2>11, <2>12 DEF t
<1>4. QED BY <1>2, <1>3

\* The server changes its ID when the client is seen to use another.
LEMMA MigrateSound ==
    ASSUME NEW x \in End, NEW s, NEW other, NEW seen, NEW table,
           Sound(x, s, other, seen, table), NEW p \in PacketType
    PROVE  /\ Sound(x, Migrate(x, s, p), other, seen, table)
           /\ Follows(s, Migrate(x, s, p)) /\ SamePlaces(s, Migrate(x, s, p))
<1> DEFINE r == [s EXCEPT !.host_cid = p.dcid]
<1>1. s \in State /\ p.dcid \in Nat
      BY DEF Sound, PacketType
<1>2. Follows(s, s) /\ SamePlaces(s, s)
      BY <1>1, StateFields DEF Follows, SamePlaces
<1>3. CASE x = "server" /\ p.dcid # s.host_cid
  <2>1. Migrate(x, s, p) = change_connection_id(r)
        BY <1>3 DEF Migrate
  <2>2. /\ r \in State /\ OwnOf(r) = OwnOf(s) /\ PeerOf(r) = PeerOf(s)
        /\ PathsOf(r) = PathsOf(s) /\ TakenOf(r) = TakenOf(s) /\ RestOf(r) = RestOf(s)
    <3>1. r \in State
          BY <1>1 DEF State
    <3>2. OwnOf(r) = OwnOf(s) /\ PeerOf(r) = PeerOf(s)
          BY <1>1 DEF State, OwnOf, PeerOf
    <3>3. PathsOf(r) = PathsOf(s) /\ TakenOf(r) = TakenOf(s) /\ RestOf(r) = RestOf(s)
          BY <1>1 DEF State, PathsOf, TakenOf, RestOf
    <3>4. QED BY <3>1, <3>2, <3>3
  <2> HIDE DEF r
  <2>3. /\ Sound(x, r, other, seen, table) /\ Gone(r) = Gone(s)
        /\ r.host_cid_seq = s.host_cid_seq /\ SamePlaces(s, r)
    <3>1. r.terminated = s.terminated
          BY <2>2 DEF RestOf
    <3>2. QED BY <2>2, <3>1, SameSound
  <2> DEFINE t == change_connection_id(r)
  <2>4. Sound(x, t, other, seen, table) /\ Follows(r, t) /\ SamePlaces(r, t)
        BY <2>3, ChangeSound
  <2> HIDE DEF t
  <2>5. Follows(s, t)
        BY <2>2, <2>3, <2>4 DEF Follows
  <2>6. SamePlaces(s, t)
        BY <2>3, <2>4, SamePlacesOn
  <2>7. QED BY <2>1, <2>4, <2>5, <2>6 DEF t
<1>4. CASE ~(x = "server" /\ p.dcid # s.host_cid)
  <2>1. Migrate(x, s, p) = s
        BY <1>4 DEF Migrate
  <2>2. QED BY <1>2, <2>1
<1>5. QED BY <1>3, <1>4

\* _payload_received(): the acknowledgement, the challenge and the other frames.
LEMMA PayloadSound ==
    ASSUME NEW x \in End, NEW s, NEW other \in State, OwnIds(other), NEW seen,
           NEW table \in SUBSET Nat, Sound(x, s, other, seen, table),
           NEW p \in PacketType, p.from = Other(x), PacketOK(p, other, seen),
           x = "client" /\ p.challenge # None => p.challenge \in seen,
           NEW i \in 1..Len(s.network_paths), NEW lost \in SUBSET Overtaken(s, p.ack)
    PROVE  /\ Sound(x, _payload_received(s, i, p, lost), other, seen, table)
           /\ Follows(s, _payload_received(s, i, p, lost))
           /\ SamePlaces(s, _payload_received(s, i, p, lost))
<1> DEFINE acked == _handle_ack_frame(s, p.ack, lost)
           challenged == IF p.challenge = None THEN acked
                         ELSE _handle_path_challenge_frame(acked, i, p.challenge)
           t == HandleAll(challenged, Frames(p), p.dcid)
<1>1. _payload_received(s, i, p, lost) = t
      BY DEF _payload_received, HandleAll
<1>2. Sound(x, acked, other, seen, table) /\ Follows(s, acked) /\ SamePlaces(s, acked)
      BY AckSound
<1>3. /\ Sound(x, challenged, other, seen, table)
      /\ Follows(acked, challenged) /\ SamePlaces(acked, challenged)
  <2> HIDE DEF acked
  <2>1. CASE p.challenge = None
    <3>1. Follows(acked, acked) /\ SamePlaces(acked, acked)
          BY <1>2, StateFields DEF Sound, Follows, SamePlaces
    <3>2. QED BY <1>2, <2>1, <3>1
  <2>2. CASE p.challenge # None
    <3>1. p.challenge \in Place
          BY <2>2 DEF PacketType
    <3>2. i \in 1..Len(acked.network_paths)
          BY <1>2 DEF SamePlaces
    <3>3. challenged = _handle_path_challenge_frame(acked, i, p.challenge)
          BY <2>2
    <3> HIDE DEF challenged
    <3>4. QED BY <1>2, <2>2, <3>1, <3>2, <3>3, ChallengeSound
  <2>3. QED BY <2>1, <2>2
<1> HIDE DEF acked, challenged
<1>4. Frames(p) \in Seq(Expected(x, other, seen, p.dcid))
      BY FramesExpected
<1>5. Sound(x, t, other, seen, table) /\ Follows(challenged, t) /\ SamePlaces(challenged, t)
      BY <1>3, <1>4, FramesSound
<1> HIDE DEF t
<1>6. s \in State /\ acked \in State /\ challenged \in State /\ t \in State
      BY <1>2, <1>3, <1>5 DEF Sound
<1>7. Follows(s, challenged) /\ SamePlaces(s, challenged)
      BY <1>2, <1>3, <1>6, FollowsOn, SamePlacesOn
<1>8. Follows(s, t) /\ SamePlaces(s, t)
      BY <1>5, <1>6, <1>7, FollowsOn, SamePlacesOn
<1>9. QED BY <1>1, <1>5, <1>8

\* The packet itself is noted.
Noted(s, largest, numbers, ack) ==
    [s EXCEPT !.largest_received_packet = largest, !.received = numbers, !.ack_at = ack]

\* What that leaves as it is.
LEMMA ReceivedFields ==
    ASSUME NEW s \in State, NEW m \in Int, NEW numbers \in SUBSET Nat, NEW ack \in BOOLEAN,
           NEW t, t = Noted(s, m, numbers, ack)
    PROVE  /\ t \in State /\ OwnOf(t) = OwnOf(s) /\ PeerOf(t) = PeerOf(s)
           /\ PathsOf(t) = PathsOf(s) /\ TakenOf(t) = TakenOf(s)
           /\ t.terminated = s.terminated /\ t.packet_number = s.packet_number
           /\ t.network_paths = s.network_paths /\ t.failed = s.failed
           /\ t.largest_received_packet = m
<1>1. t \in State
      BY DEF Noted, State
<1>2. OwnOf(t) = OwnOf(s) /\ PeerOf(t) = PeerOf(s)
      BY DEF Noted, State, OwnOf, PeerOf
<1>3. PathsOf(t) = PathsOf(s) /\ TakenOf(t) = TakenOf(s)
      BY DEF Noted, State, PathsOf, TakenOf
<1>4. /\ t.terminated = s.terminated /\ t.packet_number = s.packet_number
      /\ t.network_paths = s.network_paths /\ t.failed = s.failed
      /\ t.largest_received_packet = m
      BY DEF Noted, State
<1>5. QED BY <1>1, <1>2, <1>3, <1>4

\* receive_datagram(): the other end's packet does no harm, and when it is taken the path
\* in use is that of the newest packet, unless this is a probe.
LEMMA DatagramSound ==
    ASSUME NEW x \in End, NEW s, NEW other \in State, OwnIds(other), NEW seen,
           NEW table \in SUBSET Nat, Sound(x, s, other, seen, table),
           NEW p \in PacketType, p.from = Other(x), PacketOK(p, other, seen),
           x = "client" /\ p.challenge # None => p.challenge \in seen,
           NEW lost \in SUBSET Overtaken(s, p.ack), NEW t, t = receive_datagram(x, s, p, lost)
    PROVE  /\ Sound(x, t, other, seen, table)
           /\ Gone(s) \subseteq Gone(t) /\ s.host_cid_seq <= t.host_cid_seq
           /\ t.packet_number = s.packet_number /\ t.terminated = s.terminated
           /\ t.failed # None =>
                  /\ t.largest_received_packet = s.largest_received_packet
                  /\ t.network_paths[1].addr = s.network_paths[1].addr
           /\ t.failed = None =>
                  /\ t.largest_received_packet
                         = IF s.largest_received_packet < p.pn THEN p.pn
                           ELSE s.largest_received_packet
                  /\ t.network_paths[1].addr
                         = IF IsProbing(p) \/ p.pn <= s.largest_received_packet
                           THEN s.network_paths[1].addr
                           ELSE IF x = "server" THEN p.addr ELSE "server"
<1> DEFINE addr == IF x = "server" THEN p.addr ELSE "server"
           found == _find_network_path(s, addr)
           i == PathOf(found, addr)
           handled == _payload_received(found, i, p, lost)
           moved == Migrate(x, handled, p)
           promoted == Promote(moved, i, p.pn, IsProbing(p))
           taken == [promoted EXCEPT
                        !.largest_received_packet = Max({@, p.pn}),
                        !.received = @ \cup {p.pn},
                        !.ack_at = @ \/ IsAckEliciting(p)]
<1>1. t = IF handled.failed # None THEN handled ELSE taken
      BY DEF receive_datagram
<1>2. /\ addr \in Place /\ p.pn \in Nat /\ IsProbing(p) \in BOOLEAN
      /\ IsAckEliciting(p) \in BOOLEAN
      BY DEF Place, PacketType, IsProbing, IsAckEliciting
<1> HIDE DEF addr
<1>3. /\ Sound(x, found, other, seen, table) /\ Follows(s, found)
      /\ i \in 1..Len(found.network_paths) /\ found.network_paths[i].addr = addr
      /\ found.network_paths[1] = s.network_paths[1]
      BY <1>2, FindSound
<1>4. found.sent_packets = s.sent_packets
      BY DEF _find_network_path, Sound, State
<1>5. lost \in SUBSET Overtaken(found, p.ack)
      BY <1>4 DEF Overtaken
<1> HIDE DEF found, i
<1>6. Sound(x, handled, other, seen, table) /\ Follows(found, handled) /\ SamePlaces(found, handled)
      BY <1>3, <1>5, PayloadSound
<1> HIDE DEF handled
<1>7. Sound(x, moved, other, seen, table) /\ Follows(handled, moved) /\ SamePlaces(handled, moved)
      BY <1>6, MigrateSound
<1>20. moved.failed = handled.failed /\ moved \in State
  <2>1. handled \in State /\ moved \in State
        BY <1>6, <1>7 DEF Sound
  <2>2. moved.failed = handled.failed
        BY <2>1 DEF Migrate, change_connection_id, State
  <2>3. QED BY <2>1, <2>2
<1> HIDE DEF moved
<1>8. i \in 1..Len(moved.network_paths)
      BY <1>3, <1>6, <1>7 DEF SamePlaces
<1>9. /\ Sound(x, promoted, other, seen, table) /\ Follows(moved, promoted)
      /\ promoted.network_paths[1]
             = moved.network_paths[IF IsProbing(p) \/ p.pn <= moved.largest_received_packet
                                   THEN 1 ELSE i]
      BY <1>2, <1>7, <1>8, PromoteSound
<1>21. promoted.failed = handled.failed
      BY <1>20 DEF Promote, State
<1> HIDE DEF promoted
<1>10. /\ s \in State /\ found \in State /\ handled \in State /\ moved \in State
       /\ promoted \in State
      BY <1>3, <1>6, <1>7, <1>9 DEF Sound
<1>11. Follows(s, handled)
      BY <1>3, <1>6, <1>10, FollowsOn
<1>12. Follows(s, promoted)
      BY <1>7, <1>9, <1>10, <1>11, FollowsOn
<1>13. 1 \in 1..Len(found.network_paths)
      BY <1>3
<1>14. /\ handled.network_paths[1].addr = s.network_paths[1].addr
       /\ moved.network_paths[1].addr = s.network_paths[1].addr
       /\ moved.network_paths[i].addr = addr
      BY <1>3, <1>6, <1>7, <1>13 DEF SamePlaces
<1>15. moved.largest_received_packet = s.largest_received_packet
      BY <1>7, <1>11 DEF Follows, RestOf
<1>16. promoted.network_paths[1].addr
           = IF IsProbing(p) \/ p.pn <= s.largest_received_packet
             THEN s.network_paths[1].addr ELSE addr
      BY <1>9, <1>14, <1>15
<1>17. CASE handled.failed # None
  <2>1. t = handled
        BY <1>1, <1>17
  <2>2. QED BY <1>6, <1>11, <1>14, <1>17, <2>1 DEF Follows, RestOf
<1>18. CASE handled.failed = None
  <2>1. t = taken
        BY <1>1, <1>18
  <2>2. promoted.failed = None /\ promoted.largest_received_packet = s.largest_received_packet
        BY <1>12, <1>18, <1>21 DEF Follows, RestOf
  <2>3. s.largest_received_packet \in Int /\ promoted.received \in SUBSET Nat
        BY <1>10, StateFields
  <2> DEFINE m == Max({promoted.largest_received_packet, p.pn})
  <2>4. m = IF s.largest_received_packet < p.pn THEN p.pn ELSE s.largest_received_packet
        BY <1>2, <2>2, <2>3, MaxOfTwo
  <2>5. m \in Int
        BY <1>2, <2>3, <2>4
  <2> DEFINE ack == promoted.ack_at \/ IsAckEliciting(p)
             received == promoted.received \cup {p.pn}
  <2>6. t = Noted(promoted, m, received, ack)
        BY <2>1 DEF Noted
  <2>16. ack \in BOOLEAN /\ received \in SUBSET Nat
        BY <1>2, <2>3
  <2> HIDE DEF m, ack, received
  <2>7. /\ t \in State /\ OwnOf(t) = OwnOf(promoted) /\ PeerOf(t) = PeerOf(promoted)
        /\ PathsOf(t) = PathsOf(promoted) /\ TakenOf(t) = TakenOf(promoted)
        /\ t.terminated = promoted.terminated /\ t.packet_number = promoted.packet_number
        /\ t.network_paths = promoted.network_paths /\ t.failed = promoted.failed
        /\ t.largest_received_packet = m
        BY <1>10, <2>5, <2>6, <2>16, ReceivedFields
  <2>11. /\ Sound(x, t, other, seen, table)
         /\ Gone(t) = Gone(promoted) /\ t.host_cid_seq = promoted.host_cid_seq
        BY <1>9, <2>7, SameSound
  <2>12. /\ Gone(s) \subseteq Gone(t) /\ s.host_cid_seq <= t.host_cid_seq
         /\ t.packet_number = s.packet_number /\ t.terminated = s.terminated
        BY <1>12, <2>7, <2>11 DEF Follows, RestOf
  <2>13. t.network_paths[1].addr = IF IsProbing(p) \/ p.pn <= s.largest_received_packet
                                   THEN s.network_paths[1].addr ELSE addr
        BY <1>16, <2>7
  <2>14. t.failed = None /\ t.largest_received_packet
              = IF s.largest_received_packet < p.pn THEN p.pn ELSE s.largest_received_packet
        BY <2>2, <2>4, <2>7
  <2>15. QED BY <2>11, <2>12, <2>13, <2>14 DEF addr
<1>19. QED BY <1>17, <1>18

-----------------------------------------------------------------------------
(* A packet is sent, and the events are taken.                             *)

\* The table is brought up to date with the events, of which none waits then.
LEMMA CollectSound ==
    ASSUME NEW x \in End, NEW s, NEW other, NEW seen, NEW table \in SUBSET Nat,
           Sound(x, s, other, seen, table),
           NEW after \in SUBSET Nat, x = "server" => after = _process_events(table, s.events),
           NEW t, t = [s EXCEPT !.events = << >>]
    PROVE  /\ Sound(x, t, other, seen, after)
           /\ Follows(s, t) /\ SamePlaces(s, t) /\ t.failed = s.failed
<1>1. s \in State
      BY DEF Sound
<1>2. t \in State
  <2>1. << >> \in Seq(EventType)
        OBVIOUS
  <2>2. QED BY <1>1, <2>1 DEF State
<1>3. /\ OwnOf(t) = OwnOf(s) /\ PeerOf(t) = PeerOf(s) /\ PathsOf(t) = PathsOf(s)
  <2>1. OwnOf(t) = OwnOf(s) /\ PeerOf(t) = PeerOf(s)
        BY <1>1 DEF State, OwnOf, PeerOf
  <2>2. PathsOf(t) = PathsOf(s)
        BY <1>1 DEF State, PathsOf
  <2>3. QED BY <2>1, <2>2
<1>4. RestOf(t) = RestOf(s) /\ t.failed = s.failed /\ t.events = << >>
      BY <1>1 DEF State, RestOf
<1>5. OwnIds(t) /\ Agree(other, t) /\ t.host_cid_seq = s.host_cid_seq
      BY <1>3, SameOwn DEF Sound
<1>6. PeerIds(t) /\ Gone(t) = Gone(s) /\ Agree(t, other)
      BY <1>3, SamePeer DEF Sound
<1>7. Paths(t) /\ Challenged(x, t, seen) /\ SamePlaces(s, t)
      BY <1>3, SamePaths DEF Sound
<1>8. TableOf(x, t, after)
  <2>1. _process_events(after, << >>) = after
        BY ProcessNone
  <2>2. QED BY <1>3, <1>4, <2>1 DEF Sound, TableOf, OwnOf, RestOf
<1>9. FailedWell(t)
      BY <1>4, <1>6, SameFailed DEF Sound
<1>10. Sound(x, t, other, seen, after)
      BY <1>2, <1>5, <1>6, <1>7, <1>8, <1>9 DEF Sound
<1>11. Follows(s, t)
      BY <1>1, <1>4, <1>5, <1>6, StateFields DEF Follows
<1>12. QED BY <1>4, <1>7, <1>10, <1>11

\* What a packet says is what waits.
LEMMA PacketSays ==
    ASSUME NEW x \in End, NEW s \in State, s.network_paths # << >>,
           NEW addr \in Addresses, NEW acks \in BOOLEAN, NEW data \in BOOLEAN,
           NEW p, p = Packet(x, s, addr, acks, data)
    PROVE  /\ p \in PacketType
           /\ p.from = x /\ p.pn = s.packet_number /\ p.dcid = s.peer_cid
           /\ p.new_cids = s.unsent /\ p.retired = s.retire_connection_ids
           /\ p.responses = s.network_paths[1].remote_challenges
           /\ p.challenge \in {None, s.network_paths[1].addr}
           /\ x = "server" => p.addr = s.network_paths[1].addr
<1> DEFINE path == s.network_paths[1]
<1>1. path = Head(s.network_paths) /\ path \in PathType
  <2>1. s.network_paths \in Seq(PathType)
        BY StateFields
  <2>2. 1 \in DOMAIN s.network_paths /\ Head(s.network_paths) = s.network_paths[1]
        BY <2>1, EmptySeq, LenProperties
  <2>3. QED BY <2>1, <2>2, ElementOfSeq, LenProperties
<1> HIDE DEF path
<1>2. /\ path.addr \in Place /\ path.remote_challenges \in Seq(Place)
      /\ path.is_validated \in BOOLEAN /\ path.local_challenge_sent \in BOOLEAN
      BY <1>1 DEF PathType
<1> DEFINE to == IF x = "client" THEN addr ELSE path.addr
           ack == IF acks /\ s.ack_at THEN s.received ELSE {}
           challenge == IF ~path.is_validated /\ ~path.local_challenge_sent
                        THEN path.addr ELSE None
           more == data \/ s.probe_pending
<1>3. p = [from |-> x, pn |-> s.packet_number, dcid |-> s.peer_cid, addr |-> to,
           ack |-> ack, challenge |-> challenge, responses |-> path.remote_challenges,
           new_cids |-> s.unsent, retired |-> s.retire_connection_ids, data |-> more]
      BY <1>1 DEF Packet
<1>4. /\ to \in Place /\ ack \in SUBSET Nat /\ challenge \in Place \cup {None}
      /\ more \in BOOLEAN /\ challenge \in {None, path.addr}
      /\ x = "server" => to = path.addr
      BY <1>2, StateFields DEF Place, State
<1> HIDE DEF to, ack, challenge, more
<1>5. /\ s.packet_number \in Nat /\ s.peer_cid \in Nat /\ s.unsent \in SUBSET Nat
      /\ s.retire_connection_ids \in Seq(Nat)
      BY StateFields
<1>6. p \in PacketType
      BY <1>2, <1>3, <1>4, <1>5 DEF PacketType
<1>7. QED BY <1>3, <1>4, <1>6 DEF path

\* Nothing that was sent waits any more.
Cleared(s, sent, ack, paths, out, events) ==
    [s EXCEPT !.network_paths = paths,
              !.packet_number = s.packet_number + 1, !.sent_packets = sent, !.ack_at = ack,
              !.local_challenges = out,
              !.unsent = {}, !.retire_connection_ids = << >>, !.probe_pending = FALSE,
              !.events = events]

IsCleared(t, s, sent, paths, out, events) ==
    /\ t \in State
    /\ t.host_cids = s.host_cids /\ t.host_cid_seq = s.host_cid_seq /\ t.unsent = {}
    /\ t.peer_cid = s.peer_cid /\ t.peer_cid_available = s.peer_cid_available
    /\ t.peer_cid_sequence_numbers = s.peer_cid_sequence_numbers
    /\ t.retire_connection_ids = << >> /\ t.sent_packets = sent
    /\ t.network_paths = paths /\ t.local_challenges = out
    /\ t.failed = s.failed /\ t.terminated = s.terminated
    /\ t.packet_number = s.packet_number + 1
    /\ t.largest_received_packet = s.largest_received_packet /\ t.events = events

\* It is such a connection.
LEMMA ClearedFields ==
    ASSUME NEW s \in State, NEW sent \in SUBSET SentType, NEW ack \in BOOLEAN,
           NEW paths \in Seq(PathType), NEW out \in SUBSET Place, NEW events \in Seq(EventType)
    PROVE  IsCleared(Cleared(s, sent, ack, paths, out, events), s, sent, paths, out, events)
<1> DEFINE n == s.packet_number + 1
           u == [s EXCEPT !.network_paths = paths, !.packet_number = n, !.sent_packets = sent,
                          !.ack_at = ack]
           none == << >>
           t == [u EXCEPT !.local_challenges = out, !.unsent = {},
                          !.retire_connection_ids = none, !.probe_pending = FALSE,
                          !.events = events]
<1>1. none \in Seq(Nat) /\ n \in Nat
      BY StateFields
<1>2. Cleared(s, sent, ack, paths, out, events) = t
      BY DEF Cleared
<1> HIDE DEF n, none
<1>3. u \in State
      BY <1>1 DEF State
<1>4. /\ u.host_cids = s.host_cids /\ u.host_cid_seq = s.host_cid_seq
      /\ u.peer_cid = s.peer_cid /\ u.peer_cid_available = s.peer_cid_available
      /\ u.peer_cid_sequence_numbers = s.peer_cid_sequence_numbers
      /\ u.sent_packets = sent /\ u.network_paths = paths
      /\ u.failed = s.failed /\ u.terminated = s.terminated /\ u.packet_number = n
      /\ u.largest_received_packet = s.largest_received_packet
      BY DEF State
<1> HIDE DEF u
<1>5. t \in State
      BY <1>1, <1>3 DEF State
<1>6. /\ t.host_cids = u.host_cids /\ t.host_cid_seq = u.host_cid_seq /\ t.unsent = {}
      /\ t.peer_cid = u.peer_cid /\ t.peer_cid_available = u.peer_cid_available
      /\ t.peer_cid_sequence_numbers = u.peer_cid_sequence_numbers
      /\ t.retire_connection_ids = none /\ t.sent_packets = u.sent_packets
      BY <1>3 DEF State
<1>7. /\ t.network_paths = u.network_paths /\ t.local_challenges = out
      /\ t.failed = u.failed /\ t.terminated = u.terminated
      /\ t.packet_number = u.packet_number
      /\ t.largest_received_packet = u.largest_received_packet /\ t.events = events
      BY <1>3 DEF State
<1> HIDE DEF t
<1>8. QED BY <1>2, <1>4, <1>5, <1>6, <1>7 DEF IsCleared, n, none

\* datagrams_to_send: what is sent does not wait any more, and the packet is sound.
LEMMA WrittenSound ==
    ASSUME NEW x \in End, NEW s, NEW other, NEW seen, NEW table \in SUBSET Nat,
           Sound(x, s, other, seen, table),
           NEW addr \in Addresses, NEW acks \in BOOLEAN, NEW data \in BOOLEAN,
           NEW p, p = Packet(x, s, addr, acks, data), NEW t, t = Written(s, p)
    PROVE  /\ p \in PacketType /\ p.from = x /\ p.pn = s.packet_number
           /\ PacketOK(p, t, seen)
           /\ Sound(x, t, other, seen, table)
           /\ Gone(t) = Gone(s) /\ t.host_cid_seq = s.host_cid_seq
           /\ t.packet_number = s.packet_number + 1 /\ t.terminated = s.terminated
           /\ t.largest_received_packet = s.largest_received_packet
           /\ SamePlaces(s, t)
<1> DEFINE path == s.network_paths[1]
           challenged == path.local_challenge_sent \/ p.challenge # None
           q == Probed(path, p.challenge)
           out == s.local_challenges \cup ({p.challenge} \ {None})
           r == [s EXCEPT !.network_paths = [@ EXCEPT ![1] = q], !.local_challenges = out]
           sent == IF IsAckEliciting(p)
                   THEN s.sent_packets
                            \cup {[pn |-> p.pn, new_cids |-> p.new_cids, retired |-> p.retired]}
                   ELSE s.sent_packets
           ack == s.ack_at /\ p.ack = {}
           issued == Tagged("issued", InOrder(p.new_cids))
           events == s.events \o issued
<1>1. /\ s \in State /\ s.network_paths \in Seq(PathType) /\ s.network_paths # << >>
      /\ s.local_challenges \in SUBSET Place /\ s.sent_packets \in SUBSET SentType
      /\ s.events \in Seq(EventType) /\ s.unsent \in SUBSET Nat
      BY StateFields DEF Sound, Paths
<1>2. /\ p \in PacketType
      /\ p.from = x /\ p.pn = s.packet_number /\ p.dcid = s.peer_cid
      /\ p.new_cids = s.unsent /\ p.retired = s.retire_connection_ids
      /\ p.responses = path.remote_challenges
      /\ p.challenge \in {None, path.addr}
      /\ x = "server" => p.addr = path.addr
      BY <1>1, PacketSays
<1>3. 1 \in 1..Len(s.network_paths) /\ path \in PathType
      BY <1>1, EmptySeq, LenProperties, ElementOfSeq
<1> HIDE DEF path
<1>4. /\ q \in PathType /\ q.addr = path.addr /\ q.is_validated = path.is_validated
      /\ q.remote_challenges = << >>
  <2>1. challenged \in BOOLEAN /\ << >> \in Seq(Place)
        BY <1>3 DEF PathType
  <2>2. q = [path EXCEPT !.local_challenge_sent = challenged, !.remote_challenges = << >>]
        BY DEF Probed
  <2> HIDE DEF challenged, q
  <2>3. QED BY <1>3, <2>1, <2>2 DEF PathType
<1>5. Sound(x, r, other, seen, table) /\ Follows(s, r) /\ SamePlaces(s, r)
  <2>1. /\ out \in SUBSET Place /\ \A c \in out : c \in s.local_challenges \/ c = q.addr
        BY <1>1, <1>2, <1>3, <1>4 DEF PathType
  <2>2. Range(q.remote_challenges) \subseteq seen
        BY <1>4 DEF Range
  <2>3. 1 \in DOMAIN s.network_paths
        BY <1>1, <1>3, LenProperties
  <2>4. x = "server" /\ q.is_validated => q.addr \in {Home} \cup seen
        BY <1>4, <2>3 DEF Sound, Challenged, path
  <2>5. q.addr = s.network_paths[1].addr
        BY <1>4 DEF path
  <2> HIDE DEF q, out
  <2>6. PathChanges(x, s, r, seen, 1, q, out)
        BY <1>3, <1>4, <2>1, <2>2, <2>4, <2>5 DEF PathChanges
  <2> HIDE DEF r
  <2>7. QED BY <2>6, PathSound
<1>6. /\ events \in Seq(EventType)
      /\ x = "server" => _process_events(table, events)
                             = _process_events(table, s.events) \cup s.unsent
  <2>1. IsFiniteSet(s.unsent)
    <3>1. s.unsent \subseteq 0..(s.host_cid_seq - 1)
          BY DEF Sound, OwnIds
    <3>2. 0 \in Int /\ s.host_cid_seq - 1 \in Int
          BY <1>1, StateFields
    <3>3. IsFiniteSet(0..(s.host_cid_seq - 1))
          BY <3>2, FS_Interval
    <3>4. QED BY <3>1, <3>3, FS_Subset
  <2>2. InOrder(s.unsent) \in Seq(Nat) /\ Range(InOrder(s.unsent)) = s.unsent
        BY <1>1, <2>1, InOrderIs
  <2> DEFINE before == _process_events(table, s.events)
             ids == InOrder(s.unsent)
  <2>3. before \in SUBSET Nat
        BY <1>1, ProcessMore
  <2>4. issued = Tagged("issued", ids)
        BY <1>2
  <2> HIDE DEF before, issued, ids
  <2>5. /\ Tagged("issued", ids) \in Seq(EventType)
        /\ _process_events(before, Tagged("issued", ids)) = before \cup Range(ids)
        BY <2>2, <2>3, ProcessIssued DEF ids
  <2>6. issued \in Seq(EventType) /\ events \in Seq(EventType)
        BY <1>1, <2>4, <2>5, ConcatProperties
  <2>7. _process_events(table, s.events \o issued) = _process_events(before, issued)
        BY <1>1, <2>6, ProcessMore DEF before
  <2>8. QED BY <2>2, <2>4, <2>5, <2>6, <2>7 DEF before, ids
<1>7. /\ sent \in SUBSET SentType /\ IsFiniteSet(sent)
      /\ \A u \in sent : u \in s.sent_packets \/ u.retired = s.retire_connection_ids
      /\ \A u, v \in sent : u \in s.sent_packets \/ v \in s.sent_packets \/ u = v
  <2> DEFINE one == [pn |-> p.pn, new_cids |-> p.new_cids, retired |-> p.retired]
  <2>1. one \in SentType /\ one.retired = s.retire_connection_ids
        BY <1>2 DEF PacketType, SentType
  <2>2. IsFiniteSet(s.sent_packets)
        BY DEF Sound, PeerIds
  <2> HIDE DEF one
  <2>3. IsFiniteSet(s.sent_packets \cup {one})
        BY <2>2, FS_AddElement
  <2>4. sent = IF IsAckEliciting(p) THEN s.sent_packets \cup {one} ELSE s.sent_packets
        BY DEF one
  <2>5. QED BY <1>1, <2>1, <2>2, <2>3, <2>4
<1>8. ack \in BOOLEAN
      BY <1>1 DEF State
<1> DEFINE paths == [s.network_paths EXCEPT ![1] = q]
<1>9. t = Cleared(s, sent, ack, paths, out, events)
      BY DEF Written, Cleared, path
<1>10. r.network_paths = paths /\ r.local_challenges = out /\ r \in State
  <2>1. r.network_paths = paths /\ r.local_challenges = out
        BY <1>1 DEF State
  <2>2. r \in State
        BY <1>5 DEF Sound
  <2>3. QED BY <2>1, <2>2
<1>24. paths \in Seq(PathType) /\ out \in SUBSET Place
       BY <1>10, StateFields
<1> HIDE DEF q, out, sent, ack, issued, events, paths
<1>11. /\ t \in State
       /\ t.host_cids = s.host_cids /\ t.host_cid_seq = s.host_cid_seq /\ t.unsent = {}
       /\ t.peer_cid = s.peer_cid /\ t.peer_cid_available = s.peer_cid_available
       /\ t.peer_cid_sequence_numbers = s.peer_cid_sequence_numbers
       /\ t.retire_connection_ids = << >> /\ t.sent_packets = sent
       /\ t.network_paths = paths /\ t.local_challenges = out
       /\ t.failed = s.failed /\ t.terminated = s.terminated
       /\ t.packet_number = s.packet_number + 1
       /\ t.largest_received_packet = s.largest_received_packet /\ t.events = events
  <2>1. IsCleared(t, s, sent, paths, out, events)
        BY <1>1, <1>6, <1>7, <1>8, <1>9, <1>24, ClearedFields
  <2>2. QED BY <2>1 DEF IsCleared
<1> HIDE DEF r
<1>13. PathsOf(t) = PathsOf(r)
       BY <1>10, <1>11 DEF PathsOf
<1>15. Gone(t) = Gone(s)
       BY <1>11 DEF Gone
<1>16. OwnIds(t) /\ Agree(other, t) /\ Agree(t, other)
       BY <1>11, <1>15 DEF Sound, OwnIds, Agree
<1>17. PeerIds(t)
  <2>1. Range(<< >>) = {} /\ IsInjective(<< >>)
        BY DEF Range, IsInjective
  <2>2. \A u \in sent : Range(u.retired) \subseteq Gone(t)
        BY <1>7, <1>15 DEF Sound, PeerIds
  <2>3. RetiredOnce(t)
    <3>1. RetiredOnce(s)
          BY DEF Sound, PeerIds
    <3>2. \A u \in sent : IsInjective(u.retired)
          BY <1>7, <3>1 DEF RetiredOnce
    <3>3. \A u, v \in sent : u # v => Range(u.retired) \cap Range(v.retired) = {}
          BY <1>7, <3>1 DEF RetiredOnce
    <3>4. QED BY <1>11, <2>1, <3>2, <3>3 DEF RetiredOnce
  <2>4. QED BY <1>7, <1>11, <1>15, <2>1, <2>2, <2>3 DEF Sound, PeerIds
<1>18. Paths(t) /\ Challenged(x, t, seen) /\ SamePlaces(r, t)
       BY <1>5, <1>13, SamePaths DEF Sound
<1>19. TableOf(x, t, table)
  <2> SUFFICES ASSUME x = "server", ~t.terminated
               PROVE  /\ t.host_cids \ t.unsent \subseteq _process_events(table, t.events)
                      /\ _process_events(table, t.events) \subseteq t.host_cids
      BY DEF TableOf
  <2>1. /\ s.host_cids \ s.unsent \subseteq _process_events(table, s.events)
        /\ _process_events(table, s.events) \subseteq s.host_cids
        /\ s.unsent \subseteq s.host_cids
        BY <1>11 DEF Sound, TableOf, OwnIds
  <2>2. _process_events(table, t.events) = _process_events(table, s.events) \cup s.unsent
        BY <1>6, <1>11
  <2>3. QED BY <1>11, <2>1, <2>2
<1>20. Sound(x, t, other, seen, table)
  <2>1. FailedWell(t)
        BY <1>11, <1>15, SameFailed DEF Sound
  <2>2. QED BY <1>11, <1>16, <1>17, <1>18, <1>19, <2>1 DEF Sound
<1>21. SamePlaces(s, t)
       BY <1>5, <1>18, SamePlacesOn
<1>22. PacketOK(p, t, seen)
  <2>1. p.pn < t.packet_number
        BY <1>1, <1>2, <1>11, StateFields
  <2>2. Range(p.retired) \subseteq Gone(t)
        BY <1>2, <1>15 DEF Sound, PeerIds
  <2>3. p.dcid \notin Gone(t)
        BY <1>2, <1>11 DEF Gone
  <2>4. p.new_cids \subseteq 0..(t.host_cid_seq - 1)
        BY <1>2, <1>11 DEF Sound, OwnIds
  <2>5. p.from = "server" /\ p.challenge # None => p.challenge = p.addr
        BY <1>2
  <2>6. p.from = "client" => Range(p.responses) \subseteq seen
    <3>1. 1 \in DOMAIN s.network_paths
          BY <1>1, <1>3, LenProperties
    <3>2. QED BY <1>2, <3>1 DEF Sound, Challenged, path
  <2>7. QED BY <2>1, <2>2, <2>3, <2>4, <2>5, <2>6 DEF PacketOK
<1>23. QED BY <1>2, <1>11, <1>15, <1>20, <1>21, <1>22

-----------------------------------------------------------------------------
(* A step of one end, seen by both.                                        *)

\* What an end knows stays true while the other goes on.
LEMMA OtherStays ==
    ASSUME NEW x \in End, NEW s, NEW other, NEW seen, NEW table,
           Sound(x, s, other, seen, table),
           NEW then, Agree(then, s), Agree(s, then), NEW more, seen \subseteq more,
           NEW after, x = "server" => after = table
    PROVE  Sound(x, s, then, more, after)
<1>1. Challenged(x, s, more)
      BY DEF Sound, Challenged
<1>2. TableOf(x, s, after)
      BY DEF Sound, TableOf
<1>3. QED BY <1>1, <1>2 DEF Sound

\* A packet under way stays sound while its sender goes on.
LEMMA PacketStays ==
    ASSUME NEW p, NEW s \in State, NEW t \in State, NEW seen, NEW more, PacketOK(p, s, seen),
           p.pn \in Nat, p.dcid \notin Range(p.retired),
           Gone(s) \subseteq Gone(t), s.host_cid_seq <= t.host_cid_seq,
           s.packet_number <= t.packet_number, seen \subseteq more
    PROVE  PacketOK(p, t, more)
<1>1. /\ s.packet_number \in Nat /\ t.packet_number \in Nat
      /\ s.host_cid_seq \in Nat /\ t.host_cid_seq \in Nat
      BY StateFields
<1>2. p.pn < t.packet_number
      BY <1>1 DEF PacketOK
<1>3. p.new_cids \subseteq 0..(t.host_cid_seq - 1)
  <2>1. \A n \in 0..(s.host_cid_seq - 1) : n \in 0..(t.host_cid_seq - 1)
        BY <1>1
  <2>2. QED BY <2>1 DEF PacketOK
<1>4. QED BY <1>2, <1>3 DEF PacketOK

\* All but what NewestFollowed says, to be shown for every step.
Known(connection, packets, table, seen) ==
    /\ connection \in [End -> State]
    /\ packets \subseteq PacketType
    /\ table \subseteq Nat
    /\ \A x \in End : Sound(x, connection[x], connection[Other(x)], seen, table)
    /\ connection["server"].terminated => table = {}
    /\ \A p \in packets : PacketOK(p, connection[p.from], seen)
    /\ \A p, q \in packets : p.from = q.from /\ p.pn = q.pn => p = q

\* Whatever one end does and sends, both know what they knew.
LEMMA StepKnown ==
    ASSUME NEW connection, NEW packets, NEW table, NEW seen,
           Known(connection, packets, table, seen),
           NEW x \in End, NEW t, NEW sent, NEW more, NEW after \in SUBSET Nat,
           seen \subseteq more, x = "client" => after = table,
           Sound(x, t, connection[Other(x)], more, after),
           Gone(connection[x]) \subseteq Gone(t),
           connection[x].host_cid_seq <= t.host_cid_seq,
           connection[x].packet_number <= t.packet_number,
           x = "server" /\ t.terminated => after = {},
           sent \subseteq {p \in PacketType : p.from = x /\ p.pn = connection[x].packet_number},
           \A p, q \in sent : p = q,
           \A p \in sent : PacketOK(p, t, more)
    PROVE  Known([connection EXCEPT ![x] = t], packets \cup sent, after, more)
<1> DEFINE then == [connection EXCEPT ![x] = t]
           y == Other(x)
<1>1. y \in End /\ y # x /\ Other(y) = x /\ \A z \in End : z = x \/ z = y
      BY OtherEnd DEF End
<1>2. connection \in [End -> State] /\ t \in State
      BY DEF Known, Sound
<1>3. then \in [End -> State] /\ then[x] = t /\ then[y] = connection[y]
      BY <1>1, <1>2
<1> HIDE DEF then, y
<1>4. Sound(x, then[x], then[Other(x)], more, after)
      BY <1>1, <1>3 DEF y
<1>5. Sound(y, then[y], then[Other(y)], more, after)
  <2>1. Sound(y, connection[y], connection[x], seen, table)
        BY <1>1 DEF Known
  <2>2. Agree(t, connection[y]) /\ Agree(connection[y], t)
        BY DEF Sound, y
  <2>3. y = "server" => after = table
        BY <1>1 DEF End
  <2>4. QED BY <1>1, <1>3, <2>1, <2>2, <2>3, OtherStays
<1>6. \A z \in End : Sound(z, then[z], then[Other(z)], more, after)
      BY <1>1, <1>4, <1>5
<1>7. then["server"].terminated => after = {}
  <2>1. CASE x = "server"
        BY <1>3, <2>1
  <2>2. CASE x = "client"
    <3>1. y = "server"
          BY <1>1, <2>2 DEF End
    <3>2. QED BY <1>3, <2>2, <3>1 DEF Known
  <2>3. QED BY <2>1, <2>2 DEF End
<1>8. ASSUME NEW p \in packets PROVE PacketOK(p, then[p.from], more)
  <2>1. p \in PacketType /\ PacketOK(p, connection[p.from], seen)
        BY DEF Known
  <2>2. p.from \in End /\ p.pn \in Nat
        BY <2>1 DEF PacketType
  <2>3. connection[p.from] \in State /\ then[p.from] \in State
        BY <1>2, <1>3, <2>2
  <2>4. /\ Gone(connection[p.from]) \subseteq Gone(then[p.from])
        /\ connection[p.from].host_cid_seq <= then[p.from].host_cid_seq
        /\ connection[p.from].packet_number <= then[p.from].packet_number
    <3>1. CASE p.from = x
          BY <1>3, <3>1
    <3>2. CASE p.from = y
      <4>1. /\ connection[y].host_cid_seq \in Nat /\ connection[y].packet_number \in Nat
            BY <1>1, <1>2, StateFields
      <4>2. QED BY <1>3, <3>2, <4>1
    <3>3. QED BY <1>1, <2>2, <3>1, <3>2
  <2>5. p.dcid \notin Range(p.retired)
        BY <2>1 DEF PacketOK
  <2>6. QED BY <2>1, <2>2, <2>3, <2>4, <2>5, PacketStays
<1>9. \A p \in packets \cup sent : PacketOK(p, then[p.from], more)
      BY <1>3, <1>8
<1>10. ASSUME NEW p \in packets \cup sent, NEW q \in packets \cup sent,
              p.from = q.from, p.pn = q.pn
       PROVE  p = q
  <2>1. ASSUME NEW u \in packets, NEW v \in sent PROVE ~(u.from = v.from /\ u.pn = v.pn)
    <3>1. u \in PacketType /\ PacketOK(u, connection[u.from], seen)
          BY DEF Known
    <3>2. u.pn \in Nat /\ u.pn < connection[u.from].packet_number
          BY <3>1 DEF PacketOK, PacketType
    <3>3. v.from = x /\ v.pn = connection[x].packet_number
          OBVIOUS
    <3>4. connection[x].packet_number \in Nat
          BY <1>2, StateFields
    <3>5. QED BY <3>2, <3>3, <3>4
  <2>2. CASE p \in packets /\ q \in packets
        BY <1>10, <2>2 DEF Known
  <2>3. CASE p \in sent /\ q \in sent
        BY <2>3
  <2>4. QED BY <1>10, <2>1, <2>2, <2>3
<1>11. packets \cup sent \subseteq PacketType /\ after \subseteq Nat
       BY DEF Known
<1>12. QED BY <1>3, <1>6, <1>7, <1>9, <1>10, <1>11 DEF Known, then

\* What transmitting leaves: the other end, the path in use, and the packets but for one.
Leaves(x, st) ==
    /\ \A y \in End : y # x => conn'[y] = conn[y]
    /\ conn'[x].largest_received_packet = st.largest_received_packet
    /\ conn'[x].network_paths[1].addr = st.network_paths[1].addr
    /\ conn[x].packet_number <= conn'[x].packet_number
    /\ \A p \in net' : p \in net \/ (p.from = x /\ p.pn = conn[x].packet_number)

\* What an end does and then transmits keeps what is known.
LEMMA TransmitKnown ==
    ASSUME NEW seen, Known(conn, net, routes, seen), address \in Addresses,
           NEW x \in End, Open(x), NEW st, NEW acks \in BOOLEAN, NEW data \in BOOLEAN,
           NEW more, seen \subseteq more,
           NEW after \in SUBSET Nat, x = "client" => after = routes,
           Sound(x, st, conn[Other(x)], more, after),
           Gone(conn[x]) \subseteq Gone(st), conn[x].host_cid_seq <= st.host_cid_seq,
           st.packet_number = conn[x].packet_number, st.terminated = conn[x].terminated,
           Transmit(x, st, acks, data)
    PROVE  Known(conn', net', after, more) /\ Leaves(x, st)
<1> DEFINE p == Packet(x, st, address, acks, data)
           silent == IsEmpty(p) \/ st.failed # None \/ st.terminated
           t == IF silent THEN st ELSE Written(st, p)
           sent == IF silent THEN {} ELSE {p}
<1>1. conn' = [conn EXCEPT ![x] = t] /\ net' = net \cup sent
      BY DEF Transmit
<1>2. /\ conn \in [End -> State] /\ st \in State
      /\ st.network_paths \in Seq(PathType) /\ st.network_paths # << >>
      BY StateFields DEF Known, Sound, Paths
<1>3. 1 \in 1..Len(st.network_paths)
      BY <1>2, EmptySeq, LenProperties
<1>4. /\ Sound(x, t, conn[Other(x)], more, after)
      /\ Gone(t) = Gone(st) /\ t.host_cid_seq = st.host_cid_seq
      /\ t.terminated = st.terminated
      /\ t.packet_number = IF silent THEN st.packet_number ELSE st.packet_number + 1
      /\ t.largest_received_packet = st.largest_received_packet
      /\ t.network_paths[1].addr = st.network_paths[1].addr
      /\ \A q \in sent : q = p
      /\ \A q \in sent : /\ q \in PacketType /\ q.from = x /\ q.pn = st.packet_number
                         /\ PacketOK(q, t, more)
  <2> DEFINE w == Written(st, p)
  <2>1. CASE silent
    <3>1. t = st /\ sent = {}
          BY <2>1
    <3>2. QED BY <2>1, <3>1
  <2>2. CASE ~silent
    <3> HIDE DEF p
    <3>1. /\ p \in PacketType /\ p.from = x /\ p.pn = st.packet_number
          /\ PacketOK(p, w, more)
          /\ Sound(x, w, conn[Other(x)], more, after)
          /\ Gone(w) = Gone(st) /\ w.host_cid_seq = st.host_cid_seq
          /\ w.packet_number = st.packet_number + 1 /\ w.terminated = st.terminated
          /\ w.largest_received_packet = st.largest_received_packet
          /\ SamePlaces(st, w)
          BY WrittenSound DEF p
    <3> HIDE DEF w
    <3>2. w.network_paths[1].addr = st.network_paths[1].addr
          BY <1>3, <3>1 DEF SamePlaces
    <3>3. t = w /\ sent = {p}
          BY <2>2 DEF w
    <3> HIDE DEF t, sent
    <3>4. QED BY <2>2, <3>1, <3>2, <3>3
  <2>3. QED BY <2>1, <2>2
<1> HIDE DEF t, sent, silent, p
<1>5. conn[x].packet_number <= t.packet_number
  <2>1. conn[x].packet_number \in Nat
        BY <1>2, StateFields
  <2>2. QED BY <1>4, <2>1
<1>6. ~t.terminated
      BY <1>4 DEF Open
<1>7. Known([conn EXCEPT ![x] = t], net \cup sent, after, more)
  <2>1. \A q, r \in sent : q = r
        BY <1>4
  <2>2. sent \subseteq {q \in PacketType : q.from = x /\ q.pn = conn[x].packet_number}
        BY <1>4
  <2>3. \A q \in sent : PacketOK(q, t, more)
        BY <1>4
  <2>4. Gone(conn[x]) \subseteq Gone(t) /\ conn[x].host_cid_seq <= t.host_cid_seq
        BY <1>4
  <2>5. Sound(x, t, conn[Other(x)], more, after)
        BY <1>4
  <2>6. QED BY <1>5, <1>6, <2>1, <2>2, <2>3, <2>4, <2>5, StepKnown
<1>8. Leaves(x, st)
  <2>1. conn'[x] = t /\ \A y \in End : y # x => conn'[y] = conn[y]
        BY <1>1, <1>2
  <2>2. \A q \in net' : q \in net \/ (q.from = x /\ q.pn = conn[x].packet_number)
        BY <1>1, <1>4
  <2>3. QED BY <1>4, <1>5, <2>1, <2>2 DEF Leaves
<1>9. QED BY <1>1, <1>7, <1>8

\* What of the server's view of the client's path does not change.
LEMMA NewestStays ==
    ASSUME IdsInv, NEW x \in End, NEW st, Leaves(x, st),
           x = "server" => /\ st.largest_received_packet = conn[x].largest_received_packet
                           /\ st.network_paths[1].addr = conn[x].network_paths[1].addr,
           history'.newest = history.newest, Known(conn', net', routes', history'.challenged)
    PROVE  NewestFollowed'
<1> DEFINE largest == conn["server"].largest_received_packet
           next == conn["client"].packet_number
<1>1. /\ conn \in [End -> State] /\ conn' \in [End -> State]
      /\ "server" \in End /\ "client" \in End /\ "server" # "client"
      BY DEF IdsInv, Known, End
<1>2. /\ history.newest.pn <= largest /\ largest < next
      /\ largest = history.newest.pn
             => Head(conn["server"].network_paths).addr = history.newest.addr
      /\ \A p \in net : p.from = "client" /\ p.pn = largest /\ ~IsProbing(p)
                            => history.newest.pn = largest
      BY DEF IdsInv, NewestFollowed
<1>3. largest \in Int /\ next \in Nat /\ conn'["client"].packet_number \in Nat
      BY <1>1, StateFields
<1>4. /\ conn'["server"].largest_received_packet = largest
      /\ conn'["server"].network_paths[1].addr = conn["server"].network_paths[1].addr
      /\ next <= conn'["client"].packet_number
  <2>1. CASE x = "server"
    <3>1. conn'["client"] = conn["client"]
          BY <1>1, <2>1 DEF Leaves
    <3>2. QED BY <1>3, <2>1, <3>1 DEF Leaves
  <2>2. CASE x = "client"
    <3>1. conn'["server"] = conn["server"]
          BY <1>1, <2>2 DEF Leaves
    <3>2. QED BY <2>2, <3>1 DEF Leaves
  <2>3. QED BY <2>1, <2>2 DEF End
<1>5. /\ Head(conn["server"].network_paths) = conn["server"].network_paths[1]
      /\ Head(conn'["server"].network_paths) = conn'["server"].network_paths[1]
  <2>1. /\ conn["server"].network_paths \in Seq(PathType)
        /\ conn'["server"].network_paths \in Seq(PathType)
        BY <1>1, StateFields
  <2>2. /\ conn["server"].network_paths # << >>
        /\ conn'["server"].network_paths # << >>
        BY <1>1 DEF IdsInv, Known, Sound, Paths
  <2>3. QED BY <2>1, <2>2, HeadTailProperties
<1>6. ASSUME NEW p \in net', p.from = "client", p.pn = largest, ~IsProbing(p)
      PROVE  history.newest.pn = largest
  <2>1. p \in net
    <3>1. CASE x = "client"
          BY <1>2, <1>3, <1>6, <3>1 DEF Leaves
    <3>2. CASE x = "server"
          BY <1>6, <3>2 DEF Leaves
    <3>3. QED BY <3>1, <3>2 DEF End
  <2>2. QED BY <1>2, <1>6, <2>1
<1>7. largest < conn'["client"].packet_number
      BY <1>2, <1>3, <1>4
<1>8. QED BY <1>2, <1>4, <1>5, <1>6, <1>7 DEF NewestFollowed, IsProbing

-----------------------------------------------------------------------------
(* The actions.                                                            *)

\* The invariant is what is known, and what holds of the newest packet.
LEMMA InvariantParts ==
    IdsInv <=> /\ Known(conn, net, routes, history.challenged)
               /\ address \in Addresses
               /\ history \in [challenged : SUBSET Addresses, newest : [pn : Int, addr : Place]]
               /\ NewestFollowed
BY DEF IdsInv, Known

\* What the connection of an end is known to be.
LEMMA EndKnown ==
    ASSUME IdsInv, NEW x \in End
    PROVE  /\ Other(x) \in End /\ conn[x] \in State /\ conn[Other(x)] \in State
           /\ Sound(x, conn[x], conn[Other(x)], history.challenged, routes)
           /\ OwnIds(conn[Other(x)])
           /\ Follows(conn[x], conn[x]) /\ SamePlaces(conn[x], conn[x])
           /\ routes \in SUBSET Nat
<1>1. Other(x) \in End
      BY OtherEnd
<1>2. conn[x] \in State /\ conn[Other(x)] \in State /\ routes \in SUBSET Nat
      BY <1>1 DEF IdsInv
<1>3. /\ Sound(x, conn[x], conn[Other(x)], history.challenged, routes)
      /\ OwnIds(conn[Other(x)])
      BY <1>1 DEF IdsInv, Sound
<1>4. Follows(conn[x], conn[x]) /\ SamePlaces(conn[x], conn[x])
      BY <1>2, StateFields DEF Follows, SamePlaces
<1>5. QED BY <1>1, <1>2, <1>3, <1>4

\* The path in use is the first.
LEMMA FirstPlace ==
    ASSUME NEW s \in State, Paths(s), NEW t, SamePlaces(s, t)
    PROVE  t.network_paths[1].addr = s.network_paths[1].addr
<1>1. s.network_paths \in Seq(PathType) /\ s.network_paths # << >>
      BY StateFields DEF Paths
<1>2. 1 \in 1..Len(s.network_paths)
      BY <1>1, EmptySeq, LenProperties
<1>3. QED BY <1>2 DEF SamePlaces

\* What an end does by itself and then transmits, the path in use being the same.
LEMMA OwnStep ==
    ASSUME IdsInv, NEW x \in End, Open(x), NEW st, NEW acks \in BOOLEAN, NEW data \in BOOLEAN,
           routes' \in SUBSET Nat, x = "client" => routes' = routes,
           Sound(x, st, conn[Other(x)], history.challenged, routes'),
           Follows(conn[x], st), SamePlaces(conn[x], st),
           Transmit(x, st, acks, data), UNCHANGED <<address, history>>
    PROVE  IdsInv'
<1>1. /\ Known(conn, net, routes, history.challenged) /\ address \in Addresses
      /\ history \in [challenged : SUBSET Addresses, newest : [pn : Int, addr : Place]]
      BY InvariantParts
<1>2. /\ Gone(conn[x]) \subseteq Gone(st) /\ conn[x].host_cid_seq <= st.host_cid_seq
      /\ st.packet_number = conn[x].packet_number /\ st.terminated = conn[x].terminated
      /\ st.largest_received_packet = conn[x].largest_received_packet
      BY DEF Follows, RestOf
<1>3. Known(conn', net', routes', history.challenged) /\ Leaves(x, st)
  <2> DEFINE after == routes'
             seen == history.challenged
  <2>1. after \in SUBSET Nat /\ (x = "client" => after = routes)
        /\ Sound(x, st, conn[Other(x)], seen, after) /\ Known(conn, net, routes, seen)
        BY <1>1
  <2> HIDE DEF after, seen
  <2>2. Known(conn', net', after, seen) /\ Leaves(x, st)
        BY <1>1, <1>2, <2>1, TransmitKnown
  <2>3. QED BY <2>2 DEF after, seen
<1>4. st.network_paths[1].addr = conn[x].network_paths[1].addr
  <2>1. conn[x] \in State /\ Paths(conn[x])
        BY EndKnown DEF Sound
  <2>2. QED BY <2>1, FirstPlace
<1>5. NewestFollowed'
      BY <1>2, <1>3, <1>4, NewestStays
<1>6. QED BY <1>1, <1>3, <1>5 DEF IdsInv, Known

\* Send(): the application sends something.
LEMMA SendStep ==
    ASSUME IdsInv, NEW x \in End, Send(x)
    PROVE  IdsInv'
<1>1. PICK acks \in BOOLEAN : Transmit(x, conn[x], acks, TRUE)
      BY DEF Send, Use
<1>2. Open(x) /\ UNCHANGED <<address, routes, history>>
      BY DEF Send, Use
<1>3. QED BY <1>1, <1>2, EndKnown, OwnStep

\* change_connection_id() by the application, and its transmit.
LEMMA ChangeStep ==
    ASSUME IdsInv, NEW x \in End, ChangeConnectionId(x)
    PROVE  IdsInv'
<1> DEFINE st == change_connection_id(conn[x])
<1>1. PICK acks \in BOOLEAN : Transmit(x, st, acks, FALSE)
      BY DEF ChangeConnectionId, Use
<1>2. Open(x) /\ UNCHANGED <<address, routes, history>>
      BY DEF ChangeConnectionId, Use
<1>3. /\ Sound(x, st, conn[Other(x)], history.challenged, routes)
      /\ Follows(conn[x], st) /\ SamePlaces(conn[x], st)
      BY EndKnown, ChangeSound
<1> HIDE DEF st
<1>4. QED BY <1>1, <1>2, <1>3, EndKnown, OwnStep

\* The table after the events of an end are taken.
LEMMA CollectTable ==
    ASSUME NEW x \in End, NEW st \in State, routes \in SUBSET Nat, Collect(x, st)
    PROVE  /\ routes' \in SUBSET Nat
           /\ x = "client" => routes' = routes
           /\ x = "server" => routes' = _process_events(routes, st.events)
<1>1. st.events \in Seq(EventType)
      BY StateFields
<1>2. _process_events(routes, st.events) \in SUBSET Nat
      BY <1>1, ProcessMore
<1>3. QED BY <1>2 DEF Collect

\* A timer: the events are taken and what waits is sent.
LEMMA ExpireStep ==
    ASSUME IdsInv, NEW x \in End, NEW st, NEW acks \in BOOLEAN,
           Sound(x, st, conn[Other(x)], history.challenged, routes),
           Follows(conn[x], st), SamePlaces(conn[x], st), Expire(x, st, acks)
    PROVE  IdsInv'
<1> DEFINE t == [st EXCEPT !.events = << >>]
<1>1. Open(x) /\ Transmit(x, t, acks, FALSE) /\ Collect(x, st) /\ UNCHANGED <<address, history>>
      BY DEF Expire
<1>2. st \in State /\ conn[x] \in State /\ routes \in SUBSET Nat
      BY EndKnown DEF Sound
<1>3. /\ routes' \in SUBSET Nat /\ (x = "client" => routes' = routes)
      /\ x = "server" => routes' = _process_events(routes, st.events)
      BY <1>1, <1>2, CollectTable
<1>4. /\ Sound(x, t, conn[Other(x)], history.challenged, routes')
      /\ Follows(st, t) /\ SamePlaces(st, t)
  <2> DEFINE after == routes'
  <2>1. after \in SUBSET Nat /\ (x = "server" => after = _process_events(routes, st.events))
        BY <1>3
  <2> HIDE DEF after
  <2>2. Sound(x, t, conn[Other(x)], history.challenged, after) /\ Follows(st, t) /\ SamePlaces(st, t)
    <3>1. t = [st EXCEPT !.events = << >>]
          OBVIOUS
    <3> HIDE DEF t
    <3>2. QED BY <1>2, <2>1, <3>1, CollectSound
  <2>3. QED BY <2>2 DEF after
<1> HIDE DEF t
<1>5. Follows(conn[x], t) /\ SamePlaces(conn[x], t)
  <2>1. t \in State
        BY <1>4 DEF Sound
  <2>2. QED BY <1>2, <1>4, <2>1, FollowsOn, SamePlacesOn
<1>6. QED BY <1>1, <1>3, <1>4, <1>5, OwnStep

\* The timer for an acknowledgement that waits.
LEMMA AckTimerStep ==
    ASSUME IdsInv, NEW x \in End, AckTimer(x)
    PROVE  IdsInv'
BY EndKnown, ExpireStep DEF AckTimer

\* The timer of loss detection: a probe is sent.
LEMMA LossTimerStep ==
    ASSUME IdsInv, NEW x \in End, LossTimer(x)
    PROVE  IdsInv'
<1> DEFINE st == [conn[x] EXCEPT !.probe_pending = TRUE]
<1>1. conn[x] \in State
      BY EndKnown
<1>2. /\ st \in State /\ OwnOf(st) = OwnOf(conn[x]) /\ PeerOf(st) = PeerOf(conn[x])
  <2>1. st \in State
        BY <1>1 DEF State
  <2>2. OwnOf(st) = OwnOf(conn[x]) /\ PeerOf(st) = PeerOf(conn[x])
        BY <1>1 DEF State, OwnOf, PeerOf
  <2>3. QED BY <2>1, <2>2
<1>3. /\ PathsOf(st) = PathsOf(conn[x]) /\ TakenOf(st) = TakenOf(conn[x])
      /\ RestOf(st) = RestOf(conn[x])
      BY <1>1 DEF State, PathsOf, TakenOf, RestOf
<1>4. PICK acks \in BOOLEAN : Expire(x, st, acks)
      BY DEF LossTimer
<1> HIDE DEF st
<1>5. st.terminated = conn[x].terminated
      BY <1>3 DEF RestOf
<1>6. /\ Sound(x, st, conn[Other(x)], history.challenged, routes)
      /\ Gone(st) = Gone(conn[x]) /\ st.host_cid_seq = conn[x].host_cid_seq
      /\ SamePlaces(conn[x], st)
      BY <1>2, <1>3, <1>5, EndKnown, SameSound
<1>7. Follows(conn[x], st)
  <2>1. conn[x].host_cid_seq \in Nat
        BY <1>1, StateFields
  <2>2. QED BY <1>3, <1>6, <2>1 DEF Follows
<1>8. QED BY <1>4, <1>6, <1>7, ExpireStep

\* A packet of the client's is taken by the server: the path in use is that of the newest
\* packet, unless this was a probe. Which is the newest is known, for of two packets with
\* one number there is only one.
LEMMA NewestMoves ==
    ASSUME IdsInv, NEW p \in net, p.from = "client", NEW st, Leaves("server", st),
           st.largest_received_packet
               = IF conn["server"].largest_received_packet < p.pn THEN p.pn
                 ELSE conn["server"].largest_received_packet,
           st.network_paths[1].addr
               = IF IsProbing(p) \/ p.pn <= conn["server"].largest_received_packet
                 THEN conn["server"].network_paths[1].addr ELSE p.addr,
           history'.newest = IF ~IsProbing(p) /\ p.pn > history.newest.pn
                             THEN [pn |-> p.pn, addr |-> p.addr] ELSE history.newest,
           Known(conn', net', routes', history'.challenged)
    PROVE  NewestFollowed'
<1> DEFINE largest == conn["server"].largest_received_packet
           next == conn["client"].packet_number
           newest == history.newest
           place == conn["server"].network_paths[1].addr
           largest2 == conn'["server"].largest_received_packet
           newest2 == history'.newest
           place2 == conn'["server"].network_paths[1].addr
<1>1. /\ conn \in [End -> State] /\ conn' \in [End -> State]
      /\ "server" \in End /\ "client" \in End /\ "server" # "client"
      BY DEF IdsInv, Known, End
<1>2. /\ Head(conn["server"].network_paths).addr = place
      /\ Head(conn'["server"].network_paths).addr = place2
  <2>1. /\ conn["server"].network_paths \in Seq(PathType)
        /\ conn'["server"].network_paths \in Seq(PathType)
        BY <1>1, StateFields
  <2>2. /\ conn["server"].network_paths # << >>
        /\ conn'["server"].network_paths # << >>
        BY <1>1 DEF IdsInv, Known, Sound, Paths
  <2>3. QED BY <2>1, <2>2, HeadTailProperties
<1>3. /\ newest.pn <= largest /\ largest < next
      /\ largest = newest.pn => place = newest.addr
      /\ \A q \in net : q.from = "client" /\ q.pn = largest /\ ~IsProbing(q)
                            => newest.pn = largest
      BY <1>2 DEF IdsInv, NewestFollowed
<1>4. conn'["client"] = conn["client"] /\ net' \subseteq net \cup {q \in net' : q.from = "server"}
      BY <1>1 DEF Leaves
<1>5. /\ largest2 = IF largest < p.pn THEN p.pn ELSE largest
      /\ place2 = IF IsProbing(p) \/ p.pn <= largest THEN place ELSE p.addr
      /\ newest2 = IF ~IsProbing(p) /\ p.pn > newest.pn
                   THEN [pn |-> p.pn, addr |-> p.addr] ELSE newest
      BY DEF Leaves
<1>6. p.pn \in Nat /\ p.pn < next /\ largest \in Int /\ next \in Nat /\ newest.pn \in Int
  <2>1. p \in PacketType /\ PacketOK(p, conn["client"], history.challenged)
        BY DEF IdsInv
  <2>2. p.pn \in Nat /\ p.pn < next
        BY <2>1 DEF PacketOK, PacketType
  <2>3. largest \in Int /\ next \in Nat
        BY <1>1, StateFields
  <2>4. newest.pn \in Int
        BY DEF IdsInv
  <2>5. QED BY <2>2, <2>3, <2>4
<1>7. \A q \in net : q.from = "client" /\ q.pn = p.pn => q = p
      BY DEF IdsInv
<1> HIDE DEF largest, next, newest, place, largest2, newest2, place2
<1>8. newest2.pn <= largest2 /\ largest2 < next
  <2>1. CASE ~IsProbing(p) /\ p.pn > newest.pn
    <3>1. newest2.pn = p.pn
          BY <1>5, <2>1
    <3>2. QED BY <1>3, <1>5, <1>6, <3>1
  <2>2. CASE ~(~IsProbing(p) /\ p.pn > newest.pn)
    <3>1. newest2 = newest
          BY <1>5, <2>2
    <3>2. QED BY <1>3, <1>5, <1>6, <3>1
  <2>3. QED BY <2>1, <2>2
<1>9. largest2 = newest2.pn => place2 = newest2.addr
  <2>1. CASE largest < p.pn /\ IsProbing(p)
    <3>1. newest2 = newest /\ largest2 = p.pn
          BY <1>5, <2>1
    <3>2. QED BY <1>3, <1>6, <2>1, <3>1
  <2>2. CASE largest < p.pn /\ ~IsProbing(p)
    <3>1. p.pn > newest.pn /\ ~(p.pn <= largest)
          BY <1>3, <1>6, <2>2
    <3>2. newest2.addr = p.addr /\ place2 = p.addr
          BY <1>5, <2>2, <3>1
    <3>3. QED BY <3>2
  <2>3. CASE ~(largest < p.pn)
    <3>1. largest2 = largest /\ place2 = place
          BY <1>5, <1>6, <2>3
    <3>2. CASE ~IsProbing(p) /\ p.pn > newest.pn
      <4>1. newest2.pn = p.pn
            BY <1>5, <3>2
      <4>2. p.pn = largest => newest.pn = largest
            BY <1>3, <3>2
      <4>3. QED BY <1>6, <3>1, <3>2, <4>1, <4>2
    <3>3. CASE ~(~IsProbing(p) /\ p.pn > newest.pn)
          BY <1>3, <1>5, <3>1, <3>3
    <3>4. QED BY <3>2, <3>3
  <2>4. QED BY <2>1, <2>2, <2>3
<1>10. ASSUME NEW q \in net', q.from = "client", q.pn = largest2, ~IsProbing(q)
       PROVE  newest2.pn = largest2
  <2>1. q \in net
        BY <1>4, <1>10
  <2>2. CASE largest < p.pn
    <3>1. q = p
          BY <1>5, <1>7, <1>10, <2>1, <2>2
    <3>2. p.pn > newest.pn
          BY <1>3, <1>6, <2>2
    <3>3. QED BY <1>5, <1>10, <3>1, <3>2
  <2>3. CASE ~(largest < p.pn)
    <3>1. largest2 = largest /\ newest.pn = largest
          BY <1>3, <1>5, <1>10, <2>1, <2>3
    <3>2. ~(p.pn > newest.pn)
          BY <1>6, <2>3, <3>1
    <3>3. newest2 = newest
          BY <1>5, <3>2
    <3>4. QED BY <3>1, <3>3
  <2>4. QED BY <2>2, <2>3
<1>11. QED
  <2>1. largest2 < conn'["client"].packet_number
        BY <1>4, <1>8 DEF next
  <2>2. largest2 = newest2.pn => Head(conn'["server"].network_paths).addr = newest2.addr
        BY <1>2, <1>9
  <2>3. QED BY <1>8, <1>10, <2>1, <2>2
            DEF NewestFollowed, IsProbing, largest2, newest2

\* A packet is received, for the first time or again.
LEMMA ReceiveStep ==
    ASSUME IdsInv, NEW x \in End, NEW p \in net, Receive(x, p)
    PROVE  IdsInv'
<1> DEFINE s == conn[x]
           other == conn[Other(x)]
           seen == history.challenged
           more == IF p.challenge = None THEN seen ELSE seen \cup {address}
<1>1. PICK lost \in SUBSET Overtaken(s, p.ack), acks \in {FALSE, s.ack_at} :
          LET st == receive_datagram(x, s, p, lost)
          IN  /\ Transmit(x, [st EXCEPT !.events = <<>>], acks, FALSE)
              /\ Collect(x, st)
              /\ history' = [history EXCEPT
                    !.challenged = IF p.challenge = None THEN @ ELSE @ \cup {address},
                    !.newest = IF /\ x = "server" /\ st.failed = None
                                  /\ ~IsProbing(p) /\ p.pn > @.pn
                               THEN [pn |-> p.pn, addr |-> p.addr] ELSE @]
      BY Zenon DEF Receive
<1> DEFINE st == receive_datagram(x, s, p, lost)
           t == [st EXCEPT !.events = << >>]
           newest == IF /\ x = "server" /\ st.failed = None
                        /\ ~IsProbing(p) /\ p.pn > history.newest.pn
                     THEN [pn |-> p.pn, addr |-> p.addr] ELSE history.newest
<1>2. /\ Known(conn, net, routes, seen) /\ address \in Addresses
      /\ history \in [challenged : SUBSET Addresses, newest : [pn : Int, addr : Place]]
      BY InvariantParts
<1>3. /\ s \in State /\ other \in State /\ OwnIds(other)
      /\ Sound(x, s, other, seen, routes) /\ routes \in SUBSET Nat
      BY EndKnown
<1>4. /\ p \in PacketType /\ PacketOK(p, other, seen)
      /\ p.from = Other(x) /\ Open(x) /\ Reaches(p) /\ address' = address
      BY DEF IdsInv, Receive
<1>5. /\ history' = [history EXCEPT !.challenged = more, !.newest = newest]
      /\ Transmit(x, t, acks, FALSE) /\ Collect(x, st)
      BY <1>1
<1>6. /\ history'.challenged = more /\ history'.newest = newest
      /\ more \in SUBSET Addresses /\ seen \subseteq more
      /\ history' \in [challenged : SUBSET Addresses, newest : [pn : Int, addr : Place]]
  <2>1. more \in SUBSET Addresses /\ seen \subseteq more
        BY <1>2
  <2>2. newest \in [pn : Int, addr : Place]
        BY <1>2, <1>4 DEF PacketType
  <2> HIDE DEF more, newest
  <2>3. QED BY <1>2, <1>5, <2>1, <2>2
<1>7. x = "client" /\ p.challenge # None => p.challenge \in more
  <2> SUFFICES ASSUME x = "client", p.challenge # None PROVE p.challenge \in more
      OBVIOUS
  <2>1. p.from = "server"
        BY <1>4, OtherEnd DEF End
  <2>2. p.challenge = p.addr /\ p.addr = address
        BY <1>4, <2>1 DEF PacketOK, Reaches
  <2>3. QED BY <2>2
<1> HIDE DEF more, newest
<1>8. Sound(x, s, other, more, routes) /\ PacketOK(p, other, more)
  <2>1. Agree(s, other) /\ Agree(other, s)
        BY <1>3 DEF Sound
  <2>2. Sound(x, s, other, more, routes)
        BY <1>3, <1>6, <2>1, OtherStays
  <2>3. PacketOK(p, other, more)
        BY <1>4, <1>6 DEF PacketOK
  <2>4. QED BY <2>2, <2>3
<1> HIDE DEF s, other, seen, st
<1>9. /\ Sound(x, st, other, more, routes)
      /\ Gone(s) \subseteq Gone(st) /\ s.host_cid_seq <= st.host_cid_seq
      /\ st.packet_number = s.packet_number /\ st.terminated = s.terminated
      /\ st.failed # None =>
             /\ st.largest_received_packet = s.largest_received_packet
             /\ st.network_paths[1].addr = s.network_paths[1].addr
      /\ st.failed = None =>
             /\ st.largest_received_packet
                    = IF s.largest_received_packet < p.pn THEN p.pn
                      ELSE s.largest_received_packet
             /\ st.network_paths[1].addr
                    = IF IsProbing(p) \/ p.pn <= s.largest_received_packet
                      THEN s.network_paths[1].addr
                      ELSE IF x = "server" THEN p.addr ELSE "server"
  <2>1. lost \in SUBSET Overtaken(s, p.ack) /\ st = receive_datagram(x, s, p, lost)
        BY DEF st
  <2>2. QED BY ONLY <1>3, <1>4, <1>7, <1>8, <2>1, x \in End, DatagramSound
<1>10. /\ routes' \in SUBSET Nat /\ (x = "client" => routes' = routes)
       /\ x = "server" => routes' = _process_events(routes, st.events)
  <2>1. st \in State
        BY <1>9 DEF Sound
  <2>2. QED BY <1>3, <1>5, <2>1, CollectTable
<1> DEFINE after == routes'
<1>11. after \in SUBSET Nat /\ (x = "client" => after = routes)
       /\ (x = "server" => after = _process_events(routes, st.events))
       BY <1>10
<1> HIDE DEF after, t
<1>12. Sound(x, t, other, more, after) /\ Follows(st, t) /\ SamePlaces(st, t)
       BY <1>3, <1>9, <1>11, CollectSound DEF t
<1>13. /\ Gone(s) \subseteq Gone(t) /\ s.host_cid_seq <= t.host_cid_seq
       /\ t.packet_number = s.packet_number /\ t.terminated = s.terminated
       /\ t.largest_received_packet = st.largest_received_packet
       /\ t.network_paths[1].addr = st.network_paths[1].addr
  <2>1. s \in State /\ st \in State /\ t \in State
        BY <1>3, <1>9, <1>12 DEF Sound
  <2>2. s.host_cid_seq \in Nat /\ st.host_cid_seq \in Nat /\ t.host_cid_seq \in Nat
        BY <2>1, StateFields
  <2>3. Paths(st)
        BY <1>9 DEF Sound
  <2>4. t.network_paths[1].addr = st.network_paths[1].addr
        BY <1>12, <2>1, <2>3, FirstPlace
  <2>5. QED BY <1>9, <1>12, <2>2, <2>4 DEF Follows, RestOf
<1>14. Known(conn', net', after, more) /\ Leaves(x, t)
  <2>1. acks \in BOOLEAN /\ FALSE \in BOOLEAN
        BY <1>3 DEF State
  <2>2. /\ Sound(x, t, conn[Other(x)], more, after)
        /\ Gone(conn[x]) \subseteq Gone(t) /\ conn[x].host_cid_seq <= t.host_cid_seq
        /\ t.packet_number = conn[x].packet_number /\ t.terminated = conn[x].terminated
        BY <1>12, <1>13 DEF s, other
  <2>3. /\ Open(x) /\ Transmit(x, t, acks, FALSE) /\ more \in SUBSET Addresses
        /\ seen \subseteq more /\ after \in SUBSET Nat /\ (x = "client" => after = routes)
        /\ address \in Addresses
        BY <1>2, <1>4, <1>5, <1>6, <1>11
  <2>4. QED BY ONLY <1>2, <2>1, <2>2, <2>3, x \in End, TransmitKnown DEF seen
<1>15. Known(conn', net', routes', history'.challenged)
       BY <1>6, <1>14 DEF after
<1>16. NewestFollowed'
  <2>1. CASE x = "client" \/ st.failed # None
    <3>1. history'.newest = history.newest
          BY <1>6, <2>1 DEF newest
    <3>2. x = "server" => /\ t.largest_received_packet = conn[x].largest_received_packet
                          /\ t.network_paths[1].addr = conn[x].network_paths[1].addr
          BY <1>9, <1>13, <2>1 DEF s
    <3>3. QED BY <1>14, <1>15, <3>1, <3>2, NewestStays
  <2>2. CASE x = "server" /\ st.failed = None
    <3>1. p.from = "client"
          BY <1>4, <2>2, OtherEnd DEF End
    <3>2. history'.newest = IF ~IsProbing(p) /\ p.pn > history.newest.pn
                            THEN [pn |-> p.pn, addr |-> p.addr] ELSE history.newest
          BY <1>6, <2>2 DEF newest
    <3>3. /\ t.largest_received_packet
                 = IF conn["server"].largest_received_packet < p.pn THEN p.pn
                   ELSE conn["server"].largest_received_packet
          /\ t.network_paths[1].addr
                 = IF IsProbing(p) \/ p.pn <= conn["server"].largest_received_packet
                   THEN conn["server"].network_paths[1].addr ELSE p.addr
          BY <1>9, <1>13, <2>2 DEF s
    <3>4. Leaves("server", t)
          BY <1>14, <2>2
    <3>5. QED BY <1>15, <3>1, <3>2, <3>3, <3>4, NewestMoves
  <2>3. QED BY <2>1, <2>2 DEF End
<1>17. QED BY <1>2, <1>4, <1>6, <1>15, <1>16 DEF IdsInv, Known

\* A datagram arrives, for the first time or again.
LEMMA DeliverStep ==
    ASSUME IdsInv, NEW x \in End, NEW p \in net, Deliver(x, p) \/ Repeat(x, p)
    PROVE  IdsInv'
BY ReceiveStep DEF Deliver, Repeat

\* Elsewhere the client knows what it knew.
LEMMA RebindStep ==
    ASSUME IdsInv, Rebind
    PROVE  IdsInv'
<1>1. address' \in Addresses /\ UNCHANGED <<conn, net, routes, history>>
      BY DEF Rebind
<1>2. QED BY <1>1 DEF IdsInv, NewestFollowed

\* The server is done with the connection: its table leads to it no more.
LEMMA TerminateStep ==
    ASSUME IdsInv, Terminate
    PROVE  IdsInv'
<1> DEFINE s == conn["server"]
           other == conn[Other("server")]
           seen == history.challenged
           e == <<"terminated", 0>>
           st == [s EXCEPT !.events = Append(@, e), !.terminated = TRUE]
           t == [st EXCEPT !.events = << >>]
<1>1. /\ "server" \in End /\ s \in State /\ routes \in SUBSET Nat
      /\ Sound("server", s, other, seen, routes)
      BY EndKnown DEF End
<1>2. /\ Known(conn, net, routes, seen) /\ address \in Addresses
      /\ history \in [challenged : SUBSET Addresses, newest : [pn : Int, addr : Place]]
      BY InvariantParts
<1>3. /\ Collect("server", st) /\ conn' = [conn EXCEPT !["server"] = t]
      /\ UNCHANGED <<address, net, history>>
      BY DEF Terminate
<1>4. routes' = {}
  <2>1. st.events = Append(s.events, e)
        BY <1>1 DEF State
  <2>2. e \in EventType /\ s.events \in Seq(EventType)
        BY <1>1, StateFields DEF EventType
  <2>3. Take(_process_events(routes, s.events), e) = {}
        BY DEF Take
  <2> HIDE DEF e, s, st
  <2>4. _process_events(routes, st.events) = {}
        BY <1>1, <2>1, <2>2, <2>3, ProcessOne
  <2>5. QED BY <1>3, <2>4 DEF Collect
<1>5. t \in State /\ OwnOf(t) = OwnOf(s) /\ PeerOf(t) = PeerOf(s) /\ PathsOf(t) = PathsOf(s)
  <2> DEFINE none == << >>
             u == [s EXCEPT !.events = none, !.terminated = TRUE]
  <2>1. none \in Seq(EventType)
        OBVIOUS
  <2>2. t = u
        BY <1>1 DEF State
  <2> HIDE DEF none, t, s
  <2>3. u \in State
        BY <1>1, <2>1 DEF State
  <2>4. OwnOf(u) = OwnOf(s) /\ PeerOf(u) = PeerOf(s)
        BY <1>1 DEF State, OwnOf, PeerOf
  <2>5. PathsOf(u) = PathsOf(s)
        BY <1>1 DEF State, PathsOf
  <2>6. QED BY <2>2, <2>3, <2>4, <2>5
<1>6. /\ t.terminated = TRUE /\ t.failed = s.failed /\ t.packet_number = s.packet_number
      /\ t.largest_received_packet = s.largest_received_packet
      BY <1>1 DEF State
<1> HIDE DEF t, s, other, seen
<1>7. OwnIds(t) /\ Agree(other, t) /\ t.host_cid_seq = s.host_cid_seq
      BY <1>1, <1>5, SameOwn DEF Sound
<1>8. PeerIds(t) /\ Gone(t) = Gone(s) /\ Agree(t, other)
      BY <1>1, <1>5, SamePeer DEF Sound
<1>9. Paths(t) /\ Challenged("server", t, seen) /\ SamePlaces(s, t)
      BY <1>1, <1>5, SamePaths DEF Sound
<1>10. Sound("server", t, other, seen, {})
  <2>1. TableOf("server", t, {})
        BY <1>6 DEF TableOf
  <2>2. FailedWell(t)
        BY <1>1, <1>6, <1>8, SameFailed DEF Sound
  <2>3. QED BY <1>5, <1>7, <1>8, <1>9, <2>1, <2>2 DEF Sound
<1>11. Known([conn EXCEPT !["server"] = t], net, {}, seen)
  <2>1. s.host_cid_seq \in Nat /\ s.packet_number \in Nat
        BY <1>1, StateFields
  <2>2. /\ Sound("server", t, conn[Other("server")], seen, {})
        /\ Gone(conn["server"]) \subseteq Gone(t)
        /\ conn["server"].host_cid_seq <= t.host_cid_seq
        /\ conn["server"].packet_number <= t.packet_number
        BY <1>6, <1>7, <1>8, <1>10, <2>1 DEF s, other
  <2> DEFINE none == {}
  <2>3. /\ none \in SUBSET Nat /\ none \subseteq {p \in PacketType :
               p.from = "server" /\ p.pn = conn["server"].packet_number}
        /\ \A p, q \in none : p = q
        /\ \A p \in none : PacketOK(p, t, seen)
        OBVIOUS
  <2>4. Sound("server", t, conn[Other("server")], seen, none)
        BY <2>2
  <2> HIDE DEF none
  <2>5. ("server" = "client" => none = routes) /\ ("server" = "server" /\ t.terminated => none = {})
        BY DEF none
  <2>6. Known([conn EXCEPT !["server"] = t], net \cup none, none, seen)
        BY <1>1, <1>2, <2>2, <2>3, <2>4, <2>5, StepKnown
  <2>7. QED BY <2>6 DEF none
<1>12. Known(conn', net', routes', history'.challenged)
       BY <1>3, <1>4, <1>11 DEF seen
<1>13. Leaves("server", t) /\ t.network_paths[1].addr = s.network_paths[1].addr
  <2>1. t.network_paths[1].addr = s.network_paths[1].addr
        BY <1>1, <1>9, FirstPlace DEF Sound
  <2>2. conn'["server"] = t /\ \A y \in End : y # "server" => conn'[y] = conn[y]
        BY <1>1, <1>2, <1>3 DEF Known
  <2>3. conn["server"].packet_number <= t.packet_number
        BY <1>1, <1>6, StateFields DEF s
  <2>4. QED BY <1>3, <2>1, <2>2, <2>3 DEF Leaves
<1>14. NewestFollowed'
       BY <1>1, <1>3, <1>6, <1>12, <1>13, NewestStays DEF s
<1>15. QED BY <1>2, <1>3, <1>12, <1>14 DEF IdsInv, Known, seen

\* Every step keeps the invariant.
LEMMA IdsStep ==
    ASSUME IdsInv, [Next]_vars
    PROVE  IdsInv'
<1>1. CASE Next
  <2>1. CASE Rebind
        BY <2>1, RebindStep
  <2>2. CASE Terminate
        BY <2>2, TerminateStep
  <2>3. ASSUME NEW x \in End, Send(x) PROVE IdsInv'
        BY <2>3, SendStep
  <2>4. ASSUME NEW x \in End, ChangeConnectionId(x) PROVE IdsInv'
        BY <2>4, ChangeStep
  <2>5. ASSUME NEW x \in End, AckTimer(x) PROVE IdsInv'
        BY <2>5, AckTimerStep
  <2>6. ASSUME NEW x \in End, LossTimer(x) PROVE IdsInv'
        BY <2>6, LossTimerStep
  <2>7. ASSUME NEW x \in End, NEW p \in net, Deliver(x, p) \/ Repeat(x, p) PROVE IdsInv'
        BY <2>7, DeliverStep
  <2>8. QED BY <1>1, <2>1, <2>2, <2>3, <2>4, <2>5, <2>6, <2>7 DEF Next
<1>2. CASE UNCHANGED vars
      BY <1>2 DEF vars, IdsInv, NewestFollowed
<1>3. QED BY <1>1, <1>2

\* It holds at the start: both have issued as many IDs as the limit allows, and use the
\* first.
LEMMA IdsInit ==
    ASSUME Init
    PROVE  IdsInv
<1>1. /\ conn = [x \in End |-> Connection(x)] /\ address = Home /\ net = {} /\ routes = {0}
      /\ history = [challenged |-> {}, newest |-> [pn |-> -1, addr |-> Home]]
      BY DEF Init
<1>2. Limit \in Nat /\ Limit >= 2 /\ Home \in Addresses
      BY LimitAssumption, AddressAssumption
<1>3. "client" \in End /\ "server" \in End
      BY DEF End
<1> DEFINE place(x) == IF x = "server" THEN Home ELSE "server"
           paths(x) == <<Path(place(x), TRUE)>>
<1>4. ASSUME NEW x \in End
      PROVE  /\ paths(x) \in Seq(PathType) /\ Len(paths(x)) = 1 /\ DOMAIN paths(x) = {1}
             /\ paths(x)[1].addr = place(x) /\ Head(paths(x)).addr = place(x)
             /\ paths(x)[1].remote_challenges = << >>
  <2> DEFINE q == Path(place(x), TRUE)
  <2>1. place(x) \in Place /\ << >> \in Seq(Place)
        BY <1>2 DEF Place
  <2>2. q \in PathType /\ q.addr = place(x) /\ q.remote_challenges = << >>
        BY <2>1 DEF PathType, Path
  <2> HIDE DEF q
  <2>3. paths(x) = <<q>>
        BY DEF q
  <2> HIDE DEF paths, place
  <2>4. paths(x) \in Seq(PathType) /\ Len(paths(x)) = 1 /\ paths(x)[1] = q
        BY <2>2, <2>3
  <2>5. DOMAIN paths(x) = {1}
        BY <2>4, LenProperties
  <2>6. Head(paths(x)) = q
        BY <2>3
  <2>7. QED BY <2>2, <2>4, <2>5, <2>6
<1> HIDE DEF place, paths
<1>5. ASSUME NEW x \in End
      PROVE  Connection(x) =
                [host_cids |-> 0..(Limit - 1), unsent |-> 1..(Limit - 1),
                 host_cid_seq |-> Limit, host_cid |-> 0, peer_cid |-> 0,
                 peer_cid_available |-> << >>, peer_cid_sequence_numbers |-> {0},
                 retire_connection_ids |-> << >>, network_paths |-> paths(x),
                 local_challenges |-> {}, largest_received_packet |-> -1,
                 received |-> {}, ack_at |-> FALSE, probe_pending |-> FALSE,
                 packet_number |-> 0, sent_packets |-> {}, events |-> << >>,
                 terminated |-> FALSE, failed |-> None]
      BY DEF Connection, paths, place
<1>6. ASSUME NEW x \in End
      PROVE  /\ Connection(x) \in State
             /\ OwnIds(Connection(x)) /\ PeerIds(Connection(x)) /\ Paths(Connection(x))
             /\ Connection(x).failed = None
             /\ Challenged(x, Connection(x), {}) /\ TableOf(x, Connection(x), {0})
             /\ \A y \in End : Agree(Connection(x), Connection(y))
             /\ Connection(x).packet_number = 0 /\ ~Connection(x).terminated
             /\ Connection(x).largest_received_packet = -1
             /\ Head(Connection(x).network_paths).addr = place(x)
  <2> DEFINE s == Connection(x)
  <2>1. /\ 0..(Limit - 1) \in SUBSET Nat /\ 1..(Limit - 1) \in SUBSET (0..(Limit - 1))
        /\ 0 \in 0..(Limit - 1) /\ \A i \in 0..(Limit - 1) : i \in 1..(Limit - 1) \/ i = 0
        /\ IsFiniteSet(0..(Limit - 1)) /\ Cardinality(0..(Limit - 1)) = Limit
    <3>1. 0 \in Int /\ Limit - 1 \in Int /\ 0 <= Limit - 1 /\ ((Limit - 1) - 0) + 1 = Limit
          BY <1>2
    <3>2. IsFiniteSet(0..(Limit - 1)) /\ Cardinality(0..(Limit - 1)) = Limit
          BY <3>1, FS_Interval
    <3>3. QED BY <1>2, <3>2
  <2>2. s \in State
    <3>1. << >> \in Seq(Nat) /\ << >> \in Seq(EventType) /\ None \in Reason
          BY DEF Reason
    <3> DEFINE own == 0..(Limit - 1)
               more == 1..(Limit - 1)
               none == << >>
               least == -1
    <3>2. /\ own \in SUBSET Nat /\ more \in SUBSET Nat /\ least \in Int
          /\ none \in Seq(Nat) /\ none \in Seq(EventType)
          BY <2>1, <3>1
    <3>3. s = [host_cids |-> own, unsent |-> more,
               host_cid_seq |-> Limit, host_cid |-> 0, peer_cid |-> 0,
               peer_cid_available |-> none, peer_cid_sequence_numbers |-> {0},
               retire_connection_ids |-> none, network_paths |-> paths(x),
               local_challenges |-> {}, largest_received_packet |-> least,
               received |-> {}, ack_at |-> FALSE, probe_pending |-> FALSE,
               packet_number |-> 0, sent_packets |-> {}, events |-> none,
               terminated |-> FALSE, failed |-> None]
          BY <1>5
    <3>4. paths(x) \in Seq(PathType)
          BY <1>4
    <3> HIDE DEF own, more, none, least, s
    <3>5. QED BY <1>2, <3>1, <3>2, <3>3, <3>4 DEF State
  <2>3. /\ s.host_cids = 0..(Limit - 1) /\ s.unsent = 1..(Limit - 1)
        /\ s.host_cid_seq = Limit /\ s.peer_cid = 0 /\ s.peer_cid_available = << >>
        /\ s.peer_cid_sequence_numbers = {0} /\ s.retire_connection_ids = << >>
        /\ s.network_paths = paths(x) /\ s.local_challenges = {}
        /\ s.largest_received_packet = -1 /\ s.packet_number = 0
        /\ s.sent_packets = {} /\ s.events = << >> /\ s.terminated = FALSE /\ s.failed = None
        BY <1>5
  <2> HIDE DEF s
  <2>4. OwnIds(s)
        BY <2>1, <2>3 DEF OwnIds
  <2>5. Range(<< >>) = {} /\ IsInjective(<< >>)
        BY DEF Range, IsInjective
  <2>6. Gone(s) = {}
        BY <2>3 DEF Gone
  <2>7. PeerIds(s)
    <3>1. IsFiniteSet({}) /\ IsFiniteSet({0})
          BY FS_EmptySet, FS_Singleton
    <3>2. QED BY <2>3, <2>5, <2>6, <3>1 DEF PeerIds, RetiredOnce
  <2>8. Paths(s)
    <3>1. paths(x) # << >>
          BY <1>4, EmptySeq
    <3>2. QED BY <2>3, <3>1 DEF Paths
  <2>9. Challenged(x, s, {})
    <3>1. x = "server" => place(x) = Home
          BY DEF place
    <3>2. QED BY <1>4, <2>3, <2>5, <3>1 DEF Challenged
  <2>10. TableOf(x, s, {0})
    <3>1. _process_events({0}, << >>) = {0}
      <4>1. {0} \in SUBSET Nat
            OBVIOUS
      <4>2. QED BY <4>1, ProcessNone
    <3>2. QED BY <2>1, <2>3, <3>1 DEF TableOf
  <2>11. \A y \in End : Agree(s, Connection(y))
    <3>1. \A y \in End : /\ Connection(y).host_cids = 0..(Limit - 1)
                         /\ Connection(y).host_cid_seq = Limit
          BY <1>5
    <3>2. QED BY <2>1, <2>3, <3>1 DEF Agree
  <2>12. Head(s.network_paths).addr = place(x)
        BY <1>4, <2>3
  <2>13. QED BY <2>2, <2>3, <2>4, <2>7, <2>8, <2>9, <2>10, <2>11, <2>12 DEF s
<1>7. \A x \in End : Sound(x, conn[x], conn[Other(x)], history.challenged, routes)
  <2>1. ASSUME NEW x \in End PROVE Sound(x, conn[x], conn[Other(x)], history.challenged, routes)
    <3>1. Other(x) \in End
          BY OtherEnd
    <3>2. /\ conn[x] = Connection(x) /\ conn[Other(x)] = Connection(Other(x))
          /\ history.challenged = {} /\ routes = {0}
          BY <1>1, <3>1
    <3>3. Agree(Connection(x), Connection(Other(x))) /\ Agree(Connection(Other(x)), Connection(x))
          BY <1>6, <3>1
    <3>4. QED BY <1>6, <3>2, <3>3 DEF Sound, FailedWell
  <2>2. QED BY <2>1
<1>8. conn \in [End -> State]
      BY <1>1, <1>6
<1>9. history \in [challenged : SUBSET Addresses, newest : [pn : Int, addr : Place]]
      BY <1>1, <1>2 DEF Place
<1>10. NewestFollowed
  <2>1. /\ conn["server"] = Connection("server") /\ conn["client"] = Connection("client")
        /\ history.newest.pn = -1 /\ history.newest.addr = Home /\ place("server") = Home
        BY <1>1, <1>3 DEF place
  <2>2. QED BY <1>1, <1>3, <1>6, <2>1 DEF NewestFollowed
<1>11. ~conn["server"].terminated
       BY <1>1, <1>3, <1>6
<1>12. QED BY <1>1, <1>2, <1>7, <1>8, <1>9, <1>10, <1>11 DEF IdsInv

-----------------------------------------------------------------------------
(* What holds in every state.                                              *)

\* The invariant holds in every state of every execution.
THEOREM IdsInvariant == Spec => []IdsInv
<1>1. Init => IdsInv
      BY IdsInit
<1>2. IdsInv /\ [Next]_vars => IdsInv'
      BY IdsStep
<1>3. QED BY <1>1, <1>2, PTL DEF Spec

\* Every ID an end uses or may go over to is one the other answers to: what is not gone was
\* kept, and only what is gone is retired.  No end finds the other's NEW_CONNECTION_ID or
\* RETIRE_CONNECTION_ID frames in error, unless it has given up more IDs than may wait to
\* be retired: an ID is retired once, so not more wait than were given up.
THEOREM IdsKnown == Spec => []IdsAreKnown
<1>1. IdsInv => IdsAreKnown
  <2> SUFFICES ASSUME IdsInv, NEW x \in End
               PROVE  /\ \/ conn[x].failed \in {None, "response"}
                         \/ conn[x].failed = "pending" /\ Cardinality(GivenUp(x)) > MaxPending
                      /\ {conn[x].peer_cid} \cup Range(conn[x].peer_cid_available)
                             \subseteq conn[Other(x)].host_cids
      BY DEF IdsAreKnown
  <2>1. Sound(x, conn[x], conn[Other(x)], history.challenged, routes)
        BY EndKnown
  <2>2. GivenUp(x) = Gone(conn[x])
        BY DEF GivenUp, Gone
  <2>3. \/ conn[x].failed \in {None, "response"}
        \/ conn[x].failed = "pending" /\ Cardinality(GivenUp(x)) > MaxPending
        BY <2>1, <2>2 DEF Sound, FailedWell
  <2>4. QED BY <2>1, <2>3 DEF Sound, PeerIds, Agree, Gone
<1>2. QED BY <1>1, IdsInvariant, PTL

\* The server's table is behind the connection by the events that wait, and by nothing
\* else.
THEOREM TableFollows == Spec => []TableFollowsIds
<1>1. IdsInv => TableFollowsIds
  <2> SUFFICES ASSUME IdsInv PROVE TableFollowsIds
      OBVIOUS
  <2>1. /\ Sound("server", conn["server"], conn[Other("server")], history.challenged, routes)
        /\ conn["server"].terminated => routes = {}
        BY DEF IdsInv, End
  <2>2. QED BY <2>1 DEF TableFollowsIds, Sound, TableOf
<1>2. QED BY <1>1, IdsInvariant, PTL

\* No address is validated at which the client had no challenge, and the path in use is
\* that of the newest packet that is not a probe.
THEOREM PathsFollowed == Spec => []PathsAreFollowed
<1>1. IdsInv => PathsAreFollowed
  <2> SUFFICES ASSUME IdsInv PROVE PathsAreFollowed
      OBVIOUS
  <2>1. Sound("server", conn["server"], conn[Other("server")], history.challenged, routes)
        BY DEF IdsInv, End
  <2>2. NewestFollowed
        BY DEF IdsInv
  <2>3. QED BY <2>1, <2>2 DEF PathsAreFollowed, Sound, Challenged, NewestFollowed
<1>2. QED BY <1>1, IdsInvariant, PTL
=============================================================================
