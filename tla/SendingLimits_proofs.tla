------------------------ MODULE SendingLimits_proofs ------------------------
(***************************************************************************)
(* What limits a sender: the limits of the peer and the window of PULSE.   *)
(*                                                                         *)
(* Flow control: no limit that was raised is ever lost on the way to the   *)
(* sender, for any number of streams, any initial limits and any number of *)
(* frames.  PULSE: what its decisions rest on, for every path, every       *)
(* length of the queue, every order of the tasks and every lateness of the *)
(* event loop.  The two share no state and no definition.                  *)
(***************************************************************************)
EXTENDS FlowControl, Pulse, FoldLemmas

-----------------------------------------------------------------------------
(* Flow control: the limits.                                               *)

\* What the frames on limits carry was granted, and what the peer is known to have
\* processed, it knows.
GrantTypeOK ==
    /\ value \in [Limits -> Nat \ {0}]
    /\ sent \in [Limits -> Nat]
    /\ remote \in [Limits -> Nat]

FramesGranted ==
    \A f \in net : f.type = "max" =>
        f.limit \in Limits /\ f.size \in Nat /\ f.size <= value[f.limit]

FlightOfLimits == \A f \in flight : f.type = "max" => f.limit \in Limits

GotIsKnown ==
    \A f \in got : f.type = "max" =>
        f.limit \in Limits /\ f.size \in Nat /\ remote[f.limit] >= f.size

SentWasGranted == \A l \in Limits : sent[l] <= value[l]

GrantInv ==
    /\ GrantTypeOK /\ FramesGranted /\ FlightOfLimits /\ GotIsKnown
    /\ SentWasGranted /\ LimitsReachSender

\* The invariant holds at the start: both ends know the transport parameters.
LEMMA GrantInit == Init => GrantInv
<1> SUFFICES ASSUME Init PROVE GrantInv
    OBVIOUS
<1>1. \A l \in Limits : InitialOf(l) \in Nat \ {0}
    <2>1. \A l \in Limits : l[1] \in {"data", "stream", "streams"}
        BY DEF Limits, DataLimit, StreamsLimit, StreamLimit
    <2> QED BY <2>1, InitialLimitAssumption DEF InitialOf
<1>2. GrantTypeOK
    BY <1>1 DEF Init, GrantTypeOK
<1>3. FramesGranted /\ FlightOfLimits /\ GotIsKnown
    BY DEF Init, FramesGranted, FlightOfLimits, GotIsKnown
<1>4. SentWasGranted /\ LimitsReachSender
    BY <1>1 DEF Init, SentWasGranted, LimitsReachSender
<1> QED BY <1>2, <1>3, <1>4 DEF GrantInv

\* A frame of a stream goes out: no limit and no frame on a limit is touched.
LEMMA StreamFrameSent ==
    ASSUME GrantInv, NEW f, f.type # "max", Transmit(f),
           UNCHANGED <<remote, grantVars>>
    PROVE  GrantInv'
<1> USE DEF GrantInv, grantVars
<1>1. GrantTypeOK'
    BY DEF GrantTypeOK
<1>2. FramesGranted'
    BY DEF FramesGranted, Transmit
<1>3. FlightOfLimits' /\ flight \subseteq flight'
    BY DEF FlightOfLimits, Transmit
<1>4. GotIsKnown'
    BY DEF GotIsKnown, Transmit
<1>5. SentWasGranted' /\ LimitsReachSender'
    BY <1>3 DEF SentWasGranted, LimitsReachSender
<1> QED BY <1>1, <1>2, <1>3, <1>4, <1>5

\* Doubling keeps a limit positive and never lowers it.
LEMMA RaisedIsHigher ==
    ASSUME GrantInv, NEW l \in Limits
    PROVE  Raised(l) \in Nat \ {0} /\ (Raised(l) = value[l] \/ Raised(l) = 2 * value[l])
<1>1. value[l] \in Nat \ {0}
    BY DEF GrantInv, GrantTypeOK
<1> QED BY <1>1 DEF Raised

\* A limit is raised, perhaps, and sent: it is in a frame in flight from now on.
LEMMA WriteLimitKeeps ==
    ASSUME GrantInv, NEW k \in Limits, WriteLimit(k)
    PROVE  GrantInv'
<1> USE DEF GrantInv
<1> DEFINE f == Maximum(k, Raised(k))
<1>1. /\ value' = [value EXCEPT ![k] = Raised(k)]
      /\ sent' = [sent EXCEPT ![k] = Raised(k)]
      /\ Transmit(f) /\ remote' = remote
    BY DEF WriteLimit, GrantTypeOK
<1>2. Raised(k) \in Nat \ {0} /\ Raised(k) >= value[k] /\ value[k] \in Nat
    BY RaisedIsHigher DEF GrantTypeOK
<1>3. GrantTypeOK'
    BY <1>1, <1>2 DEF GrantTypeOK
<1>4. /\ \A l \in Limits : value'[l] >= value[l] /\ value[l] \in Nat /\ value'[l] \in Nat
      /\ value'[k] = Raised(k) /\ sent'[k] = Raised(k)
      /\ \A l \in Limits : l # k => value'[l] = value[l] /\ sent'[l] = sent[l]
    BY <1>1, <1>2 DEF GrantTypeOK
<1>5. f.type = "max" /\ f.limit = k /\ f.size = Raised(k)
    BY DEF Maximum
<1>6. net' = net \cup {f} /\ flight' = flight \cup {f} /\ got' = got \ {f}
    BY <1>1, <1>5 DEF Transmit
<1>7. FramesGranted'
    BY <1>2, <1>4, <1>5, <1>6 DEF FramesGranted
<1>8. FlightOfLimits' /\ GotIsKnown'
    BY <1>1, <1>5, <1>6 DEF FlightOfLimits, GotIsKnown
<1>9. SentWasGranted'
    BY <1>2, <1>4 DEF SentWasGranted
<1>10. LimitsReachSender'
    <2> SUFFICES ASSUME NEW l \in Limits
                 PROVE  /\ remote'[l] <= value'[l]
                        /\ remote'[l] < value'[l] =>
                              sent'[l] # value'[l] \/ Maximum(l, value'[l]) \in flight'
        BY DEF LimitsReachSender, Maximum
    <2>1. remote[l] \in Nat /\ remote[l] <= value[l]
        BY DEF GrantTypeOK, LimitsReachSender
    <2>2. remote'[l] <= value'[l]
        BY <1>1, <1>4, <2>1
    <2>3. CASE l = k
        BY <1>4, <1>6, <2>2, <2>3
    <2>4. CASE l # k
        BY <1>1, <1>4, <1>6, <2>2, <2>4 DEF LimitsReachSender
    <2> QED BY <2>3, <2>4
<1> QED BY <1>3, <1>7, <1>8, <1>9, <1>10

\* A limit is raised and the packet is full: it differs from what was sent last.
LEMMA WriteLimitStoppedKeeps ==
    ASSUME GrantInv, NEW k \in Limits, WriteLimitStopped(k)
    PROVE  GrantInv'
<1> USE DEF GrantInv
<1>1. value' = [value EXCEPT ![k] = Raised(k)] /\ value' # value
    BY DEF WriteLimitStopped
<1>2. UNCHANGED <<remote, sent, net, flight, got>>
    BY DEF WriteLimitStopped, netVars
<1>3. Raised(k) \in Nat \ {0} /\ Raised(k) > value[k] /\ value[k] \in Nat \ {0}
    <2>1. Raised(k) # value[k]
        BY <1>1 DEF GrantTypeOK
    <2> QED BY <2>1, RaisedIsHigher DEF GrantTypeOK
<1>4. GrantTypeOK'
    BY <1>1, <1>2, <1>3 DEF GrantTypeOK
<1>5. /\ \A l \in Limits : value'[l] >= value[l] /\ value[l] \in Nat /\ value'[l] \in Nat
      /\ value'[k] = Raised(k)
      /\ \A l \in Limits : l # k => value'[l] = value[l]
    BY <1>1, <1>3 DEF GrantTypeOK
<1>6. FramesGranted'
    BY <1>2, <1>5 DEF FramesGranted
<1>7. FlightOfLimits' /\ GotIsKnown'
    BY <1>2 DEF FlightOfLimits, GotIsKnown
<1>8. SentWasGranted' /\ LimitsReachSender'
    <2> SUFFICES ASSUME NEW l \in Limits
                 PROVE  /\ sent[l] <= value'[l]
                        /\ remote[l] <= value'[l]
                        /\ remote[l] < value'[l] =>
                              sent[l] # value'[l] \/ Maximum(l, value'[l]) \in flight
        BY <1>2 DEF SentWasGranted, LimitsReachSender, Maximum
    <2>1. /\ sent[l] \in Nat /\ sent[l] <= value[l]
          /\ remote[l] \in Nat /\ remote[l] <= value[l]
        BY DEF GrantTypeOK, SentWasGranted, LimitsReachSender
    <2>2. CASE l = k
        BY <1>3, <1>5, <2>1, <2>2
    <2>3. CASE l # k
        BY <1>5, <2>1, <2>3 DEF LimitsReachSender
    <2> QED BY <2>2, <2>3
<1> QED BY <1>4, <1>6, <1>7, <1>8

\* A frame arrives: a limit that it carries is known from now on.
LEMMA DeliverKeeps ==
    ASSUME GrantInv, NEW f \in net, Deliver(f)
    PROVE  GrantInv'
<1> USE DEF GrantInv
<1>1. UNCHANGED <<value, sent, net, flight>> /\ got' = got \cup ({f} \cap flight)
    BY DEF Deliver, grantVars
<1>2. CASE f.type = "max"
    <2>1. remote' = [remote EXCEPT ![f.limit] = Larger(@, f.size)]
        BY <1>2 DEF Deliver
    <2>2. f.limit \in Limits /\ f.size \in Nat /\ f.size <= value[f.limit]
        BY <1>2 DEF FramesGranted
    <2>3. \A l \in Limits :
              /\ remote[l] \in Nat /\ value[l] \in Nat /\ remote'[l] \in Nat
              /\ remote'[l] >= remote[l] /\ remote'[l] <= value[l]
              /\ l = f.limit => remote'[l] >= f.size
        BY <2>1, <2>2 DEF GrantTypeOK, LimitsReachSender, Larger
    <2>4. GrantTypeOK'
        BY <1>1, <2>1, <2>2 DEF GrantTypeOK, Larger
    <2>5. FramesGranted' /\ FlightOfLimits' /\ SentWasGranted'
        BY <1>1 DEF FramesGranted, FlightOfLimits, SentWasGranted
    <2>6. GotIsKnown'
        <3> SUFFICES ASSUME NEW g \in got', g.type = "max"
                     PROVE  g.limit \in Limits /\ g.size \in Nat /\ remote'[g.limit] >= g.size
            BY DEF GotIsKnown
        <3>1. CASE g = f
            BY <2>2, <2>3, <3>1
        <3>2. CASE g # f
            BY <1>1, <2>3, <3>2 DEF GotIsKnown
        <3> QED BY <3>1, <3>2
    <2>7. LimitsReachSender'
        BY <1>1, <2>3 DEF LimitsReachSender
    <2> QED BY <2>4, <2>5, <2>6, <2>7
<1>3. CASE f.type # "max"
    <2>1. UNCHANGED remote
        BY <1>3 DEF Deliver
    <2>2. GrantTypeOK' /\ FramesGranted' /\ FlightOfLimits'
        BY <1>1, <2>1 DEF GrantTypeOK, FramesGranted, FlightOfLimits
    <2>3. GotIsKnown'
        BY <1>1, <1>3, <2>1 DEF GotIsKnown
    <2>4. SentWasGranted' /\ LimitsReachSender'
        BY <1>1, <2>1 DEF SentWasGranted, LimitsReachSender
    <2> QED BY <2>2, <2>3, <2>4
<1> QED BY <1>2, <1>3

\* A frame is acknowledged: if it carried a limit, the sender knows that limit.
LEMMA AckedKeeps ==
    ASSUME GrantInv, NEW f \in flight, Acked(f)
    PROVE  GrantInv'
<1> USE DEF GrantInv
<1>1. /\ f \in got /\ flight' = flight \ {f} /\ got' = got \ {f}
      /\ UNCHANGED <<remote, value, sent, net>>
    BY DEF Acked, Reported
<1>2. GrantTypeOK' /\ FramesGranted' /\ SentWasGranted'
    BY <1>1 DEF GrantTypeOK, FramesGranted, SentWasGranted
<1>3. FlightOfLimits' /\ GotIsKnown'
    BY <1>1 DEF FlightOfLimits, GotIsKnown
<1>4. LimitsReachSender'
    <2> SUFFICES ASSUME NEW l \in Limits, remote[l] < value[l], sent[l] = value[l]
                 PROVE  Maximum(l, value[l]) \in flight'
        BY <1>1 DEF LimitsReachSender, Maximum
    <2>1. Maximum(l, value[l]) \in flight
        BY DEF LimitsReachSender
    <2>2. Maximum(l, value[l]) # f
        <3> SUFFICES ASSUME Maximum(l, value[l]) = f PROVE FALSE
            OBVIOUS
        <3>1. f.type = "max" /\ f.limit = l /\ f.size = value[l]
            BY DEF Maximum
        <3>2. remote[l] >= value[l]
            BY <1>1, <3>1 DEF GotIsKnown
        <3> QED BY <3>2 DEF GrantTypeOK
    <2> QED BY <1>1, <2>1, <2>2
<1> QED BY <1>2, <1>3, <1>4

\* A frame is lost: if it carried a limit, the limit will be sent again.
LEMMA LostKeeps ==
    ASSUME GrantInv, NEW f \in flight, Lost(f)
    PROVE  GrantInv'
<1> USE DEF GrantInv
<1>1. /\ flight' = flight \ {f} /\ got' = got \ {f}
      /\ UNCHANGED <<remote, value, net>>
    BY DEF Lost, Reported
<1>2. FramesGranted' /\ FlightOfLimits' /\ GotIsKnown'
    BY <1>1 DEF FramesGranted, FlightOfLimits, GotIsKnown
<1>3. CASE f.type = "max"
    <2>1. f.limit \in Limits /\ sent' = [sent EXCEPT ![f.limit] = 0]
        BY <1>3 DEF Lost, ForgetSent, FlightOfLimits
    <2>2. GrantTypeOK' /\ SentWasGranted'
        BY <1>1, <2>1 DEF GrantTypeOK, SentWasGranted
    <2>3. LimitsReachSender'
        <3> SUFFICES ASSUME NEW l \in Limits, remote[l] < value[l], sent'[l] = value[l]
                     PROVE  Maximum(l, value[l]) \in flight'
            BY <1>1 DEF LimitsReachSender, Maximum
        <3>1. l # f.limit /\ sent[l] = value[l]
            BY <2>1 DEF GrantTypeOK
        <3>2. Maximum(l, value[l]) \in flight
            BY <3>1 DEF LimitsReachSender
        <3>3. Maximum(l, value[l]) # f
            BY <3>1 DEF Maximum
        <3> QED BY <1>1, <3>2, <3>3
    <2> QED BY <1>2, <2>2, <2>3
<1>4. CASE f.type = "reset"
    <2>1. UNCHANGED sent
        BY <1>4 DEF Lost
    <2>2. GrantTypeOK' /\ SentWasGranted'
        BY <1>1, <2>1 DEF GrantTypeOK, SentWasGranted
    <2>3. \A l \in Limits : Maximum(l, value[l]) # f
        BY <1>4 DEF Maximum
    <2>4. LimitsReachSender'
        BY <1>1, <2>1, <2>3 DEF LimitsReachSender, Maximum
    <2> QED BY <1>2, <2>2, <2>4
<1> QED BY <1>3, <1>4 DEF Lost

\* Every step keeps what the limits and the frames that carry them say.
LEMMA GrantStep == GrantInv /\ [Next]_vars => GrantInv'
<1> SUFFICES ASSUME GrantInv, [Next]_vars PROVE GrantInv'
    OBVIOUS
<1> DEFINE Same == UNCHANGED <<remote, value, sent, net, flight, got>>
<1>1. Same => GrantInv'
    BY DEF GrantInv, GrantTypeOK, FramesGranted, FlightOfLimits, GotIsKnown,
           SentWasGranted, LimitsReachSender, Maximum
<1>2. CASE UNCHANGED vars
    BY <1>1, <1>2 DEF vars, grantVars, netVars
<1>3. ASSUME NEW s \in Streams, Reset(s) \/ Discard(s) PROVE GrantInv'
    BY <1>1, <1>3 DEF Reset, Discard, grantVars, netVars
<1>4. ASSUME NEW s \in Streams, SendReset(s) PROVE GrantInv'
    BY <1>4, StreamFrameSent DEF SendReset, ResetStream
<1>5. ASSUME NEW s \in Streams, NEW n \in 1..MaxSize[s], SendAgain(s, n) PROVE GrantInv'
    BY <1>5, StreamFrameSent DEF SendAgain, Data
<1>6. ASSUME NEW s \in Streams, NEW n \in 1..MaxSize[s], SendNew(s, n) PROVE GrantInv'
    BY <1>6, StreamFrameSent DEF SendNew, Data
<1>7. ASSUME NEW l \in Limits, WriteLimit(l) PROVE GrantInv'
    BY <1>7, WriteLimitKeeps
<1>8. ASSUME NEW l \in Limits, WriteLimitStopped(l) PROVE GrantInv'
    BY <1>8, WriteLimitStoppedKeeps
<1>9. ASSUME NEW f \in net, Deliver(f) PROVE GrantInv'
    BY <1>9, DeliverKeeps
<1>10. ASSUME NEW f \in flight, Acked(f) PROVE GrantInv'
    BY <1>10, AckedKeeps
<1>11. ASSUME NEW f \in flight, Lost(f) PROVE GrantInv'
    BY <1>11, LostKeeps
<1> QED BY <1>2, <1>3, <1>4, <1>5, <1>6, <1>7, <1>8, <1>9, <1>10, <1>11 DEF Next

\* LimitsReachSender for every instance: a lost, late or repeated frame never makes
\* _write_connection_limits() or _write_stream_limits() believe that the peer knows
\* a limit it does not know.
THEOREM LimitsAlwaysReachSender == Spec => []LimitsReachSender
<1>1. GrantInv => LimitsReachSender
    BY DEF GrantInv
<1> QED BY <1>1, GrantInit, GrantStep, PTL DEF Spec

-----------------------------------------------------------------------------
(* The bytes on the way and the bytes counted.                             *)

\* What is sent and what arrives are bytes of streams.
SpendTypeOK ==
    /\ highest \in [Streams -> Nat] /\ received \in [Streams -> Nat]
    /\ counted \in [Streams -> Nat]
    /\ reset \in [Streams -> {"none", "pending", "sent"}]
    /\ known \subseteq Streams /\ ended \subseteq Streams /\ finished \subseteq ended
    /\ streams_used \in 0..Cardinality(Streams)
    /\ got \subseteq flight

\* The sender knows a limit of each kind, and keeps to those it knows.
WithinLimits ==
    /\ \A l \in Limits : remote[l] > 0
    /\ \A s \in Streams : highest[s] <= MaxSize[s] /\ highest[s] <= remote[StreamLimit(s)]
    /\ Total(highest) <= remote[DataLimit]

\* A frame of a stream carries nothing beyond what was sent on it, and nothing
\* else arrives.
FramesWereSent ==
    /\ \A f \in net : f.type # "max" =>
           \E s \in Streams : f.limit = StreamLimit(s) /\ f.size \in 0..highest[s]
    /\ \A f \in flight : f.type = "reset" => \E s \in Streams : f.limit = StreamLimit(s)
    /\ \A s \in Streams : received[s] <= highest[s]

SpendInv == SpendTypeOK /\ WithinLimits /\ FramesWereSent

\* The limits are told apart, and there are finitely many streams.
LEMMA LimitsDiffer ==
    /\ DataLimit \in Limits /\ StreamsLimit \in Limits /\ DataLimit # StreamsLimit
    /\ \A s \in Streams : /\ StreamLimit(s) \in Limits /\ StreamLimit(s)[2] = s
                          /\ StreamLimit(s) # DataLimit /\ StreamLimit(s) # StreamsLimit
BY DEF Limits, DataLimit, StreamsLimit, StreamLimit

\* The streams are numbered from 0, so that one more than a number is a count of streams.
LEMMA StreamsNumbered ==
    /\ IsFiniteSet(Streams) /\ Cardinality(Streams) \in Nat
    /\ \A s \in Streams : s \in Nat /\ s + 1 <= Cardinality(Streams)
<1>1. IsFiniteSet(Streams) /\ Cardinality(Streams) \in Nat
      BY StreamsAssumption, FS_CardinalityType
<1> DEFINE N == Cardinality(Streams)
<1>2. N \in Nat /\ Streams = 0..(N - 1)
      BY <1>1, StreamsAssumption
<1> HIDE DEF N
<1>3. \A s \in Streams : s \in Nat /\ s + 1 <= N
      BY <1>2
<1>4. QED BY <1>1, <1>3 DEF N

\* The bytes of all streams add up to a number, which grows as each of them grows, and
\* by what one of them grows by.
LEMMA TotalType ==
    ASSUME NEW f \in [Streams -> Nat] PROVE Total(f) \in Int
<1>1. f \in [Streams -> Int]
      OBVIOUS
<1>2. QED BY <1>1, StreamsNumbered, SumFunctionType DEF Total

\* With more on every stream there is not less in all.
LEMMA TotalGrows ==
    ASSUME NEW f \in [Streams -> Nat], NEW g \in [Streams -> Nat],
           \A s \in Streams : f[s] <= g[s]
    PROVE  Total(f) <= Total(g)
<1>1. f \in [Streams -> Int] /\ g \in [Streams -> Int]
      OBVIOUS
<1>2. QED BY <1>1, StreamsNumbered, SumFunctionGrows DEF Total

\* What one stream has more, all have more.
LEMMA TotalWithMore ==
    ASSUME NEW f \in [Streams -> Nat], NEW s \in Streams, NEW n \in Nat
    PROVE  Total([f EXCEPT ![s] = @ + n]) = Total(f) + n
<1> DEFINE g == [f EXCEPT ![s] = @ + n]
<1>1. /\ f \in [Streams -> Int] /\ g \in [Streams -> Int]
      /\ \A r \in Streams \ {s} : g[r] = f[r]
      /\ g[s] = f[s] + n /\ f[s] \in Int
      OBVIOUS
<1> HIDE DEF g
<1>2. Total(g) = Total(f) - f[s] + g[s]
      BY <1>1, StreamsNumbered, SumFunctionUpdate DEF Total
<1>3. Total(f) \in Int
      BY TotalType
<1>4. QED BY <1>1, <1>2, <1>3 DEF g

\* At the start nothing is spent.
LEMMA SpendInit == Init => SpendInv
<1> SUFFICES ASSUME Init PROVE SpendInv
    OBVIOUS
<1> USE DEF Init
<1>1. \A l \in Limits : InitialOf(l) \in Nat \ {0} /\ remote[l] = InitialOf(l)
  <2>1. \A l \in Limits : l[1] \in {"data", "stream", "streams"}
        BY DEF Limits, DataLimit, StreamsLimit, StreamLimit
  <2>2. QED BY <2>1, InitialLimitAssumption DEF InitialOf
<1>2. SpendTypeOK
      BY StreamsNumbered DEF SpendTypeOK
<1>3. Total(highest) = 0
  <2>1. highest = [s \in Streams |-> 0] /\ highest \in [Streams -> Int]
        OBVIOUS
  <2>2. AddsUp(highest, highest, highest, Streams)
        BY <2>1 DEF AddsUp
  <2>3. Total(highest) = Total(highest) + Total(highest)
        BY <2>2, StreamsNumbered, SumOfSums DEF Total
  <2>4. Total(highest) \in Int
        BY <1>2, TotalType DEF SpendTypeOK
  <2> DEFINE t == Total(highest)
  <2>5. t = t + t /\ t \in Int
        BY <2>3, <2>4
  <2> HIDE DEF t
  <2>6. t = 0
        BY <2>5
  <2>7. QED BY <2>6 DEF t
<1>4. WithinLimits
      BY <1>1, <1>3, LimitsDiffer, BoundAssumption DEF WithinLimits
<1>5. FramesWereSent
      BY DEF FramesWereSent
<1>6. QED BY <1>2, <1>4, <1>5 DEF SpendInv

\* A frame of stream s that goes out carries what was sent.
LEMMA FrameSent ==
    ASSUME FramesWereSent, SpendTypeOK, NEW s \in Streams, NEW f, Transmit(f),
           f.limit = StreamLimit(s), f.size \in 0..highest'[s],
           \A r \in Streams : highest'[r] \in Nat /\ highest'[r] >= highest[r],
           received' = received
    PROVE  FramesWereSent' /\ got' \subseteq flight'
<1>1. net' = net \cup {f} /\ flight' \subseteq flight \cup {f} /\ flight \subseteq flight'
      /\ got' = got \ {f}
      BY DEF Transmit
<1>2. ASSUME NEW g \in net', g.type # "max"
      PROVE  \E r \in Streams : g.limit = StreamLimit(r) /\ g.size \in 0..highest'[r]
  <2>1. CASE g = f
        BY <2>1
  <2>2. CASE g # f
    <3>1. PICK r \in Streams : g.limit = StreamLimit(r) /\ g.size \in 0..highest[r]
          BY <1>1, <1>2, <2>2 DEF FramesWereSent
    <3>2. g.size \in 0..highest'[r]
          BY <3>1 DEF SpendTypeOK
    <3>3. QED BY <3>1, <3>2
  <2>3. QED BY <2>1, <2>2
<1>3. \A g \in flight' : g.type = "reset" => \E r \in Streams : g.limit = StreamLimit(r)
      BY <1>1 DEF FramesWereSent
<1>4. \A r \in Streams : received'[r] <= highest'[r]
      BY DEF FramesWereSent, SpendTypeOK
<1>5. FramesWereSent'
      BY <1>2, <1>3, <1>4 DEF FramesWereSent, StreamLimit
<1>6. QED BY <1>1, <1>5 DEF SpendTypeOK

\* New bytes are sent within the credit of the stream and of the connection.
LEMMA SendNewKeeps ==
    ASSUME SpendInv, GrantInv, NEW s \in Streams, NEW n \in 1..MaxSize[s], SendNew(s, n)
    PROVE  SpendInv'
<1> USE DEF SpendInv
<1>1. /\ n <= Credit(s) /\ highest[s] + n <= MaxSize[s]
      /\ Transmit(Data(s, highest[s] + n))
      /\ highest' = [highest EXCEPT ![s] = @ + n]
      /\ UNCHANGED <<reset, remote, known, ended, finished, received, counted, streams_used>>
      BY DEF SendNew, receiverVars
<1>2. /\ n \in Nat /\ highest[s] \in Nat /\ highest' \in [Streams -> Nat]
      /\ \A r \in Streams : highest'[r] \in Nat /\ highest'[r] >= highest[r]
      /\ highest'[s] = highest[s] + n
      BY <1>1 DEF SpendTypeOK
<1>3. /\ Data(s, highest[s] + n).limit = StreamLimit(s)
      /\ Data(s, highest[s] + n).size \in 0..highest'[s]
      BY <1>2 DEF Data
<1>4. FramesWereSent' /\ got' \subseteq flight'
      BY <1>1, <1>2, <1>3, FrameSent
<1>5. SpendTypeOK'
      BY <1>1, <1>2, <1>4 DEF SpendTypeOK
<1>6. WithinLimits'
  <2>1. /\ Total(highest') = Total(highest) + n /\ Total(highest) \in Int
        BY <1>1, <1>2, TotalWithMore, TotalType DEF SpendTypeOK
  <2>2. /\ remote[DataLimit] \in Int /\ remote[StreamLimit(s)] \in Int
        BY LimitsDiffer DEF GrantInv, GrantTypeOK
  <2>3. n <= remote[DataLimit] - Total(highest) /\ n <= remote[StreamLimit(s)] - highest[s]
        BY <1>1, <1>2, <2>1, <2>2 DEF Credit
  <2>4. Total(highest') <= remote[DataLimit] /\ highest'[s] <= remote[StreamLimit(s)]
        BY <1>2, <2>1, <2>2, <2>3
  <2>5. ASSUME NEW r \in Streams
        PROVE  highest'[r] <= MaxSize[r] /\ highest'[r] <= remote[StreamLimit(r)]
    <3>1. CASE r = s
          BY <1>1, <1>2, <2>4, <3>1
    <3>2. CASE r # s
          BY <1>1, <3>2 DEF WithinLimits, SpendTypeOK
    <3>3. QED BY <3>1, <3>2
  <2>6. QED BY <1>1, <2>4, <2>5 DEF WithinLimits, StreamLimit, DataLimit
<1>7. QED BY <1>4, <1>5, <1>6

\* A frame arrives.
LEMMA DeliverSpends ==
    ASSUME SpendInv, GrantInv, NEW f \in net, Deliver(f)
    PROVE  SpendInv'
<1> USE DEF SpendInv
<1>1. /\ UNCHANGED <<highest, reset, net, flight>> /\ got' = got \cup ({f} \cap flight)
      BY DEF Deliver, senderVars
<1>2. got' \subseteq flight'
      BY <1>1 DEF SpendTypeOK
<1>3. CASE f.type = "max"
  <2>1. /\ UNCHANGED <<known, ended, finished, received, counted, streams_used>>
        /\ remote' = [remote EXCEPT ![f.limit] = Larger(@, f.size)]
        BY <1>3 DEF Deliver, receiverVars
  <2>2. f.limit \in Limits /\ f.size \in Nat
        BY <1>3 DEF GrantInv, FramesGranted
  <2>3. \A l \in Limits : remote'[l] \in Nat /\ remote[l] \in Nat /\ remote'[l] >= remote[l]
        BY <2>1, <2>2 DEF GrantInv, GrantTypeOK, Larger
  <2>4. SpendTypeOK'
        BY <1>1, <1>2, <2>1 DEF SpendTypeOK
  <2>5. FramesWereSent'
        BY <1>1, <2>1 DEF FramesWereSent
  <2>6. WithinLimits'
    <3>1. \A l \in Limits : remote'[l] > 0
          BY <2>3 DEF WithinLimits
    <3>2. ASSUME NEW s \in Streams
          PROVE  highest[s] <= MaxSize[s] /\ highest[s] <= remote'[StreamLimit(s)]
      <4>1. /\ highest[s] \in Nat /\ highest[s] <= MaxSize[s]
            /\ highest[s] <= remote[StreamLimit(s)] /\ StreamLimit(s) \in Limits
            BY LimitsDiffer DEF WithinLimits, SpendTypeOK
      <4>2. QED BY <2>3, <4>1
    <3>3. Total(highest) <= remote'[DataLimit]
      <4>1. Total(highest) \in Int /\ DataLimit \in Limits
            BY TotalType, LimitsDiffer DEF SpendTypeOK
      <4>2. QED BY <2>3, <4>1 DEF WithinLimits
    <3>4. QED BY <1>1, <3>1, <3>2, <3>3 DEF WithinLimits, StreamLimit, DataLimit
  <2>7. QED BY <2>4, <2>5, <2>6
<1>4. CASE f.type # "max"
  <2>1. remote' = remote /\ ProcessFrame(f)
        BY <1>4 DEF Deliver
  <2>2. PICK s \in Streams : f.limit = StreamLimit(s) /\ f.size \in 0..highest[s]
        BY <1>4 DEF FramesWereSent
  <2>3. StreamOf(f) = s
        BY <2>2, LimitsDiffer DEF StreamOf
  <2>4. WithinLimits'
        BY <1>1, <2>1 DEF WithinLimits
  <2>5. CASE s \in finished
    <3>1. UNCHANGED receiverVars
          BY <2>1, <2>3, <2>5 DEF ProcessFrame
    <3>2. SpendTypeOK' /\ FramesWereSent'
          BY <1>1, <1>2, <3>1 DEF SpendTypeOK, FramesWereSent, receiverVars
    <3>3. QED BY <2>4, <3>2
  <2>6. CASE s \notin finished
    <3>1. /\ known' = known \cup {s} /\ finished' = finished
          /\ streams_used' = IF s \in known THEN streams_used ELSE Larger(streams_used, s + 1)
          /\ counted' = [counted EXCEPT ![s] = @ + NewlyReceived(f)]
          /\ received' = [received EXCEPT ![s] =
                 IF f.type = "stream" THEN Larger(@, f.size) ELSE @]
          /\ ended' = IF f.type = "reset" THEN ended \cup {s} ELSE ended
          BY <2>1, <2>3, <2>6 DEF ProcessFrame
    <3>2. /\ NewlyReceived(f) \in Nat /\ highest[s] \in Nat /\ received[s] \in Nat
          /\ received[s] <= highest[s]
          BY <2>2, <2>3 DEF NewlyReceived, Larger, SpendTypeOK, FramesWereSent
    <3>3. /\ received' \in [Streams -> Nat] /\ counted' \in [Streams -> Nat]
          /\ \A r \in Streams : received'[r] <= highest[r]
          BY <2>2, <3>1, <3>2 DEF SpendTypeOK, FramesWereSent, Larger
    <3>4. streams_used' \in 0..Cardinality(Streams)
          BY <3>1, StreamsNumbered DEF SpendTypeOK, Larger
    <3>5. SpendTypeOK'
          BY <1>1, <1>2, <3>1, <3>3, <3>4 DEF SpendTypeOK
    <3>6. FramesWereSent'
          BY <1>1, <3>3 DEF FramesWereSent
    <3>7. QED BY <2>4, <3>5, <3>6
  <2>7. QED BY <2>5, <2>6
<1>5. QED BY <1>3, <1>4

\* What touches neither the bytes nor the sender's limits keeps the invariant.
LEMMA NothingSpent ==
    ASSUME SpendInv,
           UNCHANGED <<highest, remote, received, counted, streams_used, ended>>,
           reset' \in [Streams -> {"none", "pending", "sent"}],
           known' \subseteq Streams, finished' \subseteq ended, got' \subseteq flight',
           \A f \in net' : f \in net \/ f.type = "max",
           \A f \in flight' : f \in flight \/ f.type = "max"
    PROVE  SpendInv'
<1>1. SpendTypeOK'
      BY DEF SpendInv, SpendTypeOK
<1>2. WithinLimits'
      BY DEF SpendInv, WithinLimits
<1>3. FramesWereSent'
      BY DEF SpendInv, FramesWereSent
<1>4. QED BY <1>1, <1>2, <1>3 DEF SpendInv

\* Every step keeps what was sent within the limits that were granted.
LEMMA SpendStep == SpendInv /\ GrantInv /\ [Next]_vars => SpendInv'
<1> SUFFICES ASSUME SpendInv, GrantInv, [Next]_vars PROVE SpendInv'
    OBVIOUS
<1>1. /\ SpendTypeOK /\ WithinLimits /\ FramesWereSent
      BY DEF SpendInv
<1>2. CASE UNCHANGED vars
      BY <1>1, <1>2, NothingSpent
      DEF vars, senderVars, receiverVars, netVars, SpendTypeOK
<1>3. ASSUME NEW s \in Streams, Reset(s) \/ Discard(s) PROVE SpendInv'
      BY <1>1, <1>3, NothingSpent
      DEF Reset, Discard, senderVars, receiverVars, netVars, SpendTypeOK
<1>4. ASSUME NEW s \in Streams, NEW f, Transmit(f), f.limit = StreamLimit(s),
             f.size \in 0..highest[s],
             UNCHANGED <<highest, remote, known, ended, finished, received, counted,
                         streams_used>>,
             reset' \in [Streams -> {"none", "pending", "sent"}]
      PROVE  SpendInv'
  <2>1. /\ f.size \in 0..highest'[s]
        /\ \A r \in Streams : highest'[r] \in Nat /\ highest'[r] >= highest[r]
        BY <1>1, <1>4 DEF SpendTypeOK
  <2>2. FramesWereSent' /\ got' \subseteq flight'
        BY <1>1, <1>4, <2>1, FrameSent
  <2>3. SpendTypeOK' /\ WithinLimits'
        BY <1>1, <1>4, <2>2 DEF SpendTypeOK, WithinLimits
  <2>4. QED BY <2>2, <2>3 DEF SpendInv
<1>5. ASSUME NEW s \in Streams, SendReset(s) PROVE SpendInv'
  <2> DEFINE f == ResetStream(s, highest[s])
  <2>1. f.limit = StreamLimit(s) /\ f.size \in 0..highest[s]
        BY <1>1 DEF ResetStream, SpendTypeOK
  <2>2. /\ Transmit(f) /\ reset' \in [Streams -> {"none", "pending", "sent"}]
        /\ UNCHANGED <<highest, remote, known, ended, finished, received, counted, streams_used>>
        BY <1>1, <1>5 DEF SendReset, receiverVars, SpendTypeOK
  <2> HIDE DEF f
  <2>3. QED BY <1>4, <2>1, <2>2
<1>6. ASSUME NEW s \in Streams, NEW n \in 1..MaxSize[s], SendAgain(s, n) PROVE SpendInv'
  <2> DEFINE f == Data(s, n)
  <2>1. n \in Nat
        BY BoundAssumption
  <2>2. f.limit = StreamLimit(s) /\ f.size \in 0..highest[s]
        BY <1>1, <1>6, <2>1 DEF Data, SendAgain, SpendTypeOK
  <2>3. /\ Transmit(f) /\ reset' \in [Streams -> {"none", "pending", "sent"}]
        /\ UNCHANGED <<highest, remote, known, ended, finished, received, counted, streams_used>>
        BY <1>1, <1>6 DEF SendAgain, senderVars, receiverVars, SpendTypeOK
  <2> HIDE DEF f
  <2>4. QED BY <1>4, <2>2, <2>3
<1>7. ASSUME NEW s \in Streams, NEW n \in 1..MaxSize[s], SendNew(s, n) PROVE SpendInv'
      BY <1>7, SendNewKeeps
<1>8. ASSUME NEW l \in Limits, WriteLimit(l) PROVE SpendInv'
  <2> DEFINE f == Maximum(l, value'[l])
  <2>1. f.type = "max" /\ Transmit(f)
        /\ UNCHANGED <<highest, reset, remote, known, ended, finished, received, counted,
                       streams_used>>
        BY <1>8 DEF WriteLimit, Maximum, senderVars, receiverVars
  <2>2. net' = net \cup {f} /\ flight' = flight \cup {f} /\ got' = got \ {f}
        BY <2>1 DEF Transmit
  <2> HIDE DEF f
  <2>3. QED BY <1>1, <2>1, <2>2, NothingSpent DEF SpendTypeOK
<1>9. ASSUME NEW l \in Limits, WriteLimitStopped(l) PROVE SpendInv'
      BY <1>1, <1>9, NothingSpent
      DEF WriteLimitStopped, senderVars, receiverVars, netVars, SpendTypeOK
<1>10. ASSUME NEW f \in net, Deliver(f) PROVE SpendInv'
      BY <1>10, DeliverSpends
<1>11. ASSUME NEW f \in flight, Acked(f) \/ Lost(f) PROVE SpendInv'
  <2>1. /\ flight' = flight \ {f} /\ got' = got \ {f}
        /\ UNCHANGED <<highest, remote, known, ended, finished, received, counted,
                       streams_used, net>>
        BY <1>11 DEF Acked, Lost, Reported, receiverVars
  <2>2. reset' \in [Streams -> {"none", "pending", "sent"}]
    <3>1. CASE UNCHANGED reset
          BY <1>1, <3>1 DEF SpendTypeOK
    <3>2. CASE f.type = "reset" /\ reset' = [reset EXCEPT ![StreamOf(f)] = "pending"]
          BY <1>1, <3>2 DEF SpendTypeOK
    <3>3. QED BY <1>11, <3>1, <3>2 DEF Acked, Lost
  <2>3. QED BY <1>1, <2>1, <2>2, NothingSpent DEF SpendTypeOK
<1>12. QED BY <1>2, <1>3, <1>5, <1>6, <1>7, <1>8, <1>9, <1>10, <1>11 DEF Next

\* Both parts of the invariant hold in every state.
LEMMA FlowInvariant == Spec => [](GrantInv /\ SpendInv)
BY GrantInit, GrantStep, SpendInit, SpendStep, PTL DEF Spec

\* The counters of both ends and what is in flight keep their bounds.
THEOREM FlowTypes == Spec => []TypeOK
<1>1. GrantInv /\ SpendInv => TypeOK
  <2> SUFFICES ASSUME GrantInv, SpendInv PROVE TypeOK
      OBVIOUS
  <2>1. ASSUME NEW s \in Streams
        PROVE  /\ highest[s] \in 0..MaxSize[s] /\ received[s] \in 0..highest[s]
               /\ counted[s] \in Nat /\ reset[s] \in {"none", "pending", "sent"}
        BY BoundAssumption
        DEF SpendInv, SpendTypeOK, WithinLimits, FramesWereSent
  <2>2. \A l \in Limits : value[l] \in Nat /\ sent[l] \in Nat /\ remote[l] \in Nat
        BY DEF GrantInv, GrantTypeOK
  <2>3. QED BY <2>1, <2>2 DEF TypeOK, SpendInv, SpendTypeOK
<1>2. QED BY <1>1, FlowInvariant, PTL

\* A raised limit is above a limit that is known and used up.
LEMMA RaisedAbove ==
    ASSUME GrantInv, SpendInv, NEW l \in Limits, Used(l) \in Int, Used(l) >= remote[l]
    PROVE  Raised(l) > remote[l]
<1>1. /\ value[l] \in Nat /\ remote[l] \in Nat /\ remote[l] > 0 /\ remote[l] <= value[l]
      BY DEF GrantInv, GrantTypeOK, SpendInv, WithinLimits, LimitsReachSender
<1>2. QED BY <1>1 DEF Raised

\* _write_connection_limits() and _write_stream_limits() raise a limit once its
\* sender has used it up and all of it has arrived.
THEOREM FlowLimitIsRaised == Spec => []LimitIsRaised
<1>1. GrantInv /\ SpendInv => LimitIsRaised
  <2> SUFFICES ASSUME GrantInv, SpendInv PROVE LimitIsRaised
      OBVIOUS
  <2>1. ASSUME NEW s \in Streams, highest[s] = remote[StreamLimit(s)], received[s] = highest[s]
        PROVE  Raised(StreamLimit(s)) > remote[StreamLimit(s)]
    <3>1. Used(StreamLimit(s)) = received[s] /\ received[s] \in Nat
          BY LimitsDiffer DEF Used, SpendInv, SpendTypeOK
    <3>2. QED BY <2>1, <3>1, LimitsDiffer, RaisedAbove
  <2>2. ASSUME Total(highest) = remote[DataLimit], \A s \in Streams : counted[s] >= highest[s]
        PROVE  Raised(DataLimit) > remote[DataLimit]
    <3>1. highest \in [Streams -> Nat] /\ counted \in [Streams -> Nat]
          BY DEF SpendInv, SpendTypeOK
    <3>2. Total(counted) >= Total(highest)
      <4>1. \A s \in Streams : highest[s] <= counted[s]
            BY <2>2, <3>1
      <4>2. Total(highest) <= Total(counted)
            BY <3>1, <4>1, TotalGrows
      <4>3. QED BY <3>1, <4>2, TotalType
    <3>3. Used(DataLimit) = Total(counted) /\ Total(counted) \in Int
          BY <3>1, TotalType, LimitsDiffer DEF Used
    <3>4. QED BY <2>2, <3>2, <3>3, LimitsDiffer, RaisedAbove
  <2>3. ASSUME streams_used = remote[StreamsLimit]
        PROVE  Raised(StreamsLimit) > remote[StreamsLimit]
    <3>1. Used(StreamsLimit) = streams_used /\ streams_used \in Int
          BY LimitsDiffer DEF Used, SpendInv, SpendTypeOK
    <3>2. QED BY <2>3, <3>1, LimitsDiffer, RaisedAbove
  <2>4. QED BY <2>1, <2>2, <2>3 DEF LimitIsRaised
<1>2. QED BY <1>1, FlowInvariant, PTL

\* _handle_stream_frame() and _handle_reset_stream_frame() raise no limit error on
\* the frames of a sender that keeps to the limits it knows.
THEOREM FlowNoLimitError == Spec => []NoLimitError
<1>1. GrantInv /\ SpendInv => NoLimitError
  <2> SUFFICES ASSUME GrantInv, SpendInv, NEW f \in net, f.type # "max", CountedOnce(f),
                      ~Blocked(StreamOf(f)), StreamOf(f) \notin finished
               PROVE  LET s == StreamOf(f)
                      IN  /\ s \in known \/ s + 1 <= value[StreamsLimit]
                          /\ f.size <= value[StreamLimit(s)]
                          /\ Total(counted) + NewlyReceived(f) <= value[DataLimit]
      BY DEF NoLimitError, Accepted
  <2>1. PICK s \in Streams : f.limit = StreamLimit(s) /\ f.size \in 0..highest[s]
        BY DEF SpendInv, FramesWereSent
  <2>2. StreamOf(f) = s /\ s \in Nat
        BY <2>1, LimitsDiffer, StreamsNumbered DEF StreamOf
  <2>3. /\ highest \in [Streams -> Nat] /\ counted \in [Streams -> Nat]
        /\ received \in [Streams -> Nat]
        /\ \A l \in Limits : /\ value[l] \in Nat /\ remote[l] \in Nat /\ remote[l] <= value[l]
        BY DEF SpendInv, SpendTypeOK, GrantInv, GrantTypeOK, LimitsReachSender
  <2>4. s + 1 <= value[StreamsLimit]
    <3>1. s < remote[StreamsLimit]
          BY <2>2, <2>3, LimitsDiffer DEF Blocked
    <3>2. QED BY <2>2, <2>3, <3>1, LimitsDiffer
  <2>5. f.size <= value[StreamLimit(s)]
    <3>1. highest[s] <= remote[StreamLimit(s)]
          BY DEF SpendInv, WithinLimits
    <3>2. QED BY <2>1, <2>3, <3>1, LimitsDiffer
  <2>6. Total(counted) + NewlyReceived(f) <= value[DataLimit]
    <3> DEFINE n == NewlyReceived(f)
               after == [counted EXCEPT ![s] = @ + n]
    <3>1. n \in Nat
          BY <2>1, <2>2, <2>3 DEF NewlyReceived, Larger
    <3>2. /\ \A r \in Streams : counted[r] <= highest[r]
          /\ counted[s] + n <= highest[s]
          BY <2>2 DEF CountedOnce
    <3>3. after \in [Streams -> Nat] /\ \A r \in Streams : after[r] <= highest[r]
          BY <2>3, <3>1, <3>2
    <3> HIDE DEF n
    <3>4. Total(after) = Total(counted) + n
          BY <2>3, <3>1, TotalWithMore
    <3> HIDE DEF after
    <3>5. Total(after) <= Total(highest)
          BY <2>3, <3>3, TotalGrows
    <3>6. Total(highest) <= remote[DataLimit] /\ Total(highest) \in Int /\ Total(after) \in Int
          BY <2>3, <3>3, TotalType DEF SpendInv, WithinLimits
    <3>7. QED BY <2>3, <3>4, <3>5, <3>6, LimitsDiffer DEF n
  <2>7. QED BY <2>2, <2>4, <2>5, <2>6
<1>2. QED BY <1>1, FlowInvariant, PTL

-----------------------------------------------------------------------------
(* PULSE: the samples.                                                     *)

Counters ==
    /\ operation_state \in OperationState
    /\ state_age \in 0..QueueLength
    /\ samples_since \in 0..QueueLength
    /\ ran \subseteq Task

\* So many turns take that long at most.
Spans(turns, time) == turns * MaxLateness >= time

\* Samples keep up with time: there is one for each turn that is over, and one
\* for this turn if its sample was taken.  When SENSE began, the sample of the
\* turn may have been taken before.
Logged == IF "log" \in ran THEN 1 ELSE 0

SamplesKeepUp ==
    /\ operation_state = "SENSE" => Spans(samples_since + 1 - Logged, state_age)
    /\ operation_state = "STATIC" =>
          /\ Spans(samples_since + 1 - Logged, QueueLength)
          /\ "control" \notin ran => Spans(samples_since, QueueLength)

\* The same of the queue.  What a sample is does not matter.
QueueFills ==
    /\ \E S : input_queue \in Seq(S)
    /\ Len(input_queue) <= QueueLength
    /\ "log" \in ran => Len(input_queue) > 0
    /\ operation_state = "STARTUP" =>
          \/ Len(input_queue) = QueueLength
          \/ Spans(Len(input_queue) - Logged, state_age)
    /\ operation_state # "STARTUP" => Spans(Len(input_queue), QueueLength)

PulseInv == Counters /\ SamplesKeepUp /\ QueueFills

-----------------------------------------------------------------------------
(* Turns and time.                                                         *)

\* What some turns can span, more turns can.
LEMMA MoreTurns ==
    ASSUME NEW m \in Nat, NEW n \in Nat, NEW t \in Nat, m <= n, Spans(m, t)
    PROVE  Spans(n, t)
<1>1. MaxLateness \in Nat
      BY PulseAssumption
<1>2. PICK d \in Nat : n = m + d
  <2>1. n - m \in Nat /\ n = m + (n - m)
        OBVIOUS
  <2>2. QED BY <2>1
<1>3. n * MaxLateness = m * MaxLateness + d * MaxLateness
      BY <1>1, <1>2
<1>4. d * MaxLateness \in Nat /\ m * MaxLateness \in Nat /\ n * MaxLateness \in Nat
      BY <1>1
<1>5. m * MaxLateness >= t
      BY DEF Spans
<1>6. n * MaxLateness >= t
      BY ONLY <1>3, <1>4, <1>5, t \in Nat
<1>7. QED BY <1>6 DEF Spans

\* One turn more spans the time that it takes at the latest.
LEMMA OneMoreTurn ==
    ASSUME NEW n \in Nat, NEW t \in Nat, NEW late \in 1..MaxLateness, Spans(n, t)
    PROVE  Spans(n + 1, t + late)
<1>1. MaxLateness \in Nat
      BY PulseAssumption
<1>2. (n + 1) * MaxLateness = n * MaxLateness + MaxLateness
      BY <1>1
<1>3. n * MaxLateness \in Nat
      BY <1>1
<1>4. n * MaxLateness >= t
      BY DEF Spans
<1>5. (n + 1) * MaxLateness >= t + late
      BY ONLY <1>1, <1>2, <1>3, <1>4, t \in Nat, late \in 1..MaxLateness
<1>6. QED BY <1>5 DEF Spans

\* Less time is spanned by as many turns.
LEMMA LessTime ==
    ASSUME NEW n \in Nat, NEW s \in Nat, NEW t \in Nat, s <= t, Spans(n, t)
    PROVE  Spans(n, s)
<1>1. n * MaxLateness \in Nat
      BY PulseAssumption
<1>2. QED BY <1>1 DEF Spans

\* As many turns as the queue is long span as many units of time.
LEMMA AsManyTurns == Spans(QueueLength, QueueLength)
<1>1. PICK k \in Nat : MaxLateness = k + 1
  <2>1. MaxLateness - 1 \in Nat /\ MaxLateness = (MaxLateness - 1) + 1
        BY PulseAssumption
  <2>2. QED BY <2>1
<1>2. QueueLength \in Nat
      BY PulseAssumption
<1>3. QueueLength * MaxLateness = QueueLength * k + QueueLength
      BY <1>1, <1>2
<1>4. QueueLength * k \in Nat
      BY <1>1, <1>2
<1>5. QED BY <1>2, <1>3, <1>4 DEF Spans

\* No time is spanned by any turns.
LEMMA NoTime == ASSUME NEW n \in Nat PROVE Spans(n, 0)
BY PulseAssumption DEF Spans

-----------------------------------------------------------------------------
\* When the tasks start no time has passed and the queue is empty.
LEMMA InitInv == PulseInit => PulseInv
<1> SUFFICES ASSUME PulseInit PROVE PulseInv
    OBVIOUS
<1> USE PulseAssumption DEF PulseInit
<1>1. Counters
      BY DEF Counters, OperationState, Task
<1>2. SamplesKeepUp
      BY DEF SamplesKeepUp
<1>3. QueueFills
  <2>1. << >> \in Seq({})
        OBVIOUS
  <2>2. Len(<< >>) = 0
        OBVIOUS
  <2>3. Spans(Len(input_queue) - Logged, state_age)
        BY <2>2, NoTime DEF Logged
  <2>4. QED BY <2>1, <2>2, <2>3 DEF QueueFills
<1>4. QED BY <1>1, <1>2, <1>3 DEF PulseInv

\* What touches neither the tasks nor the states keeps the invariant.
LEMMA PacketInv ==
    ASSUME PulseInv,
           UNCHANGED <<stateVars, input_queue, ran, samples_since>>
    PROVE  PulseInv'
BY DEF PulseInv, Counters, SamplesKeepUp, QueueFills, Spans, Logged, stateVars

\* The turn is over, and time has passed, as late as the event loop may be.
LEMMA TickInv == ASSUME PulseInv, Tick PROVE PulseInv'
<1> USE PulseAssumption DEF PulseInv, Tick
<1>1. PICK late \in 1..MaxLateness : state_age' = UpTo(QueueLength, state_age + late)
      OBVIOUS
<1>2. /\ state_age' \in Nat /\ state_age' <= QueueLength /\ state_age' <= state_age + late
      /\ state_age \in Nat /\ samples_since \in Nat /\ state_age + late \in Nat
  <2>1. QueueLength \in Nat /\ state_age \in Nat /\ late \in Nat /\ samples_since \in Nat
        BY DEF Counters
  <2>2. QED BY ONLY <1>1, <2>1 DEF UpTo
<1>3. Logged = 1 /\ Logged' = 0
      BY DEF Logged, Task
<1>4. Counters'
      BY <1>2 DEF Counters
<1>5. SamplesKeepUp'
  <2>1. ASSUME operation_state = "SENSE" PROVE Spans(samples_since + 1, state_age')
    <3>1. Spans(samples_since, state_age)
          BY <1>2, <1>3, <2>1 DEF SamplesKeepUp
    <3>2. Spans(samples_since + 1, state_age + late)
          BY <1>2, <3>1, OneMoreTurn
    <3>3. QED BY <1>2, <3>2, LessTime
  <2>2. ASSUME operation_state = "STATIC"
        PROVE  Spans(samples_since, QueueLength) /\ Spans(samples_since + 1, QueueLength)
    <3>1. Spans(samples_since, QueueLength)
          BY <1>2, <1>3, <2>2 DEF SamplesKeepUp
    <3>2. QED BY <1>2, <3>1, MoreTurns
  <2>3. (samples_since + 1 - Logged)' = samples_since + 1
        BY <1>2, <1>3
  <2>4. QED BY <2>1, <2>2, <2>3 DEF SamplesKeepUp, Spans
<1>6. QueueFills'
  <2>1. Len(input_queue) \in Nat /\ Len(input_queue) > 0
        BY DEF QueueFills, Task
  <2>2. ASSUME operation_state = "STARTUP", Len(input_queue) # QueueLength
        PROVE  Spans(Len(input_queue), state_age')
    <3>1. Spans(Len(input_queue) - 1, state_age)
          BY <1>3, <2>2 DEF QueueFills
    <3>2. Len(input_queue) - 1 \in Nat /\ (Len(input_queue) - 1) + 1 = Len(input_queue)
          BY <2>1
    <3>3. Spans(Len(input_queue), state_age + late)
          BY <1>2, <3>1, <3>2, OneMoreTurn
    <3>4. QED BY <1>2, <2>1, <3>3, LessTime
  <2>3. (Len(input_queue) - Logged)' = Len(input_queue)
        BY <1>3, <2>1
  <2>4. QED BY <2>2, <2>3 DEF QueueFills, Spans
<1>7. QED BY <1>4, <1>5, <1>6

\* The task that takes samples has its turn.
LEMMA LogInv == ASSUME PulseInv, Log PROVE PulseInv'
<1> USE PulseAssumption DEF PulseInv, Log, Round, stateVars
<1>1. Logged = 0 /\ Logged' = 1
      BY DEF Logged
<1>2. /\ samples_since \in Nat /\ samples_since' \in Nat /\ samples_since <= samples_since'
      /\ samples_since' <= QueueLength
      /\ samples_since' = QueueLength \/ samples_since' = samples_since + 1
  <2>1. QueueLength \in Nat /\ samples_since \in Nat /\ samples_since <= QueueLength
        BY DEF Counters
  <2>2. samples_since' = UpTo(QueueLength, samples_since + 1)
        OBVIOUS
  <2>3. QED BY ONLY <2>1, <2>2 DEF UpTo
<1>3. Counters'
      BY <1>2 DEF Counters, Task
<1>4. SamplesKeepUp'
  <2>1. ASSUME NEW t \in 0..QueueLength, Spans(samples_since + 1, t)
        PROVE  Spans(samples_since', t)
    <3>1. CASE samples_since' = QueueLength
          BY <3>1, AsManyTurns, LessTime
    <3>2. CASE samples_since' = samples_since + 1
          BY <2>1, <3>2
    <3>3. QED BY <1>2, <3>1, <3>2
  <2>2. samples_since + 1 - Logged = samples_since + 1
        BY <1>1, <1>2
  <2>3. (samples_since + 1 - Logged)' = samples_since'
        BY <1>1, <1>2
  <2>4. operation_state = "SENSE" => Spans(samples_since', state_age)
        BY <2>1, <2>2 DEF SamplesKeepUp, Counters
  <2>5. operation_state = "STATIC" => Spans(samples_since', QueueLength)
        BY <2>1, <2>2 DEF SamplesKeepUp
  <2>6. QED BY <2>3, <2>4, <2>5 DEF SamplesKeepUp, Spans
<1>5. QueueFills'
  <2>1. PICK S : input_queue \in Seq(S)
        BY DEF QueueFills
  <2> DEFINE T == S \cup {Sample}
             all == Append(input_queue, Sample)
  <2>2. input_queue \in Seq(T)
        BY <2>1
  <2>3. all \in Seq(T) /\ Len(all) = Len(input_queue) + 1 /\ Len(input_queue) \in Nat
        BY <2>2
  <2>4. Tail(all) \in Seq(T) /\ Len(Tail(all)) = Len(input_queue)
        BY <2>3
  <2>5. Len(input_queue) <= QueueLength
        BY DEF QueueFills
  <2>6. CASE Len(all) > QueueLength
    <3>1. input_queue' = Tail(all)
          BY <2>6
    <3>2. QueueLength \in Nat \ {0}
          OBVIOUS
    <3>3. Len(input_queue) = QueueLength
          BY ONLY <2>3, <2>5, <2>6, <3>2
    <3>4. Len(input_queue') = QueueLength
          BY <2>4, <3>1, <3>3
    <3>5. QED BY <2>4, <3>1, <3>2, <3>4, AsManyTurns, SMTT(30) DEF QueueFills, Spans
  <2>7. CASE ~(Len(all) > QueueLength)
    <3>1. input_queue' = all /\ Len(input_queue') = Len(input_queue) + 1
          BY <2>3, <2>7
    <3>2. (Len(input_queue) - Logged)' = Len(input_queue)
          BY <1>1, <2>3, <3>1
    <3>3. Len(input_queue) - Logged = Len(input_queue)
          BY <1>1, <2>3
    <3>4. Len(input_queue) # QueueLength
          BY <2>3, <2>7
    <3>5. operation_state = "STARTUP" => Spans(Len(input_queue), state_age)
          BY <3>3, <3>4 DEF QueueFills
    <3>6. operation_state # "STARTUP" => Spans(Len(input_queue'), QueueLength)
          BY <2>3, <3>1, MoreTurns DEF QueueFills
    <3>7. Len(input_queue') <= QueueLength /\ Len(input_queue') > 0
          BY <2>3, <2>7, <3>1
    <3>8. \E R : input_queue' \in Seq(R)
          BY <2>3, <3>1
    <3>9. QED BY <3>2, <3>5, <3>6, <3>7, <3>8 DEF QueueFills, Spans
  <2>8. QED BY <2>6, <2>7
<1>6. QED BY <1>3, <1>4, <1>5

\* The task that decides on the state takes its turn.
LEMMA ControlInv == ASSUME PulseInv, Control PROVE PulseInv'
<1> USE PulseAssumption
    DEF PulseInv, Control, Round, stateVars, ChangeOperationState, SetBase,
        ActiveOverQueue
<1>1. Logged' = Logged /\ Logged \in {0, 1}
      BY DEF Logged
<1>2. Len(input_queue) \in Nat
      BY DEF QueueFills
<1>3. CASE ControlStartup
  <2>1. Counters'
        BY <1>3 DEF ControlStartup, Counters, OperationState, Task
  <2>2. SamplesKeepUp'
        BY <1>3 DEF ControlStartup, SamplesKeepUp
  <2>3. ASSUME ActiveOverQueue, Len(input_queue) # QueueLength
        PROVE  Spans(Len(input_queue), QueueLength)
    <3>1. state_age = QueueLength
          BY <2>3 DEF Counters
    <3>2. Len(input_queue) - Logged \in Nat /\ Len(input_queue) - Logged <= Len(input_queue)
          BY <1>2 DEF QueueFills, Logged
    <3>3. Spans(Len(input_queue) - Logged, QueueLength)
          BY <1>3, <2>3, <3>1 DEF ControlStartup, QueueFills
    <3>4. QED BY <1>2, <3>2, <3>3, MoreTurns
  <2>4. ActiveOverQueue => Spans(Len(input_queue), QueueLength)
        BY <2>3, AsManyTurns
  <2>5. QueueFills'
        BY <1>1, <1>3, <2>4 DEF ControlStartup, QueueFills, Spans
  <2>6. QED BY <2>1, <2>2, <2>5
<1>4. CASE ControlIncrease
  <2>1. Counters'
        BY <1>4 DEF ControlIncrease, Counters, OperationState, Task
  <2>2. SamplesKeepUp'
        BY <1>4 DEF ControlIncrease, SamplesKeepUp
  <2>3. QueueFills'
        BY <1>1, <1>4 DEF ControlIncrease, QueueFills, Spans
  <2>4. QED BY <2>1, <2>2, <2>3
<1>5. CASE ControlStatic
  <2>1. Counters'
        BY <1>5 DEF ControlStatic, Counters, OperationState, Task
  <2>2. SamplesKeepUp'
        BY <1>1, <1>5 DEF ControlStatic, SamplesKeepUp, Spans
  <2>3. QueueFills'
        BY <1>1, <1>5 DEF ControlStatic, QueueFills, Spans
  <2>4. QED BY <2>1, <2>2, <2>3
<1>6. CASE ControlCorrect
  <2>1. Counters'
        BY <1>6 DEF ControlCorrect, Counters, OperationState, Task
  <2>2. samples_since' + 1 - Logged' \in Nat
        BY <1>1, <1>6 DEF ControlCorrect, Counters
  <2>3. Spans(samples_since' + 1 - Logged', 0)
        BY <2>2, NoTime
  <2>4. SamplesKeepUp'
        BY <1>6, <2>3 DEF ControlCorrect, SamplesKeepUp, Spans
  <2>5. QueueFills'
        BY <1>1, <1>6 DEF ControlCorrect, QueueFills, Spans
  <2>6. QED BY <2>1, <2>4, <2>5
<1>7. CASE ControlSense
  <2>1. Counters'
        BY <1>7 DEF ControlSense, Counters, OperationState, Task
  <2>2. ActiveOverQueue => state_age = QueueLength
        BY DEF Counters
  <2>3. SamplesKeepUp'
        BY <1>1, <1>7, <2>2 DEF ControlSense, SamplesKeepUp, Spans
  <2>4. QueueFills'
        BY <1>1, <1>7 DEF ControlSense, QueueFills, Spans
  <2>5. QED BY <2>1, <2>3, <2>4
<1>8. QED BY <1>3, <1>4, <1>5, <1>6, <1>7

\* Every step keeps the invariant.
LEMMA StepInv == PulseInv /\ [PulseNext]_pulseVars => PulseInv'
<1> SUFFICES ASSUME PulseInv, [PulseNext]_pulseVars PROVE PulseInv'
    OBVIOUS
<1>1. CASE Tick
      BY <1>1, TickInv
<1>2. CASE PacketSent \/ PacketAcked \/ PacketGone \/ RttMeasured
      BY <1>2, PacketInv DEF PacketSent, PacketAcked, PacketGone, RttMeasured
<1>3. CASE Modulate
  <2>1. ran' = ran \cup {"modulate"} /\ UNCHANGED <<stateVars, input_queue, samples_since>>
        BY <1>3 DEF Modulate, Round
  <2>2. Logged' = Logged
        BY <2>1 DEF Logged
  <2>3. QED BY <2>1, <2>2
            DEF PulseInv, Counters, SamplesKeepUp, QueueFills, Spans, stateVars, Task
<1>4. CASE Log
      BY <1>4, LogInv
<1>5. CASE Control
      BY <1>5, ControlInv
<1>6. CASE UNCHANGED pulseVars
      BY <1>6, PacketInv DEF pulseVars
<1>7. QED BY <1>1, <1>2, <1>3, <1>4, <1>5, <1>6 DEF PulseNext

\* The invariant of the three tasks.
THEOREM PulseInvariant == PulseSpec => []PulseInv
BY InitInv, StepInv, PTL DEF PulseSpec

\* However the tasks are ordered and however late they are, STARTUP ends only
\* once the samples in the queue span its length in time.
THEOREM PulseWaitsForSamples == PulseSpec => []QueueFilledAfterStartup
<1>1. PulseInv => QueueFilledAfterStartup
      BY DEF PulseInv, QueueFills, QueueFilledAfterStartup, Spans
<1>2. QED BY <1>1, PulseInvariant, PTL

\* When STATIC decides to correct the base, the samples taken since the base was
\* last set span the length of the queue in time.
THEOREM PulseEstimatesFresh == PulseSpec => EstimateIsFresh
<1>1. PulseInv /\ [PulseNext]_pulseVars =>
          [operation_state = "STATIC" /\ operation_state' = "CORRECT"
              => samples_since * MaxLateness >= QueueLength]_pulseVars
  <2> SUFFICES ASSUME PulseInv, PulseNext, operation_state = "STATIC",
                      operation_state' = "CORRECT"
               PROVE  samples_since * MaxLateness >= QueueLength
      OBVIOUS
  <2>1. Control
        BY DEF PulseNext, Tick, PacketSent, PacketAcked, PacketGone, RttMeasured, Modulate,
               Log, stateVars
  <2>2. "control" \notin ran
        BY <2>1 DEF Control, Round
  <2>3. QED BY <2>2 DEF PulseInv, SamplesKeepUp, Spans
<1>2. QED BY <1>1, PulseInvariant, PTL DEF PulseSpec, EstimateIsFresh

-----------------------------------------------------------------------------
(* The numbers: the types, and that the samples it decides on were taken   *)
(* under a window within the amplitude of the base.                        *)

\* What the sampling and the estimates compute with.
Numbers ==
    /\ base_cwnd \in Nat
    /\ acked_bytes_in_interval \in Nat
    /\ rtt_estimate \in Nat \ {0} /\ latest_rtt \in Nat \ {0}
    /\ input_queue \in Seq([acked : Nat, rtt : Nat \ {0}])

\* A base outside the window's amplitude is that of this turn, and was sampled
\* once at most, or that of the last, and waits for the window's round.
WindowLags ==
    \/ WithinAmplitude
    \/ /\ "control" \in ran
       /\ samples_since <= 1
       /\ samples_since = 1 => "log" \in ran
    \/ /\ "modulate" \notin ran
       /\ samples_since <= 2
       /\ samples_since = 2 => "log" \in ran

WindowInv ==
    /\ Numbers
    /\ samples_since \in 0..QueueLength
    /\ ran \subseteq Task
    /\ WindowLags

-----------------------------------------------------------------------------
(* Estimates.                                                              *)

\* The least of the ratios, which the estimates choose, is one of them.
LEMMA LeastOfNaturals ==
    ASSUME NEW S \in SUBSET Nat, S # {}
    PROVE  Min(S) \in S
BY NaturalsHaveLeast DEF Min

\* A sequence of numbers has a bound: the shortest prefix that had none would be
\* longer by one than one that has.
LEMMA SequencesAreBounded ==
    ASSUME NEW n \in Nat, NEW f \in [1..n -> Nat]
    PROVE  \E b \in Nat : \A i \in 1..n : f[i] <= b
<1> DEFINE Bounded(k) == \E b \in Nat : \A i \in 1..k : f[i] <= b
           Unbounded == {k \in 0..n : ~Bounded(k)}
<1>1. Bounded(0)
  <2>1. \A i \in 1..0 : f[i] <= 0
        OBVIOUS
  <2>2. 0 \in Nat
        OBVIOUS
  <2>3. QED BY <2>1, <2>2
<1>2. \A k \in 1..n : Bounded(k - 1) => Bounded(k)
  <2> SUFFICES ASSUME NEW k \in 1..n, Bounded(k - 1) PROVE Bounded(k)
      OBVIOUS
  <2>1. PICK b \in Nat : \A i \in 1..(k - 1) : f[i] <= b
        OBVIOUS
  <2>2. f[k] \in Nat
        OBVIOUS
  <2>3. b + f[k] \in Nat
        BY <2>2
  <2>4. \A i \in 1..k : f[i] <= b + f[k]
    <3> TAKE i \in 1..k
    <3>1. CASE i = k
          BY <2>2, <3>1
    <3>2. CASE i # k
      <4>1. i \in 1..(k - 1)
            BY <3>2
      <4>2. f[i] \in Nat /\ f[i] <= b
            BY <2>1, <4>1
      <4>3. QED BY <2>2, <4>2
    <3>3. QED BY <3>1, <3>2
  <2>5. QED BY <2>3, <2>4
<1>3. Unbounded \in SUBSET Nat
      OBVIOUS
<1>4. Unbounded = {}
  <2> SUFFICES ASSUME Unbounded # {} PROVE FALSE
      OBVIOUS
  <2>1. PICK k \in Unbounded : \A m \in Unbounded : k <= m
    <3> HIDE DEF Unbounded
    <3> QED BY <1>3, NaturalsHaveLeast
  <2> HIDE DEF Bounded
  <2>2. k \in 1..n
        BY <1>1, <2>1
  <2>3. k - 1 \in 0..n /\ ~(k <= k - 1)
        BY <2>2
  <2>4. Bounded(k - 1)
        BY <2>1, <2>3
  <2>5. QED BY <1>2, <2>1, <2>2, <2>4
<1>5. Bounded(n)
  <2> HIDE DEF Bounded
  <2> QED BY <1>4
<1>6. QED BY <1>5

\* The greatest of bounded naturals, which the estimates choose, is one of them.
LEMMA GreatestOfNaturals ==
    ASSUME NEW S \in SUBSET Nat, S # {}, NEW b \in Nat, \A n \in S : n <= b
    PROVE  Max(S) \in S
<1> DEFINE Bounds == {c \in Nat : \A n \in S : n <= c}
<1>1. PICK m \in Bounds : \A c \in Bounds : m <= c
      BY NaturalsHaveLeast
<1>2. m \in S
  <2>1. SUFFICES ASSUME m \notin S PROVE FALSE
        OBVIOUS
  <2>2. \A n \in S : n <= m - 1
        BY <1>1, <2>1
  <2>3. PICK e \in S : e <= m - 1
        BY <2>2
  <2>4. m - 1 \in Nat
        BY <2>3
  <2>5. QED BY <1>1, <2>2, <2>4
<1>3. \A n \in S : m >= n
      BY <1>1
<1>4. QED BY <1>2, <1>3 DEF Max

\* What the analyzer computes from its queue is a number.
LEMMA EstimatesAreNumbers ==
    ASSUME Numbers
    PROVE  /\ RttEstimate \in Nat \ {0}
           /\ input_queue # << >> => BdpEstimate \in Nat
<1> DEFINE Rs == {s.rtt : s \in ToSet(input_queue)}
           As == {s.acked : s \in ToSet(input_queue)}
<1> DEFINE Samples == [acked : Nat, rtt : Nat \ {0}]
<1>0. /\ Len(input_queue) \in Nat
      /\ DOMAIN input_queue = 1..Len(input_queue)
      /\ \A i \in 1..Len(input_queue) : input_queue[i] \in Samples
  <2> HIDE DEF Samples
  <2>1. input_queue \in Seq(Samples)
        BY DEF Numbers, Samples
  <2>2. QED BY <2>1
<1>1. ToSet(input_queue) \subseteq Samples
  <2> HIDE DEF Samples
  <2> QED BY <1>0 DEF ToSet
<1>2. Rs \in SUBSET (Nat \ {0}) /\ As \in SUBSET Nat
      BY <1>1
<1>3. ASSUME input_queue # << >>
      PROVE  Rs # {} /\ As # {}
  <2>1. Len(input_queue) # 0
        BY <1>3 DEF Numbers
  <2>2. 1 \in DOMAIN input_queue
        BY <1>0, <2>1
  <2>3. input_queue[1] \in ToSet(input_queue)
        BY <2>2 DEF ToSet
  <2>4. QED BY <2>3
<1>4. RttEstimate \in Nat \ {0}
  <2>1. CASE input_queue = << >>
        BY <2>1, PulseAssumption DEF RttEstimate
  <2>2. CASE input_queue # << >>
    <3>1. Min(Rs) \in Rs
          BY <1>2, <1>3, <2>2, LeastOfNaturals
    <3>2. QED BY <1>2, <2>2, <3>1 DEF RttEstimate
  <2>3. QED BY <2>1, <2>2
<1>5. ASSUME input_queue # << >>
      PROVE  BdpEstimate \in Nat
  <2> DEFINE f == [i \in 1..Len(input_queue) |-> input_queue[i].acked]
  <2>1. PICK b \in Nat : \A i \in 1..Len(input_queue) : f[i] <= b
    <3>1. \A i \in 1..Len(input_queue) : input_queue[i].acked \in Nat
          BY <1>0
    <3>2. Len(input_queue) \in Nat /\ f \in [1..Len(input_queue) -> Nat]
          BY <1>0, <3>1
    <3> HIDE DEF f
    <3> QED BY <3>2, SequencesAreBounded
  <2>2. \A n \in As : n <= b
        BY <1>0, <2>1 DEF ToSet
  <2>3. Max(As) \in As
        BY <1>2, <1>3, <1>5, <2>2, GreatestOfNaturals
  <2>4. QED BY <1>2, <2>3 DEF BdpEstimate
<1>6. QED BY <1>4, <1>5
-----------------------------------------------------------------------------
(* The window.                                                             *)

\* Scaling down to whole bytes keeps the order.
LEMMA QuotientsInOrder ==
    ASSUME NEW m \in Int, NEW n \in Int, m <= n
    PROVE  /\ m \div (100 * 100) \in Int
           /\ m \div (100 * 100) <= n \div (100 * 100)
OBVIOUS

\* Each round of the modulation is within the amplitude around its base.
LEMMA ModulatedIsWithin ==
    ASSUME NEW base \in Nat, NEW percent \in {-100, 0, 100}
    PROVE  /\ Modulated(base, percent) \in Modulated(base, -100)..Modulated(base, 100)
           /\ Modulated(base, percent) \in Nat
<1> DEFINE scaled(p) == base * (100 * 100 + Amplitude * p)
<1>1. Amplitude \in 0..100
      BY PulseAssumption
<1>2. PICK a \in Nat : a = base * Amplitude
      BY <1>1
<1>3. base * (100 - Amplitude) \in Nat
  <2>1. 100 - Amplitude \in Nat
        BY <1>1
  <2>2. QED BY <2>1
<1>4. 100 * base - a \in Nat
      BY <1>1, <1>2, <1>3
<1>5. /\ scaled(-100) = 10000 * base - 100 * a
      /\ scaled(0) = 10000 * base
      /\ scaled(100) = 10000 * base + 100 * a
      BY <1>1, <1>2
<1> HIDE DEF scaled
<1>6. /\ scaled(percent) \in Nat /\ scaled(-100) \in Nat /\ scaled(100) \in Nat
      /\ scaled(-100) <= scaled(percent) /\ scaled(percent) <= scaled(100)
      BY <1>4, <1>5
<1>7. /\ Modulated(base, percent) = scaled(percent) \div (100 * 100)
      /\ Modulated(base, -100) = scaled(-100) \div (100 * 100)
      /\ Modulated(base, 100) = scaled(100) \div (100 * 100)
      BY DEF Modulated, scaled
<1>8. scaled(percent) \div (100 * 100) \in Nat
      BY <1>6
<1>9. /\ scaled(-100) \div (100 * 100) <= scaled(percent) \div (100 * 100)
      /\ scaled(percent) \div (100 * 100) <= scaled(100) \div (100 * 100)
      /\ scaled(-100) \div (100 * 100) \in Int /\ scaled(100) \div (100 * 100) \in Int
      BY <1>6, QuotientsInOrder
<1>10. QED BY <1>7, <1>8, <1>9

-----------------------------------------------------------------------------
(* The steps.                                                              *)

\* The constructor starts with a window that is its base.
LEMMA WindowInit == PulseInit => WindowInv
<1> SUFFICES ASSUME PulseInit PROVE WindowInv
    OBVIOUS
<1>1. Numbers
  <2>1. << >> \in Seq([acked : Nat, rtt : Nat \ {0}])
        OBVIOUS
  <2>2. QED BY <2>1, PulseAssumption DEF PulseInit, Numbers
<1>2. WindowLags
      BY DEF PulseInit, WindowLags
<1>3. QED BY <1>1, <1>2, PulseAssumption DEF PulseInit, WindowInv

\* What touches neither the tasks nor the window.
LEMMA WindowPacket ==
    ASSUME WindowInv, PacketSent \/ PacketAcked \/ PacketGone \/ RttMeasured
    PROVE  WindowInv'
<1>1. UNCHANGED <<windowVars, rtt_estimate, input_queue, ran, samples_since>>
      BY DEF PacketSent, PacketAcked, PacketGone, RttMeasured
<1>2. latest_rtt' \in Nat \ {0} /\ acked_bytes_in_interval' \in Nat
  <2>1. CASE PacketAcked
    <3>1. PacketBytes * rtt_estimate \in Nat
          BY PulseAssumption DEF WindowInv, Numbers
    <3>2. QED BY <2>1, <3>1 DEF PacketAcked, WindowInv, Numbers
  <2>2. CASE PacketSent \/ PacketGone \/ RttMeasured
        BY <2>2, PulseAssumption
        DEF PacketSent, PacketGone, RttMeasured, WindowInv, Numbers
  <2>3. QED BY <2>1, <2>2
<1>3. QED BY <1>1, <1>2
          DEF WindowInv, Numbers, WindowLags, WithinAmplitude, windowVars

\* A new turn: a base that lags is now that of the last turn.
LEMMA WindowTick ==
    ASSUME WindowInv, Tick
    PROVE  WindowInv'
<1>1. ran = Task /\ ran' = {}
      /\ UNCHANGED <<windowVars, packetVars, rtt_estimate, input_queue, samples_since>>
      BY DEF Tick
<1>2. Numbers' /\ (WithinAmplitude' <=> WithinAmplitude)
      BY <1>1 DEF WindowInv, Numbers, WithinAmplitude, windowVars, packetVars
<1>3. WindowLags'
      BY <1>1, <1>2 DEF WindowInv, WindowLags, Task
<1>4. QED BY <1>1, <1>2, <1>3 DEF WindowInv

\* The round of the window follows the base.
LEMMA WindowModulate ==
    ASSUME WindowInv, Modulate
    PROVE  WindowInv'
<1>1. /\ ran' = ran \cup {"modulate"}
      /\ UNCHANGED <<base_cwnd, packetVars, rtt_estimate, input_queue, samples_since>>
      BY DEF Modulate, Round
<1>2. PICK percent \in {-100, 0, 100} :
          congestion_window' = Modulated(base_cwnd, percent)
      BY DEF Modulate
<1>3. WithinAmplitude'
  <2>1. base_cwnd' = base_cwnd /\ base_cwnd \in Nat
        BY <1>1 DEF WindowInv, Numbers
  <2>2. congestion_window' \in Modulated(base_cwnd, -100)..Modulated(base_cwnd, 100)
        BY <1>2, <2>1, ModulatedIsWithin
  <2>3. QED BY <2>1, <2>2 DEF WithinAmplitude, Modulated
<1>4. Numbers'
      BY <1>1 DEF WindowInv, Numbers, packetVars
<1>5. QED BY <1>1, <1>3, <1>4 DEF WindowInv, WindowLags, Task

\* A sample adds one to those since the base was set.
LEMMA WindowLog ==
    ASSUME WindowInv, Log
    PROVE  WindowInv'
<1>1. /\ "log" \notin ran /\ ran' = ran \cup {"log"}
      /\ acked_bytes_in_interval' = 0
      /\ samples_since' = UpTo(QueueLength, samples_since + 1)
      /\ UNCHANGED <<windowVars, latest_rtt, rtt_estimate>>
      BY DEF Log, Round
<1>2. input_queue' \in Seq([acked : Nat, rtt : Nat \ {0}])
  <2> DEFINE S == [acked : Nat, rtt : Nat \ {0}]
             all == Append(input_queue, Sample)
  <2>1. Sample \in S /\ input_queue \in Seq(S)
        BY DEF Sample, WindowInv, Numbers
  <2>2. input_queue' = all \/ input_queue' = Tail(all)
        BY DEF Log
  <2> HIDE DEF S
  <2>3. all \in Seq(S) /\ Len(all) = Len(input_queue) + 1 /\ Len(input_queue) \in Nat
        BY <2>1
  <2>4. Tail(all) \in Seq(S)
    <3>1. all # << >>
          BY <2>3
    <3>2. QED BY <2>3, <3>1
  <2>5. QED BY <2>2, <2>3, <2>4 DEF S
<1>3. Numbers' /\ (WithinAmplitude' <=> WithinAmplitude)
      BY <1>1, <1>2 DEF WindowInv, Numbers, WithinAmplitude, windowVars
<1>4. samples_since' \in 0..QueueLength /\ samples_since' <= samples_since + 1
  <2>1. QueueLength \in Nat \ {0} /\ samples_since \in Nat /\ samples_since <= QueueLength
        BY PulseAssumption DEF WindowInv
  <2>2. CASE samples_since + 1 < QueueLength
        BY <1>1, <2>1, <2>2 DEF UpTo
  <2>3. CASE ~(samples_since + 1 < QueueLength)
        BY <1>1, <2>1, <2>3 DEF UpTo
  <2>4. QED BY <2>2, <2>3
<1>5. WindowLags'
      BY <1>1, <1>3, <1>4 DEF WindowInv, WindowLags
<1>6. QED BY <1>1, <1>3, <1>4, <1>5 DEF WindowInv, Task

\* A new base is of this turn and has no sample yet.
LEMMA WindowControl ==
    ASSUME WindowInv, Control
    PROVE  WindowInv'
<1>1. /\ ran' = ran \cup {"control"}
      /\ UNCHANGED <<congestion_window, packetVars, input_queue>>
      BY DEF Control, Round
<1>2. RttEstimate \in Nat \ {0} /\ (input_queue # << >> => BdpEstimate \in Nat)
      BY EstimatesAreNumbers DEF WindowInv
<1>3. rtt_estimate' \in Nat \ {0}
      BY <1>2 DEF Control, ControlStartup, ControlIncrease, ControlStatic,
                  ControlCorrect, ControlSense, WindowInv, Numbers
<1>4. NextStep(base_cwnd) \in Nat
  <2>1. base_cwnd * Growth \in Nat
        BY PulseAssumption DEF WindowInv, Numbers
  <2>2. (base_cwnd * Growth) \div 100 \in Nat
        BY <2>1
  <2>3. QED BY <2>2 DEF NextStep, WindowInv, Numbers
<1>5. \/ UNCHANGED <<base_cwnd, samples_since>>
      \/ base_cwnd' \in Nat /\ samples_since' = 0
      BY <1>2, <1>4 DEF Control, ControlStartup, ControlIncrease, ControlStatic,
                        ControlCorrect, ControlSense, SetBase
<1>6. Numbers'
      BY <1>1, <1>3, <1>5 DEF WindowInv, Numbers, packetVars
<1>7. samples_since' \in 0..QueueLength
      BY <1>5, PulseAssumption DEF WindowInv
<1>8. WindowLags'
  <2>1. CASE UNCHANGED <<base_cwnd, samples_since>>
        BY <1>1, <2>1 DEF WindowInv, WindowLags, WithinAmplitude
  <2>2. CASE samples_since' = 0
        BY <1>1, <2>2 DEF WindowLags
  <2>3. QED BY <1>5, <2>1, <2>2
<1>9. QED BY <1>1, <1>6, <1>7, <1>8 DEF WindowInv, Task

-----------------------------------------------------------------------------
\* The invariant of the base and its window.
THEOREM WindowInvariant == PulseSpec => []WindowInv
<1>1. WindowInv /\ [PulseNext]_pulseVars => WindowInv'
  <2> SUFFICES ASSUME WindowInv, [PulseNext]_pulseVars PROVE WindowInv'
      OBVIOUS
  <2>1. CASE UNCHANGED pulseVars
        BY <2>1 DEF pulseVars, windowVars, packetVars, WindowInv, Numbers, WindowLags,
                    WithinAmplitude
  <2>2. CASE PulseNext
        BY <2>2, WindowTick, WindowPacket, WindowModulate, WindowLog, WindowControl
        DEF PulseNext
  <2>3. QED BY <2>1, <2>2
<1>2. QED BY <1>1, WindowInit, PTL DEF PulseSpec

\* All samples but the first two after the base was set are of a window within
\* the amplitude around it, in whatever order the tasks have their rounds.
THEOREM PulseWindowFollowsBase == PulseSpec => []WindowFollowsBase
<1>1. WindowInv => WindowFollowsBase
      BY PulseAssumption DEF WindowInv, WindowLags, WindowFollowsBase
<1>2. QED BY <1>1, WindowInvariant, PTL
=============================================================================
