-------------------------- MODULE ForwardingProofs ---------------------------
(***************************************************************************)
(* Theorems about Forwarding, for every network, every motion, every delay *)
(* of reports and any number of packets.                                   *)
(***************************************************************************)
EXTENDS Forwarding, HeadersProofs, FiniteSetTheorems

------------------------------------------------------------------------------
(* Types. *)

LEMMA MetresTyped ==
  \A v : (\A a \in Axes : v[a] \in Int) => Metres(v) \in Vector
<1>1. \A i \in Int : Truncated(i, Unit) \in Int
  <2>1. Unit \in Nat \ {0}
    BY ForwardingAssumption
  <2> QED
    BY <2>1 DEF Truncated
<1> QED
  BY <1>1 DEF Metres, Vector

LEMMA SecondsShort == \A t \in Seconds : Uint16(t) \in Seconds
<1>1. \A i \in Nat : i % 65536 \in Nat /\ i % 65536 <= i
  BY SMT
<1>2. Horizon \in Nat
  BY ForwardingAssumption
<1> QED
  BY <1>1, <1>2, SMT DEF Seconds, Uint16

\* Reports make table entries.
LEMMA ReportTyped ==
  ASSUME NEW o \in Nodes, NEW t \in Seconds
  PROVE  Report(o, t) \in Entry /\ Report(o, t).adress = o
<1> DEFINE pos == Metres(Place[o][t])
           vel == Metres(Velocity[o][t])
           e == Report(o, t)
<1>1. pos \in Vector /\ vel \in Vector
  <2>1. /\ \A a \in Axes : Place[o][t][a] \in 0 .. Unit * Area[a]
        /\ \A a \in Axes : Velocity[o][t][a] \in Int
    BY ForwardingAssumption
  <2> QED
    BY <2>1, MetresTyped
<1> HIDE DEF pos, vel
<1>2. e = [adress |-> o, timestamp |-> Uint16(t), pos |-> Words(pos),
           vel |-> Shorts(GetRightVelocity(Words(Magnitude(vel)), SetRightVelocity(vel)))]
  BY DEF Report, EntryOfReport, ReportOf, pos, vel
<1>3. Words(pos) \in [Axes -> Nat]
  BY <1>1, ConversionsTyped, VectorsOfWords
<1>4. Shorts(GetRightVelocity(Words(Magnitude(vel)), SetRightVelocity(vel))) \in [Axes -> Int]
  <2>1. Words(Magnitude(vel)) \in Vector16
    BY <1>1, ConversionsTyped
  <2>2. Words(Magnitude(vel)) \in Vector
    BY <2>1, VectorsOfWords
  <2> QED
    BY <2>2, ConversionsTyped DEF Vector
<1>5. Uint16(t) \in Seconds
  BY SecondsShort
<1> HIDE DEF e
<1> QED
  BY <1>2, <1>3, <1>4, <1>5 DEF Entry, e

LEMMA BroadcastTyped == BroadcastEntry \in Entry
BY ForwardingAssumption DEF BroadcastEntry, Entry, Seconds, Origin, Axes

\* A data header that is put together of typed parts.
LEMMA DataTyped ==
  ASSUME NEW rt \in Entry, NEW recPos \in Vector, NEW inRec \in {0, 1},
         NEW hop \in 0 .. HopLimit
  PROVE  LET h == DataOf(rt, recPos, inRec, NoUid, hop) IN
         /\ h \in DataHeader /\ h.hop = hop /\ h.inRec = inRec
         /\ h.dstTimestamp \in Seconds /\ h.recPos = Words(recPos)
<1> DEFINE h == DataOf(rt, recPos, inRec, NoUid, hop)
<1>1. /\ Words(rt.pos) \in Vector16 /\ Words(Magnitude(rt.vel)) \in Vector16
      /\ SetRightVelocity(rt.vel) \in Word /\ Words(recPos) \in Vector16
  <2>1. rt.pos \in Vector /\ rt.vel \in Vector
    BY DEF Entry, Vector
  <2> QED
    BY <2>1, ConversionsTyped
<1>2. Uint16(rt.timestamp) \in Seconds /\ Uint16(rt.timestamp) \in Word
  <2>1. rt.timestamp \in Seconds
    BY DEF Entry
  <2>2. \A i \in Seconds : Uint16(i) \in Seconds
    BY SecondsShort
  <2>3. \A i \in Seconds : i \in Int
    BY ForwardingAssumption DEF Seconds
  <2> QED
    BY <2>1, <2>2, <2>3, WidthsTyped
<1>3. Uint16(hop) = hop /\ Uint16(hop) \in Word
  <2>1. hop \in Word
    <3>1. HopLimit \in Word
      BY ForwardingAssumption
    <3>2. HopLimit \in Nat /\ HopLimit < 65536
      BY <3>1, SMT DEF Word
    <3>3. hop \in Nat /\ hop < 65536
      BY <3>2
    <3> QED
      BY <3>3, WidthsTyped
  <2> QED
    BY <2>1, WidthsTyped
<1>4. NoUid \in Uid /\ inRec \in Word /\ 0 \in Word
  BY WordsAreNaturals DEF NoUid, Uid
<1>5. h \in DataHeader
  BY <1>1, <1>2, <1>3, <1>4 DEF DataOf, DataHeader
<1> QED
  BY <1>2, <1>3, <1>5 DEF DataOf

\* A copy on the air.
CopyTyped(c) ==
  /\ c.packet \in Packets /\ c.from \in Nodes
  /\ c.to \in Nodes \cup {Garbage, Broadcast}
  /\ c.header \in [1 .. DataHeaderSize \div 2 -> Word]
  /\ DataHeaderOf(c) \in DataHeader
  /\ DataHeaderOf(c).hop <= HopLimit /\ DataHeaderOf(c).inRec \in {0, 1}
  /\ DataHeaderOf(c).dstTimestamp \in Seconds

\* The table entry that comes of its header.
LEMMA CarriedTyped ==
  ASSUME NEW c, CopyTyped(c), NEW d \in Nodes
  PROVE  EntryOfData(DataHeaderOf(c), d) \in Entry
<1> DEFINE h == DataHeaderOf(c)
           vel == GetRightVelocity(h.dstVel, h.dstSign)
<1>1. h \in DataHeader /\ h.dstTimestamp \in Seconds
  BY DEF CopyTyped
<1> HIDE DEF h
<1>2. h.dstPos \in [Axes -> Nat] /\ h.dstVel \in Vector
  <2>1. h.dstPos \in Vector16 /\ h.dstVel \in Vector16
    BY <1>1 DEF DataHeader
  <2> QED
    BY <2>1, VectorsOfWords
<1>3. Shorts(vel) \in [Axes -> Int]
  BY <1>2, ConversionsTyped DEF Vector
<1>4. EntryOfData(h, d) = [adress |-> d, timestamp |-> h.dstTimestamp, pos |-> h.dstPos,
                           vel |-> Shorts(vel)]
  BY DEF EntryOfData
<1> HIDE DEF vel
<1>5. EntryOfData(h, d) \in Entry
  BY <1>1, <1>2, <1>3, <1>4 DEF Entry
<1> QED
  BY <1>5 DEF h

\* A hop that Hops may choose.
Hop == [to : Nodes \cup {Garbage, Broadcast}, inRec : {0, 1}, recPos : Vector]

LEMMA HopsTyped ==
  ASSUME now \in Seconds, NEW n \in Nodes, NEW table \in SUBSET Entry, NEW d,
         NEW inRec \in {0, 1}, NEW recPos \in Vector,
         NEW h \in Hops(n, table, d, inRec, recPos)
  PROVE  h \in Hop
<1> DEFINE target == Predicted(LookupRoute(table, d))
           neighbors == LookupNeighbor(table, Here(n))
           greedy == inRec = 0 \/ LeavesRecovery(Here(n), Scaled(recPos), target)
           best == IF greedy THEN BestNeighbor(neighbors, target, Here(n)) ELSE {}
           others == IF EnableRecoveryMode /\ best = {} /\ neighbors # {}
                       THEN RecoveryMode(neighbors) ELSE {}
<1>1. neighbors \subseteq Entry
  BY DEF LookupNeighbor
<1>2. Metres(Here(n)) \in Vector /\ Origin \in Vector
  <2>1. \A a \in Axes : Here(n)[a] \in 0 .. Unit * Area[a]
    BY ForwardingAssumption DEF Here
  <2> QED
    BY <2>1, MetresTyped DEF Origin, Vector, Axes
<1>3. h \in {[to |-> m, inRec |-> 0, recPos |-> Origin] : m \in best} \cup
            {[to |-> m, inRec |-> 1,
              recPos |-> IF greedy THEN Metres(Here(n)) ELSE recPos] : m \in others}
  BY DEF Hops
<1>4. /\ \A m \in best : \E r \in neighbors : m = r.adress
      /\ \A m \in others : m = Garbage \/ \E r \in neighbors : m = r.adress
  BY DEF BestNeighbor, RecoveryMode
<1> HIDE DEF neighbors, best, others, greedy
<1>5. \A m \in best \cup others : m \in Nodes \cup {Garbage, Broadcast}
  BY <1>1, <1>4 DEF Entry
<1> QED
  BY <1>2, <1>3, <1>5 DEF Hop

\* Whom it leads to.
LEMMA HopsLead ==
  ASSUME NEW n, NEW table, NEW d, NEW inRec, NEW recPos,
         NEW h \in Hops(n, table, d, inRec, recPos)
  PROVE  h.to = Garbage \/ \E r \in table : h.to = r.adress
<1> DEFINE target == Predicted(LookupRoute(table, d))
           neighbors == LookupNeighbor(table, Here(n))
           greedy == inRec = 0 \/ LeavesRecovery(Here(n), Scaled(recPos), target)
           best == IF greedy THEN BestNeighbor(neighbors, target, Here(n)) ELSE {}
           others == IF EnableRecoveryMode /\ best = {} /\ neighbors # {}
                       THEN RecoveryMode(neighbors) ELSE {}
<1>1. neighbors \subseteq table
  BY DEF LookupNeighbor
<1>2. h \in {[to |-> m, inRec |-> 0, recPos |-> Origin] : m \in best} \cup
            {[to |-> m, inRec |-> 1,
              recPos |-> IF greedy THEN Metres(Here(n)) ELSE recPos] : m \in others}
  BY DEF Hops
<1>3. /\ \A m \in best : \E r \in neighbors : m = r.adress
      /\ \A m \in others : m = Garbage \/ \E r \in neighbors : m = r.adress
  BY DEF BestNeighbor, RecoveryMode
<1> HIDE DEF neighbors, best, others, greedy
<1>4. \E m \in best \cup others : h.to = m
  BY <1>2
<1> QED
  BY <1>1, <1>3, <1>4

------------------------------------------------------------------------------
(* The inductive invariant: each packet that is on its way is in one place, and *)
(* the hop count in its header goes with its route.                             *)

PacketsOf(entries) == {e.packet : e \in entries}

\* The packets on their way, s, are each in one of three places: a, l and q.
Parted(s, a, l, q) ==
  /\ s = a \cup l \cup q
  /\ a \cap l = {} /\ a \cap q = {} /\ l \cap q = {}

OnItsWay(f) == {p \in Packets : f[p] = "sent"}

Single(S) == \A e, f \in S : e.packet = f.packet => e = f

Once ==
  /\ Single(air) /\ Single(loopback)
  /\ Parted(OnItsWay(fate), PacketsOf(air), PacketsOf(loopback), m_queue)

RouteHop == [node : Nodes, inRec : {0, 1}, recPos : Vector]
RouteTyped == route \in [Packets -> Seq(RouteHop)]

CopiesTyped == \A c \in air : CopyTyped(c)

Counted ==
  /\ \A c \in air : Len(route[c.packet]) <= DataHeaderOf(c).hop + 1
  /\ \A p \in Packets :
       (fate[p] = "new" \/ p \in PacketsOf(loopback) \/ p \in m_queue) => Len(route[p]) = 0

TablesTyped ==
  DOMAIN m_positionTable = Nodes /\ \A n \in Nodes : m_positionTable[n] \subseteq Entry

OthersTyped ==
  /\ now \in Seconds
  /\ loopback \subseteq [packet : Packets, tag : {0, 1}] /\ m_queue \subseteq Packets
  /\ fate \in [Packets -> {"new", "sent"} \cup Outcomes] /\ DOMAIN received = Packets

ForwardInv ==
  /\ CopiesTyped /\ RouteTyped /\ TablesTyped /\ OthersTyped
  /\ Once /\ Counted /\ HopsBounded

\* What Transmit does to the air and to the routes.
IsTransmitted(stay, ps) ==
  /\ CopiesTyped' /\ RouteTyped'
  /\ Single(air') /\ PacketsOf(air') = PacketsOf(stay) \cup ps
  /\ \A c \in air' : Len(route'[c.packet]) <= DataHeaderOf(c).hop + 1
  /\ \A p \in Packets \ ps : route'[p] = route[p]
  /\ HopsBounded'

LEMMA TransmitCounts ==
  ASSUME ForwardInv, NEW stay \in SUBSET air, NEW ps \in SUBSET Packets, NEW n \in Nodes,
         NEW h \in Hop,
         NEW dst \in Entry, NEW hop \in 0 .. HopLimit,
         Transmit(stay, ps, n, h, dst, hop),
         \A c \in stay : c.packet \notin ps,
         \A p \in ps : Len(route[p]) <= hop
  PROVE  IsTransmitted(stay, ps)
<1> DEFINE data == DataOf(dst, h.recPos, h.inRec, NoUid, hop)
           frame == SerializeData(data)
           copy(p) == [packet |-> p, from |-> n, to |-> h.to, header |-> frame]
           last == [node |-> n, inRec |-> h.inRec, recPos |-> h.recPos]
<1>1. /\ h.recPos \in Vector /\ h.inRec \in {0, 1}
      /\ h.to \in Nodes \cup {Garbage, Broadcast}
  BY DEF Hop
<1>2. /\ data \in DataHeader /\ data.hop = hop /\ data.inRec = h.inRec
      /\ data.dstTimestamp \in Seconds
  BY <1>1, DataTyped
<1> HIDE DEF data
<1>3. frame \in [1 .. DataHeaderSize \div 2 -> Word] /\ DeserializeData(frame) = data
  <2>1. frame \in Seq(Word) /\ Len(frame) = 18
    BY <1>2, DataWords
  <2>2. frame \in [1 .. 18 -> Word]
    BY <2>1, LenProperties
  <2>3. DataHeaderSize \div 2 = 18
    BY DEF DataHeaderSize
  <2> QED
    BY <1>2, <2>2, <2>3, DataRoundTrip
<1> HIDE DEF frame
<1>4. HopLimit \in Nat /\ hop \in Nat /\ hop <= HopLimit
  <2>1. HopLimit \in Nat
    BY ForwardingAssumption, WordsAreNaturals
  <2> QED
    BY <2>1
<1>5. ASSUME NEW p \in ps PROVE CopyTyped(copy(p)) /\ DataHeaderOf(copy(p)) = data
  BY <1>1, <1>2, <1>3, <1>4 DEF CopyTyped, DataHeaderOf
<1>6. \A c \in air' : c \in stay \/ \E p \in ps : c = copy(p)
  BY DEF Transmit, frame, data
<1>7. /\ \A p \in ps : copy(p) \in air'
      /\ stay \subseteq air'
  BY DEF Transmit, frame, data
<1>8. /\ \A p \in ps : route'[p] = Append(route[p], last)
      /\ \A p \in Packets \ ps : route'[p] = route[p]
      /\ route' = [p \in Packets |-> route'[p]]
  BY DEF Transmit
<1>9. last \in RouteHop
  BY <1>1 DEF RouteHop
<1> HIDE DEF last
<1>10. ASSUME NEW p \in ps
       PROVE  /\ Len(route'[p]) = Len(route[p]) + 1 /\ Len(route[p]) \in Nat
              /\ route'[p] \in Seq(RouteHop)
  <2>1. route[p] \in Seq(RouteHop)
    BY DEF ForwardInv, RouteTyped
  <2>2. route'[p] = Append(route[p], last)
    BY <1>8
  <2> QED
    BY <1>9, <2>1, <2>2, AppendProperties, LenProperties
<1>17. RouteTyped'
  <2>1. \A p \in Packets \ ps : route'[p] \in Seq(RouteHop)
    BY <1>8 DEF ForwardInv, RouteTyped
  <2> QED
    BY <1>8, <1>10, <2>1 DEF RouteTyped
<1> HIDE DEF copy
<1>11. \A p \in ps : copy(p).packet = p
  BY DEF copy
<1>12. CopiesTyped'
  BY <1>5, <1>6 DEF ForwardInv, CopiesTyped
<1>13. Single(air')
  <2> SUFFICES ASSUME NEW e \in air', NEW f \in air', e.packet = f.packet PROVE e = f
    BY DEF Single
  <2>1. Single(air)
    BY DEF ForwardInv, Once
  <2> QED
    BY <1>6, <1>11, <2>1 DEF Single
<1>14. PacketsOf(air') = PacketsOf(stay) \cup ps
  BY <1>6, <1>7, <1>11 DEF PacketsOf
<1>15. \A c \in air' : Len(route'[c.packet]) <= DataHeaderOf(c).hop + 1
  <2>1. ASSUME NEW c \in stay PROVE Len(route'[c.packet]) <= DataHeaderOf(c).hop + 1
    <3>1. c.packet \in Packets \ ps
      BY DEF ForwardInv, CopiesTyped, CopyTyped
    <3> QED
      BY <1>8, <3>1 DEF ForwardInv, Counted
  <2>2. ASSUME NEW p \in ps
        PROVE  Len(route'[p]) <= DataHeaderOf(copy(p)).hop + 1
    BY <1>2, <1>4, <1>5, <1>10
  <2> QED
    BY <1>6, <1>11, <2>1, <2>2
<1>16. HopsBounded'
  <2>1. \A p \in ps : Len(route'[p]) <= HopLimit + 1
    BY <1>4, <1>10
  <2>2. \A p \in Packets \ ps : Len(route'[p]) <= HopLimit + 1
    BY <1>8 DEF ForwardInv, HopsBounded
  <2> QED
    BY <2>1, <2>2 DEF HopsBounded
<1> QED
  BY <1>8, <1>12, <1>13, <1>14, <1>15, <1>16, <1>17 DEF IsTransmitted

LEMMA TypesFollow == ForwardInv => TypeOK
<1> SUFFICES ASSUME ForwardInv PROVE TypeOK
  OBVIOUS
<1>1. DOMAIN route = Packets
  BY DEF ForwardInv, RouteTyped
<1>2. \A c \in air :
        /\ c.packet \in Packets /\ c.from \in Nodes
        /\ c.to \in Nodes \cup {Garbage, Broadcast}
        /\ c.header \in [1 .. DataHeaderSize \div 2 -> Word]
        /\ DataHeaderOf(c).hop <= HopLimit /\ DataHeaderOf(c).inRec \in {0, 1}
  BY DEF ForwardInv, CopiesTyped, CopyTyped
<1>3. \A n \in Nodes : \A r \in m_positionTable[n] : r \in Entry
  BY DEF ForwardInv, TablesTyped
<1> QED
  BY <1>1, <1>2, <1>3 DEF ForwardInv, TablesTyped, OthersTyped, TypeOK

------------------------------------------------------------------------------
(* The steps, by what they do to the packets. *)

LEMMA PartedMoves ==
  ASSUME NEW s, NEW a, NEW l, NEW q, Parted(s, a, l, q)
  PROVE  /\ \A p : p \notin s => /\ Parted(s \cup {p}, a \cup {p}, l, q)
                                 /\ Parted(s \cup {p}, a, l \cup {p}, q)
         /\ \A p \in l : /\ Parted(s, a, l \ {p}, q \cup {p})
                         /\ Parted(s \ {p}, a, l \ {p}, q)
         /\ \A w \in SUBSET q : /\ Parted(s, a \cup w, l, q \ w)
                                /\ Parted(s \ w, a, l, q \ w)
         /\ \A p \in a : Parted(s \ {p}, a \ {p}, l, q)
<1>1. \A p : p \notin s => /\ Parted(s \cup {p}, a \cup {p}, l, q)
                           /\ Parted(s \cup {p}, a, l \cup {p}, q)
  BY DEF Parted
<1>2. \A p \in l : /\ Parted(s, a, l \ {p}, q \cup {p})
                   /\ Parted(s \ {p}, a, l \ {p}, q)
  BY DEF Parted
<1>3. \A w \in SUBSET q : /\ Parted(s, a \cup w, l, q \ w)
                          /\ Parted(s \ w, a, l, q \ w)
  BY DEF Parted
<1>4. \A p \in a : Parted(s \ {p}, a \ {p}, l, q)
  BY DEF Parted
<1> QED
  BY <1>1, <1>2, <1>3, <1>4

LEMMA PacketsOfSets ==
  /\ \A S : \A e \in S : e.packet \in PacketsOf(S)
  /\ \A S, e : PacketsOf(S \cup {e}) = PacketsOf(S) \cup {e.packet}
  /\ \A S : \A e \in S : Single(S) =>
       /\ PacketsOf(S \ {e}) = PacketsOf(S) \ {e.packet}
       /\ Single(S \ {e}) /\ \A f \in S \ {e} : f.packet # e.packet
<1>1. \A S : \A e \in S : e.packet \in PacketsOf(S)
  BY DEF PacketsOf
<1>2. \A S, e : PacketsOf(S \cup {e}) = PacketsOf(S) \cup {e.packet}
  BY DEF PacketsOf
<1>3. ASSUME NEW S, NEW e \in S, Single(S)
      PROVE  /\ PacketsOf(S \ {e}) = PacketsOf(S) \ {e.packet}
             /\ Single(S \ {e}) /\ \A f \in S \ {e} : f.packet # e.packet
  <2>1. Single(S \ {e}) /\ \A f \in S \ {e} : f.packet # e.packet
    BY <1>3 DEF Single
  <2>2. PacketsOf(S \ {e}) = PacketsOf(S) \ {e.packet}
    BY <2>1 DEF PacketsOf
  <2> QED
    BY <2>1, <2>2
<1> QED
  BY <1>1, <1>2, <1>3

LEMMA BecomesMoves ==
  ASSUME OthersTyped, NEW ps \in SUBSET Packets, NEW what, Becomes(ps, what),
         what = "sent" \/ what \in Outcomes
  PROVE  /\ fate' \in [Packets -> {"new", "sent"} \cup Outcomes]
         /\ \A p \in Packets : fate'[p] = "new" => fate[p] = "new" /\ p \notin ps
         /\ what = "sent" => OnItsWay(fate') = OnItsWay(fate) \cup ps
         /\ what # "sent" => OnItsWay(fate') = OnItsWay(fate) \ ps
<1>1. fate' \in [Packets -> {"new", "sent"} \cup Outcomes]
  BY DEF OthersTyped, Becomes
<1>2. \A p \in Packets : fate'[p] = IF p \in ps THEN what ELSE fate[p]
  BY DEF Becomes
<1>3. what # "new"
  BY DEF Outcomes
<1> QED
  BY <1>1, <1>2, <1>3 DEF OnItsWay

\* A table replaced by a typed one.
LEMMA TableReplaced ==
  ASSUME TablesTyped, NEW n \in Nodes, NEW table \in SUBSET Entry,
         m_positionTable' = [m_positionTable EXCEPT ![n] = table]
  PROVE  TablesTyped'
BY DEF TablesTyped

\* What a table becomes in the handlers.
LEMMA HandledTyped ==
  ASSUME NEW table \in SUBSET Entry
  PROVE  /\ PurgeRoutes(table, now) \in SUBSET Entry
         /\ \A r \in Entry : Update(table, r) \in SUBSET Entry /\ Merge(table, r) \in SUBSET Entry
<1>1. PurgeRoutes(table, now) \in SUBSET Entry
  BY DEF PurgeRoutes
<1>2. ASSUME NEW r \in Entry
      PROVE  Update(table, r) \in SUBSET Entry /\ Merge(table, r) \in SUBSET Entry
  <2>1. Update(table, r) \in SUBSET Entry
    BY DEF Update
  <2>2. Merge(table, r) \in {table, Update(table, r)}
    BY DEF Merge
  <2> QED
    BY <2>1, <2>2
<1> QED
  BY <1>1, <1>2

\* Something becomes of the packet of a copy.
LEMMA SettleKeepsInv ==
  ASSUME ForwardInv, NEW c \in air, NEW what \in Outcomes, Becomes({c.packet}, what),
         air' = air \ {c}, TablesTyped', DOMAIN received' = Packets,
         now' = now, loopback' = loopback, m_queue' = m_queue, route' = route
  PROVE  ForwardInv'
<1>1. c.packet \in Packets /\ OthersTyped /\ Once /\ Counted
  BY DEF ForwardInv, CopiesTyped, CopyTyped
<1>2. what # "sent"
  BY DEF Outcomes
<1>3. /\ fate' \in [Packets -> {"new", "sent"} \cup Outcomes]
      /\ \A p \in Packets : fate'[p] = "new" => fate[p] = "new"
      /\ OnItsWay(fate') = OnItsWay(fate) \ {c.packet}
  <2> DEFINE ps == {c.packet}
  <2>1. ps \in SUBSET Packets /\ Becomes(ps, what)
    BY <1>1
  <2> HIDE DEF ps
  <2>2. /\ fate' \in [Packets -> {"new", "sent"} \cup Outcomes]
        /\ \A p \in Packets : fate'[p] = "new" => fate[p] = "new"
        /\ OnItsWay(fate') = OnItsWay(fate) \ ps
    BY <1>1, <1>2, <2>1, BecomesMoves
  <2> QED
    BY <2>2 DEF ps
<1>4. OthersTyped'
  BY <1>1, <1>3 DEF OthersTyped
<1>5. CopiesTyped' /\ RouteTyped' /\ HopsBounded'
  BY DEF ForwardInv, CopiesTyped, RouteTyped, HopsBounded
<1>6. Once'
  <2>1. /\ PacketsOf(air') = PacketsOf(air) \ {c.packet} /\ Single(air')
        /\ c.packet \in PacketsOf(air)
    BY <1>1, PacketsOfSets DEF Once
  <2>2. Parted(OnItsWay(fate) \ {c.packet}, PacketsOf(air) \ {c.packet}, PacketsOf(loopback),
               m_queue)
    BY <1>1, <2>1, PartedMoves DEF Once
  <2> QED
    BY <1>1, <1>3, <2>1, <2>2 DEF Once
<1>7. Counted'
  BY <1>1, <1>3 DEF Counted
<1> QED
  BY <1>4, <1>5, <1>6, <1>7 DEF ForwardInv

LEMMA RouteOutputKeepsInv ==
  ASSUME ForwardInv, NEW p \in Packets, RouteOutput(p)
  PROVE  ForwardInv'
<1> DEFINE n == Src[p]
           d == Dst[p]
           table == PurgeRoutes(m_positionTable[n], now)
           hops == IF HasRoute(table, d) THEN Hops(n, table, d, 0, Origin) ELSE {}
           ps == {p}
<1>1. /\ CopiesTyped /\ RouteTyped /\ TablesTyped /\ OthersTyped /\ Once /\ Counted
      /\ HopsBounded
  BY DEF ForwardInv
<1>2. n \in Nodes /\ table \in SUBSET Entry
  <2>1. n \in Nodes
    BY ForwardingAssumption
  <2> QED
    BY <1>1, <2>1, HandledTyped DEF TablesTyped
<1>3. TablesTyped' /\ now' = now /\ m_queue' = m_queue /\ received' = received
  <2>1. m_positionTable' = [m_positionTable EXCEPT ![n] = table]
    BY DEF RouteOutput
  <2> HIDE DEF n, table
  <2> QED
    BY <1>1, <1>2, <2>1, TableReplaced DEF RouteOutput
<1>4. fate[p] = "new" /\ Becomes(ps, "sent") /\ p \notin OnItsWay(fate) /\ Len(route[p]) = 0
  BY <1>1 DEF RouteOutput, OnItsWay, Counted
<1>5. /\ fate' \in [Packets -> {"new", "sent"} \cup Outcomes]
      /\ \A q \in Packets : fate'[q] = "new" => fate[q] = "new" /\ q # p
      /\ OnItsWay(fate') = OnItsWay(fate) \cup {p}
  <2>1. ps \in SUBSET Packets
    OBVIOUS
  <2> HIDE DEF ps
  <2>2. /\ fate' \in [Packets -> {"new", "sent"} \cup Outcomes]
        /\ \A q \in Packets : fate'[q] = "new" => fate[q] = "new" /\ q \notin ps
        /\ OnItsWay(fate') = OnItsWay(fate) \cup ps
    BY <1>1, <1>4, <2>1, BecomesMoves
  <2> QED
    BY <2>2 DEF ps
<1>6. p \notin PacketsOf(air) /\ p \notin PacketsOf(loopback) /\ p \notin m_queue
  BY <1>1, <1>4 DEF Once, Parted
<1>7. ASSUME NEW tag \in {0, 1}, loopback' = loopback \cup {[packet |-> p, tag |-> tag]},
             UNCHANGED <<air, route>>
      PROVE  ForwardInv'
  <2> DEFINE l == [packet |-> p, tag |-> tag]
  <2>1. l \in [packet : Packets, tag : {0, 1}] /\ l.packet = p
    OBVIOUS
  <2>2. loopback' = loopback \cup {l}
    BY <1>7
  <2> HIDE DEF l
  <2>3. OthersTyped'
    BY <1>1, <1>3, <1>5, <2>1, <2>2 DEF OthersTyped
  <2>4. CopiesTyped' /\ RouteTyped' /\ HopsBounded'
    BY <1>1, <1>7 DEF CopiesTyped, RouteTyped, HopsBounded
  <2>5. PacketsOf(loopback') = PacketsOf(loopback) \cup {p}
    BY <2>1, <2>2, PacketsOfSets
  <2>6. Single(loopback')
    BY <1>1, <1>6, <2>1, <2>2, PacketsOfSets DEF Once, Single
  <2>7. Once'
    <3>1. Parted(OnItsWay(fate) \cup {p}, PacketsOf(air), PacketsOf(loopback) \cup {p}, m_queue)
      BY <1>1, <1>4, PartedMoves DEF Once
    <3> QED
      BY <1>1, <1>3, <1>5, <1>7, <2>5, <2>6, <3>1 DEF Once
  <2>8. Counted'
    BY <1>1, <1>3, <1>4, <1>5, <1>7, <2>5 DEF Counted
  <2> QED
    BY <1>3, <2>3, <2>4, <2>7, <2>8 DEF ForwardInv
<1>8. ASSUME NEW h \in hops, Transmit(air, ps, n, h, LookupRoute(table, d), 1),
             UNCHANGED loopback
      PROVE  ForwardInv'
  <2>1. h \in Hops(n, table, d, 0, Origin) /\ HasRoute(table, d)
    BY <1>8
  <2>2. h \in Hop
    <3>1. Origin \in Vector /\ now \in Seconds
      BY <1>1 DEF Origin, Vector, Axes, OthersTyped
    <3> HIDE DEF n, d, table
    <3> QED
      BY <1>2, <2>1, <3>1, HopsTyped
  <2>3. LookupRoute(table, d) \in Entry
    <3>1. LookupRoute(table, d) \in table
      BY <2>1 DEF HasRoute, LookupRoute
    <3> QED
      BY <1>2, <3>1
  <2>4. 1 \in 0 .. HopLimit /\ Len(route[p]) <= 1
    <3>1. HopLimit \in Nat \ {0}
      BY ForwardingAssumption, WordsAreNaturals
    <3> QED
      BY <1>4, <3>1
  <2>5. /\ ps \in SUBSET Packets /\ \A q \in ps : Len(route[q]) <= 1
        /\ \A c \in air : c.packet \notin ps
    BY <1>6, <2>4, PacketsOfSets
  <2> HIDE DEF n, d, table, ps, hops
  <2>6. IsTransmitted(air, ps)
    BY <1>2, <1>8, <2>2, <2>3, <2>4, <2>5, TransmitCounts
  <2> USE DEF ps
  <2>7. OthersTyped'
    BY <1>1, <1>3, <1>5, <1>8 DEF OthersTyped
  <2>8. Once'
    <3>1. Parted(OnItsWay(fate) \cup {p}, PacketsOf(air) \cup {p}, PacketsOf(loopback), m_queue)
      BY <1>1, <1>4, PartedMoves DEF Once
    <3> QED
      BY <1>1, <1>3, <1>5, <1>8, <2>6, <3>1 DEF Once, IsTransmitted
  <2>9. Counted'
    <3>1. ASSUME NEW q \in Packets,
                 fate'[q] = "new" \/ q \in PacketsOf(loopback') \/ q \in m_queue'
          PROVE  Len(route'[q]) = 0
      <4>1. q # p
        BY <1>3, <1>5, <1>6, <1>8, <3>1
      <4>2. route'[q] = route[q]
        BY <2>6, <4>1 DEF IsTransmitted
      <4> QED
        BY <1>1, <1>3, <1>5, <1>8, <3>1, <4>2 DEF Counted
    <3> QED
      BY <2>6, <3>1 DEF Counted, IsTransmitted
  <2> QED
    BY <1>3, <2>6, <2>7, <2>8, <2>9 DEF ForwardInv, IsTransmitted
<1>9. \/ /\ loopback' = loopback \cup
                {[packet |-> p, tag |-> IF HasRoute(table, d) THEN 0 ELSE 1]}
         /\ UNCHANGED <<air, route>>
      \/ /\ \E h \in hops : Transmit(air, ps, n, h, LookupRoute(table, d), 1)
         /\ UNCHANGED loopback
  BY DEF RouteOutput
<1> HIDE DEF n, d, table, hops, ps
<1> QED
  BY <1>7, <1>8, <1>9

LEMMA LoopbackKeepsInv ==
  ASSUME ForwardInv, NEW l \in loopback, RouteInputLoopback(l)
  PROVE  ForwardInv'
<1> DEFINE p == l.packet
           ps == {p}
<1>1. /\ CopiesTyped /\ RouteTyped /\ TablesTyped /\ OthersTyped /\ Once /\ Counted
      /\ HopsBounded /\ p \in Packets
  BY DEF ForwardInv, OthersTyped
<1>2. /\ loopback' = loopback \ {l} /\ now' = now /\ m_positionTable' = m_positionTable
      /\ air' = air /\ received' = received /\ route' = route
  BY DEF RouteInputLoopback
<1>3. CopiesTyped' /\ RouteTyped' /\ TablesTyped' /\ HopsBounded'
  BY <1>1, <1>2 DEF CopiesTyped, RouteTyped, TablesTyped, HopsBounded
<1>4. /\ PacketsOf(loopback') = PacketsOf(loopback) \ {p} /\ Single(loopback')
      /\ p \in PacketsOf(loopback)
  BY <1>1, <1>2, PacketsOfSets DEF Once
<1>5. CASE m_queue' = m_queue \cup {p} /\ fate' = fate
  <2>1. OthersTyped'
    BY <1>1, <1>2, <1>5 DEF OthersTyped
  <2>2. Once'
    <3>1. Parted(OnItsWay(fate), PacketsOf(air), PacketsOf(loopback) \ {p}, m_queue \cup {p})
      BY <1>1, <1>4, PartedMoves DEF Once
    <3> QED
      BY <1>1, <1>2, <1>4, <1>5, <3>1 DEF Once
  <2>3. Counted'
    BY <1>1, <1>2, <1>4, <1>5 DEF Counted
  <2> QED
    BY <1>3, <2>1, <2>2, <2>3 DEF ForwardInv
<1>6. CASE Becomes(ps, "dropped") /\ m_queue' = m_queue
  <2>1. ps \in SUBSET Packets /\ "dropped" \in Outcomes /\ "dropped" # "sent"
    BY <1>1 DEF Outcomes
  <2> HIDE DEF ps, p
  <2>2. /\ fate' \in [Packets -> {"new", "sent"} \cup Outcomes]
        /\ \A q \in Packets : fate'[q] = "new" => fate[q] = "new"
        /\ OnItsWay(fate') = OnItsWay(fate) \ ps
    BY <1>1, <1>6, <2>1, BecomesMoves
  <2>3. OthersTyped'
    BY <1>1, <1>2, <1>6, <2>2 DEF OthersTyped
  <2>4. Once'
    <3>1. Parted(OnItsWay(fate) \ {p}, PacketsOf(air), PacketsOf(loopback) \ {p}, m_queue)
      BY <1>1, <1>4, PartedMoves DEF Once
    <3>2. OnItsWay(fate') = OnItsWay(fate) \ {p}
      BY <2>2 DEF ps
    <3> QED
      BY <1>1, <1>2, <1>4, <1>6, <3>1, <3>2 DEF Once
  <2>5. Counted'
    BY <1>1, <1>2, <1>4, <1>6, <2>2 DEF Counted
  <2> QED
    BY <1>3, <2>3, <2>4, <2>5 DEF ForwardInv
<1> QED
  BY <1>5, <1>6 DEF RouteInputLoopback

LEMMA RecvKeepsInv ==
  ASSUME ForwardInv, NEW n \in Nodes, NEW o \in Nodes, NEW t \in Seconds,
         RecvMyprotocol(n, o, t)
  PROVE  ForwardInv'
<1> DEFINE known == Update(m_positionTable[n], Report(o, t))
           table == PurgeRoutes(known, now)
           waiting == {p \in m_queue : Src[p] = n /\ Dst[p] = o}
           hops == Hops(n, table, o, 0, Origin)
<1>1. /\ CopiesTyped /\ RouteTyped /\ TablesTyped /\ OthersTyped /\ Once /\ Counted
      /\ HopsBounded
  BY DEF ForwardInv
<1>2. known \in SUBSET Entry /\ table \in SUBSET Entry /\ Report(o, t) \in Entry
  BY <1>1, HandledTyped, ReportTyped DEF TablesTyped
<1>3. /\ m_queue' = m_queue \ waiting /\ now' = now /\ loopback' = loopback
      /\ received' = received
  BY DEF RecvMyprotocol
<1>4. waiting \in SUBSET m_queue /\ waiting \in SUBSET Packets
  BY <1>1 DEF OthersTyped
<1>5. \/ /\ waiting = {}
         /\ m_positionTable' = [m_positionTable EXCEPT ![n] = known]
         /\ UNCHANGED <<air, fate, route>>
      \/ /\ m_positionTable' = [m_positionTable EXCEPT ![n] = table]
         /\ Becomes(waiting, "dropped")
         /\ UNCHANGED <<air, route>>
      \/ /\ m_positionTable' = [m_positionTable EXCEPT ![n] = table]
         /\ \E h \in hops : Transmit(air, waiting, n, h, Report(o, t), 0)
         /\ UNCHANGED fate
  BY DEF RecvMyprotocol
<1>6. ASSUME NEW h \in hops PROVE h \in Hop
  <2>1. Origin \in Vector /\ now \in Seconds
    BY <1>1 DEF Origin, Vector, Axes, OthersTyped
  <2> HIDE DEF table
  <2> QED
    BY <1>2, <2>1, HopsTyped
<1> HIDE DEF known, table, waiting, hops
<1>7. TablesTyped'
  BY <1>1, <1>2, <1>5, TableReplaced
<1>8. CASE waiting = {} /\ UNCHANGED <<air, fate, route>>
  <2>1. m_queue' = m_queue
    BY <1>3, <1>8
  <2>2. OthersTyped' /\ Once'
    BY <1>1, <1>3, <1>8, <2>1 DEF OthersTyped, Once
  <2>3. CopiesTyped' /\ RouteTyped' /\ HopsBounded' /\ Counted'
    BY <1>1, <1>3, <1>8, <2>1 DEF CopiesTyped, RouteTyped, HopsBounded, Counted
  <2> QED
    BY <1>7, <2>2, <2>3 DEF ForwardInv
<1>9. CASE Becomes(waiting, "dropped") /\ UNCHANGED <<air, route>>
  <2>1. "dropped" \in Outcomes /\ "dropped" # "sent"
    BY DEF Outcomes
  <2>2. /\ fate' \in [Packets -> {"new", "sent"} \cup Outcomes]
        /\ \A q \in Packets : fate'[q] = "new" => fate[q] = "new"
        /\ OnItsWay(fate') = OnItsWay(fate) \ waiting
    BY <1>1, <1>4, <1>9, <2>1, BecomesMoves
  <2>3. OthersTyped'
    BY <1>1, <1>3, <2>2 DEF OthersTyped
  <2>4. Once'
    <3>1. Parted(OnItsWay(fate) \ waiting, PacketsOf(air), PacketsOf(loopback),
                 m_queue \ waiting)
      BY <1>1, <1>4, PartedMoves DEF Once
    <3> QED
      BY <1>1, <1>3, <1>9, <2>2, <3>1 DEF Once
  <2>5. CopiesTyped' /\ RouteTyped' /\ HopsBounded'
    BY <1>1, <1>9 DEF CopiesTyped, RouteTyped, HopsBounded
  <2>6. Counted'
    BY <1>1, <1>3, <1>9, <2>2 DEF Counted
  <2> QED
    BY <1>7, <2>3, <2>4, <2>5, <2>6 DEF ForwardInv
<1>10. ASSUME NEW h \in hops, Transmit(air, waiting, n, h, Report(o, t), 0), UNCHANGED fate
       PROVE  ForwardInv'
  <2>1. \A p \in waiting : Len(route[p]) <= 0
    BY <1>1, <1>4 DEF Counted
  <2>2. \A c \in air : c.packet \notin waiting
    BY <1>1, <1>4, PacketsOfSets DEF Once, Parted
  <2>3. 0 \in 0 .. HopLimit
    <3>1. HopLimit \in Nat
      BY ForwardingAssumption, WordsAreNaturals
    <3> QED
      BY <3>1
  <2>4. IsTransmitted(air, waiting)
    BY <1>2, <1>4, <1>6, <1>10, <2>1, <2>2, <2>3, TransmitCounts
  <2>5. OthersTyped'
    BY <1>1, <1>3, <1>10 DEF OthersTyped
  <2>6. Once'
    <3>1. Parted(OnItsWay(fate), PacketsOf(air) \cup waiting, PacketsOf(loopback),
                 m_queue \ waiting)
      BY <1>1, <1>4, PartedMoves DEF Once
    <3> QED
      BY <1>1, <1>3, <1>10, <2>4, <3>1 DEF Once, IsTransmitted
  <2>7. Counted'
    <3>1. ASSUME NEW q \in Packets,
                 fate'[q] = "new" \/ q \in PacketsOf(loopback') \/ q \in m_queue'
          PROVE  Len(route'[q]) = 0
      <4>1. q \notin waiting
        <5>1. q \in OnItsWay(fate) => fate[q] # "new"
          BY DEF OnItsWay
        <5> QED
          BY <1>1, <1>3, <1>4, <1>10, <3>1, <5>1 DEF Once, Parted
      <4>2. route'[q] = route[q]
        BY <2>4, <4>1 DEF IsTransmitted
      <4> QED
        BY <1>1, <1>3, <1>10, <3>1, <4>2 DEF Counted
    <3> QED
      BY <2>4, <3>1 DEF Counted, IsTransmitted
  <2> QED
    BY <1>7, <2>4, <2>5, <2>6, <2>7 DEF ForwardInv, IsTransmitted
<1> QED
  BY <1>5, <1>8, <1>9, <1>10

LEMMA ForwardKeepsInv ==
  ASSUME ForwardInv, NEW c \in air, Forward(c), c.to \in Nodes,
         now' = now, loopback' = loopback, m_queue' = m_queue
  PROVE  ForwardInv'
<1> DEFINE n == c.to
           d == Dst[c.packet]
           header == DataHeaderOf(c)
           carried == EntryOfData(header, d)
           table == Merge(PurgeRoutes(m_positionTable[n], now), carried)
           known == LookupRoute(table, d)
           dst == IF known.timestamp > carried.timestamp THEN known ELSE carried
           hops == Hops(n, table, d, header.inRec, header.recPos)
           ps == {c.packet}
<1>1. /\ CopiesTyped /\ RouteTyped /\ TablesTyped /\ OthersTyped /\ Once /\ Counted
      /\ HopsBounded /\ CopyTyped(c)
  BY DEF ForwardInv, CopiesTyped
<1>2. d \in Nodes /\ c.packet \in Packets
  BY <1>1, ForwardingAssumption DEF CopyTyped
<1>3. carried \in Entry
  BY <1>1, <1>2, CarriedTyped
<1>4. table \in SUBSET Entry
  <2> HIDE DEF carried
  <2>1. m_positionTable[n] \in SUBSET Entry
    BY <1>1 DEF TablesTyped
  <2>2. PurgeRoutes(m_positionTable[n], now) \in SUBSET Entry
    BY <2>1, HandledTyped
  <2> QED
    BY <1>3, <2>2, HandledTyped
<1>5. received' = received
  BY DEF Forward
<1>6. \/ /\ Becomes({c.packet}, "dropped") /\ air' = air \ {c}
         /\ \/ m_positionTable' = m_positionTable
            \/ m_positionTable' = [m_positionTable EXCEPT ![n] = table]
         /\ UNCHANGED route
      \/ /\ ~HopsSpent(header.hop)
         /\ m_positionTable' = [m_positionTable EXCEPT ![n] = table]
         /\ \E h \in hops : Transmit(air \ {c}, ps, n, h, dst, header.hop + 1)
         /\ UNCHANGED fate
  BY DEF Forward
<1>7. ASSUME NEW h \in hops PROVE h \in Hop
  <2>1. header.inRec \in {0, 1} /\ header.recPos \in Vector /\ now \in Seconds
    <3>1. header.recPos \in Vector16
      BY <1>1 DEF CopyTyped, DataHeader
    <3> QED
      BY <1>1, <3>1, VectorsOfWords DEF CopyTyped, OthersTyped
  <2> HIDE DEF table, d, header
  <2> QED
    BY <1>4, <2>1, HopsTyped
<1>8. dst \in Entry
  <2>1. HasRoute(table, d)
    <3> HIDE DEF d, header
    <3>1. carried.adress = d
      BY DEF EntryOfData
    <3> HIDE DEF carried
    <3> QED
      BY <3>1 DEF HasRoute, Merge, Update
  <2>2. known \in table
    BY <2>1 DEF HasRoute, LookupRoute
  <2> HIDE DEF known, carried, table
  <2> QED
    BY <1>3, <1>4, <2>2
<1> HIDE DEF table, carried, dst, hops, d, known
<1>9. TablesTyped'
  <2>1. m_positionTable' = m_positionTable => TablesTyped'
    BY <1>1 DEF TablesTyped
  <2>2. m_positionTable' = [m_positionTable EXCEPT ![n] = table] => TablesTyped'
    BY <1>1, <1>4, TableReplaced
  <2> QED
    BY <1>6, <2>1, <2>2
<1>10. CASE Becomes({c.packet}, "dropped") /\ air' = air \ {c} /\ UNCHANGED route
  <2>1. "dropped" \in Outcomes /\ DOMAIN received' = Packets
    BY <1>1, <1>5 DEF Outcomes, OthersTyped
  <2> QED
    BY <1>9, <1>10, <2>1, SettleKeepsInv
<1>11. ASSUME ~HopsSpent(header.hop), NEW h \in hops,
              Transmit(air \ {c}, ps, n, h, dst, header.hop + 1), UNCHANGED fate
       PROVE  ForwardInv'
  <2> DEFINE stay == air \ {c}
             hop == header.hop + 1
  <2>1. hop \in 0 .. HopLimit /\ Len(route[c.packet]) <= hop
    <3>1. HopLimit \in Nat /\ header.hop \in Nat
      <4>1. header.hop \in Word
        BY <1>1 DEF CopyTyped, DataHeader
      <4> QED
        BY <4>1, ForwardingAssumption, WordsAreNaturals
    <3>2. Len(route[c.packet]) <= header.hop + 1
      BY <1>1 DEF Counted
    <3> QED
      BY <1>11, <3>1, <3>2 DEF HopsSpent
  <2>2. /\ stay \in SUBSET air /\ ps \in SUBSET Packets
        /\ \A b \in stay : b.packet \notin ps
        /\ \A p \in ps : Len(route[p]) <= hop
    BY <1>1, <1>2, <2>1, PacketsOfSets DEF Once
  <2>3. PacketsOf(stay) = PacketsOf(air) \ ps /\ c.packet \in PacketsOf(air)
    BY <1>1, PacketsOfSets DEF Once
  <2> HIDE DEF stay, hop, ps, hops
  <2>4. IsTransmitted(stay, ps)
    BY <1>7, <1>8, <1>11, <2>1, <2>2, TransmitCounts DEF stay, hop
  <2>5. OthersTyped'
    BY <1>1, <1>5, <1>11 DEF OthersTyped
  <2>6. PacketsOf(air') = PacketsOf(air)
    BY <2>3, <2>4 DEF IsTransmitted, ps
  <2>7. Once'
    BY <1>1, <1>11, <2>4, <2>6 DEF Once, IsTransmitted
  <2>8. Counted'
    <3>1. ASSUME NEW q \in Packets,
                 fate'[q] = "new" \/ q \in PacketsOf(loopback') \/ q \in m_queue'
          PROVE  Len(route'[q]) = 0
      <4>1. q # c.packet
        <5>1. q \in OnItsWay(fate) => fate[q] # "new"
          BY DEF OnItsWay
        <5> QED
          BY <1>1, <1>11, <2>3, <3>1, <5>1 DEF Once, Parted
      <4>2. route'[q] = route[q]
        BY <2>4, <4>1 DEF IsTransmitted, ps
      <4> QED
        BY <1>1, <1>11, <3>1, <4>2 DEF Counted
    <3> QED
      BY <2>4, <3>1 DEF Counted, IsTransmitted
  <2> QED
    BY <1>9, <2>4, <2>5, <2>7, <2>8 DEF ForwardInv, IsTransmitted
<1> HIDE DEF header, ps, n
<1> QED
  BY <1>6, <1>10, <1>11

------------------------------------------------------------------------------
LEMMA InitHasInv == Init => ForwardInv
<1> SUFFICES ASSUME Init PROVE ForwardInv
  OBVIOUS
<1>1. CopiesTyped /\ RouteTyped
  <2>1. <<>> \in Seq(RouteHop)
    BY EmptySeq
  <2> QED
    BY <2>1 DEF Init, CopiesTyped, RouteTyped
<1>2. TablesTyped
  <2>1. ASSUME NEW n \in Nodes PROVE m_positionTable[n] \subseteq Entry
    <3>1. \A h \in Informed : h[2] \in Nodes /\ 0 \in Seconds
      BY ForwardingAssumption DEF Seconds
    <3>2. m_positionTable[n] =
            {BroadcastEntry} \cup {Report(h[2], 0) : h \in {h \in Informed : h[1] = n}}
      BY DEF Init
    <3> QED
      BY <3>1, <3>2, ReportTyped, BroadcastTyped
  <2> QED
    BY <2>1 DEF Init, TablesTyped
<1>3. OthersTyped
  BY ForwardingAssumption DEF Init, OthersTyped, Seconds
<1>4. Once
  BY DEF Init, Once, Single, Parted, PacketsOf, OnItsWay
<1>5. Counted /\ HopsBounded
  <2>1. \A p \in Packets : Len(route[p]) = 0
    BY EmptySeq DEF Init
  <2>2. HopLimit \in Nat
    BY ForwardingAssumption, WordsAreNaturals
  <2> QED
    BY <2>1, <2>2 DEF Init, Counted, HopsBounded
<1> QED
  BY <1>1, <1>2, <1>3, <1>4, <1>5 DEF ForwardInv

\* Whatever leaves the packets and the tables alone.
LEMMA IdleKeepsInv ==
  ASSUME ForwardInv, now' \in Seconds,
         UNCHANGED <<m_positionTable, air, loopback, m_queue, fate, received, route>>
  PROVE  ForwardInv'
<1>1. CopiesTyped' /\ RouteTyped' /\ TablesTyped' /\ OthersTyped'
  BY DEF ForwardInv, CopiesTyped, RouteTyped, TablesTyped, OthersTyped
<1>2. Once' /\ Counted' /\ HopsBounded'
  BY DEF ForwardInv, Once, Counted, HopsBounded
<1> QED
  BY <1>1, <1>2 DEF ForwardInv

LEMMA RouteInputKeepsInv ==
  ASSUME ForwardInv, NEW c \in air, RouteInput(c) \/ Lose(c)
  PROVE  ForwardInv'
<1>1. TablesTyped /\ DOMAIN received = Packets
  BY DEF ForwardInv, OthersTyped
<1>2. {"delivered", "returned", "dropped", "lost"} \subseteq Outcomes
  BY DEF Outcomes
<1>3. CASE Lose(c)
  <2>1. TablesTyped' /\ DOMAIN received' = Packets
    BY <1>1, <1>3 DEF Lose, TablesTyped
  <2> QED
    BY <1>2, <1>3, <2>1, SettleKeepsInv DEF Lose
<1>4. CASE RouteInput(c) /\ Return(c)
  <2>1. TablesTyped' /\ DOMAIN received' = Packets
    BY <1>1, <1>4 DEF Return, TablesTyped
  <2> QED
    BY <1>2, <1>4, <2>1, SettleKeepsInv DEF RouteInput, Return
<1>5. CASE RouteInput(c) /\ LocalDeliver(c)
  <2>1. TablesTyped' /\ DOMAIN received' = Packets
    BY <1>1, <1>5 DEF LocalDeliver, TablesTyped
  <2> QED
    BY <1>2, <1>5, <2>1, SettleKeepsInv DEF RouteInput, LocalDeliver
<1>6. CASE RouteInput(c) /\ Forward(c)
  BY <1>6, ForwardKeepsInv DEF RouteInput, InReach
<1> QED
  BY <1>3, <1>4, <1>5, <1>6 DEF RouteInput

\* The invariant of the data plane.
THEOREM ForwardingInvariant == Spec => []ForwardInv
<1>1. ForwardInv /\ [Next]_vars => ForwardInv'
  <2> SUFFICES ASSUME ForwardInv, [Next]_vars PROVE ForwardInv'
    OBVIOUS
  <2>1. CASE \E p \in Packets : RouteOutput(p)
    BY <2>1, RouteOutputKeepsInv
  <2>2. CASE \E l \in loopback : RouteInputLoopback(l)
    BY <2>2, LoopbackKeepsInv
  <2>3. CASE \E h \in Heard, t \in Seconds :
               now - FloodTime <= t /\ t <= now /\ RecvMyprotocol(h[1], h[2], t)
    <3>1. \A h \in Heard : h[1] \in Nodes /\ h[2] \in Nodes
      BY ForwardingAssumption
    <3> QED
      BY <2>3, <3>1, RecvKeepsInv
  <2>4. CASE \E c \in air : RouteInput(c) \/ Lose(c)
    BY <2>4, RouteInputKeepsInv
  <2>5. CASE Tick
    <3>1. now' \in Seconds
      BY <2>5, ForwardingAssumption DEF Tick, ForwardInv, OthersTyped, Seconds
    <3> QED
      BY <2>5, <3>1, IdleKeepsInv DEF Tick
  <2>6. CASE UNCHANGED vars
    <3>1. now' \in Seconds
      BY <2>6 DEF vars, ForwardInv, OthersTyped
    <3> QED
      BY <2>6, <3>1, IdleKeepsInv DEF vars
  <2> QED
    BY <2>1, <2>2, <2>3, <2>4, <2>5, <2>6 DEF Next
<1> QED
  BY <1>1, InitHasInv, PTL DEF Spec

\* Every variable of the data plane keeps its type, the headers on the wire included.
THEOREM ForwardingTypes == Spec => []TypeOK
BY ForwardingInvariant, TypesFollow, PTL

\* The count in the header stops every packet: one hop after the limit at the latest.
THEOREM RoutesAreBounded == Spec => []HopsBounded
<1>1. ForwardInv => HopsBounded
  BY DEF ForwardInv
<1> QED
  BY <1>1, ForwardingInvariant, PTL

------------------------------------------------------------------------------
(* Without the queue, no packet takes more hops than the limit.                 *)

\* The header of a copy that is new on the air is the one that was made for it.
LEMMA CopyIs ==
  ASSUME NEW stay, NEW ps, NEW n \in Nodes, NEW h \in Hop,
         NEW dst \in Entry, NEW hop \in 0 .. HopLimit,
         Transmit(stay, ps, n, h, dst, hop), NEW c \in air', c \notin stay
  PROVE  /\ c.packet \in ps /\ c.from = n
         /\ DataHeaderOf(c) = DataOf(dst, h.recPos, h.inRec, NoUid, hop)
<1> DEFINE data == DataOf(dst, h.recPos, h.inRec, NoUid, hop)
<1>1. h.recPos \in Vector /\ h.inRec \in {0, 1}
  BY DEF Hop
<1>2. data \in DataHeader
  BY <1>1, DataTyped
<1>3. PICK p \in ps :
        c = [packet |-> p, from |-> n, to |-> h.to, header |-> SerializeData(data)]
  BY DEF Transmit
<1> HIDE DEF data
<1>4. DeserializeData(SerializeData(data)) = data
  BY <1>2, DataRoundTrip
<1>5. c.packet = p /\ c.from = n /\ DataHeaderOf(c) = data
  BY <1>3, <1>4 DEF DataHeaderOf
<1> QED
  BY <1>5 DEF data

\* What RouteOutput and Forward may send.
LEMMA RouteOutputSends ==
  ASSUME ForwardInv, NEW p \in Packets, RouteOutput(p)
  PROVE  \/ UNCHANGED <<air, route>>
         \/ \E h \in Hop, dst \in Entry : Transmit(air, {p}, Src[p], h, dst, 1)
<1> DEFINE n == Src[p]
           d == Dst[p]
           table == PurgeRoutes(m_positionTable[n], now)
           hops == IF HasRoute(table, d) THEN Hops(n, table, d, 0, Origin) ELSE {}
<1>1. n \in Nodes /\ table \in SUBSET Entry
  <2>1. n \in Nodes
    BY ForwardingAssumption
  <2> QED
    BY <2>1, HandledTyped DEF ForwardInv, TablesTyped
<1>2. ASSUME NEW h \in hops, Transmit(air, {p}, n, h, LookupRoute(table, d), 1)
      PROVE  h \in Hop /\ LookupRoute(table, d) \in Entry
  <2>1. h \in Hops(n, table, d, 0, Origin) /\ HasRoute(table, d)
    BY <1>2
  <2>2. LookupRoute(table, d) \in table
    BY <2>1 DEF HasRoute, LookupRoute
  <2>3. Origin \in Vector /\ now \in Seconds
    BY DEF Origin, Vector, Axes, ForwardInv, OthersTyped
  <2> HIDE DEF n, d, table
  <2> QED
    BY <1>1, <2>1, <2>2, <2>3, HopsTyped
<1>3. \/ UNCHANGED <<air, route>>
      \/ \E h \in hops : Transmit(air, {p}, n, h, LookupRoute(table, d), 1)
  BY DEF RouteOutput
<1> HIDE DEF table, d, hops
<1> QED
  BY <1>2, <1>3

LEMMA ForwardSends ==
  ASSUME ForwardInv, NEW c \in air, Forward(c), c.to \in Nodes
  PROVE  \/ air' = air \ {c} /\ UNCHANGED route
         \/ /\ ~HopsSpent(DataHeaderOf(c).hop)
            /\ \E h \in Hop, dst \in Entry :
                 Transmit(air \ {c}, {c.packet}, c.to, h, dst, DataHeaderOf(c).hop + 1)
<1> DEFINE n == c.to
           d == Dst[c.packet]
           header == DataHeaderOf(c)
           carried == EntryOfData(header, d)
           before == PurgeRoutes(m_positionTable[n], now)
           table == Merge(before, carried)
           known == LookupRoute(table, d)
           dst == IF known.timestamp > carried.timestamp THEN known ELSE carried
           hops == Hops(n, table, d, header.inRec, header.recPos)
<1>1. CopyTyped(c) /\ d \in Nodes
  BY ForwardingAssumption DEF ForwardInv, CopiesTyped, CopyTyped
<1>2. carried \in Entry /\ carried.adress = d
  <2>1. carried \in Entry
    BY <1>1, CarriedTyped
  <2> QED
    BY <2>1 DEF EntryOfData
<1>3. header.inRec \in {0, 1} /\ header.recPos \in Vector /\ now \in Seconds
  <2>1. header.inRec \in {0, 1} /\ header.recPos \in Vector16
    BY <1>1 DEF CopyTyped, DataHeader
  <2> QED
    BY <2>1, VectorsOfWords DEF ForwardInv, OthersTyped
<1>4. \/ air' = air \ {c} /\ UNCHANGED route
      \/ /\ ~HopsSpent(header.hop)
         /\ \E h \in hops : Transmit(air \ {c}, {c.packet}, n, h, dst, header.hop + 1)
  BY DEF Forward
<1>5. before \in SUBSET Entry
  BY HandledTyped DEF ForwardInv, TablesTyped
<1>6. \A h \in hops : h \in Hops(n, table, d, header.inRec, header.recPos)
  OBVIOUS
<1> HIDE DEF d, header, carried, before, hops
<1>7. table \in SUBSET Entry /\ known \in table
  <2>1. table \in SUBSET Entry
    BY <1>2, <1>5, HandledTyped
  <2>2. HasRoute(table, d)
    BY <1>2 DEF HasRoute, Merge, Update
  <2> QED
    BY <2>1, <2>2 DEF HasRoute, LookupRoute
<1> HIDE DEF table, known
<1>8. dst \in Entry
  BY <1>2, <1>7
<1>9. \A h \in hops : h \in Hop
  BY <1>3, <1>6, <1>7, HopsTyped
<1> HIDE DEF dst, n
<1> QED
  BY <1>4, <1>8, <1>9 DEF n, header

\* A copy's hop count is the length of its packet's route at least.
Direct ==
  /\ m_queue = {}
  /\ \A c \in air : Len(route[c.packet]) <= DataHeaderOf(c).hop
  /\ TenHops

LEMMA TransmitDirect ==
  ASSUME ForwardInv, Direct, NEW stay \in SUBSET air, NEW p \in Packets, NEW n \in Nodes,
         NEW h \in Hop, NEW dst \in Entry, NEW hop \in 0 .. HopLimit,
         Transmit(stay, {p}, n, h, dst, hop),
         \A c \in stay : c.packet # p, Len(route[p]) + 1 <= hop
  PROVE  (\A c \in air' : Len(route'[c.packet]) <= DataHeaderOf(c).hop) /\ TenHops'
<1> DEFINE last == [node |-> n, inRec |-> h.inRec, recPos |-> h.recPos]
<1>1. /\ route'[p] = Append(route[p], last)
      /\ \A q \in Packets \ {p} : route'[q] = route[q]
  BY DEF Transmit
<1>2. last \in RouteHop /\ route[p] \in Seq(RouteHop)
  BY DEF RouteHop, Hop, ForwardInv, RouteTyped
<1> HIDE DEF last
<1>3. Len(route'[p]) = Len(route[p]) + 1 /\ Len(route[p]) \in Nat
  BY <1>1, <1>2, AppendProperties, LenProperties
<1>4. HopLimit \in Nat
  BY ForwardingAssumption, WordsAreNaturals
<1>5. \A c \in stay : c.packet \in Packets \ {p}
  BY DEF ForwardInv, CopiesTyped, CopyTyped
<1>6. ASSUME NEW c \in air', c \notin stay
      PROVE  Len(route'[c.packet]) <= DataHeaderOf(c).hop
  <2> DEFINE data == DataOf(dst, h.recPos, h.inRec, NoUid, hop)
  <2>1. h.recPos \in Vector /\ h.inRec \in {0, 1}
    BY DEF Hop
  <2>2. data.hop = hop
    BY <2>1, DataTyped
  <2> HIDE DEF data
  <2>3. c.packet = p /\ DataHeaderOf(c) = data
    BY <1>6, CopyIs DEF data
  <2> QED
    BY <1>3, <2>2, <2>3
<1>7. \A c \in stay : Len(route'[c.packet]) <= DataHeaderOf(c).hop
  BY <1>1, <1>5 DEF Direct
<1>8. TenHops'
  BY <1>1, <1>3, <1>4 DEF Direct, TenHops
<1> QED
  BY <1>6, <1>7, <1>8

LEMMA DirectStep ==
  ASSUME ~EnableQueue, ForwardInv, Direct, [Next]_vars
  PROVE  Direct'
<1>0. HopLimit \in Nat \ {0}
  BY ForwardingAssumption, WordsAreNaturals
<1>1. ASSUME m_queue' = m_queue, air' \subseteq air, route' = route PROVE Direct'
  BY <1>1 DEF Direct, TenHops
<1>2. ASSUME NEW p \in Packets, RouteOutput(p) PROVE Direct'
  <2>1. m_queue' = m_queue
    BY <1>2 DEF RouteOutput
  <2>2. CASE UNCHANGED <<air, route>>
    BY <1>1, <2>1, <2>2
  <2>3. ASSUME NEW h \in Hop, NEW dst \in Entry, Transmit(air, {p}, Src[p], h, dst, 1)
        PROVE  Direct'
    <3>1. Src[p] \in Nodes /\ 1 \in 0 .. HopLimit
      BY <1>0, ForwardingAssumption
    <3>2. Len(route[p]) = 0 /\ p \notin OnItsWay(fate)
      BY <1>2 DEF RouteOutput, OnItsWay, ForwardInv, Counted
    <3>3. \A c \in air : c.packet # p
      BY <3>2, PacketsOfSets DEF ForwardInv, Once, Parted
    <3>4. air \in SUBSET air /\ Len(route[p]) + 1 <= 1
      BY <3>2
    <3>5. (\A c \in air' : Len(route'[c.packet]) <= DataHeaderOf(c).hop) /\ TenHops'
      BY <2>3, <3>1, <3>3, <3>4, TransmitDirect
    <3> QED
      BY <2>1, <3>5 DEF Direct
  <2> QED
    BY <1>2, <2>2, <2>3, RouteOutputSends
<1>3. ASSUME NEW c \in air, RouteInput(c) PROVE Direct'
  <2>1. m_queue' = m_queue /\ c.to \in Nodes
    BY <1>3 DEF RouteInput, InReach
  <2>2. CASE Return(c) \/ LocalDeliver(c)
    BY <1>1, <2>1, <2>2 DEF Return, LocalDeliver
  <2>3. CASE air' = air \ {c} /\ UNCHANGED route
    BY <1>1, <2>1, <2>3
  <2>4. ASSUME ~HopsSpent(DataHeaderOf(c).hop), NEW h \in Hop, NEW dst \in Entry,
               Transmit(air \ {c}, {c.packet}, c.to, h, dst, DataHeaderOf(c).hop + 1)
        PROVE  Direct'
    <3> DEFINE hop == DataHeaderOf(c).hop + 1
               stay == air \ {c}
               p == c.packet
    <3>1. DataHeaderOf(c).hop \in Nat /\ p \in Packets
      BY WordsAreNaturals DEF ForwardInv, CopiesTyped, CopyTyped, DataHeader
    <3>2. hop \in 0 .. HopLimit
      BY <1>0, <2>4, <3>1 DEF HopsSpent
    <3>3. Len(route[p]) \in Nat
      BY <3>1, LenProperties DEF ForwardInv, RouteTyped
    <3>4. Len(route[p]) + 1 <= hop
      BY <3>1, <3>3 DEF Direct
    <3>5. stay \in SUBSET air /\ \A b \in stay : b.packet # p
      BY DEF ForwardInv, Once, Single
    <3>6. Transmit(stay, {p}, c.to, h, dst, hop)
      BY <2>4
    <3> HIDE DEF hop, stay, p
    <3>7. (\A b \in air' : Len(route'[b.packet]) <= DataHeaderOf(b).hop) /\ TenHops'
      BY <2>1, <3>1, <3>2, <3>4, <3>5, <3>6, TransmitDirect
    <3> QED
      BY <2>1, <3>7 DEF Direct
  <2>5. CASE Forward(c)
    BY <2>1, <2>3, <2>4, <2>5, ForwardSends
  <2> QED
    BY <1>3, <2>2, <2>5 DEF RouteInput
<1>4. ASSUME NEW n \in Nodes, NEW o \in Nodes, NEW t, RecvMyprotocol(n, o, t) PROVE Direct'
  <2>1. {p \in m_queue : Src[p] = n /\ Dst[p] = o} = {}
    BY DEF Direct
  <2> QED
    BY <1>1, <1>4, <2>1 DEF RecvMyprotocol
<1>5. CASE \E h \in Heard, t \in Seconds : RecvMyprotocol(h[1], h[2], t)
  <2>1. \A h \in Heard : h[1] \in Nodes /\ h[2] \in Nodes
    BY ForwardingAssumption
  <2> QED
    BY <1>4, <1>5, <2>1
<1>6. CASE \E l \in loopback : RouteInputLoopback(l)
  BY <1>1, <1>6 DEF RouteInputLoopback
<1>7. CASE \E c \in air : Lose(c)
  BY <1>1, <1>7 DEF Lose
<1>8. CASE Tick
  BY <1>1, <1>8 DEF Tick
<1>9. CASE UNCHANGED vars
  BY <1>1, <1>9 DEF vars
<1> QED
  BY <1>2, <1>3, <1>5, <1>6, <1>7, <1>8, <1>9 DEF Next

\* Where nodes do not queue, no packet takes more hops than the limit: that packets
\* released from the queue start at hop 0 is the only way to exceed it.
THEOREM TenHopsWithoutQueue ==
  ASSUME ~EnableQueue PROVE Spec => []TenHops
<1>1. Init => Direct
  <2>1. Init => \A p \in Packets : Len(route[p]) = 0
    BY DEF Init
  <2>2. HopLimit \in Nat
    BY ForwardingAssumption, WordsAreNaturals
  <2> QED
    BY <2>1, <2>2 DEF Init, Direct, TenHops
<1>2. ForwardInv /\ Direct /\ [Next]_vars => Direct'
  BY DirectStep
<1>3. Direct => TenHops
  BY DEF Direct
<1> QED
  BY <1>1, <1>2, <1>3, ForwardingInvariant, PTL DEF Spec

------------------------------------------------------------------------------
(* The data plane implements PacketCustody. *)

LEMMA OneEntryCounts ==
  ASSUME NEW S, NEW p, Single(S)
  PROVE  Cardinality({e \in S : e.packet = p}) = IF p \in PacketsOf(S) THEN 1 ELSE 0
<1>1. CASE p \in PacketsOf(S)
  <2>1. PICK e \in S : e.packet = p
    BY <1>1 DEF PacketsOf
  <2>2. {f \in S : f.packet = p} = {e}
    BY <2>1 DEF Single
  <2> QED
    BY <1>1, <2>2, FS_Singleton
<1>2. CASE p \notin PacketsOf(S)
  <2>1. {f \in S : f.packet = p} = {}
    BY <1>2 DEF PacketsOf
  <2> QED
    BY <1>2, <2>1, FS_EmptySet
<1> QED
  BY <1>1, <1>2

\* There is a copy of each packet that is on its way.
IsCopies(c, f) == c = [p \in Packets |-> IF f[p] = "sent" THEN 1 ELSE 0]

LEMMA OneCopyEach ==
  ASSUME NEW f, NEW A, NEW L, NEW q, Single(A), Single(L),
         Parted(OnItsWay(f), PacketsOf(A), PacketsOf(L), q)
  PROVE  IsCopies([p \in Packets |->
                     Cardinality({l \in L : l.packet = p})
                       + Cardinality({c \in A : c.packet = p})
                       + (IF p \in q THEN 1 ELSE 0)], f)
<1>1. ASSUME NEW p \in Packets
      PROVE  Cardinality({l \in L : l.packet = p}) + Cardinality({c \in A : c.packet = p})
                 + (IF p \in q THEN 1 ELSE 0)
               = IF f[p] = "sent" THEN 1 ELSE 0
  <2>1. /\ Cardinality({l \in L : l.packet = p}) = IF p \in PacketsOf(L) THEN 1 ELSE 0
        /\ Cardinality({c \in A : c.packet = p}) = IF p \in PacketsOf(A) THEN 1 ELSE 0
    BY OneEntryCounts
  <2>2. /\ f[p] = "sent" <=> (p \in PacketsOf(A) \/ p \in PacketsOf(L) \/ p \in q)
        /\ ~ (p \in PacketsOf(A) /\ p \in PacketsOf(L))
        /\ ~ (p \in PacketsOf(A) /\ p \in q) /\ ~ (p \in PacketsOf(L) /\ p \in q)
    BY DEF Parted, OnItsWay
  <2> QED
    BY <2>1, <2>2
<1> QED
  BY <1>1 DEF IsCopies

LEMMA CopiesHeld ==
  ASSUME ForwardInv, ForwardInv'
  PROVE  IsCopies(copies, fate) /\ IsCopies(copies', fate')
<1>1. IsCopies(copies, fate)
  BY OneCopyEach DEF ForwardInv, Once, copies
<1>2. IsCopies(copies', fate')
  BY OneCopyEach DEF ForwardInv, Once, copies
<1> QED
  BY <1>1, <1>2

\* What may become of a packet in a step.
FateMoves ==
  \A p \in Packets :
    \/ fate'[p] = fate[p]
    \/ fate[p] = "new" /\ fate'[p] = "sent"
    \/ fate[p] = "sent" /\ fate'[p] \in Outcomes

LEMMA FatesMove ==
  ASSUME ForwardInv, Next
  PROVE  FateMoves
<1>1. Once /\ CopiesTyped /\ OthersTyped
  BY DEF ForwardInv
<1>2. ASSUME NEW p \in Packets, fate[p] = "new", Becomes({p}, "sent") PROVE FateMoves
  BY <1>2 DEF FateMoves, Becomes
<1>3. ASSUME NEW ps \in SUBSET OnItsWay(fate), NEW what \in Outcomes, Becomes(ps, what)
      PROVE  FateMoves
  BY <1>3 DEF FateMoves, Becomes, OnItsWay
<1>4. \A what \in {"delivered", "returned", "dropped", "lost"} : what \in Outcomes
  BY DEF Outcomes
<1>5. /\ \A c \in air : c.packet \in OnItsWay(fate)
      /\ \A l \in loopback : l.packet \in OnItsWay(fate)
      /\ m_queue \subseteq OnItsWay(fate)
  BY <1>1, PacketsOfSets DEF Once, Parted
<1>6. ASSUME NEW p \in Packets, RouteOutput(p) PROVE FateMoves
  BY <1>2, <1>6 DEF RouteOutput
<1>7. ASSUME NEW l \in loopback, RouteInputLoopback(l) PROVE FateMoves
  <2>1. fate' = fate \/ Becomes({l.packet}, "dropped")
    BY <1>7 DEF RouteInputLoopback
  <2>2. {l.packet} \in SUBSET OnItsWay(fate)
    BY <1>5
  <2>3. fate' = fate => FateMoves
    BY DEF FateMoves
  <2> QED
    BY <1>3, <1>4, <2>1, <2>2, <2>3
<1>8. ASSUME NEW n, NEW o, NEW t, RecvMyprotocol(n, o, t) PROVE FateMoves
  <2> DEFINE waiting == {p \in m_queue : Src[p] = n /\ Dst[p] = o}
  <2>1. fate' = fate \/ Becomes(waiting, "dropped")
    BY <1>8 DEF RecvMyprotocol
  <2>2. waiting \in SUBSET OnItsWay(fate)
    BY <1>5
  <2>3. fate' = fate => FateMoves
    BY DEF FateMoves
  <2> HIDE DEF waiting
  <2> QED
    BY <1>3, <1>4, <2>1, <2>2, <2>3
<1>9. ASSUME NEW c \in air, RouteInput(c) \/ Lose(c) PROVE FateMoves
  <2>1. \/ fate' = fate
        \/ \E what \in {"delivered", "returned", "dropped", "lost"} :
             Becomes({c.packet}, what)
    BY <1>9 DEF RouteInput, Return, LocalDeliver, Forward, Lose
  <2>2. {c.packet} \in SUBSET OnItsWay(fate)
    BY <1>5
  <2>3. fate' = fate => FateMoves
    BY DEF FateMoves
  <2> QED
    BY <1>3, <1>4, <2>1, <2>2, <2>3
<1>10. Tick => FateMoves
  BY DEF Tick, FateMoves
<1> QED
  BY <1>6, <1>7, <1>8, <1>9, <1>10 DEF Next

LEMMA CustodyStep ==
  ASSUME ForwardInv, ForwardInv', Next
  PROVE  Custody!Next
<1> DEFINE taken == {p \in Packets : fate[p] = "new" /\ fate'[p] # "new"}
           done == {p \in Packets : fate[p] \notin Outcomes /\ fate'[p] \in Outcomes}
           outcome == [p \in done |-> fate'[p]]
<1>1. /\ fate \in [Packets -> {"new", "sent"} \cup Outcomes]
      /\ fate' \in [Packets -> {"new", "sent"} \cup Outcomes]
  BY DEF ForwardInv, OthersTyped
<1>2. FateMoves
  BY FatesMove
<1>3. /\ copies = [p \in Packets |-> IF fate[p] = "sent" THEN 1 ELSE 0]
      /\ copies' = [p \in Packets |-> IF fate'[p] = "sent" THEN 1 ELSE 0]
  BY CopiesHeld DEF IsCopies
<1>4. "new" \notin Outcomes /\ "sent" \notin Outcomes
  BY DEF Outcomes
<1>5. {p \in Packets : copies[p] = 1} = OnItsWay(fate)
  BY <1>3 DEF OnItsWay
<1>6. \A p \in taken : copies[p] = 0 /\ outcomes[p] = {}
  BY <1>3, <1>4 DEF outcomes
<1>7. done \subseteq OnItsWay(fate) \cup taken
  BY <1>2, <1>4 DEF FateMoves, OnItsWay
<1>8. copies' = [p \in Packets |-> IF p \in (OnItsWay(fate) \cup taken) \ done THEN 1 ELSE 0]
  <2>1. \A p \in Packets : fate'[p] = "sent" <=> p \in (OnItsWay(fate) \cup taken) \ done
    BY <1>1, <1>2, <1>4 DEF FateMoves, OnItsWay
  <2> QED
    BY <1>3, <2>1
<1>9. outcomes' = [p \in Packets |-> IF p \in done THEN {outcome[p]} ELSE outcomes[p]]
  <2>1. \A p \in Packets :
          {fate'[p]} \cap Outcomes = IF p \in done THEN {fate'[p]} ELSE {fate[p]} \cap Outcomes
    BY <1>1, <1>2, <1>4 DEF FateMoves
  <2>2. \A p \in done : outcome[p] = fate'[p]
    OBVIOUS
  <2> HIDE DEF done, outcome
  <2> QED
    BY <2>1, <2>2 DEF outcomes
<1>10. outcome \in [done -> Outcomes]
  OBVIOUS
<1>11. taken \in SUBSET Packets /\ done \in SUBSET Packets
  OBVIOUS
<1> HIDE DEF taken, done, outcome
<1>12. Custody!Step(taken, done, outcome)
  BY <1>5, <1>6, <1>7, <1>8, <1>9 DEF Custody!Step
<1> QED
  BY <1>10, <1>11, <1>12 DEF Custody!Next

\* Over many nodes, lossy channels and queues, no packet is lost track of or doubled.
THEOREM ForwardingImplementsCustody == Spec => ImplementsCustody
<1>1. Init => Custody!Init
  <2> SUFFICES ASSUME Init PROVE Custody!Init
    OBVIOUS
  <2>1. copies = [p \in Packets |-> 0]
    BY FS_EmptySet DEF Init, copies
  <2>2. outcomes = [p \in Packets |-> {}]
    BY DEF Init, outcomes, Outcomes
  <2> QED
    BY <2>1, <2>2 DEF Custody!Init
<1>2. ForwardInv /\ ForwardInv' /\ [Next]_vars => [Custody!Next]_<<copies, outcomes>>
  <2>1. UNCHANGED vars => UNCHANGED <<copies, outcomes>>
    BY DEF vars, copies, outcomes
  <2> QED
    BY <2>1, CustodyStep
<1> QED
  BY <1>1, <1>2, ForwardingInvariant, PTL DEF Spec, ImplementsCustody, Custody!Spec

------------------------------------------------------------------------------
(* A packet is handed to nobody whose entry has lived out its time. *)

\* Entries that have not, but for that of d.
Live(r) == r.timestamp + EntryLifeTime > now
LiveBut(table, d) == \A r \in table : r.adress = d \/ Live(r)

\* A copy c that is new on the air goes to nobody, to its destination or to one with
\* a live entry in the table of its sender.
LiveHop(c) ==
  c.to \notin {Garbage, Dst[c.packet]} =>
    \E r \in m_positionTable'[c.from] : r.adress = c.to /\ Live(r)

LEMMA PurgedIsLive ==
  ASSUME ForwardInv, NEW table \in SUBSET Entry, NEW r \in PurgeRoutes(table, now)
  PROVE  Live(r)
<1>1. r \in table /\ EntryLifeTime + r.timestamp > now
  BY DEF PurgeRoutes
<1>2. r.timestamp \in Nat /\ EntryLifeTime \in Nat /\ now \in Nat
  <2>1. r.timestamp \in Seconds /\ now \in Seconds
    BY <1>1 DEF Entry, ForwardInv, OthersTyped
  <2>2. Horizon \in Nat /\ EntryLifeTime \in Nat
    BY ForwardingAssumption
  <2> QED
    BY <2>1, <2>2 DEF Seconds
<1> QED
  BY <1>1, <1>2 DEF Live

LEMMA SentLive ==
  ASSUME ForwardInv, NEW stay, NEW ps, NEW n \in Nodes, NEW h, NEW dst, NEW hop,
         Transmit(stay, ps, n, h, dst, hop), NEW c \in air', c \notin stay,
         NEW d, \A p \in ps : Dst[p] = d, NEW table, LiveBut(table, d),
         h.to = Garbage \/ \E r \in table : h.to = r.adress,
         m_positionTable' = [m_positionTable EXCEPT ![n] = table]
  PROVE  LiveHop(c)
<1>1. c.packet \in ps /\ c.from = n /\ c.to = h.to
  BY DEF Transmit
<1>2. m_positionTable'[n] = table
  BY DEF ForwardInv, TablesTyped
<1> QED
  BY <1>1, <1>2 DEF LiveHop, LiveBut

LEMMA RouteOutputLive ==
  ASSUME ForwardInv, NEW p \in Packets, RouteOutput(p), NEW c \in air' \ air
  PROVE  LiveHop(c)
<1> DEFINE n == Src[p]
           d == Dst[p]
           table == PurgeRoutes(m_positionTable[n], now)
           hops == IF HasRoute(table, d) THEN Hops(n, table, d, 0, Origin) ELSE {}
           ps == {p}
<1>1. n \in Nodes /\ m_positionTable[n] \in SUBSET Entry
  <2>1. n \in Nodes
    BY ForwardingAssumption
  <2> QED
    BY <2>1 DEF ForwardInv, TablesTyped
<1>2. table \in SUBSET Entry /\ LiveBut(table, d)
  BY <1>1, HandledTyped, PurgedIsLive DEF LiveBut
<1>3. /\ m_positionTable' = [m_positionTable EXCEPT ![n] = table]
      /\ \E h \in hops : Transmit(air, ps, n, h, LookupRoute(table, d), 1)
  BY DEF RouteOutput
<1>4. \A h \in hops : h \in Hops(n, table, d, 0, Origin)
  OBVIOUS
<1>5. \A q \in ps : Dst[q] = d
  OBVIOUS
<1> HIDE DEF n, d, table, hops, ps
<1>6. PICK h \in hops : Transmit(air, ps, n, h, LookupRoute(table, d), 1)
  BY <1>3
<1>7. h.to = Garbage \/ \E r \in table : h.to = r.adress
  BY <1>4, HopsLead
<1>8. c \in air' /\ c \notin air
  OBVIOUS
<1> QED
  BY <1>1, <1>2, <1>3, <1>5, <1>6, <1>7, <1>8, SentLive

LEMMA RecvLive ==
  ASSUME ForwardInv, NEW n \in Nodes, NEW o \in Nodes, NEW t \in Seconds,
         RecvMyprotocol(n, o, t), NEW c \in air' \ air
  PROVE  LiveHop(c)
<1> DEFINE known == Update(m_positionTable[n], Report(o, t))
           table == PurgeRoutes(known, now)
           waiting == {p \in m_queue : Src[p] = n /\ Dst[p] = o}
           hops == Hops(n, table, o, 0, Origin)
<1>1. known \in SUBSET Entry
  BY ReportTyped, HandledTyped DEF ForwardInv, TablesTyped
<1>2. table \in SUBSET Entry /\ LiveBut(table, o)
  <2> HIDE DEF known
  <2> QED
    BY <1>1, HandledTyped, PurgedIsLive DEF LiveBut
<1>3. PICK h \in hops :
        /\ m_positionTable' = [m_positionTable EXCEPT ![n] = table]
        /\ Transmit(air, waiting, n, h, Report(o, t), 0)
  BY DEF RecvMyprotocol
<1>4. \A p \in waiting : Dst[p] = o
  OBVIOUS
<1>5. h \in Hops(n, table, o, 0, Origin)
  OBVIOUS
<1> HIDE DEF table, waiting, hops
<1>6. h.to = Garbage \/ \E r \in table : h.to = r.adress
  BY <1>5, HopsLead
<1>7. c \in air' /\ c \notin air
  OBVIOUS
<1> QED
  BY <1>2, <1>3, <1>4, <1>6, <1>7, SentLive

LEMMA ForwardLive ==
  ASSUME ForwardInv, NEW b \in air, b.to \in Nodes, Forward(b), NEW c \in air' \ air
  PROVE  LiveHop(c)
<1> DEFINE n == b.to
           d == Dst[b.packet]
           header == DataHeaderOf(b)
           carried == EntryOfData(header, d)
           before == PurgeRoutes(m_positionTable[n], now)
           table == Merge(before, carried)
           known == LookupRoute(table, d)
           dst == IF known.timestamp > carried.timestamp THEN known ELSE carried
           hops == Hops(n, table, d, header.inRec, header.recPos)
           ps == {b.packet}
<1>1. CopyTyped(b) /\ d \in Nodes
  BY ForwardingAssumption DEF ForwardInv, CopiesTyped, CopyTyped
<1>2. carried \in Entry /\ carried.adress = d
  <2>1. carried \in Entry
    BY <1>1, CarriedTyped
  <2> QED
    BY <2>1 DEF EntryOfData
<1>3. PICK h \in hops :
        /\ m_positionTable' = [m_positionTable EXCEPT ![n] = table]
        /\ Transmit(air \ {b}, ps, n, h, dst, header.hop + 1)
  BY DEF Forward
<1>4. before \in SUBSET Entry /\ \A r \in before : Live(r)
  BY HandledTyped, PurgedIsLive DEF ForwardInv, TablesTyped
<1>5. h \in Hops(n, table, d, header.inRec, header.recPos)
  OBVIOUS
<1>6. \A q \in ps : Dst[q] = d
  OBVIOUS
<1> HIDE DEF d, header, carried, before, hops, dst, ps
<1>7. table \in SUBSET Entry /\ LiveBut(table, d)
  <2>1. table \in SUBSET Entry
    BY <1>2, <1>4, HandledTyped
  <2>2. table = before \/ table = Update(before, carried)
    BY DEF Merge
  <2> QED
    BY <1>2, <1>4, <2>1, <2>2 DEF Update, LiveBut
<1> HIDE DEF table, n
<1>8. n \in Nodes
  BY DEF n
<1>9. h.to = Garbage \/ \E r \in table : h.to = r.adress
  BY <1>5, HopsLead
<1>10. c \in air' /\ c \notin air \ {b}
  OBVIOUS
<1> QED
  BY <1>3, <1>6, <1>7, <1>8, <1>9, <1>10, SentLive

\* A packet is handed to nobody whose entry has expired but to its destination, in
\* every network and however nodes move.
THEOREM HopsAreLive == Spec => NextHopIsLive
<1>1. ForwardInv /\ [Next]_vars =>
        [\A c \in air' \ air : c.to \notin {Garbage, Dst[c.packet]} =>
           \E r \in m_positionTable'[c.from] :
             r.adress = c.to /\ r.timestamp + EntryLifeTime > now]_vars
  <2> SUFFICES ASSUME ForwardInv, Next PROVE \A c \in air' \ air : LiveHop(c)
    BY DEF LiveHop, Live
  <2> TAKE c \in air' \ air
  <2>1. CASE \E p \in Packets : RouteOutput(p)
    BY <2>1, RouteOutputLive
  <2>2. CASE \E h \in Heard, t \in Seconds :
               now - FloodTime <= t /\ t <= now /\ RecvMyprotocol(h[1], h[2], t)
    <3>1. \A h \in Heard : h[1] \in Nodes /\ h[2] \in Nodes
      BY ForwardingAssumption
    <3> QED
      BY <2>2, <3>1, RecvLive
  <2>3. ASSUME NEW b \in air, RouteInput(b) PROVE LiveHop(c)
    <3>1. CASE Return(b) \/ LocalDeliver(b)
      BY <3>1 DEF Return, LocalDeliver
    <3>2. CASE Forward(b)
      BY <2>3, <3>2, ForwardLive DEF RouteInput, InReach
    <3> QED
      BY <2>3, <3>1, <3>2 DEF RouteInput
  <2>4. CASE \E b \in air : Lose(b)
    BY <2>4 DEF Lose
  <2>5. CASE Tick \/ \E l \in loopback : RouteInputLoopback(l)
    BY <2>5 DEF Tick, RouteInputLoopback
  <2> QED
    BY <2>1, <2>2, <2>3, <2>4, <2>5 DEF Next
<1> QED
  BY <1>1, ForwardingInvariant, PTL DEF Spec, NextHopIsLive

------------------------------------------------------------------------------
(* Positions in data packets only get newer. *)

\* Time stays within 16 bits.
BeforeWrap == Horizon < 65536

\* Until they wrap, timestamps are what headers say.
LEMMA SecondsFit ==
  ASSUME BeforeWrap
  PROVE  \A t \in Seconds : Uint16(t) = t /\ t \in Nat
<1> TAKE t \in Seconds
<1>1. Horizon \in Nat
  BY ForwardingAssumption
<1>2. t \in Nat /\ t < 65536
  BY <1>1, SMT DEF Seconds, BeforeWrap
<1>3. t \in Word
  BY <1>2, WidthsTyped, SMT
<1> QED
  BY <1>2, <1>3, WidthsTyped, SMT

\* What a copy that is new on the air says of its destination.
LEMMA CopySays ==
  ASSUME BeforeWrap, NEW stay, NEW ps, NEW n \in Nodes, NEW h \in Hop,
         NEW dst \in Entry, NEW hop \in 0 .. HopLimit,
         Transmit(stay, ps, n, h, dst, hop), NEW c \in air', c \notin stay
  PROVE  c.packet \in ps /\ c.from = n /\ DataHeaderOf(c).dstTimestamp = dst.timestamp
<1> DEFINE data == DataOf(dst, h.recPos, h.inRec, NoUid, hop)
<1>1. data.dstTimestamp = Uint16(dst.timestamp)
  BY DEF DataOf
<1>2. dst.timestamp \in Seconds
  BY DEF Entry
<1>3. c.packet \in ps /\ c.from = n /\ DataHeaderOf(c) = data
  BY CopyIs
<1> QED
  BY <1>1, <1>2, <1>3, SecondsFit

\* A copy c that is new on the air carries a position that is no older than the one
\* its packet came with, and that is in the table of its sender.
Fresh(c) ==
  /\ \A b \in air : b.packet = c.packet =>
       DataHeaderOf(b).dstTimestamp <= DataHeaderOf(c).dstTimestamp
  /\ \E r \in m_positionTable'[c.from] :
       r.adress = Dst[c.packet] /\ r.timestamp = DataHeaderOf(c).dstTimestamp

\* n holds the position dst of the destination of p, and p came with none newer.
Latest(n, p, dst) ==
  /\ \A b \in air : b.packet = p => DataHeaderOf(b).dstTimestamp <= dst.timestamp
  /\ \E r \in m_positionTable'[n] : r.adress = Dst[p] /\ r.timestamp = dst.timestamp

LEMMA SentFresh ==
  ASSUME BeforeWrap, NEW stay, NEW ps, NEW n \in Nodes, NEW h \in Hop,
         NEW dst \in Entry, NEW hop \in 0 .. HopLimit,
         Transmit(stay, ps, n, h, dst, hop), NEW c \in air', c \notin stay,
         \A p \in ps : Latest(n, p, dst)
  PROVE  Fresh(c)
<1>1. c.packet \in ps /\ c.from = n /\ DataHeaderOf(c).dstTimestamp = dst.timestamp
  BY CopySays
<1>2. Latest(n, c.packet, dst)
  BY <1>1
<1> QED
  BY <1>1, <1>2 DEF Latest, Fresh

\* Whoever holds an entry of the destination, as new as what p came with.
LEMMA HoldsLatest ==
  ASSUME ForwardInv, NEW n \in Nodes, NEW table, NEW r \in table, NEW p, NEW dst,
         m_positionTable' = [m_positionTable EXCEPT ![n] = table],
         r.adress = Dst[p], r.timestamp = dst.timestamp,
         \A b \in air : b.packet = p => DataHeaderOf(b).dstTimestamp <= dst.timestamp
  PROVE  Latest(n, p, dst)
<1>1. m_positionTable'[n] = table
  BY DEF ForwardInv, TablesTyped
<1> QED
  BY <1>1 DEF Latest

LEMMA RouteOutputFresh ==
  ASSUME BeforeWrap, ForwardInv, NEW p \in Packets, RouteOutput(p),
         NEW c \in air' \ air
  PROVE  Fresh(c)
<1> DEFINE n == Src[p]
           d == Dst[p]
           table == PurgeRoutes(m_positionTable[n], now)
           hops == IF HasRoute(table, d) THEN Hops(n, table, d, 0, Origin) ELSE {}
           ps == {p}
<1>1. n \in Nodes /\ table \in SUBSET Entry
  <2>1. n \in Nodes
    BY ForwardingAssumption
  <2> QED
    BY <2>1, HandledTyped DEF ForwardInv, TablesTyped
<1>2. m_positionTable' = [m_positionTable EXCEPT ![n] = table]
  BY DEF RouteOutput
<1>3. PICK h \in hops : Transmit(air, ps, n, h, LookupRoute(table, d), 1)
  BY DEF RouteOutput
<1>4. h \in Hops(n, table, d, 0, Origin) /\ HasRoute(table, d)
  BY <1>3
<1>5. LookupRoute(table, d) \in table /\ LookupRoute(table, d).adress = d
  BY <1>4 DEF HasRoute, LookupRoute
<1>6. \A b \in air : b.packet \notin ps
  <2>1. p \notin OnItsWay(fate)
    BY DEF RouteOutput, OnItsWay
  <2> QED
    BY <2>1, PacketsOfSets DEF ForwardInv, Once, Parted
<1>7. ps \in SUBSET Packets /\ \A q \in ps : Dst[q] = d
  OBVIOUS
<1>8. Origin \in Vector /\ 1 \in 0 .. HopLimit
  <2>1. HopLimit \in Nat \ {0}
    BY ForwardingAssumption, WordsAreNaturals
  <2> QED
    BY <2>1 DEF Origin, Vector, Axes
<1>9. \A q \in ps : q = p
  OBVIOUS
<1> HIDE DEF n, table, hops, ps
<1>10. h \in Hop
  <2>1. now \in Seconds
    BY DEF ForwardInv, OthersTyped
  <2> HIDE DEF d
  <2> QED
    BY <1>1, <1>4, <1>8, <2>1, HopsTyped
<1>11. Latest(n, p, LookupRoute(table, d))
  <2>1. \A b \in air : b.packet # p
    BY <1>6 DEF ps
  <2> DEFINE r == LookupRoute(table, d)
  <2>2. r \in table /\ r.adress = Dst[p]
    BY <1>5
  <2> HIDE DEF r
  <2>3. Latest(n, p, r)
    BY <1>1, <1>2, <2>1, <2>2, HoldsLatest
  <2> QED
    BY <2>3 DEF r
<1>12. LookupRoute(table, d) \in Entry
  BY <1>1, <1>5
<1> HIDE DEF d
<1>13. c \notin air /\ c \in air'
  OBVIOUS
<1> QED
  BY <1>1, <1>3, <1>8, <1>9, <1>10, <1>11, <1>12, <1>13, SentFresh

LEMMA RecvFresh ==
  ASSUME BeforeWrap, ForwardInv, NEW n \in Nodes, NEW o \in Nodes, NEW t \in Seconds,
         now - FloodTime <= t, RecvMyprotocol(n, o, t), NEW c \in air' \ air
  PROVE  Fresh(c)
<1> DEFINE known == Update(m_positionTable[n], Report(o, t))
           table == PurgeRoutes(known, now)
           waiting == {p \in m_queue : Src[p] = n /\ Dst[p] = o}
           hops == Hops(n, table, o, 0, Origin)
<1>1. Report(o, t) \in Entry /\ Report(o, t).adress = o /\ Report(o, t).timestamp = t
  <2>1. Report(o, t).timestamp = Uint16(t)
    BY DEF Report, EntryOfReport, ReportOf
  <2>2. Uint16(t) = t
    BY SecondsFit
  <2> QED
    BY <2>1, <2>2, ReportTyped
<1>2. known \in SUBSET Entry /\ table \in SUBSET Entry
  BY <1>1, HandledTyped DEF ForwardInv, TablesTyped
<1>3. Report(o, t) \in table
  <2>1. EntryLifeTime + t > now
    <3>1. now \in Seconds
      BY DEF ForwardInv, OthersTyped
    <3>2. t \in Nat /\ now \in Nat
      BY <3>1, SecondsFit
    <3>3. FloodTime \in Nat /\ EntryLifeTime \in Nat /\ FloodTime < EntryLifeTime
      BY ForwardingAssumption
    <3> QED
      BY <3>2, <3>3
  <2> QED
    BY <1>1, <2>1 DEF PurgeRoutes, Update
<1>4. PICK h \in hops :
        /\ m_positionTable' = [m_positionTable EXCEPT ![n] = table]
        /\ Transmit(air, waiting, n, h, Report(o, t), 0)
  BY DEF RecvMyprotocol
<1>5. \A b \in air : b.packet \notin waiting
  BY PacketsOfSets DEF ForwardInv, Once, Parted
<1>6. waiting \in SUBSET Packets /\ \A p \in waiting : Dst[p] = o
  BY DEF ForwardInv, OthersTyped
<1>7. Origin \in Vector /\ 0 \in 0 .. HopLimit
  <2>1. HopLimit \in Nat
    BY ForwardingAssumption, WordsAreNaturals
  <2> QED
    BY <2>1 DEF Origin, Vector, Axes
<1>8. h \in Hops(n, table, o, 0, Origin)
  BY <1>4
<1> HIDE DEF known, table, waiting, hops
<1>9. h \in Hop
  <2>1. now \in Seconds
    BY DEF ForwardInv, OthersTyped
  <2> QED
    BY <1>2, <1>7, <1>8, <2>1, HopsTyped
<1>10. ASSUME NEW p \in waiting PROVE Latest(n, p, Report(o, t))
  <2>1. \A b \in air : b.packet # p
    BY <1>5
  <2>2. Dst[p] = o
    BY <1>6
  <2> QED
    BY <1>1, <1>3, <1>4, <2>1, <2>2, HoldsLatest
<1>11. c \notin air /\ c \in air'
  OBVIOUS
<1> QED
  BY <1>1, <1>4, <1>7, <1>9, <1>10, <1>11, SentFresh

LEMMA ForwardFresh ==
  ASSUME BeforeWrap, ForwardInv, NEW b \in air, b.to \in Nodes, Forward(b),
         NEW c \in air' \ air
  PROVE  Fresh(c)
<1> DEFINE n == b.to
           d == Dst[b.packet]
           header == DataHeaderOf(b)
           carried == EntryOfData(header, d)
           before == PurgeRoutes(m_positionTable[n], now)
           table == Merge(before, carried)
           known == LookupRoute(table, d)
           dst == IF known.timestamp > carried.timestamp THEN known ELSE carried
           hops == Hops(n, table, d, header.inRec, header.recPos)
           ps == {b.packet}
<1>1. CopyTyped(b) /\ b.packet \in Packets /\ d \in Nodes
  BY ForwardingAssumption DEF ForwardInv, CopiesTyped, CopyTyped
<1>2. carried \in Entry /\ carried.adress = d /\ carried.timestamp = header.dstTimestamp
  <2>1. carried \in Entry
    BY <1>1, CarriedTyped
  <2> QED
    BY <2>1 DEF EntryOfData
<1>3. /\ header.hop \in Nat /\ HopLimit \in Nat
      /\ header.inRec \in {0, 1} /\ header.recPos \in Vector
  <2>1. /\ header.hop \in Word /\ header.inRec \in {0, 1} /\ header.recPos \in Vector16
    BY <1>1 DEF CopyTyped, DataHeader
  <2> QED
    BY <2>1, ForwardingAssumption, WordsAreNaturals, VectorsOfWords
<1>4. PICK h \in hops :
        /\ ~HopsSpent(header.hop)
        /\ m_positionTable' = [m_positionTable EXCEPT ![n] = table]
        /\ Transmit(air \ {b}, ps, n, h, dst, header.hop + 1)
  BY DEF Forward
<1>5. before \in SUBSET Entry
  BY HandledTyped DEF ForwardInv, TablesTyped
<1>6. header.hop + 1 \in 0 .. HopLimit
  BY <1>3, <1>4 DEF HopsSpent
<1>7. \A a \in air : a.packet \in ps => a = b
  BY DEF ForwardInv, Once, Single
<1>8. ps \in SUBSET Packets /\ \A q \in ps : Dst[q] = d
  BY <1>1
<1>9. h \in Hops(n, table, d, header.inRec, header.recPos)
  BY <1>4
<1> HIDE DEF d, header, carried, before, ps, hops
<1>10. table \in SUBSET Entry /\ known \in table /\ known.adress = d
  <2>1. table \in SUBSET Entry
    BY <1>2, <1>5, HandledTyped
  <2>2. HasRoute(table, d)
    BY <1>2 DEF HasRoute, Merge, Update
  <2> QED
    BY <2>1, <2>2 DEF HasRoute, LookupRoute
<1>11. /\ known.timestamp \in Nat /\ carried.timestamp \in Nat
       /\ known.timestamp >= carried.timestamp \/ carried \in table
  <2>1. known.timestamp \in Seconds /\ carried.timestamp \in Seconds
    BY <1>2, <1>10 DEF Entry
  <2>2. table = before \/ table = Update(before, carried)
    BY DEF Merge
  <2>3. table = Update(before, carried) => carried \in table
    BY DEF Update
  <2>4. CASE HasRoute(before, d) /\ LookupRoute(before, d).timestamp >= carried.timestamp
    <3>1. table = before
      BY <1>2, <2>4 DEF Merge
    <3> QED
      BY <2>1, <2>4, <3>1, SecondsFit
  <2>5. CASE ~(HasRoute(before, d) /\ LookupRoute(before, d).timestamp >= carried.timestamp)
    <3>1. table = Update(before, carried)
      BY <1>2, <2>5 DEF Merge
    <3> HIDE DEF table, known
    <3> QED
      BY <2>1, <2>3, <3>1, SecondsFit
  <2> QED
    BY <2>4, <2>5
<1> HIDE DEF known, table
<1>12. /\ dst \in Entry /\ header.dstTimestamp <= dst.timestamp
       /\ \E r \in table : r.adress = d /\ r.timestamp = dst.timestamp
  <2>1. CASE known.timestamp > carried.timestamp
    BY <1>2, <1>10, <1>11, <2>1
  <2>2. CASE ~(known.timestamp > carried.timestamp)
    <3>1. dst = carried
      BY <2>2
    <3>2. known.timestamp = carried.timestamp \/ carried \in table
      BY <1>11, <2>2
    <3> QED
      BY <1>2, <1>10, <1>11, <3>1, <3>2
  <2> QED
    BY <2>1, <2>2
<1> HIDE DEF dst
<1>13. PICK r \in table : r.adress = d /\ r.timestamp = dst.timestamp
  BY <1>12
<1>14. \A a \in air : a.packet \in ps => DataHeaderOf(a).dstTimestamp <= dst.timestamp
  BY <1>7, <1>12 DEF header
<1>15. c \notin air \ {b}
  OBVIOUS
<1> HIDE DEF n
<1>16. n \in Nodes
  BY DEF n
<1>17. h \in Hop
  <2>1. now \in Seconds
    BY DEF ForwardInv, OthersTyped
  <2> QED
    BY <1>3, <1>9, <1>10, <1>16, <2>1, HopsTyped
<1>18. ASSUME NEW p \in ps PROVE Latest(n, p, dst)
  <2>1. \A a \in air : a.packet = p => DataHeaderOf(a).dstTimestamp <= dst.timestamp
    BY <1>14, <1>18
  <2>2. Dst[p] = d
    BY <1>8
  <2> QED
    BY <1>4, <1>13, <1>16, <2>1, <2>2, HoldsLatest
<1> QED
  BY <1>4, <1>6, <1>12, <1>15, <1>16, <1>17, <1>18, SentFresh

\* Until timestamps wrap, no packet ever carries an older position of its destination
\* than it did before, nor one that its forwarder does not hold.
THEOREM PositionsFreshen ==
  ASSUME BeforeWrap
  PROVE  Spec => PositionFreshens
<1>1. ForwardInv /\ [Next]_vars =>
        [\A c \in air' \ air :
           LET timestamp == DataHeaderOf(c).dstTimestamp IN
           /\ \A b \in air : b.packet = c.packet => DataHeaderOf(b).dstTimestamp <= timestamp
           /\ \E r \in m_positionTable'[c.from] :
                r.adress = Dst[c.packet] /\ r.timestamp = timestamp]_vars
  <2> SUFFICES ASSUME ForwardInv, Next PROVE \A c \in air' \ air : Fresh(c)
    BY DEF Fresh
  <2> TAKE c \in air' \ air
  <2>1. CASE \E p \in Packets : RouteOutput(p)
    BY <2>1, RouteOutputFresh
  <2>2. CASE \E h \in Heard, t \in Seconds :
               now - FloodTime <= t /\ t <= now /\ RecvMyprotocol(h[1], h[2], t)
    <3>1. \A h \in Heard : h[1] \in Nodes /\ h[2] \in Nodes
      BY ForwardingAssumption
    <3> QED
      BY <2>2, <3>1, RecvFresh
  <2>3. ASSUME NEW b \in air, RouteInput(b) PROVE Fresh(c)
    <3>1. CASE Return(b) \/ LocalDeliver(b)
      BY <3>1 DEF Return, LocalDeliver
    <3>2. CASE Forward(b)
      BY <2>3, <3>2, ForwardFresh DEF RouteInput, InReach
    <3> QED
      BY <2>3, <3>1, <3>2 DEF RouteInput
  <2>4. CASE \E b \in air : Lose(b)
    BY <2>4 DEF Lose
  <2>5. CASE Tick \/ \E l \in loopback : RouteInputLoopback(l)
    BY <2>5 DEF Tick, RouteInputLoopback
  <2> QED
    BY <2>1, <2>2, <2>3, <2>4, <2>5 DEF Next
<1> QED
  BY <1>1, ForwardingInvariant, PTL DEF Spec, PositionFreshens
==============================================================================
