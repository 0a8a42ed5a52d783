----------------------------- MODULE Forwarding ------------------------------
(***************************************************************************)
(* The data plane of model/myprotocol4-routing-protocol.cc: a packet goes  *)
(* from node to node, each hop chosen by the positions the forwarder       *)
(* believes in, greedily towards the destination or, where no neighbour is *)
(* closer, in recovery mode.                                               *)
(*                                                                         *)
(* How positions spread is PositionSharing's matter: a table entry only    *)
(* moves forward through the reports of its node.  Where nodes really are  *)
(* is a given trajectory, one point per second, in 1/Unit of a metre; what *)
(* is said of it in reports and headers is in whole metres.  The queue is  *)
(* kept to what a packet's header goes through there; its order, limit and *)
(* timeout are DeferredOutput's.  The entry of a node for itself, which    *)
(* LookupNeighbor always skips, is left out.                               *)
(***************************************************************************)
EXTENDS RoutingTable, Headers, FiniteSets

CONSTANTS
  Nodes,               \* addresses, in the order of std::map<Ipv4Address, ..>
  Place,               \* Place[n][t]: where n is at second t
  Velocity,            \* Velocity[n][t]: its velocity at second t, per second
  Unit,                \* units of length in a metre
  Range2,              \* the square of TransmissionRange (250 m)
  Packets, Src, Dst,   \* the application's packets, who sends them and to whom
  HopLimit,            \* 10
  EnableQueue,         \* the attributes of the same names
  EnableRecoveryMode,
  Garbage,             \* what dereferencing end() yields: no node's address
  FloodTime,           \* bound on the age of a report that arrives, in seconds
  Heard,               \* the pairs <<n, o>> of a node and another whose reports it gets
  Informed,            \* the pairs <<n, o>> where n has heard of o at second 0
  Broadcast,           \* the broadcast address of the subnet
  Skipped,             \* the literals of LookupNeighbor (127.0.0.1, 10.1.1.255, ..)
  Lossy,               \* whether the channel may lose copies within reach
  Horizon              \* bound on the seconds modelled

Seconds == 0 .. Horizon

ASSUME ForwardingAssumption ==
  /\ Nodes \subseteq Nat /\ Broadcast \in Nat \ Nodes
  /\ Garbage \notin Nodes \cup {Broadcast} /\ Skipped \cap Nodes = {}
  /\ \A n \in Nodes, t \in Seconds, a \in Axes :
       Place[n][t][a] \in 0 .. Unit * Area[a] /\ Velocity[n][t][a] \in Int
  /\ Src \in [Packets -> Nodes] /\ Dst \in [Packets -> Nodes]
  /\ \A p \in Packets : Src[p] # Dst[p]
  /\ Unit \in Nat \ {0} /\ Range2 \in Nat /\ HopLimit \in Word \ {0} /\ Horizon \in Nat
  /\ FloodTime \in Nat /\ EntryLifeTime \in Nat /\ FloodTime < EntryLifeTime
  /\ Heard \cup Informed \subseteq {h \in Nodes \X Nodes : h[1] # h[2]}
  /\ {EnableQueue, EnableRecoveryMode, Lossy} \subseteq BOOLEAN

VARIABLES
  now,              \* Simulator::Now, in seconds
  m_positionTable,  \* per node
  air,              \* copies of data packets between two nodes, with their DataHeader
  loopback,         \* packets in the loopback device of their source, with their tag
  m_queue,          \* packets waiting at their source
  fate,             \* what has become of each packet
  received,         \* history: the bytes passed up to UDP at the destination
  route             \* history: the hops of each packet

vars == <<now, m_positionTable, air, loopback, m_queue, fate, received, route>>

------------------------------------------------------------------------------
Here(n) == Place[n][now]

\* A vector in whole metres, to be compared with one that is exact; and back.
Scaled(v) == [a \in Axes |-> Unit * v[a]]
Metres(v) == [a \in Axes |-> Truncated(v[a], Unit)]

\* The entry RecvMyprotocol makes of what o reported of itself at second t.
Report(o, t) ==
  EntryOfReport(ReportOf(Metres(Place[o][t]), Metres(Velocity[o][t]), t, NoUid, o))

\* The entry NotifyInterfaceUp makes for the broadcast address.
BroadcastEntry == [adress |-> Broadcast, timestamp |-> 0, pos |-> Origin, vel |-> Origin]

Predicted(r) == Scaled(PredictPosition(r, now))

\* LookupNeighbor: the entries whose predicted position is in range.
LookupNeighbor(table, here) ==
  {r \in table : r.adress \notin Skipped /\ Distance2(Predicted(r), here) <= Range2}

\* Mutants, used by no specification: the nearest neighbour even if no nearer
\* than the forwarder; a hop limit one too high; recovery mode left anywhere.
Away(r, target) == Distance2(Predicted(r), target)
BestOfAll(neighbors, target, here) ==
  {r.adress : r \in {r \in neighbors : \A q \in neighbors :
      Away(r, target) < Away(q, target)
        \/ (Away(r, target) = Away(q, target) /\ r.adress <= q.adress)}}
HopsSpentLate(hop) == hop > HopLimit
LeavesAnywhere(here, recPos, target) == TRUE

\* BestNeighbor: the first, in address order, of the neighbours nearest to the
\* target, if it is nearer than the forwarder; else nothing.
BestNeighbor(neighbors, target, here) ==
  LET away(r) == Distance2(Predicted(r), target) IN
  {r.adress : r \in {r \in neighbors :
     /\ away(r) < Distance2(here, target)
     /\ \A q \in neighbors :
          away(r) < away(q) \/ (away(r) = away(q) /\ r.adress <= q.adress)}}

\* RecoveryMode: GetInteger (0, size) counts its upper bound in, and the iterator
\* then is end ().
RecoveryMode(neighbors) == {r.adress : r \in neighbors} \cup {Garbage}

\* A node nearer than where recovery began ends recovery.
LeavesRecovery(here, recPos, target) == Distance2(here, target) < Distance2(recPos, target)

HopsSpent(hop) == hop >= HopLimit

\* The choice of RouteOutput, Forwarding and RecvMyprotocol between greedy mode,
\* recovery mode and giving up: the hops that n may take with a packet to d whose
\* header says inRec and recPos.  None: no way on.
Hops(n, table, d, inRec, recPos) ==
  LET target == Predicted(LookupRoute(table, d))
      neighbors == LookupNeighbor(table, Here(n))
      greedy == inRec = 0 \/ LeavesRecovery(Here(n), Scaled(recPos), target)
      best == IF greedy THEN BestNeighbor(neighbors, target, Here(n)) ELSE {}
      others == IF EnableRecoveryMode /\ best = {} /\ neighbors # {}
                  THEN RecoveryMode(neighbors) ELSE {}
  IN {[to |-> m, inRec |-> 0, recPos |-> Origin] : m \in best} \cup
     {[to |-> m, inRec |-> 1, recPos |-> IF greedy THEN Metres(Here(n)) ELSE recPos] :
        m \in others}

\* Mutant, used by no specification: the callback is not called.
TransmitNothing(stay, ps, n, h, dst, hop) == air' = stay /\ UNCHANGED route

\* The unicast callback: beside the copies that stay on the air, packets ps leave n
\* by hop h with the destination's position dst and a hop count.  (Of the header's
\* other fields, nobody reads the uid, and the error is only printed.)
Transmit(stay, ps, n, h, dst, hop) ==
  /\ air' = stay \cup
       {[packet |-> p, from |-> n, to |-> h.to,
         header |-> SerializeData(DataOf(dst, h.recPos, h.inRec, NoUid, hop))] : p \in ps}
  /\ route' = [p \in Packets |->
       IF p \in ps THEN Append(route[p], [node |-> n, inRec |-> h.inRec, recPos |-> h.recPos])
                   ELSE route[p]]

DataHeaderOf(c) == DeserializeData(c.header)

Becomes(ps, what) == fate' = [p \in Packets |-> IF p \in ps THEN what ELSE fate[p]]

------------------------------------------------------------------------------
\* RouteOutput of packet p at its source.
RouteOutput(p) ==
  LET n == Src[p]
      d == Dst[p]
      table == PurgeRoutes(m_positionTable[n], now)
      hops == IF HasRoute(table, d) THEN Hops(n, table, d, 0, Origin) ELSE {}
  IN
  /\ fate[p] = "new"
  /\ Becomes({p}, "sent")
  /\ m_positionTable' = [m_positionTable EXCEPT ![n] = table]
  /\ \/ /\ hops = {}
        /\ loopback' = loopback \cup
             {[packet |-> p, tag |-> IF HasRoute(table, d) THEN 0 ELSE 1]}
        /\ UNCHANGED <<air, route>>
     \/ /\ \E h \in hops : Transmit(air, {p}, n, h, LookupRoute(table, d), 1)
        /\ UNCHANGED loopback
  /\ UNCHANGED <<now, m_queue, received>>

\* RouteInput of a packet out of the loopback device.
RouteInputLoopback(l) ==
  /\ loopback' = loopback \ {l}
  /\ \/ /\ EnableQueue /\ l.tag = 1
        /\ m_queue' = m_queue \cup {l.packet}
        /\ UNCHANGED fate
     \/ /\ ~(EnableQueue /\ l.tag = 1)
        /\ Becomes({l.packet}, "dropped")
        /\ UNCHANGED m_queue
  /\ UNCHANGED <<now, m_positionTable, air, received, route>>

\* RecvMyprotocol of a report of o that n has not seen: all the packets that wait
\* for o leave by one hop, with a new header whose hop count nobody sets, or all
\* are dropped.
RecvMyprotocol(n, o, t) ==
  LET known == Update(m_positionTable[n], Report(o, t))
      table == PurgeRoutes(known, now)
      waiting == {p \in m_queue : Src[p] = n /\ Dst[p] = o}
      hops == Hops(n, table, o, 0, Origin)
  IN
  /\ \A r \in m_positionTable[n] : r.adress = o => r.timestamp < t
  /\ m_queue' = m_queue \ waiting
  /\ \/ /\ waiting = {}
        /\ m_positionTable' = [m_positionTable EXCEPT ![n] = known]
        /\ UNCHANGED <<air, fate, route>>
     \/ /\ waiting # {} /\ hops = {}
        /\ m_positionTable' = [m_positionTable EXCEPT ![n] = table]
        /\ Becomes(waiting, "dropped")
        /\ UNCHANGED <<air, route>>
     \/ /\ waiting # {}
        /\ m_positionTable' = [m_positionTable EXCEPT ![n] = table]
        /\ \E h \in hops : Transmit(air, waiting, n, h, Report(o, t), 0)
        /\ UNCHANGED fate
  /\ UNCHANGED <<now, loopback, received>>

\* The bytes that reach a node: DataHeader was added before the UDP header was.
UdpHeaderSize == 8
Frame == [i \in 1 .. UdpHeaderSize + DataHeaderSize + 1 |->
            IF i <= UdpHeaderSize THEN "udp"
            ELSE IF i <= UdpHeaderSize + DataHeaderSize THEN "data" ELSE "payload"]

\* RouteInput of a packet that is back at its source: accepted, and gone.
Return(c) ==
  /\ c.to = Src[c.packet]
  /\ Becomes({c.packet}, "returned")
  /\ air' = air \ {c}
  /\ UNCHANGED <<m_positionTable, received, route>>

\* RouteInput at the destination: what remains of the frame once a DataHeader is
\* removed from its front goes up to UDP.
LocalDeliver(c) ==
  /\ c.to = Dst[c.packet]
  /\ Becomes({c.packet}, "delivered")
  /\ received' = [received EXCEPT ![c.packet] = SubSeq(Frame, DataHeaderSize + 1, Len(Frame))]
  /\ air' = air \ {c}
  /\ UNCHANGED <<m_positionTable, route>>

\* Forwarding: the newer of the header's and the table's position of the
\* destination replaces the other, and the packet goes on or is dropped.
Forward(c) ==
  LET n == c.to
      d == Dst[c.packet]
      header == DataHeaderOf(c)
      carried == EntryOfData(header, d)
      table == Merge(PurgeRoutes(m_positionTable[n], now), carried)
      known == LookupRoute(table, d)
      dst == IF known.timestamp > carried.timestamp THEN known ELSE carried
      hops == Hops(n, table, d, header.inRec, header.recPos)
  IN
  /\ c.to \notin {Src[c.packet], d}
  /\ \/ /\ HopsSpent(header.hop)
        /\ Becomes({c.packet}, "dropped")
        /\ air' = air \ {c}
        /\ UNCHANGED <<m_positionTable, route>>
     \/ /\ ~HopsSpent(header.hop)
        /\ m_positionTable' = [m_positionTable EXCEPT ![n] = table]
        /\ \E h \in hops : Transmit(air \ {c}, {c.packet}, n, h, dst, header.hop + 1)
        /\ UNCHANGED fate
     \/ /\ ~HopsSpent(header.hop) /\ hops = {}
        /\ m_positionTable' = [m_positionTable EXCEPT ![n] = table]
        /\ Becomes({c.packet}, "dropped")
        /\ air' = air \ {c}
        /\ UNCHANGED route
  /\ UNCHANGED received

\* RouteInput of a copy whose receiver is within reach of its sender.
InReach(c) == c.to \in Nodes /\ Distance2(Here(c.from), Here(c.to)) <= Range2

RouteInput(c) ==
  /\ InReach(c)
  /\ Return(c) \/ LocalDeliver(c) \/ Forward(c)
  /\ UNCHANGED <<now, loopback, m_queue>>

\* The channel (external): a copy addressed to a node out of reach, or to no node,
\* is lost; another may be.
Lose(c) ==
  /\ Lossy \/ ~InReach(c)
  /\ air' = air \ {c}
  /\ Becomes({c.packet}, "lost")
  /\ UNCHANGED <<now, m_positionTable, loopback, m_queue, received, route>>

Tick ==
  /\ now < Horizon /\ loopback = {}
  /\ now' = now + 1
  /\ UNCHANGED <<m_positionTable, air, loopback, m_queue, fate, received, route>>

------------------------------------------------------------------------------
Init ==
  /\ now = 0
  /\ m_positionTable = [n \in Nodes |->
       {BroadcastEntry} \cup {Report(h[2], 0) : h \in {h \in Informed : h[1] = n}}]
  /\ air = {} /\ loopback = {} /\ m_queue = {}
  /\ fate = [p \in Packets |-> "new"]
  /\ received = [p \in Packets |-> <<>>]
  /\ route = [p \in Packets |-> <<>>]

Next ==
  \/ \E p \in Packets : RouteOutput(p)
  \/ \E l \in loopback : RouteInputLoopback(l)
  \/ \E h \in Heard, t \in Seconds :
       now - FloodTime <= t /\ t <= now /\ RecvMyprotocol(h[1], h[2], t)
  \/ \E c \in air : RouteInput(c) \/ Lose(c)
  \/ Tick

Spec == Init /\ [][Next]_vars

\* The simulator runs the events of the loopback device and of the channel.
FairSpec ==
  /\ Spec
  /\ WF_vars(\E l \in loopback : RouteInputLoopback(l))
  /\ WF_vars(\E c \in air : RouteInput(c) \/ Lose(c))

------------------------------------------------------------------------------
Entry ==
  [adress : Nodes \cup {Broadcast}, timestamp : Seconds, pos : [Axes -> Nat],
   vel : [Axes -> Int]]
Outcomes == {"delivered", "returned", "dropped", "lost"}

\* Every variable has its type.
TypeOK ==
  /\ now \in Seconds
  /\ DOMAIN m_positionTable = Nodes
  /\ \A n \in Nodes : \A r \in m_positionTable[n] : r \in Entry
  /\ \A c \in air :
       /\ c.packet \in Packets /\ c.from \in Nodes
       /\ c.to \in Nodes \cup {Garbage, Broadcast}
       /\ c.header \in [1 .. DataHeaderSize \div 2 -> Word]
       /\ DataHeaderOf(c).hop <= HopLimit /\ DataHeaderOf(c).inRec \in {0, 1}
  /\ loopback \subseteq [packet : Packets, tag : {0, 1}]
  /\ m_queue \subseteq Packets
  /\ fate \in [Packets -> {"new", "sent"} \cup Outcomes]
  /\ DOMAIN received = Packets /\ DOMAIN route = Packets

\* "If the number of hops exceeds 10 there is probably a loop: drop at once" (line
\* 489).
TenHops == \A p \in Packets : Len(route[p]) <= HopLimit

\* Nothing goes round for ever: the count in the header, which RouteOutput and the
\* queue start and each forwarder raises, stops a packet after the hop limit, or
\* one hop later if it left the queue, wherever mistaken positions and random hops
\* send it.
HopsBounded == \A p \in Packets : Len(route[p]) <= HopLimit + 1

\* A packet is handed to nobody, nodes and the broadcast address alike, whose entry has
\* lived out its time in the forwarder's table: the table is purged before each lookup.
\* Only the destination's entry may be older, which Forwarding takes from the header
\* after the purge.
NextHopIsLive ==
  [][\A c \in air' \ air : c.to \notin {Garbage, Dst[c.packet]} =>
       \E r \in m_positionTable'[c.from] :
         r.adress = c.to /\ r.timestamp + EntryLifeTime > now]_vars

\* Where the others believe a node that does not move to be.
Told(n) == Scaled(Metres(Here(n)))

\* The nodes where recovery may have begun whose header says recPos.
Began(recPos) == {n \in Nodes : Metres(Here(n)) = recPos}

\* Whole metres misled a hop of a packet to d that ended at n: the forwarder believes n
\* nearer to d than itself, and n is not; or n ends the recovery as nearer than the
\* place in the header, and is not nearer than the node where recovery began.
Misled(hop, n, d) ==
  LET away(v) == Distance2(v, Told(d)) IN
  \/ /\ hop.inRec = 0
     /\ away(Told(n)) < away(Here(hop.node)) /\ away(Here(hop.node)) <= away(Here(n))
  \/ /\ hop.inRec = 1
     /\ away(Here(n)) < away(Scaled(hop.recPos))
     /\ \E e \in Began(hop.recPos) : away(Here(e)) <= away(Here(n))
MisledBetween(p, i, j) ==
  \E k \in i .. j - 1 : Misled(route[p][k], route[p][k + 1].node, Dst[p])

\* Where nobody moves, a packet goes through no node twice between two entries into
\* recovery mode, whoever knows of whom: in greedy mode every node hands it to one
\* that is nearer to the destination, or less than whole metres can tell further away.
NoGreedyLoop ==
  \A p \in Packets : \A i, j \in DOMAIN route[p] :
    (i < j /\ \A k \in i .. j : route[p][k].inRec = 0)
      => route[p][i].node # route[p][j].node \/ MisledBetween(p, i, j)

\* Where nobody moves, recovery makes progress: once the recovery that began at some
\* node is left, the packet goes on greedily, or enters recovery anew, only at nodes
\* nearer to its destination than that node, unless whole metres misled a hop between.
RecoveryAdvances ==
  \A p \in Packets : \A i, j \in DOMAIN route[p] :
    LET away(n) == Distance2(Here(n), Told(Dst[p]))
        a == route[p][i]
        b == route[p][j]
    IN (i < j /\ a.inRec = 1)
         => \/ b.inRec = 1 /\ b.recPos = a.recPos
            \/ \E n \in IF b.inRec = 1 THEN Began(b.recPos) ELSE {b.node} :
                 \A e \in Began(a.recPos) : away(n) < away(e)
            \/ MisledBetween(p, i, j)

\* Every packet is in the custody of PacketCustody: one copy of it is in the loopback
\* device, in the queue or on the air from the time it was sent until it has one fate.
copies ==
  [p \in Packets |->
     Cardinality({l \in loopback : l.packet = p}) + Cardinality({c \in air : c.packet = p})
       + (IF p \in m_queue THEN 1 ELSE 0)]
outcomes == [p \in Packets |-> {fate[p]} \cap Outcomes]
Custody == INSTANCE PacketCustody WITH copies <- copies, outcomes <- outcomes
ImplementsCustody == Custody!Spec

\* The position of its destination that a packet carries never gets older on its
\* way, and whoever forwards it knows of none newer: the merge of lines 509-549.
PositionFreshens ==
  [][\A c \in air' \ air :
       LET timestamp == DataHeaderOf(c).dstTimestamp IN
       /\ \A b \in air : b.packet = c.packet => DataHeaderOf(b).dstTimestamp <= timestamp
       /\ \E r \in m_positionTable'[c.from] :
            r.adress = Dst[c.packet] /\ r.timestamp = timestamp]_vars

\* Where every node has heard of every other and no gap needs recovery, every packet
\* arrives, HopLimit hops away at the most, however old the reports are that the
\* forwarders predict positions from.
GreedyDelivers ==
  \A p \in Packets : fate[p] = "sent" ~> fate[p] = "delivered"

\* RecoveryMode "picks a neighbour node at random" (line 636).
NextHopIsNeighbor ==
  \A c \in air : \E r \in m_positionTable[c.from] : r.adress = c.to

\* What is passed up is the datagram: the UDP header, "the 8 bytes in front" (line
\* 323), and the payload.
DeliveredIntact ==
  \A p \in Packets : fate[p] = "delivered" =>
    received[p] = [i \in 1 .. UdpHeaderSize + 1 |->
                     IF i <= UdpHeaderSize THEN "udp" ELSE "payload"]
==============================================================================
