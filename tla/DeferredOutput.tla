--------------------------- MODULE DeferredOutput ----------------------------
(***************************************************************************)
(* One sending node with EnableQueue: what RouteOutput cannot route goes   *)
(* through the loopback device back into RouteInput, which queues it until *)
(* RecvMyprotocol hears from the destination.  The loopback device takes   *)
(* no time but an event of its own, so a report, or another packet, may    *)
(* come in between.                                                        *)
(*                                                                         *)
(* Geometry is abstracted to its outcome: with the positions in the table, *)
(* the node finds no neighbour ("alone"), no neighbour closer to the       *)
(* destination than itself ("stuck"), or a next hop ("next").  Time is in  *)
(* seconds.                                                                *)
(***************************************************************************)
EXTENDS RequestQueue, RoutingTable

CONSTANTS
  Packets,             \* the application's packets
  Destinations,        \* the addresses they go to
  DstOf,               \* DstOf[p]: the destination of p
  EnableQueue,         \* the attributes of the same names
  EnableRecoveryMode,
  Horizon              \* bound on the seconds modelled

Outcomes == {"alone", "stuck", "next"}

ASSUME DeferredOutputAssumption ==
  /\ IsFiniteSet(Packets) /\ DstOf \in [Packets -> Destinations]
  /\ EnableQueue \in BOOLEAN /\ EnableRecoveryMode \in BOOLEAN
  /\ MaxQueueLen \in Nat \ {0} /\ QueueTimeout \in Nat
  /\ EntryLifeTime \in Nat \ {0} /\ Horizon \in Nat

VARIABLES
  now,              \* Simulator::Now
  m_positionTable,  \* what the node knows of the destinations
  m_queue,
  loopback,         \* packets in the loopback device, with their DeferredRouteOutputTag
  sent,             \* history: the packets the application has sent
  forwarded,        \* history: the packets handed to a next hop, in turn
  dropped           \* history: the packets given up

vars == <<now, m_positionTable, m_queue, loopback, sent, forwarded, dropped>>

------------------------------------------------------------------------------
PacketsOf(entries) == {e.packet : e \in entries}

\* A next hop exists, or recovery mode makes one up.
Routable(outcome) ==
  outcome = "next" \/ (outcome = "stuck" /\ EnableRecoveryMode)

\* Mutants, used by no specification: the queue emptied from its back; a flush
\* only for a destination that was unknown.
HandOverBackwards(entries) ==
  forwarded \cup
    {[packet |-> e.packet, ticket |-> e.ticket, waited |-> TRUE,
      turn |-> Cardinality(forwarded)
                 + Cardinality({f \in entries : f.ticket >= e.ticket})] : e \in entries}
WakesOnce(o) == EnableQueue /\ Find(m_queue, o) /\ ~HasRoute(m_positionTable, o)

\* A report of o finds packets waiting for it.
Wakes(o) == EnableQueue /\ Find(m_queue, o)

\* Handing entries to a next hop, in the order of their tickets.
HandOver(entries) ==
  forwarded \cup
    {[packet |-> e.packet, ticket |-> e.ticket, waited |-> TRUE,
      turn |-> Cardinality(forwarded)
                 + Cardinality({f \in entries : f.ticket <= e.ticket})] : e \in entries}

\* The tag that is put on a packet to go through the loopback device: 1 if it may
\* wait for its destination's position, 0 if nothing would come of waiting.
Loop(p, tag) ==
  loopback' = loopback \cup {[packet |-> p, tag |-> tag, ticket |-> Cardinality(sent) + 1]}

\* RouteOutput for a unicast packet of the application.
RouteOutput(p, outcome) ==
  /\ p \notin sent
  /\ sent' = sent \cup {p}
  /\ m_positionTable' = PurgeRoutes(m_positionTable, now)
  /\ \/ /\ ~HasRoute(m_positionTable', DstOf[p])
        /\ Loop(p, 1)
        /\ UNCHANGED forwarded
     \/ /\ HasRoute(m_positionTable', DstOf[p]) /\ ~Routable(outcome)
        /\ Loop(p, 0)
        /\ UNCHANGED forwarded
     \/ /\ HasRoute(m_positionTable', DstOf[p]) /\ Routable(outcome)
        /\ forwarded' = forwarded \cup
             {[packet |-> p, ticket |-> Cardinality(sent) + 1, waited |-> FALSE,
               turn |-> Cardinality(forwarded) + 1]}
        /\ UNCHANGED loopback
  /\ UNCHANGED <<now, m_queue, dropped>>

\* RouteInput of the packet that entered the loopback device first, and
\* DeferredRouteOutput; where it returns false, the IP layer drops the packet.
RouteInput(l) ==
  /\ \A k \in loopback : l.ticket <= k.ticket
  /\ loopback' = loopback \ {l}
  /\ \/ /\ EnableQueue /\ l.tag = 1
        /\ m_queue' = Enqueue(m_queue, l.packet, DstOf[l.packet], l.ticket, now)
        /\ dropped' = dropped \cup PacketsOf(m_queue \ m_queue')
     \/ /\ ~(EnableQueue /\ l.tag = 1)
        /\ dropped' = dropped \cup {l.packet}
        /\ UNCHANGED m_queue
  /\ UNCHANGED <<now, m_positionTable, sent, forwarded>>

\* RecvMyprotocol of a new report of o: the table takes it; if a packet waits for
\* o, all of them are sent (SendPacketFromQueue) or dropped (DropPacketWithDst).
RecvMyprotocol(o, outcome) ==
  LET known == Update(m_positionTable, [adress |-> o, timestamp |-> now])
      live == PurgeQueue(m_queue, now)
  IN
  /\ \/ /\ ~Wakes(o)
        /\ m_positionTable' = known
        /\ UNCHANGED <<m_queue, forwarded, dropped>>
     \/ /\ Wakes(o)
        /\ m_positionTable' = PurgeRoutes(known, now)
        /\ m_queue' = WithoutDst(m_queue, o, now)
        /\ \/ /\ Routable(outcome)
              /\ forwarded' = HandOver(ForDst(live, o))
              /\ dropped' = dropped \cup PacketsOf(m_queue \ live)
           \/ /\ ~Routable(outcome)
              /\ dropped' = dropped \cup PacketsOf(m_queue \ m_queue')
              /\ UNCHANGED forwarded
  /\ UNCHANGED <<now, loopback, sent>>

\* Forwarding of a packet in transit to o whose header has a position of o of the
\* given time: the table takes it when it is newer, or knows nothing of o.  The
\* packets waiting for o are not looked at.
Forwarding(o, timestamp) ==
  /\ m_positionTable' = Merge(PurgeRoutes(m_positionTable, now),
                              [adress |-> o, timestamp |-> timestamp])
  /\ UNCHANGED <<now, m_queue, loopback, sent, forwarded, dropped>>

\* The loopback device takes no time.
Tick ==
  /\ now < Horizon /\ loopback = {}
  /\ now' = now + 1
  /\ UNCHANGED <<m_positionTable, m_queue, loopback, sent, forwarded, dropped>>

------------------------------------------------------------------------------
Init ==
  /\ now = 0 /\ m_positionTable = {} /\ m_queue = {} /\ loopback = {}
  /\ sent = {} /\ forwarded = {} /\ dropped = {}

Next ==
  \/ \E p \in Packets, outcome \in Outcomes : RouteOutput(p, outcome)
  \/ \E l \in loopback : RouteInput(l)
  \/ \E o \in Destinations, outcome \in Outcomes : RecvMyprotocol(o, outcome)
  \/ \E o \in Destinations, t \in 0 .. now : Forwarding(o, t)
  \/ Tick

Spec == Init /\ [][Next]_vars

\* The simulator runs the events of the loopback device, and every destination
\* keeps reporting its position (CheckChange, every m_maxIntervalTime at least).
FairSpec ==
  /\ Spec
  /\ WF_vars(\E l \in loopback : RouteInput(l))
  /\ \A o \in Destinations : WF_vars(\E outcome \in Outcomes : RecvMyprotocol(o, outcome))

------------------------------------------------------------------------------
Tickets == Nat \ {0}
QueueEntry == [packet : Packets, dst : Destinations, expire : Nat, ticket : Tickets]

\* Every variable has its type, and no packet in the queue has more than the queue's
\* timeout left to wait: m_expire is an absolute time, to which SetExpireTime adds Now.
TypeOK ==
  /\ now \in Nat
  /\ m_positionTable \subseteq [adress : Destinations, timestamp : Nat]
  /\ m_queue \subseteq QueueEntry
  /\ \A e \in m_queue : e.expire <= now + QueueTimeout
  /\ loopback \subseteq [packet : Packets, tag : {0, 1}, ticket : Tickets]
  /\ sent \subseteq Packets
  /\ forwarded \subseteq
       [packet : Packets, ticket : Tickets, waited : BOOLEAN, turn : Tickets]
  /\ dropped \subseteq Packets

\* The queue never outgrows m_maxLen, although Enqueue tests for equality
\* (rqueue.cc:34).
QueueBounded == Cardinality(m_queue) <= MaxQueueLen

\* Every packet the application has sent is in exactly one place: the loopback
\* device, the queue, a next hop's hands, or the drop callback's; and it is handed
\* over, or queued, once.
EveryPacketOnce ==
  /\ sent = PacketsOf(loopback) \cup PacketsOf(m_queue) \cup PacketsOf(forwarded) \cup dropped
  /\ PacketsOf(loopback) \cap PacketsOf(m_queue) = {}
  /\ (PacketsOf(loopback) \cup PacketsOf(m_queue)) \cap (PacketsOf(forwarded) \cup dropped) = {}
  /\ PacketsOf(forwarded) \cap dropped = {}
  /\ \A e, f \in m_queue : e.packet = f.packet => e = f
  /\ \A e, f \in forwarded : e.packet = f.packet => e = f

\* The source keeps every packet in the custody of PacketCustody: one copy of it is in
\* the loopback device or in the queue until it is handed over or dropped.
copies ==
  [p \in Packets |->
     Cardinality({l \in loopback : l.packet = p}) + Cardinality({e \in m_queue : e.packet = p})]
outcomes ==
  [p \in Packets |->
     (IF p \in PacketsOf(forwarded) THEN {"forwarded"} ELSE {})
       \cup (IF p \in dropped THEN {"dropped"} ELSE {})]
Custody ==
  INSTANCE PacketCustody WITH copies <- copies, outcomes <- outcomes,
                              Outcomes <- {"forwarded", "dropped"}
ImplementsCustody == Custody!Spec

\* Packets for one destination that had to wait leave in the order in which the
\* application sent them.
WaitersLeaveInOrder ==
  \A e, f \in forwarded :
    (e.waited /\ f.waited /\ DstOf[e.packet] = DstOf[f.packet] /\ e.ticket < f.ticket)
      => e.turn < f.turn

\* No packet is handed over after its time in the queue is up, although Find looks
\* at expired entries and nothing purges the queue when the time is up.
NoLateForward ==
  [][\A e \in m_queue :
       e.packet \in PacketsOf(forwarded') => now <= e.expire]_vars

\* A packet is given up before its time in the queue is up only as the oldest of a
\* full queue ("Drop the most aged packet", rqueue.cc:36), or because its
\* destination has just reported and there is no next hop to it.
OnlyDueDrops ==
  [][\A e \in m_queue :
       (e.packet \in dropped' /\ now <= e.expire) =>
         \/ /\ Cardinality(PurgeQueue(m_queue, now)) = MaxQueueLen
            /\ \A f \in PurgeQueue(m_queue, now) : e.ticket <= f.ticket
         \/ /\ ForDst(m_queue', e.dst) = {}
            /\ [adress |-> e.dst, timestamp |-> now] \in m_positionTable']_vars

\* If destinations keep reporting, every packet is handed over or dropped: none
\* waits forever, not even one that entered the queue when its destination's
\* report had just gone by.
EveryPacketSettles ==
  \A p \in Packets : p \in sent ~> p \in PacketsOf(forwarded) \cup dropped
==============================================================================
