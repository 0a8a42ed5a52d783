------------------------ MODULE DeferredOutputProofs -------------------------
(***************************************************************************)
(* Theorems about DeferredOutput, for every queue length and timeout and   *)
(* any number of packets and destinations: types, the queue's bound, each  *)
(* packet in one place, in order, in time, and the custody that            *)
(* PacketCustody promises.                                                 *)
(***************************************************************************)
EXTENDS DeferredOutput, FiniteSetTheorems, FunctionTheorems, WellFoundedInduction, TLAPS

Finite ==
  /\ IsFiniteSet(m_queue) /\ IsFiniteSet(sent) /\ IsFiniteSet(forwarded)

\* Tickets tell packets in the loopback device apart, and grow from those handed
\* over after waiting to the queue, and from the queue to the loopback device.
InTurn ==
  /\ \A k, l \in loopback : (k.packet = l.packet \/ k.ticket = l.ticket) => k = l
  /\ \A l \in loopback : l.ticket <= Cardinality(sent)
  /\ \A l \in loopback, e \in m_queue : e.ticket < l.ticket
  /\ \A l \in loopback, f \in forwarded : f.waited => f.ticket < l.ticket
  /\ \A e \in m_queue : e.dst = DstOf[e.packet] /\ e.ticket <= Cardinality(sent)
  /\ \A e \in m_queue, f \in forwarded :
       (f.waited /\ DstOf[f.packet] = e.dst) => f.ticket < e.ticket
  /\ \A f \in forwarded : f.waited => f.ticket <= Cardinality(sent)
  /\ \A f \in forwarded : f.turn <= Cardinality(forwarded)

\* The inductive invariant.
DeferredInv ==
  /\ TypeOK /\ Finite /\ QueueBounded /\ EveryPacketOnce /\ InTurn /\ WaitersLeaveInOrder

------------------------------------------------------------------------------
\* A set of entries that is not empty has a front.
LEMMA FrontIsOldest ==
  ASSUME NEW queue, queue \subseteq QueueEntry, queue # {}
  PROVE  Front(queue) \in queue /\ \A f \in queue : Front(queue).ticket <= f.ticket
<1> DEFINE T == {e.ticket : e \in queue}
           R == OpToRel(<, Nat)
<1>1. T \subseteq Nat /\ T # {}
  BY DEF QueueEntry, Tickets
<1>2. PICK t \in T : \A u \in T : ~ (<<u, t>> \in R)
  BY <1>1, NatLessThanWellFounded, WFMin
<1>3. \A u \in T : t <= u
  <2>1. \A i, j \in Nat : i < j => <<i, j>> \in R
    BY DEF OpToRel
  <2> HIDE DEF R, T
  <2>2. \A u \in T : ~ (u < t)
    BY <1>1, <1>2, <2>1, Zenon
  <2> QED
    BY <1>1, <2>2
<1>4. \E e \in queue : \A f \in queue : e.ticket <= f.ticket
  BY <1>3
<1> QED
  BY <1>4 DEF Front

\* What Enqueue makes of a queue at time t: the new entry is in; no other was lost but
\* expired ones and, from a full queue, the oldest.
IsEnqueued(q, queue, new, t) ==
  /\ IsFiniteSet(q) /\ Cardinality(q) <= MaxQueueLen
  /\ new \in q /\ q \subseteq queue \cup {new}
  /\ \A e \in queue \ q :
       t <= e.expire =>
         /\ Cardinality(PurgeQueue(queue, t)) = MaxQueueLen
         /\ \A f \in PurgeQueue(queue, t) : e.ticket <= f.ticket

LEMMA EnqueueAdds ==
  ASSUME NEW queue, queue \subseteq QueueEntry, IsFiniteSet(queue),
         Cardinality(queue) <= MaxQueueLen,
         NEW packet, NEW dst, NEW ticket, NEW t \in Nat,
         \A e \in queue : e.packet # packet
  PROVE  IsEnqueued(Enqueue(queue, packet, dst, ticket, t), queue,
           [packet |-> packet, dst |-> dst, expire |-> t + QueueTimeout, ticket |-> ticket], t)
<1> DEFINE live == PurgeQueue(queue, t)
           new == [packet |-> packet, dst |-> dst, expire |-> t + QueueTimeout,
                   ticket |-> ticket]
           q == Enqueue(queue, packet, dst, ticket, t)
<1>1. MaxQueueLen \in Nat \ {0}
  BY DeferredOutputAssumption
<1>2. /\ live \subseteq queue /\ IsFiniteSet(live)
      /\ Cardinality(live) \in Nat /\ Cardinality(live) <= MaxQueueLen
      /\ \A e \in queue \ live : ~ (t <= e.expire)
  <2>1. live \subseteq queue
    BY DEF PurgeQueue
  <2>2. IsFiniteSet(live) /\ Cardinality(live) <= Cardinality(queue)
    BY <2>1, FS_Subset
  <2>3. Cardinality(live) \in Nat /\ Cardinality(queue) \in Nat
    BY <2>2, FS_CardinalityType
  <2>4. \A e \in queue \ live : ~ (t <= e.expire)
    BY DEF PurgeQueue, QueueEntry
  <2> QED
    BY <1>1, <2>1, <2>2, <2>3, <2>4
<1>3. q = Room(live) \cup {new}
  BY DEF Enqueue, PurgeQueue
<1>4. new \notin queue
  OBVIOUS
<1> HIDE DEF new, q
<1>5. CASE Cardinality(live) = MaxQueueLen
  <2>1. live # {}
    BY <1>1, <1>5, FS_EmptySet
  <2>2. Front(live) \in live /\ \A f \in live : Front(live).ticket <= f.ticket
    BY <1>2, <2>1, FrontIsOldest
  <2>3. Room(live) = live \ {Front(live)}
    BY <1>5 DEF Room
  <2>4. IsFiniteSet(Room(live)) /\ Cardinality(Room(live)) = MaxQueueLen - 1
    BY <1>2, <1>5, <2>2, <2>3, FS_RemoveElement
  <2>5. IsFiniteSet(q) /\ Cardinality(q) = MaxQueueLen
    <3>1. new \notin Room(live)
      BY <1>2, <1>4, <2>3
    <3>2. IsFiniteSet(q) /\ Cardinality(q) = Cardinality(Room(live)) + 1
      BY <1>3, <2>4, <3>1, FS_AddElement
    <3> QED
      BY <1>1, <2>4, <3>2
  <2>6. q \subseteq queue \cup {new} /\ new \in q
    BY <1>2, <1>3, <2>3
  <2>7. \A e \in queue \ q : t <= e.expire => e = Front(live)
    BY <1>2, <1>3, <2>3
  <2>8. IsEnqueued(q, queue, new, t)
    BY <1>1, <1>5, <2>2, <2>5, <2>6, <2>7 DEF IsEnqueued
  <2> QED
    BY <2>8 DEF q, new
<1>6. CASE Cardinality(live) # MaxQueueLen
  <2>1. Room(live) = live
    BY <1>6 DEF Room
  <2>2. IsFiniteSet(q) /\ Cardinality(q) = Cardinality(live) + 1
    BY <1>2, <1>3, <1>4, <2>1, FS_AddElement
  <2>3. q \subseteq queue \cup {new} /\ new \in q /\ \A e \in queue \ q : ~ (t <= e.expire)
    BY <1>2, <1>3, <2>1
  <2>4. IsEnqueued(q, queue, new, t)
    BY <1>1, <1>2, <1>6, <2>2, <2>3 DEF IsEnqueued
  <2> QED
    BY <2>4 DEF q, new
<1> QED
  BY <1>5, <1>6

------------------------------------------------------------------------------
Waited == [packet : Packets, ticket : Tickets, waited : {TRUE}, turn : Tickets]

\* Entries handed over together: one record for each, after all earlier ones, in the
\* order of their tickets.
IsHandedOver(new, entries) ==
  LET added == new \ forwarded IN
  /\ forwarded \subseteq new /\ IsFiniteSet(new)
  /\ Cardinality(forwarded) <= Cardinality(new)
  /\ \A e \in entries : \E f \in added : f.packet = e.packet
  /\ \A f \in added :
       /\ \E e \in entries : f.packet = e.packet /\ f.ticket = e.ticket
       /\ f \in Waited
       /\ Cardinality(forwarded) < f.turn /\ f.turn <= Cardinality(new)
  /\ \A e, f \in added :
       /\ e.packet = f.packet => e = f
       /\ e.ticket < f.ticket => e.turn < f.turn

\* The entries handed over before e and e itself, and the record of e.
UpTo(entries, e) == {f \in entries : f.ticket <= e.ticket}
Turn(entries, e) == Cardinality(forwarded) + Cardinality(UpTo(entries, e))
Handed(entries, e) ==
  [packet |-> e.packet, ticket |-> e.ticket, waited |-> TRUE, turn |-> Turn(entries, e)]

\* Turns follow tickets.
LEMMA TurnsFollowTickets ==
  ASSUME NEW entries, IsFiniteSet(entries), entries \subseteq QueueEntry,
         IsFiniteSet(forwarded)
  PROVE  LET n == Cardinality(forwarded)
             m == Cardinality(entries)
         IN  /\ n \in Nat /\ m \in Nat
             /\ \A e \in entries : Turn(entries, e) \in n + 1 .. n + m
             /\ \A e, f \in entries :
                  e.ticket < f.ticket => Turn(entries, e) < Turn(entries, f)
<1> DEFINE n == Cardinality(forwarded)
           m == Cardinality(entries)
<1>1. n \in Nat /\ m \in Nat
  BY FS_CardinalityType
<1>2. \A e \in entries :
        /\ IsFiniteSet(UpTo(entries, e)) /\ Cardinality(UpTo(entries, e)) \in Nat
        /\ 0 < Cardinality(UpTo(entries, e)) /\ Cardinality(UpTo(entries, e)) <= m
  <2> TAKE e \in entries
  <2>1. UpTo(entries, e) \subseteq entries /\ e \in UpTo(entries, e)
    BY DEF QueueEntry, Tickets, UpTo
  <2>2. IsFiniteSet(UpTo(entries, e)) /\ Cardinality(UpTo(entries, e)) <= m
    BY <2>1, FS_Subset
  <2>3. Cardinality(UpTo(entries, e)) \in Nat /\ Cardinality(UpTo(entries, e)) # 0
    BY <2>1, <2>2, FS_CardinalityType, FS_EmptySet
  <2> QED
    BY <2>2, <2>3
<1>3. ASSUME NEW e \in entries, NEW f \in entries, e.ticket < f.ticket
      PROVE  Cardinality(UpTo(entries, e)) < Cardinality(UpTo(entries, f))
  <2>1. UpTo(entries, e) \subseteq UpTo(entries, f)
    BY <1>3 DEF QueueEntry, Tickets, UpTo
  <2>2. f \in UpTo(entries, f) /\ f \notin UpTo(entries, e)
    BY <1>3 DEF QueueEntry, Tickets, UpTo
  <2>3. IsFiniteSet(UpTo(entries, f))
    BY <1>2
  <2>4. /\ Cardinality(UpTo(entries, e)) <= Cardinality(UpTo(entries, f))
        /\ Cardinality(UpTo(entries, e)) # Cardinality(UpTo(entries, f))
    BY <2>1, <2>2, <2>3, FS_Subset
  <2>5. /\ Cardinality(UpTo(entries, e)) \in Nat
        /\ Cardinality(UpTo(entries, f)) \in Nat
    BY <1>2
  <2> QED
    BY <2>4, <2>5
<1> HIDE DEF n, m
<1>4. \A e \in entries : Turn(entries, e) \in n + 1 .. n + m
  BY <1>1, <1>2 DEF Turn, n
<1>5. ASSUME NEW e \in entries, NEW f \in entries, e.ticket < f.ticket
      PROVE  Turn(entries, e) < Turn(entries, f)
  BY <1>1, <1>2, <1>3, <1>5 DEF Turn, n
<1> QED
  BY <1>1, <1>4, <1>5 DEF n, m

LEMMA HandOverInOrder ==
  ASSUME NEW entries, IsFiniteSet(entries), entries \subseteq QueueEntry,
         IsFiniteSet(forwarded),
         PacketsOf(entries) \cap PacketsOf(forwarded) = {},
         \A e, f \in entries : e.packet = f.packet => e = f
  PROVE  IsHandedOver(HandOver(entries), entries)
<1> DEFINE n == Cardinality(forwarded)
           m == Cardinality(entries)
           added == {Handed(entries, e) : e \in entries}
           new == HandOver(entries)
<1>1. new = forwarded \cup added
  BY DEF HandOver, Handed, Turn, UpTo
<1>2. \A e \in entries :
        /\ Handed(entries, e).packet = e.packet /\ Handed(entries, e).ticket = e.ticket
        /\ Handed(entries, e).turn = Turn(entries, e)
  BY DEF Handed
<1>3. /\ n \in Nat /\ m \in Nat
      /\ \A e \in entries : Turn(entries, e) \in n + 1 .. n + m
      /\ \A e, f \in entries : e.ticket < f.ticket => Turn(entries, e) < Turn(entries, f)
  BY TurnsFollowTickets
<1>4. \A f \in added : \E e \in entries : f = Handed(entries, e)
  OBVIOUS
<1>5. forwarded \cap added = {}
  BY <1>2, <1>4 DEF PacketsOf
<1>6. IsFiniteSet(added) /\ Cardinality(added) = m
  <2> DEFINE rec == [e \in entries |-> Handed(entries, e)]
  <2>1. rec \in [entries -> added]
    OBVIOUS
  <2>2. \A e, f \in entries : Handed(entries, e) = Handed(entries, f) => e = f
    BY <1>2
  <2>3. \A e, f \in entries : rec[e] = rec[f] => e = f
    BY <2>2
  <2>4. \A f \in added : \E e \in entries : rec[e] = f
    BY <1>4
  <2> HIDE DEF rec, added
  <2>5. rec \in Bijection(entries, added)
    BY <2>1, <2>3, <2>4, Fun_IsBij
  <2> QED
    BY <2>5, FS_Bijection DEF ExistsBijection
<1>7. new \ forwarded = added
  BY <1>1, <1>5
<1> HIDE DEF added
<1>8. IsFiniteSet(new) /\ Cardinality(new) = n + m
  <2>1. /\ IsFiniteSet(forwarded \cup added)
        /\ Cardinality(forwarded \cup added)
             = Cardinality(forwarded) + Cardinality(added) - Cardinality(forwarded \cap added)
    BY <1>6, FS_Union
  <2>2. Cardinality(forwarded \cap added) = 0
    BY <1>5, FS_EmptySet
  <2> QED
    BY <1>1, <1>3, <1>6, <2>1, <2>2
<1> HIDE DEF n, m, new
<1>9. ASSUME NEW f \in added
      PROVE  /\ \E e \in entries : f.packet = e.packet /\ f.ticket = e.ticket
             /\ f \in Waited
             /\ n < f.turn /\ f.turn <= n + m
  <2>1. PICK e \in entries : f = Handed(entries, e)
    BY <1>4
  <2>2. f.turn = Turn(entries, e)
    BY <1>2, <2>1
  <2>3. Turn(entries, e) \in n + 1 .. n + m
    BY <1>3
  <2>4. n < f.turn /\ f.turn <= n + m /\ Turn(entries, e) \in Tickets
    BY <1>3, <2>2, <2>3 DEF Tickets
  <2>5. e.packet \in Packets /\ e.ticket \in Tickets
    BY DEF QueueEntry
  <2>6. f \in Waited
    BY <2>1, <2>4, <2>5 DEF Handed, Waited
  <2> QED
    BY <1>2, <2>1, <2>4, <2>6
<1>10. ASSUME NEW e \in added, NEW f \in added
       PROVE  /\ e.packet = f.packet => e = f
              /\ e.ticket < f.ticket => e.turn < f.turn
  <2>1. PICK a \in entries : e = Handed(entries, a)
    BY <1>4
  <2>2. PICK b \in entries : f = Handed(entries, b)
    BY <1>4
  <2>3. e.packet = f.packet => e = f
    BY <1>2, <2>1, <2>2
  <2>4. e.ticket < f.ticket => e.turn < f.turn
    BY <1>2, <1>3, <2>1, <2>2
  <2> QED
    BY <2>3, <2>4
<1>11. \A e \in entries : \E f \in added : f.packet = e.packet
  BY <1>2 DEF added
<1>12. forwarded \subseteq new /\ n <= n + m
  BY <1>1, <1>3
<1> USE DEF n
<1>13. IsHandedOver(new, entries)
  BY <1>7, <1>8, <1>9, <1>10, <1>11, <1>12 DEF IsHandedOver, n
<1> QED
  BY <1>13 DEF new

------------------------------------------------------------------------------
LEMMA InitHasInv == Init => DeferredInv
<1> SUFFICES ASSUME Init PROVE DeferredInv
  OBVIOUS
<1>1. IsFiniteSet({}) /\ Cardinality({}) = 0
  BY FS_EmptySet
<1>2. TypeOK /\ EveryPacketOnce /\ InTurn /\ WaitersLeaveInOrder
  BY DEF Init, TypeOK, EveryPacketOnce, InTurn, WaitersLeaveInOrder, PacketsOf
<1>3. Finite /\ QueueBounded
  BY <1>1, DeferredOutputAssumption DEF Init, Finite, QueueBounded
<1> QED
  BY <1>2, <1>3 DEF DeferredInv

\* As time goes on, what waits has no longer to wait than before.
LEMMA WaitsNoLonger ==
  ASSUME TypeOK, [Next]_vars
  PROVE  now <= now' /\ \A e \in m_queue : e.expire <= now' + QueueTimeout
<1>1. now' = now \/ now' = now + 1
  BY DEF Next, RouteOutput, RouteInput, RecvMyprotocol, Forwarding, Tick, vars
<1>2. now \in Nat /\ QueueTimeout \in Nat
  BY DeferredOutputAssumption DEF TypeOK
<1>3. \A e \in m_queue : e.expire \in Nat /\ e.expire <= now + QueueTimeout
  BY DEF TypeOK, QueueEntry
<1> QED
  BY <1>1, <1>2, <1>3

\* The positions that the table holds are typed whatever handler touches it.
LEMMA TableTyped ==
  ASSUME TypeOK, [Next]_vars
  PROVE  m_positionTable' \subseteq [adress : Destinations, timestamp : Nat] /\ now' \in Nat
<1> DEFINE T == [adress : Destinations, timestamp : Nat]
<1>1. m_positionTable \subseteq T /\ now \in Nat
  BY DEF TypeOK
<1>2. ASSUME NEW p \in Packets, NEW outcome \in Outcomes, RouteOutput(p, outcome)
      PROVE  m_positionTable' \subseteq T /\ now' \in Nat
  BY <1>1, <1>2 DEF RouteOutput, PurgeRoutes
<1>3. ASSUME NEW l \in loopback, RouteInput(l)
      PROVE  m_positionTable' \subseteq T /\ now' \in Nat
  BY <1>1, <1>3 DEF RouteInput
<1>4. ASSUME NEW o \in Destinations, NEW outcome \in Outcomes, RecvMyprotocol(o, outcome)
      PROVE  m_positionTable' \subseteq T /\ now' \in Nat
  <2> DEFINE known == Update(m_positionTable, [adress |-> o, timestamp |-> now])
  <2>1. known \subseteq T
    BY <1>1 DEF Update, AddRoute
  <2>2. PurgeRoutes(known, now) \subseteq known
    BY DEF PurgeRoutes
  <2>3. m_positionTable' \in {known, PurgeRoutes(known, now)} /\ now' = now
    BY <1>4 DEF RecvMyprotocol
  <2> QED
    BY <1>1, <2>1, <2>2, <2>3
<1>5. ASSUME NEW o \in Destinations, NEW t \in 0 .. now, Forwarding(o, t)
      PROVE  m_positionTable' \subseteq T /\ now' \in Nat
  <2> DEFINE table == PurgeRoutes(m_positionTable, now)
             new == [adress |-> o, timestamp |-> t]
  <2>1. table \subseteq T /\ new \in T
    BY <1>1 DEF PurgeRoutes
  <2>2. Merge(table, new) \subseteq table \cup {new}
    BY DEF Merge, Update, AddRoute
  <2> QED
    BY <1>1, <1>5, <2>1, <2>2 DEF Forwarding
<1>6. ASSUME Tick PROVE m_positionTable' \subseteq T /\ now' \in Nat
  BY <1>1, <1>6 DEF Tick
<1>7. ASSUME UNCHANGED vars PROVE m_positionTable' \subseteq T /\ now' \in Nat
  BY <1>1, <1>7 DEF vars
<1> QED
  BY <1>2, <1>3, <1>4, <1>5, <1>6, <1>7 DEF Next

\* The packets of some entries, and of one more.
LEMMA PacketsOfSets ==
  /\ \A S : \A e \in S : e.packet \in PacketsOf(S)
  /\ \A S, e : PacketsOf(S \cup {e}) = PacketsOf(S) \cup {e.packet}
  /\ \A S, T : PacketsOf(S \cup T) = PacketsOf(S) \cup PacketsOf(T)
BY DEF PacketsOf

\* The packets sent, s, are each in one of four places: l, q, f and d.
Parted(s, l, q, f, d) ==
  /\ s = l \cup q \cup f \cup d
  /\ l \cap q = {} /\ (l \cup q) \cap (f \cup d) = {} /\ f \cap d = {}

\* How packets go from one place to another.
LEMMA PartedMoves ==
  ASSUME NEW s, NEW l, NEW q, NEW f, NEW d, Parted(s, l, q, f, d)
  PROVE  /\ \A p : p \notin s => Parted(s \cup {p}, l \cup {p}, q, f, d)
         /\ \A p : p \notin s => Parted(s \cup {p}, l, q, f \cup {p}, d)
         /\ \A p \in l : Parted(s, l \ {p}, q, f, d \cup {p})
         /\ \A p \in l, gone \in SUBSET q :
              Parted(s, l \ {p}, (q \ gone) \cup {p}, f, d \cup gone)
         /\ \A gone, moved \in SUBSET q : gone \cap moved = {} =>
              Parted(s, l, q \ (gone \cup moved), f \cup moved, d \cup gone)
<1>1. \A p : p \notin s => Parted(s \cup {p}, l \cup {p}, q, f, d)
  BY DEF Parted
<1>2. \A p : p \notin s => Parted(s \cup {p}, l, q, f \cup {p}, d)
  BY DEF Parted
<1>3. \A p \in l : Parted(s, l \ {p}, q, f, d \cup {p})
  BY DEF Parted
<1>4. \A p \in l, gone \in SUBSET q :
        Parted(s, l \ {p}, (q \ gone) \cup {p}, f, d \cup gone)
  BY DEF Parted
<1>5. \A gone, moved \in SUBSET q : gone \cap moved = {} =>
        Parted(s, l, q \ (gone \cup moved), f \cup moved, d \cup gone)
  BY DEF Parted
<1> QED
  BY <1>1, <1>2, <1>3, <1>4, <1>5

\* The two halves of EveryPacketOnce.
Placed == Parted(sent, PacketsOf(loopback), PacketsOf(m_queue), PacketsOf(forwarded), dropped)
Single ==
  /\ \A e, f \in m_queue : e.packet = f.packet => e = f
  /\ \A e, f \in forwarded : e.packet = f.packet => e = f

LEMMA OnceIsPlacedAndSingle ==
  /\ EveryPacketOnce <=> Placed /\ Single
  /\ EveryPacketOnce' <=> Placed' /\ Single'
BY DEF EveryPacketOnce, Placed, Single, Parted

\* A packet that was never sent is nowhere.
LEMMA NewIsNowhere ==
  ASSUME EveryPacketOnce, NEW p, p \notin sent
  PROVE  /\ p \notin PacketsOf(loopback) /\ p \notin PacketsOf(m_queue)
         /\ p \notin PacketsOf(forwarded) /\ p \notin dropped
BY DEF EveryPacketOnce

\* RouteOutput of a packet that goes through the loopback device.
LEMMA LoopKeepsInv ==
  ASSUME DeferredInv, [Next]_vars, NEW p \in Packets, p \notin sent,
         NEW new \in [packet : Packets, tag : {0, 1}, ticket : Tickets],
         new.packet = p, new.ticket = Cardinality(sent) + 1,
         sent' = sent \cup {p}, loopback' = loopback \cup {new},
         m_queue' = m_queue, forwarded' = forwarded, dropped' = dropped
  PROVE  DeferredInv'
<1> DEFINE n == Cardinality(sent)
<1>1. n \in Nat /\ IsFiniteSet(sent') /\ Cardinality(sent') = n + 1
  BY FS_CardinalityType, FS_AddElement DEF DeferredInv, Finite
<1>2. TypeOK'
  BY TableTyped, WaitsNoLonger DEF DeferredInv, TypeOK
<1>3. Finite' /\ QueueBounded' /\ WaitersLeaveInOrder'
  BY <1>1 DEF DeferredInv, Finite, QueueBounded, WaitersLeaveInOrder
<1>4. EveryPacketOnce'
  <2>1. PacketsOf(loopback') = PacketsOf(loopback) \cup {p}
    BY PacketsOfSets
  <2>2. Placed /\ Single
    BY OnceIsPlacedAndSingle DEF DeferredInv
  <2>3. Placed'
    <3>1. Parted(sent \cup {p}, PacketsOf(loopback) \cup {p}, PacketsOf(m_queue),
                 PacketsOf(forwarded), dropped)
      BY <2>2, PartedMoves DEF Placed
    <3> QED
      BY <2>1, <3>1 DEF Placed
  <2> QED
    BY <2>2, <2>3, OnceIsPlacedAndSingle DEF Single
<1>5. InTurn'
  <2>1. \A l \in loopback : l.packet # p
    BY NewIsNowhere, PacketsOfSets DEF DeferredInv
  <2>2. InTurn /\ TypeOK
    BY DEF DeferredInv
  <2>3. \A l \in loopback : l.ticket \in Nat /\ l.ticket <= n
    BY <2>2 DEF InTurn, TypeOK, Tickets
  <2>4. \A e \in m_queue : e.dst = DstOf[e.packet] /\ e.ticket \in Nat /\ e.ticket <= n
    BY <2>2 DEF InTurn, TypeOK, Tickets, QueueEntry
  <2>5. \A f \in forwarded : f.ticket \in Nat /\ (f.waited => f.ticket <= n)
    BY <2>2 DEF InTurn, TypeOK, Tickets
  <2>6. \A l \in loopback' : l \in loopback \/ l = new
    OBVIOUS
  <2>7. new.ticket = n + 1
    OBVIOUS
  <2> HIDE DEF n
  <2>8. \A k, l \in loopback' : (k.packet = l.packet \/ k.ticket = l.ticket) => k = l
    BY <1>1, <2>1, <2>2, <2>3, <2>6, <2>7 DEF InTurn
  <2>9. \A l \in loopback' : l.ticket <= Cardinality(sent')
    BY <1>1, <2>3, <2>6, <2>7
  <2>10. \A l \in loopback', e \in m_queue' : e.ticket < l.ticket
    BY <1>1, <2>2, <2>4, <2>6, <2>7 DEF InTurn
  <2>11. \A l \in loopback', f \in forwarded' : f.waited => f.ticket < l.ticket
    BY <1>1, <2>2, <2>5, <2>6, <2>7 DEF InTurn
  <2>12. \A e \in m_queue' : e.dst = DstOf[e.packet] /\ e.ticket <= Cardinality(sent')
    BY <1>1, <2>4
  <2>13. \A f \in forwarded' : f.waited => f.ticket <= Cardinality(sent')
    BY <1>1, <2>5
  <2> QED
    BY <2>2, <2>8, <2>9, <2>10, <2>11, <2>12, <2>13 DEF InTurn
<1> QED
  BY <1>2, <1>3, <1>4, <1>5 DEF DeferredInv

\* RouteOutput of a packet that has a next hop.
LEMMA OutputKeepsInv ==
  ASSUME DeferredInv, [Next]_vars, NEW p \in Packets, p \notin sent,
         NEW new \in [packet : Packets, ticket : Tickets, waited : BOOLEAN, turn : Tickets],
         new.packet = p, new.turn = Cardinality(forwarded) + 1, new.waited = FALSE,
         sent' = sent \cup {p}, forwarded' = forwarded \cup {new},
         m_queue' = m_queue, loopback' = loopback, dropped' = dropped
  PROVE  DeferredInv'
<1> DEFINE n == Cardinality(sent)
           m == Cardinality(forwarded)
<1>1. n \in Nat /\ IsFiniteSet(sent') /\ Cardinality(sent') = n + 1
  BY FS_CardinalityType, FS_AddElement DEF DeferredInv, Finite
<1>2. \A f \in forwarded : f.packet # p
  BY NewIsNowhere, PacketsOfSets DEF DeferredInv
<1>3. m \in Nat /\ IsFiniteSet(forwarded') /\ Cardinality(forwarded') = m + 1
  <2>1. new \notin forwarded
    BY <1>2
  <2>2. IsFiniteSet(forwarded)
    BY DEF DeferredInv, Finite
  <2> QED
    BY <2>1, <2>2, FS_AddElement, FS_CardinalityType
<1>4. TypeOK'
  BY TableTyped, WaitsNoLonger DEF DeferredInv, TypeOK
<1>5. Finite' /\ QueueBounded'
  BY <1>1, <1>3 DEF DeferredInv, Finite, QueueBounded
<1>6. \A f \in forwarded' : f.waited => f \in forwarded
  OBVIOUS
<1>7. WaitersLeaveInOrder'
  BY <1>6 DEF DeferredInv, WaitersLeaveInOrder
<1>8. EveryPacketOnce'
  <2>1. PacketsOf(forwarded') = PacketsOf(forwarded) \cup {p}
    BY PacketsOfSets
  <2>2. Placed /\ Single
    BY OnceIsPlacedAndSingle DEF DeferredInv
  <2>3. Single'
    BY <1>2, <2>2 DEF Single
  <2>4. Placed'
    <3>1. Parted(sent \cup {p}, PacketsOf(loopback), PacketsOf(m_queue),
                 PacketsOf(forwarded) \cup {p}, dropped)
      BY <2>2, PartedMoves DEF Placed
    <3> QED
      BY <2>1, <3>1 DEF Placed
  <2> QED
    BY <2>3, <2>4, OnceIsPlacedAndSingle
<1>9. InTurn'
  <2>1. InTurn /\ TypeOK
    BY DEF DeferredInv
  <2>2. \A f \in forwarded : f.turn \in Nat /\ f.turn <= m
    BY <2>1 DEF InTurn, TypeOK, Tickets
  <2>3. \A f \in forwarded' : f.turn <= Cardinality(forwarded')
    BY <1>3, <2>2
  <2>4. \A l \in loopback : l.ticket \in Nat /\ l.ticket <= n
    BY <2>1 DEF InTurn, TypeOK, Tickets
  <2>5. \A e \in m_queue : e.dst = DstOf[e.packet] /\ e.ticket \in Nat /\ e.ticket <= n
    BY <2>1 DEF InTurn, TypeOK, Tickets, QueueEntry
  <2>6. \A f \in forwarded : f.ticket \in Nat /\ (f.waited => f.ticket <= n)
    BY <2>1 DEF InTurn, TypeOK, Tickets
  <2> HIDE DEF n
  <2>7. \A l \in loopback' : l.ticket <= Cardinality(sent')
    BY <1>1, <2>4
  <2>8. \A e \in m_queue' : e.dst = DstOf[e.packet] /\ e.ticket <= Cardinality(sent')
    BY <1>1, <2>5
  <2>9. \A f \in forwarded' : f.waited => f.ticket <= Cardinality(sent')
    BY <1>1, <1>6, <2>6
  <2>10. /\ \A l \in loopback', f \in forwarded' : f.waited => f.ticket < l.ticket
         /\ \A e \in m_queue', f \in forwarded' :
              (f.waited /\ DstOf[f.packet] = e.dst) => f.ticket < e.ticket
    BY <1>6, <2>1 DEF InTurn
  <2> QED
    BY <2>1, <2>3, <2>7, <2>8, <2>9, <2>10 DEF InTurn
<1> QED
  BY <1>4, <1>5, <1>7, <1>8, <1>9 DEF DeferredInv

\* RouteInput of a packet that may wait.
LEMMA EnqueueKeepsInv ==
  ASSUME DeferredInv, [Next]_vars, NEW l \in loopback, \A k \in loopback : l.ticket <= k.ticket,
         NEW new \in QueueEntry, new.packet = l.packet, new.dst = DstOf[l.packet],
         new.ticket = l.ticket, new.expire = now + QueueTimeout,
         loopback' = loopback \ {l}, IsEnqueued(m_queue', m_queue, new, now),
         dropped' = dropped \cup PacketsOf(m_queue \ m_queue'),
         sent' = sent, forwarded' = forwarded
  PROVE  DeferredInv'
<1>1. TypeOK /\ Finite /\ EveryPacketOnce /\ InTurn
  BY DEF DeferredInv
<1>2. /\ new \in m_queue' /\ m_queue' \subseteq m_queue \cup {new}
      /\ IsFiniteSet(m_queue') /\ Cardinality(m_queue') <= MaxQueueLen
  BY DEF IsEnqueued
<1>3. TypeOK'
  <2>1. PacketsOf(m_queue \ m_queue') \subseteq Packets
    BY <1>1 DEF PacketsOf, TypeOK, QueueEntry
  <2>2. \A e \in m_queue' : e.expire <= now' + QueueTimeout
    <3>1. now \in Nat /\ now' \in Nat /\ QueueTimeout \in Nat /\ now <= now'
      BY <1>1, TableTyped, WaitsNoLonger, DeferredOutputAssumption DEF TypeOK
    <3>3. \A m, n, k \in Nat : m <= n => m + k <= n + k
      OBVIOUS
    <3>4. now + QueueTimeout <= now' + QueueTimeout
      BY <3>1, <3>3
    <3>2. new.expire <= now' + QueueTimeout
      BY <3>4, Zenon
    <3> QED
      BY <1>1, <1>2, <3>2, WaitsNoLonger
  <2>3. m_queue' \subseteq QueueEntry
    BY <1>1, <1>2 DEF TypeOK
  <2>4. m_positionTable' \subseteq [adress : Destinations, timestamp : Nat] /\ now' \in Nat
    BY <1>1, TableTyped
  <2> QED
    BY <1>1, <2>1, <2>2, <2>3, <2>4 DEF TypeOK
<1>4. Finite' /\ QueueBounded' /\ WaitersLeaveInOrder'
  BY <1>1, <1>2 DEF DeferredInv, Finite, QueueBounded, WaitersLeaveInOrder
<1>5. EveryPacketOnce'
  <2> DEFINE L == PacketsOf(loopback)
             Q == PacketsOf(m_queue)
             F == PacketsOf(forwarded)
             gone == PacketsOf(m_queue \ m_queue')
  <2>1. Placed /\ Single
    BY <1>1, OnceIsPlacedAndSingle
  <2>2. l.packet \in L /\ PacketsOf(loopback') = L \ {l.packet}
    <3>1. \A k \in loopback : k.packet = l.packet => k = l
      BY <1>1 DEF InTurn
    <3> QED
      BY <3>1 DEF PacketsOf
  <2>3. l.packet \notin Q
    BY <2>1, <2>2 DEF Placed, Parted
  <2>4. gone \subseteq Q /\ PacketsOf(m_queue') = (Q \ gone) \cup {l.packet}
    <3>1. \A e \in m_queue : e.packet # l.packet
      BY <2>3, PacketsOfSets
    <3>2. \A p \in Q : \E e \in m_queue : e.packet = p
      BY DEF PacketsOf
    <3>3. \A p \in PacketsOf(m_queue') : p = l.packet \/ (p \in Q /\ p \notin gone)
      BY <1>2, <2>1 DEF PacketsOf, Single
    <3>4. \A p \in Q : p \in gone \/ p \in PacketsOf(m_queue')
      BY DEF PacketsOf
    <3>5. l.packet \in PacketsOf(m_queue') /\ gone \subseteq Q
      BY <1>2 DEF PacketsOf
    <3>6. \A p \in gone : p \notin PacketsOf(m_queue')
      BY <1>2, <2>1, <3>1 DEF PacketsOf, Single
    <3> QED
      BY <3>3, <3>4, <3>5, <3>6
  <2>5. Single'
    <3>1. \A e \in m_queue : e.packet # l.packet
      BY <2>3, PacketsOfSets
    <3>2. \A e \in m_queue' : e \in m_queue \/ e = new
      BY <1>2
    <3> QED
      BY <2>1, <3>1, <3>2 DEF Single
  <2> HIDE DEF gone
  <2>6. dropped' = dropped \cup gone
    BY DEF gone
  <2>7. Parted(sent, L \ {l.packet}, (Q \ gone) \cup {l.packet}, F, dropped \cup gone)
    BY <2>1, <2>2, <2>4, PartedMoves DEF Placed
  <2>8. Placed'
    BY <2>2, <2>4, <2>6, <2>7 DEF Placed
  <2> QED
    BY <2>5, <2>8, OnceIsPlacedAndSingle
<1>6. InTurn'
  <2>1. \A k \in loopback : k.ticket \in Nat
    BY <1>1 DEF TypeOK, Tickets
  <2>2. \A k \in loopback' : k \in loopback /\ l.ticket < k.ticket
    BY <1>1, <2>1 DEF InTurn
  <2>3. \A e \in m_queue' : e \in m_queue \/ e = new
    BY <1>2
  <2>4. \A k \in loopback', e \in m_queue' : e.ticket < k.ticket
    BY <1>1, <2>2, <2>3 DEF InTurn
  <2>5. \A e \in m_queue' : e.dst = DstOf[e.packet] /\ e.ticket <= Cardinality(sent)
    BY <1>1, <2>3 DEF InTurn
  <2>6. \A e \in m_queue', f \in forwarded :
          (f.waited /\ DstOf[f.packet] = e.dst) => f.ticket < e.ticket
    BY <1>1, <2>3 DEF InTurn
  <2> QED
    BY <1>1, <2>2, <2>4, <2>5, <2>6 DEF InTurn
<1> QED
  BY <1>3, <1>4, <1>5, <1>6 DEF DeferredInv

\* RouteInput of a packet that may not wait.
LEMMA DropKeepsInv ==
  ASSUME DeferredInv, [Next]_vars, NEW l \in loopback,
         loopback' = loopback \ {l}, dropped' = dropped \cup {l.packet},
         m_queue' = m_queue, sent' = sent, forwarded' = forwarded
  PROVE  DeferredInv'
<1>1. TypeOK /\ Finite /\ EveryPacketOnce /\ InTurn
  BY DEF DeferredInv
<1>2. TypeOK'
  BY <1>1, TableTyped, WaitsNoLonger DEF TypeOK
<1>3. Finite' /\ QueueBounded' /\ WaitersLeaveInOrder' /\ InTurn'
  BY <1>1 DEF DeferredInv, Finite, QueueBounded, WaitersLeaveInOrder, InTurn
<1>4. EveryPacketOnce'
  <2>1. l.packet \in PacketsOf(loopback)
    BY DEF PacketsOf
  <2>2. PacketsOf(loopback') = PacketsOf(loopback) \ {l.packet}
    <3>1. \A k \in loopback : k.packet = l.packet => k = l
      BY <1>1 DEF InTurn
    <3> QED
      BY <3>1 DEF PacketsOf
  <2>3. Placed /\ Single
    BY <1>1, OnceIsPlacedAndSingle
  <2>4. Placed'
    <3>1. Parted(sent, PacketsOf(loopback) \ {l.packet}, PacketsOf(m_queue),
                 PacketsOf(forwarded), dropped \cup {l.packet})
      BY <2>1, <2>3, PartedMoves DEF Placed
    <3> QED
      BY <2>2, <3>1 DEF Placed
  <2> QED
    BY <2>3, <2>4, OnceIsPlacedAndSingle DEF Single
<1> QED
  BY <1>2, <1>3, <1>4 DEF DeferredInv

\* RecvMyprotocol of a report that packets wait for: of the entries gone and handed
\* over, one set or the other may be empty.
LEMMA WakeKeepsInv ==
  ASSUME DeferredInv, [Next]_vars, NEW moved \in SUBSET m_queue, NEW gone \in SUBSET m_queue,
         moved \cap gone = {}, IsHandedOver(forwarded', moved),
         \A e \in moved, f \in m_queue' : f.dst # e.dst,
         m_queue' = m_queue \ (moved \cup gone),
         dropped' = dropped \cup PacketsOf(gone),
         sent' = sent, loopback' = loopback
  PROVE  DeferredInv'
<1> DEFINE added == forwarded' \ forwarded
<1>1. TypeOK /\ Finite /\ EveryPacketOnce /\ InTurn /\ QueueBounded /\ WaitersLeaveInOrder
  BY DEF DeferredInv
<1>2. /\ forwarded' = forwarded \cup added /\ IsFiniteSet(forwarded')
      /\ Cardinality(forwarded) <= Cardinality(forwarded')
      /\ \A e \in moved : \E f \in added : f.packet = e.packet
  BY DEF IsHandedOver
<1>3. \A f \in added :
        /\ \E e \in moved : f.packet = e.packet /\ f.ticket = e.ticket
        /\ f \in Waited
        /\ Cardinality(forwarded) < f.turn /\ f.turn <= Cardinality(forwarded')
  BY DEF IsHandedOver
<1>4. \A e, f \in added :
        /\ e.packet = f.packet => e = f
        /\ e.ticket < f.ticket => e.turn < f.turn
  BY DEF IsHandedOver
<1> HIDE DEF added
<1>5. \A e \in m_queue : e \in QueueEntry
  BY <1>1 DEF TypeOK
<1>6. TypeOK'
  <2>1. PacketsOf(gone) \subseteq Packets
    BY <1>5 DEF PacketsOf, QueueEntry
  <2>2. Waited \subseteq [packet : Packets, ticket : Tickets, waited : BOOLEAN, turn : Tickets]
    BY DEF Waited
  <2>3. m_queue' \subseteq m_queue
    OBVIOUS
  <2>4. \A e \in m_queue' : e.expire <= now' + QueueTimeout
    BY <1>1, <2>3, WaitsNoLonger
  <2>5. m_positionTable' \subseteq [adress : Destinations, timestamp : Nat] /\ now' \in Nat
    BY <1>1, TableTyped
  <2> QED
    BY <1>1, <1>2, <1>3, <2>1, <2>2, <2>3, <2>4, <2>5 DEF TypeOK
<1>7. Finite' /\ QueueBounded'
  <2>1. m_queue' \subseteq m_queue
    OBVIOUS
  <2>2. IsFiniteSet(m_queue') /\ Cardinality(m_queue') <= Cardinality(m_queue)
    BY <1>1, <2>1, FS_Subset DEF Finite
  <2>3. Cardinality(m_queue') \in Nat /\ Cardinality(m_queue) \in Nat
    BY <1>1, <2>2, FS_CardinalityType DEF Finite
  <2> QED
    BY <1>1, <1>2, <2>2, <2>3, DeferredOutputAssumption DEF Finite, QueueBounded
<1>8. EveryPacketOnce'
  <2>1. Placed /\ Single
    BY <1>1, OnceIsPlacedAndSingle
  <2>2. PacketsOf(added) = PacketsOf(moved)
    BY <1>2, <1>3 DEF PacketsOf
  <2>3. PacketsOf(forwarded') = PacketsOf(forwarded) \cup PacketsOf(moved)
    BY <1>2, <2>2, PacketsOfSets
  <2>4. PacketsOf(m_queue') = PacketsOf(m_queue) \ (PacketsOf(gone) \cup PacketsOf(moved))
    <3>1. \A e \in m_queue : e.packet \in PacketsOf(gone) => e \in gone
      BY <2>1 DEF Single, PacketsOf
    <3>2. \A e \in m_queue : e.packet \in PacketsOf(moved) => e \in moved
      BY <2>1 DEF Single, PacketsOf
    <3>3. \A p \in PacketsOf(m_queue') :
            p \in PacketsOf(m_queue) /\ p \notin PacketsOf(gone) /\ p \notin PacketsOf(moved)
      BY <3>1, <3>2 DEF PacketsOf
    <3>4. \A p \in PacketsOf(m_queue) :
            p \in PacketsOf(m_queue') \/ p \in PacketsOf(gone) \/ p \in PacketsOf(moved)
      BY DEF PacketsOf
    <3> QED
      BY <3>3, <3>4
  <2>5. /\ PacketsOf(gone) \subseteq PacketsOf(m_queue)
        /\ PacketsOf(moved) \subseteq PacketsOf(m_queue)
        /\ PacketsOf(gone) \cap PacketsOf(moved) = {}
    BY <2>1 DEF Single, PacketsOf
  <2>6. Placed'
    <3>1. Parted(sent, PacketsOf(loopback),
                 PacketsOf(m_queue) \ (PacketsOf(gone) \cup PacketsOf(moved)),
                 PacketsOf(forwarded) \cup PacketsOf(moved), dropped \cup PacketsOf(gone))
      BY <2>1, <2>5, PartedMoves DEF Placed
    <3> QED
      BY <2>3, <2>4, <3>1 DEF Placed
  <2>7. Single'
    <3>1. \A e \in forwarded, f \in added : e.packet # f.packet
      <4>1. PacketsOf(forwarded) \cap PacketsOf(moved) = {}
        BY <2>1, <2>5 DEF Placed, Parted
      <4> QED
        BY <2>2, <4>1, PacketsOfSets
    <3> QED
      BY <1>2, <1>4, <2>1, <3>1 DEF Single
  <2> QED
    BY <2>6, <2>7, OnceIsPlacedAndSingle
<1>9. InTurn'
  <2>1. \A f \in forwarded' : f \in forwarded \/ \E e \in moved : f.packet = e.packet /\ f.ticket = e.ticket
    BY <1>2, <1>3
  <2>2. \A l \in loopback, f \in forwarded' : f.waited => f.ticket < l.ticket
    BY <1>1, <2>1 DEF InTurn
  <2>3. \A e \in m_queue', f \in forwarded' :
          (f.waited /\ DstOf[f.packet] = e.dst) => f.ticket < e.ticket
    BY <1>1, <2>1 DEF InTurn
  <2>4. \A f \in forwarded' : f.waited => f.ticket <= Cardinality(sent)
    BY <1>1, <2>1 DEF InTurn
  <2>5. \A f \in forwarded' : f.turn <= Cardinality(forwarded')
    <3>1. \A f \in forwarded : f.turn \in Nat /\ f.turn <= Cardinality(forwarded)
      BY <1>1 DEF InTurn, TypeOK, Tickets
    <3>2. Cardinality(forwarded) \in Nat /\ Cardinality(forwarded') \in Nat
      BY <1>1, <1>2, FS_CardinalityType DEF Finite
    <3>3. \A f \in forwarded : f.turn <= Cardinality(forwarded')
      <4>1. Cardinality(forwarded) <= Cardinality(forwarded')
        BY <1>2
      <4> QED
        BY <3>1, <3>2, <4>1
    <3>4. \A f \in forwarded' : f \in forwarded \/ f \in added
      BY <1>2
    <3> QED
      BY <1>3, <3>3, <3>4
  <2> QED
    BY <1>1, <2>2, <2>3, <2>4, <2>5 DEF InTurn
<1>10. WaitersLeaveInOrder'
  <2> SUFFICES ASSUME NEW e \in forwarded', NEW f \in forwarded', e.waited, f.waited,
                      DstOf[e.packet] = DstOf[f.packet], e.ticket < f.ticket
               PROVE  e.turn < f.turn
    BY DEF WaitersLeaveInOrder
  <2>1. CASE e \in forwarded /\ f \in forwarded
    BY <1>1, <2>1 DEF WaitersLeaveInOrder
  <2>2. CASE e \in added /\ f \in added
    BY <1>4, <2>2
  <2>3. CASE e \in forwarded /\ f \in added
    <3>1. e.turn \in Nat /\ e.turn <= Cardinality(forwarded)
      BY <1>1, <2>3 DEF InTurn, TypeOK, Tickets
    <3>2. Cardinality(forwarded) < f.turn /\ f.turn \in Nat
      BY <1>3, <2>3 DEF Waited, Tickets
    <3>3. Cardinality(forwarded) \in Nat
      BY <1>1, FS_CardinalityType DEF Finite
    <3> QED
      BY <3>1, <3>2, <3>3
  <2>4. CASE e \in added /\ f \in forwarded
    <3>1. PICK a \in moved : e.packet = a.packet /\ e.ticket = a.ticket
      BY <1>3, <2>4
    <3>2. a.dst = DstOf[f.packet]
      BY <1>1, <3>1 DEF InTurn
    <3>3. f.ticket < e.ticket
      BY <1>1, <2>4, <3>1, <3>2 DEF InTurn
    <3>4. e.ticket \in Nat /\ f.ticket \in Nat
      BY <1>1, <1>3, <2>4 DEF TypeOK, Tickets, Waited
    <3> QED
      BY <3>3, <3>4
  <2> QED
    BY <1>2, <2>1, <2>2, <2>3, <2>4
<1> QED
  BY <1>6, <1>7, <1>8, <1>9, <1>10 DEF DeferredInv

\* Whatever leaves the packets alone.
LEMMA IdleKeepsInv ==
  ASSUME DeferredInv, [Next]_vars, UNCHANGED <<m_queue, loopback, sent, forwarded, dropped>>
  PROVE  DeferredInv'
<1>1. TypeOK'
  BY TableTyped, WaitsNoLonger DEF DeferredInv, TypeOK
<1>2. Finite' /\ QueueBounded' /\ InTurn' /\ WaitersLeaveInOrder'
  BY DEF DeferredInv, Finite, QueueBounded, InTurn, WaitersLeaveInOrder
<1>3. EveryPacketOnce'
  <2>1. /\ PacketsOf(loopback') = PacketsOf(loopback) /\ PacketsOf(m_queue') = PacketsOf(m_queue)
        /\ PacketsOf(forwarded') = PacketsOf(forwarded)
    OBVIOUS
  <2> QED
    BY <2>1 DEF DeferredInv, EveryPacketOnce
<1> QED
  BY <1>1, <1>2, <1>3 DEF DeferredInv

------------------------------------------------------------------------------
LEMMA RouteOutputKeepsInv ==
  ASSUME DeferredInv, [Next]_vars, NEW p \in Packets, NEW outcome \in Outcomes,
         RouteOutput(p, outcome)
  PROVE  DeferredInv'
<1>1. /\ Cardinality(sent) + 1 \in Tickets /\ Cardinality(forwarded) + 1 \in Tickets
  BY FS_CardinalityType DEF DeferredInv, Finite, Tickets
<1>2. p \notin sent /\ sent' = sent \cup {p} /\ m_queue' = m_queue /\ dropped' = dropped
  BY DEF RouteOutput
<1>3. ASSUME NEW tag \in {0, 1}, Loop(p, tag), forwarded' = forwarded
      PROVE  DeferredInv'
  <2> DEFINE new == [packet |-> p, tag |-> tag, ticket |-> Cardinality(sent) + 1]
  <2>1. /\ new \in [packet : Packets, tag : {0, 1}, ticket : Tickets]
        /\ new.packet = p /\ new.ticket = Cardinality(sent) + 1
    BY <1>1
  <2>2. loopback' = loopback \cup {new}
    BY <1>3 DEF Loop
  <2> HIDE DEF new
  <2> QED
    BY <1>2, <1>3, <2>1, <2>2, LoopKeepsInv
<1>4. ASSUME loopback' = loopback,
             forwarded' = forwarded \cup
               {[packet |-> p, ticket |-> Cardinality(sent) + 1, waited |-> FALSE,
                 turn |-> Cardinality(forwarded) + 1]}
      PROVE  DeferredInv'
  <2> DEFINE new == [packet |-> p, ticket |-> Cardinality(sent) + 1, waited |-> FALSE,
                     turn |-> Cardinality(forwarded) + 1]
  <2>1. /\ new \in [packet : Packets, ticket : Tickets, waited : BOOLEAN, turn : Tickets]
        /\ new.packet = p /\ new.turn = Cardinality(forwarded) + 1 /\ new.waited = FALSE
    BY <1>1
  <2>2. forwarded' = forwarded \cup {new}
    BY <1>4
  <2> HIDE DEF new
  <2> QED
    BY <1>2, <1>4, <2>1, <2>2, OutputKeepsInv
<1> QED
  BY <1>3, <1>4 DEF RouteOutput

LEMMA RouteInputKeepsInv ==
  ASSUME DeferredInv, [Next]_vars, NEW l \in loopback, RouteInput(l)
  PROVE  DeferredInv'
<1>1. /\ \A k \in loopback : l.ticket <= k.ticket
      /\ loopback' = loopback \ {l} /\ sent' = sent /\ forwarded' = forwarded
  BY DEF RouteInput
<1>2. /\ TypeOK /\ Finite /\ QueueBounded /\ EveryPacketOnce
      /\ l.packet \in Packets /\ l.ticket \in Tickets /\ now \in Nat
  BY DEF DeferredInv, TypeOK
<1>3. CASE EnableQueue /\ l.tag = 1
  <2> DEFINE new == [packet |-> l.packet, dst |-> DstOf[l.packet],
                     expire |-> now + QueueTimeout, ticket |-> l.ticket]
  <2>1. /\ m_queue' = Enqueue(m_queue, l.packet, DstOf[l.packet], l.ticket, now)
        /\ dropped' = dropped \cup PacketsOf(m_queue \ m_queue')
    BY <1>3 DEF RouteInput
  <2>2. \A e \in m_queue : e.packet # l.packet
    BY <1>2, PacketsOfSets DEF EveryPacketOnce
  <2>3. m_queue \subseteq QueueEntry /\ IsFiniteSet(m_queue) /\ Cardinality(m_queue) <= MaxQueueLen
    BY <1>2 DEF TypeOK, Finite, QueueBounded
  <2>4. IsEnqueued(m_queue', m_queue, new, now)
    BY <1>2, <2>1, <2>2, <2>3, EnqueueAdds
  <2>5. /\ new \in QueueEntry
        /\ new.packet = l.packet /\ new.dst = DstOf[l.packet] /\ new.ticket = l.ticket
        /\ new.expire = now + QueueTimeout
    BY <1>2, DeferredOutputAssumption DEF QueueEntry
  <2> HIDE DEF new
  <2> QED
    BY <1>1, <2>1, <2>4, <2>5, EnqueueKeepsInv
<1>4. CASE ~(EnableQueue /\ l.tag = 1)
  BY <1>1, <1>4, DropKeepsInv DEF RouteInput
<1> QED
  BY <1>3, <1>4

LEMMA RecvKeepsInv ==
  ASSUME DeferredInv, [Next]_vars, NEW o \in Destinations, NEW outcome \in Outcomes,
         RecvMyprotocol(o, outcome)
  PROVE  DeferredInv'
<1> DEFINE live == PurgeQueue(m_queue, now)
           woken == ForDst(live, o)
<1>1. loopback' = loopback /\ sent' = sent
  BY DEF RecvMyprotocol
<1>2. live \subseteq m_queue /\ woken \subseteq live /\ \A e \in live : e \in woken <=> e.dst = o
  BY DEF PurgeQueue, ForDst
<1>3. TypeOK /\ Finite /\ EveryPacketOnce
  BY DEF DeferredInv
<1>4. CASE ~Wakes(o)
  BY <1>1, <1>4, IdleKeepsInv DEF RecvMyprotocol
<1>5. CASE Wakes(o)
  <2>1. m_queue' = live \ woken
    BY <1>5 DEF RecvMyprotocol, WithoutDst
  <2>2. CASE Routable(outcome)
    <3>1. forwarded' = HandOver(woken) /\ dropped' = dropped \cup PacketsOf(m_queue \ live)
      BY <1>5, <2>2 DEF RecvMyprotocol
    <3>2. /\ woken \subseteq QueueEntry /\ IsFiniteSet(woken)
          /\ PacketsOf(woken) \cap PacketsOf(forwarded) = {}
          /\ \A e, f \in woken : e.packet = f.packet => e = f
      <4>1. woken \subseteq m_queue
        BY <1>2
      <4>2. PacketsOf(woken) \subseteq PacketsOf(m_queue)
        BY <4>1 DEF PacketsOf
      <4>3. PacketsOf(woken) \cap PacketsOf(forwarded) = {}
        BY <1>3, <4>2 DEF EveryPacketOnce
      <4>4. IsFiniteSet(woken)
        BY <1>3, <4>1, FS_Subset DEF Finite
      <4> HIDE DEF woken
      <4> QED
        BY <1>3, <4>1, <4>3, <4>4 DEF TypeOK, EveryPacketOnce
    <3>3. IsHandedOver(forwarded', woken)
      BY <1>3, <3>1, <3>2, HandOverInOrder DEF Finite
    <3>4. \A e \in woken, f \in m_queue' : f.dst # e.dst
      BY <1>2, <2>1
    <3>5. m_queue' = m_queue \ (woken \cup (m_queue \ live)) /\ woken \cap (m_queue \ live) = {}
      BY <1>2, <2>1
    <3> HIDE DEF woken, live
    <3> QED
      BY <1>1, <1>2, <3>1, <3>3, <3>4, <3>5, WakeKeepsInv
  <2>3. CASE ~Routable(outcome)
    <3>1. forwarded' = forwarded /\ dropped' = dropped \cup PacketsOf(m_queue \ m_queue')
      BY <1>5, <2>3 DEF RecvMyprotocol
    <3>2. IsHandedOver(forwarded', {})
      <4>1. Cardinality(forwarded) \in Nat /\ IsFiniteSet(forwarded)
        BY <1>3, FS_CardinalityType DEF Finite
      <4>2. forwarded' \ forwarded = {}
        BY <3>1
      <4> QED
        BY <3>1, <4>1, <4>2 DEF IsHandedOver
    <3>3. m_queue' = m_queue \ ({} \cup (m_queue \ m_queue')) /\ {} \cap (m_queue \ m_queue') = {}
      BY <1>2, <2>1
    <3> QED
      BY <1>1, <3>1, <3>2, <3>3, WakeKeepsInv
  <2> QED
    BY <2>2, <2>3
<1> QED
  BY <1>4, <1>5

\* The invariant of the output path.
THEOREM DeferredInvariant == Spec => []DeferredInv
<1>1. DeferredInv /\ [Next]_vars => DeferredInv'
  <2> SUFFICES ASSUME DeferredInv, [Next]_vars PROVE DeferredInv'
    OBVIOUS
  <2>1. CASE \E p \in Packets, outcome \in Outcomes : RouteOutput(p, outcome)
    BY <2>1, RouteOutputKeepsInv
  <2>2. CASE \E l \in loopback : RouteInput(l)
    BY <2>2, RouteInputKeepsInv
  <2>3. CASE \E o \in Destinations, outcome \in Outcomes : RecvMyprotocol(o, outcome)
    BY <2>3, RecvKeepsInv
  <2>4. CASE \E o \in Destinations, t \in 0 .. now : Forwarding(o, t)
    BY <2>4, IdleKeepsInv DEF Forwarding
  <2>5. CASE Tick
    BY <2>5, IdleKeepsInv DEF Tick
  <2>6. CASE UNCHANGED vars
    BY <2>6, IdleKeepsInv DEF vars
  <2> QED
    BY <2>1, <2>2, <2>3, <2>4, <2>5, <2>6 DEF Next
<1> QED
  BY <1>1, InitHasInv, PTL DEF Spec

\* Every variable of the output path keeps its type.
THEOREM DeferredTypes == Spec => []TypeOK
<1>1. DeferredInv => TypeOK
  BY DEF DeferredInv
<1> QED
  BY <1>1, DeferredInvariant, PTL

\* The queue never outgrows m_maxLen, although Enqueue tests for equality.
THEOREM QueueStaysBounded == Spec => []QueueBounded
<1>1. DeferredInv => QueueBounded
  BY DEF DeferredInv
<1> QED
  BY <1>1, DeferredInvariant, PTL

\* Every packet is in one place, once.
THEOREM PacketsOnce == Spec => []EveryPacketOnce
<1>1. DeferredInv => EveryPacketOnce
  BY DEF DeferredInv
<1> QED
  BY <1>1, DeferredInvariant, PTL

\* Packets that waited for one destination leave in the order they were sent in.
THEOREM LeaveInOrder == Spec => []WaitersLeaveInOrder
<1>1. DeferredInv => WaitersLeaveInOrder
  BY DEF DeferredInv
<1> QED
  BY <1>1, DeferredInvariant, PTL

------------------------------------------------------------------------------
\* A packet that is queued has been sent, and neither handed over nor dropped.
LEMMA QueuedIsHeld ==
  ASSUME EveryPacketOnce, NEW e \in m_queue
  PROVE  /\ e.packet \in sent /\ e.packet \notin PacketsOf(forwarded) /\ e.packet \notin dropped
         /\ \A l \in loopback : l.packet # e.packet
BY PacketsOfSets DEF EveryPacketOnce

\* No packet is handed over late: RecvMyprotocol hands over what Dequeue returns, and
\* Dequeue purges first, although Find did not.
THEOREM NeverLate == Spec => NoLateForward
<1>1. DeferredInv /\ [Next]_vars
        => [\A e \in m_queue : e.packet \in PacketsOf(forwarded') => now <= e.expire]_vars
  <2> SUFFICES ASSUME DeferredInv, Next, NEW e \in m_queue, e.packet \in PacketsOf(forwarded')
               PROVE  now <= e.expire
    OBVIOUS
  <2>1. /\ e.packet \in sent /\ e.packet \notin PacketsOf(forwarded) /\ e \in QueueEntry
        /\ now \in Nat /\ Single
    BY QueuedIsHeld, OnceIsPlacedAndSingle DEF DeferredInv, TypeOK
  <2>2. forwarded' # forwarded
    BY <2>1
  <2>3. ASSUME NEW p \in Packets, NEW outcome \in Outcomes, RouteOutput(p, outcome)
        PROVE  now <= e.expire
    BY <2>1, <2>2, <2>3 DEF RouteOutput, PacketsOf
  <2>4. ASSUME NEW o \in Destinations, NEW outcome \in Outcomes, RecvMyprotocol(o, outcome)
        PROVE  now <= e.expire
    <3> DEFINE woken == ForDst(PurgeQueue(m_queue, now), o)
    <3>1. forwarded' = HandOver(woken)
      BY <2>2, <2>4 DEF RecvMyprotocol
    <3>2. woken \subseteq m_queue /\ \A f \in woken : f.expire >= now
      BY DEF ForDst, PurgeQueue
    <3> HIDE DEF woken
    <3>3. \E f \in woken : f.packet = e.packet
      <4>1. PICK f \in forwarded' : f.packet = e.packet
        BY DEF PacketsOf
      <4>2. f \notin forwarded
        BY <2>1, <4>1, PacketsOfSets
      <4>3. \A g \in forwarded' : g \in forwarded \/ \E x \in woken : g = Handed(woken, x)
        BY <3>1 DEF HandOver, Handed, Turn, UpTo
      <4>4. \A x \in woken : Handed(woken, x).packet = x.packet
        BY DEF Handed
      <4> QED
        BY <4>1, <4>2, <4>3, <4>4
    <3>4. e \in woken
      BY <2>1, <3>2, <3>3 DEF Single
    <3> QED
      BY <2>1, <3>2, <3>4 DEF QueueEntry
  <2> QED
    BY <2>2, <2>3, <2>4 DEF Next, RouteInput, Forwarding, Tick
<1> QED
  BY <1>1, DeferredInvariant, PTL DEF Spec, NoLateForward

\* A packet is given up in time only for want of room, as the oldest, or for want of
\* a next hop to a destination that has just reported.
THEOREM DropsAreDue == Spec => OnlyDueDrops
<1> DEFINE due(e) ==
      \/ /\ Cardinality(PurgeQueue(m_queue, now)) = MaxQueueLen
         /\ \A f \in PurgeQueue(m_queue, now) : e.ticket <= f.ticket
      \/ /\ ForDst(m_queue', e.dst) = {}
         /\ [adress |-> e.dst, timestamp |-> now] \in m_positionTable'
<1>1. DeferredInv /\ [Next]_vars
        => [\A e \in m_queue : (e.packet \in dropped' /\ now <= e.expire) => due(e)]_vars
  <2> SUFFICES ASSUME DeferredInv, Next, NEW e \in m_queue, e.packet \in dropped',
                      now <= e.expire
               PROVE  due(e)
    OBVIOUS
  <2>1. /\ e.packet \notin dropped /\ e \in QueueEntry /\ now \in Nat
        /\ \A l \in loopback : l.packet # e.packet
        /\ TypeOK /\ Finite /\ QueueBounded /\ Single
    BY QueuedIsHeld, OnceIsPlacedAndSingle DEF DeferredInv, TypeOK
  <2>2. ASSUME e.packet \in PacketsOf(m_queue \ m_queue') PROVE e \notin m_queue'
    BY <2>1, <2>2 DEF Single, PacketsOf
  <2>3. ASSUME NEW l \in loopback, RouteInput(l) PROVE due(e)
    <3>1. dropped' # dropped \cup {l.packet}
      BY <2>1
    <3>2. /\ m_queue' = Enqueue(m_queue, l.packet, DstOf[l.packet], l.ticket, now)
          /\ dropped' = dropped \cup PacketsOf(m_queue \ m_queue')
      BY <2>3, <3>1 DEF RouteInput
    <3> DEFINE new == [packet |-> l.packet, dst |-> DstOf[l.packet],
                       expire |-> now + QueueTimeout, ticket |-> l.ticket]
    <3>3. \A f \in m_queue : f.packet # l.packet
      BY QueuedIsHeld DEF DeferredInv
    <3>4. IsEnqueued(m_queue', m_queue, new, now)
      BY <2>1, <3>2, <3>3, EnqueueAdds DEF TypeOK, Finite, QueueBounded
    <3>5. e \notin m_queue'
      BY <2>1, <2>2, <3>2
    <3> QED
      BY <3>4, <3>5 DEF IsEnqueued
  <2>4. ASSUME NEW o \in Destinations, NEW outcome \in Outcomes, RecvMyprotocol(o, outcome)
        PROVE  due(e)
    <3> DEFINE live == PurgeQueue(m_queue, now)
               rt == [adress |-> o, timestamp |-> now]
               known == Update(m_positionTable, rt)
    <3>1. Wakes(o)
      BY <2>1, <2>4 DEF RecvMyprotocol
    <3>2. m_queue' = live \ ForDst(live, o) /\ m_positionTable' = PurgeRoutes(known, now)
      BY <2>4, <3>1 DEF RecvMyprotocol, WithoutDst
    <3>3. e \in live
      BY <2>1 DEF PurgeQueue, QueueEntry
    <3>4. e.packet \in PacketsOf(m_queue \ live) => e \notin live
      BY <2>1 DEF Single, PacketsOf, PurgeQueue
    <3>5. e.packet \in PacketsOf(m_queue \ m_queue')
      BY <2>1, <2>4, <3>1, <3>3, <3>4 DEF RecvMyprotocol
    <3>6. e.dst = o /\ ForDst(m_queue', o) = {}
      BY <2>2, <3>2, <3>3, <3>5 DEF ForDst
    <3>7. rt \in PurgeRoutes(known, now)
      <4>1. rt \in known
        BY DEF Update, AddRoute
      <4>2. now < now + EntryLifeTime
        BY <2>1, DeferredOutputAssumption
      <4> HIDE DEF known
      <4> QED
        BY <2>1, <4>1, <4>2, DeferredOutputAssumption DEF PurgeRoutes
    <3> QED
      BY <3>2, <3>6, <3>7
  <2> QED
    BY <2>1, <2>3, <2>4 DEF Next, RouteOutput, Forwarding, Tick
<1>2. DeferredInv /\ [Next]_vars
        => [\A e \in m_queue :
              (e.packet \in dropped' /\ now <= e.expire) =>
                \/ /\ Cardinality(PurgeQueue(m_queue, now)) = MaxQueueLen
                   /\ \A f \in PurgeQueue(m_queue, now) : e.ticket <= f.ticket
                \/ /\ ForDst(m_queue', e.dst) = {}
                   /\ [adress |-> e.dst, timestamp |-> now] \in m_positionTable']_vars
  BY <1>1
<1> QED
  BY <1>2, DeferredInvariant, PTL DEF Spec, OnlyDueDrops

------------------------------------------------------------------------------
(* The output path implements PacketCustody. *)

\* At most one entry with packet p.
LEMMA OneEntryCounts ==
  ASSUME NEW S, NEW p, \A e, f \in S : e.packet = f.packet => e = f
  PROVE  Cardinality({e \in S : e.packet = p}) = IF p \in PacketsOf(S) THEN 1 ELSE 0
<1>1. CASE p \in PacketsOf(S)
  <2>1. PICK e \in S : e.packet = p
    BY <1>1 DEF PacketsOf
  <2>2. {f \in S : f.packet = p} = {e}
    BY <2>1
  <2>3. Cardinality({e}) = 1
    BY FS_Singleton
  <2> QED
    BY <1>1, <2>2, <2>3
<1>2. CASE p \notin PacketsOf(S)
  <2>1. {f \in S : f.packet = p} = {}
    BY <1>2 DEF PacketsOf
  <2> QED
    BY <1>2, <2>1, FS_EmptySet
<1> QED
  BY <1>1, <1>2

\* The copies held are those of the packets sent that nothing has become of.
Gone == PacketsOf(forwarded) \cup dropped
IsCopies(c, s, g) == c = [p \in Packets |-> IF p \in s \ g THEN 1 ELSE 0]

LEMMA OneCopyEach ==
  ASSUME NEW L, NEW Q, NEW s, NEW F, NEW d,
         Parted(s, PacketsOf(L), PacketsOf(Q), F, d),
         \A e, f \in L : e.packet = f.packet => e = f,
         \A e, f \in Q : e.packet = f.packet => e = f
  PROVE  IsCopies([p \in Packets |-> Cardinality({l \in L : l.packet = p})
                                       + Cardinality({e \in Q : e.packet = p})], s, F \cup d)
<1>1. ASSUME NEW p \in Packets
      PROVE  Cardinality({l \in L : l.packet = p}) + Cardinality({e \in Q : e.packet = p})
               = IF p \in s \ (F \cup d) THEN 1 ELSE 0
  <2>1. /\ Cardinality({l \in L : l.packet = p}) = IF p \in PacketsOf(L) THEN 1 ELSE 0
        /\ Cardinality({e \in Q : e.packet = p}) = IF p \in PacketsOf(Q) THEN 1 ELSE 0
    BY OneEntryCounts
  <2>2. /\ p \in s \ (F \cup d) <=> (p \in PacketsOf(L) \/ p \in PacketsOf(Q))
        /\ ~ (p \in PacketsOf(L) /\ p \in PacketsOf(Q))
    BY DEF Parted
  <2> QED
    BY <2>1, <2>2
<1> QED
  BY <1>1 DEF IsCopies

LEMMA CopiesHeld ==
  ASSUME DeferredInv, DeferredInv'
  PROVE  IsCopies(copies, sent, Gone) /\ IsCopies(copies', sent', Gone')
<1>1. IsCopies(copies, sent, Gone)
  BY OneCopyEach, OnceIsPlacedAndSingle DEF DeferredInv, InTurn, Placed, Single, copies, Gone
<1>2. IsCopies(copies', sent', Gone')
  BY OneCopyEach, OnceIsPlacedAndSingle DEF DeferredInv, InTurn, Placed, Single, copies, Gone
<1> QED
  BY <1>1, <1>2

\* The histories only grow.
LEMMA HistoriesGrow ==
  ASSUME DeferredInv, Next
  PROVE  /\ sent \subseteq sent' /\ dropped \subseteq dropped'
         /\ PacketsOf(forwarded) \subseteq PacketsOf(forwarded')
<1>1. sent \subseteq sent' /\ dropped \subseteq dropped' /\ forwarded \subseteq forwarded'
  <2>1. ASSUME NEW p \in Packets, NEW outcome \in Outcomes, RouteOutput(p, outcome)
        PROVE  sent \subseteq sent' /\ dropped \subseteq dropped' /\ forwarded \subseteq forwarded'
    BY <2>1 DEF RouteOutput
  <2>2. ASSUME NEW l \in loopback, RouteInput(l)
        PROVE  sent \subseteq sent' /\ dropped \subseteq dropped' /\ forwarded \subseteq forwarded'
    BY <2>2 DEF RouteInput
  <2>3. ASSUME NEW o \in Destinations, NEW outcome \in Outcomes, RecvMyprotocol(o, outcome)
        PROVE  sent \subseteq sent' /\ dropped \subseteq dropped' /\ forwarded \subseteq forwarded'
    BY <2>3 DEF RecvMyprotocol, HandOver
  <2> QED
    BY <2>1, <2>2, <2>3 DEF Next, Forwarding, Tick
<1> QED
  BY <1>1 DEF PacketsOf

\* Custody changes hands as a step of the histories says.
LEMMA CustodyStep ==
  ASSUME DeferredInv, DeferredInv', Next
  PROVE  Custody!Next
<1> DEFINE taken == sent' \ sent
           done == Gone' \ Gone
           outcome == [p \in done |-> IF p \in PacketsOf(forwarded')
                                        THEN "forwarded" ELSE "dropped"]
<1>1. /\ sent \subseteq sent' /\ Gone \subseteq Gone' /\ sent' \subseteq Packets
      /\ Gone \subseteq sent /\ Gone' \subseteq sent'
  BY HistoriesGrow DEF Gone, DeferredInv, TypeOK, EveryPacketOnce
<1>2. /\ copies = [p \in Packets |-> IF p \in sent \ Gone THEN 1 ELSE 0]
      /\ copies' = [p \in Packets |-> IF p \in sent' \ Gone' THEN 1 ELSE 0]
  BY CopiesHeld DEF IsCopies
<1>3. {p \in Packets : copies[p] = 1} = sent \ Gone
  BY <1>1, <1>2
<1>4. \A p \in taken : copies[p] = 0 /\ outcomes[p] = {}
  <2> TAKE p \in taken
  <2>1. p \in Packets /\ p \notin sent /\ p \notin Gone
    BY <1>1
  <2> QED
    BY <1>2, <2>1 DEF outcomes, Gone
<1>5. done \subseteq (sent \ Gone) \cup taken
  BY <1>1
<1>6. copies' = [p \in Packets |->
                   IF p \in ((sent \ Gone) \cup taken) \ done THEN 1 ELSE 0]
  <2>1. ((sent \ Gone) \cup taken) \ done = sent' \ Gone'
    BY <1>1
  <2> QED
    BY <1>2, <2>1
<1>7. outcomes' = [p \in Packets |-> IF p \in done THEN {outcome[p]} ELSE outcomes[p]]
  <2>1. ASSUME NEW p \in Packets
        PROVE  (IF p \in PacketsOf(forwarded') THEN {"forwarded"} ELSE {})
                 \cup (IF p \in dropped' THEN {"dropped"} ELSE {})
                 = IF p \in done THEN {outcome[p]} ELSE outcomes[p]
    <3>1. /\ PacketsOf(forwarded) \subseteq PacketsOf(forwarded') /\ dropped \subseteq dropped'
          /\ PacketsOf(forwarded') \cap dropped' = {}
      BY HistoriesGrow DEF DeferredInv, EveryPacketOnce
    <3>2. p \in done => outcome[p] = IF p \in PacketsOf(forwarded') THEN "forwarded" ELSE "dropped"
      OBVIOUS
    <3>3. outcomes[p] = (IF p \in PacketsOf(forwarded) THEN {"forwarded"} ELSE {})
                          \cup (IF p \in dropped THEN {"dropped"} ELSE {})
      BY DEF outcomes
    <3>4. p \in done <=> /\ p \in PacketsOf(forwarded') \/ p \in dropped'
                         /\ p \notin PacketsOf(forwarded) /\ p \notin dropped
      BY DEF Gone
    <3> HIDE DEF done, outcome
    <3> QED
      BY <3>1, <3>2, <3>3, <3>4
  <2> HIDE DEF done, outcome
  <2> QED
    BY <2>1 DEF outcomes
<1>8. outcome \in [done -> {"forwarded", "dropped"}]
  OBVIOUS
<1>9. taken \in SUBSET Packets /\ done \in SUBSET Packets
  BY <1>1
<1> HIDE DEF taken, done, outcome
<1>10. Custody!Step(taken, done, outcome)
  BY <1>3, <1>4, <1>5, <1>6, <1>7 DEF Custody!Step
<1> QED
  BY <1>8, <1>9, <1>10 DEF Custody!Next

\* Whatever comes between its way through the loopback device, the queue and the
\* reports of its destination, the source has each packet once until it lets it go.
THEOREM DeferredOutputImplementsCustody == Spec => ImplementsCustody
<1>1. Init => Custody!Init
  <2> SUFFICES ASSUME Init PROVE Custody!Init
    OBVIOUS
  <2>1. copies = [p \in Packets |-> 0]
    BY FS_EmptySet DEF Init, copies
  <2>2. outcomes = [p \in Packets |-> {}]
    BY DEF Init, outcomes, PacketsOf
  <2> QED
    BY <2>1, <2>2 DEF Custody!Init
<1>2. DeferredInv /\ DeferredInv' /\ [Next]_vars => [Custody!Next]_<<copies, outcomes>>
  <2>1. UNCHANGED vars => UNCHANGED <<copies, outcomes>>
    BY DEF vars, copies, outcomes, PacketsOf
  <2> QED
    BY <2>1, CustodyStep
<1> QED
  BY <1>1, <1>2, DeferredInvariant, PTL DEF Spec, ImplementsCustody, Custody!Spec
==============================================================================
