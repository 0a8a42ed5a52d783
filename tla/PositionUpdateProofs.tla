------------------------ MODULE PositionUpdateProofs -------------------------
(***************************************************************************)
(* Proofs about PositionUpdate: type correctness, and, when floods are     *)
(* Timely, that no node relays a report twice, that floods end in time,    *)
(* that timestamps tell reports apart, that no node is its own neighbour   *)
(* and that no table entry is replaced by an older one.                    *)
(***************************************************************************)
EXTENDS PositionUpdate, FiniteSetTheorems, TLAPS

------------------------------------------------------------------------------
(* Arithmetic of the clock. *)

LEMMA TimestampNat ==
  ASSUME NEW t \in Nat PROVE Timestamp(t) \in Nat
  BY PositionUpdateAssumption DEF Timestamp, Seconds

\* Within the horizon a timestamp is the seconds of its tick: it never falls,
\* and over a second it rises.
LEMMA TimestampMono ==
  ASSUME Timely, NEW s \in Nat, NEW t \in Nat, s <= t, t <= Horizon
  PROVE  /\ Timestamp(s) <= Timestamp(t)
         /\ s + Second <= t => Timestamp(s) < Timestamp(t)
<1> USE PositionUpdateAssumption
<1>1. Seconds(s) \in Nat /\ Seconds(t) \in Nat
  BY DEF Seconds
<1>2. Seconds(s) < TimestampMod /\ Seconds(t) < TimestampMod
  <2>1. s < TimestampMod * Second /\ t < TimestampMod * Second
    <3>1. TimestampMod * Second \in Nat
      OBVIOUS
    <3>2. QED BY <3>1 DEF Timely
  <2>2. QED BY <2>1 DEF Seconds
<1>3. Timestamp(s) = Seconds(s) /\ Timestamp(t) = Seconds(t)
  BY <1>1, <1>2 DEF Timestamp
<1>4. QED BY <1>3 DEF Seconds

LEMMA TimesMono ==
  ASSUME NEW a \in Int, NEW b \in Int, NEW h \in Nat, a <= b
  PROVE  a * h <= b * h
  OBVIOUS

LEMMA TimesSucc ==
  ASSUME NEW a \in Int, NEW h \in Nat
  PROVE  (a + 1 - 1) * h = (a - 1) * h + h
  OBVIOUS

------------------------------------------------------------------------------
(* Type correctness. *)

LEMMA SendUpdateType ==
  ASSUME TypeOK, NEW n \in Nodes, SendUpdate(n)
  PROVE  /\ m_idCache' \in [Nodes -> SUBSET UniqueId]
         /\ m_positionTable' \in [Nodes -> SUBSET Entry]
         /\ m_lastSendTime' \in [Nodes -> Nat]
         /\ m_lastSendPos' \in [Nodes -> Ticks]
         /\ updates' \subseteq Copy
         /\ accepted' \subseteq [node : Nodes, origin : Nodes, born : Ticks]
<1> USE PositionUpdateAssumption
<1>1. Timestamp(now) \in Nat
  BY TimestampNat DEF TypeOK, Ticks
<1>2. m_lastSendTime' \in [Nodes -> Nat] /\ m_lastSendPos' \in [Nodes -> Ticks]
  BY <1>1 DEF TypeOK, SendUpdate, Ticks
<1>3. Remember(m_idCache[n], n, Timestamp(now), now) \subseteq UniqueId
  BY <1>1 DEF TypeOK, Remember, PurgeIds, UniqueId, Ticks
<1>4. m_idCache' \in [Nodes -> SUBSET UniqueId]
  BY <1>3 DEF TypeOK, SendUpdate
<1>5. Update(m_positionTable[n], [adress |-> Loopback, timestamp |-> Timestamp(now),
                                  born |-> now]) \subseteq Entry
  BY <1>1 DEF TypeOK, Update, Entry, Ticks
<1>6. m_positionTable' \in [Nodes -> SUBSET Entry]
  BY <1>5 DEF TypeOK, SendUpdate
<1>7. Copies(n, n, Timestamp(now), now) \subseteq Copy
  BY <1>1 DEF TypeOK, Copies, Copy, Ticks
<1>8. updates' \subseteq Copy
  BY <1>7 DEF TypeOK, SendUpdate
<1>9. accepted' \subseteq [node : Nodes, origin : Nodes, born : Ticks]
  BY DEF TypeOK, SendUpdate, OnAir, Ticks
<1>10. QED BY <1>2, <1>4, <1>6, <1>8, <1>9

LEMMA RecvMyprotocolType ==
  ASSUME TypeOK, NEW c \in updates, RecvMyprotocol(c)
  PROVE  TypeOK'
<1> USE PositionUpdateAssumption
<1> DEFINE n == c.to
<1>1. c \in Copy /\ n \in Nodes
  BY DEF TypeOK, Copy
<1>2. Remember(m_idCache[n], c.origin, c.timestamp, now) \subseteq UniqueId
  BY <1>1 DEF TypeOK, Remember, PurgeIds, UniqueId, Ticks, Copy
<1>3. m_idCache' \in [Nodes -> SUBSET UniqueId]
  BY <1>1, <1>2 DEF TypeOK, RecvMyprotocol
<1>4. Update(m_positionTable[n], [adress |-> c.origin, timestamp |-> c.timestamp,
                                  born |-> c.born]) \subseteq Entry
  BY <1>1 DEF TypeOK, Update, Entry, Copy
<1>5. m_positionTable' \in [Nodes -> SUBSET Entry]
  BY <1>1, <1>4 DEF TypeOK, RecvMyprotocol
<1>6. Copies(n, c.origin, c.timestamp, c.born) \subseteq Copy
  BY <1>1 DEF TypeOK, Copies, Copy, Ticks
<1>7. updates' \subseteq Copy
  BY <1>6 DEF TypeOK, RecvMyprotocol
<1>8. accepted' \subseteq [node : Nodes, origin : Nodes, born : Ticks]
  BY <1>1 DEF TypeOK, RecvMyprotocol, OnAir, Copy
<1>9. QED BY <1>3, <1>5, <1>7, <1>8 DEF TypeOK, RecvMyprotocol

\* Every variable keeps its type, for every network and every choice of timing.
THEOREM TypeCorrect == Spec => []TypeOK
<1> USE PositionUpdateAssumption
<1>1. Init => TypeOK
  BY DEF Init, TypeOK, AddRoute, HasRoute, Entry, Ticks
<1>2. TypeOK /\ [Next]_vars => TypeOK'
  <2> SUFFICES ASSUME TypeOK, [Next]_vars PROVE TypeOK'
    OBVIOUS
  <2>1. CASE \E n \in Reporters : Start(n)
    <3>1. PICK n \in Reporters : Start(n)
      BY <2>1
    <3>2. n \in Nodes /\ SendUpdate(n)
      BY <3>1 DEF Start
    <3>3. m_checkChangeTimer' \in [Nodes -> Ticks]
      BY <3>1 DEF Start, TypeOK, Ticks
    <3>4. QED BY <3>1, <3>2, <3>3, SendUpdateType DEF Start, TypeOK
  <2>2. CASE \E n \in Reporters : CheckChange(n)
    <3>1. PICK n \in Reporters : CheckChange(n)
      BY <2>2
    <3>2. m_checkChangeTimer' \in [Nodes -> Ticks] /\ now' = now
      BY <3>1 DEF CheckChange, TypeOK, Ticks
    <3>3. CASE SendUpdate(n)
      BY <3>2, <3>3, SendUpdateType DEF TypeOK
    <3>4. CASE UNCHANGED <<nodeVars, m_idCache, updates, accepted>>
      BY <3>2, <3>4 DEF TypeOK, nodeVars
    <3>5. QED BY <3>1, <3>3, <3>4 DEF CheckChange
  <2>3. CASE \E n \in Nodes : RouteOutput(n)
    BY <2>3 DEF RouteOutput, TypeOK, PurgeRoutes
  <2>4. CASE \E c \in updates : RecvMyprotocol(c)
    BY <2>4, RecvMyprotocolType
  <2>5. CASE \E c \in updates : Lose(c)
    BY <2>5 DEF Lose, TypeOK, OnAir, nodeVars
  <2>6. CASE Tick
    BY <2>6 DEF Tick, TypeOK, nodeVars, Ticks
  <2>7. CASE UNCHANGED vars
    BY <2>7 DEF vars, TypeOK
  <2>8. QED BY <2>1, <2>2, <2>3, <2>4, <2>5, <2>6, <2>7 DEF Next
<1>3. QED BY <1>1, <1>2, PTL DEF Spec

------------------------------------------------------------------------------
(* The inductive invariant of a timely network. *)

Report(n, o, b) == [node |-> n, origin |-> o, born |-> b]

\* The nodes that have sent or relayed a report still on the air.
Relays(o, b) == {n \in Nodes : Report(n, o, b) \in accepted}

\* No event is overdue, and a sender's next check is a second away from its
\* last report.
Clock ==
  /\ now <= Horizon
  /\ \A n \in Reporters : now <= m_checkChangeTimer[n]
  /\ \A n \in Nodes : m_checkChangeTimer[n] > 0 =>
       /\ m_lastSendPos[n] <= now
       /\ m_lastSendPos[n] + Second <= m_checkChangeTimer[n]

\* A copy was sent within one hop delay of now, by a node that has accepted the
\* report, and within one hop delay per relay of the report's birth.
Flood ==
  \A c \in updates :
    /\ c.from # c.to
    /\ c.sent <= now /\ now <= c.sent + HopDelay
    /\ c.born <= c.sent
    /\ c.sent <= c.born + (Cardinality(Relays(c.origin, c.born)) - 1) * HopDelay
    /\ c.timestamp = Timestamp(c.born)
    /\ m_checkChangeTimer[c.origin] > 0 /\ c.born <= m_lastSendPos[c.origin]
    /\ {c.origin, c.from} \subseteq Relays(c.origin, c.born)

\* The history holds nothing about reports off the air.
Pruned ==
  \A a \in accepted : \E c \in updates : c.origin = a.origin /\ c.born = a.born

\* Two reports of one sender are a second apart.
Apart ==
  \A c, d \in updates :
    (c.origin = d.origin /\ c.born < d.born) => c.born + Second <= d.born

\* The id cache of a node that has accepted a report remembers it for
\* IdLifetime from its birth.
Memory ==
  \A c \in updates : \A n \in Relays(c.origin, c.born) :
    \E u \in m_idCache[n] :
      /\ u.context = c.origin /\ u.timestamp = c.timestamp
      /\ c.born + IdLifetime <= u.expire

\* No id cache knows a timestamp its sender has not used.
IdsUsed ==
  \A n \in Nodes : \A u \in m_idCache[n] :
    /\ m_checkChangeTimer[u.context] > 0
    /\ u.timestamp <= Timestamp(m_lastSendPos[u.context])

\* A table has one entry per address; the entry of another node was born before
\* now, and is a second older or younger than any other report of that node.
Tables ==
  \A n \in Nodes :
    /\ \A r, q \in m_positionTable[n] : r.adress = q.adress => r = q
    /\ \A r \in m_positionTable[n] :
         /\ r.born <= now /\ r.adress # n
         /\ r.adress # Loopback =>
              /\ r.born < now /\ m_checkChangeTimer[r.adress] > 0
              /\ r.born <= m_lastSendPos[r.adress]
              /\ \A c \in updates :
                   (c.origin = r.adress /\ c.born < r.born) => c.born + Second <= r.born

FloodInv == Clock /\ Flood /\ Pruned /\ Apart /\ Memory /\ IdsUsed /\ Tables

------------------------------------------------------------------------------
(* What the invariant implies. *)

LEMMA RelaysFinite ==
  ASSUME NEW o, NEW b
  PROVE  /\ IsFiniteSet(Relays(o, b)) /\ Cardinality(Relays(o, b)) \in Nat
         /\ Cardinality(Relays(o, b)) <= Cardinality(Nodes)
         /\ Cardinality(Nodes) \in Nat
<1>1. IsFiniteSet(Nodes) /\ Relays(o, b) \subseteq Nodes
  BY PositionUpdateAssumption DEF Relays
<1>2. QED BY <1>1, FS_Subset, FS_CardinalityType

LEMMA FloodEnds ==
  ASSUME TypeOK, Flood PROVE FloodEndsInTime
<1> USE PositionUpdateAssumption
<1> SUFFICES ASSUME NEW c \in updates
             PROVE  now <= c.born + Cardinality(Nodes) * HopDelay
  BY DEF FloodEndsInTime
<1> DEFINE k == Cardinality(Relays(c.origin, c.born))
           m == Cardinality(Nodes)
<1>1. k \in Nat /\ m \in Nat /\ k <= m
  BY RelaysFinite
<1>2. (k - 1) * HopDelay <= (m - 1) * HopDelay
  <2> HIDE DEF k, m
  <2>1. k - 1 \in Int /\ m - 1 \in Int /\ k - 1 <= m - 1
    BY <1>1
  <2>2. QED BY <2>1, TimesMono
<1>3. (m - 1) * HopDelay + HopDelay = m * HopDelay
  BY <1>1, TimesSucc
<1>4. now <= c.sent + HopDelay /\ c.sent <= c.born + (k - 1) * HopDelay
  BY DEF Flood
<1>5. c.sent \in Nat /\ c.born \in Nat /\ now \in Nat
  BY DEF TypeOK, Copy, Ticks
<1>6. (k - 1) * HopDelay \in Int /\ (m - 1) * HopDelay \in Int /\ m * HopDelay \in Int
  BY <1>1
<1>7. QED
  <2> HIDE DEF k, m
  <2>1. now <= c.born + m * HopDelay
    BY <1>2, <1>3, <1>4, <1>5, <1>6
  <2>2. QED BY <2>1 DEF m

LEMMA RelayIsDuplicate ==
  ASSUME TypeOK, Flood, Memory, Timely, NEW c \in updates,
         NEW n \in Relays(c.origin, c.born)
  PROVE  IsDuplicate(m_idCache[n], c.origin, c.timestamp, now)
<1> USE PositionUpdateAssumption
<1>1. PICK u \in m_idCache[n] :
        u.context = c.origin /\ u.timestamp = c.timestamp
          /\ c.born + IdLifetime <= u.expire
  BY DEF Memory
<1>2. now <= c.born + Cardinality(Nodes) * HopDelay
  BY FloodEnds DEF FloodEndsInTime
<1>3. Cardinality(Nodes) * HopDelay \in Nat
  BY RelaysFinite
<1>4. n \in Nodes /\ now \in Nat /\ c.born \in Nat /\ u.expire \in Nat
  BY DEF TypeOK, Relays, UniqueId, Copy, Ticks
<1>5. now <= u.expire
  BY <1>1, <1>2, <1>3, <1>4 DEF Timely
<1>6. QED BY <1>1, <1>4, <1>5 DEF IsDuplicate, PurgeIds

LEMMA SeenDuplicate ==
  ASSUME TypeOK, Flood, Memory, Timely PROVE SeenIsDuplicate
<1> SUFFICES ASSUME NEW c \in updates, NEW a \in accepted,
                    a.node = c.to, a.origin = c.origin, a.born = c.born
             PROVE  IsDuplicate(m_idCache[c.to], c.origin, c.timestamp, now)
  BY DEF SeenIsDuplicate
<1>1. a = Report(c.to, c.origin, c.born) /\ c.to \in Nodes
  BY DEF TypeOK, Report, Copy
<1>2. QED BY <1>1, RelayIsDuplicate DEF Relays

LEMMA IdsUnique ==
  ASSUME TypeOK, Clock, Flood, Apart, Timely PROVE UpdateIdsUnique
<1> SUFFICES ASSUME NEW c \in updates, NEW d \in updates,
                    c.origin = d.origin, c.born < d.born
             PROVE  c.timestamp # d.timestamp
  BY DEF UpdateIdsUnique, TypeOK, Copy, Ticks
<1>1. c.born + Second <= d.born /\ d.born <= Horizon
  BY PositionUpdateAssumption DEF Apart, Clock, Flood, TypeOK, Copy, Ticks
<1>2. c.born \in Nat /\ d.born \in Nat
  BY DEF TypeOK, Copy, Ticks
<1>3. Timestamp(c.born) < Timestamp(d.born)
  BY <1>1, <1>2, TimestampMono
<1>4. QED BY <1>2, <1>3, TimestampNat DEF Flood

LEMMA NotOwnNeighbor ==
  ASSUME Tables PROVE NeverOwnNeighbor
  BY DEF Tables, NeverOwnNeighbor, HasRoute

------------------------------------------------------------------------------
(* The steps. *)

\* Pruning the history keeps what concerns the copies on the air.
LEMMA OnAirKeeps ==
  ASSUME NEW acc, NEW ups, NEW c \in ups, NEW n
  PROVE  Report(n, c.origin, c.born) \in OnAir(acc, ups)
           <=> Report(n, c.origin, c.born) \in acc
  BY DEF OnAir, Report

\* A step that only removes copies, expired identifiers and table entries.
LEMMA Shrinking ==
  ASSUME TypeOK, FloodInv, Timely,
         now' = now, m_checkChangeTimer' = m_checkChangeTimer,
         m_lastSendPos' = m_lastSendPos, updates' \subseteq updates, Pruned',
         \A c \in updates' : Relays(c.origin, c.born)' = Relays(c.origin, c.born),
         \A n \in Nodes : PurgeIds(m_idCache[n], now) \subseteq m_idCache'[n]
                          /\ m_idCache'[n] \subseteq m_idCache[n],
         \A n \in Nodes : m_positionTable'[n] \subseteq m_positionTable[n]
  PROVE  FloodInv'
<1>1. Clock'
  BY DEF FloodInv, Clock
<1>2. Flood'
  BY DEF FloodInv, Flood, Timestamp, Seconds
<1>3. Apart'
  BY DEF FloodInv, Apart
<1>4. Memory'
  <2> SUFFICES ASSUME NEW c \in updates', NEW n \in Relays(c.origin, c.born)
               PROVE  \E u \in m_idCache'[n] : u.context = c.origin
                        /\ u.timestamp = c.timestamp /\ c.born + IdLifetime <= u.expire
    BY DEF Memory
  <2>1. PICK u \in m_idCache[n] : u.context = c.origin
          /\ u.timestamp = c.timestamp /\ c.born + IdLifetime <= u.expire
    BY DEF FloodInv, Memory
  <2>2. n \in Nodes /\ c \in updates
    BY DEF Relays
  <2>3. u \in PurgeIds(m_idCache[n], now)
    <3>1. now <= c.born + Cardinality(Nodes) * HopDelay
      BY <2>2, FloodEnds DEF FloodInv, FloodEndsInTime
    <3>2. Cardinality(Nodes) * HopDelay \in Nat
      BY RelaysFinite, PositionUpdateAssumption
    <3>3. now \in Nat /\ c.born \in Nat /\ u.expire \in Nat
      BY <2>2 DEF TypeOK, UniqueId, Copy, Ticks
    <3>4. now <= u.expire
      BY <2>1, <3>1, <3>2, <3>3, PositionUpdateAssumption DEF Timely
    <3>5. QED BY <3>4, <3>3 DEF PurgeIds
  <2>4. QED BY <2>1, <2>2, <2>3
<1>5. IdsUsed'
  BY DEF FloodInv, IdsUsed, Timestamp, Seconds
<1>6. Tables'
  BY DEF FloodInv, Tables
<1>7. QED BY <1>1, <1>2, <1>3, <1>4, <1>5, <1>6 DEF FloodInv

LEMMA TickStep ==
  ASSUME TypeOK, FloodInv, Tick PROVE FloodInv'
<1> USE PositionUpdateAssumption DEF Tick, nodeVars
<1>1. now' = now + 1 /\ now \in Nat
  BY DEF TypeOK, Ticks
<1>2. Clock'
  <2>1. now' <= Horizon
    BY <1>1
  <2>2. \A n \in Reporters : now' <= m_checkChangeTimer'[n]
    BY <1>1 DEF TypeOK, Ticks
  <2>3. \A n \in Nodes : m_checkChangeTimer[n] > 0 => m_lastSendPos[n] <= now'
    BY <1>1 DEF FloodInv, Clock, TypeOK, Ticks
  <2>4. QED BY <2>1, <2>2, <2>3 DEF FloodInv, Clock
<1>3. Flood'
  <2> SUFFICES ASSUME NEW c \in updates PROVE c.sent <= now' /\ now' <= c.sent + HopDelay
    BY DEF FloodInv, Flood, Timestamp, Seconds, Relays
  <2>1. c.sent \in Nat
    BY DEF TypeOK, Copy, Ticks
  <2>2. QED BY <1>1, <2>1 DEF FloodInv, Flood
<1>4. Pruned' /\ Apart' /\ Memory' /\ IdsUsed'
  BY DEF FloodInv, Pruned, Apart, Memory, IdsUsed, Relays, Timestamp, Seconds
<1>5. Tables'
  <2>1. \A n \in Nodes : \A r \in m_positionTable[n] :
          r.born <= now' /\ (r.adress # Loopback => r.born < now')
    BY <1>1 DEF FloodInv, Tables, TypeOK, Entry, Ticks
  <2>2. QED BY <2>1 DEF FloodInv, Tables
<1>6. QED BY <1>2, <1>3, <1>4, <1>5 DEF FloodInv

\* SendUpdate by a node whose last report, if any, is a second old.
LEMMA SendUpdateStep ==
  ASSUME TypeOK, TypeOK', FloodInv, Timely, NEW n \in Reporters, SendUpdate(n),
         now' = now, m_checkChangeTimer[n] > 0 => m_lastSendPos[n] + Second <= now,
         NEW t \in Nat, now + Second <= t,
         m_checkChangeTimer' = [m_checkChangeTimer EXCEPT ![n] = t]
  PROVE  FloodInv'
<1> USE PositionUpdateAssumption
<1> DEFINE new == Copies(n, n, Timestamp(now), now)
<1>n. n \in Nodes /\ now \in Nat /\ t > 0
  BY DEF TypeOK, Ticks
<1>u. updates' = updates \cup new
  BY DEF SendUpdate
<1>p. m_lastSendPos' = [m_lastSendPos EXCEPT ![n] = now]
  BY DEF SendUpdate
<1>old. \A c \in updates : c.origin = n => c.born + Second <= now
  <2> SUFFICES ASSUME NEW c \in updates, c.origin = n PROVE c.born + Second <= now
    OBVIOUS
  <2>1. c.born <= m_lastSendPos[n] /\ m_checkChangeTimer[n] > 0
    BY DEF FloodInv, Flood
  <2>2. c.born \in Nat /\ m_lastSendPos[n] \in Nat
    BY <1>n DEF TypeOK, Copy, Ticks
  <2>3. QED BY <2>1, <2>2, <1>n
<1>new. \A c \in new : /\ c.origin = n /\ c.born = now /\ c.sent = now /\ c.from = n
                       /\ c.timestamp = Timestamp(now) /\ c.to # n
  BY <1>n DEF Copies
<1>acc. accepted' = OnAir(accepted \cup {Report(n, n, now)}, updates')
  BY DEF SendUpdate, Report
<1>rold. \A c \in updates : Relays(c.origin, c.born)' = Relays(c.origin, c.born)
  <2> SUFFICES ASSUME NEW c \in updates, NEW m \in Nodes
               PROVE  Report(m, c.origin, c.born)' \in accepted'
                        <=> Report(m, c.origin, c.born) \in accepted
    BY DEF Relays
  <2>1. c \in updates'
    BY <1>u
  <2>2. Report(m, c.origin, c.born) # Report(n, n, now)
    <3>1. c.origin = n => c.born # now
      BY <1>old, <1>n DEF TypeOK, Copy, Ticks
    <3>2. QED BY <3>1 DEF Report
  <2>3. Report(m, c.origin, c.born)' = Report(m, c.origin, c.born)
    BY DEF Report
  <2>4. QED BY <2>1, <2>2, <2>3, <1>acc, OnAirKeeps
<1>rnew. \A c \in new : Relays(c.origin, c.born)' = {n}
  <2> SUFFICES ASSUME NEW c \in new, NEW m \in Nodes
               PROVE  Report(m, n, now) \in accepted' <=> m = n
    BY <1>new, <1>n DEF Relays, Report
  <2>1. Report(m, n, now) \notin accepted
    <3>1. SUFFICES ASSUME Report(m, n, now) \in accepted PROVE FALSE
      OBVIOUS
    <3>2. PICK d \in updates : d.origin = n /\ d.born = now
      BY <3>1 DEF FloodInv, Pruned, Report
    <3>3. QED BY <3>2, <1>old, <1>n
  <2>2. Report(m, n, now) \in accepted' <=>
          Report(m, n, now) \in accepted \cup {Report(n, n, now)}
    BY <1>new, <1>u, <1>acc, OnAirKeeps
  <2>3. QED BY <2>1, <2>2 DEF Report
<1>h. now <= Horizon
  BY DEF FloodInv, Clock
<1>used. ~IsDuplicate(m_idCache[n], n, Timestamp(now), now)
  <2> SUFFICES ASSUME NEW u \in m_idCache[n], u.context = n, u.timestamp = Timestamp(now)
               PROVE  FALSE
    BY DEF IsDuplicate, PurgeIds
  <2>1. m_checkChangeTimer[n] > 0 /\ Timestamp(now) <= Timestamp(m_lastSendPos[n])
    BY <1>n DEF FloodInv, IdsUsed
  <2>2. m_lastSendPos[n] \in Nat /\ m_lastSendPos[n] + Second <= now
    BY <1>n, <2>1 DEF TypeOK, Ticks
  <2>3. Timestamp(m_lastSendPos[n]) < Timestamp(now)
    BY <2>2, <1>n, <1>h, TimestampMono
  <2>4. QED BY <2>1, <2>2, <2>3, <1>n, TimestampNat
<1>id. DEFINE own == [context |-> n, timestamp |-> Timestamp(now), expire |-> now + IdLifetime]
<1>ids. /\ m_idCache'[n] = PurgeIds(m_idCache[n], now) \cup {own}
        /\ \A m \in Nodes \ {n} : m_idCache'[m] = m_idCache[m]
  BY <1>used, <1>n DEF SendUpdate, Remember, TypeOK
<1>1. Clock'
  BY <1>n, <1>p, <1>h DEF FloodInv, Clock, TypeOK, Ticks
<1>2. Flood'
  <2> SUFFICES ASSUME NEW c \in updates' PROVE
        /\ c.from # c.to
        /\ c.sent <= now /\ now <= c.sent + HopDelay
        /\ c.born <= c.sent
        /\ c.sent <= c.born + (Cardinality(Relays(c.origin, c.born)') - 1) * HopDelay
        /\ c.timestamp = Timestamp(c.born)
        /\ m_checkChangeTimer'[c.origin] > 0 /\ c.born <= m_lastSendPos'[c.origin]
        /\ {c.origin, c.from} \subseteq Relays(c.origin, c.born)'
    BY DEF Flood, Timestamp, Seconds
  <2>1. CASE c \in updates
    <3>1. m_checkChangeTimer'[c.origin] > 0 /\ c.born <= m_lastSendPos'[c.origin]
      <4>1. CASE c.origin = n
        BY <4>1, <2>1, <1>n, <1>p, <1>old DEF TypeOK, Copy, Ticks
      <4>2. CASE c.origin # n
        BY <4>2, <2>1, <1>n, <1>p DEF FloodInv, Flood, TypeOK, Copy
      <4>3. QED BY <4>1, <4>2
    <3>2. QED BY <2>1, <3>1, <1>rold DEF FloodInv, Flood
  <2>2. CASE c \in new
    <3>1. Cardinality(Relays(c.origin, c.born)') = 1
      BY <2>2, <1>rnew, FS_Singleton
    <3>2. c.sent <= c.born + (Cardinality(Relays(c.origin, c.born)') - 1) * HopDelay
      BY <2>2, <3>1, <1>new, <1>n
    <3>3. m_checkChangeTimer'[c.origin] > 0 /\ c.born <= m_lastSendPos'[c.origin]
      BY <2>2, <1>new, <1>n, <1>p DEF TypeOK
    <3>4. QED BY <2>2, <3>2, <3>3, <1>new, <1>rnew, <1>n
  <2>3. QED BY <2>1, <2>2, <1>u
<1>3. Pruned'
  BY <1>acc DEF Pruned, OnAir
<1>4. Apart'
  <2> SUFFICES ASSUME NEW c \in updates', NEW d \in updates',
                      c.origin = d.origin, c.born < d.born
               PROVE  c.born + Second <= d.born
    BY DEF Apart
  <2>1. CASE c \in updates /\ d \in updates
    BY <2>1 DEF FloodInv, Apart
  <2>2. CASE c \in updates /\ d \in new
    BY <2>2, <1>new, <1>old
  <2>3. CASE c \in new
    <3>1. d.born <= now
      BY <2>3, <1>u, <1>new, <1>old, <1>n DEF TypeOK, Copy, Ticks
    <3>2. QED BY <2>3, <3>1, <1>new, <1>n DEF TypeOK, Copy, Ticks
  <2>4. QED BY <2>1, <2>2, <2>3, <1>u
<1>5. Memory'
  <2> SUFFICES ASSUME NEW c \in updates', NEW m \in Relays(c.origin, c.born)'
               PROVE  \E u \in m_idCache'[m] : u.context = c.origin
                        /\ u.timestamp = c.timestamp /\ c.born + IdLifetime <= u.expire
    BY DEF Memory
  <2>1. CASE c \in updates
    <3>1. m \in Nodes /\ m \in Relays(c.origin, c.born)
      BY <2>1, <1>rold DEF Relays
    <3>2. PICK u \in m_idCache[m] : u.context = c.origin
            /\ u.timestamp = c.timestamp /\ c.born + IdLifetime <= u.expire
      BY <2>1, <3>1 DEF FloodInv, Memory
    <3>3. u \in PurgeIds(m_idCache[m], now)
      <4>1. now <= c.born + Cardinality(Nodes) * HopDelay
        BY <2>1, FloodEnds DEF FloodInv, FloodEndsInTime
      <4>2. Cardinality(Nodes) * HopDelay \in Nat
        BY RelaysFinite
      <4>3. c.born \in Nat /\ u.expire \in Nat
        BY <2>1, <3>1 DEF TypeOK, UniqueId, Copy, Ticks
      <4>4. now <= u.expire
        BY <1>n, <3>2, <4>1, <4>2, <4>3 DEF Timely
      <4>5. QED BY <4>4, <4>3, <1>n DEF PurgeIds
    <3>4. QED BY <3>1, <3>2, <3>3, <1>ids
  <2>2. CASE c \in new
    <3>1. m = n /\ own \in m_idCache'[n]
      BY <2>2, <1>rnew, <1>ids
    <3>2. QED BY <3>1, <2>2, <1>new, <1>n
  <2>3. QED BY <2>1, <2>2, <1>u
<1>6. IdsUsed'
  <2> SUFFICES ASSUME NEW m \in Nodes, NEW u \in m_idCache'[m]
               PROVE  /\ m_checkChangeTimer'[u.context] > 0
                      /\ u.timestamp <= Timestamp(m_lastSendPos'[u.context])
    BY DEF IdsUsed, Timestamp, Seconds
  <2>1. CASE u = own
    BY <2>1, <1>n, <1>p, TimestampNat DEF TypeOK
  <2>2. CASE u # own
    <3>1. u \in m_idCache[m]
      BY <2>2, <1>ids DEF PurgeIds
    <3>2. m_checkChangeTimer[u.context] > 0
            /\ u.timestamp <= Timestamp(m_lastSendPos[u.context]) /\ u.context \in Nodes
            /\ u.timestamp \in Nat
      BY <3>1 DEF FloodInv, IdsUsed, TypeOK, UniqueId
    <3>3. CASE u.context = n
      <4>1. m_lastSendPos[n] \in Nat /\ m_lastSendPos[n] <= now
        BY <1>n, <3>2, <3>3 DEF FloodInv, Clock, TypeOK, Ticks
      <4>2. Timestamp(m_lastSendPos[n]) <= Timestamp(now)
        BY <4>1, <1>n, <1>h, TimestampMono
      <4>3. QED BY <3>2, <3>3, <4>1, <4>2, <1>n, <1>p, TimestampNat DEF TypeOK
    <3>4. CASE u.context # n
      BY <3>2, <3>4, <1>n, <1>p DEF TypeOK
    <3>5. QED BY <3>3, <3>4
  <2>3. QED BY <2>1, <2>2
<1>7. Tables'
  <2> DEFINE e == [adress |-> Loopback, timestamp |-> Timestamp(now), born |-> now]
  <2>t. /\ m_positionTable'[n] = {r \in m_positionTable[n] : r.adress # Loopback} \cup {e}
        /\ \A m \in Nodes \ {n} : m_positionTable'[m] = m_positionTable[m]
    BY <1>n DEF SendUpdate, Update, TypeOK
  <2>1. \A m \in Nodes : \A r, q \in m_positionTable'[m] : r.adress = q.adress => r = q
    BY <2>t DEF FloodInv, Tables
  <2>2. \A m \in Nodes : \A r \in m_positionTable'[m] : r.born <= now /\ r.adress # m
    BY <2>t, <1>n DEF FloodInv, Tables
  <2>3. ASSUME NEW m \in Nodes, NEW r \in m_positionTable'[m], r.adress # Loopback
        PROVE  /\ r.born < now /\ m_checkChangeTimer'[r.adress] > 0
               /\ r.born <= m_lastSendPos'[r.adress]
               /\ \A c \in updates' :
                    (c.origin = r.adress /\ c.born < r.born) => c.born + Second <= r.born
    <3>1. r \in m_positionTable[m] /\ r.adress \in Nodes /\ r.born \in Nat
      BY <2>3, <2>t DEF TypeOK, Entry, Ticks
    <3>2. r.born < now /\ m_checkChangeTimer[r.adress] > 0 /\ r.born <= m_lastSendPos[r.adress]
      BY <3>1, <2>3 DEF FloodInv, Tables
    <3>3. m_checkChangeTimer'[r.adress] > 0 /\ r.born <= m_lastSendPos'[r.adress]
      BY <3>1, <3>2, <1>n, <1>p DEF TypeOK
    <3>4. ASSUME NEW c \in updates', c.origin = r.adress, c.born < r.born
          PROVE  c.born + Second <= r.born
      <4>1. c \in updates
        BY <3>2, <3>4, <1>u, <1>new, <3>1, <1>n
      <4>2. QED BY <3>1, <3>4, <4>1, <2>3 DEF FloodInv, Tables
    <3>5. QED BY <3>2, <3>3, <3>4
  <2>4. QED BY <2>1, <2>2, <2>3 DEF Tables
<1>8. QED BY <1>1, <1>2, <1>3, <1>4, <1>5, <1>6, <1>7 DEF FloodInv

\* RecvMyprotocol of a report the node has not seen.
LEMMA RecvNewStep ==
  ASSUME TypeOK, TypeOK', FloodInv, Timely, NEW c \in updates, RecvMyprotocol(c),
         ~IsDuplicate(m_idCache[c.to], c.origin, c.timestamp, now)
  PROVE  FloodInv'
<1> USE PositionUpdateAssumption
<1> DEFINE n == c.to
           o == c.origin
           b == c.born
           new == Copies(n, o, c.timestamp, b)
           own == [context |-> o, timestamp |-> c.timestamp, expire |-> now + IdLifetime]
           e == [adress |-> o, timestamp |-> c.timestamp, born |-> b]
<1>c. /\ n \in Nodes /\ o \in Nodes /\ b \in Nat /\ now \in Nat /\ c.sent \in Nat
      /\ c.timestamp \in Nat
  BY DEF TypeOK, Copy, Ticks
<1>f. /\ c.sent < now /\ now <= c.sent + HopDelay /\ b <= c.sent
      /\ c.sent <= b + (Cardinality(Relays(o, b)) - 1) * HopDelay
      /\ c.timestamp = Timestamp(b)
      /\ m_checkChangeTimer[o] > 0 /\ b <= m_lastSendPos[o]
      /\ o \in Relays(o, b)
  BY DEF FloodInv, Flood, RecvMyprotocol
<1>n. n \notin Relays(o, b) /\ n # o
  BY <1>f, RelayIsDuplicate DEF FloodInv
<1>s. /\ now' = now /\ m_checkChangeTimer' = m_checkChangeTimer
      /\ m_lastSendPos' = m_lastSendPos
  BY DEF RecvMyprotocol
<1>u. updates' = (updates \ {c}) \cup new
  BY DEF RecvMyprotocol
<1>a. accepted' = OnAir(accepted \cup {Report(n, o, b)}, updates')
  BY DEF RecvMyprotocol, Report
<1>i. /\ m_idCache'[n] = PurgeIds(m_idCache[n], now) \cup {own}
      /\ \A m \in Nodes \ {n} : m_idCache'[m] = m_idCache[m]
  BY <1>c DEF RecvMyprotocol, Remember, TypeOK
<1>t. /\ m_positionTable'[n] = {r \in m_positionTable[n] : r.adress # o} \cup {e}
      /\ \A m \in Nodes \ {n} : m_positionTable'[m] = m_positionTable[m]
  BY <1>c DEF RecvMyprotocol, Update, TypeOK
<1>new. \A d \in new : /\ d.origin = o /\ d.born = b /\ d.sent = now /\ d.from = n
                       /\ d.timestamp = c.timestamp /\ d.to # n
  BY <1>c DEF Copies
\* A copy on the air after the step is of the report c, or was there before.
<1>same. ASSUME NEW d \in updates', d.origin = o, d.born = b
         PROVE  Relays(d.origin, d.born)' = Relays(o, b) \cup {n}
  <2> SUFFICES ASSUME NEW m \in Nodes
               PROVE  Report(m, o, b) \in accepted'
                        <=> Report(m, o, b) \in accepted \/ m = n
    BY <1>same, <1>c DEF Relays, Report
  <2>1. Report(m, o, b) \in accepted' <=>
          Report(m, o, b) \in accepted \cup {Report(n, o, b)}
    BY <1>same, <1>a, OnAirKeeps
  <2>2. QED BY <2>1 DEF Report
<1>other. ASSUME NEW d \in updates', ~(d.origin = o /\ d.born = b)
          PROVE  /\ d \in updates
                 /\ Relays(d.origin, d.born)' = Relays(d.origin, d.born)
  <2>1. d \in updates
    BY <1>other, <1>u, <1>new
  <2>2. ASSUME NEW m \in Nodes
        PROVE  Report(m, d.origin, d.born)' \in accepted'
                 <=> Report(m, d.origin, d.born) \in accepted
    <3>1. Report(m, d.origin, d.born) # Report(n, o, b)
      BY <1>other DEF Report
    <3>2. Report(m, d.origin, d.born)' = Report(m, d.origin, d.born)
      BY DEF Report
    <3>3. QED BY <3>1, <3>2, <1>a, OnAirKeeps
  <2>3. QED BY <2>1, <2>2 DEF Relays
<1>card. /\ Cardinality(Relays(o, b)) \in Nat
         /\ Cardinality(Relays(o, b) \cup {n}) = Cardinality(Relays(o, b)) + 1
  BY <1>n, RelaysFinite, FS_AddElement
<1>hop. /\ now <= b + (Cardinality(Relays(o, b) \cup {n}) - 1) * HopDelay
        /\ (Cardinality(Relays(o, b)) - 1) * HopDelay
             <= (Cardinality(Relays(o, b) \cup {n}) - 1) * HopDelay
  <2> DEFINE k == Cardinality(Relays(o, b))
  <2>1. k \in Nat
    BY <1>card
  <2>2. (k + 1 - 1) * HopDelay = (k - 1) * HopDelay + HopDelay /\ (k - 1) * HopDelay \in Int
    BY <2>1, TimesSucc
  <2>3. c.sent <= b + (k - 1) * HopDelay
    BY <1>f
  <2> HIDE DEF k
  <2>4. now <= b + (k + 1 - 1) * HopDelay
    BY <2>2, <2>3, <1>f, <1>c
  <2>5. (k - 1) * HopDelay <= (k + 1 - 1) * HopDelay
    BY <2>2
  <2>6. QED BY <2>4, <2>5, <1>card DEF k
<1>1. Clock'
  BY <1>s DEF FloodInv, Clock
<1>2. Flood'
  <2> SUFFICES ASSUME NEW d \in updates' PROVE
        /\ d.from # d.to
        /\ d.sent <= now /\ now <= d.sent + HopDelay
        /\ d.born <= d.sent
        /\ d.sent <= d.born + (Cardinality(Relays(d.origin, d.born)') - 1) * HopDelay
        /\ d.timestamp = Timestamp(d.born)
        /\ m_checkChangeTimer[d.origin] > 0 /\ d.born <= m_lastSendPos[d.origin]
        /\ {d.origin, d.from} \subseteq Relays(d.origin, d.born)'
    BY <1>s DEF Flood, Timestamp, Seconds
  <2>1. CASE d \in new
    <3>1. Relays(d.origin, d.born)' = Relays(o, b) \cup {n}
      BY <2>1, <1>new, <1>same
    <3>2. b <= now
      BY <1>c, <1>f
    <3>3. QED BY <2>1, <3>1, <3>2, <1>new, <1>hop, <1>f, <1>c
  <2>2. CASE d \in updates /\ d.origin = o /\ d.born = b
    <3>1. Relays(d.origin, d.born)' = Relays(o, b) \cup {n}
      BY <2>2, <1>same
    <3>2. d.sent <= b + (Cardinality(Relays(o, b)) - 1) * HopDelay /\ d.sent \in Nat
      BY <2>2 DEF FloodInv, Flood, TypeOK, Copy, Ticks
    <3>3. d.sent <= b + (Cardinality(Relays(o, b) \cup {n}) - 1) * HopDelay
      <4> DEFINE x == (Cardinality(Relays(o, b)) - 1) * HopDelay
                 y == (Cardinality(Relays(o, b) \cup {n}) - 1) * HopDelay
      <4>1. x \in Int /\ y \in Int /\ x <= y /\ d.sent <= b + x
        BY <3>2, <1>hop, <1>card
      <4> HIDE DEF x, y
      <4>2. d.sent <= b + y
        BY <4>1, <3>2, <1>c
      <4>3. QED BY <4>2 DEF y
    <3>4. QED BY <2>2, <3>1, <3>3 DEF FloodInv, Flood
  <2>3. CASE ~(d.origin = o /\ d.born = b)
    BY <2>3, <1>other DEF FloodInv, Flood
  <2>4. QED BY <2>1, <2>2, <2>3, <1>u
<1>3. Pruned'
  BY <1>a DEF Pruned, OnAir
\* Every copy on the air after the step has the origin and the birth of one
\* that was there before.
<1>was. \A d \in updates' : \E p \in updates : p.origin = d.origin /\ p.born = d.born
                                            /\ p.timestamp = d.timestamp
  BY <1>u, <1>new
<1>4. Apart'
  BY <1>was DEF FloodInv, Apart
<1>5. Memory'
  <2> SUFFICES ASSUME NEW d \in updates', NEW m \in Relays(d.origin, d.born)'
               PROVE  \E u \in m_idCache'[m] : u.context = d.origin
                        /\ u.timestamp = d.timestamp /\ d.born + IdLifetime <= u.expire
    BY DEF Memory
  <2>1. CASE m \in Relays(d.origin, d.born)
    <3>1. PICK p \in updates : p.origin = d.origin /\ p.born = d.born
                               /\ p.timestamp = d.timestamp
      BY <1>was
    <3>2. PICK u \in m_idCache[m] : u.context = d.origin
            /\ u.timestamp = d.timestamp /\ d.born + IdLifetime <= u.expire
      BY <2>1, <3>1 DEF FloodInv, Memory
    <3>3. m \in Nodes
      BY <2>1 DEF Relays
    <3>4. u \in PurgeIds(m_idCache[m], now)
      <4>1. now <= p.born + Cardinality(Nodes) * HopDelay
        BY <3>1, FloodEnds DEF FloodInv, FloodEndsInTime
      <4>2. Cardinality(Nodes) * HopDelay \in Nat
        BY RelaysFinite
      <4>3. p.born \in Nat /\ u.expire \in Nat
        BY <3>1, <3>3 DEF TypeOK, UniqueId, Copy, Ticks
      <4>4. now <= u.expire
        BY <1>c, <3>1, <3>2, <4>1, <4>2, <4>3 DEF Timely
      <4>5. QED BY <4>4, <4>3, <1>c DEF PurgeIds
    <3>5. QED BY <3>2, <3>3, <3>4, <1>i
  <2>2. CASE m \notin Relays(d.origin, d.born)
    <3>1. d.origin = o /\ d.born = b /\ m = n
      BY <2>2, <1>same, <1>other
    <3>2. d.timestamp = c.timestamp
      BY <3>1, <1>u, <1>new, <1>f DEF FloodInv, Flood
    <3>3. b + IdLifetime <= own.expire
      BY <1>c, <1>f
    <3>4. QED BY <3>1, <3>2, <3>3, <1>i
  <2>3. QED BY <2>1, <2>2
<1>6. IdsUsed'
  <2> SUFFICES ASSUME NEW m \in Nodes, NEW u \in m_idCache'[m]
               PROVE  /\ m_checkChangeTimer[u.context] > 0
                      /\ u.timestamp <= Timestamp(m_lastSendPos[u.context])
    BY <1>s DEF IdsUsed, Timestamp, Seconds
  <2>1. CASE u = own
    <3>1. m_lastSendPos[o] \in Nat /\ m_lastSendPos[o] <= Horizon
      BY <1>c, <1>f DEF FloodInv, Clock, TypeOK, Ticks
    <3>2. QED BY <2>1, <3>1, <1>c, <1>f, TimestampMono
  <2>2. CASE u # own
    BY <2>2, <1>i DEF FloodInv, IdsUsed, PurgeIds
  <2>3. QED BY <2>1, <2>2
<1>7. Tables'
  <2>1. \A m \in Nodes : \A r, q \in m_positionTable'[m] : r.adress = q.adress => r = q
    BY <1>t DEF FloodInv, Tables
  <2>2. \A m \in Nodes : \A r \in m_positionTable'[m] : r.born <= now /\ r.adress # m
    BY <1>t, <1>n, <1>c, <1>f DEF FloodInv, Tables
  <2>3. ASSUME NEW m \in Nodes, NEW r \in m_positionTable'[m], r.adress # Loopback
        PROVE  /\ r.born < now /\ m_checkChangeTimer[r.adress] > 0
               /\ r.born <= m_lastSendPos[r.adress]
               /\ \A d \in updates' :
                    (d.origin = r.adress /\ d.born < r.born) => d.born + Second <= r.born
    <3>1. CASE r = e
      <4>1. \A d \in updates' :
              (d.origin = o /\ d.born < b) => d.born + Second <= b
        BY <1>was DEF FloodInv, Apart
      <4>2. QED BY <3>1, <4>1, <1>c, <1>f
    <3>2. CASE r # e
      <4>1. r \in m_positionTable[m]
        BY <3>2, <1>t
      <4>2. \A d \in updates :
              (d.origin = r.adress /\ d.born < r.born) => d.born + Second <= r.born
        BY <2>3, <4>1 DEF FloodInv, Tables
      <4>3. QED BY <2>3, <4>1, <4>2, <1>was DEF FloodInv, Tables
    <3>3. QED BY <3>1, <3>2
  <2>4. QED BY <2>1, <2>2, <2>3, <1>s DEF Tables
<1>8. QED BY <1>1, <1>2, <1>3, <1>4, <1>5, <1>6, <1>7 DEF FloodInv

------------------------------------------------------------------------------
(* The invariant, and what it implies. *)

LEMMA FloodInit ==
  Init => FloodInv
<1> USE PositionUpdateAssumption
<1> SUFFICES ASSUME Init PROVE FloodInv
  OBVIOUS
<1>1. Clock
  BY DEF Init, Clock
<1>2. Flood /\ Pruned /\ Apart /\ Memory /\ IdsUsed
  BY DEF Init, Flood, Pruned, Apart, Memory, IdsUsed
<1>3. Tables
  BY DEF Init, Tables, AddRoute, HasRoute
<1>4. QED BY <1>1, <1>2, <1>3 DEF FloodInv

LEMMA FloodStep ==
  ASSUME TypeOK, TypeOK', FloodInv, Timely, [Next]_vars
  PROVE  FloodInv'
<1> USE PositionUpdateAssumption
<1>1. ASSUME NEW n \in Reporters, Start(n) PROVE FloodInv'
  <2>1. PICK d \in Second .. 2 * Second :
          m_checkChangeTimer' = [m_checkChangeTimer EXCEPT ![n] = now + d]
    BY <1>1 DEF Start
  <2>2. SendUpdate(n) /\ now' = now /\ m_checkChangeTimer[n] = 0
    BY <1>1 DEF Start
  <2>3. now + d \in Nat /\ now + Second <= now + d
    BY <2>1 DEF TypeOK, Ticks
  <2>4. m_checkChangeTimer[n] > 0 => m_lastSendPos[n] + Second <= now
    BY <2>2
  <2> DEFINE t == now + d
  <2>5. t \in Nat /\ now + Second <= t
          /\ m_checkChangeTimer' = [m_checkChangeTimer EXCEPT ![n] = t]
    BY <2>1, <2>3
  <2> HIDE DEF t
  <2>6. QED BY <2>2, <2>4, <2>5, SendUpdateStep
<1>2. ASSUME NEW n \in Reporters, CheckChange(n) PROVE FloodInv'
  <2>1. PICK j \in 0 .. CheckJitter :
          m_checkChangeTimer' = [m_checkChangeTimer EXCEPT ![n] = now + CheckInterval + j]
    BY <1>2 DEF CheckChange
  <2>2. now' = now /\ m_checkChangeTimer[n] = now /\ n \in Nodes /\ now > 0
    BY <1>2 DEF CheckChange
  <2>3. now + CheckInterval + j \in Nat /\ now + Second <= now + CheckInterval + j
    <3>1. now \in Nat /\ j \in Nat /\ Second <= CheckInterval
      BY <2>1 DEF TypeOK, Ticks, Timely
    <3>2. QED BY <3>1
  <2>4. m_lastSendPos[n] + Second <= now
    BY <2>2 DEF FloodInv, Clock
  <2>5. CASE SendUpdate(n)
    BY <2>1, <2>2, <2>3, <2>4, <2>5, SendUpdateStep
  <2>6. CASE UNCHANGED <<nodeVars, m_idCache, updates, accepted>>
    <3>1. \A m \in Nodes : m_checkChangeTimer'[m] > 0 <=> m_checkChangeTimer[m] > 0
      BY <2>1, <2>2, <2>3 DEF TypeOK, Ticks
    <3>2. Clock'
      <4>1. \A m \in Reporters : now' <= m_checkChangeTimer'[m]
        BY <2>1, <2>2, <2>3 DEF FloodInv, Clock, TypeOK, Ticks
      <4>2. \A m \in Nodes : m_checkChangeTimer'[m] > 0 =>
              m_lastSendPos[m] <= now /\ m_lastSendPos[m] + Second <= m_checkChangeTimer'[m]
        <5>1. ASSUME NEW m \in Nodes, m_checkChangeTimer'[m] > 0
              PROVE  /\ m_lastSendPos[m] <= now
                     /\ m_lastSendPos[m] + Second <= m_checkChangeTimer'[m]
          <6>1. m_checkChangeTimer[m] > 0
            BY <3>1, <5>1
          <6>2. m_lastSendPos[m] <= now /\ m_lastSendPos[m] + Second <= m_checkChangeTimer[m]
            BY <6>1 DEF FloodInv, Clock
          <6>3. m_checkChangeTimer[m] <= m_checkChangeTimer'[m]
            BY <2>1, <2>2, <2>3 DEF TypeOK, Ticks
          <6>4. m_lastSendPos[m] \in Nat /\ m_checkChangeTimer[m] \in Nat
                  /\ m_checkChangeTimer'[m] \in Nat
            BY DEF TypeOK, Ticks
          <6>5. QED BY <6>2, <6>3, <6>4
        <5>2. QED BY <5>1
      <4>3. QED BY <4>1, <4>2, <2>2, <2>6 DEF FloodInv, Clock, nodeVars
    <3>3. Flood'
      <4>1. \A c \in updates : m_checkChangeTimer'[c.origin] > 0
        BY <3>1 DEF FloodInv, Flood, TypeOK, Copy
      <4>2. \A c \in updates : Relays(c.origin, c.born)' = Relays(c.origin, c.born)
        BY <2>6 DEF Relays, Report
      <4>3. QED BY <2>2, <2>6, <4>1, <4>2 DEF FloodInv, Flood, Timestamp, Seconds, nodeVars
    <3>4. Pruned' /\ Apart' /\ Memory'
      BY <2>6 DEF FloodInv, Pruned, Apart, Memory, Relays, Report
    <3>5. IdsUsed'
      BY <2>6, <3>1 DEF FloodInv, IdsUsed, Timestamp, Seconds, nodeVars, TypeOK, UniqueId
    <3>6. Tables'
      <4>1. \A m \in Nodes : \A r \in m_positionTable[m] :
              r.adress # Loopback => m_checkChangeTimer'[r.adress] > 0
        BY <3>1 DEF FloodInv, Tables, TypeOK, Entry
      <4>2. QED BY <4>1, <2>2, <2>6 DEF FloodInv, Tables, nodeVars
    <3>7. QED BY <3>2, <3>3, <3>4, <3>5, <3>6 DEF FloodInv
  <2>7. QED BY <1>2, <2>5, <2>6 DEF CheckChange
<1>3. ASSUME NEW n \in Nodes, RouteOutput(n) PROVE FloodInv'
  <2>1. \A m \in Nodes : m_positionTable'[m] \subseteq m_positionTable[m]
    BY <1>3 DEF RouteOutput, PurgeRoutes, TypeOK
  <2>2. Pruned' /\ \A c \in updates' : Relays(c.origin, c.born)' = Relays(c.origin, c.born)
    BY <1>3 DEF RouteOutput, FloodInv, Pruned, Relays, Report
  <2>3. QED BY <1>3, <2>1, <2>2, Shrinking DEF RouteOutput, PurgeIds
<1>4. ASSUME NEW c \in updates, RecvMyprotocol(c) PROVE FloodInv'
  <2>1. CASE ~IsDuplicate(m_idCache[c.to], c.origin, c.timestamp, now)
    BY <1>4, <2>1, RecvNewStep
  <2>2. CASE IsDuplicate(m_idCache[c.to], c.origin, c.timestamp, now)
    <3>1. updates' = updates \ {c} /\ accepted' = OnAir(accepted, updates')
            /\ UNCHANGED m_positionTable
      BY <1>4, <2>2 DEF RecvMyprotocol
    <3>2. \A n \in Nodes : PurgeIds(m_idCache[n], now) \subseteq m_idCache'[n]
                           /\ m_idCache'[n] \subseteq m_idCache[n]
      BY <1>4, <2>2 DEF RecvMyprotocol, Remember, PurgeIds, TypeOK
    <3>3. Pruned'
      BY <3>1 DEF Pruned, OnAir
    <3>4. \A d \in updates' : Relays(d.origin, d.born)' = Relays(d.origin, d.born)
      BY <3>1, OnAirKeeps DEF Relays, Report
    <3>5. QED BY <1>4, <3>1, <3>2, <3>3, <3>4, Shrinking DEF RecvMyprotocol
  <2>3. QED BY <2>1, <2>2
<1>5. ASSUME NEW c \in updates, Lose(c) PROVE FloodInv'
  <2>1. updates' = updates \ {c} /\ accepted' = OnAir(accepted, updates')
    BY <1>5 DEF Lose
  <2>2. Pruned'
    BY <2>1 DEF Pruned, OnAir
  <2>3. \A d \in updates' : Relays(d.origin, d.born)' = Relays(d.origin, d.born)
    BY <2>1, OnAirKeeps DEF Relays, Report
  <2>4. QED BY <1>5, <2>1, <2>2, <2>3, Shrinking DEF Lose, nodeVars, PurgeIds
<1>6. CASE Tick
  BY <1>6, TickStep
<1>7. CASE UNCHANGED vars
  <2>1. Pruned' /\ \A c \in updates' : Relays(c.origin, c.born)' = Relays(c.origin, c.born)
    BY <1>7 DEF vars, FloodInv, Pruned, Relays, Report
  <2>2. QED BY <1>7, <2>1, Shrinking DEF vars, PurgeIds
<1>8. QED BY <1>1, <1>2, <1>3, <1>4, <1>5, <1>6, <1>7 DEF Next

THEOREM FloodInvariant ==
  ASSUME Timely PROVE Spec => [](TypeOK /\ FloodInv)
<1>1. Init => FloodInv
  BY FloodInit
<1>2. TypeOK /\ TypeOK' /\ FloodInv /\ [Next]_vars => FloodInv'
  BY FloodStep
<1>3. QED BY <1>1, <1>2, TypeCorrect, PTL DEF Spec

\* No node relays a report twice: the id cache outlives every flood
\* (IsDuplicate in RecvMyprotocol, with the lifetime the constructor computes).
THEOREM NoSecondRelay ==
  ASSUME Timely PROVE Spec => []SeenIsDuplicate
<1>1. TypeOK /\ FloodInv => SeenIsDuplicate
  BY SeenDuplicate DEF FloodInv
<1>2. QED BY <1>1, FloodInvariant, PTL

\* A flood is over within one hop delay per node.
THEOREM FloodsEndInTime ==
  ASSUME Timely PROVE Spec => []FloodEndsInTime
<1>1. TypeOK /\ FloodInv => FloodEndsInTime
  BY FloodEnds DEF FloodInv
<1>2. QED BY <1>1, FloodInvariant, PTL

\* A timestamp in whole seconds identifies a report among its sender's, because
\* CheckChange runs no more than once a second.
THEOREM TimestampsIdentify ==
  ASSUME Timely PROVE Spec => []UpdateIdsUnique
<1>1. TypeOK /\ FloodInv => UpdateIdsUnique
  BY IdsUnique DEF FloodInv
<1>2. QED BY <1>1, FloodInvariant, PTL

\* The echo of a node's own report never makes it its own neighbour.
THEOREM EchoesIgnored ==
  ASSUME Timely PROVE Spec => []NeverOwnNeighbor
<1>1. FloodInv => NeverOwnNeighbor
  BY NotOwnNeighbor DEF FloodInv
<1>2. QED BY <1>1, FloodInvariant, PTL

------------------------------------------------------------------------------
(* The positions in a table only get newer. *)

LEMMA TableStep ==
  ASSUME TypeOK, FloodInv, Timely, [Next]_vars,
         NEW n \in Nodes, NEW r \in m_positionTable[n], NEW q \in m_positionTable'[n],
         r.adress = q.adress
  PROVE  r.born <= q.born
<1> USE PositionUpdateAssumption
<1>u. q \in m_positionTable[n] => r.born <= q.born
  BY DEF FloodInv, Tables, TypeOK, Entry, Ticks
<1>1. ASSUME NEW m \in Nodes, SendUpdate(m) PROVE r.born <= q.born
  <2>1. CASE q \in m_positionTable[n]
    BY <2>1, <1>u
  <2>2. CASE q \notin m_positionTable[n]
    <3>1. q.born = now
      BY <1>1, <2>2 DEF SendUpdate, Update, TypeOK
    <3>2. QED BY <3>1 DEF FloodInv, Tables
  <2>3. QED BY <2>1, <2>2
<1>2. ASSUME NEW c \in updates, RecvMyprotocol(c) PROVE r.born <= q.born
  <2>1. CASE q \in m_positionTable[n]
    BY <2>1, <1>u
  <2>2. CASE q \notin m_positionTable[n]
    <3>1. q.born = c.born /\ q.adress = c.origin /\ n = c.to
      BY <1>2, <2>2 DEF RecvMyprotocol, Update, TypeOK, Copy
    <3>2. c \in Copy /\ r.born \in Nat /\ now \in Nat
      BY DEF TypeOK, Entry, Ticks
    <3>3. r.adress # Loopback
      BY <3>1, <3>2 DEF Copy
    <3>4. SUFFICES ASSUME c.born < r.born PROVE FALSE
      BY <3>1, <3>2 DEF Copy, Ticks
    <3>5. c.born + Second <= r.born /\ r.born < now
      BY <3>1, <3>3, <3>4 DEF FloodInv, Tables
    <3>6. now <= c.born + Cardinality(Nodes) * HopDelay
      BY FloodEnds DEF FloodInv, FloodEndsInTime
    <3>7. Cardinality(Nodes) * HopDelay \in Nat /\ Cardinality(Nodes) * HopDelay <= Second
      BY RelaysFinite DEF Timely
    <3>8. QED BY <3>2, <3>5, <3>6, <3>7 DEF Copy, Ticks
  <2>3. QED BY <2>1, <2>2
<1>3. ASSUME NEW m \in Nodes, RouteOutput(m) PROVE r.born <= q.born
  <2>1. q \in m_positionTable[n]
    BY <1>3 DEF RouteOutput, PurgeRoutes, TypeOK
  <2>2. QED BY <2>1, <1>u
<1>4. CASE UNCHANGED m_positionTable
  BY <1>4, <1>u
<1>5. QED
  BY <1>1, <1>2, <1>3, <1>4
  DEF Next, Start, CheckChange, Lose, Tick, nodeVars, vars

\* No table entry is ever replaced by an older report, although Update compares
\* nothing: the reports of one sender are a second apart and a flood is shorter.
THEOREM TablesAdvance ==
  ASSUME Timely PROVE Spec => TableNeverRegresses
<1> DEFINE A == \A n \in Nodes : \A r \in m_positionTable[n], q \in m_positionTable'[n] :
                  r.adress = q.adress => r.born <= q.born
<1>1. TypeOK /\ FloodInv /\ [Next]_vars => [A]_vars
  BY TableStep
<1>2. QED BY <1>1, FloodInvariant, PTL DEF Spec, TableNeverRegresses

------------------------------------------------------------------------------
(* The control plane implements PositionSharing. *)

LEMMA LookupFinds ==
  ASSUME NEW T, \A r, q \in T : r.adress = q.adress => r = q, NEW r \in T
  PROVE  HasRoute(T, r.adress) /\ LookupRoute(T, r.adress) = r
<1>1. \E q \in T : q.adress = r.adress
  OBVIOUS
<1>2. LookupRoute(T, r.adress) \in T /\ LookupRoute(T, r.adress).adress = r.adress
  BY <1>1 DEF LookupRoute
<1>3. QED BY <1>1, <1>2 DEF HasRoute

LEMMA ViewOf ==
  ASSUME Tables, NEW n \in Nodes, NEW o \in Nodes
  PROVE  /\ \A r \in m_positionTable[n] : r.adress = o => view[n][o] = r.born
         /\ ~HasRoute(m_positionTable[n], o) => view[n][o] = -1
<1>1. \A r, q \in m_positionTable[n] : r.adress = q.adress => r = q
  BY DEF Tables
<1>2. \A r \in m_positionTable[n] : r.adress = o => view[n][o] = r.born
  BY <1>1, LookupFinds DEF view
<1>3. QED BY <1>2 DEF view

\* Views are matrices: equal, or differing in a row, when their elements are.
IsMatrix(f) == f = [n \in Nodes |-> [o \in Nodes |-> f[n][o]]]

LEMMA MatrixEqual ==
  ASSUME NEW f, NEW g, IsMatrix(f), IsMatrix(g),
         \A m, p \in Nodes : g[m][p] = f[m][p]
  PROVE  g = f
<1>1. [m \in Nodes |-> [p \in Nodes |-> g[m][p]]]
        = [m \in Nodes |-> [p \in Nodes |-> f[m][p]]]
  OBVIOUS
<1>2. QED BY <1>1 DEF IsMatrix

LEMMA MatrixRows ==
  ASSUME NEW f, IsMatrix(f), NEW n \in Nodes
  PROVE  f[n] = [o \in Nodes |-> f[n][o]]
<1> DEFINE F == [m \in Nodes |-> [o \in Nodes |-> f[m][o]]]
<1>1. F[n] = [o \in Nodes |-> f[n][o]]
  OBVIOUS
<1>2. f = F
  BY DEF IsMatrix
<1> HIDE DEF F
<1>3. QED BY <1>1, <1>2

LEMMA MatrixRow ==
  ASSUME NEW f, NEW g, IsMatrix(f), IsMatrix(g), NEW n \in Nodes, NEW x,
         \A p \in Nodes : g[n][p] = x[p], x = [p \in Nodes |-> x[p]],
         \A m \in Nodes \ {n} : g[m] = f[m]
  PROVE  g = [f EXCEPT ![n] = x]
<1>1. DOMAIN f = Nodes /\ DOMAIN g = Nodes
  BY DEF IsMatrix
<1>2. g[n] = [p \in Nodes |-> g[n][p]] /\ g = [m \in Nodes |-> g[m]]
  BY DEF IsMatrix
<1>3. g[n] = x
  <2>1. [p \in Nodes |-> g[n][p]] = [p \in Nodes |-> x[p]]
    OBVIOUS
  <2>2. QED BY <1>2, <2>1
<1>4. QED BY <1>1, <1>2, <1>3 DEF IsMatrix

LEMMA ViewMatrix == IsMatrix(view) /\ IsMatrix(view')
<1>1. IsMatrix(view)
  BY DEF view, IsMatrix
<1>2. IsMatrix(view')
  BY DEF view, IsMatrix
<1>3. QED BY <1>1, <1>2

\* A step that keeps every entry of another node keeps the views.
LEMMA SameView ==
  ASSUME Tables, Tables',
         \A n, o \in Nodes : \A r : (r \in m_positionTable'[n] /\ r.adress = o)
                                  <=> (r \in m_positionTable[n] /\ r.adress = o)
  PROVE  view' = view
<1>1. ASSUME NEW n \in Nodes, NEW o \in Nodes PROVE view'[n][o] = view[n][o]
  <2>1. CASE HasRoute(m_positionTable[n], o)
    <3>1. PICK r \in m_positionTable[n] : r.adress = o
      BY <2>1 DEF HasRoute
    <3>2. r \in m_positionTable'[n]
      BY <3>1
    <3>3. \A q, p \in m_positionTable'[n] : q.adress = p.adress => q = p
      BY DEF Tables
    <3>4. view'[n][o] = r.born
      BY <3>1, <3>2, <3>3, LookupFinds DEF view
    <3>5. QED BY <3>1, <3>4, ViewOf
  <2>2. CASE ~HasRoute(m_positionTable[n], o)
    <3>1. ~HasRoute(m_positionTable'[n], o)
      BY <2>2 DEF HasRoute
    <3>2. view'[n][o] = -1
      BY <3>1 DEF view
    <3>3. QED BY <2>2, <3>2, ViewOf
  <2>3. QED BY <2>1, <2>2
<1>2. QED BY <1>1 DEF view

LEMMA SharePublish ==
  ASSUME TypeOK, FloodInv, FloodInv', Timely, NEW n \in Nodes, SendUpdate(n),
         m_checkChangeTimer[n] > 0 => m_lastSendPos[n] + Second <= now,
         NEW t \in Nat \ {0}, m_checkChangeTimer' = [m_checkChangeTimer EXCEPT ![n] = t]
  PROVE  Sharing!Next
<1> USE PositionUpdateAssumption
<1>1. view' = view
  <2>1. \A m, o \in Nodes : \A r : (r \in m_positionTable'[m] /\ r.adress = o)
                                 <=> (r \in m_positionTable[m] /\ r.adress = o)
    BY DEF SendUpdate, Update, TypeOK
  <2>2. QED BY <2>1, SameView DEF FloodInv
<1>2. m_lastSendPos' = [m_lastSendPos EXCEPT ![n] = now]
  BY DEF SendUpdate
<1>3. latest' = [latest EXCEPT ![n] = now] /\ latest'[n] = now
  BY <1>2 DEF latest, TypeOK
<1>4. latest'[n] > latest[n]
  <2>1. now \in Nat /\ m_lastSendPos[n] \in Nat /\ m_checkChangeTimer[n] \in Nat
    BY DEF TypeOK, Ticks
  <2>2. QED BY <1>3, <2>1 DEF latest
<1>5. Sharing!Publish(n)
  BY <1>1, <1>3, <1>4 DEF Sharing!Publish
<1>6. QED BY <1>5 DEF Sharing!Next

LEMMA ShareLearn ==
  ASSUME TypeOK, FloodInv, FloodInv', Timely, NEW c \in updates, RecvMyprotocol(c),
         ~IsDuplicate(m_idCache[c.to], c.origin, c.timestamp, now)
  PROVE  Sharing!Next \/ UNCHANGED <<latest, view>>
<1> DEFINE n == c.to
           o == c.origin
           e == [adress |-> o, timestamp |-> c.timestamp, born |-> c.born]
<1>c. n \in Nodes /\ o \in Nodes /\ c.born \in Nat
  BY DEF TypeOK, Copy, Ticks
<1>t. m_positionTable' = [m_positionTable EXCEPT ![n] =
        {r \in m_positionTable[n] : r.adress # o} \cup {e}]
  BY DEF RecvMyprotocol, Update
<1>1. latest' = latest
  BY DEF RecvMyprotocol, latest
<1>2. c.born <= latest[o] /\ latest[o] \in Int
  BY <1>c DEF FloodInv, Flood, latest, TypeOK, Ticks
<1>m. \A m, p \in Nodes : view'[m][p] = IF m = n /\ p = o THEN c.born ELSE view[m][p]
  <2>1. \A m \in Nodes : \A r, q \in m_positionTable'[m] : r.adress = q.adress => r = q
    BY DEF FloodInv, Tables
  <2>2. ASSUME NEW m \in Nodes, NEW p \in Nodes
        PROVE  view'[m][p] = IF m = n /\ p = o THEN c.born ELSE view[m][p]
    <3>1. CASE m = n /\ p = o
      <4>1. e \in m_positionTable'[n] /\ e.adress = o /\ e.born = c.born
        BY <1>t, <1>c DEF TypeOK
      <4>2. LookupRoute(m_positionTable'[n], o) = e /\ HasRoute(m_positionTable'[n], o)
        BY <4>1, <2>1, <1>c, LookupFinds
      <4>3. QED BY <3>1, <4>1, <4>2, <1>c DEF view
    <3>2. CASE ~(m = n /\ p = o)
      <4>1. \A r : (r \in m_positionTable'[m] /\ r.adress = p)
                   <=> (r \in m_positionTable[m] /\ r.adress = p)
        BY <3>2, <1>t, <1>c DEF TypeOK
      <4>2. CASE HasRoute(m_positionTable[m], p)
        <5>1. PICK r \in m_positionTable[m] : r.adress = p
          BY <4>2 DEF HasRoute
        <5>2. view'[m][p] = r.born
          BY <4>1, <5>1, <2>1, LookupFinds DEF view
        <5>3. QED BY <3>2, <5>1, <5>2, ViewOf DEF FloodInv
      <4>3. CASE ~HasRoute(m_positionTable[m], p)
        <5>1. ~HasRoute(m_positionTable'[m], p)
          BY <4>1, <4>3 DEF HasRoute
        <5>2. QED BY <3>2, <4>3, <5>1 DEF view
      <4>4. QED BY <4>2, <4>3
    <3>3. QED BY <3>1, <3>2
  <2>3. QED BY <2>2
<1>3. view' = [view EXCEPT ![n][o] = c.born]
  <2> DEFINE row == [view[n] EXCEPT ![o] = c.born]
  <2>1. view[n] = [p \in Nodes |-> view[n][p]]
    BY <1>c, ViewMatrix, MatrixRows
  <2>2. row = [p \in Nodes |-> row[p]] /\ \A p \in Nodes : view'[n][p] = row[p]
    BY <2>1, <1>m, <1>c
  <2>3. \A m \in Nodes \ {n} : view'[m] = view[m]
    <3> SUFFICES ASSUME NEW m \in Nodes \ {n} PROVE view'[m] = view[m]
      OBVIOUS
    <3>1. /\ view[m] = [p \in Nodes |-> view[m][p]]
          /\ view'[m] = [p \in Nodes |-> view'[m][p]]
      BY ViewMatrix, MatrixRows
    <3>2. \A p \in Nodes : view'[m][p] = view[m][p]
      BY <1>m
    <3>3. [p \in Nodes |-> view'[m][p]] = [p \in Nodes |-> view[m][p]]
      BY <3>2
    <3>4. QED BY <3>1, <3>3
  <2> HIDE DEF row, n
  <2>4. view' = [view EXCEPT ![n] = row]
    BY <2>2, <2>3, <1>c, ViewMatrix, MatrixRow
  <2>5. QED BY <2>4 DEF row
<1>4. view[n][o] <= c.born /\ view[n][o] \in Int
  <2>1. CASE HasRoute(m_positionTable[n], o)
    <3>1. PICK r \in m_positionTable[n] : r.adress = o
      BY <2>1 DEF HasRoute
    <3>2. e \in m_positionTable'[n]
      BY <1>t, <1>c DEF TypeOK
    <3>3. r.born <= e.born
      BY <3>1, <3>2, <1>c, TableStep DEF Next
    <3>4. view[n][o] = r.born /\ r.born \in Nat
      BY <3>1, <1>c, ViewOf DEF FloodInv, TypeOK, Entry, Ticks
    <3>5. QED BY <3>3, <3>4
  <2>2. CASE ~HasRoute(m_positionTable[n], o)
    BY <2>2, <1>c, ViewOf DEF FloodInv
  <2>3. QED BY <2>1, <2>2
<1>5. CASE view[n][o] = c.born
  <2>1. view' = view
    <3>1. IsMatrix(view) /\ IsMatrix(view')
      BY ViewMatrix
    <3>2. \A m, p \in Nodes : view'[m][p] = view[m][p]
      BY <1>m, <1>5
    <3> HIDE DEF n, o
    <3>3. QED BY <3>1, <3>2, MatrixEqual
  <2>2. QED BY <2>1, <1>1
<1>6. CASE view[n][o] < c.born
  <2>1. c.born \in view[n][o] + 1 .. latest[o]
    BY <1>2, <1>4, <1>6, <1>c
  <2>2. Sharing!Learn(n, o)
    BY <2>1, <1>1, <1>3 DEF Sharing!Learn
  <2>3. QED BY <2>2, <1>c DEF Sharing!Next
<1>7. QED BY <1>4, <1>5, <1>6, <1>c

LEMMA ShareForget ==
  ASSUME TypeOK, FloodInv, FloodInv', NEW n \in Nodes, RouteOutput(n)
  PROVE  Sharing!Next
<1> DEFINE S == {o \in Nodes : ~HasRoute(m_positionTable'[n], o)}
<1>t. /\ m_positionTable'[n] \subseteq m_positionTable[n]
      /\ \A m \in Nodes \ {n} : m_positionTable'[m] = m_positionTable[m]
  BY DEF RouteOutput, PurgeRoutes, TypeOK
<1>1. latest' = latest
  BY DEF RouteOutput, latest
<1>2. ASSUME NEW o \in Nodes
      PROVE  view'[n][o] = IF o \in S THEN -1 ELSE view[n][o]
  <2>1. CASE HasRoute(m_positionTable'[n], o)
    <3>1. PICK r \in m_positionTable'[n] : r.adress = o
      BY <2>1 DEF HasRoute
    <3>2. \A q, p \in m_positionTable'[n] : q.adress = p.adress => q = p
      BY DEF FloodInv, Tables
    <3>3. view'[n][o] = r.born
      BY <3>1, <3>2, LookupFinds DEF view
    <3>4. view[n][o] = r.born
      BY <3>1, <1>t, ViewOf DEF FloodInv
    <3>5. QED BY <2>1, <3>3, <3>4
  <2>2. CASE ~HasRoute(m_positionTable'[n], o)
    BY <2>2 DEF view
  <2>3. QED BY <2>1, <2>2
<1>3. \A m \in Nodes \ {n} : view'[m] = view[m]
  BY <1>t DEF view
<1>4. view' = [view EXCEPT ![n] = [o \in Nodes |-> IF o \in S THEN -1 ELSE @[o]]]
  <2> DEFINE x == [o \in Nodes |-> IF o \in S THEN -1 ELSE view[n][o]]
  <2>1. x = [o \in Nodes |-> x[o]] /\ \A o \in Nodes : view'[n][o] = x[o]
    BY <1>2
  <2> HIDE DEF x
  <2>2. view' = [view EXCEPT ![n] = x]
    BY <1>3, <2>1, ViewMatrix, MatrixRow
  <2>3. QED BY <2>2 DEF x
<1>5. S \in SUBSET Nodes
  OBVIOUS
<1>6. Sharing!Forget(n)
  BY <1>1, <1>4, <1>5 DEF Sharing!Forget, Sharing!Unknown
<1>7. QED BY <1>6 DEF Sharing!Next

LEMMA ShareStep ==
  ASSUME TypeOK, FloodInv, FloodInv', Timely, [Next]_vars
  PROVE  Sharing!Next \/ UNCHANGED <<latest, view>>
<1> USE PositionUpdateAssumption
<1>1. ASSUME NEW n \in Reporters, Start(n) PROVE Sharing!Next
  <2>1. PICK d \in Second .. 2 * Second :
          m_checkChangeTimer' = [m_checkChangeTimer EXCEPT ![n] = now + d]
    BY <1>1 DEF Start
  <2> DEFINE t == now + d
  <2>2. /\ t \in Nat \ {0}
        /\ m_checkChangeTimer' = [m_checkChangeTimer EXCEPT ![n] = t]
    BY <2>1 DEF TypeOK, Ticks
  <2> HIDE DEF t
  <2>3. SendUpdate(n) /\ (m_checkChangeTimer[n] > 0 => m_lastSendPos[n] + Second <= now)
    BY <1>1 DEF Start
  <2>4. QED BY <2>2, <2>3, SharePublish
<1>2. ASSUME NEW n \in Reporters, CheckChange(n)
      PROVE  Sharing!Next \/ UNCHANGED <<latest, view>>
  <2>1. PICK j \in 0 .. CheckJitter :
          m_checkChangeTimer' = [m_checkChangeTimer EXCEPT ![n] = now + CheckInterval + j]
    BY <1>2 DEF CheckChange
  <2> DEFINE t == now + CheckInterval + j
  <2>2. /\ t \in Nat \ {0}
        /\ m_checkChangeTimer' = [m_checkChangeTimer EXCEPT ![n] = t]
    BY <2>1 DEF TypeOK, Ticks
  <2> HIDE DEF t
  <2>3. now > 0 /\ m_checkChangeTimer[n] = now
    BY <1>2 DEF CheckChange
  <2>4. CASE SendUpdate(n)
    <3>1. m_lastSendPos[n] + Second <= now
      BY <2>3 DEF FloodInv, Clock
    <3>2. QED BY <2>2, <2>4, <3>1, SharePublish
  <2>5. CASE UNCHANGED <<nodeVars, m_idCache, updates, accepted>>
    <3>1. latest' = latest
      BY <2>2, <2>3, <2>5 DEF latest, nodeVars, TypeOK
    <3>2. view' = view
      BY <2>5 DEF view, nodeVars
    <3>3. QED BY <3>1, <3>2
  <2>6. QED BY <1>2, <2>4, <2>5 DEF CheckChange
<1>3. ASSUME NEW n \in Nodes, RouteOutput(n) PROVE Sharing!Next
  BY <1>3, ShareForget
<1>4. ASSUME NEW c \in updates, RecvMyprotocol(c)
      PROVE  Sharing!Next \/ UNCHANGED <<latest, view>>
  <2>1. CASE ~IsDuplicate(m_idCache[c.to], c.origin, c.timestamp, now)
    BY <1>4, <2>1, ShareLearn
  <2>2. CASE IsDuplicate(m_idCache[c.to], c.origin, c.timestamp, now)
    BY <1>4, <2>2 DEF RecvMyprotocol, latest, view
  <2>3. QED BY <2>1, <2>2
<1>5. ASSUME NEW c \in updates, Lose(c) PROVE UNCHANGED <<latest, view>>
  BY <1>5 DEF Lose, nodeVars, latest, view
<1>6. CASE Tick
  BY <1>6 DEF Tick, nodeVars, latest, view
<1>7. CASE UNCHANGED vars
  BY <1>7 DEF vars, latest, view
<1>8. QED BY <1>1, <1>2, <1>3, <1>4, <1>5, <1>6, <1>7 DEF Next

\* Whatever is lost, delayed or reordered, the tables of a timely network only
\* ever move forward through the reports that were broadcast.
THEOREM PositionUpdateImplementsSharing ==
  ASSUME Timely PROVE Spec => ImplementsSharing
<1> USE PositionUpdateAssumption
<1>1. Init => Sharing!Init
  BY DEF Init, Sharing!Init, Sharing!Unknown, latest, view, AddRoute, HasRoute
<1>2. TypeOK /\ FloodInv /\ FloodInv' /\ [Next]_vars
        => [Sharing!Next]_<<latest, view>>
  BY ShareStep
<1>3. QED BY <1>1, <1>2, FloodInvariant, PTL DEF Spec, ImplementsSharing, Sharing!Spec
==============================================================================
