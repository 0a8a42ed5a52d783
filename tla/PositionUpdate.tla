--------------------------- MODULE PositionUpdate ----------------------------
(***************************************************************************)
(* The control plane of model/myprotocol4-routing-protocol.cc: every node  *)
(* broadcasts its position when its motion departs from what it last told  *)
(* the others, or when it has been silent for too long, and every node     *)
(* floods each position it hears once, using the id cache to recognise     *)
(* what it has already relayed.  The module is the protocol under the      *)
(* default attribute EnableQueue = false, and without transit data         *)
(* packets: RouteOutput only purges the table.                             *)
(*                                                                         *)
(* Time is a tick count.  ns-3 runs one event at a time in time order, so  *)
(* an action is one event handler, and Tick may not pass an event's time.  *)
(* A position report (x, y, z, vx, vy, vz, sign) is abstracted to "born",  *)
(* the tick at which its sender sampled it: one event samples once.        *)
(***************************************************************************)
EXTENDS IdCache, RoutingTable, Integers, FiniteSets

CONSTANTS
  Nodes,            \* the nodes; a node is also its own IPv4 address
  Reporters,        \* the nodes whose own reports are modelled; the rest relay
  Loopback,         \* 127.0.0.1, the key of a node's own entry in its table
  Link,             \* Link[n]: the nodes in radio reach of n
  Second,           \* ticks per second
  TimestampMod,     \* 2^16: the width of m_timestamp and m_lastSendTime
  CheckInterval,    \* m_checkChangeInterval, in ticks
  CheckJitter,      \* bound on the 0..25 ms added to it, in ticks
  MaxIntervalTime,  \* m_maxIntervalTime, in seconds (20 in the code)
  HopDelay,         \* bound on the delay of one hop, in ticks
  Lossy,            \* whether the channel may lose copies
  Horizon           \* bound on the ticks modelled

ASSUME PositionUpdateAssumption ==
  /\ Nodes # {} /\ IsFiniteSet(Nodes) /\ Loopback \notin Nodes
  /\ Reporters \subseteq Nodes
  /\ Link \in [Nodes -> SUBSET Nodes]
  /\ \A n \in Nodes : n \notin Link[n]
  /\ Second \in Nat \ {0} /\ TimestampMod \in Nat \ {0}
  /\ CheckInterval \in Nat \ {0} /\ CheckJitter \in Nat
  /\ MaxIntervalTime \in Nat /\ HopDelay \in Nat \ {0} /\ IdLifetime \in Nat
  /\ EntryLifeTime \in Nat /\ Lossy \in BOOLEAN /\ Horizon \in Nat

VARIABLES
  now,                \* Simulator::Now
  m_idCache,          \* per node
  m_positionTable,    \* per node
  m_lastSendTime,     \* per node, in seconds
  m_lastSendPos,      \* per node: the sample (its tick) last broadcast
  m_checkChangeTimer, \* per node: when it fires; 0 until Start has run
  updates,            \* copies of control packets on the air
  accepted            \* history: who has sent or relayed a report still on the air

vars == <<now, m_idCache, m_positionTable, m_lastSendTime, m_lastSendPos,
          m_checkChangeTimer, updates, accepted>>
nodeVars == <<m_positionTable, m_lastSendTime, m_lastSendPos>>

------------------------------------------------------------------------------
\* Time::ToInteger (Time::S) truncates; m_timestamp keeps 16 bits of it.
Seconds(t) == t \div Second

\* Mutants, used by no specification: a coarser timestamp; thresholds in
\* CheckChange that are the lifetime of an entry, or a second too long.
TimestampCoarse(t) == (Seconds(t) \div 2) % TimestampMod
OverdueLate(n) == Seconds(now) - m_lastSendTime[n] > EntryLifeTime
OverdueByOne(n) == Seconds(now) - m_lastSendTime[n] > MaxIntervalTime + 1

Timestamp(t) == Seconds(t) % TimestampMod

\* The broadcast of a header by node n: one copy for each node in reach.
Copies(n, origin, timestamp, born) ==
  {[from |-> n, to |-> m, origin |-> origin, timestamp |-> timestamp,
    born |-> born, sent |-> now] : m \in Link[n]}

\* The part of the history that concerns reports still on the air.
OnAir(acc, ups) ==
  {a \in acc : \E c \in ups : c.origin = a.origin /\ c.born = a.born}

\* SendUpdate: sample the position, remember what was sent, put it in the
\* own table and in the own id cache, and broadcast it.
SendUpdate(n) ==
  LET ts == Timestamp(now) IN
  /\ m_lastSendTime' = [m_lastSendTime EXCEPT ![n] = ts]
  /\ m_lastSendPos' = [m_lastSendPos EXCEPT ![n] = now]
  /\ m_positionTable' = [m_positionTable EXCEPT ![n] =
       Update(@, [adress |-> Loopback, timestamp |-> ts, born |-> now])]
  /\ m_idCache' = [m_idCache EXCEPT ![n] = Remember(@, n, ts, now)]
  /\ updates' = updates \cup Copies(n, n, ts, now)
  /\ accepted' = OnAir(accepted \cup {[node |-> n, origin |-> n, born |-> now]},
                       updates')

\* Start: the event SetIpv4 schedules at time 0.
Start(n) ==
  /\ m_checkChangeTimer[n] = 0
  /\ SendUpdate(n)
  /\ \E d \in Second .. 2 * Second :
       m_checkChangeTimer' = [m_checkChangeTimer EXCEPT ![n] = now + d]
  /\ UNCHANGED now

\* The node has been silent for longer than m_maxIntervalTime (64-bit minus
\* 16-bit seconds, in 64 bits).
Overdue(n) == Seconds(now) - m_lastSendTime[n] > MaxIntervalTime

\* CheckChange: the motion may have departed from the last report by more than
\* m_transRange * m_scaleFactor at any check; a node overdue must send.  After
\* the timestamp has wrapped a node stays overdue even once it has sent, and the
\* code sends twice in one event: the same header twice, which every receiver
\* takes for one.
CheckChange(n) ==
  /\ now > 0 /\ m_checkChangeTimer[n] = now
  /\ \/ SendUpdate(n)
     \/ /\ ~Overdue(n)
        /\ UNCHANGED <<nodeVars, m_idCache, updates, accepted>>
  /\ \E j \in 0 .. CheckJitter :
       m_checkChangeTimer' = [m_checkChangeTimer EXCEPT ![n] = now + CheckInterval + j]
  /\ UNCHANGED now

\* RecvMyprotocol: a header already seen is dropped; a new one overwrites the
\* sender's entry, whatever its age, and is broadcast again.
RecvMyprotocol(c) ==
  LET n == c.to
      duplicate == IsDuplicate(m_idCache[n], c.origin, c.timestamp, now)
  IN
  /\ c.sent < now
  /\ m_idCache' = [m_idCache EXCEPT ![n] = Remember(@, c.origin, c.timestamp, now)]
  /\ \/ /\ duplicate
        /\ updates' = updates \ {c}
        /\ accepted' = OnAir(accepted, updates')
        /\ UNCHANGED m_positionTable
     \/ /\ ~duplicate
        /\ m_positionTable' = [m_positionTable EXCEPT ![n] =
             Update(@, [adress |-> c.origin, timestamp |-> c.timestamp, born |-> c.born])]
        /\ updates' = (updates \ {c}) \cup Copies(n, c.origin, c.timestamp, c.born)
        /\ accepted' = OnAir(accepted \cup
             {[node |-> n, origin |-> c.origin, born |-> c.born]}, updates')
  /\ UNCHANGED <<now, m_lastSendTime, m_lastSendPos, m_checkChangeTimer>>

\* RouteOutput, called by the application at any time: what it does to the
\* control plane's state is to purge the table.
RouteOutput(n) ==
  /\ m_positionTable' = [m_positionTable EXCEPT ![n] = PurgeRoutes(@, Seconds(now))]
  /\ UNCHANGED <<now, m_idCache, m_lastSendTime, m_lastSendPos,
                 m_checkChangeTimer, updates, accepted>>

\* The channel (external): a copy is lost, or time passes with no event due.
Lose(c) ==
  /\ Lossy
  /\ updates' = updates \ {c}
  /\ accepted' = OnAir(accepted, updates')
  /\ UNCHANGED <<now, nodeVars, m_idCache, m_checkChangeTimer>>

Tick ==
  /\ now < Horizon
  /\ \A n \in Reporters : m_checkChangeTimer[n] > now
  /\ \A c \in updates : now < c.sent + HopDelay
  /\ now' = now + 1
  /\ UNCHANGED <<nodeVars, m_idCache, m_checkChangeTimer, updates, accepted>>

------------------------------------------------------------------------------
\* SetIpv4 and NotifyInterfaceUp have run: a table holds the loopback entry
\* (the broadcast entry, which no control packet reads, is left out).
Init ==
  /\ now = 0
  /\ m_idCache = [n \in Nodes |-> {}]
  /\ m_positionTable =
       [n \in Nodes |-> AddRoute({}, [adress |-> Loopback, timestamp |-> 0, born |-> 0])]
  /\ m_lastSendTime = [n \in Nodes |-> 0]
  /\ m_lastSendPos = [n \in Nodes |-> 0]
  /\ m_checkChangeTimer = [n \in Nodes |-> 0]
  /\ updates = {} /\ accepted = {}

Next ==
  \/ \E n \in Reporters : Start(n) \/ CheckChange(n)
  \/ \E n \in Nodes : RouteOutput(n)
  \/ \E c \in updates : RecvMyprotocol(c) \/ Lose(c)
  \/ Tick

Spec == Init /\ [][Next]_vars

------------------------------------------------------------------------------
\* The design's own figures: a flood is over before the id cache forgets it and
\* before its sender reports again, and no timestamp wraps within the horizon.
Timely ==
  /\ Cardinality(Nodes) * HopDelay <= IdLifetime
  /\ Cardinality(Nodes) * HopDelay <= Second
  /\ Second <= CheckInterval
  /\ Horizon < TimestampMod * Second

\* The channel loses nothing, and the nodes that a report has reached, if they are
\* not all nodes, have one in reach that it has not.
Reliable ==
  /\ ~Lossy
  /\ \A S \in SUBSET Nodes : (S # {} /\ \A n \in S : Link[n] \subseteq S) => S = Nodes

\* How old a node's position may get in the tables of others on such a channel: it is
\* silent for a second more than m_maxIntervalTime, sends at the next check, and the
\* flood takes one hop delay for each other node.
MaxAge ==
  (MaxIntervalTime + 1) * Second + CheckInterval + CheckJitter
      + (Cardinality(Nodes) - 1) * HopDelay

\* The next report is everywhere before tables forget the last.
Remembered == MaxAge < EntryLifeTime * Second

Ticks == Nat
Copy == [from : Nodes, to : Nodes, origin : Nodes, timestamp : Nat,
         born : Ticks, sent : Ticks]
Entry == [adress : Nodes \cup {Loopback}, timestamp : Nat, born : Ticks]
UniqueId == [context : Nodes, timestamp : Nat, expire : Ticks]

\* Every variable has its type.
TypeOK ==
  /\ now \in Ticks
  /\ m_idCache \in [Nodes -> SUBSET UniqueId]
  /\ m_positionTable \in [Nodes -> SUBSET Entry]
  /\ m_lastSendTime \in [Nodes -> Nat]
  /\ m_lastSendPos \in [Nodes -> Ticks]
  /\ m_checkChangeTimer \in [Nodes -> Ticks]
  /\ updates \subseteq Copy
  /\ accepted \subseteq [node : Nodes, origin : Nodes, born : Ticks]

\* No node relays a report twice: whenever a copy is on its way to a node that
\* has already sent or relayed the report, the id cache of that node still
\* knows it, so that RecvMyprotocol drops the copy (lines 691-695).
SeenIsDuplicate ==
  \A c \in updates, a \in accepted :
    (a.node = c.to /\ a.origin = c.origin /\ a.born = c.born)
      => IsDuplicate(m_idCache[c.to], c.origin, c.timestamp, now)

\* The seconds in a header tell the reports of one sender apart ("ID is supposed
\* to be unique in single address context", id-cache.h:49): two headers of one
\* sender on the air with one timestamp carry one report.
UpdateIdsUnique ==
  \A c, d \in updates :
    (c.origin = d.origin /\ c.timestamp = d.timestamp) => c.born = d.born

\* A table entry is never replaced by an older report of the same address,
\* although Update does not compare timestamps (rtable.cc:77-87).
TableNeverRegresses ==
  [][\A n \in Nodes : \A r \in m_positionTable[n], q \in m_positionTable'[n] :
       r.adress = q.adress => r.born <= q.born]_vars

\* A flood is over within one hop delay per node, which is what the lifetime of
\* the id cache is sized for (routing-protocol.cc:120-128).
FloodEndsInTime ==
  \A c \in updates : now <= c.born + Cardinality(Nodes) * HopDelay

\* A node never takes itself for a neighbour: its own reports, which come back
\* from every relay, never enter its table under its own address (SendUpdate puts
\* them in its id cache, line 903).
NeverOwnNeighbor ==
  \A n \in Nodes : ~HasRoute(m_positionTable[n], n)

\* On a channel without loss, when no copy of a sender's reports is left on the
\* air, every other node holds the sender's latest report, the very one its
\* CheckChange compares its motion with.
QuiescentMeansKnown ==
  \A o \in Nodes :
    (m_checkChangeTimer[o] > 0 /\ \A c \in updates : c.origin # o)
      => \A n \in Nodes \ {o} :
           \E r \in m_positionTable[n] : r.adress = o /\ r.born = m_lastSendPos[o]

\* On a channel without loss, a node never lags behind a report older than one
\* hop delay per node.
ReportsArriveInTime ==
  \A o, n \in Nodes :
    (n # o /\ m_checkChangeTimer[o] > 0
       /\ now > m_lastSendPos[o] + Cardinality(Nodes) * HopDelay)
      => \E r \in m_positionTable[n] : r.adress = o /\ r.born = m_lastSendPos[o]

\* On a channel without loss, a position once known is never purged: the sender
\* reports again before its entry's lifetime is over in any table
\* (CheckChange, lines 832-835, against Purge, rtable.cc:190).
KnownNodesStayKnown ==
  [][\A n, o \in Nodes :
       HasRoute(m_positionTable[n], o) => HasRoute(m_positionTable'[n], o)]_vars

\* On a channel without loss, from its first second on every node knows every sender
\* all the time, by a position no older than MaxAge: what the data plane starts from.
AlwaysInformed ==
  now >= Second => \A o \in Reporters : \A n \in Nodes \ {o} :
    \E r \in m_positionTable[n] : r.adress = o /\ now <= r.born + MaxAge

\* The refinement mapping to PositionSharing: what a node last broadcast, and
\* the sample of each other node that its table holds.
latest == [o \in Nodes |-> IF m_checkChangeTimer[o] = 0 THEN -1 ELSE m_lastSendPos[o]]
view == [n \in Nodes |-> [o \in Nodes |->
          IF HasRoute(m_positionTable[n], o)
            THEN LookupRoute(m_positionTable[n], o).born ELSE -1]]

Sharing == INSTANCE PositionSharing WITH latest <- latest, view <- view

\* Seen through its tables, the flooding protocol moves every node's view of
\* every other forward through the samples the other broadcast.
ImplementsSharing == Sharing!Spec

\* Purge removes an entry only when its lifetime is over ("purge expired table
\* entries", rtable.cc:181).
PurgeOnlyExpired ==
  [][\A n \in Nodes : \A r \in m_positionTable[n] :
       HasRoute(m_positionTable'[n], r.adress)
         \/ Seconds(now) - Seconds(r.born) >= EntryLifeTime]_vars
==============================================================================
