----------------------------- MODULE ReachProofs -----------------------------
(***************************************************************************)
(* Proofs about PositionUpdate on a channel that loses nothing, for every  *)
(* network in which reports can get from each node to each other: when the *)
(* copies of a report are off the air every node holds it, it takes one    *)
(* hop delay per node at most, and no table ever forgets a node.  And, on  *)
(* any channel, what Purge removes before timestamps wrap.                 *)
(***************************************************************************)
EXTENDS PositionUpdateProofs

------------------------------------------------------------------------------
(* The inductive invariant of a reliable network, on top of FloodInv. *)

\* A node that sampled at tick b sends again by then.
Deadline(b) == (Seconds(b) + MaxIntervalTime + 1) * Second + CheckInterval + CheckJitter

Started(o) == m_checkChangeTimer[o] > 0

\* n holds o's latest report.
Holds(n, o) ==
  n = o \/ \E r \in m_positionTable[n] : r.adress = o /\ r.born = m_lastSendPos[o]

\* Senders keep their deadlines.
Prompt ==
  \A o \in Nodes :
    /\ o \in Reporters /\ ~Started(o) => now = 0
    /\ Started(o) =>
         /\ o \in Reporters
         /\ m_lastSendTime[o] = Timestamp(m_lastSendPos[o])
         /\ m_checkChangeTimer[o] <= Deadline(m_lastSendPos[o])

\* The latest report goes on from every node that holds it.
Spreading ==
  \A o, n \in Nodes : Started(o) /\ Holds(n, o) =>
    \A m \in Link[n] : Holds(m, o) \/ \E c \in updates : c.origin = o /\ c.to = m
                                         /\ c.born = m_lastSendPos[o]

\* A node that has relayed the latest report, or would drop it, holds it.
Noted ==
  \A o, n \in Nodes : Started(o) /\ ~Holds(n, o) =>
    /\ Report(n, o, m_lastSendPos[o]) \notin accepted
    /\ \A u \in m_idCache[n] : u.context = o => u.timestamp # Timestamp(m_lastSendPos[o])

\* An entry is of the latest report, or of one that was replaced in time.
Recent ==
  \A n \in Nodes : \A r \in m_positionTable[n] :
    /\ r.timestamp = Timestamp(r.born)
    /\ r.adress # Loopback =>
         r.born = m_lastSendPos[r.adress] \/ m_lastSendPos[r.adress] <= Deadline(r.born)

\* Two reports of one sender are a second apart.
Spaced ==
  \A c \in updates :
    c.born = m_lastSendPos[c.origin] \/ c.born + Second <= m_lastSendPos[c.origin]

ReachInv == Prompt /\ Spaced /\ Spreading /\ Noted /\ Recent

------------------------------------------------------------------------------
(* Arithmetic. *)

LEMMA DeadlineNat ==
  ASSUME NEW b \in Nat
  PROVE  /\ Deadline(b) \in Nat /\ Seconds(b) \in Nat
         /\ b + CheckInterval + CheckJitter <= Deadline(b)
         /\ b <= Deadline(b)
<1> USE PositionUpdateAssumption
<1>1. Seconds(b) \in Nat /\ b <= Second * Seconds(b) + Second
  BY DEF Seconds
<1> DEFINE s == Seconds(b)
           m == s + MaxIntervalTime + 1
<1>2. s + 1 \in Nat /\ m \in Nat /\ s + 1 <= m
  BY <1>1
<1>3. (s + 1) * Second = Second * s + Second
  BY <1>1
<1> HIDE DEF s, m
<1>4. (s + 1) * Second <= m * Second /\ m * Second \in Nat
  BY <1>2, TimesMono
<1>5. b <= m * Second
  BY <1>1, <1>3, <1>4 DEF s
<1>6. m * Second + CheckInterval + CheckJitter = Deadline(b)
  BY DEF m, s, Deadline
<1> DEFINE p == m * Second
<1>7. p \in Nat /\ b <= p /\ Deadline(b) = p + CheckInterval + CheckJitter
  BY <1>4, <1>5, <1>6
<1> HIDE DEF p
<1> QED BY <1>1, <1>7

\* Until a report is everywhere, a node is missing among its relays.
LEMMA HopsLeft ==
  ASSUME NEW k \in Nat, NEW m \in Nat, k <= m - 1,
         NEW b \in Nat, NEW s \in Nat, NEW t \in Nat,
         s <= b + (k - 1) * HopDelay, t <= s + HopDelay
  PROVE  t <= b + (m - 1) * HopDelay
<1> USE PositionUpdateAssumption
<1>1. (k + 1 - 1) * HopDelay = (k - 1) * HopDelay + HopDelay
  BY TimesSucc
<1>2. k * HopDelay <= (m - 1) * HopDelay
  BY TimesMono
<1>3. k + 1 - 1 = k
  OBVIOUS
<1> DEFINE x == (k - 1) * HopDelay
           y == k * HopDelay
           z == (m - 1) * HopDelay
<1>4. x \in Int /\ y \in Int /\ z \in Int /\ y = x + HopDelay /\ y <= z /\ s <= b + x
  BY <1>1, <1>2, <1>3
<1> HIDE DEF x, y, z
<1>5. t <= b + z
  BY <1>4
<1> QED BY <1>5 DEF z

\* The time a report needs is less than a second.
LEMMA WithinSecond ==
  ASSUME Timely
  PROVE  /\ (Cardinality(Nodes) - 1) * HopDelay \in Nat
         /\ (Cardinality(Nodes) - 1) * HopDelay < Second
<1> USE PositionUpdateAssumption
<1>1. Cardinality(Nodes) \in Nat /\ Cardinality(Nodes) # 0
  BY RelaysFinite, FS_EmptySet, FS_CardinalityType
<1> DEFINE m == Cardinality(Nodes)
<1>2. m \in Nat /\ m # 0 /\ m * HopDelay <= Second
  BY <1>1 DEF Timely
<1> HIDE DEF m
<1>3. (m + 1 - 1) * HopDelay = (m - 1) * HopDelay + HopDelay /\ m + 1 - 1 = m
  BY <1>2, TimesSucc
<1>4. m - 1 \in Nat /\ (m - 1) * HopDelay \in Nat
  BY <1>2
<1>5. (m - 1) * HopDelay < Second
  <2> DEFINE x == (m - 1) * HopDelay
             y == m * HopDelay
  <2>1. x \in Nat /\ y \in Nat /\ y = x + HopDelay /\ y <= Second
    BY <1>2, <1>3, <1>4
  <2> HIDE DEF x, y
  <2>2. x < Second
    BY <2>1
  <2> QED BY <2>2 DEF x
<1> QED BY <1>4, <1>5 DEF m

\* Timestamps do not wrap.
LEMMA SecondsStamp ==
  ASSUME Horizon < TimestampMod * Second, NEW t \in Nat, t <= Horizon
  PROVE  Timestamp(t) = Seconds(t)
<1> USE PositionUpdateAssumption
<1>1. t < TimestampMod * Second /\ TimestampMod * Second \in Nat
  OBVIOUS
<1>2. Seconds(t) \in Nat /\ Seconds(t) < TimestampMod
  BY <1>1 DEF Seconds
<1> QED BY <1>2 DEF Timestamp

------------------------------------------------------------------------------
(* What the invariant implies. *)

\* As long as some node lacks a report, a copy is on its way to one that does.
LEMMA Frontier ==
  ASSUME TypeOK, FloodInv, Reliable, Spreading, Noted,
         NEW o \in Nodes, Started(o), NEW x \in Nodes, ~Holds(x, o)
  PROVE  /\ \E c \in updates : c.origin = o /\ c.born = m_lastSendPos[o]
         /\ now <= m_lastSendPos[o] + (Cardinality(Nodes) - 1) * HopDelay
<1> USE PositionUpdateAssumption
<1> DEFINE S == {n \in Nodes : Holds(n, o)}
           b == m_lastSendPos[o]
<1>1. S \in SUBSET Nodes /\ o \in S /\ S # Nodes
  BY DEF Holds
<1>2. PICK n \in S : ~(Link[n] \subseteq S)
  BY <1>1 DEF Reliable
<1>3. PICK m \in Link[n] : m \notin S
  BY <1>2
<1>4. n \in Nodes /\ m \in Nodes /\ Holds(n, o) /\ ~Holds(m, o)
  BY <1>3
<1>5. PICK c \in updates : c.origin = o /\ c.to = m /\ c.born = b
  BY <1>3, <1>4 DEF Spreading
<1>6. m \notin Relays(o, b)
  BY <1>4 DEF Noted, Relays
<1> DEFINE k == Cardinality(Relays(o, b))
           N == Cardinality(Nodes)
<1>7. k \in Nat /\ N \in Nat /\ k <= N - 1
  <2>1. IsFiniteSet(Nodes \ {m}) /\ Cardinality(Nodes \ {m}) = N - 1
    BY <1>4, FS_RemoveElement
  <2>2. Relays(o, b) \subseteq Nodes \ {m}
    BY <1>6 DEF Relays
  <2>3. k <= Cardinality(Nodes \ {m})
    BY <2>1, <2>2, FS_Subset
  <2> QED BY <2>1, <2>3, RelaysFinite
<1>8. c.sent <= b + (k - 1) * HopDelay /\ now <= c.sent + HopDelay
  BY <1>5 DEF FloodInv, Flood
<1>9. b \in Nat /\ c.sent \in Nat /\ now \in Nat
  BY DEF TypeOK, Copy, Ticks
<1>10. now <= b + (N - 1) * HopDelay
  <2> HIDE DEF k, N, b
  <2> QED BY <1>7, <1>8, <1>9, HopsLeft
<1> QED BY <1>5, <1>10

\* A second after it was sent, a report is everywhere.
LEMMA HeldEverywhere ==
  ASSUME TypeOK, FloodInv, Timely, Reliable, Spreading, Noted,
         NEW o \in Nodes, Started(o), m_lastSendPos[o] + Second <= now, NEW x \in Nodes
  PROVE  Holds(x, o)
<1> SUFFICES ASSUME ~Holds(x, o) PROVE FALSE
  OBVIOUS
<1> DEFINE z == (Cardinality(Nodes) - 1) * HopDelay
<1>1. now <= m_lastSendPos[o] + z
  BY Frontier
<1>2. z \in Nat /\ z < Second
  BY WithinSecond
<1>3. now \in Nat /\ m_lastSendPos[o] \in Nat /\ Second \in Nat
  BY PositionUpdateAssumption DEF TypeOK, Ticks
<1> HIDE DEF z
<1> QED BY <1>1, <1>2, <1>3

LEMMA Quiescent ==
  ASSUME TypeOK, FloodInv, Reliable, Spreading, Noted PROVE QuiescentMeansKnown
<1> SUFFICES ASSUME NEW o \in Nodes, Started(o), \A c \in updates : c.origin # o,
                    NEW n \in Nodes \ {o}
             PROVE  Holds(n, o)
  BY DEF QuiescentMeansKnown, Holds, Started
<1> QED BY Frontier

LEMMA InTime ==
  ASSUME TypeOK, FloodInv, Timely, Reliable, Spreading, Noted PROVE ReportsArriveInTime
<1> SUFFICES ASSUME NEW o \in Nodes, NEW n \in Nodes, n # o, Started(o),
                    now > m_lastSendPos[o] + Cardinality(Nodes) * HopDelay
             PROVE  Holds(n, o)
  BY DEF ReportsArriveInTime, Holds, Started
<1> SUFFICES ASSUME ~Holds(n, o) PROVE FALSE
  OBVIOUS
<1> USE PositionUpdateAssumption
<1> DEFINE N == Cardinality(Nodes)
<1>1. now <= m_lastSendPos[o] + (N - 1) * HopDelay
  BY Frontier
<1>2. N \in Nat
  BY RelaysFinite
<1>3. now \in Nat /\ m_lastSendPos[o] \in Nat
  BY DEF TypeOK, Ticks
<1>4. now > m_lastSendPos[o] + N * HopDelay
  OBVIOUS
<1> HIDE DEF N
<1>5. (N - 1) * HopDelay <= N * HopDelay
  BY <1>2, TimesMono
<1> DEFINE y == (N - 1) * HopDelay
           z == N * HopDelay
<1>6. y \in Int /\ z \in Int /\ y <= z /\ now <= m_lastSendPos[o] + y /\ now > m_lastSendPos[o] + z
  BY <1>1, <1>2, <1>4, <1>5
<1> HIDE DEF y, z
<1> QED BY <1>3, <1>6

\* The next report of a node is sent by its deadline, and is everywhere a flood later.
LEMMA EntryAge ==
  ASSUME TypeOK, FloodInv, Timely, Reliable, ReachInv,
         NEW n \in Nodes, NEW r \in m_positionTable[n], r.adress # Loopback
  PROVE  now <= Deadline(r.born) + (Cardinality(Nodes) - 1) * HopDelay
<1> USE PositionUpdateAssumption
<1> DEFINE o == r.adress
           l == m_lastSendPos[o]
           z == (Cardinality(Nodes) - 1) * HopDelay
<1>1. o \in Nodes /\ r.born \in Nat /\ r.timestamp = Timestamp(r.born) /\ now \in Nat
      /\ l \in Nat /\ m_checkChangeTimer[o] \in Nat
  BY DEF TypeOK, Entry, Ticks, ReachInv, Recent
<1>2. Started(o) /\ r.born <= now /\ r.born <= l
  BY DEF FloodInv, Tables, Started
<1>3. z \in Nat
  BY WithinSecond
<1>4. now <= Deadline(r.born) + z
  <2>1. CASE r.born = l
    <3>1. now <= m_checkChangeTimer[o]
      BY <1>1, <1>2 DEF FloodInv, Clock, ReachInv, Prompt
    <3>2. m_checkChangeTimer[o] <= Deadline(l)
      BY <1>1, <1>2 DEF ReachInv, Prompt
    <3>3. Deadline(l) \in Nat
      BY <1>1, DeadlineNat
    <3> HIDE DEF z, l, o
    <3> QED BY <1>1, <1>3, <2>1, <3>1, <3>2, <3>3
  <2>2. CASE r.born # l
    <3>1. ~Holds(n, o)
      <4>1. \A q \in m_positionTable[n] : q.adress = o => q = r
        BY DEF FloodInv, Tables
      <4>2. n # o
        BY DEF FloodInv, Tables
      <4> QED BY <2>2, <4>1, <4>2 DEF Holds
    <3>2. now <= l + z
      BY <1>1, <1>2, <3>1, Frontier DEF ReachInv
    <3>3. l <= Deadline(r.born)
      BY <2>2 DEF ReachInv, Recent
    <3>4. Deadline(r.born) \in Nat
      BY <1>1, DeadlineNat
    <3> HIDE DEF z, l, o
    <3> QED BY <1>1, <1>3, <3>2, <3>3, <3>4
  <2> QED BY <2>1, <2>2
<1> QED BY <1>4

\* The latest report of a node that a table has an entry for is sent in time to find
\* it there.
LEMMA EntriesLive ==
  ASSUME TypeOK, FloodInv, Timely, Reliable, Remembered, ReachInv,
         NEW n \in Nodes, NEW r \in m_positionTable[n], r.adress # Loopback
  PROVE  EntryLifeTime + r.timestamp > Seconds(now)
<1> USE PositionUpdateAssumption
<1> DEFINE z == (Cardinality(Nodes) - 1) * HopDelay
<1>1. r.born \in Nat /\ r.timestamp = Timestamp(r.born) /\ now \in Nat
  BY DEF TypeOK, Entry, Ticks, ReachInv, Recent
<1>2. r.born <= now
  BY DEF FloodInv, Tables
<1>3. z \in Nat
  BY WithinSecond
<1>4. now <= Deadline(r.born) + z
  BY EntryAge
<1>5. Timestamp(r.born) = Seconds(r.born)
  BY <1>1, <1>2, SecondsStamp DEF FloodInv, Clock, Timely
<1> DEFINE s == Seconds(r.born)
           m == MaxIntervalTime + 1
           g == m * Second
           L == EntryLifeTime * Second
<1>6. s \in Nat /\ Deadline(r.born) = s * Second + g + CheckInterval + CheckJitter
  <2>1. s \in Nat
    BY <1>1, DeadlineNat
  <2>2. (s + MaxIntervalTime + 1) * Second = s * Second + (MaxIntervalTime + 1) * Second
    BY <2>1
  <2> QED BY <2>1, <2>2 DEF Deadline
<1>7. g \in Nat /\ L \in Nat /\ g + CheckInterval + CheckJitter + z < L
  BY <1>3 DEF Remembered, MaxAge
<1>8. now < s * Second + L
  <2> DEFINE x == s * Second
  <2>1. x \in Nat
    BY <1>6
  <2>2. Deadline(r.born) = x + g + CheckInterval + CheckJitter
    BY <1>6
  <2> HIDE DEF x, g, L, z
  <2>3. now < x + L
    BY <1>1, <1>3, <1>4, <1>7, <2>1, <2>2
  <2> QED BY <2>3 DEF x
<1>9. s * Second + L = Second * (s + EntryLifeTime)
  BY <1>6
<1>10. Seconds(now) < s + EntryLifeTime
  <2> DEFINE e == s + EntryLifeTime
  <2>1. e \in Nat /\ now < Second * e
    BY <1>6, <1>8, <1>9
  <2> HIDE DEF e
  <2>2. now \div Second < e
    BY <1>1, <2>1
  <2> QED BY <2>2 DEF e, Seconds
<1>11. Seconds(now) \in Nat
  BY <1>1, DeadlineNat
<1> QED BY <1>1, <1>5, <1>6, <1>10, <1>11

------------------------------------------------------------------------------
(* The steps. *)

\* A step that sends and receives nothing.
LEMMA NothingSent ==
  ASSUME TypeOK, ReachInv, Prompt', m_lastSendPos' = m_lastSendPos,
         \A o \in Nodes : Started(o)' => Started(o),
         updates' = updates, accepted' = accepted, m_idCache' = m_idCache,
         \A n \in Nodes : m_positionTable'[n] \subseteq m_positionTable[n],
         \A n \in Nodes : \A r \in m_positionTable[n] :
           r.adress # Loopback => r \in m_positionTable'[n]
  PROVE  ReachInv'
<1> USE PositionUpdateAssumption
<1>h. \A o, x \in Nodes : Holds(x, o)' <=> Holds(x, o)
  BY DEF Holds
<1>1. Spaced'
  BY DEF ReachInv, Spaced
<1>2. Spreading'
  <2> SUFFICES ASSUME NEW o \in Nodes, NEW n \in Nodes, Started(o)', Holds(n, o)',
                      NEW m \in Link[n]
               PROVE  Holds(m, o)' \/ \E c \in updates : c.origin = o /\ c.to = m
                                                  /\ c.born = m_lastSendPos[o]
    BY DEF Spreading
  <2>1. Started(o) /\ Holds(n, o) /\ m \in Nodes
    BY <1>h
  <2>2. Holds(m, o) \/ \E c \in updates : c.origin = o /\ c.to = m
                                           /\ c.born = m_lastSendPos[o]
    BY <2>1 DEF ReachInv, Spreading
  <2> QED BY <1>h, <2>1, <2>2
<1>3. Noted'
  BY <1>h DEF ReachInv, Noted, Report, Timestamp, Seconds
<1>4. Recent'
  BY DEF ReachInv, Recent, Timestamp, Seconds, Deadline
<1> QED BY <1>1, <1>2, <1>3, <1>4 DEF ReachInv

\* SendUpdate: whoever held the last report may now be behind, and all did.
LEMMA SendReach ==
  ASSUME TypeOK, FloodInv, Timely, Reliable, ReachInv,
         NEW n \in Reporters, SendUpdate(n), now' = now,
         Started(n) => m_lastSendPos[n] + Second <= now /\ now <= m_checkChangeTimer[n],
         NEW t \in Nat \ {0}, t <= Deadline(now),
         m_checkChangeTimer' = [m_checkChangeTimer EXCEPT ![n] = t]
  PROVE  ReachInv'
<1> USE PositionUpdateAssumption
<1> DEFINE l == m_lastSendPos[n]
           e == [adress |-> Loopback, timestamp |-> Timestamp(now), born |-> now]
<1>n. n \in Nodes /\ now \in Nat /\ l \in Nat /\ now <= Horizon /\ Loopback \notin Nodes
  BY DEF TypeOK, Ticks, FloodInv, Clock
<1>p. /\ m_lastSendPos' = [m_lastSendPos EXCEPT ![n] = now]
      /\ m_lastSendTime' = [m_lastSendTime EXCEPT ![n] = Timestamp(now)]
      /\ m_lastSendPos'[n] = now /\ m_lastSendTime'[n] = Timestamp(now)
      /\ \A o \in Nodes \ {n} : /\ m_lastSendPos'[o] = m_lastSendPos[o]
                                /\ m_lastSendTime'[o] = m_lastSendTime[o]
  BY <1>n DEF SendUpdate, TypeOK
<1>t. /\ m_positionTable'[n] = {r \in m_positionTable[n] : r.adress # Loopback} \cup {e}
      /\ \A m \in Nodes \ {n} : m_positionTable'[m] = m_positionTable[m]
  BY <1>n DEF SendUpdate, Update, TypeOK
<1>s. /\ Started(n)' /\ m_checkChangeTimer'[n] = t
      /\ \A o \in Nodes \ {n} : m_checkChangeTimer'[o] = m_checkChangeTimer[o]
      /\ \A o \in Nodes \ {n} : Started(o)' <=> Started(o)
  BY <1>n DEF Started, TypeOK
<1>u. updates' = updates \cup Copies(n, n, Timestamp(now), now)
  BY DEF SendUpdate
<1>i. \A m \in Nodes : \A u \in m_idCache'[m] :
        u \in m_idCache[m] \/ (m = n /\ u.context = n)
  BY <1>n DEF SendUpdate, Remember, PurgeIds, TypeOK
<1>a. \A x \in accepted' : x \in accepted \/ x = Report(n, n, now)
  BY DEF SendUpdate, OnAir, Report
<1>h. \A o \in Nodes \ {n}, x \in Nodes : Holds(x, o)' <=> Holds(x, o)
  BY <1>n, <1>p, <1>t DEF Holds
<1>hn. \A x \in Nodes : Holds(x, n)' <=> x = n
  <2> SUFFICES ASSUME NEW x \in Nodes, x # n, NEW r \in m_positionTable'[x],
                      r.adress = n, r.born = now
               PROVE  FALSE
    BY <1>p DEF Holds
  <2>1. r \in m_positionTable[x] /\ r.adress # Loopback
    BY <1>t, <1>n
  <2> QED BY <2>1, <1>n DEF FloodInv, Tables
<1>old. Started(n) => \A x \in Nodes : Holds(x, n)
  BY <1>n, HeldEverywhere DEF ReachInv
<1>1. Prompt'
  <2> SUFFICES ASSUME NEW o \in Nodes
               PROVE  /\ o \in Reporters /\ ~Started(o)' => now = 0
                      /\ Started(o)' =>
                           /\ o \in Reporters
                           /\ m_lastSendTime'[o] = Timestamp(m_lastSendPos'[o])
                           /\ m_checkChangeTimer'[o] <= Deadline(m_lastSendPos'[o])
    BY DEF Prompt, Timestamp, Seconds, Deadline
  <2>1. CASE o = n
    BY <2>1, <1>s, <1>p
  <2>2. CASE o # n
    BY <2>2, <1>s, <1>p DEF ReachInv, Prompt
  <2> QED BY <2>1, <2>2
<1>2. Spaced'
  <2> SUFFICES ASSUME NEW c \in updates'
               PROVE  c.born = m_lastSendPos'[c.origin]
                        \/ c.born + Second <= m_lastSendPos'[c.origin]
    BY DEF Spaced
  <2>1. CASE c \notin updates
    BY <2>1, <1>u, <1>p DEF Copies
  <2>2. CASE c \in updates /\ c.origin # n
    <3>1. c.origin \in Nodes \ {n}
      BY <2>2 DEF TypeOK, Copy
    <3> QED BY <2>2, <3>1, <1>p DEF ReachInv, Spaced
  <2>3. CASE c \in updates /\ c.origin = n
    <3>1. Started(n) /\ c.born <= l /\ c.born \in Nat
      BY <2>3 DEF FloodInv, Flood, Started, TypeOK, Copy, Ticks
    <3> QED BY <2>3, <3>1, <1>n, <1>p
  <2> QED BY <2>1, <2>2, <2>3
<1>3. Spreading'
  <2> SUFFICES ASSUME NEW o \in Nodes, NEW x \in Nodes, Started(o)', Holds(x, o)',
                      NEW m \in Link[x]
               PROVE  Holds(m, o)' \/ \E c \in updates' : c.origin = o /\ c.to = m
                                                   /\ c.born = m_lastSendPos'[o]
    BY DEF Spreading
  <2>1. CASE o = n
    <3>1. x = n
      BY <2>1, <1>hn
    <3> DEFINE c == [from |-> n, to |-> m, origin |-> n, timestamp |-> Timestamp(now),
                     born |-> now, sent |-> now]
    <3>2. c \in updates'
      BY <3>1, <1>u DEF Copies
    <3>3. c.origin = n /\ c.to = m /\ c.born = now
      OBVIOUS
    <3> HIDE DEF c
    <3> QED BY <2>1, <3>2, <3>3, <1>p
  <2>2. CASE o # n
    <3>1. Started(o) /\ Holds(x, o) /\ m \in Nodes /\ m_lastSendPos'[o] = m_lastSendPos[o]
      BY <2>2, <1>s, <1>h, <1>p
    <3>2. Holds(m, o) \/ \E c \in updates : c.origin = o /\ c.to = m
                                             /\ c.born = m_lastSendPos[o]
      BY <3>1 DEF ReachInv, Spreading
    <3> QED BY <2>2, <3>1, <3>2, <1>h, <1>u
  <2> QED BY <2>1, <2>2
<1>4. Noted'
  <2> SUFFICES ASSUME NEW o \in Nodes, NEW x \in Nodes, Started(o)', ~Holds(x, o)'
               PROVE  /\ Report(x, o, m_lastSendPos'[o]) \notin accepted'
                      /\ \A u \in m_idCache'[x] :
                           u.context = o => u.timestamp # Timestamp(m_lastSendPos'[o])
    BY DEF Noted, Report, Timestamp, Seconds
  <2>1. CASE o = n
    <3>1. x # n
      BY <2>1, <1>hn
    <3>2. ASSUME Started(n) PROVE l + Second <= now /\ l < now
      BY <3>2, <1>n
    <3>3. Report(x, n, now) \notin accepted'
      <4> SUFFICES ASSUME Report(x, n, now) \in accepted' PROVE FALSE
        OBVIOUS
      <4>1. Report(x, n, now) \in accepted
        BY <1>a, <3>1 DEF Report
      <4>2. PICK d \in updates : d.origin = n /\ d.born = now
        BY <4>1 DEF FloodInv, Pruned, Report
      <4>3. Started(n) /\ now <= l
        BY <4>2 DEF FloodInv, Flood, Started
      <4> QED BY <3>2, <4>3, <1>n
    <3>4. ASSUME NEW u \in m_idCache'[x], u.context = n PROVE u.timestamp # Timestamp(now)
      <4>1. u \in m_idCache[x]
        BY <3>1, <1>i
      <4>2. Started(n) /\ u.timestamp <= Timestamp(l) /\ u.timestamp \in Nat
        BY <3>4, <4>1 DEF FloodInv, IdsUsed, Started, TypeOK, UniqueId
      <4>3. Timestamp(l) < Timestamp(now)
        BY <3>2, <4>2, <1>n, TimestampMono
      <4> QED BY <4>2, <4>3, <1>n, TimestampNat
    <3> QED BY <2>1, <3>3, <3>4, <1>p
  <2>2. CASE o # n
    <3>1. Started(o) /\ ~Holds(x, o) /\ m_lastSendPos'[o] = m_lastSendPos[o]
      BY <2>2, <1>s, <1>h, <1>p
    <3>2. Report(x, o, m_lastSendPos[o]) \notin accepted'
      BY <2>2, <3>1, <1>a DEF ReachInv, Noted, Report
    <3>3. ASSUME NEW u \in m_idCache'[x], u.context = o
          PROVE  u.timestamp # Timestamp(m_lastSendPos[o])
      BY <2>2, <3>1, <3>3, <1>i DEF ReachInv, Noted
    <3> QED BY <3>1, <3>2, <3>3
  <2> QED BY <2>1, <2>2
<1>5. Recent'
  <2> SUFFICES ASSUME NEW x \in Nodes, NEW r \in m_positionTable'[x]
               PROVE  /\ r.timestamp = Timestamp(r.born)
                      /\ r.adress # Loopback =>
                           \/ r.born = m_lastSendPos'[r.adress]
                           \/ m_lastSendPos'[r.adress] <= Deadline(r.born)
    BY DEF Recent, Timestamp, Seconds, Deadline
  <2>1. CASE r \notin m_positionTable[x]
    BY <2>1, <1>t
  <2>2. CASE r \in m_positionTable[x] /\ r.adress # n
    <3>1. r.adress # Loopback => r.adress \in Nodes \ {n}
      BY <2>2 DEF TypeOK, Entry
    <3> QED BY <2>2, <3>1, <1>p DEF ReachInv, Recent
  <2>3. CASE r \in m_positionTable[x] /\ r.adress = n
    <3>1. Started(n) /\ x # n /\ r.adress # Loopback
      BY <2>3, <1>n DEF FloodInv, Tables, Started
    <3>2. PICK q \in m_positionTable[x] : q.adress = n /\ q.born = l
      BY <3>1, <1>old DEF Holds
    <3>3. q = r
      BY <2>3, <3>2 DEF FloodInv, Tables
    <3>4. m_checkChangeTimer[n] <= Deadline(l) /\ now <= m_checkChangeTimer[n]
      BY <3>1, <1>n DEF ReachInv, Prompt
    <3>5. now <= Deadline(l)
      BY <3>4, <1>n, DeadlineNat DEF TypeOK, Ticks
    <3> QED BY <2>3, <3>2, <3>3, <3>5, <1>p DEF ReachInv, Recent
  <2> QED BY <2>1, <2>2, <2>3
<1> QED BY <1>1, <1>2, <1>3, <1>4, <1>5 DEF ReachInv

\* A copy that is not a duplicate is of its sender's latest report.
LEMMA OnlyTheLatest ==
  ASSUME TypeOK, FloodInv, Timely, Spaced, NEW c \in updates,
         ~IsDuplicate(m_idCache[c.to], c.origin, c.timestamp, now)
  PROVE  c.born = m_lastSendPos[c.origin] /\ c.to # c.origin
<1> USE PositionUpdateAssumption
<1> DEFINE b == c.born
           k == Cardinality(Relays(c.origin, b))
           N == Cardinality(Nodes)
           l == m_lastSendPos[c.origin]
<1>1. c.to \notin Relays(c.origin, b) /\ c.to \in Nodes /\ c.origin \in Nodes
  BY RelayIsDuplicate DEF FloodInv, TypeOK, Copy
<1>2. k \in Nat /\ N \in Nat /\ k <= N - 1
  <2>1. IsFiniteSet(Nodes \ {c.to}) /\ Cardinality(Nodes \ {c.to}) = N - 1
    BY <1>1, FS_RemoveElement
  <2>2. Relays(c.origin, b) \subseteq Nodes \ {c.to}
    BY <1>1 DEF Relays
  <2>3. k <= Cardinality(Nodes \ {c.to})
    BY <2>1, <2>2, FS_Subset
  <2> QED BY <2>1, <2>3, RelaysFinite
<1>3. c.sent <= b + (k - 1) * HopDelay /\ now <= c.sent + HopDelay /\ c.to # c.origin
  BY <1>1 DEF FloodInv, Flood
<1>4. b \in Nat /\ c.sent \in Nat /\ now \in Nat /\ l \in Nat
  BY <1>1 DEF TypeOK, Copy, Ticks
<1>5. now <= b + (N - 1) * HopDelay
  <2> HIDE DEF k, N, b
  <2> QED BY <1>2, <1>3, <1>4, HopsLeft
<1>6. l <= now /\ (b = l \/ b + Second <= l)
  BY <1>1 DEF FloodInv, Flood, Clock, Spaced
<1> DEFINE z == (N - 1) * HopDelay
<1>7. z \in Nat /\ z < Second /\ now <= b + z
  BY <1>5, WithinSecond
<1> HIDE DEF z, b, l
<1>8. b = l
  BY <1>4, <1>6, <1>7
<1> QED BY <1>3, <1>8 DEF b, l

\* RecvMyprotocol of a report the node has not seen.
LEMMA RecvReach ==
  ASSUME TypeOK, FloodInv, Timely, ReachInv, NEW c \in updates, RecvMyprotocol(c),
         ~IsDuplicate(m_idCache[c.to], c.origin, c.timestamp, now)
  PROVE  ReachInv'
<1> USE PositionUpdateAssumption
<1> DEFINE n == c.to
           o == c.origin
           b == c.born
           e == [adress |-> o, timestamp |-> c.timestamp, born |-> b]
<1>c. /\ n \in Nodes /\ o \in Nodes /\ b = m_lastSendPos[o] /\ n # o
      /\ c.timestamp = Timestamp(b) /\ Loopback \notin Nodes
  BY OnlyTheLatest DEF TypeOK, Copy, FloodInv, Flood, ReachInv
<1>s. /\ now' = now /\ m_checkChangeTimer' = m_checkChangeTimer
      /\ m_lastSendPos' = m_lastSendPos /\ m_lastSendTime' = m_lastSendTime
  BY DEF RecvMyprotocol
<1>u. updates' = (updates \ {c}) \cup Copies(n, o, c.timestamp, b)
  BY DEF RecvMyprotocol
<1>a. \A x \in accepted' : x \in accepted \/ x = Report(n, o, b)
  BY DEF RecvMyprotocol, OnAir, Report
<1>i. \A m \in Nodes : \A u \in m_idCache'[m] :
        u \in m_idCache[m] \/ (m = n /\ u.context = o)
  BY <1>c DEF RecvMyprotocol, Remember, PurgeIds, TypeOK
<1>t. /\ m_positionTable'[n] = {r \in m_positionTable[n] : r.adress # o} \cup {e}
      /\ \A m \in Nodes \ {n} : m_positionTable'[m] = m_positionTable[m]
  BY <1>c DEF RecvMyprotocol, Update, TypeOK
<1>h. \A p, x \in Nodes : Holds(x, p)' <=> Holds(x, p) \/ (x = n /\ p = o)
  <2> TAKE p \in Nodes, x \in Nodes
  <2>1. CASE x # n
    BY <2>1, <1>s, <1>t DEF Holds
  <2>2. CASE x = n /\ p # o
    BY <2>2, <1>s, <1>t DEF Holds
  <2>3. CASE x = n /\ p = o
    <3>1. e \in m_positionTable'[n] /\ e.adress = o /\ e.born = m_lastSendPos'[o]
      BY <1>c, <1>s, <1>t
    <3> QED BY <2>3, <3>1 DEF Holds
  <2> QED BY <2>1, <2>2, <2>3
<1>st. \A p \in Nodes : Started(p)' <=> Started(p)
  BY <1>s DEF Started
<1>1. Prompt'
  BY <1>s DEF ReachInv, Prompt, Started, Timestamp, Seconds, Deadline
<1>2. Spaced'
  BY <1>c, <1>s, <1>u DEF ReachInv, Spaced, Copies
<1>3. Spreading'
  <2> SUFFICES ASSUME NEW p \in Nodes, NEW x \in Nodes, Started(p), Holds(x, p)',
                      NEW m \in Link[x]
               PROVE  Holds(m, p)' \/ \E d \in updates' : d.origin = p /\ d.to = m
                                                   /\ d.born = m_lastSendPos[p]
    BY <1>s, <1>st DEF Spreading
  <2>m. m \in Nodes
    OBVIOUS
  <2>1. CASE Holds(x, p)
    <3>1. CASE Holds(m, p)
      BY <3>1, <2>m, <1>h
    <3>2. CASE ~Holds(m, p)
      <4>1. PICK d \in updates : d.origin = p /\ d.to = m /\ d.born = m_lastSendPos[p]
        BY <2>1, <3>2 DEF ReachInv, Spreading
      <4>2. CASE d = c
        BY <4>1, <4>2, <2>m, <1>h
      <4>3. CASE d # c
        BY <4>1, <4>3, <1>u
      <4> QED BY <4>2, <4>3
    <3> QED BY <3>1, <3>2
  <2>2. CASE x = n /\ p = o
    <3> DEFINE d == [from |-> n, to |-> m, origin |-> o, timestamp |-> c.timestamp,
                     born |-> b, sent |-> now]
    <3>1. d \in updates'
      BY <2>2, <1>u DEF Copies
    <3>2. d.origin = o /\ d.to = m /\ d.born = b
      OBVIOUS
    <3> HIDE DEF d
    <3> QED BY <2>2, <3>1, <3>2, <1>c
  <2> QED BY <2>1, <2>2, <1>h
<1>4. Noted'
  <2> SUFFICES ASSUME NEW p \in Nodes, NEW x \in Nodes, Started(p), ~Holds(x, p)'
               PROVE  /\ Report(x, p, m_lastSendPos[p]) \notin accepted'
                      /\ \A u \in m_idCache'[x] :
                           u.context = p => u.timestamp # Timestamp(m_lastSendPos[p])
    BY <1>s, <1>st DEF Noted, Report, Timestamp, Seconds
  <2>1. ~Holds(x, p) /\ ~(x = n /\ p = o)
    BY <1>h
  <2>2. Report(x, p, m_lastSendPos[p]) \notin accepted'
    BY <2>1, <1>a DEF ReachInv, Noted, Report
  <2>3. ASSUME NEW u \in m_idCache'[x], u.context = p
        PROVE  u.timestamp # Timestamp(m_lastSendPos[p])
    BY <2>1, <2>3, <1>i DEF ReachInv, Noted
  <2> QED BY <2>2, <2>3
<1>5. Recent'
  <2> SUFFICES ASSUME NEW x \in Nodes, NEW r \in m_positionTable'[x]
               PROVE  /\ r.timestamp = Timestamp(r.born)
                      /\ r.adress # Loopback =>
                           \/ r.born = m_lastSendPos[r.adress]
                           \/ m_lastSendPos[r.adress] <= Deadline(r.born)
    BY <1>s DEF Recent, Timestamp, Seconds, Deadline
  <2>1. CASE r \in m_positionTable[x]
    BY <2>1 DEF ReachInv, Recent
  <2>2. CASE r \notin m_positionTable[x]
    BY <2>2, <1>t, <1>c
  <2> QED BY <2>1, <2>2
<1> QED BY <1>1, <1>2, <1>3, <1>4, <1>5 DEF ReachInv

\* RecvMyprotocol of a duplicate: nobody waits for the copy that is dropped.
LEMMA DropReach ==
  ASSUME TypeOK, FloodInv, ReachInv, NEW c \in updates, RecvMyprotocol(c),
         IsDuplicate(m_idCache[c.to], c.origin, c.timestamp, now)
  PROVE  ReachInv'
<1> USE PositionUpdateAssumption
<1>s. /\ now' = now /\ m_checkChangeTimer' = m_checkChangeTimer
      /\ m_lastSendPos' = m_lastSendPos /\ m_lastSendTime' = m_lastSendTime
      /\ m_positionTable' = m_positionTable /\ updates' = updates \ {c}
      /\ accepted' \subseteq accepted
  BY DEF RecvMyprotocol, OnAir
<1>i. \A m \in Nodes : m_idCache'[m] \subseteq m_idCache[m]
  BY DEF RecvMyprotocol, Remember, PurgeIds, TypeOK, Copy
<1>h. \A p, x \in Nodes : (Holds(x, p)' <=> Holds(x, p)) /\ (Started(p)' <=> Started(p))
  BY <1>s DEF Holds, Started
<1>1. Prompt' /\ Spaced' /\ Recent'
  BY <1>s DEF ReachInv, Prompt, Spaced, Recent, Started, Timestamp, Seconds, Deadline
<1>2. Noted'
  <2> SUFFICES ASSUME NEW p \in Nodes, NEW x \in Nodes, Started(p), ~Holds(x, p)
               PROVE  /\ Report(x, p, m_lastSendPos[p]) \notin accepted'
                      /\ \A u \in m_idCache'[x] :
                           u.context = p => u.timestamp # Timestamp(m_lastSendPos[p])
    BY <1>s, <1>h DEF Noted, Report, Timestamp, Seconds
  <2> QED BY <1>s, <1>i DEF ReachInv, Noted
<1>3. Spreading'
  <2> SUFFICES ASSUME NEW p \in Nodes, NEW x \in Nodes, Started(p), Holds(x, p),
                      NEW m \in Link[x], m \in Nodes, ~Holds(m, p)
               PROVE  \E d \in updates' : d.origin = p /\ d.to = m
                                          /\ d.born = m_lastSendPos[p]
    BY <1>s, <1>h DEF Spreading
  <2>1. PICK d \in updates : d.origin = p /\ d.to = m /\ d.born = m_lastSendPos[p]
    BY DEF ReachInv, Spreading
  <2>2. d # c
    <3> SUFFICES ASSUME d = c PROVE FALSE
      OBVIOUS
    <3>1. PICK u \in m_idCache[m] : u.context = p /\ u.timestamp = c.timestamp
      BY <2>1 DEF IsDuplicate, PurgeIds
    <3>2. c.timestamp = Timestamp(m_lastSendPos[p])
      BY <2>1 DEF FloodInv, Flood
    <3> QED BY <3>1, <3>2 DEF ReachInv, Noted
  <2> QED BY <2>1, <2>2, <1>s
<1> QED BY <1>1, <1>2, <1>3 DEF ReachInv

LEMMA ReachInit == Init => ReachInv
<1> USE PositionUpdateAssumption
<1> SUFFICES ASSUME Init PROVE ReachInv
  OBVIOUS
<1>1. \A o \in Nodes : ~Started(o)
  BY DEF Init, Started
<1>2. Prompt /\ Spaced /\ Spreading /\ Noted
  BY <1>1 DEF Init, Prompt, Spaced, Spreading, Noted
<1>3. Timestamp(0) = 0
  BY DEF Timestamp, Seconds
<1>4. \A n \in Nodes : \A r \in m_positionTable[n] :
        r.timestamp = 0 /\ r.born = 0 /\ r.adress = Loopback
  BY DEF Init, AddRoute, HasRoute
<1>5. Recent
  BY <1>3, <1>4 DEF Recent
<1> QED BY <1>2, <1>5 DEF ReachInv

\* A check that sends nothing: the node has not been silent for too long.
LEMMA QuietCheck ==
  ASSUME TypeOK, FloodInv, Timely, Prompt, NEW n \in Nodes, Started(n), ~Overdue(n)
  PROVE  now + CheckInterval + CheckJitter <= Deadline(m_lastSendPos[n])
<1> USE PositionUpdateAssumption
<1> DEFINE l == m_lastSendPos[n]
           s == Seconds(l)
           e == s + MaxIntervalTime + 1
<1>1. l \in Nat /\ now \in Nat /\ l <= now /\ now <= Horizon
  BY DEF TypeOK, Ticks, FloodInv, Clock, Started
<1>2. m_lastSendTime[n] = s
  BY <1>1, SecondsStamp DEF Prompt, Timely
<1>3. s \in Nat /\ e \in Nat
  BY <1>1, DeadlineNat
<1>4. Seconds(now) \in Nat /\ Seconds(now) < e
  BY <1>1, <1>2, <1>3, DeadlineNat DEF Overdue
<1>5. now < Second * e
  <2> HIDE DEF e
  <2>1. now \div Second < e
    BY <1>4 DEF Seconds
  <2> QED BY <1>1, <1>3, <2>1
<1> DEFINE p == e * Second
<1>6. p \in Nat /\ now < p
  BY <1>3, <1>5
<1>7. Deadline(l) = p + CheckInterval + CheckJitter
  BY DEF Deadline
<1> HIDE DEF p
<1> QED BY <1>1, <1>6, <1>7

LEMMA ReachStep ==
  ASSUME TypeOK, FloodInv, Timely, Reliable, Remembered, ReachInv, [Next]_vars
  PROVE  ReachInv'
<1> USE PositionUpdateAssumption
<1>n. now \in Nat /\ Reporters \subseteq Nodes /\ Loopback \notin Nodes
  BY DEF TypeOK, Ticks
<1>1. ASSUME NEW n \in Reporters, Start(n) PROVE ReachInv'
  <2>1. ~Started(n) /\ now = 0
    BY <1>1 DEF Start, Started, ReachInv, Prompt
  <2>2. PICK d \in Second .. 2 * Second :
          m_checkChangeTimer' = [m_checkChangeTimer EXCEPT ![n] = now + d]
    BY <1>1 DEF Start
  <2>3. d \in Nat \ {0} /\ now + d = d
    BY <2>1
  <2>4. d <= Deadline(now)
    <3> DEFINE m == Seconds(now) + MaxIntervalTime + 1
               p == m * Second
    <3>1. Seconds(now) = 0
      BY <2>1 DEF Seconds
    <3>2. m \in Nat /\ 1 <= m
      BY <3>1
    <3>3. p \in Nat /\ Second <= p
      <4> HIDE DEF m
      <4>1. 1 * Second <= m * Second
        BY <3>2, TimesMono
      <4> QED BY <3>2, <4>1
    <3>4. Deadline(now) = p + CheckInterval + CheckJitter
      BY DEF Deadline
    <3> HIDE DEF p
    <3>5. Second <= CheckInterval
      BY DEF Timely
    <3> QED BY <3>3, <3>4, <3>5
  <2>5. SendUpdate(n) /\ now' = now
    BY <1>1 DEF Start
  <2> QED BY <2>1, <2>2, <2>3, <2>4, <2>5, SendReach
<1>2. ASSUME NEW n \in Reporters, CheckChange(n) PROVE ReachInv'
  <2>1. n \in Nodes /\ Started(n) /\ m_checkChangeTimer[n] = now /\ now' = now
    BY <1>2 DEF CheckChange, Started
  <2>2. PICK j \in 0 .. CheckJitter :
          m_checkChangeTimer' = [m_checkChangeTimer EXCEPT ![n] = now + CheckInterval + j]
    BY <1>2 DEF CheckChange
  <2> DEFINE t == now + CheckInterval + j
  <2>3. t \in Nat \ {0} /\ t <= now + CheckInterval + CheckJitter
    BY <1>n
  <2>4. m_checkChangeTimer' = [m_checkChangeTimer EXCEPT ![n] = t]
    BY <2>2
  <2> HIDE DEF t
  <2>5. CASE SendUpdate(n)
    <3>1. t <= Deadline(now)
      BY <1>n, <2>3, DeadlineNat
    <3>2. m_lastSendPos[n] + Second <= now /\ now <= m_checkChangeTimer[n]
      BY <2>1, <1>n DEF FloodInv, Clock, Started
    <3> QED BY <2>1, <2>3, <2>4, <2>5, <3>1, <3>2, SendReach
  <2>6. CASE ~Overdue(n) /\ UNCHANGED <<nodeVars, m_idCache, updates, accepted>>
    <3>1. t <= Deadline(m_lastSendPos[n])
      <4>1. now + CheckInterval + CheckJitter <= Deadline(m_lastSendPos[n])
        BY <2>1, <2>6, QuietCheck DEF ReachInv
      <4>2. m_lastSendPos[n] \in Nat
        BY <2>1 DEF TypeOK, Ticks
      <4>3. Deadline(m_lastSendPos[n]) \in Nat
        BY <4>2, DeadlineNat
      <4> QED BY <1>n, <2>3, <4>1, <4>3
    <3>2. \A o \in Nodes : m_checkChangeTimer'[o]
                             = IF o = n THEN t ELSE m_checkChangeTimer[o]
      BY <2>1, <2>4 DEF TypeOK
    <3>3. \A o \in Nodes : Started(o)' <=> Started(o)
      BY <2>1, <2>3, <3>2 DEF Started
    <3>4. Prompt'
      <4> SUFFICES ASSUME NEW o \in Nodes
                   PROVE  /\ o \in Reporters /\ ~Started(o) => now = 0
                          /\ Started(o) =>
                               /\ o \in Reporters
                               /\ m_lastSendTime[o] = Timestamp(m_lastSendPos[o])
                               /\ m_checkChangeTimer'[o] <= Deadline(m_lastSendPos[o])
        BY <2>1, <2>6, <3>3 DEF Prompt, Timestamp, Seconds, Deadline, nodeVars
      <4> QED BY <3>1, <3>2 DEF ReachInv, Prompt
    <3> QED BY <2>6, <3>3, <3>4, NothingSent DEF nodeVars
  <2> QED BY <1>2, <2>5, <2>6 DEF CheckChange
<1>3. ASSUME NEW n \in Nodes, RouteOutput(n) PROVE ReachInv'
  <2>1. /\ now' = now /\ m_lastSendPos' = m_lastSendPos /\ updates' = updates
        /\ accepted' = accepted /\ m_idCache' = m_idCache
        /\ m_checkChangeTimer' = m_checkChangeTimer /\ m_lastSendTime' = m_lastSendTime
    BY <1>3 DEF RouteOutput
  <2>2. Prompt' /\ \A o \in Nodes : Started(o)' => Started(o)
    BY <2>1 DEF ReachInv, Prompt, Started, Timestamp, Seconds, Deadline
  <2>3. \A m \in Nodes : m_positionTable'[m] \subseteq m_positionTable[m]
    BY <1>3 DEF RouteOutput, PurgeRoutes, TypeOK
  <2>4. \A m \in Nodes : \A r \in m_positionTable[m] :
          r.adress # Loopback => r \in m_positionTable'[m]
    BY <1>3, EntriesLive DEF RouteOutput, PurgeRoutes, TypeOK
  <2> QED BY <2>1, <2>2, <2>3, <2>4, NothingSent
<1>4. ASSUME NEW c \in updates, RecvMyprotocol(c) PROVE ReachInv'
  BY <1>4, RecvReach, DropReach
<1>5. ASSUME NEW c \in updates, Lose(c) PROVE ReachInv'
  BY <1>5 DEF Lose, Reliable
<1>6. CASE Tick
  <2>1. \A o \in Reporters : Started(o)
    BY <1>6, <1>n DEF Tick, Started, TypeOK, Ticks
  <2>2. Prompt' /\ \A o \in Nodes : Started(o)' => Started(o)
    BY <1>6, <2>1 DEF Tick, nodeVars, ReachInv, Prompt, Started, Timestamp, Seconds, Deadline
  <2> QED BY <1>6, <2>2, NothingSent DEF Tick, nodeVars
<1>7. CASE UNCHANGED vars
  <2>1. Prompt' /\ \A o \in Nodes : Started(o)' => Started(o)
    BY <1>7 DEF vars, ReachInv, Prompt, Started, Timestamp, Seconds, Deadline
  <2> QED BY <1>7, <2>1, NothingSent DEF vars
<1> QED BY <1>1, <1>2, <1>3, <1>4, <1>5, <1>6, <1>7 DEF Next

THEOREM ReachInvariant ==
  ASSUME Timely, Reliable, Remembered
  PROVE  Spec => [](TypeOK /\ FloodInv /\ ReachInv)
<1>1. Init => ReachInv
  BY ReachInit
<1>2. TypeOK /\ FloodInv /\ ReachInv /\ [Next]_vars => ReachInv'
  BY ReachStep
<1> QED BY <1>1, <1>2, FloodInvariant, PTL DEF Spec

------------------------------------------------------------------------------
(* What Purge removes, whatever is lost, as long as timestamps do not wrap. *)

LEMMA OnlyRouteOutputPurges ==
  ASSUME TypeOK, [Next]_vars, \A m \in Nodes : ~RouteOutput(m),
         NEW n \in Nodes, NEW a, HasRoute(m_positionTable[n], a)
  PROVE  HasRoute(m_positionTable'[n], a)
<1> USE PositionUpdateAssumption
<1>1. ASSUME NEW m \in Nodes, NEW rt,
             m_positionTable' = [m_positionTable EXCEPT ![m] = Update(@, rt)]
      PROVE  HasRoute(m_positionTable'[n], a)
  <2>1. CASE n = m
    BY <1>1, <2>1 DEF HasRoute, Update, TypeOK
  <2>2. CASE n # m
    BY <1>1, <2>2 DEF TypeOK
  <2> QED BY <2>1, <2>2
<1>2. ASSUME NEW m \in Reporters, SendUpdate(m) PROVE HasRoute(m_positionTable'[n], a)
  BY <1>1, <1>2 DEF SendUpdate
<1>3. CASE UNCHANGED m_positionTable
  BY <1>3
<1>4. ASSUME NEW c \in updates, RecvMyprotocol(c) PROVE HasRoute(m_positionTable'[n], a)
  BY <1>1, <1>3, <1>4 DEF RecvMyprotocol, TypeOK, Copy
<1> QED
  BY <1>2, <1>3, <1>4
  DEF Next, Start, CheckChange, Lose, Tick, nodeVars, vars

\* Headers and entries carry the seconds of their samples, which are past.
Stamped ==
  /\ now <= Horizon
  /\ \A c \in updates : c.timestamp = Timestamp(c.born) /\ c.born <= now
  /\ \A n \in Nodes : \A r \in m_positionTable[n] :
       r.timestamp = Timestamp(r.born) /\ r.born <= now

LEMMA StampedStep ==
  ASSUME TypeOK, Stamped, [Next]_vars PROVE Stamped'
<1> USE PositionUpdateAssumption DEF Stamped
<1>n. now \in Nat /\ \A b : Timestamp(b)' = Timestamp(b)
  BY DEF TypeOK, Ticks, Timestamp, Seconds
<1>1. ASSUME NEW n \in Reporters, SendUpdate(n), now' = now PROVE Stamped'
  <2>1. \A c \in updates' : c.timestamp = Timestamp(c.born) /\ c.born <= now
    BY <1>1, <1>n DEF SendUpdate, Copies
  <2>2. \A m \in Nodes : \A r \in m_positionTable'[m] :
          r.timestamp = Timestamp(r.born) /\ r.born <= now
    BY <1>1, <1>n DEF SendUpdate, Update, TypeOK
  <2> QED BY <1>1, <1>n, <2>1, <2>2
<1>2. ASSUME NEW c \in updates, RecvMyprotocol(c) PROVE Stamped'
  <2>1. \A d \in updates' : d.timestamp = Timestamp(d.born) /\ d.born <= now
    BY <1>2, <1>n DEF RecvMyprotocol, Copies
  <2>2. \A m \in Nodes : \A r \in m_positionTable'[m] :
          r.timestamp = Timestamp(r.born) /\ r.born <= now
    BY <1>2, <1>n DEF RecvMyprotocol, Update, TypeOK, Copy
  <2> QED BY <1>2, <1>n, <2>1, <2>2 DEF RecvMyprotocol
<1>3. ASSUME NEW n \in Nodes, RouteOutput(n) PROVE Stamped'
  BY <1>3, <1>n DEF RouteOutput, PurgeRoutes, TypeOK
<1>4. ASSUME now' = now, m_positionTable' = m_positionTable, updates' \subseteq updates
      PROVE  Stamped'
  BY <1>4, <1>n
<1>5. CASE Tick
  <2>1. now' = now + 1 /\ now' <= Horizon
    BY <1>5, <1>n DEF Tick
  <2>2. \A c \in updates : c.born <= now'
    BY <1>n, <2>1 DEF TypeOK, Copy, Ticks
  <2>3. \A n \in Nodes : \A r \in m_positionTable[n] : r.born <= now'
    BY <1>n, <2>1 DEF TypeOK, Entry, Ticks
  <2> QED BY <1>5, <1>n, <2>1, <2>2, <2>3 DEF Tick, nodeVars
<1> QED
  BY <1>1, <1>2, <1>3, <1>4, <1>5
  DEF Next, Start, CheckChange, Lose, nodeVars, vars

\* Before timestamps wrap, Purge removes an entry only when its lifetime is over,
\* and nothing else removes one: only the wrap makes entries expire too soon.
THEOREM NothingPurgedEarly ==
  ASSUME Horizon < TimestampMod * Second PROVE Spec => PurgeOnlyExpired
<1> USE PositionUpdateAssumption
<1> DEFINE A == \A n \in Nodes : \A r \in m_positionTable[n] :
                  HasRoute(m_positionTable'[n], r.adress)
                    \/ Seconds(now) - Seconds(r.born) >= EntryLifeTime
<1>1. Init => Stamped
  <2>1. Timestamp(0) = 0
    BY DEF Timestamp, Seconds
  <2> QED BY <2>1 DEF Init, Stamped, AddRoute, HasRoute
<1>2. TypeOK /\ Stamped /\ [Next]_vars => Stamped'
  BY StampedStep
<1>3. TypeOK /\ Stamped /\ [Next]_vars => [A]_vars
  <2> SUFFICES ASSUME TypeOK, Stamped, [Next]_vars,
                      NEW n \in Nodes, NEW r \in m_positionTable[n],
                      ~HasRoute(m_positionTable'[n], r.adress)
               PROVE  Seconds(now) - Seconds(r.born) >= EntryLifeTime
    OBVIOUS
  <2>1. PICK m \in Nodes : RouteOutput(m)
    BY OnlyRouteOutputPurges DEF HasRoute
  <2>2. r \notin m_positionTable'[n]
    BY DEF HasRoute
  <2>3. ~(EntryLifeTime + r.timestamp > Seconds(now))
    BY <2>1, <2>2 DEF RouteOutput, PurgeRoutes, TypeOK
  <2>4. now \in Nat /\ r.born \in Nat /\ r.born <= Horizon
    BY DEF TypeOK, Entry, Ticks, Stamped
  <2>5. r.timestamp = Seconds(r.born)
    BY <2>4, SecondsStamp DEF Stamped
  <2>6. Seconds(now) \in Nat /\ Seconds(r.born) \in Nat
    BY <2>4, DeadlineNat
  <2> QED BY <2>3, <2>5, <2>6
<1> QED BY <1>1, <1>2, <1>3, TypeCorrect, PTL DEF Spec, PurgeOnlyExpired

------------------------------------------------------------------------------
(* Every report reaches every node, in time, and stays. *)

\* When the copies of a sender's reports are off the air, every node holds the
\* latest: RecvMyprotocol broadcasts again whatever it has not seen.
THEOREM QuietMeansKnown ==
  ASSUME Timely, Reliable, Remembered PROVE Spec => []QuiescentMeansKnown
<1>1. TypeOK /\ FloodInv /\ ReachInv => QuiescentMeansKnown
  BY Quiescent DEF ReachInv
<1> QED BY <1>1, ReachInvariant, PTL

\* A node holds a report at the latest one hop delay per node after it was sampled.
THEOREM ReportsArrive ==
  ASSUME Timely, Reliable, Remembered PROVE Spec => []ReportsArriveInTime
<1>1. TypeOK /\ FloodInv /\ ReachInv => ReportsArriveInTime
  BY InTime DEF ReachInv
<1> QED BY <1>1, ReachInvariant, PTL

LEMMA NobodyForgotten ==
  ASSUME TypeOK, FloodInv, Timely, Reliable, Remembered, ReachInv, [Next]_vars,
         NEW n \in Nodes, NEW o \in Nodes, HasRoute(m_positionTable[n], o)
  PROVE  HasRoute(m_positionTable'[n], o)
<1> USE PositionUpdateAssumption
<1>1. CASE ~ \E m \in Nodes : RouteOutput(m)
  BY <1>1, OnlyRouteOutputPurges
<1>2. ASSUME NEW m \in Nodes, RouteOutput(m) PROVE HasRoute(m_positionTable'[n], o)
  <2>1. PICK r \in m_positionTable[n] : r.adress = o
    BY DEF HasRoute
  <2>2. EntryLifeTime + r.timestamp > Seconds(now)
    BY <2>1, EntriesLive
  <2> QED BY <1>2, <2>1, <2>2 DEF RouteOutput, PurgeRoutes, HasRoute, TypeOK
<1> QED BY <1>1, <1>2

\* No position a node has learned is ever purged: its sender sends again, and all
\* have its report, before the lifetime of the last is over (CheckChange against
\* Purge).
THEOREM NodesStayKnown ==
  ASSUME Timely, Reliable, Remembered PROVE Spec => KnownNodesStayKnown
<1> DEFINE A == \A n, o \in Nodes :
                  HasRoute(m_positionTable[n], o) => HasRoute(m_positionTable'[n], o)
<1>1. TypeOK /\ FloodInv /\ ReachInv /\ [Next]_vars => [A]_vars
  BY NobodyForgotten
<1> QED BY <1>1, ReachInvariant, PTL DEF Spec, KnownNodesStayKnown

\* Whoever has sent for a second time is known to all.
Informed ==
  \A o \in Nodes : Started(o) /\ m_lastSendPos[o] > 0 =>
    \A n \in Nodes \ {o} : HasRoute(m_positionTable[n], o)

LEMMA InformedStep ==
  ASSUME TypeOK, FloodInv, Timely, Reliable, Remembered, ReachInv, Informed, [Next]_vars
  PROVE  Informed'
<1> USE PositionUpdateAssumption
<1>1. \A n, o \in Nodes :
        HasRoute(m_positionTable[n], o) => HasRoute(m_positionTable'[n], o)
  BY NobodyForgotten
<1>2. ASSUME \A o \in Nodes : /\ m_lastSendPos'[o] = m_lastSendPos[o]
                              /\ Started(o)' => Started(o)
      PROVE  Informed'
  BY <1>1, <1>2 DEF Informed
<1>3. ASSUME NEW m \in Reporters, SendUpdate(m), NEW t,
             m_checkChangeTimer' = [m_checkChangeTimer EXCEPT ![m] = t],
             now = 0 \/ (Started(m) /\ m_lastSendPos[m] + Second <= now)
      PROVE  Informed'
  <2>1. /\ m \in Nodes /\ m_lastSendPos'[m] = now
        /\ \A o \in Nodes \ {m} : m_lastSendPos'[o] = m_lastSendPos[o]
        /\ \A o \in Nodes \ {m} : Started(o)' <=> Started(o)
    BY <1>3 DEF SendUpdate, Started, TypeOK
  <2>2. CASE now = 0
    BY <1>1, <2>1, <2>2 DEF Informed
  <2>3. CASE Started(m) /\ m_lastSendPos[m] + Second <= now
    <3>1. \A n \in Nodes \ {m} : HasRoute(m_positionTable[n], m)
      BY <2>1, <2>3, HeldEverywhere DEF ReachInv, Holds, HasRoute
    <3> QED BY <1>1, <2>1, <3>1 DEF Informed
  <2> QED BY <1>3, <2>2, <2>3
<1>4. ASSUME NEW m \in Reporters, Start(m) PROVE Informed'
  <2>1. now = 0
    BY <1>4 DEF Start, Started, ReachInv, Prompt
  <2> QED BY <1>3, <1>4, <2>1 DEF Start
<1>5. ASSUME NEW m \in Reporters, CheckChange(m) PROVE Informed'
  <2>1. Started(m) /\ m_lastSendPos[m] + Second <= now
    BY <1>5 DEF CheckChange, Started, FloodInv, Clock
  <2>2. CASE SendUpdate(m)
    BY <1>3, <1>5, <2>1, <2>2 DEF CheckChange
  <2>3. CASE UNCHANGED nodeVars
    <3>1. \A o \in Nodes \ {m} : Started(o)' <=> Started(o)
      BY <1>5 DEF CheckChange, Started, TypeOK
    <3> QED BY <1>2, <2>1, <2>3, <3>1 DEF nodeVars
  <2> QED BY <1>5, <2>2, <2>3 DEF CheckChange
<1>6. CASE UNCHANGED <<m_lastSendPos, m_checkChangeTimer>>
  BY <1>2, <1>6 DEF Started
<1> QED
  BY <1>4, <1>5, <1>6
  DEF Next, RouteOutput, RecvMyprotocol, Lose, Tick, nodeVars, vars

LEMMA InformedMeansKnown ==
  ASSUME TypeOK, FloodInv, Timely, Reliable, ReachInv, Informed PROVE AlwaysInformed
<1> USE PositionUpdateAssumption
<1> SUFFICES ASSUME now >= Second, NEW o \in Reporters, NEW n \in Nodes \ {o}
             PROVE  \E r \in m_positionTable[n] : r.adress = o /\ now <= r.born + MaxAge
  BY DEF AlwaysInformed
<1>1. o \in Nodes /\ n \in Nodes /\ now \in Nat /\ m_lastSendPos[o] \in Nat
  BY DEF TypeOK, Ticks
<1>2. Started(o)
  BY <1>1 DEF ReachInv, Prompt
<1>3. HasRoute(m_positionTable[n], o)
  <2>1. CASE m_lastSendPos[o] = 0
    <3>1. Holds(n, o)
      BY <1>1, <1>2, <2>1, HeldEverywhere DEF ReachInv
    <3> QED BY <3>1 DEF Holds, HasRoute
  <2>2. CASE m_lastSendPos[o] > 0
    BY <1>1, <1>2, <2>2 DEF Informed
  <2> QED BY <1>1, <2>1, <2>2
<1>4. PICK r \in m_positionTable[n] : r.adress = o
  BY <1>3 DEF HasRoute
<1> DEFINE z == (Cardinality(Nodes) - 1) * HopDelay
           g == (MaxIntervalTime + 1) * Second
           s == Seconds(r.born)
<1>5. now <= Deadline(r.born) + z /\ z \in Nat
  BY <1>1, <1>4, EntryAge, WithinSecond
<1>6. r.born \in Nat
  BY <1>1 DEF TypeOK, Entry, Ticks
<1>7. s \in Nat /\ s * Second <= r.born /\ g \in Nat
  BY <1>6 DEF Seconds
<1>8. Deadline(r.born) = s * Second + g + CheckInterval + CheckJitter
  <2>1. (s + MaxIntervalTime + 1) * Second = s * Second + (MaxIntervalTime + 1) * Second
    BY <1>7
  <2> QED BY <1>7, <2>1 DEF Deadline
<1>9. now <= r.born + (g + CheckInterval + CheckJitter + z)
  <2> DEFINE x == s * Second
  <2>1. x \in Nat /\ x <= r.born /\ now <= x + g + CheckInterval + CheckJitter + z
    BY <1>5, <1>7, <1>8
  <2> HIDE DEF x, g, z, s
  <2> QED BY <1>1, <1>5, <1>6, <1>7, <2>1
<1> QED BY <1>4, <1>9 DEF MaxAge

\* From the first second on, every node knows every sender, by a position that is no
\* older than the silence of CheckChange, its period and a flood together.
THEOREM EveryoneStaysInformed ==
  ASSUME Timely, Reliable, Remembered PROVE Spec => []AlwaysInformed
<1>1. Init => Informed
  BY DEF Init, Informed, Started
<1>2. TypeOK /\ FloodInv /\ ReachInv /\ Informed /\ [Next]_vars => Informed'
  BY InformedStep
<1>3. TypeOK /\ FloodInv /\ ReachInv /\ Informed => AlwaysInformed
  BY InformedMeansKnown
<1> QED BY <1>1, <1>2, <1>3, ReachInvariant, PTL DEF Spec
==============================================================================
