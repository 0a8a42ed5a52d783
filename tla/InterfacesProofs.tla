--------------------------- MODULE InterfacesProofs --------------------------
(***************************************************************************)
(* Theorems about Interfaces: type correctness; that through every order   *)
(* of commands each interface has a socket, and just one unless an         *)
(* interface that is up is set up again; and what that is worth to those   *)
(* that wait for the node's reports.                                       *)
(***************************************************************************)
EXTENDS Interfaces, SequenceTheorems, FiniteSetTheorems, TLAPS

\* Removing an element closes the gap it leaves.
LEMMA RemoveAtType ==
  ASSUME NEW S, NEW s \in Seq(S), NEW k \in DOMAIN s
  PROVE  /\ RemoveAt(s, k) \in Seq(S)
         /\ Len(RemoveAt(s, k)) = Len(s) - 1
         /\ \A j \in 1 .. Len(s) - 1 : RemoveAt(s, k)[j] = IF j < k THEN s[j] ELSE s[j + 1]
<1> DEFINE front == SubSeq(s, 1, k - 1)
           back == SubSeq(s, k + 1, Len(s))
<1>1. k \in 1 .. Len(s) /\ Len(s) \in Nat
  OBVIOUS
<1>2. /\ front \in Seq(S) /\ Len(front) = k - 1
      /\ \A i \in 1 .. k - 1 : front[i] = s[i]
  BY <1>1, SMTT(20)
<1>3. /\ back \in Seq(S) /\ Len(back) = Len(s) - k
      /\ \A i \in 1 .. Len(s) - k : back[i] = s[k + i]
  BY <1>1, SMTT(20)
<1> HIDE DEF front, back
<1>4. RemoveAt(s, k) = front \o back
  BY DEF RemoveAt, front, back
<1> QED
  BY <1>1, <1>2, <1>3, <1>4, SMTT(20)

------------------------------------------------------------------------------
\* A map with one socket more, s.
Added(old, new, s, socket) ==
  /\ s \notin DOMAIN old
  /\ DOMAIN new = DOMAIN old \cup {s}
  /\ new = [t \in DOMAIN new |-> new[t]]
  /\ new[s] = socket
  /\ \A t \in DOMAIN old : new[t] = old[t]

\* A finite map of sockets has a free place, and the new socket takes it.
LEMMA SocketIsNew ==
  ASSUME NEW sockets, IsFiniteSet(DOMAIN sockets), NEW iface, NEW device, NEW ttl
  PROVE  \E s : Added(sockets, WithSocket(sockets, iface, device, ttl), s,
                     [iface |-> iface, device |-> device, ttl |-> ttl])
<1> DEFINE D == DOMAIN sockets
           n == Cardinality(D)
           P(s) == s \notin D
           free == CHOOSE s \in 1 .. n + 1 : P(s)
<1>1. n \in Nat
  BY FS_CardinalityType
<1>2. \E s \in 1 .. n + 1 : P(s)
  <2> SUFFICES ASSUME 1 .. n + 1 \subseteq D PROVE FALSE
    OBVIOUS
  <2>1. Cardinality(1 .. n + 1) = n + 1
    BY <1>1, FS_Interval
  <2>2. Cardinality(1 .. n + 1) <= n
    BY FS_Subset
  <2> QED
    BY <1>1, <2>1, <2>2
<1>3. free \in 1 .. n + 1 /\ P(free)
  BY <1>2
<1>4. WithSocket(sockets, iface, device, ttl) =
        [t \in D \cup {free} |->
           IF t = free THEN [iface |-> iface, device |-> device, ttl |-> ttl] ELSE sockets[t]]
  BY DEF WithSocket
<1> HIDE DEF free
<1>5. Added(sockets, WithSocket(sockets, iface, device, ttl), free,
            [iface |-> iface, device |-> device, ttl |-> ttl])
  BY <1>3, <1>4 DEF Added
<1> QED
  BY <1>5

\* The map has just one socket for each address of a set, and no other.
Serves(sockets, addrs) ==
  /\ \A a \in addrs : \E s \in DOMAIN sockets :
       {t \in DOMAIN sockets : sockets[t].iface = a} = {s}
  /\ \A s \in DOMAIN sockets : sockets[s].iface \in addrs

\* A socket for an address that has none.
LEMMA WithSocketServes ==
  ASSUME NEW sockets, IsFiniteSet(DOMAIN sockets), NEW addrs, Serves(sockets, addrs),
         NEW a, a \notin addrs, NEW device, NEW ttl
  PROVE  Serves(WithSocket(sockets, a, device, ttl), addrs \cup {a})
<1> DEFINE new == WithSocket(sockets, a, device, ttl)
<1>0. PICK s : Added(sockets, new, s, [iface |-> a, device |-> device, ttl |-> ttl])
  BY SocketIsNew
<1>1. DOMAIN new = DOMAIN sockets \cup {s}
  BY <1>0 DEF Added
<1>2. new[s].iface = a
  BY <1>0 DEF Added
<1>3. \A t \in DOMAIN sockets : new[t] = sockets[t]
  BY <1>0 DEF Added
<1>4. \A t \in DOMAIN sockets : new[t].iface \in addrs
  BY <1>3 DEF Serves
<1>5. {t \in DOMAIN new : new[t].iface = a} = {s}
  BY <1>1, <1>2, <1>4
<1>6. ASSUME NEW b \in addrs
      PROVE  \E u \in DOMAIN new : {t \in DOMAIN new : new[t].iface = b} = {u}
  <2> PICK u \in DOMAIN sockets : {t \in DOMAIN sockets : sockets[t].iface = b} = {u}
    BY DEF Serves
  <2>1. {t \in DOMAIN new : new[t].iface = b} = {u}
    BY <1>1, <1>2, <1>3
  <2> QED
    BY <1>1, <2>1
<1>7. \A t \in DOMAIN new : new[t].iface \in addrs \cup {a}
  BY <1>1, <1>2, <1>4
<1> QED
  BY <1>1, <1>5, <1>6, <1>7 DEF Serves, new

\* The socket of an address erased.
LEMMA WithoutSocketServes ==
  ASSUME NEW sockets, NEW addrs, Serves(sockets, addrs),
         NEW s \in DOMAIN sockets
  PROVE  Serves(WithoutSockets(sockets, {s}), addrs \ {sockets[s].iface})
<1> DEFINE new == WithoutSockets(sockets, {s})
           a == sockets[s].iface
<1>1. DOMAIN new = DOMAIN sockets \ {s} /\ \A t \in DOMAIN new : new[t] = sockets[t]
  BY DEF WithoutSockets
<1> HIDE DEF new
<1>2. {t \in DOMAIN sockets : sockets[t].iface = a} = {s}
  BY DEF Serves
<1>3. \A t \in DOMAIN new : new[t].iface \in addrs \ {a}
  BY <1>1, <1>2 DEF Serves
<1>4. ASSUME NEW b \in addrs \ {a}
      PROVE  \E u \in DOMAIN new : {t \in DOMAIN new : new[t].iface = b} = {u}
  <2> PICK u \in DOMAIN sockets : {t \in DOMAIN sockets : sockets[t].iface = b} = {u}
    BY DEF Serves
  <2>1. u # s
    OBVIOUS
  <2>2. {t \in DOMAIN new : new[t].iface = b} = {u}
    BY <1>1, <2>1
  <2> QED
    BY <1>1, <2>1, <2>2
<1> QED
  BY <1>3, <1>4 DEF Serves, new

------------------------------------------------------------------------------

LEMMA SocketTypes ==
  ASSUME NEW sockets, IsFiniteSet(DOMAIN sockets), sockets \in [DOMAIN sockets -> Socket],
         NEW iface \in Addresses, NEW device \in Interfaces \cup {None},
         NEW ttl \in {1, DefaultTtl}
  PROVE  LET new == WithSocket(sockets, iface, device, ttl)
         IN  IsFiniteSet(DOMAIN new) /\ new \in [DOMAIN new -> Socket]
<1> DEFINE new == WithSocket(sockets, iface, device, ttl)
           socket == [iface |-> iface, device |-> device, ttl |-> ttl]
<1>1. PICK s : Added(sockets, new, s, socket)
  BY SocketIsNew
<1>2. socket \in Socket
  BY DEF Socket
<1> HIDE DEF new, socket
<1>3. IsFiniteSet(DOMAIN new)
  BY <1>1, FS_AddElement DEF Added
<1>4. new = [t \in DOMAIN new |-> new[t]] /\ \A t \in DOMAIN new : new[t] \in Socket
  BY <1>1, <1>2 DEF Added
<1>5. new \in [DOMAIN new -> Socket]
  BY <1>4
<1> QED
  BY <1>3, <1>5 DEF new

LEMMA ErasedTypes ==
  ASSUME NEW sockets, IsFiniteSet(DOMAIN sockets), sockets \in [DOMAIN sockets -> Socket],
         NEW s
  PROVE  LET new == WithoutSockets(sockets, {s})
         IN  IsFiniteSet(DOMAIN new) /\ new \in [DOMAIN new -> Socket]
<1>1. IsFiniteSet(DOMAIN sockets \ {s})
  BY FS_Subset
<1> QED
  BY <1>1 DEF WithoutSockets

\* What the operators of RoutingTable keep of the type of a table.
LEMMA TableTypes ==
  ASSUME NEW S, NEW table \in SUBSET S, NEW rt \in S
  PROVE  AddRoute(table, rt) \in SUBSET S /\ Update(table, rt) \in SUBSET S
BY DEF AddRoute, Update

LEMMA Ranges ==
  /\ \A a \in Addresses : BroadcastOf[a] \in Range(BroadcastOf)
  /\ \A i \in Interfaces : AddressesFor[i] \subseteq Addresses
BY InterfacesAssumption DEF Range

OwnEntries == [adress : Range(BroadcastOf) \cup {Loopback}, timestamp : Nat]

LEMMA OwnEntryType ==
  ASSUME NEW t \in Nat
  PROVE  /\ \A a \in Addresses : OwnEntry(BroadcastOf[a], 0) \in OwnEntries
         /\ OwnEntry(Loopback, t) \in OwnEntries
BY Ranges DEF OwnEntry, OwnEntries

LEMMA TypeInit == Init => TypeOK
<1> SUFFICES ASSUME Init PROVE TypeOK
  OBVIOUS
<1>1. addresses \in [Interfaces -> Seq(Addresses)]
  BY DEF Init
<1>2. IsFiniteSet(DOMAIN m_socketAddresses)
  BY FS_EmptySet DEF Init
<1>3. m_socketAddresses \in [DOMAIN m_socketAddresses -> Socket]
  BY DEF Init
<1>4. m_positionTable \subseteq OwnEntries
  BY OwnEntryType DEF Init
<1> QED
  BY <1>1, <1>2, <1>3, <1>4 DEF Init, TypeOK, OwnEntries

LEMMA FirstType ==
  ASSUME TypeOK, NEW i \in Interfaces, HasAddress(i)
  PROVE  First(i) \in Addresses
<1>1. addresses[i] \in Seq(Addresses) /\ addresses[i] # <<>>
  BY DEF TypeOK, HasAddress
<1> QED
  BY <1>1 DEF First

LEMMA SendUpdateType ==
  ASSUME TypeOK, SendUpdate
  PROVE  /\ m_lastSendTime' = now /\ reported' \in 0 .. now
         /\ m_positionTable' \subseteq OwnEntries
<1>1. OwnEntry(Loopback, now) \in OwnEntries
  BY OwnEntryType DEF TypeOK
<1>2. m_positionTable' \subseteq OwnEntries
  <2> DEFINE table == Update(m_positionTable, OwnEntry(Loopback, now))
  <2>0. m_positionTable \in SUBSET OwnEntries
    BY DEF TypeOK, OwnEntries
  <2>1. table \in SUBSET OwnEntries
    BY <1>1, <2>0, TableTypes
  <2> HIDE DEF table
  <2>2. PurgeRoutes(table, now) \subseteq table
    BY DEF PurgeRoutes
  <2> QED
    BY <2>1, <2>2 DEF SendUpdate, table
<1> QED
  BY <1>2 DEF SendUpdate, TypeOK

\* The part of the type that the commands may disturb.
SocketsOK ==
  /\ up \subseteq Interfaces
  /\ addresses \in [Interfaces -> Seq(Addresses)]
  /\ IsFiniteSet(DOMAIN m_socketAddresses)
  /\ m_socketAddresses \in [DOMAIN m_socketAddresses -> Socket]
  /\ m_mainAddress \in Addresses \cup {None}
  /\ m_positionTable \subseteq OwnEntries

LEMMA SetUpType ==
  ASSUME TypeOK, NEW i \in Interfaces, SetUp(i)
  PROVE  SocketsOK'
<1>1. First(i) \in Addresses
  BY FirstType DEF SetUp
<1>2. IsFiniteSet(DOMAIN m_socketAddresses)' /\ (m_socketAddresses \in [DOMAIN m_socketAddresses -> Socket])'
  BY <1>1, SocketTypes DEF SetUp, NotifyInterfaceUp, TypeOK
<1>3. OwnEntry(BroadcastOf[First(i)], 0) \in OwnEntries
  BY <1>1, OwnEntryType
<1>4. (m_positionTable \subseteq OwnEntries)'
  BY <1>3, TableTypes DEF SetUp, NotifyInterfaceUp, TypeOK, OwnEntries
<1> QED
  BY <1>1, <1>2, <1>4 DEF SetUp, NotifyInterfaceUp, TypeOK, SocketsOK

LEMMA SetDownType ==
  ASSUME TypeOK, NEW i \in Interfaces, SetDown(i)
  PROVE  SocketsOK'
<1>1. IsFiniteSet(DOMAIN m_socketAddresses)' /\ (m_socketAddresses \in [DOMAIN m_socketAddresses -> Socket])'
  <2>1. PICK s \in SocketsFor(First(i)) :
          m_socketAddresses' = WithoutSockets(m_socketAddresses, {s})
    BY DEF SetDown, NotifyInterfaceDown
  <2> QED
    BY <2>1, ErasedTypes DEF TypeOK
<1>2. (m_positionTable \subseteq OwnEntries)'
  BY DEF SetDown, NotifyInterfaceDown, TypeOK, OwnEntries
<1> QED
  BY <1>1, <1>2 DEF SetDown, NotifyInterfaceDown, TypeOK, SocketsOK

LEMMA AddAddressType ==
  ASSUME TypeOK, NEW i \in Interfaces, NEW addr \in AddressesFor[i], AddAddress(i, addr)
  PROVE  SocketsOK'
<1> DEFINE first == addresses'[i][1]
<1>0. addr \in Addresses
  BY Ranges
<1>1. (addresses \in [Interfaces -> Seq(Addresses)])' /\ first \in Addresses
  <2>1. addresses'[i] = Append(addresses[i], addr) /\ addresses[i] \in Seq(Addresses)
    BY DEF AddAddress, TypeOK
  <2>2. addresses'[i] \in Seq(Addresses) /\ Len(addresses'[i]) >= 1
    BY <1>0, <2>1
  <2>3. first \in Addresses
    BY <2>2
  <2> QED
    BY <2>2, <2>3, <2>1 DEF AddAddress, TypeOK
<1>2. OwnEntry(BroadcastOf[first], 0) \in OwnEntries
  BY <1>1, OwnEntryType
<1>3. AddRoute(m_positionTable, OwnEntry(BroadcastOf[first], 0)) \subseteq OwnEntries
  <2>1. m_positionTable \in SUBSET OwnEntries
    BY DEF TypeOK, OwnEntries
  <2> HIDE DEF first
  <2> QED
    BY <1>2, <2>1, TableTypes
<1>4. LET new == WithSocket(m_socketAddresses, first, i, DefaultTtl)
      IN  IsFiniteSet(DOMAIN new) /\ new \in [DOMAIN new -> Socket]
  BY <1>1, SocketTypes DEF TypeOK
<1> HIDE DEF first
<1> QED
  BY <1>1, <1>3, <1>4 DEF AddAddress, NotifyAddAddress, TypeOK, SocketsOK, OwnEntries, first

LEMMA RemoveAddressType ==
  ASSUME TypeOK, NEW i \in Interfaces, NEW k \in DOMAIN addresses[i], RemoveAddress(i, k)
  PROVE  SocketsOK'
<1> DEFINE first == addresses'[i][1]
           addr == addresses[i][k]
<1>0. addresses'[i] = RemoveAt(addresses[i], k) /\ addresses[i] \in Seq(Addresses)
  BY DEF RemoveAddress, TypeOK
<1>1. addresses'[i] \in Seq(Addresses)
  BY <1>0, RemoveAtType
<1>2. addresses'[i] # <<>> => first \in Addresses
  BY <1>1
<1>3. (addresses \in [Interfaces -> Seq(Addresses)])'
  BY <1>1, <1>0 DEF RemoveAddress, TypeOK
<1>4. IsFiniteSet(DOMAIN m_socketAddresses)' /\ (m_socketAddresses \in [DOMAIN m_socketAddresses -> Socket])'
  <2>1. CASE UNCHANGED m_socketAddresses
    BY <2>1 DEF TypeOK
  <2>2. ASSUME NEW s \in SocketsFor(addr),
               m_socketAddresses' =
                 IF addresses'[i] = <<>> THEN WithoutSockets(m_socketAddresses, {s})
                 ELSE WithSocket(WithoutSockets(m_socketAddresses, {s}), first, None, DefaultTtl)
        PROVE  /\ IsFiniteSet(DOMAIN m_socketAddresses)'
               /\ (m_socketAddresses \in [DOMAIN m_socketAddresses -> Socket])'
    <3> DEFINE others == WithoutSockets(m_socketAddresses, {s})
    <3>1. IsFiniteSet(DOMAIN others) /\ others \in [DOMAIN others -> Socket]
      BY ErasedTypes DEF TypeOK
    <3> HIDE DEF others
    <3>2. CASE addresses'[i] = <<>>
      BY <2>2, <3>1, <3>2 DEF others
    <3>3. CASE addresses'[i] # <<>>
      <4>1. m_socketAddresses' = WithSocket(others, first, None, DefaultTtl)
        BY <2>2, <3>3 DEF others
      <4> HIDE DEF first
      <4> QED
        BY <1>2, <3>1, <3>3, <4>1, SocketTypes
    <3> QED
      BY <3>2, <3>3
  <2> QED
    BY <2>1, <2>2 DEF RemoveAddress, NotifyRemoveAddress
<1> QED
  BY <1>3, <1>4 DEF RemoveAddress, NotifyRemoveAddress, TypeOK, SocketsOK, OwnEntries

LEMMA TypeStep == TypeOK /\ [Next]_vars => TypeOK'
<1> SUFFICES ASSUME TypeOK, [Next]_vars PROVE TypeOK'
  OBVIOUS
<1> USE DEF OwnEntries
<1>1. CASE Start
  BY <1>1, SendUpdateType DEF Start, TypeOK, ipv4
<1>2. CASE CheckChange
  BY <1>2, SendUpdateType DEF CheckChange, TypeOK, ipv4
<1>3. CASE Tick
  BY <1>3 DEF Tick, TypeOK, ipv4
<1>4. ASSUME SocketsOK', UNCHANGED timing, Observed
      PROVE  TypeOK'
  BY <1>4 DEF SocketsOK, Observed, TypeOK, timing
<1>5. ASSUME NEW i \in Interfaces, SetUp(i) PROVE TypeOK'
  BY <1>4, <1>5, SetUpType DEF SetUp
<1>6. ASSUME NEW i \in Interfaces, SetDown(i) PROVE TypeOK'
  BY <1>4, <1>6, SetDownType DEF SetDown
<1>7. ASSUME NEW i \in Interfaces, NEW addr \in AddressesFor[i], AddAddress(i, addr)
      PROVE  TypeOK'
  BY <1>4, <1>7, AddAddressType DEF AddAddress
<1>8. ASSUME NEW i \in Interfaces, NEW k \in DOMAIN addresses[i], RemoveAddress(i, k)
      PROVE  TypeOK'
  BY <1>4, <1>8, RemoveAddressType DEF RemoveAddress
<1>9. CASE UNCHANGED vars
  BY <1>9 DEF TypeOK, vars
<1> QED
  BY <1>1, <1>2, <1>3, <1>5, <1>6, <1>7, <1>8, <1>9 DEF Next

\* Every variable has its type, in every state.
THEOREM InterfaceTypes == Spec => []TypeOK
BY TypeInit, TypeStep, PTL DEF Spec

------------------------------------------------------------------------------
\* No address is in two places.
Distinct ==
  \A i, j \in Interfaces : \A k \in DOMAIN addresses[i], l \in DOMAIN addresses[j] :
    addresses[i][k] = addresses[j][l] => i = j /\ k = l

LEMMA FirstIsFirst ==
  ASSUME TypeOK, NEW i \in Interfaces, HasAddress(i)
  PROVE  1 \in DOMAIN addresses[i]
BY DEF TypeOK, HasAddress

\* What AddAddress makes of the addresses of its interface.
LEMMA Appended ==
  ASSUME TypeOK, NEW i \in Interfaces, NEW addr \in AddressesFor[i], AddAddress(i, addr)
  PROVE  LET old == addresses[i]
             new == addresses'[i]
         IN  /\ old \in Seq(Addresses) /\ new = Append(old, addr) /\ addr \in Addresses
             /\ \A j \in Interfaces \ {i} : addresses'[j] = addresses[j]
             /\ \A j \in Interfaces : \A l \in DOMAIN addresses[j] : addresses[j][l] # addr
             /\ DOMAIN new = 1 .. Len(old) + 1 /\ DOMAIN old = 1 .. Len(old) /\ Len(old) \in Nat
             /\ \A l \in DOMAIN old : new[l] = old[l]
             /\ new[Len(old) + 1] = addr /\ new # <<>>
<1> DEFINE old == addresses[i]
           new == addresses'[i]
<1>1. /\ old \in Seq(Addresses) /\ new = Append(old, addr) /\ addr \in Addresses
      /\ \A j \in Interfaces \ {i} : addresses'[j] = addresses[j]
      /\ \A j \in Interfaces : \A l \in DOMAIN addresses[j] : addresses[j][l] # addr
  BY Ranges DEF AddAddress, TypeOK, Range
<1>2. /\ DOMAIN new = 1 .. Len(old) + 1 /\ DOMAIN old = 1 .. Len(old) /\ Len(old) \in Nat
      /\ \A l \in DOMAIN old : new[l] = old[l]
      /\ new[Len(old) + 1] = addr /\ new # <<>>
  BY <1>1
<1> QED
  BY <1>1, <1>2

\* What RemoveAddress makes of the addresses of its interface.
LEMMA Removed ==
  ASSUME TypeOK, NEW i \in Interfaces, NEW k \in DOMAIN addresses[i], RemoveAddress(i, k)
  PROVE  LET old == addresses[i]
             new == addresses'[i]
         IN  /\ old \in Seq(Addresses)
             /\ \A j \in Interfaces \ {i} : addresses'[j] = addresses[j]
             /\ DOMAIN old = 1 .. Len(old) /\ DOMAIN new = 1 .. Len(old) - 1
             /\ Len(old) \in Nat /\ k \in 1 .. Len(old)
             /\ \A j \in 1 .. Len(old) - 1 : new[j] = IF j < k THEN old[j] ELSE old[j + 1]
             /\ (new = <<>>) <=> (Len(old) = 1)
<1> DEFINE old == addresses[i]
           new == addresses'[i]
<1>1. /\ old \in Seq(Addresses) /\ new = RemoveAt(old, k)
      /\ \A j \in Interfaces \ {i} : addresses'[j] = addresses[j]
  BY DEF RemoveAddress, TypeOK
<1>2. DOMAIN old = 1 .. Len(old) /\ Len(old) \in Nat /\ k \in 1 .. Len(old)
  BY <1>1
<1>3. /\ new \in Seq(Addresses) /\ Len(new) = Len(old) - 1
      /\ \A j \in 1 .. Len(old) - 1 : new[j] = IF j < k THEN old[j] ELSE old[j + 1]
  BY <1>1, RemoveAtType
<1> HIDE DEF new, old
<1>4. DOMAIN new = 1 .. Len(old) - 1
  BY <1>2, <1>3
<1>5. (new = <<>>) <=> (Len(new) = 0)
  BY <1>3, EmptySeq
<1> QED
  BY <1>1, <1>2, <1>3, <1>4, <1>5 DEF old, new

LEMMA DistinctStep == TypeOK /\ Distinct /\ [Next]_vars => Distinct'
<1> SUFFICES ASSUME TypeOK, Distinct, [Next]_vars PROVE Distinct'
  OBVIOUS
<1>1. ASSUME UNCHANGED addresses PROVE Distinct'
  BY <1>1 DEF Distinct
<1>2. ASSUME NEW i \in Interfaces, NEW addr \in AddressesFor[i], AddAddress(i, addr)
      PROVE  Distinct'
  <2> DEFINE old == addresses[i]
  <2> SUFFICES ASSUME NEW j \in Interfaces, NEW m \in Interfaces,
                      NEW k \in DOMAIN addresses'[j], NEW l \in DOMAIN addresses'[m],
                      addresses'[j][k] = addresses'[m][l]
               PROVE  j = m /\ k = l
    BY DEF Distinct
  <2>1. \/ k \in DOMAIN addresses[j] /\ addresses'[j][k] = addresses[j][k]
        \/ j = i /\ k = Len(old) + 1 /\ addresses'[j][k] = addr
    BY <1>2, Appended
  <2>2. \/ l \in DOMAIN addresses[m] /\ addresses'[m][l] = addresses[m][l]
        \/ m = i /\ l = Len(old) + 1 /\ addresses'[m][l] = addr
    BY <1>2, Appended
  <2>3. \A n \in Interfaces : \A x \in DOMAIN addresses[n] : addresses[n][x] # addr
    BY <1>2, Appended
  <2> QED
    BY <2>1, <2>2, <2>3 DEF Distinct
<1>3. ASSUME NEW i \in Interfaces, NEW k \in DOMAIN addresses[i], RemoveAddress(i, k)
      PROVE  Distinct'
  <2> DEFINE old == addresses[i]
             new == addresses'[i]
  <2> SUFFICES ASSUME NEW j \in Interfaces, NEW m \in Interfaces,
                      NEW q \in DOMAIN addresses'[j], NEW l \in DOMAIN addresses'[m],
                      addresses'[j][q] = addresses'[m][l]
               PROVE  j = m /\ q = l
    BY DEF Distinct
  <2>1. \A n \in Interfaces \ {i} : \A x \in DOMAIN addresses'[n] :
           x \in DOMAIN addresses[n] /\ addresses'[n][x] = addresses[n][x]
    BY <1>3, Removed
  <2>0. DOMAIN new = 1 .. Len(old) - 1 /\ Len(old) \in Nat /\ k \in 1 .. Len(old)
    BY <1>3, Removed
  <2>7. /\ DOMAIN old = 1 .. Len(old)
        /\ \A x \in 1 .. Len(old) - 1 : new[x] = IF x < k THEN old[x] ELSE old[x + 1]
    BY <1>3, Removed
  <2> HIDE DEF old, new
  <2>2. \A x \in DOMAIN new :
           LET y == IF x < k THEN x ELSE x + 1
           IN  y \in DOMAIN old /\ new[x] = old[y]
    BY <2>0, <2>7
  <2> USE DEF old, new
  <2>3. CASE j # i /\ m # i
    BY <2>1, <2>3 DEF Distinct
  <2>4. CASE j = i /\ m # i
    BY <2>1, <2>2, <2>4 DEF Distinct
  <2>5. CASE j # i /\ m = i
    BY <2>1, <2>2, <2>5 DEF Distinct
  <2>6. CASE j = i /\ m = i
    <3>1. (IF q < k THEN q ELSE q + 1) = (IF l < k THEN l ELSE l + 1)
      BY <2>2, <2>6 DEF Distinct
    <3> QED
      BY <2>0, <2>6, <3>1
  <2> QED
    BY <2>3, <2>4, <2>5, <2>6
<1> QED
  BY <1>1, <1>2, <1>3 DEF Next, Start, CheckChange, Tick, SetUp, SetDown, ipv4, vars

------------------------------------------------------------------------------
\* A map holds a socket for an address.
Serving(sockets, a) == \E s \in DOMAIN sockets : sockets[s].iface = a

LEMMA ServedMeans ==
  EveryInterfaceServed <=> \A i \in up : HasAddress(i) => Serving(m_socketAddresses, First(i))
BY DEF EveryInterfaceServed, Serving, SocketsFor

LEMMA WithSocketServing ==
  ASSUME NEW sockets, IsFiniteSet(DOMAIN sockets), NEW iface, NEW device, NEW ttl
  PROVE  LET new == WithSocket(sockets, iface, device, ttl)
         IN  Serving(new, iface) /\ \A a : Serving(sockets, a) => Serving(new, a)
<1> DEFINE new == WithSocket(sockets, iface, device, ttl)
<1>1. PICK s : Added(sockets, new, s, [iface |-> iface, device |-> device, ttl |-> ttl])
  BY SocketIsNew
<1> HIDE DEF new
<1> QED
  BY <1>1 DEF Added, Serving, new

LEMMA WithoutSocketServing ==
  ASSUME NEW sockets, NEW s \in DOMAIN sockets, NEW a, a # sockets[s].iface,
         Serving(sockets, a)
  PROVE  Serving(WithoutSockets(sockets, {s}), a)
BY DEF Serving, WithoutSockets

LEMMA ServedSetUp ==
  ASSUME TypeOK, EveryInterfaceServed, NEW i \in Interfaces, SetUp(i)
  PROVE  EveryInterfaceServed'
<1>1. /\ Serving(m_socketAddresses', First(i))
      /\ \A a : Serving(m_socketAddresses, a) => Serving(m_socketAddresses', a)
  BY WithSocketServing DEF SetUp, NotifyInterfaceUp, TypeOK
<1>2. \A j \in up' : HasAddress(j)' => Serving(m_socketAddresses', First(j)')
  BY <1>1, ServedMeans DEF SetUp, HasAddress, First
<1> QED
  BY <1>2 DEF EveryInterfaceServed, Serving, SocketsFor

LEMMA ServedSetDown ==
  ASSUME TypeOK, Distinct, EveryInterfaceServed, NEW i \in Interfaces, SetDown(i)
  PROVE  EveryInterfaceServed'
<1>1. PICK s \in SocketsFor(First(i)) :
        m_socketAddresses' = WithoutSockets(m_socketAddresses, {s})
  BY DEF SetDown, NotifyInterfaceDown
<1>2. s \in DOMAIN m_socketAddresses /\ m_socketAddresses[s].iface = First(i)
  BY DEF SocketsFor
<1>3. \A j \in up \ {i} : HasAddress(j) => First(j) # First(i)
  BY FirstIsFirst DEF SetDown, Distinct, First, TypeOK
<1>4. \A j \in up \ {i} : HasAddress(j) => Serving(m_socketAddresses', First(j))
  BY <1>1, <1>2, <1>3, WithoutSocketServing, ServedMeans
<1> QED
  BY <1>4 DEF SetDown, EveryInterfaceServed, Serving, SocketsFor, HasAddress, First

LEMMA ServedAddAddress ==
  ASSUME TypeOK, EveryInterfaceServed, NEW i \in Interfaces,
         NEW addr \in AddressesFor[i], AddAddress(i, addr)
  PROVE  EveryInterfaceServed'
<1> DEFINE first == addresses'[i][1]
           new == WithSocket(m_socketAddresses, first, i, DefaultTtl)
<1>1. Serving(new, first) /\ \A a : Serving(m_socketAddresses, a) => Serving(new, a)
  BY WithSocketServing DEF TypeOK
<1>2. \A a : Serving(m_socketAddresses, a) => Serving(m_socketAddresses', a)
  BY <1>1 DEF AddAddress, NotifyAddAddress
<1>3. i \in up => Serving(m_socketAddresses', first)
  <2> SUFFICES ASSUME i \in up PROVE Serving(m_socketAddresses', first)
    OBVIOUS
  <2>1. CASE SocketsFor(first) = {}
    BY <1>1, <2>1 DEF AddAddress, NotifyAddAddress
  <2>2. CASE SocketsFor(first) # {}
    <3>1. Serving(m_socketAddresses, first)
      BY <2>2 DEF SocketsFor, Serving
    <3> QED
      BY <1>2, <3>1
  <2> QED
    BY <2>1, <2>2
<1> HIDE DEF first, new
<1>4. ASSUME NEW j \in up, j # i, HasAddress(j)'
      PROVE  Serving(m_socketAddresses', First(j)')
  <2>1. addresses'[j] = addresses[j]
    BY <1>4, Appended DEF TypeOK
  <2>2. HasAddress(j) /\ First(j)' = First(j)
    BY <1>4, <2>1 DEF HasAddress, First
  <2> QED
    BY <1>2, <2>2, ServedMeans
<1>5. \A j \in up' : HasAddress(j)' => Serving(m_socketAddresses', First(j)')
  BY <1>3, <1>4 DEF AddAddress, First, first
<1> QED
  BY <1>5 DEF EveryInterfaceServed, Serving, SocketsFor

LEMMA ServedRemoveAddress ==
  ASSUME TypeOK, Distinct, EveryInterfaceServed, NEW i \in Interfaces,
         NEW k \in DOMAIN addresses[i], RemoveAddress(i, k)
  PROVE  EveryInterfaceServed'
<1> DEFINE new == addresses'[i]
           addr == addresses[i][k]
<1>1. \A j \in Interfaces \ {i} : addresses'[j] = addresses[j]
  BY Removed
<1>2. new # <<>> => new[1] = IF 1 < k THEN addresses[i][1] ELSE addresses[i][2]
  BY Removed
<1>3. ASSUME NEW a, a # addr, Serving(m_socketAddresses, a)
      PROVE  Serving(m_socketAddresses', a)
  <2>1. CASE UNCHANGED m_socketAddresses
    BY <1>3, <2>1
  <2>2. ASSUME NEW s \in SocketsFor(addr),
               m_socketAddresses' =
                 IF new = <<>> THEN WithoutSockets(m_socketAddresses, {s})
                 ELSE WithSocket(WithoutSockets(m_socketAddresses, {s}), new[1], None, DefaultTtl)
        PROVE  Serving(m_socketAddresses', a)
    <3> DEFINE others == WithoutSockets(m_socketAddresses, {s})
    <3>1. s \in DOMAIN m_socketAddresses /\ m_socketAddresses[s].iface = addr
      BY DEF SocketsFor
    <3>2. Serving(others, a)
      BY <1>3, <3>1, WithoutSocketServing
    <3>3. IsFiniteSet(DOMAIN others)
      BY ErasedTypes DEF TypeOK
    <3> HIDE DEF others
    <3>4. Serving(WithSocket(others, new[1], None, DefaultTtl), a)
      BY <3>2, <3>3, WithSocketServing
    <3> QED
      BY <2>2, <3>2, <3>4 DEF others
  <2> QED
    BY <2>1, <2>2 DEF RemoveAddress, NotifyRemoveAddress
<1>4. ASSUME NEW j \in up, j # i, HasAddress(j)'
      PROVE  Serving(m_socketAddresses', First(j)')
  <2>1. j \in Interfaces /\ addresses'[j] = addresses[j]
    BY <1>1, <1>4 DEF TypeOK
  <2>2. HasAddress(j) /\ First(j)' = First(j)
    BY <1>4, <2>1 DEF HasAddress, First
  <2>3. First(j) # addr
    BY <1>4, <2>1, <2>2, FirstIsFirst DEF Distinct, First
  <2> QED
    BY <1>3, <2>2, <2>3, ServedMeans
<1>5. ASSUME i \in up, new # <<>> PROVE Serving(m_socketAddresses', new[1])
  <2>0. HasAddress(i) /\ 1 \in DOMAIN addresses[i]
    BY Removed DEF HasAddress
  <2>1. Serving(m_socketAddresses, First(i))
    BY <1>5, <2>0, ServedMeans
  <2>2. CASE k = 1
    <3>1. SocketsFor(addr) # {}
      BY <2>1, <2>2 DEF Serving, SocketsFor, First
    <3>2. PICK s \in SocketsFor(addr) :
            m_socketAddresses' =
              WithSocket(WithoutSockets(m_socketAddresses, {s}), new[1], None, DefaultTtl)
      BY <1>5, <3>1 DEF RemoveAddress, NotifyRemoveAddress
    <3>3. IsFiniteSet(DOMAIN WithoutSockets(m_socketAddresses, {s}))
      BY ErasedTypes DEF TypeOK
    <3> QED
      BY <3>2, <3>3, WithSocketServing
  <2>3. CASE k # 1
    <3>1. new[1] = First(i) /\ First(i) # addr
      BY <1>2, <1>5, <2>0, <2>3, Removed DEF First, Distinct
    <3> QED
      BY <1>3, <2>1, <3>1
  <2> QED
    BY <2>2, <2>3
<1> HIDE DEF new, addr
<1>6. \A j \in up' : HasAddress(j)' => Serving(m_socketAddresses', First(j)')
  BY <1>4, <1>5 DEF RemoveAddress, First, HasAddress, new
<1> QED
  BY <1>6 DEF EveryInterfaceServed, Serving, SocketsFor

ServedInv == Distinct /\ EveryInterfaceServed

LEMMA ServedStep == TypeOK /\ ServedInv /\ [Next]_vars => ServedInv'
<1> SUFFICES ASSUME TypeOK, ServedInv, [Next]_vars PROVE EveryInterfaceServed'
  BY DistinctStep DEF ServedInv
<1> USE DEF ServedInv
<1>1. ASSUME UNCHANGED <<up, addresses, m_socketAddresses>> PROVE EveryInterfaceServed'
  BY <1>1 DEF EveryInterfaceServed, First, HasAddress, SocketsFor
<1>2. CASE Start
  BY <1>1, <1>2 DEF Start, ipv4
<1>3. CASE CheckChange
  BY <1>1, <1>3 DEF CheckChange, ipv4
<1>4. CASE Tick
  BY <1>1, <1>4 DEF Tick, ipv4
<1>5. CASE UNCHANGED vars
  BY <1>1, <1>5 DEF vars
<1> QED
  BY <1>2, <1>3, <1>4, <1>5, ServedSetUp, ServedSetDown, ServedAddAddress,
     ServedRemoveAddress DEF Next

LEMMA ServedInit == Init => ServedInv
BY DEF Init, ServedInv, Distinct, EveryInterfaceServed

\* Through every order of commands, repeated ones too, an interface that is up and has
\* an address has a socket: the four handlers never lose the last one.
THEOREM InterfacesAreServed == Spec => []EveryInterfaceServed
<1>1. Spec => []ServedInv
  BY ServedInit, ServedStep, InterfaceTypes, PTL DEF Spec
<1>2. ServedInv => EveryInterfaceServed
  BY DEF ServedInv
<1> QED
  BY <1>1, <1>2, PTL

------------------------------------------------------------------------------
\* The invariant while nothing is set up twice: the sockets serve just the first
\* addresses of the interfaces that are up.
Served == {First(i) : i \in {j \in up : HasAddress(j)}}

SocketInv == Distinct /\ Serves(m_socketAddresses, Served)

LEMMA ServesMeansOne == Serves(m_socketAddresses, Served) => SocketPerInterface
BY DEF Serves, Served, SocketPerInterface, SocketsFor

\* An address is served only as the first of its interface.
LEMMA ServedIsFirst ==
  ASSUME TypeOK, Distinct, NEW i \in Interfaces, NEW k \in DOMAIN addresses[i],
         addresses[i][k] \in Served
  PROVE  i \in up /\ k = 1
<1>1. PICK j \in up : HasAddress(j) /\ addresses[i][k] = First(j)
  BY DEF Served
<1>2. j \in Interfaces /\ 1 \in DOMAIN addresses[j]
  BY <1>1, FirstIsFirst DEF TypeOK
<1>3. i = j /\ k = 1
  BY <1>1, <1>2 DEF Distinct, First
<1> QED
  BY <1>3

LEMMA SetUpServes ==
  ASSUME TypeOK, SocketInv, ~SetUpAgain, NEW i \in Interfaces, SetUp(i)
  PROVE  SocketInv'
<1>1. Distinct'
  BY DEF SetUp, Distinct, SocketInv
<1>2. First(i) \notin Served
  BY FirstIsFirst, ServedIsFirst DEF SetUp, SocketInv, First
<1>3. Served' = Served \cup {First(i)}
  BY DEF SetUp, Served, First, HasAddress
<1>4. Serves(m_socketAddresses', Served \cup {First(i)})
  BY <1>2, WithSocketServes DEF SetUp, NotifyInterfaceUp, SocketInv, TypeOK
<1>5. Serves(m_socketAddresses, Served)'
  BY <1>3, <1>4 DEF Serves
<1> QED
  BY <1>1, <1>5 DEF SocketInv

LEMMA SetDownServes ==
  ASSUME TypeOK, SocketInv, NEW i \in Interfaces, SetDown(i)
  PROVE  SocketInv'
<1>1. Distinct'
  BY DEF SetDown, Distinct, SocketInv
<1>2. PICK s \in SocketsFor(First(i)) :
        m_socketAddresses' = WithoutSockets(m_socketAddresses, {s})
  BY DEF SetDown, NotifyInterfaceDown
<1>3. s \in DOMAIN m_socketAddresses /\ m_socketAddresses[s].iface = First(i)
  BY DEF SocketsFor
<1>0. First(i) \in Served
  BY <1>3 DEF SocketInv, Serves
<1>7. i \in up
  BY <1>0, FirstIsFirst, ServedIsFirst DEF SetDown, SocketInv, First
<1>4. Serves(m_socketAddresses', Served \ {First(i)})
  BY <1>2, <1>3, WithoutSocketServes DEF SocketInv
<1>5. \A j \in up : HasAddress(j) /\ First(j) = First(i) => j = i
  BY FirstIsFirst DEF SetDown, SocketInv, Distinct, First, TypeOK
<1>6. Served' = Served \ {First(i)}
  BY <1>5, <1>7 DEF SetDown, Served, First, HasAddress
<1>8. Serves(m_socketAddresses, Served)'
  BY <1>4, <1>6 DEF Serves
<1> QED
  BY <1>1, <1>8 DEF SocketInv

LEMMA AddAddressServes ==
  ASSUME TypeOK, SocketInv, NEW i \in Interfaces, NEW addr \in AddressesFor[i],
         AddAddress(i, addr)
  PROVE  SocketInv'
<1> DEFINE old == addresses[i]
           new == addresses'[i]
<1>1. /\ old \in Seq(Addresses) /\ new = Append(old, addr) /\ addr \in Addresses
      /\ \A j \in Interfaces \ {i} : addresses'[j] = addresses[j]
      /\ \A j \in Interfaces : \A l \in DOMAIN addresses[j] : addresses[j][l] # addr
  BY Appended
<1>2. /\ DOMAIN new = 1 .. Len(old) + 1 /\ DOMAIN old = 1 .. Len(old) /\ Len(old) \in Nat
      /\ \A l \in DOMAIN old : new[l] = old[l]
      /\ new[Len(old) + 1] = addr /\ new # <<>>
  BY Appended
<1>3. Distinct'
  BY DistinctStep DEF SocketInv, Next
<1> HIDE DEF old, new
<1>4. CASE i \notin up
  <2>1. Served' = Served
    BY <1>1, <1>4 DEF AddAddress, Served, First, HasAddress, TypeOK
  <2>2. UNCHANGED m_socketAddresses
    BY <1>4 DEF AddAddress, NotifyAddAddress
  <2> QED
    BY <1>3, <2>1, <2>2 DEF SocketInv
<1>5. CASE i \in up /\ HasAddress(i)
  <2>1. new[1] = First(i)
    BY <1>2, <1>5, FirstIsFirst DEF First, old
  <2>2. Served' = Served
    BY <1>1, <1>2, <1>5, <2>1 DEF AddAddress, Served, First, HasAddress, TypeOK, new
  <2>3. SocketsFor(First(i)) # {}
    BY <1>5 DEF SocketInv, Serves, Served, SocketsFor
  <2>4. UNCHANGED m_socketAddresses
    BY <2>1, <2>3 DEF AddAddress, NotifyAddAddress, new
  <2> QED
    BY <1>3, <2>2, <2>4 DEF SocketInv
<1>6. CASE i \in up /\ ~HasAddress(i)
  <2>1. new[1] = addr
    BY <1>2, <1>6 DEF HasAddress, old
  <2>2. addr \notin Served
    BY <1>1, FirstIsFirst DEF Served, First, TypeOK
  <2>3. SocketsFor(addr) = {}
    BY <2>2 DEF SocketInv, Serves, SocketsFor
  <2>4. m_socketAddresses' = WithSocket(m_socketAddresses, addr, i, DefaultTtl)
    BY <1>6, <2>1, <2>3 DEF AddAddress, NotifyAddAddress, new
  <2>5. Serves(m_socketAddresses', Served \cup {addr})
    BY <2>2, <2>4, WithSocketServes DEF SocketInv, TypeOK
  <2>6. Served' = Served \cup {addr}
    BY <1>1, <1>2, <1>6, <2>1 DEF AddAddress, Served, First, HasAddress, TypeOK, new
  <2>7. Serves(m_socketAddresses, Served)'
    BY <2>5, <2>6 DEF Serves
  <2> QED
    BY <1>3, <2>7 DEF SocketInv
<1> QED
  BY <1>4, <1>5, <1>6

LEMMA RemoveAddressServes ==
  ASSUME TypeOK, SocketInv, NEW i \in Interfaces, NEW k \in DOMAIN addresses[i],
         RemoveAddress(i, k)
  PROVE  SocketInv'
<1> DEFINE old == addresses[i]
           new == addresses'[i]
           addr == addresses[i][k]
<1>1. /\ old \in Seq(Addresses)
      /\ \A j \in Interfaces \ {i} : addresses'[j] = addresses[j]
  BY Removed
<1>2. /\ DOMAIN old = 1 .. Len(old) /\ DOMAIN new = 1 .. Len(old) - 1
      /\ Len(old) \in Nat /\ k \in 1 .. Len(old)
      /\ \A j \in 1 .. Len(old) - 1 : new[j] = IF j < k THEN old[j] ELSE old[j + 1]
      /\ (new = <<>>) <=> (Len(old) = 1)
  BY Removed
<1>3. Distinct'
  BY DistinctStep DEF SocketInv, Next
<1>4. CASE i \in up /\ k = 1
  <2>1. HasAddress(i) /\ First(i) = addr /\ addr \in Served
    BY <1>2, <1>4 DEF HasAddress, First, Served
  <2>2. SocketsFor(addr) # {}
    BY <2>1 DEF SocketInv, Serves, SocketsFor
  <2>3. PICK s \in SocketsFor(addr) :
          m_socketAddresses' =
            IF new = <<>> THEN WithoutSockets(m_socketAddresses, {s})
            ELSE WithSocket(WithoutSockets(m_socketAddresses, {s}), new[1], None, DefaultTtl)
    BY <2>2 DEF RemoveAddress, NotifyRemoveAddress
  <2> DEFINE others == WithoutSockets(m_socketAddresses, {s})
  <2>4. s \in DOMAIN m_socketAddresses /\ m_socketAddresses[s].iface = addr
    BY DEF SocketsFor
  <2>5. Serves(others, Served \ {addr})
    BY <2>4, WithoutSocketServes DEF SocketInv
  <2>6. \A j \in up \ {i} : HasAddress(j) => First(j) # addr
    BY FirstIsFirst DEF SocketInv, Distinct, First, TypeOK
  <2>7. CASE new = <<>>
    <3>1. Served' = Served \ {addr}
      BY <1>1, <2>1, <2>6, <2>7 DEF RemoveAddress, Served, First, HasAddress, TypeOK
    <3> QED
      BY <1>3, <2>3, <2>5, <2>7, <3>1 DEF SocketInv, Serves
  <2>8. CASE new # <<>>
    <3>1. 2 \in DOMAIN old /\ new[1] = old[2]
      BY <1>2, <1>4, <2>8
    <3>2. new[1] \notin Served
      BY <3>1, ServedIsFirst DEF SocketInv
    <3>3. Served' = (Served \ {addr}) \cup {new[1]}
      BY <1>1, <1>4, <2>1, <2>6, <2>8 DEF RemoveAddress, Served, First, HasAddress, TypeOK
    <3>4. IsFiniteSet(DOMAIN others)
      BY ErasedTypes DEF TypeOK
    <3> HIDE DEF others, new
    <3>5. Serves(WithSocket(others, new[1], None, DefaultTtl), (Served \ {addr}) \cup {new[1]})
      BY <2>5, <3>2, <3>4, WithSocketServes
    <3>6. m_socketAddresses' = WithSocket(others, new[1], None, DefaultTtl)
      BY <2>3, <2>8 DEF others
    <3>7. Serves(m_socketAddresses', Served')
      BY <3>3, <3>5, <3>6
    <3> QED
      BY <1>3, <3>7 DEF SocketInv, Serves
  <2> QED
    BY <2>7, <2>8
<1>5. CASE ~(i \in up /\ k = 1)
  <2>1. addr \notin Served
    BY <1>5, ServedIsFirst DEF SocketInv
  <2>2. SocketsFor(addr) = {}
    BY <2>1 DEF SocketInv, Serves, SocketsFor
  <2>3. UNCHANGED m_socketAddresses
    BY <2>2 DEF RemoveAddress, NotifyRemoveAddress
  <2>4. i \in up => HasAddress(i) /\ new # <<>> /\ new[1] = First(i)
    BY <1>2, <1>5 DEF HasAddress, First
  <2>5. Served' = Served
    <3>1. up' = up
      BY DEF RemoveAddress
    <3>2. \A j \in up : HasAddress(j)' <=> HasAddress(j)
      BY <1>1, <2>4 DEF HasAddress, TypeOK
    <3>3. \A j \in up : HasAddress(j) => First(j)' = First(j)
      BY <1>1, <2>4 DEF First, TypeOK
    <3> QED
      BY <3>1, <3>2, <3>3 DEF Served
  <2> QED
    BY <1>3, <2>3, <2>5 DEF SocketInv, Serves
<1> QED
  BY <1>4, <1>5

LEMMA SocketStep == ~SetUpAgain /\ TypeOK /\ SocketInv /\ [Next]_vars => SocketInv'
<1> SUFFICES ASSUME ~SetUpAgain, TypeOK, SocketInv, [Next]_vars PROVE SocketInv'
  OBVIOUS
<1>1. ASSUME UNCHANGED <<up, addresses, m_socketAddresses>> PROVE SocketInv'
  <2>1. Served' = Served
    BY <1>1 DEF Served, First, HasAddress
  <2> QED
    BY <1>1, <2>1 DEF SocketInv, Distinct, Serves
<1>2. CASE Start
  BY <1>1, <1>2 DEF Start, ipv4
<1>3. CASE CheckChange
  BY <1>1, <1>3 DEF CheckChange, ipv4
<1>4. CASE Tick
  BY <1>1, <1>4 DEF Tick, ipv4
<1>5. CASE UNCHANGED vars
  BY <1>1, <1>5 DEF vars
<1> QED
  BY <1>2, <1>3, <1>4, <1>5, SetUpServes, SetDownServes, AddAddressServes,
     RemoveAddressServes DEF Next

\* As long as no interface that is up is set up again, each interface that is up and
\* has an address has just one socket through every other order of commands, a
\* repeated SetDown included, and there is no other socket.
THEOREM OneSocketEach == ~SetUpAgain => (Spec => []SocketPerInterface)
<1> SUFFICES ASSUME ~SetUpAgain PROVE Spec => []SocketPerInterface
  OBVIOUS
<1>1. Init => SocketInv
  BY DEF Init, SocketInv, Distinct, Serves, Served
<1>2. TypeOK /\ SocketInv /\ [Next]_vars => SocketInv'
  BY SocketStep
<1>3. Spec => []SocketInv
  BY <1>1, <1>2, InterfaceTypes, PTL DEF Spec
<1>4. SocketInv => SocketPerInterface
  BY ServesMeansOne DEF SocketInv
<1> QED
  BY <1>3, <1>4, PTL

------------------------------------------------------------------------------
\* The invariant behind RejoinsInTime: a check comes at most two seconds after the
\* last send is overdue, and while the node is connected nothing is counted as sent
\* that has not left.
TimerInv ==
  /\ now <= checkTimer
  /\ checkTimer <= m_lastSendTime + MaxIntervalTime + 2
  /\ Connected => m_lastSendTime <= reported \/ m_lastSendTime <= since

\* Every interface is in one and the same subnet, as the code takes for granted.
OneSubnet == \A a, b \in Addresses : BroadcastOf[a] = BroadcastOf[b]

LEMMA InOneSubnet ==
  ASSUME OneSubnet, TypeOK, HasAddress(1) PROVE AllBroadcast
<1> SUFFICES ASSUME NEW dst \in ReportsTo PROVE RouteOutput(dst) = "broadcast"
  BY DEF AllBroadcast
<1>1. PICK s \in DOMAIN m_socketAddresses : dst = BroadcastOf[m_socketAddresses[s].iface]
  BY DEF ReportsTo
<1>2. m_socketAddresses[s].iface \in Addresses
  BY DEF TypeOK, Socket
<1>3. First(1) \in Addresses
  BY FirstType, InterfacesAssumption
<1> QED
  BY <1>1, <1>2, <1>3 DEF OneSubnet, RouteOutput

\* While the node is connected, what SendUpdate counts as sent is sent.
LEMMA ConnectedSends ==
  ASSUME OneSubnet, TypeOK, ServedInv, SendUpdate, Connected
  PROVE  reported' = now
<1>1. 1 \in up /\ Serving(m_socketAddresses, First(1))
  BY ServedMeans DEF Connected, ServedInv
<1>2. PICK s \in DOMAIN m_socketAddresses : m_socketAddresses[s].iface = First(1)
  BY <1>1 DEF Serving
<1>3. ReportsTo # {}
  BY <1>2 DEF ReportsTo
<1> QED
  BY <1>1, <1>3, InOneSubnet DEF SendUpdate, Connected

LEMMA TimerStep ==
  OneSubnet /\ TypeOK /\ ServedInv /\ TimerInv /\ [Next]_vars => TimerInv'
<1> SUFFICES ASSUME OneSubnet, TypeOK, ServedInv, TimerInv, [Next]_vars PROVE TimerInv'
  OBVIOUS
<1> USE InterfacesAssumption DEF TypeOK, TimerInv
<1>1. ASSUME SendUpdate, UNCHANGED <<now, up, addresses, since>>,
             checkTimer' \in {now + 1, now + 2}
      PROVE  TimerInv'
  <2>1. Connected' <=> Connected
    BY <1>1 DEF Connected, HasAddress
  <2>2. m_lastSendTime' = now
    BY <1>1 DEF SendUpdate
  <2> QED
    BY <1>1, <2>1, <2>2, ConnectedSends
<1>2. CASE Start
  BY <1>1, <1>2 DEF Start, ipv4
<1>3. CASE CheckChange
  <2>1. CASE SendUpdate
    BY <1>1, <1>3, <2>1 DEF CheckChange, ipv4
  <2>2. CASE ~Overdue /\ UNCHANGED <<m_lastSendTime, m_positionTable, reported>>
    <3>1. Connected' <=> Connected
      BY <1>3 DEF CheckChange, ipv4, Connected, HasAddress
    <3> QED
      BY <1>3, <2>2, <3>1 DEF CheckChange, Overdue
  <2> QED
    BY <1>3, <2>1, <2>2 DEF CheckChange
<1>4. CASE Tick
  <2>1. Connected' <=> Connected
    BY <1>4 DEF Tick, ipv4, Connected, HasAddress
  <2> QED
    BY <1>4, <2>1 DEF Tick
<1>5. ASSUME UNCHANGED timing, Observed PROVE TimerInv'
  BY <1>5 DEF timing, Observed
<1>6. CASE UNCHANGED vars
  <2>1. Connected' <=> Connected
    BY <1>6 DEF vars, Connected, HasAddress
  <2> QED
    BY <1>6, <2>1 DEF vars
<1> QED
  BY <1>2, <1>3, <1>4, <1>5, <1>6 DEF Next, SetUp, SetDown, AddAddress, RemoveAddress

LEMMA TimerMeans == TypeOK /\ TimerInv => RejoinsInTime
<1> SUFFICES ASSUME TypeOK, TimerInv, Connected
             PROVE  now <= (IF reported > since THEN reported ELSE since) + MaxIntervalTime + 2
  BY DEF RejoinsInTime
<1>1. MaxIntervalTime \in Nat /\ now \in Nat /\ reported \in Nat /\ since \in Nat
      /\ m_lastSendTime \in Nat /\ checkTimer \in Nat
  BY InterfacesAssumption DEF TypeOK
<1>2. /\ now <= checkTimer /\ checkTimer <= m_lastSendTime + MaxIntervalTime + 2
      /\ m_lastSendTime <= reported \/ m_lastSendTime <= since
  BY DEF TimerInv
<1> QED
  BY <1>1, <1>2

\* In one subnet a connected node is silent no longer than a period and the gap between
\* two checks, whatever SendUpdate counted as sent while it was not connected, and
\* however often its interfaces were set up.
THEOREM ConnectedIsHeard == OneSubnet => (Spec => []RejoinsInTime)
<1> SUFFICES ASSUME OneSubnet PROVE Spec => []RejoinsInTime
  OBVIOUS
<1>1. Init => TimerInv
  BY InterfacesAssumption DEF Init, TimerInv, Connected
<1>2. TypeOK /\ ServedInv /\ TimerInv /\ [Next]_vars => TimerInv'
  BY TimerStep
<1>3. Spec => [](TypeOK /\ ServedInv /\ TimerInv)
  BY <1>1, <1>2, ServedInit, ServedStep, InterfaceTypes, PTL DEF Spec
<1> QED
  BY <1>3, TimerMeans, PTL

\* In one subnet all reports are broadcast, out of whichever socket.
THEOREM OneSubnetBroadcasts == OneSubnet => (Spec => BroadcastsAreBroadcast)
<1> SUFFICES ASSUME OneSubnet PROVE Spec => BroadcastsAreBroadcast
  OBVIOUS
<1>1. TypeOK /\ [Next]_vars
        => [(Start \/ CheckChange) /\ SendUpdate => AllBroadcast]_vars
  BY InOneSubnet DEF SendUpdate
<1> QED
  BY <1>1, InterfaceTypes, PTL DEF Spec, BroadcastsAreBroadcast
==============================================================================
