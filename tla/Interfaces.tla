----------------------------- MODULE Interfaces ------------------------------
(***************************************************************************)
(* The sockets of one node of model/myprotocol4-routing-protocol.cc: how   *)
(* they follow its interfaces as these are set up and down, and gain and   *)
(* lose addresses, in any order and as often as anyone asks, and which of  *)
(* its reports leave by them.                                              *)
(*                                                                         *)
(* The interfaces are ns-3's; SetUp and its like are commands of whoever   *)
(* runs the simulation, and notify the protocol.  Of the position table    *)
(* only the entries for the node itself are here.  Time is in whole        *)
(* seconds; a check that is due every 1 to 1.025 s comes 1 or 2 whole      *)
(* seconds after the last.                                                 *)
(***************************************************************************)
EXTENDS RoutingTable, SequencesExt

CONSTANTS
  Interfaces,          \* their numbers; 1 is the first after the loopback's
  Addresses,           \* Ipv4InterfaceAddress
  AddressesFor,        \* AddressesFor[i]: those that interface i may be given
  BroadcastOf,         \* BroadcastOf[a]: the broadcast address of a's subnet
  Loopback,            \* 127.0.0.1
  None,                \* no address, no device
  MaxIntervalTime,     \* m_maxIntervalTime, in seconds (20)
  SetUpAgain,          \* whether an interface that is up is ever set up once more
  MaxSockets,          \* bound on the sockets that setting up again may add
  Horizon              \* bound on the seconds modelled

ASSUME InterfacesAssumption ==
  /\ IsFiniteSet(Interfaces) /\ Interfaces \subseteq Nat \ {0} /\ 1 \in Interfaces
  /\ AddressesFor \in [Interfaces -> SUBSET Addresses]
  /\ IsFiniteSet(Addresses) /\ BroadcastOf \in [Addresses -> Range(BroadcastOf)]
  /\ None \notin Addresses /\ None \notin Interfaces
  /\ Loopback \notin Addresses \cup Range(BroadcastOf)
  /\ SetUpAgain \in BOOLEAN /\ MaxSockets \in Nat
  /\ MaxIntervalTime \in Nat /\ EntryLifeTime \in Nat /\ Horizon \in Nat

VARIABLES
  now,                 \* Simulator::Now
  up, addresses,       \* ns-3: the interfaces that are up, and the addresses of each
  m_socketAddresses,   \* the map of sockets to interface addresses
  m_mainAddress,
  m_positionTable,     \* its loopback and broadcast entries
  m_lastSendTime,
  checkTimer,          \* when m_checkChangeTimer expires; 0 before Start
  reported,            \* history: when a report last left the node
  since                \* history: when the node was last connected

ipv4 == <<up, addresses>>
timing == <<now, checkTimer, m_lastSendTime, reported>>
vars == <<now, up, addresses, m_socketAddresses, m_mainAddress, m_positionTable,
          m_lastSendTime, checkTimer, reported, since>>

------------------------------------------------------------------------------
\* GetAddress (i, 0).
First(i) == addresses[i][1]
HasAddress(i) == addresses[i] # <<>>

\* FindSocketWithInterfaceAddress.
SocketsFor(addr) == {s \in DOMAIN m_socketAddresses : m_socketAddresses[s].iface = addr}

\* CreateSocket, and m_socketAddresses.insert.
WithSocket(sockets, iface, device, ttl) ==
  LET s == CHOOSE s \in 1 .. Cardinality(DOMAIN sockets) + 1 : s \notin DOMAIN sockets
  IN  [t \in DOMAIN sockets \cup {s} |->
         IF t = s THEN [iface |-> iface, device |-> device, ttl |-> ttl] ELSE sockets[t]]

WithoutSockets(sockets, ss) == [t \in DOMAIN sockets \ ss |-> sockets[t]]

\* The entry for a broadcast address, or the loopback's: at (0,0,0), at time 0.
OwnEntry(addr, t) == [adress |-> addr, timestamp |-> t]

DefaultTtl == 64

------------------------------------------------------------------------------
\* Mutant, used by no specification: GetLocal for GetBroadcast in the entry.
NotifyInterfaceUpLocal(i) ==
  /\ m_socketAddresses' = WithSocket(m_socketAddresses, First(i), i, 1)
  /\ m_positionTable' = AddRoute(m_positionTable, OwnEntry(First(i), 0))
  /\ m_mainAddress' = IF m_mainAddress = None THEN First(i) ELSE m_mainAddress

\* The socket is inserted without a look whether the address has one.
NotifyInterfaceUp(i) ==
  /\ m_socketAddresses' = WithSocket(m_socketAddresses, First(i), i, 1)
  /\ m_positionTable' = AddRoute(m_positionTable, OwnEntry(BroadcastOf[First(i)], 0))
  /\ m_mainAddress' = IF m_mainAddress = None THEN First(i) ELSE m_mainAddress

\* The first socket found is closed and erased; the last takes the table with it.
\* Where none is found the assertion of line 1074 fails and the program ends.
NotifyInterfaceDown(i) ==
  /\ \E s \in SocketsFor(First(i)) :
       m_socketAddresses' = WithoutSockets(m_socketAddresses, {s})
  /\ m_positionTable' = IF DOMAIN m_socketAddresses' = {} THEN {} ELSE m_positionTable
  /\ UNCHANGED m_mainAddress

\* With the address already added.
NotifyAddAddress(i) ==
  LET first == addresses'[i][1] IN
  /\ IF i \in up /\ SocketsFor(first) = {}
       THEN /\ m_socketAddresses' = WithSocket(m_socketAddresses, first, i, DefaultTtl)
            /\ m_positionTable' = AddRoute(m_positionTable, OwnEntry(BroadcastOf[first], 0))
       ELSE UNCHANGED <<m_socketAddresses, m_positionTable>>
  /\ UNCHANGED m_mainAddress

\* Mutants, used by no specification: the new socket is for the address that was the
\* first; there is no new socket.
NotifyRemoveAddressStale(i, addr) ==
  /\ \/ /\ SocketsFor(addr) = {}
        /\ UNCHANGED m_socketAddresses
     \/ \E s \in SocketsFor(addr) :
          LET others == WithoutSockets(m_socketAddresses, {s}) IN
          m_socketAddresses' =
            IF addresses'[i] = <<>> THEN others
            ELSE WithSocket(others, First(i), None, DefaultTtl)
  /\ UNCHANGED <<m_positionTable, m_mainAddress>>
NotifyRemoveAddressErases(i, addr) ==
  /\ \/ SocketsFor(addr) = {} /\ UNCHANGED m_socketAddresses
     \/ \E s \in SocketsFor(addr) :
          m_socketAddresses' = WithoutSockets(m_socketAddresses, {s})
  /\ UNCHANGED <<m_positionTable, m_mainAddress>>

\* With the address already removed: its socket is replaced by one that is bound to
\* no device, for the address that is now the first.
NotifyRemoveAddress(i, addr) ==
  /\ \/ /\ SocketsFor(addr) = {}
        /\ UNCHANGED m_socketAddresses
     \/ \E s \in SocketsFor(addr) :
          LET others == WithoutSockets(m_socketAddresses, {s}) IN
          m_socketAddresses' =
            IF addresses'[i] = <<>> THEN others
            ELSE WithSocket(others, addresses'[i][1], None, DefaultTtl)
  /\ UNCHANGED <<m_positionTable, m_mainAddress>>

------------------------------------------------------------------------------
\* A packet for the broadcast address of some subnet, out of a socket: RouteOutput
\* broadcasts it by device 1 if it is interface 1's, and takes it for data if not.
RouteOutput(dst) == IF dst = BroadcastOf[First(1)] THEN "broadcast" ELSE "data"

\* Where SendUpdate sends: once out of each socket.
ReportsTo == {BroadcastOf[m_socketAddresses[s].iface] : s \in DOMAIN m_socketAddresses}

AllBroadcast == \A dst \in ReportsTo : RouteOutput(dst) = "broadcast"

\* SendUpdate: m_lastSendTime and the loopback entry are set whether or not there is
\* a socket to send from; interface 1 transmits nothing while it is down.  What
\* RouteOutput takes for data purges the table and puts a data header before the one
\* packet that all sockets send, so what leaves after it is no report; the map is
\* ordered by pointers, so in no known order.
SendUpdate ==
  /\ HasAddress(1)
  /\ m_lastSendTime' = now
  /\ LET table == Update(m_positionTable, OwnEntry(Loopback, now))
     IN  m_positionTable' = IF AllBroadcast THEN table ELSE PurgeRoutes(table, now)
  /\ \/ /\ 1 \in up /\ \E dst \in ReportsTo : RouteOutput(dst) = "broadcast"
        /\ reported' = now
     \/ /\ 1 \notin up \/ ReportsTo = {} \/ ~AllBroadcast
        /\ UNCHANGED reported

Overdue == now - m_lastSendTime > MaxIntervalTime

Start ==
  /\ now = 0 /\ checkTimer = 0
  /\ SendUpdate
  /\ checkTimer' \in {1, 2}
  /\ UNCHANGED <<now, ipv4, m_socketAddresses, m_mainAddress, since>>

\* CheckChange: whether the node's motion asks for a report is DeadReckoning's.
CheckChange ==
  /\ now = checkTimer /\ checkTimer # 0
  /\ \/ SendUpdate
     \/ /\ ~Overdue
        /\ UNCHANGED <<m_lastSendTime, m_positionTable, reported>>
  /\ checkTimer' \in {now + 1, now + 2}
  /\ UNCHANGED <<now, ipv4, m_socketAddresses, m_mainAddress, since>>

------------------------------------------------------------------------------
\* The commands (external).  Interface 1 is connected while it is up and has an
\* address.
Connected == 1 \in up /\ HasAddress(1)
Observed == since' = IF Connected' /\ ~Connected THEN now ELSE since

\* ns-3 notifies the protocol of every command, also of one that changes nothing:
\* Ipv4AddressHelper sets the interface up again for each address it assigns.
SetUp(i) ==
  /\ HasAddress(i)
  /\ i \in up => SetUpAgain /\ Cardinality(DOMAIN m_socketAddresses) < MaxSockets
  /\ up' = up \cup {i}
  /\ NotifyInterfaceUp(i)
  /\ UNCHANGED <<timing, addresses>> /\ Observed

SetDown(i) ==
  /\ HasAddress(i)
  /\ up' = up \ {i}
  /\ NotifyInterfaceDown(i)
  /\ UNCHANGED <<timing, addresses>> /\ Observed

AddAddress(i, addr) ==
  /\ \A j \in Interfaces : addr \notin Range(addresses[j])
  /\ addresses' = [addresses EXCEPT ![i] = Append(@, addr)]
  /\ NotifyAddAddress(i)
  /\ UNCHANGED <<timing, up>> /\ Observed

RemoveAddress(i, k) ==
  /\ addresses' = [addresses EXCEPT ![i] = RemoveAt(@, k)]
  /\ NotifyRemoveAddress(i, addresses[i][k])
  /\ UNCHANGED <<timing, up>> /\ Observed

\* Time waits for interface 1 to have an address, which SendUpdate reads.
Tick ==
  /\ HasAddress(1)
  /\ now < checkTimer /\ now < Horizon
  /\ now' = now + 1
  /\ UNCHANGED <<ipv4, m_socketAddresses, m_mainAddress, m_positionTable,
                 m_lastSendTime, checkTimer, reported, since>>

------------------------------------------------------------------------------
\* SetIpv4: no interface is up but the loopback's.
Init ==
  /\ now = 0
  /\ up = {} /\ addresses = [i \in Interfaces |-> <<>>]
  /\ m_socketAddresses = <<>>
  /\ m_mainAddress = None
  /\ m_positionTable = {OwnEntry(Loopback, 0)}
  /\ m_lastSendTime = 0 /\ checkTimer = 0
  /\ reported = 0 /\ since = 0

Next ==
  \/ Start \/ CheckChange \/ Tick
  \/ \E i \in Interfaces : SetUp(i) \/ SetDown(i)
  \/ \E i \in Interfaces : \E addr \in AddressesFor[i] : AddAddress(i, addr)
  \/ \E i \in Interfaces : \E k \in DOMAIN addresses[i] : RemoveAddress(i, k)

Spec == Init /\ [][Next]_vars

------------------------------------------------------------------------------
Socket == [iface : Addresses, device : Interfaces \cup {None}, ttl : {1, DefaultTtl}]

\* Every variable has its type.
TypeOK ==
  /\ now \in Nat /\ m_lastSendTime \in 0 .. now
  /\ reported \in 0 .. now /\ since \in 0 .. now
  /\ up \subseteq Interfaces
  /\ addresses \in [Interfaces -> Seq(Addresses)]
  /\ IsFiniteSet(DOMAIN m_socketAddresses)
  /\ m_socketAddresses \in [DOMAIN m_socketAddresses -> Socket]
  /\ m_mainAddress \in Addresses \cup {None}
  /\ m_positionTable \subseteq
       [adress : Range(BroadcastOf) \cup {Loopback}, timestamp : Nat]
  /\ checkTimer \in Nat

\* Through every order of commands, repeated ones too, an interface that is up has a
\* socket for its first address, by which it hears and is heard; and the assertion of
\* NotifyInterfaceDown (line 1074) holds when it is set down.
EveryInterfaceServed ==
  \A i \in up : HasAddress(i) => SocketsFor(First(i)) # {}

\* "Raw socket per each IP interface" (routing-protocol.h:68): there is just one socket
\* for the first address of each interface that is up, and no other.
SocketPerInterface ==
  LET serving == {i \in up : HasAddress(i)} IN
  /\ \A i \in serving : \E s \in DOMAIN m_socketAddresses : SocketsFor(First(i)) = {s}
  /\ \A s \in DOMAIN m_socketAddresses :
       \E i \in serving : m_socketAddresses[s].iface = First(i)

\* A node that is connected is heard: reports that SendUpdate counted as sent while
\* there was no socket cost it no more than one period of silence.
RejoinsInTime ==
  Connected => now <= (IF reported > since THEN reported ELSE since) + MaxIntervalTime + 2

\* "If the destination is a broadcast this is a control packet: just broadcast it"
\* (line 211).
BroadcastsAreBroadcast ==
  [][(Start \/ CheckChange) /\ SendUpdate => AllBroadcast]_vars
==============================================================================
