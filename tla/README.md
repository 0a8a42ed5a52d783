# A formal model of myprotocol4

myprotocol4 is a geographic routing protocol for ns-3 mobile ad-hoc networks.
Every node floods its position and velocity through the network; every node
keeps what it hears in a table, predicts from it where the others are now, and
sends data packets to the neighbour nearest to the destination. This directory
holds TLA+ specifications of the protocol, the TLC configurations that check
them, and theorems about them that the TLAPS proof system checks.

Line numbers refer to `src/model/myprotocol4-*`; `routing-protocol.cc` is meant
where no file is named.

## 1. Inventory

ns-3 is a discrete-event simulator with one thread: an event handler runs to its
end before the next begins. The concurrency of the protocol is between *events*:
the handlers of different nodes, and the handlers of one node between which time
passes (a packet in the loopback device, a timer, a copy on the air).

| Part | State | Operations | Interacts with |
|---|---|---|---|
| Id cache (`id-cache.*`) | `m_idCache`: (address, timestamp, expiry) | `IsDuplicate`, `Purge` | `RecvMyprotocol` asks it of each report; `SendUpdate` puts the node's own in |
| Position table (`rtable.*`) | `m_positionTable`: address to position, velocity, 16-bit timestamp | `LookupRoute`, `AddRoute`, `Update`, `Purge`, `PredictPosition`, `LookupNeighbor`, `BestNeighbor` | written by reports and by headers of transit packets, read for every hop |
| Position reports | `m_lastSendTime/Pos/Velocity`, `m_checkChangeTimer`, copies on the air | `Start`, `CheckChange`, `SendUpdate`, `RecvMyprotocol` | floods through all nodes |
| Request queue (`rqueue.*`) | `m_queue`: vector of packets with expiry, at most 64 | `Enqueue`, `Dequeue`, `Find`, `DropPacketWithDst`, `Purge` | filled from the loopback device, emptied by a report of the destination |
| Deferred output | packets in the loopback device with a tag | `RouteOutput`, `RouteInput`, `DeferredRouteOutput`, `SendPacketFromQueue` | queue, table |
| Data forwarding | the `DataHeader` of packets on the air | `RouteOutput`, `RouteInput`, `Forwarding`, `RecoveryMode` | tables of all nodes on the way, and the header brings positions from one to the next |
| Velocity encoding, prediction | none | `SetRightVelocity`, `GetRightVelocity`, `PredictPosition` | reports, data headers, tables |
| Dead reckoning | what was last sent | the threshold of `CheckChange` | decides when a report is sent |
| Interfaces and sockets | `m_socketAddresses`, `m_mainAddress` | `SetIpv4`, `NotifyInterface*`, `Notify*Address`, `DoDispose` | ns-3's `Ipv4L3Protocol` |
| Headers (`packet.*`) | none | `Serialize`, `Deserialize`, `GetSerializedSize`, the setters' casts | reports and data packets on the air |
| Helper, wscript | none | object factory, build | |

What is hard here, and what correctness means:

* **Floods** (lines 680-728, 838-916). `Update` overwrites blindly and relays are
  unordered; only the id cache, whose entries live 2.4 s, keeps floods finite,
  tables from going back in time and a node from hearing of itself. Correct: a
  report is relayed once by each node, tables move forward only, and on a
  channel without loss everybody ends up with the latest report before its
  predecessor expires.
* **Time** is compared as 64-bit seconds, 16-bit seconds and nanoseconds.
* **Dead reckoning** (lines 818-834). A node is silent as long as its own copy of
  what others believe is near enough to where it is; but others compute with
  whole metres, whole seconds and sign-encoded velocities, and between checks.
  Correct: what others predict stays within a bound that can be stated, and a
  node that goes straight on stays silent.
* **The queue** races with reports: what a packet waits for may arrive while the
  packet is in the loopback device. Correct: each packet is in one place, in
  order, sent in time or dropped, and none waits for ever.
* **Forwarding** is a distributed algorithm on tables that disagree and are old.
  Correct: the hop count bounds every route, greedy mode has no loops where
  nobody moves, recovery mode makes progress, positions only get fresher on the
  way, prediction makes up for the age of reports, no packet is lost track of.
* **Sockets** (lines 1019-1159) follow the interfaces through four handlers that
  patch one map by the addresses they are told, in whatever order interfaces and
  addresses come and go, and however often an interface is set up or down. Correct:
  an interface that is up has a socket (the header says one), and a node that is
  connected again is heard soon.

`PROJECT.json` lists each hazard at its line with the properties for it.

## 2. Modules

| Module | Models | |
|---|---|---|
| `IdCache` | `id-cache.*` | operators on a set of entries |
| `RoutingTable` | `rtable.*`, the merge of lines 509-549 | operators on a set of entries, one per address |
| `Motion` | prediction and velocity encoding | operators on vectors of integers, with 16-bit conversions |
| `Headers` | `packet.*`: both headers, their setters, and the entries made of them | operators; the wire is a sequence of 16-bit words. `EXTENDS Motion` |
| `RequestQueue` | `rqueue.*` | operators on a set of entries in the order of their tickets |
| `PositionSharing` | what the control plane promises | abstract: a node's view of another only moves forward through the samples it broadcast |
| `PacketCustody` | what the data plane promises | abstract: one copy of each packet until one thing becomes of it |
| `PositionUpdate` | the control plane of all nodes | `EXTENDS IdCache, RoutingTable`; refines `PositionSharing` |
| `DeadReckoning` | when a moving node reports, and what others make of it | `EXTENDS Headers, RoutingTable` |
| `Interfaces` | the interfaces, addresses and sockets of one node | `EXTENDS RoutingTable` |
| `DeferredOutput` | one node's output path with `EnableQueue` | `EXTENDS RequestQueue, RoutingTable`; refines `PacketCustody` |
| `Forwarding` | the data plane of all nodes | `EXTENDS RoutingTable, Headers`; refines `PacketCustody` |
| `MC...` | networks, packets, motions and interfaces for TLC | |
| `...Proofs` | theorems | `ReachProofs` builds on `PositionUpdateProofs`, `ProgressProofs` on `ForwardingProofs` |

Operators called mutants in a comment are faulty variants that no specification
uses; replacing the definition after them by one of them must make the property
it is listed with in `PROJECT.json` fail.

The five detailed specifications meet at their interfaces. `PositionUpdate`
leaves to `DeadReckoning` whether motion makes a node report; `DeadReckoning` and
`Forwarding` take from `PositionSharing` that reports of a node arrive in order and
not too late; `Forwarding` takes order, limit and timeout of the queue from
`DeferredOutput`; `Interfaces` says out of which sockets a report leaves. What is taken is
shown where it is taken from: `FloodEndsInTime` bounds the age of a report that arrives,
which is `FloodTime`, and `AlwaysInformed` that of the entries from which `Forwarding`
predicts.

**PositionUpdate.** One action per event: `Start` and `CheckChange` (the timer),
`RecvMyprotocol` (a copy arrives), `RouteOutput` (its purge of the table only),
and for the environment `Lose` and `Tick`. Time is a tick count, `Second` ticks
long to the second; `Tick` may not pass a timer or the `HopDelay` of a copy. A
report's content is abstracted to `born`, the tick at which it was sampled. That
the motion departed from the last report is a free choice of `CheckChange`;
being overdue forces it. `accepted` is a history variable: who has sent or relayed
a report that is still on the air. It is written for the default
`EnableQueue = false`.

**DeadReckoning.** One node that moves as it likes inside the area, at any of a set
of velocities, turning at any tick; one node that hears each report at once.
Place and velocity are exact, in `1/Unit` of a metre and that per tick. `SendUpdate`
truncates them to metres and metres per second, writes them into the header,
sign number and all; what the other reads goes into its table. `m_lastSendPos` and
`m_lastSendVelocity` stay exact, as in the code.

**Interfaces.** `SetUp`, `SetDown`, `AddAddress` and `RemoveAddress` are commands of
whoever runs the simulation, in any order and repeatedly: ns-3 notifies the protocol
of an interface set up or down whether or not it was, and `Ipv4AddressHelper` sets an
interface up again for each address it assigns. Each action contains the protocol's
handler (`NotifyInterfaceUp`, ...). `SetUpAgain` allows interfaces to be set up again
while they are up, until there are `MaxSockets` sockets. Where the assertion of line
1074 fails the program ends, so `SetDown` has no step there. `Start` and
`CheckChange` send one packet out of all the sockets there are, in no known order, since the map is ordered by pointers; what `RouteOutput`
takes for data leaves its data header on the packet, so that what is sent after it is
no report. Two sockets of one node send a report twice, and hear it twice: the
second copy is a duplicate in everyone's id cache. The socket that
`NotifyRemoveAddress` does not close, and what a TTL of 64 does to a report, are not
modelled. Time is in seconds: a check due after 1 s and up to 25 ms comes 1 or 2 whole
seconds later. ns-3 stops the simulation when `SendUpdate` asks for an address of
interface 1 and there is none, so time passes only while there is one.

**DeferredOutput.** `RouteOutput`, `RouteInput` (loopback), `RecvMyprotocol`,
`Forwarding` (of a transit packet, which teaches the node positions), `Tick`.
Geometry is abstracted to its outcome, which each action chooses: no neighbour,
no nearer neighbour, or a next hop. Tickets number packets in the order in which
the application sent them; `forwarded` and `dropped` are histories.

**Forwarding.** Nodes move on given trajectories; positions are in `1/Unit` of a
metre, while tables and headers have whole metres. Copies on the air have their
`DataHeader` as it is on the wire, and `Forwarding` works on what it reads there.
Prediction, neighbour choice, header merge, hop count and recovery mode are the
code's. `Hops` is the decision that `RouteOutput`, `Forwarding` and `RecvMyprotocol`
each spell out. A report reaches a table at most `FloodTime` seconds old, in any
order among nodes; `Heard` and `Informed` say who hears of whom, and who has
from the beginning. A copy is received only by a node really in reach, and may be
lost even there if the channel is `Lossy`. The iterator at `end()` in
`RecoveryMode` yields `Garbage`, an address nobody has. The broadcast entry is in
every table, and `Skipped` are the literals by which `LookupNeighbor` passes it
over: in the code 10.1.1.255, so that in another subnet the broadcast address is not
among them. The entry of a node for itself, which is always passed over, is left out.
Nodes compare their exact place with the whole metres of others. `Misled` says of a
hop that this made a difference: the packet went to a node that is not nearer to the
destination but, rounded, seems to be, or left recovery at a node that is nearer
than the rounded place in the header and not nearer than the node it stands for.

## 3. Runs

| Run | Shows | Bounds |
|---|---|---|
| `position_flood` | a lossy channel with floods of one sender: types, `SeenIsDuplicate`, `UpdateIdsUnique`, `FloodEndsInTime`, `NeverOwnNeighbor`, `TableNeverRegresses`, and that `PositionSharing` is implemented | 3 nodes in mutual reach, so that reports come back; hops of up to 2 ticks, a flood as long as the id cache's lifetime and the sender's period, 2 periods |
| `position_reach` | a lossless channel with the code's own 1 s, 20 s and 30 s: `QuiescentMeansKnown`, `ReportsArriveInTime`, `AlwaysInformed`, `KnownNodesStayKnown` | 3 nodes in a row, 30 s: longer than the silence, and as long as the lifetime. `MaxAge` is 69 ticks here, and a position does get 68 old: a second more of silence violates `AlwaysInformed` |
| `position_wrap` | **violated**: `PurgeOnlyExpired` once timestamps wrap | 8 s for 65536 |
| `reckoning` | a node that turns: types, `EveryoneAgrees`, `PredictionBounded`, `SteadyIsSilent` | quarter metres, half seconds; silence of 6 s, 8 s in all; a velocity that truncates to nothing, one that does not, and the way back; threshold 3 m |
| `interfaces` | interfaces that are also set up while they are up: types, `EveryInterfaceServed`, `RejoinsInTime` | 2 interfaces in one subnet, 2 addresses, one of which both may have; set up again while there is one socket, so that two of one interface stay when the other comes up; silence of 1 s, 5 s in all |
| `interfaces_broadcast` | **violated**: `BroadcastsAreBroadcast` with a second subnet | 3 addresses, 2 subnets, no interface is set up again |
| `queue` | types, `QueueBounded`, `EveryPacketOnce`, `WaitersLeaveInOrder`, `NoLateForward`, `OnlyDueDrops`, `EveryPacketSettles`, and that `PacketCustody` is implemented | 3 packets, 2 destinations, a queue of 2, a timeout of 1 s, 2 s: packets wait, expire, are pushed out, overtake |
| `forward_void` | recovery mode round a void, lossy, with the queue, late reports and entries that expire: types, `HopsBounded`, `NoGreedyLoop`, `RecoveryAdvances`, `NextHopIsLive`, and that `PacketCustody` is implemented | 7 nodes at rest on half metres, 2 packets in opposite directions, the code's limit of 10 hops; two nodes that believe each other nearer to a destination and send the packet to and fro, and one that ends a recovery without being nearer; 2 pairs that hear of each other late or not at all; entries live 1 s and the run 1 s; a subnet other than 10.1.1.0/24, so that the broadcast entry counts as a neighbour |
| `forward_convoy` | a moving chain: `GreedyDelivers`, `PositionFreshens` | 4 nodes, 3 hops with `HopLimit` 3, 2 s of motion, reports 0 to 2 s old |
| `forward_anyone` | **violated**: `NextHopIsNeighbor` | the void |
| `forward_stripped` | **violated**: `DeliveredIntact` | the chain |
| `forward_queued` | **violated**: `TenHops` through the queue | the chain with a hop limit of 2 |

Deadlock is checked except where the system comes to rest: in the `forward` runs
once every packet is settled and the time modelled is over, in `reckoning` and the
`interfaces` runs at the horizon, and in `reckoning` also where a node would leave the
area, which the mobility models that the protocol is used with do not do.

The violated runs are disagreements between the code and its own comments:

1. `rtable.cc:190` purges fresh entries after 65536 s (comment `rtable.cc:181`).
2. `RecoveryMode` may dereference `end()` (line 638, comment line 636):
   `GetInteger` includes its upper bound.
3. `RouteInput` strips the `DataHeader` at the destination with the UDP header
   still in front of it (line 433; comment line 323; `Forwarding` does it right,
   lines 478-486).
4. A packet released from the queue starts at hop 0, not 1 (line 736 against
   line 234), and makes 11 hops (comment line 489).
5. `RouteOutput` knows one broadcast address, that of interface 1 (line 212), while
   `SendUpdate` sends to one for each socket: a report for another subnet is taken
   for a data packet (comment line 211). For the first 30 s the table has the entry
   that `NotifyInterfaceUp` made for that subnet's broadcast address, and the report
   is routed towards the origin if there are neighbours; without, or later, it goes to
   the loopback device. With one subnet, `OneSubnetBroadcasts` is the theorem that
   none of this can happen.
Four more the models show without a run of their own:

* `NotifyInterfaceUp` opens a second socket for an interface that is set up again
  (line 1056), where `routing-protocol.h:68` speaks of one per interface: as an
  invariant of `InterfacesMoves.cfg`, `SocketPerInterface` fails after two `SetUp`. Every
  report is then sent twice, and `NotifyInterfaceDown` closes one socket of two.
  Without that, `OneSocketEach` is the theorem that there is just one.
* `NotifyInterfaceDown` asserts that there is a socket to close (line 1074); an
  interface that has an address and is not up has none, and ns-3 notifies the
  protocol also when such an interface is set down.
* The socket that `NotifyRemoveAddress` opens "to listen only on this interface"
  (comment line 1129) is bound to no device (lines 1130-1136): its `device` in
  `Interfaces` is `None`.
* `LookupNeighbor` selects neighbours (comment `rtable.cc:134`) by passing over the
  literal 10.1.1.255 (`rtable.cc:139`): in another subnet, as in `forward_void`, the
  broadcast entry at (0,0,0) is a neighbour of whoever is in range of the origin, and
  gets data packets.

Observed, but no disagreement with anything the code says:

* Nothing purges the queue in time: a packet may stay in it after its 30 s until
  some other packet touches the queue (`rqueue.h:215` speaks of the time it *may*
  be buffered). It is never sent then: `NoLateForward`.
* With `CheckChangeInterval` below one second the identifiers of reports repeat, and
  `UpdateIdsUnique` fails. `Timely` excludes it.
* Two nodes within a metre of each other may send a packet to and fro until the hop
  limit, and a recovery may end at a node that is no nearer than where it began:
  `forward_void` shows both. `NoGreedyLoop` and `RecoveryAdvances` say that this is
  the only way to loop and to lose ground.
* With the defaults the threshold of dead reckoning is 375 m and the radio range
  250 m: a neighbour may be predicted in range and be out of it by more than the
  range. `PredictionBounded` says how far at most.

**The bound of `PredictionBounded`.** `CheckChange` looks one second ahead and only
when its timer expires, every `Second` to `Second + CheckJitter` ticks. Per axis, the
prediction is off by the threshold, plus the way the node goes in that second and
until the next check, plus the way the prediction goes in the second by which the
two may count differently: together `(3 * Second + CheckJitter) * Speed`. Truncation
adds a metre once and, for the velocity, a metre each second of the silence, which
lasts `MaxIntervalTime` seconds and up to two more until a check notices.

**Fairness.** `DeferredOutput!FairSpec` assumes that the simulator runs the events
of the loopback device (it runs every scheduled event) and that destinations
keep reporting, which `CheckChange` makes them do every 20 s; on a channel that
loses everything a packet does wait for ever. `Forwarding!FairSpec` assumes only
that events on the air and in the loopback device happen; `GreedyDelivers` is
checked on a channel that loses nothing within reach. The other specifications
state their deadlines as safety properties, with time that waits for whoever has
something to do.

## 4. Proofs

TLC checks the instances above; TLAPS proves the following for all values of the
constants that satisfy the modules' assumptions. These are few: networks, areas,
trajectories and periods are arbitrary, `EntryLifeTime` is positive, `HopLimit`
is positive and fits into 16 bits, `FloodTime` is below `EntryLifeTime`,
velocities and areas fit into 16 signed bits. What a theorem needs besides is a
hypothesis of it, named in its module.

**PositionUpdateProofs.** `TypeCorrect` has no hypothesis. Under `Timely` - a
flood lasts at most `Cardinality(Nodes) * HopDelay`, which is within the lifetime
of the id cache and within a second, checks are at least a second apart, and
timestamps do not wrap - `FloodInvariant`, from which `NoSecondRelay`
(`SeenIsDuplicate`), `FloodsEndInTime`, `TimestampsIdentify` (`UpdateIdsUnique`),
`EchoesIgnored` (`NeverOwnNeighbor`), `TablesAdvance` (`TableNeverRegresses`) and
the refinement `PositionUpdateImplementsSharing`.

None of these invariants is inductive alone. That a node knows a report it has
relayed needs its cache entry to outlive the flood; that the flood is over by
then needs a bound on the age of copies; the bound is one hop delay per node
*because* no node relays twice. `FloodInv` ties the knot: copies still on the air
at age `k` hops have been relayed by `k` different nodes (`Flood`), the history
holds just reports on the air (`Pruned`), a sender's reports are a second apart
(`Apart`), whoever is in the history has the cache entry, with an expiry no
earlier than the end of the flood (`Memory`), cache entries are of reports really
sent (`IdsUsed`), and tables hold nothing younger than the sender's latest
report and nothing younger than a copy to a node that has not relayed it
(`Tables`). There is a lemma for each action and each conjunct that it can disturb.

**ReachProofs** is about a network that is also `Reliable` - the channel loses nothing,
and every set of nodes but the set of all has a node with one in reach outside it, so
that each node is connected with each other - and `Remembered`: the silence, the
check period with its jitter and a flood together (`MaxAge`) are shorter than an
entry's lifetime. With the code's 1 s, 25 ms, 20 s and 30 s that leaves almost eight
seconds for a flood. `ReachInvariant` adds to `FloodInv`:

* `Spreading`: from each node that holds the latest report of a sender, each node in
  reach has it too or a copy is on its way there;
* `Noted`: whoever has relayed that report, or would take it for a duplicate, holds it;
* `Prompt`: a sender's timer is never set beyond its `Deadline`, the first check after
  its silence is over;
* `Spaced` and `Recent`: copies and entries are of the latest report, or of one that
  was replaced a second later at least, and by its deadline.

If some node lacks a report, the set of holders is not closed under `Link`, so by
`Spreading` a copy is on its way to a node that lacks it, which by `Noted` has not
relayed it; so at most all nodes but one have, and `Flood` bounds the age of that copy
by one hop delay for each of them (`Frontier`). This is `QuietMeansKnown`
(`QuiescentMeansKnown`) and `ReportsArrive` (`ReportsArriveInTime`); and as it is less
than the second between two reports, each report is everywhere before the next
(`HeldEverywhere`), which is what keeps `Spreading`, `Noted` and `Recent` when a node
sends. An entry is then at most a deadline and a flood old (`EntryAge`), so that
no `Purge` finds it expired (`EntriesLive`): `NodesStayKnown` (`KnownNodesStayKnown`), and
`EveryoneStaysInformed` (`AlwaysInformed`), with the invariant `Informed`: whoever has sent
for the second time is known to all. The order of the argument matters: that entries
live is needed for `Spreading` itself, because a purge would take the report away
from a node that has already relayed it and will not take it again.

`NothingPurgedEarly` needs neither hypothesis, nor `Timely`: as long as timestamps do not wrap,
`PurgeOnlyExpired` holds on any channel, so that the wrap is the whole reason for what
`position_wrap` shows. `MCPositionUpdate` assumes that its networks other than that one
satisfy the hypotheses of these theorems (`Hypotheses`), which TLC has thus shown.

**HeadersProofs** is about the operators of `Motion` and `Headers`. `VelocitySurvives`: the
sign number of a header loses nothing, for every velocity. `PredictionInArea`,
and `PredictionExact`: 16-bit arithmetic and clamping notwithstanding, the
prediction is where the node is, as long as it keeps the reported velocity inside
an area below 2^15 m. `ReportRoundTrip` and `DataRoundTrip`: what `Deserialize`
reads is what `Serialize` has written, in as many bytes as `GetSerializedSize`
says, for every header.

**DeadReckoningProofs.** `KnownInv` says that both tables hold the last report, the
other one's copy through header and sign number; from it `ReckoningTypes` and
`AllAgree` (`EveryoneAgrees`). `SteadyNodesAreSilent` (`SteadyIsSilent`) needs that
timestamps do not wrap (`BeforeWrap`) and the invariant `Straight`: a node that has
not turned is where its last report takes it, from the very tick at which it was
sent - the whole seconds that `CheckChange` subtracts differ from the truth by less
than the second it adds. `PredictionsAreNear` (`PredictionBounded`) needs also
`Modest`: checks come at most two seconds apart, a node cannot depart from a fresh
report by the threshold within a second, and no velocity takes a position beyond 16
bits in one silence. The code's numbers satisfy it (25 ms of jitter, 375 m, 20 s).
The invariant `Tracked` remembers the second `q` of the last check, at which the node
was within the threshold of its prediction, and spends what it has of slack on
every tick since: `Slack - (checkTimer - now) * Speed` at most. The rest of `Error` is
arithmetic: what truncation loses in `n` seconds (`TruncationsAddUp`), the second by
which the two counts may differ (`SecondsOff`), and that clamping only helps a node
that is in the area (`ClampingHelps`).

**InterfacesProofs.** `InterfaceTypes`. `InterfacesAreServed` (`EveryInterfaceServed`), for
every order of commands, repeated ones included, with `ServedInv`: no address is at two
interfaces (`Distinct`), so that what is done for one interface takes the last socket
of no other. `OneSocketEach` (`SocketPerInterface`) has the hypothesis that no interface
that is up is set up again; the sockets then serve just the first addresses of the
interfaces that are up (`Serves`). Where
all interfaces are in one subnet (`OneSubnet`): `ConnectedIsHeard` (`RejoinsInTime`), with
`TimerInv` - what a connected node counts as sent has left, or was counted before it
was connected, and the next check is never more than the silence and two seconds after
it - and `OneSubnetBroadcasts` (`BroadcastsAreBroadcast`), which `interfaces_broadcast`
refutes where there are two.

**DeferredOutputProofs.** `DeferredInv` adds to the properties that `EveryPacketOnce`
and `QueueBounded` state the order of tickets (`InTurn`): those in the queue are below
those in the loopback device, and above those already handed over to the same
destination after waiting. From it `DeferredTypes`, `QueueStaysBounded` (although `Enqueue`
compares the length with `==`), `PacketsOnce`, `LeaveInOrder`, `NeverLate`, `DropsAreDue` and the refinement
`DeferredOutputImplementsCustody`.

**ForwardingProofs.** `ForwardInv`: types of copies, routes, tables and the rest,
one place for each packet (`Once`), and a route at most one longer than the hop count
in its copy (`Counted`), which is why a packet from the queue may have one hop more. From it
`ForwardingTypes`, `RoutesAreBounded` (`HopsBounded`), the refinement
`ForwardingImplementsCustody`, and `HopsAreLive` (`NextHopIsLive`): each of the three that
send a packet on purges the table first, and the one entry that may be put back
expired is the destination's, so that every other next hop is live. Until timestamps wrap,
`PositionsFreshen` (`PositionFreshens`), for every network, motion and delay. Without the
queue a route is as long as the hop count in its copy says (`Direct`), and
`TenHopsWithoutQueue`: `TenHops`, which `forward_queued` refutes, holds then.

**ProgressProofs**, where nobody moves (`AtRest`; timestamps do not wrap and the area
is below 2^15 m), for every network, however close its nodes: `GreedyHasNoLoop`
(`NoGreedyLoop`) and `RecoveryGoesForward` (`RecoveryAdvances`). In `RestInv` whatever a table
or a header says of a node is where it is, in whole metres. A hop that these misled
(`Strays`, which is `Misled`) may go anywhere; over the stretches without one
(`Straight`) the exact distance to the destination falls with every greedy hop
(`Falls`), and recovery is left only nearer to it than where it began (`Advances`). So
the exception in both properties is just the hops at which rounded and exact distances
disagree; `forward_void` fails without either of its two cases.

Every safety property of the passing runs is a theorem, some of them under a hypothesis
named above. Only model-checked is liveness, `EveryPacketSettles` and `GreedyDelivers`,
since the prover has no ENABLED. The properties of the violated runs are refuted, not
proved: `PurgeOnlyExpired`, `TenHops` and `BroadcastsAreBroadcast` hold under the
hypotheses of a theorem, `NextHopIsNeighbor` and `DeliveredIntact` have none.

## 5. Not modelled

* **Broadcast input** (lines 388-424): applications that broadcast, and multicast.
  Control packets have TTL 1 and go up, not on; but a socket that
  `NotifyRemoveAddress` has opened anew sends with the default TTL, and then
  receivers forward reports by the broadcast entry of their tables while it lasts.
  A report that arrives at two sockets of one node is not modelled as two arrivals:
  the second finds the id cache's entry of the first.
* **A node without sockets** drops what it is asked to send or forward (`RouteOutput`,
  lines 199-205, with `ERROR_NOROUTETOHOST`; `RouteInput`, lines 333-337). `Forwarding`
  and `DeferredOutput` leave these exits out: their nodes have a socket throughout.
* **ICMP** headers on transit packets, **IP forwarding switched off**, and the **null
  packet** branch of `RouteOutput`, which dereferences what it has tested for.
* **`DoDispose`**, which empties the sockets at the end of a simulation; interfaces with
  a /32 mask; the notifications of the loopback interface, which the code ignores.
* **The location service** fills a field that is only printed. **`Print`** and the
  comparison of headers change nothing.
* **Positions outside the area**: the mobility models that the protocol is used with
  keep to it; `CheckChange` and `SendUpdate` clamp only what they predict or send.
* **Helper and build**: an object factory and a list of files.
* ns-3 itself: mobility, channel, IP and UDP are constants and free choices of the
  environment.

Bounds on nodes, packets and time are TLC's; `position_flood` has one sender, since
reports of different senders meet only in the number of entries of a cache or table.
