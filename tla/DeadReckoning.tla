---------------------------- MODULE DeadReckoning ----------------------------
(***************************************************************************)
(* Why the positions that tables predict are near the nodes' own: the      *)
(* CheckChange and SendUpdate of model/myprotocol4-routing-protocol.cc for *)
(* one node that moves as it likes, and one that hears its reports.        *)
(*                                                                         *)
(* The node's place and velocity are exact, in 1/Unit of a metre and that  *)
(* per tick; its report has whole metres, metres per second and seconds.   *)
(* How reports reach other nodes is PositionUpdate's matter: here each is  *)
(* heard at once.                                                          *)
(***************************************************************************)
EXTENDS Headers, RoutingTable

CONSTANTS
  Unit,             \* units of length in a metre
  Second,           \* ticks in a second
  Starts,           \* where the node may be at first
  Velocities,       \* the velocities it may have
  Speed,            \* a bound on their components
  Threshold,        \* m_transRange * m_scaleFactor (375 m)
  MaxIntervalTime,  \* m_maxIntervalTime, in seconds (20)
  CheckJitter,      \* bound on the 0..25 ms added to the check interval of 1 s, in ticks
  Myadress, Loopback,
  PacketUid,        \* what Packet::GetUid returns
  Horizon           \* bound on the ticks modelled

InArea(v) == \A a \in Axes : v[a] \in 0 .. Unit * Area[a]

ASSUME DeadReckoningAssumption ==
  /\ Area \in [Axes -> Nat] /\ \A a \in Axes : Area[a] < 32768
  /\ Unit \in Nat \ {0} /\ Second \in Nat \ {0}
  /\ Starts \subseteq Vector /\ \A v \in Starts : InArea(v)
  /\ Velocities \subseteq Vector
  /\ Speed \in Nat /\ (Second * Speed) \div Unit < 32768
  /\ \A v \in Velocities, a \in Axes : v[a] \in -Speed .. Speed
  /\ Threshold \in Nat /\ MaxIntervalTime \in Nat /\ CheckJitter \in Nat
  /\ Myadress \in Address /\ Loopback \in Address /\ PacketUid \in Uid
  /\ Horizon \in Nat

VARIABLES
  now,                  \* Simulator::Now
  pos, vel,             \* the node's mobility model
  m_lastSendTime, m_lastSendPos, m_lastSendVelocity,
  checkTimer,           \* when m_checkChangeTimer expires; 0 before Start
  m_positionTable,      \* the node's table: its own entry
  heard,                \* the other node's table: its entry for this one
  turned                \* history: whether the velocity has changed since SendUpdate

motion == <<now, pos, vel>>
vars == <<now, pos, vel, m_lastSendTime, m_lastSendPos, m_lastSendVelocity, checkTimer,
          m_positionTable, heard, turned>>

------------------------------------------------------------------------------
Seconds(t) == t \div Second

\* v after k ticks at velocity w.
Moved(v, w, k) == [a \in Axes |-> v[a] + k * w[a]]

\* The casts of SendUpdate.
Metres(v) == [a \in Axes |-> Truncated(v[a], Unit)]
MetresPerSecond(w) == [a \in Axes |-> Truncated(w[a] * Second, Unit)]

\* What the header is given of the node, which keeps to the area.
Clamped(v) == [a \in Axes |-> Clamp(v[a], Area[a])]

OwnEntry ==
  [adress |-> Loopback, timestamp |-> Uint16(Seconds(now)), pos |-> Words(Metres(pos)),
   vel |-> Shorts(MetresPerSecond(vel))]

\* SendUpdate, and RecvMyprotocol at the other node.
SendUpdate ==
  /\ m_lastSendTime' = Uint16(Seconds(now))
  /\ m_lastSendPos' = pos
  /\ m_lastSendVelocity' = vel
  /\ m_positionTable' = Update(m_positionTable, OwnEntry)
  /\ LET sent == ReportOf(Clamped(Metres(pos)), MetresPerSecond(vel), Seconds(now),
                          PacketUid, Myadress)
     IN  heard' = Update(heard, EntryOfReport(DeserializeReport(SerializeReport(sent))))
  /\ turned' = FALSE

Start ==
  /\ checkTimer = 0
  /\ SendUpdate
  /\ checkTimer' \in Second .. 2 * Second
  /\ UNCHANGED motion

\* Mutant, used by no specification: the next second's place against this one's.
DepartedNow(t) ==
  Distance2(Moved(pos, vel, Second), Moved(m_lastSendPos, m_lastSendVelocity, Second * t))
    > Threshold * Threshold

\* Where the node will be in a second is too far from where its last report, t
\* seconds ago, has it.
Departed(t) ==
  Distance2(Moved(pos, vel, Second),
            Moved(m_lastSendPos, m_lastSendVelocity, Second * (t + 1)))
    > Threshold * Threshold

Overdue == Seconds(now) - m_lastSendTime > MaxIntervalTime

CheckChange ==
  /\ now = checkTimer /\ checkTimer # 0
  /\ LET due == Departed(Uint16(Seconds(now) - m_lastSendTime)) \/ Overdue IN
     \/ due /\ SendUpdate
     \/ /\ ~due
        /\ UNCHANGED <<m_lastSendTime, m_lastSendPos, m_lastSendVelocity,
                       m_positionTable, heard, turned>>
  /\ checkTimer' \in now + Second .. now + Second + CheckJitter
  /\ UNCHANGED motion

\* The mobility model (external): a tick at the present velocity, and perhaps another.
Tick ==
  /\ now < checkTimer /\ now < Horizon
  /\ now' = now + 1
  /\ pos' = Moved(pos, vel, 1) /\ InArea(pos')
  /\ vel' \in Velocities
  /\ turned' = (turned \/ vel' # vel)
  /\ UNCHANGED <<m_lastSendTime, m_lastSendPos, m_lastSendVelocity, checkTimer,
                 m_positionTable, heard>>

------------------------------------------------------------------------------
Init ==
  /\ now = 0
  /\ pos \in Starts /\ vel \in Velocities
  /\ m_lastSendTime = 0 /\ m_lastSendPos = Origin /\ m_lastSendVelocity = Origin
  /\ checkTimer = 0
  /\ m_positionTable =
       {[adress |-> Loopback, timestamp |-> 0, pos |-> Origin, vel |-> Origin]}
  /\ heard = {}
  /\ turned = FALSE

Next == Start \/ CheckChange \/ Tick

Spec == Init /\ [][Next]_vars

------------------------------------------------------------------------------
Entry == [adress : Address, timestamp : Word, pos : Vector16, vel : Vector]

\* Every variable has its type.
TypeOK ==
  /\ now \in Nat /\ checkTimer \in Nat
  /\ pos \in Vector /\ vel \in Velocities
  /\ m_lastSendTime \in Word /\ m_lastSendPos \in Vector
  /\ m_lastSendVelocity \in Velocities \cup {Origin}
  /\ m_positionTable \subseteq Entry /\ heard \subseteq Entry
  /\ \A r \in m_positionTable \cup heard : \A a \in Axes : Int16(r.vel[a]) = r.vel[a]
  /\ turned \in BOOLEAN

\* Others believe of the node what it believes they do: the entry that a report
\* turns into on its way through the header is the one its sender keeps of itself
\* "to make the table easy to analyse" (line 856).
EveryoneAgrees ==
  heard = {[r EXCEPT !.adress = Myadress] : r \in IF checkTimer = 0 THEN {} ELSE m_positionTable}

\* How far the prediction may be off by, on an axis: the threshold; the way either
\* goes between two checks, and the node in the second that CheckChange looks ahead;
\* a metre lost in the report, and a metre per second for as long as it is the last.
Error ==
  Threshold + (3 * Second + CheckJitter) * Speed + Unit * (1 + MaxIntervalTime + 2)

\* Dead reckoning works: whenever and however the node turns, the position that a
\* table predicts of it is near its own (lines 818-834).
PredictionBounded ==
  \A r \in heard, a \in Axes :
    Unit * PredictPosition(r, Seconds(now))[a] - pos[a] \in -Error .. Error

\* A node that goes on as it last reported is silent until its time is up, although
\* the seconds that it counts since then are whole.
Slow == Distance2(Moved(Origin, vel, Second), Origin) <= Threshold * Threshold
SteadyIsSilent ==
  [][CheckChange /\ ~turned /\ Slow => Overdue \/ UNCHANGED m_lastSendTime]_vars
==============================================================================
