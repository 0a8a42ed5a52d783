------------------------- MODULE DeadReckoningProofs -------------------------
(***************************************************************************)
(* Theorems about DeadReckoning, for every area, speed, threshold and      *)
(* length of the silence: others know of a node what it believes they do,  *)
(* it is silent while it goes straight on, and what they predict of it     *)
(* stays within the bound that PredictionBounded states.                   *)
(***************************************************************************)
EXTENDS DeadReckoning, HeadersProofs

------------------------------------------------------------------------------
(* Vectors and their truncations. *)

LEMMA Parameters ==
  /\ Unit \in Nat \ {0} /\ Second \in Nat \ {0} /\ Speed \in Nat
  /\ Threshold \in Nat /\ MaxIntervalTime \in Nat /\ CheckJitter \in Nat /\ Horizon \in Nat
  /\ \A a \in Axes : Area[a] \in Nat /\ Area[a] < 32768
  /\ Starts \subseteq Vector /\ (\A v \in Starts : InArea(v))
  /\ Velocities \subseteq Vector
  /\ (\A w \in Velocities : \A a \in Axes : w[a] \in -Speed .. Speed)
  /\ (Second * Speed) \div Unit < 32768
<1>1. Area \in [Axes -> Nat] /\ \A a \in Axes : Area[a] < 32768
  BY DeadReckoningAssumption, SMT
<1> QED
  BY <1>1, DeadReckoningAssumption, SMT

LEMMA MovedTyped ==
  ASSUME NEW v \in Vector, NEW w \in Vector, NEW k \in Int
  PROVE  /\ Moved(v, w, k) \in Vector
         /\ \A a \in Axes : Moved(v, w, k)[a] = v[a] + k * w[a]
BY DEF Moved, Vector

LEMMA OriginTyped == Origin \in Vector /\ \A a \in Axes : Origin[a] = 0
BY DEF Origin, Vector, Axes

\* A velocity in metres per second fits into 16 signed bits.
LEMMA TruncationShrinks ==
  ASSUME NEW i \in Int, NEW m \in Nat, NEW u \in Nat \ {0}, -m <= i, i <= m
  PROVE  /\ Truncated(i, u) \in Int
         /\ -(m \div u) <= Truncated(i, u) /\ Truncated(i, u) <= m \div u
<1>1. m \div u \in Nat
  OBVIOUS
<1>2. \A j, k \in Nat : j <= k => j \div u \in Nat /\ j \div u <= k \div u
  <2> TAKE j, k \in Nat
  <2> HAVE j <= k
  <2> DEFINE q == j \div u
             r == k \div u
  <2>1. q \in Nat /\ u * q <= j
    OBVIOUS
  <2>2. r \in Nat /\ k < u * r + u
    OBVIOUS
  <2> HIDE DEF q, r
  <2>3. ASSUME r + 1 <= q PROVE FALSE
    <3>1. u * (r + 1) <= u * q
      BY <2>1, <2>2, <2>3
    <3>2. u * (r + 1) = u * r + u
      BY <2>2
    <3> QED
      BY <2>1, <2>2, <3>1, <3>2
  <2>4. q <= r
    BY <2>1, <2>2, <2>3
  <2> QED
    BY <2>1, <2>4 DEF q, r
<1>3. CASE i < 0
  <2>1. -i \in Nat /\ -i <= m
    BY <1>3
  <2>2. (-i) \div u \in Nat /\ (-i) \div u <= m \div u
    BY <1>2, <2>1
  <2> QED
    BY <1>1, <1>3, <2>2 DEF Truncated
<1>4. CASE i >= 0
  <2>1. i \in Nat /\ i <= m
    BY <1>4
  <2>2. i \div u \in Nat /\ i \div u <= m \div u
    BY <1>2, <2>1
  <2> QED
    BY <1>1, <1>4, <2>2 DEF Truncated
<1> QED
  BY <1>3, <1>4

\* What truncation loses is less than a unit.
LEMMA TruncationNear ==
  ASSUME NEW i \in Int, NEW u \in Nat \ {0}
  PROVE  /\ Truncated(i, u) \in Int
         /\ -u < u * Truncated(i, u) - i /\ u * Truncated(i, u) - i < u
<1>1. \A j \in Nat : j \div u \in Nat /\ u * (j \div u) <= j /\ j < u * (j \div u) + u
  OBVIOUS
<1>2. CASE i < 0
  <2> DEFINE q == (-i) \div u
  <2>1. q \in Nat /\ u * q <= -i /\ -i < u * q + u
    BY <1>1, <1>2
  <2>2. Truncated(i, u) = -q
    BY <1>2 DEF Truncated
  <2> HIDE DEF q
  <2>3. u * (-q) = -(u * q)
    BY <2>1
  <2> QED
    BY <2>1, <2>2, <2>3
<1>3. CASE i >= 0
  <2> DEFINE q == i \div u
  <2>1. q \in Nat /\ u * q <= i /\ i < u * q + u
    BY <1>1, <1>3
  <2>2. Truncated(i, u) = q
    BY <1>3 DEF Truncated
  <2> HIDE DEF q
  <2> QED
    BY <2>1, <2>2
<1> QED
  BY <1>2, <1>3

LEMMA InAreaTruncates ==
  ASSUME NEW v \in Vector, InArea(v)
  PROVE  /\ Metres(v) \in Vector /\ Words(Metres(v)) \in Vector16
         /\ Words(Metres(v)) = Metres(v) /\ Clamped(Metres(v)) = Metres(v)
         /\ \A a \in Axes : Metres(v)[a] \in 0 .. Area[a]
<1>1. ASSUME NEW a \in Axes
      PROVE  Truncated(v[a], Unit) \in 0 .. Area[a] /\ Area[a] \in Nat /\ Area[a] < 32768
  <2> DEFINE u == Unit
             m == Area[a]
             x == v[a]
  <2>1. u \in Nat \ {0} /\ m \in Nat /\ x \in 0 .. u * m /\ m < 32768
    BY Parameters DEF InArea
  <2> HIDE DEF u, m, x
  <2>2. Truncated(x, u) \in 0 .. m
    BY <2>1, DivisionFits
  <2> QED
    BY <2>1, <2>2 DEF u, m, x
<1>2. \A a \in Axes : Metres(v)[a] = Truncated(v[a], Unit)
  BY DEF Metres
<1>3. Metres(v) = [a \in Axes |-> Metres(v)[a]]
  BY DEF Metres
<1>4. \A a \in Axes : Metres(v)[a] \in Nat /\ Metres(v)[a] <= Area[a] /\ Metres(v)[a] < 32768
  BY <1>1, <1>2
<1>5. \A a \in Axes : Uint16(Metres(v)[a]) = Metres(v)[a] /\ Metres(v)[a] \in Word
  BY <1>4, SmallIntegers
<1>6. \A a \in Axes : Clamp(Metres(v)[a], Area[a]) = Metres(v)[a]
  BY <1>1, <1>4 DEF Clamp
<1>7. Words(Metres(v)) = Metres(v) /\ Clamped(Metres(v)) = Metres(v)
  BY <1>3, <1>5, <1>6 DEF Words, Clamped
<1> QED
  BY <1>3, <1>4, <1>5, <1>7 DEF Vector, Vector16

LEMMA VelocityTruncates ==
  ASSUME NEW w \in Velocities
  PROVE  LET v == MetresPerSecond(w) IN
         /\ w \in Vector /\ v \in Vector /\ Shorts(v) = v
         /\ Magnitude(v) \in Vector /\ Words(Magnitude(v)) = Magnitude(v)
         /\ Words(Magnitude(v)) \in Vector16
         /\ \A a \in Axes : /\ v[a] \in Int /\ v[a] = Truncated(w[a] * Second, Unit)
                            /\ -((Second * Speed) \div Unit) <= v[a]
                            /\ v[a] <= (Second * Speed) \div Unit
<1> DEFINE v == MetresPerSecond(w)
           top == (Second * Speed) \div Unit
<1>0. w \in Vector
  BY Parameters
<1>1. top \in Nat /\ top < 32768
  BY Parameters
<1>2. \A a \in Axes : v[a] = Truncated(w[a] * Second, Unit)
  BY DEF MetresPerSecond
<1>3. ASSUME NEW a \in Axes
      PROVE  v[a] \in Int /\ -top <= v[a] /\ v[a] <= top
  <2> DEFINE i == w[a] * Second
             m == Second * Speed
             u == Unit
  <2>1. w[a] \in Int /\ -Speed <= w[a] /\ w[a] <= Speed
    BY Parameters
  <2>2. i \in Int /\ m \in Nat /\ -m <= i /\ i <= m
    <3>1. Second \in Nat /\ Speed \in Nat
      BY Parameters
    <3>2. w[a] * Second <= Speed * Second /\ (-Speed) * Second <= w[a] * Second
      BY <2>1, <3>1
    <3>3. (-Speed) * Second = -(Second * Speed) /\ Speed * Second = Second * Speed
      BY <3>1
    <3> QED
      BY <2>1, <3>1, <3>2, <3>3
  <2>3. u \in Nat \ {0}
    BY Parameters
  <2>4. v[a] = Truncated(i, u) /\ top = m \div u
    BY <1>2
  <2> HIDE DEF i, m, u, v, top
  <2> QED
    BY <2>2, <2>3, <2>4, TruncationShrinks
<1>4. v = [a \in Axes |-> v[a]]
  BY DEF MetresPerSecond
<1> HIDE DEF v, top
<1>5. v \in Vector
  BY <1>3, <1>4 DEF Vector
<1>6. \A i \in Int : (-32768 <= i /\ i < 32768) => Int16(i) = i
  BY SMT DEF Int16
<1>7. Shorts(v) = v
  <2>1. \A a \in Axes : Int16(v[a]) = v[a]
    BY <1>1, <1>3, <1>6
  <2> QED
    BY <1>4, <2>1 DEF Shorts
<1>8. Magnitude(v) \in Vector
  BY <1>5, ConversionsTyped
<1>9. Words(Magnitude(v)) = Magnitude(v)
  <2>1. \A a \in Axes : Magnitude(v)[a] \in Nat /\ Magnitude(v)[a] < 32768
    BY <1>1, <1>3 DEF Magnitude
  <2>2. \A a \in Axes : Uint16(Magnitude(v)[a]) = Magnitude(v)[a]
    BY <2>1, SmallIntegers
  <2>3. Magnitude(v) = [a \in Axes |-> Magnitude(v)[a]]
    BY DEF Magnitude
  <2> QED
    BY <2>2, <2>3 DEF Words
<1>10. Words(Magnitude(v)) \in Vector16
  BY <1>8, ConversionsTyped
<1> QED
  BY <1>0, <1>2, <1>3, <1>5, <1>7, <1>8, <1>9, <1>10 DEF v, top

------------------------------------------------------------------------------
(* What others know. *)

\* The entry that the last report has become elsewhere.
LastReport ==
  [adress |-> Myadress, timestamp |-> m_lastSendTime, pos |-> Metres(m_lastSendPos),
   vel |-> MetresPerSecond(m_lastSendVelocity)]

\* Where a node is and what it has sent are possible.
Moving ==
  /\ now \in Nat /\ now <= Horizon /\ checkTimer \in Nat
  /\ IF checkTimer = 0 THEN now = 0 ELSE now <= checkTimer
  /\ pos \in Vector /\ InArea(pos) /\ vel \in Velocities /\ turned \in BOOLEAN
  /\ m_lastSendTime \in Word
  /\ m_lastSendPos \in Vector /\ InArea(m_lastSendPos)

\* Its own table and the other's have its last report.
Known ==
  IF checkTimer = 0
    THEN /\ heard = {} /\ m_lastSendVelocity = Origin
         /\ m_positionTable =
              {[adress |-> Loopback, timestamp |-> 0, pos |-> Origin, vel |-> Origin]}
    ELSE /\ heard = {LastReport} /\ m_lastSendVelocity \in Velocities
         /\ m_positionTable = {[LastReport EXCEPT !.adress = Loopback]}

KnownInv == Moving /\ Known

\* A report comes out of the header as what its sender keeps of itself.
LEMMA SendUpdateKnown ==
  ASSUME KnownInv, SendUpdate, checkTimer' # 0
  PROVE  Known' /\ m_lastSendTime' \in Word
<1> DEFINE p == Metres(pos)
           v == MetresPerSecond(vel)
           t == Uint16(Seconds(now))
           h == ReportOf(Clamped(p), v, Seconds(now), PacketUid, Myadress)
           e == [adress |-> Myadress, timestamp |-> t, pos |-> p, vel |-> v]
<1>1. pos \in Vector /\ InArea(pos) /\ vel \in Velocities /\ now \in Nat
  BY DEF KnownInv, Moving
<1>2. /\ p \in Vector /\ Words(p) \in Vector16 /\ Words(p) = p /\ Clamped(p) = p
  BY <1>1, InAreaTruncates
<1>3. /\ v \in Vector /\ Shorts(v) = v /\ Magnitude(v) \in Vector
      /\ Words(Magnitude(v)) = Magnitude(v) /\ Words(Magnitude(v)) \in Vector16
  BY <1>1, VelocityTruncates
<1>4. t \in Word
  <2>1. Seconds(now) \in Int
    BY <1>1, Parameters DEF Seconds
  <2> QED
    BY <2>1, WidthsTyped
<1>5. m_lastSendTime' = t /\ m_lastSendPos' = pos /\ m_lastSendVelocity' = vel
  BY DEF SendUpdate
<1>6. h = [pos |-> p, vel |-> Magnitude(v), sign |-> SetRightVelocity(v),
           timestamp |-> t, uid |-> PacketUid, myadress |-> Myadress]
  BY <1>2, <1>3 DEF ReportOf
<1>7. OwnEntry = [adress |-> Loopback, timestamp |-> t, pos |-> p, vel |-> v]
  BY <1>2, <1>3 DEF OwnEntry
<1>8. /\ heard' = Update(heard, EntryOfReport(DeserializeReport(SerializeReport(h))))
      /\ m_positionTable' = Update(m_positionTable, OwnEntry)
  BY DEF SendUpdate
<1> HIDE DEF p, v, t
<1>9. h \in MyprotocolHeader
  <2>1. SetRightVelocity(v) \in Word /\ Magnitude(v) \in Vector16 /\ p \in Vector16
    BY <1>2, <1>3, ConversionsTyped
  <2>2. PacketUid \in Uid /\ Myadress \in Address
    BY DeadReckoningAssumption
  <2> HIDE DEF h
  <2> QED
    BY <1>4, <1>6, <2>1, <2>2 DEF MyprotocolHeader
<1>10. DeserializeReport(SerializeReport(h)) = h
  BY <1>9, ReportRoundTrip
<1>11. EntryOfReport(h) = e
  <2>1. GetRightVelocity(Magnitude(v), SetRightVelocity(v)) = v
    BY <1>3, VelocitySurvives
  <2>2. EntryOfReport(h) =
          [adress |-> Myadress, timestamp |-> t, pos |-> p,
           vel |-> Shorts(GetRightVelocity(Magnitude(v), SetRightVelocity(v)))]
    BY <1>6 DEF EntryOfReport
  <2> QED
    BY <1>3, <2>1, <2>2
<1> HIDE DEF h
<1>12. heard' = Update(heard, e)
  BY <1>8, <1>10, <1>11
<1>13. /\ \A r \in heard : r.adress = Myadress
       /\ \A r \in m_positionTable : r.adress = Loopback
  BY DEF KnownInv, Known, LastReport
<1>14. heard' = {e} /\ m_positionTable' = {[e EXCEPT !.adress = Loopback]}
  <2>1. Update(heard, e) = {e}
    BY <1>13 DEF Update
  <2>2. OwnEntry = [e EXCEPT !.adress = Loopback]
    BY <1>7
  <2>3. Update(m_positionTable, OwnEntry) = {OwnEntry}
    BY <1>7, <1>13 DEF Update
  <2> QED
    BY <1>8, <1>12, <2>1, <2>2, <2>3
<1>15. LastReport' = e
  BY <1>5 DEF LastReport, Metres, MetresPerSecond, p, v
<1> QED
  BY <1>1, <1>4, <1>5, <1>14, <1>15 DEF Known

LEMMA OriginInArea == InArea(Origin)
<1>1. \A a \in Axes : Unit * Area[a] \in Nat /\ Origin[a] = 0
  BY Parameters, OriginTyped
<1> QED
  BY <1>1 DEF InArea

LEMMA InitKnown == Init => KnownInv
<1> SUFFICES ASSUME Init PROVE KnownInv
  OBVIOUS
<1>1. /\ now = 0 /\ checkTimer = 0 /\ pos \in Starts /\ vel \in Velocities /\ turned = FALSE
      /\ m_lastSendTime = 0 /\ m_lastSendPos = Origin /\ m_lastSendVelocity = Origin
      /\ heard = {}
      /\ m_positionTable =
           {[adress |-> Loopback, timestamp |-> 0, pos |-> Origin, vel |-> Origin]}
  BY DEF Init
<1>2. pos \in Vector /\ InArea(pos)
  BY <1>1, Parameters
<1>3. 0 \in Word
  BY WordsAreNaturals
<1>4. Horizon \in Nat
  BY Parameters
<1>5. Moving
  <2>1. m_lastSendPos \in Vector /\ InArea(m_lastSendPos)
    BY <1>1, OriginTyped, OriginInArea, Zenon
  <2>2. now \in Nat /\ now <= Horizon /\ checkTimer \in Nat
    BY <1>1, <1>4
  <2>3. IF checkTimer = 0 THEN now = 0 ELSE now <= checkTimer
    BY <1>1
  <2>4. m_lastSendTime \in Word /\ turned \in BOOLEAN
    BY <1>1, <1>3
  <2> QED
    BY <1>1, <1>2, <2>1, <2>2, <2>3, <2>4 DEF Moving
<1>6. Known
  BY <1>1 DEF Known
<1> QED
  BY <1>5, <1>6 DEF KnownInv

\* Time passes, and a step of the node's motion.
LEMMA TickKnown == KnownInv /\ Tick => KnownInv'
<1> SUFFICES ASSUME KnownInv, Tick PROVE KnownInv'
  OBVIOUS
<1>1. /\ now < checkTimer /\ now < Horizon /\ now' = now + 1
      /\ pos' = Moved(pos, vel, 1) /\ InArea(pos') /\ vel' \in Velocities
      /\ turned' = (turned \/ vel' # vel)
      /\ UNCHANGED <<m_lastSendTime, m_lastSendPos, m_lastSendVelocity, checkTimer,
                     m_positionTable, heard>>
  BY DEF Tick
<1>2. Moving
  BY DEF KnownInv
<1>3. pos' \in Vector
  <2>1. vel \in Vector /\ pos \in Vector
    BY <1>2, Parameters DEF Moving
  <2> QED
    BY <1>1, <2>1, MovedTyped
<1>4. now' \in Nat /\ now' <= Horizon /\ now' <= checkTimer /\ checkTimer # 0
  BY <1>1, <1>2, Parameters DEF Moving
<1>5. InArea(m_lastSendPos)'
  BY <1>1, <1>2 DEF Moving, InArea
<1>6. turned' \in BOOLEAN
  BY <1>1
<1>7. Moving'
  BY <1>1, <1>2, <1>3, <1>4, <1>5, <1>6 DEF Moving, InArea
<1>8. Known'
  <2>1. LastReport' = LastReport
    BY <1>1 DEF LastReport
  <2> QED
    BY <1>1, <2>1 DEF KnownInv, Known
<1> QED
  BY <1>7, <1>8 DEF KnownInv

\* Whatever sends a report sets the timer to a later time.
LEMMA SendKnown ==
  ASSUME KnownInv, SendUpdate, UNCHANGED motion,
         checkTimer' \in Nat, checkTimer' # 0, now <= checkTimer'
  PROVE  KnownInv'
<1>1. Known' /\ m_lastSendTime' \in Word
  BY SendUpdateKnown
<1>2. now' = now /\ pos' = pos /\ vel' = vel
  BY DEF motion
<1>3. m_lastSendPos' = pos /\ turned' = FALSE
  BY DEF SendUpdate
<1>4. Moving
  BY DEF KnownInv
<1>5. InArea(pos)' /\ InArea(m_lastSendPos)'
  BY <1>2, <1>3, <1>4 DEF Moving, InArea
<1>6. Moving'
  BY <1>1, <1>2, <1>3, <1>4, <1>5 DEF Moving
<1> QED
  BY <1>1, <1>6 DEF KnownInv

LEMMA TimersTyped ==
  ASSUME now \in Nat
  PROVE  /\ \A k \in Second .. 2 * Second : k \in Nat /\ k # 0 /\ k >= 0 /\ k - 0 <= 2 * Second
         /\ \A k \in now + Second .. now + Second + CheckJitter :
              /\ k \in Nat /\ k # 0 /\ now < k /\ now <= k
              /\ k - now \in Nat /\ k - now <= Second + CheckJitter
              /\ CheckJitter <= Second => k - now <= 2 * Second
<1>1. Second \in Nat /\ Second >= 1 /\ CheckJitter \in Nat
  BY Parameters
<1> QED
  BY <1>1

LEMMA StartKnown == KnownInv /\ Start => KnownInv'
<1> SUFFICES ASSUME KnownInv, Start PROVE KnownInv'
  OBVIOUS
<1>1. checkTimer = 0 /\ SendUpdate /\ checkTimer' \in Second .. 2 * Second /\ UNCHANGED motion
  BY DEF Start
<1>2. now = 0 /\ now \in Nat
  BY <1>1 DEF KnownInv, Moving
<1>3. checkTimer' \in Nat /\ checkTimer' # 0 /\ now <= checkTimer'
  BY <1>1, <1>2, TimersTyped
<1> QED
  BY <1>1, <1>3, SendKnown

LEMMA CheckKnown == KnownInv /\ CheckChange => KnownInv'
<1> SUFFICES ASSUME KnownInv, CheckChange PROVE KnownInv'
  OBVIOUS
<1>1. /\ now = checkTimer /\ checkTimer # 0 /\ UNCHANGED motion
      /\ checkTimer' \in now + Second .. now + Second + CheckJitter
      /\ \/ SendUpdate
         \/ UNCHANGED <<m_lastSendTime, m_lastSendPos, m_lastSendVelocity,
                        m_positionTable, heard, turned>>
  BY DEF CheckChange
<1>2. Moving /\ now \in Nat
  BY DEF KnownInv, Moving
<1>3. checkTimer' \in Nat /\ checkTimer' # 0 /\ now < checkTimer'
  BY <1>1, <1>2, TimersTyped
<1>4. CASE SendUpdate
  <2>1. now <= checkTimer'
    BY <1>2, <1>3
  <2> QED
    BY <1>1, <1>3, <1>4, <2>1, SendKnown
<1>5. CASE UNCHANGED <<m_lastSendTime, m_lastSendPos, m_lastSendVelocity,
                       m_positionTable, heard, turned>>
  <2>1. now' = now /\ pos' = pos /\ vel' = vel
    BY <1>1 DEF motion
  <2>2. InArea(pos)' /\ InArea(m_lastSendPos)'
    BY <1>2, <1>5, <2>1 DEF Moving, InArea
  <2>3. Moving'
    BY <1>2, <1>3, <1>5, <2>1, <2>2 DEF Moving
  <2>4. LastReport' = LastReport
    BY <1>5 DEF LastReport
  <2>5. Known'
    BY <1>1, <1>3, <1>5, <2>4 DEF KnownInv, Known
  <2> QED
    BY <2>3, <2>5 DEF KnownInv
<1> QED
  BY <1>1, <1>4, <1>5

LEMMA StutterKnown == KnownInv /\ UNCHANGED vars => KnownInv'
BY DEF KnownInv, Moving, Known, InArea, LastReport, Metres, MetresPerSecond, vars, motion

\* The invariant that ties the tables of both to what was sent.
THEOREM KnownInvariant == Spec => []KnownInv
<1>1. KnownInv /\ [Next]_vars => KnownInv'
  BY StartKnown, CheckKnown, TickKnown, StutterKnown DEF Next
<1> QED
  BY InitKnown, <1>1, PTL DEF Spec

LEMMA TypesKnown == KnownInv => TypeOK
<1> SUFFICES ASSUME KnownInv PROVE TypeOK
  OBVIOUS
<1> DEFINE Fits(r) == r \in Entry /\ \A a \in Axes : Int16(r.vel[a]) = r.vel[a]
<1>1. Moving /\ Known
  BY DEF KnownInv
<1>2. Loopback \in Address /\ Myadress \in Address
  BY DeadReckoningAssumption
<1>3. ASSUME NEW v \in Vector, Shorts(v) = v PROVE \A a \in Axes : Int16(v[a]) = v[a]
  <2>1. \A a \in Axes : Shorts(v)[a] = Int16(v[a])
    BY DEF Shorts
  <2> QED
    BY <1>3, <2>1
<1>4. \A r \in heard \cup m_positionTable : Fits(r)
  <2>1. CASE checkTimer = 0
    <3> DEFINE e == [adress |-> Loopback, timestamp |-> 0, pos |-> Origin, vel |-> Origin]
    <3>1. 0 \in Word /\ Int16(0) = 0
      BY WordsAreNaturals, SmallIntegers
    <3>2. Origin \in Vector16
      BY <3>1 DEF Origin, Axes, Vector16
    <3>3. e \in Entry
      BY <1>2, <3>1, <3>2, OriginTyped DEF Entry
    <3>4. \A a \in Axes : Int16(e.vel[a]) = e.vel[a]
      BY <3>1, OriginTyped
    <3>5. heard = {} /\ m_positionTable = {e}
      BY <1>1, <2>1 DEF Known
    <3> HIDE DEF e
    <3> QED
      BY <3>3, <3>4, <3>5
  <2>2. CASE checkTimer # 0
    <3> DEFINE p == Metres(m_lastSendPos)
               v == MetresPerSecond(m_lastSendVelocity)
    <3>1. m_lastSendVelocity \in Velocities /\ m_lastSendTime \in Word
      BY <1>1, <2>2 DEF Known, Moving
    <3>2. p \in Vector16
      BY <1>1, InAreaTruncates DEF Moving
    <3>3. v \in Vector /\ Shorts(v) = v
      BY <3>1, VelocityTruncates
    <3> HIDE DEF p, v
    <3>4. LastReport = [adress |-> Myadress, timestamp |-> m_lastSendTime, pos |-> p, vel |-> v]
      BY DEF LastReport, p, v
    <3>5. Fits(LastReport) /\ Fits([LastReport EXCEPT !.adress = Loopback])
      BY <1>2, <1>3, <3>1, <3>2, <3>3, <3>4 DEF Entry
    <3> QED
      BY <1>1, <2>2, <3>5 DEF Known
  <2> QED
    BY <2>1, <2>2
<1>5. m_lastSendVelocity \in Velocities \cup {Origin}
  BY <1>1 DEF Known
<1> QED
  BY <1>1, <1>4, <1>5 DEF TypeOK, Moving

\* Every variable keeps its type, the 16-bit fields of the header included.
THEOREM ReckoningTypes == Spec => []TypeOK
BY KnownInvariant, TypesKnown, PTL

\* For every motion in an area below 2^15 metres: the entry others have of a node is
\* the one it keeps of itself (SendUpdate, lines 838-916, and RecvMyprotocol).
THEOREM AllAgree == Spec => []EveryoneAgrees
<1>1. KnownInv => EveryoneAgrees
  <2> SUFFICES ASSUME KnownInv PROVE EveryoneAgrees
    OBVIOUS
  <2>1. [[LastReport EXCEPT !.adress = Loopback] EXCEPT !.adress = Myadress] = LastReport
    <3> DEFINE t == m_lastSendTime
               p == Metres(m_lastSendPos)
               v == MetresPerSecond(m_lastSendVelocity)
    <3>1. LastReport = [adress |-> Myadress, timestamp |-> t, pos |-> p, vel |-> v]
      BY DEF LastReport
    <3> HIDE DEF t, p, v
    <3>2. [LastReport EXCEPT !.adress = Loopback]
            = [adress |-> Loopback, timestamp |-> t, pos |-> p, vel |-> v]
      BY <3>1
    <3>3. [[adress |-> Loopback, timestamp |-> t, pos |-> p, vel |-> v] EXCEPT !.adress = Myadress]
            = [adress |-> Myadress, timestamp |-> t, pos |-> p, vel |-> v]
      OBVIOUS
    <3> QED
      BY <3>1, <3>2, <3>3, Zenon
  <2>2. CASE checkTimer = 0
    BY <2>2 DEF KnownInv, Known, EveryoneAgrees
  <2>3. CASE checkTimer # 0
    <3>1. heard = {LastReport} /\ m_positionTable = {[LastReport EXCEPT !.adress = Loopback]}
      BY <2>3 DEF KnownInv, Known
    <3> HIDE DEF LastReport
    <3> QED
      BY <2>1, <2>3, <3>1 DEF EveryoneAgrees
  <2> QED
    BY <2>2, <2>3
<1> QED
  BY <1>1, KnownInvariant, PTL

------------------------------------------------------------------------------
(* Silence. *)

\* Timestamps do not wrap in the time modelled.
BeforeWrap == Horizon < 65536 * Second

LEMMA SecondsExact ==
  ASSUME NEW k \in Nat
  PROVE  /\ Seconds(k) \in Nat
         /\ Second * Seconds(k) <= k /\ k < Second * Seconds(k) + Second
         /\ BeforeWrap /\ k <= Horizon => Seconds(k) < 65536
<1> DEFINE u == Second
           q == k \div u
<1>1. u \in Nat \ {0} /\ Horizon \in Nat
  BY Parameters
<1>2. q \in Nat /\ u * q <= k /\ k < u * q + u
  BY <1>1
<1>3. ASSUME BeforeWrap, k <= Horizon, 65536 <= q PROVE FALSE
  <2>1. k < 65536 * u
    BY <1>1, <1>3 DEF BeforeWrap
  <2> HIDE DEF u, q
  <2>2. u * 65536 <= u * q
    BY <1>1, <1>2, <1>3
  <2> QED
    BY <1>1, <1>2, <2>1, <2>2
<1> HIDE DEF q
<1>4. BeforeWrap /\ k <= Horizon => q < 65536
  BY <1>2, <1>3
<1> QED
  BY <1>2, <1>4 DEF q, Seconds

\* Later ticks are in later seconds.
LEMMA SecondsGrow ==
  ASSUME NEW j \in Nat, NEW k \in Nat, NEW m \in Nat, j <= k, k <= j + m * Second
  PROVE  Seconds(j) <= Seconds(k) /\ Seconds(k) <= Seconds(j) + m
<1> DEFINE u == Second
           q == Seconds(j)
           r == Seconds(k)
<1>1. u \in Nat \ {0}
  BY Parameters
<1>2. /\ q \in Nat /\ u * q <= j /\ j < u * q + u
      /\ r \in Nat /\ u * r <= k /\ k < u * r + u
  BY SecondsExact
<1> HIDE DEF u, q, r
<1>3. ASSUME r + 1 <= q PROVE FALSE
  <2>1. u * (r + 1) <= u * q /\ u * (r + 1) = u * r + u
    BY <1>1, <1>2, <1>3
  <2> QED
    BY <1>1, <1>2, <2>1
<1>4. ASSUME q + m + 1 <= r PROVE FALSE
  <2>1. u * (q + m + 1) <= u * r /\ u * (q + m + 1) = u * q + u * m + u
    BY <1>1, <1>2, <1>4
  <2>2. k <= j + u * m
    BY <1>1 DEF u
  <2> QED
    BY <1>1, <1>2, <2>1, <2>2
<1>5. q <= r /\ r <= q + m
  BY <1>2, <1>3, <1>4
<1> QED
  BY <1>5 DEF q, r

\* A node that has not turned is where its last report, at tick s, takes it.
Straight ==
  checkTimer # 0 /\ ~turned =>
    \E s \in Nat : /\ s <= now /\ Seconds(s) = m_lastSendTime
                   /\ vel = m_lastSendVelocity
                   /\ pos = Moved(m_lastSendPos, m_lastSendVelocity, now - s)

LEMMA SendStraight ==
  ASSUME BeforeWrap, KnownInv, SendUpdate, UNCHANGED motion
  PROVE  Straight'
<1>1. now \in Nat /\ now <= Horizon /\ pos \in Vector /\ vel \in Vector
  BY Parameters DEF KnownInv, Moving
<1>2. Uint16(Seconds(now)) = Seconds(now)
  <2>1. Seconds(now) \in Nat /\ Seconds(now) < 65536
    BY <1>1, SecondsExact
  <2> QED
    BY <2>1, WidthsTyped
<1>3. /\ now' = now /\ pos' = pos /\ vel' = vel
      /\ m_lastSendTime' = Seconds(now) /\ m_lastSendPos' = pos /\ m_lastSendVelocity' = vel
  BY <1>2 DEF SendUpdate, motion
<1>4. pos = Moved(pos, vel, now - now)
  <2>1. now - now = 0
    BY <1>1
  <2>2. \A a \in Axes : pos[a] + 0 * vel[a] = pos[a]
    BY <1>1 DEF Vector
  <2>3. pos = [a \in Axes |-> pos[a]]
    BY <1>1 DEF Vector
  <2> QED
    BY <2>1, <2>2, <2>3 DEF Moved
<1>5. /\ now' <= now' /\ Seconds(now') = m_lastSendTime' /\ vel' = m_lastSendVelocity'
      /\ pos' = Moved(m_lastSendPos', m_lastSendVelocity', now' - now')
  BY <1>1, <1>3, <1>4
<1> QED
  BY <1>1, <1>3, <1>5 DEF Straight

LEMMA TickStraight == KnownInv /\ Straight /\ Tick => Straight'
<1> SUFFICES ASSUME KnownInv, Straight, Tick, ~turned' PROVE Straight'
  BY DEF Straight
<1>1. /\ checkTimer # 0 /\ now' = now + 1 /\ pos' = Moved(pos, vel, 1)
      /\ turned' = (turned \/ vel' # vel)
      /\ UNCHANGED <<m_lastSendTime, m_lastSendPos, m_lastSendVelocity, checkTimer>>
  BY DEF Tick, KnownInv, Moving
<1>2. ~turned /\ vel' = vel
  BY <1>1 DEF KnownInv, Moving
<1>3. PICK s \in Nat : /\ s <= now /\ Seconds(s) = m_lastSendTime
                       /\ vel = m_lastSendVelocity
                       /\ pos = Moved(m_lastSendPos, m_lastSendVelocity, now - s)
  BY <1>1, <1>2 DEF Straight
<1>4. now \in Nat /\ vel \in Vector /\ m_lastSendPos \in Vector
  BY Parameters DEF KnownInv, Moving
<1>5. pos' = Moved(m_lastSendPos, vel, now + 1 - s)
  <2> DEFINE p == m_lastSendPos
             k == now - s
  <2>1. k \in Nat /\ now + 1 - s = k + 1
    BY <1>3, <1>4
  <2>2. p \in Vector /\ pos = Moved(p, vel, k)
    BY <1>3, <1>4
  <2> HIDE DEF p, k
  <2>3. \A a \in Axes : (p[a] + k * vel[a]) + 1 * vel[a] = p[a] + (k + 1) * vel[a]
    BY <1>4, <2>1, <2>2 DEF Vector
  <2>4. Moved(pos, vel, 1) = Moved(p, vel, k + 1)
    BY <2>2, <2>3 DEF Moved
  <2> QED
    BY <1>1, <2>1, <2>4 DEF p
<1>6. s <= now' /\ now' - s = now + 1 - s
  BY <1>1, <1>3, <1>4
<1>7. pos' = Moved(m_lastSendPos', m_lastSendVelocity', now' - s)
  BY <1>1, <1>3, <1>5, <1>6
<1>8. Seconds(s) = m_lastSendTime' /\ vel' = m_lastSendVelocity'
  BY <1>1, <1>2, <1>3
<1> QED
  BY <1>6, <1>7, <1>8 DEF Straight

LEMMA StraightInvariant == BeforeWrap => (Spec => [](KnownInv /\ Straight))
<1> SUFFICES ASSUME BeforeWrap PROVE Spec => [](KnownInv /\ Straight)
  OBVIOUS
<1>1. Init => Straight
  BY DEF Init, Straight
<1>2. KnownInv /\ Straight /\ [Next]_vars => Straight'
  <2> SUFFICES ASSUME KnownInv, Straight, [Next]_vars PROVE Straight'
    OBVIOUS
  <2>1. CASE Start
    BY <2>1, SendStraight DEF Start
  <2>2. CASE CheckChange
    <3>1. CASE SendUpdate
      BY <2>2, <3>1, SendStraight DEF CheckChange
    <3>2. CASE ~SendUpdate
      <4>1. /\ checkTimer # 0
            /\ UNCHANGED <<now, pos, vel, m_lastSendTime, m_lastSendPos, m_lastSendVelocity,
                           turned>>
        BY <2>2, <3>2 DEF CheckChange, motion
      <4> QED
        BY <4>1 DEF Straight
    <3> QED
      BY <3>1, <3>2
  <2>3. CASE Tick
    BY <2>3, TickStraight
  <2>4. CASE UNCHANGED vars
    BY <2>4 DEF vars, Straight
  <2> QED
    BY <2>1, <2>2, <2>3, <2>4 DEF Next
<1> QED
  BY <1>1, <1>2, KnownInvariant, PTL DEF Spec

LEMMA SquaresGrow ==
  ASSUME NEW k \in Int, NEW n \in Nat, -n <= k, k <= n, NEW w \in Int
  PROVE  (k * w) * (k * w) <= (n * w) * (n * w)
<1> DEFINE x == w * w
<1>1. x \in Nat
  BY SMTT(20)
<1>2. k * k \in Nat /\ n * n \in Nat /\ k * k <= n * n
  <2>1. CASE k >= 0
    <3>1. k * k <= n * k /\ n * k <= n * n
      BY <2>1
    <3> QED
      BY <2>1, <3>1
  <2>2. CASE k < 0
    <3> DEFINE j == -k
    <3>1. j \in Nat /\ j <= n /\ k * k = j * j
      BY <2>2
    <3> HIDE DEF j
    <3>2. j * j <= n * j /\ n * j <= n * n
      BY <3>1
    <3> QED
      BY <3>1, <3>2
  <2> QED
    BY <2>1, <2>2
<1>3. (k * w) * (k * w) = (k * k) * x /\ (n * w) * (n * w) = (n * n) * x
  BY SMTT(20)
<1> HIDE DEF x
<1>4. (k * k) * x <= (n * n) * x
  <2> DEFINE b == k * k
             c == n * n
  <2>1. b \in Nat /\ c \in Nat /\ b <= c
    BY <1>2
  <2> HIDE DEF b, c
  <2>2. b * x <= c * x
    BY <1>1, <2>1, SMTT(20)
  <2> QED
    BY <2>2 DEF b, c
<1> QED
  BY <1>3, <1>4

\* A node that has not turned has not departed.
LEMMA StraightStays ==
  ASSUME BeforeWrap, KnownInv, Straight, checkTimer # 0, ~turned, Slow
  PROVE  ~Departed(Uint16(Seconds(now) - m_lastSendTime))
<1>1. PICK s \in Nat : /\ s <= now /\ Seconds(s) = m_lastSendTime
                       /\ vel = m_lastSendVelocity
                       /\ pos = Moved(m_lastSendPos, m_lastSendVelocity, now - s)
  BY DEF Straight
<1>2. /\ now \in Nat /\ now <= Horizon /\ vel \in Vector /\ m_lastSendPos \in Vector
      /\ Second \in Nat \ {0} /\ Threshold \in Nat
  BY Parameters DEF KnownInv, Moving
<1> DEFINE p == m_lastSendPos
           t == Seconds(now) - Seconds(s)
           k == now - s - Second * t
           far == Moved(p, vel, Second * (t + 1))
           next == Moved(pos, vel, Second)
<1>3. /\ Seconds(now) \in Nat /\ Seconds(now) < 65536 /\ Seconds(s) \in Nat
      /\ Second * Seconds(now) <= now /\ now < Second * Seconds(now) + Second
      /\ Second * Seconds(s) <= s /\ s < Second * Seconds(s) + Second
  BY <1>1, <1>2, SecondsExact
<1>4. t \in Nat /\ Uint16(t) = t /\ k \in Int /\ -Second <= k /\ k <= Second
  <2> DEFINE q == Seconds(now)
             r == Seconds(s)
             u == Second
  <2>1. /\ q \in Nat /\ q < 65536 /\ r \in Nat /\ u \in Nat \ {0}
        /\ u * q <= now /\ now < u * q + u /\ u * r <= s /\ s < u * r + u
    BY <1>2, <1>3
  <2>2. r <= q
    <3>1. now <= s + now * u
      <4>1. now <= now * u
        BY <1>2, <2>1
      <4> QED
        BY <1>1, <1>2, <2>1, <4>1
    <3> HIDE DEF u
    <3> QED
      BY <1>1, <1>2, <3>1, SecondsGrow DEF u
  <2> HIDE DEF q, r, u
  <2>3. q - r \in Nat /\ q - r < 65536
    BY <2>1, <2>2
  <2>4. u * (q - r) = u * q - u * r
    BY <2>1
  <2>5. -u <= now - s - u * (q - r) /\ now - s - u * (q - r) <= u
    BY <1>1, <1>2, <2>1, <2>4
  <2>6. t = q - r /\ k = now - s - u * (q - r)
    BY DEF q, r, u
  <2>7. Uint16(q - r) = q - r
    BY <2>3, WidthsTyped
  <2> HIDE DEF t, k
  <2> QED
    BY <1>1, <1>2, <2>1, <2>3, <2>4, <2>5, <2>6, <2>7 DEF u
<1>5. \A a \in Axes : next[a] - far[a] = k * vel[a]
  <2> TAKE a \in Axes
  <2>1. pos[a] = p[a] + (now - s) * vel[a]
    BY <1>1 DEF Moved
  <2>2. next[a] = pos[a] + Second * vel[a] /\ far[a] = p[a] + (Second * (t + 1)) * vel[a]
    BY DEF Moved
  <2> DEFINE x == vel[a]
             y == p[a]
             u == Second
             z == u * t
  <2>3. x \in Int /\ y \in Int /\ u \in Int /\ t \in Int /\ now \in Int /\ z \in Int
    BY <1>2, <1>4 DEF Vector
  <2>4. next[a] = (y + (now - s) * x) + u * x /\ far[a] = y + (u * (t + 1)) * x /\ k = now - s - z
    BY <2>1, <2>2
  <2>5. u * (t + 1) = z + u
    BY <2>3
  <2> HIDE DEF x, y, u, z, t, next, far, k
  <2>6. (now - s) * x = now * x - s * x /\ (z + u) * x = z * x + u * x
    BY <2>3, SMTT(20)
  <2>7. k * x = now * x - s * x - z * x
    BY <2>3, <2>4, SMTT(20)
  <2>8. now * x \in Int /\ s * x \in Int /\ z * x \in Int /\ u * x \in Int
    BY <2>3
  <2>9. next[a] = y + (now * x - s * x) + u * x /\ far[a] = y + (z * x + u * x)
    BY <2>4, <2>5, <2>6
  <2>10. next[a] - far[a] = k * x
    BY <2>3, <2>7, <2>8, <2>9
  <2> QED
    BY <2>10 DEF x
<1>6. \A a \in Axes : (next[a] - far[a]) * (next[a] - far[a])
                        <= (Second * vel[a]) * (Second * vel[a])
  <2> HIDE DEF k, next, far
  <2> QED
    BY <1>2, <1>4, <1>5, SquaresGrow DEF Vector
<1>7. Distance2(next, far) <= Distance2(Moved(Origin, vel, Second), Origin)
  <2> DEFINE g(a) == (next[a] - far[a]) * (next[a] - far[a])
             h(a) == (Second * vel[a]) * (Second * vel[a])
             m == Moved(Origin, vel, Second)
  <2>1. \A a \in Axes : g(a) \in Int /\ h(a) \in Int
    <3>1. \A a \in Axes : next[a] - far[a] \in Int /\ Second * vel[a] \in Int
      BY <1>2, <1>4, <1>5 DEF Vector
    <3> QED
      BY <3>1
  <2>2. \A a \in Axes : m[a] - Origin[a] = Second * vel[a]
    <3>1. \A a \in Axes : m[a] = Origin[a] + Second * vel[a] /\ vel[a] \in Int
      BY <1>2 DEF Moved, Vector
    <3> QED
      BY <1>2, <3>1, OriginTyped
  <2>3. 1 \in Axes /\ 2 \in Axes /\ 3 \in Axes
    BY DEF Axes
  <2>4. Distance2(next, far) = g(1) + g(2) + g(3)
    BY DEF Distance2
  <2>5. Distance2(m, Origin) = h(1) + h(2) + h(3)
    BY <2>2, <2>3 DEF Distance2
  <2>6. g(1) <= h(1) /\ g(2) <= h(2) /\ g(3) <= h(3)
    BY <1>6, <2>3
  <2> HIDE DEF g, h, m
  <2> QED
    BY <2>1, <2>3, <2>4, <2>5, <2>6 DEF m
<1>8. /\ Distance2(next, far) \in Int /\ Threshold * Threshold \in Int
      /\ Distance2(next, far) <= Threshold * Threshold
  <2>1. Distance2(Moved(Origin, vel, Second), Origin) \in Int /\ Distance2(next, far) \in Int
    <3>1. Moved(Origin, vel, Second) \in Vector /\ next \in Vector /\ far \in Vector
      <4>1. pos \in Vector
        BY DEF KnownInv, Moving
      <4>2. Second * (t + 1) \in Int
        BY <1>2, <1>4
      <4> QED
        BY <1>2, <4>1, <4>2, MovedTyped, OriginTyped
    <3> HIDE DEF next, far
    <3>2. \A v, w \in Vector : Distance2(v, w) \in Int
      <4> TAKE v, w \in Vector
      <4>1. \A a \in {1, 2, 3} : v[a] \in Int /\ w[a] \in Int
        BY DEF Vector, Axes
      <4>2. \A i \in Int : i * i \in Int
        OBVIOUS
      <4> QED
        BY <4>1, <4>2 DEF Distance2
    <3> QED
      BY <3>1, <3>2, OriginTyped
  <2>2. Threshold * Threshold \in Int
    BY <1>2
  <2> QED
    BY <1>7, <2>1, <2>2 DEF Slow
<1>9. Uint16(Seconds(now) - m_lastSendTime) = t
  BY <1>1, <1>4
<1>10. Departed(t) <=> Distance2(next, far) > Threshold * Threshold
  BY <1>1 DEF Departed
<1> HIDE DEF next, far, t
<1> QED
  BY <1>8, <1>9, <1>10

\* For every speed, threshold and silence, until timestamps wrap: a node that goes on
\* as it last reported sends nothing before its time is up (lines 818-834).
THEOREM SteadyNodesAreSilent == BeforeWrap => (Spec => SteadyIsSilent)
<1> SUFFICES ASSUME BeforeWrap PROVE Spec => SteadyIsSilent
  OBVIOUS
<1>1. ASSUME KnownInv, Straight, CheckChange, ~turned, Slow, ~Overdue
      PROVE  UNCHANGED m_lastSendTime
  <2>1. checkTimer # 0
    BY <1>1 DEF CheckChange
  <2>2. ~Departed(Uint16(Seconds(now) - m_lastSendTime))
    BY <1>1, <2>1, StraightStays
  <2> QED
    BY <1>1, <2>2 DEF CheckChange
<1>2. KnownInv /\ Straight /\ [Next]_vars
        => [CheckChange /\ ~turned /\ Slow => Overdue \/ UNCHANGED m_lastSendTime]_vars
  BY <1>1
<1> QED
  BY <1>2, StraightInvariant, PTL DEF Spec, SteadyIsSilent

------------------------------------------------------------------------------
(* Near. *)

\* Checks come at most two seconds apart, nobody can depart from a fresh report within
\* a second, and no velocity takes a position out of 16 bits in one silence.
Modest ==
  /\ CheckJitter <= Second
  /\ Second * Speed <= Threshold
  /\ \A a \in Axes : Area[a] + (MaxIntervalTime + 2) * ((Second * Speed) \div Unit) < 32768

\* How far the node may be from where the last report takes it, before a check.
Slack == Threshold + (2 * Second + CheckJitter) * Speed

Within(x, s) == -s <= x /\ x <= s

\* Where others have the node a second after second q.
Ahead(q) == Moved(m_lastSendPos, m_lastSendVelocity, Second * (q - m_lastSendTime + 1))

\* Since the last check, in second q, the node may have gone so far, and will by the
\* next check not have gone too far.
Tracked ==
  checkTimer # 0 =>
    \E q \in Nat :
      /\ m_lastSendTime <= q /\ q - m_lastSendTime <= MaxIntervalTime
      /\ q <= Seconds(now) /\ Seconds(checkTimer) <= q + 2
      /\ \A a \in Axes : Within(pos[a] - Ahead(q)[a], Slack - (checkTimer - now) * Speed)

\* The slack that is left when the timer has just been set.
LEMMA SlackLeft ==
  ASSUME Modest, NEW g \in Nat, g <= Second + CheckJitter
  PROVE  /\ Slack - g * Speed \in Int
         /\ Threshold + Second * Speed <= Slack - g * Speed
<1> DEFINE u == Second * Speed
           j == CheckJitter * Speed
           x == g * Speed
<1>1. Second \in Nat /\ Speed \in Nat /\ CheckJitter \in Nat /\ Threshold \in Nat
  BY Parameters
<1>2. u \in Nat /\ j \in Nat /\ x \in Nat
  BY <1>1
<1>3. x <= u + j
  <2>1. g * Speed <= (Second + CheckJitter) * Speed
    BY <1>1
  <2>2. (Second + CheckJitter) * Speed = Second * Speed + CheckJitter * Speed
    BY <1>1
  <2> QED
    BY <2>1, <2>2
<1>4. Slack = Threshold + 2 * u + j
  <2>1. (2 * Second + CheckJitter) * Speed = 2 * (Second * Speed) + CheckJitter * Speed
    BY <1>1
  <2> QED
    BY <1>1, <2>1 DEF Slack
<1> HIDE DEF u, j, x
<1>5. Slack - x \in Int /\ Threshold + u <= Slack - x
  BY <1>1, <1>2, <1>3, <1>4
<1> QED
  BY <1>5 DEF u, x

LEMMA SlackAtStart ==
  ASSUME Modest, NEW g \in Nat, g <= 2 * Second
  PROVE  /\ Slack - g * Speed \in Int
         /\ Second * Speed <= Slack - g * Speed
<1> DEFINE u == Second * Speed
           j == CheckJitter * Speed
           x == g * Speed
<1>1. Second \in Nat /\ Speed \in Nat /\ CheckJitter \in Nat /\ Threshold \in Nat
  BY Parameters
<1>2. u \in Nat /\ j \in Nat /\ x \in Nat /\ u <= Threshold
  BY <1>1 DEF Modest
<1>3. x <= 2 * u
  <2>1. g * Speed <= (2 * Second) * Speed
    BY <1>1
  <2>2. (2 * Second) * Speed = 2 * (Second * Speed)
    BY <1>1
  <2> QED
    BY <2>1, <2>2
<1>4. Slack = Threshold + 2 * u + j
  <2>1. (2 * Second + CheckJitter) * Speed = 2 * (Second * Speed) + CheckJitter * Speed
    BY <1>1
  <2> QED
    BY <1>1, <2>1 DEF Slack
<1> HIDE DEF u, j, x
<1>5. Slack - x \in Int /\ u <= Slack - x
  BY <1>1, <1>2, <1>3, <1>4
<1> QED
  BY <1>5 DEF u, x

\* In a second a node goes no further than this.
LEMMA WayInSecond ==
  ASSUME NEW w \in Velocities, NEW a \in Axes
  PROVE  /\ w[a] \in Int /\ Second * w[a] \in Int /\ Within(Second * w[a], Second * Speed)
         /\ Within(w[a], Speed)
<1>1. w[a] \in Int /\ -Speed <= w[a] /\ w[a] <= Speed /\ Second \in Nat /\ Speed \in Nat
  BY Parameters
<1>2. Second * w[a] <= Second * Speed /\ Second * (-Speed) <= Second * w[a]
  BY <1>1
<1>3. Second * (-Speed) = -(Second * Speed)
  BY <1>1
<1> QED
  BY <1>1, <1>2, <1>3 DEF Within

LEMMA SendTracked ==
  ASSUME BeforeWrap, Modest, KnownInv, SendUpdate, UNCHANGED motion,
         checkTimer' \in Nat, now <= checkTimer',
         \/ checkTimer' - now <= Second + CheckJitter
         \/ checkTimer' - now <= 2 * Second
  PROVE  Tracked'
<1> DEFINE g == checkTimer' - now
<1>1. /\ now \in Nat /\ now <= Horizon /\ pos \in Vector /\ vel \in Velocities
      /\ vel \in Vector /\ MaxIntervalTime \in Nat /\ Second \in Nat /\ CheckJitter \in Nat
      /\ Speed \in Nat /\ Threshold \in Nat
  BY Parameters DEF KnownInv, Moving
<1>2. PICK q \in Nat : q = Seconds(now) /\ q < 65536 /\ Uint16(q) = q
  <2>1. Seconds(now) \in Nat /\ Seconds(now) < 65536
    BY <1>1, SecondsExact
  <2> QED
    BY <2>1, WidthsTyped
<1>3. /\ now' = now /\ pos' = pos /\ vel' = vel
      /\ m_lastSendTime' = q /\ m_lastSendPos' = pos /\ m_lastSendVelocity' = vel
  BY <1>2 DEF SendUpdate, motion
<1>4. g \in Nat /\ g <= 2 * Second
  <2>1. CheckJitter <= Second
    BY DEF Modest
  <2>2. \A c \in Nat : (now <= c /\ (c - now <= Second + CheckJitter \/ c - now <= 2 * Second))
          => c - now \in Nat /\ c - now <= 2 * Second
    BY <1>1, <2>1
  <2> QED
    BY <2>2
<1>5. Seconds(checkTimer') <= q + 2
  <2>1. \A c \in Nat : (now <= c /\ c - now <= 2 * Second) => Seconds(c) <= Seconds(now) + 2
    <3> TAKE c \in Nat
    <3> HAVE now <= c /\ c - now <= 2 * Second
    <3>1. c <= now + 2 * Second
      BY <1>1
    <3>2. \A m \in Nat : c <= now + m * Second => Seconds(c) <= Seconds(now) + m
      BY <1>1, SecondsGrow
    <3> QED
      BY <3>1, <3>2
  <2> QED
    BY <1>2, <1>4, <2>1
<1>6. Slack - g * Speed \in Int /\ Second * Speed <= Slack - g * Speed
  BY <1>4, SlackAtStart
<1>7. q - q + 1 = 1 /\ Second * (q - q + 1) = Second
  BY <1>1, <1>2
<1>8. Ahead(q)' = Moved(pos, vel, Second)
  <2>1. Ahead(q)' = Moved(pos, vel, Second * (q - q + 1))
    BY <1>3 DEF Ahead
  <2> QED
    BY <1>7, <2>1
<1>9. ASSUME NEW a \in Axes
      PROVE  Within(pos'[a] - Ahead(q)'[a], Slack - g * Speed)
  <2>1. pos'[a] = pos[a] /\ Ahead(q)'[a] = pos[a] + Second * vel[a] /\ pos[a] \in Int
    BY <1>1, <1>3, <1>8 DEF Moved, Vector
  <2> DEFINE x == Second * vel[a]
             y == Second * Speed
             z == Slack - g * Speed
  <2>2. x \in Int /\ Within(x, y)
    BY <1>1, WayInSecond
  <2>3. y \in Int /\ z \in Int /\ y <= z
    BY <1>1, <1>6
  <2>4. pos'[a] - Ahead(q)'[a] = -x
    BY <2>1, <2>2
  <2> HIDE DEF x, y, z
  <2>5. Within(-x, z)
    BY <2>2, <2>3 DEF Within
  <2> QED
    BY <2>4, <2>5 DEF z
<1>10. /\ m_lastSendTime' <= q /\ q - m_lastSendTime' <= MaxIntervalTime
       /\ q <= Seconds(now') /\ Seconds(checkTimer') <= q + 2
  BY <1>1, <1>2, <1>3, <1>5
<1>11. \A a \in Axes :
         Within(pos'[a] - Ahead(q)'[a], (Slack - (checkTimer - now) * Speed)')
  <2>1. (Slack - (checkTimer - now) * Speed)' = Slack - g * Speed
    BY <1>3 DEF Slack
  <2> QED
    BY <1>9, <2>1
<1> QED
  BY <1>10, <1>11, Zenon DEF Tracked

LEMMA TickTracked == KnownInv /\ Tracked /\ Tick => Tracked'
<1> SUFFICES ASSUME KnownInv, Tracked, Tick PROVE Tracked'
  OBVIOUS
<1>1. /\ checkTimer # 0 /\ now < checkTimer /\ now' = now + 1 /\ pos' = Moved(pos, vel, 1)
      /\ UNCHANGED <<m_lastSendTime, m_lastSendPos, m_lastSendVelocity, checkTimer>>
  BY DEF Tick, KnownInv, Moving
<1>2. PICK q \in Nat :
        /\ m_lastSendTime <= q /\ q - m_lastSendTime <= MaxIntervalTime
        /\ q <= Seconds(now) /\ Seconds(checkTimer) <= q + 2
        /\ \A a \in Axes : Within(pos[a] - Ahead(q)[a], Slack - (checkTimer - now) * Speed)
  BY <1>1 DEF Tracked
<1>3. /\ now \in Nat /\ checkTimer \in Nat /\ pos \in Vector /\ vel \in Velocities
      /\ Speed \in Nat /\ Second \in Nat \ {0} /\ CheckJitter \in Nat /\ Threshold \in Nat
      /\ m_lastSendPos \in Vector /\ m_lastSendVelocity \in Vector /\ m_lastSendTime \in Nat
  <2>1. m_lastSendVelocity \in Vector
    BY <1>1, Parameters DEF KnownInv, Known
  <2>2. m_lastSendTime \in Nat
    BY WordsAreNaturals DEF KnownInv, Moving
  <2> QED
    BY <2>1, <2>2, Parameters DEF KnownInv, Moving
<1>4. q <= Seconds(now')
  <2> DEFINE k == now + 1
  <2>1. k \in Nat /\ now <= k /\ k <= now + k * Second
    <3>1. k \in Nat /\ Second >= 1
      BY <1>3
    <3> HIDE DEF k
    <3>2. k * 1 <= k * Second
      BY <1>3, <3>1
    <3> QED
      BY <1>3, <3>1, <3>2 DEF k
  <2> HIDE DEF k
  <2>2. Seconds(now) <= Seconds(k)
    BY <1>3, <2>1, SecondsGrow
  <2>3. Seconds(now) \in Nat /\ Seconds(k) \in Nat
    BY <1>3, <2>1, SecondsExact
  <2>4. now' = k
    BY <1>1 DEF k
  <2> QED
    BY <1>2, <2>2, <2>3, <2>4
<1>5. Ahead(q)' = Ahead(q) /\ Ahead(q) \in Vector
  <2>1. Second * (q - m_lastSendTime + 1) \in Int
    BY <1>3
  <2> QED
    BY <1>1, <1>3, <2>1, MovedTyped DEF Ahead
<1>6. ASSUME NEW a \in Axes
      PROVE  Within(pos'[a] - Ahead(q)[a], Slack - (checkTimer - (now + 1)) * Speed)
  <2> DEFINE d == pos[a] - Ahead(q)[a]
             g == checkTimer - now
             z == g * Speed
  <2>1. pos'[a] = pos[a] + 1 * vel[a] /\ pos[a] \in Int /\ Ahead(q)[a] \in Int
    BY <1>1, <1>3, <1>5 DEF Moved, Vector
  <2>2. vel[a] \in Int /\ Within(vel[a], Speed)
    BY <1>3, WayInSecond
  <2>3. d \in Int /\ pos'[a] - Ahead(q)[a] = d + vel[a]
    BY <2>1, <2>2
  <2>4. g \in Int /\ z \in Int /\ Slack \in Int
    BY <1>3 DEF Slack
  <2>5. (checkTimer - (now + 1)) * Speed = z - Speed
    <3>1. checkTimer - (now + 1) = g - 1
      BY <1>3
    <3>2. (g - 1) * Speed = g * Speed - Speed
      BY <1>3, <2>4
    <3> QED
      BY <3>1, <3>2
  <2>6. Within(d, Slack - z)
    BY <1>2
  <2> HIDE DEF d, g, z
  <2> QED
    BY <1>3, <2>2, <2>3, <2>4, <2>5, <2>6 DEF Within
<1>7. /\ m_lastSendTime' <= q /\ q - m_lastSendTime' <= MaxIntervalTime
      /\ Seconds(checkTimer') <= q + 2
  BY <1>1, <1>2
<1>8. \A a \in Axes : Within(pos'[a] - Ahead(q)'[a], (Slack - (checkTimer - now) * Speed)')
  <2>1. (Slack - (checkTimer - now) * Speed)' = Slack - (checkTimer - (now + 1)) * Speed
    BY <1>1 DEF Slack
  <2> QED
    BY <1>5, <1>6, <2>1
<1> QED
  BY <1>4, <1>7, <1>8 DEF Tracked, Within

LEMMA DistanceInt == \A v, w \in Vector : Distance2(v, w) \in Int
<1> TAKE v, w \in Vector
<1>1. \A a \in {1, 2, 3} : v[a] \in Int /\ w[a] \in Int
  BY DEF Vector, Axes
<1>2. \A i \in Int : i * i \in Int
  OBVIOUS
<1> QED
  BY <1>1, <1>2 DEF Distance2

\* Who is within a distance is so on each axis.
LEMMA AxisWithin ==
  ASSUME NEW v \in Vector, NEW w \in Vector, NEW n \in Nat,
         Distance2(v, w) <= n * n, NEW a \in Axes
  PROVE  v[a] - w[a] \in Int /\ Within(v[a] - w[a], n)
<1> DEFINE d(b) == v[b] - w[b]
           s(b) == d(b) * d(b)
<1>1. \A b \in Axes : d(b) \in Int
  BY DEF Vector
<1>2. \A i \in Int : i * i \in Nat
  <2> TAKE i \in Int
  <2>1. CASE i >= 0
    BY <2>1
  <2>2. CASE i < 0
    <3>1. -i \in Nat /\ (-i) * (-i) = i * i
      BY <2>2
    <3> QED
      BY <3>1
  <2> QED
    BY <2>1, <2>2
<1>3. 1 \in Axes /\ 2 \in Axes /\ 3 \in Axes /\ (a = 1 \/ a = 2 \/ a = 3)
  BY DEF Axes
<1>4. s(1) + s(2) + s(3) <= n * n
  BY DEF Distance2
<1>5. \A b \in Axes : s(b) \in Nat
  BY <1>1, <1>2
<1> HIDE DEF s
<1>6. s(a) <= n * n
  <2>1. s(1) \in Nat /\ s(2) \in Nat /\ s(3) \in Nat /\ n * n \in Nat
    BY <1>3, <1>5
  <2>2. s(1) <= n * n /\ s(2) <= n * n /\ s(3) <= n * n
    BY <1>4, <2>1
  <2> QED
    BY <1>3, <2>2
<1>7. d(a) * d(a) <= n * n /\ d(a) \in Int
  BY <1>1, <1>6 DEF s
<1> HIDE DEF d
<1>8. ASSUME NEW i \in Nat, i * i <= n * n, n + 1 <= i PROVE FALSE
  <2>1. (n + 1) * i <= i * i /\ (n + 1) * (n + 1) <= (n + 1) * i
    BY <1>8
  <2>2. (n + 1) * (n + 1) = n * n + 2 * n + 1
    OBVIOUS
  <2>3. i * i \in Int /\ (n + 1) * i \in Int /\ n * n \in Int
    BY <1>8
  <2> QED
    BY <1>8, <2>1, <2>2, <2>3
<1>9. Within(d(a), n)
  <2>1. CASE d(a) >= 0
    <3>1. d(a) <= n
      BY <1>7, <1>8, <2>1
    <3> QED
      BY <1>7, <2>1, <3>1 DEF Within
  <2>2. CASE d(a) < 0
    <3> DEFINE i == -d(a)
    <3>1. i \in Nat /\ i * i = d(a) * d(a)
      BY <1>7, <2>2
    <3>2. d(a) = -i
      BY <1>7
    <3> HIDE DEF i
    <3>3. i <= n
      BY <1>7, <1>8, <3>1
    <3> QED
      BY <1>7, <2>2, <3>1, <3>2, <3>3 DEF Within
  <2> QED
    BY <1>7, <2>1, <2>2
<1> QED
  BY <1>7, <1>9 DEF d

\* A check that finds the node near enough.
LEMMA QuietTracked ==
  ASSUME BeforeWrap, Modest, KnownInv, Tracked, CheckChange,
         ~Departed(Uint16(Seconds(now) - m_lastSendTime)), ~Overdue,
         UNCHANGED <<m_lastSendTime, m_lastSendPos, m_lastSendVelocity>>
  PROVE  Tracked'
<1> DEFINE g == checkTimer' - now
           u == Second * Speed
           s == Slack - g * Speed
<1>1. /\ checkTimer # 0 /\ now' = now /\ pos' = pos /\ vel' = vel
      /\ checkTimer' \in now + Second .. now + Second + CheckJitter
  BY DEF CheckChange, motion
<1>2. /\ now \in Nat /\ now <= Horizon /\ pos \in Vector /\ vel \in Velocities
      /\ vel \in Vector /\ MaxIntervalTime \in Nat /\ Second \in Nat \ {0}
      /\ CheckJitter \in Nat /\ Speed \in Nat /\ Threshold \in Nat
      /\ m_lastSendPos \in Vector /\ m_lastSendVelocity \in Vector /\ m_lastSendTime \in Nat
  <2>1. m_lastSendVelocity \in Vector
    BY <1>1, Parameters DEF KnownInv, Known
  <2>2. m_lastSendTime \in Nat
    BY WordsAreNaturals DEF KnownInv, Moving
  <2> QED
    BY <2>1, <2>2, Parameters DEF KnownInv, Moving
<1>3. PICK q \in Nat : q = Seconds(now) /\ q < 65536
  BY <1>2, SecondsExact
<1>4. m_lastSendTime <= q /\ q - m_lastSendTime <= MaxIntervalTime
  <2>1. \E k \in Nat : m_lastSendTime <= k /\ k <= q
    BY <1>1, <1>3 DEF Tracked
  <2> QED
    BY <1>2, <1>3, <2>1 DEF Overdue
<1>5. Seconds(now) - m_lastSendTime = q - m_lastSendTime
      /\ Uint16(q - m_lastSendTime) = q - m_lastSendTime
  <2> DEFINE k == q - m_lastSendTime
  <2>1. k \in Nat /\ k < 65536
    BY <1>2, <1>3, <1>4
  <2> HIDE DEF k
  <2>2. Uint16(k) = k
    BY <2>1, WidthsTyped
  <2> QED
    BY <1>3, <2>2 DEF k
<1> DEFINE next == Moved(pos, vel, Second)
<1>6. next \in Vector /\ Ahead(q) \in Vector /\ Ahead(q)' = Ahead(q)
  <2>1. Second * (q - m_lastSendTime + 1) \in Int
    BY <1>2
  <2>2. Ahead(q)' = Ahead(q)
    BY DEF Ahead, Moved
  <2>3. Second \in Int
    BY <1>2
  <2> QED
    BY <1>2, <2>1, <2>2, <2>3, MovedTyped DEF Ahead
<1>7. Distance2(next, Ahead(q)) <= Threshold * Threshold
  <2>1. ~Departed(q - m_lastSendTime)
    BY <1>5
  <2>2. ~(Distance2(next, Ahead(q)) > Threshold * Threshold)
    BY <2>1 DEF Departed, Ahead
  <2>3. Distance2(next, Ahead(q)) \in Int /\ Threshold * Threshold \in Int
    BY <1>2, <1>6, DistanceInt
  <2> HIDE DEF next
  <2> QED
    BY <2>2, <2>3
<1>8. g \in Nat /\ g <= Second + CheckJitter /\ g <= 2 * Second
  <2>1. CheckJitter <= Second
    BY DEF Modest
  <2> QED
    BY <1>1, <1>2, <2>1, TimersTyped
<1>9. s \in Int /\ Threshold + u <= s
  BY <1>8, SlackLeft
<1>10. ASSUME NEW a \in Axes PROVE Within(pos'[a] - Ahead(q)'[a], s)
  <2>1. next[a] - Ahead(q)[a] \in Int /\ Within(next[a] - Ahead(q)[a], Threshold)
    <3> HIDE DEF next
    <3> QED
      BY <1>2, <1>6, <1>7, AxisWithin
  <2> DEFINE x == Second * vel[a]
  <2>2. x \in Int /\ Within(x, u)
    BY <1>2, WayInSecond
  <2>3. next[a] = pos[a] + x /\ pos[a] \in Int /\ Ahead(q)[a] \in Int /\ pos'[a] = pos[a]
    BY <1>1, <1>2, <1>6 DEF Moved, Vector
  <2>4. u \in Int
    BY <1>2
  <2> HIDE DEF x, u, s, next
  <2>5. Within(pos[a] - Ahead(q)[a], s)
    BY <1>2, <1>9, <2>1, <2>2, <2>3, <2>4 DEF Within
  <2> QED
    BY <1>6, <2>3, <2>5
<1>11. Seconds(checkTimer') <= q + 2
  <2>1. \A c \in Nat : (now <= c /\ c - now <= 2 * Second) => Seconds(c) <= Seconds(now) + 2
    <3> TAKE c \in Nat
    <3> HAVE now <= c /\ c - now <= 2 * Second
    <3>1. c <= now + 2 * Second
      BY <1>2
    <3>2. \A m \in Nat : c <= now + m * Second => Seconds(c) <= Seconds(now) + m
      BY <1>2, SecondsGrow
    <3> QED
      BY <3>1, <3>2
  <2>2. checkTimer' \in Nat /\ now <= checkTimer'
    BY <1>1, <1>2
  <2> QED
    BY <1>3, <1>8, <2>1, <2>2
<1>12. \A a \in Axes : Within(pos'[a] - Ahead(q)'[a], (Slack - (checkTimer - now) * Speed)')
  <2>1. (Slack - (checkTimer - now) * Speed)' = s
    BY <1>1 DEF Slack
  <2> QED
    BY <1>10, <2>1
<1>13. /\ m_lastSendTime' <= q /\ q - m_lastSendTime' <= MaxIntervalTime
       /\ q <= Seconds(now')
  BY <1>1, <1>3, <1>4
<1> QED
  BY <1>11, <1>12, <1>13, Zenon DEF Tracked

LEMMA TrackedInvariant == BeforeWrap /\ Modest => (Spec => [](KnownInv /\ Tracked))
<1> SUFFICES ASSUME BeforeWrap, Modest PROVE Spec => [](KnownInv /\ Tracked)
  OBVIOUS
<1>1. Init => Tracked
  BY DEF Init, Tracked
<1>2. KnownInv /\ Tracked /\ [Next]_vars => Tracked'
  <2> SUFFICES ASSUME KnownInv, Tracked, [Next]_vars PROVE Tracked'
    OBVIOUS
  <2>0. Second \in Nat \ {0} /\ CheckJitter \in Nat /\ now \in Nat
    BY Parameters DEF KnownInv, Moving
  <2>1. CASE Start
    <3>1. /\ SendUpdate /\ UNCHANGED motion /\ checkTimer' \in Second .. 2 * Second /\ now = 0
      BY <2>1 DEF Start, KnownInv, Moving
    <3>2. checkTimer' \in Nat /\ now <= checkTimer' /\ checkTimer' - now <= 2 * Second
      BY <2>0, <3>1, TimersTyped
    <3> QED
      BY <3>1, <3>2, SendTracked
  <2>2. CASE CheckChange
    <3>1. /\ UNCHANGED motion /\ checkTimer' \in now + Second .. now + Second + CheckJitter
      BY <2>2 DEF CheckChange
    <3>2. checkTimer' \in Nat /\ now <= checkTimer' /\ checkTimer' - now <= Second + CheckJitter
      BY <2>0, <3>1, TimersTyped
    <3>3. CASE SendUpdate
      BY <3>1, <3>2, <3>3, SendTracked
    <3>4. CASE ~SendUpdate
      BY <2>2, <3>4, QuietTracked DEF CheckChange
    <3> QED
      BY <3>3, <3>4
  <2>3. CASE Tick
    BY <2>3, TickTracked
  <2>4. CASE UNCHANGED vars
    BY <2>4 DEF vars, Tracked, Within, Ahead, Moved, Slack
  <2> QED
    BY <2>1, <2>2, <2>3, <2>4 DEF Next
<1> QED
  BY <1>1, <1>2, KnownInvariant, PTL DEF Spec

\* Clamping brings a prediction nearer to a node in the area.
LEMMA ClampingHelps ==
  ASSUME NEW u \in Nat \ {0}, NEW m \in Nat, NEW x \in Int, NEW y \in Int,
         0 <= y, y <= u * m, NEW e \in Nat, Within(u * x - y, e)
  PROVE  Clamp(x, m) \in Int /\ Within(u * Clamp(x, m) - y, e)
<1>1. CASE x < 0
  <2>1. Clamp(x, m) = 0 /\ u * 0 = 0
    BY <1>1 DEF Clamp
  <2>2. u * x \in Int /\ u * x <= u * 0
    BY <1>1
  <2> QED
    BY <2>1, <2>2 DEF Within
<1>2. CASE x > m
  <2>1. Clamp(x, m) = m /\ u * m \in Int
    BY <1>2 DEF Clamp
  <2>2. u * x \in Int /\ u * m <= u * x
    BY <1>2
  <2> QED
    BY <2>1, <2>2 DEF Within
<1>3. CASE ~(x < 0) /\ ~(x > m)
  BY <1>3 DEF Clamp
<1> QED
  BY <1>1, <1>2, <1>3

\* What a report in whole metres, t seconds old, has lost.
LEMMA TruncationsAddUp ==
  ASSUME NEW u \in Nat \ {0}, NEW t \in Nat, NEW n \in Nat, t <= n,
         NEW x \in Int, NEW p \in Int, Within(u * x - p, u),
         NEW y \in Int, NEW w \in Int, Within(u * y - w, u)
  PROVE  u * (x + t * y) - (p + t * w) \in Int
         /\ Within(u * (x + t * y) - (p + t * w), u * (1 + n))
<1> DEFINE d == u * x - p
           e == u * y - w
           f == t * e
<1>1. d \in Int /\ e \in Int /\ f \in Int
  OBVIOUS
<1>2. u * (x + t * y) - (p + t * w) = d + f
  <2>1. u * (x + t * y) = u * x + t * (u * y)
    BY SMTT(20)
  <2>2. t * (u * y - w) = t * (u * y) - t * w
    BY SMTT(20)
  <2>3. u * x \in Int /\ t * (u * y) \in Int /\ t * w \in Int
    BY SMTT(20)
  <2> QED
    BY <2>1, <2>2, <2>3
<1> HIDE DEF e, f, d
<1>3. Within(e, u) /\ Within(d, u)
  BY DEF e, d
<1>4. t * u \in Nat /\ n * u \in Nat /\ t * u <= n * u
  BY SMTT(20)
<1>5. f <= t * u /\ -(t * u) <= f
  <2>1. t * e <= t * u /\ t * (-u) <= t * e
    BY <1>1, <1>3, SMTT(20) DEF Within
  <2>2. t * (-u) = -(t * u)
    OBVIOUS
  <2> QED
    BY <2>1, <2>2 DEF f
<1>6. u * (1 + n) = u + n * u
  OBVIOUS
<1>7. d + f \in Int /\ Within(d + f, u + n * u)
  BY <1>1, <1>3, <1>4, <1>5 DEF Within
<1> QED
  BY <1>2, <1>6, <1>7

\* The second that CheckChange looked ahead to is at most one off.
LEMMA SecondsOff ==
  ASSUME NEW w \in Velocities, NEW a \in Axes, NEW i \in Int, NEW j \in Int, Within(i - j, 1)
  PROVE  /\ i * (Second * w[a]) - (Second * j) * w[a] \in Int
         /\ Within(i * (Second * w[a]) - (Second * j) * w[a], Second * Speed)
<1> DEFINE x == Second * w[a]
           u == Second * Speed
<1>1. x \in Int /\ Within(x, u) /\ w[a] \in Int /\ Second \in Nat /\ u \in Nat
  BY WayInSecond, Parameters
<1>2. (Second * j) * w[a] = j * x
  BY <1>1, SMTT(20)
<1> HIDE DEF x, u
<1>3. i * x - j * x = (i - j) * x
  BY <1>1, SMTT(20)
<1>4. i - j = -1 \/ i - j = 0 \/ i - j = 1
  BY DEF Within
<1>5. (i - j) * x = -x \/ (i - j) * x = 0 \/ (i - j) * x = x
  BY <1>1, <1>4
<1>6. i * x - j * x \in Int /\ Within(i * x - j * x, u)
  BY <1>1, <1>3, <1>5 DEF Within
<1> QED
  BY <1>2, <1>6 DEF x, u

LEMMA TrackedIsBounded ==
  ASSUME BeforeWrap, Modest, KnownInv, Tracked
  PROVE  PredictionBounded
<1> SUFFICES ASSUME checkTimer # 0, NEW a \in Axes
    PROVE  Unit * PredictPosition(LastReport, Seconds(now))[a] - pos[a] \in -Error .. Error
  BY DEF PredictionBounded, KnownInv, Known
<1>1. /\ now \in Nat /\ now <= Horizon /\ now <= checkTimer /\ checkTimer \in Nat
      /\ pos \in Vector /\ InArea(pos)
      /\ m_lastSendTime \in Nat /\ m_lastSendPos \in Vector /\ InArea(m_lastSendPos)
      /\ m_lastSendVelocity \in Velocities /\ m_lastSendVelocity \in Vector
      /\ Unit \in Nat \ {0} /\ Second \in Nat \ {0} /\ Speed \in Nat /\ Threshold \in Nat
      /\ MaxIntervalTime \in Nat /\ CheckJitter \in Nat
      /\ Area[a] \in Nat /\ Area[a] < 32768
  BY Parameters, WordsAreNaturals DEF KnownInv, Moving, Known
<1>2. PICK q \in Nat :
        /\ m_lastSendTime <= q /\ q - m_lastSendTime <= MaxIntervalTime
        /\ q <= Seconds(now) /\ Seconds(checkTimer) <= q + 2
        /\ \A b \in Axes : Within(pos[b] - Ahead(q)[b], Slack - (checkTimer - now) * Speed)
  BY DEF Tracked
<1>3. /\ Seconds(now) \in Nat /\ Seconds(now) < 65536 /\ Seconds(now) <= q + 2
  <2>1. Seconds(now) \in Nat /\ Seconds(now) < 65536 /\ Seconds(checkTimer) \in Nat
    BY <1>1, SecondsExact
  <2>2. Seconds(now) <= Seconds(checkTimer)
    <3>1. checkTimer <= now + checkTimer * Second
      <4>1. checkTimer * 1 <= checkTimer * Second
        BY <1>1
      <4> QED
        BY <1>1, <4>1
    <3> QED
      BY <1>1, <3>1, SecondsGrow
  <2> QED
    BY <1>2, <2>1, <2>2
<1> DEFINE t == Seconds(now) - m_lastSendTime
           j == q - m_lastSendTime + 1
           n == MaxIntervalTime + 2
           w == Second * m_lastSendVelocity[a]
           p == m_lastSendPos[a]
           x == Metres(m_lastSendPos)[a]
           y == MetresPerSecond(m_lastSendVelocity)[a]
           top == (Second * Speed) \div Unit
           u == Second * Speed
           z == x + t * y
<1>4. /\ t \in Nat /\ t <= n /\ t < 65536 /\ n \in Nat /\ j \in Nat /\ Within(t - j, 1)
  BY <1>1, <1>2, <1>3 DEF Within
<1>5. /\ x \in Int /\ x >= 0 /\ x <= Area[a] /\ Within(Unit * x - p, Unit) /\ p \in Int
  <2>0. Unit \in Nat \ {0} /\ Area[a] \in Nat
    BY <1>1
  <2>1. x \in 0 .. Area[a] /\ x = Truncated(p, Unit) /\ p \in Int
    <3>1. m_lastSendPos \in Vector /\ InArea(m_lastSendPos)
      BY <1>1
    <3>2. x \in 0 .. Area[a]
      BY <3>1, InAreaTruncates
    <3>3. x = Truncated(p, Unit)
      BY DEF Metres
    <3> QED
      BY <3>1, <3>2, <3>3 DEF Vector
  <2> HIDE DEF x, p
  <2>2. -Unit < Unit * Truncated(p, Unit) - p /\ Unit * Truncated(p, Unit) - p < Unit
    BY <2>0, <2>1, TruncationNear
  <2>3. Unit * x \in Int /\ Unit * x - p \in Int
    BY <2>0, <2>1
  <2> QED
    BY <2>0, <2>1, <2>2, <2>3 DEF Within
<1>6. /\ y \in Int /\ -top <= y /\ y <= top /\ Within(Unit * y - w, Unit) /\ w \in Int
  <2>1. /\ y \in Int /\ -top <= y /\ y <= top
        /\ y = Truncated(m_lastSendVelocity[a] * Second, Unit)
    BY <1>1, VelocityTruncates
  <2>2. w \in Int /\ m_lastSendVelocity[a] * Second = w
    BY <1>1 DEF Vector
  <2>0. Unit \in Nat \ {0}
    BY <1>1
  <2> HIDE DEF y, w, top
  <2>3. -Unit < Unit * Truncated(w, Unit) - w /\ Unit * Truncated(w, Unit) - w < Unit
    BY <2>0, <2>2, TruncationNear
  <2>4. y = Truncated(w, Unit)
    BY <2>1, <2>2
  <2>5. Unit * y \in Int /\ Unit * y - w \in Int
    BY <2>0, <2>1, <2>2
  <2> QED
    BY <2>0, <2>1, <2>2, <2>3, <2>4, <2>5 DEF Within
<1>7. top \in Nat /\ Area[a] + n * top < 32768
  BY Parameters DEF Modest
<1>8. z \in Int /\ -32768 <= z /\ z < 32768
  <2> HIDE DEF t, n, x, y, top
  <2>1. n * top \in Nat /\ t * top \in Nat /\ t * top <= n * top /\ t * y \in Int
    BY <1>4, <1>6, <1>7, SMTT(20)
  <2>2. t * y <= t * top /\ t * (-top) <= t * y /\ t * (-top) = -(t * top)
    BY <1>4, <1>6, <1>7, SMTT(20)
  <2> QED
    BY <1>1, <1>5, <1>7, <2>1, <2>2
<1>9. PredictPosition(LastReport, Seconds(now))[a] = Clamp(z, Area[a])
  <2>1. Uint16(t) = t
    BY <1>4, WidthsTyped
  <2>2. \A i \in Int : (-32768 <= i /\ i < 32768) => Int16(i) = i
    BY SMT DEF Int16
  <2>3. Int16(z) = z
    BY <1>8, <2>2
  <2> HIDE DEF z
  <2>4. PredictPosition(LastReport, Seconds(now))[a] = Clamp(Int16(x + Uint16(t) * y), Area[a])
    BY DEF PredictPosition, LastReport
  <2> QED
    BY <2>1, <2>3, <2>4 DEF z
<1>10. /\ Unit * z - (p + t * w) \in Int
       /\ Within(Unit * z - (p + t * w), Unit * (1 + n))
  <2>1. Unit \in Nat \ {0}
    BY <1>1
  <2> HIDE DEF t, n, x, y, p, w, j, top, u
  <2>2. /\ Unit * (x + t * y) - (p + t * w) \in Int
        /\ Within(Unit * (x + t * y) - (p + t * w), Unit * (1 + n))
    <3>1. \A t0, n0 \in Nat : t0 <= n0 =>
            \A x0, p0, y0, w0 \in Int :
              Within(Unit * x0 - p0, Unit) => (Within(Unit * y0 - w0, Unit) =>
                /\ Unit * (x0 + t0 * y0) - (p0 + t0 * w0) \in Int
                /\ Within(Unit * (x0 + t0 * y0) - (p0 + t0 * w0), Unit * (1 + n0)))
      <4> TAKE t0 \in Nat, n0 \in Nat
      <4> HAVE t0 <= n0
      <4> TAKE x0 \in Int, p0 \in Int, y0 \in Int, w0 \in Int
      <4> HAVE Within(Unit * x0 - p0, Unit)
      <4> HAVE Within(Unit * y0 - w0, Unit)
      <4> QED
        BY <2>1, TruncationsAddUp, Zenon
    <3>2. \A x0, p0, y0, w0 \in Int :
            Within(Unit * x0 - p0, Unit) => (Within(Unit * y0 - w0, Unit) =>
              /\ Unit * (x0 + t * y0) - (p0 + t * w0) \in Int
              /\ Within(Unit * (x0 + t * y0) - (p0 + t * w0), Unit * (1 + n)))
      <4>1. t \in Nat /\ n \in Nat /\ t <= n
        BY <1>4
      <4> QED
        BY <4>1, <3>1, Zenon
    <3>3. x \in Int /\ p \in Int /\ y \in Int /\ w \in Int
      BY <1>5, <1>6
    <3>4. Within(Unit * x - p, Unit) /\ Within(Unit * y - w, Unit)
      BY <1>5, <1>6
    <3> QED
      BY <3>2, <3>3, <3>4, Zenon
  <2> QED
    BY <2>2
<1>11. Ahead(q)[a] = p + (Second * j) * m_lastSendVelocity[a] /\ Ahead(q)[a] \in Int
  <2> DEFINE k == Second * j
  <2>1. k \in Int /\ m_lastSendPos \in Vector /\ m_lastSendVelocity \in Vector
    BY <1>1, <1>4
  <2>2. Ahead(q) = Moved(m_lastSendPos, m_lastSendVelocity, k)
    BY DEF Ahead
  <2> HIDE DEF k
  <2>3. Ahead(q) \in Vector /\ Ahead(q)[a] = m_lastSendPos[a] + k * m_lastSendVelocity[a]
    <3>1. Moved(m_lastSendPos, m_lastSendVelocity, k) \in Vector
      BY <2>1, MovedTyped, Zenon
    <3>2. Moved(m_lastSendPos, m_lastSendVelocity, k)[a]
            = m_lastSendPos[a] + k * m_lastSendVelocity[a]
      BY Zenon DEF Moved
    <3> QED
      BY <2>2, <3>1, <3>2, Zenon
  <2>4. Ahead(q)[a] \in Int
    BY <2>3 DEF Vector
  <2> QED
    BY <2>3, <2>4 DEF k
<1>12. t * w - (Second * j) * m_lastSendVelocity[a] \in Int
       /\ Within(t * w - (Second * j) * m_lastSendVelocity[a], u)
  <2>1. m_lastSendVelocity \in Velocities
    BY <1>1
  <2>2. t \in Int /\ j \in Int /\ Within(t - j, 1)
    BY <1>4
  <2> HIDE DEF t, j
  <2> QED
    BY <2>1, <2>2, SecondsOff
<1>13. pos[a] - Ahead(q)[a] \in Int /\ Within(pos[a] - Ahead(q)[a], Slack) /\ pos[a] \in Int
  <2> DEFINE g == checkTimer - now
  <2>1. g \in Nat /\ g * Speed \in Nat /\ Slack \in Int
    BY <1>1 DEF Slack
  <2>2. Within(pos[a] - Ahead(q)[a], Slack - g * Speed) /\ pos[a] \in Int
    BY <1>1, <1>2 DEF Vector
  <2> HIDE DEF g
  <2> QED
    BY <1>11, <2>1, <2>2 DEF Within
<1>14. Error = Slack + u + Unit * (1 + n) /\ u \in Nat /\ Slack \in Nat /\ Unit * (1 + n) \in Nat
  <2>1. (3 * Second + CheckJitter) * Speed = (2 * Second + CheckJitter) * Speed + Second * Speed
    BY <1>1, SMTT(20)
  <2>2. 1 + MaxIntervalTime + 2 = 1 + n
    BY <1>1
  <2>3. (2 * Second + CheckJitter) * Speed \in Nat /\ u \in Nat /\ Unit * (1 + n) \in Nat
    BY <1>1, <1>4
  <2> QED
    BY <1>1, <2>1, <2>2, <2>3 DEF Error, Slack
<1>15. Within(Unit * z - pos[a], Error) /\ Error \in Nat
  <2> DEFINE l == Unit * z - (p + t * w)
             m == t * w - (Second * j) * m_lastSendVelocity[a]
             k == pos[a] - Ahead(q)[a]
             f == Unit * (1 + n)
  <2>1. Unit * z - pos[a] = l + m - k
    <3>1. t * w \in Int /\ (Second * j) * m_lastSendVelocity[a] \in Int /\ Unit * z \in Int
      <4> HIDE DEF t, w, z, j
      <4>1. m_lastSendVelocity[a] \in Int /\ Second * j \in Int
        BY <1>1, <1>4 DEF Vector
      <4> QED
        BY <1>1, <1>4, <1>6, <1>8, <4>1
    <3> DEFINE tw == t * w
               sv == (Second * j) * m_lastSendVelocity[a]
               uz == Unit * z
    <3>2. tw \in Int /\ sv \in Int /\ uz \in Int /\ p \in Int /\ pos[a] \in Int
      BY <1>5, <1>13, <3>1
    <3>3. Ahead(q)[a] = p + sv /\ l = uz - (p + tw) /\ m = tw - sv /\ k = pos[a] - Ahead(q)[a]
      BY <1>11
    <3>4. Unit * z = uz
      OBVIOUS
    <3> HIDE DEF tw, sv, uz, l, m, k, p
    <3> QED
      BY <3>2, <3>3, <3>4
  <2>2. l \in Int /\ m \in Int /\ k \in Int /\ f \in Nat
    BY <1>10, <1>12, <1>13, <1>14
  <2>3. Within(l, f) /\ Within(m, u) /\ Within(k, Slack)
    BY <1>10, <1>12, <1>13
  <2>4. Error = Slack + u + f /\ u \in Nat /\ Slack \in Nat
    BY <1>14
  <2> HIDE DEF l, m, k, f, u
  <2>5. Within(l + m - k, Error) /\ Error \in Nat
    BY <2>2, <2>3, <2>4 DEF Within
  <2> QED
    BY <2>1, <2>5
<1>16. pos[a] \in Int /\ 0 <= pos[a] /\ pos[a] <= Unit * Area[a]
  <2>1. pos[a] \in 0 .. Unit * Area[a] /\ Unit * Area[a] \in Int
    BY <1>1 DEF InArea
  <2> QED
    BY <2>1
<1>17. Clamp(z, Area[a]) \in Int /\ Within(Unit * Clamp(z, Area[a]) - pos[a], Error)
  <2>1. Unit \in Nat \ {0} /\ Area[a] \in Nat
    BY <1>1
  <2> HIDE DEF z
  <2> QED
    <3>1. \A m0, y0, e0 \in Nat : y0 <= Unit * m0 /\ Within(Unit * z - y0, e0) =>
            Clamp(z, m0) \in Int /\ Within(Unit * Clamp(z, m0) - y0, e0)
      <4> SUFFICES ASSUME NEW m0 \in Nat, NEW y0 \in Nat, NEW e0 \in Nat,
                          y0 <= Unit * m0, Within(Unit * z - y0, e0)
          PROVE Clamp(z, m0) \in Int /\ Within(Unit * Clamp(z, m0) - y0, e0)
        BY Zenon
      <4>1. y0 \in Int /\ 0 <= y0 /\ z \in Int
        BY <1>8
      <4> QED
        BY <2>1, <4>1, ClampingHelps, Zenon
    <3>2. pos[a] \in Nat
      BY <1>16
    <3> QED
      BY <1>15, <1>16, <2>1, <3>1, <3>2, Zenon
<1> HIDE DEF z
<1>18. Unit * Clamp(z, Area[a]) - pos[a] \in Int
  BY <1>1, <1>16, <1>17
<1>19. Unit * Clamp(z, Area[a]) - pos[a] \in -Error .. Error
  BY <1>15, <1>17, <1>18 DEF Within
<1> QED
  BY <1>9, <1>19

\* Dead reckoning works for every speed, threshold, area and silence: as long as
\* checks come in time, a node cannot depart from a fresh report within a second, and
\* 16 bits hold positions, what a table predicts of a node is within Error of where it
\* is, however it turns (CheckChange, lines 798-836, PredictPosition, rtable.cc:109-131).
THEOREM PredictionsAreNear == BeforeWrap /\ Modest => (Spec => []PredictionBounded)
<1> SUFFICES ASSUME BeforeWrap, Modest PROVE Spec => []PredictionBounded
  OBVIOUS
<1>1. KnownInv /\ Tracked => PredictionBounded
  BY TrackedIsBounded
<1> QED
  BY <1>1, TrackedInvariant, PTL
==============================================================================
