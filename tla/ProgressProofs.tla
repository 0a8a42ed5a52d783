--------------------------- MODULE ProgressProofs ----------------------------
(***************************************************************************)
(* Packets make progress in any network at rest, but for hops that whole   *)
(* metres mislead: greedy mode has no loops and recovery mode is left only *)
(* nearer to the destination, whoever knows of whom, whatever recovery     *)
(* mode picks and whatever is lost.                                        *)
(***************************************************************************)
EXTENDS ForwardingProofs

\* Nobody moves, in an area whose metres fit into 16 signed bits, until 16-bit
\* timestamps wrap.
AtRest ==
  /\ BeforeWrap
  /\ \A a \in Axes : Area[a] \in Nat /\ Area[a] < 32768
  /\ \A n \in Nodes, t \in Seconds : Place[n][t] = Place[n][0] /\ Velocity[n][t] = Origin

\* Where a node says it is, in metres and back in units; and how far it really is
\* from where d says it is.
Spot(n) == Metres(Place[n][0])
Said(n) == Scaled(Spot(n))
Far(n, d) == Distance2(Place[n][0], Said(d))

------------------------------------------------------------------------------
(* What tables say at rest. *)

LEMMA SecondsCount == 0 \in Seconds /\ \A t \in Seconds : t \in Nat /\ t <= Horizon
<1>1. Horizon \in Nat
  BY ForwardingAssumption
<1> QED
  BY <1>1 DEF Seconds

LEMMA OriginIsZero == Origin \in [Axes -> Nat] /\ \A a \in Axes : Origin[a] = 0
BY DEF Origin, Axes

LEMMA SpotsFit ==
  ASSUME AtRest, NEW n \in Nodes
  PROVE  /\ \A a \in Axes : Spot(n)[a] \in Nat /\ Spot(n)[a] <= Area[a] /\ Spot(n)[a] < 32768
         /\ Spot(n) \in Vector16 /\ Words(Spot(n)) = Spot(n)
<1>1. ASSUME NEW a \in Axes
      PROVE  Spot(n)[a] \in Nat /\ Spot(n)[a] <= Area[a] /\ Spot(n)[a] < 32768
  <2>1. Area[a] \in Nat /\ Area[a] < 32768
    BY DEF AtRest
  <2>2. Unit \in Nat \ {0} /\ Place[n][0][a] \in 0 .. Unit * Area[a]
    <3>1. \A m \in Nodes, t \in Seconds, b \in Axes : Place[m][t][b] \in 0 .. Unit * Area[b]
      BY ForwardingAssumption
    <3>2. 0 \in Seconds
      BY SecondsCount
    <3>3. Unit \in Nat \ {0}
      BY ForwardingAssumption
    <3> QED
      BY <3>1, <3>2, <3>3
  <2>3. Truncated(Place[n][0][a], Unit) \in 0 .. Area[a]
    <3> DEFINE u == Unit
               m == Area[a]
               x == Place[n][0][a]
    <3>1. u \in Nat \ {0} /\ m \in Nat /\ x \in 0 .. u * m
      BY <2>1, <2>2
    <3> HIDE DEF u, m, x
    <3>2. Truncated(x, u) \in 0 .. m
      BY <3>1, DivisionFits
    <3> QED
      BY <3>2 DEF u, m, x
  <2>4. Spot(n)[a] = Truncated(Place[n][0][a], Unit)
    BY DEF Spot, Metres
  <2> QED
    BY <2>1, <2>3, <2>4
<1>2. \A a \in Axes : Spot(n)[a] \in Word /\ Uint16(Spot(n)[a]) = Spot(n)[a]
  BY <1>1, SmallIntegers
<1>3. Spot(n) = [a \in Axes |-> Spot(n)[a]]
  BY DEF Spot, Metres
<1> QED
  BY <1>1, <1>2, <1>3 DEF Vector16, Words

LEMMA OriginCarried ==
  /\ Metres(Origin) = Origin
  /\ Words(Magnitude(Origin)) = Origin /\ SetRightVelocity(Origin) = 0
  /\ Shorts(GetRightVelocity(Origin, 0)) = Origin
<1>1. Metres(Origin) = Origin
  <2>1. Unit \in Nat \ {0}
    BY ForwardingAssumption
  <2>2. Truncated(0, Unit) = 0
    BY <2>1 DEF Truncated
  <2> QED
    BY <2>2, OriginIsZero DEF Metres
<1>2. Magnitude(Origin) = Origin
  BY OriginIsZero DEF Magnitude
<1>3. Words(Origin) = Origin
  <2>1. Uint16(0) = 0
    BY SmallIntegers
  <2> QED
    BY <2>1, OriginIsZero DEF Words
<1>4. SetRightVelocity(Origin) = 0
  <2>1. Negative(Origin) = {}
    BY OriginIsZero DEF Negative
  <2> QED
    BY <2>1 DEF SetRightVelocity
<1>5. GetRightVelocity(Origin, 0) = Origin
  BY OriginIsZero DEF GetRightVelocity, Signed
<1>6. Shorts(Origin) = Origin
  <2>1. Int16(0) = 0
    BY SmallIntegers
  <2> QED
    BY <2>1, OriginIsZero DEF Shorts
<1> QED
  BY <1>1, <1>2, <1>3, <1>4, <1>5, <1>6

\* An entry that says where a node is.
RestEntry(r) == r.adress \in Nodes => r.pos = Spot(r.adress) /\ r.vel = Origin
RestTable(n, table) == table \subseteq Entry /\ \A r \in table : r.adress # n /\ RestEntry(r)

LEMMA RestReport ==
  ASSUME AtRest, NEW o \in Nodes, NEW t \in Seconds
  PROVE  RestEntry(Report(o, t))
<1>1. Place[o][t] = Place[o][0] /\ Velocity[o][t] = Origin
  BY DEF AtRest
<1>2. Report(o, t) =
        [adress |-> o, timestamp |-> Uint16(t), pos |-> Words(Spot(o)),
         vel |-> Shorts(GetRightVelocity(Words(Magnitude(Origin)), SetRightVelocity(Origin)))]
  BY <1>1, OriginCarried DEF Report, EntryOfReport, ReportOf, Spot
<1> QED
  BY <1>2, SpotsFit, OriginCarried DEF RestEntry

LEMMA RestPredicted ==
  ASSUME AtRest, now \in Seconds, NEW r \in Entry, RestEntry(r), r.adress \in Nodes
  PROVE  Predicted(r) = Said(r.adress)
<1> DEFINE o == r.adress
           k == Uint16(now - r.timestamp)
<1>1. r.pos = Spot(o) /\ r.vel = Origin
  BY DEF RestEntry
<1>2. k \in Nat
  <2>1. now - r.timestamp \in Int
    <3>1. r.timestamp \in Seconds
      BY DEF Entry
    <3>2. r.timestamp \in Nat /\ now \in Nat
      BY <3>1, SecondsCount
    <3> QED
      BY <3>2
  <2>2. \A i \in Int : Uint16(i) \in Nat
    <3>1. \A i \in Int : Uint16(i) \in Word
      BY WidthsTyped
    <3> QED
      BY <3>1, WordsAreNaturals
  <2> QED
    BY <2>1, <2>2
<1>3. ASSUME NEW a \in Axes
      PROVE  Clamp(Int16(r.pos[a] + k * r.vel[a]), Area[a]) = Spot(o)[a]
  <2> HIDE DEF k, o
  <2>1. r.pos[a] = Spot(o)[a] /\ r.vel[a] = 0
    BY <1>1, OriginIsZero
  <2>2. Spot(o)[a] \in Nat /\ Spot(o)[a] <= Area[a] /\ Spot(o)[a] < 32768
    BY SpotsFit DEF o
  <2>3. r.pos[a] + k * r.vel[a] = Spot(o)[a]
    BY <1>2, <2>1, <2>2
  <2>4. Int16(r.pos[a] + k * r.vel[a]) = Spot(o)[a]
    BY <2>2, <2>3, SmallIntegers
  <2>5. Area[a] \in Nat
    BY DEF AtRest
  <2> QED
    BY <2>2, <2>4, <2>5 DEF Clamp
<1>4. \A a \in Axes : PredictPosition(r, now)[a] = Spot(o)[a]
  BY <1>3 DEF PredictPosition
<1> QED
  BY <1>4 DEF Predicted, Said, Scaled

------------------------------------------------------------------------------
(* Distances, and a hop. *)

\* How far a place in metres is from where d says it is.
Near(v, d) == Distance2(Scaled(v), Said(d))

LEMMA DistancesTyped ==
  ASSUME AtRest, NEW n \in Nodes, NEW d \in Nodes, NEW v \in Vector16
  PROVE  Far(n, d) \in Int /\ Near(v, d) \in Int
<1>1. {1, 2, 3} \subseteq Axes /\ Unit \in Int
  BY ForwardingAssumption DEF Axes
<1>2. \A a \in Axes : Said(d)[a] \in Int
  <2>1. \A a \in Axes : Said(d)[a] = Unit * Spot(d)[a]
    BY DEF Said, Scaled
  <2>2. \A a \in Axes : Spot(d)[a] \in Nat
    BY SpotsFit
  <2> QED
    BY <1>1, <2>1, <2>2
<1>3. \A a \in Axes : Scaled(v)[a] \in Int
  <2>1. \A a \in Axes : v[a] \in Int
    <3>1. v \in Vector
      BY VectorsOfWords
    <3> QED
      BY <3>1 DEF Vector
  <2>2. \A a \in Axes : Scaled(v)[a] = Unit * v[a]
    BY DEF Scaled
  <2> QED
    BY <1>1, <2>1, <2>2
<1>4. \A a \in Axes : Place[n][0][a] \in Int
  <2>1. \A t \in Seconds, a \in Axes : Place[n][t][a] \in 0 .. Unit * Area[a]
    BY ForwardingAssumption
  <2>2. \A a \in Axes : Place[n][0][a] \in 0 .. Unit * Area[a]
    BY <2>1, SecondsCount
  <2> QED
    BY <2>2
<1>5. \A u, w : (/\ \A a \in {1, 2, 3} : u[a] \in Int
                 /\ \A a \in {1, 2, 3} : w[a] \in Int) => Distance2(u, w) \in Int
  BY DEF Distance2
<1> QED
  BY <1>1, <1>2, <1>3, <1>4, <1>5 DEF Far, Near

\* A hop of n to d that goes on to one believed nearer, stays in recovery, or leaves it nearer.
FairHop(n, d, inRec, recPos, h) ==
  /\ h.recPos \in Vector16 /\ h.inRec \in {0, 1}
  /\ h.inRec = 0 /\ h.to \in Nodes => Near(Spot(h.to), d) < Far(n, d)
  /\ inRec = 0 /\ h.inRec = 1 => h.recPos = Spot(n)
  /\ inRec = 1 =>
       \/ h.inRec = 1 /\ h.recPos = recPos
       \/ Far(n, d) < Near(recPos, d) /\ (h.inRec = 1 => h.recPos = Spot(n))

LEMMA BestIsNearer ==
  ASSUME AtRest, now \in Seconds, NEW n \in Nodes, NEW d \in Nodes, NEW table,
         RestTable(n, table),
         NEW m \in BestNeighbor(LookupNeighbor(table, Here(n)), Said(d), Place[n][0]),
         m \in Nodes
  PROVE  Near(Spot(m), d) < Far(n, d)
<1>1. PICK r \in table :
        /\ m = r.adress
        /\ Distance2(Predicted(r), Said(d)) < Distance2(Place[n][0], Said(d))
  BY DEF BestNeighbor, LookupNeighbor
<1>2. r \in Entry /\ RestEntry(r)
  BY DEF RestTable
<1>3. Predicted(r) = Said(m)
  BY <1>1, <1>2, RestPredicted
<1> QED
  BY <1>1, <1>3 DEF Near, Far, Said

LEMMA HopAtRest ==
  ASSUME AtRest, now \in Seconds, NEW n \in Nodes, NEW d \in Nodes, NEW table,
         RestTable(n, table), HasRoute(table, d), NEW inRec \in {0, 1},
         NEW recPos \in Vector16, NEW h \in Hops(n, table, d, inRec, recPos)
  PROVE  FairHop(n, d, inRec, recPos, h)
<1> DEFINE target == Predicted(LookupRoute(table, d))
           neighbors == LookupNeighbor(table, Here(n))
           greedy == inRec = 0 \/ LeavesRecovery(Here(n), Scaled(recPos), target)
           best == IF greedy THEN BestNeighbor(neighbors, target, Here(n)) ELSE {}
           others == IF EnableRecoveryMode /\ best = {} /\ neighbors # {}
                       THEN RecoveryMode(neighbors) ELSE {}
<1>1. target = Said(d)
  <2>1. LookupRoute(table, d) \in table /\ LookupRoute(table, d).adress = d
    BY DEF HasRoute, LookupRoute
  <2>2. LookupRoute(table, d) \in Entry /\ RestEntry(LookupRoute(table, d))
    BY <2>1 DEF RestTable
  <2> QED
    BY <2>1, <2>2, RestPredicted
<1>2. Here(n) = Place[n][0]
  BY DEF Here, AtRest
<1>3. h \in {[to |-> m, inRec |-> 0, recPos |-> Origin] : m \in best} \cup
            {[to |-> m, inRec |-> 1,
              recPos |-> IF greedy THEN Metres(Here(n)) ELSE recPos] : m \in others}
  BY DEF Hops
<1>4. best # {} => greedy
  OBVIOUS
<1>5. \A m \in best : m \in Nodes => Near(Spot(m), d) < Far(n, d)
  <2>1. best \subseteq BestNeighbor(LookupNeighbor(table, Here(n)), Said(d), Place[n][0])
    BY <1>1, <1>2
  <2> HIDE DEF best
  <2> QED
    BY <2>1, BestIsNearer
<1>6. greedy => inRec = 0 \/ Far(n, d) < Near(recPos, d)
  BY <1>1, <1>2 DEF LeavesRecovery, Far, Near
<1>7. Metres(Here(n)) = Spot(n) /\ Spot(n) \in Vector16 /\ Origin \in Vector16
  <2>1. Origin \in Vector16
    BY WordsAreNaturals, OriginIsZero DEF Vector16, Origin, Axes
  <2> QED
    BY <1>2, <2>1, SpotsFit DEF Spot
<1> HIDE DEF target, neighbors, greedy, best, others
<1>8. CASE \E m \in best : h = [to |-> m, inRec |-> 0, recPos |-> Origin]
  <2>1. PICK m \in best : h = [to |-> m, inRec |-> 0, recPos |-> Origin]
    BY <1>8
  <2>2. h.to = m /\ h.inRec = 0 /\ h.recPos = Origin
    BY <2>1
  <2> QED
    BY <1>4, <1>5, <1>6, <1>7, <2>2 DEF FairHop
<1>9. CASE \E m \in others :
             h = [to |-> m, inRec |-> 1,
                  recPos |-> IF greedy THEN Metres(Here(n)) ELSE recPos]
  <2>1. h.inRec = 1 /\ h.recPos = IF greedy THEN Spot(n) ELSE recPos
    BY <1>7, <1>9
  <2>2. inRec = 0 => greedy
    BY DEF greedy
  <2> QED
    BY <1>6, <1>7, <2>1, <2>2 DEF FairHop
<1> QED
  BY <1>3, <1>8, <1>9

------------------------------------------------------------------------------
(* Routes. *)

\* Whole metres misled hop b, which ended at n: see Misled.
Strays(b, n, d) ==
  \/ b.inRec = 0 /\ Near(Spot(n), d) < Far(b.node, d) /\ Far(b.node, d) <= Far(n, d)
  \/ /\ b.inRec = 1 /\ Far(n, d) < Near(b.recPos, d)
     /\ \E e \in Nodes : Spot(e) = b.recPos /\ Far(e, d) <= Far(n, d)

\* They misled no hop of route s from its i-th node to its j-th.
Straight(s, i, j, d) == \A k \in i .. j - 1 : ~Strays(s[k], s[k + 1].node, d)

\* Greedy hops go nearer and nearer.
Falls(s, d) ==
  \A i, j \in DOMAIN s :
    (i < j /\ (\A k \in i .. j - 1 : s[k].inRec = 0) /\ Straight(s, i, j, d))
      => Far(s[j].node, d) < Far(s[i].node, d)

\* n is nearer than every node of the greedy stretch that the route ends with.
Ends(s, n, d) ==
  \A i \in DOMAIN s :
    (/\ \A k \in i .. Len(s) : s[k].inRec = 0
     /\ Straight(s, i, Len(s), d) /\ ~Strays(s[Len(s)], n, d))
      => Far(n, d) < Far(s[i].node, d)

\* Where a hop is, or the recovery that it belongs to may have begun.
Mark(b) == IF b.inRec = 1 THEN {m \in Nodes : Spot(m) = b.recPos} ELSE {b.node}

\* b is a hop of the recovery that a is of, or nearer than where that began.
Goes(a, b, d) ==
  \/ b.inRec = 1 /\ b.recPos = a.recPos
  \/ \E m \in Mark(b) : \A e \in Mark(a) : Far(m, d) < Far(e, d)

Advances(s, d) ==
  \A i, j \in DOMAIN s :
    (i < j /\ s[i].inRec = 1 /\ Straight(s, i, j, d)) => Goes(s[i], s[j], d)

\* A route so far, with the packet at n; and one more hop.
GoodRoute(s, n, d) ==
  Falls(s, d) /\ Advances(s, d) /\ (n \in Nodes => Ends(s, n, d))

RestHop == {b \in RouteHop : b.recPos \in Vector16}

LEMMA GoingOn ==
  ASSUME AtRest, NEW d \in Nodes, NEW a \in RestHop, a.inRec = 1, NEW b \in RestHop,
         NEW h, NEW n \in Nodes, FairHop(n, d, b.inRec, b.recPos, h),
         NEW e, e.node = n, e.inRec = h.inRec, e.recPos = h.recPos,
         Goes(a, b, d), ~Strays(b, n, d), b.inRec = 0 => Far(n, d) < Far(b.node, d)
  PROVE  Goes(a, e, d)
<1>1. b.inRec \in {0, 1} /\ b.node \in Nodes /\ a.recPos \in Vector16 /\ b.recPos \in Vector16
  BY DEF RestHop, RouteHop
<1>2. \A m \in Nodes : Far(m, d) \in Int
  BY <1>1, DistancesTyped
<1>3. (h.inRec = 1 => h.recPos = Spot(n)) => n \in Mark(e)
  BY DEF Mark
<1>4. Mark(a) \subseteq Nodes /\ Mark(b) \subseteq Nodes
  BY <1>1 DEF Mark
<1>5. CASE b.inRec = 1 /\ h.inRec = 1 /\ h.recPos = b.recPos
  <2>1. Mark(e) = Mark(b)
    BY <1>5 DEF Mark
  <2> QED
    BY <1>5, <2>1 DEF Goes
<1>6. CASE /\ b.inRec = 1 /\ Far(n, d) < Near(b.recPos, d)
           /\ h.inRec = 1 => h.recPos = Spot(n)
  <2>1. ASSUME NEW x \in Mark(b) PROVE Far(n, d) < Far(x, d)
    <3>1. x \in Nodes /\ Spot(x) = b.recPos
      BY <1>6, <2>1 DEF Mark
    <3>2. ~(Far(x, d) <= Far(n, d))
      BY <1>6, <3>1 DEF Strays
    <3> QED
      BY <1>2, <3>1, <3>2
  <2>2. CASE b.recPos = a.recPos
    <3>1. Mark(b) = Mark(a)
      BY <1>6, <2>2 DEF Mark
    <3> QED
      BY <1>3, <1>6, <2>1, <3>1 DEF Goes
  <2>3. CASE \E m \in Mark(b) : \A x \in Mark(a) : Far(m, d) < Far(x, d)
    <3>1. PICK m \in Mark(b) : \A x \in Mark(a) : Far(m, d) < Far(x, d)
      BY <2>3
    <3>2. \A x \in Mark(a) : Far(n, d) < Far(x, d)
      BY <1>2, <1>4, <2>1, <3>1
    <3> QED
      BY <1>3, <1>6, <3>2 DEF Goes
  <2> QED
    BY <2>2, <2>3 DEF Goes
<1>7. CASE b.inRec = 0
  <2>1. \A x \in Mark(a) : Far(b.node, d) < Far(x, d)
    BY <1>7 DEF Goes, Mark
  <2>2. \A x \in Mark(a) : Far(n, d) < Far(x, d)
    BY <1>1, <1>2, <1>4, <1>7, <2>1
  <2>3. n \in Mark(e)
    BY <1>3, <1>7 DEF FairHop
  <2> QED
    BY <2>2, <2>3 DEF Goes
<1> QED
  BY <1>1, <1>5, <1>6, <1>7 DEF FairHop

\* What the header of a packet at n says of its route.
LastHop(s, inRec, recPos) ==
  IF s = <<>> THEN inRec = 0
  ELSE s[Len(s)].inRec = inRec /\ s[Len(s)].recPos = recPos

LEMMA RouteGrows ==
  ASSUME AtRest, NEW d \in Nodes, NEW n \in Nodes, NEW s \in Seq(RestHop),
         GoodRoute(s, n, d), NEW inRec, NEW recPos, LastHop(s, inRec, recPos),
         NEW h, FairHop(n, d, inRec, recPos, h),
         NEW e \in RestHop, e.node = n, e.inRec = h.inRec, e.recPos = h.recPos
  PROVE  GoodRoute(Append(s, e), h.to, d)
<1> DEFINE l == Len(s)
           r == Append(s, e)
<1>1. /\ l \in Nat /\ DOMAIN s = 1 .. l /\ DOMAIN r = 1 .. l + 1
      /\ \A i \in 1 .. l : r[i] = s[i] /\ s[i] \in RestHop
      /\ r[l + 1] = e /\ Len(r) = l + 1
  OBVIOUS
<1>2. \A m, k \in Nodes : Far(m, k) \in Int
  <2>1. Origin \in Vector16
    BY WordsAreNaturals, OriginIsZero DEF Vector16, Origin, Axes
  <2> QED
    BY <2>1, DistancesTyped
<1>3. \A i \in 1 .. l : s[i].node \in Nodes
  BY <1>1 DEF RestHop, RouteHop
<1>4. s # <<>> <=> l > 0
  BY <1>1
<1>5. Falls(s, d) /\ Advances(s, d) /\ Ends(s, n, d)
  BY DEF GoodRoute
<1> HIDE DEF l, r
<1>6. ASSUME NEW i \in 1 .. l, NEW j \in 1 .. l + 1, i <= j, Straight(r, i, j, d)
      PROVE  /\ j <= l => Straight(s, i, j, d)
             /\ j = l + 1 => Straight(s, i, l, d) /\ ~Strays(s[l], n, d)
  <2>1. \A k \in i .. j - 1 : ~Strays(r[k], r[k + 1].node, d)
    BY <1>6 DEF Straight
  <2>2. ASSUME NEW k \in i .. j - 1, k + 1 <= l PROVE ~Strays(s[k], s[k + 1].node, d)
    <3>1. k \in 1 .. l /\ k + 1 \in 1 .. l
      BY <1>1, <2>2
    <3>2. r[k] = s[k] /\ r[k + 1] = s[k + 1]
      BY <1>1, <3>1
    <3> QED
      BY <2>1, <3>2
  <2>3. j <= l => Straight(s, i, j, d)
    BY <1>1, <2>2 DEF Straight
  <2>4. j = l + 1 => Straight(s, i, l, d)
    BY <1>1, <2>2 DEF Straight
  <2>5. j = l + 1 => ~Strays(s[l], n, d)
    <3>1. l \in 1 .. l
      BY <1>1
    <3>2. r[l] = s[l] /\ r[l + 1].node = n
      BY <1>1, <3>1
    <3>3. j = l + 1 => l \in i .. j - 1
      BY <1>1
    <3> QED
      BY <2>1, <3>2, <3>3
  <2> QED
    BY <2>3, <2>4, <2>5
<1>7. ASSUME NEW i \in 1 .. l, \A k \in i .. l : r[k].inRec = 0, Straight(r, i, l + 1, d)
      PROVE  Far(n, d) < Far(s[i].node, d)
  <2>1. \A k \in i .. l : s[k].inRec = 0
    <3>1. \A k \in i .. l : k \in 1 .. l
      BY <1>1
    <3> QED
      BY <1>1, <1>7, <3>1
  <2>2. Straight(s, i, l, d) /\ ~Strays(s[l], n, d)
    <3>1. l + 1 \in 1 .. l + 1 /\ i <= l + 1
      BY <1>1
    <3> QED
      BY <1>6, <1>7, <3>1
  <2> QED
    BY <1>1, <1>5, <2>1, <2>2 DEF Ends, l
<1>8. Falls(r, d)
  <2> SUFFICES ASSUME NEW i \in DOMAIN r, NEW j \in DOMAIN r, i < j,
                      \A k \in i .. j - 1 : r[k].inRec = 0, Straight(r, i, j, d)
               PROVE  Far(r[j].node, d) < Far(r[i].node, d)
    BY DEF Falls
  <2>1. CASE j = l + 1
    <3>1. i \in 1 .. l /\ \A k \in i .. l : r[k].inRec = 0
      BY <1>1, <2>1
    <3> QED
      BY <1>1, <1>7, <2>1, <3>1
  <2>2. CASE j # l + 1
    <3>1. i \in 1 .. l /\ j \in 1 .. l /\ \A k \in i .. j - 1 : k \in 1 .. l
      BY <1>1, <2>2
    <3>2. \A k \in i .. j - 1 : s[k].inRec = 0
      BY <1>1, <3>1
    <3>3. Straight(s, i, j, d)
      BY <1>1, <1>6, <3>1
    <3> QED
      BY <1>1, <1>5, <3>1, <3>2, <3>3 DEF Falls
  <2> QED
    BY <2>1, <2>2
<1>9. Advances(r, d)
  <2> SUFFICES ASSUME NEW i \in DOMAIN r, NEW j \in DOMAIN r, i < j, r[i].inRec = 1,
                      Straight(r, i, j, d)
               PROVE  Goes(r[i], r[j], d)
    BY DEF Advances
  <2>1. CASE j # l + 1
    <3>1. i \in 1 .. l /\ j \in 1 .. l
      BY <1>1, <2>1
    <3>2. Straight(s, i, j, d)
      BY <1>1, <1>6, <3>1
    <3> QED
      BY <1>1, <1>5, <3>1, <3>2 DEF Advances
  <2>2. CASE j = l + 1
    <3>1. i \in 1 .. l /\ l \in 1 .. l
      BY <1>1, <2>2
    <3>2. s[l].inRec = inRec /\ s[l].recPos = recPos
      BY <1>1, <1>4, <3>1 DEF LastHop, l
    <3>3. Straight(s, i, l, d) /\ ~Strays(s[l], n, d)
      BY <1>1, <1>6, <2>2, <3>1
    <3>4. Goes(s[i], s[l], d)
      <4>1. CASE i = l
        BY <1>1, <2>2, <3>1, <4>1 DEF Goes
      <4>2. CASE i # l
        BY <1>1, <1>5, <3>1, <3>3, <4>2 DEF Advances
      <4> QED
        BY <4>1, <4>2
    <3>5. s[l].inRec = 0 => Far(n, d) < Far(s[l].node, d)
      <4>1. ASSUME s[l].inRec = 0 PROVE \A k \in l .. l : s[k].inRec = 0
        BY <1>1, <4>1
      <4>2. Straight(s, l, l, d)
        BY <1>1 DEF Straight
      <4> QED
        BY <1>1, <1>5, <3>1, <3>3, <4>1, <4>2 DEF Ends, l
    <3>6. s[i] \in RestHop /\ s[l] \in RestHop /\ s[i].inRec = 1
      BY <1>1, <3>1
    <3>7. Goes(s[i], e, d)
      BY <3>2, <3>3, <3>4, <3>5, <3>6, GoingOn
    <3> QED
      BY <1>1, <2>2, <3>1, <3>7
  <2> QED
    BY <2>1, <2>2
<1>10. ASSUME h.to \in Nodes PROVE Ends(r, h.to, d)
  <2> SUFFICES ASSUME NEW i \in DOMAIN r, \A k \in i .. Len(r) : r[k].inRec = 0,
                      Straight(r, i, Len(r), d), ~Strays(r[Len(r)], h.to, d)
               PROVE  Far(h.to, d) < Far(r[i].node, d)
    BY DEF Ends
  <2>1. h.inRec = 0
    <3>1. l + 1 \in i .. Len(r)
      BY <1>1
    <3> QED
      BY <1>1, <3>1
  <2>2. Far(h.to, d) < Far(n, d)
    <3>1. Near(Spot(h.to), d) < Far(n, d)
      BY <1>10, <2>1 DEF FairHop
    <3>2. ~(Far(n, d) <= Far(h.to, d))
      BY <1>1, <2>1, <3>1 DEF Strays
    <3> QED
      BY <1>2, <1>10, <3>2
  <2>3. CASE i = l + 1
    BY <1>1, <2>2, <2>3
  <2>4. CASE i # l + 1
    <3>1. i \in 1 .. l /\ \A k \in i .. l : k \in i .. Len(r)
      BY <1>1, <2>4
    <3>2. Far(n, d) < Far(s[i].node, d)
      BY <1>1, <1>7, <3>1
    <3>3. /\ Far(h.to, d) \in Int /\ Far(n, d) \in Int /\ Far(s[i].node, d) \in Int
          /\ r[i] = s[i]
      BY <1>1, <1>2, <1>3, <1>10, <3>1
    <3> QED
      BY <2>2, <3>2, <3>3
  <2> QED
    BY <2>3, <2>4
<1> QED
  BY <1>8, <1>9, <1>10 DEF GoodRoute, r

------------------------------------------------------------------------------
(* The invariant of a network at rest. *)

\* A copy carries the position of its destination and the last hop of its route.
Follows(c, s) ==
  /\ RestEntry(EntryOfData(DataHeaderOf(c), Dst[c.packet]))
  /\ LastHop(s, DataHeaderOf(c).inRec, DataHeaderOf(c).recPos)
  /\ GoodRoute(s, c.to, Dst[c.packet])

RestTables == \A n \in Nodes : RestTable(n, m_positionTable[n])
RestRoutes ==
  /\ \A p \in Packets :
       /\ route[p] \in Seq(RestHop)
       /\ Falls(route[p], Dst[p]) /\ Advances(route[p], Dst[p])
  /\ \A c \in air : Follows(c, route[c.packet])
RestInv == RestTables /\ RestRoutes

LEMMA CarriedAtRest ==
  ASSUME AtRest, NEW d \in Nodes, NEW rt, rt.adress = d, RestEntry(rt),
         NEW recPos, NEW inRec, NEW uid, NEW hop
  PROVE  RestEntry(EntryOfData(DataOf(rt, recPos, inRec, uid, hop), d))
<1> DEFINE e == EntryOfData(DataOf(rt, recPos, inRec, uid, hop), d)
<1>1. rt.pos = Spot(d) /\ rt.vel = Origin
  BY DEF RestEntry
<1>2. /\ e.pos = Words(rt.pos) /\ e.adress = d
      /\ e.vel = Shorts(GetRightVelocity(Words(Magnitude(rt.vel)), SetRightVelocity(rt.vel)))
  BY DEF EntryOfData, DataOf
<1> HIDE DEF e
<1>3. e.pos = Spot(d) /\ e.vel = Origin
  BY <1>1, <1>2, SpotsFit, OriginCarried
<1>4. RestEntry(e)
  BY <1>2, <1>3 DEF RestEntry
<1> QED
  BY <1>4 DEF e

LEMMA HandledAtRest ==
  ASSUME NEW n \in Nodes, NEW table, RestTable(n, table)
  PROVE  /\ RestTable(n, PurgeRoutes(table, now))
         /\ \A r \in Entry : r.adress # n /\ RestEntry(r) =>
              RestTable(n, Update(table, r)) /\ RestTable(n, Merge(table, r))
<1>1. RestTable(n, PurgeRoutes(table, now))
  BY DEF PurgeRoutes, RestTable
<1>2. ASSUME NEW r \in Entry, r.adress # n, RestEntry(r)
      PROVE  RestTable(n, Update(table, r)) /\ RestTable(n, Merge(table, r))
  <2>1. RestTable(n, Update(table, r))
    BY <1>2 DEF Update, RestTable
  <2>2. Merge(table, r) \in {table, Update(table, r)}
    BY DEF Merge
  <2> QED
    BY <2>1, <2>2
<1> QED
  BY <1>1, <1>2

LEMMA TableAtRest ==
  ASSUME TablesTyped, RestTables, NEW n \in Nodes, NEW table, RestTable(n, table),
         m_positionTable' = [m_positionTable EXCEPT ![n] = table]
  PROVE  RestTables'
BY DEF TablesTyped, RestTables, RestTable

\* Packets leave by one hop.
LEMMA SentAtRest ==
  ASSUME AtRest, ForwardInv, RestRoutes,
         NEW n \in Nodes, NEW d \in Nodes, NEW table \in SUBSET Entry,
         RestTable(n, table), HasRoute(table, d),
         NEW inRec \in {0, 1}, NEW recPos \in Vector16,
         NEW h \in Hops(n, table, d, inRec, recPos),
         NEW stay \in SUBSET air, NEW ps \in SUBSET Packets,
         NEW dst \in Entry, dst.adress = d, RestEntry(dst), NEW hop \in 0 .. HopLimit,
         Transmit(stay, ps, n, h, dst, hop), \A c \in stay : c.packet \notin ps,
         \A p \in ps : /\ Dst[p] = d /\ GoodRoute(route[p], n, d)
                       /\ LastHop(route[p], inRec, recPos)
  PROVE  RestRoutes'
<1> DEFINE data == DataOf(dst, h.recPos, h.inRec, NoUid, hop)
           copy(p) == [packet |-> p, from |-> n, to |-> h.to, header |-> SerializeData(data)]
           e == [node |-> n, inRec |-> h.inRec, recPos |-> h.recPos]
<1>1. now \in Seconds /\ CopiesTyped
  BY DEF ForwardInv, OthersTyped
<1>2. h \in Hop
  BY <1>1, VectorsOfWords, HopsTyped
<1>3. FairHop(n, d, inRec, recPos, h)
  BY <1>1, HopAtRest
<1>4. h.recPos \in Vector16 /\ h.inRec \in {0, 1} /\ h.recPos \in Vector
  BY <1>2, <1>3 DEF FairHop, Hop
<1>5. e \in RestHop /\ e.node = n /\ e.inRec = h.inRec /\ e.recPos = h.recPos
  BY <1>4 DEF RestHop, RouteHop
<1>6. data \in DataHeader /\ data.inRec = h.inRec /\ data.recPos = h.recPos
  <2>1. Words(h.recPos) = h.recPos
    <3>1. \A a \in Axes : Uint16(h.recPos[a]) = h.recPos[a]
      BY <1>4, WidthsTyped DEF Vector16
    <3>2. h.recPos = [a \in Axes |-> h.recPos[a]]
      BY <1>4 DEF Vector16
    <3> QED
      BY <3>1, <3>2 DEF Words
  <2> QED
    BY <1>4, <2>1, DataTyped
<1>7. RestEntry(EntryOfData(data, d))
  BY CarriedAtRest
<1> HIDE DEF data
<1>8. DeserializeData(SerializeData(data)) = data
  BY <1>6, DataRoundTrip
<1>9. \A p \in ps : DataHeaderOf(copy(p)) = data /\ copy(p).packet = p /\ copy(p).to = h.to
  BY <1>8 DEF DataHeaderOf
<1>10. \A c \in air' : c \in stay \/ \E p \in ps : c = copy(p)
  BY DEF Transmit, data
<1>11. /\ \A p \in ps : route'[p] = Append(route[p], e)
       /\ \A p \in Packets \ ps : route'[p] = route[p]
  BY DEF Transmit
<1> HIDE DEF e, copy
<1>12. ASSUME NEW p \in ps
       PROVE  /\ route'[p] \in Seq(RestHop) /\ GoodRoute(route'[p], h.to, Dst[p])
              /\ Follows(copy(p), route'[p])
  <2>1. route[p] \in Seq(RestHop)
    BY DEF RestRoutes
  <2>2. route'[p] = Append(route[p], e) /\ e \in RestHop
    BY <1>5, <1>11
  <2>3. /\ GoodRoute(Append(route[p], e), h.to, d)
        /\ Append(route[p], e) \in Seq(RestHop) /\ Append(route[p], e) # <<>>
        /\ Append(route[p], e)[Len(Append(route[p], e))] = e
    <3> DEFINE s == route[p]
    <3>1. s \in Seq(RestHop) /\ GoodRoute(s, n, d) /\ LastHop(s, inRec, recPos)
      BY <2>1
    <3> HIDE DEF s
    <3>2. GoodRoute(Append(s, e), h.to, d)
      BY <1>3, <1>5, <3>1, RouteGrows
    <3>3. /\ Append(s, e) \in Seq(RestHop) /\ Append(s, e) # <<>>
          /\ Append(s, e)[Len(Append(s, e))] = e
      <4>1. e \in RestHop /\ s \in Seq(RestHop)
        BY <2>2, <3>1
      <4> QED
        BY <4>1, AppendProperties, LenProperties
    <3> QED
      BY <3>2, <3>3 DEF s
  <2>4. LastHop(route'[p], h.inRec, h.recPos)
    BY <1>5, <2>2, <2>3 DEF LastHop
  <2>5. Dst[p] = d
    OBVIOUS
  <2> QED
    BY <1>6, <1>7, <1>9, <2>2, <2>3, <2>4, <2>5 DEF Follows
<1>13. ASSUME NEW c \in air' PROVE Follows(c, route'[c.packet])
  <2>1. CASE c \in stay
    <3>1. c.packet \in Packets \ ps /\ c \in air
      BY <1>1, <2>1 DEF CopiesTyped, CopyTyped
    <3> QED
      BY <1>11, <3>1 DEF RestRoutes
  <2>2. ASSUME NEW p \in ps, c = copy(p) PROVE Follows(c, route'[c.packet])
    BY <1>9, <1>12, <2>2
  <2> QED
    BY <1>10, <2>1, <2>2
<1>14. \A p \in Packets :
         /\ route'[p] \in Seq(RestHop)
         /\ Falls(route'[p], Dst[p]) /\ Advances(route'[p], Dst[p])
  BY <1>11, <1>12 DEF RestRoutes, GoodRoute
<1>15. \A c \in air' : Follows(c, route'[c.packet])
  BY <1>13
<1> QED
  BY <1>14, <1>15 DEF RestRoutes

------------------------------------------------------------------------------
(* The steps. *)

\* Some copies go and nothing is transmitted.
LEMMA QuietAtRest ==
  ASSUME RestRoutes, air' \subseteq air, route' = route
  PROVE  RestRoutes'
BY DEF RestRoutes, Follows

LEMMA EmptyRoute ==
  ASSUME NEW s, s = <<>>, NEW n, NEW d, NEW recPos
  PROVE  GoodRoute(s, n, d) /\ LastHop(s, 0, recPos)
BY DEF GoodRoute, Falls, Advances, Ends, LastHop

LEMMA RouteOutputAtRest ==
  ASSUME AtRest, ForwardInv, RestInv, NEW p \in Packets, RouteOutput(p)
  PROVE  RestInv'
<1> DEFINE n == Src[p]
           d == Dst[p]
           table == PurgeRoutes(m_positionTable[n], now)
           hops == IF HasRoute(table, d) THEN Hops(n, table, d, 0, Origin) ELSE {}
           ps == {p}
<1>1. RestTables /\ RestRoutes /\ TablesTyped /\ RouteTyped /\ Once /\ Counted
  BY DEF RestInv, ForwardInv
<1>2. n \in Nodes /\ d \in Nodes
  BY ForwardingAssumption
<1>3. RestTable(n, table) /\ table \in SUBSET Entry
  <2>1. RestTable(n, table)
    BY <1>1, <1>2, HandledAtRest DEF RestTables
  <2> QED
    BY <2>1 DEF RestTable
<1>4. m_positionTable' = [m_positionTable EXCEPT ![n] = table]
  BY DEF RouteOutput
<1>5. \/ air' = air /\ route' = route
      \/ \E h \in hops : Transmit(air, ps, n, h, LookupRoute(table, d), 1)
  BY DEF RouteOutput
<1>6. fate[p] = "new"
  BY DEF RouteOutput
<1>7. route[p] = <<>> /\ \A c \in air : c.packet \notin ps
  <2>1. route[p] \in Seq(RouteHop) /\ Len(route[p]) = 0
    BY <1>1, <1>6 DEF RouteTyped, Counted
  <2>2. p \notin OnItsWay(fate)
    BY <1>6 DEF OnItsWay
  <2> QED
    BY <1>1, <2>1, <2>2, PacketsOfSets DEF Once, Parted
<1>8. ps \in SUBSET Packets /\ \A q \in ps : q = p
  OBVIOUS
<1> HIDE DEF n, table, ps
<1>9. RestTables'
  BY <1>1, <1>2, <1>3, <1>4, TableAtRest
<1>10. ASSUME NEW h \in hops, Transmit(air, ps, n, h, LookupRoute(table, d), 1)
       PROVE  RestRoutes'
  <2>1. h \in Hops(n, table, d, 0, Origin) /\ HasRoute(table, d)
    BY <1>10
  <2>2. LookupRoute(table, d) \in table /\ LookupRoute(table, d).adress = d
    BY <2>1 DEF HasRoute, LookupRoute
  <2>3. LookupRoute(table, d) \in Entry /\ RestEntry(LookupRoute(table, d))
    BY <1>3, <2>2 DEF RestTable
  <2>4. Origin \in Vector16 /\ 1 \in 0 .. HopLimit
    <3>1. Origin \in Vector16
      BY WordsAreNaturals, OriginIsZero DEF Vector16, Origin, Axes
    <3>2. HopLimit \in Nat \ {0}
      BY ForwardingAssumption, WordsAreNaturals
    <3> QED
      BY <3>1, <3>2
  <2>5. \A q \in ps : /\ Dst[q] = d /\ GoodRoute(route[q], n, d)
                      /\ LastHop(route[q], 0, Origin)
    BY <1>7, <1>8, EmptyRoute
  <2> HIDE DEF d, hops
  <2> QED
    BY <1>1, <1>2, <1>3, <1>7, <1>8, <1>10, <2>1, <2>2, <2>3, <2>4, <2>5, SentAtRest
<1>11. air' = air /\ route' = route => RestRoutes'
  BY <1>1, QuietAtRest
<1> HIDE DEF hops, d
<1> QED
  BY <1>5, <1>9, <1>10, <1>11 DEF RestInv

LEMMA RecvAtRest ==
  ASSUME AtRest, ForwardInv, RestInv, NEW n \in Nodes, NEW o \in Nodes, n # o,
         NEW t \in Seconds, now - FloodTime <= t, RecvMyprotocol(n, o, t)
  PROVE  RestInv'
<1> DEFINE known == Update(m_positionTable[n], Report(o, t))
           table == PurgeRoutes(known, now)
           waiting == {p \in m_queue : Src[p] = n /\ Dst[p] = o}
           hops == Hops(n, table, o, 0, Origin)
<1>1. /\ RestTables /\ RestRoutes /\ TablesTyped /\ RouteTyped /\ OthersTyped /\ Once
      /\ Counted
  BY DEF RestInv, ForwardInv
<1>2. Report(o, t) \in Entry /\ Report(o, t).adress = o /\ RestEntry(Report(o, t))
  BY ReportTyped, RestReport
<1>3. RestTable(n, known) /\ RestTable(n, table) /\ table \in SUBSET Entry
  <2>1. RestTable(n, m_positionTable[n])
    BY <1>1 DEF RestTables
  <2>2. RestTable(n, known)
    BY <1>2, <2>1, HandledAtRest
  <2> HIDE DEF known
  <2>3. RestTable(n, table)
    BY <2>2, HandledAtRest
  <2> QED
    BY <2>2, <2>3 DEF RestTable
<1>4. HasRoute(table, o)
  <2>1. Report(o, t).timestamp = t
    <3>1. Report(o, t).timestamp = Uint16(t)
      BY DEF Report, EntryOfReport, ReportOf
    <3>2. Uint16(t) = t
      BY SecondsFit DEF AtRest
    <3> QED
      BY <3>1, <3>2
  <2>2. EntryLifeTime + t > now
    <3>1. /\ t \in Nat /\ now \in Nat
          /\ FloodTime \in Nat /\ EntryLifeTime \in Nat /\ FloodTime < EntryLifeTime
      BY <1>1, SecondsCount, ForwardingAssumption DEF OthersTyped
    <3> QED
      BY <3>1
  <2>3. Report(o, t) \in known
    BY DEF Update
  <2> HIDE DEF known
  <2> QED
    BY <1>2, <2>1, <2>2, <2>3 DEF PurgeRoutes, HasRoute
<1>5. /\ m_positionTable' \in {[m_positionTable EXCEPT ![n] = known],
                               [m_positionTable EXCEPT ![n] = table]}
      /\ \/ air' = air /\ route' = route
         \/ \E h \in hops : Transmit(air, waiting, n, h, Report(o, t), 0)
  BY DEF RecvMyprotocol
<1>6. waiting \in SUBSET Packets /\ \A p \in waiting : p \in m_queue /\ Dst[p] = o
  BY <1>1 DEF OthersTyped
<1> HIDE DEF known, table, waiting, hops
<1>7. RestTables'
  BY <1>1, <1>3, <1>5, TableAtRest
<1>8. ASSUME NEW h \in hops, Transmit(air, waiting, n, h, Report(o, t), 0)
      PROVE  RestRoutes'
  <2>1. \A c \in air : c.packet \notin waiting
    BY <1>1, <1>6, PacketsOfSets DEF Once, Parted
  <2>2. Origin \in Vector16 /\ 0 \in 0 .. HopLimit
    <3>1. Origin \in Vector16
      BY WordsAreNaturals, OriginIsZero DEF Vector16, Origin, Axes
    <3>2. HopLimit \in Nat
      BY ForwardingAssumption, WordsAreNaturals
    <3> QED
      BY <3>1, <3>2
  <2>3. ASSUME NEW p \in waiting
        PROVE  Dst[p] = o /\ GoodRoute(route[p], n, o) /\ LastHop(route[p], 0, Origin)
    <3>1. route[p] \in Seq(RouteHop) /\ Len(route[p]) = 0
      BY <1>1, <1>6 DEF RouteTyped, Counted
    <3>2. route[p] = <<>>
      BY <3>1
    <3> QED
      BY <1>6, <3>2, EmptyRoute
  <2>4. h \in Hops(n, table, o, 0, Origin)
    BY <1>8 DEF hops
  <2> QED
    BY <1>1, <1>2, <1>3, <1>4, <1>6, <1>8, <2>1, <2>2, <2>3, <2>4, SentAtRest
<1>9. air' = air /\ route' = route => RestRoutes'
  BY <1>1, QuietAtRest
<1> QED
  BY <1>5, <1>7, <1>8, <1>9 DEF RestInv

LEMMA ForwardAtRest ==
  ASSUME AtRest, ForwardInv, RestInv, NEW c \in air, c.to \in Nodes, Forward(c)
  PROVE  RestInv'
<1> DEFINE n == c.to
           d == Dst[c.packet]
           header == DataHeaderOf(c)
           carried == EntryOfData(header, d)
           table == Merge(PurgeRoutes(m_positionTable[n], now), carried)
           known == LookupRoute(table, d)
           dst == IF known.timestamp > carried.timestamp THEN known ELSE carried
           hops == Hops(n, table, d, header.inRec, header.recPos)
           ps == {c.packet}
           stay == air \ {c}
<1>1. RestTables /\ RestRoutes /\ TablesTyped /\ Once /\ CopyTyped(c)
  BY DEF RestInv, ForwardInv, CopiesTyped
<1>2. d \in Nodes /\ c.packet \in Packets /\ n # d
  BY <1>1, ForwardingAssumption DEF CopyTyped, Forward
<1>3. Follows(c, route[c.packet])
  BY <1>1 DEF RestRoutes
<1>4. carried \in Entry /\ carried.adress = d /\ RestEntry(carried)
  <2>1. carried.adress = d
    BY DEF EntryOfData
  <2>2. carried \in Entry
    BY <1>1, <1>2, CarriedTyped
  <2> QED
    BY <1>3, <2>1, <2>2 DEF Follows
<1>5. /\ HopLimit \in Nat /\ header.hop \in Nat
      /\ header.inRec \in {0, 1} /\ header.recPos \in Vector16
  <2>1. /\ header.hop \in Word /\ header.inRec \in {0, 1} /\ header.recPos \in Vector16
    BY <1>1 DEF CopyTyped, DataHeader
  <2> QED
    BY <2>1, ForwardingAssumption, WordsAreNaturals
<1>6. \/ /\ stay = air'
         /\ \/ m_positionTable' = m_positionTable
            \/ m_positionTable' = [m_positionTable EXCEPT ![n] = table]
         /\ route' = route
      \/ /\ ~HopsSpent(header.hop)
         /\ m_positionTable' = [m_positionTable EXCEPT ![n] = table]
         /\ \E h \in hops : Transmit(stay, ps, n, h, dst, header.hop + 1)
  BY DEF Forward
<1>7. stay \in SUBSET air /\ ps \in SUBSET Packets /\ \A b \in stay : b.packet \notin ps
  BY <1>1, <1>2, PacketsOfSets DEF Once
<1>8. \A q \in ps : q = c.packet
  OBVIOUS
<1> HIDE DEF carried, header, d, ps, stay
<1>9. RestTable(n, table) /\ table \in SUBSET Entry
  <2>1. RestTable(n, PurgeRoutes(m_positionTable[n], now))
    BY <1>1, HandledAtRest DEF RestTables
  <2>2. RestTable(n, table)
    BY <1>2, <1>4, <2>1, HandledAtRest
  <2> QED
    BY <2>2 DEF RestTable
<1>10. HasRoute(table, d)
  BY <1>4 DEF HasRoute, Merge, Update
<1>11. dst \in Entry /\ dst.adress = d /\ RestEntry(dst)
  <2>1. known \in table /\ known.adress = d
    BY <1>10 DEF HasRoute, LookupRoute
  <2>2. known \in Entry /\ RestEntry(known)
    BY <1>9, <2>1 DEF RestTable
  <2> HIDE DEF known, table
  <2> QED
    BY <1>4, <2>1, <2>2
<1> HIDE DEF table, dst, known, hops
<1>12. RestTables'
  <2>1. m_positionTable' = m_positionTable => RestTables'
    BY <1>1 DEF RestTables
  <2>2. m_positionTable' = [m_positionTable EXCEPT ![n] = table] => RestTables'
    BY <1>1, <1>9, TableAtRest
  <2> QED
    BY <1>6, <2>1, <2>2
<1>13. stay = air' /\ route' = route => RestRoutes'
  BY <1>1, <1>7, QuietAtRest
<1>14. ASSUME ~HopsSpent(header.hop), NEW h \in hops,
              Transmit(stay, ps, n, h, dst, header.hop + 1)
       PROVE  RestRoutes'
  <2>1. header.hop + 1 \in 0 .. HopLimit
    BY <1>5, <1>14 DEF HopsSpent
  <2>2. h \in Hops(n, table, d, header.inRec, header.recPos)
    BY <1>14 DEF hops
  <2>3. \A q \in ps : /\ Dst[q] = d /\ GoodRoute(route[q], n, d)
                      /\ LastHop(route[q], header.inRec, header.recPos)
    BY <1>3, <1>8 DEF Follows, d, header
  <2> HIDE DEF n
  <2>4. n \in Nodes
    BY DEF n
  <2> QED
    BY <1>1, <1>2, <1>5, <1>7, <1>9, <1>10, <1>11, <1>14, <2>1, <2>2, <2>3, <2>4, SentAtRest
<1> QED
  BY <1>6, <1>12, <1>13, <1>14 DEF RestInv

LEMMA InitAtRest ==
  ASSUME AtRest, Init PROVE RestInv
<1>1. RestTables
  <2>1. ASSUME NEW n \in Nodes, NEW h \in Informed, h[1] = n
        PROVE  /\ Report(h[2], 0) \in Entry /\ Report(h[2], 0).adress # n
               /\ RestEntry(Report(h[2], 0))
    <3>1. h[2] \in Nodes /\ h[2] # n /\ 0 \in Seconds
      BY <2>1, ForwardingAssumption, SecondsCount
    <3> QED
      BY <3>1, ReportTyped, RestReport
  <2>2. BroadcastEntry.adress \notin Nodes
    BY ForwardingAssumption DEF BroadcastEntry
  <2>3. BroadcastEntry \in Entry /\ RestEntry(BroadcastEntry)
    BY <2>2, BroadcastTyped DEF RestEntry
  <2>4. \A n \in Nodes : m_positionTable[n] =
          {BroadcastEntry} \cup {Report(h[2], 0) : h \in {h \in Informed : h[1] = n}}
    BY DEF Init
  <2> QED
    BY <2>1, <2>2, <2>3, <2>4 DEF RestTables, RestTable
<1>2. RestRoutes
  <2>1. air = {} /\ \A p \in Packets : route[p] = <<>>
    BY DEF Init
  <2>2. \A d : Falls(<<>>, d) /\ Advances(<<>>, d)
    BY DEF Falls, Advances
  <2>3. <<>> \in Seq(RestHop)
    BY EmptySeq
  <2>4. \A p \in Packets :
          /\ route[p] \in Seq(RestHop)
          /\ Falls(route[p], Dst[p]) /\ Advances(route[p], Dst[p])
    BY <2>1, <2>2, <2>3
  <2>5. \A c \in air : Follows(c, route[c.packet])
    BY <2>1
  <2> QED
    BY <2>4, <2>5 DEF RestRoutes
<1> QED
  BY <1>1, <1>2 DEF RestInv

LEMMA StepAtRest ==
  ASSUME AtRest, ForwardInv, RestInv, [Next]_vars
  PROVE  RestInv'
<1>1. ASSUME NEW p \in Packets, RouteOutput(p) PROVE RestInv'
  BY <1>1, RouteOutputAtRest
<1>2. ASSUME m_positionTable' = m_positionTable, air' \subseteq air, route' = route
      PROVE  RestInv'
  <2>1. RestTables'
    BY <1>2 DEF RestInv, RestTables
  <2>2. RestRoutes'
    BY <1>2, QuietAtRest DEF RestInv
  <2> QED
    BY <2>1, <2>2 DEF RestInv
<1>3. ASSUME NEW h \in Heard, NEW t \in Seconds, now - FloodTime <= t,
             RecvMyprotocol(h[1], h[2], t)
      PROVE  RestInv'
  <2>1. h[1] \in Nodes /\ h[2] \in Nodes /\ h[1] # h[2]
    BY ForwardingAssumption
  <2> QED
    BY <1>3, <2>1, RecvAtRest
<1>4. ASSUME NEW c \in air, RouteInput(c) PROVE RestInv'
  <2>1. CASE Return(c) \/ LocalDeliver(c)
    BY <1>2, <2>1 DEF Return, LocalDeliver
  <2>2. CASE Forward(c)
    BY <1>4, <2>2, ForwardAtRest DEF RouteInput, InReach
  <2> QED
    BY <1>4, <2>1, <2>2 DEF RouteInput
<1>5. ASSUME NEW c \in air, Lose(c) PROVE RestInv'
  BY <1>2, <1>5 DEF Lose
<1>6. CASE Tick
  BY <1>2, <1>6 DEF Tick
<1>7. CASE UNCHANGED vars
  BY <1>2, <1>7 DEF vars
<1>8. ASSUME NEW l \in loopback, RouteInputLoopback(l) PROVE RestInv'
  BY <1>2, <1>8 DEF RouteInputLoopback
<1> QED
  BY <1>1, <1>3, <1>4, <1>5, <1>6, <1>7, <1>8 DEF Next

------------------------------------------------------------------------------
LEMMA TablesMean ==
  ASSUME AtRest, now \in Seconds
  PROVE  /\ \A n \in Nodes : Here(n) = Place[n][0] /\ Told(n) = Said(n)
         /\ \A v : Began(v) = {n \in Nodes : Spot(n) = v}
BY DEF AtRest, Here, Told, Said, Spot, Began

LEMMA MisledAtRest ==
  ASSUME AtRest, now \in Seconds, NEW b, b.node \in Nodes, NEW n \in Nodes, NEW d \in Nodes,
         Strays(b, n, d)
  PROVE  Misled(b, n, d)
<1>1. /\ Distance2(Told(n), Told(d)) = Near(Spot(n), d)
      /\ Distance2(Scaled(b.recPos), Told(d)) = Near(b.recPos, d)
      /\ Distance2(Here(n), Told(d)) = Far(n, d)
      /\ Distance2(Here(b.node), Told(d)) = Far(b.node, d)
      /\ \A e \in Nodes : Distance2(Here(e), Told(d)) = Far(e, d)
  BY TablesMean DEF Near, Far, Said
<1>2. Began(b.recPos) = {e \in Nodes : Spot(e) = b.recPos}
  BY TablesMean
<1> QED
  BY <1>1, <1>2 DEF Strays, Misled

LEMMA RestSaysWhat ==
  ASSUME AtRest, ForwardInv, RestInv
  PROVE  NoGreedyLoop /\ RecoveryAdvances
<1>1. \A m, d \in Nodes : Far(m, d) \in Int
  <2>1. Origin \in Vector16
    BY WordsAreNaturals, OriginIsZero DEF Vector16, Origin, Axes
  <2> QED
    BY <2>1, DistancesTyped
<1>2. \A n \in Nodes : Here(n) = Place[n][0]
  BY DEF ForwardInv, OthersTyped, AtRest, Here
<1>3. \A p \in Packets : \A i \in DOMAIN route[p] :
        Dst[p] \in Nodes /\ route[p][i].node \in Nodes
  <2> SUFFICES ASSUME NEW p \in Packets, NEW i \in DOMAIN route[p]
               PROVE  Dst[p] \in Nodes /\ route[p][i].node \in Nodes
    OBVIOUS
  <2>1. route[p] \in Seq(RestHop)
    BY DEF RestInv, RestRoutes
  <2>2. route[p][i] \in RestHop
    BY <2>1
  <2> QED
    BY <2>2, ForwardingAssumption DEF RestHop, RouteHop
<1>4. \A p \in Packets : /\ route[p] \in Seq(RestHop)
                          /\ Falls(route[p], Dst[p]) /\ Advances(route[p], Dst[p])
  BY DEF RestInv, RestRoutes
<1>5. /\ now \in Seconds /\ \A n \in Nodes : Told(n) = Said(n)
      /\ \A v : Began(v) = {n \in Nodes : Spot(n) = v}
  BY TablesMean DEF ForwardInv, OthersTyped
<1>6. ASSUME NEW p \in Packets, NEW i \in DOMAIN route[p], NEW j \in DOMAIN route[p]
      PROVE  Straight(route[p], i, j, Dst[p]) \/ MisledBetween(p, i, j)
  <2> DEFINE s == route[p]
             d == Dst[p]
  <2>1. ASSUME NEW k \in i .. j - 1, Strays(s[k], s[k + 1].node, d)
        PROVE  Misled(s[k], s[k + 1].node, d)
    <3>1. k \in DOMAIN s /\ k + 1 \in DOMAIN s
      <4>1. DOMAIN s = 1 .. Len(s) /\ Len(s) \in Nat
        BY <1>4
      <4> QED
        BY <4>1
    <3>2. s[k].node \in Nodes /\ s[k + 1].node \in Nodes /\ d \in Nodes
      BY <1>3, <3>1
    <3> QED
      BY <1>5, <2>1, <3>2, MisledAtRest
  <2> QED
    BY <2>1 DEF Straight, MisledBetween
<1>7. NoGreedyLoop
  <2> SUFFICES ASSUME NEW p \in Packets, NEW i \in DOMAIN route[p], NEW j \in DOMAIN route[p],
                      i < j, \A k \in i .. j : route[p][k].inRec = 0,
                      ~MisledBetween(p, i, j)
               PROVE  route[p][i].node # route[p][j].node
    BY DEF NoGreedyLoop
  <2>1. i \in Int /\ j \in Int
    BY <1>4
  <2>2. \A k \in i .. j - 1 : k \in i .. j
    BY <2>1
  <2>3. Straight(route[p], i, j, Dst[p])
    BY <1>6
  <2>4. Far(route[p][j].node, Dst[p]) < Far(route[p][i].node, Dst[p])
    BY <1>4, <2>2, <2>3 DEF Falls
  <2> QED
    BY <1>1, <1>3, <2>4
<1>8. RecoveryAdvances
  <2> SUFFICES ASSUME NEW p \in Packets, NEW i \in DOMAIN route[p], NEW j \in DOMAIN route[p],
                      i < j, route[p][i].inRec = 1, ~MisledBetween(p, i, j)
               PROVE  \/ route[p][j].inRec = 1 /\ route[p][j].recPos = route[p][i].recPos
                      \/ \E n \in IF route[p][j].inRec = 1 THEN Began(route[p][j].recPos)
                                                          ELSE {route[p][j].node} :
                           \A e \in Began(route[p][i].recPos) :
                             Distance2(Here(n), Told(Dst[p])) < Distance2(Here(e), Told(Dst[p]))
    BY DEF RecoveryAdvances
  <2>1. Straight(route[p], i, j, Dst[p])
    BY <1>6
  <2>2. Goes(route[p][i], route[p][j], Dst[p])
    BY <1>4, <2>1 DEF Advances
  <2>3. CASE \E m \in Mark(route[p][j]) : \A e \in Mark(route[p][i]) :
               Far(m, Dst[p]) < Far(e, Dst[p])
    <3>1. PICK m \in Mark(route[p][j]) : \A e \in Mark(route[p][i]) :
                 Far(m, Dst[p]) < Far(e, Dst[p])
      BY <2>3
    <3>2. \A n \in Nodes : Far(n, Dst[p]) = Distance2(Here(n), Told(Dst[p]))
      BY <1>2, <1>3, <1>5 DEF Far
    <3>3. m \in Nodes /\ Mark(route[p][i]) = Began(route[p][i].recPos)
      BY <1>3, <1>5 DEF Mark
    <3>4. m \in IF route[p][j].inRec = 1 THEN Began(route[p][j].recPos)
                                        ELSE {route[p][j].node}
      BY <1>5 DEF Mark
    <3>5. \A e \in Began(route[p][i].recPos) :
            Distance2(Here(m), Told(Dst[p])) < Distance2(Here(e), Told(Dst[p]))
      BY <3>1, <3>2, <3>3 DEF Began
    <3> QED
      BY <3>4, <3>5
  <2> QED
    BY <2>2, <2>3 DEF Goes
<1> QED
  BY <1>7, <1>8

\* In any network at rest, what tables, routes and headers say fits together.
THEOREM RestInvariant ==
  ASSUME AtRest
  PROVE  Spec => []RestInv
<1>1. Init => RestInv
  BY InitAtRest
<1>2. ForwardInv /\ RestInv /\ [Next]_vars => RestInv'
  BY StepAtRest
<1> QED
  BY <1>1, <1>2, ForwardingInvariant, PTL DEF Spec

\* Greedy mode has no loops in any network at rest but through hops that whole metres
\* misled, whatever is lost, whoever knows of whom and whatever recovery mode picks.
THEOREM GreedyHasNoLoop ==
  ASSUME AtRest
  PROVE  Spec => []NoGreedyLoop
<1>1. ForwardInv /\ RestInv => NoGreedyLoop
  BY RestSaysWhat
<1> QED
  BY <1>1, RestInvariant, ForwardingInvariant, PTL

\* Recovery mode is left only nearer to the destination, in any network at rest, but
\* through hops that whole metres misled.
THEOREM RecoveryGoesForward ==
  ASSUME AtRest
  PROVE  Spec => []RecoveryAdvances
<1>1. ForwardInv /\ RestInv => RecoveryAdvances
  BY RestSaysWhat
<1> QED
  BY <1>1, RestInvariant, ForwardingInvariant, PTL
==============================================================================
