------------------------------- MODULE Motion --------------------------------
(***************************************************************************)
(* The arithmetic of positions: how a table predicts where a node is       *)
(* (model/myprotocol4-rtable.cc) and how a header carries a signed         *)
(* velocity in unsigned fields (model/myprotocol4-routing-protocol.cc).    *)
(* A vector is a triple of whole metres; an entry has the fields           *)
(* timestamp, pos and vel.                                                 *)
(***************************************************************************)
EXTENDS Integers

CONSTANT Area   \* <<maxX, maxY, maxZ>>: the area nodes are in (<<1000, 1000, 300>>)

Axes == 1 .. 3
Origin == <<0, 0, 0>>
Vector == [Axes -> Int]

\* Conversion to uint16_t and to int16_t.
Uint16(i) == i % 65536
Int16(i) == ((i + 32768) % 65536) - 32768

\* Conversion of a number of 1/unit to an integer: towards zero.
Truncated(i, unit) == IF i < 0 THEN -((-i) \div unit) ELSE i \div unit

Clamp(i, max) == IF i < 0 THEN 0 ELSE IF i > max THEN max ELSE i

\* Mutant, used by no specification: the last known position for the predicted.
PredictNothing(rt, seconds) == rt.pos

\* PredictPosition for an entry that is in the table.
PredictPosition(rt, seconds) ==
  [a \in Axes |->
     Clamp(Int16(rt.pos[a] + Uint16(seconds - rt.timestamp) * rt.vel[a]), Area[a])]

\* CalculateDistance, squared: it is only ever compared.
Distance2(u, v) ==
  (u[1] - v[1]) * (u[1] - v[1]) + (u[2] - v[2]) * (u[2] - v[2])
    + (u[3] - v[3]) * (u[3] - v[3])

------------------------------------------------------------------------------
\* What SetDstVelx (abs (vx)) and its like store.
Magnitude(v) == [a \in Axes |-> IF v[a] < 0 THEN -v[a] ELSE v[a]]

\* The components that are negative.
Negative(v) == {a \in Axes : v[a] < 0}

\* Mutant, used by no specification: the sign field left as it was made.
SetRightVelocityForgotten(v) == 0

\* SetRightVelocity: which components are negative, as a number.
SetRightVelocity(v) ==
  IF Negative(v) = {} THEN 0
  ELSE IF Negative(v) = {1} THEN 1
  ELSE IF Negative(v) = {2} THEN 2
  ELSE IF Negative(v) = {3} THEN 3
  ELSE IF Negative(v) = {1, 2} THEN 4
  ELSE IF Negative(v) = {1, 3} THEN 5
  ELSE IF Negative(v) = {2, 3} THEN 6
  ELSE IF Negative(v) = {1, 2, 3} THEN 7 ELSE 9

\* GetRightVelocity: the signs put back; nothing for a number that is none.
Signed(m, axes) == [a \in Axes |-> IF a \in axes THEN -m[a] ELSE m[a]]
GetRightVelocity(m, sign) ==
  IF sign = 0 THEN Signed(m, {})
  ELSE IF sign = 1 THEN Signed(m, {1})
  ELSE IF sign = 2 THEN Signed(m, {2})
  ELSE IF sign = 3 THEN Signed(m, {3})
  ELSE IF sign = 4 THEN Signed(m, {1, 2})
  ELSE IF sign = 5 THEN Signed(m, {1, 3})
  ELSE IF sign = 6 THEN Signed(m, {2, 3})
  ELSE IF sign = 7 THEN Signed(m, {1, 2, 3}) ELSE Origin

\* An entry after its way through a header.
Carried(rt) ==
  [rt EXCEPT !.vel = GetRightVelocity(Magnitude(rt.vel), SetRightVelocity(rt.vel))]
==============================================================================
