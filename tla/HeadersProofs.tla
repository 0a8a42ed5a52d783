---------------------------- MODULE HeadersProofs ----------------------------
(***************************************************************************)
(* What goes into a header comes out of it, and takes the bytes that       *)
(* GetSerializedSize says; and what the arithmetic of Motion makes of the  *)
(* position and the velocity in it.                                        *)
(***************************************************************************)
EXTENDS Headers, SequenceTheorems, TLAPS

------------------------------------------------------------------------------
(* Velocities and positions. *)

\* What SetRightVelocity and the absolute values put into a header, and
\* GetRightVelocity takes out (lines 956-1014), is the velocity that went in: the
\* sign number tells all eight combinations of signs apart.
THEOREM VelocitySurvives ==
  \A v \in Vector : GetRightVelocity(Magnitude(v), SetRightVelocity(v)) = v
<1>. SUFFICES ASSUME NEW v \in Vector
     PROVE  GetRightVelocity(Magnitude(v), SetRightVelocity(v)) = v
  OBVIOUS
<1>1. Axes = {1, 2, 3}
  BY DEF Axes
<1>2. Signed(Magnitude(v), Negative(v)) = v
  <2>1. \A a \in Axes : Signed(Magnitude(v), Negative(v))[a] = v[a]
    BY DEF Signed, Magnitude, Negative, Vector
  <2>. QED  BY <2>1 DEF Signed, Vector
<1>3. \/ Negative(v) = {}     \/ Negative(v) = {1}    \/ Negative(v) = {2}
      \/ Negative(v) = {3}    \/ Negative(v) = {1, 2} \/ Negative(v) = {1, 3}
      \/ Negative(v) = {2, 3} \/ Negative(v) = {1, 2, 3}
  <2>1. Negative(v) \subseteq {1, 2, 3}
    BY <1>1 DEF Negative
  <2>. QED  BY <2>1
<1>4. GetRightVelocity(Magnitude(v), SetRightVelocity(v)) = Signed(Magnitude(v), Negative(v))
  BY <1>3 DEF SetRightVelocity, GetRightVelocity
<1>. QED  BY <1>2, <1>4

\* A predicted position lies in the area, whatever the entry says and however its
\* arithmetic overflows (PredictPosition, rtable.cc:117-130).
THEOREM PredictionInArea ==
  ASSUME NEW rt, rt.pos \in Vector, rt.vel \in Vector, rt.timestamp \in Nat,
         NEW seconds \in Nat, Area \in [Axes -> Nat]
  PROVE  /\ PredictPosition(rt, seconds) \in [Axes -> Nat]
         /\ \A a \in Axes : PredictPosition(rt, seconds)[a] <= Area[a]
<1>1. ASSUME NEW i \in Int, NEW max \in Nat
      PROVE  Clamp(i, max) \in Nat /\ Clamp(i, max) <= max
  BY <1>1 DEF Clamp
<1>2. \A a \in Axes :
        Int16(rt.pos[a] + Uint16(seconds - rt.timestamp) * rt.vel[a]) \in Int
  BY DEF Int16, Uint16, Vector
<1>3. \A a \in Axes : Area[a] \in Nat
  OBVIOUS
<1>. QED  BY <1>1, <1>2, <1>3 DEF PredictPosition

\* The prediction is exact, overflow and clamping notwithstanding: for an entry less
\* than 2^16 seconds old of a node that has moved at its reported velocity inside an
\* area of at most 2^15 metres, it is where the node is.
THEOREM PredictionExact ==
  ASSUME NEW rt, rt.pos \in Vector, rt.vel \in Vector, rt.timestamp \in Nat,
         NEW seconds \in Nat, rt.timestamp <= seconds, seconds - rt.timestamp < 65536,
         Area \in [Axes -> Nat], \A a \in Axes : Area[a] < 32768,
         NEW where \in Vector, \A a \in Axes : where[a] >= 0 /\ where[a] <= Area[a],
         \A a \in Axes : where[a] = rt.pos[a] + (seconds - rt.timestamp) * rt.vel[a]
  PROVE  PredictPosition(rt, seconds) = where
<1>1. Uint16(seconds - rt.timestamp) = seconds - rt.timestamp
  BY DEF Uint16
<1>2. ASSUME NEW a \in Axes
      PROVE  Clamp(Int16(rt.pos[a] + Uint16(seconds - rt.timestamp) * rt.vel[a]), Area[a])
               = where[a]
  <2>1. rt.pos[a] + Uint16(seconds - rt.timestamp) * rt.vel[a] = where[a]
    BY <1>1
  <2>2. where[a] \in Int /\ Area[a] \in Nat
    BY DEF Vector
  <2>3. Int16(where[a]) = where[a]
    BY <2>2 DEF Int16
  <2>. QED  BY <2>1, <2>2, <2>3 DEF Clamp
<1>. QED  BY <1>2 DEF PredictPosition, Vector

------------------------------------------------------------------------------
(* Serialisation. *)

\* Two sequences one behind the other.
IsGlued(w, u, v, m, n) ==
  /\ w \in Seq(Word) /\ Len(w) = m + n
  /\ \A i \in 1 .. m : w[i] = u[i]
  /\ \A i \in 1 .. n : w[m + i] = v[i]

LEMMA Glue ==
  ASSUME NEW u \in Seq(Word), NEW v \in Seq(Word), NEW m \in Nat, NEW n \in Nat,
         Len(u) = m, Len(v) = n
  PROVE  IsGlued(u \o v, u, v, m, n)
BY DEF IsGlued

\* A tuple of words is a sequence of words.
LEMMA TupleIsSeq ==
  ASSUME NEW S, NEW n \in Nat, NEW f \in [1 .. n -> S]
  PROVE  f \in Seq(S) /\ Len(f) = n
OBVIOUS

\* A slice of a sequence, read word by word.
LEMMA Slice ==
  ASSUME NEW w \in Seq(Word), NEW m \in 1 .. Len(w), NEW n \in 1 .. Len(w), m <= n
  PROVE  SubSeq(w, m, n) = [i \in 1 .. n - m + 1 |-> w[m + i - 1]]
OBVIOUS

\* The words of a report.
LEMMA ReportWords ==
  ASSUME NEW h \in MyprotocolHeader
  PROVE  LET w == SerializeReport(h) IN
         /\ w \in Seq(Word) /\ Len(w) = 14
         /\ \A i \in 1 .. 3 : w[i] = h.pos[i] /\ w[3 + i] = h.vel[i]
         /\ w[7] = h.sign /\ w[8] = h.timestamp
         /\ \A i \in 1 .. 4 : w[8 + i] = h.uid[i]
         /\ \A i \in 1 .. 2 : w[12 + i] = h.myadress[i]
<1> DEFINE two == <<h.sign, h.timestamp>>
           a == h.pos \o h.vel
           b == a \o two
           c == b \o h.uid
           w == c \o h.myadress
<1>1. /\ h.pos \in Seq(Word) /\ Len(h.pos) = 3
      /\ h.vel \in Seq(Word) /\ Len(h.vel) = 3
      /\ h.uid \in Seq(Word) /\ Len(h.uid) = 4
      /\ h.myadress \in Seq(Word) /\ Len(h.myadress) = 2
  <2>1. /\ h.pos \in [1 .. 3 -> Word] /\ h.vel \in [1 .. 3 -> Word]
        /\ h.uid \in [1 .. 4 -> Word] /\ h.myadress \in [1 .. 2 -> Word]
    BY DEF MyprotocolHeader, Vector16, Uid, Address, Axes
  <2> QED
    BY <2>1, TupleIsSeq
<1>2. two \in Seq(Word) /\ Len(two) = 2 /\ two[1] = h.sign /\ two[2] = h.timestamp
  BY DEF MyprotocolHeader
<1> HIDE DEF two
<1>3. IsGlued(a, h.pos, h.vel, 3, 3)
  BY <1>1, Glue
<1> HIDE DEF a
<1>4. IsGlued(b, a, two, 6, 2)
  <2>1. a \in Seq(Word) /\ Len(a) = 6
    BY <1>3 DEF IsGlued
  <2> QED
    BY <1>2, <2>1, Glue
<1> HIDE DEF b
<1>5. IsGlued(c, b, h.uid, 8, 4)
  <2>1. b \in Seq(Word) /\ Len(b) = 8
    BY <1>4 DEF IsGlued
  <2> QED
    BY <1>1, <2>1, Glue
<1> HIDE DEF c
<1>6. IsGlued(w, c, h.myadress, 12, 2)
  <2>1. c \in Seq(Word) /\ Len(c) = 12
    BY <1>5 DEF IsGlued
  <2> QED
    BY <1>1, <2>1, Glue
<1>7. SerializeReport(h) = w
  BY DEF SerializeReport, a, b, c, two
<1> HIDE DEF w
<1> QED
  BY <1>2, <1>3, <1>4, <1>5, <1>6, <1>7 DEF IsGlued

\* What Serialize writes of a report Deserialize reads, in 28 bytes.
THEOREM ReportRoundTrip ==
  ASSUME NEW h \in MyprotocolHeader
  PROVE  /\ DeserializeReport(SerializeReport(h)) = h
         /\ 2 * Len(SerializeReport(h)) = MyprotocolHeaderSize
<1> DEFINE w == SerializeReport(h)
           r == DeserializeReport(w)
<1>1. /\ w \in Seq(Word) /\ Len(w) = 14
      /\ \A i \in 1 .. 3 : w[i] = h.pos[i] /\ w[3 + i] = h.vel[i]
      /\ w[7] = h.sign /\ w[8] = h.timestamp
      /\ \A i \in 1 .. 4 : w[8 + i] = h.uid[i]
      /\ \A i \in 1 .. 2 : w[12 + i] = h.myadress[i]
  BY ReportWords
<1> HIDE DEF w
<1>2. SubSeq(w, 1, 3) = h.pos /\ SubSeq(w, 4, 6) = h.vel
  <2>1. SubSeq(w, 1, 3) = [i \in 1 .. 3 |-> w[1 + i - 1]]
    BY <1>1, Slice
  <2>2. SubSeq(w, 4, 6) = [i \in 1 .. 3 |-> w[4 + i - 1]]
    BY <1>1, Slice
  <2> QED
    BY <1>1, <2>1, <2>2 DEF MyprotocolHeader, Vector16, Axes
<1>3. SubSeq(w, 9, 12) = h.uid
  <2>1. SubSeq(w, 9, 12) = [i \in 1 .. 4 |-> w[9 + i - 1]]
    BY <1>1, Slice
  <2> QED
    BY <1>1, <2>1 DEF MyprotocolHeader, Uid
<1>4. SubSeq(w, 13, 14) = h.myadress
  <2>1. SubSeq(w, 13, 14) = [i \in 1 .. 2 |-> w[13 + i - 1]]
    BY <1>1, Slice
  <2> QED
    BY <1>1, <2>1 DEF MyprotocolHeader, Address
<1>5. r = h
  BY <1>1, <1>2, <1>3, <1>4 DEF DeserializeReport, MyprotocolHeader
<1> QED
  BY <1>1, <1>5 DEF w, MyprotocolHeaderSize

\* The words of a data header.
LEMMA DataWords ==
  ASSUME NEW h \in DataHeader
  PROVE  LET w == SerializeData(h) IN
         /\ w \in Seq(Word) /\ Len(w) = 18
         /\ \A i \in 1 .. 3 : w[i] = h.dstPos[i] /\ w[3 + i] = h.dstVel[i]
         /\ w[7] = h.dstSign /\ w[8] = h.dstTimestamp
         /\ \A i \in 1 .. 3 : w[8 + i] = h.recPos[i]
         /\ w[12] = h.inRec
         /\ \A i \in 1 .. 4 : w[12 + i] = h.uid[i]
         /\ w[17] = h.hop /\ w[18] = h.error
<1> DEFINE two == <<h.dstSign, h.dstTimestamp>>
           one == <<h.inRec>>
           last == <<h.hop, h.error>>
           a == h.dstPos \o h.dstVel
           b == a \o two
           c == b \o h.recPos
           d == c \o one
           e == d \o h.uid
           w == e \o last
<1>1. /\ h.dstPos \in Seq(Word) /\ Len(h.dstPos) = 3
      /\ h.dstVel \in Seq(Word) /\ Len(h.dstVel) = 3
      /\ h.recPos \in Seq(Word) /\ Len(h.recPos) = 3
      /\ h.uid \in Seq(Word) /\ Len(h.uid) = 4
  <2>1. /\ h.dstPos \in [1 .. 3 -> Word] /\ h.dstVel \in [1 .. 3 -> Word]
        /\ h.recPos \in [1 .. 3 -> Word] /\ h.uid \in [1 .. 4 -> Word]
    BY DEF DataHeader, Vector16, Uid, Axes
  <2> QED
    BY <2>1, TupleIsSeq
<1>2. /\ two \in Seq(Word) /\ Len(two) = 2 /\ two[1] = h.dstSign /\ two[2] = h.dstTimestamp
      /\ one \in Seq(Word) /\ Len(one) = 1 /\ one[1] = h.inRec
      /\ last \in Seq(Word) /\ Len(last) = 2 /\ last[1] = h.hop /\ last[2] = h.error
  BY DEF DataHeader
<1> HIDE DEF two, one, last
<1>3. IsGlued(a, h.dstPos, h.dstVel, 3, 3)
  BY <1>1, Glue
<1> HIDE DEF a
<1>4. IsGlued(b, a, two, 6, 2)
  <2>1. a \in Seq(Word) /\ Len(a) = 6
    BY <1>3 DEF IsGlued
  <2> QED
    BY <1>2, <2>1, Glue
<1> HIDE DEF b
<1>5. IsGlued(c, b, h.recPos, 8, 3)
  <2>1. b \in Seq(Word) /\ Len(b) = 8
    BY <1>4 DEF IsGlued
  <2> QED
    BY <1>1, <2>1, Glue
<1> HIDE DEF c
<1>6. IsGlued(d, c, one, 11, 1)
  <2>1. c \in Seq(Word) /\ Len(c) = 11
    BY <1>5 DEF IsGlued
  <2> QED
    BY <1>2, <2>1, Glue
<1> HIDE DEF d
<1>7. IsGlued(e, d, h.uid, 12, 4)
  <2>1. d \in Seq(Word) /\ Len(d) = 12
    BY <1>6 DEF IsGlued
  <2> QED
    BY <1>1, <2>1, Glue
<1> HIDE DEF e
<1>8. IsGlued(w, e, last, 16, 2)
  <2>1. e \in Seq(Word) /\ Len(e) = 16
    BY <1>7 DEF IsGlued
  <2> QED
    BY <1>2, <2>1, Glue
<1>9. SerializeData(h) = w
  BY DEF SerializeData, a, b, c, d, e, two, one, last
<1> HIDE DEF w
<1>10. \A i \in 1 .. 12 : w[i] = d[i]
  <2>1. \A i \in 1 .. 12 : w[i] = e[i]
    BY <1>8 DEF IsGlued
  <2>2. \A i \in 1 .. 12 : e[i] = d[i]
    BY <1>7 DEF IsGlued
  <2> QED
    BY <2>1, <2>2
<1>11. /\ \A i \in 1 .. 3 : w[i] = h.dstPos[i] /\ w[3 + i] = h.dstVel[i]
       /\ w[7] = h.dstSign /\ w[8] = h.dstTimestamp
       /\ \A i \in 1 .. 3 : w[8 + i] = h.recPos[i]
       /\ w[12] = h.inRec
  <2>1. d[12] = h.inRec /\ \A i \in 1 .. 11 : d[i] = c[i]
    BY <1>2, <1>6 DEF IsGlued
  <2>2. (\A i \in 1 .. 8 : c[i] = b[i]) /\ \A i \in 1 .. 3 : c[8 + i] = h.recPos[i]
    BY <1>5 DEF IsGlued
  <2>3. /\ \A i \in 1 .. 6 : b[i] = a[i]
        /\ b[7] = h.dstSign /\ b[8] = h.dstTimestamp
    BY <1>2, <1>4 DEF IsGlued
  <2>4. \A i \in 1 .. 3 : a[i] = h.dstPos[i] /\ a[3 + i] = h.dstVel[i]
    BY <1>3 DEF IsGlued
  <2>5. \A i \in 1 .. 8 : w[i] = b[i]
    BY <1>10, <2>1, <2>2
  <2>6. \A i \in 1 .. 6 : w[i] = a[i]
    BY <2>5, <2>3
  <2>7. \A i \in 1 .. 3 : w[8 + i] = h.recPos[i]
    BY <1>10, <2>1, <2>2
  <2> QED
    BY <1>10, <2>1, <2>3, <2>4, <2>5, <2>6, <2>7
<1>12. /\ w \in Seq(Word) /\ Len(w) = 18
       /\ \A i \in 1 .. 4 : w[12 + i] = h.uid[i]
       /\ w[17] = h.hop /\ w[18] = h.error
  BY <1>2, <1>7, <1>8 DEF IsGlued
<1> QED
  BY <1>9, <1>11, <1>12

\* What Serialize writes of a data header Deserialize reads, in 36 bytes.
THEOREM DataRoundTrip ==
  ASSUME NEW h \in DataHeader
  PROVE  /\ DeserializeData(SerializeData(h)) = h
         /\ 2 * Len(SerializeData(h)) = DataHeaderSize
<1> DEFINE w == SerializeData(h)
           r == DeserializeData(w)
<1>1. /\ w \in Seq(Word) /\ Len(w) = 18
      /\ \A i \in 1 .. 3 : w[i] = h.dstPos[i] /\ w[3 + i] = h.dstVel[i]
      /\ w[7] = h.dstSign /\ w[8] = h.dstTimestamp
      /\ \A i \in 1 .. 3 : w[8 + i] = h.recPos[i]
      /\ w[12] = h.inRec
      /\ \A i \in 1 .. 4 : w[12 + i] = h.uid[i]
      /\ w[17] = h.hop /\ w[18] = h.error
  BY DataWords
<1> HIDE DEF w
<1>2. SubSeq(w, 1, 3) = h.dstPos /\ SubSeq(w, 4, 6) = h.dstVel
  <2>1. SubSeq(w, 1, 3) = [i \in 1 .. 3 |-> w[1 + i - 1]]
    BY <1>1, Slice
  <2>2. SubSeq(w, 4, 6) = [i \in 1 .. 3 |-> w[4 + i - 1]]
    BY <1>1, Slice
  <2> QED
    BY <1>1, <2>1, <2>2 DEF DataHeader, Vector16, Axes
<1>3. SubSeq(w, 9, 11) = h.recPos
  <2>1. SubSeq(w, 9, 11) = [i \in 1 .. 3 |-> w[9 + i - 1]]
    BY <1>1, Slice
  <2> QED
    BY <1>1, <2>1 DEF DataHeader, Vector16, Axes
<1>4. SubSeq(w, 13, 16) = h.uid
  <2>1. SubSeq(w, 13, 16) = [i \in 1 .. 4 |-> w[13 + i - 1]]
    BY <1>1, Slice
  <2> QED
    BY <1>1, <2>1 DEF DataHeader, Uid
<1>5. r = h
  BY <1>1, <1>2, <1>3, <1>4 DEF DeserializeData, DataHeader
<1> QED
  BY <1>1, <1>5 DEF w, DataHeaderSize
------------------------------------------------------------------------------
(* The integers that the setters are given, and what they make of them. *)

\* The width of the integers.
LEMMA WidthsTyped ==
  /\ \A i \in Int : Uint16(i) \in Word /\ Int16(i) \in Int
  /\ \A i \in Word : Uint16(i) = i
  /\ \A i \in Nat : i < 65536 => i \in Word
<1>1. ASSUME NEW i \in Int PROVE Uint16(i) \in Word
  BY DEF Uint16, Word
<1>2. ASSUME NEW i \in Int PROVE Int16(i) \in Int
  BY DEF Int16
<1>3. ASSUME NEW i \in Word PROVE Uint16(i) = i
  <2>1. i \in Nat /\ i < 65536
    BY SMT DEF Word
  <2>2. \A j \in Nat : j < 65536 => j % 65536 = j
    BY SMT
  <2> QED
    BY <2>1, <2>2, SMT DEF Uint16
<1>4. ASSUME NEW i \in Nat, i < 65536 PROVE i \in Word
  <2>1. Uint16(i) = i
    BY <1>4, SMT DEF Uint16
  <2> QED
    BY <1>1, <2>1
<1> QED
  BY <1>1, <1>2, <1>3, <1>4

LEMMA WordsAreNaturals == Word \subseteq Nat /\ {0, 1} \subseteq Word
BY SMT DEF Word

LEMMA VectorsOfWords == \A v \in Vector16 : v \in Vector /\ v \in [Axes -> Nat]
<1> TAKE v \in Vector16
<1>1. \A a \in Axes : v[a] \in Nat
  BY WordsAreNaturals DEF Vector16
<1>2. v = [a \in Axes |-> v[a]]
  BY DEF Vector16
<1> HIDE DEF Axes
<1> QED
  BY <1>1, <1>2 DEF Vector

\* What Headers' conversions yield.
LEMMA ConversionsTyped ==
  /\ \A v \in Vector : Words(v) \in Vector16 /\ Magnitude(v) \in Vector
  /\ \A v \in Vector : Shorts(v) \in Vector
  /\ \A v \in Vector : SetRightVelocity(v) \in Word
  /\ \A m \in Vector : \A s : GetRightVelocity(m, s) \in Vector
<1>1. ASSUME NEW v \in Vector PROVE Words(v) \in Vector16
  BY WidthsTyped DEF Words, Vector, Vector16
<1>2. ASSUME NEW v \in Vector PROVE Magnitude(v) \in Vector
  BY DEF Magnitude, Vector
<1>3. ASSUME NEW v \in Vector PROVE Shorts(v) \in Vector
  BY WidthsTyped DEF Shorts, Vector
<1>4. ASSUME NEW v \in Vector PROVE SetRightVelocity(v) \in Word
  <2>1. SetRightVelocity(v) \in 0 .. 9
    BY DEF SetRightVelocity
  <2> QED
    BY <2>1, SMT DEF Word
<1>5. ASSUME NEW m \in Vector, NEW s PROVE GetRightVelocity(m, s) \in Vector
  <2>1. \A axes : Signed(m, axes) \in Vector
    BY DEF Signed, Vector
  <2>2. Origin \in Vector
    BY DEF Origin, Vector, Axes
  <2> QED
    BY <2>1, <2>2 DEF GetRightVelocity
<1> QED
  BY <1>1, <1>2, <1>3, <1>4, <1>5

LEMMA DivisionFits ==
  ASSUME NEW u \in Nat \ {0}, NEW m \in Nat, NEW x \in 0 .. u * m
  PROVE  Truncated(x, u) \in 0 .. m
<1>1. x \in Nat /\ x <= u * m
  BY SMT
<1>2. x \div u \in Nat /\ u * (x \div u) <= x
  BY <1>1, SMT
<1>3. x \div u <= m
  <2> DEFINE q == x \div u
  <2>1. q \in Nat /\ u * q <= u * m
    BY <1>1, <1>2
  <2> HIDE DEF q
  <2>2. ASSUME m + 1 <= q PROVE FALSE
    <3>1. u * (m + 1) <= u * q
      BY <2>1, <2>2
    <3>2. u * (m + 1) = u * m + u
      OBVIOUS
    <3> QED
      BY <2>1, <3>1, <3>2
  <2>3. q <= m
    BY <2>1, <2>2
  <2> QED
    BY <2>3 DEF q
<1> QED
  BY <1>1, <1>2, <1>3 DEF Truncated

LEMMA SmallIntegers ==
  ASSUME NEW i \in Nat, i < 32768
  PROVE  Int16(i) = i /\ Uint16(i) = i /\ i \in Word
<1>1. Int16(i) = i
  BY SMT DEF Int16
<1>2. Uint16(i) = i /\ i \in Word
  BY WidthsTyped
<1> QED
  BY <1>1, <1>2
==============================================================================
