------------------------------- MODULE Headers -------------------------------
(***************************************************************************)
(* The headers of model/myprotocol4-packet.{h,cc}: MyprotocolHeader, which *)
(* carries a report, and DataHeader, which a data packet has in front of   *)
(* its payload.  The wire is a sequence of 16-bit words: a vector takes    *)
(* three, a 64-bit uid four, an address two.                               *)
(***************************************************************************)
EXTENDS Motion, Sequences

Word == 0 .. 65535
Vector16 == [Axes -> Word]
Uid == [1 .. 4 -> Word]
Address == [1 .. 2 -> Word]

NoUid == <<0, 0, 0, 0>>

MyprotocolHeader ==
  [pos : Vector16, vel : Vector16, sign : Word, timestamp : Word, uid : Uid,
   myadress : Address]

DataHeader ==
  [dstPos : Vector16, dstVel : Vector16, dstSign : Word, dstTimestamp : Word,
   recPos : Vector16, inRec : Word, uid : Uid, hop : Word, error : Word]

\* GetSerializedSize, in bytes.
MyprotocolHeaderSize == 28
DataHeaderSize == 36

------------------------------------------------------------------------------
SerializeReport(h) ==
  h.pos \o h.vel \o <<h.sign, h.timestamp>> \o h.uid \o h.myadress

\* Mutant, used by no specification: a read in another order than the write.
DeserializeReportSwapped(w) ==
  [pos |-> SubSeq(w, 1, 3), vel |-> SubSeq(w, 4, 6), sign |-> w[8], timestamp |-> w[7],
   uid |-> SubSeq(w, 9, 12), myadress |-> SubSeq(w, 13, 14)]

DeserializeReport(w) ==
  [pos |-> SubSeq(w, 1, 3), vel |-> SubSeq(w, 4, 6), sign |-> w[7], timestamp |-> w[8],
   uid |-> SubSeq(w, 9, 12), myadress |-> SubSeq(w, 13, 14)]

SerializeData(h) ==
  h.dstPos \o h.dstVel \o <<h.dstSign, h.dstTimestamp>> \o h.recPos \o <<h.inRec>>
    \o h.uid \o <<h.hop, h.error>>

DeserializeData(w) ==
  [dstPos |-> SubSeq(w, 1, 3), dstVel |-> SubSeq(w, 4, 6), dstSign |-> w[7],
   dstTimestamp |-> w[8], recPos |-> SubSeq(w, 9, 11), inRec |-> w[12],
   uid |-> SubSeq(w, 13, 16), hop |-> w[17], error |-> w[18]]

------------------------------------------------------------------------------
\* Mutant, used by no specification: a velocity kept in unsigned fields.
ShortsUnsigned(v) == [a \in Axes |-> Uint16(v[a])]

Words(v) == [a \in Axes |-> Uint16(v[a])]
Shorts(v) == [a \in Axes |-> Int16(v[a])]

\* The setters, with a position in whole metres and a signed velocity.
ReportOf(pos, vel, timestamp, uid, myadress) ==
  [pos |-> Words(pos), vel |-> Words(Magnitude(vel)), sign |-> SetRightVelocity(vel),
   timestamp |-> Uint16(timestamp), uid |-> uid, myadress |-> myadress]

\* The table entry RecvMyprotocol makes of a report.
EntryOfReport(h) ==
  [adress |-> h.myadress, timestamp |-> h.timestamp, pos |-> h.pos,
   vel |-> Shorts(GetRightVelocity(h.vel, h.sign))]

\* A data header that says of its destination what the entry rt says.
DataOf(rt, recPos, inRec, uid, hop) ==
  [dstPos |-> Words(rt.pos), dstVel |-> Words(Magnitude(rt.vel)),
   dstSign |-> SetRightVelocity(rt.vel), dstTimestamp |-> Uint16(rt.timestamp),
   recPos |-> Words(recPos), inRec |-> inRec, uid |-> uid, hop |-> Uint16(hop), error |-> 0]

\* The table entry Forwarding makes of a data header of a packet to dst.
EntryOfData(h, dst) ==
  [adress |-> dst, timestamp |-> h.dstTimestamp, pos |-> h.dstPos,
   vel |-> Shorts(GetRightVelocity(h.dstVel, h.dstSign))]
==============================================================================
