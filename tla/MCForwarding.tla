---------------------------- MODULE MCForwarding -----------------------------
(***************************************************************************)
(* Networks for model-checking Forwarding.  A unit of length stands for    *)
(* some 100 m; nodes are 1, 2, ..., in the order of their addresses.       *)
(***************************************************************************)
EXTENDS Forwarding, TLC

CONSTANTS p1, p2

MCArea == <<9, 9, 3>>

\* Nodes that stay where they are, and nodes that all move one unit a second west.
Still(at) == [n \in DOMAIN at |-> [t \in Seconds |-> at[n]]]
Rest(at) == [n \in DOMAIN at |-> [t \in Seconds |-> Origin]]
West(at) == [n \in DOMAIN at |->
               [t \in Seconds |-> <<at[n][1] - t, at[n][2], at[n][3]>>]]
Westward(at) == [n \in DOMAIN at |-> [t \in Seconds |-> <<-1, 0, 0>>]]

\* A chain of four: in reach of each other are neighbours in the chain only
\* (Range2 = 4).
ChainAt == <<<<2, 0, 0>>, <<4, 0, 0>>, <<6, 0, 0>>, <<8, 0, 0>>>>
ConvoyPlace == West(ChainAt)
ConvoyVelocity == Westward(ChainAt)

\* A void.  A unit is half a metre of what reports say, Range2 = 35.  1 reaches 2 and
\* 3; 2 has no neighbour nearer to 6 than itself; the way round is 3, 4, 5.  Whole metres
\* deceive: 4 and 7 each believe the other nearer to 1, and 4 ends a recovery that began
\* at 2, and is further away.
VoidAt ==
  <<<<1, 0, 0>>, <<5, 0, 0>>, <<4, 4, 0>>, <<7, 6, 0>>, <<10, 5, 0>>, <<13, 1, 0>>, <<6, 7, 0>>>>
VoidPlace == Still(VoidAt)
VoidVelocity == Rest(VoidAt)

\* p1 goes from one end to the other, p2 the other way.
EndToEnd(here, there) == [p \in Packets |-> IF p = p1 THEN here ELSE there]
Src4 == EndToEnd(1, 4)
Dst4 == EndToEnd(4, 1)
Src6 == EndToEnd(1, 6)
Dst6 == EndToEnd(6, 1)

\* Who knows of whom.  In the convoy the ends hear of each other, and 2 of 4.  In the
\* void 1 hears only late of 6, and 4 of 3, and 7 never of 3.
Everyone == {h \in Nodes \X Nodes : h[1] # h[2]}
Ends == {<<1, 4>>, <<2, 4>>, <<4, 1>>}
Late == {<<1, 6>>, <<4, 3>>}
AllButLate == Everyone \ (Late \cup {<<7, 3>>})
==============================================================================
