--------------------------- MODULE PositionSharing ---------------------------
(***************************************************************************)
(* What the control plane promises the data plane: each node publishes     *)
(* samples of its position, and each node's view of another moves forward  *)
(* through that node's samples, never past the last one published and      *)
(* never back, except that a view may be forgotten altogether.             *)
(***************************************************************************)
EXTENDS Integers

CONSTANT Nodes

VARIABLES
  latest,  \* per node: its last published sample
  view     \* view[n][o]: the sample of o that n goes by

Unknown == -1

Init ==
  /\ latest = [n \in Nodes |-> Unknown]
  /\ view = [n \in Nodes |-> [o \in Nodes |-> Unknown]]

\* A node publishes a newer sample.
Publish(o) ==
  /\ latest'[o] > latest[o]
  /\ latest' = [latest EXCEPT ![o] = latest'[o]]
  /\ UNCHANGED view

\* A node comes to know a newer sample of one other node.
Learn(n, o) ==
  /\ \E s \in view[n][o] + 1 .. latest[o] : view' = [view EXCEPT ![n][o] = s]
  /\ UNCHANGED latest

\* A node forgets some of the others.
Forget(n) ==
  /\ \E S \in SUBSET Nodes :
       view' = [view EXCEPT ![n] = [o \in Nodes |-> IF o \in S THEN Unknown ELSE @[o]]]
  /\ UNCHANGED latest

Next ==
  \/ \E o \in Nodes : Publish(o)
  \/ \E n, o \in Nodes : Learn(n, o)
  \/ \E n \in Nodes : Forget(n)

Spec == Init /\ [][Next]_<<latest, view>>
==============================================================================
