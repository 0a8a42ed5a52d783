-------------------------- MODULE MCPositionUpdate ---------------------------
(***************************************************************************)
(* Networks for model-checking PositionUpdate.                             *)
(***************************************************************************)
EXTENDS PositionUpdate, TLC

CONSTANTS n1, n2, n3

MCLoopback == "127.0.0.1"

\* Two nodes in reach of each other.
Pair == [n \in {n1, n2} |-> {n1, n2} \ {n}]

\* Three nodes all in reach of one another: a relayed report comes back.
Triangle == [n \in {n1, n2, n3} |-> {n1, n2, n3} \ {n}]

\* Three nodes in a row: n2 must relay what n1 and n3 report.
Line == n1 :> {n2} @@ n2 :> {n1, n3} @@ n3 :> {n2}

\* Every network but the one in which timestamps wrap satisfies the hypotheses of the
\* theorems about it.
ASSUME Hypotheses ==
  Horizon < TimestampMod * Second => Timely /\ (~Lossy => Reliable /\ Remembered)
==============================================================================
