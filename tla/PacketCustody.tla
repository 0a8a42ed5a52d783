---------------------------- MODULE PacketCustody ----------------------------
(***************************************************************************)
(* What the protocol promises of every packet that the application gives   *)
(* it: from then on there is one copy of it, in one place, until one thing *)
(* becomes of it; then there is none, and nothing else becomes of it.      *)
(* DeferredOutput implements this at a packet's source, Forwarding in the  *)
(* network.                                                                *)
(***************************************************************************)
EXTENDS Naturals

CONSTANTS Packets, Outcomes   \* Outcomes: what may become of a packet

VARIABLES
  copies,   \* per packet: how many copies of it the protocol holds
  outcomes  \* per packet: what has become of it

Init ==
  /\ copies = [p \in Packets |-> 0]
  /\ outcomes = [p \in Packets |-> {}]

\* Some packets are taken from the application; one thing becomes of some of these
\* and of those already held.
Step(taken, done, outcome) ==
  LET held == {p \in Packets : copies[p] = 1} IN
  /\ \A p \in taken : copies[p] = 0 /\ outcomes[p] = {}
  /\ done \subseteq held \cup taken
  /\ copies' = [p \in Packets |-> IF p \in (held \cup taken) \ done THEN 1 ELSE 0]
  /\ outcomes' = [p \in Packets |-> IF p \in done THEN {outcome[p]} ELSE outcomes[p]]

Next ==
  \E taken, done \in SUBSET Packets :
    \E outcome \in [done -> Outcomes] : Step(taken, done, outcome)

Spec == Init /\ [][Next]_<<copies, outcomes>>
==============================================================================
