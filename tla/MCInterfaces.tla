---------------------------- MODULE MCInterfaces -----------------------------
(* Two interfaces and three addresses, in one subnet or in two. *)
EXTENDS Interfaces

CONSTANTS a1, a2, c1, subnetA, subnetC

\* Interface 1 in subnet A, interface 2 in the same or in another.
MCAddressesFor == <<{a1, a2}, {a2, c1}>>
MCAddressesForTwo == <<{a1, a2}, {a2}>>
MCBroadcastOf == [a \in Addresses |-> IF a = c1 THEN subnetC ELSE subnetA]
MCBroadcastOfAll == [a \in Addresses |-> subnetA]
==============================================================================
