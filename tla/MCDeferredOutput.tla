-------------------------- MODULE MCDeferredOutput ---------------------------
(***************************************************************************)
(* Instances of DeferredOutput for model checking.                         *)
(***************************************************************************)
EXTENDS DeferredOutput, TLC

CONSTANTS p1, p2, p3, d1, d2

\* Two packets for one destination, and one for another.
MCDstOf == p1 :> d1 @@ p2 :> d1 @@ p3 :> d2
==============================================================================
