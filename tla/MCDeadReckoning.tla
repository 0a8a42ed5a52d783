--------------------------- MODULE MCDeadReckoning ---------------------------
(***************************************************************************)
(* A unit of length is a quarter of a metre, a tick half a second; the     *)
(* node walks at 2.5 m/s or drifts at 0.5 m/s, which its report truncates. *)
(***************************************************************************)
EXTENDS DeadReckoning

MCArea == <<24, 24, 4>>
MCStarts == {<<48, 10, 0>>}
MCVelocities == {<<-5, 0, 0>>, <<5, 0, 1>>, <<-1, 0, 0>>}
MCMyadress == <<2561, 257>>
MCLoopback == <<32512, 1>>
MCPacketUid == <<0, 0, 0, 7>>
==============================================================================
