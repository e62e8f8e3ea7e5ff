--------------------------- MODULE MCWorldReplica ---------------------------
(***************************************************************************)
(* The same inputs, for the world together with its delta stream and the   *)
(* history of its actions.                                                 *)
(***************************************************************************)
EXTENDS MCHeadlessWorld, WorldReplica
=============================================================================
