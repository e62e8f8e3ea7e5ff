--------------------------- MODULE MCMessageStream ---------------------------
(***************************************************************************)
(* A small instance of the message stream for TLC.  Members and values     *)
(* are interchangeable, for no property names one.                         *)
(***************************************************************************)
EXTENDS MessageStream, TLC

Anything == Permutations(Members) \cup Permutations(Values)
=============================================================================
