--------------------------- MODULE MCMemoryVersions ---------------------------
(***************************************************************************)
(* Inputs of the small instances of the memory kernel that TLC checks.     *)
(***************************************************************************)
EXTENDS MemoryVersions

Named(name) ==
  [subject |-> "xiaoman", predicate |-> "SELF_IDENTIFIED_AS", object |-> name,
   polarity |-> "AFFIRM", slots |-> None]
TwoNames == {Named("A"), Named("B")}
OneName == {"SELF_IDENTIFIED_AS"}

\* One inference supports either name, so either memory may be made of it.
OneInference ==
  {[observer |-> "player", kind |-> "INFERRED", events |-> {}, sources |-> {}, actor |-> None,
    evidence |-> "crane", family |-> "crane", claim |-> Named("A"), confidence |-> 900,
    ack |-> None, rule |-> "likeness"]}

Felt == [intensity |-> 400, decay |-> 400, independent |-> TRUE]
Vivid == {[clarity |-> 900, residue |-> {Felt}]}
Decay == {[decay |-> 650, penalty |-> 0, bonus |-> 0]}
=============================================================================
