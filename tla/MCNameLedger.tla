----------------------------- MODULE MCNameLedger -----------------------------
(***************************************************************************)
(* Inputs of the small instances of the name ledger that TLC checks.       *)
(***************************************************************************)
EXTENDS NameLedger

CONSTANT Guests  \* who may hold the room

About(subject, predicate, object, slots) ==
  [subject |-> subject, predicate |-> predicate, object |-> object,
   polarity |-> "AFFIRM", slots |-> slots]
Named(name) == About("xiaoman", "SELF_IDENTIFIED_AS", name, None)
Room(subject) == About(subject, "EXCLUSIVE_OCCUPANT_OF", "front_hall", None)

HeardClaim == {Named("A")}
SingleName == {"SELF_IDENTIFIED_AS"}

\* What was heard, and what the second acknowledgement made manifest.
Seen(kind, causes, evidence, ack, family) ==
  [observer |-> "player", kind |-> kind, events |-> causes, sources |-> {}, actor |-> "xiaoman",
   evidence |-> evidence, family |-> family, claim |-> Named("A"), confidence |-> 900,
   ack |-> ack, rule |-> None]
Heard == Seen("HEARD", {1}, None, None, "speech")
Manifested(ack) == Seen("MANIFESTED", {}, "child room", ack, "derived")
HeardAndManifested == {Heard, Manifested(2)}
DerivedFamily == {"derived"}

Draft(claim, level, source, family, parents, plans, confirmed) ==
  [claim |-> claim, sources |-> {source}, families |-> <<family>>, level |-> level,
   confirmed |-> confirmed, consenting |-> {claim.subject}, plans |-> plans,
   parents |-> parents, scope |-> "HALL_LOCAL", retroactive |-> FALSE]
Replacing == {"PLAN_PROSPECTIVE_REPLACEMENT"}
Reassigning == {"PLAN_REASSIGN_RESOURCE"}

NamesAndRooms ==
  {Draft(Named("A"), 1, 1, "speech", {}, {}, TRUE),
   Draft(Named("B"), 1, 1, "speech", {1}, Replacing, TRUE),
   Draft(Named("C"), 1, 2, "derived", {1}, Replacing, TRUE)} \cup
  {Draft(Room(guest), 2, 1, "speech", {}, Reassigning, TRUE) : guest \in Guests}

\* Guests are interchangeable, and no property names one.
GuestSymmetry == Permutations(Guests)

\* A value at one path.
ChildRoom == {<<"child room">>}
=============================================================================
