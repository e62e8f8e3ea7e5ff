--------------------------- MODULE MCHeadlessWorld ---------------------------
(***************************************************************************)
(* Inputs of the small instances of the bridge that TLC checks.            *)
(***************************************************************************)
EXTENDS HeadlessWorld, TLC

Command(name, arg) == [name |-> name, arg |-> arg]
Happening(name, value) == [name |-> name, value |-> value]

\* Ticks for milliseconds; a question takes the longest, as in the code.
Ticks == [name \in Supported \ {"wait"} |-> IF name = "ask_through" THEN 2 ELSE 1]

AllKinds == Kinds
ActionKinds == {"ACTION_REQUESTED"}
ActionAndCancel == {"ACTION_REQUESTED", "ACTION_CANCEL_REQUESTED"}

OneWait == {Command("wait", 1)}
GoAndAsk ==
  {Command("move_to", "door.front"), Command("ask_through", "identity"), Command("dance", None)}

Interruptions ==
  {Happening("path_reachable", FALSE), Happening("visitor_present", FALSE)}
PathLost == {Happening("path_reachable", FALSE)}
Troubles == Interruptions \cup {Happening("unsupported", None)}
NoHappenings == {}

\* Ids are interchangeable, and no property names one.
Ids == Permutations(ActionIds) \cup Permutations(MessageIds)
=============================================================================
