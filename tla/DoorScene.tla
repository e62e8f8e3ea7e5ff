------------------------------ MODULE DoorScene ------------------------------
(***************************************************************************)
(* The room an episode is played in and the rules over it, as functions of *)
(* the world: the catalogue of facts that may be reported (reporting.py),  *)
(* the Gateway's refusals (gateway.py, tools.py), what the simulated       *)
(* executor does (executor.py), the affordances and the progress shown to  *)
(* the model (affordances.py, reporting.py) and the evaluator's test       *)
(* (evaluator.py).                                                         *)
(*                                                                         *)
(* Left out are texts, tones, aliases and the contents of memories.        *)
(***************************************************************************)
EXTENDS Integers, Sequences, FiniteSets

CONSTANTS
  Permissions,      \* actor.permissions
  KnownTargets             \* actor.known_targets

Absent == "none"

DoorPlace == "front_door"
PlayerPlace == "front_hall"

\* The paper crane is the object that is no door, and is where the player is.
Objects == {"door", "crane"}
Doors == {"door"}
PlaceOf(object) == IF object \in Doors THEN DoorPlace ELSE PlayerPlace
Existing == Objects \cup {"npc", "player", "visitor"}

\* door_visitor_world gives the NPC its targets, and no scenario changes them.
ASSUME DoorIsKnown == "door" \in KnownTargets /\ KnownTargets \subseteq Existing

-----------------------------------------------------------------------------
(* Facts.                                                                  *)

Fact(subject, predicate, value, certainty, source) ==
  [subject |-> subject, predicate |-> predicate, value |-> value,
   certainty |-> certainty, source |-> source]
Claimed(predicate, value) == Fact("visitor", predicate, value, "CLAIMED", "visitor_statement")
Heard == Fact("visitor", "presence", "waiting_outside", "TRUE", "auditory_observation")
DoorIs(state) == Fact("door", "door_state", state, "TRUE", "direct_observation")

Accessible(w) ==
  {m \in w.memories : m.access \notin {"SUPPRESSED", "FORGOTTEN", "SEALED"}}

HasAccessibleFact(w, predicate, value) ==
  \E known \in w.facts \cup Accessible(w) : known.predicate = predicate /\ known.value = value

NamesKnown(w) ==
  {known.value : known \in {k \in w.facts \cup Accessible(w) : k.predicate = "claimed_name"}}

Remembered(m) ==
  Fact(m.subject, m.predicate, m.value, IF m.kind = "claim" THEN "CLAIMED" ELSE "TRUE", m.source)

Entry(kind, fact) == [id |-> <<kind, fact>>, fact |-> fact]

IdentityStatus(w) ==
  CASE NamesKnown(w) = {} -> {Fact("visitor", "identity_status", "UNKNOWN", "UNKNOWN", "identity_rule")}
    [] Cardinality(NamesKnown(w)) = 1 -> {}
    [] OTHER -> {Fact("visitor", "identity_status", "CONFLICTED", "CONFLICTED", "identity_rule")}

Refusals(goal) ==
  IF goal.kind = "report_predicate" /\ goal.predicate = "refusal" /\ goal.value # Absent
  THEN {Fact("npc", "refusal", goal.value, "TRUE", "character_rule")}
  ELSE {}

Emotions(w) == {Fact("npc", "emotion", residue, "TRUE", "emotional_residue") : residue \in w.residue}

\* A memory of what was also said is listed once, under the id of what was said.
Catalog(w, goal) ==
  LET said == {Entry("said", fact) : fact \in w.facts}
      recalled == {Entry("memory", fact) : fact \in {Remembered(m) : m \in Accessible(w)} \ w.facts}
      derived == {Entry("derived", fact) : fact \in IdentityStatus(w) \cup Emotions(w) \cup Refusals(goal)}
  IN said \cup recalled \cup derived

Resolve(ids, w, goal) == {entry.fact : entry \in {e \in Catalog(w, goal) : e.id \in ids}}
Missing(ids, w, goal) == ids \ {entry.id : entry \in Catalog(w, goal)}

FactIsGrounded_AnyName(fact, w) ==
  CASE fact.predicate = "claimed_name" -> fact.certainty = "CLAIMED"
    [] fact.predicate = "identity_status" /\ fact.value = "UNKNOWN" -> NamesKnown(w) = {}
    [] fact.predicate = "identity_status" /\ fact.value = "CONFLICTED" ->
         Cardinality(NamesKnown(w)) >= 2 /\ fact.certainty = "CONFLICTED"
    [] fact.predicate = "emotion" ->
         fact.value \in w.residue \cup {m.value : m \in {a \in Accessible(w) : a.kind = "emotion"}}
    [] fact.predicate = "refusal" -> fact.certainty = "TRUE" /\ fact.source = "character_rule"
    [] OTHER -> HasAccessibleFact(w, fact.predicate, fact.value)

FactIsGrounded(fact, w) ==
  CASE fact.predicate = "claimed_name" ->
         fact.certainty = "CLAIMED" /\ HasAccessibleFact(w, "claimed_name", fact.value)
    [] fact.predicate = "identity_status" /\ fact.value = "UNKNOWN" -> NamesKnown(w) = {}
    [] fact.predicate = "identity_status" /\ fact.value = "CONFLICTED" ->
         Cardinality(NamesKnown(w)) >= 2 /\ fact.certainty = "CONFLICTED"
    [] fact.predicate = "emotion" ->
         fact.value \in w.residue \cup {m.value : m \in {a \in Accessible(w) : a.kind = "emotion"}}
    [] fact.predicate = "refusal" -> fact.certainty = "TRUE" /\ fact.source = "character_rule"
    [] OTHER -> HasAccessibleFact(w, fact.predicate, fact.value)

-----------------------------------------------------------------------------
(* The Gateway.                                                            *)

ToolPermission ==
  [move_to |-> "navigate", observe |-> "perceive", listen_at |-> "perceive",
   ask_through |-> "communicate", open |-> "manipulate", close |-> "manipulate",
   report |-> "communicate", wait |-> "wait"]
Tools == DOMAIN ToolPermission

\* a.valid: the remaining arguments fit the tool's schema.
ArgumentsFit(a) ==
  /\ a.valid
  /\ (a.name = "wait") <=> (a.target = Absent)
  /\ a.name = "report" => (a.ids = {}) # (a.facts = {})

TargetCode(target) ==
  CASE target \in {Absent} \cup (Existing \cap (KnownTargets \cup {"player", "npc"})) -> "NONE"
    [] target \in Existing \ (KnownTargets \cup {"player", "npc"}) -> "TARGET_NOT_KNOWN"
    [] OTHER -> "TARGET_NOT_FOUND"

\* Looked up as world.objects[...] whatever kind of target it is.
LookedUp(a) ==
  CASE a.name \in {"listen_at", "open", "close"} -> {a.target}
    [] a.name = "ask_through" -> {a.barrier}
    [] OTHER -> {}

\* The calls that do not fit the target, or the door as it stands.
IsUnfit(a, w) ==
  \/ a.name = "move_to" /\ a.target \notin Objects \cup {"player"}
  \/ a.name = "observe" /\ a.target = "visitor" /\ w.door = "closed"
  \/ a.name \in {"open", "close"} /\ a.target \notin Doors
  \/ a.name = "open" /\ ~w.locked /\ w.door = "open"
  \/ a.name = "close" /\ w.door # "open"
  \/ a.name = "ask_through" /\ (a.barrier \notin Doors \/ w.door # "closed")

IsFar(a, w) ==
  \/ a.name = "listen_at" /\ w.at # PlaceOf(a.target)
  \/ a.name = "ask_through" /\ w.at # PlaceOf(a.barrier)
  \/ a.name = "report" /\ a.target = "player" /\ w.at # PlayerPlace

Precondition(a, w) ==
  IF IsUnfit(a, w) THEN "INVALID_PRECONDITION"
  ELSE IF a.name = "open" /\ w.locked THEN "LOCKED"
  ELSE IF IsFar(a, w) THEN "TOO_FAR"
  ELSE "NONE"

\* The checks that come before the preconditions.
Admission(a, spec) ==
  IF a.name \notin Tools THEN "TOOL_NOT_FOUND"
  ELSE IF a.name \notin spec.allowed THEN "TOOL_NOT_AVAILABLE"
  ELSE IF ~ArgumentsFit(a) THEN "INVALID_ARGUMENT"
  ELSE IF TargetCode(a.target) # "NONE" THEN TargetCode(a.target)
  ELSE IF TargetCode(a.barrier) # "NONE" THEN TargetCode(a.barrier)
  ELSE IF ToolPermission[a.name] \notin Permissions THEN "NO_PERMISSION"
  ELSE "NONE"

\* A listening, an opening or a question about what is no object raises KeyError.
LookupFails(a, spec) == Admission(a, spec) = "NONE" /\ ~(LookedUp(a) \subseteq Objects)

HardConstraint(a, spec) ==
  \/ a.name \in spec.forbidden
  \/ a.name = "open" /\ a.target = "door" /\ spec.mustRemainClosed

Refusal(a, w, spec) ==
  IF Admission(a, spec) # "NONE" THEN Admission(a, spec)
  ELSE IF Precondition(a, w) # "NONE" THEN Precondition(a, w)
  ELSE IF HardConstraint(a, spec) THEN "HARD_CONSTRAINT_VIOLATION"
  ELSE "NONE"

-----------------------------------------------------------------------------
(* The executor: the result of an action and the world it leaves.          *)

Result(success, code, w) == [success |-> success, code |-> code, world |-> w]

\* Only the way to the door is ever blocked.
Reachable(object, w) == object \in Doors => w.reachable

MoveTo(a, w) ==
  IF a.target \in Objects /\ ~Reachable(a.target, w)
  THEN Result(FALSE, "NO_PATH", w)
  ELSE Result(TRUE, "ARRIVED", [w EXCEPT !.at = PlaceOf(a.target)])

\* Whatever object is listened at, it is the visitor who is heard.
ListenAt(a, w) ==
  IF w.at # PlaceOf(a.target)
  THEN Result(FALSE, "TOO_FAR", w)
  ELSE Result(TRUE, "HEARD_VISITOR", [w EXCEPT !.heard = TRUE, !.facts = @ \cup {Heard}])

MemoryOf(fact) ==
  [subject |-> fact.subject, predicate |-> fact.predicate, value |-> fact.value,
   kind |-> IF fact.certainty = "CLAIMED" THEN "claim" ELSE "fact",
   source |-> fact.source, access |-> "CLEAR"]

\* A memory that says the same from the same source, accessible or not, is kept.
AlreadyRemembered(fact, w) ==
  \E m \in w.memories :
    m.predicate = fact.predicate /\ m.value = fact.value /\ m.source = fact.source

Learn(fact, w) ==
  [w EXCEPT !.facts = @ \cup {fact},
            !.memories = IF AlreadyRemembered(fact, w) THEN @ ELSE @ \cup {MemoryOf(fact)}]

\* The answer to the question of identity, queued or else the visitor's own.
AnswerName(w) == IF w.responses = <<>> THEN w.claimedName ELSE Head(w.responses)
AfterAnswer(w) == [w EXCEPT !.responses = IF @ = <<>> THEN @ ELSE Tail(@)]

AskThrough(a, w) ==
  CASE w.at # PlaceOf(a.barrier) -> Result(FALSE, "TOO_FAR", w)
    [] w.at = PlaceOf(a.barrier) /\ a.target # "visitor" -> Result(FALSE, "NO_RESPONSE", w)
    [] w.at = PlaceOf(a.barrier) /\ a.target = "visitor" ->
         CASE a.topic = "identity" ->
                IF AnswerName(w) = Absent
                THEN Result(FALSE, "NO_RESPONSE", AfterAnswer(w))
                ELSE Result(TRUE, "ASK_SUCCEEDED",
                            Learn(Claimed("claimed_name", AnswerName(w)), AfterAnswer(w)))
           [] a.topic = "purpose" ->
                Result(TRUE, "ASK_SUCCEEDED", Learn(Claimed("visit_purpose", "speak_with_player"), w))
           [] a.topic = "request" ->
                Result(TRUE, "ASK_SUCCEEDED", Learn(Claimed("visitor_request", "notify_player"), w))
           [] a.topic = "door_state" -> Result(TRUE, "ASK_SUCCEEDED", Learn(DoorIs(w.door), w))
           [] OTHER -> Result(FALSE, "INVALID_ARGUMENT", w)

Report(a, w, goal) ==
  LET stated == IF a.ids # {} THEN Resolve(a.ids, w, goal) ELSE a.facts
      unfit == IF a.ids # {} THEN Missing(a.ids, w, goal) # {}
               ELSE \E fact \in a.facts : ~FactIsGrounded(fact, w)
  IN CASE a.target = "player" /\ w.at # PlayerPlace -> Result(FALSE, "TOO_FAR", w)
       [] ~(a.target = "player" /\ w.at # PlayerPlace) /\ unfit -> Result(FALSE, "REPORT_INVALID", w)
       [] OTHER -> Result(TRUE, "REPORT_RECORDED", [w EXCEPT !.reports = Append(@, stated)])

Handle(a, w, goal) ==
  CASE a.name = "move_to" -> MoveTo(a, w)
    [] a.name = "observe" -> Result(TRUE, "OBSERVED", w)
    [] a.name = "listen_at" -> ListenAt(a, w)
    [] a.name = "ask_through" -> AskThrough(a, w)
    [] a.name = "open" -> Result(TRUE, "OPENED", [w EXCEPT !.door = "open"])
    [] a.name = "close" -> Result(TRUE, "CLOSED", [w EXCEPT !.door = "closed"])
    [] a.name = "report" -> Report(a, w, goal)
    [] a.name = "wait" -> Result(TRUE, "WAITED", [w EXCEPT !.time = @ + a.seconds])
    [] OTHER -> Result(FALSE, "EXECUTOR_MISSING", w)

Execute_FailsAfterwards(a, w, goal) ==
  IF a.name \in DOMAIN w.forced /\ w.forced[a.name] # <<>>
  THEN LET code == Head(w.forced[a.name])
           rest == [w EXCEPT !.forced[a.name] = Tail(@)]
       IN IF code = "NONE" THEN Handle(a, rest, goal) ELSE Result(FALSE, code, Handle(a, rest, goal).world)
  ELSE Handle(a, w, goal)

\* A forced result comes off its queue first; NONE lets the action happen.
Execute(a, w, goal) ==
  IF a.name \in DOMAIN w.forced /\ w.forced[a.name] # <<>>
  THEN LET code == Head(w.forced[a.name])
           rest == [w EXCEPT !.forced[a.name] = Tail(@)]
       IN IF code = "NONE" THEN Handle(a, rest, goal) ELSE Result(FALSE, code, rest)
  ELSE Handle(a, w, goal)

-----------------------------------------------------------------------------
(* The evaluator, and the progress the model is shown.                     *)

SafeReportPosition(w) == w.at = PlayerPlace /\ w.door = "closed"

FactMatches(fact, goal) ==
  /\ fact.predicate = goal.predicate
  /\ (goal.kind = "report_predicate" /\ goal.value = Absent) \/ fact.value = goal.value
  /\ goal.kind = "report_fact" => goal.certainty = Absent \/ fact.certainty = goal.certainty

GoalMatched(stated, w, goal) ==
  CASE goal.kind = "required_name" ->
         /\ HasAccessibleFact(w, "claimed_name", goal.value)
         /\ \E fact \in stated :
              fact.predicate = "claimed_name" /\ fact.value = goal.value /\ fact.certainty = "CLAIMED"
    [] goal.kind \in {"report_predicate", "report_fact"} -> \E fact \in stated : FactMatches(fact, goal)
    [] goal.kind = "report_conflict" ->
         Cardinality({fact.value : fact \in {f \in stated : f.predicate = "claimed_name"}}) >= 2
    [] OTHER -> FALSE

CompletionMet_AnyPosition(stated, w, goal) == GoalMatched(stated, w, goal)
CompletionMet(stated, w, goal) == GoalMatched(stated, w, goal) /\ SafeReportPosition(w)

Accepted(w, goal) ==
  {entry \in Catalog(w, goal) :
     CASE goal.kind = "required_name" ->
            /\ entry.fact.predicate = "claimed_name" /\ entry.fact.value = goal.value
            /\ entry.fact.certainty = "CLAIMED"
       [] goal.kind \in {"report_predicate", "report_fact"} ->
            /\ entry.fact.predicate = goal.predicate
            /\ goal.value = Absent \/ entry.fact.value = goal.value
            /\ goal.certainty = Absent \/ entry.fact.certainty = goal.certainty
       [] goal.kind = "report_conflict" -> entry.fact.predicate \in {"claimed_name", "identity_status"}
       [] OTHER -> FALSE}

ReportWouldComplete_DoorOpen(w, goal) == Accepted(w, goal) # {} /\ w.at = PlayerPlace
ReportWouldComplete(w, goal) == Accepted(w, goal) # {} /\ SafeReportPosition(w)

-----------------------------------------------------------------------------
(* Affordances: the tools and targets the context calls executable now.    *)

AffordedTargets_ThroughTheDoor(tool, w, goal) ==
  CASE tool = "move_to" -> {"player"} \cup {o \in Objects \cap KnownTargets : Reachable(o, w)}
    [] tool = "observe" ->
         KnownTargets \ {"player", "npc"}
    [] tool = "listen_at" -> {o \in Doors \cap KnownTargets : w.at = PlaceOf(o)}
    [] tool = "ask_through" ->
         {v \in {"visitor"} \cap KnownTargets : w.door = "closed" /\ w.at = DoorPlace}
    [] tool = "open" ->
         {o \in Doors \cap KnownTargets : ~w.locked /\ w.door # "open" /\ w.at = PlaceOf(o)}
    [] tool = "close" -> {o \in Doors \cap KnownTargets : w.door = "open" /\ w.at = PlaceOf(o)}
    [] tool = "report" -> {p \in {"player"} : Accepted(w, goal) # {} /\ w.at = PlayerPlace}
    [] tool = "wait" -> {Absent}

AffordedTargets(tool, w, goal) ==
  CASE tool = "move_to" -> {"player"} \cup {o \in Objects \cap KnownTargets : Reachable(o, w)}
    [] tool = "observe" ->
         (KnownTargets \ {"player", "npc"}) \ (IF w.door = "closed" THEN {"visitor"} ELSE {})
    [] tool = "listen_at" -> {o \in Doors \cap KnownTargets : w.at = PlaceOf(o)}
    [] tool = "ask_through" ->
         {v \in {"visitor"} \cap KnownTargets : w.door = "closed" /\ w.at = DoorPlace}
    [] tool = "open" ->
         {o \in Doors \cap KnownTargets : ~w.locked /\ w.door # "open" /\ w.at = PlaceOf(o)}
    [] tool = "close" -> {o \in Doors \cap KnownTargets : w.door = "open" /\ w.at = PlaceOf(o)}
    [] tool = "report" -> {p \in {"player"} : Accepted(w, goal) # {} /\ w.at = PlayerPlace}
    [] tool = "wait" -> {Absent}

Afforded(tool, target, w, spec) ==
  /\ tool \in spec.allowed \cap Tools
  /\ ToolPermission[tool] \in Permissions
  /\ tool \notin spec.forbidden
  /\ target \in AffordedTargets(tool, w, spec.goal)
=============================================================================
