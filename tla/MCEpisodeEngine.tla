--------------------------- MODULE MCEpisodeEngine ---------------------------
(***************************************************************************)
(* Worlds, commands and proposals of the small episodes that TLC plays,    *)
(* after the repository's scenarios.                                       *)
(***************************************************************************)
EXTENDS EpisodeEngine

DoorWorld ==
  [at |-> PlayerPlace, door |-> "closed", locked |-> FALSE, reachable |-> TRUE, time |-> 0,
   heard |-> FALSE, facts |-> {}, memories |-> {}, reports |-> <<>>, residue |-> {},
   responses |-> <<"xiaoman">>, claimedName |-> "xiaoman", forced |-> [tool \in {} |-> <<>>]]

Name(value, source) == Fact("visitor", "claimed_name", value, "CLAIMED", source)
Memory(kind, value, source, access) ==
  [subject |-> "visitor", predicate |-> "claimed_name", value |-> value, kind |-> kind,
   source |-> source, access |-> access]

Goal(kind, predicate, value) ==
  [kind |-> kind, predicate |-> predicate, value |-> value, certainty |-> Absent]
Command(goal, forbidden, maxSteps) ==
  [allowed |-> Tools, forbidden |-> forbidden, mustRemainClosed |-> forbidden # {},
   maxSteps |-> maxSteps, goal |-> goal]

TellName == Goal("required_name", Absent, "xiaoman")
TellUnknown == Goal("report_predicate", "identity_status", "UNKNOWN")
TellConflict == Goal("report_conflict", Absent, Absent)
ForbidOpen == {"open"}

\* The visitor's name, with a listening that is forced to time out first,
\* and errors of provider and policy that end the task.
ClaimScenario ==
  [terminal |-> {"provider_error", "policy_output_error"},
   world |-> [DoorWorld EXCEPT !.at = DoorPlace, !.forced = [listen_at |-> <<"TIMEOUT", "NONE">>]],
   roundTrip |-> FALSE,
   commands |-> <<Command(TellName, {}, 3)>>]
\* A forgotten name, and a task that is done while no name is known.
ForgottenScenario ==
  [terminal |-> {},
   world |-> [DoorWorld EXCEPT !.memories = {Memory("fact", "ahe", "old_episode", "FORGOTTEN")}],
   roundTrip |-> TRUE,
   commands |-> <<Command(TellUnknown, ForbidOpen, 2), Command(TellName, ForbidOpen, 1)>>]
\* A witness gave another name than the visitor will.
ConflictScenario ==
  [terminal |-> {},
   world |-> [DoorWorld EXCEPT !.memories = {Memory("claim", "ahe", "witness", "CLEAR")},
                               !.at = DoorPlace],
   roundTrip |-> FALSE,
   commands |-> <<Command(TellConflict, ForbidOpen, 3)>>]
Played == {ClaimScenario, ForgottenScenario, ConflictScenario}

Call(name, target) ==
  [name |-> name, target |-> target, barrier |-> Absent, topic |-> Absent, valid |-> TRUE,
   ids |-> {}, facts |-> {}, seconds |-> 0, readable |-> TRUE]
Ask(topic) == [Call("ask_through", "visitor") EXCEPT !.barrier = "door", !.topic = topic]
Tell(target, ids) == [Call("report", target) EXCEPT !.ids = ids]
Said == <<"said", Name("xiaoman", "visitor_statement")>>
Recalled == <<"memory", Name("ahe", "witness")>>
Wait(seconds) == [Call("wait", Absent) EXCEPT !.seconds = seconds]
Unknown == <<"derived", Fact("visitor", "identity_status", "UNKNOWN", "UNKNOWN", "identity_rule")>>

Answers ==
  {Call("move_to", "door"), Call("move_to", "player"), Call("listen_at", "door"),
   Call("listen_at", "visitor"), Ask("identity"), Call("open", "door"), Call("close", "door"),
   Tell("player", {Said}), Tell("player", {Unknown}), Tell("player", {Said, Recalled}),
   [Call("report", "player") EXCEPT !.facts = {Name("xiaoman", "visitor_statement")}],
   Wait(1), [Wait(61) EXCEPT !.valid = FALSE],
   [Wait(0) EXCEPT !.valid = FALSE, !.readable = FALSE],
   [Call("report", "player") EXCEPT !.valid = FALSE, !.readable = FALSE],
   Call("listen_at", "crane")}

AllPermissions == {"navigate", "perceive", "communicate", "manipulate", "wait"}
AllKnown == {"door", "visitor", "player", "crane"}
=============================================================================
