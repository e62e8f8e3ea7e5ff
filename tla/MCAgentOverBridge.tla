-------------------------- MODULE MCAgentOverBridge --------------------------
(***************************************************************************)
(* The task, the answers and the faults of a small bridge scenario, after  *)
(* the repository's model acceptance scenarios.                            *)
(***************************************************************************)
EXTENDS AgentOverBridge

Numbers == 1..MaxSent
Milliseconds ==
  [move_to |-> 1000, observe |-> 500, listen_at |-> 800, ask_through |-> 1200,
   report |-> 600, open |-> 600, close |-> 600]

TellName ==
  [allowed |-> Supported, forbidden |-> {"open"}, mustRemainClosed |-> TRUE, maxSteps |-> MaxSent,
   goal |-> [kind |-> "required_name", predicate |-> "none", value |-> "Xiaoman",
             certainty |-> "none"]]

Call(name, t) ==
  [name |-> name, target |-> t, barrier |-> "none", topic |-> "none", valid |-> TRUE,
   ids |-> {}, facts |-> {}, seconds |-> 0, readable |-> TRUE]
Said == Door!Claimed("claimed_name", "Xiaoman")

Ask(t, topic) == [Call("ask_through", t) EXCEPT !.barrier = "door", !.topic = topic]
Tell(t) == [Call("report", t) EXCEPT !.ids = {<<"said", Said>>}]

\* What it takes to do the task, and calls of every kind on which Gateway and world
\* differ. (The task forbids to open the door, so that it is never there to close.)
Calls ==
  {Call("move_to", t) : t \in {"door", "player", "crane"}}
  \cup {Call("observe", "player")}
  \cup {Call("listen_at", t) : t \in {"door", "crane", "visitor"}}
  \cup {Ask("visitor", "identity"), Ask("visitor", "weather"), Ask("player", "purpose")}
  \cup {Tell("player"), Tell("door"), [Call("report", "player") EXCEPT !.facts = {Said}]}
  \cup {[Call("wait", "none") EXCEPT !.seconds = 5]}

\* The commands the adapter may make of them.
Requested == {BridgeCommand(a) : a \in Calls}

Fault(kind, at, on, ms) ==
  [kind |-> kind, stage |-> at, on |-> on, before |-> 0, ms |-> ms,
   event |-> None]
Struck(at, on, before, name, value) ==
  [kind |-> "world_event", stage |-> at, on |-> on, before |-> before, ms |-> 0,
   event |-> [name |-> name, value |-> value]]

Scenario ==
  {Struck("started", {"move_to"}, 500, "path_reachable", FALSE),
   Struck("started", {"ask_through"}, 400, "visitor_present", FALSE),
   Struck("built", {"ask_through"}, 0, "door_locked", TRUE),
   Fault("cancel_task", "started", {"move_to", "report"}, 0),
   Fault("pause_resume", "started", {"ask_through"}, 0),
   Fault("save_load", "started", {"move_to", "ask_through", "report"}, 1000),
   Fault("duplicate_completion", "judged", {"move_to"}, 0),
   Fault("set_deadline_ms", "built", {"report"}, 400)}
Happenings == {fault.event : fault \in Scenario} \ {None}

\* A load that abandons the end of the action under way.
Abandoning == {Fault("save_load", "started", {"move_to", "report"}, 1000)}
=============================================================================
