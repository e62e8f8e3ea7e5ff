--------------------------- MODULE AgentOverBridge ---------------------------
(***************************************************************************)
(* An NPC agent that plays a task in the headless world: the loop of       *)
(* run_one_model_bridge_scenario (bridge/model_acceptance.py) over the     *)
(* HeadlessNpcAdapter (bridge/adapter.py). The adapter shows the policy    *)
(* the world as a DoorScene, has the Gateway check the answer there and    *)
(* makes a request of it; the loop hands the request to the world, lets    *)
(* time pass until a terminal message for the action turns up and has the  *)
(* evaluator judge the task. At three stages of a turn the scenario may    *)
(* inject a fault: it is chosen, may let time pass and is then applied.    *)
(***************************************************************************)
EXTENDS HeadlessWorld

CONSTANTS
  Answers,       \* what the policy may propose, as calls of DoorScene
  Injections,    \* faults: [kind, stage, on, before, ms, event]
  Task,          \* the task: [allowed, forbidden, mustRemainClosed, maxSteps, goal]
  MaxInjections  \* bound: faults of a scenario

Door == INSTANCE DoorScene WITH
  Permissions <- {"navigate", "perceive", "communicate", "manipulate", "wait"},
  KnownTargets <- {"door", "visitor", "player", "crane"}

VARIABLES
  stage,     \* where the turn is: decide, built, started, awaited, overdue, judged, raised
  agentTask, \* the ActiveTask, with the number of model calls
  counts,    \* action_semantics
  request,   \* the last request, None before there is one
  answer,    \* the call it was made from
  outcome,   \* the terminal message found for it, None while none is
  told,      \* the last terminal message of each action in retained_messages: [status, epoch]
  pending,   \* the fault being injected, None for none
  injected,  \* number of faults
  disturbed, \* whether a fault fell into the turn, or an earlier one left an action under way
  cancelled  \* whether the task was cancelled with an action under way

faults == <<pending, injected, disturbed, cancelled>>
agentVars == <<stage, agentTask, counts, request, answer, outcome, faults>>
allVars == <<vars, agentVars, told>>

Npc == "npc.qingyan"

InitAgent ==
  /\ Init
  /\ stage = "decide"
  /\ agentTask = [status |-> "active", reason |-> None, steps |-> 0, calls |-> 0]
  /\ counts = [a \in Answers |-> 0]
  /\ request = None /\ answer = None /\ outcome = None
  /\ told = [a \in ActionIds |-> None]
  /\ pending = None /\ injected = 0 /\ disturbed = FALSE /\ cancelled = FALSE

-----------------------------------------------------------------------------
(* The adapter.                                                            *)

\* The fact the visitor's answer, or the look at the door, leaves.
FactOf(topic) ==
  CASE topic = "identity" -> Door!Claimed("claimed_name", "Xiaoman")
    [] topic = "purpose" -> Door!Claimed("visit_purpose", "speak_with_player")
    [] topic = "request" -> Door!Claimed("visitor_request", "notify_player_of_arrival")
    [] topic = "door_state" -> Door!DoorIs("closed")

CorePlace(anchor) ==
  CASE anchor \in {"anchor.player", "anchor.counter"} -> Door!PlayerPlace
    [] anchor = "anchor.door" -> Door!DoorPlace
    [] OTHER -> anchor

\* What the Gateway and the evaluator read of the projected world.
CoreWorld ==
  [at |-> CorePlace(world.place[Npc]), door |-> IF world.open THEN "open" ELSE "closed",
   locked |-> world.locked, reachable |-> world.reachable,
   facts |-> {FactOf(world.facts[i]) : i \in DOMAIN world.facts},
   memories |-> {}, residue |-> {}]

\* A visitor who has left is no target any more.
Gone(a) == a.target = "visitor" /\ ~world.visitor
GatewayFails(a) == ~Gone(a) /\ Door!LookupFails(a, Task)
GatewayRefuses(a) ==
  \/ Gone(a)
  \/ Door!Refusal(a, CoreWorld, Task) # "NONE"
  \/ a.name = "report" /\ Door!Missing(a.ids, CoreWorld, Task.goal) # {}

BridgeTarget(t) ==
  CASE t = "door" -> "door.front"
    [] t = "visitor" -> "visitor.xiaoman"
    [] t = "crane" -> "object.paper_crane"
    [] t = "npc" -> Npc
    [] OTHER -> t

\* A report that lists its facts itself has no fact_ids.
BridgeCommand(a) ==
  [name |-> a.name,
   arg |-> CASE a.name \in {"move_to", "observe"} -> BridgeTarget(a.target)
             [] a.name = "ask_through" -> a.topic
             [] a.name = "report" /\ a.ids # {} -> a.ids
             [] a.name = "wait" -> a.seconds * 1000
             [] OTHER -> None]

\* A deadline no action can meet.
Deadline_TooClose == 400

Deadline == 5000

-----------------------------------------------------------------------------
(* A turn: the policy.                                                     *)

EndTask(t, status, reason) == [t EXCEPT !.status = status, !.reason = reason]
Called(t) == [t EXCEPT !.calls = @ + 1]
Deciding == stage = "decide" /\ agentTask.status = "active" /\ agentTask.calls < Task.maxSteps

\* An error of the provider is a step without a judgement.
ProviderFails ==
  /\ Deciding
  /\ agentTask' = [Called(agentTask) EXCEPT !.steps = @ + 1]
  /\ UNCHANGED <<vars, stage, counts, request, answer, outcome, faults>>

TurnFails ==
  /\ Deciding
  /\ agentTask' = EndTask(Called(agentTask), "failed", "policy_output_error")
  /\ UNCHANGED <<vars, stage, counts, request, answer, outcome, faults>>

\* The evaluator on the projected world, with the facts the ids stand for there.
Judge(t, a, success) ==
  LET u == [t EXCEPT !.steps = @ + 1]
  IN IF u.status # "active" THEN u
     ELSE IF success /\ a.name = "open" THEN EndTask(u, "failed", "FORBIDDEN_DOOR_OPENED")
     ELSE IF /\ success /\ a.name = "report"
             /\ Door!CompletionMet(Door!Resolve(a.ids, CoreWorld, Task.goal), CoreWorld, Task.goal)
     THEN EndTask(u, "succeeded", "COMPLETION_CRITERIA_MET")
     ELSE IF u.steps >= Task.maxSteps THEN EndTask(u, "failed", "MAX_STEPS_EXCEEDED")
     ELSE u

\* What the loop does with an answer before it makes a request of it.
Answer(a) ==
  /\ Deciding
  /\ counts' = [counts EXCEPT ![a] = @ + 1]
  /\ UNCHANGED <<pending, injected, cancelled>>

IsLoop(a) == counts[a] + 1 >= 3

StopLoop(a) ==
  /\ Answer(a) /\ IsLoop(a)
  /\ agentTask' = EndTask(Called(agentTask), "failed", "LOOP_DETECTED")
  /\ UNCHANGED <<vars, stage, request, answer, outcome, disturbed>>

\* The KeyError of the Gateway leaves the loop.
GatewayRaises(a) ==
  /\ Answer(a) /\ ~IsLoop(a) /\ GatewayFails(a)
  /\ stage' = "raised"
  /\ agentTask' = Called(agentTask)
  /\ UNCHANGED <<vars, request, answer, outcome, disturbed>>

Refuse(a) ==
  /\ Answer(a) /\ ~IsLoop(a) /\ ~GatewayFails(a) /\ GatewayRefuses(a)
  /\ agentTask' = Judge(Called(agentTask), a, FALSE)
  /\ UNCHANGED <<vars, stage, request, answer, outcome, disturbed>>

\* The request is based on the world's epoch, version and task generation.
Build(a) ==
  /\ Answer(a) /\ ~IsLoop(a) /\ ~GatewayFails(a) /\ ~GatewayRefuses(a)
  /\ LET id == Cardinality(sent) + 1
     IN SendAction(id, id, Npc, BridgeCommand(a), Deadline)
  /\ request' = CHOOSE m \in sent' : m \notin sent
  /\ answer' = a /\ outcome' = None /\ disturbed' = (ActiveOf(Npc) # {})
  /\ agentTask' = Called(agentTask)
  /\ stage' = "built"

-----------------------------------------------------------------------------
(* A turn: the world.                                                      *)

Turning(s) ==
  /\ stage = s /\ pending = None /\ Idle
  /\ UNCHANGED <<counts, answer, faults>>

Handle ==
  /\ Turning("built")
  /\ \/ HandleKnownOrStaleAction(request) /\ outcome' = "REJECTED" /\ stage' = "overdue"
     \/ RejectAction(request) /\ outcome' = "REJECTED" /\ stage' = "overdue"
     \/ AcceptAction(request) /\ UNCHANGED outcome /\ stage' = "started"
  /\ UNCHANGED <<agentTask, request>>

\* A message of any action, and not of the one that was asked for.
TerminalOf_AnyAction(id) ==
  LET ended == {a \in ActionIds : told[a] # None}
  IN IF ended = {} THEN None ELSE told[CHOOSE a \in ended : \A b \in ended : b <= a].status

\* _terminal_message over the retained messages, of whatever epoch they are.
TerminalOf(id) == IF told[id] = None THEN None ELSE told[id].status

\* advance(6000), for as long as no terminal message is there.
Await(from, to) ==
  /\ Turning(from)
  /\ stage' = to
  /\ outcome' = IF outcome = None THEN TerminalOf(request.id) ELSE outcome
  /\ IF outcome' = None THEN AdvanceBegin(6000) ELSE UNCHANGED vars
  /\ UNCHANGED <<agentTask, request>>

\* What advance() does until it returns, which the loop waits for.
AdvanceOn ==
  /\ AdvancePop \/ AdvanceComplete \/ AdvanceExpire \/ AdvanceEnd
  /\ UNCHANGED agentVars

\* The terminal message's observation is judged, unless there is none.
Conclude ==
  /\ Turning("overdue")
  /\ outcome' = IF outcome = None THEN TerminalOf(request.id) ELSE outcome
  /\ IF outcome' = None
     THEN /\ agentTask' = EndTask(agentTask, "failed", "BRIDGE_TERMINAL_MISSING")
          /\ stage' = "decide"
     ELSE /\ agentTask' = Judge(agentTask, answer, outcome' = "COMPLETED")
          /\ stage' = "judged"
  /\ UNCHANGED <<vars, request>>

\* The agent goes on whatever became of its action.
Leave_IgnoringCancellation ==
  /\ Turning("judged")
  /\ stage' = "decide"
  /\ UNCHANGED <<vars, agentTask, request, outcome>>

\* A cancelled action is a cancelled task.
Leave ==
  /\ Turning("judged")
  /\ stage' = "decide"
  /\ agentTask' = IF outcome = "CANCELLED" THEN EndTask(agentTask, "cancelled", "TASK_CANCELLED")
                  ELSE agentTask
  /\ UNCHANGED <<vars, request, outcome>>

-----------------------------------------------------------------------------
(* Faults.                                                                 *)

\* A fault may let time pass before it is applied.
Inject(fault) ==
  /\ Idle /\ pending = None /\ stage = fault.stage /\ answer.name \in fault.on
  /\ injected < MaxInjections
  /\ pending' = fault /\ injected' = injected + 1 /\ disturbed' = TRUE
  /\ IF fault.before = 0 THEN UNCHANGED vars ELSE AdvanceBegin(fault.before)
  /\ UNCHANGED <<stage, agentTask, counts, request, answer, outcome, cancelled>>

Applying(kind) ==
  /\ Idle /\ pending # None /\ pending.kind = kind
  /\ UNCHANGED <<stage, agentTask, counts, answer, outcome, injected, disturbed>>

Then(kind) == pending' = [pending EXCEPT !.kind = kind]

InjectWorldEvent ==
  /\ Applying("world_event") /\ HostWorldEvent(pending.event) /\ pending' = None
  /\ UNCHANGED <<request, cancelled>>

InjectCancel ==
  /\ Applying("cancel_task") /\ HostCancelTask /\ Then("duplicate_completion")
  /\ cancelled' = (cancelled \/ ActiveOf(Npc) # {})
  /\ UNCHANGED request

\* The late completion of a cancelled action, or the second of a completed one.
InjectCompletion ==
  /\ Applying("duplicate_completion") /\ CompletionCallback(request.id) /\ pending' = None
  /\ UNCHANGED <<request, cancelled>>

InjectPause ==
  /\ Applying("pause_resume") /\ HostPause /\ Then("resume")
  /\ UNCHANGED <<request, cancelled>>

InjectResume ==
  /\ Applying("resume") /\ HostResume /\ pending' = None
  /\ UNCHANGED <<request, cancelled>>

InjectSave ==
  /\ Applying("save_load") /\ ExportSave /\ Then("go_on")
  /\ UNCHANGED <<request, cancelled>>

\* advance_before_load_ms.
InjectGoingOn ==
  /\ Applying("go_on") /\ AdvanceBegin(pending.ms) /\ Then("load")
  /\ UNCHANGED <<request, cancelled>>

InjectLoad ==
  /\ Applying("load") /\ LoadSave /\ pending' = None
  /\ UNCHANGED <<request, cancelled>>

InjectDeadline ==
  /\ Applying("set_deadline_ms") /\ pending' = None
  /\ request' = [request EXCEPT !.deadline = now + pending.ms]
  /\ sent' = (sent \ {request}) \cup {request'}
  /\ UNCHANGED <<epoch, version, task, paused, scheduler, world, ledger, cache, save, advance,
                 cancelled>>

-----------------------------------------------------------------------------
Turn ==
  \/ ProviderFails \/ TurnFails
  \/ \E a \in Answers : StopLoop(a) \/ GatewayRaises(a) \/ Refuse(a) \/ Build(a)
  \/ Handle \/ Await("started", "awaited") \/ Await("awaited", "overdue") \/ AdvanceOn
  \/ Conclude \/ Leave

Faults ==
  \/ \E fault \in Injections : Inject(fault)
  \/ InjectWorldEvent \/ InjectCancel \/ InjectCompletion \/ InjectPause \/ InjectResume
  \/ InjectSave \/ InjectGoingOn \/ InjectLoad \/ InjectDeadline

\* Terminal messages are retained across loads.
Telling ==
  told' = [a \in ActionIds |->
             IF epoch' = epoch /\ active[a] # None /\ active'[a] = None
             THEN [status |-> terminal'[Len(terminal')].status, epoch |-> epoch]
             ELSE told[a]]

NextAgent == (Turn \/ Faults) /\ Telling

SpecAgent == InitAgent /\ [][NextAgent]_allVars

-----------------------------------------------------------------------------
(* Properties.                                                             *)

\* Whatever is injected between a request and its outcome, the loop finds a
\* terminal message for the action and never gives the task up for want of one.
TerminalIsFound == agentTask.reason # "BRIDGE_TERMINAL_MISSING"

\* Calls that the Gateway admits on the projected world and the world does not
\* complete. It looks at no path; to observe oneself or the player, to ask anything
\* of anyone and to report to anyone but the player from anywhere is admitted; the
\* paper crane is at anchor.counter, which the projection takes for the player's
\* place; and a waiting of five seconds expires as it ends.
RulesDiffer(a) ==
  \/ a.name = "move_to" /\ a.target = "door" /\ ~world.reachable
  \/ a.name = "observe" /\ a.target \in {"player", "npc"}
  \/ a.name = "listen_at" /\ a.target = "crane"
  \/ a.name = "ask_through" /\ (a.topic \notin Topics \/ ~world.visitor)
  \/ a.name = "report" /\ (a.ids = {} \/ world.place[Npc] # world.place["player"])
  \/ a.name = "wait" /\ a.seconds >= 5

\* What the Gateway admits, the world completes in time when nothing interferes,
\* but for exactly the calls on which the two sets of rules differ.
UndisturbedActionsComplete ==
  stage = "judged" /\ ~disturbed => ((outcome = "COMPLETED") <=> ~RulesDiffer(answer))

Concluding == stage = "overdue" /\ stage' = "judged"

\* The outcome was told in an epoch that a load has abandoned since.
Abandoned(id) == told[id] # None /\ told[id].epoch # epoch

\* The action taken for completed is recorded as completed and is not under way,
\* and a task taken for done has its report among the world's reports, with the
\* NPC where the player is and the door closed.
OutcomeIsReal ==
  /\ outcome' = "COMPLETED" =>
       /\ active[request.id] = None
       /\ \E i \in DOMAIN terminal :
            terminal[i].req.id = request.id /\ terminal[i].status = "COMPLETED"
  /\ agentTask'.status = "succeeded" =>
       /\ world.place[Npc] = world.place["player"] /\ ~world.open
       /\ \E i \in DOMAIN world.reports :
            Door!GoalMatched(Door!Resolve(world.reports[i], CoreWorld, Task.goal),
                             CoreWorld, Task.goal)

\* An outcome the agent acts on is real, whatever was injected while it waited,
\* unless the action ended in an epoch that a load has abandoned since.
OutcomesAreReal == [][Concluding /\ ~Abandoned(request.id) => OutcomeIsReal]_allVars

\* A load invalidates the replies of before: also an action that ended between a
\* save and its load has the outcome the agent acts on in the world that goes on.
LoadInvalidatesReplies == [][Concluding => OutcomeIsReal]_allVars

\* After a cancellation that ended the action under way the agent makes no
\* further request of the world.
CancelledStaysQuiet == [][cancelled => sent' \subseteq sent]_allVars

=============================================================================
