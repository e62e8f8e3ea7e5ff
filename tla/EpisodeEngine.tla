---------------------------- MODULE EpisodeEngine ----------------------------
(***************************************************************************)
(* EpisodeEngine (engine.py) played by a scenario (scenario_runner.py): a  *)
(* tick asks the policy, whose provider may be tried again (providers.py), *)
(* canonicalises and counts its action (progress.py), has the Gateway      *)
(* validate and the executor perform it, and the evaluator judges the      *)
(* task. The tick is split where the policy is asked: a cancellation, or   *)
(* the command that follows it, may come while the answer is awaited.      *)
(*                                                                         *)
(* Of the observations the last is kept, and the trace is its length.      *)
(***************************************************************************)
EXTENDS DoorScene

CONSTANTS
  Scenarios,    \* worlds with the commands given in them and the terminal errors
  Proposals,    \* the actions a policy may answer with
  WorldEvents,  \* changes a scenario may make to the door between ticks
  LoopLimit,    \* loop_repeat_limit
  MaxRetries,   \* max_retries of the provider
  MaxEvents     \* bound: events of a scenario

ASSUME LoopLimitIsPositive == LoopLimit \in Nat \ {0}
ASSUME MaxRetriesIsNatural == MaxRetries \in Nat
ASSUME MaxStepsArePositive ==
  \A s \in Scenarios : \A i \in DOMAIN s.commands : s.commands[i].maxSteps \in Nat \ {0}

\* The fields of WorldState, with the queues of forced results by tool.
IsWorld(w) ==
  /\ w = [at |-> w.at, door |-> w.door, locked |-> w.locked, reachable |-> w.reachable,
          time |-> w.time, heard |-> w.heard, facts |-> w.facts, memories |-> w.memories,
          reports |-> w.reports, residue |-> w.residue, responses |-> w.responses,
          claimedName |-> w.claimedName, forced |-> w.forced]
  /\ w.forced = [tool \in DOMAIN w.forced |-> w.forced[tool]]

\* Names are known as claims only, and whether names conflict is derived only.
NamesAreClaims(w) ==
  /\ \A fact \in w.facts :
       /\ fact.predicate = "claimed_name" => fact.certainty = "CLAIMED"
       /\ fact.predicate # "identity_status"
  /\ \A m \in Accessible(w) :
       /\ m.predicate = "claimed_name" => m.kind = "claim"
       /\ m.predicate # "identity_status"

ASSUME ScenariosHaveWorlds == \A s \in Scenarios : IsWorld(s.world) /\ s.world.reports = <<>>
ASSUME ScenariosClaimNames == \A s \in Scenarios : NamesAreClaims(s.world)
ASSUME EventsAreKnown ==
  WorldEvents \subseteq {"opened", "closed", "locked", "unlocked", "blocked", "cleared"}

VARIABLES
  scenario,  \* the scenario played
  world,     \* engine.world
  current,   \* the commands submitted, the last one's task is engine.active_task
  tasks,     \* the task of each command, fresh until it is submitted
  asking,    \* the task whose tick awaits the policy, 0 for none
  attempt,   \* attempts the provider has made at this tick's request
  observed,  \* the last observation of any task
  trace,     \* number of trace records
  happened,  \* number of scenario events
  crashed    \* an exception left the tick, and the scenario with it

episodeVars ==
  <<scenario, world, current, tasks, asking, attempt, observed, trace, happened, crashed>>

Statuses == {"active", "succeeded", "failed", "cancelled"}
Spec(i) == scenario.commands[i]
IsTerminal(i) == tasks[i].status # "active"
Idle == asking = 0 /\ ~crashed

NoObservation == [success |-> FALSE, code |-> Absent]
FreshTask == [status |-> "active", reason |-> Absent, steps |-> 0, counts |-> [f \in {} |-> 0]]

\* from_snapshot keeps how many answers are queued and not which.
RoundTrip(w) == [w EXCEPT !.responses = [i \in DOMAIN @ |-> Absent]]

Init ==
  /\ scenario \in Scenarios
  /\ world = IF scenario.roundTrip THEN RoundTrip(scenario.world) ELSE scenario.world
  /\ current = 0 /\ tasks = [i \in DOMAIN scenario.commands |-> FreshTask]
  /\ asking = 0 /\ attempt = 0 /\ observed = NoObservation
  /\ trace = 0 /\ happened = 0 /\ crashed = FALSE

-----------------------------------------------------------------------------
(* Commands and events.                                                    *)

SubmitCommand ==
  /\ ~crashed /\ current + 1 \in DOMAIN scenario.commands
  /\ current > 0 => IsTerminal(current)
  /\ current' = current + 1
  /\ UNCHANGED <<scenario, world, tasks, asking, attempt, observed, trace, happened, crashed>>

CancelTask ==
  /\ ~crashed /\ current > 0 /\ happened < MaxEvents
  /\ tasks' = IF IsTerminal(current) THEN tasks
              ELSE [tasks EXCEPT ![current].status = "cancelled",
                                 ![current].reason = "TASK_CANCELLED"]
  /\ happened' = happened + 1 /\ trace' = IF asking = 0 THEN trace + 1 ELSE trace
  /\ UNCHANGED <<scenario, world, current, asking, attempt, observed, crashed>>

Happen(event, w) ==
  CASE event = "opened" -> [w EXCEPT !.door = "open"]
    [] event = "closed" -> [w EXCEPT !.door = "closed"]
    [] event = "locked" -> [w EXCEPT !.locked = TRUE]
    [] event = "unlocked" -> [w EXCEPT !.locked = FALSE]
    [] event = "blocked" -> [w EXCEPT !.reachable = FALSE]
    [] event = "cleared" -> [w EXCEPT !.reachable = TRUE]

SetObject ==
  /\ Idle /\ current > 0 /\ tasks[current].status \in {"active", "cancelled"}
  /\ happened < MaxEvents
  /\ \E event \in WorldEvents : world' = Happen(event, world)
  /\ happened' = happened + 1 /\ trace' = trace + 1
  /\ UNCHANGED <<scenario, current, tasks, asking, attempt, observed, crashed>>

-----------------------------------------------------------------------------
(* A tick: the request and its attempts.                                   *)

BeginTick ==
  /\ Idle /\ current > 0 /\ ~IsTerminal(current)
  /\ asking' = current /\ attempt' = 1
  /\ UNCHANGED <<scenario, world, current, tasks, observed, trace, happened, crashed>>

RetryRequest_StartsOver ==
  /\ asking # 0 /\ ~crashed
  /\ attempt' = IF attempt <= MaxRetries THEN attempt + 1 ELSE 1
  /\ UNCHANGED <<scenario, world, current, tasks, asking, observed, trace, happened, crashed>>

\* A retryable status, a lost connection or a timeout, with retries left.
RetryRequest ==
  /\ asking # 0 /\ ~crashed /\ attempt <= MaxRetries
  /\ attempt' = attempt + 1
  /\ UNCHANGED <<scenario, world, current, tasks, asking, observed, trace, happened, crashed>>

-----------------------------------------------------------------------------
(* A tick: the semantic fingerprint of an action.                          *)

Progress(w) ==
  [at |-> w.at, door |-> w.door, reachable |-> w.reachable, locked |-> w.locked,
   heard |-> w.heard, facts |-> w.facts, memories |-> Accessible(w), residue |-> w.residue]

Fingerprint(a, w) ==
  [action |-> a, progress |-> Progress(w),
   time |-> IF a.name = "wait" /\ a.seconds > 0 THEN w.time ELSE 0]

Count(counts, f) == IF f \in DOMAIN counts THEN counts[f] ELSE 0
Counted(counts, f) ==
  [g \in DOMAIN counts \cup {f} |-> Count(counts, g) + (IF g = f THEN 1 ELSE 0)]

IsLoop(a, t) == Count(Counted(t.counts, Fingerprint(a, world)), Fingerprint(a, world)) >= LoopLimit

\* The fingerprint converts the seconds of a waiting to a number and goes through
\* the facts of a report without fact_ids: an answer of another type raises there.
FingerprintFails(a) == ~a.readable /\ (a.name = "wait" \/ (a.name = "report" /\ a.ids = {}))

-----------------------------------------------------------------------------
(* A tick: its end.                                                        *)

End(t, status, reason) == [t EXCEPT !.status = status, !.reason = reason]
Step(t) == [t EXCEPT !.steps = @ + 1]

Judge_OneStepMore(t, spec, a, success, w) ==
  LET opened == success /\ a.name = "open"
      done == /\ success /\ a.name = "report"
              /\ CompletionMet(w.reports[Len(w.reports)], w, spec.goal)
  IN IF t.status # "active" THEN t
     ELSE IF opened THEN End(t, "failed", "FORBIDDEN_DOOR_OPENED")
     ELSE IF done THEN End(t, "succeeded", "COMPLETION_CRITERIA_MET")
     ELSE IF t.steps > spec.maxSteps THEN End(t, "failed", "MAX_STEPS_EXCEEDED")
     ELSE t

\* DoorVisitorEvaluator.update on the task after its step.
Judge(t, spec, a, success, w) ==
  LET opened == success /\ a.name = "open"
      done == /\ success /\ a.name = "report"
              /\ CompletionMet(w.reports[Len(w.reports)], w, spec.goal)
  IN IF t.status # "active" THEN t
     ELSE IF opened THEN End(t, "failed", "FORBIDDEN_DOOR_OPENED")
     ELSE IF done THEN End(t, "succeeded", "COMPLETION_CRITERIA_MET")
     ELSE IF t.steps >= spec.maxSteps THEN End(t, "failed", "MAX_STEPS_EXCEEDED")
     ELSE t

\* The end of a tick of task t, which got this observation and left world w.
Observe(t, a, success, code, w) ==
  /\ world' = w
  /\ tasks' = [tasks EXCEPT ![asking] = Judge(Step(t), Spec(asking), a, success, w)]
  /\ observed' = [success |-> success, code |-> code]
  /\ asking' = 0 /\ attempt' = 0 /\ trace' = trace + 1
  /\ UNCHANGED <<scenario, current, happened, crashed>>

Nothing == [name |-> "nothing"]

\* scenario.terminal holds the codes for which terminal_on_provider_error or
\* terminal_on_policy_error is set.
FailWith(code) ==
  LET t == tasks[asking]
  IN Observe(IF code \in scenario.terminal THEN End(t, "failed", code) ELSE t,
             Nothing, FALSE, code, world)

\* The last attempt fails, or its answer holds no well-formed turn.
ProviderFails == asking # 0 /\ ~crashed /\ FailWith("provider_error")

\* The turn is not one tool call with a well-formed target.
TurnFails == asking # 0 /\ ~crashed /\ FailWith("policy_output_error")

PolicyFails == ProviderFails \/ TurnFails

Propose_IgnoringCancellation(a) ==
  LET t == [tasks[asking] EXCEPT !.counts = Counted(@, Fingerprint(a, world))]
      gateway == Refusal(a, world, Spec(asking))
      result == Execute(a, world, Spec(asking).goal)
  IN IF IsLoop(a, tasks[asking])
     THEN Observe(End(t, "failed", "LOOP_DETECTED"), a, FALSE, "LOOP_DETECTED", world)
     ELSE IF gateway # "NONE"
     THEN Observe(t, a, FALSE, gateway, world)
     ELSE Observe(t, a, result.success, result.code, result.world)

Propose(a) ==
  LET t == [tasks[asking] EXCEPT !.counts = Counted(@, Fingerprint(a, world))]
      gateway == IF t.status = "cancelled" THEN "TASK_CANCELLED"
                 ELSE IF t.status # "active" THEN "TASK_TERMINAL"
                 ELSE Refusal(a, world, Spec(asking))
      result == Execute(a, world, Spec(asking).goal)
  IN IF IsLoop(a, tasks[asking])
     THEN Observe(End(t, "failed", "LOOP_DETECTED"), a, FALSE, "LOOP_DETECTED", world)
     ELSE IF gateway # "NONE"
     THEN Observe(t, a, FALSE, gateway, world)
     ELSE Observe(t, a, result.success, result.code, result.world)

\* The Gateway looks no target up for a task that is over.
Raises(a) ==
  \/ FingerprintFails(a)
  \/ ~IsLoop(a, tasks[asking]) /\ ~IsTerminal(asking) /\ LookupFails(a, Spec(asking))

PolicyAnswers ==
  /\ asking # 0 /\ ~crashed
  /\ \E a \in Proposals : ~Raises(a) /\ Propose(a)

\* No step is counted and no record is written.
Crash ==
  /\ asking # 0 /\ ~crashed
  /\ \E a \in Proposals :
       /\ Raises(a)
       /\ tasks' = IF FingerprintFails(a) THEN tasks
                   ELSE [tasks EXCEPT ![asking].counts = Counted(@, Fingerprint(a, world))]
  /\ crashed' = TRUE /\ asking' = 0 /\ attempt' = 0
  /\ UNCHANGED <<scenario, world, current, observed, trace, happened>>

Next ==
  \/ SubmitCommand \/ CancelTask \/ SetObject
  \/ BeginTick \/ RetryRequest \/ PolicyFails \/ PolicyAnswers \/ Crash

SpecEpisode == Init /\ [][Next]_episodeVars

\* run_until_terminal ticks on; each attempt of a request ends, by its timeout at the latest.
FairEpisode ==
  /\ SpecEpisode
  /\ WF_episodeVars(BeginTick)
  /\ WF_episodeVars(RetryRequest \/ PolicyFails \/ PolicyAnswers \/ Crash)

-----------------------------------------------------------------------------
(* Properties.                                                             *)

\* The types of the variables, with the bounds the code keeps: a provider is
\* asked at most max_retries times again, an active task has steps left, and a
\* tick under way belongs to a submitted task.
TypeOK ==
  /\ scenario \in Scenarios
  /\ current \in Nat /\ 1..current \subseteq DOMAIN scenario.commands
  /\ \A i \in 1..current :
       /\ tasks[i].status \in Statuses
       /\ tasks[i].steps \in 0..Spec(i).maxSteps
       /\ tasks[i].status = "active" => tasks[i].steps < Spec(i).maxSteps
       /\ i < current => IsTerminal(i)
  /\ asking \in 0..current
  /\ attempt \in 0..(MaxRetries + 1)
  /\ (attempt = 0) <=> (asking = 0)

Ready(w, spec) == ReportWouldComplete(w, spec.goal)

\* What completion_progress calls ready is what the evaluator accepts: when a
\* report would complete the task, reporting the accepted facts does, and when
\* it would not, no choice of facts from the catalogue does. (A conflict is
\* also called ready with a single name or with the derived conflict alone, and
\* a report_fact that names no value with any, which never completes it; and a
\* certainty asked of a report_predicate is no condition of its completion.)
ReadyMeansDone ==
  \A i \in 1..current :
    LET goal == Spec(i).goal
        offered == {entry.fact : entry \in Accepted(world, goal)}
        all == {entry.fact : entry \in Catalog(world, goal)}
    IN IF Ready(world, Spec(i))
       THEN (/\ goal.kind = "report_conflict" => Cardinality(NamesKnown(world)) >= 2
             /\ goal.kind = "report_fact" => goal.value # Absent)
            => CompletionMet(offered, world, goal)
       ELSE (goal.kind = "report_predicate" => goal.certainty = Absent)
            => ~CompletionMet(all, world, goal)

\* The call a model makes of an afforded tool and target.
CallOf(tool, target, w, goal) ==
  [name |-> tool, target |-> target, valid |-> TRUE, facts |-> {},
   seconds |-> 0, readable |-> TRUE,
   barrier |-> IF tool = "ask_through" THEN "door" ELSE Absent,
   topic |-> IF tool = "ask_through" THEN "identity" ELSE Absent,
   ids |-> IF tool = "report" THEN {entry.id : entry \in Accepted(w, goal)} ELSE {}]

Unforced(w) == [w EXCEPT !.forced = [tool \in {} |-> <<>>]]

\* What may be done though it is not listed.
MayUnlisted(tool, target, w) ==
  \/ tool \in {"open", "close"} /\ target \in Doors /\ w.at # PlaceOf(target)
  \/ tool = "listen_at" /\ target \in Objects \ Doors /\ w.at = PlaceOf(target)
  \/ tool = "observe" /\ target \in {"player", "npc"}
  \/ tool = "report"

\* The affordances agree with the rules: a call they offer raises nothing, is
\* refused for no reason but the closed-door constraint, and is carried out
\* (only the visitor may fail to answer); a target they withhold is refused by
\* the Gateway or fails, except that a door opens and closes from afar, that an
\* object that is no door can be listened at where it lies, that the NPC and the
\* player are never listed and that the report need not complete the task.
AffordancesAgree ==
  \A i \in 1..current : \A tool \in Tools \ {"wait"} : \A target \in KnownTargets :
    LET goal == Spec(i).goal
        call == CallOf(tool, target, world, goal)
        refusal == Refusal(call, world, Spec(i))
        result == Execute(call, Unforced(world), goal)
    IN IF Afforded(tool, target, world, Spec(i))
       THEN /\ ~LookupFails(call, Spec(i))
            /\ refusal \in {"NONE", "HARD_CONSTRAINT_VIOLATION"}
            /\ result.success \/ result.code = "NO_RESPONSE"
       ELSE \/ LookupFails(call, Spec(i)) \/ refusal # "NONE" \/ ~result.success
            \/ MayUnlisted(tool, target, world)

Answered == asking # 0 /\ asking' = 0 /\ ~crashed'

\* A tick of a task that was cancelled while its policy was asked leaves the
\* world as it is, also when the next command has been submitted meanwhile,
\* and never makes the task succeed; no task takes a step after it is over
\* but the one whose answer was awaited.
CancelledNeverActs ==
  [][/\ (asking # 0 /\ IsTerminal(asking)) => UNCHANGED world
     /\ \A i \in 1..current :
          IsTerminal(i) => /\ tasks'[i].status \in {tasks[i].status, "failed"}
                           /\ i = asking \/ tasks'[i] = tasks[i]]_episodeVars

\* A tick that ends in a failure leaves what the NPC and the player can tell
\* of the world as it is: only the simulator's queues move.
FailuresChangeNothing ==
  [][Answered /\ ~observed'.success
       => world' = [world EXCEPT !.responses = world'.responses, !.forced = world'.forced]
     ]_episodeVars

\* Delivered reports say what was known when they were delivered: a name only
\* as a claim, and only one that a visitor, a witness or a memory open to the
\* NPC gives; an unknown identity only while there is no name, and a conflict
\* only between two.
ReportsAreTrue ==
  [][world'.reports # world.reports =>
       \A fact \in world'.reports[Len(world'.reports)] :
         CASE fact.predicate = "claimed_name" ->
                fact.certainty = "CLAIMED" /\ fact.value \in NamesKnown(world)
           [] fact.predicate = "identity_status" ->
                fact.value = (IF NamesKnown(world) = {} THEN "UNKNOWN" ELSE "CONFLICTED")
                /\ Cardinality(NamesKnown(world)) # 1
           [] OTHER -> TRUE]_episodeVars

\* A task succeeds only in the tick that delivers its report, with the NPC at
\* the player's place and the door closed, however the door was opened and
\* closed before; never on the strength of a report that was refused.
SuccessIsEarned ==
  [][\A i \in 1..current :
       tasks'[i].status = "succeeded" /\ tasks[i].status # "succeeded" =>
         /\ i = asking /\ observed'.success
         /\ world'.at = PlayerPlace /\ world'.door = "closed"
         /\ GoalMatched(world'.reports[Len(world'.reports)], world', Spec(i).goal)]_episodeVars

\* Whatever the policy answers and however often the provider is tried again,
\* every submitted task comes to an end, or its tick raises.
EpisodesEnd == current > 0 ~> crashed \/ (current > 0 /\ IsTerminal(current))

=============================================================================
