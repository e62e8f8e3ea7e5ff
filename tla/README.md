# Verification of wangsheng-agent-lab

TLA+ models of the repository's own logic, the TLC configurations that check
them on small instances, and theorems about them that TLAPS proves for all
values of the constants. Paths below are relative to the repository; the Python
package is `src/wangsheng/`.

Contents: [the system](#the-system), [modules](#modules),
[the headless world](#the-headless-world-in-detail),
[the message stream](#the-message-stream-in-detail),
[the agent over the bridge](#the-agent-over-the-bridge-in-detail),
[episodes](#episodes-in-detail), [the memory kernel](#the-memory-kernel-in-detail),
[runs](#runs), [proofs](#proofs), [findings](#findings),
[observations](#observations), [not modelled](#not-modelled).

## The system

The repository is an agent laboratory: NPCs of a small house ("front hall,
front door, a visitor") carry out tasks by choosing tools, with a language model
or a script as policy. It has four stateful cores (a game world behind a message
bridge, the stream of its messages, an episode runtime with a world of its own,
and a memory kernel) and a ring of drivers.

### Components

| Component | State | Operations | Hard behaviour | What makes it correct | Modelled |
|---|---|---|---|---|---|
| **Headless world** `bridge/headless_world.py` | entities, door, facts, reports, pause flag, task and its generation, world version and epoch, response cache | `handle` (five request kinds), `advance`, `assign_task`, `cancel_task`, `pause`, `resume`, `schedule_world_event`, `apply_world_event`, completion callback, `export_save`, `load_save`, `reset` | requests delayed, redelivered, delivered after a load; events due at one time; an interruption between start and completion; caches at their limit | one action per actor; a version stands for one state; an action ends once and only once, in time; old requests are inert | yes |
| **Action ledger** `bridge/action_lifecycle.py` | active records, FIFO cache of terminal records | register, transition, active_for_actor, from_state | eviction of a record that a late duplicate asks about | the life cycle is respected although records are forgotten | yes |
| **Scheduler** `bridge/scheduler.py` | heap, index by id, clock, insertion number | schedule_at, cancel, peek, pop_next, set_now | lazily discarded cancelled events, ties, an id refused while its cancelled event lingers | total order, no lost and no orphaned event, clock never passes an event | yes |
| **Delta stream and replay** `bridge/transport.py`, `bridge/protocol.py` | queue of messages, consumer's state | send, receive, duplicate, drop, reorder, replay | gaps, duplicates, reordering, a digest over more than the delta says | no error reported means the consumer has the state | yes |
| **Message envelope** `bridge/messages.py`, retained deque of the world | sequence, message counter, bounded deque | emit, parse | `advance()` reads its result from a bounded deque | consecutive sequence numbers, unique ids | partly |
| **Save files** `bridge/savegame.py` | none | create, from_json, verify digest | – | load after export gives the same gameplay state | partly |
| **NPC adapter** `bridge/adapter.py` | none of its own | project world, build request, read the terminal message | the world moves between projection and request | what the Gateway allowed is what the world completes, but for listed calls | yes |
| **Bridge scenarios, model acceptance** `bridge/scenario_suite.py`, `bridge/model_acceptance.py` | task, last request, faults injected | ask, request, advance, judge; eight kinds of fault | faults between building, starting and judging; an abandoned epoch's messages in the retained ones | an outcome acted on is real (finding 5); a cancelled agent is quiet | partly |
| **Memory kernel, memories** `memory/kernel.py` | events, observations, versions and states, lineages, belief cache, archive references, trace | commit, observe, create, rewrite, transition, contradict, query, save, load | bounded live indexes with an archive behind them, a cache to invalidate, replay against evicted objects | lookup does not depend on archiving, bounds kept, cached beliefs current (finding 4), replay reproduces the live state | partly |
| **Memory kernel, names** `memory/kernel.py` | name records, connections, active ones, conflicts, acknowledgements, manifestation and its audit | create record, acknowledge, project, save, load | a transaction that supersedes, numbers, archives and compacts at once | no clash stays open, lineages linear, nothing proves itself | partly |
| **NPC episode runtime** `engine.py`, `gateway.py`, `executor.py`, `evaluator.py`, `progress.py`, `affordances.py`, ... | world, tasks, counts of repeated actions, last observation | tick, submit, cancel, events | cancellation while the policy is asked, loop detection, forced results, status overwritten within a tick | every episode ends; success is earned; what is offered works, what is withheld does not, but for named calls | yes |
| **Policies, prompts, parser** | at most one remembered turn | choose an action | malformed output | – (a nondeterministic choice for the runtime) | partly |
| **Providers** `providers.py` | attempt counter | post with retries | timeout against a late answer | at most `max_retries + 1` attempts | partly |
| **Traces, replay, audit** `trace.py`, `replay.py`, `result_audit.py` | append-only files | append, verify | – | one record for each tick | partly |
| **Experiments, scenario runner** | reports | run a suite | events between ticks, a round trip through a snapshot | – (sequential driver) | partly |
| **Local model runtime** `local_runtime.py` | telemetry thread, samples | preflight, start, stop | `join` with a timeout | no sample after stop | no |
| **Command line** `cli.py` | none | dispatch | – | – | no |

### How they interact

A client (adapter, scenario suite, external game engine) builds a
`BridgeMessage` from the world's current epoch, version and task generation and
gives it to `HeadlessGameWorld.handle`. The world validates, registers the
action in the ledger and schedules its completion (priority 100) and, with a
deadline, its expiry (priority 10). The host calls `advance`, which pops events
in order and completes, expires or applies them. Every mutation goes through
`_commit`, which compares the gameplay state before and after, takes a version
if they differ and emits a `WORLD_DELTA`; consumers rebuild the state from
snapshot and deltas. A save holds the gameplay state, that is, neither caches
nor version nor epoch.

The episode runtime has a world of its own (`WorldState`). Over the bridge the
same Gateway, evaluator, catalogue and policy are used on a `WorldState` that
the adapter projects from the bridge world: `AgentOverBridge` composes the two
rule sets and the world. The memory kernel stands alone.

Nothing in the repository runs concurrently with the bridge world: its hazards
come from the *order* of calls and deliveries, not from threads. Within
`advance()` the world does many commits, and none of the other calls can come
between them. The episode engine is also sequential, but it awaits the policy in
the middle of a tick: `next_action` is a callback into code outside the engine,
usually an HTTP request with retries, while `cancel` and the command queue
belong to the host. The Gateway's own test for a task that is over
(`gateway.py`:34) can only be met by a task that ended there.

## Modules

| Module | What it is | Code |
|---|---|---|
| `EventQueue` | the scheduler's data structure, as pure operators on sets of events | `bridge/scheduler.py` |
| `HeadlessWorld` | the world, its ledger and its scheduler: state, one action per operation, type invariant, safety and liveness properties | `bridge/headless_world.py`, `bridge/action_lifecycle.py` |
| `ActionLifecycle` | abstract specification: what is promised of every action id | `_ALLOWED` in `bridge/action_lifecycle.py` |
| `ActionOutcomes` | the world with a history variable `fate`, and the refinement of `ActionLifecycle` | `ActionLedger.transition`, `_remember_terminal` |
| `WorldReplica` | a consumer of the delta stream beside the world | `replay_message_stream`, `json_diff`, `apply_json_operations` |
| `MessageStream` | every message with its sequence number, a transport that loses, repeats and reorders, and a consumer that reports errors | `_emit`, `_commit`, `emit_snapshot` of `bridge/headless_world.py`; `InMemoryTransport`, `replay_message_stream` of `bridge/transport.py` |
| `DoorScene` | the rules of the door scene as pure operators: facts, catalogue, Gateway, executor, evaluator, completion progress, affordances | `affordances.py`, `contracts.py`, `evaluator.py`, `executor.py`, `gateway.py`, `models.py`, `reporting.py`, `scenarios.py`, `tools.py` |
| `EpisodeEngine` | the engine's tick over `DoorScene`, with commands, cancellation, events and the provider's retries | `engine.py`, `scenario_runner.py`, `providers.py` |
| `AgentOverBridge` | an agent's turns in the headless world: `HeadlessWorld` extended by the adapter and the acceptance loop with its faults, `DoorScene` instantiated on the projected world | `bridge/adapter.py`, `bridge/model_acceptance.py` |
| `Occurrences` | canonical events, observations, claims and the history trace, shared by the two halves of the kernel | `memory/kernel.py` |
| `MemoryVersions` | versions, states, archive, belief cache, contradictions, replay | `memory/kernel.py` |
| `NameLedger` | name records, acknowledgements, connections, conflicts, compaction, replay | `memory/kernel.py` |
| `MC*` | the inputs and symmetries of TLC's instances | – |
| `HeadlessWorld_proofs`, `HeadlessWorldAgenda_proofs`, `WorldReplica_proofs` (of `ActionOutcomes` too), `MessageStream_proofs`, `EpisodeEngine_proofs`, `MemoryVersions_proofs`, `NameLedger_proofs` | theorems | – |
| `Occurrences_proofs` | lemmas about sequences that both halves of the kernel use | – |

`PROJECT.json` maps every definition to the lines it translates. Operators
whose name has an underscore (`Stale_IgnoringEpoch`, ...) are deliberately wrong
variants of the operator they stand before; no specification uses them. They
are the plausible bugs against which each property is tried: with the variant
in place of the original, TLC finds the property violated.

## The headless world in detail

**State.** The gameplay state of the code (`gameplay_state()`) is spread over
the variables `now`, `paused`, `world`, `active`, `queue`, `nextIns`,
`generation`, `hasTask`, `eventCounter` and gathered again by the operator
`gameplay`. `version`, `epoch`, `terminal` (FIFO cache of terminal records) and
`cache` (FIFO cache of responses) are outside it, as in the code. `save` is a
save the host holds; `target` and `due` are the local variables of a running
`advance()`; `sent` is the channel.

**Channel.** A message, once sent, stays in `sent` for ever and may be delivered
any number of times in any order, before or after loads and resets. Loss is
never delivering. The client stamps it with what it sees when it sends it.

**Handlers.** One step each, from the cache lookup to `_remember_request`. An
action request is split by outcome: `RepeatDelivery`, `HandleKnownOrStaleAction`
(answered, nothing recorded but the response), `RejectAction` (a terminal record
but no version, since the gameplay state holds only active records),
`AcceptAction`, `AcceptActionRaises` (`schedule_at` raised out
of `start_mutation`). `HandleUnprocessable` stands for every message answered
with an error and no more.

**advance().** A loop in which each iteration makes two commits, so each is a
step: `AdvancePop` (clock and queue move), then `AdvanceComplete`,
`AdvanceExpire`, `AdvanceWorldEvent` or `AdvanceRaises`; `AdvanceEnd` moves the
clock to the target. All other actions require `Idle`.

**Versions.** `Committed` is the last conjunct of every mutation and says what
`_commit` does: the version moves exactly if the gameplay state moves. It is
not assumed that an operation changes the state; `gameplay' = gameplay` decides.
`AcceptActionRaises` leaves `_commit` early and so does without.

**Data.** Locations, targets and names are the code's; facts and reports are
sequences of the topics and ids asked for. Messages, texts, timestamps within
records and the JSON form are left out. The scheduler's heap and index are one
set: cancelling marks an event, and `Discard` drops marked events from the top
only, which matters because a marked event still makes its id unusable.

### Bounds

`MaxSent`, `MaxVersion`, `MaxEpoch`, `MaxScheduled` and `MaxTime` stop the
clients' and the host's *calls*; events already pending always still happen, so
no behaviour is cut in the middle of an operation. The code has no such bounds:
they are in the guards of `Send`, `Receive`, `HostCall`, `AdvanceBegin`,
`ExportSave` and `Restore`, and nowhere else. When the calls are used up the system stops, which is why the
configurations say `CHECK_DEADLOCK FALSE`: a stopped host is legal.

The instances are small on purpose and just large enough for the cases that
matter, and three runs share the work. `epochs` has two messages, a decision and a
late or repeated one, of moves and cancellations, three versions, two epochs (a
load or a reset with old traffic in flight) and time up to 2, so that completion,
deadline and world event fall on the same tick, before and after each other.
`events` has one message at a time limit of 1 but every kind of request and
every call of the host; it is the run that meets unsupported events, tasks replaced
and completion callbacks, and it checks `ActionsHaveTheirEvents`. A question can only be
asked at the door, and the NPC starts beside the player, so what takes several actions
in a row is left to `agent`, which asks at the door with paths blocked, visitors leaving
and loads in between. Two action ids and caches of size one make every second
outcome an eviction in `epochs`. The actor is `npc.qingyan`, the only one that events and
task cancellation touch.

`ClientReusesIds` allows clients that send another request under an id that has
been used, which the protocol forbids. To matter, it needs three messages and a
cancelled event that still lingers, more than TLC finishes with here, so no run
has such clients and none takes `AcceptActionRaises`, the branch that only they
reach. The theorems that do not assume `ClientReusesIds = FALSE` cover them.

Action and message ids are model values. `SYMMETRY Ids` is sound for `events`
because no property and no action names an id. `epochs` checks a liveness
property and uses no symmetry.

## The message stream in detail

`MessageStream` turns the picture round: of the world it keeps only what a
message can tell, and of the messages it keeps the order. A gameplay state is a
function from the members of its JSON form to values, beside the event counter,
the one member that moves outside a commit; a digest is the state it is taken
of. `Commit` is any commit that changes something, `ScheduleWorldEvent` the one
that moves the counter first, `Restore` a load or a reset with its two messages,
`EmitOther` every message that says nothing of the state. The loads are of the
world's own saves: the counter of a save is at most the number of messages sent.
Commits do not raise; `VersionIsHonest` says when that is so.

`Duplicate`, `DropNext` and `ReorderNextTwo` are the calls of
`InMemoryTransport`, and `Consume` is `receive` followed by one round of the
loop of `replay_message_stream`: `TakeSnapshot`, `TakeDelta`, `SkipDelta` (with
an error) or `PassOver`. Errors are kept by kind, never forgotten.

`MaxMessages`, `MaxFaults` and `MaxEpoch` bound the world's messages, the faults
and the loads. Four messages are a snapshot, two deltas and one to notice a gap
by, or an epoch before and after a load; one fault is a message lost, repeated
or out of place. `SYMMETRY Anything` permutes members and values, of which no
property names one. The theorems hold for any number of messages and faults.

## The agent over the bridge in detail

`AgentOverBridge` extends `HeadlessWorld` and adds the turn of
`run_one_model_bridge_scenario`. Time is in the code's own milliseconds, with
the durations of the code and the adapter's deadline of 5000 ms, because the
hazard is whether these numbers fit together.

- **`stage`** is where the loop stands: `decide` (ask the policy: `ProviderFails`,
  `TurnFails`, `StopLoop`, `GatewayRaises`, `Refuse` or `Build`), `built` (`Handle`
  gives the request to the world), `started`, `awaited` and `overdue` (`Await` takes
  the terminal message or calls `advance(6000)`, twice at most), `judged`
  (`Conclude` has the evaluator judge, `Leave` goes on), `raised`.
- **The world seen by the agent** is `CoreWorld`, the adapter's projection as a
  `DoorScene`; `BridgeCommand` is what the adapter makes of an answer.
- **`told`** is the last terminal message of each action among the retained
  ones, with the epoch it was told in. Like the code's deque it survives a load;
  this is the hazard of `TerminalIsFound`, `OutcomesAreReal` and
  `LoadInvalidatesReplies`.
- **Faults** are chosen by `Inject` at one of the three stages, may let time pass
  first, and are applied by the action of their kind. Saving, letting time pass
  and loading are three steps, because `advance` is. `make_request_stale` is a
  world event at the stage `built`; the copy of the request that `save_load`
  sends from the old epoch is the subject of `OldEpochActionsInert`.

Bounds of `agent`: four calls of the policy (`maxSteps`) and so four requests, as many
as it takes to go to the door, ask, come back and report. Fourteen answers: those four, calls to be refused, to wait too long and to raise, and one call for every kind
on which the rules of Gateway and world differ; three equal ones make a loop. Two faults
of eight, so that one fault may meet the trace of another: the path blocked in the middle of a move,
the visitor gone in the middle of a question, the door locked behind a request that is built, a
cancellation, a pause, a load, a completion told twice, a deadline that cannot be
met. The load comes after 1000 ms, which is as long as a move and longer than a report, but
shorter than a question: so the terminal message of an abandoned epoch may be there to be
found or may not, and the properties say of each outcome whether it is such a one.
`disturbed` sets a turn apart that a fault has touched; `UndisturbedActionsComplete` speaks of the
others, in a world whose path or visitor an earlier fault may have taken away.
`abandoned_outcome` has the load only, and five calls.

The Gateway admits what the world then rejects, or never completes, in these cases
(`RulesDiffer`), and only in these:

- a move to the door when the path is blocked, since the Gateway looks at no path;
- an observation of the player or of oneself (`bridge/headless_world.py`:666);
- listening at the paper crane in the front hall (658 asks for `anchor.door`);
- a question about any but the four topics (655), or, put to someone else, after the visitor has gone;
  to ask anyone but the visitor is admitted *and* completed, as the world looks at
  no target;
- a report to the player from the paper crane's place, which is `anchor.counter` to
  the world (661) and which the projection takes for the front hall
  (`bridge/adapter.py`:30), and a report to anyone else from anywhere but the
  player's place;
- a report that lists its facts itself instead of their ids (664);
- a wait of five seconds, which expires as it ends, or of more (682).

## Episodes in detail

`DoorScene` has the rules and no variables: `Catalog` (what can be reported),
`Refusal` (the Gateway with its order of checks), `LookupFails` (where the
Gateway raises `KeyError` instead), `Execute` (the executor with its forced
results), `CompletionMet` (the evaluator), `ReportWouldComplete` (progress) and
`Afforded`. Three pieces of code decide what may be done, three what is done when
it is; the properties compare them in every world an episode reaches.

`EpisodeEngine` splits the tick where the policy is asked (`BeginTick`, then
`RetryRequest` any number of times, then `ProviderFails`, `TurnFails`,
`PolicyAnswers` or `Crash`). While a policy is asked, `CancelTask` and
`SubmitCommand` may happen. `SetObject` is an event of the scenario between ticks.

The objects are those of `door_visitor_world`, the door and the paper crane, which
lies where the player is. The rules ask of an object whether it is a door (`Doors`),
where it lies (`PlaceOf`) and whether it can be reached (`Reachable`).

Bounds: three scenarios after the repository's (a claimed name with forced
results, a forgotten memory with two commands and a round trip through a
snapshot, two conflicting names), sixteen proposals, among them three that raise (one
in the Gateway, two in the fingerprint) and one that is not valid, `LoopLimit` 2, one retry, one event or cancellation.
Tasks of at most three steps reach every outcome: an answer, a move, a report.

## The memory kernel in detail

The kernel is modelled in two halves that share `Occurrences`: canonical events,
observations with their checks, and the history trace. The halves touch only in
that a record may cite a memory, from which it takes the observations behind it.

`MemoryVersions`: the variables are the live indexes of the code and its counters.
`Add` is `_create_memory_version` with everything its callers add, evictions
included: what exceeds a bound leaves the live indexes and stays in the trace
only. `VersionOf` and `StateOf` are the lookups with their fall-back to the
trace. `Replay` is the loop of `_from_history_trace`; `SaveAndLoad` is enabled
when the replay agrees with the snapshot, as `load_state` demands, and
`ReplayReproduces` says that it always is.

Bounds: a limit of one lineage, two versions, one forgetting event and one
cached belief make the third version and the second of everything else an
eviction. `Liberties` lists calls that the kernel accepts and that none of its
callers makes; `memory` and `stale_belief` have none, `archived_contradiction` has
`"archived"`.

`NameLedger`: `CreateNameRecord` has the checks of `create_name_record`, and
`Acknowledge` is the whole transaction of `acknowledge_name_record`: conflicts
with the active connections, mitigation by the record's plans, the superseded
connections, numbering, manifestation, and the compaction of four indexes.

Bounds: caches of one, three records out of five drafts, two guests who claim one
room, names that replace each other with a parent, and an observation
that descends from an acknowledgement. Every acknowledgement of the run changes a path;
one that changes nothing, and claims of a capacity, are left to the theorems. `SYMMETRY GuestSymmetry` permutes
the guests, of which no property names one.

## Runs

Distinct states are given so that a reader knows what to expect.

| Run | Question | Result |
|---|---|---|
| `epochs` | requests with and without deadlines, cancellations, pauses, scheduled events, saves and resets with old traffic in flight, a consumer of the deltas, and a clock that is kept going: `TypeOK` with the bounds of both caches, `OneActivePerActor`, `ImplementsLifecycle`, `VersionTracksState`, `DeadlineBeatsCompletion`, `OldEpochActionsInert`, `ReplicaExactButCounter`, `EveryActionEnds` (777,823 states) | holds |
| `events` | every kind of request against every call of the host: world events at once or scheduled, one of them unsupported, new and cancelled tasks, late completions, pauses, saves, loads and resets: `ActionsHaveTheirEvents` (2,193,586 states) | holds |
| `agent` | an agent with up to two faults: does it learn what became of its action (`TerminalIsFound`), is what it acts on real (`OutcomesAreReal`), does it stop when cancelled (`CancelledStaysQuiet`), does the world complete what the Gateway admits (`UndisturbedActionsComplete`), and fail at once what has become impossible (`InterruptedAtOnce`)? (1,315,724 states) | holds |
| `stream_faults` | one message lost, repeated or out of order: is what the consumer holds a state the world had (`ReplicaAuthentic`), the very state if it reports nothing (`CleanIsExact`), has it then missed nothing (`CleanIsComplete`), and does it report no gap without a fault (`NoFalseAlarm`)? | holds |
| `memory` | memories beyond the bounds of the live indexes, forgotten, contradicted, asked for, saved and loaded: `ReplayReproduces`, `LookupIsHistory`, `LiveMemoryBounded`, `LineagesNumberUpwards`, `BeliefsLagOnlyContradictions` | holds |
| `ledger` | records, acknowledgements and projections in every order: `ActiveIsUnsuperseded`, `NoOpenClash`, `LineagesLinear`, `RecordLookupIsHistory`, `LiveLedgerBounded`, `NoSelfProof`, `ReplayReproduces` | holds |
| `episode` | three scenarios against every order of proposals, failures, events and cancellations: `CancelledNeverActs`, `SuccessIsEarned`, `ReportsAreTrue`, `FailuresChangeNothing`, `ReadyMeansDone`, `AffordancesAgree`, `EpisodesEnd` | holds |
| `replica_digest` | `ReplicaExact`: a consumer reconstructs the state, as the specification demands | violated |
| `old_epoch` | `OldEpochTrafficInert`: old-epoch traffic is inert | violated |
| `archived_contradiction` | `ReplayReproduces` when an archived version is contradicted | violated |
| `stale_belief` | `BeliefsAreCurrent`: a cached belief is the one a query would work out | violated |
| `abandoned_outcome` | `LoadInvalidatesReplies`: an outcome acted on is that of the world that was loaded | violated |

Between them the passing runs take every action of every next-state relation,
but for the branch `AcceptActionRaises` of a delivery
(see [bounds](#bounds)).
The runs of the world, the ledger and the agent say `CHECK_DEADLOCK FALSE`:
when the calls of clients and host are used up, the system stops, legally.

**Fairness.** `FairReplica` has weak fairness of `Advance`: as long as
`advance()` can do something it eventually does. The code justifies the part
inside `advance()` (it is a loop that returns), and the host the other part: a
game loop calls `advance()` with every frame and has no other way to make time
pass. Nothing else is fair; clients may fall silent. A paused game does not
advance, so `EveryActionEnds` excepts it. `FairEpisode` has weak fairness of
`BeginTick`, as `run_until_terminal` ticks on while the task is active, and of
the end of a provider's attempt, as every attempt ends with an answer, an error
or its timeout. That the attempts end is not assumed: it is what the counter of
`RetryRequest` is for.

**What the properties say.**

- `ActionsHaveTheirEvents` is the agreement of ledger and scheduler. It is what
  `EveryActionEnds` rests on, and it would be broken by a forgotten
  `_cancel_action_events`, a save without events, or a pop that loses one.
- `VersionTracksState` is the ground of optimistic concurrency: a client's
  `based_on_world_version` is worthless if the state can change under it. It
  needs clients that do not recycle action ids: a recycled id that meets its own
  cancelled event makes `schedule_at` raise in the middle of `start_mutation`,
  and the action stays under way, unversioned and without a completion.
- `ImplementsLifecycle` is stronger than the code's own check in `transition`,
  which consults a record that may have been evicted. `fate` never forgets. It
  holds because an accepted request moves the version and so is stale ever
  after, while a rejected one is rejected again as long as the version, and so
  the state, stays the same: the version check, not the cache, is what makes
  delivery idempotent.
- `DeadlineBeatsCompletion` covers the tie (priorities) and the completion
  callback, which bypasses the scheduler; `epochs` has the tie, and the theorem the callback too.
- `ReplicaExactButCounter` follows `json_diff`: members that do not differ are
  not sent, so a consumer that is wrong stays wrong.
- `ReplicaAuthentic` holds with errors and all: the version a delta starts from
  is enough to keep a consumer right, and the sequence numbers only tell it that
  something is missing. `CleanIsExact` is where the digest matters: without it
  the counter of finding 1 would go unnoticed. `NoFalseAlarm` excludes digest
  errors for the same reason.
- `UndisturbedActionsComplete` compares two rule sets written apart, the
  Gateway's on the projection and the world's, and the numbers of the durations
  and the deadline. It says "exactly": each exception listed
  [above](#the-agent-over-the-bridge-in-detail) is one, and there is no other.
- `OutcomesAreReal` and `TerminalIsFound` are about reading an outcome from
  messages that are never cleared. `OutcomesAreReal` leaves the outcomes of abandoned
  epochs aside, for which it is false (finding 5). `CancelledStaysQuiet` is about a cancellation
  the agent learns of from a terminal message alone.
- `CancelledNeverActs` is the order of the code's checks after the policy has
  answered: without the Gateway's first check the answer would act on the world,
  and with the next command submitted it would act for another task.
- `SuccessIsEarned` relates the verdict to the world that the tick leaves, and
  excludes success on a refused report. `ReportsAreTrue` holds because facts are
  resolved in the catalogue when the report is delivered, not when it is chosen.
- `LookupIsHistory` and `RecordLookupIsHistory` say that archiving loses nothing:
  a lookup of an archived object reconstructs it from the trace by another
  algorithm than the one that changed it. `ReplayReproduces` compares a third one.
- `BeliefsLagOnlyContradictions` bounds how stale a cached belief can be: what finding
  4 shows of the version state is all that can be wrong, and nothing forgotten or
  suppressed is disclosed.
- `AffordancesAgree` relates the three places that decide what can be done, call by
  call. What may be done although it is withheld is named in `MayUnlisted`, and listed
  among the [observations](#observations).
- `NoOpenClash` is global over the active connections although
  `_prospective_conflicts` looks only at the new one; `NoSelfProof` is over the
  closure of parents although the code checks one record.

## Proofs

Checked by TLAPS for all ids, actors, commands, durations, limits, scenarios and
bounds.

| Theorem | Statement |
|---|---|
| `TypeCorrect` | `Spec => []TypeOK` |
| `OneActionPerActor` | `Spec => []OneActivePerActor` |
| `Interruption` | `Spec => []InterruptedAtOnce` |
| `StaleRequestsInert` | `Spec => OldEpochActionsInert` |
| `VersionIsHonest` | if `ClientReusesIds = FALSE`, `Spec => VersionTracksState` |
| `LedgerAndSchedulerAgree` | if `ClientReusesIds = FALSE`, `Spec => []ActionsHaveTheirEvents` |
| `DeadlinesAreKept` | if `ClientReusesIds = FALSE`, `Spec => DeadlineBeatsCompletion` |
| `LifecycleIsKept` | `ActionOutcomes`: if `ClientReusesIds = FALSE`, `SpecFate => ImplementsLifecycle` |
| `ReplicaFollows` | `WorldReplica`: if `ClientReusesIds = FALSE`, `SpecReplica => []ReplicaExactButCounter` |
| `NeverWrong` | `MessageStream`: `Spec => []ReplicaAuthentic` |
| `CleanNeverWrong` | `MessageStream`: `Spec => []CleanIsExact` |
| `CleanMissesNothing` | `MessageStream`: `Spec => []CleanIsComplete` |
| `FaultlessIsQuiet` | `MessageStream`: `Spec => []NoFalseAlarm` |
| `EpisodeTypeCorrect` | `EpisodeEngine`: `SpecEpisode => []TypeOK` |
| `CancellationIsFinal` | `EpisodeEngine`: `SpecEpisode => CancelledNeverActs` |
| `SuccessNeedsReport` | `EpisodeEngine`: `SpecEpisode => SuccessIsEarned` |
| `FailureIsHarmless` | `EpisodeEngine`: `SpecEpisode => FailuresChangeNothing` |
| `ReportsSayWhatIsKnown` | `EpisodeEngine`: `SpecEpisode => ReportsAreTrue` |
| `ProgressIsHonest` | `EpisodeEngine`: `SpecEpisode => []ReadyMeansDone` |
| `AffordancesAreHonest` | `EpisodeEngine`: `SpecEpisode => []AffordancesAgree` |
| `LookupsTellHistory` | `MemoryVersions`: `Spec => []LookupIsHistory` |
| `HistoryNumbersUpwards` | `MemoryVersions`: `Spec => []LineagesNumberUpwards` |
| `CacheLagsOnlyContradictions` | `MemoryVersions`: `Spec => []BeliefsLagOnlyContradictions` |
| `IndexesAgree` | `MemoryVersions`: if `"archived" \notin Liberties`, `Spec => []TypeOK` |
| `LiveMemoryIsBounded` | `MemoryVersions`: if moreover `"foreign lineage" \notin Liberties`, `Spec => []LiveMemoryBounded` |
| `TraceReproducesKernel` | `MemoryVersions`: if moreover `Payloads \subseteq {"canonical"}`, `Spec => []ReplayReproduces` |
| `LedgerTypeCorrect` | `NameLedger`: `Spec => []TypeOK` |
| `ClashesAreSettled` | `NameLedger`: `Spec => []NoOpenClash` |
| `RecordsTellHistory` | `NameLedger`: `Spec => []RecordLookupIsHistory` |
| `LiveLedgerIsBounded` | `NameLedger`: `Spec => []LiveLedgerBounded` |
| `LineagesAreLinear` | `NameLedger`: `Spec => []LineagesLinear` |
| `ActiveTellsHistory` | `NameLedger`: `Spec => []ActiveIsUnsuperseded` |
| `NothingProvesItself` | `NameLedger`: `Spec => []NoSelfProof` |
| `TraceReproducesLedger` | `NameLedger`: if `Payloads \subseteq {"canonical"}`, `Spec => []ReplayReproduces` |

**Assumptions.** `LimitsArePositive` (the constructor raises otherwise),
`InputsAreLegal` (actors exist, durations are numbers, event values have their
types) and `NoneIsDistinct` (Python's `None` is not a number, record or event).
`NoneIsNoState` says the same for `MessageStream`. For the episodes
`LoopLimitIsPositive`, `MaxRetriesIsNatural` and `MaxStepsArePositive`;
`EventsAreKnown` (`_apply_event` raises otherwise), `ScenariosHaveWorlds` (a scenario
sets fields of a fresh world and never its reports) and, for the reports,
`ScenariosClaimNames`: the facts and the accessible memories that a scenario
begins with hold names as claims only, as in all scenarios of the repository.
`DoorIsKnown`: the NPC knows the door and no target that is not one of
`door_visitor_world` (`Existing`: door, paper crane, visitor, player, the NPC), as that function
makes it and no scenario changes.
For the kernel the limits are positive or natural numbers (`LimitsArePositive` and
`RecentLimitIsPositive`), `None` is no state of a memory (`NoneIsNoState`), a memory's clarity
is in 0..1000 (`ImpressionsAreInRange`; `memory/kernel.py`:684 raises otherwise) and so
is the strength of its residues (which the code leaves to its callers), the
changes of a transition are not negative (`ChangesAreNatural`; line 885), a
declared capacity is a number (`CapacitiesAreNumbers`; line 1490 calls `int`), and the
paths of a manifestation are finitely many numbers, standing for their names in order
(`ChangesAreOrdered`; line 1532 sorts them).
Of the kernel's theorems about memories, three depend on `Liberties`. `IndexesAgree` excludes the
contradiction of an archived version, which is what finding 3 is about, and
`LiveMemoryIsBounded` excludes moreover a memory created in the lineage of another actor:
its versions count for their own owner and the lineage for the other, so that a bound
per owner cannot hold. `TraceReproducesKernel` excludes both, and payloads that are no
canonical JSON: each of the three makes a trace that tells less, or other, than the kernel
holds (finding 3 and the observations on the kernel). The other three hold whatever callers do.
Of the ledger's theorems only `TraceReproducesLedger` has a hypothesis, the same one on payloads.
`VersionIsHonest`, `LedgerAndSchedulerAgree`, `DeadlinesAreKept`,
`LifecycleIsKept` and `ReplicaFollows` need the protocol's rule that ids are not recycled
(`docs/HEADLESS_GAME_BRIDGE_PROTOCOL_V0.6.md`:52): when a recycled id meets its
own cancelled event, `schedule_at` raises out of a mutation.

**Arguments.**

- *Types.* `Typed` is `TypeOK` spelled out per variable. Sequences bounded by
  `Keep` are covered by `KeepBounds`, the only lemma about them.
- *One action per actor* is not inductive: a save could hold two. The
  strengthening `ExclusiveEverywhere` demands the same of the save.
  `ActiveSteps` sorts the steps by what they do to the active records, and each
  theorem about the records starts from that classification.
- *Interruption* needs `FeasibleEverywhere` (the same of the save) together with
  `ExclusiveEverywhere`: a world event ends *the* action of `npc.qingyan`, so
  there must be no second one.
- *Versions* can only fail where `schedule_at` raises. `MessagesFromThePast`
  (no message is from a version or epoch that has not been yet) and
  `EventsAreSpent` (an id with an event in the queue or in the save has been
  asked for, and its request is stale) make a refusal impossible
  (`NeverRefused`, `NoRaise`).
- *Agreement* uses these and `AgreesEverywhere`: agreement in the world and in
  the save, and `due # None => target # None`.
- *Deadlines* add `PrioritiesRight` (expiry 10, completion 100) and
  `DeadlinesAhead` (outside `advance()`, and while it holds anything but an
  expiry, no pending expiry is due).
- *The life cycle.* `LifecycleStep` gives each step of the world its step of
  `ActionLifecycle` or a stutter. The caches forget, so the argument cannot rest
  on them: `Remembers` says that the request of an id that has been decided is
  `Spent` (out of date for ever) or, if it was rejected, `TurnedDown` (it is
  up to date and still fails the same checks, as the state is the one the
  version stands for: `HonestStep` again). A request that passes the version
  check is therefore the first for its id or is rejected once more.
- *The replica* `Tracks` the world: it agrees with it in every member but the
  event counter. That is inductive together with what `VersionIsHonest` rests
  on, because a change without a version sends no delta and would never reach
  the consumer. `HonestStep` is the step both theorems share.
- *The stream.* `StreamInv` says that the transport holds only `Genuine`
  messages: a snapshot is of a state that was, and a delta is the difference
  from a state that has the members of *every* description of the version it
  starts from. It is inductive because descriptions are `Witnessed`: those of
  the present version have the present members, so a version has one state
  although the counter may differ. `HoldsTruth` follows the consumer through
  one message (`DeltaReproduces`: a delta applied to the right members gives the
  right members, `HeldIsCurrent`: a state kept through a message is of its
  epoch). `Counted` links the last number taken to the ones before.
- *No false alarm* needs the transport's order. While nothing has been lost,
  repeated or moved (`InStep`), the messages on their way are the last ones
  numbered, each starts from what the one before it leads to (`Chain`), and the
  consumer holds what the first of them starts from.
- *Episodes.* `TypeOK` alone says too little of a task that is over: a tick may be
  under way while the host cancels the task, and the end of the tick still
  counts a step for it. The inductive invariant `IInv` adds that a task keeps
  its scenario's goal and limit, that it is fresh until it is submitted, and that a
  tick under way has a step left even if its task is over. `OutsideTicks` covers the steps that do not
  end a tick; every other step is of the form `EndsTick` (`EndOfTick`), one
  description that both action properties are then read from: the status can
  only become `succeeded` through `Judge`, whose verdict is the evaluator's on
  the world the tick leaves.
- *Worlds of episodes.* `MayLeadTo` says what an action may do to a world: `Handled`
  proves it of each tool's handler and `Executed` of forced results. The
  worlds stay `Sound` (names are claims, a conflict is only ever derived), from
  which `CatalogIsTrue` and `GroundedIsTrue` follow for the two kinds of report.
- *What the model is shown.* Both theorems compare code that decides one question in two
  places. The names in the catalogue are the names known (`CatalogNames`), so what is accepted
  meets the evaluator's test (`AcceptedCompletes`) and nothing else of the catalogue does
  (`NothingElseCompletes`). Besides a conflict with a single name this fails for two goals, which TLC's scenarios
  do not contain and the attempt to prove it brought up: a `report_fact` without a value is called
  ready with any value (`reporting.py`:342) and completed by none (`evaluator.py`:61), and
  the certainty of a `report_predicate` is asked for by the first and not by
  the second (`evaluator.py`:54). The repository's scenarios have neither, and
  `ReadyMeansDone` names them. `OfferedIsPossible` and `WithheldIsRefused` go
  through the tools; the worlds need only be worlds (`WorldsAreSound`).
- *Memories.* The theorem compares two algorithms: the operations that change the
  live states and the loop that reconstructs them from the trace. `Faithful` says that
  they agree on what is live. It needs `Recorded` (each version has one creation
  in the trace, and nothing else has) and `Indexed` (a lineage is in its owner's list
  and there once: a new memory may archive the oldest lineages, and then the lineage
  in hand must not be among them). The recursive function along the trace is followed by least
  counterexample (`HasLeast`, from the well-foundedness of the natural numbers):
  where two such functions first differed they had taken the same turn from the
  same state (`Following`, `Prefix`, `Quiet`). It holds for every value of `Liberties`: even the
  contradiction of an archived version, which a load does not survive (finding 3),
  leaves lookups right.
- *The indexes of memories.* `Outcome` sums up a creation as sets: the versions of the
  lineage that go and that stay, the lineages of the owner that are lost and kept.
  `Placed` says that every live version is in the list of its lineage, which goes upwards within
  its bound, and every lineage in its owner's list. `Alike` (versions and states have the
  same ids) completes `TypeOK`. For the bound per actor `Owned` says that a
  version has its lineage's owner: then an owner's versions have different places in
  its lists (`OwnersFit`), and there are only so many places.
- *Numbering of memories.* A lineage's next number is one above those of its *live* versions.
  This is right only because what is archived is always older than what is live
  (`NextIsHigher`), so the age of archived versions is part of the invariant `Numbered`, over
  the versions the trace tells of.
- *Cached beliefs.* `Cached` says of every result that it is what a query would answer now, but
  for a contradiction. A step moves the state of a version as its record tells
  (`RecordTells`), so a result is only wrong when the record of a version is not a
  contradiction, and each such step drops the results of that version (`Dropping`). A result
  of a version that is archived stays right because lookups tell history.
- *The replay of memories.* `ReplayReproduces` speaks of a recursive function along the whole
  trace, the invariant of its last value: `Replayable` names the function, and each record
  adds one turn (`ReplayOn`, `ReplayFollows`). `Reproduced` says that the kernel so found has
  the live indexes, entry by entry and in order. A creation appends the new memory
  to a list *before* its evictions are replayed one at a time, whereas the operation cuts
  each list once: `SansOldest` and `SansTwice` show that taking out the oldest one by one is
  that cut, and `NewestAgain` that cutting a log after each record is cutting it once.
  `Inventoried` counts what the trace creates (ids without gaps), from which the counters
  follow, and `Logged` does so for events and observations, which needs canonical payloads.
- *Names.* `Outcome` sums up a whole acknowledgement as sets: the connections it
  supersedes, those that go, the records lost. `Foreseen` is the heart of
  `ClashesAreSettled`: every active connection that disagrees with the new claim is among
  the prospective conflicts, and `MitigationSupersedes` says that a plan that
  mitigates one of these conflicts supersedes, so the step leaves only connections
  that agree (`Agreed`). A capacity's conflict names a representative only if there
  is one, which is where `CapacitiesAreNumbers` is used. `Spared` is what compaction
  leaves, `Numbered` that a number finds one connection. `Truthful` with
  `Chronicled` does for records what `Faithful` does for memories.
- *The bounds of the ledger.* `Tidy` says what compaction leaves: of the connections and
  records that nothing protects, no more than the limit (`Roomy`, `Remaining`). That the
  connections have different numbers (`AllApart`) turns the length of that list
  into a bound on the set.
- *The history of names.* `History` is about the acknowledgements in the trace alone.
  `Committed` ties each live connection to its acknowledgement and gives each record
  one at most (`NeverAcknowledged`: a record that is still confirmed has none). `Linear` is inductive
  because a new connection continues the lineage of one that it supersedes, and that
  one was active, so it was the last of its lineage: a number above those of the
  superseded ones is above all of the lineage. `Unsuperseded` says which numbers are active;
  as both lists go upwards, the sets determine the order (`SameIncreasing`).

- *No self-proof.* `Descent` gives the evidence of each acknowledged record a set of
  acknowledgements that contains what it names, is closed under parents and leaves out
  the record's own. `AncestorsFound` shows that `SameOrAncestors` finds what such a
  set holds: a generation that adds nothing is the last one, and no more generations than there
  are acknowledgements can add something. A later acknowledgement has a new number, so no set
  opens up (`DescentGrows`). It is used that what a record or an observation names has
  happened, which `Next` says of its inputs.

- *The replay of the ledger.* `Rebuilt` says that the loop along the trace ends in a `Book` with the
  live indexes and all changes ever made, of which the audit is the tail. Every kind of record
  is one turn of the loop (`TurnCreated`, `TurnAcknowledged`, ...). An acknowledgement
  is followed by its evictions, one at a time (`ReplayCompaction`): taking entries out by
  their ids in turn is taking out all of them (`OthersTwice`, `OthersSans`), and for
  conflicts it must give what the cache's own cut left. It does because they are numbered
  upwards (`Rising`): the ids of the oldest belong to none of the newest (`RisingCut`).
  The evictions of acknowledgements change nothing in the replay, whose cache is cut by itself.
  `Tallied` counts what the trace has established, lineages and conflicts without gaps,
  from which the counters follow (`TallyGrows`).

**Only model-checked:** `EveryActionEnds` and `EpisodesEnd` (liveness is beyond
the prover), and everything about the agent (its proofs would need those of the world again,
because `InjectDeadline` rewrites a request that has been sent).

## Findings

1. **A delta that does not carry what its digest covers** (`replica_digest`).
   `schedule_world_event` increments the event counter before `_commit` takes
   its "before" state (`bridge/headless_world.py`:1031), so the delta omits the
   counter and a replay reports `STATE_DIGEST_MISMATCH`.
2. **Control requests survive a load** (`old_epoch`). `handle` does not look at
   the envelope's epoch; only action requests are checked, through their
   payload. `docs/V0.6_PRE_FREEZE_AUDIT_AND_BOUNDED_STATE_FIX.md`:57 says that
   old-epoch traffic is always rejected.
3. **A save that cannot be loaded** (`archived_contradiction`).
   `register_contradiction` (`memory/kernel.py`:1060) writes the states of
   archived versions back into the live index, and replay of the history finds
   no state to contradict.
4. **A belief that outlives its memory's state** (`stale_belief`).
   `register_contradiction` does not invalidate the belief cache
   (`memory/kernel.py`:1059), and `query_memory` returns what it finds there (986): a
   memory that was asked for stays `ACTIVE` to whoever asks again.
   `specs/v0.7/V0.7_MEMORY_VERSIONING_KERNEL_SPEC.md`:239 says that a belief is only
   derived from the latest state. A load empties the cache and so changes the answer.
5. **An outcome from an abandoned epoch** (`abandoned_outcome`). The task loop finds
   the outcome of its action by action id among retained messages
   (`bridge/model_acceptance.py`:393), which a load does not clear. If the action ended
   between the save and the load, that outcome is taken while the action is under
   way again, for a report even as the end of the task.
   `docs/HEADLESS_GAME_BRIDGE_SPEC_V0.6.md`:487 says that a load invalidates earlier
   replies. The repository's own scenarios let 100 ms pass (568), which is less than any
   action takes.

## Observations

Behaviour that the models have, that no run refutes anything with and that a reader of
the code should know of.

*Agent.* A cancellation with no action under way goes
unnoticed, because the adapter stamps the current generation. Gateway and world
differ on the calls [listed above](#the-agent-over-the-bridge-in-detail). After a provider error on the last call the task stays
`active` when the loop ends.

*A tick without a record.* A proposal whose target is known but is no object (to listen at the
visitor, to open the player) raises `KeyError` in the Gateway, which reads
`world.objects[action.target]` (`gateway.py`:124, 133, 157); a wait whose seconds are no number
and a report whose facts are no list raise still earlier (`progress.py`:90, 56). The
exception leaves `tick()` and the scenario: no step is counted, no observation kept and no
record written, although `docs/CLOUD_EPISODE_SPEC_V0.4.2.md`:38 says that each active tick
writes one. It is the action `Crash`, after which nothing happens.

*Tools withheld that work.* `listen_at` is offered for doors only (`affordances.py`:109), but
the Gateway admits and the executor carries out listening at any object from where it lies, the
paper crane in the front hall included, and the visitor is heard (`gateway.py`:122,
`executor.py`:99). A door is opened and closed from afar (`gateway.py`:131) although the affordances say
`TOO_FAR` (`affordances.py`:177, 198), and the player and oneself can be observed. `docs/ARCHITECTURE.md`:62 says
that the affordances mean "whether the tool is executable in the current world state". These are the
calls of `MayUnlisted`; `AffordancesAgree` says that there are no others.

*Episodes.* `report_would_complete` is true of a conflict with one name, or with
the derived conflict alone. Progress compares the certainty of a
`report_predicate` goal, the evaluator does not. A legacy report may state
a claimed purpose or request as `TRUE`. The loop detector and a terminal
provider error overwrite `cancelled` with `failed` in the awaited tick. A report
to any target completes the task. `from_snapshot` turns queued answers into
`None`. The catalogue id of a remembered fact changes when the same is said. The
loop detector sees neither queued answers nor queued forced results.

*Kernel.* Opposed capacity claims of one subject are not detected. The conflict of a
full capacity names all its claimants, but `PLAN_RELEASE_CAPACITY` supersedes the oldest
connection only (`memory/kernel.py`:1500, 1514), while subjects are what is counted (1497):
when one guest's claim was acknowledged twice, releasing one of the two frees no place and
the capacity stays exceeded. An observation
may be derived from others whose acknowledgement it does not carry. Draft and
confirmed records are not bounded. `commit_event` takes its id before the digest
is computed, so a payload that is no canonical JSON leaves a counter that replay
does not derive; creation in another actor's lineage has the same end (both are
outside the passing run, by `Payloads` and `Liberties`). An acknowledgement may
be named before it exists. A query after a load may differ from one before it, as
the belief cache is not saved.

## Not modelled

- The bound of the deque of retained messages, from which `advance()` takes what
  it returns. In `HeadlessWorld` and `WorldReplica` the messages of a step have
  no order: a step emits at most one delta, so the replica does not depend on it.
- A consumer's handling of malformed messages (`replay_message_stream` reports
  an error and goes on): the world sends none.
- Evidence, timestamps and texts of records. Legacy loaders of old snapshots.
- The digest and JSON parsing of saves, of the world and of the kernel: they
  validate field by field and fail before any state changes.
- The fixture, stress and benchmark drivers of the kernel, which call the modelled
  operations in a fixed or random order.
- In the acceptance loop: the dialogue mode, which changes no state; the soak
  loop, which repeats the same calls at random; the scripted suite; statistics.
- Aliases, dialogue texts and the contents of memories in the door scene.
- `TelemetryCollector`: `stop()` joins the sampling thread with a timeout and goes
  on. Whether the thread has ended is a matter of the clock, and no state of the
  game depends on the samples.
- HTTP, streaming, file and process handling; prompts; the JSON parser of the text
  policy; reports, statistics and experiment drivers; the command line. They are
  I/O, wording and arithmetic over finished results, with no state that two
  steps share.
