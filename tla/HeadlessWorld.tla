---------------------------- MODULE HeadlessWorld ----------------------------
(***************************************************************************)
(* HeadlessGameWorld (bridge/headless_world.py) with its ActionLedger      *)
(* (bridge/action_lifecycle.py) and its DeterministicScheduler: the        *)
(* authoritative game world that external clients drive with request       *)
(* messages and the host drives with direct calls.                         *)
(*                                                                         *)
(* Clients build a request from the world they see and send it; the        *)
(* channel may delay it, deliver it again, or deliver it after a load or a *)
(* reset, so a sent message stays deliverable for ever.  Every handler is  *)
(* one step.  advance() is the exception: it is a loop that commits once   *)
(* for each event it pops, once for what the event does and once for the   *)
(* clock, and each of these is a step; nothing else runs in between.       *)
(***************************************************************************)
EXTENDS EventQueue, Sequences, FiniteSets

CONSTANTS
  None,             \* Python's None
  ActionIds,        \* ids clients give to actions
  MessageIds,       \* ids clients give to messages
  RequestKinds,     \* the kinds of request the clients send
  Actors,           \* entities the clients act for
  Commands,         \* what they ask for: [name, arg]
  Timeouts,         \* how far ahead they put a deadline (None: no deadline)
  HostCalls,        \* the direct calls the host makes
  WorldEvents,      \* world events the host injects: [name, value]
  Delays,           \* how far ahead the host schedules them
  Deltas,           \* how far the host advances the clock at a time
  Durations,        \* _ACTION_DURATIONS_MS
  TerminalLimit,    \* terminal_action_cache_limit
  RequestLimit,     \* request_cache_limit
  ReportLimit,      \* report_history_limit
  ClientReusesIds,  \* whether clients break the rule never to reuse an id
  MaxSent,          \* bound: messages sent
  MaxVersion,       \* bound: commits in an epoch before the calls stop
  MaxEpoch,         \* bound: loads and resets
  MaxScheduled,     \* bound: world events scheduled in an epoch
  MaxTime           \* bound: time after which only pending events happen

Entities == {"player", "npc.qingyan", "visitor.xiaoman"}
Supported == {"move_to", "observe", "listen_at", "ask_through", "report",
              "open", "close", "wait"}
Locations == {"anchor.player", "anchor.door", "anchor.counter", "anchor.outside_door"}
Targets == {"player", "door.front", "object.paper_crane"}
Topics == {"identity", "purpose", "request", "door_state"}

(* UNPROCESSABLE stands for every message that is answered with an error   *)
(* and no more: of another session, of no request kind, off its schema.    *)
Kinds == {"ACTION_REQUESTED", "ACTION_CANCEL_REQUESTED", "TASK_CANCELLED",
          "GAME_PAUSED", "GAME_RESUMED", "UNPROCESSABLE"}

ASSUME LimitsArePositive ==
  /\ TerminalLimit \in Nat \ {0}
  /\ RequestLimit \in Nat \ {0}
  /\ ReportLimit \in Nat \ {0}

ASSUME InputsAreLegal ==
  /\ Actors \subseteq Entities
  /\ RequestKinds \subseteq Kinds
  /\ Durations \in [Supported \ {"wait"} -> Nat]
  /\ \A c \in Commands : c.name = "wait" => c.arg \in Nat
  /\ \A ev \in WorldEvents :
       /\ ev.name \in {"path_reachable", "door_locked", "visitor_present"}
            => ev.value \in BOOLEAN
       /\ ev.name = "player_move" => ev.value \in Locations
  /\ Timeouts \subseteq Nat \cup {None}
  /\ Delays \subseteq Nat
  /\ Deltas \subseteq Nat
  /\ ClientReusesIds \in BOOLEAN
  /\ MaxTime \in Nat

VARIABLES
  epoch,         \* _epoch_counter, which numbers world_epoch
  version,       \* world_version
  generation,    \* task_generation
  hasTask,       \* active_task_id is not None
  paused,        \* paused
  now,           \* scheduler.now_ms
  nextIns,       \* scheduler.next_insertion_sequence
  queue,         \* the scheduler's heap and index
  eventCounter,  \* _event_counter, which numbers world events
  world,         \* entities, door, facts, reports, heard_events
  active,        \* actions.active_records
  terminal,      \* actions.terminal_records, oldest first
  cache,         \* _request_cache, oldest first
  save,          \* a save the host holds, or None
  target,        \* the time advance() is going to, or None when not running
  due,           \* the event advance() has popped and not handled yet, or None
  sent           \* every message a client has sent

vars == <<epoch, version, generation, hasTask, paused, now, nextIns, queue,
          eventCounter, world, active, terminal, cache, save, target, due, sent>>

task == <<generation, hasTask>>
scheduler == <<now, nextIns, queue, eventCounter>>
ledger == <<active, terminal>>
advance == <<target, due>>

-----------------------------------------------------------------------------
(* gameplay_state(): what a delta describes, a digest covers and a save    *)
(* holds.  The caches, the epoch and the version are not part of it, and   *)
(* of the scheduler it shows the pending events only.                      *)
gameplay ==
  [now |-> now, paused |-> paused, world |-> world, active |-> active,
   events |-> Pending(queue), nextIns |-> nextIns, generation |-> generation,
   hasTask |-> hasTask, eventCounter |-> eventCounter]

\* A commit that leaves the scheduler out of its comparison.
Committed_IgnoringScheduler ==
  LET rest(g) == <<g.paused, g.world, g.active, g.generation, g.hasTask>>
  IN  version' = IF rest(gameplay)' = rest(gameplay) THEN version ELSE version + 1

(* _commit: a mutation that changes the gameplay state takes a version.    *)
Committed == version' = IF gameplay' = gameplay THEN version ELSE version + 1

(* What _commit compares with: schedule_world_event numbers its event      *)
(* before it calls _commit, so the counter has already moved there.        *)
CommitSees ==
  [gameplay EXCEPT !.eventCounter = IF epoch' = epoch THEN eventCounter' ELSE @]

\* A cache that is never pruned.
Keep_All(s, n) == s

(* The last n elements: the FIFO bound of both caches and of the reports.  *)
Keep(s, n) == IF Len(s) <= n THEN s ELSE SubSeq(s, Len(s) - n + 1, Len(s))

(* The ids under which an action's completion and expiry are scheduled.    *)
CompleteKey(a) == [kind |-> "action_complete", id |-> a, event |-> None]
ExpireKey(a) == [kind |-> "action_expire", id |-> a, event |-> None]
WorldKey(n, ev) == [kind |-> "world_event", id |-> n, event |-> ev]

(* _cancel_action_events.                                                  *)
KeysOf(a) == {CompleteKey(a), ExpireKey(a)}

Idle == target = None
Room == version < MaxVersion /\ now < MaxTime

InitialWorld ==
  [open |-> FALSE, locked |-> FALSE, reachable |-> TRUE, visitor |-> TRUE,
   place |-> [e \in Entities |-> IF e = "visitor.xiaoman" THEN "anchor.outside_door"
                                                          ELSE "anchor.player"],
   facts |-> <<>>, reports |-> <<>>, heard |-> FALSE]

(* __post_init__ and the field defaults.                                   *)
FreshGameplay ==
  [now |-> 0, paused |-> FALSE, world |-> InitialWorld,
   active |-> [a \in ActionIds |-> None], events |-> {}, nextIns |-> 1,
   generation |-> 1, hasTask |-> TRUE, eventCounter |-> 0]

Init ==
  /\ epoch = 1 /\ version = 0
  /\ generation = 1 /\ hasTask = TRUE
  /\ paused = FALSE
  /\ now = 0 /\ nextIns = 1 /\ queue = {} /\ eventCounter = 0
  /\ world = InitialWorld
  /\ active = [a \in ActionIds |-> None] /\ terminal = <<>>
  /\ cache = <<>>
  /\ save = None
  /\ target = None /\ due = None
  /\ sent = {}

-----------------------------------------------------------------------------
(* Clients.  make_message stamps a request with the epoch and the version  *)
(* its sender sees; an ACTION_REQUESTED carries them once more as the      *)
(* state the decision is based on, together with the task generation.      *)

Message(kind, mid, id, actor, cmd, deadline, gen) ==
  [kind |-> kind, mid |-> mid, epoch |-> epoch, version |-> version, id |-> id,
   actor |-> actor, cmd |-> cmd, deadline |-> deadline, generation |-> gen]

Send(m) ==
  /\ Idle /\ Room
  /\ Cardinality(sent) < MaxSent
  /\ ClientReusesIds \/ \A s \in sent : s.mid # m.mid
  /\ sent' = sent \cup {m}
  /\ UNCHANGED <<epoch, version, task, paused, scheduler, world, ledger, cache, save, advance>>

SendAction(mid, a, actor, cmd, t) ==
  /\ "ACTION_REQUESTED" \in RequestKinds
  /\ ClientReusesIds \/ \A s \in sent : s.kind = "ACTION_REQUESTED" => s.id # a
  /\ Send(Message("ACTION_REQUESTED", mid, a, actor, cmd,
                  IF t = None THEN None ELSE now + t, generation))

SendActionCancel(mid, a) ==
  /\ "ACTION_CANCEL_REQUESTED" \in RequestKinds
  /\ Send(Message("ACTION_CANCEL_REQUESTED", mid, a, None, None, None, None))

SendControl(mid, kind) ==
  /\ kind \in RequestKinds \ {"ACTION_REQUESTED", "ACTION_CANCEL_REQUESTED"}
  /\ Send(Message(kind, mid, None, None, None, None, None))

-----------------------------------------------------------------------------
(* The ledger.                                                             *)

(* request_fingerprint: what two requests for one action id must share.    *)
Content(m) == [m EXCEPT !.mid = None]

ActiveOf(actor) == {a \in ActionIds : active[a] # None /\ active[a].req.actor = actor}

Known(a) == active[a] # None \/ \E i \in DOMAIN terminal : terminal[i].req.id = a

(* _remember_terminal.                                                     *)
RememberTerminal(req, status) ==
  terminal' = Keep(Append(terminal, [req |-> req, status |-> status]), TerminalLimit)

(* transition() to a terminal status: the record leaves the active ones    *)
(* for the terminal cache and its events are cancelled.                    *)
End(a, status) ==
  /\ active' = [active EXCEPT ![a] = None]
  /\ RememberTerminal(active[a].req, status)
  /\ queue' = Cancel(queue, KeysOf(a))

-----------------------------------------------------------------------------
(* What actions and world events do to the world.                          *)

Destination(w, t) ==
  CASE t = "player" -> w.place["player"]
    [] t = "door.front" -> "anchor.door"
    [] t = "object.paper_crane" -> "anchor.counter"

(* _check_action_preconditions.  The paper crane is always reachable.      *)
Possible(w, actor, cmd) ==
  /\ cmd.name = "move_to" =>
       /\ cmd.arg \in Targets
       /\ cmd.arg = "door.front" => w.reachable
  /\ cmd.name = "ask_through" =>
       w.place[actor] = "anchor.door" /\ ~w.open /\ w.visitor /\ cmd.arg \in Topics
  /\ cmd.name = "listen_at" => w.place[actor] = "anchor.door"
  /\ cmd.name = "report" => w.place[actor] = w.place["player"] /\ cmd.arg # None
  /\ cmd.name = "observe" =>
       /\ cmd.arg \in (Targets \ {"player"}) \cup {"visitor.xiaoman"}
       /\ cmd.arg = "visitor.xiaoman" => w.visitor
  /\ cmd.name = "open" => ~w.locked /\ ~w.open
  /\ cmd.name = "close" => w.open
  /\ cmd.name = "wait" => cmd.arg \in 0..5000

(* _action_duration_ms.                                                    *)
Duration(cmd) == IF cmd.name = "wait" THEN cmd.arg ELSE Durations[cmd.name]

(* completion_mutation: the effect of an action that completes.  A fact is *)
(* numbered by the facts before it, so it is always a new one.             *)
Effect(w, actor, cmd) ==
  CASE cmd.name = "move_to" -> [w EXCEPT !.place[actor] = Destination(w, cmd.arg)]
    [] cmd.name = "listen_at" -> [w EXCEPT !.heard = TRUE]
    [] cmd.name = "ask_through" -> [w EXCEPT !.facts = Append(@, cmd.arg)]
    [] cmd.name = "report" -> [w EXCEPT !.reports = Keep(Append(@, cmd.arg), ReportLimit)]
    [] cmd.name = "open" -> [w EXCEPT !.open = TRUE]
    [] cmd.name = "close" -> [w EXCEPT !.open = FALSE]
    [] OTHER -> w

(* apply_world_event on the world; an unsupported name raises.             *)
Understood(ev) ==
  ev.name \in {"path_reachable", "door_locked", "visitor_present", "player_move",
               "provider_timeout"}

WorldAfter(w, ev) ==
  CASE ev.name = "path_reachable" -> [w EXCEPT !.reachable = ev.value]
    [] ev.name = "door_locked" -> [w EXCEPT !.locked = ev.value]
    [] ev.name = "visitor_present" -> [w EXCEPT !.visitor = ev.value]
    [] ev.name = "player_move" -> [w EXCEPT !.place["player"] = ev.value]
    [] OTHER -> w

\* A visitor who leaves no longer fails the question to her.
Interrupts_MoveOnly(ev, cmd) ==
  /\ ev.name = "path_reachable" /\ ~ev.value
  /\ cmd.name = "move_to" /\ cmd.arg = "door.front"

(* apply_world_event on the action under way of npc.qingyan.               *)
Interrupts(ev, cmd) ==
  \/ /\ ev.name = "path_reachable" /\ ~ev.value
     /\ cmd.name = "move_to" /\ cmd.arg = "door.front"
  \/ ev.name = "visitor_present" /\ ~ev.value /\ cmd.name = "ask_through"

(* _dynamic_completion_failure.                                            *)
FailsAtCompletion(req) ==
  \/ req.generation # generation
  \/ req.cmd.name = "move_to" /\ req.cmd.arg = "door.front" /\ ~world.reachable
  \/ req.cmd.name = "ask_through" /\ ~world.visitor

-----------------------------------------------------------------------------
(* handle(): one step for a message that is delivered.                     *)

Cached(mid) == \E i \in DOMAIN cache : cache[i].mid = mid

(* _remember_request.                                                      *)
Remember(m) == cache' = Keep(Append(cache, m), RequestLimit)

Receive(m, kind) == Idle /\ Room /\ m \in sent /\ m.kind = kind /\ ~Cached(m.mid)

(* A message id in the cache: the recorded responses are returned, or, if  *)
(* the content differs, a protocol error that is not recorded.             *)
RepeatDelivery(m) ==
  /\ Idle /\ Room /\ m \in sent /\ Cached(m.mid)
  /\ UNCHANGED vars

\* The checks without the world version.
Stale_IgnoringVersion(m) ==
  m.epoch # epoch \/ m.generation # generation \/ paused

\* The checks without the world epoch.
Stale_IgnoringEpoch(m) ==
  m.version # version \/ m.generation # generation \/ paused

(* _validate_action, the rejections that leave no record.                  *)
Stale(m) ==
  m.epoch # epoch \/ m.version # version \/ m.generation # generation \/ paused

\* An actor may start a second action.
Unfit_IgnoringBusy(m) ==
  \/ m.actor = "visitor.xiaoman" /\ ~world.visitor
  \/ m.cmd.name \notin Supported
  \/ m.deadline # None /\ m.deadline <= now
  \/ ~Possible(world, m.actor, m.cmd)

(* _validate_action, the rejections that are recorded: no such actor, a    *)
(* busy one, an unknown action, a deadline gone by, a precondition.        *)
Unfit(m) ==
  \/ m.actor = "visitor.xiaoman" /\ ~world.visitor
  \/ ActiveOf(m.actor) # {}
  \/ m.cmd.name \notin Supported
  \/ m.deadline # None /\ m.deadline <= now
  \/ ~Possible(world, m.actor, m.cmd)

HandleUnprocessable(m) ==
  /\ Receive(m, "UNPROCESSABLE")
  /\ Remember(m)
  /\ UNCHANGED <<epoch, version, task, paused, scheduler, world, ledger, save, advance, sent>>

(* A duplicate action id, or a stale request: no state changes but the     *)
(* cache of responses.                                                     *)
HandleKnownOrStaleAction(m) ==
  /\ Receive(m, "ACTION_REQUESTED")
  /\ Known(m.id) \/ Stale(m)
  /\ Remember(m)
  /\ UNCHANGED <<epoch, version, task, paused, scheduler, world, ledger, save, advance, sent>>

RejectAction(m) ==
  /\ Receive(m, "ACTION_REQUESTED")
  /\ ~Known(m.id) /\ ~Stale(m) /\ Unfit(m)
  /\ RememberTerminal(Content(m), "REJECTED")
  /\ UNCHANGED <<active, task, paused, scheduler, world>>
  /\ Committed
  /\ Remember(m)
  /\ UNCHANGED <<epoch, save, advance, sent>>

(* start_mutation schedules the completion and, when the request has a     *)
(* deadline, the expiry, each unless schedule_at raises.                   *)
Started(m) == [req |-> Content(m), due |-> now + Duration(m.cmd)]

CompletionRefused(m) ==
  Refuses(queue, now + Duration(m.cmd), 100, CompleteKey(m.id))

ExpiryRefused(m) ==
  m.deadline # None /\ Refuses(queue, m.deadline, 10, ExpireKey(m.id))

WithCompletion(m) ==
  Insert(queue, nextIns, now + Duration(m.cmd), 100, CompleteKey(m.id))

Accepting(m) ==
  /\ Receive(m, "ACTION_REQUESTED")
  /\ ~Known(m.id) /\ ~Stale(m) /\ ~Unfit(m)

AcceptAction(m) ==
  /\ Accepting(m)
  /\ ~CompletionRefused(m) /\ ~ExpiryRefused(m)
  /\ active' = [active EXCEPT ![m.id] = Started(m)]
  /\ LET n == NextIns(queue, nextIns, CompleteKey(m.id))
     IN  IF m.deadline = None
         THEN queue' = WithCompletion(m) /\ nextIns' = n
         ELSE /\ queue' = Insert(WithCompletion(m), n, m.deadline, 10, ExpireKey(m.id))
              /\ nextIns' = NextIns(WithCompletion(m), n, ExpireKey(m.id))
  /\ UNCHANGED <<terminal, task, paused, now, eventCounter, world>>
  /\ Committed
  /\ Remember(m)
  /\ UNCHANGED <<epoch, save, advance, sent>>

(* schedule_at raised: its ValueError leaves handle() with the record      *)
(* already started and whatever was scheduled before, and neither a        *)
(* version is taken nor a response recorded.  It happens only when an id   *)
(* is used again after its terminal record was evicted and while its       *)
(* cancelled events are still in the heap.                                 *)
AcceptActionRaises(m) ==
  /\ Accepting(m)
  /\ CompletionRefused(m) \/ ExpiryRefused(m)
  /\ active' = [active EXCEPT ![m.id] = Started(m)]
  /\ IF CompletionRefused(m)
     THEN UNCHANGED <<queue, nextIns>>
     ELSE /\ queue' = WithCompletion(m)
          /\ nextIns' = NextIns(queue, nextIns, CompleteKey(m.id))
  /\ UNCHANGED <<epoch, version, task, paused, now, eventCounter, world, terminal, cache,
                 save, advance, sent>>

(* _process_action_cancel.                                                 *)
HandleActionCancel(m) ==
  /\ Receive(m, "ACTION_CANCEL_REQUESTED")
  /\ IF active[m.id] # None
     THEN End(m.id, "CANCELLED")
     ELSE UNCHANGED <<ledger, queue>>
  /\ UNCHANGED <<task, paused, now, nextIns, eventCounter, world>>
  /\ Committed
  /\ Remember(m)
  /\ UNCHANGED <<epoch, save, advance, sent>>

(* cancel_task, whose mutation ends the action of npc.qingyan, whichever   *)
(* task it belongs to.                                                     *)
CancelTask ==
  /\ generation' = generation + 1
  /\ hasTask' = FALSE
  /\ \/ \E a \in ActiveOf("npc.qingyan") : End(a, "CANCELLED")
     \/ ActiveOf("npc.qingyan") = {} /\ UNCHANGED <<ledger, queue>>
  /\ UNCHANGED <<paused, now, nextIns, eventCounter, world>>
  /\ Committed

SetPaused(b) ==
  /\ paused' = b
  /\ UNCHANGED <<task, scheduler, world, ledger>>
  /\ Committed

HandleTaskCancelled(m) ==
  /\ Receive(m, "TASK_CANCELLED")
  /\ CancelTask
  /\ Remember(m)
  /\ UNCHANGED <<epoch, save, advance, sent>>

HandleGamePaused(m) ==
  /\ Receive(m, "GAME_PAUSED")
  /\ SetPaused(TRUE)
  /\ Remember(m)
  /\ UNCHANGED <<epoch, save, advance, sent>>

HandleGameResumed(m) ==
  /\ Receive(m, "GAME_RESUMED")
  /\ SetPaused(FALSE)
  /\ Remember(m)
  /\ UNCHANGED <<epoch, save, advance, sent>>

-----------------------------------------------------------------------------
(* The host's direct calls.                                                *)

HostCall(name) ==
  /\ name \in HostCalls
  /\ Idle /\ Room
  /\ UNCHANGED <<epoch, cache, save, advance, sent>>

HostCancelTask == HostCall("cancel_task") /\ CancelTask

HostPause == HostCall("pause") /\ ~paused /\ SetPaused(TRUE)

HostResume == HostCall("resume") /\ paused /\ SetPaused(FALSE)

(* assign_task leaves an action under way alone: it fails when it is due.  *)
AssignTask ==
  /\ HostCall("assign_task")
  /\ generation' = generation + 1
  /\ hasTask' = TRUE
  /\ UNCHANGED <<paused, scheduler, world, ledger>>
  /\ Committed

(* schedule_world_event.                                                   *)
ScheduleWorldEvent(ev, d) ==
  /\ HostCall("schedule_world_event") /\ eventCounter < MaxScheduled
  /\ eventCounter' = eventCounter + 1
  /\ queue' = Insert(queue, nextIns, now + d, 50, WorldKey(eventCounter', ev))
  /\ nextIns' = NextIns(queue, nextIns, WorldKey(eventCounter', ev))
  /\ UNCHANGED <<task, paused, now, world, ledger>>
  /\ Committed

(* apply_world_event: the event's mutation fails the action of npc.qingyan *)
(* that it makes impossible.                                               *)
ApplyWorldEvent(ev) ==
  LET hit == {a \in ActiveOf("npc.qingyan") : Interrupts(ev, active[a].req.cmd)}
  IN  /\ world' = WorldAfter(world, ev)
      /\ \/ \E a \in hit : End(a, "FAILED")
         \/ hit = {} /\ UNCHANGED <<ledger, queue>>
      /\ UNCHANGED <<task, paused, now, nextIns, eventCounter>>
      /\ Committed

HostWorldEvent(ev) ==
  HostCall("apply_world_event") /\ Understood(ev) /\ ApplyWorldEvent(ev)

(* _handle_scheduled_event for a completion: an action that is no longer   *)
(* active is left alone, one that cannot complete any more fails.          *)
CompleteAction(a) ==
  /\ IF active[a] = None
     THEN UNCHANGED <<world, ledger, queue>>
     ELSE LET req == active[a].req
          IN  IF FailsAtCompletion(req)
              THEN End(a, "FAILED") /\ UNCHANGED world
              ELSE End(a, "COMPLETED") /\ world' = Effect(world, req.actor, req.cmd)
  /\ UNCHANGED <<task, paused, now, nextIns, eventCounter>>
  /\ Committed

ExpireAction(a) ==
  /\ IF active[a] = None THEN UNCHANGED <<ledger, queue>> ELSE End(a, "EXPIRED")
  /\ UNCHANGED <<task, paused, now, nextIns, eventCounter, world>>
  /\ Committed

(* simulate_completion_callback: a completion that comes at any time.      *)
CompletionCallback(a) == HostCall("completion_callback") /\ CompleteAction(a)

-----------------------------------------------------------------------------
(* advance().                                                              *)

AdvanceFrame == UNCHANGED <<epoch, cache, save, sent>>

AdvanceBegin(d) ==
  /\ Idle /\ ~paused
  /\ now < MaxTime \/ Pending(queue) # {}
  /\ target' = now + d
  /\ UNCHANGED <<version, task, paused, scheduler, world, ledger, due>>
  /\ AdvanceFrame

(* The commit that pops an event also moves the clock to it.               *)
AdvancePop ==
  /\ target # None /\ due = None
  /\ \E e \in queue :
       /\ IsFirst(e, queue) /\ e.at <= target
       /\ due' = e
       /\ queue' = Discard(queue) \ {e}
       /\ now' = e.at
  /\ UNCHANGED <<task, paused, nextIns, eventCounter, world, ledger>>
  /\ Committed
  /\ UNCHANGED target /\ AdvanceFrame

Handled(kind) == due # None /\ due.key.kind = kind /\ due' = None /\ AdvanceFrame

AdvanceComplete ==
  Handled("action_complete") /\ CompleteAction(due.key.id) /\ UNCHANGED target

AdvanceExpire ==
  Handled("action_expire") /\ ExpireAction(due.key.id) /\ UNCHANGED target

AdvanceWorldEvent ==
  /\ Handled("world_event")
  /\ Understood(due.key.event)
  /\ ApplyWorldEvent(due.key.event)
  /\ UNCHANGED target

(* apply_world_event raises: advance() ends where it is.                   *)
AdvanceRaises ==
  /\ Handled("world_event")
  /\ ~Understood(due.key.event)
  /\ target' = None
  /\ UNCHANGED <<version, task, paused, scheduler, world, ledger>>

AdvanceEnd ==
  /\ target # None /\ due = None
  /\ \A e \in Pending(queue) : e.at > target
  /\ queue' = Discard(queue)
  /\ now' = target
  /\ target' = None
  /\ UNCHANGED <<task, paused, nextIns, eventCounter, world, ledger, due>>
  /\ Committed
  /\ AdvanceFrame

-----------------------------------------------------------------------------
(* Saves.                                                                  *)

(* export_save.                                                            *)
ExportSave ==
  /\ "export_save" \in HostCalls
  /\ Idle /\ Room /\ epoch < MaxEpoch
  /\ save' = gameplay
  /\ UNCHANGED <<epoch, version, task, paused, scheduler, world, ledger, cache, advance, sent>>

\* The pending events of the save are forgotten.
Restore_LosesEvents(s) ==
  /\ Idle /\ epoch < MaxEpoch
  /\ epoch' = epoch + 1
  /\ version' = 0
  /\ cache' = <<>>
  /\ paused' = s.paused
  /\ world' = s.world
  /\ active' = s.active
  /\ terminal' = <<>>
  /\ now' = s.now /\ nextIns' = s.nextIns /\ queue' = {}
  /\ generation' = s.generation /\ hasTask' = s.hasTask
  /\ eventCounter' = s.eventCounter
  /\ UNCHANGED <<save, advance, sent>>

(* _restore_gameplay_state, and what load_save and reset do around it: a   *)
(* new epoch starts at version 0 with empty caches.  Of the scheduler only *)
(* the pending events come back.                                           *)
Restore(s) ==
  /\ Idle /\ epoch < MaxEpoch
  /\ epoch' = epoch + 1
  /\ version' = 0
  /\ cache' = <<>>
  /\ paused' = s.paused
  /\ world' = s.world
  /\ active' = s.active
  /\ terminal' = <<>>
  /\ now' = s.now /\ nextIns' = s.nextIns /\ queue' = s.events
  /\ generation' = s.generation /\ hasTask' = s.hasTask
  /\ eventCounter' = s.eventCounter
  /\ UNCHANGED <<save, advance, sent>>

LoadSave == save # None /\ Restore(save)

Reset == "reset" \in HostCalls /\ Restore(FreshGameplay)

-----------------------------------------------------------------------------
Client ==
  \/ \E mid \in MessageIds, a \in ActionIds, actor \in Actors, cmd \in Commands, t \in Timeouts :
       SendAction(mid, a, actor, cmd, t)
  \/ \E mid \in MessageIds, a \in ActionIds : SendActionCancel(mid, a)
  \/ \E mid \in MessageIds, kind \in RequestKinds : SendControl(mid, kind)

Deliver(m) ==
  \/ RepeatDelivery(m)
  \/ HandleUnprocessable(m)
  \/ HandleKnownOrStaleAction(m) \/ RejectAction(m)
  \/ AcceptAction(m) \/ AcceptActionRaises(m)
  \/ HandleActionCancel(m)
  \/ HandleTaskCancelled(m) \/ HandleGamePaused(m) \/ HandleGameResumed(m)

Host ==
  \/ HostCancelTask \/ HostPause \/ HostResume \/ AssignTask
  \/ \E ev \in WorldEvents : HostWorldEvent(ev)
  \/ \E ev \in WorldEvents, d \in Delays : ScheduleWorldEvent(ev, d)
  \/ \E a \in ActionIds : CompletionCallback(a)
  \/ ExportSave \/ LoadSave \/ Reset

Advance ==
  \/ \E d \in Deltas : AdvanceBegin(d)
  \/ AdvancePop \/ AdvanceEnd
  \/ AdvanceComplete \/ AdvanceExpire \/ AdvanceWorldEvent \/ AdvanceRaises

Next == Client \/ (\E m \in sent : Deliver(m)) \/ Host \/ Advance

Spec == Init /\ [][Next]_vars

(* The host keeps its clock going: the game loop calls advance() again and *)
(* again, and advance() runs to its end.                                   *)
FairSpec == Spec /\ WF_vars(Advance)

-----------------------------------------------------------------------------
(* Types.                                                                  *)

Args == {c.arg : c \in Commands}

ActionRequests(mids) ==
  [kind : {"ACTION_REQUESTED"}, mid : mids, epoch : Nat, version : Nat,
   id : ActionIds, actor : Actors, cmd : Commands, deadline : Nat \cup {None},
   generation : Nat]

CancelRequests ==
  [kind : {"ACTION_CANCEL_REQUESTED"}, mid : MessageIds, epoch : Nat, version : Nat,
   id : ActionIds, actor : {None}, cmd : {None}, deadline : {None}, generation : {None}]

ControlRequests ==
  [kind : Kinds \ {"ACTION_REQUESTED", "ACTION_CANCEL_REQUESTED"}, mid : MessageIds,
   epoch : Nat, version : Nat, id : {None}, actor : {None}, cmd : {None},
   deadline : {None}, generation : {None}]

Requests == ActionRequests(MessageIds) \cup CancelRequests \cup ControlRequests

(* A move under way has a target the world knows.                          *)
Records ==
  [req : {r \in ActionRequests({None}) : r.cmd.name = "move_to" => r.cmd.arg \in Targets},
   due : Nat]

Outcomes == {"REJECTED", "COMPLETED", "FAILED", "CANCELLED", "EXPIRED"}

TerminalRecords == [req : ActionRequests({None}), status : Outcomes]

Keys == [kind : {"action_complete", "action_expire"}, id : ActionIds, event : {None}]
          \cup [kind : {"world_event"}, id : Nat, event : WorldEvents]

Events == [at : Nat, prio : Nat, ins : Nat, key : Keys, cancelled : BOOLEAN]

Worlds ==
  [open : BOOLEAN, locked : BOOLEAN, reachable : BOOLEAN, visitor : BOOLEAN,
   place : [Entities -> Locations], facts : Seq(Args), reports : Seq(Args),
   heard : BOOLEAN]

(* None is none of the things that can stand in its place.                 *)
ASSUME NoneIsDistinct == None \notin Nat /\ None \notin Records /\ None \notin Events

Gameplays ==
  [now : Nat, paused : BOOLEAN, world : Worlds, active : [ActionIds -> Records \cup {None}],
   events : SUBSET Events, nextIns : Nat, generation : Nat, hasTask : BOOLEAN,
   eventCounter : Nat]

(* The shape of the state, the bounds of both caches included.             *)
TypeOK ==
  /\ epoch \in Nat /\ version \in Nat
  /\ gameplay \in Gameplays
  /\ queue \subseteq Events
  /\ terminal \in Seq(TerminalRecords)
  /\ Len(terminal) <= TerminalLimit
  /\ cache \in Seq(Requests)
  /\ Len(cache) <= RequestLimit
  /\ save = None \/ save \in Gameplays
  /\ target \in Nat \cup {None}
  /\ due \in Events \cup {None}
  /\ sent \subseteq Requests

-----------------------------------------------------------------------------
(* Safety.                                                                 *)

(* An actor has at most one action under way, whatever is delivered again, *)
(* loaded or injected: active_for_actor never meets two.                   *)
OneActivePerActor ==
  \A a, b \in ActionIds :
    active[a] # None /\ active[b] # None /\ active[a].req.actor = active[b].req.actor
      => a = b

(* Events that can still happen: the pending ones and the one in hand.     *)
Live == Pending(queue) \cup ({due} \ {None})

(* The ledger and the scheduler agree.  An action under way has its        *)
(* completion ahead of it, and its expiry if it has a deadline, so it can  *)
(* reach a terminal state; an action's event in the scheduler belongs to   *)
(* an action under way; and nothing is scheduled in the past.              *)
ActionsHaveTheirEvents ==
  /\ \A a \in ActionIds : active[a] # None =>
       /\ \E e \in Live : e.key = CompleteKey(a) /\ e.at = active[a].due
       /\ active[a].req.deadline # None =>
            \E e \in Live : e.key = ExpireKey(a) /\ e.at = active[a].req.deadline
  /\ \A e \in Live :
       /\ e.key.kind # "world_event" => active[e.key.id] # None
       /\ e.at >= now

(* npc.qingyan is never under way to a door it cannot reach, nor asking a  *)
(* visitor who has left: the event that makes it so fails the action.      *)
InterruptedAtOnce ==
  \A a \in ActiveOf("npc.qingyan") :
    /\ active[a].req.cmd.name = "move_to" /\ active[a].req.cmd.arg = "door.front"
         => world.reachable
    /\ active[a].req.cmd.name = "ask_through" => world.visitor

(* Within an epoch the version stands for the state: a step that keeps the *)
(* version keeps the gameplay state, so a decision based on the current    *)
(* version was made on the current state.                                  *)
VersionTracksState ==
  [][epoch' = epoch /\ version' = version => gameplay' = gameplay]_vars

Ended(a, status) ==
  /\ epoch' = epoch /\ active[a] # None /\ active'[a] = None
  /\ terminal'[Len(terminal')].status = status

(* An action completes before its deadline or not at all, a deadline at    *)
(* the very time of the completion included.                               *)
DeadlineBeatsCompletion ==
  [][\A a \in ActionIds :
       Ended(a, "COMPLETED") => active[a].req.deadline = None \/ now < active[a].req.deadline]_vars

HandledNow(m) == epoch' = epoch /\ cache' # cache /\ cache'[Len(cache')] = m

(* An ACTION_REQUESTED from before a load or a reset changes nothing.      *)
OldEpochActionsInert ==
  [][\A m \in sent :
       HandledNow(m) /\ m.kind = "ACTION_REQUESTED" /\ m.epoch # epoch
         => gameplay' = gameplay]_vars

(* No request from before a load or a reset changes anything.              *)
OldEpochTrafficInert ==
  [][\A m \in sent : HandledNow(m) /\ m.epoch # epoch => gameplay' = gameplay]_vars

-----------------------------------------------------------------------------
(* Liveness.                                                               *)

(* Every action that is started reaches a terminal state, however the      *)
(* clients and the host interfere, unless the game is paused under it.     *)
EveryActionEnds ==
  \A a \in ActionIds : active[a] # None ~> active[a] = None \/ paused
=============================================================================
