------------------------ MODULE HeadlessWorld_proofs ------------------------
(***************************************************************************)
(* What holds of HeadlessWorld for every choice of ids, commands, limits   *)
(* and bounds.                                                             *)
(***************************************************************************)
EXTENDS HeadlessWorld, SequenceTheorems, TLAPS

-----------------------------------------------------------------------------
(* The FIFO bound and the queue.                                           *)

(* Keep returns a sequence over the same set that is within the bound and  *)
(* ends with the same element.                                             *)
LEMMA KeepBounds ==
  ASSUME NEW S, NEW s \in Seq(S), NEW n \in Nat \ {0}
  PROVE  /\ Keep(s, n) \in Seq(S)
         /\ Len(Keep(s, n)) <= n
         /\ s # <<>> => Keep(s, n) # <<>> /\ Keep(s, n)[Len(Keep(s, n))] = s[Len(s)]
<1>1. CASE Len(s) <= n
  BY <1>1 DEF Keep
<1>2. CASE Len(s) > n
  <2> DEFINE k == SubSeq(s, Len(s) - n + 1, Len(s))
  <2>1. /\ Len(s) \in Nat
        /\ \A i \in (Len(s) - n + 1)..Len(s) : s[i] \in S
    BY <1>2
  <2>2. /\ k \in Seq(S)
        /\ Len(k) = n
        /\ \A i \in 1..n : k[i] = s[Len(s) - n + i]
    BY <1>2, <2>1, SubSeqProperties
  <2>3. k[n] = s[Len(s)]
    BY <2>1, <2>2
  <2>4. Keep(s, n) = k
    BY <1>2, <2>1 DEF Keep
  <2> HIDE DEF k
  <2> QED BY <2>2, <2>3, <2>4
<1> QED BY <1>1, <1>2

(* Remembering one more element.                                           *)
LEMMA KeepAppend ==
  ASSUME NEW S, NEW s \in Seq(S), NEW x \in S, NEW n \in Nat \ {0}
  PROVE  LET k == Keep(Append(s, x), n)
         IN  k \in Seq(S) /\ Len(k) <= n /\ k # <<>> /\ k[Len(k)] = x
<1>1. Append(s, x) \in Seq(S) /\ Append(s, x) # <<>> /\ Append(s, x)[Len(Append(s, x))] = x
  BY AppendProperties
<1> QED BY <1>1, KeepBounds

(* The operations of the scheduler keep a set of events a set of events.   *)
LEMMA QueueTypes ==
  ASSUME NEW q \in SUBSET Events, NEW K
  PROVE  /\ Cancel(q, K) \in SUBSET Events
         /\ Discard(q) \in SUBSET Events
         /\ Pending(q) \in SUBSET Events
<1>1. \A e \in Events : [e EXCEPT !.cancelled = TRUE] \in Events
  BY DEF Events
<1> QED BY <1>1 DEF Cancel, Discard, Pending

(* schedule_at adds an event, and the insertion number stays a number.     *)
LEMMA InsertTypes ==
  ASSUME NEW q \in SUBSET Events, NEW ins \in Nat, NEW at \in Nat, NEW prio \in Nat,
         NEW key \in Keys
  PROVE  /\ Insert(q, ins, at, prio, key) \in SUBSET Events
         /\ NextIns(q, ins, key) \in Nat
<1>1. Event(at, prio, ins, key) \in Events
  BY DEF Event, Events
<1>2. ins + 1 \in Nat
  OBVIOUS
<1> QED BY <1>1, <1>2 DEF Insert, NextIns

(* The ids under which the world schedules are ids of events.              *)
LEMMA KeyTypes ==
  /\ \A a \in ActionIds : CompleteKey(a) \in Keys /\ ExpireKey(a) \in Keys
  /\ \A n \in Nat, ev \in WorldEvents : WorldKey(n, ev) \in Keys
BY DEF CompleteKey, ExpireKey, WorldKey, Keys

-----------------------------------------------------------------------------
(* The world.                                                              *)

(* The world the game starts in is well formed.                            *)
LEMMA InitialWorldType == InitialWorld \in Worlds
<1>1. <<>> \in Seq(Args)
  OBVIOUS
<1> QED BY <1>1 DEF InitialWorld, Worlds, Entities, Locations

(* What an accepted action does to the world keeps it well formed.         *)
LEMMA EffectType ==
  ASSUME NEW w \in Worlds, NEW actor \in Entities, NEW cmd \in Commands,
         cmd.name = "move_to" => cmd.arg \in Targets
  PROVE  Effect(w, actor, cmd) \in Worlds
<1>0. cmd.arg \in Args
  BY DEF Args
<1>1. CASE cmd.name = "move_to"
  <2>1. Destination(w, cmd.arg) \in Locations
    BY <1>1 DEF Targets, Destination, Locations, Worlds, Entities
  <2>2. Effect(w, actor, cmd) = [w EXCEPT !.place[actor] = Destination(w, cmd.arg)]
    BY <1>1 DEF Effect
  <2> QED BY <2>1, <2>2 DEF Worlds
<1>2. CASE cmd.name = "listen_at"
  BY <1>2 DEF Effect, Worlds
<1>3. CASE cmd.name = "ask_through"
  <2>1. Append(w.facts, cmd.arg) \in Seq(Args)
    BY <1>0 DEF Worlds
  <2>2. Effect(w, actor, cmd) = [w EXCEPT !.facts = Append(@, cmd.arg)]
    BY <1>3 DEF Effect
  <2> QED BY <2>1, <2>2 DEF Worlds
<1>4. CASE cmd.name = "report"
  <2>1. Keep(Append(w.reports, cmd.arg), ReportLimit) \in Seq(Args)
    BY <1>0, KeepAppend, LimitsArePositive DEF Worlds
  <2>2. Effect(w, actor, cmd) =
          [w EXCEPT !.reports = Keep(Append(@, cmd.arg), ReportLimit)]
    BY <1>4 DEF Effect
  <2> QED BY <2>1, <2>2 DEF Worlds
<1>5. CASE cmd.name = "open"
  BY <1>5 DEF Effect, Worlds
<1>6. CASE cmd.name = "close"
  BY <1>6 DEF Effect, Worlds
<1>7. CASE cmd.name \notin {"move_to", "listen_at", "ask_through", "report", "open", "close"}
  BY <1>7 DEF Effect
<1> QED BY <1>1, <1>2, <1>3, <1>4, <1>5, <1>6, <1>7

(* What a world event does to the world keeps it well formed.              *)
LEMMA WorldAfterType ==
  ASSUME NEW w \in Worlds, NEW ev \in WorldEvents
  PROVE  WorldAfter(w, ev) \in Worlds
<1>1. CASE ev.name = "path_reachable"
  BY <1>1, InputsAreLegal DEF WorldAfter, Worlds
<1>2. CASE ev.name = "door_locked"
  BY <1>2, InputsAreLegal DEF WorldAfter, Worlds
<1>3. CASE ev.name = "visitor_present"
  BY <1>3, InputsAreLegal DEF WorldAfter, Worlds
<1>4. CASE ev.name = "player_move"
  BY <1>4, InputsAreLegal DEF WorldAfter, Worlds, Entities
<1>5. CASE ev.name \notin {"path_reachable", "door_locked", "visitor_present", "player_move"}
  BY <1>5 DEF WorldAfter
<1> QED BY <1>1, <1>2, <1>3, <1>4, <1>5

-----------------------------------------------------------------------------
(* Types.                                                                  *)

\* TypeOK, one variable at a time.
Typed ==
  /\ epoch \in Nat /\ version \in Nat
  /\ generation \in Nat /\ hasTask \in BOOLEAN
  /\ paused \in BOOLEAN
  /\ now \in Nat /\ nextIns \in Nat /\ eventCounter \in Nat
  /\ queue \in SUBSET Events
  /\ world \in Worlds
  /\ active \in [ActionIds -> Records \cup {None}]
  /\ terminal \in Seq(TerminalRecords) /\ Len(terminal) <= TerminalLimit
  /\ cache \in Seq(Requests) /\ Len(cache) <= RequestLimit
  /\ save = None \/ save \in Gameplays
  /\ target \in Nat \cup {None}
  /\ due \in Events \cup {None}
  /\ sent \in SUBSET Requests

(* A gameplay state is well formed when each of its members is.            *)
LEMMA GameplayTypes ==
  ASSUME queue \in SUBSET Events
  PROVE  gameplay \in Gameplays <=>
           /\ now \in Nat /\ paused \in BOOLEAN /\ world \in Worlds
           /\ active \in [ActionIds -> Records \cup {None}]
           /\ nextIns \in Nat /\ generation \in Nat /\ hasTask \in BOOLEAN
           /\ eventCounter \in Nat
<1>1. Pending(queue) \in SUBSET Events
  BY QueueTypes
<1> QED BY <1>1 DEF gameplay, Gameplays

(* The form the proofs use is the invariant that the runs check.           *)
LEMMA TypedIsTypeOK == TypeOK <=> Typed
BY GameplayTypes DEF TypeOK, Typed

(* What the parts that handlers share do to the types.                     *)
LEMMA CommittedType ==
  ASSUME version \in Nat, Committed
  PROVE  version' \in Nat
BY DEF Committed

(* One more recorded response keeps the cache within its limit.            *)
LEMMA RememberType ==
  ASSUME Typed, NEW m \in sent, Remember(m)
  PROVE  cache' \in Seq(Requests) /\ Len(cache') <= RequestLimit
<1>1. cache \in Seq(Requests) /\ m \in Requests
  BY DEF Typed
<1> QED BY <1>1, KeepAppend, LimitsArePositive DEF Remember

(* One more terminal record keeps the ledger's cache within its limit.     *)
LEMMA RememberTerminalType ==
  ASSUME Typed, NEW req \in ActionRequests({None}), NEW status \in Outcomes,
         RememberTerminal(req, status)
  PROVE  terminal' \in Seq(TerminalRecords) /\ Len(terminal') <= TerminalLimit
<1>1. terminal \in Seq(TerminalRecords) /\ [req |-> req, status |-> status] \in TerminalRecords
  BY DEF Typed, TerminalRecords
<1> QED BY <1>1, KeepAppend, LimitsArePositive DEF RememberTerminal

(* The record of an action under way holds a request of a known actor.     *)
LEMMA RecordTypes ==
  ASSUME Typed, NEW a \in ActionIds, active[a] # None
  PROVE  /\ active[a] \in Records
         /\ active[a].req \in ActionRequests({None})
         /\ active[a].req.cmd \in Commands
         /\ active[a].req.actor \in Entities
         /\ active[a].req.cmd.name = "move_to" => active[a].req.cmd.arg \in Targets
<1>1. active[a] \in Records
  BY DEF Typed
<1> QED BY <1>1, InputsAreLegal DEF Records, ActionRequests

(* Ending an action keeps ledger and scheduler well formed.                *)
LEMMA EndType ==
  ASSUME Typed, NEW a \in ActionIds, active[a] # None, NEW status \in Outcomes,
         End(a, status)
  PROVE  /\ active' \in [ActionIds -> Records \cup {None}]
         /\ terminal' \in Seq(TerminalRecords) /\ Len(terminal') <= TerminalLimit
         /\ queue' \in SUBSET Events
<1>1. active' \in [ActionIds -> Records \cup {None}]
  BY DEF End, Typed
<1>2. terminal' \in Seq(TerminalRecords) /\ Len(terminal') <= TerminalLimit
  BY RecordTypes, RememberTerminalType DEF End
<1>3. queue' \in SUBSET Events
  BY QueueTypes DEF End, Typed
<1> QED BY <1>1, <1>2, <1>3

(* A message in the channel has the members of its kind.                   *)
LEMMA RequestTypes ==
  ASSUME Typed, NEW m \in sent
  PROVE  /\ m \in Requests
         /\ m.kind = "ACTION_REQUESTED" =>
              /\ m \in ActionRequests(MessageIds)
              /\ Content(m) \in ActionRequests({None})
         /\ m.kind = "ACTION_CANCEL_REQUESTED" => m.id \in ActionIds
<1>1. m \in Requests
  BY DEF Typed
<1>2. ASSUME m.kind = "ACTION_REQUESTED"
      PROVE  m \in ActionRequests(MessageIds)
  BY <1>1, <1>2 DEF Requests, CancelRequests, ControlRequests
<1>3. ASSUME m \in ActionRequests(MessageIds)
      PROVE  Content(m) \in ActionRequests({None})
  BY <1>3 DEF Content, ActionRequests
<1>4. ASSUME m.kind = "ACTION_CANCEL_REQUESTED"
      PROVE  m.id \in ActionIds
  BY <1>1, <1>4 DEF Requests, ActionRequests, CancelRequests, ControlRequests
<1> QED BY <1>1, <1>2, <1>3, <1>4

(* A request that passes the checks makes a record.                        *)
LEMMA StartedType ==
  ASSUME Typed, NEW m \in sent, Accepting(m)
  PROVE  /\ m.id \in ActionIds
         /\ Duration(m.cmd) \in Nat
         /\ now + Duration(m.cmd) \in Nat
         /\ Started(m) \in Records
         /\ Started(m).req = Content(m)
         /\ Started(m).due = now + Duration(m.cmd)
         /\ m.deadline # None => m.deadline \in Nat /\ m.deadline > now
<1>1. m \in ActionRequests(MessageIds) /\ Content(m) \in ActionRequests({None})
  BY RequestTypes DEF Accepting, Receive
<1>2. /\ m.cmd \in Commands /\ m.id \in ActionIds /\ Content(m).cmd = m.cmd
      /\ m.deadline \in Nat \cup {None}
  BY <1>1 DEF ActionRequests, Content
<1>3. m.cmd.name \in Supported /\ Possible(world, m.actor, m.cmd)
  BY DEF Accepting, Unfit
<1>4. Duration(m.cmd) \in Nat
  BY <1>2, <1>3, InputsAreLegal DEF Duration
<1>5. m.cmd.name = "move_to" => m.cmd.arg \in Targets
  BY <1>3 DEF Possible
<1>6. now + Duration(m.cmd) \in Nat
  BY <1>4 DEF Typed
<1>7. Started(m) \in Records
  BY <1>1, <1>2, <1>5, <1>6 DEF Started, Records
<1>8. m.deadline # None => m.deadline \in Nat /\ m.deadline > now
  BY <1>2 DEF Accepting, Unfit, Typed
<1> QED BY <1>2, <1>4, <1>6, <1>7, <1>8 DEF Started

(* Accepting a request, up to the point where schedule_at may raise.       *)
LEMMA AcceptTypes ==
  ASSUME Typed, NEW m \in sent, Accepting(m)
  PROVE  /\ [active EXCEPT ![m.id] = Started(m)] \in [ActionIds -> Records \cup {None}]
         /\ WithCompletion(m) \in SUBSET Events
         /\ NextIns(queue, nextIns, CompleteKey(m.id)) \in Nat
         /\ \A n \in Nat : m.deadline # None =>
              /\ Insert(WithCompletion(m), n, m.deadline, 10, ExpireKey(m.id)) \in SUBSET Events
              /\ NextIns(WithCompletion(m), n, ExpireKey(m.id)) \in Nat
<1>1. /\ m.id \in ActionIds /\ Started(m) \in Records /\ now + Duration(m.cmd) \in Nat
      /\ m.deadline # None => m.deadline \in Nat
  BY StartedType
<1>2. [active EXCEPT ![m.id] = Started(m)] \in [ActionIds -> Records \cup {None}]
  BY <1>1 DEF Typed
<1>3. CompleteKey(m.id) \in Keys /\ ExpireKey(m.id) \in Keys
  BY <1>1, KeyTypes
<1>4. queue \in SUBSET Events /\ nextIns \in Nat
  BY DEF Typed
<1>5. /\ WithCompletion(m) \in SUBSET Events
      /\ NextIns(queue, nextIns, CompleteKey(m.id)) \in Nat
  BY <1>1, <1>3, <1>4, InsertTypes DEF WithCompletion
<1>6. ASSUME NEW n \in Nat, m.deadline # None
      PROVE  /\ Insert(WithCompletion(m), n, m.deadline, 10, ExpireKey(m.id)) \in SUBSET Events
             /\ NextIns(WithCompletion(m), n, ExpireKey(m.id)) \in Nat
  BY <1>1, <1>3, <1>5, <1>6, InsertTypes
<1> QED BY <1>2, <1>5, <1>6

(* Completing an action, on time or by a callback.                         *)
LEMMA CompleteActionType ==
  ASSUME Typed, NEW a \in ActionIds, CompleteAction(a)
  PROVE  /\ version' \in Nat /\ world' \in Worlds /\ queue' \in SUBSET Events
         /\ active' \in [ActionIds -> Records \cup {None}]
         /\ terminal' \in Seq(TerminalRecords) /\ Len(terminal') <= TerminalLimit
         /\ UNCHANGED <<task, paused, now, nextIns, eventCounter>>
<1>1. version' \in Nat /\ UNCHANGED <<task, paused, now, nextIns, eventCounter>>
  BY CommittedType DEF CompleteAction, Typed
<1>2. CASE active[a] = None
  BY <1>1, <1>2 DEF CompleteAction, ledger, Typed
<1>3. CASE active[a] # None /\ FailsAtCompletion(active[a].req)
  <2>1. End(a, "FAILED") /\ UNCHANGED world
    BY <1>3 DEF CompleteAction
  <2> QED BY <1>1, <1>3, <2>1, EndType DEF Outcomes, Typed
<1>4. CASE active[a] # None /\ ~FailsAtCompletion(active[a].req)
  <2>1. /\ End(a, "COMPLETED")
        /\ world' = Effect(world, active[a].req.actor, active[a].req.cmd)
    BY <1>4 DEF CompleteAction
  <2>2. world' \in Worlds
    BY <1>4, <2>1, RecordTypes, EffectType DEF Typed
  <2> QED BY <1>1, <1>4, <2>1, <2>2, EndType DEF Outcomes
<1> QED BY <1>2, <1>3, <1>4

(* A world event keeps the state well formed, the action it fails          *)
(* included.                                                               *)
LEMMA ApplyWorldEventType ==
  ASSUME Typed, NEW ev \in WorldEvents, ApplyWorldEvent(ev)
  PROVE  /\ version' \in Nat /\ world' \in Worlds /\ queue' \in SUBSET Events
         /\ active' \in [ActionIds -> Records \cup {None}]
         /\ terminal' \in Seq(TerminalRecords) /\ Len(terminal') <= TerminalLimit
         /\ UNCHANGED <<task, paused, now, nextIns, eventCounter>>
<1>1. /\ version' \in Nat /\ world' \in Worlds
      /\ UNCHANGED <<task, paused, now, nextIns, eventCounter>>
  BY CommittedType, WorldAfterType DEF ApplyWorldEvent, Typed
<1>2. \/ \E a \in ActiveOf("npc.qingyan") : End(a, "FAILED")
      \/ UNCHANGED <<ledger, queue>>
  BY DEF ApplyWorldEvent
<1>3. CASE \E a \in ActiveOf("npc.qingyan") : End(a, "FAILED")
  BY <1>1, <1>3, EndType DEF ActiveOf, Outcomes
<1>4. CASE UNCHANGED <<ledger, queue>>
  BY <1>1, <1>4 DEF ledger, Typed
<1> QED BY <1>2, <1>3, <1>4

(* Cancelling the task keeps the state well formed.                        *)
LEMMA CancelTaskType ==
  ASSUME Typed, CancelTask
  PROVE  /\ version' \in Nat /\ queue' \in SUBSET Events
         /\ generation' \in Nat /\ hasTask' \in BOOLEAN
         /\ active' \in [ActionIds -> Records \cup {None}]
         /\ terminal' \in Seq(TerminalRecords) /\ Len(terminal') <= TerminalLimit
         /\ UNCHANGED <<paused, now, nextIns, eventCounter, world>>
<1>0. hasTask' \in BOOLEAN
  <2>1. hasTask' = FALSE
    BY DEF CancelTask
  <2> QED BY <2>1
<1>1. /\ version' \in Nat /\ generation' \in Nat
      /\ UNCHANGED <<paused, now, nextIns, eventCounter, world>>
  BY CommittedType DEF CancelTask, Typed
<1>2. CASE \E a \in ActiveOf("npc.qingyan") : End(a, "CANCELLED")
  BY <1>0, <1>1, <1>2, EndType DEF ActiveOf, Outcomes
<1>3. CASE UNCHANGED <<ledger, queue>>
  BY <1>0, <1>1, <1>3 DEF ledger, Typed
<1> QED BY <1>2, <1>3 DEF CancelTask

(* Every step of a client, of the channel, of the host and of advance()    *)
(* keeps the types.                                                        *)
LEMMA ClientTypes ==
  ASSUME Typed, Client
  PROVE  Typed'
<1>1. ASSUME NEW m \in Requests, Send(m)
      PROVE  Typed'
  BY <1>1 DEF Send, Typed, task, scheduler, ledger, advance
<1>2. ASSUME NEW mid \in MessageIds, NEW a \in ActionIds, NEW actor \in Actors,
             NEW cmd \in Commands, NEW t \in Timeouts, SendAction(mid, a, actor, cmd, t)
      PROVE  Typed'
  <2> DEFINE d == IF t = None THEN None ELSE now + t
  <2>1. d \in Nat \cup {None}
    BY InputsAreLegal DEF Typed
  <2> HIDE DEF d
  <2>2. Message("ACTION_REQUESTED", mid, a, actor, cmd, d, generation) \in Requests
    BY <2>1 DEF Message, Requests, ActionRequests, Typed
  <2> QED BY <1>1, <1>2, <2>2 DEF SendAction, d
<1>3. ASSUME NEW mid \in MessageIds, NEW a \in ActionIds, SendActionCancel(mid, a)
      PROVE  Typed'
  <2>1. Message("ACTION_CANCEL_REQUESTED", mid, a, None, None, None, None) \in Requests
    BY DEF Message, Requests, CancelRequests, Typed
  <2> QED BY <1>1, <1>3, <2>1 DEF SendActionCancel
<1>4. ASSUME NEW mid \in MessageIds, NEW kind \in RequestKinds, SendControl(mid, kind)
      PROVE  Typed'
  <2>1. Message(kind, mid, None, None, None, None, None) \in Requests
    BY <1>4, InputsAreLegal DEF SendControl, Message, Requests, ControlRequests, Typed
  <2> QED BY <1>1, <1>4, <2>1 DEF SendControl
<1> QED BY <1>2, <1>3, <1>4 DEF Client

(* Every handler of a message keeps the state well formed.                 *)
LEMMA DeliverTypes ==
  ASSUME Typed, NEW m \in sent, Deliver(m)
  PROVE  Typed'
<1>1. CASE RepeatDelivery(m)
  BY <1>1 DEF RepeatDelivery, Typed, vars
<1>2. CASE HandleKnownOrStaleAction(m) \/ HandleUnprocessable(m)
  BY <1>2, RememberType
  DEF HandleUnprocessable, HandleKnownOrStaleAction, Typed, task, scheduler, ledger, advance
<1>3. CASE RejectAction(m)
  <2>1. Content(m) \in ActionRequests({None})
    BY <1>3, RequestTypes DEF RejectAction, Receive
  <2>2. terminal' \in Seq(TerminalRecords) /\ Len(terminal') <= TerminalLimit
    BY <1>3, <2>1, RememberTerminalType DEF RejectAction, Outcomes
  <2>3. version' \in Nat /\ cache' \in Seq(Requests) /\ Len(cache') <= RequestLimit
    BY <1>3, CommittedType, RememberType DEF RejectAction, Typed
  <2> QED BY <1>3, <2>2, <2>3 DEF RejectAction, Typed, task, scheduler, advance
<1>4. CASE AcceptAction(m)
  <2>1. active' \in [ActionIds -> Records \cup {None}]
    BY <1>4, AcceptTypes DEF AcceptAction
  <2>2. queue' \in SUBSET Events /\ nextIns' \in Nat
    BY <1>4, AcceptTypes DEF AcceptAction
  <2>3. version' \in Nat /\ cache' \in Seq(Requests) /\ Len(cache') <= RequestLimit
    BY <1>4, CommittedType, RememberType DEF AcceptAction, Typed
  <2> QED BY <1>4, <2>1, <2>2, <2>3 DEF AcceptAction, Typed, task, advance
<1>5. CASE AcceptActionRaises(m)
  <2>1. active' \in [ActionIds -> Records \cup {None}]
    BY <1>5, AcceptTypes DEF AcceptActionRaises
  <2>2. queue' \in SUBSET Events /\ nextIns' \in Nat
    BY <1>5, AcceptTypes DEF AcceptActionRaises, Typed
  <2> QED BY <1>5, <2>1, <2>2 DEF AcceptActionRaises, Typed, task, advance
<1>6. CASE HandleActionCancel(m)
  <2>1. m.id \in ActionIds
    BY <1>6, RequestTypes DEF HandleActionCancel, Receive
  <2>2. version' \in Nat /\ cache' \in Seq(Requests) /\ Len(cache') <= RequestLimit
    BY <1>6, CommittedType, RememberType DEF HandleActionCancel, Typed
  <2>3. CASE active[m.id] # None
    BY <1>6, <2>1, <2>2, <2>3, EndType
    DEF HandleActionCancel, Outcomes, Typed, task, advance
  <2>4. CASE active[m.id] = None
    BY <1>6, <2>2, <2>4 DEF HandleActionCancel, Typed, task, ledger, advance
  <2> QED BY <2>3, <2>4
<1>7. CASE HandleTaskCancelled(m)
  BY <1>7, CancelTaskType, RememberType DEF HandleTaskCancelled, Typed, advance
<1>8. ASSUME NEW b \in BOOLEAN, SetPaused(b), Remember(m), UNCHANGED <<epoch, save, advance, sent>>
      PROVE  Typed'
  <2>1. version' \in Nat /\ cache' \in Seq(Requests) /\ Len(cache') <= RequestLimit
    BY <1>8, CommittedType, RememberType DEF SetPaused, Typed
  <2>2. paused' \in BOOLEAN
    BY <1>8 DEF SetPaused
  <2> QED BY <1>8, <2>1, <2>2 DEF SetPaused, Typed, task, scheduler, ledger, advance
<1>9. CASE HandleGamePaused(m) \/ HandleGameResumed(m)
  BY <1>8, <1>9 DEF HandleGamePaused, HandleGameResumed
<1> QED BY <1>1, <1>2, <1>3, <1>4, <1>5, <1>6, <1>7, <1>9 DEF Deliver

(* So does a load of a well formed save.                                   *)
LEMMA RestoreTypes ==
  ASSUME Typed, NEW s \in Gameplays, Restore(s)
  PROVE  Typed'
<1>1. epoch' \in Nat /\ version' \in Nat
  BY DEF Restore, Typed
<1>2. <<>> \in Seq(Requests) /\ Len(<<>>) <= RequestLimit
  BY LimitsArePositive
<1>3. <<>> \in Seq(TerminalRecords) /\ Len(<<>>) <= TerminalLimit
  BY LimitsArePositive
<1>4. /\ s.now \in Nat /\ s.nextIns \in Nat /\ s.generation \in Nat /\ s.eventCounter \in Nat
      /\ s.paused \in BOOLEAN /\ s.hasTask \in BOOLEAN /\ s.world \in Worlds
      /\ s.active \in [ActionIds -> Records \cup {None}] /\ s.events \in SUBSET Events
  BY DEF Gameplays
<1> QED BY <1>1, <1>2, <1>3, <1>4 DEF Restore, Typed, advance

(* The state that reset() builds is well formed.                           *)
LEMMA FreshGameplayType == FreshGameplay \in Gameplays
BY InitialWorldType DEF FreshGameplay, Gameplays

(* Every direct call of the host keeps the state well formed.              *)
LEMMA HostTypes ==
  ASSUME Typed, Host
  PROVE  Typed'
<1>1. CASE HostCancelTask
  BY <1>1, CancelTaskType DEF HostCancelTask, HostCall, Typed, advance
<1>2. ASSUME NEW b \in BOOLEAN, SetPaused(b), UNCHANGED <<epoch, cache, save, advance, sent>>
      PROVE  Typed'
  <2>1. version' \in Nat
    BY <1>2, CommittedType DEF SetPaused, Typed
  <2>2. paused' \in BOOLEAN
    BY <1>2 DEF SetPaused
  <2> QED BY <1>2, <2>1, <2>2 DEF SetPaused, Typed, task, scheduler, ledger, advance
<1>3. CASE HostPause \/ HostResume
  BY <1>2, <1>3 DEF HostPause, HostResume, HostCall
<1>4. CASE AssignTask
  <2>1. version' \in Nat /\ generation' \in Nat
    BY <1>4, CommittedType DEF AssignTask, Typed
  <2>2. hasTask' \in BOOLEAN
    <3>1. hasTask' = TRUE
      BY <1>4 DEF AssignTask
    <3> QED BY <3>1
  <2> QED BY <1>4, <2>1, <2>2 DEF AssignTask, HostCall, Typed, scheduler, ledger, advance
<1>5. ASSUME NEW ev \in WorldEvents, HostWorldEvent(ev)
      PROVE  Typed'
  BY <1>5, ApplyWorldEventType DEF HostWorldEvent, HostCall, Typed, task, advance
<1>6. ASSUME NEW ev \in WorldEvents, NEW d \in Delays, ScheduleWorldEvent(ev, d)
      PROVE  Typed'
  <2>1. eventCounter + 1 \in Nat /\ eventCounter' = eventCounter + 1 /\ now + d \in Nat
    BY <1>6, InputsAreLegal DEF ScheduleWorldEvent, Typed
  <2>2. WorldKey(eventCounter', ev) \in Keys
    BY <2>1, KeyTypes
  <2>3. queue' \in SUBSET Events /\ nextIns' \in Nat
    BY <1>6, <2>1, <2>2, InsertTypes DEF ScheduleWorldEvent, Typed
  <2>4. version' \in Nat
    BY <1>6, CommittedType DEF ScheduleWorldEvent, Typed
  <2> QED BY <1>6, <2>1, <2>3, <2>4
          DEF ScheduleWorldEvent, HostCall, Typed, task, ledger, advance
<1>7. ASSUME NEW a \in ActionIds, CompletionCallback(a)
      PROVE  Typed'
  BY <1>7, CompleteActionType DEF CompletionCallback, HostCall, Typed, task, advance
<1>8. CASE ExportSave
  <2>1. save' \in Gameplays
    BY <1>8, GameplayTypes DEF ExportSave, Typed
  <2> QED BY <1>8, <2>1 DEF ExportSave, Typed, task, scheduler, ledger, advance
<1>9. CASE LoadSave
  BY <1>9, RestoreTypes DEF LoadSave, Typed
<1>10. CASE Reset
  BY <1>10, RestoreTypes, FreshGameplayType DEF Reset
<1> QED BY <1>1, <1>3, <1>4, <1>5, <1>6, <1>7, <1>8, <1>9, <1>10 DEF Host

(* So does every step of advance().                                        *)
LEMMA AdvanceTypes ==
  ASSUME Typed, Advance
  PROVE  Typed'
<1>1. ASSUME NEW d \in Deltas, AdvanceBegin(d)
      PROVE  Typed'
  <2>1. target' \in Nat
    BY <1>1, InputsAreLegal DEF AdvanceBegin, Typed
  <2> QED BY <1>1, <2>1 DEF AdvanceBegin, AdvanceFrame, Typed, task, scheduler, ledger
<1>2. CASE AdvancePop
  <2>1. PICK e \in queue : due' = e /\ queue' = Discard(queue) \ {e} /\ now' = e.at
    BY <1>2 DEF AdvancePop
  <2>2. queue' \in SUBSET Events /\ due' \in Events /\ now' \in Nat
    BY <2>1, QueueTypes DEF Typed, Events
  <2>3. version' \in Nat
    BY <1>2, CommittedType DEF AdvancePop, Typed
  <2> QED BY <1>2, <2>2, <2>3 DEF AdvancePop, AdvanceFrame, Typed, task, ledger
<1>3. ASSUME NEW kind, Handled(kind), target' \in Nat \cup {None}
      PROVE  /\ UNCHANGED <<epoch, cache, save, sent>> /\ due' = None /\ due \in Events
             /\ kind \in {"action_complete", "action_expire"} => due.key.id \in ActionIds
             /\ kind = "world_event" => due.key.event \in WorldEvents
  <2>1. due \in Events /\ due.key \in Keys
    BY <1>3 DEF Handled, Typed, Events
  <2> QED BY <1>3, <2>1 DEF Handled, AdvanceFrame, Keys
<1>4. CASE AdvanceComplete
  BY <1>3, <1>4, CompleteActionType DEF AdvanceComplete, Typed, task
<1>5. CASE AdvanceExpire
  <2> DEFINE a == due.key.id
  <2>1. /\ UNCHANGED <<epoch, cache, save, sent, target>> /\ due' = None
        /\ a \in ActionIds /\ ExpireAction(a)
    BY <1>3, <1>5 DEF AdvanceExpire, Typed
  <2>2. version' \in Nat
    BY <2>1, CommittedType DEF ExpireAction, Typed
  <2> HIDE DEF a
  <2>3. CASE active[a] = None
    BY <2>1, <2>2, <2>3 DEF ExpireAction, Typed, task, ledger
  <2>4. CASE active[a] # None
    BY <2>1, <2>2, <2>4, EndType DEF ExpireAction, Outcomes, Typed, task
  <2> QED BY <2>3, <2>4
<1>6. CASE AdvanceWorldEvent
  BY <1>3, <1>6, ApplyWorldEventType DEF AdvanceWorldEvent, Typed, task
<1>7. CASE AdvanceRaises
  BY <1>3, <1>7 DEF AdvanceRaises, Typed, task, scheduler, ledger
<1>8. CASE AdvanceEnd
  <2>1. queue' \in SUBSET Events /\ now' \in Nat
    BY <1>8, QueueTypes DEF AdvanceEnd, Typed
  <2>2. version' \in Nat
    BY <1>8, CommittedType DEF AdvanceEnd, Typed
  <2> QED BY <1>8, <2>1, <2>2 DEF AdvanceEnd, AdvanceFrame, Typed, task, ledger
<1> QED BY <1>1, <1>2, <1>4, <1>5, <1>6, <1>7, <1>8 DEF Advance

(* The initial state is well formed.                                       *)
LEMMA InitTyped == Init => Typed
<1> SUFFICES ASSUME Init
             PROVE  Typed
  OBVIOUS
<1>1. <<>> \in Seq(Requests) /\ <<>> \in Seq(TerminalRecords) /\ Len(<<>>) = 0
  OBVIOUS
<1>2. /\ Len(terminal) <= TerminalLimit /\ Len(cache) <= RequestLimit
      /\ cache \in Seq(Requests) /\ terminal \in Seq(TerminalRecords)
  BY <1>1, LimitsArePositive DEF Init
<1>3. hasTask \in BOOLEAN /\ paused \in BOOLEAN
  <2>1. hasTask = TRUE /\ paused = FALSE
    BY DEF Init
  <2> QED BY <2>1
<1>4. active \in [ActionIds -> Records \cup {None}]
  BY DEF Init
<1> QED BY <1>2, <1>3, <1>4, InitialWorldType DEF Init, Typed

(* Every step keeps the state well formed.                                 *)
LEMMA TypedStep == Typed /\ [Next]_vars => Typed'
<1>1. Typed /\ UNCHANGED vars => Typed'
  BY DEF Typed, vars
<1> QED BY <1>1, ClientTypes, DeliverTypes, HostTypes, AdvanceTypes DEF Next

(* The shape of the state: whatever the clients and the host do, every     *)
(* record, event and save is well formed and both caches stay within their *)
(* limits (_remember_terminal, _remember_request).                         *)
THEOREM TypeCorrect == Spec => []TypeOK
<1>1. Typed => TypeOK
  BY TypedIsTypeOK
<1> QED BY <1>1, InitTyped, TypedStep, PTL DEF Spec

-----------------------------------------------------------------------------
(* One action per actor.                                                   *)

\* No action starts: every one that is under way afterwards was before.
StartsNothing ==
  \A a \in ActionIds : active'[a] = None \/ active'[a] = active[a]

(* Ending an action starts none.                                           *)
LEMMA EndStartsNothing ==
  ASSUME Typed, NEW a \in ActionIds, NEW status, End(a, status)
  PROVE  StartsNothing
BY DEF End, Typed, StartsNothing

\* No action starts, and unless a world event happens the door stays as
\* reachable and the visitor as present as they were.
Continues ==
  /\ StartsNothing
  /\ UNCHANGED save
  /\ \/ world'.reachable = world.reachable /\ world'.visitor = world.visitor
     \/ \E ev \in WorldEvents : ApplyWorldEvent(ev)

(* No action moves the visitor or blocks a path; only world events do.     *)
LEMMA EffectOnAccess ==
  ASSUME NEW w \in Worlds, NEW actor, NEW cmd
  PROVE  /\ Effect(w, actor, cmd).reachable = w.reachable
         /\ Effect(w, actor, cmd).visitor = w.visitor
BY DEF Effect, Worlds

(* The ways in which a step can touch what is under way.              *)
LEMMA ActiveSteps ==
  ASSUME Typed, [Next]_vars
  PROVE  \/ Continues
         \/ ExportSave
         \/ \E m \in sent : /\ Accepting(m)
                            /\ active' = [active EXCEPT ![m.id] = Started(m)]
                            /\ UNCHANGED <<save, world>>
         \/ LoadSave \/ Reset
<1>1. ASSUME UNCHANGED ledger \/ UNCHANGED active, UNCHANGED <<save, world>>
      PROVE  Continues
  BY <1>1 DEF Continues, StartsNothing, ledger
<1>2. CASE UNCHANGED vars
  BY <1>1, <1>2 DEF vars
<1>3. CASE Client
  BY <1>1, <1>3 DEF Client, SendAction, SendActionCancel, SendControl, Send
<1>4. ASSUME CancelTask, UNCHANGED save
      PROVE  Continues
  BY <1>1, <1>4, EndStartsNothing DEF Continues, CancelTask, ActiveOf
<1>5. ASSUME NEW b, SetPaused(b), UNCHANGED save
      PROVE  Continues
  BY <1>1, <1>5 DEF SetPaused
<1>6. ASSUME NEW a \in ActionIds, CompleteAction(a), UNCHANGED save
      PROVE  Continues
  <2>1. UNCHANGED ledger \/ \E status : End(a, status)
    BY <1>6 DEF CompleteAction
  <2>2. StartsNothing
    BY <2>1, EndStartsNothing DEF StartsNothing, ledger
  <2>3. world' = world \/ world' = Effect(world, active[a].req.actor, active[a].req.cmd)
    BY <1>6 DEF CompleteAction
  <2>4. world'.reachable = world.reachable /\ world'.visitor = world.visitor
    BY <2>3, EffectOnAccess DEF Typed
  <2> QED BY <1>6, <2>2, <2>4 DEF Continues
<1>7. ASSUME NEW ev \in WorldEvents, ApplyWorldEvent(ev), UNCHANGED save
      PROVE  Continues
  <2>1. UNCHANGED ledger \/ \E a \in ActionIds : End(a, "FAILED")
    BY <1>7 DEF ApplyWorldEvent, ActiveOf
  <2>2. StartsNothing
    BY <2>1, EndStartsNothing DEF StartsNothing, ledger
  <2> QED BY <1>7, <2>2 DEF Continues
<1>8. CASE \E m \in sent : Deliver(m)
  <2> PICK m \in sent : Deliver(m)
    BY <1>8
  <2>1. CASE RepeatDelivery(m)
    BY <1>2, <2>1 DEF RepeatDelivery
  <2>2. CASE HandleKnownOrStaleAction(m) \/ HandleUnprocessable(m)
    BY <1>1, <2>2 DEF HandleUnprocessable, HandleKnownOrStaleAction
  <2>3. CASE RejectAction(m)
    BY <1>1, <2>3 DEF RejectAction
  <2>4. CASE AcceptAction(m) \/ AcceptActionRaises(m)
    BY <2>4 DEF AcceptAction, AcceptActionRaises
  <2>5. CASE HandleActionCancel(m)
    <3>1. m.id \in ActionIds
      BY <2>5, RequestTypes DEF HandleActionCancel, Receive
    <3> QED BY <1>1, <2>5, <3>1, EndStartsNothing DEF HandleActionCancel, Continues
  <2>6. CASE HandleTaskCancelled(m)
    BY <1>4, <2>6 DEF HandleTaskCancelled
  <2>7. CASE HandleGamePaused(m) \/ HandleGameResumed(m)
    BY <1>5, <2>7 DEF HandleGamePaused, HandleGameResumed
  <2> QED BY <2>1, <2>2, <2>3, <2>4, <2>5, <2>6, <2>7 DEF Deliver
<1>9. CASE Host
  <2>1. CASE HostCancelTask
    BY <1>4, <2>1 DEF HostCancelTask, HostCall
  <2>2. CASE HostPause \/ HostResume
    BY <1>5, <2>2 DEF HostPause, HostResume, HostCall
  <2>3. CASE AssignTask
    BY <1>1, <2>3 DEF AssignTask, HostCall
  <2>4. CASE \E ev \in WorldEvents : HostWorldEvent(ev)
    BY <1>7, <2>4 DEF HostWorldEvent, HostCall
  <2>5. CASE \E ev \in WorldEvents, d \in Delays : ScheduleWorldEvent(ev, d)
    BY <1>1, <2>5 DEF ScheduleWorldEvent, HostCall
  <2>6. CASE \E a \in ActionIds : CompletionCallback(a)
    BY <1>6, <2>6 DEF CompletionCallback, HostCall
  <2>7. CASE LoadSave \/ Reset
    BY <2>7
  <2> QED BY <1>9, <2>1, <2>2, <2>3, <2>4, <2>5, <2>6, <2>7 DEF Host
<1>10. CASE Advance
  <2>0. ASSUME NEW kind, Handled(kind)
        PROVE  /\ UNCHANGED save
               /\ kind \in {"action_complete", "action_expire"} => due.key.id \in ActionIds
               /\ kind = "world_event" => due.key.event \in WorldEvents
    <3>1. due \in Events /\ due.key \in Keys
      BY <2>0 DEF Handled, Typed, Events
    <3> QED BY <2>0, <3>1 DEF Handled, AdvanceFrame, Keys
  <2>1. CASE \E d \in Deltas : AdvanceBegin(d)
    BY <1>1, <2>1 DEF AdvanceBegin, AdvanceFrame
  <2>2. CASE AdvancePop \/ AdvanceEnd
    BY <1>1, <2>2 DEF AdvancePop, AdvanceEnd, AdvanceFrame
  <2>3. CASE AdvanceComplete
    BY <1>6, <2>0, <2>3 DEF AdvanceComplete
  <2>4. CASE AdvanceExpire
    BY <1>1, <2>0, <2>4, EndStartsNothing DEF AdvanceExpire, ExpireAction, Continues
  <2>5. CASE AdvanceWorldEvent
    BY <1>7, <2>0, <2>5 DEF AdvanceWorldEvent
  <2>6. CASE AdvanceRaises
    BY <1>1, <2>0, <2>6 DEF AdvanceRaises
  <2> QED BY <1>10, <2>1, <2>2, <2>3, <2>4, <2>5, <2>6 DEF Advance
<1> QED BY <1>2, <1>3, <1>8, <1>9, <1>10 DEF Next

\* OneActivePerActor for the active records act.
Exclusive(act) ==
  \A a, b \in ActionIds :
    act[a] # None /\ act[b] # None /\ act[a].req.actor = act[b].req.actor => a = b

\* The saves have to satisfy it as well, since any of them may be loaded.
ExclusiveEverywhere ==
  /\ Exclusive(active)
  /\ save # None => Exclusive(save.active)

(* A step never gives an actor a second action, in the world or in the     *)
(* save.                                                                   *)
LEMMA ExclusiveStep ==
  ASSUME Typed, ExclusiveEverywhere, [Next]_vars
  PROVE  ExclusiveEverywhere'
<1>1. CASE Continues
  BY <1>1 DEF Continues, StartsNothing, ExclusiveEverywhere, Exclusive
<1>2. CASE ExportSave
  BY <1>2 DEF ExportSave, ExclusiveEverywhere, gameplay, ledger
<1>3. ASSUME NEW m \in sent, Accepting(m), UNCHANGED save,
             active' = [active EXCEPT ![m.id] = Started(m)]
      PROVE  ExclusiveEverywhere'
  <2>1. /\ m.id \in ActionIds /\ active'[m.id].req.actor = m.actor
        /\ \A a \in ActionIds \ {m.id} : active'[a] = active[a]
    <3>1. m.id \in ActionIds /\ Started(m).req = Content(m)
      BY <1>3, StartedType
    <3>2. Content(m).actor = m.actor
      BY <1>3, RequestTypes DEF Accepting, Receive, Content, ActionRequests
    <3> QED BY <1>3, <3>1, <3>2 DEF Typed
  <2>2. \A a \in ActionIds : active[a] # None => active[a].req.actor # m.actor
    BY <1>3 DEF Accepting, Unfit, ActiveOf
  <2>3. Exclusive(active')
    BY <2>1, <2>2 DEF ExclusiveEverywhere, Exclusive
  <2> QED BY <1>3, <2>3 DEF ExclusiveEverywhere
<1>4. CASE LoadSave
  BY <1>4 DEF LoadSave, Restore, ExclusiveEverywhere, Exclusive
<1>5. CASE Reset
  BY <1>5 DEF Reset, Restore, FreshGameplay, ExclusiveEverywhere, Exclusive
<1> QED BY <1>1, <1>2, <1>3, <1>4, <1>5, ActiveSteps

(* An actor never has two actions under way, even if clients reuse their   *)
(* ids and a save is loaded while actions run: active_for_actor cannot     *)
(* meet two.                                                               *)
THEOREM OneActionPerActor == Spec => []OneActivePerActor
<1>1. Init => Typed /\ ExclusiveEverywhere
  BY InitTyped DEF Init, ExclusiveEverywhere, Exclusive
<1>2. Typed /\ ExclusiveEverywhere /\ [Next]_vars => (Typed /\ ExclusiveEverywhere)'
  BY TypedStep, ExclusiveStep
<1>3. ExclusiveEverywhere => OneActivePerActor
  BY DEF ExclusiveEverywhere, Exclusive, OneActivePerActor
<1> QED BY <1>1, <1>2, <1>3, PTL DEF Spec

-----------------------------------------------------------------------------
(* World events interrupt what they make impossible.                       *)

\* InterruptedAtOnce for the active records act in the world w.
Feasible(act, w) ==
  \A a \in ActionIds :
    act[a] # None /\ act[a].req.actor = "npc.qingyan" =>
      /\ act[a].req.cmd.name = "move_to" /\ act[a].req.cmd.arg = "door.front"
           => w.reachable
      /\ act[a].req.cmd.name = "ask_through" => w.visitor

FeasibleEverywhere ==
  /\ Feasible(active, world)
  /\ save # None => Feasible(save.active, save.world)

(* apply_world_event looks at one action only, which is enough because     *)
(* npc.qingyan never has two.                                              *)
LEMMA WorldEventInterrupts ==
  ASSUME Typed, Exclusive(active), Feasible(active, world), StartsNothing,
         NEW ev \in WorldEvents, ApplyWorldEvent(ev)
  PROVE  Feasible(active', world')
<1>1. world' = WorldAfter(world, ev) /\ world \in Worlds
  BY DEF ApplyWorldEvent, Typed
<1>2. SUFFICES ASSUME NEW a \in ActionIds,
                      active'[a] # None, active'[a].req.actor = "npc.qingyan"
               PROVE  /\ active'[a].req.cmd.name = "move_to"
                         /\ active'[a].req.cmd.arg = "door.front" => world'.reachable
                      /\ active'[a].req.cmd.name = "ask_through" => world'.visitor
  BY DEF Feasible
<1>3. active'[a] = active[a] /\ a \in ActiveOf("npc.qingyan")
  BY <1>2 DEF StartsNothing, ActiveOf
<1>4. ~Interrupts(ev, active[a].req.cmd)
  <2>1. SUFFICES ASSUME Interrupts(ev, active[a].req.cmd)
                 PROVE  FALSE
    OBVIOUS
  <2>2. PICK b \in ActiveOf("npc.qingyan") : End(b, "FAILED")
    BY <1>3, <2>1 DEF ApplyWorldEvent
  <2>3. b = a
    BY <1>3, <2>2 DEF Exclusive, ActiveOf
  <2>4. active'[a] = None
    BY <2>2, <2>3 DEF End, Typed
  <2> QED BY <1>2, <2>4
<1>5. /\ world'.reachable # world.reachable =>
           ev.name = "path_reachable" /\ world'.reachable = ev.value
      /\ world'.visitor # world.visitor =>
           ev.name = "visitor_present" /\ world'.visitor = ev.value
  BY <1>1 DEF WorldAfter, Worlds
<1>6. /\ active[a].req.cmd.name = "move_to" /\ active[a].req.cmd.arg = "door.front"
           => world.reachable
      /\ active[a].req.cmd.name = "ask_through" => world.visitor
  BY <1>3 DEF Feasible, ActiveOf
<1>7. ASSUME active[a].req.cmd.name = "move_to", active[a].req.cmd.arg = "door.front"
      PROVE  world'.reachable
  BY <1>4, <1>5, <1>6, <1>7 DEF Interrupts
<1>8. ASSUME active[a].req.cmd.name = "ask_through"
      PROVE  world'.visitor
  BY <1>4, <1>5, <1>6, <1>8 DEF Interrupts
<1> QED BY <1>3, <1>7, <1>8

(* A step never leaves an action under way that an event has made          *)
(* impossible, in the world or in the save.                                *)
LEMMA FeasibleStep ==
  ASSUME Typed, ExclusiveEverywhere, FeasibleEverywhere, [Next]_vars
  PROVE  FeasibleEverywhere'
<1>1. CASE Continues
  <2>1. CASE world'.reachable = world.reachable /\ world'.visitor = world.visitor
    BY <1>1, <2>1 DEF Continues, StartsNothing, FeasibleEverywhere, Feasible
  <2>2. CASE \E ev \in WorldEvents : ApplyWorldEvent(ev)
    BY <1>1, <2>2, WorldEventInterrupts
    DEF Continues, FeasibleEverywhere, ExclusiveEverywhere
  <2> QED BY <1>1, <2>1, <2>2 DEF Continues
<1>2. CASE ExportSave
  BY <1>2 DEF ExportSave, FeasibleEverywhere, gameplay, ledger
<1>3. ASSUME NEW m \in sent, Accepting(m), UNCHANGED <<save, world>>,
             active' = [active EXCEPT ![m.id] = Started(m)]
      PROVE  FeasibleEverywhere'
  <2>1. /\ m.id \in ActionIds /\ active'[m.id].req.cmd = m.cmd
        /\ \A a \in ActionIds \ {m.id} : active'[a] = active[a]
    <3>1. m.id \in ActionIds /\ Started(m).req = Content(m)
      BY <1>3, StartedType
    <3>2. Content(m).cmd = m.cmd
      BY <1>3, RequestTypes DEF Accepting, Receive, Content, ActionRequests
    <3> QED BY <1>3, <3>1, <3>2 DEF Typed
  <2>2. /\ m.cmd.name = "move_to" /\ m.cmd.arg = "door.front" => world.reachable
        /\ m.cmd.name = "ask_through" => world.visitor
    <3>1. Possible(world, m.actor, m.cmd)
      BY <1>3 DEF Accepting, Unfit
    <3>2. m.cmd.name = "move_to" /\ m.cmd.arg = "door.front" => world.reachable
      BY <3>1 DEF Possible
    <3>3. m.cmd.name = "ask_through" => world.visitor
      BY <3>1 DEF Possible
    <3> QED BY <3>2, <3>3
  <2>3. Feasible(active', world')
    BY <1>3, <2>1, <2>2 DEF FeasibleEverywhere, Feasible
  <2> QED BY <1>3, <2>3 DEF FeasibleEverywhere
<1>4. CASE LoadSave
  BY <1>4 DEF LoadSave, Restore, FeasibleEverywhere
<1>5. CASE Reset
  BY <1>5 DEF Reset, Restore, FreshGameplay, FeasibleEverywhere, Feasible
<1> QED BY <1>1, <1>2, <1>3, <1>4, <1>5, ActiveSteps

(* Whatever is scheduled, injected or loaded, npc.qingyan is never under   *)
(* way to a door it cannot reach nor asking a visitor who has left         *)
(* (apply_world_event ends the action in the mutation that does it).       *)
THEOREM Interruption == Spec => []InterruptedAtOnce
<1> DEFINE Inv == Typed /\ ExclusiveEverywhere /\ FeasibleEverywhere
<1>1. Init => Inv
  BY InitTyped DEF Init, ExclusiveEverywhere, Exclusive, FeasibleEverywhere, Feasible
<1>2. Inv /\ [Next]_vars => Inv'
  BY TypedStep, ExclusiveStep, FeasibleStep
<1>3. Inv => InterruptedAtOnce
  BY DEF FeasibleEverywhere, Feasible, InterruptedAtOnce, ActiveOf
<1> QED BY <1>1, <1>2, <1>3, PTL DEF Spec

-----------------------------------------------------------------------------
(* The version stands for the state.                                       *)

\* No event of an action enters the queue.
NoNewKeys ==
  \A e \in queue' : e.key.kind = "world_event" \/ \E f \in queue : f.key = e.key

\* A step that versions what it does, and hands out no new action event.
Ordinary ==
  /\ UNCHANGED <<epoch, save, sent>>
  /\ NoNewKeys
  /\ Committed \/ (version' = version /\ gameplay' = gameplay)

(* cancel() brings no id into the queue.                                   *)
LEMMA CancelKeys ==
  ASSUME NEW q \in SUBSET Events, NEW K, NEW e \in Cancel(q, K)
  PROVE  \E f \in q : f.key = e.key
BY DEF Cancel, Events

(* Neither does ending an action.                                          *)
LEMMA EndNoNewKeys ==
  ASSUME Typed, NEW a, NEW status, End(a, status)
  PROVE  NoNewKeys
BY CancelKeys DEF End, NoNewKeys, Typed

(* Nor does a step that leaves the queue alone.                            *)
LEMMA SameQueue == queue' = queue => NoNewKeys
BY DEF NoNewKeys

(* Every step but a few is an ordinary one.                                *)
LEMMA VersionSteps ==
  ASSUME Typed, [Next]_vars
  PROVE  \/ Ordinary
         \/ Client \/ ExportSave \/ LoadSave \/ Reset
         \/ \E m \in sent : AcceptAction(m) \/ AcceptActionRaises(m)
<1>1. ASSUME UNCHANGED vars
      PROVE  Ordinary
  BY <1>1, SameQueue DEF vars, Ordinary, gameplay
<1>2. ASSUME UNCHANGED queue, Committed, UNCHANGED <<epoch, save, sent>>
      PROVE  Ordinary
  BY <1>2, SameQueue DEF Ordinary
<1>3. ASSUME NEW a, NEW status, End(a, status), Committed, UNCHANGED <<epoch, save, sent>>
      PROVE  Ordinary
  BY <1>3, EndNoNewKeys DEF Ordinary
<1>4. ASSUME CancelTask, UNCHANGED <<epoch, save, sent>>
      PROVE  Ordinary
  BY <1>2, <1>3, <1>4 DEF CancelTask
<1>5. ASSUME NEW b, SetPaused(b), UNCHANGED <<epoch, save, sent>>
      PROVE  Ordinary
  BY <1>2, <1>5 DEF SetPaused, scheduler
<1>6. ASSUME NEW a, CompleteAction(a), UNCHANGED <<epoch, save, sent>>
      PROVE  Ordinary
  <2>1. CASE active[a] = None
    BY <1>2, <1>6, <2>1 DEF CompleteAction
  <2>2. CASE active[a] # None /\ FailsAtCompletion(active[a].req)
    BY <1>3, <1>6, <2>2 DEF CompleteAction
  <2>3. CASE active[a] # None /\ ~FailsAtCompletion(active[a].req)
    BY <1>3, <1>6, <2>3 DEF CompleteAction
  <2> QED BY <2>1, <2>2, <2>3
<1>7. ASSUME NEW ev, ApplyWorldEvent(ev), UNCHANGED <<epoch, save, sent>>
      PROVE  Ordinary
  BY <1>2, <1>3, <1>7 DEF ApplyWorldEvent
<1>8. ASSUME NEW m \in sent, Deliver(m)
      PROVE  Ordinary \/ AcceptAction(m) \/ AcceptActionRaises(m)
  <2>1. CASE RepeatDelivery(m)
    BY <1>1, <2>1 DEF RepeatDelivery
  <2>2. CASE HandleKnownOrStaleAction(m) \/ HandleUnprocessable(m)
    BY <2>2, SameQueue
    DEF HandleUnprocessable, HandleKnownOrStaleAction, Ordinary, gameplay, task, scheduler, ledger
  <2>3. CASE RejectAction(m)
    BY <1>2, <2>3 DEF RejectAction, scheduler
  <2>4. CASE HandleActionCancel(m)
    BY <1>2, <1>3, <2>4 DEF HandleActionCancel
  <2>5. CASE HandleTaskCancelled(m)
    BY <1>4, <2>5 DEF HandleTaskCancelled
  <2>6. CASE HandleGamePaused(m) \/ HandleGameResumed(m)
    BY <1>5, <2>6 DEF HandleGamePaused, HandleGameResumed
  <2> QED BY <1>8, <2>1, <2>2, <2>3, <2>4, <2>5, <2>6 DEF Deliver
<1>9. ASSUME Host
      PROVE  Ordinary \/ ExportSave \/ LoadSave \/ Reset
  <2>1. CASE HostCancelTask
    BY <1>4, <2>1 DEF HostCancelTask, HostCall
  <2>2. CASE HostPause \/ HostResume
    BY <1>5, <2>2 DEF HostPause, HostResume, HostCall
  <2>3. CASE AssignTask
    BY <1>2, <2>3 DEF AssignTask, HostCall, scheduler
  <2>4. CASE \E ev \in WorldEvents : HostWorldEvent(ev)
    BY <1>7, <2>4 DEF HostWorldEvent, HostCall
  <2>5. ASSUME NEW ev \in WorldEvents, NEW d \in Delays, ScheduleWorldEvent(ev, d)
        PROVE  Ordinary
    <3>1. NoNewKeys
      BY <2>5 DEF ScheduleWorldEvent, NoNewKeys, Insert, Event, WorldKey
    <3> QED BY <2>5, <3>1 DEF ScheduleWorldEvent, HostCall, Ordinary
  <2>6. CASE \E a \in ActionIds : CompletionCallback(a)
    BY <1>6, <2>6 DEF CompletionCallback, HostCall
  <2> QED BY <1>9, <2>1, <2>2, <2>3, <2>4, <2>5, <2>6 DEF Host
<1>10. ASSUME Advance
       PROVE  Ordinary
  <2>1. CASE \E d \in Deltas : AdvanceBegin(d)
    BY <2>1, SameQueue DEF AdvanceBegin, AdvanceFrame, Ordinary, gameplay, task, scheduler, ledger
  <2>2. CASE AdvancePop \/ AdvanceEnd
    <3>1. queue' \subseteq Discard(queue)
      BY <2>2 DEF AdvancePop, AdvanceEnd
    <3>2. NoNewKeys
      BY <3>1 DEF Discard, NoNewKeys
    <3> QED BY <2>2, <3>2 DEF AdvancePop, AdvanceEnd, AdvanceFrame, Ordinary
  <2>3. CASE AdvanceComplete
    BY <1>6, <2>3 DEF AdvanceComplete, Handled, AdvanceFrame
  <2>4. CASE AdvanceExpire
    BY <1>2, <1>3, <2>4 DEF AdvanceExpire, ExpireAction, Handled, AdvanceFrame
  <2>5. CASE AdvanceWorldEvent
    BY <1>7, <2>5 DEF AdvanceWorldEvent, Handled, AdvanceFrame
  <2>6. CASE AdvanceRaises
    BY <2>6, SameQueue
    DEF AdvanceRaises, Handled, AdvanceFrame, Ordinary, gameplay, task, scheduler, ledger
  <2> QED BY <1>10, <2>1, <2>2, <2>3, <2>4, <2>5, <2>6 DEF Advance
<1> QED BY <1>1, <1>8, <1>9, <1>10 DEF Next

\* The message that asked for action a.
Asks(m, a) == m.kind = "ACTION_REQUESTED" /\ m.id = a

\* No message is ahead of the world, and no two ask for one action.
MessagesFromThePast ==
  /\ \A m \in sent : m.epoch <= epoch /\ (m.epoch = epoch => m.version <= version)
  /\ \A m, n \in sent : Asks(m, n.id) /\ Asks(n, m.id) => m = n

\* The request behind an event of the queue is out of date, and an event
\* of a save has a request behind it.
EventsAreSpent ==
  /\ \A e \in queue : e.key.kind # "world_event" =>
       \E m \in sent : Asks(m, e.key.id) /\ (m.epoch < epoch \/ m.version < version)
  /\ save # None =>
       \A e \in save.events : e.key.kind # "world_event" => \E m \in sent : Asks(m, e.key.id)

(* With unique ids schedule_at never refuses an event of a request that    *)
(* passes the checks.                                                      *)
LEMMA NeverRefused ==
  ASSUME Typed, MessagesFromThePast, EventsAreSpent, NEW m \in sent, Accepting(m)
  PROVE  \A e \in queue : e.key # CompleteKey(m.id) /\ e.key # ExpireKey(m.id)
<1>1. m.kind = "ACTION_REQUESTED" /\ m.epoch = epoch /\ m.version = version
  BY DEF Accepting, Receive, Stale
<1>2. SUFFICES ASSUME NEW e \in queue, e.key = CompleteKey(m.id) \/ e.key = ExpireKey(m.id)
               PROVE  FALSE
  OBVIOUS
<1>3. e.key.kind # "world_event" /\ e.key.id = m.id
  BY <1>2 DEF CompleteKey, ExpireKey
<1>4. PICK n \in sent : Asks(n, m.id) /\ (n.epoch < epoch \/ n.version < version)
  BY <1>3 DEF EventsAreSpent
<1>5. n = m
  BY <1>1, <1>4 DEF MessagesFromThePast, Asks
<1> QED BY <1>1, <1>4, <1>5 DEF Typed

(* schedule_at never raises inside start_mutation.                         *)
LEMMA NoRaise ==
  ASSUME Typed, MessagesFromThePast, EventsAreSpent, NEW m \in sent
  PROVE  ~AcceptActionRaises(m)
<1> SUFFICES ASSUME AcceptActionRaises(m)
             PROVE  FALSE
  OBVIOUS
<1>1. Accepting(m) /\ (CompletionRefused(m) \/ ExpiryRefused(m))
  BY DEF AcceptActionRaises
<1>2. \E e \in queue : e.key = CompleteKey(m.id) \/ e.key = ExpireKey(m.id)
  BY <1>1 DEF CompletionRefused, ExpiryRefused, Refuses
<1> QED BY <1>1, <1>2, NeverRefused

(* A request that is accepted takes a version: its own record is new.      *)
LEMMA AcceptTakesVersion ==
  ASSUME Typed, NEW m \in sent, AcceptAction(m)
  PROVE  /\ version' = version + 1
         /\ m.epoch = epoch /\ m.version = version /\ m.kind = "ACTION_REQUESTED"
<1>1. Accepting(m) /\ active' = [active EXCEPT ![m.id] = Started(m)] /\ Committed
  BY DEF AcceptAction
<1>2. m.kind = "ACTION_REQUESTED" /\ m.epoch = epoch /\ m.version = version
      /\ active[m.id] = None
  BY <1>1 DEF Accepting, Receive, Stale, Known
<1>3. active'[m.id] # None
  BY <1>1, StartedType, NoneIsDistinct DEF Typed
<1>4. gameplay' # gameplay
  BY <1>2, <1>3 DEF gameplay
<1> QED BY <1>1, <1>2, <1>4 DEF Committed

(* A client that sends a new message under new ids keeps both facts about  *)
(* messages and events.                                                    *)
LEMMA SentStep ==
  ASSUME Typed, MessagesFromThePast, EventsAreSpent, ClientReusesIds = FALSE, Client
  PROVE  MessagesFromThePast' /\ EventsAreSpent'
<1>1. ASSUME NEW m, Send(m), m.epoch = epoch, m.version = version,
             m.kind = "ACTION_REQUESTED" => \A s \in sent : ~Asks(s, m.id)
      PROVE  MessagesFromThePast' /\ EventsAreSpent'
  <2>1. UNCHANGED <<epoch, version, queue, save>> /\ sent' = sent \cup {m}
    BY <1>1 DEF Send, scheduler
  <2>2. MessagesFromThePast'
    BY <1>1, <2>1 DEF MessagesFromThePast, Asks, Typed
  <2>3. EventsAreSpent'
    BY <2>1 DEF EventsAreSpent
  <2> QED BY <2>2, <2>3
<1>2. ASSUME NEW mid \in MessageIds, NEW a \in ActionIds, NEW actor \in Actors,
             NEW cmd \in Commands, NEW t \in Timeouts, SendAction(mid, a, actor, cmd, t)
      PROVE  MessagesFromThePast' /\ EventsAreSpent'
  <2> DEFINE m == Message("ACTION_REQUESTED", mid, a, actor, cmd,
                          IF t = None THEN None ELSE now + t, generation)
  <2>1. m.epoch = epoch /\ m.version = version /\ m.id = a
    BY DEF Message
  <2>2. \A s \in sent : ~Asks(s, m.id)
    BY <1>2, <2>1 DEF SendAction, Asks
  <2>3. Send(m)
    BY <1>2 DEF SendAction
  <2> HIDE DEF m
  <2> QED BY <1>1, <2>1, <2>2, <2>3
<1>3. ASSUME NEW mid \in MessageIds, NEW a \in ActionIds, SendActionCancel(mid, a)
      PROVE  MessagesFromThePast' /\ EventsAreSpent'
  BY <1>1, <1>3 DEF SendActionCancel, Message
<1>4. ASSUME NEW mid \in MessageIds, NEW kind \in RequestKinds, SendControl(mid, kind)
      PROVE  MessagesFromThePast' /\ EventsAreSpent'
  BY <1>1, <1>4 DEF SendControl, Message
<1> QED BY <1>2, <1>3, <1>4 DEF Client

(* Every step keeps them.                                                  *)
LEMMA SpentStep ==
  ASSUME Typed, MessagesFromThePast, EventsAreSpent, ClientReusesIds = FALSE, [Next]_vars
  PROVE  MessagesFromThePast' /\ EventsAreSpent'
<1>1. CASE Client
  BY <1>1, SentStep
<1>2. CASE Ordinary
  <2>1. version' \in Nat /\ version' >= version /\ UNCHANGED <<epoch, save, sent>>
    BY <1>2 DEF Ordinary, Committed, Typed
  <2>2. MessagesFromThePast'
    BY <2>1 DEF MessagesFromThePast, Typed, Requests, ActionRequests, CancelRequests,
                ControlRequests
  <2>3. ASSUME NEW m \in sent, m.epoch < epoch \/ m.version < version
        PROVE  m.epoch < epoch' \/ m.version < version'
    BY <2>1, <2>3 DEF Typed, Requests, ActionRequests, CancelRequests, ControlRequests
  <2>4. EventsAreSpent'
    BY <1>2, <2>1, <2>3 DEF Ordinary, NoNewKeys, EventsAreSpent
  <2> QED BY <2>2, <2>4
<1>3. CASE ExportSave
  <2>1. UNCHANGED <<epoch, version, queue, sent>> /\ save' = gameplay
    BY <1>3 DEF ExportSave, scheduler
  <2>2. save'.events \subseteq queue
    BY <2>1 DEF gameplay, Pending
  <2> QED BY <2>1, <2>2 DEF MessagesFromThePast, EventsAreSpent
<1>4. ASSUME NEW m \in sent, AcceptAction(m)
      PROVE  MessagesFromThePast' /\ EventsAreSpent'
  <2>1. /\ version' = version + 1 /\ UNCHANGED <<epoch, save, sent>>
        /\ Asks(m, m.id) /\ m.version = version
    BY <1>4, AcceptTakesVersion DEF AcceptAction, Asks
  <2>2. MessagesFromThePast'
    BY <2>1 DEF MessagesFromThePast, Typed, Requests, ActionRequests, CancelRequests,
                ControlRequests
  <2>3. \A n \in sent : n.version < version => n.version < version'
    BY <2>1 DEF Typed, Requests, ActionRequests, CancelRequests, ControlRequests
  <2>4. \A e \in queue' : e \in queue \/ e.key.id = m.id
    BY <1>4 DEF AcceptAction, WithCompletion, Insert, Event, CompleteKey, ExpireKey
  <2>5. m.version < version'
    BY <2>1 DEF Typed
  <2>6. EventsAreSpent'
    BY <2>1, <2>3, <2>4, <2>5 DEF EventsAreSpent
  <2> QED BY <2>2, <2>6
<1>5. CASE LoadSave \/ Reset
  <2>1. epoch' = epoch + 1 /\ UNCHANGED <<save, sent>>
    BY <1>5 DEF LoadSave, Reset, Restore
  <2>2. \A m \in sent : m.epoch < epoch'
    BY <2>1 DEF MessagesFromThePast, Typed, Requests, ActionRequests, CancelRequests,
                ControlRequests
  <2>3. MessagesFromThePast'
    BY <2>1, <2>2 DEF MessagesFromThePast, Typed, Requests, ActionRequests, CancelRequests,
                      ControlRequests
  <2>4. queue' = {} \/ (save # None /\ queue' = save.events)
    BY <1>5 DEF LoadSave, Reset, Restore, FreshGameplay
  <2>5. EventsAreSpent'
    BY <2>1, <2>2, <2>4 DEF EventsAreSpent
  <2> QED BY <2>3, <2>5
<1> QED BY <1>1, <1>2, <1>3, <1>4, <1>5, VersionSteps, NoRaise

(* Within an epoch what keeps the version keeps the gameplay state.        *)
LEMMA HonestStep ==
  ASSUME Typed, MessagesFromThePast, EventsAreSpent, [Next]_vars
  PROVE  epoch' = epoch /\ version' = version => gameplay' = gameplay
<1>1. Committed => (version' = version => gameplay' = gameplay)
  BY DEF Committed, Typed
<1>2. CASE Ordinary
  BY <1>1, <1>2 DEF Ordinary
<1>3. CASE Client
  BY <1>3 DEF Client, SendAction, SendActionCancel, SendControl, Send, gameplay, task,
              scheduler, ledger
<1>4. CASE ExportSave
  BY <1>4 DEF ExportSave, gameplay, task, scheduler, ledger
<1>5. CASE LoadSave \/ Reset
  BY <1>5 DEF LoadSave, Reset, Restore, Typed
<1>6. CASE \E m \in sent : AcceptAction(m)
  BY <1>1, <1>6 DEF AcceptAction
<1> QED BY <1>2, <1>3, <1>4, <1>5, <1>6, VersionSteps, NoRaise

(* Within an epoch nothing changes behind the version's back, so that a    *)
(* request based on the current version was made on the current state.     *)
(* _commit alone does not give this: it needs that no request ever meets   *)
(* a leftover event with its own id, which would make handle() raise after *)
(* the action has started.                                                 *)
THEOREM VersionIsHonest ==
  ASSUME ClientReusesIds = FALSE
  PROVE  Spec => VersionTracksState
<1> DEFINE Inv == Typed /\ MessagesFromThePast /\ EventsAreSpent
<1>1. Init => Inv
  BY InitTyped DEF Init, MessagesFromThePast, EventsAreSpent
<1>2. Inv /\ [Next]_vars => Inv'
  BY TypedStep, SpentStep
<1>3. Inv /\ [Next]_vars => [epoch' = epoch /\ version' = version => gameplay' = gameplay]_vars
  BY HonestStep
<1> QED BY <1>1, <1>2, <1>3, PTL DEF Spec, VersionTracksState

-----------------------------------------------------------------------------
(* Requests from before a load or a reset.                                 *)

(* Within an epoch only a handled message changes the response cache.      *)
LEMMA CacheSteps ==
  ASSUME Typed, [Next]_vars, cache' # cache, epoch' = epoch
  PROVE  \E m \in sent : Deliver(m)
<1>1. ASSUME Client
      PROVE  UNCHANGED cache
  BY <1>1 DEF Client, SendAction, SendActionCancel, SendControl, Send
<1>2. ASSUME Host
      PROVE  UNCHANGED cache \/ epoch' # epoch
  <2>1. LoadSave \/ Reset => epoch' # epoch
    BY DEF LoadSave, Reset, Restore, Typed
  <2> QED BY <1>2, <2>1
          DEF Host, HostCall, HostCancelTask, HostPause, HostResume, AssignTask,
              HostWorldEvent, ScheduleWorldEvent, CompletionCallback, ExportSave
<1>3. ASSUME Advance
      PROVE  UNCHANGED cache
  BY <1>3 DEF Advance, AdvanceFrame, Handled, AdvanceBegin, AdvancePop, AdvanceComplete,
              AdvanceExpire, AdvanceWorldEvent, AdvanceRaises, AdvanceEnd
<1>4. UNCHANGED vars => UNCHANGED cache
  BY DEF vars
<1> QED BY <1>1, <1>2, <1>3, <1>4 DEF Next

(* An ACTION_REQUESTED that was built before a load or a reset, delivered  *)
(* or delivered again after it, is turned away without touching the game   *)
(* (_validate_action), even where its id means nothing any more.           *)
THEOREM StaleRequestsInert == Spec => OldEpochActionsInert
<1>1. ASSUME Typed, [Next]_vars, NEW m \in sent,
             HandledNow(m), m.kind = "ACTION_REQUESTED", m.epoch # epoch
      PROVE  gameplay' = gameplay
  <2>1. PICK n \in sent : Deliver(n)
    BY <1>1, CacheSteps DEF HandledNow
  <2>2. ASSUME Remember(n)
        PROVE  n = m
    <3>1. cache \in Seq(Requests) /\ n \in Requests
      BY <1>1 DEF Typed
    <3>2. cache'[Len(cache')] = n
      BY <2>2, <3>1, KeepAppend, LimitsArePositive DEF Remember
    <3> QED BY <1>1, <3>2 DEF HandledNow
  <2>3. CASE RepeatDelivery(n) \/ AcceptActionRaises(n)
    BY <1>1, <2>3 DEF RepeatDelivery, AcceptActionRaises, vars, HandledNow
  <2>4. CASE HandleKnownOrStaleAction(n) \/ HandleUnprocessable(n)
    BY <2>4 DEF HandleUnprocessable, HandleKnownOrStaleAction, gameplay, task, scheduler, ledger
  <2>5. CASE RejectAction(n) \/ AcceptAction(n)
    BY <1>1, <2>2, <2>5 DEF RejectAction, AcceptAction, Accepting, Stale
  <2>6. CASE HandleActionCancel(n) \/ HandleTaskCancelled(n) \/ HandleGamePaused(n)
               \/ HandleGameResumed(n)
    BY <1>1, <2>2, <2>6 DEF HandleActionCancel, HandleTaskCancelled, HandleGamePaused,
                            HandleGameResumed, Receive
  <2> QED BY <2>1, <2>3, <2>4, <2>5, <2>6 DEF Deliver
<1>2. Typed /\ [Next]_vars =>
        [\A m \in sent : HandledNow(m) /\ m.kind = "ACTION_REQUESTED" /\ m.epoch # epoch
           => gameplay' = gameplay]_vars
  BY <1>1
<1> QED BY <1>2, InitTyped, TypedStep, PTL DEF Spec, OldEpochActionsInert
=============================================================================
