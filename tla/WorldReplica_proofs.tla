------------------------- MODULE WorldReplica_proofs -------------------------
(***************************************************************************)
(* As long as no client uses an id twice, and whatever else clients and    *)
(* host do: the world implements the abstract life cycle of its actions    *)
(* although it forgets what became of them, and a consumer of all ordered  *)
(* deltas has the world's state at every moment, the event counter apart.  *)
(***************************************************************************)
EXTENDS WorldReplica, HeadlessWorld_proofs

-----------------------------------------------------------------------------
(* The terminal records.                                                   *)

(* A sequence is one over the set of its own elements.                     *)
LEMMA OwnElements ==
  ASSUME NEW S, NEW s \in Seq(S), NEW T, \A i \in DOMAIN s : s[i] \in T
  PROVE  s \in Seq(T)
OBVIOUS

(* A record of an id that has none is the last one and a new one, and no   *)
(* other id gains a record.                                                *)
LEMMA RecordAdded ==
  ASSUME Typed, NEW req \in ActionRequests({None}), NEW status \in Outcomes,
         RememberTerminal(req, status), \A i \in DOMAIN terminal : terminal[i].req.id # req.id
  PROVE  /\ terminal' # terminal /\ Len(terminal') > 0
         /\ terminal'[Len(terminal')] = [req |-> req, status |-> status]
         /\ \A i \in DOMAIN terminal' :
              \/ terminal'[i].req.id = req.id
              \/ \E j \in DOMAIN terminal : terminal'[i] = terminal[j]
<1> DEFINE x == [req |-> req, status |-> status]
           T == {x} \cup {terminal[j] : j \in DOMAIN terminal}
<1>1. terminal \in Seq(TerminalRecords) /\ TerminalLimit \in Nat \ {0}
  BY LimitsArePositive DEF Typed
<1>2. terminal \in Seq(T)
  BY <1>1, OwnElements
<1>3. /\ terminal' \in Seq(T) /\ terminal' # <<>>
      /\ terminal'[Len(terminal')] = x
  <2>1. x \in T /\ terminal' = Keep(Append(terminal, x), TerminalLimit)
    BY DEF RememberTerminal
  <2> HIDE DEF T, x
  <2> QED BY <1>1, <1>2, <2>1, KeepAppend
<1>4. Len(terminal') \in DOMAIN terminal' /\ Len(terminal') > 0
  BY <1>3
<1>5. terminal' # terminal
  BY <1>3, <1>4
<1>6. \A i \in DOMAIN terminal' : terminal'[i] \in T
  BY <1>3
<1> QED BY <1>3, <1>4, <1>5, <1>6

-----------------------------------------------------------------------------
\* Nothing becomes of any action.
Uneventful == UNCHANGED <<epoch, ledger>>

\* One action reaches a terminal state.
Ends(a, status) == UNCHANGED <<epoch, save>> /\ active[a] # None /\ End(a, status)

(* What a step can do to the ledger.                                       *)
LEMMA LedgerSteps ==
  ASSUME Typed, [Next]_vars
  PROVE  /\ sent \subseteq sent'
         /\ \/ Uneventful /\ (save' = save \/ save' = gameplay)
            \/ \E a \in ActionIds, status \in Outcomes \ {"REJECTED"} : Ends(a, status)
            \/ \E m \in sent : RejectAction(m) \/ AcceptAction(m) \/ AcceptActionRaises(m)
            \/ LoadSave \/ Reset
<1> DEFINE Same == Uneventful /\ UNCHANGED save
           Terminates == \E a \in ActionIds, status \in Outcomes \ {"REJECTED"} : Ends(a, status)
           Ordinarily == sent \subseteq sent' /\ (Same \/ Terminates)
<1>1. ASSUME NEW a \in ActionIds, NEW status \in Outcomes \ {"REJECTED"}, active[a] # None,
             End(a, status), UNCHANGED <<epoch, save, sent>>
      PROVE  Ordinarily
  BY <1>1 DEF Ends
<1>2. ASSUME UNCHANGED <<ledger, epoch, save, sent>>
      PROVE  Ordinarily
  BY <1>2 DEF Uneventful
<1>3. ASSUME CancelTask, UNCHANGED <<epoch, save, sent>>
      PROVE  Ordinarily
  BY <1>1, <1>2, <1>3 DEF CancelTask, ActiveOf, Outcomes
<1>4. ASSUME NEW a \in ActionIds, CompleteAction(a), UNCHANGED <<epoch, save, sent>>
      PROVE  Ordinarily
  BY <1>1, <1>2, <1>4 DEF CompleteAction, Outcomes
<1>5. ASSUME NEW ev \in WorldEvents, ApplyWorldEvent(ev), UNCHANGED <<epoch, save, sent>>
      PROVE  Ordinarily
  BY <1>1, <1>2, <1>5 DEF ApplyWorldEvent, ActiveOf, Outcomes
<1>6. ASSUME NEW b, SetPaused(b), UNCHANGED <<epoch, save, sent>>
      PROVE  Ordinarily
  BY <1>2, <1>6 DEF SetPaused
<1>7. CASE UNCHANGED vars
  BY <1>2, <1>7 DEF vars, ledger
<1>8. CASE Client
  BY <1>8 DEF Client, SendAction, SendActionCancel, SendControl, Send, Uneventful
<1>9. ASSUME NEW m \in sent, Deliver(m)
      PROVE  \/ Ordinarily
             \/ sent' = sent /\ (RejectAction(m) \/ AcceptAction(m) \/ AcceptActionRaises(m))
  <2>1. CASE RepeatDelivery(m)
    BY <1>2, <2>1 DEF RepeatDelivery, vars, ledger
  <2>2. CASE HandleKnownOrStaleAction(m) \/ HandleUnprocessable(m)
    BY <1>2, <2>2 DEF HandleUnprocessable, HandleKnownOrStaleAction
  <2>3. CASE RejectAction(m) \/ AcceptAction(m) \/ AcceptActionRaises(m)
    BY <2>3 DEF RejectAction, AcceptAction, AcceptActionRaises
  <2>4. CASE HandleActionCancel(m)
    <3>1. m.id \in ActionIds
      BY <2>4, RequestTypes DEF HandleActionCancel, Receive
    <3> QED BY <1>1, <1>2, <2>4, <3>1 DEF HandleActionCancel, Outcomes
  <2>5. CASE HandleTaskCancelled(m)
    BY <1>3, <2>5 DEF HandleTaskCancelled
  <2>6. CASE HandleGamePaused(m) \/ HandleGameResumed(m)
    BY <1>6, <2>6 DEF HandleGamePaused, HandleGameResumed
  <2> QED BY <1>9, <2>1, <2>2, <2>3, <2>4, <2>5, <2>6 DEF Deliver
<1>10. ASSUME Host
       PROVE  \/ Ordinarily \/ LoadSave \/ Reset
              \/ sent' = sent /\ Uneventful /\ save' = gameplay
  <2>1. CASE HostCancelTask
    BY <1>3, <2>1 DEF HostCancelTask, HostCall
  <2>2. CASE HostPause \/ HostResume
    BY <1>6, <2>2 DEF HostPause, HostResume, HostCall
  <2>3. CASE AssignTask
    BY <1>2, <2>3 DEF AssignTask, HostCall
  <2>4. CASE \E ev \in WorldEvents : HostWorldEvent(ev)
    BY <1>5, <2>4 DEF HostWorldEvent, HostCall
  <2>5. CASE \E ev \in WorldEvents, d \in Delays : ScheduleWorldEvent(ev, d)
    BY <1>2, <2>5 DEF ScheduleWorldEvent, HostCall
  <2>6. CASE \E a \in ActionIds : CompletionCallback(a)
    BY <1>4, <2>6 DEF CompletionCallback, HostCall
  <2>7. CASE ExportSave
    BY <2>7 DEF ExportSave, Uneventful
  <2> HIDE DEF Ordinarily
  <2> QED BY <1>10, <2>1, <2>2, <2>3, <2>4, <2>5, <2>6, <2>7 DEF Host
<1>11. ASSUME Advance
       PROVE  Ordinarily
  <2>1. ASSUME NEW kind, Handled(kind)
        PROVE  /\ UNCHANGED <<epoch, save, sent>>
               /\ kind \in {"action_complete", "action_expire"} => due.key.id \in ActionIds
               /\ kind = "world_event" => due.key.event \in WorldEvents
    <3>1. due.key \in Keys /\ due.key.kind = kind
      BY <2>1 DEF Handled, Typed, Events
    <3> QED BY <2>1, <3>1 DEF Handled, AdvanceFrame, Keys
  <2>2. CASE \E d \in Deltas : AdvanceBegin(d)
    BY <1>2, <2>2 DEF AdvanceBegin, AdvanceFrame
  <2>3. CASE AdvancePop \/ AdvanceEnd
    BY <1>2, <2>3 DEF AdvancePop, AdvanceEnd, AdvanceFrame
  <2>4. CASE AdvanceComplete
    BY <1>4, <2>1, <2>4 DEF AdvanceComplete
  <2>5. CASE AdvanceExpire
    BY <1>1, <1>2, <2>1, <2>5 DEF AdvanceExpire, ExpireAction, Outcomes
  <2>6. CASE AdvanceWorldEvent
    BY <1>5, <2>1, <2>6 DEF AdvanceWorldEvent
  <2>7. CASE AdvanceRaises
    BY <1>2, <2>1, <2>7 DEF AdvanceRaises
  <2> HIDE DEF Ordinarily
  <2> QED BY <1>11, <2>2, <2>3, <2>4, <2>5, <2>6, <2>7 DEF Advance
<1>12. CASE LoadSave \/ Reset
  BY <1>12 DEF LoadSave, Reset, Restore
<1> QED BY <1>7, <1>8, <1>9, <1>10, <1>11, <1>12 DEF Next

-----------------------------------------------------------------------------
\* Action a has been asked for.
Asked(a) == \E m \in sent : Asks(m, a)

\* The request for a is out of date for ever.
Spent(a) == \E m \in sent : Asks(m, a) /\ (m.epoch < epoch \/ m.version < version)

\* The request for a is up to date and cannot be granted in this state.
TurnedDown(a) ==
  \E m \in sent : Asks(m, a) /\ m.epoch = epoch /\ m.version = version /\ Unfit(m)

\* What is said of an action under way is so, an action under way has no
\* terminal record, and what has been decided cannot be decided anew.
Remembers ==
  /\ fate \in [ActionIds -> Lifecycle!Phases]
  /\ \A a \in ActionIds :
       /\ active[a] # None <=> fate[a] = "STARTED"
       /\ active[a] # None =>
            active[a].req.id = a /\ \A i \in DOMAIN terminal : terminal[i].req.id # a
       /\ fate[a] # "UNKNOWN" => Spent(a) \/ (fate[a] = "REJECTED" /\ TurnedDown(a))

\* The actions under way in a save have been asked for.
SaveRemembers ==
  save # None =>
    \A a \in ActionIds : save.active[a] # None => save.active[a].req.id = a /\ Asked(a)

\* What the history variable of NextFate is set to.
Told == fate' = [a \in ActionIds |-> FateAfter(a)]

(* What is told of one id only.                                            *)
LEMMA ToldOfOne ==
  ASSUME Remembers, Told, NEW a \in ActionIds, NEW v, FateAfter(a) = v,
         \A b \in ActionIds : b # a => FateAfter(b) = fate[b]
  PROVE  fate' = [fate EXCEPT ![a] = v]
<1>1. fate = [b \in ActionIds |-> fate[b]]
  BY DEF Remembers
<1>2. [fate EXCEPT ![a] = v] = [b \in ActionIds |-> IF b = a THEN v ELSE fate[b]]
  BY <1>1
<1>3. \A b \in ActionIds : FateAfter(b) = IF b = a THEN v ELSE fate[b]
  OBVIOUS
<1> QED BY <1>2, <1>3 DEF Told

(* Where nothing becomes of any action nothing is told.                    *)
LEMMA ToldNothing ==
  ASSUME Remembers, Uneventful, Told
  PROVE  fate' = fate
<1>1. ASSUME NEW a \in ActionIds
      PROVE  FateAfter(a) = fate[a]
  BY <1>1 DEF FateAfter, Under, Recorded, Uneventful, ledger, Remembers
<1> QED BY <1>1 DEF Told, Remembers

(* The end of an action is told of it and of no other.                     *)
LEMMA ToldEnd ==
  ASSUME Typed, Remembers, Told, NEW a \in ActionIds, NEW status \in Outcomes, Ends(a, status)
  PROVE  /\ fate' = [fate EXCEPT ![a] = status]
         /\ \A b \in ActionIds, i \in DOMAIN terminal' :
              active'[b] # None => terminal'[i].req.id # b
<1>1. /\ UNCHANGED epoch /\ active[a] # None
      /\ active' = [active EXCEPT ![a] = None]
      /\ RememberTerminal(active[a].req, status)
  BY DEF Ends, End
<1>2. /\ active[a].req.id = a /\ active[a].req \in ActionRequests({None})
      /\ \A i \in DOMAIN terminal : terminal[i].req.id # a
  BY <1>1, RecordTypes DEF Remembers
<1>3. /\ terminal' # terminal /\ Len(terminal') > 0
      /\ terminal'[Len(terminal')] = [req |-> active[a].req, status |-> status]
      /\ \A i \in DOMAIN terminal' :
           terminal'[i].req.id = a \/ \E j \in DOMAIN terminal : terminal'[i] = terminal[j]
  <2> DEFINE r == active[a].req
  <2>1. /\ r \in ActionRequests({None}) /\ RememberTerminal(r, status)
        /\ r.id = a /\ \A i \in DOMAIN terminal : terminal[i].req.id # r.id
    BY <1>1, <1>2
  <2> HIDE DEF r
  <2>2. /\ terminal' # terminal /\ Len(terminal') > 0
        /\ terminal'[Len(terminal')] = [req |-> r, status |-> status]
        /\ \A i \in DOMAIN terminal' :
             terminal'[i].req.id = r.id \/ \E j \in DOMAIN terminal : terminal'[i] = terminal[j]
    BY <2>1, RecordAdded
  <2> USE DEF r
  <2> QED BY <2>1, <2>2
<1>4. FateAfter(a) = status
  BY <1>1, <1>2, <1>3 DEF FateAfter, Under, Recorded, Typed
<1>5. ASSUME NEW b \in ActionIds, b # a
      PROVE  FateAfter(b) = fate[b]
  BY <1>1, <1>2, <1>3, <1>5 DEF FateAfter, Under, Recorded, Typed, Remembers
<1>6. fate' = [fate EXCEPT ![a] = status]
  BY <1>4, <1>5, ToldOfOne
<1>7. ASSUME NEW b \in ActionIds, NEW i \in DOMAIN terminal', active'[b] # None
      PROVE  terminal'[i].req.id # b
  BY <1>1, <1>3, <1>7 DEF Remembers, Typed
<1> QED BY <1>6, <1>7

(* So is a rejection, of an id that is not under way.                      *)
LEMMA ToldRejection ==
  ASSUME Typed, Remembers, Told, NEW m \in sent, RejectAction(m)
  PROVE  /\ m.id \in ActionIds
         /\ fate' = [fate EXCEPT ![m.id] = "REJECTED"]
         /\ \A b \in ActionIds, i \in DOMAIN terminal' :
              active'[b] # None => terminal'[i].req.id # b
<1>1. /\ UNCHANGED <<epoch, active>> /\ ~Known(m.id) /\ m.kind = "ACTION_REQUESTED"
      /\ RememberTerminal(Content(m), "REJECTED")
  BY DEF RejectAction, Receive
<1>2. m.id \in ActionIds /\ Content(m) \in ActionRequests({None}) /\ Content(m).id = m.id
  BY <1>1, RequestTypes DEF Content, ActionRequests
<1>3. active[m.id] = None /\ \A i \in DOMAIN terminal : terminal[i].req.id # m.id
  BY <1>1 DEF Known
<1>4. /\ terminal' # terminal /\ Len(terminal') > 0
      /\ terminal'[Len(terminal')] = [req |-> Content(m), status |-> "REJECTED"]
      /\ \A i \in DOMAIN terminal' :
           terminal'[i].req.id = m.id \/ \E j \in DOMAIN terminal : terminal'[i] = terminal[j]
  BY <1>1, <1>2, <1>3, RecordAdded DEF Outcomes
<1>5. FateAfter(m.id) = "REJECTED"
  BY <1>1, <1>2, <1>3, <1>4 DEF FateAfter, Under, Recorded
<1>6. ASSUME NEW b \in ActionIds, b # m.id
      PROVE  FateAfter(b) = fate[b]
  BY <1>1, <1>2, <1>4, <1>6 DEF FateAfter, Under, Recorded, Remembers
<1>7. fate' = [fate EXCEPT ![m.id] = "REJECTED"]
  BY <1>2, <1>5, <1>6, ToldOfOne
<1>8. ASSUME NEW b \in ActionIds, NEW i \in DOMAIN terminal', active'[b] # None
      PROVE  terminal'[i].req.id # b
  BY <1>1, <1>3, <1>4, <1>8 DEF Remembers
<1> QED BY <1>2, <1>7, <1>8

(* So is the start of an action.                                           *)
LEMMA ToldStart ==
  ASSUME Typed, Remembers, Told, NEW m \in sent, AcceptAction(m)
  PROVE  /\ m.id \in ActionIds
         /\ fate' = [fate EXCEPT ![m.id] = "STARTED"]
         /\ active' = [active EXCEPT ![m.id] = Started(m)]
         /\ Started(m) # None /\ Started(m).req.id = m.id
         /\ \A i \in DOMAIN terminal : terminal[i].req.id # m.id
<1>1. /\ UNCHANGED <<epoch, terminal>> /\ Accepting(m) /\ ~Known(m.id)
      /\ active' = [active EXCEPT ![m.id] = Started(m)]
  BY DEF AcceptAction, Accepting
<1>2. m.id \in ActionIds /\ Started(m) \in Records /\ Started(m).req = Content(m)
  BY <1>1, StartedType
<1>3. Started(m) # None /\ Started(m).req.id = m.id
  BY <1>2, NoneIsDistinct DEF Content
<1>4. FateAfter(m.id) = "STARTED"
  BY <1>1, <1>2, <1>3 DEF FateAfter, Under, Typed
<1>5. ASSUME NEW b \in ActionIds, b # m.id
      PROVE  FateAfter(b) = fate[b]
  BY <1>1, <1>5 DEF FateAfter, Under, Recorded, Remembers, Typed
<1>6. fate' = [fate EXCEPT ![m.id] = "STARTED"]
  BY <1>2, <1>4, <1>5, ToldOfOne
<1> QED BY <1>1, <1>2, <1>3, <1>6 DEF Known

(* A new epoch knows of nothing but the actions under way.                 *)
LEMMA ToldEpoch ==
  ASSUME Told, epoch' # epoch
  PROVE  fate' = [a \in ActionIds |-> IF active'[a] # None THEN "STARTED" ELSE "UNKNOWN"]
<1>1. ASSUME NEW a \in ActionIds
      PROVE  FateAfter(a) = IF active'[a] # None THEN "STARTED" ELSE "UNKNOWN"
  BY <1>1 DEF FateAfter, Under
<1> QED BY <1>1 DEF Told

-----------------------------------------------------------------------------
\* What the refinement rests on.
IInv ==
  /\ Typed /\ MessagesFromThePast /\ EventsAreSpent
  /\ Remembers /\ SaveRemembers

(* The version does not go back within an epoch, and a new epoch is the    *)
(* next one.                                                               *)
LEMMA VersionGrows ==
  ASSUME Typed, MessagesFromThePast, EventsAreSpent, [Next]_vars
  PROVE  \/ epoch' = epoch /\ (version' = version \/ version' = version + 1)
         \/ epoch' = epoch + 1 /\ (LoadSave \/ Reset)
<1>1. Committed => version' = version \/ version' = version + 1
  BY DEF Committed
<1>2. CASE Ordinary
  BY <1>1, <1>2 DEF Ordinary
<1>3. CASE Client
  BY <1>3 DEF Client, SendAction, SendActionCancel, SendControl, Send
<1>4. CASE ExportSave
  BY <1>4 DEF ExportSave
<1>5. CASE LoadSave \/ Reset
  BY <1>5 DEF LoadSave, Reset, Restore
<1>6. CASE \E m \in sent : AcceptAction(m)
  BY <1>1, <1>6 DEF AcceptAction
<1> QED BY <1>2, <1>3, <1>4, <1>5, <1>6, VersionSteps, NoRaise

(* A request that is out of date stays so, and a load or a reset puts      *)
(* every request out of date.                                              *)
LEMMA SpentStays ==
  ASSUME Typed, MessagesFromThePast, EventsAreSpent, [Next]_vars, sent \subseteq sent',
         NEW a \in ActionIds
  PROVE  /\ Asked(a) => Asked(a)'
         /\ Spent(a) => Spent(a)'
         /\ Asked(a) /\ epoch' # epoch => Spent(a)'
<1>1. Asked(a) => Asked(a)'
  BY DEF Asked, Asks
<1>2. ASSUME NEW m \in sent
      PROVE  m.epoch \in Nat /\ m.version \in Nat /\ m.epoch <= epoch
  BY <1>2 DEF Typed, Requests, ActionRequests, CancelRequests, ControlRequests,
              MessagesFromThePast
<1>3. CASE epoch' = epoch /\ (version' = version \/ version' = version + 1)
  BY <1>1, <1>2, <1>3 DEF Spent, Asks, Typed
<1>4. CASE epoch' = epoch + 1
  <2>1. ASSUME NEW m \in sent
        PROVE  m \in sent' /\ m.epoch < epoch'
    BY <1>2, <1>4, <2>1 DEF Typed
  <2> QED BY <1>1, <2>1 DEF Spent, Asked, Asks
<1> QED BY <1>3, <1>4, VersionGrows

(* A request that cannot be granted in this state cannot be granted as     *)
(* long as the version stands, and is out of date when it moves.           *)
LEMMA TurnedDownStays ==
  ASSUME Typed, MessagesFromThePast, EventsAreSpent, [Next]_vars, sent \subseteq sent',
         epoch' = epoch, NEW a \in ActionIds, TurnedDown(a)
  PROVE  TurnedDown(a)' \/ Spent(a)'
<1>1. PICK m \in sent : Asks(m, a) /\ m.epoch = epoch /\ m.version = version /\ Unfit(m)
  BY DEF TurnedDown
<1>2. CASE version' = version
  <2>1. gameplay' = gameplay
    BY <1>2, HonestStep
  <2>2. UNCHANGED <<world, active, now>>
    BY <2>1 DEF gameplay
  <2>3. Unfit(m)'
    BY <1>1, <2>2 DEF Unfit, ActiveOf
  <2> QED BY <1>1, <1>2, <2>3 DEF TurnedDown, Asks
<1>3. CASE version' = version + 1
  BY <1>1, <1>3 DEF Spent, Asks, Typed
<1>4. epoch + 1 # epoch
  BY DEF Typed
<1> QED BY <1>2, <1>3, <1>4, VersionGrows

(* A request that is acted upon is the only one for its id, so the id is   *)
(* undecided or it was rejected for what still stands in the way.          *)
LEMMA UpToDate ==
  ASSUME Typed, MessagesFromThePast, Remembers, NEW m \in sent, m.id \in ActionIds,
         m.kind = "ACTION_REQUESTED", ~Stale(m)
  PROVE  /\ ~Spent(m.id)
         /\ fate[m.id] = "UNKNOWN" \/ (fate[m.id] = "REJECTED" /\ Unfit(m))
<1>1. m.epoch = epoch /\ m.version = version /\ Asks(m, m.id)
  BY DEF Stale, Asks
<1>2. \A n \in sent : Asks(n, m.id) => n = m
  BY <1>1 DEF MessagesFromThePast, Asks
<1>3. ~Spent(m.id)
  BY <1>1, <1>2 DEF Spent, Typed
<1>4. TurnedDown(m.id) => Unfit(m)
  BY <1>2 DEF TurnedDown
<1> QED BY <1>3, <1>4 DEF Remembers

-----------------------------------------------------------------------------
(* The step that the abstract life cycle takes with each step of the       *)
(* world.                                                                  *)
LEMMA LifecycleStep ==
  ASSUME IInv, [Next]_vars, Told
  PROVE  Lifecycle!Next \/ UNCHANGED <<epoch, fate>>
<1>1. ASSUME NEW a \in ActionIds, NEW to, <<fate[a], to>> \in Lifecycle!Allowed,
             to \in Lifecycle!Phases, fate' = [fate EXCEPT ![a] = to], UNCHANGED epoch
      PROVE  Lifecycle!Next
  BY <1>1 DEF Lifecycle!Next, Lifecycle!Move
<1>2. CASE Uneventful
  BY <1>2, ToldNothing DEF IInv, Uneventful
<1>3. ASSUME NEW a \in ActionIds, NEW status \in Outcomes \ {"REJECTED"}, Ends(a, status)
      PROVE  Lifecycle!Next
  <2>1. fate' = [fate EXCEPT ![a] = status] /\ fate[a] = "STARTED" /\ UNCHANGED epoch
    BY <1>3, ToldEnd DEF IInv, Remembers, Ends
  <2>2. status \in Lifecycle!Phases /\ <<"STARTED", status>> \in Lifecycle!Allowed
    BY DEF Outcomes, Lifecycle!Allowed, Lifecycle!Phases, Lifecycle!Outcomes
  <2>3. <<fate[a], status>> \in Lifecycle!Allowed
    BY <2>1, <2>2
  <2> QED BY <1>1, <2>1, <2>2, <2>3
<1>4. ASSUME NEW m \in sent, RejectAction(m)
      PROVE  Lifecycle!Next \/ UNCHANGED <<epoch, fate>>
  <2>1. m.id \in ActionIds /\ fate' = [fate EXCEPT ![m.id] = "REJECTED"] /\ UNCHANGED epoch
    BY <1>4, ToldRejection DEF IInv, RejectAction
  <2>2. fate[m.id] \in {"UNKNOWN", "REJECTED"}
    BY <1>4, <2>1, UpToDate DEF IInv, RejectAction, Receive
  <2>3. CASE fate[m.id] = "UNKNOWN"
    <3>1. /\ "REJECTED" \in Lifecycle!Phases
          /\ <<"UNKNOWN", "REJECTED">> \in Lifecycle!Allowed
      BY DEF Lifecycle!Allowed, Lifecycle!Phases, Lifecycle!Outcomes
    <3>2. <<fate[m.id], "REJECTED">> \in Lifecycle!Allowed
      BY <2>3, <3>1
    <3> QED BY <1>1, <2>1, <3>1, <3>2
  <2>4. CASE fate[m.id] = "REJECTED"
    BY <2>1, <2>4 DEF IInv, Remembers
  <2> QED BY <2>2, <2>3, <2>4
<1>5. ASSUME NEW m \in sent, AcceptAction(m)
      PROVE  Lifecycle!Next
  <2>1. m.id \in ActionIds /\ fate' = [fate EXCEPT ![m.id] = "STARTED"] /\ UNCHANGED epoch
    BY <1>5, ToldStart DEF IInv, AcceptAction
  <2>2. fate[m.id] = "UNKNOWN"
    BY <1>5, <2>1, UpToDate DEF IInv, AcceptAction, Accepting, Receive
  <2>3. "STARTED" \in Lifecycle!Phases /\ <<"UNKNOWN", "STARTED">> \in Lifecycle!Allowed
    BY DEF Lifecycle!Allowed, Lifecycle!Phases
  <2>4. <<fate[m.id], "STARTED">> \in Lifecycle!Allowed
    BY <2>2, <2>3
  <2> QED BY <1>1, <2>1, <2>3, <2>4
<1>6. CASE LoadSave \/ Reset
  <2> DEFINE S == {a \in ActionIds : active'[a] # None}
  <2>1. epoch' = epoch + 1 /\ epoch' # epoch
    BY <1>6 DEF LoadSave, Reset, Restore, IInv, Typed
  <2>2. fate' = [a \in ActionIds |-> IF a \in S THEN "STARTED" ELSE "UNKNOWN"]
    BY <2>1, ToldEpoch
  <2>3. S \in SUBSET ActionIds
    OBVIOUS
  <2> HIDE DEF S
  <2> QED BY <2>1, <2>2, <2>3 DEF Lifecycle!Next, Lifecycle!NewEpoch
<1> QED BY <1>2, <1>3, <1>4, <1>5, <1>6, LedgerSteps, NoRaise DEF IInv

-----------------------------------------------------------------------------
(* What the refinement rests on is kept.                                   *)
LEMMA RemembersStep ==
  ASSUME IInv, [Next]_vars, Told
  PROVE  Remembers'
<1> USE DEF IInv
<1>0. sent \subseteq sent'
  BY LedgerSteps
<1>1. ASSUME NEW a \in ActionIds, epoch' = epoch, fate[a] # "UNKNOWN"
      PROVE  Spent(a)' \/ (fate[a] = "REJECTED" /\ TurnedDown(a)')
  BY <1>0, <1>1, SpentStays, TurnedDownStays DEF Remembers
<1>2. CASE Uneventful
  <2>1. fate' = fate /\ UNCHANGED <<epoch, active, terminal>>
    BY <1>2, ToldNothing DEF Uneventful, ledger
  <2> QED BY <1>1, <2>1 DEF Remembers
<1>3. ASSUME NEW a \in ActionIds, NEW status \in Outcomes \ {"REJECTED"}, Ends(a, status)
      PROVE  Remembers'
  <2>1. /\ fate' = [fate EXCEPT ![a] = status] /\ fate[a] = "STARTED" /\ UNCHANGED epoch
        /\ active' = [active EXCEPT ![a] = None]
        /\ \A b \in ActionIds, i \in DOMAIN terminal' :
             active'[b] # None => terminal'[i].req.id # b
    BY <1>3, ToldEnd DEF Remembers, Ends, End
  <2>2. status \in Lifecycle!Phases /\ status # "STARTED"
    BY DEF Outcomes, Lifecycle!Phases, Lifecycle!Outcomes
  <2>3. fate' \in [ActionIds -> Lifecycle!Phases]
    BY <2>1, <2>2 DEF Remembers
  <2>4. ASSUME NEW b \in ActionIds
        PROVE  /\ active'[b] # None <=> fate'[b] = "STARTED"
               /\ active'[b] # None => active'[b].req.id = b
               /\ fate'[b] # "UNKNOWN" => Spent(b)' \/ (fate'[b] = "REJECTED" /\ TurnedDown(b)')
    <3>1. CASE b = a
      BY <1>1, <2>1, <2>2, <3>1 DEF Remembers, Typed
    <3>2. CASE b # a
      BY <1>1, <2>1, <3>2 DEF Remembers, Typed
    <3> QED BY <3>1, <3>2
  <2> QED BY <2>1, <2>3, <2>4 DEF Remembers
<1>4. ASSUME NEW m \in sent, RejectAction(m)
      PROVE  Remembers'
  <2>1. /\ m.id \in ActionIds /\ fate' = [fate EXCEPT ![m.id] = "REJECTED"]
        /\ \A b \in ActionIds, i \in DOMAIN terminal' :
             active'[b] # None => terminal'[i].req.id # b
    BY <1>4, ToldRejection
  <2>2. /\ UNCHANGED <<epoch, active>> /\ active[m.id] = None
        /\ Asks(m, m.id) /\ m.epoch = epoch /\ m.version = version /\ Unfit(m)
    BY <1>4 DEF RejectAction, Receive, Known, Stale, Asks
  <2>3. TurnedDown(m.id)
    BY <2>2 DEF TurnedDown
  <2>4. TurnedDown(m.id)' \/ Spent(m.id)'
    BY <1>0, <2>1, <2>2, <2>3, TurnedDownStays
  <2>5. fate' \in [ActionIds -> Lifecycle!Phases]
    BY <2>1 DEF Remembers, Lifecycle!Phases, Lifecycle!Outcomes
  <2>6. ASSUME NEW b \in ActionIds
        PROVE  /\ active'[b] # None <=> fate'[b] = "STARTED"
               /\ active'[b] # None => active'[b].req.id = b
               /\ fate'[b] # "UNKNOWN" => Spent(b)' \/ (fate'[b] = "REJECTED" /\ TurnedDown(b)')
    <3>1. CASE b = m.id
      BY <2>1, <2>2, <2>4, <3>1 DEF Remembers
    <3>2. CASE b # m.id
      BY <1>1, <2>1, <2>2, <3>2 DEF Remembers
    <3> QED BY <3>1, <3>2
  <2> QED BY <2>1, <2>5, <2>6 DEF Remembers
<1>5. ASSUME NEW m \in sent, AcceptAction(m)
      PROVE  Remembers'
  <2>1. /\ m.id \in ActionIds /\ fate' = [fate EXCEPT ![m.id] = "STARTED"]
        /\ active' = [active EXCEPT ![m.id] = Started(m)]
        /\ Started(m) # None /\ Started(m).req.id = m.id
        /\ \A i \in DOMAIN terminal : terminal[i].req.id # m.id
        /\ UNCHANGED <<epoch, terminal>>
    BY <1>5, ToldStart DEF AcceptAction
  <2>2. Asks(m, m.id) /\ m.version < version' /\ m \in sent'
    BY <1>0, <1>5, AcceptTakesVersion DEF Asks, Typed
  <2>3. Spent(m.id)'
    BY <2>2 DEF Spent, Asks
  <2>4. fate' \in [ActionIds -> Lifecycle!Phases]
    BY <2>1 DEF Remembers, Lifecycle!Phases
  <2>5. ASSUME NEW b \in ActionIds
        PROVE  /\ active'[b] # None <=> fate'[b] = "STARTED"
               /\ active'[b] # None =>
                    active'[b].req.id = b /\ \A i \in DOMAIN terminal' : terminal'[i].req.id # b
               /\ fate'[b] # "UNKNOWN" => Spent(b)' \/ (fate'[b] = "REJECTED" /\ TurnedDown(b)')
    <3>1. CASE b = m.id
      BY <2>1, <2>3, <3>1 DEF Remembers, Typed
    <3>2. CASE b # m.id
      BY <1>1, <2>1, <3>2 DEF Remembers, Typed
    <3> QED BY <3>1, <3>2
  <2> QED BY <2>4, <2>5 DEF Remembers
<1>6. CASE LoadSave \/ Reset
  <2>1. epoch' # epoch /\ terminal' = <<>>
    BY <1>6 DEF LoadSave, Reset, Restore, Typed
  <2>2. fate' = [a \in ActionIds |-> IF active'[a] # None THEN "STARTED" ELSE "UNKNOWN"]
    BY <2>1, ToldEpoch
  <2>3. ASSUME NEW a \in ActionIds, active'[a] # None
        PROVE  active'[a].req.id = a /\ Asked(a)
    BY <1>6, <2>3 DEF LoadSave, Reset, Restore, FreshGameplay, SaveRemembers
  <2>4. ASSUME NEW a \in ActionIds, active'[a] # None
        PROVE  Spent(a)'
    BY <1>0, <2>1, <2>3, <2>4, SpentStays
  <2>5. fate' \in [ActionIds -> Lifecycle!Phases]
    BY <2>2 DEF Lifecycle!Phases
  <2>6. DOMAIN terminal' = {}
    BY <2>1
  <2> QED BY <2>2, <2>3, <2>4, <2>5, <2>6 DEF Remembers
<1> QED BY <1>2, <1>3, <1>4, <1>5, <1>6, LedgerSteps, NoRaise

(* What is said of the save is kept, and true of a new one.                *)
LEMMA SaveRemembersStep ==
  ASSUME IInv, [Next]_vars
  PROVE  SaveRemembers'
<1>1. sent \subseteq sent'
  BY LedgerSteps DEF IInv
<1>2. \A a \in ActionIds : Asked(a) => Asked(a)'
  BY <1>1 DEF Asked, Asks
<1>3. CASE save' = save
  BY <1>2, <1>3 DEF IInv, SaveRemembers
<1>4. CASE save' = gameplay
  <2>1. \A a \in ActionIds : active[a] # None => active[a].req.id = a /\ Asked(a)
    BY DEF IInv, Remembers, Spent, TurnedDown, Asked
  <2>2. save'.active = active
    BY <1>4 DEF gameplay
  <2> QED BY <1>2, <2>1, <2>2 DEF SaveRemembers
<1>5. save' = save \/ save' = gameplay
  BY LedgerSteps, NoRaise
  DEF IInv, Ends, RejectAction, AcceptAction, LoadSave, Reset, Restore
<1> QED BY <1>3, <1>4, <1>5

(* Every id lives the abstract life cycle: it is decided once, ends once   *)
(* and stays ended, however often its request is delivered again and       *)
(* however much of it the bounded caches have forgotten.                   *)
THEOREM LifecycleIsKept ==
  ASSUME ClientReusesIds = FALSE
  PROVE  SpecFate => ImplementsLifecycle
<1>1. InitFate => IInv /\ Lifecycle!Init
  <2> SUFFICES ASSUME InitFate
               PROVE  IInv /\ Lifecycle!Init
    OBVIOUS
  <2>1. Init /\ fate = [a \in ActionIds |-> "UNKNOWN"]
    BY DEF InitFate
  <2>2. Typed
    BY <2>1, InitTyped
  <2>3. MessagesFromThePast /\ EventsAreSpent /\ SaveRemembers
    BY <2>1 DEF Init, MessagesFromThePast, EventsAreSpent, SaveRemembers
  <2>4. Remembers
    BY <2>1 DEF Init, Remembers, Lifecycle!Phases
  <2>5. Lifecycle!Init
    BY <2>1 DEF Init, Lifecycle!Init
  <2> QED BY <2>2, <2>3, <2>4, <2>5 DEF IInv
<1>2. IInv /\ [NextFate]_varsWithFate => IInv' /\ [Lifecycle!Next]_<<epoch, fate>>
  <2>1. CASE IInv /\ NextFate
    <3>1. [Next]_vars /\ Told
      BY <2>1 DEF NextFate, Told
    <3>2. Typed' /\ MessagesFromThePast' /\ EventsAreSpent'
      BY <2>1, <3>1, TypedStep, SpentStep DEF IInv
    <3> QED BY <2>1, <3>1, <3>2, RemembersStep, SaveRemembersStep, LifecycleStep DEF IInv
  <2>2. CASE IInv /\ UNCHANGED varsWithFate
    <3>1. UNCHANGED <<vars, fate>>
      BY <2>2 DEF varsWithFate
    <3>2. Typed' /\ MessagesFromThePast' /\ EventsAreSpent'
      BY <2>2, <3>1, TypedStep, SpentStep DEF IInv
    <3>3. Remembers' /\ SaveRemembers'
      BY <2>2, <3>1 DEF IInv, vars, Remembers, SaveRemembers, Spent, TurnedDown, Asked, Asks,
                        Unfit, ActiveOf
    <3> QED BY <3>1, <3>2, <3>3 DEF IInv, vars
  <2> QED BY <2>1, <2>2
<1> QED BY <1>1, <1>2, PTL DEF SpecFate, ImplementsLifecycle, Lifecycle!Spec

-----------------------------------------------------------------------------
(* The replica.                                                            *)

(* The members of gameplay_state().                                        *)
Fields ==
  {"now", "paused", "world", "active", "events", "nextIns", "generation", "hasTask",
   "eventCounter"}

IsState(g) == g = [f \in Fields |-> g[f]]

(* Two states that differ in the event counter at most.                    *)
Agree(r, g) == \A f \in Fields \ {"eventCounter"} : r[f] = g[f]

(* What a delta leaves alone is what it has found equal.                   *)
LEMMA MembersPatched ==
  ASSUME NEW before, NEW after, after = [f \in DOMAIN after |-> after[f]]
  PROVE  PatchMembers(before, before, after) = after
BY DEF PatchMembers

(* A consumer that agrees with the state before a delta agrees with the    *)
(* state after it.                                                         *)
LEMMA PatchAgrees ==
  ASSUME NEW r, NEW before, NEW after, IsState(after), Agree(r, before),
         after.world = [f \in DOMAIN after.world |-> after.world[f]],
         after.active = [f \in DOMAIN after.active |-> after.active[f]]
  PROVE  IsState(Patch(r, before, after)) /\ Agree(Patch(r, before, after), after)
<1> DEFINE p == PatchMembers(r, before, after)
           q == [p EXCEPT !.world = PatchMembers(r.world, before.world, after.world)]
           s == [q EXCEPT !.active = PatchMembers(r.active, before.active, after.active)]
<1>1. DOMAIN after = Fields
  BY DEF IsState
<1>2. p = [f \in Fields |-> IF before[f] = after[f] THEN r[f] ELSE after[f]]
  BY <1>1 DEF PatchMembers
<1>3. r.world = before.world /\ r.active = before.active
  BY DEF Agree, Fields
<1>4. /\ PatchMembers(r.world, before.world, after.world) = after.world
      /\ PatchMembers(r.active, before.active, after.active) = after.active
  BY <1>3, MembersPatched
<1>5. Patch(r, before, after) = s
  BY DEF Patch
<1>6. s = [f \in Fields |-> IF f = "active" THEN after.active
                            ELSE IF f = "world" THEN after.world ELSE p[f]]
  <2>1. q = [f \in Fields |-> IF f = "world" THEN after.world ELSE p[f]]
    BY <1>2, <1>4
  <2> HIDE DEF q
  <2> QED BY <2>1, <1>4
<1>7. \A f \in Fields \ {"eventCounter"} : p[f] = after[f]
  BY <1>2 DEF Agree
<1>8. IsState(s) /\ Agree(s, after)
  <2> HIDE DEF p, s
  <2> QED BY <1>6, <1>7 DEF IsState, Agree
<1> QED BY <1>5, <1>8

(* The gameplay state has the form of one.                                 *)
WellFormed ==
  /\ IsState(gameplay)
  /\ gameplay.world = [f \in DOMAIN gameplay.world |-> gameplay.world[f]]
  /\ gameplay.active = [f \in DOMAIN gameplay.active |-> gameplay.active[f]]

\* It does in every typed state.
LEMMA TypedIsWellFormed == Typed => WellFormed
<1> SUFFICES ASSUME Typed
             PROVE  WellFormed
  OBVIOUS
<1>1. IsState(gameplay)
  BY DEF IsState, gameplay, Fields
<1>2. gameplay.world = world /\ gameplay.active = active
  BY DEF gameplay
<1>3. world = [f \in DOMAIN world |-> world[f]]
  BY DEF Typed, Worlds
<1>4. active = [f \in DOMAIN active |-> active[f]]
  BY DEF Typed
<1> QED BY <1>1, <1>2, <1>3, <1>4 DEF WellFormed

(* What _commit compares a state with differs in the counter at most.      *)
LEMMA SeesAgree ==
  ASSUME NEW r, IsState(gameplay), Agree(r, gameplay)
  PROVE  Agree(r, CommitSees)
<1> DEFINE n == IF epoch' = epoch THEN eventCounter' ELSE gameplay.eventCounter
<1>1. CommitSees = [f \in Fields |-> IF f = "eventCounter" THEN n ELSE gameplay[f]]
  BY DEF CommitSees, IsState, Fields
<1> QED BY <1>1 DEF Agree

(* The consumer's state, and what it rests on.                             *)
Tracks ==
  /\ Typed /\ MessagesFromThePast /\ EventsAreSpent
  /\ WellFormed
  /\ IsState(replica) /\ Agree(replica, gameplay)

(* Each step of the world, with the message it sends.                      *)
LEMMA TracksStep ==
  ASSUME ClientReusesIds = FALSE, Tracks, WellFormed', [Next]_vars,
         Follow \/ UNCHANGED <<vars, replica>>
  PROVE  Tracks'
<1>1. Typed' /\ MessagesFromThePast' /\ EventsAreSpent'
  BY TypedStep, SpentStep DEF Tracks
<1>2. IsState(gameplay) /\ IsState(gameplay')
  BY DEF Tracks, WellFormed, IsState
<1>3. CASE Follow /\ epoch' # epoch
  <2>1. replica' = gameplay'
    BY <1>3 DEF Follow
  <2> QED BY <1>1, <1>2, <2>1 DEF Tracks, Agree, IsState
<1>4. CASE Follow /\ epoch' = epoch /\ version' # version
  <2>1. replica' = Patch(replica, CommitSees, gameplay')
    BY <1>4 DEF Follow
  <2>2. Agree(replica, CommitSees)
    BY <1>2, SeesAgree DEF Tracks
  <2>3. /\ gameplay'.world = [f \in DOMAIN gameplay'.world |-> gameplay'.world[f]]
        /\ gameplay'.active = [f \in DOMAIN gameplay'.active |-> gameplay'.active[f]]
    BY DEF WellFormed
  <2>4. IsState(replica') /\ Agree(replica', gameplay')
    BY <1>2, <2>1, <2>2, <2>3, PatchAgrees
  <2> QED BY <1>1, <2>4 DEF Tracks, IsState, Agree
<1>5. CASE Follow /\ epoch' = epoch /\ version' = version
  <2>1. replica' = replica /\ gameplay' = gameplay
    BY <1>5, HonestStep DEF Follow, Tracks
  <2> QED BY <1>1, <2>1 DEF Tracks, IsState, Agree
<1>6. CASE UNCHANGED <<vars, replica>>
  <2>1. UNCHANGED <<replica, gameplay>>
    BY <1>6 DEF vars, gameplay, task, scheduler, ledger
  <2> QED BY <1>1, <2>1 DEF Tracks, IsState, Agree
<1> QED BY <1>3, <1>4, <1>5, <1>6

(* Two such states differ in the counter at most.                          *)
LEMMA AgreeingStates ==
  ASSUME NEW r, NEW g, IsState(r), IsState(g), Agree(r, g)
  PROVE  [r EXCEPT !.eventCounter = 0] = [g EXCEPT !.eventCounter = 0]
<1>1. ASSUME NEW h, IsState(h)
      PROVE  [h EXCEPT !.eventCounter = 0]
             = [f \in Fields |-> IF f = "eventCounter" THEN 0 ELSE h[f]]
  BY <1>1 DEF IsState
<1>2. /\ [r EXCEPT !.eventCounter = 0] = [f \in Fields |-> IF f = "eventCounter" THEN 0 ELSE r[f]]
      /\ [g EXCEPT !.eventCounter = 0] = [f \in Fields |-> IF f = "eventCounter" THEN 0 ELSE g[f]]
  BY <1>1
<1> QED BY <1>2 DEF Agree

(* A consumer that takes the snapshot of each epoch and every delta has    *)
(* the world's state but for the event counter.  It needs more than that a *)
(* delta says what a commit has changed: nothing may change without a      *)
(* version, for then the consumer would never hear of it.                  *)
THEOREM ReplicaFollows ==
  ASSUME ClientReusesIds = FALSE
  PROVE  SpecReplica => []ReplicaExactButCounter
<1>1. InitReplica => Tracks
  <2> SUFFICES ASSUME InitReplica
               PROVE  Tracks
    OBVIOUS
  <2>1. Init /\ replica = gameplay
    BY DEF InitReplica, InitFate
  <2>2. Typed /\ WellFormed
    BY <2>1, InitTyped, TypedIsWellFormed
  <2>3. MessagesFromThePast /\ EventsAreSpent
    BY <2>1 DEF Init, MessagesFromThePast, EventsAreSpent
  <2> QED BY <2>1, <2>2, <2>3 DEF Tracks, WellFormed, Agree
<1>2. (Typed => WellFormed)'
  BY TypedIsWellFormed, PTL
<1>3. Tracks /\ [NextReplica]_<<varsWithFate, replica>> => Tracks'
  <2> SUFFICES ASSUME Tracks, [NextReplica]_<<varsWithFate, replica>>
               PROVE  Tracks'
    OBVIOUS
  <2>1. [Next]_vars /\ (Follow \/ UNCHANGED <<vars, replica>>)
    BY DEF NextReplica, NextFate, varsWithFate
  <2>2. Typed'
    BY <2>1, TypedStep DEF Tracks
  <2> QED BY <1>2, <2>1, <2>2, TracksStep
<1>4. Tracks => ReplicaExactButCounter
  BY AgreeingStates DEF Tracks, WellFormed, ReplicaExactButCounter
<1> QED BY <1>1, <1>3, <1>4, PTL DEF SpecReplica
=============================================================================
