--------------------- MODULE HeadlessWorldAgenda_proofs ---------------------
(***************************************************************************)
(* The ledger and the scheduler agree: every action under way has its      *)
(* events ahead of it, no event outlives its action, and an action whose   *)
(* deadline has come does not complete.                                    *)
(***************************************************************************)
EXTENDS HeadlessWorld_proofs

(* After cancel() the events pending are those of the other ids.           *)
LEMMA PendingCancel ==
  ASSUME NEW q \in SUBSET Events, NEW K
  PROVE  Pending(Cancel(q, K)) = {e \in Pending(q) : e.key \notin K}
<1>1. ASSUME NEW e \in q, e.key \in K
      PROVE  [e EXCEPT !.cancelled = TRUE].cancelled
  BY <1>1 DEF Events
<1> QED BY <1>1 DEF Pending, Cancel

(* _discard_cancelled takes no pending event away.                         *)
LEMMA PendingDiscard ==
  ASSUME NEW q
  PROVE  Pending(Discard(q)) = Pending(q)
BY DEF Pending, Discard

(* The two events of an action are told from all others by their keys.     *)
LEMMA KeysOfActions ==
  /\ \A k \in Keys : k.kind # "world_event" => k.id \in ActionIds /\ k \in KeysOf(k.id)
  /\ \A a, b \in ActionIds : CompleteKey(a) \in KeysOf(b) \/ ExpireKey(a) \in KeysOf(b) => a = b
  /\ \A a \in ActionIds : \A k \in KeysOf(a) : k.kind # "world_event" /\ k.id = a
<1>1. ASSUME NEW k \in Keys, k.kind # "world_event"
      PROVE  k.id \in ActionIds /\ k \in KeysOf(k.id)
  <2>1. k \in [kind : {"action_complete", "action_expire"}, id : ActionIds, event : {None}]
    BY <1>1 DEF Keys
  <2>2. k = CompleteKey(k.id) \/ k = ExpireKey(k.id)
    BY <2>1 DEF CompleteKey, ExpireKey
  <2> QED BY <2>1, <2>2 DEF KeysOf
<1> QED BY <1>1 DEF KeysOf, CompleteKey, ExpireKey

-----------------------------------------------------------------------------
\* ActionsHaveTheirEvents for the active records act, the events live that
\* can still happen and the time t.
Agrees(act, live, t) ==
  /\ \A a \in ActionIds : act[a] # None =>
       /\ \E e \in live : e.key = CompleteKey(a) /\ e.at = act[a].due
       /\ act[a].req.deadline # None =>
            \E e \in live : e.key = ExpireKey(a) /\ e.at = act[a].req.deadline
  /\ \A e \in live :
       /\ e.key.kind # "world_event" => act[e.key.id] # None
       /\ e.at >= t

AgreesEverywhere ==
  /\ Agrees(active, Live, now)
  /\ due # None => target # None
  /\ save # None => Agrees(save.active, Pending(save.events), save.now)

-----------------------------------------------------------------------------
\* Nothing moves in the ledger or on the agenda.
Still ==
  /\ UNCHANGED <<active, queue, now, due, save>>
  /\ target' = target \/ target' # None

\* One action ends, between two steps of advance() or at the event that
\* advance() has in hand.
EndsOne ==
  /\ UNCHANGED <<now, save>>
  /\ due' = None
  /\ due = None => Idle
  /\ target' = target
  /\ \E a \in ActionIds, status \in Outcomes :
       /\ active[a] # None
       /\ End(a, status)
       /\ due = None \/ due.key \in KeysOf(a) \/ due.key.kind = "world_event"
       /\ status = "COMPLETED" => due = None \/ due.key.kind = "action_complete"

\* An event is handled that ends nothing.
DropsEvent ==
  /\ due # None
  /\ UNCHANGED <<active, queue, now, save>>
  /\ due' = None
  /\ due.key.kind = "world_event" \/ active[due.key.id] = None
  /\ target' = target \/ due.key.kind = "world_event"

(* What a step can do to the active records, the events, the clock and the *)
(* save: leave them alone, end one action, drop an event that ends         *)
(* nothing, or be one of the few actions that do more.                     *)
LEMMA AgendaSteps ==
  ASSUME Typed, due # None => target # None, [Next]_vars
  PROVE  \/ Still \/ EndsOne \/ DropsEvent
         \/ \E ev \in WorldEvents, d \in Delays : ScheduleWorldEvent(ev, d)
         \/ \E m \in sent : AcceptAction(m) \/ AcceptActionRaises(m)
         \/ ExportSave \/ LoadSave \/ Reset
         \/ AdvancePop \/ AdvanceEnd
<1>1. Idle => due = None
  BY DEF Idle
<1>2. ASSUME NEW a \in ActionIds, NEW status \in Outcomes \ {"COMPLETED"}, active[a] # None,
             End(a, status), Idle, UNCHANGED <<now, save, due, target>>
      PROVE  EndsOne
  BY <1>1, <1>2 DEF EndsOne
<1>3. ASSUME Idle, CancelTask, UNCHANGED <<save, advance>>
      PROVE  Still \/ EndsOne
  <2>1. CASE \E a \in ActiveOf("npc.qingyan") : End(a, "CANCELLED")
    BY <1>2, <1>3, <2>1 DEF CancelTask, ActiveOf, advance, Outcomes
  <2> QED BY <1>3, <2>1 DEF CancelTask, Still, ledger, advance
<1>4. ASSUME NEW b, SetPaused(b), UNCHANGED <<save, advance>>
      PROVE  Still
  BY <1>4 DEF SetPaused, Still, ledger, scheduler, advance
<1>5. CASE UNCHANGED vars
  BY <1>5 DEF vars, Still
<1>6. CASE Client
  BY <1>6 DEF Client, SendAction, SendActionCancel, SendControl, Send, Still, scheduler, ledger,
              advance
<1>7. ASSUME NEW m \in sent, Deliver(m)
      PROVE  Still \/ EndsOne \/ AcceptAction(m) \/ AcceptActionRaises(m)
  <2>1. CASE RepeatDelivery(m)
    BY <2>1 DEF RepeatDelivery, vars, Still
  <2>2. CASE HandleKnownOrStaleAction(m) \/ HandleUnprocessable(m)
    BY <2>2 DEF HandleUnprocessable, HandleKnownOrStaleAction, Still, scheduler, ledger, advance
  <2>3. CASE RejectAction(m)
    BY <2>3 DEF RejectAction, Still, scheduler, advance
  <2>4. CASE HandleActionCancel(m)
    <3>1. m.id \in ActionIds /\ Idle
      BY <2>4, RequestTypes DEF HandleActionCancel, Receive
    <3>2. CASE active[m.id] # None
      BY <1>2, <2>4, <3>1, <3>2 DEF HandleActionCancel, advance, Outcomes
    <3>3. CASE active[m.id] = None
      BY <2>4, <3>3 DEF HandleActionCancel, Still, ledger, advance
    <3> QED BY <3>2, <3>3
  <2>5. CASE HandleTaskCancelled(m)
    BY <1>3, <2>5 DEF HandleTaskCancelled, Receive
  <2>6. CASE HandleGamePaused(m) \/ HandleGameResumed(m)
    BY <1>4, <2>6 DEF HandleGamePaused, HandleGameResumed
  <2> QED BY <1>7, <2>1, <2>2, <2>3, <2>4, <2>5, <2>6 DEF Deliver
<1>8. ASSUME NEW a \in ActionIds, CompleteAction(a), UNCHANGED <<save, target>>, due' = None,
             \/ due = None /\ Idle
             \/ /\ due # None /\ due.key \in KeysOf(a)
                /\ due.key.kind = "action_complete" /\ due.key.id = a
      PROVE  Still \/ EndsOne \/ DropsEvent
  <2>1. CASE active[a] = None
    BY <1>8, <2>1 DEF CompleteAction, Still, DropsEvent, ledger
  <2>2. CASE active[a] # None
    <3>1. End(a, "FAILED") \/ End(a, "COMPLETED")
      BY <1>8, <2>2 DEF CompleteAction
    <3> QED BY <1>8, <2>2, <3>1 DEF CompleteAction, EndsOne, Outcomes
  <2> QED BY <2>1, <2>2
<1>9. ASSUME NEW ev \in WorldEvents, ApplyWorldEvent(ev), UNCHANGED <<save, target>>, due' = None,
             (due = None /\ Idle) \/ (due # None /\ due.key.kind = "world_event")
      PROVE  Still \/ EndsOne \/ DropsEvent
  <2>1. CASE \E a \in ActiveOf("npc.qingyan") : End(a, "FAILED")
    BY <1>9, <2>1 DEF ApplyWorldEvent, ActiveOf, EndsOne, Outcomes
  <2>2. CASE UNCHANGED <<ledger, queue>>
    BY <1>9, <2>2 DEF ApplyWorldEvent, Still, DropsEvent, ledger
  <2> QED BY <1>9, <2>1, <2>2 DEF ApplyWorldEvent
<1>10. ASSUME Host
       PROVE  \/ Still \/ EndsOne \/ DropsEvent \/ ExportSave \/ LoadSave \/ Reset
              \/ \E ev \in WorldEvents, d \in Delays : ScheduleWorldEvent(ev, d)
  <2>1. CASE HostCancelTask
    BY <1>3, <2>1 DEF HostCancelTask, HostCall
  <2>2. CASE HostPause \/ HostResume
    BY <1>4, <2>2 DEF HostPause, HostResume, HostCall
  <2>3. CASE AssignTask
    BY <2>3 DEF AssignTask, HostCall, Still, ledger, scheduler, advance
  <2>4. CASE \E ev \in WorldEvents : HostWorldEvent(ev)
    BY <1>1, <1>9, <2>4 DEF HostWorldEvent, HostCall, advance
  <2>5. CASE \E a \in ActionIds : CompletionCallback(a)
    BY <1>1, <1>8, <2>5 DEF CompletionCallback, HostCall, advance
  <2> QED BY <1>10, <2>1, <2>2, <2>3, <2>4, <2>5 DEF Host
<1>11. ASSUME Advance
       PROVE  Still \/ EndsOne \/ DropsEvent \/ AdvancePop \/ AdvanceEnd
  <2>1. ASSUME NEW kind, Handled(kind)
        PROVE  /\ UNCHANGED save /\ due' = None /\ due # None /\ due.key.kind = kind
               /\ due.key \in Keys
               /\ kind = "world_event" => due.key.event \in WorldEvents
               /\ kind \in {"action_complete", "action_expire"} =>
                    due.key.id \in ActionIds /\ due.key \in KeysOf(due.key.id)
    <3>1. due \in Events /\ due.key \in Keys
      BY <2>1 DEF Handled, Typed, Events
    <3> QED BY <2>1, <3>1, KeysOfActions DEF Handled, AdvanceFrame, Keys
  <2>2. CASE \E d \in Deltas : AdvanceBegin(d)
    BY <2>2, InputsAreLegal, NoneIsDistinct
    DEF AdvanceBegin, AdvanceFrame, Still, scheduler, ledger, Typed
  <2>3. CASE AdvanceComplete
    BY <1>8, <2>1, <2>3 DEF AdvanceComplete
  <2>4. CASE AdvanceExpire
    <3>1. CASE active[due.key.id] = None
      BY <2>1, <2>4, <3>1 DEF AdvanceExpire, ExpireAction, DropsEvent, ledger
    <3>2. CASE active[due.key.id] # None
      <4>1. End(due.key.id, "EXPIRED") /\ due.key \in KeysOf(due.key.id)
            /\ due.key.id \in ActionIds
        BY <2>1, <2>4, <3>2 DEF AdvanceExpire, ExpireAction
      <4> QED BY <2>1, <2>4, <3>2, <4>1 DEF AdvanceExpire, ExpireAction, EndsOne, Outcomes
    <3> QED BY <3>1, <3>2
  <2>5. CASE AdvanceWorldEvent
    BY <1>9, <2>1, <2>5 DEF AdvanceWorldEvent
  <2>6. CASE AdvanceRaises
    BY <2>1, <2>6 DEF AdvanceRaises, DropsEvent, ledger, scheduler
  <2> QED BY <1>11, <2>2, <2>3, <2>4, <2>5, <2>6 DEF Advance
<1> QED BY <1>5, <1>6, <1>7, <1>10, <1>11 DEF Next

(* While no event is in hand, the events that can still happen are the     *)
(* pending ones.                                                           *)
LEMMA LiveWhenIdle == due = None => Live = Pending(queue)
BY DEF Live

(* Ending an action takes its own events away and nobody else's.           *)
LEMMA AgreesEnd ==
  ASSUME Typed, Agrees(active, Live, now), EndsOne
  PROVE  Agrees(active', Live', now')
<1>1. PICK a \in ActionIds, status \in Outcomes :
        /\ active[a] # None
        /\ End(a, status)
        /\ due = None \/ due.key \in KeysOf(a) \/ due.key.kind = "world_event"
  BY DEF EndsOne
<1>2. /\ active' = [active EXCEPT ![a] = None] /\ now' = now
      /\ Live' = {e \in Pending(queue) : e.key \notin KeysOf(a)}
  BY <1>1, PendingCancel DEF End, EndsOne, Live, Typed
<1>3. ASSUME NEW b \in ActionIds, active'[b] # None
      PROVE  b # a /\ active'[b] = active[b]
  BY <1>2, <1>3 DEF Typed
<1>4. ASSUME NEW b \in ActionIds, b # a, NEW e \in Live,
             e.key = CompleteKey(b) \/ e.key = ExpireKey(b)
      PROVE  e \in Live'
  <2>1. e.key \notin KeysOf(a) /\ e.key.kind # "world_event"
    BY <1>4, KeysOfActions DEF CompleteKey, ExpireKey
  <2> QED BY <1>1, <1>2, <2>1 DEF Live
<1>5. ASSUME NEW e \in Live'
      PROVE  /\ e.key.kind # "world_event" => active'[e.key.id] # None
             /\ e.at >= now'
  <2>1. e \in Live /\ e.key \notin KeysOf(a) /\ e.key \in Keys
    BY <1>2, <1>5 DEF Live, Pending, Typed, Events
  <2>2. e.key.kind # "world_event" => e.key.id \in ActionIds /\ e.key.id # a
    BY <2>1, KeysOfActions
  <2> QED BY <1>2, <2>1, <2>2 DEF Agrees, Typed
<1>6. ASSUME NEW b \in ActionIds, active'[b] # None
      PROVE  /\ \E e \in Live' : e.key = CompleteKey(b) /\ e.at = active'[b].due
             /\ active'[b].req.deadline # None =>
                  \E e \in Live' : e.key = ExpireKey(b) /\ e.at = active'[b].req.deadline
  <2>1. b # a /\ active'[b] = active[b]
    BY <1>3, <1>6
  <2>2. \E e \in Live : e.key = CompleteKey(b) /\ e.at = active[b].due
    BY <1>6, <2>1 DEF Agrees
  <2>3. active[b].req.deadline # None =>
          \E e \in Live : e.key = ExpireKey(b) /\ e.at = active[b].req.deadline
    BY <1>6, <2>1 DEF Agrees
  <2> QED BY <1>4, <2>1, <2>2, <2>3
<1> HIDE DEF Live
<1> QED BY <1>5, <1>6 DEF Agrees

(* Starting an action puts its events on the agenda.                       *)
LEMMA AgreesAccept ==
  ASSUME Typed, MessagesFromThePast, EventsAreSpent, Agrees(active, Live, now), due = None,
         NEW m \in sent, AcceptAction(m)
  PROVE  /\ Agrees(active', Live', now')
         /\ UNCHANGED <<now, due, target, save>>
         /\ \A e \in Pending(queue') : e.key.kind = "action_expire" =>
              e \in Pending(queue) \/ e.at > now
<1>1. /\ Accepting(m) /\ active' = [active EXCEPT ![m.id] = Started(m)]
      /\ UNCHANGED <<now, due, target, save>>
  BY DEF AcceptAction, advance
<1>2. /\ m.id \in ActionIds /\ now + Duration(m.cmd) \in Nat /\ now + Duration(m.cmd) >= now
      /\ Started(m).due = now + Duration(m.cmd)
      /\ Started(m).req.deadline = m.deadline
      /\ Started(m) # None
      /\ m.deadline # None => m.deadline \in Nat /\ m.deadline > now
  <2>1. Started(m).req = Content(m) /\ Started(m) \in Records
    BY <1>1, StartedType
  <2>2. Content(m).deadline = m.deadline
    BY <1>1, RequestTypes DEF Accepting, Receive, Content, ActionRequests
  <2> QED BY <1>1, <2>1, <2>2, StartedType, NoneIsDistinct DEF Typed
<1>3. active[m.id] = None
  BY <1>1 DEF Accepting, Known
<1> DEFINE ec(n) == Event(now + Duration(m.cmd), 100, n, CompleteKey(m.id))
           ee(n) == Event(m.deadline, 10, n, ExpireKey(m.id))
<1>4. IsNew(queue, CompleteKey(m.id)) /\ IsNew(queue, ExpireKey(m.id))
  BY <1>1, NeverRefused DEF IsNew
<1>5. WithCompletion(m) = queue \cup {ec(nextIns)}
  BY <1>4 DEF WithCompletion, Insert
<1>6. IsNew(WithCompletion(m), ExpireKey(m.id))
  BY <1>4, <1>5 DEF IsNew, Event, CompleteKey, ExpireKey
<1>7. PICK n : queue' = IF m.deadline = None THEN WithCompletion(m)
                        ELSE Insert(WithCompletion(m), n, m.deadline, 10, ExpireKey(m.id))
  BY DEF AcceptAction
<1>8. queue' = IF m.deadline = None THEN queue \cup {ec(nextIns)}
               ELSE queue \cup {ec(nextIns), ee(n)}
  BY <1>5, <1>6, <1>7 DEF Insert
<1>9. \A i : /\ ec(i).key = CompleteKey(m.id) /\ ec(i).at = now + Duration(m.cmd)
             /\ ~ec(i).cancelled /\ ec(i).key.kind = "action_complete" /\ ec(i).key.id = m.id
             /\ ee(i).key = ExpireKey(m.id) /\ ee(i).at = m.deadline
             /\ ~ee(i).cancelled /\ ee(i).key.kind = "action_expire" /\ ee(i).key.id = m.id
  BY DEF Event, CompleteKey, ExpireKey
<1> HIDE DEF ec, ee
<1>10. Live = Pending(queue) /\ Live' = Pending(queue')
  BY <1>1 DEF Live
<1>11. Pending(queue') = IF m.deadline = None THEN Pending(queue) \cup {ec(nextIns)}
                         ELSE Pending(queue) \cup {ec(nextIns), ee(n)}
  BY <1>8, <1>9 DEF Pending
<1>12. ASSUME NEW b \in ActionIds, active'[b] # None
       PROVE  /\ \E e \in Live' : e.key = CompleteKey(b) /\ e.at = active'[b].due
              /\ active'[b].req.deadline # None =>
                   \E e \in Live' : e.key = ExpireKey(b) /\ e.at = active'[b].req.deadline
  <2>1. CASE b = m.id
    <3>1. active'[b] = Started(m)
      BY <1>1, <2>1 DEF Typed
    <3> QED BY <1>2, <1>9, <1>10, <1>11, <2>1, <3>1
  <2>2. CASE b # m.id
    <3>1. active'[b] = active[b] /\ active[b] # None
      BY <1>1, <1>12, <2>2 DEF Typed
    <3>2. Live \subseteq Live'
      BY <1>10, <1>11
    <3> QED BY <3>1, <3>2 DEF Agrees
  <2> QED BY <2>1, <2>2
<1>13. ASSUME NEW e \in Live'
       PROVE  /\ e.key.kind # "world_event" => active'[e.key.id] # None
              /\ e.at >= now'
  <2>1. CASE e \in Live
    <3>1. e.key.kind # "world_event" => e.key.id \in ActionIds
      BY <1>10, <2>1, KeysOfActions DEF Pending, Typed, Events
    <3> QED BY <1>1, <1>2, <2>1, <3>1 DEF Agrees, Typed
  <2>2. CASE e \notin Live
    <3>1. e.key.id = m.id /\ e.at >= now
      BY <1>2, <1>9, <1>10, <1>11, <1>13, <2>2 DEF Typed
    <3> QED BY <1>1, <1>2, <3>1 DEF Typed
  <2> QED BY <2>1, <2>2
<1>14. Agrees(active', Live', now')
  <2> HIDE DEF Live
  <2> QED BY <1>12, <1>13 DEF Agrees
<1>15. \A e \in Pending(queue') : e.key.kind = "action_expire" =>
         e \in Pending(queue) \/ e.at > now
  BY <1>2, <1>9, <1>11
<1> QED BY <1>1, <1>14, <1>15

(* advance() takes the earliest event, so that the clock passes none.      *)
LEMMA AgreesPop ==
  ASSUME Typed, Agrees(active, Live, now), AdvancePop
  PROVE  /\ Agrees(active', Live', now')
         /\ due' # None /\ target' # None /\ target' = target /\ due' \in Pending(queue)
         /\ Pending(queue') \subseteq Pending(queue)
         /\ now' = due'.at
         /\ \A f \in Pending(queue') : Before(due', f)
         /\ UNCHANGED save
<1>1. PICK e \in queue : /\ IsFirst(e, queue) /\ due' = e
                         /\ queue' = Discard(queue) \ {e} /\ now' = e.at
  BY DEF AdvancePop
<1>2. e \in Pending(queue) /\ \A f \in Pending(queue) : f = e \/ Before(e, f)
  BY <1>1 DEF IsFirst
<1>3. Pending(queue') = Pending(queue) \ {e}
  BY <1>1, PendingDiscard DEF Pending
<1>4. e # None
  <2>1. e \in Events
    BY <1>1 DEF Typed
  <2> QED BY <2>1, NoneIsDistinct
<1>5. Live = Pending(queue) /\ Live' = Pending(queue)
  BY <1>1, <1>2, <1>3, <1>4 DEF AdvancePop, Live
<1>6. \A f \in Pending(queue) : f.at >= e.at
  BY <1>2 DEF Before, Typed, Events, Pending
<1>7. Agrees(active', Live', now')
  <2>1. active' = active
    BY DEF AdvancePop, ledger
  <2> HIDE DEF Live
  <2> QED BY <1>1, <1>5, <1>6, <2>1 DEF Agrees
<1> QED BY <1>1, <1>2, <1>3, <1>4, <1>7 DEF AdvancePop, AdvanceFrame

(* advance() ends with every event left lying beyond the time it went to.  *)
LEMMA AgreesAdvanceEnd ==
  ASSUME Typed, Agrees(active, Live, now), AdvanceEnd
  PROVE  /\ Agrees(active', Live', now')
         /\ due' = None /\ UNCHANGED save
         /\ \A e \in Pending(queue') : e.at > now'
<1>1. /\ due = None /\ due' = None /\ active' = active /\ UNCHANGED save /\ now' = target
      /\ Pending(queue') = Pending(queue)
      /\ \A e \in Pending(queue) : e.at > target
  BY PendingDiscard DEF AdvanceEnd, AdvanceFrame, ledger
<1>2. Live' = Live /\ Live = Pending(queue)
  BY <1>1 DEF Live
<1>3. \A e \in Pending(queue) : e.at >= now'
  BY <1>1 DEF AdvanceEnd, Typed, Pending, Events
<1> HIDE DEF Live
<1> QED BY <1>1, <1>2, <1>3 DEF Agrees

(* A scheduled world event lies ahead and belongs to no action.            *)
LEMMA AgreesSchedule ==
  ASSUME Typed, Agrees(active, Live, now), due = None,
         NEW ev \in WorldEvents, NEW d \in Delays, ScheduleWorldEvent(ev, d)
  PROVE  /\ Agrees(active', Live', now')
         /\ UNCHANGED <<now, due, target, save>>
         /\ \A e \in Pending(queue') : e.key.kind = "action_expire" => e \in Pending(queue)
<1> DEFINE e0 == Event(now + d, 50, nextIns, WorldKey(eventCounter', ev))
<1>1. /\ UNCHANGED <<now, due, target, save, active>>
      /\ queue' = queue \/ queue' = queue \cup {e0}
  BY DEF ScheduleWorldEvent, HostCall, ledger, advance, Insert
<1>2. e0.key.kind = "world_event" /\ e0.at = now + d /\ e0.at >= now
  BY InputsAreLegal DEF Event, WorldKey, Typed
<1> HIDE DEF e0
<1>3. /\ Live = Pending(queue) /\ Live' = Pending(queue')
      /\ Pending(queue) \subseteq Pending(queue') /\ Pending(queue') \subseteq Pending(queue) \cup {e0}
  BY <1>1 DEF Live, Pending
<1>4. Agrees(active', Live', now')
  <2> HIDE DEF Live
  <2>1. Live \subseteq Live' /\ Live' \subseteq Live \cup {e0}
    BY <1>3
  <2> QED BY <1>1, <1>2, <2>1 DEF Agrees
<1> QED BY <1>1, <1>2, <1>3, <1>4

(* Only a world event is handled without ending an action: an action's     *)
(* event in hand finds its action under way.                               *)
LEMMA AgreesDrop ==
  ASSUME Typed, Agrees(active, Live, now), DropsEvent
  PROVE  /\ Agrees(active', Live', now')
         /\ due.key.kind = "world_event"
<1>1. due \in Live /\ Live' = Pending(queue) /\ Live' \subseteq Live
  BY DEF DropsEvent, Live
<1>2. due.key.kind = "world_event"
  BY <1>1 DEF DropsEvent, Agrees
<1>3. \A a : due.key # CompleteKey(a) /\ due.key # ExpireKey(a)
  BY <1>2 DEF CompleteKey, ExpireKey
<1>4. \A e \in Live : e = due \/ e \in Live'
  BY <1>1 DEF Live
<1>5. active' = active /\ now' = now
  BY DEF DropsEvent
<1> HIDE DEF Live
<1>6. Agrees(active, Live', now)
  BY <1>1, <1>3, <1>4 DEF Agrees
<1> QED BY <1>2, <1>5, <1>6

\* What the proof knows of messages, events and saves at once.
AgendaInv ==
  /\ Typed
  /\ MessagesFromThePast
  /\ EventsAreSpent
  /\ AgreesEverywhere

(* Ledger and scheduler go on agreeing, in the world and in the save.      *)
LEMMA AgreesStep ==
  ASSUME AgendaInv, ClientReusesIds = FALSE, [Next]_vars
  PROVE  AgreesEverywhere'
<1> USE DEF AgendaInv
<1>1. /\ Agrees(active, Live, now) /\ (due # None => target # None)
      /\ save # None => Agrees(save.active, Pending(save.events), save.now)
  BY DEF AgreesEverywhere
<1>2. CASE Still
  <2>1. UNCHANGED <<active, now, save, due, queue>> /\ (target' = target \/ target' # None)
    BY <1>2 DEF Still
  <2>2. Live' = Live
    BY <2>1 DEF Live
  <2> HIDE DEF Live
  <2> QED BY <1>1, <2>1, <2>2 DEF AgreesEverywhere
<1>3. CASE EndsOne
  BY <1>1, <1>3, AgreesEnd DEF EndsOne, AgreesEverywhere
<1>4. CASE DropsEvent
  BY <1>1, <1>4, AgreesDrop DEF DropsEvent, AgreesEverywhere
<1>5. ASSUME NEW ev \in WorldEvents, NEW d \in Delays, ScheduleWorldEvent(ev, d)
      PROVE  AgreesEverywhere'
  <2>1. due = None
    BY <1>1, <1>5 DEF ScheduleWorldEvent, HostCall, Idle
  <2> QED BY <1>1, <1>5, <2>1, AgreesSchedule DEF AgreesEverywhere
<1>6. ASSUME NEW m \in sent, AcceptAction(m)
      PROVE  AgreesEverywhere'
  <2>1. due = None
    BY <1>1, <1>6 DEF AcceptAction, Accepting, Receive, Idle
  <2> QED BY <1>1, <1>6, <2>1, AgreesAccept DEF AgreesEverywhere
<1>7. CASE ExportSave
  <2>1. /\ UNCHANGED <<active, now, due, target, queue>> /\ due = None
        /\ save'.active = active /\ save'.events = Pending(queue) /\ save'.now = now
    BY <1>1, <1>7 DEF ExportSave, Idle, gameplay, scheduler, ledger, advance
  <2>2. Live' = Live /\ Pending(save'.events) = Live
    BY <2>1 DEF Live, Pending
  <2> HIDE DEF Live
  <2> QED BY <1>1, <2>1, <2>2 DEF AgreesEverywhere
<1>8. CASE LoadSave
  <2>1. /\ due' = None /\ UNCHANGED save /\ save # None
        /\ active' = save.active /\ now' = save.now /\ queue' = save.events
    BY <1>1, <1>8 DEF LoadSave, Restore, Idle, advance
  <2>2. Live' = Pending(save.events)
    BY <2>1 DEF Live
  <2> HIDE DEF Live
  <2> QED BY <1>1, <2>1, <2>2 DEF AgreesEverywhere
<1>9. CASE Reset
  <2>1. /\ due' = None /\ UNCHANGED save /\ queue' = {}
        /\ \A a \in ActionIds : active'[a] = None
    BY <1>1, <1>9 DEF Reset, Restore, FreshGameplay, Idle, advance
  <2>2. Live' = {}
    BY <2>1 DEF Live, Pending
  <2> HIDE DEF Live
  <2> QED BY <1>1, <2>1, <2>2 DEF AgreesEverywhere, Agrees
<1>10. CASE AdvancePop
  BY <1>1, <1>10, AgreesPop DEF AgreesEverywhere
<1>11. CASE AdvanceEnd
  BY <1>1, <1>11, AgreesAdvanceEnd DEF AgreesEverywhere
<1> QED BY <1>1, <1>2, <1>3, <1>4, <1>5, <1>6, <1>7, <1>8, <1>9, <1>10, <1>11,
           AgendaSteps, NoRaise

(* They agree to begin with, for nothing is under way or scheduled.        *)
LEMMA AgendaInit == Init => AgendaInv
<1> SUFFICES ASSUME Init
             PROVE  AgendaInv
  OBVIOUS
<1>1. Live = {} /\ \A a \in ActionIds : active[a] = None
  BY DEF Init, Live, Pending
<1>2. AgreesEverywhere
  BY <1>1 DEF Init, AgreesEverywhere, Agrees
<1> QED BY <1>2, InitTyped DEF Init, AgendaInv, MessagesFromThePast, EventsAreSpent

(* The conjunction is inductive when clients do not reuse ids.             *)
LEMMA AgendaStep ==
  ASSUME ClientReusesIds = FALSE, AgendaInv, [Next]_vars
  PROVE  AgendaInv'
BY TypedStep, SpentStep, AgreesStep DEF AgendaInv

(* With unique ids the ledger and the scheduler always agree: an action    *)
(* under way can still complete or expire, and an event of an action that  *)
(* has ended is never pending, through every cancellation, interruption,   *)
(* task change, save and load.                                             *)
THEOREM LedgerAndSchedulerAgree ==
  ASSUME ClientReusesIds = FALSE
  PROVE  Spec => []ActionsHaveTheirEvents
<1>1. AgendaInv => ActionsHaveTheirEvents
  BY DEF AgendaInv, AgreesEverywhere, Agrees, ActionsHaveTheirEvents
<1> QED BY <1>1, AgendaInit, AgendaStep, PTL DEF Spec

-----------------------------------------------------------------------------
(* Deadlines.                                                              *)

\* The priorities under which start_mutation and schedule_world_event
\* schedule: at one time expiries come first and completions last.
RightPriority(e) ==
  /\ e.key.kind = "action_expire" => e.prio = 10
  /\ e.key.kind = "world_event" => e.prio = 50
  /\ e.key.kind = "action_complete" => e.prio = 100

\* No expiry of q is due at time t.
NoneDue(q, t) == \A e \in Pending(q) : e.key.kind = "action_expire" => e.at > t

PrioritiesRight ==
  /\ \A e \in queue : RightPriority(e)
  /\ save # None => \A e \in save.events : RightPriority(e)

\* Outside advance(), and while advance() has anything but an expiry in
\* hand, every deadline lies ahead.
DeadlinesAhead ==
  /\ target = None \/ (due # None /\ due.key.kind # "action_expire") => NoneDue(queue, now)
  /\ save # None => NoneDue(save.events, save.now)

(* Events keep the priorities of their kinds, those that a load brings     *)
(* back included.                                                          *)
LEMMA PriorityStep ==
  ASSUME AgendaInv, PrioritiesRight, ClientReusesIds = FALSE, [Next]_vars
  PROVE  PrioritiesRight'
<1> USE DEF AgendaInv
<1>1. ASSUME UNCHANGED <<queue, save>>
      PROVE  PrioritiesRight'
  BY <1>1 DEF PrioritiesRight
<1>2. CASE Still \/ DropsEvent
  BY <1>1, <1>2 DEF Still, DropsEvent
<1>3. CASE EndsOne
  <2>1. PICK a \in ActionIds : queue' = Cancel(queue, KeysOf(a))
    BY <1>3 DEF EndsOne, End
  <2>2. ASSUME NEW e \in queue
        PROVE  RightPriority([e EXCEPT !.cancelled = TRUE])
    <3>1. e \in Events /\ RightPriority(e)
      BY <2>2 DEF PrioritiesRight, Typed
    <3> QED BY <3>1 DEF RightPriority, Events
  <2>3. \A e \in queue' : RightPriority(e)
    BY <2>1, <2>2 DEF Cancel, PrioritiesRight
  <2> QED BY <1>3, <2>3 DEF EndsOne, PrioritiesRight
<1>4. ASSUME NEW ev \in WorldEvents, NEW d \in Delays, ScheduleWorldEvent(ev, d)
      PROVE  PrioritiesRight'
  <2>1. RightPriority(Event(now + d, 50, nextIns, WorldKey(eventCounter', ev)))
    BY DEF RightPriority, Event, WorldKey
  <2> QED BY <1>4, <2>1 DEF ScheduleWorldEvent, HostCall, Insert, PrioritiesRight
<1>5. ASSUME NEW m \in sent, AcceptAction(m)
      PROVE  PrioritiesRight'
  <2>1. \A t, n : /\ RightPriority(Event(t, 100, n, CompleteKey(m.id)))
                  /\ RightPriority(Event(t, 10, n, ExpireKey(m.id)))
    BY DEF RightPriority, Event, CompleteKey, ExpireKey
  <2>2. \A e \in WithCompletion(m) : RightPriority(e)
    BY <2>1 DEF WithCompletion, Insert, PrioritiesRight
  <2>3. \A e \in queue' : RightPriority(e)
    BY <1>5, <2>1, <2>2 DEF AcceptAction, Insert
  <2> QED BY <1>5, <2>3 DEF AcceptAction, PrioritiesRight
<1>6. CASE ExportSave
  BY <1>6 DEF ExportSave, PrioritiesRight, gameplay, scheduler, Pending
<1>7. CASE LoadSave \/ Reset
  BY <1>7 DEF LoadSave, Reset, Restore, FreshGameplay, PrioritiesRight
<1>8. CASE AdvancePop \/ AdvanceEnd
  BY <1>8 DEF AdvancePop, AdvanceEnd, AdvanceFrame, Discard, PrioritiesRight
<1> QED BY <1>2, <1>3, <1>4, <1>5, <1>6, <1>7, <1>8, AgendaSteps, NoRaise DEF AgreesEverywhere

(* No deadline is passed: advance() takes an expiry before anything else   *)
(* that is due at its time.                                                *)
LEMMA DeadlineStep ==
  ASSUME AgendaInv, PrioritiesRight, DeadlinesAhead, ClientReusesIds = FALSE, [Next]_vars
  PROVE  DeadlinesAhead'
<1> USE DEF AgendaInv
<1>0. due # None => target # None
  BY DEF AgreesEverywhere
<1>1. CASE Still
  BY <1>0, <1>1 DEF Still, DeadlinesAhead
<1>2. CASE EndsOne
  <2>1. PICK a \in ActionIds : queue' = Cancel(queue, KeysOf(a))
    BY <1>2 DEF EndsOne, End
  <2>2. Pending(queue') \subseteq Pending(queue)
    BY <2>1, PendingCancel DEF Typed
  <2> QED BY <1>2, <2>2 DEF EndsOne, DeadlinesAhead, NoneDue
<1>3. CASE DropsEvent
  <2>1. due.key.kind = "world_event"
    BY <1>3, AgreesDrop DEF AgreesEverywhere
  <2> QED BY <1>3, <2>1 DEF DropsEvent, DeadlinesAhead
<1>4. ASSUME NEW ev \in WorldEvents, NEW d \in Delays, ScheduleWorldEvent(ev, d)
      PROVE  DeadlinesAhead'
  <2>1. due = None /\ target = None
    BY <1>0, <1>4 DEF ScheduleWorldEvent, HostCall, Idle
  <2> QED BY <1>4, <2>1, AgreesSchedule DEF AgreesEverywhere, DeadlinesAhead, NoneDue
<1>5. ASSUME NEW m \in sent, AcceptAction(m)
      PROVE  DeadlinesAhead'
  <2>1. due = None /\ target = None
    BY <1>0, <1>5 DEF AcceptAction, Accepting, Receive, Idle
  <2> QED BY <1>5, <2>1, AgreesAccept DEF AgreesEverywhere, DeadlinesAhead, NoneDue
<1>6. CASE ExportSave
  <2>1. /\ UNCHANGED <<now, due, target, queue>> /\ target = None
        /\ save'.events = Pending(queue) /\ save'.now = now
    BY <1>6 DEF ExportSave, Idle, gameplay, scheduler, advance
  <2> QED BY <2>1 DEF DeadlinesAhead, NoneDue, Pending
<1>7. CASE LoadSave
  BY <1>7 DEF LoadSave, Restore, advance, DeadlinesAhead
<1>8. CASE Reset
  BY <1>8 DEF Reset, Restore, FreshGameplay, advance, DeadlinesAhead, NoneDue, Pending
<1>9. CASE AdvancePop
  <2>1. /\ target' # None /\ UNCHANGED save /\ due' \in Pending(queue) /\ now' = due'.at
        /\ Pending(queue') \subseteq Pending(queue)
        /\ \A f \in Pending(queue') : Before(due', f)
    BY <1>9, AgreesPop DEF AgreesEverywhere
  <2>2. ASSUME due'.key.kind # "action_expire", NEW f \in Pending(queue'),
               f.key.kind = "action_expire"
        PROVE  f.at > now'
    <3>1. due' \in Events /\ f \in Events /\ RightPriority(due') /\ RightPriority(f)
      BY <2>1, <2>2 DEF Pending, Typed, PrioritiesRight
    <3>2. f.prio = 10 /\ due'.prio \in {50, 100}
      BY <2>2, <3>1 DEF RightPriority, Events, Keys
    <3>3. due'.at < f.at
      BY <2>1, <2>2, <3>1, <3>2 DEF Before, Events
    <3> QED BY <2>1, <3>1, <3>3 DEF Events
  <2> QED BY <2>1, <2>2 DEF DeadlinesAhead, NoneDue
<1>10. CASE AdvanceEnd
  BY <1>10, AgreesAdvanceEnd DEF AgreesEverywhere, DeadlinesAhead, NoneDue
<1> QED BY <1>0, <1>1, <1>2, <1>3, <1>4, <1>5, <1>6, <1>7, <1>8, <1>9, <1>10, AgendaSteps, NoRaise

(* An action that completes is the one some step ends as COMPLETED.        *)
LEMMA CompletedEnds ==
  ASSUME AgendaInv, ClientReusesIds = FALSE, [Next]_vars, NEW a \in ActionIds,
         Ended(a, "COMPLETED")
  PROVE  /\ due = None => target = None
         /\ due = None \/ due.key.kind = "action_complete"
<1> USE DEF AgendaInv
<1>1. epoch' = epoch /\ active[a] # None /\ active'[a] = None
      /\ terminal'[Len(terminal')].status = "COMPLETED"
  BY DEF Ended
<1>2. ASSUME NEW m \in sent, AcceptAction(m)
      PROVE  FALSE
  <2>1. active' = [active EXCEPT ![m.id] = Started(m)] /\ Started(m) # None
    BY <1>2, StartedType, NoneIsDistinct DEF AcceptAction
  <2> QED BY <1>1, <2>1 DEF Typed
<1>3. ~(Still \/ DropsEvent \/ ExportSave \/ LoadSave \/ Reset \/ AdvancePop \/ AdvanceEnd)
  BY <1>1 DEF Still, DropsEvent, ExportSave, LoadSave, Reset, Restore, AdvancePop, AdvanceEnd,
              ledger, Typed
<1>4. ~\E ev \in WorldEvents, d \in Delays : ScheduleWorldEvent(ev, d)
  BY <1>1 DEF ScheduleWorldEvent, ledger
<1>5. EndsOne
  BY <1>2, <1>3, <1>4, AgendaSteps, NoRaise DEF AgreesEverywhere
<1>6. PICK b \in ActionIds, status \in Outcomes :
        /\ active[b] # None /\ End(b, status)
        /\ status = "COMPLETED" => due = None \/ due.key.kind = "action_complete"
  BY <1>5 DEF EndsOne
<1>7. status = "COMPLETED"
  <2>1. [req |-> active[b].req, status |-> status] \in TerminalRecords
        /\ terminal \in Seq(TerminalRecords)
    BY <1>6, RecordTypes DEF TerminalRecords, Typed
  <2>2. terminal'[Len(terminal')] = [req |-> active[b].req, status |-> status]
    BY <1>6, <2>1, KeepAppend, LimitsArePositive DEF End, RememberTerminal
  <2> QED BY <1>1, <2>2
<1> QED BY <1>5, <1>6, <1>7 DEF EndsOne, Idle

(* An action completes before its deadline or not at all.  When both fall  *)
(* on one time the expiry goes first (priority 10 against 100), and a      *)
(* completion callback of the host finds every deadline ahead of it.       *)
THEOREM DeadlinesAreKept ==
  ASSUME ClientReusesIds = FALSE
  PROVE  Spec => DeadlineBeatsCompletion
<1> DEFINE Inv == AgendaInv /\ PrioritiesRight /\ DeadlinesAhead
<1>1. Init => Inv
  BY AgendaInit DEF Init, PrioritiesRight, DeadlinesAhead, NoneDue, Pending
<1>2. Inv /\ [Next]_vars => Inv'
  BY AgendaStep, PriorityStep, DeadlineStep
<1>3. ASSUME Inv, [Next]_vars, NEW a \in ActionIds, Ended(a, "COMPLETED"),
             active[a].req.deadline # None
      PROVE  now < active[a].req.deadline
  <2>1. active[a] # None
    BY <1>3 DEF Ended
  <2>2. PICK e \in Live : e.key = ExpireKey(a) /\ e.at = active[a].req.deadline
    BY <1>3, <2>1 DEF AgendaInv, AgreesEverywhere, Agrees
  <2>3. e.key.kind = "action_expire"
    BY <2>2 DEF ExpireKey
  <2>4. e \in Pending(queue) /\ NoneDue(queue, now)
    BY <1>3, <2>2, <2>3, CompletedEnds DEF Live, DeadlinesAhead
  <2>5. e.at > now
    BY <2>3, <2>4 DEF NoneDue
  <2>6. e.at \in Nat /\ now \in Nat
    BY <1>3, <2>4 DEF AgendaInv, Typed, Pending, Events
  <2> QED BY <2>2, <2>5, <2>6
<1>4. Inv /\ [Next]_vars =>
        [\A a \in ActionIds : Ended(a, "COMPLETED") =>
           active[a].req.deadline = None \/ now < active[a].req.deadline]_vars
  BY <1>3
<1> QED BY <1>1, <1>2, <1>4, PTL DEF Spec, DeadlineBeatsCompletion
=============================================================================
