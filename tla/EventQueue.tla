----------------------------- MODULE EventQueue -----------------------------
(***************************************************************************)
(* The data structure behind DeterministicScheduler                        *)
(* (bridge/scheduler.py): a heap of events with an index by event id.      *)
(*                                                                         *)
(* The heap and the index always hold the same events (an id is pushed     *)
(* only when the index lacks it, and both lose an event together), and the *)
(* heap order is total because insertion numbers are never reused, so one  *)
(* set of events stands for both.  Cancelling only marks an event: a       *)
(* marked event stays until it is the least one of the heap, which is what *)
(* makes its id unusable in the meantime.                                  *)
(***************************************************************************)
EXTENDS Integers

(* An event: when it is due, its priority class, its insertion number, its *)
(* id and whether it has been cancelled.                                   *)
Event(at, prio, ins, key) ==
  [at |-> at, prio |-> prio, ins |-> ins, key |-> key, cancelled |-> FALSE]

\* A comparison that leaves the priority out.
Before_NoPriority(a, b) ==
  \/ a.at < b.at
  \/ a.at = b.at /\ a.ins < b.ins

(* dataclass(order=True): time, then priority, then insertion number.      *)
Before(a, b) ==
  \/ a.at < b.at
  \/ a.at = b.at /\ a.prio < b.prio
  \/ a.at = b.at /\ a.prio = b.prio /\ a.ins < b.ins

(* pending(): what snapshots, saves and digests show of the scheduler.     *)
Pending(q) == {e \in q : ~e.cancelled}

(* The event pop_next would return.                                        *)
IsFirst(e, q) ==
  /\ e \in Pending(q)
  /\ \A f \in Pending(q) : f = e \/ Before(e, f)

(* _discard_cancelled: cancelled events are dropped from the top of the    *)
(* heap only, so one that lies behind a pending event survives.            *)
Discard(q) ==
  {e \in q : ~e.cancelled \/ \E f \in Pending(q) : Before(f, e)}

(* schedule_at raises ValueError when the id is indexed, cancelled or not, *)
(* with other content.                                                     *)
Refuses(q, at, prio, key) ==
  \E e \in q : e.key = key /\ (e.at # at \/ e.prio # prio \/ e.cancelled)

(* schedule_at when it does not raise: an identical event is returned as   *)
(* it is, a new one is pushed under the next insertion number.             *)
IsNew(q, key) == \A e \in q : e.key # key

Insert(q, ins, at, prio, key) ==
  IF IsNew(q, key) THEN q \cup {Event(at, prio, ins, key)} ELSE q

NextIns(q, ins, key) == IF IsNew(q, key) THEN ins + 1 ELSE ins

\* Only the completion is cancelled, and the expiry still fires.
Cancel_CompleteOnly(q, keys) ==
  {IF e.key \in keys /\ e.prio = 100 THEN [e EXCEPT !.cancelled = TRUE] ELSE e : e \in q}

(* cancel(), for each of a set of ids.                                     *)
Cancel(q, keys) ==
  {IF e.key \in keys THEN [e EXCEPT !.cancelled = TRUE] ELSE e : e \in q}

=============================================================================
