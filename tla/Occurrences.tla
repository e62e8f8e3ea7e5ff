----------------------------- MODULE Occurrences -----------------------------
(***************************************************************************)
(* What the memory kernel rests on (memory/kernel.py): the log of          *)
(* canonical events, the observations actors make of them, what a claim    *)
(* may reveal, and the history trace every operation appends to.           *)
(*                                                                         *)
(* A claim keeps its subject, predicate, object and polarity and, of its   *)
(* qualifiers, the declared capacity; the claims that are compared share   *)
(* their time and recognition scopes.  An id is the number its counter     *)
(* gave it, an observation's id its place in the log.                      *)
(***************************************************************************)
EXTENDS Integers, Sequences, FiniteSets

CONSTANTS
  None,             \* Python's None
  Unknown,          \* UNKNOWN, as an object or a polarity
  Claims,           \* the claims actors come across
  SingleValued,     \* _LOGICALLY_SINGLE_VALUED_PREDICATES
  Drafts,           \* the observations actors try to record
  DerivedFamilies,  \* the source families whose name says they are derived
  EventTypes,       \* the types of the events of the instance
  Payloads,         \* of {"canonical", "not canonical"}: what events carry
  MaxEvents,        \* bound: calls of commit_event
  MaxObservations   \* bound: observations

VARIABLES
  events,        \* _events: records of an id and a type
  eventIds,      \* _id_counters["event"]
  observations,  \* _observations
  trace          \* _history_trace

occurrenceVars == <<events, eventIds, observations>>

-----------------------------------------------------------------------------
(* Claims.                                                                 *)

ValueVisible(observed, visible) == observed \in {visible, Unknown}

(* _claim_within_visibility: the claim says no more than the visible one.  *)
Within(observed, visible) ==
  /\ observed.subject = visible.subject
  /\ observed.predicate = visible.predicate
  /\ ValueVisible(observed.object, visible.object)
  /\ ValueVisible(observed.polarity, visible.polarity)
  /\ observed.slots \in {visible.slots, None}

(* _claims_logically_exclusive                                             *)
LogicallyExclusive(left, right) ==
  /\ left.subject = right.subject
  /\ left.predicate = right.predicate
  /\ \/ /\ left.polarity # right.polarity
        /\ Unknown \notin {left.polarity, right.polarity}
        /\ left.object = right.object
     \/ /\ left.predicate \in SingleValued
        /\ left.polarity = "AFFIRM" /\ right.polarity = "AFFIRM"
        /\ left.object # right.object

-----------------------------------------------------------------------------
(* Bounded sequences and maps.                                             *)

Elements(s) == {s[i] : i \in DOMAIN s}

Newest(s, limit) == SubSeq(s, Len(s) - (IF Len(s) < limit THEN Len(s) ELSE limit) + 1, Len(s))
Oldest_AllButOne(s, limit) == SubSeq(s, 1, Len(s) - limit - 1)
Oldest(s, limit) == SubSeq(s, 1, Len(s) - limit)

Put(f, x, value) == [y \in DOMAIN f \cup {x} |-> IF y = x THEN value ELSE f[y]]
Drop(f, S) == [y \in DOMAIN f \ S |-> f[y]]

(* What a sequence has at some indexes, in order.                          *)
Keep(s, I) ==
  LET upTo[n \in 0..Len(s)] ==
        IF n = 0 THEN <<>>
        ELSE IF n \in I THEN Append(upTo[n - 1], s[n]) ELSE upTo[n - 1]
  IN  upTo[Len(s)]

-----------------------------------------------------------------------------
(* The trace.                                                              *)

Records(kind) == Keep(trace, {i \in DOMAIN trace : trace[i].kind = kind})

(* What _from_history_trace makes of the records of events and             *)
(* observations: the logs and the counter their ids give.                  *)
RebuiltEvents ==
  LET rs == Records("CANONICAL_EVENT_COMMITTED") IN [i \in DOMAIN rs |-> rs[i].event]
RebuiltObservations ==
  LET rs == Records("OBSERVATION_RECORDED") IN [i \in DOMAIN rs |-> rs[i].observation]
RebuiltEventIds ==
  IF RebuiltEvents = <<>> THEN 0 ELSE RebuiltEvents[Len(RebuiltEvents)].id

-----------------------------------------------------------------------------
(* Operations.                                                             *)

OccurrencesInit ==
  /\ events = <<>>
  /\ eventIds = 0
  /\ observations = <<>>
  /\ trace = <<>>

(* commit_event takes the id before it computes the digest, which raises   *)
(* for a payload that is no canonical JSON.                                *)
CommitEvent(type, payload) ==
  /\ eventIds < MaxEvents
  /\ eventIds' = eventIds + 1
  /\ IF payload = "canonical"
       THEN LET e == [id |-> eventIds + 1, type |-> type] IN
              /\ events' = Append(events, e)
              /\ trace' = Append(trace,
                            [kind |-> "CANONICAL_EVENT_COMMITTED", event |-> e])
       ELSE UNCHANGED <<events, trace>>
  /\ UNCHANGED observations

Typed(ids, type) == \E i \in DOMAIN events : events[i].id \in ids /\ events[i].type = type

(* The checks of record_observation, in any order: each of them raises.    *)
DraftValid(d, visible) ==
  /\ d.confidence \in 0..1000
  /\ d.family # None
  /\ d.events \subseteq {events[i].id : i \in DOMAIN events}
  /\ d.sources \subseteq DOMAIN observations
  /\ d.events # {} \/ d.sources # {} \/ d.evidence # None
  /\ d.kind = "HEARD" =>
       /\ d.actor # None
       /\ d.events = {} \/ Typed(d.events, "SPEECH")
  /\ d.kind = "INFERRED" =>
       Cardinality(d.events) + Cardinality(d.sources) >= 2 \/ d.rule # None
  /\ d.kind = "MANIFESTED" => d.ack # None /\ d.family \in DerivedFamilies
  /\ Within(d.claim, visible)

RecordObservation(d, visible) ==
  /\ Len(observations) < MaxObservations
  /\ DraftValid(d, visible)
  /\ observations' = Append(observations, d)
  /\ trace' = Append(trace, [kind |-> "OBSERVATION_RECORDED", observation |-> d])
  /\ UNCHANGED <<events, eventIds>>

OccurrencesNext ==
  \/ \E type \in EventTypes, payload \in Payloads : CommitEvent(type, payload)
  \/ \E d \in Drafts, visible \in Claims : RecordObservation(d, visible)
=============================================================================
