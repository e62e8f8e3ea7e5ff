------------------------------ MODULE NameLedger ------------------------------
(***************************************************************************)
(* The name-record half of MemoryVersioningKernel (memory/kernel.py): the  *)
(* records a player drafts on the evidence of observations, their          *)
(* acknowledgement by the world, the connections it establishes and        *)
(* supersedes, typed conflicts and their mitigations, manifestations, the  *)
(* bounded live indexes with their archive in the trace, and the replay    *)
(* that load_state performs.                                               *)
(*                                                                         *)
(* A memory cited by a record stands for the observations behind it, which *)
(* is all create_name_record takes from it.  Ticks and the wording of      *)
(* audits are left out.  An acknowledgement creates one connection, so     *)
(* that both carry the same number.                                        *)
(***************************************************************************)
EXTENDS Occurrences, SequencesExt

CONSTANTS
  RecordDrafts,    \* the records players try to create
  Manifestations,  \* what acknowledgements may change: from paths to values
  RecentLimit,     \* recent_acknowledgement_cache
  AuditLimit,      \* manifestation_audit_window
  MaxRecords,      \* bound: name records
  MaxProjections   \* bound: system projections

ASSUME RecentLimitIsPositive == RecentLimit \in Nat \ {0} /\ AuditLimit \in Nat
ASSUME CapacitiesAreNumbers ==
  \A d \in RecordDrafts : d.claim.predicate = "CLAIMS_CAPACITY_SLOT_IN" => d.claim.slots \in Int
\* Paths are numbered in the order of their names.
ASSUME ChangesAreOrdered ==
  \A changes \in Manifestations : DOMAIN changes \subseteq Int /\ IsFiniteSet(DOMAIN changes)

VARIABLES
  records,        \* _name_records: ids in order
  recordOf,       \* _name_records_by_id
  connections,    \* _connection_versions
  active,         \* _active_connection_version_ids
  conflicts,      \* _conflicts
  acks,           \* _acknowledgements
  manifestation,  \* _manifestation_state
  audit,          \* _manifestation_audit: ids
  recordIds, ackIds, lineageIds, conflictIds, deltaIds  \* _id_counters

ledgerIds == <<recordIds, ackIds, lineageIds, conflictIds, deltaIds>>
ledgerVars == <<records, recordOf, connections, active, conflicts, acks, manifestation, audit>>
vars == <<occurrenceVars, trace, ledgerVars, ledgerIds>>

-----------------------------------------------------------------------------
(* Helpers.                                                                *)

(* What of a sequence is in a set, or outside it, in order.                *)
Inside(s, S) == Keep(s, {i \in DOMAIN s : s[i] \in S})
Outside(s, S) == Keep(s, {i \in DOMAIN s : s[i] \notin S})

(* The numbers of a set, upwards.                                          *)
InOrder(S) == CHOOSE s \in [1..Cardinality(S) -> S] : \A i, j \in DOMAIN s : i < j => s[i] < s[j]

(* The connection of a number among some.                                  *)
Among(cs, id) == cs[CHOOSE i \in DOMAIN cs : cs[i].id = id]
Connection(id) == Among(connections, id)

-----------------------------------------------------------------------------
(* Records and acknowledgements by id: live, or read from the trace.       *)

AckFromTrace(id) ==
  trace[CHOOSE i \in DOMAIN trace :
          trace[i].kind = "WORLD_ACKNOWLEDGEMENT_COMMITTED" /\ trace[i].ack.id = id].ack

\* As the trace record of the creation has it.
RecordFromTrace_AsCreated(id) ==
  trace[CHOOSE i \in DOMAIN trace :
          trace[i].kind = "NAME_RECORD_CREATED" /\ trace[i].id = id].record

RecordFromTrace(id) ==
  LET made  == trace[CHOOSE i \in DOMAIN trace :
                       trace[i].kind = "NAME_RECORD_CREATED" /\ trace[i].id = id].record
      acked == \E i \in DOMAIN trace : /\ trace[i].kind = "WORLD_ACKNOWLEDGEMENT_COMMITTED"
                                       /\ trace[i].ack.record = id
  IN  IF acked THEN [made EXCEPT !.status = "ACKNOWLEDGED"] ELSE made

Record(id) == IF id \in DOMAIN recordOf THEN recordOf[id] ELSE RecordFromTrace(id)
Ack(id) == IF \E i \in DOMAIN acks : acks[i].id = id THEN Among(acks, id) ELSE AckFromTrace(id)

(* _acknowledgement_is_same_or_descendant: an acknowledgement descends     *)
(* from those its record names as parents; unknown ones have none.         *)
ParentsOf(S) == UNION {Record(Ack(a).record).parents : a \in S \cap 1..ackIds}
WithParents(S) == S \cup ParentsOf(S)

SameOrAncestors_OneGeneration(id) == {id}

SameOrAncestors(id) ==
  LET up[n \in 0..ackIds] == IF n = 0 THEN {id} ELSE WithParents(up[n - 1]) IN up[ackIds]

-----------------------------------------------------------------------------
(* create_name_record.                                                     *)

Level2 == {"PROTECTED_VISITOR_OF", "EXCLUSIVE_OCCUPANT_OF", "SOLE_OFFICE_HOLDER_OF",
           "CLAIMS_CAPACITY_SLOT_IN"}
Level3 == {"CONTINUES_OLD_RESIDENT_CONNECTION", "CURRENT_PERSON_USES_NAME_XIAOMAN",
           "NAME_RECOGNIZED_HISTORY_UNRESOLVED"}
Level1 == {"SELF_IDENTIFIED_AS", "HAS_OLD_CONNECTION_TO", "HAS_NO_CLEAR_MEMORY_OF", "WAS_KNOCKED"}

RequiredLevel(predicate) ==
  IF predicate \in Level1 THEN 1 ELSE IF predicate \in Level2 THEN 2 ELSE 3

WellFormed(d) ==
  /\ d.claim.object \notin {None, Unknown}
  /\ d.scope = "HALL_LOCAL"
  /\ d.claim.predicate \in Level1 \cup Level2 \cup Level3
  /\ RequiredLevel(d.claim.predicate) <= d.level /\ d.level < 4
  /\ ~ d.retroactive

(* Evidence that the world itself produced does not prove what it came of. *)
Families(S) == {observations[o].family : o \in S}

SelfProving(d) ==
  \E o \in d.sources :
    /\ observations[o].ack # None
    /\ SameOrAncestors(observations[o].ack) \cap d.parents # {}

Supported(d) ==
  /\ d.sources # {} /\ d.sources \subseteq DOMAIN observations
  /\ d.families # <<>> /\ IsInjective(d.families)
  /\ Families(d.sources) \subseteq Elements(d.families)
  /\ ~ SelfProving(d)

Consented(d) ==
  /\ d.claim.predicate \in Level2 \cup Level3 => d.claim.subject \in d.consenting
  /\ d.claim.predicate = "CONTINUES_OLD_RESIDENT_CONNECTION" =>
       /\ \E o \in d.sources : observations[o].claim.predicate
            \in {"BODY_CONTINUITY_SUPPORTED", "CURRENT_BODY_MATCHES_OLD_RESIDENT"}
       /\ Cardinality(Families({o \in d.sources : observations[o].ack = None})) >= 2

CreateNameRecord(d) ==
  /\ recordIds < MaxRecords
  /\ WellFormed(d) /\ Supported(d) /\ Consented(d)
  /\ LET record == [claim |-> d.claim, sources |-> d.sources, parents |-> d.parents,
                    plans |-> d.plans, status |-> IF d.confirmed THEN "CONFIRMED" ELSE "DRAFT"]
     IN  /\ recordOf' = Put(recordOf, recordIds + 1, record)
         /\ trace' = Append(trace, [kind |-> "NAME_RECORD_CREATED", id |-> recordIds + 1,
                                    record |-> record])
  /\ records' = Append(records, recordIds + 1)
  /\ recordIds' = recordIds + 1
  /\ UNCHANGED <<occurrenceVars, connections, active, conflicts, acks, manifestation, audit,
                 ackIds, lineageIds, conflictIds, deltaIds>>

-----------------------------------------------------------------------------
(* Conflicts.                                                              *)

Holds(claim, predicate) == claim.predicate = predicate

Rivals(candidate, existing, predicate) ==
  /\ Holds(candidate, predicate) /\ Holds(existing, predicate)
  /\ candidate.object = existing.object
  /\ candidate.subject # existing.subject

(* _classify_connection_conflict.  Its last case, of capacities, is never  *)
(* reached: _prospective_conflicts counts the claims of one resource.      *)
Clash(candidate, existing) ==
  CASE LogicallyExclusive(candidate, existing) -> "LOGICAL_EXCLUSION"
    [] Rivals(candidate, existing, "EXCLUSIVE_OCCUPANT_OF") -> "PHYSICAL_EXCLUSIVITY"
    [] Rivals(candidate, existing, "SOLE_OFFICE_HOLDER_OF") -> "INSTITUTIONAL_EXCLUSIVITY"
    [] OTHER -> None

Mitigations(type) ==
  {"PLAN_PROSPECTIVE_REPLACEMENT"} \cup
  CASE type = "LOGICAL_EXCLUSION" -> {}
    [] type = "PHYSICAL_EXCLUSIVITY" -> {"PLAN_REASSIGN_RESOURCE"}
    [] type = "INSTITUTIONAL_EXCLUSIVITY" -> {"PLAN_TRANSFER_OFFICE"}
    [] type = "DECLARED_CAPACITY_COMPETITION" -> {"PLAN_EXPAND_CAPACITY", "PLAN_RELEASE_CAPACITY"}

Superseding_NoReassign ==
  {"PLAN_PROSPECTIVE_REPLACEMENT", "PLAN_TRANSFER_OFFICE", "PLAN_RELEASE_CAPACITY"}

Superseding == {"PLAN_PROSPECTIVE_REPLACEMENT", "PLAN_REASSIGN_RESOURCE",
                "PLAN_TRANSFER_OFFICE", "PLAN_RELEASE_CAPACITY"}

SameCapacity(claim, other) ==
  /\ Holds(claim, "CLAIMS_CAPACITY_SLOT_IN") /\ Holds(other, "CLAIMS_CAPACITY_SLOT_IN")
  /\ claim.object = other.object

(* _prospective_conflicts: one for every active connection that clashes,   *)
(* then one, with the oldest claimant, for a capacity that is exceeded.    *)
ProspectiveConflicts(claim) ==
  LET equals  == {c \in Elements(active) : SameCapacity(claim, Connection(c).claim)}
      others  == {c \in Elements(active) : Clash(claim, Connection(c).claim) # None} \ equals
      pool    == Inside(active, equals)
      rivals  == Inside(active, others)
      crowd   == {Connection(c).claim.subject : c \in Elements(pool)} \cup {claim.subject}
  IN  [i \in DOMAIN rivals |->
         [type |-> Clash(claim, Connection(rivals[i]).claim), with |-> rivals[i]]] \o
      IF Holds(claim, "CLAIMS_CAPACITY_SLOT_IN") /\ Cardinality(crowd) > claim.slots
        THEN <<[type |-> "DECLARED_CAPACITY_COMPETITION", with |-> Head(pool)]>>
        ELSE <<>>

-----------------------------------------------------------------------------
(* acknowledge_name_record.                                                *)

Evictions(kind, ids) ==
  [i \in DOMAIN ids |-> [kind |-> "LIVE_INDEX_EVICTED", object |-> kind, id |-> ids[i]]]

(* _compact_record_connection_indexes, on the connections, the active ones *)
(* and the records that the acknowledgement leaves.                        *)
\* Takes the connections that were active before the acknowledgement.
IdleConnections_Stale(cs, act) ==
  LET ids == [i \in DOMAIN cs |-> cs[i].id] IN Oldest(Outside(ids, Elements(active)), RecentLimit)

IdleConnections(cs, act) ==
  LET ids == [i \in DOMAIN cs |-> cs[i].id] IN Oldest(Outside(ids, Elements(act)), RecentLimit)
\* Forgets the records that active connections rest on.
IdleRecords_Unprotected(cs, act, byId) ==
  LET protected == {r \in DOMAIN byId : byId[r].status \in {"DRAFT", "CONFIRMED"}}
  IN  Oldest(Outside(records, protected), RecentLimit)

IdleRecords(cs, act, byId) ==
  LET protected == {Among(cs, c).record : c \in Elements(act)} \cup
                   {r \in DOMAIN byId : byId[r].status \in {"DRAFT", "CONFIRMED"}}
  IN  Oldest(Outside(records, protected), RecentLimit)

Deltas(changes) ==
  LET paths == InOrder(DOMAIN changes) IN
  [i \in DOMAIN paths |-> [id |-> deltaIds + i, path |-> paths[i], after |-> changes[paths[i]]]]

\* Lets a record be acknowledged again.
Acknowledgeable_Again(record) ==
  /\ record.status # "DRAFT"
  /\ Holds(record.claim, "CLAIMS_CAPACITY_SLOT_IN") => record.claim.slots >= 1

Acknowledgeable(record) ==
  /\ record.status = "CONFIRMED"
  /\ Holds(record.claim, "CLAIMS_CAPACITY_SLOT_IN") => record.claim.slots >= 1

(* The number of the connection that replaces some: one more than theirs.  *)
NextNumber_Count(superseded) == Len(superseded) + 1

NextNumber(superseded) ==
  LET numbers == {Connection(c).no : c \in Elements(superseded)} IN
  IF numbers = {} THEN 1 ELSE 1 + CHOOSE n \in numbers : \A m \in numbers : m <= n

(* The connections once those of some numbers are superseded.              *)
Retired(cs, ids) ==
  [i \in DOMAIN cs |-> IF cs[i].id \in ids THEN [cs[i] EXCEPT !.status = "SUPERSEDED"] ELSE cs[i]]

(* One transaction: everything is checked first, and one trace record      *)
(* tells of the acknowledgement, its connection, conflicts and changes.    *)
Acknowledge(id, changes) ==
  LET record     == recordOf[id]
      clashes    == ProspectiveConflicts(record.claim)
      superseded == IF record.plans \cap Superseding = {} THEN <<>>
                    ELSE [i \in DOMAIN clashes |-> clashes[i].with]
      ackId      == ackIds + 1
      noted      == [i \in DOMAIN clashes |-> [id |-> conflictIds + i, type |-> clashes[i].type]]
      deltas     == Deltas(changes)
      connection ==
        [id |-> ackId, claim |-> record.claim, record |-> id, status |-> "ACTIVE",
         lineage |-> IF superseded = <<>> THEN lineageIds + 1 ELSE Connection(Head(superseded)).lineage,
         no |-> NextNumber(superseded)]
      ack        == [id |-> ackId, record |-> id, superseded |-> superseded,
                     conflicts |-> [i \in DOMAIN noted |-> noted[i].id]]
      allCons    == Append(Retired(connections, Elements(superseded)), connection)
      allActive  == Append(Outside(active, Elements(superseded)), ackId)
      byId       == [recordOf EXCEPT ![id].status = "ACKNOWLEDGED"]
      allAcks    == Append(acks, ack)
      noteAll    == conflicts \o noted
      oldAcks    == Oldest(allAcks, RecentLimit)
      oldCons    == IdleConnections(allCons, allActive)
      oldRecords == IdleRecords(allCons, allActive, byId)
      oldNotes   == Oldest(noteAll, RecentLimit)
      Ids(s)     == [i \in DOMAIN s |-> s[i].id]
  IN
  /\ id \in DOMAIN recordOf /\ Acknowledgeable(record)
  /\ \A i \in DOMAIN clashes : record.plans \cap Mitigations(clashes[i].type) # {}
  /\ connections' = Outside(allCons, {c \in Elements(allCons) : c.id \in Elements(oldCons)})
  /\ active' = allActive
  /\ recordOf' = Drop(byId, Elements(oldRecords))
  /\ records' = Outside(records, Elements(oldRecords))
  /\ conflicts' = Newest(noteAll, RecentLimit)
  /\ acks' = Newest(allAcks, RecentLimit)
  /\ manifestation' = [p \in DOMAIN manifestation \cup DOMAIN changes |->
                         IF p \in DOMAIN changes THEN changes[p] ELSE manifestation[p]]
  /\ audit' = Newest(audit \o Ids(deltas), AuditLimit)
  /\ ackIds' = ackId
  /\ lineageIds' = IF superseded = <<>> THEN lineageIds + 1 ELSE lineageIds
  /\ conflictIds' = conflictIds + Len(noted)
  /\ deltaIds' = deltaIds + Len(deltas)
  /\ trace' = trace \o
       <<[kind |-> "WORLD_ACKNOWLEDGEMENT_COMMITTED", ack |-> ack, connection |-> connection,
          conflicts |-> noted, deltas |-> deltas, manifestation |-> manifestation']>> \o
       Evictions("WORLD_ACKNOWLEDGEMENT", Ids(oldAcks)) \o
       Evictions("CONNECTION_VERSION", oldCons) \o
       Evictions("NAME_RECORD", oldRecords) \o
       Evictions("MEMORY_CONFLICT", Ids(oldNotes))
  /\ UNCHANGED <<occurrenceVars, recordIds>>

(* _apply_system_projection                                                *)
ApplySystemProjection(changes) ==
  /\ Cardinality({i \in DOMAIN trace : trace[i].kind = "SYSTEM_PROJECTION_COMMITTED"}) < MaxProjections
  /\ DOMAIN changes # {}
  /\ manifestation' = [p \in DOMAIN manifestation \cup DOMAIN changes |->
                         IF p \in DOMAIN changes THEN changes[p] ELSE manifestation[p]]
  /\ trace' = Append(trace, [kind |-> "SYSTEM_PROJECTION_COMMITTED",
                             manifestation |-> manifestation'])
  /\ UNCHANGED <<occurrenceVars, records, recordOf, connections, active, conflicts, acks,
                 audit, ledgerIds>>

-----------------------------------------------------------------------------
(* Saving and loading.                                                     *)

Blank ==
  [records |-> <<>>, recordOf |-> <<>>, connections |-> <<>>, active |-> <<>>,
   conflicts |-> <<>>, acks |-> <<>>, manifestation |-> <<>>, deltas |-> <<>>]

\* Leaves the connections that are superseded as they are.
ReplayAck_OnlyAdds(k, r) ==
  [k EXCEPT
    !.connections = Append(@, r.connection),
    !.active = Append(Outside(@, Elements(r.ack.superseded)), r.connection.id),
    !.conflicts = @ \o r.conflicts,
    !.recordOf = Put(@, r.ack.record, [k.recordOf[r.ack.record] EXCEPT !.status = "ACKNOWLEDGED"]),
    !.deltas = @ \o r.deltas,
    !.manifestation = r.manifestation,
    !.acks = Newest(Append(@, r.ack), RecentLimit)]

ReplayAck(k, r) ==
  LET superseded == Elements(r.ack.superseded) IN
  [k EXCEPT
    !.connections = Append(Retired(@, superseded), r.connection),
    !.active = Append(Outside(@, superseded), r.connection.id),
    !.conflicts = @ \o r.conflicts,
    !.recordOf = Put(@, r.ack.record, [k.recordOf[r.ack.record] EXCEPT !.status = "ACKNOWLEDGED"]),
    !.deltas = @ \o r.deltas,
    !.manifestation = r.manifestation,
    !.acks = Newest(Append(@, r.ack), RecentLimit)]

Unlisted(s, id) == Keep(s, {i \in DOMAIN s : s[i].id # id})

(* An evicted acknowledgement has left the bounded cache by itself.        *)
ReplayEviction(k, r) ==
  CASE r.object = "CONNECTION_VERSION" -> [k EXCEPT !.connections = Unlisted(@, r.id)]
    [] r.object = "NAME_RECORD" ->
         [k EXCEPT !.recordOf = Drop(@, {r.id}), !.records = Outside(@, {r.id})]
    [] r.object = "MEMORY_CONFLICT" -> [k EXCEPT !.conflicts = Unlisted(@, r.id)]
    [] OTHER -> k

(* One turn of the loop of _from_history_trace.                            *)
Replayed(k, r) ==
  CASE r.kind = "NAME_RECORD_CREATED" ->
         [k EXCEPT !.records = Append(@, r.id), !.recordOf = Put(@, r.id, r.record)]
    [] r.kind = "WORLD_ACKNOWLEDGEMENT_COMMITTED" -> ReplayAck(k, r)
    [] r.kind = "LIVE_INDEX_EVICTED" -> ReplayEviction(k, r)
    [] r.kind = "SYSTEM_PROJECTION_COMMITTED" -> [k EXCEPT !.manifestation = r.manifestation]
    [] OTHER -> k

Replay ==
  LET upTo[n \in 0..Len(trace)] ==
        IF n = 0 THEN Blank ELSE Replayed(upTo[n - 1], trace[n])
  IN  upTo[Len(trace)]

(* load_state accepts what save_state has written: the replay of the trace *)
(* gives the saved indexes and the counters follow from the ids in it.     *)
ReplayReproduces ==
  LET k    == Replay
      made == Records("WORLD_ACKNOWLEDGEMENT_COMMITTED")
  IN
  /\ <<k.records, k.recordOf, k.connections, k.active, k.conflicts, k.acks, k.manifestation>>
       = <<records, recordOf, connections, active, conflicts, acks, manifestation>>
  /\ audit = Newest([i \in DOMAIN k.deltas |-> k.deltas[i].id], AuditLimit)
  /\ Len(k.deltas) = deltaIds
  /\ Len(Records("NAME_RECORD_CREATED")) = recordIds
  /\ Len(made) = ackIds
  /\ {made[i].connection.lineage : i \in DOMAIN made} = 1..lineageIds
  /\ UNION {Elements(made[i].ack.conflicts) : i \in DOMAIN made} = 1..conflictIds
  /\ RebuiltEvents = events /\ RebuiltObservations = observations /\ RebuiltEventIds = eventIds

-----------------------------------------------------------------------------
Init ==
  /\ OccurrencesInit
  /\ records = <<>> /\ recordOf = <<>> /\ connections = <<>> /\ active = <<>>
  /\ conflicts = <<>> /\ acks = <<>> /\ manifestation = <<>> /\ audit = <<>>
  /\ recordIds = 0 /\ ackIds = 0 /\ lineageIds = 0 /\ conflictIds = 0 /\ deltaIds = 0

(* Observations and records name acknowledgements that have happened.      *)
Occur ==
  /\ \/ \E type \in EventTypes, payload \in Payloads : CommitEvent(type, payload)
     \/ \E d \in Drafts, visible \in Claims :
          d.ack \in {None} \cup 1..ackIds /\ RecordObservation(d, visible)
  /\ UNCHANGED <<ledgerVars, ledgerIds>>

Next ==
  \/ Occur
  \/ \E d \in RecordDrafts : d.parents \subseteq 1..ackIds /\ CreateNameRecord(d)
  \/ \E id \in DOMAIN recordOf, changes \in Manifestations : Acknowledge(id, changes)
  \/ \E changes \in Manifestations : ApplySystemProjection(changes)

Spec == Init /\ [][Next]_vars

-----------------------------------------------------------------------------
(* Properties.                                                             *)

Established == Records("WORLD_ACKNOWLEDGEMENT_COMMITTED")

(* The live indexes hold what they index: every active connection is live  *)
(* and rests on a live, acknowledged record, and what is live is numbered  *)
(* by the counters.  A connection compacted while it is active would make  *)
(* every later acknowledgement fail.                                       *)
TypeOK ==
  /\ DOMAIN recordOf = Elements(records) /\ Elements(records) \subseteq 1..recordIds
  /\ \A r \in DOMAIN recordOf : recordOf[r].status \in {"DRAFT", "CONFIRMED", "ACKNOWLEDGED"}
  /\ \A i \in DOMAIN connections : /\ connections[i].id \in 1..ackIds
                                   /\ connections[i].lineage \in 1..lineageIds
                                   /\ connections[i].status \in {"ACTIVE", "SUPERSEDED"}
  /\ \A c \in Elements(active) :
       /\ \E i \in DOMAIN connections : connections[i].id = c /\ connections[i].status = "ACTIVE"
       /\ Connection(c).record \in DOMAIN recordOf
       /\ recordOf[Connection(c).record].status = "ACKNOWLEDGED"

(* The active connections are, in order, the ones the trace says were      *)
(* acknowledged and not superseded since; a record is acknowledged when,   *)
(* and only when, one acknowledgement, and its connection, says so.        *)
ActiveIsUnsuperseded ==
  LET made       == Established
      superseded == UNION {Elements(made[i].ack.superseded) : i \in DOMAIN made}
  IN
  /\ active = Outside([i \in DOMAIN made |-> made[i].connection.id], superseded)
  /\ \A r \in 1..recordIds :
       Cardinality({i \in DOMAIN made : made[i].ack.record = r})
         = IF Record(r).status = "ACKNOWLEDGED" THEN 1 ELSE 0

(* Whatever is acknowledged in whatever order, no two active connections   *)
(* contradict each other or hold one room or one office for two subjects.  *)
NoOpenClash ==
  \A c, d \in Elements(active) :
    \/ c = d
    \/ SameCapacity(Connection(c).claim, Connection(d).claim)
    \/ Clash(Connection(c).claim, Connection(d).claim) = None

(* Over all its history a lineage numbers its connections upwards, and at  *)
(* most its last one is active.                                            *)
LineagesLinear ==
  LET made == Established IN
  \A i, j \in DOMAIN made :
    LET a == made[i].connection
        b == made[j].connection
    IN  i < j /\ a.lineage = b.lineage => a.no < b.no /\ a.id \notin Elements(active)

(* get_name_record gives one answer, whether the record is live or only in *)
(* the trace.                                                              *)
RecordLookupIsHistory == \A r \in 1..recordIds : Record(r) = RecordFromTrace(r)

(* The live indexes stay bounded, except for what is active and for the    *)
(* records that wait for an acknowledgement.                               *)
LiveLedgerBounded ==
  /\ Cardinality({i \in DOMAIN connections : connections[i].id \notin Elements(active)}) <= RecentLimit
  /\ Cardinality({r \in DOMAIN recordOf : /\ recordOf[r].status = "ACKNOWLEDGED"
                                          /\ \A c \in Elements(active) : Connection(c).record # r})
       <= RecentLimit
  /\ Len(conflicts) <= RecentLimit /\ Len(acks) <= RecentLimit /\ Len(audit) <= AuditLimit

(* No record rests on evidence that the world produced because of what the *)
(* record builds on: of an observation derived from an acknowledgement, no *)
(* parent of the record is that one or an ancestor of it.  The ancestors   *)
(* are here the least set closed under parents, as the trace has them.     *)
NoSelfProof ==
  \A r \in 1..recordIds : \A o \in RecordFromTrace(r).sources, p \in RecordFromTrace(r).parents :
    observations[o].ack # None =>
      \E S \in SUBSET (1..ackIds \ {p}) :
        /\ observations[o].ack \in S
        /\ \A a \in S : RecordFromTrace(AckFromTrace(a).record).parents \subseteq S
=============================================================================
