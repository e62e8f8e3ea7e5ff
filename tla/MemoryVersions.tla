---------------------------- MODULE MemoryVersions ----------------------------
(***************************************************************************)
(* The memory half of MemoryVersioningKernel (memory/kernel.py): immutable *)
(* memory versions in lineages, their states, forgetting, rewriting and    *)
(* contradictions, the bounded live indexes whose oldest entries move to   *)
(* the archive (the trace alone), the cache of query results, and the      *)
(* replay that load_state performs.                                        *)
(*                                                                         *)
(* Ticks, reason codes and the names of transitions are left out: a state  *)
(* is told from the next by its revision.                                  *)
(***************************************************************************)
EXTENDS Occurrences

CONSTANTS
  Actors,           \* the owners of memories
  SourceKinds,      \* the source kinds memories are created with
  Impressions,      \* initial clarity and emotional residue of a memory
  Changes,          \* decay, penalty and bonus of a transition
  LineageLimit,     \* active_memory_lineages_per_actor
  VersionLimit,     \* active_memory_versions_per_lineage
  ForgettingLimit,  \* recent_forgetting_events_cache
  BeliefLimit,      \* belief_query_cache_per_actor
  Liberties,        \* calls the kernel accepts and its own callers never make
  MaxVersions,      \* bound: memory versions
  MaxSources,       \* bound: observations behind a version
  MaxForgettings    \* bound: transitions of memories

ASSUME LimitsArePositive ==
  /\ LineageLimit \in Nat \ {0} /\ VersionLimit \in Nat \ {0}
  /\ ForgettingLimit \in Nat /\ BeliefLimit \in Nat

Modes == {"FACT_ONLY", "FACT_AND_EMOTION", "REWRITE_WITH_RESIDUE", "SUPPRESS", "UNSUPPRESS"}

VARIABLES
  versions,         \* _memory_versions
  states,           \* _memory_states
  lineageVersions,  \* _lineage_versions
  lineageOwner,     \* _lineage_owner
  actorLineages,    \* _actor_lineages
  forgetting,       \* _forgetting_events
  references,       \* _recent_archive_references
  archivedCount,    \* _archive_reference_total
  sourceOf,         \* _trace_sequences_by_object
  versionIds,       \* _id_counters["memory-version"]
  lineageIds,       \* _id_counters["memory-lineage"]
  forgettingIds,    \* _id_counters["forgetting-event"]
  beliefs           \* _belief_query_cache, the least recently used first

idVars == <<versionIds, lineageIds, forgettingIds>>
indexVars ==
  <<versions, states, lineageVersions, lineageOwner, actorLineages, forgetting,
    references, archivedCount, sourceOf>>
vars == <<occurrenceVars, trace, idVars, indexVars, beliefs>>

-----------------------------------------------------------------------------
(* Bounded sequences and maps.                                             *)

At(f, x, default) == IF x \in DOMAIN f THEN f[x] ELSE default

(* Of some query results those of certain versions, and the others.        *)
Of(results, ids) == Keep(results, {i \in DOMAIN results : results[i].id \in ids})
NotOf(results, ids) == Keep(results, {i \in DOMAIN results : results[i].id \notin ids})

Joined(ss) ==
  LET upTo[n \in 0..Len(ss)] == IF n = 0 THEN <<>> ELSE upTo[n - 1] \o ss[n]
  IN  upTo[Len(ss)]

-----------------------------------------------------------------------------
(* States of a memory version.                                             *)

Residues == [intensity : 1..1000, decay : 0..1000, independent : BOOLEAN]
States ==
  [revision : Nat, access : {"CLEAR", "FADED", "FORGOTTEN", "SUPPRESSED", "SEALED"},
   stage : {"ACTIVE", "REWRITTEN", "CONTRADICTED"}, clarity : 0..1000, residue : SUBSET Residues]

ASSUME NoneIsNoState == None \notin States
ASSUME ImpressionsAreInRange ==
  \A i \in Impressions : i.clarity \in 0..1000 /\ i.residue \subseteq Residues
ASSUME ChangesAreNatural ==
  \A c \in Changes : c.decay \in Nat /\ c.penalty \in Nat /\ c.bonus \in Nat

ClampMilli_TopOnly(value) == IF value > 1000 THEN 1000 ELSE value

ClampMilli(value) == IF value < 0 THEN 0 ELSE IF value > 1000 THEN 1000 ELSE value

AccessForClarity(clarity) ==
  IF clarity >= 700 THEN "CLEAR" ELSE IF clarity >= 300 THEN "FADED" ELSE "FORGOTTEN"

InitialState(impression) ==
  [revision |-> 1, access |-> AccessForClarity(impression.clarity), stage |-> "ACTIVE",
   clarity |-> impression.clarity, residue |-> impression.residue]

(* The next revision, in another version_state.                            *)
Moved(s, stage) == [s EXCEPT !.revision = @ + 1, !.stage = stage]

NextAccess(s, mode, clarity) ==
  IF mode = "SUPPRESS" THEN "SUPPRESSED"
  ELSE IF mode # "UNSUPPRESS" /\ s.access \in {"SUPPRESSED", "SEALED"} THEN s.access
  ELSE AccessForClarity(clarity)

Weaker(item) == [item EXCEPT !.intensity = IF @ > item.decay THEN @ - item.decay ELSE 0]

NextResidue(s, mode, access) ==
  CASE mode = "FACT_AND_EMOTION" -> {}
    [] mode \in {"FACT_ONLY", "REWRITE_WITH_RESIDUE"} ->
         {w \in {Weaker(item) : item \in {r \in s.residue : r.independent \/ access # "FORGOTTEN"}} :
            w.intensity > 0}
    [] OTHER -> s.residue

Transitioned(s, mode, change) ==
  LET clarity == ClampMilli(s.clarity - change.decay - change.penalty + change.bonus)
      access == NextAccess(s, mode, clarity)
  IN  [s EXCEPT !.revision = @ + 1, !.clarity = clarity, !.access = access,
                !.residue = NextResidue(s, mode, access)]

-----------------------------------------------------------------------------
(* Versions and states by id: live, or read from the trace.                *)

Created == 1..versionIds

VersionFromTrace(id) ==
  trace[CHOOSE i \in DOMAIN trace :
          trace[i].kind = "MEMORY_VERSION_CREATED" /\ trace[i].id = id].version

(* Forgets that rewriting has closed a version.                            *)
StateAfter_NoRewriting(s, r, id) ==
  CASE r.kind \in {"MEMORY_VERSION_CREATED", "FORGETTING_EVENT_APPLIED"} -> IF r.id = id THEN r.state ELSE s
    [] r.kind = "MEMORY_CONTRADICTION_REGISTERED" /\ s # None ->
         IF id \in r.ids THEN Moved(s, "CONTRADICTED") ELSE s
    [] OTHER -> s

(* One turn of the loop of _archived_memory_state_from_trace.              *)
StateAfter(s, r, id) ==
  CASE r.kind = "MEMORY_VERSION_CREATED" -> IF r.id = id THEN r.state ELSE s
    [] r.kind = "MEMORY_VERSION_REWRITTEN" /\ s # None ->
         IF r.parent = id THEN Moved(s, "REWRITTEN") ELSE s
    [] r.kind = "FORGETTING_EVENT_APPLIED" /\ s # None -> IF r.id = id THEN r.state ELSE s
    [] r.kind = "MEMORY_CONTRADICTION_REGISTERED" /\ s # None ->
         IF id \in r.ids THEN Moved(s, "CONTRADICTED") ELSE s
    [] OTHER -> s

(* The state of a version after each record of a trace.                    *)
StatesAlong(t, id) ==
  LET upTo[n \in 0..Len(t)] == IF n = 0 THEN None ELSE StateAfter(upTo[n - 1], t[n], id)
  IN  upTo

StateFromTrace(id) == StatesAlong(trace, id)[Len(trace)]

VersionOf(id) == IF id \in DOMAIN versions THEN versions[id] ELSE VersionFromTrace(id)
StateOf(id) == IF id \in DOMAIN states THEN states[id] ELSE StateFromTrace(id)

-----------------------------------------------------------------------------
(* Creating and rewriting.                                                 *)

(* The checks of _validated_observations and _create_memory_version.       *)
Grounded(owner, sources, claim, kind, derived) ==
  /\ sources # {}
  /\ \A o \in sources : observations[o].observer = owner
  /\ kind = "INFERRED" \/ derived \/
       /\ \E o \in sources : observations[o].kind = kind
       /\ \E o \in sources : /\ Within(claim, observations[o].claim)
                             /\ Within(observations[o].claim, claim)

(* The checks of _validate_lineage_request for an existing lineage.        *)
ParentsValid(lineage, owner, parents) ==
  /\ At(lineageVersions, lineage, <<>>) # <<>>
  /\ \A p \in parents : /\ p \in DOMAIN versions
                        /\ versions[p].lineage = lineage
                        /\ versions[p].owner = owner

NextNumber_FromOldest(lineage) == 1 + versions[Head(lineageVersions[lineage])].no

NextNumber(lineage) ==
  LET known == Elements(At(lineageVersions, lineage, <<>>)) IN
  IF known = {} THEN 1
  ELSE 1 + CHOOSE n \in {versions[v].no : v \in known} : \A v \in known : versions[v].no <= n

Reference(kind, id) == [kind |-> kind, id |-> id]
Eviction(ref) == [kind |-> "LIVE_INDEX_EVICTED", reference |-> ref]

(* _create_memory_version and what its callers add: the parents of a       *)
(* rewriting move on, and _enforce_memory_bounds archives what exceeds a   *)
(* bound, the oldest version of the lineage or the owner's oldest lineage. *)
(* Only a new lineage can exceed the second bound, so the lineage in hand  *)
(* is never the oldest one.                                                *)
Add(owner, lineage, isNew, version, state, rewritten) ==
  LET id      == versionIds + 1
      mine    == Append(At(lineageVersions, lineage, <<>>), id)
      old     == Oldest(mine, VersionLimit)
      known   == IF lineage \in DOMAIN lineageOwner THEN At(actorLineages, owner, <<>>)
                 ELSE Append(At(actorLineages, owner, <<>>), lineage)
      lost    == Oldest(known, LineageLimit)
      gone    == Elements(old) \cup UNION {Elements(lineageVersions[l]) : l \in Elements(lost)}
      evictions ==
        [i \in DOMAIN old |-> Reference("MEMORY_VERSION", old[i])] \o
        Joined([i \in DOMAIN lost |->
          [j \in DOMAIN lineageVersions[lost[i]] |->
             Reference("MEMORY_VERSION", lineageVersions[lost[i]][j])] \o
          <<Reference("MEMORY_LINEAGE", lost[i])>>])
      sources == Put(IF isNew THEN Put(sourceOf, Reference("MEMORY_LINEAGE", lineage), Len(trace) + 1)
                              ELSE sourceOf,
                     Reference("MEMORY_VERSION", id), Len(trace) + 1)
  IN
  /\ versionIds' = id
  /\ versions' = Drop(Put(versions, id, version), gone)
  /\ states' = Drop([v \in DOMAIN states \cup {id} |->
                       IF v = id THEN state
                       ELSE IF v \in Elements(rewritten) THEN Moved(states[v], "REWRITTEN")
                       ELSE states[v]], gone)
  /\ lineageVersions' = Drop(Put(lineageVersions, lineage, Newest(mine, VersionLimit)), Elements(lost))
  /\ lineageOwner' = Drop(IF isNew THEN Put(lineageOwner, lineage, owner) ELSE lineageOwner, Elements(lost))
  /\ actorLineages' = Put(actorLineages, owner, Newest(known, LineageLimit))
  /\ references' = Newest(references \o evictions, ForgettingLimit)
  /\ archivedCount' = archivedCount + Len(evictions)
  /\ sourceOf' = Drop(sources, Elements(evictions))
  /\ beliefs' = [a \in Actors |-> NotOf(beliefs[a], gone \cup Elements(rewritten))]
  /\ trace' = trace \o
       <<[kind |-> "MEMORY_VERSION_CREATED", id |-> id, version |-> version, state |-> state]>> \o
       [i \in DOMAIN rewritten |->
          [kind |-> "MEMORY_VERSION_REWRITTEN", parent |-> rewritten[i], by |-> id]] \o
       [i \in DOMAIN evictions |-> Eviction(evictions[i])]
  /\ UNCHANGED <<occurrenceVars, forgetting, forgettingIds>>

NewVersion(lineage, no, owner, parents, sources, claim, kind) ==
  [lineage |-> lineage, no |-> no, owner |-> owner, parents |-> parents,
   sources |-> sources, claim |-> claim, kind |-> kind]

(* create_memory, in a new lineage or in one that exists.                  *)
CreateMemory(owner, sources, claim, kind, impression) ==
  /\ versionIds < MaxVersions
  /\ Grounded(owner, sources, claim, kind, FALSE)
  /\ lineageIds' = lineageIds + 1
  /\ Add(owner, lineageIds + 1, TRUE,
         NewVersion(lineageIds + 1, 1, owner, {}, sources, claim, kind),
         InitialState(impression), <<>>)

ExtendMemory(owner, lineage, parents, sources, claim, kind, impression) ==
  /\ versionIds < MaxVersions
  /\ "foreign lineage" \in Liberties \/ lineageOwner[lineage] = owner
  /\ Grounded(owner, sources, claim, kind, FALSE)
  /\ ParentsValid(lineage, owner, parents)
  /\ Add(owner, lineage, FALSE,
         NewVersion(lineage, NextNumber(lineage), owner, parents, sources, claim, kind),
         InitialState(impression), <<>>)
  /\ UNCHANGED lineageIds

RewriteMemory(lineage, parents, sources, claim, kind, impression, worldAck) ==
  /\ versionIds < MaxVersions
  /\ parents # <<>>
  /\ kind = "MANIFESTED" => worldAck
  /\ Head(parents) \in DOMAIN versions
  /\ LET owner == versions[Head(parents)].owner IN
       /\ Grounded(owner, sources, claim, kind, kind = "MANIFESTED")
       /\ ParentsValid(lineage, owner, Elements(parents))
       /\ Add(owner, lineage, FALSE,
              NewVersion(lineage, NextNumber(lineage), owner, Elements(parents), sources, claim, kind),
              InitialState(impression), parents)
  /\ UNCHANGED lineageIds

-----------------------------------------------------------------------------
(* Forgetting and contradictions.                                          *)

TransitionMemory_KeepsBeliefs(id, mode, change) ==
  /\ id \in DOMAIN states
  /\ forgettingIds < MaxForgettings
  /\ mode = "UNSUPPRESS" => states[id].access = "SUPPRESSED"
  /\ LET s == Transitioned(states[id], mode, change) IN
       /\ states' = [states EXCEPT ![id] = s]
       /\ trace' = Append(trace, [kind |-> "FORGETTING_EVENT_APPLIED", id |-> id, state |-> s])
  /\ forgettingIds' = forgettingIds + 1
  /\ forgetting' = Newest(Append(forgetting, forgettingIds + 1), ForgettingLimit)
  /\ UNCHANGED <<occurrenceVars, versionIds, lineageIds, versions, lineageVersions,
                 lineageOwner, actorLineages, references, archivedCount, sourceOf, beliefs>>

TransitionMemory(id, mode, change) ==
  /\ id \in DOMAIN states
  /\ forgettingIds < MaxForgettings
  /\ mode = "UNSUPPRESS" => states[id].access = "SUPPRESSED"
  /\ LET s == Transitioned(states[id], mode, change) IN
       /\ states' = [states EXCEPT ![id] = s]
       /\ trace' = Append(trace, [kind |-> "FORGETTING_EVENT_APPLIED", id |-> id, state |-> s])
  /\ forgettingIds' = forgettingIds + 1
  /\ forgetting' = Newest(Append(forgetting, forgettingIds + 1), ForgettingLimit)
  /\ beliefs' = [a \in Actors |-> NotOf(beliefs[a], {id})]
  /\ UNCHANGED <<occurrenceVars, versionIds, lineageIds, versions, lineageVersions,
                 lineageOwner, actorLineages, references, archivedCount, sourceOf>>

(* register_contradiction; the call that finds every version contradicted  *)
(* already returns and changes nothing.  The versions compare with the     *)
(* first, the anchor.                                                      *)
RegisterContradiction(ids, anchor) ==
  /\ Cardinality(ids) >= 2
  /\ anchor \in ids /\ ids \subseteq Created
  /\ "archived" \in Liberties \/ ids \subseteq DOMAIN versions
  /\ \A v \in ids : VersionOf(v).owner = VersionOf(anchor).owner
  /\ \A v \in ids \ {anchor} : LogicallyExclusive(VersionOf(anchor).claim, VersionOf(v).claim)
  /\ \A v \in ids : StateOf(v).stage = "ACTIVE"
  /\ states' = [v \in DOMAIN states \cup ids |->
                  IF v \in ids THEN Moved(StateOf(v), "CONTRADICTED") ELSE states[v]]
  /\ trace' = Append(trace, [kind |-> "MEMORY_CONTRADICTION_REGISTERED", ids |-> ids])
  /\ UNCHANGED <<occurrenceVars, idVars, versions, lineageVersions, lineageOwner,
                 actorLineages, forgetting, references, archivedCount, sourceOf, beliefs>>

-----------------------------------------------------------------------------
(* Queries.                                                                *)

(* What query_memory works out when it has no result in its cache.         *)
Answer(id) ==
  LET s == StateOf(id)
      accessible == s.access \in {"CLEAR", "FADED"}
  IN  [id |-> id, access |-> s.access, stage |-> s.stage,
       claim |-> IF accessible THEN VersionOf(id).claim ELSE None,
       residue |-> {r \in s.residue : r.independent \/ s.access # "FORGOTTEN"}]

QueryMemory(id) ==
  /\ id \in Created
  /\ LET owner == VersionOf(id).owner
         hits  == Of(beliefs[owner], {id})
         other == NotOf(beliefs[owner], {id})
     IN  beliefs' = [beliefs EXCEPT ![owner] =
           IF hits # <<>> THEN other \o hits ELSE Newest(Append(other, Answer(id)), BeliefLimit)]
  /\ UNCHANGED <<occurrenceVars, trace, idVars, indexVars>>

-----------------------------------------------------------------------------
(* Saving and loading.                                                     *)

Blank ==
  [ok |-> TRUE, versions |-> <<>>, states |-> <<>>, lineageVersions |-> <<>>,
   lineageOwner |-> <<>>, actorLineages |-> <<>>, forgetting |-> 0,
   references |-> <<>>, sourceOf |-> <<>>]

ReplayCreated(k, r, n) ==
  LET lineage == r.version.lineage
      owner   == r.version.owner
      isNew   == lineage \notin DOMAIN k.lineageOwner
      made    == Put(k.sourceOf, Reference("MEMORY_VERSION", r.id), n)
  IN  [k EXCEPT
        !.versions = Put(@, r.id, r.version),
        !.states = Put(@, r.id, r.state),
        !.lineageVersions = Put(@, lineage, Append(At(@, lineage, <<>>), r.id)),
        !.lineageOwner = IF isNew THEN Put(@, lineage, owner) ELSE @,
        !.actorLineages = IF isNew THEN Put(@, owner, Append(At(@, owner, <<>>), lineage)) ELSE @,
        !.sourceOf = IF isNew THEN Put(made, Reference("MEMORY_LINEAGE", lineage), n) ELSE made]

(* The states that a rewriting or a contradiction names must be live:      *)
(* replay looks them up in the index and fails on a missing one.           *)
ReplayMoved(k, ids, stage) ==
  IF ids \subseteq DOMAIN k.states
    THEN [k EXCEPT !.states = [v \in DOMAIN @ |-> IF v \in ids THEN Moved(@[v], stage) ELSE @[v]]]
    ELSE [k EXCEPT !.ok = FALSE]

Without(s, x) == Keep(s, {i \in DOMAIN s : s[i] # x})

(* The state of an evicted version stays.                                  *)
ReplayVersionEvicted_KeepsState(k, id) ==
  LET lineage == IF id \in DOMAIN k.versions THEN k.versions[id].lineage ELSE None IN
  [k EXCEPT !.versions = Drop(@, {id}),
            !.lineageVersions = IF lineage \in DOMAIN @ THEN Put(@, lineage, Without(@[lineage], id)) ELSE @]

ReplayVersionEvicted(k, id) ==
  LET lineage == IF id \in DOMAIN k.versions THEN k.versions[id].lineage ELSE None IN
  [k EXCEPT !.versions = Drop(@, {id}), !.states = Drop(@, {id}),
            !.lineageVersions = IF lineage \in DOMAIN @ THEN Put(@, lineage, Without(@[lineage], id)) ELSE @]

ReplayLineageEvicted(k, lineage) ==
  LET owner == At(k.lineageOwner, lineage, None)
      left  == Without(At(k.actorLineages, owner, <<>>), lineage)
  IN  [k EXCEPT !.lineageVersions = Drop(@, {lineage}),
                !.lineageOwner = Drop(@, {lineage}),
                !.actorLineages = IF left = <<>> THEN Drop(@, {owner}) ELSE Put(@, owner, left)]

ReplayEvicted(k, ref) ==
  LET noted == [k EXCEPT !.references = Append(@, ref), !.sourceOf = Drop(@, {ref})] IN
  CASE ref.kind = "MEMORY_VERSION" -> ReplayVersionEvicted(noted, ref.id)
    [] ref.kind = "MEMORY_LINEAGE" -> ReplayLineageEvicted(noted, ref.id)

(* One turn of the loop of _from_history_trace, until one raises.          *)
Replayed(k, r, n) ==
  CASE ~k.ok -> k
    [] k.ok /\ r.kind = "MEMORY_VERSION_CREATED" -> ReplayCreated(k, r, n)
    [] r.kind = "MEMORY_VERSION_REWRITTEN" -> ReplayMoved(k, {r.parent}, "REWRITTEN")
    [] r.kind = "FORGETTING_EVENT_APPLIED" ->
         [k EXCEPT !.states = Put(@, r.id, r.state), !.forgetting = @ + 1]
    [] r.kind = "MEMORY_CONTRADICTION_REGISTERED" -> ReplayMoved(k, r.ids, "CONTRADICTED")
    [] r.kind = "LIVE_INDEX_EVICTED" -> ReplayEvicted(k, r.reference)
    [] OTHER -> k

Replay ==
  LET upTo[n \in 0..Len(trace)] ==
        IF n = 0 THEN Blank ELSE Replayed(upTo[n - 1], trace[n], n)
  IN  upTo[Len(trace)]

(* load_state accepts what save_state has written when replaying the trace *)
(* gives the snapshot: the same indexes, bounded alike, and counters       *)
(* derived from the ids in the trace that are the kernel's.                *)
ReplayReproduces ==
  LET k == Replay IN
  /\ k.ok
  /\ <<k.versions, k.states, k.lineageVersions, k.lineageOwner, k.actorLineages>>
       = <<versions, states, lineageVersions, lineageOwner, actorLineages>>
  /\ Newest([i \in 1..k.forgetting |-> i], ForgettingLimit) = forgetting
  /\ Newest(k.references, ForgettingLimit) = references
  /\ Len(k.references) = archivedCount
  /\ k.sourceOf = sourceOf
  /\ RebuiltEvents = events /\ RebuiltObservations = observations
  /\ RebuiltEventIds = eventIds
  /\ k.forgetting = forgettingIds
  /\ LET made == Records("MEMORY_VERSION_CREATED") IN
       /\ [i \in DOMAIN made |-> made[i].id] = [i \in 1..versionIds |-> i]
       /\ {made[i].version.lineage : i \in DOMAIN made} = 1..lineageIds

(* The program goes on with the kernel that load_state returns: its        *)
(* indexes are the saved ones and its cache is empty.                      *)
SaveAndLoad ==
  /\ ReplayReproduces
  /\ beliefs' = [a \in Actors |-> <<>>]
  /\ UNCHANGED <<occurrenceVars, trace, idVars, indexVars>>

-----------------------------------------------------------------------------
Init ==
  /\ OccurrencesInit
  /\ versions = <<>> /\ states = <<>>
  /\ lineageVersions = <<>> /\ lineageOwner = <<>> /\ actorLineages = <<>>
  /\ forgetting = <<>> /\ references = <<>> /\ archivedCount = 0 /\ sourceOf = <<>>
  /\ versionIds = 0 /\ lineageIds = 0 /\ forgettingIds = 0
  /\ beliefs = [a \in Actors |-> <<>>]

Sources == {S \in SUBSET DOMAIN observations : Cardinality(S) <= MaxSources}

(* Parents of a rewriting: one version, or two in either order.            *)
Parentage(lineage) ==
  LET live == Elements(lineageVersions[lineage]) IN
  {<<p>> : p \in live} \cup {pq \in live \X live : pq[1] # pq[2]}

Occur ==
  /\ OccurrencesNext
  /\ UNCHANGED <<idVars, indexVars, beliefs>>

Next ==
  \/ Occur
  \/ \E owner \in Actors, sources \in Sources, claim \in Claims, kind \in SourceKinds,
        impression \in Impressions :
       \/ CreateMemory(owner, sources, claim, kind, impression)
       \/ \E lineage \in DOMAIN lineageOwner :
            \E parents \in SUBSET Elements(lineageVersions[lineage]) :
              ExtendMemory(owner, lineage, parents, sources, claim, kind, impression)
  \/ \E lineage \in DOMAIN lineageOwner, sources \in Sources, claim \in Claims,
        kind \in SourceKinds, impression \in Impressions, worldAck \in BOOLEAN :
       \E parents \in Parentage(lineage) :
         RewriteMemory(lineage, parents, sources, claim, kind, impression, worldAck)
  \/ \E id \in DOMAIN states, mode \in Modes, change \in Changes : TransitionMemory(id, mode, change)
  \/ \E ids \in SUBSET Created : \E anchor \in ids : RegisterContradiction(ids, anchor)
  \/ \E id \in Created : QueryMemory(id)
  \/ SaveAndLoad

Spec == Init /\ [][Next]_vars

-----------------------------------------------------------------------------
(* Properties.                                                             *)

(* The indexes hold the same versions, every clarity stays between 0 and   *)
(* 1000 however it decays, and every residue that is kept has an intensity.*)
TypeOK ==
  /\ DOMAIN states = DOMAIN versions
  /\ \A v \in DOMAIN states : states[v] \in States
  /\ DOMAIN versions = UNION {Elements(lineageVersions[l]) : l \in DOMAIN lineageVersions}
  /\ DOMAIN lineageVersions = DOMAIN lineageOwner
  /\ DOMAIN lineageOwner = UNION {Elements(actorLineages[a]) : a \in DOMAIN actorLineages}
  /\ \A a \in Actors : Len(beliefs[a]) <= BeliefLimit

(* What get_memory_version and get_memory_state return for an id never     *)
(* depends on whether the version is live or archived: it is what the      *)
(* trace tells of the version.                                             *)
LookupIsHistory ==
  \A v \in Created : VersionOf(v) = VersionFromTrace(v) /\ StateOf(v) = StateFromTrace(v)

(* The kernel keeps at most so many memories of an actor in its live       *)
(* indexes, whatever the actor creates, rewrites and contradicts.          *)
LiveMemoryBounded ==
  \A a \in Actors :
    Cardinality({v \in DOMAIN states : VersionOf(v).owner = a}) <= LineageLimit * VersionLimit

(* Over all its history, archived versions included, a lineage numbers its *)
(* versions upwards, a version's parents are older versions of its owner   *)
(* in its lineage, and what is archived is older than what is live.        *)
LineagesNumberUpwards ==
  \A v, w \in Created :
    LET a == VersionOf(v)
        b == VersionOf(w)
    IN  /\ a.lineage = b.lineage /\ v < w => a.no < b.no
        /\ v \in b.parents => v < w /\ a.lineage = b.lineage /\ a.owner = b.owner
        /\ a.lineage = b.lineage /\ v \in DOMAIN versions /\ w \notin DOMAIN versions => w < v

(* A belief derives from the latest state of its memory: a result in the   *)
(* cache is the one a query would work out afresh.  register_contradiction *)
(* drops no result (kernel.py:1059), so that it does not hold.             *)
BeliefsAreCurrent ==
  \A a \in Actors, i \in 1..BeliefLimit :
    i \in DOMAIN beliefs[a] => beliefs[a][i] = Answer(beliefs[a][i].id)

(* How far a belief lags at most: but for the version state of a memory    *)
(* that was contradicted since, a result in the cache is the one a query   *)
(* would work out afresh.  No result discloses a claim that was forgotten  *)
(* or suppressed meanwhile.                                                *)
BeliefsLagOnlyContradictions ==
  \A a \in Actors, i \in 1..BeliefLimit :
    i \in DOMAIN beliefs[a] =>
      LET b == beliefs[a][i] IN
      \/ b = Answer(b.id)
      \/ b.stage = "ACTIVE" /\ [b EXCEPT !.stage = "CONTRADICTED"] = Answer(b.id)
=============================================================================
