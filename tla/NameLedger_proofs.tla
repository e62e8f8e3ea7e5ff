--------------------------- MODULE NameLedger_proofs ---------------------------
(***************************************************************************)
(* What holds of every ledger of names: for every set of drafts and of     *)
(* changes, and every bound of its live indexes.                           *)
(***************************************************************************)
EXTENDS NameLedger, Occurrences_proofs

-----------------------------------------------------------------------------
(* Sequences.                                                              *)

\* Inside and Outside keep the entries that they are to keep.
LEMMA Sieved ==
  ASSUME NEW s, IsList(s), NEW S
  PROVE  /\ IsList(Inside(s, S)) /\ Elements(Inside(s, S)) = Elements(s) \cap S
         /\ IsList(Outside(s, S)) /\ Elements(Outside(s, S)) = Elements(s) \ S
<1>1. Len(s) \in Nat /\ DOMAIN s = 1..Len(s)
  BY ListFacts DEF IsList
<1> DEFINE I == {i \in DOMAIN s : s[i] \in S}
           J == {i \in DOMAIN s : s[i] \notin S}
<1>2. /\ {s[i] : i \in DOMAIN s \cap I} = Elements(s) \cap S
      /\ {s[i] : i \in DOMAIN s \cap J} = Elements(s) \ S
  BY DEF Elements
<1>3. Inside(s, S) = Keep(s, I) /\ Outside(s, S) = Keep(s, J)
  BY DEF Inside, Outside
<1> HIDE DEF I, J
<1> QED
  BY <1>2, <1>3, KeptElements

\* A finite set of numbers can be put in order.
LEMMA Orderly ==
  ASSUME NEW S, S \subseteq Int, IsFiniteSet(S)
  PROVE  IsList(InOrder(S))
<1> DEFINE Upwards(U, n, s) == s \in [1..n -> U] /\ \A i, j \in 1..n : i < j => s[i] < s[j]
           Wrong(U, n) == U \subseteq Int /\ IsFiniteSet(U) /\ Cardinality(U) = n /\ ~ \E s : Upwards(U, n, s)
           T == {n \in Nat : \E U : Wrong(U, n)}
<1>1. ASSUME T # {}
      PROVE  FALSE
  <2>0. T \subseteq Nat
    OBVIOUS
  <2>1. PICK n \in T : \A k \in T : n <= k
    BY <1>1, <2>0, HasLeast
  <2>2. PICK U : Wrong(U, n)
    BY <2>1
  <2>3. U # {}
    <3>1. CASE U = {}
      <4>1. n = 0
        BY <2>2, <3>1, FS_EmptySet
      <4>2. Upwards(U, n, <<>>)
        BY <3>1, <4>1
      <4> QED
        BY <2>2, <4>2
    <3> QED
      BY <3>1
  <2>4. PICK m \in U : \A k \in U : k <= m
    BY <2>2, <2>3, HasGreatest
  <2> DEFINE V == U \ {m}
  <2>5. /\ IsFiniteSet(V) /\ Cardinality(V) = n - 1 /\ n - 1 \in Nat /\ n \in Nat
        /\ V \subseteq Int /\ V \subseteq U /\ \A k \in V : k < m
    <3>1. IsFiniteSet(V) /\ Cardinality(V) = n - 1
      BY <2>2, FS_RemoveElement
    <3>2. Cardinality(V) \in Nat
      BY <3>1, FS_CardinalityType
    <3>3. \A k \in V : k < m
      BY <2>2, <2>4
    <3> QED
      BY <2>1, <2>2, <3>1, <3>2, <3>3
  <2>6. PICK s : Upwards(V, n - 1, s)
    <3>1. ~(n <= n - 1)
      BY <2>5
    <3>2. ~ Wrong(V, n - 1)
      BY <2>1, <2>5, <3>1
    <3> QED
      BY <2>5, <3>2
  <2> DEFINE u == [i \in 1..n |-> IF i = n THEN m ELSE s[i]]
  <2> HIDE DEF V, T
  <2>7. \A i \in 1..n : i = n \/ i \in 1..(n - 1)
    BY <2>5
  <2>8. /\ \A i \in 1..(n - 1) : s[i] \in V /\ s[i] < m
        /\ \A i, j \in 1..(n - 1) : i < j => s[i] < s[j]
    BY <2>5, <2>6
  <2>9. u \in [1..n -> U]
    BY <2>4, <2>5, <2>7, <2>8
  <2>10. \A i, j \in 1..n : i < j => u[i] < u[j]
    <3> TAKE i, j \in 1..n
    <3> HAVE i < j
    <3>1. i \in 1..(n - 1) /\ u[i] = s[i]
      BY <2>5, <2>7
    <3>2. CASE j = n
      BY <2>8, <3>1, <3>2
    <3>3. CASE j # n
      <4>1. j \in 1..(n - 1) /\ u[j] = s[j]
        BY <2>7, <3>3
      <4> QED
        BY <2>8, <3>1, <4>1
    <3> QED
      BY <3>2, <3>3
  <2> HIDE DEF u
  <2>11. Upwards(U, n, u)
    BY <2>9, <2>10
  <2> QED
    BY <2>2, <2>11
<1> DEFINE n == Cardinality(S)
<1>2. n \in Nat
  BY FS_CardinalityType
<1>3. PICK u : Upwards(S, n, u)
  BY <1>1, <1>2
<1>4. u \in [1..n -> S] /\ DOMAIN u = 1..n
  BY <1>3
<1>5. InOrder(S) \in [1..n -> S]
  <2> DEFINE Right(s) == \A i, j \in DOMAIN s : i < j => s[i] < s[j]
  <2>1. Right(u)
    BY <1>3, <1>4
  <2>2. InOrder(S) = CHOOSE s \in [1..n -> S] : Right(s)
    BY DEF InOrder
  <2> HIDE DEF Right, n
  <2> QED
    BY <1>4, <2>1, <2>2
<1> HIDE DEF n
<1>6. InOrder(S) \in Seq(S)
  BY <1>2, <1>5, SeqDef
<1> QED
  BY <1>6, ListFacts

-----------------------------------------------------------------------------
(* The invariant.                                                          *)

IsConnection(c) ==
  c = [id |-> c.id, claim |-> c.claim, record |-> c.record, status |-> c.status,
       lineage |-> c.lineage, no |-> c.no]
IsRecord(r) ==
  r = [claim |-> r.claim, sources |-> r.sources, parents |-> r.parents,
       plans |-> r.plans, status |-> r.status]

Creates(x) == x.kind = "NAME_RECORD_CREATED"
Acknowledges(x) == x.kind = "WORLD_ACKNOWLEDGEMENT_COMMITTED"

\* Two claims that may both be established.
Agree(x, y) == SameCapacity(x, y) \/ Clash(x, y) = None

\* The lists are lists, and the counters count.
Listed ==
  /\ IsList(trace) /\ IsList(records) /\ IsList(connections) /\ IsList(active)
  /\ IsList(conflicts) /\ IsList(acks)
  /\ recordIds \in Nat /\ ackIds \in Nat /\ lineageIds \in Nat

\* The live records are the ones listed, and were drafted.
Drafted ==
  /\ DOMAIN recordOf = Elements(records) /\ Elements(records) \subseteq 1..recordIds
  /\ \A r \in DOMAIN recordOf :
       /\ IsRecord(recordOf[r])
       /\ recordOf[r].status \in {"DRAFT", "CONFIRMED", "ACKNOWLEDGED"}
       /\ \E d \in RecordDrafts : recordOf[r].claim = d.claim

\* The live connections are numbered apart.
Numbered ==
  /\ \A c \in Elements(connections) :
       /\ IsConnection(c) /\ c.id \in 1..ackIds /\ c.lineage \in 1..lineageIds /\ c.no \in Nat
       /\ c.status \in {"ACTIVE", "SUPERSEDED"}
  /\ \A c, d \in Elements(connections) : c.id = d.id => c = d

\* What is active is live and rests on what is live.
Based ==
  \A a \in Elements(active) :
    \E c \in Elements(connections) :
      /\ c.id = a /\ c.status = "ACTIVE"
      /\ c.record \in DOMAIN recordOf /\ recordOf[c.record].status = "ACKNOWLEDGED"

\* Active connections agree.
Agreed ==
  \A c, d \in Elements(connections) :
    c.id \in Elements(active) /\ d.id \in Elements(active) => c.id = d.id \/ Agree(c.claim, d.claim)

\* Every record has one creation in the trace, which also tells of what is
\* acknowledged.
Chronicled(E, last) ==
  /\ \A x \in E : Creates(x) => x.id \in 1..last
  /\ \A x, y \in E : Creates(x) /\ Creates(y) /\ x.id = y.id => x = y
  /\ \A r \in 1..last : \E x \in E : Creates(x) /\ x.id = r
  /\ \A x \in E : Acknowledges(x) => x.ack.record \in 1..last

\* The record that the entries of a trace tell of, from its creation x.
ToldBy(E, x) ==
  IF \E y \in E : Acknowledges(y) /\ y.ack.record = x.id
    THEN [x.record EXCEPT !.status = "ACKNOWLEDGED"] ELSE x.record

\* The live records are as the trace has them.
Truthful(E, live) == \A x \in E : Creates(x) /\ x.id \in DOMAIN live => live[x.id] = ToldBy(E, x)

\* No two places hold connections of one number.
AllApart(cs) == \A i, j \in 1..Len(cs) : cs[i].id = cs[j].id => i = j

IInv ==
  /\ Listed /\ Drafted /\ Numbered /\ Based /\ Agreed
  /\ Chronicled(Elements(trace), recordIds) /\ Truthful(Elements(trace), recordOf)

-----------------------------------------------------------------------------
(* What the invariant says of the properties.                              *)

\* A connection is found by its number.
LEMMA Found ==
  ASSUME NEW cs, IsList(cs), \A c, d \in Elements(cs) : c.id = d.id => c = d, NEW c \in Elements(cs)
  PROVE  Among(cs, c.id) = c
<1>1. PICK i \in DOMAIN cs : cs[i] = c
  BY DEF Elements
<1> DEFINE k == CHOOSE k \in DOMAIN cs : cs[k].id = c.id
<1>2. k \in DOMAIN cs /\ cs[k].id = c.id
  BY <1>1
<1>3. cs[k] \in Elements(cs)
  BY <1>2 DEF Elements
<1> QED
  BY <1>2, <1>3 DEF Among

\* A record in the trace is found by the creation it has there.
LEMMA FoundInTrace ==
  ASSUME Chronicled(Elements(trace), recordIds), NEW x \in Elements(trace), Creates(x)
  PROVE  RecordFromTrace(x.id) = ToldBy(Elements(trace), x)
<1>1. PICK i \in DOMAIN trace : trace[i] = x
  BY DEF Elements
<1> DEFINE k == CHOOSE k \in DOMAIN trace : trace[k].kind = "NAME_RECORD_CREATED" /\ trace[k].id = x.id
<1>2. k \in DOMAIN trace /\ trace[k].kind = "NAME_RECORD_CREATED" /\ trace[k].id = x.id
  BY <1>1 DEF Creates
<1>3. trace[k] \in Elements(trace) /\ Creates(trace[k])
  BY <1>2 DEF Elements, Creates
<1>4. trace[k] = x
  BY <1>2, <1>3 DEF Chronicled
<1> HIDE DEF k
<1>5. RecordFromTrace(x.id) =
        IF \E j \in DOMAIN trace : Acknowledges(trace[j]) /\ trace[j].ack.record = x.id
          THEN [x.record EXCEPT !.status = "ACKNOWLEDGED"] ELSE x.record
  BY <1>4 DEF RecordFromTrace, Acknowledges, k
<1>6. (\E j \in DOMAIN trace : Acknowledges(trace[j]) /\ trace[j].ack.record = x.id)
        <=> \E y \in Elements(trace) : Acknowledges(y) /\ y.ack.record = x.id
  BY DEF Elements
<1> QED
  BY <1>5, <1>6 DEF ToldBy

\* The invariant implies the properties.
LEMMA Properties == IInv => TypeOK /\ NoOpenClash /\ RecordLookupIsHistory
<1> SUFFICES ASSUME IInv
             PROVE  TypeOK /\ NoOpenClash /\ RecordLookupIsHistory
  OBVIOUS
<1>1. /\ \A c \in Elements(connections) : Connection(c.id) = c
      /\ \A a \in Elements(active) : /\ Connection(a) \in Elements(connections)
                                     /\ Connection(a).id = a
  <2>1. \A c \in Elements(connections) : Connection(c.id) = c
    BY Found DEF IInv, Listed, Numbered, Connection
  <2> QED
    BY <2>1 DEF IInv, Based
<1>2. TypeOK
  <2>1. \A i \in DOMAIN connections : connections[i] \in Elements(connections)
    BY DEF Elements
  <2>2. \A i \in DOMAIN connections : /\ connections[i].id \in 1..ackIds
                                      /\ connections[i].lineage \in 1..lineageIds
                                      /\ connections[i].status \in {"ACTIVE", "SUPERSEDED"}
    BY <2>1 DEF IInv, Numbered
  <2>3. ASSUME NEW a \in Elements(active)
        PROVE  /\ \E i \in DOMAIN connections : connections[i].id = a /\ connections[i].status = "ACTIVE"
               /\ Connection(a).record \in DOMAIN recordOf
               /\ recordOf[Connection(a).record].status = "ACKNOWLEDGED"
    <3>1. PICK c \in Elements(connections) :
            /\ c.id = a /\ c.status = "ACTIVE"
            /\ c.record \in DOMAIN recordOf /\ recordOf[c.record].status = "ACKNOWLEDGED"
      BY DEF IInv, Based
    <3>2. \E i \in DOMAIN connections : connections[i] = c
      BY DEF Elements
    <3> QED
      BY <1>1, <3>1, <3>2
  <2> QED
    BY <2>2, <2>3 DEF TypeOK, IInv, Drafted
<1>3. NoOpenClash
  BY <1>1 DEF NoOpenClash, IInv, Agreed, Agree
<1>4. RecordLookupIsHistory
  <2> SUFFICES ASSUME NEW r \in 1..recordIds, r \in DOMAIN recordOf
               PROVE  recordOf[r] = RecordFromTrace(r)
    BY DEF RecordLookupIsHistory, Record
  <2>1. PICK x \in Elements(trace) : Creates(x) /\ x.id = r
    BY DEF IInv, Chronicled
  <2> QED
    BY <2>1, FoundInTrace DEF IInv, Truthful
<1> QED
  BY <1>2, <1>3, <1>4

-----------------------------------------------------------------------------
(* The steps that acknowledge nothing.                                     *)

liveVars == <<records, recordOf, connections, active, conflicts, acks, recordIds, ackIds, lineageIds>>

\* A step that leaves the ledger alone, and perhaps notes something else.
LEMMA NotedKeeps ==
  ASSUME IInv, UNCHANGED liveVars,
         \/ trace' = trace
         \/ \E r : trace' = Append(trace, r) /\ ~Creates(r) /\ ~Acknowledges(r)
  PROVE  IInv'
<1> DEFINE E == Elements(trace)
           F == Elements(trace')
<1>1. /\ IsList(trace') /\ E \subseteq F
      /\ \A x \in F : Creates(x) \/ Acknowledges(x) => x \in E
  <2>1. CASE trace' = trace
    BY <2>1 DEF IInv, Listed
  <2>2. ASSUME NEW r, trace' = Append(trace, r), ~Creates(r), ~Acknowledges(r)
        PROVE  /\ IsList(trace') /\ E \subseteq F
               /\ \A x \in F : Creates(x) \/ Acknowledges(x) => x \in E
    <3>1. IsList(trace') /\ F = E \cup {r}
      BY <2>2, Appended DEF IInv, Listed
    <3> QED
      BY <2>2, <3>1
  <2> QED
    BY <2>1, <2>2
<1>2. \A x : ToldBy(F, x) = ToldBy(E, x)
  BY <1>1 DEF ToldBy
<1>3. /\ records' = records /\ recordOf' = recordOf /\ connections' = connections
      /\ active' = active /\ conflicts' = conflicts /\ acks' = acks
      /\ recordIds' = recordIds /\ ackIds' = ackIds /\ lineageIds' = lineageIds
  BY DEF liveVars
<1>4. Listed'
  BY <1>1, <1>3 DEF IInv, Listed
<1>5. Drafted' /\ Numbered' /\ Based' /\ Agreed'
  BY <1>3 DEF IInv, Drafted, Numbered, Based, Agreed
<1>6. Chronicled(E, recordIds) /\ Truthful(E, recordOf)
  BY DEF IInv
<1> HIDE DEF E, F
<1>7. Chronicled(F, recordIds') /\ Truthful(F, recordOf')
  <2>1. Chronicled(F, recordIds')
    BY <1>1, <1>3, <1>6 DEF Chronicled
  <2>2. Truthful(F, recordOf')
    BY <1>1, <1>2, <1>3, <1>6 DEF Truthful
  <2> QED
    BY <2>1, <2>2
<1> QED
  BY <1>4, <1>5, <1>7 DEF IInv, F

\* Events and observations say nothing of records.
LEMMA OccurKeeps ==
  ASSUME IInv, Occur
  PROVE  IInv'
<1>1. UNCHANGED liveVars
  BY DEF Occur, liveVars, ledgerVars, ledgerIds
<1>2. ASSUME NEW type, NEW payload, CommitEvent(type, payload)
      PROVE  IInv'
  <2> DEFINE r == [kind |-> "CANONICAL_EVENT_COMMITTED", event |-> [id |-> eventIds + 1, type |-> type]]
  <2>1. trace' = trace \/ trace' = Append(trace, r)
    BY <1>2 DEF CommitEvent
  <2>2. ~Creates(r) /\ ~Acknowledges(r)
    BY DEF Creates, Acknowledges
  <2> HIDE DEF r
  <2> QED
    BY <1>1, <2>1, <2>2, NotedKeeps
<1>3. ASSUME NEW d, NEW visible, RecordObservation(d, visible)
      PROVE  IInv'
  <2> DEFINE r == [kind |-> "OBSERVATION_RECORDED", observation |-> d]
  <2>1. trace' = Append(trace, r)
    BY <1>3 DEF RecordObservation
  <2>2. ~Creates(r) /\ ~Acknowledges(r)
    BY DEF Creates, Acknowledges
  <2> HIDE DEF r
  <2> QED
    BY <1>1, <2>1, <2>2, NotedKeeps
<1> QED
  BY <1>2, <1>3 DEF Occur

\* A system projection says nothing of records.
LEMMA ProjectionKeeps ==
  ASSUME IInv, NEW changes, ApplySystemProjection(changes)
  PROVE  IInv'
<1>1. UNCHANGED liveVars
  BY DEF ApplySystemProjection, liveVars, ledgerIds
<1> DEFINE r == [kind |-> "SYSTEM_PROJECTION_COMMITTED", manifestation |-> manifestation']
<1>2. trace' = Append(trace, r)
  BY DEF ApplySystemProjection
<1>3. ~Creates(r) /\ ~Acknowledges(r)
  BY DEF Creates, Acknowledges
<1> HIDE DEF r
<1> QED
  BY <1>1, <1>2, <1>3, NotedKeeps

\* A new record is in the trace as it is in the ledger.
LEMMA CreateKeeps ==
  ASSUME IInv, NEW d \in RecordDrafts, CreateNameRecord(d)
  PROVE  IInv'
<1> DEFINE record == [claim |-> d.claim, sources |-> d.sources, parents |-> d.parents,
                      plans |-> d.plans, status |-> IF d.confirmed THEN "CONFIRMED" ELSE "DRAFT"]
           r == [kind |-> "NAME_RECORD_CREATED", id |-> recordIds + 1, record |-> record]
           E == Elements(trace)
           F == Elements(trace')
<1>1. /\ recordOf' = Put(recordOf, recordIds + 1, record)
      /\ trace' = Append(trace, r)
      /\ records' = Append(records, recordIds + 1)
      /\ recordIds' = recordIds + 1
      /\ connections' = connections /\ active' = active /\ conflicts' = conflicts /\ acks' = acks
      /\ ackIds' = ackIds /\ lineageIds' = lineageIds
  BY DEF CreateNameRecord
<1>2. /\ IsRecord(record) /\ record.status \in {"DRAFT", "CONFIRMED", "ACKNOWLEDGED"}
      /\ record.claim = d.claim
  BY DEF IsRecord
<1>3. r.id = recordIds + 1 /\ r.record = record /\ Creates(r) /\ ~Acknowledges(r)
  BY DEF Creates, Acknowledges
<1> HIDE DEF record, r
<1>4. /\ IsList(trace') /\ F = E \cup {r}
      /\ IsList(records') /\ Elements(records') = Elements(records) \cup {recordIds + 1}
  BY <1>1, Appended DEF IInv, Listed
<1>5. /\ recordIds \in Nat /\ DOMAIN recordOf \subseteq 1..recordIds
      /\ DOMAIN recordOf' = DOMAIN recordOf \cup {recordIds + 1}
      /\ recordOf'[recordIds + 1] = record
      /\ \A i \in DOMAIN recordOf : recordOf'[i] = recordOf[i]
  <2>1. recordIds \in Nat /\ DOMAIN recordOf \subseteq 1..recordIds
    BY DEF IInv, Listed, Drafted
  <2>2. recordIds + 1 \notin DOMAIN recordOf
    BY <2>1
  <2> QED
    BY <1>1, <2>1, <2>2 DEF Put
<1>6. Listed'
  BY <1>1, <1>4, <1>5 DEF IInv, Listed
<1>7. Drafted'
  <2>1. DOMAIN recordOf' = Elements(records')
    BY <1>4, <1>5 DEF IInv, Drafted
  <2>2. Elements(records') \subseteq 1..recordIds'
    BY <1>1, <1>4, <1>5 DEF IInv, Drafted
  <2> QED
    BY <1>2, <1>5, <2>1, <2>2 DEF IInv, Drafted
<1>8. Numbered' /\ Agreed'
  BY <1>1 DEF IInv, Numbered, Agreed
<1>9. Based'
  BY <1>1, <1>5 DEF IInv, Based
<1>10. Chronicled(E, recordIds) /\ Truthful(E, recordOf)
  BY DEF IInv
<1>11. Chronicled(F, recordIds')
  <2>1. \A x \in E : Creates(x) => x.id \in 1..recordIds' /\ x.id # r.id
    BY <1>1, <1>3, <1>5, <1>10 DEF Chronicled
  <2>2. \A i \in 1..recordIds' : i \in 1..recordIds \/ i = r.id
    BY <1>1, <1>3, <1>5
  <2>3. r.id \in 1..recordIds' /\ 1..recordIds \subseteq 1..recordIds'
    BY <1>1, <1>3, <1>5
  <2> HIDE DEF E, F
  <2> QED
    BY <1>3, <1>4, <1>10, <2>1, <2>2, <2>3 DEF Chronicled
<1>12. Truthful(F, recordOf')
  <2>1. \A x : ToldBy(F, x) = ToldBy(E, x)
    BY <1>3, <1>4 DEF ToldBy
  <2>2. ToldBy(E, r) = record
    <3>1. \A y \in E : Acknowledges(y) => y.ack.record # r.id
      BY <1>3, <1>5, <1>10 DEF Chronicled
    <3> QED
      BY <1>3, <3>1 DEF ToldBy
  <2>3. \A x \in E : Creates(x) => x.id # recordIds + 1
    BY <1>5, <1>10 DEF Chronicled
  <2> HIDE DEF E, F
  <2> QED
    BY <1>3, <1>4, <1>5, <1>10, <2>1, <2>2, <2>3 DEF Truthful
<1> HIDE DEF E
<1> QED
  BY <1>6, <1>7, <1>8, <1>9, <1>11, <1>12 DEF IInv

-----------------------------------------------------------------------------
(* Acknowledgements.                                                       *)

ClashTypes == {"LOGICAL_EXCLUSION", "PHYSICAL_EXCLUSIVITY", "INSTITUTIONAL_EXCLUSIVITY"}

\* The clashes of two claims are of three types, seen from either side.
LEMMA Clashing ==
  ASSUME NEW x, NEW y
  PROVE  /\ Clash(x, y) # None => Clash(x, y) \in ClashTypes
         /\ Agree(x, y) <=> Agree(y, x)
<1>1. LogicallyExclusive(x, y) <=> LogicallyExclusive(y, x)
  BY DEF LogicallyExclusive
<1>2. \A p : Rivals(x, y, p) <=> Rivals(y, x, p)
  BY DEF Rivals
<1>3. SameCapacity(x, y) <=> SameCapacity(y, x)
  BY DEF SameCapacity
<1>4. Clash(x, y) = Clash(y, x)
  BY <1>1, <1>2 DEF Clash
<1>5. Clash(x, y) # None => Clash(x, y) \in ClashTypes
  BY DEF Clash, ClashTypes
<1> QED
  BY <1>3, <1>4, <1>5 DEF Agree

\* Where a plan mitigates a clash of these types, a plan supersedes.
LEMMA MitigationSupersedes ==
  ASSUME NEW type \in ClashTypes
  PROVE  Mitigations(type) \subseteq Superseding
BY DEF ClashTypes, Mitigations, Superseding

\* Every active connection that clashes with a claim is among its conflicts.
LEMMA Foreseen ==
  ASSUME IInv, NEW claim,
         Holds(claim, "CLAIMS_CAPACITY_SLOT_IN") => claim.slots \in Int /\ claim.slots >= 1
  PROVE  /\ IsList(ProspectiveConflicts(claim))
         /\ \A x \in Elements(ProspectiveConflicts(claim)) : x.with \in Elements(active)
         /\ \A c \in Elements(active) :
              \/ Agree(claim, Connection(c).claim)
              \/ \E x \in Elements(ProspectiveConflicts(claim)) : x.with = c /\ x.type \in ClashTypes
<1> DEFINE equals == {c \in Elements(active) : SameCapacity(claim, Connection(c).claim)}
           others == {c \in Elements(active) : Clash(claim, Connection(c).claim) # None} \ equals
           pool   == Inside(active, equals)
           rivals == Inside(active, others)
           crowd  == {Connection(c).claim.subject : c \in Elements(pool)} \cup {claim.subject}
           Entry(c) == [type |-> Clash(claim, Connection(c).claim), with |-> c]
           first  == [i \in DOMAIN rivals |-> Entry(rivals[i])]
           exceeded == Holds(claim, "CLAIMS_CAPACITY_SLOT_IN") /\ Cardinality(crowd) > claim.slots
           last   == [type |-> "DECLARED_CAPACITY_COMPETITION", with |-> Head(pool)]
           rest   == IF exceeded THEN <<last>> ELSE <<>>
<1>1. ProspectiveConflicts(claim) = first \o rest
  BY DEF ProspectiveConflicts
<1>2. /\ IsList(pool) /\ Elements(pool) = equals
      /\ IsList(rivals) /\ Elements(rivals) = others
  BY Sieved DEF IInv, Listed
<1>3. IsList(first) /\ Elements(first) = {Entry(c) : c \in others}
  <2> HIDE DEF Entry, rivals, others
  <2>1. Len(rivals) \in Nat /\ DOMAIN rivals = 1..Len(rivals)
    BY <1>2, ListFacts DEF IsList
  <2>2. others = {rivals[i] : i \in 1..Len(rivals)}
    BY <1>2, <2>1 DEF Elements
  <2>3. first = [i \in 1..Len(rivals) |-> first[i]]
    BY <2>1
  <2>4. \A i \in 1..Len(rivals) : first[i] = Entry(rivals[i])
    BY <2>1
  <2> HIDE DEF first
  <2>5. IsList(first) /\ Elements(first) = {first[i] : i \in 1..Len(rivals)}
    BY <2>1, <2>3, FunctionIsList
  <2> QED
    BY <2>2, <2>4, <2>5
<1>4. ASSUME exceeded
      PROVE  Head(pool) \in Elements(active)
  <2>1. pool # <<>>
    <3> SUFFICES ASSUME pool = <<>>
                 PROVE  FALSE
      OBVIOUS
    <3>1. Elements(pool) = {}
      BY EmptyList
    <3>2. crowd = {claim.subject}
      BY <3>1
    <3>3. Cardinality(crowd) = 1
      BY <3>2, FS_Singleton
    <3> QED
      BY <1>4, <3>3
  <2>2. Head(pool) \in Elements(pool)
    <3> HIDE DEF pool
    <3> QED
      BY <1>2, <2>1, HeadTailProperties DEF IsList
  <2> QED
    BY <1>2, <2>2
<1>5. IsList(rest) /\ \A x \in Elements(rest) : x.with \in Elements(active)
  <2>1. CASE ~exceeded
    <3> HIDE DEF exceeded
    <3> QED
      BY <2>1, EmptyList
  <2>2. CASE exceeded
    <3>1. last.with \in Elements(active)
      BY <1>4, <2>2
    <3> HIDE DEF exceeded, last
    <3> DEFINE e == <<last>>
    <3>2. e \in Seq({last})
      OBVIOUS
    <3>3. rest = e
      BY <2>2
    <3> HIDE DEF e
    <3>4. IsList(e) /\ Elements(e) \subseteq {last}
      BY <3>2, ListFacts
    <3> HIDE DEF rest
    <3> QED
      BY <3>1, <3>3, <3>4
  <2> QED
    BY <2>1, <2>2
<1> DEFINE all == ProspectiveConflicts(claim)
<1>6. IsList(all) /\ Elements(all) = Elements(first) \cup Elements(rest)
  <2> HIDE DEF first, rest
  <2> QED
    BY <1>1, <1>3, <1>5, Concatenated
<1>7. \A x \in Elements(all) : x.with \in Elements(active)
  <2>1. \A x \in Elements(first) : x.with \in Elements(active)
    BY <1>3
  <2> HIDE DEF all, first, rest
  <2> QED
    BY <1>5, <1>6, <2>1
<1>8. ASSUME NEW c \in Elements(active), ~Agree(claim, Connection(c).claim)
      PROVE  \E x \in Elements(all) : x.with = c /\ x.type \in ClashTypes
  <2> DEFINE x == Entry(c)
  <2>1. c \in others /\ Clash(claim, Connection(c).claim) # None
    BY <1>8 DEF Agree
  <2>2. x \in Elements(first)
    BY <1>3, <2>1
  <2>3. x.with = c /\ x.type \in ClashTypes
    BY <2>1, Clashing
  <2> HIDE DEF x, all, first, rest
  <2> QED
    BY <1>6, <2>2, <2>3
<1> QED
  BY <1>6, <1>7, <1>8

\* A list with an entry for each of another.
LEMMA Mapped ==
  ASSUME NEW s, IsList(s), NEW u, u = [i \in DOMAIN s |-> u[i]]
  PROVE  IsList(u) /\ Elements(u) = {u[i] : i \in DOMAIN s}
<1>1. Len(s) \in Nat /\ DOMAIN s = 1..Len(s)
  BY ListFacts DEF IsList
<1> QED
  BY <1>1, FunctionIsList

\* What an acknowledgement supersedes are active connections, and all that
\* its claim does not agree with.
SupersedesRightly(claim, sup) ==
  /\ sup \subseteq Elements(active)
  /\ \A c \in Elements(active) : c \in sup \/ Agree(claim, Connection(c).claim)

\* The plans of a record cover its conflicts one way or the other.
LEMMA Superseded ==
  ASSUME IInv, NEW record,
         Holds(record.claim, "CLAIMS_CAPACITY_SLOT_IN") =>
           record.claim.slots \in Int /\ record.claim.slots >= 1,
         NEW clashes, clashes = ProspectiveConflicts(record.claim),
         \A i \in DOMAIN clashes : record.plans \cap Mitigations(clashes[i].type) # {},
         NEW superseded,
         superseded = IF record.plans \cap Superseding = {} THEN <<>>
                      ELSE [i \in DOMAIN clashes |-> clashes[i].with]
  PROVE  IsList(superseded) /\ SupersedesRightly(record.claim, Elements(superseded))
<1>1. /\ IsList(clashes)
      /\ \A x \in Elements(clashes) : x.with \in Elements(active)
      /\ \A c \in Elements(active) :
           \/ Agree(record.claim, Connection(c).claim)
           \/ \E x \in Elements(clashes) : x.with = c /\ x.type \in ClashTypes
  BY Foreseen
<1>2. CASE record.plans \cap Superseding = {}
  <2>1. IsList(superseded) /\ Elements(superseded) = {}
    BY <1>2, EmptyList
  <2>2. \A x \in Elements(clashes) : record.plans \cap Mitigations(x.type) # {}
    BY DEF Elements
  <2>3. \A x \in Elements(clashes) : x.type \notin ClashTypes
    BY <1>2, <2>2, MitigationSupersedes
  <2> QED
    BY <1>1, <2>1, <2>3 DEF SupersedesRightly
<1>3. CASE record.plans \cap Superseding # {}
  <2>1. /\ superseded = [i \in DOMAIN clashes |-> superseded[i]]
        /\ \A i \in DOMAIN clashes : superseded[i] = clashes[i].with
    BY <1>3
  <2>2. IsList(superseded) /\ Elements(superseded) = {superseded[i] : i \in DOMAIN clashes}
    BY <1>1, <2>1, Mapped
  <2>3. Elements(superseded) = {x.with : x \in Elements(clashes)}
    BY <2>1, <2>2 DEF Elements
  <2> QED
    BY <1>1, <2>2, <2>3 DEF SupersedesRightly
<1> QED
  BY <1>2, <1>3

\* The records of what is archived tell of nothing else.
LEMMA EvictionsAreLists ==
  ASSUME NEW kind, NEW ids, IsList(ids)
  PROVE  /\ IsList(Evictions(kind, ids))
         /\ \A x \in Elements(Evictions(kind, ids)) : x.kind = "LIVE_INDEX_EVICTED"
<1> DEFINE u == Evictions(kind, ids)
<1>1. /\ u = [i \in DOMAIN ids |-> u[i]]
      /\ \A i \in DOMAIN ids : u[i].kind = "LIVE_INDEX_EVICTED"
  BY DEF Evictions
<1> HIDE DEF u
<1>2. IsList(u) /\ Elements(u) = {u[i] : i \in DOMAIN ids}
  BY <1>1, Mapped
<1>3. \A x \in Elements(u) : x.kind = "LIVE_INDEX_EVICTED"
  BY <1>1, <1>2
<1> QED
  BY <1>2, <1>3 DEF u

\* Compaction spares what is active and what it rests on.
LEMMA Spared ==
  ASSUME IsList(records), NEW cs, IsList(cs), NEW act, NEW byId
  PROVE  /\ IsList(IdleConnections(cs, act))
         /\ Elements(IdleConnections(cs, act)) \cap Elements(act) = {}
         /\ IsList(IdleRecords(cs, act, byId))
         /\ \A c \in Elements(act) : Among(cs, c).record \notin Elements(IdleRecords(cs, act, byId))
<1>1. RecentLimit \in Nat
  BY RecentLimitIsPositive
<1> DEFINE ids == [i \in DOMAIN cs |-> cs[i].id]
           idle == Outside(ids, Elements(act))
<1>2. IsList(ids)
  <2>1. ids = [i \in DOMAIN cs |-> ids[i]]
    OBVIOUS
  <2> HIDE DEF ids
  <2> QED
    BY <2>1, Mapped
<1>3. IsList(idle) /\ Elements(idle) \cap Elements(act) = {}
  <2> HIDE DEF ids
  <2> QED
    BY <1>2, Sieved
<1>4. IdleConnections(cs, act) = Oldest(idle, RecentLimit)
  BY DEF IdleConnections
<1> DEFINE rest == {Among(cs, c).record : c \in Elements(act)}
           protected == rest \cup {r \in DOMAIN byId : byId[r].status \in {"DRAFT", "CONFIRMED"}}
           free == Outside(records, protected)
<1>5. IsList(free) /\ Elements(free) \cap protected = {}
  <2> HIDE DEF protected
  <2> QED
    BY Sieved
<1>6. IdleRecords(cs, act, byId) = Oldest(free, RecentLimit)
  BY DEF IdleRecords
<1>7. \A c \in Elements(act) : Among(cs, c).record \in protected
  OBVIOUS
<1> HIDE DEF idle, free, protected
<1> QED
  BY <1>1, <1>3, <1>4, <1>5, <1>6, <1>7, Cut

\* A connection as an acknowledgement leaves it.
Left(c, sup) == IF c.id \in sup THEN [c EXCEPT !.status = "SUPERSEDED"] ELSE c

\* What an acknowledgement of a record by a makes of the ledger: its
\* connection con, those it supersedes, those that go and the records lost.
Outcome(id, con, a, sup, gone, lost) ==
  /\ SupersedesRightly(recordOf[id].claim, sup)
  /\ IsConnection(con) /\ con.id = ackIds + 1 /\ con.claim = recordOf[id].claim
  /\ con.record = id /\ con.status = "ACTIVE" /\ con.lineage \in 1..lineageIds' /\ con.no \in Nat
  /\ ackIds' = ackIds + 1 /\ lineageIds' \in {lineageIds, lineageIds + 1}
  /\ recordIds' = recordIds
  /\ IsList(active') /\ Elements(active') = (Elements(active) \ sup) \cup {con.id}
  /\ IsList(connections')
  /\ Elements(connections') =
       {c \in {Left(d, sup) : d \in Elements(connections)} \cup {con} : c.id \notin gone}
  /\ gone \cap Elements(active') = {}
  /\ recordOf' = Drop([recordOf EXCEPT ![id].status = "ACKNOWLEDGED"], lost)
  /\ IsList(records') /\ Elements(records') = Elements(records) \ lost
  /\ \A c \in Elements(connections') : c.id \in Elements(active') => c.record \notin lost
  /\ IsList(conflicts') /\ IsList(acks')
  /\ Acknowledges(a) /\ ~Creates(a) /\ a.ack.record = id
  /\ IsList(trace') /\ Elements(trace) \cup {a} \subseteq Elements(trace')
  /\ \A x \in Elements(trace') : x \in Elements(trace) \/ x = a \/ x.kind = "LIVE_INDEX_EVICTED"

\* Superseding a connection changes its status only, and a new number keeps
\* the connections apart.
LEMMA StillApart ==
  ASSUME IInv, NEW sup, NEW con, con.id = ackIds + 1
  PROVE  /\ \A d \in Elements(connections) :
              /\ IsConnection(Left(d, sup))
              /\ Left(d, sup).id = d.id /\ Left(d, sup).claim = d.claim
              /\ Left(d, sup).record = d.record /\ Left(d, sup).lineage = d.lineage
              /\ Left(d, sup).no = d.no
              /\ Left(d, sup).status = IF d.id \in sup THEN "SUPERSEDED" ELSE d.status
         /\ \A c, d \in {Left(e, sup) : e \in Elements(connections)} \cup {con} : c.id = d.id => c = d
<1>1. ASSUME NEW d \in Elements(connections)
      PROVE  /\ IsConnection(Left(d, sup))
             /\ Left(d, sup).id = d.id /\ Left(d, sup).claim = d.claim
             /\ Left(d, sup).record = d.record /\ Left(d, sup).lineage = d.lineage
             /\ Left(d, sup).no = d.no
             /\ Left(d, sup).status = IF d.id \in sup THEN "SUPERSEDED" ELSE d.status
             /\ d.id \in 1..ackIds
  <2>1. IsConnection(d) /\ d.id \in 1..ackIds
    BY DEF IInv, Numbered
  <2> DEFINE e == [d EXCEPT !.status = "SUPERSEDED"]
  <2>2. e = [id |-> d.id, claim |-> d.claim, record |-> d.record, status |-> "SUPERSEDED",
             lineage |-> d.lineage, no |-> d.no]
    BY <2>1 DEF IsConnection
  <2>3. CASE d.id \in sup
    <3>1. Left(d, sup) = e
      BY <2>3 DEF Left
    <3> HIDE DEF e
    <3> QED
      BY <2>1, <2>2, <2>3, <3>1 DEF IsConnection
  <2>4. CASE d.id \notin sup
    BY <2>1, <2>4 DEF Left
  <2> QED
    BY <2>3, <2>4
<1>2. ASSUME NEW c \in Elements(connections), NEW d \in Elements(connections), c.id = d.id
      PROVE  c = d
  BY <1>2 DEF IInv, Numbered
<1>3. ackIds \in Nat
  BY DEF IInv, Listed
<1>4. ASSUME NEW c \in {Left(e, sup) : e \in Elements(connections)} \cup {con},
             NEW d \in {Left(e, sup) : e \in Elements(connections)} \cup {con}, c.id = d.id
      PROVE  c = d
  <2>1. ASSUME NEW e \in Elements(connections)
        PROVE  Left(e, sup).id # con.id
    BY <1>1, <1>3
  <2>2. CASE c = con \/ d = con
    BY <1>4, <2>1, <2>2
  <2>3. ASSUME NEW e \in Elements(connections), NEW f \in Elements(connections),
               c = Left(e, sup), d = Left(f, sup)
        PROVE  c = d
    <3>1. e.id = f.id
      BY <1>1, <1>4, <2>3
    <3> QED
      BY <1>2, <2>3, <3>1
  <2> QED
    BY <2>2, <2>3
<1> QED
  BY <1>1, <1>4

\* A trace goes on with a, and then tells only of what is archived.
GoesOn(t, a) ==
  /\ IsList(t) /\ Len(trace) + 1 \in 1..Len(t)
  /\ \A i \in 1..Len(trace) : t[i] = trace[i]
  /\ t[Len(trace) + 1] = a
  /\ \A i \in 1..Len(t) : Len(trace) + 1 < i => t[i].kind = "LIVE_INDEX_EVICTED"

\* It does so when a is appended.
LEMMA GoesOnFirst ==
  ASSUME IsList(trace), NEW a
  PROVE  GoesOn(trace \o <<a>>, a)
<1> DEFINE one == <<a>>
           t == trace \o one
<1>1. one = [i \in 1..1 |-> one[i]] /\ one[1] = a
  OBVIOUS
<1> HIDE DEF one
<1>2. IsList(one) /\ Len(one) = 1
  BY <1>1, FunctionIsList
<1>3. /\ Len(trace) \in Nat /\ Len(trace \o one) = Len(trace) + Len(one)
      /\ \A i \in 1..Len(trace) : (trace \o one)[i] = trace[i]
      /\ \A i \in 1..Len(one) : (trace \o one)[Len(trace) + i] = one[i]
  <2>1. IsList(one)
    BY <1>2
  <2> QED
    BY <2>1, ConcatenatedEntries
<1>4. IsList(t)
  BY <1>2, Concatenated
<1> HIDE DEF t
<1>5. /\ Len(trace) \in Nat /\ Len(t) = Len(trace) + 1
      /\ \A i \in 1..Len(trace) : t[i] = trace[i]
      /\ t[Len(trace) + 1] = a
  BY <1>1, <1>2, <1>3 DEF t
<1>6. Len(trace) + 1 \in 1..Len(t) /\ \A i \in 1..Len(t) : ~(Len(trace) + 1 < i)
  BY <1>5
<1>7. GoesOn(t, a)
  BY <1>4, <1>5, <1>6 DEF GoesOn
<1> QED
  BY <1>7 DEF t, one

\* And it still does when records of what is archived follow.
LEMMA GoesOnWith ==
  ASSUME IsList(trace), NEW a, NEW t, GoesOn(t, a),
         NEW e, IsList(e), \A x \in Elements(e) : x.kind = "LIVE_INDEX_EVICTED"
  PROVE  GoesOn(t \o e, a)
<1>1. /\ IsList(t \o e) /\ Len(trace) \in Nat
      /\ Len(t) \in Nat /\ Len(e) \in Nat /\ Len(t \o e) = Len(t) + Len(e)
      /\ \A i \in 1..Len(t) : (t \o e)[i] = t[i]
      /\ \A i \in 1..Len(e) : (t \o e)[Len(t) + i] = e[i]
  BY Concatenated, ConcatenatedEntries, ListFacts DEF GoesOn, IsList
<1> DEFINE u == t \o e
<1> HIDE DEF u
<1>2. /\ Len(trace) + 1 \in 1..Len(t)
      /\ \A i \in 1..Len(trace) : t[i] = trace[i]
      /\ t[Len(trace) + 1] = a
      /\ \A i \in 1..Len(t) : Len(trace) + 1 < i => t[i].kind = "LIVE_INDEX_EVICTED"
  BY DEF GoesOn
<1>3. /\ IsList(u) /\ Len(u) = Len(t) + Len(e)
      /\ \A i \in 1..Len(t) : u[i] = t[i]
      /\ \A i \in 1..Len(e) : u[Len(t) + i] = e[i]
  BY <1>1 DEF u
<1>4. \A i \in 1..Len(e) : e[i].kind = "LIVE_INDEX_EVICTED"
  BY ListFacts DEF IsList
<1>5. \A i \in 1..Len(trace) : u[i] = trace[i]
  <2>1. \A i \in 1..Len(trace) : i \in 1..Len(t)
    BY <1>1, <1>2
  <2> QED
    BY <1>2, <1>3, <2>1
<1>6. \A i \in 1..Len(u) : Len(trace) + 1 < i => u[i].kind = "LIVE_INDEX_EVICTED"
  <2> TAKE i \in 1..Len(u)
  <2>1. CASE i \in 1..Len(t)
    BY <1>2, <1>3, <2>1
  <2>2. CASE i \notin 1..Len(t)
    <3> DEFINE j == i - Len(t)
    <3>1. j \in 1..Len(e) /\ i = Len(t) + j
      BY <1>1, <1>3, <2>2
    <3> QED
      BY <1>3, <1>4, <3>1
  <2> QED
    BY <2>1, <2>2
<1>7. Len(trace) + 1 \in 1..Len(u) /\ u[Len(trace) + 1] = a
  BY <1>1, <1>2, <1>3
<1>8. GoesOn(u, a)
  BY <1>3, <1>5, <1>6, <1>7 DEF GoesOn
<1> QED
  BY <1>8 DEF u

\* What such a trace tells of.
LEMMA GoesOnTells ==
  ASSUME IsList(trace), NEW a, NEW t, GoesOn(t, a)
  PROVE  /\ Elements(trace) \cup {a} \subseteq Elements(t)
         /\ \A x \in Elements(t) : x \in Elements(trace) \/ x = a \/ x.kind = "LIVE_INDEX_EVICTED"
<1>1. /\ IsList(t) /\ Len(trace) + 1 \in 1..Len(t)
      /\ \A i \in 1..Len(trace) : t[i] = trace[i]
      /\ t[Len(trace) + 1] = a
      /\ \A i \in 1..Len(t) : Len(trace) + 1 < i => t[i].kind = "LIVE_INDEX_EVICTED"
  BY DEF GoesOn
<1>2. /\ Len(trace) \in Nat /\ Len(t) \in Nat
      /\ \A x \in Elements(trace) : \E i \in 1..Len(trace) : x = trace[i]
      /\ \A i \in 1..Len(trace) : trace[i] \in Elements(trace)
      /\ \A x \in Elements(t) : \E i \in 1..Len(t) : x = t[i]
      /\ \A i \in 1..Len(t) : t[i] \in Elements(t)
  BY <1>1, ListFacts DEF IsList
<1>3. Elements(trace) \subseteq Elements(t)
  <2> SUFFICES ASSUME NEW x \in Elements(trace)
               PROVE  x \in Elements(t)
    OBVIOUS
  <2>1. PICK i \in 1..Len(trace) : x = trace[i]
    BY <1>2
  <2>2. i \in 1..Len(t) /\ t[i] = x
    BY <1>1, <1>2, <2>1
  <2> QED
    BY <1>2, <2>2
<1>4. a \in Elements(t)
  BY <1>1, <1>2
<1>5. ASSUME NEW x \in Elements(t)
      PROVE  x \in Elements(trace) \/ x = a \/ x.kind = "LIVE_INDEX_EVICTED"
  <2>1. PICK i \in 1..Len(t) : x = t[i]
    BY <1>2
  <2>2. i \in 1..Len(trace) \/ i = Len(trace) + 1 \/ Len(trace) + 1 < i
    BY <1>2
  <2> QED
    BY <1>1, <1>2, <2>1, <2>2
<1> QED
  BY <1>3, <1>4, <1>5

\* A new connection has a greater number than those it supersedes.
LEMMA Numbering ==
  ASSUME IInv, NEW s, IsList(s), Elements(s) \subseteq Elements(active)
  PROVE  /\ NextNumber(s) \in Nat
         /\ \A c \in Elements(s) : Connection(c).no < NextNumber(s)
<1>1. \A c \in Elements(s) : Connection(c).no \in Nat
  <2> TAKE c \in Elements(s)
  <2>1. PICK d \in Elements(connections) : d.id = c
    BY DEF IInv, Based
  <2>2. Connection(c) = d
    BY <2>1, Found DEF IInv, Listed, Numbered, Connection
  <2> QED
    BY <2>2 DEF IInv, Numbered
<1> DEFINE numbers == {Connection(c).no : c \in Elements(s)}
           list == [i \in DOMAIN s |-> Connection(s[i]).no]
<1>2. NextNumber(s) = IF numbers = {} THEN 1 ELSE 1 + CHOOSE n \in numbers : \A m \in numbers : m <= n
  BY DEF NextNumber
<1>3. IsFiniteSet(numbers) /\ numbers \subseteq Nat
  <2>1. list = [i \in DOMAIN s |-> list[i]]
    OBVIOUS
  <2>2. numbers = {list[i] : i \in DOMAIN s}
    BY DEF Elements
  <2>3. numbers \subseteq Nat
    BY <1>1
  <2> HIDE DEF list, numbers
  <2>4. IsList(list) /\ Elements(list) = numbers
    BY <2>1, <2>2, Mapped
  <2> QED
    BY <2>3, <2>4, ListSize
<1>4. \A c \in Elements(s) : Connection(c).no \in numbers
  OBVIOUS
<1> HIDE DEF numbers
<1>5. CASE numbers = {}
  BY <1>2, <1>4, <1>5
<1>6. CASE numbers # {}
  <2> DEFINE Greatest(n) == \A m \in numbers : m <= n
             top == CHOOSE n \in numbers : Greatest(n)
  <2>1. \E n \in numbers : Greatest(n)
    <3>1. numbers \subseteq Int
      BY <1>3
    <3> QED
      BY <1>3, <1>6, <3>1, HasGreatest
  <2>2. top \in numbers /\ Greatest(top)
    <3> HIDE DEF Greatest
    <3> QED
      BY <2>1
  <2>3. NextNumber(s) = 1 + top
    BY <1>2, <1>6
  <2>4. \A m \in numbers : m <= top
    BY <2>2
  <2> HIDE DEF top, Greatest
  <2>5. top \in Nat /\ NextNumber(s) \in Nat
    BY <1>3, <2>2, <2>3
  <2>6. \A m \in numbers : m \in Nat /\ m < NextNumber(s)
    BY <1>3, <2>3, <2>4, <2>5
  <2> QED
    BY <1>4, <2>5, <2>6
<1> QED
  BY <1>5, <1>6

\* What is kept of connections that are apart stays apart.
LEMMA StayApart ==
  ASSUME NEW cs, IsList(cs), AllApart(cs), NEW S
  PROVE  AllApart(Outside(cs, S))
<1> DEFINE I == {i \in DOMAIN cs : cs[i] \notin S}
           k == Keep(cs, I)
<1>1. Outside(cs, S) = k
  BY DEF Outside
<1> HIDE DEF I
<1>2. PICK e : Selects(e, k, cs, I, Len(cs))
  BY Kept
<1>3. IsList(k) /\ Len(k) \in Nat
  <2>1. IsList(k)
    BY Kept
  <2> QED
    BY <2>1, ListFacts DEF IsList
<1>4. /\ \A j \in 1..Len(k) : e[j] \in 1..Len(cs) /\ k[j] = cs[e[j]]
      /\ \A j, m \in 1..Len(k) : j < m => e[j] < e[m]
  BY <1>2 DEF Selects
<1> HIDE DEF k
<1>5. AllApart(k)
  <2> SUFFICES ASSUME NEW i \in 1..Len(k), NEW j \in 1..Len(k), k[i].id = k[j].id
               PROVE  i = j
    BY DEF AllApart
  <2>1. e[i] = e[j] /\ e[i] \in Int /\ e[j] \in Int
    BY <1>4 DEF AllApart
  <2>2. ~(i < j) /\ ~(j < i)
    BY <1>4, <2>1
  <2> QED
    BY <1>3, <2>2
<1> QED
  BY <1>1, <1>5

\* Compaction leaves, of what it may take, no more than the limit.
Few(s) == IsList(s) /\ Len(s) <= RecentLimit

\* The connections and records that are not protected, less those archived,
\* are a list within the limit.
LEMMA Remaining ==
  ASSUME IsList(records), NEW cs, IsList(cs), NEW act, NEW byId
  PROVE  /\ \E kept : Few(kept) /\ \A c \in Elements(cs) :
              c.id \in Elements(act) \cup Elements(IdleConnections(cs, act)) \cup Elements(kept)
         /\ \E kept : Few(kept) /\ \A r \in Elements(records) :
              \/ r \in Elements(IdleRecords(cs, act, byId)) \cup Elements(kept)
              \/ r \in DOMAIN byId /\ byId[r].status \in {"DRAFT", "CONFIRMED"}
              \/ \E c \in Elements(act) : Among(cs, c).record = r
<1>1. RecentLimit \in Nat
  BY RecentLimitIsPositive
<1>2. ASSUME NEW s, IsList(s)
      PROVE  /\ Few(Newest(s, RecentLimit))
             /\ Elements(s) = Elements(Oldest(s, RecentLimit)) \cup Elements(Newest(s, RecentLimit))
  <2>1. Halved(s, RecentLimit, Oldest(s, RecentLimit), Newest(s, RecentLimit))
    BY <1>1, <1>2, Halves
  <2>2. Elements(s) = Elements(Oldest(s, RecentLimit)) \cup Elements(Newest(s, RecentLimit))
    BY <1>2, <2>1, Parted
  <2>3. Few(Newest(s, RecentLimit))
    BY <1>1, <1>2, NewestFew DEF Few
  <2> QED
    BY <2>2, <2>3
<1> DEFINE ids == [i \in DOMAIN cs |-> cs[i].id]
           idle == Outside(ids, Elements(act))
<1>3. IsList(ids) /\ \A c \in Elements(cs) : c.id \in Elements(ids)
  <2>1. ids = [i \in DOMAIN cs |-> ids[i]]
    OBVIOUS
  <2>2. \A i \in DOMAIN cs : ids[i] = cs[i].id
    OBVIOUS
  <2> HIDE DEF ids
  <2>3. IsList(ids) /\ Elements(ids) = {ids[i] : i \in DOMAIN cs}
    BY <2>1, Mapped
  <2> QED
    BY <2>2, <2>3 DEF Elements
<1>4. IsList(idle) /\ Elements(idle) = Elements(ids) \ Elements(act)
  <2> HIDE DEF ids
  <2> QED
    BY <1>3, Sieved
<1>5. IdleConnections(cs, act) = Oldest(idle, RecentLimit)
  BY DEF IdleConnections
<1> DEFINE rest == {Among(cs, c).record : c \in Elements(act)}
           open == {r \in DOMAIN byId : byId[r].status \in {"DRAFT", "CONFIRMED"}}
           protected == rest \cup open
           free == Outside(records, protected)
<1>6. IsList(free) /\ Elements(free) = Elements(records) \ protected
  <2> HIDE DEF protected
  <2> QED
    BY Sieved
<1>7. IdleRecords(cs, act, byId) = Oldest(free, RecentLimit)
  BY DEF IdleRecords
<1> HIDE DEF idle, free, ids
<1>8. \A c \in Elements(cs) :
        c.id \in Elements(act) \cup Elements(IdleConnections(cs, act)) \cup Elements(Newest(idle, RecentLimit))
  BY <1>2, <1>3, <1>4, <1>5
<1>9. \A r \in Elements(records) :
        \/ r \in Elements(IdleRecords(cs, act, byId)) \cup Elements(Newest(free, RecentLimit))
        \/ r \in protected
  <2> HIDE DEF protected
  <2> QED
    BY <1>2, <1>6, <1>7
<1> QED
  BY <1>2, <1>4, <1>6, <1>8, <1>9

\* The connection con of an acknowledgement comes after those it supersedes,
\* and the trace goes on with a, which tells of it.
Follows(id, con, a, sup) ==
  /\ recordOf[id].status = "CONFIRMED"
  /\ a.connection = con /\ a.ack.id = con.id /\ Elements(a.ack.superseded) = sup
  /\ sup = {} => con.lineage = lineageIds + 1 /\ lineageIds' = lineageIds + 1
  /\ sup # {} => \E h \in sup : con.lineage = Connection(h).lineage
  /\ \A h \in sup : Connection(h).no < con.no
  /\ active' = Append(Outside(active, sup), con.id)
  /\ GoesOn(trace', a)
  /\ Elements(acks') \subseteq Elements(acks) \cup {a.ack}

\* The live indexes hold few entries that could be archived.
Roomy ==
  /\ \E kept : Few(kept) /\ \A c \in Elements(connections) : c.id \in Elements(active) \cup Elements(kept)
  /\ \E kept : Few(kept) /\ \A r \in DOMAIN recordOf :
       \/ r \in Elements(kept)
       \/ recordOf[r].status \in {"DRAFT", "CONFIRMED"}
       \/ \E c \in Elements(connections) : c.id \in Elements(active) /\ c.record = r
  /\ Few(conflicts) /\ Few(acks)

\* What an acknowledgement leaves in them.
Compacts ==
  /\ AllApart(connections) => AllApart(connections')
  /\ Roomy'
  /\ IsList(audit) => IsList(audit') /\ Len(audit') <= AuditLimit

\* An acknowledgement is such an outcome.
LEMMA AcknowledgeTells ==
  ASSUME IInv, NEW id \in DOMAIN recordOf, NEW changes \in Manifestations, Acknowledge(id, changes)
  PROVE  \E con, a, sup, gone, lost :
           Outcome(id, con, a, sup, gone, lost) /\ Follows(id, con, a, sup) /\ Compacts
<1> DEFINE record     == recordOf[id]
           clashes    == ProspectiveConflicts(record.claim)
           superseded == IF record.plans \cap Superseding = {} THEN <<>>
                         ELSE [i \in DOMAIN clashes |-> clashes[i].with]
           ackId      == ackIds + 1
           noted      == [i \in DOMAIN clashes |-> [id |-> conflictIds + i, type |-> clashes[i].type]]
           deltas     == Deltas(changes)
           connection ==
             [id |-> ackId, claim |-> record.claim, record |-> id, status |-> "ACTIVE",
              lineage |-> IF superseded = <<>> THEN lineageIds + 1 ELSE Connection(Head(superseded)).lineage,
              no |-> NextNumber(superseded)]
           ack        == [id |-> ackId, record |-> id, superseded |-> superseded,
                          conflicts |-> [i \in DOMAIN noted |-> noted[i].id]]
           kept       == Retired(connections, Elements(superseded))
           allCons    == Append(kept, connection)
           allActive  == Append(Outside(active, Elements(superseded)), ackId)
           byId       == [recordOf EXCEPT ![id].status = "ACKNOWLEDGED"]
           allAcks    == Append(acks, ack)
           noteAll    == conflicts \o noted
           oldAcks    == Oldest(allAcks, RecentLimit)
           oldCons    == IdleConnections(allCons, allActive)
           oldRecords == IdleRecords(allCons, allActive, byId)
           oldNotes   == Oldest(noteAll, RecentLimit)
           Ids(s)     == [i \in DOMAIN s |-> s[i].id]
           a          == [kind |-> "WORLD_ACKNOWLEDGEMENT_COMMITTED", ack |-> ack,
                          connection |-> connection, conflicts |-> noted, deltas |-> deltas,
                          manifestation |-> manifestation']
           sup        == Elements(superseded)
           gone       == Elements(oldCons)
           lost       == Elements(oldRecords)
<1>1. /\ Acknowledgeable(record)
      /\ \A i \in DOMAIN clashes : record.plans \cap Mitigations(clashes[i].type) # {}
  BY DEF Acknowledge
<1>2. /\ connections' = Outside(allCons, {c \in Elements(allCons) : c.id \in gone})
      /\ active' = allActive
  BY DEF Acknowledge
<1>3. /\ recordOf' = Drop(byId, lost)
      /\ records' = Outside(records, lost)
  BY DEF Acknowledge
<1>4. /\ conflicts' = Newest(noteAll, RecentLimit)
      /\ acks' = Newest(allAcks, RecentLimit)
  BY DEF Acknowledge
<1>5. /\ ackIds' = ackId
      /\ lineageIds' = IF superseded = <<>> THEN lineageIds + 1 ELSE lineageIds
      /\ recordIds' = recordIds
  BY DEF Acknowledge
<1>6. trace' = trace \o <<a>> \o Evictions("WORLD_ACKNOWLEDGEMENT", Ids(oldAcks)) \o
                 Evictions("CONNECTION_VERSION", oldCons) \o
                 Evictions("NAME_RECORD", oldRecords) \o
                 Evictions("MEMORY_CONFLICT", Ids(oldNotes))
  BY DEF Acknowledge
<1>7. /\ ackIds \in Nat /\ lineageIds \in Nat /\ RecentLimit \in Nat
      /\ IsList(trace) /\ IsList(active) /\ IsList(connections) /\ IsList(records)
      /\ IsList(conflicts) /\ IsList(acks)
  BY RecentLimitIsPositive DEF IInv, Listed
<1>8. Holds(record.claim, "CLAIMS_CAPACITY_SLOT_IN") => record.claim.slots \in Int /\ record.claim.slots >= 1
  <2>1. \E d \in RecordDrafts : record.claim = d.claim
    BY DEF IInv, Drafted
  <2> QED
    BY <1>1, <2>1, CapacitiesAreNumbers DEF Acknowledgeable, Holds
<1>9. IsList(superseded) /\ SupersedesRightly(record.claim, sup)
  <2> HIDE DEF record
  <2> QED
    BY <1>1, <1>8, Superseded
<1>10. IsList(clashes)
  <2> HIDE DEF record
  <2> QED
    BY <1>8, Foreseen
<1>11. /\ IsConnection(connection) /\ connection.id = ackIds + 1 /\ connection.claim = record.claim
       /\ connection.record = id /\ connection.status = "ACTIVE"
       /\ connection.no = NextNumber(superseded)
       /\ connection.lineage = IF superseded = <<>> THEN lineageIds + 1
                               ELSE Connection(Head(superseded)).lineage
  <2> HIDE DEF superseded, record
  <2> QED
    BY DEF IsConnection
<1>12. connection.lineage \in 1..lineageIds' /\ lineageIds' \in {lineageIds, lineageIds + 1}
  <2> HIDE DEF superseded, record, connection
  <2>1. CASE superseded = <<>>
    BY <1>5, <1>7, <1>11, <2>1
  <2>2. CASE superseded # <<>>
    <3>1. Head(superseded) \in sup
      BY <1>9, <2>2, HeadTailProperties DEF IsList
    <3>2. PICK c \in Elements(connections) : c.id = Head(superseded)
      BY <1>9, <3>1 DEF SupersedesRightly, IInv, Based
    <3>3. Connection(Head(superseded)) = c
      BY <3>2, Found DEF IInv, Listed, Numbered, Connection
    <3>4. c.lineage \in 1..lineageIds
      BY DEF IInv, Numbered
    <3> QED
      BY <1>5, <1>11, <2>2, <3>3, <3>4
  <2> QED
    BY <2>1, <2>2
<1> DEFINE Changed == {Left(d, sup) : d \in Elements(connections)}
<1>13. IsList(kept) /\ Elements(kept) = Changed
  <2> HIDE DEF superseded
  <2>1. kept = [i \in DOMAIN connections |-> kept[i]]
    BY DEF Retired
  <2>2. \A i \in DOMAIN connections : kept[i] = Left(connections[i], sup)
    BY DEF Left, Retired
  <2> HIDE DEF kept, sup
  <2>3. IsList(kept) /\ Elements(kept) = {kept[i] : i \in DOMAIN connections}
    BY <1>7, <2>1, Mapped
  <2> QED
    BY <2>2, <2>3 DEF Elements
<1>14. IsList(allCons) /\ Elements(allCons) = Changed \cup {connection}
  <2> HIDE DEF kept, connection, Changed
  <2> QED
    BY <1>13, Appended
<1>15. IsList(allActive) /\ Elements(allActive) = (Elements(active) \ sup) \cup {ackIds + 1}
  <2> HIDE DEF sup
  <2>1. IsList(Outside(active, sup)) /\ Elements(Outside(active, sup)) = Elements(active) \ sup
    BY <1>7, Sieved
  <2>2. allActive = Append(Outside(active, sup), ackIds + 1)
    BY DEF sup
  <2> HIDE DEF allActive
  <2> QED
    BY <2>1, <2>2, Appended
<1> HIDE DEF allCons, allActive, byId, record, connection, superseded, clashes
<1>16. /\ IsList(oldCons) /\ gone \cap Elements(allActive) = {}
       /\ IsList(oldRecords)
       /\ \A c \in Elements(allActive) : Among(allCons, c).record \notin lost
  BY <1>7, <1>14, Spared
<1>17. /\ IsList(connections')
       /\ Elements(connections') = {c \in Changed \cup {connection} : c.id \notin gone}
  <2> HIDE DEF gone, Changed
  <2> QED
    BY <1>2, <1>14, Sieved
<1>18. \A c \in Elements(connections') : c.id \in Elements(allActive) => c.record \notin lost
  <2>1. \A c, d \in Elements(allCons) : c.id = d.id => c = d
    BY <1>11, <1>14, StillApart
  <2>2. \A c \in Elements(allCons) : Among(allCons, c.id) = c
    BY <1>14, <2>1, Found
  <2>3. Elements(connections') \subseteq Elements(allCons)
    BY <1>14, <1>17
  <2> HIDE DEF lost
  <2> QED
    BY <1>16, <2>2, <2>3
<1>19. IsList(noted) /\ IsList(noteAll) /\ IsList(oldNotes) /\ IsList(conflicts')
  <2>1. noted = [i \in DOMAIN clashes |-> noted[i]]
    OBVIOUS
  <2> HIDE DEF noted
  <2>2. IsList(noted)
    BY <1>10, <2>1, Mapped
  <2>3. IsList(noteAll)
    BY <1>7, <2>2, Concatenated
  <2> HIDE DEF noteAll
  <2> QED
    BY <1>4, <1>7, <2>2, <2>3, Cut
<1>20. IsList(oldAcks) /\ IsList(acks')
  <2> HIDE DEF ack
  <2>1. IsList(allAcks)
    BY <1>7, Appended
  <2> HIDE DEF allAcks
  <2> QED
    BY <1>4, <1>7, <2>1, Cut
<1>21. Acknowledges(a) /\ ~Creates(a) /\ a.ack.record = id
  <2>1. ack.record = id
    OBVIOUS
  <2> HIDE DEF ack, noted, deltas
  <2> QED
    BY <2>1 DEF Acknowledges, Creates
<1>22. IsList(records') /\ Elements(records') = Elements(records) \ lost
  <2> HIDE DEF lost
  <2> QED
    BY <1>3, <1>7, Sieved
<1> HIDE DEF a, oldAcks, oldNotes
<1>23. /\ IsList(trace') /\ GoesOn(trace', a) /\ Elements(trace) \cup {a} \subseteq Elements(trace')
       /\ \A x \in Elements(trace') : x \in Elements(trace) \/ x = a \/ x.kind = "LIVE_INDEX_EVICTED"
  <2>1. ASSUME NEW s, IsList(s)
        PROVE  IsList(Ids(s))
    <3> DEFINE u == Ids(s)
    <3>1. u = [i \in DOMAIN s |-> u[i]]
      OBVIOUS
    <3> HIDE DEF u
    <3>2. IsList(u)
      BY <2>1, <3>1, Mapped
    <3> QED
      BY <3>2 DEF u
  <2> DEFINE e1 == Evictions("WORLD_ACKNOWLEDGEMENT", Ids(oldAcks))
             e2 == Evictions("CONNECTION_VERSION", oldCons)
             e3 == Evictions("NAME_RECORD", oldRecords)
             e4 == Evictions("MEMORY_CONFLICT", Ids(oldNotes))
  <2>2. /\ IsList(Ids(oldAcks)) /\ IsList(Ids(oldNotes))
    BY <1>19, <1>20, <2>1
  <2>3. /\ IsList(e1) /\ \A x \in Elements(e1) : x.kind = "LIVE_INDEX_EVICTED"
        /\ IsList(e2) /\ \A x \in Elements(e2) : x.kind = "LIVE_INDEX_EVICTED"
        /\ IsList(e3) /\ \A x \in Elements(e3) : x.kind = "LIVE_INDEX_EVICTED"
        /\ IsList(e4) /\ \A x \in Elements(e4) : x.kind = "LIVE_INDEX_EVICTED"
    <3> HIDE DEF Ids, oldCons, oldRecords
    <3> QED
      BY <1>16, <2>2, EvictionsAreLists
  <2> DEFINE one == <<a>>
  <2>4. trace' = trace \o one \o e1 \o e2 \o e3 \o e4
    BY <1>6
  <2>5. GoesOn(trace \o one, a)
    BY <1>7, GoesOnFirst
  <2> HIDE DEF one, e1, e2, e3, e4
  <2>6. GoesOn(trace \o one \o e1, a)
    BY <1>7, <2>3, <2>5, GoesOnWith
  <2>7. GoesOn(trace \o one \o e1 \o e2, a)
    BY <1>7, <2>3, <2>6, GoesOnWith
  <2>8. GoesOn(trace \o one \o e1 \o e2 \o e3, a)
    BY <1>7, <2>3, <2>7, GoesOnWith
  <2>9. GoesOn(trace', a)
    BY <1>7, <2>3, <2>4, <2>8, GoesOnWith
  <2> QED
    BY <1>7, <2>9, GoesOnTells DEF GoesOn
<1>24. connection.no \in Nat /\ \A h \in sup : Connection(h).no < connection.no
  BY <1>9, <1>11, Numbering DEF SupersedesRightly
<1>25. Outcome(id, connection, a, sup, gone, lost)
  <2>1. recordOf' = Drop([recordOf EXCEPT ![id].status = "ACKNOWLEDGED"], lost)
    BY <1>3 DEF byId
  <2>2. recordOf[id].claim = record.claim
    BY DEF record
  <2> HIDE DEF sup, gone, lost, oldCons, oldRecords
  <2> QED
    BY <1>2, <1>5, <1>9, <1>11, <1>12, <1>24, <1>15, <1>16, <1>17, <1>18, <1>19, <1>20, <1>21,
       <1>22, <1>23, <2>1, <2>2 DEF Outcome
<1>26. Follows(id, connection, a, sup)
  <2>1. recordOf[id].status = "CONFIRMED"
    BY <1>1 DEF Acknowledgeable, record
  <2>2. a.connection = connection /\ a.ack = ack
    <3> HIDE DEF ack, noted, deltas
    <3> QED
      BY DEF a
  <2>3. ack.id = ackIds + 1 /\ ack.superseded = superseded
    OBVIOUS
  <2>4. sup = {} => superseded = <<>>
    <3>1. superseded # <<>> => Head(superseded) \in sup
      BY <1>9, HeadTailProperties DEF IsList
    <3> QED
      BY <3>1
  <2>5. sup # {} => superseded # <<>> /\ Head(superseded) \in sup
    <3>1. superseded = <<>> => sup = {}
      BY EmptyList
    <3>2. superseded # <<>> => Head(superseded) \in sup
      BY <1>9, HeadTailProperties DEF IsList
    <3> QED
      BY <3>1, <3>2
  <2>6. active' = Append(Outside(active, sup), connection.id)
    BY <1>2, <1>11 DEF allActive
  <2>7. Elements(acks') \subseteq Elements(acks) \cup {a.ack}
    <3> HIDE DEF ack
    <3>1. IsList(allAcks) /\ Elements(allAcks) = Elements(acks) \cup {ack}
      BY <1>7, Appended
    <3> HIDE DEF allAcks
    <3> QED
      BY <1>4, <1>7, <2>2, <3>1, Cut
  <2>8. Elements(a.ack.superseded) = sup
    BY <2>2, <2>3
  <2> HIDE DEF sup, ack
  <2>9. /\ sup = {} => connection.lineage = lineageIds + 1 /\ lineageIds' = lineageIds + 1
        /\ sup # {} => \E h \in sup : connection.lineage = Connection(h).lineage
    BY <1>5, <1>11, <2>4, <2>5
  <2> QED
    BY <1>11, <1>23, <1>24, <2>1, <2>2, <2>3, <2>6, <2>7, <2>8, <2>9 DEF Follows
<1>27. Compacts
  <2>1. ASSUME AllApart(connections)
        PROVE  AllApart(connections')
    <3>1. \A i \in DOMAIN connections : kept[i].id = connections[i].id
      <4> TAKE i \in DOMAIN connections
      <4>1. connections[i] \in Elements(connections)
        BY DEF Elements
      <4>2. kept[i] = Left(connections[i], Elements(superseded))
        BY DEF Left, Retired
      <4> HIDE DEF kept
      <4> QED
        BY <1>11, <4>1, <4>2, StillApart
    <3>2. DOMAIN kept = DOMAIN connections
      BY DEF Retired
    <3>0. kept = [i \in DOMAIN connections |-> kept[i]]
      BY DEF Retired
    <3> HIDE DEF kept
    <3>3. /\ Len(kept) = Len(connections) /\ Len(kept) \in Nat
          /\ DOMAIN connections = 1..Len(connections)
      <4>1. Len(connections) \in Nat /\ DOMAIN connections = 1..Len(connections)
        BY <1>7, ListFacts DEF IsList
      <4>2. Len(kept) = Len(connections)
        BY <3>0, <4>1, FunctionIsList
      <4> QED
        BY <4>1, <4>2
    <3>4. allCons = Append(kept, connection)
      BY DEF allCons
    <3>5. /\ Len(allCons) = Len(kept) + 1
          /\ \A i \in 1..Len(kept) : allCons[i] = kept[i]
          /\ allCons[Len(kept) + 1] = connection
      BY <1>13, <3>4, AppendedEntries
    <3>6. \A i \in 1..Len(kept) : allCons[i].id = connections[i].id /\ allCons[i].id \in 1..ackIds
      <4> TAKE i \in 1..Len(kept)
      <4>1. i \in DOMAIN connections /\ connections[i] \in Elements(connections)
        BY <3>3 DEF Elements
      <4> QED
        BY <3>1, <3>5, <4>1 DEF IInv, Numbered
    <3>7. AllApart(allCons)
      <4> SUFFICES ASSUME NEW i \in 1..Len(allCons), NEW j \in 1..Len(allCons), allCons[i].id = allCons[j].id
                   PROVE  i = j
        BY DEF AllApart
      <4>1. /\ i \in 1..Len(kept) \/ i = Len(kept) + 1
            /\ j \in 1..Len(kept) \/ j = Len(kept) + 1
        BY <3>3, <3>5
      <4>2. allCons[Len(kept) + 1].id \notin 1..ackIds
        BY <1>7, <1>11, <3>5
      <4>3. CASE i \in 1..Len(kept) /\ j \in 1..Len(kept)
        BY <2>1, <3>3, <3>6, <4>3 DEF AllApart
      <4> QED
        BY <3>6, <4>1, <4>2, <4>3
    <3> QED
      BY <1>2, <1>14, <3>7, StayApart
  <2>2. PICK kc : Few(kc) /\ \A c \in Elements(allCons) :
          c.id \in Elements(allActive) \cup gone \cup Elements(kc)
    BY <1>7, <1>14, Remaining
  <2>3. PICK kr : Few(kr) /\ \A r \in Elements(records) :
          \/ r \in lost \cup Elements(kr)
          \/ r \in DOMAIN byId /\ byId[r].status \in {"DRAFT", "CONFIRMED"}
          \/ \E c \in Elements(allActive) : Among(allCons, c).record = r
    BY <1>7, <1>14, Remaining
  <2> HIDE DEF gone, lost, Changed
  <2>4. \A c \in Elements(connections') : c.id \in Elements(active') \cup Elements(kc)
    BY <1>2, <1>14, <1>17, <2>2
  <2>5. ASSUME NEW r \in DOMAIN recordOf'
        PROVE  \/ r \in Elements(kr)
               \/ recordOf'[r].status \in {"DRAFT", "CONFIRMED"}
               \/ \E c \in Elements(connections') : c.id \in Elements(active') /\ c.record = r
    <3>1. r \in DOMAIN byId /\ r \notin lost /\ recordOf'[r] = byId[r]
      BY <1>3 DEF Drop
    <3>2. r \in Elements(records)
      BY <3>1 DEF byId, IInv, Drafted
    <3>3. ASSUME NEW n \in Elements(allActive), Among(allCons, n).record = r
          PROVE  \E c \in Elements(connections') : c.id \in Elements(active') /\ c.record = r
      <4>1. \E c \in Changed \cup {connection} : c.id = n
        <5>1. CASE n = ackIds + 1
          BY <1>11, <5>1
        <5>2. CASE n \in Elements(active)
          <6>1. PICK d \in Elements(connections) : d.id = n
            BY <5>2 DEF IInv, Based
          <6>2. Left(d, sup) \in Changed /\ Left(d, sup).id = n
            BY <1>11, <6>1, StillApart DEF Changed
          <6> QED
            BY <6>2
        <5> QED
          BY <1>15, <5>1, <5>2
      <4>2. PICK c \in Changed \cup {connection} : c.id = n
        BY <4>1
      <4>3. \A x, y \in Elements(allCons) : x.id = y.id => x = y
        BY <1>11, <1>14, StillApart DEF Changed
      <4>4. Among(allCons, n) = c
        BY <1>14, <4>2, <4>3, Found
      <4>5. c \in Elements(connections')
        BY <1>16, <1>17, <4>2
      <4> QED
        BY <1>2, <3>3, <4>2, <4>4, <4>5
    <3> QED
      BY <2>3, <3>1, <3>2, <3>3
  <2>6. \A u : IsList(u) => Few(Newest(u, RecentLimit))
    <3> TAKE u
    <3> HAVE IsList(u)
    <3> QED
      BY <1>7, NewestFew DEF Few
  <2>7. Few(conflicts') /\ Few(acks')
    <3>1. IsList(allAcks)
      <4> HIDE DEF ack
      <4> QED
        BY <1>7, Appended
    <3> HIDE DEF allAcks, noteAll
    <3> QED
      BY <1>4, <1>19, <2>6, <3>1
  <2>8. ASSUME IsList(audit)
        PROVE  IsList(audit') /\ Len(audit') <= AuditLimit
    <3>1. audit' = Newest(audit \o Ids(deltas), AuditLimit) /\ AuditLimit \in Nat
      BY RecentLimitIsPositive DEF Acknowledge
    <3> DEFINE paths == InOrder(DOMAIN changes)
               u == Ids(deltas)
    <3>2. IsList(paths)
      BY ChangesAreOrdered, Orderly
    <3>3. u = [i \in DOMAIN paths |-> u[i]]
      BY DEF Deltas
    <3> HIDE DEF paths, u
    <3>4. IsList(u)
      BY <3>2, <3>3, Mapped
    <3>5. IsList(audit \o u)
      BY <2>8, <3>4, Concatenated
    <3>6. audit' = Newest(audit \o u, AuditLimit)
      BY <3>1 DEF u
    <3> QED
      BY <3>1, <3>5, <3>6, NewestFew
  <2> QED
    BY <2>1, <2>2, <2>3, <2>4, <2>5, <2>7, <2>8 DEF Compacts, Roomy
<1> QED
  BY <1>25, <1>26, <1>27

\* An outcome leaves the records true to the trace.
LEMMA OutcomeTold ==
  ASSUME IInv, NEW id \in DOMAIN recordOf, NEW con, NEW a, NEW sup, NEW gone, NEW lost,
         Outcome(id, con, a, sup, gone, lost)
  PROVE  /\ DOMAIN recordOf' = DOMAIN recordOf \ lost
         /\ \A r \in DOMAIN recordOf' :
              recordOf'[r] = IF r = id THEN [recordOf[id] EXCEPT !.status = "ACKNOWLEDGED"] ELSE recordOf[r]
         /\ Chronicled(Elements(trace'), recordIds') /\ Truthful(Elements(trace'), recordOf')
<1>1. /\ recordOf' = Drop([recordOf EXCEPT ![id].status = "ACKNOWLEDGED"], lost)
      /\ recordIds' = recordIds
      /\ Acknowledges(a) /\ ~Creates(a) /\ a.ack.record = id
      /\ Elements(trace) \cup {a} \subseteq Elements(trace')
      /\ \A x \in Elements(trace') : x \in Elements(trace) \/ x = a \/ x.kind = "LIVE_INDEX_EVICTED"
  BY DEF Outcome
<1> DEFINE E == Elements(trace)
           F == Elements(trace')
           Marked(r) == [r EXCEPT !.status = "ACKNOWLEDGED"]
<1>2. /\ DOMAIN recordOf' = DOMAIN recordOf \ lost
      /\ \A r \in DOMAIN recordOf' : recordOf'[r] = IF r = id THEN Marked(recordOf[id]) ELSE recordOf[r]
  BY <1>1 DEF Drop
<1>3. Chronicled(E, recordIds) /\ Truthful(E, recordOf)
  BY DEF IInv
<1>4. id \in 1..recordIds
  BY DEF IInv, Drafted
<1>5. /\ \A x \in F : Creates(x) => x \in E
      /\ \A x \in F : Acknowledges(x) => x \in E \/ x = a
      /\ E \subseteq F /\ a \in F
  BY <1>1 DEF Creates, Acknowledges
<1> HIDE DEF E, F
<1>6. Chronicled(F, recordIds')
  BY <1>1, <1>3, <1>4, <1>5 DEF Chronicled
<1>7. Truthful(F, recordOf')
  <2> SUFFICES ASSUME NEW x \in F, Creates(x), x.id \in DOMAIN recordOf'
               PROVE  recordOf'[x.id] = ToldBy(F, x)
    BY DEF Truthful
  <2>1. x \in E /\ x.id \in DOMAIN recordOf /\ recordOf[x.id] = ToldBy(E, x)
    BY <1>2, <1>3, <1>5 DEF Truthful
  <2>2. CASE x.id = id
    <3>1. ToldBy(F, x) = Marked(x.record)
      BY <1>1, <1>5, <2>2 DEF ToldBy
    <3>2. recordOf[id] = x.record \/ recordOf[id] = Marked(x.record)
      BY <2>1, <2>2 DEF ToldBy
    <3>3. Marked(Marked(x.record)) = Marked(x.record)
      OBVIOUS
    <3> HIDE DEF Marked
    <3> QED
      BY <1>2, <2>2, <3>1, <3>2, <3>3
  <2>3. CASE x.id # id
    <3>1. ToldBy(F, x) = ToldBy(E, x)
      BY <1>1, <1>5, <2>3 DEF ToldBy
    <3> HIDE DEF Marked
    <3> QED
      BY <1>2, <2>1, <2>3, <3>1
  <2> QED
    BY <2>2, <2>3
<1> QED
  BY <1>2, <1>6, <1>7 DEF F

\* An outcome leaves the connections as they should be.
LEMMA OutcomeKeeps ==
  ASSUME IInv, NEW id \in DOMAIN recordOf, NEW con, NEW a, NEW sup, NEW gone, NEW lost,
         Outcome(id, con, a, sup, gone, lost)
  PROVE  IInv'
<1>1. /\ ackIds \in Nat /\ lineageIds \in Nat /\ recordIds \in Nat
      /\ ackIds' = ackIds + 1 /\ recordIds' = recordIds
      /\ lineageIds' \in Nat /\ lineageIds <= lineageIds'
  BY DEF IInv, Listed, Outcome
<1>2. Listed'
  BY <1>1 DEF Listed, Outcome
<1>3. /\ DOMAIN recordOf' = DOMAIN recordOf \ lost
      /\ \A r \in DOMAIN recordOf' :
           recordOf'[r] = IF r = id THEN [recordOf[id] EXCEPT !.status = "ACKNOWLEDGED"] ELSE recordOf[r]
      /\ Chronicled(Elements(trace'), recordIds') /\ Truthful(Elements(trace'), recordOf')
  BY OutcomeTold
<1>4. \A r \in DOMAIN recordOf' :
        /\ IsRecord(recordOf'[r]) /\ recordOf'[r].claim = recordOf[r].claim
        /\ recordOf'[r].status = IF r = id THEN "ACKNOWLEDGED" ELSE recordOf[r].status
  <2> TAKE r \in DOMAIN recordOf'
  <2>1. IsRecord(recordOf[r]) /\ r \in DOMAIN recordOf
    BY <1>3 DEF IInv, Drafted
  <2>2. CASE r = id
    <3> DEFINE e == [recordOf[id] EXCEPT !.status = "ACKNOWLEDGED"]
               o == recordOf[id]
    <3>1. e = [claim |-> o.claim, sources |-> o.sources, parents |-> o.parents,
               plans |-> o.plans, status |-> "ACKNOWLEDGED"]
      BY <2>1, <2>2 DEF IsRecord
    <3>2. recordOf'[r] = e
      BY <1>3, <2>2
    <3> HIDE DEF e
    <3> QED
      BY <2>2, <3>1, <3>2 DEF IsRecord
  <2>3. CASE r # id
    BY <1>3, <2>1, <2>3
  <2> QED
    BY <2>2, <2>3
<1>5. Drafted'
  <2>1. DOMAIN recordOf' = Elements(records') /\ Elements(records') \subseteq 1..recordIds'
    BY <1>1, <1>3 DEF IInv, Drafted, Outcome
  <2> QED
    BY <1>3, <1>4, <2>1 DEF IInv, Drafted
<1> DEFINE Changed == {Left(d, sup) : d \in Elements(connections)}
<1>6. /\ IsConnection(con) /\ con.id = ackIds + 1 /\ con.claim = recordOf[id].claim
      /\ con.record = id /\ con.status = "ACTIVE" /\ con.lineage \in 1..lineageIds' /\ con.no \in Nat
      /\ Elements(active') = (Elements(active) \ sup) \cup {con.id}
      /\ Elements(connections') = {c \in Changed \cup {con} : c.id \notin gone}
      /\ gone \cap Elements(active') = {}
      /\ \A c \in Elements(connections') : c.id \in Elements(active') => c.record \notin lost
  BY DEF Outcome
<1>7. /\ \A d \in Elements(connections) :
           /\ IsConnection(Left(d, sup))
           /\ Left(d, sup).id = d.id /\ Left(d, sup).claim = d.claim
           /\ Left(d, sup).record = d.record /\ Left(d, sup).lineage = d.lineage
           /\ Left(d, sup).no = d.no
           /\ Left(d, sup).status = IF d.id \in sup THEN "SUPERSEDED" ELSE d.status
      /\ \A c, d \in Changed \cup {con} : c.id = d.id => c = d
  BY <1>6, StillApart
<1>8. \A d \in Elements(connections) :
        /\ d.id \in 1..ackIds /\ d.id # con.id /\ d.lineage \in 1..lineageIds /\ d.no \in Nat
        /\ d.status \in {"ACTIVE", "SUPERSEDED"}
  BY <1>1, <1>6 DEF IInv, Numbered
<1>9. Numbered'
  <2>1. ASSUME NEW c \in Elements(connections')
        PROVE  /\ IsConnection(c) /\ c.id \in 1..ackIds' /\ c.lineage \in 1..lineageIds' /\ c.no \in Nat
               /\ c.status \in {"ACTIVE", "SUPERSEDED"}
    <3>1. CASE c = con
      BY <1>1, <1>6, <3>1
    <3>2. ASSUME NEW d \in Elements(connections), c = Left(d, sup)
          PROVE  /\ IsConnection(c) /\ c.id \in 1..ackIds' /\ c.lineage \in 1..lineageIds' /\ c.no \in Nat
                 /\ c.status \in {"ACTIVE", "SUPERSEDED"}
      <4>1. d.id \in 1..ackIds' /\ d.lineage \in 1..lineageIds'
        BY <1>1, <1>8
      <4> QED
        BY <1>7, <1>8, <3>2, <4>1
    <3> QED
      BY <1>6, <3>1, <3>2
  <2>2. \A c, d \in Elements(connections') : c.id = d.id => c = d
    BY <1>6, <1>7
  <2> QED
    BY <2>1, <2>2 DEF Numbered
<1>10. Based'
  <2> SUFFICES ASSUME NEW n \in Elements(active')
               PROVE  \E c \in Elements(connections') :
                        /\ c.id = n /\ c.status = "ACTIVE"
                        /\ c.record \in DOMAIN recordOf' /\ recordOf'[c.record].status = "ACKNOWLEDGED"
    BY DEF Based
  <2>1. CASE n = con.id
    <3>1. con \in Elements(connections')
      BY <1>6
    <3>2. id \in DOMAIN recordOf'
      BY <1>3, <1>6, <3>1
    <3> QED
      BY <1>4, <1>6, <2>1, <3>1, <3>2
  <2>2. CASE n \in Elements(active) \ sup
    <3>1. PICK d \in Elements(connections) :
            /\ d.id = n /\ d.status = "ACTIVE"
            /\ d.record \in DOMAIN recordOf /\ recordOf[d.record].status = "ACKNOWLEDGED"
      BY <2>2 DEF IInv, Based
    <3> DEFINE c == Left(d, sup)
    <3>2. /\ c \in Changed /\ c.id = n /\ c.status = "ACTIVE" /\ c.record = d.record
      BY <1>7, <2>2, <3>1
    <3> HIDE DEF c, Changed
    <3>3. c \in Elements(connections')
      BY <1>6, <3>2
    <3>4. c.record \in DOMAIN recordOf'
      BY <1>3, <1>6, <3>1, <3>2, <3>3
    <3> QED
      BY <1>4, <3>1, <3>2, <3>3, <3>4
  <2> QED
    BY <1>6, <2>1, <2>2
<1>11. ASSUME NEW d \in Elements(connections), d.id \in Elements(active')
       PROVE  d.id \in Elements(active) /\ Agree(con.claim, d.claim)
  <2>1. d.id \in Elements(active) \ sup
    BY <1>6, <1>8, <1>11
  <2>2. Connection(d.id) = d
    BY Found DEF IInv, Listed, Numbered, Connection
  <2>3. SupersedesRightly(con.claim, sup)
    BY <1>6 DEF Outcome
  <2> QED
    BY <2>1, <2>2, <2>3 DEF SupersedesRightly
<1>12. Agreed'
  <2> SUFFICES ASSUME NEW c \in Elements(connections'), NEW d \in Elements(connections'),
                      c.id \in Elements(active'), d.id \in Elements(active')
               PROVE  c.id = d.id \/ Agree(c.claim, d.claim)
    BY DEF Agreed
  <2>1. CASE c = con /\ d = con
    BY <2>1
  <2>2. ASSUME NEW e \in Elements(connections), d = Left(e, sup), c = con
        PROVE  Agree(c.claim, d.claim)
    BY <1>7, <1>11, <2>2
  <2>3. ASSUME NEW e \in Elements(connections), c = Left(e, sup), d = con
        PROVE  Agree(c.claim, d.claim)
    BY <1>7, <1>11, <2>3, Clashing
  <2>4. ASSUME NEW e \in Elements(connections), NEW f \in Elements(connections),
               c = Left(e, sup), d = Left(f, sup)
        PROVE  c.id = d.id \/ Agree(c.claim, d.claim)
    BY <1>7, <1>11, <2>4 DEF IInv, Agreed
  <2> QED
    BY <1>6, <2>1, <2>2, <2>3, <2>4
<1> QED
  BY <1>2, <1>3, <1>5, <1>9, <1>10, <1>12 DEF IInv

-----------------------------------------------------------------------------
(* The theorems.                                                           *)

\* An empty ledger satisfies the invariant.
LEMMA InitHolds == Init => IInv
<1> SUFFICES ASSUME Init
             PROVE  IInv
  OBVIOUS
<1> DEFINE e == <<>>
<1>1. /\ trace = e /\ records = e /\ recordOf = e /\ connections = e /\ active = e
      /\ conflicts = e /\ acks = e /\ recordIds = 0 /\ ackIds = 0 /\ lineageIds = 0
  BY DEF Init, OccurrencesInit
<1>2. IsList(e) /\ Elements(e) = {} /\ DOMAIN e = {}
  BY EmptyList
<1> HIDE DEF e
<1>3. Listed
  BY <1>1, <1>2 DEF Listed
<1>4. Drafted
  BY <1>1, <1>2 DEF Drafted
<1>5. Numbered /\ Based /\ Agreed
  BY <1>1, <1>2 DEF Numbered, Based, Agreed
<1>6. Chronicled(Elements(trace), recordIds) /\ Truthful(Elements(trace), recordOf)
  BY <1>1, <1>2 DEF Chronicled, Truthful
<1> QED
  BY <1>3, <1>4, <1>5, <1>6 DEF IInv

\* No step leaves the invariant.
LEMMA NextKeeps == IInv /\ [Next]_vars => IInv'
<1> SUFFICES ASSUME IInv, [Next]_vars
             PROVE  IInv'
  OBVIOUS
<1>1. CASE Occur
  BY <1>1, OccurKeeps
<1>2. ASSUME NEW d \in RecordDrafts, CreateNameRecord(d)
      PROVE  IInv'
  BY <1>2, CreateKeeps
<1>3. ASSUME NEW id \in DOMAIN recordOf, NEW changes \in Manifestations, Acknowledge(id, changes)
      PROVE  IInv'
  BY <1>3, AcknowledgeTells, OutcomeKeeps
<1>4. ASSUME NEW changes \in Manifestations, ApplySystemProjection(changes)
      PROVE  IInv'
  BY <1>4, ProjectionKeeps
<1>5. CASE UNCHANGED vars
  <2>1. UNCHANGED liveVars /\ trace' = trace
    BY <1>5 DEF vars, liveVars, ledgerVars, ledgerIds
  <2> QED
    BY <2>1, NotedKeeps
<1> QED
  BY <1>1, <1>2, <1>3, <1>4, <1>5 DEF Next

\* What is active stays live, and rests on a live, acknowledged record:
\* compaction never takes what a later acknowledgement will look up.
THEOREM LedgerTypeCorrect == Spec => []TypeOK
<1> QED
  BY InitHolds, NextKeeps, Properties, PTL DEF Spec

\* Whatever is acknowledged in whatever order, no two active connections
\* contradict each other or hold one room or office for two subjects,
\* although acknowledge_name_record compares the new claim only.
THEOREM ClashesAreSettled == Spec => []NoOpenClash
<1> QED
  BY InitHolds, NextKeeps, Properties, PTL DEF Spec

\* Whatever was archived, get_name_record answers for every id what the
\* history says of it.
THEOREM RecordsTellHistory == Spec => []RecordLookupIsHistory
<1> QED
  BY InitHolds, NextKeeps, Properties, PTL DEF Spec

-----------------------------------------------------------------------------
(* The bounds of the live indexes.                                         *)

\* Connections keep the order of their numbers, and the lists have room.
Tidy ==
  /\ AllApart(connections) /\ Roomy
  /\ IsList(audit) /\ Len(audit) <= AuditLimit

\* The indexes stay within their bounds.
LEMMA TidyBounds == IInv /\ Tidy => LiveLedgerBounded
<1> SUFFICES ASSUME IInv, Tidy
             PROVE  LiveLedgerBounded
  OBVIOUS
<1>1. RecentLimit \in Nat
  BY RecentLimitIsPositive
<1>2. ASSUME NEW kept, Few(kept), NEW S, S \subseteq Elements(kept)
      PROVE  IsFiniteSet(S) /\ Cardinality(S) <= RecentLimit
  <2>1. IsFiniteSet(Elements(kept)) /\ Cardinality(Elements(kept)) <= Len(kept) /\ Len(kept) <= RecentLimit
    BY <1>2, ListSize DEF Few
  <2>2. Len(kept) \in Nat /\ Cardinality(Elements(kept)) \in Nat
    BY <1>2, <2>1, FS_CardinalityType, ListFacts DEF Few, IsList
  <2>3. IsFiniteSet(S) /\ Cardinality(S) <= Cardinality(Elements(kept)) /\ Cardinality(S) \in Nat
    BY <1>2, <2>1, FS_Subset, FS_CardinalityType
  <2> QED
    BY <1>1, <2>1, <2>2, <2>3
<1>3. \A c \in Elements(connections) : Connection(c.id) = c
  BY Found DEF IInv, Listed, Numbered, Connection
<1> DEFINE S == {i \in DOMAIN connections : connections[i].id \notin Elements(active)}
<1>4. Cardinality(S) <= RecentLimit
  <2>1. PICK kept : Few(kept) /\ \A c \in Elements(connections) : c.id \in Elements(active) \cup Elements(kept)
    BY DEF Tidy, Roomy
  <2> DEFINE T == {connections[i].id : i \in S}
             f == [i \in S |-> connections[i].id]
  <2>2. T \subseteq Elements(kept)
    BY <2>1 DEF Elements
  <2>3. IsFiniteSet(T) /\ Cardinality(T) <= RecentLimit
    <3> HIDE DEF T
    <3> QED
      BY <1>2, <2>1, <2>2
  <2>4. f \in Injection(S, T)
    <3>1. f \in [S -> T]
      OBVIOUS
    <3>2. \A i, j \in S : f[i] = f[j] => i = j
      <4>1. DOMAIN connections = 1..Len(connections)
        BY ListFacts DEF IsList, IInv, Listed
      <4> QED
        BY <4>1 DEF Tidy, AllApart
    <3> HIDE DEF f, S, T
    <3> QED
      BY <3>1, <3>2 DEF Injection, IsInjective
  <2> HIDE DEF f, S, T
  <2>5. IsFiniteSet(S) /\ Cardinality(S) <= Cardinality(T)
    BY <2>3, <2>4, FS_Injection
  <2>6. Cardinality(S) \in Nat /\ Cardinality(T) \in Nat
    BY <2>3, <2>5, FS_CardinalityType
  <2> QED
    BY <1>1, <2>3, <2>5, <2>6
<1> DEFINE R == {r \in DOMAIN recordOf : /\ recordOf[r].status = "ACKNOWLEDGED"
                                         /\ \A c \in Elements(active) : Connection(c).record # r}
<1>5. Cardinality(R) <= RecentLimit
  <2>1. PICK kept : Few(kept) /\ \A r \in DOMAIN recordOf :
          \/ r \in Elements(kept)
          \/ recordOf[r].status \in {"DRAFT", "CONFIRMED"}
          \/ \E c \in Elements(connections) : c.id \in Elements(active) /\ c.record = r
    BY DEF Tidy, Roomy
  <2>2. R \subseteq Elements(kept)
    BY <1>3, <2>1
  <2> HIDE DEF R
  <2> QED
    BY <1>2, <2>1, <2>2
<1> QED
  BY <1>4, <1>5 DEF LiveLedgerBounded, Tidy, Roomy, Few

\* They are so at first.
LEMMA TidyInit == Init => Tidy
<1> SUFFICES ASSUME Init
             PROVE  Tidy
  OBVIOUS
<1> DEFINE e == <<>>
<1>1. /\ connections = e /\ active = e /\ conflicts = e /\ acks = e /\ audit = e /\ recordOf = e
  BY DEF Init
<1>2. IsList(e) /\ Elements(e) = {} /\ DOMAIN e = {} /\ Len(e) = 0
  BY EmptyList
<1> HIDE DEF e
<1>3. Few(e) /\ Len(e) <= AuditLimit
  BY <1>2, RecentLimitIsPositive DEF Few
<1>4. AllApart(connections)
  BY <1>1, <1>2 DEF AllApart
<1>5. Roomy
  BY <1>1, <1>2, <1>3 DEF Roomy
<1> QED
  BY <1>1, <1>2, <1>3, <1>4, <1>5 DEF Tidy

\* And every step leaves them so.
LEMMA TidyKept == IInv /\ Tidy /\ [Next]_vars => Tidy'
<1> SUFFICES ASSUME IInv, Tidy, [Next]_vars
             PROVE  Tidy'
  OBVIOUS
<1>1. ASSUME UNCHANGED <<connections, active, conflicts, acks, audit, recordOf>>
      PROVE  Tidy'
  BY <1>1 DEF Tidy, Roomy, AllApart
<1>2. CASE Occur
  BY <1>1, <1>2 DEF Occur, ledgerVars
<1>3. ASSUME NEW d \in RecordDrafts, CreateNameRecord(d)
      PROVE  Tidy'
  <2> DEFINE record == [claim |-> d.claim, sources |-> d.sources, parents |-> d.parents,
                        plans |-> d.plans, status |-> IF d.confirmed THEN "CONFIRMED" ELSE "DRAFT"]
  <2>1. /\ UNCHANGED <<connections, active, conflicts, acks, audit>>
        /\ recordOf' = Put(recordOf, recordIds + 1, record)
    BY <1>3 DEF CreateNameRecord
  <2>2. record.status \in {"DRAFT", "CONFIRMED"}
    OBVIOUS
  <2> HIDE DEF record
  <2>3. \A r \in DOMAIN recordOf' :
          \/ recordOf'[r].status \in {"DRAFT", "CONFIRMED"}
          \/ r \in DOMAIN recordOf /\ recordOf'[r] = recordOf[r]
    BY <2>1, <2>2 DEF Put
  <2>4. AllApart(connections)' /\ IsList(audit)' /\ Len(audit)' <= AuditLimit
    BY <2>1 DEF Tidy
  <2>5. Roomy'
    BY <2>1, <2>3 DEF Tidy, Roomy
  <2> QED
    BY <2>4, <2>5 DEF Tidy
<1>4. ASSUME NEW id \in DOMAIN recordOf, NEW changes \in Manifestations, Acknowledge(id, changes)
      PROVE  Tidy'
  <2>1. Compacts
    BY <1>4, AcknowledgeTells
  <2> QED
    BY <2>1 DEF Compacts, Tidy
<1>5. ASSUME NEW changes \in Manifestations, ApplySystemProjection(changes)
      PROVE  Tidy'
  BY <1>1, <1>5 DEF ApplySystemProjection
<1>6. CASE UNCHANGED vars
  BY <1>1, <1>6 DEF vars, ledgerVars
<1> QED
  BY <1>2, <1>3, <1>4, <1>5, <1>6 DEF Next

\* Whatever is established and superseded, the connections and the records
\* that nothing holds, the conflicts, the acknowledgements and the audit stay
\* within the bounds that the compaction of every acknowledgement keeps.
THEOREM LiveLedgerIsBounded == Spec => []LiveLedgerBounded
<1> QED
  BY InitHolds, NextKeeps, TidyInit, TidyKept, TidyBounds, PTL DEF Spec

-----------------------------------------------------------------------------
(* The history of the connections.                                         *)

\* Acknowledgements are numbered in the order of the trace.
Ordered(t) ==
  \A i, j \in 1..Len(t) :
    i < j /\ Acknowledges(t[i]) /\ Acknowledges(t[j]) => t[i].connection.id < t[j].connection.id

\* Each is numbered by the counters, of a record of its own, and tells of its
\* connection as it is.
Committed(E) ==
  /\ \A x \in E : Acknowledges(x) =>
       /\ x.connection.id \in 1..ackIds /\ x.connection.lineage \in 1..lineageIds
       /\ x.connection.no \in Nat /\ Elements(x.ack.superseded) \subseteq 1..ackIds
  /\ \A x, y \in E : Acknowledges(x) /\ Acknowledges(y) =>
       (x.connection.id = y.connection.id \/ x.ack.record = y.ack.record => x = y)
  /\ \A c \in Elements(connections) : \E x \in E :
       /\ Acknowledges(x) /\ x.connection.id = c.id
       /\ x.connection.lineage = c.lineage /\ x.connection.no = c.no

\* The later of two connections of a lineage has the greater number, and the
\* earlier one is not active.
Linear(E) ==
  \A x, y \in E :
    /\ Acknowledges(x) /\ Acknowledges(y)
    /\ x.connection.lineage = y.connection.lineage /\ x.connection.id < y.connection.id
    => x.connection.no < y.connection.no /\ x.connection.id \notin Elements(active)

\* What is active was established, and never superseded.
Unsuperseded(E) ==
  /\ Increasing(active)
  /\ \A n : n \in Elements(active) <=>
       /\ \E x \in E : Acknowledges(x) /\ x.connection.id = n
       /\ \A y \in E : Acknowledges(y) => n \notin Elements(y.ack.superseded)

\* No record is created acknowledged.
Unacknowledged(E) ==
  \A x \in E : Creates(x) => IsRecord(x.record) /\ x.record.status \in {"DRAFT", "CONFIRMED"}

History ==
  /\ Ordered(trace) /\ Committed(Elements(trace)) /\ Linear(Elements(trace))
  /\ Unsuperseded(Elements(trace)) /\ Unacknowledged(Elements(trace))

\* The history is empty at first.
LEMMA HistoryInit == Init => History
<1> SUFFICES ASSUME Init
             PROVE  History
  OBVIOUS
<1> DEFINE e == <<>>
<1>1. trace = e /\ active = e /\ connections = e
  BY DEF Init, OccurrencesInit
<1>2. IsList(e) /\ Elements(e) = {} /\ Len(e) = 0
  BY EmptyList
<1> HIDE DEF e
<1>3. Ordered(e) /\ Increasing(e)
  BY <1>2 DEF Ordered, Increasing
<1> QED
  BY <1>1, <1>2, <1>3 DEF History, Committed, Linear, Unsuperseded, Unacknowledged

\* A step that acknowledges nothing leaves it as it is.
LEMMA HistoryStays ==
  ASSUME IInv, History, UNCHANGED <<connections, active, ackIds, lineageIds>>,
         \/ trace' = trace
         \/ \E r : /\ trace' = Append(trace, r) /\ ~Acknowledges(r)
                   /\ Creates(r) => IsRecord(r.record) /\ r.record.status \in {"DRAFT", "CONFIRMED"}
  PROVE  History'
<1> DEFINE E == Elements(trace)
           F == Elements(trace')
<1>1. ASSUME NEW r, trace' = Append(trace, r), ~Acknowledges(r),
             Creates(r) => IsRecord(r.record) /\ r.record.status \in {"DRAFT", "CONFIRMED"}
      PROVE  /\ Ordered(trace') /\ Unacknowledged(F) /\ E \subseteq F
             /\ \A x \in F : Acknowledges(x) => x \in E
  <2>1. F = E \cup {r}
    BY <1>1, Appended DEF IInv, Listed
  <2>2. /\ Len(trace) \in Nat /\ Len(trace') = Len(trace) + 1
        /\ \A i \in 1..Len(trace) : trace'[i] = trace[i]
        /\ trace'[Len(trace) + 1] = r
    BY <1>1, AppendedEntries DEF IInv, Listed
  <2>3. Ordered(trace')
    <3> SUFFICES ASSUME NEW i \in 1..Len(trace'), NEW j \in 1..Len(trace'),
                        i < j, Acknowledges(trace'[i]), Acknowledges(trace'[j])
                 PROVE  trace'[i].connection.id < trace'[j].connection.id
      BY DEF Ordered
    <3>1. j # Len(trace) + 1
      BY <1>1, <2>2
    <3>2. i \in 1..Len(trace) /\ j \in 1..Len(trace)
      BY <2>2, <3>1
    <3> QED
      BY <2>2, <3>2 DEF History, Ordered
  <2>4. Unacknowledged(F)
    BY <1>1, <2>1 DEF History, Unacknowledged
  <2> QED
    BY <1>1, <2>1, <2>3, <2>4
<1>2. /\ Ordered(trace') /\ Unacknowledged(F) /\ E \subseteq F
      /\ \A x \in F : Acknowledges(x) => x \in E
  <2>1. CASE trace' = trace
    BY <2>1 DEF History
  <2> QED
    BY <1>1, <2>1
<1>3. Committed(E) /\ Linear(E) /\ Unsuperseded(E)
  BY DEF History
<1> HIDE DEF E, F
<1>4. Committed(Elements(trace))'
  BY <1>2, <1>3 DEF Committed, F
<1>5. Linear(Elements(trace))'
  BY <1>2, <1>3 DEF Linear, F
<1>6. Unsuperseded(Elements(trace))'
  BY <1>2, <1>3 DEF Unsuperseded, F
<1> QED
  BY <1>2, <1>4, <1>5, <1>6 DEF History, F

\* A confirmed record was not acknowledged before.
LEMMA NeverAcknowledged ==
  ASSUME IInv, History, NEW id \in DOMAIN recordOf, recordOf[id].status = "CONFIRMED"
  PROVE  \A y \in Elements(trace) : Acknowledges(y) => y.ack.record # id
<1>1. id \in 1..recordIds
  BY DEF IInv, Drafted
<1>2. PICK x \in Elements(trace) : Creates(x) /\ x.id = id
  BY <1>1 DEF IInv, Chronicled
<1>3. recordOf[id] = ToldBy(Elements(trace), x)
  BY <1>2 DEF IInv, Truthful
<1>4. IsRecord(x.record)
  BY <1>2 DEF History, Unacknowledged
<1> DEFINE o == x.record
           e == [o EXCEPT !.status = "ACKNOWLEDGED"]
<1>5. e.status = "ACKNOWLEDGED"
  <2>1. e = [claim |-> o.claim, sources |-> o.sources, parents |-> o.parents,
             plans |-> o.plans, status |-> "ACKNOWLEDGED"]
    BY <1>4 DEF IsRecord
  <2> HIDE DEF e
  <2> QED
    BY <2>1
<1>6. recordOf[id] # e
  <2> HIDE DEF e
  <2> QED
    BY <1>5
<1> HIDE DEF e
<1>7. (\E y \in Elements(trace) : Acknowledges(y) /\ y.ack.record = x.id) => ToldBy(Elements(trace), x) = e
  BY DEF ToldBy, e
<1> QED
  BY <1>2, <1>3, <1>6, <1>7

\* An acknowledgement adds to the history.
LEMMA HistoryAdds ==
  ASSUME IInv, History, NEW id \in DOMAIN recordOf, NEW con, NEW a, NEW sup, NEW gone, NEW lost,
         Outcome(id, con, a, sup, gone, lost), Follows(id, con, a, sup)
  PROVE  History'
<1> DEFINE E == Elements(trace)
           F == Elements(trace')
<1>1. /\ con.id = ackIds + 1 /\ con.lineage \in 1..lineageIds' /\ con.no \in Nat
      /\ ackIds \in Nat /\ lineageIds \in Nat /\ ackIds' = ackIds + 1
      /\ lineageIds' \in {lineageIds, lineageIds + 1}
      /\ sup \subseteq Elements(active)
      /\ Elements(active') = (Elements(active) \ sup) \cup {con.id}
      /\ Elements(connections') = {c \in {Left(d, sup) : d \in Elements(connections)} \cup {con} : c.id \notin gone}
      /\ Acknowledges(a) /\ ~Creates(a) /\ a.ack.record = id
      /\ E \cup {a} \subseteq F
      /\ \A x \in F : x \in E \/ x = a \/ x.kind = "LIVE_INDEX_EVICTED"
  BY DEF IInv, Listed, Outcome, SupersedesRightly
<1>2. /\ recordOf[id].status = "CONFIRMED"
      /\ a.connection = con /\ Elements(a.ack.superseded) = sup
      /\ sup = {} => con.lineage = lineageIds + 1 /\ lineageIds' = lineageIds + 1
      /\ sup # {} => \E h \in sup : con.lineage = Connection(h).lineage
      /\ \A h \in sup : Connection(h).no < con.no
      /\ active' = Append(Outside(active, sup), con.id)
      /\ GoesOn(trace', a)
  BY DEF Follows
<1>3. Ordered(trace) /\ Committed(E) /\ Linear(E) /\ Unsuperseded(E) /\ Unacknowledged(E)
  BY DEF History
<1>4. /\ \A x \in F : Acknowledges(x) => x \in E \/ x = a
      /\ \A x \in F : Creates(x) => x \in E
      /\ E \subseteq F /\ a \in F
  BY <1>1 DEF Acknowledges, Creates
<1>5. /\ \A x \in E : Acknowledges(x) =>
           /\ x.connection.id \in 1..ackIds /\ x.connection.lineage \in 1..lineageIds
           /\ x.connection.no \in Nat /\ Elements(x.ack.superseded) \subseteq 1..ackIds
           /\ x.connection.id < con.id /\ x.connection.id # con.id /\ x.ack.record # id
      /\ \A x, y \in E : Acknowledges(x) /\ Acknowledges(y) =>
           (x.connection.id = y.connection.id \/ x.ack.record = y.ack.record => x = y)
      /\ \A c \in Elements(connections) : \E x \in E :
           /\ Acknowledges(x) /\ x.connection.id = c.id
           /\ x.connection.lineage = c.lineage /\ x.connection.no = c.no
  <2>1. \A x \in E : Acknowledges(x) => x.ack.record # id
    BY <1>2, NeverAcknowledged
  <2>2. \A n \in 1..ackIds : n < con.id /\ n # con.id
    BY <1>1
  <2> HIDE DEF E
  <2> QED
    BY <1>3, <2>1, <2>2 DEF Committed
<1>6. \A n \in Elements(active) : n \in 1..ackIds /\ n < con.id
  <2> TAKE n \in Elements(active)
  <2>1. n \in 1..ackIds
    BY DEF IInv, Based, Numbered
  <2> QED
    BY <1>1, <2>1
<1>7. Ordered(trace')
  <2> SUFFICES ASSUME NEW i \in 1..Len(trace'), NEW j \in 1..Len(trace'),
                      i < j, Acknowledges(trace'[i]), Acknowledges(trace'[j])
               PROVE  trace'[i].connection.id < trace'[j].connection.id
    BY DEF Ordered
  <2>1. /\ Len(trace) \in Nat /\ Len(trace') \in Nat
        /\ \A k \in 1..Len(trace) : trace[k] \in E
    BY ListFacts DEF IInv, Listed, Outcome, IsList
  <2>2. /\ \A k \in 1..Len(trace) : trace'[k] = trace[k]
        /\ trace'[Len(trace) + 1] = a
        /\ \A k \in 1..Len(trace') : Len(trace) + 1 < k => ~ Acknowledges(trace'[k])
    BY <1>2 DEF GoesOn, Acknowledges
  <2>3. ~(Len(trace) + 1 < j)
    BY <2>2
  <2>4. i \in 1..Len(trace) /\ (j \in 1..Len(trace) \/ j = Len(trace) + 1)
    BY <2>1, <2>3
  <2>5. CASE j \in 1..Len(trace)
    BY <1>3, <2>2, <2>4, <2>5 DEF Ordered
  <2>6. CASE j = Len(trace) + 1
    <3>1. trace[i] \in E /\ Acknowledges(trace[i]) /\ trace'[i] = trace[i] /\ trace'[j] = a
      BY <2>1, <2>2, <2>4, <2>6
    <3> HIDE DEF E
    <3> QED
      BY <1>2, <1>5, <3>1
  <2> QED
    BY <2>4, <2>5, <2>6
<1> HIDE DEF E, F
<1>8. Committed(Elements(trace))'
  <2>1. \A n : n \in 1..ackIds => n \in 1..ackIds'
    BY <1>1
  <2>2. \A n : n \in 1..lineageIds => n \in 1..lineageIds'
    BY <1>1
  <2>3. \A x \in F : Acknowledges(x) =>
          /\ x.connection.id \in 1..ackIds' /\ x.connection.lineage \in 1..lineageIds'
          /\ x.connection.no \in Nat /\ Elements(x.ack.superseded) \subseteq 1..ackIds'
    <3>1. con.id \in 1..ackIds' /\ sup \subseteq 1..ackIds'
      BY <1>1, <1>6, <2>1
    <3>2. \A x \in E : Acknowledges(x) =>
            /\ x.connection.id \in 1..ackIds' /\ x.connection.lineage \in 1..lineageIds'
            /\ x.connection.no \in Nat /\ Elements(x.ack.superseded) \subseteq 1..ackIds'
      BY <1>5, <2>1, <2>2
    <3>3. /\ a.connection.id \in 1..ackIds' /\ a.connection.lineage \in 1..lineageIds'
          /\ a.connection.no \in Nat /\ Elements(a.ack.superseded) \subseteq 1..ackIds'
      BY <1>1, <1>2, <3>1
    <3> QED
      BY <1>4, <3>2, <3>3
  <2>4. \A x, y \in F : Acknowledges(x) /\ Acknowledges(y) =>
          (x.connection.id = y.connection.id \/ x.ack.record = y.ack.record => x = y)
    BY <1>1, <1>2, <1>4, <1>5
  <2>5. \A c \in Elements(connections') : \E x \in F :
          /\ Acknowledges(x) /\ x.connection.id = c.id
          /\ x.connection.lineage = c.lineage /\ x.connection.no = c.no
    <3> TAKE c \in Elements(connections')
    <3>1. CASE c = con
      BY <1>1, <1>2, <1>4, <3>1
    <3>2. ASSUME NEW d \in Elements(connections), c = Left(d, sup)
          PROVE  \E x \in F : /\ Acknowledges(x) /\ x.connection.id = c.id
                              /\ x.connection.lineage = c.lineage /\ x.connection.no = c.no
      <4>1. c.id = d.id /\ c.lineage = d.lineage /\ c.no = d.no
        BY <1>1, <3>2, StillApart
      <4> QED
        BY <1>4, <1>5, <4>1
    <3> QED
      BY <1>1, <3>1, <3>2
  <2> QED
    BY <2>3, <2>4, <2>5 DEF Committed, F
<1>9. Linear(Elements(trace))'
  <2>1. ASSUME NEW x \in E, NEW y \in E, Acknowledges(x), Acknowledges(y),
               x.connection.lineage = y.connection.lineage, x.connection.id < y.connection.id
        PROVE  x.connection.no < y.connection.no /\ x.connection.id \notin Elements(active')
    <3>1. x.connection.no < y.connection.no /\ x.connection.id \notin Elements(active)
      BY <1>3, <2>1 DEF Linear
    <3> QED
      BY <1>1, <1>5, <2>1, <3>1
  <2>2. ASSUME NEW x \in E, Acknowledges(x), x.connection.lineage = con.lineage
        PROVE  x.connection.no < con.no /\ x.connection.id \notin Elements(active')
    <3>0. x.connection.lineage \in 1..lineageIds /\ x.connection.no \in Nat /\ x.connection.id \in 1..ackIds
      BY <1>5, <2>2
    <3>1. sup # {}
      <4>1. CASE sup = {}
        <5>1. x.connection.lineage = lineageIds + 1
          BY <1>2, <2>2, <4>1
        <5> QED
          BY <1>1, <3>0, <5>1
      <4> QED
        BY <4>1
    <3>2. PICK h \in sup : con.lineage = Connection(h).lineage
      BY <1>2, <3>1
    <3>3. PICK d \in Elements(connections) : d.id = h
      BY <1>1, <3>2 DEF IInv, Based
    <3>4. Connection(h) = d
      BY <3>3, Found DEF IInv, Listed, Numbered, Connection
    <3>5. PICK z \in E : /\ Acknowledges(z) /\ z.connection.id = h
                         /\ z.connection.lineage = con.lineage /\ z.connection.no = d.no
      BY <1>5, <3>2, <3>3, <3>4
    <3>6. /\ z.connection.no < con.no /\ z.connection.no \in Nat /\ con.no \in Nat
          /\ h \in 1..ackIds /\ h \in Elements(active) /\ h \notin Elements(active')
      BY <1>1, <1>2, <1>5, <1>6, <3>2, <3>4, <3>5
    <3>7. CASE x.connection.id < h
      <4>1. x.connection.no < z.connection.no /\ x.connection.id \notin Elements(active)
        BY <1>3, <2>2, <3>5, <3>7 DEF Linear
      <4>2. x.connection.no < con.no
        BY <3>0, <3>6, <4>1
      <4> QED
        BY <1>1, <1>5, <2>2, <4>1, <4>2
    <3>8. CASE x.connection.id = h
      <4>1. x = z
        BY <1>5, <2>2, <3>5, <3>8
      <4> QED
        BY <3>6, <3>8, <4>1
    <3>9. CASE h < x.connection.id
      <4>1. h \notin Elements(active)
        BY <1>3, <2>2, <3>5, <3>9 DEF Linear
      <4> QED
        BY <3>6, <4>1
    <3> QED
      BY <3>0, <3>6, <3>7, <3>8, <3>9
  <2>3. \A x \in E : Acknowledges(x) => ~(con.id < x.connection.id)
    <3>1. \A n \in 1..ackIds : ~(con.id < n)
      BY <1>1
    <3> QED
      BY <1>5, <3>1
  <2>4. ~(con.id < con.id)
    BY <1>1
  <2> SUFFICES ASSUME NEW x \in F, NEW y \in F, Acknowledges(x), Acknowledges(y),
                      x.connection.lineage = y.connection.lineage, x.connection.id < y.connection.id
               PROVE  x.connection.no < y.connection.no /\ x.connection.id \notin Elements(active')
    BY DEF Linear, F
  <2>5. CASE x \in E /\ y \in E
    BY <2>1, <2>5
  <2>6. CASE x \in E /\ y = a
    BY <1>2, <2>2, <2>6
  <2>7. x # a
    BY <1>2, <1>4, <2>3, <2>4
  <2> QED
    BY <1>4, <2>5, <2>6, <2>7
<1>10. Unsuperseded(Elements(trace))'
  <2>1. Increasing(active')
    <3> DEFINE left == Outside(active, sup)
    <3>1. IsList(left) /\ Elements(left) = Elements(active) \ sup
      BY Sieved DEF IInv, Listed
    <3>2. Increasing(left)
      BY <1>3, KeptIncreasing DEF Outside, Unsuperseded, IInv, Listed
    <3> HIDE DEF left
    <3>3. /\ Len(left) \in Nat /\ Len(active') = Len(left) + 1
          /\ \A i \in 1..Len(left) : active'[i] = left[i]
          /\ active'[Len(left) + 1] = con.id
      BY <1>2, <3>1, AppendedEntries DEF left
    <3>4. \A i \in 1..Len(left) : left[i] < con.id
      <4>1. \A i \in 1..Len(left) : left[i] \in Elements(left)
        BY <3>1, ListFacts DEF IsList
      <4> QED
        BY <1>6, <3>1, <4>1
    <3> SUFFICES ASSUME NEW i \in 1..Len(active'), NEW j \in 1..Len(active'), i < j
                 PROVE  active'[i] < active'[j]
      BY DEF Increasing
    <3>5. i \in 1..Len(left) /\ (j \in 1..Len(left) \/ j = Len(left) + 1)
      BY <3>3
    <3> QED
      BY <3>2, <3>3, <3>4, <3>5 DEF Increasing
  <2>2. /\ \A x \in E : Acknowledges(x) => con.id \notin Elements(x.ack.superseded)
        /\ con.id \notin sup
    <3>1. con.id \notin 1..ackIds
      BY <1>1
    <3> QED
      BY <1>1, <1>5, <1>6, <3>1
  <2>3. \A n : n \in Elements(active) <=>
          /\ \E x \in E : Acknowledges(x) /\ x.connection.id = n
          /\ \A y \in E : Acknowledges(y) => n \notin Elements(y.ack.superseded)
    BY <1>3 DEF Unsuperseded
  <2>4. \A n : n \in Elements(active') <=>
          /\ \E x \in F : Acknowledges(x) /\ x.connection.id = n
          /\ \A y \in F : Acknowledges(y) => n \notin Elements(y.ack.superseded)
    <3> TAKE n
    <3>1. (\E x \in F : Acknowledges(x) /\ x.connection.id = n)
            <=> (\E x \in E : Acknowledges(x) /\ x.connection.id = n) \/ n = con.id
      BY <1>1, <1>2, <1>4
    <3>2. (\A y \in F : Acknowledges(y) => n \notin Elements(y.ack.superseded))
            <=> (\A y \in E : Acknowledges(y) => n \notin Elements(y.ack.superseded)) /\ n \notin sup
      BY <1>1, <1>2, <1>4
    <3>3. CASE n = con.id
      <4>1. \A y \in E : Acknowledges(y) => n \notin Elements(y.ack.superseded)
        BY <2>2, <3>3
      <4>2. n \notin sup /\ n \in Elements(active')
        BY <1>1, <2>2, <3>3
      <4> QED
        BY <3>1, <3>2, <3>3, <4>1, <4>2
    <3>4. CASE n # con.id
      <4>1. n \in Elements(active') <=> n \in Elements(active) /\ n \notin sup
        BY <1>1, <3>4
      <4> QED
        BY <2>3, <3>1, <3>2, <3>4, <4>1
    <3> QED
      BY <3>3, <3>4
  <2> QED
    BY <2>1, <2>4 DEF Unsuperseded, F
<1>11. Unacknowledged(Elements(trace))'
  BY <1>3, <1>4 DEF Unacknowledged, F
<1> QED
  BY <1>7, <1>8, <1>9, <1>10, <1>11 DEF History

\* No step leaves the history untrue.
LEMMA HistoryKept == IInv /\ History /\ [Next]_vars => History'
<1> SUFFICES ASSUME IInv, History, [Next]_vars
             PROVE  History'
  OBVIOUS
<1> DEFINE same == UNCHANGED <<connections, active, ackIds, lineageIds>>
<1>1. CASE Occur
  <2>1. same
    BY <1>1 DEF Occur, ledgerVars, ledgerIds
  <2>2. \/ trace' = trace
        \/ \E r : trace' = Append(trace, r) /\ ~Acknowledges(r) /\ ~Creates(r)
    <3>1. ASSUME NEW type, NEW payload, CommitEvent(type, payload)
          PROVE  \/ trace' = trace
                 \/ \E r : trace' = Append(trace, r) /\ ~Acknowledges(r) /\ ~Creates(r)
      <4> DEFINE r == [kind |-> "CANONICAL_EVENT_COMMITTED", event |-> [id |-> eventIds + 1, type |-> type]]
      <4>1. trace' = trace \/ trace' = Append(trace, r)
        BY <3>1 DEF CommitEvent
      <4>2. ~Creates(r) /\ ~Acknowledges(r)
        BY DEF Creates, Acknowledges
      <4> HIDE DEF r
      <4> QED
        BY <4>1, <4>2
    <3>2. ASSUME NEW d, NEW visible, RecordObservation(d, visible)
          PROVE  \E r : trace' = Append(trace, r) /\ ~Acknowledges(r) /\ ~Creates(r)
      <4> DEFINE r == [kind |-> "OBSERVATION_RECORDED", observation |-> d]
      <4>1. trace' = Append(trace, r)
        BY <3>2 DEF RecordObservation
      <4>2. ~Creates(r) /\ ~Acknowledges(r)
        BY DEF Creates, Acknowledges
      <4> HIDE DEF r
      <4> QED
        BY <4>1, <4>2
    <3> QED
      BY <1>1, <3>1, <3>2 DEF Occur
  <2> QED
    BY <2>1, <2>2, HistoryStays
<1>2. ASSUME NEW d \in RecordDrafts, CreateNameRecord(d)
      PROVE  History'
  <2> DEFINE record == [claim |-> d.claim, sources |-> d.sources, parents |-> d.parents,
                        plans |-> d.plans, status |-> IF d.confirmed THEN "CONFIRMED" ELSE "DRAFT"]
             r == [kind |-> "NAME_RECORD_CREATED", id |-> recordIds + 1, record |-> record]
  <2>1. same /\ trace' = Append(trace, r)
    BY <1>2 DEF CreateNameRecord
  <2>2. IsRecord(record) /\ record.status \in {"DRAFT", "CONFIRMED"}
    BY DEF IsRecord
  <2>3. r.record = record /\ ~Acknowledges(r)
    BY DEF Acknowledges
  <2> HIDE DEF record, r
  <2> QED
    BY <2>1, <2>2, <2>3, HistoryStays
<1>3. ASSUME NEW id \in DOMAIN recordOf, NEW changes \in Manifestations, Acknowledge(id, changes)
      PROVE  History'
  BY <1>3, AcknowledgeTells, HistoryAdds
<1>4. ASSUME NEW changes \in Manifestations, ApplySystemProjection(changes)
      PROVE  History'
  <2> DEFINE r == [kind |-> "SYSTEM_PROJECTION_COMMITTED", manifestation |-> manifestation']
  <2>1. same /\ trace' = Append(trace, r)
    BY <1>4 DEF ApplySystemProjection, ledgerIds
  <2>2. ~Creates(r) /\ ~Acknowledges(r)
    BY DEF Creates, Acknowledges
  <2> HIDE DEF r
  <2> QED
    BY <2>1, <2>2, HistoryStays
<1>5. CASE UNCHANGED vars
  <2>1. same /\ trace' = trace
    BY <1>5 DEF vars, ledgerVars, ledgerIds
  <2> QED
    BY <2>1, HistoryStays
<1> QED
  BY <1>1, <1>2, <1>3, <1>4, <1>5 DEF Next

\* The acknowledgements of the trace, in order.
LEMMA EstablishedFacts ==
  ASSUME IInv, History
  PROVE  /\ IsList(Established) /\ Len(Established) \in Nat /\ DOMAIN Established = 1..Len(Established)
         /\ Elements(Established) = {x \in Elements(trace) : Acknowledges(x)}
         /\ \A i \in 1..Len(Established) : Established[i] \in Elements(trace) /\ Acknowledges(Established[i])
         /\ \A i, j \in 1..Len(Established) : i < j => Established[i].connection.id < Established[j].connection.id
<1> DEFINE I == {i \in DOMAIN trace : trace[i].kind = "WORLD_ACKNOWLEDGEMENT_COMMITTED"}
           made == Keep(trace, I)
<1>1. Established = made
  BY DEF Established, Records
<1>2. IsList(trace)
  BY DEF IInv, Listed
<1>3. {trace[i] : i \in DOMAIN trace \cap I} = {x \in Elements(trace) : Acknowledges(x)}
  BY DEF Elements, Acknowledges
<1>4. \A i \in I : Acknowledges(trace[i])
  BY DEF Acknowledges
<1> HIDE DEF I
<1>5. PICK e : Selects(e, made, trace, I, Len(trace))
  BY <1>2, Kept
<1>6. IsList(made) /\ Elements(made) = {x \in Elements(trace) : Acknowledges(x)}
  BY <1>2, <1>3, KeptElements
<1>7. /\ \A j \in 1..Len(made) : e[j] \in 1..Len(trace) /\ e[j] \in I /\ made[j] = trace[e[j]]
      /\ \A j, m \in 1..Len(made) : j < m => e[j] < e[m]
  BY <1>5 DEF Selects
<1> HIDE DEF made
<1>8. Len(made) \in Nat /\ DOMAIN made = 1..Len(made) /\ \A i \in 1..Len(made) : made[i] \in Elements(made)
  BY <1>6, ListFacts DEF IsList
<1>9. \A i, j \in 1..Len(made) : i < j => made[i].connection.id < made[j].connection.id
  BY <1>4, <1>7 DEF History, Ordered
<1> QED
  BY <1>1, <1>6, <1>8, <1>9

\* What the history says of lineages and of what is active.
LEMMA HistoryTells == IInv /\ History => LineagesLinear /\ ActiveIsUnsuperseded
<1> SUFFICES ASSUME IInv, History
             PROVE  LineagesLinear /\ ActiveIsUnsuperseded
  OBVIOUS
<1> DEFINE made == Established
           E == Elements(trace)
<1>1. /\ IsList(made) /\ Len(made) \in Nat /\ DOMAIN made = 1..Len(made)
      /\ Elements(made) = {x \in E : Acknowledges(x)}
      /\ \A i \in 1..Len(made) : made[i] \in E /\ Acknowledges(made[i])
      /\ \A i, j \in 1..Len(made) : i < j => made[i].connection.id < made[j].connection.id
  BY EstablishedFacts
<1>2. Committed(E) /\ Linear(E) /\ Unsuperseded(E) /\ Unacknowledged(E)
  BY DEF History
<1> HIDE DEF E
<1>3. \A x \in E : Acknowledges(x) => \E i \in 1..Len(made) : made[i] = x
  <2> SUFFICES ASSUME NEW x \in E, Acknowledges(x)
               PROVE  \E i \in 1..Len(made) : made[i] = x
    OBVIOUS
  <2>1. x \in Elements(made)
    BY <1>1
  <2> HIDE DEF made
  <2> QED
    BY <1>1, <2>1 DEF Elements
<1>4. \A i, j \in 1..Len(made) : made[i] = made[j] => i = j
  <2> SUFFICES ASSUME NEW i \in 1..Len(made), NEW j \in 1..Len(made), made[i] = made[j]
               PROVE  i = j
    OBVIOUS
  <2>1. made[i].connection.id \in Int
    BY <1>1, <1>2 DEF Committed
  <2> HIDE DEF made
  <2>2. ~(i < j) /\ ~(j < i)
    BY <1>1, <2>1
  <2> QED
    BY <1>1, <2>2
<1>5. LineagesLinear
  <2>1. \A i, j \in DOMAIN made :
          i < j /\ made[i].connection.lineage = made[j].connection.lineage
          => /\ made[i].connection.no < made[j].connection.no
             /\ made[i].connection.id \notin Elements(active)
    <3> HIDE DEF made
    <3> QED
      BY <1>1, <1>2 DEF Linear
  <2> QED
    BY <2>1 DEF LineagesLinear
<1> DEFINE ids == [i \in DOMAIN made |-> made[i].connection.id]
           superseded == UNION {Elements(made[i].ack.superseded) : i \in DOMAIN made}
<1>6. active = Outside(ids, superseded)
  <2>1. ids = [i \in DOMAIN made |-> ids[i]] /\ \A i \in DOMAIN made : ids[i] = made[i].connection.id
    OBVIOUS
  <2>2. superseded = UNION {Elements(x.ack.superseded) : x \in Elements(made)}
    BY DEF Elements
  <2> HIDE DEF made, ids, superseded
  <2>3. /\ IsList(ids) /\ Len(ids) = Len(made)
        /\ Elements(ids) = {made[i].connection.id : i \in 1..Len(made)}
    BY <1>1, <2>1, FunctionIsList
  <2>4. Increasing(ids)
    BY <1>1, <2>1, <2>3 DEF Increasing
  <2> DEFINE rest == Outside(ids, superseded)
  <2>5. IsList(rest) /\ Elements(rest) = Elements(ids) \ superseded
    BY <2>3, Sieved
  <2>6. Increasing(rest)
    BY <2>3, <2>4, KeptIncreasing DEF Outside
  <2> HIDE DEF rest
  <2>7. \A n : n \in Elements(ids) <=> \E x \in E : Acknowledges(x) /\ x.connection.id = n
    BY <1>1, <1>3, <2>3
  <2>8. \A n : n \in superseded <=> \E y \in E : Acknowledges(y) /\ n \in Elements(y.ack.superseded)
    BY <1>1, <2>2
  <2>9. Elements(rest) = Elements(active)
    BY <1>2, <2>5, <2>7, <2>8 DEF Unsuperseded
  <2>10. IsList(active) /\ Increasing(active) /\ Elements(active) \subseteq Int
    <3>1. Elements(active) \subseteq 1..ackIds
      BY DEF IInv, Based, Numbered
    <3>2. ackIds \in Nat
      BY DEF IInv, Listed
    <3> QED
      BY <1>2, <3>1, <3>2 DEF IInv, Listed, Unsuperseded
  <2>11. active = rest
    BY <2>5, <2>6, <2>9, <2>10, SameIncreasing
  <2> QED
    BY <2>11 DEF rest
<1>7. ASSUME NEW r \in 1..recordIds
      PROVE  Cardinality({i \in DOMAIN made : made[i].ack.record = r})
               = IF Record(r).status = "ACKNOWLEDGED" THEN 1 ELSE 0
  <2> DEFINE S == {i \in DOMAIN made : made[i].ack.record = r}
  <2>1. PICK x \in E : Creates(x) /\ x.id = r
    BY DEF IInv, Chronicled, E
  <2>2. Record(r) = ToldBy(E, x)
    <3>1. Record(r) = RecordFromTrace(r)
      BY Properties DEF RecordLookupIsHistory
    <3>2. RecordFromTrace(r) = ToldBy(E, x)
      BY <2>1, FoundInTrace DEF IInv, E
    <3> QED
      BY <3>1, <3>2
  <2>3. IsRecord(x.record) /\ x.record.status \in {"DRAFT", "CONFIRMED"}
    BY <1>2, <2>1 DEF Unacknowledged
  <2> HIDE DEF made
  <2>4. CASE \E y \in E : Acknowledges(y) /\ y.ack.record = r
    <3>1. PICK k \in 1..Len(made) : made[k].ack.record = r
      BY <1>3, <2>4
    <3>2. \A i \in 1..Len(made) : made[i].ack.record = r => i = k
      BY <1>1, <1>2, <1>4, <3>1 DEF Committed
    <3>3. S = {k}
      BY <1>1, <3>1, <3>2
    <3>4. Cardinality(S) = 1
      BY <3>3, FS_Singleton
    <3>5. Record(r).status = "ACKNOWLEDGED"
      <4> DEFINE o == x.record
                 e == [o EXCEPT !.status = "ACKNOWLEDGED"]
      <4>1. e = [claim |-> o.claim, sources |-> o.sources, parents |-> o.parents,
                 plans |-> o.plans, status |-> "ACKNOWLEDGED"]
        BY <2>3 DEF IsRecord
      <4>2. Record(r) = e
        BY <2>1, <2>2, <2>4 DEF ToldBy
      <4> HIDE DEF e
      <4> QED
        BY <4>1, <4>2
    <3> QED
      BY <3>4, <3>5
  <2>5. CASE ~ \E y \in E : Acknowledges(y) /\ y.ack.record = r
    <3>1. S = {}
      BY <1>1, <2>5
    <3>2. Cardinality(S) = 0
      BY <3>1, FS_EmptySet
    <3>3. Record(r) = x.record
      BY <2>1, <2>2, <2>5 DEF ToldBy
    <3>4. Record(r).status # "ACKNOWLEDGED"
      BY <2>3, <3>3
    <3> QED
      BY <3>2, <3>4
  <2> QED
    BY <2>4, <2>5
<1>8. ActiveIsUnsuperseded
  BY <1>6, <1>7 DEF ActiveIsUnsuperseded
<1> QED
  BY <1>5, <1>8

\* Over all its history, archived connections included, a lineage numbers its
\* connections upwards and only its last one can be active.
THEOREM LineagesAreLinear == Spec => []LineagesLinear
<1> QED
  BY InitHolds, NextKeeps, HistoryInit, HistoryKept, HistoryTells, PTL DEF Spec

\* What is active is, in order, what the trace says was acknowledged and not
\* superseded since, and a record is acknowledged at most once, and when one
\* acknowledgement says so.
THEOREM ActiveTellsHistory == Spec => []ActiveIsUnsuperseded
<1> QED
  BY InitHolds, NextKeeps, HistoryInit, HistoryKept, HistoryTells, PTL DEF Spec

-----------------------------------------------------------------------------
(* Where records descend from.                                             *)

\* A set of acknowledgements that has the parents of each, as the entries of
\* a trace tell of them.
Upheld(E, S) ==
  \A x, y \in E :
    Acknowledges(x) /\ x.ack.id \in S /\ Creates(y) /\ y.id = x.ack.record => y.record.parents \subseteq S

\* The record that x creates names what there is, and what the world made
\* manifest among its sources did not come of its parents.
Independent(E, obs, last, x) ==
  /\ x.record.sources \subseteq DOMAIN obs /\ x.record.parents \subseteq 1..last
  /\ \A o \in x.record.sources, p \in x.record.parents :
       obs[o].ack # None =>
         \E S \in SUBSET (1..last) : p \notin S /\ obs[o].ack \in S /\ Upheld(E, S)

\* Every acknowledgement is in the trace under its own number, and the live
\* ones as they are live.
Numbers(E, live, last) ==
  /\ \A x \in E : Acknowledges(x) => x.ack.id = x.connection.id
  /\ \A n \in 1..last : \E x \in E : Acknowledges(x) /\ x.ack.id = n
  /\ \A b \in Elements(live) : \E x \in E : Acknowledges(x) /\ x.ack = b

\* Observations derive from acknowledgements that there are.
Derives(obs, last) ==
  /\ IsList(obs)
  /\ \A o \in DOMAIN obs : obs[o].ack \in {None} \cup 1..last

Descends(E, obs, live, last) ==
  /\ Numbers(E, live, last) /\ Derives(obs, last)
  /\ \A x \in E : Creates(x) => Independent(E, obs, last, x)

Descent == Descends(Elements(trace), observations, acks, ackIds)

\* Nothing descends from anything at first.
LEMMA DescentInit == Init => Descent
<1> SUFFICES ASSUME Init
             PROVE  Descent
  OBVIOUS
<1> DEFINE e == <<>>
<1>1. trace = e /\ observations = e /\ acks = e /\ ackIds = 0
  BY DEF Init, OccurrencesInit
<1>2. IsList(e) /\ Elements(e) = {} /\ DOMAIN e = {}
  <2>1. IsList(e) /\ Elements(e) = {}
    BY EmptyList
  <2>2. DOMAIN e = {}
    <3> HIDE DEF e
    <3> QED
      BY <2>1 DEF Elements
  <2> QED
    BY <2>1, <2>2
<1> HIDE DEF e
<1>3. 1..0 = {}
  OBVIOUS
<1> QED
  BY <1>1, <1>2, <1>3 DEF Descent, Descends, Numbers, Derives

\* Of the acknowledgements a step adds one at most, and of the records it
\* adds each descends from what there was.
LEMMA DescentGrows ==
  ASSUME IInv, Descent, NEW F, NEW obs, NEW live, NEW last \in {ackIds, ackIds + 1},
         Elements(trace) \subseteq F,
         \A x \in F : Acknowledges(x) /\ x \notin Elements(trace) =>
           last = ackIds + 1 /\ x.ack.id = last /\ x.connection.id = last,
         last = ackIds \/ \E x \in F : Acknowledges(x) /\ x.ack.id = last,
         \A y \in F : Creates(y) /\ y \notin Elements(trace) =>
           y.id \notin 1..recordIds /\ Independent(Elements(trace), observations, ackIds, y),
         \A b \in Elements(live) : b \in Elements(acks) \/ \E x \in F : Acknowledges(x) /\ x.ack = b,
         Derives(obs, last), DOMAIN observations \subseteq DOMAIN obs,
         \A o \in DOMAIN observations : obs[o] = observations[o]
  PROVE  Descends(F, obs, live, last)
<1> DEFINE E == Elements(trace)
<1>1. /\ Numbers(E, acks, ackIds) /\ Derives(observations, ackIds)
      /\ \A x \in E : Creates(x) => Independent(E, observations, ackIds, x)
  BY DEF Descent, Descends
<1>2. ackIds \in Nat /\ recordIds \in Nat /\ 1..ackIds \subseteq 1..last
  BY DEF IInv, Listed
<1>3. \A x \in E : Acknowledges(x) => x.ack.record \in 1..recordIds
  BY DEF IInv, Chronicled
<1> HIDE DEF E
<1>4. Numbers(F, live, last)
  <2>1. \A x \in F : Acknowledges(x) => x.ack.id = x.connection.id
    BY <1>1 DEF Numbers, E
  <2>2. \A n \in 1..last : n \in 1..ackIds \/ n = last
    BY <1>2
  <2>3. ASSUME NEW n \in 1..last
        PROVE  \E x \in F : Acknowledges(x) /\ x.ack.id = n
    <3>1. CASE n \in 1..ackIds
      BY <1>1, <3>1 DEF Numbers, E
    <3>2. CASE n \notin 1..ackIds
      <4>1. n = last /\ last # ackIds
        BY <1>2, <3>2
      <4> QED
        BY <4>1
    <3> QED
      BY <3>1, <3>2
  <2>4. \A b \in Elements(live) : \E x \in F : Acknowledges(x) /\ x.ack = b
    BY <1>1 DEF Numbers, E
  <2> QED
    BY <2>1, <2>3, <2>4 DEF Numbers
<1>5. ASSUME NEW S \in SUBSET (1..ackIds), Upheld(E, S)
      PROVE  Upheld(F, S)
  <2> SUFFICES ASSUME NEW x \in F, NEW y \in F, Acknowledges(x), x.ack.id \in S,
                      Creates(y), y.id = x.ack.record
               PROVE  y.record.parents \subseteq S
    BY DEF Upheld
  <2>1. x \in E
    <3>1. ~(ackIds + 1 \in 1..ackIds)
      BY <1>2
    <3> QED
      BY <3>1 DEF E
  <2>2. y \in E
    BY <1>3, <2>1 DEF E
  <2> QED
    BY <1>5, <2>1, <2>2 DEF Upheld
<1>6. ASSUME NEW x \in F, Creates(x)
      PROVE  Independent(F, obs, last, x)
  <2>1. Independent(E, observations, ackIds, x)
    BY <1>1, <1>6 DEF E
  <2> QED
    BY <1>2, <1>5, <2>1 DEF Independent
<1> QED
  BY <1>4, <1>6 DEF Descends

\* The acknowledgement of a number, and its record, are what they are in the
\* trace, whether live or not.
LEMMA LookedUp ==
  ASSUME IInv, History, Descent, NEW n \in 1..ackIds
  PROVE  \E x, y \in Elements(trace) :
           /\ Acknowledges(x) /\ x.ack.id = n /\ Creates(y) /\ y.id = x.ack.record
           /\ \A z \in Elements(trace) : Acknowledges(z) /\ z.ack.id = n => z = x
           /\ \A z \in Elements(trace) : Creates(z) /\ z.id = x.ack.record => z = y
           /\ Record(Ack(n).record).parents = y.record.parents
           /\ RecordFromTrace(AckFromTrace(n).record).parents = y.record.parents
<1> DEFINE E == Elements(trace)
<1>1. /\ Numbers(E, acks, ackIds) /\ Committed(E) /\ Unacknowledged(E) /\ Chronicled(E, recordIds)
      /\ RecordLookupIsHistory
  BY Properties DEF Descent, Descends, History, IInv
<1>2. PICK x \in E : Acknowledges(x) /\ x.ack.id = n
  BY <1>1 DEF Numbers
<1>3. ASSUME NEW z \in E, Acknowledges(z), z.ack.id = n
      PROVE  z = x
  BY <1>1, <1>2, <1>3 DEF Numbers, Committed
<1>4. PICK y \in E : Creates(y) /\ y.id = x.ack.record
  BY <1>1, <1>2 DEF Chronicled
<1>5. \A z \in E : Creates(z) /\ z.id = x.ack.record => z = y
  BY <1>1, <1>4 DEF Chronicled
<1>6. AckFromTrace(n) = x.ack
  <2> DEFINE k == CHOOSE k \in DOMAIN trace :
                    trace[k].kind = "WORLD_ACKNOWLEDGEMENT_COMMITTED" /\ trace[k].ack.id = n
  <2>1. \E i \in DOMAIN trace :
          trace[i].kind = "WORLD_ACKNOWLEDGEMENT_COMMITTED" /\ trace[i].ack.id = n
    BY <1>2 DEF Elements, Acknowledges
  <2>2. k \in DOMAIN trace /\ trace[k].kind = "WORLD_ACKNOWLEDGEMENT_COMMITTED" /\ trace[k].ack.id = n
    BY <2>1
  <2>3. AckFromTrace(n) = trace[k].ack
    BY DEF AckFromTrace
  <2> HIDE DEF k
  <2>4. trace[k] \in E /\ Acknowledges(trace[k])
    BY <2>2 DEF Elements, Acknowledges
  <2> QED
    BY <1>3, <2>2, <2>3, <2>4
<1>7. Ack(n) = x.ack
  <2> DEFINE k == CHOOSE i \in DOMAIN acks : acks[i].id = n
  <2>1. CASE \E i \in DOMAIN acks : acks[i].id = n
    <3>1. k \in DOMAIN acks /\ acks[k].id = n
      BY <2>1
    <3>2. Ack(n) = acks[k]
      BY <2>1 DEF Ack, Among
    <3> HIDE DEF k
    <3>3. acks[k] \in Elements(acks)
      BY <3>1 DEF Elements
    <3>4. PICK z \in E : Acknowledges(z) /\ z.ack = acks[k]
      BY <1>1, <3>3 DEF Numbers
    <3> QED
      BY <1>3, <3>1, <3>2, <3>4
  <2>2. CASE ~ \E i \in DOMAIN acks : acks[i].id = n
    BY <1>6, <2>2 DEF Ack
  <2> QED
    BY <2>1, <2>2
<1>8. RecordFromTrace(x.ack.record).parents = y.record.parents
  <2>1. RecordFromTrace(y.id) = ToldBy(E, y)
    BY <1>1, <1>4, FoundInTrace
  <2> DEFINE o == y.record
             e == [o EXCEPT !.status = "ACKNOWLEDGED"]
  <2>2. o = [claim |-> o.claim, sources |-> o.sources, parents |-> o.parents,
             plans |-> o.plans, status |-> o.status]
    BY <1>1, <1>4 DEF Unacknowledged, IsRecord
  <2>3. e.parents = o.parents
    BY <2>2
  <2>4. ToldBy(E, y) = o \/ ToldBy(E, y) = e
    BY DEF ToldBy
  <2> HIDE DEF e
  <2> QED
    BY <1>4, <2>1, <2>3, <2>4
<1>9. Record(x.ack.record) = RecordFromTrace(x.ack.record)
  BY <1>1, <1>2 DEF Chronicled, RecordLookupIsHistory
<1> HIDE DEF E
<1>10. /\ Record(Ack(n).record).parents = y.record.parents
       /\ RecordFromTrace(AckFromTrace(n).record).parents = y.record.parents
  BY <1>6, <1>7, <1>8, <1>9
<1> QED
  BY <1>2, <1>3, <1>4, <1>5, <1>10 DEF E

\* What the lookups say of parents is what the trace says.
LEMMA ParentsTold ==
  ASSUME IInv, History, Descent, NEW S \in SUBSET (1..ackIds)
  PROVE  /\ ParentsOf(S) \subseteq 1..ackIds
         /\ ParentsOf(S) \subseteq S => Upheld(Elements(trace), S)
         /\ Upheld(Elements(trace), S) =>
              \A a \in S : RecordFromTrace(AckFromTrace(a).record).parents \subseteq S
<1> DEFINE E == Elements(trace)
<1>1. \A y \in E : Creates(y) => y.record.parents \subseteq 1..ackIds
  BY DEF Descent, Descends, Independent
<1>2. \A a \in S : \E x, y \in E :
        /\ Acknowledges(x) /\ x.ack.id = a /\ Creates(y) /\ y.id = x.ack.record
        /\ \A z \in E : Acknowledges(z) /\ z.ack.id = a => z = x
        /\ \A z \in E : Creates(z) /\ z.id = x.ack.record => z = y
        /\ Record(Ack(a).record).parents = y.record.parents
        /\ RecordFromTrace(AckFromTrace(a).record).parents = y.record.parents
  BY LookedUp
<1>3. ParentsOf(S) = UNION {Record(Ack(a).record).parents : a \in S}
  <2>1. S \cap 1..ackIds = S
    OBVIOUS
  <2> QED
    BY <2>1 DEF ParentsOf
<1> HIDE DEF E
<1>4. ParentsOf(S) \subseteq 1..ackIds
  BY <1>1, <1>2, <1>3
<1>5. ASSUME ParentsOf(S) \subseteq S
      PROVE  Upheld(E, S)
  <2> SUFFICES ASSUME NEW x \in E, NEW y \in E, Acknowledges(x), x.ack.id \in S,
                      Creates(y), y.id = x.ack.record
               PROVE  y.record.parents \subseteq S
    BY DEF Upheld
  <2>1. Record(Ack(x.ack.id).record).parents = y.record.parents
    BY <1>2
  <2> QED
    BY <1>3, <1>5, <2>1
<1>6. ASSUME Upheld(E, S), NEW a \in S
      PROVE  RecordFromTrace(AckFromTrace(a).record).parents \subseteq S
  BY <1>2, <1>6 DEF Upheld
<1> QED
  BY <1>4, <1>5, <1>6 DEF E

\* f holds an acknowledgement with its ancestors of each of the first
\* generations.
Climbs(f, id, last) == f = [n \in 0..last |-> IF n = 0 THEN {id} ELSE WithParents(f[n - 1])]

\* There is such a function for every number of generations.
LEMMA Climbing ==
  ASSUME NEW id, NEW last \in Nat
  PROVE  \E f : Climbs(f, id, last)
<1> DEFINE T == {m \in Nat : ~ \E f : Climbs(f, id, m)}
<1>1. CASE T = {}
  BY <1>1
<1>2. CASE T # {}
  <2>0. T \subseteq Nat
    OBVIOUS
  <2>1. PICK m \in T : \A k \in T : m <= k
    BY <1>2, <2>0, HasLeast
  <2>2. CASE m = 0
    <3>1. Climbs([n \in 0..0 |-> {id}], id, 0)
      BY DEF Climbs
    <3> QED
      BY <2>1, <2>2, <3>1
  <2>3. CASE m # 0
    <3>1. m - 1 \in Nat /\ m - 1 \notin T /\ m \in Nat
      BY <2>1, <2>3
    <3>2. PICK f : Climbs(f, id, m - 1)
      BY <3>1
    <3>3. \A n \in 0..(m - 1) : f[n] = IF n = 0 THEN {id} ELSE WithParents(f[n - 1])
      BY <3>2 DEF Climbs
    <3>4. \A n \in 0..(m - 1) : n \in 0..m /\ n # m
      BY <3>1
    <3> DEFINE g == [n \in 0..m |-> IF n = m THEN WithParents(f[m - 1]) ELSE f[n]]
    <3>5. \A n \in 0..(m - 1) : g[n] = f[n] /\ f[n] = IF n = 0 THEN {id} ELSE WithParents(f[n - 1])
      BY <3>3, <3>4
    <3>6. \A n \in 0..m : g[n] = IF n = 0 THEN {id} ELSE WithParents(g[n - 1])
      <4> TAKE n \in 0..m
      <4>1. CASE n = m
        BY <2>3, <3>1, <3>5, <4>1
      <4>2. CASE n # m /\ n # 0
        <5>1. n \in 0..(m - 1) /\ n - 1 \in 0..(m - 1)
          BY <3>1, <4>2
        <5> QED
          BY <3>5, <4>2, <5>1
      <4>3. CASE n = 0
        <5>1. n \in 0..(m - 1)
          BY <3>1, <4>3
        <5> QED
          BY <3>5, <4>3, <5>1
      <4> QED
        BY <4>1, <4>2, <4>3
    <3>7. g = [n \in 0..m |-> g[n]]
      OBVIOUS
    <3> HIDE DEF g
    <3>8. Climbs(g, id, m)
      BY <3>6, <3>7 DEF Climbs
    <3> QED
      BY <2>1, <3>8
  <2> QED
    BY <2>2, <2>3
<1> QED
  BY <1>1, <1>2

\* A set of n + 1 acknowledgements or more, or one that has all its parents.
Grown(U, n) == (n < Cardinality(U)) \/ (ParentsOf(U) \subseteq U)

\* What SameOrAncestors finds is an acknowledgement with all its ancestors:
\* a generation that adds none is the last, and there are no more generations
\* that add one than there are acknowledgements.
LEMMA AncestorsFound ==
  ASSUME IInv, History, Descent, NEW id \in 1..ackIds
  PROVE  LET S == SameOrAncestors(id)
         IN  S \subseteq 1..ackIds /\ id \in S /\ Upheld(Elements(trace), S)
<1>1. ackIds \in Nat
  BY DEF IInv, Listed
<1> DEFINE f == CHOOSE f : Climbs(f, id, ackIds)
<1>2. Climbs(f, id, ackIds)
  BY <1>1, Climbing
<1>3. SameOrAncestors(id) = f[ackIds]
  BY DEF SameOrAncestors, Climbs
<1> HIDE DEF f
<1>4. \A n \in 0..ackIds : f[n] = IF n = 0 THEN {id} ELSE WithParents(f[n - 1])
  BY <1>2 DEF Climbs
<1> DEFINE N == 1..ackIds
           Wrong(n) == ~ (f[n] \subseteq N /\ id \in f[n] /\ Grown(f[n], n))
           T == {n \in 0..ackIds : Wrong(n)}
<1>5. IsFiniteSet(N) /\ Cardinality(N) = ackIds
  BY <1>1, FS_Interval
<1>6. \A U : U \subseteq N => IsFiniteSet(U) /\ Cardinality(U) \in Nat /\ Cardinality(U) <= ackIds
  BY <1>5, FS_Subset, FS_CardinalityType
<1>7. ASSUME T # {}
      PROVE  FALSE
  <2>1. T \subseteq Nat
    BY <1>1
  <2>2. PICK m \in T : \A k \in T : m <= k
    <3> HIDE DEF T
    <3> QED
      BY <1>7, <2>1, HasLeast
  <2>3. m \in 0..ackIds /\ Wrong(m)
    BY <2>2
  <2>4. CASE m = 0
    <3>1. f[0] = {id}
      BY <1>1, <1>4
    <3>2. Cardinality({id}) = 1
      BY FS_Singleton
    <3>3. {id} \subseteq N /\ id \in {id}
      OBVIOUS
    <3>4. Grown({id}, 0)
      BY <3>2 DEF Grown
    <3> QED
      BY <2>3, <2>4, <3>1, <3>3, <3>4
  <2>5. CASE m # 0
    <3> DEFINE U == f[m - 1]
               P == ParentsOf(U)
    <3>1. m \in Nat /\ m - 1 \in 0..ackIds /\ ~(m <= m - 1)
      BY <1>1, <2>3, <2>5
    <3>2. U \subseteq N /\ id \in U /\ Grown(U, m - 1)
      BY <2>2, <3>1
    <3>3. f[m] = U \cup P
      BY <1>4, <2>3, <2>5 DEF WithParents
    <3>4. P \subseteq N
      BY <3>2, ParentsTold
    <3> HIDE DEF Wrong, T, U
    <3>5. CASE P \subseteq U
      <4>1. f[m] = U
        BY <3>3, <3>5
      <4>2. Grown(f[m], m)
        BY <3>5, <4>1 DEF Grown
      <4> QED
        BY <2>3, <3>2, <4>1, <4>2 DEF Wrong
    <3>6. CASE ~(P \subseteq U)
      <4>1. PICK e \in P : e \notin U
        BY <3>6
      <4>2. U \cup {e} \subseteq f[m] /\ f[m] \subseteq N
        BY <3>2, <3>3, <3>4, <4>1
      <4>3. Cardinality(U \cup {e}) = Cardinality(U) + 1 /\ Cardinality(U) \in Nat
        BY <1>6, <3>2, <4>1, FS_AddElement
      <4>4. Cardinality(U \cup {e}) <= Cardinality(f[m]) /\ Cardinality(f[m]) \in Nat
        BY <1>6, <4>2, FS_Subset
      <4>5. m - 1 < Cardinality(U)
        BY <3>2, <3>6 DEF Grown
      <4>6. m < Cardinality(f[m])
        BY <3>1, <4>3, <4>4, <4>5
      <4> QED
        BY <2>3, <3>2, <4>2, <4>6 DEF Wrong, Grown
    <3> QED
      BY <3>5, <3>6
  <2> QED
    BY <2>4, <2>5
<1>8. f[ackIds] \subseteq N /\ id \in f[ackIds] /\ Grown(f[ackIds], ackIds)
  BY <1>1, <1>7
<1>9. ParentsOf(f[ackIds]) \subseteq f[ackIds]
  <2>1. Cardinality(f[ackIds]) \in Nat /\ Cardinality(f[ackIds]) <= ackIds
    BY <1>6, <1>8
  <2>2. ~(ackIds < Cardinality(f[ackIds]))
    BY <1>1, <2>1
  <2> QED
    BY <1>8, <2>2 DEF Grown
<1> QED
  BY <1>3, <1>8, <1>9, ParentsTold

\* A record that is created descends from what there was.
LEMMA CreatesIndependent ==
  ASSUME IInv, History, Descent, NEW d, d.parents \subseteq 1..ackIds, CreateNameRecord(d),
         NEW x, x.record.sources = d.sources, x.record.parents = d.parents
  PROVE  Independent(Elements(trace), observations, ackIds, x)
<1>1. Supported(d)
  BY DEF CreateNameRecord
<1>2. d.sources \subseteq DOMAIN observations /\ ~ SelfProving(d)
  BY <1>1 DEF Supported
<1>3. ASSUME NEW o \in d.sources, NEW p \in d.parents, observations[o].ack # None
      PROVE  \E S \in SUBSET (1..ackIds) :
               p \notin S /\ observations[o].ack \in S /\ Upheld(Elements(trace), S)
  <2>1. observations[o].ack \in 1..ackIds
    BY <1>2, <1>3 DEF Descent, Descends, Derives
  <2> DEFINE S == SameOrAncestors(observations[o].ack)
  <2>2. S \subseteq 1..ackIds /\ observations[o].ack \in S /\ Upheld(Elements(trace), S)
    BY <2>1, AncestorsFound
  <2>3. p \notin S
    BY <1>2, <1>3 DEF SelfProving
  <2> QED
    BY <2>2, <2>3
<1> QED
  BY <1>2, <1>3 DEF Independent

\* Every step leaves the descent of the records sound.
LEMMA DescentKept == IInv /\ History /\ Descent /\ [Next]_vars => Descent'
<1> SUFFICES ASSUME IInv, History, Descent, [Next]_vars
             PROVE  Descent'
  OBVIOUS
<1> DEFINE E == Elements(trace)
           F == Elements(trace')
<1>1. /\ IsList(trace) /\ ackIds \in Nat /\ recordIds \in Nat
      /\ Derives(observations, ackIds)
  BY DEF IInv, Listed, Descent, Descends
<1>2. ASSUME NEW r, trace' = Append(trace, r)
      PROVE  F = E \cup {r}
  BY <1>1, <1>2, Appended
<1>3. Descends(F, observations', acks', ackIds') => Descent'
  BY DEF Descent
<1>4. ASSUME acks' = acks, ackIds' = ackIds, observations' = observations,
             \/ trace' = trace
             \/ \E r : trace' = Append(trace, r) /\ ~Acknowledges(r) /\ ~Creates(r)
      PROVE  Descent'
  <2>1. E \subseteq F /\ \A x \in F : Acknowledges(x) \/ Creates(x) => x \in E
    BY <1>2, <1>4
  <2> HIDE DEF F
  <2>2. Descends(F, observations, acks, ackIds)
    BY <1>1, <2>1, DescentGrows
  <2> QED
    BY <1>3, <1>4, <2>2
<1>5. CASE Occur
  <2>1. acks' = acks /\ ackIds' = ackIds
    BY <1>5 DEF Occur, ledgerVars, ledgerIds
  <2>2. ASSUME NEW type, NEW payload, CommitEvent(type, payload)
        PROVE  Descent'
    <3> DEFINE r == [kind |-> "CANONICAL_EVENT_COMMITTED", event |-> [id |-> eventIds + 1, type |-> type]]
    <3>1. (trace' = trace \/ trace' = Append(trace, r)) /\ observations' = observations
      BY <2>2 DEF CommitEvent
    <3>2. ~Creates(r) /\ ~Acknowledges(r)
      BY DEF Creates, Acknowledges
    <3> HIDE DEF r
    <3> QED
      BY <1>4, <2>1, <3>1, <3>2
  <2>3. ASSUME NEW d, NEW visible, d.ack \in {None} \cup 1..ackIds, RecordObservation(d, visible)
        PROVE  Descent'
    <3> DEFINE r == [kind |-> "OBSERVATION_RECORDED", observation |-> d]
    <3>1. trace' = Append(trace, r) /\ observations' = Append(observations, d)
      BY <2>3 DEF RecordObservation
    <3>2. ~Creates(r) /\ ~Acknowledges(r)
      BY DEF Creates, Acknowledges
    <3> HIDE DEF r
    <3>3. E \subseteq F /\ \A x \in F : Acknowledges(x) \/ Creates(x) => x \in E
      BY <1>2, <3>1, <3>2
    <3> DEFINE obs == Append(observations, d)
    <3>4. IsList(observations)
      BY <1>1 DEF Derives
    <3>5. /\ Len(observations) \in Nat /\ Len(obs) = Len(observations) + 1
          /\ \A i \in 1..Len(observations) : obs[i] = observations[i]
          /\ obs[Len(observations) + 1] = d
      BY <3>4, AppendedEntries
    <3>6. IsList(obs)
      BY <3>4, Appended
    <3>7. DOMAIN observations = 1..Len(observations) /\ DOMAIN obs = 1..Len(obs)
      <4>1. DOMAIN observations = 1..Len(observations)
        BY <3>4, ListFacts DEF IsList
      <4> HIDE DEF obs
      <4>2. DOMAIN obs = 1..Len(obs)
        BY <3>6, ListFacts DEF IsList
      <4> QED
        BY <4>1, <4>2
    <3> HIDE DEF obs
    <3>8. /\ DOMAIN observations \subseteq DOMAIN obs
          /\ \A o \in DOMAIN observations : obs[o] = observations[o]
          /\ \A o \in DOMAIN obs : o \in DOMAIN observations \/ obs[o] = d
      BY <3>5, <3>7
    <3>9. Derives(obs, ackIds)
      BY <1>1, <2>3, <3>6, <3>8 DEF Derives
    <3> HIDE DEF F
    <3>10. Descends(F, obs, acks, ackIds)
      BY <1>1, <3>3, <3>8, <3>9, DescentGrows
    <3> QED
      BY <1>3, <2>1, <3>1, <3>10 DEF obs
  <2> QED
    BY <1>5, <2>2, <2>3 DEF Occur
<1>6. ASSUME NEW d \in RecordDrafts, d.parents \subseteq 1..ackIds, CreateNameRecord(d)
      PROVE  Descent'
  <2> DEFINE record == [claim |-> d.claim, sources |-> d.sources, parents |-> d.parents,
                        plans |-> d.plans, status |-> IF d.confirmed THEN "CONFIRMED" ELSE "DRAFT"]
             r == [kind |-> "NAME_RECORD_CREATED", id |-> recordIds + 1, record |-> record]
  <2>1. /\ trace' = Append(trace, r) /\ observations' = observations
        /\ acks' = acks /\ ackIds' = ackIds
    BY <1>6 DEF CreateNameRecord, occurrenceVars
  <2>2. /\ r.record.sources = d.sources /\ r.record.parents = d.parents
        /\ r.id = recordIds + 1 /\ ~Acknowledges(r)
    BY DEF Acknowledges
  <2> HIDE DEF r
  <2>3. Independent(E, observations, ackIds, r)
    BY <1>6, <2>2, CreatesIndependent
  <2>4. E \subseteq F /\ \A x \in F : x \in E \/ x = r
    BY <1>2, <2>1
  <2>5. r.id \notin 1..recordIds
    BY <1>1, <2>2
  <2> HIDE DEF F
  <2>6. Descends(F, observations, acks, ackIds)
    BY <1>1, <2>2, <2>3, <2>4, <2>5, DescentGrows
  <2> QED
    BY <1>3, <2>1, <2>6
<1>7. ASSUME NEW id \in DOMAIN recordOf, NEW changes \in Manifestations, Acknowledge(id, changes)
      PROVE  Descent'
  <2>1. PICK con, a, sup, gone, lost : Outcome(id, con, a, sup, gone, lost) /\ Follows(id, con, a, sup)
    BY <1>7, AcknowledgeTells
  <2>2. observations' = observations
    BY <1>7 DEF Acknowledge, occurrenceVars
  <2>3. /\ ackIds' = ackIds + 1 /\ a.connection = con /\ a.ack.id = con.id /\ con.id = ackIds + 1
        /\ Acknowledges(a) /\ ~Creates(a) /\ E \cup {a} \subseteq F
        /\ \A x \in F : x \in E \/ x = a \/ x.kind = "LIVE_INDEX_EVICTED"
        /\ Elements(acks') \subseteq Elements(acks) \cup {a.ack}
    BY <2>1 DEF Outcome, Follows
  <2>4. \A x \in F : /\ Acknowledges(x) => x \in E \/ x = a
                     /\ Creates(x) => x \in E
    BY <2>3 DEF Acknowledges, Creates
  <2>5. Derives(observations, ackIds + 1)
    BY <1>1 DEF Derives
  <2> DEFINE live == acks'
  <2>6. \A b \in Elements(live) : b \in Elements(acks) \/ \E x \in F : Acknowledges(x) /\ x.ack = b
    BY <2>3
  <2> HIDE DEF F, live
  <2>7. Descends(F, observations, live, ackIds + 1)
    BY <1>1, <2>3, <2>4, <2>5, <2>6, DescentGrows
  <2> QED
    BY <1>3, <2>2, <2>3, <2>7 DEF live
<1>8. ASSUME NEW changes \in Manifestations, ApplySystemProjection(changes)
      PROVE  Descent'
  <2> DEFINE r == [kind |-> "SYSTEM_PROJECTION_COMMITTED", manifestation |-> manifestation']
  <2>1. /\ trace' = Append(trace, r) /\ observations' = observations
        /\ acks' = acks /\ ackIds' = ackIds
    BY <1>8 DEF ApplySystemProjection, occurrenceVars, ledgerIds
  <2>2. ~Creates(r) /\ ~Acknowledges(r)
    BY DEF Creates, Acknowledges
  <2> HIDE DEF r
  <2> QED
    BY <1>4, <2>1, <2>2
<1>9. CASE UNCHANGED vars
  BY <1>4, <1>9 DEF vars, occurrenceVars, ledgerVars, ledgerIds
<1> QED
  BY <1>5, <1>6, <1>7, <1>8, <1>9 DEF Next

\* Then no record proves what it came of.
LEMMA DescentTells == IInv /\ History /\ Descent => NoSelfProof
<1> SUFFICES ASSUME IInv, History, Descent,
                    NEW r \in 1..recordIds, NEW o \in RecordFromTrace(r).sources,
                    NEW p \in RecordFromTrace(r).parents, observations[o].ack # None
             PROVE  \E S \in SUBSET (1..ackIds \ {p}) :
                      /\ observations[o].ack \in S
                      /\ \A a \in S : RecordFromTrace(AckFromTrace(a).record).parents \subseteq S
  BY DEF NoSelfProof
<1> DEFINE E == Elements(trace)
<1>1. Chronicled(E, recordIds) /\ Unacknowledged(E)
  BY DEF IInv, History
<1>2. PICK x \in E : Creates(x) /\ x.id = r
  BY <1>1 DEF Chronicled
<1>3. RecordFromTrace(r) = ToldBy(E, x)
  BY <1>1, <1>2, FoundInTrace
<1>4. RecordFromTrace(r).sources = x.record.sources /\ RecordFromTrace(r).parents = x.record.parents
  <2> DEFINE u == x.record
             e == [u EXCEPT !.status = "ACKNOWLEDGED"]
  <2>1. u = [claim |-> u.claim, sources |-> u.sources, parents |-> u.parents,
             plans |-> u.plans, status |-> u.status]
    BY <1>1, <1>2 DEF Unacknowledged, IsRecord
  <2>2. e.sources = u.sources /\ e.parents = u.parents
    BY <2>1
  <2>3. ToldBy(E, x) = u \/ ToldBy(E, x) = e
    BY DEF ToldBy
  <2> HIDE DEF e
  <2> QED
    BY <1>3, <2>2, <2>3
<1>5. Independent(E, observations, ackIds, x)
  BY <1>2 DEF Descent, Descends
<1>6. PICK S \in SUBSET (1..ackIds) : p \notin S /\ observations[o].ack \in S /\ Upheld(E, S)
  BY <1>4, <1>5 DEF Independent
<1>7. \A a \in S : RecordFromTrace(AckFromTrace(a).record).parents \subseteq S
  BY <1>6, ParentsTold
<1>8. S \in SUBSET (1..ackIds \ {p})
  BY <1>6
<1> QED
  BY <1>6, <1>7, <1>8

\* Whatever is recorded and acknowledged in whatever order, over all the
\* history: of an observation that the world derived from an acknowledgement,
\* no parent of the record that cites it is that one or an ancestor of it,
\* although the kernel looks at ancestors when the record is created only.
THEOREM NothingProvesItself == Spec => []NoSelfProof
<1> QED
  BY InitHolds, NextKeeps, HistoryInit, HistoryKept, DescentInit, DescentKept, DescentTells, PTL DEF Spec

-----------------------------------------------------------------------------
(* Replaying a trace.                                                      *)

\* f gives what replay has after each record.
Replays(f, t, last) ==
  f = [n \in 0..last |-> IF n = 0 THEN Blank ELSE Replayed(f[n - 1], t[n])]

\* There is such a function for every trace.
LEMMA Replaying ==
  ASSUME NEW t, NEW last \in Nat
  PROVE  \E f : Replays(f, t, last)
<1> DEFINE T == {m \in Nat : ~ \E f : Replays(f, t, m)}
<1>1. CASE T = {}
  BY <1>1
<1>2. CASE T # {}
  <2>0. T \subseteq Nat
    OBVIOUS
  <2>1. PICK m \in T : \A k \in T : m <= k
    BY <1>2, <2>0, HasLeast
  <2>2. CASE m = 0
    <3>1. Replays([n \in 0..0 |-> Blank], t, 0)
      BY DEF Replays
    <3> QED
      BY <2>1, <2>2, <3>1
  <2>3. CASE m # 0
    <3>1. m - 1 \in Nat /\ m - 1 \notin T /\ m \in Nat
      BY <2>1, <2>3
    <3>2. PICK f : Replays(f, t, m - 1)
      BY <3>1
    <3> DEFINE g == [n \in 0..m |-> IF n = m THEN Replayed(f[m - 1], t[m]) ELSE f[n]]
    <3>3. \A n \in 0..(m - 1) :
            g[n] = f[n] /\ f[n] = IF n = 0 THEN Blank ELSE Replayed(f[n - 1], t[n])
      BY <3>1, <3>2 DEF Replays
    <3>4. \A n \in 0..m : g[n] = IF n = 0 THEN Blank ELSE Replayed(g[n - 1], t[n])
      <4> TAKE n \in 0..m
      <4>1. CASE n = m
        BY <2>3, <3>1, <3>3, <4>1
      <4>2. CASE n # m /\ n # 0
        <5>1. n \in 0..(m - 1) /\ n - 1 \in 0..(m - 1)
          BY <3>1, <4>2
        <5> QED
          BY <3>3, <4>2, <5>1
      <4>3. CASE n = 0
        <5>1. n \in 0..(m - 1)
          BY <3>1, <4>3
        <5> QED
          BY <3>3, <4>3, <5>1
      <4> QED
        BY <4>1, <4>2, <4>3
    <3>5. g = [n \in 0..m |-> g[n]]
      OBVIOUS
    <3> HIDE DEF g
    <3>6. Replays(g, t, m)
      BY <3>4, <3>5 DEF Replays
    <3> QED
      BY <2>1, <3>6
  <2> QED
    BY <2>2, <2>3
<1> QED
  BY <1>1, <1>2

\* What replaying a trace gives.
ReplayOf(t) ==
  LET upTo[n \in 0..Len(t)] == IF n = 0 THEN Blank ELSE Replayed(upTo[n - 1], t[n])
  IN  upTo[Len(t)]

\* What is replayed from a trace is reached turn by turn.
LEMMA ReplayFollows ==
  ASSUME NEW t, Len(t) \in Nat
  PROVE  \E f : /\ f[Len(t)] = ReplayOf(t) /\ f[0] = Blank
                /\ \A n \in 1..Len(t) : f[n] = Replayed(f[n - 1], t[n])
<1> DEFINE f == CHOOSE f : Replays(f, t, Len(t))
<1>1. Replays(f, t, Len(t))
  BY Replaying
<1>2. ReplayOf(t) = f[Len(t)]
  BY DEF ReplayOf, Replays
<1> HIDE DEF f
<1>3. \A n \in 0..Len(t) : f[n] = IF n = 0 THEN Blank ELSE Replayed(f[n - 1], t[n])
  BY <1>1 DEF Replays
<1>4. 0 \in 0..Len(t) /\ \A n \in 1..Len(t) : n \in 0..Len(t) /\ n # 0
  OBVIOUS
<1>5. f[0] = Blank /\ \A n \in 1..Len(t) : f[n] = Replayed(f[n - 1], t[n])
  BY <1>3, <1>4
<1> QED
  BY <1>2, <1>5

\* Of a trace that goes on: g follows the records that come after.
LEMMA ReplayOn ==
  ASSUME NEW t, IsList(t), NEW u, IsList(u), NEW g, g[0] = ReplayOf(t),
         \A n \in 1..Len(u) : g[n] = Replayed(g[n - 1], u[n])
  PROVE  ReplayOf(t \o u) = g[Len(u)]
<1> DEFINE tu == t \o u
<1>1. /\ Len(t) \in Nat /\ Len(u) \in Nat /\ Len(tu) = Len(t) + Len(u)
      /\ \A i \in 1..Len(t) : tu[i] = t[i]
      /\ \A i \in 1..Len(u) : tu[Len(t) + i] = u[i]
  BY ConcatenatedEntries
<1> HIDE DEF tu
<1>2. PICK f : /\ f[Len(t)] = ReplayOf(t) /\ f[0] = Blank
               /\ \A n \in 1..Len(t) : f[n] = Replayed(f[n - 1], t[n])
  BY <1>1, ReplayFollows
<1>3. PICK h : /\ h[Len(tu)] = ReplayOf(tu) /\ h[0] = Blank
               /\ \A n \in 1..Len(tu) : h[n] = Replayed(h[n - 1], tu[n])
  <2>1. Len(tu) \in Nat
    BY <1>1
  <2> QED
    BY <2>1, ReplayFollows
<1>4. h[Len(t)] = f[Len(t)]
  <2> DEFINE T == {n \in 0..Len(t) : h[n] # f[n]}
  <2>1. CASE T # {}
    <3>0. T \subseteq Nat
      BY <1>1
    <3>1. PICK m \in T : \A k \in T : m <= k
      BY <2>1, <3>0, HasLeast
    <3>2. m # 0 /\ m \in 1..Len(t) /\ m \in 1..Len(tu) /\ m - 1 \in 0..Len(t) /\ ~(m <= m - 1)
      BY <1>1, <1>2, <1>3, <3>1
    <3>3. h[m - 1] = f[m - 1] /\ tu[m] = t[m]
      BY <1>1, <3>1, <3>2
    <3>4. h[m] = f[m]
      BY <1>2, <1>3, <3>2, <3>3
    <3> QED
      BY <3>1, <3>4
  <2>2. CASE T = {}
    <3>1. Len(t) \in 0..Len(t)
      BY <1>1
    <3> QED
      BY <2>2, <3>1
  <2> QED
    BY <2>1, <2>2
<1> DEFINE T == {n \in 0..Len(u) : h[Len(t) + n] # g[n]}
<1>5. CASE T # {}
  <2>0. T \subseteq Nat
    BY <1>1
  <2>1. PICK m \in T : \A k \in T : m <= k
    BY <1>5, <2>0, HasLeast
  <2>2. m # 0
    <3>1. Len(t) + 0 = Len(t)
      BY <1>1
    <3> QED
      BY <1>2, <1>4, <2>1, <3>1
  <2>3. /\ m \in 1..Len(u) /\ Len(t) + m \in 1..Len(tu) /\ m - 1 \in 0..Len(u) /\ ~(m <= m - 1)
        /\ (Len(t) + m) - 1 = Len(t) + (m - 1)
    BY <1>1, <2>1, <2>2
  <2>4. h[(Len(t) + m) - 1] = g[m - 1] /\ tu[Len(t) + m] = u[m]
    BY <1>1, <2>1, <2>3
  <2>5. h[Len(t) + m] = Replayed(g[m - 1], u[m])
    BY <1>3, <2>3, <2>4
  <2> QED
    BY <2>1, <2>3, <2>5
<1>6. CASE T = {}
  <2>1. Len(u) \in 0..Len(u)
    BY <1>1
  <2> QED
    BY <1>1, <1>3, <1>6, <2>1 DEF tu
<1> QED
  BY <1>5, <1>6

\* One record more.
LEMMA ReplayOne ==
  ASSUME NEW t, IsList(t), NEW r
  PROVE  ReplayOf(Append(t, r)) = Replayed(ReplayOf(t), r)
<1> DEFINE u == <<r>>
           g == [n \in 0..1 |-> IF n = 0 THEN ReplayOf(t) ELSE Replayed(ReplayOf(t), r)]
<1>1. IsList(u) /\ Len(u) = 1 /\ u[1] = r /\ u = <<r>>
  BY AppendedOnly
<1>2. Append(t, r) = t \o u
  <2>1. t \in Seq(Elements(t) \cup {r})
    BY SeqMonotonic DEF IsList
  <2> QED
    BY <2>1, AppendIsConcat
<1>3. g[0] = ReplayOf(t) /\ g[1] = Replayed(g[1 - 1], u[1])
  BY <1>1
<1> HIDE DEF g, u
<1>4. \A n \in 1..Len(u) : g[n] = Replayed(g[n - 1], u[n])
  BY <1>1, <1>3
<1>5. IsList(u) /\ g[0] = ReplayOf(t)
  BY <1>1, <1>3
<1>6. ReplayOf(t \o u) = g[Len(u)]
  BY <1>4, <1>5, ReplayOn
<1> QED
  BY <1>1, <1>2, <1>3, <1>6

-----------------------------------------------------------------------------
(* One turn of the replay.                                                 *)

\* What replay makes of a trace.
Book(rs, ro, cs, ac, cf, ak, mf, ds) ==
  [records |-> rs, recordOf |-> ro, connections |-> cs, active |-> ac,
   conflicts |-> cf, acks |-> ak, manifestation |-> mf, deltas |-> ds]

\* A record is created.
LEMMA TurnCreated ==
  ASSUME NEW rs, NEW ro, NEW cs, NEW ac, NEW cf, NEW ak, NEW mf, NEW ds,
         NEW r, r.kind = "NAME_RECORD_CREATED"
  PROVE  Replayed(Book(rs, ro, cs, ac, cf, ak, mf, ds), r) =
           Book(Append(rs, r.id), Put(ro, r.id, r.record), cs, ac, cf, ak, mf, ds)
<1> DEFINE k == Book(rs, ro, cs, ac, cf, ak, mf, ds)
           more == Append(rs, r.id)
           known == Put(ro, r.id, r.record)
<1>1. Replayed(k, r) = [k EXCEPT !.records = Append(@, r.id), !.recordOf = Put(@, r.id, r.record)]
  BY DEF Replayed
<1>2. k.records = rs /\ k.recordOf = ro
  BY DEF Book
<1>3. Replayed(k, r) = [k EXCEPT !.records = more, !.recordOf = known]
  BY <1>1, <1>2
<1> HIDE DEF more, known
<1>4. PICK now : now = [k EXCEPT !.records = more, !.recordOf = known]
  OBVIOUS
<1>5. now = Book(more, known, cs, ac, cf, ak, mf, ds)
  BY <1>4 DEF Book
<1> QED
  BY <1>3, <1>4, <1>5 DEF more, known

\* What the system projects is taken over.
LEMMA TurnProjected ==
  ASSUME NEW rs, NEW ro, NEW cs, NEW ac, NEW cf, NEW ak, NEW mf, NEW ds,
         NEW r, r.kind = "SYSTEM_PROJECTION_COMMITTED"
  PROVE  Replayed(Book(rs, ro, cs, ac, cf, ak, mf, ds), r) = Book(rs, ro, cs, ac, cf, ak, r.manifestation, ds)
<1> DEFINE k == Book(rs, ro, cs, ac, cf, ak, mf, ds)
<1>1. Replayed(k, r) = [k EXCEPT !.manifestation = r.manifestation]
  BY DEF Replayed
<1> QED
  BY <1>1 DEF Book

\* Events and observations change nothing.
LEMMA TurnOther ==
  ASSUME NEW k, NEW r, r.kind \in {"CANONICAL_EVENT_COMMITTED", "OBSERVATION_RECORDED"}
  PROVE  Replayed(k, r) = k
BY DEF Replayed

\* A record that is acknowledged, among others.
Confirmed(ro, id) == Put(ro, id, [ro[id] EXCEPT !.status = "ACKNOWLEDGED"])

\* A record is acknowledged.
LEMMA TurnAcknowledged ==
  ASSUME NEW rs, NEW ro, NEW cs, NEW ac, NEW cf, NEW ak, NEW mf, NEW ds,
         NEW r, r.kind = "WORLD_ACKNOWLEDGEMENT_COMMITTED"
  PROVE  Replayed(Book(rs, ro, cs, ac, cf, ak, mf, ds), r) =
           Book(rs, Confirmed(ro, r.ack.record),
                Append(Retired(cs, Elements(r.ack.superseded)), r.connection),
                Append(Sans(ac, Elements(r.ack.superseded)), r.connection.id),
                cf \o r.conflicts, Newest(Append(ak, r.ack), RecentLimit), r.manifestation, ds \o r.deltas)
<1> DEFINE k == Book(rs, ro, cs, ac, cf, ak, mf, ds)
           sup == Elements(r.ack.superseded)
           cs1 == Append(Retired(cs, sup), r.connection)
           ac1 == Append(Outside(ac, sup), r.connection.id)
           cf1 == cf \o r.conflicts
           ro1 == Put(ro, r.ack.record, [ro[r.ack.record] EXCEPT !.status = "ACKNOWLEDGED"])
           ds1 == ds \o r.deltas
           ak1 == Newest(Append(ak, r.ack), RecentLimit)
<1>1. Replayed(k, r) = ReplayAck(k, r)
  BY DEF Replayed
<1>2. /\ k.connections = cs /\ k.active = ac /\ k.conflicts = cf /\ k.recordOf = ro
      /\ k.deltas = ds /\ k.acks = ak
  BY DEF Book
<1>3. ReplayAck(k, r) = [k EXCEPT !.connections = cs1, !.active = ac1, !.conflicts = cf1, !.recordOf = ro1,
                                  !.deltas = ds1, !.manifestation = r.manifestation, !.acks = ak1]
  <2> HIDE DEF k
  <2> QED
    BY <1>2 DEF ReplayAck
<1>4. Sans(ac, sup) = Outside(ac, sup) /\ Confirmed(ro, r.ack.record) = ro1
  BY DEF Sans, Outside, Confirmed
<1> HIDE DEF cs1, ac1, cf1, ro1, ds1, ak1, sup
<1>5. PICK now : now = [k EXCEPT !.connections = cs1, !.active = ac1, !.conflicts = cf1, !.recordOf = ro1,
                                 !.deltas = ds1, !.manifestation = r.manifestation, !.acks = ak1]
  OBVIOUS
<1>6. now = Book(rs, ro1, cs1, ac1, cf1, ak1, r.manifestation, ds1)
  BY <1>5 DEF Book
<1> QED
  BY <1>1, <1>3, <1>4, <1>5, <1>6 DEF cs1, ac1, cf1, ds1, ak1, sup

-----------------------------------------------------------------------------
(* Replaying what was archived.                                            *)

\* What of a list has no number of a set.
Others(s, X) == Keep(s, {i \in DOMAIN s : s[i].id \notin X})

\* It is what is left without the entries that have one.
LEMMA OthersSans ==
  ASSUME NEW s, IsList(s), NEW X, NEW Y, \A e \in Elements(s) : e \in Y <=> e.id \in X
  PROVE  Others(s, X) = Sans(s, Y)
<1>1. DOMAIN s = 1..Len(s) /\ \A i \in 1..Len(s) : s[i] \in Elements(s)
  BY ListFacts DEF IsList
<1> DEFINE I == {i \in DOMAIN s : s[i].id \notin X}
           J == {i \in DOMAIN s : s[i] \notin Y}
<1>2. \A i \in 1..Len(s) : i \in I <=> i \in J
  BY <1>1
<1> HIDE DEF I, J
<1>3. Keep(s, I) = Keep(s, J)
  BY <1>2, KeepSame
<1> QED
  BY <1>3 DEF Others, Sans, I, J

\* Taking out some, and then others.
LEMMA OthersTwice ==
  ASSUME NEW s, IsList(s), NEW X, NEW x
  PROVE  /\ IsList(Others(s, X)) /\ Elements(Others(s, X)) = {e \in Elements(s) : e.id \notin X}
         /\ Others(s, {}) = s
         /\ Unlisted(Others(s, X), x) = Others(s, X \cup {x})
<1> DEFINE Y == {e \in Elements(s) : e.id \in X}
           Z == {e \in Elements(s) : e.id = x}
           w == Others(s, X)
<1>1. w = Sans(s, Y)
  BY OthersSans
<1>2. IsList(w) /\ Elements(w) = Elements(s) \ Y
  <2> HIDE DEF w, Y
  <2> QED
    BY <1>1, SansElements
<1>3. Others(s, {}) = Sans(s, {})
  BY OthersSans
<1>4. Sans(s, {}) = s
  BY SansNone
<1>5. Others(w, {x}) = Sans(w, Z)
  <2>1. \A e \in Elements(w) : e \in Z <=> e.id \in {x}
    BY <1>2
  <2> HIDE DEF w, Z
  <2> QED
    BY <1>2, <2>1, OthersSans
<1>6. Unlisted(w, x) = Others(w, {x})
  <2> HIDE DEF w
  <2>1. DOMAIN w = 1..Len(w)
    BY <1>2, ListFacts DEF IsList
  <2> DEFINE I == {i \in DOMAIN w : w[i].id # x}
             J == {i \in DOMAIN w : w[i].id \notin {x}}
  <2>2. \A i \in 1..Len(w) : i \in I <=> i \in J
    OBVIOUS
  <2> HIDE DEF I, J
  <2>3. Keep(w, I) = Keep(w, J)
    BY <1>2, <2>2, KeepSame
  <2> QED
    BY <2>3 DEF Unlisted, Others, I, J
<1>7. Sans(Sans(s, Y), Z) = Sans(s, Y \cup Z)
  <2> HIDE DEF Y, Z
  <2> QED
    BY SansTwice
<1>8. Others(s, X \cup {x}) = Sans(s, Y \cup Z)
  <2>1. \A e \in Elements(s) : e \in Y \cup Z <=> e.id \in X \cup {x}
    OBVIOUS
  <2> HIDE DEF Y, Z
  <2> QED
    BY <2>1, OthersSans
<1>9. Elements(s) \ Y = {e \in Elements(s) : e.id \notin X}
  OBVIOUS
<1> HIDE DEF Y, Z
<1> QED
  BY <1>1, <1>2, <1>3, <1>4, <1>5, <1>6, <1>7, <1>8, <1>9 DEF w

\* The kinds of what an acknowledgement archives.
ArchivedKinds == {"WORLD_ACKNOWLEDGEMENT", "CONNECTION_VERSION", "NAME_RECORD", "MEMORY_CONFLICT"}

\* A book without some objects of a kind.
Compacted(rs, ro, cs, ac, cf, ak, mf, ds, kind, X) ==
  Book(IF kind = "NAME_RECORD" THEN Sans(rs, X) ELSE rs,
       IF kind = "NAME_RECORD" THEN Drop(ro, X) ELSE ro,
       IF kind = "CONNECTION_VERSION" THEN Others(cs, X) ELSE cs,
       ac,
       IF kind = "MEMORY_CONFLICT" THEN Others(cf, X) ELSE cf,
       ak, mf, ds)

\* Nothing is archived.
LEMMA CompactedNothing ==
  ASSUME NEW rs, NEW ro, NEW cs, NEW ac, NEW cf, NEW ak, NEW mf, NEW ds, NEW kind,
         IsList(rs), IsMap(ro), IsList(cs), IsList(cf)
  PROVE  Compacted(rs, ro, cs, ac, cf, ak, mf, ds, kind, {}) = Book(rs, ro, cs, ac, cf, ak, mf, ds)
<1>1. Sans(rs, {}) = rs
  BY SansNone
<1>2. Others(cs, {}) = cs /\ Others(cf, {}) = cf
  BY OthersTwice
<1>3. Drop(ro, {}) = ro
  BY DEF Drop, IsMap
<1> QED
  BY <1>1, <1>2, <1>3 DEF Compacted

\* The record of what is archived.
Eviction(kind, x) == [kind |-> "LIVE_INDEX_EVICTED", object |-> kind, id |-> x]

\* One object is archived.
LEMMA TurnEvicted ==
  ASSUME NEW rs, NEW ro, NEW cs, NEW ac, NEW cf, NEW ak, NEW mf, NEW ds, NEW kind \in ArchivedKinds, NEW x
  PROVE  Replayed(Book(rs, ro, cs, ac, cf, ak, mf, ds), Eviction(kind, x)) =
           Book(IF kind = "NAME_RECORD" THEN Sans(rs, {x}) ELSE rs,
                IF kind = "NAME_RECORD" THEN Drop(ro, {x}) ELSE ro,
                IF kind = "CONNECTION_VERSION" THEN Unlisted(cs, x) ELSE cs,
                ac,
                IF kind = "MEMORY_CONFLICT" THEN Unlisted(cf, x) ELSE cf,
                ak, mf, ds)
<1> DEFINE k == Book(rs, ro, cs, ac, cf, ak, mf, ds)
           r == Eviction(kind, x)
<1>1. r.kind = "LIVE_INDEX_EVICTED" /\ r.object = kind /\ r.id = x
  BY DEF Eviction
<1>2. Replayed(k, r) = ReplayEviction(k, r)
  <2> HIDE DEF k, r
  <2> QED
    BY <1>1 DEF Replayed
<1>3. /\ k.records = rs /\ k.recordOf = ro /\ k.connections = cs /\ k.conflicts = cf
      /\ k = Book(rs, ro, cs, ac, cf, ak, mf, ds)
  BY DEF Book
<1> HIDE DEF k, r
<1>4. CASE kind = "CONNECTION_VERSION"
  <2>1. ReplayEviction(k, r) = [k EXCEPT !.connections = Unlisted(@, x)]
    BY <1>1, <1>4 DEF ReplayEviction
  <2>2. ReplayEviction(k, r) = Book(rs, ro, Unlisted(cs, x), ac, cf, ak, mf, ds)
    BY <1>3, <2>1 DEF Book
  <2> QED
    BY <1>2, <1>4, <2>2 DEF k, r
<1>5. CASE kind = "NAME_RECORD"
  <2>1. ReplayEviction(k, r) = [k EXCEPT !.recordOf = Drop(@, {x}), !.records = Outside(@, {x})]
    BY <1>1, <1>5 DEF ReplayEviction
  <2>2. PICK more, known : more = Sans(rs, {x}) /\ known = Drop(ro, {x})
    OBVIOUS
  <2>3. Outside(rs, {x}) = more
    BY <2>2 DEF Sans, Outside
  <2>4. ReplayEviction(k, r) = [k EXCEPT !.recordOf = known, !.records = more]
    BY <1>3, <2>1, <2>2, <2>3
  <2>5. PICK now : now = [k EXCEPT !.recordOf = known, !.records = more]
    OBVIOUS
  <2>6. now = Book(more, known, cs, ac, cf, ak, mf, ds)
    BY <2>5 DEF Book, k
  <2> QED
    BY <1>2, <1>5, <2>2, <2>4, <2>5, <2>6 DEF k, r
<1>6. CASE kind = "MEMORY_CONFLICT"
  <2>1. ReplayEviction(k, r) = [k EXCEPT !.conflicts = Unlisted(@, x)]
    BY <1>1, <1>6 DEF ReplayEviction
  <2>2. ReplayEviction(k, r) = Book(rs, ro, cs, ac, Unlisted(cf, x), ak, mf, ds)
    BY <1>3, <2>1 DEF Book
  <2> QED
    BY <1>2, <1>6, <2>2 DEF k, r
<1>7. CASE kind = "WORLD_ACKNOWLEDGEMENT"
  <2>1. ReplayEviction(k, r) = k
    BY <1>1, <1>7 DEF ReplayEviction
  <2> QED
    BY <1>2, <1>7, <2>1 DEF k, r
<1> QED
  BY <1>4, <1>5, <1>6, <1>7 DEF ArchivedKinds

\* One object more is archived.
LEMMA CompactedMore ==
  ASSUME NEW rs, NEW ro, NEW cs, NEW ac, NEW cf, NEW ak, NEW mf, NEW ds, NEW kind \in ArchivedKinds,
         IsList(rs), IsList(cs), IsList(cf), NEW X, NEW x, NEW Y, Y = X \cup {x}
  PROVE  Replayed(Compacted(rs, ro, cs, ac, cf, ak, mf, ds, kind, X), Eviction(kind, x)) =
           Compacted(rs, ro, cs, ac, cf, ak, mf, ds, kind, Y)
<1>1. PICK rs1, ro1, cs1, cf1 :
        /\ rs1 = IF kind = "NAME_RECORD" THEN Sans(rs, X) ELSE rs
        /\ ro1 = IF kind = "NAME_RECORD" THEN Drop(ro, X) ELSE ro
        /\ cs1 = IF kind = "CONNECTION_VERSION" THEN Others(cs, X) ELSE cs
        /\ cf1 = IF kind = "MEMORY_CONFLICT" THEN Others(cf, X) ELSE cf
  OBVIOUS
<1>2. Compacted(rs, ro, cs, ac, cf, ak, mf, ds, kind, X) = Book(rs1, ro1, cs1, ac, cf1, ak, mf, ds)
  BY <1>1 DEF Compacted
<1>3. Sans(Sans(rs, X), {x}) = Sans(rs, Y)
  BY SansTwice
<1>4. Unlisted(Others(cs, X), x) = Others(cs, Y) /\ Unlisted(Others(cf, X), x) = Others(cf, Y)
  BY OthersTwice
<1>5. Drop(Drop(ro, X), {x}) = Drop(ro, Y)
  BY DEF Drop
<1>6. PICK rs2, ro2, cs2, cf2 :
        /\ rs2 = IF kind = "NAME_RECORD" THEN Sans(rs1, {x}) ELSE rs1
        /\ ro2 = IF kind = "NAME_RECORD" THEN Drop(ro1, {x}) ELSE ro1
        /\ cs2 = IF kind = "CONNECTION_VERSION" THEN Unlisted(cs1, x) ELSE cs1
        /\ cf2 = IF kind = "MEMORY_CONFLICT" THEN Unlisted(cf1, x) ELSE cf1
  OBVIOUS
<1>7. Replayed(Book(rs1, ro1, cs1, ac, cf1, ak, mf, ds), Eviction(kind, x)) =
        Book(rs2, ro2, cs2, ac, cf2, ak, mf, ds)
  BY <1>6, TurnEvicted
<1>8. /\ rs2 = IF kind = "NAME_RECORD" THEN Sans(rs, Y) ELSE rs
      /\ ro2 = IF kind = "NAME_RECORD" THEN Drop(ro, Y) ELSE ro
      /\ cs2 = IF kind = "CONNECTION_VERSION" THEN Others(cs, Y) ELSE cs
      /\ cf2 = IF kind = "MEMORY_CONFLICT" THEN Others(cf, Y) ELSE cf
  BY <1>1, <1>3, <1>4, <1>5, <1>6
<1> QED
  BY <1>2, <1>7, <1>8 DEF Compacted

\* Whatever of a kind is archived at the end of a trace.
LEMMA ReplayCompaction ==
  ASSUME NEW rs, NEW ro, NEW cs, NEW ac, NEW cf, NEW ak, NEW mf, NEW ds, NEW kind \in ArchivedKinds,
         IsList(rs), IsMap(ro), IsList(cs), IsList(cf),
         NEW t, IsList(t), ReplayOf(t) = Book(rs, ro, cs, ac, cf, ak, mf, ds), NEW ids, IsList(ids)
  PROVE  /\ IsList(t \o Evictions(kind, ids))
         /\ ReplayOf(t \o Evictions(kind, ids)) =
              Compacted(rs, ro, cs, ac, cf, ak, mf, ds, kind, Elements(ids))
<1> DEFINE g == [n \in 0..Len(ids) |->
                   Compacted(rs, ro, cs, ac, cf, ak, mf, ds, kind, Elements(Leading(ids, n)))]
<1>1. Len(ids) \in Nat /\ DOMAIN ids = 1..Len(ids)
  BY ListFacts DEF IsList
<1>2. PICK u : u = Evictions(kind, ids)
  OBVIOUS
<1>3. IsList(u) /\ Len(u) = Len(ids) /\ \A i \in 1..Len(ids) : u[i] = Eviction(kind, ids[i])
  <2>1. u = [i \in 1..Len(ids) |-> u[i]] /\ \A i \in 1..Len(ids) : u[i] = Eviction(kind, ids[i])
    BY <1>1, <1>2 DEF Evictions, Eviction
  <2> QED
    BY <1>1, <2>1, FunctionIsList
<1>4. g[0] = ReplayOf(t)
  <2>1. Leading(ids, 0) = <<>> /\ Elements(<<>>) = {}
    BY LeadingOnes, EmptyList
  <2>2. Elements(Leading(ids, 0)) = {}
    BY <2>1
  <2>3. 0 \in 0..Len(ids)
    BY <1>1
  <2>4. g[0] = Compacted(rs, ro, cs, ac, cf, ak, mf, ds, kind, Elements(Leading(ids, 0)))
    BY <2>3
  <2>5. Compacted(rs, ro, cs, ac, cf, ak, mf, ds, kind, {}) = Book(rs, ro, cs, ac, cf, ak, mf, ds)
    BY CompactedNothing
  <2> HIDE DEF g
  <2> QED
    BY <2>2, <2>4, <2>5
<1>5. ASSUME NEW n \in 1..Len(u)
      PROVE  g[n] = Replayed(g[n - 1], u[n])
  <2>1. n \in 0..Len(ids) /\ n - 1 \in 0..Len(ids) /\ n \in 1..Len(ids)
    BY <1>1, <1>3
  <2>2. PICK X, Y : X = Elements(Leading(ids, n - 1)) /\ Y = Elements(Leading(ids, n))
    OBVIOUS
  <2>3. /\ g[n] = Compacted(rs, ro, cs, ac, cf, ak, mf, ds, kind, Y)
        /\ g[n - 1] = Compacted(rs, ro, cs, ac, cf, ak, mf, ds, kind, X)
        /\ u[n] = Eviction(kind, ids[n])
    BY <1>3, <2>1, <2>2
  <2>4. IsList(Leading(ids, n - 1)) /\ Leading(ids, n) = Append(Leading(ids, n - 1), ids[n])
    BY <2>1, LeadingOnes
  <2>5. Y = X \cup {ids[n]}
    BY <2>2, <2>4, Appended
  <2> HIDE DEF g
  <2>6. Replayed(Compacted(rs, ro, cs, ac, cf, ak, mf, ds, kind, X), Eviction(kind, ids[n])) =
          Compacted(rs, ro, cs, ac, cf, ak, mf, ds, kind, Y)
    BY <2>5, CompactedMore
  <2> QED
    BY <2>3, <2>6
<1>6. g[Len(u)] = Compacted(rs, ro, cs, ac, cf, ak, mf, ds, kind, Elements(ids))
  <2>1. Len(u) \in 0..Len(ids) /\ Leading(ids, Len(u)) = ids
    BY <1>1, <1>3, LeadingOnes
  <2> QED
    BY <2>1
<1> HIDE DEF g
<1>7. ReplayOf(t \o u) = g[Len(u)]
  BY <1>3, <1>4, <1>5, ReplayOn
<1>8. IsList(t \o u)
  BY <1>3, Concatenated
<1> QED
  BY <1>2, <1>6, <1>7, <1>8

\* What an acknowledgement records, with all that it archives.
Tells(t, r, oldAcks, oldCons, oldRecords, oldNotes) ==
  t \o <<r>> \o Evictions("WORLD_ACKNOWLEDGEMENT", oldAcks) \o Evictions("CONNECTION_VERSION", oldCons) \o
  Evictions("NAME_RECORD", oldRecords) \o Evictions("MEMORY_CONFLICT", oldNotes)

\* An acknowledgement at the end of a trace.
LEMMA ReplayAcknowledgement ==
  ASSUME NEW rs, NEW ro, NEW cs, NEW ac, NEW cf, NEW ak, NEW mf, NEW ds,
         IsList(rs), IsList(cs), IsList(cf),
         NEW t, IsList(t), ReplayOf(t) = Book(rs, ro, cs, ac, cf, ak, mf, ds),
         NEW r, r.kind = "WORLD_ACKNOWLEDGEMENT_COMMITTED", IsList(r.conflicts),
         NEW oldAcks, NEW oldCons, NEW oldRecords, NEW oldNotes,
         IsList(oldAcks), IsList(oldCons), IsList(oldRecords), IsList(oldNotes)
  PROVE  ReplayOf(Tells(t, r, oldAcks, oldCons, oldRecords, oldNotes)) =
           Book(Sans(rs, Elements(oldRecords)),
                Drop(Confirmed(ro, r.ack.record), Elements(oldRecords)),
                Others(Append(Retired(cs, Elements(r.ack.superseded)), r.connection), Elements(oldCons)),
                Append(Sans(ac, Elements(r.ack.superseded)), r.connection.id),
                Others(cf \o r.conflicts, Elements(oldNotes)),
                Newest(Append(ak, r.ack), RecentLimit), r.manifestation, ds \o r.deltas)
<1>1. PICK ro1, cs1, ac1, cf1, ak1, ds1 :
        /\ ro1 = Confirmed(ro, r.ack.record)
        /\ cs1 = Append(Retired(cs, Elements(r.ack.superseded)), r.connection)
        /\ ac1 = Append(Sans(ac, Elements(r.ack.superseded)), r.connection.id)
        /\ cf1 = cf \o r.conflicts
        /\ ak1 = Newest(Append(ak, r.ack), RecentLimit)
        /\ ds1 = ds \o r.deltas
  OBVIOUS
<1>2. IsMap(ro1) /\ IsList(cs1) /\ IsList(cf1)
  <2>1. IsMap(Confirmed(ro, r.ack.record))
    BY MapsMade DEF Confirmed
  <2>2. PICK u : u = Retired(cs, Elements(r.ack.superseded))
    OBVIOUS
  <2>3. u = [i \in DOMAIN cs |-> u[i]]
    BY <2>2 DEF Retired
  <2>4. IsList(u)
    BY <2>3, Mapped
  <2>5. IsList(Append(u, r.connection))
    BY <2>4, Appended
  <2>6. IsList(cf \o r.conflicts)
    BY Concatenated
  <2> QED
    BY <1>1, <2>1, <2>2, <2>5, <2>6
<1>3. PICK t1 : t1 = t \o <<r>>
  OBVIOUS
<1>4. IsList(t1) /\ ReplayOf(t1) = Book(rs, ro1, cs1, ac1, cf1, ak1, r.manifestation, ds1)
  <2>1. t1 = Append(t, r)
    <3>1. t \in Seq(Elements(t) \cup {r})
      BY SeqMonotonic DEF IsList
    <3> QED
      BY <1>3, <3>1, AppendIsConcat
  <2>2. ReplayOf(Append(t, r)) = Replayed(ReplayOf(t), r)
    BY ReplayOne
  <2>3. Replayed(Book(rs, ro, cs, ac, cf, ak, mf, ds), r) =
          Book(rs, ro1, cs1, ac1, cf1, ak1, r.manifestation, ds1)
    BY <1>1, TurnAcknowledged
  <2>4. IsList(Append(t, r))
    BY Appended
  <2> QED
    BY <2>1, <2>2, <2>3, <2>4
<1>5. PICK m1 : m1 = r.manifestation
  OBVIOUS
<1>6. PICK t2 : t2 = t1 \o Evictions("WORLD_ACKNOWLEDGEMENT", oldAcks)
  OBVIOUS
<1>7. IsList(t2) /\ ReplayOf(t2) = Book(rs, ro1, cs1, ac1, cf1, ak1, m1, ds1)
  <2>1. "WORLD_ACKNOWLEDGEMENT" \in ArchivedKinds
    BY DEF ArchivedKinds
  <2>2. /\ IsList(t2)
        /\ ReplayOf(t2) =
             Compacted(rs, ro1, cs1, ac1, cf1, ak1, m1, ds1, "WORLD_ACKNOWLEDGEMENT", Elements(oldAcks))
    BY <1>2, <1>4, <1>5, <1>6, <2>1, ReplayCompaction
  <2> QED
    BY <2>2 DEF Compacted
<1>8. PICK t3, cs3 : /\ t3 = t2 \o Evictions("CONNECTION_VERSION", oldCons)
                     /\ cs3 = Others(cs1, Elements(oldCons))
  OBVIOUS
<1>9. IsList(t3) /\ IsList(cs3) /\ ReplayOf(t3) = Book(rs, ro1, cs3, ac1, cf1, ak1, m1, ds1)
  <2>1. "CONNECTION_VERSION" \in ArchivedKinds
    BY DEF ArchivedKinds
  <2>2. /\ IsList(t3)
        /\ ReplayOf(t3) =
             Compacted(rs, ro1, cs1, ac1, cf1, ak1, m1, ds1, "CONNECTION_VERSION", Elements(oldCons))
    BY <1>2, <1>7, <1>8, <2>1, ReplayCompaction
  <2>3. IsList(cs3)
    BY <1>2, <1>8, OthersTwice
  <2> QED
    BY <1>8, <2>2, <2>3 DEF Compacted
<1>10. PICK t4, rs4, ro4 : /\ t4 = t3 \o Evictions("NAME_RECORD", oldRecords)
                           /\ rs4 = Sans(rs, Elements(oldRecords))
                           /\ ro4 = Drop(ro1, Elements(oldRecords))
  OBVIOUS
<1>11. IsList(t4) /\ IsList(rs4) /\ IsMap(ro4) /\ ReplayOf(t4) = Book(rs4, ro4, cs3, ac1, cf1, ak1, m1, ds1)
  <2>1. "NAME_RECORD" \in ArchivedKinds
    BY DEF ArchivedKinds
  <2>2. /\ IsList(t4)
        /\ ReplayOf(t4) =
             Compacted(rs, ro1, cs3, ac1, cf1, ak1, m1, ds1, "NAME_RECORD", Elements(oldRecords))
    BY <1>2, <1>9, <1>10, <2>1, ReplayCompaction
  <2>3. IsList(rs4) /\ IsMap(ro4)
    BY <1>10, SansElements, MapsMade
  <2> QED
    BY <1>10, <2>2, <2>3 DEF Compacted
<1>12. PICK t5, cf5 : /\ t5 = t4 \o Evictions("MEMORY_CONFLICT", oldNotes)
                      /\ cf5 = Others(cf1, Elements(oldNotes))
  OBVIOUS
<1>13. ReplayOf(t5) = Book(rs4, ro4, cs3, ac1, cf5, ak1, m1, ds1)
  <2>1. "MEMORY_CONFLICT" \in ArchivedKinds
    BY DEF ArchivedKinds
  <2>2. ReplayOf(t5) =
          Compacted(rs4, ro4, cs3, ac1, cf1, ak1, m1, ds1, "MEMORY_CONFLICT", Elements(oldNotes))
    BY <1>2, <1>9, <1>11, <1>12, <2>1, ReplayCompaction
  <2> QED
    BY <1>12, <2>2 DEF Compacted
<1>14. t5 = Tells(t, r, oldAcks, oldCons, oldRecords, oldNotes)
  BY <1>3, <1>6, <1>8, <1>10, <1>12 DEF Tells
<1>15. /\ rs4 = Sans(rs, Elements(oldRecords))
       /\ ro4 = Drop(Confirmed(ro, r.ack.record), Elements(oldRecords))
       /\ cs3 = Others(Append(Retired(cs, Elements(r.ack.superseded)), r.connection), Elements(oldCons))
       /\ cf5 = Others(cf \o r.conflicts, Elements(oldNotes))
  BY <1>1, <1>8, <1>10, <1>12
<1> QED
  BY <1>1, <1>5, <1>13, <1>14, <1>15

-----------------------------------------------------------------------------
(* The conflicts.                                                          *)

\* They are numbered upwards by their counter.
Rising(s, last) ==
  /\ IsList(s)
  /\ \A i \in 1..Len(s) : s[i].id \in 1..last
  /\ \A i, j \in 1..Len(s) : i < j => s[i].id < s[j].id

\* As are the new ones.
LEMMA RisingGrows ==
  ASSUME NEW s, NEW last \in Nat, Rising(s, last), NEW u, IsList(u), \A i \in 1..Len(u) : u[i].id = last + i
  PROVE  Rising(s \o u, last + Len(u))
<1>1. PICK w : w = s \o u
  OBVIOUS
<1>2. /\ IsList(w) /\ Len(s) \in Nat /\ Len(u) \in Nat /\ Len(w) = Len(s) + Len(u)
      /\ \A i \in 1..Len(s) : w[i] = s[i]
      /\ \A i \in 1..Len(u) : w[Len(s) + i] = u[i]
  <2>1. IsList(s)
    BY DEF Rising
  <2> QED
    BY <1>1, <2>1, Concatenated, ConcatenatedEntries
<1>3. \A i \in 1..Len(s) : w[i].id \in 1..last
  BY <1>2 DEF Rising
<1>4. ASSUME NEW i \in 1..Len(w), i \notin 1..Len(s)
      PROVE  w[i].id = last + (i - Len(s)) /\ i - Len(s) \in 1..Len(u)
  <2>1. i - Len(s) \in 1..Len(u) /\ Len(s) + (i - Len(s)) = i
    BY <1>2, <1>4
  <2>2. w[i] = u[i - Len(s)]
    BY <1>2, <2>1
  <2> QED
    BY <2>1, <2>2
<1>5. ASSUME NEW i \in 1..Len(w)
      PROVE  w[i].id \in 1..(last + Len(u))
  <2>1. CASE i \in 1..Len(s)
    BY <1>2, <1>3, <2>1
  <2>2. CASE i \notin 1..Len(s)
    BY <1>2, <1>4, <2>2
  <2> QED
    BY <2>1, <2>2
<1>6. ASSUME NEW i \in 1..Len(w), NEW j \in 1..Len(w), i < j
      PROVE  w[i].id < w[j].id
  <2>1. CASE j \in 1..Len(s)
    <3>1. i \in 1..Len(s)
      BY <1>2, <1>6, <2>1
    <3>2. s[i].id < s[j].id
      BY <1>6, <2>1, <3>1 DEF Rising
    <3> QED
      BY <1>2, <2>1, <3>1, <3>2
  <2>2. CASE i \in 1..Len(s) /\ j \notin 1..Len(s)
    BY <1>2, <1>3, <1>4, <2>2
  <2>3. CASE i \notin 1..Len(s) /\ j \notin 1..Len(s)
    BY <1>2, <1>4, <1>6, <2>3
  <2> QED
    BY <2>1, <2>2, <2>3
<1>7. Rising(w, last + Len(u))
  BY <1>2, <1>5, <1>6 DEF Rising
<1> QED
  BY <1>1, <1>7

\* The numbers of some.
Ids(s) == [i \in DOMAIN s |-> s[i].id]

\* Taking out the oldest by their numbers leaves the newest.
LEMMA RisingCut ==
  ASSUME NEW s, NEW last \in Nat, Rising(s, last), NEW limit \in Nat
  PROVE  /\ Others(s, Elements(Ids(Oldest(s, limit)))) = Newest(s, limit)
         /\ IsList(Ids(Oldest(s, limit)))
         /\ Rising(Newest(s, limit), last)
<1>0. IsList(s)
  BY DEF Rising
<1>1. PICK old, new : old = Oldest(s, limit) /\ new = Newest(s, limit)
  OBVIOUS
<1>2. Halved(s, limit, old, new)
  BY <1>0, <1>1, Halves
<1>3. /\ IsList(old) /\ IsList(new) /\ Len(old) \in Nat /\ Len(new) \in Nat
      /\ \A i \in 1..Len(old) : i \in 1..Len(s) /\ old[i] = s[i]
      /\ \A i \in 1..Len(new) : i + Len(old) \in 1..Len(s) /\ new[i] = s[i + Len(old)]
  BY <1>2 DEF Halved
<1>4. Len(s) \in Nat /\ \A i \in 1..Len(s) : s[i].id \in Int
  <2>1. Len(s) \in Nat
    BY <1>0, ListFacts DEF IsList
  <2> QED
    BY <2>1 DEF Rising
<1>5. \A i, j \in 1..Len(s) : s[i].id = s[j].id => i = j
  <2> TAKE i, j \in 1..Len(s)
  <2> HAVE s[i].id = s[j].id
  <2>1. ~(s[i].id < s[j].id) /\ ~(s[j].id < s[i].id)
    BY <1>4
  <2>2. ~(i < j) /\ ~(j < i)
    BY <2>1 DEF Rising
  <2> QED
    BY <1>4, <2>2
<1>6. Distinct(s)
  BY <1>5 DEF Distinct
<1>7. Sans(s, Elements(old)) = new
  BY <1>0, <1>1, <1>6, SansOldest
<1>8. PICK ids : ids = Ids(old)
  OBVIOUS
<1>9. IsList(ids) /\ Elements(ids) = {old[i].id : i \in DOMAIN old}
  <2>1. ids = [i \in DOMAIN old |-> ids[i]] /\ \A i \in DOMAIN old : ids[i] = old[i].id
    BY <1>8 DEF Ids
  <2>2. IsList(ids) /\ Elements(ids) = {ids[i] : i \in DOMAIN old}
    BY <1>3, <2>1, Mapped
  <2> QED
    BY <2>1, <2>2
<1>10. ASSUME NEW e \in Elements(s)
       PROVE  e \in Elements(old) <=> e.id \in Elements(ids)
  <2>1. PICK a \in 1..Len(s) : e = s[a]
    BY <1>0, ListFacts DEF IsList
  <2>2. DOMAIN old = 1..Len(old)
    BY <1>3, ListFacts DEF IsList
  <2>3. ASSUME e \in Elements(old)
        PROVE  e.id \in Elements(ids)
    BY <1>9, <2>3 DEF Elements
  <2>4. ASSUME e.id \in Elements(ids)
        PROVE  e \in Elements(old)
    <3>1. PICK i \in 1..Len(old) : e.id = old[i].id
      BY <1>9, <2>2, <2>4
    <3>2. a = i
      BY <1>3, <1>5, <2>1, <3>1
    <3> QED
      BY <1>3, <2>1, <2>2, <3>1, <3>2 DEF Elements
  <2> QED
    BY <2>3, <2>4
<1>11. Others(s, Elements(ids)) = Sans(s, Elements(old))
  BY <1>0, <1>10, OthersSans
<1>12. Rising(new, last)
  <2>1. \A i \in 1..Len(new) : new[i].id \in 1..last
    BY <1>3 DEF Rising
  <2>2. ASSUME NEW i \in 1..Len(new), NEW j \in 1..Len(new), i < j
        PROVE  new[i].id < new[j].id
    <3>1. PICK a, b : a = i + Len(old) /\ b = j + Len(old)
      OBVIOUS
    <3>2. a \in 1..Len(s) /\ b \in 1..Len(s) /\ new[i] = s[a] /\ new[j] = s[b] /\ a < b
      BY <1>3, <2>2, <3>1
    <3> QED
      BY <3>2 DEF Rising
  <2> QED
    BY <1>3, <2>1, <2>2 DEF Rising
<1> QED
  BY <1>1, <1>7, <1>8, <1>9, <1>11, <1>12

\* The numbers of a list are one.
LEMMA IdsListed ==
  ASSUME NEW w, IsList(w)
  PROVE  IsList(Ids(w)) /\ Len(Ids(w)) = Len(w) /\ \A i \in 1..Len(w) : Ids(w)[i] = w[i].id
<1>1. Len(w) \in Nat /\ DOMAIN w = 1..Len(w)
  BY ListFacts DEF IsList
<1>2. PICK ids : ids = Ids(w)
  OBVIOUS
<1>3. ids = [i \in 1..Len(w) |-> ids[i]] /\ \A i \in 1..Len(w) : ids[i] = w[i].id
  BY <1>1, <1>2 DEF Ids
<1>4. IsList(ids) /\ Len(ids) = Len(w)
  BY <1>1, <1>3, FunctionIsList
<1> QED
  BY <1>2, <1>3, <1>4

\* Those of two lists one after the other.
LEMMA IdsConcat ==
  ASSUME NEW s, IsList(s), NEW u, IsList(u)
  PROVE  Ids(s \o u) = Ids(s) \o Ids(u)
<1>2. PICK a, b, w, c, d : a = Ids(s) /\ b = Ids(u) /\ w = s \o u /\ c = Ids(w) /\ d = a \o b
  OBVIOUS
<1>3. /\ IsList(a) /\ Len(a) = Len(s) /\ \A i \in 1..Len(s) : a[i] = s[i].id
      /\ IsList(b) /\ Len(b) = Len(u) /\ \A i \in 1..Len(u) : b[i] = u[i].id
  BY <1>2, IdsListed
<1>4. /\ IsList(w) /\ Len(s) \in Nat /\ Len(u) \in Nat /\ Len(w) = Len(s) + Len(u)
      /\ \A i \in 1..Len(s) : w[i] = s[i]
      /\ \A i \in 1..Len(u) : w[Len(s) + i] = u[i]
  BY <1>2, Concatenated, ConcatenatedEntries
<1>5. IsList(c) /\ Len(c) = Len(w) /\ \A i \in 1..Len(w) : c[i] = w[i].id
  BY <1>2, <1>4, IdsListed
<1>6. /\ IsList(d) /\ Len(d) = Len(a) + Len(b)
      /\ \A i \in 1..Len(a) : d[i] = a[i]
      /\ \A i \in 1..Len(b) : d[Len(a) + i] = b[i]
  <2>1. IsList(a) /\ IsList(b)
    BY <1>3
  <2>2. IsList(a \o b)
    BY <2>1, Concatenated
  <2>3. /\ Len(a \o b) = Len(a) + Len(b)
        /\ \A i \in 1..Len(a) : (a \o b)[i] = a[i]
        /\ \A i \in 1..Len(b) : (a \o b)[Len(a) + i] = b[i]
    BY <2>1, ConcatenatedEntries
  <2> QED
    BY <1>2, <1>3, <2>2, <2>3
<1>7. \A i \in 1..Len(w) : c[i] = d[i]
  <2> TAKE i \in 1..Len(w)
  <2>1. CASE i \in 1..Len(s)
    BY <1>3, <1>4, <1>5, <1>6, <2>1
  <2>2. CASE i \notin 1..Len(s)
    <3>1. PICK j \in 1..Len(u) : i = Len(s) + j
      <4>1. i - Len(s) \in 1..Len(u) /\ i = Len(s) + (i - Len(s))
        BY <1>4, <2>2
      <4> QED
        BY <4>1
    <3>2. c[i] = u[j].id
      BY <1>4, <1>5, <3>1
    <3>3. d[i] = u[j].id
      BY <1>3, <1>6, <3>1
    <3> QED
      BY <3>2, <3>3
  <2> QED
    BY <2>1, <2>2
<1>8. c = d
  BY <1>3, <1>4, <1>5, <1>6, <1>7, SameList
<1> QED
  BY <1>2, <1>8

-----------------------------------------------------------------------------
(* What an acknowledgement records.                                        *)

\* The indexes that the acknowledgement of a record leaves, by its trace
\* record r and what is archived.
Leaves(id, r, oldCons, oldRecords) ==
  /\ r.kind = "WORLD_ACKNOWLEDGEMENT_COMMITTED" /\ r.ack.record = id
  /\ records' = Sans(records, Elements(oldRecords))
  /\ recordOf' = Drop(Confirmed(recordOf, id), Elements(oldRecords))
  /\ connections' =
       Others(Append(Retired(connections, Elements(r.ack.superseded)), r.connection), Elements(oldCons))
  /\ active' = Append(Sans(active, Elements(r.ack.superseded)), r.connection.id)
  /\ acks' = Newest(Append(acks, r.ack), RecentLimit)
  /\ manifestation' = r.manifestation

\* The conflicts and changes that it notes.
Notes(r) ==
  /\ IsList(r.conflicts) /\ \A i \in 1..Len(r.conflicts) : r.conflicts[i].id = conflictIds + i
  /\ Elements(r.ack.conflicts) = {conflictIds + i : i \in 1..Len(r.conflicts)}
  /\ conflicts' = Newest(conflicts \o r.conflicts, RecentLimit)
  /\ conflictIds' = conflictIds + Len(r.conflicts)
  /\ IsList(r.deltas)
  /\ audit' = Newest(audit \o Ids(r.deltas), AuditLimit)
  /\ deltaIds' = deltaIds + Len(r.deltas)

\* What it counts.
Counts(r) ==
  /\ ackIds' = ackIds + 1 /\ recordIds' = recordIds
  /\ \/ r.connection.lineage = lineageIds + 1 /\ lineageIds' = lineageIds + 1
     \/ r.connection.lineage \in 1..lineageIds /\ lineageIds' = lineageIds

\* An acknowledgement does all of this.
LEMMA AcknowledgeRecords ==
  ASSUME IInv, NEW id \in DOMAIN recordOf, NEW changes \in Manifestations, Acknowledge(id, changes)
  PROVE  \E r, oldAcks, oldCons, oldRecords :
           /\ IsList(oldAcks) /\ IsList(oldCons) /\ IsList(oldRecords)
           /\ Leaves(id, r, oldCons, oldRecords) /\ Notes(r) /\ Counts(r)
           /\ trace' = Tells(trace, r, oldAcks, oldCons, oldRecords,
                             Ids(Oldest(conflicts \o r.conflicts, RecentLimit)))
<1> DEFINE record     == recordOf[id]
           clashes    == ProspectiveConflicts(record.claim)
           superseded == IF record.plans \cap Superseding = {} THEN <<>>
                         ELSE [i \in DOMAIN clashes |-> clashes[i].with]
           ackId      == ackIds + 1
           noted      == [i \in DOMAIN clashes |-> [id |-> conflictIds + i, type |-> clashes[i].type]]
           deltas     == Deltas(changes)
           connection ==
             [id |-> ackId, claim |-> record.claim, record |-> id, status |-> "ACTIVE",
              lineage |-> IF superseded = <<>> THEN lineageIds + 1 ELSE Connection(Head(superseded)).lineage,
              no |-> NextNumber(superseded)]
           ack        == [id |-> ackId, record |-> id, superseded |-> superseded,
                          conflicts |-> [i \in DOMAIN noted |-> noted[i].id]]
           allCons    == Append(Retired(connections, Elements(superseded)), connection)
           allActive  == Append(Outside(active, Elements(superseded)), ackId)
           byId       == [recordOf EXCEPT ![id].status = "ACKNOWLEDGED"]
           allAcks    == Append(acks, ack)
           noteAll    == conflicts \o noted
           oldAcks    == Oldest(allAcks, RecentLimit)
           oldCons    == IdleConnections(allCons, allActive)
           oldRecords == IdleRecords(allCons, allActive, byId)
           oldNotes   == Oldest(noteAll, RecentLimit)
           a          == [kind |-> "WORLD_ACKNOWLEDGEMENT_COMMITTED", ack |-> ack,
                          connection |-> connection, conflicts |-> noted, deltas |-> deltas,
                          manifestation |-> manifestation']
<1>1. Acknowledgeable(record) /\ \A i \in DOMAIN clashes : record.plans \cap Mitigations(clashes[i].type) # {}
  BY DEF Acknowledge
<1>2. /\ connections' = Outside(allCons, {c \in Elements(allCons) : c.id \in Elements(oldCons)})
      /\ active' = allActive
  BY DEF Acknowledge
<1>3. /\ recordOf' = Drop(byId, Elements(oldRecords))
      /\ records' = Outside(records, Elements(oldRecords))
  BY DEF Acknowledge
<1>4. /\ conflicts' = Newest(noteAll, RecentLimit)
      /\ acks' = Newest(allAcks, RecentLimit)
      /\ audit' = Newest(audit \o Ids(deltas), AuditLimit)
  BY DEF Acknowledge, Ids
<1>5. /\ ackIds' = ackId /\ recordIds' = recordIds
      /\ lineageIds' = IF superseded = <<>> THEN lineageIds + 1 ELSE lineageIds
      /\ conflictIds' = conflictIds + Len(noted)
      /\ deltaIds' = deltaIds + Len(deltas)
  BY DEF Acknowledge
<1>6. trace' = Tells(trace, a, Ids(oldAcks), oldCons, oldRecords, Ids(oldNotes))
  BY DEF Acknowledge, Tells, Ids
<1>7. /\ ackIds \in Nat /\ lineageIds \in Nat /\ RecentLimit \in Nat
      /\ IsList(trace) /\ IsList(active) /\ IsList(connections) /\ IsList(records)
      /\ IsList(conflicts) /\ IsList(acks)
  BY RecentLimitIsPositive DEF IInv, Listed
<1>8. Holds(record.claim, "CLAIMS_CAPACITY_SLOT_IN") => record.claim.slots \in Int /\ record.claim.slots >= 1
  <2>1. \E d \in RecordDrafts : record.claim = d.claim
    BY DEF IInv, Drafted
  <2> QED
    BY <1>1, <2>1, CapacitiesAreNumbers DEF Acknowledgeable, Holds
<1>9. IsList(superseded) /\ Elements(superseded) \subseteq Elements(active)
  <2> HIDE DEF record
  <2> QED
    BY <1>1, <1>8, Superseded DEF SupersedesRightly
<1>10. IsList(clashes)
  <2> HIDE DEF record
  <2> QED
    BY <1>8, Foreseen
<1>11. PICK sup : sup = superseded
  OBVIOUS
<1>12. IsList(noted) /\ \A i \in 1..Len(noted) : noted[i].id = conflictIds + i
  <2>1. DOMAIN clashes = 1..Len(clashes) /\ Len(clashes) \in Nat
    BY <1>10, ListFacts DEF IsList
  <2>2. PICK u : u = noted
    OBVIOUS
  <2>3. u = [i \in 1..Len(clashes) |-> u[i]] /\ \A i \in 1..Len(clashes) : u[i].id = conflictIds + i
    <3> HIDE DEF clashes
    <3> QED
      BY <2>1, <2>2
  <2>4. IsList(u) /\ Len(u) = Len(clashes)
    BY <2>1, <2>3, FunctionIsList
  <2> QED
    BY <2>2, <2>3, <2>4
<1>13. Elements(ack.conflicts) = {conflictIds + i : i \in 1..Len(noted)}
  <2>1. ack.conflicts = Ids(noted)
    BY DEF Ids
  <2>2. PICK u, ids : u = noted /\ ids = Ids(noted)
    OBVIOUS
  <2>3. IsList(u) /\ \A i \in 1..Len(u) : u[i].id = conflictIds + i
    BY <1>12, <2>2
  <2>4. IsList(ids) /\ Len(ids) = Len(u) /\ \A i \in 1..Len(u) : ids[i] = u[i].id
    BY <2>2, <2>3, IdsListed
  <2>5. DOMAIN ids = 1..Len(u)
    BY <2>4, ListFacts DEF IsList
  <2>6. Elements(ids) = {conflictIds + i : i \in 1..Len(u)}
    BY <2>3, <2>4, <2>5 DEF Elements
  <2> QED
    BY <2>1, <2>2, <2>6
<1>14. IsList(deltas)
  <2>1. PICK paths, u : paths = InOrder(DOMAIN changes) /\ u = deltas
    OBVIOUS
  <2>2. IsList(paths)
    BY <2>1, ChangesAreOrdered, Orderly
  <2>3. u = [i \in DOMAIN paths |-> u[i]]
    BY <2>1 DEF Deltas
  <2>4. IsList(u)
    BY <2>2, <2>3, Mapped
  <2> QED
    BY <2>1, <2>4
<1>15. /\ connection.id = ackIds + 1
       /\ connection.lineage = IF superseded = <<>> THEN lineageIds + 1
                               ELSE Connection(Head(superseded)).lineage
  <2> HIDE DEF superseded, record
  <2> QED
    OBVIOUS
<1> HIDE DEF superseded, clashes, record, noted, deltas, connection
<1>16. \/ connection.lineage = lineageIds + 1 /\ lineageIds' = lineageIds + 1
       \/ connection.lineage \in 1..lineageIds /\ lineageIds' = lineageIds
  <2>1. CASE superseded = <<>>
    BY <1>5, <1>15, <2>1
  <2>2. CASE superseded # <<>>
    <3>1. Head(superseded) \in Elements(superseded)
      BY <1>9, <2>2, HeadTailProperties DEF IsList
    <3>2. PICK c \in Elements(connections) : c.id = Head(superseded)
      BY <1>9, <3>1 DEF IInv, Based
    <3>3. Connection(Head(superseded)) = c
      BY <3>2, Found DEF IInv, Listed, Numbered, Connection
    <3>4. c.lineage \in 1..lineageIds
      BY DEF IInv, Numbered
    <3> QED
      BY <1>5, <1>15, <2>2, <3>3, <3>4
  <2> QED
    BY <2>1, <2>2
<1>17. IsList(allCons)
  <2>1. PICK u : u = Retired(connections, Elements(superseded))
    OBVIOUS
  <2>2. u = [i \in DOMAIN connections |-> u[i]]
    BY <2>1 DEF Retired
  <2>3. IsList(u)
    BY <1>7, <2>2, Mapped
  <2> QED
    BY <2>1, <2>3, Appended
<1>18. /\ a.kind = "WORLD_ACKNOWLEDGEMENT_COMMITTED" /\ a.ack = ack /\ a.connection = connection
       /\ a.conflicts = noted /\ a.deltas = deltas /\ a.manifestation = manifestation'
  <2> HIDE DEF ack
  <2> QED
    OBVIOUS
<1>19. ack.record = id /\ ack.superseded = superseded
  OBVIOUS
<1>20. byId = Confirmed(recordOf, id)
  <2>1. DOMAIN recordOf \cup {id} = DOMAIN recordOf
    OBVIOUS
  <2> QED
    BY <2>1 DEF Confirmed, Put
<1> HIDE DEF a, byId, allActive
<1>21. IsList(oldCons) /\ IsList(oldRecords)
  <2> HIDE DEF allCons
  <2> QED
    BY <1>7, <1>17, Spared
<1>22. IsList(Ids(oldAcks))
  <2> HIDE DEF ack
  <2>1. IsList(allAcks)
    BY <1>7, Appended
  <2> HIDE DEF allAcks
  <2>2. IsList(oldAcks)
    BY <1>7, <2>1, Cut
  <2> HIDE DEF oldAcks
  <2> QED
    BY <2>2, IdsListed
<1>23. connections' = Others(allCons, Elements(oldCons))
  <2>1. PICK u, X, Y : u = allCons /\ X = Elements(oldCons) /\ Y = {c \in Elements(u) : c.id \in X}
    OBVIOUS
  <2>2. Others(u, X) = Sans(u, Y)
    BY <1>17, <2>1, OthersSans
  <2>3. connections' = Sans(u, Y)
    BY <1>2, <2>1 DEF Sans, Outside
  <2> QED
    BY <2>1, <2>2, <2>3
<1>24. records' = Sans(records, Elements(oldRecords))
  BY <1>3 DEF Sans, Outside
<1>25. active' = Append(Sans(active, Elements(superseded)), connection.id)
  BY <1>2, <1>15 DEF allActive, Sans, Outside
<1> HIDE DEF oldCons, oldRecords, ack
<1>26. Leaves(id, a, oldCons, oldRecords)
  BY <1>3, <1>4, <1>18, <1>19, <1>20, <1>23, <1>24, <1>25 DEF Leaves
<1>27. Notes(a)
  BY <1>4, <1>5, <1>12, <1>13, <1>14, <1>18 DEF Notes
<1>28. Counts(a)
  BY <1>5, <1>16, <1>18 DEF Counts
<1>29. trace' = Tells(trace, a, Ids(oldAcks), oldCons, oldRecords,
                      Ids(Oldest(conflicts \o a.conflicts, RecentLimit)))
  BY <1>6, <1>18
<1> QED
  BY <1>21, <1>22, <1>26, <1>27, <1>28, <1>29

-----------------------------------------------------------------------------
(* What replay reproduces.                                                 *)

\* Replaying the trace gives the indexes, and all changes ever made.
Rebuilt(ds) ==
  /\ IsList(ds) /\ Len(ds) = deltaIds /\ audit = Newest(Ids(ds), AuditLimit)
  /\ ReplayOf(trace) = Book(records, recordOf, connections, active, conflicts, acks, manifestation, ds)

Reproduced == (\E ds : Rebuilt(ds)) /\ IsMap(recordOf) /\ conflictIds \in Nat /\ Rising(conflicts, conflictIds)

\* What a list of acknowledgements has counted.
Tally(made, last, lineages, notes) ==
  /\ IsList(made) /\ Len(made) = last
  /\ {made[i].connection.lineage : i \in 1..last} = 1..lineages
  /\ UNION {Elements(made[i].ack.conflicts) : i \in 1..last} = 1..notes

Tallied ==
  /\ Len(Records("NAME_RECORD_CREATED")) = recordIds
  /\ Tally(Records("WORLD_ACKNOWLEDGEMENT_COMMITTED"), ackIds, lineageIds, conflictIds)

Restored == Reproduced /\ Tallied /\ Logged

\* The empty ledger is replayed from the empty trace.
LEMMA InitRestored == Init => Restored
<1> SUFFICES ASSUME Init
             PROVE  Restored
  OBVIOUS
<1>1. PICK e : e = <<>>
  OBVIOUS
<1>2. IsList(e) /\ Elements(e) = {} /\ DOMAIN e = {} /\ Len(e) = 0 /\ IsMap(e)
  BY <1>1, EmptyList DEF IsMap
<1>3. /\ trace = e /\ records = e /\ recordOf = e /\ connections = e /\ active = e /\ conflicts = e
      /\ acks = e /\ manifestation = e /\ audit = e
      /\ recordIds = 0 /\ ackIds = 0 /\ lineageIds = 0 /\ conflictIds = 0 /\ deltaIds = 0
  BY <1>1 DEF Init, OccurrencesInit
<1>4. ReplayOf(e) = Blank
  <2>1. \E f : f[Len(e)] = ReplayOf(e) /\ f[0] = Blank
    <3>1. Len(e) \in Nat
      BY <1>2
    <3> QED
      BY <3>1, ReplayFollows
  <2> QED
    BY <1>2, <2>1
<1>5. Blank = Book(e, e, e, e, e, e, e, e)
  BY <1>1 DEF Blank, Book
<1>6. Newest(Ids(e), AuditLimit) = e
  <2>1. PICK ids, b : ids = Ids(e) /\ b = Newest(ids, AuditLimit)
    OBVIOUS
  <2>2. IsList(ids) /\ Len(ids) = 0
    BY <1>2, <2>1, IdsListed
  <2>3. AuditLimit \in Nat
    BY RecentLimitIsPositive
  <2>4. Halved(ids, AuditLimit, Oldest(ids, AuditLimit), b)
    BY <2>1, <2>2, <2>3, Halves
  <2>5. IsList(b) /\ Len(b) = 0
    BY <2>2, <2>4 DEF Halved
  <2>6. b = e
    BY <1>2, <2>5, SameList
  <2> QED
    BY <2>1, <2>6
<1>7. Rebuilt(e)
  BY <1>2, <1>3, <1>4, <1>5, <1>6 DEF Rebuilt
<1>8. Rising(e, 0)
  BY <1>2 DEF Rising
<1>9. Reproduced
  BY <1>2, <1>3, <1>7, <1>8 DEF Reproduced
<1>10. \A kind : Records(kind) = e
  BY <1>1, <1>2, <1>3, KeepNothing DEF Records
<1>11. Tallied
  <2>1. Tally(e, 0, 0, 0)
    BY <1>2 DEF Tally
  <2> QED
    BY <1>2, <1>3, <1>10, <2>1 DEF Tallied
<1>12. Logged
  BY LoggedInit DEF Init
<1> QED
  BY <1>9, <1>11, <1>12 DEF Restored

\* A step that records one thing more, of a kind that is not counted, and
\* leaves the counters.
LEMMA TallyStays ==
  ASSUME IsList(trace), Tallied, NEW u, IsList(u), trace' = trace \o u,
         \A i \in 1..Len(u) : u[i].kind \notin {"NAME_RECORD_CREATED", "WORLD_ACKNOWLEDGEMENT_COMMITTED"},
         UNCHANGED <<recordIds, ackIds, lineageIds, conflictIds>>
  PROVE  Tallied'
<1>1. Records("NAME_RECORD_CREATED")' = Records("NAME_RECORD_CREATED")
  <2>1. \A i \in 1..Len(u) : u[i].kind # "NAME_RECORD_CREATED"
    OBVIOUS
  <2> QED
    BY <2>1, RecordsBeside
<1>2. Records("WORLD_ACKNOWLEDGEMENT_COMMITTED")' = Records("WORLD_ACKNOWLEDGEMENT_COMMITTED")
  <2>1. \A i \in 1..Len(u) : u[i].kind # "WORLD_ACKNOWLEDGEMENT_COMMITTED"
    OBVIOUS
  <2> QED
    BY <2>1, RecordsBeside
<1> QED
  BY <1>1, <1>2 DEF Tallied

\* A record at the end of the trace is a list of one.
LEMMA OneMore ==
  ASSUME IsList(trace), NEW r, trace' = Append(trace, r)
  PROVE  \E u : IsList(u) /\ trace' = trace \o u /\ Len(u) = 1 /\ u[1] = r
<1>1. PICK u : u = <<r>>
  OBVIOUS
<1>2. IsList(u) /\ Len(u) = 1 /\ u[1] = r
  BY <1>1, AppendedOnly
<1>3. trace \in Seq(Elements(trace) \cup {r})
  BY SeqMonotonic DEF IsList
<1>4. Append(trace, r) = trace \o u
  BY <1>1, <1>3, AppendIsConcat
<1> QED
  BY <1>2, <1>4

\* Events and observations leave what the ledger is replayed from.
LEMMA OccurRestores ==
  ASSUME Payloads \subseteq {"canonical"}, IInv, Restored, Occur
  PROVE  Restored'
<1>1. /\ UNCHANGED <<records, recordOf, connections, active, conflicts, acks, manifestation, audit>>
      /\ UNCHANGED <<recordIds, ackIds, lineageIds, conflictIds, deltaIds>>
      /\ IsList(trace) /\ Logged
  BY DEF Occur, ledgerVars, ledgerIds, Restored, Logged
<1>2. Logged'
  <2>1. \/ \E type \in EventTypes, payload \in Payloads : CommitEvent(type, payload)
        \/ \E d \in Drafts, visible \in Claims : RecordObservation(d, visible)
    BY DEF Occur
  <2>2. ASSUME NEW type, NEW payload \in Payloads, CommitEvent(type, payload)
        PROVE  Logged'
    BY <1>1, <2>2, LoggedKept
  <2>3. ASSUME NEW d, NEW visible, RecordObservation(d, visible)
        PROVE  Logged'
    BY <1>1, <2>3, ObservationLogged DEF RecordObservation
  <2> QED
    BY <2>1, <2>2, <2>3
<1>3. \E r : trace' = Append(trace, r) /\ r.kind \in {"CANONICAL_EVENT_COMMITTED", "OBSERVATION_RECORDED"}
  <2>1. ASSUME NEW type, NEW payload \in Payloads, CommitEvent(type, payload)
        PROVE  \E r : trace' = Append(trace, r) /\ r.kind = "CANONICAL_EVENT_COMMITTED"
    <3>1. PICK r : r = [kind |-> "CANONICAL_EVENT_COMMITTED", event |-> [id |-> eventIds + 1, type |-> type]]
      OBVIOUS
    <3>2. r.kind = "CANONICAL_EVENT_COMMITTED"
      BY <3>1
    <3>3. trace' = Append(trace, r)
      BY <2>1, <3>1 DEF CommitEvent
    <3> QED
      BY <3>2, <3>3
  <2>2. ASSUME NEW d, NEW visible, RecordObservation(d, visible)
        PROVE  \E r : trace' = Append(trace, r) /\ r.kind = "OBSERVATION_RECORDED"
    <3>1. PICK r : r = [kind |-> "OBSERVATION_RECORDED", observation |-> d]
      OBVIOUS
    <3>2. r.kind = "OBSERVATION_RECORDED"
      BY <3>1
    <3>3. trace' = Append(trace, r)
      BY <2>2, <3>1 DEF RecordObservation
    <3> QED
      BY <3>2, <3>3
  <2> QED
    BY <2>1, <2>2 DEF Occur
<1>4. PICK r : trace' = Append(trace, r) /\ r.kind \in {"CANONICAL_EVENT_COMMITTED", "OBSERVATION_RECORDED"}
  BY <1>3
<1>5. ReplayOf(trace') = ReplayOf(trace)
  <2>1. ReplayOf(Append(trace, r)) = Replayed(ReplayOf(trace), r)
    BY <1>1, ReplayOne
  <2> QED
    BY <1>4, <2>1, TurnOther
<1>6. Reproduced'
  BY <1>1, <1>5 DEF Restored, Reproduced, Rebuilt, ReplayOf
<1>7. Tallied'
  <2>1. PICK u : IsList(u) /\ trace' = trace \o u /\ Len(u) = 1 /\ u[1] = r
    BY <1>1, <1>4, OneMore
  <2>2. \A i \in 1..Len(u) : u[i].kind \notin {"NAME_RECORD_CREATED", "WORLD_ACKNOWLEDGEMENT_COMMITTED"}
    BY <1>4, <2>1
  <2> QED
    BY <1>1, <2>1, <2>2, TallyStays DEF Restored
<1> QED
  BY <1>2, <1>6, <1>7 DEF Restored

\* As a projection does, but for what it projects.
LEMMA ProjectionRestores ==
  ASSUME IInv, Restored, NEW changes, ApplySystemProjection(changes)
  PROVE  Restored'
<1>1. PICK r : r = [kind |-> "SYSTEM_PROJECTION_COMMITTED", manifestation |-> manifestation']
  OBVIOUS
<1>2. r.kind = "SYSTEM_PROJECTION_COMMITTED" /\ r.manifestation = manifestation'
  BY <1>1
<1>3. /\ trace' = Append(trace, r)
      /\ UNCHANGED occurrenceVars
      /\ UNCHANGED <<records, recordOf, connections, active, conflicts, acks, audit>>
      /\ UNCHANGED <<recordIds, ackIds, lineageIds, conflictIds, deltaIds>>
      /\ IsList(trace) /\ Logged
  BY <1>1 DEF ApplySystemProjection, ledgerIds, Restored, Logged
<1>4. PICK ds : Rebuilt(ds)
  BY DEF Restored, Reproduced
<1>5. ReplayOf(trace') =
        Book(records, recordOf, connections, active, conflicts, acks, manifestation', ds)
  <2>1. ReplayOf(Append(trace, r)) = Replayed(ReplayOf(trace), r)
    BY <1>3, ReplayOne
  <2>2. ReplayOf(trace) = Book(records, recordOf, connections, active, conflicts, acks, manifestation, ds)
    BY <1>4 DEF Rebuilt
  <2>3. Replayed(Book(records, recordOf, connections, active, conflicts, acks, manifestation, ds), r) =
          Book(records, recordOf, connections, active, conflicts, acks, r.manifestation, ds)
    BY <1>2, TurnProjected
  <2> QED
    BY <1>2, <1>3, <2>1, <2>2, <2>3
<1>6. Reproduced'
  <2>1. Rebuilt(ds)'
    BY <1>3, <1>4, <1>5 DEF Rebuilt, ReplayOf
  <2> QED
    BY <1>3, <2>1 DEF Restored, Reproduced
<1>7. PICK u : IsList(u) /\ trace' = trace \o u /\ Len(u) = 1 /\ u[1] = r
  BY <1>3, OneMore
<1>8. Tallied'
  <2>1. \A i \in 1..Len(u) : u[i].kind \notin {"NAME_RECORD_CREATED", "WORLD_ACKNOWLEDGEMENT_COMMITTED"}
    BY <1>2, <1>7
  <2> QED
    BY <1>3, <1>7, <2>1, TallyStays DEF Restored
<1>9. Logged'
  <2>1. \A i \in 1..Len(u) : u[i].kind \notin {"CANONICAL_EVENT_COMMITTED", "OBSERVATION_RECORDED"}
    BY <1>2, <1>7
  <2> QED
    BY <1>3, <1>7, <2>1, LoggedBeside
<1> QED
  BY <1>6, <1>8, <1>9 DEF Restored

\* A record that is created is replayed.
LEMMA CreationRestores ==
  ASSUME IInv, Restored, NEW d, CreateNameRecord(d)
  PROVE  Restored'
<1>1. PICK record : record = [claim |-> d.claim, sources |-> d.sources, parents |-> d.parents,
                              plans |-> d.plans, status |-> IF d.confirmed THEN "CONFIRMED" ELSE "DRAFT"]
  OBVIOUS
<1>2. PICK r : r = [kind |-> "NAME_RECORD_CREATED", id |-> recordIds + 1, record |-> record]
  OBVIOUS
<1>3. r.kind = "NAME_RECORD_CREATED" /\ r.id = recordIds + 1 /\ r.record = record
  BY <1>2
<1>4. /\ recordOf' = Put(recordOf, r.id, r.record) /\ trace' = Append(trace, r)
      /\ records' = Append(records, r.id) /\ recordIds' = recordIds + 1
  <2>1. /\ recordOf' = Put(recordOf, recordIds + 1, record)
        /\ trace' = Append(trace, [kind |-> "NAME_RECORD_CREATED", id |-> recordIds + 1, record |-> record])
        /\ records' = Append(records, recordIds + 1) /\ recordIds' = recordIds + 1
    BY <1>1 DEF CreateNameRecord
  <2> QED
    BY <1>2, <1>3, <2>1
<1>5. /\ UNCHANGED occurrenceVars
      /\ UNCHANGED <<connections, active, conflicts, acks, manifestation, audit>>
      /\ UNCHANGED <<ackIds, lineageIds, conflictIds, deltaIds>>
  BY DEF CreateNameRecord
<1>0. IsList(trace) /\ Logged
  BY DEF Restored, Logged
<1>6. PICK ds : Rebuilt(ds)
  BY DEF Restored, Reproduced
<1>7. ReplayOf(trace') =
        Book(records', recordOf', connections, active, conflicts, acks, manifestation, ds)
  <2>1. ReplayOf(Append(trace, r)) = Replayed(ReplayOf(trace), r)
    BY <1>0, ReplayOne
  <2>2. ReplayOf(trace) = Book(records, recordOf, connections, active, conflicts, acks, manifestation, ds)
    BY <1>6 DEF Rebuilt
  <2>3. Replayed(Book(records, recordOf, connections, active, conflicts, acks, manifestation, ds), r) =
          Book(Append(records, r.id), Put(recordOf, r.id, r.record), connections, active, conflicts, acks,
               manifestation, ds)
    BY <1>3, TurnCreated
  <2> QED
    BY <1>4, <2>1, <2>2, <2>3
<1>8. Reproduced'
  <2>1. Rebuilt(ds)'
    BY <1>5, <1>6, <1>7 DEF Rebuilt, ReplayOf
  <2>2. IsMap(recordOf')
    BY <1>4, MapsMade
  <2> QED
    BY <1>5, <2>1, <2>2 DEF Restored, Reproduced
<1>9. PICK u : IsList(u) /\ trace' = trace \o u /\ Len(u) = 1 /\ u[1] = r
  BY <1>0, <1>4, OneMore
<1>10. Tallied'
  <2>1. Records("WORLD_ACKNOWLEDGEMENT_COMMITTED")' = Records("WORLD_ACKNOWLEDGEMENT_COMMITTED")
    <3>1. \A i \in 1..Len(u) : u[i].kind # "WORLD_ACKNOWLEDGEMENT_COMMITTED"
      BY <1>3, <1>9
    <3> QED
      BY <1>0, <1>9, <3>1, RecordsBeside
  <2>2. PICK was : was = OfKind(trace, "NAME_RECORD_CREATED")
    OBVIOUS
  <2>3. IsList(was) /\ Len(was) = recordIds
    BY <1>0, <2>2, KeptElements, RecordsOfKind DEF Restored, Tallied, OfKind
  <2>4. OfKind(Append(trace, r), "NAME_RECORD_CREATED") = Append(was, r)
    BY <1>0, <1>3, <2>2, OfKindNext
  <2>5. Len(Append(was, r)) = recordIds + 1
    BY <2>3, AppendedEntries
  <2>6. Records("NAME_RECORD_CREATED")' = Append(was, r)
    BY <1>4, <2>4 DEF Records, OfKind
  <2> QED
    BY <1>4, <1>5, <2>1, <2>5, <2>6 DEF Restored, Tallied
<1>11. Logged'
  <2>1. \A i \in 1..Len(u) : u[i].kind \notin {"CANONICAL_EVENT_COMMITTED", "OBSERVATION_RECORDED"}
    BY <1>3, <1>9
  <2> QED
    BY <1>0, <1>5, <1>9, <2>1, LoggedBeside
<1> QED
  BY <1>8, <1>10, <1>11 DEF Restored

\* An acknowledgement is replayed with all that it archives.
LEMMA AcknowledgementReplayed ==
  ASSUME IInv, Reproduced, IsList(trace), NEW id, NEW r, NEW oldAcks, NEW oldCons, NEW oldRecords, NEW oldNotes,
         IsList(oldAcks), IsList(oldCons), IsList(oldRecords),
         Leaves(id, r, oldCons, oldRecords), Notes(r),
         oldNotes = Ids(Oldest(conflicts \o r.conflicts, RecentLimit)),
         trace' = Tells(trace, r, oldAcks, oldCons, oldRecords, oldNotes)
  PROVE  Reproduced'
<1>1. /\ IsList(records) /\ IsList(connections) /\ IsList(conflicts) /\ RecentLimit \in Nat /\ AuditLimit \in Nat
  BY RecentLimitIsPositive DEF IInv, Listed
<1>2. PICK ds : Rebuilt(ds)
  BY DEF Reproduced
<1>3. /\ IsList(ds) /\ Len(ds) = deltaIds /\ audit = Newest(Ids(ds), AuditLimit)
      /\ ReplayOf(trace) = Book(records, recordOf, connections, active, conflicts, acks, manifestation, ds)
  BY <1>2 DEF Rebuilt
<1>4. /\ IsList(r.conflicts) /\ \A i \in 1..Len(r.conflicts) : r.conflicts[i].id = conflictIds + i
      /\ conflictIds' = conflictIds + Len(r.conflicts) /\ conflictIds \in Nat /\ Rising(conflicts, conflictIds)
  BY DEF Notes, Reproduced
<1>5. PICK noteAll, last : noteAll = conflicts \o r.conflicts /\ last = conflictIds + Len(r.conflicts)
  OBVIOUS
<1>6. Len(r.conflicts) \in Nat
  <2>1. PICK u : u = r.conflicts
    OBVIOUS
  <2>2. IsList(u)
    BY <1>4, <2>1
  <2>3. Len(u) \in Nat
    BY <2>2, ListFacts DEF IsList
  <2> QED
    BY <2>1, <2>3
<1>7. Rising(noteAll, last) /\ last \in Nat
  <2>1. PICK u : u = r.conflicts
    OBVIOUS
  <2>2. IsList(u) /\ \A i \in 1..Len(u) : u[i].id = conflictIds + i
    BY <1>4, <2>1
  <2>3. Rising(conflicts \o u, conflictIds + Len(u))
    BY <1>4, <2>2, RisingGrows
  <2> QED
    BY <1>4, <1>5, <1>6, <2>1, <2>3
<1>8. /\ Others(noteAll, Elements(oldNotes)) = Newest(noteAll, RecentLimit)
      /\ IsList(oldNotes) /\ Rising(Newest(noteAll, RecentLimit), last)
  BY <1>1, <1>5, <1>7, RisingCut
<1>9. Rising(conflicts', conflictIds') /\ conflictIds' \in Nat
  BY <1>4, <1>5, <1>7, <1>8 DEF Notes
<1>10. r.kind = "WORLD_ACKNOWLEDGEMENT_COMMITTED" /\ r.ack.record = id
  BY DEF Leaves
<1>11. ReplayOf(trace') =
         Book(Sans(records, Elements(oldRecords)),
              Drop(Confirmed(recordOf, id), Elements(oldRecords)),
              Others(Append(Retired(connections, Elements(r.ack.superseded)), r.connection), Elements(oldCons)),
              Append(Sans(active, Elements(r.ack.superseded)), r.connection.id),
              Others(noteAll, Elements(oldNotes)),
              Newest(Append(acks, r.ack), RecentLimit), r.manifestation, ds \o r.deltas)
  BY <1>1, <1>3, <1>4, <1>5, <1>8, <1>10, ReplayAcknowledgement
<1>12. PICK more : more = ds \o r.deltas
  OBVIOUS
<1>13. ReplayOf(trace') =
         Book(records', recordOf', connections', active', conflicts', acks', manifestation', more)
  BY <1>5, <1>8, <1>11, <1>12 DEF Leaves, Notes
<1>14. IsList(r.deltas)
  BY DEF Notes
<1>15. IsList(more) /\ Len(more) = deltaIds'
  BY <1>3, <1>12, <1>14, Concatenated, ConcatenatedEntries DEF Notes
<1>16. audit' = Newest(Ids(more), AuditLimit)
  <2>1. PICK was, new : was = Ids(ds) /\ new = Ids(r.deltas)
    OBVIOUS
  <2>2. IsList(was) /\ IsList(new)
    BY <1>3, <1>14, <2>1, IdsListed
  <2>3. Newest(Newest(was, AuditLimit) \o new, AuditLimit) = Newest(was \o new, AuditLimit)
    BY <1>1, <2>2, NewestAgain
  <2>4. Ids(more) = was \o new
    BY <1>3, <1>12, <1>14, <2>1, IdsConcat
  <2> QED
    BY <1>3, <2>1, <2>3, <2>4 DEF Notes
<1>17. Rebuilt(more)'
  BY <1>13, <1>15, <1>16 DEF Rebuilt, ReplayOf
<1>18. IsMap(recordOf')
  BY MapsMade DEF Leaves
<1> QED
  BY <1>9, <1>17, <1>18 DEF Reproduced

\* One acknowledgement more.
LEMMA TallyGrows ==
  ASSUME NEW made, NEW last \in Nat, NEW lineages \in Nat, NEW notes \in Nat, Tally(made, last, lineages, notes),
         NEW r, NEW n \in Nat, NEW then,
         Elements(r.ack.conflicts) = {notes + i : i \in 1..n},
         \/ r.connection.lineage = lineages + 1 /\ then = lineages + 1
         \/ r.connection.lineage \in 1..lineages /\ then = lineages
  PROVE  Tally(Append(made, r), last + 1, then, notes + n)
<1>1. IsList(made) /\ Len(made) = last
  BY DEF Tally
<1>2. PICK more : more = Append(made, r)
  OBVIOUS
<1>3. IsList(more) /\ Len(more) = last + 1 /\ more[last + 1] = r /\ \A i \in 1..last : more[i] = made[i]
  BY <1>1, <1>2, Appended, AppendedEntries
<1>4. 1..(last + 1) = 1..last \cup {last + 1}
  OBVIOUS
<1>5. {more[i].connection.lineage : i \in 1..(last + 1)} = 1..then
  <2>1. {more[i].connection.lineage : i \in 1..(last + 1)}
          = {made[i].connection.lineage : i \in 1..last} \cup {r.connection.lineage}
    BY <1>3, <1>4
  <2>2. {made[i].connection.lineage : i \in 1..last} = 1..lineages
    BY DEF Tally
  <2>3. PICK l : l = r.connection.lineage
    OBVIOUS
  <2>4. 1..lineages \cup {l} = 1..then
    BY <2>3
  <2> QED
    BY <2>1, <2>2, <2>3, <2>4
<1>6. UNION {Elements(more[i].ack.conflicts) : i \in 1..(last + 1)} = 1..(notes + n)
  <2>1. PICK E : E = [i \in 1..(last + 1) |-> Elements(more[i].ack.conflicts)]
    OBVIOUS
  <2>2. \A i \in 1..(last + 1) : E[i] = Elements(more[i].ack.conflicts)
    BY <2>1
  <2>3. UNION {E[i] : i \in 1..last} = 1..notes
    <3>1. \A i \in 1..last : E[i] = Elements(made[i].ack.conflicts)
      BY <1>3, <1>4, <2>2
    <3>2. {E[i] : i \in 1..last} = {Elements(made[i].ack.conflicts) : i \in 1..last}
      BY <3>1
    <3> QED
      BY <3>2 DEF Tally
  <2>4. E[last + 1] = {notes + i : i \in 1..n}
    BY <1>3, <1>4, <2>2
  <2>5. {E[i] : i \in 1..(last + 1)} = {E[i] : i \in 1..last} \cup {E[last + 1]}
    BY <1>4
  <2>6. UNION {E[i] : i \in 1..(last + 1)} = 1..notes \cup E[last + 1]
    BY <2>3, <2>5
  <2>7. 1..notes \cup {notes + i : i \in 1..n} = 1..(notes + n)
    <3>1. ASSUME NEW x \in 1..(notes + n), x \notin 1..notes
          PROVE  x \in {notes + i : i \in 1..n}
      <4>1. x - notes \in 1..n /\ x = notes + (x - notes)
        BY <3>1
      <4> QED
        BY <4>1
    <3>2. \A i \in 1..n : notes + i \in 1..(notes + n)
      OBVIOUS
    <3>3. \A x \in 1..notes : x \in 1..(notes + n)
      OBVIOUS
    <3> QED
      BY <3>1, <3>2, <3>3
  <2>8. {E[i] : i \in 1..(last + 1)} = {Elements(more[i].ack.conflicts) : i \in 1..(last + 1)}
    BY <2>2
  <2> QED
    BY <2>4, <2>6, <2>7, <2>8
<1> QED
  BY <1>2, <1>3, <1>5, <1>6 DEF Tally

Joined(s, u) == s \o u

\* Three lists are joined in either order.
LEMMA JoinedLists ==
  ASSUME NEW s, IsList(s), NEW t, IsList(t), NEW u, IsList(u)
  PROVE  Joined(Joined(s, t), u) = Joined(s, Joined(t, u)) /\ IsList(Joined(s, t))
BY ListsAssociate, Concatenated DEF Joined

\* And five.
LEMMA FiveLists ==
  ASSUME NEW v, IsList(v), NEW a, IsList(a), NEW b, IsList(b), NEW c, IsList(c), NEW d, IsList(d)
  PROVE  Joined(Joined(Joined(Joined(v, a), b), c), d) = Joined(v, Joined(Joined(Joined(a, b), c), d))
<1>1. IsList(Joined(a, b)) /\ Joined(Joined(v, a), b) = Joined(v, Joined(a, b))
  BY JoinedLists
<1>2. PICK ab : ab = Joined(a, b)
  OBVIOUS
<1>3. IsList(Joined(ab, c)) /\ Joined(Joined(v, ab), c) = Joined(v, Joined(ab, c))
  BY <1>1, <1>2, JoinedLists
<1>4. PICK abc : abc = Joined(ab, c)
  OBVIOUS
<1>5. Joined(Joined(v, abc), d) = Joined(v, Joined(abc, d))
  BY <1>3, <1>4, JoinedLists
<1> QED
  BY <1>1, <1>2, <1>3, <1>4, <1>5

\* A trace that tells of an acknowledgement and of what it evicts.
Told(t, r, told) ==
  \E u : IsList(u) /\ (\A i \in 1..Len(u) : u[i].kind = "LIVE_INDEX_EVICTED") /\ told = Append(t, r) \o u

\* An acknowledgement tells no more.
LEMMA TellsMore ==
  ASSUME NEW t, IsList(t), NEW r, NEW oldAcks, NEW oldCons, NEW oldRecords, NEW oldNotes,
         IsList(oldAcks), IsList(oldCons), IsList(oldRecords), IsList(oldNotes)
  PROVE  Told(t, r, Tells(t, r, oldAcks, oldCons, oldRecords, oldNotes))
<1>1. PICK e1, e2, e3, e4 :
        /\ e1 = Evictions("WORLD_ACKNOWLEDGEMENT", oldAcks) /\ e2 = Evictions("CONNECTION_VERSION", oldCons)
        /\ e3 = Evictions("NAME_RECORD", oldRecords) /\ e4 = Evictions("MEMORY_CONFLICT", oldNotes)
  OBVIOUS
<1>2. /\ IsList(e1) /\ \A x \in Elements(e1) : x.kind = "LIVE_INDEX_EVICTED"
      /\ IsList(e2) /\ \A x \in Elements(e2) : x.kind = "LIVE_INDEX_EVICTED"
      /\ IsList(e3) /\ \A x \in Elements(e3) : x.kind = "LIVE_INDEX_EVICTED"
      /\ IsList(e4) /\ \A x \in Elements(e4) : x.kind = "LIVE_INDEX_EVICTED"
  BY <1>1, EvictionsAreLists
<1>3. PICK t1 : t1 = Append(t, r)
  OBVIOUS
<1>4. IsList(t1) /\ t1 = t \o <<r>>
  <2>1. t \in Seq(Elements(t) \cup {r})
    BY SeqMonotonic DEF IsList
  <2> QED
    BY <1>3, <2>1, AppendIsConcat, Appended
<1>5. PICK u : u = e1 \o e2 \o e3 \o e4
  OBVIOUS
<1>6. /\ IsList(e1 \o e2) /\ Elements(e1 \o e2) = Elements(e1) \cup Elements(e2)
      /\ IsList(e1 \o e2 \o e3) /\ Elements(e1 \o e2 \o e3) = Elements(e1) \cup Elements(e2) \cup Elements(e3)
      /\ IsList(u) /\ Elements(u) = Elements(e1) \cup Elements(e2) \cup Elements(e3) \cup Elements(e4)
  <2>1. PICK a : a = e1 \o e2
    OBVIOUS
  <2>2. IsList(a) /\ Elements(a) = Elements(e1) \cup Elements(e2)
    BY <1>2, <2>1, Concatenated
  <2>3. PICK b : b = a \o e3
    OBVIOUS
  <2>4. IsList(b) /\ Elements(b) = Elements(a) \cup Elements(e3)
    BY <1>2, <2>2, <2>3, Concatenated
  <2>5. u = b \o e4
    BY <1>5, <2>1, <2>3
  <2>6. IsList(u) /\ Elements(u) = Elements(b) \cup Elements(e4)
    BY <1>2, <2>4, <2>5, Concatenated
  <2> QED
    BY <2>1, <2>2, <2>3, <2>4, <2>6
<1>7. \A i \in 1..Len(u) : u[i].kind = "LIVE_INDEX_EVICTED"
  <2>1. \A i \in 1..Len(u) : u[i] \in Elements(u)
    BY <1>6, ListFacts DEF IsList
  <2>2. \A x \in Elements(u) : x.kind = "LIVE_INDEX_EVICTED"
    BY <1>2, <1>6
  <2> QED
    BY <2>1, <2>2
<1>8. t1 \o e1 \o e2 \o e3 \o e4 = t1 \o u
  <2>1. IsList(t1) /\ IsList(e1) /\ IsList(e2) /\ IsList(e3) /\ IsList(e4)
    BY <1>2, <1>4
  <2>2. Joined(Joined(Joined(Joined(t1, e1), e2), e3), e4) = Joined(t1, Joined(Joined(Joined(e1, e2), e3), e4))
    BY <2>1, FiveLists
  <2> QED
    BY <1>5, <2>2 DEF Joined
<1>9. Tells(t, r, oldAcks, oldCons, oldRecords, oldNotes) = t1 \o e1 \o e2 \o e3 \o e4
  BY <1>1, <1>4 DEF Tells
<1> QED
  BY <1>3, <1>6, <1>7, <1>8, <1>9 DEF Told

\* An acknowledgement is counted, whatever it archives.
LEMMA AcknowledgementTallied ==
  ASSUME IsList(trace), Tallied, ackIds \in Nat, lineageIds \in Nat, conflictIds \in Nat,
         NEW r, r.kind = "WORLD_ACKNOWLEDGEMENT_COMMITTED", Counts(r), Notes(r),
         NEW u, IsList(u), \A i \in 1..Len(u) : u[i].kind = "LIVE_INDEX_EVICTED",
         trace' = Append(trace, r) \o u
  PROVE  Tallied'
<1>1. PICK made, after, w : /\ made = OfKind(trace, "WORLD_ACKNOWLEDGEMENT_COMMITTED")
                            /\ w = OfKind(trace, "NAME_RECORD_CREATED")
                            /\ after = Append(made, r)
  OBVIOUS
<1>2. /\ Records("WORLD_ACKNOWLEDGEMENT_COMMITTED") = made
      /\ Records("NAME_RECORD_CREATED") = w
  BY <1>1, RecordsOfKind
<1>3. PICK t : t = Append(trace, r)
  OBVIOUS
<1>4. /\ IsList(t) /\ OfKind(t, "WORLD_ACKNOWLEDGEMENT_COMMITTED") = after
      /\ OfKind(t, "NAME_RECORD_CREATED") = w
  <2>1. OfKind(Append(trace, r), "WORLD_ACKNOWLEDGEMENT_COMMITTED") =
          Append(OfKind(trace, "WORLD_ACKNOWLEDGEMENT_COMMITTED"), r)
    BY OfKindNext
  <2>2. OfKind(Append(trace, r), "NAME_RECORD_CREATED") = OfKind(trace, "NAME_RECORD_CREATED")
    BY OfKindNext
  <2> QED
    BY <1>1, <1>3, <2>1, <2>2, Appended
<1>5. ASSUME NEW kind, kind # "LIVE_INDEX_EVICTED"
      PROVE  OfKind(trace', kind) = OfKind(t, kind)
  <2>1. PICK s, e : s = OfKind(t, kind) /\ e = OfKind(u, kind)
    OBVIOUS
  <2>2. e = <<>>
    <3>1. \A i \in 1..Len(u) : u[i].kind # kind
      BY <1>5
    <3> QED
      BY <2>1, <3>1, OfKindNone
  <2>3. OfKind(t \o u, kind) = s \o e
    <3>1. IsList(t) /\ IsList(u)
      BY <1>4
    <3>2. OfKind(t \o u, kind) = OfKind(t, kind) \o OfKind(u, kind)
      BY <3>1, OfKindConcat
    <3> QED
      BY <2>1, <3>2
  <2>4. s \in Seq(Elements(s))
    BY <1>4, <2>1, KeptElements DEF OfKind, IsList
  <2>5. s \o <<>> = s
    BY <2>4, ConcatEmptySeq
  <2> QED
    BY <1>3, <2>1, <2>2, <2>3, <2>5
<1>6. /\ Records("WORLD_ACKNOWLEDGEMENT_COMMITTED")' = after
      /\ Records("NAME_RECORD_CREATED")' = w
  <2>1. OfKind(trace', "WORLD_ACKNOWLEDGEMENT_COMMITTED") = after
    BY <1>4, <1>5
  <2>2. OfKind(trace', "NAME_RECORD_CREATED") = w
    BY <1>4, <1>5
  <2> QED
    BY <2>1, <2>2 DEF Records, OfKind
<1>7. PICK n : n = Len(r.conflicts)
  OBVIOUS
<1>8. n \in Nat
  <2>1. PICK s : s = r.conflicts
    OBVIOUS
  <2>2. IsList(s)
    BY <2>1 DEF Notes
  <2>3. Len(s) \in Nat
    BY <2>2, ListFacts DEF IsList
  <2> QED
    BY <1>7, <2>1, <2>3
<1>9. Tally(made, ackIds, lineageIds, conflictIds)
  BY <1>2 DEF Tallied
<1>10. Elements(r.ack.conflicts) = {conflictIds + i : i \in 1..n} /\ conflictIds' = conflictIds + n
  BY <1>7 DEF Notes
<1>11. /\ \/ r.connection.lineage = lineageIds + 1 /\ lineageIds' = lineageIds + 1
          \/ r.connection.lineage \in 1..lineageIds /\ lineageIds' = lineageIds
       /\ ackIds' = ackIds + 1 /\ recordIds' = recordIds
  BY DEF Counts
<1>12. Tally(Append(made, r), ackIds + 1, lineageIds', conflictIds + n)
  BY <1>8, <1>9, <1>10, <1>11, TallyGrows
<1> QED
  BY <1>1, <1>2, <1>6, <1>10, <1>11, <1>12 DEF Tallied

\* An acknowledgement leaves what the ledger is replayed from.
LEMMA AcknowledgementRestores ==
  ASSUME IInv, Restored, NEW id \in DOMAIN recordOf, NEW changes \in Manifestations, Acknowledge(id, changes)
  PROVE  Restored'
<1>1. PICK r, oldAcks, oldCons, oldRecords :
        /\ IsList(oldAcks) /\ IsList(oldCons) /\ IsList(oldRecords)
        /\ Leaves(id, r, oldCons, oldRecords) /\ Notes(r) /\ Counts(r)
        /\ trace' = Tells(trace, r, oldAcks, oldCons, oldRecords,
                          Ids(Oldest(conflicts \o r.conflicts, RecentLimit)))
  BY AcknowledgeRecords
<1>2. PICK oldNotes : oldNotes = Ids(Oldest(conflicts \o r.conflicts, RecentLimit))
  OBVIOUS
<1>3. trace' = Tells(trace, r, oldAcks, oldCons, oldRecords, oldNotes)
  BY <1>1, <1>2
<1>4. IsList(trace) /\ Logged /\ Reproduced /\ Tallied
  BY DEF Restored, Logged
<1>5. Reproduced'
  BY <1>1, <1>2, <1>3, <1>4, AcknowledgementReplayed
<1>6. IsList(oldNotes)
  <2>1. PICK cf, more, s, old : cf = conflicts /\ more = r.conflicts /\ s = cf \o more /\ old = Oldest(s, RecentLimit)
    OBVIOUS
  <2>2. IsList(cf) /\ IsList(more) /\ RecentLimit \in Nat
    BY <1>1, <2>1, RecentLimitIsPositive DEF IInv, Listed, Notes
  <2>3. IsList(s)
    BY <2>1, <2>2, Concatenated
  <2>4. IsList(old)
    BY <2>1, <2>2, <2>3, Cut
  <2>5. IsList(Ids(old))
    BY <2>4, IdsListed
  <2> QED
    BY <1>2, <2>1, <2>5
<1>7. PICK u : /\ IsList(u) /\ \A i \in 1..Len(u) : u[i].kind = "LIVE_INDEX_EVICTED"
               /\ trace' = Append(trace, r) \o u
  <2>1. IsList(trace) /\ IsList(oldAcks) /\ IsList(oldCons) /\ IsList(oldRecords) /\ IsList(oldNotes)
    BY <1>1, <1>4, <1>6
  <2>2. Told(trace, r, Tells(trace, r, oldAcks, oldCons, oldRecords, oldNotes))
    BY <2>1, TellsMore
  <2> QED
    BY <1>3, <2>2 DEF Told
<1>8. r.kind = "WORLD_ACKNOWLEDGEMENT_COMMITTED"
  BY <1>1 DEF Leaves
<1>9. ackIds \in Nat /\ lineageIds \in Nat /\ conflictIds \in Nat
  BY <1>4 DEF IInv, Listed, Reproduced
<1>10. Tallied'
  BY <1>1, <1>4, <1>7, <1>8, <1>9, AcknowledgementTallied
<1>11. UNCHANGED occurrenceVars
  BY DEF Acknowledge
<1>12. Logged'
  <2>1. PICK one, w : one = <<r>> /\ w = one \o u
    OBVIOUS
  <2>2. IsList(one) /\ Len(one) = 1 /\ one[1] = r
    BY <2>1, AppendedOnly
  <2>3. IsList(trace) /\ IsList(u)
    BY <1>4, <1>7
  <2>4. IsList(w) /\ Len(w) = 1 + Len(u) /\ Len(u) \in Nat
        /\ w[1] = r /\ \A i \in 1..Len(u) : w[1 + i] = u[i]
    <3>1. IsList(one \o u)
      BY <2>2, <2>3, Concatenated
    <3>2. /\ Len(u) \in Nat /\ Len(one \o u) = Len(one) + Len(u)
          /\ \A i \in 1..Len(one) : (one \o u)[i] = one[i]
          /\ \A i \in 1..Len(u) : (one \o u)[Len(one) + i] = u[i]
      BY <2>2, <2>3, ConcatenatedEntries
    <3> QED
      BY <2>1, <2>2, <3>1, <3>2
  <2>5. trace' = trace \o w
    <3>1. trace \in Seq(Elements(trace) \cup {r})
      BY <2>3, SeqMonotonic DEF IsList
    <3>2. Append(trace, r) = trace \o one
      BY <2>1, <3>1, AppendIsConcat
    <3>3. Joined(Joined(trace, one), u) = Joined(trace, Joined(one, u))
      BY <2>2, <2>3, JoinedLists
    <3> QED
      BY <1>7, <2>1, <3>2, <3>3 DEF Joined
  <2>6. \A i \in 1..Len(w) : w[i].kind \notin {"CANONICAL_EVENT_COMMITTED", "OBSERVATION_RECORDED"}
    <3> TAKE i \in 1..Len(w)
    <3>1. i = 1 \/ \E j \in 1..Len(u) : i = 1 + j
      <4>1. i = 1 \/ (i - 1 \in 1..Len(u) /\ i = 1 + (i - 1))
        BY <2>4
      <4> QED
        BY <4>1
    <3>2. w[i] = r \/ \E j \in 1..Len(u) : w[i] = u[j]
      BY <2>4, <3>1
    <3> QED
      BY <1>7, <1>8, <3>2
  <2> QED
    BY <1>4, <1>11, <2>4, <2>5, <2>6, LoggedBeside
<1> QED
  BY <1>5, <1>10, <1>12 DEF Restored

\* No step does otherwise.
LEMMA NextRestores ==
  ASSUME Payloads \subseteq {"canonical"}, IInv, Restored, [Next]_vars
  PROVE  Restored'
<1>1. CASE Occur
  BY <1>1, OccurRestores
<1>2. ASSUME NEW d \in RecordDrafts, CreateNameRecord(d)
      PROVE  Restored'
  BY <1>2, CreationRestores
<1>3. ASSUME NEW id \in DOMAIN recordOf, NEW changes \in Manifestations, Acknowledge(id, changes)
      PROVE  Restored'
  BY <1>3, AcknowledgementRestores
<1>4. ASSUME NEW changes \in Manifestations, ApplySystemProjection(changes)
      PROVE  Restored'
  BY <1>4, ProjectionRestores
<1>5. CASE UNCHANGED vars
  <2>1. /\ UNCHANGED <<records, recordOf, connections, active, conflicts, acks, manifestation, audit>>
        /\ UNCHANGED <<recordIds, ackIds, lineageIds, conflictIds, deltaIds>>
        /\ UNCHANGED occurrenceVars /\ trace' = trace
    BY <1>5 DEF vars, ledgerVars, ledgerIds
  <2>2. Reproduced'
    BY <2>1 DEF Restored, Reproduced, Rebuilt, ReplayOf
  <2>3. Tallied'
    BY <2>1 DEF Restored, Tallied, Records
  <2>4. Logged'
    BY <2>1 DEF Restored, Logged, RebuiltEvents, RebuiltObservations, RebuiltEventIds, Records, occurrenceVars
  <2> QED
    BY <2>2, <2>3, <2>4 DEF Restored
<1> QED
  BY <1>1, <1>2, <1>3, <1>4, <1>5 DEF Next

\* What is restored is what load_state asks for.
LEMMA RestoredIsReplayed == ASSUME Restored PROVE ReplayReproduces
<1>1. PICK ds : Rebuilt(ds)
  BY DEF Restored, Reproduced
<1>2. PICK k : k = Replay
  OBVIOUS
<1>3. k = Book(records, recordOf, connections, active, conflicts, acks, manifestation, ds)
  BY <1>1, <1>2 DEF Rebuilt, Replay, ReplayOf
<1>4. /\ k.records = records /\ k.recordOf = recordOf /\ k.connections = connections /\ k.active = active
      /\ k.conflicts = conflicts /\ k.acks = acks /\ k.manifestation = manifestation /\ k.deltas = ds
  BY <1>3 DEF Book
<1>5. audit = Newest([i \in DOMAIN k.deltas |-> k.deltas[i].id], AuditLimit) /\ Len(k.deltas) = deltaIds
  BY <1>1, <1>4 DEF Rebuilt, Ids
<1>6. PICK made : made = Records("WORLD_ACKNOWLEDGEMENT_COMMITTED")
  OBVIOUS
<1>7. Tally(made, ackIds, lineageIds, conflictIds) /\ Len(Records("NAME_RECORD_CREATED")) = recordIds
  BY <1>6 DEF Restored, Tallied
<1>8. DOMAIN made = 1..ackIds /\ Len(made) = ackIds
  <2>1. IsList(made) /\ Len(made) = ackIds
    BY <1>7 DEF Tally
  <2> QED
    BY <2>1, ListFacts DEF IsList
<1>9. /\ {made[i].connection.lineage : i \in DOMAIN made} = 1..lineageIds
      /\ UNION {Elements(made[i].ack.conflicts) : i \in DOMAIN made} = 1..conflictIds
  BY <1>7, <1>8 DEF Tally
<1>10. RebuiltEvents = events /\ RebuiltObservations = observations /\ RebuiltEventIds = eventIds
  BY DEF Restored, Logged
<1> QED
  BY <1>2, <1>4, <1>5, <1>6, <1>7, <1>8, <1>9, <1>10 DEF ReplayReproduces

\* What save_state writes is accepted: whatever was recorded, created,
\* acknowledged, superseded and archived, the loop of _from_history_trace over
\* the trace gives the indexes that the kernel has, and the counters follow
\* from the ids in the trace.
THEOREM TraceReproducesLedger ==
  ASSUME Payloads \subseteq {"canonical"} PROVE Spec => []ReplayReproduces
<1>1. Init => IInv /\ Restored
  BY InitHolds, InitRestored
<1>2. IInv /\ Restored /\ [Next]_vars => IInv' /\ Restored'
  BY NextKeeps, NextRestores
<1>3. Restored => ReplayReproduces
  BY RestoredIsReplayed
<1> QED
  BY <1>1, <1>2, <1>3, PTL DEF Spec

=============================================================================
