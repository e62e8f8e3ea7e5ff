------------------------ MODULE MemoryVersions_proofs ------------------------
(***************************************************************************)
(* What holds of every memory kernel: for every number of actors, memories *)
(* and versions, and every bound of its live indexes.                      *)
(*                                                                         *)
(* What a recursive function makes of a trace is followed record by        *)
(* record: where two such functions first differed, at the least number    *)
(* of records, the loop would have taken the same turn from the same       *)
(* state.                                                                  *)
(***************************************************************************)
EXTENDS MemoryVersions, Occurrences_proofs

-----------------------------------------------------------------------------
(* Following a recursive function along a trace.                           *)

\* f holds the state of a version after each of the first records of a trace.
Follows(f, t, id, last) ==
  f = [n \in 0..last |-> IF n = 0 THEN None ELSE StateAfter(f[n - 1], t[n], id)]

\* There is such a function for every trace.
LEMMA Following ==
  ASSUME NEW t, NEW id, NEW last \in Nat
  PROVE  \E f : Follows(f, t, id, last)
<1> DEFINE T == {m \in Nat : ~ \E f : Follows(f, t, id, m)}
<1>1. CASE T = {}
  BY <1>1
<1>2. CASE T # {}
  <2>0. T \subseteq Nat
    OBVIOUS
  <2>1. PICK m \in T : \A k \in T : m <= k
    BY <1>2, <2>0, HasLeast
  <2>2. CASE m = 0
    <3>1. Follows([n \in 0..0 |-> None], t, id, 0)
      BY DEF Follows
    <3> QED
      BY <2>1, <2>2, <3>1
  <2>3. CASE m # 0
    <3>1. m - 1 \in Nat /\ m - 1 \notin T /\ m \in Nat
      BY <2>1, <2>3
    <3>2. PICK f : Follows(f, t, id, m - 1)
      BY <3>1
    <3> DEFINE g == [n \in 0..m |-> IF n = m THEN StateAfter(f[m - 1], t[m], id) ELSE f[n]]
    <3>3. \A n \in 0..(m - 1) : g[n] = f[n] /\ f[n] = IF n = 0 THEN None ELSE StateAfter(f[n - 1], t[n], id)
      BY <3>1, <3>2 DEF Follows
    <3>4. \A n \in 0..m : g[n] = IF n = 0 THEN None ELSE StateAfter(g[n - 1], t[n], id)
      <4> TAKE n \in 0..m
      <4>1. CASE n = m
        BY <2>3, <3>1, <3>3, <4>1
      <4>2. CASE n # m /\ n # 0
        <5>1. n \in 0..(m - 1) /\ n - 1 \in 0..(m - 1)
          BY <3>1, <4>2
        <5> QED
          BY <3>3, <4>2, <5>1
      <4>3. CASE n = 0
        <5>1. n \in 0..(m - 1)
          BY <3>1, <4>3
        <5> QED
          BY <3>3, <4>3, <5>1
      <4> QED
        BY <4>1, <4>2, <4>3
    <3>5. g = [n \in 0..m |-> g[n]]
      OBVIOUS
    <3> HIDE DEF g
    <3>6. Follows(g, t, id, m)
      BY <3>4, <3>5 DEF Follows
    <3> QED
      BY <2>1, <3>6
  <2> QED
    BY <2>2, <2>3
<1> QED
  BY <1>1, <1>2

\* The states along a trace are what the loop makes of its records.
LEMMA StatesFollow ==
  ASSUME NEW t, NEW id, Len(t) \in Nat
  PROVE  /\ StatesAlong(t, id)[0] = None
         /\ \A n \in 1..Len(t) : StatesAlong(t, id)[n] = StateAfter(StatesAlong(t, id)[n - 1], t[n], id)
<1>1. Follows(StatesAlong(t, id), t, id, Len(t))
  BY Following DEF StatesAlong, Follows
<1> DEFINE f == StatesAlong(t, id)
<1> HIDE DEF f
<1>2. \A n \in 0..Len(t) : f[n] = IF n = 0 THEN None ELSE StateAfter(f[n - 1], t[n], id)
  BY <1>1 DEF Follows, f
<1> QED
  BY <1>2 DEF f

\* The states along a trace are told from one after the other.
LEMMA Prefix ==
  ASSUME NEW t, NEW u, NEW id, Len(t) \in Nat, Len(u) \in Nat, Len(t) <= Len(u),
         \A i \in 1..Len(t) : u[i] = t[i]
  PROVE  \A n \in 0..Len(t) : StatesAlong(u, id)[n] = StatesAlong(t, id)[n]
<1> DEFINE f == StatesAlong(t, id)
           g == StatesAlong(u, id)
           T == {n \in 0..Len(t) : g[n] # f[n]}
<1>1. /\ f[0] = None /\ g[0] = None
      /\ \A n \in 1..Len(t) : f[n] = StateAfter(f[n - 1], t[n], id)
      /\ \A n \in 1..Len(t) : g[n] = StateAfter(g[n - 1], t[n], id)
  BY StatesFollow
<1> HIDE DEF f, g
<1>2. CASE T # {}
  <2>0. T \subseteq Nat
    OBVIOUS
  <2>1. PICK m \in T : \A k \in T : m <= k
    BY <1>2, <2>0, HasLeast
  <2>2. m # 0 /\ m \in 1..Len(t) /\ m - 1 \in 0..Len(t) /\ m - 1 \notin T
    BY <1>1, <2>1
  <2>3. g[m - 1] = f[m - 1]
    BY <2>2
  <2>4. g[m] = f[m]
    BY <1>1, <2>2, <2>3
  <2> QED
    BY <2>1, <2>4
<1>3. CASE T = {}
  <2>1. \A n \in 0..Len(t) : n \notin T
    BY <1>3
  <2>2. \A n \in 0..Len(t) : g[n] = f[n]
    BY <2>1
  <2> QED
    BY <2>2 DEF f, g
<1> QED
  BY <1>2, <1>3

\* A record that says nothing of a version's state.
Silent(r, id) == \A s : StateAfter(s, r, id) = s

\* Records that say nothing of a version leave its state.
LEMMA Quiet ==
  ASSUME NEW t, NEW id, Len(t) \in Nat, NEW a \in 0..Len(t), NEW b \in a..Len(t),
         \A n \in (a + 1)..b : Silent(t[n], id)
  PROVE  StatesAlong(t, id)[b] = StatesAlong(t, id)[a]
<1> DEFINE f == StatesAlong(t, id)
           T == {n \in a..b : f[n] # f[a]}
<1>1. \A n \in 1..Len(t) : f[n] = StateAfter(f[n - 1], t[n], id)
  BY StatesFollow
<1> HIDE DEF f
<1>2. CASE T # {}
  <2>0. T \subseteq Nat
    OBVIOUS
  <2>1. PICK m \in T : \A k \in T : m <= k
    BY <1>2, <2>0, HasLeast
  <2>2. m \in (a + 1)..b /\ m - 1 \in a..b /\ m - 1 \notin T /\ m \in 1..Len(t)
    BY <2>1
  <2>3. f[m - 1] = f[a] /\ f[m] = StateAfter(f[m - 1], t[m], id)
    BY <1>1, <2>2
  <2>4. StateAfter(f[m - 1], t[m], id) = f[m - 1]
    BY <2>2 DEF Silent
  <2> QED
    BY <2>1, <2>3, <2>4
<1>3. CASE T = {}
  <2>1. b \in a..b /\ b \notin T
    BY <1>3
  <2>2. f[b] = f[a]
    BY <2>1
  <2> QED
    BY <2>2 DEF f
<1> QED
  BY <1>2, <1>3

\* f joins the first sequences of ss.
Joins(f, ss, last) == f = [n \in 0..last |-> IF n = 0 THEN <<>> ELSE f[n - 1] \o ss[n]]

\* What such a function ends with is a sequence over the same set.
LEMMA JoiningIsSeq ==
  ASSUME NEW S, NEW ss, Len(ss) \in Nat, \A i \in 1..Len(ss) : ss[i] \in Seq(S),
         NEW f, Joins(f, ss, Len(ss))
  PROVE  f[Len(ss)] \in Seq(S)
<1> DEFINE T == {n \in 0..Len(ss) : f[n] \notin Seq(S)}
<1>1. \A n \in 0..Len(ss) : f[n] = IF n = 0 THEN <<>> ELSE f[n - 1] \o ss[n]
  BY DEF Joins
<1>2. CASE T # {}
  <2>0. T \subseteq Nat
    OBVIOUS
  <2>1. PICK m \in T : \A k \in T : m <= k
    BY <1>2, <2>0, HasLeast
  <2>2. m # 0
    <3>1. <<>> \in Seq(S)
      BY EmptySeq
    <3> QED
      BY <1>1, <2>1, <3>1
  <2>3. m \in 1..Len(ss) /\ m - 1 \in 0..Len(ss) /\ m - 1 \notin T
    BY <2>1, <2>2
  <2>4. f[m - 1] \in Seq(S) /\ ss[m] \in Seq(S)
    BY <2>3
  <2>5. f[m - 1] \o ss[m] \in Seq(S)
    BY <2>4, ConcatProperties
  <2>6. f[m] \in Seq(S)
    BY <1>1, <2>2, <2>3, <2>5
  <2> QED
    BY <2>1, <2>6
<1>3. CASE T = {}
  <2>1. Len(ss) \in 0..Len(ss) /\ Len(ss) \notin T
    BY <1>3
  <2> QED
    BY <2>1
<1> QED
  BY <1>2, <1>3

\* There is such a function for every sequence of sequences.
LEMMA Joining ==
  ASSUME NEW ss, NEW last \in Nat
  PROVE  \E f : Joins(f, ss, last)
<1> DEFINE T == {m \in Nat : ~ \E f : Joins(f, ss, m)}
<1>1. CASE T = {}
  BY <1>1
<1>2. CASE T # {}
  <2>0. T \subseteq Nat
    OBVIOUS
  <2>1. PICK m \in T : \A k \in T : m <= k
    BY <1>2, <2>0, HasLeast
  <2>2. CASE m = 0
    <3>1. Joins([n \in 0..0 |-> <<>>], ss, 0)
      BY DEF Joins
    <3> QED
      BY <2>1, <2>2, <3>1
  <2>3. CASE m # 0
    <3>1. m - 1 \in Nat /\ m - 1 \notin T /\ m \in Nat
      BY <2>1, <2>3
    <3>2. PICK f : Joins(f, ss, m - 1)
      BY <3>1
    <3> DEFINE g == [n \in 0..m |-> IF n = m THEN f[m - 1] \o ss[m] ELSE f[n]]
    <3>3. \A n \in 0..(m - 1) : g[n] = f[n] /\ f[n] = IF n = 0 THEN <<>> ELSE f[n - 1] \o ss[n]
      BY <3>1, <3>2 DEF Joins
    <3>4. \A n \in 0..m : g[n] = IF n = 0 THEN <<>> ELSE g[n - 1] \o ss[n]
      <4> TAKE n \in 0..m
      <4>1. CASE n = m
        BY <2>3, <3>1, <3>3, <4>1
      <4>2. CASE n # m /\ n # 0
        <5>1. n \in 0..(m - 1) /\ n - 1 \in 0..(m - 1)
          BY <3>1, <4>2
        <5> QED
          BY <3>3, <4>2, <5>1
      <4>3. CASE n = 0
        <5>1. n \in 0..(m - 1)
          BY <3>1, <4>3
        <5> QED
          BY <3>3, <4>3, <5>1
      <4> QED
        BY <4>1, <4>2, <4>3
    <3>5. g = [n \in 0..m |-> g[n]]
      OBVIOUS
    <3> HIDE DEF g
    <3>6. Joins(g, ss, m)
      BY <3>4, <3>5 DEF Joins
    <3> QED
      BY <2>1, <3>6
  <2> QED
    BY <2>2, <2>3
<1> QED
  BY <1>1, <1>2

\* What joining sequences over a set gives is one.
LEMMA JoinedIsSeq ==
  ASSUME NEW S, NEW ss, Len(ss) \in Nat, \A i \in 1..Len(ss) : ss[i] \in Seq(S)
  PROVE  Joined(ss) \in Seq(S)
<1> DEFINE f == CHOOSE f : Joins(f, ss, Len(ss))
<1>1. Joins(f, ss, Len(ss))
  BY Joining
<1>2. Joined(ss) = f[Len(ss)]
  BY DEF Joined, Joins
<1> HIDE DEF f
<1> QED
  BY <1>1, <1>2, JoiningIsSeq

-----------------------------------------------------------------------------
(* What a trace tells of a version.                                        *)

\* The state a trace tells of a version.
Told(t, id) == StatesAlong(t, id)[Len(t)]

\* The version that a trace tells of.
VersionIn(t, id) ==
  t[CHOOSE i \in DOMAIN t : t[i].kind = "MEMORY_VERSION_CREATED" /\ t[i].id = id].version

Creates(r, id) == r.kind = "MEMORY_VERSION_CREATED" /\ r.id = id

\* Every version has one creation on record, and nothing else has.
Recorded(t, last) ==
  /\ t \in Seq(Elements(t))
  /\ \A i \in 1..Len(t) : t[i].kind = "MEMORY_VERSION_CREATED" => t[i].id \in 1..last
  /\ \A i, j \in 1..Len(t) :
       t[i].kind = "MEMORY_VERSION_CREATED" /\ Creates(t[j], t[i].id) => i = j
  /\ \A id \in 1..last : \E i \in 1..Len(t) : Creates(t[i], id)

\* A trace that goes on.
Extends(t, u) == \A i \in 1..Len(t) : i \in 1..Len(u) /\ u[i] = t[i]

\* The records of a rewriting, one for each parent.
RewritingOf(u, parents) ==
  /\ u \in Seq(Elements(u))
  /\ DOMAIN parents = 1..Len(u)
  /\ \A i \in 1..Len(u) : u[i].kind = "MEMORY_VERSION_REWRITTEN" /\ u[i].parent = parents[i]
  /\ \A i, j \in 1..Len(u) : parents[i] = parents[j] => i = j

\* The records of what is archived.
Evicting(u) ==
  /\ u \in Seq(Elements(u))
  /\ \A i \in 1..Len(u) : u[i].kind = "LIVE_INDEX_EVICTED"

\* A sequence of anything is one of its elements.
LEMMA OwnElements ==
  ASSUME NEW S, NEW t \in Seq(S)
  PROVE  /\ t \in Seq(Elements(t)) /\ Len(t) \in Nat /\ DOMAIN t = 1..Len(t)
         /\ \A x \in Elements(t) : \E i \in 1..Len(t) : x = t[i]
         /\ \A i \in 1..Len(t) : t[i] \in Elements(t)
<1>1. Len(t) \in Nat /\ DOMAIN t = 1..Len(t) /\ t = [i \in 1..Len(t) |-> t[i]]
  BY LenProperties
<1>2. \A i \in 1..Len(t) : t[i] \in Elements(t)
  BY <1>1 DEF Elements
<1>3. t \in [1..Len(t) -> Elements(t)]
  BY <1>1, <1>2
<1>4. t \in Seq(Elements(t))
  BY <1>1, <1>3, SeqDef
<1> QED
  BY <1>1, <1>2, <1>4 DEF Elements

\* What a longer trace is made of.
LEMMA Longer ==
  ASSUME NEW S, NEW t \in Seq(S), NEW R, NEW u \in Seq(R)
  PROVE  /\ t \o u \in Seq(Elements(t \o u)) /\ Len(t) \in Nat /\ Len(u) \in Nat
         /\ Len(t \o u) = Len(t) + Len(u)
         /\ \A i \in 1..Len(t) : (t \o u)[i] = t[i]
         /\ \A i \in (Len(t) + 1)..(Len(t) + Len(u)) : (t \o u)[i] = u[i - Len(t)]
         /\ \A i \in 1..Len(u) : (t \o u)[Len(t) + i] = u[i]
<1>1. t \in Seq(S \cup R) /\ u \in Seq(S \cup R)
  BY SeqMonotonic
<1>2. Len(t) \in Nat /\ Len(u) \in Nat
  BY LenProperties
<1>3. /\ t \o u \in Seq(S \cup R)
      /\ Len(t \o u) = Len(t) + Len(u)
      /\ \A i \in 1..Len(t) + Len(u) :
           (t \o u)[i] = IF i <= Len(t) THEN t[i] ELSE u[i - Len(t)]
  BY <1>1, ConcatProperties
<1>4. t \o u \in Seq(Elements(t \o u))
  BY <1>3, OwnElements
<1> DEFINE tu == t \o u
           n == Len(t)
           m == Len(u)
<1>5. tu = t \o u /\ n = Len(t) /\ m = Len(u)
  OBVIOUS
<1> HIDE DEF tu, n, m
<1>6. /\ \A i \in 1..n : tu[i] = t[i]
      /\ \A i \in (n + 1)..(n + m) : tu[i] = u[i - n]
      /\ \A i \in 1..m : tu[n + i] = u[i]
  BY <1>2, <1>3, <1>5
<1> QED
  BY <1>2, <1>3, <1>4, <1>5, <1>6

\* Appending a record is joining a sequence of it.
LEMMA AppendedOne ==
  ASSUME NEW S, NEW t \in Seq(S), NEW r
  PROVE  Append(t, r) = t \o <<r>> /\ <<r>> \in Seq({r})
<1>1. t \in Seq(S \cup {r})
  BY SeqMonotonic
<1>2. Append(t, r) = t \o <<r>>
  BY <1>1, AppendIsConcat
<1>3. <<r>> \in Seq({r})
  OBVIOUS
<1> QED
  BY <1>2, <1>3

\* A record moves the state that the trace tells as the loop does.
LEMMA ToldNext ==
  ASSUME NEW S, NEW t \in Seq(S), NEW r, NEW id
  PROVE  Told(t \o <<r>>, id) = StateAfter(Told(t, id), r, id)
<1> DEFINE u == t \o <<r>>
<1>1. Len(t) \in Nat /\ Len(u) = Len(t) + 1 /\ (\A i \in 1..Len(t) : u[i] = t[i]) /\ u[Len(t) + 1] = r
  BY Longer, AppendedOne
<1> HIDE DEF u
<1>2. StatesAlong(u, id)[Len(t)] = StatesAlong(t, id)[Len(t)]
  BY <1>1, Prefix
<1>3. StatesAlong(u, id)[Len(u)] = StateAfter(StatesAlong(u, id)[Len(u) - 1], u[Len(u)], id)
  BY <1>1, StatesFollow
<1> QED
  BY <1>1, <1>2, <1>3 DEF Told, u

\* Records that say nothing of a version leave what is told of it.
LEMMA ToldStill ==
  ASSUME NEW S, NEW t \in Seq(S), NEW R, NEW u \in Seq(R), NEW id,
         \A i \in 1..Len(u) : Silent(u[i], id)
  PROVE  Told(t \o u, id) = Told(t, id)
<1> DEFINE tu == t \o u
<1>1. /\ Len(t) \in Nat /\ Len(u) \in Nat /\ Len(tu) = Len(t) + Len(u)
      /\ \A i \in 1..Len(t) : tu[i] = t[i]
      /\ \A i \in (Len(t) + 1)..(Len(t) + Len(u)) : tu[i] = u[i - Len(t)]
  BY Longer
<1> HIDE DEF tu
<1>2. StatesAlong(tu, id)[Len(t)] = StatesAlong(t, id)[Len(t)]
  BY <1>1, Prefix
<1>3. \A n \in (Len(t) + 1)..Len(tu) : Silent(tu[n], id)
  <2> TAKE n \in (Len(t) + 1)..Len(tu)
  <2>1. n - Len(t) \in 1..Len(u) /\ tu[n] = u[n - Len(t)]
    BY <1>1
  <2> QED
    BY <2>1
<1>4. Len(t) \in 0..Len(tu) /\ Len(tu) \in Len(t)..Len(tu) /\ Len(tu) \in Nat
  BY <1>1
<1>5. StatesAlong(tu, id)[Len(tu)] = StatesAlong(tu, id)[Len(t)]
  BY <1>3, <1>4, Quiet
<1> QED
  BY <1>2, <1>5 DEF Told, tu

\* Records of a rewriting close each parent once, and no other version.
LEMMA ToldRewritten ==
  ASSUME NEW t, t \in Seq(Elements(t)), NEW u, NEW parents, RewritingOf(u, parents), NEW id,
         Told(t, id) # None
  PROVE  Told(t \o u, id) =
           IF id \in Elements(parents) THEN Moved(Told(t, id), "REWRITTEN") ELSE Told(t, id)
<1>1. /\ u \in Seq(Elements(u))
      /\ DOMAIN parents = 1..Len(u)
      /\ \A i \in 1..Len(u) : u[i].kind = "MEMORY_VERSION_REWRITTEN" /\ u[i].parent = parents[i]
      /\ \A i, j \in 1..Len(u) : parents[i] = parents[j] => i = j
  BY DEF RewritingOf
<1>2. CASE id \notin Elements(parents)
  <2>1. \A i \in 1..Len(u) : Silent(u[i], id)
    BY <1>1, <1>2 DEF Elements, Silent, StateAfter
  <2> QED
    BY <1>1, <1>2, <2>1, ToldStill
<1>3. CASE id \in Elements(parents)
  <2>1. PICK k \in 1..Len(u) : parents[k] = id
    BY <1>1, <1>3 DEF Elements
  <2> DEFINE tu == t \o u
             n == Len(t)
  <2>2. /\ n \in Nat /\ Len(u) \in Nat /\ Len(tu) = n + Len(u)
        /\ \A i \in 1..n : tu[i] = t[i]
        /\ \A i \in 1..Len(u) : tu[n + i] = u[i]
    BY <1>1, Longer
  <2>3. \A i \in 1..Len(u) : i # k => Silent(u[i], id)
    BY <1>1, <2>1 DEF Silent, StateAfter
  <2> HIDE DEF tu, n
  <2>4. StatesAlong(tu, id)[n] = Told(t, id)
    <3>1. n = Len(t)
      BY DEF n
    <3>2. StatesAlong(tu, id)[Len(t)] = StatesAlong(t, id)[Len(t)]
      BY <2>2, <3>1, Prefix
    <3> QED
      BY <3>1, <3>2 DEF Told
  <2>5. \A i \in (n + 1)..(n + k - 1) : Silent(tu[i], id)
    <3> TAKE i \in (n + 1)..(n + k - 1)
    <3>1. i - n \in 1..Len(u) /\ i - n # k /\ n + (i - n) = i
      BY <2>1, <2>2
    <3> QED
      BY <2>2, <2>3, <3>1
  <2>6. \A i \in (n + k + 1)..Len(tu) : Silent(tu[i], id)
    <3> TAKE i \in (n + k + 1)..Len(tu)
    <3>1. i - n \in 1..Len(u) /\ i - n # k /\ n + (i - n) = i
      BY <2>1, <2>2
    <3> QED
      BY <2>2, <2>3, <3>1
  <2>7. /\ n \in 0..Len(tu) /\ n + k - 1 \in n..Len(tu) /\ n + k \in 0..Len(tu)
        /\ Len(tu) \in (n + k)..Len(tu) /\ Len(tu) \in Nat /\ n + k \in 1..Len(tu)
    BY <2>1, <2>2
  <2>8. StatesAlong(tu, id)[n + k - 1] = Told(t, id)
    BY <2>4, <2>5, <2>7, Quiet
  <2>9. StatesAlong(tu, id)[n + k] = StateAfter(StatesAlong(tu, id)[n + k - 1], tu[n + k], id)
    BY <2>7, StatesFollow
  <2>10. tu[n + k].kind = "MEMORY_VERSION_REWRITTEN" /\ tu[n + k].parent = id
    BY <1>1, <2>1, <2>2
  <2>11. StatesAlong(tu, id)[n + k] = Moved(Told(t, id), "REWRITTEN")
    BY <2>8, <2>9, <2>10 DEF StateAfter
  <2>12. StatesAlong(tu, id)[Len(tu)] = StatesAlong(tu, id)[n + k]
    BY <2>6, <2>7, Quiet
  <2> QED
    BY <1>3, <2>11, <2>12 DEF Told, tu
<1> QED
  BY <1>2, <1>3

\* The creation that a lookup finds is the one on record.
LEMMA TheCreation ==
  ASSUME NEW t, NEW last, Recorded(t, last), NEW i \in 1..Len(t), NEW id, Creates(t[i], id)
  PROVE  VersionIn(t, id) = t[i].version
<1>1. DOMAIN t = 1..Len(t)
  BY OwnElements DEF Recorded
<1>2. \A j \in DOMAIN t : Creates(t[j], id) => j = i
  BY <1>1 DEF Recorded, Creates
<1>3. (CHOOSE j \in DOMAIN t : t[j].kind = "MEMORY_VERSION_CREATED" /\ t[j].id = id) = i
  BY <1>1, <1>2 DEF Creates
<1> QED
  BY <1>3 DEF VersionIn

\* Records that create nothing leave the creations on record.
LEMMA NothingCreated ==
  ASSUME NEW t, NEW last, Recorded(t, last), NEW R, NEW u \in Seq(R),
         \A i \in 1..Len(u) : u[i].kind # "MEMORY_VERSION_CREATED"
  PROVE  Recorded(t \o u, last)
<1> DEFINE tu == t \o u
<1>1. /\ tu \in Seq(Elements(tu)) /\ Len(t) \in Nat /\ Len(u) \in Nat
      /\ Len(tu) = Len(t) + Len(u)
      /\ \A i \in 1..Len(t) : tu[i] = t[i]
      /\ \A i \in (Len(t) + 1)..(Len(t) + Len(u)) : tu[i] = u[i - Len(t)]
  BY Longer DEF Recorded
<1> HIDE DEF tu
<1>2. ASSUME NEW i \in 1..Len(tu), tu[i].kind = "MEMORY_VERSION_CREATED"
      PROVE  i \in 1..Len(t) /\ tu[i] = t[i]
  <2>1. CASE i \in 1..Len(t)
    BY <1>1, <2>1
  <2>2. CASE i \notin 1..Len(t)
    <3>1. i - Len(t) \in 1..Len(u) /\ tu[i] = u[i - Len(t)]
      BY <1>1, <2>2
    <3> QED
      BY <1>2, <3>1
  <2> QED
    BY <2>1, <2>2
<1>3. \A i \in 1..Len(t) : i \in 1..Len(tu) /\ tu[i] = t[i]
  BY <1>1
<1>4. \A i \in 1..Len(tu) : tu[i].kind = "MEMORY_VERSION_CREATED" => tu[i].id \in 1..last
  BY <1>2 DEF Recorded
<1>5. \A i, j \in 1..Len(tu) :
        tu[i].kind = "MEMORY_VERSION_CREATED" /\ Creates(tu[j], tu[i].id) => i = j
  BY <1>2 DEF Recorded, Creates
<1>6. \A id \in 1..last : \E i \in 1..Len(tu) : Creates(tu[i], id)
  BY <1>3 DEF Recorded
<1>7. Recorded(tu, last)
  BY <1>1, <1>4, <1>5, <1>6 DEF Recorded
<1> QED
  BY <1>7 DEF tu

\* A version with the next id is one more creation.
LEMMA OneCreated ==
  ASSUME NEW t, NEW last \in Nat, Recorded(t, last), NEW r, Creates(r, last + 1)
  PROVE  Recorded(t \o <<r>>, last + 1)
<1> DEFINE tu == t \o <<r>>
           n == Len(t)
<1>1. /\ tu \in Seq(Elements(tu)) /\ n \in Nat /\ Len(tu) = n + 1
      /\ \A i \in 1..n : tu[i] = t[i]
      /\ tu[n + 1] = r
  <2>1. t \in Seq(Elements(t)) /\ <<r>> \in Seq({r}) /\ Len(<<r>>) = 1 /\ <<r>>[1] = r /\ 1 \in 1..1
    BY AppendedOne DEF Recorded
  <2> DEFINE u == <<r>>
  <2> HIDE DEF u
  <2>2. /\ t \o u \in Seq(Elements(t \o u)) /\ Len(t) \in Nat /\ Len(t \o u) = Len(t) + Len(u)
        /\ \A i \in 1..Len(t) : (t \o u)[i] = t[i]
        /\ \A i \in 1..Len(u) : (t \o u)[Len(t) + i] = u[i]
    <3>1. t \in Seq(Elements(t)) /\ u \in Seq({r})
      BY <2>1 DEF u
    <3> QED
      BY <3>1, Longer
  <2>3. Len(u) = 1 /\ u[1] = r /\ 1 \in 1..Len(u) /\ tu = t \o u
    BY <2>1 DEF u
  <2> HIDE DEF tu
  <2> QED
    BY <2>2, <2>3
<1>2. /\ \A i \in 1..n : t[i].kind = "MEMORY_VERSION_CREATED" => t[i].id \in 1..last
      /\ \A i, j \in 1..n :
           t[i].kind = "MEMORY_VERSION_CREATED" /\ Creates(t[j], t[i].id) => i = j
      /\ \A id \in 1..last : \E i \in 1..n : Creates(t[i], id)
  BY DEF Recorded
<1> HIDE DEF tu, n
<1>3. \A i \in 1..Len(tu) : (i \in 1..n /\ tu[i] = t[i]) \/ (i = n + 1 /\ Creates(tu[i], last + 1))
  BY <1>1
<1>4. \A i \in 1..n : ~Creates(t[i], last + 1)
  BY <1>2 DEF Creates
<1>5. \A i \in 1..Len(tu) : tu[i].kind = "MEMORY_VERSION_CREATED" => tu[i].id \in 1..(last + 1)
  BY <1>2, <1>3 DEF Creates
<1>6. ASSUME NEW i \in 1..Len(tu), NEW j \in 1..Len(tu),
             tu[i].kind = "MEMORY_VERSION_CREATED", Creates(tu[j], tu[i].id)
      PROVE  i = j
  <2>1. CASE i \in 1..n /\ tu[i] = t[i]
    <3>1. tu[i].id \in 1..last
      BY <1>2, <1>6, <2>1
    <3>2. j \in 1..n /\ tu[j] = t[j]
      <4>1. tu[i].id # last + 1
        BY <3>1
      <4> QED
        BY <1>3, <1>6, <4>1 DEF Creates
    <3> QED
      BY <1>2, <1>6, <2>1, <3>2
  <2>2. CASE i = n + 1 /\ Creates(tu[i], last + 1)
    <3>1. Creates(tu[j], last + 1)
      BY <1>6, <2>2 DEF Creates
    <3>2. ~(j \in 1..n /\ tu[j] = t[j])
      BY <1>4, <3>1
    <3> QED
      BY <1>3, <2>2, <3>2
  <2> QED
    BY <1>3, <2>1, <2>2
<1>7. ASSUME NEW id \in 1..(last + 1)
      PROVE  \E i \in 1..Len(tu) : Creates(tu[i], id)
  <2>1. CASE id = last + 1
    BY <1>1, <2>1
  <2>2. CASE id # last + 1
    <3>1. id \in 1..last
      BY <2>2
    <3>2. PICK i \in 1..n : Creates(t[i], id)
      BY <1>2, <3>1
    <3>3. i \in 1..Len(tu) /\ tu[i] = t[i]
      BY <1>1
    <3> QED
      BY <3>2, <3>3
  <2> QED
    BY <2>1, <2>2
<1>8. Recorded(tu, last + 1)
  BY <1>1, <1>5, <1>6, <1>7 DEF Recorded
<1> QED
  BY <1>8 DEF tu

-----------------------------------------------------------------------------
(* The invariant.                                                          *)

\* Owners keep their lineages apart, each of them once.
Indexed ==
  /\ versionIds \in Nat /\ lineageIds \in Nat
  /\ DOMAIN lineageVersions = DOMAIN lineageOwner
  /\ DOMAIN lineageOwner \subseteq 1..lineageIds
  /\ \A l \in DOMAIN lineageVersions : lineageVersions[l] \in Seq(Nat)
  /\ \A a \in DOMAIN actorLineages :
       /\ actorLineages[a] \in Seq(DOMAIN lineageOwner)
       /\ \A i \in 1..Len(actorLineages[a]) : lineageOwner[actorLineages[a][i]] = a
       /\ \A i, j \in 1..Len(actorLineages[a]) : actorLineages[a][i] = actorLineages[a][j] => i = j

\* What is live is what the trace tells.
Faithful ==
  /\ \A v \in 1..versionIds : Told(trace, v) \in States
  /\ \A v \in DOMAIN states : v \in 1..versionIds /\ states[v] = Told(trace, v)
  /\ \A v \in DOMAIN versions : v \in 1..versionIds /\ versions[v] = VersionIn(trace, v)

IInv ==
  /\ Indexed
  /\ Recorded(trace, versionIds)
  /\ Faithful

-----------------------------------------------------------------------------
(* States stay states.                                                     *)

\* Moving on in a rewriting or a contradiction.
LEMMA MovedIsState ==
  ASSUME NEW s \in States, NEW stage \in {"REWRITTEN", "CONTRADICTED"}
  PROVE  Moved(s, stage) \in States
<1> DEFINE m == [s EXCEPT !.revision = @ + 1]
<1>1. m = [revision |-> s.revision + 1, access |-> s.access, stage |-> s.stage,
           clarity |-> s.clarity, residue |-> s.residue]
  BY DEF States
<1>2. Moved(s, stage) = [m EXCEPT !.stage = stage]
  BY DEF Moved
<1> HIDE DEF m
<1>3. [m EXCEPT !.stage = stage] =
        [revision |-> s.revision + 1, access |-> s.access, stage |-> stage,
         clarity |-> s.clarity, residue |-> s.residue]
  BY <1>1
<1> QED
  BY <1>2, <1>3 DEF States

\* A memory is created in a state.
LEMMA InitialIsState ==
  ASSUME NEW impression \in Impressions
  PROVE  InitialState(impression) \in States
BY ImpressionsAreInRange DEF InitialState, AccessForClarity, States

\* Forgetting leads from a state to a state.
LEMMA TransitionedIsState ==
  ASSUME NEW s \in States, NEW mode \in Modes, NEW change \in Changes
  PROVE  Transitioned(s, mode, change) \in States
<1> DEFINE clarity == ClampMilli(s.clarity - change.decay - change.penalty + change.bonus)
           access == NextAccess(s, mode, clarity)
           residue == NextResidue(s, mode, access)
<1>1. clarity \in 0..1000
  <2> DEFINE value == s.clarity - change.decay - change.penalty + change.bonus
  <2>1. s.clarity \in 0..1000 /\ change.decay \in Nat /\ change.penalty \in Nat /\ change.bonus \in Nat
    BY ChangesAreNatural DEF States
  <2>2. value \in Int
    <3>1. \A a \in 0..1000, b \in Nat, c \in Nat, d \in Nat : a - b - c + d \in Int
      OBVIOUS
    <3> QED
      BY <2>1, <3>1
  <2> HIDE DEF value
  <2>3. ClampMilli(value) \in 0..1000
    BY <2>2 DEF ClampMilli
  <2> QED
    BY <2>3 DEF value
<1>2. access \in {"CLEAR", "FADED", "FORGOTTEN", "SUPPRESSED", "SEALED"}
  <2> HIDE DEF clarity
  <2> QED
    BY DEF NextAccess, AccessForClarity, States
<1>3. residue \in SUBSET Residues
  <2> HIDE DEF access
  <2>1. s.residue \in SUBSET Residues
    BY DEF States
  <2>2. ASSUME NEW item \in s.residue, Weaker(item).intensity > 0
        PROVE  Weaker(item) \in Residues
    <3>1. item \in Residues
      BY <2>1
    <3> DEFINE left == IF item.intensity > item.decay THEN item.intensity - item.decay ELSE 0
    <3>2. Weaker(item) = [intensity |-> left, decay |-> item.decay, independent |-> item.independent]
      BY <3>1 DEF Weaker, Residues
    <3>3. left \in 0..1000
      <4>1. item.intensity \in 1..1000 /\ item.decay \in 0..1000
        BY <3>1 DEF Residues
      <4>2. PICK a, b : a = item.intensity /\ b = item.decay
        OBVIOUS
      <4>3. a \in 1..1000 /\ b \in 0..1000
        BY <4>1, <4>2
      <4>4. CASE a > b
        <5>1. left = a - b
          BY <4>2, <4>4
        <5> HIDE DEF left
        <5> QED
          BY <4>3, <4>4, <5>1
      <4>5. CASE ~(a > b)
        <5>1. left = 0
          BY <4>2, <4>5
        <5> HIDE DEF left
        <5> QED
          BY <5>1
      <4> QED
        BY <4>4, <4>5
    <3> HIDE DEF left
    <3>4. left \in 1..1000
      BY <2>2, <3>2, <3>3
    <3> QED
      BY <3>1, <3>2, <3>4 DEF Residues
  <2>3. {w \in {Weaker(item) : item \in {r \in s.residue : r.independent \/ access # "FORGOTTEN"}} :
            w.intensity > 0} \in SUBSET Residues
    BY <2>2
  <2> QED
    BY <2>1, <2>3 DEF NextResidue
<1>4. Transitioned(s, mode, change) =
        [revision |-> s.revision + 1, access |-> access, stage |-> s.stage,
         clarity |-> clarity, residue |-> residue]
  <2> DEFINE m == [s EXCEPT !.revision = @ + 1]
             n == [m EXCEPT !.clarity = clarity]
             o == [n EXCEPT !.access = access]
  <2>1. Transitioned(s, mode, change) = [o EXCEPT !.residue = residue]
    BY DEF Transitioned
  <2> HIDE DEF clarity, access, residue
  <2>2. m = [revision |-> s.revision + 1, access |-> s.access, stage |-> s.stage,
             clarity |-> s.clarity, residue |-> s.residue]
    BY DEF States
  <2> HIDE DEF m
  <2>3. n = [revision |-> s.revision + 1, access |-> s.access, stage |-> s.stage,
             clarity |-> clarity, residue |-> s.residue]
    BY <2>2
  <2> HIDE DEF n
  <2>4. o = [revision |-> s.revision + 1, access |-> access, stage |-> s.stage,
             clarity |-> clarity, residue |-> s.residue]
    BY <2>3
  <2> HIDE DEF o
  <2> QED
    BY <2>1, <2>4
<1> HIDE DEF clarity, access, residue
<1> QED
  BY <1>1, <1>2, <1>3, <1>4 DEF States

-----------------------------------------------------------------------------
(* Lookups of versions, and steps with one record.                         *)

\* A longer trace tells the same of the versions that it held.
LEMMA SameVersion ==
  ASSUME NEW t, NEW a \in Nat, Recorded(t, a), NEW u, NEW b \in Nat, Recorded(u, b),
         Extends(t, u), NEW id \in 1..a
  PROVE  VersionIn(u, id) = VersionIn(t, id)
<1>1. PICK i \in 1..Len(t) : Creates(t[i], id)
  BY DEF Recorded
<1>2. i \in 1..Len(u) /\ Creates(u[i], id) /\ u[i] = t[i]
  BY <1>1 DEF Extends
<1>3. VersionIn(t, id) = t[i].version
  BY <1>1, TheCreation
<1>4. VersionIn(u, id) = u[i].version
  BY <1>2, TheCreation
<1> QED
  BY <1>2, <1>3, <1>4

\* A step that appends one record, and moves the states as the record tells.
LEMMA OneRecord ==
  ASSUME IInv,
         UNCHANGED <<versionIds, lineageIds, versions, lineageVersions, lineageOwner, actorLineages>>,
         NEW r, r.kind # "MEMORY_VERSION_CREATED", trace' = Append(trace, r),
         \A v \in 1..versionIds : StateAfter(Told(trace, v), r, v) \in States,
         \A v \in DOMAIN states' : v \in 1..versionIds /\ states'[v] = StateAfter(Told(trace, v), r, v)
  PROVE  IInv'
<1>1. Indexed'
  BY DEF IInv, Indexed
<1>2. trace \in Seq(Elements(trace)) /\ trace' = trace \o <<r>> /\ <<r>> \in Seq({r})
  BY AppendedOne DEF IInv, Recorded
<1>3. Recorded(trace', versionIds)
  <2>1. \A i \in 1..Len(<<r>>) : <<r>>[i].kind # "MEMORY_VERSION_CREATED"
    OBVIOUS
  <2> QED
    BY <1>2, <2>1, NothingCreated DEF IInv
<1>4. \A v : Told(trace', v) = StateAfter(Told(trace, v), r, v)
  BY <1>2, ToldNext
<1>5. \A v \in 1..versionIds : VersionIn(trace', v) = VersionIn(trace, v)
  <2>1. Extends(trace, trace')
    <3>1. /\ Len(trace) \in Nat /\ Len(trace') = Len(trace) + Len(<<r>>)
          /\ \A i \in 1..Len(trace) : trace'[i] = trace[i]
      BY <1>2, Longer
    <3> QED
      BY <3>1 DEF Extends
  <2> QED
    <3>1. Recorded(trace, versionIds) /\ versionIds \in Nat
      BY DEF IInv, Indexed
    <3> QED
      BY <1>3, <2>1, <3>1, SameVersion
<1>6. Faithful'
  BY <1>4, <1>5 DEF IInv, Faithful
<1> QED
  BY <1>1, <1>3, <1>6 DEF IInv

-----------------------------------------------------------------------------
(* The steps that create nothing.                                          *)

\* A step that leaves the memories and their records alone.
LEMMA Undisturbed ==
  ASSUME IInv, trace' = trace, UNCHANGED <<idVars, indexVars>>
  PROVE  IInv'
BY DEF IInv, Indexed, Recorded, Creates, Faithful, idVars, indexVars

\* Events and observations say nothing of memories.
LEMMA OccurKeeps ==
  ASSUME IInv, Occur
  PROVE  IInv'
<1>1. UNCHANGED <<idVars, indexVars>>
  BY DEF Occur
<1>2. CASE trace' = trace
  BY <1>1, <1>2, Undisturbed
<1>3. ASSUME NEW r, r.kind \in {"CANONICAL_EVENT_COMMITTED", "OBSERVATION_RECORDED"},
             trace' = Append(trace, r)
      PROVE  IInv'
  <2>1. \A s, v : StateAfter(s, r, v) = s
    BY <1>3 DEF StateAfter
  <2>2. UNCHANGED <<versionIds, lineageIds, versions, states, lineageVersions, lineageOwner, actorLineages>>
    BY <1>1 DEF idVars, indexVars
  <2>3. /\ \A v \in 1..versionIds : StateAfter(Told(trace, v), r, v) \in States
        /\ \A v \in DOMAIN states' :
             v \in 1..versionIds /\ states'[v] = StateAfter(Told(trace, v), r, v)
    BY <2>1, <2>2 DEF IInv, Faithful
  <2> QED
    BY <1>3, <2>2, <2>3, OneRecord
<1>4. OccurrencesNext
  BY DEF Occur
<1>5. ASSUME NEW type, NEW payload, CommitEvent(type, payload)
      PROVE  IInv'
  <2> DEFINE r == [kind |-> "CANONICAL_EVENT_COMMITTED", event |-> [id |-> eventIds + 1, type |-> type]]
  <2>1. trace' = trace \/ trace' = Append(trace, r)
    BY <1>5 DEF CommitEvent
  <2>2. r.kind = "CANONICAL_EVENT_COMMITTED"
    OBVIOUS
  <2> HIDE DEF r
  <2> QED
    BY <1>2, <1>3, <2>1, <2>2
<1>6. ASSUME NEW d, NEW visible, RecordObservation(d, visible)
      PROVE  IInv'
  <2> DEFINE r == [kind |-> "OBSERVATION_RECORDED", observation |-> d]
  <2>1. trace' = Append(trace, r)
    BY <1>6 DEF RecordObservation
  <2>2. r.kind = "OBSERVATION_RECORDED"
    OBVIOUS
  <2> HIDE DEF r
  <2> QED
    BY <1>3, <2>1, <2>2
<1> QED
  BY <1>4, <1>5, <1>6 DEF OccurrencesNext

\* A transition is on record as the state it leads to.
LEMMA TransitionKeeps ==
  ASSUME IInv, NEW id, NEW mode \in Modes, NEW change \in Changes, TransitionMemory(id, mode, change)
  PROVE  IInv'
<1> DEFINE r == [kind |-> "FORGETTING_EVENT_APPLIED", id |-> id,
                 state |-> Transitioned(states[id], mode, change)]
<1>1. /\ id \in DOMAIN states
      /\ states' = [states EXCEPT ![id] = Transitioned(states[id], mode, change)]
      /\ trace' = Append(trace, r)
      /\ UNCHANGED <<versionIds, lineageIds, versions, lineageVersions, lineageOwner, actorLineages>>
  BY DEF TransitionMemory
<1>2. /\ r.kind = "FORGETTING_EVENT_APPLIED" /\ r.id = id
      /\ r.state = Transitioned(states[id], mode, change)
  OBVIOUS
<1> HIDE DEF r
<1>3. id \in 1..versionIds /\ states[id] = Told(trace, id) /\ states[id] \in States
  BY <1>1 DEF IInv, Faithful
<1>4. r.state \in States
  BY <1>2, <1>3, TransitionedIsState
<1>5. \A v \in 1..versionIds :
        StateAfter(Told(trace, v), r, v) = IF v = id THEN r.state ELSE Told(trace, v)
  BY <1>2, NoneIsNoState DEF StateAfter, IInv, Faithful
<1>6. \A v \in 1..versionIds : StateAfter(Told(trace, v), r, v) \in States
  BY <1>4, <1>5 DEF IInv, Faithful
<1>7. \A v \in DOMAIN states' :
        v \in 1..versionIds /\ states'[v] = StateAfter(Told(trace, v), r, v)
  BY <1>1, <1>2, <1>3, <1>5 DEF IInv, Faithful
<1> QED
  BY <1>1, <1>2, <1>6, <1>7, OneRecord

\* A contradiction moves the versions as its record says, archived ones too.
LEMMA ContradictionKeeps ==
  ASSUME IInv, NEW ids, NEW anchor, RegisterContradiction(ids, anchor)
  PROVE  IInv'
<1> DEFINE r == [kind |-> "MEMORY_CONTRADICTION_REGISTERED", ids |-> ids]
<1>1. /\ ids \subseteq 1..versionIds
      /\ states' = [v \in DOMAIN states \cup ids |->
                      IF v \in ids THEN Moved(StateOf(v), "CONTRADICTED") ELSE states[v]]
      /\ trace' = Append(trace, r)
      /\ UNCHANGED <<versionIds, lineageIds, versions, lineageVersions, lineageOwner, actorLineages>>
  BY DEF RegisterContradiction, Created, idVars
<1>2. r.kind = "MEMORY_CONTRADICTION_REGISTERED" /\ r.ids = ids
  OBVIOUS
<1> HIDE DEF r
<1>3. \A v \in 1..versionIds : StateOf(v) = Told(trace, v) /\ Told(trace, v) \in States
  BY DEF IInv, Faithful, StateOf, StateFromTrace, Told
<1>4. \A v \in 1..versionIds :
        StateAfter(Told(trace, v), r, v) =
          IF v \in ids THEN Moved(Told(trace, v), "CONTRADICTED") ELSE Told(trace, v)
  BY <1>2, <1>3, NoneIsNoState DEF StateAfter
<1>5. \A v \in 1..versionIds : StateAfter(Told(trace, v), r, v) \in States
  BY <1>3, <1>4, MovedIsState
<1>6. \A v \in DOMAIN states' :
        v \in 1..versionIds /\ states'[v] = StateAfter(Told(trace, v), r, v)
  BY <1>1, <1>3, <1>4 DEF IInv, Faithful
<1> QED
  BY <1>1, <1>2, <1>5, <1>6, OneRecord

-----------------------------------------------------------------------------
(* What is archived.                                                       *)

\* A function from the first numbers is a sequence.
LEMMA FunctionIsSeq ==
  ASSUME NEW S, NEW n \in Nat, NEW f \in [1..n -> S]
  PROVE  f \in Seq(S) /\ Len(f) = n /\ DOMAIN f = 1..n
<1>1. f \in Seq(S)
  BY SeqDef
<1>2. DOMAIN f = 1..n /\ DOMAIN f = 1..Len(f) /\ Len(f) \in Nat
  BY <1>1, LenProperties
<1> QED
  BY <1>1, <1>2

\* A bound splits a sequence in what is archived and what is kept.
LEMMA Split ==
  ASSUME NEW S, NEW s \in Seq(S), NEW limit \in Nat
  PROVE  /\ Oldest(s, limit) \in Seq(S) /\ Len(Oldest(s, limit)) \in Nat
         /\ Newest(s, limit) \in Seq(S) /\ Len(Newest(s, limit)) \in Nat
         /\ \A i \in 1..Len(Oldest(s, limit)) : i + limit \in 1..Len(s) /\ Oldest(s, limit)[i] = s[i]
         /\ \E d \in 0..Len(s) :
              \A i \in 1..Len(Newest(s, limit)) :
                i + d \in 1..Len(s) /\ Newest(s, limit)[i] = s[i + d] /\ d >= Len(Oldest(s, limit))
<1>1. Len(s) \in Nat /\ \A i \in 1..Len(s) : s[i] \in S
  BY LenProperties, ElementOfSeq
<1> DEFINE k == IF Len(s) < limit THEN Len(s) ELSE limit
           d == Len(s) - k
           e == Len(s) - limit
<1>2. k \in Nat /\ d \in 0..Len(s) /\ e \in Int /\ d >= e /\ k + d = Len(s) /\ e + limit = Len(s)
  BY <1>1
<1>3. /\ Oldest(s, limit) = SubSeq(s, 1, e)
      /\ Newest(s, limit) = SubSeq(s, d + 1, Len(s))
  BY <1>1 DEF Oldest, Newest
<1> HIDE DEF k, d, e
<1>4. /\ SubSeq(s, 1, e) \in Seq(S)
      /\ Len(SubSeq(s, 1, e)) = IF 1 <= e THEN e - 1 + 1 ELSE 0
      /\ \A i \in 1..(e - 1 + 1) : SubSeq(s, 1, e)[i] = s[1 + i - 1]
  <2>1. \A i \in 1..e : s[i] \in S
    BY <1>1, <1>2
  <2> QED
    BY <1>2, <2>1, SubSeqProperties
<1>5. /\ SubSeq(s, d + 1, Len(s)) \in Seq(S)
      /\ Len(SubSeq(s, d + 1, Len(s))) = IF d + 1 <= Len(s) THEN Len(s) - (d + 1) + 1 ELSE 0
      /\ \A i \in 1..(Len(s) - (d + 1) + 1) : SubSeq(s, d + 1, Len(s))[i] = s[(d + 1) + i - 1]
  <2>1. \A i \in (d + 1)..Len(s) : s[i] \in S
    BY <1>1, <1>2
  <2>2. d + 1 \in Int /\ Len(s) \in Int
    BY <1>1, <1>2
  <2> QED
    BY <2>1, <2>2, SubSeqProperties
<1> DEFINE old == Oldest(s, limit)
           new == Newest(s, limit)
<1>6. /\ old \in Seq(S) /\ Len(old) = (IF 1 <= e THEN e ELSE 0) /\ Len(old) \in Nat
      /\ \A i \in 1..e : old[i] = s[i]
  BY <1>2, <1>3, <1>4
<1>7. /\ new \in Seq(S) /\ Len(new) = Len(s) - d /\ Len(new) \in Nat
      /\ \A i \in 1..(Len(s) - d) : new[i] = s[i + d]
  BY <1>1, <1>2, <1>3, <1>5
<1> HIDE DEF old, new
<1>8. \A i \in 1..Len(old) : i + limit \in 1..Len(s) /\ old[i] = s[i]
  BY <1>1, <1>2, <1>6
<1>9. \A i \in 1..Len(new) : i + d \in 1..Len(s) /\ new[i] = s[i + d] /\ d >= Len(old)
  BY <1>1, <1>2, <1>6, <1>7
<1> QED
  BY <1>2, <1>6, <1>7, <1>8, <1>9 DEF old, new

\* What names a version or a lineage in the archive.
References == {Reference(kind, x) : kind \in {"MEMORY_VERSION", "MEMORY_LINEAGE"}, x \in Nat}

\* What is archived is a sequence of references.
LEMMA EvictionsAreSeq ==
  ASSUME Indexed, NEW old \in Seq(Nat), NEW lost \in Seq(DOMAIN lineageOwner)
  PROVE  [i \in DOMAIN old |-> Reference("MEMORY_VERSION", old[i])] \o
           Joined([i \in DOMAIN lost |->
             [j \in DOMAIN lineageVersions[lost[i]] |->
                Reference("MEMORY_VERSION", lineageVersions[lost[i]][j])] \o
             <<Reference("MEMORY_LINEAGE", lost[i])>>])
         \in Seq(References)
<1>1. \A s \in Seq(Nat) : [i \in DOMAIN s |-> Reference("MEMORY_VERSION", s[i])] \in Seq(References)
  <2> TAKE s \in Seq(Nat)
  <2>1. Len(s) \in Nat /\ DOMAIN s = 1..Len(s) /\ \A i \in 1..Len(s) : s[i] \in Nat
    BY LenProperties, ElementOfSeq
  <2>2. [i \in DOMAIN s |-> Reference("MEMORY_VERSION", s[i])] \in [1..Len(s) -> References]
    BY <2>1 DEF References
  <2> QED
    BY <2>1, <2>2, FunctionIsSeq
<1>2. /\ Len(lost) \in Nat /\ DOMAIN lost = 1..Len(lost)
      /\ \A i \in 1..Len(lost) : lost[i] \in DOMAIN lineageOwner
  BY LenProperties, ElementOfSeq
<1> DEFINE ss == [i \in DOMAIN lost |->
                   [j \in DOMAIN lineageVersions[lost[i]] |->
                      Reference("MEMORY_VERSION", lineageVersions[lost[i]][j])] \o
                   <<Reference("MEMORY_LINEAGE", lost[i])>>]
<1>3. ASSUME NEW i \in 1..Len(lost)
      PROVE  ss[i] \in Seq(References)
  <2> DEFINE l == lost[i]
             s == lineageVersions[l]
  <2>1. l \in DOMAIN lineageOwner
    BY <1>2
  <2> HIDE DEF l
  <2>2. s \in Seq(Nat) /\ l \in Nat
    BY <2>1 DEF Indexed
  <2>3. [j \in DOMAIN s |-> Reference("MEMORY_VERSION", s[j])] \in Seq(References)
    BY <1>1, <2>2
  <2>4. <<Reference("MEMORY_LINEAGE", l)>> \in Seq(References)
    <3>1. Reference("MEMORY_LINEAGE", l) \in References
      BY <2>2 DEF References
    <3>2. \A x \in References : <<x>> \in Seq(References)
      OBVIOUS
    <3> QED
      BY <3>1, <3>2
  <2>5. [j \in DOMAIN s |-> Reference("MEMORY_VERSION", s[j])] \o <<Reference("MEMORY_LINEAGE", l)>>
          \in Seq(References)
    BY <2>3, <2>4, ConcatProperties
  <2> QED
    BY <1>2, <2>5 DEF l
<1>4. ss = [i \in 1..Len(lost) |-> ss[i]]
  BY <1>2
<1> HIDE DEF ss
<1>5. ss \in [1..Len(lost) -> Seq(References)]
  BY <1>3, <1>4
<1>6. Len(ss) = Len(lost)
  BY <1>2, <1>5, FunctionIsSeq
<1>7. Joined(ss) \in Seq(References)
  BY <1>2, <1>3, <1>6, JoinedIsSeq
<1> QED
  BY <1>1, <1>7, ConcatProperties DEF ss

-----------------------------------------------------------------------------
(* The records of a new version.                                           *)

\* The record of a new version.
Creation(id, version, state) ==
  [kind |-> "MEMORY_VERSION_CREATED", id |-> id, version |-> version, state |-> state]

\* What the record of a new version tells.
LEMMA CreationTells ==
  ASSUME NEW t, NEW last \in Nat, Recorded(t, last), NEW c, Creates(c, last + 1)
  PROVE  /\ Recorded(t \o <<c>>, last + 1)
         /\ Extends(t, t \o <<c>>)
         /\ VersionIn(t \o <<c>>, last + 1) = c.version
         /\ \A v : Told(t \o <<c>>, v) = IF v = last + 1 THEN c.state ELSE Told(t, v)
<1> DEFINE u == <<c>>
           tu == t \o u
<1>1. u \in Seq({c}) /\ Len(u) = 1 /\ u[1] = c /\ 1 \in 1..Len(u)
  OBVIOUS
<1>2. Recorded(tu, last + 1)
  BY OneCreated
<1>3. \A v : Told(tu, v) = IF v = last + 1 THEN c.state ELSE Told(t, v)
  <2>1. t \in Seq(Elements(t))
    BY DEF Recorded
  <2>2. \A v : Told(tu, v) = StateAfter(Told(t, v), c, v)
    BY <2>1, ToldNext
  <2> HIDE DEF tu
  <2> QED
    BY <2>2 DEF StateAfter, Creates
<1> HIDE DEF u
<1>4. /\ Len(t) \in Nat /\ Len(tu) = Len(t) + Len(u)
      /\ \A i \in 1..Len(t) : tu[i] = t[i]
      /\ \A i \in 1..Len(u) : tu[Len(t) + i] = u[i]
  <2>1. t \in Seq(Elements(t))
    BY DEF Recorded
  <2> QED
    BY <1>1, <2>1, Longer
<1> HIDE DEF tu
<1>5. Extends(t, tu)
  BY <1>1, <1>4 DEF Extends
<1>6. PICK k \in 1..Len(tu) : tu[k] = c
  <2>1. Len(t) + 1 \in 1..Len(tu) /\ tu[Len(t) + 1] = c
    BY <1>1, <1>4
  <2> QED
    BY <2>1
<1>7. VersionIn(tu, last + 1) = tu[k].version
  BY <1>2, <1>6, TheCreation
<1> QED
  BY <1>2, <1>3, <1>5, <1>6, <1>7 DEF tu, u

\* Records of what is archived say nothing of a version's state.
LEMMA ToldEvicted ==
  ASSUME NEW t, t \in Seq(Elements(t)), NEW u, Evicting(u), NEW id
  PROVE  Told(t \o u, id) = Told(t, id)
<1>1. u \in Seq(Elements(u)) /\ \A i \in 1..Len(u) : Silent(u[i], id)
  BY DEF Evicting, Silent, StateAfter
<1> QED
  BY <1>1, ToldStill

\* What the records of the parents' end and of what is archived tell.
LEMMA RestTells ==
  ASSUME NEW t1, NEW last \in Nat, Recorded(t1, last), \A v \in 1..last : Told(t1, v) \in States,
         NEW R, NEW rewritten, RewritingOf(R, rewritten), NEW E, Evicting(E)
  PROVE  /\ Recorded(t1 \o R \o E, last)
         /\ Extends(t1, t1 \o R \o E)
         /\ \A v \in 1..last :
              Told(t1 \o R \o E, v) =
                IF v \in Elements(rewritten) THEN Moved(Told(t1, v), "REWRITTEN") ELSE Told(t1, v)
<1> DEFINE t2 == t1 \o R
           t == t2 \o E
<1>1. t1 \in Seq(Elements(t1)) /\ R \in Seq(Elements(R)) /\ E \in Seq(Elements(E))
  BY DEF Recorded, RewritingOf, Evicting
<1>2. Recorded(t2, last)
  <2>1. \A i \in 1..Len(R) : R[i].kind # "MEMORY_VERSION_CREATED"
    BY DEF RewritingOf
  <2> QED
    BY <1>1, <2>1, NothingCreated
<1>3. /\ Len(t1) \in Nat /\ Len(R) \in Nat /\ Len(t2) = Len(t1) + Len(R)
      /\ \A i \in 1..Len(t1) : t2[i] = t1[i]
  BY <1>1, Longer
<1>4. \A v \in 1..last :
        Told(t2, v) = IF v \in Elements(rewritten) THEN Moved(Told(t1, v), "REWRITTEN") ELSE Told(t1, v)
  <2> TAKE v \in 1..last
  <2>1. Told(t1, v) # None
    BY NoneIsNoState
  <2> QED
    BY <1>1, <2>1, ToldRewritten
<1> HIDE DEF t2
<1>5. t2 \in Seq(Elements(t2))
  BY <1>2 DEF Recorded
<1>6. Recorded(t, last)
  <2>1. \A i \in 1..Len(E) : E[i].kind # "MEMORY_VERSION_CREATED"
    BY DEF Evicting
  <2> QED
    BY <1>1, <1>2, <2>1, NothingCreated
<1>7. /\ Len(E) \in Nat /\ Len(t) = Len(t2) + Len(E)
      /\ \A i \in 1..Len(t2) : t[i] = t2[i]
  BY <1>1, <1>5, Longer
<1>8. \A v : Told(t, v) = Told(t2, v)
  BY <1>5, ToldEvicted
<1> HIDE DEF t
<1>9. Extends(t1, t)
  <2> SUFFICES ASSUME NEW i \in 1..Len(t1)
               PROVE  i \in 1..Len(t) /\ t[i] = t1[i]
    BY DEF Extends
  <2>1. i \in 1..Len(t2) /\ i \in 1..Len(t)
    BY <1>3, <1>7
  <2> QED
    BY <1>3, <1>7, <2>1
<1> QED
  BY <1>4, <1>6, <1>8, <1>9 DEF t, t2

\* What maps the first numbers is a sequence.
LEMMA Enumerated ==
  ASSUME NEW f, NEW n \in Nat, f = [i \in 1..n |-> f[i]]
  PROVE  f \in Seq(Elements(f)) /\ Len(f) = n
<1>1. f \in [1..n -> {f[i] : i \in 1..n}]
  OBVIOUS
<1>2. f \in Seq({f[i] : i \in 1..n}) /\ Len(f) = n
  <2> DEFINE S == {f[i] : i \in 1..n}
  <2> HIDE DEF S
  <2>1. f \in [1..n -> S]
    BY <1>1 DEF S
  <2>2. f \in Seq(S) /\ Len(f) = n
    BY <2>1, FunctionIsSeq
  <2> QED
    BY <2>2 DEF S
<1> QED
  BY <1>2, OwnElements

\* The trace with the records of a new version, of the end of those it
\* rewrites and of what is archived.
TraceAfter(version, state, rewritten, refs) ==
  trace \o <<Creation(versionIds + 1, version, state)>> \o
  [i \in DOMAIN rewritten |->
     [kind |-> "MEMORY_VERSION_REWRITTEN", parent |-> rewritten[i], by |-> versionIds + 1]] \o
  [i \in DOMAIN refs |-> Eviction(refs[i])]

\* What a trace tells once a version is added: the version has its state
\* and those that it rewrites are closed.
Tells(t, version, state, rewritten) ==
  /\ Recorded(t, versionIds + 1)
  /\ \A v \in 1..versionIds : VersionIn(t, v) = VersionIn(trace, v)
  /\ VersionIn(t, versionIds + 1) = version
  /\ \A v \in 1..(versionIds + 1) :
       LET s == IF v = versionIds + 1 THEN state ELSE Told(trace, v) IN
       Told(t, v) = IF v \in Elements(rewritten) THEN Moved(s, "REWRITTEN") ELSE s

\* The trace after a version is added tells just that.
LEMMA AddTells ==
  ASSUME Indexed, Recorded(trace, versionIds), Faithful,
         NEW version, NEW state \in States, NEW rewritten \in Seq(Nat),
         \A i, j \in 1..Len(rewritten) : rewritten[i] = rewritten[j] => i = j,
         NEW refs \in Seq(References)
  PROVE  Tells(TraceAfter(version, state, rewritten, refs), version, state, rewritten)
<1> DEFINE id == versionIds + 1
           c == Creation(id, version, state)
           R == [i \in DOMAIN rewritten |->
                   [kind |-> "MEMORY_VERSION_REWRITTEN", parent |-> rewritten[i], by |-> id]]
           E == [i \in DOMAIN refs |-> Eviction(refs[i])]
           t1 == trace \o <<c>>
           t == t1 \o R \o E
<1>1. /\ versionIds \in Nat /\ trace \in Seq(Elements(trace)) /\ Len(trace) \in Nat
      /\ Len(rewritten) \in Nat /\ DOMAIN rewritten = 1..Len(rewritten)
      /\ Len(refs) \in Nat /\ DOMAIN refs = 1..Len(refs)
  BY LenProperties, OwnElements DEF Indexed, Recorded
<1>2. id = versionIds + 1
  OBVIOUS
<1>3. /\ Creates(c, id) /\ c.state = state /\ c.version = version
      /\ c.kind = "MEMORY_VERSION_CREATED" /\ c.id = id
  BY DEF Creation, Creates
<1>4. RewritingOf(R, rewritten)
  <2>1. \A i \in 1..Len(rewritten) : R[i].kind = "MEMORY_VERSION_REWRITTEN" /\ R[i].parent = rewritten[i]
    BY <1>1
  <2>2. R = [i \in 1..Len(rewritten) |-> R[i]]
    BY <1>1
  <2> HIDE DEF R
  <2>3. R \in Seq(Elements(R)) /\ Len(R) = Len(rewritten)
    BY <1>1, <2>2, Enumerated
  <2> QED
    BY <1>1, <2>1, <2>3 DEF RewritingOf
<1>5. Evicting(E)
  <2>1. \A i \in 1..Len(refs) : E[i].kind = "LIVE_INDEX_EVICTED"
    BY <1>1 DEF Eviction
  <2>2. E = [i \in 1..Len(refs) |-> E[i]]
    BY <1>1
  <2> HIDE DEF E
  <2>3. E \in Seq(Elements(E)) /\ Len(E) = Len(refs)
    BY <1>1, <2>2, Enumerated
  <2> QED
    BY <2>1, <2>3 DEF Evicting
<1> HIDE DEF R, E
<1>6. /\ Recorded(t1, id) /\ Extends(trace, t1) /\ VersionIn(t1, id) = version
      /\ \A v : Told(t1, v) = IF v = id THEN state ELSE Told(trace, v)
  <2> HIDE DEF c, id
  <2> QED
    BY <1>1, <1>2, <1>3, CreationTells
<1> HIDE DEF t1, c, id
<1>7. \A v \in 1..id : Told(t1, v) \in States
  <2> TAKE v \in 1..id
  <2>1. v # id => v \in 1..versionIds
    BY <1>1, <1>2
  <2> QED
    BY <1>6, <2>1 DEF Faithful
<1>8. /\ Recorded(t, id) /\ Extends(t1, t)
      /\ \A v \in 1..id :
           Told(t, v) = IF v \in Elements(rewritten) THEN Moved(Told(t1, v), "REWRITTEN") ELSE Told(t1, v)
  <2>1. id \in Nat
    BY <1>1, <1>2
  <2>2. /\ Recorded(t1 \o R \o E, id)
        /\ Extends(t1, t1 \o R \o E)
        /\ \A v \in 1..id :
             Told(t1 \o R \o E, v) =
               IF v \in Elements(rewritten) THEN Moved(Told(t1, v), "REWRITTEN") ELSE Told(t1, v)
    BY <1>4, <1>5, <1>6, <1>7, <2>1, RestTells
  <2> QED
    BY <2>2
<1> HIDE DEF t
<1>9. ASSUME NEW v \in 1..versionIds
      PROVE  VersionIn(t, v) = VersionIn(trace, v)
  <2>1. id \in Nat /\ v \in 1..id
    BY <1>1, <1>2
  <2>2. VersionIn(t1, v) = VersionIn(trace, v)
    BY <1>1, <1>6, <2>1, SameVersion
  <2>3. VersionIn(t, v) = VersionIn(t1, v)
    BY <1>6, <1>8, <2>1, SameVersion
  <2> QED
    BY <2>2, <2>3
<1>10. VersionIn(t, id) = version
  <2>1. id \in Nat /\ id \in 1..id
    BY <1>1, <1>2
  <2>2. VersionIn(t, id) = VersionIn(t1, id)
    BY <1>6, <1>8, <2>1, SameVersion
  <2> QED
    BY <1>6, <2>2
<1>11. Tells(t, version, state, rewritten)
  BY <1>6, <1>8, <1>9, <1>10 DEF Tells, id
<1> QED
  BY <1>11 DEF TraceAfter, t, t1, c, R, E, id

-----------------------------------------------------------------------------
(* Adding a version.                                                       *)

\* Adding a version in any of the three calls that do: the version is the
\* next of its lineage, and its parents are live versions there.
Adding(owner, lineage, isNew, version, state, rewritten) ==
  /\ Add(owner, lineage, isNew, version, state, rewritten)
  /\ isNew \in BOOLEAN /\ state \in States /\ rewritten \in Seq(Nat)
  /\ \A i, j \in 1..Len(rewritten) : rewritten[i] = rewritten[j] => i = j
  /\ \A p \in Elements(rewritten) : p \in 1..versionIds /\ p \in version.parents
  /\ IF isNew THEN lineage = lineageIds + 1 /\ lineageIds' = lineageIds + 1
              ELSE lineage \in DOMAIN lineageOwner /\ lineageIds' = lineageIds
  /\ version.lineage = lineage /\ version.owner = owner
  /\ version.no = IF isNew THEN 1 ELSE NextNumber(lineage)
  /\ \A p \in version.parents : /\ p \in DOMAIN versions /\ versions[p].lineage = lineage
                                /\ versions[p].owner = owner
  /\ isNew => version.parents = {}
  /\ \/ isNew \/ lineageOwner[lineage] = owner \/ version.parents # {}
     \/ "foreign lineage" \in Liberties

\* Adding a version keeps the invariant, whatever it archives.
LEMMA AddKeeps ==
  ASSUME IInv, NEW owner, NEW lineage, NEW isNew, NEW version, NEW state, NEW rewritten,
         Adding(owner, lineage, isNew, version, state, rewritten)
  PROVE  IInv' /\ Tells(trace', version, state, rewritten)
<1> DEFINE id == versionIds + 1
           mine == Append(At(lineageVersions, lineage, <<>>), id)
           old == Oldest(mine, VersionLimit)
           mineNow == Newest(mine, VersionLimit)
           had == At(actorLineages, owner, <<>>)
           known == IF lineage \in DOMAIN lineageOwner THEN At(actorLineages, owner, <<>>)
                    ELSE Append(At(actorLineages, owner, <<>>), lineage)
           lost == Oldest(known, LineageLimit)
           kept == Newest(known, LineageLimit)
           gone == Elements(old) \cup UNION {Elements(lineageVersions[l]) : l \in Elements(lost)}
           evictions ==
             [i \in DOMAIN old |-> Reference("MEMORY_VERSION", old[i])] \o
             Joined([i \in DOMAIN lost |->
               [j \in DOMAIN lineageVersions[lost[i]] |->
                  Reference("MEMORY_VERSION", lineageVersions[lost[i]][j])] \o
               <<Reference("MEMORY_LINEAGE", lost[i])>>])
<1>0. /\ Add(owner, lineage, isNew, version, state, rewritten)
      /\ isNew \in BOOLEAN /\ state \in States /\ rewritten \in Seq(Nat)
      /\ \A i, j \in 1..Len(rewritten) : rewritten[i] = rewritten[j] => i = j
      /\ \A p \in Elements(rewritten) : p \in 1..versionIds
      /\ IF isNew THEN lineage = lineageIds + 1 /\ lineageIds' = lineageIds + 1
                  ELSE lineage \in DOMAIN lineageOwner /\ lineageIds' = lineageIds
  BY DEF Adding
<1>1. /\ versionIds' = id
      /\ versions' = Drop(Put(versions, id, version), gone)
      /\ states' = Drop([v \in DOMAIN states \cup {id} |->
                           IF v = id THEN state
                           ELSE IF v \in Elements(rewritten) THEN Moved(states[v], "REWRITTEN")
                           ELSE states[v]], gone)
      /\ lineageVersions' = Drop(Put(lineageVersions, lineage, mineNow), Elements(lost))
      /\ lineageOwner' = Drop(IF isNew THEN Put(lineageOwner, lineage, owner) ELSE lineageOwner, Elements(lost))
      /\ actorLineages' = Put(actorLineages, owner, kept)
      /\ trace' = trace \o
           <<Creation(id, version, state)>> \o
           [i \in DOMAIN rewritten |->
              [kind |-> "MEMORY_VERSION_REWRITTEN", parent |-> rewritten[i], by |-> id]] \o
           [i \in DOMAIN evictions |-> Eviction(evictions[i])]
  BY <1>0 DEF Add, Creation
<1>2. /\ versionIds \in Nat /\ lineageIds \in Nat /\ id \in Nat
      /\ LineageLimit \in Nat \ {0} /\ VersionLimit \in Nat
  BY LimitsArePositive DEF IInv, Indexed
<1>3. mine \in Seq(Nat)
  <2>1. At(lineageVersions, lineage, <<>>) \in Seq(Nat)
    BY EmptySeq DEF At, IInv, Indexed
  <2> HIDE DEF id
  <2> QED
    BY <1>2, <2>1, AppendProperties
<1>4. old \in Seq(Nat) /\ mineNow \in Seq(Nat)
  <2> HIDE DEF mine
  <2> QED
    BY <1>2, <1>3, Split
<1>5. /\ had \in Seq(DOMAIN lineageOwner) /\ Len(had) \in Nat
      /\ \A i \in 1..Len(had) : had[i] \in DOMAIN lineageOwner /\ lineageOwner[had[i]] = owner
      /\ \A i, j \in 1..Len(had) : had[i] = had[j] => i = j
  <2>1. /\ had \in Seq(DOMAIN lineageOwner)
        /\ \A i \in 1..Len(had) : lineageOwner[had[i]] = owner
        /\ \A i, j \in 1..Len(had) : had[i] = had[j] => i = j
    <3>1. CASE owner \in DOMAIN actorLineages
      BY <3>1 DEF At, IInv, Indexed
    <3>2. CASE owner \notin DOMAIN actorLineages
      <4>1. had = <<>> /\ <<>> \in Seq(DOMAIN lineageOwner) /\ Len(<<>>) = 0
        BY <3>2, EmptySeq DEF At
      <4> HIDE DEF had
      <4> QED
        BY <4>1
    <3> QED
      BY <3>1, <3>2
  <2> HIDE DEF had
  <2> QED
    BY <2>1, LenProperties, ElementOfSeq
<1>6. DOMAIN lineageOwner \subseteq 1..lineageIds /\ DOMAIN lineageVersions = DOMAIN lineageOwner
  BY DEF IInv, Indexed
<1>7. lineage \in DOMAIN lineageOwner <=> ~isNew
  BY <1>0, <1>2, <1>6
<1> DEFINE D == DOMAIN lineageOwner \cup {lineage}
           ownerOf == IF isNew THEN Put(lineageOwner, lineage, owner) ELSE lineageOwner
<1>8. /\ known \in Seq(D) /\ Len(known) \in Nat
      /\ \A i \in 1..Len(known) : known[i] \in D /\ ownerOf[known[i]] = owner
      /\ \A i, j \in 1..Len(known) : known[i] = known[j] => i = j
      /\ \A i \in 1..Len(known) : i < Len(known) => known[i] \in DOMAIN lineageOwner
  <2>1. CASE ~isNew
    <3>1. known = had /\ D = DOMAIN lineageOwner /\ ownerOf = lineageOwner
      BY <1>7, <2>1
    <3> HIDE DEF had, known, D, ownerOf
    <3> QED
      BY <1>5, <3>1
  <2>2. CASE isNew
    <3>1. known = Append(had, lineage) /\ lineage \notin DOMAIN lineageOwner
      BY <1>7, <2>2
    <3>2. had \in Seq(D) /\ lineage \in D
      <4> HIDE DEF had
      <4> QED
        BY <1>5, SeqMonotonic
    <3>3. \A l \in DOMAIN lineageOwner : ownerOf[l] = IF l = lineage THEN owner ELSE lineageOwner[l]
      BY <2>2 DEF Put
    <3>4. ownerOf[lineage] = owner
      BY <2>2 DEF Put
    <3> HIDE DEF had, known, ownerOf
    <3>5. DOMAIN lineageOwner \subseteq D
      OBVIOUS
    <3> HIDE DEF D
    <3>6. /\ known \in Seq(D) /\ Len(known) = Len(had) + 1
          /\ \A i \in 1..Len(had) : known[i] = had[i]
          /\ known[Len(had) + 1] = lineage
      BY <3>1, <3>2, AppendProperties
    <3>7. \A i \in 1..Len(known) :
            \/ i \in 1..Len(had) /\ known[i] = had[i]
            \/ i = Len(known) /\ known[i] = lineage
      BY <1>5, <3>6
    <3>8. \A i \in 1..Len(known) : known[i] \in D /\ ownerOf[known[i]] = owner
      BY <1>5, <3>1, <3>2, <3>3, <3>4, <3>5, <3>7
    <3>9. \A i, j \in 1..Len(known) : known[i] = known[j] => i = j
      BY <1>5, <3>1, <3>7
    <3>10. \A i \in 1..Len(known) : i < Len(known) => known[i] \in DOMAIN lineageOwner
      BY <1>5, <3>6, <3>7
    <3> QED
      BY <1>5, <3>6, <3>8, <3>9, <3>10
  <2> QED
    BY <2>1, <2>2
<1> HIDE DEF known, had, D, ownerOf
<1>9. /\ lost \in Seq(D) /\ Len(lost) \in Nat
      /\ kept \in Seq(D) /\ Len(kept) \in Nat
      /\ \A i \in 1..Len(lost) : i + LineageLimit \in 1..Len(known) /\ lost[i] = known[i]
      /\ \E d \in 0..Len(known) :
           \A i \in 1..Len(kept) : i + d \in 1..Len(known) /\ kept[i] = known[i + d] /\ d >= Len(lost)
  BY <1>2, <1>8, Split
<1> HIDE DEF lost, kept
<1>10. lost \in Seq(DOMAIN lineageOwner) /\ \A i \in 1..Len(lost) : lost[i] \in DOMAIN lineageOwner
  <2>1. \A i \in 1..Len(lost) : lost[i] \in DOMAIN lineageOwner
    <3> TAKE i \in 1..Len(lost)
    <3>1. i \in 1..Len(known) /\ i < Len(known)
      BY <1>2, <1>8, <1>9
    <3> QED
      BY <1>8, <1>9, <3>1
  <2>2. lost = [i \in 1..Len(lost) |-> lost[i]]
    BY <1>9, LenProperties
  <2>3. lost \in [1..Len(lost) -> DOMAIN lineageOwner]
    BY <2>1, <2>2
  <2> QED
    BY <1>9, <2>1, <2>3, FunctionIsSeq
<1>11. evictions \in Seq(References)
  <2> HIDE DEF old
  <2> QED
    BY <1>4, <1>10, EvictionsAreSeq DEF IInv
<1> HIDE DEF mine, old, mineNow
<1>12. Elements(lost) = {lost[i] : i \in 1..Len(lost)}
  <2>1. DOMAIN lost = 1..Len(lost)
    BY <1>9, LenProperties
  <2> QED
    BY <2>1 DEF Elements
<1>13. \A i \in 1..Len(kept) :
         kept[i] \in D /\ kept[i] \notin Elements(lost) /\ ownerOf[kept[i]] = owner
  <2> TAKE i \in 1..Len(kept)
  <2>1. PICK d \in 0..Len(known) :
          \A k \in 1..Len(kept) : k + d \in 1..Len(known) /\ kept[k] = known[k + d] /\ d >= Len(lost)
    BY <1>9
  <2>2. i + d \in 1..Len(known) /\ kept[i] = known[i + d] /\ i + d > Len(lost)
    BY <1>9, <2>1
  <2>3. \A k \in 1..Len(lost) : k \in 1..Len(known) /\ lost[k] = known[k] /\ k # i + d
    BY <1>2, <1>8, <1>9, <2>2
  <2>4. \A k \in 1..Len(lost) : lost[k] # kept[i]
    BY <1>8, <2>2, <2>3
  <2> QED
    BY <1>8, <1>12, <2>2, <2>4
<1>14. \A i, j \in 1..Len(kept) : kept[i] = kept[j] => i = j
  <2> TAKE i, j \in 1..Len(kept)
  <2>1. PICK d \in 0..Len(known) :
          \A k \in 1..Len(kept) : k + d \in 1..Len(known) /\ kept[k] = known[k + d] /\ d >= Len(lost)
    BY <1>9
  <2>2. kept[i] = kept[j] => i + d = j + d
    BY <1>8, <2>1
  <2> QED
    BY <2>2
<1>15. Indexed'
  <2>1. DOMAIN lineageOwner' = D \ Elements(lost) /\ DOMAIN lineageVersions' = D \ Elements(lost)
    BY <1>1, <1>6, <1>7 DEF Drop, Put, D
  <2>2. DOMAIN lineageOwner' \subseteq 1..lineageIds'
    BY <1>0, <1>2, <1>6, <2>1 DEF D
  <2>3. \A l \in DOMAIN lineageOwner' : lineageOwner'[l] = ownerOf[l]
    BY <1>1, <1>7 DEF Drop, Put, ownerOf
  <2>4. \A l \in DOMAIN lineageVersions' : lineageVersions'[l] \in Seq(Nat)
    <3> TAKE l \in DOMAIN lineageVersions'
    <3>1. l = lineage \/ l \in DOMAIN lineageVersions
      BY <1>6, <2>1 DEF D
    <3>2. lineageVersions'[l] = IF l = lineage THEN mineNow ELSE lineageVersions[l]
      BY <1>1, <2>1 DEF Drop, Put
    <3> QED
      BY <1>4, <3>1, <3>2 DEF IInv, Indexed
  <2>5. ASSUME NEW a \in DOMAIN actorLineages'
        PROVE  /\ actorLineages'[a] \in Seq(DOMAIN lineageOwner')
               /\ \A i \in 1..Len(actorLineages'[a]) : lineageOwner'[actorLineages'[a][i]] = a
               /\ \A i, j \in 1..Len(actorLineages'[a]) :
                    actorLineages'[a][i] = actorLineages'[a][j] => i = j
    <3>1. CASE a = owner
      <4>1. actorLineages'[a] = kept
        BY <1>1, <3>1 DEF Put
      <4>2. \A i \in 1..Len(kept) : kept[i] \in DOMAIN lineageOwner' /\ lineageOwner'[kept[i]] = owner
        BY <1>13, <2>1, <2>3
      <4>3. kept = [i \in 1..Len(kept) |-> kept[i]]
        BY <1>9, LenProperties
      <4>4. kept \in [1..Len(kept) -> DOMAIN lineageOwner']
        BY <4>2, <4>3
      <4>5. kept \in Seq(DOMAIN lineageOwner')
        BY <1>9, <4>4, FunctionIsSeq
      <4> QED
        BY <1>14, <3>1, <4>1, <4>2, <4>5
    <3>2. CASE a # owner
      <4> DEFINE s == actorLineages[a]
      <4>1. /\ a \in DOMAIN actorLineages /\ actorLineages'[a] = s
            /\ s \in Seq(DOMAIN lineageOwner)
            /\ \A i \in 1..Len(s) : lineageOwner[s[i]] = a
            /\ \A i, j \in 1..Len(s) : s[i] = s[j] => i = j
        BY <1>1, <3>2 DEF Put, IInv, Indexed
      <4> HIDE DEF s
      <4>2. /\ Len(s) \in Nat /\ s = [i \in 1..Len(s) |-> s[i]]
            /\ \A i \in 1..Len(s) : s[i] \in DOMAIN lineageOwner
        BY <4>1, LenProperties, ElementOfSeq
      <4>3. \A k \in 1..Len(lost) : lineageOwner[lost[k]] = owner
        <5> TAKE k \in 1..Len(lost)
        <5>1. k \in 1..Len(known) /\ lost[k] = known[k] /\ lost[k] \in DOMAIN lineageOwner
          BY <1>2, <1>8, <1>9, <1>10
        <5>2. ownerOf[lost[k]] = owner
          BY <1>8, <5>1
        <5> QED
          BY <1>7, <5>1, <5>2 DEF ownerOf, Put
      <4>4. \A i \in 1..Len(s) : s[i] \in DOMAIN lineageOwner' /\ lineageOwner'[s[i]] = a
        <5> TAKE i \in 1..Len(s)
        <5>1. s[i] \in DOMAIN lineageOwner /\ lineageOwner[s[i]] = a
          BY <4>1, <4>2
        <5>2. s[i] \notin Elements(lost)
          BY <1>12, <3>2, <4>3, <5>1
        <5>3. s[i] \in DOMAIN lineageOwner'
          BY <2>1, <5>1, <5>2 DEF D
        <5>4. ownerOf[s[i]] = lineageOwner[s[i]]
          BY <1>7, <5>1 DEF ownerOf, Put
        <5> QED
          BY <2>3, <5>1, <5>3, <5>4
      <4>5. s \in [1..Len(s) -> DOMAIN lineageOwner']
        BY <4>2, <4>4
      <4>6. s \in Seq(DOMAIN lineageOwner')
        BY <4>2, <4>5, FunctionIsSeq
      <4> QED
        BY <4>1, <4>4, <4>6
    <3> QED
      BY <3>1, <3>2
  <2>6. versionIds' \in Nat /\ lineageIds' \in Nat
    <3>1. versionIds' = id
      BY <1>1
    <3>2. lineageIds' = lineageIds + 1 \/ lineageIds' = lineageIds
      BY <1>0
    <3> HIDE DEF id
    <3> QED
      BY <1>2, <3>1, <3>2
  <2> QED
    BY <2>1, <2>2, <2>4, <2>5, <2>6 DEF Indexed
<1> HIDE DEF evictions, gone
<1>16. /\ Recorded(trace', id)
       /\ \A v \in 1..versionIds : VersionIn(trace', v) = VersionIn(trace, v)
       /\ VersionIn(trace', id) = version
       /\ \A v \in 1..id :
            LET s == IF v = id THEN state ELSE Told(trace, v) IN
            Told(trace', v) = IF v \in Elements(rewritten) THEN Moved(s, "REWRITTEN") ELSE s
  <2> DEFINE t == TraceAfter(version, state, rewritten, evictions)
  <2>1. trace' = t
    BY <1>1 DEF TraceAfter
  <2>2. Indexed /\ Recorded(trace, versionIds) /\ Faithful
    BY DEF IInv
  <2>3. Tells(t, version, state, rewritten)
    BY <1>0, <1>11, <2>2, AddTells
  <2> HIDE DEF t
  <2> QED
    BY <2>1, <2>3 DEF Tells
<1>17. id \notin Elements(rewritten) /\ \A v \in 1..id : v = id \/ v \in 1..versionIds
  BY <1>0, <1>2
<1>18. Faithful'
  <2>1. \A v \in 1..id : Told(trace', v) \in States
    BY <1>0, <1>16, <1>17, MovedIsState DEF IInv, Faithful
  <2>2. \A v \in DOMAIN states' : v \in 1..id /\ states'[v] = Told(trace', v)
    <3> TAKE v \in DOMAIN states'
    <3>1. v = id \/ v \in DOMAIN states
      BY <1>1 DEF Drop
    <3>2. states'[v] = IF v = id THEN state
                       ELSE IF v \in Elements(rewritten) THEN Moved(states[v], "REWRITTEN")
                       ELSE states[v]
      BY <1>1 DEF Drop
    <3>3. v # id => v \in 1..versionIds /\ states[v] = Told(trace, v)
      BY <3>1 DEF IInv, Faithful
    <3>4. v \in 1..id
      BY <1>2, <3>1, <3>3
    <3> QED
      BY <1>16, <1>17, <3>2, <3>3, <3>4
  <2>3. \A v \in DOMAIN versions' : v \in 1..id /\ versions'[v] = VersionIn(trace', v)
    <3> TAKE v \in DOMAIN versions'
    <3>1. v = id \/ v \in DOMAIN versions
      BY <1>1 DEF Drop, Put
    <3>2. versions'[v] = IF v = id THEN version ELSE versions[v]
      BY <1>1 DEF Drop, Put
    <3>3. v # id => v \in 1..versionIds /\ versions[v] = VersionIn(trace, v)
      BY <3>1 DEF IInv, Faithful
    <3>4. v \in 1..id
      BY <1>2, <3>1, <3>3
    <3> QED
      BY <1>16, <3>2, <3>3, <3>4
  <2> QED
    BY <1>1, <2>1, <2>2, <2>3 DEF Faithful
<1>19. Tells(trace', version, state, rewritten)
  BY <1>16 DEF Tells
<1> QED
  BY <1>1, <1>15, <1>16, <1>18, <1>19 DEF IInv

-----------------------------------------------------------------------------
(* Every step.                                                             *)

\* Some call adds a version.
SomeAdding ==
  \E owner, lineage, isNew, version, state, rewritten :
    Adding(owner, lineage, isNew, version, state, rewritten)

\* create_memory in a new lineage.
LEMMA CreateAdds ==
  ASSUME IInv, NEW owner, NEW sources, NEW claim, NEW kind, NEW impression \in Impressions,
         CreateMemory(owner, sources, claim, kind, impression)
  PROVE  SomeAdding
<1>1. PICK lineage, version, state, rewritten :
        /\ lineage = lineageIds + 1
        /\ version = NewVersion(lineageIds + 1, 1, owner, {}, sources, claim, kind)
        /\ state = InitialState(impression) /\ rewritten = <<>>
  OBVIOUS
<1>2. lineageIds' = lineageIds + 1 /\ Add(owner, lineage, TRUE, version, state, rewritten)
  BY <1>1 DEF CreateMemory
<1>3. /\ state \in States /\ rewritten \in Seq(Nat) /\ Len(rewritten) = 0 /\ Elements(rewritten) = {}
      /\ version.lineage = lineage /\ version.owner = owner /\ version.no = 1 /\ version.parents = {}
  BY <1>1, InitialIsState, EmptySeq, EmptyList DEF NewVersion
<1>4. /\ \A i, j \in 1..Len(rewritten) : rewritten[i] = rewritten[j] => i = j
      /\ \A p \in Elements(rewritten) : p \in 1..versionIds /\ p \in version.parents
      /\ \A p \in version.parents : /\ p \in DOMAIN versions /\ versions[p].lineage = lineage
                                    /\ versions[p].owner = owner
  BY <1>3
<1> DEFINE yes == TRUE
<1>5. /\ yes \in BOOLEAN
      /\ IF yes THEN lineage = lineageIds + 1 /\ lineageIds' = lineageIds + 1
                  ELSE lineage \in DOMAIN lineageOwner /\ lineageIds' = lineageIds
      /\ version.no = IF yes THEN 1 ELSE NextNumber(lineage)
      /\ yes => version.parents = {}
      /\ \/ yes \/ lineageOwner[lineage] = owner \/ version.parents # {}
         \/ "foreign lineage" \in Liberties
  BY <1>1, <1>2, <1>3
<1>6. Add(owner, lineage, yes, version, state, rewritten)
  BY <1>2
<1> HIDE DEF yes
<1>7. Adding(owner, lineage, yes, version, state, rewritten)
  BY <1>3, <1>4, <1>5, <1>6, Zenon DEF Adding
<1> QED
  BY <1>7 DEF SomeAdding

\* create_memory in a lineage that exists.
LEMMA ExtendAdds ==
  ASSUME IInv, NEW owner, NEW lineage \in DOMAIN lineageOwner, NEW parents, NEW sources, NEW claim,
         NEW kind, NEW impression \in Impressions,
         ExtendMemory(owner, lineage, parents, sources, claim, kind, impression)
  PROVE  SomeAdding
<1>1. PICK version, state, rewritten :
        /\ version = NewVersion(lineage, NextNumber(lineage), owner, parents, sources, claim, kind)
        /\ state = InitialState(impression) /\ rewritten = <<>>
  OBVIOUS
<1>2. /\ lineageIds' = lineageIds /\ Add(owner, lineage, FALSE, version, state, rewritten)
      /\ "foreign lineage" \in Liberties \/ lineageOwner[lineage] = owner
      /\ \A p \in parents : /\ p \in DOMAIN versions /\ versions[p].lineage = lineage
                            /\ versions[p].owner = owner
  BY <1>1 DEF ExtendMemory, ParentsValid
<1>3. /\ state \in States /\ rewritten \in Seq(Nat) /\ Len(rewritten) = 0 /\ Elements(rewritten) = {}
      /\ version.lineage = lineage /\ version.owner = owner /\ version.no = NextNumber(lineage)
      /\ version.parents = parents
  BY <1>1, InitialIsState, EmptySeq, EmptyList DEF NewVersion
<1>4. /\ \A i, j \in 1..Len(rewritten) : rewritten[i] = rewritten[j] => i = j
      /\ \A p \in Elements(rewritten) : p \in 1..versionIds /\ p \in version.parents
      /\ \A p \in version.parents : /\ p \in DOMAIN versions /\ versions[p].lineage = lineage
                                    /\ versions[p].owner = owner
  <2>1. version.parents = parents /\ Elements(rewritten) = {} /\ 1..Len(rewritten) = {}
    BY <1>3
  <2> QED
    BY <1>2, <2>1, Zenon
<1> DEFINE no == FALSE
<1>5. /\ no \in BOOLEAN
      /\ IF no THEN lineage = lineageIds + 1 /\ lineageIds' = lineageIds + 1
                  ELSE lineage \in DOMAIN lineageOwner /\ lineageIds' = lineageIds
      /\ version.no = IF no THEN 1 ELSE NextNumber(lineage)
      /\ no => version.parents = {}
      /\ \/ no \/ lineageOwner[lineage] = owner \/ version.parents # {}
         \/ "foreign lineage" \in Liberties
  BY <1>2, <1>3
<1>6. Add(owner, lineage, no, version, state, rewritten)
  BY <1>2
<1> HIDE DEF no
<1>7. Adding(owner, lineage, no, version, state, rewritten)
  BY <1>3, <1>4, <1>5, <1>6, Zenon DEF Adding
<1> QED
  BY <1>7 DEF SomeAdding

\* The parents of a rewriting differ.
LEMMA ParentsDiffer ==
  ASSUME NEW lineage, lineageVersions[lineage] \in Seq(Nat), NEW parents \in Parentage(lineage)
  PROVE  /\ parents \in Seq(Nat)
         /\ \A i, j \in 1..Len(parents) : parents[i] = parents[j] => i = j
<1> DEFINE live == Elements(lineageVersions[lineage])
<1>1. live \subseteq Nat
  <2>1. /\ DOMAIN lineageVersions[lineage] = 1..Len(lineageVersions[lineage])
        /\ \A i \in 1..Len(lineageVersions[lineage]) : lineageVersions[lineage][i] \in Nat
    BY LenProperties, ElementOfSeq
  <2> QED
    BY <2>1 DEF Elements
<1> HIDE DEF live
<1>2. CASE \E p \in live : parents = <<p>>
  BY <1>1, <1>2
<1>3. CASE \E p \in live, q \in live : p # q /\ parents = <<p, q>>
  BY <1>1, <1>3
<1>4. (\E p \in live : parents = <<p>>) \/ (\E p \in live, q \in live : p # q /\ parents = <<p, q>>)
  BY DEF Parentage, live
<1> QED
  BY <1>2, <1>3, <1>4

\* rewrite_memory, of one parent or of two.
LEMMA RewriteAdds ==
  ASSUME IInv, NEW lineage \in DOMAIN lineageOwner, NEW parents \in Parentage(lineage), NEW sources,
         NEW claim, NEW kind, NEW impression \in Impressions, NEW worldAck,
         RewriteMemory(lineage, parents, sources, claim, kind, impression, worldAck)
  PROVE  SomeAdding
<1>1. PICK owner, version, state :
        /\ owner = versions[Head(parents)].owner
        /\ version = NewVersion(lineage, NextNumber(lineage), owner, Elements(parents), sources, claim, kind)
        /\ state = InitialState(impression)
  OBVIOUS
<1>2. /\ lineageIds' = lineageIds /\ Add(owner, lineage, FALSE, version, state, parents)
      /\ \A p \in Elements(parents) : /\ p \in DOMAIN versions /\ versions[p].lineage = lineage
                                      /\ versions[p].owner = owner
      /\ parents # <<>>
  BY <1>1 DEF RewriteMemory, ParentsValid
<1>3. \A p \in Elements(parents) : p \in 1..versionIds
  BY <1>2 DEF IInv, Faithful
<1>4. lineageVersions[lineage] \in Seq(Nat)
  BY DEF IInv, Indexed
<1>5. /\ parents \in Seq(Nat) /\ state \in States
      /\ \A i, j \in 1..Len(parents) : parents[i] = parents[j] => i = j
  BY <1>1, <1>4, ParentsDiffer, InitialIsState
<1>6. Elements(parents) # {}
  <2>1. DOMAIN parents # {}
    BY <1>2, <1>5
  <2> QED
    BY <2>1 DEF Elements
<1>7. /\ version.lineage = lineage /\ version.owner = owner /\ version.no = NextNumber(lineage)
      /\ version.parents = Elements(parents)
  BY <1>1 DEF NewVersion
<1>8. Adding(owner, lineage, FALSE, version, state, parents)
  BY <1>2, <1>3, <1>5, <1>6, <1>7 DEF Adding
<1> QED
  BY <1>8 DEF SomeAdding

\* The empty kernel.
LEMMA InitHolds == Init => IInv
<1> SUFFICES ASSUME Init
             PROVE  IInv
  OBVIOUS
<1>1. /\ trace = <<>> /\ versionIds = 0 /\ lineageIds = 0
      /\ versions = <<>> /\ states = <<>>
      /\ lineageVersions = <<>> /\ lineageOwner = <<>> /\ actorLineages = <<>>
  BY DEF Init, OccurrencesInit
<1>2. DOMAIN (<<>>) = {} /\ Len(<<>>) = 0 /\ \A S : <<>> \in Seq(S)
  BY EmptySeq
<1>3. Indexed
  BY <1>1, <1>2 DEF Indexed
<1>4. Recorded(trace, versionIds)
  BY <1>1, <1>2 DEF Recorded
<1>5. Faithful
  BY <1>1, <1>2 DEF Faithful
<1> QED
  BY <1>3, <1>4, <1>5 DEF IInv

\* No step leaves the invariant.
LEMMA NextKeeps == IInv /\ [Next]_vars => IInv'
<1> SUFFICES ASSUME IInv, [Next]_vars
             PROVE  IInv'
  OBVIOUS
<1>1. CASE Occur
  BY <1>1, OccurKeeps
<1>2. ASSUME NEW owner \in Actors, NEW sources \in Sources, NEW claim \in Claims,
             NEW kind \in SourceKinds, NEW impression \in Impressions,
             \/ CreateMemory(owner, sources, claim, kind, impression)
             \/ \E lineage \in DOMAIN lineageOwner :
                  \E parents \in SUBSET Elements(lineageVersions[lineage]) :
                    ExtendMemory(owner, lineage, parents, sources, claim, kind, impression)
      PROVE  IInv'
  BY <1>2, CreateAdds, ExtendAdds, AddKeeps DEF SomeAdding
<1>3. ASSUME NEW lineage \in DOMAIN lineageOwner, NEW sources \in Sources, NEW claim \in Claims,
             NEW kind \in SourceKinds, NEW impression \in Impressions, NEW worldAck \in BOOLEAN,
             NEW parents \in Parentage(lineage),
             RewriteMemory(lineage, parents, sources, claim, kind, impression, worldAck)
      PROVE  IInv'
  BY <1>3, RewriteAdds, AddKeeps DEF SomeAdding
<1>4. ASSUME NEW id \in DOMAIN states, NEW mode \in Modes, NEW change \in Changes,
             TransitionMemory(id, mode, change)
      PROVE  IInv'
  BY <1>4, TransitionKeeps
<1>5. ASSUME NEW ids \in SUBSET Created, NEW anchor \in ids, RegisterContradiction(ids, anchor)
      PROVE  IInv'
  BY <1>5, ContradictionKeeps
<1>6. ASSUME NEW id \in Created, QueryMemory(id)
      PROVE  IInv'
  <2>1. trace' = trace /\ UNCHANGED <<idVars, indexVars>>
    BY <1>6 DEF QueryMemory
  <2> QED
    BY <2>1, Undisturbed
<1>7. CASE SaveAndLoad
  <2>1. trace' = trace /\ UNCHANGED <<idVars, indexVars>>
    BY <1>7 DEF SaveAndLoad
  <2> QED
    BY <2>1, Undisturbed
<1>8. CASE UNCHANGED vars
  <2>1. trace' = trace /\ UNCHANGED <<idVars, indexVars>>
    BY <1>8 DEF vars
  <2> QED
    BY <2>1, Undisturbed
<1> QED
  BY <1>1, <1>2, <1>3, <1>4, <1>5, <1>6, <1>7, <1>8 DEF Next

-----------------------------------------------------------------------------
(* Where versions are.                                                     *)

\* Every live version is in the list of its lineage, which goes upwards and
\* keeps to its bound, and every lineage in the list of its owner.
Placed ==
  /\ \A l \in DOMAIN lineageVersions :
       /\ Len(lineageVersions[l]) \in 1..VersionLimit /\ Increasing(lineageVersions[l])
       /\ \A v \in Elements(lineageVersions[l]) : v \in DOMAIN versions /\ versions[v].lineage = l
  /\ \A v \in DOMAIN versions :
       /\ versions[v].lineage \in DOMAIN lineageVersions
       /\ v \in Elements(lineageVersions[versions[v].lineage])
  /\ \A a \in DOMAIN actorLineages : Len(actorLineages[a]) <= LineageLimit
  /\ \A l \in DOMAIN lineageOwner :
       /\ lineageOwner[l] \in DOMAIN actorLineages
       /\ l \in Elements(actorLineages[lineageOwner[l]])

\* The live versions of a lineage.
Live(lineage) == Elements(At(lineageVersions, lineage, <<>>))

\* What adding a version does to the indexes: of the lineage's versions some
\* go and the young ones stay, of the owner's lineages some are lost and the
\* others kept.
Outcome(owner, lineage, isNew, version, rewritten, old, young, lost, kept, gone) ==
  /\ versionIds' = versionIds + 1
  /\ IsList(young) /\ Len(young) \in 1..VersionLimit /\ Increasing(young)
  /\ Elements(young) = (Live(lineage) \cup {versionIds + 1}) \ old
  /\ old \subseteq Live(lineage) /\ versionIds + 1 \notin old
  /\ \A x \in old, y \in Elements(young) : x < y
  /\ lost \subseteq DOMAIN lineageOwner \ {lineage}
  /\ IsList(kept) /\ Len(kept) <= LineageLimit
  /\ Elements(kept) =
       (Elements(At(actorLineages, owner, <<>>)) \cup (IF isNew THEN {lineage} ELSE {})) \ lost
  /\ gone = old \cup UNION {Elements(lineageVersions[l]) : l \in lost}
  /\ versions' = Drop(Put(versions, versionIds + 1, version), gone)
  /\ DOMAIN states' = (DOMAIN states \cup {versionIds + 1}) \ gone
  /\ lineageVersions' = Drop(Put(lineageVersions, lineage, young), lost)
  /\ lineageOwner' = Drop(IF isNew THEN Put(lineageOwner, lineage, owner) ELSE lineageOwner, lost)
  /\ actorLineages' = Put(actorLineages, owner, kept)
  /\ beliefs' = [a \in Actors |-> NotOf(beliefs[a], gone \cup Elements(rewritten))]

\* A lineage's list with one more version, cut.
LEMMA Lined ==
  ASSUME IInv, Placed, NEW lineage, NEW mine,
         mine = Append(At(lineageVersions, lineage, <<>>), versionIds + 1)
  PROVE  LET old == Oldest(mine, VersionLimit)
             young == Newest(mine, VersionLimit)
         IN  /\ IsList(young) /\ Len(young) \in 1..VersionLimit /\ Increasing(young)
             /\ Elements(young) = (Live(lineage) \cup {versionIds + 1}) \ Elements(old)
             /\ Elements(old) \subseteq Live(lineage) /\ versionIds + 1 \notin Elements(old)
             /\ \A x \in Elements(old), y \in Elements(young) : x < y
<1> DEFINE had == At(lineageVersions, lineage, <<>>)
           n == Len(had)
           id == versionIds + 1
           old == Oldest(mine, VersionLimit)
           young == Newest(mine, VersionLimit)
<1>1. /\ IsList(had) /\ Increasing(had) /\ \A v \in Elements(had) : v \in 1..versionIds
  <2>1. CASE lineage \in DOMAIN lineageVersions
    <3>1. had = lineageVersions[lineage]
      BY <2>1 DEF At
    <3> HIDE DEF had
    <3>2. had \in Seq(Nat) /\ Increasing(had) /\ \A v \in Elements(had) : v \in DOMAIN versions
      BY <2>1, <3>1 DEF Placed, IInv, Indexed
    <3> QED
      BY <3>2, ListFacts DEF IInv, Faithful
  <2>2. CASE lineage \notin DOMAIN lineageVersions
    <3>1. had = <<>> /\ Len(<<>>) = 0
      BY <2>2 DEF At
    <3> HIDE DEF had
    <3> QED
      BY <3>1, EmptyList DEF Increasing
  <2> QED
    BY <2>1, <2>2
<1> HIDE DEF had
<1>2. versionIds \in Nat /\ VersionLimit \in Nat /\ VersionLimit >= 1
  BY LimitsArePositive DEF IInv, Indexed
<1>3. /\ n \in Nat /\ IsList(mine) /\ Len(mine) = n + 1 /\ mine[n + 1] = id
      /\ \A i \in 1..n : mine[i] = had[i]
      /\ Elements(mine) = Elements(had) \cup {id}
  BY <1>1, Appended, AppendedEntries DEF had
<1>4. \A i \in 1..n : had[i] \in 1..versionIds
  BY <1>1, ListFacts DEF IsList
<1> HIDE DEF n
<1>5. Increasing(mine)
  <2> SUFFICES ASSUME NEW i \in 1..Len(mine), NEW j \in 1..Len(mine), i < j
               PROVE  mine[i] < mine[j]
    BY DEF Increasing
  <2>1. i \in 1..n /\ (j \in 1..n \/ j = n + 1)
    BY <1>3
  <2>2. CASE j \in 1..n
    BY <1>1, <1>3, <2>1, <2>2 DEF Increasing, n
  <2>3. CASE j = n + 1
    <3>1. mine[i] \in 1..versionIds /\ mine[j] = versionIds + 1
      BY <1>3, <1>4, <2>1, <2>3
    <3> QED
      BY <1>2, <3>1
  <2> QED
    BY <2>1, <2>2, <2>3
<1>6. Halved(mine, VersionLimit, old, young)
  BY <1>2, <1>3, Halves
<1> HIDE DEF old, young
<1>7. /\ Elements(mine) = Elements(old) \cup Elements(young)
      /\ Increasing(young)
      /\ \A x \in Elements(old), y \in Elements(young) : x < y
  BY <1>3, <1>5, <1>6, Parted
<1>8. /\ IsList(young) /\ Len(young) \in 1..VersionLimit /\ Len(old) \in Nat
      /\ young[Len(young)] = id /\ Len(young) \in 1..Len(young)
  <2>1. /\ IsList(young) /\ Len(old) \in Nat /\ Len(young) \in Nat /\ Len(mine) = Len(old) + Len(young)
        /\ Len(young) = IF Len(mine) < VersionLimit THEN Len(mine) ELSE VersionLimit
        /\ \A i \in 1..Len(young) : young[i] = mine[i + Len(old)]
    BY <1>6 DEF Halved
  <2>2. Len(young) \in 1..VersionLimit /\ Len(young) \in 1..Len(young) /\ Len(young) + Len(old) = n + 1
    BY <1>2, <1>3, <2>1
  <2> QED
    BY <1>3, <2>1, <2>2
<1>9. id \in Elements(young)
  BY <1>8, ListFacts DEF IsList
<1>10. id \notin Elements(old)
  <2>1. ~ (id < id)
    BY <1>2
  <2> QED
    BY <1>7, <1>9, <2>1
<1>11. Elements(old) \cap Elements(young) = {}
  <2>1. \A x \in Elements(mine) : x \in Nat
    BY <1>1, <1>2, <1>3
  <2>2. \A x \in Nat : ~ (x < x)
    OBVIOUS
  <2> QED
    BY <1>7, <2>1, <2>2
<1>12. Elements(had) = Live(lineage)
  BY DEF Live, had
<1> QED
  BY <1>3, <1>7, <1>8, <1>10, <1>11, <1>12 DEF old, young, id

\* An owner's lineages, with one that may be new.
KnownTo(owner, lineage) ==
  IF lineage \in DOMAIN lineageOwner THEN At(actorLineages, owner, <<>>)
  ELSE Append(At(actorLineages, owner, <<>>), lineage)

\* An owner's list of lineages, cut.
LEMMA Owning ==
  ASSUME IInv, Placed, NEW owner, NEW lineage
  PROVE  LET known == KnownTo(owner, lineage)
             lost == Oldest(known, LineageLimit)
             kept == Newest(known, LineageLimit)
         IN  /\ Elements(lost) \subseteq DOMAIN lineageOwner \ {lineage}
             /\ IsList(kept) /\ Len(kept) <= LineageLimit
             /\ Elements(kept) =
                  (Elements(At(actorLineages, owner, <<>>))
                     \cup (IF lineage \in DOMAIN lineageOwner THEN {} ELSE {lineage}))
                    \ Elements(lost)
<1> DEFINE had == At(actorLineages, owner, <<>>)
           known == KnownTo(owner, lineage)
           n == Len(had)
           lost == Oldest(known, LineageLimit)
           kept == Newest(known, LineageLimit)
<1>1. /\ IsList(had) /\ Distinct(had) /\ n <= LineageLimit
      /\ Elements(had) \subseteq DOMAIN lineageOwner
  <2>1. CASE owner \in DOMAIN actorLineages
    <3>1. had = actorLineages[owner]
      BY <2>1 DEF At
    <3> HIDE DEF had
    <3>2. had \in Seq(DOMAIN lineageOwner) /\ Distinct(had) /\ Len(had) <= LineageLimit
      BY <2>1, <3>1 DEF Placed, IInv, Indexed, Distinct
    <3> QED
      BY <3>2, ListFacts
  <2>2. CASE owner \notin DOMAIN actorLineages
    <3>1. had = <<>> /\ Len(<<>>) = 0 /\ LineageLimit \in Nat
      BY <2>2, LimitsArePositive DEF At
    <3> HIDE DEF had
    <3> QED
      BY <3>1, EmptyList DEF Distinct
  <2> QED
    BY <2>1, <2>2
<1>2. LineageLimit \in Nat /\ LineageLimit >= 1
  BY LimitsArePositive
<1>3. known = IF lineage \in DOMAIN lineageOwner THEN had ELSE Append(had, lineage)
  BY DEF KnownTo
<1> HIDE DEF had, known
<1>4. n \in Nat
  BY <1>1, ListFacts DEF IsList
<1>5. CASE lineage \in DOMAIN lineageOwner
  <2>1. known = had
    BY <1>3, <1>5
  <2>2. Halved(had, LineageLimit, lost, kept)
    BY <1>1, <1>2, <2>1, Halves
  <2> HIDE DEF lost, kept
  <2>3. Elements(had) = Elements(lost) \cup Elements(kept)
    BY <1>1, <1>2, <2>2, Parted
  <2>4. Len(lost) = 0 /\ Len(kept) <= LineageLimit /\ IsList(kept) /\ IsList(lost)
    <3>1. /\ Len(lost) \in Nat /\ Len(kept) \in Nat /\ n = Len(lost) + Len(kept)
          /\ Len(kept) = IF n < LineageLimit THEN n ELSE LineageLimit
          /\ IsList(kept) /\ IsList(lost)
      BY <2>2 DEF Halved
    <3> HIDE DEF n
    <3> QED
      BY <1>1, <1>2, <1>4, <3>1
  <2>5. Elements(lost) = {}
    <3>1. \A x \in Elements(lost) : \E i \in 1..Len(lost) : x = lost[i]
      BY <2>4, ListFacts DEF IsList
    <3> QED
      BY <2>4, <3>1
  <2> QED
    BY <1>5, <2>3, <2>4, <2>5 DEF had, lost, kept, known
<1>6. CASE lineage \notin DOMAIN lineageOwner
  <2>1. known = Append(had, lineage) /\ lineage \notin Elements(had)
    BY <1>1, <1>3, <1>6
  <2>2. /\ IsList(known) /\ Len(known) = n + 1 /\ known[n + 1] = lineage
        /\ \A i \in 1..n : known[i] = had[i]
        /\ Elements(known) = Elements(had) \cup {lineage}
    <3> DEFINE more == Append(had, lineage)
    <3>1. IsList(more) /\ Elements(more) = Elements(had) \cup {lineage}
      BY <1>1, Appended
    <3>2. Len(more) = n + 1 /\ more[n + 1] = lineage /\ \A i \in 1..n : more[i] = had[i]
      BY <1>1, AppendedEntries
    <3>3. known = more
      BY <2>1
    <3> HIDE DEF more
    <3> QED
      BY <3>1, <3>2, <3>3
  <2>3. \A i \in 1..n : had[i] \in Elements(had)
    BY <1>1, ListFacts DEF IsList
  <2> HIDE DEF n
  <2>4. Distinct(known)
    <3> SUFFICES ASSUME NEW i \in 1..Len(known), NEW j \in 1..Len(known), known[i] = known[j]
                 PROVE  i = j
      BY DEF Distinct
    <3>1. (i \in 1..n \/ i = n + 1) /\ (j \in 1..n \/ j = n + 1)
      BY <1>4, <2>2
    <3>2. CASE i \in 1..n /\ j \in 1..n
      BY <1>1, <2>2, <3>2 DEF Distinct, n
    <3>3. CASE i = n + 1 /\ j \in 1..n
      BY <2>1, <2>2, <2>3, <3>3
    <3>4. CASE j = n + 1 /\ i \in 1..n
      BY <2>1, <2>2, <2>3, <3>4
    <3> QED
      BY <3>1, <3>2, <3>3, <3>4
  <2>5. Halved(known, LineageLimit, lost, kept)
    BY <1>2, <2>2, Halves
  <2> HIDE DEF lost, kept
  <2>6. Elements(known) = Elements(lost) \cup Elements(kept) /\ Elements(lost) \cap Elements(kept) = {}
    BY <1>2, <2>2, <2>4, <2>5, Parted
  <2>7. /\ IsList(kept) /\ Len(kept) <= LineageLimit /\ kept[Len(kept)] = lineage
        /\ Len(kept) \in 1..Len(kept)
    <3>1. /\ Len(lost) \in Nat /\ Len(kept) \in Nat /\ n + 1 = Len(lost) + Len(kept)
          /\ Len(kept) = IF n + 1 < LineageLimit THEN n + 1 ELSE LineageLimit
          /\ IsList(kept)
          /\ \A i \in 1..Len(kept) : kept[i] = known[i + Len(lost)]
      BY <2>2, <2>5 DEF Halved
    <3>2. Len(kept) \in 1..Len(kept) /\ Len(kept) + Len(lost) = n + 1 /\ Len(kept) <= LineageLimit
      BY <1>2, <1>4, <3>1
    <3> QED
      BY <2>2, <3>1, <3>2
  <2>8. lineage \in Elements(kept)
    BY <2>7, ListFacts DEF IsList
  <2>9. /\ Elements(lost) \subseteq DOMAIN lineageOwner \ {lineage}
        /\ Elements(kept) = (Elements(had) \cup {lineage}) \ Elements(lost)
    BY <1>1, <2>2, <2>6, <2>8
  <2> QED
    BY <1>6, <2>7, <2>9 DEF had, lost, kept, known
<1> QED
  BY <1>5, <1>6

\* What adding a version does.
LEMMA AddOutcome ==
  ASSUME IInv, Placed, NEW owner, NEW lineage, NEW isNew, NEW version, NEW state, NEW rewritten,
         Adding(owner, lineage, isNew, version, state, rewritten)
  PROVE  \E old, young, lost, kept, gone :
           Outcome(owner, lineage, isNew, version, rewritten, old, young, lost, kept, gone)
<1> DEFINE mine == Append(At(lineageVersions, lineage, <<>>), versionIds + 1)
           old == Oldest(mine, VersionLimit)
           young == Newest(mine, VersionLimit)
           known == IF lineage \in DOMAIN lineageOwner THEN At(actorLineages, owner, <<>>)
                    ELSE Append(At(actorLineages, owner, <<>>), lineage)
           lost == Oldest(known, LineageLimit)
           kept == Newest(known, LineageLimit)
           gone == Elements(old) \cup UNION {Elements(lineageVersions[l]) : l \in Elements(lost)}
<1>1. /\ versionIds' = versionIds + 1
      /\ versions' = Drop(Put(versions, versionIds + 1, version), gone)
      /\ states' = Drop([v \in DOMAIN states \cup {versionIds + 1} |->
                           IF v = versionIds + 1 THEN state
                           ELSE IF v \in Elements(rewritten) THEN Moved(states[v], "REWRITTEN")
                           ELSE states[v]], gone)
      /\ lineageVersions' = Drop(Put(lineageVersions, lineage, young), Elements(lost))
      /\ lineageOwner' =
           Drop(IF isNew THEN Put(lineageOwner, lineage, owner) ELSE lineageOwner, Elements(lost))
      /\ actorLineages' = Put(actorLineages, owner, kept)
      /\ beliefs' = [a \in Actors |-> NotOf(beliefs[a], gone \cup Elements(rewritten))]
  <2>1. Add(owner, lineage, isNew, version, state, rewritten)
    BY DEF Adding
  <2> QED
    BY <2>1 DEF Add
<1>2. isNew \in BOOLEAN /\ (lineage \in DOMAIN lineageOwner <=> ~isNew)
  <2>1. lineageIds \in Nat /\ DOMAIN lineageOwner \subseteq 1..lineageIds
    BY DEF IInv, Indexed
  <2>2. lineageIds + 1 \notin DOMAIN lineageOwner
    BY <2>1
  <2>3. isNew \in BOOLEAN
    BY DEF Adding
  <2>4. CASE isNew
    <3>1. lineage = lineageIds + 1
      BY <2>4 DEF Adding
    <3> QED
      BY <2>2, <2>4, <3>1
  <2>5. CASE ~isNew
    <3>1. lineage \in DOMAIN lineageOwner
      BY <2>5 DEF Adding
    <3> QED
      BY <2>3, <2>5, <3>1
  <2> QED
    BY <2>4, <2>5
<1>3. /\ IsList(young) /\ Len(young) \in 1..VersionLimit /\ Increasing(young)
      /\ Elements(young) = (Live(lineage) \cup {versionIds + 1}) \ Elements(old)
      /\ Elements(old) \subseteq Live(lineage) /\ versionIds + 1 \notin Elements(old)
      /\ \A x \in Elements(old), y \in Elements(young) : x < y
  BY Lined
<1> HIDE DEF old, young, mine
<1>4. /\ Elements(lost) \subseteq DOMAIN lineageOwner \ {lineage}
      /\ IsList(kept) /\ Len(kept) <= LineageLimit
      /\ Elements(kept) =
           (Elements(At(actorLineages, owner, <<>>)) \cup (IF isNew THEN {lineage} ELSE {}))
             \ Elements(lost)
  <2>1. known = KnownTo(owner, lineage)
    BY DEF KnownTo
  <2> HIDE DEF known
  <2>2. /\ Elements(lost) \subseteq DOMAIN lineageOwner \ {lineage}
        /\ IsList(kept) /\ Len(kept) <= LineageLimit
        /\ Elements(kept) =
             (Elements(At(actorLineages, owner, <<>>))
                \cup (IF lineage \in DOMAIN lineageOwner THEN {} ELSE {lineage})) \ Elements(lost)
    BY <2>1, Owning DEF lost, kept
  <2>3. (IF lineage \in DOMAIN lineageOwner THEN {} ELSE {lineage}) = IF isNew THEN {lineage} ELSE {}
    BY <1>2
  <2> HIDE DEF lost, kept
  <2> QED
    BY <2>2, <2>3
<1> HIDE DEF known, lost, kept
<1>5. gone = Elements(old) \cup UNION {Elements(lineageVersions[l]) : l \in Elements(lost)}
  OBVIOUS
<1> HIDE DEF gone
<1>6. DOMAIN states' = (DOMAIN states \cup {versionIds + 1}) \ gone
  BY <1>1 DEF Drop
<1>7. Outcome(owner, lineage, isNew, version, rewritten, Elements(old), young, Elements(lost), kept, gone)
  BY <1>1, <1>3, <1>4, <1>5, <1>6 DEF Outcome
<1> QED
  BY <1>7

\* Nothing but a new version moves the indexes of versions: every other step
\* leaves them, and the history it goes on with.
Steady ==
  /\ UNCHANGED <<versionIds, lineageIds, versions, lineageVersions, lineageOwner, actorLineages>>
  /\ trace' = trace \/ \E r : trace' = Append(trace, r)
  /\ DOMAIN states \subseteq DOMAIN states'
  /\ "archived" \in Liberties \/ DOMAIN states' \subseteq DOMAIN states \cup DOMAIN versions

\* The steps that create nothing.
Transitioning == \E id \in DOMAIN states, mode \in Modes, change \in Changes : TransitionMemory(id, mode, change)
Contradicting == \E ids \in SUBSET Created : \E anchor \in ids : RegisterContradiction(ids, anchor)
Querying == \E id \in Created : QueryMemory(id)
Other == Occur \/ Transitioning \/ Contradicting \/ Querying \/ SaveAndLoad \/ UNCHANGED vars

\* Every step creates a version or is one of those.
LEMMA StepKinds ==
  ASSUME IInv, [Next]_vars
  PROVE  SomeAdding \/ Other
<1>1. ASSUME NEW owner \in Actors, NEW sources \in Sources, NEW claim \in Claims,
             NEW kind \in SourceKinds, NEW impression \in Impressions,
             \/ CreateMemory(owner, sources, claim, kind, impression)
             \/ \E lineage \in DOMAIN lineageOwner :
                  \E parents \in SUBSET Elements(lineageVersions[lineage]) :
                    ExtendMemory(owner, lineage, parents, sources, claim, kind, impression)
      PROVE  SomeAdding
  BY <1>1, CreateAdds, ExtendAdds
<1>2. ASSUME NEW lineage \in DOMAIN lineageOwner, NEW sources \in Sources, NEW claim \in Claims,
             NEW kind \in SourceKinds, NEW impression \in Impressions, NEW worldAck \in BOOLEAN,
             NEW parents \in Parentage(lineage),
             RewriteMemory(lineage, parents, sources, claim, kind, impression, worldAck)
      PROVE  SomeAdding
  BY <1>2, RewriteAdds
<1> QED
  BY <1>1, <1>2 DEF Next, Other, Transitioning, Contradicting, Querying

\* Those leave the indexes of versions.
LEMMA OthersAreSteady ==
  ASSUME Other
  PROVE  Steady
<1>1. ASSUME trace' = trace, UNCHANGED <<idVars, indexVars>>
      PROVE  Steady
  BY <1>1 DEF Steady, idVars, indexVars
<1>2. CASE Occur
  <2>1. UNCHANGED <<idVars, indexVars>> /\ OccurrencesNext
    BY <1>2 DEF Occur
  <2>2. trace' = trace \/ \E r : trace' = Append(trace, r)
    BY <2>1 DEF OccurrencesNext, CommitEvent, RecordObservation
  <2> QED
    BY <2>1, <2>2 DEF Steady, idVars, indexVars
<1>3. CASE Transitioning
  <2>1. /\ UNCHANGED <<versionIds, lineageIds, versions, lineageVersions, lineageOwner, actorLineages>>
        /\ \E r : trace' = Append(trace, r)
        /\ DOMAIN states' = DOMAIN states
    BY <1>3 DEF Transitioning, TransitionMemory
  <2> QED
    BY <2>1 DEF Steady
<1>4. CASE Contradicting
  <2>1. /\ UNCHANGED <<versionIds, lineageIds, versions, lineageVersions, lineageOwner, actorLineages>>
        /\ \E r : trace' = Append(trace, r)
        /\ \E ids : /\ DOMAIN states' = DOMAIN states \cup ids
                    /\ "archived" \in Liberties \/ ids \subseteq DOMAIN versions
    BY <1>4 DEF Contradicting, RegisterContradiction, idVars
  <2> QED
    BY <2>1 DEF Steady
<1>5. CASE Querying \/ SaveAndLoad \/ UNCHANGED vars
  <2>1. trace' = trace /\ UNCHANGED <<idVars, indexVars>>
    BY <1>5 DEF Querying, QueryMemory, SaveAndLoad, vars
  <2> QED
    BY <1>1, <2>1
<1> QED
  BY <1>2, <1>3, <1>4, <1>5 DEF Other

\* The history goes on telling the same of the versions that there are.
LEMMA SteadyTells ==
  ASSUME IInv, IInv', Steady
  PROVE  \A v \in 1..versionIds : VersionIn(trace', v) = VersionIn(trace, v)
<1>1. CASE trace' = trace
  BY <1>1
<1>2. ASSUME NEW r, trace' = Append(trace, r)
      PROVE  \A v \in 1..versionIds : VersionIn(trace', v) = VersionIn(trace, v)
  <2>1. /\ versionIds \in Nat /\ Recorded(trace, versionIds) /\ Recorded(trace', versionIds)
        /\ IsList(trace)
    BY DEF IInv, Indexed, Steady, Recorded, IsList
  <2>2. Extends(trace, trace')
    <3>1. /\ Len(trace) \in Nat /\ Len(trace') = Len(trace) + 1
          /\ \A i \in 1..Len(trace) : trace'[i] = trace[i]
      BY <1>2, <2>1, AppendedEntries
    <3> QED
      BY <3>1 DEF Extends
  <2> QED
    BY <2>1, <2>2, SameVersion
<1> QED
  BY <1>1, <1>2 DEF Steady

\* The lists stay in place when a version is added.
LEMMA AddPlaces ==
  ASSUME IInv, Placed, NEW owner, NEW lineage, NEW isNew, NEW version, NEW state, NEW rewritten,
         Adding(owner, lineage, isNew, version, state, rewritten),
         NEW old, NEW young, NEW lost, NEW kept, NEW gone,
         Outcome(owner, lineage, isNew, version, rewritten, old, young, lost, kept, gone)
  PROVE  /\ versionIds + 1 \notin gone
         /\ \A v \in DOMAIN versions : versions[v].lineage # lineage => v \in gone <=> versions[v].lineage \in lost
         /\ \A v \in DOMAIN versions : versions[v].lineage = lineage => v \in gone <=> v \in old
         /\ Placed'
<1> DEFINE id == versionIds + 1
<1>1. /\ DOMAIN lineageVersions = DOMAIN lineageOwner /\ versionIds \in Nat
      /\ \A v \in DOMAIN versions : v \in 1..versionIds
  BY DEF IInv, Indexed, Faithful
<1>2. id \notin DOMAIN versions
  BY <1>1
<1> HIDE DEF id
<1>3. /\ Len(young) \in 1..VersionLimit /\ Increasing(young)
      /\ Elements(young) = (Live(lineage) \cup {id}) \ old
      /\ old \subseteq Live(lineage) /\ id \notin old
      /\ lost \subseteq DOMAIN lineageOwner \ {lineage}
      /\ Len(kept) <= LineageLimit
      /\ Elements(kept) =
           (Elements(At(actorLineages, owner, <<>>)) \cup (IF isNew THEN {lineage} ELSE {})) \ lost
      /\ gone = old \cup UNION {Elements(lineageVersions[l]) : l \in lost}
      /\ versions' = Drop(Put(versions, id, version), gone)
      /\ lineageVersions' = Drop(Put(lineageVersions, lineage, young), lost)
      /\ lineageOwner' = Drop(IF isNew THEN Put(lineageOwner, lineage, owner) ELSE lineageOwner, lost)
      /\ actorLineages' = Put(actorLineages, owner, kept)
  BY DEF Outcome, id
<1>4. version.lineage = lineage
  BY DEF Adding
<1>5. /\ \A l \in DOMAIN lineageVersions : \A v \in Elements(lineageVersions[l]) :
           v \in DOMAIN versions /\ versions[v].lineage = l
      /\ \A v \in DOMAIN versions :
           /\ versions[v].lineage \in DOMAIN lineageVersions
           /\ v \in Elements(lineageVersions[versions[v].lineage])
  BY DEF Placed
<1>6. \A v : v \in Live(lineage) <=> v \in DOMAIN versions /\ versions[v].lineage = lineage
  <2>1. CASE lineage \in DOMAIN lineageVersions
    BY <1>5, <2>1 DEF Live, At
  <2>2. CASE lineage \notin DOMAIN lineageVersions
    <3>1. Live(lineage) = {}
      BY <2>2, EmptyList DEF Live, At
    <3> QED
      BY <1>5, <2>2, <3>1
  <2> QED
    BY <2>1, <2>2
<1>7. \A v : v \in gone <=> v \in old \/ \E l \in lost : v \in Elements(lineageVersions[l])
  BY <1>3
<1>8. \A v : v \in gone <=> v \in old \/ (v \in DOMAIN versions /\ versions[v].lineage \in lost)
  BY <1>1, <1>3, <1>5, <1>7
<1>9. \A v \in DOMAIN versions : versions[v].lineage # lineage => v \in gone <=> versions[v].lineage \in lost
  BY <1>3, <1>6, <1>8
<1>10. \A v \in DOMAIN versions : versions[v].lineage = lineage => v \in gone <=> v \in old
  BY <1>3, <1>8
<1>11. id \notin gone
  BY <1>2, <1>3, <1>8
<1>12. /\ DOMAIN versions' = (DOMAIN versions \cup {id}) \ gone
       /\ \A v \in DOMAIN versions' : versions'[v] = IF v = id THEN version ELSE versions[v]
       /\ DOMAIN lineageVersions' = (DOMAIN lineageVersions \cup {lineage}) \ lost
       /\ \A l \in DOMAIN lineageVersions' :
            lineageVersions'[l] = IF l = lineage THEN young ELSE lineageVersions[l]
       /\ DOMAIN actorLineages' = DOMAIN actorLineages \cup {owner}
       /\ \A a \in DOMAIN actorLineages' : actorLineages'[a] = IF a = owner THEN kept ELSE actorLineages[a]
  BY <1>3 DEF Drop, Put
<1>13. ASSUME NEW l \in DOMAIN lineageVersions'
       PROVE  /\ Len(lineageVersions'[l]) \in 1..VersionLimit /\ Increasing(lineageVersions'[l])
              /\ \A v \in Elements(lineageVersions'[l]) : v \in DOMAIN versions' /\ versions'[v].lineage = l
  <2>1. CASE l = lineage
    <3>1. lineageVersions'[l] = young
      BY <1>12, <2>1
    <3>2. ASSUME NEW v \in Elements(young)
          PROVE  v \in DOMAIN versions' /\ versions'[v].lineage = l
      <4>1. v = id \/ (v \in DOMAIN versions /\ versions[v].lineage = lineage /\ v \notin old)
        BY <1>3, <1>6
      <4>2. v \notin gone
        BY <1>10, <1>11, <4>1
      <4> QED
        BY <1>4, <1>12, <2>1, <4>1, <4>2
    <3> QED
      BY <1>3, <3>1, <3>2
  <2>2. CASE l # lineage
    <3>1. l \in DOMAIN lineageVersions /\ l \notin lost /\ lineageVersions'[l] = lineageVersions[l]
      BY <1>12, <2>2
    <3>2. Len(lineageVersions[l]) \in 1..VersionLimit /\ Increasing(lineageVersions[l])
      BY <3>1 DEF Placed
    <3>3. ASSUME NEW v \in Elements(lineageVersions[l])
          PROVE  v \in DOMAIN versions' /\ versions'[v].lineage = l
      <4>1. v \in DOMAIN versions /\ versions[v].lineage = l /\ v # id
        BY <1>2, <1>5, <3>1
      <4>2. v \notin gone
        BY <1>9, <2>2, <3>1, <4>1
      <4> QED
        BY <1>12, <4>1, <4>2
    <3> QED
      BY <3>1, <3>2, <3>3
  <2> QED
    BY <2>1, <2>2
<1>14. ASSUME NEW v \in DOMAIN versions'
       PROVE  /\ versions'[v].lineage \in DOMAIN lineageVersions'
              /\ v \in Elements(lineageVersions'[versions'[v].lineage])
  <2>1. CASE v = id
    <3>1. versions'[v].lineage = lineage
      BY <1>4, <1>12, <2>1
    <3> QED
      BY <1>3, <1>12, <2>1, <3>1
  <2>2. CASE v # id
    <3>1. v \in DOMAIN versions /\ v \notin gone /\ versions'[v] = versions[v]
      BY <1>12, <2>2
    <3> DEFINE k == versions[v].lineage
    <3>2. k \in DOMAIN lineageVersions /\ v \in Elements(lineageVersions[k])
      BY <1>5, <3>1
    <3>3. CASE k = lineage
      <4>1. v \notin old /\ v \in Live(lineage)
        BY <1>6, <1>10, <3>1, <3>3
      <4> QED
        BY <1>3, <1>12, <3>1, <3>3, <4>1
    <3>4. CASE k # lineage
      <4>1. k \notin lost
        BY <1>9, <3>1, <3>4
      <4> QED
        BY <1>12, <3>1, <3>2, <3>4, <4>1
    <3> QED
      BY <3>3, <3>4
  <2> QED
    BY <2>1, <2>2
<1>15. ASSUME NEW a \in DOMAIN actorLineages'
       PROVE  Len(actorLineages'[a]) <= LineageLimit
  BY <1>3, <1>12 DEF Placed
<1>16. ASSUME NEW l \in DOMAIN lineageOwner'
       PROVE  /\ lineageOwner'[l] \in DOMAIN actorLineages'
              /\ l \in Elements(actorLineages'[lineageOwner'[l]])
  <2>1. l \notin lost
    BY <1>3 DEF Drop
  <2>2. CASE isNew /\ l = lineage
    <3>1. lineageOwner'[l] = owner
      BY <1>3, <2>2 DEF Drop, Put
    <3> QED
      BY <1>3, <1>12, <2>1, <2>2, <3>1
  <2>3. CASE ~ (isNew /\ l = lineage)
    <3>1. l \in DOMAIN lineageOwner /\ lineageOwner'[l] = lineageOwner[l]
      BY <1>3, <2>3 DEF Drop, Put
    <3>2. lineageOwner[l] \in DOMAIN actorLineages /\ l \in Elements(actorLineages[lineageOwner[l]])
      BY <3>1 DEF Placed
    <3>3. lineageOwner[l] = owner => l \in Elements(kept)
      BY <1>3, <2>1, <3>2 DEF At
    <3> QED
      BY <1>12, <3>1, <3>2, <3>3
  <2> QED
    BY <2>2, <2>3
<1>17. Placed'
  BY <1>13, <1>14, <1>15, <1>16 DEF Placed
<1> QED
  BY <1>9, <1>10, <1>11, <1>17 DEF id

\* The empty kernel has nothing to place.
LEMMA InitPlaced == Init => Placed
<1> SUFFICES ASSUME Init
             PROVE  Placed
  OBVIOUS
<1>1. DOMAIN lineageVersions = {} /\ DOMAIN versions = {} /\ DOMAIN actorLineages = {} /\ DOMAIN lineageOwner = {}
  BY EmptySeq DEF Init
<1> QED
  BY <1>1 DEF Placed

\* No step misplaces a version.
LEMMA NextPlaces == IInv /\ Placed /\ [Next]_vars => Placed'
<1> SUFFICES ASSUME IInv, Placed, [Next]_vars
             PROVE  Placed'
  OBVIOUS
<1>1. CASE SomeAdding
  <2>1. PICK owner, lineage, isNew, version, state, rewritten :
          Adding(owner, lineage, isNew, version, state, rewritten)
    BY <1>1 DEF SomeAdding
  <2>2. PICK old, young, lost, kept, gone :
          Outcome(owner, lineage, isNew, version, rewritten, old, young, lost, kept, gone)
    BY <2>1, AddOutcome
  <2> QED
    BY <2>1, <2>2, AddPlaces
<1>2. CASE Steady
  <2>1. UNCHANGED <<versions, lineageVersions, lineageOwner, actorLineages>>
    BY <1>2 DEF Steady
  <2> QED
    BY <2>1 DEF Placed
<1> QED
  BY <1>1, <1>2, StepKinds, OthersAreSteady

-----------------------------------------------------------------------------
(* How a lineage numbers its versions.                                     *)

\* Two versions of the history, the archived ones included.
Ordered(v, w) ==
  LET a == VersionIn(trace, v)
      b == VersionIn(trace, w)
  IN  /\ a.lineage = b.lineage /\ v < w => a.no < b.no
      /\ v \in b.parents => v < w /\ a.lineage = b.lineage /\ a.owner = b.owner
      /\ a.lineage = b.lineage /\ v \in DOMAIN versions /\ w \notin DOMAIN versions => w < v

Numbered ==
  /\ \A v \in 1..versionIds : /\ VersionIn(trace, v).lineage \in 1..lineageIds
                              /\ VersionIn(trace, v).no \in Nat
                              /\ VersionIn(trace, v).parents \subseteq 1..versionIds
  /\ \A v, w \in 1..versionIds : Ordered(v, w)

\* The number of a lineage's next version exceeds all that it gave before.
LEMMA NextIsHigher ==
  ASSUME IInv, Placed, Numbered, NEW lineage \in DOMAIN lineageOwner
  PROVE  /\ NextNumber(lineage) \in Nat
         /\ \A v \in 1..versionIds :
              VersionIn(trace, v).lineage = lineage => VersionIn(trace, v).no < NextNumber(lineage)
<1> DEFINE s == lineageVersions[lineage]
           known == Elements(s)
           last == s[Len(s)]
<1>1. lineage \in DOMAIN lineageVersions /\ s \in Seq(Nat) /\ Len(s) \in Nat /\ Len(s) >= 1 /\ Increasing(s)
  <2>1. lineage \in DOMAIN lineageVersions /\ s \in Seq(Nat) /\ Len(s) \in 1..VersionLimit /\ Increasing(s)
    BY DEF IInv, Indexed, Placed
  <2>2. VersionLimit \in Nat
    BY LimitsArePositive
  <2> HIDE DEF s
  <2> QED
    BY <2>1, <2>2
<1>2. /\ \A v \in known : v \in DOMAIN versions /\ versions[v].lineage = lineage
      /\ \A v \in DOMAIN versions : versions[v].lineage = lineage => v \in known
      /\ \A v \in DOMAIN versions : v \in 1..versionIds /\ versions[v] = VersionIn(trace, v)
  BY <1>1 DEF IInv, Faithful, Placed
<1>3. At(lineageVersions, lineage, <<>>) = s
  BY <1>1 DEF At
<1> HIDE DEF s
<1>4. /\ \A v \in known : \E i \in 1..Len(s) : v = s[i]
      /\ \A i \in 1..Len(s) : s[i] \in known
      /\ known \subseteq Nat
  BY <1>1, ListFacts
<1>5. last \in known /\ last \in Nat /\ \A v \in known : v = last \/ v < last
  <2>1. last \in known
    BY <1>1, <1>4
  <2>2. ASSUME NEW v \in known, v # last
        PROVE  v < last
    <3>1. PICK i \in 1..Len(s) : v = s[i]
      BY <1>4
    <3>2. Len(s) \in 1..Len(s) /\ i < Len(s)
      BY <1>1, <2>2, <3>1
    <3> QED
      BY <3>1, <3>2, <1>1 DEF Increasing
  <2> QED
    BY <1>4, <2>1, <2>2
<1> HIDE DEF known, last
<1> DEFINE numbers == {versions[v].no : v \in known}
           max == CHOOSE n \in numbers : \A v \in known : versions[v].no <= n
<1>6. \A v \in 1..versionIds : VersionIn(trace, v).no \in Nat
  BY DEF Numbered
<1>7. \A v \in known : v \in 1..versionIds /\ versions[v] = VersionIn(trace, v) /\ versions[v].no \in Nat
  BY <1>2, <1>6
<1>8. \A v, w \in 1..versionIds : Ordered(v, w)
  BY DEF Numbered
<1>9. \A v \in known : versions[v].no <= versions[last].no
  <2> TAKE v \in known
  <2>1. CASE v = last
    BY <1>5, <1>7, <2>1
  <2>2. CASE v # last
    <3>1. v < last /\ v \in 1..versionIds /\ last \in 1..versionIds
      BY <1>5, <1>7, <2>2
    <3>2. Ordered(v, last)
      BY <1>8, <3>1
    <3>3. VersionIn(trace, v).lineage = VersionIn(trace, last).lineage
      BY <1>2, <1>5, <1>7
    <3>4. VersionIn(trace, v).no < VersionIn(trace, last).no
      BY <3>1, <3>2, <3>3 DEF Ordered
    <3> QED
      BY <1>5, <1>7, <3>4
  <2> QED
    BY <2>1, <2>2
<1>10. max \in numbers /\ \A v \in known : versions[v].no <= max
  <2>1. \E n \in numbers : \A v \in known : versions[v].no <= n
    BY <1>5, <1>9
  <2> QED
    BY <2>1
<1>11. max \in Nat
  BY <1>7, <1>10
<1>12. NextNumber(lineage) = 1 + max
  <2>1. known # {}
    BY <1>5
  <2> QED
    BY <1>3, <2>1 DEF NextNumber, known
<1> HIDE DEF max
<1>13. ASSUME NEW v \in 1..versionIds, VersionIn(trace, v).lineage = lineage
       PROVE  VersionIn(trace, v).no < 1 + max
  <2>1. CASE v \in known
    <3>1. VersionIn(trace, v).no \in Nat /\ VersionIn(trace, v).no <= max
      BY <1>7, <1>10, <2>1
    <3> QED
      BY <1>11, <3>1
  <2>2. CASE v \notin known
    <3>1. v \notin DOMAIN versions
      BY <1>2, <1>13, <2>2
    <3>2. last \in DOMAIN versions /\ last \in 1..versionIds /\ VersionIn(trace, last).lineage = lineage
      BY <1>2, <1>5, <1>7
    <3>3. Ordered(last, v) /\ Ordered(v, last)
      BY <1>8, <3>2
    <3>4. v < last
      BY <1>13, <3>1, <3>2, <3>3 DEF Ordered
    <3>5. VersionIn(trace, v).no < VersionIn(trace, last).no
      BY <1>13, <3>2, <3>3, <3>4 DEF Ordered
    <3>6. /\ VersionIn(trace, last).no <= max
          /\ VersionIn(trace, v).no \in Nat /\ VersionIn(trace, last).no \in Nat
      BY <1>5, <1>6, <1>7, <1>10, <3>2
    <3> QED
      BY <1>11, <3>5, <3>6
  <2> QED
    BY <2>1, <2>2
<1> QED
  BY <1>11, <1>12, <1>13

\* A new version is numbered above those before it.
LEMMA AddNumbers ==
  ASSUME IInv, IInv', Placed, Numbered, NEW owner, NEW lineage, NEW isNew, NEW version, NEW state,
         NEW rewritten, Adding(owner, lineage, isNew, version, state, rewritten),
         NEW old, NEW young, NEW lost, NEW kept, NEW gone,
         Outcome(owner, lineage, isNew, version, rewritten, old, young, lost, kept, gone)
  PROVE  Numbered'
<1> DEFINE id == versionIds + 1
<1>1. /\ versionIds' = id /\ versionIds \in Nat /\ lineageIds \in Nat
      /\ DOMAIN lineageOwner \subseteq 1..lineageIds
      /\ \A v \in DOMAIN versions : v \in 1..versionIds /\ versions[v] = VersionIn(trace, v)
  BY DEF Outcome, IInv, Indexed, Faithful
<1>2. /\ \A v \in 1..versionIds : VersionIn(trace', v) = VersionIn(trace, v)
      /\ VersionIn(trace', id) = version
  <2>1. Tells(trace', version, state, rewritten)
    BY AddKeeps
  <2> QED
    BY <2>1 DEF Tells
<1>3. /\ version.lineage = lineage /\ version.owner = owner
      /\ version.no = IF isNew THEN 1 ELSE NextNumber(lineage)
      /\ \A p \in version.parents : /\ p \in DOMAIN versions /\ versions[p].lineage = lineage
                                    /\ versions[p].owner = owner
  BY DEF Adding
<1>4. /\ isNew => lineage = lineageIds + 1 /\ lineageIds' = lineageIds + 1
      /\ ~isNew => lineage \in DOMAIN lineageOwner /\ lineageIds' = lineageIds
  BY DEF Adding
<1>5. /\ DOMAIN versions' = (DOMAIN versions \cup {id}) \ gone /\ id \notin gone
      /\ \A v \in DOMAIN versions :
           versions[v].lineage # lineage => v \in gone <=> versions[v].lineage \in lost
      /\ \A v \in DOMAIN versions : versions[v].lineage = lineage => v \in gone <=> v \in old
  <2>1. versions' = Drop(Put(versions, id, version), gone)
    BY DEF Outcome
  <2> QED
    BY <2>1, AddPlaces DEF Drop, Put
<1>6. /\ \A v \in DOMAIN versions : versions[v].lineage = lineage => v \in Live(lineage)
      /\ Elements(young) = (Live(lineage) \cup {id}) \ old
      /\ \A x \in old, y \in Elements(young) : x < y
  BY DEF Outcome, Live, At, Placed
<1>7. /\ \A v \in 1..versionIds : /\ VersionIn(trace, v).lineage \in 1..lineageIds
                                  /\ VersionIn(trace, v).no \in Nat
                                  /\ VersionIn(trace, v).parents \subseteq 1..versionIds
      /\ \A v, w \in 1..versionIds : Ordered(v, w)
  BY DEF Numbered
<1>8. /\ \A v \in 1..id : v \in 1..versionIds \/ v = id
      /\ \A v \in 1..versionIds : v < id /\ v \in 1..id /\ v # id /\ ~ (id < v)
      /\ ~ (id < id) /\ id \in 1..id
  BY <1>1
<1> HIDE DEF id
<1>9. /\ version.no \in Nat
      /\ \A v \in 1..versionIds : VersionIn(trace, v).lineage = lineage => VersionIn(trace, v).no < version.no
  <2>1. CASE isNew
    <3>1. \A v \in 1..versionIds : VersionIn(trace, v).lineage # lineage
      BY <1>1, <1>4, <1>7, <2>1
    <3> QED
      BY <1>3, <2>1, <3>1
  <2>2. CASE ~isNew
    <3>1. lineage \in DOMAIN lineageOwner /\ version.no = NextNumber(lineage)
      BY <1>3, <1>4, <2>2
    <3> QED
      BY <3>1, NextIsHigher
  <2> QED
    BY <2>1, <2>2
<1>10. ASSUME NEW v \in 1..id
       PROVE  /\ VersionIn(trace', v).lineage \in 1..lineageIds'
              /\ VersionIn(trace', v).no \in Nat
              /\ VersionIn(trace', v).parents \subseteq 1..id
  <2>1. lineageIds' \in Nat /\ lineageIds' >= lineageIds /\ lineage \in 1..lineageIds'
    <3>1. CASE isNew
      BY <1>1, <1>4, <3>1
    <3>2. CASE ~isNew
      BY <1>1, <1>4, <3>2
    <3> QED
      BY <3>1, <3>2
  <2>2. CASE v = id
    BY <1>1, <1>2, <1>3, <1>8, <1>9, <2>1, <2>2
  <2>3. CASE v \in 1..versionIds
    BY <1>1, <1>2, <1>7, <1>8, <2>1, <2>3
  <2> QED
    BY <1>8, <2>2, <2>3
<1>11. ASSUME NEW v \in 1..id, NEW w \in 1..id
       PROVE  Ordered(v, w)'
  <2> DEFINE a == VersionIn(trace', v)
             b == VersionIn(trace', w)
  <2>1. a.lineage = b.lineage /\ v < w => a.no < b.no
    <3>1. CASE w \in 1..versionIds /\ v \in 1..versionIds
      BY <1>2, <1>7, <3>1 DEF Ordered
    <3>2. CASE w = id /\ v \in 1..versionIds
      BY <1>2, <1>3, <1>9, <3>2
    <3>3. CASE v = id
      BY <1>8, <3>3
    <3> QED
      BY <1>8, <3>1, <3>2, <3>3
  <2>2. v \in b.parents => v < w /\ a.lineage = b.lineage /\ a.owner = b.owner
    <3>1. CASE w \in 1..versionIds
      <4>1. v \in b.parents => v \in 1..versionIds
        BY <1>2, <1>7, <3>1
      <4> QED
        BY <1>2, <1>7, <3>1, <4>1 DEF Ordered
    <3>2. CASE w = id
      <4> SUFFICES ASSUME v \in b.parents
                   PROVE  v < w /\ a.lineage = b.lineage /\ a.owner = b.owner
        OBVIOUS
      <4>1. v \in DOMAIN versions /\ versions[v].lineage = lineage /\ versions[v].owner = owner
        BY <1>2, <1>3, <3>2
      <4>2. v \in 1..versionIds /\ a = versions[v]
        BY <1>1, <1>2, <4>1
      <4> QED
        BY <1>2, <1>3, <1>8, <3>2, <4>1, <4>2
    <3> QED
      BY <1>8, <3>1, <3>2
  <2>3. a.lineage = b.lineage /\ v \in DOMAIN versions' /\ w \notin DOMAIN versions' => w < v
    <3> SUFFICES ASSUME a.lineage = b.lineage, v \in DOMAIN versions', w \notin DOMAIN versions'
                 PROVE  w < v
      OBVIOUS
    <3>1. w \in 1..versionIds
      BY <1>5, <1>8
    <3>2. CASE v = id
      BY <1>8, <3>1, <3>2
    <3>3. CASE v # id
      <4>1. v \in 1..versionIds /\ v \in DOMAIN versions /\ v \notin gone
        BY <1>5, <1>8, <3>3
      <4>2. a = VersionIn(trace, v) /\ b = VersionIn(trace, w) /\ a = versions[v]
        BY <1>1, <1>2, <3>1, <4>1
      <4>3. CASE w \notin DOMAIN versions
        BY <1>7, <3>1, <4>1, <4>2, <4>3 DEF Ordered
      <4>4. CASE w \in DOMAIN versions
        <5>1. w \in gone /\ b = versions[w]
          BY <1>1, <1>5, <3>1, <4>2, <4>4
        <5>2. versions[w].lineage = lineage
          BY <1>5, <4>1, <4>2, <4>4, <5>1
        <5>3. w \in old /\ v \notin old /\ v \in Live(lineage)
          BY <1>5, <1>6, <4>1, <4>2, <4>4, <5>1, <5>2
        <5> QED
          BY <1>6, <5>3
      <4> QED
        BY <4>3, <4>4
    <3> QED
      BY <3>2, <3>3
  <2> QED
    BY <2>1, <2>2, <2>3 DEF Ordered
<1> QED
  BY <1>1, <1>10, <1>11 DEF Numbered

\* The empty history numbers nothing.
LEMMA InitNumbered == Init => Numbered
<1> SUFFICES ASSUME Init
             PROVE  Numbered
  OBVIOUS
<1>1. versionIds = 0 /\ 1..0 = {}
  BY DEF Init
<1> QED
  BY <1>1 DEF Numbered

\* No step disorders a lineage.
LEMMA NextNumbers == IInv /\ Placed /\ Numbered /\ [Next]_vars => Numbered'
<1> SUFFICES ASSUME IInv, Placed, Numbered, [Next]_vars
             PROVE  Numbered'
  OBVIOUS
<1>0. IInv'
  BY NextKeeps
<1>1. CASE SomeAdding
  <2>1. PICK owner, lineage, isNew, version, state, rewritten :
          Adding(owner, lineage, isNew, version, state, rewritten)
    BY <1>1 DEF SomeAdding
  <2>2. PICK old, young, lost, kept, gone :
          Outcome(owner, lineage, isNew, version, rewritten, old, young, lost, kept, gone)
    BY <2>1, AddOutcome
  <2> QED
    BY <1>0, <2>1, <2>2, AddNumbers
<1>2. CASE Steady
  <2>1. versionIds' = versionIds /\ versions' = versions /\ lineageIds' = lineageIds
    BY <1>2 DEF Steady
  <2>2. \A v \in 1..versionIds : VersionIn(trace', v) = VersionIn(trace, v)
    BY <1>0, <1>2, SteadyTells
  <2> QED
    BY <2>1, <2>2 DEF Numbered, Ordered
<1> QED
  BY <1>1, <1>2, StepKinds, OthersAreSteady

\* Whatever calls the kernel takes, archived versions included: a lineage
\* numbers its versions upwards, the parents of a version are older versions
\* of its owner in its lineage, and _enforce_memory_bounds archives the
\* oldest: what is archived is older than what is live.
THEOREM HistoryNumbersUpwards == Spec => []LineagesNumberUpwards
<1>1. Init => IInv /\ Placed /\ Numbered
  BY InitHolds, InitPlaced, InitNumbered
<1>2. IInv /\ Placed /\ Numbered /\ [Next]_vars => IInv' /\ Placed' /\ Numbered'
  BY NextKeeps, NextPlaces, NextNumbers
<1>3. IInv /\ Placed /\ Numbered => LineagesNumberUpwards
  <2> SUFFICES ASSUME IInv, Numbered
               PROVE  LineagesNumberUpwards
    OBVIOUS
  <2>1. \A v \in 1..versionIds : VersionOf(v) = VersionIn(trace, v)
    BY DEF IInv, Faithful, VersionOf, VersionFromTrace, VersionIn
  <2> QED
    BY <2>1 DEF Numbered, Ordered, LineagesNumberUpwards, Created
<1> QED
  BY <1>1, <1>2, <1>3, PTL DEF Spec

-----------------------------------------------------------------------------
(* The cache of query results.                                             *)

\* A result that the cache may hold of a version.
Right(b) ==
  \/ b = Answer(b.id)
  \/ b.stage = "ACTIVE" /\ [b EXCEPT !.stage = "CONTRADICTED"] = Answer(b.id)

Cached ==
  /\ DOMAIN beliefs = Actors
  /\ \A a \in Actors : /\ IsList(beliefs[a]) /\ Len(beliefs[a]) <= BeliefLimit
                       /\ \A b \in Elements(beliefs[a]) : b.id \in 1..versionIds /\ Right(b)

\* What query_memory makes of a version and its state.
Shown(id, s, claim) ==
  [id |-> id, access |-> s.access, stage |-> s.stage,
   claim |-> IF s.access \in {"CLEAR", "FADED"} THEN claim ELSE None,
   residue |-> {r \in s.residue : r.independent \/ s.access # "FORGOTTEN"}]

\* A query answers from the history.
LEMMA AnswerIsShown ==
  IInv => \A v \in 1..versionIds : Answer(v) = Shown(v, Told(trace, v), VersionIn(trace, v).claim)
<1> SUFFICES ASSUME IInv, NEW v \in 1..versionIds
             PROVE  Answer(v) = Shown(v, Told(trace, v), VersionIn(trace, v).claim)
  OBVIOUS
<1>1. StateOf(v) = Told(trace, v)
  BY DEF IInv, Faithful, StateOf, StateFromTrace, Told
<1>2. VersionOf(v) = VersionIn(trace, v)
  BY DEF IInv, Faithful, VersionOf, VersionFromTrace, VersionIn
<1> QED
  BY <1>1, <1>2 DEF Answer, Shown

\* A contradiction changes nothing but the stage of what a query shows.
LEMMA ContradictedShown ==
  ASSUME NEW id, NEW s \in States, NEW claim
  PROVE  /\ Shown(id, Moved(s, "CONTRADICTED"), claim) =
              [Shown(id, s, claim) EXCEPT !.stage = "CONTRADICTED"]
         /\ Shown(id, s, claim).stage = s.stage
         /\ Shown(id, s, claim).id = id
<1> DEFINE m == Moved(s, "CONTRADICTED")
           left == {r \in s.residue : r.independent \/ s.access # "FORGOTTEN"}
           said == IF s.access \in {"CLEAR", "FADED"} THEN claim ELSE None
<1>1. m.access = s.access /\ m.residue = s.residue /\ m.stage = "CONTRADICTED"
  BY DEF Moved, States
<1> HIDE DEF m
<1>2. /\ {r \in m.residue : r.independent \/ m.access # "FORGOTTEN"} = left
      /\ (IF m.access \in {"CLEAR", "FADED"} THEN claim ELSE None) = said
  BY <1>1
<1>3. /\ Shown(id, m, claim) =
           [id |-> id, access |-> s.access, stage |-> "CONTRADICTED", claim |-> said, residue |-> left]
      /\ Shown(id, s, claim) =
           [id |-> id, access |-> s.access, stage |-> s.stage, claim |-> said, residue |-> left]
  BY <1>1, <1>2 DEF Shown
<1> HIDE DEF left, said
<1> QED
  BY <1>3 DEF m

\* What is left of the results when those of some versions are dropped.
LEMMA Dropping ==
  ASSUME NEW s, IsList(s), NEW gone
  PROVE  /\ IsList(NotOf(s, gone)) /\ Len(NotOf(s, gone)) \in Nat /\ Len(NotOf(s, gone)) <= Len(s)
         /\ \A b \in Elements(NotOf(s, gone)) : b \in Elements(s) /\ b.id \notin gone
         /\ IsList(Of(s, gone)) /\ Len(Of(s, gone)) \in Nat
         /\ Len(Of(s, gone)) + Len(NotOf(s, gone)) = Len(s)
         /\ \A b \in Elements(Of(s, gone)) : b \in Elements(s)
<1> DEFINE I == {i \in DOMAIN s : s[i].id \in gone}
           J == {i \in DOMAIN s : s[i].id \notin gone}
<1>1. DOMAIN s = 1..Len(s) /\ Len(s) \in Nat
  BY ListFacts DEF IsList
<1>2. \A i \in 1..Len(s) : i \in I <=> i \notin J
  BY <1>1
<1>3. I \subseteq DOMAIN s /\ J \subseteq DOMAIN s /\ \A i \in J : s[i].id \notin gone
  OBVIOUS
<1>4. Of(s, gone) = Keep(s, I) /\ NotOf(s, gone) = Keep(s, J)
  BY DEF Of, NotOf
<1> HIDE DEF I, J
<1>5. /\ Len(Keep(s, I)) \in Nat /\ Len(Keep(s, J)) \in Nat
      /\ Len(Keep(s, I)) + Len(Keep(s, J)) = Len(s)
  BY <1>2, KeptCount
<1>6. IsList(Keep(s, I)) /\ Elements(Keep(s, I)) = {s[i] : i \in DOMAIN s \cap I}
  BY KeptElements
<1>7. IsList(Keep(s, J)) /\ Elements(Keep(s, J)) = {s[i] : i \in DOMAIN s \cap J}
  BY KeptElements
<1>8. \A b \in Elements(Keep(s, I)) : b \in Elements(s)
  BY <1>6 DEF Elements
<1>9. \A b \in Elements(Keep(s, J)) : b \in Elements(s) /\ b.id \notin gone
  BY <1>3, <1>7 DEF Elements
<1>10. Len(Keep(s, J)) <= Len(s)
  BY <1>1, <1>5
<1> QED
  BY <1>4, <1>5, <1>6, <1>7, <1>8, <1>9, <1>10

\* A step that drops the results of what it changes, contradictions aside,
\* keeps the cache right.
LEMMA CacheFollows ==
  ASSUME IInv, IInv', Cached, DOMAIN beliefs' = Actors, versionIds' \in Nat, versionIds <= versionIds',
         \A a \in Actors : /\ IsList(beliefs'[a]) /\ Len(beliefs'[a]) <= BeliefLimit
                           /\ Elements(beliefs'[a]) \subseteq Elements(beliefs[a]),
         \A v \in 1..versionIds : VersionIn(trace', v) = VersionIn(trace, v),
         \A a \in Actors : \A b \in Elements(beliefs'[a]) :
           \/ Told(trace', b.id) = Told(trace, b.id)
           \/ /\ Told(trace, b.id).stage = "ACTIVE"
              /\ Told(trace', b.id) = Moved(Told(trace, b.id), "CONTRADICTED")
  PROVE  Cached'
<1>1. versionIds \in Nat /\ \A v \in 1..versionIds : Told(trace, v) \in States
  BY DEF IInv, Indexed, Faithful
<1>2. \A v \in 1..versionIds : Answer(v) = Shown(v, Told(trace, v), VersionIn(trace, v).claim)
  BY AnswerIsShown
<1>3. \A v \in 1..versionIds' : Answer(v)' = Shown(v, Told(trace', v), VersionIn(trace', v).claim)
  <2>1. IInv' => (\A v \in 1..versionIds : Answer(v) = Shown(v, Told(trace, v), VersionIn(trace, v).claim))'
    BY AnswerIsShown, PTL
  <2> QED
    BY <2>1
<1>4. ASSUME NEW a \in Actors, NEW b \in Elements(beliefs'[a])
      PROVE  b.id \in 1..versionIds' /\ Right(b)'
  <2> DEFINE v == b.id
  <2>1. b \in Elements(beliefs[a]) /\ v \in 1..versionIds /\ Right(b)
    BY <1>4 DEF Cached
  <2>2. v \in 1..versionIds'
    BY <1>1, <2>1
  <2> DEFINE old == Shown(v, Told(trace, v), VersionIn(trace, v).claim)
             new == Shown(v, Told(trace', v), VersionIn(trace', v).claim)
  <2>3. Answer(v) = old /\ Answer(v)' = new
    BY <1>2, <1>3, <2>1, <2>2
  <2>4. VersionIn(trace', v) = VersionIn(trace, v) /\ Told(trace, v) \in States
    BY <1>1, <2>1
  <2>5. CASE Told(trace', v) = Told(trace, v)
    <3>1. new = old
      BY <2>4, <2>5
    <3> HIDE DEF new, old
    <3> QED
      BY <2>1, <2>2, <2>3, <3>1 DEF Right
  <2>6. CASE /\ Told(trace, v).stage = "ACTIVE"
             /\ Told(trace', v) = Moved(Told(trace, v), "CONTRADICTED")
    <3>1. new = [old EXCEPT !.stage = "CONTRADICTED"] /\ old.stage = "ACTIVE"
      BY <2>4, <2>6, ContradictedShown
    <3>2. CASE b = old
      <4> HIDE DEF new, old
      <4> QED
        BY <2>2, <2>3, <3>1, <3>2 DEF Right
    <3>3. CASE [b EXCEPT !.stage = "CONTRADICTED"] = old
      <4>1. old = Shown(v, Told(trace, v), VersionIn(trace, v).claim)
        OBVIOUS
      <4>2. DOMAIN old = {"id", "access", "stage", "claim", "residue"}
        BY DEF Shown
      <4> HIDE DEF new, old
      <4>3. "stage" \in DOMAIN b
        BY <3>3, <4>2
      <4>4. old.stage = "CONTRADICTED"
        BY <3>3, <4>3
      <4> QED
        BY <3>1, <4>4
    <3> QED
      BY <2>1, <2>3, <3>2, <3>3 DEF Right
  <2> QED
    BY <1>4, <2>5, <2>6
<1> QED
  BY <1>4 DEF Cached

\* A record moves what the trace tells.
LEMMA RecordTells ==
  ASSUME IInv, NEW r, trace' = Append(trace, r)
  PROVE  \A v : Told(trace', v) = StateAfter(Told(trace, v), r, v)
<1>1. trace \in Seq(Elements(trace)) /\ trace' = trace \o <<r>>
  BY AppendedOne DEF IInv, Recorded
<1> QED
  BY <1>1, ToldNext

\* A step that leaves the memories and their cache.
LEMMA CacheStays ==
  ASSUME IInv, IInv', Cached, Steady, beliefs' = beliefs,
         \A v \in 1..versionIds : Told(trace', v) = Told(trace, v)
  PROVE  Cached'
<1>1. /\ versionIds' = versionIds /\ versionIds \in Nat
      /\ \A v \in 1..versionIds : VersionIn(trace', v) = VersionIn(trace, v)
  BY SteadyTells DEF Steady, IInv, Indexed
<1>2. DOMAIN beliefs' = Actors /\ versionIds' \in Nat /\ versionIds <= versionIds'
  BY <1>1 DEF Cached
<1>3. /\ \A a \in Actors : /\ IsList(beliefs'[a]) /\ Len(beliefs'[a]) <= BeliefLimit
                           /\ Elements(beliefs'[a]) \subseteq Elements(beliefs[a])
      /\ \A a \in Actors : \A b \in Elements(beliefs'[a]) : Told(trace', b.id) = Told(trace, b.id)
  BY DEF Cached
<1> QED
  BY <1>1, <1>2, <1>3, CacheFollows

\* No step leaves a wrong result in the cache.
LEMMA NextCaches == IInv /\ Cached /\ [Next]_vars => Cached'
<1> SUFFICES ASSUME IInv, Cached, [Next]_vars
             PROVE  Cached'
  OBVIOUS
<1>1. IInv' /\ versionIds \in Nat /\ BeliefLimit \in Nat
  BY NextKeeps, LimitsArePositive DEF IInv, Indexed
<1>2. \A a \in Actors : IsList(beliefs[a]) /\ Len(beliefs[a]) <= BeliefLimit
  BY DEF Cached
<1>3. \A a \in Actors : \A gone :
        LET left == NotOf(beliefs[a], gone)
        IN  /\ IsList(left) /\ Len(left) <= BeliefLimit
            /\ Elements(left) \subseteq Elements(beliefs[a])
            /\ \A b \in Elements(left) : b.id \notin gone
  <2> SUFFICES ASSUME NEW a \in Actors, NEW gone
               PROVE  LET left == NotOf(beliefs[a], gone)
                      IN  /\ IsList(left) /\ Len(left) <= BeliefLimit
                          /\ Elements(left) \subseteq Elements(beliefs[a])
                          /\ \A b \in Elements(left) : b.id \notin gone
    OBVIOUS
  <2> DEFINE left == NotOf(beliefs[a], gone)
  <2>1. /\ IsList(left) /\ Len(left) \in Nat /\ Len(left) <= Len(beliefs[a])
        /\ \A b \in Elements(left) : b \in Elements(beliefs[a]) /\ b.id \notin gone
    BY <1>2, Dropping
  <2>2. Len(beliefs[a]) \in Nat
    BY <1>2, ListFacts DEF IsList
  <2> HIDE DEF left
  <2>3. Len(left) <= BeliefLimit
    BY <1>1, <1>2, <2>1, <2>2
  <2> QED
    BY <2>1, <2>3 DEF left
<1>4. \A a \in Actors : \A b \in Elements(beliefs[a]) : b.id \in 1..versionIds
  BY DEF Cached
<1>5. CASE SomeAdding
  <2>1. PICK owner, lineage, isNew, version, state, rewritten :
          Adding(owner, lineage, isNew, version, state, rewritten)
    BY <1>5 DEF SomeAdding
  <2>2. PICK dropped : /\ beliefs' = [a \in Actors |-> NotOf(beliefs[a], dropped)]
                       /\ Elements(rewritten) \subseteq dropped
                       /\ versionIds' = versionIds + 1
    <3>1. Add(owner, lineage, isNew, version, state, rewritten)
      BY <2>1 DEF Adding
    <3>2. /\ versionIds' = versionIds + 1
          /\ \E gone : beliefs' = [a \in Actors |-> NotOf(beliefs[a], gone \cup Elements(rewritten))]
      BY <3>1 DEF Add
    <3> QED
      BY <3>2
  <2>3. Tells(trace', version, state, rewritten)
    BY <2>1, AddKeeps
  <2>4. /\ \A v \in 1..versionIds : VersionIn(trace', v) = VersionIn(trace, v)
        /\ \A v \in 1..versionIds : v \notin Elements(rewritten) => Told(trace', v) = Told(trace, v)
    <3>1. \A v \in 1..versionIds : v \in 1..(versionIds + 1) /\ v # versionIds + 1
      BY <1>1
    <3> QED
      BY <2>3, <3>1 DEF Tells
  <2>5. DOMAIN beliefs' = Actors /\ \A a \in Actors : beliefs'[a] = NotOf(beliefs[a], dropped)
    BY <2>2
  <2>6. \A a \in Actors : /\ IsList(beliefs'[a]) /\ Len(beliefs'[a]) <= BeliefLimit
                          /\ Elements(beliefs'[a]) \subseteq Elements(beliefs[a])
                          /\ \A b \in Elements(beliefs'[a]) : b.id \notin dropped
    <3> TAKE a \in Actors
    <3> DEFINE left == NotOf(beliefs[a], dropped)
    <3>1. beliefs'[a] = left
      BY <2>5
    <3>2. /\ IsList(left) /\ Len(left) <= BeliefLimit
          /\ Elements(left) \subseteq Elements(beliefs[a])
          /\ \A b \in Elements(left) : b.id \notin dropped
      BY <1>3
    <3> HIDE DEF left
    <3> QED
      BY <3>1, <3>2
  <2>7. \A a \in Actors : \A b \in Elements(beliefs'[a]) : Told(trace', b.id) = Told(trace, b.id)
    BY <1>4, <2>2, <2>4, <2>6
  <2>8. versionIds' \in Nat /\ versionIds <= versionIds'
    BY <1>1, <2>2
  <2> QED
    BY <1>1, <2>4, <2>5, <2>6, <2>7, <2>8, CacheFollows
<1>6. ASSUME Other
      PROVE  /\ Steady /\ versionIds' = versionIds
             /\ \A v \in 1..versionIds : VersionIn(trace', v) = VersionIn(trace, v)
             /\ versionIds' \in Nat /\ versionIds <= versionIds'
  <2>1. Steady
    BY <1>6, OthersAreSteady
  <2>2. versionIds' = versionIds
    BY <2>1 DEF Steady
  <2> QED
    BY <1>1, <2>1, <2>2, SteadyTells
<1>7. CASE Occur
  <2>1. beliefs' = beliefs /\ OccurrencesNext
    BY <1>7 DEF Occur
  <2>2. \/ trace' = trace
        \/ \E r : /\ r.kind \in {"CANONICAL_EVENT_COMMITTED", "OBSERVATION_RECORDED"}
                  /\ trace' = Append(trace, r)
    <3>1. ASSUME NEW type, NEW payload, CommitEvent(type, payload)
          PROVE  \/ trace' = trace
                 \/ \E r : r.kind = "CANONICAL_EVENT_COMMITTED" /\ trace' = Append(trace, r)
      <4> DEFINE r == [kind |-> "CANONICAL_EVENT_COMMITTED",
                       event |-> [id |-> eventIds + 1, type |-> type]]
      <4>1. trace' = trace \/ trace' = Append(trace, r)
        BY <3>1 DEF CommitEvent
      <4>2. r.kind = "CANONICAL_EVENT_COMMITTED"
        OBVIOUS
      <4> HIDE DEF r
      <4> QED
        BY <4>1, <4>2
    <3>2. ASSUME NEW d, NEW visible, RecordObservation(d, visible)
          PROVE  \E r : r.kind = "OBSERVATION_RECORDED" /\ trace' = Append(trace, r)
      <4> DEFINE r == [kind |-> "OBSERVATION_RECORDED", observation |-> d]
      <4>1. trace' = Append(trace, r)
        BY <3>2 DEF RecordObservation
      <4>2. r.kind = "OBSERVATION_RECORDED"
        OBVIOUS
      <4> HIDE DEF r
      <4> QED
        BY <4>1, <4>2
    <3> QED
      BY <2>1, <3>1, <3>2 DEF OccurrencesNext
  <2>3. \A v : Told(trace', v) = Told(trace, v)
    <3>1. CASE trace' = trace
      BY <3>1
    <3>2. ASSUME NEW r, r.kind \in {"CANONICAL_EVENT_COMMITTED", "OBSERVATION_RECORDED"},
                 trace' = Append(trace, r)
          PROVE  \A v : Told(trace', v) = Told(trace, v)
      <4>1. \A s, v : StateAfter(s, r, v) = s
        BY <3>2 DEF StateAfter
      <4> QED
        BY <3>2, <4>1, RecordTells
    <3> QED
      BY <2>2, <3>1, <3>2
  <2> QED
    BY <1>1, <1>6, <1>7, <2>1, <2>3, CacheStays DEF Other
<1>8. ASSUME NEW id \in DOMAIN states, NEW mode \in Modes, NEW change \in Changes,
             TransitionMemory(id, mode, change)
      PROVE  Cached'
  <2> DEFINE r == [kind |-> "FORGETTING_EVENT_APPLIED", id |-> id,
                   state |-> Transitioned(states[id], mode, change)]
  <2>1. trace' = Append(trace, r) /\ beliefs' = [a \in Actors |-> NotOf(beliefs[a], {id})]
    BY <1>8 DEF TransitionMemory
  <2>2. r.kind = "FORGETTING_EVENT_APPLIED" /\ r.id = id
    OBVIOUS
  <2> HIDE DEF r
  <2>3. \A s, v : v # id => StateAfter(s, r, v) = s
    BY <2>2 DEF StateAfter
  <2>4. \A v : v # id => Told(trace', v) = Told(trace, v)
    BY <2>1, <2>3, RecordTells
  <2>5. \A a \in Actors : /\ IsList(beliefs'[a]) /\ Len(beliefs'[a]) <= BeliefLimit
                          /\ Elements(beliefs'[a]) \subseteq Elements(beliefs[a])
                          /\ \A b \in Elements(beliefs'[a]) : Told(trace', b.id) = Told(trace, b.id)
    BY <1>3, <2>1, <2>4
  <2>6. DOMAIN beliefs' = Actors /\ Other
    BY <1>8, <2>1 DEF Other, Transitioning
  <2> QED
    BY <1>1, <1>6, <2>5, <2>6, CacheFollows
<1>9. ASSUME NEW ids \in SUBSET Created, NEW anchor \in ids, RegisterContradiction(ids, anchor)
      PROVE  Cached'
  <2> DEFINE r == [kind |-> "MEMORY_CONTRADICTION_REGISTERED", ids |-> ids]
  <2>1. trace' = Append(trace, r) /\ beliefs' = beliefs /\ \A v \in ids : StateOf(v).stage = "ACTIVE"
    BY <1>9 DEF RegisterContradiction
  <2>2. r.kind = "MEMORY_CONTRADICTION_REGISTERED" /\ r.ids = ids
    OBVIOUS
  <2> HIDE DEF r
  <2>3. \A v \in 1..versionIds : StateOf(v) = Told(trace, v) /\ Told(trace, v) \in States
    BY DEF IInv, Faithful, StateOf, StateFromTrace, Told
  <2>4. \A v \in 1..versionIds :
          Told(trace', v) = IF v \in ids THEN Moved(Told(trace, v), "CONTRADICTED") ELSE Told(trace, v)
    <3>1. \A v \in 1..versionIds : Told(trace', v) = StateAfter(Told(trace, v), r, v)
      BY <2>1, RecordTells
    <3> QED
      BY <2>2, <2>3, <3>1, NoneIsNoState DEF StateAfter
  <2>5. \A v \in 1..versionIds :
          \/ Told(trace', v) = Told(trace, v)
          \/ /\ Told(trace, v).stage = "ACTIVE"
             /\ Told(trace', v) = Moved(Told(trace, v), "CONTRADICTED")
    BY <2>1, <2>3, <2>4
  <2>6. DOMAIN beliefs' = Actors /\ Other
    BY <1>9, <2>1 DEF Other, Contradicting, Cached
  <2>7. \A a \in Actors : /\ IsList(beliefs'[a]) /\ Len(beliefs'[a]) <= BeliefLimit
                          /\ Elements(beliefs'[a]) \subseteq Elements(beliefs[a])
                          /\ \A b \in Elements(beliefs'[a]) : b.id \in 1..versionIds
    BY <1>2, <1>4, <2>1
  <2> QED
    BY <1>1, <1>6, <2>5, <2>6, <2>7, CacheFollows
<1>10. ASSUME NEW id \in Created, QueryMemory(id)
       PROVE  Cached'
  <2> DEFINE owner == VersionOf(id).owner
             hits == Of(beliefs[owner], {id})
             other == NotOf(beliefs[owner], {id})
             next == IF hits # <<>> THEN other \o hits ELSE Newest(Append(other, Answer(id)), BeliefLimit)
  <2>1. /\ beliefs' = [beliefs EXCEPT ![owner] = next]
        /\ trace' = trace /\ UNCHANGED <<idVars, indexVars>>
    BY <1>10 DEF QueryMemory
  <2>2. DOMAIN beliefs' = Actors /\ \A a \in Actors : beliefs'[a] = IF a = owner THEN next ELSE beliefs[a]
    BY <2>1 DEF Cached
  <2>3. ASSUME owner \in Actors
        PROVE  /\ IsList(next) /\ Len(next) <= BeliefLimit
               /\ \A b \in Elements(next) : b \in Elements(beliefs[owner]) \/ b = Answer(id)
    <3> HIDE DEF owner
    <3>1. /\ IsList(other) /\ Len(other) \in Nat
          /\ \A b \in Elements(other) : b \in Elements(beliefs[owner])
          /\ IsList(hits) /\ Len(hits) \in Nat /\ Len(hits) + Len(other) = Len(beliefs[owner])
          /\ \A b \in Elements(hits) : b \in Elements(beliefs[owner])
      BY <1>2, <2>3, Dropping
    <3>2. Len(beliefs[owner]) <= BeliefLimit
      BY <1>2, <2>3
    <3> HIDE DEF hits, other
    <3>3. CASE hits # <<>>
      <4>1. next = other \o hits
        BY <3>3
      <4>2. IsList(other \o hits) /\ Elements(other \o hits) = Elements(other) \cup Elements(hits)
        BY <3>1, Concatenated
      <4>3. Len(other \o hits) = Len(other) + Len(hits)
        BY <3>1, Longer DEF IsList
      <4> HIDE DEF next
      <4> QED
        BY <3>1, <3>2, <4>1, <4>2, <4>3
    <3>4. CASE hits = <<>>
      <4> DEFINE more == Append(other, Answer(id))
      <4>1. IsList(more) /\ Elements(more) = Elements(other) \cup {Answer(id)}
        BY <3>1, Appended
      <4>2. next = Newest(more, BeliefLimit)
        BY <3>4
      <4> HIDE DEF more, next
      <4>3. IsList(next) /\ Elements(next) \subseteq Elements(more)
        BY <1>1, <4>1, <4>2, Cut
      <4>4. Halved(more, BeliefLimit, Oldest(more, BeliefLimit), next)
        BY <1>1, <4>1, <4>2, Halves
      <4>5. Len(more) \in Nat /\ Len(next) = IF Len(more) < BeliefLimit THEN Len(more) ELSE BeliefLimit
        BY <4>4 DEF Halved
      <4>6. Len(next) <= BeliefLimit
        BY <1>1, <4>5
      <4> QED
        BY <3>1, <4>1, <4>3, <4>6
    <3> QED
      BY <3>3, <3>4
  <2>4. Answer(id).id = id /\ id \in 1..versionIds
    BY DEF Answer, Created
  <2>5. Right(Answer(id))
    BY <2>4 DEF Right
  <2> HIDE DEF next, owner
  <2>6. versionIds' = versionIds /\ \A b : Right(b) => Right(b)'
    BY <2>1 DEF Right, Answer, VersionOf, VersionFromTrace, StateOf, StateFromTrace, idVars, indexVars
  <2>7. ASSUME NEW a \in Actors
        PROVE  /\ IsList(beliefs'[a]) /\ Len(beliefs'[a]) <= BeliefLimit
               /\ \A b \in Elements(beliefs'[a]) : b.id \in 1..versionIds' /\ Right(b)'
    <3>1. CASE a = owner
      <4>1. beliefs'[a] = next /\ a \in Actors
        BY <2>2, <3>1
      <4>2. \A b \in Elements(next) : b.id \in 1..versionIds /\ Right(b)
        BY <2>3, <2>4, <2>5, <3>1 DEF Cached
      <4> QED
        BY <2>3, <2>6, <3>1, <4>1, <4>2
    <3>2. CASE a # owner
      BY <2>2, <2>6, <3>2 DEF Cached
    <3> QED
      BY <3>1, <3>2
  <2> QED
    BY <2>2, <2>7 DEF Cached
<1>11. CASE SaveAndLoad
  <2>1. beliefs' = [a \in Actors |-> <<>>]
    BY <1>11 DEF SaveAndLoad
  <2>2. \A a \in Actors : beliefs'[a] = <<>> /\ DOMAIN beliefs' = Actors
    BY <2>1
  <2>3. DOMAIN beliefs' = Actors /\ Len(<<>>) = 0
    BY <2>1
  <2> QED
    BY <1>1, <2>2, <2>3, EmptyList DEF Cached
<1>12. CASE UNCHANGED vars
  <2>1. beliefs' = beliefs /\ trace' = trace
    BY <1>12 DEF vars
  <2> QED
    BY <1>1, <1>6, <1>12, <2>1, CacheStays DEF Other
<1> QED
  BY <1>5, <1>7, <1>8, <1>9, <1>10, <1>11, <1>12, StepKinds
     DEF Other, Transitioning, Contradicting, Querying

\* The empty cache.
LEMMA InitCached == Init => Cached
<1> SUFFICES ASSUME Init
             PROVE  Cached
  OBVIOUS
<1>1. beliefs = [a \in Actors |-> <<>>]
  BY DEF Init
<1>2. DOMAIN beliefs = Actors /\ \A a \in Actors : beliefs[a] = <<>>
  BY <1>1
<1>3. BeliefLimit \in Nat /\ Len(<<>>) = 0
  BY LimitsArePositive
<1> QED
  BY <1>2, <1>3, EmptyList DEF Cached

\* Whatever calls the kernel takes: a result in _belief_query_cache is the
\* one that query_memory would work out afresh, but for the version state of
\* a memory that register_contradiction has closed since, as it drops no
\* result.  Nothing forgotten, suppressed, rewritten or archived stays.
THEOREM CacheLagsOnlyContradictions == Spec => []BeliefsLagOnlyContradictions
<1>1. Init => IInv /\ Cached
  BY InitHolds, InitCached
<1>2. IInv /\ Cached /\ [Next]_vars => IInv' /\ Cached'
  BY NextKeeps, NextCaches
<1>3. Cached => BeliefsLagOnlyContradictions
  <2> SUFFICES ASSUME Cached, NEW a \in Actors, NEW i \in 1..BeliefLimit, i \in DOMAIN beliefs[a]
               PROVE  Right(beliefs[a][i])
    BY DEF BeliefsLagOnlyContradictions, Right
  <2>1. beliefs[a][i] \in Elements(beliefs[a])
    BY DEF Elements
  <2> QED
    BY <2>1 DEF Cached
<1> QED
  BY <1>1, <1>2, <1>3, PTL DEF Spec

-----------------------------------------------------------------------------
(* What the kernel's own callers see: no archived version is contradicted  *)
(* and no lineage is extended by a stranger.                               *)

\* The states are those of the live versions.
Alike == DOMAIN states = DOMAIN versions

\* A live version has the owner of its lineage.
Owned == \A v \in DOMAIN versions : versions[v].owner = lineageOwner[versions[v].lineage]

\* The empty kernel.
LEMMA InitOwned == Init => Alike /\ Owned
<1> SUFFICES ASSUME Init
             PROVE  Alike /\ Owned
  OBVIOUS
<1>1. DOMAIN versions = {} /\ DOMAIN states = {}
  BY EmptySeq DEF Init
<1> QED
  BY <1>1 DEF Alike, Owned

\* The next lineage is a new one.
LEMMA NewLineage ==
  ASSUME IInv
  PROVE  DOMAIN lineageVersions = DOMAIN lineageOwner /\ lineageIds + 1 \notin DOMAIN lineageOwner
<1>1. /\ DOMAIN lineageVersions = DOMAIN lineageOwner
      /\ lineageIds \in Nat /\ DOMAIN lineageOwner \subseteq 1..lineageIds
  BY DEF IInv, Indexed
<1>2. lineageIds + 1 \notin 1..lineageIds
  BY <1>1
<1> QED
  BY <1>1, <1>2

\* No step leaves a version without its state or a state without its version.
LEMMA NextAlike ==
  ASSUME "archived" \notin Liberties
  PROVE  IInv /\ Placed /\ Alike /\ [Next]_vars => Alike'
<1> SUFFICES ASSUME IInv, Placed, Alike, [Next]_vars
             PROVE  Alike'
  OBVIOUS
<1>1. CASE SomeAdding
  <2>1. PICK owner, lineage, isNew, version, state, rewritten :
          Adding(owner, lineage, isNew, version, state, rewritten)
    BY <1>1 DEF SomeAdding
  <2>2. PICK old, young, lost, kept, gone :
          Outcome(owner, lineage, isNew, version, rewritten, old, young, lost, kept, gone)
    BY <2>1, AddOutcome
  <2>3. /\ versions' = Drop(Put(versions, versionIds + 1, version), gone)
        /\ DOMAIN states' = (DOMAIN states \cup {versionIds + 1}) \ gone
    BY <2>2 DEF Outcome
  <2>4. DOMAIN versions' = (DOMAIN versions \cup {versionIds + 1}) \ gone
    BY <2>3 DEF Drop, Put
  <2> QED
    BY <2>3, <2>4 DEF Alike
<1>2. CASE Steady
  BY <1>2 DEF Steady, Alike
<1> QED
  BY <1>1, <1>2, StepKinds, OthersAreSteady

\* While no archived version is contradicted, whatever the kernel creates,
\* archives, forgets and answers: the live indexes hold the same versions,
\* each of them in the list of its lineage and each lineage in the list of
\* its owner; clarity stays between 0 and 1000, a residue that is kept has an
\* intensity, and the cache keeps to its bound.
THEOREM IndexesAgree ==
  ASSUME "archived" \notin Liberties
  PROVE  Spec => []TypeOK
<1>1. Init => IInv /\ Placed /\ Cached /\ Alike
  BY InitHolds, InitPlaced, InitCached, InitOwned
<1>2. IInv /\ Placed /\ Cached /\ Alike /\ [Next]_vars => IInv' /\ Placed' /\ Cached' /\ Alike'
  BY NextKeeps, NextPlaces, NextCaches, NextAlike
<1>3. IInv /\ Placed /\ Cached /\ Alike => TypeOK
  <2> SUFFICES ASSUME IInv, Placed, Cached, Alike
               PROVE  TypeOK
    OBVIOUS
  <2>1. \A v \in DOMAIN states : states[v] \in States
    BY DEF IInv, Faithful
  <2>2. DOMAIN versions = UNION {Elements(lineageVersions[l]) : l \in DOMAIN lineageVersions}
    <3>1. \A l \in DOMAIN lineageVersions : Elements(lineageVersions[l]) \subseteq DOMAIN versions
      BY DEF Placed
    <3>2. \A v \in DOMAIN versions :
            \E l \in DOMAIN lineageVersions : v \in Elements(lineageVersions[l])
      BY DEF Placed
    <3> QED
      BY <3>1, <3>2
  <2>3. DOMAIN lineageVersions = DOMAIN lineageOwner
    BY DEF IInv, Indexed
  <2>4. DOMAIN lineageOwner = UNION {Elements(actorLineages[a]) : a \in DOMAIN actorLineages}
    <3>1. \A a \in DOMAIN actorLineages : Elements(actorLineages[a]) \subseteq DOMAIN lineageOwner
      BY ListFacts DEF IInv, Indexed
    <3>2. \A l \in DOMAIN lineageOwner :
            \E a \in DOMAIN actorLineages : l \in Elements(actorLineages[a])
      BY DEF Placed
    <3> QED
      BY <3>1, <3>2
  <2>5. \A a \in Actors : Len(beliefs[a]) <= BeliefLimit
    BY DEF Cached
  <2> QED
    BY <2>1, <2>2, <2>3, <2>4, <2>5 DEF TypeOK, Alike
<1> QED
  BY <1>1, <1>2, <1>3, PTL DEF Spec

\* No step gives a lineage a version of a stranger.
LEMMA NextOwned ==
  ASSUME "foreign lineage" \notin Liberties
  PROVE  IInv /\ Placed /\ Owned /\ [Next]_vars => Owned'
<1> SUFFICES ASSUME IInv, Placed, Owned, [Next]_vars
             PROVE  Owned'
  OBVIOUS
<1>1. CASE SomeAdding
  <2>1. PICK owner, lineage, isNew, version, state, rewritten :
          Adding(owner, lineage, isNew, version, state, rewritten)
    BY <1>1 DEF SomeAdding
  <2>2. PICK old, young, lost, kept, gone :
          Outcome(owner, lineage, isNew, version, rewritten, old, young, lost, kept, gone)
    BY <2>1, AddOutcome
  <2> DEFINE id == versionIds + 1
  <2> HIDE DEF id
  <2>3. /\ versions' = Drop(Put(versions, id, version), gone)
        /\ lineageOwner' = Drop(IF isNew THEN Put(lineageOwner, lineage, owner) ELSE lineageOwner, lost)
        /\ lost \subseteq DOMAIN lineageOwner \ {lineage}
        /\ gone = old \cup UNION {Elements(lineageVersions[l]) : l \in lost}
    BY <2>2 DEF Outcome, id
  <2>4. /\ DOMAIN versions' = (DOMAIN versions \cup {id}) \ gone
        /\ \A v \in DOMAIN versions' : versions'[v] = IF v = id THEN version ELSE versions[v]
    BY <2>3 DEF Drop, Put
  <2>5. version.lineage = lineage /\ version.owner = owner
    BY <2>1 DEF Adding
  <2>6. DOMAIN lineageVersions = DOMAIN lineageOwner /\ lineageIds + 1 \notin DOMAIN lineageOwner
    BY NewLineage
  <2>7. lineageOwner'[lineage] = owner
    <3>1. CASE isNew
      BY <2>3, <3>1 DEF Drop, Put
    <3>2. CASE ~isNew
      <4>1. /\ lineage \in DOMAIN lineageOwner
            /\ lineageOwner[lineage] = owner \/ version.parents # {}
            /\ \A p \in version.parents : /\ p \in DOMAIN versions /\ versions[p].lineage = lineage
                                          /\ versions[p].owner = owner
        BY <2>1, <3>2 DEF Adding
      <4>2. lineageOwner[lineage] = owner
        BY <4>1 DEF Owned
      <4> QED
        BY <2>3, <3>2, <4>1, <4>2 DEF Drop
    <3> QED
      BY <3>1, <3>2
  <2>8. isNew => lineage = lineageIds + 1
    BY <2>1 DEF Adding
  <2> SUFFICES ASSUME NEW v \in DOMAIN versions'
               PROVE  versions'[v].owner = lineageOwner'[versions'[v].lineage]
    BY DEF Owned
  <2>9. CASE v = id
    BY <2>4, <2>5, <2>7, <2>9
  <2>10. CASE v # id
    <3> DEFINE k == versions[v].lineage
    <3>1. v \in DOMAIN versions /\ v \notin gone /\ versions'[v] = versions[v]
      BY <2>4, <2>10
    <3>2. k \in DOMAIN lineageOwner /\ v \in Elements(lineageVersions[k]) /\ versions[v].owner = lineageOwner[k]
      BY <2>6, <3>1 DEF Placed, Owned
    <3>3. k \notin lost
      BY <2>3, <3>1, <3>2
    <3> HIDE DEF k
    <3>4. lineageOwner'[k] = lineageOwner[k]
      <4>1. CASE isNew
        <5>1. k # lineage
          BY <2>6, <2>8, <3>2, <4>1
        <5> QED
          BY <2>3, <3>2, <3>3, <4>1, <5>1 DEF Drop, Put
      <4>2. CASE ~isNew
        BY <2>3, <3>2, <3>3, <4>2 DEF Drop
      <4> QED
        BY <4>1, <4>2
    <3> QED
      BY <3>1, <3>2, <3>4 DEF k
  <2> QED
    BY <2>9, <2>10
<1>2. CASE Steady
  <2>1. versions' = versions /\ lineageOwner' = lineageOwner
    BY <1>2 DEF Steady
  <2> QED
    BY <2>1 DEF Owned
<1> QED
  BY <1>1, <1>2, StepKinds, OthersAreSteady

\* The versions of an owner have different places in its lists.
LEMMA OwnersFit ==
  ASSUME IInv, Placed, Alike, Owned, NEW a
  PROVE  Cardinality({v \in DOMAIN states : VersionOf(v).owner = a}) <= LineageLimit * VersionLimit
<1> DEFINE S == {v \in DOMAIN states : VersionOf(v).owner = a}
           T == (1..LineageLimit) \X (1..VersionLimit)
           At2(p) == lineageVersions[actorLineages[a][p[1]]][p[2]]
           f == [v \in S |-> CHOOSE p \in T : At2(p) = v]
<1>1. LineageLimit \in Nat /\ VersionLimit \in Nat
  BY LimitsArePositive
<1>2. ASSUME NEW v \in S
      PROVE  \E p \in T : At2(p) = v
  <2> DEFINE l == versions[v].lineage
  <2>1. v \in DOMAIN versions /\ versions[v].owner = a
    BY DEF Alike, VersionOf
  <2>2. l \in DOMAIN lineageVersions /\ l \in DOMAIN lineageOwner /\ v \in Elements(lineageVersions[l])
    BY <2>1 DEF Placed, IInv, Indexed
  <2>3. lineageOwner[l] = a
    BY <2>1 DEF Owned
  <2> HIDE DEF l
  <2>4. a \in DOMAIN actorLineages /\ l \in Elements(actorLineages[a])
    BY <2>2, <2>3 DEF Placed
  <2>5. actorLineages[a] \in Seq(DOMAIN lineageOwner) /\ Len(actorLineages[a]) <= LineageLimit
    BY <2>4 DEF Placed, IInv, Indexed
  <2>6. lineageVersions[l] \in Seq(Nat) /\ Len(lineageVersions[l]) \in 1..VersionLimit
    BY <2>2 DEF Placed, IInv, Indexed
  <2>7. PICK i \in 1..Len(actorLineages[a]) : l = actorLineages[a][i]
    BY <2>4, <2>5, ListFacts
  <2>8. PICK j \in 1..Len(lineageVersions[l]) : v = lineageVersions[l][j]
    BY <2>2, <2>6, ListFacts
  <2>9. i \in 1..LineageLimit /\ j \in 1..VersionLimit
    <3>1. Len(actorLineages[a]) \in Nat
      BY <2>5, ListFacts
    <3> QED
      BY <1>1, <2>5, <2>6, <3>1
  <2>10. <<i, j>> \in T /\ At2(<<i, j>>) = v
    BY <2>7, <2>8, <2>9
  <2> QED
    BY <2>10
<1>3. \A v \in S : f[v] \in T /\ At2(f[v]) = v
  BY <1>2
<1>4. f \in Injection(S, T)
  <2>1. f \in [S -> T]
    BY <1>3
  <2>2. \A v, w \in S : f[v] = f[w] => v = w
    BY <1>3
  <2> HIDE DEF f, S, T, At2
  <2> QED
    BY <2>1, <2>2 DEF Injection, IsInjective
<1>5. IsFiniteSet(T) /\ Cardinality(T) = LineageLimit * VersionLimit
  <2>1. /\ IsFiniteSet(1..LineageLimit) /\ Cardinality(1..LineageLimit) = LineageLimit
        /\ IsFiniteSet(1..VersionLimit) /\ Cardinality(1..VersionLimit) = VersionLimit
    BY <1>1, FS_Interval
  <2> DEFINE I == 1..LineageLimit
             J == 1..VersionLimit
  <2> HIDE DEF I, J
  <2>2. IsFiniteSet(I \X J) /\ Cardinality(I \X J) = Cardinality(I) * Cardinality(J)
    BY <2>1, FS_Product DEF I, J
  <2> QED
    BY <2>1, <2>2 DEF I, J
<1> HIDE DEF f, S, T
<1>6. Cardinality(S) <= Cardinality(T)
  BY <1>4, <1>5, FS_Injection
<1> QED
  BY <1>5, <1>6 DEF S

\* While no archived version is contradicted and no lineage extended by a
\* stranger: the live memories of an actor never exceed what
\* _enforce_memory_bounds leaves it, whatever it creates and rewrites.
THEOREM LiveMemoryIsBounded ==
  ASSUME "archived" \notin Liberties, "foreign lineage" \notin Liberties
  PROVE  Spec => []LiveMemoryBounded
<1>1. Init => IInv /\ Placed /\ Alike /\ Owned
  BY InitHolds, InitPlaced, InitOwned
<1>2. IInv /\ Placed /\ Alike /\ Owned /\ [Next]_vars => IInv' /\ Placed' /\ Alike' /\ Owned'
  BY NextKeeps, NextPlaces, NextAlike, NextOwned
<1>3. IInv /\ Placed /\ Alike /\ Owned => LiveMemoryBounded
  BY OwnersFit DEF LiveMemoryBounded
<1> QED
  BY <1>1, <1>2, <1>3, PTL DEF Spec

\* Whatever was archived, forgotten, rewritten, contradicted or loaded
\* again, get_memory_version and get_memory_state answer for every id what
\* the history says of it: a lookup never shows which versions are live.
THEOREM LookupsTellHistory == Spec => []LookupIsHistory
<1>1. IInv => LookupIsHistory
  BY DEF IInv, Faithful, LookupIsHistory, VersionOf, StateOf, VersionFromTrace, VersionIn,
         StateFromTrace, Told
<1> QED
  BY <1>1, InitHolds, NextKeeps, PTL DEF Spec

-----------------------------------------------------------------------------
(* Replaying a trace.                                                      *)

\* f gives what replay has after each record.
Replays(f, t, last) ==
  f = [n \in 0..last |-> IF n = 0 THEN Blank ELSE Replayed(f[n - 1], t[n], n)]

\* There is such a function for every trace.
LEMMA Replaying ==
  ASSUME NEW t, NEW last \in Nat
  PROVE  \E f : Replays(f, t, last)
<1> DEFINE T == {m \in Nat : ~ \E f : Replays(f, t, m)}
<1>1. CASE T = {}
  BY <1>1
<1>2. CASE T # {}
  <2>0. T \subseteq Nat
    OBVIOUS
  <2>1. PICK m \in T : \A k \in T : m <= k
    BY <1>2, <2>0, HasLeast
  <2>2. CASE m = 0
    <3>1. Replays([n \in 0..0 |-> Blank], t, 0)
      BY DEF Replays
    <3> QED
      BY <2>1, <2>2, <3>1
  <2>3. CASE m # 0
    <3>1. m - 1 \in Nat /\ m - 1 \notin T /\ m \in Nat
      BY <2>1, <2>3
    <3>2. PICK f : Replays(f, t, m - 1)
      BY <3>1
    <3> DEFINE g == [n \in 0..m |-> IF n = m THEN Replayed(f[m - 1], t[m], m) ELSE f[n]]
    <3>3. \A n \in 0..(m - 1) :
            g[n] = f[n] /\ f[n] = IF n = 0 THEN Blank ELSE Replayed(f[n - 1], t[n], n)
      BY <3>1, <3>2 DEF Replays
    <3>4. \A n \in 0..m : g[n] = IF n = 0 THEN Blank ELSE Replayed(g[n - 1], t[n], n)
      <4> TAKE n \in 0..m
      <4>1. CASE n = m
        BY <2>3, <3>1, <3>3, <4>1
      <4>2. CASE n # m /\ n # 0
        <5>1. n \in 0..(m - 1) /\ n - 1 \in 0..(m - 1)
          BY <3>1, <4>2
        <5> QED
          BY <3>3, <4>2, <5>1
      <4>3. CASE n = 0
        <5>1. n \in 0..(m - 1)
          BY <3>1, <4>3
        <5> QED
          BY <3>3, <4>3, <5>1
      <4> QED
        BY <4>1, <4>2, <4>3
    <3>5. g = [n \in 0..m |-> g[n]]
      OBVIOUS
    <3> HIDE DEF g
    <3>6. Replays(g, t, m)
      BY <3>4, <3>5 DEF Replays
    <3> QED
      BY <2>1, <3>6
  <2> QED
    BY <2>2, <2>3
<1> QED
  BY <1>1, <1>2

\* What replaying a trace gives.
ReplayOf(t) ==
  LET upTo[n \in 0..Len(t)] == IF n = 0 THEN Blank ELSE Replayed(upTo[n - 1], t[n], n)
  IN  upTo[Len(t)]

\* What is replayed from a trace is reached turn by turn.
LEMMA ReplayFollows ==
  ASSUME NEW t, Len(t) \in Nat
  PROVE  \E f : /\ f[Len(t)] = ReplayOf(t) /\ f[0] = Blank
                /\ \A n \in 1..Len(t) : f[n] = Replayed(f[n - 1], t[n], n)
<1> DEFINE f == CHOOSE f : Replays(f, t, Len(t))
<1>1. Replays(f, t, Len(t))
  BY Replaying
<1>2. ReplayOf(t) = f[Len(t)]
  BY DEF ReplayOf, Replays
<1> HIDE DEF f
<1>3. \A n \in 0..Len(t) : f[n] = IF n = 0 THEN Blank ELSE Replayed(f[n - 1], t[n], n)
  BY <1>1 DEF Replays
<1>4. 0 \in 0..Len(t) /\ \A n \in 1..Len(t) : n \in 0..Len(t) /\ n # 0
  OBVIOUS
<1>5. f[0] = Blank /\ \A n \in 1..Len(t) : f[n] = Replayed(f[n - 1], t[n], n)
  BY <1>3, <1>4
<1> QED
  BY <1>2, <1>5

\* Of a trace that goes on: g follows the records that come after.
LEMMA ReplayOn ==
  ASSUME NEW t, IsList(t), NEW u, IsList(u), NEW g, g[0] = ReplayOf(t),
         \A n \in 1..Len(u) : g[n] = Replayed(g[n - 1], u[n], Len(t) + n)
  PROVE  ReplayOf(t \o u) = g[Len(u)]
<1> DEFINE tu == t \o u
<1>1. /\ Len(t) \in Nat /\ Len(u) \in Nat /\ Len(tu) = Len(t) + Len(u)
      /\ \A i \in 1..Len(t) : tu[i] = t[i]
      /\ \A i \in 1..Len(u) : tu[Len(t) + i] = u[i]
  BY ConcatenatedEntries
<1> HIDE DEF tu
<1>2. PICK f : /\ f[Len(t)] = ReplayOf(t) /\ f[0] = Blank
               /\ \A n \in 1..Len(t) : f[n] = Replayed(f[n - 1], t[n], n)
  BY <1>1, ReplayFollows
<1>3. PICK h : /\ h[Len(tu)] = ReplayOf(tu) /\ h[0] = Blank
               /\ \A n \in 1..Len(tu) : h[n] = Replayed(h[n - 1], tu[n], n)
  <2>1. Len(tu) \in Nat
    BY <1>1
  <2> QED
    BY <2>1, ReplayFollows
<1>4. h[Len(t)] = f[Len(t)]
  <2> DEFINE T == {n \in 0..Len(t) : h[n] # f[n]}
  <2>1. CASE T # {}
    <3>0. T \subseteq Nat
      BY <1>1
    <3>1. PICK m \in T : \A k \in T : m <= k
      BY <2>1, <3>0, HasLeast
    <3>2. m # 0 /\ m \in 1..Len(t) /\ m \in 1..Len(tu) /\ m - 1 \in 0..Len(t) /\ ~(m <= m - 1)
      BY <1>1, <1>2, <1>3, <3>1
    <3>3. h[m - 1] = f[m - 1] /\ tu[m] = t[m]
      BY <1>1, <3>1, <3>2
    <3>4. h[m] = f[m]
      BY <1>2, <1>3, <3>2, <3>3
    <3> QED
      BY <3>1, <3>4
  <2>2. CASE T = {}
    <3>1. Len(t) \in 0..Len(t)
      BY <1>1
    <3> QED
      BY <2>2, <3>1
  <2> QED
    BY <2>1, <2>2
<1> DEFINE T == {n \in 0..Len(u) : h[Len(t) + n] # g[n]}
<1>5. CASE T # {}
  <2>0. T \subseteq Nat
    BY <1>1
  <2>1. PICK m \in T : \A k \in T : m <= k
    BY <1>5, <2>0, HasLeast
  <2>2. m # 0
    <3>1. Len(t) + 0 = Len(t)
      BY <1>1
    <3> QED
      BY <1>2, <1>4, <2>1, <3>1
  <2>3. /\ m \in 1..Len(u) /\ Len(t) + m \in 1..Len(tu) /\ m - 1 \in 0..Len(u) /\ ~(m <= m - 1)
        /\ (Len(t) + m) - 1 = Len(t) + (m - 1)
    BY <1>1, <2>1, <2>2
  <2>4. h[(Len(t) + m) - 1] = g[m - 1] /\ tu[Len(t) + m] = u[m]
    BY <1>1, <2>1, <2>3
  <2>5. h[Len(t) + m] = Replayed(g[m - 1], u[m], Len(t) + m)
    BY <1>3, <2>3, <2>4
  <2> QED
    BY <2>1, <2>3, <2>5
<1>6. CASE T = {}
  <2>1. Len(u) \in 0..Len(u)
    BY <1>1
  <2> QED
    BY <1>1, <1>3, <1>6, <2>1 DEF tu
<1> QED
  BY <1>5, <1>6

\* One record more.
LEMMA ReplayOne ==
  ASSUME NEW t, IsList(t), NEW r
  PROVE  ReplayOf(Append(t, r)) = Replayed(ReplayOf(t), r, Len(t) + 1)
<1> DEFINE u == <<r>>
           g == [n \in 0..1 |-> IF n = 0 THEN ReplayOf(t) ELSE Replayed(ReplayOf(t), r, Len(t) + 1)]
<1>1. IsList(u) /\ Len(u) = 1 /\ u[1] = r /\ u = <<r>>
  BY AppendedOnly
<1>2. Append(t, r) = t \o u
  <2>1. t \in Seq(Elements(t) \cup {r})
    BY SeqMonotonic DEF IsList
  <2> QED
    BY <2>1, AppendIsConcat
<1>3. g[0] = ReplayOf(t) /\ g[1] = Replayed(g[1 - 1], u[1], Len(t) + 1)
  BY <1>1
<1> HIDE DEF g, u
<1>4. \A n \in 1..Len(u) : g[n] = Replayed(g[n - 1], u[n], Len(t) + n)
  BY <1>1, <1>3
<1>5. IsList(u) /\ g[0] = ReplayOf(t)
  BY <1>1, <1>3
<1>6. ReplayOf(t \o u) = g[Len(u)]
  BY <1>4, <1>5, ReplayOn
<1> QED
  BY <1>1, <1>2, <1>3, <1>6

-----------------------------------------------------------------------------
(* One turn of the replay.                                                 *)

\* A kernel that replay has not failed on.
Kernel(v, s, lv, lo, al, fg, rs, so) ==
  [ok |-> TRUE, versions |-> v, states |-> s, lineageVersions |-> lv, lineageOwner |-> lo,
   actorLineages |-> al, forgetting |-> fg, references |-> rs, sourceOf |-> so]

\* A version is created.
LEMMA TurnCreated ==
  ASSUME NEW v, NEW s, NEW lv, NEW lo, NEW al, NEW fg, NEW rs, NEW so,
         NEW id, NEW version, NEW state, NEW n, NEW lineage, NEW owner, NEW made,
         lineage = version.lineage, owner = version.owner,
         made = Put(so, Reference("MEMORY_VERSION", id), n)
  PROVE  Replayed(Kernel(v, s, lv, lo, al, fg, rs, so), Creation(id, version, state), n) =
           IF lineage \notin DOMAIN lo
           THEN Kernel(Put(v, id, version), Put(s, id, state),
                       Put(lv, lineage, Append(At(lv, lineage, <<>>), id)),
                       Put(lo, lineage, owner), Put(al, owner, Append(At(al, owner, <<>>), lineage)),
                       fg, rs, Put(made, Reference("MEMORY_LINEAGE", lineage), n))
           ELSE Kernel(Put(v, id, version), Put(s, id, state),
                       Put(lv, lineage, Append(At(lv, lineage, <<>>), id)), lo, al, fg, rs, made)
<1> DEFINE k == Kernel(v, s, lv, lo, al, fg, rs, so)
           r == Creation(id, version, state)
<1>1. /\ k.ok = TRUE /\ r.kind = "MEMORY_VERSION_CREATED" /\ r.id = id /\ r.version = version /\ r.state = state
  BY DEF Kernel, Creation
<1>2. Replayed(k, r, n) = ReplayCreated(k, r, n)
  BY <1>1 DEF Replayed
<1>3. /\ k.versions = v /\ k.states = s /\ k.lineageVersions = lv /\ k.lineageOwner = lo
      /\ k.actorLineages = al /\ k.sourceOf = so
  BY DEF Kernel
<1>4. PICK was : was = k
  OBVIOUS
<1> DEFINE v2 == Put(v, id, version)
           s2 == Put(s, id, state)
           lv2 == Put(lv, lineage, Append(At(lv, lineage, <<>>), id))
           lo2 == IF lineage \notin DOMAIN lo THEN Put(lo, lineage, owner) ELSE lo
           al2 == IF lineage \notin DOMAIN lo THEN Put(al, owner, Append(At(al, owner, <<>>), lineage)) ELSE al
           so2 == IF lineage \notin DOMAIN lo THEN Put(made, Reference("MEMORY_LINEAGE", lineage), n) ELSE made
<1>5. ReplayCreated(was, r, n) =
        [was EXCEPT !.versions = v2, !.states = s2, !.lineageVersions = lv2, !.lineageOwner = lo2,
                    !.actorLineages = al2, !.sourceOf = so2]
  <2> HIDE DEF k, r
  <2> QED
    BY <1>1, <1>3, <1>4 DEF ReplayCreated
<1> HIDE DEF v2, s2, lv2, lo2, al2, so2
<1>6. PICK now : now = [was EXCEPT !.versions = v2, !.states = s2, !.lineageVersions = lv2,
                                   !.lineageOwner = lo2, !.actorLineages = al2, !.sourceOf = so2]
  OBVIOUS
<1>7. now = Kernel(v2, s2, lv2, lo2, al2, fg, rs, so2)
  BY <1>4, <1>6 DEF Kernel
<1>8. Replayed(k, r, n) = Kernel(v2, s2, lv2, lo2, al2, fg, rs, so2)
  <2> HIDE DEF k, r
  <2> QED
    BY <1>2, <1>4, <1>5, <1>6, <1>7
<1> QED
  BY <1>8 DEF v2, s2, lv2, lo2, al2, so2

\* A version is closed by a rewriting.
LEMMA TurnRewritten ==
  ASSUME NEW v, NEW s, NEW lv, NEW lo, NEW al, NEW fg, NEW rs, NEW so,
         NEW r, NEW n, r.kind = "MEMORY_VERSION_REWRITTEN", r.parent \in DOMAIN s
  PROVE  Replayed(Kernel(v, s, lv, lo, al, fg, rs, so), r, n) =
           Kernel(v, [x \in DOMAIN s |-> IF x = r.parent THEN Moved(s[x], "REWRITTEN") ELSE s[x]],
                  lv, lo, al, fg, rs, so)
<1> DEFINE k == Kernel(v, s, lv, lo, al, fg, rs, so)
           p == {r.parent}
<1>1. k.ok = TRUE /\ k.states = s
  BY DEF Kernel
<1>2. Replayed(k, r, n) = ReplayMoved(k, p, "REWRITTEN")
  BY <1>1 DEF Replayed
<1>3. [x \in DOMAIN s |-> IF x \in p THEN Moved(s[x], "REWRITTEN") ELSE s[x]] =
      [x \in DOMAIN s |-> IF x = r.parent THEN Moved(s[x], "REWRITTEN") ELSE s[x]]
  OBVIOUS
<1>4. p \subseteq DOMAIN s
  OBVIOUS
<1> HIDE DEF p
<1>5. ReplayMoved(k, p, "REWRITTEN") =
        Kernel(v, [x \in DOMAIN s |-> IF x \in p THEN Moved(s[x], "REWRITTEN") ELSE s[x]],
               lv, lo, al, fg, rs, so)
  BY <1>1, <1>4 DEF ReplayMoved, Kernel
<1> QED
  BY <1>2, <1>3, <1>5

\* Versions are found to contradict each other.
LEMMA TurnContradicted ==
  ASSUME NEW v, NEW s, NEW lv, NEW lo, NEW al, NEW fg, NEW rs, NEW so,
         NEW r, NEW n, r.kind = "MEMORY_CONTRADICTION_REGISTERED", r.ids \subseteq DOMAIN s
  PROVE  Replayed(Kernel(v, s, lv, lo, al, fg, rs, so), r, n) =
           Kernel(v, [x \in DOMAIN s |-> IF x \in r.ids THEN Moved(s[x], "CONTRADICTED") ELSE s[x]],
                  lv, lo, al, fg, rs, so)
<1> DEFINE k == Kernel(v, s, lv, lo, al, fg, rs, so)
<1>1. k.ok = TRUE /\ k.states = s
  BY DEF Kernel
<1>2. Replayed(k, r, n) = ReplayMoved(k, r.ids, "CONTRADICTED")
  BY <1>1 DEF Replayed
<1>5. ReplayMoved(k, r.ids, "CONTRADICTED") =
        Kernel(v, [x \in DOMAIN s |-> IF x \in r.ids THEN Moved(s[x], "CONTRADICTED") ELSE s[x]],
               lv, lo, al, fg, rs, so)
  BY <1>1 DEF ReplayMoved, Kernel
<1> QED
  BY <1>2, <1>5

\* A memory fades, comes back or is suppressed.
LEMMA TurnForgetting ==
  ASSUME NEW v, NEW s, NEW lv, NEW lo, NEW al, NEW fg, NEW rs, NEW so,
         NEW r, NEW n, r.kind = "FORGETTING_EVENT_APPLIED"
  PROVE  Replayed(Kernel(v, s, lv, lo, al, fg, rs, so), r, n) =
           Kernel(v, Put(s, r.id, r.state), lv, lo, al, fg + 1, rs, so)
BY DEF Replayed, Kernel

\* The reference to what leaves them.
LEMMA Noting ==
  ASSUME NEW v, NEW s, NEW lv, NEW lo, NEW al, NEW fg, NEW rs, NEW so, NEW ref, NEW n, NEW noted,
         noted = Kernel(v, s, lv, lo, al, fg, Append(rs, ref), Drop(so, {ref}))
  PROVE  Replayed(Kernel(v, s, lv, lo, al, fg, rs, so), Eviction(ref), n) =
           CASE ref.kind = "MEMORY_VERSION" -> ReplayVersionEvicted(noted, ref.id)
             [] ref.kind = "MEMORY_LINEAGE" -> ReplayLineageEvicted(noted, ref.id)
<1> DEFINE k == Kernel(v, s, lv, lo, al, fg, rs, so)
           r == Eviction(ref)
<1>1. k.ok = TRUE /\ r.kind = "LIVE_INDEX_EVICTED" /\ r.reference = ref
  BY DEF Kernel, Eviction
<1>2. Replayed(k, r, n) = ReplayEvicted(k, ref)
  BY <1>1 DEF Replayed
<1>3. [k EXCEPT !.references = Append(@, ref), !.sourceOf = Drop(@, {ref})] = noted
  <2> DEFINE refs == Append(rs, ref)
             sources == Drop(so, {ref})
  <2>1. k.references = rs /\ k.sourceOf = so
    BY DEF Kernel
  <2>2. [k EXCEPT !.references = Append(@, ref), !.sourceOf = Drop(@, {ref})] =
          [k EXCEPT !.references = refs, !.sourceOf = sources]
    <3> HIDE DEF k
    <3> QED
      BY <2>1
  <2>3. noted = Kernel(v, s, lv, lo, al, fg, refs, sources)
    OBVIOUS
  <2> HIDE DEF refs, sources
  <2>4. PICK was : was = k
    OBVIOUS
  <2>5. PICK now : now = [was EXCEPT !.references = refs, !.sourceOf = sources]
    OBVIOUS
  <2>6. now = Kernel(v, s, lv, lo, al, fg, refs, sources)
    BY <2>4, <2>5 DEF Kernel
  <2> HIDE DEF k
  <2> QED
    BY <2>2, <2>3, <2>4, <2>5, <2>6
<1> HIDE DEF k
<1>4. ReplayEvicted(k, ref) =
           CASE ref.kind = "MEMORY_VERSION" -> ReplayVersionEvicted(noted, ref.id)
             [] ref.kind = "MEMORY_LINEAGE" -> ReplayLineageEvicted(noted, ref.id)
  BY <1>3 DEF ReplayEvicted
<1> QED
  BY <1>2, <1>4 DEF k

\* A version leaves the live indexes.
LEMMA TurnVersionGone ==
  ASSUME NEW v, NEW s, NEW lv, NEW lo, NEW al, NEW fg, NEW rs, NEW so,
         NEW ref, NEW n, ref.kind = "MEMORY_VERSION", NEW lineage,
         lineage = IF ref.id \in DOMAIN v THEN v[ref.id].lineage ELSE None
  PROVE  Replayed(Kernel(v, s, lv, lo, al, fg, rs, so), Eviction(ref), n) =
           Kernel(Drop(v, {ref.id}), Drop(s, {ref.id}),
                  IF lineage \in DOMAIN lv THEN Put(lv, lineage, Without(lv[lineage], ref.id)) ELSE lv,
                  lo, al, fg, Append(rs, ref), Drop(so, {ref}))
<1> DEFINE id == ref.id
           refs == Append(rs, ref)
           sources == Drop(so, {ref})
           noted == Kernel(v, s, lv, lo, al, fg, refs, sources)
           lessVersions == Drop(v, {id})
           lessStates == Drop(s, {id})
           lvNow == IF lineage \in DOMAIN lv THEN Put(lv, lineage, Without(lv[lineage], id)) ELSE lv
<1>1. Replayed(Kernel(v, s, lv, lo, al, fg, rs, so), Eviction(ref), n) = ReplayVersionEvicted(noted, id)
  <2>1. noted = Kernel(v, s, lv, lo, al, fg, Append(rs, ref), Drop(so, {ref}))
    OBVIOUS
  <2> HIDE DEF noted
  <2> QED
    BY <2>1, Noting
<1>2. noted.versions = v /\ noted.states = s /\ noted.lineageVersions = lv
  BY DEF Kernel
<1>3. ReplayVersionEvicted(noted, id) =
        [noted EXCEPT !.versions = lessVersions, !.states = lessStates, !.lineageVersions = lvNow]
  <2> HIDE DEF noted
  <2> QED
    BY <1>2 DEF ReplayVersionEvicted
<1> HIDE DEF lvNow, lessVersions, lessStates, refs, sources
<1>4. ReplayVersionEvicted(noted, id) =
        Kernel(lessVersions, lessStates, lvNow, lo, al, fg, refs, sources)
  <2>1. PICK k : k = noted
    OBVIOUS
  <2>2. PICK now : now = [k EXCEPT !.versions = lessVersions, !.states = lessStates,
                                   !.lineageVersions = lvNow]
    OBVIOUS
  <2>3. now = Kernel(lessVersions, lessStates, lvNow, lo, al, fg, refs, sources)
    BY <2>1, <2>2 DEF Kernel
  <2> HIDE DEF noted
  <2> QED
    BY <1>3, <2>1, <2>2, <2>3
<1> QED
  BY <1>1, <1>4 DEF lvNow, lessVersions, lessStates, refs, sources

\* A lineage leaves the live indexes.
LEMMA TurnLineageGone ==
  ASSUME NEW v, NEW s, NEW lv, NEW lo, NEW al, NEW fg, NEW rs, NEW so,
         NEW ref, NEW n, ref.kind = "MEMORY_LINEAGE", NEW owner, NEW left,
         owner = At(lo, ref.id, None), left = Without(At(al, owner, <<>>), ref.id)
  PROVE  Replayed(Kernel(v, s, lv, lo, al, fg, rs, so), Eviction(ref), n) =
           Kernel(v, s, Drop(lv, {ref.id}), Drop(lo, {ref.id}),
                  IF left = <<>> THEN Drop(al, {owner}) ELSE Put(al, owner, left),
                  fg, Append(rs, ref), Drop(so, {ref}))
<1> DEFINE l == ref.id
           put == Put(al, owner, left)
           dropped == Drop(al, {owner})
           refs == Append(rs, ref)
           sources == Drop(so, {ref})
           noted == Kernel(v, s, lv, lo, al, fg, refs, sources)
           lessVersions == Drop(lv, {l})
           lessOwner == Drop(lo, {l})
           alNow == IF left = <<>> THEN dropped ELSE put
<1>1. Replayed(Kernel(v, s, lv, lo, al, fg, rs, so), Eviction(ref), n) = ReplayLineageEvicted(noted, l)
  <2>1. noted = Kernel(v, s, lv, lo, al, fg, Append(rs, ref), Drop(so, {ref}))
    OBVIOUS
  <2> HIDE DEF noted
  <2> QED
    BY <2>1, Noting
<1>2. /\ noted.lineageOwner = lo /\ noted.actorLineages = al /\ noted.lineageVersions = lv
  BY DEF Kernel
<1>3. ReplayLineageEvicted(noted, l) =
        [noted EXCEPT !.lineageVersions = lessVersions, !.lineageOwner = lessOwner,
                      !.actorLineages = alNow]
  <2> HIDE DEF noted
  <2> QED
    BY <1>2 DEF ReplayLineageEvicted
<1> HIDE DEF alNow, lessOwner, lessVersions, refs, sources
<1>4. ReplayLineageEvicted(noted, l) =
        Kernel(v, s, lessVersions, lessOwner, alNow, fg, refs, sources)
  <2>1. PICK k : k = noted
    OBVIOUS
  <2>2. PICK now : now = [k EXCEPT !.lineageVersions = lessVersions, !.lineageOwner = lessOwner,
                                   !.actorLineages = alNow]
    OBVIOUS
  <2>3. now = Kernel(v, s, lessVersions, lessOwner, alNow, fg, refs, sources)
    BY <2>1, <2>2 DEF Kernel
  <2> HIDE DEF noted
  <2> QED
    BY <1>3, <2>1, <2>2, <2>3
<1> QED
  BY <1>1, <1>4 DEF alNow, lessOwner, lessVersions, refs, sources

\* What is told of events and observations.
LEMMA TurnBeside ==
  ASSUME NEW v, NEW s, NEW lv, NEW lo, NEW al, NEW fg, NEW rs, NEW so, NEW r, NEW n,
         r.kind \in {"CANONICAL_EVENT_COMMITTED", "OBSERVATION_RECORDED"}
  PROVE  Replayed(Kernel(v, s, lv, lo, al, fg, rs, so), r, n) = Kernel(v, s, lv, lo, al, fg, rs, so)
BY DEF Replayed, Kernel

-----------------------------------------------------------------------------
(* Replaying what was archived.                                            *)

\* Leaving one entry out.
LEMMA WithoutOne ==
  ASSUME NEW s, IsList(s), NEW x
  PROVE  /\ Without(s, x) = Sans(s, {x})
         /\ x \notin Elements(s) => Without(s, x) = s
<1> DEFINE I == {i \in DOMAIN s : s[i] # x}
           J == {i \in DOMAIN s : s[i] \notin {x}}
<1>1. I = J
  OBVIOUS
<1>2. Without(s, x) = Sans(s, {x})
  BY <1>1 DEF Without, Sans
<1>3. ASSUME x \notin Elements(s)
      PROVE  Sans(s, {x}) = s
  BY <1>3, SansNone
<1> QED
  BY <1>2, <1>3

\* Leaving out one entry more.
LEMMA SansMore ==
  ASSUME NEW s, IsList(s), NEW X, NEW x
  PROVE  /\ Sans(s, X \cup {x}) = Without(Sans(s, X), x)
         /\ IsList(Sans(s, X))
         /\ x \notin Elements(s) \ X => Sans(s, X \cup {x}) = Sans(s, X)
<1>1. IsList(Sans(s, X)) /\ Elements(Sans(s, X)) = Elements(s) \ X
  BY SansElements
<1> DEFINE Y == {x}
           w == Sans(s, X)
<1>2. Sans(w, Y) = Sans(s, X \cup Y)
  <2> HIDE DEF Y
  <2> QED
    BY SansTwice
<1>3. IsList(w) /\ Elements(w) = Elements(s) \ X
  BY <1>1
<1> HIDE DEF w
<1>4. Without(w, x) = Sans(w, Y) /\ (x \notin Elements(w) => Without(w, x) = w)
  BY <1>3, WithoutOne
<1> QED
  BY <1>2, <1>3, <1>4 DEF w

\* What is dropped in two turns is dropped in one.
LEMMA DropMore ==
  ASSUME NEW f, NEW X, NEW Y
  PROVE  Drop(Drop(f, X), Y) = Drop(f, X \cup Y)
BY DEF Drop

\* The lists hold what is theirs.
Sorted(v, lv, lo, al) ==
  /\ \A l \in DOMAIN lv : IsList(lv[l]) /\ \A x \in Elements(lv[l]) : x \in DOMAIN v /\ v[x].lineage = l
  /\ \A a \in DOMAIN al : IsList(al[a]) /\ \A l \in Elements(al[a]) : l \in DOMAIN lo /\ lo[l] = a

\* The lists without versions, and without lineages.
LinesSans(lv, X, L) == [l \in DOMAIN lv \ L |-> Sans(lv[l], X)]
OwnedSans(al, L) == [a \in {b \in DOMAIN al : Sans(al[b], L) # <<>>} |-> Sans(al[a], L)]

\* One version less.
LEMMA LineLess ==
  ASSUME NEW v, NEW lv, NEW lo, NEW al, Sorted(v, lv, lo, al), NEW X, NEW L, NEW x, NEW lines, NEW lineage,
         lines = LinesSans(lv, X, L), NEW kept, kept = Drop(v, X),
         lineage = IF x \in DOMAIN kept THEN kept[x].lineage ELSE None
  PROVE  /\ lineage \in DOMAIN lines =>
              LinesSans(lv, X \cup {x}, L) = Put(lines, lineage, Without(lines[lineage], x))
         /\ lineage \notin DOMAIN lines => LinesSans(lv, X \cup {x}, L) = lines
<1> DEFINE D == DOMAIN lv \ L
           Y == X \cup {x}
           after == LinesSans(lv, Y, L)
<1>1. /\ DOMAIN lines = D /\ DOMAIN after = D /\ after = [l \in D |-> after[l]] /\ lines = [l \in D |-> lines[l]]
      /\ \A l \in D : lines[l] = Sans(lv[l], X) /\ after[l] = Sans(lv[l], Y)
  BY DEF LinesSans
<1>2. ASSUME NEW l \in D
      PROVE  /\ after[l] = Without(lines[l], x)
             /\ l # lineage => after[l] = lines[l]
  <2>1. IsList(lv[l])
    BY DEF Sorted
  <2>2. PICK s : s = lv[l] /\ IsList(s)
    BY <2>1
  <2>3. /\ Sans(s, Y) = Without(Sans(s, X), x)
        /\ x \notin Elements(s) \ X => Sans(s, Y) = Sans(s, X)
    BY <2>2, SansMore
  <2>4. ASSUME l # lineage
        PROVE  x \notin Elements(s) \ X
    <3>1. ASSUME x \in Elements(s) \ X
          PROVE  FALSE
      <4>1. x \in DOMAIN v /\ v[x].lineage = l
        BY <2>2, <3>1 DEF Sorted
      <4>2. x \in DOMAIN kept /\ kept[x] = v[x]
        BY <3>1, <4>1 DEF Drop
      <4>3. lineage = l
        BY <4>1, <4>2
      <4> QED
        BY <2>4, <4>3
    <3> QED
      BY <3>1
  <2> QED
    BY <1>1, <2>2, <2>3, <2>4
<1> HIDE DEF after, D
<1>3. CASE lineage \in D
  <2>1. Put(lines, lineage, Without(lines[lineage], x)) =
          [l \in D |-> IF l = lineage THEN Without(lines[lineage], x) ELSE lines[l]]
    BY <1>1, <1>3 DEF Put
  <2>2. \A l \in D : after[l] = IF l = lineage THEN Without(lines[lineage], x) ELSE lines[l]
    BY <1>2
  <2>3. after = [l \in D |-> IF l = lineage THEN Without(lines[lineage], x) ELSE lines[l]]
    BY <1>1, <2>2
  <2> QED
    BY <1>1, <1>3, <2>1, <2>3 DEF after
<1>4. CASE lineage \notin D
  <2>1. \A l \in D : after[l] = lines[l]
    BY <1>2, <1>4
  <2>2. after = lines
    BY <1>1, <2>1
  <2> QED
    BY <1>1, <1>4, <2>2 DEF after
<1> QED
  BY <1>3, <1>4

\* One lineage less.
LEMMA OwnerLess ==
  ASSUME NEW v, NEW lv, NEW lo, NEW al, Sorted(v, lv, lo, al), NEW L, NEW x, NEW owned, NEW owner, NEW left,
         owned = OwnedSans(al, L), owner = At(Drop(lo, L), x, None),
         left = Without(At(owned, owner, <<>>), x)
  PROVE  /\ left = <<>> => OwnedSans(al, L \cup {x}) = Drop(owned, {owner})
         /\ left # <<>> => OwnedSans(al, L \cup {x}) = Put(owned, owner, left)
<1> DEFINE M == L \cup {x}
           D == {b \in DOMAIN al : Sans(al[b], L) # <<>>}
           E == {b \in DOMAIN al : Sans(al[b], M) # <<>>}
           after == OwnedSans(al, M)
<1>1. /\ DOMAIN owned = D /\ owned = [a \in D |-> owned[a]] /\ \A a \in D : owned[a] = Sans(al[a], L)
      /\ DOMAIN after = E /\ after = [a \in E |-> after[a]] /\ \A a \in E : after[a] = Sans(al[a], M)
  BY DEF OwnedSans
<1>2. ASSUME NEW a \in DOMAIN al
      PROVE  /\ IsList(Sans(al[a], L))
             /\ Sans(al[a], M) = Without(Sans(al[a], L), x)
             /\ a # owner => Sans(al[a], M) = Sans(al[a], L)
  <2>1. IsList(al[a])
    BY DEF Sorted
  <2>2. PICK s : s = al[a] /\ IsList(s)
    BY <2>1
  <2>3. /\ Sans(s, M) = Without(Sans(s, L), x) /\ IsList(Sans(s, L))
        /\ x \notin Elements(s) \ L => Sans(s, M) = Sans(s, L)
    BY <2>2, SansMore
  <2>4. ASSUME a # owner
        PROVE  x \notin Elements(s) \ L
    <3>1. ASSUME x \in Elements(s) \ L
          PROVE  FALSE
      <4>1. x \in DOMAIN lo /\ lo[x] = a
        BY <2>2, <3>1 DEF Sorted
      <4>2. x \in DOMAIN Drop(lo, L) /\ Drop(lo, L)[x] = lo[x]
        BY <3>1, <4>1 DEF Drop
      <4>3. owner = a
        BY <4>1, <4>2 DEF At
      <4> QED
        BY <2>4, <4>3
    <3> QED
      BY <3>1
  <2> QED
    BY <2>2, <2>3, <2>4
<1>0. \A a : a \in D <=> a \in DOMAIN al /\ Sans(al[a], L) # <<>>
  OBVIOUS
<1>00. \A a : a \in E <=> a \in DOMAIN al /\ Sans(al[a], M) # <<>>
  OBVIOUS
<1> HIDE DEF M, D, E, after
<1>3. Without(<<>>, x) = <<>>
  <2> DEFINE e == <<>>
  <2>1. IsList(e) /\ Elements(e) = {}
    BY EmptyList
  <2> HIDE DEF e
  <2>2. Without(e, x) = e
    BY <2>1, WithoutOne
  <2> QED
    BY <2>2 DEF e
<1>4. CASE owner \in D
  <2>1. left = Sans(al[owner], M) /\ owner \in DOMAIN al
    BY <1>0, <1>1, <1>2, <1>4 DEF At
  <2>2. \A a : a # owner => (a \in E <=> a \in D)
    BY <1>0, <1>00, <1>2
  <2>3. \A a \in E : a # owner => after[a] = owned[a]
    BY <1>0, <1>1, <1>2, <2>2
  <2>4. CASE left = <<>>
    <3>1. owner \notin E
      BY <1>00, <2>1, <2>4
    <3>2. E = D \ {owner}
      BY <2>2, <3>1
    <3>3. Drop(owned, {owner}) = [a \in D \ {owner} |-> owned[a]]
      BY <1>1 DEF Drop
    <3>4. after = [a \in D \ {owner} |-> owned[a]]
      BY <1>1, <2>3, <3>1, <3>2
    <3> QED
      BY <2>4, <3>3, <3>4 DEF after, M
  <2>5. CASE left # <<>>
    <3>1. owner \in E /\ after[owner] = left
      BY <1>00, <1>1, <2>1, <2>5
    <3>2. E = D \cup {owner}
      BY <1>4, <2>2, <3>1
    <3>3. Put(owned, owner, left) = [a \in D \cup {owner} |-> IF a = owner THEN left ELSE owned[a]]
      BY <1>1 DEF Put
    <3>5. \A a \in E : after[a] = IF a = owner THEN left ELSE owned[a]
      BY <2>3, <3>1
    <3>4. after = [a \in D \cup {owner} |-> IF a = owner THEN left ELSE owned[a]]
      BY <1>1, <3>2, <3>5
    <3> QED
      BY <2>5, <3>3, <3>4 DEF after, M
  <2> QED
    BY <2>4, <2>5
<1>5. CASE owner \notin D
  <2>1. left = <<>>
    BY <1>1, <1>3, <1>5 DEF At
  <2>2. owner \notin E
    <3>1. CASE owner \in DOMAIN al
      <4>1. Sans(al[owner], L) = <<>>
        BY <1>0, <1>5, <3>1
      <4>2. Sans(al[owner], M) = <<>>
        BY <1>2, <1>3, <3>1, <4>1
      <4> QED
        BY <1>00, <4>2
    <3>2. CASE owner \notin DOMAIN al
      BY <1>00, <3>2
    <3> QED
      BY <3>1, <3>2
  <2>3. \A a : a \in E <=> a \in D
    BY <1>0, <1>00, <1>2, <1>5, <2>2
  <2>4. E = D
    BY <2>3
  <2>5. \A a \in D : after[a] = owned[a] /\ a # owner
    BY <1>0, <1>1, <1>2, <1>5, <2>4
  <2>6. Drop(owned, {owner}) = [a \in D \ {owner} |-> owned[a]]
    BY <1>1 DEF Drop
  <2>7. D \ {owner} = D
    BY <1>5
  <2>8. after = [a \in D |-> owned[a]]
    BY <1>1, <2>4, <2>5
  <2> QED
    BY <2>1, <2>6, <2>7, <2>8 DEF after, M
<1> QED
  BY <1>4, <1>5

\* The ids of the references of a kind.
Ids(S, kind) == {r.id : r \in {q \in S : q.kind = kind}}

\* The ids of one reference more.
LEMMA IdsMore ==
  ASSUME NEW S, NEW ref, NEW kind
  PROVE  Ids(S \cup {ref}, kind) = IF ref.kind = kind THEN Ids(S, kind) \cup {ref.id} ELSE Ids(S, kind)
BY DEF Ids

\* A kernel once what p refers to is archived.
Evicted(v, s, lv, lo, al, fg, rs, so, p) ==
  Kernel(Drop(v, Ids(Elements(p), "MEMORY_VERSION")), Drop(s, Ids(Elements(p), "MEMORY_VERSION")),
         LinesSans(lv, Ids(Elements(p), "MEMORY_VERSION"), Ids(Elements(p), "MEMORY_LINEAGE")),
         Drop(lo, Ids(Elements(p), "MEMORY_LINEAGE")), OwnedSans(al, Ids(Elements(p), "MEMORY_LINEAGE")),
         fg, rs \o p, Drop(so, Elements(p)))

\* One reference more.
LEMMA EvictedMore ==
  ASSUME NEW v, NEW s, NEW lv, NEW lo, NEW al, NEW fg, NEW rs, NEW so, Sorted(v, lv, lo, al), IsList(rs),
         NEW p, IsList(p), NEW ref, ref.kind \in {"MEMORY_VERSION", "MEMORY_LINEAGE"}, NEW n
  PROVE  Replayed(Evicted(v, s, lv, lo, al, fg, rs, so, p), Eviction(ref), n) =
           Evicted(v, s, lv, lo, al, fg, rs, so, Append(p, ref))
<1> DEFINE R == Elements(p)
           q == Append(p, ref)
           X == Ids(R, "MEMORY_VERSION")
           L == Ids(R, "MEMORY_LINEAGE")
           Y == Ids(Elements(q), "MEMORY_VERSION")
           M == Ids(Elements(q), "MEMORY_LINEAGE")
           refs == rs \o p
           vn == Drop(v, X)
           sn == Drop(s, X)
           lines == LinesSans(lv, X, L)
           lon == Drop(lo, L)
           owned == OwnedSans(al, L)
           son == Drop(so, R)
<1>1. Elements(q) = R \cup {ref}
  BY Appended
<1>2. rs \o q = Append(refs, ref)
  BY ConcatLonger
<1>3. Drop(so, Elements(q)) = Drop(son, {ref})
  BY <1>1, DropMore
<1>4. Evicted(v, s, lv, lo, al, fg, rs, so, p) = Kernel(vn, sn, lines, lon, owned, fg, refs, son)
  BY DEF Evicted
<1>5. Evicted(v, s, lv, lo, al, fg, rs, so, q) =
        Kernel(Drop(v, Y), Drop(s, Y), LinesSans(lv, Y, M), Drop(lo, M), OwnedSans(al, M), fg,
               Append(refs, ref), Drop(son, {ref}))
  BY <1>2, <1>3 DEF Evicted
<1>6. /\ Y = IF ref.kind = "MEMORY_VERSION" THEN X \cup {ref.id} ELSE X
      /\ M = IF ref.kind = "MEMORY_LINEAGE" THEN L \cup {ref.id} ELSE L
  <2> DEFINE Q == Elements(q)
  <2>1. Q = R \cup {ref}
    BY <1>1
  <2>2. \A kind : Ids(Q, kind) = IF ref.kind = kind THEN Ids(R, kind) \cup {ref.id} ELSE Ids(R, kind)
    <3> HIDE DEF Q, R
    <3> QED
      BY <2>1, IdsMore
  <2> HIDE DEF Q, R
  <2> QED
    BY <2>2, Zenon DEF Q
<1> HIDE DEF X, L, Y, M, q, refs, R, son
<1>7. CASE ref.kind = "MEMORY_VERSION"
  <2>1. PICK lineage : lineage = IF ref.id \in DOMAIN vn THEN vn[ref.id].lineage ELSE None
    OBVIOUS
  <2>2. Y = X \cup {ref.id} /\ M = L
    BY <1>6, <1>7
  <2>3. Drop(v, Y) = Drop(vn, {ref.id}) /\ Drop(s, Y) = Drop(sn, {ref.id})
    BY <2>2, DropMore
  <2>4. LinesSans(lv, Y, M) =
          IF lineage \in DOMAIN lines THEN Put(lines, lineage, Without(lines[lineage], ref.id)) ELSE lines
    <3>1. lines = LinesSans(lv, X, L) /\ vn = Drop(v, X)
      OBVIOUS
    <3>2. PICK x : x = ref.id
      OBVIOUS
    <3> HIDE DEF lines, vn
    <3>3. lineage = IF x \in DOMAIN vn THEN vn[x].lineage ELSE None
      BY <2>1, <3>2
    <3>4. /\ lineage \in DOMAIN lines =>
               LinesSans(lv, X \cup {x}, L) = Put(lines, lineage, Without(lines[lineage], x))
          /\ lineage \notin DOMAIN lines => LinesSans(lv, X \cup {x}, L) = lines
      BY <3>1, <3>3, LineLess
    <3> QED
      BY <2>2, <3>2, <3>4
  <2>5. Drop(lo, M) = lon /\ OwnedSans(al, M) = owned
    BY <2>2
  <2> DEFINE linesNow == IF lineage \in DOMAIN lines THEN Put(lines, lineage, Without(lines[lineage], ref.id)) ELSE lines
  <2>6. Replayed(Kernel(vn, sn, lines, lon, owned, fg, refs, son), Eviction(ref), n) =
          Kernel(Drop(vn, {ref.id}), Drop(sn, {ref.id}), linesNow, lon, owned, fg,
                 Append(refs, ref), Drop(son, {ref}))
    <3> HIDE DEF vn, sn, lines, lon, owned
    <3> QED
      BY <1>7, <2>1, TurnVersionGone DEF linesNow
  <2>7. linesNow = LinesSans(lv, Y, M)
    BY <2>4
  <2> HIDE DEF linesNow, vn, sn, lines, lon, owned
  <2> QED
    BY <1>4, <1>5, <2>3, <2>5, <2>6, <2>7 DEF q
<1>8. CASE ref.kind = "MEMORY_LINEAGE"
  <2>1. PICK owner, left : owner = At(lon, ref.id, None) /\ left = Without(At(owned, owner, <<>>), ref.id)
    OBVIOUS
  <2>2. Y = X /\ M = L \cup {ref.id}
    BY <1>6, <1>8
  <2>3. Drop(lo, M) = Drop(lon, {ref.id})
    BY <2>2, DropMore
  <2>4. OwnedSans(al, M) = IF left = <<>> THEN Drop(owned, {owner}) ELSE Put(owned, owner, left)
    <3>1. owned = OwnedSans(al, L) /\ owner = At(Drop(lo, L), ref.id, None)
      BY <2>1
    <3> HIDE DEF owned
    <3>2. left = Without(At(owned, owner, <<>>), ref.id)
      BY <2>1
    <3>3. /\ left = <<>> => OwnedSans(al, L \cup {ref.id}) = Drop(owned, {owner})
          /\ left # <<>> => OwnedSans(al, L \cup {ref.id}) = Put(owned, owner, left)
      BY <3>1, <3>2, OwnerLess
    <3> QED
      BY <2>2, <3>3
  <2>5. LinesSans(lv, Y, M) = Drop(lines, {ref.id})
    <3>1. LinesSans(lv, X, M) = [l \in (DOMAIN lv \ L) \ {ref.id} |-> Sans(lv[l], X)]
      <4>1. DOMAIN lv \ M = (DOMAIN lv \ L) \ {ref.id}
        BY <2>2
      <4> QED
        BY <4>1 DEF LinesSans
    <3>2. Drop(lines, {ref.id}) = [l \in (DOMAIN lv \ L) \ {ref.id} |-> Sans(lv[l], X)]
      BY DEF LinesSans, Drop
    <3> QED
      BY <2>2, <3>1, <3>2
  <2> DEFINE ownedNow == IF left = <<>> THEN Drop(owned, {owner}) ELSE Put(owned, owner, left)
  <2>6. Replayed(Kernel(vn, sn, lines, lon, owned, fg, refs, son), Eviction(ref), n) =
          Kernel(vn, sn, Drop(lines, {ref.id}), Drop(lon, {ref.id}), ownedNow, fg,
                 Append(refs, ref), Drop(son, {ref}))
    <3> HIDE DEF vn, sn, lines, lon, owned
    <3> QED
      BY <1>8, <2>1, TurnLineageGone DEF ownedNow
  <2>7. ownedNow = OwnedSans(al, M)
    BY <2>4
  <2>8. Drop(v, Y) = vn /\ Drop(s, Y) = sn
    BY <2>2
  <2> HIDE DEF ownedNow, vn, sn, lines, lon, owned
  <2> QED
    BY <1>4, <1>5, <2>3, <2>5, <2>6, <2>7, <2>8 DEF q
<1> QED
  BY <1>7, <1>8

\* Nothing is archived.
LEMMA EvictedNothing ==
  ASSUME NEW v, NEW s, NEW lv, NEW lo, NEW al, NEW fg, NEW rs, NEW so, Sorted(v, lv, lo, al), IsList(rs),
         IsMap(v), IsMap(s), IsMap(lv), IsMap(lo), IsMap(al), IsMap(so),
         \A a \in DOMAIN al : al[a] # <<>>
  PROVE  Evicted(v, s, lv, lo, al, fg, rs, so, <<>>) = Kernel(v, s, lv, lo, al, fg, rs, so)
<1> DEFINE e == <<>>
           none == {}
<1>1. Elements(e) = none /\ rs \o e = rs
  BY EmptyList, ConcatEmptySeq DEF IsList
<1>2. \A kind : Ids(Elements(e), kind) = none
  BY <1>1 DEF Ids
<1>3. \A f : IsMap(f) => Drop(f, none) = f
  BY DEF Drop, IsMap
<1>4. \A w : IsList(w) => Sans(w, none) = w
  <2>1. \A w : Elements(w) \cap none = {}
    OBVIOUS
  <2> HIDE DEF none
  <2> QED
    BY <2>1, SansNone
<1>5. LinesSans(lv, none, none) = lv
  <2>1. \A l \in DOMAIN lv : Sans(lv[l], none) = lv[l]
    BY <1>4 DEF Sorted
  <2>2. [l \in DOMAIN lv |-> Sans(lv[l], none)] = [l \in DOMAIN lv |-> lv[l]]
    BY <2>1
  <2>3. DOMAIN lv \ none = DOMAIN lv
    OBVIOUS
  <2> HIDE DEF none
  <2> QED
    BY <2>2, <2>3 DEF LinesSans, IsMap
<1>6. OwnedSans(al, none) = al
  <2>1. \A a \in DOMAIN al : Sans(al[a], none) = al[a]
    BY <1>4 DEF Sorted
  <2>2. [a \in DOMAIN al |-> Sans(al[a], none)] = [a \in DOMAIN al |-> al[a]]
    BY <2>1
  <2>3. {b \in DOMAIN al : Sans(al[b], none) # <<>>} = DOMAIN al
    BY <2>1
  <2> HIDE DEF none
  <2> QED
    BY <2>2, <2>3 DEF OwnedSans, IsMap
<1> HIDE DEF e, none
<1>7. Evicted(v, s, lv, lo, al, fg, rs, so, e) = Kernel(v, s, lv, lo, al, fg, rs, so)
  BY <1>1, <1>2, <1>3, <1>5, <1>6 DEF Evicted
<1> QED
  BY <1>7 DEF e

\* The records of what is archived.
Archivals(e) == [i \in DOMAIN e |-> Eviction(e[i])]

\* Whatever is archived at the end of a trace.
LEMMA ReplayEvictions ==
  ASSUME NEW v, NEW s, NEW lv, NEW lo, NEW al, NEW fg, NEW rs, NEW so, Sorted(v, lv, lo, al), IsList(rs),
         IsMap(v), IsMap(s), IsMap(lv), IsMap(lo), IsMap(al), IsMap(so),
         \A a \in DOMAIN al : al[a] # <<>>,
         NEW t, IsList(t), ReplayOf(t) = Kernel(v, s, lv, lo, al, fg, rs, so),
         NEW e, IsList(e), \A i \in 1..Len(e) : e[i].kind \in {"MEMORY_VERSION", "MEMORY_LINEAGE"},
         NEW u, u = Archivals(e)
  PROVE  ReplayOf(t \o u) = Evicted(v, s, lv, lo, al, fg, rs, so, e)
<1> DEFINE g == [n \in 0..Len(e) |-> Evicted(v, s, lv, lo, al, fg, rs, so, Leading(e, n))]
<1>1. Len(e) \in Nat /\ DOMAIN e = 1..Len(e)
  BY ListFacts DEF IsList
<1>2. IsList(u) /\ Len(u) = Len(e) /\ \A i \in 1..Len(e) : u[i] = Eviction(e[i])
  <2>1. u = [i \in 1..Len(e) |-> u[i]] /\ \A i \in 1..Len(e) : u[i] = Eviction(e[i])
    BY <1>1 DEF Archivals
  <2> QED
    BY <1>1, <2>1, FunctionIsList
<1>3. g[0] = ReplayOf(t)
  <2>1. g[0] = Evicted(v, s, lv, lo, al, fg, rs, so, <<>>)
    BY <1>1, LeadingOnes
  <2>2. Evicted(v, s, lv, lo, al, fg, rs, so, <<>>) = Kernel(v, s, lv, lo, al, fg, rs, so)
    BY EvictedNothing
  <2> HIDE DEF g
  <2> QED
    BY <2>1, <2>2
<1>4. ASSUME NEW n \in 1..Len(u)
      PROVE  g[n] = Replayed(g[n - 1], u[n], Len(t) + n)
  <2>1. n \in 0..Len(e) /\ n - 1 \in 0..Len(e) /\ n \in 1..Len(e)
    BY <1>1, <1>2
  <2>2. /\ g[n] = Evicted(v, s, lv, lo, al, fg, rs, so, Leading(e, n))
        /\ g[n - 1] = Evicted(v, s, lv, lo, al, fg, rs, so, Leading(e, n - 1))
        /\ u[n] = Eviction(e[n])
    BY <1>2, <2>1
  <2>3. IsList(Leading(e, n - 1)) /\ Leading(e, n) = Append(Leading(e, n - 1), e[n])
    BY <2>1, LeadingOnes
  <2>4. e[n].kind \in {"MEMORY_VERSION", "MEMORY_LINEAGE"}
    BY <2>1
  <2>5. Replayed(Evicted(v, s, lv, lo, al, fg, rs, so, Leading(e, n - 1)), Eviction(e[n]), Len(t) + n) =
          Evicted(v, s, lv, lo, al, fg, rs, so, Append(Leading(e, n - 1), e[n]))
    BY <2>3, <2>4, EvictedMore
  <2> HIDE DEF g
  <2> QED
    BY <2>2, <2>3, <2>5
<1>5. g[Len(u)] = Evicted(v, s, lv, lo, al, fg, rs, so, e)
  BY <1>1, <1>2, LeadingOnes
<1> HIDE DEF g
<1> QED
  BY <1>2, <1>3, <1>4, <1>5, ReplayOn

\* The states once some versions are rewritten.
Closed(s, p) == [x \in DOMAIN s |-> IF x \in Elements(p) THEN Moved(s[x], "REWRITTEN") ELSE s[x]]

\* The records of what a version rewrites.
Rewritings(parents, id) ==
  [i \in DOMAIN parents |-> [kind |-> "MEMORY_VERSION_REWRITTEN", parent |-> parents[i], by |-> id]]

\* The rewritings at the end of a trace.
LEMMA ReplayRewritings ==
  ASSUME NEW v, NEW s, NEW lv, NEW lo, NEW al, NEW fg, NEW rs, NEW so, IsMap(s),
         NEW t, IsList(t), ReplayOf(t) = Kernel(v, s, lv, lo, al, fg, rs, so),
         NEW parents, IsList(parents), Distinct(parents), Elements(parents) \subseteq DOMAIN s, NEW u, NEW id,
         u = Rewritings(parents, id)
  PROVE  /\ ReplayOf(t \o u) = Kernel(v, Closed(s, parents), lv, lo, al, fg, rs, so)
         /\ IsList(u)
<1> DEFINE g == [n \in 0..Len(parents) |-> Kernel(v, Closed(s, Leading(parents, n)), lv, lo, al, fg, rs, so)]
<1>1. Len(parents) \in Nat /\ DOMAIN parents = 1..Len(parents)
  BY ListFacts DEF IsList
<1>2. /\ IsList(u) /\ Len(u) = Len(parents)
      /\ \A i \in 1..Len(parents) : u[i].kind = "MEMORY_VERSION_REWRITTEN" /\ u[i].parent = parents[i]
  <2>1. u = [i \in 1..Len(parents) |-> u[i]]
    BY <1>1 DEF Rewritings
  <2>2. \A i \in 1..Len(parents) : u[i].kind = "MEMORY_VERSION_REWRITTEN" /\ u[i].parent = parents[i]
    BY <1>1 DEF Rewritings
  <2> QED
    BY <1>1, <2>1, <2>2, FunctionIsList
<1>3. g[0] = ReplayOf(t)
  <2>1. g[0] = Kernel(v, Closed(s, <<>>), lv, lo, al, fg, rs, so)
    BY <1>1, LeadingOnes
  <2>2. Closed(s, <<>>) = s
    BY EmptyList DEF Closed, IsMap
  <2> HIDE DEF g
  <2> QED
    BY <2>1, <2>2
<1>4. ASSUME NEW n \in 1..Len(u)
      PROVE  g[n] = Replayed(g[n - 1], u[n], Len(t) + n)
  <2> DEFINE p == Leading(parents, n - 1)
             q == Leading(parents, n)
             before == Closed(s, p)
             r == u[n]
             x == parents[n]
  <2>1. n \in 0..Len(parents) /\ n - 1 \in 0..Len(parents) /\ n \in 1..Len(parents)
    BY <1>1, <1>2
  <2>2. g[n] = Kernel(v, Closed(s, q), lv, lo, al, fg, rs, so) /\ g[n - 1] = Kernel(v, before, lv, lo, al, fg, rs, so)
    BY <2>1
  <2>3. IsList(p) /\ q = Append(p, x)
    BY <2>1, LeadingOnes
  <2>4. r.kind = "MEMORY_VERSION_REWRITTEN" /\ r.parent = x /\ x \in DOMAIN s
    <3>1. x \in Elements(parents)
      BY <2>1, ListFacts DEF IsList
    <3> QED
      BY <1>2, <2>1, <3>1
  <2>5. Elements(q) = Elements(p) \cup {x}
    BY <2>3, Appended
  <2>6. x \notin Elements(p)
    <3>1. Elements(p) = {parents[i] : i \in 1..(n - 1)}
      BY DEF Elements, Leading
    <3>2. \A i \in 1..(n - 1) : i \in 1..Len(parents) /\ i # n
      BY <1>1, <2>1
    <3> QED
      BY <2>1, <3>1, <3>2 DEF Distinct
  <2>7. DOMAIN before = DOMAIN s
    BY DEF Closed
  <2>8. Closed(s, q) = [y \in DOMAIN before |-> IF y = r.parent THEN Moved(before[y], "REWRITTEN") ELSE before[y]]
    BY <2>4, <2>5, <2>6 DEF Closed
  <2> HIDE DEF g, p, q, before, r, x
  <2>9. Replayed(Kernel(v, before, lv, lo, al, fg, rs, so), r, Len(t) + n) =
          Kernel(v, [y \in DOMAIN before |-> IF y = r.parent THEN Moved(before[y], "REWRITTEN") ELSE before[y]],
                 lv, lo, al, fg, rs, so)
    BY <2>4, <2>7, TurnRewritten
  <2> QED
    BY <2>2, <2>8, <2>9 DEF r
<1>5. g[Len(u)] = Kernel(v, Closed(s, parents), lv, lo, al, fg, rs, so)
  BY <1>1, <1>2, LeadingOnes
<1> HIDE DEF g
<1> QED
  BY <1>2, <1>3, <1>4, <1>5, ReplayOn

-----------------------------------------------------------------------------
(* What is archived.                                                       *)

\* Joining lists keeps their elements.
LEMMA JoinedElements ==
  ASSUME NEW ss, Len(ss) \in Nat, \A i \in 1..Len(ss) : IsList(ss[i])
  PROVE  /\ IsList(Joined(ss))
         /\ \A x : x \in Elements(Joined(ss)) <=> \E i \in 1..Len(ss) : x \in Elements(ss[i])
<1> DEFINE f == CHOOSE f : Joins(f, ss, Len(ss))
<1>1. Joins(f, ss, Len(ss))
  BY Joining
<1>2. Joined(ss) = f[Len(ss)]
  BY DEF Joined, Joins
<1> HIDE DEF f
<1>3. \A n \in 0..Len(ss) : f[n] = IF n = 0 THEN <<>> ELSE f[n - 1] \o ss[n]
  BY <1>1 DEF Joins
<1> DEFINE Good(n) == /\ IsList(f[n])
                      /\ \A x : x \in Elements(f[n]) <=> \E i \in 1..n : x \in Elements(ss[i])
           T == {n \in 0..Len(ss) : ~ Good(n)}
<1>4. CASE T # {}
  <2>0. T \subseteq Nat
    <3> HIDE DEF Good
    <3> QED
      OBVIOUS
  <2>1. PICK m \in T : \A k \in T : m <= k
    <3> HIDE DEF T
    <3> QED
      BY <1>4, <2>0, HasLeast
  <2>2. m # 0
    <3>1. f[0] = <<>>
      BY <1>3
    <3>2. Good(0)
      BY <3>1, EmptyList
    <3> HIDE DEF Good
    <3> QED
      BY <2>1, <3>2
  <2>3. m \in 1..Len(ss) /\ m - 1 \in 0..Len(ss) /\ ~(m <= m - 1)
    <3> HIDE DEF Good
    <3> QED
      BY <2>1, <2>2
  <2>4. Good(m - 1)
    <3> HIDE DEF Good
    <3> QED
      BY <2>1, <2>3
  <2>5. f[m] = f[m - 1] \o ss[m] /\ IsList(ss[m])
    <3>1. m \in 0..Len(ss)
      BY <2>3
    <3> QED
      BY <1>3, <2>2, <2>3, <3>1
  <2>6. IsList(f[m]) /\ Elements(f[m]) = Elements(f[m - 1]) \cup Elements(ss[m])
    BY <2>4, <2>5, Concatenated
  <2>7. \A i : i \in 1..m <=> i \in 1..(m - 1) \/ i = m
    BY <2>3
  <2>8. Good(m)
    BY <2>4, <2>6, <2>7
  <2> HIDE DEF Good
  <2> QED
    BY <2>1, <2>8
<1>5. CASE T = {}
  <2>1. Len(ss) \in 0..Len(ss) /\ Len(ss) \notin T
    <3> HIDE DEF Good
    <3> QED
      BY <1>5
  <2>2. Good(Len(ss))
    <3> HIDE DEF Good
    <3> QED
      BY <2>1
  <2> QED
    BY <1>2, <2>2
<1> QED
  BY <1>4, <1>5

\* The references to what a list names.
LEMMA ReferencesTo ==
  ASSUME NEW s, IsList(s), NEW kind, NEW refs, IsList(refs), Len(refs) = Len(s),
         \A i \in 1..Len(s) : refs[i] = Reference(kind, s[i])
  PROVE  Elements(refs) = {Reference(kind, x) : x \in Elements(s)}
<1>1. Len(s) \in Nat /\ DOMAIN s = 1..Len(s) /\ DOMAIN refs = 1..Len(s)
  BY ListFacts DEF IsList
<1> QED
  BY <1>1 DEF Elements

\* The references to what is archived: versions, and lineages with theirs.
Archive(lv, old, lost) ==
  [i \in DOMAIN old |-> Reference("MEMORY_VERSION", old[i])] \o
  Joined([i \in DOMAIN lost |->
    [j \in DOMAIN lv[lost[i]] |-> Reference("MEMORY_VERSION", lv[lost[i]][j])] \o
    <<Reference("MEMORY_LINEAGE", lost[i])>>])

\* The versions of some lineages.
AllOf(lv, lost) == UNION {Elements(lv[l]) : l \in lost}

\* What refers to some versions and lineages.
Named(gone, lost) ==
  {Reference("MEMORY_VERSION", x) : x \in gone} \cup {Reference("MEMORY_LINEAGE", l) : l \in lost}

\* What is archived are the oldest versions, and the lost lineages with theirs.
LEMMA EvictionElements ==
  ASSUME NEW lv, NEW old, IsList(old), NEW lost, IsList(lost),
         \A l \in Elements(lost) : IsList(lv[l]), NEW refs,
         refs = Archive(lv, old, lost), NEW gone, gone = Elements(old) \cup AllOf(lv, Elements(lost))
  PROVE  IsList(refs) /\ Elements(refs) = Named(gone, Elements(lost))
<1> DEFINE V(x) == Reference("MEMORY_VERSION", x)
           G(x) == Reference("MEMORY_LINEAGE", x)
           first == [i \in DOMAIN old |-> V(old[i])]
           ss == [i \in DOMAIN lost |-> [j \in DOMAIN lv[lost[i]] |-> V(lv[lost[i]][j])] \o <<G(lost[i])>>]
<1>1. /\ Len(lost) \in Nat /\ DOMAIN lost = 1..Len(lost) /\ \A i \in 1..Len(lost) : lost[i] \in Elements(lost)
      /\ \A l \in Elements(lost) : \E i \in 1..Len(lost) : l = lost[i]
  BY ListFacts DEF IsList
<1>2. IsList(first) /\ Elements(first) = {V(x) : x \in Elements(old)}
  <2>1. first = [i \in DOMAIN old |-> Reference("MEMORY_VERSION", old[i])]
    OBVIOUS
  <2>2. Len(old) \in Nat /\ DOMAIN old = 1..Len(old)
    BY ListFacts DEF IsList
  <2>3. /\ first = [i \in 1..Len(old) |-> first[i]]
        /\ \A i \in 1..Len(old) : first[i] = Reference("MEMORY_VERSION", old[i])
    BY <2>1, <2>2
  <2> HIDE DEF first, V
  <2>4. IsList(first) /\ Len(first) = Len(old)
    BY <2>2, <2>3, FunctionIsList
  <2>5. Elements(first) = {Reference("MEMORY_VERSION", x) : x \in Elements(old)}
    BY <2>3, <2>4, ReferencesTo
  <2> QED
    BY <2>4, <2>5 DEF V
<1>3. ASSUME NEW i \in 1..Len(lost)
      PROVE  /\ IsList(ss[i])
             /\ Elements(ss[i]) = {V(x) : x \in Elements(lv[lost[i]])} \cup {G(lost[i])}
  <2> DEFINE l == lost[i]
             s == lv[l]
             a == [j \in DOMAIN s |-> V(s[j])]
             b == <<G(l)>>
  <2>1. IsList(s)
    BY <1>1
  <2>2. IsList(a) /\ Elements(a) = {V(x) : x \in Elements(s)}
    <3>1. a = [j \in DOMAIN s |-> Reference("MEMORY_VERSION", s[j])]
      OBVIOUS
    <3>2. Len(s) \in Nat /\ DOMAIN s = 1..Len(s)
      BY <2>1, ListFacts DEF IsList
    <3>3. /\ a = [j \in 1..Len(s) |-> a[j]]
          /\ \A j \in 1..Len(s) : a[j] = Reference("MEMORY_VERSION", s[j])
      BY <3>1, <3>2
    <3> HIDE DEF s, a, V
    <3>4. IsList(a) /\ Len(a) = Len(s)
      BY <3>2, <3>3, FunctionIsList
    <3>5. Elements(a) = {Reference("MEMORY_VERSION", x) : x \in Elements(s)}
      BY <2>1, <3>3, <3>4, ReferencesTo
    <3> QED
      BY <3>4, <3>5 DEF V
  <2>3. IsList(b) /\ Elements(b) = {G(l)}
    BY AppendedOnly
  <2>4. ss[i] = a \o b
    BY <1>1
  <2> HIDE DEF a, b, ss
  <2>5. IsList(ss[i]) /\ Elements(ss[i]) = Elements(a) \cup Elements(b)
    BY <2>2, <2>3, <2>4, Concatenated
  <2> QED
    BY <2>2, <2>3, <2>5
<1>4. Len(ss) = Len(lost)
  <2>1. ss = [i \in 1..Len(lost) |-> ss[i]]
    BY <1>1
  <2> HIDE DEF ss
  <2> QED
    BY <1>1, <2>1, FunctionIsList
<1>5. refs = first \o Joined(ss)
  BY DEF Archive
<1> HIDE DEF ss, first
<1>6. /\ IsList(Joined(ss))
      /\ \A x : x \in Elements(Joined(ss)) <=> \E i \in 1..Len(ss) : x \in Elements(ss[i])
  BY <1>1, <1>3, <1>4, JoinedElements
<1>7. IsList(refs) /\ Elements(refs) = Elements(first) \cup Elements(Joined(ss))
  BY <1>2, <1>5, <1>6, Concatenated
<1> HIDE DEF V, G
<1>8. \A x : x \in Elements(Joined(ss)) <=>
               \E l \in Elements(lost) : (\E y \in Elements(lv[l]) : x = V(y)) \/ x = G(l)
  <2> TAKE x
  <2>1. ASSUME NEW i \in 1..Len(lost)
        PROVE  x \in Elements(ss[i]) <=> (\E y \in Elements(lv[lost[i]]) : x = V(y)) \/ x = G(lost[i])
    BY <1>3
  <2>2. ASSUME NEW l \in Elements(lost), (\E y \in Elements(lv[l]) : x = V(y)) \/ x = G(l)
        PROVE  \E i \in 1..Len(lost) : x \in Elements(ss[i])
    <3>1. PICK i \in 1..Len(lost) : l = lost[i]
      BY <1>1
    <3> QED
      BY <2>1, <2>2, <3>1
  <2> QED
    BY <1>1, <1>4, <1>6, <2>1, <2>2
<1>9. \A x : x \in Elements(refs) <=> (\E y \in gone : x = V(y)) \/ (\E l \in Elements(lost) : x = G(l))
  <2> TAKE x
  <2>1. x \in Elements(first) <=> \E y \in Elements(old) : x = V(y)
    BY <1>2
  <2>2. \A y : y \in gone <=> y \in Elements(old) \/ \E l \in Elements(lost) : y \in Elements(lv[l])
    BY DEF AllOf
  <2> QED
    BY <1>7, <1>8, <2>1, <2>2
<1> QED
  BY <1>7, <1>9 DEF V, G, Named

\* Their ids.
LEMMA EvictionIds ==
  ASSUME NEW gone, NEW lost, NEW S,
         S = Named(gone, lost)
  PROVE  /\ Ids(S, "MEMORY_VERSION") = gone /\ Ids(S, "MEMORY_LINEAGE") = lost
         /\ \A r \in S : r.kind \in {"MEMORY_VERSION", "MEMORY_LINEAGE"}
<1>1. \A x, kind : Reference(kind, x).kind = kind /\ Reference(kind, x).id = x
  BY DEF Reference
<1>2. \A r : r \in S <=> (\E x \in gone : r = Reference("MEMORY_VERSION", x))
                         \/ (\E l \in lost : r = Reference("MEMORY_LINEAGE", l))
  BY DEF Named
<1>3. "MEMORY_VERSION" # "MEMORY_LINEAGE"
  OBVIOUS
<1>4. \A y, kind : y \in Ids(S, kind) <=> \E r \in S : r.kind = kind /\ y = r.id
  BY DEF Ids
<1>5. \A y : y \in Ids(S, "MEMORY_VERSION") <=> y \in gone
  BY <1>1, <1>2, <1>3, <1>4
<1>6. \A y : y \in Ids(S, "MEMORY_LINEAGE") <=> y \in lost
  BY <1>1, <1>2, <1>3, <1>4
<1>7. \A r \in S : r.kind \in {"MEMORY_VERSION", "MEMORY_LINEAGE"}
  BY <1>1, <1>2
<1> QED
  BY <1>5, <1>6, <1>7

\* Only the entries of a list count.
LEMMA SansSame ==
  ASSUME NEW s, IsList(s), NEW X, NEW Y, \A x \in Elements(s) : x \in X <=> x \in Y
  PROVE  Sans(s, X) = Sans(s, Y)
<1> DEFINE I == {i \in DOMAIN s : s[i] \notin X}
           J == {i \in DOMAIN s : s[i] \notin Y}
<1>1. DOMAIN s = 1..Len(s) /\ \A i \in 1..Len(s) : s[i] \in Elements(s)
  BY ListFacts DEF IsList
<1>2. \A i \in 1..Len(s) : i \in I <=> i \in J
  BY <1>1
<1> HIDE DEF I, J
<1>3. Keep(s, I) = Keep(s, J)
  BY <1>2, KeepSame
<1> QED
  BY <1>3 DEF Sans, I, J

\* The lists of versions, when the oldest of one lineage and those of some
\* others are archived.
LEMMA LinesAfter ==
  ASSUME NEW v, NEW lv, NEW lo, NEW al, Sorted(v, lv, lo, al), NEW lineage \in DOMAIN lv, NEW mine,
         mine = lv[lineage], Distinct(mine), NEW limit \in Nat, NEW lost, lost \subseteq DOMAIN lv,
         lineage \notin lost, NEW gone,
         gone = Elements(Oldest(mine, limit)) \cup AllOf(lv, lost)
  PROVE  LinesSans(lv, gone, lost) = Drop(Put(lv, lineage, Newest(mine, limit)), lost)
<1> DEFINE old == Oldest(mine, limit)
           young == Newest(mine, limit)
<1>1. \A l \in DOMAIN lv : IsList(lv[l]) /\ \A x \in Elements(lv[l]) : v[x].lineage = l
  BY DEF Sorted
<1>2. IsList(mine)
  BY <1>1
<1>3. Elements(old) \subseteq Elements(mine)
  BY <1>2, Cut
<1>4. Sans(mine, Elements(old)) = young
  BY <1>2, SansOldest
<1> HIDE DEF old, young
<1>5. gone = Elements(old) \cup UNION {Elements(lv[l]) : l \in lost}
  BY DEF old, AllOf
<1>6. ASSUME NEW l \in DOMAIN lv, l \notin lost
      PROVE  \A x \in Elements(lv[l]) : x \in gone <=> l = lineage /\ x \in Elements(old)
  <2> SUFFICES ASSUME NEW x \in Elements(lv[l])
               PROVE  x \in gone <=> l = lineage /\ x \in Elements(old)
    OBVIOUS
  <2>1. v[x].lineage = l
    BY <1>1
  <2>2. \A k \in lost : x \notin Elements(lv[k])
    BY <1>1, <1>6, <2>1
  <2>3. x \in gone <=> x \in Elements(old)
    BY <1>5, <2>2
  <2>4. x \in Elements(old) => l = lineage
    BY <1>1, <1>3, <2>1
  <2> QED
    BY <2>3, <2>4
<1>7. ASSUME NEW l \in DOMAIN lv \ lost
      PROVE  Sans(lv[l], gone) = IF l = lineage THEN young ELSE lv[l]
  <2>1. CASE l = lineage
    <3>1. \A x \in Elements(mine) : x \in gone <=> x \in Elements(old)
      BY <1>6, <2>1
    <3>2. Sans(mine, gone) = Sans(mine, Elements(old))
      BY <1>2, <3>1, SansSame
    <3> QED
      BY <1>4, <2>1, <3>2
  <2>2. CASE l # lineage
    <3>1. Elements(lv[l]) \cap gone = {}
      BY <1>6, <2>2
    <3>2. IsList(lv[l])
      BY <1>1
    <3>3. Sans(lv[l], gone) = lv[l]
      BY <3>1, <3>2, SansNone
    <3> QED
      BY <2>2, <3>3
  <2> QED
    BY <2>1, <2>2
<1>8. LinesSans(lv, gone, lost) = Drop(Put(lv, lineage, young), lost)
  BY <1>7 DEF LinesSans, Drop, Put
<1> QED
  BY <1>8 DEF young

\* The lists of lineages, when the oldest of one owner are.
LEMMA OwnersAfter ==
  ASSUME NEW v, NEW lv, NEW lo, NEW al, Sorted(v, lv, lo, al), \A a \in DOMAIN al : al[a] # <<>>,
         NEW owner \in DOMAIN al, NEW known, known = al[owner], Distinct(known),
         NEW limit \in Nat \ {0}, NEW lost, lost = Elements(Oldest(known, limit))
  PROVE  /\ OwnedSans(al, lost) = Put(al, owner, Newest(known, limit))
         /\ Newest(known, limit) # <<>>
<1> DEFINE old == Oldest(known, limit)
           kept == Newest(known, limit)
<1>1. \A a \in DOMAIN al : IsList(al[a]) /\ \A l \in Elements(al[a]) : lo[l] = a
  BY DEF Sorted
<1>2. IsList(known) /\ known # <<>>
  BY <1>1
<1>3. Elements(old) \subseteq Elements(known)
  BY <1>2, Cut
<1>4. Sans(known, Elements(old)) = kept
  BY <1>2, SansOldest
<1>5. Halved(known, limit, old, kept)
  BY <1>2, Halves
<1> HIDE DEF old, kept
<1>6. kept # <<>>
  <2>1. known \in Seq(Elements(known)) /\ Len(known) \in Nat
    BY <1>2, ListFacts DEF IsList
  <2>2. Len(known) # 0
    BY <1>2, <2>1, EmptySeq
  <2>3. Len(kept) = IF Len(known) < limit THEN Len(known) ELSE limit
    BY <1>5 DEF Halved
  <2>4. Len(kept) # 0
    BY <2>1, <2>2, <2>3
  <2> QED
    BY <2>4
<1>7. lost = Elements(old)
  BY DEF old
<1>8. ASSUME NEW a \in DOMAIN al
      PROVE  Sans(al[a], lost) = (IF a = owner THEN kept ELSE al[a]) /\ Sans(al[a], lost) # <<>>
  <2>1. CASE a = owner
    BY <1>4, <1>6, <1>7, <2>1
  <2>2. CASE a # owner
    <3>1. Elements(al[a]) \cap lost = {}
      BY <1>1, <1>3, <1>7, <2>2
    <3>2. IsList(al[a]) /\ al[a] # <<>>
      BY <1>1
    <3>3. Sans(al[a], lost) = al[a]
      BY <3>1, <3>2, SansNone
    <3> QED
      BY <2>2, <3>2, <3>3
  <2> QED
    BY <2>1, <2>2
<1>9. {b \in DOMAIN al : Sans(al[b], lost) # <<>>} = DOMAIN al
  BY <1>8
<1>10. Put(al, owner, kept) = [a \in DOMAIN al |-> IF a = owner THEN kept ELSE al[a]]
  BY DEF Put
<1>11. OwnedSans(al, lost) = Put(al, owner, kept)
  BY <1>8, <1>9, <1>10 DEF OwnedSans
<1> QED
  BY <1>6, <1>11 DEF kept

\* Of two values put in the same place the second stays.
LEMMA PutTwice ==
  ASSUME NEW f, NEW x, NEW a, NEW b
  PROVE  Put(Put(f, x, a), x, b) = Put(f, x, b)
BY DEF Put

\* A list without repetitions, with an entry that it does not have.
LEMMA DistinctMore ==
  ASSUME NEW s, IsList(s), Distinct(s), NEW x, x \notin Elements(s)
  PROVE  Distinct(Append(s, x))
<1> DEFINE u == Append(s, x)
           n == Len(s)
<1>1. n \in Nat /\ Len(u) = n + 1 /\ (\A i \in 1..n : u[i] = s[i]) /\ u[n + 1] = x
  BY AppendedEntries
<1>2. \A i \in 1..n : s[i] # x
  BY ListFacts DEF IsList
<1> HIDE DEF u
<1>3. ASSUME NEW i \in 1..(n + 1), NEW j \in 1..(n + 1), u[i] = u[j]
      PROVE  i = j
  <2>1. (i \in 1..n \/ i = n + 1) /\ (j \in 1..n \/ j = n + 1)
    BY <1>1
  <2> QED
    BY <1>1, <1>2, <1>3, <2>1 DEF Distinct
<1>4. Distinct(u)
  BY <1>1, <1>3 DEF Distinct
<1> QED
  BY <1>4 DEF u

\* What increases does not repeat itself.
LEMMA IncreasingIsDistinct ==
  ASSUME NEW s, IsList(s), Elements(s) \subseteq Int, Increasing(s)
  PROVE  Distinct(s)
<1>1. Len(s) \in Nat /\ \A i \in 1..Len(s) : s[i] \in Int
  BY ListFacts DEF IsList
<1> SUFFICES ASSUME NEW i \in 1..Len(s), NEW j \in 1..Len(s), s[i] = s[j], i # j
             PROVE  FALSE
  BY DEF Distinct
<1>2. i < j \/ j < i
  BY <1>1
<1>3. s[i] < s[j] \/ s[j] < s[i]
  BY <1>2 DEF Increasing
<1> QED
  BY <1>1, <1>3

\* A version of a lineage that may be new, in the lists.
Owners(lo, isNew, lineage, owner) == IF isNew THEN Put(lo, lineage, owner) ELSE lo
Lineages(al, isNew, lineage, owner) ==
  IF isNew THEN Append(At(al, owner, <<>>), lineage) ELSE At(al, owner, <<>>)
Sourced(so, isNew, lineage, id, n) ==
  Put(IF isNew THEN Put(so, Reference("MEMORY_LINEAGE", lineage), n) ELSE so, Reference("MEMORY_VERSION", id), n)

\* The lists hold what they should with one version more.
LEMMA SortedMore ==
  ASSUME NEW v, NEW lv, NEW lo, NEW al, Sorted(v, lv, lo, al), NEW id, id \notin DOMAIN v,
         NEW version, NEW lineage, NEW owner, version.lineage = lineage,
         NEW isNew \in BOOLEAN, isNew <=> lineage \notin DOMAIN lo
  PROVE  Sorted(Put(v, id, version), Put(lv, lineage, Append(At(lv, lineage, <<>>), id)),
                Owners(lo, isNew, lineage, owner), Put(al, owner, Lineages(al, isNew, lineage, owner)))
<1> DEFINE v1 == Put(v, id, version)
           had == At(lv, lineage, <<>>)
           mine == Append(had, id)
           lv1 == Put(lv, lineage, mine)
           lo1 == Owners(lo, isNew, lineage, owner)
           owned == At(al, owner, <<>>)
           known == Lineages(al, isNew, lineage, owner)
           al1 == Put(al, owner, known)
<1>1. /\ \A l \in DOMAIN lv : IsList(lv[l]) /\ \A x \in Elements(lv[l]) : x \in DOMAIN v /\ v[x].lineage = l
      /\ \A a \in DOMAIN al : IsList(al[a]) /\ \A l \in Elements(al[a]) : l \in DOMAIN lo /\ lo[l] = a
  BY DEF Sorted
<1>2. /\ IsList(had) /\ \A x \in Elements(had) : x \in DOMAIN v /\ v[x].lineage = lineage
  <2>1. CASE lineage \in DOMAIN lv
    BY <1>1, <2>1 DEF At
  <2>2. CASE lineage \notin DOMAIN lv
    <3>1. had = <<>>
      BY <2>2 DEF At
    <3> HIDE DEF had
    <3> QED
      BY <3>1, EmptyList
  <2> QED
    BY <2>1, <2>2
<1>3. /\ IsList(owned) /\ \A l \in Elements(owned) : l \in DOMAIN lo /\ lo[l] = owner
  <2>1. CASE owner \in DOMAIN al
    BY <1>1, <2>1 DEF At
  <2>2. CASE owner \notin DOMAIN al
    <3>1. owned = <<>>
      BY <2>2 DEF At
    <3> HIDE DEF owned
    <3> QED
      BY <3>1, EmptyList
  <2> QED
    BY <2>1, <2>2
<1> HIDE DEF had
<1>4. IsList(mine) /\ Elements(mine) = Elements(had) \cup {id}
  BY <1>2, Appended
<1>5. /\ DOMAIN v1 = DOMAIN v \cup {id} /\ v1[id] = version /\ \A x \in DOMAIN v : v1[x] = v[x]
  BY DEF Put
<1>6. \A x \in Elements(mine) : x \in DOMAIN v1 /\ v1[x].lineage = lineage
  BY <1>2, <1>4, <1>5
<1>7. /\ DOMAIN lv1 = DOMAIN lv \cup {lineage} /\ lv1[lineage] = mine
      /\ \A l \in DOMAIN lv : l # lineage => lv1[l] = lv[l]
  BY DEF Put
<1>8. DOMAIN lo \subseteq DOMAIN lo1 /\ \A l \in DOMAIN lo : lo1[l] = lo[l]
  BY DEF Owners, Put
<1>9. isNew => lineage \in DOMAIN lo1 /\ lo1[lineage] = owner
  BY DEF Owners, Put
<1>10. IsList(known) /\ Elements(known) = Elements(owned) \cup (IF isNew THEN {lineage} ELSE {})
  <2>1. CASE isNew
    <3>1. known = Append(owned, lineage)
      BY <2>1 DEF Lineages
    <3> HIDE DEF owned, known
    <3>2. IsList(known) /\ Elements(known) = Elements(owned) \cup {lineage}
      BY <1>3, <3>1, Appended
    <3> QED
      BY <2>1, <3>2
  <2>2. CASE ~isNew
    <3>1. known = owned
      BY <2>2 DEF Lineages
    <3> HIDE DEF owned, known
    <3> QED
      BY <1>3, <2>2, <3>1
  <2> QED
    BY <2>1, <2>2
<1> HIDE DEF known, owned, lo1
<1>11. \A l \in Elements(known) : l \in DOMAIN lo1 /\ lo1[l] = owner
  BY <1>3, <1>8, <1>9, <1>10
<1>12. /\ DOMAIN al1 = DOMAIN al \cup {owner} /\ al1[owner] = known
       /\ \A a \in DOMAIN al : a # owner => al1[a] = al[a]
  BY DEF Put
<1> HIDE DEF v1, mine, lv1, al1
<1>13. ASSUME NEW l \in DOMAIN lv1
       PROVE  IsList(lv1[l]) /\ \A x \in Elements(lv1[l]) : x \in DOMAIN v1 /\ v1[x].lineage = l
  <2>1. CASE l = lineage
    BY <1>4, <1>6, <1>7, <2>1
  <2>2. CASE l # lineage
    <3>1. l \in DOMAIN lv /\ lv1[l] = lv[l]
      BY <1>7, <2>2
    <3> QED
      BY <1>1, <1>5, <3>1
  <2> QED
    BY <2>1, <2>2
<1>14. ASSUME NEW a \in DOMAIN al1
       PROVE  IsList(al1[a]) /\ \A l \in Elements(al1[a]) : l \in DOMAIN lo1 /\ lo1[l] = a
  <2>1. CASE a = owner
    BY <1>10, <1>11, <1>12, <2>1
  <2>2. CASE a # owner
    <3>1. a \in DOMAIN al /\ al1[a] = al[a]
      BY <1>12, <2>2
    <3> QED
      BY <1>1, <1>8, <3>1
  <2> QED
    BY <2>1, <2>2
<1>15. Sorted(v1, lv1, lo1, al1)
  BY <1>13, <1>14 DEF Sorted
<1> QED
  BY <1>15 DEF v1, lv1, lo1, al1, mine, had, known, owned

\* A version is created at the end of a trace.
LEMMA ReplayCreation ==
  ASSUME NEW v, NEW s, NEW lv, NEW lo, NEW al, NEW fg, NEW rs, NEW so, IsMap(al),
         NEW t, IsList(t), ReplayOf(t) = Kernel(v, s, lv, lo, al, fg, rs, so),
         NEW id, NEW version, NEW state, NEW lineage, NEW owner,
         lineage = version.lineage, owner = version.owner,
         NEW isNew \in BOOLEAN, isNew <=> lineage \notin DOMAIN lo, isNew \/ owner \in DOMAIN al
  PROVE  ReplayOf(Append(t, Creation(id, version, state))) =
           Kernel(Put(v, id, version), Put(s, id, state),
                  Put(lv, lineage, Append(At(lv, lineage, <<>>), id)), Owners(lo, isNew, lineage, owner),
                  Put(al, owner, Lineages(al, isNew, lineage, owner)), fg, rs,
                  Sourced(so, isNew, lineage, id, Len(t) + 1))
<1> DEFINE c == Creation(id, version, state)
           n == Len(t) + 1
           rv == Reference("MEMORY_VERSION", id)
           rl == Reference("MEMORY_LINEAGE", lineage)
           made == Put(so, rv, n)
           v1 == Put(v, id, version)
           s1 == Put(s, id, state)
           lv1 == Put(lv, lineage, Append(At(lv, lineage, <<>>), id))
           owned == At(al, owner, <<>>)
<1>1. ReplayOf(Append(t, c)) = Replayed(Kernel(v, s, lv, lo, al, fg, rs, so), c, n)
  BY ReplayOne
<1>2. Replayed(Kernel(v, s, lv, lo, al, fg, rs, so), c, n) =
        IF lineage \notin DOMAIN lo
        THEN Kernel(v1, s1, lv1, Put(lo, lineage, owner), Put(al, owner, Append(owned, lineage)),
                    fg, rs, Put(made, rl, n))
        ELSE Kernel(v1, s1, lv1, lo, al, fg, rs, made)
  BY TurnCreated
<1> HIDE DEF c, n, rv, rl, v1, s1, lv1, owned
<1>3. Put(made, rl, n) = Put(Put(so, rl, n), rv, n)
  BY DEF Put
<1>4. CASE isNew
  <2>1. /\ Owners(lo, isNew, lineage, owner) = Put(lo, lineage, owner)
        /\ Lineages(al, isNew, lineage, owner) = Append(owned, lineage)
        /\ Sourced(so, isNew, lineage, id, n) = Put(made, rl, n)
    BY <1>3, <1>4 DEF Owners, Lineages, Sourced, owned, rl, rv
  <2> HIDE DEF made
  <2> QED
    BY <1>1, <1>2, <1>4, <2>1 DEF c, n, v1, s1, lv1
<1>5. CASE ~isNew
  <2>1. owned = al[owner] /\ owner \in DOMAIN al
    BY <1>5 DEF At, owned
  <2>2. Put(al, owner, owned) = al
    BY <2>1, PutSame
  <2>3. /\ Owners(lo, isNew, lineage, owner) = lo
        /\ Lineages(al, isNew, lineage, owner) = owned
        /\ Sourced(so, isNew, lineage, id, n) = made
    BY <1>5 DEF Owners, Lineages, Sourced, owned, rl, rv
  <2> HIDE DEF made
  <2> QED
    BY <1>1, <1>2, <1>5, <2>2, <2>3 DEF c, n, v1, s1, lv1
<1> QED
  BY <1>4, <1>5

-----------------------------------------------------------------------------
(* What replay reproduces.                                                 *)

\* The numbers that forgetting events have got.
Numbers(n) == [i \in 1..n |-> i]

\* Replaying the trace gives the indexes, with everything that was archived.
Replayable(rs) ==
  /\ IsList(rs) /\ Newest(rs, ForgettingLimit) = references /\ Len(rs) = archivedCount
  /\ ReplayOf(trace) =
       Kernel(versions, states, lineageVersions, lineageOwner, actorLineages, forgettingIds, rs, sourceOf)

Mapped ==
  /\ IsMap(versions) /\ IsMap(states) /\ IsMap(lineageVersions) /\ IsMap(lineageOwner)
  /\ IsMap(actorLineages) /\ IsMap(sourceOf)
  /\ \A a \in DOMAIN actorLineages : actorLineages[a] # <<>>

Counted ==
  /\ forgettingIds \in Nat
  /\ forgetting = Newest(Numbers(forgettingIds), ForgettingLimit)

Reproduced == (\E rs : Replayable(rs)) /\ Mapped /\ Counted

\* The lists of the kernel hold what they should.
LEMMA SortedIndexes ==
  ASSUME IInv, Placed
  PROVE  Sorted(versions, lineageVersions, lineageOwner, actorLineages)
<1>1. ASSUME NEW l \in DOMAIN lineageVersions
      PROVE  /\ IsList(lineageVersions[l])
             /\ \A x \in Elements(lineageVersions[l]) : x \in DOMAIN versions /\ versions[x].lineage = l
  <2>1. lineageVersions[l] \in Seq(Nat)
    BY DEF IInv, Indexed
  <2>2. IsList(lineageVersions[l])
    BY <2>1, ListFacts
  <2> QED
    BY <2>2 DEF Placed
<1>2. ASSUME NEW a \in DOMAIN actorLineages
      PROVE  /\ IsList(actorLineages[a])
             /\ \A l \in Elements(actorLineages[a]) : l \in DOMAIN lineageOwner /\ lineageOwner[l] = a
  <2> DEFINE s == actorLineages[a]
  <2>1. s \in Seq(DOMAIN lineageOwner) /\ \A i \in 1..Len(s) : lineageOwner[s[i]] = a
    BY DEF IInv, Indexed
  <2> HIDE DEF s
  <2>2. /\ IsList(s) /\ Elements(s) \subseteq DOMAIN lineageOwner
        /\ \A l \in Elements(s) : \E i \in 1..Len(s) : l = s[i]
    BY <2>1, ListFacts
  <2>3. IsList(s) /\ \A l \in Elements(s) : l \in DOMAIN lineageOwner /\ lineageOwner[l] = a
    BY <2>1, <2>2
  <2> QED
    BY <2>3 DEF s
<1> QED
  BY <1>1, <1>2 DEF Sorted

\* The lists that a new version makes longer have no repetitions.
LEMMA DistinctLists ==
  ASSUME IInv, Placed, NEW lineage, NEW owner, NEW isNew \in BOOLEAN, isNew <=> lineage \notin DOMAIN lineageOwner
  PROVE  /\ Distinct(Append(At(lineageVersions, lineage, <<>>), versionIds + 1))
         /\ Distinct(Lineages(actorLineages, isNew, lineage, owner))
<1> DEFINE had == At(lineageVersions, lineage, <<>>)
           owned == At(actorLineages, owner, <<>>)
           id == versionIds + 1
<1>1. IsList(had) /\ Elements(had) \subseteq 1..versionIds /\ Increasing(had)
  <2>1. CASE lineage \in DOMAIN lineageVersions
    <3>1. had = lineageVersions[lineage]
      BY <2>1 DEF At
    <3> HIDE DEF had
    <3>2. had \in Seq(Nat) /\ Increasing(had) /\ \A v \in Elements(had) : v \in DOMAIN versions
      BY <2>1, <3>1 DEF IInv, Indexed, Placed
    <3>3. IsList(had)
      BY <3>2, ListFacts
    <3> QED
      BY <3>2, <3>3 DEF IInv, Faithful
  <2>2. CASE lineage \notin DOMAIN lineageVersions
    <3>1. had = <<>> /\ Len(<<>>) = 0
      BY <2>2 DEF At
    <3> HIDE DEF had
    <3> QED
      BY <3>1, EmptyList DEF Increasing
  <2> QED
    BY <2>1, <2>2
<1>2. versionIds \in Nat
  BY DEF IInv, Indexed
<1> HIDE DEF had
<1>3. Elements(had) \subseteq Int /\ id \notin Elements(had)
  BY <1>1, <1>2
<1>4. Distinct(had)
  BY <1>1, <1>3, IncreasingIsDistinct
<1>5. Distinct(Append(had, id))
  BY <1>1, <1>3, <1>4, DistinctMore
<1>6. IsList(owned) /\ Distinct(owned) /\ Elements(owned) \subseteq DOMAIN lineageOwner
  <2>1. CASE owner \in DOMAIN actorLineages
    <3>1. owned = actorLineages[owner]
      BY <2>1 DEF At
    <3> HIDE DEF owned
    <3>2. owned \in Seq(DOMAIN lineageOwner) /\ Distinct(owned)
      BY <2>1, <3>1 DEF IInv, Indexed, Distinct
    <3> QED
      BY <3>2, ListFacts
  <2>2. CASE owner \notin DOMAIN actorLineages
    <3>1. owned = <<>> /\ Len(<<>>) = 0
      BY <2>2 DEF At
    <3> HIDE DEF owned
    <3> QED
      BY <3>1, EmptyList DEF Distinct
  <2> QED
    BY <2>1, <2>2
<1>7. Lineages(actorLineages, isNew, lineage, owner) = IF isNew THEN Append(owned, lineage) ELSE owned
  BY DEF Lineages
<1> HIDE DEF owned
<1>8. Distinct(Lineages(actorLineages, isNew, lineage, owner))
  <2>1. CASE isNew
    <3>1. lineage \notin Elements(owned)
      BY <1>6, <2>1
    <3> QED
      BY <1>6, <1>7, <2>1, <3>1, DistinctMore
  <2>2. CASE ~isNew
    BY <1>6, <1>7, <2>2
  <2> QED
    BY <2>1, <2>2
<1> QED
  BY <1>5, <1>8 DEF had, id

\* The states, with the new version's and without those that are closed.
Entered(s, id, state, p) ==
  [v \in DOMAIN s \cup {id} |->
     IF v = id THEN state ELSE IF v \in Elements(p) THEN Moved(s[v], "REWRITTEN") ELSE s[v]]

\* They are those that the creation and then the rewritings leave.
LEMMA ClosedStates ==
  ASSUME NEW s, NEW id, NEW state, NEW p, id \notin Elements(p)
  PROVE  Closed(Put(s, id, state), p) = Entered(s, id, state, p)
<1> DEFINE s1 == Put(s, id, state)
<1>1. DOMAIN s1 = DOMAIN s \cup {id} /\ \A v \in DOMAIN s1 : s1[v] = IF v = id THEN state ELSE s[v]
  BY DEF Put
<1> HIDE DEF s1
<1>2. Closed(s1, p) = [v \in DOMAIN s1 |-> IF v \in Elements(p) THEN Moved(s1[v], "REWRITTEN") ELSE s1[v]]
  BY DEF Closed
<1>3. \A v \in DOMAIN s1 : (IF v \in Elements(p) THEN Moved(s1[v], "REWRITTEN") ELSE s1[v]) =
         IF v = id THEN state ELSE IF v \in Elements(p) THEN Moved(s[v], "REWRITTEN") ELSE s[v]
  BY <1>1
<1>4. Closed(s1, p) = [v \in DOMAIN s \cup {id} |->
              IF v = id THEN state ELSE IF v \in Elements(p) THEN Moved(s[v], "REWRITTEN") ELSE s[v]]
  BY <1>1, <1>2, <1>3
<1> QED
  BY <1>4 DEF s1, Entered

\* A bounded lineage and a bounded owner are archived at the end of a trace.
LEMMA ReplayArchiving ==
  ASSUME NEW v, NEW s, NEW lv, NEW lo, NEW al, NEW fg, NEW rs, NEW so, Sorted(v, lv, lo, al), IsList(rs),
         IsMap(v), IsMap(s), IsMap(lv), IsMap(lo), IsMap(al), IsMap(so),
         \A a \in DOMAIN al : al[a] # <<>>,
         NEW t, IsList(t), ReplayOf(t) = Kernel(v, s, lv, lo, al, fg, rs, so),
         NEW lineage \in DOMAIN lv, Distinct(lv[lineage]), NEW owner \in DOMAIN al, Distinct(al[owner]),
         NEW lost, lost = Elements(Oldest(al[owner], LineageLimit)), lost \subseteq DOMAIN lv \ {lineage},
         NEW gone,
         gone = Elements(Oldest(lv[lineage], VersionLimit)) \cup AllOf(lv, lost),
         NEW e, IsList(e), Elements(e) = Named(gone, lost), NEW u, u = Archivals(e)
  PROVE  /\ ReplayOf(t \o u) =
              Kernel(Drop(v, gone), Drop(s, gone),
                     Drop(Put(lv, lineage, Newest(lv[lineage], VersionLimit)), lost), Drop(lo, lost),
                     Put(al, owner, Newest(al[owner], LineageLimit)), fg, rs \o e, Drop(so, Elements(e)))
         /\ Newest(al[owner], LineageLimit) # <<>>
<1>1. VersionLimit \in Nat /\ LineageLimit \in Nat \ {0}
  BY LimitsArePositive
<1>2. PICK S : S = Elements(e)
  OBVIOUS
<1>3. S = Named(gone, lost)
  BY <1>2
<1>4. /\ Ids(S, "MEMORY_VERSION") = gone /\ Ids(S, "MEMORY_LINEAGE") = lost
      /\ \A r \in S : r.kind \in {"MEMORY_VERSION", "MEMORY_LINEAGE"}
  BY <1>3, EvictionIds
<1>5. \A i \in 1..Len(e) : e[i].kind \in {"MEMORY_VERSION", "MEMORY_LINEAGE"}
  <2>1. \A i \in 1..Len(e) : e[i] \in S
    BY <1>2, ListFacts DEF IsList
  <2> QED
    BY <1>4, <2>1
<1>6. ReplayOf(t \o u) = Evicted(v, s, lv, lo, al, fg, rs, so, e)
  BY <1>5, ReplayEvictions
<1>7. PICK mine, known : mine = lv[lineage] /\ known = al[owner]
  OBVIOUS
<1>8. LinesSans(lv, gone, lost) = Drop(Put(lv, lineage, Newest(mine, VersionLimit)), lost)
  <2>1. lineage \notin lost /\ lost \subseteq DOMAIN lv /\ Distinct(mine)
    BY <1>7
  <2>2. gone = Elements(Oldest(mine, VersionLimit)) \cup AllOf(lv, lost)
    BY <1>7
  <2> QED
    BY <1>1, <1>7, <2>1, <2>2, LinesAfter
<1>9. OwnedSans(al, lost) = Put(al, owner, Newest(known, LineageLimit)) /\ Newest(known, LineageLimit) # <<>>
  <2>1. lost = Elements(Oldest(known, LineageLimit)) /\ Distinct(known)
    BY <1>7
  <2> QED
    BY <1>1, <1>7, <2>1, OwnersAfter
<1>10. Evicted(v, s, lv, lo, al, fg, rs, so, e) =
         Kernel(Drop(v, gone), Drop(s, gone), LinesSans(lv, gone, lost), Drop(lo, lost), OwnedSans(al, lost),
                fg, rs \o e, Drop(so, Elements(e)))
  BY <1>2, <1>4 DEF Evicted
<1> QED
  BY <1>6, <1>7, <1>8, <1>9, <1>10

\* The owner of the lineage that a new version joins has a list of lineages.
LEMMA OwnerIsKnown ==
  ASSUME "foreign lineage" \notin Liberties, Placed, Owned,
         NEW owner, NEW lineage, NEW isNew, NEW version, NEW state, NEW rewritten,
         Adding(owner, lineage, isNew, version, state, rewritten)
  PROVE  isNew = FALSE => owner \in DOMAIN actorLineages
<1> SUFFICES ASSUME isNew = FALSE
             PROVE  owner \in DOMAIN actorLineages
  OBVIOUS
<1>1. /\ lineage \in DOMAIN lineageOwner
      /\ version.lineage = lineage /\ version.owner = owner
      /\ \A p \in version.parents : /\ p \in DOMAIN versions /\ versions[p].lineage = lineage
                                    /\ versions[p].owner = owner
      /\ lineageOwner[lineage] = owner \/ version.parents # {}
  BY DEF Adding
<1>2. lineageOwner[lineage] = owner
  BY <1>1 DEF Owned
<1> QED
  BY <1>1, <1>2 DEF Placed

\* What follows the record of a new version.
Closing(r) == r.kind \in {"MEMORY_VERSION_REWRITTEN", "LIVE_INDEX_EVICTED"}

\* A record, and the end of what it closes.
Recording(c) == \E u : IsList(u) /\ trace' = Append(trace, c) \o u /\ \A i \in 1..Len(u) : Closing(u[i])

\* Rewritings are such records.
LEMMA RewritingsClose ==
  ASSUME NEW parents, IsList(parents), NEW id, NEW u, u = Rewritings(parents, id)
  PROVE  IsList(u) /\ \A i \in 1..Len(u) : Closing(u[i])
<1>1. Len(parents) \in Nat /\ DOMAIN parents = 1..Len(parents)
  BY ListFacts DEF IsList
<1>2. u = [i \in 1..Len(parents) |-> u[i]] /\ \A i \in 1..Len(parents) : Closing(u[i])
  BY <1>1 DEF Rewritings, Closing
<1>3. IsList(u) /\ Len(u) = Len(parents)
  BY <1>1, <1>2, FunctionIsList
<1> QED
  BY <1>2, <1>3

\* So is what is archived.
LEMMA ArchivalsClose ==
  ASSUME NEW e, IsList(e), NEW u, u = Archivals(e)
  PROVE  IsList(u) /\ \A i \in 1..Len(u) : Closing(u[i])
<1>1. Len(e) \in Nat /\ DOMAIN e = 1..Len(e)
  BY ListFacts DEF IsList
<1>2. u = [i \in 1..Len(e) |-> u[i]] /\ \A i \in 1..Len(e) : Closing(u[i])
  BY <1>1 DEF Archivals, Eviction, Closing
<1>3. IsList(u) /\ Len(u) = Len(e)
  BY <1>1, <1>2, FunctionIsList
<1> QED
  BY <1>2, <1>3

\* Two lists of closing records are one.
LEMMA ClosingMore ==
  ASSUME NEW t, IsList(t), NEW u, IsList(u),
         \A i \in 1..Len(t) : Closing(t[i]), \A i \in 1..Len(u) : Closing(u[i])
  PROVE  IsList(t \o u) /\ \A i \in 1..Len(t \o u) : Closing((t \o u)[i])
<1>1. PICK w : w = t \o u
  OBVIOUS
<1>2. /\ Len(t) \in Nat /\ Len(u) \in Nat /\ Len(w) = Len(t) + Len(u)
      /\ \A i \in 1..Len(t) : w[i] = t[i]
      /\ \A i \in 1..Len(u) : w[Len(t) + i] = u[i]
  BY <1>1, ConcatenatedEntries
<1>3. ASSUME NEW i \in 1..Len(w)
      PROVE  Closing(w[i])
  <2>1. CASE i \in 1..Len(t)
    BY <1>2, <2>1
  <2>2. CASE i \notin 1..Len(t)
    <3>1. i - Len(t) \in 1..Len(u) /\ i = Len(t) + (i - Len(t))
      BY <1>2, <2>2
    <3> QED
      BY <1>2, <3>1
  <2> QED
    BY <2>1, <2>2
<1>4. IsList(w)
  BY <1>1, Concatenated
<1> QED
  BY <1>1, <1>3, <1>4

\* Whatever a new version closes and archives, replay does too.
LEMMA AddReproduces ==
  ASSUME IInv, Placed, Alike, Reproduced,
         NEW owner, NEW lineage, NEW isNew, NEW version, NEW state, NEW rewritten,
         Adding(owner, lineage, isNew, version, state, rewritten), isNew = FALSE => owner \in DOMAIN actorLineages
  PROVE  Reproduced' /\ Recording(Creation(versionIds + 1, version, state))
<1>a. PICK id, mine, known : /\ id = versionIds + 1
                              /\ mine = Append(At(lineageVersions, lineage, <<>>), id)
                              /\ known = Lineages(actorLineages, isNew, lineage, owner)
  OBVIOUS
<1>b. PICK old, young, lost, kept : /\ old = Oldest(mine, VersionLimit) /\ young = Newest(mine, VersionLimit)
                                    /\ lost = Oldest(known, LineageLimit) /\ kept = Newest(known, LineageLimit)
  OBVIOUS
<1>c. PICK lostOnes : lostOnes = Elements(lost)
  OBVIOUS
<1>d. PICK gone : gone = Elements(old) \cup AllOf(lineageVersions, lostOnes)
  OBVIOUS
<1>e. PICK evictions : evictions = Archive(lineageVersions, old, lost)
  OBVIOUS
<1>f. PICK c : c = Creation(id, version, state)
  OBVIOUS
<1>g. PICK R, E : R = Rewritings(rewritten, id) /\ E = Archivals(evictions)
  OBVIOUS
<1>h. PICK v1, s1, lv1 : /\ v1 = Put(versions, id, version) /\ s1 = Put(states, id, state)
                         /\ lv1 = Put(lineageVersions, lineage, mine)
  OBVIOUS
<1>i. PICK lo1, al1, so1 : /\ lo1 = Owners(lineageOwner, isNew, lineage, owner)
                           /\ al1 = Put(actorLineages, owner, known)
                           /\ so1 = Sourced(sourceOf, isNew, lineage, id, Len(trace) + 1)
  OBVIOUS
<1>j. PICK t1 : t1 = Append(trace, c)
  OBVIOUS
<1>k. PICK t2 : t2 = t1 \o R
  OBVIOUS
<1>1. /\ Add(owner, lineage, isNew, version, state, rewritten)
      /\ isNew \in BOOLEAN /\ rewritten \in Seq(Nat) /\ Distinct(rewritten)
      /\ \A p \in Elements(rewritten) : p \in 1..versionIds /\ p \in version.parents
      /\ IF isNew THEN lineage = lineageIds + 1 ELSE lineage \in DOMAIN lineageOwner
      /\ version.lineage = lineage /\ version.owner = owner
      /\ version.parents \subseteq DOMAIN versions
  BY DEF Adding, Distinct
<1>2. DOMAIN lineageVersions = DOMAIN lineageOwner /\ (isNew <=> lineage \notin DOMAIN lineageOwner)
  BY <1>1, NewLineage
<1>3. known = IF lineage \in DOMAIN lineageOwner THEN At(actorLineages, owner, <<>>)
              ELSE Append(At(actorLineages, owner, <<>>), lineage)
  BY <1>1, <1>2, <1>a DEF Lineages
<1>4. /\ versions' = Drop(v1, gone)
      /\ states' = Drop(Entered(states, id, state, rewritten), gone)
      /\ lineageVersions' = Drop(Put(lineageVersions, lineage, young), lostOnes)
      /\ lineageOwner' = Drop(lo1, lostOnes)
      /\ actorLineages' = Put(actorLineages, owner, kept)
      /\ references' = Newest(references \o evictions, ForgettingLimit)
      /\ archivedCount' = archivedCount + Len(evictions)
      /\ sourceOf' = Drop(so1, Elements(evictions))
      /\ trace' = trace \o <<c>> \o R \o E
      /\ UNCHANGED <<forgetting, forgettingIds>>
  BY <1>1, <1>3, <1>a, <1>b, <1>c, <1>d, <1>e, <1>f, <1>g, <1>h, <1>i
     DEF Add, Entered, Creation, Owners, Sourced, Archive, AllOf, Rewritings, Archivals
<1>5. PICK rs : Replayable(rs)
  BY DEF Reproduced
<1>6. /\ Sorted(versions, lineageVersions, lineageOwner, actorLineages)
      /\ Distinct(mine) /\ Distinct(known)
  BY <1>1, <1>2, <1>a, SortedIndexes, DistinctLists
<1>7. id \notin DOMAIN versions /\ DOMAIN states = DOMAIN versions /\ id \notin 1..versionIds
  <2>1. versionIds \in Nat /\ \A v \in DOMAIN versions : v \in 1..versionIds
    BY DEF IInv, Indexed, Faithful
  <2>2. id \notin 1..versionIds
    BY <1>a, <2>1
  <2>3. DOMAIN states = DOMAIN versions
    BY DEF Alike
  <2> QED
    BY <2>1, <2>2, <2>3
<1>8. isNew \/ owner \in DOMAIN actorLineages
  BY <1>1
<1>9. IsList(trace) /\ IsList(rewritten) /\ IsList(rs)
  BY <1>1, <1>5, ListFacts DEF IInv, Recorded, IsList, Replayable
<1>10. lostOnes \subseteq DOMAIN lineageOwner \ {lineage}
  <2>1. known = KnownTo(owner, lineage)
    BY <1>3 DEF KnownTo
  <2>2. Elements(Oldest(KnownTo(owner, lineage), LineageLimit)) \subseteq DOMAIN lineageOwner \ {lineage}
    BY Owning
  <2> QED
    BY <1>b, <1>c, <2>1, <2>2
\* The creation.
<1>11. Sorted(v1, lv1, lo1, al1)
  <2>1. Sorted(Put(versions, id, version), Put(lineageVersions, lineage, Append(At(lineageVersions, lineage, <<>>), id)),
               Owners(lineageOwner, isNew, lineage, owner),
               Put(actorLineages, owner, Lineages(actorLineages, isNew, lineage, owner)))
    BY <1>1, <1>2, <1>6, <1>7, SortedMore
  <2> QED
    BY <1>a, <1>h, <1>i, <2>1
<1>12. IsList(t1) /\ ReplayOf(t1) = Kernel(v1, s1, lv1, lo1, al1, forgettingIds, rs, so1)
  <2>1. /\ IsMap(actorLineages)
        /\ ReplayOf(trace) = Kernel(versions, states, lineageVersions, lineageOwner, actorLineages,
                                    forgettingIds, rs, sourceOf)
    BY <1>5 DEF Replayable, Reproduced, Mapped
  <2>2. /\ lineage = version.lineage /\ owner = version.owner /\ isNew \in BOOLEAN
        /\ isNew <=> lineage \notin DOMAIN lineageOwner
    BY <1>1, <1>2
  <2>3. ReplayOf(Append(trace, Creation(id, version, state))) =
          Kernel(Put(versions, id, version), Put(states, id, state),
                 Put(lineageVersions, lineage, Append(At(lineageVersions, lineage, <<>>), id)),
                 Owners(lineageOwner, isNew, lineage, owner),
                 Put(actorLineages, owner, Lineages(actorLineages, isNew, lineage, owner)), forgettingIds, rs,
                 Sourced(sourceOf, isNew, lineage, id, Len(trace) + 1))
    BY <1>8, <1>9, <2>1, <2>2, ReplayCreation
  <2>4. IsList(t1)
    BY <1>9, <1>j, Appended
  <2> QED
    BY <1>a, <1>f, <1>h, <1>i, <1>j, <2>3, <2>4
\* The rewritings.
<1>l. PICK s2 : s2 = Closed(s1, rewritten)
  OBVIOUS
<1>13. IsList(t2) /\ ReplayOf(t2) = Kernel(v1, s2, lv1, lo1, al1, forgettingIds, rs, so1)
  <2>1. IsMap(s1) /\ DOMAIN s1 = DOMAIN states \cup {id}
    BY <1>h DEF Put, IsMap
  <2>2. Elements(rewritten) \subseteq DOMAIN s1
    BY <1>1, <1>7, <2>1
  <2>3. ReplayOf(t1 \o R) = Kernel(v1, s2, lv1, lo1, al1, forgettingIds, rs, so1) /\ IsList(R)
    BY <1>1, <1>9, <1>12, <1>g, <1>l, <2>1, <2>2, ReplayRewritings
  <2>4. IsList(t1 \o R)
    BY <1>12, <2>3, Concatenated
  <2> QED
    BY <1>k, <2>3, <2>4
\* What is archived.
<1>14. /\ lv1[lineage] = mine /\ lineage \in DOMAIN lv1 /\ al1[owner] = known /\ owner \in DOMAIN al1
       /\ DOMAIN lineageVersions \subseteq DOMAIN lv1
       /\ \A l \in DOMAIN lineageVersions : l # lineage => lv1[l] = lineageVersions[l]
  BY <1>h, <1>i DEF Put
<1>15. VersionLimit \in Nat /\ LineageLimit \in Nat /\ ForgettingLimit \in Nat
  BY LimitsArePositive
<1>16. IsList(evictions) /\ Elements(evictions) = Named(gone, lostOnes)
  <2>1. IsList(mine) /\ IsList(known)
    BY <1>11, <1>14 DEF Sorted
  <2>2. IsList(old) /\ IsList(lost)
    BY <1>15, <1>b, <2>1, Cut
  <2>3. \A l \in Elements(lost) : IsList(lineageVersions[l])
    BY <1>2, <1>6, <1>10, <1>c DEF Sorted
  <2>4. gone = Elements(old) \cup AllOf(lineageVersions, Elements(lost))
    BY <1>c, <1>d
  <2>5. IsList(evictions) /\ Elements(evictions) = Named(gone, Elements(lost))
    BY <1>e, <2>2, <2>3, <2>4, EvictionElements
  <2> QED
    BY <1>c, <2>5
<1>17. gone = Elements(Oldest(lv1[lineage], VersionLimit)) \cup AllOf(lv1, lostOnes)
  <2>1. \A l \in lostOnes : lv1[l] = lineageVersions[l]
    BY <1>2, <1>10, <1>14
  <2>2. AllOf(lv1, lostOnes) = AllOf(lineageVersions, lostOnes)
    BY <2>1 DEF AllOf
  <2> QED
    BY <1>14, <1>b, <1>d, <2>2
<1>18. /\ IsMap(v1) /\ IsMap(s2) /\ IsMap(lv1) /\ IsMap(lo1) /\ IsMap(al1) /\ IsMap(so1)
  <2>1. IsMap(v1) /\ IsMap(lv1) /\ IsMap(al1)
    BY <1>h, <1>i, MapsMade
  <2>2. IsMap(so1)
    BY <1>i, MapsMade DEF Sourced
  <2>3. IsMap(lo1)
    <3>1. IsMap(lineageOwner)
      BY DEF Reproduced, Mapped
    <3> QED
      BY <1>i, <3>1, MapsMade DEF Owners
  <2>4. IsMap(s2)
    BY <1>l DEF Closed, IsMap
  <2> QED
    BY <2>1, <2>2, <2>3, <2>4
<1>19. \A a \in DOMAIN al1 : al1[a] # <<>>
  <2>1. known # <<>>
    <3>1. CASE isNew
      <4>1. PICK s : s = At(actorLineages, owner, <<>>)
        OBVIOUS
      <4>2. known = Append(s, lineage)
        BY <1>a, <3>1, <4>1 DEF Lineages
      <4>3. IsList(s)
        <5>1. CASE owner \in DOMAIN actorLineages
          BY <1>6, <4>1, <5>1 DEF At, Sorted
        <5>2. CASE owner \notin DOMAIN actorLineages
          <6>1. s = <<>>
            BY <4>1, <5>2 DEF At
          <6> QED
            BY <6>1, EmptyList
        <5> QED
          BY <5>1, <5>2
      <4>4. Elements(known) = Elements(s) \cup {lineage}
        BY <4>2, <4>3, Appended
      <4> QED
        BY <4>4, EmptyList
    <3>2. CASE ~isNew
      <4>1. known = actorLineages[owner] /\ owner \in DOMAIN actorLineages
        BY <1>8, <1>a, <3>2 DEF Lineages, At
      <4> QED
        BY <4>1 DEF Reproduced, Mapped
    <3> QED
      BY <1>1, <3>1, <3>2
  <2>2. DOMAIN al1 = DOMAIN actorLineages \cup {owner}
        /\ \A a \in DOMAIN al1 : al1[a] = IF a = owner THEN known ELSE actorLineages[a]
    BY <1>i DEF Put
  <2> QED
    BY <2>1, <2>2 DEF Reproduced, Mapped
<1>m. PICK rs1 : rs1 = rs \o evictions
  OBVIOUS
<1>20. /\ ReplayOf(t2 \o E) =
            Kernel(Drop(v1, gone), Drop(s2, gone), Drop(Put(lv1, lineage, young), lostOnes),
                   Drop(lo1, lostOnes), Put(al1, owner, kept), forgettingIds, rs1, Drop(so1, Elements(evictions)))
       /\ kept # <<>>
  <2>1. /\ lostOnes = Elements(Oldest(al1[owner], LineageLimit)) /\ lostOnes \subseteq DOMAIN lv1 \ {lineage}
        /\ Distinct(lv1[lineage]) /\ Distinct(al1[owner])
        /\ young = Newest(lv1[lineage], VersionLimit) /\ kept = Newest(al1[owner], LineageLimit)
    BY <1>2, <1>6, <1>10, <1>14, <1>b, <1>c
  <2>2. /\ ReplayOf(t2 \o E) =
            Kernel(Drop(v1, gone), Drop(s2, gone),
                   Drop(Put(lv1, lineage, Newest(lv1[lineage], VersionLimit)), lostOnes),
                   Drop(lo1, lostOnes), Put(al1, owner, Newest(al1[owner], LineageLimit)), forgettingIds,
                   rs \o evictions, Drop(so1, Elements(evictions)))
        /\ Newest(al1[owner], LineageLimit) # <<>>
    BY <1>9, <1>11, <1>13, <1>14, <1>16, <1>17, <1>18, <1>19, <1>g, <2>1, ReplayArchiving
  <2> QED
    BY <1>m, <2>1, <2>2
\* What is left is what the step leaves.
<1>21. Drop(s2, gone) = states'
  <2>1. id \notin Elements(rewritten)
    BY <1>1, <1>7
  <2>2. Closed(Put(states, id, state), rewritten) =
          Entered(states, id, state, rewritten)
    BY <2>1, ClosedStates
  <2> QED
    BY <1>4, <1>h, <1>l, <2>2
<1>22. Put(lv1, lineage, young) = Put(lineageVersions, lineage, young) /\ Put(al1, owner, kept) = Put(actorLineages, owner, kept)
  BY <1>h, <1>i, PutTwice
<1>23. trace' = t2 \o E
  <2>1. t1 = trace \o <<c>>
    <3>1. trace \in Seq(Elements(trace))
      BY <1>9 DEF IsList
    <3> QED
      BY <1>j, <3>1, AppendedOne
  <2> QED
    BY <1>4, <1>k, <2>1
<1>24. ReplayOf(trace') =
         Kernel(versions', states', lineageVersions', lineageOwner', actorLineages', forgettingIds', rs1, sourceOf')
  BY <1>4, <1>20, <1>21, <1>22, <1>23
<1>25. IsList(rs1) /\ Newest(rs1, ForgettingLimit) = references' /\ Len(rs1) = archivedCount'
  <2>1. Newest(rs, ForgettingLimit) = references /\ Len(rs) = archivedCount
    BY <1>5 DEF Replayable
  <2>2. IsList(rs1) /\ Len(rs1) = Len(rs) + Len(evictions)
    BY <1>9, <1>16, <1>m, Concatenated, ConcatenatedEntries
  <2>3. Newest(Newest(rs, ForgettingLimit) \o evictions, ForgettingLimit) = Newest(rs \o evictions, ForgettingLimit)
    BY <1>9, <1>15, <1>16, NewestAgain
  <2> QED
    BY <1>4, <1>m, <2>1, <2>2, <2>3
<1>26. \E r : Replayable(r)'
  <2>1. Replayable(rs1)'
    BY <1>24, <1>25 DEF Replayable
  <2> QED
    BY <2>1
<1>27. Mapped'
  <2>1. /\ IsMap(versions') /\ IsMap(lineageVersions') /\ IsMap(lineageOwner')
        /\ IsMap(actorLineages') /\ IsMap(sourceOf') /\ IsMap(states')
    BY <1>4, MapsMade
  <2>2. DOMAIN actorLineages' = DOMAIN actorLineages \cup {owner}
        /\ \A a \in DOMAIN actorLineages' : actorLineages'[a] = IF a = owner THEN kept ELSE actorLineages[a]
    BY <1>4 DEF Put
  <2>3. \A a \in DOMAIN actorLineages' : actorLineages'[a] # <<>>
    BY <1>20, <2>2 DEF Reproduced, Mapped
  <2> QED
    BY <2>1, <2>3 DEF Mapped
<1>28. Counted'
  BY <1>4 DEF Reproduced, Counted, Numbers
<1>29. Recording(Creation(versionIds + 1, version, state))
  <2>1. /\ IsList(R) /\ IsList(E)
        /\ \A i \in 1..Len(R) : Closing(R[i])
        /\ \A i \in 1..Len(E) : Closing(E[i])
    BY <1>9, <1>16, <1>g, RewritingsClose, ArchivalsClose
  <2>2. PICK u : u = R \o E
    OBVIOUS
  <2>3. IsList(u) /\ \A i \in 1..Len(u) : Closing(u[i])
    BY <2>1, <2>2, ClosingMore
  <2>4. trace' = t1 \o u
    BY <1>12, <1>23, <1>k, <2>1, <2>2, ListsAssociate
  <2>5. trace' = Append(trace, Creation(versionIds + 1, version, state)) \o u
    BY <1>a, <1>f, <1>j, <2>4
  <2> QED
    BY <2>3, <2>5 DEF Recording
<1> QED
  BY <1>26, <1>27, <1>28, <1>29 DEF Reproduced

\* An event or an observation does not change what the kernel remembers.
LEMMA BesideReproduces ==
  ASSUME Reproduced, IsList(trace), UNCHANGED indexVars, UNCHANGED forgettingIds, NEW r,
         r.kind \in {"CANONICAL_EVENT_COMMITTED", "OBSERVATION_RECORDED"}, trace' = Append(trace, r)
  PROVE  Reproduced'
<1>1. PICK rs : Replayable(rs)
  BY DEF Reproduced
<1>2. PICK n : n = Len(trace) + 1
  OBVIOUS
<1>3. ReplayOf(trace') = Replayed(ReplayOf(trace), r, n)
  BY <1>2, ReplayOne
<1>4. ReplayOf(trace) =
        Kernel(versions, states, lineageVersions, lineageOwner, actorLineages, forgettingIds, rs, sourceOf)
  BY <1>1 DEF Replayable
<1>5. ReplayOf(trace') =
        Kernel(versions, states, lineageVersions, lineageOwner, actorLineages, forgettingIds, rs, sourceOf)
  BY <1>3, <1>4, TurnBeside
<1>6. Replayable(rs)'
  BY <1>1, <1>5 DEF Replayable, indexVars
<1> QED
  BY <1>6 DEF Reproduced, Mapped, Counted, indexVars

\* A step that records nothing and leaves the indexes.
LEMMA NothingReproduces ==
  ASSUME Reproduced, UNCHANGED indexVars, UNCHANGED forgettingIds, trace' = trace
  PROVE  Reproduced'
<1>1. PICK rs : Replayable(rs)
  BY DEF Reproduced
<1>2. Replayable(rs)'
  BY <1>1 DEF Replayable, indexVars
<1> QED
  BY <1>2 DEF Reproduced, Mapped, Counted, indexVars

\* The forgetting events are numbered on.
LEMMA NumbersGrow ==
  ASSUME NEW n \in Nat, NEW limit \in Nat
  PROVE  Newest(Append(Newest(Numbers(n), limit), n + 1), limit) = Newest(Numbers(n + 1), limit)
<1> DEFINE s == Numbers(n)
           w == Numbers(n + 1)
           cut == Newest(s, limit)
<1>1. s = [i \in 1..n |-> s[i]] /\ w = [i \in 1..(n + 1) |-> w[i]]
  BY DEF Numbers
<1>2. (\A i \in 1..n : s[i] = i) /\ \A i \in 1..(n + 1) : w[i] = i
  BY DEF Numbers
<1> HIDE DEF s, w
<1>3. IsList(s) /\ Len(s) = n /\ IsList(w) /\ Len(w) = n + 1
  <2>1. n + 1 \in Nat
    OBVIOUS
  <2> QED
    BY <1>1, <2>1, FunctionIsList
<1> DEFINE more == Append(s, n + 1)
<1>4. more = w
  <2>1. /\ IsList(more) /\ Len(more) = n + 1 /\ more[n + 1] = n + 1
        /\ \A i \in 1..n : more[i] = s[i]
    BY <1>3, Appended, AppendedEntries
  <2> HIDE DEF more
  <2>2. ASSUME NEW i \in 1..(n + 1)
        PROVE  more[i] = w[i]
    <3>1. i \in 1..n \/ i = n + 1
      OBVIOUS
    <3> QED
      BY <1>2, <2>1, <3>1
  <2> QED
    BY <1>3, <2>1, <2>2, SameList
<1>5. PICK one : one = <<n + 1>>
  OBVIOUS
<1>6. IsList(one) /\ IsList(cut)
  BY <1>3, <1>5, AppendedOnly, Cut
<1>7. Append(s, n + 1) = s \o one /\ Append(cut, n + 1) = cut \o one
  <2>1. s \in Seq(Elements(s)) /\ cut \in Seq(Elements(cut))
    BY <1>3, <1>6 DEF IsList
  <2> HIDE DEF cut
  <2> QED
    BY <1>5, <2>1, AppendedOne
<1>8. Newest(cut \o one, limit) = Newest(s \o one, limit)
  BY <1>3, <1>6, NewestAgain
<1> QED
  BY <1>4, <1>7, <1>8 DEF s, w

\* Replay puts the state that a forgetting event tells where the kernel has.
LEMMA TransitionReproduces ==
  ASSUME IsList(trace), Reproduced, NEW id, NEW mode, NEW change, TransitionMemory(id, mode, change)
  PROVE  Reproduced'
<1>1. PICK rs : Replayable(rs)
  BY DEF Reproduced
<1>2. PICK s : s = Transitioned(states[id], mode, change)
  OBVIOUS
<1>3. PICK r : r = [kind |-> "FORGETTING_EVENT_APPLIED", id |-> id, state |-> s]
  OBVIOUS
<1>4. r.kind = "FORGETTING_EVENT_APPLIED" /\ r.id = id /\ r.state = s
  BY <1>3
<1>5. /\ id \in DOMAIN states /\ states' = [states EXCEPT ![id] = s]
      /\ trace' = Append(trace, r)
      /\ forgettingIds' = forgettingIds + 1
      /\ forgetting' = Newest(Append(forgetting, forgettingIds + 1), ForgettingLimit)
      /\ UNCHANGED <<versions, lineageVersions, lineageOwner, actorLineages, references, archivedCount, sourceOf>>
  BY <1>2, <1>3 DEF TransitionMemory
<1>6. IsMap(states) /\ forgettingIds \in Nat /\ forgetting = Newest(Numbers(forgettingIds), ForgettingLimit)
  BY DEF Reproduced, Mapped, Counted
<1>7. states' = Put(states, id, s)
  BY <1>5, <1>6 DEF Put, IsMap
<1>8. PICK n : n = Len(trace) + 1
  OBVIOUS
<1>9. ReplayOf(trace') = Replayed(ReplayOf(trace), r, n)
  BY <1>5, <1>8, ReplayOne
<1>10. ReplayOf(trace) =
         Kernel(versions, states, lineageVersions, lineageOwner, actorLineages, forgettingIds, rs, sourceOf)
  BY <1>1 DEF Replayable
<1>11. Replayed(Kernel(versions, states, lineageVersions, lineageOwner, actorLineages, forgettingIds, rs, sourceOf), r, n) =
         Kernel(versions, Put(states, r.id, r.state), lineageVersions, lineageOwner, actorLineages,
                forgettingIds + 1, rs, sourceOf)
  BY <1>4, TurnForgetting
<1>12. ReplayOf(trace') =
         Kernel(versions', states', lineageVersions', lineageOwner', actorLineages', forgettingIds', rs, sourceOf')
  BY <1>4, <1>5, <1>7, <1>9, <1>10, <1>11
<1>13. Replayable(rs)'
  BY <1>1, <1>5, <1>12 DEF Replayable
<1>14. Mapped'
  <2>1. IsMap(states')
    BY <1>7, MapsMade
  <2> QED
    BY <1>5, <2>1 DEF Reproduced, Mapped
<1>15. Counted'
  <2>1. ForgettingLimit \in Nat
    BY LimitsArePositive
  <2>2. forgetting' = Newest(Numbers(forgettingIds + 1), ForgettingLimit)
    BY <1>5, <1>6, <2>1, NumbersGrow
  <2> QED
    BY <1>5, <1>6, <2>2 DEF Counted
<1> QED
  BY <1>13, <1>14, <1>15 DEF Reproduced

\* What a contradiction may name while the archived is left alone.
LEMMA ContradictionIsLive ==
  ASSUME "archived" \notin Liberties, Alike, NEW ids, NEW anchor, RegisterContradiction(ids, anchor)
  PROVE  ids \subseteq DOMAIN states
BY DEF RegisterContradiction, Alike

\* Replay moves the states that a contradiction names as the kernel has.
LEMMA ContradictionReproduces ==
  ASSUME IsList(trace), Reproduced, NEW ids, NEW anchor, RegisterContradiction(ids, anchor), ids \subseteq DOMAIN states
  PROVE  Reproduced'
<1>1. PICK rs : Replayable(rs)
  BY DEF Reproduced
<1>2. PICK r : r = [kind |-> "MEMORY_CONTRADICTION_REGISTERED", ids |-> ids]
  OBVIOUS
<1>3. r.kind = "MEMORY_CONTRADICTION_REGISTERED" /\ r.ids = ids
  BY <1>2
<1>4. /\ states' = [v \in DOMAIN states \cup ids |->
                      IF v \in ids THEN Moved(StateOf(v), "CONTRADICTED") ELSE states[v]]
      /\ trace' = Append(trace, r)
      /\ UNCHANGED <<forgettingIds, versions, lineageVersions, lineageOwner, actorLineages, forgetting,
                     references, archivedCount, sourceOf>>
  BY <1>2 DEF RegisterContradiction, idVars
<1>5. states' = [v \in DOMAIN states |-> IF v \in ids THEN Moved(states[v], "CONTRADICTED") ELSE states[v]]
  <2>1. DOMAIN states \cup ids = DOMAIN states
    OBVIOUS
  <2>2. \A v \in DOMAIN states : StateOf(v) = states[v]
    BY DEF StateOf
  <2> QED
    BY <1>4, <2>1, <2>2
<1>6. PICK n : n = Len(trace) + 1
  OBVIOUS
<1>7. ReplayOf(trace') = Replayed(ReplayOf(trace), r, n)
  BY <1>4, <1>6, ReplayOne
<1>8. ReplayOf(trace) =
        Kernel(versions, states, lineageVersions, lineageOwner, actorLineages, forgettingIds, rs, sourceOf)
  BY <1>1 DEF Replayable
<1>9. Replayed(Kernel(versions, states, lineageVersions, lineageOwner, actorLineages, forgettingIds, rs, sourceOf), r, n) =
        Kernel(versions, [v \in DOMAIN states |-> IF v \in r.ids THEN Moved(states[v], "CONTRADICTED") ELSE states[v]],
               lineageVersions, lineageOwner, actorLineages, forgettingIds, rs, sourceOf)
  BY <1>3, TurnContradicted
<1>10. ReplayOf(trace') =
         Kernel(versions', states', lineageVersions', lineageOwner', actorLineages', forgettingIds', rs, sourceOf')
  BY <1>3, <1>4, <1>5, <1>7, <1>8, <1>9
<1>11. Replayable(rs)'
  BY <1>1, <1>4, <1>10 DEF Replayable
<1>12. Mapped'
  <2>1. IsMap(states')
    BY <1>5 DEF IsMap
  <2> QED
    BY <1>4, <2>1 DEF Reproduced, Mapped
<1>13. Counted'
  BY <1>4 DEF Reproduced, Counted
<1> QED
  BY <1>11, <1>12, <1>13 DEF Reproduced

\* The empty trace gives the empty kernel.
LEMMA ReplayNothing == ReplayOf(<<>>) = Kernel(<<>>, <<>>, <<>>, <<>>, <<>>, 0, <<>>, <<>>)
<1> DEFINE t == <<>>
<1>1. Len(t) = 0
  OBVIOUS
<1> HIDE DEF t
<1>2. \E f : f[Len(t)] = ReplayOf(t) /\ f[0] = Blank
  <2>1. Len(t) \in Nat
    BY <1>1
  <2> QED
    BY <2>1, ReplayFollows
<1>3. ReplayOf(t) = Blank
  BY <1>1, <1>2
<1> QED
  BY <1>3 DEF Blank, Kernel, t

\* An empty kernel is replayed from an empty trace.
LEMMA InitReproduces == Init => Reproduced
<1> SUFFICES ASSUME Init
             PROVE  Reproduced
  OBVIOUS
<1> DEFINE e == <<>>
<1>1. IsList(e) /\ DOMAIN e = {} /\ Len(e) = 0 /\ IsMap(e)
  BY EmptyList DEF IsMap
<1>2. /\ versions = e /\ states = e /\ lineageVersions = e /\ lineageOwner = e /\ actorLineages = e
      /\ forgetting = e /\ references = e /\ archivedCount = 0 /\ sourceOf = e /\ forgettingIds = 0 /\ trace = e
  BY DEF Init, OccurrencesInit
<1>3. ReplayOf(e) = Kernel(e, e, e, e, e, 0, e, e)
  BY ReplayNothing
<1> HIDE DEF e
<1>4. ForgettingLimit \in Nat
  BY LimitsArePositive
<1>5. Newest(e, ForgettingLimit) = e
  <2>1. Halved(e, ForgettingLimit, Oldest(e, ForgettingLimit), Newest(e, ForgettingLimit))
    BY <1>1, <1>4, Halves
  <2>2. PICK a, b : a = Oldest(e, ForgettingLimit) /\ b = Newest(e, ForgettingLimit)
    OBVIOUS
  <2>3. IsList(b) /\ Len(b) = 0
    BY <1>1, <2>1, <2>2 DEF Halved
  <2>4. b = e
    BY <1>1, <2>3, SameList
  <2> QED
    BY <2>2, <2>4
<1>6. Numbers(0) = e
  <2> DEFINE w == Numbers(0)
  <2>1. w = [i \in 1..0 |-> w[i]]
    BY DEF Numbers
  <2> HIDE DEF w
  <2>2. IsList(w) /\ Len(w) = 0
    BY <2>1, FunctionIsList
  <2>3. w = e
    BY <1>1, <2>2, SameList
  <2> QED
    BY <2>3 DEF w
<1>7. Replayable(e)
  BY <1>1, <1>2, <1>3, <1>5 DEF Replayable
<1>8. Mapped
  BY <1>1, <1>2 DEF Mapped
<1>9. Counted
  BY <1>2, <1>5, <1>6 DEF Counted
<1> QED
  BY <1>7, <1>8, <1>9 DEF Reproduced

\* The versions that a list of records tells, numbered in order, are of these
\* lineages.
InventoryOf(made, last, lineages) ==
  /\ IsList(made) /\ Len(made) = last
  /\ \A i \in 1..last : made[i].id = i
  /\ {made[i].version.lineage : i \in 1..last} = 1..lineages

Inventoried == InventoryOf(Records("MEMORY_VERSION_CREATED"), versionIds, lineageIds)

\* Nothing is created and nothing counted.
LEMMA InitInventoried == Init => Inventoried
<1> SUFFICES ASSUME Init
             PROVE  Inventoried
  OBVIOUS
<1> DEFINE e == <<>>
<1>1. IsList(e) /\ DOMAIN e = {} /\ Len(e) = 0 /\ e = <<>>
  BY EmptyList
<1>2. trace = e /\ versionIds = 0 /\ lineageIds = 0
  BY DEF Init, OccurrencesInit
<1> HIDE DEF e
<1>3. Records("MEMORY_VERSION_CREATED") = e
  BY <1>1, <1>2, KeepNothing DEF Records
<1> QED
  BY <1>1, <1>2, <1>3 DEF Inventoried, InventoryOf

\* One version more.
LEMMA InventoryGrows ==
  ASSUME NEW made, NEW last \in Nat, NEW lineages \in Nat, InventoryOf(made, last, lineages),
         NEW c, c.id = last + 1, NEW more, more = Append(made, c),
         NEW l, l = c.version.lineage, NEW then, \/ l = lineages + 1 /\ then = lineages + 1
                                                 \/ l \in 1..lineages /\ then = lineages
  PROVE  InventoryOf(more, last + 1, then)
<1>1. IsList(made) /\ Len(made) = last /\ \A i \in 1..last : made[i].id = i
  BY DEF InventoryOf
<1>2. IsList(more) /\ Len(more) = last + 1 /\ more[last + 1] = c /\ \A i \in 1..last : more[i] = made[i]
  BY <1>1, Appended, AppendedEntries
<1>3. \A i \in 1..(last + 1) : i \in 1..last \/ i = last + 1
  OBVIOUS
<1>4. \A i \in 1..(last + 1) : more[i].id = i
  BY <1>1, <1>2, <1>3
<1>5. {more[i].version.lineage : i \in 1..(last + 1)} = {made[i].version.lineage : i \in 1..last} \cup {l}
  <2>1. 1..(last + 1) = 1..last \cup {last + 1}
    OBVIOUS
  <2>2. {more[i].version.lineage : i \in 1..last} = {made[i].version.lineage : i \in 1..last}
    BY <1>2
  <2> QED
    BY <1>2, <2>1, <2>2
<1>6. {more[i].version.lineage : i \in 1..(last + 1)} = 1..lineages \cup {l}
  BY <1>5 DEF InventoryOf
<1>7. 1..lineages \cup {l} = 1..then
  OBVIOUS
<1> QED
  BY <1>2, <1>4, <1>6, <1>7 DEF InventoryOf

\* A new version is one record more of its kind.
LEMMA RecordingMakes ==
  ASSUME IsList(trace), NEW c, c.kind = "MEMORY_VERSION_CREATED", Recording(c)
  PROVE  Records("MEMORY_VERSION_CREATED")' = Append(Records("MEMORY_VERSION_CREATED"), c)
<1> DEFINE kind == "MEMORY_VERSION_CREATED"
<1>1. PICK u : IsList(u) /\ trace' = Append(trace, c) \o u /\ \A i \in 1..Len(u) : Closing(u[i])
  BY DEF Recording
<1>2. \A i \in 1..Len(u) : u[i].kind # kind
  BY <1>1 DEF Closing
<1>3. c.kind = kind
  OBVIOUS
<1>4. Records(kind)' = OfKind(trace', kind) /\ Records(kind) = OfKind(trace, kind)
  BY DEF Records, OfKind
<1> HIDE DEF kind
<1>5. PICK t : t = Append(trace, c)
  OBVIOUS
<1>6. IsList(t) /\ OfKind(t, kind) = Append(OfKind(trace, kind), c)
  BY <1>3, <1>5, Appended, OfKindNext
<1>7. OfKind(t \o u, kind) = OfKind(t, kind) \o OfKind(u, kind)
  <2>1. IsList(t) /\ IsList(u)
    BY <1>1, <1>6
  <2> QED
    BY <2>1, OfKindConcat
<1>8. OfKind(u, kind) = <<>>
  BY <1>1, <1>2, OfKindNone
<1>9. PICK s : s = OfKind(t, kind)
  OBVIOUS
<1>10. s \in Seq(Elements(s))
  BY <1>6, <1>9, KeptElements DEF OfKind, IsList
<1>11. s \o <<>> = s
  BY <1>10, ConcatEmptySeq
<1> QED
  BY <1>1, <1>4, <1>5, <1>6, <1>7, <1>8, <1>9, <1>11 DEF kind

\* A new version is counted once, and its lineage when it is new.
LEMMA AddInventories ==
  ASSUME IInv, Inventoried, NEW owner, NEW lineage, NEW isNew, NEW version, NEW state, NEW rewritten,
         Adding(owner, lineage, isNew, version, state, rewritten),
         Recording(Creation(versionIds + 1, version, state))
  PROVE  Inventoried'
<1>1. /\ versionIds \in Nat /\ lineageIds \in Nat /\ IsList(trace)
      /\ DOMAIN lineageOwner \subseteq 1..lineageIds
  BY DEF IInv, Indexed, Recorded, IsList
<1>2. PICK c : c = Creation(versionIds + 1, version, state)
  OBVIOUS
<1>3. c.kind = "MEMORY_VERSION_CREATED" /\ c.id = versionIds + 1 /\ c.version = version
  BY <1>2 DEF Creation
<1>4. version.lineage = lineage /\ versionIds' = versionIds + 1
  BY DEF Adding, Add
<1>5. \/ lineage = lineageIds + 1 /\ lineageIds' = lineageIds + 1
      \/ lineage \in 1..lineageIds /\ lineageIds' = lineageIds
  BY <1>1 DEF Adding
<1>6. PICK made, more : made = Records("MEMORY_VERSION_CREATED") /\ more = Records("MEMORY_VERSION_CREATED")'
  OBVIOUS
<1>7. more = Append(made, c)
  BY <1>1, <1>2, <1>3, <1>6, RecordingMakes
<1>8. InventoryOf(made, versionIds, lineageIds)
  BY <1>6 DEF Inventoried
<1>9. InventoryOf(more, versionIds + 1, lineageIds')
  <2>1. PICK then : then = lineageIds'
    OBVIOUS
  <2>2. lineage = c.version.lineage
    BY <1>3, <1>4
  <2>3. InventoryOf(more, versionIds + 1, then)
    BY <1>1, <1>3, <1>5, <1>7, <1>8, <2>1, <2>2, InventoryGrows
  <2> QED
    BY <2>1, <2>3
<1> QED
  BY <1>4, <1>6, <1>9 DEF Inventoried

\* A record of another kind, or none.
LEMMA OtherRecords ==
  ASSUME IsList(trace), NEW kind, \/ trace' = trace
                                  \/ \E r : r.kind # kind /\ trace' = Append(trace, r)
  PROVE  Records(kind)' = Records(kind)
<1>1. Records(kind)' = OfKind(trace', kind) /\ Records(kind) = OfKind(trace, kind)
  BY DEF Records, OfKind
<1>2. ASSUME NEW r, r.kind # kind, trace' = Append(trace, r)
      PROVE  OfKind(trace', kind) = OfKind(trace, kind)
  BY <1>2, OfKindNext
<1> QED
  BY <1>1, <1>2

\* Steps that create nothing record something else.
Moving(kinds) == \E r : r.kind \in kinds /\ trace' = Append(trace, r)

\* Events and observations record nothing else, a rejected event nothing.
LEMMA OccurRecords ==
  ASSUME Occur
  PROVE  trace' = trace \/ Moving({"CANONICAL_EVENT_COMMITTED", "OBSERVATION_RECORDED"})
<1>1. ASSUME NEW type, NEW payload, CommitEvent(type, payload), trace' # trace
      PROVE  \E r : r.kind = "CANONICAL_EVENT_COMMITTED" /\ trace' = Append(trace, r)
  <2>1. PICK r : r = [kind |-> "CANONICAL_EVENT_COMMITTED", event |-> [id |-> eventIds + 1, type |-> type]]
    OBVIOUS
  <2>2. trace' = Append(trace, r)
    BY <1>1, <2>1 DEF CommitEvent
  <2> QED
    BY <2>1, <2>2
<1>2. ASSUME NEW d, NEW visible, RecordObservation(d, visible)
      PROVE  \E r : r.kind = "OBSERVATION_RECORDED" /\ trace' = Append(trace, r)
  <2>1. PICK r : r = [kind |-> "OBSERVATION_RECORDED", observation |-> d]
    OBVIOUS
  <2>2. trace' = Append(trace, r)
    BY <1>2, <2>1 DEF RecordObservation
  <2> QED
    BY <2>1, <2>2
<1>3. trace' = trace \/ \E r : /\ r.kind \in {"CANONICAL_EVENT_COMMITTED", "OBSERVATION_RECORDED"}
                               /\ trace' = Append(trace, r)
  BY <1>1, <1>2 DEF Occur, OccurrencesNext
<1> QED
  BY <1>3 DEF Moving

\* Steps that create nothing record one thing or nothing.
LEMMA OthersRecord ==
  ASSUME Other
  PROVE  \/ trace' = trace
         \/ Occur /\ Moving({"CANONICAL_EVENT_COMMITTED", "OBSERVATION_RECORDED"})
         \/ UNCHANGED occurrenceVars /\ Moving({"FORGETTING_EVENT_APPLIED", "MEMORY_CONTRADICTION_REGISTERED"})
<1>1. CASE Occur
  BY <1>1, OccurRecords
<1>2. CASE Transitioning
  <2>1. PICK id, s : trace' = Append(trace, [kind |-> "FORGETTING_EVENT_APPLIED", id |-> id, state |-> s])
                     /\ UNCHANGED occurrenceVars
    BY <1>2 DEF Transitioning, TransitionMemory
  <2>2. PICK r : r = [kind |-> "FORGETTING_EVENT_APPLIED", id |-> id, state |-> s]
    OBVIOUS
  <2> QED
    BY <2>1, <2>2 DEF Moving
<1>3. CASE Contradicting
  <2>1. PICK ids : trace' = Append(trace, [kind |-> "MEMORY_CONTRADICTION_REGISTERED", ids |-> ids])
                   /\ UNCHANGED occurrenceVars
    BY <1>3 DEF Contradicting, RegisterContradiction
  <2>2. PICK r : r = [kind |-> "MEMORY_CONTRADICTION_REGISTERED", ids |-> ids]
    OBVIOUS
  <2> QED
    BY <2>1, <2>2 DEF Moving
<1>4. CASE Querying \/ SaveAndLoad \/ UNCHANGED vars
  BY <1>4 DEF Querying, QueryMemory, SaveAndLoad, vars
<1> QED
  BY <1>1, <1>2, <1>3, <1>4 DEF Other

\* Those create nothing.
LEMMA OthersInventory ==
  ASSUME IInv, Inventoried, Other
  PROVE  Inventoried'
<1>1. IsList(trace)
  BY DEF IInv, Recorded, IsList
<1>2. trace' = trace \/ \E r : r.kind # "MEMORY_VERSION_CREATED" /\ trace' = Append(trace, r)
  BY OthersRecord DEF Moving
<1>3. Records("MEMORY_VERSION_CREATED")' = Records("MEMORY_VERSION_CREATED")
  BY <1>1, <1>2, OtherRecords
<1>4. versionIds' = versionIds /\ lineageIds' = lineageIds
  BY OthersAreSteady DEF Steady
<1> QED
  BY <1>3, <1>4 DEF Inventoried

\* What every step leaves: the logs are those that the trace tells.
LEMMA OthersLog ==
  ASSUME Payloads \subseteq {"canonical"}, Logged, Other
  PROVE  Logged'
<1>1. CASE Occur
  <2>1. OccurrencesNext
    BY <1>1 DEF Occur
  <2>2. ASSUME NEW type \in EventTypes, NEW payload \in Payloads, CommitEvent(type, payload)
        PROVE  Logged'
    BY <2>2, LoggedKept
  <2>3. ASSUME NEW d \in Drafts, NEW visible \in Claims, RecordObservation(d, visible)
        PROVE  Logged'
    BY <2>3, ObservationLogged DEF RecordObservation
  <2> QED
    BY <2>1, <2>2, <2>3 DEF OccurrencesNext
<1>2. CASE UNCHANGED occurrenceVars /\ trace' = trace
  <2>1. \A kind : Records(kind)' = Records(kind)
    BY <1>2 DEF Records
  <2> QED
    BY <1>2, <2>1 DEF Logged, RebuiltEvents, RebuiltObservations, RebuiltEventIds, occurrenceVars
<1>3. CASE UNCHANGED occurrenceVars /\ Moving({"FORGETTING_EVENT_APPLIED", "MEMORY_CONTRADICTION_REGISTERED"})
  <2>1. PICK r : /\ r.kind \in {"FORGETTING_EVENT_APPLIED", "MEMORY_CONTRADICTION_REGISTERED"}
                 /\ trace' = Append(trace, r)
    BY <1>3 DEF Moving
  <2>2. IsList(trace)
    BY DEF Logged
  <2>3. /\ Records("CANONICAL_EVENT_COMMITTED")' = Records("CANONICAL_EVENT_COMMITTED")
        /\ Records("OBSERVATION_RECORDED")' = Records("OBSERVATION_RECORDED")
    BY <2>1, <2>2, OtherRecords
  <2>4. IsList(trace')
    BY <2>1, <2>2, Appended
  <2> QED
    BY <1>3, <2>3, <2>4 DEF Logged, RebuiltEvents, RebuiltObservations, RebuiltEventIds, occurrenceVars
<1>4. UNCHANGED occurrenceVars \/ Occur
  BY DEF Other, Transitioning, TransitionMemory, Contradicting, RegisterContradiction, Querying, QueryMemory,
         SaveAndLoad, vars
<1> QED
  BY <1>1, <1>2, <1>3, <1>4, OthersRecord

\* A new version leaves the logs of events and observations.
LEMMA AddLogs ==
  ASSUME Logged, UNCHANGED occurrenceVars, NEW c, c.kind = "MEMORY_VERSION_CREATED", Recording(c)
  PROVE  Logged'
<1>1. PICK u : IsList(u) /\ trace' = Append(trace, c) \o u /\ \A i \in 1..Len(u) : Closing(u[i])
  BY DEF Recording
<1>2. IsList(trace)
  BY DEF Logged
<1>3. PICK one : one = <<c>>
  OBVIOUS
<1>4. IsList(one) /\ Elements(one) = {c}
  BY <1>3, AppendedOnly
<1>5. Append(trace, c) = trace \o one
  <2>1. trace \in Seq(Elements(trace))
    BY <1>2 DEF IsList
  <2> QED
    BY <1>3, <2>1, AppendedOne
<1>6. PICK w : w = one \o u
  OBVIOUS
<1>7. trace' = trace \o w
  BY <1>1, <1>2, <1>4, <1>5, <1>6, ListsAssociate
<1>8. IsList(w) /\ Elements(w) = {c} \cup Elements(u)
  BY <1>1, <1>4, <1>6, Concatenated
<1>9. \A r \in Elements(u) : Closing(r)
  BY <1>1, ListFacts DEF IsList
<1>10. \A i \in 1..Len(w) : w[i] \in Elements(w)
  BY <1>8, ListFacts DEF IsList
<1>11. \A i \in 1..Len(w) : w[i].kind \notin {"CANONICAL_EVENT_COMMITTED", "OBSERVATION_RECORDED"}
  <2>1. \A r \in Elements(w) : r.kind \notin {"CANONICAL_EVENT_COMMITTED", "OBSERVATION_RECORDED"}
    BY <1>8, <1>9 DEF Closing
  <2> QED
    BY <1>10, <2>1
<1> QED
  BY <1>7, <1>8, <1>11, LoggedBeside

\* What SaveAndLoad finds again.
Restored == Reproduced /\ Inventoried /\ Logged

\* A step that creates nothing leaves what can be replayed.
LEMMA OthersReproduce ==
  ASSUME "archived" \notin Liberties, IInv, Alike, Reproduced, Other
  PROVE  Reproduced'
<1>1. IsList(trace)
  BY DEF IInv, Recorded, IsList
<1>2. CASE Occur
  <2>1. UNCHANGED indexVars /\ UNCHANGED forgettingIds
    BY <1>2 DEF Occur, idVars
  <2>2. trace' = trace \/ Moving({"CANONICAL_EVENT_COMMITTED", "OBSERVATION_RECORDED"})
    BY <1>2, OccurRecords
  <2>3. CASE Moving({"CANONICAL_EVENT_COMMITTED", "OBSERVATION_RECORDED"})
    BY <1>1, <2>1, <2>3, BesideReproduces DEF Moving
  <2>4. CASE trace' = trace
    BY <2>1, <2>4, NothingReproduces
  <2> QED
    BY <2>2, <2>3, <2>4
<1>3. CASE Transitioning
  BY <1>1, <1>3, TransitionReproduces DEF Transitioning
<1>4. CASE Contradicting
  <2>1. PICK ids, anchor : RegisterContradiction(ids, anchor)
    BY <1>4 DEF Contradicting
  <2>2. ids \subseteq DOMAIN states
    BY <2>1, ContradictionIsLive
  <2> QED
    BY <1>1, <2>1, <2>2, ContradictionReproduces
<1>5. CASE Querying \/ SaveAndLoad \/ UNCHANGED vars
  <2>1. UNCHANGED indexVars /\ UNCHANGED forgettingIds /\ trace' = trace
    BY <1>5 DEF Querying, QueryMemory, SaveAndLoad, vars, idVars
  <2> QED
    BY <2>1, NothingReproduces
<1> QED
  BY <1>2, <1>3, <1>4, <1>5 DEF Other

\* Every step leaves a trace that can be replayed.
LEMMA NextRestores ==
  ASSUME "archived" \notin Liberties, "foreign lineage" \notin Liberties, Payloads \subseteq {"canonical"}
  PROVE  IInv /\ Placed /\ Alike /\ Owned /\ Restored /\ [Next]_vars => Restored'
<1> SUFFICES ASSUME IInv, Placed, Alike, Owned, Restored, [Next]_vars
             PROVE  Restored'
  OBVIOUS
<1>1. Reproduced /\ Inventoried /\ Logged
  BY DEF Restored
<1>2. CASE SomeAdding
  <2>1. PICK owner, lineage, isNew, version, state, rewritten :
          Adding(owner, lineage, isNew, version, state, rewritten)
    BY <1>2 DEF SomeAdding
  <2>2. isNew = FALSE => owner \in DOMAIN actorLineages
    BY <2>1, OwnerIsKnown
  <2>3. Reproduced' /\ Recording(Creation(versionIds + 1, version, state))
    BY <1>1, <2>1, <2>2, AddReproduces
  <2>4. Inventoried'
    BY <1>1, <2>1, <2>3, AddInventories
  <2>5. Logged'
    <3>1. UNCHANGED occurrenceVars
      BY <2>1 DEF Adding, Add
    <3>2. PICK c : c = Creation(versionIds + 1, version, state)
      OBVIOUS
    <3>3. c.kind = "MEMORY_VERSION_CREATED"
      BY <3>2 DEF Creation
    <3> QED
      BY <1>1, <2>3, <3>1, <3>2, <3>3, AddLogs
  <2> QED
    BY <2>3, <2>4, <2>5 DEF Restored
<1>3. CASE Other
  BY <1>1, <1>3, OthersReproduce, OthersInventory, OthersLog DEF Restored
<1> QED
  BY <1>2, <1>3, StepKinds

\* Replay gives back what was restored.
LEMMA RestoredIsReplayed == Restored => ReplayReproduces
<1> SUFFICES ASSUME Restored
             PROVE  ReplayReproduces
  OBVIOUS
<1>1. PICK rs : Replayable(rs)
  BY DEF Restored, Reproduced
<1>2. PICK k : k = Replay
  OBVIOUS
<1>3. Replay = ReplayOf(trace)
  BY DEF Replay, ReplayOf
<1>4. k = Kernel(versions, states, lineageVersions, lineageOwner, actorLineages, forgettingIds, rs, sourceOf)
  BY <1>1, <1>2, <1>3 DEF Replayable
<1>5. /\ k.ok = TRUE /\ k.versions = versions /\ k.states = states /\ k.lineageVersions = lineageVersions
      /\ k.lineageOwner = lineageOwner /\ k.actorLineages = actorLineages /\ k.forgetting = forgettingIds
      /\ k.references = rs /\ k.sourceOf = sourceOf
  BY <1>4 DEF Kernel
<1>6. Newest([i \in 1..k.forgetting |-> i], ForgettingLimit) = forgetting
  BY <1>5 DEF Restored, Reproduced, Counted, Numbers
<1>7. Newest(k.references, ForgettingLimit) = references /\ Len(k.references) = archivedCount
  BY <1>1, <1>5 DEF Replayable
<1>8. RebuiltEvents = events /\ RebuiltObservations = observations /\ RebuiltEventIds = eventIds
  BY DEF Restored, Logged
<1>9. LET made == Records("MEMORY_VERSION_CREATED") IN
        /\ [i \in DOMAIN made |-> made[i].id] = [i \in 1..versionIds |-> i]
        /\ {made[i].version.lineage : i \in DOMAIN made} = 1..lineageIds
  <2>1. PICK made : made = Records("MEMORY_VERSION_CREATED")
    OBVIOUS
  <2>2. InventoryOf(made, versionIds, lineageIds)
    BY <2>1 DEF Restored, Inventoried
  <2>3. DOMAIN made = 1..versionIds
    BY <2>2, ListFacts DEF InventoryOf, IsList
  <2>4. [i \in DOMAIN made |-> made[i].id] = [i \in 1..versionIds |-> i]
    BY <2>2, <2>3 DEF InventoryOf
  <2>5. {made[i].version.lineage : i \in DOMAIN made} = 1..lineageIds
    BY <2>2, <2>3 DEF InventoryOf
  <2> QED
    BY <2>1, <2>4, <2>5
<1> QED
  BY <1>2, <1>5, <1>6, <1>7, <1>8, <1>9 DEF ReplayReproduces

\* While payloads are canonical, no archived version is contradicted and no
\* lineage extended by a stranger: whatever the kernel created, rewrote,
\* forgot, contradicted and archived, _from_history_trace gives back its
\* indexes, its logs, its references to what it archived and its counters.
THEOREM TraceReproducesKernel ==
  ASSUME "archived" \notin Liberties, "foreign lineage" \notin Liberties, Payloads \subseteq {"canonical"}
  PROVE  Spec => []ReplayReproduces
<1>1. Init => IInv /\ Placed /\ Alike /\ Owned /\ Restored
  <2>1. Init => Logged
    BY LoggedInit DEF Init
  <2> QED
    BY <2>1, InitHolds, InitPlaced, InitOwned, InitReproduces, InitInventoried DEF Restored
<1>2. IInv /\ Placed /\ Alike /\ Owned /\ Restored /\ [Next]_vars
        => IInv' /\ Placed' /\ Alike' /\ Owned' /\ Restored'
  BY NextKeeps, NextPlaces, NextAlike, NextOwned, NextRestores
<1>3. Restored => ReplayReproduces
  BY RestoredIsReplayed
<1> QED
  BY <1>1, <1>2, <1>3, PTL DEF Spec
=============================================================================
