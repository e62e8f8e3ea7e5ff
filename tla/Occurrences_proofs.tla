-------------------------- MODULE Occurrences_proofs --------------------------
(***************************************************************************)
(* What the proofs about memories and about names share: lists, what is    *)
(* left of them when they are cut or filtered, and the records of a kind   *)
(* in the trace.                                                           *)
(*                                                                         *)
(* A recursive function is followed entry by entry: where it first went    *)
(* wrong, at the least number of entries, it would have gone right one     *)
(* entry before.                                                           *)
(***************************************************************************)
EXTENDS Occurrences, SequenceTheorems, FiniteSetTheorems, WellFoundedInduction, TLAPS

-----------------------------------------------------------------------------
(* Sequences.                                                              *)

\* A set of natural numbers has a least element.
LEMMA HasLeast ==
  ASSUME NEW T, T \subseteq Nat, T # {}
  PROVE  \E m \in T : \A k \in T : m <= k
<1> DEFINE R == {ss \in Nat \X Nat : ss[1] < ss[2]}
<1>1. IsWellFoundedOn(R, Nat)
  BY NatLessThanWellFounded DEF OpToRel
<1>2. \A x \in Nat, y \in Nat : <<x, y>> \in R <=> x < y
  OBVIOUS
<1> HIDE DEF R
<1>3. PICK m \in T : \A k \in T : ~(<<k, m>> \in R)
  BY <1>1, WFMin
<1>4. ASSUME NEW k \in T
      PROVE  m <= k
  <2>1. ~(k < m) /\ k \in Nat /\ m \in Nat
    BY <1>2, <1>3
  <2> QED
    BY <2>1
<1> QED
  BY <1>4

IsList(s) == s \in Seq(Elements(s))

\* A sequence of anything is one of its elements.
LEMMA ListFacts ==
  ASSUME NEW S, NEW s \in Seq(S)
  PROVE  /\ IsList(s) /\ Len(s) \in Nat /\ DOMAIN s = 1..Len(s)
         /\ Elements(s) \subseteq S
         /\ \A x \in Elements(s) : \E i \in 1..Len(s) : x = s[i]
         /\ \A i \in 1..Len(s) : s[i] \in Elements(s)
<1>1. Len(s) \in Nat /\ DOMAIN s = 1..Len(s) /\ s = [i \in 1..Len(s) |-> s[i]]
  BY LenProperties
<1>2. \A i \in 1..Len(s) : s[i] \in Elements(s) /\ s[i] \in S
  BY <1>1, ElementOfSeq DEF Elements
<1>3. s \in [1..Len(s) -> Elements(s)]
  BY <1>1, <1>2
<1>4. s \in Seq(Elements(s))
  BY <1>1, <1>3, SeqDef
<1> QED
  BY <1>1, <1>2, <1>4 DEF IsList, Elements

\* A function on an interval is a sequence.
LEMMA FunctionIsList ==
  ASSUME NEW n \in Nat, NEW s, s = [i \in 1..n |-> s[i]]
  PROVE  /\ IsList(s) /\ Len(s) = n
         /\ Elements(s) = {s[i] : i \in 1..n}
<1>1. DOMAIN s = 1..n
  OBVIOUS
<1>2. s \in [1..n -> Elements(s)]
  BY <1>1 DEF Elements
<1>3. s \in Seq(Elements(s)) /\ Len(s) = n
  BY <1>2, SeqDef, LenProperties
<1> QED
  BY <1>1, <1>3 DEF IsList, Elements

\* The empty sequence has no elements.
LEMMA EmptyList == IsList(<<>>) /\ Elements(<<>>) = {}
<1> DEFINE e == <<>>
<1>1. e \in Seq({})
  BY EmptySeq
<1> HIDE DEF e
<1>2. IsList(e) /\ Elements(e) \subseteq {}
  BY <1>1, ListFacts
<1> QED
  BY <1>2 DEF e

\* Two sequences, one after the other, have the elements of both.
LEMMA Concatenated ==
  ASSUME NEW s, IsList(s), NEW u, IsList(u)
  PROVE  IsList(s \o u) /\ Elements(s \o u) = Elements(s) \cup Elements(u)
<1> DEFINE E == Elements(s) \cup Elements(u)
           su == s \o u
<1>1. s \in Seq(E) /\ u \in Seq(E)
  BY SeqMonotonic DEF IsList
<1>2. Len(s) \in Nat /\ Len(u) \in Nat
  BY <1>1, LenProperties
<1>3. /\ su \in Seq(E)
      /\ Len(su) = Len(s) + Len(u)
      /\ \A i \in 1..Len(s) + Len(u) : su[i] = IF i <= Len(s) THEN s[i] ELSE u[i - Len(s)]
  BY <1>1, ConcatProperties
<1>4. /\ IsList(su) /\ Elements(su) \subseteq E
      /\ \A i \in 1..Len(su) : su[i] \in Elements(su)
  BY <1>3, ListFacts
<1> HIDE DEF su
<1>5. ASSUME NEW x \in Elements(s)
      PROVE  x \in Elements(su)
  <2>1. PICK i \in 1..Len(s) : x = s[i]
    BY <1>1, <1>5, ListFacts
  <2>2. i \in 1..Len(s) + Len(u) /\ i <= Len(s)
    BY <1>2
  <2> QED
    BY <1>3, <1>4, <2>1, <2>2
<1>6. ASSUME NEW x \in Elements(u)
      PROVE  x \in Elements(su)
  <2>1. PICK i \in 1..Len(u) : x = u[i]
    BY <1>1, <1>6, ListFacts
  <2>2. /\ Len(s) + i \in 1..Len(s) + Len(u) /\ ~ (Len(s) + i <= Len(s))
        /\ (Len(s) + i) - Len(s) = i
    BY <1>2
  <2>3. su[Len(s) + i] = u[i]
    BY <1>3, <2>2
  <2> QED
    BY <1>3, <1>4, <2>1, <2>2, <2>3
<1>7. IsList(s \o u) /\ Elements(s \o u) = Elements(su)
  BY <1>4 DEF su
<1> QED
  BY <1>4, <1>5, <1>6, <1>7

\* One element more.
LEMMA Appended ==
  ASSUME NEW s, IsList(s), NEW x
  PROVE  IsList(Append(s, x)) /\ Elements(Append(s, x)) = Elements(s) \cup {x}
<1>1. s \in Seq(Elements(s) \cup {x})
  BY SeqMonotonic DEF IsList
<1>2. Append(s, x) = s \o <<x>>
  BY <1>1, AppendIsConcat
<1> DEFINE e == <<x>>
<1>3. e \in Seq({x}) /\ Len(e) = 1 /\ e[1] = x
  OBVIOUS
<1> HIDE DEF e
<1>4. IsList(e) /\ Elements(e) = {x}
  <2>1. 1 \in 1..Len(e)
    BY <1>3
  <2> QED
    BY <1>3, <2>1, ListFacts
<1>5. Append(s, x) = s \o e
  BY <1>2 DEF e
<1> QED
  BY <1>4, <1>5, Concatenated

\* A list cut in two: what is oldest and what is newest.
Halved(s, limit, old, new) ==
  /\ IsList(old) /\ IsList(new)
  /\ Len(old) \in Nat /\ Len(new) \in Nat /\ Len(s) \in Nat
  /\ Len(s) = Len(old) + Len(new)
  /\ Len(new) = IF Len(s) < limit THEN Len(s) ELSE limit
  /\ \A i \in 1..Len(old) : i \in 1..Len(s) /\ old[i] = s[i]
  /\ \A i \in 1..Len(new) : i + Len(old) \in 1..Len(s) /\ new[i] = s[i + Len(old)]

\* Where the entries are when there is one more.
LEMMA AppendedEntries ==
  ASSUME NEW s, IsList(s), NEW x
  PROVE  /\ Len(s) \in Nat /\ Len(Append(s, x)) = Len(s) + 1
         /\ \A i \in 1..Len(s) : Append(s, x)[i] = s[i]
         /\ Append(s, x)[Len(s) + 1] = x
<1>1. s \in Seq(Elements(s) \cup {x}) /\ Len(s) \in Nat
  BY SeqMonotonic, LenProperties DEF IsList
<1> QED
  BY <1>1, AppendProperties

\* A bound cuts a list in two.
LEMMA Halves ==
  ASSUME NEW s, IsList(s), NEW limit \in Nat
  PROVE  Halved(s, limit, Oldest(s, limit), Newest(s, limit))
<1>1. s \in Seq(Elements(s)) /\ Len(s) \in Nat /\ \A i \in 1..Len(s) : s[i] \in Elements(s)
  BY LenProperties, ElementOfSeq DEF IsList
<1> DEFINE k == IF Len(s) < limit THEN Len(s) ELSE limit
           d == Len(s) - k
           e == Len(s) - limit
<1>2. /\ k \in Nat /\ k <= Len(s) /\ d \in 0..Len(s) /\ e \in Int
      /\ (1 <= e => d = e) /\ (e < 1 => d = 0) /\ k + d = Len(s) /\ e <= Len(s)
  <2>1. CASE Len(s) < limit
    BY <1>1, <2>1
  <2>2. CASE ~ (Len(s) < limit)
    BY <1>1, <2>2
  <2> QED
    BY <2>1, <2>2
<1>3. /\ Oldest(s, limit) = SubSeq(s, 1, e)
      /\ Newest(s, limit) = SubSeq(s, d + 1, Len(s))
  BY <1>1 DEF Oldest, Newest
<1>0. k = IF Len(s) < limit THEN Len(s) ELSE limit
  OBVIOUS
<1> HIDE DEF k, d, e
<1>4. /\ SubSeq(s, 1, e) \in Seq(Elements(s))
      /\ Len(SubSeq(s, 1, e)) = IF 1 <= e THEN e - 1 + 1 ELSE 0
      /\ \A i \in 1..(e - 1 + 1) : SubSeq(s, 1, e)[i] = s[1 + i - 1]
  <2>1. \A i \in 1..e : s[i] \in Elements(s)
    BY <1>1, <1>2
  <2> QED
    BY <1>2, <2>1, SubSeqProperties
<1>5. /\ SubSeq(s, d + 1, Len(s)) \in Seq(Elements(s))
      /\ Len(SubSeq(s, d + 1, Len(s))) = IF d + 1 <= Len(s) THEN Len(s) - (d + 1) + 1 ELSE 0
      /\ \A i \in 1..(Len(s) - (d + 1) + 1) : SubSeq(s, d + 1, Len(s))[i] = s[(d + 1) + i - 1]
  <2>1. \A i \in (d + 1)..Len(s) : s[i] \in Elements(s)
    BY <1>1, <1>2
  <2>2. d + 1 \in Int /\ Len(s) \in Int
    BY <1>1, <1>2
  <2> QED
    BY <2>1, <2>2, SubSeqProperties
<1> DEFINE old == Oldest(s, limit)
           new == Newest(s, limit)
<1>6. old \in Seq(Elements(s)) /\ Len(old) = d /\ \A i \in 1..d : i \in 1..Len(s) /\ old[i] = s[i]
  BY <1>1, <1>2, <1>3, <1>4
<1>7. /\ new \in Seq(Elements(s)) /\ Len(new) = k
      /\ \A i \in 1..k : i + d \in 1..Len(s) /\ new[i] = s[i + d]
  <2>1. /\ Len(s) - (d + 1) + 1 = k /\ (d + 1 <= Len(s) <=> k # 0)
        /\ \A i \in 1..k : i + d \in 1..Len(s) /\ (d + 1) + i - 1 = i + d
    BY <1>1, <1>2
  <2>2. new = SubSeq(s, d + 1, Len(s))
    BY <1>3
  <2> HIDE DEF new
  <2>3. new \in Seq(Elements(s)) /\ Len(new) = k
    BY <1>5, <2>1, <2>2
  <2>4. \A i \in 1..k : new[i] = s[(d + 1) + i - 1]
    BY <1>5, <2>1, <2>2
  <2> QED
    BY <2>1, <2>3, <2>4
<1> HIDE DEF old, new
<1>8. IsList(old) /\ IsList(new)
  BY <1>6, <1>7, ListFacts
<1>9. /\ Len(old) \in Nat /\ Len(new) \in Nat /\ Len(s) = Len(old) + Len(new)
      /\ Len(new) = IF Len(s) < limit THEN Len(s) ELSE limit
  BY <1>0, <1>1, <1>2, <1>6, <1>7
<1>10. /\ \A i \in 1..Len(old) : i \in 1..Len(s) /\ old[i] = s[i]
       /\ \A i \in 1..Len(new) : i + Len(old) \in 1..Len(s) /\ new[i] = s[i + Len(old)]
  BY <1>6, <1>7
<1> QED
  BY <1>1, <1>8, <1>9, <1>10 DEF Halved, old, new

\* The oldest and the newest entries are entries.
LEMMA Cut ==
  ASSUME NEW s, IsList(s), NEW limit \in Nat
  PROVE  /\ IsList(Newest(s, limit)) /\ Elements(Newest(s, limit)) \subseteq Elements(s)
         /\ IsList(Oldest(s, limit)) /\ Elements(Oldest(s, limit)) \subseteq Elements(s)
<1>1. s \in Seq(Elements(s)) /\ Len(s) \in Nat
  BY LenProperties DEF IsList
<1> DEFINE n == IF Len(s) < limit THEN Len(s) ELSE limit
<1>2. ASSUME NEW m \in Int, NEW k \in Int, 1 <= m, k <= Len(s)
      PROVE  SubSeq(s, m, k) \in Seq(Elements(s))
  <2>1. \A i \in m..k : i \in 1..Len(s)
    BY <1>1, <1>2
  <2>2. \A i \in m..k : s[i] \in Elements(s)
    BY <1>1, <2>1, ElementOfSeq
  <2> QED
    BY <2>2, SubSeqProperties
<1>3. Len(s) - n + 1 \in Int /\ 1 <= Len(s) - n + 1 /\ Len(s) - limit \in Int /\ Len(s) - limit <= Len(s)
  BY <1>1
<1>4. Newest(s, limit) \in Seq(Elements(s)) /\ Oldest(s, limit) \in Seq(Elements(s))
  BY <1>1, <1>2, <1>3 DEF Newest, Oldest
<1> QED
  BY <1>4, ListFacts

\* The newest entries are no more than the limit.
LEMMA NewestFew ==
  ASSUME NEW s, IsList(s), NEW limit \in Nat
  PROVE  IsList(Newest(s, limit)) /\ Len(Newest(s, limit)) \in Nat /\ Len(Newest(s, limit)) <= limit
<1> DEFINE old == Oldest(s, limit)
           new == Newest(s, limit)
<1>1. Halved(s, limit, old, new)
  BY Halves
<1> HIDE DEF old, new
<1>2. /\ IsList(new) /\ Len(new) \in Nat /\ Len(s) \in Nat
      /\ Len(new) = IF Len(s) < limit THEN Len(s) ELSE limit
  BY <1>1 DEF Halved
<1>3. PICK m, n : m = Len(new) /\ n = Len(s)
  OBVIOUS
<1>4. m <= limit
  BY <1>2, <1>3
<1> QED
  BY <1>2, <1>3, <1>4 DEF new

\* A list without repetitions, and one that goes upwards.
Distinct(s) == \A i, j \in 1..Len(s) : s[i] = s[j] => i = j
Increasing(s) == \A i, j \in 1..Len(s) : i < j => s[i] < s[j]

\* What is cut off and what is left make up a list.
LEMMA Parted ==
  ASSUME NEW s, IsList(s), NEW limit, NEW old, NEW new, Halved(s, limit, old, new)
  PROVE  /\ Elements(s) = Elements(old) \cup Elements(new)
         /\ Distinct(s) => Distinct(new) /\ Elements(old) \cap Elements(new) = {}
         /\ Increasing(s) => /\ Increasing(new)
                             /\ \A x \in Elements(old), y \in Elements(new) : x < y
<1>1. /\ Len(old) \in Nat /\ Len(new) \in Nat /\ Len(s) = Len(old) + Len(new)
      /\ \A i \in 1..Len(old) : i \in 1..Len(s) /\ old[i] = s[i]
      /\ \A i \in 1..Len(new) : i + Len(old) \in 1..Len(s) /\ new[i] = s[i + Len(old)]
  BY DEF Halved
<1>2. /\ \A x \in Elements(s) : \E i \in 1..Len(s) : x = s[i]
      /\ \A i \in 1..Len(s) : s[i] \in Elements(s)
  BY ListFacts DEF IsList
<1>3. /\ \A x \in Elements(old) : \E i \in 1..Len(old) : x = old[i]
      /\ \A i \in 1..Len(old) : old[i] \in Elements(old)
      /\ \A x \in Elements(new) : \E i \in 1..Len(new) : x = new[i]
      /\ \A i \in 1..Len(new) : new[i] \in Elements(new)
  BY ListFacts DEF IsList, Halved
<1>4. Elements(s) = Elements(old) \cup Elements(new)
  <2>0. \A x \in Elements(old) : x \in Elements(s)
    BY <1>1, <1>2, <1>3
  <2>1. \A x \in Elements(new) : x \in Elements(s)
    <3> TAKE x \in Elements(new)
    <3>1. PICK i \in 1..Len(new) : x = new[i]
      BY <1>3
    <3>2. i + Len(old) \in 1..Len(s) /\ x = s[i + Len(old)]
      BY <1>1, <3>1
    <3> QED
      BY <1>2, <3>2
  <2>2. ASSUME NEW x \in Elements(s)
        PROVE  x \in Elements(old) \cup Elements(new)
    <3>1. PICK i \in 1..Len(s) : x = s[i]
      BY <1>2
    <3>2. CASE i <= Len(old)
      <4>1. i \in 1..Len(old)
        BY <1>1, <3>2
      <4> QED
        BY <1>1, <1>3, <3>1, <4>1
    <3>3. CASE i > Len(old)
      <4>1. i - Len(old) \in 1..Len(new) /\ (i - Len(old)) + Len(old) = i
        BY <1>1, <3>3
      <4> QED
        BY <1>1, <1>3, <3>1, <4>1
    <3> QED
      BY <1>1, <3>2, <3>3
  <2> QED
    BY <2>0, <2>1, <2>2
<1>5. ASSUME Distinct(s)
      PROVE  Distinct(new) /\ Elements(old) \cap Elements(new) = {}
  <2>1. \A i, j \in 1..Len(new) : new[i] = new[j] => i = j
    <3> SUFFICES ASSUME NEW i \in 1..Len(new), NEW j \in 1..Len(new), new[i] = new[j]
                 PROVE  i = j
      OBVIOUS
    <3>1. i + Len(old) = j + Len(old)
      BY <1>1, <1>5 DEF Distinct
    <3> QED
      BY <1>1, <3>1
  <2>2. \A i \in 1..Len(old), j \in 1..Len(new) : old[i] # new[j]
    <3> TAKE i \in 1..Len(old), j \in 1..Len(new)
    <3>1. i # j + Len(old)
      BY <1>1
    <3> QED
      BY <1>1, <1>5, <3>1 DEF Distinct
  <2> QED
    BY <1>3, <2>1, <2>2 DEF Distinct
<1>6. ASSUME Increasing(s)
      PROVE  Increasing(new) /\ \A x \in Elements(old), y \in Elements(new) : x < y
  <2>1. \A i, j \in 1..Len(new) : i < j => new[i] < new[j]
    <3> SUFFICES ASSUME NEW i \in 1..Len(new), NEW j \in 1..Len(new), i < j
                 PROVE  new[i] < new[j]
      OBVIOUS
    <3>1. i + Len(old) < j + Len(old)
      BY <1>1
    <3> QED
      BY <1>1, <1>6, <3>1 DEF Increasing
  <2>2. \A i \in 1..Len(old), j \in 1..Len(new) : old[i] < new[j]
    <3> TAKE i \in 1..Len(old), j \in 1..Len(new)
    <3>1. i < j + Len(old)
      BY <1>1
    <3> QED
      BY <1>1, <1>6, <3>1 DEF Increasing
  <2> QED
    BY <1>3, <2>1, <2>2 DEF Increasing
<1> QED
  BY <1>4, <1>5, <1>6

\* A list has no more elements than places.
LEMMA ListSize ==
  ASSUME NEW s, IsList(s)
  PROVE  IsFiniteSet(Elements(s)) /\ Cardinality(Elements(s)) <= Len(s)
<1>1. Len(s) \in Nat /\ DOMAIN s = 1..Len(s)
  BY ListFacts DEF IsList
<1>2. s = [i \in 1..Len(s) |-> s[i]]
  BY LenProperties DEF IsList
<1> DEFINE P == 1..Len(s)
<1>3. s \in Surjection(P, Elements(s))
  <2>1. s \in [P -> Elements(s)]
    BY <1>1, <1>2 DEF Elements
  <2>2. \A x \in Elements(s) : \E i \in P : s[i] = x
    BY <1>1 DEF Elements
  <2> HIDE DEF P
  <2> QED
    BY <2>1, <2>2 DEF Surjection
<1>4. IsFiniteSet(P) /\ Cardinality(P) = Len(s)
  <2>1. \A n \in Nat : IsFiniteSet(1..n) /\ Cardinality(1..n) = n
    BY FS_Interval
  <2> QED
    BY <1>1, <2>1
<1> HIDE DEF P
<1> QED
  BY <1>3, <1>4, FS_Surjection

\* The entries of two sequences, one after the other.
LEMMA ConcatenatedEntries ==
  ASSUME NEW s, IsList(s), NEW u, IsList(u)
  PROVE  /\ Len(s) \in Nat /\ Len(u) \in Nat /\ Len(s \o u) = Len(s) + Len(u)
         /\ \A i \in 1..Len(s) : (s \o u)[i] = s[i]
         /\ \A i \in 1..Len(u) : (s \o u)[Len(s) + i] = u[i]
<1> DEFINE S == Elements(s) \cup Elements(u)
<1>1. s \in Seq(S) /\ u \in Seq(S)
  <2>1. /\ \A i \in 1..Len(s) : s[i] \in S
        /\ \A i \in 1..Len(u) : u[i] \in S
    BY ListFacts DEF IsList
  <2>2. /\ Len(s) \in Nat /\ s = [i \in 1..Len(s) |-> s[i]]
        /\ Len(u) \in Nat /\ u = [i \in 1..Len(u) |-> u[i]]
    BY LenProperties DEF IsList
  <2> HIDE DEF S
  <2>3. s \in [1..Len(s) -> S] /\ u \in [1..Len(u) -> S]
    BY <2>1, <2>2
  <2> QED
    BY <2>2, <2>3, SeqDef
<1> HIDE DEF S
<1>2. Len(s) \in Nat /\ Len(u) \in Nat
  BY <1>1, LenProperties
<1>3. /\ Len(s \o u) = Len(s) + Len(u)
      /\ \A i \in 1..Len(s) + Len(u) : (s \o u)[i] = IF i <= Len(s) THEN s[i] ELSE u[i - Len(s)]
  BY <1>1, ConcatProperties
<1>4. \A i \in 1..Len(s) : (s \o u)[i] = s[i]
  BY <1>2, <1>3
<1>5. \A i \in 1..Len(u) : (s \o u)[Len(s) + i] = u[i]
  <2> TAKE i \in 1..Len(u)
  <2>1. Len(s) + i \in 1..Len(s) + Len(u) /\ ~(Len(s) + i <= Len(s)) /\ Len(s) + i - Len(s) = i
    BY <1>2
  <2> QED
    BY <1>3, <2>1
<1> QED
  BY <1>2, <1>3, <1>4, <1>5

\* Two lists of numbers that go upwards and have the same elements are one.
LEMMA SameIncreasing ==
  ASSUME NEW s, IsList(s), Elements(s) \subseteq Int, Increasing(s),
         NEW u, IsList(u), Increasing(u), Elements(u) = Elements(s)
  PROVE  s = u
<1>1. /\ Len(s) \in Nat /\ Len(u) \in Nat
      /\ s = [i \in 1..Len(s) |-> s[i]] /\ u = [i \in 1..Len(u) |-> u[i]]
  BY LenProperties DEF IsList
<1>2. /\ \A x \in Elements(s) : (\E i \in 1..Len(s) : x = s[i]) /\ \E i \in 1..Len(u) : x = u[i]
      /\ \A i \in 1..Len(s) : s[i] \in Elements(s)
      /\ \A i \in 1..Len(u) : u[i] \in Elements(s)
  BY ListFacts DEF IsList
<1> DEFINE Wrong(i) == i \in 1..Len(s) /\ i \in 1..Len(u) /\ s[i] # u[i]
           T == {i \in Nat : Wrong(i)}
<1>3. ASSUME T # {}
      PROVE  FALSE
  <2>0. T \subseteq Nat
    OBVIOUS
  <2>1. PICK m \in T : \A k \in T : m <= k
    BY <1>3, <2>0, HasLeast
  <2>2. m \in Nat /\ Wrong(m) /\ \A k \in 1..(m - 1) : s[k] = u[k]
    <3>1. m \in Nat /\ Wrong(m)
      BY <2>1
    <3>2. ASSUME NEW k \in 1..(m - 1)
          PROVE  s[k] = u[k]
      <4>1. k \in Nat /\ ~(m <= k) /\ k \in 1..Len(s) /\ k \in 1..Len(u)
        BY <1>1, <3>1
      <4>2. ~ Wrong(k)
        BY <2>1, <4>1
      <4> QED
        BY <4>1, <4>2
    <3> QED
      BY <3>1, <3>2
  <2>3. PICK i \in 1..Len(u) : s[m] = u[i]
    BY <1>2, <2>2
  <2>4. PICK j \in 1..Len(s) : u[m] = s[j]
    BY <1>2, <2>2
  <2>5. s[m] \in Int /\ u[m] \in Int /\ s[m] # u[m] /\ m \in 1..Len(s) /\ m \in 1..Len(u)
    BY <1>2, <2>2
  <2> HIDE DEF T, Wrong
  <2>6. i > m
    <3>1. i # m
      BY <2>3, <2>5
    <3>2. CASE i < m
      <4>1. i \in 1..(m - 1) /\ i \in 1..Len(s)
        BY <1>1, <2>5, <3>2
      <4>2. s[i] = s[m] /\ s[i] < s[m]
        BY <2>2, <2>3, <2>5, <3>2, <4>1 DEF Increasing
      <4> QED
        BY <2>5, <4>2
    <3> QED
      BY <1>1, <2>5, <3>1, <3>2
  <2>7. j > m
    <3>1. j # m
      BY <2>4, <2>5
    <3>2. CASE j < m
      <4>1. j \in 1..(m - 1) /\ j \in 1..Len(u)
        BY <1>1, <2>5, <3>2
      <4>2. u[j] = u[m] /\ u[j] < u[m]
        BY <2>2, <2>4, <2>5, <3>2, <4>1 DEF Increasing
      <4> QED
        BY <2>5, <4>2
    <3> QED
      BY <1>1, <2>5, <3>1, <3>2
  <2>8. u[m] < s[m] /\ s[m] < u[m]
    <3>1. u[m] < u[i]
      BY <2>5, <2>6 DEF Increasing
    <3>2. s[m] < s[j]
      BY <2>5, <2>7 DEF Increasing
    <3> QED
      BY <2>3, <2>4, <3>1, <3>2
  <2> QED
    BY <2>5, <2>8
<1>4. \A i \in 1..Len(s) : i \in 1..Len(u) => s[i] = u[i]
  BY <1>1, <1>3
<1> HIDE DEF T, Wrong
<1>5. ASSUME Len(s) < Len(u)
      PROVE  FALSE
  <2> DEFINE n == Len(s) + 1
  <2>1. n \in 1..Len(u) /\ n \notin 1..Len(s) /\ \A k \in 1..Len(s) : k < n /\ k \in 1..Len(u)
    BY <1>1, <1>5
  <2> HIDE DEF n
  <2>2. PICK k \in 1..Len(s) : u[n] = s[k]
    BY <1>2, <2>1
  <2>3. u[k] < u[n] /\ u[k] = s[k]
    BY <1>4, <2>1 DEF Increasing
  <2>4. u[n] \in Int
    BY <1>2, <2>1
  <2> QED
    BY <2>2, <2>3, <2>4
<1>6. ASSUME Len(u) < Len(s)
      PROVE  FALSE
  <2> DEFINE n == Len(u) + 1
  <2>1. n \in 1..Len(s) /\ n \notin 1..Len(u) /\ \A k \in 1..Len(u) : k < n /\ k \in 1..Len(s)
    BY <1>1, <1>6
  <2> HIDE DEF n
  <2>2. PICK k \in 1..Len(u) : s[n] = u[k]
    BY <1>2, <2>1
  <2>3. s[k] < s[n] /\ u[k] = s[k]
    BY <1>4, <2>1 DEF Increasing
  <2>4. s[n] \in Int
    BY <1>2, <2>1
  <2> QED
    BY <2>2, <2>3, <2>4
<1>7. Len(s) = Len(u)
  <2>1. PICK m, n : m = Len(s) /\ n = Len(u)
    OBVIOUS
  <2>2. m \in Nat /\ n \in Nat /\ ~(m < n) /\ ~(n < m)
    BY <1>1, <1>5, <1>6, <2>1
  <2>3. m = n
    BY <2>2
  <2> QED
    BY <2>1, <2>3
<1> QED
  BY <1>1, <1>4, <1>7

\* A finite set of numbers has a greatest one.
LEMMA HasGreatest ==
  ASSUME NEW S, S \subseteq Int, IsFiniteSet(S), S # {}
  PROVE  \E m \in S : \A k \in S : k <= m
<1> DEFINE Topped(U) == \E m \in U : \A k \in U : k <= m
           Wrong(U) == U \subseteq Int /\ IsFiniteSet(U) /\ U # {} /\ ~ Topped(U)
           T == {n \in Nat : \E U : Wrong(U) /\ Cardinality(U) = n}
<1>1. ASSUME T # {}
      PROVE  FALSE
  <2>0. T \subseteq Nat
    OBVIOUS
  <2>1. PICK n \in T : \A k \in T : n <= k
    BY <1>1, <2>0, HasLeast
  <2>2. PICK U : Wrong(U) /\ Cardinality(U) = n
    BY <2>1
  <2>3. PICK x \in U : x \in Int
    BY <2>2
  <2> DEFINE V == U \ {x}
  <2>4. IsFiniteSet(V) /\ Cardinality(V) = n - 1 /\ n - 1 \in Nat
    <3>1. IsFiniteSet(V) /\ Cardinality(V) = n - 1
      BY <2>2, FS_RemoveElement
    <3>2. Cardinality(V) \in Nat
      BY <3>1, FS_CardinalityType
    <3> QED
      BY <3>1, <3>2
  <2>5. V # {}
    <3>1. CASE V = {}
      <4>1. \A k \in U : k = x
        BY <3>1
      <4>2. Topped(U)
        BY <2>3, <4>1
      <4> QED
        BY <2>2, <4>2
    <3> QED
      BY <3>1
  <2>6. Topped(V)
    <3>1. ~(n <= n - 1)
      BY <2>1, <2>0
    <3>2. ~ Wrong(V)
      BY <2>1, <2>4, <3>1
    <3> QED
      BY <2>2, <2>4, <2>5, <3>2
  <2>7. PICK y \in V : \A k \in V : k <= y
    BY <2>6
  <2>8. U \subseteq Int /\ y \in U
    BY <2>2, <2>7
  <2>9. \A k \in U : k = x \/ k <= y
    BY <2>7
  <2> HIDE DEF V, T
  <2>10. Topped(U)
    <3>1. CASE x <= y
      BY <2>3, <2>8, <2>9, <3>1
    <3>2. CASE y <= x
      BY <2>3, <2>8, <2>9, <3>2
    <3> QED
      BY <2>3, <2>8, <3>1, <3>2
  <2> QED
    BY <2>2, <2>10
<1>2. Cardinality(S) \in Nat
  BY FS_CardinalityType
<1> QED
  BY <1>1, <1>2

-----------------------------------------------------------------------------
(* Filtering.                                                              *)

\* f filters the first entries of a list.
Turn(g, x, in) == IF in THEN Append(g, x) ELSE g
Keeps(f, s, I, last) ==
  f = [n \in 0..last |-> IF n = 0 THEN <<>> ELSE Turn(f[n - 1], s[n], n \in I)]

\* There is such a function for every list.
LEMMA Keeping ==
  ASSUME NEW s, NEW I, NEW last \in Nat
  PROVE  \E f : Keeps(f, s, I, last)
<1> DEFINE T == {m \in Nat : ~ \E f : Keeps(f, s, I, m)}
<1>1. CASE T = {}
  BY <1>1
<1>2. CASE T # {}
  <2>0. T \subseteq Nat
    OBVIOUS
  <2>1. PICK m \in T : \A k \in T : m <= k
    BY <1>2, <2>0, HasLeast
  <2>2. CASE m = 0
    <3>1. Keeps([n \in 0..0 |-> <<>>], s, I, 0)
      BY DEF Keeps
    <3> QED
      BY <2>1, <2>2, <3>1
  <2>3. CASE m # 0
    <3>1. m - 1 \in Nat /\ m - 1 \notin T /\ m \in Nat
      BY <2>1, <2>3
    <3>2. PICK f : Keeps(f, s, I, m - 1)
      BY <3>1
    <3> DEFINE g == [n \in 0..m |-> IF n = m THEN Turn(f[m - 1], s[m], m \in I) ELSE f[n]]
    <3>3. \A n \in 0..(m - 1) :
            g[n] = f[n] /\ f[n] = IF n = 0 THEN <<>> ELSE Turn(f[n - 1], s[n], n \in I)
      BY <3>1, <3>2 DEF Keeps
    <3>4. \A n \in 0..m : g[n] = IF n = 0 THEN <<>> ELSE Turn(g[n - 1], s[n], n \in I)
      <4> TAKE n \in 0..m
      <4>1. CASE n = m
        BY <2>3, <3>1, <3>3, <4>1
      <4>2. CASE n # m /\ n # 0
        <5>1. n \in 0..(m - 1) /\ n - 1 \in 0..(m - 1)
          BY <3>1, <4>2
        <5> QED
          BY <3>3, <4>2, <5>1
      <4>3. CASE n = 0
        <5>1. n \in 0..(m - 1)
          BY <3>1, <4>3
        <5> QED
          BY <3>3, <4>3, <5>1
      <4> QED
        BY <4>1, <4>2, <4>3
    <3>5. g = [n \in 0..m |-> g[n]]
      OBVIOUS
    <3> HIDE DEF g
    <3>6. Keeps(g, s, I, m)
      BY <3>4, <3>5 DEF Keeps
    <3> QED
      BY <2>1, <3>6
  <2> QED
    BY <2>2, <2>3
<1> QED
  BY <1>1, <1>2

Sifts(f, s, I) ==
  /\ f[Len(s)] = Keep(s, I) /\ f[0] = <<>>
  /\ \A n \in 1..Len(s) : f[n] = IF n \in I THEN Append(f[n - 1], s[n]) ELSE f[n - 1]

\* What is kept follows the list entry by entry.
LEMMA KeepFollows ==
  ASSUME NEW s, Len(s) \in Nat, NEW I
  PROVE  \E f : Sifts(f, s, I)
<1> DEFINE f == CHOOSE f : Keeps(f, s, I, Len(s))
<1>1. Keeps(f, s, I, Len(s))
  BY Keeping
<1>2. Keep(s, I) = f[Len(s)]
  BY DEF Keep, Keeps, Turn
<1> HIDE DEF f
<1>3. \A n \in 0..Len(s) : f[n] = IF n = 0 THEN <<>> ELSE Turn(f[n - 1], s[n], n \in I)
  BY <1>1 DEF Keeps
<1>4. 0 \in 0..Len(s) /\ \A n \in 1..Len(s) : n \in 0..Len(s) /\ n # 0
  OBVIOUS
<1>5. f[0] = <<>>
  BY <1>3, <1>4
<1>6. \A n \in 1..Len(s) : f[n] = IF n \in I THEN Append(f[n - 1], s[n]) ELSE f[n - 1]
  BY <1>3, <1>4 DEF Turn
<1>7. Sifts(f, s, I)
  BY <1>2, <1>5, <1>6 DEF Sifts
<1> QED
  BY <1>7

\* e gives the indexes, upwards, at which k has its entries from s.
Selects(e, k, s, I, n) ==
  /\ \A j \in 1..Len(k) : e[j] \in 1..n /\ e[j] \in I /\ k[j] = s[e[j]]
  /\ \A j, m \in 1..Len(k) : j < m => e[j] < e[m]
  /\ \A i \in 1..n : i \in I => \E j \in 1..Len(k) : e[j] = i

\* One entry more.
LEMMA SelectsOne ==
  ASSUME NEW k, IsList(k), NEW s, NEW I, NEW n \in Nat \ {0}, NEW e, Selects(e, k, s, I, n - 1)
  PROVE  LET u == IF n \in I THEN Append(k, s[n]) ELSE k
         IN  IsList(u) /\ \E d : Selects(d, u, s, I, n)
<1>1. k \in Seq(Elements(k)) /\ Len(k) \in Nat
  BY LenProperties DEF IsList
<1>2. CASE n \notin I
  <2>1. Selects(e, k, s, I, n)
    BY <1>1, <1>2 DEF Selects
  <2> QED
    BY <1>2, <2>1
<1>3. CASE n \in I
  <2> DEFINE u == Append(k, s[n])
             d == [j \in 1..Len(k) + 1 |-> IF j = Len(k) + 1 THEN n ELSE e[j]]
  <2>1. IsList(u)
    BY Appended
  <2>2. /\ Len(u) = Len(k) + 1 /\ u[Len(k) + 1] = s[n]
        /\ \A j \in 1..Len(k) : u[j] = k[j]
    <3>1. k \in Seq(Elements(k) \cup {s[n]})
      BY <1>1, SeqMonotonic
    <3> QED
      BY <3>1, AppendProperties
  <2>3. /\ d[Len(k) + 1] = n
        /\ \A j \in 1..Len(k) : d[j] = e[j] /\ e[j] \in 1..(n - 1) /\ e[j] \in I /\ k[j] = s[e[j]]
        /\ \A j \in 1..Len(u) : j \in 1..Len(k) \/ j = Len(k) + 1
    BY <1>1, <2>2 DEF Selects
  <2> HIDE DEF d, u
  <2>4. \A j \in 1..Len(u) : d[j] \in 1..n /\ d[j] \in I /\ u[j] = s[d[j]]
    <3> TAKE j \in 1..Len(u)
    <3>1. CASE j \in 1..Len(k)
      <4>1. e[j] \in 1..(n - 1) => e[j] \in 1..n
        OBVIOUS
      <4> QED
        BY <2>2, <2>3, <3>1, <4>1
    <3>2. CASE j = Len(k) + 1
      BY <1>3, <2>2, <2>3, <3>2
    <3> QED
      BY <2>3, <3>1, <3>2
  <2>5. \A j, m \in 1..Len(u) : j < m => d[j] < d[m]
    <3> SUFFICES ASSUME NEW j \in 1..Len(u), NEW m \in 1..Len(u), j < m
                 PROVE  d[j] < d[m]
      OBVIOUS
    <3>1. j \in 1..Len(k) /\ d[j] = e[j] /\ e[j] < n
      BY <1>1, <2>2, <2>3
    <3>2. CASE m \in 1..Len(k)
      BY <2>3, <3>1, <3>2 DEF Selects
    <3>3. CASE m = Len(k) + 1
      BY <2>3, <3>1, <3>3
    <3> QED
      BY <2>3, <3>2, <3>3
  <2>6. \A i \in 1..n : i \in I => \E j \in 1..Len(u) : d[j] = i
    <3> SUFFICES ASSUME NEW i \in 1..n, i \in I
                 PROVE  \E j \in 1..Len(u) : d[j] = i
      OBVIOUS
    <3>1. CASE i = n
      <4>1. Len(k) + 1 \in 1..Len(u)
        BY <1>1, <2>2
      <4> QED
        BY <2>3, <3>1, <4>1
    <3>2. CASE i \in 1..(n - 1)
      <4>1. PICK j \in 1..Len(k) : e[j] = i
        BY <3>2 DEF Selects
      <4>2. j \in 1..Len(u)
        BY <1>1, <2>2
      <4> QED
        BY <2>3, <4>1, <4>2
    <3>3. i = n \/ i \in 1..(n - 1)
      OBVIOUS
    <3> QED
      BY <3>1, <3>2, <3>3
  <2>7. Selects(d, u, s, I, n)
    BY <2>4, <2>5, <2>6 DEF Selects
  <2> QED
    BY <1>3, <2>1, <2>7 DEF u
<1> QED
  BY <1>2, <1>3

\* What is kept are the entries at the indexes, in order.
LEMMA Kept ==
  ASSUME NEW s, IsList(s), NEW I
  PROVE  IsList(Keep(s, I)) /\ \E e : Selects(e, Keep(s, I), s, I, Len(s))
<1>1. Len(s) \in Nat
  BY ListFacts DEF IsList
<1>0. PICK f : Sifts(f, s, I)
  BY <1>1, KeepFollows
<1>2. /\ f[Len(s)] = Keep(s, I) /\ f[0] = <<>>
      /\ \A n \in 1..Len(s) : f[n] = IF n \in I THEN Append(f[n - 1], s[n]) ELSE f[n - 1]
  BY <1>0 DEF Sifts
<1> DEFINE Right(n) == IsList(f[n]) /\ \E e : Selects(e, f[n], s, I, n)
           T == {n \in 0..Len(s) : ~ Right(n)}
<1>3. CASE T # {}
  <2>0. T \subseteq Nat
    BY <1>1
  <2>1. PICK m \in T : \A k \in T : m <= k
    BY <1>3, <2>0, HasLeast
  <2>2. m # 0
    <3>1. Len(<<>>) = 0 /\ IsList(<<>>)
      BY EmptyList
    <3> DEFINE e == <<>>
    <3>2. Len(e) = 0 /\ IsList(e) /\ f[0] = e
      BY <1>2, <3>1
    <3> HIDE DEF e
    <3>3. Selects(e, f[0], s, I, 0)
      BY <3>2 DEF Selects
    <3>4. Right(0)
      BY <3>2, <3>3
    <3> QED
      BY <2>1, <3>4
  <2>3. m \in 1..Len(s) /\ m - 1 \in 0..Len(s) /\ ~ (m <= m - 1) /\ m \in Nat \ {0}
    BY <1>1, <2>1, <2>2
  <2>4. Right(m - 1)
    BY <2>1, <2>3
  <2>5. PICK e : Selects(e, f[m - 1], s, I, m - 1)
    BY <2>4
  <2>6. IsList(f[m]) /\ \E d : Selects(d, f[m], s, I, m)
    BY <1>2, <2>3, <2>4, <2>5, SelectsOne
  <2> QED
    BY <2>1, <2>6
<1>4. CASE T = {}
  <2>1. Right(Len(s))
    BY <1>1, <1>4
  <2> QED
    BY <1>2, <2>1
<1> QED
  BY <1>3, <1>4

\* Kept entries are entries at the indexes.
LEMMA KeptElements ==
  ASSUME NEW s, IsList(s), NEW I
  PROVE  /\ IsList(Keep(s, I))
         /\ Elements(Keep(s, I)) = {s[i] : i \in DOMAIN s \cap I}
<1> DEFINE k == Keep(s, I)
<1>1. PICK e : Selects(e, k, s, I, Len(s))
  BY Kept
<1>2. IsList(k)
  BY Kept
<1> HIDE DEF k
<1>3. /\ DOMAIN s = 1..Len(s) /\ Len(s) \in Nat /\ Elements(k) = {k[j] : j \in 1..Len(k)}
  <2>1. DOMAIN k = 1..Len(k)
    BY <1>2, ListFacts DEF IsList
  <2>2. DOMAIN s = 1..Len(s) /\ Len(s) \in Nat
    BY ListFacts DEF IsList
  <2> QED
    BY <2>1, <2>2 DEF Elements
<1>4. ASSUME NEW i \in DOMAIN s, i \in I
      PROVE  s[i] \in Elements(k)
  <2>1. PICK j \in 1..Len(k) : e[j] = i
    BY <1>1, <1>3, <1>4 DEF Selects
  <2>2. k[j] = s[i]
    BY <1>1, <2>1 DEF Selects
  <2> QED
    BY <1>3, <2>1, <2>2
<1>5. \A j \in 1..Len(k) : e[j] \in DOMAIN s /\ e[j] \in I /\ k[j] = s[e[j]]
  BY <1>1, <1>3 DEF Selects
<1>6. Elements(k) = {s[i] : i \in DOMAIN s \cap I}
  BY <1>3, <1>4, <1>5
<1> QED
  BY <1>2, <1>6 DEF k

\* What is kept and what is not make up the list.
LEMMA KeptCount ==
  ASSUME NEW s, IsList(s), NEW I, NEW J, \A i \in 1..Len(s) : i \in I <=> i \notin J
  PROVE  /\ Len(Keep(s, I)) \in Nat /\ Len(Keep(s, J)) \in Nat
         /\ Len(Keep(s, I)) + Len(Keep(s, J)) = Len(s)
<1>1. Len(s) \in Nat
  BY ListFacts DEF IsList
<1>2. PICK f : Sifts(f, s, I)
  BY <1>1, KeepFollows
<1>3. PICK g : Sifts(g, s, J)
  BY <1>1, KeepFollows
<1> DEFINE Right(n) == IsList(f[n]) /\ IsList(g[n]) /\ Len(f[n]) + Len(g[n]) = n
           T == {n \in 0..Len(s) : ~ Right(n)}
<1>4. ASSUME T # {}
      PROVE  FALSE
  <2>0. T \subseteq Nat
    <3> HIDE DEF Right
    <3> QED
      BY <1>1
  <2>1. PICK m \in T : \A k \in T : m <= k
    BY <1>4, <2>0, HasLeast
  <2>2. m # 0
    <3>1. Len(<<>>) = 0 /\ IsList(<<>>)
      BY EmptyList
    <3> DEFINE e == <<>>
    <3>2. Len(e) = 0 /\ IsList(e) /\ f[0] = e /\ g[0] = e
      BY <1>2, <1>3, <3>1 DEF Sifts
    <3> HIDE DEF e
    <3>3. Right(0)
      BY <3>2
    <3> QED
      BY <2>1, <3>3
  <2>3. m \in 1..Len(s) /\ m - 1 \in 0..Len(s) /\ ~ (m <= m - 1) /\ m \in Nat
    BY <1>1, <2>1, <2>2
  <2>4. Right(m - 1)
    BY <2>1, <2>3
  <2>5. /\ Len(f[m - 1]) \in Nat /\ IsList(Append(f[m - 1], s[m]))
        /\ Len(Append(f[m - 1], s[m])) = Len(f[m - 1]) + 1
        /\ Len(g[m - 1]) \in Nat /\ IsList(Append(g[m - 1], s[m]))
        /\ Len(Append(g[m - 1], s[m])) = Len(g[m - 1]) + 1
    BY <2>4, AppendedEntries, Appended
  <2>6. /\ f[m] = IF m \in I THEN Append(f[m - 1], s[m]) ELSE f[m - 1]
        /\ g[m] = IF m \in J THEN Append(g[m - 1], s[m]) ELSE g[m - 1]
        /\ m \in I <=> m \notin J
    BY <1>2, <1>3, <2>3 DEF Sifts
  <2>7. Right(m)
    <3>1. CASE m \in I
      <4>1. f[m] = Append(f[m - 1], s[m]) /\ g[m] = g[m - 1]
        BY <2>6, <3>1
      <4>2. IsList(f[m]) /\ Len(f[m]) = Len(f[m - 1]) + 1
        BY <2>5, <4>1
      <4>3. IsList(g[m]) /\ Len(g[m]) = Len(g[m - 1])
        BY <2>4, <4>1
      <4>4. Len(f[m]) + Len(g[m]) = m
        <5>1. Len(f[m - 1]) + Len(g[m - 1]) = m - 1
          BY <2>4
        <5>2. PICK a, b : a = Len(f[m - 1]) /\ b = Len(g[m - 1])
          OBVIOUS
        <5>3. a \in Nat /\ b \in Nat /\ a + b = m - 1 /\ m \in Nat
          BY <2>3, <2>5, <5>1, <5>2
        <5>4. Len(f[m]) = a + 1 /\ Len(g[m]) = b
          BY <4>2, <4>3, <5>2
        <5> HIDE DEF T, Right
        <5> QED
          BY <5>3, <5>4
      <4> QED
        BY <4>2, <4>3, <4>4
    <3>2. CASE m \in J
      <4>1. g[m] = Append(g[m - 1], s[m]) /\ f[m] = f[m - 1]
        BY <2>6, <3>2
      <4>2. IsList(g[m]) /\ Len(g[m]) = Len(g[m - 1]) + 1
        BY <2>5, <4>1
      <4>3. IsList(f[m]) /\ Len(f[m]) = Len(f[m - 1])
        BY <2>4, <4>1
      <4>4. Len(f[m]) + Len(g[m]) = m
        <5>1. Len(f[m - 1]) + Len(g[m - 1]) = m - 1
          BY <2>4
        <5>2. PICK a, b : a = Len(f[m - 1]) /\ b = Len(g[m - 1])
          OBVIOUS
        <5>3. a \in Nat /\ b \in Nat /\ a + b = m - 1 /\ m \in Nat
          BY <2>3, <2>5, <5>1, <5>2
        <5>4. Len(g[m]) = b + 1 /\ Len(f[m]) = a
          BY <4>2, <4>3, <5>2
        <5> HIDE DEF T, Right
        <5> QED
          BY <5>3, <5>4
      <4> QED
        BY <4>2, <4>3, <4>4
    <3> QED
      BY <2>6, <3>1, <3>2
  <2> QED
    BY <2>1, <2>7
<1>5. Right(Len(s))
  <2>1. Len(s) \in 0..Len(s)
    BY <1>1
  <2> HIDE DEF Right
  <2> QED
    BY <1>4, <2>1
<1>6. f[Len(s)] = Keep(s, I) /\ g[Len(s)] = Keep(s, J)
  BY <1>2, <1>3 DEF Sifts
<1>7. \A u : IsList(u) => Len(u) \in Nat
  BY ListFacts DEF IsList
<1> QED
  BY <1>5, <1>6, <1>7

\* What is kept of a list that goes upwards goes upwards.
LEMMA KeptIncreasing ==
  ASSUME NEW s, IsList(s), Increasing(s), NEW I
  PROVE  Increasing(Keep(s, I))
<1> DEFINE k == Keep(s, I)
<1>1. PICK e : Selects(e, k, s, I, Len(s))
  BY Kept
<1>2. \A j, m \in 1..Len(k) : j < m => s[e[j]] < s[e[m]]
  BY <1>1 DEF Selects, Increasing
<1>3. \A j \in 1..Len(k) : k[j] = s[e[j]]
  BY <1>1 DEF Selects
<1> HIDE DEF k
<1>4. Increasing(k)
  BY <1>2, <1>3 DEF Increasing
<1> QED
  BY <1>4 DEF k

-----------------------------------------------------------------------------
(* Leaving entries out.                                                    *)

\* Two lists are the same when their entries are.
LEMMA SameList ==
  ASSUME NEW s, IsList(s), NEW u, IsList(u), Len(s) = Len(u), \A i \in 1..Len(s) : s[i] = u[i]
  PROVE  s = u
<1>1. /\ Len(s) \in Nat /\ s = [i \in 1..Len(s) |-> s[i]]
      /\ u = [i \in 1..Len(u) |-> u[i]]
  BY LenProperties DEF IsList
<1>2. [i \in 1..Len(s) |-> s[i]] = [i \in 1..Len(s) |-> u[i]]
  OBVIOUS
<1> QED
  BY <1>1, <1>2

\* A list that is not empty is a shorter one with one entry more.
LEMMA LastOne ==
  ASSUME NEW s, IsList(s), Len(s) # 0
  PROVE  \E u, x : IsList(u) /\ s = Append(u, x) /\ Len(u) + 1 = Len(s) /\ Len(u) \in Nat
<1>1. Len(s) \in Nat /\ DOMAIN s = 1..Len(s) /\ s \in Seq(Elements(s))
  BY ListFacts DEF IsList
<1> DEFINE n == Len(s) - 1
           u == [i \in 1..n |-> s[i]]
<1>2. n \in Nat /\ n + 1 = Len(s)
  BY <1>1
<1> HIDE DEF n
<1>3. u = [i \in 1..n |-> u[i]]
  OBVIOUS
<1>4. \A i \in 1..n : u[i] = s[i]
  OBVIOUS
<1> HIDE DEF u
<1>5. IsList(u) /\ Len(u) = n
  BY <1>2, <1>3, FunctionIsList
<1> DEFINE v == Append(u, s[n + 1])
<1>6. IsList(v) /\ Len(v) = n + 1 /\ v[n + 1] = s[n + 1] /\ \A i \in 1..n : v[i] = s[i]
  BY <1>4, <1>5, Appended, AppendedEntries
<1> HIDE DEF v
<1>7. \A i \in 1..Len(v) : i \in 1..n \/ i = n + 1
  BY <1>2, <1>6
<1>8. v = s
  BY <1>2, <1>6, <1>7, SameList
<1> QED
  BY <1>2, <1>5, <1>8 DEF v

\* An entry more is kept or left out.
LEMMA KeepOne ==
  ASSUME NEW s, IsList(s), NEW x, NEW I, NEW J, \A i \in 1..Len(s) : i \in I <=> i \in J
  PROVE  Keep(Append(s, x), J) =
           IF Len(s) + 1 \in J THEN Append(Keep(s, I), x) ELSE Keep(s, I)
<1> DEFINE u == Append(s, x)
           n == Len(s)
<1>1. /\ n \in Nat /\ Len(u) = n + 1 /\ u[n + 1] = x
      /\ \A i \in 1..n : u[i] = s[i]
  BY AppendedEntries
<1>2. PICK f : Sifts(f, s, I)
  BY <1>1, KeepFollows
<1>3. PICK g : Sifts(g, u, J)
  <2>1. Len(u) \in Nat
    BY <1>1
  <2> HIDE DEF u
  <2> QED
    BY <2>1, KeepFollows
<1> HIDE DEF u
<1>4. /\ f[n] = Keep(s, I) /\ f[0] = <<>>
      /\ \A k \in 1..n : f[k] = IF k \in I THEN Append(f[k - 1], s[k]) ELSE f[k - 1]
  BY <1>2 DEF Sifts
<1>5. /\ g[n + 1] = Keep(u, J) /\ g[0] = <<>>
      /\ \A k \in 1..(n + 1) : g[k] = IF k \in J THEN Append(g[k - 1], u[k]) ELSE g[k - 1]
  BY <1>1, <1>3 DEF Sifts
<1> HIDE DEF n
<1> DEFINE T == {k \in 0..n : g[k] # f[k]}
<1>6. CASE T # {}
  <2>0. T \subseteq Nat
    BY <1>1
  <2>1. PICK m \in T : \A k \in T : m <= k
    BY <1>6, <2>0, HasLeast
  <2>2. m # 0 /\ m \in 1..n /\ m \in 1..(n + 1) /\ m - 1 \in 0..n /\ m - 1 \notin T
    BY <1>1, <1>4, <1>5, <2>1
  <2>3. g[m - 1] = f[m - 1] /\ u[m] = s[m] /\ (m \in I <=> m \in J)
    BY <1>1, <2>2 DEF n
  <2>4. g[m] = f[m]
    BY <1>4, <1>5, <2>2, <2>3
  <2> QED
    BY <2>1, <2>4
<1>7. CASE T = {}
  <2>1. n \in 0..n /\ n \notin T
    BY <1>1, <1>7
  <2>2. g[n] = f[n]
    BY <2>1
  <2>3. n + 1 \in 1..(n + 1) /\ (n + 1) - 1 = n
    BY <1>1
  <2>4. g[n + 1] = IF n + 1 \in J THEN Append(g[n], u[n + 1]) ELSE g[n]
    BY <1>5, <2>3
  <2> QED
    BY <1>1, <1>4, <1>5, <2>2, <2>4 DEF u, n
<1> QED
  BY <1>6, <1>7

\* Nothing is kept of nothing.
LEMMA KeepNothing == ASSUME NEW I PROVE Keep(<<>>, I) = <<>>
<1> DEFINE e == <<>>
<1>1. Len(e) = 0
  OBVIOUS
<1>2. PICK f : f[Len(e)] = Keep(e, I) /\ f[0] = <<>>
  <2> HIDE DEF e
  <2>1. Len(e) \in Nat
    BY <1>1
  <2> QED
    BY <2>1, KeepFollows DEF Sifts
<1> QED
  BY <1>1, <1>2

\* A list without the entries of a set.
Sans(s, X) == Keep(s, {i \in DOMAIN s : s[i] \notin X})

\* Only the indexes of the list count.
LEMMA KeepSame ==
  ASSUME NEW s, IsList(s), NEW I, NEW J, \A i \in 1..Len(s) : i \in I <=> i \in J
  PROVE  Keep(s, I) = Keep(s, J)
<1>1. CASE Len(s) = 0
  <2>1. s = <<>>
    BY <1>1 DEF IsList
  <2> QED
    BY <2>1, KeepNothing
<1>2. CASE Len(s) # 0
  <2>1. PICK u, x : IsList(u) /\ s = Append(u, x) /\ Len(u) + 1 = Len(s) /\ Len(u) \in Nat
    BY <1>2, LastOne
  <2>2. \A i \in 1..Len(u) : i \in 1..Len(s)
    BY <2>1
  <2>3. \A i \in 1..Len(u) : i \in I <=> i \in J
    BY <2>2
  <2>4. /\ Keep(s, I) = IF Len(u) + 1 \in I THEN Append(Keep(u, I), x) ELSE Keep(u, I)
        /\ Keep(s, J) = IF Len(u) + 1 \in J THEN Append(Keep(u, I), x) ELSE Keep(u, I)
    BY <2>1, <2>3, KeepOne
  <2>5. Len(u) + 1 \in I <=> Len(u) + 1 \in J
    <3>1. Len(s) \in 1..Len(s)
      BY <2>1
    <3> QED
      BY <2>1, <3>1
  <2> QED
    BY <2>4, <2>5
<1> QED
  BY <1>1, <1>2

\* What is left of a list with one entry more.
LEMMA SansOne ==
  ASSUME NEW s, IsList(s), NEW x, NEW X
  PROVE  Sans(Append(s, x), X) = IF x \in X THEN Sans(s, X) ELSE Append(Sans(s, X), x)
<1> DEFINE u == Append(s, x)
           I == {i \in DOMAIN s : s[i] \notin X}
           J == {i \in DOMAIN u : u[i] \notin X}
<1>1. /\ Len(s) \in Nat /\ Len(u) = Len(s) + 1 /\ u[Len(s) + 1] = x
      /\ \A i \in 1..Len(s) : u[i] = s[i]
  BY AppendedEntries
<1>2. DOMAIN s = 1..Len(s) /\ DOMAIN u = 1..(Len(s) + 1)
  <2>1. IsList(u)
    BY Appended
  <2> HIDE DEF u
  <2> QED
    BY <1>1, <2>1, ListFacts DEF IsList
<1>3. Keep(u, J) = IF Len(s) + 1 \in J THEN Append(Keep(s, I), x) ELSE Keep(s, I)
  <2>1. \A i \in 1..Len(s) : i \in 1..(Len(s) + 1)
    BY <1>1
  <2>2. \A i \in 1..Len(s) : i \in I <=> i \in J
    BY <1>1, <1>2, <2>1
  <2> HIDE DEF I, J
  <2> QED
    BY <2>2, KeepOne
<1>4. Len(s) + 1 \in J <=> x \notin X
  <2>1. Len(s) + 1 \in 1..(Len(s) + 1)
    BY <1>1
  <2> HIDE DEF u
  <2> QED
    BY <1>1, <1>2, <2>1
<1> QED
  BY <1>3, <1>4 DEF Sans

LEMMA SansNothing == ASSUME NEW X PROVE Sans(<<>>, X) = <<>>
BY KeepNothing DEF Sans

\* What is left is a list of the entries that are not in the set.
LEMMA SansElements ==
  ASSUME NEW s, IsList(s), NEW X
  PROVE  IsList(Sans(s, X)) /\ Elements(Sans(s, X)) = Elements(s) \ X
<1> DEFINE I == {i \in DOMAIN s : s[i] \notin X}
<1>1. IsList(Keep(s, I)) /\ Elements(Keep(s, I)) = {s[i] : i \in DOMAIN s \cap I}
  BY KeptElements
<1>2. {s[i] : i \in DOMAIN s \cap I} = Elements(s) \ X
  BY DEF Elements
<1> QED
  BY <1>1, <1>2 DEF Sans

\* Leaving out two sets, one after the other.
LEMMA SansTwice ==
  ASSUME NEW X, NEW Y, NEW s, IsList(s)
  PROVE  Sans(Sans(s, X), Y) = Sans(s, X \cup Y)
<1> DEFINE Wrong(u) == IsList(u) /\ Sans(Sans(u, X), Y) # Sans(u, X \cup Y)
           T == {n \in Nat : \E u : Wrong(u) /\ Len(u) = n}
<1>1. CASE T # {}
  <2>0. T \subseteq Nat
    OBVIOUS
  <2>1. PICK m \in T : \A k \in T : m <= k
    BY <1>1, <2>0, HasLeast
  <2>2. PICK u : Wrong(u) /\ Len(u) = m
    BY <2>1
  <2>3. CASE m = 0
    <3>1. u = <<>>
      BY <2>2, <2>3 DEF IsList
    <3> QED
      BY <2>2, <3>1, SansNothing
  <2>4. CASE m # 0
    <3>1. PICK v, x : IsList(v) /\ u = Append(v, x) /\ Len(v) + 1 = m /\ Len(v) \in Nat
      BY <2>2, <2>4, LastOne
    <3>2. ~ Wrong(v)
      <4>1. ~ (m <= Len(v)) /\ Len(v) \in Nat
        BY <3>1
      <4> QED
        BY <2>1, <4>1
    <3>3. Sans(Sans(v, X), Y) = Sans(v, X \cup Y)
      BY <3>1, <3>2
    <3>0. IsList(Sans(v, X))
      BY <3>1, SansElements
    <3> DEFINE Z == X \cup Y
               w == Sans(v, X)
    <3>4. x \in Z <=> x \in X \/ x \in Y
      OBVIOUS
    <3>5. w = Sans(v, X) /\ Z = X \cup Y
      OBVIOUS
    <3> HIDE DEF Z, w
    <3>6. Sans(u, X) = IF x \in X THEN w ELSE Append(w, x)
      BY <3>1, <3>5, SansOne
    <3>7. Sans(u, Z) = IF x \in Z THEN Sans(v, Z) ELSE Append(Sans(v, Z), x)
      BY <3>1, SansOne
    <3>8. Sans(Append(w, x), Y) = IF x \in Y THEN Sans(w, Y) ELSE Append(Sans(w, Y), x)
      BY <3>0, <3>5, SansOne
    <3>9. Sans(Sans(u, X), Y) = Sans(u, Z)
      BY <3>3, <3>4, <3>5, <3>6, <3>7, <3>8
    <3> QED
      BY <2>2, <3>5, <3>9
  <2> QED
    BY <2>3, <2>4
<1>2. CASE T = {}
  <2>1. Len(s) \in Nat
    BY ListFacts DEF IsList
  <2> QED
    BY <1>2, <2>1
<1> QED
  BY <1>1, <1>2

\* Leaving out what is not there.
LEMMA SansNone ==
  ASSUME NEW X, NEW s, IsList(s), Elements(s) \cap X = {}
  PROVE  Sans(s, X) = s
<1> DEFINE Wrong(u) == IsList(u) /\ Elements(u) \cap X = {} /\ Sans(u, X) # u
           T == {n \in Nat : \E u : Wrong(u) /\ Len(u) = n}
<1>1. CASE T # {}
  <2>0. T \subseteq Nat
    OBVIOUS
  <2>1. PICK m \in T : \A k \in T : m <= k
    BY <1>1, <2>0, HasLeast
  <2>2. PICK u : Wrong(u) /\ Len(u) = m
    BY <2>1
  <2>3. CASE m = 0
    <3>1. u = <<>>
      BY <2>2, <2>3 DEF IsList
    <3> QED
      BY <2>2, <3>1, SansNothing
  <2>4. CASE m # 0
    <3>1. PICK v, x : IsList(v) /\ u = Append(v, x) /\ Len(v) + 1 = m /\ Len(v) \in Nat
      BY <2>2, <2>4, LastOne
    <3>2. Elements(u) = Elements(v) \cup {x}
      BY <3>1, Appended
    <3>3. ~ Wrong(v)
      <4>1. ~ (m <= Len(v)) /\ Len(v) \in Nat
        BY <3>1
      <4> QED
        BY <2>1, <4>1
    <3>4. Sans(v, X) = v /\ x \notin X
      BY <2>2, <3>1, <3>2, <3>3
    <3>5. Sans(u, X) = u
      BY <3>1, <3>4, SansOne
    <3> QED
      BY <2>2, <3>5
  <2> QED
    BY <2>3, <2>4
<1>2. CASE T = {}
  <2>1. Len(s) \in Nat
    BY ListFacts DEF IsList
  <2> QED
    BY <1>2, <2>1
<1> QED
  BY <1>1, <1>2

\* Leaving out everything.
LEMMA SansAll ==
  ASSUME NEW X, NEW s, IsList(s), Elements(s) \subseteq X
  PROVE  Sans(s, X) = <<>>
<1>1. IsList(Sans(s, X)) /\ Elements(Sans(s, X)) = {}
  BY SansElements
<1> DEFINE u == Sans(s, X)
<1> HIDE DEF u
<1>2. ASSUME u # <<>>, IsList(u)
      PROVE  Elements(u) # {}
  <2>1. Len(u) \in Nat /\ Len(u) # 0
    BY <1>2 DEF IsList
  <2>2. 1 \in 1..Len(u)
    BY <2>1
  <2> QED
    BY <1>2, <2>2, ListFacts DEF IsList
<1> QED
  BY <1>1, <1>2 DEF u

\* Joining a list and one with an entry more.
LEMMA ConcatLonger ==
  ASSUME NEW a, IsList(a), NEW b, IsList(b), NEW x
  PROVE  a \o Append(b, x) = Append(a \o b, x)
<1> DEFINE S == Elements(a) \cup Elements(b) \cup {x}
<1>1. a \in Seq(S) /\ b \in Seq(S) /\ a \o b \in Seq(S) /\ x \in S
  <2>1. a \in Seq(S) /\ b \in Seq(S)
    BY SeqMonotonic DEF IsList
  <2> QED
    BY <2>1, ConcatProperties
<1> HIDE DEF S
<1>2. <<x>> \in Seq(S)
  BY <1>1
<1>3. Append(b, x) = b \o <<x>> /\ Append(a \o b, x) = (a \o b) \o <<x>>
  BY <1>1, AppendIsConcat
<1>4. (a \o b) \o <<x>> = a \o (b \o <<x>>)
  BY <1>1, <1>2, ConcatAssociative
<1> QED
  BY <1>3, <1>4

\* The halves of a list, one after the other, are the list.
LEMMA HalvesJoin ==
  ASSUME NEW s, IsList(s), NEW limit, NEW old, NEW new, Halved(s, limit, old, new)
  PROVE  s = old \o new
<1> DEFINE u == old \o new
<1>1. /\ IsList(old) /\ IsList(new) /\ Len(old) \in Nat /\ Len(new) \in Nat /\ Len(s) \in Nat
      /\ Len(s) = Len(old) + Len(new)
      /\ \A i \in 1..Len(old) : old[i] = s[i]
      /\ \A i \in 1..Len(new) : new[i] = s[i + Len(old)]
  BY DEF Halved
<1>2. /\ IsList(u) /\ Len(u) = Len(s)
      /\ \A i \in 1..Len(old) : u[i] = old[i]
      /\ \A i \in 1..Len(new) : u[Len(old) + i] = new[i]
  BY <1>1, Concatenated, ConcatenatedEntries
<1> HIDE DEF u
<1>3. \A i \in 1..Len(s) : s[i] = u[i]
  <2> TAKE i \in 1..Len(s)
  <2>1. CASE i \in 1..Len(old)
    BY <1>1, <1>2, <2>1
  <2>2. CASE i \notin 1..Len(old)
    <3>1. i - Len(old) \in 1..Len(new) /\ Len(old) + (i - Len(old)) = i /\ (i - Len(old)) + Len(old) = i
      BY <1>1, <2>2
    <3>2. u[Len(old) + (i - Len(old))] = new[i - Len(old)]
      BY <1>2, <3>1
    <3>3. new[i - Len(old)] = s[(i - Len(old)) + Len(old)]
      BY <1>1, <3>1
    <3> QED
      BY <3>1, <3>2, <3>3
  <2> QED
    BY <2>1, <2>2
<1>4. s = u
  BY <1>2, <1>3, SameList
<1> QED
  BY <1>4 DEF u

\* Of two lists, one after the other.
LEMMA SansConcat ==
  ASSUME NEW X, NEW s, IsList(s), NEW r, IsList(r)
  PROVE  Sans(s \o r, X) = Sans(s, X) \o Sans(r, X)
<1> DEFINE Wrong(u) == IsList(u) /\ Sans(s \o u, X) # Sans(s, X) \o Sans(u, X)
           T == {n \in Nat : \E u : Wrong(u) /\ Len(u) = n}
<1>1. CASE T # {}
  <2>0. T \subseteq Nat
    OBVIOUS
  <2>1. PICK m \in T : \A k \in T : m <= k
    BY <1>1, <2>0, HasLeast
  <2>2. PICK u : Wrong(u) /\ Len(u) = m
    BY <2>1
  <2>3. CASE m = 0
    <3>1. u = <<>>
      BY <2>2, <2>3 DEF IsList
    <3>2. IsList(s) /\ IsList(Sans(s, X))
      BY SansElements
    <3>3. s \o <<>> = s /\ Sans(s, X) \o <<>> = Sans(s, X)
      BY <3>2, ConcatEmptySeq DEF IsList
    <3> QED
      BY <2>2, <3>1, <3>3, SansNothing
  <2>4. CASE m # 0
    <3>1. PICK v, x : IsList(v) /\ u = Append(v, x) /\ Len(v) + 1 = m /\ Len(v) \in Nat
      BY <2>2, <2>4, LastOne
    <3>2. ~ Wrong(v)
      <4>1. ~ (m <= Len(v)) /\ Len(v) \in Nat
        BY <3>1
      <4> QED
        BY <2>1, <4>1
    <3>3. Sans(s \o v, X) = Sans(s, X) \o Sans(v, X)
      BY <3>1, <3>2
    <3>4. IsList(s \o v) /\ IsList(Sans(s, X)) /\ IsList(Sans(v, X))
      BY <3>1, Concatenated, SansElements
    <3>5. \A a, b : IsList(a) /\ IsList(b) => a \o Append(b, x) = Append(a \o b, x)
      BY ConcatLonger
    <3>6. s \o u = Append(s \o v, x)
      BY <3>1, <3>5
    <3>7. /\ Sans(u, X) = IF x \in X THEN Sans(v, X) ELSE Append(Sans(v, X), x)
          /\ Sans(s \o u, X) = IF x \in X THEN Sans(s \o v, X) ELSE Append(Sans(s \o v, X), x)
      BY <3>1, <3>4, <3>6, SansOne
    <3>8. Append(Sans(s, X) \o Sans(v, X), x) = Sans(s, X) \o Append(Sans(v, X), x)
      BY <3>4, <3>5
    <3>9. Sans(s \o u, X) = Sans(s, X) \o Sans(u, X)
      BY <3>3, <3>7, <3>8
    <3> QED
      BY <2>2, <3>9
  <2> QED
    BY <2>3, <2>4
<1>2. CASE T = {}
  <2>1. Len(r) \in Nat
    BY ListFacts DEF IsList
  <2> QED
    BY <1>2, <2>1
<1> QED
  BY <1>1, <1>2

\* What is left of a list without its oldest entries is the newest.
LEMMA SansOldest ==
  ASSUME NEW s, IsList(s), Distinct(s), NEW limit \in Nat
  PROVE  /\ Sans(s, Elements(Oldest(s, limit))) = Newest(s, limit)
         /\ s = Oldest(s, limit) \o Newest(s, limit)
<1> DEFINE old == Oldest(s, limit)
           new == Newest(s, limit)
<1>1. Halved(s, limit, old, new)
  BY Halves
<1> HIDE DEF old, new
<1>2. IsList(old) /\ IsList(new) /\ Elements(old) \cap Elements(new) = {}
  <2>1. IsList(old) /\ IsList(new)
    BY <1>1 DEF Halved
  <2>2. Elements(old) \cap Elements(new) = {}
    BY <1>1, Parted
  <2> QED
    BY <2>1, <2>2
<1>3. s = old \o new
  BY <1>1, HalvesJoin
<1>4. Sans(old \o new, Elements(old)) = Sans(old, Elements(old)) \o Sans(new, Elements(old))
  BY <1>2, SansConcat
<1>5. Sans(old, Elements(old)) = <<>> /\ Sans(new, Elements(old)) = new
  BY <1>2, SansAll, SansNone
<1>6. <<>> \o new = new
  BY <1>2, ConcatEmptySeq DEF IsList
<1> QED
  BY <1>3, <1>4, <1>5, <1>6 DEF old, new

\* What is newest of a list that was cut and has grown again is what is
\* newest of the list that was never cut.
LEMMA NewestAgain ==
  ASSUME NEW s, IsList(s), NEW u, IsList(u), NEW limit \in Nat
  PROVE  Newest(Newest(s, limit) \o u, limit) = Newest(s \o u, limit)
<1> DEFINE cut == Newest(s, limit)
           b == cut \o u
           c == s \o u
           x == Newest(b, limit)
           y == Newest(c, limit)
           old == Oldest(s, limit)
           ob == Oldest(b, limit)
           oc == Oldest(c, limit)
<1>1. Halved(s, limit, old, cut)
  BY Halves
<1>2. /\ IsList(cut) /\ Len(cut) \in Nat /\ Len(old) \in Nat /\ Len(s) \in Nat
      /\ Len(s) = Len(old) + Len(cut)
      /\ Len(cut) = IF Len(s) < limit THEN Len(s) ELSE limit
      /\ \A i \in 1..Len(cut) : i + Len(old) \in 1..Len(s) /\ cut[i] = s[i + Len(old)]
  BY <1>1 DEF Halved
<1> HIDE DEF cut, old
<1>3. /\ IsList(b) /\ Len(u) \in Nat /\ Len(b) = Len(cut) + Len(u)
      /\ \A i \in 1..Len(cut) : b[i] = cut[i]
      /\ \A i \in 1..Len(u) : b[Len(cut) + i] = u[i]
  <2>1. IsList(cut)
    BY <1>2
  <2>2. IsList(b)
    BY <2>1, Concatenated
  <2> QED
    BY <2>1, <2>2, ConcatenatedEntries
<1>4. /\ IsList(c) /\ Len(c) = Len(s) + Len(u)
      /\ \A i \in 1..Len(s) : c[i] = s[i]
      /\ \A i \in 1..Len(u) : c[Len(s) + i] = u[i]
  BY Concatenated, ConcatenatedEntries
<1> HIDE DEF b, c
<1>5. Halved(b, limit, ob, x) /\ Halved(c, limit, oc, y)
  BY <1>3, <1>4, Halves
<1> HIDE DEF x, y, ob, oc
<1>6. /\ IsList(x) /\ Len(x) \in Nat /\ Len(ob) \in Nat /\ Len(b) = Len(ob) + Len(x)
      /\ Len(x) = IF Len(b) < limit THEN Len(b) ELSE limit
      /\ \A i \in 1..Len(x) : i + Len(ob) \in 1..Len(b) /\ x[i] = b[i + Len(ob)]
      /\ IsList(y) /\ Len(y) \in Nat /\ Len(oc) \in Nat /\ Len(c) = Len(oc) + Len(y)
      /\ Len(y) = IF Len(c) < limit THEN Len(c) ELSE limit
      /\ \A i \in 1..Len(y) : i + Len(oc) \in 1..Len(c) /\ y[i] = c[i + Len(oc)]
  BY <1>5 DEF Halved
<1>7. Len(x) = Len(y) /\ Len(oc) = Len(ob) + Len(old) /\ Len(u) \in Nat
  <2>1. /\ Len(s) \in Nat /\ Len(u) \in Nat /\ Len(cut) \in Nat /\ Len(old) \in Nat /\ limit \in Nat
        /\ Len(s) = Len(old) + Len(cut)
        /\ Len(cut) = IF Len(s) < limit THEN Len(s) ELSE limit
        /\ Len(b) = Len(cut) + Len(u) /\ Len(c) = Len(s) + Len(u)
    BY <1>2, <1>3, <1>4
  <2>2. /\ Len(x) \in Nat /\ Len(ob) \in Nat /\ Len(b) = Len(ob) + Len(x)
        /\ Len(x) = IF Len(b) < limit THEN Len(b) ELSE limit
        /\ Len(y) \in Nat /\ Len(oc) \in Nat /\ Len(c) = Len(oc) + Len(y)
        /\ Len(y) = IF Len(c) < limit THEN Len(c) ELSE limit
    BY <1>6
  <2>3. CASE Len(s) < limit
    <3>1. Len(cut) = Len(s) /\ Len(old) = 0 /\ Len(b) = Len(c)
      BY <2>1, <2>3
    <3>2. Len(x) = Len(y)
      BY <2>2, <3>1
    <3>3. Len(oc) = Len(ob)
      BY <2>2, <3>1, <3>2
    <3> QED
      BY <2>1, <2>2, <3>1, <3>2, <3>3
  <2>4. CASE ~ (Len(s) < limit)
    <3>1. Len(cut) = limit /\ ~ (Len(b) < limit) /\ ~ (Len(c) < limit)
      BY <2>1, <2>4
    <3>2. Len(x) = limit /\ Len(y) = limit
      BY <2>2, <3>1
    <3> QED
      BY <2>1, <2>2, <3>1, <3>2
  <2> QED
    BY <2>3, <2>4
<1>8. \A i \in 1..Len(x) : x[i] = y[i]
  <2> TAKE i \in 1..Len(x)
  <2>0. /\ x[i] = b[i + Len(ob)] /\ y[i] = c[i + Len(oc)]
        /\ i + Len(ob) \in 1..Len(b) /\ i + Len(oc) \in 1..Len(c)
    BY <1>6, <1>7
  <2>1. CASE i + Len(ob) \in 1..Len(cut)
    <3>1. b[i + Len(ob)] = cut[i + Len(ob)]
      BY <1>3, <2>1
    <3>2. /\ cut[i + Len(ob)] = s[(i + Len(ob)) + Len(old)]
          /\ (i + Len(ob)) + Len(old) \in 1..Len(s)
      BY <1>2, <2>1
    <3>3. (i + Len(ob)) + Len(old) = i + Len(oc)
      BY <1>2, <1>6, <1>7
    <3>4. c[i + Len(oc)] = s[i + Len(oc)]
      BY <1>4, <3>2, <3>3
    <3> QED
      BY <2>0, <3>1, <3>2, <3>3, <3>4
  <2>2. CASE i + Len(ob) \notin 1..Len(cut)
    <3> DEFINE j == i + Len(ob) - Len(cut)
    <3>1. j \in 1..Len(u) /\ Len(cut) + j = i + Len(ob) /\ Len(s) + j = i + Len(oc)
      <4>1. /\ Len(s) \in Nat /\ Len(u) \in Nat /\ Len(cut) \in Nat /\ Len(old) \in Nat
            /\ Len(ob) \in Nat /\ Len(oc) = Len(ob) + Len(old)
            /\ Len(s) = Len(old) + Len(cut) /\ Len(b) = Len(cut) + Len(u)
            /\ i \in Nat
        BY <1>2, <1>3, <1>6, <1>7
      <4> QED
        BY <2>0, <2>2, <4>1
    <3> HIDE DEF j
    <3>2. b[Len(cut) + j] = u[j] /\ c[Len(s) + j] = u[j]
      BY <1>3, <1>4, <3>1
    <3> QED
      BY <2>0, <3>1, <3>2
  <2> QED
    BY <2>1, <2>2
<1>9. x = y
  BY <1>6, <1>7, <1>8, SameList
<1> QED
  BY <1>9 DEF x, y, b, c, cut

-----------------------------------------------------------------------------
(* The records of a kind.                                                  *)

\* Those of a trace.
OfKind(t, kind) == Keep(t, {i \in DOMAIN t : t[i].kind = kind})

\* They are what is left without the records of other kinds.
LEMMA OfKindSans ==
  ASSUME NEW t, IsList(t), NEW X, NEW kind, \A i \in 1..Len(t) : t[i] \in X <=> t[i].kind # kind
  PROVE  OfKind(t, kind) = Sans(t, X)
<1> DEFINE I == {i \in DOMAIN t : t[i].kind = kind}
           J == {i \in DOMAIN t : t[i] \notin X}
<1>1. DOMAIN t = 1..Len(t)
  BY ListFacts DEF IsList
<1>2. \A i \in 1..Len(t) : i \in I <=> i \in J
  BY <1>1
<1> HIDE DEF I, J
<1>3. Keep(t, I) = Keep(t, J)
  BY <1>2, KeepSame
<1> QED
  BY <1>3 DEF I, J, OfKind, Sans

\* Of a trace that goes on.
LEMMA OfKindConcat ==
  ASSUME NEW t, IsList(t), NEW u, IsList(u), NEW kind
  PROVE  OfKind(t \o u, kind) = OfKind(t, kind) \o OfKind(u, kind)
<1> DEFINE X == {r \in Elements(t) \cup Elements(u) : r.kind # kind}
           tu == t \o u
<1>1. IsList(tu) /\ Elements(tu) = Elements(t) \cup Elements(u)
  BY Concatenated
<1>2. /\ \A i \in 1..Len(t) : t[i] \in Elements(t)
      /\ \A i \in 1..Len(u) : u[i] \in Elements(u)
      /\ \A i \in 1..Len(tu) : tu[i] \in Elements(tu)
  <2>1. \A w : IsList(w) => \A i \in 1..Len(w) : w[i] \in Elements(w)
    BY ListFacts DEF IsList
  <2> HIDE DEF tu
  <2> QED
    BY <1>1, <2>1
<1> HIDE DEF tu
<1>3. /\ \A i \in 1..Len(t) : t[i] \in X <=> t[i].kind # kind
      /\ \A i \in 1..Len(u) : u[i] \in X <=> u[i].kind # kind
      /\ \A i \in 1..Len(tu) : tu[i] \in X <=> tu[i].kind # kind
  BY <1>1, <1>2
<1> HIDE DEF X
<1>4. /\ OfKind(t, kind) = Sans(t, X) /\ OfKind(u, kind) = Sans(u, X)
      /\ OfKind(tu, kind) = Sans(tu, X)
  BY <1>1, <1>3, OfKindSans
<1>5. Sans(tu, X) = Sans(t, X) \o Sans(u, X)
  BY SansConcat DEF tu
<1> QED
  BY <1>4, <1>5 DEF tu

\* Of one that has none, and of one record.
LEMMA OfKindNone ==
  ASSUME NEW u, IsList(u), NEW kind, \A i \in 1..Len(u) : u[i].kind # kind
  PROVE  OfKind(u, kind) = <<>>
<1>1. \A i \in 1..Len(u) : u[i] \in Elements(u)
  BY ListFacts DEF IsList
<1> DEFINE X == Elements(u)
<1>2. \A i \in 1..Len(u) : u[i] \in X <=> u[i].kind # kind
  BY <1>1
<1>3. Elements(u) \subseteq X
  OBVIOUS
<1> HIDE DEF X
<1>4. OfKind(u, kind) = Sans(u, X)
  BY <1>2, OfKindSans
<1> QED
  BY <1>3, <1>4, SansAll

LEMMA AppendedOnly == ASSUME NEW r PROVE IsList(<<r>>) /\ Elements(<<r>>) = {r}
<1> DEFINE e == <<r>>
<1>1. e \in Seq({r}) /\ Len(e) = 1 /\ e[1] = r
  OBVIOUS
<1> HIDE DEF e
<1>2. 1 \in 1..Len(e)
  BY <1>1
<1>3. IsList(e) /\ Elements(e) = {r}
  BY <1>1, <1>2, ListFacts
<1> QED
  BY <1>3 DEF e

LEMMA OfKindOne ==
  ASSUME NEW r, NEW kind, r.kind = kind
  PROVE  OfKind(<<r>>, kind) = <<r>> /\ IsList(<<r>>)
<1> DEFINE u == <<r>>
<1>0. IsList(u) /\ Elements(u) = {r} /\ u = <<r>>
  BY AppendedOnly
<1> HIDE DEF u
<1>1. \A i \in 1..Len(u) : u[i] \in {} <=> u[i].kind # kind
  <2>1. \A i \in 1..Len(u) : u[i] \in Elements(u)
    BY <1>0, ListFacts DEF IsList
  <2> QED
    BY <1>0, <2>1
<1>2. OfKind(u, kind) = Sans(u, {})
  BY <1>0, <1>1, OfKindSans
<1>3. Sans(u, {}) = u
  BY <1>0, SansNone
<1> QED
  BY <1>0, <1>2, <1>3

\* A trace with one record more.
LEMMA OfKindNext ==
  ASSUME NEW t, IsList(t), NEW r, NEW kind
  PROVE  OfKind(Append(t, r), kind) =
           IF r.kind = kind THEN Append(OfKind(t, kind), r) ELSE OfKind(t, kind)
<1> DEFINE X == {x \in Elements(t) \cup {r} : x.kind # kind}
           u == Append(t, r)
<1>1. IsList(u) /\ Elements(u) = Elements(t) \cup {r}
  BY Appended
<1>2. \A w : IsList(w) => \A i \in 1..Len(w) : w[i] \in Elements(w)
  BY ListFacts DEF IsList
<1>0. u = Append(t, r)
  OBVIOUS
<1> HIDE DEF u
<1>3. /\ \A i \in 1..Len(t) : t[i] \in X <=> t[i].kind # kind
      /\ \A i \in 1..Len(u) : u[i] \in X <=> u[i].kind # kind
      /\ r \in X <=> r.kind # kind
  BY <1>1, <1>2
<1> HIDE DEF X
<1>4. OfKind(t, kind) = Sans(t, X) /\ OfKind(u, kind) = Sans(u, X)
  BY <1>1, <1>3, OfKindSans
<1>5. Sans(u, X) = IF r \in X THEN Sans(t, X) ELSE Append(Sans(t, X), r)
  BY <1>0, SansOne
<1> QED
  BY <1>0, <1>3, <1>4, <1>5

-----------------------------------------------------------------------------
(* What replay makes of events and observations.                           *)

\* The logs and the counter are what the trace gives.
Logged ==
  /\ IsList(trace)
  /\ RebuiltEvents = events /\ RebuiltObservations = observations /\ RebuiltEventIds = eventIds

LEMMA RecordsOfKind == ASSUME NEW kind PROVE Records(kind) = OfKind(trace, kind)
BY DEF Records, OfKind

LEMMA LoggedInit == OccurrencesInit => Logged
<1> SUFFICES ASSUME OccurrencesInit
             PROVE  Logged
  OBVIOUS
<1> DEFINE e == <<>>
<1>1. IsList(e) /\ DOMAIN e = {} /\ e = <<>>
  BY EmptyList
<1>2. trace = e /\ events = e /\ observations = e /\ eventIds = 0
  BY DEF OccurrencesInit
<1> HIDE DEF e
<1>3. \A kind : Records(kind) = e
  BY <1>1, <1>2, KeepNothing DEF Records
<1>4. RebuiltEvents = e /\ RebuiltObservations = e
  BY <1>1, <1>3 DEF RebuiltEvents, RebuiltObservations
<1>5. RebuiltEventIds = 0
  BY <1>1, <1>4 DEF RebuiltEventIds
<1> QED
  BY <1>1, <1>2, <1>4, <1>5 DEF Logged

\* Records beside those of a kind leave them.
LEMMA RecordsBeside ==
  ASSUME IsList(trace), NEW u, IsList(u), trace' = trace \o u, NEW kind,
         \A i \in 1..Len(u) : u[i].kind # kind
  PROVE  Records(kind)' = Records(kind)
<1> DEFINE t == trace
<1>1. Records(kind)' = OfKind(t \o u, kind) /\ Records(kind) = OfKind(t, kind) /\ IsList(t)
  BY DEF Records, OfKind
<1> HIDE DEF t
<1>2. OfKind(t \o u, kind) = OfKind(t, kind) \o OfKind(u, kind)
  BY <1>1, OfKindConcat
<1>3. OfKind(u, kind) = <<>>
  BY OfKindNone
<1> DEFINE s == OfKind(t, kind)
<1>4. s \in Seq(Elements(s))
  BY <1>1, KeptElements DEF OfKind, IsList
<1> HIDE DEF s
<1>5. s \o <<>> = s
  BY <1>4, ConcatEmptySeq
<1> QED
  BY <1>1, <1>2, <1>3, <1>5 DEF s

\* A step that leaves the logs and records something else.
LEMMA LoggedBeside ==
  ASSUME Logged, UNCHANGED occurrenceVars, NEW u, IsList(u), trace' = trace \o u,
         \A i \in 1..Len(u) : u[i].kind \notin {"CANONICAL_EVENT_COMMITTED", "OBSERVATION_RECORDED"}
  PROVE  Logged'
<1>0. IsList(trace)
  BY DEF Logged
<1>1. Records("CANONICAL_EVENT_COMMITTED")' = Records("CANONICAL_EVENT_COMMITTED")
  <2>1. \A i \in 1..Len(u) : u[i].kind # "CANONICAL_EVENT_COMMITTED"
    OBVIOUS
  <2> QED
    BY <1>0, <2>1, RecordsBeside
<1>4. Records("OBSERVATION_RECORDED")' = Records("OBSERVATION_RECORDED")
  <2>1. \A i \in 1..Len(u) : u[i].kind # "OBSERVATION_RECORDED"
    OBVIOUS
  <2> QED
    BY <1>0, <2>1, RecordsBeside
<1>2. /\ RebuiltEvents' = RebuiltEvents /\ RebuiltObservations' = RebuiltObservations
      /\ RebuiltEventIds' = RebuiltEventIds
  BY <1>1, <1>4 DEF RebuiltEvents, RebuiltObservations, RebuiltEventIds
<1>3. IsList(trace)'
  BY Concatenated DEF Logged
<1> QED
  BY <1>2, <1>3 DEF Logged, occurrenceVars

\* An event is logged and recorded.
LEMMA EventLogged ==
  ASSUME Logged, NEW e, e.id = eventIds', events' = Append(events, e), observations' = observations,
         trace' = Append(trace, [kind |-> "CANONICAL_EVENT_COMMITTED", event |-> e])
  PROVE  Logged'
<1> DEFINE r == [kind |-> "CANONICAL_EVENT_COMMITTED", event |-> e]
           rs == Records("CANONICAL_EVENT_COMMITTED")
           os == Records("OBSERVATION_RECORDED")
<1>0. r.kind = "CANONICAL_EVENT_COMMITTED" /\ r.event = e /\ trace' = Append(trace, r)
  OBVIOUS
<1> HIDE DEF r
<1>1. rs' = Append(rs, r) /\ os' = os /\ IsList(rs)
  <2>1. /\ OfKind(Append(trace, r), "CANONICAL_EVENT_COMMITTED")
             = Append(OfKind(trace, "CANONICAL_EVENT_COMMITTED"), r)
        /\ OfKind(Append(trace, r), "OBSERVATION_RECORDED") = OfKind(trace, "OBSERVATION_RECORDED")
    BY <1>0, OfKindNext DEF Logged
  <2>2. rs = OfKind(trace, "CANONICAL_EVENT_COMMITTED") /\ os = OfKind(trace, "OBSERVATION_RECORDED")
    BY RecordsOfKind
  <2>3. /\ rs' = OfKind(Append(trace, r), "CANONICAL_EVENT_COMMITTED")
        /\ os' = OfKind(Append(trace, r), "OBSERVATION_RECORDED")
    BY <1>0 DEF Records, OfKind
  <2>4. IsList(rs)
    BY <2>2, KeptElements DEF Logged, OfKind
  <2> QED
    BY <2>1, <2>2, <2>3, <2>4
<1>2. RebuiltEvents = [i \in DOMAIN rs |-> rs[i].event] /\ RebuiltEvents' = [i \in DOMAIN rs' |-> rs'[i].event]
  BY DEF RebuiltEvents
<1>3. RebuiltObservations' = RebuiltObservations
  BY <1>1 DEF RebuiltObservations
<1> HIDE DEF rs, os
<1> DEFINE n == Len(rs)
           w == rs'
<1>4. /\ n \in Nat /\ DOMAIN rs = 1..n
      /\ IsList(w) /\ Len(w) = n + 1 /\ w[n + 1] = r
      /\ \A i \in 1..n : w[i] = rs[i]
  BY <1>1, Appended, AppendedEntries, ListFacts DEF IsList
<1>5. DOMAIN w = 1..(n + 1)
  BY <1>4, ListFacts DEF IsList
<1> DEFINE f == [i \in 1..n |-> rs[i].event]
           g == [i \in 1..(n + 1) |-> w[i].event]
<1>6. RebuiltEvents = f /\ RebuiltEvents' = g
  BY <1>2, <1>4, <1>5
<1>7. /\ f = [i \in 1..n |-> f[i]] /\ g = [i \in 1..(n + 1) |-> g[i]] /\ n + 1 \in Nat
      /\ \A i \in 1..n : f[i] = rs[i].event
      /\ \A i \in 1..(n + 1) : g[i] = w[i].event
  BY <1>4
<1> HIDE DEF f, g, w, n
<1>8. IsList(f) /\ Len(f) = n /\ IsList(g) /\ Len(g) = n + 1
  BY <1>4, <1>7, FunctionIsList
<1>9. g = Append(f, e)
  <2>1. /\ IsList(Append(f, e)) /\ Len(Append(f, e)) = n + 1 /\ Append(f, e)[n + 1] = e
        /\ \A i \in 1..n : Append(f, e)[i] = f[i]
    BY <1>8, Appended, AppendedEntries
  <2>2. \A i \in 1..(n + 1) : g[i] = Append(f, e)[i]
    <3> TAKE i \in 1..(n + 1)
    <3>1. CASE i = n + 1
      BY <1>0, <1>4, <1>7, <2>1, <3>1
    <3>2. CASE i # n + 1
      <4>1. i \in 1..n
        BY <1>4, <3>2
      <4> QED
        BY <1>4, <1>7, <2>1, <4>1
    <3> QED
      BY <3>1, <3>2
  <2> QED
    BY <1>8, <2>1, <2>2, SameList
<1>10. RebuiltEvents' = events' /\ events' = g
  BY <1>6, <1>9 DEF Logged
<1>11. RebuiltEventIds' = eventIds'
  <2>1. g # <<>> /\ g[Len(g)].id = eventIds'
    <3>1. g # <<>>
      BY <1>4, <1>8
    <3>2. n + 1 \in 1..(n + 1)
      BY <1>4
    <3> QED
      BY <1>0, <1>4, <1>7, <1>8, <3>1, <3>2
  <2> QED
    BY <1>10, <2>1 DEF RebuiltEventIds
<1>12. IsList(trace)'
  BY <1>0, Appended DEF Logged
<1> QED
  BY <1>3, <1>10, <1>11, <1>12 DEF Logged

\* An observation is logged and recorded.
LEMMA ObservationLogged ==
  ASSUME Logged, NEW d, observations' = Append(observations, d), UNCHANGED <<events, eventIds>>,
         trace' = Append(trace, [kind |-> "OBSERVATION_RECORDED", observation |-> d])
  PROVE  Logged'
<1> DEFINE r == [kind |-> "OBSERVATION_RECORDED", observation |-> d]
           rs == Records("OBSERVATION_RECORDED")
           es == Records("CANONICAL_EVENT_COMMITTED")
<1>0. r.kind = "OBSERVATION_RECORDED" /\ r.observation = d /\ trace' = Append(trace, r)
  OBVIOUS
<1> HIDE DEF r
<1>1. rs' = Append(rs, r) /\ es' = es /\ IsList(rs)
  <2>1. /\ OfKind(Append(trace, r), "OBSERVATION_RECORDED")
             = Append(OfKind(trace, "OBSERVATION_RECORDED"), r)
        /\ OfKind(Append(trace, r), "CANONICAL_EVENT_COMMITTED") = OfKind(trace, "CANONICAL_EVENT_COMMITTED")
    BY <1>0, OfKindNext DEF Logged
  <2>2. rs = OfKind(trace, "OBSERVATION_RECORDED") /\ es = OfKind(trace, "CANONICAL_EVENT_COMMITTED")
    BY RecordsOfKind
  <2>3. /\ rs' = OfKind(Append(trace, r), "OBSERVATION_RECORDED")
        /\ es' = OfKind(Append(trace, r), "CANONICAL_EVENT_COMMITTED")
    BY <1>0 DEF Records, OfKind
  <2>4. IsList(rs)
    BY <2>2, KeptElements DEF Logged, OfKind
  <2> QED
    BY <2>1, <2>2, <2>3, <2>4
<1>2. /\ RebuiltObservations = [i \in DOMAIN rs |-> rs[i].observation]
      /\ RebuiltObservations' = [i \in DOMAIN rs' |-> rs'[i].observation]
  BY DEF RebuiltObservations
<1>3. RebuiltEvents' = RebuiltEvents /\ RebuiltEventIds' = RebuiltEventIds
  BY <1>1 DEF RebuiltEvents, RebuiltEventIds
<1> HIDE DEF rs, es
<1> DEFINE n == Len(rs)
           w == rs'
<1>4. /\ n \in Nat /\ DOMAIN rs = 1..n
      /\ IsList(w) /\ Len(w) = n + 1 /\ w[n + 1] = r
      /\ \A i \in 1..n : w[i] = rs[i]
  BY <1>1, Appended, AppendedEntries, ListFacts DEF IsList
<1>5. DOMAIN w = 1..(n + 1)
  BY <1>4, ListFacts DEF IsList
<1> DEFINE f == [i \in 1..n |-> rs[i].observation]
           g == [i \in 1..(n + 1) |-> w[i].observation]
<1>6. RebuiltObservations = f /\ RebuiltObservations' = g
  BY <1>2, <1>4, <1>5
<1>7. /\ f = [i \in 1..n |-> f[i]] /\ g = [i \in 1..(n + 1) |-> g[i]] /\ n + 1 \in Nat
      /\ \A i \in 1..n : f[i] = rs[i].observation
      /\ \A i \in 1..(n + 1) : g[i] = w[i].observation
  BY <1>4
<1> HIDE DEF f, g, w, n
<1>8. IsList(f) /\ Len(f) = n /\ IsList(g) /\ Len(g) = n + 1
  BY <1>4, <1>7, FunctionIsList
<1>9. g = Append(f, d)
  <2>1. /\ IsList(Append(f, d)) /\ Len(Append(f, d)) = n + 1 /\ Append(f, d)[n + 1] = d
        /\ \A i \in 1..n : Append(f, d)[i] = f[i]
    BY <1>8, Appended, AppendedEntries
  <2>2. \A i \in 1..(n + 1) : g[i] = Append(f, d)[i]
    <3> TAKE i \in 1..(n + 1)
    <3>1. CASE i = n + 1
      BY <1>0, <1>4, <1>7, <2>1, <3>1
    <3>2. CASE i # n + 1
      <4>1. i \in 1..n
        BY <1>4, <3>2
      <4> QED
        BY <1>4, <1>7, <2>1, <4>1
    <3> QED
      BY <3>1, <3>2
  <2> QED
    BY <1>8, <2>1, <2>2, SameList
<1>10. RebuiltObservations' = observations'
  BY <1>6, <1>9 DEF Logged
<1>12. IsList(trace)'
  BY <1>0, Appended DEF Logged
<1> QED
  BY <1>3, <1>10, <1>12 DEF Logged

\* While every payload is canonical: events and observations are logged as
\* they are recorded.
LEMMA LoggedKept ==
  ASSUME Payloads \subseteq {"canonical"}, Logged, NEW type, NEW payload \in Payloads, NEW d, NEW visible,
         CommitEvent(type, payload) \/ RecordObservation(d, visible)
  PROVE  Logged'
<1>1. CASE CommitEvent(type, payload)
  <2> DEFINE e == [id |-> eventIds + 1, type |-> type]
  <2>1. /\ eventIds' = eventIds + 1 /\ observations' = observations
        /\ events' = Append(events, e)
        /\ trace' = Append(trace, [kind |-> "CANONICAL_EVENT_COMMITTED", event |-> e])
    BY <1>1 DEF CommitEvent
  <2>2. e.id = eventIds'
    BY <2>1
  <2> HIDE DEF e
  <2> QED
    BY <2>1, <2>2, EventLogged
<1>2. CASE RecordObservation(d, visible)
  BY <1>2, ObservationLogged DEF RecordObservation
<1> QED
  BY <1>1, <1>2

-----------------------------------------------------------------------------
(* Maps, and lists entry by entry.                                         *)

\* A function is what it gives.
IsMap(f) == f = [x \in DOMAIN f |-> f[x]]

\* A value put where it is.
LEMMA PutSame ==
  ASSUME NEW f, IsMap(f), NEW x \in DOMAIN f
  PROVE  Put(f, x, f[x]) = f
<1>1. Put(f, x, f[x]) = [y \in DOMAIN f |-> f[y]]
  BY DEF Put
<1> QED
  BY <1>1 DEF IsMap

\* Putting and dropping make maps.
LEMMA MapsMade ==
  ASSUME NEW f, NEW x, NEW a, NEW S
  PROVE  IsMap(Put(f, x, a)) /\ IsMap(Drop(f, S))
BY DEF Put, Drop, IsMap

\* The first entries of a list.
Leading(e, n) == [i \in 1..n |-> e[i]]

\* They start with none and grow one by one to the whole.
LEMMA LeadingOnes ==
  ASSUME NEW e, IsList(e)
  PROVE  /\ Leading(e, 0) = <<>> /\ Leading(e, Len(e)) = e
         /\ \A n \in 1..Len(e) : /\ IsList(Leading(e, n - 1))
                                 /\ Leading(e, n) = Append(Leading(e, n - 1), e[n])
<1>1. Len(e) \in Nat /\ e = [i \in 1..Len(e) |-> e[i]]
  BY LenProperties DEF IsList
<1>2. \A n \in Nat : IsList(Leading(e, n)) /\ Len(Leading(e, n)) = n /\ \A i \in 1..n : Leading(e, n)[i] = e[i]
  <2> TAKE n \in Nat
  <2>1. Leading(e, n) = [i \in 1..n |-> Leading(e, n)[i]] /\ \A i \in 1..n : Leading(e, n)[i] = e[i]
    BY DEF Leading
  <2> QED
    BY <2>1, FunctionIsList
<1>3. Leading(e, 0) = <<>>
  <2>1. IsList(Leading(e, 0)) /\ Len(Leading(e, 0)) = 0
    BY <1>2
  <2> QED
    BY <2>1 DEF IsList
<1>4. ASSUME NEW n \in 1..Len(e)
      PROVE  IsList(Leading(e, n - 1)) /\ Leading(e, n) = Append(Leading(e, n - 1), e[n])
  <2> DEFINE u == Leading(e, n - 1)
             w == Append(u, e[n])
             p == Leading(e, n)
  <2>1. n - 1 \in Nat /\ n \in Nat
    BY <1>1
  <2>2. IsList(u) /\ Len(u) = n - 1 /\ \A i \in 1..(n - 1) : u[i] = e[i]
    BY <1>2, <2>1
  <2>3. IsList(p) /\ Len(p) = n /\ \A i \in 1..n : p[i] = e[i]
    BY <1>2, <2>1
  <2> HIDE DEF u, p
  <2>4. IsList(w) /\ Len(w) = Len(u) + 1 /\ w[Len(u) + 1] = e[n] /\ \A i \in 1..Len(u) : w[i] = u[i]
    BY <2>2, Appended, AppendedEntries
  <2> HIDE DEF w
  <2>5. Len(w) = n /\ w[n] = e[n] /\ \A i \in 1..(n - 1) : w[i] = e[i]
    BY <2>1, <2>2, <2>4
  <2>6. \A i \in 1..n : w[i] = p[i]
    <3> TAKE i \in 1..n
    <3>1. i = n \/ i \in 1..(n - 1)
      BY <2>1
    <3> QED
      BY <2>3, <2>5, <3>1
  <2>7. p = w
    BY <2>3, <2>4, <2>5, <2>6, SameList
  <2> QED
    BY <2>2, <2>7 DEF u, w, p
<1>5. Leading(e, Len(e)) = e
  BY <1>1 DEF Leading
<1> QED
  BY <1>3, <1>4, <1>5

\* Three lists one after the other.
LEMMA ListsAssociate ==
  ASSUME NEW s, IsList(s), NEW t, IsList(t), NEW u, IsList(u)
  PROVE  (s \o t) \o u = s \o (t \o u)
<1> DEFINE S == Elements(s) \cup Elements(t) \cup Elements(u)
<1>1. s \in Seq(S) /\ t \in Seq(S) /\ u \in Seq(S)
  BY SeqMonotonic DEF IsList
<1> HIDE DEF S
<1> QED
  BY <1>1, ConcatAssociative

=============================================================================
