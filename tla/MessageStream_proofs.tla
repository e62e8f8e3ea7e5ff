------------------------- MODULE MessageStream_proofs -------------------------
(***************************************************************************)
(* What a consumer of the message stream can rely on, for all states, any  *)
(* number of messages and any faults of the transport.                     *)
(***************************************************************************)
EXTENDS MessageStream, SequenceTheorems, TLAPS

Operations ==
  [members : UNION {[S -> Values] : S \in SUBSET Members}, counter : Nat \cup {None}]

MessageTypes ==
  [kind : {"WORLD_SNAPSHOT", "WORLD_DELTA", "OTHER"}, seq : Nat, epoch : Nat,
   version : Nat, from : Nat \cup {None}, ops : Operations \cup {None},
   state : States \cup {None}]

Descriptions == [epoch : Nat, version : Nat, state : States]

(* The world has been at this point.                                       *)
Reached(e, v) == e < epoch \/ (e = epoch /\ v <= version)

(* The members p has are those the world had at its point.                 *)
Witnessed(p) ==
  /\ p \in Descriptions
  /\ Reached(p.epoch, p.version)
  /\ p.epoch = epoch /\ p.version = version => p.state.members = state.members

(* What a message says of the world is true.                               *)
Genuine ==
  {m \in MessageTypes :
     /\ Reached(m.epoch, m.version)
     /\ m.kind # "OTHER" =>
          /\ m.state \in States
          /\ [epoch |-> m.epoch, version |-> m.version, state |-> m.state] \in past
     /\ m.kind = "WORLD_DELTA" =>
          /\ m.from \in Nat /\ m.version = m.from + 1
          /\ \E before \in States :
               /\ m.ops = Difference(before, m.state)
               /\ \A p \in past : p.epoch = m.epoch /\ p.version = m.from =>
                    p.state.members = before.members}

Holdings ==
  [epoch : Nat \cup {None}, version : Nat \cup {None}, state : States \cup {None}]

(* The world and the transport.                                            *)
StreamInv ==
  /\ epoch \in Nat /\ version \in Nat /\ sequence \in Nat
  /\ state \in States
  /\ \A p \in past : Witnessed(p)
  /\ emitted \in Seq(Genuine)
  /\ channel \in Seq(Genuine)

-----------------------------------------------------------------------------
(* Deltas.                                                                 *)

(* A delta between two states has the form of one.                         *)
LEMMA DifferenceType ==
  ASSUME NEW before \in States, NEW after \in States
  PROVE  Difference(before, after) \in Operations
<1> DEFINE S == {g \in Members : before.members[g] # after.members[g]}
<1>1. [f \in S |-> after.members[f]] \in [S -> Values]
  BY DEF States
<1>2. S \in SUBSET Members
  OBVIOUS
<1>3. [f \in S |-> after.members[f]] \in UNION {[T -> Values] : T \in SUBSET Members}
  BY <1>1, <1>2
<1> QED BY <1>3 DEF Difference, Operations, States

(* A delta turns whatever has the members of the state it starts from into *)
(* something with the members of the state it ends in.                     *)
LEMMA DeltaReproduces ==
  ASSUME NEW s \in States, NEW before \in States, NEW after \in States,
         s.members = before.members
  PROVE  /\ Apply(s, Difference(before, after)) \in States
         /\ Apply(s, Difference(before, after)).members = after.members
<1> DEFINE ops == Difference(before, after)
           new == Apply(s, ops)
<1>1. \A f \in Members : new.members[f] = after.members[f]
  BY DEF Apply, Difference, States
<1>2. new.members = [f \in Members |-> new.members[f]]
  BY DEF Apply
<1>3. after.members = [f \in Members |-> after.members[f]]
  BY DEF States
<1>4. new.members = after.members
  BY <1>1, <1>2, <1>3
<1>5. new.counter \in Nat
  BY DEF Apply, Difference, States
<1>6. new = [members |-> new.members, counter |-> new.counter]
  BY DEF Apply
<1> QED BY <1>4, <1>5, <1>6 DEF States

-----------------------------------------------------------------------------
(* The world's steps.                                                      *)

(* What was said of the past stays true when the world moves on and        *)
(* describes the state it has come to.                                     *)
LEMMA GenuineStays ==
  ASSUME StreamInv, epoch' \in Nat, version' \in Nat, state' \in States,
         \/ epoch' = epoch /\ version' = version /\ state'.members = state.members
         \/ epoch' = epoch /\ version' = version + 1
         \/ epoch' = epoch + 1,
         past' = past \/ past' = past \cup {Described(state')}
  PROVE  /\ Genuine \subseteq Genuine'
         /\ \A p \in past' : Witnessed(p)'
<1> USE DEF StreamInv
<1>1. \A e \in Nat, v \in Nat : Reached(e, v) => Reached(e, v)'
  BY DEF Reached
<1>2. \A p \in past' : Witnessed(p)'
  BY DEF Witnessed, Reached, Described, Descriptions
<1>3. ASSUME NEW m \in Genuine
      PROVE  m \in Genuine'
  <2>1. m \in MessageTypes /\ Reached(m.epoch, m.version)'
    BY <1>1 DEF Genuine, MessageTypes
  <2>2. m.kind # "OTHER" =>
          /\ m.state \in States
          /\ [epoch |-> m.epoch, version |-> m.version, state |-> m.state] \in past'
    BY DEF Genuine
  <2>3. ASSUME m.kind = "WORLD_DELTA"
        PROVE  /\ m.from \in Nat /\ m.version = m.from + 1
               /\ \E before \in States :
                    /\ m.ops = Difference(before, m.state)
                    /\ \A p \in past' : p.epoch = m.epoch /\ p.version = m.from =>
                         p.state.members = before.members
    <3>1. PICK before \in States :
            /\ m.ops = Difference(before, m.state)
            /\ \A p \in past : p.epoch = m.epoch /\ p.version = m.from =>
                 p.state.members = before.members
      BY <2>3 DEF Genuine
    <3>2. /\ m.from \in Nat /\ m.version = m.from + 1 /\ m.epoch \in Nat
          /\ Reached(m.epoch, m.version)
      BY <2>3 DEF Genuine, MessageTypes
    <3>3. ~(m.epoch = epoch' /\ m.from = version')
      BY <3>2 DEF Reached
    <3>4. \A p \in past' : p.epoch = m.epoch /\ p.version = m.from => p \in past
      BY <3>3 DEF Described
    <3> QED BY <3>1, <3>2, <3>4
  <2> QED BY <2>1, <2>2, <2>3 DEF Genuine
<1> QED BY <1>2, <1>3

(* Emitting genuine messages keeps the transport's messages genuine.       *)
LEMMA EmitGenuine ==
  ASSUME StreamInv, Genuine \subseteq Genuine', NEW ms \in Seq(Genuine'), Emit(ms)
  PROVE  /\ sequence' \in Nat
         /\ emitted' \in Seq(Genuine') /\ channel' \in Seq(Genuine')
<1>1. emitted \in Seq(Genuine') /\ channel \in Seq(Genuine')
  BY SeqMonotonic DEF StreamInv
<1>2. sequence' \in Nat
  BY DEF Emit, StreamInv
<1> QED BY <1>1, <1>2, ConcatProperties DEF Emit

(* A commit announces what it did; scheduling an event does too, but for   *)
(* the counter.                                                            *)
LEMMA CommitStep ==
  ASSUME StreamInv, NEW before \in States, before.members = state.members,
         state' \in States, epoch' = epoch, version' = version + 1,
         past' = past \cup {Described(state')},
         Emit(<<Delta(sequence + 1, before, state')>>)
  PROVE  StreamInv'
<1> USE DEF StreamInv
<1> DEFINE m == Delta(sequence + 1, before, state')
<1>1. Genuine \subseteq Genuine' /\ \A p \in past' : Witnessed(p)'
  BY GenuineStays
<1>2. m \in MessageTypes
  BY DifferenceType DEF Delta, MessageTypes
<1>3. \A p \in past' : p.epoch = m.epoch /\ p.version = m.from =>
        p.state.members = before.members
  BY DEF Delta, Described, Witnessed
<1>4. m \in Genuine'
  BY <1>2, <1>3 DEF Genuine, Delta, Reached, Described
<1>5. <<m>> \in Seq(Genuine')
  BY <1>4
<1>6. sequence' \in Nat /\ emitted' \in Seq(Genuine') /\ channel' \in Seq(Genuine')
  BY <1>1, <1>5, EmitGenuine
<1> QED BY <1>1, <1>6

(* A snapshot is of the state the world has.                               *)
LEMMA SnapshotStep ==
  ASSUME StreamInv, EmitSnapshot
  PROVE  StreamInv'
<1> USE DEF StreamInv
<1> DEFINE m == Snapshot(sequence + 1, state)
<1>1. UNCHANGED <<epoch, version, state>> /\ past' = past \cup {Described(state')}
  BY DEF EmitSnapshot
<1>2. Genuine \subseteq Genuine' /\ \A p \in past' : Witnessed(p)'
  BY <1>1, GenuineStays
<1>3. m \in Genuine'
  BY <1>1 DEF Genuine, Snapshot, MessageTypes, Reached, Described
<1>4. <<m>> \in Seq(Genuine')
  BY <1>3
<1>5. sequence' \in Nat /\ emitted' \in Seq(Genuine') /\ channel' \in Seq(Genuine')
  BY <1>2, <1>4, EmitGenuine DEF EmitSnapshot
<1> QED BY <1>1, <1>2, <1>5

(* Any other message says nothing of the state.                            *)
LEMMA OtherStep ==
  ASSUME StreamInv, EmitOther
  PROVE  StreamInv'
<1> USE DEF StreamInv
<1>1. UNCHANGED <<epoch, version, state, past>>
  BY DEF EmitOther
<1>2. Genuine \subseteq Genuine' /\ \A p \in past' : Witnessed(p)'
  BY <1>1, GenuineStays
<1>3. Other(sequence + 1) \in Genuine'
  BY <1>1 DEF Genuine, Other, MessageTypes, Reached
<1>4. <<Other(sequence + 1)>> \in Seq(Genuine')
  BY <1>3
<1>5. sequence' \in Nat /\ emitted' \in Seq(Genuine') /\ channel' \in Seq(Genuine')
  BY <1>2, <1>4, EmitGenuine DEF EmitOther
<1> QED BY <1>1, <1>2, <1>5

(* A load opens an epoch that no message has spoken of.                    *)
LEMMA RestoreStep ==
  ASSUME StreamInv, NEW s \in States, Restore(s)
  PROVE  StreamInv'
<1> USE DEF StreamInv
<1> DEFINE m == Other(sequence + 1)
           n == Snapshot(sequence + 2, s)
<1>1. /\ epoch' = epoch + 1 /\ version' = 0 /\ state' = s
      /\ past' = past \cup {Described(state')}
  BY DEF Restore
<1>2. Genuine \subseteq Genuine' /\ \A p \in past' : Witnessed(p)'
  BY <1>1, GenuineStays
<1>3. m \in Genuine'
  BY <1>1 DEF Genuine, Other, MessageTypes, Reached
<1>4. n \in Genuine'
  BY <1>1 DEF Genuine, Snapshot, MessageTypes, Reached, Described
<1>5. <<m, n>> \in Seq(Genuine')
  BY <1>3, <1>4
<1>6. sequence' \in Nat /\ emitted' \in Seq(Genuine') /\ channel' \in Seq(Genuine')
  BY <1>2, <1>5, EmitGenuine DEF Restore
<1> QED BY <1>1, <1>2, <1>6

(* A fault of the transport makes no message up.                           *)
LEMMA FaultStep ==
  ASSUME StreamInv, Duplicate \/ DropNext \/ ReorderNextTwo
  PROVE  StreamInv'
<1> USE DEF StreamInv
<1>1. UNCHANGED <<worldVars, emitted, past>> /\ Genuine' = Genuine
  BY DEF Duplicate, DropNext, ReorderNextTwo, Disturb, worldVars, Genuine, Reached
<1>2. channel' \in Seq(Genuine)
  <2>1. CASE Duplicate
    <3>1. PICK i \in DOMAIN emitted : channel' = Append(channel, emitted[i])
      BY <2>1 DEF Duplicate
    <3> QED BY <3>1, ElementOfSeq, LenProperties, AppendProperties
  <2>2. CASE DropNext
    BY <2>2, HeadTailProperties DEF DropNext
  <2>3. CASE ReorderNextTwo
    <3>1. channel[1] \in Genuine /\ channel[2] \in Genuine /\ Len(channel) \in Nat
      BY <2>3, ElementOfSeq, LenProperties DEF ReorderNextTwo
    <3>2. <<channel[2], channel[1]>> \in Seq(Genuine)
      BY <3>1
    <3>3. \A i \in 3..Len(channel) : channel[i] \in Genuine
      BY ElementOfSeq, LenProperties
    <3>4. SubSeq(channel, 3, Len(channel)) \in Seq(Genuine)
      BY <3>1, <3>3, SubSeqProperties
    <3> QED BY <2>3, <3>2, <3>4, ConcatProperties DEF ReorderNextTwo
  <2> QED BY <2>1, <2>2, <2>3
<1>3. \A p \in past' : Witnessed(p)'
  BY <1>1 DEF Witnessed, Reached, worldVars
<1> QED BY <1>1, <1>2, <1>3 DEF worldVars

(* The consumer takes a genuine message off the transport.                 *)
LEMMA ConsumeStep ==
  ASSUME StreamInv, Consume
  PROVE  StreamInv' /\ Head(channel) \in Genuine
<1> USE DEF StreamInv
<1>1. UNCHANGED <<worldVars, emitted, past>> /\ Genuine' = Genuine
  BY DEF Consume, worldVars, Genuine, Reached
<1>2. Head(channel) \in Genuine /\ channel' \in Seq(Genuine)
  BY HeadTailProperties DEF Consume
<1>3. \A p \in past' : Witnessed(p)'
  BY <1>1 DEF Witnessed, Reached, worldVars
<1> QED BY <1>1, <1>2, <1>3 DEF worldVars

(* Everything in the transport is true of the world's past, always.        *)
LEMMA StreamStep == StreamInv /\ [Next]_vars => StreamInv'
<1> SUFFICES ASSUME StreamInv, [Next]_vars
             PROVE  StreamInv'
  OBVIOUS
<1> USE DEF StreamInv
<1>1. ASSUME NEW new \in [Members -> Values], Commit(new)
      PROVE  StreamInv'
  BY <1>1, CommitStep DEF Commit, States
<1>2. ASSUME NEW new \in [Members -> Values], ScheduleWorldEvent(new)
      PROVE  StreamInv'
  <2> DEFINE before == [state EXCEPT !.counter = @ + 1]
  <2>1. before = [members |-> state.members, counter |-> state.counter + 1]
    BY DEF States
  <2>2. before \in States /\ before.members = state.members
    BY <2>1 DEF States
  <2>3. state' \in States
    BY <1>2 DEF ScheduleWorldEvent, States
  <2> QED BY <1>2, <2>2, <2>3, CommitStep DEF ScheduleWorldEvent
<1>3. ASSUME NEW new \in [Members -> Values], NEW n \in 0..sequence,
             Restore([members |-> new, counter |-> n])
      PROVE  StreamInv'
  <2>1. [members |-> new, counter |-> n] \in States
    BY DEF States
  <2> QED BY <1>3, <2>1, RestoreStep
<1>4. CASE UNCHANGED vars
  BY <1>4 DEF vars, worldVars, Genuine, Witnessed, Reached
<1> QED BY <1>1, <1>2, <1>3, <1>4, SnapshotStep, OtherStep, FaultStep, ConsumeStep DEF Next

-----------------------------------------------------------------------------
(* The consumer.                                                           *)

(* What the consumer holds, errors or not.                                 *)
HoldsTruth ==
  /\ current \in Holdings
  /\ ReplicaAuthentic
  /\ CleanIsExact

(* A state held through a message is the one held before it.               *)
LEMMA HeldIsCurrent ==
  ASSUME StreamInv, HoldsTruth, NEW m \in Genuine, Held(m).state # None
  PROVE  /\ Held(m) = current
         /\ current.epoch = m.epoch /\ current.state \in States
<1>1. m.epoch \in Nat
  BY DEF Genuine, MessageTypes
<1>2. current.state # None
  BY <1>1 DEF Held, HoldsTruth, Holdings
<1>3. PICK p \in past : p.epoch = current.epoch
  BY <1>2 DEF HoldsTruth, ReplicaAuthentic
<1>4. current.epoch \in Nat
  BY <1>3 DEF StreamInv, Witnessed, Descriptions
<1>5. current.epoch = m.epoch
  BY <1>4, NoneIsNoState DEF Held
<1>6. [current EXCEPT !.epoch = m.epoch] = current
  BY <1>5 DEF HoldsTruth, Holdings
<1> QED BY <1>2, <1>5, <1>6 DEF Held, HoldsTruth, Holdings

(* Passing a message over, or a delta that does not fit, at most makes the *)
(* consumer forget what it holds.                                          *)
LEMMA PassedOver ==
  ASSUME StreamInv, HoldsTruth, NEW m \in Genuine, past' = past,
         current' = Held(m), errors \subseteq errors'
  PROVE  HoldsTruth'
<1>1. current' \in Holdings
  BY DEF Held, HoldsTruth, Holdings, Genuine, MessageTypes
<1>2. CASE Held(m).state = None
  BY <1>1, <1>2 DEF HoldsTruth, ReplicaAuthentic, CleanIsExact
<1>3. CASE Held(m).state # None
  <2>1. current' = current
    BY <1>3, HeldIsCurrent
  <2> QED BY <1>1, <2>1 DEF HoldsTruth, ReplicaAuthentic, CleanIsExact
<1> QED BY <1>2, <1>3

(* A snapshot is what it says it is.                                       *)
LEMMA SnapshotTaken ==
  ASSUME NEW m \in Genuine, past' = past, TakeSnapshot(m)
  PROVE  HoldsTruth'
<1>1. /\ m.state \in States
      /\ [epoch |-> m.epoch, version |-> m.version, state |-> m.state] \in past
  BY DEF Genuine, TakeSnapshot
<1>2. current' = [epoch |-> m.epoch, version |-> m.version, state |-> m.state]
  BY DEF TakeSnapshot
<1>3. current' \in Holdings
  BY <1>1, <1>2 DEF Holdings, Genuine, MessageTypes
<1> QED BY <1>1, <1>2, <1>3 DEF HoldsTruth, ReplicaAuthentic, CleanIsExact

(* A delta that starts from the version held leads to the state the world  *)
(* had afterwards; if the digests agree, to the event counter as well.     *)
LEMMA DeltaTaken ==
  ASSUME StreamInv, HoldsTruth, NEW m \in Genuine, past' = past, TakeDelta(m)
  PROVE  HoldsTruth'
<1> DEFINE new == Apply(current.state, m.ops)
<1>1. m.kind = "WORLD_DELTA" /\ Held(m).state # None /\ m.from = Held(m).version
  BY DEF TakeDelta, Fits
<1>2. /\ Held(m) = current /\ current.epoch = m.epoch /\ current.version = m.from
      /\ current.state \in States /\ current.state # None
  BY <1>1, HeldIsCurrent
<1>3. current' = [epoch |-> m.epoch, version |-> m.version, state |-> new]
  BY <1>2 DEF TakeDelta
<1>4. /\ m.state \in States
      /\ [epoch |-> m.epoch, version |-> m.version, state |-> m.state] \in past
  BY <1>1 DEF Genuine
<1>5. PICK before \in States :
        /\ m.ops = Difference(before, m.state)
        /\ \A p \in past : p.epoch = m.epoch /\ p.version = m.from =>
             p.state.members = before.members
  BY <1>1 DEF Genuine
<1>6. current.state.members = before.members
  BY <1>2, <1>5 DEF HoldsTruth, ReplicaAuthentic
<1>7. new \in States /\ new.members = m.state.members
  BY <1>2, <1>4, <1>5, <1>6, DeltaReproduces
<1>8. current' \in Holdings
  BY <1>3, <1>7 DEF Holdings, Genuine, MessageTypes
<1>9. ReplicaAuthentic'
  BY <1>3, <1>4, <1>7 DEF ReplicaAuthentic
<1>10. errors' = {} => new = m.state
  BY <1>3 DEF TakeDelta, Matches
<1>11. CleanIsExact'
  BY <1>3, <1>4, <1>10 DEF CleanIsExact
<1> QED BY <1>8, <1>9, <1>11 DEF HoldsTruth

(* The world's steps and the transport's faults do not touch the consumer. *)
LEMMA HoldsTruthStep == StreamInv /\ HoldsTruth /\ [Next]_vars => HoldsTruth'
<1> SUFFICES ASSUME StreamInv, HoldsTruth, [Next]_vars
             PROVE  HoldsTruth'
  OBVIOUS
<1>1. CASE UNCHANGED <<current, errors>> /\ past \subseteq past'
  BY <1>1 DEF HoldsTruth, ReplicaAuthentic, CleanIsExact
<1>2. CASE Consume
  <2> DEFINE m == Head(channel)
  <2>1. m \in Genuine /\ past' = past
    BY <1>2, ConsumeStep DEF Consume
  <2>2. TakeSnapshot(m) \/ TakeDelta(m) \/ SkipDelta(m) \/ PassOver(m)
    BY <1>2 DEF Consume
  <2>3. CASE SkipDelta(m) \/ PassOver(m)
    BY <2>1, <2>3, PassedOver DEF SkipDelta, PassOver
  <2> QED BY <2>1, <2>2, <2>3, SnapshotTaken, DeltaTaken
<1> QED BY <1>1, <1>2
        DEF Next, vars, consumer, Commit, ScheduleWorldEvent, EmitSnapshot, EmitOther,
            Restore, Emit, Duplicate, DropNext, ReorderNextTwo, Disturb

(* At first nothing is in the transport and the consumer holds nothing.    *)
LEMMA InitStream == Init => StreamInv /\ HoldsTruth
<1> SUFFICES ASSUME Init
             PROVE  StreamInv /\ HoldsTruth
  OBVIOUS
<1>1. state \in States
  BY DEF Init, States
<1>2. StreamInv
  BY <1>1 DEF Init, StreamInv
<1>3. HoldsTruth
  BY DEF Init, HoldsTruth, Holdings, ReplicaAuthentic, CleanIsExact
<1> QED BY <1>2, <1>3

(* Whatever is lost, repeated or reordered, a consumer never holds a state *)
(* the world did not have at that version, the event counter apart.        *)
THEOREM NeverWrong == Spec => []ReplicaAuthentic
<1>1. StreamInv /\ HoldsTruth /\ [Next]_vars => (StreamInv /\ HoldsTruth)'
  BY StreamStep, HoldsTruthStep
<1>2. StreamInv /\ HoldsTruth => ReplicaAuthentic
  BY DEF HoldsTruth
<1> QED BY InitStream, <1>1, <1>2, PTL DEF Spec

(* A consumer that has reported no error holds exactly a state the world   *)
(* has had and described.                                                  *)
THEOREM CleanNeverWrong == Spec => []CleanIsExact
<1>1. StreamInv /\ HoldsTruth /\ [Next]_vars => (StreamInv /\ HoldsTruth)'
  BY StreamStep, HoldsTruthStep
<1>2. StreamInv /\ HoldsTruth => CleanIsExact
  BY DEF HoldsTruth
<1> QED BY InitStream, <1>1, <1>2, PTL DEF Spec

-----------------------------------------------------------------------------
(* Missing, repeated and reordered messages.                               *)

(* The consumer remembers the last number it has taken.                    *)
Counted ==
  /\ consumed \in Seq(Nat)
  /\ previous = IF consumed = <<>> THEN None ELSE consumed[Len(consumed)]
  /\ CleanIsComplete

(* While nothing is reported, each number taken follows the one before.    *)
LEMMA CountedStep == StreamInv /\ Counted /\ [Next]_vars => Counted'
<1> SUFFICES ASSUME StreamInv, Counted, [Next]_vars
             PROVE  Counted'
  OBVIOUS
<1>1. CASE UNCHANGED consumer
  BY <1>1 DEF Counted, CleanIsComplete, consumer
<1>2. CASE Consume
  <2> DEFINE m == Head(channel)
  <2>1. m.seq \in Nat /\ previous' = m.seq /\ consumed' = Append(consumed, m.seq)
    BY <1>2, ConsumeStep DEF Consume, Genuine, MessageTypes
  <2>2. /\ consumed' \in Seq(Nat) /\ Len(consumed') = Len(consumed) + 1
        /\ \A i \in 1..Len(consumed) : consumed'[i] = consumed[i]
        /\ consumed'[Len(consumed) + 1] = m.seq
        /\ Len(consumed) \in Nat /\ DOMAIN consumed = 1..Len(consumed)
        /\ DOMAIN consumed' = 1..(Len(consumed) + 1) /\ consumed' # <<>>
    BY <2>1, AppendProperties, LenProperties DEF Counted
  <2>3. errors' = {} => errors = {} /\ (previous = None \/ m.seq = previous + 1)
    BY <1>2 DEF Consume, TakeSnapshot, TakeDelta, SkipDelta, PassOver, Gaps
  <2>4. CleanIsComplete'
    <3> SUFFICES ASSUME errors' = {}, NEW i \in 1..(Len(consumed) + 1)
                 PROVE  consumed'[i] = consumed'[1] + i - 1
      BY <2>2 DEF CleanIsComplete
    <3>1. \A j \in 1..Len(consumed) : consumed[j] = consumed[1] + j - 1
      BY <2>2, <2>3 DEF Counted, CleanIsComplete
    <3>2. CASE consumed = <<>>
      BY <2>2, <3>2
    <3>3. CASE consumed # <<>>
      <4>1. Len(consumed) \in 1..Len(consumed) /\ \A j \in 1..Len(consumed) : consumed[j] \in Nat
        BY <3>3, EmptySeq, ElementOfSeq DEF Counted
      <4>2. previous = consumed[Len(consumed)] /\ previous # None
        BY <3>3, <4>1, NoneIsNoState DEF Counted
      <4>3. m.seq = consumed[Len(consumed)] + 1
        BY <2>3, <4>2
      <4>4. 1 \in 1..Len(consumed) /\ consumed[1] \in Nat
        BY <2>2, <4>1
      <4>5. consumed[Len(consumed)] = consumed[1] + Len(consumed) - 1
        BY <3>1, <4>1
      <4>6. m.seq = consumed[1] + Len(consumed)
        BY <2>2, <4>3, <4>4, <4>5
      <4> QED BY <2>2, <3>1, <4>4, <4>6
    <3> QED BY <3>2, <3>3
  <2> QED BY <2>1, <2>2, <2>4 DEF Counted
<1> QED BY <1>1, <1>2
        DEF Next, vars, Commit, ScheduleWorldEvent, EmitSnapshot, EmitOther,
            Restore, Emit, Duplicate, DropNext, ReorderNextTwo, Disturb

(* A consumer that has reported no error has taken consecutive messages,   *)
(* each once and in order.                                                 *)
THEOREM CleanMissesNothing == Spec => []CleanIsComplete
<1>1. Init => StreamInv /\ Counted
  BY InitStream DEF Init, Counted, CleanIsComplete
<1>2. StreamInv /\ Counted /\ [Next]_vars => (StreamInv /\ Counted)'
  BY StreamStep, CountedStep
<1>3. StreamInv /\ Counted => CleanIsComplete
  BY DEF Counted
<1> QED BY <1>1, <1>2, <1>3, PTL DEF Spec

-----------------------------------------------------------------------------
(* A transport without faults.                                             *)

(* A message m that goes on where p, a message or a consumer, has stopped: *)
(* it is of another epoch, or starts from the version of p.                *)
Follows(p, m) ==
  m.epoch = p.epoch =>
    IF m.kind = "WORLD_DELTA" THEN m.from = p.version ELSE m.version = p.version

(* The messages c on their way are the last of n, the first follows what   *)
(* the consumer holds, each other the one before, and the world, at version *)
(* v of epoch e, is where the last of them ends.                           *)
Chain(c, n, e, v) ==
  /\ Len(c) <= n
  /\ \A i \in 1..Len(c) : c[i].seq = n - Len(c) + i
  /\ \A i \in 1..Len(c) : i # 1 => Follows(c[i - 1], c[i])
  /\ c # <<>> => c[Len(c)].epoch = e /\ c[Len(c)].version = v
  /\ current.state # None =>
       IF c = <<>> THEN current.epoch = e /\ current.version = v
                   ELSE Follows(current, c[1])
  /\ previous # None => previous = n - Len(c)

InStep ==
  /\ faults \in Nat
  /\ faults = 0 => Chain(channel, sequence, epoch, version) /\ NoFalseAlarm

(* A message with the next number, that says where it starts from.         *)
LEMMA ChainGrows ==
  ASSUME NEW S, NEW c \in Seq(S), NEW n \in Nat, NEW e, NEW v, Chain(c, n, e, v),
         NEW m \in S, m.seq = n + 1, Follows([epoch |-> e, version |-> v], m)
  PROVE  Chain(Append(c, m), n + 1, m.epoch, m.version)
<1> DEFINE d == Append(c, m)
<1>1. /\ d \in Seq(S) /\ Len(d) = Len(c) + 1 /\ Len(c) \in Nat
      /\ \A i \in 1..Len(c) : d[i] = c[i]
      /\ d[Len(c) + 1] = m /\ d # <<>>
  BY AppendProperties, LenProperties
<1>2. c = <<>> <=> Len(c) = 0
  BY EmptySeq, <1>1
<1> HIDE DEF d
<1>3. \A i \in 1..Len(d) : d[i].seq = n + 1 - Len(d) + i
  <2> SUFFICES ASSUME NEW i \in 1..Len(d)
               PROVE  d[i].seq = n + 1 - Len(d) + i
    OBVIOUS
  <2>1. n + 1 - Len(d) + i = n - Len(c) + i
    BY <1>1
  <2>2. CASE i = Len(d)
    <3>1. d[i] = m /\ n - Len(c) + i = n + 1
      BY <1>1, <2>2
    <3> QED BY <2>1, <3>1
  <2>3. CASE i # Len(d)
    <3>1. i \in 1..Len(c)
      BY <1>1, <2>3
    <3> QED BY <1>1, <2>1, <3>1 DEF Chain
  <2> QED BY <2>2, <2>3
<1>4. \A i \in 1..Len(d) : i # 1 => Follows(d[i - 1], d[i])
  <2> SUFFICES ASSUME NEW i \in 1..Len(d), i # 1
               PROVE  Follows(d[i - 1], d[i])
    OBVIOUS
  <2>1. CASE i = Len(d)
    <3>1. i - 1 = Len(c) /\ i - 1 \in 1..Len(c) /\ c # <<>>
      BY <1>1, <1>2, <2>1
    <3>2. d[i] = m /\ d[i - 1].epoch = e /\ d[i - 1].version = v
      BY <1>1, <2>1, <3>1 DEF Chain
    <3> QED BY <3>2 DEF Follows
  <2>2. CASE i # Len(d)
    <3>1. i \in 1..Len(c) /\ i - 1 \in 1..Len(c)
      BY <1>1, <2>2
    <3> QED BY <1>1, <3>1 DEF Chain
  <2> QED BY <2>1, <2>2
<1>5. current.state # None => Follows(current, d[1])
  <2>1. CASE c = <<>>
    BY <1>1, <1>2, <2>1 DEF Chain, Follows
  <2>2. CASE c # <<>>
    <3>1. 1 \in 1..Len(c)
      BY <1>1, <1>2, <2>2
    <3> QED BY <1>1, <2>2, <3>1 DEF Chain
  <2> QED BY <2>1, <2>2
<1>6. previous # None => previous = n + 1 - Len(d)
  BY <1>1 DEF Chain
<1>7. Len(d) <= n + 1
  BY <1>1 DEF Chain
<1>8. d[Len(d)].epoch = m.epoch /\ d[Len(d)].version = m.version
  BY <1>1
<1>9. Chain(d, n + 1, m.epoch, m.version)
  BY <1>1, <1>3, <1>4, <1>5, <1>6, <1>7, <1>8 DEF Chain
<1> QED BY <1>9 DEF d

(* While nothing is disturbed the consumer finds each message in its place. *)
LEMMA ConsumeInStep ==
  ASSUME StreamInv, HoldsTruth, InStep, Consume
  PROVE  InStep'
<1> DEFINE m == Head(channel)
<1>1. UNCHANGED <<epoch, version, sequence, faults>>
  BY DEF Consume, worldVars
<1> SUFFICES ASSUME faults = 0
             PROVE  Chain(channel, sequence, epoch, version)' /\ NoFalseAlarm'
  BY <1>1 DEF InStep
<1>2. Chain(channel, sequence, epoch, version) /\ NoFalseAlarm
  BY DEF InStep
<1>3. m \in Genuine
  BY ConsumeStep
<1>4. m \in MessageTypes /\ sequence \in Nat
  BY <1>3 DEF Genuine, StreamInv
<1>5. /\ channel \in Seq(Genuine) /\ channel # <<>> /\ Len(channel) \in Nat \ {0}
      /\ m = channel[1] /\ channel' = Tail(channel) /\ previous' = m.seq
      /\ Len(channel') = Len(channel) - 1
      /\ \A i \in 1..Len(channel') : channel'[i] = channel[i + 1]
      /\ channel' = <<>> <=> Len(channel') = 0
  <2>1. channel \in Seq(Genuine) /\ channel # <<>>
    BY DEF StreamInv, Consume
  <2>2. channel' = Tail(channel) /\ previous' = m.seq
    BY DEF Consume
  <2>3. /\ Tail(channel) \in Seq(Genuine) /\ Len(Tail(channel)) = Len(channel) - 1
        /\ \A i \in 1..Len(Tail(channel)) : Tail(channel)[i] = channel[i + 1]
        /\ m = channel[1]
    BY <2>1, HeadTailProperties
  <2>4. Len(channel) \in Nat \ {0} /\ (Tail(channel) = <<>> <=> Len(Tail(channel)) = 0)
    BY <2>1, <2>3, LenProperties, EmptySeq
  <2> QED BY <2>1, <2>2, <2>3, <2>4
<1>6. m.seq = sequence - Len(channel) + 1 /\ Len(channel) <= sequence
  BY <1>2, <1>5 DEF Chain
<1>7. Gaps(m) = {}
  BY <1>2, <1>4, <1>6 DEF Gaps, Chain
<1>8. Held(m).state # None =>
        /\ Held(m) = current /\ current.epoch = m.epoch /\ Follows(current, m)
  BY <1>2, <1>3, <1>5, HeldIsCurrent DEF Chain
<1>9. /\ errors' \cap {"SEQUENCE_GAP", "VERSION_GAP"} = {}
      /\ current'.state # None => current'.epoch = m.epoch /\ current'.version = m.version
  <2>1. errors \cap {"SEQUENCE_GAP", "VERSION_GAP"} = {}
    BY <1>2 DEF NoFalseAlarm
  <2>2. CASE TakeSnapshot(m)
    BY <1>7, <2>1, <2>2 DEF TakeSnapshot
  <2>3. CASE TakeDelta(m)
    BY <1>7, <2>1, <2>3 DEF TakeDelta
  <2>4. CASE SkipDelta(m)
    <3>1. Held(m).state = None
      BY <1>8, <2>4 DEF SkipDelta, Fits, Follows
    <3> QED BY <1>7, <2>1, <2>4, <3>1 DEF SkipDelta
  <2>5. CASE PassOver(m)
    <3>1. m.kind # "WORLD_DELTA" /\ current' = Held(m) /\ errors' = errors
      BY <1>7, <2>5 DEF PassOver
    <3> QED BY <1>8, <2>1, <3>1 DEF Follows
  <2> QED BY <2>2, <2>3, <2>4, <2>5 DEF Consume
<1>10. \A i \in 1..Len(channel') : channel'[i].seq = sequence - Len(channel') + i
  BY <1>2, <1>4, <1>5 DEF Chain
<1>11. \A i \in 1..Len(channel') : i # 1 => Follows(channel'[i - 1], channel'[i])
  <2> SUFFICES ASSUME NEW i \in 1..Len(channel'), i # 1
               PROVE  Follows(channel'[i - 1], channel'[i])
    OBVIOUS
  <2>1. i + 1 \in 1..Len(channel) /\ i - 1 \in 1..Len(channel') /\ i - 1 + 1 = i
    BY <1>5
  <2>2. Follows(channel[i], channel[i + 1])
    <3>1. i + 1 # 1 /\ i + 1 - 1 = i
      BY <2>1
    <3> QED BY <1>2, <2>1, <3>1 DEF Chain
  <2> QED BY <1>5, <2>1, <2>2
<1>12. channel' # <<>> => /\ channel'[Len(channel')].epoch = epoch
                          /\ channel'[Len(channel')].version = version
  BY <1>2, <1>5 DEF Chain
<1>13. current'.state # None =>
         IF channel' = <<>> THEN current'.epoch = epoch /\ current'.version = version
                            ELSE Follows(current', channel'[1])
  <2>1. CASE channel' = <<>>
    <3>1. Len(channel) = 1
      BY <1>5, <2>1
    <3> QED BY <1>2, <1>5, <1>9, <2>1, <3>1 DEF Chain
  <2>2. CASE channel' # <<>>
    <3>1. 2 \in 1..Len(channel) /\ channel'[1] = channel[2]
      BY <1>5, <2>2
    <3>2. Follows(m, channel'[1])
      <4>1. 2 # 1 /\ 2 - 1 = 1
        OBVIOUS
      <4> QED BY <1>2, <1>5, <3>1, <4>1 DEF Chain
    <3> QED BY <1>9, <2>2, <3>2 DEF Follows
  <2> QED BY <2>1, <2>2
<1>14. previous' = sequence - Len(channel') /\ Len(channel') <= sequence
  BY <1>4, <1>5, <1>6
<1> QED BY <1>1, <1>9, <1>10, <1>11, <1>12, <1>13, <1>14 DEF Chain, NoFalseAlarm

(* The world numbers its messages and says where each of them starts from. *)
LEMMA InStepStep == StreamInv /\ HoldsTruth /\ InStep /\ [Next]_vars => InStep'
<1> SUFFICES ASSUME StreamInv, HoldsTruth, InStep, [Next]_vars
             PROVE  InStep'
  OBVIOUS
<1> DEFINE here == [epoch |-> epoch, version |-> version]
<1>1. /\ channel \in Seq(Genuine) /\ epoch \in Nat /\ version \in Nat /\ sequence \in Nat
      /\ faults \in Nat
  BY DEF StreamInv, InStep
<1>2. ASSUME NEW m, m.seq = sequence + 1, Follows(here, m),
             m.epoch = epoch', m.version = version', Emit(<<m>>)
      PROVE  InStep'
  <2>1. /\ channel' = Append(channel, m) /\ sequence' = sequence + 1
        /\ UNCHANGED <<current, previous, errors, faults>>
    <3>1. channel \o <<m>> = Append(channel, m) /\ Len(<<m>>) = 1
      BY <1>1
    <3> QED BY <1>2, <3>1 DEF Emit, consumer
  <2>2. ASSUME faults = 0
        PROVE  Chain(channel', sequence', epoch', version')
    <3>1. channel \in Seq(Genuine \cup {m}) /\ m \in Genuine \cup {m}
      BY <1>1
    <3>2. Chain(channel, sequence, epoch, version)
      BY <2>2 DEF InStep
    <3> QED BY <1>1, <1>2, <2>1, <3>1, <3>2, ChainGrows
  <2> QED BY <1>1, <2>1, <2>2 DEF InStep, NoFalseAlarm, Chain
<1>3. ASSUME NEW new \in [Members -> Values], Commit(new)
      PROVE  InStep'
  BY <1>2, <1>3 DEF Commit, Delta, Follows
<1>4. ASSUME NEW new \in [Members -> Values], ScheduleWorldEvent(new)
      PROVE  InStep'
  BY <1>2, <1>4 DEF ScheduleWorldEvent, Delta, Follows
<1>5. CASE EmitSnapshot
  BY <1>2, <1>5 DEF EmitSnapshot, Snapshot, Follows
<1>6. CASE EmitOther
  BY <1>2, <1>6 DEF EmitOther, Other, Follows
<1>7. ASSUME NEW s, Restore(s)
      PROVE  InStep'
  <2> DEFINE a == Other(sequence + 1)
             b == Snapshot(sequence + 2, s)
             there == [epoch |-> epoch + 1, version |-> 0]
             S == Genuine \cup {a, b}
  <2>1. /\ epoch' = epoch + 1 /\ version' = 0
        /\ UNCHANGED <<current, previous, errors, faults>>
    BY <1>7 DEF Restore, Emit, consumer
  <2>2. channel' = Append(Append(channel, a), b) /\ sequence' = sequence + 1 + 1
    <3>1. Append(channel, a) = channel \o <<a>> /\ Len(<<a, b>>) = 2
      BY <1>1
    <3>2. channel \o <<a, b>> = Append(Append(channel, a), b)
      BY <1>1
    <3>3. channel' = channel \o <<a, b>> /\ sequence' = sequence + Len(<<a, b>>)
      BY <1>7 DEF Restore, Emit
    <3> HIDE DEF a, b
    <3> QED BY <1>1, <3>1, <3>2, <3>3
  <2>3. /\ a.seq = sequence + 1 /\ a.epoch = epoch + 1 /\ a.version = 0
        /\ b.seq = sequence + 1 + 1 /\ b.epoch = epoch + 1 /\ b.version = 0
        /\ Follows(here, a) /\ Follows(there, b)
    BY <1>1, <2>1 DEF Other, Snapshot, Follows
  <2>4. channel \in Seq(S) /\ a \in S /\ b \in S /\ Append(channel, a) \in Seq(S)
    BY <1>1, AppendProperties
  <2> HIDE DEF a, b, S
  <2>5. ASSUME faults = 0
        PROVE  Chain(channel', sequence', epoch', version')
    <3>1. Chain(channel, sequence, epoch, version)
      BY <2>5 DEF InStep
    <3>2. Chain(Append(channel, a), sequence + 1, epoch + 1, 0)
      BY <1>1, <2>3, <2>4, <3>1, ChainGrows
    <3>3. sequence + 1 \in Nat
      BY <1>1
    <3>4. Chain(Append(Append(channel, a), b), sequence + 1 + 1, epoch + 1, 0)
      BY <2>3, <2>4, <3>2, <3>3, ChainGrows
    <3> QED BY <2>1, <2>2, <3>4
  <2> QED BY <1>1, <2>1, <2>5 DEF InStep, NoFalseAlarm, Chain
<1>8. CASE Duplicate \/ DropNext \/ ReorderNextTwo
  <2>1. faults' = faults + 1
    BY <1>8 DEF Duplicate, DropNext, ReorderNextTwo, Disturb
  <2> QED BY <1>1, <2>1 DEF InStep
<1>9. CASE UNCHANGED vars
  BY <1>9 DEF vars, worldVars, consumer, InStep, NoFalseAlarm, Chain
<1> QED BY <1>3, <1>4, <1>5, <1>6, <1>7, <1>8, <1>9, ConsumeInStep DEF Next

(* Without a fault of the transport a consumer never reports a gap, however *)
(* many commits, loads and other messages there have been.                 *)
THEOREM FaultlessIsQuiet == Spec => []NoFalseAlarm
<1>1. Init => StreamInv /\ HoldsTruth /\ InStep
  <2>1. Init => InStep
    BY DEF Init, InStep, NoFalseAlarm, Chain
  <2> QED BY <2>1, InitStream
<1>2. StreamInv /\ HoldsTruth /\ InStep /\ [Next]_vars => (StreamInv /\ HoldsTruth /\ InStep)'
  BY StreamStep, HoldsTruthStep, InStepStep
<1>3. InStep => NoFalseAlarm
  BY DEF InStep, NoFalseAlarm
<1> QED BY <1>1, <1>2, <1>3, PTL DEF Spec
=============================================================================
