---------------------------- MODULE MessageStream ----------------------------
(***************************************************************************)
(* The message stream of the headless world: what _emit and _commit put on *)
(* it (bridge/headless_world.py), the faults InMemoryTransport can inject, *)
(* and replay_message_stream (bridge/transport.py) as its consumer, one    *)
(* message at a time.                                                      *)
(*                                                                         *)
(* A gameplay state is a function from the members of its JSON form, those *)
(* of nested objects included, to values, beside the event counter: the    *)
(* one member that moves outside a commit.  A member that is absent has a  *)
(* value of its own.  The digest of a state is the state.                  *)
(***************************************************************************)
EXTENDS Integers, Sequences

CONSTANTS
  None,         \* Python's None
  Members,      \* the members of the gameplay state but the event counter
  Values,       \* their values
  MaxMessages,  \* bound: messages the world emits
  MaxFaults,    \* bound: faults injected
  MaxEpoch      \* bound: loads and resets

States == [members : [Members -> Values], counter : Nat]

ASSUME NoneIsNoState == None \notin States /\ None \notin Nat

VARIABLES
  epoch,      \* _epoch_counter
  version,    \* world_version
  state,      \* gameplay_state()
  sequence,   \* _sequence
  emitted,    \* InMemoryTransport.sent
  channel,    \* InMemoryTransport._queue
  previous,   \* the consumer's previous_sequence
  current,    \* the consumer's current_epoch, current_version and state
  errors,     \* the kinds of error the consumer has reported
  past,       \* history: the states that deltas and snapshots have described
  consumed,   \* history: the sequence numbers the consumer has taken
  faults      \* history: how many faults have been injected

worldVars == <<epoch, version, state, sequence>>
consumer == <<previous, current, errors, consumed>>
vars == <<worldVars, emitted, channel, consumer, past, faults>>

-----------------------------------------------------------------------------
(* Messages.                                                               *)

(* json_diff: the members that differ, with their new values.              *)
Difference(before, after) ==
  [members |-> [f \in {g \in Members : before.members[g] # after.members[g]}
                  |-> after.members[f]],
   counter |-> IF before.counter = after.counter THEN None ELSE after.counter]

(* apply_json_operations: the others stay as they are.                     *)
Apply(s, ops) ==
  [members |-> [f \in Members |-> IF f \in DOMAIN ops.members THEN ops.members[f]
                                                             ELSE s.members[f]],
   counter |-> IF ops.counter = None THEN s.counter ELSE ops.counter]

Described(s) == [epoch |-> epoch', version |-> version', state |-> s]

Snapshot(n, s) ==
  [kind |-> "WORLD_SNAPSHOT", seq |-> n, epoch |-> epoch', version |-> version',
   from |-> None, ops |-> None, state |-> s]

Delta(n, before, after) ==
  [kind |-> "WORLD_DELTA", seq |-> n, epoch |-> epoch', version |-> version',
   from |-> version, ops |-> Difference(before, after), state |-> after]

Other(n) ==
  [kind |-> "OTHER", seq |-> n, epoch |-> epoch', version |-> version',
   from |-> None, ops |-> None, state |-> None]

(* _emit, for the messages of one call.                                    *)
Emit(ms) ==
  /\ sequence + Len(ms) <= MaxMessages
  /\ sequence' = sequence + Len(ms)
  /\ emitted' = emitted \o ms
  /\ channel' = channel \o ms
  /\ UNCHANGED <<consumer, faults>>

Init ==
  /\ epoch = 1 /\ version = 0 /\ sequence = 0
  /\ \E f \in [Members -> Values] : state = [members |-> f, counter |-> 0]
  /\ emitted = <<>> /\ channel = <<>>
  /\ previous = None
  /\ current = [epoch |-> None, version |-> None, state |-> None]
  /\ errors = {} /\ consumed = <<>>
  /\ past = {} /\ faults = 0

-----------------------------------------------------------------------------
(* The world.                                                              *)

(* _commit of a mutation that changes something.                           *)
Commit(new) ==
  /\ new # state.members
  /\ state' = [state EXCEPT !.members = new]
  /\ version' = version + 1
  /\ UNCHANGED epoch
  /\ past' = past \cup {Described(state')}
  /\ Emit(<<Delta(sequence + 1, state, state')>>)

(* schedule_world_event: the counter moves before _commit takes the state  *)
(* it compares with; the scheduler, one of the members, always changes.    *)
ScheduleWorldEvent(new) ==
  /\ new # state.members
  /\ state' = [members |-> new, counter |-> state.counter + 1]
  /\ version' = version + 1
  /\ UNCHANGED epoch
  /\ past' = past \cup {Described(state')}
  /\ Emit(<<Delta(sequence + 1, [state EXCEPT !.counter = @ + 1], state')>>)

(* emit_snapshot.                                                          *)
EmitSnapshot ==
  /\ UNCHANGED <<epoch, version, state>>
  /\ past' = past \cup {Described(state)}
  /\ Emit(<<Snapshot(sequence + 1, state)>>)

(* Acknowledgements, errors, dialogue turns.                               *)
EmitOther ==
  /\ UNCHANGED <<epoch, version, state, past>>
  /\ Emit(<<Other(sequence + 1)>>)

\* An epoch that numbers its messages from one again.
Restore_Renumbers(s) ==
  /\ epoch < MaxEpoch
  /\ epoch' = epoch + 1
  /\ version' = 0
  /\ state' = s
  /\ past' = past \cup {Described(s)}
  /\ sequence' = 2
  /\ emitted' = emitted \o <<Other(1), Snapshot(2, s)>>
  /\ channel' = channel \o <<Other(1), Snapshot(2, s)>>
  /\ UNCHANGED <<consumer, faults>>

(* load_save and reset: a message of the new epoch, then its snapshot.     *)
Restore(s) ==
  /\ epoch < MaxEpoch
  /\ epoch' = epoch + 1
  /\ version' = 0
  /\ state' = s
  /\ past' = past \cup {Described(s)}
  /\ Emit(<<Other(sequence + 1), Snapshot(sequence + 2, s)>>)

-----------------------------------------------------------------------------
(* The transport's faults.                                                 *)

Disturb ==
  /\ faults < MaxFaults
  /\ faults' = faults + 1
  /\ UNCHANGED <<worldVars, emitted, consumer, past>>

Duplicate ==
  /\ \E i \in DOMAIN emitted : channel' = Append(channel, emitted[i])
  /\ Disturb

DropNext ==
  /\ channel # <<>>
  /\ channel' = Tail(channel)
  /\ Disturb

ReorderNextTwo ==
  /\ Len(channel) >= 2
  /\ channel' = <<channel[2], channel[1]>> \o SubSeq(channel, 3, Len(channel))
  /\ Disturb

-----------------------------------------------------------------------------
(* replay_message_stream: the body of its loop for one message.            *)

\* A consumer that does not look at sequence numbers.
Gaps_Ignored(m) == {}

Gaps(m) ==
  IF previous # None /\ m.seq # previous + 1 THEN {"SEQUENCE_GAP"} ELSE {}

(* A message of another epoch makes the consumer forget its state.         *)
Held(m) ==
  IF current.epoch # None /\ current.epoch # m.epoch
  THEN [epoch |-> m.epoch, version |-> None, state |-> None]
  ELSE [current EXCEPT !.epoch = m.epoch]

\* A delta that does not say what it starts from.
Fits_Always(held, m) == held.state # None

Fits(held, m) == held.state # None /\ m.from = held.version

\* A consumer that does not compare digests.
Matches_Always(s, m) == TRUE

Matches(s, m) == s = m.state

TakeSnapshot(m) ==
  /\ m.kind = "WORLD_SNAPSHOT"
  /\ current' = [epoch |-> m.epoch, version |-> m.version, state |-> m.state]
  /\ errors' = errors \cup Gaps(m)

TakeDelta(m) ==
  /\ m.kind = "WORLD_DELTA" /\ Fits(Held(m), m)
  /\ current' = [epoch |-> m.epoch, version |-> m.version,
                 state |-> Apply(Held(m).state, m.ops)]
  /\ errors' = errors \cup Gaps(m) \cup
       IF Matches(current'.state, m) THEN {} ELSE {"DIGEST_MISMATCH"}

SkipDelta(m) ==
  /\ m.kind = "WORLD_DELTA" /\ ~Fits(Held(m), m)
  /\ current' = Held(m)
  /\ errors' = errors \cup Gaps(m) \cup
       {IF Held(m).state = None THEN "NO_SNAPSHOT" ELSE "VERSION_GAP"}

PassOver(m) ==
  /\ m.kind = "OTHER"
  /\ current' = Held(m)
  /\ errors' = errors \cup Gaps(m)

Consume ==
  /\ channel # <<>>
  /\ LET m == Head(channel)
     IN  /\ TakeSnapshot(m) \/ TakeDelta(m) \/ SkipDelta(m) \/ PassOver(m)
         /\ previous' = m.seq
         /\ consumed' = Append(consumed, m.seq)
  /\ channel' = Tail(channel)
  /\ UNCHANGED <<worldVars, emitted, past, faults>>

-----------------------------------------------------------------------------
Next ==
  \/ \E new \in [Members -> Values] : Commit(new) \/ ScheduleWorldEvent(new)
  \/ EmitSnapshot \/ EmitOther
  \/ \E new \in [Members -> Values], n \in 0..sequence :
       Restore([members |-> new, counter |-> n])
  \/ Duplicate \/ DropNext \/ ReorderNextTwo
  \/ Consume

Spec == Init /\ [][Next]_vars

-----------------------------------------------------------------------------
(* What the stream promises.                                               *)

(* Whatever the transport loses, repeats or reorders, and however many     *)
(* errors have been reported, the state a consumer holds is the one the    *)
(* world had at that version of that epoch, the event counter apart: the   *)
(* version a delta starts from is enough to keep it from going wrong.      *)
ReplicaAuthentic ==
  current.state # None =>
    \E p \in past :
      /\ p.epoch = current.epoch /\ p.version = current.version
      /\ p.state.members = current.state.members

(* A consumer that has reported nothing has the very state.                *)
CleanIsExact ==
  errors = {} /\ current.state # None =>
    [epoch |-> current.epoch, version |-> current.version, state |-> current.state] \in past

(* A consumer that has reported nothing has missed nothing since its first *)
(* message, and has seen nothing twice or out of order (SPEC 15, item 16). *)
CleanIsComplete ==
  errors = {} => \A i \in DOMAIN consumed : consumed[i] = consumed[1] + i - 1

(* Without a fault of the transport no gap is ever reported.               *)
NoFalseAlarm ==
  faults = 0 => errors \cap {"SEQUENCE_GAP", "VERSION_GAP"} = {}
=============================================================================
