---------------------------- MODULE WorldReplica ----------------------------
(***************************************************************************)
(* A consumer of the world's message stream: it takes the snapshot that    *)
(* opens an epoch and then applies every WORLD_DELTA in order, as          *)
(* replay_message_stream (bridge/transport.py) does for a recorded stream. *)
(* A step emits at most one delta, and emits it when it takes a version.   *)
(***************************************************************************)
EXTENDS ActionOutcomes

VARIABLE replica

(* json_diff and apply_json_operations for one object: a delta carries the *)
(* members that differ, and leaves the consumer's other members alone.     *)
PatchMembers(r, before, after) ==
  [f \in DOMAIN after |-> IF before[f] = after[f] THEN r[f] ELSE after[f]]

(* Both recurse into objects; of the gameplay state these are the entities *)
(* and the door, and the active actions by id.                             *)
Patch(r, before, after) ==
  [PatchMembers(r, before, after) EXCEPT
     !.world = PatchMembers(r.world, before.world, after.world),
     !.active = PatchMembers(r.active, before.active, after.active)]

(* A new epoch comes with its snapshot.                                    *)
Follow ==
  replica' = IF epoch' # epoch THEN gameplay'
             ELSE IF version' # version THEN Patch(replica, CommitSees, gameplay')
             ELSE replica

InitReplica == InitFate /\ replica = gameplay

NextReplica == NextFate /\ Follow

SpecReplica == InitReplica /\ [][NextReplica]_<<varsWithFate, replica>>

(* The host keeps its clock going, as in FairSpec.                         *)
FairReplica == SpecReplica /\ WF_vars(Advance)

(* The consumer has the authoritative state after every message, as SPEC   *)
(* 12.2 demands of a consumer of all ordered deltas.                       *)
ReplicaExact == replica = gameplay

(* The same of everything but the event counter.                           *)
ReplicaExactButCounter ==
  [replica EXCEPT !.eventCounter = 0] = [gameplay EXCEPT !.eventCounter = 0]
=============================================================================
