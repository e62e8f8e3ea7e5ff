--------------------------- MODULE ActionLifecycle ---------------------------
(***************************************************************************)
(* What the bridge promises about every action id, whatever becomes of its *)
(* caches: _ALLOWED of bridge/action_lifecycle.py seen from outside.       *)
(*                                                                         *)
(* REQUESTED, ACCEPTED and STARTED are passed in one call, so an id is     *)
(* seen as not known, then STARTED or REJECTED, then in one terminal state *)
(* in which it stays for the rest of the epoch.  A load or a reset begins  *)
(* a new epoch, in which just the actions of the restored state are under  *)
(* way.                                                                    *)
(***************************************************************************)
EXTENDS Naturals

CONSTANT ActionIds

VARIABLES epoch, phase

Outcomes == {"REJECTED", "COMPLETED", "FAILED", "CANCELLED", "EXPIRED"}

Phases == {"UNKNOWN", "STARTED"} \cup Outcomes

(* _ALLOWED, with the two phases no caller sees left out.                  *)
Allowed ==
  {<<"UNKNOWN", "REJECTED">>, <<"UNKNOWN", "STARTED">>, <<"STARTED", "COMPLETED">>,
   <<"STARTED", "FAILED">>, <<"STARTED", "CANCELLED">>, <<"STARTED", "EXPIRED">>}

Init == epoch = 1 /\ phase = [a \in ActionIds |-> "UNKNOWN"]

(* One transition of one action.                                           *)
Move(a, to) ==
  /\ <<phase[a], to>> \in Allowed
  /\ phase' = [phase EXCEPT ![a] = to]
  /\ UNCHANGED epoch

(* A new epoch: the actions of S are under way, no other is known.         *)
NewEpoch(S) ==
  /\ epoch' = epoch + 1
  /\ phase' = [a \in ActionIds |-> IF a \in S THEN "STARTED" ELSE "UNKNOWN"]

Next ==
  \/ \E a \in ActionIds, to \in Phases : Move(a, to)
  \/ \E S \in SUBSET ActionIds : NewEpoch(S)

Spec == Init /\ [][Next]_<<epoch, phase>>
=============================================================================
