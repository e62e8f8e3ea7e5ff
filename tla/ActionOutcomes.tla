--------------------------- MODULE ActionOutcomes ---------------------------
(***************************************************************************)
(* HeadlessWorld keeps the promise of ActionLifecycle.                     *)
(*                                                                         *)
(* The world forgets: terminal records are evicted, recorded responses are *)
(* evicted, and a request can be delivered again at any time after that.   *)
(* The history variable fate remembers, for every id, the last thing the   *)
(* world said of it in this epoch; the refinement says that no redelivery  *)
(* after an eviction ever starts, ends or rejects an action a second time. *)
(***************************************************************************)
EXTENDS HeadlessWorld

VARIABLE fate

varsWithFate == <<vars, fate>>

Under(a, act) == act[a] # None

\* The step recorded an outcome for a.
Recorded(a) ==
  /\ terminal' # terminal
  /\ Len(terminal') > 0
  /\ terminal'[Len(terminal')].req.id = a

FateAfter(a) ==
  CASE Under(a, active') -> "STARTED"
    [] ~Under(a, active') /\ epoch' # epoch -> "UNKNOWN"
    [] ~Under(a, active') /\ epoch' = epoch /\ Recorded(a) -> terminal'[Len(terminal')].status
    [] OTHER -> fate[a]

InitFate == Init /\ fate = [a \in ActionIds |-> "UNKNOWN"]

NextFate == Next /\ fate' = [a \in ActionIds |-> FateAfter(a)]

SpecFate == InitFate /\ [][NextFate]_varsWithFate

Lifecycle == INSTANCE ActionLifecycle WITH phase <- fate

(* Every id lives the abstract life cycle: it is decided once, ends once,  *)
(* and a terminal state is final (SPEC 7.1 and 7.4).                       *)
ImplementsLifecycle == Lifecycle!Spec
=============================================================================
