SPECIFICATION Spec
CONSTANTS
  None = None
  Members = {entities, scheduler}
  Values = {v, w}
  MaxMessages = 4
  MaxFaults = 1
  MaxEpoch = 2
INVARIANTS ReplicaAuthentic CleanIsExact CleanIsComplete NoFalseAlarm
SYMMETRY Anything
CHECK_DEADLOCK FALSE
