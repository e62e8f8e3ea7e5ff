SPECIFICATION SpecReplica
CONSTANTS
  None = None
  ActionIds = {a1, a2}
  MessageIds = {m1, m2}
  RequestKinds <- ActionKinds
  Actors = {"npc.qingyan"}
  Commands <- OneWait
  Timeouts = {None}
  HostCalls = {"schedule_world_event"}
  WorldEvents <- Interruptions
  Delays = {1}
  Deltas = {1}
  Durations <- Ticks
  TerminalLimit = 1
  RequestLimit = 1
  ReportLimit = 1
  ClientReusesIds = FALSE
  MaxSent = 2
  MaxVersion = 4
  MaxEpoch = 1
  MaxScheduled = 1
  MaxTime = 2
INVARIANTS ReplicaExact
SYMMETRY Ids
CHECK_DEADLOCK FALSE
