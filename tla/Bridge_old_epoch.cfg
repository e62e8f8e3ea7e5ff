SPECIFICATION Spec
CONSTANTS
  None = None
  ActionIds = {a1, a2}
  MessageIds = {m1, m2}
  RequestKinds <- AllKinds
  Actors = {"npc.qingyan"}
  Commands <- OneWait
  Timeouts = {None}
  HostCalls = {"export_save", "reset"}
  WorldEvents <- NoHappenings
  Delays = {}
  Deltas = {1}
  Durations <- Ticks
  TerminalLimit = 1
  RequestLimit = 1
  ReportLimit = 1
  ClientReusesIds = FALSE
  MaxSent = 2
  MaxVersion = 4
  MaxEpoch = 2
  MaxScheduled = 1
  MaxTime = 2
PROPERTIES OldEpochTrafficInert
SYMMETRY Ids
CHECK_DEADLOCK FALSE
