SPECIFICATION Spec
CONSTANTS
  None = None
  ActionIds = {a1, a2}
  MessageIds = {m1, m2}
  RequestKinds <- AllKinds
  Actors = {"npc.qingyan"}
  Commands <- GoAndAsk
  Timeouts = {None, 1}
  HostCalls = {"cancel_task", "pause", "resume", "export_save", "reset", "apply_world_event", "schedule_world_event", "assign_task", "completion_callback"}
  WorldEvents <- Troubles
  Delays = {1}
  Deltas = {1}
  Durations <- Ticks
  TerminalLimit = 1
  RequestLimit = 1
  ReportLimit = 1
  ClientReusesIds = FALSE
  MaxSent = 1
  MaxVersion = 3
  MaxEpoch = 2
  MaxScheduled = 1
  MaxTime = 1
INVARIANTS ActionsHaveTheirEvents
SYMMETRY Ids
CHECK_DEADLOCK FALSE
