SPECIFICATION SpecAgent
CONSTANTS
  None = None
  ActionIds <- Numbers
  MessageIds <- Numbers
  RequestKinds = {"ACTION_REQUESTED"}
  Actors = {"npc.qingyan"}
  Commands <- Requested
  Timeouts = {5000}
  HostCalls = {"apply_world_event", "cancel_task", "pause", "resume", "export_save", "completion_callback"}
  WorldEvents <- Happenings
  Delays = {}
  Deltas = {}
  Durations <- Milliseconds
  TerminalLimit = 3
  RequestLimit = 3
  ReportLimit = 3
  ClientReusesIds = FALSE
  MaxSent = 4
  MaxVersion = 100
  MaxEpoch = 3
  MaxScheduled = 0
  MaxTime = 100000
  Answers <- Calls
  Injections <- Scenario
  Task <- TellName
  MaxInjections = 2
INVARIANTS TerminalIsFound UndisturbedActionsComplete InterruptedAtOnce
PROPERTIES OutcomesAreReal CancelledStaysQuiet
CHECK_DEADLOCK FALSE
