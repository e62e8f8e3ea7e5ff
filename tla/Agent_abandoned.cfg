SPECIFICATION SpecAgent
CONSTANTS
  None = None
  ActionIds <- Numbers
  MessageIds <- Numbers
  RequestKinds = {"ACTION_REQUESTED"}
  Actors = {"npc.qingyan"}
  Commands <- Requested
  Timeouts = {5000}
  HostCalls = {"export_save"}
  WorldEvents = {}
  Delays = {}
  Deltas = {}
  Durations <- Milliseconds
  TerminalLimit = 3
  RequestLimit = 3
  ReportLimit = 3
  ClientReusesIds = FALSE
  MaxSent = 5
  MaxVersion = 100
  MaxEpoch = 3
  MaxScheduled = 0
  MaxTime = 100000
  Answers <- Calls
  Injections <- Abandoning
  Task <- TellName
  MaxInjections = 1
PROPERTIES LoadInvalidatesReplies
CHECK_DEADLOCK FALSE
