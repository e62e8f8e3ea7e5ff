SPECIFICATION FairReplica
CONSTANTS
  None = None
  ActionIds = {a1, a2}
  MessageIds = {m1, m2}
  RequestKinds <- ActionAndCancel
  Actors = {"npc.qingyan"}
  Commands <- OneWait
  Timeouts = {None, 1}
  HostCalls = {"export_save", "reset", "schedule_world_event", "pause"}
  WorldEvents <- PathLost
  Delays = {1}
  Deltas = {1}
  Durations <- Ticks
  TerminalLimit = 1
  RequestLimit = 1
  ReportLimit = 1
  ClientReusesIds = FALSE
  MaxSent = 2
  MaxVersion = 3
  MaxEpoch = 2
  MaxScheduled = 1
  MaxTime = 2
INVARIANTS TypeOK OneActivePerActor ReplicaExactButCounter
PROPERTIES ImplementsLifecycle OldEpochActionsInert EveryActionEnds VersionTracksState DeadlineBeatsCompletion
CHECK_DEADLOCK FALSE
