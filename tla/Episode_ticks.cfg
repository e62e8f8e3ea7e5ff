SPECIFICATION FairEpisode
CONSTANTS
  Permissions <- AllPermissions
  KnownTargets <- AllKnown
  Scenarios <- Played
  Proposals <- Answers
  WorldEvents = {"opened", "blocked", "locked"}
  LoopLimit = 2
  MaxRetries = 1
  MaxEvents = 1
INVARIANTS TypeOK ReadyMeansDone AffordancesAgree
PROPERTIES CancelledNeverActs FailuresChangeNothing ReportsAreTrue SuccessIsEarned EpisodesEnd
CHECK_DEADLOCK FALSE
