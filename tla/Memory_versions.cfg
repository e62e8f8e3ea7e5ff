SPECIFICATION Spec
CONSTANTS
  None = None
  Unknown = "UNKNOWN"
  Claims <- TwoNames
  SingleValued <- OneName
  Drafts <- OneInference
  DerivedFamilies = {}
  EventTypes = {"SPEECH"}
  Payloads = {"canonical"}
  MaxEvents = 0
  MaxObservations = 1
  Actors = {"player"}
  SourceKinds = {"INFERRED"}
  Impressions <- Vivid
  Changes <- Decay
  LineageLimit = 1
  VersionLimit = 2
  ForgettingLimit = 1
  BeliefLimit = 1
  Liberties = {}
  MaxVersions = 3
  MaxSources = 1
  MaxForgettings = 2
INVARIANTS TypeOK ReplayReproduces LookupIsHistory LiveMemoryBounded LineagesNumberUpwards BeliefsLagOnlyContradictions
