SPECIFICATION Spec
CONSTANTS
  None = None
  Unknown = "UNKNOWN"
  Claims <- HeardClaim
  SingleValued <- SingleName
  Drafts <- HeardAndManifested
  DerivedFamilies <- DerivedFamily
  EventTypes = {"SPEECH"}
  Payloads = {"canonical"}
  MaxEvents = 1
  MaxObservations = 2
  RecordDrafts <- NamesAndRooms
  Manifestations <- ChildRoom
  RecentLimit = 1
  AuditLimit = 1
  Guests = {g1, g2}
  MaxRecords = 3
  MaxProjections = 1
INVARIANTS TypeOK ReplayReproduces ActiveIsUnsuperseded NoOpenClash LineagesLinear RecordLookupIsHistory LiveLedgerBounded NoSelfProof
SYMMETRY GuestSymmetry
CHECK_DEADLOCK FALSE
