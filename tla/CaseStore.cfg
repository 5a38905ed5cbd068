SPECIFICATION Spec
CONSTANTS
  Threads = {t1, t2}
  Leads = {"cycle", "passthrough"}
  Names <- KeysOnly
  SeedNames <- MCSeedNames
  LeadOf <- MCLeadOf
  DemoFile = "demo"
  InjectedFiles = {"hidden"}
  UploadedFiles = {"upload"}
  FactsOf <- MCFactsOf
  Raises <- MCRaises
  SeedLead = "cycle"
  Outcomes <- MCOutcomes
  MaxRequests = 4
  MaxCrashes = 1
  Nobody = Nobody
  None = None
  NoCase = NoCase
  Seed = Seed
INVARIANTS
  LeadAgreesWithItsResults
  LatestIsNotRedone
  FindingsStandOnTheRecords
PROPERTIES
  DecidedLeadsStayDecided
  ImplementsArchive
CHECK_DEADLOCK FALSE
