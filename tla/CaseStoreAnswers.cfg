SPECIFICATION Spec
CONSTANTS
  Threads = {t1, t2}
  Leads = {"cycle", "passthrough"}
  Names <- WithDisplayId
  SeedNames <- MCSeedNames
  LeadOf <- MCLeadOf
  DemoFile = "demo"
  InjectedFiles = {"hidden"}
  UploadedFiles = {"upload"}
  FactsOf <- MCFactsOf
  Raises <- MCRaises
  SeedLead = "cycle"
  Outcomes <- MCOutcomes
  MaxRequests = 3
  MaxCrashes = 1
  Nobody = Nobody
  None = None
  NoCase = NoCase
  Seed = Seed
INVARIANT
  OneResultPerDataset
PROPERTY
  EveryRequestEnds
CHECK_DEADLOCK FALSE
