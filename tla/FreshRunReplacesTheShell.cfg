SPECIFICATION Spec
CONSTANTS
  Threads = {t1}
  Leads = {"cycle", "passthrough"}
  Names <- KeysOnly
  SeedNames <- MCSeedNames
  LeadOf <- MCLeadOf
  DemoFile = "demo"
  InjectedFiles = {"hidden"}
  UploadedFiles = {"upload"}
  FactsOf <- MCFactsOf
  Raises <- MCRaises
  SeedLead = "cycle"
  Outcomes <- MCOutcomes
  MaxRequests = 3
  MaxCrashes = 0
  Nobody = Nobody
  None = None
  NoCase = NoCase
  Seed = Seed
INVARIANT
  FreshRunReplacesTheShell
CHECK_DEADLOCK FALSE
