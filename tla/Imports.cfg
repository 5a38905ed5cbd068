SPECIFICATION Spec
CONSTANTS
  Threads = {t1, t2}
  Uploads = {"partial", "zero", "list", "invoice", "again", "latin", "empty"}
  Content <- MCContent
  Endpoints <- MCEndpoints
  InjectedFile = "hidden"
  InjectedKeys <- MCInjectedKeys
  SnapshotDates = {None}
  Today = 9
  PoolSize = 2
  MaxRequests = 3
  MaxCrashes = 1
  Blank = Blank
  Bad = Bad
  None = None
INVARIANTS
  CreditedRecordsAreThere
  ReportsAreTheTables
PROPERTIES
  
  EveryRequestEnds
CHECK_DEADLOCK FALSE
