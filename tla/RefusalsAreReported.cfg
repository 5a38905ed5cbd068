SPECIFICATION Spec
CONSTANTS
  Threads = {t1, t2}
  Uploads = {"zero"}
  Content <- MCContent
  Endpoints <- MCEndpoints
  InjectedFile = "hidden"
  InjectedKeys <- MCInjectedKeys
  SnapshotDates = {None}
  Today = 9
  PoolSize = 2
  MaxRequests = 3
  MaxCrashes = 1
  Blank = Blank
  Bad = Bad
  None = None
PROPERTY
  RefusalsAreReported
CHECK_DEADLOCK FALSE
