SPECIFICATION Spec
CONSTANTS
  Threads = {t1, t2}
  cycle = cycle
  control = control
  Leads <- MCLeads
  Investigated = {control}
  SeedLead = cycle
  StepsOf <- MCStepsOf
  Evidenced <- MCEvidenced
  PageLimit = 8
  MaxRequests = 3
  MaxFaults = 1
  CaseKey = CaseKey
  DemoKey = DemoKey
  None = None
INVARIANTS
  ToldRunsAreShown
  LostEventsAreRemembered
  AnswersAreOnRecord
  ClearingAloneSucceeds
  ActiveLeadHasARun
CHECK_DEADLOCK FALSE
SYMMETRY Symmetry
