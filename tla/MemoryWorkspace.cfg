SPECIFICATION Spec
CONSTANTS
  PageSize = 100
  Before <- MCBefore
  Norm <- MCNorm
  Prefix <- MCPrefix
  RootIds <- MCRootIds
  PaymentIds <- MCPaymentIds
  Names <- MCNames
  None = None
  Threads = {t1, t2}
  Investigated <- MCInvestigated
  Scenarios = {"hidden_pass_through", "hidden_duplicate_payment"}
  MaxRequests = 3
INVARIANTS
  CasesAreWhole
  LeadsAreCaughtUp
  FollowedLeadsHaveCases
CHECK_DEADLOCK FALSE
