SPECIFICATION Spec
CONSTANTS
  t1 = t1
  t2 = t2
  Threads = {t1, t2}
  None = None
  Providers <- MCProviders
  Rank <- MCRank
  SessionCap <- MCSessionCap
  HardStop = 3
INVARIANTS
  OvershootBounded
  SessionOvershootBounded
  BalancedLoad
  FailoverMovesOn
  NoProviderMeansNone
  EveryCallCharged
PROPERTIES
  EveryRequestAnswered
