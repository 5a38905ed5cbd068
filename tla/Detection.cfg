SPECIFICATION Spec
CONSTANTS
  PageSize = 5
  Before <- MCBefore
  Norm <- MCNorm
  Prefix <- MCPrefix
  RootIds <- MCRootIds
  PaymentIds <- MCPaymentIds
  None = None
  Corpus <- MCCorpus
  Names <- MCNames
INVARIANTS
  ContextNeverAccuses
  NoAccusationIsHidden
  AnswerKeysHold
PROPERTIES
  AccusationsOnlyGrow
CHECK_DEADLOCK FALSE
