SPECIFICATION Spec
CONSTANTS
  None = None
  Ghost = Ghost
  NoAccount = NoAccount
  NoCall = NoCall
  Accounts <- MCAccounts
  Transactions <- MCTransactions
  PaymentIds <- MCPaymentIds
  Payments <- MCPayments
  Invoices <- MCInvoices
  Rfcs <- MCRfcs
  Providers <- MCProviders
  Entities <- MCEntities
  FromAccount <- MCFromAccount
  ToAccount <- MCToAccount
  AmountOf <- MCAmountOf
  PaymentOf <- MCPaymentOf
  InvoiceOf <- MCInvoiceOf
  IssuedBy <- MCIssuedBy
  RfcOf <- MCRfcOf
  AccountOrder <- MCAccountOrder
  TrailOf <- MCTrailOf
  Leads <- AllLeads
  GeminiCalls <- ProposedCalls
  MaxSteps = 4
INVARIANTS
  PlanNeverRunsDry
  NoCallRunsTwice
  SubstantiatedAmountIsTheRoot
  OfflinePlanDecides
  OfflineCitesTheTrail
PROPERTIES
  ImplementsProtocol
  Termination
