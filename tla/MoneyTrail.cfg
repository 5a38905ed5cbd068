SPECIFICATION TraceSpec
CONSTANTS
  None = None
  Settles = Settles
  Accounts <- MCAccounts
  Holders = 3
  Origin = 1
  Legs = 5
  MaxDepth = 3
  Transactions <- MCTransactions
  PaymentIds <- MCPaymentIds
  Payments <- MCPaymentIds
  Invoices = {}
  Rfcs = {}
  Providers = {}
  FromAccount <- MCFromAccount
  ToAccount <- MCToAccount
  AmountOf <- MCAmountOf
  PaymentOf <- MCPaymentOf
  InvoiceOf <- MCInvoiceOf
  IssuedBy <- MCIssuedBy
  RfcOf <- MCRfcOf
  AccountOrder <- MCAccountOrder
  Repositories <- MCRepositories
INVARIANTS
  TraceIsBoundedReach
  CycleIsFoundIfAny
  DigestTracesTheRoundTrip
