--------------------------- MODULE CanonicalData ---------------------------
(***************************************************************************)
(* The canonical records the forensic tools read: bank accounts, bank      *)
(* transactions, payments, CFDI invoices and the RFC registry, as the      *)
(* repositories of database/repositories/ return them.  The dataset is a   *)
(* parameter: an investigation only reads it.                              *)
(***************************************************************************)
EXTENDS Naturals, Sequences

CONSTANTS
  Accounts,      \* account numbers
  Transactions,  \* ids of bank transactions
  PaymentIds,    \* payment ids a transaction may refer to
  Payments,      \* the payment ids that resolve to a payment record
  Invoices,      \* invoice uuids
  Rfcs,          \* tax identifiers of the entities that own accounts
  Providers,     \* the RFCs that also have a provider record
  None,          \* an absent field
  FromAccount,   \* transaction -> account debited
  ToAccount,     \* transaction -> account credited
  AmountOf,      \* transaction -> amount
  PaymentOf,     \* transaction -> related payment id, or None
  InvoiceOf,     \* payment -> related invoice, or None
  IssuedBy,      \* RFC -> invoices issued under it
  RfcOf,         \* account -> RFC of its holder, or None
  AccountOrder   \* the accounts in account-number order

ASSUME RecordsAssumption ==
  /\ Payments \subseteq PaymentIds
  /\ Providers \subseteq Rfcs
  /\ None \notin Accounts \cup Transactions \cup PaymentIds \cup Invoices \cup Rfcs

ASSUME FieldsAssumption ==
  /\ FromAccount \in [Transactions -> Accounts]
  /\ ToAccount \in [Transactions -> Accounts]
  /\ AmountOf \in [Transactions -> Nat]
  /\ PaymentOf \in [Transactions -> PaymentIds \cup {None}]
  /\ InvoiceOf \in [Payments -> Invoices \cup {None}]
  /\ IssuedBy \in [Rfcs -> SUBSET Invoices]
  /\ RfcOf \in [Accounts -> Rfcs \cup {None}]

ASSUME OrderAssumption ==
  /\ AccountOrder \in Seq(Accounts)
  /\ {AccountOrder[i] : i \in DOMAIN AccountOrder} = Accounts

(* What list_outgoing can answer: of each account some of the transfers it
   is debited by, in the order of date and id. *)
Listings ==
  {listing \in [Accounts -> Seq(Transactions)] :
     \A a \in Accounts : \A i \in DOMAIN listing[a] : FromAccount[listing[a][i]] = a}
=============================================================================
