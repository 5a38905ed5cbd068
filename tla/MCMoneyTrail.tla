---------------------------- MODULE MCMoneyTrail ----------------------------
(***************************************************************************)
(* MoneyTrailReference over every flow of a few transfers between a few    *)
(* accounts.  A transfer is its number, the accounts it goes between and   *)
(* whether it settles a payment.  A repository lists each account's        *)
(* transfers apart, so they are numbered account by account; any one of    *)
(* them, or none, settles a payment.                                       *)
(***************************************************************************)
EXTENDS MoneyTrailReference

CONSTANTS
  Holders, \* number of accounts
  Legs,    \* number of transfers
  Settles  \* the payment id

MCAccounts == 1..Holders
MCAccountOrder == [a \in 1..Holders |-> a]

MCTransactions == [no : 1..Legs, from : MCAccounts, to : MCAccounts, paid : BOOLEAN]

MCFromAccount == [t \in MCTransactions |-> t.from]
MCToAccount == [t \in MCTransactions |-> t.to]
MCAmountOf == [t \in MCTransactions |-> 1]
MCPaymentOf == [t \in MCTransactions |-> IF t.paid THEN Settles ELSE None]
MCPaymentIds == {Settles}
MCInvoiceOf == [p \in MCPaymentIds |-> None]
MCIssuedBy == [r \in {} |-> {}]
MCRfcOf == [a \in MCAccounts |-> None]

Repository(ends, paid) ==
  LET legs == [n \in 1..Legs |->
                 [no |-> n, from |-> ends[n][1], to |-> ends[n][2], paid |-> n = paid]]
  IN [a \in MCAccounts |-> SelectSeq(legs, LAMBDA t : t.from = a)]

MCRepositories ==
  {Repository(ends, paid) :
     ends \in {e \in [1..Legs -> MCAccounts \X MCAccounts] : \A n \in 2..Legs : e[n - 1][1] <= e[n][1]},
     paid \in 0..Legs}
=============================================================================
