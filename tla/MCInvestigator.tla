--------------------------- MODULE MCInvestigator ---------------------------
(***************************************************************************)
(* Investigator over one small dataset, with the traces computed by        *)
(* MoneyTrail.  The accounts form five groups, one per shape of trail:     *)
(*   A B C    the demo round trip, its first leg paying an invoice         *)
(*   D E F    a payer and two accounts of one supplier                     *)
(*   G H K    an invoiced payment beside a round trip that pays none       *)
(*   L M N    a pass-through whose outbound leg pays an invoice            *)
(*   P Q R    a pass-through that pays none                                *)
(***************************************************************************)
EXTENDS InvestigationPolicy, MoneyTrail

MCAccounts == {"A", "B", "C", "D", "E", "F", "G", "H", "K", "L", "M", "N", "P", "Q", "R"}

MCAccountOrder ==
  <<"A", "B", "C", "D", "E", "F", "G", "H", "K", "L", "M", "N", "P", "Q", "R">>

Transfer(from, to, amount, payment) ==
  [from |-> from, to |-> to, amount |-> amount, payment |-> payment]

Ledger ==
  [ab |-> Transfer("A", "B", 10, "p1"), bc |-> Transfer("B", "C", 9, None),
   ca |-> Transfer("C", "A", 7, None),
   de |-> Transfer("D", "E", 5, None), df |-> Transfer("D", "F", 4, None),
   gh |-> Transfer("G", "H", 8, "p2"), gk |-> Transfer("G", "K", 6, None),
   kg |-> Transfer("K", "G", 6, None),
   lm |-> Transfer("L", "M", 4, None), mn |-> Transfer("M", "N", 3, "p3"),
   pq |-> Transfer("P", "Q", 4, None), qr |-> Transfer("Q", "R", 3, None)]

LedgerOrder ==
  <<"ab", "bc", "ca", "de", "df", "gh", "gk", "kg", "lm", "mn", "pq", "qr">>

MCTransactions == DOMAIN Ledger
MCFromAccount == [t \in MCTransactions |-> Ledger[t].from]
MCToAccount == [t \in MCTransactions |-> Ledger[t].to]
MCAmountOf == [t \in MCTransactions |-> Ledger[t].amount]
MCPaymentOf == [t \in MCTransactions |-> Ledger[t].payment]

(* p3 is referred to but has no payment record. *)
MCPaymentIds == {"p1", "p2", "p3"}
MCPayments == {"p1", "p2"}
MCInvoiceOf == [p \in MCPayments |-> IF p = "p1" THEN "i1" ELSE None]
MCInvoices == {"i1", "i2"}

MCRfcs == {"rA", "rB", "rC", "rE", "rG", "rFake"}
MCRfcOf ==
  [a \in MCAccounts |->
     CASE a = "A" -> "rA" [] a = "B" -> "rB" [] a = "C" -> "rC"
       [] a \in {"E", "F"} -> "rE" [] a = "G" -> "rG" [] OTHER -> None]
MCEntities == MCRfcs \ {"rFake"}
MCProviders == {"rB", "rE"}
MCIssuedBy == [r \in MCRfcs |-> IF r = "rB" THEN {"i1", "i2"} ELSE {}]

MCTrailOf(account, depth, root) ==
  LET outgoing == [a \in MCAccounts |-> SelectSeq(LedgerOrder, LAMBDA t : Ledger[t].from = a)]
  IN ReduceTrace(outgoing, account, depth, root)

Lead(detector, account, root) == [detector |-> detector, account |-> account, root |-> root]

AllLeads ==
  {Lead("CIRCULAR_FLOW", "A", "ab"), Lead("OTHER", "A", None), Lead("OTHER", "D", None),
   Lead("CIRCULAR_FLOW", "G", "gk"), Lead("RAPID_PASS_THROUGH", "M", Ghost),
   Lead("RAPID_PASS_THROUGH", "Q", Ghost), Lead("OTHER", "N", None),
   Lead("OTHER", NoAccount, None)}

Only(rfcs) == [r \in MCRfcs |-> IF r \in rfcs THEN 1 ELSE 0]

(* The model may follow the plan, run ahead of it, wander to another
   account, or name things that do not exist. *)
ProposedCalls ==
  {TraceCall("A", 3), TraceCall("A", 5), TraceCall("G", 3), TraceCall("N", 1),
   InspectCall(Only({"rB", "rC"}), 0), InspectCall(Only({"rB", "rC"}), 1),
   InspectCall(Only({"rFake"}), 0),
   InvoicesCall("rB"), RegulatoryCall("rB"),
   ExposureCall("ab", None), ExposureCall("ab", "ca"), ExposureCall(Ghost, None)}
=============================================================================
