-------------------------- MODULE MCImportPipeline --------------------------
(***************************************************************************)
(* Files after data/fixtures, and the ones they miss: an export that       *)
(* repeats a transfer of another, one with a transfer of nothing, one that *)
(* is not UTF-8, one whose header is padded, an invoice, a SAT list        *)
(* without dates.                                                          *)
(***************************************************************************)
EXTENDS ImportPipeline

CSV(columns, lines) ==
  [form |-> "csv", encoding |-> "utf-8", header |-> columns, padded |-> {}, rows |-> lines]

Transfer(id, from, to, date, amount) ==
  [transaction_id |-> id, from_account |-> from, to_account |-> to, date |-> date, amount |-> amount]

Cycle == CSV(Required["BANK"], <<Transfer("ROOT", "A1", "A2", 2, 100), Transfer("HOP", "A2", "A3", 2, 92)>>)

(* The hop again, then a row to be refused and one to be kept. *)
Partial ==
  CSV(Required["BANK"],
      <<Transfer("HOP", "A2", "A3", 2, 92), Transfer("BAD", "A1", "A2", Bad, 100), Transfer("RET", "A3", "A1", 3, 74)>>)

Zero == CSV(Required["BANK"], <<Transfer("RET", "A3", "A1", 3, 74), Transfer("NIL", "A1", "A2", 3, 0)>>)

Listing(rfc, status) == [rfc |-> rfc, status |-> status]

List == CSV(Required["SAT_69B"], <<Listing("LSF", "DEFINITIVO"), Listing("LSF", "PRESUNTO"), Listing("XYZ", Bad)>>)

XML ==
  [form |-> "xml", encoding |-> "utf-8", header |-> {"UUID", "Rfc", "Fecha", "Total"}, padded |-> {},
   rows |-> <<[UUID |-> "1111", Rfc |-> "LSF", Fecha |-> 1, Total |-> 100]>>]

MCContent ==
  [f \in Uploads |->
     CASE f = "cycle" -> Cycle
       [] f = "partial" -> Partial
       [] f = "zero" -> Zero
       [] f = "latin" -> [Cycle EXCEPT !.encoding = "latin-1"]
       [] f = "padded" -> [Partial EXCEPT !.padded = {"amount"}]
       [] f = "list" -> List
       [] f = "invoice" -> XML
       [] f = "again" -> [XML EXCEPT !.encoding = "latin-1"]
       [] f = "empty" -> [Cycle EXCEPT !.form = "empty"]]

(* Each to its own endpoint, and one export to that of the invoices first. *)
MCEndpoints ==
  [f \in Uploads |->
     CASE f = "partial" -> {"BANK", "CFDI_INVOICE"}
       [] f \in {"invoice", "again"} -> {"CFDI_INVOICE"}
       [] f = "list" -> {"SAT_69B"}
       [] OTHER -> {"BANK"}]

(* One transfer of the hidden pass-through was uploaded before. *)
MCInjectedKeys == {"HIDDEN", "RET"}
=============================================================================
