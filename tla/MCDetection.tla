---------------------------- MODULE MCDetection -----------------------------
(***************************************************************************)
(* The corpus of seeder/detector_scenarios.py with the answers of          *)
(* tests/scenarios/test_detector_answer_keys.py, the demo with each of the *)
(* hidden scenarios, and datasets in which identifiers meet.               *)
(***************************************************************************)
EXTENDS Detection

D == INSTANCE DetectionData

(* The identifiers in the order of their characters. *)
IdOrder ==
  <<"001", "002", "003", "004", "005", "091", "092", "11111111", "99999999", "A1", "A2", "A3",
    "AAA010101AAA", "AAA010101ZZZ", "ACC-A", "ACC-B", "ACC-D1", "ACC-D2", "ACC-D3", "ACC-HUB", "ACC-IN",
    "ACC-O1", "ACC-O2", "ACC-O3", "ACC-OUT", "ACC-PAY", "ACC-PT", "ACC-SA", "ACC-SB", "ACC-SRC", "ACC-TOP",
    "BBB010101ZZZ", "CCC010101CCC", "CPR190515BB2", "CRL170822BB2", "CYC010100AAA", "CYC010101AAA",
    "CYC010102AAA", "DDD010100BBB", "DDD010101BBB", "DDD010102BBB", "E0", "E1", "E2", "EDE180101AA1",
    "EEE010101EEE", "ENT-A", "ENT-B", "ENT-COMPANY-001", "ENT-D0", "ENT-D1", "ENT-D2", "ENT-HIDDEN-SHELL-001",
    "ENT-HIDDEN-VENDOR-001", "ENT-HUB", "ENT-IN", "ENT-O0", "ENT-O1", "ENT-O2", "ENT-OUT", "ENT-PAYER",
    "ENT-PT", "ENT-SA", "ENT-SB", "ENT-SHELL-001", "ENT-SRC", "ENT-TOP", "ENT-VENDOR-001",
    "ENT-VENDOR-CONTROL-A", "ENT-VENDOR-CONTROL-B", "ESC240215BB2", "GGG010101GGG", "HUB010101AAA",
    "LSF200820CC3", "OOO010100AAA", "OOO010101AAA", "OOO010102AAA", "PAY010101AAA", "PCR150310AA1",
    "PERS800101HX", "PERS800101HX1", "PERS800101HX2", "PMT-C1", "PMT-HIDDEN-001", "PMT-HIDDEN-DUP-001",
    "PMT-MIS-001", "PMT-ROOT-000", "PMT-ROOT-001", "PMT-TIME-001", "SHL010101AAA", "SHL010101BBB", "SOV240101AA1",
    "SRC010101AAA", "TIM010101AAA", "TOP010101AAA", "TX-C1", "TX-C2", "TX-C3", "TX-CONC-ACC-A",
    "TX-CONC-ACC-B", "TX-CONC-ACC-TOP", "TX-FANIN-0", "TX-FANIN-1", "TX-FANIN-2", "TX-FANOUT-0",
    "TX-FANOUT-1", "TX-FANOUT-2", "TX-HIDDEN-DUP-001", "TX-HIDDEN-HOP-001", "TX-HIDDEN-ROOT-001",
    "TX-HOP-000", "TX-HOP-001", "TX-LEGIT-001", "TX-LEGIT-002", "TX-PT-IN", "TX-PT-OUT", "TX-RET-000",
    "TX-RET-001", "TX-ROOT-001", "TX-SHELL-LINK", "aaaaaaa1", "aaaaaaa2", "bbbbbb00", "bbbbbb01",
    "bbbbbb02", "bbbbbb03", "cccccccc", "dddddddd", "eeeeeeee", "pppppp01", "pppppp02", "pppppp03", "pppppp04",
    "pppppp05", "pppppp06", "pppppp07">>

Rank == [x \in {IdOrder[i] : i \in DOMAIN IdOrder} |-> CHOOSE i \in DOMAIN IdOrder : IdOrder[i] = x]

MCBefore(x, y) == Rank[x] < Rank[y]

MCNames == DOMAIN Rank

MCNorm(x) == x   \* the corpus writes an address or a telephone one way only

MCPrefix(x) == IF x \in {"PERS800101HX1", "PERS800101HX2"} THEN "PERS800101HX" ELSE x

MCRootIds == {"TX-ROOT-001"}

MCPaymentIds ==
  {"PMT-C1", "PMT-HIDDEN-001", "PMT-HIDDEN-DUP-001", "PMT-MIS-001", "PMT-ROOT-000", "PMT-ROOT-001", "PMT-TIME-001"}

-----------------------------------------------------------------------------
(* Cycles that share the root of the demo: one that was paid for before it,
   and one with a smaller hop, of an hour earlier. *)
Entangled ==
  [D!DemoScenario EXCEPT
     !.invoices = {},
     !.payments = @ \cup {D!Payment("PMT-ROOT-000", "11111111", D!Date(8, 3), 1000000)},
     !.transactions = {t \in @ : t.id \notin {"TX-LEGIT-001", "TX-LEGIT-002"}} \cup
       {D!Transaction("TX-RET-000", "003", "001", D!Date(8, 1), None, "PMT-ROOT-000", 740000),
        D!Transaction("TX-HOP-000", "002", "003", D!Date(8, 2), 10, None, 300000)}]

(* A supplier on the list of the SAT with all its papers in order. *)
Busy ==
  [D!Nothing EXCEPT
     !.providers = {D!Provider("GGG010101GGG", "DEFINITIVE", None, None)},
     !.invoices = {D!Invoice(x, "GGG010101GGG", Rank[x], 5000) : x \in {"bbbbbb00", "bbbbbb01", "bbbbbb02"}},
     !.payments = {D!Payment("PMT-C1", "bbbbbb00", 500, 5000), D!Payment("PMT-MIS-001", "bbbbbb01", 500, 5000),
                   D!Payment("PMT-TIME-001", "bbbbbb02", 500, 5000)}]

(* Two persons whose RFCs differ in the last character, and a supplier of the
   twelve they have in common, invoicing twice and one of them thrice. *)
Namesakes ==
  [D!Nothing EXCEPT
     !.invoices =
       {D!Invoice("pppppp01", "PERS800101HX1", 1, 300), D!Invoice("pppppp02", "PERS800101HX1", 1, 300),
        D!Invoice("pppppp07", "PERS800101HX1", 1, 300),
        D!Invoice("pppppp03", "PERS800101HX2", 2, 500), D!Invoice("pppppp04", "PERS800101HX2", 2, 500),
        D!Invoice("pppppp05", "PERS800101HX", 2, 500), D!Invoice("pppppp06", "PERS800101HX", 2, 500)}]

(* Each dataset with the detector of its answer key; None where it is to
   raise nothing that accuses. *)
Positive ==
  [duplicate_invoice |-> D!ScenarioDuplicateInvoice(TRUE), unusual_amount |-> D!ScenarioUnusualAmount(TRUE),
   mismatch |-> D!ScenarioInvoicePaymentMismatch(TRUE), fan_in |-> D!ScenarioFanIn(TRUE),
   fan_out |-> D!ScenarioFanOut(TRUE), pass_through |-> D!ScenarioPassThroughTemporal(TRUE),
   cycle_dedup |-> D!ScenarioCycleDedup, concentration |-> D!ScenarioSupplierConcentration(TRUE),
   shell_network |-> D!ScenarioShellNetwork(TRUE), unusual_timing |-> D!ScenarioUnusualTiming(TRUE),
   demo |-> D!DemoScenario]

Negative ==
  [no_duplicate_invoice |-> D!ScenarioDuplicateInvoice(FALSE), no_unusual_amount |-> D!ScenarioUnusualAmount(FALSE),
   no_mismatch |-> D!ScenarioInvoicePaymentMismatch(FALSE), no_fan_in |-> D!ScenarioFanIn(FALSE),
   no_fan_out |-> D!ScenarioFanOut(FALSE), no_pass_through |-> D!ScenarioPassThroughTemporal(FALSE),
   no_concentration |-> D!ScenarioSupplierConcentration(FALSE), no_shell_network |-> D!ScenarioShellNetwork(FALSE),
   no_unusual_timing |-> D!ScenarioUnusualTiming(FALSE), efos_negative |-> D!ScenarioEfosNegative]

Others ==
  [hidden_pass_through |-> D!HiddenPassThrough(D!DemoScenario),
   hidden_duplicate |-> D!HiddenDuplicatePayment(D!DemoScenario),
   entangled |-> Entangled, busy |-> Busy, namesakes |-> Namesakes]

MCCorpus ==
  [n \in DOMAIN Positive \cup DOMAIN Negative \cup DOMAIN Others |->
     IF n \in DOMAIN Positive THEN Positive[n] ELSE IF n \in DOMAIN Negative THEN Negative[n] ELSE Others[n]]

Detector(n) ==
  CASE n \in {"duplicate_invoice", "no_duplicate_invoice"} -> "DUPLICATE_INVOICE"
    [] n \in {"unusual_amount", "no_unusual_amount"} -> "UNUSUAL_AMOUNT"
    [] n \in {"mismatch", "no_mismatch"} -> "INVOICE_PAYMENT_MISMATCH"
    [] n \in {"fan_in", "no_fan_in"} -> "FAN_IN"
    [] n \in {"fan_out", "no_fan_out"} -> "FAN_OUT"
    [] n \in {"pass_through", "no_pass_through"} -> "DET-RAPID-PASS-THROUGH"
    [] n \in {"concentration", "no_concentration"} -> "SUPPLIER_CONCENTRATION"
    [] n \in {"shell_network", "no_shell_network", "efos_negative"} -> "SHELL_NETWORK"
    [] n \in {"unusual_timing", "no_unusual_timing"} -> "UNUSUAL_TIMING"
    [] n \in {"cycle_dedup", "demo"} -> "DET-ROUND-TRIP-CYCLE"

(* When the last record is in, the engine answers as the answer keys of
   data/answer_keys say, in whatever order the records came: a positive
   dataset raises the lead of its detector, of a cycle one lead for all its
   rotations, a negative one none (though one raised on the way stays on
   file). *)
AnswerKeysHold ==
  Complete =>
    /\ name \in DOMAIN Positive => Cardinality({l \in current : l.detector = Detector(name)}) = 1
    /\ name \in DOMAIN Negative => \A l \in current : l.detector # Detector(name)
=============================================================================
