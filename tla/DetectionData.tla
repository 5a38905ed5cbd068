--------------------------- MODULE DetectionData ----------------------------
(***************************************************************************)
(* The synthetic datasets the detectors are run on: seeder/                *)
(* demo_scenario.py, injection_scenarios.py and detector_scenarios.py.     *)
(* Names, banks, currencies and receivers, which no detector reads, are    *)
(* left out; months have 31 days, no record being near the end of one.     *)
(***************************************************************************)
EXTENDS Integers

CONSTANT None

Date(month, day) == 31 * month + day

Entity(id, rfc) == [id |-> id, rfc |-> rfc]

Provider(rfc, status, address, phone) ==
  [rfc |-> rfc, status |-> status, address |-> address, phone |-> phone]

Account(no, entity) == [no |-> no, entity |-> entity]

Invoice(id, rfc, day, amount) == [id |-> id, rfc |-> rfc, day |-> day, amount |-> amount]

Payment(id, invoice, day, amount) == [id |-> id, invoice |-> invoice, day |-> day, amount |-> amount]

Transaction(id, from, to, day, hour, paid, amount) ==
  [id |-> id, from |-> from, to |-> to, day |-> day, hour |-> hour, paid |-> paid, amount |-> amount]

Nothing ==
  [entities |-> {}, providers |-> {}, accounts |-> {}, invoices |-> {}, payments |-> {}, transactions |-> {}]

(* A company, its account and, when it supplies, its provider record. *)
Party(id, rfc, no) == [entity |-> Entity(id, rfc), account |-> Account(no, id)]

Parties(S) ==
  [Nothing EXCEPT !.entities = {p.entity : p \in S}, !.accounts = {p.account : p \in S}]

-----------------------------------------------------------------------------
(* load_demo_scenario: a round trip, and two suppliers in one building. *)

DemoScenario ==
  [Parties({Party("ENT-COMPANY-001", "EDE180101AA1", "001"), Party("ENT-VENDOR-001", "CPR190515BB2", "002"),
            Party("ENT-SHELL-001", "LSF200820CC3", "003"), Party("ENT-VENDOR-CONTROL-A", "PCR150310AA1", "004"),
            Party("ENT-VENDOR-CONTROL-B", "CRL170822BB2", "005")})
   EXCEPT
     !.providers = {Provider("CPR190515BB2", "UNKNOWN", "Av. Insurgentes Sur 1602", None),
                    Provider("LSF200820CC3", "DEFINITIVE", "Calle Falsa 123", None),
                    Provider("PCR150310AA1", "UNKNOWN", "Av. Reforma 222", None),
                    Provider("CRL170822BB2", "UNKNOWN", "Av. Reforma 222", None)},
     !.invoices = {Invoice("11111111", "CPR190515BB2", Date(8, 1), 1000000)},
     !.payments = {Payment("PMT-ROOT-001", "11111111", Date(8, 2), 1000000)},
     !.transactions =
       {Transaction("TX-ROOT-001", "001", "002", Date(8, 2), 9, "PMT-ROOT-001", 1000000),
        Transaction("TX-HOP-001", "002", "003", Date(8, 2), 11, None, 920000),
        Transaction("TX-RET-001", "003", "001", Date(8, 3), 10, None, 740000),
        Transaction("TX-LEGIT-001", "001", "004", Date(8, 4), 12, None, 15420),
        Transaction("TX-LEGIT-002", "001", "005", Date(8, 5), 12, None, 38500)}]

(* apply_hidden_pass_through: once, told by its vendor. *)
HiddenPassThrough(d) ==
  IF \E e \in d.entities : e.id = "ENT-HIDDEN-VENDOR-001" THEN d
  ELSE [d EXCEPT
     !.entities = @ \cup {Entity("ENT-HIDDEN-VENDOR-001", "SOV240101AA1"),
                          Entity("ENT-HIDDEN-SHELL-001", "ESC240215BB2")},
     !.providers = @ \cup {Provider("SOV240101AA1", "PRESUMED", "Calle Oculta 99", None),
                           Provider("ESC240215BB2", "DEFINITIVE", "Bodega 7", None)},
     !.accounts = @ \cup {Account("091", "ENT-HIDDEN-VENDOR-001"), Account("092", "ENT-HIDDEN-SHELL-001")},
     !.invoices = @ \cup {Invoice("99999999", "SOV240101AA1", Date(9, 1), 550000)},
     !.payments = @ \cup {Payment("PMT-HIDDEN-001", "99999999", Date(9, 2), 550000)},
     !.transactions = @ \cup
       {Transaction("TX-HIDDEN-ROOT-001", "001", "091", Date(9, 2), 10, "PMT-HIDDEN-001", 550000),
        Transaction("TX-HIDDEN-HOP-001", "091", "092", Date(9, 2), 11, None, 500500)}]

(* apply_hidden_duplicate_payment: once, told by its transfer. *)
HiddenDuplicatePayment(d) ==
  IF \E t \in d.transactions : t.id = "TX-HIDDEN-DUP-001" THEN d
  ELSE [d EXCEPT
     !.payments = @ \cup {Payment("PMT-HIDDEN-DUP-001", "11111111", Date(9, 3), 1000000)},
     !.transactions = @ \cup
       {Transaction("TX-HIDDEN-DUP-001", "001", "002", Date(9, 3), 14, "PMT-HIDDEN-DUP-001", 1000000)}]

-----------------------------------------------------------------------------
(* detector_scenarios.py: for each detector a dataset that must raise it
   (positive) and one that must not. *)

ScenarioDuplicateInvoice(positive) ==
  [Nothing EXCEPT
     !.entities = {Entity("ENT-A", "AAA010101AAA")},
     !.providers = {Provider("AAA010101AAA", "UNKNOWN", None, None)},
     !.invoices =
       {Invoice("aaaaaaa1", "AAA010101AAA", Date(1, 10), 250000),
        Invoice("aaaaaaa2", "AAA010101AAA", Date(1, IF positive THEN 10 ELSE 11),
                IF positive THEN 250000 ELSE 251000)}]

ScenarioUnusualAmount(positive) ==
  [Nothing EXCEPT
     !.providers = {Provider("CCC010101CCC", "UNKNOWN", None, None)},
     !.invoices =
       {Invoice("bbbbbb00", "CCC010101CCC", Date(2, 1), 10000),
        Invoice("bbbbbb01", "CCC010101CCC", Date(2, 2), 11000),
        Invoice("bbbbbb02", "CCC010101CCC", Date(2, 3), 10500),
        Invoice("bbbbbb03", "CCC010101CCC", Date(2, 4), IF positive THEN 500000 ELSE 12000)}]

ScenarioInvoicePaymentMismatch(positive) ==
  [Nothing EXCEPT
     !.providers = {Provider("EEE010101EEE", "UNKNOWN", None, None)},
     !.invoices = {Invoice("cccccccc", "EEE010101EEE", Date(3, 1), 100000)},
     !.payments = {Payment("PMT-MIS-001", "cccccccc", Date(3, 5), IF positive THEN 70000 ELSE 100000)}]

ScenarioFanIn(positive) ==
  [Parties({Party("ENT-HUB", "HUB010101AAA", "ACC-HUB"), Party("ENT-O0", "OOO010100AAA", "ACC-O1"),
            Party("ENT-O1", "OOO010101AAA", "ACC-O2")}
           \cup (IF positive THEN {Party("ENT-O2", "OOO010102AAA", "ACC-O3")} ELSE {}))
   EXCEPT
     !.transactions =
       {Transaction("TX-FANIN-0", "ACC-O1", "ACC-HUB", Date(4, 1), 10, None, 40000),
        Transaction("TX-FANIN-1", "ACC-O2", "ACC-HUB", Date(4, 1), 11, None, 40000)}
       \cup (IF positive THEN {Transaction("TX-FANIN-2", "ACC-O3", "ACC-HUB", Date(4, 1), 12, None, 40000)} ELSE {})]

ScenarioFanOut(positive) ==
  [Parties({Party("ENT-SRC", "SRC010101AAA", "ACC-SRC"), Party("ENT-D0", "DDD010100BBB", "ACC-D1"),
            Party("ENT-D1", "DDD010101BBB", "ACC-D2")}
           \cup (IF positive THEN {Party("ENT-D2", "DDD010102BBB", "ACC-D3")} ELSE {}))
   EXCEPT
     !.transactions =
       {Transaction("TX-FANOUT-0", "ACC-SRC", "ACC-D1", Date(4, 2), 10, None, 40000),
        Transaction("TX-FANOUT-1", "ACC-SRC", "ACC-D2", Date(4, 2), 11, None, 40000)}
       \cup (IF positive THEN {Transaction("TX-FANOUT-2", "ACC-SRC", "ACC-D3", Date(4, 2), 12, None, 40000)} ELSE {})]

ScenarioEfosNegative ==
  [Nothing EXCEPT
     !.providers = {Provider("GGG010101GGG", "DEFINITIVE", "Calle Quiet 1", None)},
     !.invoices = {Invoice("dddddddd", "GGG010101GGG", Date(5, 1), 5000)}]

(* Its accounts belong to entities that have no record of their own. *)
ScenarioPassThroughTemporal(positive) ==
  [Nothing EXCEPT
     !.accounts = {Account("ACC-PT", "ENT-PT"), Account("ACC-IN", "ENT-IN"), Account("ACC-OUT", "ENT-OUT")},
     !.transactions =
       {Transaction("TX-PT-IN", "ACC-IN", "ACC-PT", Date(6, 1), 9, None, 200000),
        Transaction("TX-PT-OUT", "ACC-PT", "ACC-OUT", Date(6, IF positive THEN 1 ELSE 3), 11, None, 180000)}]

ScenarioCycleDedup ==
  [Parties({Party("E0", "CYC010100AAA", "A1"), Party("E1", "CYC010101AAA", "A2"), Party("E2", "CYC010102AAA", "A3")})
   EXCEPT
     !.transactions =
       {Transaction("TX-C1", "A1", "A2", Date(7, 1), 9, "PMT-C1", 100000),
        Transaction("TX-C2", "A2", "A3", Date(7, 1), 11, None, 90000),
        Transaction("TX-C3", "A3", "A1", Date(7, 1), 15, None, 80000)}]

ScenarioSupplierConcentration(positive) ==
  [Parties({Party("ENT-PAYER", "PAY010101AAA", "ACC-PAY"), Party("ENT-TOP", "TOP010101AAA", "ACC-TOP"),
            Party("ENT-A", "AAA010101ZZZ", "ACC-A"), Party("ENT-B", "BBB010101ZZZ", "ACC-B")})
   EXCEPT
     !.transactions =
       {Transaction("TX-CONC-ACC-TOP", "ACC-PAY", "ACC-TOP", Date(8, 1), 10, None, IF positive THEN 800000 ELSE 400000),
        Transaction("TX-CONC-ACC-A", "ACC-PAY", "ACC-A", Date(8, 1), 10, None, 100000),
        Transaction("TX-CONC-ACC-B", "ACC-PAY", "ACC-B", Date(8, 1), 10, None, 100000)}]

ScenarioShellNetwork(positive) ==
  [Parties({Party("ENT-SA", "SHL010101AAA", "ACC-SA"), Party("ENT-SB", "SHL010101BBB", "ACC-SB")})
   EXCEPT
     !.providers =
       {Provider("SHL010101AAA", IF positive THEN "DEFINITIVE" ELSE "UNKNOWN", "Calle Compartida 1", "555-1000"),
        Provider("SHL010101BBB", "UNKNOWN", "Calle Compartida 1", IF positive THEN "555-1000" ELSE "555-2000")},
     !.transactions =
       IF positive THEN {Transaction("TX-SHELL-LINK", "ACC-SA", "ACC-SB", Date(8, 10), 12, None, 25000)} ELSE {}]

ScenarioUnusualTiming(positive) ==
  [Nothing EXCEPT
     !.providers = {Provider("TIM010101AAA", "UNKNOWN", None, None)},
     !.invoices = {Invoice("eeeeeeee", "TIM010101AAA", Date(8, 20), 250000)},
     !.payments = {Payment("PMT-TIME-001", "eeeeeeee", Date(8, IF positive THEN 20 ELSE 25), 250000)}]
=============================================================================
