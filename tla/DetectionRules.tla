--------------------------- MODULE DetectionRules ---------------------------
(***************************************************************************)
(* The deterministic detectors, detection/rules with graph/money_flow.py   *)
(* and dataset.py, and detection/scoring, which makes leads of their       *)
(* signals.  A dataset is a record of sets:                                *)
(*   entities      [id, rfc]                                               *)
(*   providers     [rfc, status, address, phone]                           *)
(*   accounts      [no, entity]                                            *)
(*   invoices      [id, rfc, day, amount]                                  *)
(*   payments      [id, invoice, day, amount]                              *)
(*   transactions  [id, from, to, day, hour, paid, amount]                 *)
(* Amounts are in pesos, scores in ten-thousandths.  The texts of signals  *)
(* and leads are left out: a signal is told by its detector, entity and    *)
(* sources, of which its id is a rendering.                                *)
(***************************************************************************)
EXTENDS Integers, FiniteSets, FiniteSetsExt

CONSTANTS
  PageSize,        \* records a list() returns; 100 in the code
  Before(_, _),    \* the order of identifiers
  Norm(_),         \* upper case, single spaces
  Prefix(_),       \* the first twelve characters
  RootIds,         \* the identifiers that start with TX-ROOT
  PaymentIds,      \* those that start with PMT
  Names,           \* the identifiers of the records: ids, accounts, RFCs
  None

ASSUME DetectionAssumption == PageSize \in Nat \ {0}

(* Identifiers are compared by their characters. *)
ASSUME NamesAssumption ==
  /\ IsFiniteSet(Names)
  /\ \A x, y \in Names : Before(x, y) => ~Before(y, x)
  /\ \A x, y \in Names : x # y => Before(x, y) \/ Before(y, x)
  /\ \A x, y, z \in Names : Before(x, y) /\ Before(y, z) => Before(x, z)

(* The parties are known before what they do. *)
Activities == {"invoices", "payments", "transactions"}

(* The repositories of memory.py are dictionaries by identifier. *)
IsDataset(d) ==
  /\ DOMAIN d = Activities \cup {"entities", "providers", "accounts"}
  /\ \A k \in DOMAIN d : IsFiniteSet(d[k])
  /\ \A p \in d.providers : p.rfc \in Names
  /\ \A e \in d.entities : e.id \in Names
  /\ \A a \in d.accounts : a.entity \in Names
  /\ d.invoices \subseteq [id : Names, rfc : Names, day : Int, amount : Int]
  /\ d.payments \subseteq [id : Names, invoice : Names, day : Int, amount : Int]
  /\ d.transactions \subseteq [id : Names, from : Names, to : Names, day : Int, hour : {None} \cup Int,
                               paid : {None} \cup Names, amount : Nat]
  /\ \A k \in Activities : \A x, y \in d[k] : x.id = y.id => x = y

-----------------------------------------------------------------------------
(* The dataset as the detectors read it. *)

Page(S, Precedes(_, _)) ==
  IF Cardinality(S) <= PageSize THEN S
  ELSE {x \in S : Cardinality({y \in S : Precedes(y, x)}) < PageSize}

ByDay(x, y) == x.day < y.day \/ (x.day = y.day /\ Before(x.id, y.id))

Providers(d) == Page(d.providers, LAMBDA p, q : Before(p.rfc, q.rfc))

Invoices(d) == Page(d.invoices, ByDay)

Payments(d) == Page(d.payments, ByDay)

Transfers(d) == Page(d.transactions, ByDay)

(* transaction_booked_at: noon when only the day is known. *)
BookedAt(tx) == tx.day * 24 + (IF tx.hour = None THEN 12 ELSE tx.hour)

Earlier(s, t) == BookedAt(s) < BookedAt(t) \/ (BookedAt(s) = BookedAt(t) /\ Before(s.id, t.id))

(* entity_for_account *)
EntityOf(d, no) ==
  IF \E a \in d.accounts : a.no = no THEN (CHOOSE a \in d.accounts : a.no = no).entity ELSE no

Ids(S) == {x.id : x \in S}

Total(S) == MapThenSumSet(LAMBDA x : x.amount, S)

Signal(detector, entity, sources) == [detector |-> detector, entity |-> entity, sources |-> sources]

Smallest(S) == CHOOSE x \in S : \A y \in S \ {x} : Before(x, y)

-----------------------------------------------------------------------------
(* circular_flow *)

Follows(s, t) == s.to = t.from /\ BookedAt(s) <= BookedAt(t) /\ s # t

Pairs(d) == {w \in Transfers(d) \X Transfers(d) : Follows(w[1], w[2])}

(* What _walk finds: two or three transfers, no further than the first that
   comes back to where they started. *)
Cycles(d) ==
  {w \in Pairs(d) : w[2].to = w[1].from}
    \cup UNION {{<<w[1], w[2], t>> :
                   t \in {u \in Transfers(d) \ {w[1]} : Follows(w[2], u) /\ u.to = w[1].from}} :
                w \in {v \in Pairs(d) : v[2].to # v[1].from}}

Legs(w) == {w[i] : i \in DOMAIN w}

(* Of the walks over the same transfers the first in the order of the search. *)
FoundBefore(v, w) ==
  \E i \in DOMAIN w : Earlier(v[i], w[i]) /\ \A j \in 1..(i - 1) : v[j] = w[j]

EconomicRoot(w) ==
  LET paid == {i \in DOMAIN w : w[i].paid # None}
  IN IF paid # {} THEN w[Min(paid)]
     ELSE CHOOSE s \in Legs(w) : \A t \in Legs(w) \ {s} : Earlier(s, t)

CircularFlow(d) ==
  LET found == Cycles(d)
  IN {Signal("DET-ROUND-TRIP-CYCLE", EconomicRoot(w).from, Ids(Legs(w))) :
        w \in {v \in found : ~\E u \in found : Legs(u) = Legs(v) /\ FoundBefore(u, v)}}

(* rapid_pass_through: money in, 75 to 105 per cent of it out within a day. *)

(* Fault: the window of a day is forgotten. *)
PassesThroughSomeDay(in, out) ==
  /\ in.to = out.from
  /\ BookedAt(out) > BookedAt(in)
  /\ 75 * in.amount <= 100 * out.amount /\ 100 * out.amount <= 105 * in.amount

PassesThrough(in, out) ==
  /\ in.to = out.from
  /\ BookedAt(out) - BookedAt(in) \in 1..24
  /\ 75 * in.amount <= 100 * out.amount /\ 100 * out.amount <= 105 * in.amount

(* Fault: of what leaves the account only the next transfer is compared. *)
RapidPassThroughNext(d) ==
  {Signal("DET-RAPID-PASS-THROUGH", w[1].to, Ids(Legs(w))) :
     w \in {v \in Transfers(d) \X Transfers(d) :
              /\ PassesThrough(v[1], v[2])
              /\ \A t \in Transfers(d) :
                   t.from = v[1].to /\ BookedAt(t) > BookedAt(v[1]) => ~Earlier(t, v[2])}}

RapidPassThrough(d) ==
  {Signal("DET-RAPID-PASS-THROUGH", w[1].to, Ids(Legs(w))) :
     w \in {v \in Transfers(d) \X Transfers(d) : PassesThrough(v[1], v[2])}}

(* duplicate_payment and duplicate_invoice: each further record of a group
   with the first of it. *)
FirstOf(x, group) == LET y == CHOOSE y \in group : \A z \in group \ {y} : Before(y.id, z.id) IN {x.id, y.id}

DuplicatePayment(d) ==
  UNION {LET group == {q \in Payments(d) : q.invoice = p.invoice /\ q.amount = p.amount}
         IN {Signal("DET-DUPLICATE-PAYMENT", p.invoice, s) : s \in {FirstOf(p, group)} \ {{p.id}}} :
           p \in Payments(d)}

DuplicateInvoice(d) ==
  UNION {LET group == {j \in Invoices(d) : j.rfc = i.rfc /\ j.amount = i.amount /\ j.day = i.day}
         IN {Signal("DUPLICATE_INVOICE", i.rfc, s) : s \in {FirstOf(i, group)} \ {{i.id}}} :
           i \in Invoices(d)}

-----------------------------------------------------------------------------
(* unusual_amount *)

(* statistics.median, doubled: the mean of the two middle values. *)
Middle(S, f(_), k) ==
  LET x == CHOOSE x \in S : /\ Cardinality({y \in S : f(y) < f(x)}) < k
                            /\ Cardinality({y \in S : f(y) <= f(x)}) >= k
  IN f(x)

TwiceMedian(S, f(_)) ==
  Middle(S, f, (Cardinality(S) + 1) \div 2) + Middle(S, f, Cardinality(S) \div 2 + 1)

(* Three and a half deviations above the median; where the records do not
   deviate, a tenth of the median stands for the deviation, or 1. *)
Outlies(amount, baseline) ==
  LET m == TwiceMedian(baseline, LAMBDA i : i.amount)
      dev == TwiceMedian(baseline, LAMBDA i : Max({2 * i.amount - m, m - 2 * i.amount}))
      above == 2 * amount - m
  IN /\ above > 0
     /\ CASE dev > 0 -> 4 * above >= 7 * dev
          [] dev = 0 /\ m > 0 -> 20 * above >= 7 * m
          [] OTHER -> above >= 7

UnusualAmount(d) ==
  LET OfProvider(rfc) == {i \in Invoices(d) : i.rfc = rfc}
      Baseline(rfc) == IF Cardinality(OfProvider(rfc)) < 3 THEN Invoices(d) ELSE OfProvider(rfc)
  IN {Signal("UNUSUAL_AMOUNT", i.rfc, {i.id}) :
        i \in {j \in Invoices(d) :
                 Cardinality(Baseline(j.rfc)) >= 3 /\ Outlies(j.amount, Baseline(j.rfc))}}

-----------------------------------------------------------------------------
(* MIN_TOTAL, in pesos. *)
ConcentrationMinTotal == 100000

(* supplier_concentration: of all a payer sends, what it sends to itself
   included, at least 70 per cent goes to one destination. *)
SupplierConcentration(d) ==
  LET Sent(payer) == {t \in Transfers(d) : EntityOf(d, t.from) = payer}
      SentTo(payer, dest) == {t \in Sent(payer) : EntityOf(d, t.to) = dest}
  IN {Signal("SUPPLIER_CONCENTRATION", pair[2], Ids(SentTo(pair[1], pair[2]))) :
        pair \in {q \in {<<EntityOf(d, t.from), EntityOf(d, t.to)>> : t \in Transfers(d)} :
                    /\ q[1] # q[2]
                    /\ Total(Sent(q[1])) >= ConcentrationMinTotal
                    /\ 100 * Total(SentTo(q[1], q[2])) >= 70 * Total(Sent(q[1]))}}

(* invoice_payment_mismatch *)
InvoicePaymentMismatch(d) ==
  LET PaidFor(i) == {p \in Payments(d) : p.invoice = i.id}
  IN {Signal("INVOICE_PAYMENT_MISMATCH", i.rfc, {i.id} \cup Ids(PaidFor(i))) :
        i \in {j \in Invoices(d) : PaidFor(j) # {} /\ Total(PaidFor(j)) # j.amount}}

(* fan_in and fan_out: three counterparties and MIN_TOTAL. *)
FanMinTotal == 50000

FanIn(d) ==
  LET Into(no) == {t \in Transfers(d) : t.to = no}
  IN {Signal("FAN_IN", no, Ids(Into(no))) :
        no \in {t.to : t \in {s \in Transfers(d) :
                  Cardinality({u.from : u \in Into(s.to)}) >= 3 /\ Total(Into(s.to)) >= FanMinTotal}}}

FanOut(d) ==
  LET OutOf(no) == {t \in Transfers(d) : t.from = no}
  IN {Signal("FAN_OUT", no, Ids(OutOf(no))) :
        no \in {t.from : t \in {s \in Transfers(d) :
                  Cardinality({u.to : u \in OutOf(s.from)}) >= 3 /\ Total(OutOf(s.from)) >= FanMinTotal}}}

-----------------------------------------------------------------------------
(* shell_network *)

Listed(p) == p.status \in {"PRESUMED", "DEFINITIVE", "INVALIDATED"}

Shared(x, y) == x # None /\ y # None /\ Norm(x) = Norm(y)

(* _entity_fund_links: the RFCs of two entities money went between. *)
FundLinks(d) ==
  LET Rfc(no) == {e.rfc : e \in {x \in d.entities : x.id = EntityOf(d, no)}} \ {None}
  IN {s \in UNION {{{w[1], w[2]} : w \in Rfc(t.from) \X Rfc(t.to)} : t \in Transfers(d)} : Cardinality(s) = 2}

(* An address and one factor more, or a telephone and a transfer. *)
ShellPair(d, p, q) ==
  \/ /\ Shared(p.address, q.address)
     /\ Shared(p.phone, q.phone) \/ {p.rfc, q.rfc} \in FundLinks(d) \/ Listed(p) \/ Listed(q)
  \/ Shared(p.phone, q.phone) /\ {p.rfc, q.rfc} \in FundLinks(d)

ShellNetwork(d) ==
  {Signal("SHELL_NETWORK", w[1].rfc, {w[1].rfc, w[2].rfc}) :
     w \in {v \in Providers(d) \X Providers(d) : Before(v[1].rfc, v[2].rfc) /\ ShellPair(d, v[1], v[2])}}

(* correlation_69b: one signal for a listed provider, whatever it is active in. *)
Activity(d, rfc) ==
  Ids({i \in Invoices(d) : i.rfc = rfc})
    \cup Ids({p \in Payments(d) : \E i \in d.invoices : i.id = p.invoice /\ i.rfc = rfc})

(* Fault: a signal for each record the provider is active in. *)
Correlation69BEach(d) ==
  UNION {{Signal("69B_CORRELATION", p.rfc, {x}) : x \in Activity(d, p.rfc)} : p \in {q \in Providers(d) : Listed(q)}}

Correlation69B(d) ==
  {Signal("69B_CORRELATION", p.rfc, Activity(d, p.rfc)) :
     p \in {q \in Providers(d) : Listed(q) /\ Activity(d, q.rfc) # {}}}

(* unusual_timing: a large invoice paid the day it was issued, or money gone
   on within six hours without a payment to account for it. *)
LargeAmount == 100000

PaidAtOnce(p, i) == p.invoice = i.id /\ p.amount >= LargeAmount /\ p.day = i.day

Hops(in, out) ==
  /\ in.to = out.from /\ in.amount >= LargeAmount /\ out.paid = None
  /\ BookedAt(out) - BookedAt(in) \in 1..6
  /\ 10 * out.amount >= 7 * in.amount

UnusualTiming(d) ==
  {Signal("UNUSUAL_TIMING", w[2].rfc, {w[1].id, w[2].id}) :
     w \in {v \in Payments(d) \X Invoices(d) : PaidAtOnce(v[1], v[2])}}
  \cup
  {Signal("UNUSUAL_TIMING", w[1].to, Ids(Legs(w))) :
     w \in {v \in Transfers(d) \X Transfers(d) : Hops(v[1], v[2])}}

(* shared_address_control *)
SharedAddressControl(d) ==
  LET controls == {"ENT-VENDOR-CONTROL-A", "ENT-VENDOR-CONTROL-B"}
  IN {Signal("DET-SHARED-ADDRESS-CONTROL", "ENT-VENDOR-CONTROL-A", s) : s \in {controls} \cap SUBSET Ids(d.entities)}

Detectors ==
  {"DET-ROUND-TRIP-CYCLE", "DET-RAPID-PASS-THROUGH", "DET-DUPLICATE-PAYMENT", "DUPLICATE_INVOICE",
   "INVOICE_PAYMENT_MISMATCH", "SHELL_NETWORK", "FAN_IN", "FAN_OUT", "SUPPLIER_CONCENTRATION",
   "UNUSUAL_AMOUNT", "UNUSUAL_TIMING", "69B_CORRELATION", "DET-SHARED-ADDRESS-CONTROL"}

RunAllDetectors(d) ==
  CircularFlow(d) \cup RapidPassThrough(d) \cup DuplicatePayment(d) \cup DuplicateInvoice(d)
    \cup UnusualAmount(d) \cup SupplierConcentration(d) \cup InvoicePaymentMismatch(d)
    \cup FanIn(d) \cup FanOut(d) \cup ShellNetwork(d) \cup Correlation69B(d)
    \cup UnusualTiming(d) \cup SharedAddressControl(d)

-----------------------------------------------------------------------------
(* scoring *)

(* DETECTOR_WEIGHTS, in hundredths. *)
Weight(detector) ==
  CASE detector = "DET-ROUND-TRIP-CYCLE" -> 98
    [] detector = "DET-RAPID-PASS-THROUGH" -> 88
    [] detector \in {"DET-DUPLICATE-PAYMENT", "DUPLICATE_INVOICE"} -> 85
    [] detector = "INVOICE_PAYMENT_MISMATCH" -> 80
    [] detector = "SHELL_NETWORK" -> 78
    [] detector \in {"FAN_IN", "FAN_OUT"} -> 72
    [] detector = "SUPPLIER_CONCENTRATION" -> 70
    [] detector = "UNUSUAL_AMOUNT" -> 62
    [] detector = "UNUSUAL_TIMING" -> 55
    [] detector \in {"69B_CORRELATION", "DET-SHARED-ADDRESS-CONTROL"} -> 35
    [] OTHER -> 30

PursueThreshold == 6000

ControlRiskCeiling == 5000

(* The first signal counts in full, each further one 15 per cent of it. *)
RiskScore(detector, n) == Min({10000, Weight(detector) * 100 + (n - 1) * Weight(detector) * 15})

(* Fault: pass-throughs share an identifier, as the control lead does. *)
AnchorOfTheKind(detector, entity, sources) ==
  CASE detector = "DET-ROUND-TRIP-CYCLE" ->
         Smallest(IF sources \cap RootIds # {} THEN sources \cap RootIds ELSE sources)
    [] detector = "DET-RAPID-PASS-THROUGH" -> "PASSTHROUGH"
    [] OTHER -> entity

(* _lead_id *)
Anchor(detector, entity, sources) ==
  CASE detector = "DET-ROUND-TRIP-CYCLE" ->
         Smallest(IF sources \cap RootIds # {} THEN sources \cap RootIds ELSE sources)
    [] detector = "DET-DUPLICATE-PAYMENT" ->
         Smallest(IF sources \cap PaymentIds # {} THEN sources \cap PaymentIds ELSE sources)
    [] detector = "DUPLICATE_INVOICE" -> Prefix(entity)
    [] detector = "DET-SHARED-ADDRESS-CONTROL" -> "SHARED-ADDRESS"
    [] OTHER -> entity

Lead(detector, entity, group) ==
  [lead_id |-> <<detector, Anchor(detector, entity, UNION {s.sources : s \in group})>>,
   entity |-> entity, detector |-> detector,
   risk_score |-> RiskScore(detector, Cardinality(group)), signals |-> group]

(* aggregate_signals: a lead for each detector and entity. *)
AggregateSignals(signals) ==
  {Lead(s.detector, s.entity, {x \in signals : x.detector = s.detector /\ x.entity = s.entity}) : s \in signals}

RunAll(d) == AggregateSignals(RunAllDetectors(d))
=============================================================================
