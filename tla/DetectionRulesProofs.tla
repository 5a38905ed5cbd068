------------------------ MODULE DetectionRulesProofs ------------------------
(***************************************************************************)
(* Lemmas about the rules of DetectionRules, for any dataset: what each of *)
(* the thirteen can say, the leads that are made of it and their scores.   *)
(***************************************************************************)
EXTENDS DetectionRules, FiniteSetTheorems, FunctionTheorems, WellFoundedInduction, TLAPS

-----------------------------------------------------------------------------
(* Finite sets and their orders.  An order is a set of pairs. *)

LEMMA Least ==
  ASSUME NEW S \in SUBSET Nat, S # {}
  PROVE  \E n \in S : \A m \in S : ~(m < n)
<1>1. \E n \in S : \A m \in S : <<m, n>> \notin OpToRel(<, Nat)
  BY WFMin, NatLessThanWellFounded, Zenon
<1> QED
  BY <1>1 DEF OpToRel

LEMMA Minimal ==
  ASSUME NEW S, IsFiniteSet(S), S # {}, NEW R,
         \A x \in S : <<x, x>> \notin R,
         \A x, y, z \in S : <<x, y>> \in R /\ <<y, z>> \in R => <<x, z>> \in R
  PROVE  \E m \in S : \A x \in S : <<x, m>> \notin R
<1> DEFINE Below(x) == {y \in S : <<y, x>> \in R}
           Counts == {Cardinality(Below(x)) : x \in S}
<1>1. \A x \in S : IsFiniteSet(Below(x)) /\ Cardinality(Below(x)) \in Nat
  BY FS_Subset, FS_CardinalityType
<1>5. \A x \in S : Cardinality(Below(x)) \in Counts
  OBVIOUS
<1>2. PICK n \in Counts : \A k \in Counts : ~(k < n)
  <2>1. Counts \in SUBSET Nat /\ Counts # {}
    <3> HIDE DEF Below
    <3> QED
      BY <1>1, <1>5
  <2> HIDE DEF Counts
  <2> QED
    BY <2>1, Least
<1>3. PICK m \in S : n = Cardinality(Below(m))
  BY <1>2
<1>4. ASSUME NEW x \in S, <<x, m>> \in R PROVE FALSE
  <2>1. Below(x) \subseteq Below(m) /\ x \in Below(m) /\ x \notin Below(x)
    BY <1>4
  <2>2. Cardinality(Below(x)) <= Cardinality(Below(m)) /\ Cardinality(Below(x)) # Cardinality(Below(m))
    <3> HIDE DEF Below
    <3> QED
      BY <1>1, <2>1, FS_Subset
  <2>3. Cardinality(Below(x)) < n
    <3> HIDE DEF Below
    <3> QED
      BY <1>1, <1>3, <2>2
  <2> HIDE DEF Counts
  <2> QED
    BY <1>2, <1>5, <2>3
<1> QED
  BY <1>4

(* A total order has a first element. *)
LEMMA First ==
  ASSUME NEW S, IsFiniteSet(S), S # {}, NEW R,
         \A x \in S : <<x, x>> \notin R,
         \A x, y, z \in S : <<x, y>> \in R /\ <<y, z>> \in R => <<x, z>> \in R,
         \A x, y \in S : x # y => <<x, y>> \in R \/ <<y, x>> \in R
  PROVE  \E m \in S : \A x \in S \ {m} : <<m, x>> \in R
<1>1. PICK m \in S : \A x \in S : <<x, m>> \notin R
  BY Minimal, Zenon
<1> QED
  BY <1>1

LEMMA Order ==
  /\ \A x \in Names : ~Before(x, x)
  /\ \A x, y \in Names : Before(x, y) => ~Before(y, x)
  /\ \A x, y \in Names : x # y => Before(x, y) \/ Before(y, x)
  /\ \A x, y, z \in Names : Before(x, y) /\ Before(y, z) => Before(x, z)
BY NamesAssumption

(* Of a set of identifiers the smallest is one of them. *)
LEMMA SmallestIs ==
  ASSUME NEW S \in SUBSET Names, S # {}
  PROVE  Smallest(S) \in S
<1> DEFINE R == {w \in S \X S : Before(w[1], w[2])}
<1>1. \A x, y \in S : <<x, y>> \in R <=> Before(x, y)
  OBVIOUS
<1> HIDE DEF R
<1>2. IsFiniteSet(S)
  BY NamesAssumption, FS_Subset
<1>3. \E m \in S : \A x \in S \ {m} : <<m, x>> \in R
  <2>1. \A x \in S : <<x, x>> \notin R
    BY <1>1, Order
  <2>2. \A x, y, z \in S : <<x, y>> \in R /\ <<y, z>> \in R => <<x, z>> \in R
    BY <1>1, Order
  <2>3. \A x, y \in S : x # y => <<x, y>> \in R \/ <<y, x>> \in R
    BY <1>1, Order
  <2> QED
    BY <1>2, <2>1, <2>2, <2>3, First, Zenon
<1>4. \E m \in S : \A x \in S \ {m} : Before(m, x)
  BY <1>1, <1>3
<1> QED
  BY <1>4 DEF Smallest

(* Of records with identifiers the first is one of them. *)
LEMMA FirstOfIs ==
  ASSUME NEW group, IsFiniteSet(group), group # {}, \A x \in group : x.id \in Names,
         \A x, y \in group : x.id = y.id => x = y
  PROVE  \E y \in group : /\ \A z \in group \ {y} : Before(y.id, z.id)
                          /\ \A x : FirstOf(x, group) = {x.id, y.id}
<1> DEFINE R == {w \in group \X group : Before(w[1].id, w[2].id)}
<1>1. \A x, y \in group : <<x, y>> \in R <=> Before(x.id, y.id)
  OBVIOUS
<1> HIDE DEF R
<1>2. \E m \in group : \A x \in group \ {m} : <<m, x>> \in R
  <2>1. \A x \in group : <<x, x>> \notin R
    BY <1>1, Order
  <2>2. \A x, y, z \in group : <<x, y>> \in R /\ <<y, z>> \in R => <<x, z>> \in R
    BY <1>1, Order
  <2>3. \A x, y \in group : x # y => <<x, y>> \in R \/ <<y, x>> \in R
    BY <1>1, Order
  <2> QED
    BY <2>1, <2>2, <2>3, First, Zenon
<1>3. \E m \in group : \A z \in group \ {m} : Before(m.id, z.id)
  BY <1>1, <1>2
<1> DEFINE y == CHOOSE y \in group : \A z \in group \ {y} : Before(y.id, z.id)
<1>4. y \in group /\ \A z \in group \ {y} : Before(y.id, z.id)
  BY <1>3
<1>5. \A x : FirstOf(x, group) = {x.id, y.id}
  BY Zenon DEF FirstOf
<1> QED
  BY <1>4, <1>5, Zenon

-----------------------------------------------------------------------------
(* What the detectors read. *)

LEMMA RecordsRead ==
  ASSUME NEW d, IsDataset(d)
  PROVE  /\ Providers(d) \subseteq d.providers /\ Invoices(d) \subseteq d.invoices
         /\ Payments(d) \subseteq d.payments /\ Transfers(d) \subseteq d.transactions
         /\ IsFiniteSet(d.providers) /\ IsFiniteSet(d.invoices)
         /\ IsFiniteSet(d.payments) /\ IsFiniteSet(d.transactions)
         /\ \A p \in d.providers : p.rfc \in Names
         /\ \A i \in d.invoices : i.id \in Names /\ i.rfc \in Names /\ i.day \in Int /\ i.amount \in Int
         /\ \A p \in d.payments : p.id \in Names /\ p.invoice \in Names /\ p.day \in Int /\ p.amount \in Int
         /\ \A t \in d.transactions : /\ t.id \in Names /\ t.from \in Names /\ t.to \in Names
                                      /\ BookedAt(t) \in Int /\ t.amount \in Nat
         /\ \A i, j \in d.invoices : i.id = j.id => i = j
         /\ \A p, q \in d.payments : p.id = q.id => p = q
         /\ \A s, t \in d.transactions : s.id = t.id => s = t
<1>1. Providers(d) \subseteq d.providers /\ Invoices(d) \subseteq d.invoices
  BY DEF Providers, Invoices, Page
<1>2. Payments(d) \subseteq d.payments /\ Transfers(d) \subseteq d.transactions
  BY DEF Payments, Transfers, Page
<1>3. \A t \in d.transactions : t.day \in Int /\ t.hour \in {None} \cup Int
  BY DEF IsDataset
<1>4. \A t \in d.transactions : BookedAt(t) \in Int
  <2> SUFFICES ASSUME NEW t \in d.transactions PROVE BookedAt(t) \in Int
    OBVIOUS
  <2>1. t.day * 24 \in Int /\ (t.hour = None \/ t.hour \in Int)
    BY <1>3
  <2> QED
    BY <2>1 DEF BookedAt
<1> QED
  BY <1>1, <1>2, <1>4 DEF IsDataset, Activities

(* entity_for_account *)
LEMMA EntityIsNamed ==
  ASSUME NEW d, IsDataset(d), NEW no \in Names
  PROVE  EntityOf(d, no) \in Names
  BY DEF EntityOf, IsDataset

LEMMA SignalIs ==
  ASSUME NEW x, NEW y, NEW z
  PROVE  Signal(x, y, z).detector = x /\ Signal(x, y, z).entity = y /\ Signal(x, y, z).sources = z
  BY DEF Signal

(* What a rule may say: of whom, and from which records. *)
SignalsOf(detector) ==
  {s \in [detector : {detector}, entity : Names, sources : SUBSET Names] : s.sources # {}}

LEMMA SignalOf ==
  ASSUME NEW detector, NEW entity \in Names, NEW sources \in SUBSET Names, sources # {}
  PROVE  Signal(detector, entity, sources) \in SignalsOf(detector)
  BY DEF Signal, SignalsOf

LEMMA IdsAre ==
  ASSUME NEW S, S # {}, \A x \in S : x.id \in Names
  PROVE  Ids(S) \subseteq Names /\ Ids(S) # {} /\ \A x \in S : x.id \in Ids(S)
  BY DEF Ids

-----------------------------------------------------------------------------
(* The rules, one by one. *)

(* A cycle is two or three transfers. *)
LEMMA CycleIs ==
  ASSUME NEW d, NEW w \in Cycles(d)
  PROVE  /\ DOMAIN w \in {1..2, 1..3}
         /\ \A i \in DOMAIN w : w[i] \in Transfers(d)
<1>1. \A v \in Pairs(d) : DOMAIN v = 1..2 /\ v[1] \in Transfers(d) /\ v[2] \in Transfers(d)
  BY DEF Pairs
<1>2. CASE w \in Pairs(d)
  BY <1>1, <1>2
<1>3. CASE w \notin Pairs(d)
  <2>1. PICK v \in Pairs(d), t \in Transfers(d) : w = <<v[1], v[2], t>>
    BY <1>3, Zenon DEF Cycles
  <2>2. DOMAIN w = 1..3 /\ w[1] = v[1] /\ w[2] = v[2] /\ w[3] = t
    BY <2>1
  <2> QED
    BY <1>1, <2>1, <2>2
<1> QED
  BY <1>2, <1>3

LEMMA EconomicRootIs ==
  ASSUME NEW d, IsDataset(d), NEW w \in Cycles(d)
  PROVE  EconomicRoot(w) \in Legs(w)
<1>1. DOMAIN w \in {1..2, 1..3} /\ \A i \in DOMAIN w : w[i] \in Transfers(d)
  BY CycleIs
<1> DEFINE paid == {i \in DOMAIN w : w[i].paid # None}
<1>2. CASE paid # {}
  <2>1. paid \in SUBSET Nat
    BY <1>1
  <2>2. \E n \in paid : \A m \in paid : ~(m < n)
    <3> HIDE DEF paid
    <3> QED
      BY <1>2, <2>1, Least
  <2>3. \E n \in paid : \A m \in paid : n <= m
    BY <2>1, <2>2
  <2>4. Min(paid) \in paid
    BY <2>3 DEF Min
  <2>5. EconomicRoot(w) = w[Min(paid)]
    BY <1>2, Zenon DEF EconomicRoot
  <2> QED
    BY <2>4, <2>5 DEF Legs
<1>3. CASE paid = {}
  <2> DEFINE S == Legs(w)
             R == {u \in S \X S : Earlier(u[1], u[2])}
  <2>1. S \subseteq d.transactions /\ S # {} /\ IsFiniteSet(S)
    <3>1. S \subseteq d.transactions
      BY <1>1, RecordsRead DEF Legs
    <3>2. w[1] \in S
      BY <1>1 DEF Legs
    <3> QED
      BY <3>1, <3>2, RecordsRead, FS_Subset
  <2>2. \A x, y \in S : <<x, y>> \in R <=> Earlier(x, y)
    OBVIOUS
  <2> HIDE DEF R, S
  <2>3. \A x \in S : x.id \in Names /\ BookedAt(x) \in Int
    BY <2>1, RecordsRead
  <2>4. \A x, y \in S : x.id = y.id => x = y
    BY <2>1, RecordsRead
  <2>5. \A x \in S : <<x, x>> \notin R
    BY <2>2, <2>3, Order DEF Earlier
  <2>6. \A x, y, z \in S : <<x, y>> \in R /\ <<y, z>> \in R => <<x, z>> \in R
    BY <2>2, <2>3, Order DEF Earlier
  <2>7. \A x, y \in S : x # y => <<x, y>> \in R \/ <<y, x>> \in R
    BY <2>2, <2>3, <2>4, Order DEF Earlier
  <2>8. \E m \in S : \A x \in S \ {m} : <<m, x>> \in R
    BY <2>1, <2>5, <2>6, <2>7, First
  <2>9. \E s \in S : \A t \in S \ {s} : Earlier(s, t)
    BY <2>2, <2>8
  <2> DEFINE r == CHOOSE s \in S : \A t \in S \ {s} : Earlier(s, t)
  <2>10. r \in S
    BY <2>9, Zenon
  <2>11. EconomicRoot(w) = r
    BY <1>3, Zenon DEF EconomicRoot, S
  <2> QED
    BY <2>10, <2>11 DEF S
<1> QED
  BY <1>2, <1>3

LEMMA CircularFlowSignals ==
  ASSUME NEW d, IsDataset(d)
  PROVE  CircularFlow(d) \subseteq SignalsOf("DET-ROUND-TRIP-CYCLE")
<1> SUFFICES ASSUME NEW s \in CircularFlow(d) PROVE s \in SignalsOf("DET-ROUND-TRIP-CYCLE")
  OBVIOUS
<1>1. PICK w \in Cycles(d) : s = Signal("DET-ROUND-TRIP-CYCLE", EconomicRoot(w).from, Ids(Legs(w)))
  BY Zenon DEF CircularFlow
<1>2. EconomicRoot(w) \in Legs(w) /\ \A t \in Legs(w) : t \in d.transactions
  BY EconomicRootIs, CycleIs, RecordsRead DEF Legs
<1>3. EconomicRoot(w).from \in Names /\ \A t \in Legs(w) : t.id \in Names
  BY <1>2, RecordsRead
<1> QED
  BY <1>1, <1>2, <1>3, IdsAre, SignalOf, Zenon

LEMMA RapidPassThroughSignals ==
  ASSUME NEW d, IsDataset(d)
  PROVE  RapidPassThrough(d) \subseteq SignalsOf("DET-RAPID-PASS-THROUGH")
<1> SUFFICES ASSUME NEW s \in RapidPassThrough(d) PROVE s \in SignalsOf("DET-RAPID-PASS-THROUGH")
  OBVIOUS
<1>1. PICK w \in Transfers(d) \X Transfers(d) : s = Signal("DET-RAPID-PASS-THROUGH", w[1].to, Ids(Legs(w)))
  BY Zenon DEF RapidPassThrough
<1>2. DOMAIN w = 1..2 /\ w[1] \in d.transactions /\ w[2] \in d.transactions
  BY RecordsRead
<1>3. Legs(w) # {} /\ (\A t \in Legs(w) : t.id \in Names) /\ w[1].to \in Names
  BY <1>2, RecordsRead DEF Legs
<1> QED
  BY <1>1, <1>3, IdsAre, SignalOf, Zenon

(* Payments of one invoice over one amount, and invoices of one supplier, day
   and amount. *)
Repeats(d, p) == {q \in Payments(d) : q.invoice = p.invoice /\ q.amount = p.amount}

Copies(d, i) == {j \in Invoices(d) : j.rfc = i.rfc /\ j.amount = i.amount /\ j.day = i.day}

LEMMA DuplicatePaymentIs ==
  ASSUME NEW d, NEW s
  PROVE  s \in DuplicatePayment(d) <=>
           \E p \in Payments(d) :
             /\ FirstOf(p, Repeats(d, p)) # {p.id}
             /\ s = Signal("DET-DUPLICATE-PAYMENT", p.invoice, FirstOf(p, Repeats(d, p)))
<1> DEFINE Said(p) == {Signal("DET-DUPLICATE-PAYMENT", p.invoice, x) : x \in {FirstOf(p, Repeats(d, p))} \ {{p.id}}}
<1>1. DuplicatePayment(d) = UNION {Said(p) : p \in Payments(d)}
  BY Zenon DEF DuplicatePayment, Repeats
<1>2. \A p : s \in Said(p) <=>
        /\ FirstOf(p, Repeats(d, p)) # {p.id}
        /\ s = Signal("DET-DUPLICATE-PAYMENT", p.invoice, FirstOf(p, Repeats(d, p)))
  BY Zenon
<1> HIDE DEF Said
<1> QED
  BY <1>1, <1>2, Zenon

LEMMA DuplicateInvoiceIs ==
  ASSUME NEW d, NEW s
  PROVE  s \in DuplicateInvoice(d) <=>
           \E i \in Invoices(d) :
             /\ FirstOf(i, Copies(d, i)) # {i.id}
             /\ s = Signal("DUPLICATE_INVOICE", i.rfc, FirstOf(i, Copies(d, i)))
<1> DEFINE Said(i) == {Signal("DUPLICATE_INVOICE", i.rfc, x) : x \in {FirstOf(i, Copies(d, i))} \ {{i.id}}}
<1>1. DuplicateInvoice(d) = UNION {Said(i) : i \in Invoices(d)}
  BY Zenon DEF DuplicateInvoice, Copies
<1>2. \A i : s \in Said(i) <=>
        /\ FirstOf(i, Copies(d, i)) # {i.id}
        /\ s = Signal("DUPLICATE_INVOICE", i.rfc, FirstOf(i, Copies(d, i)))
  BY Zenon
<1> HIDE DEF Said
<1> QED
  BY <1>1, <1>2, Zenon

LEMMA RepeatsAre ==
  ASSUME NEW d, IsDataset(d), NEW p \in Payments(d)
  PROVE  /\ IsFiniteSet(Repeats(d, p)) /\ p \in Repeats(d, p)
         /\ \A x \in Repeats(d, p) : x.id \in Names
         /\ \A x, y \in Repeats(d, p) : x.id = y.id => x = y
<1>1. Repeats(d, p) \subseteq d.payments /\ p \in Repeats(d, p)
  BY RecordsRead DEF Repeats
<1> QED
  BY <1>1, RecordsRead, FS_Subset

LEMMA CopiesAre ==
  ASSUME NEW d, IsDataset(d), NEW i \in Invoices(d)
  PROVE  /\ IsFiniteSet(Copies(d, i)) /\ i \in Copies(d, i)
         /\ \A x \in Copies(d, i) : x.id \in Names
         /\ \A x, y \in Copies(d, i) : x.id = y.id => x = y
<1>1. Copies(d, i) \subseteq d.invoices /\ i \in Copies(d, i)
  BY RecordsRead DEF Copies
<1> QED
  BY <1>1, RecordsRead, FS_Subset

LEMMA DuplicatePaymentSignals ==
  ASSUME NEW d, IsDataset(d)
  PROVE  DuplicatePayment(d) \subseteq SignalsOf("DET-DUPLICATE-PAYMENT")
<1> SUFFICES ASSUME NEW s \in DuplicatePayment(d) PROVE s \in SignalsOf("DET-DUPLICATE-PAYMENT")
  OBVIOUS
<1>1. PICK p \in Payments(d) : s = Signal("DET-DUPLICATE-PAYMENT", p.invoice, FirstOf(p, Repeats(d, p)))
  BY DuplicatePaymentIs
<1>2. PICK y \in Repeats(d, p) : FirstOf(p, Repeats(d, p)) = {p.id, y.id}
  <2>1. Repeats(d, p) # {}
    BY RepeatsAre
  <2> QED
    BY <2>1, RepeatsAre, FirstOfIs
<1>3. p.invoice \in Names /\ {p.id, y.id} \subseteq Names
  BY RecordsRead, RepeatsAre
<1> QED
  BY <1>1, <1>2, <1>3, SignalOf

LEMMA DuplicateInvoiceSignals ==
  ASSUME NEW d, IsDataset(d)
  PROVE  DuplicateInvoice(d) \subseteq SignalsOf("DUPLICATE_INVOICE")
<1> SUFFICES ASSUME NEW s \in DuplicateInvoice(d) PROVE s \in SignalsOf("DUPLICATE_INVOICE")
  OBVIOUS
<1>1. PICK i \in Invoices(d) : s = Signal("DUPLICATE_INVOICE", i.rfc, FirstOf(i, Copies(d, i)))
  BY DuplicateInvoiceIs
<1>2. PICK y \in Copies(d, i) : FirstOf(i, Copies(d, i)) = {i.id, y.id}
  <2>1. Copies(d, i) # {}
    BY CopiesAre
  <2> QED
    BY <2>1, CopiesAre, FirstOfIs
<1>3. i.rfc \in Names /\ {i.id, y.id} \subseteq Names
  BY RecordsRead, CopiesAre
<1> QED
  BY <1>1, <1>2, <1>3, SignalOf

LEMMA UnusualAmountSignals ==
  ASSUME NEW d, IsDataset(d)
  PROVE  UnusualAmount(d) \subseteq SignalsOf("UNUSUAL_AMOUNT")
<1> SUFFICES ASSUME NEW s \in UnusualAmount(d) PROVE s \in SignalsOf("UNUSUAL_AMOUNT")
  OBVIOUS
<1>1. PICK i \in Invoices(d) : s = Signal("UNUSUAL_AMOUNT", i.rfc, {i.id})
  BY Zenon DEF UnusualAmount
<1>2. i.rfc \in Names /\ {i.id} \subseteq Names
  BY RecordsRead
<1> QED
  BY <1>1, <1>2, SignalOf

LEMMA SupplierConcentrationSignals ==
  ASSUME NEW d, IsDataset(d)
  PROVE  SupplierConcentration(d) \subseteq SignalsOf("SUPPLIER_CONCENTRATION")
<1> SUFFICES ASSUME NEW s \in SupplierConcentration(d) PROVE s \in SignalsOf("SUPPLIER_CONCENTRATION")
  OBVIOUS
<1> DEFINE Sent(payer) == {t \in Transfers(d) : EntityOf(d, t.from) = payer}
           SentTo(payer, dest) == {t \in Sent(payer) : EntityOf(d, t.to) = dest}
           All == {<<EntityOf(d, t.from), EntityOf(d, t.to)>> : t \in Transfers(d)}
           Leans(q) == /\ q[1] # q[2]
                       /\ Total(Sent(q[1])) >= ConcentrationMinTotal
                       /\ 100 * Total(SentTo(q[1], q[2])) >= 70 * Total(Sent(q[1]))
<1>0. SupplierConcentration(d)
        = {Signal("SUPPLIER_CONCENTRATION", pair[2], Ids(SentTo(pair[1], pair[2]))) : pair \in {q \in All : Leans(q)}}
  BY Zenon DEF SupplierConcentration
<1> HIDE DEF Leans
<1>1. PICK q \in All : s = Signal("SUPPLIER_CONCENTRATION", q[2], Ids(SentTo(q[1], q[2])))
  <2> HIDE DEF All, SentTo
  <2> QED
    BY <1>0, Zenon
<1>2. PICK t \in Transfers(d) : q = <<EntityOf(d, t.from), EntityOf(d, t.to)>>
  OBVIOUS
<1>3. q[2] \in Names
  BY <1>2, RecordsRead, EntityIsNamed
<1>4. t \in SentTo(q[1], q[2]) /\ \A x \in SentTo(q[1], q[2]) : x.id \in Names
  BY <1>2, RecordsRead
<1> HIDE DEF SentTo
<1> QED
  BY <1>1, <1>3, <1>4, IdsAre, SignalOf

LEMMA InvoicePaymentMismatchSignals ==
  ASSUME NEW d, IsDataset(d)
  PROVE  InvoicePaymentMismatch(d) \subseteq SignalsOf("INVOICE_PAYMENT_MISMATCH")
<1> SUFFICES ASSUME NEW s \in InvoicePaymentMismatch(d) PROVE s \in SignalsOf("INVOICE_PAYMENT_MISMATCH")
  OBVIOUS
<1> DEFINE PaidFor(i) == {p \in Payments(d) : p.invoice = i.id}
<1>1. PICK i \in Invoices(d) : s = Signal("INVOICE_PAYMENT_MISMATCH", i.rfc, {i.id} \cup Ids(PaidFor(i)))
  BY Zenon DEF InvoicePaymentMismatch
<1>2. i.rfc \in Names /\ {i.id} \cup Ids(PaidFor(i)) \subseteq Names
  BY RecordsRead DEF Ids
<1>3. {i.id} \cup Ids(PaidFor(i)) # {}
  OBVIOUS
<1> QED
  BY <1>1, <1>2, <1>3, SignalOf, Zenon

(* What goes into an account, and out of it. *)
Into(d, no) == {t \in Transfers(d) : t.to = no}

OutOf(d, no) == {t \in Transfers(d) : t.from = no}

FansIn(d, no) == Cardinality({u.from : u \in Into(d, no)}) >= 3 /\ Total(Into(d, no)) >= FanMinTotal

FansOut(d, no) == Cardinality({u.to : u \in OutOf(d, no)}) >= 3 /\ Total(OutOf(d, no)) >= FanMinTotal

LEMMA FanInIs ==
  ASSUME NEW d, NEW s
  PROVE  s \in FanIn(d) <=>
           \E t \in Transfers(d) : FansIn(d, t.to) /\ s = Signal("FAN_IN", t.to, Ids(Into(d, t.to)))
<1>1. FanIn(d) = {Signal("FAN_IN", no, Ids(Into(d, no))) : no \in {t.to : t \in {x \in Transfers(d) : FansIn(d, x.to)}}}
  BY Zenon DEF FanIn, Into, FansIn
<1> QED
  BY <1>1, Zenon

LEMMA FanOutIs ==
  ASSUME NEW d, NEW s
  PROVE  s \in FanOut(d) <=>
           \E t \in Transfers(d) : FansOut(d, t.from) /\ s = Signal("FAN_OUT", t.from, Ids(OutOf(d, t.from)))
<1>1. FanOut(d) = {Signal("FAN_OUT", no, Ids(OutOf(d, no))) : no \in {t.from : t \in {x \in Transfers(d) : FansOut(d, x.from)}}}
  BY Zenon DEF FanOut, OutOf, FansOut
<1> QED
  BY <1>1, Zenon

LEMMA FanSignals ==
  ASSUME NEW d, IsDataset(d)
  PROVE  FanIn(d) \subseteq SignalsOf("FAN_IN") /\ FanOut(d) \subseteq SignalsOf("FAN_OUT")
<1>1. ASSUME NEW s \in FanIn(d) PROVE s \in SignalsOf("FAN_IN")
  <2>1. PICK t \in Transfers(d) : s = Signal("FAN_IN", t.to, Ids(Into(d, t.to)))
    BY <1>1, FanInIs
  <2>2. t \in Into(d, t.to) /\ (\A x \in Into(d, t.to) : x.id \in Names) /\ t.to \in Names
    BY <2>1, RecordsRead DEF Into
  <2> QED
    BY <2>1, <2>2, IdsAre, SignalOf
<1>2. ASSUME NEW s \in FanOut(d) PROVE s \in SignalsOf("FAN_OUT")
  <2>1. PICK t \in Transfers(d) : s = Signal("FAN_OUT", t.from, Ids(OutOf(d, t.from)))
    BY <1>2, FanOutIs
  <2>2. t \in OutOf(d, t.from) /\ (\A x \in OutOf(d, t.from) : x.id \in Names) /\ t.from \in Names
    BY <2>1, RecordsRead DEF OutOf
  <2> QED
    BY <2>1, <2>2, IdsAre, SignalOf
<1> QED
  BY <1>1, <1>2

LEMMA ShellNetworkIs ==
  ASSUME NEW d
  PROVE  /\ \A s \in ShellNetwork(d) :
              \E p, q \in Providers(d) :
                Before(p.rfc, q.rfc) /\ ShellPair(d, p, q) /\ s = Signal("SHELL_NETWORK", p.rfc, {p.rfc, q.rfc})
         /\ \A p, q \in Providers(d) :
              Before(p.rfc, q.rfc) /\ ShellPair(d, p, q)
                => Signal("SHELL_NETWORK", p.rfc, {p.rfc, q.rfc}) \in ShellNetwork(d)
<1> DEFINE Linked == {v \in Providers(d) \X Providers(d) : Before(v[1].rfc, v[2].rfc) /\ ShellPair(d, v[1], v[2])}
           Said(w) == Signal("SHELL_NETWORK", w[1].rfc, {w[1].rfc, w[2].rfc})
<1>1. ShellNetwork(d) = {Said(w) : w \in Linked}
  BY Zenon DEF ShellNetwork
<1>2. \A w \in Linked : /\ w[1] \in Providers(d) /\ w[2] \in Providers(d)
                        /\ Before(w[1].rfc, w[2].rfc) /\ ShellPair(d, w[1], w[2])
  OBVIOUS
<1>3. \A p, q \in Providers(d) : Before(p.rfc, q.rfc) /\ ShellPair(d, p, q) => <<p, q>> \in Linked
  OBVIOUS
<1>4. \A p, q : Said(<<p, q>>) = Signal("SHELL_NETWORK", p.rfc, {p.rfc, q.rfc})
  OBVIOUS
<1>5. ASSUME NEW s \in ShellNetwork(d)
      PROVE  \E p, q \in Providers(d) :
               Before(p.rfc, q.rfc) /\ ShellPair(d, p, q) /\ s = Signal("SHELL_NETWORK", p.rfc, {p.rfc, q.rfc})
  <2>1. PICK w \in Linked : s = Said(w)
    <3> HIDE DEF Linked, Said
    <3> QED
      BY <1>1, <1>5
  <2> WITNESS w[1] \in Providers(d), w[2] \in Providers(d)
  <2> QED
    BY <1>2, <2>1
<1> HIDE DEF Linked, Said
<1>6. \A p, q \in Providers(d) :
        Before(p.rfc, q.rfc) /\ ShellPair(d, p, q)
          => Signal("SHELL_NETWORK", p.rfc, {p.rfc, q.rfc}) \in ShellNetwork(d)
  BY <1>1, <1>3, <1>4, Zenon
<1> QED
  BY <1>5, <1>6

LEMMA ShellNetworkSignals ==
  ASSUME NEW d, IsDataset(d)
  PROVE  ShellNetwork(d) \subseteq SignalsOf("SHELL_NETWORK")
<1> SUFFICES ASSUME NEW s \in ShellNetwork(d) PROVE s \in SignalsOf("SHELL_NETWORK")
  OBVIOUS
<1>1. ASSUME NEW p \in Providers(d), NEW q \in Providers(d), s = Signal("SHELL_NETWORK", p.rfc, {p.rfc, q.rfc})
      PROVE  s \in SignalsOf("SHELL_NETWORK")
  <2>1. p.rfc \in Names /\ {p.rfc, q.rfc} \subseteq Names
    BY RecordsRead
  <2> QED
    BY <1>1, <2>1, SignalOf
<1> QED
  BY <1>1, ShellNetworkIs, Zenon

LEMMA Correlation69BIs ==
  ASSUME NEW d, NEW s
  PROVE  s \in Correlation69B(d) <=>
           \E p \in Providers(d) :
             Listed(p) /\ Activity(d, p.rfc) # {} /\ s = Signal("69B_CORRELATION", p.rfc, Activity(d, p.rfc))
BY Zenon DEF Correlation69B

LEMMA Correlation69BSignals ==
  ASSUME NEW d, IsDataset(d)
  PROVE  Correlation69B(d) \subseteq SignalsOf("69B_CORRELATION")
<1> SUFFICES ASSUME NEW s \in Correlation69B(d) PROVE s \in SignalsOf("69B_CORRELATION")
  OBVIOUS
<1>1. PICK p \in Providers(d) :
        Activity(d, p.rfc) # {} /\ s = Signal("69B_CORRELATION", p.rfc, Activity(d, p.rfc))
  BY Correlation69BIs
<1>2. Activity(d, p.rfc) \subseteq Names
  BY RecordsRead DEF Activity, Ids
<1>3. p.rfc \in Names
  BY RecordsRead
<1> QED
  BY <1>1, <1>2, <1>3, SignalOf

LEMMA UnusualTimingIs ==
  ASSUME NEW d
  PROVE  /\ \A s \in UnusualTiming(d) :
              \/ \E p \in Payments(d), i \in Invoices(d) :
                   PaidAtOnce(p, i) /\ s = Signal("UNUSUAL_TIMING", i.rfc, {p.id, i.id})
              \/ \E in, out \in Transfers(d) :
                   Hops(in, out) /\ s = Signal("UNUSUAL_TIMING", in.to, Ids(Legs(<<in, out>>)))
         /\ \A p \in Payments(d), i \in Invoices(d) :
              PaidAtOnce(p, i) => Signal("UNUSUAL_TIMING", i.rfc, {p.id, i.id}) \in UnusualTiming(d)
         /\ \A in, out \in Transfers(d) :
              Hops(in, out) => Signal("UNUSUAL_TIMING", in.to, Ids(Legs(<<in, out>>))) \in UnusualTiming(d)
<1> DEFINE Paid == {v \in Payments(d) \X Invoices(d) : PaidAtOnce(v[1], v[2])}
           Gone == {v \in Transfers(d) \X Transfers(d) : Hops(v[1], v[2])}
           SaidOfPaid(w) == Signal("UNUSUAL_TIMING", w[2].rfc, {w[1].id, w[2].id})
           SaidOfGone(w) == Signal("UNUSUAL_TIMING", w[1].to, Ids(Legs(w)))
<1>1. UnusualTiming(d) = {SaidOfPaid(w) : w \in Paid} \cup {SaidOfGone(w) : w \in Gone}
  BY Zenon DEF UnusualTiming
<1>2. \A w \in Paid : w[1] \in Payments(d) /\ w[2] \in Invoices(d) /\ PaidAtOnce(w[1], w[2])
  OBVIOUS
<1>3. \A w \in Gone : w[1] \in Transfers(d) /\ w[2] \in Transfers(d) /\ Hops(w[1], w[2]) /\ w = <<w[1], w[2]>>
  OBVIOUS
<1>4. \A p \in Payments(d), i \in Invoices(d) : PaidAtOnce(p, i) => <<p, i>> \in Paid
  OBVIOUS
<1>5. \A in, out \in Transfers(d) : Hops(in, out) => <<in, out>> \in Gone
  OBVIOUS
<1>6. \A p, i : SaidOfPaid(<<p, i>>) = Signal("UNUSUAL_TIMING", i.rfc, {p.id, i.id})
  OBVIOUS
<1>7. \A in, out : SaidOfGone(<<in, out>>) = Signal("UNUSUAL_TIMING", in.to, Ids(Legs(<<in, out>>)))
  OBVIOUS
<1>8. ASSUME NEW s \in UnusualTiming(d)
      PROVE  \/ \E p \in Payments(d), i \in Invoices(d) :
                  PaidAtOnce(p, i) /\ s = Signal("UNUSUAL_TIMING", i.rfc, {p.id, i.id})
             \/ \E in, out \in Transfers(d) :
                  Hops(in, out) /\ s = Signal("UNUSUAL_TIMING", in.to, Ids(Legs(<<in, out>>)))
  <2>1. (\E w \in Paid : s = SaidOfPaid(w)) \/ (\E w \in Gone : s = SaidOfGone(w))
    <3> HIDE DEF Paid, Gone, SaidOfPaid, SaidOfGone
    <3> QED
      BY <1>1, <1>8
  <2>2. ASSUME NEW w \in Paid, s = SaidOfPaid(w)
        PROVE  \E p \in Payments(d), i \in Invoices(d) :
                 PaidAtOnce(p, i) /\ s = Signal("UNUSUAL_TIMING", i.rfc, {p.id, i.id})
    <3> WITNESS w[1] \in Payments(d), w[2] \in Invoices(d)
    <3> QED
      BY <1>2, <2>2
  <2>3. ASSUME NEW w \in Gone, s = SaidOfGone(w)
        PROVE  \E in, out \in Transfers(d) :
                 Hops(in, out) /\ s = Signal("UNUSUAL_TIMING", in.to, Ids(Legs(<<in, out>>)))
    <3>1. w = <<w[1], w[2]>>
      BY <1>3
    <3> WITNESS w[1] \in Transfers(d), w[2] \in Transfers(d)
    <3> QED
      BY <1>3, <2>3, <3>1, Zenon
  <2> QED
    BY <2>1, <2>2, <2>3, Zenon
<1> HIDE DEF Paid, Gone, SaidOfPaid, SaidOfGone
<1>9. \A p \in Payments(d), i \in Invoices(d) :
        PaidAtOnce(p, i) => Signal("UNUSUAL_TIMING", i.rfc, {p.id, i.id}) \in UnusualTiming(d)
  BY <1>1, <1>4, <1>6, Zenon
<1>10. \A in, out \in Transfers(d) :
         Hops(in, out) => Signal("UNUSUAL_TIMING", in.to, Ids(Legs(<<in, out>>))) \in UnusualTiming(d)
  BY <1>1, <1>5, <1>7, Zenon
<1> QED
  BY <1>8, <1>9, <1>10, Zenon

LEMMA UnusualTimingSignals ==
  ASSUME NEW d, IsDataset(d)
  PROVE  UnusualTiming(d) \subseteq SignalsOf("UNUSUAL_TIMING")
<1> SUFFICES ASSUME NEW s \in UnusualTiming(d) PROVE s \in SignalsOf("UNUSUAL_TIMING")
  OBVIOUS
<1>1. ASSUME NEW p \in Payments(d), NEW i \in Invoices(d), s = Signal("UNUSUAL_TIMING", i.rfc, {p.id, i.id})
      PROVE  s \in SignalsOf("UNUSUAL_TIMING")
  <2>1. i.rfc \in Names /\ {p.id, i.id} \subseteq Names
    BY RecordsRead
  <2> QED
    BY <1>1, <2>1, SignalOf
<1>2. ASSUME NEW in \in Transfers(d), NEW out \in Transfers(d),
             s = Signal("UNUSUAL_TIMING", in.to, Ids(Legs(<<in, out>>)))
      PROVE  s \in SignalsOf("UNUSUAL_TIMING")
  <2>1. in \in Legs(<<in, out>>) /\ \A t \in Legs(<<in, out>>) : t \in {in, out}
    BY DEF Legs
  <2>2. in.to \in Names /\ \A t \in Legs(<<in, out>>) : t.id \in Names
    BY <2>1, RecordsRead
  <2> QED
    BY <1>2, <2>1, <2>2, IdsAre, SignalOf, Zenon
<1> QED
  BY <1>1, <1>2, UnusualTimingIs, Zenon

Controls == {"ENT-VENDOR-CONTROL-A", "ENT-VENDOR-CONTROL-B"}

LEMMA SharedAddressControlIs ==
  ASSUME NEW d, NEW s
  PROVE  s \in SharedAddressControl(d) <=>
           /\ Controls \subseteq Ids(d.entities)
           /\ s = Signal("DET-SHARED-ADDRESS-CONTROL", "ENT-VENDOR-CONTROL-A", Controls)
<1>1. SharedAddressControl(d)
        = {Signal("DET-SHARED-ADDRESS-CONTROL", "ENT-VENDOR-CONTROL-A", x) : x \in {Controls} \cap SUBSET Ids(d.entities)}
  BY Zenon DEF SharedAddressControl, Controls
<1> QED
  BY <1>1, Zenon

LEMMA SharedAddressControlSignals ==
  ASSUME NEW d, IsDataset(d)
  PROVE  SharedAddressControl(d) \subseteq SignalsOf("DET-SHARED-ADDRESS-CONTROL")
<1> SUFFICES ASSUME NEW s \in SharedAddressControl(d) PROVE s \in SignalsOf("DET-SHARED-ADDRESS-CONTROL")
  OBVIOUS
<1>1. Controls \subseteq Ids(d.entities)
  BY SharedAddressControlIs
<1>2. Ids(d.entities) \subseteq Names
  BY DEF IsDataset, Ids
<1>3. Controls \in SUBSET Names /\ Controls # {} /\ "ENT-VENDOR-CONTROL-A" \in Names
  BY <1>1, <1>2 DEF Controls
<1>4. s = Signal("DET-SHARED-ADDRESS-CONTROL", "ENT-VENDOR-CONTROL-A", Controls)
  BY SharedAddressControlIs
<1> QED
  BY <1>3, <1>4, SignalOf

-----------------------------------------------------------------------------
(* All of them. *)

Signals == {s \in [detector : Detectors, entity : Names, sources : SUBSET Names] : s.sources # {}}

LEMMA SignalsAreFinite == IsFiniteSet(Signals)
<1>1. IsFiniteSet(Detectors)
  <2> DEFINE First5 == {"DET-ROUND-TRIP-CYCLE", "DET-RAPID-PASS-THROUGH", "DET-DUPLICATE-PAYMENT", "DUPLICATE_INVOICE",
                        "INVOICE_PAYMENT_MISMATCH"}
             Next4 == {"SHELL_NETWORK", "FAN_IN", "FAN_OUT", "SUPPLIER_CONCENTRATION"}
             Last4 == {"UNUSUAL_AMOUNT", "UNUSUAL_TIMING", "69B_CORRELATION", "DET-SHARED-ADDRESS-CONTROL"}
  <2>1. \A a, b, c, e : IsFiniteSet({a, b, c, e})
    <3> TAKE a, b, c, e
    <3>1. IsFiniteSet({} \cup {a})
      BY FS_EmptySet, FS_AddElement
    <3>2. IsFiniteSet({} \cup {a} \cup {b})
      BY <3>1, FS_AddElement
    <3>3. IsFiniteSet({} \cup {a} \cup {b} \cup {c})
      BY <3>2, FS_AddElement
    <3>4. IsFiniteSet({} \cup {a} \cup {b} \cup {c} \cup {e})
      BY <3>3, FS_AddElement
    <3>5. {} \cup {a} \cup {b} \cup {c} \cup {e} = {a, b, c, e}
      OBVIOUS
    <3> QED
      BY <3>4, <3>5
  <2>2. IsFiniteSet(First5)
    <3>1. First5 = {"DET-ROUND-TRIP-CYCLE", "DET-RAPID-PASS-THROUGH", "DET-DUPLICATE-PAYMENT", "DUPLICATE_INVOICE"}
                     \cup {"INVOICE_PAYMENT_MISMATCH"}
      OBVIOUS
    <3>2. IsFiniteSet({"DET-ROUND-TRIP-CYCLE", "DET-RAPID-PASS-THROUGH", "DET-DUPLICATE-PAYMENT", "DUPLICATE_INVOICE"})
      BY <2>1, Zenon
    <3> QED
      BY <3>1, <3>2, FS_AddElement
  <2>3. IsFiniteSet(Next4) /\ IsFiniteSet(Last4)
    BY <2>1
  <2>4. Detectors = First5 \cup Next4 \cup Last4
    BY DEF Detectors
  <2> HIDE DEF First5, Next4, Last4
  <2> QED
    BY <2>2, <2>3, <2>4, FS_Union
<1> DEFINE Space == (Detectors \X Names) \X SUBSET Names
           Read == [w \in Space |-> Signal(w[1][1], w[1][2], w[2])]
           Said == {Read[w] : w \in Space}
<1>2. IsFiniteSet(Space)
  BY <1>1, NamesAssumption, FS_Product, FS_SUBSET
<1>3. IsFiniteSet(Said)
  <2> HIDE DEF Space
  <2>1. Read \in Surjection(Space, Said)
    BY DEF Surjection
  <2> HIDE DEF Read, Said
  <2> QED
    BY <1>2, <2>1, FS_Surjection
<1>4. Signals \subseteq Said
  <2> SUFFICES ASSUME NEW s \in Signals PROVE s \in Said
    OBVIOUS
  <2>1. s = Signal(s.detector, s.entity, s.sources) /\ s.detector \in Detectors /\ s.entity \in Names /\ s.sources \in SUBSET Names
    BY DEF Signals, Signal
  <2> DEFINE w == <<<<s.detector, s.entity>>, s.sources>>
  <2>2. w \in Space /\ Read[w] = Signal(s.detector, s.entity, s.sources)
    BY <2>1
  <2> HIDE DEF Read, Space, w
  <2> QED
    BY <2>1, <2>2
<1> HIDE DEF Said
<1> QED
  BY <1>3, <1>4, FS_Subset

(* Each signal is its rule's. *)
LEMMA Found ==
  ASSUME NEW d, IsDataset(d)
  PROVE  /\ RunAllDetectors(d) \subseteq Signals /\ IsFiniteSet(RunAllDetectors(d))
         /\ \A s \in RunAllDetectors(d) :
              /\ s.detector = "DET-ROUND-TRIP-CYCLE" => s \in CircularFlow(d)
              /\ s.detector = "DET-RAPID-PASS-THROUGH" => s \in RapidPassThrough(d)
              /\ s.detector = "DET-DUPLICATE-PAYMENT" => s \in DuplicatePayment(d)
              /\ s.detector = "DUPLICATE_INVOICE" => s \in DuplicateInvoice(d)
              /\ s.detector = "SHELL_NETWORK" => s \in ShellNetwork(d)
              /\ s.detector = "FAN_IN" => s \in FanIn(d)
              /\ s.detector = "FAN_OUT" => s \in FanOut(d)
              /\ s.detector = "UNUSUAL_TIMING" => s \in UnusualTiming(d)
              /\ s.detector = "69B_CORRELATION" => s \in Correlation69B(d)
              /\ s.detector = "DET-SHARED-ADDRESS-CONTROL" => s \in SharedAddressControl(d)
<1>1. \A detector \in Detectors : SignalsOf(detector) \subseteq Signals
  BY DEF SignalsOf, Signals
<1>2. \A detector : \A s \in SignalsOf(detector) : s.detector = detector
  BY DEF SignalsOf
<1>3. /\ "DET-ROUND-TRIP-CYCLE" \in Detectors /\ "DET-RAPID-PASS-THROUGH" \in Detectors
      /\ "DET-DUPLICATE-PAYMENT" \in Detectors /\ "DUPLICATE_INVOICE" \in Detectors
      /\ "INVOICE_PAYMENT_MISMATCH" \in Detectors /\ "SHELL_NETWORK" \in Detectors
      /\ "FAN_IN" \in Detectors /\ "FAN_OUT" \in Detectors /\ "SUPPLIER_CONCENTRATION" \in Detectors
      /\ "UNUSUAL_AMOUNT" \in Detectors /\ "UNUSUAL_TIMING" \in Detectors
      /\ "69B_CORRELATION" \in Detectors /\ "DET-SHARED-ADDRESS-CONTROL" \in Detectors
  BY DEF Detectors
<1>4. /\ CircularFlow(d) \subseteq SignalsOf("DET-ROUND-TRIP-CYCLE")
      /\ RapidPassThrough(d) \subseteq SignalsOf("DET-RAPID-PASS-THROUGH")
      /\ DuplicatePayment(d) \subseteq SignalsOf("DET-DUPLICATE-PAYMENT")
      /\ DuplicateInvoice(d) \subseteq SignalsOf("DUPLICATE_INVOICE")
      /\ UnusualAmount(d) \subseteq SignalsOf("UNUSUAL_AMOUNT")
      /\ SupplierConcentration(d) \subseteq SignalsOf("SUPPLIER_CONCENTRATION")
      /\ InvoicePaymentMismatch(d) \subseteq SignalsOf("INVOICE_PAYMENT_MISMATCH")
  BY CircularFlowSignals, RapidPassThroughSignals, DuplicatePaymentSignals, DuplicateInvoiceSignals,
     UnusualAmountSignals, SupplierConcentrationSignals, InvoicePaymentMismatchSignals
<1>5. /\ FanIn(d) \subseteq SignalsOf("FAN_IN") /\ FanOut(d) \subseteq SignalsOf("FAN_OUT")
      /\ ShellNetwork(d) \subseteq SignalsOf("SHELL_NETWORK")
      /\ Correlation69B(d) \subseteq SignalsOf("69B_CORRELATION")
      /\ UnusualTiming(d) \subseteq SignalsOf("UNUSUAL_TIMING")
      /\ SharedAddressControl(d) \subseteq SignalsOf("DET-SHARED-ADDRESS-CONTROL")
  BY FanSignals, ShellNetworkSignals, Correlation69BSignals, UnusualTimingSignals, SharedAddressControlSignals
<1>6. RunAllDetectors(d) \subseteq Signals
  BY <1>1, <1>3, <1>4, <1>5 DEF RunAllDetectors
<1>7. IsFiniteSet(RunAllDetectors(d))
  BY <1>6, SignalsAreFinite, FS_Subset
<1>8. ASSUME NEW s \in RunAllDetectors(d)
      PROVE  \/ s \in CircularFlow(d) /\ s.detector = "DET-ROUND-TRIP-CYCLE"
             \/ s \in RapidPassThrough(d) /\ s.detector = "DET-RAPID-PASS-THROUGH"
             \/ s \in DuplicatePayment(d) /\ s.detector = "DET-DUPLICATE-PAYMENT"
             \/ s \in DuplicateInvoice(d) /\ s.detector = "DUPLICATE_INVOICE"
             \/ s.detector \in {"UNUSUAL_AMOUNT", "SUPPLIER_CONCENTRATION", "INVOICE_PAYMENT_MISMATCH"}
             \/ s \in FanIn(d) /\ s.detector = "FAN_IN"
             \/ s \in FanOut(d) /\ s.detector = "FAN_OUT"
             \/ s \in ShellNetwork(d) /\ s.detector = "SHELL_NETWORK"
             \/ s \in Correlation69B(d) /\ s.detector = "69B_CORRELATION"
             \/ s \in UnusualTiming(d) /\ s.detector = "UNUSUAL_TIMING"
             \/ s \in SharedAddressControl(d) /\ s.detector = "DET-SHARED-ADDRESS-CONTROL"
  BY <1>2, <1>4, <1>5, <1>8 DEF RunAllDetectors
<1> QED
  BY <1>6, <1>7, <1>8

-----------------------------------------------------------------------------
(* The leads made of them. *)

Group(d, detector, entity) == {x \in RunAllDetectors(d) : x.detector = detector /\ x.entity = entity}

LeadOf(d, detector, entity) == Lead(detector, entity, Group(d, detector, entity))

LEMMA LeadHas ==
  ASSUME NEW d, NEW detector, NEW entity
  PROVE  /\ LeadOf(d, detector, entity).detector = detector /\ LeadOf(d, detector, entity).entity = entity
         /\ LeadOf(d, detector, entity).signals = Group(d, detector, entity)
         /\ LeadOf(d, detector, entity).risk_score = RiskScore(detector, Cardinality(Group(d, detector, entity)))
BY DEF LeadOf, Lead

LEMMA LeadIdIs ==
  ASSUME NEW d, NEW detector, NEW entity
  PROVE  LeadOf(d, detector, entity).lead_id
           = <<detector, Anchor(detector, entity, UNION {s.sources : s \in Group(d, detector, entity)})>>
BY DEF LeadOf, Lead

LEMMA GroupIs ==
  ASSUME NEW d, IsDataset(d), NEW detector, NEW entity, Group(d, detector, entity) # {}
  PROVE  /\ IsFiniteSet(Group(d, detector, entity)) /\ Cardinality(Group(d, detector, entity)) \in Nat \ {0}
         /\ detector \in Detectors /\ entity \in Names
         /\ \A s \in Group(d, detector, entity) :
              s \in Signals /\ s.detector = detector /\ s.entity = entity
<1>1. \A s \in Group(d, detector, entity) : s \in Signals /\ s.detector = detector /\ s.entity = entity
  BY Found DEF Group
<1>2. IsFiniteSet(Group(d, detector, entity))
  <2>1. Group(d, detector, entity) \subseteq RunAllDetectors(d)
    BY DEF Group
  <2> QED
    BY <2>1, Found, FS_Subset
<1>3. Cardinality(Group(d, detector, entity)) \in Nat \ {0}
  BY <1>2, FS_CardinalityType, FS_EmptySet
<1>4. detector \in Detectors /\ entity \in Names
  BY <1>1 DEF Signals
<1> QED
  BY <1>1, <1>2, <1>3, <1>4

LEMMA RunAllIs ==
  ASSUME NEW d, IsDataset(d)
  PROVE  /\ \A l \in RunAll(d) : /\ l = LeadOf(d, l.detector, l.entity)
                                 /\ Group(d, l.detector, l.entity) # {}
         /\ \A detector, entity : Group(d, detector, entity) # {} => LeadOf(d, detector, entity) \in RunAll(d)
<1>1. RunAll(d) = {LeadOf(d, s.detector, s.entity) : s \in RunAllDetectors(d)}
  BY Zenon DEF RunAll, AggregateSignals, LeadOf, Group
<1>2. \A s \in RunAllDetectors(d) : s \in Group(d, s.detector, s.entity)
  BY DEF Group
<1>3. ASSUME NEW l \in RunAll(d)
      PROVE  l = LeadOf(d, l.detector, l.entity) /\ Group(d, l.detector, l.entity) # {}
  <2>1. PICK s \in RunAllDetectors(d) : l = LeadOf(d, s.detector, s.entity)
    BY <1>1, <1>3, Zenon
  <2>2. l.detector = s.detector /\ l.entity = s.entity
    BY <2>1, LeadHas
  <2> QED
    BY <1>2, <2>1, <2>2, Zenon
<1>4. ASSUME NEW detector, NEW entity, Group(d, detector, entity) # {}
      PROVE  LeadOf(d, detector, entity) \in RunAll(d)
  <2>1. PICK s \in RunAllDetectors(d) : s.detector = detector /\ s.entity = entity
    BY <1>4 DEF Group
  <2> QED
    BY <1>1, <2>1, Zenon
<1> QED
  BY <1>3, <1>4

(* RiskScore, case by case: at least what the first signal counts, and more
   signals never count for less. *)
LEMMA WeightIs ==
  ASSUME NEW detector
  PROVE  Weight(detector) \in {98, 88, 85, 80, 78, 72, 70, 62, 55, 35, 30}
BY DEF Weight

LEMMA RiskScoreIs ==
  ASSUME NEW detector, NEW n \in Nat \ {0}
  PROVE  LET score == Weight(detector) * 100 + (n - 1) * Weight(detector) * 15
         IN RiskScore(detector, n) = IF score <= 10000 THEN score ELSE 10000
<1> DEFINE score == Weight(detector) * 100 + (n - 1) * Weight(detector) * 15
<1>1. score \in Int
  BY WeightIs
<1>2. \A x \in Int : Min({10000, x}) = IF x <= 10000 THEN x ELSE 10000
  BY DEF Min
<1>3. RiskScore(detector, n) = Min({10000, score})
  BY DEF RiskScore
<1> HIDE DEF score
<1>4. RiskScore(detector, n) = IF score <= 10000 THEN score ELSE 10000
  BY <1>1, <1>2, <1>3
<1> QED
  BY <1>4 DEF score

LEMMA RiskScoreGrows ==
  ASSUME NEW detector, NEW n \in Nat \ {0}, NEW k \in Nat, n <= k
  PROVE  /\ RiskScore(detector, n) \in Nat /\ RiskScore(detector, n) <= RiskScore(detector, k)
         /\ RiskScore(detector, n) >= Weight(detector) * 100
         /\ RiskScore(detector, 1) = Weight(detector) * 100
<1> DEFINE W == Weight(detector)
           Score(x) == W * 100 + (x - 1) * W * 15
<1>1. W \in {98, 88, 85, 80, 78, 72, 70, 62, 55, 35, 30}
  BY WeightIs
<1>2. \A v \in {98, 88, 85, 80, 78, 72, 70, 62, 55, 35, 30} :
        /\ v * 100 + (n - 1) * v * 15 <= v * 100 + (k - 1) * v * 15
        /\ v * 100 + (n - 1) * v * 15 >= v * 100 /\ v * 100 <= 10000
        /\ v * 100 + (1 - 1) * v * 15 = v * 100
        /\ v * 100 \in Nat /\ v * 100 + (n - 1) * v * 15 \in Nat /\ v * 100 + (k - 1) * v * 15 \in Nat
  OBVIOUS
<1>3. /\ Score(n) <= Score(k) /\ Score(n) >= W * 100 /\ W * 100 <= 10000 /\ Score(1) = W * 100
      /\ W * 100 \in Nat /\ Score(n) \in Nat /\ Score(k) \in Nat
  <2> HIDE DEF W
  <2> QED
    BY <1>1, <1>2
<1>4. \A x \in Nat \ {0} : RiskScore(detector, x) = IF Score(x) <= 10000 THEN Score(x) ELSE 10000
  BY RiskScoreIs
<1>5. k \in Nat \ {0} /\ 1 \in Nat \ {0}
  OBVIOUS
<1> HIDE DEF W, Score
<1> QED
  BY <1>3, <1>4, <1>5 DEF W

-----------------------------------------------------------------------------
(* The context rules say one thing of an entity. *)
LEMMA ContextIsOneSignal ==
  ASSUME NEW d, IsDataset(d), NEW detector \in {"69B_CORRELATION", "DET-SHARED-ADDRESS-CONTROL"}, NEW entity,
         Group(d, detector, entity) # {}
  PROVE  Cardinality(Group(d, detector, entity)) = 1
<1> DEFINE G == Group(d, detector, entity)
<1>1. \A s \in G : s \in RunAllDetectors(d) /\ s.detector = detector /\ s.entity = entity
  BY DEF Group
<1>2. ASSUME NEW s \in G
      PROVE  s = Signal(detector, entity, IF detector = "69B_CORRELATION" THEN Activity(d, entity) ELSE Controls)
  <2>1. CASE detector = "69B_CORRELATION"
    <3>1. s \in Correlation69B(d)
      BY <1>1, <2>1, Found
    <3>2. PICK p \in Providers(d) : s = Signal("69B_CORRELATION", p.rfc, Activity(d, p.rfc))
      BY <3>1, Correlation69BIs
    <3>3. s.entity = p.rfc
      BY <3>2, SignalIs
    <3>4. p.rfc = entity
      BY <1>1, <3>3
    <3> QED
      BY <2>1, <3>2, <3>4
  <2>2. CASE detector = "DET-SHARED-ADDRESS-CONTROL"
    <3>1. s \in SharedAddressControl(d)
      BY <1>1, <2>2, Found
    <3>2. s = Signal("DET-SHARED-ADDRESS-CONTROL", "ENT-VENDOR-CONTROL-A", Controls)
      BY <3>1, SharedAddressControlIs
    <3>3. s.entity = "ENT-VENDOR-CONTROL-A"
      BY <3>2, SignalIs
    <3> QED
      BY <1>1, <2>2, <3>2, <3>3
  <2> QED
    BY <2>1, <2>2
<1>3. \E s : G = {s}
  <2> DEFINE x == Signal(detector, entity, IF detector = "69B_CORRELATION" THEN Activity(d, entity) ELSE Controls)
  <2>1. \A s \in G : s = x
    BY <1>2
  <2> HIDE DEF G, x
  <2>2. G # {}
    BY DEF G
  <2>3. G = {x}
    BY <2>1, <2>2
  <2> QED
    BY <2>3
<1> QED
  BY <1>3, FS_Singleton

-----------------------------------------------------------------------------
(* Where timing is told once of anybody, the rule alone decides whether a lead
   is to be pursued: the rules below the threshold say one thing each, and
   further signals of the others only add to their score. *)
LEMMA ScoredByRule ==
  ASSUME NEW d, IsDataset(d), \A s, u \in UnusualTiming(d) : s.entity = u.entity => s = u,
         NEW l \in RunAll(d)
  PROVE  /\ l.lead_id[1] = l.detector
         /\ l.risk_score >= PursueThreshold <=> Weight(l.detector) * 100 >= PursueThreshold
<1> DEFINE G == Group(d, l.detector, l.entity)
           n == Cardinality(G)
<1>1. l = LeadOf(d, l.detector, l.entity) /\ G # {}
  BY RunAllIs
<1>2. l.lead_id[1] = l.detector
  <2>1. l.lead_id = LeadOf(d, l.detector, l.entity).lead_id
    BY <1>1
  <2> DEFINE x == l.detector
             y == l.entity
             anchor == Anchor(x, y, UNION {s.sources : s \in Group(d, x, y)})
  <2>2. LeadOf(d, x, y).lead_id = <<x, anchor>>
    BY LeadIdIs, Zenon
  <2> HIDE DEF anchor
  <2> QED
    BY <2>1, <2>2
<1>3. /\ n \in Nat \ {0} /\ l.detector \in Detectors
      /\ \A s \in G : s.detector = l.detector /\ s.entity = l.entity /\ s \in RunAllDetectors(d)
  <2>1. \A s \in G : s \in RunAllDetectors(d)
    BY DEF Group
  <2> HIDE DEF G
  <2> QED
    BY <1>1, <2>1, GroupIs DEF G
<1>4. l.risk_score = RiskScore(l.detector, n)
  BY <1>1, LeadHas
<1>5. ASSUME Weight(l.detector) * 100 < PursueThreshold
      PROVE  n = 1
  <2>1. l.detector \in {"UNUSUAL_TIMING", "69B_CORRELATION", "DET-SHARED-ADDRESS-CONTROL"}
    BY <1>3, <1>5 DEF Weight, Detectors, PursueThreshold
  <2>2. CASE l.detector = "UNUSUAL_TIMING"
    <3>1. \A s, u \in G : s = u
      BY <1>3, <2>2, Found
    <3>2. PICK s \in G : TRUE
      BY <1>1
    <3> HIDE DEF G
    <3>3. G = {s}
      BY <3>1, <3>2
    <3> QED
      BY <3>3, FS_Singleton
  <2>3. CASE l.detector # "UNUSUAL_TIMING"
    BY <1>1, <2>1, <2>3, ContextIsOneSignal
  <2> QED
    BY <2>2, <2>3
<1>6. RiskScore(l.detector, n) \in Nat /\ RiskScore(l.detector, n) >= Weight(l.detector) * 100
  BY <1>3, RiskScoreGrows
<1>7. RiskScore(l.detector, 1) = Weight(l.detector) * 100
  BY RiskScoreGrows
<1>8. Weight(l.detector) * 100 \in Nat
  BY WeightIs
<1> HIDE DEF n
<1>9. l.risk_score >= PursueThreshold <=> Weight(l.detector) * 100 >= PursueThreshold
  BY <1>4, <1>5, <1>6, <1>7, <1>8 DEF PursueThreshold
<1> QED
  BY <1>2, <1>9

(* Where there is no record there is no lead. *)
LEMMA NothingIsFound ==
  ASSUME NEW d, IsDataset(d), \A k \in DOMAIN d : d[k] = {}
  PROVE  RunAll(d) = {}
<1>1. d.entities = {} /\ d.providers = {} /\ d.invoices = {} /\ d.payments = {} /\ d.transactions = {}
  BY DEF IsDataset, Activities
<1>2. Providers(d) = {} /\ Invoices(d) = {} /\ Payments(d) = {} /\ Transfers(d) = {}
  BY <1>1 DEF Providers, Invoices, Payments, Transfers, Page
<1>3. CircularFlow(d) = {} /\ RapidPassThrough(d) = {}
  <2>1. Pairs(d) = {}
    BY <1>2 DEF Pairs
  <2>2. Cycles(d) = {}
    BY <2>1 DEF Cycles
  <2> QED
    BY <1>2, <2>2 DEF CircularFlow, RapidPassThrough
<1>4. DuplicatePayment(d) = {} /\ DuplicateInvoice(d) = {}
  BY <1>2 DEF DuplicatePayment, DuplicateInvoice
<1>5. UnusualAmount(d) = {} /\ InvoicePaymentMismatch(d) = {}
  BY <1>2 DEF UnusualAmount, InvoicePaymentMismatch
<1>6. SupplierConcentration(d) = {}
  BY <1>2 DEF SupplierConcentration
<1>7. FanIn(d) = {} /\ FanOut(d) = {}
  BY <1>2 DEF FanIn, FanOut
<1>8. ShellNetwork(d) = {} /\ Correlation69B(d) = {}
  BY <1>2 DEF ShellNetwork, Correlation69B
<1>9. UnusualTiming(d) = {} /\ SharedAddressControl(d) = {}
  BY <1>1, <1>2 DEF UnusualTiming, SharedAddressControl, Ids
<1>10. RunAllDetectors(d) = {}
  BY <1>3, <1>4, <1>5, <1>6, <1>7, <1>8, <1>9 DEF RunAllDetectors
<1> QED
  BY <1>10 DEF RunAll, AggregateSignals
=============================================================================
