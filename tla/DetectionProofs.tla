--------------------------- MODULE DetectionProofs ---------------------------
(***************************************************************************)
(* Proofs about Detection, for any corpus, page and order of arrival: what *)
(* becomes of the leads that meet in one identifier, and which leads more  *)
(* records cannot take away.                                               *)
(***************************************************************************)
EXTENDS Detection, DetectionRulesProofs

-----------------------------------------------------------------------------
(* What is in the repository, and on the run's list, is at every moment a
   dataset and the leads of that dataset. *)

DataInv ==
  /\ name \in DOMAIN Corpus /\ DOMAIN data = DOMAIN Corpus[name]
  /\ \A k \in DOMAIN data : data[k] \subseteq Corpus[name][k]
  /\ \A k \in DOMAIN data : k \notin Activities => data[k] = Corpus[name][k]

CurrentInv == current = {} \/ current = RunAll(data)

LEMMA PartsAreDatasets ==
  ASSUME NEW n \in DOMAIN Corpus, NEW d, DOMAIN d = DOMAIN Corpus[n],
         \A k \in DOMAIN d : d[k] \subseteq Corpus[n][k]
  PROVE  IsDataset(d)
<1> DEFINE c == Corpus[n]
<1>1. IsDataset(c)
  BY CorpusAssumption
<1>2. DOMAIN d = DOMAIN c /\ \A k \in DOMAIN d : d[k] \subseteq c[k]
  OBVIOUS
<1> HIDE DEF c
<1>3. DOMAIN d = Activities \cup {"entities", "providers", "accounts"}
  BY <1>1, <1>2 DEF IsDataset
<1>4. /\ d.invoices \subseteq c.invoices /\ d.payments \subseteq c.payments
      /\ d.transactions \subseteq c.transactions /\ d.providers \subseteq c.providers
      /\ d.entities \subseteq c.entities /\ d.accounts \subseteq c.accounts
  BY <1>2, <1>3 DEF Activities
<1>5. \A k \in DOMAIN d : IsFiniteSet(d[k])
  BY <1>1, <1>2, FS_Subset DEF IsDataset
<1>6. \A k \in Activities : \A x, y \in d[k] : x.id = y.id => x = y
  BY <1>1, <1>2, <1>3 DEF IsDataset
<1> QED
  BY <1>1, <1>3, <1>4, <1>5, <1>6 DEF IsDataset

LEMMA DataInit ==
  ASSUME Init
  PROVE  DataInv /\ CurrentInv
BY DEF Init, DataInv, CurrentInv

LEMMA DataStep ==
  ASSUME DataInv, CurrentInv, [Next]_vars
  PROVE  DataInv' /\ CurrentInv'
<1>1. CASE UNCHANGED vars
  BY <1>1 DEF vars, DataInv, CurrentInv
<1>2. CASE Next
  <2>1. PICK k \in Activities : Add(k)
    BY <1>2 DEF Next
  <2>2. PICK record \in Corpus[name][k] \ data[k] : data' = [data EXCEPT ![k] = @ \cup {record}]
    BY <2>1 DEF Add
  <2>3. name' = name /\ current' = RunAll(data')
    BY <2>1 DEF Add
  <2>4. DataInv'
    BY <2>2, <2>3 DEF DataInv
  <2> QED
    BY <2>3, <2>4 DEF CurrentInv
<1> QED
  BY <1>1, <1>2

-----------------------------------------------------------------------------
(* Context never accuses. *)

Quiet(l) ==
  /\ l.detector = "69B_CORRELATION" => l.risk_score = 3500
  /\ l.detector = "DET-SHARED-ADDRESS-CONTROL" => l.risk_score = 3500

LEMMA RunIsQuiet ==
  ASSUME NEW d, IsDataset(d), NEW l \in RunAll(d)
  PROVE  Quiet(l)
<1>1. l = LeadOf(d, l.detector, l.entity) /\ Group(d, l.detector, l.entity) # {}
  BY RunAllIs
<1>2. l.risk_score = RiskScore(l.detector, Cardinality(Group(d, l.detector, l.entity)))
  BY <1>1, LeadHas
<1>3. ASSUME l.detector \in {"69B_CORRELATION", "DET-SHARED-ADDRESS-CONTROL"}
      PROVE  l.risk_score = 3500
  <2>1. l.risk_score = RiskScore(l.detector, 1)
    BY <1>1, <1>2, <1>3, ContextIsOneSignal
  <2>2. RiskScore(l.detector, 1) = Weight(l.detector) * 100
    BY RiskScoreGrows
  <2>3. Weight(l.detector) = 35
    BY <1>3 DEF Weight
  <2> QED
    BY <2>1, <2>2, <2>3
<1> QED
  BY <1>3 DEF Quiet

QuietInv == \A l \in leads : Quiet(l)

LEMMA QuietStep ==
  ASSUME DataInv, CurrentInv, QuietInv, [Next]_vars
  PROVE  QuietInv'
<1>1. CASE UNCHANGED vars
  BY <1>1 DEF vars, QuietInv
<1>2. CASE Next
  <2>1. current' = RunAll(data') /\ leads' = RefreshLeads(leads, current')
    BY <1>2 DEF Next, Add
  <2>2. leads' \subseteq leads \cup current'
    BY <2>1 DEF RefreshLeads
  <2>3. IsDataset(data')
    <3>1. DataInv'
      BY DataStep
    <3> QED
      BY <3>1, PartsAreDatasets DEF DataInv
  <2>4. \A l \in current' : Quiet(l)
    BY <2>1, <2>3, RunIsQuiet
  <2> QED
    BY <2>2, <2>4 DEF QuietInv
<1> QED
  BY <1>1, <1>2

LEMMA QuietIsContext ==
  ASSUME QuietInv
  PROVE  ContextNeverAccuses
BY DEF QuietInv, Quiet, ContextNeverAccuses, Accuses, PursueThreshold, ControlRiskCeiling

(* Whatever the corpus and the order in which its records arrive, a listing by
   the SAT (correlation_69b) and a shared address (shared_address_control)
   never make a lead that is pursued. *)
THEOREM ContextStaysContext == Spec => []ContextNeverAccuses
<1> DEFINE Inv == DataInv /\ CurrentInv /\ QuietInv
<1>1. Init => Inv
  BY DataInit DEF Init, QuietInv
<1>2. Inv /\ [Next]_vars => Inv'
  BY DataStep, QuietStep
<1>3. Inv => ContextNeverAccuses
  BY QuietIsContext
<1> QED
  BY <1>1, <1>2, <1>3, PTL DEF Spec

-----------------------------------------------------------------------------
(* Of the leads that meet in one identifier the one filed last stays. *)

(* Every lead of a run has a detector, an entity, a score and evidence. *)
LEMMA LeadsAre ==
  ASSUME NEW d, IsDataset(d), NEW l \in RunAll(d)
  PROVE  /\ l.detector \in Detectors /\ l.entity \in Names /\ l.risk_score \in Nat
         /\ l.risk_score >= Weight(l.detector) * 100
         /\ Evidence(l) \in SUBSET Names /\ Evidence(l) # {}
         /\ l.lead_id = <<l.detector, Anchor(l.detector, l.entity, Evidence(l))>>
<1> DEFINE G == Group(d, l.detector, l.entity)
<1>1. l = LeadOf(d, l.detector, l.entity) /\ G # {}
  BY RunAllIs
<1>2. l.risk_score = RiskScore(l.detector, Cardinality(G)) /\ l.signals = G
  BY <1>1, LeadHas
<1>3. Cardinality(G) \in Nat \ {0} /\ l.detector \in Detectors /\ l.entity \in Names /\ G \subseteq Signals
  BY <1>1, GroupIs
<1>4. l.risk_score \in Nat /\ l.risk_score >= Weight(l.detector) * 100
  BY <1>2, <1>3, RiskScoreGrows
<1>5. Evidence(l) = UNION {s.sources : s \in G}
  BY <1>2 DEF Evidence
<1>6. Evidence(l) \in SUBSET Names /\ Evidence(l) # {}
  <2>1. \A s \in G : s.sources \in SUBSET Names /\ s.sources # {}
    BY <1>3 DEF Signals
  <2> HIDE DEF G
  <2> QED
    BY <1>1, <1>5, <2>1
<1>7. l.lead_id = <<l.detector, Anchor(l.detector, l.entity, Evidence(l))>>
  BY <1>1, <1>5, LeadIdIs
<1> QED
  BY <1>3, <1>4, <1>6, <1>7

(* A detector and an entity name one lead of a run. *)
LEMMA OneLeadEach ==
  ASSUME NEW d, IsDataset(d), NEW l \in RunAll(d), NEW m \in RunAll(d),
         l.detector = m.detector, l.entity = m.entity
  PROVE  l = m
BY RunAllIs

(* The shared-address control is of one entity. *)
LEMMA ControlIs ==
  ASSUME NEW d, IsDataset(d), NEW l \in RunAll(d), l.detector = "DET-SHARED-ADDRESS-CONTROL"
  PROVE  l.entity = "ENT-VENDOR-CONTROL-A"
<1>1. PICK s : s \in Group(d, l.detector, l.entity)
  BY RunAllIs
<1>2. s \in SharedAddressControl(d) /\ s.entity = l.entity
  BY <1>1, Found DEF Group
<1>3. s = Signal("DET-SHARED-ADDRESS-CONTROL", "ENT-VENDOR-CONTROL-A", Controls)
  BY <1>2, SharedAddressControlIs
<1> QED
  BY <1>2, <1>3, SignalIs

(* _lead_id takes the entity, or one of the records. *)
LEMMA AnchorIs ==
  ASSUME NEW detector, NEW entity, NEW sources \in SUBSET Names, sources # {}
  PROVE  /\ detector \in {"DET-ROUND-TRIP-CYCLE", "DET-DUPLICATE-PAYMENT"} => Anchor(detector, entity, sources) \in sources
         /\ detector = "DUPLICATE_INVOICE" => Anchor(detector, entity, sources) = Prefix(entity)
         /\ detector \notin {"DET-ROUND-TRIP-CYCLE", "DET-DUPLICATE-PAYMENT", "DUPLICATE_INVOICE",
                             "DET-SHARED-ADDRESS-CONTROL"}
              => Anchor(detector, entity, sources) = entity
<1>1. ASSUME NEW some
      PROVE  Smallest(IF sources \cap some # {} THEN sources \cap some ELSE sources) \in sources
  <2>1. sources \cap some # {} => Smallest(sources \cap some) \in sources \cap some
    <3>1. sources \cap some \in SUBSET Names
      OBVIOUS
    <3> QED
      BY <3>1, SmallestIs
  <2>2. Smallest(sources) \in sources
    BY SmallestIs
  <2> QED
    BY <2>1, <2>2
<1>2. CASE detector = "DET-ROUND-TRIP-CYCLE"
  BY <1>1, <1>2 DEF Anchor
<1>3. CASE detector = "DET-DUPLICATE-PAYMENT"
  BY <1>1, <1>3 DEF Anchor
<1>4. CASE detector \notin {"DET-ROUND-TRIP-CYCLE", "DET-DUPLICATE-PAYMENT"}
  BY <1>4 DEF Anchor
<1> QED
  BY <1>2, <1>3, <1>4

LEMMA MeetingLeadsAccuse ==
  ASSUME NEW d, IsDataset(d), NEW l \in RunAll(d), NEW m \in RunAll(d), m.lead_id = l.lead_id, Accuses(l)
  PROVE  /\ m.detector = l.detector /\ Accuses(m)
         /\ \/ Evidence(m) \cap Evidence(l) # {}
            \/ m.entity # l.entity /\ Prefix(m.entity) = Prefix(l.entity)
<1>1. m.detector = l.detector
      /\ Anchor(l.detector, m.entity, Evidence(m)) = Anchor(l.detector, l.entity, Evidence(l))
  BY LeadsAre
<1>2. CASE m.entity = l.entity
  <2>1. m = l
    BY <1>1, <1>2, OneLeadEach
  <2> QED
    BY <2>1, LeadsAre
<1>3. CASE m.entity # l.entity
  <2>1. l.detector \in {"DET-ROUND-TRIP-CYCLE", "DET-DUPLICATE-PAYMENT", "DUPLICATE_INVOICE"}
    BY <1>1, <1>3, AnchorIs, LeadsAre, ControlIs
  <2>2. Accuses(m)
    <3>1. Weight(m.detector) >= 85
      BY <1>1, <2>1 DEF Weight
    <3>2. Weight(m.detector) \in Nat
      BY WeightIs
    <3>3. m.risk_score >= 8500
      BY <3>1, <3>2, LeadsAre
    <3> QED
      BY <3>3, LeadsAre DEF Accuses, PursueThreshold
  <2>3. CASE l.detector \in {"DET-ROUND-TRIP-CYCLE", "DET-DUPLICATE-PAYMENT"}
    <3>1. /\ Anchor(l.detector, m.entity, Evidence(m)) \in Evidence(m)
          /\ Anchor(l.detector, l.entity, Evidence(l)) \in Evidence(l)
      BY <2>3, AnchorIs, LeadsAre
    <3> QED
      BY <1>1, <2>2, <3>1
  <2>4. CASE l.detector = "DUPLICATE_INVOICE"
    <3>1. Prefix(m.entity) = Prefix(l.entity)
      BY <1>1, <2>4, AnchorIs, LeadsAre
    <3> QED
      BY <1>1, <1>3, <2>2, <3>1
  <2> QED
    BY <2>1, <2>3, <2>4
<1> QED
  BY <1>2, <1>3

LEMMA RunAllIsFinite ==
  ASSUME NEW d, IsDataset(d)
  PROVE  IsFiniteSet(RunAll(d))
<1> DEFINE F == [s \in RunAllDetectors(d) |-> LeadOf(d, s.detector, s.entity)]
<1>1. RunAll(d) = {F[s] : s \in RunAllDetectors(d)}
  BY DEF RunAll, AggregateSignals, LeadOf, Group
<1>2. F \in Surjection(RunAllDetectors(d), RunAll(d))
  <2>1. DOMAIN F = RunAllDetectors(d)
    OBVIOUS
  <2> QED
    BY <1>1, <2>1 DEF Surjection
<1> HIDE DEF F
<1> QED
  BY <1>2, Found, FS_Surjection

LEMMA OneStays ==
  ASSUME NEW d, IsDataset(d), NEW stored, NEW l \in RunAll(d)
  PROVE  \E m \in RunAll(d) : m.lead_id = l.lead_id /\ m \in RefreshLeads(stored, RunAll(d))
<1> DEFINE Same == {m \in RunAll(d) : m.lead_id = l.lead_id}
           R == {w \in Same \X Same : FiledAfter(w[1], w[2])}
<1>1. l \in Same /\ IsFiniteSet(Same)
  BY RunAllIsFinite, FS_Subset
<1>2. \A x, y \in Same : <<x, y>> \in R <=> FiledAfter(x, y)
  OBVIOUS
<1>3. \A x \in Same : x \in RunAll(d) /\ x.lead_id = l.lead_id /\ x.entity \in Names /\ x.risk_score \in Nat
  BY LeadsAre
<1>4. \A x \in RunAll(d) : x.lead_id = l.lead_id => x \in Same
  OBVIOUS
<1> HIDE DEF Same, R
<1>5. \A x \in Same : <<x, x>> \notin R
  BY <1>2, <1>3, Order DEF FiledAfter
<1>6. \A x, y, z \in Same : <<x, y>> \in R /\ <<y, z>> \in R => <<x, z>> \in R
  <2> SUFFICES ASSUME NEW x \in Same, NEW y \in Same, NEW z \in Same, FiledAfter(x, y), FiledAfter(y, z)
               PROVE  FiledAfter(x, z)
    BY <1>2
  <2> QED
    BY <1>3, Order DEF FiledAfter
<1>7. PICK m \in Same : \A x \in Same : <<x, m>> \notin R
  BY <1>1, <1>5, <1>6, Minimal
<1>8. \A x \in RunAll(d) : x.lead_id = m.lead_id => ~FiledAfter(x, m)
  BY <1>2, <1>3, <1>4, <1>7
<1>9. m \in RefreshLeads(stored, RunAll(d))
  BY <1>3, <1>8 DEF RefreshLeads
<1> QED
  BY <1>3, <1>9

LEMMA StaysStep ==
  ASSUME DataInv, CurrentInv, NoAccusationIsHidden, [Next]_vars
  PROVE  NoAccusationIsHidden'
<1>1. CASE UNCHANGED vars
  BY <1>1 DEF vars, NoAccusationIsHidden
<1>2. CASE Next
  <2>1. current' = RunAll(data') /\ leads' = RefreshLeads(leads, current')
    BY <1>2 DEF Next, Add
  <2>2. IsDataset(data')
    <3>1. DataInv'
      BY DataStep
    <3> QED
      BY <3>1, PartsAreDatasets DEF DataInv
  <2>3. ASSUME NEW l \in current', Accuses(l)
        PROVE  \E m \in leads' :
                 /\ m.lead_id = l.lead_id /\ m.detector = l.detector /\ Accuses(m)
                 /\ \/ Evidence(m) \cap Evidence(l) # {}
                    \/ m.entity # l.entity /\ Prefix(m.entity) = Prefix(l.entity)
    <3>1. PICK m \in RunAll(data') : m.lead_id = l.lead_id /\ m \in leads'
      BY <2>1, <2>2, <2>3, OneStays
    <3> QED
      BY <2>1, <2>2, <2>3, <3>1, MeetingLeadsAccuse
  <2> QED
    BY <2>3 DEF NoAccusationIsHidden
<1> QED
  BY <1>1, <1>2

(* Whatever the corpus and the order in which its records arrive, a lead to be
   pursued that another lead of its identifier (_lead_id) takes off the file
   leaves one to be pursued, of the same detector and about a record both cite,
   or of a supplier whose RFC agrees with its own in twelve characters. *)
THEOREM AccusationsStayOnFile == Spec => []NoAccusationIsHidden
<1> DEFINE Inv == DataInv /\ CurrentInv /\ NoAccusationIsHidden
<1>1. Init => Inv
  BY DataInit DEF Init, NoAccusationIsHidden
<1>2. Inv /\ [Next]_vars => Inv'
  BY DataStep, StaysStep
<1> QED
  BY <1>1, <1>2, PTL DEF Spec

-----------------------------------------------------------------------------
(* More of a dataset: the parties are the same, what they do has grown, and a
   list() still returns what it returned. *)

Grown(d, e) ==
  /\ Providers(e) = Providers(d) /\ Invoices(d) \subseteq Invoices(e)
  /\ Payments(d) \subseteq Payments(e) /\ Transfers(d) \subseteq Transfers(e)
  /\ e.entities = d.entities /\ e.accounts = d.accounts /\ d.invoices \subseteq e.invoices

(* A pass-through is one whatever else there is; so is what is paid at once. *)
LEMMA RapidPassThroughGrows ==
  ASSUME NEW d, NEW e, Grown(d, e)
  PROVE  RapidPassThrough(d) \subseteq RapidPassThrough(e)
<1>1. \A w \in Transfers(d) \X Transfers(d) : w \in Transfers(e) \X Transfers(e)
  BY DEF Grown
<1> QED
  BY <1>1, Zenon DEF RapidPassThrough

LEMMA UnusualTimingGrows ==
  ASSUME NEW d, NEW e, Grown(d, e)
  PROVE  UnusualTiming(d) \subseteq UnusualTiming(e)
<1>1. \A w \in Transfers(d) \X Transfers(d) : w \in Transfers(e) \X Transfers(e)
  BY DEF Grown
<1>2. \A w \in Payments(d) \X Invoices(d) : w \in Payments(e) \X Invoices(e)
  BY DEF Grown
<1> QED
  BY <1>1, <1>2, Zenon DEF UnusualTiming

LEMMA FundLinksGrow ==
  ASSUME NEW d, NEW e, Grown(d, e)
  PROVE  FundLinks(d) \subseteq FundLinks(e)
<1> DEFINE Rfc(c, no) == {x.rfc : x \in {y \in c.entities : y.id = EntityOf(c, no)}} \ {None}
           Ties(c, t) == {{w[1], w[2]} : w \in Rfc(c, t.from) \X Rfc(c, t.to)}
<1>1. \A no : EntityOf(e, no) = EntityOf(d, no)
  BY Zenon DEF EntityOf, Grown
<1>2. \A c : FundLinks(c) = {s \in UNION {Ties(c, t) : t \in Transfers(c)} : Cardinality(s) = 2}
  BY Zenon DEF FundLinks
<1>3. \A no : Rfc(e, no) = Rfc(d, no)
  BY <1>1, Zenon DEF Grown
<1> HIDE DEF Rfc
<1>4. \A t : Ties(e, t) = Ties(d, t)
  BY <1>3
<1> HIDE DEF Ties
<1> QED
  BY <1>2, <1>4, Zenon DEF Grown

LEMMA ShellNetworkGrows ==
  ASSUME NEW d, NEW e, Grown(d, e)
  PROVE  ShellNetwork(d) \subseteq ShellNetwork(e)
<1>1. \A p, q : ShellPair(d, p, q) => ShellPair(e, p, q)
  BY FundLinksGrow, Zenon DEF ShellPair
<1>2. Providers(e) = Providers(d)
  BY DEF Grown
<1> QED
  BY <1>1, <1>2, Zenon DEF ShellNetwork

LEMMA SharedAddressControlGrows ==
  ASSUME NEW d, NEW e, Grown(d, e)
  PROVE  SharedAddressControl(d) \subseteq SharedAddressControl(e)
BY SharedAddressControlIs DEF Grown

LEMMA CyclesAre ==
  ASSUME NEW d
  PROVE  /\ \A w \in Pairs(d) : w[2].to = w[1].from => w \in Cycles(d)
         /\ \A v \in Pairs(d), t \in Transfers(d) :
              v[2].to # v[1].from /\ t # v[1] /\ Follows(v[2], t) /\ t.to = v[1].from => <<v[1], v[2], t>> \in Cycles(d)
         /\ \A w \in Cycles(d) :
              \/ w \in Pairs(d) /\ w[2].to = w[1].from
              \/ \E v \in Pairs(d), t \in Transfers(d) :
                   /\ v[2].to # v[1].from /\ t # v[1] /\ Follows(v[2], t) /\ t.to = v[1].from
                   /\ w = <<v[1], v[2], t>>
<1> DEFINE Closed == {w \in Pairs(d) : w[2].to = w[1].from}
           Open == {v \in Pairs(d) : v[2].to # v[1].from}
           Third(w) == {u \in Transfers(d) \ {w[1]} : Follows(w[2], u) /\ u.to = w[1].from}
           Three(w, t) == <<w[1], w[2], t>>
           Long(w) == {Three(w, t) : t \in Third(w)}
<1>1. Cycles(d) = Closed \cup UNION {Long(w) : w \in Open}
  BY Zenon DEF Cycles
<1>2. \A v \in Pairs(d), t \in Transfers(d) :
        v[2].to # v[1].from /\ t # v[1] /\ Follows(v[2], t) /\ t.to = v[1].from => v \in Open /\ t \in Third(v)
  OBVIOUS
<1>3. \A v \in Open : \A t \in Third(v) :
        /\ v \in Pairs(d) /\ t \in Transfers(d)
        /\ v[2].to # v[1].from /\ t # v[1] /\ Follows(v[2], t) /\ t.to = v[1].from
  OBVIOUS
<1>4. \A w : w \in Closed <=> w \in Pairs(d) /\ w[2].to = w[1].from
  OBVIOUS
<1>5. \A w : w \in Cycles(d) <=> w \in Closed \/ \E v \in Open : \E t \in Third(v) : w = Three(v, t)
  <2> HIDE DEF Closed, Open, Third, Three
  <2>1. \A v, w : w \in Long(v) <=> \E t \in Third(v) : w = Three(v, t)
    BY Zenon
  <2> HIDE DEF Long
  <2> QED
    BY <1>1, <2>1
<1>6. \A v, t : Three(v, t) = <<v[1], v[2], t>>
  OBVIOUS
<1> HIDE DEF Closed, Open, Third, Three, Long
<1>7. \A v \in Pairs(d), t \in Transfers(d) :
        v[2].to # v[1].from /\ t # v[1] /\ Follows(v[2], t) /\ t.to = v[1].from => Three(v, t) \in Cycles(d)
  BY <1>2, <1>5, Zenon
<1>8. ASSUME NEW w \in Cycles(d), w \notin Closed
      PROVE  \E v \in Pairs(d), t \in Transfers(d) :
               /\ v[2].to # v[1].from /\ t # v[1] /\ Follows(v[2], t) /\ t.to = v[1].from
               /\ w = <<v[1], v[2], t>>
  <2>1. PICK v \in Open : \E t \in Third(v) : w = Three(v, t)
    BY <1>5, <1>8, Zenon
  <2>2. PICK t \in Third(v) : w = Three(v, t)
    BY <2>1
  <2> v \in Pairs(d) /\ t \in Transfers(d)
    BY <1>3
  <2> WITNESS v \in Pairs(d), t \in Transfers(d)
  <2> QED
    BY <1>3, <1>6, <2>2, Zenon
<1> QED
  BY <1>4, <1>5, <1>6, <1>7, <1>8

(* The cycles that were there are found again, and no new one is of the same
   transfers: each is told as before. *)
LEMMA CyclesGrow ==
  ASSUME NEW d, NEW e, Grown(d, e)
  PROVE  /\ Cycles(d) \subseteq Cycles(e)
         /\ \A w \in Cycles(e) : Legs(w) \subseteq Transfers(d) => w \in Cycles(d)
<1>1. Transfers(d) \subseteq Transfers(e)
  BY DEF Grown
<1>2. Pairs(d) \subseteq Pairs(e)
  BY <1>1 DEF Pairs
<1>3. Cycles(d) \subseteq Cycles(e)
  BY <1>1, <1>2, CyclesAre
<1>4. ASSUME NEW v \in Pairs(e), v[1] \in Transfers(d), v[2] \in Transfers(d)
      PROVE  v \in Pairs(d)
  BY <1>4 DEF Pairs
<1>5. ASSUME NEW w \in Cycles(e), Legs(w) \subseteq Transfers(d)
      PROVE  w \in Cycles(d)
  <2>1. CASE w \in Pairs(e) /\ w[2].to = w[1].from
    <3>1. w[1] \in Legs(w) /\ w[2] \in Legs(w)
      BY <2>1 DEF Pairs, Legs
    <3>2. w \in Pairs(d)
      BY <1>4, <1>5, <2>1, <3>1
    <3> QED
      BY <2>1, <3>2, CyclesAre
  <2>2. ASSUME NEW v \in Pairs(e), NEW t \in Transfers(e),
               v[2].to # v[1].from /\ t # v[1] /\ Follows(v[2], t) /\ t.to = v[1].from,
               w = <<v[1], v[2], t>>
        PROVE  w \in Cycles(d)
    <3>1. v[1] \in Legs(w) /\ v[2] \in Legs(w) /\ t \in Legs(w)
      <4>1. w[1] = v[1] /\ w[2] = v[2] /\ w[3] = t /\ DOMAIN w = 1..3
        BY <2>2
      <4> QED
        BY <4>1 DEF Legs
    <3>2. v \in Pairs(d) /\ t \in Transfers(d)
      BY <1>4, <1>5, <3>1
    <3> QED
      BY <2>2, <3>2, CyclesAre
  <2> QED
    BY <2>1, <2>2, CyclesAre, Zenon
<1> QED
  BY <1>3, <1>5

LEMMA CircularFlowGrows ==
  ASSUME NEW d, NEW e, Grown(d, e)
  PROVE  CircularFlow(d) \subseteq CircularFlow(e)
<1> SUFFICES ASSUME NEW s \in CircularFlow(d) PROVE s \in CircularFlow(e)
  OBVIOUS
<1>1. PICK w \in Cycles(d) :
        /\ ~\E u \in Cycles(d) : Legs(u) = Legs(w) /\ FoundBefore(u, w)
        /\ s = Signal("DET-ROUND-TRIP-CYCLE", EconomicRoot(w).from, Ids(Legs(w)))
  BY Zenon DEF CircularFlow
<1>2. Legs(w) \subseteq Transfers(d)
  BY CycleIs DEF Legs
<1>3. ~\E u \in Cycles(e) : Legs(u) = Legs(w) /\ FoundBefore(u, w)
  BY <1>1, <1>2, CyclesGrow
<1>4. w \in Cycles(e)
  BY CyclesGrow
<1> QED
  BY <1>1, <1>3, <1>4, Zenon DEF CircularFlow

-----------------------------------------------------------------------------
(* Sums.  MapThenSumSet takes the elements as CHOOSE gives them: the sum is
   the same whatever the order, and more records of no negative amount make no
   smaller one. *)

(* What holds of a set when it holds of every smaller one holds of all. *)
LEMMA BySubsets ==
  ASSUME NEW T, IsFiniteSet(T), NEW Good,
         \A S \in SUBSET T : (\A P \in SUBSET S : P # S => P \in Good) => S \in Good
  PROVE  \A S \in SUBSET T : S \in Good
<1> DEFINE Bad == (SUBSET T) \ Good
           Sizes == {Cardinality(S) : S \in Bad}
<1>1. ASSUME Bad # {} PROVE FALSE
  <2>1. \A S \in SUBSET T : IsFiniteSet(S) /\ Cardinality(S) \in Nat
    BY FS_Subset, FS_CardinalityType
  <2>2. Sizes \in SUBSET Nat /\ Sizes # {}
    BY <1>1, <2>1
  <2>3. \A S \in Bad : Cardinality(S) \in Sizes
    OBVIOUS
  <2>4. PICK n \in Sizes : \A k \in Sizes : ~(k < n)
    <3> HIDE DEF Sizes
    <3> QED
      BY <2>2, Least
  <2>5. PICK S \in Bad : n = Cardinality(S)
    BY <2>4
  <2>6. ASSUME NEW P \in SUBSET S, P # S PROVE P \in Good
    <3>1. P \in SUBSET T /\ S \in SUBSET T
      OBVIOUS
    <3>2. Cardinality(P) < n
      <4>1. Cardinality(P) <= Cardinality(S) /\ Cardinality(P) # Cardinality(S)
        BY <2>1, <2>6, <3>1, FS_Subset
      <4> HIDE DEF Sizes, Bad
      <4> QED
        BY <2>1, <2>5, <3>1, <4>1
    <3>3. P \notin Bad
      <4> HIDE DEF Sizes, Bad
      <4> QED
        BY <2>3, <2>4, <3>2
    <3> QED
      BY <3>1, <3>3
  <2> QED
    BY <2>6
<1> QED
  BY <1>1

(* The recursion the sum is defined by. *)
SumFor(W, g) ==
  g = [s \in SUBSET W |->
         IF s = {} THEN 0 ELSE (CHOOSE x \in s : TRUE).amount + g[s \ {CHOOSE x \in s : TRUE}]]

LEMMA TotalDef ==
  ASSUME NEW W
  PROVE  Total(W) = (CHOOSE g : SumFor(W, g))[W]
BY Zenon DEF Total, MapThenSumSet, MapThenFoldSet, SumFor

Some(s) == CHOOSE x \in s : TRUE

LEMMA SumForIs ==
  ASSUME NEW W, NEW g, SumFor(W, g), NEW s \in SUBSET W
  PROVE  g[s] = IF s = {} THEN 0 ELSE Some(s).amount + g[s \ {Some(s)}]
BY DEF SumFor, Some

LEMMA SomeIs ==
  ASSUME NEW s, s # {}
  PROVE  Some(s) \in s
BY DEF Some

(* Two that are defined by it agree where both are. *)
LEMMA SumsAgree ==
  ASSUME NEW V, IsFiniteSet(V), NEW W, V \subseteq W, NEW g, SumFor(V, g), NEW h, SumFor(W, h)
  PROVE  \A s \in SUBSET V : g[s] = h[s]
<1> DEFINE Good == {s \in SUBSET V : g[s] = h[s]}
<1>1. \A s \in SUBSET V : g[s] = IF s = {} THEN 0 ELSE Some(s).amount + g[s \ {Some(s)}]
  BY SumForIs
<1>2. \A s \in SUBSET V : h[s] = IF s = {} THEN 0 ELSE Some(s).amount + h[s \ {Some(s)}]
  <2>1. \A s \in SUBSET W : h[s] = IF s = {} THEN 0 ELSE Some(s).amount + h[s \ {Some(s)}]
    BY SumForIs
  <2> QED
    BY <2>1
<1>3. \A s : s # {} => Some(s) \in s
  BY SomeIs
<1>4. ASSUME NEW s \in SUBSET V, \A r \in SUBSET s : r # s => r \in Good
      PROVE  s \in Good
  <2>1. CASE s = {}
    BY <1>1, <1>2, <2>1
  <2>2. CASE s # {}
    <3>1. s \ {Some(s)} \in Good
      BY <1>3, <1>4, <2>2
    <3>2. g[s \ {Some(s)}] = h[s \ {Some(s)}]
      BY <3>1
    <3> QED
      BY <1>1, <1>2, <2>2, <3>2
  <2> QED
    BY <2>1, <2>2
<1>5. \A s \in SUBSET V : s \in Good
  <2> HIDE DEF Good
  <2> QED
    BY <1>4, BySubsets
<1> QED
  BY <1>5

LEMMA SumExists ==
  ASSUME NEW T, IsFiniteSet(T)
  PROVE  \A W \in SUBSET T : \E g : SumFor(W, g)
<1> DEFINE Good == {W \in SUBSET T : \E g : SumFor(W, g)}
<1>1. ASSUME NEW W \in SUBSET T, \A V \in SUBSET W : V # W => V \in Good
      PROVE  W \in Good
  <2> DEFINE Rest(s) == IF s = {} THEN 0 ELSE Some(s).amount + Total(s \ {Some(s)})
             g == [s \in SUBSET W |-> Rest(s)]
  <2>1. ASSUME NEW s \in SUBSET W, s # W
        PROVE  Total(s) = Rest(s)
    <3>1. s \in Good
      BY <1>1, <2>1
    <3>2. \A V \in SUBSET s : V # s => V \in Good
      BY <1>1, <2>1
    <3> DEFINE H(V) == CHOOSE h : SumFor(V, h)
    <3>3. \A V \in Good : SumFor(V, H(V))
      BY Zenon
    <3>4. \A V : Total(V) = H(V)[V]
      BY TotalDef
    <3> HIDE DEF Good, H
    <3>5. H(s)[s] = IF s = {} THEN 0 ELSE Some(s).amount + H(s)[s \ {Some(s)}]
      <4>1. SumFor(s, H(s)) /\ s \in SUBSET s
        BY <3>1, <3>3
      <4> QED
        BY <4>1, SumForIs
    <3>6. ASSUME s # {} PROVE H(s)[s \ {Some(s)}] = Total(s \ {Some(s)})
      <4> DEFINE V == s \ {Some(s)}
      <4>1. Some(s) \in s
        BY <3>6, SomeIs
      <4>2. V \in SUBSET s /\ V # s /\ V \in SUBSET V
        BY <4>1
      <4>3. IsFiniteSet(V)
        BY <4>2, FS_Subset
      <4> HIDE DEF V
      <4>4. SumFor(V, H(V)) /\ SumFor(s, H(s))
        BY <3>1, <3>2, <3>3, <4>2
      <4>5. H(V)[V] = H(s)[V]
        BY <4>2, <4>3, <4>4, SumsAgree
      <4> QED
        BY <3>4, <4>5 DEF V
    <3> QED
      BY <3>4, <3>5, <3>6
  <2>2. ASSUME NEW s \in SUBSET W, s # {}
        PROVE  g[s \ {Some(s)}] = Total(s \ {Some(s)})
    <3>1. Some(s) \in s
      BY <2>2, SomeIs
    <3>2. s \ {Some(s)} \in SUBSET W /\ s \ {Some(s)} # W
      BY <3>1
    <3> HIDE DEF Rest
    <3> QED
      BY <2>1, <3>2
  <2>3. g = [s \in SUBSET W |-> IF s = {} THEN 0 ELSE Some(s).amount + g[s \ {Some(s)}]]
    <3>1. \A s \in SUBSET W : Rest(s) = IF s = {} THEN 0 ELSE Some(s).amount + g[s \ {Some(s)}]
      <4> HIDE DEF g
      <4> QED
        BY <2>2
    <3> DEFINE k == [s \in SUBSET W |-> IF s = {} THEN 0 ELSE Some(s).amount + g[s \ {Some(s)}]]
    <3> HIDE DEF Rest
    <3> QED
      BY <3>1
  <2>4. SumFor(W, g)
    BY <2>3, Zenon DEF SumFor, Some
  <2> QED
    BY <2>4
<1>2. \A W \in SUBSET T : W \in Good
  <2> HIDE DEF Good
  <2> QED
    BY <1>1, BySubsets
<1> QED
  BY <1>2

LEMMA TotalIs ==
  ASSUME NEW T, IsFiniteSet(T)
  PROVE  \A s \in SUBSET T :
           Total(s) = IF s = {} THEN 0 ELSE Some(s).amount + Total(s \ {Some(s)})
<1> DEFINE H(V) == CHOOSE h : SumFor(V, h)
<1>1. \A V \in SUBSET T : SumFor(V, H(V))
  BY SumExists, Zenon
<1>2. \A V : Total(V) = H(V)[V]
  BY TotalDef
<1> HIDE DEF H
<1> SUFFICES ASSUME NEW s \in SUBSET T PROVE Total(s) = IF s = {} THEN 0 ELSE Some(s).amount + Total(s \ {Some(s)})
  OBVIOUS
<1>3. H(s)[s] = IF s = {} THEN 0 ELSE Some(s).amount + H(s)[s \ {Some(s)}]
  BY <1>1, SumForIs
<1>4. s \ {Some(s)} \in SUBSET s /\ s \ {Some(s)} \in SUBSET T
  OBVIOUS
<1>5. IsFiniteSet(s \ {Some(s)})
  BY <1>4, FS_Subset
<1>6. H(s \ {Some(s)})[s \ {Some(s)}] = H(s)[s \ {Some(s)}]
  <2> DEFINE V == s \ {Some(s)}
  <2>1. V \in SUBSET V /\ V \in SUBSET s /\ V \in SUBSET T /\ IsFiniteSet(V)
    BY <1>4, <1>5
  <2> HIDE DEF V
  <2>2. H(V)[V] = H(s)[V]
    BY <1>1, <2>1, SumsAgree
  <2> QED
    BY <2>2 DEF V
<1> QED
  BY <1>2, <1>3, <1>6

LEMMA TotalTakes ==
  ASSUME NEW T, IsFiniteSet(T), \A x \in T : x.amount \in Nat
  PROVE  \A S \in SUBSET T : Total(S) \in Nat /\ \A x \in S : Total(S) = x.amount + Total(S \ {x})
<1> DEFINE Good == {S \in SUBSET T : Total(S) \in Nat /\ \A x \in S : Total(S) = x.amount + Total(S \ {x})}
<1>1. ASSUME NEW S \in SUBSET T, \A P \in SUBSET S : P # S => P \in Good
      PROVE  S \in Good
  <2>1. Total(S) = IF S = {} THEN 0 ELSE Some(S).amount + Total(S \ {Some(S)})
    BY TotalIs
  <2>2. CASE S = {}
    BY <2>1, <2>2
  <2>3. CASE S # {}
    <3> DEFINE c == Some(S)
    <3>1. c \in S /\ c.amount \in Nat
      BY <2>3, SomeIs
    <3>2. Total(S) = c.amount + Total(S \ {c})
      BY <2>1, <2>3
    <3> HIDE DEF c
    <3>3. \A x \in S : S \ {x} \in Good
      BY <1>1
    <3>4. \A x \in S : Total(S \ {x}) \in Nat
      BY <3>3
    <3>5. Total(S) \in Nat
      BY <3>1, <3>2, <3>4
    <3>6. ASSUME NEW x \in S, x # c
          PROVE  Total(S) = x.amount + Total(S \ {x})
      <4> DEFINE rest == (S \ {c}) \ {x}
      <4>1. Total(S \ {c}) = x.amount + Total(rest)
        BY <3>1, <3>3, <3>6
      <4>2. Total(S \ {x}) = c.amount + Total(rest)
        <5>1. rest = (S \ {x}) \ {c}
          OBVIOUS
        <5>2. c \in S \ {x}
          BY <3>1, <3>6
        <5>3. Total(S \ {x}) = c.amount + Total((S \ {x}) \ {c})
          BY <3>3, <5>2
        <5> QED
          BY <5>1, <5>3
      <4>3. rest \in Good
        BY <1>1, <3>6
      <4>4. Total(rest) \in Nat /\ x.amount \in Nat
        BY <4>3
      <4> HIDE DEF rest
      <4> QED
        BY <3>1, <3>2, <4>1, <4>2, <4>4
    <3> QED
      BY <3>2, <3>5, <3>6
  <2> QED
    BY <2>2, <2>3
<1>2. \A S \in SUBSET T : S \in Good
  <2> HIDE DEF Good
  <2> QED
    BY <1>1, BySubsets
<1> QED
  BY <1>2

LEMMA TotalGrows ==
  ASSUME NEW T, IsFiniteSet(T), \A x \in T : x.amount \in Nat, NEW S \in SUBSET T
  PROVE  Total(S) \in Nat /\ Total(T) \in Nat /\ Total(S) <= Total(T)
<1> DEFINE Good == {W \in SUBSET T : S \subseteq W => Total(S) <= Total(W)}
<1>1. \A W \in SUBSET T : Total(W) \in Nat
  BY TotalTakes
<1>2. ASSUME NEW W \in SUBSET T, \A V \in SUBSET W : V # W => V \in Good
      PROVE  W \in Good
  <2>1. CASE ~(S \subseteq W)
    BY <2>1
  <2>2. CASE S = W
    BY <1>1, <2>2
  <2>3. ASSUME S \subseteq W, NEW x \in W, x \notin S
        PROVE  Total(S) <= Total(W)
    <3>1. W \ {x} \in Good /\ S \subseteq W \ {x}
      BY <1>2, <2>3
    <3>2. Total(S) <= Total(W \ {x})
      BY <3>1
    <3>3. Total(W) = x.amount + Total(W \ {x}) /\ x.amount \in Nat
      BY <2>3, TotalTakes
    <3>4. Total(S) \in Nat /\ Total(W \ {x}) \in Nat
      BY <1>1
    <3> QED
      BY <3>2, <3>3, <3>4
  <2> QED
    BY <2>1, <2>2, <2>3
<1>3. \A W \in SUBSET T : W \in Good
  <2> HIDE DEF Good
  <2> QED
    BY <1>2, BySubsets
<1>4. T \in Good
  BY <1>3
<1> QED
  BY <1>1, <1>4

(* A fan has one signal, and stays one. *)
LEMMA FansGrow ==
  ASSUME NEW d, NEW e, Grown(d, e), IsDataset(e), NEW no
  PROVE  /\ FansIn(d, no) => FansIn(e, no)
         /\ FansOut(d, no) => FansOut(e, no)
<1>1. /\ Into(d, no) \subseteq Into(e, no) /\ OutOf(d, no) \subseteq OutOf(e, no)
      /\ Into(e, no) \subseteq e.transactions /\ OutOf(e, no) \subseteq e.transactions
  BY RecordsRead DEF Into, OutOf, Grown
<1>2. \A S \in SUBSET e.transactions : IsFiniteSet(S) /\ \A x \in S : x.amount \in Nat
  BY RecordsRead, FS_Subset
<1>3. \A U, V \in SUBSET e.transactions : U \subseteq V => Total(U) \in Nat /\ Total(V) \in Nat /\ Total(U) <= Total(V)
  BY <1>2, TotalGrows
<1>4. \A S \in SUBSET e.transactions : {u.from : u \in S} \subseteq Names /\ {u.to : u \in S} \subseteq Names
  BY RecordsRead
<1>5. \A U, V \in SUBSET Names :
        U \subseteq V => Cardinality(U) \in Nat /\ Cardinality(V) \in Nat /\ Cardinality(U) <= Cardinality(V)
  BY NamesAssumption, FS_Subset, FS_CardinalityType
<1> DEFINE in1 == Into(d, no)
           in2 == Into(e, no)
           out1 == OutOf(d, no)
           out2 == OutOf(e, no)
<1>6. in1 \in SUBSET e.transactions /\ in2 \in SUBSET e.transactions /\ in1 \subseteq in2
  BY <1>1
<1>7. out1 \in SUBSET e.transactions /\ out2 \in SUBSET e.transactions /\ out1 \subseteq out2
  BY <1>1
<1>8. /\ FansIn(d, no) <=> Cardinality({u.from : u \in in1}) >= 3 /\ Total(in1) >= FanMinTotal
      /\ FansIn(e, no) <=> Cardinality({u.from : u \in in2}) >= 3 /\ Total(in2) >= FanMinTotal
      /\ FansOut(d, no) <=> Cardinality({u.to : u \in out1}) >= 3 /\ Total(out1) >= FanMinTotal
      /\ FansOut(e, no) <=> Cardinality({u.to : u \in out2}) >= 3 /\ Total(out2) >= FanMinTotal
  BY DEF FansIn, FansOut
<1> HIDE DEF in1, in2, out1, out2
<1> DEFINE from1 == {u.from : u \in in1}
           from2 == {u.from : u \in in2}
           to1 == {u.to : u \in out1}
           to2 == {u.to : u \in out2}
<1>9. from1 \subseteq from2 /\ to1 \subseteq to2
  BY <1>6, <1>7
<1>10. from1 \in SUBSET Names /\ from2 \in SUBSET Names /\ to1 \in SUBSET Names /\ to2 \in SUBSET Names
  BY <1>4, <1>6, <1>7
<1> HIDE DEF from1, from2, to1, to2
<1>11. /\ FansIn(d, no) <=> Cardinality(from1) >= 3 /\ Total(in1) >= FanMinTotal
       /\ FansIn(e, no) <=> Cardinality(from2) >= 3 /\ Total(in2) >= FanMinTotal
       /\ FansOut(d, no) <=> Cardinality(to1) >= 3 /\ Total(out1) >= FanMinTotal
       /\ FansOut(e, no) <=> Cardinality(to2) >= 3 /\ Total(out2) >= FanMinTotal
  BY <1>8 DEF from1, from2, to1, to2
<1>12. FanMinTotal \in Nat
  BY DEF FanMinTotal
<1>13. /\ Cardinality(from1) \in Nat /\ Cardinality(from2) \in Nat /\ Cardinality(from1) <= Cardinality(from2)
       /\ Cardinality(to1) \in Nat /\ Cardinality(to2) \in Nat /\ Cardinality(to1) <= Cardinality(to2)
  BY <1>5, <1>9, <1>10
<1>14. /\ Total(in1) \in Nat /\ Total(in2) \in Nat /\ Total(in1) <= Total(in2)
       /\ Total(out1) \in Nat /\ Total(out2) \in Nat /\ Total(out1) <= Total(out2)
  BY <1>3, <1>6, <1>7
<1> QED
  BY <1>11, <1>12, <1>13, <1>14

-----------------------------------------------------------------------------
(* Duplicates.  The further records of a group each make one signal with the
   first of it; when another record becomes the first they make others, but no
   fewer. *)

LEMMA Repeated ==
  ASSUME NEW X, IsFiniteSet(X), \A x \in X : x.id \in Names, \A x, y \in X : x.id = y.id => x = y,
         NEW C, \A x \in X : x \in C[x] /\ C[x] \subseteq X /\ \A y \in C[x] : C[y] = C[x]
  PROVE  /\ \A x \in X : FirstOf(x, C[x]) # {x.id} <=> \E y \in C[x] : Before(y.id, x.id)
         /\ \A x, y \in X :
              FirstOf(x, C[x]) # {x.id} /\ FirstOf(y, C[y]) # {y.id} /\ FirstOf(x, C[x]) = FirstOf(y, C[y]) => x = y
<1>1. \A x \in X : \E f \in C[x] : /\ \A z \in C[x] \ {f} : Before(f.id, z.id)
                                   /\ FirstOf(x, C[x]) = {x.id, f.id}
  <2> SUFFICES ASSUME NEW x \in X
               PROVE  \E f \in C[x] : /\ \A z \in C[x] \ {f} : Before(f.id, z.id)
                                      /\ FirstOf(x, C[x]) = {x.id, f.id}
    OBVIOUS
  <2> DEFINE group == C[x]
  <2>1. IsFiniteSet(group) /\ group # {}
    BY FS_Subset
  <2>2. (\A y \in group : y.id \in Names) /\ \A y, z \in group : y.id = z.id => y = z
    OBVIOUS
  <2> HIDE DEF group
  <2>3. \E f \in group : (\A z \in group \ {f} : Before(f.id, z.id)) /\ \A y : FirstOf(y, group) = {y.id, f.id}
    BY <2>1, <2>2, FirstOfIs
  <2> QED
    BY <2>3, Zenon DEF group
<1>2. ASSUME NEW x \in X
      PROVE  FirstOf(x, C[x]) # {x.id} <=> \E y \in C[x] : Before(y.id, x.id)
  <2>1. PICK f \in C[x] : (\A z \in C[x] \ {f} : Before(f.id, z.id)) /\ FirstOf(x, C[x]) = {x.id, f.id}
    BY <1>1
  <2>2. f \in X /\ x \in C[x] /\ \A y \in C[x] : y \in X
    OBVIOUS
  <2>3. CASE x = f
    <3>1. \A y \in C[x] : ~Before(y.id, x.id)
      BY <2>1, <2>2, <2>3, Order
    <3> QED
      BY <2>1, <2>3, <3>1
  <2>4. CASE x # f
    <3>1. Before(f.id, x.id) /\ x.id # f.id
      BY <2>1, <2>2, <2>4
    <3> QED
      BY <2>1, <3>1
  <2> QED
    BY <2>3, <2>4
<1>3. ASSUME NEW x \in X, NEW y \in X, FirstOf(x, C[x]) # {x.id}, FirstOf(y, C[y]) # {y.id},
             FirstOf(x, C[x]) = FirstOf(y, C[y])
      PROVE  x = y
  <2>1. PICK f \in C[x] : (\A z \in C[x] \ {f} : Before(f.id, z.id)) /\ FirstOf(x, C[x]) = {x.id, f.id}
    BY <1>1
  <2>2. PICK g \in C[y] : (\A z \in C[y] \ {g} : Before(g.id, z.id)) /\ FirstOf(y, C[y]) = {y.id, g.id}
    BY <1>1
  <2>3. f # x /\ g # y /\ f \in X /\ g \in X
    BY <1>3, <2>1, <2>2
  <2>4. CASE x.id = y.id
    BY <2>4
  <2>5. CASE x.id # y.id
    <3>1. x.id = g.id /\ f.id = y.id
      BY <1>3, <2>1, <2>2, <2>5
    <3>2. x = g /\ f = y
      BY <2>3, <3>1
    <3>3. C[y] = C[x] /\ x \in C[x]
      BY <3>2
    <3>4. Before(f.id, x.id)
      BY <2>1, <2>3, <3>3
    <3>5. Before(x.id, f.id)
      BY <2>2, <2>3, <3>2, <3>3
    <3> QED
      BY <2>3, <3>4, <3>5, Order
  <2> QED
    BY <2>4, <2>5
<1> QED
  BY <1>2, <1>3

(* Those that are not the first. *)
PaidAgain(d, invoice) == {p \in Payments(d) : p.invoice = invoice /\ FirstOf(p, Repeats(d, p)) # {p.id}}

BilledAgain(d, rfc) == {i \in Invoices(d) : i.rfc = rfc /\ FirstOf(i, Copies(d, i)) # {i.id}}

LEMMA PaidAgainIs ==
  ASSUME NEW d, IsDataset(d)
  PROVE  /\ \A p \in Payments(d) : FirstOf(p, Repeats(d, p)) # {p.id} <=> \E q \in Repeats(d, p) : Before(q.id, p.id)
         /\ \A p, q \in Payments(d) :
              FirstOf(p, Repeats(d, p)) # {p.id} /\ FirstOf(q, Repeats(d, q)) # {q.id}
                /\ FirstOf(p, Repeats(d, p)) = FirstOf(q, Repeats(d, q)) => p = q
<1> DEFINE X == Payments(d)
           C == [p \in X |-> Repeats(d, p)]
<1>1. IsFiniteSet(X) /\ (\A x \in X : x.id \in Names) /\ \A x, y \in X : x.id = y.id => x = y
  BY RecordsRead, FS_Subset
<1>2. \A x \in X : x \in C[x] /\ C[x] \subseteq X /\ \A y \in C[x] : C[y] = C[x]
  BY DEF Repeats
<1>3. \A x \in X : C[x] = Repeats(d, x)
  OBVIOUS
<1> HIDE DEF C, X
<1>4. /\ \A x \in X : FirstOf(x, C[x]) # {x.id} <=> \E y \in C[x] : Before(y.id, x.id)
      /\ \A x, y \in X :
           FirstOf(x, C[x]) # {x.id} /\ FirstOf(y, C[y]) # {y.id} /\ FirstOf(x, C[x]) = FirstOf(y, C[y]) => x = y
  BY <1>1, <1>2, Repeated
<1>5. ASSUME NEW x \in X, NEW y \in X
      PROVE  /\ FirstOf(x, Repeats(d, x)) # {x.id} <=> \E z \in Repeats(d, x) : Before(z.id, x.id)
             /\ FirstOf(x, Repeats(d, x)) # {x.id} /\ FirstOf(y, Repeats(d, y)) # {y.id}
                  /\ FirstOf(x, Repeats(d, x)) = FirstOf(y, Repeats(d, y)) => x = y
  <2>1. C[x] = Repeats(d, x) /\ C[y] = Repeats(d, y)
    BY <1>3
  <2> QED
    BY <1>4, <2>1
<1> QED
  BY <1>5 DEF X

LEMMA BilledAgainIs ==
  ASSUME NEW d, IsDataset(d)
  PROVE  /\ \A i \in Invoices(d) : FirstOf(i, Copies(d, i)) # {i.id} <=> \E j \in Copies(d, i) : Before(j.id, i.id)
         /\ \A i, j \in Invoices(d) :
              FirstOf(i, Copies(d, i)) # {i.id} /\ FirstOf(j, Copies(d, j)) # {j.id}
                /\ FirstOf(i, Copies(d, i)) = FirstOf(j, Copies(d, j)) => i = j
<1> DEFINE X == Invoices(d)
           C == [i \in X |-> Copies(d, i)]
<1>1. IsFiniteSet(X) /\ (\A x \in X : x.id \in Names) /\ \A x, y \in X : x.id = y.id => x = y
  BY RecordsRead, FS_Subset
<1>2. \A x \in X : x \in C[x] /\ C[x] \subseteq X /\ \A y \in C[x] : C[y] = C[x]
  BY DEF Copies
<1>3. \A x \in X : C[x] = Copies(d, x)
  OBVIOUS
<1> HIDE DEF C, X
<1>4. /\ \A x \in X : FirstOf(x, C[x]) # {x.id} <=> \E y \in C[x] : Before(y.id, x.id)
      /\ \A x, y \in X :
           FirstOf(x, C[x]) # {x.id} /\ FirstOf(y, C[y]) # {y.id} /\ FirstOf(x, C[x]) = FirstOf(y, C[y]) => x = y
  BY <1>1, <1>2, Repeated
<1>5. ASSUME NEW x \in X, NEW y \in X
      PROVE  /\ FirstOf(x, Copies(d, x)) # {x.id} <=> \E z \in Copies(d, x) : Before(z.id, x.id)
             /\ FirstOf(x, Copies(d, x)) # {x.id} /\ FirstOf(y, Copies(d, y)) # {y.id}
                  /\ FirstOf(x, Copies(d, x)) = FirstOf(y, Copies(d, y)) => x = y
  <2>1. C[x] = Copies(d, x) /\ C[y] = Copies(d, y)
    BY <1>3
  <2> QED
    BY <1>4, <2>1
<1> QED
  BY <1>5 DEF X

(* As many signals as records that are not the first. *)
LEMMA DuplicatePaymentCounts ==
  ASSUME NEW d, IsDataset(d), NEW invoice
  PROVE  /\ IsFiniteSet(PaidAgain(d, invoice))
         /\ Cardinality(Group(d, "DET-DUPLICATE-PAYMENT", invoice)) = Cardinality(PaidAgain(d, invoice))
<1> DEFINE N == PaidAgain(d, invoice)
           G == Group(d, "DET-DUPLICATE-PAYMENT", invoice)
           F == [p \in N |-> Signal("DET-DUPLICATE-PAYMENT", invoice, FirstOf(p, Repeats(d, p)))]
<1>1. IsFiniteSet(N)
  BY RecordsRead, FS_Subset DEF PaidAgain
<1>2. \A p \in N : p \in Payments(d) /\ p.invoice = invoice /\ FirstOf(p, Repeats(d, p)) # {p.id}
  BY DEF PaidAgain
<1>3. \A p \in N : F[p] \in G
  <2> SUFFICES ASSUME NEW p \in N PROVE F[p] \in G
    OBVIOUS
  <2>1. F[p] = Signal("DET-DUPLICATE-PAYMENT", invoice, FirstOf(p, Repeats(d, p)))
    OBVIOUS
  <2>2. F[p] \in DuplicatePayment(d)
    BY <1>2, <2>1, DuplicatePaymentIs
  <2>3. F[p].detector = "DET-DUPLICATE-PAYMENT" /\ F[p].entity = invoice
    BY <2>1, SignalIs
  <2> HIDE DEF F
  <2> QED
    BY <2>2, <2>3 DEF Group, RunAllDetectors
<1>4. \A s \in G : \E p \in N : s = F[p]
  <2> SUFFICES ASSUME NEW s \in G PROVE \E p \in N : s = F[p]
    OBVIOUS
  <2>1. s \in DuplicatePayment(d) /\ s.entity = invoice
    BY Found DEF Group
  <2>2. PICK p \in Payments(d) : /\ FirstOf(p, Repeats(d, p)) # {p.id}
                                 /\ s = Signal("DET-DUPLICATE-PAYMENT", p.invoice, FirstOf(p, Repeats(d, p)))
    BY <2>1, DuplicatePaymentIs
  <2>3. p.invoice = invoice
    BY <2>1, <2>2, SignalIs
  <2>4. p \in N
    BY <2>2, <2>3 DEF PaidAgain
  <2> QED
    BY <2>2, <2>3, <2>4
<1>5. \A p, q \in N : F[p] = F[q] => p = q
  <2> SUFFICES ASSUME NEW p \in N, NEW q \in N, F[p] = F[q] PROVE p = q
    OBVIOUS
  <2>1. FirstOf(p, Repeats(d, p)) = FirstOf(q, Repeats(d, q))
    BY SignalIs
  <2> QED
    BY <1>2, <2>1, PaidAgainIs
<1>6. F \in [N -> G]
  BY <1>3
<1> HIDE DEF F, G, N
<1>7. F \in Bijection(N, G)
  BY <1>4, <1>5, <1>6, Fun_IsBij
<1>8. ExistsBijection(N, G)
  BY <1>7 DEF ExistsBijection
<1> QED
  BY <1>1, <1>8, FS_Bijection DEF G, N

LEMMA DuplicateInvoiceCounts ==
  ASSUME NEW d, IsDataset(d), NEW rfc
  PROVE  /\ IsFiniteSet(BilledAgain(d, rfc))
         /\ Cardinality(Group(d, "DUPLICATE_INVOICE", rfc)) = Cardinality(BilledAgain(d, rfc))
<1> DEFINE N == BilledAgain(d, rfc)
           G == Group(d, "DUPLICATE_INVOICE", rfc)
           F == [i \in N |-> Signal("DUPLICATE_INVOICE", rfc, FirstOf(i, Copies(d, i)))]
<1>1. IsFiniteSet(N)
  BY RecordsRead, FS_Subset DEF BilledAgain
<1>2. \A i \in N : i \in Invoices(d) /\ i.rfc = rfc /\ FirstOf(i, Copies(d, i)) # {i.id}
  BY DEF BilledAgain
<1>3. \A i \in N : F[i] \in G
  <2> SUFFICES ASSUME NEW i \in N PROVE F[i] \in G
    OBVIOUS
  <2>1. F[i] = Signal("DUPLICATE_INVOICE", rfc, FirstOf(i, Copies(d, i)))
    OBVIOUS
  <2>2. F[i] \in DuplicateInvoice(d)
    BY <1>2, <2>1, DuplicateInvoiceIs
  <2>3. F[i].detector = "DUPLICATE_INVOICE" /\ F[i].entity = rfc
    BY <2>1, SignalIs
  <2> HIDE DEF F
  <2> QED
    BY <2>2, <2>3 DEF Group, RunAllDetectors
<1>4. \A s \in G : \E i \in N : s = F[i]
  <2> SUFFICES ASSUME NEW s \in G PROVE \E i \in N : s = F[i]
    OBVIOUS
  <2>1. s \in DuplicateInvoice(d) /\ s.entity = rfc
    BY Found DEF Group
  <2>2. PICK i \in Invoices(d) : /\ FirstOf(i, Copies(d, i)) # {i.id}
                                 /\ s = Signal("DUPLICATE_INVOICE", i.rfc, FirstOf(i, Copies(d, i)))
    BY <2>1, DuplicateInvoiceIs
  <2>3. i.rfc = rfc
    BY <2>1, <2>2, SignalIs
  <2>4. i \in N
    BY <2>2, <2>3 DEF BilledAgain
  <2> QED
    BY <2>2, <2>3, <2>4
<1>5. \A i, j \in N : F[i] = F[j] => i = j
  <2> SUFFICES ASSUME NEW i \in N, NEW j \in N, F[i] = F[j] PROVE i = j
    OBVIOUS
  <2>1. FirstOf(i, Copies(d, i)) = FirstOf(j, Copies(d, j))
    BY SignalIs
  <2> QED
    BY <1>2, <2>1, BilledAgainIs
<1>6. F \in [N -> G]
  BY <1>3
<1> HIDE DEF F, G, N
<1>7. F \in Bijection(N, G)
  BY <1>4, <1>5, <1>6, Fun_IsBij
<1>8. ExistsBijection(N, G)
  BY <1>7 DEF ExistsBijection
<1> QED
  BY <1>1, <1>8, FS_Bijection DEF G, N

LEMMA DuplicatesGrow ==
  ASSUME NEW d, IsDataset(d), NEW e, IsDataset(e), Grown(d, e), NEW entity
  PROVE  /\ Cardinality(Group(d, "DET-DUPLICATE-PAYMENT", entity)) <= Cardinality(Group(e, "DET-DUPLICATE-PAYMENT", entity))
         /\ Cardinality(Group(d, "DUPLICATE_INVOICE", entity)) <= Cardinality(Group(e, "DUPLICATE_INVOICE", entity))
<1>1. PaidAgain(d, entity) \subseteq PaidAgain(e, entity)
  <2> SUFFICES ASSUME NEW p \in PaidAgain(d, entity) PROVE p \in PaidAgain(e, entity)
    OBVIOUS
  <2>1. p \in Payments(d) /\ p \in Payments(e) /\ p.invoice = entity /\ FirstOf(p, Repeats(d, p)) # {p.id}
    BY DEF PaidAgain, Grown
  <2>2. PICK q \in Repeats(d, p) : Before(q.id, p.id)
    BY <2>1, PaidAgainIs
  <2>3. q \in Repeats(e, p)
    BY DEF Repeats, Grown
  <2>4. FirstOf(p, Repeats(e, p)) # {p.id}
    BY <2>1, <2>2, <2>3, PaidAgainIs
  <2> QED
    BY <2>1, <2>4 DEF PaidAgain
<1>2. BilledAgain(d, entity) \subseteq BilledAgain(e, entity)
  <2> SUFFICES ASSUME NEW i \in BilledAgain(d, entity) PROVE i \in BilledAgain(e, entity)
    OBVIOUS
  <2>1. i \in Invoices(d) /\ i \in Invoices(e) /\ i.rfc = entity /\ FirstOf(i, Copies(d, i)) # {i.id}
    BY DEF BilledAgain, Grown
  <2>2. PICK j \in Copies(d, i) : Before(j.id, i.id)
    BY <2>1, BilledAgainIs
  <2>3. j \in Copies(e, i)
    BY DEF Copies, Grown
  <2>4. FirstOf(i, Copies(e, i)) # {i.id}
    BY <2>1, <2>2, <2>3, BilledAgainIs
  <2> QED
    BY <2>1, <2>4 DEF BilledAgain
<1>3. Cardinality(PaidAgain(d, entity)) <= Cardinality(PaidAgain(e, entity))
  BY <1>1, DuplicatePaymentCounts, FS_Subset
<1>4. Cardinality(BilledAgain(d, entity)) <= Cardinality(BilledAgain(e, entity))
  BY <1>2, DuplicateInvoiceCounts, FS_Subset
<1> QED
  BY <1>3, <1>4, DuplicatePaymentCounts, DuplicateInvoiceCounts

-----------------------------------------------------------------------------
(* What the monotone rules found is found again, by as many signals. *)

(* A fan is one signal. *)
LEMMA FanIsOneSignal ==
  ASSUME NEW d, IsDataset(d), NEW detector \in {"FAN_IN", "FAN_OUT"}, NEW entity, Group(d, detector, entity) # {}
  PROVE  /\ Cardinality(Group(d, detector, entity)) = 1
         /\ detector = "FAN_IN" => \E t \in Transfers(d) : t.to = entity /\ FansIn(d, entity)
         /\ detector = "FAN_OUT" => \E t \in Transfers(d) : t.from = entity /\ FansOut(d, entity)
<1> DEFINE G == Group(d, detector, entity)
           x == Signal(detector, entity, Ids(IF detector = "FAN_IN" THEN Into(d, entity) ELSE OutOf(d, entity)))
<1>1. \A s \in G : s \in RunAllDetectors(d) /\ s.detector = detector /\ s.entity = entity
  BY DEF Group
<1>2. ASSUME NEW s \in G
      PROVE  /\ s = x
             /\ detector = "FAN_IN" => \E t \in Transfers(d) : t.to = entity /\ FansIn(d, entity)
             /\ detector = "FAN_OUT" => \E t \in Transfers(d) : t.from = entity /\ FansOut(d, entity)
  <2>1. CASE detector = "FAN_IN"
    <3>1. PICK t \in Transfers(d) : FansIn(d, t.to) /\ s = Signal("FAN_IN", t.to, Ids(Into(d, t.to)))
      BY <1>1, <2>1, Found, FanInIs
    <3>2. t.to = entity
      BY <1>1, <3>1, SignalIs
    <3> QED
      BY <2>1, <3>1, <3>2
  <2>2. CASE detector = "FAN_OUT"
    <3>1. PICK t \in Transfers(d) : FansOut(d, t.from) /\ s = Signal("FAN_OUT", t.from, Ids(OutOf(d, t.from)))
      BY <1>1, <2>2, Found, FanOutIs
    <3>2. t.from = entity
      BY <1>1, <3>1, SignalIs
    <3> QED
      BY <2>2, <3>1, <3>2
  <2> QED
    BY <2>1, <2>2
<1>3. G = {x}
  <2>1. \A s \in G : s = x
    BY <1>2
  <2> HIDE DEF G, x
  <2>2. G # {}
    BY DEF G
  <2> QED
    BY <2>1, <2>2
<1> QED
  BY <1>2, <1>3, FS_Singleton

LEMMA FanGroupsGrow ==
  ASSUME NEW d, IsDataset(d), NEW e, IsDataset(e), Grown(d, e),
         NEW detector \in {"FAN_IN", "FAN_OUT"}, NEW entity, Group(d, detector, entity) # {}
  PROVE  Group(e, detector, entity) # {}
<1>1. CASE detector = "FAN_IN"
  <2>1. PICK t \in Transfers(d) : t.to = entity /\ FansIn(d, entity)
    BY <1>1, FanIsOneSignal
  <2>2. t \in Transfers(e) /\ FansIn(e, t.to)
    BY <2>1, FansGrow DEF Grown
  <2> DEFINE s == Signal("FAN_IN", t.to, Ids(Into(e, t.to)))
  <2>3. s \in FanIn(e)
    BY <2>2, FanInIs
  <2>4. s.detector = "FAN_IN" /\ s.entity = entity
    BY <2>1, SignalIs
  <2> HIDE DEF s
  <2> QED
    BY <1>1, <2>3, <2>4 DEF Group, RunAllDetectors
<1>2. CASE detector = "FAN_OUT"
  <2>1. PICK t \in Transfers(d) : t.from = entity /\ FansOut(d, entity)
    BY <1>2, FanIsOneSignal
  <2>2. t \in Transfers(e) /\ FansOut(e, t.from)
    BY <2>1, FansGrow DEF Grown
  <2> DEFINE s == Signal("FAN_OUT", t.from, Ids(OutOf(e, t.from)))
  <2>3. s \in FanOut(e)
    BY <2>2, FanOutIs
  <2>4. s.detector = "FAN_OUT" /\ s.entity = entity
    BY <2>1, SignalIs
  <2> HIDE DEF s
  <2> QED
    BY <1>2, <2>3, <2>4 DEF Group, RunAllDetectors
<1> QED
  BY <1>1, <1>2

LEMMA ListedGroupsGrow ==
  ASSUME NEW d, IsDataset(d), NEW e, IsDataset(e), Grown(d, e), NEW entity, Group(d, "69B_CORRELATION", entity) # {}
  PROVE  Group(e, "69B_CORRELATION", entity) # {}
<1>1. PICK r \in Correlation69B(d) : r.entity = entity
  BY Found DEF Group
<1>2. PICK p \in Providers(d) :
        Listed(p) /\ Activity(d, p.rfc) # {} /\ r = Signal("69B_CORRELATION", p.rfc, Activity(d, p.rfc))
  BY Correlation69BIs
<1>3. p.rfc = entity
  BY <1>1, <1>2, SignalIs
<1>4. Activity(d, p.rfc) \subseteq Activity(e, p.rfc)
  BY DEF Activity, Grown, Ids
<1>5. p \in Providers(e) /\ Activity(e, p.rfc) # {}
  BY <1>2, <1>4 DEF Grown
<1> DEFINE s == Signal("69B_CORRELATION", p.rfc, Activity(e, p.rfc))
<1>6. s \in Correlation69B(e)
  BY <1>2, <1>5, Correlation69BIs
<1>7. s.detector = "69B_CORRELATION" /\ s.entity = entity
  BY <1>3, SignalIs
<1> HIDE DEF s
<1> QED
  BY <1>6, <1>7 DEF Group, RunAllDetectors

LEMMA GroupsGrow ==
  ASSUME NEW d, IsDataset(d), NEW e, IsDataset(e), Grown(d, e),
         NEW detector \in Monotone, NEW entity, Group(d, detector, entity) # {}
  PROVE  /\ Group(e, detector, entity) # {}
         /\ Cardinality(Group(d, detector, entity)) <= Cardinality(Group(e, detector, entity))
<1> DEFINE G == Group(d, detector, entity)
           H == Group(e, detector, entity)
<1>1. \A s \in G : s \in RunAllDetectors(d) /\ s.detector = detector /\ s.entity = entity
  BY DEF Group
<1>2. IsFiniteSet(H) /\ Cardinality(H) \in Nat /\ (Cardinality(H) = 0 <=> H = {})
  <2>1. H \subseteq RunAllDetectors(e)
    BY DEF Group
  <2> HIDE DEF H
  <2> QED
    BY <2>1, Found, FS_Subset, FS_CardinalityType, FS_EmptySet
<1>3. Cardinality(G) \in Nat \ {0}
  BY GroupIs
<1>4. ASSUME G \subseteq H PROVE Cardinality(G) <= Cardinality(H)
  <2> HIDE DEF G, H
  <2> QED
    BY <1>2, <1>4, FS_Subset
<1>5. CASE detector \in {"DET-ROUND-TRIP-CYCLE", "DET-RAPID-PASS-THROUGH", "SHELL_NETWORK", "UNUSUAL_TIMING",
                          "DET-SHARED-ADDRESS-CONTROL"}
  <2>1. ASSUME NEW s \in G PROVE s \in RunAllDetectors(e)
    <3>1. \/ s \in CircularFlow(d) \/ s \in RapidPassThrough(d) \/ s \in ShellNetwork(d)
          \/ s \in UnusualTiming(d) \/ s \in SharedAddressControl(d)
      BY <1>1, <1>5, Found
    <3>2. \/ s \in CircularFlow(e) \/ s \in RapidPassThrough(e) \/ s \in ShellNetwork(e)
          \/ s \in UnusualTiming(e) \/ s \in SharedAddressControl(e)
      BY <3>1, CircularFlowGrows, RapidPassThroughGrows, ShellNetworkGrows, UnusualTimingGrows, SharedAddressControlGrows
    <3> QED
      BY <3>2 DEF RunAllDetectors
  <2>2. G \subseteq H
    BY <1>1, <2>1 DEF Group
  <2> QED
    BY <1>2, <1>3, <1>4, <2>2
<1>6. CASE detector \in {"DET-DUPLICATE-PAYMENT", "DUPLICATE_INVOICE"}
  <2>1. Cardinality(G) <= Cardinality(H)
    BY <1>6, DuplicatesGrow
  <2> QED
    BY <1>2, <1>3, <2>1
<1>7. CASE detector \in {"FAN_IN", "FAN_OUT", "69B_CORRELATION"}
  <2>1. Cardinality(G) = 1
    BY <1>7, FanIsOneSignal, ContextIsOneSignal
  <2>2. H # {}
    BY <1>7, FanGroupsGrow, ListedGroupsGrow
  <2> QED
    BY <1>2, <2>1, <2>2
<1>8. detector \in {"DET-ROUND-TRIP-CYCLE", "DET-RAPID-PASS-THROUGH", "SHELL_NETWORK", "UNUSUAL_TIMING",
                    "DET-SHARED-ADDRESS-CONTROL", "DET-DUPLICATE-PAYMENT", "DUPLICATE_INVOICE",
                    "FAN_IN", "FAN_OUT", "69B_CORRELATION"}
  BY DEF Monotone, Detectors
<1> QED
  BY <1>5, <1>6, <1>7, <1>8

(* A record that arrives makes more of the dataset. *)
LEMMA ArrivalGrows ==
  ASSUME DataInv, NEW k \in Activities, NEW record \in Corpus[name][k] \ data[k],
         NEW e, e = [data EXCEPT ![k] = @ \cup {record}], IsDataset(e),
         \A j \in Activities \cup {"providers"} : Cardinality(e[j]) <= PageSize
  PROVE  Grown(data, e)
<1>1. IsDataset(data)
  BY PartsAreDatasets DEF DataInv
<1>2. DOMAIN data = Activities \cup {"entities", "providers", "accounts"}
  BY <1>1 DEF IsDataset
<1>3. \A j \in DOMAIN data : data[j] \subseteq e[j] /\ (j \notin Activities => e[j] = data[j])
  BY <1>2
<1>4. /\ data.invoices \subseteq e.invoices /\ data.payments \subseteq e.payments
      /\ data.transactions \subseteq e.transactions
      /\ e.providers = data.providers /\ e.entities = data.entities /\ e.accounts = data.accounts
  BY <1>2, <1>3 DEF Activities
<1>5. /\ Cardinality(e.invoices) <= PageSize /\ Cardinality(e.payments) <= PageSize
      /\ Cardinality(e.transactions) <= PageSize
  BY DEF Activities
<1>6. IsFiniteSet(e.invoices) /\ IsFiniteSet(e.payments) /\ IsFiniteSet(e.transactions)
  BY <1>1, RecordsRead
<1>7. \A S, T : IsFiniteSet(T) /\ S \subseteq T /\ Cardinality(T) <= PageSize => Cardinality(S) <= PageSize
  BY FS_Subset, FS_CardinalityType, DetectionAssumption
<1>8. /\ Cardinality(data.invoices) <= PageSize /\ Cardinality(data.payments) <= PageSize
      /\ Cardinality(data.transactions) <= PageSize
  BY <1>4, <1>5, <1>6, <1>7
<1>9. /\ Invoices(data) = data.invoices /\ Payments(data) = data.payments /\ Transfers(data) = data.transactions
  BY <1>8, Zenon DEF Invoices, Payments, Transfers, Page
<1>10. /\ Invoices(e) = e.invoices /\ Payments(e) = e.payments /\ Transfers(e) = e.transactions
  BY <1>5, Zenon DEF Invoices, Payments, Transfers, Page
<1>11. Providers(e) = Providers(data)
  BY <1>4, Zenon DEF Providers, Page
<1> QED
  BY <1>4, <1>9, <1>10, <1>11 DEF Grown

LEMMA LeadsGrow ==
  ASSUME NEW d, IsDataset(d), NEW e, IsDataset(e), Grown(d, e), NEW l \in RunAll(d), l.detector \in Monotone
  PROVE  \E m \in RunAll(e) : m.detector = l.detector /\ m.entity = l.entity /\ m.risk_score >= l.risk_score
<1> DEFINE D == l.detector
           E == l.entity
           m == LeadOf(e, D, E)
<1>1. l = LeadOf(d, D, E) /\ Group(d, D, E) # {}
  BY RunAllIs
<1>2. Group(e, D, E) # {} /\ Cardinality(Group(d, D, E)) <= Cardinality(Group(e, D, E))
  BY <1>1, GroupsGrow
<1>3. Cardinality(Group(d, D, E)) \in Nat \ {0} /\ Cardinality(Group(e, D, E)) \in Nat \ {0}
  BY <1>1, <1>2, GroupIs
<1>4. /\ RiskScore(D, Cardinality(Group(d, D, E))) <= RiskScore(D, Cardinality(Group(e, D, E)))
      /\ RiskScore(D, Cardinality(Group(d, D, E))) \in Nat
      /\ RiskScore(D, Cardinality(Group(e, D, E))) \in Nat
  BY <1>2, <1>3, RiskScoreGrows
<1>5. m \in RunAll(e)
  BY <1>2, RunAllIs
<1>6. m.detector = D /\ m.entity = E /\ m.risk_score = RiskScore(D, Cardinality(Group(e, D, E)))
  BY LeadHas
<1>7. l.risk_score = RiskScore(D, Cardinality(Group(d, D, E)))
  BY <1>1, LeadHas
<1> HIDE DEF m
<1> QED
  BY <1>4, <1>5, <1>6, <1>7

LEMMA GrowsStep ==
  ASSUME DataInv, CurrentInv, [Next]_vars, OnOnePage', NEW l \in current, l.detector \in Monotone
  PROVE  \E m \in current' : m.detector = l.detector /\ m.entity = l.entity /\ m.risk_score >= l.risk_score
<1>1. IsDataset(data)
  BY PartsAreDatasets DEF DataInv
<1>2. l \in RunAll(data)
  BY DEF CurrentInv
<1>3. CASE UNCHANGED vars
  <2>1. l.risk_score \in Nat /\ l \in current'
    BY <1>1, <1>2, <1>3, LeadsAre DEF vars
  <2> QED
    BY <2>1
<1>4. CASE Next
  <2>1. PICK k \in Activities : Add(k)
    BY <1>4 DEF Next
  <2>2. PICK record \in Corpus[name][k] \ data[k] : data' = [data EXCEPT ![k] = @ \cup {record}]
    BY <2>1 DEF Add
  <2>3. IsDataset(data')
    <3>1. DataInv'
      BY DataStep
    <3> QED
      BY <3>1, PartsAreDatasets DEF DataInv
  <2>4. \A j \in Activities \cup {"providers"} : Cardinality(data'[j]) <= PageSize
    BY DEF OnOnePage
  <2>5. Grown(data, data')
    BY <2>2, <2>3, <2>4, ArrivalGrows
  <2>6. current' = RunAll(data')
    BY <2>1 DEF Add
  <2> QED
    BY <1>1, <1>2, <2>3, <2>5, <2>6, LeadsGrow
<1> QED
  BY <1>3, <1>4

(* Whatever the corpus and the order in which its records arrive, no record
   makes a lead of a monotone rule disappear from the next run, or score less,
   while a list() returns every record.  Of the thirteen rules of
   detection/rules only three compare with what later records can move: the
   sum of an invoice's payments, a payer's total, the median of the amounts. *)
THEOREM MoreRecordsNeverExculpate == Spec => AccusationsOnlyGrow
<1> DEFINE Inv == DataInv /\ CurrentInv
           Kept == OnOnePage' =>
                     \A l \in current :
                       l.detector \in Monotone =>
                         \E m \in current' :
                           m.detector = l.detector /\ m.entity = l.entity /\ m.risk_score >= l.risk_score
<1>1. Init => Inv
  BY DataInit
<1>2. Inv /\ [Next]_vars => Inv'
  BY DataStep
<1>3. Inv /\ [Next]_vars => [Kept]_vars
  BY GrowsStep
<1> QED
  BY <1>1, <1>2, <1>3, PTL DEF Spec, AccusationsOnlyGrow
=============================================================================
