----------------------------- MODULE Detection ------------------------------
(***************************************************************************)
(* The detection engine over a repository that fills up record by record,  *)
(* in any order: after each one detection/detectors.py runs every rule     *)
(* over what is there and services/investigation_service.py files the      *)
(* leads by their identifiers, over those of earlier runs.                 *)
(***************************************************************************)
EXTENDS DetectionRules

CONSTANT Corpus   \* the datasets, each by its name

ASSUME CorpusAssumption == \A n \in DOMAIN Corpus : IsDataset(Corpus[n])

VARIABLES
  name,      \* the dataset that arrives
  data,      \* what of it is in the repository
  current,   \* the leads of the last run
  leads      \* the leads on file

vars == <<name, data, current, leads>>

-----------------------------------------------------------------------------
(* Leads are filed one after the other, by falling score, then by detector
   and entity: of those with one identifier the last stays. *)
FiledAfter(l, m) ==
  \/ l.risk_score < m.risk_score
  \/ l.risk_score = m.risk_score /\ Before(m.entity, l.entity)

RefreshLeads(stored, found) ==
  {l \in stored : \A m \in found : m.lead_id # l.lead_id}
    \cup {l \in found : \A m \in found : m.lead_id = l.lead_id => ~FiledAfter(m, l)}

Init ==
  /\ name \in DOMAIN Corpus
  /\ data = [k \in DOMAIN Corpus[name] |-> IF k \in Activities THEN {} ELSE Corpus[name][k]]
  /\ current = {} /\ leads = {}

Add(k) ==
  \E record \in Corpus[name][k] \ data[k] :
    /\ data' = [data EXCEPT ![k] = @ \cup {record}]
    /\ current' = RunAll(data')
    /\ leads' = RefreshLeads(leads, current')
    /\ UNCHANGED name

Next == \E k \in Activities : Add(k)

Spec == Init /\ [][Next]_vars
-----------------------------------------------------------------------------
Complete == data = Corpus[name]

OnOnePage == \A k \in Activities \cup {"providers"} : Cardinality(data[k]) <= PageSize

Accuses(l) == l.risk_score >= PursueThreshold

Evidence(l) == UNION {s.sources : s \in l.signals}

(* However many records point to them, a listing by the SAT and a shared
   address stay below the threshold of pursuit (scoring/weights.py), the
   control below its ceiling: correlation_69b makes one signal of all a
   provider is active in. *)
ContextNeverAccuses ==
  \A l \in leads :
    /\ l.detector = "69B_CORRELATION" => ~Accuses(l)
    /\ l.detector = "DET-SHARED-ADDRESS-CONTROL" => l.risk_score < ControlRiskCeiling

(* Groups of signals may meet in one identifier (cycles through one root
   transfer) and the lead filed last hides the others: what the hidden ones
   accuse of is still on file, with a record in common and a score to be
   pursued, unless the RFCs of two suppliers agree in the twelve characters
   that are kept of them. *)
NoAccusationIsHidden ==
  \A l \in current :
    Accuses(l) =>
      \E m \in leads :
        /\ m.lead_id = l.lead_id /\ m.detector = l.detector /\ Accuses(m)
        /\ \/ Evidence(m) \cap Evidence(l) # {}
           \/ m.entity # l.entity /\ Prefix(m.entity) = Prefix(l.entity)

(* The rules that more records cannot talk out of what they found. *)
Monotone ==
  Detectors \ {"INVOICE_PAYMENT_MISMATCH", "SUPPLIER_CONCENTRATION", "UNUSUAL_AMOUNT"}

(* As records arrive, in whatever order, the groups of the monotone rules
   neither go nor lose score, while a list() still returns every record:
   neither a transfer in between nor a record of a smaller identifier hides
   what was found. *)
AccusationsOnlyGrow ==
  [][OnOnePage' =>
       \A l \in current :
         l.detector \in Monotone =>
           \E m \in current' :
             m.detector = l.detector /\ m.entity = l.entity /\ m.risk_score >= l.risk_score]_vars
=============================================================================
