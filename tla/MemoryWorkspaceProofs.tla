----------------------- MODULE MemoryWorkspaceProofs ------------------------
(***************************************************************************)
(* Theorems about the workspace without a database, for any number of      *)
(* requests, of threads and of leads, and any data.                        *)
(***************************************************************************)
EXTENDS MemoryWorkspace, DetectionRulesProofs

(* What a request has in hand, by where it is. *)
Fits(t) ==
  /\ pc[t] \in {"acquire", "get_lead", "investigate", "follow", "case", "steps", "evidence"} =>
       request[t] = "start" /\ arg[t] \in Investigated
  /\ pc[t] \in {"get_lead", "investigate", "follow", "case", "steps", "evidence"} => locks[arg[t]] = t
  /\ pc[t] \in {"investigate", "follow"} => IsLead(lead[t]) /\ lead[t].lead_id = arg[t]
  /\ pc[t] \in {"follow", "case", "steps", "evidence"} => run[t] \in Nat
  /\ pc[t] \in {"pick", "add"} => request[t] = "inject" /\ scenario[t] \in Scenarios
  /\ pc[t] = "add" =>
       /\ todo[t] # << >>
       /\ \A i \in DOMAIN todo[t] : <<scenario[t], todo[t][i]>> \in PartsOf(scenario[t])
  /\ pc[t] \in {"add", "detector", "investigator"} => data[t] \in DOMAIN heap
  /\ pc[t] \in {"detect", "file"} => request[t] \in Swaps \cup {"inject"}
  /\ pc[t] \in {"repo", "data", "detector", "investigator", "clear_cases", "clear_steps", "clear_evidence",
                "clear_leads"} => request[t] \in Swaps

InHand == \A t \in Threads : Fits(t)

TypeInv == TypeOK /\ InHand

-----------------------------------------------------------------------------
(* What the detectors find in a repository. *)
LEMMA FoundIs ==
  ASSUME NEW r \in Repositories
  PROVE  FoundIn(r) = {[lead_id |-> l.lead_id, risk_score |-> l.risk_score, status |-> "OPEN"] :
                         l \in RunAll(Records(r))}
<1> DEFINE LeadsOf(x) ==
             {[lead_id |-> l.lead_id, risk_score |-> l.risk_score, status |-> "OPEN"] :
                 l \in UNION {RunAll(d) : d \in {Records(x)}}}
<1>1. Findings = {[repository |-> x, leads |-> LeadsOf(x)] : x \in Repositories}
  BY Zenon DEF Findings
<1>2. UNION {RunAll(d) : d \in {Records(r)}} = RunAll(Records(r))
  OBVIOUS
<1>3. LeadsOf(r) = {[lead_id |-> l.lead_id, risk_score |-> l.risk_score, status |-> "OPEN"] :
                      l \in RunAll(Records(r))}
  BY <1>2, Zenon
<1> HIDE DEF LeadsOf
<1>4. \E f \in Findings : f.repository = r
  <2>1. [repository |-> r, leads |-> LeadsOf(r)] \in Findings
    BY <1>1
  <2>2. [repository |-> r, leads |-> LeadsOf(r)].repository = r
    OBVIOUS
  <2> QED
    BY <2>1, <2>2
<1>5. FoundIn(r) = (CHOOSE f \in Findings : f.repository = r).leads
  BY Zenon DEF FoundIn
<1>6. PICK f \in Findings : f.repository = r /\ FoundIn(r) = f.leads
  BY <1>4, <1>5
<1>7. PICK x \in Repositories : f = [repository |-> x, leads |-> LeadsOf(x)]
  BY <1>1, <1>6
<1>8. x = r /\ FoundIn(r) = LeadsOf(x)
  BY <1>6, <1>7
<1> QED
  BY <1>3, <1>8

LEMMA FoundLeads ==
  ASSUME NEW r \in Repositories
  PROVE  \A l \in FoundIn(r) : IsLead(l) /\ l.status = "OPEN"
BY FoundIs DEF IsLead

LEMMA KindsAreNamed ==
  ASSUME NEW s \in Scenarios
  PROVE  /\ KindsOf(s) \in Seq({Kinds[i] : i \in DOMAIN Kinds}) /\ KindsOf(s) # << >>
         /\ \A i \in DOMAIN KindsOf(s) : <<s, KindsOf(s)[i]>> \in PartsOf(s)
<1> DEFINE K == {Kinds[i] : i \in DOMAIN Kinds}
<1>1. Kinds \in Seq(K) /\ Kinds # << >>
  BY DEF Kinds
<1>2. "payments" \in K /\ "transactions" \in K
  <2>1. 5 \in DOMAIN Kinds /\ 6 \in DOMAIN Kinds /\ Kinds[5] = "payments" /\ Kinds[6] = "transactions"
    BY DEF Kinds
  <2> QED
    BY <2>1
<1> HIDE DEF K
<1>3. <<"payments", "transactions">> \in Seq(K) /\ <<"payments", "transactions">> # << >>
  BY <1>2
<1>4. KindsOf(s) \in Seq(K) /\ KindsOf(s) # << >>
  BY <1>1, <1>3 DEF KindsOf
<1> QED
  BY <1>4 DEF K, PartsOf

LEMMA TypeInit == Init => TypeInv
<1> SUFFICES ASSUME Init PROVE TypeInv
  OBVIOUS
<1>1. heap \in Seq(Repositories) /\ {repo, detectors, investigator} \subseteq DOMAIN heap
  <2>1. [loaded |-> TRUE, added |-> {}] \in Repositories
    BY DEF Repositories
  <2> QED
    BY <2>1 DEF Init
<1>2. TypeOK
  <2>1. /\ \A l \in leads : IsLead(l)
        /\ \A t \in Threads : \A l \in detected[t] : IsLead(l) /\ l.status = "OPEN"
        /\ detected = [t \in Threads |-> detected[t]] /\ lead = [t \in Threads |-> lead[t]]
    BY DEF Init
  <2>2. /\ cases \in [Investigated -> Nat \cup {None}]
        /\ steps \in [Investigated -> Nat \cup {None}] /\ evidence \in [Investigated -> Nat \cup {None}]
        /\ locks \in [Investigated -> Threads \cup {None}]
    BY DEF Init
  <2>3. /\ pc \in [Threads -> Places] /\ request \in [Threads -> Swaps \cup {"start", "inject", None}]
        /\ arg \in [Threads -> Investigated \cup {None}] /\ scenario \in [Threads -> Scenarios \cup {None}]
        /\ data \in [Threads -> Nat \cup {None}] /\ run \in [Threads -> Nat \cup {None}]
        /\ answer \in [Threads -> {"OK", "NOT_FOUND", None}]
    BY DEF Init, Places
  <2>4. todo \in [Threads -> Seq({Kinds[i] : i \in DOMAIN Kinds})]
    <3> DEFINE K == {Kinds[i] : i \in DOMAIN Kinds}
    <3>1. << >> \in Seq(K)
      OBVIOUS
    <3> HIDE DEF K
    <3>2. todo \in [Threads -> Seq(K)]
      BY <3>1 DEF Init
    <3> QED
      BY <3>2 DEF K
  <2>5. requests \in 0..MaxRequests /\ runs \in Nat /\ swapped \in BOOLEAN /\ refreshed \in BOOLEAN
    <3>1. MaxRequests \in Nat
      BY WorkspaceAssumption
    <3>2. requests = 0 /\ runs = 0
      BY DEF Init
    <3>3. swapped \in BOOLEAN /\ refreshed \in BOOLEAN
      BY DEF Init
    <3> QED
      BY <3>1, <3>2, <3>3
  <2> QED
    BY <1>1, <2>1, <2>2, <2>3, <2>4, <2>5 DEF TypeOK
<1> QED
  BY <1>2 DEF Init, TypeInv, InHand, Fits
-----------------------------------------------------------------------------
LEMMA AskType ==
  ASSUME TypeInv, NEW t \in Threads, Arrive(t)
  PROVE  TypeInv'
<1>1. PICK operation \in Swaps \cup {"start", "inject"}, about \in Investigated \cup {None},
           hidden \in Scenarios \cup {None}, place \in {"acquire", "pick", "repo"} :
        /\ Ask(t, operation, about, hidden, place)
        /\ \/ operation = "start" /\ about \in Investigated /\ place = "acquire"
           \/ operation = "inject" /\ hidden \in Scenarios /\ place = "pick"
           \/ operation \in Swaps /\ place = "repo"
  BY DEF Arrive, AskStart, AskInject, AskSwap
<1>2. requests' \in 0..MaxRequests
  BY <1>1, WorkspaceAssumption DEF TypeInv, TypeOK, Ask
<1>3. UNCHANGED <<service, locks, data, todo, detected, lead, run, answer, runs, refreshed>>
  BY <1>1 DEF Ask
<1>4. /\ request' = [request EXCEPT ![t] = operation] /\ arg' = [arg EXCEPT ![t] = about]
      /\ scenario' = [scenario EXCEPT ![t] = hidden] /\ pc' = [pc EXCEPT ![t] = place]
      /\ swapped' \in BOOLEAN
  BY <1>1 DEF Ask, Goto, TypeInv, TypeOK
<1>5. TypeOK'
  BY <1>2, <1>3, <1>4 DEF TypeInv, TypeOK, service, Places
<1>6. Fits(t)'
  BY <1>1, <1>4 DEF TypeInv, TypeOK, Fits
<1>7. \A u \in Threads \ {t} : Fits(u)'
  <2>1. \A u \in Threads \ {t} : /\ pc'[u] = pc[u] /\ request'[u] = request[u] /\ arg'[u] = arg[u]
                                 /\ scenario'[u] = scenario[u]
    BY <1>4 DEF TypeInv, TypeOK
  <2> QED
    BY <1>3, <2>1 DEF TypeInv, InHand, Fits, service
<1> QED
  BY <1>5, <1>6, <1>7 DEF TypeInv, InHand

LEMMA RespondType ==
  ASSUME TypeInv, NEW t \in Threads, Respond(t)
  PROVE  TypeInv'
<1>1. TypeOK'
  <2>1. /\ pc' \in [Threads -> Places] /\ request' \in [Threads -> Swaps \cup {"start", "inject", None}]
        /\ arg' \in [Threads -> Investigated \cup {None}] /\ scenario' \in [Threads -> Scenarios \cup {None}]
        /\ data' \in [Threads -> Nat \cup {None}] /\ run' \in [Threads -> Nat \cup {None}]
        /\ answer' \in [Threads -> {"OK", "NOT_FOUND", None}]
    BY DEF TypeInv, TypeOK, Respond, Goto, Places
  <2>2. todo' \in [Threads -> Seq({Kinds[i] : i \in DOMAIN Kinds})]
    <3> DEFINE K == {Kinds[i] : i \in DOMAIN Kinds}
    <3>1. << >> \in Seq(K)
      OBVIOUS
    <3>2. todo \in [Threads -> Seq(K)]
      BY DEF TypeInv, TypeOK
    <3> HIDE DEF K
    <3>3. todo' \in [Threads -> Seq(K)]
      BY <3>1, <3>2 DEF Respond
    <3> QED
      BY <3>3 DEF K
  <2>3. /\ detected' = [u \in Threads |-> detected'[u]] /\ lead' = [u \in Threads |-> lead'[u]]
        /\ \A u \in Threads : \A l \in detected'[u] : IsLead(l) /\ l.status = "OPEN"
    BY DEF TypeInv, TypeOK, Respond
  <2> QED
    BY <2>1, <2>2, <2>3 DEF TypeInv, TypeOK, Respond, service
<1>2. Fits(t)'
  BY DEF TypeInv, TypeOK, Fits, Respond, Goto
<1>3. \A u \in Threads \ {t} : Fits(u)'
  <2>1. \A u \in Threads \ {t} :
          /\ pc'[u] = pc[u] /\ request'[u] = request[u] /\ arg'[u] = arg[u] /\ scenario'[u] = scenario[u]
          /\ lead'[u] = lead[u] /\ run'[u] = run[u] /\ todo'[u] = todo[u] /\ data'[u] = data[u]
    BY DEF TypeInv, TypeOK, Respond, Goto
  <2>2. UNCHANGED <<heap, locks>>
    BY DEF Respond, service
  <2> TAKE u \in Threads \ {t}
  <2>3. Fits(u)
    BY DEF TypeInv, InHand
  <2>4. /\ pc'[u] = pc[u] /\ request'[u] = request[u] /\ arg'[u] = arg[u] /\ scenario'[u] = scenario[u]
        /\ lead'[u] = lead[u] /\ run'[u] = run[u] /\ todo'[u] = todo[u] /\ data'[u] = data[u]
    BY <2>1
  <2> QED
    BY <2>2, <2>3, <2>4 DEF Fits
<1> QED
  BY <1>1, <1>2, <1>3 DEF TypeInv, InHand

(* What the others have in hand stays. *)
LEMMA OthersStay ==
  ASSUME TypeInv, NEW t \in Threads, Work(t), NEW u \in Threads, u # t
  PROVE  /\ pc'[u] = pc[u] /\ request'[u] = request[u] /\ arg'[u] = arg[u] /\ scenario'[u] = scenario[u]
         /\ lead'[u] = lead[u] /\ run'[u] = run[u] /\ todo'[u] = todo[u] /\ data'[u] = data[u]
         /\ answer'[u] = answer[u]
<1>1. CASE Start(t)
  BY <1>1 DEF TypeInv, TypeOK, Start, Acquire, GetLead, NotFound, Investigate, Follow, FileCase, FileSteps,
              FileEvidence, Return, Goto, Quiet
<1>2. CASE Pick(t) \/ Add(t) \/ Detect(t) \/ File(t) \/ Respond(t)
  BY <1>2 DEF TypeInv, TypeOK, Pick, Add, Detect, File, Respond, Return, Goto, Quiet
<1>3. CASE Swap(t)
  BY <1>3 DEF TypeInv, TypeOK, Swap, SwapRepo, ReadRepo, SwapDetector, SwapInvestigator, ClearCases, ClearSteps,
              ClearEvidence, ClearLeads, Return, Goto, Quiet
<1> QED
  BY <1>1, <1>2, <1>3 DEF Work
-----------------------------------------------------------------------------
(* Who holds a lock is the one that works on its lead. *)
LEMMA StartType ==
  ASSUME TypeInv, NEW t \in Threads, Start(t)
  PROVE  TypeInv'
<1>1. request[t] = "start" /\ arg[t] \in Investigated
  BY DEF TypeInv, InHand, Fits, Start, Acquire, GetLead, NotFound, Investigate, Follow, FileCase, FileSteps,
         FileEvidence
<1>2. UNCHANGED <<heap, repo, detectors, investigator, todo, detected, refreshed>> /\ Quiet
  BY DEF Start, Acquire, GetLead, NotFound, Investigate, Follow, FileCase, FileSteps, FileEvidence, service
<1>3. \A u \in Threads \ {t} :
        /\ pc'[u] = pc[u] /\ request'[u] = request[u] /\ arg'[u] = arg[u] /\ scenario'[u] = scenario[u]
        /\ lead'[u] = lead[u] /\ run'[u] = run[u] /\ todo'[u] = todo[u] /\ data'[u] = data[u]
  BY OthersStay DEF Work
<1>4. \/ locks' = locks
      \/ locks[arg[t]] = None /\ locks' = [locks EXCEPT ![arg[t]] = t]
      \/ locks[arg[t]] = t /\ locks' = [locks EXCEPT ![arg[t]] = None]
  BY DEF TypeInv, InHand, Fits, Start, Acquire, GetLead, NotFound, Investigate, Follow, FileCase, FileSteps,
         FileEvidence
<1>5. locks' \in [Investigated -> Threads \cup {None}]
  <2>1. locks \in [Investigated -> Threads \cup {None}] /\ t \in Threads \cup {None}
    BY DEF TypeInv, TypeOK
  <2> QED
    BY <1>4, <2>1
<1>6. \A u \in Threads \ {t} : Fits(u)'
  <2> SUFFICES ASSUME NEW u \in Threads \ {t} PROVE Fits(u)'
    OBVIOUS
  <2>1. pc[u] \in {"get_lead", "investigate", "follow", "case", "steps", "evidence"} => locks'[arg[u]] = u
    <3> SUFFICES ASSUME pc[u] \in {"get_lead", "investigate", "follow", "case", "steps", "evidence"}
                 PROVE  locks'[arg[u]] = u
      OBVIOUS
    <3>1. locks[arg[u]] = u /\ arg[u] \in Investigated /\ u # None
      BY WorkspaceAssumption DEF TypeInv, InHand, Fits
    <3>2. arg[u] # arg[t] \/ locks' = locks
      BY <1>4, <3>1
    <3> QED
      BY <1>1, <1>4, <3>1, <3>2 DEF TypeInv, TypeOK
  <2> QED
    BY <1>2, <1>3, <2>1 DEF TypeInv, InHand, Fits
<1>7. (/\ pc' \in [Threads -> Places] /\ answer' \in [Threads -> {"OK", "NOT_FOUND", None}]
       /\ cases' \in [Investigated -> Nat \cup {None}]
       /\ steps' \in [Investigated -> Nat \cup {None}] /\ evidence' \in [Investigated -> Nat \cup {None}]
       /\ \A l \in leads' : IsLead(l)
       /\ data' \in [Threads -> Nat \cup {None}] /\ run' \in [Threads -> Nat \cup {None}] /\ runs' \in Nat
       /\ lead' = [u \in Threads |-> lead'[u]])
      => TypeOK'
  BY <1>2, <1>5 DEF TypeInv, TypeOK, Quiet
<1>8. CASE Acquire(t)
  <2>1. pc' = [pc EXCEPT ![t] = "get_lead"] /\ locks' = [locks EXCEPT ![arg[t]] = t]
    BY <1>8 DEF Acquire, Goto
  <2>2. UNCHANGED <<service, data, lead, run, answer, runs>>
    BY <1>8 DEF Acquire
  <2>3. TypeOK'
    BY <1>7, <2>1, <2>2 DEF TypeInv, TypeOK, Places, service
  <2>4. Fits(t)'
    BY <1>1, <1>2, <2>1, <2>2 DEF TypeInv, TypeOK, Fits, Quiet
  <2> QED
    BY <1>6, <2>3, <2>4 DEF TypeInv, InHand
<1>9. CASE GetLead(t)
  <2>1. pc' = [pc EXCEPT ![t] = "investigate"] /\ UNCHANGED <<service, locks, data, run, answer, runs>>
    BY <1>9 DEF GetLead, Goto
  <2>2. PICK l \in leads : l.lead_id = arg[t] /\ lead' = [lead EXCEPT ![t] = l]
    BY <1>9 DEF GetLead
  <2>3. lead'[t] = l /\ lead' = [u \in Threads |-> lead'[u]]
    BY <2>2 DEF TypeInv, TypeOK
  <2>4. TypeOK'
    BY <1>7, <2>1, <2>3 DEF TypeInv, TypeOK, Places, service
  <2>5. Fits(t)
    BY DEF TypeInv, InHand
  <2>6. pc'[t] = "investigate" /\ pc[t] = "get_lead" /\ arg'[t] = arg[t] /\ request'[t] = request[t]
    BY <1>2, <1>9, <2>1 DEF TypeInv, TypeOK, Quiet, GetLead
  <2>7. IsLead(lead'[t]) /\ lead'[t].lead_id = arg[t]
    BY <2>2, <2>3 DEF TypeInv, TypeOK
  <2>8. Fits(t)'
    BY <1>1, <2>1, <2>5, <2>6, <2>7 DEF Fits
  <2> QED
    BY <1>6, <2>4, <2>8 DEF TypeInv, InHand
<1>10. CASE NotFound(t)
  <2>1. pc' = [pc EXCEPT ![t] = "done"] /\ answer' = [answer EXCEPT ![t] = "NOT_FOUND"]
    BY <1>10 DEF NotFound, Return, Goto
  <2>2. UNCHANGED <<service, data, lead, run, runs>>
    BY <1>10 DEF NotFound
  <2>3. TypeOK'
    BY <1>7, <2>1, <2>2 DEF TypeInv, TypeOK, Places, service
  <2>4. Fits(t)'
    BY <2>1 DEF TypeInv, TypeOK, Fits
  <2> QED
    BY <1>6, <2>3, <2>4 DEF TypeInv, InHand
<1>11. CASE Investigate(t)
  <2>1. /\ pc[t] = "investigate" /\ pc' = [pc EXCEPT ![t] = "follow"] /\ run' = [run EXCEPT ![t] = runs + 1]
        /\ runs' = runs + 1 /\ data' = [data EXCEPT ![t] = investigator]
    BY <1>11 DEF Investigate, Goto
  <2>2. UNCHANGED <<service, locks, lead, answer>>
    BY <1>11 DEF Investigate
  <2>3. runs + 1 \in Nat /\ investigator \in Nat
    BY DEF TypeInv, TypeOK
  <2>4. TypeOK'
    BY <1>7, <2>1, <2>2, <2>3 DEF TypeInv, TypeOK, Places, service
  <2>5. pc'[t] = "follow" /\ run'[t] \in Nat /\ arg'[t] = arg[t] /\ request'[t] = request[t]
    BY <1>2, <2>1, <2>3 DEF TypeInv, TypeOK, Quiet
  <2>6. Fits(t)
    BY DEF TypeInv, InHand
  <2>7. Fits(t)'
    BY <2>1, <2>2, <2>5, <2>6 DEF Fits
  <2> QED
    BY <1>6, <2>4, <2>7 DEF TypeInv, InHand
<1>12. CASE Follow(t)
  <2>1. /\ pc[t] = "follow" /\ pc' = [pc EXCEPT ![t] = "case"]
        /\ leads' = {l \in leads : l.lead_id # arg[t]} \cup {[lead[t] EXCEPT !.status = "FOLLOWED"]}
    BY <1>12 DEF Follow, Goto
  <2>2. UNCHANGED <<cases, steps, evidence, locks, data, lead, run, answer, runs>>
    BY <1>12 DEF Follow
  <2>3. IsLead(lead[t])
    BY <2>1 DEF TypeInv, InHand, Fits
  <2>4. IsLead([lead[t] EXCEPT !.status = "FOLLOWED"])
    BY <2>3 DEF IsLead
  <2>5. TypeOK'
    BY <1>7, <2>1, <2>2, <2>4 DEF TypeInv, TypeOK, Places
  <2>6. Fits(t)'
    BY <1>2, <2>1, <2>2 DEF TypeInv, TypeOK, InHand, Fits, Quiet
  <2> QED
    BY <1>6, <2>5, <2>6 DEF TypeInv, InHand
<1>13. CASE FileCase(t) \/ FileSteps(t) \/ FileEvidence(t)
  <2>1. run[t] \in Nat
    BY <1>13 DEF TypeInv, InHand, Fits, FileCase, FileSteps, FileEvidence
  <2>2. UNCHANGED <<leads, data, lead, run, runs>>
    BY <1>13 DEF FileCase, FileSteps, FileEvidence
  <2>3. /\ cases' \in [Investigated -> Nat \cup {None}]
        /\ steps' \in [Investigated -> Nat \cup {None}] /\ evidence' \in [Investigated -> Nat \cup {None}]
    <3>1. CASE FileCase(t)
      BY <2>1, <3>1 DEF TypeInv, TypeOK, FileCase
    <3>2. CASE FileSteps(t)
      BY <2>1, <3>2 DEF TypeInv, TypeOK, FileSteps
    <3>3. CASE FileEvidence(t)
      BY <2>1, <3>3 DEF TypeInv, TypeOK, FileEvidence
    <3> QED
      BY <1>13, <3>1, <3>2, <3>3
  <2>4. pc' \in [Threads -> Places] /\ answer' \in [Threads -> {"OK", "NOT_FOUND", None}]
    BY <1>13 DEF TypeInv, TypeOK, Places, FileCase, FileSteps, FileEvidence, Return, Goto
  <2>5. TypeOK'
    BY <1>7, <2>2, <2>3, <2>4 DEF TypeInv, TypeOK
  <2>6. \/ pc[t] \in {"case", "steps"} /\ pc'[t] \in {"steps", "evidence"} /\ locks' = locks
        \/ pc'[t] = "done"
    BY <1>13 DEF TypeInv, TypeOK, FileCase, FileSteps, FileEvidence, Return, Goto
  <2>7. Fits(t)
    BY DEF TypeInv, InHand
  <2>8. Fits(t)'
    BY <1>2, <2>1, <2>2, <2>6, <2>7 DEF Fits, Quiet
  <2> QED
    BY <1>6, <2>5, <2>8 DEF TypeInv, InHand
<1> QED
  BY <1>8, <1>9, <1>10, <1>11, <1>12, <1>13 DEF Start
LEMMA InjectType ==
  ASSUME TypeInv, NEW t \in Threads, Pick(t) \/ Add(t)
  PROVE  TypeInv'
<1> DEFINE K == {Kinds[i] : i \in DOMAIN Kinds}
           s == scenario[t]
<1>1. request[t] = "inject" /\ s \in Scenarios
  BY DEF TypeInv, InHand, Fits, Pick, Add
<1>2. UNCHANGED <<repo, detectors, investigator, leads, cases, steps, evidence, locks, detected, lead, run, answer,
                  runs, refreshed>> /\ Quiet
  BY DEF Pick, Add, service
<1>3. \A u \in Threads \ {t} :
        /\ pc'[u] = pc[u] /\ request'[u] = request[u] /\ arg'[u] = arg[u] /\ scenario'[u] = scenario[u]
        /\ lead'[u] = lead[u] /\ run'[u] = run[u] /\ todo'[u] = todo[u] /\ data'[u] = data[u]
  BY OthersStay DEF Work
<1>4. (/\ heap' \in Seq(Repositories) /\ DOMAIN heap' = DOMAIN heap
       /\ pc' \in [Threads -> Places] /\ data' \in [Threads -> Nat \cup {None}] /\ todo' \in [Threads -> Seq(K)])
      => TypeOK'
  BY <1>2 DEF TypeInv, TypeOK, Quiet
<1>5. DOMAIN heap' = DOMAIN heap => \A u \in Threads \ {t} : Fits(u)'
  <2> SUFFICES ASSUME DOMAIN heap' = DOMAIN heap, NEW u \in Threads \ {t} PROVE Fits(u)'
    OBVIOUS
  <2>1. Fits(u) /\ locks' = locks
    BY <1>2 DEF TypeInv, InHand
  <2> QED
    BY <1>3, <2>1 DEF Fits
<1>6. todo \in [Threads -> Seq(K)] /\ todo[t] \in Seq(K)
  BY DEF TypeInv, TypeOK
<1>7. KindsOf(s) \in Seq(K) /\ KindsOf(s) # << >>
      /\ \A i \in DOMAIN KindsOf(s) : <<s, KindsOf(s)[i]>> \in PartsOf(s)
  BY <1>1, KindsAreNamed
<1> HIDE DEF K
<1>8. CASE Pick(t)
  <2>1. UNCHANGED heap /\ data' = [data EXCEPT ![t] = repo]
    BY <1>8 DEF Pick, service
  <2>2. \/ pc' = [pc EXCEPT ![t] = "detect"] /\ todo' = todo
        \/ pc' = [pc EXCEPT ![t] = "add"] /\ todo' = [todo EXCEPT ![t] = KindsOf(s)]
    BY <1>8 DEF Pick, Goto
  <2>3. repo \in DOMAIN heap /\ repo \in Nat
    BY DEF TypeInv, TypeOK
  <2>4. TypeOK'
    BY <1>4, <1>6, <1>7, <2>1, <2>2, <2>3 DEF TypeInv, TypeOK, Places
  <2>5. \/ pc'[t] = "detect"
        \/ pc'[t] = "add" /\ todo'[t] = KindsOf(s)
    BY <1>6, <2>2 DEF TypeInv, TypeOK
  <2>6. scenario' = scenario /\ request' = request /\ data'[t] = repo /\ heap' = heap
    BY <1>2, <2>1 DEF TypeInv, TypeOK, Quiet
  <2>7. Fits(t)'
    BY <1>1, <1>7, <2>3, <2>5, <2>6 DEF Fits
  <2> QED
    BY <1>5, <2>1, <2>4, <2>7 DEF TypeInv, InHand
<1>9. CASE Add(t)
  <2>1. /\ pc[t] = "add" /\ data[t] \in DOMAIN heap /\ todo[t] # << >>
        /\ \A i \in DOMAIN todo[t] : <<s, todo[t][i]>> \in PartsOf(s)
    BY <1>9 DEF TypeInv, InHand, Fits, Add
  <2>2. /\ Head(todo[t]) = todo[t][1] /\ 1 \in DOMAIN todo[t] /\ Tail(todo[t]) \in Seq(K)
        /\ \A i \in DOMAIN Tail(todo[t]) : i + 1 \in DOMAIN todo[t] /\ Tail(todo[t])[i] = todo[t][i + 1]
        /\ Len(todo[t]) # 1 => Tail(todo[t]) # << >>
    <3> DEFINE w == todo[t]
    <3>1. w \in Seq(K) /\ w # << >>
      BY <1>6, <2>1
    <3> HIDE DEF w
    <3>2. Head(w) = w[1] /\ 1 \in DOMAIN w /\ Tail(w) \in Seq(K)
      BY <3>1
    <3>3. \A i \in DOMAIN Tail(w) : i + 1 \in DOMAIN w /\ Tail(w)[i] = w[i + 1]
      BY <3>1
    <3>4. Len(Tail(w)) = Len(w) - 1 /\ Len(w) \in Nat
      BY <3>1
    <3>5. Len(<< >>) = 0
      OBVIOUS
    <3>6. Tail(w) = << >> => Len(w) = 1
      <4>1. ASSUME Tail(w) = << >> PROVE Len(Tail(w)) = 0
        BY <3>5, <4>1, Zenon
      <4> QED
        BY <3>4, <4>1
    <3> QED
      BY <3>2, <3>3, <3>6 DEF w
  <2>3. <<s, Head(todo[t])>> \in PartsOf(s)
    BY <2>1, <2>2
  <2>4. heap' \in Seq(Repositories) /\ DOMAIN heap' = DOMAIN heap
    <3> DEFINE part == <<s, Head(todo[t])>>
               old == heap[data[t]]
               new == [old EXCEPT !.added = @ \cup {part}]
    <3>1. heap \in Seq(Repositories) /\ old \in Repositories
      BY <2>1 DEF TypeInv, TypeOK
    <3>2. heap' = [heap EXCEPT ![data[t]] = new]
      BY <1>9 DEF Add
    <3>3. part \in UNION {PartsOf(x) : x \in Scenarios}
      BY <1>1, <2>3
    <3> HIDE DEF part, old
    <3>4. new \in Repositories
      BY <3>1, <3>3 DEF Repositories
    <3> HIDE DEF new
    <3> QED
      BY <2>1, <3>1, <3>2, <3>4
  <2>5. todo' = [todo EXCEPT ![t] = Tail(todo[t])] /\ UNCHANGED data
    BY <1>9 DEF Add
  <2>6. /\ pc' \in [Threads -> Places]
        /\ \/ Len(todo[t]) = 1 /\ pc'[t] = "detect"
           \/ Len(todo[t]) # 1 /\ pc'[t] = "add"
    BY <1>9 DEF Add, Goto, TypeInv, TypeOK, Places
  <2>7. TypeOK'
    <3>1. todo' \in [Threads -> Seq(K)]
      BY <1>6, <2>2, <2>5
    <3> QED
      BY <1>4, <2>4, <2>5, <2>6, <3>1 DEF TypeInv, TypeOK
  <2>8. scenario' = scenario /\ request' = request /\ data' = data /\ todo'[t] = Tail(todo[t])
    BY <1>2, <1>6, <2>5 DEF Quiet
  <2>9. \A i \in DOMAIN Tail(todo[t]) : <<s, Tail(todo[t])[i]>> \in PartsOf(s)
    BY <2>1, <2>2
  <2>10. Fits(t)'
    BY <1>1, <2>1, <2>2, <2>4, <2>6, <2>8, <2>9 DEF Fits
  <2> QED
    BY <1>5, <2>4, <2>7, <2>10 DEF TypeInv, InHand
<1> QED
  BY <1>8, <1>9
LEMMA DetectType ==
  ASSUME TypeInv, NEW t \in Threads, Detect(t) \/ File(t)
  PROVE  TypeInv'
<1>1. /\ UNCHANGED <<heap, repo, detectors, investigator, cases, steps, evidence, locks, data, todo, lead, run, runs>>
      /\ Quiet
  BY DEF Detect, File, service
<1>2. \A u \in Threads \ {t} : pc'[u] = pc[u]
  BY OthersStay DEF Work
<1>3. request[t] \in Swaps \cup {"inject"} /\ pc'[t] \in {"file", "done"}
  BY DEF TypeInv, TypeOK, InHand, Fits, Detect, File, Return, Goto
<1>4. InHand'
  <2>1. \A u \in Threads \ {t} : Fits(u)'
    BY <1>1, <1>2 DEF TypeInv, InHand, Fits, Quiet
  <2>2. Fits(t)'
    BY <1>1, <1>3 DEF Fits, Quiet
  <2> QED
    BY <2>1, <2>2 DEF InHand
<1>5. (/\ \A l \in leads' : IsLead(l)
       /\ detected' = [u \in Threads |-> detected'[u]]
       /\ \A u \in Threads : \A l \in detected'[u] : IsLead(l) /\ l.status = "OPEN")
      => TypeOK'
  <2>1. /\ pc' \in [Threads -> Places] /\ answer' \in [Threads -> {"OK", "NOT_FOUND", None}]
        /\ refreshed' \in BOOLEAN
    BY DEF TypeInv, TypeOK, Detect, File, Return, Goto, Places
  <2> QED
    BY <1>1, <2>1 DEF TypeInv, TypeOK, Quiet
<1>6. CASE Detect(t)
  <2> DEFINE found == FoundIn(heap[detectors])
  <2>1. heap[detectors] \in Repositories
    BY DEF TypeInv, TypeOK
  <2>2. \A l \in found : IsLead(l) /\ l.status = "OPEN"
    BY <2>1, FoundLeads
  <2>3. detected' = [detected EXCEPT ![t] = found] /\ leads' = leads
    BY <1>6 DEF Detect, service
  <2> HIDE DEF found
  <2> QED
    BY <1>4, <1>5, <2>2, <2>3 DEF TypeInv, TypeOK
<1>7. CASE File(t)
  <2>1. detected' = detected /\ \A l \in leads' : l \in leads \/ l \in detected[t]
    BY <1>7 DEF File
  <2> QED
    BY <1>4, <1>5, <2>1 DEF TypeInv, TypeOK
<1> QED
  BY <1>6, <1>7

LEMMA SwapType ==
  ASSUME TypeInv, NEW t \in Threads, Swap(t)
  PROVE  TypeInv'
<1>1. UNCHANGED <<locks, todo, detected, lead, run, runs, refreshed>> /\ Quiet
  BY DEF Swap, SwapRepo, ReadRepo, SwapDetector, SwapInvestigator, ClearCases, ClearSteps, ClearEvidence, ClearLeads
<1>2. \A u \in Threads \ {t} : pc'[u] = pc[u] /\ data'[u] = data[u]
  BY OthersStay DEF Work
<1>3. request[t] \in Swaps
  BY DEF TypeInv, InHand, Fits, Swap, SwapRepo, ReadRepo, SwapDetector, SwapInvestigator, ClearCases, ClearSteps,
         ClearEvidence, ClearLeads
<1>4. /\ pc' \in [Threads -> Places] /\ answer' \in [Threads -> {"OK", "NOT_FOUND", None}]
      /\ pc'[t] \in {"data", "detector", "investigator", "clear_cases", "clear_steps", "clear_evidence",
                     "clear_leads", "detect", "done"}
  BY ZenonT(40) DEF TypeInv, TypeOK, Places, Swap, SwapRepo, ReadRepo, SwapDetector, SwapInvestigator, ClearCases, ClearSteps,
         ClearEvidence, ClearLeads, Return, Goto
<1>5. /\ heap' \in Seq(Repositories) /\ DOMAIN heap \subseteq DOMAIN heap'
      /\ {repo', detectors', investigator'} \subseteq DOMAIN heap'
      /\ data' \in [Threads -> Nat \cup {None}]
      /\ pc'[t] \in {"detector", "investigator"} => data'[t] \in DOMAIN heap'
  <2>0. /\ heap \in Seq(Repositories) /\ {repo, detectors, investigator} \subseteq DOMAIN heap
        /\ data \in [Threads -> Nat \cup {None}]
    BY DEF TypeInv, TypeOK
  <2>1. CASE SwapRepo(t)
    <3> DEFINE new == [loaded |-> request[t] = "load", added |-> {}]
    <3>1. new \in Repositories
      BY DEF Repositories
    <3>2. heap' = Append(heap, new) /\ repo' = Len(heap')
      BY <2>1, Zenon DEF SwapRepo
    <3> HIDE DEF new
    <3>3. /\ heap' \in Seq(Repositories) /\ DOMAIN heap \subseteq DOMAIN heap' /\ repo' \in DOMAIN heap'
      BY <2>0, <3>1, <3>2
    <3>4. UNCHANGED <<detectors, investigator, data>> /\ pc'[t] = "data"
      BY <2>1 DEF SwapRepo, Goto, TypeInv, TypeOK
    <3> QED
      BY <2>0, <3>3, <3>4
  <2>2. CASE ReadRepo(t)
    <3>1. UNCHANGED <<heap, repo, detectors, investigator>> /\ data' = [data EXCEPT ![t] = repo]
      BY <2>2 DEF ReadRepo, service
    <3>2. repo \in DOMAIN heap /\ repo \in Nat
      BY <2>0
    <3>3. data' \in [Threads -> Nat \cup {None}] /\ data'[t] = repo
      BY <2>0, <3>1, <3>2
    <3> QED
      BY <2>0, <3>1, <3>2, <3>3
  <2>3. CASE SwapDetector(t) \/ SwapInvestigator(t)
    <3>1. data[t] \in DOMAIN heap
      BY <2>3 DEF SwapDetector, SwapInvestigator, TypeInv, InHand, Fits
    <3>2. UNCHANGED <<heap, repo, data>>
      BY <2>3 DEF SwapDetector, SwapInvestigator
    <3>3. detectors' \in {detectors, data[t]} /\ investigator' \in {investigator, data[t]}
      BY <2>3 DEF SwapDetector, SwapInvestigator
    <3> QED
      BY <2>0, <3>1, <3>2, <3>3
  <2>4. CASE ClearCases(t) \/ ClearSteps(t) \/ ClearEvidence(t) \/ ClearLeads(t)
    <3>1. UNCHANGED <<heap, repo, detectors, investigator, data>>
      BY <2>4 DEF ClearCases, ClearSteps, ClearEvidence, ClearLeads
    <3>2. pc'[t] \notin {"detector", "investigator"}
      BY <2>4 DEF ClearCases, ClearSteps, ClearEvidence, ClearLeads, Return, Goto, TypeInv, TypeOK
    <3> QED
      BY <2>0, <3>1, <3>2
  <2> QED
    BY <2>1, <2>2, <2>3, <2>4 DEF Swap
<1>6. /\ cases' \in [Investigated -> Nat \cup {None}] /\ steps' \in [Investigated -> Nat \cup {None}]
      /\ evidence' \in [Investigated -> Nat \cup {None}] /\ leads' \subseteq leads
  <2>1. NoRun \in [Investigated -> Nat \cup {None}]
    BY DEF NoRun
  <2> QED
    BY <2>1 DEF TypeInv, TypeOK, Swap, SwapRepo, ReadRepo, SwapDetector, SwapInvestigator, ClearCases, ClearSteps,
                ClearEvidence, ClearLeads, service
<1>7. TypeOK'
  BY <1>1, <1>4, <1>5, <1>6 DEF TypeInv, TypeOK, Quiet
<1>8. Fits(t)'
  BY <1>1, <1>3, <1>4, <1>5 DEF Fits, Quiet
<1>9. \A u \in Threads \ {t} : Fits(u)'
  <2> SUFFICES ASSUME NEW u \in Threads \ {t} PROVE Fits(u)'
    OBVIOUS
  <2>1. Fits(u) /\ pc'[u] = pc[u] /\ data'[u] = data[u] /\ DOMAIN heap \subseteq DOMAIN heap'
    BY <1>2, <1>5 DEF TypeInv, InHand
  <2> QED
    BY <1>1, <2>1 DEF Fits, Quiet
<1> QED
  BY <1>7, <1>8, <1>9 DEF TypeInv, InHand

LEMMA TypeStep == TypeInv /\ [Next]_vars => TypeInv'
<1> SUFFICES ASSUME TypeInv, [Next]_vars PROVE TypeInv'
  OBVIOUS
<1>1. CASE UNCHANGED vars
  BY <1>1 DEF TypeInv, TypeOK, InHand, Fits, vars, service, locals
<1>2. CASE \E t \in Threads : Work(t) \/ Arrive(t)
  BY <1>2, AskType, RespondType, StartType, InjectType, DetectType, SwapType DEF Work
<1> QED
  BY <1>1, <1>2 DEF Next

LEMMA TypeHolds == Spec => []TypeInv
  BY TypeInit, TypeStep, PTL DEF Spec

(* Every variable keeps its type: a request only ever works on a repository
   there is. *)
THEOREM TypeCorrect == Spec => []TypeOK
<1>1. TypeInv => TypeOK
  BY DEF TypeInv
<1> QED
  BY <1>1, TypeHolds, PTL
-----------------------------------------------------------------------------
LEMMA WorkFacts ==
  ASSUME TypeInv, NEW t \in Threads, Work(t), ~Respond(t)
  PROVE  pc[t] # "idle" /\ pc'[t] # "idle" /\ request' = request /\ arg' = arg /\ swapped' = swapped
<1>1. CASE Start(t)
  BY <1>1 DEF TypeInv, TypeOK, Start, Acquire, GetLead, NotFound, Investigate, Follow, FileCase, FileSteps,
              FileEvidence, Return, Goto, Quiet
<1>2. CASE Pick(t) \/ Add(t) \/ Detect(t) \/ File(t)
  BY <1>2 DEF TypeInv, TypeOK, Pick, Add, Detect, File, Return, Goto, Quiet
<1>3. CASE Swap(t)
  BY <1>3 DEF TypeInv, TypeOK, Swap, SwapRepo, ReadRepo, SwapDetector, SwapInvestigator, ClearCases, ClearSteps,
              ClearEvidence, ClearLeads, Return, Goto, Quiet
<1> QED
  BY <1>1, <1>2, <1>3 DEF Work

LEMMA AskFacts ==
  ASSUME TypeInv, NEW t \in Threads, Arrive(t)
  PROVE  /\ pc[t] = "idle" /\ pc'[t] \in {"acquire", "pick", "repo"}
         /\ \A u \in Threads \ {t} : pc'[u] = pc[u] /\ request'[u] = request[u] /\ arg'[u] = arg[u]
         /\ swapped' = (swapped \/ \E u \in Active : request'[t] \in Swaps \/ request[u] \in Swaps)
         /\ UNCHANGED <<leads, cases, steps, evidence, run>>
<1>1. PICK operation \in Swaps \cup {"start", "inject"}, about \in Investigated \cup {None},
           hidden \in Scenarios \cup {None}, place \in {"acquire", "pick", "repo"} :
        Ask(t, operation, about, hidden, place)
  BY DEF Arrive, AskStart, AskInject, AskSwap
<1>2. request'[t] = operation
  BY <1>1 DEF Ask, TypeInv, TypeOK
<1> QED
  BY <1>1, <1>2 DEF Ask, Goto, TypeInv, TypeOK, service

(* Unless a clear or load overlapped something, it is alone. *)
Alone ==
  ~swapped => \A t \in Threads :
    pc[t] # "idle" /\ request[t] \in Swaps => \A u \in Threads \ {t} : pc[u] = "idle"

LEMMA AloneStep ==
  ASSUME TypeInv, Alone, NEW t \in Threads, Work(t) \/ Arrive(t)
  PROVE  Alone'
<1>1. CASE Arrive(t)
  <2> SUFFICES ASSUME ~swapped', NEW v \in Threads, pc'[v] # "idle", request'[v] \in Swaps,
                      NEW u \in Threads \ {v}, pc'[u] # "idle"
               PROVE  FALSE
    BY DEF Alone
  <2>1. ~swapped /\ \A w \in Active : request'[t] \notin Swaps /\ request[w] \notin Swaps
    BY <1>1, AskFacts
  <2>2. \A w \in Threads \ {t} : pc'[w] # "idle" => w \in Active /\ request'[w] = request[w]
    BY <1>1, AskFacts DEF Active
  <2> QED
    BY <2>1, <2>2
<1>2. CASE Respond(t)
  <2>1. pc'[t] = "idle" /\ swapped' = swapped
    BY <1>2 DEF Respond, Goto, TypeInv, TypeOK
  <2>2. \A u \in Threads \ {t} : pc'[u] = pc[u] /\ request'[u] = request[u]
    BY <1>2, OthersStay DEF Work
  <2> QED
    BY <2>1, <2>2 DEF Alone
<1>3. CASE Work(t) /\ ~Respond(t)
  <2>1. \A u \in Threads : pc'[u] = "idle" <=> pc[u] = "idle"
    BY <1>3, WorkFacts, OthersStay
  <2> QED
    BY <1>3, <2>1, WorkFacts DEF Alone
<1> QED
  BY <1>1, <1>2, <1>3

LEMMA AloneHolds == Spec => []Alone
<1>1. Init => Alone
  BY DEF Init, Alone
<1>2. TypeInv /\ Alone /\ [Next]_vars => Alone'
  BY AloneStep DEF Next, vars, locals, Alone
<1> QED
  BY <1>1, <1>2, TypeHolds, PTL DEF Spec

-----------------------------------------------------------------------------
OnFile(l) == \E m \in leads : m.lead_id = l

Whole(l) == steps[l] = cases[l] /\ evidence[l] = cases[l] /\ (cases[l] # None => OnFile(l))

(* What a clear or load has emptied. *)
Cleared(t) ==
  /\ pc[t] \in {"clear_steps", "clear_evidence", "clear_leads", "detect", "file", "done"} => cases = NoRun
  /\ pc[t] \in {"clear_evidence", "clear_leads", "detect", "file", "done"} => steps = NoRun
  /\ pc[t] \in {"clear_leads", "detect", "file", "done"} => evidence = NoRun
  /\ pc[t] \in {"detect", "file", "done"} => \A m \in leads : m.status = "OPEN"

(* What an investigation has filed. *)
Filed(t) ==
  /\ pc[t] \in {"case", "steps", "evidence"} => OnFile(arg[t])
  /\ pc[t] \in {"steps", "evidence"} => cases[arg[t]] = run[t]
  /\ pc[t] = "evidence" => steps[arg[t]] = run[t]

Followed(m) == m.lead_id \in Investigated /\ (Filing(m.lead_id) \/ cases[m.lead_id] # None)

InOrder ==
  /\ \A t \in Threads : pc[t] # "idle" /\ request[t] \in Swaps => Cleared(t)
  /\ \A t \in Threads : Filed(t)
  /\ ~Swapping =>
       /\ \A l \in Investigated : ~Filing(l) => Whole(l)
       /\ \A m \in leads : m.status = "FOLLOWED" => Followed(m)

Kept == ~swapped => InOrder

(* A lead has one investigation at a time. *)
LEMMA OneFiling ==
  ASSUME TypeInv, NEW t \in Threads, NEW u \in Threads, u # t,
         pc[t] \in {"follow", "case", "steps", "evidence"}, pc[u] \in {"case", "steps", "evidence"}
  PROVE  arg[u] # arg[t]
  BY DEF TypeInv, InHand, Fits
(* Requests come and go: the answered one leaves what it has cleared. *)
LEMMA AskKeeps ==
  ASSUME TypeInv, Kept, NEW t \in Threads, Arrive(t), ~swapped'
  PROVE  InOrder'
<1>1. InOrder /\ UNCHANGED <<leads, cases, steps, evidence, run>>
  BY AskFacts DEF Kept
<1>2. /\ pc[t] = "idle" /\ pc'[t] \in {"acquire", "pick", "repo"}
      /\ \A u \in Threads \ {t} : pc'[u] = pc[u] /\ request'[u] = request[u] /\ arg'[u] = arg[u]
  BY AskFacts
<1>3. \A u \in Threads : pc'[u] # "idle" /\ request'[u] \in Swaps => Cleared(u)'
  BY <1>1, <1>2 DEF InOrder, Cleared
<1>4. \A u \in Threads : Filed(u)'
  BY <1>1, <1>2 DEF InOrder, Filed, OnFile
<1>5. \A l : Filing(l)' <=> Filing(l)
  BY <1>2 DEF Filing
<1>6. ~Swapping' => ~Swapping
  BY <1>2 DEF Swapping, Active
<1> QED
  BY <1>1, <1>3, <1>4, <1>5, <1>6 DEF InOrder, Whole, Followed, OnFile

LEMMA RespondKeeps ==
  ASSUME TypeInv, Alone, Kept, NEW t \in Threads, Respond(t), ~swapped'
  PROVE  InOrder'
<1>1. ~swapped /\ InOrder /\ UNCHANGED <<leads, cases, steps, evidence>>
  BY DEF Kept, Respond, service
<1>2. /\ pc[t] = "done" /\ pc'[t] = "idle"
      /\ \A u \in Threads \ {t} : /\ pc'[u] = pc[u] /\ request'[u] = request[u] /\ arg'[u] = arg[u]
                                  /\ run'[u] = run[u]
  BY DEF Respond, Goto, TypeInv, TypeOK
<1>3. \A u \in Threads : pc'[u] # "idle" /\ request'[u] \in Swaps => Cleared(u)'
  BY <1>1, <1>2 DEF InOrder, Cleared, NoRun
<1>4. \A u \in Threads : Filed(u)'
  BY <1>1, <1>2 DEF InOrder, Filed, OnFile
<1>5. \A l : Filing(l)' <=> Filing(l)
  BY <1>2 DEF Filing
<1>6. CASE request[t] \in Swaps
  <2>1. Cleared(t)
    BY <1>1, <1>2, <1>6 DEF InOrder
  <2>2. cases = NoRun /\ steps = NoRun /\ evidence = NoRun /\ \A m \in leads : m.status = "OPEN"
    BY <1>2, <2>1 DEF Cleared
  <2>3. \A l \in Investigated : Whole(l)'
    BY <1>1, <2>2 DEF Whole, NoRun
  <2> QED
    BY <1>1, <1>3, <1>4, <2>2, <2>3 DEF InOrder
<1>7. CASE request[t] \notin Swaps
  <2>1. ~Swapping' => ~Swapping
    BY <1>2, <1>7 DEF Swapping, Active
  <2> QED
    BY <1>1, <1>3, <1>4, <1>5, <2>1 DEF InOrder, Whole, Followed, OnFile
<1> QED
  BY <1>6, <1>7

(* A clear or load that is alone empties one thing after the other. *)
LEMMA SwapKeeps ==
  ASSUME TypeInv, Alone, Kept, NEW t \in Threads, Work(t), ~Respond(t), request[t] \in Swaps, ~swapped'
  PROVE  InOrder'
<1>1. ~swapped /\ InOrder /\ pc[t] # "idle" /\ pc'[t] # "idle" /\ request' = request
  BY WorkFacts DEF Kept
<1>2. \A u \in Threads \ {t} : pc'[u] = "idle"
  BY <1>1, OthersStay DEF Alone
<1>3. Swapping'
  BY <1>1 DEF Swapping, Active
<1>4. Cleared(t)
  BY <1>1 DEF InOrder
<1>5. Swap(t) \/ Detect(t) \/ File(t)
  <2>1. ~Start(t)
    BY DEF TypeInv, InHand, Fits, Swaps, Start, Acquire, GetLead, NotFound, Investigate, Follow, FileCase,
           FileSteps, FileEvidence
  <2>2. ~Pick(t) /\ ~Add(t)
    BY DEF TypeInv, InHand, Fits, Swaps, Pick, Add
  <2> QED
    BY <2>1, <2>2 DEF Work
<1>6. pc'[t] \notin {"case", "steps", "evidence"}
  BY <1>5 DEF TypeInv, TypeOK, Swap, SwapRepo, ReadRepo, SwapDetector, SwapInvestigator, ClearCases, ClearSteps,
              ClearEvidence, ClearLeads, Detect, File, Return, Goto
<1>7. Cleared(t)'
  <2>1. CASE SwapRepo(t) \/ ReadRepo(t) \/ SwapDetector(t) \/ SwapInvestigator(t)
    BY <2>1 DEF Cleared, TypeInv, TypeOK, SwapRepo, ReadRepo, SwapDetector, SwapInvestigator, Goto
  <2>2. CASE ClearCases(t)
    BY <2>2 DEF Cleared, TypeInv, TypeOK, ClearCases, Goto, NoRun
  <2>3. CASE ClearSteps(t)
    BY <1>4, <2>3 DEF Cleared, TypeInv, TypeOK, ClearSteps, Goto, NoRun
  <2>4. CASE ClearEvidence(t)
    BY <1>4, <2>4 DEF Cleared, TypeInv, TypeOK, ClearEvidence, Goto, NoRun
  <2>5. CASE ClearLeads(t)
    <3>1. UNCHANGED <<cases, steps, evidence>> /\ leads' = {} /\ pc[t] = "clear_leads"
      BY <2>5 DEF ClearLeads
    <3> QED
      BY <1>4, <3>1 DEF Cleared, NoRun
  <2>6. CASE Detect(t) \/ File(t)
    <3>1. UNCHANGED <<cases, steps, evidence>> /\ pc[t] \in {"detect", "file"}
      BY <2>6 DEF Detect, File, service
    <3>2. \A m \in leads' : m \in leads \/ m \in detected[t]
      BY <2>6 DEF Detect, File, service
    <3>3. \A m \in leads' : m.status = "OPEN"
      BY <1>4, <3>1, <3>2 DEF Cleared, TypeInv, TypeOK
    <3> QED
      BY <1>4, <3>1, <3>3 DEF Cleared, NoRun
  <2> QED
    BY <1>5, <2>1, <2>2, <2>3, <2>4, <2>5, <2>6 DEF Swap
<1> QED
  BY <1>2, <1>3, <1>6, <1>7 DEF InOrder, Filed

(* What an injection, or an investigation that has nothing to file yet,
   leaves on file. *)
LEMMA ReadsKeep ==
  ASSUME TypeInv, Kept, NEW t \in Threads, request[t] \notin Swaps, ~Swapping, ~swapped,
         Acquire(t) \/ GetLead(t) \/ NotFound(t) \/ Investigate(t) \/ Pick(t) \/ Add(t) \/ Detect(t) \/ File(t)
  PROVE  InOrder'
<1>0. Work(t) /\ ~Respond(t)
  BY DEF Work, Start, Respond, Acquire, GetLead, NotFound, Investigate, Pick, Add, Detect, File
<1>1. InOrder /\ request' = request /\ arg' = arg
  BY <1>0, WorkFacts DEF Kept
<1>2. \A u \in Threads \ {t} : pc'[u] = pc[u] /\ run'[u] = run[u]
  BY <1>0, OthersStay
<1>3. pc[t] \notin {"case", "steps", "evidence"} /\ pc'[t] \notin {"case", "steps", "evidence"}
  BY DEF TypeInv, TypeOK, Acquire, GetLead, NotFound, Investigate, Pick, Add, Detect, File, Return, Goto
<1>4. UNCHANGED <<cases, steps, evidence>>
  BY DEF Acquire, GetLead, NotFound, Investigate, Pick, Add, Detect, File, service
<1>5. /\ \A m \in leads' : m \in leads \/ m.status = "OPEN"
      /\ \A l : OnFile(l) => OnFile(l)'
  <2>1. CASE leads' = leads
    BY <2>1 DEF OnFile
  <2>2. CASE File(t)
    <3>1. leads' = {l \in leads : \A m \in detected[t] : m.lead_id # l.lead_id} \cup detected[t]
      BY <2>2 DEF File
    <3>2. \A l \in detected[t] : l.status = "OPEN"
      BY DEF TypeInv, TypeOK
    <3>3. ASSUME NEW l, NEW m \in leads, m.lead_id = l PROVE \E n \in leads' : n.lead_id = l
      <4>1. CASE \E n \in detected[t] : n.lead_id = m.lead_id
        BY <3>1, <3>3, <4>1
      <4>2. CASE ~ \E n \in detected[t] : n.lead_id = m.lead_id
        BY <3>1, <3>3, <4>2
      <4> QED
        BY <4>1, <4>2
    <3> QED
      BY <3>1, <3>2, <3>3 DEF OnFile
  <2>3. leads' = leads \/ File(t)
    BY DEF Acquire, GetLead, NotFound, Investigate, Pick, Add, Detect, service
  <2> QED
    BY <2>1, <2>2, <2>3
<1>6. \A u \in Threads : pc'[u] # "idle" => request'[u] \notin Swaps
  BY <1>0, <1>1, <1>2, WorkFacts DEF Swapping, Active
<1>7. \A u \in Threads : Filed(u)'
  BY <1>1, <1>2, <1>3, <1>4, <1>5 DEF InOrder, Filed
<1>8. \A l : Filing(l)' <=> Filing(l)
  BY <1>1, <1>2, <1>3 DEF Filing
<1>9. \A l \in Investigated : ~Filing(l)' => Whole(l)'
  BY <1>1, <1>4, <1>5, <1>8 DEF InOrder, Whole
<1>10. \A m \in leads' : m.status = "FOLLOWED" => Followed(m)'
  BY <1>1, <1>4, <1>5, <1>8 DEF InOrder, Followed
<1> QED
  BY <1>6, <1>7, <1>9, <1>10 DEF InOrder

(* What an investigation files: nobody else files for its lead. *)
LEMMA FilesKeep ==
  ASSUME TypeInv, Kept, NEW t \in Threads, ~Swapping, ~swapped,
         Follow(t) \/ FileCase(t) \/ FileSteps(t) \/ FileEvidence(t)
  PROVE  InOrder'
<1> DEFINE a == arg[t]
<1>0. Work(t) /\ ~Respond(t)
  BY DEF Work, Start, Respond, Follow, FileCase, FileSteps, FileEvidence
<1>1. InOrder /\ request' = request /\ arg' = arg
  BY <1>0, WorkFacts DEF Kept
<1>2. \A u \in Threads \ {t} : pc'[u] = pc[u] /\ run'[u] = run[u]
  BY <1>0, OthersStay
<1>3. /\ pc[t] \in {"follow", "case", "steps", "evidence"} /\ a \in Investigated /\ run' = run
      /\ run[t] \in Nat /\ run[t] # None
  <2>1. pc[t] \in {"follow", "case", "steps", "evidence"} /\ run' = run
    BY DEF Follow, FileCase, FileSteps, FileEvidence
  <2>2. a \in Investigated /\ run[t] \in Nat
    BY <2>1 DEF TypeInv, InHand, Fits
  <2> QED
    BY <2>1, <2>2, WorkspaceAssumption
<1>4. \A u \in Threads \ {t} : pc[u] \in {"case", "steps", "evidence"} => arg[u] # a
  BY <1>3, OneFiling
<1>5. \A u \in Threads : pc'[u] # "idle" => request'[u] \notin Swaps
  BY <1>0, <1>1, <1>2, WorkFacts DEF Swapping, Active
<1>6. Filed(t) /\ \A u \in Threads \ {t} : Filed(u)
  BY <1>1 DEF InOrder
<1>7. CASE Follow(t)
  <2> DEFINE n == [lead[t] EXCEPT !.status = "FOLLOWED"]
  <2>1. leads' = {l \in leads : l.lead_id # a} \cup {n} /\ UNCHANGED <<cases, steps, evidence>>
    BY <1>7 DEF Follow
  <2>2. n.lead_id = a
    <3>1. IsLead(lead[t]) /\ lead[t].lead_id = a
      BY <1>7 DEF Follow, TypeInv, InHand, Fits
    <3> QED
      BY <3>1 DEF IsLead
  <2> HIDE DEF n
  <2>3. \A l : OnFile(l) => OnFile(l)'
    <3> SUFFICES ASSUME NEW l, NEW m \in leads, m.lead_id = l PROVE \E x \in leads' : x.lead_id = l
      BY DEF OnFile
    <3>1. CASE l = a
      BY <2>1, <2>2, <3>1
    <3>2. CASE l # a
      BY <2>1, <3>2
    <3> QED
      BY <3>1, <3>2
  <2>4. OnFile(a)'
    BY <1>1, <2>1, <2>2 DEF OnFile
  <2>5. pc[t] = "follow" /\ pc'[t] = "case"
    BY <1>7 DEF Follow, Goto, TypeInv, TypeOK
  <2>6. \A u \in Threads : Filed(u)'
    BY <1>1, <1>2, <1>6, <2>1, <2>3, <2>4, <2>5 DEF Filed
  <2>7. \A l : Filing(l)' <=> Filing(l) \/ l = a
    BY <1>1, <1>2, <2>5 DEF Filing
  <2>8. \A l \in Investigated : ~Filing(l)' => Whole(l)'
    BY <1>1, <2>1, <2>3, <2>7 DEF InOrder, Whole
  <2>9. \A m \in leads' : m.status = "FOLLOWED" => Followed(m)'
    BY <1>1, <1>3, <2>1, <2>2, <2>7 DEF InOrder, Followed
  <2> QED
    BY <1>5, <2>6, <2>8, <2>9 DEF InOrder
<1>8. CASE FileCase(t)
  <2>1. cases' = [cases EXCEPT ![a] = run[t]] /\ UNCHANGED <<leads, steps, evidence>>
    BY <1>8 DEF FileCase
  <2>2. pc[t] = "case" /\ pc'[t] = "steps"
    BY <1>8 DEF FileCase, Goto, TypeInv, TypeOK
  <2>3. cases'[a] = run[t] /\ \A l \in Investigated \ {a} : cases'[l] = cases[l]
    BY <1>3, <2>1 DEF TypeInv, TypeOK
  <2>4. \A u \in Threads \ {t} : Filed(u)'
    <3> SUFFICES ASSUME NEW u \in Threads \ {t}, pc[u] \in {"case", "steps", "evidence"} PROVE Filed(u)'
      BY <1>2 DEF Filed
    <3>1. arg[u] \in Investigated \ {a}
      BY <1>4 DEF TypeInv, InHand, Fits
    <3> QED
      BY <1>1, <1>2, <1>6, <2>1, <2>3, <3>1 DEF Filed, OnFile
  <2>5. Filed(t)'
    BY <1>1, <1>3, <1>6, <2>1, <2>2, <2>3 DEF Filed, OnFile
  <2>6. \A l : Filing(l)' <=> Filing(l)
    BY <1>1, <1>2, <2>2 DEF Filing
  <2>7. Filing(a)
    BY <2>2 DEF Filing
  <2>8. \A l \in Investigated : ~Filing(l)' => Whole(l)'
    BY <1>1, <2>1, <2>3, <2>6, <2>7 DEF InOrder, Whole, OnFile
  <2>9. \A m \in leads' : m.status = "FOLLOWED" => Followed(m)'
    BY <1>1, <1>3, <2>1, <2>3, <2>6 DEF InOrder, Followed
  <2> QED
    BY <1>5, <2>4, <2>5, <2>8, <2>9 DEF InOrder
<1>9. CASE FileSteps(t)
  <2>1. steps' = [steps EXCEPT ![a] = run[t]] /\ UNCHANGED <<leads, cases, evidence>>
    BY <1>9 DEF FileSteps
  <2>2. pc[t] = "steps" /\ pc'[t] = "evidence"
    BY <1>9 DEF FileSteps, Goto, TypeInv, TypeOK
  <2>3. steps'[a] = run[t] /\ \A l \in Investigated \ {a} : steps'[l] = steps[l]
    BY <1>3, <2>1 DEF TypeInv, TypeOK
  <2>4. \A u \in Threads \ {t} : Filed(u)'
    <3> SUFFICES ASSUME NEW u \in Threads \ {t}, pc[u] \in {"case", "steps", "evidence"} PROVE Filed(u)'
      BY <1>2 DEF Filed
    <3>1. arg[u] \in Investigated \ {a}
      BY <1>4 DEF TypeInv, InHand, Fits
    <3> QED
      BY <1>1, <1>2, <1>6, <2>1, <2>3, <3>1 DEF Filed, OnFile
  <2>5. Filed(t)'
    BY <1>1, <1>3, <1>6, <2>1, <2>2, <2>3 DEF Filed, OnFile
  <2>6. \A l : Filing(l)' <=> Filing(l)
    BY <1>1, <1>2, <2>2 DEF Filing
  <2>7. Filing(a)
    BY <2>2 DEF Filing
  <2>8. \A l \in Investigated : ~Filing(l)' => Whole(l)'
    BY <1>1, <2>1, <2>3, <2>6, <2>7 DEF InOrder, Whole, OnFile
  <2>9. \A m \in leads' : m.status = "FOLLOWED" => Followed(m)'
    BY <1>1, <2>1, <2>6 DEF InOrder, Followed
  <2> QED
    BY <1>5, <2>4, <2>5, <2>8, <2>9 DEF InOrder
<1>10. CASE FileEvidence(t)
  <2>1. evidence' = [evidence EXCEPT ![a] = run[t]] /\ UNCHANGED <<leads, cases, steps>>
    BY <1>10 DEF FileEvidence
  <2>2. pc[t] = "evidence" /\ pc'[t] = "done"
    BY <1>10 DEF FileEvidence, Return, Goto, TypeInv, TypeOK
  <2>3. evidence'[a] = run[t] /\ \A l \in Investigated \ {a} : evidence'[l] = evidence[l]
    BY <1>3, <2>1 DEF TypeInv, TypeOK
  <2>4. cases[a] = run[t] /\ steps[a] = run[t] /\ OnFile(a)
    BY <1>6, <2>2 DEF Filed
  <2>5. \A u \in Threads : Filed(u)'
    BY <1>1, <1>2, <1>6, <2>1, <2>2 DEF Filed, OnFile
  <2>6. \A l : Filing(l) <=> Filing(l)' \/ l = a
    BY <1>1, <1>2, <2>2 DEF Filing
  <2>7. Whole(a)'
    BY <1>1, <2>1, <2>3, <2>4 DEF Whole, OnFile
  <2>8. \A l \in Investigated : ~Filing(l)' => Whole(l)'
    BY <1>1, <2>1, <2>3, <2>6, <2>7 DEF InOrder, Whole, OnFile
  <2>9. \A m \in leads' : m.status = "FOLLOWED" => Followed(m)'
    BY <1>1, <1>3, <2>1, <2>4, <2>6 DEF InOrder, Followed
  <2> QED
    BY <1>5, <2>5, <2>8, <2>9 DEF InOrder
<1> QED
  BY <1>7, <1>8, <1>9, <1>10

LEMMA KeptStep ==
  ASSUME TypeInv, Alone, Kept, NEW t \in Threads, Work(t) \/ Arrive(t)
  PROVE  Kept'
<1> SUFFICES ASSUME ~swapped' PROVE InOrder'
  BY DEF Kept
<1>1. CASE Arrive(t)
  BY <1>1, AskKeeps
<1>2. CASE Respond(t)
  BY <1>2, RespondKeeps
<1>3. CASE Work(t) /\ ~Respond(t) /\ request[t] \in Swaps
  BY <1>3, SwapKeeps
<1>4. CASE Work(t) /\ ~Respond(t) /\ request[t] \notin Swaps
  <2>1. ~swapped /\ pc[t] # "idle"
    BY <1>4, WorkFacts
  <2>2. ~Swapping
    BY <1>4, <2>1 DEF Swapping, Active, Alone
  <2>3. ~Swap(t)
    BY <1>4 DEF TypeInv, InHand, Fits, Swap, SwapRepo, ReadRepo, SwapDetector, SwapInvestigator, ClearCases,
                ClearSteps, ClearEvidence, ClearLeads
  <2> QED
    BY <1>4, <2>1, <2>2, <2>3, ReadsKeep, FilesKeep DEF Work, Start
<1> QED
  BY <1>1, <1>2, <1>3, <1>4

LEMMA KeptHolds == Spec => []Kept
<1>1. Init => Kept
  BY DEF Init, Kept, InOrder, Cleared, Filed, Whole, Swapping, Active
<1>2. TypeInv /\ Alone /\ Kept /\ [Next]_vars => Kept'
  <2> SUFFICES ASSUME TypeInv, Alone, Kept, [Next]_vars PROVE Kept'
    OBVIOUS
  <2>1. CASE UNCHANGED vars
    BY <2>1 DEF vars, service, locals, Kept, InOrder, Cleared, Filed, Whole, OnFile, Followed, Filing, Swapping,
                Active, NoRun
  <2>2. CASE Next
    BY <2>2, KeptStep DEF Next
  <2> QED
    BY <2>1, <2>2
<1> QED
  BY <1>1, <1>2, TypeHolds, AloneHolds, PTL DEF Spec

(* However investigations and injections run into one another, the case, the
   steps and the evidence of a lead are of one run. *)
THEOREM CasesStayWhole == Spec => []CasesAreWhole
<1>1. Kept => CasesAreWhole
  BY DEF Kept, InOrder, Whole, OnFile, CasesAreWhole
<1> QED
  BY <1>1, KeptHolds, PTL

(* And a lead is FOLLOWED for a case, whatever the detectors file. *)
THEOREM FollowedForACase == Spec => []FollowedLeadsHaveCases
<1>1. Kept => FollowedLeadsHaveCases
  BY DEF Kept, InOrder, Followed, FollowedLeadsHaveCases
<1> QED
  BY <1>1, KeptHolds, PTL
-----------------------------------------------------------------------------
(* The rule a lead was found by decides whether it is to be pursued: leads of
   one identifier agree in that, of whatever run of the detectors they are. *)
Scored(l) == l.risk_score >= PursueThreshold <=> Weight(l.lead_id[1]) * 100 >= PursueThreshold

LEMMA FoundAreScored ==
  ASSUME NEW r \in Repositories, NEW l \in FoundIn(r)
  PROVE  Scored(l)
<1>1. PICK m \in RunAll(Records(r)) : l = [lead_id |-> m.lead_id, risk_score |-> m.risk_score, status |-> "OPEN"]
  BY FoundIs
<1>2. l.lead_id = m.lead_id /\ l.risk_score = m.risk_score
  BY <1>1
<1>3. IsDataset(Records(r)) /\ \A s, u \in UnusualTiming(Records(r)) : s.entity = u.entity => s = u
  BY SeederAssumption
<1>4. /\ m.lead_id[1] = m.detector
      /\ m.risk_score >= PursueThreshold <=> Weight(m.detector) * 100 >= PursueThreshold
  BY <1>3, ScoredByRule
<1> QED
  BY <1>2, <1>4 DEF Scored

(* A workspace that was cleared has nothing to find. *)
Empty == [loaded |-> FALSE, added |-> {}]

LEMMA NothingInEmpty == FoundIn(Empty) = {}
<1>1. Empty \in Repositories
  BY DEF Empty, Repositories
<1>2. IsDataset(Records(Empty))
  BY <1>1, SeederAssumption
<1>3. \A k \in {"entities", "providers", "accounts", "invoices", "payments", "transactions"} : D!Nothing[k] = {}
  BY DEF D!Nothing
<1>4. ASSUME NEW k \in DOMAIN Records(Empty)
      PROVE  Records(Empty)[k] = {}
  BY <1>3, <1>4 DEF Records, Empty
<1>5. RunAll(Records(Empty)) = {}
  BY <1>2, <1>4, NothingIsFound
<1> QED
  BY <1>1, <1>5, FoundIs

KindDecides ==
  /\ \A l \in leads : Scored(l)
  /\ \A t \in Threads : /\ \A l \in detected[t] : Scored(l)
                        /\ pc[t] \in {"investigate", "follow"} => Scored(lead[t])

LEMMA KindStep ==
  ASSUME TypeInv, KindDecides, NEW t \in Threads, Work(t) \/ Arrive(t)
  PROVE  KindDecides'
<1>1. CASE Arrive(t)
  <2>1. pc'[t] \notin {"investigate", "follow"} /\ \A u \in Threads \ {t} : pc'[u] = pc[u]
    BY <1>1, AskFacts
  <2>2. UNCHANGED <<leads, detected, lead>>
    BY <1>1 DEF Arrive, AskStart, AskInject, AskSwap, Ask, service
  <2> QED
    BY <2>1, <2>2 DEF KindDecides, Scored
<1>2. ASSUME Work(t), \A l \in leads' : Scored(l), \A l \in detected'[t] : Scored(l),
             \A u \in Threads \ {t} : detected'[u] = detected[u],
             pc'[t] \in {"investigate", "follow"} => Scored(lead'[t])
      PROVE  KindDecides'
  <2>1. \A u \in Threads \ {t} : pc'[u] = pc[u] /\ lead'[u] = lead[u]
    BY <1>2, OthersStay
  <2>2. ASSUME NEW u \in Threads
        PROVE  /\ \A l \in detected'[u] : Scored(l)
               /\ pc'[u] \in {"investigate", "follow"} => Scored(lead'[u])
    <3>1. CASE u = t
      BY <1>2, <3>1
    <3>2. CASE u # t
      <4>1. detected'[u] = detected[u] /\ pc'[u] = pc[u] /\ lead'[u] = lead[u]
        BY <1>2, <2>1, <3>2
      <4> QED
        BY <4>1 DEF KindDecides
    <3> QED
      BY <3>1, <3>2
  <2>3. /\ \A l \in leads' : Scored(l)
        /\ \A u \in Threads : /\ \A l \in detected'[u] : Scored(l)
                              /\ pc'[u] \in {"investigate", "follow"} => Scored(lead'[u])
    BY <1>2, <2>2
  <2> QED
    BY <2>3 DEF KindDecides, Scored
<1>3. CASE Start(t)
  <2>1. UNCHANGED detected
    BY <1>3 DEF Start, Acquire, GetLead, NotFound, Investigate, Follow, FileCase, FileSteps, FileEvidence
  <2>2. CASE GetLead(t)
    <3>1. PICK l \in leads : lead' = [lead EXCEPT ![t] = l]
      BY <2>2 DEF GetLead
    <3>2. lead'[t] = l /\ UNCHANGED leads
      BY <2>2, <3>1 DEF TypeInv, TypeOK, GetLead, service
    <3> QED
      BY <1>2, <1>3, <2>1, <3>2 DEF KindDecides, Work
  <2>3. CASE Follow(t)
    <3>1. pc[t] = "follow" /\ Scored(lead[t]) /\ IsLead(lead[t])
      BY <2>3 DEF Follow, KindDecides, TypeInv, InHand, Fits
    <3>2. leads' \subseteq leads \cup {[lead[t] EXCEPT !.status = "FOLLOWED"]}
      BY <2>3 DEF Follow
    <3>3. Scored([lead[t] EXCEPT !.status = "FOLLOWED"])
      BY <3>1 DEF Scored, IsLead
    <3>4. pc'[t] = "case"
      BY <2>3 DEF Follow, Goto, TypeInv, TypeOK
    <3>5. \A l \in leads' : Scored(l)
      BY <3>2, <3>3 DEF KindDecides
    <3> QED
      BY <1>2, <1>3, <2>1, <3>4, <3>5 DEF KindDecides, Work
  <2>4. CASE Start(t) /\ ~GetLead(t) /\ ~Follow(t)
    <3>1. UNCHANGED <<leads, lead>> /\ (pc'[t] \in {"investigate", "follow"} => pc[t] \in {"investigate", "follow"})
      BY <2>4 DEF Start, Acquire, NotFound, Investigate, FileCase, FileSteps, FileEvidence, service, Goto, Return,
                  TypeInv, TypeOK
    <3> QED
      BY <1>2, <1>3, <2>1, <3>1 DEF KindDecides, Work
  <2> QED
    BY <1>3, <2>2, <2>3, <2>4
<1>4. CASE Pick(t) \/ Add(t) \/ Swap(t)
  <2>1. UNCHANGED detected /\ leads' \subseteq leads /\ pc'[t] \notin {"investigate", "follow"}
    BY <1>4 DEF Pick, Add, Swap, SwapRepo, ReadRepo, SwapDetector, SwapInvestigator, ClearCases, ClearSteps,
                ClearEvidence, ClearLeads, Goto, Return, service, TypeInv, TypeOK
  <2> QED
    BY <1>2, <1>4, <2>1 DEF KindDecides, Work
<1>5. CASE Detect(t)
  <2>1. /\ detected' = [detected EXCEPT ![t] = FoundIn(heap[detectors])] /\ UNCHANGED leads
        /\ pc'[t] = "file"
    BY <1>5 DEF Detect, Goto, service, TypeInv, TypeOK
  <2>2. heap[detectors] \in Repositories
    BY DEF TypeInv, TypeOK
  <2>3. detected'[t] = FoundIn(heap[detectors]) /\ \A u \in Threads \ {t} : detected'[u] = detected[u]
    BY <2>1 DEF TypeInv, TypeOK
  <2>4. \A l \in detected'[t] : Scored(l)
    BY <2>2, <2>3, FoundAreScored
  <2> QED
    BY <1>2, <1>5, <2>1, <2>3, <2>4 DEF KindDecides, Work
<1>6. CASE File(t)
  <2>1. leads' \subseteq leads \cup detected[t] /\ UNCHANGED detected /\ pc'[t] = "done"
    BY <1>6 DEF File, Return, Goto, TypeInv, TypeOK
  <2>2. \A l \in leads' : Scored(l)
    BY <2>1 DEF KindDecides
  <2> QED
    BY <1>2, <1>6, <2>1, <2>2 DEF KindDecides, Work
<1>7. CASE Respond(t)
  <2>1. /\ detected' = [detected EXCEPT ![t] = {}] /\ UNCHANGED leads /\ pc'[t] = "idle"
    BY <1>7 DEF Respond, Goto, service, TypeInv, TypeOK
  <2>2. detected'[t] = {} /\ \A u \in Threads \ {t} : detected'[u] = detected[u]
    BY <2>1 DEF TypeInv, TypeOK
  <2> QED
    BY <1>2, <1>7, <2>1, <2>2 DEF KindDecides, Work
<1> QED
  BY <1>1, <1>3, <1>4, <1>5, <1>6, <1>7 DEF Work

-----------------------------------------------------------------------------
(* What is found in the data of the service is on file, or a request is under
   way that will find it and file it. *)
SwapPlaces ==
  {"repo", "data", "detector", "investigator", "clear_cases", "clear_steps", "clear_evidence", "clear_leads"}

Covers(S) == \A l \in FoundIn(heap[repo]) : \E m \in S : m.lead_id = l.lead_id

Pending == \E t \in Threads : pc[t] \in {"add", "detect"} \/ (pc[t] = "file" /\ Covers(detected[t]))

Caught == detectors = repo /\ (Covers(leads) \/ Pending \/ (~refreshed /\ \A t \in Threads : pc[t] # "file"))

(* How far a clear or load has come that is alone. *)
Renewing(t) ==
  /\ pc[t] = "detector" => data[t] = repo
  /\ pc[t] \in {"investigator", "clear_cases", "clear_steps", "clear_evidence", "clear_leads"} => detectors = repo
  /\ pc[t] \in SwapPlaces \ {"repo"} => heap[repo] = [loaded |-> request[t] = "load", added |-> {}]

CaughtUp ==
  ~swapped =>
    /\ \A t \in Threads : Renewing(t)
    /\ (\A t \in Threads : pc[t] \notin SwapPlaces) => Caught

(* A clear or load that replaces something has the service to itself. *)
LEMMA SwapsAlone ==
  ASSUME TypeInv, Alone, ~swapped, NEW t \in Threads, pc[t] \in SwapPlaces
  PROVE  request[t] \in Swaps /\ \A u \in Threads \ {t} : pc[u] = "idle"
<1>1. request[t] \in Swaps /\ pc[t] # "idle"
  BY DEF TypeInv, InHand, Fits, SwapPlaces
<1> QED
  BY <1>1 DEF Alone

(* A step that replaces nothing keeps what a replacement relies on. *)
LEMMA RenewingStays ==
  ASSUME TypeInv, CaughtUp, ~swapped, NEW t \in Threads, pc'[t] \notin SwapPlaces \ {"repo"},
         \A u \in Threads \ {t} : pc'[u] = pc[u] /\ data'[u] = data[u] /\ request'[u] = request[u],
         UNCHANGED <<heap, repo, detectors>>
  PROVE  \A u \in Threads : Renewing(u)'
<1> SUFFICES ASSUME NEW u \in Threads PROVE Renewing(u)'
  OBVIOUS
<1>1. CASE u = t
  BY <1>1 DEF Renewing, SwapPlaces
<1>2. CASE u # t
  BY <1>2 DEF Renewing, CaughtUp
<1> QED
  BY <1>1, <1>2

LEMMA CaughtArrives ==
  ASSUME TypeInv, CaughtUp, ~swapped, NEW t \in Threads, Arrive(t)
  PROVE  CaughtUp'
<1>1. UNCHANGED <<heap, repo, detectors, leads, detected, data, refreshed>>
  BY DEF Arrive, AskStart, AskInject, AskSwap, Ask, service
<1>2. /\ pc[t] = "idle" /\ pc'[t] \in {"acquire", "pick", "repo"}
      /\ \A u \in Threads \ {t} : pc'[u] = pc[u] /\ request'[u] = request[u]
  BY AskFacts
<1>3. \A u \in Threads : Renewing(u)'
  <2>1. pc'[t] \notin SwapPlaces \ {"repo"} /\ \A u \in Threads \ {t} : data'[u] = data[u]
    BY <1>1, <1>2 DEF SwapPlaces
  <2>2. UNCHANGED <<heap, repo, detectors>>
    BY <1>1
  <2> QED
    BY <1>2, <2>1, <2>2, RenewingStays
<1>4. ASSUME \A u \in Threads : pc'[u] \notin SwapPlaces
      PROVE  Caught'
  <2>1. \A u \in Threads : pc[u] \notin SwapPlaces
    BY <1>2, <1>4 DEF SwapPlaces
  <2>2. Caught
    BY <2>1 DEF CaughtUp
  <2>3. \A S : Covers(S)' <=> Covers(S)
    BY <1>1 DEF Covers
  <2>4. Pending => Pending'
    BY <1>1, <1>2, <2>3 DEF Pending, Covers
  <2> QED
    BY <1>1, <1>2, <2>2, <2>4 DEF Caught, Covers
<1> QED
  BY <1>3, <1>4 DEF CaughtUp

LEMMA CaughtWorks ==
  ASSUME TypeInv, Alone, CaughtUp, ~swapped, NEW t \in Threads,
         Start(t) \/ Pick(t) \/ Detect(t) \/ File(t) \/ Respond(t)
  PROVE  CaughtUp'
<1>1. UNCHANGED <<heap, repo, detectors>> /\ pc[t] \notin SwapPlaces /\ pc'[t] \notin SwapPlaces
  <2>1. CASE Start(t)
    BY <2>1 DEF TypeInv, TypeOK, Start, Acquire, GetLead, NotFound, Investigate, Follow, FileCase, FileSteps,
                FileEvidence, Return, Goto, service, SwapPlaces
  <2>2. CASE Pick(t) \/ Detect(t) \/ File(t) \/ Respond(t)
    BY <2>2 DEF TypeInv, TypeOK, Pick, Detect, File, Respond, Return, Goto, service, SwapPlaces
  <2> QED
    BY <2>1, <2>2
<1>2. \A u \in Threads \ {t} : pc'[u] = pc[u] /\ data'[u] = data[u] /\ request'[u] = request[u]
  BY OthersStay DEF Work
<1>3. \A u \in Threads : Renewing(u)'
  BY <1>1, <1>2, RenewingStays
<1>4. ASSUME Caught PROVE Caught'
  <2>1. ASSUME NEW S PROVE Covers(S)' <=> Covers(S)
    BY <1>1 DEF Covers
  <2>2. CASE Start(t)
    <3>1. /\ UNCHANGED <<detected, refreshed>>
          /\ pc[t] \notin {"add", "detect", "file"} /\ pc'[t] \notin {"add", "detect", "file"}
      BY <2>2 DEF TypeInv, TypeOK, Start, Acquire, GetLead, NotFound, Investigate, Follow, FileCase, FileSteps,
                  FileEvidence, Return, Goto
    <3>2. Pending => Pending'
      BY <1>1, <1>2, <3>1 DEF Pending, Covers
    <3>3. \A l \in leads : \E m \in leads' : m.lead_id = l.lead_id
      <4>1. CASE Follow(t)
        <5>1. leads' = {l \in leads : l.lead_id # arg[t]} \cup {[lead[t] EXCEPT !.status = "FOLLOWED"]}
          BY <4>1 DEF Follow
        <5>2. IsLead(lead[t]) /\ lead[t].lead_id = arg[t]
          BY <4>1 DEF Follow, TypeInv, InHand, Fits
        <5>3. [lead[t] EXCEPT !.status = "FOLLOWED"].lead_id = arg[t]
          BY <5>2 DEF IsLead
        <5> QED
          BY <5>1, <5>3
      <4>2. CASE ~Follow(t)
        <5>1. UNCHANGED leads
          BY <2>2, <4>2 DEF Start, Acquire, GetLead, NotFound, Investigate, FileCase, FileSteps, FileEvidence, service
        <5> QED
          BY <5>1
      <4> QED
        BY <4>1, <4>2
    <3>4. Covers(leads) => Covers(leads)'
      BY <1>1, <3>3 DEF Covers
    <3>5. (\A u \in Threads : pc[u] # "file") => \A u \in Threads : pc'[u] # "file"
      BY <1>2, <3>1
    <3> QED
      BY <1>1, <1>4, <3>1, <3>2, <3>4, <3>5 DEF Caught
  <2>3. CASE Pick(t)
    <3>1. pc'[t] \in {"add", "detect"}
      BY <2>3 DEF Pick, Goto, TypeInv, TypeOK
    <3> QED
      BY <1>1, <1>4, <3>1 DEF Caught, Pending
  <2>4. CASE Detect(t)
    <3>1. pc'[t] = "file" /\ detected'[t] = FoundIn(heap[repo])
      BY <1>4, <2>4 DEF Detect, Goto, Caught, TypeInv, TypeOK
    <3>2. Covers(detected[t])'
      BY <1>1, <3>1 DEF Covers
    <3> QED
      BY <1>1, <1>4, <3>1, <3>2 DEF Caught, Pending
  <2>5. CASE File(t)
    <3>1. /\ leads' = {l \in leads : \A m \in detected[t] : m.lead_id # l.lead_id} \cup detected[t]
          /\ UNCHANGED detected /\ pc[t] = "file"
      BY <2>5 DEF File
    <3>2. (\A l \in leads : \E m \in leads' : m.lead_id = l.lead_id) /\ detected[t] \subseteq leads'
      BY <3>1
    <3>3. Covers(leads) => Covers(leads)'
      BY <1>1, <3>2 DEF Covers
    <3>4. Covers(detected[t]) => Covers(leads)'
      BY <1>1, <3>2 DEF Covers
    <3>5. ASSUME Pending, ~Covers(detected[t]) PROVE Pending'
      <4>1. PICK u \in Threads : pc[u] \in {"add", "detect"} \/ (pc[u] = "file" /\ Covers(detected[u]))
        BY <3>5 DEF Pending
      <4>2. u # t
        BY <3>1, <3>5, <4>1
      <4>3. Covers(detected[u]) => Covers(detected[u])'
        BY <1>1, <3>1 DEF Covers
      <4> QED
        BY <1>2, <4>1, <4>2, <4>3 DEF Pending
    <3> QED
      BY <1>1, <1>4, <3>1, <3>3, <3>4, <3>5 DEF Caught
  <2>6. CASE Respond(t)
    <3>1. /\ UNCHANGED <<leads, refreshed>> /\ pc[t] = "done" /\ pc'[t] = "idle"
          /\ \A u \in Threads \ {t} : detected'[u] = detected[u]
      BY <2>6 DEF Respond, Goto, service, TypeInv, TypeOK
    <3>2. Pending => Pending'
      BY <1>1, <1>2, <3>1 DEF Pending, Covers
    <3>3. Covers(leads) => Covers(leads)'
      BY <1>1, <3>1 DEF Covers
    <3>4. (\A u \in Threads : pc[u] # "file") => \A u \in Threads : pc'[u] # "file"
      BY <1>2, <3>1
    <3> QED
      BY <1>1, <1>4, <3>1, <3>2, <3>3, <3>4 DEF Caught
  <2> QED
    BY <2>2, <2>3, <2>4, <2>5, <2>6
<1>5. (\A u \in Threads : pc'[u] \notin SwapPlaces) => Caught'
  <2>1. (\A u \in Threads : pc'[u] \notin SwapPlaces) => \A u \in Threads : pc[u] \notin SwapPlaces
    BY <1>1, <1>2
  <2> QED
    BY <1>4, <2>1 DEF CaughtUp
<1> QED
  BY <1>3, <1>5 DEF CaughtUp

LEMMA CaughtAdds ==
  ASSUME TypeInv, Alone, CaughtUp, ~swapped, NEW t \in Threads, Add(t)
  PROVE  CaughtUp'
<1>1. pc[t] = "add" /\ pc'[t] \in {"add", "detect"} /\ UNCHANGED <<repo, detectors>>
  BY DEF Add, Goto, TypeInv, TypeOK
<1>2. \A u \in Threads \ {t} : pc'[u] = pc[u] /\ pc[u] \notin SwapPlaces
  <2>1. ASSUME NEW u \in Threads \ {t}, pc[u] \in SwapPlaces PROVE FALSE
    BY <1>1, <2>1, SwapsAlone
  <2> QED
    BY <2>1, OthersStay DEF Work
<1>3. \A u \in Threads : pc[u] \notin SwapPlaces /\ pc'[u] \notin SwapPlaces
  BY <1>1, <1>2 DEF SwapPlaces
<1>4. Caught
  BY <1>3 DEF CaughtUp
<1>5. Caught'
  BY <1>1, <1>4 DEF Caught, Pending
<1>6. \A u \in Threads : Renewing(u)'
  BY <1>3 DEF Renewing, SwapPlaces
<1> QED
  BY <1>5, <1>6 DEF CaughtUp

LEMMA CaughtSwaps ==
  ASSUME TypeInv, Alone, CaughtUp, ~swapped, NEW t \in Threads, Swap(t)
  PROVE  CaughtUp'
<1>1. pc[t] \in SwapPlaces
  BY DEF Swap, SwapRepo, ReadRepo, SwapDetector, SwapInvestigator, ClearCases, ClearSteps, ClearEvidence, ClearLeads,
         SwapPlaces
<1>2. \A u \in Threads \ {t} : pc'[u] = "idle"
  BY <1>1, SwapsAlone, OthersStay DEF Work
<1>3. \A u \in Threads \ {t} : Renewing(u)'
  BY <1>2 DEF Renewing, SwapPlaces
<1>4. request' = request /\ request[t] \in Swaps
  BY <1>1, SwapsAlone, WorkFacts DEF Swap, SwapRepo, ReadRepo, SwapDetector, SwapInvestigator, ClearCases, ClearSteps,
         ClearEvidence, ClearLeads, Quiet
<1>5. Renewing(t)
  BY DEF CaughtUp
<1>6. CASE pc'[t] \in SwapPlaces
  <2>1. SUFFICES Renewing(t)'
    BY <1>3, <1>6 DEF CaughtUp
  <2>2. CASE SwapRepo(t)
    <3>1. /\ heap' = Append(heap, [loaded |-> request[t] = "load", added |-> {}]) /\ repo' = Len(heap')
          /\ pc'[t] = "data"
      BY <2>2 DEF SwapRepo, Goto, TypeInv, TypeOK
    <3>2. heap'[repo'] = [loaded |-> request[t] = "load", added |-> {}]
      <4> DEFINE new == [loaded |-> request[t] = "load", added |-> {}]
      <4> HIDE DEF new
      <4>1. heap \in Seq(Repositories) /\ heap' = Append(heap, new) /\ repo' = Len(heap')
        BY <3>1 DEF new, TypeInv, TypeOK
      <4>2. heap'[repo'] = new
        BY <4>1
      <4> QED
        BY <4>2 DEF new
    <3> QED
      BY <1>4, <3>1, <3>2 DEF Renewing
  <2>3. CASE ReadRepo(t)
    <3>1. /\ pc[t] = "data" /\ pc'[t] = "detector" /\ data'[t] = repo /\ UNCHANGED <<heap, repo>>
      BY <2>3 DEF ReadRepo, Goto, TypeInv, TypeOK, service
    <3> QED
      BY <1>4, <1>5, <3>1 DEF Renewing, SwapPlaces
  <2>4. CASE SwapDetector(t)
    <3>1. /\ pc[t] = "detector" /\ pc'[t] = "investigator" /\ detectors' = data[t] /\ UNCHANGED <<heap, repo>>
      BY <2>4 DEF SwapDetector, Goto, TypeInv, TypeOK
    <3> QED
      BY <1>4, <1>5, <3>1 DEF Renewing, SwapPlaces
  <2>5. CASE SwapInvestigator(t) \/ ClearCases(t) \/ ClearSteps(t) \/ ClearEvidence(t)
    <3>1. /\ pc[t] \in {"investigator", "clear_cases", "clear_steps", "clear_evidence"}
          /\ pc'[t] \in {"clear_cases", "clear_steps", "clear_evidence", "clear_leads"}
          /\ UNCHANGED <<heap, repo, detectors>>
      BY <2>5 DEF SwapInvestigator, ClearCases, ClearSteps, ClearEvidence, Goto, TypeInv, TypeOK
    <3> QED
      BY <1>4, <1>5, <3>1 DEF Renewing, SwapPlaces
  <2>6. CASE ClearLeads(t)
    <3>1. pc'[t] \in {"detect", "done"}
      BY <2>6 DEF ClearLeads, Return, Goto, TypeInv, TypeOK
    <3> QED
      BY <1>6, <3>1 DEF SwapPlaces
  <2> QED
    BY <2>2, <2>3, <2>4, <2>5, <2>6 DEF Swap
<1>7. CASE pc'[t] \notin SwapPlaces
  <2>1. ClearLeads(t)
    <3>1. SwapRepo(t) \/ ReadRepo(t) \/ SwapDetector(t) \/ SwapInvestigator(t) \/ ClearCases(t) \/ ClearSteps(t)
            \/ ClearEvidence(t) => pc'[t] \in SwapPlaces
      BY DEF SwapRepo, ReadRepo, SwapDetector, SwapInvestigator, ClearCases, ClearSteps, ClearEvidence, Goto,
             TypeInv, TypeOK, SwapPlaces
    <3> QED
      BY <1>7, <3>1 DEF Swap
  <2>2. pc[t] = "clear_leads" /\ leads' = {} /\ UNCHANGED <<heap, repo, detectors>>
    BY <2>1 DEF ClearLeads
  <2>3. detectors = repo /\ heap[repo] = [loaded |-> request[t] = "load", added |-> {}]
    BY <1>5, <2>2 DEF Renewing, SwapPlaces
  <2>4. CASE request[t] = "load"
    <3>1. pc'[t] = "detect"
      BY <2>1, <2>4 DEF ClearLeads, Goto, TypeInv, TypeOK
    <3> QED
      BY <1>3, <2>2, <2>3, <3>1 DEF CaughtUp, Caught, Pending, Renewing, SwapPlaces
  <2>5. CASE request[t] # "load"
    <3>1. heap[repo] = Empty
      BY <2>3, <2>5 DEF Empty
    <3>2. Covers(leads)'
      BY <2>2, <3>1, NothingInEmpty DEF Covers
    <3> QED
      BY <1>3, <1>7, <2>2, <2>3, <3>2 DEF CaughtUp, Caught, Renewing, SwapPlaces
  <2> QED
    BY <2>4, <2>5
<1> QED
  BY <1>6, <1>7

LEMMA CaughtStep == TypeInv /\ Alone /\ CaughtUp /\ [Next]_vars => CaughtUp'
<1> SUFFICES ASSUME TypeInv, Alone, CaughtUp, [Next]_vars PROVE CaughtUp'
  OBVIOUS
<1>1. CASE UNCHANGED vars
  BY <1>1 DEF vars, service, locals, CaughtUp, Caught, Covers, Pending, Renewing
<1>2. ASSUME NEW t \in Threads, Work(t) \/ Arrive(t)
      PROVE  CaughtUp'
  <2>1. CASE swapped'
    BY <2>1 DEF CaughtUp
  <2>2. CASE ~swapped' /\ Arrive(t)
    <3>1. ~swapped
      BY <2>2, AskFacts
    <3> QED
      BY <2>2, <3>1, CaughtArrives
  <2>3. CASE ~swapped' /\ Work(t)
    <3>1. ~swapped
      BY <2>3, WorkFacts DEF Respond
    <3> QED
      BY <2>3, <3>1, CaughtWorks, CaughtAdds, CaughtSwaps DEF Work
  <2> QED
    BY <1>2, <2>1, <2>2, <2>3
<1> QED
  BY <1>1, <1>2 DEF Next

(* However injections run into one another and into investigations, once all
   is quiet every lead that the detectors find in the data of the service is
   on file, and to be pursued if it is (InvestigationService.refresh_leads,
   DemoInjectionService.inject). *)
THEOREM LeadsCatchUp == Spec => []LeadsAreCaughtUp
<1>1. Init => CaughtUp /\ KindDecides
  BY DEF Init, CaughtUp, Caught, Renewing, SwapPlaces, KindDecides
<1>2. TypeInv /\ KindDecides /\ [Next]_vars => KindDecides'
  BY KindStep DEF Next, vars, service, locals, KindDecides, Scored
<1>3. TypeInv /\ KindDecides /\ CaughtUp => LeadsAreCaughtUp
  <2> SUFFICES ASSUME TypeInv, KindDecides, CaughtUp, ~swapped, refreshed, Active = {}, NEW l \in FoundIn(heap[repo])
               PROVE  \E m \in leads : /\ m.lead_id = l.lead_id
                                       /\ l.risk_score >= PursueThreshold => m.risk_score >= PursueThreshold
    BY DEF LeadsAreCaughtUp
  <2>1. \A t \in Threads : pc[t] = "idle"
    BY DEF Active
  <2>2. Covers(leads)
    BY <2>1 DEF CaughtUp, Caught, Pending, SwapPlaces
  <2>3. PICK m \in leads : m.lead_id = l.lead_id
    BY <2>2 DEF Covers
  <2>4. heap[repo] \in Repositories
    BY DEF TypeInv, TypeOK
  <2>5. Scored(l) /\ Scored(m)
    BY <2>4, FoundAreScored DEF KindDecides
  <2> QED
    BY <2>3, <2>5 DEF Scored
<1> QED
  BY <1>1, <1>2, <1>3, CaughtStep, TypeHolds, AloneHolds, PTL DEF Spec
=============================================================================
