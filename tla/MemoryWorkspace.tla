-------------------------- MODULE MemoryWorkspace ---------------------------
(***************************************************************************)
(* The workspace without a database: services/investigation_service.py and *)
(* services/demo_injection_service.py over the repositories of             *)
(* database/repositories/memory.py, composed with the detectors.  FastAPI  *)
(* runs each request on a thread of its own; only investigations of one    *)
(* lead exclude each other.  Clear and load give the service new objects,  *)
(* one assignment after the other, and empty its dictionaries.             *)
(***************************************************************************)
EXTENDS DetectionRules, Sequences

CONSTANTS
  Threads,
  Investigated,   \* the leads that are investigated, by their identifiers
  Scenarios,      \* the hidden scenarios that are injected
  MaxRequests     \* bound: requests asked in all

D == INSTANCE DetectionData

ASSUME WorkspaceAssumption ==
  /\ Scenarios \subseteq {"hidden_pass_through", "hidden_duplicate_payment"}
  /\ MaxRequests \in Nat
  /\ None \notin Threads \cup Scenarios \cup Nat

VARIABLES
  (* the service *)
  heap,           \* the repositories made so far, by their number: what was loaded
                  \* into each and the kinds of hidden records added to it
  repo, detectors, investigator,   \* the one each of these was made of
  leads,          \* _leads: [lead_id, risk_score, status]
  cases, steps, evidence,   \* by lead, the number of the run that filed them
  locks,          \* who holds the lock of a lead
  (* the threads *)
  pc, request,
  arg,            \* of an investigation: its lead
  scenario,       \* of an injection
  data,           \* the repository a request works on
  todo,           \* of an injection: the kinds of record still to be added
  detected,       \* the leads a run of the detectors has found
  lead,           \* the lead under investigation, as it was read
  run,            \* its number
  answer,
  (* history *)
  requests,
  runs,           \* investigations made
  swapped,        \* a clear or load overlapped another request
  refreshed       \* the detectors have run since the start

service == <<heap, repo, detectors, investigator, leads, cases, steps, evidence>>
locals == <<request, arg, scenario, data, todo, detected, lead, run>>
vars == <<service, locks, pc, locals, answer, requests, runs, swapped, refreshed>>

Swaps == {"clear", "load"}

Kinds == <<"entities", "providers", "accounts", "invoices", "payments", "transactions">>

(* apply_hidden_pass_through and apply_hidden_duplicate_payment *)
Hidden(s, d) == IF s = "hidden_pass_through" THEN D!HiddenPassThrough(d) ELSE D!HiddenDuplicatePayment(d)

(* The kinds of record a scenario adds, in the order they are added in, and
   the kind of the record that tells it is there. *)
KindsOf(s) == IF s = "hidden_pass_through" THEN Kinds ELSE <<"payments", "transactions">>

PartsOf(s) == {<<s, KindsOf(s)[i]>> : i \in DOMAIN KindsOf(s)}

Mark(s) == IF s = "hidden_pass_through" THEN "entities" ELSE "transactions"

Repositories ==
  [loaded : BOOLEAN, added : SUBSET UNION {PartsOf(s) : s \in Scenarios}]

(* The records of a repository. *)
Records(r) ==
  LET base == IF r.loaded THEN D!DemoScenario ELSE D!Nothing
      Of(k) == base[k] \cup UNION {Hidden(s, D!Nothing)[k] : s \in {u \in Scenarios : <<u, k>> \in r.added}}
  IN [entities |-> Of("entities"), providers |-> Of("providers"), accounts |-> Of("accounts"),
      invoices |-> Of("invoices"), payments |-> Of("payments"), transactions |-> Of("transactions")]

(* The seeder's records: one per identifier, and in any mixture of them no
   more than one signal of timing about anybody. *)
ASSUME SeederAssumption ==
  \A r \in Repositories :
    /\ IsDataset(Records(r))
    /\ \A s, u \in UnusualTiming(Records(r)) : s.entity = u.entity => s = u

(* What the detectors find in each repository there may be. *)
Findings ==
  {[repository |-> r,
    leads |-> {[lead_id |-> l.lead_id, risk_score |-> l.risk_score, status |-> "OPEN"] :
                 l \in UNION {RunAll(d) : d \in {Records(r)}}}] : r \in Repositories}

FoundIn(r) == (CHOOSE f \in Findings : f.repository = r).leads

-----------------------------------------------------------------------------
Init ==
  /\ heap = <<[loaded |-> TRUE, added |-> {}]>>   \* InvestigationService() fills it, and finds no leads
  /\ repo = 1 /\ detectors = 1 /\ investigator = 1
  /\ leads = {}
  /\ cases = [l \in Investigated |-> None]
  /\ steps = [l \in Investigated |-> None]
  /\ evidence = [l \in Investigated |-> None]
  /\ locks = [l \in Investigated |-> None]
  /\ pc = [t \in Threads |-> "idle"]
  /\ request = [t \in Threads |-> None]
  /\ arg = [t \in Threads |-> None]
  /\ scenario = [t \in Threads |-> None]
  /\ data = [t \in Threads |-> None]
  /\ todo = [t \in Threads |-> <<>>]
  /\ detected = [t \in Threads |-> {}]
  /\ lead = [t \in Threads |-> None]
  /\ run = [t \in Threads |-> None]
  /\ answer = [t \in Threads |-> None]
  /\ requests = 0 /\ runs = 0
  /\ swapped = FALSE /\ refreshed = FALSE

Goto(t, place) == pc' = [pc EXCEPT ![t] = place]

Return(t, response) == Goto(t, "done") /\ answer' = [answer EXCEPT ![t] = response]

Quiet == UNCHANGED <<request, arg, scenario, requests, swapped>>

Active == {t \in Threads : pc[t] # "idle"}

Ask(t, operation, about, hidden, place) ==
  /\ pc[t] = "idle" /\ requests < MaxRequests
  /\ requests' = requests + 1
  /\ request' = [request EXCEPT ![t] = operation]
  /\ arg' = [arg EXCEPT ![t] = about]
  /\ scenario' = [scenario EXCEPT ![t] = hidden]
  /\ Goto(t, place)
  /\ swapped' = (swapped \/ \E u \in Active : operation \in Swaps \/ request[u] \in Swaps)
  /\ UNCHANGED <<service, locks, data, todo, detected, lead, run, answer, runs, refreshed>>

AskStart(t) == \E l \in Investigated : Ask(t, "start", l, None, "acquire")

AskInject(t) == \E s \in Scenarios : Ask(t, "inject", None, s, "pick")

AskSwap(t) == \E s \in Swaps : Ask(t, s, None, None, "repo")

Respond(t) ==
  /\ pc[t] = "done"
  /\ Goto(t, "idle")
  /\ request' = [request EXCEPT ![t] = None]
  /\ arg' = [arg EXCEPT ![t] = None]
  /\ scenario' = [scenario EXCEPT ![t] = None]
  /\ data' = [data EXCEPT ![t] = None]
  /\ todo' = [todo EXCEPT ![t] = <<>>]
  /\ detected' = [detected EXCEPT ![t] = {}]
  /\ lead' = [lead EXCEPT ![t] = None]
  /\ run' = [run EXCEPT ![t] = None]
  /\ answer' = [answer EXCEPT ![t] = None]
  /\ UNCHANGED <<service, locks, requests, runs, swapped, refreshed>>

-----------------------------------------------------------------------------
(* start_investigation, serialized per lead. *)

(* Fault: the lock is not taken. *)
AcquireNothing(t) ==
  /\ pc[t] = "acquire"
  /\ Goto(t, "get_lead")
  /\ UNCHANGED <<service, locks, data, todo, detected, lead, run, answer, runs, refreshed>> /\ Quiet

Acquire(t) ==
  /\ pc[t] = "acquire" /\ locks[arg[t]] = None
  /\ locks' = [locks EXCEPT ![arg[t]] = t]
  /\ Goto(t, "get_lead")
  /\ UNCHANGED <<service, data, todo, detected, lead, run, answer, runs, refreshed>> /\ Quiet

GetLead(t) ==
  /\ pc[t] = "get_lead"
  /\ \E l \in leads : l.lead_id = arg[t] /\ lead' = [lead EXCEPT ![t] = l]
  /\ Goto(t, "investigate")
  /\ UNCHANGED <<service, locks, data, todo, detected, run, answer, runs, refreshed>> /\ Quiet

(* The lead is gone, or was never found: ValueError, 404. *)
NotFound(t) ==
  /\ pc[t] = "get_lead" /\ \A l \in leads : l.lead_id # arg[t]
  /\ locks' = [locks EXCEPT ![arg[t]] = None]
  /\ Return(t, "NOT_FOUND")
  /\ UNCHANGED <<service, data, todo, detected, lead, run, runs, refreshed>> /\ Quiet

(* The investigation itself is Investigator's; its tools read the
   repository its investigator was made of. *)
Investigate(t) ==
  /\ pc[t] = "investigate"
  /\ runs' = runs + 1
  /\ run' = [run EXCEPT ![t] = runs']
  /\ data' = [data EXCEPT ![t] = investigator]
  /\ Goto(t, "follow")
  /\ UNCHANGED <<service, locks, todo, detected, lead, answer, refreshed>> /\ Quiet

(* The lead as it was read, now FOLLOWED, be it on file any more or not. *)
Follow(t) ==
  /\ pc[t] = "follow"
  /\ leads' = {l \in leads : l.lead_id # arg[t]} \cup {[lead[t] EXCEPT !.status = "FOLLOWED"]}
  /\ Goto(t, "case")
  /\ UNCHANGED <<heap, repo, detectors, investigator, cases, steps, evidence>>
  /\ UNCHANGED <<locks, data, todo, detected, lead, run, answer, runs, refreshed>> /\ Quiet

FileCase(t) ==
  /\ pc[t] = "case"
  /\ cases' = [cases EXCEPT ![arg[t]] = run[t]]
  /\ Goto(t, "steps")
  /\ UNCHANGED <<heap, repo, detectors, investigator, leads, steps, evidence>>
  /\ UNCHANGED <<locks, data, todo, detected, lead, run, answer, runs, refreshed>> /\ Quiet

FileSteps(t) ==
  /\ pc[t] = "steps"
  /\ steps' = [steps EXCEPT ![arg[t]] = run[t]]
  /\ Goto(t, "evidence")
  /\ UNCHANGED <<heap, repo, detectors, investigator, leads, cases, evidence>>
  /\ UNCHANGED <<locks, data, todo, detected, lead, run, answer, runs, refreshed>> /\ Quiet

FileEvidence(t) ==
  /\ pc[t] = "evidence"
  /\ evidence' = [evidence EXCEPT ![arg[t]] = run[t]]
  /\ locks' = [locks EXCEPT ![arg[t]] = None]
  /\ Return(t, "OK")
  /\ UNCHANGED <<heap, repo, detectors, investigator, leads, cases, steps>>
  /\ UNCHANGED <<data, todo, detected, lead, run, runs, refreshed>> /\ Quiet

Start(t) ==
  Acquire(t) \/ GetLead(t) \/ NotFound(t) \/ Investigate(t)
    \/ Follow(t) \/ FileCase(t) \/ FileSteps(t) \/ FileEvidence(t)

-----------------------------------------------------------------------------
(* refresh_leads *)

Detect(t) ==
  /\ pc[t] = "detect"
  /\ detected' = [detected EXCEPT ![t] = FoundIn(heap[detectors])]
  /\ Goto(t, "file")
  /\ UNCHANGED <<service, locks, data, todo, lead, run, answer, runs, refreshed>> /\ Quiet

(* What is found goes over what is on file, FOLLOWED or not; what is not
   found any more stays. *)
File(t) ==
  /\ pc[t] = "file"
  /\ leads' = {l \in leads : \A m \in detected[t] : m.lead_id # l.lead_id} \cup detected[t]
  /\ refreshed' = TRUE
  /\ Return(t, "OK")
  /\ UNCHANGED <<heap, repo, detectors, investigator, cases, steps, evidence>>
  /\ UNCHANGED <<locks, data, todo, detected, lead, run, runs>> /\ Quiet

-----------------------------------------------------------------------------
(* inject: the records of the scenario, one kind after the other, unless the
   first of them is there. *)

Pick(t) ==
  /\ pc[t] = "pick"
  /\ data' = [data EXCEPT ![t] = repo]
  /\ IF <<scenario[t], Mark(scenario[t])>> \in heap[repo].added
       THEN Goto(t, "detect") /\ UNCHANGED todo
       ELSE Goto(t, "add") /\ todo' = [todo EXCEPT ![t] = KindsOf(scenario[t])]
  /\ UNCHANGED <<service, locks, detected, lead, run, answer, runs, refreshed>> /\ Quiet

Add(t) ==
  /\ pc[t] = "add"
  /\ heap' = [heap EXCEPT ![data[t]].added = @ \cup {<<scenario[t], Head(todo[t])>>}]
  /\ todo' = [todo EXCEPT ![t] = Tail(@)]
  /\ Goto(t, IF Len(todo[t]) = 1 THEN "detect" ELSE "add")
  /\ UNCHANGED <<repo, detectors, investigator, leads, cases, steps, evidence>>
  /\ UNCHANGED <<locks, data, detected, lead, run, answer, runs, refreshed>> /\ Quiet

-----------------------------------------------------------------------------
(* clear_analysis and load_demo *)

SwapRepo(t) ==
  /\ pc[t] = "repo"
  /\ heap' = Append(heap, [loaded |-> request[t] = "load", added |-> {}])
  /\ repo' = Len(heap')
  /\ Goto(t, "data")
  /\ UNCHANGED <<detectors, investigator, leads, cases, steps, evidence>>
  /\ UNCHANGED <<locks, data, todo, detected, lead, run, answer, runs, refreshed>> /\ Quiet

(* data = service.repo, which may be another's by now. *)
ReadRepo(t) ==
  /\ pc[t] = "data"
  /\ data' = [data EXCEPT ![t] = repo]
  /\ Goto(t, "detector")
  /\ UNCHANGED <<service, locks, todo, detected, lead, run, answer, runs, refreshed>> /\ Quiet

(* Fault: the detectors keep the repository they had. *)
SwapNoDetector(t) ==
  /\ pc[t] = "detector"
  /\ Goto(t, "investigator")
  /\ UNCHANGED <<service, locks, data, todo, detected, lead, run, answer, runs, refreshed>> /\ Quiet

SwapDetector(t) ==
  /\ pc[t] = "detector"
  /\ detectors' = data[t]
  /\ Goto(t, "investigator")
  /\ UNCHANGED <<heap, repo, investigator, leads, cases, steps, evidence>>
  /\ UNCHANGED <<locks, data, todo, detected, lead, run, answer, runs, refreshed>> /\ Quiet

SwapInvestigator(t) ==
  /\ pc[t] = "investigator"
  /\ investigator' = data[t]
  /\ Goto(t, "clear_cases")
  /\ UNCHANGED <<heap, repo, detectors, leads, cases, steps, evidence>>
  /\ UNCHANGED <<locks, data, todo, detected, lead, run, answer, runs, refreshed>> /\ Quiet

NoRun == [l \in Investigated |-> None]

ClearCases(t) ==
  /\ pc[t] = "clear_cases"
  /\ cases' = NoRun
  /\ Goto(t, "clear_steps")
  /\ UNCHANGED <<heap, repo, detectors, investigator, leads, steps, evidence>>
  /\ UNCHANGED <<locks, data, todo, detected, lead, run, answer, runs, refreshed>> /\ Quiet

ClearSteps(t) ==
  /\ pc[t] = "clear_steps"
  /\ steps' = NoRun
  /\ Goto(t, "clear_evidence")
  /\ UNCHANGED <<heap, repo, detectors, investigator, leads, cases, evidence>>
  /\ UNCHANGED <<locks, data, todo, detected, lead, run, answer, runs, refreshed>> /\ Quiet

ClearEvidence(t) ==
  /\ pc[t] = "clear_evidence"
  /\ evidence' = NoRun
  /\ Goto(t, "clear_leads")
  /\ UNCHANGED <<heap, repo, detectors, investigator, leads, cases, steps>>
  /\ UNCHANGED <<locks, data, todo, detected, lead, run, answer, runs, refreshed>> /\ Quiet

(* Fault: leads that were investigated stay. *)
ClearOpenLeads(t) ==
  /\ pc[t] = "clear_leads"
  /\ leads' = {l \in leads : l.status = "FOLLOWED"}
  /\ IF request[t] = "load" THEN Goto(t, "detect") /\ UNCHANGED answer ELSE Return(t, "OK")
  /\ UNCHANGED <<heap, repo, detectors, investigator, cases, steps, evidence>>
  /\ UNCHANGED <<locks, data, todo, detected, lead, run, runs, refreshed>> /\ Quiet

(* A load then finds the leads of the demo, a clear leaves it at that. *)
ClearLeads(t) ==
  /\ pc[t] = "clear_leads"
  /\ leads' = {}
  /\ IF request[t] = "load" THEN Goto(t, "detect") /\ UNCHANGED answer ELSE Return(t, "OK")
  /\ UNCHANGED <<heap, repo, detectors, investigator, cases, steps, evidence>>
  /\ UNCHANGED <<locks, data, todo, detected, lead, run, runs, refreshed>> /\ Quiet

Swap(t) ==
  SwapRepo(t) \/ ReadRepo(t) \/ SwapDetector(t) \/ SwapInvestigator(t)
    \/ ClearCases(t) \/ ClearSteps(t) \/ ClearEvidence(t) \/ ClearLeads(t)

-----------------------------------------------------------------------------
Work(t) == Start(t) \/ Pick(t) \/ Add(t) \/ Detect(t) \/ File(t) \/ Swap(t) \/ Respond(t)

Arrive(t) == AskStart(t) \/ AskInject(t) \/ AskSwap(t)

Next == \E t \in Threads : Work(t) \/ Arrive(t)

Spec == Init /\ [][Next]_vars
-----------------------------------------------------------------------------
Places ==
  {"idle", "acquire", "get_lead", "investigate", "follow", "case", "steps", "evidence", "pick", "add", "detect",
   "file", "repo", "data", "detector", "investigator", "clear_cases", "clear_steps", "clear_evidence",
   "clear_leads", "done"}

(* A lead, whatever it is about. *)
IsLead(l) ==
  /\ l = [lead_id |-> l.lead_id, risk_score |-> l.risk_score, status |-> l.status]
  /\ l.status \in {"OPEN", "FOLLOWED"}

TypeOK ==
  /\ heap \in Seq(Repositories)
  /\ {repo, detectors, investigator} \subseteq DOMAIN heap
  /\ \A l \in leads : IsLead(l)
  /\ cases \in [Investigated -> Nat \cup {None}]
  /\ steps \in [Investigated -> Nat \cup {None}] /\ evidence \in [Investigated -> Nat \cup {None}]
  /\ locks \in [Investigated -> Threads \cup {None}]
  /\ pc \in [Threads -> Places]
  /\ request \in [Threads -> Swaps \cup {"start", "inject", None}]
  /\ arg \in [Threads -> Investigated \cup {None}]
  /\ scenario \in [Threads -> Scenarios \cup {None}]
  /\ data \in [Threads -> Nat \cup {None}]
  /\ todo \in [Threads -> Seq({Kinds[i] : i \in DOMAIN Kinds})]
  /\ detected = [t \in Threads |-> detected[t]] /\ lead = [t \in Threads |-> lead[t]]
  /\ \A t \in Threads : \A l \in detected[t] : IsLead(l) /\ l.status = "OPEN"
  /\ run \in [Threads -> Nat \cup {None}]
  /\ answer \in [Threads -> {"OK", "NOT_FOUND", None}]
  /\ requests \in 0..MaxRequests /\ runs \in Nat
  /\ swapped \in BOOLEAN /\ refreshed \in BOOLEAN

Filing(l) == \E t \in Threads : pc[t] \in {"case", "steps", "evidence"} /\ arg[t] = l

Swapping == \E t \in Active : request[t] \in Swaps

(* Two investigations of one lead never mix their records: once the filing
   is over, the case, the steps and the evidence on file are of one run and
   the lead of it is on file, as long as no clear or load came in between. *)
CasesAreWhole ==
  ~swapped /\ ~Swapping =>
    \A l \in Investigated :
      ~Filing(l) =>
        /\ steps[l] = cases[l] /\ evidence[l] = cases[l]
        /\ cases[l] # None => \E m \in leads : m.lead_id = l

(* When nothing is under way, every lead the detectors find in the data of
   the service is on file, and to be pursued if it is, whatever injections
   ran into one another: one that finds the first record of its scenario
   there adds nothing and may answer before the last is in, but the one that
   adds it runs the detectors after.  Its score may be an older one: what an
   injection found before another added its records can be filed after. *)
LeadsAreCaughtUp ==
  ~swapped /\ refreshed /\ Active = {} =>
    \A l \in FoundIn(heap[repo]) :
      \E m \in leads :
        m.lead_id = l.lead_id /\ (l.risk_score >= PursueThreshold => m.risk_score >= PursueThreshold)

(* A lead is FOLLOWED only when there is a case of it, or one is about to
   be filed, as long as no clear or load came in between. *)
FollowedLeadsHaveCases ==
  ~swapped /\ ~Swapping =>
    \A l \in leads :
      l.status = "FOLLOWED" => Filing(l.lead_id) \/ cases[l.lead_id] # None

=============================================================================
