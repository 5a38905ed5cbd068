--------------------------- MODULE GeminiRouting ---------------------------
(***************************************************************************)
(* GeminiClient.generate and the router and ledger it shares with every    *)
(* other request thread (agent/gemini_client.py, provider_router.py,       *)
(* usage_ledger.py).  The ledger locks each of its operations; nothing     *)
(* locks the sequence budget check, spend read, choice, HTTP call, record. *)
(*                                                                         *)
(* Money is counted in calls: every 200 costs estimated_cost_per_call_usd  *)
(* and nothing else costs anything, so the ledger is kept as the projects  *)
(* of its charged entries.  Left out: error entries and routing events,    *)
(* which only reports read, and the active provider, which only they name; *)
(* check_health, which selects without calling generateContent; the        *)
(* explicit key, which only the evaluation uses.                           *)
(***************************************************************************)
EXTENDS Naturals, Sequences, FiniteSets

CONSTANTS
  Threads,    \* request threads that may be inside generate
  Providers,  \* the configured projects: those that resolve an API key
  Rank,       \* the order of their ids
  SessionCap, \* max_session_budget_usd of each, in calls
  HardStop,   \* hard_budget_stop_usd, in calls
  None        \* no provider

ASSUME RoutingAssumption ==
  /\ IsFiniteSet(Threads) /\ Threads # {}
  /\ IsFiniteSet(Providers)
  /\ Rank \in [Providers -> Nat]
  /\ \A p, q \in Providers : Rank[p] = Rank[q] => p = q
  /\ SessionCap \in [Providers -> Nat]
  /\ HardStop \in Nat
  /\ None \notin Providers

VARIABLES
  failed,    \* ProviderRouter._failed, never cleared
  ledger,    \* the project of every charged entry, in order
  pc,        \* where each thread is in generate
  attempts,  \* its loop counter
  seen,      \* the spend_by_project it last read
  chosen,    \* the provider it selected last
  outcome,   \* what the HTTP call to it gave
  result,    \* what its last request was answered with
  tried,     \* history: the providers its current request has called
  billed     \* history: 200 responses received

vars == <<failed, ledger, pc, attempts, seen, chosen, outcome, result, tried, billed>>

(* A 200 may carry an answer, no candidate, or a body that does not parse,
   which _generate_with_key reports as a transport error. *)
Charged == {"answer", "no_candidate", "bad_body"}
Failover == {"bad_body", "http_429", "http_5xx", "transport_error"}
Outcomes == Charged \cup Failover \cup {"http_4xx"}

TotalSpend == Len(ledger)

Spend(p) == Cardinality({i \in DOMAIN ledger : ledger[i] = p})

BudgetExhausted == TotalSpend >= HardStop

NoSpend == [p \in Providers |-> 0]

(* while attempts < max(1, configured + 1) *)
MaxAttempts == Cardinality(Providers) + 1

Init ==
  /\ failed = {}
  /\ ledger = << >>
  /\ pc = [t \in Threads |-> "idle"]
  /\ attempts = [t \in Threads |-> 0]
  /\ seen = [t \in Threads |-> NoSpend]
  /\ chosen = [t \in Threads |-> None]
  /\ outcome = [t \in Threads |-> "none"]
  /\ result = [t \in Threads |-> "none"]
  /\ tried = [t \in Threads |-> {}]
  /\ billed = 0

Goto(t, label) == pc' = [pc EXCEPT ![t] = label]

(* generate returns; its locals are gone. *)
Answer(t, what) ==
  /\ result' = [result EXCEPT ![t] = what]
  /\ attempts' = [attempts EXCEPT ![t] = 0]
  /\ chosen' = [chosen EXCEPT ![t] = None]
  /\ tried' = [tried EXCEPT ![t] = {}]
  /\ Goto(t, "idle")

Continue(t, label) == Goto(t, label) /\ UNCHANGED <<attempts, chosen, result, tried>>

(* generate is called. *)
Ask(t) ==
  /\ pc[t] = "idle"
  /\ Continue(t, "gate")
  /\ UNCHANGED <<failed, ledger, seen, outcome, billed>>

(* The budget check in front of the loop. *)
Gate(t) ==
  /\ pc[t] = "gate"
  /\ IF BudgetExhausted THEN Answer(t, "budget_stop")
     ELSE Continue(t, "loop")
  /\ UNCHANGED <<failed, ledger, seen, outcome, billed>>

(* Fault: select_provider trusts the check in front of the loop. *)
AttemptUnchecked(t) ==
  /\ pc[t] = "loop"
  /\ attempts[t] < MaxAttempts
  /\ attempts' = [attempts EXCEPT ![t] = @ + 1]
  /\ Goto(t, "selecting")
  /\ UNCHANGED <<failed, ledger, seen, chosen, outcome, result, tried, billed>>

(* A turn of the loop, and the budget check that opens select_provider. *)
Attempt(t) ==
  /\ pc[t] = "loop"
  /\ attempts[t] < MaxAttempts
  /\ IF BudgetExhausted THEN Answer(t, "no_provider")
     ELSE /\ attempts' = [attempts EXCEPT ![t] = @ + 1]
          /\ Goto(t, "selecting")
          /\ UNCHANGED <<chosen, result, tried>>
  /\ UNCHANGED <<failed, ledger, seen, outcome, billed>>

ReadSpend(t) ==
  /\ pc[t] = "selecting"
  /\ seen' = [seen EXCEPT ![t] = [p \in Providers |-> Spend(p)]]
  /\ Continue(t, "choosing")
  /\ UNCHANGED <<failed, ledger, outcome, billed>>

(* Faults: the session budget is not looked at, or read off by one. *)
CandidatesUncapped(t) == Providers \ failed
CandidatesShort(t) == {p \in Providers \ failed : seen[t][p] + 1 < SessionCap[p]}

Candidates(t) == {p \in Providers \ failed : seen[t][p] < SessionCap[p]}

(* Fault: the projects are tried in the order of their ids. *)
CheaperByName(t, p, q) == Rank[p] <= Rank[q]

(* candidates.sort by (used, id) *)
Cheaper(t, p, q) ==
  \/ seen[t][p] < seen[t][q]
  \/ seen[t][p] = seen[t][q] /\ Rank[p] <= Rank[q]

Pick(t) ==
  /\ \E p \in Candidates(t) :
       /\ \A q \in Candidates(t) : Cheaper(t, p, q)
       /\ chosen' = [chosen EXCEPT ![t] = p]
  /\ Goto(t, "calling")
  /\ UNCHANGED <<attempts, result, tried>>

(* Fault: waits for a project to become eligible. *)
ChooseOrWait(t) ==
  /\ pc[t] = "choosing"
  /\ \/ /\ Candidates(t) = {}
        /\ Continue(t, "selecting")
     \/ Pick(t)
  /\ seen' = [seen EXCEPT ![t] = NoSpend]
  /\ UNCHANGED <<failed, ledger, outcome, billed>>

Choose(t) ==
  /\ pc[t] = "choosing"
  /\ \/ /\ Candidates(t) = {}
        /\ Answer(t, "no_provider")
     \/ Pick(t)
  /\ seen' = [seen EXCEPT ![t] = NoSpend]
  /\ UNCHANGED <<failed, ledger, outcome, billed>>

(* The POST comes back, or times out after 30 s. *)
Respond(t) ==
  /\ pc[t] = "calling"
  /\ \E o \in Outcomes :
       /\ outcome' = [outcome EXCEPT ![t] = o]
       /\ billed' = IF o \in Charged THEN billed + 1 ELSE billed
  /\ tried' = [tried EXCEPT ![t] = @ \cup {chosen[t]}]
  /\ Goto(t, "recording")
  /\ UNCHANGED <<failed, ledger, attempts, seen, chosen, result>>

Classify(t) ==
  IF outcome[t] \in Failover THEN Continue(t, "failing")
  ELSE Answer(t, IF outcome[t] = "answer" THEN "model" ELSE "fallback")

(* Fault: the call is recorded once its body has parsed. *)
RecordParsed(t) ==
  /\ pc[t] = "recording"
  /\ ledger' = IF outcome[t] \in Charged \ {"bad_body"} THEN Append(ledger, chosen[t])
               ELSE ledger
  /\ Classify(t)
  /\ outcome' = [outcome EXCEPT ![t] = "none"]
  /\ UNCHANGED <<failed, seen, billed>>

(* record_success, before the body is parsed, then the answer is classified. *)
Record(t) ==
  /\ pc[t] = "recording"
  /\ ledger' = IF outcome[t] \in Charged THEN Append(ledger, chosen[t]) ELSE ledger
  /\ Classify(t)
  /\ outcome' = [outcome EXCEPT ![t] = "none"]
  /\ UNCHANGED <<failed, seen, billed>>

(* Fault: the project is not marked. *)
FailUnmarked(t) ==
  /\ pc[t] = "failing"
  /\ Continue(t, "loop")
  /\ UNCHANGED <<failed, ledger, seen, outcome, billed>>

(* mark_failure.  The provider it selects next is only reported. *)
Fail(t) ==
  /\ pc[t] = "failing"
  /\ failed' = failed \cup {chosen[t]}
  /\ Continue(t, "loop")
  /\ UNCHANGED <<ledger, seen, outcome, billed>>

Generate(t) ==
  \/ Gate(t)
  \/ Attempt(t)
  \/ ReadSpend(t)
  \/ Choose(t)
  \/ Respond(t)
  \/ Record(t)
  \/ Fail(t)

Next == \E t \in Threads : Ask(t) \/ Generate(t)

(* A thread inside generate keeps running; the HTTP call has a timeout. *)
Spec == Init /\ [][Next]_vars /\ \A t \in Threads : WF_vars(Generate(t))

-----------------------------------------------------------------------------
Labels == {"idle", "gate", "loop", "selecting", "choosing", "calling", "recording", "failing"}

TypeOK ==
  /\ failed \subseteq Providers
  /\ ledger \in Seq(Providers)
  /\ pc \in [Threads -> Labels]
  /\ attempts \in [Threads -> 0..MaxAttempts]
  /\ seen \in [Threads -> [Providers -> Nat]]
  /\ chosen \in [Threads -> Providers \cup {None}]
  /\ outcome \in [Threads -> Outcomes \cup {"none"}]
  /\ result \in [Threads -> {"none", "budget_stop", "no_provider", "model", "fallback"}]
  /\ tried \in [Threads -> SUBSET Providers]
  /\ billed \in Nat

(* Threads that passed their last budget check and may still be charged. *)
Committed ==
  {t \in Threads :
     \/ pc[t] \in {"selecting", "choosing", "calling"}
     \/ pc[t] = "recording" /\ outcome[t] \in Charged}

(* The hard stop is overshot by less than one call per concurrent request. *)
OvershootBounded == TotalSpend < HardStop + Cardinality(Threads)

(* So is the session budget of every project. *)
SessionOvershootBounded ==
  \A p \in Providers : Spend(p) < SessionCap[p] + Cardinality(Threads)

(* Load is spread: a project is ahead of one that could have been used
   instead by at most a call per concurrent request, stale reads or not. *)
BalancedLoad ==
  \A p, q \in Providers :
    q \notin failed /\ Spend(q) < SessionCap[q] => Spend(p) <= Spend(q) + Cardinality(Threads)

(* A request never calls the same project twice: a failover moves on. *)
FailoverMovesOn == \A t \in Threads : pc[t] = "calling" => chosen[t] \notin tried[t]

(* recovery-runbook section 2: the offline fallback for want of a provider
   is given when none is healthy and within budget, and it stays that way. *)
NoProviderMeansNone ==
  \A t \in Threads : result[t] = "no_provider" =>
    BudgetExhausted \/ \A p \in Providers : p \in failed \/ Spend(p) >= SessionCap[p]

(* Every 200 is charged, whatever its body and whoever else is recording. *)
EveryCallCharged ==
  billed = TotalSpend
             + Cardinality({t \in Threads : pc[t] = "recording" /\ outcome[t] \in Charged})

(* Every request is answered. *)
EveryRequestAnswered == \A t \in Threads : pc[t] = "gate" ~> pc[t] = "idle"
=============================================================================
