# TrueLock, modelled in TLA+

TrueLock is a forensic auditor: detectors turn bank, invoice and tax records into
*leads*, an agent investigates a lead in a bounded loop of tool calls that a Gemini
model may steer, and the outcome is stored as a case with its evidence and its
timeline. This directory holds TLA+ models of the parts where order, budgets,
stale reads and concurrency decide whether the outcome is right, the TLC runs that
check them on small instances, and TLAPS proofs for every value of the constants.

Paths below are relative to `src/backend/src/truelock/` unless they start with `docs/` or `scripts/`.

## 1. The system

| Component | State it keeps | Operations | Where it is hard |
|---|---|---|---|
| Forensic investigator (`agent/investigator.py`, `evidence/exposure.py`) | step count, seen call keys, seen source ids, context (trail, root, payment, counterparties, exposure, hypothesis), evidence, steps | `investigate`: select, validate, execute, reduce, decide; `build_case` | two budgets meeting the plan at the last step; a model that may propose any valid call; results that overwrite each other; the amount reported |
| Forensic tools (`agent/tools.py`) | none | five tools, argument validation, error envelope | breadth-first trace over cyclic money flows |
| Gemini client, router, ledger (`agent/gemini_client.py`, `provider_router.py`, `usage_ledger.py`) | failed projects, charged calls | `generate` with failover; `select_provider`, `mark_failure`, `record` | shared by all request threads; check-then-act on two budgets |
| Investigation service (`services/investigation_service.py`) | in-memory leads, cases, steps; per-lead locks | `start_investigation`, `refresh_leads`, `get_lead` | fingerprint, lookup, run and persist are separate transactions |
| PostgreSQL repositories (`database/repositories/postgres.py`, `src/database/migrations`) | the schema | `persist_investigation_result`, `upsert_detector_leads`, `clear_analysis`, `wipe_workspace`, `reset_canonical_demo`, read models | idempotency keys, `ON CONFLICT DO NOTHING`, multi-transaction resets |
| Import pipeline (`services/import_service.py`, `seeder/ingestion`) | source files, rejections, records | three imports | files recognised by digest, records looked up one by one while injections and wipes commit; one bad row or a crash loses more than itself |
| Demo injection (`services/demo_injection_service.py`, `seeder/injection_scenarios.py`) | none of its own | inject, clear, load | runs while investigations run; holds one connection and wants another |
| In-memory repositories (`database/repositories/memory.py`) | the records, in dictionaries | `load`, `add`, `list` | shared by all threads without a lock |
| Observability (`services/observability_service.py`) | event log in memory and in the database | `emit`, `list_events`, `clear` | dual write, one side may fail, the two are cleared by different hands |
| Case questions (`services/case_service.py`) | questions with what their answers rest on | ask | refers to steps and evidence a clear deletes |
| Detection (`detection/`) | none | thirteen rules, aggregation into leads | thresholds, lead identity, records that arrive in any order |
| API, policy and evaluation, seeder, domain schemas, frontend | little or none | | thin over the above |

How they interact. A request thread of the API calls the service, which runs the
investigator over the repositories; every turn of the investigator may call
`GeminiClient.generate`, whose router and ledger are shared by all threads. The
result goes to PostgreSQL in one transaction, and the read model answers per case.
Imports, injections and resets change the records underneath and refresh the leads.

What makes each part correct. The investigator: its timeline is a run of FOLLOW
steps within the budget, one deciding step and a verdict that agrees with it; no
call runs twice; the amount is that of one root transaction and hops are never
added up; the evidence asked for by `agent/policy/v1.md` is there. The router:
budgets are respected up to the calls in flight, load is spread, a failover moves
on and ends, every charged call is recorded. The store: one result per lead and
dataset, an answer that belongs to the lead asked about, a reset that leaves
nothing half done. Imports: every record a file is credited with on record, counts that
are those of the tables, every refusal on record, nothing answered before it is screened. Detection: context is never pursued, no
accusation lost to another. The desk: what a reader was told stays on the timeline
and on record. `PROJECT.json` lists the hazards one by one, at their lines.

## 2. The modules

| Module | What it is |
|---|---|
| `CanonicalData` | the records the tools read, as constants with the assumptions the repositories guarantee |
| `MoneyTrail` | `_trace_outgoing_funds`, `_select_cycle_path` and the trace branch of `_update_context_from_tool`, as functions of the records and of what `list_outgoing` answers |
| `InvestigationProtocol` | abstract: what an investigation promises to the reader of its timeline |
| `Investigator` | the loop, one action per phase and way out of it; implements `InvestigationProtocol` |
| `InvestigationPolicy` | what the documents ask of a finished investigation, over `Investigator` |
| `MCInvestigator` | one dataset, the leads and the proposals of the model, for TLC |
| `InvestigatorProofs` | the theorems about `Investigator` and, in its second part, about the traces it reads |
| `GeminiRouting` | threads inside `generate`, the router and the ledger |
| `MCGeminiRouting`, `GeminiRoutingProofs` | its instance for TLC and its theorems |
| `MoneyTrailReference` | a trace asked of any repository, and what `MoneyTrail` promises of it, against definitions that depend on no order of search |
| `MCMoneyTrail` | every flow of five transfers as a repository, for TLC |
| `ResultArchive` | abstract: what the store promises about investigation results |
| `CaseStore` | the tables of the case and the requests that work on them, one action per transaction; implements `ResultArchive` |
| `CaseStoreDocs` | what a document says of the store and the code does not keep |
| `MCCaseStore`, `CaseStoreProofs` | the instance of `CaseStore` for TLC and its theorems |
| `ImportPipeline`, `ImportPipelineProofs` | parsers, imports, the hidden injection and the wipe, over one pool of connections; theorems |
| `MCImportPipeline` | files for TLC, after `data/fixtures` and the ones they miss |
| `DetectionRules` | the thirteen rules, the aggregation and the identity of leads, as functions of a dataset |
| `DetectionData` | the records of the demo, the injections and the detector scenarios |
| `Detection` | a repository that fills up record by record under the detectors |
| `MCDetection` | the corpus and its answer keys |
| `DetectionRulesProofs` | lemmas: what each rule can say, the leads made of it and their scores, for any dataset |
| `DetectionProofs` | the theorems about `Detection`, for any records |
| `MemoryWorkspace`, `MCMemoryWorkspace`, `MemoryWorkspaceProofs` | the service without a database, composed with the detectors; its instance for TLC, its theorems |
| `CaseDesk`, `MCCaseDesk`, `CaseDeskProofs` | timeline, questions and active lead beside the case in PostgreSQL; instance and theorems |

`InvestigationPolicy` extends `Investigator`, which takes its data from
`CanonicalData` and, in the runs, its traces from `MoneyTrail`; `CaseStore` uses the
investigator as what it is to the service, a source of outcomes (`Outcomes`). `Detection` and
`MemoryWorkspace` run `DetectionRules` over the datasets of `DetectionData`.
`CaseStore`, `ImportPipeline` and `CaseDesk` look at the same PostgreSQL case, each
with the detail its questions need: results and leads, files and records, events and questions.

In every module an operator under a comment "Fault:" is a plausible bug of the definition
after it; `mutants` in `PROJECT.json` names the property that catches it.

### Investigator

`phase` is the place in the loop: `select` (top of the `while`, lines 142-178),
`validate` (180-216), `execute` (218-242), `decide` (280-325), `build`
(343-344), `done`. `ctx` is `InvestigationContext` without the ids and texts no branch
reads; `calls` and `sources` are `seen_call_keys` and `seen_source_ids`;
`evidence` is the collector's list as a set, since a record is only added when its
source is new; `steps` is the timeline, with `by` telling which guard recorded a
step. A list of RFCs in a call is kept as the number of times each occurs and a
label for its order, which is all the call key distinguishes.

The tools come in through the constant operator `TrailOf(account, depth, root)`: the
digest of a trace. The proofs of the first part assume only that it is well formed
(`TrailAssumption`); the run substitutes `ReduceTrace` of `MoneyTrail` over its own listings
(`MCTrailOf`), so what TLC explores is the walk the code makes, and the second part proves of
`ReduceTrace` what the first assumes. `ToolError` is any exception of a repository
inside a tool, `UnknownRoot` the exposure of a transaction that does not exist.
`SelectGemini` is enabled whenever a client is configured and may propose any call
of `GeminiCalls`; `SelectPlanned` stays enabled beside it, which covers the
fallbacks and the invalid proposals. Time runs out nondeterministically.

`MoneyTrailReference` asks for one trace: `listing` is what `list_outgoing` answers of every account
(a member of `Repositories`), `limit` the `max_depth` of the call, `traced` the transfers it returns
and `kept` what the context keeps of them.

Left out as unreachable: the repeated-result-hash exit (lines 226-241), because
the hashed result contains the call's own arguments and a repeated call has already
been turned away; `if planned is None: break`, which is what `PlanNeverRunsDry`
proves. Exceptions of `payments.get` outside the tools leave `investigate`
altogether and are not modelled.

### GeminiRouting

`pc[t]` is where a request thread stands in `generate`; each action is one critical
section of the ledger, or one step on the thread's own locals. Money is counted in
calls: a 200 costs `estimated_cost_per_call_usd`, everything else nothing. `tried`
and `billed` are history variables. `mark_failure` selects a next provider only to
report it and is just the write of the failed set. The order of `record_success`
before `resp.json()` is kept: a body that does not parse has been charged and
fails over.

### CaseStore

The state is the case in PostgreSQL and, next to it, the threads that serve
requests. `caseRow` is the row of `CASE-DEMO-001` by what its metadata remember of the
last verdict; `files` are the rows of `source_files`, whose records come and go with
them; `leads` is the status column of `leads`, `linked` their rows in `lead_entities`,
which restrict a purge; `results` is `investigations` joined with its thread, steps,
evidence and finding, in the order of `created_at`. `locks` is `_lead_locks`; it lives in the
process, as `pc`, `op` and the variables of a request do, and a `Crash` loses all of them.

Each action is one transaction of `database/repositories/postgres.py`, or a step of
the service between two of them, in the order of the code:

- start: `Lock`, `ReadFingerprint`, `Replay` or `NothingToReplay`, `GetLead` (with
  `Detect` and `Upsert` for an unknown lead), `Investigate`, `EnsureLead`,
  `CheckKey`, `Commit` or `CommitFails`, `Read`;
- wipe: `Clear`, `Purge`, `EnsureCase`; load: `Clear`, `Purge`, `Reseed`, `Strip`, `Detect`, `Upsert`;
- inject and import: (`EnsureCase`,) `StoreFile`, `Detect`, `Upsert`.

A transaction that meets a constraint of the schema fails its request and changes
nothing: `Insertable` states the constraints a persist can meet
(`evidence_record_identity_uq` with the dangling link it leads to,
`findings_case_display_uq`, the gate of a supported finding, the foreign keys of case
and lead), `Purgeable` the `ON DELETE RESTRICT` ones. A lead is asked for by a spelling:
its external key, or the display id or uuid of one particular row; `RowOf` says which row a lead
has, because the seed's row and the one the detectors insert have different uuids.

Simplifications. The several reads of one read model are one action (they run in
one transaction each, and only their union is reported). `resolve_lead` and the
upsert at the head of persist are one step, `EnsureLead`. The seed brings one
investigated lead; its control lead is left out. What an investigation comes to is any member of
`Outcomes` whose facts are on record at the moment it runs. Imports run on the event loop
(`_persist_upload` is `async` and calls the service without a thread): they overlap with each
other only up to the upload, which `OnTheLoop` says; all other handlers run on
the thread pool. Persist and `clear_analysis` lock the tables in opposite orders, so
that either may be the victim of a deadlock: `CommitFails` and `ClearFails`.

### ImportPipeline

`files`, `rejections` and `rows` are the tables an import writes; `raised` is the set of
rows some detector run has read and filed leads from. A file is its header, its
lines and its encoding (`Content`), a cell is a value, `Blank` or `Bad`; `Accepted` is what
the three parsers make records of, `Insertable` what the CHECK constraints ask on top. The
handlers are coroutines without an `await` between upload and answer (`OnTheLoop`).

An import, an injection and a wipe are each one transaction at READ COMMITTED, the
server's default (`postgres.py:58` sets no other), and imports overlap with the other two, which
run on threads. So every statement that reads or writes a record is an action, and `txn` is what the
transaction of a thread holds that nobody else sees: an import's remaining `lines`, its
`duplicates`, the `rows` inserted, for a wipe the rows and `files` deleted.

- An import is `EnsureCase`, `LookUp` (the digest), `InsertSourceFile`, then per record
  `SelectRecord` and, unless it was found, `InsertRecord`, then `CommitImport`, `Detect`
  and `Upsert`. `OnRecord` is what a statement sees: what is committed by then and what is its own. Every
  record has a key that its INSERT is `ON CONFLICT DO NOTHING` on: a primary key computed from the
  case and the record's own key (`import_service.py:200`, `:292`, `:405`) and, for transfers, a
  unique index (`0008_persistence_and_idempotency.sql:7`). A row another open transaction has inserted
  or deleted makes it wait (`Locked`). `ParseFails` and `InsertRecordFails` are the two ways a file is lost.
- An injection is `Begin`, `InsertFile`, `ReadCompany`, `InsertTransfers` and `CommitInjection`: the
  first connection is held over the second one's `fetch_one`, and `PoolTimeout` is how it ends when there is none.
- A wipe is `Clear`, `Purge` (the DELETEs), `PurgeCommits` or `PurgeFails`, and `EnsureCase`. All the
  DELETEs read in the one action `Purge`; a transaction that commits between two of
  them either has no rows the earlier one missed, and then comes out as one that commits before
  `Purge`, or has some, and then the DELETE of what they refer to fails, which `PurgeFails` allows.

The entities, accounts and snapshots are left out, and what depends on them is left open: a wipe
may fail on those of an import or injection under way, and an import of transfers or an injection
may fail on those of a wipe or of one another (`PurgeFails`, `Collides`). `UpsertFails` is the
unique violation of two detector runs that both found the same lead absent
(`postgres.py:609` has no `ON CONFLICT`); `CaseStore` has the same action.

`overtaken` is history, and no action reads it: the uploads whose import was
under way, or on record and out of the DELETEs' sight, when a wipe committed. Without it
`CreditedRecordsAreThere` is false of the code, see section 5.

### DetectionRules and Detection

Each rule is the set of its signals, each signal its detector, entity and source ids;
money is in hundredths of pesos or thousandths where a ratio is compared, dates are numbers of hours where
rules compare times and of days where they compare days. Identifiers are strings that
TLA+ cannot order, so `Before` is a parameter: the order of their characters. `Page` is
the default limit of `list()`, which the detectors do not override. Scores are
integers in ten-thousandths. `Add` is one record's arrival, with a run of all rules and
`refresh_leads` after it.

### MemoryWorkspace

`heap` holds the repositories made so far, each by what was loaded into and added to it, because a
load makes a new one while others still use the old; `repo`, `detectors` and
`investigator` are the references of the service to it. One action per statement that
reads or writes something shared. The rules are evaluated for real on the records a
repository holds at that moment. An investigation is only its number: what it
does is `Investigator`'s.

### CaseDesk

`persisted` and `memory` are the two copies of the event log by their key; `Record`,
`Persist`, `Lose` and `Proceed` are the steps of one `emit`, and a handler emits its
events one after another (`todo`). `Shown` is `list_events`. Clear, load and reset are
one action per transaction, a question is `ReadEvidence`, `ReadSteps` and `PersistQuestion`. How a run is
filed (locks, fingerprints, keys) is `CaseStore`'s and one step here. `told`, `lost`, `disturbed` and
`mixed` are history.

## 3. The runs

| Run | What it shows |
|---|---|
| `Investigator` | all safety properties, the refinement and termination on all five shapes of trail: with a model free to propose twelve calls (repeats, reorderings, other accounts, an invented RFC, a ghost root), and without one, where the fixed plan decides every lead and cites its trail |
| `GeminiRouting` | two threads, two projects: overshoot, load, failover, charging and answering under every interleaving |
| `MoneyTrail` | the trace returns exactly the transfers in reach, each once and nearest first; a round trip is found if there is one; what the investigator keeps of it is its own |
| `CaseStore` | two threads and a restart over an empty and a seeded database: leads agree with their results, runs are not repeated, findings keep their records, nothing re-opens, the table of investigations implements `ResultArchive` |
| `CaseStoreAnswers` | the same with a lead spelled in two ways: one result per lead and dataset although the locks no longer exclude two runs, and every request is answered |
| `ReplayIsOfTheLead` | violated: a replayed investigation may be answered with another lead's finding (`postgres.py:682`) |
| `Imports` | two threads, a restart, duplicates, refused rows and wrong endpoints, transactions that interleave by their statements: what a file is credited with is on record unless a wipe overtook it, reports agree with the tables but for what an injection brought first, nothing answered unscreened, no wait for a connection without end |
| `FreshRunReplacesTheShell` | violated: a shell without evidence gives way to no later result of its dataset (`postgres.py:803`) |
| `RefusalsAreReported` | violated: one row the tables refuse takes the whole file and its refusals with it |
| `Detection` | twenty-six datasets, each in every order of arrival: answer keys, context that never accuses, accusations that neither hide each other nor go away |
| `MemoryWorkspace` | two threads investigate, inject, clear and load in memory: records of two runs never mixed, followed leads have their case, no lead missing once all is quiet |
| `CaseDesk` | two threads start, ask, clear, load and reset under a failing write or a restart: what was told is shown and on record, clearing is not refused, the active lead has a run |

Bounds. The dataset of `MCInvestigator` has five disconnected groups of three
accounts: a round trip whose first leg pays an invoice, a payer and one supplier
with two accounts, a round trip beside an invoiced payment, and two
pass-throughs. Between them the branches of the reduction are all taken: cycle or
none, payment in the focus or elsewhere or unresolvable, return leg or none,
accounts without a holder. The run
has all eight leads, each with and without the model, and four steps: the plan itself
is at most four calls long, so every prefix of it can be combined with every
proposal, and offline the 69-B check takes the last step it may take. Other budgets, three
steps among them, where the check has to give way to the exposure, are the theorems' business.
`MCGeminiRouting` has session budgets of two calls each under a hard
stop of three, so either kind of budget may be the one that ends a request, and
two threads are enough to make every read stale; larger numbers are the theorem's
business. The ledger needs no bound of its own: it ends when the budgets do.
`MCMoneyTrail` takes all flows of five transfers between three accounts, with any one of them or none
settling a payment, and all depths up to three. A repository lists the transfers of each account apart,
so that flows which differ in how transfers of different accounts are numbered are one, and the
transfers are numbered account by account; the trace starts from the first account, since to start
from another one is the same flow with the accounts renamed. Five transfers hold a cycle with a branch or a doubled leg, and
three accounts are the least that make a round trip with an intermediary. Cycles of more than
three accounts, longer lists and greater depths are the theorems' business.

`MCCaseStore` has two threads, at most `MaxRequests` requests in all (four; three where a
liveness property is checked) and `MaxCrashes = 1`. Four requests are enough for a
run, a change of the dataset, a second run and a reset to overlap or follow one another; three of
them already give the counterexamples of the two violated runs, to `FreshRunReplacesTheShell` in one thread. The leads are the one the
demo raises and the one only the injected scenario raises; the outcomes are a
supported round trip, one with too little evidence, a branch that leads nowhere and an empty
shell. There are two initial databases, the bare schema and the one `scripts/seed_demo.sh`
leaves. Deadlock is not checked in these runs because the requests run out;
`EveryRequestEnds` is what says that nothing hangs.

`MCImportPipeline` has three requests and one restart: two uploads and what comes between. Its files repeat a
transfer of one another, hold a row to be refused and one of nothing, come to the wrong
endpoint, list a supplier twice, are the same invoice twice (once in another encoding), cannot be decoded,
or are empty, and one of their transfers is also in the injection: two uploads with an injection or a wipe in
between are what the hazards of a transaction read statement by statement need. The pool has two
connections for two threads, the least with which injections exhaust it; the
code's is five. `MCDetection` takes eleven positive, ten negative and five
further datasets; pages of five instead of a hundred make the larger ones overflow a
page. `MCMemoryWorkspace` has three requests over the demo and both scenarios with the
code's page of a hundred. `MCCaseDesk` has three requests, one fault (a write that fails or a
restart) and pages of eight events; it starts from the desk an earlier process left with one
investigated lead, so that a fourth request's worth of history is there from the start.
The threads of `CaseDesk` are symmetric, and it checks no liveness.

Fairness. `Investigator` has weak fairness of its next-state relation: the loop runs on the
request's own thread and every tool call returns or raises. `GeminiRouting` has weak
fairness of each thread inside `generate`: the HTTP call has a timeout of 30 s and
the locks of the ledger are held for a few statements. Nothing is assumed of new requests. `CaseStore` has weak fairness of each thread's
work: a statement returns or fails, and PostgreSQL breaks deadlocks itself. Weak fairness is enough for
a thread that waits for a lock although others may take it first, since only
`MaxRequests` requests come; for an unbounded stream of them it would not be, and
`threading.Lock` does not promise more. `ImportPipeline` has the same
fairness for the same reason; that a thread waiting for a connection gives up is
`PoolTimeout`, the 30 s of the pool. `MemoryWorkspace`, `CaseDesk` and `Detection` state safety only.

## 4. The proofs

`InvestigatorProofs` proves, from the assumptions of `CanonicalData` and `Investigator`:

- `TypeCorrect`. `TypeInv` is `TypeOK` with `ValidatedFirst`: past validation the
  pending call is a valid one, which the execute actions need in order to apply
  the records' functions to its arguments.
- `PlanHolds`: `PlanNeverRunsDry`. Inductive with `PlanInv`: at the top of the
  loop either nothing has been traced yet or the last decision was a FOLLOW taken
  with a next call at hand, and nothing between that decision and the top changes
  what the plan looks at.
- `CallsAreDistinct`: `NoCallRunsTwice`. `CallsInv` ties the executed steps and the
  call in progress to `calls`.
- `AmountIsTheRoot`: `SubstantiatedAmountIsTheRoot`. `ExposureInv`: an exposure in
  the context is that of the root in the context and of the only exposure record,
  and no further trace can replace the root, since the step that sets an
  exposure decides CONCLUDE at once.
- `OfflineCasesCiteTheirTrail`: `OfflineCitesTheTrail`. `CitesInv`: what is in the focus has its
  record once the trace is reduced, and the plan asks for the exposure only when every counterparty
  of the trail has been inspected; nothing else puts an exposure into the context.
- `OfflineInvestigationsAreDecided`: `OfflinePlanDecides`. `OfflineInv` follows the fixed plan through
  its stages (`Traced`, `Inspected`, `Checked`) and the call each leads to (`Turn`): every call gets
  somewhere, and the check is made only when a step is left over for the exposure. The root must
  name a transaction and no two accounts share a holder (`Usable`): otherwise the plan ends
  at an unknown root or asks for the same inspection twice.
- `InvestigatorRefinesProtocol`. `TimelineInv`: all but the last step are FOLLOW, their number is
  `stepCount` or one less depending on the phase, and only the build phase has a
  deciding step. Every action maps to Follow, Decide, Report or a stutter.

The second part is about the traces of `MoneyTrailReference`, for any records, repositories, origin
and depth (`TracesAssumption` asks only that `list_outgoing` answers, of an account, transfers that
leave it). `TraceInv` says that what is held is what the functions of `MoneyTrail` return, and the
rest is about those functions. What it computes is recursive, and the library's induction theorems are out of reach
(they take an operator). They are replaced by the least member of a set of
naturals (`Least`, from `WFMin`) and the form induction takes from it (`ByNaturals`, over a set
`Good`). The three recursive functions are of one shape or another for which that suffices: a recursion over
`0..n` is the start of one infinite iteration (`IteratesExist`, `RecursionIterates`); the search
calls itself only on longer paths and stops at five, so that it is settled from length four
downwards (`SettledSooner`); `FlattenSeq` is unrolled.

- `TracesAreBoundedReach`: `TraceIsBoundedReach`. `WalkInv`: after `n` hops the walk has seen what is within `n`
  of the account, its frontier is what is exactly so far away, and it holds the transfers of everything
  nearer, each once and nearest first. That a transfer occurs once is the code's check of what it has seen, not
  an assumption on the repositories.
- `CyclesAreFound`: `CycleIsFoundIfAny`; `RoundTripIsFound` says it of any list of transfers and any account. The walks of the reference are
  the paths (`WalksArePaths`); what the search finds from a path is `Sound`: nothing, or a round trip of two to
  five distinct transfers, and not nothing if some round trip begins with the path. That is so of a path
  if it is of every way on from it (`SearchedIsSound`), hence of the empty one.
- `DigestsTraceRoundTrips`: `DigestTracesTheRoundTrip`. The legs of a round trip are distinct and at least two, so
  that the last is not the root and brings the money back (`ReturnLeg`).
- `TracesReduceToDigests`: `TrailAssumption`, of `ReduceTrace`. What the first part proves therefore holds of
  the investigator with the traces of the code.

`GeminiRoutingProofs` proves every safety property of the router, from `RoutingAssumption`
alone. Three of them are counting arguments: threads that decided on what they read
and will act on it later are counted together with what is charged already, because
a charge moves one unit from the first to the second.

- `OvershootIsBounded`. Either no thread is past its last budget check (`Committed`), or
  `TotalSpend` plus their number stays below `HardStop + Cardinality(Threads)`.
- `SessionOvershootIsBounded`. `SessionInv` is the same per project, with
  `CommittedTo(p)`: who has chosen `p`, or may still choose it on what it has seen.
- `LoadIsBalanced`. `BalanceInv`: between two projects of which `q` is usable, `Spend(p)` and the
  threads that may still push `p` ahead of `q` come to at most `Spend(q) + Cardinality(Threads)`.
- `NoProviderIsTrue`. Inductive with `SeenBefore`: the spend a thread chooses by may be stale
  but is never more than the spend now, and what is used up stays so.
- `RequestsMoveOn`. `MovingOn`: a project a request has tried is marked failed, or is the one it
  is working on.
- `CallsAreCharged` is inductive as it stands.

`CaseStoreProofs` proves, for any number of threads, leads, spellings, files, requests
and restarts, and from `StoreAssumption` alone:

- `TypeCorrect`. `TypeInv` adds `InHand`, what a request has in hand at each place
  (a persist needs an outcome, a lookup a fingerprint), and that results have their
  case, without which a replay would have nothing to report.
- `NoLeadReopens` and `ResultsAreUnique`, which need no lock: `StoreStep` sums up what
  any transaction may do to results, leads and records.

Under `OneSpelling`, leads spelled by their keys as the application's own lists spell
them, also `RowsAgree`, `RunsAreNotRepeated`, `FindingsStand` and `StoreIsAnArchive`. The
invariant `StoreInv` joins `LockInv` (who is past the lock holds it), `NothingNewer`
(past the lookup the latest result of the lead is not of this dataset, or has no
evidence), `KeyIsFree` (at the commit the key is still free), the agreement of leads
with results and `FindingsFit`. `KeyIsFree` is what makes a commit append and not
merge, and it holds because two requests inside their locks are about different
leads; with a second spelling that fails, which is why the assumption is there. A
wipe or a reseed in between only shortens the table, and the seed's result is
under a fingerprint no request reads.

`ImportPipelineProofs` proves, for any files, threads, pool, requests and restarts:

- What the other two rest on, `SerialInv`: imports share the event loop (`OneAtATime`), so that a
  file that is being read has no report yet (`NotRead`); records come and go with their report
  (`RowsHaveFiles`); and an open transaction holds rows of its own only, a wipe rows of
  files it deletes too (`OwnRows`).
- `CreditedStays`: `CreditedRecordsAreThere`. The strengthening is `InProgress`: until a wipe ends,
  every line an import has left behind is visible to it. Only a wipe takes rows away, and then every
  import under way is overtaken.
- `CountsAreTrue`: `ReportsAreTheTables`. `Fresh`: what comes on record between the SELECT and the INSERT of
  a transfer is what an injection brings. `Tallies`: lines left, rows inserted and duplicates
  counted add up to the accepted lines, short of at most those transfers; each line moves one
  from one of these to another, which is what the lemmas on cardinalities are for.
- `AnsweredWhenScreened`: between its transaction and its answer a request has run the
  detectors over every row of its file, and a repeated upload does so again.

`CaseDeskProofs` proves, for any leads, runs, questions, failed writes and restarts:

- `TimelinesAreKept` and `LostEventsStay`, from the type invariant and what each action does.
- `ClearingSucceeds`. `Staged`: at each of its transactions a clear that runs alone has
  left no row behind that the next one's foreign keys refer to.
- `ShownLeadIsFiled` (`Presented`) and `AnswersStayOnRecord` (`RefersToFile`, `Answered`). The steps
  and evidence on file are flattened from the runs on file; that a flattened sequence has exactly
  the members of its parts is proved of the unrolled recursion, by its least counterexample
  (`WFMin` over the naturals).
- `ToldRunsStay`: `ToldRunsAreShown`. `LogInv`: while a request emits its run, the first events of
  the run are on the timeline in order (`Emitted`) and the others are still in its hands (`InRun`), whatever
  other requests write in between. The events of a run are found by the number of its request,
  which no other has (`Numbered`), and no clear takes from the timeline of the case; that needs the key
  of the case to be another than `DEMO` (`DeskAssumption`).

`DetectionProofs` proves, for any datasets and any order in which their records arrive, from
`NamesAssumption` (`Before` orders the identifiers) and `CorpusAssumption` (each dataset is what the
dictionaries of `memory.py` can hold: one record per identifier, with the fields the rules read). The
models of the rules are used as they are; what each says is first put into a lemma of its own, in
`DetectionRulesProofs`, which `MemoryWorkspaceProofs` uses too.

- `ContextStaysContext`: `ContextNeverAccuses`. The two context rules say at most one thing of an entity,
  so that no number of records adds up; `QuietInv` carries this from the leads of a run to those on file.
- `AccusationsStayOnFile`: `NoAccusationIsHidden`. Two leads of one run with one identifier are of the same
  detector, and their groups share the record the identifier is made from or are of two entities
  with one prefix. A run has finitely many leads, so that one of those that meet is filed last, and
  it scores no less.
- `MoreRecordsNeverExculpate`: `AccusationsOnlyGrow`. As long as no list is cut, each of the ten monotone rules
  makes at least as many signals of an entity from more records: a walk stays a walk, an economic
  root stays that of its cycle, a fan keeps its legs, a sum over more records is no smaller
  (an induction over subsets, `BySubsets`), and of duplicates every record but the first counts,
  whichever is first.

`MemoryWorkspaceProofs` proves, for any number of threads and requests, from `WorkspaceAssumption`,
`NamesAssumption` and `SeederAssumption`, which is about the records of the seeder in any mixture:

- `CasesStayWhole` and `FollowedForACase`. `TypeInv` holds that who works on a lead has its
  lock; hence `OneFiling`. `InOrder` follows a run through the three dictionaries (`Filed`) and a clear
  through the four (`Cleared`); `Alone` is why the two do not meet unless `swapped` records it.
- `LeadsCatchUp`: `LeadsAreCaughtUp`. `CaughtUp`: when nothing is being replaced, the detectors read the
  repository of the service, and what they would find in it is on file (`Covers`), or a request is
  under way that will still detect and file it (`Pending`), or none has filed anything yet; while something is
  replaced, `Renewing` says how far it has come. Overlapping injections are no obstacle, since each
  detects after the last record it adds. `KindDecides`: the rule a lead was found by decides whether
  it is to be pursued, so that an older score under the same identifier is on the same side of the
  threshold. For the rules above it that is a theorem about all data; of the timing rule, whose
  signals may add up, it needs that nobody is spoken of twice (`SeederAssumption`). That an emptied
  repository yields no lead is proved rule by rule.

`TypeCorrect` is proved of every component with threads or phases; `DataInv` and `CurrentInv` say more of
`Detection`. Type invariants are therefore not spent a run on; nor is `TimelinesOnlyGrow`.

Only model-checked:

- Liveness, which is out of the prover's reach: termination of the investigator,
  `EveryRequestAnswered` and `EveryRequestEnds`.
- `AnswerKeysHold`, which is about the concrete records of the corpus and has nothing to generalise.

## 5. Divergences without a run, and what is not modelled

Where the code does not do what a document, docstring or comment says. The models have
the behaviour; no property forbids it.

Investigator and router:

- `agent/policy/v1.md:34` asks of a round trip "at least one downstream hop": a model that
  proposes `calculate_exposure` first substantiates it without any (`investigator.py:365`).
- `agent/policy/v1.md:34` asks to "cite root bank movement": the root is the first invoiced
  payment of the whole trace when the cycle pays none, and only the cycle becomes
  evidence (`investigator.py:700`).
- `agent/policy/v1.md:37` asks of a pass-through its inbound root transfer: only outgoing
  funds are ever traced, so that the outbound leg is the root (`investigator.py:573`).
- `agent/policy/v1.md:28` keeps DISCARD for an empty trail: an empty trace of any account
  discards a lead with direct evidence on record (`investigator.py:604`).
- `investigator.py:352` promises "None when the plan is exhausted": with one RFC on two
  accounts the plan asks for the same inspection twice and the run escalates (`investigator.py:569`).
- `docs/contracts/evidence.md:42` wants every source to trace back to one a tool
  returned: counterparty records are made from the arguments (`investigator.py:819`).
- `docs/ops/recovery-runbook.md:33` says the agent cannot exceed the budget: it can, by
  less than one call per thread, which is what `OvershootIsBounded` proves (`gemini_client.py:125`).

Store:

- `docs/ops/recovery-runbook.md:40` says that starts of one lead are serialized: they are
  per spelling of it (`investigation_service.py:62`); `ResultsAreUnique` holds nevertheless.
- `postgres.py:782` says "Write one investigation atomically": after a change of the dataset,
  evidence equal to that of an earlier result is skipped and the link to it fails, and
  the investigation is lost (`postgres.py:872`).
- `postgres.py:440` says a wipe keeps an empty shell: its metadata still report the last
  verdict and amount (`postgres.py:446`).
- `docs/contracts/api.md:36` says a wipe leaves no leads: a request in flight may put its
  lead back (`postgres.py:446`).
- `postgres.py:471` says the seed's investigations are stripped after a reseed: between the
  two transactions a start request replays them (`postgres.py:482`).

Imports:

- `0004_canonical_financial_records.sql:58` says "UUID is deliberately indexed, not unique. Repeated UUIDs must
  remain visible to duplicate-import and duplicate-invoice detectors instead of being silently
  dropped": the import skips a UUID that is on file (`import_service.py:202`), and the primary key is
  computed from it with `ON CONFLICT DO NOTHING` (`:200`, `:219`), so that no import makes a second row.
- A wipe that ends between the SELECT of a duplicate and the commit deletes the row the duplicate was
  recognised by and not the file: it stays on record, credited with a record that is
  not, and its digest keeps it from being read again (`import_service.py:202`, `:118`).
- An injection that commits between the SELECT and the INSERT of a transfer makes `ON CONFLICT DO
  NOTHING` drop it uncounted: rows and `deduplicated` fall short of `accepted` (`import_service.py:280`, `:305`).
- Two requests that file the same new lead at once: the second gets a unique violation and answers 500,
  with its records on file (`postgres.py:609`).
- `_prior_report` (`import_service.py:115`) answers a repeated upload with the kind of the endpoint it
  is repeated at, not of the one that read it.
- A header with blanks around a name passes the check of required columns and then
  rejects every row (`bank_csv.py:77`).
- Two listings of one RFC on one date with different status: the second counts as a duplicate (`import_service.py:360`).
- Bank rows are booked at midnight, so that a pass-through within one day is not raised.

Detection:

- A lead raised on the way stays on file though the complete dataset raises none;
  `refresh_leads` never removes. "Identical datasets always produce identical scores" is so of
  one run, not of what is on file.
- `scoring/weights.py` puts single timing signals below pursuit; two of them reach 0.63.
- Rules read the first hundred records of each kind (`memory.py:23`).
- Cycles through one root, and suppliers that share twelve characters of their RFC, share a
  lead; `NoAccusationIsHidden` says what is left of them.

Memory mode:

- `docs/contracts/leads.md` has FOLLOWED follow OPEN: a refresh puts OPEN over it (`investigation_service.py:72`).
- Of two overlapping injections the slower may file older scores over newer ones; one
  that finds the scenario there answers before its records are all in.
- An investigation that ends after a clear brings its case back; readers between the
  writes of one see parts of two.

Desk:

- `docs/contracts/api.md:97` has the timeline of a case: it is the oldest hundred events
  (in the order they were written), and those of the case survive every wipe, so that new ones are not
  shown in the end. `PageLimit` bounds `ToldRunsAreShown`.
- A clear during which a question is asked fails on its RESTRICT keys and answers 500.
- Answers are stored as evidence-grounded also when there was no evidence.
- An event that was lost from the database is hidden while the case has any other there.

Not modelled: the frontend and the presenters (no state of their own); the read-only
handlers and record queries; routing events, metrics and `check_health` of the router; the
evaluation harness (scores finished runs); prompts, claims, hashes and ids; the
detail of records no rule reads.
