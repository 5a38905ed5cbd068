------------------------------ MODULE CaseStore ------------------------------
(***************************************************************************)
(* The case in PostgreSQL and the requests that work on it: starting an    *)
(* investigation (services/investigation_service.py), clearing, loading    *)
(* and injecting the demo (services/demo_injection_service.py), importing  *)
(* a file (api/app.py), over the transactions of                           *)
(* database/repositories/postgres.py.  Each action is one transaction, or  *)
(* one step between two of them; a transaction that violates a constraint  *)
(* of the schema fails the request and changes nothing.                    *)
(***************************************************************************)
EXTENDS Naturals, Sequences, FiniteSets

CONSTANTS
  Threads,        \* threads that serve requests
  Leads,          \* external lead keys
  Names,          \* spellings of a lead: its key, or the display id or uuid of a row
  SeedNames,      \* those of the row the seed inserts
  LeadOf,         \* the lead a spelling names
  DemoFile,       \* the source files of the seed, taken as one
  InjectedFiles,  \* source files of the injectable scenarios
  UploadedFiles,
  FactsOf,        \* the records a file brings
  Raises,         \* the leads the detectors raise on a file
  SeedLead,       \* the investigated lead of the seed
  Outcomes,       \* what an investigation can come to
  MaxRequests,    \* bound: requests asked in all
  MaxCrashes,     \* bound: restarts of the process
  Nobody, None, NoCase, Seed

Files == {DemoFile} \cup InjectedFiles \cup UploadedFiles

Facts == UNION {FactsOf[f] : f \in Files}

Verdicts == {"SUBSTANTIATED", "UNSUBSTANTIATED", "INSUFFICIENT_EVIDENCE"}

Decided == {"SUPPORTED", "REJECTED", "INSUFFICIENT_EVIDENCE"}

Operations == {"start", "wipe", "load", "import", "inject"}

ASSUME StoreAssumption ==
  /\ Leads \subseteq Names
  /\ LeadOf \in [Names -> Leads]
  /\ \A n \in SeedNames : n \in Names \ Leads /\ LeadOf[n] = SeedLead
  /\ \A l \in Leads : LeadOf[l] = l
  /\ DOMAIN FactsOf = Files
  /\ Raises \in [Files -> SUBSET Leads]
  /\ SeedLead \in Raises[DemoFile]
  /\ \A f \in Files : IsFiniteSet(FactsOf[f])
  /\ Cardinality(FactsOf[DemoFile]) >= 2
  /\ Outcomes \subseteq [verdict : Verdicts, facts : SUBSET Facts, steps : Nat \ {0}]
  /\ Nobody \notin Threads
  /\ Seed \notin Threads \cup Leads \cup {None}
  /\ None \notin Leads \cup Operations
  /\ None \notin Outcomes
  /\ NoCase \notin Verdicts \cup {"FRESH"}
  /\ \A data \in SUBSET Files : data \notin {Seed, NoCase, None}
  /\ Seed # NoCase
  /\ MaxRequests \in Nat
  /\ MaxCrashes \in Nat

VARIABLES
  (* the database *)
  caseRow,   \* NoCase, or the agent_status in the metadata of CASE-DEMO-001, "FRESH" if none
  files,     \* source_files; their records come and go with them
  leads,     \* status of every lead, "ABSENT" without a row
  linked,    \* leads with a row in lead_entities
  results,   \* investigations with thread, steps, evidence and finding, oldest first
  (* the process *)
  locks,     \* _lead_locks: who holds the lock of each spelling
  pc, op, arg,
  fp,        \* the fingerprint a start request has read
  found,     \* leads a detector run has returned
  work,      \* what its investigation came to
  row,       \* the row of its lead that persist has resolved
  answer,
  requests, crashes   \* history, for the bounds

db == <<caseRow, files, leads, linked, results>>
held == <<fp, found, work, row>>
vars == <<db, locks, pc, op, arg, held, answer, requests, crashes>>

Places == {"idle", "lock", "fingerprint", "lookup", "lead", "run", "ensure", "check", "commit",
           "read", "reread", "clear", "purge", "shell", "store", "reseed", "strip",
           "detect", "upsert", "done"}

-----------------------------------------------------------------------------
(* What the tables say. *)

Records == UNION {FactsOf[f] : f \in files}

Suspects == UNION {Raises[f] : f \in files}

AllFacts == UNION {results[i].facts : i \in DOMAIN results}

Fingerprint == IF caseRow = NoCase THEN NoCase ELSE files

(* The place of the last result of a lead, if it has one. *)
Latest(l) ==
  {i \in DOMAIN results : results[i].lead = l /\ \A j \in DOMAIN results : results[j].lead = l => j <= i}

StoredAt(key) == {i \in DOMAIN results : <<results[i].lead, results[i].fp>> = key}

(* The row of a lead: the seed's own, there as long as the seed's
   investigation of it is, or the one upsert_detector_leads inserts under a
   uuid made from the key. *)
RowOf(l) ==
  IF leads[l] = "ABSENT" THEN None
  ELSE IF l = SeedLead /\ \E i \in DOMAIN results : results[i].fp = Seed THEN Seed
  ELSE l

(* A spelling finds a lead: the key always, the others a certain row. *)
Finds(n) ==
  /\ RowOf(LeadOf[n]) # None
  /\ n \in Leads \/ (n \in SeedNames <=> RowOf(LeadOf[n]) = Seed)

Lead(t) == LeadOf[arg[t]]

Key(t) == <<Lead(t), fp[t]>>

(* _case_status_to_thread, and the status persist gives the lead. *)
StatusOf(verdict) ==
  CASE verdict = "SUBSTANTIATED"         -> "SUPPORTED"
    [] verdict = "UNSUBSTANTIATED"       -> "REJECTED"
    [] verdict = "INSUFFICIENT_EVIDENCE" -> "INSUFFICIENT_EVIDENCE"

(***************************************************************************)
(* investigation_details: the verdict a reader is given, and the lead it   *)
(* comes from.  The read model is that of the case: any supported finding  *)
(* goes first (the order is that of their uuids), then the latest thread,  *)
(* then what the metadata remember.                                        *)
(***************************************************************************)
Reports ==
  LET findings == {i \in DOMAIN results : results[i].finding}
      latest   == results[Len(results)]
      verdict  ==
        CASE results # << >> /\ latest.status = "SUPPORTED" -> "SUBSTANTIATED"
          [] results # << >> /\ latest.status = "INSUFFICIENT_EVIDENCE" -> "INSUFFICIENT_EVIDENCE"
          [] OTHER -> IF caseRow # "FRESH" THEN caseRow
                      ELSE IF AllFacts = {} THEN "INSUFFICIENT_EVIDENCE" ELSE "UNSUBSTANTIATED"
  IN IF findings # {}
     THEN {[verdict |-> "SUBSTANTIATED", about |-> results[i].lead] : i \in findings}
     ELSE {[verdict |-> verdict, about |-> IF results # << >> THEN latest.lead ELSE None]}

-----------------------------------------------------------------------------
SeedResult ==
  [lead |-> SeedLead, fp |-> Seed, status |-> "SUPPORTED", finding |-> TRUE,
   facts |-> FactsOf[DemoFile], steps |-> <<Seed>>]

SchemaOnly ==
  /\ caseRow = NoCase /\ files = {} /\ linked = {} /\ results = << >>
  /\ leads = [l \in Leads |-> "ABSENT"]

Seeded ==
  /\ caseRow = "FRESH" /\ files = {DemoFile} /\ linked = {SeedLead} /\ results = <<SeedResult>>
  /\ leads = [l \in Leads |-> IF l = SeedLead THEN "SUPPORTED" ELSE "ABSENT"]

(* The schema alone, or what scripts/seed_demo.sh leaves. *)
Init ==
  /\ SchemaOnly \/ Seeded
  /\ locks = [n \in Names |-> Nobody]
  /\ pc = [t \in Threads |-> "idle"]
  /\ op = [t \in Threads |-> None]
  /\ arg = [t \in Threads |-> None]
  /\ fp = [t \in Threads |-> None]
  /\ found = [t \in Threads |-> {}]
  /\ work = [t \in Threads |-> None]
  /\ row = [t \in Threads |-> None]
  /\ answer = [t \in Threads |-> None]
  /\ requests = 0 /\ crashes = 0

Goto(t, place) == pc' = [pc EXCEPT ![t] = place]

(* Fault: the lock is released on no path. *)
ReturnHoldingLock(t, response) ==
  /\ Goto(t, "done")
  /\ answer' = [answer EXCEPT ![t] = response]
  /\ UNCHANGED locks

(* The handler returns, or an exception leaves it; either way the lock of
   the spelling is released. *)
Return(t, response) ==
  /\ Goto(t, "done")
  /\ answer' = [answer EXCEPT ![t] = response]
  /\ locks' = [n \in Names |-> IF locks[n] = t THEN Nobody ELSE locks[n]]

Plain(outcome) == [verdict |-> outcome, about |-> None]

Fail(t) == Return(t, Plain("ERROR")) /\ UNCHANGED <<db, held>>

(* The request is left alone but for its place. *)
Quiet == UNCHANGED <<op, arg, requests, crashes>>

-----------------------------------------------------------------------------
(* A request arrives. *)
Ask(t, operation, argument, place) ==
  /\ pc[t] = "idle"
  /\ requests < MaxRequests
  /\ requests' = requests + 1
  /\ op' = [op EXCEPT ![t] = operation]
  /\ arg' = [arg EXCEPT ![t] = argument]
  /\ Goto(t, place)
  /\ UNCHANGED <<db, locks, held, answer, crashes>>

AskStart(t) == \E n \in Names : Ask(t, "start", n, "lock")

AskWipe(t) == Ask(t, "wipe", None, "clear")

AskLoad(t) == Ask(t, "load", None, "clear")

AskInject(t) == \E f \in InjectedFiles : Ask(t, "inject", f, "store")

AskImport(t) == \E f \in UploadedFiles : Ask(t, "import", f, "shell")

Respond(t) ==
  /\ pc[t] = "done"
  /\ Goto(t, "idle")
  /\ op' = [op EXCEPT ![t] = None]
  /\ arg' = [arg EXCEPT ![t] = None]
  /\ fp' = [fp EXCEPT ![t] = None]
  /\ found' = [found EXCEPT ![t] = {}]
  /\ work' = [work EXCEPT ![t] = None]
  /\ row' = [row EXCEPT ![t] = None]
  /\ answer' = [answer EXCEPT ![t] = None]
  /\ UNCHANGED <<db, locks, requests, crashes>>

-----------------------------------------------------------------------------
(* Starting an investigation. *)

(* Fault: nobody waits for the lock. *)
LockAnyway(t) ==
  /\ pc[t] = "lock"
  /\ locks' = [locks EXCEPT ![arg[t]] = t]
  /\ Goto(t, "fingerprint")
  /\ UNCHANGED <<db, held, answer>> /\ Quiet

(* start_investigation: `with self._lock_for_lead(lead_id)`. *)
Lock(t) ==
  /\ pc[t] = "lock"
  /\ locks[arg[t]] = Nobody
  /\ locks' = [locks EXCEPT ![arg[t]] = t]
  /\ Goto(t, "fingerprint")
  /\ UNCHANGED <<db, held, answer>> /\ Quiet

ReadFingerprint(t) ==
  /\ pc[t] = "fingerprint"
  /\ fp' = [fp EXCEPT ![t] = Fingerprint]
  /\ Goto(t, "lookup")
  /\ UNCHANGED <<db, locks, found, work, row, answer>> /\ Quiet

(* existing_investigation_for_lead: the latest one of this lead, if its
   dataset is this one or unknown and the case has any evidence. *)
Reusable(t) ==
  /\ Finds(arg[t])
  /\ \E i \in Latest(Lead(t)) : results[i].fp \in {fp[t], Seed}
  /\ AllFacts # {}

Replay(t) ==
  /\ pc[t] = "lookup" /\ Reusable(t)
  /\ \E report \in Reports : Return(t, report)
  /\ UNCHANGED <<db, held>> /\ Quiet

NothingToReplay(t) ==
  /\ pc[t] = "lookup" /\ ~Reusable(t)
  /\ Goto(t, "lead")
  /\ UNCHANGED <<db, locks, held, answer>> /\ Quiet

(* get_lead: an unknown lead is looked for once more after a detector run. *)
GetLead(t) ==
  /\ pc[t] = "lead"
  /\ Goto(t, IF Finds(arg[t]) THEN "run" ELSE "detect")
  /\ UNCHANGED <<db, locks, held, answer>> /\ Quiet

(* investigator.investigate: reads the records of the moment. *)
Investigate(t) ==
  /\ pc[t] = "run"
  /\ \E outcome \in Outcomes :
       /\ outcome.facts \subseteq Records
       /\ work' = [work EXCEPT ![t] = outcome]
  /\ Goto(t, "ensure")
  /\ UNCHANGED <<db, locks, fp, found, row, answer>> /\ Quiet

InvestigationRaises(t) == pc[t] = "run" /\ Fail(t) /\ Quiet

(* The head of persist_investigation_result: the case, and the lead, put
   back if it has gone meanwhile. *)
EnsureLead(t) ==
  /\ pc[t] = "ensure" /\ caseRow # NoCase
  /\ leads' = [leads EXCEPT ![Lead(t)] = IF @ = "ABSENT" THEN "OPEN" ELSE @]
  /\ linked' = IF leads[Lead(t)] = "ABSENT" THEN linked \cup ({Lead(t)} \cap Suspects) ELSE linked
  /\ row' = [row EXCEPT ![t] = IF RowOf(Lead(t)) = None THEN Lead(t) ELSE RowOf(Lead(t))]
  /\ Goto(t, "check")
  /\ UNCHANGED <<caseRow, files, results, locks, fp, found, work, answer>> /\ Quiet

NoCaseToPersistIn(t) == pc[t] = "ensure" /\ caseRow = NoCase /\ Fail(t) /\ Quiet

(* Fault: persist does not look for its key. *)
CheckKeyForgotten(t) ==
  /\ pc[t] = "check"
  /\ Goto(t, "commit")
  /\ UNCHANGED <<db, locks, held, answer>> /\ Quiet

CheckKey(t) ==
  /\ pc[t] = "check"
  /\ Goto(t, IF StoredAt(Key(t)) # {} THEN "reread" ELSE "commit")
  /\ UNCHANGED <<db, locks, held, answer>> /\ Quiet

(***************************************************************************)
(* The transaction of persist_investigation_result.                        *)
(***************************************************************************)

(* Results of the lead under another dataset. *)
Earlier(t) == {i \in DOMAIN results : results[i].lead = Lead(t) /\ results[i].fp \notin {fp[t], Seed}}

(* evidence_record_identity_uq: evidence of the lead with the same facts is
   there under another key, so its insert is skipped and its link dangles. *)
EvidenceClashes(t) == \E i \in Earlier(t) : results[i].facts \cap work[t].facts # {}

(* findings_case_display_uq allows one finding per lead; its root
   transaction must be on record; findings_supported_gate asks for two
   pieces of evidence. *)
FindingPassesTheGate(t) ==
  /\ \A i \in Earlier(t) : ~results[i].finding
  /\ work[t].facts \cap Records # {}
  /\ Cardinality(work[t].facts) >= 2

Insertable(t) ==
  /\ caseRow # NoCase
  /\ RowOf(Lead(t)) = row[t]
  /\ ~EvidenceClashes(t)
  /\ work[t].verdict = "SUBSTANTIATED" => FindingPassesTheGate(t)

(* Fault: no idempotency key stands in the way of a second row. *)
StoreAnother(t) ==
  results' = Append(results,
    [lead |-> Lead(t), fp |-> fp[t], status |-> StatusOf(work[t].verdict),
     finding |-> work[t].verdict = "SUBSTANTIATED", facts |-> work[t].facts,
     steps |-> [i \in 1..work[t].steps |-> t]])

StoreResult(t) ==
  LET same == StoredAt(Key(t))
      supported == work[t].verdict = "SUBSTANTIATED"
      fresh == [lead |-> Lead(t), fp |-> fp[t], status |-> StatusOf(work[t].verdict),
                finding |-> supported, facts |-> work[t].facts,
                steps |-> [i \in 1..work[t].steps |-> t]]
      (* Every row of it is ON CONFLICT DO NOTHING: what is there stays. *)
      merged(old) == [old EXCEPT
                !.finding = @ \/ supported,
                !.facts = @ \cup work[t].facts,
                !.steps = @ \o [i \in 1..(IF work[t].steps > Len(@) THEN work[t].steps - Len(@) ELSE 0) |-> t]]
  IN results' = IF same = {} THEN Append(results, fresh)
                ELSE [i \in DOMAIN results |-> IF i \in same THEN merged(results[i]) ELSE results[i]]

Commit(t) ==
  /\ pc[t] = "commit" /\ Insertable(t)
  /\ StoreResult(t)
  /\ leads' = [leads EXCEPT ![Lead(t)] = StatusOf(work[t].verdict)]
  /\ caseRow' = work[t].verdict
  /\ Goto(t, "read")
  /\ UNCHANGED <<files, linked, locks, held, answer>> /\ Quiet

Clearing(t) == pc[t] \in {"clear", "strip"}

(* A constraint fails; or the transaction is the victim of a deadlock with
   clear_analysis, which locks the tables in another order; or it meets rows
   of another run under its own key and a link of a step dangles. *)
CommitFails(t) ==
  /\ pc[t] = "commit"
  /\ \/ ~Insertable(t)
     \/ \E u \in Threads : Clearing(u)
     \/ StoredAt(Key(t)) # {}
  /\ Fail(t) /\ Quiet

Read(t) ==
  /\ pc[t] \in {"read", "reread"} /\ caseRow # NoCase
  /\ \E report \in Reports : Return(t, report)
  /\ UNCHANGED <<db, held>> /\ Quiet

NothingToRead(t) == pc[t] \in {"read", "reread"} /\ caseRow = NoCase /\ Fail(t) /\ Quiet

-----------------------------------------------------------------------------
(* Clearing and loading. *)

(* Fault: the leads stay. *)
ForgottenButLeads ==
  /\ results' = << >>
  /\ linked' = {}
  /\ UNCHANGED leads

Forgotten ==
  /\ results' = << >>
  /\ leads' = [l \in Leads |-> "ABSENT"]
  /\ linked' = {}

(* clear_analysis; skipped without a case. *)
Clear(t) ==
  /\ pc[t] = "clear"
  /\ IF caseRow = NoCase
     THEN Goto(t, IF op[t] = "wipe" THEN "shell" ELSE "reseed") /\ UNCHANGED <<results, leads, linked>>
     ELSE Goto(t, "purge") /\ Forgotten
  /\ UNCHANGED <<caseRow, files, locks, held, answer>> /\ Quiet

(* Fault: nothing of the analysis restricts the purge of the records. *)
PurgeableAtOnce(t) == op[t] = "load" => results = << >>

(* What still refers to the rows to be deleted, ON DELETE RESTRICT. *)
Purgeable(t) ==
  /\ linked = {}
  /\ \A i \in DOMAIN results : ~results[i].finding
  /\ op[t] = "load" => results = << >>

Purge(t) ==
  /\ pc[t] = "purge" /\ Purgeable(t)
  /\ files' = {}
  /\ IF op[t] = "wipe"
     THEN Goto(t, "shell") /\ UNCHANGED <<caseRow, leads>>
     ELSE /\ Goto(t, "reseed")
          /\ caseRow' = NoCase
          /\ leads' = [l \in Leads |-> "ABSENT"]
  /\ UNCHANGED <<linked, results, locks, held, answer>> /\ Quiet

PurgeFails(t) == pc[t] = "purge" /\ ~Purgeable(t) /\ Fail(t) /\ Quiet

(* Imports are served on the event loop: once one has read its upload it
   runs to its end, and the others wait. *)
OnTheLoop(t) ==
  op[t] = "import" => \A u \in Threads : op[u] = "import" => pc[u] \notin {"detect", "upsert"}

(* ensure_canonical_case: the last step of a wipe, the first of an import. *)
EnsureCase(t) ==
  /\ pc[t] = "shell" /\ OnTheLoop(t)
  /\ caseRow' = IF caseRow = NoCase THEN "FRESH" ELSE caseRow
  /\ IF op[t] = "wipe" THEN Return(t, Plain("CLEARED")) ELSE Goto(t, "store") /\ UNCHANGED <<locks, answer>>
  /\ UNCHANGED <<files, leads, linked, results, held>> /\ Quiet

(* reseed_canonical_demo: plain INSERTs, which fail if there is a case. *)
Reseed(t) ==
  /\ pc[t] = "reseed" /\ caseRow = NoCase
  /\ caseRow' = "FRESH"
  /\ files' = {DemoFile}
  /\ results' = <<SeedResult>>
  /\ leads' = [leads EXCEPT ![SeedLead] = "SUPPORTED"]
  /\ linked' = {SeedLead}
  /\ Goto(t, "strip")
  /\ UNCHANGED <<locks, held, answer>> /\ Quiet

ReseedFails(t) == pc[t] = "reseed" /\ caseRow # NoCase /\ Fail(t) /\ Quiet

Strip(t) ==
  /\ pc[t] = "strip"
  /\ IF caseRow = NoCase THEN UNCHANGED <<results, leads, linked>> ELSE Forgotten
  /\ Goto(t, "detect")
  /\ UNCHANGED <<caseRow, files, locks, held, answer>> /\ Quiet

(* clear_analysis is the victim of its deadlock with a persist. *)
ClearFails(t) ==
  /\ Clearing(t)
  /\ \E u \in Threads : pc[u] = "commit"
  /\ Fail(t) /\ Quiet

-----------------------------------------------------------------------------
(* New records. *)

(* The scenarios build on the demo's entities; an import needs only a case. *)
Storable(t) == caseRow # NoCase /\ (op[t] = "inject" => DemoFile \in files)

StoreFile(t) ==
  /\ pc[t] = "store" /\ Storable(t) /\ OnTheLoop(t)
  /\ files' = files \cup {arg[t]}
  /\ Goto(t, "detect")
  /\ UNCHANGED <<caseRow, leads, linked, results, locks, held, answer>> /\ Quiet

StoreFileFails(t) == pc[t] = "store" /\ ~Storable(t) /\ OnTheLoop(t) /\ Fail(t) /\ Quiet

(* refresh_leads: the detectors read, then upsert_detector_leads writes. *)
Detect(t) ==
  /\ pc[t] = "detect"
  /\ found' = [found EXCEPT ![t] = Suspects]
  /\ Goto(t, "upsert")
  /\ UNCHANGED <<db, locks, fp, work, row, answer>> /\ Quiet

(* A lead that is there keeps its status.  Fault: it is opened again. *)
RefreshedReopening(t) == [l \in Leads |-> IF l \in found[t] THEN "OPEN" ELSE leads[l]]

Refreshed(t) == [l \in Leads |-> IF l \in found[t] /\ leads[l] = "ABSENT" THEN "OPEN" ELSE leads[l]]

Upsert(t) ==
  /\ pc[t] = "upsert" /\ caseRow # NoCase
  /\ leads' = Refreshed(t)
  /\ linked' = linked \cup (found[t] \cap Suspects)
  /\ IF op[t] # "start" THEN Return(t, Plain("OK"))
     ELSE IF arg[t] \in Leads /\ leads'[Lead(t)] # "ABSENT" THEN Goto(t, "run") /\ UNCHANGED <<locks, answer>>
     ELSE Return(t, Plain("ERROR"))
  /\ UNCHANGED <<caseRow, files, results, held>> /\ Quiet

(* The case is gone; or two runs find the same lead absent, and the INSERT of
   it is not ON CONFLICT. *)
UpsertFails(t) ==
  /\ pc[t] = "upsert"
  /\ \/ caseRow = NoCase
     \/ \E u \in Threads \ {t} : pc[u] = "upsert" /\ \E l \in found[t] \cap found[u] : leads[l] = "ABSENT"
  /\ Fail(t) /\ Quiet

-----------------------------------------------------------------------------
(* The process dies and comes back: only the database survives. *)
Crash ==
  /\ crashes < MaxCrashes
  /\ crashes' = crashes + 1
  /\ locks' = [n \in Names |-> Nobody]
  /\ pc' = [t \in Threads |-> "idle"]
  /\ op' = [t \in Threads |-> None]
  /\ arg' = [t \in Threads |-> None]
  /\ fp' = [t \in Threads |-> None]
  /\ found' = [t \in Threads |-> {}]
  /\ work' = [t \in Threads |-> None]
  /\ row' = [t \in Threads |-> None]
  /\ answer' = [t \in Threads |-> None]
  /\ UNCHANGED <<db, requests>>

Start(t) ==
  \/ Lock(t) \/ ReadFingerprint(t) \/ Replay(t) \/ NothingToReplay(t) \/ GetLead(t)
  \/ Investigate(t) \/ InvestigationRaises(t) \/ EnsureLead(t) \/ NoCaseToPersistIn(t)
  \/ CheckKey(t) \/ Commit(t) \/ CommitFails(t) \/ Read(t) \/ NothingToRead(t)

Reset(t) ==
  \/ Clear(t) \/ Purge(t) \/ PurgeFails(t) \/ EnsureCase(t) \/ Reseed(t) \/ ReseedFails(t)
  \/ Strip(t) \/ ClearFails(t)

Feed(t) ==
  \/ StoreFile(t) \/ StoreFileFails(t) \/ Detect(t) \/ Upsert(t) \/ UpsertFails(t)

Work(t) == Start(t) \/ Reset(t) \/ Feed(t) \/ Respond(t)

Arrive(t) == AskStart(t) \/ AskWipe(t) \/ AskLoad(t) \/ AskInject(t) \/ AskImport(t)

Next == Crash \/ \E t \in Threads : Work(t) \/ Arrive(t)

(* A thread in a handler keeps running: queries return or time out, and
   what holds a lock of a lead returns. *)
Spec == Init /\ [][Next]_vars /\ \A t \in Threads : WF_vars(Work(t))
-----------------------------------------------------------------------------
Result ==
  [lead : Leads, fp : {NoCase, Seed} \cup SUBSET Files, status : Decided, finding : BOOLEAN,
   facts : SUBSET Facts, steps : Seq(Threads \cup {Seed})]

Response == [verdict : Verdicts \cup {"OK", "CLEARED", "ERROR"}, about : Leads \cup {None}]

TypeOK ==
  /\ caseRow \in Verdicts \cup {"FRESH", NoCase}
  /\ files \subseteq Files
  /\ leads \in [Leads -> Decided \cup {"ABSENT", "OPEN"}]
  /\ linked \subseteq Leads
  /\ results \in Seq(Result)
  /\ locks \in [Names -> Threads \cup {Nobody}]
  /\ pc \in [Threads -> Places]
  /\ op \in [Threads -> Operations \cup {None}]
  /\ arg \in [Threads -> Names \cup Files \cup {None}]
  /\ fp \in [Threads -> {NoCase, None} \cup SUBSET Files]
  /\ found \in [Threads -> SUBSET Leads]
  /\ work \in [Threads -> {None} \cup Outcomes]
  /\ row \in [Threads -> {None, Seed} \cup Leads]
  /\ answer \in [Threads -> {None} \cup Response]
  /\ requests \in 0..MaxRequests
  /\ crashes \in 0..MaxCrashes

(* A lead's row tells what the latest investigation on record came to, and
   OPEN only while there is none, whatever runs, refreshes and resets
   overlap: leads.status is written by persist, upsert and clear. *)
LeadAgreesWithItsResults ==
  \A l \in Leads :
    /\ \A i \in Latest(l) : leads[l] = results[i].status
    /\ Latest(l) = {} => leads[l] \in {"ABSENT", "OPEN"}

(* An investigation under way never redoes the latest one on record for its
   lead: if that is of its own dataset it is a shell without evidence.  The
   lock must cover lookup, run and persist together. *)
LatestIsNotRedone ==
  \A t \in Threads :
    pc[t] \in {"run", "ensure", "check", "commit"} =>
      \A i \in Latest(Lead(t)) : results[i].fp = fp[t] => results[i].facts = {}

(* However a lead is spelled, and although the locks do not exclude two
   runs of it, each dataset has one result of it on record. *)
OneResultPerDataset ==
  \A i, j \in DOMAIN results :
    i # j => <<results[i].lead, results[i].fp>> # <<results[j].lead, results[j].fp>>

(* A supported finding still has the records it rests on, its lead and its
   case, whatever part of a reset or a wipe has run. *)
FindingsStandOnTheRecords ==
  \A i \in DOMAIN results :
    results[i].finding =>
      /\ caseRow # NoCase
      /\ leads[results[i].lead] = "SUPPORTED" \/ i \notin Latest(results[i].lead)
      /\ results[i].facts \cap Records # {}

(* No lead re-opens itself: once decided it stays decided until the whole
   analysis is cleared. *)
DecidedLeadsStayDecided ==
  [][\A l \in Leads :
       leads[l] \in Decided => leads'[l] \in Decided \/ (leads'[l] = "ABSENT" /\ results' = << >>)]_vars

Archive == INSTANCE ResultArchive WITH
  archive <- {results[i] : i \in DOMAIN results}, SeedResults <- {SeedResult}

(* The investigations table implements the archive of results. *)
ImplementsArchive == Archive!Spec

(* Every request is answered, whoever holds the lock it waits for. *)
EveryRequestEnds == \A t \in Threads : pc[t] # "idle" ~> pc[t] = "idle"
=============================================================================
