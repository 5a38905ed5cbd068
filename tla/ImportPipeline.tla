--------------------------- MODULE ImportPipeline ---------------------------
(***************************************************************************)
(* How records reach the case in PostgreSQL and the detectors: the import  *)
(* handlers of api/app.py over services/import_service.py and the parsers  *)
(* of seeder/ingestion, the hidden pass-through of                         *)
(* services/demo_injection_service.py, and the wipe, all sharing the       *)
(* connection pool of database/repositories/postgres.py.  Import handlers  *)
(* are coroutines that block the event loop; the others run on threads.    *)
(* An import, an injection and a wipe are each one transaction, at READ    *)
(* COMMITTED: every statement sees what was committed when it started, so  *)
(* the statements of one interleave with the commits of the others.  What  *)
(* the wipe, the load and the investigations do to one another is          *)
(* CaseStore's.                                                            *)
(***************************************************************************)
EXTENDS Integers, FiniteSets

CONSTANTS
  Threads,
  Uploads,        \* uploaded files, told apart by their SHA-256
  Content,        \* what each of them holds
  InjectedFile,   \* the source file of the hidden pass-through
  InjectedKeys,   \* the transactions it brings
  Endpoints,      \* the kinds of dataset each of them may be uploaded as
  SnapshotDates,  \* values of the snapshot_date parameter, None for absent
  Today,
  PoolSize,       \* connections in the pool; 5 in the code
  MaxRequests,    \* bound: requests asked in all
  MaxCrashes,     \* bound: restarts of the process
  Blank, Bad,     \* cells: nothing there; not a date, number or known status
  None

Kinds == {"BANK", "CFDI_INVOICE", "SAT_69B"}

Required ==
  [k \in {"BANK", "SAT_69B"} |->
     IF k = "BANK" THEN {"transaction_id", "from_account", "to_account", "date", "amount"}
     ELSE {"rfc", "status"}]

FileReport == [kind : Kinds, accepted : Nat, rejected : Nat, deduplicated : Nat]

ASSUME ImportAssumption ==
  /\ \A f \in Uploads :
       /\ Content[f].form \in {"csv", "xml", "empty"}
       /\ Content[f].encoding \in {"utf-8", "latin-1"}
       /\ Content[f].padded \subseteq Content[f].header
       /\ \A i \in DOMAIN Content[f].rows : DOMAIN Content[f].rows[i] = Content[f].header
       /\ IsFiniteSet(DOMAIN Content[f].rows)
       /\ DOMAIN Content[f].rows \subseteq Nat
       /\ Endpoints[f] \subseteq Kinds
  /\ InjectedFile \notin Uploads /\ IsFiniteSet(InjectedKeys)
  /\ None \notin FileReport \cup {"import", "inject", "wipe", "OK"}
  /\ SnapshotDates \subseteq Nat \cup {None}
  /\ Today \in Nat
  /\ PoolSize \in Nat \ {0, 1}
  /\ MaxRequests \in Nat
  /\ MaxCrashes \in Nat

VARIABLES
  (* the database *)
  caseExists,   \* CASE-DEMO-001 has a row
  demo,         \* the entities of the seed are on record
  files,        \* source_files: the report of each, None without a row
  rejections,   \* rows of ingest_rejections per file
  rows,         \* invoices, bank_transactions and sat_69b_records
  raised,       \* the rows the stored leads were raised from
  (* the process *)
  pc, op, arg,
  txn,          \* of a transaction: what it has done and not committed
  kind, asof,   \* of an import: its endpoint and its snapshot_date
  seen,         \* the rows a detector run has read
  answer,
  (* history *)
  overtaken,    \* uploads whose import was under way during a wipe
  requests, crashes   \* for the bounds

db == <<caseExists, demo, files, rejections, rows, raised>>
vars == <<db, pc, op, arg, txn, kind, asof, seen, answer, overtaken, requests, crashes>>

-----------------------------------------------------------------------------
(* The parsers. *)

(* A cell as DictReader gives it: the check of the header strips the names,
   the rows are looked up under the stripped name, which a padded header
   does not have. *)
Cell(f, i, column) ==
  IF column \in Content[f].header \ Content[f].padded THEN Content[f].rows[i][column] ELSE Blank

Lines(f, k) == IF k = "CFDI_INVOICE" THEN {1} ELSE DOMAIN Content[f].rows

(* read_text(encoding="utf-8-sig") raises UnicodeDecodeError, which nobody
   catches; the XML parser obeys the declaration of the file. *)
Undecodable(f, k) == k # "CFDI_INVOICE" /\ Content[f].encoding # "utf-8"

(* IngestError: a required column is missing. *)
WholeFileFails(f, k) ==
  k # "CFDI_INVOICE" /\ (Content[f].form # "csv" \/ ~(Required[k] \subseteq Content[f].header))

BankRow(f, i) ==
  /\ \A c \in {"transaction_id", "from_account", "to_account"} : Cell(f, i, c) # Blank
  /\ Cell(f, i, "date") \in Nat
  /\ Cell(f, i, "amount") \in Int

Invoice(f, i) ==
  /\ Content[f].form = "xml"
  /\ Cell(f, i, "UUID") \notin {Blank, Bad} /\ Cell(f, i, "Rfc") # Blank
  /\ Cell(f, i, "Fecha") \in Nat
  /\ Cell(f, i, "Total") \in Int

EfosRow(f, i) ==
  /\ Cell(f, i, "rfc") # Blank
  /\ Cell(f, i, "status") \notin {Blank, Bad}
  /\ Cell(f, i, "snapshot_date") # Bad

(* The lines a parser makes records of; the others are its rejections. *)
Accepted(f, k) ==
  IF WholeFileFails(f, k) THEN {}
  ELSE {i \in Lines(f, k) :
          CASE k = "BANK" -> BankRow(f, i) [] k = "CFDI_INVOICE" -> Invoice(f, i) [] OTHER -> EfosRow(f, i)}

Rejected(f, k) ==
  IF WholeFileFails(f, k) THEN 1 ELSE Cardinality(Lines(f, k)) - Cardinality(Accepted(f, k))

SnapshotDate(f, i, date) ==
  IF Cell(f, i, "snapshot_date") # Blank THEN Cell(f, i, "snapshot_date")
  ELSE IF date # None THEN date ELSE Today

(* By what a record is recognised when it is met again. *)
RecordKey(f, k, date, i) ==
  CASE k = "BANK" -> <<Cell(f, i, "transaction_id")>>
    [] k = "CFDI_INVOICE" -> <<Cell(f, i, "UUID")>>
    [] OTHER -> <<f, Cell(f, i, "rfc"), SnapshotDate(f, i, date)>>

(* What the constraints of the tables ask beyond the parsers. *)
Insertable(f, k, i) ==
  CASE k = "BANK" -> Cell(f, i, "amount") > 0 /\ Cell(f, i, "from_account") # Cell(f, i, "to_account")
    [] k = "CFDI_INVOICE" -> Cell(f, i, "Total") >= 0
    [] OTHER -> TRUE

-----------------------------------------------------------------------------
(* Of a transaction: the lines an import has still to store, the duplicates
   it has counted; the rows inserted, or deleted by a wipe; and the files a
   wipe has deleted, or an injection inserted. *)
Closed == [lines |-> {}, duplicates |-> 0, rows |-> {}, files |-> {}]

Init ==
  /\ caseExists \in BOOLEAN /\ demo = caseExists   \* the schema alone, or seeded
  /\ files = [f \in Uploads \cup {InjectedFile} |-> None]
  /\ rejections = [f \in Uploads |-> 0]
  /\ rows = {} /\ raised = {}
  /\ pc = [t \in Threads |-> "idle"]
  /\ op = [t \in Threads |-> None]
  /\ arg = [t \in Threads |-> None]
  /\ txn = [t \in Threads |-> Closed]
  /\ kind = [t \in Threads |-> None]
  /\ asof = [t \in Threads |-> None]
  /\ seen = [t \in Threads |-> {}]
  /\ answer = [t \in Threads |-> None]
  /\ overtaken = {}
  /\ requests = 0 /\ crashes = 0

Goto(t, place) == pc' = [pc EXCEPT ![t] = place]

Return(t, response) == Goto(t, "done") /\ answer' = [answer EXCEPT ![t] = response]

Rollback(t) == txn' = [txn EXCEPT ![t] = Closed] /\ UNCHANGED <<db, seen, overtaken>>

(* An exception leaves the handler: 500, and the transaction is rolled back. *)
Fail(t) == Return(t, "ERROR") /\ Rollback(t)

Refuse(t) == Return(t, "REFUSED") /\ Rollback(t)

Quiet == UNCHANGED <<op, arg, kind, asof, requests, crashes>>

NoTransaction == UNCHANGED <<txn, overtaken>>

(* Who keeps a connection from one step to the next: whoever is in a
   transaction. *)
Importing == {"select", "insert"}
Injecting == {"source", "company", "transfers", "commit"}

Holders == {t \in Threads : pc[t] \in Importing \cup Injecting \cup {"sweep"}}

ConnectionFree == Cardinality(Holders) < PoolSize

(* The event loop: from its upload to its answer an import never awaits. *)
OnTheLoop(t) ==
  \A u \in Threads \ {t} : op[u] = "import" => pc[u] \notin Importing \cup {"persist", "detect", "upsert"}

-----------------------------------------------------------------------------
Ask(t, operation, argument, k, date, place) ==
  /\ pc[t] = "idle" /\ requests < MaxRequests
  /\ requests' = requests + 1
  /\ op' = [op EXCEPT ![t] = operation]
  /\ arg' = [arg EXCEPT ![t] = argument]
  /\ kind' = [kind EXCEPT ![t] = k]
  /\ asof' = [asof EXCEPT ![t] = date]
  /\ Goto(t, place)
  /\ UNCHANGED <<db, seen, answer, crashes>> /\ NoTransaction

AskImport(t) ==
  \E f \in Uploads, date \in SnapshotDates : \E k \in Endpoints[f] :
    /\ k # "SAT_69B" => date = None
    /\ Ask(t, "import", f, k, date, "ensure")

AskInject(t) == Ask(t, "inject", InjectedFile, None, None, "begin")

AskWipe(t) == Ask(t, "wipe", None, None, None, "clear")

Respond(t) ==
  /\ pc[t] = "done"
  /\ Goto(t, "idle")
  /\ op' = [op EXCEPT ![t] = None]
  /\ arg' = [arg EXCEPT ![t] = None]
  /\ kind' = [kind EXCEPT ![t] = None]
  /\ asof' = [asof EXCEPT ![t] = None]
  /\ seen' = [seen EXCEPT ![t] = {}]
  /\ answer' = [answer EXCEPT ![t] = None]
  /\ UNCHANGED <<db, requests, crashes>> /\ NoTransaction

-----------------------------------------------------------------------------
(* An import. *)

EnsureCase(t) ==
  /\ pc[t] = "ensure" /\ OnTheLoop(t)
  /\ caseExists' = TRUE
  /\ IF op[t] = "wipe" THEN Return(t, "OK") ELSE Goto(t, "upload") /\ UNCHANGED answer
  /\ UNCHANGED <<demo, files, rejections, rows, raised, seen>> /\ NoTransaction /\ Quiet

EmptyUpload(t) == pc[t] = "upload" /\ Content[arg[t]].form = "empty" /\ Refuse(t) /\ Quiet

(* Fault: the earlier report is the answer, and that is all. *)
PriorReportAnswers(t) ==
  /\ pc[t] = "upload" /\ Content[arg[t]].form # "empty" /\ OnTheLoop(t)
  /\ IF files[arg[t]] = None THEN Goto(t, "persist") /\ UNCHANGED answer ELSE Return(t, "OK")
  /\ UNCHANGED <<db, seen>> /\ NoTransaction /\ Quiet

(* _prior_report: whatever the file came to, it is not read again. *)
LookUp(t) ==
  /\ pc[t] = "upload" /\ Content[arg[t]].form # "empty" /\ OnTheLoop(t)
  /\ Goto(t, IF files[arg[t]] = None THEN "persist" ELSE "detect")
  /\ UNCHANGED <<db, seen, answer>> /\ NoTransaction /\ Quiet

KeyOf(t, i) == RecordKey(arg[t], kind[t], asof[t], i)

Row(t, i) == [kind |-> kind[t], key |-> KeyOf(t, i), file |-> arg[t]]

(* What a statement of the transaction sees: what is committed, and its own. *)
OnRecord(t, i) == \E r \in rows \cup txn[t].rows : r.kind = kind[t] /\ r.key = KeyOf(t, i)

(* A row that another transaction has inserted or deleted holds up the
   INSERT of one with its key, until that transaction ends. *)
Locked(t, k, key) == \E u \in Threads \ {t} : \E r \in txn[u].rows : r.kind = k /\ r.key = key

Report(t) ==
  [kind |-> kind[t], accepted |-> Cardinality(Accepted(arg[t], kind[t])),
   rejected |-> Rejected(arg[t], kind[t]), deduplicated |-> txn[t].duplicates]

(* The text cannot be decoded, which nobody catches. *)
ParseFails(t) == pc[t] = "persist" /\ Undecodable(arg[t], kind[t]) /\ Fail(t) /\ Quiet

(* Fault: the row of the file is committed on its own. *)
InsertSourceFileAlone(t) ==
  /\ pc[t] = "persist" /\ ~Undecodable(arg[t], kind[t])
  /\ txn' = [txn EXCEPT ![t].lines = Accepted(arg[t], kind[t])]
  /\ files' = [files EXCEPT ![arg[t]] = Report(t)]
  /\ overtaken' = overtaken \ {arg[t]}
  /\ Goto(t, "select")
  /\ UNCHANGED <<caseExists, demo, rejections, rows, raised, seen, answer>> /\ Quiet

(* _persist_bank, _persist_cfdi, _persist_efos, _persist_failed_file: one
   transaction, that the row of the file begins. *)
InsertSourceFile(t) ==
  /\ pc[t] = "persist" /\ ~Undecodable(arg[t], kind[t])
  /\ txn' = [txn EXCEPT ![t].lines = Accepted(arg[t], kind[t])]
  /\ overtaken' = overtaken \ {arg[t]}
  /\ Goto(t, "select")
  /\ UNCHANGED <<db, seen, answer>> /\ Quiet

(* The records are taken one by one, in the order of the file; those of a
   list date by date, which are of different keys. *)
First(t) == {i \in txn[t].lines : \A j \in txn[t].lines : i <= j}

(* Fault: the records on file are looked up once, before the first INSERT. *)
SelectBeforehand(t) ==
  /\ pc[t] = "select"
  /\ \E i \in First(t) :
       IF \E r \in rows : r.kind = kind[t] /\ r.key = KeyOf(t, i)
       THEN /\ txn' = [txn EXCEPT ![t].lines = @ \ {i}, ![t].duplicates = @ + 1]
            /\ UNCHANGED pc
       ELSE Goto(t, "insert") /\ UNCHANGED txn
  /\ UNCHANGED <<db, seen, answer, overtaken>> /\ Quiet

(* SELECT 1: a record that is there is a duplicate. *)
SelectRecord(t) ==
  /\ pc[t] = "select"
  /\ \E i \in First(t) :
       IF OnRecord(t, i)
       THEN /\ txn' = [txn EXCEPT ![t].lines = @ \ {i}, ![t].duplicates = @ + 1]
            /\ UNCHANGED pc
       ELSE Goto(t, "insert") /\ UNCHANGED txn
  /\ UNCHANGED <<db, seen, answer, overtaken>> /\ Quiet

(* INSERT ... ON CONFLICT DO NOTHING: every record has a key, a primary key
   made from it or a unique index; nobody reads whether a row was added. *)
InsertRecord(t) ==
  /\ pc[t] = "insert"
  /\ \E i \in First(t) :
       /\ Insertable(arg[t], kind[t], i) /\ ~Locked(t, kind[t], KeyOf(t, i))
       /\ txn' = [txn EXCEPT ![t].lines = @ \ {i},
                             ![t].rows = @ \cup IF OnRecord(t, i) THEN {} ELSE {Row(t, i)}]
  /\ Goto(t, "select")
  /\ UNCHANGED <<db, seen, answer, overtaken>> /\ Quiet

(* A record violates a constraint: the whole file is rolled back, the good
   rows and the rejections with the bad one. *)
InsertRecordFails(t) ==
  /\ pc[t] = "insert" /\ \E i \in First(t) : ~Insertable(arg[t], kind[t], i)
  /\ Fail(t) /\ Quiet

(* The row of the file is ON CONFLICT DO NOTHING, its rejections have no
   key, the duplicates are written to it when there are any. *)
CommitImport(t) ==
  LET f == arg[t]
  IN /\ pc[t] = "select" /\ txn[t].lines = {}
     /\ files' = [files EXCEPT ![f] =
          IF @ = None THEN Report(t)
          ELSE IF txn[t].duplicates > 0 THEN [@ EXCEPT !.deduplicated = txn[t].duplicates] ELSE @]
     /\ rejections' = [rejections EXCEPT ![f] = @ + Rejected(f, kind[t])]
     /\ rows' = rows \cup txn[t].rows
     /\ txn' = [txn EXCEPT ![t] = Closed]
     /\ Goto(t, "detect")
     /\ UNCHANGED <<caseExists, demo, raised, seen, answer, overtaken>> /\ Quiet

(* refresh_leads: the detectors read, then upsert_detector_leads writes. *)
Detect(t) ==
  /\ pc[t] = "detect"
  /\ seen' = [seen EXCEPT ![t] = rows]
  /\ Goto(t, "upsert")
  /\ UNCHANGED <<db, answer>> /\ NoTransaction /\ Quiet

Upsert(t) ==
  /\ pc[t] = "upsert"
  /\ raised' = raised \cup seen[t]
  /\ Return(t, "OK")
  /\ UNCHANGED <<caseExists, demo, files, rejections, rows, seen>> /\ NoTransaction /\ Quiet

(* Two runs find the same lead absent: the INSERT of it is not ON CONFLICT. *)
UpsertFails(t) ==
  /\ pc[t] = "upsert"
  /\ \E u \in Threads \ {t} : pc[u] = "upsert" /\ ~(seen[t] \cap seen[u] \subseteq raised)
  /\ Fail(t) /\ Quiet

-----------------------------------------------------------------------------
(* The injection of the hidden pass-through. *)

Begin(t) ==
  /\ pc[t] = "begin"
  /\ IF caseExists THEN Goto(t, "source") /\ UNCHANGED <<db, seen, answer>> /\ NoTransaction ELSE Refuse(t)
  /\ Quiet

(* The row of its source file: a transaction that has inserted or deleted
   it and has not ended is waited for. *)
InsertFile(t) ==
  /\ pc[t] = "source"
  /\ \A u \in Threads \ {t} : InjectedFile \notin txn[u].files
  /\ txn' = [txn EXCEPT ![t].files = {f \in {InjectedFile} : files[f] = None}]
  /\ Goto(t, "company")
  /\ UNCHANGED <<db, seen, answer, overtaken>> /\ Quiet

(* database.fetch_one inside the transaction: it takes a connection of its own. *)
ReadCompany(t) ==
  /\ pc[t] = "company"
  /\ IF demo THEN Goto(t, "transfers") /\ UNCHANGED <<db, seen, answer>> /\ NoTransaction ELSE Refuse(t)
  /\ Quiet

(* One INSERT ... ON CONFLICT DO NOTHING of them all. *)
InsertTransfers(t) ==
  LET there == {r.key : r \in {s \in rows : s.kind = "BANK"}}
  IN /\ pc[t] = "transfers" /\ demo
     /\ \A x \in InjectedKeys : ~Locked(t, "BANK", <<x>>)
     /\ txn' = [txn EXCEPT ![t].rows =
          {[kind |-> "BANK", key |-> <<x>>, file |-> InjectedFile] : x \in {y \in InjectedKeys : <<y>> \notin there}}]
     /\ Goto(t, "commit")
     /\ UNCHANGED <<db, seen, answer, overtaken>> /\ Quiet

(* The company's account was wiped after it was read. *)
InsertTransfersFails(t) == pc[t] = "transfers" /\ ~demo /\ Fail(t) /\ Quiet

CommitInjection(t) ==
  /\ pc[t] = "commit"
  /\ files' = [files EXCEPT ![InjectedFile] =
       IF InjectedFile \in txn[t].files
       THEN [kind |-> "BANK", accepted |-> Cardinality(InjectedKeys), rejected |-> 0, deduplicated |-> 0]
       ELSE @]
  /\ rows' = rows \cup txn[t].rows
  /\ txn' = [txn EXCEPT ![t] = Closed]
  /\ Goto(t, "detect")
  /\ UNCHANGED <<caseExists, demo, rejections, raised, seen, answer, overtaken>> /\ Quiet

-----------------------------------------------------------------------------
(* The wipe. *)

Clear(t) ==
  /\ pc[t] = "clear"
  /\ IF caseExists THEN raised' = {} /\ Goto(t, "purge") ELSE Goto(t, "ensure") /\ UNCHANGED raised
  /\ UNCHANGED <<caseExists, demo, files, rejections, rows, seen, answer>> /\ NoTransaction /\ Quiet

(* The DELETEs, from bank_transactions to source_files, of what is there: a
   file without rows that is committed between two of them goes as if it had
   been committed before the first.  Another wipe's are waited for. *)
Purge(t) ==
  /\ pc[t] = "purge" /\ \A u \in Threads : pc[u] # "sweep"
  /\ txn' = [txn EXCEPT ![t].rows = rows, ![t].files = {f \in DOMAIN files : files[f] # None}]
  /\ Goto(t, "sweep")
  /\ UNCHANGED <<db, seen, answer, overtaken>> /\ Quiet

(* Files that are being imported, or were since the DELETEs began, survive. *)
Survivors(t) ==
  {f \in Uploads : \/ files[f] # None /\ f \notin txn[t].files
                   \/ \E u \in Threads : pc[u] \in Importing /\ arg[u] = f}

(* Nothing may be left that refers to what was deleted: rows to their file,
   the transfers of an injection to the company's account. *)
PurgeCommits(t) ==
  /\ pc[t] = "sweep"
  /\ \A r \in rows \ txn[t].rows : r.file \notin txn[t].files \cup {InjectedFile}
  /\ \A u \in Threads : pc[u] = "commit" => txn[u].rows = {}
  /\ demo' = FALSE
  /\ files' = [f \in DOMAIN files |-> IF f \in txn[t].files THEN None ELSE files[f]]
  /\ rejections' = [f \in Uploads |-> IF f \in txn[t].files THEN 0 ELSE rejections[f]]
  /\ rows' = rows \ txn[t].rows
  /\ overtaken' = Survivors(t)
  /\ txn' = [txn EXCEPT ![t] = Closed]
  /\ Goto(t, "ensure")
  /\ UNCHANGED <<caseExists, raised, seen, answer>> /\ Quiet

(* Leads raised or rows inserted meanwhile may refer to what is deleted,
   themselves or by the entities, accounts and snapshots that are left out
   here. *)
PurgeFails(t) ==
  /\ pc[t] = "sweep"
  /\ \/ raised # {}
     \/ ~(rows \subseteq txn[t].rows)
     \/ \E u \in Threads : \/ pc[u] \in Importing /\ kind[u] # "CFDI_INVOICE"
                           \/ pc[u] \in {"transfers", "commit"}
  /\ Fail(t) /\ Quiet

(* And by those accounts a transfer may find its party deleted, or be the
   victim of a deadlock. *)
Collides(t) ==
  /\ \/ /\ pc[t] = "insert" /\ kind[t] = "BANK"
        /\ \E u \in Threads : pc[u] \in {"transfers", "sweep"}
     \/ /\ pc[t] \in {"source", "transfers"}
        /\ \E u \in Threads : pc[u] = "sweep" \/ (pc[u] = "insert" /\ kind[u] = "BANK")
  /\ Fail(t) /\ Quiet

-----------------------------------------------------------------------------
(* Fault: a connection is waited for without end. *)
PoolWaits(t) == FALSE

(* PoolTimeout: no connection within the time allowed, and the handler
   gives up the one it holds. *)
PoolTimeout(t) ==
  /\ pc[t] \notin {"idle", "done"} /\ (t \in Holders => pc[t] = "company")
  /\ ~ConnectionFree
  /\ Fail(t) /\ Quiet

Crash ==
  /\ crashes < MaxCrashes
  /\ crashes' = crashes + 1
  /\ pc' = [t \in Threads |-> "idle"]
  /\ op' = [t \in Threads |-> None]
  /\ arg' = [t \in Threads |-> None]
  /\ kind' = [t \in Threads |-> None]
  /\ asof' = [t \in Threads |-> None]
  /\ seen' = [t \in Threads |-> {}]
  /\ answer' = [t \in Threads |-> None]
  /\ txn' = [t \in Threads |-> Closed]
  /\ UNCHANGED <<db, overtaken, requests>>

Import(t) ==
  \/ EmptyUpload(t) \/ ParseFails(t)
  \/ ConnectionFree /\ (EnsureCase(t) \/ LookUp(t) \/ InsertSourceFile(t) \/ Detect(t) \/ Upsert(t) \/ UpsertFails(t))
  \/ SelectRecord(t) \/ InsertRecord(t) \/ InsertRecordFails(t) \/ CommitImport(t)

Inject(t) ==
  \/ ConnectionFree /\ (Begin(t) \/ ReadCompany(t))
  \/ InsertFile(t) \/ InsertTransfers(t) \/ InsertTransfersFails(t) \/ CommitInjection(t)

Wipe(t) ==
  \/ ConnectionFree /\ (Clear(t) \/ Purge(t))
  \/ PurgeCommits(t) \/ PurgeFails(t)

Work(t) == Import(t) \/ Inject(t) \/ Wipe(t) \/ Collides(t) \/ PoolTimeout(t) \/ Respond(t)

Arrive(t) == AskImport(t) \/ AskInject(t) \/ AskWipe(t)

Next == Crash \/ \E t \in Threads : Work(t) \/ Arrive(t)

Spec == Init /\ [][Next]_vars /\ \A t \in Threads : WF_vars(Work(t))
-----------------------------------------------------------------------------
Places ==
  Importing \cup Injecting \cup
  {"idle", "ensure", "upload", "persist", "detect", "upsert", "begin", "clear", "purge", "sweep", "done"}

Filed(S) == \A r \in S : r.kind \in Kinds /\ r.file \in Uploads \cup {InjectedFile}

Transaction(x) ==
  /\ DOMAIN x = DOMAIN Closed
  /\ x.lines \subseteq Nat /\ x.duplicates \in Nat
  /\ Filed(x.rows) /\ x.files \subseteq Uploads \cup {InjectedFile}

TypeOK ==
  /\ caseExists \in BOOLEAN /\ demo \in BOOLEAN
  /\ files \in [Uploads \cup {InjectedFile} -> FileReport \cup {None}]
  /\ rejections \in [Uploads -> Nat]
  /\ Filed(rows) /\ Filed(raised)
  /\ pc \in [Threads -> Places]
  /\ op \in [Threads -> {"import", "inject", "wipe", None}]
  /\ arg \in [Threads -> Uploads \cup {InjectedFile, None}]
  /\ DOMAIN txn = Threads /\ \A t \in Threads : Transaction(txn[t])
  /\ kind \in [Threads -> Kinds \cup {None}]
  /\ asof \in [Threads -> Nat \cup {None}]
  /\ DOMAIN seen = Threads /\ \A t \in Threads : Filed(seen[t])
  /\ answer \in [Threads -> {"OK", "ERROR", "REFUSED", None}]
  /\ overtaken \subseteq Uploads
  /\ requests \in 0..MaxRequests /\ crashes \in 0..MaxCrashes

(* Every record that a file on record was credited with is on record itself,
   under this file or the one that brought it first, whatever was rolled
   back, injected or wiped between the SELECT that found it and the commit.
   Only a wipe committed during the import may have taken it: it deletes the
   row a duplicate was recognised by, and leaves the file. *)
CreditedRecordsAreThere ==
  \A f \in Uploads \ overtaken :
    files[f] # None =>
      \A i \in Accepted(f, files[f].kind) :
        \E r \in rows, date \in SnapshotDates :
          r.kind = files[f].kind /\ r.key = RecordKey(f, files[f].kind, date, i)

(* The transfers of a file that an injection brings as well. *)
AlsoInjected(f, k) ==
  {i \in Accepted(f, k) : k = "BANK" /\ Cell(f, i, "transaction_id") \in InjectedKeys}

(* The counts of a file's report are those of the tables: what it was
   refused is in ingest_rejections, what it was credited with is in its rows
   or was counted as met before, each once, in whatever order it came.  What
   an injection commits between the SELECT and the INSERT is neither: the
   count of duplicates falls short by that, and by no more. *)
ReportsAreTheTables ==
  \A f \in Uploads :
    /\ files[f] = None => rejections[f] = 0 /\ \A r \in rows : r.file # f
    /\ files[f] # None =>
         LET counted == Cardinality({r \in rows : r.file = f}) + files[f].deduplicated
         IN /\ counted <= files[f].accepted
            /\ files[f].accepted <= counted + Cardinality(AlsoInjected(f, files[f].kind))
            /\ files[f].rejected = rejections[f]

(* An upload is answered OK only when the detectors have read what it
   brought, be it that an earlier upload of it died before they could. *)
ScreenedBeforeAnswered ==
  [][\A t \in Threads :
       op[t] = "import" /\ answer[t] = None /\ answer'[t] = "OK" =>
         \A r \in rows' : r.file = arg[t] => r \in raised']_vars

(* What the head of seeder/ingestion/errors.py promises, that a run reports
   every record it refused: an upload that was read leaves a report. *)
RefusalsAreReported ==
  [][\A t \in Threads :
       /\ \/ pc[t] = "persist" /\ Undecodable(arg[t], kind[t])
          \/ pc[t] = "insert" /\ \E i \in First(t) : ~Insertable(arg[t], kind[t], i)
       /\ answer'[t] # None
       => files'[arg[t]] # None]_vars

(* Every request is answered, although an injection may wait for a second
   connection while all of them wait for it. *)
EveryRequestEnds == \A t \in Threads : pc[t] # "idle" ~> pc[t] = "idle"
=============================================================================
