------------------------ MODULE ImportPipelineProofs ------------------------
(***************************************************************************)
(* Proofs about ImportPipeline, for any threads, files, pool and number of *)
(* requests and restarts.  The screening of an import (its transaction and *)
(* the detector run after it) excludes that of another, because both are   *)
(* on the event loop, but not an injection or a wipe: what an import has   *)
(* read and not committed is true of its own rows, and of the others as    *)
(* far as no wipe has ended and no injection brought the same transfers.   *)
(***************************************************************************)
EXTENDS ImportPipeline, FiniteSetTheorems, TLAPS

(* What a request has in hand, by where it is. *)
Fits(t) ==
  /\ op[t] = "import" => arg[t] \in Uploads /\ kind[t] \in Kinds /\ asof[t] \in SnapshotDates
  /\ pc[t] \in {"upload", "persist"} \cup Importing => op[t] = "import"
  /\ pc[t] = "ensure" => op[t] \in {"import", "wipe"}
  /\ pc[t] \in {"detect", "upsert"} => op[t] \in {"import", "inject"}
  /\ pc[t] \in {"begin"} \cup Injecting => op[t] = "inject"
  /\ pc[t] \in {"clear", "purge", "sweep"} => op[t] = "wipe"
  /\ pc[t] \notin Importing \cup {"company", "transfers", "commit", "sweep"} => txn[t] = Closed

InHand == \A t \in Threads : Fits(t)

TypeInv == TypeOK /\ InHand

-----------------------------------------------------------------------------
LEMMA LinesAreFinite ==
  ASSUME NEW f \in Uploads, NEW k \in Kinds
  PROVE  IsFiniteSet(Lines(f, k)) /\ Lines(f, k) \subseteq Nat
<1>1. IsFiniteSet({1})
  BY FS_Singleton
<1> QED
  BY <1>1, ImportAssumption DEF Lines

LEMMA AcceptedAreLines ==
  ASSUME NEW f \in Uploads, NEW k \in Kinds
  PROVE  /\ Accepted(f, k) \subseteq Lines(f, k)
         /\ IsFiniteSet(Accepted(f, k)) /\ Accepted(f, k) \subseteq Nat
         /\ Cardinality(Accepted(f, k)) \in Nat
         /\ Rejected(f, k) \in Nat
<1>1. Accepted(f, k) \subseteq Lines(f, k)
  BY DEF Accepted
<1>2. /\ IsFiniteSet(Accepted(f, k))
      /\ Cardinality(Accepted(f, k)) <= Cardinality(Lines(f, k))
  BY <1>1, LinesAreFinite, FS_Subset
<1>3. Cardinality(Accepted(f, k)) \in Nat /\ Cardinality(Lines(f, k)) \in Nat
  BY <1>2, LinesAreFinite, FS_CardinalityType
<1> QED
  BY <1>1, <1>2, <1>3, LinesAreFinite DEF Rejected

-----------------------------------------------------------------------------
LEMMA ClosedType == Transaction(Closed)
  BY DEF Transaction, Closed, Filed

LEMMA TypeInit == Init => TypeInv
  BY ClosedType, ImportAssumption DEF Init, TypeInv, TypeOK, InHand, Fits, Places, Importing, Injecting, Filed

(* One transaction changes, the others stay. *)
LEMMA OneTransaction ==
  ASSUME TypeOK, NEW t \in Threads, NEW x, Transaction(x), txn' = [txn EXCEPT ![t] = x]
  PROVE  /\ DOMAIN txn' = Threads
         /\ txn'[t] = x /\ \A u \in Threads \ {t} : txn'[u] = txn[u]
         /\ \A u \in Threads : Transaction(txn'[u])
<1>1. DOMAIN txn' = Threads /\ txn'[t] = x /\ \A u \in Threads \ {t} : txn'[u] = txn[u]
  BY DEF TypeOK
<1> QED
  BY <1>1 DEF TypeOK

(* A thread that moves leaves the others what they have in hand. *)
LEMMA OneMoves ==
  ASSUME TypeInv, NEW t \in Threads, pc' = [pc EXCEPT ![t] = pc'[t]], UNCHANGED <<op, arg, kind, asof>>,
         \A u \in Threads \ {t} : txn'[u] = txn[u], Fits(t)'
  PROVE  InHand'
<1> SUFFICES ASSUME NEW u \in Threads, u # t PROVE Fits(u)'
  BY DEF InHand
<1>1. pc'[u] = pc[u] /\ txn'[u] = txn[u]
  BY DEF TypeInv, TypeOK
<1> QED
  BY <1>1 DEF TypeInv, InHand, Fits

(* A request that ends without a change of the tables. *)
LEMMA EndsType ==
  ASSUME TypeInv, NEW t \in Threads, NEW response \in {"OK", "ERROR", "REFUSED"},
         Return(t, response), Rollback(t), Quiet
  PROVE  TypeInv'
<1>1. /\ DOMAIN txn' = Threads /\ \A u \in Threads : Transaction(txn'[u])
      /\ txn'[t] = Closed /\ \A u \in Threads \ {t} : txn'[u] = txn[u]
  BY ClosedType, OneTransaction DEF TypeInv, Rollback
<1>2. TypeOK'
  BY <1>1 DEF TypeInv, TypeOK, Return, Rollback, Goto, Quiet, db, Places, Filed, Transaction
<1>3. InHand'
  BY <1>1 DEF TypeInv, TypeOK, InHand, Fits, Return, Goto, Quiet, Importing, Injecting, Closed
<1> QED
  BY <1>2, <1>3 DEF TypeInv

LEMMA AskType ==
  ASSUME TypeInv, NEW t \in Threads, Arrive(t)
  PROVE  TypeInv'
<1>1. CASE AskImport(t)
  <2>1. PICK f \in Uploads : \E date \in SnapshotDates : \E k \in Endpoints[f] :
          Ask(t, "import", f, k, date, "ensure")
    BY <1>1 DEF AskImport
  <2>2. PICK date \in SnapshotDates : \E k \in Endpoints[f] : Ask(t, "import", f, k, date, "ensure")
    BY <2>1
  <2>3. PICK k \in Endpoints[f] : Ask(t, "import", f, k, date, "ensure")
    BY <2>2
  <2>4. k \in Kinds /\ date \in Nat \cup {None}
    BY ImportAssumption
  <2>5. TypeOK'
    BY <2>3, <2>4, ImportAssumption DEF Ask, Goto, TypeInv, TypeOK, db, Places, NoTransaction, Filed, Transaction
  <2>6. InHand'
    BY <2>3, <2>4, ImportAssumption DEF Ask, Goto, TypeInv, TypeOK, InHand, Fits, NoTransaction, Importing,
                                        Injecting, Closed
  <2> QED
    BY <2>5, <2>6 DEF TypeInv
<1>2. CASE AskInject(t)
  <2>1. TypeOK'
    BY <1>2, ImportAssumption DEF AskInject, Ask, Goto, TypeInv, TypeOK, db, Places, NoTransaction, Filed, Transaction
  <2>2. InHand'
    BY <1>2, ImportAssumption DEF AskInject, Ask, Goto, TypeInv, TypeOK, InHand, Fits, NoTransaction, Importing,
                                  Injecting
  <2> QED
    BY <2>1, <2>2 DEF TypeInv
<1>3. CASE AskWipe(t)
  <2>1. TypeOK'
    BY <1>3, ImportAssumption DEF AskWipe, Ask, Goto, TypeInv, TypeOK, db, Places, NoTransaction, Filed, Transaction
  <2>2. InHand'
    BY <1>3, ImportAssumption DEF AskWipe, Ask, Goto, TypeInv, TypeOK, InHand, Fits, NoTransaction, Importing,
                                  Injecting
  <2> QED
    BY <2>1, <2>2 DEF TypeInv
<1> QED
  BY <1>1, <1>2, <1>3 DEF Arrive

LEMMA RespondType ==
  ASSUME TypeInv, NEW t \in Threads, Respond(t)
  PROVE  TypeInv'
<1>1. TypeOK'
  BY ImportAssumption DEF Respond, Goto, TypeInv, TypeOK, db, Places, NoTransaction, Filed, Transaction
<1>2. InHand'
  BY ImportAssumption DEF Respond, Goto, TypeInv, TypeOK, InHand, Fits, NoTransaction, Importing, Injecting, Closed
<1> QED
  BY <1>1, <1>2 DEF TypeInv

(* The steps outside a transaction, and a read in one. *)
LEMMA ApartType ==
  ASSUME TypeInv, NEW t \in Threads,
         \/ EnsureCase(t) \/ LookUp(t) \/ Detect(t) \/ Upsert(t) \/ Clear(t)
         \/ (Begin(t) /\ caseExists) \/ (ReadCompany(t) /\ demo)
  PROVE  TypeInv'
<1>1. TypeOK'
  BY DEF TypeInv, TypeOK, EnsureCase, LookUp, Detect, Upsert, Clear, Begin, ReadCompany, Return, Goto, Quiet,
         db, Places, NoTransaction, Filed, Transaction, Injecting
<1>2. Fits(t) /\ pc \in [Threads -> Places] /\ NoTransaction /\ Quiet
  BY DEF TypeInv, TypeOK, InHand, EnsureCase, LookUp, Detect, Upsert, Clear, Begin, ReadCompany
<1>3. pc' = [pc EXCEPT ![t] = pc'[t]]
  BY <1>2 DEF EnsureCase, LookUp, Detect, Upsert, Clear, Begin, ReadCompany, Return, Goto
<1>4. Fits(t)'
  <2>1. CASE EnsureCase(t) \/ LookUp(t) \/ Detect(t) \/ Upsert(t)
    BY <1>2, <2>1 DEF Fits, EnsureCase, LookUp, Detect, Upsert, Return, Goto, Quiet, NoTransaction, Importing,
                      Injecting
  <2>2. CASE Clear(t) \/ (Begin(t) /\ caseExists) \/ (ReadCompany(t) /\ demo)
    BY <1>2, <2>2 DEF Fits, Clear, Begin, ReadCompany, Goto, Quiet, NoTransaction, Importing, Injecting
  <2> QED
    BY <2>1, <2>2
<1>5. InHand'
  BY <1>2, <1>3, <1>4, OneMoves DEF Quiet, NoTransaction
<1> QED
  BY <1>1, <1>5 DEF TypeInv

(* The statements of a transaction, before its end. *)
LEMMA WithinType ==
  ASSUME TypeInv, NEW t \in Threads,
         \/ InsertSourceFile(t) \/ SelectRecord(t) \/ InsertRecord(t)
         \/ InsertFile(t) \/ InsertTransfers(t) \/ Purge(t)
  PROVE  TypeInv'
<1>0. Transaction(txn[t]) /\ Filed(rows)
  BY DEF TypeInv, TypeOK
<1>1. txn' = txn \/ \E x : Transaction(x) /\ txn' = [txn EXCEPT ![t] = x]
  <2>1. CASE InsertSourceFile(t)
    <3>1. arg[t] \in Uploads /\ kind[t] \in Kinds
      BY <2>1 DEF TypeInv, InHand, Fits, InsertSourceFile
    <3>2. Transaction([txn[t] EXCEPT !.lines = Accepted(arg[t], kind[t])])
      BY <1>0, <3>1, AcceptedAreLines DEF Transaction, Closed
    <3> QED
      BY <2>1, <3>2 DEF InsertSourceFile
  <2>2. CASE SelectRecord(t)
    <3>1. \A i : Transaction([txn[t] EXCEPT !.lines = @ \ {i}, !.duplicates = @ + 1])
      BY <1>0 DEF Transaction, Closed
    <3>2. PICK i : \/ txn' = [txn EXCEPT ![t].lines = @ \ {i}, ![t].duplicates = @ + 1]
                   \/ txn' = txn
      BY <2>2, Zenon DEF SelectRecord
    <3>4. CASE txn' = [txn EXCEPT ![t].lines = @ \ {i}, ![t].duplicates = @ + 1]
      <4>1. txn' = [txn EXCEPT ![t] = [txn[t] EXCEPT !.lines = @ \ {i}, !.duplicates = @ + 1]]
        BY <3>4
      <4> QED
        BY <3>1, <4>1
    <3> QED
      BY <3>2, <3>4
  <2>3. CASE InsertRecord(t)
    <3>1. PICK i : txn' = [txn EXCEPT ![t].lines = @ \ {i},
                                      ![t].rows = @ \cup IF OnRecord(t, i) THEN {} ELSE {Row(t, i)}]
      BY <2>3 DEF InsertRecord
    <3>2. arg[t] \in Uploads /\ kind[t] \in Kinds
      BY <2>3 DEF TypeInv, InHand, Fits, InsertRecord, Importing
    <3> DEFINE x == [txn[t] EXCEPT !.lines = @ \ {i},
                                   !.rows = @ \cup IF OnRecord(t, i) THEN {} ELSE {Row(t, i)}]
    <3>3. Transaction(x)
      BY <1>0, <3>2 DEF Transaction, Closed, Row, Filed
    <3> QED
      BY <3>1, <3>3
  <2>4. CASE InsertFile(t)
    <3>1. Transaction([txn[t] EXCEPT !.files = {f \in {InjectedFile} : files[f] = None}])
      BY <1>0 DEF Transaction, Closed
    <3> QED
      BY <2>4, <3>1 DEF InsertFile
  <2>5. CASE InsertTransfers(t)
    <3> DEFINE brought ==
          {[kind |-> "BANK", key |-> <<x>>, file |-> InjectedFile] :
             x \in {y \in InjectedKeys : <<y>> \notin {r.key : r \in {s \in rows : s.kind = "BANK"}}}}
    <3>1. Filed(brought)
      BY DEF Filed, Kinds
    <3>2. txn' = [txn EXCEPT ![t] = [txn[t] EXCEPT !.rows = brought]]
      BY <2>5 DEF InsertTransfers
    <3> HIDE DEF brought
    <3>3. Transaction([txn[t] EXCEPT !.rows = brought])
      BY <1>0, <3>1 DEF Transaction, Closed
    <3> QED
      BY <3>2, <3>3
  <2>6. CASE Purge(t)
    <3>1. {f \in DOMAIN files : files[f] # None} \subseteq Uploads \cup {InjectedFile}
      BY DEF TypeInv, TypeOK
    <3>2. Transaction([txn[t] EXCEPT !.rows = rows, !.files = {f \in DOMAIN files : files[f] # None}])
      BY <1>0, <3>1 DEF Transaction, Closed
    <3> QED
      BY <2>6, <3>2 DEF Purge
  <2> QED
    BY <2>1, <2>2, <2>3, <2>4, <2>5, <2>6
<1>2. /\ DOMAIN txn' = Threads /\ \A u \in Threads : Transaction(txn'[u])
      /\ \A u \in Threads \ {t} : txn'[u] = txn[u]
  <2>1. CASE txn' = txn
    BY <2>1 DEF TypeInv, TypeOK
  <2>2. ASSUME NEW x, Transaction(x), txn' = [txn EXCEPT ![t] = x]
        PROVE  /\ DOMAIN txn' = Threads /\ \A u \in Threads : Transaction(txn'[u])
               /\ \A u \in Threads \ {t} : txn'[u] = txn[u]
    BY <2>2, OneTransaction DEF TypeInv
  <2> QED
    BY <1>1, <2>1, <2>2
<1>3. TypeOK'
  BY <1>2 DEF TypeInv, TypeOK, InsertSourceFile, SelectRecord, InsertRecord, InsertFile, InsertTransfers, Purge,
              Goto, Quiet, db, Places, Importing, Injecting, Filed
<1>4. Fits(t) /\ pc \in [Threads -> Places] /\ Quiet
  BY DEF TypeInv, TypeOK, InHand, InsertSourceFile, SelectRecord, InsertRecord, InsertFile, InsertTransfers, Purge
<1>5. pc' = [pc EXCEPT ![t] = pc'[t]]
  BY <1>4 DEF InsertSourceFile, SelectRecord, InsertRecord, InsertFile, InsertTransfers, Purge, Goto
<1>6. Fits(t)'
  <2>1. CASE InsertSourceFile(t) \/ SelectRecord(t) \/ InsertRecord(t)
    <3>1. pc'[t] \in Importing /\ op[t] = "import"
      BY <1>4, <2>1 DEF InsertSourceFile, SelectRecord, InsertRecord, Goto, Fits, Importing
    <3> QED
      BY <1>4, <3>1 DEF Fits, Quiet, Importing, Injecting
  <2>2. CASE InsertFile(t) \/ InsertTransfers(t) \/ Purge(t)
    BY <1>4, <2>2 DEF Fits, InsertFile, InsertTransfers, Purge, Goto, Quiet, Importing, Injecting
  <2> QED
    BY <2>1, <2>2
<1>7. InHand'
  BY <1>2, <1>4, <1>5, <1>6, OneMoves DEF Quiet
<1> QED
  BY <1>3, <1>7 DEF TypeInv

LEMMA ReportType ==
  ASSUME TypeInv, NEW t \in Threads, pc[t] \in Importing
  PROVE  Report(t) \in FileReport
<1>1. arg[t] \in Uploads /\ kind[t] \in Kinds /\ txn[t].duplicates \in Nat
  BY DEF TypeInv, TypeOK, InHand, Fits, Transaction
<1> QED
  BY <1>1, AcceptedAreLines DEF Report, FileReport

LEMMA CommitImportType ==
  ASSUME TypeInv, NEW t \in Threads, CommitImport(t)
  PROVE  TypeInv'
<1> DEFINE f == arg[t]
           duplicates == txn[t].duplicates
<1>1. f \in Uploads /\ kind[t] \in Kinds /\ duplicates \in Nat /\ Rejected(f, kind[t]) \in Nat
  BY AcceptedAreLines DEF TypeInv, TypeOK, InHand, Fits, CommitImport, Importing, Transaction
<1>2. \E r \in FileReport \cup {None} : files' = [files EXCEPT ![f] = r]
  <2>1. Report(t) \in FileReport
    BY ReportType DEF CommitImport, Importing
  <2>2. files[f] \in FileReport \cup {None}
    BY <1>1 DEF TypeInv, TypeOK
  <2>3. files[f] # None => [files[f] EXCEPT !.deduplicated = duplicates] \in FileReport
    BY <1>1, <2>2 DEF FileReport
  <2>4. files' = [files EXCEPT ![f] =
          IF @ = None THEN Report(t)
          ELSE IF duplicates > 0 THEN [@ EXCEPT !.deduplicated = duplicates] ELSE @]
    BY DEF CommitImport
  <2> HIDE DEF duplicates, f
  <2>5. CASE files[f] = None
    BY <2>1, <2>4, <2>5
  <2>6. CASE files[f] # None /\ duplicates > 0
    BY <2>3, <2>4, <2>6
  <2>7. CASE files[f] # None /\ ~(duplicates > 0)
    BY <2>2, <2>4, <2>7
  <2> QED
    BY <2>5, <2>6, <2>7
<1>3. files' \in [Uploads \cup {InjectedFile} -> FileReport \cup {None}]
  BY <1>1, <1>2 DEF TypeInv, TypeOK
<1>4. rejections' \in [Uploads -> Nat]
  BY <1>1 DEF TypeInv, TypeOK, CommitImport
<1>5. Filed(rows')
  BY DEF TypeInv, TypeOK, Transaction, CommitImport, Filed
<1>6. /\ DOMAIN txn' = Threads /\ \A u \in Threads : Transaction(txn'[u])
      /\ txn'[t] = Closed /\ \A u \in Threads \ {t} : txn'[u] = txn[u]
  BY ClosedType, OneTransaction DEF TypeInv, CommitImport
<1> HIDE DEF f
<1>7. TypeOK'
  BY <1>3, <1>4, <1>5, <1>6 DEF TypeInv, TypeOK, CommitImport, Goto, Quiet, Places, Filed
<1>8. InHand'
  BY <1>6 DEF TypeInv, TypeOK, InHand, Fits, CommitImport, Goto, Quiet, Importing, Injecting
<1> QED
  BY <1>7, <1>8 DEF TypeInv

LEMMA CommitInjectionType ==
  ASSUME TypeInv, NEW t \in Threads, CommitInjection(t)
  PROVE  TypeInv'
<1> DEFINE report == [kind |-> "BANK", accepted |-> Cardinality(InjectedKeys), rejected |-> 0, deduplicated |-> 0]
<1>1. report \in FileReport
  <2>1. Cardinality(InjectedKeys) \in Nat
    BY ImportAssumption, FS_CardinalityType
  <2> QED
    BY <2>1 DEF FileReport, Kinds
<1>2. files' \in [Uploads \cup {InjectedFile} -> FileReport \cup {None}]
  <2>1. files' = [files EXCEPT ![InjectedFile] = report] \/ files' = [files EXCEPT ![InjectedFile] = files[InjectedFile]]
    BY DEF CommitInjection
  <2> HIDE DEF report
  <2> QED
    BY <1>1, <2>1 DEF TypeInv, TypeOK
<1>3. Filed(rows')
  BY DEF TypeInv, TypeOK, Transaction, CommitInjection, Filed
<1>4. /\ DOMAIN txn' = Threads /\ \A u \in Threads : Transaction(txn'[u])
      /\ txn'[t] = Closed /\ \A u \in Threads \ {t} : txn'[u] = txn[u]
  BY ClosedType, OneTransaction DEF TypeInv, CommitInjection
<1>5. TypeOK'
  BY <1>2, <1>3, <1>4 DEF TypeInv, TypeOK, CommitInjection, Goto, Quiet, Places, Filed
<1>6. InHand'
  BY <1>4 DEF TypeInv, TypeOK, InHand, Fits, CommitInjection, Goto, Quiet, Importing, Injecting
<1> QED
  BY <1>5, <1>6 DEF TypeInv

LEMMA PurgeCommitsType ==
  ASSUME TypeInv, NEW t \in Threads, PurgeCommits(t)
  PROVE  TypeInv'
<1>1. files' \in [Uploads \cup {InjectedFile} -> FileReport \cup {None}] /\ rejections' \in [Uploads -> Nat]
  BY DEF TypeInv, TypeOK, PurgeCommits
<1>2. Filed(rows') /\ overtaken' \subseteq Uploads
  BY DEF TypeInv, TypeOK, PurgeCommits, Survivors, Filed
<1>3. /\ DOMAIN txn' = Threads /\ \A u \in Threads : Transaction(txn'[u])
      /\ txn'[t] = Closed /\ \A u \in Threads \ {t} : txn'[u] = txn[u]
  BY ClosedType, OneTransaction DEF TypeInv, PurgeCommits
<1>4. TypeOK'
  BY <1>1, <1>2, <1>3 DEF TypeInv, TypeOK, PurgeCommits, Goto, Quiet, Places, Filed
<1>5. InHand'
  BY <1>3 DEF TypeInv, TypeOK, InHand, Fits, PurgeCommits, Goto, Quiet, Importing, Injecting
<1> QED
  BY <1>4, <1>5 DEF TypeInv

(* What gives up, at whatever step. *)
GivesUp(t) ==
  \/ EmptyUpload(t) \/ ParseFails(t) \/ InsertRecordFails(t) \/ UpsertFails(t)
  \/ (Begin(t) /\ ~caseExists) \/ (ReadCompany(t) /\ ~demo) \/ InsertTransfersFails(t)
  \/ PurgeFails(t) \/ Collides(t) \/ PoolTimeout(t)

LEMMA GivesUpEnds ==
  ASSUME NEW t \in Threads, GivesUp(t)
  PROVE  \E response \in {"ERROR", "REFUSED"} : Return(t, response) /\ Rollback(t) /\ Quiet
  BY DEF GivesUp, EmptyUpload, ParseFails, InsertRecordFails, UpsertFails, Begin, ReadCompany,
         InsertTransfersFails, PurgeFails, Collides, PoolTimeout, Fail, Refuse

(* Every step of a request, by what it writes. *)
LEMMA Steps ==
  ASSUME NEW t \in Threads, Work(t) \/ Arrive(t)
  PROVE  \/ Arrive(t) \/ Respond(t) \/ GivesUp(t)
         \/ EnsureCase(t) \/ LookUp(t) \/ Detect(t) \/ Upsert(t) \/ Clear(t)
         \/ (Begin(t) /\ caseExists) \/ (ReadCompany(t) /\ demo)
         \/ InsertSourceFile(t) \/ SelectRecord(t) \/ InsertRecord(t)
         \/ InsertFile(t) \/ InsertTransfers(t) \/ Purge(t)
         \/ CommitImport(t) \/ CommitInjection(t) \/ PurgeCommits(t)
  BY DEF Work, Import, Inject, Wipe, GivesUp

LEMMA CrashType == TypeInv /\ Crash => TypeInv'
  BY ClosedType, ImportAssumption DEF TypeInv, TypeOK, InHand, Fits, Crash, db, Places, Filed, Importing, Injecting

LEMMA TypeStep == TypeInv /\ [Next]_vars => TypeInv'
<1> SUFFICES ASSUME TypeInv, [Next]_vars PROVE TypeInv'
  OBVIOUS
<1>1. CASE Crash
  BY <1>1, CrashType
<1>2. CASE UNCHANGED vars
  BY <1>2 DEF TypeInv, TypeOK, InHand, Fits, vars, db, Filed, Transaction, Closed
<1>3. ASSUME NEW t \in Threads, Work(t) \/ Arrive(t)
      PROVE  TypeInv'
  <2>1. CASE GivesUp(t)
    <3>1. PICK response \in {"ERROR", "REFUSED"} : Return(t, response) /\ Rollback(t) /\ Quiet
      BY <2>1, GivesUpEnds
    <3> QED
      BY <3>1, EndsType
  <2> QED
    BY <1>3, <2>1, Steps, AskType, RespondType, ApartType, WithinType, CommitImportType, CommitInjectionType,
       PurgeCommitsType
<1> QED
  BY <1>1, <1>2, <1>3 DEF Next

LEMMA TypeHolds == Spec => []TypeInv
  BY TypeInit, TypeStep, PTL DEF Spec

-----------------------------------------------------------------------------
(* The event loop runs the screening of one import at a time. *)
Screening == {"persist", "detect", "upsert"} \cup Importing

OneAtATime ==
  \A t, u \in Threads :
    t # u /\ op[t] = "import" /\ op[u] = "import" /\ pc[t] \in Screening => pc[u] \notin Screening

(* So a file that is being read has not been read meanwhile; *)
NotRead == \A t \in Threads : pc[t] \in {"persist"} \cup Importing => files[arg[t]] = None

(* a file has rows only when it has a report; *)
RowsHaveFiles == \A r \in rows : r.file \in Uploads => files[r.file] # None

(* what the detectors read for an upload is all that it brought; *)
SeenAll ==
  \A t \in Threads :
    pc[t] = "upsert" /\ op[t] = "import" => \A r \in rows : r.file = arg[t] => r \in seen[t]

(* and what a transaction holds is of its own file, or of files deleted
   together with their rows. *)
Brought == [kind : {"BANK"}, key : {<<x>> : x \in InjectedKeys}, file : {InjectedFile}]

OwnRows(t) ==
  /\ pc[t] \in Importing =>
       /\ txn[t].lines \subseteq Accepted(arg[t], kind[t])
       /\ IsFiniteSet(txn[t].rows)
       /\ \A r \in txn[t].rows : r.kind = kind[t] /\ r.file = arg[t]
  /\ pc[t] \in {"company", "transfers", "commit"} => txn[t].rows \subseteq Brought
  /\ pc[t] = "sweep" => \A r \in txn[t].rows : r.file \in Uploads => r.file \in txn[t].files

SerialInv == OneAtATime /\ NotRead /\ RowsHaveFiles /\ SeenAll /\ \A t \in Threads : OwnRows(t)

LEMMA OthersStay ==
  ASSUME TypeInv, NEW t \in Threads, Work(t) \/ Arrive(t), NEW u \in Threads, u # t
  PROVE  /\ pc'[u] = pc[u] /\ op'[u] = op[u] /\ arg'[u] = arg[u] /\ kind'[u] = kind[u] /\ asof'[u] = asof[u]
         /\ txn'[u] = txn[u] /\ seen'[u] = seen[u] /\ answer'[u] = answer[u]
<1>1. CASE Arrive(t)
  BY <1>1 DEF TypeInv, TypeOK, Arrive, AskImport, AskInject, AskWipe, Ask, Goto, NoTransaction
<1>2. CASE Respond(t)
  BY <1>2 DEF TypeInv, TypeOK, Respond, Goto, NoTransaction
<1>3. CASE GivesUp(t)
  <2>1. PICK response \in {"ERROR", "REFUSED"} : Return(t, response) /\ Rollback(t) /\ Quiet
    BY <1>3, GivesUpEnds
  <2> QED
    BY <2>1 DEF TypeInv, TypeOK, Return, Rollback, Goto, Quiet
<1>4. CASE \/ EnsureCase(t) \/ LookUp(t) \/ Detect(t) \/ Upsert(t) \/ Clear(t)
           \/ (Begin(t) /\ caseExists) \/ (ReadCompany(t) /\ demo)
  BY <1>4 DEF TypeInv, TypeOK, EnsureCase, LookUp, Detect, Upsert, Clear, Begin, ReadCompany, Goto, Return,
              Quiet, NoTransaction
<1>5. CASE \/ InsertSourceFile(t) \/ SelectRecord(t) \/ InsertRecord(t)
           \/ InsertFile(t) \/ InsertTransfers(t) \/ Purge(t)
  BY <1>5 DEF TypeInv, TypeOK, InsertSourceFile, SelectRecord, InsertRecord, InsertFile, InsertTransfers, Purge,
              Goto, Quiet
<1>6. CASE CommitImport(t) \/ CommitInjection(t) \/ PurgeCommits(t)
  BY <1>6 DEF TypeInv, TypeOK, CommitImport, CommitInjection, PurgeCommits, Goto, Quiet
<1> QED
  BY <1>1, <1>2, <1>3, <1>4, <1>5, <1>6, Steps

(* How a thread comes to the places that matter. *)
LEMMA Arrivals ==
  ASSUME TypeInv, NEW t \in Threads, Work(t) \/ Arrive(t)
  PROVE  /\ pc'[t] = "persist" => LookUp(t)
         /\ pc'[t] \in Importing => InsertSourceFile(t) \/ SelectRecord(t) \/ InsertRecord(t)
         /\ pc'[t] = "detect" /\ op'[t] = "import" => LookUp(t) \/ CommitImport(t)
         /\ pc'[t] = "upsert" => Detect(t)
         /\ pc'[t] \in {"company", "transfers", "commit"} =>
              InsertFile(t) \/ (ReadCompany(t) /\ demo) \/ InsertTransfers(t)
         /\ pc'[t] = "sweep" => Purge(t)
<1> DEFINE Elsewhere == {"ensure", "begin", "clear", "done", "idle", "upload", "source", "purge"}
<1>1. CASE Arrive(t) \/ Respond(t)
  <2>1. pc'[t] \in Elsewhere
    BY <1>1 DEF TypeInv, TypeOK, Arrive, AskImport, AskInject, AskWipe, Ask, Respond, Goto
  <2> QED
    BY <2>1 DEF Importing
<1>2. CASE GivesUp(t)
  <2>1. PICK response \in {"ERROR", "REFUSED"} : Return(t, response)
    BY <1>2, GivesUpEnds
  <2>2. pc'[t] = "done"
    BY <2>1 DEF TypeInv, TypeOK, Return, Goto
  <2> QED
    BY <2>2 DEF Importing
<1>3. CASE EnsureCase(t) \/ Upsert(t) \/ Clear(t) \/ (Begin(t) /\ caseExists) \/ PurgeCommits(t)
  <2>1. pc'[t] \in Elsewhere
    BY <1>3 DEF TypeInv, TypeOK, EnsureCase, Upsert, Clear, Begin, PurgeCommits, Return, Goto
  <2> QED
    BY <2>1 DEF Importing
<1>4. CASE LookUp(t) \/ Detect(t) \/ CommitImport(t)
  BY <1>4 DEF TypeInv, TypeOK, LookUp, Detect, CommitImport, Goto, Importing
<1>5. CASE CommitInjection(t)
  BY <1>5 DEF TypeInv, TypeOK, InHand, Fits, CommitInjection, Goto, Quiet, Importing, Injecting
<1>6. CASE InsertSourceFile(t) \/ SelectRecord(t) \/ InsertRecord(t)
  <2>1. pc'[t] \in Importing
    BY <1>6 DEF TypeInv, TypeOK, InsertSourceFile, SelectRecord, InsertRecord, Goto, Importing
  <2> QED
    BY <1>6, <2>1 DEF Importing
<1>7. CASE InsertFile(t) \/ (ReadCompany(t) /\ demo) \/ InsertTransfers(t) \/ Purge(t)
  BY <1>7 DEF TypeInv, TypeOK, InsertFile, ReadCompany, InsertTransfers, Purge, Goto, Importing
<1> QED
  BY <1>1, <1>2, <1>3, <1>4, <1>5, <1>6, <1>7, Steps

(* How an import comes to its screening. *)
LEMMA Enters ==
  ASSUME TypeInv, NEW t \in Threads, Work(t) \/ Arrive(t), pc'[t] \in Screening, op'[t] = "import"
  PROVE  op[t] = "import" /\ (pc[t] \in Screening \/ OnTheLoop(t))
<1>1. \/ LookUp(t) \/ InsertSourceFile(t) \/ SelectRecord(t) \/ InsertRecord(t) \/ CommitImport(t) \/ Detect(t)
  BY Arrivals DEF Screening
<1> QED
  BY <1>1 DEF LookUp, InsertSourceFile, SelectRecord, InsertRecord, CommitImport, Detect, Quiet, Screening,
              Importing

(* An import is answered OK by its last step. *)
LEMMA AnswersOK ==
  ASSUME TypeInv, NEW t \in Threads, Work(t) \/ Arrive(t), op[t] = "import", answer[t] = None,
         answer'[t] = "OK"
  PROVE  Upsert(t)
<1>1. answer' # answer
  BY ImportAssumption
<1>2. CASE Arrive(t) \/ Respond(t)
  BY <1>2, ImportAssumption DEF TypeInv, TypeOK, Arrive, AskImport, AskInject, AskWipe, Ask, Respond
<1>3. CASE GivesUp(t)
  <2>1. PICK response \in {"ERROR", "REFUSED"} : Return(t, response)
    BY <1>3, GivesUpEnds
  <2> QED
    BY <2>1 DEF TypeInv, TypeOK, Return
<1>4. CASE EnsureCase(t)
  BY <1>1, <1>4 DEF EnsureCase
<1>5. CASE \/ LookUp(t) \/ Detect(t) \/ Clear(t) \/ (Begin(t) /\ caseExists) \/ (ReadCompany(t) /\ demo)
           \/ InsertSourceFile(t) \/ SelectRecord(t) \/ InsertRecord(t)
           \/ InsertFile(t) \/ InsertTransfers(t) \/ Purge(t)
           \/ CommitImport(t) \/ CommitInjection(t) \/ PurgeCommits(t)
  BY <1>1, <1>5 DEF LookUp, Detect, Clear, Begin, ReadCompany, InsertSourceFile, SelectRecord, InsertRecord,
                    InsertFile, InsertTransfers, Purge, CommitImport, CommitInjection, PurgeCommits
<1> QED
  BY <1>2, <1>3, <1>4, <1>5, Steps

(* The steps that write what is on record, and what becomes of it. *)
LEMMA TablesMove ==
  ASSUME NEW t \in Threads, Work(t) \/ Arrive(t)
  PROVE  \/ CommitImport(t) \/ CommitInjection(t) \/ PurgeCommits(t)
         \/ UNCHANGED <<files, rejections, rows>>
<1>1. CASE Arrive(t) \/ Respond(t)
  BY <1>1 DEF Arrive, AskImport, AskInject, AskWipe, Ask, Respond, db
<1>2. CASE GivesUp(t)
  BY <1>2, GivesUpEnds DEF Rollback, db
<1>3. CASE \/ EnsureCase(t) \/ LookUp(t) \/ Detect(t) \/ Upsert(t) \/ Clear(t)
           \/ (Begin(t) /\ caseExists) \/ (ReadCompany(t) /\ demo)
           \/ InsertSourceFile(t) \/ SelectRecord(t) \/ InsertRecord(t)
           \/ InsertFile(t) \/ InsertTransfers(t) \/ Purge(t)
  BY <1>3 DEF EnsureCase, LookUp, Detect, Upsert, Clear, Begin, ReadCompany, InsertSourceFile, SelectRecord,
              InsertRecord, InsertFile, InsertTransfers, Purge, db
<1> QED
  BY <1>1, <1>2, <1>3, Steps

LEMMA ImportRows ==
  ASSUME TypeInv, SerialInv, NEW t \in Threads, CommitImport(t)
  PROVE  /\ op[t] = "import" /\ arg[t] \in Uploads /\ kind[t] \in Kinds
         /\ files'[arg[t]] = Report(t) /\ files'[arg[t]] # None
         /\ \A f \in Uploads \ {arg[t]} : files'[f] = files[f] /\ rejections'[f] = rejections[f]
         /\ rows' = rows \cup txn[t].rows
         /\ \A r \in rows : r.file # arg[t]
         /\ \A r \in txn[t].rows : r.file = arg[t]
<1>1. op[t] = "import" /\ arg[t] \in Uploads /\ kind[t] \in Kinds /\ pc[t] \in Importing
  BY DEF TypeInv, InHand, Fits, CommitImport, Importing
<1>2. files[arg[t]] = None
  BY <1>1 DEF SerialInv, NotRead
<1>3. files' = [files EXCEPT ![arg[t]] = Report(t)]
  BY <1>2 DEF CommitImport
<1>4. Report(t) \in FileReport
  BY <1>1, ReportType
<1>5. /\ files'[arg[t]] = Report(t) /\ files'[arg[t]] # None
      /\ \A f \in Uploads \ {arg[t]} : files'[f] = files[f]
  BY <1>1, <1>3, <1>4, ImportAssumption DEF TypeInv, TypeOK
<1>6. \A f \in Uploads \ {arg[t]} : rejections'[f] = rejections[f]
  BY DEF CommitImport, TypeInv, TypeOK
<1>7. \A r \in rows : r.file # arg[t]
  BY <1>1, <1>2 DEF SerialInv, RowsHaveFiles
<1>8. \A r \in txn[t].rows : r.file = arg[t]
  BY <1>1 DEF SerialInv, OwnRows
<1> QED
  BY <1>1, <1>5, <1>6, <1>7, <1>8 DEF CommitImport

LEMMA InjectionRows ==
  ASSUME TypeInv, SerialInv, NEW t \in Threads, CommitInjection(t)
  PROVE  /\ \A f \in Uploads : files'[f] = files[f]
         /\ rejections' = rejections
         /\ rows \subseteq rows'
         /\ \A r \in rows' : r \in rows \/ r \in Brought
         /\ \A r \in rows' : r \in rows \/ r.file = InjectedFile
<1>1. \A f \in Uploads : files'[f] = files[f]
  BY ImportAssumption DEF TypeInv, TypeOK, CommitInjection
<1>2. txn[t].rows \subseteq Brought
  BY DEF SerialInv, OwnRows, CommitInjection
<1>3. \A r \in Brought : r.file = InjectedFile
  BY DEF Brought
<1> QED
  BY <1>1, <1>2, <1>3 DEF CommitInjection

LEMMA PurgeRows ==
  ASSUME TypeInv, SerialInv, NEW t \in Threads, PurgeCommits(t)
  PROVE  /\ rows' \subseteq rows
         /\ \A f \in Uploads : f \in txn[t].files =>
              files'[f] = None /\ rejections'[f] = 0 /\ \A r \in rows' : r.file # f
         /\ \A f \in Uploads : f \notin txn[t].files =>
              /\ files'[f] = files[f] /\ rejections'[f] = rejections[f]
              /\ {r \in rows' : r.file = f} = {r \in rows : r.file = f}
<1>1. rows' = rows \ txn[t].rows
  BY DEF PurgeCommits
<1>2. \A f \in Uploads : f \in txn[t].files => \A r \in rows' : r.file # f
  BY <1>1 DEF PurgeCommits
<1>3. \A r \in txn[t].rows : r.file \in Uploads => r.file \in txn[t].files
  BY DEF SerialInv, OwnRows, PurgeCommits
<1>4. \A f \in Uploads : f \notin txn[t].files => {r \in rows' : r.file = f} = {r \in rows : r.file = f}
  BY <1>1, <1>3
<1>5. \A f \in Uploads : /\ files'[f] = IF f \in txn[t].files THEN None ELSE files[f]
                         /\ rejections'[f] = IF f \in txn[t].files THEN 0 ELSE rejections[f]
  BY DEF PurgeCommits, TypeInv, TypeOK
<1> QED
  BY <1>1, <1>2, <1>4, <1>5

LEMMA OneAtATimeStep ==
  ASSUME TypeInv, SerialInv, NEW t \in Threads, Work(t) \/ Arrive(t)
  PROVE  OneAtATime'
<1> SUFFICES ASSUME NEW u \in Threads, NEW v \in Threads, u # v,
                    op'[u] = "import", op'[v] = "import",
                    pc'[u] \in Screening, pc'[v] \in Screening
             PROVE  FALSE
  BY DEF OneAtATime
<1>1. CASE u # t /\ v # t
  BY <1>1, OthersStay DEF SerialInv, OneAtATime
<1>2. ASSUME NEW w \in Threads, w # t, op'[w] = "import", pc'[w] \in Screening,
             op'[t] = "import", pc'[t] \in Screening
      PROVE  FALSE
  <2>1. op[w] = "import" /\ pc[w] \in Screening
    BY <1>2, OthersStay
  <2>2. op[t] = "import" /\ (pc[t] \in Screening \/ OnTheLoop(t))
    BY <1>2, Enters
  <2> QED
    BY <1>2, <2>1, <2>2 DEF SerialInv, OneAtATime, OnTheLoop, Screening
<1>3. CASE u = t
  BY <1>2, <1>3
<1>4. CASE v = t
  BY <1>2, <1>4
<1> QED
  BY <1>1, <1>3, <1>4

(* While one import is being screened no other is committed. *)
LEMMA NoOtherCommit ==
  ASSUME TypeInv, SerialInv, NEW t \in Threads, NEW u \in Threads, u # t, op[u] = "import", pc[u] \in Screening
  PROVE  ~CommitImport(t)
<1>1. CommitImport(t) => op[t] = "import" /\ pc[t] \in Screening
  BY ImportRows DEF CommitImport, Screening, Importing
<1> QED
  BY <1>1 DEF SerialInv, OneAtATime

LEMMA NotReadStep ==
  ASSUME TypeInv, SerialInv, NEW t \in Threads, Work(t) \/ Arrive(t)
  PROVE  NotRead'
<1> SUFFICES ASSUME NEW u \in Threads, pc'[u] \in {"persist"} \cup Importing
             PROVE  files'[arg'[u]] = None
  BY DEF NotRead
<1>1. CASE u = t
  <2>1. CASE LookUp(t) /\ pc'[t] = "persist"
    <3>1. files[arg[t]] = None
      BY <2>1 DEF LookUp, Goto, TypeInv, TypeOK
    <3> QED
      BY <1>1, <2>1, <3>1 DEF LookUp, Quiet, db
  <2>2. CASE InsertSourceFile(t) \/ SelectRecord(t) \/ InsertRecord(t)
    <3>1. files[arg[t]] = None
      BY <2>2 DEF SerialInv, NotRead, InsertSourceFile, SelectRecord, InsertRecord, Importing
    <3> QED
      BY <1>1, <2>2, <3>1 DEF InsertSourceFile, SelectRecord, InsertRecord, Quiet, db
  <2> QED
    BY <1>1, <2>1, <2>2, Arrivals
<1>2. CASE u # t
  <2>1. pc[u] \in {"persist"} \cup Importing /\ arg'[u] = arg[u] /\ files[arg[u]] = None
    BY <1>2, OthersStay DEF SerialInv, NotRead
  <2>2. op[u] = "import" /\ arg[u] \in Uploads
    BY <2>1 DEF TypeInv, InHand, Fits
  <2>3. ~CommitImport(t)
    BY <1>2, <2>1, <2>2, NoOtherCommit DEF Screening
  <2> QED
    BY <2>1, <2>2, <2>3, TablesMove, InjectionRows, PurgeRows
<1> QED
  BY <1>1, <1>2

LEMMA RowsHaveFilesStep ==
  ASSUME TypeInv, SerialInv, NEW t \in Threads, Work(t) \/ Arrive(t)
  PROVE  RowsHaveFiles'
<1>1. CASE CommitImport(t)
  <2> SUFFICES ASSUME NEW r \in rows', r.file \in Uploads PROVE files'[r.file] # None
    BY DEF RowsHaveFiles
  <2>1. CASE r.file = arg[t]
    BY <1>1, <2>1, ImportRows
  <2>2. CASE r.file # arg[t]
    <3>1. r \in rows /\ files'[r.file] = files[r.file]
      BY <1>1, <2>2, ImportRows
    <3> QED
      BY <3>1 DEF SerialInv, RowsHaveFiles
  <2> QED
    BY <2>1, <2>2
<1>2. CASE CommitInjection(t)
  BY <1>2, InjectionRows, ImportAssumption DEF SerialInv, RowsHaveFiles
<1>3. CASE PurgeCommits(t)
  <2> SUFFICES ASSUME NEW r \in rows', r.file \in Uploads PROVE files'[r.file] # None
    BY DEF RowsHaveFiles
  <2>1. r \in rows /\ r.file \notin txn[t].files
    BY <1>3, PurgeRows
  <2> QED
    BY <1>3, <2>1, PurgeRows DEF SerialInv, RowsHaveFiles
<1>4. CASE UNCHANGED <<files, rejections, rows>>
  BY <1>4 DEF SerialInv, RowsHaveFiles
<1> QED
  BY <1>1, <1>2, <1>3, <1>4, TablesMove

LEMMA SeenAllStep ==
  ASSUME TypeInv, SerialInv, NEW t \in Threads, Work(t) \/ Arrive(t)
  PROVE  SeenAll'
<1> SUFFICES ASSUME NEW u \in Threads, pc'[u] = "upsert", op'[u] = "import", NEW r \in rows', r.file = arg'[u]
             PROVE  r \in seen'[u]
  BY DEF SeenAll
<1>1. CASE u = t
  BY <1>1, Arrivals DEF Detect, db, TypeInv, TypeOK
<1>2. CASE u # t
  <2>1. pc[u] = "upsert" /\ op[u] = "import" /\ arg'[u] = arg[u] /\ seen'[u] = seen[u]
    BY <1>2, OthersStay
  <2>2. arg[u] \in Uploads
    BY <2>1 DEF TypeInv, InHand, Fits
  <2>3. ~CommitImport(t)
    BY <1>2, <2>1, NoOtherCommit DEF Screening
  <2>4. r \in rows
    BY <2>1, <2>2, <2>3, TablesMove, InjectionRows, PurgeRows, ImportAssumption
  <2> QED
    BY <2>1, <2>4 DEF SerialInv, SeenAll
<1> QED
  BY <1>1, <1>2

LEMMA OwnRowsStep ==
  ASSUME TypeInv, SerialInv, NEW t \in Threads, Work(t) \/ Arrive(t), NEW u \in Threads
  PROVE  OwnRows(u)'
<1>1. CASE u # t
  <2>1. pc'[u] = pc[u] /\ arg'[u] = arg[u] /\ kind'[u] = kind[u] /\ txn'[u] = txn[u]
    BY <1>1, OthersStay
  <2>2. OwnRows(u)
    BY DEF SerialInv
  <2> QED
    BY <2>1, <2>2 DEF OwnRows
<1>2. CASE u = t
  <2>0. OwnRows(t) /\ Transaction(txn[t])
    BY DEF SerialInv, TypeInv, TypeOK
  <2>1. CASE InsertSourceFile(t)
    <3>1. txn[t] = Closed /\ Fits(t)
      BY <2>1 DEF TypeInv, InHand, Fits, InsertSourceFile, Importing
    <3>2. txn'[t].lines = Accepted(arg[t], kind[t]) /\ txn'[t].rows = {}
      BY <2>1, <3>1 DEF InsertSourceFile, TypeInv, TypeOK, Closed
    <3>3. pc'[t] = "select" /\ arg'[t] = arg[t] /\ kind'[t] = kind[t]
      BY <2>1 DEF InsertSourceFile, Goto, Quiet, TypeInv, TypeOK
    <3> QED
      BY <1>2, <3>2, <3>3, FS_EmptySet DEF OwnRows
  <2>2. CASE SelectRecord(t)
    <3>1. txn'[t].lines \subseteq txn[t].lines /\ txn'[t].rows = txn[t].rows
      BY <2>0, <2>2 DEF SelectRecord, TypeInv, TypeOK, Transaction, Closed
    <3>2. pc'[t] \in Importing /\ pc[t] \in Importing /\ arg'[t] = arg[t] /\ kind'[t] = kind[t]
      BY <2>2 DEF SelectRecord, Goto, Quiet, TypeInv, TypeOK, Importing
    <3> QED
      BY <1>2, <2>0, <3>1, <3>2 DEF OwnRows, Importing
  <2>3. CASE InsertRecord(t)
    <3>1. PICK i \in First(t) :
            txn' = [txn EXCEPT ![t].lines = @ \ {i},
                               ![t].rows = @ \cup IF OnRecord(t, i) THEN {} ELSE {Row(t, i)}]
      BY <2>3 DEF InsertRecord
    <3>2. /\ txn'[t].lines \subseteq txn[t].lines
          /\ txn'[t].rows = txn[t].rows \/ txn'[t].rows = txn[t].rows \cup {Row(t, i)}
      BY <2>0, <3>1 DEF TypeInv, TypeOK, Transaction, Closed
    <3>3. pc'[t] \in Importing /\ pc[t] \in Importing /\ arg'[t] = arg[t] /\ kind'[t] = kind[t]
      BY <2>3 DEF InsertRecord, Goto, Quiet, TypeInv, TypeOK, Importing
    <3>4. IsFiniteSet(txn'[t].rows)
      BY <2>0, <3>2, <3>3, FS_AddElement DEF OwnRows
    <3>5. Row(t, i).kind = kind[t] /\ Row(t, i).file = arg[t]
      BY DEF Row
    <3> QED
      BY <1>2, <2>0, <3>2, <3>3, <3>4, <3>5 DEF OwnRows, Importing
  <2>4. CASE InsertFile(t)
    <3>1. txn[t] = Closed
      BY <2>4 DEF TypeInv, InHand, Fits, InsertFile, Importing
    <3>2. txn'[t].rows = {} /\ pc'[t] = "company"
      BY <2>4, <3>1 DEF InsertFile, Goto, TypeInv, TypeOK, Closed
    <3> QED
      BY <1>2, <3>2 DEF OwnRows, Importing
  <2>5. CASE ReadCompany(t) /\ demo
    BY <1>2, <2>0, <2>5 DEF ReadCompany, Goto, NoTransaction, TypeInv, TypeOK, OwnRows, Importing
  <2>6. CASE InsertTransfers(t)
    <3>1. pc'[t] = "commit"
      BY <2>6 DEF InsertTransfers, Goto, TypeInv, TypeOK
    <3>2. txn'[t].rows =
          {[kind |-> "BANK", key |-> <<x>>, file |-> InjectedFile] :
             x \in {y \in InjectedKeys : <<y>> \notin {r.key : r \in {s \in rows : s.kind = "BANK"}}}}
      BY <2>0, <2>6 DEF InsertTransfers, TypeInv, TypeOK, Transaction, Closed
    <3>3. txn'[t].rows \subseteq Brought
      BY <3>2 DEF Brought
    <3> QED
      BY <1>2, <3>1, <3>3 DEF OwnRows, Importing
  <2>7. CASE Purge(t)
    <3>1. pc'[t] = "sweep" /\ txn'[t].rows = rows /\ txn'[t].files = {f \in DOMAIN files : files[f] # None}
      BY <2>0, <2>7 DEF Purge, Goto, TypeInv, TypeOK, Transaction, Closed
    <3>2. \A r \in rows : r.file \in Uploads => r.file \in {f \in DOMAIN files : files[f] # None}
      BY DEF SerialInv, RowsHaveFiles, TypeInv, TypeOK
    <3> QED
      BY <1>2, <3>1, <3>2 DEF OwnRows, Importing
  <2>8. CASE pc'[t] \notin Importing \cup {"company", "transfers", "commit", "sweep"}
    BY <1>2, <2>8 DEF OwnRows
  <2> QED
    BY <2>1, <2>2, <2>3, <2>4, <2>5, <2>6, <2>7, <2>8, Arrivals
<1> QED
  BY <1>1, <1>2

LEMMA SerialHolds == Spec => []SerialInv
<1>1. Init => SerialInv
  BY DEF Init, SerialInv, OneAtATime, NotRead, RowsHaveFiles, SeenAll, OwnRows, Screening, Importing
<1>2. TypeInv /\ SerialInv /\ [Next]_vars => SerialInv'
  <2> SUFFICES ASSUME TypeInv, SerialInv, [Next]_vars PROVE SerialInv'
    OBVIOUS
  <2>1. CASE Crash
    BY <2>1 DEF SerialInv, OneAtATime, NotRead, RowsHaveFiles, SeenAll, OwnRows, Screening, Importing, Crash, db
  <2>2. CASE UNCHANGED vars
    BY <2>2 DEF SerialInv, OneAtATime, NotRead, RowsHaveFiles, SeenAll, OwnRows, vars, db, Accepted,
                WholeFileFails, Lines, BankRow, Invoice, EfosRow, Cell
  <2>3. CASE \E t \in Threads : Work(t) \/ Arrive(t)
    BY <2>3, OneAtATimeStep, NotReadStep, RowsHaveFilesStep, SeenAllStep, OwnRowsStep DEF SerialInv
  <2> QED
    BY <2>1, <2>2, <2>3 DEF Next
<1> QED
  BY <1>1, <1>2, TypeHolds, PTL DEF Spec

-----------------------------------------------------------------------------
(* What the statements of an import make of its transaction. *)
LEMMA SelectMoves ==
  ASSUME TypeInv, NEW t \in Threads, SelectRecord(t)
  PROVE  /\ UNCHANGED <<rows, files, rejections, overtaken, arg, kind, asof>>
         /\ \E i \in First(t) :
              \/ /\ OnRecord(t, i)
                 /\ pc'[t] = "select"
                 /\ txn'[t] = [txn[t] EXCEPT !.lines = @ \ {i}, !.duplicates = @ + 1]
              \/ ~OnRecord(t, i) /\ pc'[t] = "insert" /\ txn'[t] = txn[t]
<1>1. PICK i \in First(t) :
        \/ OnRecord(t, i) /\ txn' = [txn EXCEPT ![t].lines = @ \ {i}, ![t].duplicates = @ + 1] /\ pc' = pc
        \/ ~OnRecord(t, i) /\ Goto(t, "insert") /\ txn' = txn
  BY Zenon DEF SelectRecord
<1>2. pc[t] = "select" /\ UNCHANGED <<rows, files, rejections, overtaken, arg, kind, asof>>
  BY DEF SelectRecord, Quiet, db
<1>3. CASE OnRecord(t, i) /\ txn' = [txn EXCEPT ![t].lines = @ \ {i}, ![t].duplicates = @ + 1] /\ pc' = pc
  <2>1. txn'[t] = [txn[t] EXCEPT !.lines = @ \ {i}, !.duplicates = @ + 1]
    BY <1>3 DEF TypeInv, TypeOK
  <2> QED
    BY <1>2, <1>3, <2>1
<1>4. CASE ~OnRecord(t, i) /\ Goto(t, "insert") /\ txn' = txn
  BY <1>2, <1>4 DEF TypeInv, TypeOK, Goto
<1> QED
  BY <1>1, <1>3, <1>4

LEMMA InsertMoves ==
  ASSUME TypeInv, NEW t \in Threads, InsertRecord(t)
  PROVE  /\ UNCHANGED <<rows, files, rejections, overtaken, arg, kind, asof>>
         /\ pc[t] = "insert" /\ pc'[t] = "select"
         /\ \E i \in First(t) :
              txn'[t] = [txn[t] EXCEPT !.lines = @ \ {i},
                                       !.rows = @ \cup IF OnRecord(t, i) THEN {} ELSE {Row(t, i)}]
<1>1. PICK i \in First(t) :
        txn' = [txn EXCEPT ![t].lines = @ \ {i},
                           ![t].rows = @ \cup IF OnRecord(t, i) THEN {} ELSE {Row(t, i)}]
  BY DEF InsertRecord
<1>2. txn'[t] = [txn[t] EXCEPT !.lines = @ \ {i},
                               !.rows = @ \cup IF OnRecord(t, i) THEN {} ELSE {Row(t, i)}]
  BY <1>1 DEF TypeInv, TypeOK
<1> QED
  BY <1>2 DEF InsertRecord, Goto, Quiet, db, TypeInv, TypeOK

LEMMA SourceFileMoves ==
  ASSUME TypeInv, SerialInv, NEW t \in Threads, InsertSourceFile(t)
  PROVE  /\ UNCHANGED <<rows, files, rejections, arg, kind, asof>>
         /\ overtaken' = overtaken \ {arg[t]} /\ files[arg[t]] = None
         /\ pc[t] = "persist" /\ op[t] = "import" /\ pc'[t] = "select"
         /\ txn'[t] = [Closed EXCEPT !.lines = Accepted(arg[t], kind[t])]
<1>1. txn[t] = Closed /\ op[t] = "import" /\ files[arg[t]] = None
  BY DEF TypeInv, InHand, Fits, InsertSourceFile, Importing, SerialInv, NotRead
<1>2. txn'[t] = [txn[t] EXCEPT !.lines = Accepted(arg[t], kind[t])]
  BY DEF InsertSourceFile, TypeInv, TypeOK
<1> QED
  BY <1>1, <1>2 DEF InsertSourceFile, Goto, Quiet, db, TypeInv, TypeOK

(* The steps that write the history. *)
LEMMA OvertakenMoves ==
  ASSUME NEW t \in Threads, Work(t) \/ Arrive(t)
  PROVE  InsertSourceFile(t) \/ PurgeCommits(t) \/ overtaken' = overtaken
<1>1. CASE Arrive(t) \/ Respond(t)
  BY <1>1 DEF Arrive, AskImport, AskInject, AskWipe, Ask, Respond, NoTransaction
<1>2. CASE GivesUp(t)
  BY <1>2, GivesUpEnds DEF Rollback
<1>3. CASE \/ EnsureCase(t) \/ LookUp(t) \/ Detect(t) \/ Upsert(t) \/ Clear(t)
           \/ (Begin(t) /\ caseExists) \/ (ReadCompany(t) /\ demo)
           \/ SelectRecord(t) \/ InsertRecord(t) \/ CommitImport(t)
           \/ InsertFile(t) \/ InsertTransfers(t) \/ CommitInjection(t) \/ Purge(t)
  BY <1>3 DEF EnsureCase, LookUp, Detect, Upsert, Clear, Begin, ReadCompany, SelectRecord, InsertRecord,
              CommitImport, InsertFile, InsertTransfers, CommitInjection, Purge, NoTransaction
<1> QED
  BY <1>1, <1>2, <1>3, Steps

(* An import and a wipe apart, rows are only added. *)
LEMMA RowsGrow ==
  ASSUME TypeInv, SerialInv, NEW t \in Threads, Work(t) \/ Arrive(t), ~PurgeCommits(t)
  PROVE  rows \subseteq rows'
  BY TablesMove, ImportRows, InjectionRows

-----------------------------------------------------------------------------
(* Credit: as long as no wipe has ended during an import, what it has left
   behind is on record, or is its own. *)
InProgress ==
  \A t \in Threads :
    pc[t] \in Importing /\ arg[t] \notin overtaken =>
      \A i \in Accepted(arg[t], kind[t]) \ txn[t].lines : OnRecord(t, i)

LEMMA OnRecordStays ==
  ASSUME NEW t \in Threads, NEW i, OnRecord(t, i), UNCHANGED <<arg[t], kind[t], asof[t]>>,
         rows \subseteq rows', txn[t].rows \subseteq txn'[t].rows
  PROVE  OnRecord(t, i)'
<1>1. PICK r \in rows \cup txn[t].rows : r.kind = kind[t] /\ r.key = KeyOf(t, i)
  BY DEF OnRecord
<1>2. RecordKey(arg[t], kind[t], asof[t], i) = RecordKey(arg'[t], kind'[t], asof'[t], i)
  OBVIOUS
<1>3. r \in rows' \cup txn'[t].rows /\ r.kind = kind'[t] /\ r.key = RecordKey(arg'[t], kind'[t], asof'[t], i)
  BY <1>1, <1>2 DEF KeyOf
<1> QED
  BY <1>3 DEF OnRecord, KeyOf

LEMMA InProgressStep ==
  ASSUME TypeInv, SerialInv, InProgress, NEW t \in Threads, Work(t) \/ Arrive(t)
  PROVE  InProgress'
<1> SUFFICES ASSUME NEW u \in Threads, pc'[u] \in Importing, arg'[u] \notin overtaken',
                    NEW j \in Accepted(arg'[u], kind'[u]) \ txn'[u].lines
             PROVE  OnRecord(u, j)'
  BY DEF InProgress
<1>0. Transaction(txn[t])
  BY DEF TypeInv, TypeOK
<1>1. CASE u = t /\ InsertSourceFile(t)
  <2>1. txn'[t].lines = Accepted(arg[t], kind[t]) /\ arg' = arg /\ kind' = kind
    BY <1>1, SourceFileMoves DEF Closed
  <2> QED
    BY <1>1, <2>1
<1>2. CASE u = t /\ SelectRecord(t)
  <2>1. pc[t] \in Importing /\ arg[t] \notin overtaken /\ rows' = rows
    BY <1>2, SelectMoves DEF SelectRecord, Importing
  <2>2. UNCHANGED <<arg[t], kind[t], asof[t]>>
    BY <1>2, SelectMoves
  <2>3. txn'[t].rows = txn[t].rows /\ (j \in txn[t].lines => OnRecord(t, j))
    <3>1. PICK i \in First(t) :
            \/ OnRecord(t, i) /\ txn'[t] = [txn[t] EXCEPT !.lines = @ \ {i}, !.duplicates = @ + 1]
            \/ txn'[t] = txn[t]
      BY <1>2, SelectMoves
    <3> QED
      BY <1>0, <1>2, <3>1 DEF Transaction, Closed
  <2>4. OnRecord(t, j)
    BY <1>2, <2>1, <2>2, <2>3 DEF InProgress
  <2> QED
    BY <1>2, <2>1, <2>2, <2>3, <2>4, OnRecordStays
<1>3. CASE u = t /\ InsertRecord(t)
  <2>1. pc[t] \in Importing /\ arg[t] \notin overtaken /\ rows' = rows
    BY <1>3, InsertMoves DEF Importing
  <2>2. UNCHANGED <<arg[t], kind[t], asof[t]>>
    BY <1>3, InsertMoves
  <2>3. PICK i \in First(t) :
          txn'[t] = [txn[t] EXCEPT !.lines = @ \ {i},
                                   !.rows = @ \cup IF OnRecord(t, i) THEN {} ELSE {Row(t, i)}]
    BY <1>3, InsertMoves
  <2>4. /\ txn[t].rows \subseteq txn'[t].rows
        /\ txn'[t].lines = txn[t].lines \ {i}
        /\ OnRecord(t, i) \/ Row(t, i) \in txn'[t].rows
    BY <1>0, <2>3 DEF Transaction, Closed
  <2>5. CASE OnRecord(t, j)
    BY <1>3, <2>1, <2>2, <2>4, <2>5, OnRecordStays
  <2>6. CASE ~OnRecord(t, j)
    <3>1. j = i
      BY <1>3, <2>1, <2>2, <2>4, <2>6 DEF InProgress
    <3>2. Row(t, j) \in txn'[t].rows
      BY <2>4, <2>6, <3>1
    <3>3. Row(t, j).kind = kind'[t] /\ Row(t, j).key = RecordKey(arg'[t], kind'[t], asof'[t], j)
      BY <2>2 DEF Row, KeyOf
    <3> QED
      BY <1>3, <3>2, <3>3 DEF OnRecord, KeyOf
  <2> QED
    BY <2>5, <2>6
<1>4. CASE u # t
  <2>1. /\ pc[u] \in Importing /\ op[u] = "import" /\ UNCHANGED <<arg[u], kind[u], asof[u]>>
        /\ txn'[u] = txn[u]
    BY <1>4, OthersStay DEF TypeInv, InHand, Fits
  <2>2. ~PurgeCommits(t)
    <3>1. arg[u] \in Uploads
      BY <2>1 DEF TypeInv, InHand, Fits
    <3> QED
      BY <2>1, <3>1 DEF PurgeCommits, Survivors
  <2>3. ~InsertSourceFile(t)
    <3>1. InsertSourceFile(t) => op[t] = "import" /\ pc[t] \in Screening
      BY SourceFileMoves DEF Screening
    <3> QED
      BY <1>4, <2>1, <3>1 DEF SerialInv, OneAtATime, Screening
  <2>4. overtaken' = overtaken /\ rows \subseteq rows'
    BY <2>2, <2>3, OvertakenMoves, RowsGrow
  <2>5. OnRecord(u, j)
    BY <2>1, <2>4 DEF InProgress
  <2> QED
    BY <2>1, <2>4, <2>5, OnRecordStays
<1> QED
  BY <1>1, <1>2, <1>3, <1>4, Arrivals

LEMMA CreditedStep ==
  ASSUME TypeInv, SerialInv, InProgress, CreditedRecordsAreThere, NEW t \in Threads, Work(t) \/ Arrive(t)
  PROVE  CreditedRecordsAreThere'
<1> DEFINE There(f, i) == \E r \in rows', date \in SnapshotDates :
                            r.kind = files'[f].kind /\ r.key = RecordKey(f, files'[f].kind, date, i)
<1> SUFFICES ASSUME NEW f \in Uploads, f \notin overtaken', files'[f] # None,
                    NEW i \in Accepted(f, files'[f].kind)
             PROVE  There(f, i)
  BY DEF CreditedRecordsAreThere
<1>1. ASSUME files'[f] = files[f], rows \subseteq rows', f \notin overtaken
      PROVE  There(f, i)
  BY <1>1 DEF CreditedRecordsAreThere
<1>2. CASE PurgeCommits(t)
  <2>1. f \notin txn[t].files /\ files[f] # None
    BY <1>2, PurgeRows
  <2> QED
    BY <1>2, <2>1 DEF PurgeCommits, Survivors
<1>3. CASE InsertSourceFile(t)
  <2>1. f # arg[t]
    BY <1>3, SourceFileMoves
  <2> QED
    BY <1>1, <1>3, <2>1, SourceFileMoves
<1>4. CASE CommitImport(t)
  <2>1. overtaken' = overtaken
    BY <1>4 DEF CommitImport
  <2>2. CASE f # arg[t]
    BY <1>1, <1>4, <2>1, <2>2, ImportRows
  <2>3. CASE f = arg[t]
    <3>1. files'[f].kind = kind[t]
      <4>1. Report(t).kind = kind[t]
        BY DEF Report
      <4> QED
        BY <1>4, <2>3, <4>1, ImportRows
    <3>2. OnRecord(t, i)
      BY <1>4, <2>1, <2>3, <3>1 DEF InProgress, CommitImport, Importing
    <3>3. asof[t] \in SnapshotDates
      BY <1>4, ImportRows DEF TypeInv, InHand, Fits
    <3>4. PICK r \in rows' : r.kind = kind[t] /\ r.key = RecordKey(f, kind[t], asof[t], i)
      BY <1>4, <2>3, <3>2, ImportRows DEF OnRecord, KeyOf
    <3> QED
      BY <3>1, <3>3, <3>4
  <2> QED
    BY <2>2, <2>3
<1>5. CASE ~PurgeCommits(t) /\ ~InsertSourceFile(t) /\ ~CommitImport(t)
  <2>1. overtaken' = overtaken /\ rows \subseteq rows' /\ files'[f] = files[f]
    BY <1>5, OvertakenMoves, RowsGrow, TablesMove, InjectionRows
  <2> QED
    BY <1>1, <2>1
<1> QED
  BY <1>2, <1>3, <1>4, <1>5

(* What a file on record was credited with is on record: whatever is refused,
   rolled back or injected meanwhile, only a wipe that ends during the import
   of it can have taken it. *)
THEOREM CreditedStays == Spec => []CreditedRecordsAreThere
<1>1. Init => InProgress /\ CreditedRecordsAreThere
  BY DEF Init, InProgress, CreditedRecordsAreThere, Importing
<1>2. TypeInv /\ SerialInv /\ InProgress /\ CreditedRecordsAreThere /\ [Next]_vars =>
        InProgress' /\ CreditedRecordsAreThere'
  <2> SUFFICES ASSUME TypeInv, SerialInv, InProgress, CreditedRecordsAreThere, [Next]_vars
               PROVE  InProgress' /\ CreditedRecordsAreThere'
    OBVIOUS
  <2>1. CASE Crash
    BY <2>1 DEF InProgress, CreditedRecordsAreThere, Crash, db, Importing
  <2>2. CASE UNCHANGED vars
    BY <2>2 DEF InProgress, CreditedRecordsAreThere, OnRecord, KeyOf, vars, db
  <2>3. CASE \E t \in Threads : Work(t) \/ Arrive(t)
    BY <2>3, InProgressStep, CreditedStep
  <2> QED
    BY <2>1, <2>2, <2>3 DEF Next
<1> QED
  BY <1>1, <1>2, TypeHolds, SerialHolds, PTL DEF Spec
-----------------------------------------------------------------------------
(* Counts: a record that comes on record between the SELECT and the INSERT
   is one that an injection brought; *)
Fresh ==
  \A t \in Threads :
    pc[t] = "insert" =>
      \A i \in First(t) : OnRecord(t, i) => i \in AlsoInjected(arg[t], kind[t])

(* so of the lines that an import has done, all but those are counted. *)
Counted(t) == Cardinality(txn[t].rows) + txn[t].duplicates

Tally(t) ==
  LET A == Accepted(arg[t], kind[t])
      J == AlsoInjected(arg[t], kind[t])
  IN pc[t] \in Importing =>
       /\ Counted(t) + Cardinality(txn[t].lines) <= Cardinality(A)
       /\ Cardinality(A) <= Counted(t) + Cardinality(txn[t].lines) + Cardinality(J \ txn[t].lines)

Tallies == \A t \in Threads : Tally(t)

(* One more line is done. *)
LEMMA OneLineLess ==
  ASSUME NEW L, NEW J, IsFiniteSet(L), IsFiniteSet(J), NEW i \in L
  PROVE  /\ Cardinality(L) \in Nat /\ Cardinality(L \ {i}) \in Nat
         /\ Cardinality(J \ L) \in Nat /\ Cardinality(J \ (L \ {i})) \in Nat
         /\ Cardinality(L) = Cardinality(L \ {i}) + 1
         /\ Cardinality(J \ L) <= Cardinality(J \ (L \ {i}))
         /\ i \in J => Cardinality(J \ (L \ {i})) = Cardinality(J \ L) + 1
<1>1. IsFiniteSet(L \ {i}) /\ Cardinality(L \ {i}) = Cardinality(L) - 1
  BY FS_RemoveElement
<1>2. IsFiniteSet(J \ L) /\ IsFiniteSet(J \ (L \ {i}))
  BY FS_Subset
<1>3. Cardinality(J \ L) <= Cardinality(J \ (L \ {i}))
  <2>1. J \ L \subseteq J \ (L \ {i})
    OBVIOUS
  <2> QED
    BY <1>2, <2>1, FS_Subset
<1>4. ASSUME i \in J PROVE Cardinality(J \ (L \ {i})) = Cardinality(J \ L) + 1
  <2>1. J \ (L \ {i}) = (J \ L) \cup {i} /\ i \notin J \ L
    BY <1>4
  <2> QED
    BY <1>2, <2>1, FS_AddElement
<1>5. /\ Cardinality(L) \in Nat /\ Cardinality(L \ {i}) \in Nat
      /\ Cardinality(J \ L) \in Nat /\ Cardinality(J \ (L \ {i})) \in Nat
  BY <1>1, <1>2, FS_CardinalityType
<1> QED
  BY <1>1, <1>3, <1>4, <1>5

(* An import's sets are finite, and its first line is one. *)
LEMMA Finite ==
  ASSUME TypeInv, SerialInv, NEW t \in Threads, pc[t] \in Importing
  PROVE  /\ arg[t] \in Uploads /\ kind[t] \in Kinds
         /\ txn[t].lines \subseteq Accepted(arg[t], kind[t])
         /\ IsFiniteSet(txn[t].lines) /\ txn[t].lines \subseteq Nat
         /\ IsFiniteSet(AlsoInjected(arg[t], kind[t]))
         /\ IsFiniteSet(txn[t].rows) /\ Cardinality(txn[t].rows) \in Nat
         /\ txn[t].duplicates \in Nat /\ Counted(t) \in Nat
         /\ Cardinality(Accepted(arg[t], kind[t])) \in Nat
         /\ \A i, j \in First(t) : i = j
<1>1. arg[t] \in Uploads /\ kind[t] \in Kinds
  BY DEF TypeInv, InHand, Fits
<1>2. txn[t].lines \subseteq Accepted(arg[t], kind[t]) /\ IsFiniteSet(txn[t].rows)
  BY DEF SerialInv, OwnRows
<1>3. txn[t].lines \subseteq Nat /\ txn[t].duplicates \in Nat
  BY DEF TypeInv, TypeOK, Transaction
<1>4. AlsoInjected(arg[t], kind[t]) \subseteq Accepted(arg[t], kind[t])
  BY DEF AlsoInjected
<1>5. IsFiniteSet(txn[t].lines) /\ IsFiniteSet(AlsoInjected(arg[t], kind[t]))
  BY <1>1, <1>2, <1>4, AcceptedAreLines, FS_Subset
<1>6. Cardinality(txn[t].rows) \in Nat /\ Cardinality(Accepted(arg[t], kind[t])) \in Nat
  BY <1>1, <1>2, AcceptedAreLines, FS_CardinalityType
<1>7. \A i, j \in First(t) : i = j
  <2> SUFFICES ASSUME NEW i \in First(t), NEW j \in First(t) PROVE i = j
    OBVIOUS
  <2>1. i \in Nat /\ j \in Nat /\ i <= j /\ j <= i
    BY <1>3 DEF First
  <2> QED
    BY <2>1
<1> QED
  BY <1>1, <1>2, <1>3, <1>5, <1>6, <1>7 DEF Counted

LEMMA FreshStep ==
  ASSUME TypeInv, SerialInv, Fresh, NEW t \in Threads, Work(t) \/ Arrive(t)
  PROVE  Fresh'
<1> SUFFICES ASSUME NEW u \in Threads, pc'[u] = "insert", NEW i \in First(u)', OnRecord(u, i)'
             PROVE  i \in AlsoInjected(arg'[u], kind'[u])
  BY DEF Fresh
<1>1. CASE u = t
  <2>1. SelectRecord(t)
    BY <1>1, Arrivals, SourceFileMoves, InsertMoves DEF Importing
  <2>2. PICK j \in First(t) : ~OnRecord(t, j) /\ txn'[t] = txn[t]
    BY <1>1, <2>1, SelectMoves
  <2>3. First(t)' = First(t) /\ rows' = rows /\ UNCHANGED <<arg, kind, asof>>
    BY <2>1, <2>2, SelectMoves DEF First
  <2>4. i = j
    BY <1>1, <2>1, <2>2, <2>3, Finite DEF SelectRecord, Importing
  <2>5. OnRecord(t, i)' <=> OnRecord(t, i)
    BY <2>2, <2>3 DEF OnRecord, KeyOf
  <2> QED
    BY <1>1, <2>2, <2>4, <2>5
<1>2. CASE u # t
  <2>1. /\ pc[u] = "insert" /\ arg'[u] = arg[u] /\ kind'[u] = kind[u] /\ asof'[u] = asof[u]
        /\ txn'[u] = txn[u]
    BY <1>2, OthersStay
  <2>2. op[u] = "import" /\ pc[u] \in Importing
    BY <2>1 DEF TypeInv, InHand, Fits, Importing
  <2>3. ~CommitImport(t)
    BY <1>2, <2>2, NoOtherCommit DEF Screening
  <2>4. PICK r \in rows' \cup txn[u].rows :
          r.kind = kind[u] /\ r.key = RecordKey(arg[u], kind[u], asof[u], i)
    BY <2>1 DEF OnRecord, KeyOf
  <2>5. i \in First(u) /\ i \in Accepted(arg[u], kind[u])
    <3>1. i \in First(u)
      BY <2>1 DEF First
    <3> QED
      BY <2>2, <3>1, Finite DEF First
  <2>6. CASE r \in rows \cup txn[u].rows
    <3>1. OnRecord(u, i)
      BY <2>4, <2>6 DEF OnRecord, KeyOf
    <3> QED
      BY <2>1, <2>5, <3>1 DEF Fresh
  <2>7. CASE r \notin rows \cup txn[u].rows
    <3>1. r \in Brought
      BY <2>3, <2>4, <2>7, TablesMove, InjectionRows, PurgeRows
    <3>2. kind[u] = "BANK" /\ \E x \in InjectedKeys : r.key = <<x>>
      BY <2>4, <3>1 DEF Brought
    <3>3. r.key = <<Cell(arg[u], i, "transaction_id")>>
      BY <2>4, <3>2 DEF RecordKey
    <3>4. Cell(arg[u], i, "transaction_id") \in InjectedKeys
      BY <3>2, <3>3
    <3> QED
      BY <2>1, <2>5, <3>2, <3>4 DEF AlsoInjected
  <2> QED
    BY <2>6, <2>7
<1> QED
  BY <1>1, <1>2

LEMMA TallyStep ==
  ASSUME TypeInv, SerialInv, Fresh, Tallies, NEW t \in Threads, Work(t) \/ Arrive(t), NEW u \in Threads
  PROVE  Tally(u)'
<1> DEFINE A == Accepted(arg[t], kind[t])
           J == AlsoInjected(arg[t], kind[t])
           L == txn[t].lines
<1>0. Transaction(txn[t])
  BY DEF TypeInv, TypeOK
<1>1. CASE u # t
  <2>1. pc'[u] = pc[u] /\ arg'[u] = arg[u] /\ kind'[u] = kind[u] /\ txn'[u] = txn[u]
    BY <1>1, OthersStay
  <2> QED
    BY <2>1 DEF Tallies, Tally, Counted
<1>2. CASE u = t /\ InsertSourceFile(t)
  <2>1. UNCHANGED <<arg, kind>> /\ txn'[t].lines = A /\ txn'[t].rows = {} /\ txn'[t].duplicates = 0
    BY <1>2, SourceFileMoves DEF Closed
  <2>2. arg[t] \in Uploads /\ kind[t] \in Kinds
    BY <1>2 DEF TypeInv, InHand, Fits, InsertSourceFile
  <2>3. Cardinality(A) \in Nat /\ IsFiniteSet(J \ A)
    <3>1. J \ A = {}
      BY DEF AlsoInjected
    <3> QED
      BY <2>2, <3>1, AcceptedAreLines, FS_EmptySet
  <2>4. Cardinality(J \ A) \in Nat
    BY <2>3, FS_CardinalityType
  <2>5. Counted(t)' = 0
    BY <2>1, FS_EmptySet DEF Counted
  <2> QED
    BY <1>2, <2>1, <2>3, <2>4, <2>5 DEF Tally
<1>3. CASE u = t /\ SelectRecord(t)
  <2>0. pc[t] \in Importing
    BY <1>3 DEF SelectRecord, Importing
  <2>1. PICK i \in First(t) :
          \/ txn'[t] = [txn[t] EXCEPT !.lines = @ \ {i}, !.duplicates = @ + 1]
          \/ txn'[t] = txn[t]
    BY <1>3, SelectMoves
  <2>2. UNCHANGED <<arg, kind>>
    BY <1>3, SelectMoves
  <2>3. CASE txn'[t] = txn[t]
    BY <1>3, <2>0, <2>2, <2>3 DEF Tallies, Tally, Counted
  <2>4. CASE txn'[t] = [txn[t] EXCEPT !.lines = @ \ {i}, !.duplicates = @ + 1]
    <3>1. txn'[t].lines = L \ {i} /\ txn'[t].rows = txn[t].rows /\ txn'[t].duplicates = txn[t].duplicates + 1
      BY <1>0, <2>4 DEF Transaction, Closed
    <3>2. Counted(t)' = Counted(t) + 1
      BY <2>0, <3>1, Finite DEF Counted
    <3>3. /\ Cardinality(L) = Cardinality(L \ {i}) + 1 /\ Cardinality(L \ {i}) \in Nat
          /\ Cardinality(J \ L) <= Cardinality(J \ (L \ {i}))
          /\ Cardinality(J \ L) \in Nat /\ Cardinality(J \ (L \ {i})) \in Nat
      BY <2>0, Finite, OneLineLess DEF First
    <3>4. /\ Counted(t) + Cardinality(L) <= Cardinality(A)
          /\ Cardinality(A) <= Counted(t) + Cardinality(L) + Cardinality(J \ L)
      BY <2>0 DEF Tallies, Tally
    <3>5. Counted(t) \in Nat /\ Cardinality(A) \in Nat
      BY <2>0, Finite
    <3> HIDE DEF A, J, L
    <3>6. /\ Counted(t)' + Cardinality(L \ {i}) <= Cardinality(A)
          /\ Cardinality(A) <= Counted(t)' + Cardinality(L \ {i}) + Cardinality(J \ (L \ {i}))
      BY <3>2, <3>3, <3>4, <3>5
    <3> QED
      BY <1>3, <2>2, <3>1, <3>6 DEF Tally, A, J
  <2> QED
    BY <2>1, <2>3, <2>4
<1>4. CASE u = t /\ InsertRecord(t)
  <2>0. pc[t] \in Importing /\ pc[t] = "insert"
    BY <1>4, InsertMoves DEF Importing
  <2>1. PICK i \in First(t) :
          txn'[t] = [txn[t] EXCEPT !.lines = @ \ {i},
                                   !.rows = @ \cup IF OnRecord(t, i) THEN {} ELSE {Row(t, i)}]
    BY <1>4, InsertMoves
  <2>2. UNCHANGED <<arg, kind>>
    BY <1>4, InsertMoves
  <2>3. /\ txn'[t].lines = L \ {i} /\ txn'[t].duplicates = txn[t].duplicates
        /\ txn'[t].rows = txn[t].rows \cup IF OnRecord(t, i) THEN {} ELSE {Row(t, i)}
    BY <1>0, <2>1 DEF Transaction, Closed
  <2>4. /\ Cardinality(L) = Cardinality(L \ {i}) + 1 /\ Cardinality(L \ {i}) \in Nat
        /\ Cardinality(J \ L) <= Cardinality(J \ (L \ {i}))
        /\ i \in J => Cardinality(J \ (L \ {i})) = Cardinality(J \ L) + 1
        /\ Cardinality(J \ L) \in Nat /\ Cardinality(J \ (L \ {i})) \in Nat
    BY <2>0, Finite, OneLineLess DEF First
  <2>5. \/ Counted(t)' = Counted(t) + 1
        \/ Counted(t)' = Counted(t) /\ i \in J
    <3>1. CASE OnRecord(t, i)
      <4>1. txn'[t].rows = txn[t].rows
        BY <2>3, <3>1
      <4> QED
        BY <2>0, <2>3, <3>1, <4>1 DEF Counted, Fresh
    <3>2. CASE ~OnRecord(t, i)
      <4>1. Row(t, i) \notin txn[t].rows
        BY <3>2 DEF OnRecord, Row
      <4>2. txn'[t].rows = txn[t].rows \cup {Row(t, i)}
        BY <2>3, <3>2
      <4>3. Cardinality(txn'[t].rows) = Cardinality(txn[t].rows) + 1
        BY <2>0, <4>1, <4>2, Finite, FS_AddElement
      <4> QED
        BY <2>0, <2>3, <4>3, Finite DEF Counted
    <3> QED
      BY <3>1, <3>2
  <2>6. /\ Counted(t) + Cardinality(L) <= Cardinality(A)
        /\ Cardinality(A) <= Counted(t) + Cardinality(L) + Cardinality(J \ L)
    BY <2>0 DEF Tallies, Tally
  <2>7. Counted(t) \in Nat /\ Cardinality(A) \in Nat
    BY <2>0, Finite
  <2> HIDE DEF A, J, L
  <2>8. /\ Counted(t)' + Cardinality(L \ {i}) <= Cardinality(A)
        /\ Cardinality(A) <= Counted(t)' + Cardinality(L \ {i}) + Cardinality(J \ (L \ {i}))
    BY <2>4, <2>5, <2>6, <2>7
  <2> QED
    BY <1>4, <2>2, <2>3, <2>8 DEF Tally, A, J
<1>5. CASE u = t /\ pc'[t] \notin Importing
  BY <1>5 DEF Tally
<1> QED
  BY <1>1, <1>2, <1>3, <1>4, <1>5, Arrivals

LEMMA CommittedCounts ==
  ASSUME TypeInv, SerialInv, Tallies, NEW t \in Threads, CommitImport(t)
  PROVE  LET f == arg[t]
             counted == Cardinality({r \in rows' : r.file = f}) + files'[f].deduplicated
         IN /\ counted <= files'[f].accepted
            /\ files'[f].accepted <= counted + Cardinality(AlsoInjected(f, files'[f].kind))
<1> DEFINE f == arg[t]
           A == Accepted(f, kind[t])
           J == AlsoInjected(f, kind[t])
<1>1. pc[t] \in Importing /\ txn[t].lines = {}
  BY DEF CommitImport, Importing
<1>2. {r \in rows' : r.file = f} = txn[t].rows
  BY ImportRows
<1>3. /\ Report(t).kind = kind[t] /\ Report(t).accepted = Cardinality(A)
      /\ Report(t).deduplicated = txn[t].duplicates
  BY DEF Report
<1>4. files'[f].kind = kind[t] /\ files'[f].accepted = Cardinality(A) /\ files'[f].deduplicated = txn[t].duplicates
  BY <1>3, ImportRows
<1>5. Cardinality({}) = 0 /\ J \ {} = J
  BY FS_EmptySet
<1>6. Counted(t) \in Nat /\ Cardinality(A) \in Nat /\ Cardinality(J) \in Nat
  BY <1>1, Finite, FS_CardinalityType
<1>7. /\ Counted(t) + Cardinality({}) <= Cardinality(A)
      /\ Cardinality(A) <= Counted(t) + Cardinality({}) + Cardinality(J \ {})
  BY <1>1 DEF Tallies, Tally
<1>8. Counted(t) <= Cardinality(A) /\ Cardinality(A) <= Counted(t) + Cardinality(J)
  BY <1>5, <1>6, <1>7
<1>9. Counted(t) = Cardinality({r \in rows' : r.file = f}) + files'[f].deduplicated
  BY <1>2, <1>4 DEF Counted
<1> QED
  BY <1>4, <1>8, <1>9

LEMMA ReportsStep ==
  ASSUME TypeInv, SerialInv, Tallies, ReportsAreTheTables, NEW t \in Threads, Work(t) \/ Arrive(t)
  PROVE  ReportsAreTheTables'
<1> DEFINE Its(S, f) == {r \in S : r.file = f}
           Counts(g, n, S, f) ==
             /\ g[f] = None => n[f] = 0 /\ \A r \in S : r.file # f
             /\ g[f] # None =>
                  LET counted == Cardinality(Its(S, f)) + g[f].deduplicated
                  IN /\ counted <= g[f].accepted
                     /\ g[f].accepted <= counted + Cardinality(AlsoInjected(f, g[f].kind))
                     /\ g[f].rejected = n[f]
<1> SUFFICES ASSUME NEW f \in Uploads PROVE Counts(files', rejections', rows', f)
  BY DEF ReportsAreTheTables
<1>0. Counts(files, rejections, rows, f)
  BY DEF ReportsAreTheTables
<1>1. ASSUME files'[f] = files[f], rejections'[f] = rejections[f], Its(rows', f) = Its(rows, f)
      PROVE  Counts(files', rejections', rows', f)
  <2>1. (\A r \in rows : r.file # f) => \A r \in rows' : r.file # f
    BY <1>1
  <2> QED
    BY <1>0, <1>1, <2>1
<1>2. CASE CommitImport(t)
  <2>1. CASE f = arg[t]
    <3>1. files'[f] # None /\ Report(t).rejected = Rejected(f, kind[t])
      BY <1>2, <2>1, ImportRows DEF Report
    <3>2. rejections[f] = 0 /\ Rejected(f, kind[t]) \in Nat
      <4>1. files[f] = None
        BY <1>2, <2>1 DEF SerialInv, NotRead, CommitImport, Importing
      <4> QED
        BY <1>0, <1>2, <2>1, <4>1, ImportRows, AcceptedAreLines
    <3>3. files'[f].rejected = rejections'[f]
      <4>1. rejections'[f] = rejections[f] + Rejected(f, kind[t])
        BY <1>2, <2>1 DEF CommitImport, TypeInv, TypeOK
      <4> QED
        BY <1>2, <2>1, <3>1, <3>2, <4>1, ImportRows
    <3>4. LET counted == Cardinality(Its(rows', f)) + files'[f].deduplicated
          IN /\ counted <= files'[f].accepted
             /\ files'[f].accepted <= counted + Cardinality(AlsoInjected(f, files'[f].kind))
      BY <1>2, <2>1, CommittedCounts
    <3> QED
      BY <3>1, <3>3, <3>4
  <2>2. CASE f # arg[t]
    <3>1. Its(rows', f) = Its(rows, f)
      BY <1>2, <2>2, ImportRows
    <3> HIDE DEF Its, Counts
    <3> QED
      BY <1>1, <1>2, <2>2, <3>1, ImportRows
  <2> QED
    BY <2>1, <2>2
<1>3. CASE CommitInjection(t)
  <2>1. Its(rows', f) = Its(rows, f)
    BY <1>3, InjectionRows, ImportAssumption
  <2> HIDE DEF Its, Counts
  <2> QED
    BY <1>1, <1>3, <2>1, InjectionRows
<1>4. CASE PurgeCommits(t)
  <2>1. CASE f \in txn[t].files
    BY <1>4, <2>1, PurgeRows
  <2>2. CASE f \notin txn[t].files
    <3>1. files'[f] = files[f] /\ rejections'[f] = rejections[f] /\ Its(rows', f) = Its(rows, f)
      BY <1>4, <2>2, PurgeRows
    <3> HIDE DEF Its, Counts
    <3> QED
      BY <1>1, <3>1
  <2> QED
    BY <2>1, <2>2
<1>5. CASE UNCHANGED <<files, rejections, rows>>
  BY <1>0, <1>5
<1> QED
  BY <1>2, <1>3, <1>4, <1>5, TablesMove

(* The counts a file is reported with are those of the tables, but for what
   an injection brought between the SELECT and the INSERT of a transfer. *)
THEOREM CountsAreTrue == Spec => []ReportsAreTheTables
<1>1. Init => Fresh /\ Tallies /\ ReportsAreTheTables
  BY DEF Init, Fresh, Tallies, Tally, ReportsAreTheTables, Importing
<1>2. TypeInv /\ SerialInv /\ Fresh /\ Tallies /\ ReportsAreTheTables /\ [Next]_vars =>
        Fresh' /\ Tallies' /\ ReportsAreTheTables'
  <2> SUFFICES ASSUME TypeInv, SerialInv, Fresh, Tallies, ReportsAreTheTables, [Next]_vars
               PROVE  Fresh' /\ Tallies' /\ ReportsAreTheTables'
    OBVIOUS
  <2>1. CASE Crash
    BY <2>1 DEF Fresh, Tallies, Tally, ReportsAreTheTables, Crash, db, Importing
  <2>2. CASE UNCHANGED vars
    BY <2>2 DEF Fresh, Tallies, Tally, Counted, First, OnRecord, KeyOf, ReportsAreTheTables, vars, db
  <2>3. CASE \E t \in Threads : Work(t) \/ Arrive(t)
    BY <2>3, FreshStep, TallyStep, ReportsStep DEF Tallies
  <2> QED
    BY <2>1, <2>2, <2>3 DEF Next
<1> QED
  BY <1>1, <1>2, TypeHolds, SerialHolds, PTL DEF Spec

(* Every variable keeps its type. *)
THEOREM TypeCorrect == Spec => []TypeOK
<1>1. TypeInv => TypeOK
  BY DEF TypeInv
<1> QED
  BY <1>1, TypeHolds, PTL

(* An upload is answered OK only when the detectors have read all it brought. *)
THEOREM AnsweredWhenScreened == Spec => ScreenedBeforeAnswered
<1>1. TypeInv /\ SerialInv /\ [Next]_vars =>
        [\A t \in Threads :
           op[t] = "import" /\ answer[t] = None /\ answer'[t] = "OK" =>
             \A r \in rows' : r.file = arg[t] => r \in raised']_vars
  <2> SUFFICES ASSUME TypeInv, SerialInv, Next,
                      NEW t \in Threads, op[t] = "import", answer[t] = None, answer'[t] = "OK",
                      NEW r \in rows', r.file = arg[t]
               PROVE  r \in raised'
    OBVIOUS
  <2>1. ~Crash
    BY ImportAssumption DEF Crash
  <2>2. PICK u \in Threads : Work(u) \/ Arrive(u)
    BY <2>1 DEF Next
  <2>3. u = t
    <3>1. u # t => answer'[t] = answer[t]
      BY <2>2, OthersStay
    <3> QED
      BY <3>1, ImportAssumption
  <2>4. Upsert(t)
    BY <2>2, <2>3, AnswersOK
  <2> QED
    BY <2>4 DEF Upsert, SerialInv, SeenAll
<1> QED
  BY <1>1, TypeHolds, SerialHolds, PTL DEF Spec, ScreenedBeforeAnswered
=============================================================================
