--------------------------- MODULE CaseStoreProofs ---------------------------
(***************************************************************************)
(* Proofs about CaseStore, for any number of threads, leads, spellings,    *)
(* files, requests and restarts.                                           *)
(***************************************************************************)
EXTENDS CaseStore, SequenceTheorems, FiniteSetTheorems, TLAPS

StartPlaces == {"lock", "fingerprint", "lookup", "lead", "run", "ensure", "check", "commit",
                "read", "reread"}

(* What a request has in hand at each place: it is the kind of request the
   place is for, and a start request has its lead, then a fingerprint, then
   an outcome. *)
InHand ==
  \A t \in Threads :
    /\ pc[t] \in StartPlaces => op[t] = "start"
    /\ pc[t] = "store" => op[t] \in {"import", "inject"}
    /\ pc[t] = "shell" => op[t] \in {"import", "wipe"}
    /\ pc[t] \in {"clear", "purge"} => op[t] \in {"wipe", "load"}
    /\ pc[t] \in {"reseed", "strip"} => op[t] = "load"
    /\ op[t] = "start" => arg[t] \in Names
    /\ op[t] \in {"import", "inject"} => arg[t] \in Files
    /\ op[t] = "start" /\ pc[t] \notin {"lock", "fingerprint", "done"} => fp[t] \in {NoCase} \cup SUBSET Files
    /\ pc[t] \in {"ensure", "check", "commit"} => work[t] \in Outcomes

ResultsHaveTheirCase == results # << >> => caseRow # NoCase

TypeInv == TypeOK /\ InHand /\ ResultsHaveTheirCase

LEMMA StatusType ==
  ASSUME NEW verdict \in Verdicts
  PROVE  StatusOf(verdict) \in Decided
  BY DEF Verdicts, StatusOf, Decided

LEMMA ReportsType ==
  ASSUME TypeOK, caseRow # NoCase
  PROVE  Reports \subseteq Response
<1> DEFINE findings == {i \in DOMAIN results : results[i].finding}
           latest == results[Len(results)]
<1>1. \A i \in DOMAIN results : results[i].lead \in Leads
  <2>1. \A i \in DOMAIN results : results[i] \in Result
    BY DEF TypeOK
  <2> QED
    BY <2>1 DEF Result
<1>2. results # << >> => latest.lead \in Leads
  <2>1. results # << >> => Len(results) \in DOMAIN results
    BY DEF TypeOK
  <2> QED
    BY <1>1, <2>1
<1>3. CASE findings # {}
  <2>1. Reports = {[verdict |-> "SUBSTANTIATED", about |-> results[i].lead] : i \in findings}
    BY <1>3 DEF Reports
  <2> QED
    BY <1>1, <2>1 DEF Response, Verdicts
<1>4. CASE findings = {}
  <2> DEFINE v == CASE results # << >> /\ latest.status = "SUPPORTED" -> "SUBSTANTIATED"
                    [] results # << >> /\ latest.status = "INSUFFICIENT_EVIDENCE" -> "INSUFFICIENT_EVIDENCE"
                    [] OTHER -> IF caseRow # "FRESH" THEN caseRow
                                ELSE IF AllFacts = {} THEN "INSUFFICIENT_EVIDENCE" ELSE "UNSUBSTANTIATED"
  <2>1. v \in Verdicts
    <3> HIDE DEF latest
    <3> QED BY DEF TypeOK, Verdicts
  <2>2. Reports = {[verdict |-> v, about |-> IF results # << >> THEN latest.lead ELSE None]}
    BY <1>4 DEF Reports
  <2>3. (IF results # << >> THEN latest.lead ELSE None) \in Leads \cup {None}
    BY <1>2
  <2> HIDE DEF v, latest
  <2> QED
    BY <2>1, <2>2, <2>3 DEF Response
<1> QED
  BY <1>3, <1>4

LEMMA SeedType == SeedResult \in Result /\ <<SeedResult>> \in Seq(Result)
<1>1. SeedLead \in Leads /\ FactsOf[DemoFile] \subseteq Facts
  BY StoreAssumption DEF Files, Facts
<1>2. <<Seed>> \in Seq(Threads \cup {Seed})
  OBVIOUS
<1>3. SeedResult \in Result
  BY <1>1, <1>2 DEF SeedResult, Result, Decided
<1> QED
  BY <1>3

LEMMA InitType == Init => TypeInv
<1> SUFFICES ASSUME Init PROVE TypeInv
  OBVIOUS
<1>1. TypeOK
  <2>1. caseRow \in {"FRESH", NoCase} /\ files \subseteq Files /\ linked \subseteq Leads
        /\ results \in Seq(Result) /\ leads \in [Leads -> Decided \cup {"ABSENT", "OPEN"}]
    <3>1. CASE SchemaOnly
      BY <3>1 DEF SchemaOnly
    <3>2. CASE Seeded
      <4>1. SeedLead \in Leads
        BY StoreAssumption DEF Files
      <4>2. files \subseteq Files /\ linked \subseteq Leads
        BY <3>2, <4>1 DEF Seeded, Files
      <4>3. leads \in [Leads -> Decided \cup {"ABSENT", "OPEN"}]
        BY <3>2 DEF Seeded, Decided
      <4> QED
        BY <3>2, <4>2, <4>3, SeedType DEF Seeded
    <3> QED
      BY <3>1, <3>2 DEF Init
  <2> QED
    BY <2>1, StoreAssumption DEF Init, TypeOK, Places
<1>2. InHand
  BY StoreAssumption DEF Init, InHand, StartPlaces, Operations
<1>3. ResultsHaveTheirCase
  BY StoreAssumption DEF Init, SchemaOnly, Seeded, ResultsHaveTheirCase, SeedResult
<1> QED
  BY <1>1, <1>2, <1>3 DEF TypeInv

LEMMA ForgottenType ==
  Forgotten => /\ results' \in Seq(Result)
               /\ leads' \in [Leads -> Decided \cup {"ABSENT", "OPEN"}]
               /\ linked' \subseteq Leads
<1>1. << >> \in Seq(Result)
  OBVIOUS
<1> QED
  BY <1>1 DEF Forgotten

(* Every way to fail leaves the database as it is. *)
LEMMA FailType ==
  ASSUME NEW t \in Threads, TypeInv, Fail(t), Quiet
  PROVE  TypeInv'
<1>1. TypeOK'
  BY DEF TypeInv, TypeOK, Fail, Return, Plain, Response, Goto, Quiet, db, held, Places
<1>2. InHand'
  BY DEF TypeInv, TypeOK, InHand, Fail, Return, Goto, Quiet, held, StartPlaces
<1>3. ResultsHaveTheirCase'
  BY DEF TypeInv, ResultsHaveTheirCase, Fail, db
<1> QED
  BY <1>1, <1>2, <1>3 DEF TypeInv

LEMMA ArriveType ==
  ASSUME NEW t \in Threads, TypeInv, Arrive(t)
  PROVE  TypeInv'
<1>1. PICK operation \in Operations, argument \in Names \cup Files \cup {None},
           place \in {"lock", "clear", "store", "shell"} : Ask(t, operation, argument, place)
  BY DEF Arrive, AskStart, AskWipe, AskLoad, AskInject, AskImport, Operations, Files
<1>2. TypeOK'
  BY <1>1, StoreAssumption DEF TypeInv, TypeOK, Ask, Goto, db, held, Places
<1>3. InHand'
  BY DEF TypeInv, TypeOK, InHand, Arrive, AskStart, AskWipe, AskLoad, AskInject, AskImport, Ask,
     Goto, held, StartPlaces, Files
<1>4. ResultsHaveTheirCase'
  BY <1>1 DEF TypeInv, ResultsHaveTheirCase, Ask, db
<1> QED
  BY <1>2, <1>3, <1>4 DEF TypeInv

LEMMA LockType ==
  ASSUME NEW t \in Threads, TypeInv, Lock(t)
  PROVE  TypeInv'
<1>1. TypeOK'
  BY DEF TypeInv, TypeOK, Lock, Goto, Quiet, db, held, Places
<1>2. InHand'
  BY DEF TypeInv, TypeOK, InHand, Lock, Goto, Quiet, held, StartPlaces
<1>3. ResultsHaveTheirCase'
  BY DEF TypeInv, ResultsHaveTheirCase, Lock, db
<1> QED
  BY <1>1, <1>2, <1>3 DEF TypeInv

LEMMA ReadFingerprintType ==
  ASSUME NEW t \in Threads, TypeInv, ReadFingerprint(t)
  PROVE  TypeInv'
<1>1. TypeOK'
  BY DEF TypeInv, TypeOK, ReadFingerprint, Goto, Quiet, db, held, Places, Fingerprint
<1>2. InHand'
  BY DEF TypeInv, TypeOK, InHand, ReadFingerprint, Goto, Quiet, held, StartPlaces, Fingerprint
<1>3. ResultsHaveTheirCase'
  BY DEF TypeInv, ResultsHaveTheirCase, ReadFingerprint, db
<1> QED
  BY <1>1, <1>2, <1>3 DEF TypeInv

LEMMA NothingToReplayType ==
  ASSUME NEW t \in Threads, TypeInv, NothingToReplay(t)
  PROVE  TypeInv'
<1>1. TypeOK'
  BY DEF TypeInv, TypeOK, NothingToReplay, Goto, Quiet, db, held, Places
<1>2. InHand'
  BY DEF TypeInv, TypeOK, InHand, NothingToReplay, Goto, Quiet, held, StartPlaces
<1>3. ResultsHaveTheirCase'
  BY DEF TypeInv, ResultsHaveTheirCase, NothingToReplay, db
<1> QED
  BY <1>1, <1>2, <1>3 DEF TypeInv

LEMMA GetLeadType ==
  ASSUME NEW t \in Threads, TypeInv, GetLead(t)
  PROVE  TypeInv'
<1>1. TypeOK'
  BY DEF TypeInv, TypeOK, GetLead, Goto, Quiet, db, held, Places
<1>2. InHand'
  BY DEF TypeInv, TypeOK, InHand, GetLead, Goto, Quiet, held, StartPlaces
<1>3. ResultsHaveTheirCase'
  BY DEF TypeInv, ResultsHaveTheirCase, GetLead, db
<1> QED
  BY <1>1, <1>2, <1>3 DEF TypeInv

LEMMA InvestigateType ==
  ASSUME NEW t \in Threads, TypeInv, Investigate(t)
  PROVE  TypeInv'
<1>1. TypeOK'
  BY DEF TypeInv, TypeOK, Investigate, Goto, Quiet, db, held, Places
<1>2. InHand'
  BY DEF TypeInv, TypeOK, InHand, Investigate, Goto, Quiet, held, StartPlaces
<1>3. ResultsHaveTheirCase'
  BY DEF TypeInv, ResultsHaveTheirCase, Investigate, db
<1> QED
  BY <1>1, <1>2, <1>3 DEF TypeInv

LEMMA CheckKeyType ==
  ASSUME NEW t \in Threads, TypeInv, CheckKey(t)
  PROVE  TypeInv'
<1>1. TypeOK'
  BY DEF TypeInv, TypeOK, CheckKey, Goto, Quiet, db, held, Places
<1>2. InHand'
  BY DEF TypeInv, TypeOK, InHand, CheckKey, Goto, Quiet, held, StartPlaces
<1>3. ResultsHaveTheirCase'
  BY DEF TypeInv, ResultsHaveTheirCase, CheckKey, db
<1> QED
  BY <1>1, <1>2, <1>3 DEF TypeInv

LEMMA RespondType ==
  ASSUME NEW t \in Threads, TypeInv, Respond(t)
  PROVE  TypeInv'
<1>1. TypeOK'
  BY DEF TypeInv, TypeOK, Respond, Goto, db, Places
<1>2. InHand'
  BY StoreAssumption DEF TypeInv, TypeOK, InHand, Respond, Goto, StartPlaces, Operations
<1>3. ResultsHaveTheirCase'
  BY DEF TypeInv, ResultsHaveTheirCase, Respond, db
<1> QED
  BY <1>1, <1>2, <1>3 DEF TypeInv

LEMMA DetectType ==
  ASSUME NEW t \in Threads, TypeInv, Detect(t)
  PROVE  TypeInv'
<1>1. TypeOK'
  BY StoreAssumption DEF TypeInv, TypeOK, Detect, Goto, Quiet, db, held, Places, Suspects
<1>2. InHand'
  BY DEF TypeInv, TypeOK, InHand, Detect, Goto, Quiet, held, StartPlaces
<1>3. ResultsHaveTheirCase'
  BY DEF TypeInv, ResultsHaveTheirCase, Detect, db
<1> QED
  BY <1>1, <1>2, <1>3 DEF TypeInv

LEMMA ClearType ==
  ASSUME NEW t \in Threads, TypeInv, Clear(t)
  PROVE  TypeInv'
<1>1. TypeOK'
  <2>1. results' \in Seq(Result) /\ leads' \in [Leads -> Decided \cup {"ABSENT", "OPEN"}] /\ linked' \subseteq Leads
    BY ForgottenType DEF TypeInv, TypeOK, Clear
  <2>2. pc' \in [Threads -> Places]
    BY DEF TypeInv, TypeOK, Clear, Goto, Places
  <2> QED
    BY <2>1, <2>2 DEF TypeInv, TypeOK, Clear, Quiet, db, held
<1>2. InHand'
  BY DEF TypeInv, TypeOK, InHand, Clear, Goto, Quiet, held, StartPlaces
<1>3. ResultsHaveTheirCase'
  BY DEF TypeInv, ResultsHaveTheirCase, Clear, db
<1> QED
  BY <1>1, <1>2, <1>3 DEF TypeInv

LEMMA PurgeType ==
  ASSUME NEW t \in Threads, TypeInv, Purge(t)
  PROVE  TypeInv'
<1>1. TypeOK'
  <2>1. leads' \in [Leads -> Decided \cup {"ABSENT", "OPEN"}] /\ caseRow' \in Verdicts \cup {"FRESH", NoCase}
    BY DEF TypeInv, TypeOK, Purge
  <2>2. pc' \in [Threads -> Places]
    BY DEF TypeInv, TypeOK, Purge, Goto, Places
  <2> QED
    BY <2>1, <2>2 DEF TypeInv, TypeOK, Purge, Quiet, db, held
<1>2. InHand'
  BY DEF TypeInv, TypeOK, InHand, Purge, Goto, Quiet, held, StartPlaces
<1>3. ResultsHaveTheirCase'
  BY DEF TypeInv, InHand, ResultsHaveTheirCase, Purge, Purgeable
<1> QED
  BY <1>1, <1>2, <1>3 DEF TypeInv

LEMMA EnsureCaseType ==
  ASSUME NEW t \in Threads, TypeInv, EnsureCase(t)
  PROVE  TypeInv'
<1>1. TypeOK'
  <2>1. pc' \in [Threads -> Places]
    BY DEF TypeInv, TypeOK, EnsureCase, Return, Goto, Places
  <2>2. locks' \in [Names -> Threads \cup {Nobody}] /\ answer' \in [Threads -> {None} \cup Response]
    BY DEF TypeInv, TypeOK, EnsureCase, Return, Plain, Response
  <2> QED
    BY <2>1, <2>2 DEF TypeInv, TypeOK, EnsureCase, Quiet, db, held
<1>2. InHand'
  BY DEF TypeInv, TypeOK, InHand, EnsureCase, Goto, Quiet, held, StartPlaces, Return
<1>3. ResultsHaveTheirCase'
  BY DEF TypeInv, ResultsHaveTheirCase, EnsureCase, db
<1> QED
  BY <1>1, <1>2, <1>3 DEF TypeInv

LEMMA ReseedType ==
  ASSUME NEW t \in Threads, TypeInv, Reseed(t)
  PROVE  TypeInv'
<1>1. TypeOK'
  BY SeedType, StoreAssumption DEF TypeInv, TypeOK, Reseed, Goto, Quiet, held, Places, Files, Decided
<1>2. InHand'
  BY DEF TypeInv, TypeOK, InHand, Reseed, Goto, Quiet, held, StartPlaces
<1>3. ResultsHaveTheirCase'
  BY StoreAssumption DEF ResultsHaveTheirCase, Reseed
<1> QED
  BY <1>1, <1>2, <1>3 DEF TypeInv

LEMMA StripType ==
  ASSUME NEW t \in Threads, TypeInv, Strip(t)
  PROVE  TypeInv'
<1>1. TypeOK'
  <2>1. results' \in Seq(Result) /\ leads' \in [Leads -> Decided \cup {"ABSENT", "OPEN"}] /\ linked' \subseteq Leads
    BY ForgottenType DEF TypeInv, TypeOK, Strip
  <2>2. pc' \in [Threads -> Places]
    BY DEF TypeInv, TypeOK, Strip, Goto, Places
  <2> QED
    BY <2>1, <2>2 DEF TypeInv, TypeOK, Strip, Quiet, db, held
<1>2. InHand'
  BY DEF TypeInv, TypeOK, InHand, Strip, Goto, Quiet, held, StartPlaces
<1>3. ResultsHaveTheirCase'
  BY DEF TypeInv, ResultsHaveTheirCase, Strip, db
<1> QED
  BY <1>1, <1>2, <1>3 DEF TypeInv

LEMMA StoreFileType ==
  ASSUME NEW t \in Threads, TypeInv, StoreFile(t)
  PROVE  TypeInv'
<1>1. TypeOK'
  <2>1. files' \subseteq Files
    BY DEF TypeInv, TypeOK, InHand, StoreFile
  <2>2. pc' \in [Threads -> Places]
    BY DEF TypeInv, TypeOK, StoreFile, Goto, Places
  <2> QED
    BY <2>1, <2>2 DEF TypeInv, TypeOK, StoreFile, Quiet, db, held
<1>2. InHand'
  BY DEF TypeInv, TypeOK, InHand, StoreFile, Goto, Quiet, held, StartPlaces
<1>3. ResultsHaveTheirCase'
  BY DEF TypeInv, ResultsHaveTheirCase, StoreFile, db
<1> QED
  BY <1>1, <1>2, <1>3 DEF TypeInv

LEMMA UpsertType ==
  ASSUME NEW t \in Threads, TypeInv, Upsert(t)
  PROVE  TypeInv'
<1>1. TypeOK'
  <2>1. leads' \in [Leads -> Decided \cup {"ABSENT", "OPEN"}]
    BY DEF TypeInv, TypeOK, Upsert, Refreshed
  <2>2. linked' \subseteq Leads
    BY DEF TypeInv, TypeOK, Upsert
  <2>3. pc' \in [Threads -> Places]
    BY DEF TypeInv, TypeOK, Upsert, Return, Goto, Places
  <2>4. locks' \in [Names -> Threads \cup {Nobody}] /\ answer' \in [Threads -> {None} \cup Response]
    BY DEF TypeInv, TypeOK, Upsert, Return, Plain, Response
  <2> QED
    BY <2>1, <2>2, <2>3, <2>4 DEF TypeInv, TypeOK, Upsert, Quiet, db, held
<1>2. InHand'
  BY DEF TypeInv, TypeOK, InHand, Upsert, Goto, Quiet, held, StartPlaces, Return
<1>3. ResultsHaveTheirCase'
  BY DEF TypeInv, ResultsHaveTheirCase, Upsert, db
<1> QED
  BY <1>1, <1>2, <1>3 DEF TypeInv

LEMMA EnsureLeadType ==
  ASSUME NEW t \in Threads, TypeInv, EnsureLead(t)
  PROVE  TypeInv'
<1>1. TypeOK'
  <2>1. Lead(t) \in Leads
    BY StoreAssumption DEF TypeInv, TypeOK, InHand, StartPlaces, EnsureLead, Lead
  <2>2. leads' \in [Leads -> Decided \cup {"ABSENT", "OPEN"}]
    BY <2>1 DEF TypeInv, TypeOK, EnsureLead
  <2>3. linked' \subseteq Leads
    BY <2>1 DEF TypeInv, TypeOK, EnsureLead
  <2>4. row' \in [Threads -> {None, Seed} \cup Leads]
    BY <2>1 DEF TypeInv, TypeOK, EnsureLead, RowOf
  <2>5. pc' \in [Threads -> Places]
    BY DEF TypeInv, TypeOK, EnsureLead, Goto, Places
  <2> QED
    BY <2>1, <2>2, <2>3, <2>4, <2>5 DEF TypeInv, TypeOK, EnsureLead, Quiet, db, held
<1>2. InHand'
  BY DEF TypeInv, TypeOK, InHand, EnsureLead, Goto, Quiet, held, StartPlaces
<1>3. ResultsHaveTheirCase'
  BY DEF TypeInv, ResultsHaveTheirCase, EnsureLead, db
<1> QED
  BY <1>1, <1>2, <1>3 DEF TypeInv

LEMMA ReplayType ==
  ASSUME NEW t \in Threads, TypeInv, Replay(t)
  PROVE  TypeInv'
<1>1. TypeOK'
  <2>1. caseRow # NoCase
    BY DEF TypeInv, ResultsHaveTheirCase, Replay, Reusable, AllFacts
  <2>2. PICK report \in Reports : Return(t, report)
    BY DEF Replay
  <2>3. report \in Response
    BY <2>1, ReportsType DEF TypeInv
  <2> QED
    BY <2>1, <2>2, <2>3
    DEF TypeInv, TypeOK, Replay, Return, Goto, Quiet, db, held, Places
<1>2. InHand'
  BY DEF TypeInv, TypeOK, InHand, Replay, Return, Goto, Quiet, held, StartPlaces
<1>3. ResultsHaveTheirCase'
  BY DEF TypeInv, ResultsHaveTheirCase, Replay, db
<1> QED
  BY <1>1, <1>2, <1>3 DEF TypeInv

LEMMA ReadType ==
  ASSUME NEW t \in Threads, TypeInv, Read(t)
  PROVE  TypeInv'
<1>1. TypeOK'
  BY ReportsType DEF TypeInv, TypeOK, Read, Return, Goto, Quiet, db, held, Places
<1>2. InHand'
  BY DEF TypeInv, TypeOK, InHand, Read, Return, Goto, Quiet, held, StartPlaces
<1>3. ResultsHaveTheirCase'
  BY DEF TypeInv, ResultsHaveTheirCase, Read, db
<1> QED
  BY <1>1, <1>2, <1>3 DEF TypeInv

LEMMA StoreResultType ==
  ASSUME NEW t \in Threads, TypeInv, StoreResult(t), pc[t] = "commit"
  PROVE  results' \in Seq(Result) /\ results' # << >> /\ Lead(t) \in Leads
         /\ StatusOf(work[t].verdict) \in Decided /\ work[t].verdict \in Verdicts
<1> DEFINE supported == work[t].verdict = "SUBSTANTIATED"
           own(n) == [i \in 1..n |-> t]
           more(old) == IF work[t].steps > Len(old.steps) THEN work[t].steps - Len(old.steps) ELSE 0
           fresh == [lead |-> Lead(t), fp |-> fp[t], status |-> StatusOf(work[t].verdict),
                     finding |-> supported, facts |-> work[t].facts, steps |-> own(work[t].steps)]
           merged(old) == [old EXCEPT !.finding = @ \/ supported, !.facts = @ \cup work[t].facts,
                                      !.steps = @ \o own(more(old))]
<1>1. Lead(t) \in Leads
  BY StoreAssumption DEF TypeInv, TypeOK, InHand, StartPlaces, Lead
<1>2. work[t].verdict \in Verdicts /\ work[t].facts \subseteq Facts /\ work[t].steps \in Nat
  BY StoreAssumption DEF TypeInv, InHand
<1>3. StatusOf(work[t].verdict) \in Decided
  BY <1>2, StatusType
<1>4. fp[t] \in {NoCase, Seed} \cup SUBSET Files
  BY DEF TypeInv, InHand, StartPlaces
<1>5. \A n \in Nat : own(n) \in Seq(Threads \cup {Seed})
  OBVIOUS
<1>6. fresh \in Result
  <2> HIDE DEF own
  <2> QED
    BY <1>1, <1>2, <1>3, <1>4, <1>5 DEF Result
<1>7. \A old \in Result : merged(old) \in Result
  <2> SUFFICES ASSUME NEW old \in Result PROVE merged(old) \in Result
    OBVIOUS
  <2>1. old.steps \in Seq(Threads \cup {Seed}) /\ old.facts \subseteq Facts /\ old.finding \in BOOLEAN
    BY DEF Result
  <2>2. more(old) \in Nat
    BY <1>2, <2>1
  <2>3. old.steps \o own(more(old)) \in Seq(Threads \cup {Seed})
    <3>1. own(more(old)) \in Seq(Threads \cup {Seed})
      BY <2>2, <1>5
    <3> HIDE DEF own, more
    <3> QED
      BY <2>1, <3>1
  <2>4. (old.finding \/ supported) \in BOOLEAN /\ old.facts \cup work[t].facts \subseteq Facts
    BY <1>2, <2>1
  <2> HIDE DEF own, more, supported
  <2> QED
    BY <2>3, <2>4 DEF Result
<1>8. results \in Seq(Result)
  BY DEF TypeInv, TypeOK
<1>9. \/ results' = Append(results, fresh)
      \/ /\ StoredAt(Key(t)) # {}
         /\ results' = [i \in DOMAIN results |->
                          IF i \in StoredAt(Key(t)) THEN merged(results[i]) ELSE results[i]]
  BY DEF StoreResult
<1>10. CASE results' = Append(results, fresh)
  <2> HIDE DEF fresh
  <2> QED
    BY <1>1, <1>2, <1>3, <1>6, <1>8, <1>10
<1>11. CASE /\ StoredAt(Key(t)) # {}
            /\ results' = [i \in DOMAIN results |->
                             IF i \in StoredAt(Key(t)) THEN merged(results[i]) ELSE results[i]]
  <2>1. \A i \in DOMAIN results : results[i] \in Result
    BY <1>8
  <2>2. \A i \in DOMAIN results : results'[i] \in Result
    <3> HIDE DEF merged
    <3> QED
      BY <1>7, <1>11, <2>1
  <2>3. DOMAIN results' = DOMAIN results /\ DOMAIN results = 1..Len(results) /\ Len(results) \in Nat
    <3>1. DOMAIN results = 1..Len(results) /\ Len(results) \in Nat
      BY <1>8
    <3> HIDE DEF merged
    <3> QED
      BY <1>11, <3>1
  <2>4. results' = [i \in 1..Len(results) |-> results'[i]]
    BY <1>11, <2>3
  <2>5. results' \in Seq(Result)
    BY <2>2, <2>3, <2>4
  <2>6. results' # << >>
    <3>1. PICK i : i \in DOMAIN results
      BY <1>11 DEF StoredAt
    <3> QED
      BY <2>3, <3>1
  <2> QED
    BY <1>1, <1>2, <1>3, <2>5, <2>6
<1> QED
  BY <1>9, <1>10, <1>11

LEMMA CommitType ==
  ASSUME NEW t \in Threads, TypeInv, Commit(t)
  PROVE  TypeInv'
<1>1. /\ results' \in Seq(Result) /\ Lead(t) \in Leads
      /\ StatusOf(work[t].verdict) \in Decided /\ work[t].verdict \in Verdicts
  BY StoreResultType DEF Commit
<1>2. TypeOK'
  <2>1. leads' \in [Leads -> Decided \cup {"ABSENT", "OPEN"}]
    BY <1>1 DEF TypeInv, TypeOK, Commit
  <2>2. pc' \in [Threads -> Places]
    BY DEF TypeInv, TypeOK, Commit, Goto, Places
  <2>3. caseRow' \in Verdicts
    BY <1>1 DEF Commit
  <2> QED
    BY <1>1, <2>1, <2>2, <2>3 DEF TypeInv, TypeOK, Commit, Quiet, held
<1>3. InHand'
  BY DEF TypeInv, TypeOK, InHand, Commit, Goto, Quiet, held, StartPlaces
<1>4. ResultsHaveTheirCase'
  BY <1>1, StoreAssumption DEF ResultsHaveTheirCase, Commit
<1> QED
  BY <1>2, <1>3, <1>4 DEF TypeInv

LEMMA CrashType == TypeInv /\ Crash => TypeInv'
<1> SUFFICES ASSUME TypeInv, Crash PROVE TypeInv'
  OBVIOUS
<1>1. TypeOK'
  BY StoreAssumption DEF TypeInv, TypeOK, Crash, db, Places
<1>2. InHand'
  BY StoreAssumption DEF InHand, Crash, StartPlaces, Operations
<1>3. ResultsHaveTheirCase'
  BY DEF TypeInv, ResultsHaveTheirCase, Crash, db
<1> QED
  BY <1>1, <1>2, <1>3 DEF TypeInv

LEMMA StepType == TypeInv /\ [Next]_vars => TypeInv'
<1> SUFFICES ASSUME TypeInv, [Next]_vars PROVE TypeInv'
  OBVIOUS
<1>1. CASE UNCHANGED vars
  BY <1>1 DEF TypeInv, TypeOK, InHand, ResultsHaveTheirCase, vars, db, held
<1>2. CASE Crash
  BY <1>2, CrashType
<1>3. ASSUME NEW t \in Threads, Start(t) PROVE TypeInv'
  BY <1>3, FailType, LockType, ReadFingerprintType, ReplayType, NothingToReplayType, GetLeadType,
     InvestigateType, EnsureLeadType, CheckKeyType, CommitType, ReadType
  DEF Start, InvestigationRaises, NoCaseToPersistIn, CommitFails, NothingToRead
<1>4. ASSUME NEW t \in Threads, Reset(t) PROVE TypeInv'
  BY <1>4, FailType, ClearType, PurgeType, EnsureCaseType, ReseedType, StripType
  DEF Reset, PurgeFails, ReseedFails, ClearFails
<1>5. ASSUME NEW t \in Threads, Feed(t) PROVE TypeInv'
  BY <1>5, FailType, StoreFileType, DetectType, UpsertType DEF Feed, StoreFileFails, UpsertFails
<1> QED
  BY <1>1, <1>2, <1>3, <1>4, <1>5, ArriveType, RespondType DEF Next, Work

(* Every variable keeps to its type whatever overlaps: in particular the
   stored results are whole and the answers carry a verdict of the code. *)
THEOREM TypeCorrect == Spec => []TypeOK
<1>1. TypeInv => TypeOK
  BY DEF TypeInv
<1> QED
  BY <1>1, InitType, StepType, PTL DEF Spec

-----------------------------------------------------------------------------
(* What a step may do to the results, the leads and the records. *)
LEMMA StoreStep ==
  ASSUME TypeInv, [Next]_vars
  PROVE  \/ /\ results' = results
            /\ \A l \in Leads : \/ leads'[l] = leads[l]
                                \/ leads[l] = "ABSENT" /\ leads'[l] = "OPEN"
                                \/ leads'[l] = "ABSENT" /\ results = << >>
            /\ files \subseteq files' \/ \A i \in DOMAIN results : ~results[i].finding
         \/ Forgotten /\ files' = files
         \/ \E t \in Threads : Reseed(t) \/ Commit(t)
<1> DEFINE Weak == /\ results' = results
                   /\ \A l \in Leads : \/ leads'[l] = leads[l]
                                       \/ leads[l] = "ABSENT" /\ leads'[l] = "OPEN"
                                       \/ leads'[l] = "ABSENT" /\ results = << >>
                   /\ files \subseteq files' \/ \A i \in DOMAIN results : ~results[i].finding
<1>0. DOMAIN leads = Leads
  BY DEF TypeInv, TypeOK
<1>1. ASSUME UNCHANGED <<results, leads, files>> PROVE Weak
  BY <1>1
<1>2. ASSUME NEW t \in Threads, EnsureLead(t) PROVE Weak
  BY <1>0, <1>2 DEF EnsureLead
<1>3. ASSUME NEW t \in Threads, Start(t), ~Commit(t) PROVE Weak
  BY <1>1, <1>2, <1>3 DEF Start, Lock, ReadFingerprint, Replay, NothingToReplay, GetLead,
     Investigate, InvestigationRaises, NoCaseToPersistIn, CheckKey, CommitFails, Read,
     NothingToRead, Fail, db
<1>4. ASSUME NEW t \in Threads, Purge(t) PROVE Weak
  BY <1>4 DEF Purge, Purgeable, TypeInv, InHand
<1>5. ASSUME NEW t \in Threads, Clear(t) \/ Strip(t) PROVE Weak \/ (Forgotten /\ files' = files)
  BY <1>5 DEF Clear, Strip
<1>6. ASSUME NEW t \in Threads, Reset(t), ~Reseed(t) PROVE Weak \/ (Forgotten /\ files' = files)
  BY <1>1, <1>4, <1>5, <1>6 DEF Reset, PurgeFails, EnsureCase, ReseedFails, ClearFails, Fail, db
<1>7. ASSUME NEW t \in Threads, Upsert(t) \/ StoreFile(t) PROVE Weak
  BY <1>0, <1>7 DEF Upsert, Refreshed, StoreFile
<1>8. ASSUME NEW t \in Threads, Feed(t) \/ Respond(t) \/ Arrive(t) PROVE Weak
  BY <1>1, <1>7, <1>8 DEF Feed, StoreFileFails, Detect, UpsertFails, Respond, Arrive,
     AskStart, AskWipe, AskLoad, AskInject, AskImport, Ask, Fail, db
<1>9. CASE UNCHANGED vars \/ Crash
  BY <1>1, <1>9 DEF vars, db, Crash
<1> QED
  BY <1>3, <1>6, <1>8, <1>9 DEF Next, Work

LEMMA LeadsStep ==
  ASSUME TypeInv, [Next]_vars, NEW l \in Leads, leads[l] \in Decided
  PROVE  leads'[l] \in Decided \/ (leads'[l] = "ABSENT" /\ results' = << >>)
<1>1. DOMAIN leads = Leads /\ leads[l] # "ABSENT"
  BY DEF TypeInv, TypeOK, Decided
<1>2. ASSUME NEW t \in Threads, Commit(t) PROVE leads'[l] \in Decided
  <2>1. StatusOf(work[t].verdict) \in Decided
    BY <1>2, StoreResultType DEF Commit
  <2> QED
    BY <1>1, <1>2, <2>1 DEF Commit
<1>3. ASSUME NEW t \in Threads, Reseed(t) PROVE leads'[l] \in Decided
  BY <1>1, <1>3 DEF Reseed, Decided
<1> QED
  BY <1>1, <1>2, <1>3, StoreStep DEF Forgotten

(* A lead once decided stays decided until the whole analysis is cleared,
   whatever detector runs, resets and investigations overlap. *)
THEOREM NoLeadReopens == Spec => DecidedLeadsStayDecided
<1>1. TypeInv /\ [Next]_vars =>
        [\A l \in Leads :
           leads[l] \in Decided => leads'[l] \in Decided \/ (leads'[l] = "ABSENT" /\ results' = << >>)]_vars
  BY LeadsStep
<1> QED
  BY <1>1, InitType, StepType, PTL DEF Spec, DecidedLeadsStayDecided

-----------------------------------------------------------------------------
LEMMA StoringKeepsOneResult ==
  ASSUME NEW t \in Threads, TypeInv, OneResultPerDataset, StoreResult(t)
  PROVE  OneResultPerDataset'
<1> DEFINE key(r) == <<r.lead, r.fp>>
<1>0. results \in Seq(Result)
  BY DEF TypeInv, TypeOK
<1>1. CASE StoredAt(Key(t)) = {}
  <2>1. PICK fresh : results' = Append(results, fresh) /\ key(fresh) = Key(t)
    BY <1>1 DEF StoreResult, Key
  <2>2. /\ DOMAIN results' = 1..(Len(results) + 1) /\ DOMAIN results = 1..Len(results)
        /\ results'[Len(results) + 1] = fresh /\ Len(results) \in Nat
        /\ \A i \in DOMAIN results : results'[i] = results[i]
    BY <1>0, <2>1
  <2>3. \A i \in DOMAIN results : key(results[i]) # Key(t)
    BY <1>1 DEF StoredAt
  <2>4. \A i, j \in DOMAIN results : i # j => key(results[i]) # key(results[j])
    BY DEF OneResultPerDataset
  <2>5. \A i \in DOMAIN results' : i \in DOMAIN results \/ i = Len(results) + 1
    BY <2>2
  <2>6. \A i, j \in DOMAIN results' : i # j => key(results'[i]) # key(results'[j])
    <3> HIDE DEF key
    <3> QED
      BY <2>1, <2>2, <2>3, <2>4, <2>5
  <2> QED
    BY <2>6 DEF OneResultPerDataset
<1>2. CASE StoredAt(Key(t)) # {}
  <2>1. \A i \in DOMAIN results : results[i] \in Result
    BY <1>0
  <2>2. DOMAIN results' = DOMAIN results
    BY <1>2 DEF StoreResult
  <2>3. \A i \in DOMAIN results : key(results'[i]) = key(results[i])
    BY <1>2, <2>1 DEF StoreResult, Result
  <2> QED
    BY <2>2, <2>3 DEF OneResultPerDataset
<1> QED
  BY <1>1, <1>2

(* Each dataset has one result per lead, although two spellings of a lead
   are investigated at once and a restart may come between any two steps. *)
THEOREM ResultsAreUnique == Spec => []OneResultPerDataset
<1>1. Init => OneResultPerDataset
  BY DEF Init, SchemaOnly, Seeded, OneResultPerDataset
<1>2. TypeInv /\ OneResultPerDataset /\ [Next]_vars => OneResultPerDataset'
  <2> SUFFICES ASSUME TypeInv, OneResultPerDataset, [Next]_vars PROVE OneResultPerDataset'
    OBVIOUS
  <2>1. CASE \E t \in Threads : Commit(t)
    BY <2>1, StoringKeepsOneResult DEF Commit
  <2>2. CASE results' = results
    BY <2>2 DEF OneResultPerDataset
  <2>3. CASE results' = << >> \/ results' = <<SeedResult>>
    BY <2>3 DEF OneResultPerDataset
  <2> QED
    BY <2>1, <2>2, <2>3, StoreStep DEF Forgotten, Reseed
<1> QED
  BY <1>1, <1>2, InitType, StepType, PTL DEF Spec

-----------------------------------------------------------------------------
(* From here on leads are spelled by their keys, as the service's own lists
   spell them: then the lock of a spelling is the lock of its lead. *)
OneSpelling == Names = Leads

(* Inside the lock; and past the lookup, so that a result is on its way. *)
Inside(t) == pc[t] \in StartPlaces \ {"lock"} \/ (op[t] = "start" /\ pc[t] \in {"detect", "upsert"})

Underway(t) ==
  \/ pc[t] \in {"lead", "run", "ensure", "check", "commit"}
  \/ op[t] = "start" /\ pc[t] \in {"detect", "upsert"}

LockInv == \A t \in Threads : Inside(t) => locks[arg[t]] = t

NothingNewer ==
  \A t \in Threads, l \in Leads :
    Underway(t) /\ Lead(t) = l => \A i \in Latest(l) : results[i].fp = fp[t] => results[i].facts = {}

KeyIsFree ==
  \A t \in Threads : pc[t] = "commit" =>
    \A i \in DOMAIN results : <<results[i].lead, results[i].fp>> # <<Lead(t), fp[t]>>

FindingsFit ==
  \A i \in DOMAIN results :
    results[i].finding => results[i].status = "SUPPORTED" /\ results[i].facts \cap Records # {}

StoreInv ==
  /\ TypeInv /\ LockInv /\ NothingNewer /\ KeyIsFree
  /\ LeadAgreesWithItsResults /\ FindingsFit

(* A step of one thread leaves the others where they are, with their locks. *)
LEMMA Frame ==
  ASSUME TypeInv, NEW u \in Threads, Work(u) \/ Arrive(u), NEW t \in Threads, t # u
  PROVE  /\ pc'[t] = pc[t] /\ op'[t] = op[t] /\ arg'[t] = arg[t] /\ fp'[t] = fp[t]
         /\ \A n \in Names : locks[n] = t => locks'[n] = t
<1>0. /\ pc \in [Threads -> Places] /\ DOMAIN op = Threads /\ DOMAIN arg = Threads
      /\ DOMAIN fp = Threads /\ DOMAIN locks = Names
      /\ t # Nobody
  BY StoreAssumption DEF TypeInv, TypeOK
<1>1. CASE Start(u)
  BY <1>0, <1>1 DEF Start, Lock, ReadFingerprint, Replay, NothingToReplay, GetLead, Investigate,
     InvestigationRaises, EnsureLead, NoCaseToPersistIn, CheckKey, Commit, CommitFails, Read,
     NothingToRead, Fail, Return, Goto, Quiet, held
<1>2. CASE Reset(u)
  BY <1>0, <1>2 DEF Reset, Clear, Purge, PurgeFails, EnsureCase, Reseed, ReseedFails, Strip,
     ClearFails, Fail, Return, Goto, Quiet, held
<1>3. CASE Feed(u)
  BY <1>0, <1>3 DEF Feed, StoreFile, StoreFileFails, Detect, Upsert, UpsertFails, Fail, Return,
     Goto, Quiet, held
<1>4. CASE Respond(u) \/ Arrive(u)
  BY <1>0, <1>4 DEF Respond, Arrive, AskStart, AskWipe, AskLoad, AskInject, AskImport, Ask,
     Goto, Quiet, held
<1> QED
  BY <1>1, <1>2, <1>3, <1>4 DEF Work

(* How a thread gets inside, gets under way and gets to its commit. *)
LEMMA OwnStep ==
  ASSUME TypeInv, NEW t \in Threads, Work(t) \/ Arrive(t)
  PROVE  /\ Inside(t)' => \/ Lock(t)
                          \/ Inside(t) /\ arg'[t] = arg[t] /\ locks' = locks
         /\ Underway(t)' => \/ NothingToReplay(t)
                            \/ Underway(t) /\ arg'[t] = arg[t] /\ fp'[t] = fp[t] /\ results' = results
         /\ pc'[t] = "commit" => CheckKey(t) /\ StoredAt(Key(t)) = {}
<1>0. DOMAIN pc = Threads /\ DOMAIN op = Threads /\ DOMAIN arg = Threads /\ DOMAIN fp = Threads
  BY DEF TypeInv, TypeOK
<1>1. CASE Start(t)
  BY <1>0, <1>1 DEF Start, Lock, ReadFingerprint, Replay, NothingToReplay, GetLead, Investigate,
     InvestigationRaises, EnsureLead, NoCaseToPersistIn, CheckKey, Commit, CommitFails, Read,
     NothingToRead, Fail, Return, Goto, Quiet, held, db, Inside, Underway, StartPlaces, TypeInv, InHand
<1>2. CASE Reset(t)
  BY <1>0, <1>2 DEF Reset, Clear, Purge, PurgeFails, EnsureCase, Reseed, ReseedFails, Strip,
     ClearFails, Clearing, Fail, Return, Goto, Quiet, held, db, Inside, Underway, StartPlaces, TypeInv, InHand
<1>3. CASE Feed(t)
  BY <1>0, <1>3 DEF Feed, StoreFile, StoreFileFails, Detect, Upsert, UpsertFails, Fail, Return,
     Goto, Quiet, held, db, Inside, Underway, StartPlaces, TypeInv, InHand
<1>4. CASE Respond(t) \/ Arrive(t)
  BY <1>0, <1>4 DEF Respond, Arrive, AskStart, AskWipe, AskLoad, AskInject, AskImport, Ask,
     Goto, Quiet, held, db, Inside, Underway, StartPlaces
<1> QED
  BY <1>1, <1>2, <1>3, <1>4 DEF Work

(* A result at the end of the list becomes the latest of its lead. *)
LEMMA LatestOfAppended ==
  ASSUME results \in Seq(Result), NEW r, results' = Append(results, r)
  PROVE  /\ DOMAIN results' = DOMAIN results \cup {Len(results) + 1}
         /\ Len(results) + 1 \notin DOMAIN results
         /\ results'[Len(results) + 1] = r
         /\ \A i \in DOMAIN results : results'[i] = results[i]
         /\ \A l : l # r.lead => Latest(l)' = Latest(l)
         /\ Latest(r.lead)' = {Len(results) + 1}
<1>1. /\ DOMAIN results = 1..Len(results) /\ Len(results) \in Nat
      /\ DOMAIN results' = 1..(Len(results) + 1)
      /\ results'[Len(results) + 1] = r
      /\ \A i \in DOMAIN results : results'[i] = results[i]
  OBVIOUS
<1>2. /\ DOMAIN results' = DOMAIN results \cup {Len(results) + 1}
      /\ Len(results) + 1 \notin DOMAIN results
      /\ \A i \in DOMAIN results : i <= Len(results) + 1
      /\ Len(results) + 1 <= Len(results) + 1
      /\ \A i \in DOMAIN results : ~(Len(results) + 1 <= i)
  BY <1>1
<1>3. ASSUME NEW l, l # r.lead PROVE Latest(l)' = Latest(l)
  BY <1>1, <1>2, <1>3 DEF Latest
<1>4. Latest(r.lead)' = {Len(results) + 1}
  BY <1>1, <1>2 DEF Latest
<1> QED
  BY <1>1, <1>2, <1>3, <1>4

(* What a commit appends, given that its key is free. *)
LEMMA CommitAppends ==
  ASSUME StoreInv, NEW t \in Threads, Commit(t)
  PROVE  \E r \in Result :
           /\ results' = Append(results, r)
           /\ r.lead = Lead(t) /\ r.fp = fp[t] /\ r.facts = work[t].facts
           /\ r.status = StatusOf(work[t].verdict) /\ r.finding = (work[t].verdict = "SUBSTANTIATED")
           /\ r.steps = [i \in 1..work[t].steps |-> t]
<1> DEFINE r == [lead |-> Lead(t), fp |-> fp[t], status |-> StatusOf(work[t].verdict),
                 finding |-> work[t].verdict = "SUBSTANTIATED", facts |-> work[t].facts,
                 steps |-> [i \in 1..work[t].steps |-> t]]
<1>1. StoredAt(Key(t)) = {}
  BY DEF StoreInv, KeyIsFree, StoredAt, Key, Commit
<1>2. results' = Append(results, r)
  BY <1>1 DEF Commit, StoreResult
<1>3. results' \in Seq(Result) /\ results \in Seq(Result)
  BY StoreResultType DEF StoreInv, TypeInv, TypeOK, Commit
<1>4. r = results'[Len(results) + 1] /\ Len(results) + 1 \in DOMAIN results'
  <2> HIDE DEF r
  <2> QED BY <1>2, <1>3
<1>5. r \in Result
  <2> HIDE DEF r
  <2> QED BY <1>3, <1>4
<1> QED
  BY <1>2, <1>5

(* Two requests inside their locks are about different leads. *)
LEMMA LocksSeparate ==
  ASSUME OneSpelling, StoreInv, NEW t \in Threads, NEW u \in Threads, t # u, Inside(t), Inside(u)
  PROVE  Lead(t) # Lead(u)
<1>1. arg[t] \in Names /\ arg[u] \in Names
  BY DEF StoreInv, TypeInv, InHand, Inside, StartPlaces
<1>2. Lead(t) = arg[t] /\ Lead(u) = arg[u]
  BY <1>1, StoreAssumption DEF OneSpelling, Lead
<1> QED
  BY <1>2 DEF StoreInv, LockInv

LEMMA ThreadStep ==
  ASSUME [Next]_vars
  PROVE  \/ UNCHANGED vars
         \/ Crash
         \/ \E u \in Threads : Work(u) \/ Arrive(u)
  BY DEF Next

LEMMA LockStep == ASSUME StoreInv, [Next]_vars PROVE LockInv'
<1>1. CASE UNCHANGED vars
  BY <1>1 DEF StoreInv, LockInv, Inside, vars
<1>2. CASE Crash
  BY <1>2 DEF Crash, LockInv, Inside, StartPlaces
<1>3. ASSUME NEW u \in Threads, Work(u) \/ Arrive(u) PROVE LockInv'
  <2> SUFFICES ASSUME NEW t \in Threads, Inside(t)' PROVE locks'[arg'[t]] = t
    BY DEF LockInv
  <2>1. CASE t # u
    <3>1. /\ pc'[t] = pc[t] /\ op'[t] = op[t] /\ arg'[t] = arg[t]
          /\ \A n \in Names : locks[n] = t => locks'[n] = t
      BY <1>3, <2>1, Frame DEF StoreInv
    <3>2. Inside(t)
      BY <3>1 DEF Inside
    <3>3. arg[t] \in Names
      BY <3>2 DEF StoreInv, TypeInv, InHand, Inside, StartPlaces
    <3> QED
      BY <3>1, <3>2, <3>3 DEF StoreInv, LockInv
  <2>2. CASE t = u
    <3>1. Lock(t) \/ (Inside(t) /\ arg'[t] = arg[t] /\ locks' = locks)
      BY <1>3, <2>2, OwnStep DEF StoreInv
    <3>2. CASE Lock(t)
      <4>1. arg[t] \in Names /\ DOMAIN locks = Names
        BY <3>2 DEF StoreInv, TypeInv, TypeOK, InHand, Lock, StartPlaces
      <4> QED
        BY <3>2, <4>1 DEF Lock, Quiet
    <3> QED
      BY <3>1, <3>2 DEF StoreInv, LockInv
  <2> QED
    BY <2>1, <2>2
<1> QED
  BY <1>1, <1>2, <1>3, ThreadStep

(* A lookup that finds nothing to replay leaves nothing newer behind. *)
LEMMA LookupFindsTheLatest ==
  ASSUME OneSpelling, StoreInv, NEW t \in Threads, NothingToReplay(t)
  PROVE  \A i \in Latest(Lead(t)) : results[i].fp = fp[t] => results[i].facts = {}
<1>1. arg[t] \in Leads /\ Lead(t) \in Leads /\ Lead(t) = arg[t]
  BY StoreAssumption DEF NothingToReplay, StoreInv, TypeInv, InHand, StartPlaces, OneSpelling, Lead
<1>2. \A i \in DOMAIN results : results[i].status \in Decided
  <2>1. \A i \in DOMAIN results : results[i] \in Result
    BY DEF StoreInv, TypeInv, TypeOK
  <2> QED
    BY <2>1 DEF Result
<1>3. CASE ~Finds(arg[t])
  <2>1. RowOf(Lead(t)) = None
    BY <1>1, <1>3 DEF Finds, Lead
  <2>2. leads[Lead(t)] = "ABSENT"
    BY <1>1, <2>1, StoreAssumption DEF RowOf
  <2>3. Latest(Lead(t)) = {}
    <3>1. \A i \in Latest(Lead(t)) : i \in DOMAIN results
      BY DEF Latest
    <3>2. \A i \in Latest(Lead(t)) : leads[Lead(t)] = results[i].status
      BY <1>1 DEF StoreInv, LeadAgreesWithItsResults
    <3> QED
      BY <1>2, <2>2, <3>1, <3>2 DEF Decided
  <2> QED
    BY <2>3
<1>4. CASE AllFacts = {}
  BY <1>4 DEF AllFacts, Latest
<1>5. CASE \A i \in Latest(Lead(t)) : results[i].fp \notin {fp[t], Seed}
  BY <1>5
<1> QED
  BY <1>3, <1>4, <1>5 DEF NothingToReplay, Reusable

(* What the threads rely on stays when the results do, or change for a lead
   of another thread, or are replaced by none or the seed's. *)
LEMMA NewerStep == ASSUME OneSpelling, StoreInv, [Next]_vars PROVE NothingNewer'
<1>1. CASE UNCHANGED vars
  BY <1>1 DEF StoreInv, NothingNewer, Underway, Latest, Lead, vars, db, held
<1>2. CASE Crash
  BY <1>2 DEF Crash, NothingNewer, Underway
<1>3. ASSUME NEW u \in Threads, Work(u) \/ Arrive(u) PROVE NothingNewer'
  <2> SUFFICES ASSUME NEW t \in Threads, NEW l \in Leads, Underway(t)', LeadOf[arg'[t]] = l,
                      NEW i \in Latest(l)', results'[i].fp = fp'[t]
               PROVE  results'[i].facts = {}
    BY DEF NothingNewer, Lead
  <2>1. CASE NothingToReplay(t)
    <3>1. UNCHANGED <<results, arg, fp>>
      BY <2>1 DEF NothingToReplay, db, held, Quiet
    <3>2. Lead(t) = l /\ i \in Latest(l)
      BY <3>1 DEF Lead, Latest
    <3> QED
      BY <2>1, <3>1, <3>2, LookupFindsTheLatest
  <2>2. CASE ~NothingToReplay(t)
    <3>1. Underway(t) /\ arg'[t] = arg[t] /\ fp'[t] = fp[t] /\ (t = u => results' = results)
      <4>1. CASE t = u
        BY <1>3, <2>2, <4>1, OwnStep DEF StoreInv
      <4>2. CASE t # u
        BY <1>3, <4>2, Frame DEF StoreInv, Underway
      <4> QED
        BY <4>1, <4>2
    <3>2. Lead(t) = l
      BY <3>1 DEF Lead
    <3>3. \A j \in Latest(l) : results[j].fp = fp[t] => results[j].facts = {}
      BY <3>1, <3>2 DEF StoreInv, NothingNewer
    <3>4. CASE results' = results
      BY <3>1, <3>3, <3>4 DEF Latest
    <3>5. CASE results' = << >>
      BY <3>5 DEF Latest
    <3>6. CASE results' = <<SeedResult>>
      <4>1. fp[t] # Seed
        BY <3>1, StoreAssumption DEF StoreInv, TypeInv, InHand, Underway, StartPlaces
      <4>2. i = 1
        BY <3>6 DEF Latest
      <4> QED
        BY <3>1, <3>6, <4>1, <4>2 DEF SeedResult
    <3>7. ASSUME NEW v \in Threads, Commit(v), t # v PROVE results'[i].facts = {}
      <4>1. Inside(t) /\ Inside(v)
        BY <3>1, <3>7 DEF Inside, Underway, StartPlaces, Commit
      <4>2. PICK r \in Result : results' = Append(results, r) /\ r.lead = Lead(v)
        BY <3>7, CommitAppends
      <4>3. l # r.lead
        BY <3>2, <3>7, <4>1, <4>2, LocksSeparate
      <4>4. results \in Seq(Result)
        BY DEF StoreInv, TypeInv, TypeOK
      <4>5. i \in Latest(l) /\ results'[i] = results[i]
        <5>1. Latest(l)' = Latest(l) /\ \A j \in DOMAIN results : results'[j] = results[j]
          BY <4>2, <4>3, <4>4, LatestOfAppended
        <5> QED
          BY <5>1 DEF Latest
      <4> QED
        BY <3>1, <3>3, <4>5
    <3>8. ASSUME NEW v \in Threads, Commit(v), t = v PROVE results' = results
      <4>1. ~Underway(t)'
        BY <3>8 DEF Commit, Goto, Underway, StoreInv, TypeInv, TypeOK
      <4> QED
        BY <4>1
    <3> QED
      BY <3>4, <3>5, <3>6, <3>7, <3>8, StoreStep DEF Forgotten, Reseed, StoreInv
  <2> QED
    BY <2>1, <2>2
<1> QED
  BY <1>1, <1>2, <1>3, ThreadStep

LEMMA KeyStep == ASSUME OneSpelling, StoreInv, [Next]_vars PROVE KeyIsFree'
<1>1. CASE UNCHANGED vars
  BY <1>1 DEF StoreInv, KeyIsFree, Lead, vars, db, held
<1>2. CASE Crash
  BY <1>2 DEF Crash, KeyIsFree
<1>3. ASSUME NEW u \in Threads, Work(u) \/ Arrive(u) PROVE KeyIsFree'
  <2> SUFFICES ASSUME NEW t \in Threads, pc'[t] = "commit", NEW i \in DOMAIN results'
               PROVE  <<results'[i].lead, results'[i].fp>> # <<LeadOf[arg'[t]], fp'[t]>>
    BY DEF KeyIsFree, Lead
  <2>1. CASE t = u
    <3>1. CheckKey(t) /\ StoredAt(Key(t)) = {}
      BY <1>3, <2>1, OwnStep DEF StoreInv
    <3>2. UNCHANGED <<results, arg, fp>>
      BY <3>1 DEF CheckKey, db, held, Quiet
    <3> QED
      BY <3>1, <3>2 DEF StoredAt, Key, Lead
  <2>2. CASE t # u
    <3>1. pc[t] = "commit" /\ arg'[t] = arg[t] /\ fp'[t] = fp[t]
      BY <1>3, <2>2, Frame DEF StoreInv
    <3>2. \A j \in DOMAIN results : <<results[j].lead, results[j].fp>> # <<Lead(t), fp[t]>>
      BY <3>1 DEF StoreInv, KeyIsFree
    <3>3. CASE results' = results
      BY <3>1, <3>2, <3>3 DEF Lead
    <3>4. CASE results' = << >>
      BY <3>4
    <3>5. CASE results' = <<SeedResult>>
      <4>1. fp[t] # Seed
        BY <3>1, StoreAssumption DEF StoreInv, TypeInv, InHand, StartPlaces
      <4>2. i = 1
        BY <3>5
      <4> QED
        BY <3>1, <3>5, <4>1, <4>2 DEF SeedResult
    <3>6. ASSUME NEW v \in Threads, Commit(v)
          PROVE  <<results'[i].lead, results'[i].fp>> # <<LeadOf[arg'[t]], fp'[t]>>
      <4>1. PICK r \in Result : results' = Append(results, r) /\ r.lead = Lead(v)
        BY <3>6, CommitAppends
      <4>2. t # v
        BY <3>6 DEF Commit, Goto, StoreInv, TypeInv, TypeOK
      <4>3. r.lead # Lead(t)
        BY <3>1, <3>6, <4>1, <4>2, LocksSeparate DEF Inside, StartPlaces, Commit
      <4>4. results \in Seq(Result)
        BY DEF StoreInv, TypeInv, TypeOK
      <4>5. (i \in DOMAIN results /\ results'[i] = results[i]) \/ results'[i] = r
        BY <4>1, <4>4, LatestOfAppended
      <4> QED
        BY <3>1, <3>2, <4>3, <4>5 DEF Lead
    <3> QED
      BY <3>3, <3>4, <3>5, <3>6, StoreStep DEF Forgotten, Reseed, StoreInv
  <2> QED
    BY <2>1, <2>2
<1> QED
  BY <1>1, <1>2, <1>3, ThreadStep

(* What the row of one lead and the results say of each other. *)
Agrees(l) ==
  /\ \A i \in Latest(l) : leads[l] = results[i].status
  /\ Latest(l) = {} => leads[l] \in {"ABSENT", "OPEN"}

LEMMA AgreeStep == ASSUME StoreInv, [Next]_vars PROVE LeadAgreesWithItsResults'
<1> SUFFICES ASSUME NEW l \in Leads PROVE Agrees(l)'
  BY DEF LeadAgreesWithItsResults, Agrees
<1>0. /\ Agrees(l) /\ results \in Seq(Result) /\ DOMAIN leads = Leads
      /\ leads \in [Leads -> Decided \cup {"ABSENT", "OPEN"}]
  BY DEF StoreInv, TypeInv, TypeOK, LeadAgreesWithItsResults, Agrees
<1>1. \A i \in DOMAIN results : results[i].status \in Decided
  <2>1. \A i \in DOMAIN results : results[i] \in Result
    BY <1>0
  <2> QED
    BY <2>1 DEF Result
<1>2. CASE /\ results' = results
           /\ \/ leads'[l] = leads[l]
              \/ leads[l] = "ABSENT" /\ leads'[l] = "OPEN"
              \/ leads'[l] = "ABSENT" /\ results = << >>
  <2>1. Latest(l)' = Latest(l) /\ Latest(l) \subseteq DOMAIN results
    BY <1>2 DEF Latest
  <2>2. CASE leads'[l] = leads[l]
    BY <1>0, <1>2, <2>1, <2>2 DEF Agrees
  <2>3. CASE leads[l] = "ABSENT" /\ leads'[l] = "OPEN"
    <3>1. Latest(l) = {}
      BY <1>0, <1>1, <2>1, <2>3 DEF Agrees, Decided
    <3> QED
      BY <2>1, <2>3, <3>1 DEF Agrees
  <2>4. CASE leads'[l] = "ABSENT" /\ results = << >>
    BY <2>1, <2>4 DEF Agrees
  <2> QED
    BY <1>2, <2>2, <2>3, <2>4
<1>3. CASE Forgotten
  BY <1>3 DEF Forgotten, Agrees, Latest
<1>4. ASSUME NEW t \in Threads, Reseed(t) PROVE Agrees(l)'
  <2>1. results = << >>
    BY <1>4 DEF Reseed, StoreInv, TypeInv, ResultsHaveTheirCase
  <2>2. Latest(l) = {}
    BY <2>1 DEF Latest
  <2>3. leads[l] \in {"ABSENT", "OPEN"}
    BY <1>0, <2>2 DEF Agrees
  <2>4. results' = <<SeedResult>> /\ leads' = [leads EXCEPT ![SeedLead] = "SUPPORTED"]
    BY <1>4 DEF Reseed
  <2>5. CASE l = SeedLead
    <3>1. Latest(l)' = {1} /\ results'[1] = SeedResult
      BY <2>4, <2>5 DEF Latest, SeedResult
    <3> QED
      BY <1>0, <2>4, <2>5, <3>1 DEF Agrees, SeedResult
  <2>6. CASE l # SeedLead
    <3>1. Latest(l)' = {}
      BY <2>4, <2>6 DEF Latest, SeedResult
    <3> QED
      BY <1>0, <2>3, <2>4, <2>6, <3>1 DEF Agrees
  <2> QED
    BY <2>5, <2>6
<1>5. ASSUME NEW t \in Threads, Commit(t) PROVE Agrees(l)'
  <2>1. PICK r \in Result : /\ results' = Append(results, r) /\ r.lead = Lead(t)
                            /\ r.status = StatusOf(work[t].verdict)
    BY <1>5, CommitAppends
  <2>2. leads' = [leads EXCEPT ![r.lead] = r.status]
    BY <1>5, <2>1 DEF Commit
  <2>3. CASE l = r.lead
    <3>1. Latest(l)' = {Len(results) + 1} /\ results'[Len(results) + 1] = r
      BY <1>0, <2>1, <2>3, LatestOfAppended
    <3> QED
      BY <1>0, <2>2, <2>3, <3>1 DEF Agrees
  <2>4. CASE l # r.lead
    <3>1. Latest(l)' = Latest(l) /\ \A i \in DOMAIN results : results'[i] = results[i]
      BY <1>0, <2>1, <2>4, LatestOfAppended
    <3>2. \A i \in Latest(l) : i \in DOMAIN results
      BY DEF Latest
    <3> QED
      BY <1>0, <2>2, <2>4, <3>1, <3>2 DEF Agrees
  <2> QED
    BY <2>3, <2>4
<1> QED
  BY <1>2, <1>3, <1>4, <1>5, StoreStep DEF StoreInv

LEMMA FitStep == ASSUME StoreInv, [Next]_vars PROVE FindingsFit'
<1> SUFFICES ASSUME NEW i \in DOMAIN results', results'[i].finding
             PROVE  results'[i].status = "SUPPORTED" /\ results'[i].facts \cap Records' # {}
  BY DEF FindingsFit
<1>0. results \in Seq(Result)
  BY DEF StoreInv, TypeInv, TypeOK
<1>1. CASE /\ results' = results
           /\ files \subseteq files' \/ \A j \in DOMAIN results : ~results[j].finding
  <2>1. files \subseteq files'
    BY <1>1
  <2>2. Records \subseteq Records'
    BY <2>1 DEF Records
  <2> QED
    BY <1>1, <2>2 DEF StoreInv, FindingsFit
<1>2. CASE Forgotten
  BY <1>2 DEF Forgotten
<1>3. ASSUME NEW t \in Threads, Reseed(t)
      PROVE  results'[i].status = "SUPPORTED" /\ results'[i].facts \cap Records' # {}
  <2>1. results'[i] = SeedResult /\ Records' = FactsOf[DemoFile]
    BY <1>3 DEF Reseed, Records
  <2>2. FactsOf[DemoFile] # {}
    BY StoreAssumption, FS_EmptySet DEF Files
  <2> QED
    BY <2>1, <2>2 DEF SeedResult
<1>4. ASSUME NEW t \in Threads, Commit(t)
      PROVE  results'[i].status = "SUPPORTED" /\ results'[i].facts \cap Records' # {}
  <2>1. PICK r \in Result : /\ results' = Append(results, r) /\ r.facts = work[t].facts
                            /\ r.status = StatusOf(work[t].verdict)
                            /\ r.finding = (work[t].verdict = "SUBSTANTIATED")
    BY <1>4, CommitAppends
  <2>2. Records' = Records
    BY <1>4 DEF Commit, Records
  <2>3. CASE i \in DOMAIN results /\ results'[i] = results[i]
    BY <2>2, <2>3 DEF StoreInv, FindingsFit
  <2>4. CASE results'[i] = r
    BY <1>4, <2>1, <2>2, <2>4 DEF Commit, Insertable, FindingPassesTheGate, StatusOf
  <2> QED
    BY <1>0, <2>1, <2>3, <2>4, LatestOfAppended
<1> QED
  BY <1>1, <1>2, <1>3, <1>4, StoreStep DEF StoreInv

LEMMA InitStore == Init => StoreInv
<1> SUFFICES ASSUME Init PROVE StoreInv
  OBVIOUS
<1>1. LockInv /\ NothingNewer /\ KeyIsFree
  BY DEF Init, LockInv, NothingNewer, KeyIsFree, Inside, Underway, StartPlaces
<1>2. ASSUME SchemaOnly PROVE LeadAgreesWithItsResults /\ FindingsFit
  BY <1>2 DEF SchemaOnly, LeadAgreesWithItsResults, FindingsFit, Latest
<1>3. ASSUME Seeded PROVE LeadAgreesWithItsResults /\ FindingsFit
  <2>1. FactsOf[DemoFile] # {} /\ SeedLead \in Leads
    BY StoreAssumption, FS_EmptySet DEF Files
  <2>2. FindingsFit
    BY <1>3, <2>1 DEF Seeded, FindingsFit, Records, SeedResult
  <2>3. ASSUME NEW l \in Leads PROVE Latest(l) = IF l = SeedLead THEN {1} ELSE {}
    BY <1>3 DEF Seeded, Latest, SeedResult
  <2>4. LeadAgreesWithItsResults
    BY <1>3, <2>3 DEF Seeded, LeadAgreesWithItsResults, SeedResult
  <2> QED
    BY <2>2, <2>4
<1> QED
  BY <1>1, <1>2, <1>3, InitType DEF Init, StoreInv

LEMMA StoreStays == OneSpelling /\ StoreInv /\ [Next]_vars => StoreInv'
  BY StepType, LockStep, NewerStep, KeyStep, AgreeStep, FitStep DEF StoreInv

(* A lead's row says what the latest result on record came to, and OPEN only
   while there is none: what a commit writes of a lead is not undone by a
   refresh or by another request's put back of the lead. *)
THEOREM RowsAgree == ASSUME OneSpelling PROVE Spec => []LeadAgreesWithItsResults
<1>1. StoreInv /\ [Next]_vars => StoreInv'
  BY StoreStays
<1>2. StoreInv => LeadAgreesWithItsResults
  BY DEF StoreInv
<1> QED
  BY <1>1, <1>2, InitStore, PTL DEF Spec

(* A run under way never redoes the latest result on record for its lead:
   the lock of the lead covers lookup, run and persist together. *)
THEOREM RunsAreNotRepeated == ASSUME OneSpelling PROVE Spec => []LatestIsNotRedone
<1>1. StoreInv /\ [Next]_vars => StoreInv'
  BY StoreStays
<1>2. StoreInv => LatestIsNotRedone
  <2>1. \A t \in Threads : pc[t] \in {"run", "ensure", "check", "commit"} =>
          Underway(t) /\ (TypeInv => Lead(t) \in Leads)
    BY StoreAssumption DEF Underway, TypeInv, InHand, StartPlaces, Lead
  <2> QED
    BY <2>1 DEF StoreInv, NothingNewer, LatestIsNotRedone
<1> QED
  BY <1>1, <1>2, InitStore, PTL DEF Spec

(* A supported finding has its case, its lead and a record it rests on,
   however far a wipe or a reset that overlaps it has come. *)
THEOREM FindingsStand == ASSUME OneSpelling PROVE Spec => []FindingsStandOnTheRecords
<1>1. StoreInv /\ [Next]_vars => StoreInv'
  BY StoreStays
<1>2. StoreInv => FindingsStandOnTheRecords
  <2> SUFFICES ASSUME StoreInv, NEW i \in DOMAIN results, results[i].finding
               PROVE  /\ caseRow # NoCase
                      /\ leads[results[i].lead] = "SUPPORTED" \/ i \notin Latest(results[i].lead)
                      /\ results[i].facts \cap Records # {}
    BY DEF FindingsStandOnTheRecords
  <2>1. caseRow # NoCase
    BY DEF StoreInv, TypeInv, ResultsHaveTheirCase
  <2>2. results[i].lead \in Leads
    <3>1. results[i] \in Result
      BY DEF StoreInv, TypeInv, TypeOK
    <3> QED
      BY <3>1 DEF Result
  <2>3. results[i].status = "SUPPORTED" /\ results[i].facts \cap Records # {}
    BY DEF StoreInv, FindingsFit
  <2> QED
    BY <2>1, <2>2, <2>3 DEF StoreInv, LeadAgreesWithItsResults
<1> QED
  BY <1>1, <1>2, InitStore, PTL DEF Spec

-----------------------------------------------------------------------------
(* A commit puts one sound result into the archive. *)
LEMMA CommitRecords == ASSUME StoreInv, NEW t \in Threads, Commit(t) PROVE Archive!Record
<1> DEFINE archive == {results[i] : i \in DOMAIN results}
<1>1. PICK r \in Result :
        /\ results' = Append(results, r)
        /\ r.lead = Lead(t) /\ r.fp = fp[t] /\ r.facts = work[t].facts
        /\ r.status = StatusOf(work[t].verdict) /\ r.finding = (work[t].verdict = "SUBSTANTIATED")
        /\ r.steps = [i \in 1..work[t].steps |-> t]
  BY CommitAppends
<1>2. archive' = archive \cup {r}
  <2>1. results \in Seq(Result)
    BY DEF StoreInv, TypeInv, TypeOK
  <2> QED
    BY <1>1, <2>1, LatestOfAppended
<1>3. \A old \in archive : <<old.lead, old.fp>> # <<r.lead, r.fp>>
  BY <1>1 DEF StoreInv, KeyIsFree, Commit
<1>4. work[t].verdict \in Verdicts
  BY StoreResultType DEF StoreInv, Commit
<1>5. Archive!Sound(r)
  <2>1. \A i, j \in DOMAIN r.steps : r.steps[i] = r.steps[j]
    BY <1>1
  <2>2. r.finding <=> r.status = "SUPPORTED"
    BY <1>1, <1>4 DEF Verdicts, StatusOf
  <2>3. r.finding => \E f, g \in r.facts : f # g
    <3>1. r.finding => Cardinality(r.facts) >= 2
      BY <1>1 DEF Commit, Insertable, FindingPassesTheGate
    <3>2. r.facts = {} => Cardinality(r.facts) = 0
      BY FS_EmptySet
    <3>3. ASSUME NEW f PROVE r.facts = {f} => Cardinality(r.facts) = 1
      BY FS_Singleton
    <3> QED
      BY <3>1, <3>2, <3>3
  <2> QED
    BY <2>1, <2>2, <2>3 DEF Archive!Sound
<1> HIDE DEF archive
<1>6. r \in archive' /\ archive' = archive \cup {r}
  BY <1>2
<1> QED
  BY <1>3, <1>5, <1>6 DEF archive, Archive!Record

(* The table of investigations implements the archive: results come whole,
   one at a time and under keys of their own, are never touched again, and
   leave all together. *)
THEOREM StoreIsAnArchive == ASSUME OneSpelling PROVE Spec => ImplementsArchive
<1> DEFINE archive == {results[i] : i \in DOMAIN results}
<1>1. StoreInv /\ [Next]_vars => StoreInv'
  BY StoreStays
<1>2. Init => Archive!Init
  BY DEF Init, SchemaOnly, Seeded, Archive!Init
<1>3. StoreInv /\ [Next]_vars => [Archive!Next]_archive
  <2> SUFFICES ASSUME StoreInv, [Next]_vars PROVE Archive!Next \/ archive' = archive
    OBVIOUS
  <2>1. CASE results' = results
    BY <2>1
  <2>2. CASE results' = << >>
    BY <2>2 DEF Archive!Next, Archive!Forget
  <2>3. ASSUME NEW t \in Threads, Reseed(t) PROVE Archive!Next
    <3>1. results = << >> /\ results' = <<SeedResult>>
      BY <2>3 DEF Reseed, StoreInv, TypeInv, ResultsHaveTheirCase
    <3> QED
      BY <3>1 DEF Archive!Next, Archive!Reload
  <2>4. ASSUME NEW t \in Threads, Commit(t) PROVE Archive!Next
    BY <2>4, CommitRecords DEF Archive!Next
  <2> QED
    BY <2>1, <2>2, <2>3, <2>4, StoreStep DEF StoreInv, Forgotten
<1> QED
  BY <1>1, <1>2, <1>3, InitStore, PTL DEF Spec, ImplementsArchive, Archive!Spec
=============================================================================
