------------------------------ MODULE CaseDesk -------------------------------
(***************************************************************************)
(* What the desk keeps beside the case, with PostgreSQL: the timeline that *)
(* services/observability_service.py writes twice, the questions of        *)
(* services/case_service.py, the lead a case is shown with, as the         *)
(* handlers of api/app.py start, ask, clear, load and reset.  How a run is *)
(* filed is CaseStore's; here it is one step.                              *)
(***************************************************************************)
EXTENDS Naturals, Sequences, FiniteSets, SequencesExt

CONSTANTS
  Threads,
  Leads,        \* the leads of the demo
  Investigated, \* those that are started; the others are on file
  SeedLead,     \* the one the seed brings investigated
  StepsOf,      \* how many steps the run of a lead takes
  Evidenced,    \* the leads whose run collects evidence
  PageLimit,    \* events that GET /api/events returns, unless told otherwise
  MaxRequests,  \* bound: requests asked in all
  MaxFaults,    \* bound: writes of events that fail, restarts of the process
  CaseKey, DemoKey, None

ASSUME DeskAssumption ==
  /\ IsFiniteSet(Leads) /\ SeedLead \in Leads /\ Investigated \subseteq Leads
  /\ StepsOf \in [Leads -> Nat \ {0}] /\ Evidenced \subseteq Leads
  /\ PageLimit \in Nat \ {0}
  /\ MaxRequests \in Nat /\ MaxFaults \in Nat
  /\ {CaseKey, DemoKey, None} \cap Leads = {} /\ CaseKey # DemoKey
  /\ None \notin {"OK", "ERROR", "question"}

VARIABLES
  (* the database *)
  caseRow,      \* there is a CASE-DEMO-001
  known,        \* rows of leads
  filed,        \* investigations, by their leads, oldest first
  questions,    \* case_questions: [serial, evidence, steps]
  persisted,    \* operational_events by external_case_key
  (* the process *)
  memory,       \* _events by case_id; PENDING-<lead> is the lead's
  active,       \* active_lead_by_case
  pc, op, arg,
  serial,       \* the number of the request
  seen,         \* questions a clear has deleted, not committed yet
  evidence, steps,   \* as a handler has read them
  todo,         \* events it still emits: [key, event]
  answer,
  (* history *)
  requests, faults, crashes,
  lost,         \* events whose write failed, while the memory should have them
  told,         \* runs that were answered: [serial, steps]
  disturbed,    \* by thread: another request was served meanwhile
  mixed         \* a clear, load or reset was, while another was

db == <<caseRow, known, filed, questions>>
logs == <<persisted, memory, lost, faults>>
locals == <<seen, evidence, steps, todo>>
vars == <<db, logs, active, pc, op, arg, serial, locals, answer, requests, crashes, told, disturbed, mixed>>

Swaps == {"clear", "load", "reset"}

Keys == Leads \cup {CaseKey, DemoKey}

Event(type, what, by) == [type |-> type, what |-> what, by |-> by]

(* The steps on file, run by run. *)
StepsOnFile == FlattenSeq([i \in DOMAIN filed |-> [n \in 1..StepsOf[filed[i]] |-> <<filed[i], n>>]])

EvidenceOnFile == Range(filed) \cap Evidenced

-----------------------------------------------------------------------------
(* What an earlier process has left: the demo, an investigation of each of
   the other leads, and their timelines. *)
Earlier == SetToSeq(Leads \ Investigated)

Init ==
  /\ caseRow = TRUE /\ known = Leads /\ filed = Earlier
  /\ questions = {}
  /\ persisted = [k \in Keys |->
       CASE k \in Range(Earlier) -> <<Event("investigation_start", k, 0)>>
         [] k = CaseKey /\ Earlier # <<>> ->
              <<Event("investigation_complete", Last(Earlier), 0)>>
                \o [i \in DOMAIN StepsOnFile |-> Event("investigation_step", StepsOnFile[i], 0)]
         [] OTHER -> <<>>]
  /\ memory = [k \in Keys |-> <<>>]
  /\ active = None
  /\ pc = [t \in Threads |-> "idle"]
  /\ op = [t \in Threads |-> None] /\ arg = [t \in Threads |-> None]
  /\ serial = [t \in Threads |-> 0]
  /\ seen = [t \in Threads |-> {}]
  /\ evidence = [t \in Threads |-> {}] /\ steps = [t \in Threads |-> <<>>]
  /\ todo = [t \in Threads |-> <<>>]
  /\ answer = [t \in Threads |-> None]
  /\ requests = 0 /\ faults = 0 /\ crashes = 0
  /\ lost = {}
  /\ told = IF Earlier = <<>> THEN {} ELSE {[serial |-> 0, steps |-> StepsOnFile]}
  /\ disturbed = [t \in Threads |-> FALSE] /\ mixed = FALSE

Goto(t, place) == pc' = [pc EXCEPT ![t] = place]

Return(t, response) == Goto(t, "done") /\ answer' = [answer EXCEPT ![t] = response]

Quiet == UNCHANGED <<op, arg, serial, requests, crashes, disturbed, mixed>>

Fail(t, response) == Return(t, response) /\ UNCHANGED <<db, logs, active, locals, told>> /\ Quiet

Active == {t \in Threads : pc[t] # "idle"}

Emitting(t, events) == todo' = [todo EXCEPT ![t] = events] /\ Goto(t, "emit")

Ask(t, operation, about) ==
  /\ pc[t] = "idle" /\ requests < MaxRequests
  /\ requests' = requests + 1
  /\ op' = [op EXCEPT ![t] = operation]
  /\ arg' = [arg EXCEPT ![t] = about]
  /\ serial' = [serial EXCEPT ![t] = requests']
  /\ disturbed' = [u \in Threads |-> IF u = t THEN Active # {} ELSE disturbed[u] \/ u \in Active]
  /\ mixed' = (mixed \/ \E u \in Active : operation \in Swaps \/ op[u] \in Swaps)
  /\ UNCHANGED <<db, logs, active, seen, evidence, steps, answer, crashes, told>>

AskStart(t) ==
  \E l \in Investigated :
    /\ Ask(t, "start", l)
    /\ Emitting(t, <<[key |-> l, event |-> Event("investigation_start", l, requests')]>>)

AskQuestion(t) == Ask(t, "question", None) /\ Goto(t, "read_evidence") /\ UNCHANGED todo

AskSwap(t) == \E o \in Swaps : Ask(t, o, None) /\ Goto(t, "clear") /\ UNCHANGED todo

Respond(t) ==
  /\ pc[t] = "done"
  /\ Goto(t, "idle")
  /\ op' = [op EXCEPT ![t] = None]
  /\ arg' = [arg EXCEPT ![t] = None]
  /\ serial' = [serial EXCEPT ![t] = 0]
  /\ seen' = [seen EXCEPT ![t] = {}]
  /\ evidence' = [evidence EXCEPT ![t] = {}]
  /\ steps' = [steps EXCEPT ![t] = <<>>]
  /\ answer' = [answer EXCEPT ![t] = None]
  /\ disturbed' = [disturbed EXCEPT ![t] = FALSE]
  /\ UNCHANGED <<db, logs, active, todo, requests, crashes, told, mixed>>

-----------------------------------------------------------------------------
(* emit: the memory first, under its lock, then the database. *)

Record(t) ==
  /\ pc[t] = "emit"
  /\ LET e == Head(todo[t]) IN memory' = [memory EXCEPT ![e.key] = Append(@, e.event)]
  /\ Goto(t, "sink")
  /\ UNCHANGED <<db, persisted, lost, faults, active, locals, answer, told>> /\ Quiet

(* What comes after an event: the next, the investigation it announces, or
   the answer. *)
Proceed(t) ==
  /\ todo' = [todo EXCEPT ![t] = Tail(@)]
  /\ IF Len(todo[t]) > 1 THEN Goto(t, "emit") /\ UNCHANGED answer
     ELSE IF Head(todo[t]).event.type = "investigation_start" THEN Goto(t, "investigate") /\ UNCHANGED answer
     ELSE Return(t, "OK")

(* The run that is answered with its last event, for the history. *)
Told(t) ==
  IF op[t] = "start" /\ Len(todo[t]) = 1 /\ Head(todo[t]).event.type # "investigation_start"
  THEN {[serial |-> serial[t], steps |-> steps[t]]} ELSE {}

Persist(t) ==
  /\ pc[t] = "sink"
  /\ LET e == Head(todo[t]) IN persisted' = [persisted EXCEPT ![e.key] = Append(@, e.event)]
  /\ Proceed(t)
  /\ told' = told \cup Told(t)
  /\ UNCHANGED <<db, memory, lost, faults, active, seen, evidence, steps>> /\ Quiet

(* The write fails, and nobody is told. *)
Lose(t) ==
  /\ pc[t] = "sink" /\ faults + crashes < MaxFaults
  /\ faults' = faults + 1
  /\ lost' = IF \E i \in DOMAIN memory[Head(todo[t]).key] : memory[Head(todo[t]).key][i] = Head(todo[t]).event
             THEN lost \cup {Head(todo[t])} ELSE lost
  /\ Proceed(t)
  /\ told' = told \cup Told(t)
  /\ UNCHANGED <<db, persisted, memory, active, seen, evidence, steps>> /\ Quiet

(* clear: of one key, or of all. *)
ForgetEvents(keys) ==
  /\ memory' = [k \in Keys |-> IF k \in keys THEN <<>> ELSE memory[k]]
  /\ lost' = {e \in lost : e.key \notin keys}
  /\ UNCHANGED <<persisted, faults>>

-----------------------------------------------------------------------------
(* start_investigation *)

(* One run of a lead at a time: the lock is taken, then looked around. *)
Alone(t) == \A u \in Threads : arg[u] = arg[t] => pc[u] # "file"

(* 404, the PENDING event stays. *)
LeadNotFound(t) ==
  pc[t] = "investigate" /\ Alone(t) /\ arg[t] \notin known /\ Fail(t, "NOT_FOUND")

ReadCase(t) == steps' = [steps EXCEPT ![t] = StepsOnFile]

(* A run on file is replayed, if there is evidence in the case. *)
Replay(t) ==
  /\ pc[t] = "investigate" /\ Alone(t)
  /\ arg[t] \in Range(filed) /\ EvidenceOnFile # {}
  /\ ReadCase(t)
  /\ Goto(t, "present")
  /\ UNCHANGED <<db, logs, active, seen, evidence, todo, answer, told>> /\ Quiet

Investigate(t) ==
  /\ pc[t] = "investigate" /\ Alone(t) /\ arg[t] \in known
  /\ ~(arg[t] \in Range(filed) /\ EvidenceOnFile # {})
  /\ Goto(t, "file")
  /\ UNCHANGED <<db, logs, active, locals, answer, told>> /\ Quiet

(* persist_investigation_result, which files a run of one dataset once, and
   fails without its rows of case and lead. *)
File(t) ==
  /\ pc[t] = "file" /\ caseRow /\ arg[t] \in known
  /\ filed' = IF arg[t] \in Range(filed) THEN filed ELSE Append(filed, arg[t])
  /\ Goto(t, "details")
  /\ UNCHANGED <<caseRow, known, questions, logs, active, locals, answer, told>> /\ Quiet

(* Or it is the victim of its deadlock with a clear. *)
FileFails(t) ==
  /\ pc[t] = "file"
  /\ ~(caseRow /\ arg[t] \in known) \/ \E u \in Threads : pc[u] \in {"forget", "strip"}
  /\ Fail(t, "ERROR")

(* The details are those of the case, of every run on file. *)
ReadBack(t) ==
  /\ pc[t] = "details" /\ caseRow
  /\ ReadCase(t)
  /\ Goto(t, "present")
  /\ UNCHANGED <<db, logs, active, seen, evidence, todo, answer, told>> /\ Quiet

(* None is no investigation: an assertion fails. *)
NothingToReadBack(t) == pc[t] = "details" /\ ~caseRow /\ Fail(t, "ERROR")

(* Fault: the last step is left out. *)
EventsOfRunButTheLast(t) ==
  <<[key |-> CaseKey, event |-> Event("investigation_complete", arg[t], serial[t])]>>
    \o [i \in 1..(Len(steps[t]) - 1) |->
          [key |-> CaseKey, event |-> Event("investigation_step", steps[t][i], serial[t])]]

(* The completion, then every step of the answer. *)
EventsOfRun(t) ==
  <<[key |-> CaseKey, event |-> Event("investigation_complete", arg[t], serial[t])]>>
    \o [i \in DOMAIN steps[t] |->
          [key |-> CaseKey, event |-> Event("investigation_step", steps[t][i], serial[t])]]

(* Fault: the memory of all timelines is cleared. *)
PresentClearingAll(t) ==
  /\ pc[t] = "present"
  /\ active' = arg[t]
  /\ memory' = [k \in Keys |-> <<>>]
  /\ lost' = {e \in lost : e.key # arg[t]}
  /\ Emitting(t, EventsOfRun(t))
  /\ UNCHANGED <<db, persisted, faults, seen, evidence, steps, answer, told>> /\ Quiet

(* _wrap_investigation; then the PENDING events of the lead leave the
   memory, not the database. *)
Present(t) ==
  /\ pc[t] = "present"
  /\ active' = arg[t]
  /\ ForgetEvents({arg[t]})
  /\ Emitting(t, EventsOfRun(t))
  /\ UNCHANGED <<db, seen, evidence, steps, answer, told>> /\ Quiet

Start(t) ==
  LeadNotFound(t) \/ Replay(t) \/ Investigate(t) \/ File(t) \/ FileFails(t)
    \/ ReadBack(t) \/ NothingToReadBack(t) \/ Present(t)

-----------------------------------------------------------------------------
(* ask_case_question: the evidence and the steps are read one after the
   other, then the question is put on record with references to both. *)

ReadEvidence(t) ==
  /\ pc[t] = "read_evidence" /\ caseRow
  /\ evidence' = [evidence EXCEPT ![t] = EvidenceOnFile]
  /\ Goto(t, "read_steps")
  /\ UNCHANGED <<db, logs, active, seen, steps, todo, answer, told>> /\ Quiet

CaseNotFound(t) == pc[t] = "read_evidence" /\ ~caseRow /\ Fail(t, "NOT_FOUND")

ReadSteps(t) ==
  /\ pc[t] = "read_steps"
  /\ ReadCase(t)
  /\ Goto(t, "answer")
  /\ UNCHANGED <<db, logs, active, seen, evidence, todo, answer, told>> /\ Quiet

(* What the row refers to is there, the case to begin with. *)
Answerable(t) ==
  caseRow /\ evidence[t] \subseteq EvidenceOnFile /\ Range(steps[t]) \subseteq Range(StepsOnFile)

(* Fault: the steps on record are read again. *)
PersistQuestionAnew(t) ==
  /\ pc[t] = "answer" /\ Answerable(t)
  /\ questions' = questions \cup
       {[serial |-> serial[t], evidence |-> evidence[t], steps |-> Range(StepsOnFile)]}
  /\ Return(t, "OK")
  /\ UNCHANGED <<caseRow, known, filed, logs, active, locals, told>> /\ Quiet

PersistQuestion(t) ==
  /\ pc[t] = "answer" /\ Answerable(t)
  /\ questions' = questions \cup
       {[serial |-> serial[t], evidence |-> evidence[t], steps |-> Range(steps[t])]}
  /\ Return(t, "OK")
  /\ UNCHANGED <<caseRow, known, filed, logs, active, locals, told>> /\ Quiet

PersistQuestionFails(t) == pc[t] = "answer" /\ ~Answerable(t) /\ Fail(t, "ERROR")

Question(t) ==
  ReadEvidence(t) \/ CaseNotFound(t) \/ ReadSteps(t) \/ PersistQuestion(t) \/ PersistQuestionFails(t)

-----------------------------------------------------------------------------
(* clear_analysis, in one transaction: the questions first, which refer to
   steps and evidence, then those, the leads, the events of DEMO. *)

(* Fault: the questions go last. *)
DeleteQuestionsLast(t) ==
  /\ pc[t] \in {"clear", "strip_questions"}
  /\ IF caseRow
     THEN Goto(t, IF pc[t] = "clear" THEN "forget" ELSE "strip")
     ELSE Goto(t, CASE pc[t] = "strip_questions" -> "surface" [] op[t] = "load" -> "reseed" [] OTHER -> "shell")
  /\ UNCHANGED <<db, logs, active, locals, answer, told>> /\ Quiet

DeleteQuestions(t) ==
  /\ pc[t] \in {"clear", "strip_questions"}
  /\ IF caseRow
     THEN /\ seen' = [seen EXCEPT ![t] = questions]
          /\ Goto(t, IF pc[t] = "clear" THEN "forget" ELSE "strip")
     ELSE /\ UNCHANGED seen
          /\ Goto(t, CASE pc[t] = "strip_questions" -> "surface" [] op[t] = "load" -> "reseed" [] OTHER -> "shell")
  /\ UNCHANGED <<db, logs, active, evidence, steps, todo, answer, told>> /\ Quiet

(* A question asked since refers to what is to be deleted. *)
Restricted(t) == \E q \in questions \ seen[t] : q.evidence # {} \/ q.steps # {}

Forget(t) ==
  /\ pc[t] \in {"forget", "strip"} /\ ~Restricted(t)
  /\ filed' = <<>> /\ known' = {}
  /\ questions' = questions \ seen[t]
  /\ persisted' = [persisted EXCEPT ![DemoKey] = <<>>]
  /\ Goto(t, IF pc[t] = "forget" THEN "purge" ELSE "surface")
  /\ UNCHANGED <<caseRow, memory, lost, faults, active, locals, answer, told>> /\ Quiet

ForgetFails(t) ==
  /\ pc[t] \in {"forget", "strip"}
  /\ Restricted(t) \/ \E u \in Threads : pc[u] = "file"
  /\ Fail(t, "ERROR")

(* purge_case_financial_data: of the case only a load deletes the row, and
   with it the questions. *)
Purge(t) ==
  /\ pc[t] = "purge"
  /\ IF op[t] = "load"
     THEN /\ filed = <<>>
          /\ caseRow' = FALSE /\ known' = {} /\ questions' = {}
          /\ Goto(t, "reseed")
     ELSE UNCHANGED <<caseRow, known, questions>> /\ Goto(t, "shell")
  /\ UNCHANGED <<filed, logs, active, locals, answer, told>> /\ Quiet

(* What was filed or raised in between may restrict it. *)
PurgeFails(t) == pc[t] = "purge" /\ (filed # <<>> \/ known # {}) /\ Fail(t, "ERROR")

EnsureCase(t) ==
  /\ pc[t] = "shell"
  /\ caseRow' = TRUE
  /\ Goto(t, "desk")
  /\ UNCHANGED <<known, filed, questions, logs, active, locals, answer, told>> /\ Quiet

(* The seed brings an investigation, which the strip takes away. *)
Reseed(t) ==
  /\ pc[t] = "reseed" /\ ~caseRow
  /\ caseRow' = TRUE /\ known' = {SeedLead} /\ filed' = <<SeedLead>>
  /\ Goto(t, "strip_questions")
  /\ UNCHANGED <<questions, logs, active, locals, answer, told>> /\ Quiet

ReseedFails(t) == pc[t] = "reseed" /\ caseRow /\ Fail(t, "ERROR")

(* refresh_leads *)
Surface(t) ==
  /\ pc[t] = "surface" /\ caseRow
  /\ known' = Leads
  /\ Goto(t, "desk")
  /\ UNCHANGED <<caseRow, filed, questions, logs, active, locals, answer, told>> /\ Quiet

SurfaceFails(t) == pc[t] = "surface" /\ ~caseRow /\ Fail(t, "ERROR")

DemoEvent(t) == [key |-> DemoKey, event |-> Event(op[t], None, serial[t])]

(* Fault: a load leaves the lead the case is shown with. *)
ClearDeskButActive(t) ==
  /\ pc[t] = "desk"
  /\ active' = IF op[t] = "load" THEN active ELSE None
  /\ IF op[t] = "load" THEN Emitting(t, <<DemoEvent(t)>>) ELSE Goto(t, "memory") /\ UNCHANGED todo
  /\ UNCHANGED <<db, logs, seen, evidence, steps, answer, told>> /\ Quiet

ClearDesk(t) ==
  /\ pc[t] = "desk"
  /\ active' = None
  /\ IF op[t] = "load" THEN Emitting(t, <<DemoEvent(t)>>) ELSE Goto(t, "memory") /\ UNCHANGED todo
  /\ UNCHANGED <<db, logs, seen, evidence, steps, answer, told>> /\ Quiet

ClearMemory(t) ==
  /\ pc[t] = "memory"
  /\ ForgetEvents(Keys)
  /\ IF op[t] = "clear" THEN Emitting(t, <<DemoEvent(t)>>) /\ UNCHANGED answer
     ELSE Return(t, "OK") /\ UNCHANGED todo
  /\ UNCHANGED <<db, active, seen, evidence, steps, told>> /\ Quiet

Swap(t) ==
  DeleteQuestions(t) \/ Forget(t) \/ ForgetFails(t) \/ Purge(t) \/ PurgeFails(t) \/ EnsureCase(t)
    \/ Reseed(t) \/ ReseedFails(t) \/ Surface(t) \/ SurfaceFails(t) \/ ClearDesk(t) \/ ClearMemory(t)

-----------------------------------------------------------------------------
(* The process is restarted: what is not in the database is gone. *)
Crash ==
  /\ faults + crashes < MaxFaults /\ Active # {}
  /\ crashes' = crashes + 1
  /\ memory' = [k \in Keys |-> <<>>] /\ lost' = {}
  /\ active' = None
  /\ pc' = [t \in Threads |-> "idle"]
  /\ op' = [t \in Threads |-> None] /\ arg' = [t \in Threads |-> None]
  /\ serial' = [t \in Threads |-> 0]
  /\ seen' = [t \in Threads |-> {}]
  /\ evidence' = [t \in Threads |-> {}] /\ steps' = [t \in Threads |-> <<>>]
  /\ todo' = [t \in Threads |-> <<>>]
  /\ answer' = [t \in Threads |-> None]
  /\ disturbed' = [t \in Threads |-> FALSE]
  /\ UNCHANGED <<db, persisted, faults, requests, told, mixed>>

Work(t) == Record(t) \/ Persist(t) \/ Lose(t) \/ Start(t) \/ Question(t) \/ Swap(t) \/ Respond(t)

Arrive(t) == AskStart(t) \/ AskQuestion(t) \/ AskSwap(t)

Next == Crash \/ \E t \in Threads : Work(t) \/ Arrive(t)

Spec == Init /\ [][Next]_vars
-----------------------------------------------------------------------------
Places ==
  {"idle", "emit", "sink", "investigate", "file", "details", "present", "read_evidence", "read_steps",
   "answer", "clear", "forget", "purge", "shell", "reseed", "strip_questions", "strip", "surface",
   "desk", "memory", "done"}

Steps == Leads \X Nat

EventTypes == Swaps \cup {"investigation_start", "investigation_complete", "investigation_step"}

Events == [type : EventTypes, what : Leads \cup Steps \cup {None}, by : Nat]

Questions == [serial : Nat, evidence : SUBSET Leads, steps : SUBSET Steps]

TypeOK ==
  /\ caseRow \in BOOLEAN
  /\ known \subseteq Leads /\ filed \in Seq(Leads)
  /\ questions \subseteq Questions
  /\ persisted \in [Keys -> Seq(Events)] /\ memory \in [Keys -> Seq(Events)]
  /\ active \in Leads \cup {None}
  /\ pc \in [Threads -> Places]
  /\ op \in [Threads -> Swaps \cup {"start", "question", None}]
  /\ arg \in [Threads -> Leads \cup {None}]
  /\ serial \in [Threads -> Nat]
  /\ seen \in [Threads -> SUBSET Questions]
  /\ evidence \in [Threads -> SUBSET Leads] /\ steps \in [Threads -> Seq(Steps)]
  /\ todo \in [Threads -> Seq([key : Keys, event : Events])]
  /\ answer \in [Threads -> {"OK", "NOT_FOUND", "ERROR", None}]
  /\ requests \in 0..MaxRequests /\ faults \in Nat /\ crashes \in Nat /\ faults + crashes <= MaxFaults
  /\ disturbed \in [Threads -> BOOLEAN] /\ mixed \in BOOLEAN

(* What GET /api/events returns: the oldest events in the database, and
   those in memory only when there are none. *)
Shown(key) ==
  LET log == IF persisted[key] # <<>> THEN persisted[key] ELSE memory[key]
  IN SubSeq(log, 1, Min({PageLimit, Len(log)}))

Complete == "investigation_complete"

(* A run is on a timeline: of the events shown that its request emitted, the
   first is its completion, and the others are its steps in order. *)
IsShown(key, run) ==
  LET page == Shown(key)
      own  == {i \in DOMAIN page : page[i].by = run.serial}
      Before(i) == Cardinality({j \in own : j < i})
  IN /\ Cardinality(own) = Len(run.steps) + 1
     /\ \A i \in own :
          IF Before(i) = 0 THEN page[i].type = Complete ELSE page[i].what = run.steps[Before(i)]

(* A run that was answered is on the timeline of the case from then on, its
   completion first, every step of the answer after it in order, whatever
   is cleared, loaded or restarted and whoever writes between, as long as
   no write failed and the timeline fits the page. *)
ToldRunsAreShown ==
  faults = 0 /\ Len(persisted[CaseKey]) <= PageLimit =>
    \A r \in told : IsShown(CaseKey, r)

(* Of the timelines in the database but that of DEMO nothing is taken back. *)
TimelinesOnlyGrow ==
  [][\A k \in Keys \ {DemoKey} : IsPrefix(persisted[k], persisted'[k])]_vars

(* An event whose write failed stays in memory until its key is cleared:
   the end of one investigation forgets no other timeline. *)
LostEventsAreRemembered ==
  \A e \in lost : e.event \in Range(memory[e.key])

(* A question that was answered is on record with what its answer was made
   from, unless a clear, load or reset came in between; and what is on
   record refers to evidence and steps that are on file, even then. *)
AnswersAreOnRecord ==
  /\ \A q \in questions : q.evidence \subseteq EvidenceOnFile /\ q.steps \subseteq Range(StepsOnFile)
  /\ \A t \in Threads :
       op[t] = "question" /\ answer[t] = "OK" /\ ~mixed =>
         [serial |-> serial[t], evidence |-> evidence[t], steps |-> Range(steps[t])] \in questions

(* A clear, load or reset that nothing else disturbs is never refused,
   whatever was investigated and asked before. *)
ClearingAloneSucceeds ==
  \A t \in Threads : op[t] \in Swaps /\ ~disturbed[t] => answer[t] \in {"OK", None}

(* The lead the case is shown with has a run on file, unless clears, loads
   and starts ran into one another. *)
ActiveLeadHasARun ==
  ~mixed /\ (\A t \in Active : op[t] \notin Swaps) => active = None \/ active \in Range(filed)
=============================================================================
