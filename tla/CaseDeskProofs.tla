--------------------------- MODULE CaseDeskProofs ----------------------------
(***************************************************************************)
(* Proofs about CaseDesk, for any threads, leads, runs, requests, failed   *)
(* writes and restarts.  What is proved by counting up the runs on file is *)
(* proved by their least counterexample.                                   *)
(***************************************************************************)
EXTENDS CaseDesk, SequenceTheorems, FunctionTheorems, FiniteSetTheorems, WellFoundedInduction, TLAPS

-----------------------------------------------------------------------------
(* FlattenSeq. *)

LEMMA Least ==
  ASSUME NEW S \in SUBSET Nat, S # {}
  PROVE  \E n \in S : \A m \in S : ~(m < n)
<1>1. \E n \in S : \A m \in S : <<m, n>> \notin OpToRel(<, Nat)
  BY WFMin, NatLessThanWellFounded, Zenon
<1> QED
  BY <1>1 DEF OpToRel

Unrolls(g, s, n) == g = [i \in 1..n |-> IF i = 1 THEN s[i] ELSE g[i-1] \o s[i]]

LEMMA Unrolled ==
  ASSUME NEW s, NEW n \in Nat
  PROVE  \E g : Unrolls(g, s, n)
<1> DEFINE Bad == {m \in Nat : ~ \E g : Unrolls(g, s, m)}
<1> SUFFICES ASSUME Bad # {} PROVE FALSE
  OBVIOUS
<1>1. PICK m \in Bad : \A k \in Bad : ~(k < m)
  BY Least
<1>2. m # 0
  <2>1. Unrolls([i \in 1..0 |-> 0], s, 0)
    BY DEF Unrolls
  <2> QED
    BY <2>1
<1>3. PICK g : Unrolls(g, s, m - 1)
  BY <1>1, <1>2
<1> DEFINE h == [i \in 1..m |-> IF i = 1 THEN s[i] ELSE g[i-1] \o s[i]]
<1>4. \A i \in 1..(m-1) : g[i] = h[i]
  <2> SUFFICES ASSUME NEW i \in 1..(m-1) PROVE g[i] = h[i]
    OBVIOUS
  <2>1. g[i] = IF i = 1 THEN s[i] ELSE g[i-1] \o s[i]
    BY <1>3, Zenon DEF Unrolls
  <2>2. i \in 1..m
    BY <1>1
  <2> QED
    BY <2>1, <2>2, Zenon
<1>5. Unrolls(h, s, m)
  <2>1. \A i \in 1..m : i # 1 => i - 1 \in 1..(m-1)
    BY <1>1
  <2>2. \A i \in 1..m : i # 1 => g[i-1] = h[i-1]
    BY <1>4, <2>1, Zenon
  <2>4. h = [i \in 1..m |-> h[i]]
    OBVIOUS
  <2>3. h = [i \in 1..m |-> IF i = 1 THEN s[i] ELSE h[i-1] \o s[i]]
    <3>1. \A i \in 1..m : h[i] = IF i = 1 THEN s[i] ELSE h[i-1] \o s[i]
      BY <2>2, Zenon
    <3> HIDE DEF h
    <3> QED
      BY <3>1, <2>4
  <2> QED
    BY <2>3 DEF Unrolls
<1> QED
  BY <1>1, <1>5

LEMMA FlattenUnrolls ==
  ASSUME NEW s, Len(s) \in Nat, Len(s) # 0
  PROVE  \E g : Unrolls(g, s, Len(s)) /\ FlattenSeq(s) = g[Len(s)]
<1>1. \E g : g = [i \in 1..Len(s) |-> IF i = 1 THEN s[i] ELSE g[i-1] \o s[i]]
  BY Unrolled DEF Unrolls
<1> DEFINE G == CHOOSE g : g = [i \in 1..Len(s) |-> IF i = 1 THEN s[i] ELSE g[i-1] \o s[i]]
<1>2. G = [i \in 1..Len(s) |-> IF i = 1 THEN s[i] ELSE G[i-1] \o s[i]]
  BY <1>1, Zenon
<1>3. FlattenSeq(s) = G[Len(s)]
  BY Zenon DEF FlattenSeq
<1> QED
  BY <1>2, <1>3 DEF Unrolls

LEMMA FlattenIsSeq ==
  ASSUME NEW X, NEW s \in Seq(Seq(X))
  PROVE  FlattenSeq(s) \in Seq(X)
<1>1. CASE Len(s) = 0
  <2>1. s = << >>
    BY <1>1
  <2> QED
    BY <2>1 DEF FlattenSeq
<1>2. CASE Len(s) # 0
  <2>1. PICK g : Unrolls(g, s, Len(s)) /\ FlattenSeq(s) = g[Len(s)]
    BY <1>2, FlattenUnrolls
  <2> DEFINE Bad == {i \in 1..Len(s) : g[i] \notin Seq(X)}
  <2>2. Bad = {}
    <3> SUFFICES ASSUME Bad # {} PROVE FALSE
      OBVIOUS
    <3>1. PICK i \in Bad : \A k \in Bad : ~(k < i)
      <4>1. Bad \in SUBSET Nat
        OBVIOUS
      <4> HIDE DEF Bad
      <4> QED
        BY <4>1, Least
    <3>2. g[i] = IF i = 1 THEN s[i] ELSE g[i-1] \o s[i]
      BY <2>1, Zenon DEF Unrolls
    <3>3. i \in 1..Len(s) /\ s[i] \in Seq(X)
      OBVIOUS
    <3>4. CASE i = 1
      BY <3>2, <3>3, <3>4
    <3>5. CASE i # 1
      <4>1. i - 1 \in 1..Len(s) /\ i - 1 < i
        BY <3>3, <3>5
      <4>2. g[i-1] \in Seq(X)
        BY <3>1, <4>1
      <4>3. g[i-1] \o s[i] \in Seq(X)
        BY <3>3, <4>2
      <4>4. g[i] = g[i-1] \o s[i]
        BY <3>2, <3>5
      <4> QED
        BY <4>3, <4>4
    <3> QED
      BY <3>4, <3>5
  <2> QED
    BY <1>2, <2>1, <2>2
<1> QED
  BY <1>1, <1>2

LEMMA RangeOfBoth ==
  ASSUME NEW X, NEW a \in Seq(X), NEW b \in Seq(X)
  PROVE  Range(a \o b) = Range(a) \cup Range(b)
<1>1. \A i \in DOMAIN (a \o b) : (a \o b)[i] \in Range(a) \cup Range(b)
  BY DEF Range
<1>2. \A i \in DOMAIN a : i \in DOMAIN (a \o b) /\ (a \o b)[i] = a[i]
  OBVIOUS
<1>3. \A i \in DOMAIN b : i + Len(a) \in DOMAIN (a \o b) /\ (a \o b)[i + Len(a)] = b[i]
  OBVIOUS
<1>4. Range(a) \subseteq Range(a \o b)
  BY <1>2, Zenon DEF Range
<1>5. Range(b) \subseteq Range(a \o b)
  BY <1>3, Zenon DEF Range
<1>6. Range(a \o b) \subseteq Range(a) \cup Range(b)
  BY <1>1, Zenon DEF Range
<1> QED
  BY <1>4, <1>5, <1>6

LEMMA RangeOfFlatten ==
  ASSUME NEW X, NEW s \in Seq(Seq(X))
  PROVE  Range(FlattenSeq(s)) = UNION {Range(s[i]) : i \in 1..Len(s)}
<1>1. CASE Len(s) = 0
  <2>1. s = << >>
    BY <1>1
  <2> QED
    BY <2>1 DEF FlattenSeq, Range
<1>2. CASE Len(s) # 0
  <2>1. PICK g : Unrolls(g, s, Len(s)) /\ FlattenSeq(s) = g[Len(s)]
    BY <1>2, FlattenUnrolls
  <2> DEFINE Upto(i) == UNION {Range(s[k]) : k \in 1..i}
             Bad == {i \in 1..Len(s) : ~(g[i] \in Seq(X) /\ Range(g[i]) = Upto(i))}
  <2>2. Bad = {}
    <3> SUFFICES ASSUME Bad # {} PROVE FALSE
      OBVIOUS
    <3>1. PICK i \in Bad : \A k \in Bad : ~(k < i)
      <4>1. Bad \in SUBSET Nat
        OBVIOUS
      <4> HIDE DEF Bad
      <4> QED
        BY <4>1, Least
    <3>2. g[i] = IF i = 1 THEN s[i] ELSE g[i-1] \o s[i]
      BY <2>1, Zenon DEF Unrolls
    <3>3. i \in 1..Len(s) /\ s[i] \in Seq(X)
      OBVIOUS
    <3>4. CASE i = 1
      <4>1. Upto(1) = Range(s[1])
        OBVIOUS
      <4> HIDE DEF Upto
      <4> QED
        BY <3>2, <3>3, <3>4, <4>1
    <3>5. CASE i # 1
      <4>1. i - 1 \in 1..Len(s) /\ i - 1 < i
        BY <3>3, <3>5
      <4>2. g[i-1] \in Seq(X) /\ Range(g[i-1]) = Upto(i - 1)
        <5> HIDE DEF Upto
        <5> QED
          BY <3>1, <4>1
      <4>3. 1..i = (1..(i-1)) \cup {i}
        BY <3>3
      <4>4. Upto(i) = Upto(i - 1) \cup Range(s[i])
        BY <4>3
      <4> HIDE DEF Upto
      <4>7. g[i] = g[i-1] \o s[i]
        BY <3>2, <3>5
      <4>5. Range(g[i]) = Upto(i)
        BY <3>3, <4>2, <4>4, <4>7, RangeOfBoth
      <4>6. g[i-1] \o s[i] \in Seq(X)
        BY <3>3, <4>2
      <4> QED
        BY <4>5, <4>6, <4>7
    <3> QED
      BY <3>4, <3>5
  <2>3. Len(s) \in 1..Len(s)
    BY <1>2
  <2>4. Range(g[Len(s)]) = Upto(Len(s))
    <3> HIDE DEF Upto
    <3> QED
      BY <2>2, <2>3
  <2> QED
    BY <2>1, <2>4
<1> QED
  BY <1>1, <1>2

-----------------------------------------------------------------------------
RunsOf(files) == [i \in DOMAIN files |-> [n \in 1..StepsOf[files[i]] |-> <<files[i], n>>]]

(* The steps a run has left, whichever runs are on file beside it. *)
StepsOfRuns(leads) == UNION {{<<l, n>> : n \in 1..StepsOf[l]} : l \in leads}

LEMMA RunsFlatten ==
  ASSUME NEW files \in Seq(Leads)
  PROVE  /\ FlattenSeq(RunsOf(files)) \in Seq(Steps)
         /\ Range(FlattenSeq(RunsOf(files))) = StepsOfRuns(Range(files))
<1> DEFINE runs == RunsOf(files)
<1>1. \A i \in 1..Len(files) : files[i] \in Leads /\ StepsOf[files[i]] \in Nat
  BY DeskAssumption
<1>2. \A i \in 1..Len(files) : [n \in 1..StepsOf[files[i]] |-> <<files[i], n>>] \in Seq(Steps)
  BY <1>1 DEF Steps
<1>3. runs \in Seq(Seq(Steps)) /\ Len(runs) = Len(files)
  BY <1>2 DEF RunsOf
<1> HIDE DEF runs
<1>4. \A i \in 1..Len(runs) : Range(runs[i]) = {<<files[i], n>> : n \in 1..StepsOf[files[i]]}
  <2> SUFFICES ASSUME NEW i \in 1..Len(runs)
               PROVE  Range(runs[i]) = {<<files[i], n>> : n \in 1..StepsOf[files[i]]}
    OBVIOUS
  <2>1. i \in DOMAIN files
    BY <1>3
  <2>2. runs[i] = [n \in 1..StepsOf[files[i]] |-> <<files[i], n>>]
    BY <2>1, Zenon DEF runs, RunsOf
  <2> QED
    BY <2>2, Zenon DEF Range
<1>5. UNION {Range(runs[i]) : i \in 1..Len(runs)} = StepsOfRuns(Range(files))
  <2>1. Range(files) = {files[i] : i \in 1..Len(runs)}
    BY <1>3 DEF Range
  <2> QED
    BY <1>4, <2>1 DEF StepsOfRuns
<1> QED
  BY <1>3, <1>5, FlattenIsSeq, RangeOfFlatten DEF runs

LEMMA StepsAreSteps ==
  ASSUME filed \in Seq(Leads)
  PROVE  StepsOnFile \in Seq(Steps) /\ Range(StepsOnFile) = StepsOfRuns(Range(filed))
<1>1. StepsOnFile = FlattenSeq(RunsOf(filed))
  BY Zenon DEF StepsOnFile, RunsOf
<1> QED
  BY <1>1, RunsFlatten

LEMMA EarlierIsSeq == Earlier \in Seq(Leads)
<1> DEFINE S == Leads \ Investigated
           n == Cardinality(S)
<1>1. IsFiniteSet(S)
  BY DeskAssumption, FS_Subset
<1>2. n \in Nat /\ ExistsBijection(1..n, S)
  BY <1>1, FS_CardinalityType
<1>3. \E f \in [1..n -> S] : IsInjective(f)
  BY <1>2 DEF ExistsBijection, Bijection, Injection, IsInjective
<1>4. Earlier \in [1..n -> S]
  BY <1>3, Zenon DEF Earlier, SetToSeq
<1> HIDE DEF S, n
<1>5. Earlier \in Seq(S)
  BY <1>2, <1>4
<1>6. S \subseteq Leads
  BY DEF S
<1> QED
  BY <1>5, <1>6

-----------------------------------------------------------------------------
(* What a request has in hand, by where it is. *)
Fits(t) ==
  /\ pc[t] \in {"investigate", "file", "details", "present"} => op[t] = "start" /\ arg[t] \in Leads
  /\ pc[t] \in {"read_evidence", "read_steps", "answer"} => op[t] = "question"
  /\ pc[t] \in {"clear", "forget", "purge", "shell", "reseed", "strip_questions", "strip", "surface",
                "desk", "memory"} => op[t] \in Swaps
  /\ pc[t] \in {"emit", "sink"} =>
       /\ todo[t] # << >> /\ op[t] \in Swaps \cup {"start"}
       /\ \A i \in DOMAIN todo[t] :
            todo[t][i].event.type = "investigation_start" => op[t] = "start" /\ arg[t] \in Leads
  /\ pc[t] # "done" => answer[t] = None

InHand == \A t \in Threads : Fits(t)

(* Without a case there is nothing of it. *)
NothingWithoutCase == ~caseRow => filed = << >> /\ questions = {}

TypeInv == TypeOK /\ InHand /\ NothingWithoutCase

LEMMA EventType ==
  ASSUME NEW what \in Leads \cup Steps \cup {None}, NEW by \in Nat
  PROVE  /\ Event("investigation_start", what, by) \in Events
         /\ Event("investigation_complete", what, by) \in Events
         /\ Event("investigation_step", what, by) \in Events
         /\ \A o \in Swaps : Event(o, what, by) \in Events
  BY DEF Event, Events, EventTypes, Swaps

LEMMA TypeInit == Init => TypeInv
<1> SUFFICES ASSUME Init PROVE TypeInv
  OBVIOUS
<1>1. filed \in Seq(Leads)
  BY EarlierIsSeq DEF Init
<1>2. StepsOnFile \in Seq(Steps)
  BY <1>1, StepsAreSteps
<1>3. persisted \in [Keys -> Seq(Events)]
  <2>1. \A x \in Leads : <<Event("investigation_start", x, 0)>> \in Seq(Events)
    <3>1. \A x \in Leads : Event("investigation_start", x, 0) \in Events
      BY EventType
    <3> QED
      BY <3>1
  <2>2. \A k \in Range(Earlier) : k \in Leads
    BY EarlierIsSeq DEF Range
  <2>3. Earlier # << >> => Last(Earlier) \in Leads
    BY EarlierIsSeq DEF Last
  <2>4. Earlier # << >> => <<Event("investigation_complete", Last(Earlier), 0)>> \in Seq(Events)
    <3>1. Earlier # << >> => Event("investigation_complete", Last(Earlier), 0) \in Events
      BY <2>3, EventType
    <3> QED
      BY <3>1
  <2>5. [i \in DOMAIN StepsOnFile |-> Event("investigation_step", StepsOnFile[i], 0)] \in Seq(Events)
    <3>1. \A i \in DOMAIN StepsOnFile : Event("investigation_step", StepsOnFile[i], 0) \in Events
      <4>1. \A i \in DOMAIN StepsOnFile : StepsOnFile[i] \in Steps
        BY <1>2
      <4> QED
        BY <4>1, EventType
    <3> QED
      BY <1>2, <3>1
  <2> DEFINE Log(k) ==
       CASE k \in Range(Earlier) -> <<Event("investigation_start", k, 0)>>
         [] k = CaseKey /\ Earlier # <<>> ->
              <<Event("investigation_complete", Last(Earlier), 0)>>
                \o [i \in DOMAIN StepsOnFile |-> Event("investigation_step", StepsOnFile[i], 0)]
         [] OTHER -> <<>>
  <2>6. \A k \in Keys : Log(k) \in Seq(Events)
    <3> SUFFICES ASSUME NEW k \in Keys PROVE Log(k) \in Seq(Events)
      OBVIOUS
    <3>1. CASE k \in Range(Earlier)
      <4>1. ~(k = CaseKey)
        BY <2>2, <3>1, DeskAssumption
      <4> QED
        BY <2>1, <2>2, <3>1, <4>1, Zenon
    <3>2. CASE k \notin Range(Earlier) /\ k = CaseKey /\ Earlier # <<>>
      <4>1. Log(k) = <<Event("investigation_complete", Last(Earlier), 0)>>
                \o [i \in DOMAIN StepsOnFile |-> Event("investigation_step", StepsOnFile[i], 0)]
        BY <3>2, Zenon
      <4> HIDE DEF Log
      <4> QED
        BY <2>4, <2>5, <3>2, <4>1
    <3>3. CASE k \notin Range(Earlier) /\ ~(k = CaseKey /\ Earlier # <<>>)
      <4>1. Log(k) = << >>
        BY <3>3, Zenon
      <4> HIDE DEF Log
      <4> QED
        BY <4>1
    <3> QED
      BY <3>1, <3>2, <3>3
  <2>7. persisted = [k \in Keys |-> Log(k)]
    BY DEF Init
  <2> HIDE DEF Log
  <2> QED
    BY <2>6, <2>7
<1>4. TypeOK
  <2>1. caseRow \in BOOLEAN /\ known \subseteq Leads /\ questions \subseteq Questions
    BY DEF Init
  <2>2. memory \in [Keys -> Seq(Events)] /\ active \in Leads \cup {None}
    BY DEF Init
  <2>3. /\ pc \in [Threads -> Places] /\ op \in [Threads -> Swaps \cup {"start", "question", None}]
        /\ arg \in [Threads -> Leads \cup {None}] /\ serial \in [Threads -> Nat]
        /\ answer \in [Threads -> {"OK", "NOT_FOUND", "ERROR", None}]
        /\ disturbed \in [Threads -> BOOLEAN] /\ mixed \in BOOLEAN
    BY DEF Init, Places
  <2>4. /\ seen \in [Threads -> SUBSET Questions]
        /\ evidence \in [Threads -> SUBSET Leads] /\ steps \in [Threads -> Seq(Steps)]
        /\ todo \in [Threads -> Seq([key : Keys, event : Events])]
    BY DEF Init
  <2>5. requests \in 0..MaxRequests /\ faults \in Nat /\ crashes \in Nat /\ faults + crashes <= MaxFaults
    BY DeskAssumption DEF Init
  <2> QED
    BY <1>1, <1>3, <2>1, <2>2, <2>3, <2>4, <2>5 DEF TypeOK
<1> QED
  BY <1>4 DEF Init, TypeInv, InHand, Fits, NothingWithoutCase

-----------------------------------------------------------------------------
LEMMA NextEvent ==
  ASSUME TypeInv, NEW t \in Threads, pc[t] \in {"emit", "sink"}
  PROVE  /\ Head(todo[t]).key \in Keys /\ Head(todo[t]).event \in Events
         /\ Tail(todo[t]) \in Seq([key : Keys, event : Events])
         /\ Head(todo[t]) = todo[t][1] /\ 1 \in DOMAIN todo[t]
         /\ Len(todo[t]) > 1 => Tail(todo[t]) # << >>
         /\ \A i \in DOMAIN Tail(todo[t]) : i + 1 \in DOMAIN todo[t] /\ Tail(todo[t])[i] = todo[t][i + 1]
<1> DEFINE s == todo[t]
           T == [key : Keys, event : Events]
<1>1. s \in Seq(T) /\ s # << >>
  BY DEF TypeInv, TypeOK, InHand, Fits
<1> HIDE DEF s, T
<1>2. Head(s) \in T /\ Tail(s) \in Seq(T) /\ Head(s) = s[1] /\ 1 \in DOMAIN s
  BY <1>1
<1>3. Len(s) > 1 => Tail(s) # << >>
  <2>1. Len(Tail(s)) = Len(s) - 1 /\ Len(s) \in Nat
    BY <1>1
  <2>2. Len(<< >>) = 0
    OBVIOUS
  <2> QED
    BY <2>1, <2>2
<1>4. \A i \in DOMAIN Tail(s) : i + 1 \in DOMAIN s /\ Tail(s)[i] = s[i + 1]
  BY <1>1
<1> QED
  BY <1>2, <1>3, <1>4 DEF s, T

LEMMA RecordType ==
  ASSUME TypeInv, NEW t \in Threads, Record(t)
  PROVE  TypeInv'
<1> DEFINE e == Head(todo[t])
<1>1. e.key \in Keys /\ e.event \in Events
  BY NextEvent DEF Record
<1>2. memory' = [memory EXCEPT ![e.key] = Append(@, e.event)]
  BY DEF Record
<1> HIDE DEF e
<1>3. memory' \in [Keys -> Seq(Events)]
  BY <1>1, <1>2 DEF TypeInv, TypeOK
<1>4. pc' = [pc EXCEPT ![t] = "sink"] /\ pc[t] = "emit"
  BY DEF Record, Goto
<1>5. UNCHANGED <<db, persisted, lost, faults, active, locals, answer, told>> /\ Quiet
  BY DEF Record
<1>6. TypeOK'
  BY <1>3, <1>4, <1>5 DEF TypeInv, TypeOK, Quiet, db, locals, Places
<1>7. InHand'
  BY <1>4, <1>5 DEF TypeInv, TypeOK, InHand, Fits, Quiet, locals
<1>8. NothingWithoutCase'
  BY <1>5 DEF TypeInv, NothingWithoutCase, db
<1> QED
  BY <1>6, <1>7, <1>8 DEF TypeInv

(* The end of an emit, whatever became of the write. *)
LEMMA ProceedFits ==
  ASSUME TypeInv, NEW t \in Threads, pc[t] = "sink", Proceed(t), Quiet
  PROVE  /\ InHand'
         /\ pc' \in [Threads -> Places]
         /\ todo' \in [Threads -> Seq([key : Keys, event : Events])]
         /\ answer' \in [Threads -> {"OK", "NOT_FOUND", "ERROR", None}]
<1>1. /\ Tail(todo[t]) \in Seq([key : Keys, event : Events])
      /\ Len(todo[t]) > 1 => Tail(todo[t]) # << >>
      /\ \A i \in DOMAIN Tail(todo[t]) : i + 1 \in DOMAIN todo[t] /\ Tail(todo[t])[i] = todo[t][i + 1]
      /\ Head(todo[t]) = todo[t][1] /\ 1 \in DOMAIN todo[t]
  BY NextEvent
<1>2. todo' = [todo EXCEPT ![t] = Tail(todo[t])]
  BY DEF Proceed
<1>3. \A i \in DOMAIN todo[t] :
        todo[t][i].event.type = "investigation_start" => op[t] = "start" /\ arg[t] \in Leads
  BY DEF TypeInv, InHand, Fits
<1> DEFINE s == todo[t]
           r == Tail(todo[t])
<1>4. todo'[t] = r
  BY <1>2 DEF TypeInv, TypeOK
<1>5. \A i \in DOMAIN r : r[i].event.type = "investigation_start" => op[t] = "start" /\ arg[t] \in Leads
  BY <1>1, <1>3
<1>6. Head(s).event.type = "investigation_start" => op[t] = "start" /\ arg[t] \in Leads
  BY <1>1, <1>3
<1>7. Len(s) > 1 => r # << >>
  BY <1>1
<1>8. todo' \in [Threads -> Seq([key : Keys, event : Events])]
  BY <1>1, <1>2 DEF TypeInv, TypeOK
<1>9. \/ Len(s) > 1 /\ pc' = [pc EXCEPT ![t] = "emit"] /\ answer' = answer
      \/ /\ Head(s).event.type = "investigation_start"
         /\ pc' = [pc EXCEPT ![t] = "investigate"] /\ answer' = answer
      \/ pc' = [pc EXCEPT ![t] = "done"] /\ answer' = [answer EXCEPT ![t] = "OK"]
  BY DEF Proceed, Goto, Return
<1> HIDE DEF s, r
<1>10. Fits(t)'
  BY <1>4, <1>5, <1>6, <1>7, <1>9 DEF TypeInv, TypeOK, InHand, Fits, Quiet
<1>11. \A u \in Threads \ {t} : Fits(u)'
  <2>1. \A u \in Threads \ {t} : pc'[u] = pc[u] /\ todo'[u] = todo[u] /\ answer'[u] = answer[u]
    BY <1>2, <1>9 DEF TypeInv, TypeOK
  <2> QED
    BY <2>1 DEF TypeInv, InHand, Fits, Quiet
<1> QED
  BY <1>8, <1>9, <1>10, <1>11 DEF TypeInv, TypeOK, InHand, Places

LEMMA WriteType ==
  ASSUME TypeInv, NEW t \in Threads, Persist(t) \/ Lose(t)
  PROVE  TypeInv'
<1>1. pc[t] = "sink" /\ Proceed(t) /\ Quiet
  BY DEF Persist, Lose
<1>2. UNCHANGED <<db, memory, active, seen, evidence, steps>>
  BY DEF Persist, Lose
<1>3. persisted' \in [Keys -> Seq(Events)]
  <2>1. CASE Persist(t)
    <3> DEFINE e == Head(todo[t])
    <3>1. e.key \in Keys /\ e.event \in Events
      BY <1>1, NextEvent
    <3>2. persisted' = [persisted EXCEPT ![e.key] = Append(@, e.event)]
      BY <2>1 DEF Persist
    <3> HIDE DEF e
    <3> QED
      BY <3>1, <3>2 DEF TypeInv, TypeOK
  <2>2. CASE Lose(t)
    BY <2>2 DEF Lose, TypeInv, TypeOK
  <2> QED
    BY <2>1, <2>2
<1>4. faults' \in Nat /\ faults' + crashes' <= MaxFaults
  BY <1>1, DeskAssumption, SMTT(30) DEF TypeInv, TypeOK, Persist, Lose, Quiet
<1>5. TypeOK'
  <2>1. /\ pc' \in [Threads -> Places] /\ todo' \in [Threads -> Seq([key : Keys, event : Events])]
        /\ answer' \in [Threads -> {"OK", "NOT_FOUND", "ERROR", None}]
    BY <1>1, ProceedFits
  <2> QED
    BY <1>1, <1>2, <1>3, <1>4, <2>1 DEF TypeInv, TypeOK, Quiet, db
<1>6. InHand'
  BY <1>1, ProceedFits
<1>7. NothingWithoutCase'
  BY <1>2 DEF TypeInv, NothingWithoutCase, db
<1> QED
  BY <1>5, <1>6, <1>7 DEF TypeInv

(* A request that gives up. *)
LEMMA FailType ==
  ASSUME TypeInv, NEW t \in Threads, NEW response \in {"OK", "NOT_FOUND", "ERROR"}, Fail(t, response)
  PROVE  TypeInv'
<1>1. TypeOK'
  BY DEF TypeInv, TypeOK, Fail, Return, Goto, Quiet, db, logs, locals, Places
<1>2. InHand'
  BY DEF TypeInv, TypeOK, InHand, Fits, Fail, Return, Goto, Quiet, locals
<1>3. NothingWithoutCase'
  BY DEF TypeInv, NothingWithoutCase, Fail, db
<1> QED
  BY <1>1, <1>2, <1>3 DEF TypeInv

LEMMA AskType ==
  ASSUME TypeInv, NEW t \in Threads, Arrive(t)
  PROVE  TypeInv'
<1>1. PICK operation \in Swaps \cup {"start", "question"}, about \in Leads \cup {None} :
        /\ Ask(t, operation, about)
        /\ \/ operation = "start" /\ about \in Leads
                /\ Emitting(t, <<[key |-> about, event |-> Event("investigation_start", about, requests')]>>)
           \/ operation = "question" /\ Goto(t, "read_evidence") /\ UNCHANGED todo
           \/ operation \in Swaps /\ Goto(t, "clear") /\ UNCHANGED todo
  BY DeskAssumption DEF Arrive, AskStart, AskQuestion, AskSwap
<1>2. requests' \in 0..MaxRequests /\ requests' \in Nat
  BY <1>1, DeskAssumption DEF TypeInv, TypeOK, Ask
<1>3. UNCHANGED <<db, logs, active, seen, evidence, steps, answer, crashes, told>>
  BY <1>1 DEF Ask
<1>4. /\ op' = [op EXCEPT ![t] = operation] /\ arg' = [arg EXCEPT ![t] = about]
      /\ serial' = [serial EXCEPT ![t] = requests']
      /\ disturbed' \in [Threads -> BOOLEAN] /\ mixed' \in BOOLEAN
  BY <1>1 DEF Ask, TypeInv, TypeOK
<1>5. CASE operation = "start"
  <2> DEFINE e == [key |-> about, event |-> Event("investigation_start", about, requests')]
  <2>1. about \in Leads /\ todo' = [todo EXCEPT ![t] = <<e>>] /\ pc' = [pc EXCEPT ![t] = "emit"]
    BY <1>1, <1>5 DEF Emitting, Goto, Swaps
  <2>2. e \in [key : Keys, event : Events]
    BY <1>2, <2>1, EventType DEF Keys
  <2> HIDE DEF e
  <2>5. todo' \in [Threads -> Seq([key : Keys, event : Events])]
    <3> DEFINE T == [key : Keys, event : Events]
    <3>1. <<e>> \in Seq(T)
      BY <2>2
    <3>2. todo \in [Threads -> Seq(T)]
      BY DEF TypeInv, TypeOK
    <3> HIDE DEF T
    <3>3. todo' \in [Threads -> Seq(T)]
      BY <2>1, <3>1, <3>2
    <3> QED
      BY <3>3 DEF T
  <2>3. TypeOK'
    BY <1>2, <1>3, <1>4, <2>1, <2>5 DEF TypeInv, TypeOK, db, logs, Places
  <2>4. InHand'
    BY <1>1, <1>3, <1>4, <1>5, <2>1 DEF TypeInv, TypeOK, InHand, Fits, Ask
  <2> QED
    BY <1>3, <2>3, <2>4 DEF TypeInv, NothingWithoutCase, db
<1>6. CASE operation # "start"
  <2>1. /\ todo' = todo
        /\ \/ operation = "question" /\ pc' = [pc EXCEPT ![t] = "read_evidence"]
           \/ operation \in Swaps /\ pc' = [pc EXCEPT ![t] = "clear"]
    BY <1>1, <1>6 DEF Goto
  <2>2. TypeOK'
    BY <1>2, <1>3, <1>4, <2>1 DEF TypeInv, TypeOK, db, logs, Places
  <2>3. InHand'
    BY <1>1, <1>3, <1>4, <2>1, SMTT(30) DEF TypeInv, TypeOK, InHand, Fits, Ask
  <2> QED
    BY <1>3, <2>2, <2>3 DEF TypeInv, NothingWithoutCase, db
<1> QED
  BY <1>5, <1>6

LEMMA RespondType ==
  ASSUME TypeInv, NEW t \in Threads, Respond(t)
  PROVE  TypeInv'
<1>1. TypeOK'
  <2>1. /\ pc' \in [Threads -> Places] /\ op' \in [Threads -> Swaps \cup {"start", "question", None}]
        /\ arg' \in [Threads -> Leads \cup {None}] /\ serial' \in [Threads -> Nat]
        /\ answer' \in [Threads -> {"OK", "NOT_FOUND", "ERROR", None}] /\ disturbed' \in [Threads -> BOOLEAN]
    BY DEF TypeInv, TypeOK, Respond, Goto, Places
  <2>2. /\ seen' \in [Threads -> SUBSET Questions] /\ evidence' \in [Threads -> SUBSET Leads]
        /\ steps' \in [Threads -> Seq(Steps)]
    BY DEF TypeInv, TypeOK, Respond
  <2> QED
    BY <2>1, <2>2 DEF TypeInv, TypeOK, Respond, db, logs
<1>2. InHand'
  BY DEF TypeInv, TypeOK, InHand, Fits, Respond, Goto
<1>3. NothingWithoutCase'
  BY DEF TypeInv, NothingWithoutCase, Respond, db
<1> QED
  BY <1>1, <1>2, <1>3 DEF TypeInv

LEMMA CrashType ==
  ASSUME TypeInv, Crash
  PROVE  TypeInv'
<1>1. TypeOK'
  BY DeskAssumption DEF TypeInv, TypeOK, Crash, db, Places
<1>2. InHand'
  BY DEF InHand, Fits, Crash
<1>3. NothingWithoutCase'
  BY DEF TypeInv, NothingWithoutCase, Crash, db
<1> QED
  BY <1>1, <1>2, <1>3 DEF TypeInv

LEMMA CaseIsRead ==
  ASSUME TypeInv, NEW t \in Threads, ReadCase(t)
  PROVE  steps' \in [Threads -> Seq(Steps)]
<1>1. StepsOnFile \in Seq(Steps)
  BY StepsAreSteps DEF TypeInv, TypeOK
<1> QED
  BY <1>1 DEF TypeInv, TypeOK, ReadCase

(* The steps of a start or a question that only read. *)
LEMMA ReadType ==
  ASSUME TypeInv, NEW t \in Threads,
         Replay(t) \/ Investigate(t) \/ ReadBack(t) \/ ReadEvidence(t) \/ ReadSteps(t)
  PROVE  TypeInv'
<1>1. UNCHANGED <<db, logs, active, seen, todo, answer, told>> /\ Quiet
  BY DEF Replay, Investigate, ReadBack, ReadEvidence, ReadSteps, locals
<1>2. steps' \in [Threads -> Seq(Steps)]
  BY CaseIsRead DEF Replay, Investigate, ReadBack, ReadEvidence, ReadSteps, locals, TypeInv, TypeOK
<1>3. evidence' \in [Threads -> SUBSET Leads]
  <2>1. EvidenceOnFile \subseteq Leads
    BY DeskAssumption DEF EvidenceOnFile
  <2> QED
    BY <2>1 DEF Replay, Investigate, ReadBack, ReadEvidence, ReadSteps, locals, TypeInv, TypeOK
<1>4. TypeOK'
  <2>1. pc' \in [Threads -> Places]
    BY ZenonT(40) DEF Replay, Investigate, ReadBack, ReadEvidence, ReadSteps, Goto, TypeInv, TypeOK, Places
  <2> QED
    BY <1>1, <1>2, <1>3, <2>1 DEF TypeInv, TypeOK, Quiet, db, logs
<1>5. InHand'
  <2>1. \A u \in Threads \ {t} : pc'[u] = pc[u]
    BY DEF TypeInv, TypeOK, Replay, Investigate, ReadBack, ReadEvidence, ReadSteps, Goto
  <2>2. \A u \in Threads \ {t} : Fits(u)'
    BY <1>1, <2>1 DEF TypeInv, InHand, Fits, Quiet
  <2>3. \/ pc[t] \in {"investigate", "details"} /\ pc'[t] \in {"present", "file"}
        \/ pc[t] \in {"read_evidence", "read_steps"} /\ pc'[t] \in {"read_steps", "answer"}
    BY DEF TypeInv, TypeOK, Replay, Investigate, ReadBack, ReadEvidence, ReadSteps, Goto
  <2>4. Fits(t)
    BY DEF TypeInv, InHand
  <2>5. Fits(t)'
    BY <1>1, <2>3, <2>4 DEF Fits, Quiet
  <2> QED
    BY <2>2, <2>5 DEF InHand
<1>6. NothingWithoutCase'
  BY <1>1 DEF TypeInv, NothingWithoutCase, db
<1> QED
  BY <1>4, <1>5, <1>6 DEF TypeInv

LEMMA FileType ==
  ASSUME TypeInv, NEW t \in Threads, File(t)
  PROVE  TypeInv'
<1>1. filed' \in Seq(Leads)
  BY DEF TypeInv, TypeOK, InHand, Fits, File
<1>2. TypeOK'
  BY <1>1 DEF TypeInv, TypeOK, File, Goto, Quiet, logs, locals, Places
<1>3. InHand'
  BY DEF TypeInv, TypeOK, InHand, Fits, File, Goto, Quiet, locals
<1>4. NothingWithoutCase'
  BY DEF NothingWithoutCase, File
<1> QED
  BY <1>2, <1>3, <1>4 DEF TypeInv

LEMMA EventsOfRunType ==
  ASSUME TypeInv, NEW t \in Threads, arg[t] \in Leads
  PROVE  /\ EventsOfRun(t) \in Seq([key : Keys, event : Events])
         /\ EventsOfRun(t) # << >>
         /\ \A i \in DOMAIN EventsOfRun(t) : EventsOfRun(t)[i].event.type # "investigation_start"
<1> DEFINE T == [key : Keys, event : Events]
           first == [key |-> CaseKey, event |-> Event("investigation_complete", arg[t], serial[t])]
           rest(i) == [key |-> CaseKey, event |-> Event("investigation_step", steps[t][i], serial[t])]
           s == steps[t]
           others == [i \in DOMAIN s |-> rest(i)]
<1>1. s \in Seq(Steps) /\ serial[t] \in Nat
  BY DEF TypeInv, TypeOK
<1>2. first \in T /\ first.event.type # "investigation_start"
  <2>1. Event("investigation_complete", arg[t], serial[t]) \in Events
    BY <1>1, EventType
  <2> QED
    BY <2>1 DEF Keys, Event
<1>3. \A i \in DOMAIN s : rest(i) \in T /\ rest(i).event.type # "investigation_start"
  <2>1. \A i \in DOMAIN s : s[i] \in Steps
    BY <1>1
  <2>2. \A i \in DOMAIN s : Event("investigation_step", steps[t][i], serial[t]) \in Events
    BY <1>1, <2>1, EventType
  <2> QED
    BY <2>2 DEF Keys, Event
<1>4. EventsOfRun(t) = <<first>> \o others
  BY Zenon DEF EventsOfRun
<1> HIDE DEF T, first, rest, s
<1>5. others \in Seq(T) /\ \A i \in DOMAIN others : others[i].event.type # "investigation_start"
  BY <1>1, <1>3
<1> HIDE DEF others
<1>6. /\ <<first>> \o others \in Seq(T)
      /\ Len(<<first>> \o others) # 0
      /\ \A i \in DOMAIN (<<first>> \o others) :
           (<<first>> \o others)[i] = first \/ \E j \in DOMAIN others : (<<first>> \o others)[i] = others[j]
  <2>1. <<first>> \in Seq(T) /\ Len(<<first>>) = 1
    BY <1>2
  <2>2. \A i \in 1..(1 + Len(others)) : i = 1 \/ i - 1 \in 1..Len(others)
    BY <1>5
  <2> QED
    BY <1>5, <2>1, <2>2
<1>7. EventsOfRun(t) # << >>
  BY <1>4, <1>6
<1> QED
  BY <1>2, <1>4, <1>5, <1>6, <1>7 DEF T

LEMMA PresentType ==
  ASSUME TypeInv, NEW t \in Threads, Present(t)
  PROVE  TypeInv'
<1>1. op[t] = "start" /\ arg[t] \in Leads
  BY DEF TypeInv, InHand, Fits, Present
<1> DEFINE s == EventsOfRun(t)
<1>2. /\ s \in Seq([key : Keys, event : Events]) /\ s # << >>
      /\ \A i \in DOMAIN s : s[i].event.type # "investigation_start"
  BY <1>1, EventsOfRunType
<1>3. todo' = [todo EXCEPT ![t] = s] /\ pc' = [pc EXCEPT ![t] = "emit"]
  BY DEF Present, Emitting, Goto
<1> HIDE DEF s
<1>4. memory' \in [Keys -> Seq(Events)] /\ UNCHANGED <<persisted, faults>>
  BY DEF Present, ForgetEvents, TypeInv, TypeOK
<1>5. todo' \in [Threads -> Seq([key : Keys, event : Events])]
  BY <1>2, <1>3 DEF TypeInv, TypeOK
<1>6. TypeOK'
  BY <1>1, <1>3, <1>4, <1>5 DEF TypeInv, TypeOK, Present, Quiet, db, Places
<1>7. InHand'
  BY <1>1, <1>2, <1>3 DEF TypeInv, TypeOK, InHand, Fits, Present, Quiet
<1>8. NothingWithoutCase'
  BY DEF TypeInv, NothingWithoutCase, Present, db
<1> QED
  BY <1>6, <1>7, <1>8 DEF TypeInv

LEMMA PersistQuestionType ==
  ASSUME TypeInv, NEW t \in Threads, PersistQuestion(t)
  PROVE  TypeInv'
<1> DEFINE q == [serial |-> serial[t], evidence |-> evidence[t], steps |-> Range(steps[t])]
<1>1. q \in Questions
  <2>1. Range(steps[t]) \subseteq Steps
    BY DEF TypeInv, TypeOK, Range
  <2> QED
    BY <2>1 DEF Questions, TypeInv, TypeOK
<1>2. questions' = questions \cup {q}
  BY DEF PersistQuestion
<1> HIDE DEF q
<1>3. TypeOK'
  BY <1>1, <1>2 DEF TypeInv, TypeOK, PersistQuestion, Return, Goto, Quiet, logs, locals, Places
<1>4. InHand'
  BY DEF TypeInv, TypeOK, InHand, Fits, PersistQuestion, Return, Goto, Quiet, locals
<1>5. NothingWithoutCase'
  BY DEF NothingWithoutCase, PersistQuestion, Answerable
<1> QED
  BY <1>3, <1>4, <1>5 DEF TypeInv

(* Where a clear is after the questions. *)
LEMMA DeletedTo ==
  ASSUME NEW t \in Threads, DeleteQuestions(t)
  PROVE  \E place \in {"forget", "strip", "surface", "reseed", "shell"} :
           /\ pc' = [pc EXCEPT ![t] = place]
           /\ caseRow => place \in {"forget", "strip"} /\ seen' = [seen EXCEPT ![t] = questions]
           /\ place \in {"forget", "strip"} => caseRow
           /\ place = "surface" => pc[t] = "strip_questions"
<1>1. CASE caseRow
  BY <1>1 DEF DeleteQuestions, Goto
<1>2. CASE ~caseRow /\ pc[t] = "strip_questions"
  BY <1>2 DEF DeleteQuestions, Goto
<1>3. CASE ~caseRow /\ pc[t] # "strip_questions" /\ op[t] = "load"
  BY <1>3 DEF DeleteQuestions, Goto
<1>4. CASE ~caseRow /\ pc[t] # "strip_questions" /\ op[t] # "load"
  BY <1>4 DEF DeleteQuestions, Goto
<1> QED
  BY <1>1, <1>2, <1>3, <1>4

LEMMA DeleteQuestionsType ==
  ASSUME TypeInv, NEW t \in Threads, DeleteQuestions(t)
  PROVE  TypeInv'
<1>1. seen' \in [Threads -> SUBSET Questions]
  BY DEF TypeInv, TypeOK, DeleteQuestions
<1>2. PICK place \in {"forget", "strip", "surface", "reseed", "shell"} : pc' = [pc EXCEPT ![t] = place]
  BY DeletedTo
<1>3. TypeOK'
  BY <1>1, <1>2 DEF TypeInv, TypeOK, DeleteQuestions, Quiet, db, logs, Places
<1>4. InHand'
  BY <1>2 DEF TypeInv, TypeOK, InHand, Fits, DeleteQuestions, Quiet
<1>5. NothingWithoutCase'
  BY DEF TypeInv, NothingWithoutCase, DeleteQuestions, db
<1> QED
  BY <1>3, <1>4, <1>5 DEF TypeInv

LEMMA ForgetType ==
  ASSUME TypeInv, NEW t \in Threads, Forget(t)
  PROVE  TypeInv'
<1>1. persisted' \in [Keys -> Seq(Events)] /\ filed' \in Seq(Leads)
  <2>1. << >> \in Seq(Events) /\ << >> \in Seq(Leads)
    OBVIOUS
  <2>2. persisted' = [persisted EXCEPT ![DemoKey] = << >>] /\ filed' = << >>
    BY DEF Forget
  <2> QED
    BY <2>1, <2>2 DEF TypeInv, TypeOK
<1>2. pc' \in [Threads -> Places]
  BY DEF TypeInv, TypeOK, Forget, Goto, Places
<1>3. TypeOK'
  BY <1>1, <1>2 DEF TypeInv, TypeOK, Forget, Quiet, locals
<1>4. InHand'
  BY DEF TypeInv, TypeOK, InHand, Fits, Forget, Goto, Quiet, locals
<1>5. NothingWithoutCase'
  BY DEF TypeInv, NothingWithoutCase, Forget
<1> QED
  BY <1>3, <1>4, <1>5 DEF TypeInv

LEMMA PurgeType ==
  ASSUME TypeInv, NEW t \in Threads, Purge(t)
  PROVE  TypeInv'
<1>1. TypeOK'
  BY DEF TypeInv, TypeOK, Purge, Goto, Quiet, logs, locals, Places
<1>2. InHand'
  BY SMTT(60) DEF TypeInv, TypeOK, InHand, Fits, Purge, Goto, Quiet, locals
<1>3. NothingWithoutCase'
  BY DEF TypeInv, NothingWithoutCase, Purge
<1> QED
  BY <1>1, <1>2, <1>3 DEF TypeInv

LEMMA SeedType ==
  ASSUME TypeInv, NEW t \in Threads, EnsureCase(t) \/ Reseed(t) \/ Surface(t)
  PROVE  TypeInv'
<1>1. filed' \in Seq(Leads) /\ known' \subseteq Leads /\ caseRow' = TRUE
  <2>1. <<SeedLead>> \in Seq(Leads) /\ {SeedLead} \subseteq Leads
    BY DeskAssumption
  <2>2. filed' = filed \/ filed' = <<SeedLead>>
    BY DEF EnsureCase, Reseed, Surface
  <2>3. known' = known \/ known' = {SeedLead} \/ known' = Leads
    BY DEF EnsureCase, Reseed, Surface
  <2> QED
    BY <2>1, <2>2, <2>3 DEF TypeInv, TypeOK, EnsureCase, Reseed, Surface
<1>2. UNCHANGED <<questions, logs, active, locals, answer, told>> /\ Quiet
  BY DEF EnsureCase, Reseed, Surface
<1>3. pc' \in [Threads -> Places]
  <2>1. pc \in [Threads -> Places]
    BY DEF TypeInv, TypeOK
  <2>2. {"desk", "strip_questions"} \subseteq Places
    BY DEF Places
  <2>3. \E place \in {"desk", "strip_questions"} : pc' = [pc EXCEPT ![t] = place]
    BY DEF EnsureCase, Reseed, Surface, Goto
  <2> QED
    BY <2>1, <2>2, <2>3
<1>4. TypeOK'
  BY <1>1, <1>2, <1>3 DEF TypeInv, TypeOK, Quiet, logs, locals
<1>5. InHand'
  BY <1>2 DEF TypeInv, TypeOK, InHand, Fits, EnsureCase, Reseed, Surface, Goto, Quiet, locals
<1>6. NothingWithoutCase'
  BY <1>1 DEF NothingWithoutCase
<1> QED
  BY <1>4, <1>5, <1>6 DEF TypeInv

LEMMA DeskType ==
  ASSUME TypeInv, NEW t \in Threads, ClearDesk(t) \/ ClearMemory(t)
  PROVE  TypeInv'
<1> DEFINE s == <<DemoEvent(t)>>
<1>1. op[t] \in Swaps /\ answer[t] = None
  BY DEF TypeInv, InHand, Fits, ClearDesk, ClearMemory
<1>2. /\ s \in Seq([key : Keys, event : Events]) /\ s # << >>
      /\ \A i \in DOMAIN s : s[i].event.type # "investigation_start"
  <2>1. Event(op[t], None, serial[t]) \in Events
    BY <1>1, EventType DEF TypeInv, TypeOK
  <2>2. DemoEvent(t) \in [key : Keys, event : Events]
    BY <2>1 DEF DemoEvent, Keys
  <2>3. DemoEvent(t).event.type # "investigation_start"
    BY <1>1 DEF DemoEvent, Event, Swaps
  <2> QED
    BY <2>2, <2>3
<1> HIDE DEF s
<1>3. memory' \in [Keys -> Seq(Events)] /\ UNCHANGED <<persisted, faults>>
  <2>1. CASE ClearDesk(t)
    BY <2>1 DEF TypeInv, TypeOK, ClearDesk, logs
  <2>2. CASE ClearMemory(t)
    BY <2>2 DEF TypeInv, TypeOK, ClearMemory, ForgetEvents
  <2> QED
    BY <2>1, <2>2
<1>4. /\ UNCHANGED <<db, seen, evidence, steps, told>> /\ Quiet
      /\ active' \in Leads \cup {None}
  BY DEF TypeInv, TypeOK, ClearDesk, ClearMemory
<1>5. \/ todo' = [todo EXCEPT ![t] = s] /\ pc' = [pc EXCEPT ![t] = "emit"] /\ UNCHANGED answer
      \/ UNCHANGED <<todo, answer>> /\ pc' = [pc EXCEPT ![t] = "memory"]
      \/ UNCHANGED todo /\ pc' = [pc EXCEPT ![t] = "done"] /\ answer' = [answer EXCEPT ![t] = "OK"]
  BY DEF s, ClearDesk, ClearMemory, Emitting, Return, Goto
<1>6. todo' \in [Threads -> Seq([key : Keys, event : Events])]
  BY <1>2, <1>5 DEF TypeInv, TypeOK
<1>7. TypeOK'
  BY <1>3, <1>4, <1>5, <1>6 DEF TypeInv, TypeOK, Quiet, db, Places
<1>8. InHand'
  <2>1. Fits(t)'
    BY <1>1, <1>2, <1>4, <1>5, SMTT(60) DEF TypeInv, TypeOK, InHand, Fits, Quiet
  <2>2. \A u \in Threads \ {t} : Fits(u)'
    <3>1. \A u \in Threads \ {t} : pc'[u] = pc[u] /\ todo'[u] = todo[u] /\ answer'[u] = answer[u]
      BY <1>5 DEF TypeInv, TypeOK
    <3> QED
      BY <1>4, <3>1 DEF TypeInv, InHand, Fits, Quiet
  <2> QED
    BY <2>1, <2>2 DEF InHand
<1>9. NothingWithoutCase'
  BY <1>4 DEF TypeInv, NothingWithoutCase, db
<1> QED
  BY <1>7, <1>8, <1>9 DEF TypeInv

LEMMA TypeStep == TypeInv /\ [Next]_vars => TypeInv'
<1> SUFFICES ASSUME TypeInv, [Next]_vars PROVE TypeInv'
  OBVIOUS
<1>1. CASE Crash
  BY <1>1, CrashType
<1>2. CASE UNCHANGED vars
  BY <1>2 DEF TypeInv, TypeOK, InHand, Fits, NothingWithoutCase, vars, db, logs, locals
<1>3. CASE \E t \in Threads : Work(t) \/ Arrive(t)
  <2> PICK t \in Threads : Work(t) \/ Arrive(t)
    BY <1>3
  <2>1. CASE Arrive(t) \/ Record(t) \/ Persist(t) \/ Lose(t) \/ Respond(t)
    BY <2>1, AskType, RecordType, WriteType, RespondType
  <2>2. CASE Start(t)
    BY <2>2, ReadType, FileType, PresentType, FailType DEF Start, LeadNotFound, FileFails, NothingToReadBack
  <2>3. CASE Question(t)
    BY <2>3, ReadType, PersistQuestionType, FailType DEF Question, CaseNotFound, PersistQuestionFails
  <2>4. CASE Swap(t)
    BY <2>4, DeleteQuestionsType, ForgetType, PurgeType, SeedType, DeskType, FailType
       DEF Swap, ForgetFails, PurgeFails, ReseedFails, SurfaceFails
  <2> QED
    BY <2>1, <2>2, <2>3, <2>4 DEF Work
<1> QED
  BY <1>1, <1>2, <1>3 DEF Next

LEMMA TypeHolds == Spec => []TypeInv
  BY TypeInit, TypeStep, PTL DEF Spec

(* Every variable keeps its type. *)
THEOREM TypeCorrect == Spec => []TypeOK
<1>1. TypeInv => TypeOK
  BY DEF TypeInv
<1> QED
  BY <1>1, TypeHolds, PTL

-----------------------------------------------------------------------------
(* The steps that write a timeline. *)
LEMMA TimelinesMove ==
  ASSUME NEW t \in Threads, Work(t) \/ Arrive(t)
  PROVE  \/ Record(t) \/ Persist(t) \/ Lose(t) \/ Present(t) \/ ClearMemory(t) \/ Forget(t)
         \/ UNCHANGED logs
<1>1. CASE Arrive(t) \/ Respond(t)
  BY <1>1 DEF Arrive, AskStart, AskQuestion, AskSwap, Ask, Respond
<1>2. CASE LeadNotFound(t) \/ Replay(t) \/ Investigate(t) \/ File(t) \/ FileFails(t) \/ ReadBack(t)
             \/ NothingToReadBack(t)
  BY <1>2 DEF LeadNotFound, Replay, Investigate, File, FileFails, ReadBack, NothingToReadBack, Fail
<1>3. CASE Question(t)
  BY <1>3 DEF Question, ReadEvidence, CaseNotFound, ReadSteps, PersistQuestion, PersistQuestionFails, Fail
<1>4. CASE DeleteQuestions(t) \/ ForgetFails(t) \/ Purge(t) \/ PurgeFails(t) \/ EnsureCase(t)
             \/ Reseed(t) \/ ReseedFails(t) \/ Surface(t) \/ SurfaceFails(t) \/ ClearDesk(t)
  BY <1>4 DEF DeleteQuestions, ForgetFails, Purge, PurgeFails, EnsureCase, Reseed, ReseedFails, Surface,
              SurfaceFails, ClearDesk, Fail
<1> QED
  BY <1>1, <1>2, <1>3, <1>4 DEF Work, Start, Swap

LEMMA PrefixOfItself ==
  ASSUME NEW s \in Seq(Events)
  PROVE  IsPrefix(s, s)
  BY DEF IsPrefix

LEMMA PrefixOfMore ==
  ASSUME NEW s \in Seq(Events), NEW e \in Events
  PROVE  IsPrefix(s, Append(s, e))
<1>1. Append(s, e) \in Seq(Events) /\ Len(Append(s, e)) = Len(s) + 1 /\ Len(s) \in Nat
  OBVIOUS
<1>2. \A i \in 1..Len(s) : Append(s, e)[i] = s[i]
  OBVIOUS
<1>3. SubSeq(s, 1, Len(s)) = SubSeq(Append(s, e), 1, Len(s))
  BY <1>1, <1>2
<1> QED
  BY <1>1, <1>3 DEF IsPrefix

(* Whatever is asked, cleared, loaded or restarted, and whoever writes at
   the same time, an event in the database stays where it is, but for those
   of DEMO. *)
THEOREM TimelinesAreKept == Spec => TimelinesOnlyGrow
<1>1. TypeInv /\ [Next]_vars => [\A k \in Keys \ {DemoKey} : IsPrefix(persisted[k], persisted'[k])]_vars
  <2> SUFFICES ASSUME TypeInv, Next, NEW k \in Keys \ {DemoKey}
               PROVE  IsPrefix(persisted[k], persisted'[k])
    OBVIOUS
  <2>1. persisted[k] \in Seq(Events)
    BY DEF TypeInv, TypeOK
  <2>2. CASE persisted'[k] = persisted[k]
    BY <2>1, <2>2, PrefixOfItself
  <2>3. ASSUME NEW t \in Threads, Persist(t) PROVE IsPrefix(persisted[k], persisted'[k])
    <3> DEFINE e == Head(todo[t])
    <3>1. e.key \in Keys /\ e.event \in Events
      BY <2>3, NextEvent DEF Persist
    <3>2. persisted' = [persisted EXCEPT ![e.key] = Append(@, e.event)]
      BY <2>3 DEF Persist
    <3> HIDE DEF e
    <3>3. persisted'[k] = IF k = e.key THEN Append(persisted[k], e.event) ELSE persisted[k]
      BY <3>1, <3>2 DEF TypeInv, TypeOK
    <3> QED
      BY <2>1, <3>1, <3>3, PrefixOfItself, PrefixOfMore
  <2>4. ASSUME NEW t \in Threads, Forget(t) PROVE persisted'[k] = persisted[k]
    BY <2>4 DEF Forget, TypeInv, TypeOK
  <2>5. CASE Crash
    BY <2>2, <2>5 DEF Crash
  <2>6. CASE \E t \in Threads : Work(t) \/ Arrive(t)
    <3>1. PICK t \in Threads : Work(t) \/ Arrive(t)
      BY <2>6
    <3>2. CASE Record(t) \/ Lose(t) \/ Present(t) \/ ClearMemory(t) \/ UNCHANGED logs
      <4>1. persisted' = persisted
        BY <3>2 DEF Record, Lose, Present, ClearMemory, ForgetEvents, logs
      <4> QED
        BY <2>2, <4>1
    <3> QED
      BY <2>2, <2>3, <2>4, <3>1, <3>2, TimelinesMove
  <2> QED
    BY <2>5, <2>6 DEF Next
<1> QED
  BY <1>1, TypeHolds, PTL DEF Spec, TimelinesOnlyGrow

LEMMA LostStep ==
  ASSUME TypeInv, LostEventsAreRemembered, NEW t \in Threads, Work(t) \/ Arrive(t),
         \A e \in lost : e.key \in Keys
  PROVE  LostEventsAreRemembered' /\ \A e \in lost' : e.key \in Keys
<1>1. CASE Record(t)
  <2> DEFINE n == Head(todo[t])
  <2>1. n.key \in Keys /\ n.event \in Events
    BY <1>1, NextEvent DEF Record
  <2>2. memory' = [memory EXCEPT ![n.key] = Append(@, n.event)] /\ lost' = lost
    BY <1>1 DEF Record
  <2> HIDE DEF n
  <2> SUFFICES ASSUME NEW e \in lost PROVE e.event \in Range(memory'[e.key])
    BY <2>2 DEF LostEventsAreRemembered
  <2>3. e.key \in Keys /\ memory[e.key] \in Seq(Events)
    BY DEF TypeInv, TypeOK
  <2>4. PICK i \in DOMAIN memory[e.key] : memory[e.key][i] = e.event
    BY DEF LostEventsAreRemembered, Range
  <2>5. CASE e.key = n.key
    <3>1. memory'[e.key] = Append(memory[e.key], n.event)
      BY <2>1, <2>2, <2>5 DEF TypeInv, TypeOK
    <3>2. i \in DOMAIN memory'[e.key] /\ memory'[e.key][i] = e.event
      BY <2>1, <2>3, <2>4, <3>1
    <3> QED
      BY <3>2, Zenon DEF Range
  <2>6. CASE e.key # n.key
    BY <2>2, <2>3, <2>6 DEF LostEventsAreRemembered, TypeInv, TypeOK
  <2> QED
    BY <2>5, <2>6
<1>2. CASE Lose(t)
  <2> DEFINE n == Head(todo[t])
  <2>1. n.key \in Keys
    BY <1>2, NextEvent DEF Lose
  <2>2. /\ memory' = memory
        /\ \/ lost' = lost
           \/ lost' = lost \cup {n} /\ \E i \in DOMAIN memory[n.key] : memory[n.key][i] = n.event
    <3>1. CASE \E i \in DOMAIN memory[n.key] : memory[n.key][i] = n.event
      BY <1>2, <3>1, Zenon DEF Lose
    <3>2. CASE ~ \E i \in DOMAIN memory[n.key] : memory[n.key][i] = n.event
      BY <1>2, <3>2, Zenon DEF Lose
    <3> QED
      BY <3>1, <3>2
  <2> HIDE DEF n
  <2>3. (\E i \in DOMAIN memory[n.key] : memory[n.key][i] = n.event) => n.event \in Range(memory[n.key])
    BY Zenon DEF Range
  <2> QED
    BY <2>1, <2>2, <2>3 DEF LostEventsAreRemembered
<1>3. ASSUME NEW keys \in SUBSET Keys, ForgetEvents(keys)
      PROVE  LostEventsAreRemembered' /\ \A e \in lost' : e.key \in Keys
  BY <1>3 DEF ForgetEvents, LostEventsAreRemembered
<1>4. CASE Present(t)
  <2>1. {arg[t]} \in SUBSET Keys
    BY <1>4 DEF TypeInv, InHand, Fits, Present, Keys
  <2> QED
    BY <1>3, <1>4, <2>1 DEF Present
<1>5. CASE ClearMemory(t)
  BY <1>3, <1>5 DEF ClearMemory
<1>6. CASE Persist(t) \/ Forget(t) \/ UNCHANGED logs
  BY <1>6 DEF Persist, Forget, logs, LostEventsAreRemembered
<1> QED
  BY <1>1, <1>2, <1>4, <1>5, <1>6, TimelinesMove

(* An event whose write failed is in memory until its own timeline is
   cleared. *)
THEOREM LostEventsStay == Spec => []LostEventsAreRemembered
<1> DEFINE Inv == LostEventsAreRemembered /\ \A e \in lost : e.key \in Keys
<1>1. Init => Inv
  BY DEF Init, LostEventsAreRemembered
<1>2. TypeInv /\ Inv /\ [Next]_vars => Inv'
  <2> SUFFICES ASSUME TypeInv, Inv, [Next]_vars PROVE Inv'
    OBVIOUS
  <2>1. CASE Crash \/ UNCHANGED vars
    BY <2>1 DEF Crash, vars, logs, LostEventsAreRemembered
  <2>2. CASE \E t \in Threads : Work(t) \/ Arrive(t)
    BY <2>2, LostStep
  <2> QED
    BY <2>1, <2>2 DEF Next
<1>3. Inv => LostEventsAreRemembered
  OBVIOUS
<1> QED
  BY <1>1, <1>2, <1>3, TypeHolds, PTL DEF Spec

-----------------------------------------------------------------------------
(* Who runs alone. *)
Undisturbed ==
  \A t \in Threads : pc[t] # "idle" /\ ~disturbed[t] => \A u \in Threads \ {t} : pc[u] = "idle"

(* Unless clears, loads and resets ran into something, each runs alone. *)
Unmixed ==
  ~mixed => \A t \in Threads : pc[t] # "idle" /\ op[t] \in Swaps => ~disturbed[t]

(* What a clear, load or reset that runs alone has come to. *)
Stage(t) ==
  /\ pc[t] \in {"forget", "strip"} => seen[t] = questions /\ caseRow
  /\ pc[t] = "purge" => filed = << >> /\ known = {}
  /\ pc[t] = "reseed" => ~caseRow
  /\ pc[t] \in {"strip_questions", "surface"} => caseRow
  /\ answer[t] \in {"OK", None}

Staged == \A t \in Threads : pc[t] # "idle" /\ op[t] \in Swaps /\ ~disturbed[t] => Stage(t)

LEMMA OthersStay ==
  ASSUME TypeInv, NEW t \in Threads, Work(t) \/ Arrive(t), NEW u \in Threads, u # t
  PROVE  /\ pc'[u] = pc[u] /\ op'[u] = op[u] /\ answer'[u] = answer[u] /\ serial'[u] = serial[u]
         /\ arg'[u] = arg[u] /\ evidence'[u] = evidence[u] /\ steps'[u] = steps[u]
         /\ todo'[u] = todo[u]
<1>1. CASE Arrive(t)
  BY <1>1 DEF TypeInv, TypeOK, Arrive, AskStart, AskQuestion, AskSwap, Ask, Emitting, Goto
<1>2. CASE Record(t) \/ Persist(t) \/ Lose(t) \/ Respond(t)
  BY <1>2, ZenonT(90) DEF TypeInv, TypeOK, Record, Persist, Lose, Respond, Proceed, Return, Goto, Quiet, locals
<1>3. CASE Start(t)
  BY <1>3 DEF TypeInv, TypeOK, Start, LeadNotFound, Replay, Investigate, File, FileFails, ReadBack,
              NothingToReadBack, Present, ReadCase, Emitting, Fail, Return, Goto, Quiet, locals
<1>4. CASE Question(t)
  BY <1>4 DEF TypeInv, TypeOK, Question, ReadEvidence, CaseNotFound, ReadSteps, PersistQuestion,
              PersistQuestionFails, ReadCase, Fail, Return, Goto, Quiet, locals
<1>5. CASE Swap(t)
  <2>1. CASE DeleteQuestions(t) \/ Forget(t) \/ ForgetFails(t) \/ Purge(t) \/ PurgeFails(t) \/ EnsureCase(t)
    BY <2>1 DEF TypeInv, TypeOK, DeleteQuestions, Forget, ForgetFails, Purge, PurgeFails, EnsureCase,
                Fail, Return, Goto, Quiet, locals
  <2>2. CASE Reseed(t) \/ ReseedFails(t) \/ Surface(t) \/ SurfaceFails(t) \/ ClearDesk(t) \/ ClearMemory(t)
    BY <2>2 DEF TypeInv, TypeOK, Reseed, ReseedFails, Surface, SurfaceFails, ClearDesk, ClearMemory,
                Emitting, Fail, Return, Goto, Quiet, locals
  <2> QED
    BY <1>5, <2>1, <2>2 DEF Swap
<1> QED
  BY <1>1, <1>2, <1>3, <1>4, <1>5 DEF Work

(* The history is written when a request is asked, and when it is answered. *)
LEMMA AskFacts ==
  ASSUME TypeInv, NEW t \in Threads, Arrive(t)
  PROVE  /\ pc[t] = "idle" /\ pc'[t] # "idle" /\ pc'[t] \notin {"details", "present"}
         /\ op'[t] \in Swaps => pc'[t] = "clear"
         /\ disturbed' = [u \in Threads |-> IF u = t THEN Active # {} ELSE disturbed[u] \/ u \in Active]
         /\ mixed' = (mixed \/ \E u \in Active : op'[t] \in Swaps \/ op[u] \in Swaps)
         /\ UNCHANGED <<db, active, seen, answer>>
<1>1. PICK operation \in Swaps \cup {"start", "question"}, about \in Leads \cup {None} :
        /\ Ask(t, operation, about)
        /\ \/ operation \in {"start", "question"} /\ pc'[t] \in {"emit", "read_evidence"}
           \/ operation \in Swaps /\ pc'[t] = "clear"
  BY DeskAssumption DEF Arrive, AskStart, AskQuestion, AskSwap, Emitting, Goto, TypeInv, TypeOK
<1>2. op'[t] = operation
  BY <1>1 DEF Ask, TypeInv, TypeOK
<1> QED
  BY <1>1, <1>2 DEF Ask, Swaps

LEMMA RespondFacts ==
  ASSUME TypeInv, NEW t \in Threads, Respond(t)
  PROVE  /\ pc[t] = "done" /\ pc'[t] = "idle"
         /\ \A u \in Threads \ {t} : disturbed'[u] = disturbed[u]
         /\ UNCHANGED <<db, active, mixed>>
  BY DEF Respond, Goto, TypeInv, TypeOK

LEMMA WorkFacts ==
  ASSUME TypeInv, NEW t \in Threads, Work(t), ~Respond(t)
  PROVE  pc[t] \notin {"idle", "done"} /\ pc'[t] # "idle" /\ Quiet
<1>1. CASE Record(t) \/ Persist(t) \/ Lose(t)
  BY <1>1 DEF TypeInv, TypeOK, Record, Persist, Lose, Proceed, Return, Goto
<1>2. CASE Start(t)
  BY <1>2 DEF TypeInv, TypeOK, Start, LeadNotFound, Replay, Investigate, File, FileFails, ReadBack,
              NothingToReadBack, Present, Emitting, Fail, Return, Goto
<1>3. CASE Question(t)
  BY <1>3 DEF TypeInv, TypeOK, Question, ReadEvidence, CaseNotFound, ReadSteps, PersistQuestion,
              PersistQuestionFails, Fail, Return, Goto
<1>4. CASE DeleteQuestions(t)
  BY <1>4, DeletedTo DEF DeleteQuestions, TypeInv, TypeOK
<1>5. CASE Forget(t) \/ ForgetFails(t) \/ Purge(t) \/ PurgeFails(t) \/ EnsureCase(t)
  BY <1>5 DEF TypeInv, TypeOK, Forget, ForgetFails, Purge, PurgeFails, EnsureCase, Fail, Return, Goto
<1>6. CASE Reseed(t) \/ ReseedFails(t) \/ Surface(t) \/ SurfaceFails(t) \/ ClearDesk(t) \/ ClearMemory(t)
  BY <1>6 DEF TypeInv, TypeOK, Reseed, ReseedFails, Surface, SurfaceFails, ClearDesk, ClearMemory,
              Emitting, Fail, Return, Goto
<1> QED
  BY <1>1, <1>2, <1>3, <1>4, <1>5, <1>6 DEF Work, Swap

LEMMA HistoryStep ==
  ASSUME TypeInv, Undisturbed, Unmixed, NEW t \in Threads, Work(t) \/ Arrive(t)
  PROVE  Undisturbed' /\ Unmixed'
<1>1. CASE Arrive(t)
  <2>1. \A u \in Threads \ {t} : pc'[u] = pc[u] /\ op'[u] = op[u]
    BY OthersStay
  <2>2. Undisturbed'
    <3> SUFFICES ASSUME NEW u \in Threads, pc'[u] # "idle", ~disturbed'[u], NEW v \in Threads \ {u}
                 PROVE  pc'[v] = "idle"
      BY DEF Undisturbed
    <3>1. disturbed'[u] = IF u = t THEN Active # {} ELSE disturbed[u] \/ u \in Active
      BY <1>1, AskFacts
    <3>2. CASE u = t
      <4>1. v \notin Active
        BY <3>1, <3>2
      <4> QED
        BY <2>1, <3>2, <4>1 DEF Active
    <3>3. CASE u # t
      BY <2>1, <3>1, <3>3 DEF Active
    <3> QED
      BY <3>2, <3>3
  <2>3. Unmixed'
    BY <1>1, <2>1, AskFacts DEF Unmixed, Active
  <2> QED
    BY <2>2, <2>3
<1>2. CASE Respond(t)
  <2>1. \A u \in Threads \ {t} : pc'[u] = pc[u] /\ op'[u] = op[u]
    BY OthersStay
  <2> QED
    BY <1>2, <2>1, RespondFacts DEF Undisturbed, Unmixed
<1>3. CASE Work(t) /\ ~Respond(t)
  <2>1. \A u \in Threads : pc'[u] = "idle" <=> pc[u] = "idle"
    BY <1>3, OthersStay, WorkFacts
  <2>2. Quiet
    BY <1>3, WorkFacts
  <2> QED
    BY <2>1, <2>2 DEF Undisturbed, Unmixed, Quiet
<1> QED
  BY <1>1, <1>2, <1>3

LEMMA StagedStep ==
  ASSUME TypeInv, Undisturbed, Staged, NEW t \in Threads, Work(t) \/ Arrive(t)
  PROVE  Staged'
<1> SUFFICES ASSUME NEW u \in Threads, pc'[u] # "idle", op'[u] \in Swaps, ~disturbed'[u]
             PROVE  Stage(u)'
  BY DEF Staged
<1>1. CASE u # t
  <2>1. pc[u] # "idle"
    BY <1>1, OthersStay
  <2>2. ~Arrive(t)
    BY <1>1, <2>1, AskFacts DEF Active
  <2>3. disturbed'[u] = disturbed[u] /\ pc[t] # "idle"
    <3>1. CASE Respond(t)
      BY <1>1, <3>1, RespondFacts
    <3>2. CASE ~Respond(t)
      BY <2>2, <3>2, WorkFacts DEF Quiet
    <3> QED
      BY <3>1, <3>2
  <2> QED
    BY <1>1, <2>1, <2>3 DEF Undisturbed
<1>2. CASE u = t /\ Arrive(t)
  <2>1. pc'[t] = "clear" /\ answer'[t] = answer[t] /\ pc[t] = "idle"
    BY <1>2, AskFacts
  <2> QED
    BY <1>2, <2>1 DEF Stage, TypeInv, InHand, Fits
<1>3. CASE u = t /\ Respond(t)
  BY <1>3, RespondFacts
<1>4. CASE u = t /\ Work(t) /\ ~Respond(t)
  <2>1. pc[t] # "idle" /\ op[t] \in Swaps /\ ~disturbed[t]
    BY <1>4, WorkFacts DEF Quiet
  <2>2. Stage(t) /\ \A v \in Threads \ {t} : pc[v] = "idle"
    BY <2>1 DEF Staged, Undisturbed
  <2>3. CASE Record(t) \/ Persist(t) \/ Lose(t)
    <3>1. pc'[t] \in {"sink", "emit", "investigate", "done"} /\ answer'[t] \in {answer[t], "OK"}
      <4>1. CASE Record(t)
        BY <4>1 DEF TypeInv, TypeOK, Record, Goto
      <4>2. CASE Persist(t) \/ Lose(t)
        BY <4>2 DEF TypeInv, TypeOK, Persist, Lose, Proceed, Return, Goto
      <4> QED
        BY <2>3, <4>1, <4>2
    <3> QED
      BY <1>4, <2>2, <3>1 DEF Stage
  <2>4. CASE Start(t) \/ Question(t)
    <3>1. op[t] \in {"start", "question"}
      BY <2>4 DEF TypeInv, InHand, Fits, Start, LeadNotFound, Replay, Investigate, File, FileFails, ReadBack,
                  NothingToReadBack, Present, Question, ReadEvidence, CaseNotFound, ReadSteps, PersistQuestion,
                  PersistQuestionFails
    <3> QED
      BY <2>1, <3>1 DEF Swaps
  <2>5. CASE DeleteQuestions(t)
    <3>1. UNCHANGED <<db, answer>>
      BY <2>5 DEF DeleteQuestions
    <3>2. PICK place \in {"forget", "strip", "surface", "reseed", "shell"} :
            /\ pc' = [pc EXCEPT ![t] = place]
            /\ caseRow => place \in {"forget", "strip"} /\ seen' = [seen EXCEPT ![t] = questions]
            /\ place \in {"forget", "strip"} => caseRow
            /\ place = "surface" => pc[t] = "strip_questions"
      BY <2>5, DeletedTo
    <3>3. pc'[t] = place /\ (caseRow => seen'[t] = questions)
      BY <3>2 DEF TypeInv, TypeOK
    <3> QED
      BY <1>4, <2>2, <3>1, <3>2, <3>3 DEF Stage, db
  <2>6. CASE Forget(t)
    BY <1>4, <2>2, <2>6 DEF TypeInv, TypeOK, Stage, Forget, Goto
  <2>7. ~ForgetFails(t) /\ ~PurgeFails(t) /\ ~ReseedFails(t) /\ ~SurfaceFails(t)
    BY <2>2 DEF Stage, ForgetFails, Restricted, PurgeFails, ReseedFails, SurfaceFails
  <2>8. CASE Purge(t) \/ EnsureCase(t)
    BY <1>4, <2>2, <2>8 DEF TypeInv, TypeOK, Stage, Purge, EnsureCase, Goto
  <2>9. CASE Reseed(t) \/ Surface(t)
    BY <1>4, <2>2, <2>9 DEF TypeInv, TypeOK, Stage, Reseed, Surface, Goto
  <2>10. CASE ClearDesk(t) \/ ClearMemory(t)
    BY <1>4, <2>2, <2>10 DEF TypeInv, TypeOK, Stage, ClearDesk, ClearMemory, Emitting, Return, Goto
  <2> QED
    BY <1>4, <2>3, <2>4, <2>5, <2>6, <2>7, <2>8, <2>9, <2>10 DEF Work, Swap
<1> QED
  BY <1>1, <1>2, <1>3, <1>4

LEMMA HistoryHolds == Spec => [](Undisturbed /\ Unmixed /\ Staged)
<1>1. Init => Undisturbed /\ Unmixed /\ Staged
  BY DEF Init, Undisturbed, Unmixed, Staged
<1>2. TypeInv /\ Undisturbed /\ Unmixed /\ Staged /\ [Next]_vars => (Undisturbed /\ Unmixed /\ Staged)'
  <2> SUFFICES ASSUME TypeInv, Undisturbed, Unmixed, Staged, [Next]_vars
               PROVE  (Undisturbed /\ Unmixed /\ Staged)'
    OBVIOUS
  <2>1. CASE Crash
    BY <2>1 DEF Crash, Undisturbed, Unmixed, Staged
  <2>2. CASE UNCHANGED vars
    BY <2>2 DEF vars, db, locals, Undisturbed, Unmixed, Staged, Stage
  <2>3. CASE \E t \in Threads : Work(t) \/ Arrive(t)
    BY <2>3, HistoryStep, StagedStep
  <2> QED
    BY <2>1, <2>2, <2>3 DEF Next
<1> QED
  BY <1>1, <1>2, TypeHolds, PTL DEF Spec

(* A clear, load or reset that nothing disturbs is never refused: no
   question is left between it and the rows it deletes. *)
THEOREM ClearingSucceeds == Spec => []ClearingAloneSucceeds
<1>1. TypeInv /\ Staged => ClearingAloneSucceeds
  <2> SUFFICES ASSUME TypeInv, Staged, NEW t \in Threads, op[t] \in Swaps, ~disturbed[t]
               PROVE  answer[t] \in {"OK", None}
    BY DEF ClearingAloneSucceeds
  <2>1. CASE pc[t] = "idle"
    BY <2>1 DEF TypeInv, InHand, Fits
  <2>2. CASE pc[t] # "idle"
    BY <2>2 DEF Staged, Stage
  <2> QED
    BY <2>1, <2>2
<1> QED
  BY <1>1, TypeHolds, HistoryHolds, PTL

-----------------------------------------------------------------------------
(* The steps that file, ask or show. *)
LEMMA DeskMoves ==
  ASSUME NEW t \in Threads, Work(t) \/ Arrive(t)
  PROVE  /\ \/ File(t) \/ PersistQuestion(t) \/ Forget(t) \/ Purge(t) \/ Reseed(t)
            \/ UNCHANGED <<filed, questions>>
         /\ Present(t) \/ ClearDesk(t) \/ UNCHANGED active
<1>1. CASE Arrive(t) \/ Respond(t) \/ Record(t) \/ Persist(t) \/ Lose(t)
  BY <1>1 DEF Arrive, AskStart, AskQuestion, AskSwap, Ask, Respond, Record, Persist, Lose, db
<1>2. CASE Start(t)
  BY <1>2 DEF Start, LeadNotFound, Replay, Investigate, File, FileFails, ReadBack, NothingToReadBack,
              Present, Fail, db
<1>3. CASE Question(t)
  BY <1>3 DEF Question, ReadEvidence, CaseNotFound, ReadSteps, PersistQuestion, PersistQuestionFails, Fail, db
<1>4. CASE Swap(t)
  BY <1>4 DEF Swap, DeleteQuestions, Forget, ForgetFails, Purge, PurgeFails, EnsureCase, Reseed, ReseedFails,
              Surface, SurfaceFails, ClearDesk, ClearMemory, Fail, db
<1> QED
  BY <1>1, <1>2, <1>3, <1>4 DEF Work

LEMMA SwapsAreAlone ==
  ASSUME Undisturbed, Unmixed, ~mixed, NEW t \in Threads, pc[t] # "idle", op[t] \in Swaps
  PROVE  \A u \in Threads \ {t} : pc[u] = "idle"
  BY DEF Undisturbed, Unmixed

LEMMA FiledIsKept ==
  ASSUME TypeInv, NEW t \in Threads, File(t)
  PROVE  Range(filed) \subseteq Range(filed') /\ arg[t] \in Range(filed')
<1>1. filed \in Seq(Leads) /\ arg[t] \in Leads
  BY DEF TypeInv, TypeOK, InHand, Fits, File
<1>2. CASE arg[t] \in Range(filed)
  BY <1>2 DEF File
<1>3. CASE arg[t] \notin Range(filed)
  <2>1. filed' = Append(filed, arg[t])
    BY <1>3 DEF File
  <2>2. \A i \in DOMAIN filed : i \in DOMAIN Append(filed, arg[t]) /\ Append(filed, arg[t])[i] = filed[i]
    BY <1>1
  <2>3. /\ Len(filed) + 1 \in DOMAIN Append(filed, arg[t])
        /\ Append(filed, arg[t])[Len(filed) + 1] = arg[t]
    BY <1>1
  <2> QED
    BY <2>1, <2>2, <2>3 DEF Range
<1> QED
  BY <1>2, <1>3

(* While nothing is mixed: a run that is presented is on file, a clear, load
   or reset has nobody shown from its desk on, and otherwise whoever is shown
   is on file. *)
NoSwap == \A t \in Active : op[t] \notin Swaps

Presented ==
  ~mixed =>
    /\ \A t \in Threads : pc[t] \in {"details", "present"} => arg[t] \in Range(filed)
    /\ \A t \in Threads :
         op[t] \in Swaps /\ pc[t] \in {"memory", "emit", "sink", "done"} => active = None
    /\ NoSwap => active = None \/ active \in Range(filed)

LEMMA PresentedStep ==
  ASSUME TypeInv, TypeInv', Undisturbed, Unmixed, Unmixed', Staged', Presented,
         NEW t \in Threads, Work(t) \/ Arrive(t)
  PROVE  Presented'
<1> SUFFICES ASSUME ~mixed'
             PROVE  /\ \A u \in Threads : pc'[u] \in {"details", "present"} => arg'[u] \in Range(filed')
                    /\ \A u \in Threads :
                         op'[u] \in Swaps /\ pc'[u] \in {"memory", "emit", "sink", "done"} => active' = None
                    /\ NoSwap' => active' = None \/ active' \in Range(filed')
  BY DEF Presented
<1>1. \A u \in Threads \ {t} : pc'[u] = pc[u] /\ op'[u] = op[u] /\ arg'[u] = arg[u]
  BY OthersStay
<1>2. CASE Arrive(t)
  <2>1. ~mixed /\ UNCHANGED <<filed, active>>
    BY <1>2, AskFacts DEF db
  <2>2. pc[t] = "idle" /\ pc'[t] \notin {"details", "present"} /\ (op'[t] \in Swaps => pc'[t] = "clear")
    BY <1>2, AskFacts
  <2>3. NoSwap' => NoSwap
    BY <1>1, <2>2 DEF NoSwap, Active
  <2> QED
    BY <1>1, <2>1, <2>2, <2>3 DEF Presented
<1>3. CASE Respond(t)
  <2>1. ~mixed /\ UNCHANGED <<filed, active>> /\ pc[t] = "done" /\ pc'[t] = "idle"
    BY <1>3, RespondFacts DEF db
  <2>2. CASE op[t] \in Swaps
    BY <1>1, <2>1, <2>2 DEF Presented
  <2>3. CASE op[t] \notin Swaps
    <3>1. NoSwap' => NoSwap
      BY <1>1, <2>1, <2>3 DEF NoSwap, Active
    <3> QED
      BY <1>1, <2>1, <3>1 DEF Presented
  <2> QED
    BY <2>2, <2>3
<1>4. CASE Work(t) /\ ~Respond(t) /\ op[t] \in Swaps
  <2>1. pc[t] # "idle" /\ pc'[t] # "idle" /\ ~mixed /\ op'[t] = op[t]
    BY <1>4, WorkFacts DEF Quiet
  <2>2. \A u \in Threads \ {t} : pc'[u] = "idle"
    BY <1>1, <1>4, <2>1, SwapsAreAlone
  <2>3. pc'[t] \notin {"details", "present"}
    BY <1>4, <2>1 DEF TypeInv, InHand, Fits, Swaps
  <2>4. ~NoSwap'
    BY <1>4, <2>1 DEF NoSwap, Active
  <2>5. pc'[t] \in {"memory", "emit", "sink", "done"} => active' = None
    <3>1. answer'[t] \in {"OK", None}
      BY <1>4, <2>1 DEF Unmixed, Staged, Stage
    <3>2. pc[t] \in {"memory", "emit", "sink", "done"} => active = None
      BY <1>4, <2>1 DEF Presented
    <3>3. CASE Record(t) \/ Persist(t) \/ Lose(t)
      BY <3>2, <3>3 DEF Record, Persist, Lose
    <3>4. CASE Start(t) \/ Question(t)
      <4>1. op[t] \in {"start", "question"}
        BY <3>4 DEF TypeInv, InHand, Fits, Start, LeadNotFound, Replay, Investigate, File, FileFails, ReadBack,
                    NothingToReadBack, Present, Question, ReadEvidence, CaseNotFound, ReadSteps, PersistQuestion,
                    PersistQuestionFails
      <4> QED
        BY <1>4, <4>1 DEF Swaps
    <3>5. CASE DeleteQuestions(t)
      BY <3>5, DeletedTo DEF TypeInv, TypeOK
    <3>6. CASE Forget(t) \/ Purge(t) \/ EnsureCase(t) \/ Reseed(t) \/ Surface(t)
      BY <3>6 DEF TypeInv, TypeOK, Forget, Purge, EnsureCase, Reseed, Surface, Goto
    <3>7. ~ForgetFails(t) /\ ~PurgeFails(t) /\ ~ReseedFails(t) /\ ~SurfaceFails(t)
      <4>1. answer'[t] # "ERROR"
        BY <3>1, DeskAssumption
      <4>2. Fail(t, "ERROR") => answer'[t] = "ERROR"
        BY DEF TypeInv, TypeOK, Fail, Return
      <4> QED
        BY <4>1, <4>2 DEF ForgetFails, PurgeFails, ReseedFails, SurfaceFails
    <3>8. CASE ClearDesk(t)
      BY <3>8 DEF ClearDesk
    <3>9. CASE ClearMemory(t)
      BY <3>2, <3>9 DEF ClearMemory
    <3> QED
      BY <1>4, <3>3, <3>4, <3>5, <3>6, <3>7, <3>8, <3>9 DEF Work, Swap
  <2> QED
    BY <2>2, <2>3, <2>4, <2>5
<1>5. CASE Work(t) /\ ~Respond(t) /\ op[t] \notin Swaps
  <2>1. pc[t] # "idle" /\ pc'[t] # "idle" /\ ~mixed /\ op' = op /\ arg' = arg
    BY <1>5, WorkFacts DEF Quiet
  <2>2. \A u \in Threads : pc[u] # "idle" => op[u] \notin Swaps
    BY <1>5, <2>1, SwapsAreAlone
  <2>3. \A u \in Threads : pc'[u] # "idle" => op'[u] \notin Swaps
    BY <1>1, <2>1, <2>2
  <2>4. active = None \/ active \in Range(filed)
    BY <2>1, <2>2 DEF Presented, NoSwap, Active
  <2>5. Range(filed) \subseteq Range(filed')
    <3>1. ~Forget(t) /\ ~Purge(t) /\ ~Reseed(t)
      BY <1>5 DEF TypeInv, InHand, Fits, Forget, Purge, Reseed
    <3>2. CASE File(t)
      BY <3>2, FiledIsKept
    <3>3. CASE ~File(t)
      <4>1. filed' = filed
        BY <1>5, <3>1, <3>3, DeskMoves DEF PersistQuestion
      <4> QED
        BY <4>1
    <3> QED
      BY <3>2, <3>3
  <2>6. active' = None \/ active' \in Range(filed')
    <3>1. CASE Present(t)
      <4>1. active' = arg[t] /\ arg[t] \in Range(filed)
        BY <2>1, <3>1 DEF Present, Presented
      <4> QED
        BY <2>5, <4>1
    <3>2. CASE ClearDesk(t)
      BY <3>2 DEF ClearDesk
    <3> QED
      BY <1>5, <2>4, <2>5, <3>1, <3>2, DeskMoves
  <2>7. pc'[t] \in {"details", "present"} => arg[t] \in Range(filed')
    <3>1. CASE Record(t) \/ Persist(t) \/ Lose(t)
      BY <3>1, ZenonT(40) DEF TypeInv, TypeOK, Record, Persist, Lose, Proceed, Return, Goto
    <3>2. CASE File(t)
      BY <3>2, FiledIsKept
    <3>3. CASE Replay(t)
      BY <2>5, <3>3 DEF Replay
    <3>4. CASE ReadBack(t)
      BY <2>1, <2>5, <3>4 DEF ReadBack, Presented
    <3>5. CASE LeadNotFound(t) \/ Investigate(t) \/ FileFails(t) \/ NothingToReadBack(t) \/ Present(t)
      BY <3>5 DEF TypeInv, TypeOK, LeadNotFound, Investigate, FileFails, NothingToReadBack, Present, Emitting,
                  Fail, Return, Goto
    <3>6. CASE Question(t)
      BY <3>6 DEF TypeInv, TypeOK, Question, ReadEvidence, CaseNotFound, ReadSteps, PersistQuestion,
                  PersistQuestionFails, Fail, Return, Goto
    <3>7. ~Swap(t)
      BY <1>5 DEF TypeInv, InHand, Fits, Swap, DeleteQuestions, Forget, ForgetFails, Purge, PurgeFails, EnsureCase,
                  Reseed, ReseedFails, Surface, SurfaceFails, ClearDesk, ClearMemory
    <3> QED
      BY <1>5, <3>1, <3>2, <3>3, <3>4, <3>5, <3>6, <3>7 DEF Work, Start
  <2>8. \A u \in Threads \ {t} : pc[u] \in {"details", "present"} => arg[u] \in Range(filed')
    BY <2>1, <2>5 DEF Presented
  <2> QED
    BY <1>1, <2>1, <2>3, <2>6, <2>7, <2>8
<1> QED
  BY <1>2, <1>3, <1>4, <1>5

(* The lead a case is shown with has a run on file, as long as no clear,
   load or reset ran into something. *)
THEOREM ShownLeadIsFiled == Spec => []ActiveLeadHasARun
<1>1. Init => Presented
  BY DEF Init, Presented, Active
<1>2. /\ TypeInv /\ TypeInv' /\ (Undisturbed /\ Unmixed /\ Staged) /\ (Undisturbed /\ Unmixed /\ Staged)'
      /\ Presented /\ [Next]_vars
      => Presented'
  <2> SUFFICES ASSUME TypeInv, TypeInv', Undisturbed, Unmixed, Unmixed', Staged', Presented, [Next]_vars
               PROVE  Presented'
    OBVIOUS
  <2>1. CASE Crash
    BY <2>1 DEF Crash, Presented
  <2>2. CASE UNCHANGED vars
    BY <2>2 DEF vars, db, Presented, NoSwap, Active
  <2>3. CASE \E t \in Threads : Work(t) \/ Arrive(t)
    BY <2>3, PresentedStep
  <2> QED
    BY <2>1, <2>2, <2>3 DEF Next
<1>3. Presented => ActiveLeadHasARun
  BY DEF Presented, NoSwap, ActiveLeadHasARun
<1> QED
  BY <1>1, <1>2, <1>3, TypeHolds, HistoryHolds, PTL DEF Spec

-----------------------------------------------------------------------------
(* What is on record refers to what is on file. *)
RefersToFile ==
  \A q \in questions : q.evidence \subseteq EvidenceOnFile /\ q.steps \subseteq Range(StepsOnFile)

LEMMA MoreOnFile ==
  ASSUME TypeInv, TypeInv', Range(filed) \subseteq Range(filed')
  PROVE  EvidenceOnFile \subseteq EvidenceOnFile' /\ Range(StepsOnFile) \subseteq Range(StepsOnFile')
<1>1. filed \in Seq(Leads) /\ filed' \in Seq(Leads)
  BY DEF TypeInv, TypeOK
<1>2. Range(StepsOnFile) = StepsOfRuns(Range(filed))
  BY <1>1, StepsAreSteps
<1>3. Range(StepsOnFile') = StepsOfRuns(Range(filed'))
  <2>1. StepsOnFile' = FlattenSeq(RunsOf(filed'))
    BY Zenon DEF StepsOnFile, RunsOf
  <2> QED
    BY <1>1, <2>1, RunsFlatten
<1>4. StepsOfRuns(Range(filed)) \subseteq StepsOfRuns(Range(filed'))
  BY DEF StepsOfRuns
<1> QED
  BY <1>2, <1>3, <1>4 DEF EvidenceOnFile

LEMMA RefersStep ==
  ASSUME TypeInv, TypeInv', RefersToFile, NEW t \in Threads, Work(t) \/ Arrive(t)
  PROVE  RefersToFile'
<1>1. CASE File(t)
  <2>1. Range(filed) \subseteq Range(filed') /\ questions' = questions
    BY <1>1, FiledIsKept DEF File
  <2>2. EvidenceOnFile \subseteq EvidenceOnFile' /\ Range(StepsOnFile) \subseteq Range(StepsOnFile')
    BY <2>1, MoreOnFile
  <2> QED
    BY <2>1, <2>2 DEF RefersToFile
<1>2. CASE PersistQuestion(t)
  <2>1. filed' = filed
    BY <1>2 DEF PersistQuestion
  <2>2. EvidenceOnFile' = EvidenceOnFile /\ StepsOnFile' = StepsOnFile
    BY <2>1 DEF EvidenceOnFile, StepsOnFile
  <2>3. evidence[t] \subseteq EvidenceOnFile /\ Range(steps[t]) \subseteq Range(StepsOnFile)
    BY <1>2 DEF PersistQuestion, Answerable
  <2>4. questions' = questions \cup
          {[serial |-> serial[t], evidence |-> evidence[t], steps |-> Range(steps[t])]}
    BY <1>2 DEF PersistQuestion
  <2> QED
    BY <2>2, <2>3, <2>4 DEF RefersToFile
<1>3. CASE Forget(t)
  <2>1. questions' = questions \ seen[t]
    BY <1>3 DEF Forget
  <2>2. \A q \in questions' : q.evidence = {} /\ q.steps = {}
    BY <1>3, <2>1 DEF Forget, Restricted
  <2> QED
    BY <2>2 DEF RefersToFile
<1>4. CASE Purge(t) \/ Reseed(t)
  <2>1. CASE questions' = {}
    BY <2>1 DEF RefersToFile
  <2>2. CASE questions' # {}
    <3>1. questions' = questions /\ filed' = filed
      BY <1>4, <2>2 DEF Purge, Reseed, TypeInv, NothingWithoutCase
    <3>2. EvidenceOnFile' = EvidenceOnFile /\ StepsOnFile' = StepsOnFile
      BY <3>1 DEF EvidenceOnFile, StepsOnFile
    <3> QED
      BY <3>1, <3>2 DEF RefersToFile
  <2> QED
    BY <2>1, <2>2
<1>5. CASE UNCHANGED <<filed, questions>>
  <2>1. EvidenceOnFile' = EvidenceOnFile /\ StepsOnFile' = StepsOnFile
    BY <1>5 DEF EvidenceOnFile, StepsOnFile
  <2> QED
    BY <1>5, <2>1 DEF RefersToFile
<1> QED
  BY <1>1, <1>2, <1>3, <1>4, <1>5, DeskMoves

(* An answered question is on record, unless something is mixed. *)
OnRecord(t) == [serial |-> serial[t], evidence |-> evidence[t], steps |-> Range(steps[t])]

Answered == \A t \in Threads : op[t] = "question" /\ answer[t] = "OK" /\ ~mixed => OnRecord(t) \in questions

LEMMA AnsweredStep ==
  ASSUME TypeInv, TypeInv', Undisturbed, Unmixed, Answered, NEW t \in Threads, Work(t) \/ Arrive(t)
  PROVE  Answered'
<1> SUFFICES ASSUME NEW u \in Threads, op'[u] = "question", answer'[u] = "OK", ~mixed'
             PROVE  OnRecord(u)' \in questions'
  BY DEF Answered
<1>0. pc'[u] = "done"
  BY DeskAssumption DEF TypeInv, InHand, Fits
<1>1. ~mixed
  <2>1. CASE Arrive(t)
    BY <2>1, AskFacts
  <2>2. CASE Respond(t)
    BY <2>2, RespondFacts
  <2>3. CASE Work(t) /\ ~Respond(t)
    BY <2>3, WorkFacts DEF Quiet
  <2> QED
    BY <2>1, <2>2, <2>3
<1>2. CASE u # t
  <2>1. /\ op[u] = "question" /\ answer[u] = "OK" /\ pc[u] = "done"
        /\ serial'[u] = serial[u] /\ evidence'[u] = evidence[u] /\ steps'[u] = steps[u]
    BY <1>0, <1>2, OthersStay
  <2>2. OnRecord(u)' = OnRecord(u) /\ OnRecord(u) \in questions
    BY <1>1, <2>1 DEF OnRecord, Answered
  <2>3. ~Forget(t) /\ ~Purge(t) /\ ~Reseed(t)
    <3>1. Forget(t) \/ Purge(t) \/ Reseed(t) => pc[t] # "idle" /\ op[t] \in Swaps
      BY DEF TypeInv, InHand, Fits, Forget, Purge, Reseed
    <3> QED
      BY <1>1, <1>2, <2>1, <3>1, SwapsAreAlone
  <2>4. questions \subseteq questions'
    BY <2>3, DeskMoves DEF File, PersistQuestion
  <2> QED
    BY <2>2, <2>4
<1>3. CASE u = t
  <2>1. ~Arrive(t)
    <3>1. Arrive(t) => pc[t] = "idle" /\ answer'[t] = answer[t]
      BY AskFacts
    <3> QED
      BY <1>3, <3>1, DeskAssumption DEF TypeInv, InHand, Fits
  <2>2. ~Respond(t)
    BY <1>0, <1>3, RespondFacts
  <2>3. op[t] = "question" /\ pc[t] # "done" /\ answer[t] = None
    BY <1>3, <2>1, <2>2, WorkFacts DEF Quiet, TypeInv, InHand, Fits
  <2>4. ~Record(t) /\ ~Persist(t) /\ ~Lose(t)
    BY <2>3 DEF TypeInv, InHand, Fits, Record, Persist, Lose, Swaps
  <2>5. ~Start(t)
    BY <2>3 DEF TypeInv, InHand, Fits, Start, LeadNotFound, Replay, Investigate, File, FileFails, ReadBack,
                NothingToReadBack, Present
  <2>6. ~Swap(t)
    <3>1. op[t] \notin Swaps
      BY <2>3 DEF Swaps
    <3> QED
      BY <3>1 DEF TypeInv, InHand, Fits, Swap, DeleteQuestions, Forget, ForgetFails, Purge, PurgeFails, EnsureCase,
                  Reseed, ReseedFails, Surface, SurfaceFails, ClearDesk, ClearMemory
  <2>7. ~ReadEvidence(t) /\ ~ReadSteps(t)
    BY <1>3, <2>3, DeskAssumption DEF ReadEvidence, ReadSteps
  <2>8. ~CaseNotFound(t) /\ ~PersistQuestionFails(t)
    <3>1. \A response : Fail(t, response) => answer'[t] = response
      BY DEF TypeInv, TypeOK, Fail, Return
    <3> QED
      BY <1>3, <3>1 DEF CaseNotFound, PersistQuestionFails
  <2>9. PersistQuestion(t)
    BY <2>1, <2>2, <2>4, <2>5, <2>6, <2>7, <2>8 DEF Work, Question
  <2>10. UNCHANGED <<serial, evidence, steps>>
    BY <2>9 DEF PersistQuestion, Quiet, locals
  <2>11. OnRecord(t)' = OnRecord(t)
    BY <2>10 DEF OnRecord
  <2> QED
    BY <1>3, <2>9, <2>11 DEF PersistQuestion, OnRecord
<1> QED
  BY <1>2, <1>3

(* A question that was answered is on record, and what is on record refers
   to what is on file. *)
THEOREM AnswersStayOnRecord == Spec => []AnswersAreOnRecord
<1>1. Init => RefersToFile /\ Answered
  BY DeskAssumption DEF Init, RefersToFile, Answered
<1>2. /\ TypeInv /\ TypeInv' /\ (Undisturbed /\ Unmixed /\ Staged) /\ RefersToFile /\ Answered /\ [Next]_vars
      => (RefersToFile /\ Answered)'
  <2> SUFFICES ASSUME TypeInv, TypeInv', Undisturbed, Unmixed, RefersToFile, Answered, [Next]_vars
               PROVE  (RefersToFile /\ Answered)'
    OBVIOUS
  <2>1. CASE Crash
    <3>1. filed' = filed /\ questions' = questions
      BY <2>1 DEF Crash, db
    <3>2. EvidenceOnFile' = EvidenceOnFile /\ StepsOnFile' = StepsOnFile
      BY <3>1 DEF EvidenceOnFile, StepsOnFile
    <3>3. RefersToFile'
      BY <3>1, <3>2 DEF RefersToFile
    <3>4. \A t \in Threads : op'[t] # "question"
      BY <2>1, DeskAssumption DEF Crash
    <3> QED
      BY <3>3, <3>4 DEF Answered
  <2>2. CASE UNCHANGED vars
    <3>1. UNCHANGED <<filed, questions, op, answer, serial, evidence, steps, mixed>>
      BY <2>2 DEF vars, db, locals
    <3>2. EvidenceOnFile' = EvidenceOnFile /\ StepsOnFile' = StepsOnFile
      BY <3>1 DEF EvidenceOnFile, StepsOnFile
    <3> QED
      BY <3>1, <3>2 DEF RefersToFile, Answered, OnRecord
  <2>3. CASE \E t \in Threads : Work(t) \/ Arrive(t)
    BY <2>3, RefersStep, AnsweredStep
  <2> QED
    BY <2>1, <2>2, <2>3 DEF Next
<1>3. RefersToFile /\ Answered => AnswersAreOnRecord
  BY DEF RefersToFile, Answered, OnRecord, AnswersAreOnRecord
<1> QED
  BY <1>1, <1>2, <1>3, TypeHolds, HistoryHolds, PTL DEF Spec

-----------------------------------------------------------------------------
(* The timeline of the case, and what a run has put there.  The events of a
   request are found by its number; the first `count` of a run are those, in
   order, and no others. *)
Log == persisted[CaseKey]

By(log, number) == {i \in DOMAIN log : log[i].by = number}

IsOf(event, run, k) ==
  IF k = 1 THEN event.type = Complete ELSE event.what = run[k - 1]

Emitted(log, number, run, count) ==
  \E place \in [1..count -> DOMAIN log] :
    /\ \A j, k \in 1..count : j < k => place[j] < place[k]
    /\ By(log, number) = {place[k] : k \in 1..count}
    /\ \A k \in 1..count : IsOf(log[place[k]], run, k)

LEMMA EmittedNothing ==
  ASSUME NEW log \in Seq(Events), NEW number, NEW run, By(log, number) = {}
  PROVE  Emitted(log, number, run, 0)
<1> DEFINE place == [k \in 1..0 |-> 1]
<1>1. place \in [1..0 -> DOMAIN log] /\ {place[k] : k \in 1..0} = {}
  OBVIOUS
<1> QED
  BY <1>1 DEF Emitted

(* Another request's event changes nothing. *)
LEMMA EmittedStays ==
  ASSUME NEW log \in Seq(Events), NEW number, NEW run, NEW count \in Nat, NEW event \in Events,
         event.by # number, Emitted(log, number, run, count)
  PROVE  Emitted(Append(log, event), number, run, count)
<1> DEFINE longer == Append(log, event)
<1>1. /\ DOMAIN longer = DOMAIN log \cup {Len(log) + 1}
      /\ longer[Len(log) + 1] = event
      /\ \A i \in DOMAIN log : longer[i] = log[i]
  OBVIOUS
<1>2. PICK place \in [1..count -> DOMAIN log] :
        /\ \A j, k \in 1..count : j < k => place[j] < place[k]
        /\ By(log, number) = {place[k] : k \in 1..count}
        /\ \A k \in 1..count : IsOf(log[place[k]], run, k)
  BY DEF Emitted
<1> HIDE DEF longer
<1>3. By(longer, number) = By(log, number)
  BY <1>1 DEF By
<1>4. place \in [1..count -> DOMAIN longer]
  BY <1>1
<1>5. \A k \in 1..count : IsOf(longer[place[k]], run, k)
  BY <1>1, <1>2
<1> QED
  BY <1>2, <1>3, <1>4, <1>5 DEF Emitted, longer

(* The run's next event comes after its others. *)
LEMMA EmittedNext ==
  ASSUME NEW log \in Seq(Events), NEW number, NEW run, NEW count \in Nat, NEW event \in Events,
         event.by = number, IsOf(event, run, count + 1), Emitted(log, number, run, count)
  PROVE  Emitted(Append(log, event), number, run, count + 1)
<1> DEFINE longer == Append(log, event)
           end == Len(log) + 1
<1>1. /\ DOMAIN longer = DOMAIN log \cup {end} /\ longer[end] = event
      /\ \A i \in DOMAIN log : longer[i] = log[i] /\ i \in Nat /\ i < end
  OBVIOUS
<1>2. PICK place \in [1..count -> DOMAIN log] :
        /\ \A j, k \in 1..count : j < k => place[j] < place[k]
        /\ By(log, number) = {place[k] : k \in 1..count}
        /\ \A k \in 1..count : IsOf(log[place[k]], run, k)
  BY DEF Emitted
<1> DEFINE more == [k \in 1..(count + 1) |-> IF k = count + 1 THEN end ELSE place[k]]
<1> HIDE DEF longer, end
<1>3. /\ more \in [1..(count + 1) -> DOMAIN longer]
      /\ more[count + 1] = end
      /\ \A k \in 1..count : more[k] = place[k] /\ place[k] \in DOMAIN log
  BY <1>1
<1>4. \A k \in 1..(count + 1) : k = count + 1 \/ k \in 1..count
  OBVIOUS
<1> HIDE DEF more
<1>5. \A j, k \in 1..(count + 1) : j < k => more[j] < more[k]
  <2> SUFFICES ASSUME NEW j \in 1..(count + 1), NEW k \in 1..(count + 1), j < k
               PROVE  more[j] < more[k]
    OBVIOUS
  <2>1. j \in 1..count
    OBVIOUS
  <2>2. CASE k = count + 1
    BY <1>1, <1>3, <2>1, <2>2
  <2>3. CASE k \in 1..count
    BY <1>2, <1>3, <2>1, <2>3
  <2> QED
    BY <1>4, <2>2, <2>3
<1>6. By(longer, number) = By(log, number) \cup {end}
  BY <1>1 DEF By
<1>7. By(longer, number) = {more[k] : k \in 1..(count + 1)}
  BY <1>2, <1>3, <1>4, <1>6
<1>8. \A k \in 1..(count + 1) : IsOf(longer[more[k]], run, k)
  BY <1>1, <1>2, <1>3, <1>4
<1> QED
  BY <1>3, <1>5, <1>7, <1>8 DEF Emitted, longer

LEMMA LesserOfTwo ==
  ASSUME NEW a \in Nat, NEW b \in Nat, b <= a
  PROVE  Min({a, b}) = b
<1> DEFINE S == {a, b}
<1>1. b \in S /\ \A y \in S : b <= y
  OBVIOUS
<1>2. \A x \in S : (\A y \in S : x <= y) => x = b
  OBVIOUS
<1>3. Min(S) \in S /\ \A y \in S : Min(S) <= y
  <2> HIDE DEF S
  <2> QED
    BY <1>1, Zenon DEF Min
<1> QED
  BY <1>2, <1>3

LEMMA UpTo ==
  ASSUME NEW n \in Nat
  PROVE  Cardinality(1..n) = n /\ IsFiniteSet(1..n)
<1>1. IsFiniteSet(1..n) /\ Cardinality(1..n) = IF 1 > n THEN 0 ELSE n - 1 + 1
  BY FS_Interval
<1> QED
  BY <1>1

(* A run that is on a timeline as a whole is shown, if the page holds the
   timeline. *)
LEMMA EmittedIsShown ==
  ASSUME TypeInv, NEW run \in [serial : Nat, steps : Seq(Steps)], Len(Log) <= PageLimit,
         Emitted(Log, run.serial, run.steps, Len(run.steps) + 1)
  PROVE  IsShown(CaseKey, run)
<1> DEFINE n == Len(run.steps) + 1
           own == By(Log, run.serial)
           Before(i) == {j \in own : j < i}
<1>1. n \in Nat /\ n >= 1 /\ Log \in Seq(Events) /\ PageLimit \in Nat
  BY DeskAssumption DEF TypeInv, TypeOK, Log, Keys
<1>2. PICK place \in [1..n -> DOMAIN Log] :
        /\ \A j, k \in 1..n : j < k => place[j] < place[k]
        /\ own = {place[k] : k \in 1..n}
        /\ \A k \in 1..n : IsOf(Log[place[k]], run.steps, k)
  BY DEF Emitted
<1>3. Shown(CaseKey) = Log
  <2>1. Log # << >>
    BY <1>1, <1>2
  <2>2. Len(Log) \in Nat /\ SubSeq(Log, 1, Len(Log)) = Log
    BY <1>1
  <2>3. Min({PageLimit, Len(Log)}) = Len(Log)
    BY <1>1, <2>2, LesserOfTwo
  <2> QED
    BY <2>1, <2>2, <2>3 DEF Shown, Log
<1> HIDE DEF n, own
<1>4. \A k \in 1..n : place[k] \in Nat
  BY <1>1, <1>2
<1>5. \A j, k \in 1..n : place[j] < place[k] => j < k
  <2> SUFFICES ASSUME NEW j \in 1..n, NEW k \in 1..n, place[j] < place[k], ~(j < k)
               PROVE  FALSE
    OBVIOUS
  <2>1. k < j \/ k = j
    BY <1>1
  <2> QED
    BY <1>2, <1>4, <2>1
<1>6. \A k \in 1..n : Cardinality(Before(place[k])) = k - 1
  <2> SUFFICES ASSUME NEW k \in 1..n PROVE Cardinality(Before(place[k])) = k - 1
    OBVIOUS
  <2> DEFINE f == [j \in 1..(k - 1) |-> place[j]]
  <2>1. \A j \in 1..(k - 1) : j \in 1..n /\ j < k /\ j \in Nat
    BY <1>1
  <2>2. \A j \in 1..n : j < k => j \in 1..(k - 1)
    BY <1>1
  <2>3. \A j \in 1..(k - 1) : f[j] \in Before(place[k])
    BY <1>2, <2>1
  <2>4. \A i \in Before(place[k]) : \E j \in 1..(k - 1) : f[j] = i
    BY <1>2, <1>5, <2>2
  <2>5. \A i, j \in 1..(k - 1) : f[i] = f[j] => i = j
    <3> SUFFICES ASSUME NEW i \in 1..(k - 1), NEW j \in 1..(k - 1), place[i] = place[j], i # j
                 PROVE  FALSE
      OBVIOUS
    <3>1. i < j \/ j < i
      BY <2>1
    <3> QED
      BY <1>2, <1>4, <2>1, <3>1
  <2>6. f \in Bijection(1..(k - 1), Before(place[k]))
    BY <2>3, <2>4, <2>5, Fun_IsBij
  <2>7. Cardinality(1..(k - 1)) = k - 1 /\ IsFiniteSet(1..(k - 1))
    <3>1. k - 1 \in Nat
      BY <1>1
    <3> QED
      BY <3>1, UpTo
  <2> QED
    BY <2>6, <2>7, FS_Bijection DEF ExistsBijection
<1>7. Cardinality(own) = n
  <2>1. place \in Bijection(1..n, own)
    <3>1. \A i, j \in 1..n : place[i] = place[j] => i = j
      <4> SUFFICES ASSUME NEW i \in 1..n, NEW j \in 1..n, place[i] = place[j], i # j
                   PROVE  FALSE
        OBVIOUS
      <4>1. i < j \/ j < i
        BY <1>1
      <4> QED
        BY <1>2, <1>4, <4>1
    <3>2. place \in [1..n -> own]
      BY <1>2
    <3>3. \A i \in own : \E k \in 1..n : place[k] = i
      BY <1>2
    <3> QED
      BY <3>1, <3>2, <3>3, Fun_IsBij
  <2>2. Cardinality(1..n) = n /\ IsFiniteSet(1..n)
    BY <1>1, UpTo
  <2> QED
    BY <2>1, <2>2, FS_Bijection DEF ExistsBijection
<1>8. \A i \in own :
        IF Cardinality(Before(i)) = 0 THEN Log[i].type = Complete
        ELSE Log[i].what = run.steps[Cardinality(Before(i))]
  <2> SUFFICES ASSUME NEW k \in 1..n
               PROVE  IF k - 1 = 0 THEN Log[place[k]].type = Complete
                      ELSE Log[place[k]].what = run.steps[k - 1]
    BY <1>2, <1>6
  <2> QED
    BY <1>1, <1>2 DEF IsOf
<1> QED
  BY <1>3, <1>7, <1>8 DEF IsShown, own, By, n

(* The numbers of the requests: each request under way has its own, which no
   run that was answered has, unless it is its own. *)
Numbered ==
  /\ \A i \in DOMAIN Log : Log[i].by <= requests
  /\ \A r \in told : r \in [serial : Nat, steps : Seq(Steps)] /\ r.serial <= requests
  /\ \A t \in Active : serial[t] > 0 /\ serial[t] <= requests
  /\ \A t, u \in Active : t # u => serial[t] # serial[u]
  /\ \A t \in Active : pc[t] # "done" => \A r \in told : r.serial # serial[t]
  /\ \A t \in Threads : pc[t] \in {"emit", "sink"} =>
       \A i \in DOMAIN todo[t] : todo[t][i].event.by = serial[t]

(* A request that has not been heard of on the timeline of the case. *)
Unheard(t) == By(Log, serial[t]) = {}

(* The k-th event of a run. *)
RunEvent(t, k) ==
  [key |-> CaseKey,
   event |-> IF k = 1 THEN Event("investigation_complete", arg[t], serial[t])
             ELSE Event("investigation_step", steps[t][k - 1], serial[t])]

(* Its first events are on the timeline, the others are still to come. *)
InRun(t) ==
  \E count \in Nat :
    /\ count + Len(todo[t]) = Len(steps[t]) + 1
    /\ \A i \in DOMAIN todo[t] : todo[t][i] = RunEvent(t, count + i)
    /\ Emitted(Log, serial[t], steps[t], count)

Announces(t) ==
  /\ Len(todo[t]) = 1 /\ Head(todo[t]).key # CaseKey
  /\ Head(todo[t]).event.type = "investigation_start"
  /\ Unheard(t)

OffTheCase(t) == op[t] \in Swaps /\ \A i \in DOMAIN todo[t] : todo[t][i].key # CaseKey

(* How far each request has come. *)
Heard(t) ==
  /\ pc[t] \in {"investigate", "file", "details", "present"} => Unheard(t)
  /\ pc[t] \in {"emit", "sink"} =>
       \/ OffTheCase(t)
       \/ op[t] = "start" /\ Announces(t)
       \/ op[t] = "start" /\ InRun(t)

ToldInFull == \A r \in told : Emitted(Log, r.serial, r.steps, Len(r.steps) + 1)

LogInv == faults = 0 => ToldInFull /\ \A t \in Threads : Heard(t)

(* The log grows by what is persisted there, and by nothing else. *)
LEMMA LogMoves ==
  ASSUME TypeInv, NEW t \in Threads, Work(t) \/ Arrive(t)
  PROVE  \/ Log' = Log
         \/ Persist(t) /\ Head(todo[t]).key = CaseKey /\ Log' = Append(Log, Head(todo[t]).event)
<1>1. CaseKey \in Keys /\ CaseKey # DemoKey
  BY DeskAssumption DEF Keys
<1>2. CASE Persist(t)
  <2> DEFINE e == Head(todo[t])
  <2>1. e.key \in Keys
    BY <1>2, NextEvent DEF Persist
  <2>2. persisted' = [persisted EXCEPT ![e.key] = Append(@, e.event)]
    BY <1>2 DEF Persist
  <2> HIDE DEF e
  <2>3. persisted'[CaseKey]
          = IF e.key = CaseKey THEN Append(persisted[CaseKey], e.event) ELSE persisted[CaseKey]
    BY <1>1, <2>1, <2>2 DEF TypeInv, TypeOK
  <2> QED
    BY <1>2, <2>3 DEF Log, e
<1>3. CASE Forget(t)
  BY <1>1, <1>3 DEF Forget, TypeInv, TypeOK, Log
<1>4. CASE Record(t) \/ Lose(t) \/ Present(t) \/ ClearMemory(t) \/ UNCHANGED logs
  BY <1>4 DEF Record, Lose, Present, ClearMemory, ForgetEvents, logs, Log
<1> QED
  BY <1>2, <1>3, <1>4, TimelinesMove

(* The runs that are answered. *)
LEMMA ToldMoves ==
  ASSUME TypeInv, NEW t \in Threads, Work(t) \/ Arrive(t)
  PROVE  \/ told' = told
         \/ /\ Persist(t) \/ Lose(t)
            /\ pc[t] = "sink" /\ pc'[t] = "done"
            /\ op[t] = "start" /\ Len(todo[t]) = 1
            /\ Head(todo[t]).event.type # "investigation_start"
            /\ told' = told \cup {[serial |-> serial[t], steps |-> steps[t]]}
<1>1. CASE Arrive(t) \/ Respond(t)
  BY <1>1 DEF Arrive, AskStart, AskQuestion, AskSwap, Ask, Respond
<1>2. CASE Record(t)
  BY <1>2 DEF Record
<1>3. CASE Persist(t) \/ Lose(t)
  <2>1. told' = told \cup Told(t) /\ pc[t] = "sink" /\ Proceed(t)
    BY <1>3 DEF Persist, Lose
  <2>2. CASE Told(t) = {}
    BY <2>1, <2>2
  <2>3. CASE Told(t) # {}
    <3>1. /\ op[t] = "start" /\ Len(todo[t]) = 1
          /\ Head(todo[t]).event.type # "investigation_start"
          /\ Told(t) = {[serial |-> serial[t], steps |-> steps[t]]}
      BY <2>3 DEF Told
    <3>2. pc'[t] = "done"
      BY <2>1, <3>1 DEF Proceed, Return, Goto, TypeInv, TypeOK
    <3> QED
      BY <1>3, <2>1, <3>1, <3>2
  <2> QED
    BY <2>2, <2>3
<1>4. CASE Start(t)
  BY <1>4 DEF Start, LeadNotFound, Replay, Investigate, File, FileFails, ReadBack, NothingToReadBack,
              Present, Fail
<1>5. CASE Question(t)
  BY <1>5 DEF Question, ReadEvidence, CaseNotFound, ReadSteps, PersistQuestion, PersistQuestionFails, Fail
<1>6. CASE Swap(t)
  BY <1>6 DEF Swap, DeleteQuestions, Forget, ForgetFails, Purge, PurgeFails, EnsureCase, Reseed,
              ReseedFails, Surface, SurfaceFails, ClearDesk, ClearMemory, Fail
<1> QED
  BY <1>1, <1>2, <1>3, <1>4, <1>5, <1>6 DEF Work

(* The number of a request is given when it is asked. *)
LEMMA NumberMoves ==
  ASSUME TypeInv, NEW t \in Threads, Work(t) \/ Arrive(t)
  PROVE  \/ Arrive(t) /\ pc[t] = "idle" /\ requests' = requests + 1 /\ serial'[t] = requests'
         \/ Respond(t) /\ pc'[t] = "idle" /\ requests' = requests
         \/ UNCHANGED <<requests, serial>> /\ pc[t] \notin {"idle", "done"}
<1>1. CASE Arrive(t)
  BY <1>1 DEF Arrive, AskStart, AskQuestion, AskSwap, Ask, TypeInv, TypeOK
<1>2. CASE Respond(t)
  BY <1>2, RespondFacts DEF Respond
<1>3. CASE Work(t) /\ ~Respond(t)
  BY <1>3, WorkFacts DEF Quiet
<1> QED
  BY <1>1, <1>2, <1>3

(* The events of a run, one by one. *)
LEMMA EventsOfRunAre ==
  ASSUME TypeInv, NEW t \in Threads, arg[t] \in Leads
  PROVE  /\ Len(EventsOfRun(t)) = Len(steps[t]) + 1
         /\ \A i \in DOMAIN EventsOfRun(t) : EventsOfRun(t)[i] = RunEvent(t, i)
<1> DEFINE first == [key |-> CaseKey, event |-> Event("investigation_complete", arg[t], serial[t])]
           rest(i) == [key |-> CaseKey, event |-> Event("investigation_step", steps[t][i], serial[t])]
           s == steps[t]
           others == [i \in DOMAIN s |-> rest(i)]
<1>1. s \in Seq(Steps)
  BY DEF TypeInv, TypeOK
<1>2. EventsOfRun(t) = <<first>> \o others
  BY Zenon DEF EventsOfRun
<1>3. RunEvent(t, 1) = first /\ \A i \in DOMAIN s : RunEvent(t, i + 1) = rest(i)
  <2>1. \A i \in DOMAIN s : i + 1 # 1 /\ (i + 1) - 1 = i
    BY <1>1
  <2> QED
    BY <2>1 DEF RunEvent
<1> HIDE DEF first, rest, s
<1>4. others \in Seq({rest(i) : i \in DOMAIN s}) /\ Len(others) = Len(s) /\ Len(s) \in Nat
        /\ \A i \in DOMAIN s : others[i] = rest(i)
  BY <1>1
<1> HIDE DEF others
<1>5. /\ Len(<<first>> \o others) = Len(s) + 1
      /\ \A i \in 1..(Len(s) + 1) :
           (<<first>> \o others)[i] = IF i = 1 THEN first ELSE others[i - 1]
      /\ DOMAIN (<<first>> \o others) = 1..(Len(s) + 1)
  BY <1>4
<1>6. \A i \in 1..(Len(s) + 1) : i = 1 \/ (i - 1 \in DOMAIN s /\ i = (i - 1) + 1)
  BY <1>1
<1>7. \A i \in 1..(Len(s) + 1) : RunEvent(t, i) = IF i = 1 THEN first ELSE rest(i - 1)
  BY <1>3, <1>6
<1> QED
  BY <1>2, <1>4, <1>5, <1>6, <1>7 DEF s

(* How a request comes to have an event to emit. *)
LEMMA EmitMoves ==
  ASSUME TypeInv, NEW t \in Threads, Work(t) \/ Arrive(t), pc'[t] \in {"emit", "sink"}
  PROVE  \/ /\ Arrive(t) /\ op'[t] = "start"
            /\ \E l \in Leads : todo'[t] = <<[key |-> l, event |-> Event("investigation_start", l, requests')]>>
         \/ /\ Record(t) /\ pc[t] = "emit" /\ todo' = todo /\ UNCHANGED steps /\ Quiet
         \/ /\ Persist(t) \/ Lose(t)
            /\ pc[t] = "sink" /\ todo'[t] = Tail(todo[t]) /\ Len(todo[t]) > 1 /\ UNCHANGED steps /\ Quiet
         \/ /\ Present(t) /\ pc[t] = "present" /\ todo'[t] = EventsOfRun(t)
            /\ op[t] = "start" /\ arg[t] \in Leads /\ UNCHANGED steps /\ Quiet
         \/ /\ ClearDesk(t) \/ ClearMemory(t)
            /\ op[t] \in Swaps /\ todo'[t] = <<DemoEvent(t)>> /\ Quiet
<1>1. CASE Arrive(t)
  <2>1. ~AskQuestion(t) /\ ~AskSwap(t)
    BY DEF AskQuestion, AskSwap, Goto, TypeInv, TypeOK
  <2>2. PICK l \in Investigated :
          Ask(t, "start", l)
          /\ Emitting(t, <<[key |-> l, event |-> Event("investigation_start", l, requests')]>>)
    BY <1>1, <2>1 DEF Arrive, AskStart
  <2>3. op'[t] = "start"
    BY <2>2 DEF Ask, TypeInv, TypeOK
  <2>4. todo'[t] = <<[key |-> l, event |-> Event("investigation_start", l, requests')]>>
    BY <2>2, Zenon DEF Emitting, TypeInv, TypeOK
  <2> QED
    BY <1>1, <2>3, <2>4, DeskAssumption
<1>2. CASE Record(t)
  BY <1>2 DEF Record, locals
<1>3. CASE Persist(t) \/ Lose(t)
  <2>1. Proceed(t) /\ pc[t] = "sink" /\ Quiet /\ UNCHANGED steps
    BY <1>3 DEF Persist, Lose
  <2>2. todo'[t] = Tail(todo[t])
    BY <2>1 DEF Proceed, TypeInv, TypeOK
  <2>3. Len(todo[t]) > 1
    BY <2>1 DEF Proceed, Return, Goto, TypeInv, TypeOK
  <2> QED
    BY <1>3, <2>1, <2>2, <2>3
<1>4. CASE Present(t)
  <2>1. op[t] = "start" /\ arg[t] \in Leads
    BY <1>4 DEF TypeInv, InHand, Fits, Present
  <2>2. todo'[t] = EventsOfRun(t)
    BY <1>4, Zenon DEF Present, Emitting, TypeInv, TypeOK
  <2> QED
    BY <1>4, <2>1, <2>2 DEF Present
<1>5. CASE ClearDesk(t) \/ ClearMemory(t)
  <2>1. op[t] \in Swaps /\ Quiet
    BY <1>5 DEF TypeInv, InHand, Fits, ClearDesk, ClearMemory
  <2>2. Emitting(t, <<DemoEvent(t)>>)
    BY <1>5 DEF ClearDesk, ClearMemory, Return, Goto, TypeInv, TypeOK
  <2>3. todo'[t] = <<DemoEvent(t)>>
    BY <2>2, Zenon DEF Emitting, TypeInv, TypeOK
  <2> QED
    BY <1>5, <2>1, <2>3
<1>6. ~Respond(t)
  BY RespondFacts
<1>7. ~(Start(t) /\ ~Present(t))
  BY DEF TypeInv, TypeOK, Start, LeadNotFound, Replay, Investigate, File, FileFails, ReadBack,
         NothingToReadBack, Fail, Return, Goto
<1>8. ~Question(t)
  BY DEF TypeInv, TypeOK, Question, ReadEvidence, CaseNotFound, ReadSteps, PersistQuestion,
         PersistQuestionFails, Fail, Return, Goto
<1>9. ~DeleteQuestions(t)
  BY DeletedTo DEF TypeInv, TypeOK
<1>10. ~(Swap(t) /\ ~DeleteQuestions(t) /\ ~ClearDesk(t) /\ ~ClearMemory(t))
  BY DEF TypeInv, TypeOK, Swap, Forget, ForgetFails, Purge, PurgeFails, EnsureCase, Reseed,
         ReseedFails, Surface, SurfaceFails, Fail, Return, Goto
<1> QED
  BY <1>1, <1>2, <1>3, <1>4, <1>5, <1>6, <1>7, <1>8, <1>9, <1>10 DEF Work, Swap

(* A start that investigates has announced itself, and then emits nothing
   until it presents its run. *)
LEMMA StartMoves ==
  ASSUME TypeInv, NEW t \in Threads, Work(t) \/ Arrive(t),
         pc'[t] \in {"investigate", "file", "details", "present"}
  PROVE  /\ UNCHANGED serial
         /\ \/ pc[t] \in {"investigate", "file", "details", "present"} /\ ~Persist(t) /\ ~Lose(t)
            \/ /\ Persist(t) \/ Lose(t)
               /\ pc[t] = "sink" /\ Len(todo[t]) <= 1
               /\ Head(todo[t]).event.type = "investigation_start"
<1>1. ~Arrive(t)
  BY DEF Arrive, AskStart, AskQuestion, AskSwap, Emitting, Goto, TypeInv, TypeOK
<1>2. CASE Persist(t) \/ Lose(t)
  <2>1. Proceed(t) /\ pc[t] = "sink" /\ UNCHANGED serial
    BY <1>2 DEF Persist, Lose, Quiet
  <2>2. Head(todo[t]).event.type = "investigation_start" /\ ~(Len(todo[t]) > 1)
    BY <2>1 DEF Proceed, Return, Goto, TypeInv, TypeOK
  <2>3. Len(todo[t]) \in Nat
    BY DEF TypeInv, TypeOK
  <2> QED
    BY <1>2, <2>1, <2>2, <2>3
<1>3. CASE Start(t)
  BY <1>3 DEF TypeInv, TypeOK, Start, LeadNotFound, Replay, Investigate, File, FileFails, ReadBack,
              NothingToReadBack, Present, Fail, Quiet, Persist, Lose
<1>4. ~Record(t) /\ ~Respond(t)
  BY RespondFacts DEF Record, Goto, TypeInv, TypeOK
<1>5. ~Question(t)
  BY DEF TypeInv, TypeOK, Question, ReadEvidence, CaseNotFound, ReadSteps, PersistQuestion,
         PersistQuestionFails, Fail, Return, Goto
<1>6. ~DeleteQuestions(t)
  BY DeletedTo DEF TypeInv, TypeOK
<1>7. ~(Swap(t) /\ ~DeleteQuestions(t))
  BY DEF TypeInv, TypeOK, Swap, Forget, ForgetFails, Purge, PurgeFails, EnsureCase, Reseed,
         ReseedFails, Surface, SurfaceFails, ClearDesk, ClearMemory, Emitting, Fail, Return, Goto
<1> QED
  BY <1>1, <1>2, <1>3, <1>4, <1>5, <1>6, <1>7 DEF Work

LEMMA NumberedStep ==
  ASSUME TypeInv, Numbered, NEW t \in Threads, Work(t) \/ Arrive(t)
  PROVE  Numbered'
<1>1. /\ requests \in Nat /\ requests' \in Nat /\ requests <= requests'
      /\ \A u \in Threads : serial[u] \in Nat
  <2>1. requests \in Nat /\ \A u \in Threads : serial[u] \in Nat
    BY DeskAssumption DEF TypeInv, TypeOK
  <2>2. requests' = requests + 1 \/ requests' = requests
    BY NumberMoves
  <2> QED
    BY <2>1, <2>2
<1>2. \A u \in Threads \ {t} : pc'[u] = pc[u] /\ serial'[u] = serial[u] /\ todo'[u] = todo[u]
  BY OthersStay
<1>3. (\A i \in DOMAIN Log : Log[i].by <= requests)'
  <2>1. CASE Log' = Log
    <3>1. Log \in Seq(Events)
      BY DEF TypeInv, TypeOK, Log, Keys
    <3>2. \A i \in DOMAIN Log : Log[i] \in Events
      BY <3>1
    <3>3. \A i \in DOMAIN Log : Log[i].by \in Nat /\ Log[i].by <= requests
      BY <3>2 DEF Events, Numbered
    <3>4. \A i \in DOMAIN Log : Log[i].by <= requests'
      BY <1>1, <3>3
    <3> QED
      BY <2>1, <3>4
  <2>2. CASE Persist(t) /\ Head(todo[t]).key = CaseKey /\ Log' = Append(Log, Head(todo[t]).event)
    <3> DEFINE event == Head(todo[t]).event
    <3>1. pc[t] = "sink" /\ Head(todo[t]) = todo[t][1] /\ 1 \in DOMAIN todo[t]
      BY <2>2, NextEvent DEF Persist
    <3>2. event.by = serial[t]
      BY <3>1 DEF Numbered
    <3>3. serial[t] <= requests
      BY <3>1 DEF Numbered, Active
    <3>4. Log \in Seq(Events)
      BY DEF TypeInv, TypeOK, Log, Keys
    <3>5. \A i \in DOMAIN Log : Log[i].by \in Nat
      <4>1. \A i \in DOMAIN Log : Log[i] \in Events
        BY <3>4
      <4> QED
        BY <4>1 DEF Events
    <3> HIDE DEF event
    <3>6. \A i \in DOMAIN Append(Log, event) :
            \/ i \in DOMAIN Log /\ Append(Log, event)[i] = Log[i]
            \/ Append(Log, event)[i] = event
      BY <3>4
    <3>7. Log' = Append(Log, event)
      BY <2>2 DEF event
    <3>8. \A i \in DOMAIN Log' : Log'[i].by <= requests'
      BY <1>1, <3>2, <3>3, <3>5, <3>6, <3>7 DEF Numbered
    <3> QED
      BY <3>8
  <2> QED
    BY <2>1, <2>2, LogMoves
<1>4. \A r \in told' : r \in [serial : Nat, steps : Seq(Steps)] /\ r.serial <= requests'
  <2>1. \A r \in told : r \in [serial : Nat, steps : Seq(Steps)] /\ r.serial <= requests
    BY DEF Numbered
  <2>2. pc[t] = "sink" =>
          /\ [serial |-> serial[t], steps |-> steps[t]] \in [serial : Nat, steps : Seq(Steps)]
          /\ [serial |-> serial[t], steps |-> steps[t]].serial <= requests
    BY DEF Numbered, Active, TypeInv, TypeOK
  <2>3. \A r \in told' :
          \/ r \in told
          \/ pc[t] = "sink" /\ r = [serial |-> serial[t], steps |-> steps[t]]
    BY ToldMoves
  <2> QED
    BY <1>1, <2>1, <2>2, <2>3
<1>5. \A u \in Active' : serial'[u] > 0 /\ serial'[u] <= requests'
  <2>1. \A u \in Active : serial[u] > 0 /\ serial[u] <= requests
    BY DEF Numbered
  <2> QED
    BY <1>1, <1>2, <2>1, NumberMoves DEF Active
<1>6. \A u, v \in Active' : u # v => serial'[u] # serial'[v]
  <2>1. \A u, v \in Active : u # v => serial[u] # serial[v]
    BY DEF Numbered
  <2>2. \A u \in Active : serial[u] <= requests
    BY DEF Numbered
  <2>3. \A u \in Active' \ {t} : u \in Active /\ serial'[u] = serial[u]
    BY <1>2 DEF Active
  <2>4. \A u \in Active' \ {t} : t \in Active' => serial'[u] # serial'[t]
    <3> SUFFICES ASSUME NEW u \in Active' \ {t}, t \in Active' PROVE serial'[u] # serial'[t]
      OBVIOUS
    <3>1. u \in Threads
      BY DEF Active
    <3>2. CASE requests' = requests + 1 /\ serial'[t] = requests'
      BY <1>1, <2>2, <2>3, <3>1, <3>2
    <3>3. CASE UNCHANGED serial /\ pc[t] # "idle"
      BY <2>1, <2>3, <3>3 DEF Active
    <3> QED
      BY <3>2, <3>3, NumberMoves DEF Active
  <2> QED
    BY <2>1, <2>3, <2>4
<1>7. \A u \in Active' : pc'[u] # "done" => \A r \in told' : r.serial # serial'[u]
  <2> SUFFICES ASSUME NEW u \in Active', pc'[u] # "done", NEW r \in told', r.serial = serial'[u]
               PROVE  FALSE
    OBVIOUS
  <2>1. u \in Threads
    BY DEF Active
  <2>2. \A x \in told : x.serial <= requests /\ x.serial \in Nat
    BY DEF Numbered
  <2>3. CASE r \in told
    <3>1. CASE u = t /\ requests' = requests + 1 /\ serial'[t] = requests'
      BY <1>1, <2>2, <2>3, <3>1
    <3>2. CASE u = t /\ UNCHANGED serial /\ pc[t] \notin {"idle", "done"}
      BY <2>3, <3>2 DEF Numbered, Active
    <3>3. CASE u # t
      BY <1>2, <2>3, <2>1, <3>3 DEF Numbered, Active
    <3> QED
      BY <2>1, <3>1, <3>2, <3>3, NumberMoves DEF Active
  <2>4. CASE r \notin told
    <3>1. /\ pc[t] = "sink" /\ pc'[t] = "done" /\ r = [serial |-> serial[t], steps |-> steps[t]]
      BY <2>4, ToldMoves
    <3>2. u # t /\ u \in Active /\ t \in Active
      BY <1>2, <2>1, <3>1 DEF Active
    <3>3. serial'[u] = serial[u] /\ r.serial = serial[t]
      BY <1>2, <2>1, <3>1, <3>2
    <3> QED
      BY <3>2, <3>3 DEF Numbered
  <2> QED
    BY <2>3, <2>4
<1>8. \A u \in Threads : pc'[u] \in {"emit", "sink"} =>
        \A i \in DOMAIN todo'[u] : todo'[u][i].event.by = serial'[u]
  <2>1. \A u \in Threads \ {t} : pc'[u] \in {"emit", "sink"} =>
          \A i \in DOMAIN todo'[u] : todo'[u][i].event.by = serial'[u]
    BY <1>2 DEF Numbered
  <2> SUFFICES ASSUME pc'[t] \in {"emit", "sink"}, NEW i \in DOMAIN todo'[t]
               PROVE  todo'[t][i].event.by = serial'[t]
    BY <2>1
  <2>2. CASE Arrive(t)
    <3>1. PICK l \in Leads : todo'[t] = <<[key |-> l, event |-> Event("investigation_start", l, requests')]>>
      BY <2>2, EmitMoves DEF Record, Persist, Lose, Present, ClearDesk, ClearMemory, Arrive, AskStart,
                             AskQuestion, AskSwap, Ask
    <3>2. serial'[t] = requests'
      BY <2>2, NumberMoves, RespondFacts DEF Arrive, AskStart, AskQuestion, AskSwap, Ask
    <3> QED
      BY <3>1, <3>2 DEF Event
  <2>3. CASE Record(t) /\ pc[t] = "emit" /\ todo' = todo /\ Quiet
    BY <2>3 DEF Numbered, Quiet
  <2>4. CASE pc[t] = "sink" /\ todo'[t] = Tail(todo[t]) /\ Quiet
    BY <2>4, NextEvent DEF Numbered, Quiet
  <2>5. CASE todo'[t] = EventsOfRun(t) /\ arg[t] \in Leads /\ Quiet
    BY <2>5, EventsOfRunAre DEF RunEvent, Event, Quiet
  <2>6. CASE todo'[t] = <<DemoEvent(t)>> /\ Quiet
    BY <2>6 DEF DemoEvent, Event, Quiet
  <2> QED
    BY <2>2, <2>3, <2>4, <2>5, <2>6, EmitMoves
<1> QED
  BY <1>3, <1>4, <1>5, <1>6, <1>7, <1>8 DEF Numbered

(* Who appends what to the timeline of the case. *)
LEMMA LogIsWritten ==
  ASSUME TypeInv, Numbered, NEW t \in Threads, Work(t) \/ Arrive(t)
  PROVE  \/ Log' = Log /\ ~(Persist(t) /\ Head(todo[t]).key = CaseKey)
         \/ /\ Persist(t) /\ pc[t] = "sink" /\ t \in Active
            /\ Head(todo[t]).key = CaseKey
            /\ Head(todo[t]).event \in Events /\ Head(todo[t]).event.by = serial[t]
            /\ Log' = Append(Log, Head(todo[t]).event)
<1>1. CaseKey \in Keys
  BY DEF Keys
<1>2. CASE Persist(t) /\ Head(todo[t]).key = CaseKey
  <2> DEFINE e == Head(todo[t])
  <2>1. e.event \in Events /\ e = todo[t][1] /\ 1 \in DOMAIN todo[t]
    BY <1>2, NextEvent DEF Persist
  <2>2. persisted' = [persisted EXCEPT ![CaseKey] = Append(@, e.event)]
    BY <1>2 DEF Persist
  <2>3. Log' = Append(Log, e.event)
    <3> HIDE DEF e
    <3> QED
      BY <1>1, <2>2 DEF TypeInv, TypeOK, Log
  <2>4. e.event.by = serial[t]
    BY <1>2, <2>1 DEF Numbered, Persist
  <2> QED
    BY <1>2, <2>1, <2>3, <2>4 DEF Persist, Active
<1>3. CASE ~(Persist(t) /\ Head(todo[t]).key = CaseKey)
  BY <1>3, LogMoves
<1> QED
  BY <1>2, <1>3

LEMMA LogIsEvents == ASSUME TypeInv PROVE Log \in Seq(Events)
  BY DEF TypeInv, TypeOK, Log, Keys

(* What another request writes is nobody else's. *)
LEMMA OthersAreHeardAsBefore ==
  ASSUME TypeInv, Numbered, NEW t \in Threads, Work(t) \/ Arrive(t), NEW number,
         pc[t] = "sink" => number # serial[t]
  PROVE  /\ By(Log, number) = {} => By(Log, number)' = {}
         /\ \A run : \A count \in Nat : Emitted(Log, number, run, count) => Emitted(Log, number, run, count)'
<1>1. CASE Log' = Log
  BY <1>1, Zenon DEF By, Emitted
<1>2. CASE Log' # Log
  <2> DEFINE event == Head(todo[t]).event
  <2>1. event \in Events /\ event.by # number /\ Log' = Append(Log, event)
    BY <1>2, LogIsWritten
  <2>2. Log \in Seq(Events)
    BY LogIsEvents
  <2> HIDE DEF event
  <2>3. By(Log, number) = {} => By(Append(Log, event), number) = {}
    <3>1. \A i \in DOMAIN Append(Log, event) :
            \/ i \in DOMAIN Log /\ Append(Log, event)[i] = Log[i]
            \/ Append(Log, event)[i] = event
      BY <2>2
    <3> QED
      BY <2>1, <3>1 DEF By
  <2>4. \A run : \A count \in Nat :
          Emitted(Log, number, run, count) => Emitted(Append(Log, event), number, run, count)
    BY <2>1, <2>2, EmittedStays
  <2> QED
    BY <2>1, <2>3, <2>4
<1> QED
  BY <1>1, <1>2

LEMMA OthersHeard ==
  ASSUME TypeInv, Numbered, NEW t \in Threads, Work(t) \/ Arrive(t), NEW u \in Threads \ {t}, Heard(u)
  PROVE  Heard(u)'
<1>1. /\ pc'[u] = pc[u] /\ op'[u] = op[u] /\ serial'[u] = serial[u]
      /\ todo'[u] = todo[u] /\ steps'[u] = steps[u] /\ arg'[u] = arg[u]
  BY OthersStay
<1>2. CASE pc[u] = "idle"
  BY <1>1, <1>2 DEF Heard
<1>3. CASE pc[u] # "idle"
  <2>1. pc[t] = "sink" => serial[u] # serial[t]
    BY <1>3 DEF Numbered, Active
  <2>2. /\ Unheard(u) => Unheard(u)'
        /\ \A count \in Nat : Emitted(Log, serial[u], steps[u], count)
                                => Emitted(Log', serial[u], steps[u], count)
    BY <1>1, <2>1, OthersAreHeardAsBefore DEF Unheard
  <2>3. OffTheCase(u) => OffTheCase(u)'
    BY <1>1 DEF OffTheCase
  <2>4. Announces(u) => Announces(u)'
    BY <1>1, <2>2 DEF Announces
  <2>5. \A k : RunEvent(u, k)' = RunEvent(u, k)
    BY <1>1 DEF RunEvent
  <2>6. InRun(u) => InRun(u)'
    BY <1>1, <2>2, <2>5 DEF InRun
  <2> QED
    BY <1>1, <2>2, <2>3, <2>4, <2>6 DEF Heard
<1> QED
  BY <1>2, <1>3

LEMMA FaultsMove ==
  ASSUME TypeInv, NEW t \in Threads, Work(t) \/ Arrive(t), faults' = 0
  PROVE  faults = 0 /\ ~Lose(t)
<1>1. ~Lose(t)
  BY DEF Lose, TypeInv, TypeOK
<1>2. faults' = faults
  BY <1>1 DEF Work, Record, Persist, Start, LeadNotFound, Replay, Investigate, File, FileFails, ReadBack,
              NothingToReadBack, Present, ForgetEvents, Question, ReadEvidence, CaseNotFound, ReadSteps,
              PersistQuestion, PersistQuestionFails, Swap, DeleteQuestions, Forget, ForgetFails, Purge,
              PurgeFails, EnsureCase, Reseed, ReseedFails, Surface, SurfaceFails, ClearDesk, ClearMemory,
              Fail, logs, Respond, Arrive, AskStart, AskQuestion, AskSwap, Ask
<1> QED
  BY <1>1, <1>2

(* The event a run emits next is its next. *)
LEMMA RunGoesOn ==
  ASSUME TypeInv, Numbered, NEW t \in Threads, Persist(t), NEW count \in Nat,
         count + Len(todo[t]) = Len(steps[t]) + 1,
         \A i \in DOMAIN todo[t] : todo[t][i] = RunEvent(t, count + i),
         Emitted(Log, serial[t], steps[t], count)
  PROVE  Emitted(Log, serial[t], steps[t], count + 1)'
<1>1. Head(todo[t]) = todo[t][1] /\ 1 \in DOMAIN todo[t]
  BY NextEvent DEF Persist
<1>2. Head(todo[t]) = RunEvent(t, count + 1)
  BY <1>1
<1> DEFINE event == Head(todo[t]).event
<1>3. Head(todo[t]).key = CaseKey /\ IsOf(event, steps[t], count + 1)
  BY <1>2 DEF RunEvent, IsOf, Event, Complete
<1>4. /\ event \in Events /\ event.by = serial[t] /\ Log' = Append(Log, event)
      /\ Work(t)
  <2>1. Work(t)
    BY DEF Work
  <2> QED
    BY <1>3, <2>1, LogIsWritten
<1>5. Emitted(Append(Log, event), serial[t], steps[t], count + 1)
  <2> HIDE DEF event
  <2> QED
    BY <1>3, <1>4, LogIsEvents, EmittedNext
<1>6. serial'[t] = serial[t] /\ steps'[t] = steps[t]
  BY DEF Persist, Quiet
<1> QED
  BY <1>4, <1>5, <1>6

LEMMA SwapsAreNoStarts == "start" \notin Swaps /\ "investigation_start" \notin Swaps
  BY DEF Swaps

(* How far the request has come that takes the step. *)
LEMMA InvestigatingIsHeard ==
  ASSUME TypeInv, Numbered, NEW t \in Threads, Work(t) \/ Arrive(t), Heard(t),
         pc'[t] \in {"investigate", "file", "details", "present"}
  PROVE  Unheard(t)'
<1>1. UNCHANGED serial
  BY StartMoves
<1>2. Log' = Log /\ Unheard(t)
  <2>1. CASE pc[t] \in {"investigate", "file", "details", "present"} /\ ~Persist(t)
    BY <2>1, LogMoves DEF Heard
  <2>2. CASE pc[t] = "sink" /\ Head(todo[t]).event.type = "investigation_start" /\ Len(todo[t]) <= 1
    <3>1. Head(todo[t]) = todo[t][1] /\ 1 \in DOMAIN todo[t]
      BY <2>2, NextEvent
    <3>2. op[t] = "start"
      BY <2>2, <3>1 DEF TypeInv, InHand, Fits
    <3>3. ~InRun(t)
      <4> SUFFICES ASSUME NEW count \in Nat, todo[t][1] = RunEvent(t, count + 1) PROVE FALSE
        BY <3>1 DEF InRun
      <4>1. todo[t][1].event.type # "investigation_start"
        BY DEF RunEvent, Event
      <4> QED
        BY <2>2, <3>1, <4>1
    <3>4. Announces(t)
      BY <2>2, <3>2, <3>3, SwapsAreNoStarts DEF Heard, OffTheCase
    <3> QED
      BY <3>4, LogMoves DEF Announces
  <2> QED
    BY <2>1, <2>2, StartMoves
<1> QED
  BY <1>1, <1>2 DEF Unheard

LEMMA EmittingIsHeard ==
  ASSUME TypeInv, Numbered, NEW t \in Threads, Work(t) \/ Arrive(t), Heard(t), ~Lose(t),
         pc'[t] \in {"emit", "sink"}
  PROVE  OffTheCase(t)' \/ (op[t] = "start" /\ Announces(t))' \/ (op[t] = "start" /\ InRun(t))'
<1>1. CASE Arrive(t) /\ op'[t] = "start"
  <2>1. PICK l \in Leads : todo'[t] = <<[key |-> l, event |-> Event("investigation_start", l, requests')]>>
    BY <1>1, EmitMoves DEF Record, Persist, Lose, Present, ClearDesk, ClearMemory, Arrive, AskStart,
                           AskQuestion, AskSwap, Ask
  <2>2. serial'[t] = requests + 1
    BY <1>1, NumberMoves, RespondFacts DEF Arrive, AskStart, AskQuestion, AskSwap, Ask
  <2>3. Log' = Log
    BY <1>1, LogMoves DEF Persist, Arrive, AskStart, AskQuestion, AskSwap, Ask
  <2>4. Unheard(t)'
    <3>1. \A i \in DOMAIN Log : Log[i].by \in Nat
      <4>1. \A i \in DOMAIN Log : Log[i] \in Events
        BY LogIsEvents
      <4> QED
        BY <4>1 DEF Events
    <3>2. requests \in Nat
      BY DeskAssumption DEF TypeInv, TypeOK
    <3>3. \A i \in DOMAIN Log : Log[i].by # requests + 1
      BY <3>1, <3>2 DEF Numbered
    <3> QED
      BY <2>2, <2>3, <3>3 DEF Unheard, By
  <2>5. Announces(t)'
    BY <2>1, <2>4, DeskAssumption DEF Announces, Event
  <2> QED
    BY <1>1, <2>5
<1>2. CASE Record(t) /\ pc[t] = "emit" /\ todo' = todo /\ UNCHANGED steps /\ Quiet
  <2>1. Log' = Log
    BY <1>2, LogMoves DEF Persist
  <2>2. UNCHANGED <<op, arg, serial, todo, steps, Log>>
    BY <1>2, <2>1 DEF Quiet
  <2>3. \A k : RunEvent(t, k)' = RunEvent(t, k)
    BY <2>2 DEF RunEvent
  <2>4. InRun(t) => InRun(t)'
    BY <2>2, <2>3 DEF InRun
  <2> QED
    BY <1>2, <2>2, <2>4 DEF Heard, OffTheCase, Announces, Unheard
<1>3. CASE Persist(t) /\ pc[t] = "sink" /\ todo'[t] = Tail(todo[t]) /\ Len(todo[t]) > 1 /\ UNCHANGED steps /\ Quiet
  <2>1. UNCHANGED <<op, arg, serial, steps>>
    BY <1>3 DEF Quiet
  <2>2. /\ Len(todo'[t]) = Len(todo[t]) - 1 /\ Len(todo[t]) \in Nat
        /\ \A i \in DOMAIN todo'[t] : i \in Nat /\ i + 1 \in DOMAIN todo[t] /\ todo'[t][i] = todo[t][i + 1]
    <3>1. todo[t] \in Seq([key : Keys, event : Events])
      BY DEF TypeInv, TypeOK
    <3> QED
      BY <1>3, <3>1
  <2>3. CASE OffTheCase(t)
    BY <2>1, <2>2, <2>3 DEF OffTheCase
  <2>4. CASE op[t] = "start" /\ InRun(t)
    <3>1. PICK count \in Nat :
            /\ count + Len(todo[t]) = Len(steps[t]) + 1
            /\ \A i \in DOMAIN todo[t] : todo[t][i] = RunEvent(t, count + i)
            /\ Emitted(Log, serial[t], steps[t], count)
      BY <2>4 DEF InRun
    <3>2. Emitted(Log, serial[t], steps[t], count + 1)'
      BY <1>3, <3>1, RunGoesOn
    <3>3. \A k : RunEvent(t, k)' = RunEvent(t, k)
      BY <2>1 DEF RunEvent
    <3>4. \A i \in DOMAIN todo'[t] : todo'[t][i] = RunEvent(t, (count + 1) + i)'
      <4>1. \A i \in DOMAIN todo'[t] : count + (i + 1) = (count + 1) + i
        <5>1. \A m, n \in Nat : m + (n + 1) = (m + 1) + n
          OBVIOUS
        <5> QED
          BY <2>2, <5>1, Zenon
      <4> QED
        BY <2>2, <3>1, <3>3, <4>1
    <3>5. (count + 1) + Len(todo'[t]) = Len(steps'[t]) + 1 /\ count + 1 \in Nat
      <4>1. \A m, n \in Nat : (m + 1) + (n - 1) = m + n /\ m + 1 \in Nat
        OBVIOUS
      <4>2. (count + 1) + Len(todo'[t]) = count + Len(todo[t]) /\ count + 1 \in Nat
        BY <2>2, <4>1, Zenon
      <4>3. steps' = steps
        BY <2>1
      <4> QED
        BY <3>1, <4>2, <4>3, Zenon
    <3>6. InRun(t)'
      BY <3>2, <3>4, <3>5 DEF InRun
    <3> QED
      BY <2>1, <2>4, <3>6
  <2>5. ~Announces(t)
    <3>1. Len(todo[t]) > 1 /\ Len(todo[t]) \in Nat
      BY <1>3, <2>2, Zenon
    <3>2. \A n \in Nat : n > 1 => n # 1
      OBVIOUS
    <3> QED
      BY <3>1, <3>2, Zenon DEF Announces
  <2> QED
    BY <1>3, <2>3, <2>4, <2>5 DEF Heard
<1>4. CASE /\ Present(t) /\ pc[t] = "present" /\ todo'[t] = EventsOfRun(t)
           /\ op[t] = "start" /\ arg[t] \in Leads /\ UNCHANGED steps /\ Quiet
  <2>1. UNCHANGED <<op, arg, serial, steps>>
    BY <1>4 DEF Quiet
  <2>2. Log' = Log /\ Unheard(t)
    BY <1>4, LogMoves DEF Persist, Heard
  <2>3. Emitted(Log, serial[t], steps[t], 0)'
    BY <2>1, <2>2, LogIsEvents, EmittedNothing DEF Unheard
  <2>4. \A k : RunEvent(t, k)' = RunEvent(t, k)
    BY <2>1 DEF RunEvent
  <2>5. /\ Len(todo'[t]) = Len(steps'[t]) + 1
        /\ \A i \in DOMAIN todo'[t] : todo'[t][i] = RunEvent(t, i)'
    BY <1>4, <2>1, <2>4, EventsOfRunAre
  <2>6. /\ 0 + Len(todo'[t]) = Len(steps'[t]) + 1
        /\ \A i \in DOMAIN todo'[t] : 0 + i = i
    <3>1. Len(steps[t]) \in Nat
      BY DEF TypeInv, TypeOK
    <3>2. \A i \in DOMAIN EventsOfRun(t) : i \in Nat
      <4>1. EventsOfRun(t) \in Seq([key : Keys, event : Events])
        BY <1>4, EventsOfRunType
      <4> QED
        BY <4>1
    <3> QED
      BY <1>4, <2>1, <2>5, <3>1, <3>2
  <2>7. InRun(t)'
    BY <2>3, <2>5, <2>6, Zenon DEF InRun
  <2> QED
    BY <1>4, <2>1, <2>7
<1>5. CASE op[t] \in Swaps /\ todo'[t] = <<DemoEvent(t)>> /\ Quiet
  <2>1. op'[t] = op[t]
    BY <1>5 DEF Quiet
  <2>2. \A i \in DOMAIN todo'[t] : todo'[t][i].key # CaseKey
    BY <1>5, DeskAssumption DEF DemoEvent
  <2> QED
    BY <1>5, <2>1, <2>2 DEF OffTheCase
<1> QED
  BY <1>1, <1>2, <1>3, <1>4, <1>5, EmitMoves

(* What was told stays told, and what is told now has just been emitted as a
   whole. *)
LEMMA ToldStep ==
  ASSUME TypeInv, Numbered, NEW t \in Threads, Work(t) \/ Arrive(t), ~Lose(t), Heard(t), ToldInFull
  PROVE  ToldInFull'
<1> SUFFICES ASSUME NEW r \in told' PROVE Emitted(Log, r.serial, r.steps, Len(r.steps) + 1)'
  BY DEF ToldInFull
<1>1. CASE r \in told
  <2>1. r \in [serial : Nat, steps : Seq(Steps)]
    BY <1>1 DEF Numbered
  <2>2. pc[t] = "sink" => r.serial # serial[t]
    BY <1>1 DEF Numbered, Active
  <2>3. Emitted(Log, r.serial, r.steps, Len(r.steps) + 1)
    BY <1>1 DEF ToldInFull
  <2>4. Len(r.steps) + 1 \in Nat
    BY <2>1
  <2> QED
    BY <2>2, <2>3, <2>4, OthersAreHeardAsBefore
<1>2. CASE r \notin told
  <2>1. /\ Persist(t) /\ pc[t] = "sink" /\ op[t] = "start" /\ Len(todo[t]) = 1
        /\ Head(todo[t]).event.type # "investigation_start"
        /\ r = [serial |-> serial[t], steps |-> steps[t]]
    BY <1>2, ToldMoves
  <2>2. InRun(t)
    BY <2>1, SwapsAreNoStarts DEF Heard, OffTheCase, Announces
  <2>3. PICK count \in Nat :
          /\ count + Len(todo[t]) = Len(steps[t]) + 1
          /\ \A i \in DOMAIN todo[t] : todo[t][i] = RunEvent(t, count + i)
          /\ Emitted(Log, serial[t], steps[t], count)
    BY <2>2 DEF InRun
  <2>4. Emitted(Log, serial[t], steps[t], count + 1)'
    BY <2>1, <2>3, RunGoesOn
  <2>5. UNCHANGED <<serial, steps>>
    BY <2>1 DEF Persist, Quiet
  <2> QED
    BY <2>1, <2>3, <2>4, <2>5
<1> QED
  BY <1>1, <1>2

LEMMA LogStep ==
  ASSUME TypeInv, Numbered, LogInv, [Next]_vars
  PROVE  Numbered' /\ LogInv'
<1>1. CASE Crash
  <2>1. UNCHANGED <<persisted, faults, requests, told>> /\ \A t \in Threads : pc'[t] = "idle"
    BY <1>1 DEF Crash
  <2>2. Numbered'
    BY <2>1 DEF Numbered, Log, Active
  <2>3. LogInv'
    BY <2>1 DEF LogInv, ToldInFull, Log, Heard
  <2> QED
    BY <2>2, <2>3
<1>2. CASE UNCHANGED vars
  <2>1. UNCHANGED <<persisted, faults, requests, told, pc, op, arg, serial, steps, todo>>
    BY <1>2 DEF vars, logs, locals
  <2>2. Numbered'
    BY <2>1 DEF Numbered, Log, Active
  <2>3. \A t \in Threads : Heard(t)' = Heard(t)
    <3> SUFFICES ASSUME NEW t \in Threads PROVE Heard(t)' = Heard(t)
      OBVIOUS
    <3>1. \A k : RunEvent(t, k)' = RunEvent(t, k)
      BY <2>1 DEF RunEvent
    <3>2. InRun(t)' = InRun(t)
      BY <2>1, <3>1 DEF InRun, Log
    <3> QED
      BY <2>1, <3>2 DEF Heard, OffTheCase, Announces, Unheard, Log
  <2>4. LogInv'
    BY <2>1, <2>3 DEF LogInv, ToldInFull, Log
  <2> QED
    BY <2>2, <2>4
<1>3. ASSUME NEW t \in Threads, Work(t) \/ Arrive(t) PROVE Numbered' /\ LogInv'
  <2>1. Numbered'
    BY <1>3, NumberedStep
  <2>2. ASSUME faults' = 0 PROVE ToldInFull' /\ \A u \in Threads : Heard(u)'
    <3>1. faults = 0 /\ ~Lose(t)
      BY <1>3, <2>2, FaultsMove
    <3>2. ToldInFull /\ \A u \in Threads : Heard(u)
      BY <3>1 DEF LogInv
    <3>3. \A u \in Threads \ {t} : Heard(u)'
      BY <1>3, <3>2, OthersHeard
    <3>4. Heard(t)'
      BY <1>3, <3>1, <3>2, InvestigatingIsHeard, EmittingIsHeard DEF Heard
    <3>5. ToldInFull'
      BY <1>3, <3>1, <3>2, ToldStep
    <3> QED
      BY <3>3, <3>4, <3>5
  <2>3. LogInv'
    BY <2>2 DEF LogInv
  <2> QED
    BY <2>1, <2>3
<1> QED
  BY <1>1, <1>2, <1>3 DEF Next

(* What an earlier process has left is a run that was told. *)
LEMMA LogInit == Init => Numbered /\ LogInv
<1> SUFFICES ASSUME Init PROVE Numbered /\ LogInv
  OBVIOUS
<1>1. StepsOnFile \in Seq(Steps)
  BY TypeInit, StepsAreSteps DEF TypeInv, TypeOK
<1>2. /\ \A t \in Threads : pc[t] = "idle"
      /\ requests = 0
      /\ told = IF Earlier = <<>> THEN {} ELSE {[serial |-> 0, steps |-> StepsOnFile]}
  BY DEF Init
<1> DEFINE first == Event("investigation_complete", Last(Earlier), 0)
           rest == [i \in DOMAIN StepsOnFile |-> Event("investigation_step", StepsOnFile[i], 0)]
           n == Len(StepsOnFile) + 1
<1>3. Log = IF Earlier # <<>> THEN <<first>> \o rest ELSE <<>>
  <2>1. CaseKey \notin Range(Earlier) /\ CaseKey \in Keys
    BY EarlierIsSeq, DeskAssumption DEF Range, Keys
  <2> QED
    BY <2>1, Zenon DEF Init, Log
<1>4. /\ rest \in Seq({rest[i] : i \in DOMAIN StepsOnFile}) /\ Len(rest) = Len(StepsOnFile)
      /\ Len(StepsOnFile) \in Nat
      /\ \A i \in 1..Len(StepsOnFile) : rest[i].by = 0 /\ rest[i].what = StepsOnFile[i]
  BY <1>1 DEF Event
<1>5. first.by = 0 /\ first.type = Complete
  BY DEF Event, Complete
<1> HIDE DEF first, rest
<1>6. /\ DOMAIN (<<first>> \o rest) = 1..n
      /\ \A i \in 1..n : (<<first>> \o rest)[i] = IF i = 1 THEN first ELSE rest[i - 1]
  BY <1>4
<1>7. \A i \in 1..n : i = 1 \/ i - 1 \in 1..Len(StepsOnFile)
  BY <1>4
<1>8. \A i \in DOMAIN Log : Log[i].by = 0
  <2>1. CASE Earlier = <<>>
    <3>1. DOMAIN <<>> = {}
      OBVIOUS
    <3> QED
      BY <1>3, <2>1, <3>1
  <2>2. CASE Earlier # <<>>
    <3>1. Log = <<first>> \o rest
      BY <1>3, <2>2
    <3>2. \A i \in 1..n : (<<first>> \o rest)[i].by = 0
      BY <1>4, <1>5, <1>6, <1>7
    <3> QED
      BY <1>6, <3>1, <3>2, Zenon
  <2> QED
    BY <2>1, <2>2
<1>9. Numbered
  BY <1>1, <1>2, <1>8 DEF Numbered, Active
<1>10. ToldInFull
  <2> SUFFICES ASSUME Earlier # <<>> PROVE Emitted(Log, 0, StepsOnFile, n)
    BY <1>2 DEF ToldInFull
  <2> DEFINE place == [k \in 1..n |-> k]
  <2>1. place \in [1..n -> DOMAIN Log]
    BY <1>3, <1>6
  <2>2. By(Log, 0) = {place[k] : k \in 1..n}
    BY <1>3, <1>6, <1>8 DEF By
  <2>3. \A k \in 1..n : IsOf(Log[place[k]], StepsOnFile, k)
    BY <1>3, <1>4, <1>5, <1>6, <1>7 DEF IsOf
  <2>4. \A j, k \in 1..n : j < k => place[j] < place[k]
    OBVIOUS
  <2> HIDE DEF place, n
  <2> QED
    BY <2>1, <2>2, <2>3, <2>4 DEF Emitted
<1> QED
  BY <1>2, <1>9, <1>10 DEF LogInv, Heard

(* A run that was answered is on the timeline of the case from then on, as
   long as no write failed and the timeline fits the page. *)
THEOREM ToldRunsStay == Spec => []ToldRunsAreShown
<1>1. TypeInv /\ Numbered /\ LogInv => ToldRunsAreShown
  <2> SUFFICES ASSUME TypeInv, Numbered, LogInv, faults = 0, Len(Log) <= PageLimit, NEW r \in told
               PROVE  IsShown(CaseKey, r)
    BY DEF ToldRunsAreShown, Log
  <2>1. r \in [serial : Nat, steps : Seq(Steps)]
    BY DEF Numbered
  <2>2. Emitted(Log, r.serial, r.steps, Len(r.steps) + 1)
    BY DEF LogInv, ToldInFull
  <2> QED
    BY <2>1, <2>2, EmittedIsShown
<1> QED
  BY <1>1, LogInit, LogStep, TypeHolds, PTL DEF Spec
=============================================================================
