------------------------ MODULE GeminiRoutingProofs ------------------------
(***************************************************************************)
(* Proofs about GeminiRouting, for any number of threads and projects and  *)
(* any budgets.  The overshoot arguments all count the threads that are    *)
(* committed to a charge, together with what is already charged: a thread  *)
(* commits only while there is budget left, and being charged moves one    *)
(* unit from the first count to the second.                                *)
(***************************************************************************)
EXTENDS GeminiRouting, FiniteSetTheorems, TLAPS

N == Cardinality(Threads)

LEMMA CountThreads ==
  ASSUME NEW S \in SUBSET Threads
  PROVE  IsFiniteSet(S) /\ Cardinality(S) \in Nat /\ Cardinality(S) <= N
         /\ N \in Nat /\ N > 0
<1>1. IsFiniteSet(S) /\ Cardinality(S) <= N
  BY FS_Subset, RoutingAssumption DEF N
<1>2. Cardinality(S) \in Nat /\ N \in Nat
  BY <1>1, FS_CardinalityType, RoutingAssumption DEF N
<1>3. N # 0
  BY FS_EmptySet, RoutingAssumption DEF N
<1> QED
  BY <1>1, <1>2, <1>3

LEMMA FewerThreads ==
  ASSUME NEW S \in SUBSET Threads, NEW T \in SUBSET S
  PROVE  Cardinality(T) <= Cardinality(S)
  BY FS_Subset, CountThreads

LEMMA OneThreadLess ==
  ASSUME NEW S \in SUBSET Threads, NEW t \in S, NEW T \in SUBSET (S \ {t})
  PROVE  Cardinality(T) <= Cardinality(S) - 1
<1>1. IsFiniteSet(S \ {t}) /\ Cardinality(S \ {t}) = Cardinality(S) - 1
  BY FS_RemoveElement, CountThreads
<1> QED
  BY <1>1, FS_Subset

-----------------------------------------------------------------------------
LEMMA AttemptsType == MaxAttempts \in Nat
  BY FS_CardinalityType, RoutingAssumption DEF MaxAttempts

LEMMA SpendType ==
  ASSUME ledger \in Seq(Providers), NEW p
  PROVE  Spend(p) \in Nat
<1>1. DOMAIN ledger = 1..Len(ledger) /\ Len(ledger) \in Nat
  OBVIOUS
<1>2. IsFiniteSet(1..Len(ledger))
  BY <1>1, FS_NatBijection, FS_CountingElements, FS_Interval
<1>3. IsFiniteSet({i \in DOMAIN ledger : ledger[i] = p})
  BY <1>1, <1>2, FS_Subset
<1> QED
  BY <1>3, FS_CardinalityType DEF Spend

(* The provider in hand, between choosing it and having marked it failed. *)
ChosenInHand ==
  \A t \in Threads : pc[t] \in {"calling", "recording", "failing"} => chosen[t] \in Providers

RespondedInHand == \A t \in Threads : pc[t] = "recording" => outcome[t] \in Outcomes

TypeInv == TypeOK /\ ChosenInHand /\ RespondedInHand

LEMMA TypeInit == Init => TypeInv
  BY AttemptsType DEF Init, TypeInv, TypeOK, ChosenInHand, RespondedInHand, NoSpend, Labels

LEMMA TypeStep ==
  ASSUME TypeInv, NEW t \in Threads, Ask(t) \/ Generate(t)
  PROVE  TypeInv'
<1> USE AttemptsType DEF TypeInv, TypeOK, ChosenInHand, RespondedInHand, Labels
<1>1. CASE Ask(t)
  BY <1>1 DEF Ask, Continue, Goto
<1>2. CASE Gate(t)
  <2>1. CASE Answer(t, "budget_stop")
    BY <1>2, <2>1 DEF Gate, Answer, Goto
  <2>2. CASE Continue(t, "loop")
    BY <1>2, <2>2 DEF Gate, Continue, Goto
  <2> QED
    BY <1>2, <2>1, <2>2 DEF Gate
<1>3. CASE Attempt(t)
  <2>1. CASE Answer(t, "no_provider")
    BY <1>3, <2>1 DEF Attempt, Answer, Goto
  <2>2. CASE attempts' = [attempts EXCEPT ![t] = @ + 1] /\ Goto(t, "selecting")
             /\ UNCHANGED <<chosen, result, tried>>
    BY <1>3, <2>2 DEF Attempt, Goto
  <2> QED
    BY <1>3, <2>1, <2>2 DEF Attempt
<1>4. CASE ReadSpend(t)
  <2>1. [p \in Providers |-> Spend(p)] \in [Providers -> Nat]
    BY SpendType
  <2> QED
    BY <1>4, <2>1 DEF ReadSpend, Continue, Goto
<1>5. CASE Choose(t)
  <2>1. NoSpend \in [Providers -> Nat]
    BY DEF NoSpend
  <2>2. CASE Answer(t, "no_provider")
    BY <1>5, <2>1, <2>2 DEF Choose, Answer, Goto
  <2>3. CASE Pick(t)
    BY <1>5, <2>1, <2>3 DEF Choose, Pick, Goto, Candidates
  <2> QED
    BY <1>5, <2>2, <2>3 DEF Choose
<1>6. CASE Respond(t)
  BY <1>6 DEF Respond, Goto, Outcomes
<1>7. CASE Record(t)
  <2>1. ledger' \in Seq(Providers)
    BY <1>7 DEF Record
  <2>2. CASE Continue(t, "failing")
    BY <1>7, <2>1, <2>2 DEF Record, Continue, Goto
  <2>3. CASE \E what \in {"model", "fallback"} : Answer(t, what)
    BY <1>7, <2>1, <2>3 DEF Record, Answer, Goto
  <2> QED
    BY <1>7, <2>2, <2>3 DEF Record, Classify
<1>8. CASE Fail(t)
  BY <1>8 DEF Fail, Continue, Goto
<1> QED
  BY <1>1, <1>2, <1>3, <1>4, <1>5, <1>6, <1>7, <1>8 DEF Generate

LEMMA TypeNext == TypeInv /\ [Next]_vars => TypeInv'
<1>1. TypeInv /\ UNCHANGED vars => TypeInv'
  BY DEF vars, TypeInv, TypeOK, ChosenInHand, RespondedInHand
<1> QED
  BY <1>1, TypeStep DEF Next

(* Every reachable routing state is well formed; in particular the failed
   set only ever holds projects. *)
THEOREM TypeCorrect == Spec => []TypeOK
<1>1. TypeInv => TypeOK
  BY DEF TypeInv
<1> QED
  BY <1>1, TypeInit, TypeNext, PTL DEF Spec

-----------------------------------------------------------------------------
(* What a step does to the committed threads and to the ledger. *)
LEMMA CommittedStep ==
  ASSUME TypeInv, NEW t \in Threads, Ask(t) \/ Generate(t)
  PROVE  \/ ledger' = ledger /\ Committed' \subseteq Committed
         \/ ledger' = ledger /\ TotalSpend < HardStop
         \/ /\ Len(ledger') = Len(ledger) + 1
            /\ t \in Committed
            /\ Committed' \subseteq Committed \ {t}
<1> USE DEF TypeInv, TypeOK
<1>1. CASE Ask(t) \/ Gate(t) \/ ReadSpend(t) \/ Choose(t) \/ Respond(t) \/ Fail(t)
  <2>1. ledger' = ledger
    BY <1>1 DEF Ask, Gate, ReadSpend, Choose, Respond, Fail
  <2>2. ASSUME NEW u \in Committed' PROVE u \in Committed
    <3>1. CASE u = t
      BY <1>1, <2>2, <3>1 DEF Committed, Ask, Gate, ReadSpend, Choose, Pick, Respond, Fail,
         Answer, Continue, Goto
    <3>2. CASE u # t
      BY <1>1, <2>2, <3>2 DEF Committed, Ask, Gate, ReadSpend, Choose, Pick, Respond, Fail,
         Answer, Continue, Goto
    <3> QED
      BY <3>1, <3>2
  <2> QED
    BY <2>1, <2>2
<1>2. CASE Attempt(t)
  <2>1. CASE BudgetExhausted
    <3>1. ledger' = ledger /\ outcome' = outcome /\ pc' = [pc EXCEPT ![t] = "idle"]
      BY <1>2, <2>1 DEF Attempt, Answer, Goto
    <3> QED
      BY <3>1 DEF Committed
  <2>2. CASE ~BudgetExhausted
    <3>1. TotalSpend \in Nat
      BY DEF TotalSpend
    <3> QED
      BY <1>2, <2>2, <3>1, RoutingAssumption DEF Attempt, BudgetExhausted
  <2> QED
    BY <2>1, <2>2
<1>3. CASE Record(t)
  <2>1. /\ pc' \in {[pc EXCEPT ![t] = "idle"], [pc EXCEPT ![t] = "failing"]}
        /\ outcome' = [outcome EXCEPT ![t] = "none"]
        /\ pc[t] = "recording"
    BY <1>3 DEF Record, Classify, Answer, Continue, Goto
  <2>2. Committed' \subseteq Committed \ {t}
    BY <2>1 DEF Committed
  <2>3. CASE outcome[t] \in Charged
    <3>1. chosen[t] \in Providers
      BY <2>1 DEF ChosenInHand
    <3>2. Len(ledger') = Len(ledger) + 1
      BY <1>3, <2>3, <3>1 DEF Record
    <3> QED
      BY <2>1, <2>2, <2>3, <3>2 DEF Committed
  <2>4. CASE outcome[t] \notin Charged
    BY <1>3, <2>2, <2>4 DEF Record
  <2> QED
    BY <2>3, <2>4
<1> QED
  BY <1>1, <1>2, <1>3 DEF Generate

(* What is charged and what is about to be stay below the hard stop and one
   call per thread. *)
SpendInv == TotalSpend + Cardinality(Committed) < HardStop + N

LEMMA SpendInit == Init => SpendInv
<1> SUFFICES ASSUME Init PROVE SpendInv
  OBVIOUS
<1>1. Committed = {} /\ TotalSpend = 0
  BY DEF Init, Committed, TotalSpend
<1>2. N \in Nat /\ N > 0
  BY CountThreads
<1> QED
  BY <1>1, <1>2, FS_EmptySet, RoutingAssumption DEF SpendInv

LEMMA SpendStep ==
  ASSUME TypeInv, SpendInv, NEW t \in Threads, Ask(t) \/ Generate(t)
  PROVE  SpendInv'
<1>1. /\ Committed \in SUBSET Threads /\ Committed' \in SUBSET Threads
  BY DEF Committed
<1>2. /\ Cardinality(Committed) \in Nat /\ Cardinality(Committed') \in Nat
      /\ Cardinality(Committed') <= N /\ N \in Nat /\ HardStop \in Nat
  BY <1>1, CountThreads, RoutingAssumption
<1>3. TotalSpend \in Nat /\ TotalSpend' \in Nat
  <2>1. TypeInv'
    BY TypeStep
  <2> QED
    BY <2>1 DEF TotalSpend, TypeInv, TypeOK
<1>4. CASE ledger' = ledger /\ Committed' \subseteq Committed
  <2>1. Cardinality(Committed') <= Cardinality(Committed)
    BY <1>1, <1>4, FewerThreads
  <2>2. TotalSpend' = TotalSpend
    BY <1>4 DEF TotalSpend
  <2> QED
    BY <1>2, <1>3, <2>1, <2>2 DEF SpendInv
<1>5. CASE ledger' = ledger /\ TotalSpend < HardStop
  <2>1. TotalSpend' = TotalSpend
    BY <1>5 DEF TotalSpend
  <2> QED
    BY <1>2, <1>3, <1>5, <2>1 DEF SpendInv
<1>6. CASE /\ Len(ledger') = Len(ledger) + 1
           /\ t \in Committed
           /\ Committed' \subseteq Committed \ {t}
  <2>1. Cardinality(Committed') <= Cardinality(Committed) - 1
    BY <1>1, <1>6, OneThreadLess
  <2>2. TotalSpend' = TotalSpend + 1
    BY <1>6 DEF TotalSpend
  <2> QED
    BY <1>2, <1>3, <2>1, <2>2 DEF SpendInv
<1> QED
  BY <1>4, <1>5, <1>6, CommittedStep

(* The session spend exceeds the hard stop by less than one call per
   concurrent request, however the requests interleave: the check before
   every selection is enough for that, though not to stay below. *)
THEOREM OvershootIsBounded == Spec => []OvershootBounded
<1>1. TypeInv /\ SpendInv /\ [Next]_vars => SpendInv'
  <2>1. TypeInv /\ SpendInv /\ UNCHANGED vars => SpendInv'
    BY DEF SpendInv, TotalSpend, Committed, vars
  <2> QED
    BY <2>1, SpendStep DEF Next
<1>2. TypeInv /\ SpendInv => OvershootBounded
  <2>1. TypeInv => TotalSpend \in Nat
    BY DEF TypeInv, TypeOK, TotalSpend
  <2>2. Cardinality(Committed) \in Nat /\ N \in Nat
    BY CountThreads DEF Committed
  <2> QED
    BY <2>1, <2>2, RoutingAssumption DEF SpendInv, OvershootBounded, N
<1> QED
  BY <1>1, <1>2, TypeInit, TypeNext, SpendInit, PTL DEF Spec
-----------------------------------------------------------------------------
Count(log, p) == Cardinality({i \in DOMAIN log : log[i] = p})

LEMMA CountOfMore ==
  ASSUME NEW log \in Seq(Providers), NEW x \in Providers, NEW p
  PROVE  /\ Count(log, p) \in Nat
         /\ Count(Append(log, x), p) = IF x = p THEN Count(log, p) + 1 ELSE Count(log, p)
<1> DEFINE S == {i \in DOMAIN log : log[i] = p}
           more == Append(log, x)
           T == {i \in DOMAIN more : more[i] = p}
           n == Len(log) + 1
<1>1. DOMAIN log = 1..Len(log) /\ Len(log) \in Nat /\ DOMAIN more = 1..n /\ n \notin DOMAIN log
  OBVIOUS
<1>2. more[n] = x /\ \A i \in DOMAIN log : more[i] = log[i]
  OBVIOUS
<1>3. IsFiniteSet(S)
  <2>1. IsFiniteSet(1..Len(log))
    BY <1>1, FS_NatBijection, FS_CountingElements, FS_Interval
  <2> QED
    BY <1>1, <2>1, FS_Subset
<1>4. Cardinality(S) \in Nat /\ n \notin S
  BY <1>1, <1>3, FS_CardinalityType
<1>5. 1..n = DOMAIN log \cup {n}
  BY <1>1
<1>6. CASE x = p
  <2>1. T = S \cup {n}
    BY <1>1, <1>2, <1>5, <1>6
  <2>2. Cardinality(S \cup {n}) = Cardinality(S) + 1
    BY <1>3, <1>4, FS_AddElement
  <2> QED
    BY <1>4, <1>6, <2>1, <2>2 DEF Count
<1>7. CASE x # p
  <2>1. T = S
    BY <1>1, <1>2, <1>5, <1>7
  <2> QED
    BY <1>4, <1>7, <2>1 DEF Count
<1> QED
  BY <1>6, <1>7

LEMMA SpendIsCount == \A p : Spend(p) = Count(ledger, p) /\ Spend(p)' = Count(ledger', p)
  BY DEF Spend, Count

(* The only step that charges is that of a thread with a 200 in hand. *)
LEMMA Charge ==
  ASSUME TypeInv, NEW t \in Threads, Ask(t) \/ Generate(t)
  PROVE  \/ ledger' = ledger
         \/ /\ Record(t) /\ pc[t] = "recording" /\ outcome[t] \in Charged
            /\ chosen[t] \in Providers /\ ledger' = Append(ledger, chosen[t])
<1>1. CASE Record(t)
  BY <1>1 DEF Record, TypeInv, ChosenInHand
<1>2. CASE ~Record(t)
  BY <1>2 DEF Generate, Ask, Gate, Attempt, ReadSpend, Choose, Respond, Fail
<1> QED
  BY <1>1, <1>2

LEMMA SpendStays ==
  ASSUME TypeInv, NEW t \in Threads, Ask(t) \/ Generate(t), NEW p
  PROVE  /\ Spend(p) \in Nat /\ Spend(p)' \in Nat /\ Spend(p) <= Spend(p)'
         /\ ledger' = ledger => Spend(p)' = Spend(p)
         /\ ledger' = Append(ledger, chosen[t]) /\ chosen[t] \in Providers =>
              Spend(p)' = IF chosen[t] = p THEN Spend(p) + 1 ELSE Spend(p)
<1>1. ledger \in Seq(Providers)
  BY DEF TypeInv, TypeOK
<1>2. Spend(p) \in Nat
  BY <1>1, SpendType
<1>3. ledger' = ledger => Spend(p)' = Spend(p)
  BY DEF Spend
<1>4. ledger' = Append(ledger, chosen[t]) /\ chosen[t] \in Providers =>
        Spend(p)' = IF chosen[t] = p THEN Spend(p) + 1 ELSE Spend(p)
  BY <1>1, CountOfMore, SpendIsCount
<1> QED
  BY <1>2, <1>3, <1>4, Charge

LEMMA OthersStay ==
  ASSUME TypeInv, NEW t \in Threads, Ask(t) \/ Generate(t), NEW u \in Threads, u # t
  PROVE  /\ pc'[u] = pc[u] /\ seen'[u] = seen[u] /\ chosen'[u] = chosen[u] /\ outcome'[u] = outcome[u]
         /\ result'[u] = result[u] /\ tried'[u] = tried[u]
<1> USE DEF TypeInv, TypeOK, Answer, Continue, Goto
<1>1. CASE Ask(t) \/ Gate(t) \/ Attempt(t) \/ ReadSpend(t)
  BY <1>1 DEF Ask, Gate, Attempt, ReadSpend
<1>2. CASE Choose(t) \/ Respond(t) \/ Fail(t)
  BY <1>2 DEF Choose, Pick, Respond, Fail
<1>3. CASE Record(t)
  BY <1>3 DEF Record, Classify
<1> QED
  BY <1>1, <1>2, <1>3 DEF Generate

(* A spend that was read is a lower bound from then on. *)
SeenBefore == \A t \in Threads : pc[t] = "choosing" => \A p \in Providers : seen[t][p] <= Spend(p)

LEMMA SeenStep ==
  ASSUME TypeInv, SeenBefore, NEW t \in Threads, Ask(t) \/ Generate(t)
  PROVE  SeenBefore'
<1> SUFFICES ASSUME NEW u \in Threads, pc'[u] = "choosing", NEW p \in Providers
             PROVE  seen'[u][p] <= Spend(p)'
  BY DEF SeenBefore
<1>1. Spend(p) \in Nat /\ Spend(p)' \in Nat /\ Spend(p) <= Spend(p)'
  BY SpendStays
<1>2. CASE u # t
  <2>1. seen[u][p] <= Spend(p) /\ seen'[u] = seen[u] /\ seen[u][p] \in Nat
    BY <1>2, OthersStay DEF SeenBefore, TypeInv, TypeOK
  <2> QED
    BY <1>1, <2>1
<1>3. CASE u = t
  <2>1. ReadSpend(t)
    BY <1>3 DEF TypeInv, TypeOK, Generate, Ask, Gate, Attempt, Choose, Pick, Respond, Record, Classify, Fail,
                Answer, Continue, Goto
  <2>2. seen'[t][p] = Spend(p) /\ ledger' = ledger
    BY <2>1 DEF ReadSpend, TypeInv, TypeOK
  <2> QED
    BY <1>1, <1>3, <2>2
<1> QED
  BY <1>2, <1>3

LEMMA SeenHolds == Spec => [](TypeInv /\ SeenBefore)
<1>1. Init => SeenBefore
  BY DEF Init, SeenBefore
<1>2. TypeInv /\ SeenBefore /\ UNCHANGED vars => SeenBefore'
  BY DEF vars, SeenBefore, Spend
<1>3. TypeInv /\ SeenBefore /\ [Next]_vars => SeenBefore'
  BY <1>2, SeenStep DEF Next
<1> QED
  BY <1>1, <1>3, TypeInit, TypeNext, PTL DEF Spec

-----------------------------------------------------------------------------
(* Threads that may still be charged for a project: they have found it
   within its session budget, or have chosen it. *)
Chose(t, p) ==
  /\ chosen[t] = p
  /\ \/ pc[t] = "calling"
     \/ pc[t] = "recording" /\ outcome[t] \in Charged

CommittedTo(p) ==
  {t \in Threads :
     \/ Chose(t, p)
     \/ pc[t] = "choosing" /\ seen[t][p] < SessionCap[p]}

SessionInv == \A p \in Providers : Spend(p) + Cardinality(CommittedTo(p)) < SessionCap[p] + N

(* A thread comes to choose a project by Choose alone, and goes by Record. *)
LEMMA ChoseStep ==
  ASSUME TypeInv, NEW t \in Threads, Ask(t) \/ Generate(t), NEW p \in Providers, Chose(t, p)'
  PROVE  \/ Chose(t, p)
         \/ Choose(t) /\ p \in Candidates(t) /\ \A q \in Candidates(t) : Cheaper(t, p, q)
<1> USE DEF TypeInv, TypeOK, Answer, Continue, Goto, Chose
<1>1. CASE Choose(t)
  <2>1. CASE Pick(t)
    <3>1. PICK r \in Candidates(t) :
            /\ \A q \in Candidates(t) : Cheaper(t, r, q)
            /\ chosen' = [chosen EXCEPT ![t] = r]
      BY <2>1 DEF Pick
    <3>2. r = p
      BY <3>1
    <3> QED
      BY <1>1, <3>1, <3>2
  <2>2. CASE Answer(t, "no_provider")
    BY <2>2
  <2> QED
    BY <1>1, <2>1, <2>2 DEF Choose
<1>2. CASE Respond(t)
  <2>1. pc[t] = "calling" /\ chosen' = chosen
    BY <1>2 DEF Respond
  <2> QED
    BY <2>1
<1>3. CASE Ask(t) \/ Gate(t) \/ Attempt(t) \/ ReadSpend(t) \/ Fail(t)
  BY <1>3 DEF Ask, Gate, Attempt, ReadSpend, Fail
<1>4. CASE Record(t)
  BY <1>4 DEF Record, Classify
<1> QED
  BY <1>1, <1>2, <1>3, <1>4 DEF Generate

LEMMA LeavesRecording ==
  ASSUME TypeInv, NEW t \in Threads, Record(t)
  PROVE  pc[t] = "recording" /\ pc'[t] \in {"idle", "failing"} /\ outcome'[t] = "none"
  BY DEF TypeInv, TypeOK, Record, Classify, Answer, Continue, Goto

LEMMA ToChoosing ==
  ASSUME TypeInv, NEW t \in Threads, Ask(t) \/ Generate(t), pc'[t] = "choosing"
  PROVE  ledger' = ledger /\ \A p \in Providers : seen'[t][p] = Spend(p)
<1>1. ReadSpend(t)
  BY DEF TypeInv, TypeOK, Generate, Ask, Gate, Attempt, Choose, Pick, Respond, Record, Classify, Fail,
         Answer, Continue, Goto
<1> QED
  BY <1>1 DEF ReadSpend, TypeInv, TypeOK

LEMMA SessionStep ==
  ASSUME TypeInv, SessionInv, NEW t \in Threads, Ask(t) \/ Generate(t)
  PROVE  SessionInv'
<1> SUFFICES ASSUME NEW p \in Providers
             PROVE  Spend(p)' + Cardinality(CommittedTo(p)') < SessionCap[p] + N
  BY DEF SessionInv
<1>1. CommittedTo(p) \in SUBSET Threads /\ CommittedTo(p)' \in SUBSET Threads
  BY DEF CommittedTo
<1>2. /\ Cardinality(CommittedTo(p)) \in Nat /\ Cardinality(CommittedTo(p)') \in Nat
      /\ Cardinality(CommittedTo(p)') <= N /\ N \in Nat /\ SessionCap[p] \in Nat
  BY <1>1, CountThreads, RoutingAssumption
<1>3. Spend(p) \in Nat /\ Spend(p)' \in Nat
  BY SpendStays
<1>4. Spend(p) + Cardinality(CommittedTo(p)) < SessionCap[p] + N
  BY DEF SessionInv
<1>5. \A u \in Threads \ {t} : u \in CommittedTo(p)' <=> u \in CommittedTo(p)
  BY OthersStay DEF CommittedTo, Chose
<1>6. CASE ledger' = ledger
  <2>1. Spend(p)' = Spend(p)
    BY <1>6, SpendStays
  <2>2. CASE CommittedTo(p)' \subseteq CommittedTo(p)
    <3>1. Cardinality(CommittedTo(p)') <= Cardinality(CommittedTo(p))
      BY <1>1, <2>2, FewerThreads
    <3> QED
      BY <1>2, <1>3, <1>4, <2>1, <3>1
  <2>3. CASE ~(CommittedTo(p)' \subseteq CommittedTo(p))
    <3>1. t \in CommittedTo(p)' /\ t \notin CommittedTo(p)
      BY <1>1, <1>5, <2>3
    <3>2. CASE Chose(t, p)'
      <4>1. ~Chose(t, p)
        BY <3>1 DEF CommittedTo
      <4>2. Choose(t) /\ p \in Candidates(t)
        BY <3>2, <4>1, ChoseStep
      <4>3. t \in CommittedTo(p)
        BY <4>2 DEF Choose, Candidates, CommittedTo
      <4> QED
        BY <3>1, <4>3
    <3>3. CASE pc'[t] = "choosing" /\ seen'[t][p] < SessionCap[p]
      <4>1. Spend(p) < SessionCap[p]
        BY <3>3, ToChoosing
      <4> QED
        BY <1>2, <1>3, <2>1, <4>1
    <3> QED
      BY <3>1, <3>2, <3>3 DEF CommittedTo
  <2> QED
    BY <2>2, <2>3
<1>7. CASE /\ Record(t) /\ pc[t] = "recording" /\ outcome[t] \in Charged
           /\ chosen[t] \in Providers /\ ledger' = Append(ledger, chosen[t])
  <2>1. t \notin CommittedTo(p)'
    BY <1>7, LeavesRecording DEF CommittedTo, Chose
  <2>2. CASE chosen[t] = p
    <3>1. t \in CommittedTo(p) /\ CommittedTo(p)' \in SUBSET (CommittedTo(p) \ {t})
      <4>1. Chose(t, p)
        BY <1>7, <2>2 DEF Chose
      <4>2. t \in CommittedTo(p)
        BY <4>1 DEF CommittedTo
      <4> QED
        BY <1>1, <1>5, <2>1, <4>2
    <3>2. Cardinality(CommittedTo(p)') <= Cardinality(CommittedTo(p)) - 1
      BY <1>1, <3>1, OneThreadLess
    <3>3. Spend(p)' = Spend(p) + 1
      BY <1>7, <2>2, SpendStays
    <3> QED
      BY <1>2, <1>3, <1>4, <3>2, <3>3
  <2>3. CASE chosen[t] # p
    <3>1. CommittedTo(p)' \in SUBSET CommittedTo(p)
      BY <1>1, <1>5, <2>1
    <3>2. Cardinality(CommittedTo(p)') <= Cardinality(CommittedTo(p))
      BY <1>1, <3>1, FewerThreads
    <3>3. Spend(p)' = Spend(p)
      BY <1>7, <2>3, SpendStays
    <3> QED
      BY <1>2, <1>3, <1>4, <3>2, <3>3
  <2> QED
    BY <2>2, <2>3
<1> QED
  BY <1>6, <1>7, Charge

(* The session budget of a project is overshot by less than a call per
   concurrent request: a thread commits itself to a project only when it
   reads that there is budget left. *)
THEOREM SessionOvershootIsBounded == Spec => []SessionOvershootBounded
<1>1. Init => SessionInv
  <2> SUFFICES ASSUME Init, NEW p \in Providers
               PROVE  Spend(p) + Cardinality(CommittedTo(p)) < SessionCap[p] + N
    BY DEF SessionInv
  <2>1. CommittedTo(p) = {} /\ {i \in DOMAIN ledger : ledger[i] = p} = {}
    BY DEF Init, CommittedTo, Chose
  <2>2. N \in Nat /\ N > 0 /\ SessionCap[p] \in Nat
    BY CountThreads, RoutingAssumption
  <2> QED
    BY <2>1, <2>2, FS_EmptySet DEF Spend
<1>2. TypeInv /\ SessionInv /\ UNCHANGED vars => SessionInv'
  BY DEF SessionInv, CommittedTo, Chose, Spend, vars
<1>3. TypeInv /\ SessionInv /\ [Next]_vars => SessionInv'
  BY <1>2, SessionStep DEF Next
<1>4. TypeInv /\ SessionInv => SessionOvershootBounded
  <2> SUFFICES ASSUME TypeInv, SessionInv, NEW p \in Providers
               PROVE  Spend(p) < SessionCap[p] + Cardinality(Threads)
    BY DEF SessionOvershootBounded
  <2>1. Spend(p) \in Nat /\ SessionCap[p] \in Nat
    BY SpendType, RoutingAssumption DEF TypeInv, TypeOK
  <2>2. Cardinality(CommittedTo(p)) \in Nat /\ N \in Nat
    BY CountThreads DEF CommittedTo
  <2> QED
    BY <2>1, <2>2 DEF SessionInv, N
<1> QED
  BY <1>1, <1>3, <1>4, TypeInit, TypeNext, PTL DEF Spec
-----------------------------------------------------------------------------
(* Threads that may still put project p further ahead of q: they have chosen
   p, or have read that it is not ahead. *)
Pushing(p, q) ==
  {t \in Threads :
     \/ Chose(t, p)
     \/ pc[t] = "choosing" /\ seen[t][p] <= seen[t][q]}

Usable(q) == q \notin failed /\ Spend(q) < SessionCap[q]

BalanceInv ==
  \A p, q \in Providers :
    p # q /\ Usable(q) => Spend(p) + Cardinality(Pushing(p, q)) <= Spend(q) + N

(* What was not usable never is again. *)
LEMMA UsableBefore ==
  ASSUME TypeInv, NEW t \in Threads, Ask(t) \/ Generate(t), NEW q \in Providers, Usable(q)'
  PROVE  Usable(q)
<1>1. failed \subseteq failed'
  BY DEF Generate, Ask, Gate, Attempt, ReadSpend, Choose, Respond, Record, Fail
<1>2. Spend(q) \in Nat /\ Spend(q)' \in Nat /\ Spend(q) <= Spend(q)' /\ SessionCap[q] \in Nat
  BY SpendStays, RoutingAssumption
<1> QED
  BY <1>1, <1>2 DEF Usable

LEMMA BalanceStep ==
  ASSUME TypeInv, SeenBefore, BalanceInv, NEW t \in Threads, Ask(t) \/ Generate(t)
  PROVE  BalanceInv'
<1> SUFFICES ASSUME NEW p \in Providers, NEW q \in Providers, p # q, Usable(q)'
             PROVE  Spend(p)' + Cardinality(Pushing(p, q)') <= Spend(q)' + N
  BY DEF BalanceInv
<1>1. Pushing(p, q) \in SUBSET Threads /\ Pushing(p, q)' \in SUBSET Threads
  BY DEF Pushing
<1>2. /\ Cardinality(Pushing(p, q)) \in Nat /\ Cardinality(Pushing(p, q)') \in Nat
      /\ Cardinality(Pushing(p, q)') <= N /\ N \in Nat
  BY <1>1, CountThreads
<1>3. /\ Spend(p) \in Nat /\ Spend(p)' \in Nat
      /\ Spend(q) \in Nat /\ Spend(q)' \in Nat /\ Spend(q) <= Spend(q)'
  BY SpendStays
<1>4. Usable(q) /\ Spend(p) + Cardinality(Pushing(p, q)) <= Spend(q) + N
  BY UsableBefore DEF BalanceInv
<1>5. \A u \in Threads \ {t} : u \in Pushing(p, q)' <=> u \in Pushing(p, q)
  BY OthersStay DEF Pushing, Chose
<1>6. CASE ledger' = ledger
  <2>1. Spend(p)' = Spend(p)
    BY <1>6, SpendStays
  <2>2. CASE Pushing(p, q)' \subseteq Pushing(p, q)
    <3>1. Cardinality(Pushing(p, q)') <= Cardinality(Pushing(p, q))
      BY <1>1, <2>2, FewerThreads
    <3> QED
      BY <1>2, <1>3, <1>4, <2>1, <3>1
  <2>3. CASE ~(Pushing(p, q)' \subseteq Pushing(p, q))
    <3>1. t \in Pushing(p, q)' /\ t \notin Pushing(p, q)
      BY <1>1, <1>5, <2>3
    <3>2. CASE Chose(t, p)'
      <4>1. ~Chose(t, p)
        BY <3>1 DEF Pushing
      <4>2. Choose(t) /\ \A r \in Candidates(t) : Cheaper(t, p, r)
        BY <3>2, <4>1, ChoseStep
      <4>3. pc[t] = "choosing" /\ seen[t][q] <= Spend(q) /\ seen[t] \in [Providers -> Nat]
        BY <4>2 DEF Choose, SeenBefore, TypeInv, TypeOK
      <4>4. q \in Candidates(t)
        BY <1>3, <1>4, <4>3, RoutingAssumption DEF Usable, Candidates
      <4>5. seen[t][p] <= seen[t][q]
        BY <4>2, <4>3, <4>4 DEF Cheaper
      <4>6. t \in Pushing(p, q)
        BY <4>3, <4>5 DEF Pushing
      <4> QED
        BY <3>1, <4>6
    <3>3. CASE pc'[t] = "choosing" /\ seen'[t][p] <= seen'[t][q]
      <4>1. Spend(p) <= Spend(q)
        BY <3>3, ToChoosing
      <4> QED
        BY <1>2, <1>3, <2>1, <4>1
    <3> QED
      BY <3>1, <3>2, <3>3 DEF Pushing
  <2> QED
    BY <2>2, <2>3
<1>7. CASE /\ Record(t) /\ pc[t] = "recording" /\ outcome[t] \in Charged
           /\ chosen[t] \in Providers /\ ledger' = Append(ledger, chosen[t])
  <2>1. t \notin Pushing(p, q)'
    BY <1>7, LeavesRecording DEF Pushing, Chose
  <2>2. CASE chosen[t] = p
    <3>1. Chose(t, p)
      BY <1>7, <2>2 DEF Chose
    <3>2. t \in Pushing(p, q)
      BY <3>1 DEF Pushing
    <3>3. Pushing(p, q)' \in SUBSET (Pushing(p, q) \ {t})
      BY <1>1, <1>5, <2>1
    <3>4. Cardinality(Pushing(p, q)') <= Cardinality(Pushing(p, q)) - 1
      BY <1>1, <3>2, <3>3, OneThreadLess
    <3>5. Spend(p)' = Spend(p) + 1
      BY <1>7, <2>2, SpendStays
    <3> QED
      BY <1>2, <1>3, <1>4, <3>4, <3>5
  <2>3. CASE chosen[t] # p
    <3>1. Pushing(p, q)' \in SUBSET Pushing(p, q)
      BY <1>1, <1>5, <2>1
    <3>2. Cardinality(Pushing(p, q)') <= Cardinality(Pushing(p, q))
      BY <1>1, <3>1, FewerThreads
    <3>3. Spend(p)' = Spend(p)
      BY <1>7, <2>3, SpendStays
    <3> QED
      BY <1>2, <1>3, <1>4, <3>2, <3>3
  <2> QED
    BY <2>2, <2>3
<1> QED
  BY <1>6, <1>7, Charge

(* However stale the spend that a thread chooses by, a project is ahead of a
   usable one by at most a call per concurrent request. *)
THEOREM LoadIsBalanced == Spec => []BalancedLoad
<1>1. Init => BalanceInv
  <2> SUFFICES ASSUME Init, NEW p \in Providers, NEW q \in Providers
               PROVE  Spend(p) + Cardinality(Pushing(p, q)) <= Spend(q) + N
    BY DEF BalanceInv
  <2>1. Pushing(p, q) = {}
    BY DEF Init, Pushing, Chose
  <2>2. {i \in DOMAIN ledger : ledger[i] = p} = {} /\ {i \in DOMAIN ledger : ledger[i] = q} = {}
    BY DEF Init
  <2>3. N \in Nat
    BY CountThreads
  <2> QED
    BY <2>1, <2>2, <2>3, FS_EmptySet DEF Spend
<1>2. TypeInv /\ BalanceInv /\ UNCHANGED vars => BalanceInv'
  BY DEF BalanceInv, Usable, Pushing, Chose, Spend, vars
<1>3. (TypeInv /\ SeenBefore) /\ BalanceInv /\ [Next]_vars => BalanceInv'
  BY <1>2, BalanceStep DEF Next
<1>4. (TypeInv /\ SeenBefore) /\ BalanceInv => BalancedLoad
  <2> SUFFICES ASSUME TypeInv, BalanceInv, NEW p \in Providers, NEW q \in Providers, Usable(q)
               PROVE  Spend(p) <= Spend(q) + Cardinality(Threads)
    BY DEF BalancedLoad, Usable
  <2>1. Spend(p) \in Nat /\ Spend(q) \in Nat
    BY SpendType DEF TypeInv, TypeOK
  <2>2. Cardinality(Pushing(p, q)) \in Nat /\ N \in Nat
    BY CountThreads DEF Pushing
  <2>3. CASE p = q
    BY <2>1, <2>2, <2>3 DEF N
  <2>4. CASE p # q
    BY <2>1, <2>2, <2>4 DEF BalanceInv, N
  <2> QED
    BY <2>3, <2>4
<1> QED
  BY <1>1, <1>3, <1>4, SeenHolds, PTL DEF Spec

-----------------------------------------------------------------------------
(* What a request has called has failed, but for the project in its hands. *)
Moving(t) ==
  /\ pc[t] \in {"idle", "gate"} => tried[t] = {}
  /\ pc[t] \in {"loop", "selecting", "choosing", "calling"} => tried[t] \subseteq failed
  /\ pc[t] = "calling" => chosen[t] \notin tried[t]
  /\ pc[t] \in {"recording", "failing"} => tried[t] \subseteq failed \cup {chosen[t]}

MovingOn == \A t \in Threads : Moving(t)

LEMMA MovingStep ==
  ASSUME TypeInv, MovingOn, NEW t \in Threads, Ask(t) \/ Generate(t)
  PROVE  MovingOn'
<1>1. failed \subseteq failed'
  BY DEF Generate, Ask, Gate, Attempt, ReadSpend, Choose, Respond, Record, Fail
<1>2. \A u \in Threads \ {t} : Moving(u)'
  BY <1>1, OthersStay DEF MovingOn, Moving
<1>3. Moving(t)
  BY DEF MovingOn
<1>4. ASSUME NEW what, Answer(t, what) PROVE Moving(t)'
  BY <1>4 DEF Moving, Answer, Goto, TypeInv, TypeOK
<1>5. Moving(t)'
  <2>1. CASE Ask(t) \/ ReadSpend(t) \/ Fail(t)
    BY <1>3, <2>1 DEF Moving, Ask, ReadSpend, Fail, Continue, Goto, TypeInv, TypeOK
  <2>2. CASE Gate(t)
    <3>1. CASE Continue(t, "loop")
      BY <1>3, <2>2, <3>1 DEF Moving, Gate, Continue, Goto, TypeInv, TypeOK
    <3> QED
      BY <1>4, <2>2, <3>1 DEF Gate
  <2>3. CASE Attempt(t)
    <3>1. CASE Goto(t, "selecting") /\ UNCHANGED <<chosen, result, tried>>
      BY <1>3, <2>3, <3>1 DEF Moving, Attempt, Goto, TypeInv, TypeOK
    <3> QED
      BY <1>4, <2>3, <3>1 DEF Attempt
  <2>4. CASE Choose(t)
    <3>1. CASE Pick(t)
      <4>1. PICK p \in Candidates(t) : chosen' = [chosen EXCEPT ![t] = p]
        BY <3>1 DEF Pick
      <4>2. p \notin failed /\ chosen'[t] = p
        BY <4>1 DEF Candidates, TypeInv, TypeOK
      <4>3. failed' = failed /\ tried' = tried /\ pc[t] = "choosing" /\ pc'[t] = "calling"
        BY <2>4, <3>1 DEF Choose, Pick, Goto, TypeInv, TypeOK
      <4> QED
        BY <1>3, <4>2, <4>3 DEF Moving
    <3> QED
      BY <1>4, <2>4, <3>1 DEF Choose
  <2>5. CASE Respond(t)
    <3>1. /\ failed' = failed /\ chosen' = chosen /\ tried'[t] = tried[t] \cup {chosen[t]}
          /\ pc[t] = "calling" /\ pc'[t] = "recording"
      BY <2>5 DEF Respond, Goto, TypeInv, TypeOK
    <3> QED
      BY <1>3, <3>1 DEF Moving
  <2>6. CASE Record(t)
    <3>1. CASE Continue(t, "failing")
      BY <1>3, <2>6, <3>1 DEF Moving, Record, Continue, Goto, TypeInv, TypeOK
    <3> QED
      BY <1>4, <2>6, <3>1 DEF Record, Classify
  <2> QED
    BY <2>1, <2>2, <2>3, <2>4, <2>5, <2>6 DEF Generate
<1> QED
  BY <1>2, <1>5 DEF MovingOn

(* A request that fails over moves on: it never calls a project twice. *)
THEOREM RequestsMoveOn == Spec => []FailoverMovesOn
<1>1. Init => MovingOn
  BY DEF Init, MovingOn, Moving
<1>2. TypeInv /\ MovingOn /\ UNCHANGED vars => MovingOn'
  BY DEF vars, MovingOn, Moving
<1>3. TypeInv /\ MovingOn /\ [Next]_vars => MovingOn'
  BY <1>2, MovingStep DEF Next
<1>4. MovingOn => FailoverMovesOn
  BY DEF MovingOn, Moving, FailoverMovesOn
<1> QED
  BY <1>1, <1>3, <1>4, TypeInit, TypeNext, PTL DEF Spec

-----------------------------------------------------------------------------
UsedUp == BudgetExhausted \/ \A p \in Providers : p \in failed \/ Spend(p) >= SessionCap[p]

(* What is used up stays so. *)
LEMMA StaysUsedUp ==
  ASSUME TypeInv, UsedUp, NEW t \in Threads, Ask(t) \/ Generate(t)
  PROVE  UsedUp'
<1>1. failed \subseteq failed'
  BY DEF Generate, Ask, Gate, Attempt, ReadSpend, Choose, Respond, Record, Fail
<1>2. \A p \in Providers : p \in failed \/ Spend(p) >= SessionCap[p] => p \in failed' \/ Spend(p)' >= SessionCap[p]
  <2> SUFFICES ASSUME NEW p \in Providers, Spend(p) >= SessionCap[p] PROVE Spend(p)' >= SessionCap[p]
    BY <1>1
  <2>1. Spend(p) \in Nat /\ Spend(p)' \in Nat /\ Spend(p) <= Spend(p)' /\ SessionCap[p] \in Nat
    BY SpendStays, RoutingAssumption
  <2> QED
    BY <2>1
<1>3. Len(ledger) \in Nat /\ Len(ledger') \in Nat /\ Len(ledger) <= Len(ledger')
  <2>1. ledger \in Seq(Providers)
    BY DEF TypeInv, TypeOK
  <2>2. CASE ledger' = ledger
    BY <2>1, <2>2
  <2>3. ASSUME NEW p \in Providers, ledger' = Append(ledger, p)
        PROVE  Len(ledger') = Len(ledger) + 1
    BY <2>1, <2>3
  <2> QED
    BY <2>1, <2>2, <2>3, Charge DEF TypeInv, TypeOK
<1>4. BudgetExhausted => BudgetExhausted'
  BY <1>3, RoutingAssumption DEF BudgetExhausted, TotalSpend
<1> QED
  BY <1>2, <1>4 DEF UsedUp

LEMMA NoProviderStep ==
  ASSUME TypeInv, SeenBefore, NoProviderMeansNone, NEW t \in Threads, Ask(t) \/ Generate(t)
  PROVE  NoProviderMeansNone'
<1> SUFFICES ASSUME NEW u \in Threads, result'[u] = "no_provider" PROVE UsedUp'
  BY DEF NoProviderMeansNone, UsedUp
<1>1. CASE result[u] = "no_provider"
  <2>1. UsedUp
    BY <1>1 DEF NoProviderMeansNone, UsedUp
  <2> QED
    BY <2>1, StaysUsedUp
<1>2. CASE result[u] # "no_provider"
  <2>1. u = t
    BY <1>2, OthersStay
  <2>2. CASE Attempt(t)
    <3>1. BudgetExhausted
      BY <1>2, <2>1, <2>2 DEF Attempt
    <3> QED
      BY <3>1, StaysUsedUp DEF UsedUp
  <2>3. CASE Choose(t)
    <3>1. Candidates(t) = {} /\ pc[t] = "choosing"
      BY <1>2, <2>1, <2>3 DEF Choose, Pick
    <3>2. ASSUME NEW p \in Providers \ failed PROVE Spend(p) >= SessionCap[p]
      <4>1. seen[t][p] <= Spend(p) /\ seen[t][p] \in Nat /\ Spend(p) \in Nat /\ SessionCap[p] \in Nat
        BY <3>1, SpendStays, RoutingAssumption DEF SeenBefore, TypeInv, TypeOK
      <4> QED
        BY <3>1, <4>1 DEF Candidates
    <3>3. UsedUp
      BY <3>2 DEF UsedUp
    <3> QED
      BY <3>3, StaysUsedUp
  <2>4. CASE Ask(t) \/ Gate(t) \/ ReadSpend(t) \/ Respond(t) \/ Record(t) \/ Fail(t)
    <3>1. result'[t] # "no_provider"
      BY <1>2, <2>1, <2>4 DEF Ask, Gate, ReadSpend, Respond, Record, Classify, Fail, Answer, Continue, TypeInv, TypeOK
    <3> QED
      BY <2>1, <3>1
  <2> QED
    BY <2>2, <2>3, <2>4 DEF Generate
<1> QED
  BY <1>1, <1>2

(* The fallback for want of a provider is given when there is none, though it
   is decided on a spend that may be stale: spend only grows, and what failed
   stays so. *)
THEOREM NoProviderIsTrue == Spec => []NoProviderMeansNone
<1>1. Init => NoProviderMeansNone
  BY DEF Init, NoProviderMeansNone
<1>2. (TypeInv /\ SeenBefore) /\ NoProviderMeansNone /\ UNCHANGED vars => NoProviderMeansNone'
  BY DEF vars, NoProviderMeansNone, BudgetExhausted, TotalSpend, Spend
<1>3. (TypeInv /\ SeenBefore) /\ NoProviderMeansNone /\ [Next]_vars => NoProviderMeansNone'
  BY <1>2, NoProviderStep DEF Next
<1> QED
  BY <1>1, <1>3, SeenHolds, PTL DEF Spec

-----------------------------------------------------------------------------
(* Threads with a 200 in hand. *)
InHand == {t \in Threads : pc[t] = "recording" /\ outcome[t] \in Charged}

LEMMA ChargedStep ==
  ASSUME TypeInv, EveryCallCharged, NEW t \in Threads, Ask(t) \/ Generate(t)
  PROVE  EveryCallCharged'
<1>1. InHand \in SUBSET Threads /\ InHand' \in SUBSET Threads
  BY DEF InHand
<1>2. IsFiniteSet(InHand) /\ Cardinality(InHand) \in Nat /\ IsFiniteSet(InHand') /\ Cardinality(InHand') \in Nat
  BY <1>1, CountThreads
<1>3. Len(ledger) \in Nat /\ billed = Len(ledger) + Cardinality(InHand)
  BY DEF TypeInv, TypeOK, EveryCallCharged, TotalSpend, InHand
<1>4. \A u \in Threads \ {t} : u \in InHand' <=> u \in InHand
  BY OthersStay DEF InHand
<1> SUFFICES billed' = Len(ledger') + Cardinality(InHand')
  BY DEF EveryCallCharged, TotalSpend, InHand
<1>5. CASE Respond(t)
  <2>1. ledger' = ledger /\ t \notin InHand
    BY <1>5 DEF Respond, InHand
  <2>2. PICK o \in Outcomes :
          /\ outcome' = [outcome EXCEPT ![t] = o]
          /\ billed' = IF o \in Charged THEN billed + 1 ELSE billed
    BY <1>5 DEF Respond
  <2>3. t \in InHand' <=> o \in Charged
    BY <1>5, <2>2 DEF Respond, Goto, InHand, TypeInv, TypeOK
  <2>4. CASE o \in Charged
    <3>1. InHand' = InHand \cup {t}
      BY <1>1, <1>4, <2>3, <2>4
    <3>2. Cardinality(InHand') = Cardinality(InHand) + 1
      BY <1>2, <2>1, <3>1, FS_AddElement
    <3> QED
      BY <1>2, <1>3, <2>1, <2>2, <2>4, <3>2
  <2>5. CASE o \notin Charged
    <3>1. InHand' = InHand
      BY <1>1, <1>4, <2>1, <2>3, <2>5
    <3> QED
      BY <1>3, <2>1, <2>2, <2>5, <3>1
  <2> QED
    BY <2>4, <2>5
<1>6. CASE Record(t)
  <2>1. billed' = billed /\ t \notin InHand' /\ pc[t] = "recording"
    BY <1>6, LeavesRecording DEF Record, InHand
  <2>2. CASE outcome[t] \in Charged
    <3>1. ledger' = Append(ledger, chosen[t])
      BY <1>6, <2>2 DEF Record
    <3>2. Len(ledger') = Len(ledger) + 1
      BY <2>1, <3>1 DEF TypeInv, TypeOK, ChosenInHand
    <3>3. t \in InHand
      BY <2>1, <2>2 DEF InHand
    <3>4. InHand' = InHand \ {t}
      BY <1>1, <1>4, <2>1
    <3>5. Cardinality(InHand') = Cardinality(InHand) - 1
      BY <1>2, <3>3, <3>4, FS_RemoveElement
    <3> QED
      BY <1>2, <1>3, <2>1, <3>2, <3>5
  <2>3. CASE outcome[t] \notin Charged
    <3>1. ledger' = ledger /\ t \notin InHand
      BY <1>6, <2>3 DEF Record, InHand
    <3>2. InHand' = InHand
      BY <1>1, <1>4, <2>1, <3>1
    <3> QED
      BY <1>3, <2>1, <3>1, <3>2
  <2> QED
    BY <2>2, <2>3
<1>7. CASE Ask(t) \/ Gate(t) \/ Attempt(t) \/ ReadSpend(t) \/ Choose(t) \/ Fail(t)
  <2>1. billed' = billed /\ ledger' = ledger
    BY <1>7 DEF Ask, Gate, Attempt, ReadSpend, Choose, Fail
  <2>2. t \notin InHand
    BY <1>7 DEF Ask, Gate, Attempt, ReadSpend, Choose, Fail, InHand
  <2>3. pc'[t] # "recording"
    BY <1>7 DEF Ask, Gate, Attempt, ReadSpend, Choose, Pick, Fail, Answer, Continue, Goto, TypeInv, TypeOK
  <2>4. InHand' = InHand
    BY <1>1, <1>4, <2>2, <2>3 DEF InHand
  <2> QED
    BY <1>3, <2>1, <2>4
<1> QED
  BY <1>5, <1>6, <1>7 DEF Generate

(* No 200 goes uncharged, whatever its body and whoever records beside it. *)
THEOREM CallsAreCharged == Spec => []EveryCallCharged
<1>1. Init => EveryCallCharged
  <2> SUFFICES ASSUME Init PROVE EveryCallCharged
    OBVIOUS
  <2>1. {t \in Threads : pc[t] = "recording" /\ outcome[t] \in Charged} = {} /\ Len(ledger) = 0 /\ billed = 0
    BY DEF Init
  <2> QED
    BY <2>1, FS_EmptySet DEF EveryCallCharged, TotalSpend
<1>2. TypeInv /\ EveryCallCharged /\ UNCHANGED vars => EveryCallCharged'
  BY DEF vars, EveryCallCharged, TotalSpend
<1>3. TypeInv /\ EveryCallCharged /\ [Next]_vars => EveryCallCharged'
  BY <1>2, ChargedStep DEF Next
<1> QED
  BY <1>1, <1>3, TypeInit, TypeNext, PTL DEF Spec
=============================================================================
