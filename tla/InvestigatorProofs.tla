------------------------- MODULE InvestigatorProofs -------------------------
(***************************************************************************)
(* Proofs about Investigator and InvestigationPolicy, for every dataset,   *)
(* lead, set of model proposals and step budget the assumptions of         *)
(* CanonicalData and Investigator admit.  The second part is about the     *)
(* traces the investigator reads: MoneyTrail computes what                 *)
(* MoneyTrailReference promises, and what it computes is what the first    *)
(* part assumes of a trace.                                                *)
(***************************************************************************)
EXTENDS InvestigationPolicy, MoneyTrailReference, SequenceTheorems, FunctionTheorems,
        FiniteSetTheorems, WellFoundedInduction, TLAPS

(* A call reaches the tools only once validated. *)
ValidatedFirst == phase \in {"execute", "decide"} => pending \in ValidCalls

TypeInv == TypeOK /\ ValidatedFirst

-----------------------------------------------------------------------------
(* The arguments a valid call carries, by tool. *)
LEMMA CallFields ==
  ASSUME NEW call \in ValidCalls
  PROVE  /\ call.tool = "trace_outgoing_funds" =>
              call.account \in Accounts /\ call.depth \in Depths
         /\ call.tool = "inspect_counterparties" => call.tally \in [Rfcs -> Nat]
         /\ call.tool \in {"inspect_invoices", "check_regulatory_status"} => call.rfc \in Rfcs
         /\ call.tool = "calculate_exposure" =>
              call.root \in TxRefs /\ call.returned \in TxRefs \cup {None}
  BY DEF ValidCalls

(* The calls of the plan: the trace, and the three that depend on what it
   left in the context. *)
PlannedTrace == TraceCall(lead.account, 3)
PlannedInspection == InspectCall(Distinct(ctx.rfcs), 0)
PlannedCheck == RegulatoryCall(ctx.rfcs[1])
PlannedExposure == ExposureCall(ctx.root, ctx.returned)

LEMMA PlannedCallsAreValid ==
  ASSUME TypeOK
  PROVE  /\ PlannedTrace \in Calls
         /\ ctx.rfcs # << >> => PlannedInspection \in ValidCalls /\ PlannedCheck \in ValidCalls
         /\ ctx.root # None => PlannedExposure \in ValidCalls
<1> USE InvestigatorAssumption DEF TypeOK
<1>1. PlannedTrace \in Calls
  <2>1. lead.account \in Accounts \cup {NoAccount}
    OBVIOUS
  <2> QED
    BY <2>1 DEF PlannedTrace, Calls, ValidCalls, TraceCall, Depths
<1>2. ctx.rfcs # << >> => 1 \in DOMAIN ctx.rfcs /\ ctx.rfcs[1] \in Rfcs
  BY DEF Context
<1>3. ctx.rfcs # << >> => PlannedInspection \in ValidCalls
  <2>1. Distinct(ctx.rfcs) \in [Rfcs -> Nat]
    BY DEF Distinct
  <2>2. ctx.rfcs # << >> => Distinct(ctx.rfcs)[ctx.rfcs[1]] = 1
    BY <1>2 DEF Distinct
  <2>3. ctx.rfcs # << >> => Distinct(ctx.rfcs) # NoRfcs
    BY <1>2, <2>2 DEF NoRfcs
  <2> QED
    BY <2>1, <2>3 DEF ValidCalls, InspectCall, PlannedInspection
<1>4. ctx.rfcs # << >> => PlannedCheck \in ValidCalls
  BY <1>2 DEF ValidCalls, RegulatoryCall, PlannedCheck
<1>5. ctx.root # None => PlannedExposure \in ValidCalls
  BY DEF ValidCalls, ExposureCall, Context, TxRefs, PlannedExposure
<1> QED
  BY <1>1, <1>3, <1>4, <1>5

(* The plan only ever asks for well-formed calls. *)
LEMMA PlanIsWellFormed ==
  ASSUME TypeOK, NEW count
  PROVE  NextDeterministicAction(count) \in Calls \cup {NoCall}
<1>1. PlannedTrace \in Calls
  BY PlannedCallsAreValid
<1>2. ctx.rfcs # << >> => PlannedInspection \in Calls /\ PlannedCheck \in Calls
  BY PlannedCallsAreValid DEF Calls
<1>3. ctx.root # None => PlannedExposure \in Calls
  BY PlannedCallsAreValid DEF Calls
<1> QED
  BY <1>1, <1>2, <1>3 DEF NextDeterministicAction, PlannedTrace, PlannedInspection, PlannedCheck,
     PlannedExposure

(* Reduce keeps every variable it touches well formed. *)
LEMMA ReduceTypes ==
  ASSUME TypeOK, pending \in ValidCalls,
         NEW newCtx \in Context,
         NEW found \in SUBSET Sources,
         NEW records \in SUBSET [source : EvidenceSources, strength : Strengths],
         Reduce(newCtx, found, records)
  PROVE  TypeInv'
<1>1. Fresh(records) \subseteq [source : EvidenceSources, strength : Strengths]
  BY DEF Fresh
<1> QED
  BY <1>1 DEF Reduce, TypeInv, TypeOK, ValidatedFirst

LEMMA TypeInit == Init => TypeInv
<1> SUFFICES ASSUME Init PROVE TypeInv
  OBVIOUS
<1> USE InvestigatorAssumption, RecordsAssumption DEF Init
<1>1. ctx \in Context
  BY DEF Context, Hypothesis, TxRefs
<1>2. stepCount \in 0..MaxSteps /\ steps \in Seq(Step)
  OBVIOUS
<1>3. case \in [status : {"PENDING", "SUBSTANTIATED", "UNSUBSTANTIATED",
                         "INSUFFICIENT_EVIDENCE"}, amount : Nat]
  BY DEF NoCase
<1> QED
  BY <1>1, <1>2, <1>3 DEF TypeInv, TypeOK, ValidatedFirst

(* Recording a step and stopping keeps the types. *)
LEMMA FinishTypes ==
  ASSUME TypeInv, NEW decision \in {"DISCARD", "ESCALATE", "CONCLUDE"},
         NEW by \in {"tool"} \cup Guards, Finish(decision, by),
         UNCHANGED <<lead, configured, stepCount, pending, calls, sources, ctx, evidence,
                     progress, case>>
  PROVE  TypeInv'
  BY DEF Finish, TypeInv, TypeOK, ValidatedFirst, Step, Calls, Context

LEMMA TraceTypes == TypeInv /\ TraceFunds => TypeInv'
<1> SUFFICES ASSUME TypeInv, TraceFunds PROVE TypeInv'
  OBVIOUS
<1> DEFINE trail   == TrailOf(pending.account, pending.depth, ctx.root)
           payment == IF trail.payment = None THEN ctx.payment ELSE trail.payment
           linked  == LinkedRecords(payment)
           first   == SubSeq(trail.focus, 1, IF Len(trail.focus) < 3 THEN Len(trail.focus)
                                             ELSE 3)
           next    == [ctx EXCEPT !.focus = trail.focus,
                                  !.root = trail.root,
                                  !.payment = payment,
                                  !.returned = IF trail.returned = None THEN @
                                               ELSE trail.returned,
                                  !.rfcs = trail.rfcs,
                                  !.hypothesis = Hypothesis("trail", first)]
<1> USE DEF TypeInv
<1>1. ctx \in Context /\ pending \in ValidCalls
  BY DEF TypeOK, ValidatedFirst, TraceFunds
<1>2. trail \in TrailDigest /\ FocusSet(trail) \subseteq trail.found
  <2>1. pending.account \in Accounts /\ pending.depth \in Depths
    BY <1>1, CallFields DEF TraceFunds
  <2>2. ctx.root \in TxRefs \cup {None}
    BY <1>1 DEF Context
  <2> QED
    BY <2>1, <2>2, TrailAssumption DEF FocusSet
<1>3. linked \subseteq [source : EvidenceSources, strength : Strengths]
        /\ {r.source : r \in linked} \subseteq Sources
  <2>1. payment \in Payments => InvoiceOf[payment] \in Invoices \cup {None}
    BY FieldsAssumption
  <2> QED
    BY <2>1 DEF LinkedRecords, Record, Source, EvidenceSources, Sources, Strengths
<1>4. CASE trail.found = {}
  <2>1. [ctx EXCEPT !.empty_trace = TRUE] \in Context
    BY <1>1 DEF Context
  <2>2. Reduce([ctx EXCEPT !.empty_trace = TRUE], {}, {})
    BY <1>4 DEF TraceFunds
  <2> QED
    BY <1>1, <2>1, <2>2, ReduceTypes
<1>5. CASE trail.found # {}
  <2>1. next \in Context
    <3>1. first \in Seq(TxRefs \cup Rfcs \cup {None})
      BY <1>2 DEF TrailDigest, TxRefs
    <3>2. payment \in PaymentIds \cup {None}
      BY <1>1, <1>2 DEF TrailDigest, Context
    <3>3. Hypothesis("trail", first)
            \in [template : {"lead", "trail", "counterparties", "exposure"},
                 ids : Seq(TxRefs \cup Rfcs \cup {None})]
      BY <3>1 DEF Hypothesis
    <3> HIDE DEF payment, first
    <3> QED
      BY <1>1, <1>2, <3>2, <3>3, ZenonT(40) DEF TrailDigest, Context
  <2>2. Reduce(next, {Source("TX", t) : t \in trail.found} \cup {r.source : r \in linked},
               {Record("TX", t, "DIRECT") : t \in FocusSet(trail)} \cup linked)
    BY <1>5 DEF TraceFunds
  <2>3. {Source("TX", t) : t \in trail.found} \cup {r.source : r \in linked}
          \in SUBSET Sources
    BY <1>2, <1>3 DEF TrailDigest, Source, Sources
  <2>4. {Record("TX", t, "DIRECT") : t \in FocusSet(trail)} \cup linked
          \in SUBSET [source : EvidenceSources, strength : Strengths]
    <3>1. FocusSet(trail) \subseteq Transactions
      BY <1>2 DEF TrailDigest
    <3> QED
      BY <1>3, <3>1 DEF Record, Source, EvidenceSources, Strengths
  <2> HIDE DEF next, linked
  <2> QED
    BY <1>1, <2>1, <2>2, <2>3, <2>4, ReduceTypes
<1> QED
  BY <1>4, <1>5

LEMMA ToolTypes ==
  TypeInv /\ (InspectCounterparties \/ InspectInvoices \/ CheckRegulatoryStatus
              \/ CalculateExposure) => TypeInv'
<1> SUFFICES ASSUME TypeInv,
                    InspectCounterparties \/ InspectInvoices \/ CheckRegulatoryStatus
                      \/ CalculateExposure
             PROVE  TypeInv'
  OBVIOUS
<1> USE DEF TypeInv
<1>1. ctx \in Context /\ pending \in ValidCalls
  BY DEF TypeOK, ValidatedFirst, InspectCounterparties, InspectInvoices,
         CheckRegulatoryStatus, CalculateExposure
<1>2. CASE InspectCounterparties
  <2> DEFINE asked == {r \in Rfcs : pending.tally[r] > 0}
             next  == [ctx EXCEPT !.hypothesis = Hypothesis("counterparties", ctx.rfcs)]
             found == {Source("ENTITY", r) : r \in asked \cap Entities}
                        \cup {Source("PROVIDER", r) : r \in asked \cap Providers}
             records == {Record("CPTY", r, "CORROBORATING") : r \in asked}
  <2>1. next \in Context
    <3>1. ctx.rfcs \in Seq(TxRefs \cup Rfcs \cup {None})
      BY <1>1 DEF Context
    <3> QED
      BY <1>1, <3>1 DEF Context, Hypothesis
  <2>2. found \in SUBSET Sources
    BY DEF Source, Sources
  <2>3. records \in SUBSET [source : EvidenceSources, strength : Strengths]
    BY DEF Record, Source, EvidenceSources, Strengths
  <2>4. Reduce(next, found, records)
    BY <1>2 DEF InspectCounterparties
  <2> HIDE DEF next, found, records
  <2> QED
    BY <1>1, <2>1, <2>2, <2>3, <2>4, ReduceTypes
<1>3. CASE InspectInvoices
  <2> DEFINE found   == {Source("INV", i) : i \in IssuedBy[pending.rfc]}
             records == {Record("INV", i, "CORROBORATING") : i \in IssuedBy[pending.rfc]}
  <2>1. IssuedBy[pending.rfc] \subseteq Invoices
    BY <1>1, <1>3, CallFields, FieldsAssumption DEF InspectInvoices
  <2>2. found \in SUBSET Sources
    BY <2>1 DEF Source, Sources
  <2>3. records \in SUBSET [source : EvidenceSources, strength : Strengths]
    BY <2>1 DEF Record, Source, EvidenceSources, Strengths
  <2>4. Reduce(ctx, found, records)
    BY <1>3 DEF InspectInvoices
  <2> HIDE DEF found, records
  <2> QED
    BY <1>1, <2>2, <2>3, <2>4, ReduceTypes
<1>4. CASE CheckRegulatoryStatus
  <2> DEFINE found   == {Source("PROVIDER", r) : r \in {pending.rfc} \cap Providers}
             records == {Record("EFOS", pending.rfc, "CIRCUMSTANTIAL")}
  <2>1. pending.rfc \in Rfcs
    BY <1>1, <1>4, CallFields DEF CheckRegulatoryStatus
  <2>2. found \in SUBSET Sources
    BY <2>1 DEF Source, Sources
  <2>3. records \in SUBSET [source : EvidenceSources, strength : Strengths]
    BY <2>1 DEF Record, Source, EvidenceSources, Strengths
  <2>4. Reduce(ctx, found, records)
    BY <1>4 DEF CheckRegulatoryStatus
  <2> HIDE DEF found, records
  <2> QED
    BY <1>1, <2>2, <2>3, <2>4, ReduceTypes
<1>5. CASE CalculateExposure
  <2> DEFINE exposure == RootFlowExposure(pending.root, pending.returned)
             next == [ctx EXCEPT !.root = pending.root,
                                 !.exposure = exposure,
                                 !.hypothesis = Hypothesis("exposure",
                                                  <<pending.root, pending.returned>>)]
             found == {Source("TX", t) : t \in {pending.root, pending.returned}
                                               \cap Transactions}
             records == {Record("EXPOSURE", pending.root, "DIRECT")}
  <2>1. pending.root \in Transactions /\ pending.returned \in TxRefs \cup {None}
    BY <1>1, <1>5, CallFields DEF CalculateExposure
  <2>2. exposure \in Exposures
    BY <2>1, FieldsAssumption DEF RootFlowExposure, Exposures
  <2>3. Hypothesis("exposure", <<pending.root, pending.returned>>)
          \in [template : {"lead", "trail", "counterparties", "exposure"},
               ids : Seq(TxRefs \cup Rfcs \cup {None})]
    BY <2>1 DEF Hypothesis, TxRefs
  <2>4. next \in Context
    <3> HIDE DEF exposure
    <3> QED
      BY <1>1, <2>1, <2>2, <2>3 DEF Context, TxRefs
  <2>5. found \in SUBSET Sources
    BY DEF Source, Sources
  <2>6. records \in SUBSET [source : EvidenceSources, strength : Strengths]
    BY <2>1 DEF Record, Source, EvidenceSources, Strengths
  <2>7. Reduce(next, found, records)
    BY <1>5 DEF CalculateExposure
  <2> HIDE DEF next, found, records
  <2> QED
    BY <1>1, <2>4, <2>5, <2>6, <2>7, ReduceTypes
<1> QED
  BY <1>2, <1>3, <1>4, <1>5

LEMMA BuildTypes == TypeInv /\ BuildCase => TypeInv'
<1> SUFFICES ASSUME TypeInv, BuildCase PROVE TypeInv'
  OBVIOUS
<1> DEFINE status  == CaseStatus(steps[Len(steps)].decision)
           carries == ctx.exposure # None /\ status # "UNSUBSTANTIATED"
<1>1. status \in {"SUBSTANTIATED", "UNSUBSTANTIATED", "INSUFFICIENT_EVIDENCE"}
  BY DEF CaseStatus
<1>2. (IF carries THEN ctx.exposure.supported ELSE 0) \in Nat
  BY DEF TypeInv, TypeOK, Context, Exposures
<1>3. case' = [status |-> status, amount |-> IF carries THEN ctx.exposure.supported ELSE 0]
  BY DEF BuildCase
<1> HIDE DEF status, carries
<1> QED
  BY <1>1, <1>2, <1>3 DEF BuildCase, TypeInv, TypeOK, ValidatedFirst

LEMMA TypeNext == TypeInv /\ [Next]_vars => TypeInv'
<1> SUFFICES ASSUME TypeInv, [Next]_vars PROVE TypeInv'
  OBVIOUS
<1> USE InvestigatorAssumption
<1>1. CASE TimeBudgetGuard
  BY <1>1 DEF TimeBudgetGuard, AtTop, TypeInv, TypeOK, ValidatedFirst, Step, Guards
<1>2. CASE StepBudgetGuard
  BY <1>2 DEF StepBudgetGuard, TypeInv, TypeOK, ValidatedFirst, Step, Guards
<1>3. CASE SelectPlanned
  BY <1>3, PlanIsWellFormed DEF SelectPlanned, AtTop, TypeInv, TypeOK, ValidatedFirst
<1>4. CASE SelectGemini
  BY <1>4 DEF SelectGemini, AtTop, TypeInv, TypeOK, ValidatedFirst, Calls
<1>5. CASE ValidationFails
  BY <1>5, FinishTypes DEF ValidationFails, Guards
<1>6. CASE RepeatedCall
  BY <1>6, FinishTypes DEF RepeatedCall, Guards
<1>7. CASE Admit
  BY <1>7 DEF Admit, TypeInv, TypeOK, ValidatedFirst
<1>8. CASE ToolError
  BY <1>8, FinishTypes DEF ToolError, Guards
<1>9. CASE UnknownRoot
  BY <1>9, FinishTypes DEF UnknownRoot, Guards
<1>10. CASE Execute
  BY <1>10, TraceTypes, ToolTypes DEF Execute
<1>11. CASE Follow
  BY <1>11 DEF Follow, TypeInv, TypeOK, ValidatedFirst, Step
<1>12. CASE Settle
  <2>1. Decision \in {"DISCARD", "ESCALATE", "CONCLUDE"}
    BY <1>12 DEF Settle, Decision
  <2> QED
    BY <1>12, <2>1, FinishTypes DEF Settle
<1>13. CASE BuildCase
  BY <1>13, BuildTypes
<1>14. CASE Done
  BY <1>14 DEF Done, vars, TypeInv, TypeOK, ValidatedFirst
<1>15. CASE UNCHANGED vars
  BY <1>15 DEF vars, TypeInv, TypeOK, ValidatedFirst
<1> QED
  BY <1>1, <1>2, <1>3, <1>4, <1>5, <1>6, <1>7, <1>8, <1>9, <1>10, <1>11, <1>12, <1>13,
     <1>14, <1>15 DEF Next

(* Every reachable state of an investigation is well formed, and a tool is
   only ever executed with arguments that passed validation. *)
THEOREM TypeCorrect == Spec => []TypeOK /\ []ValidatedFirst
<1>1. Spec => []TypeInv
  BY TypeInit, TypeNext, PTL DEF Spec
<1>2. TypeInv => TypeOK /\ ValidatedFirst
  BY DEF TypeInv
<1> QED
  BY <1>1, <1>2, PTL

-----------------------------------------------------------------------------
(* The plan.  Only Init and Follow lead back to "select", and Follow has
   looked: the call it saw is the one the next turn finds. *)
PlanInv == phase = "select" => NextDeterministicAction(stepCount + 1) # NoCall

LEMMA PlanInit == Init => PlanInv
<1> SUFFICES ASSUME Init PROVE NextDeterministicAction(stepCount + 1) # NoCall
  BY DEF PlanInv
<1>1. ~ctx.empty_trace /\ ~Called("trace_outgoing_funds")
  BY DEF Init, Called
<1>2. NextDeterministicAction(stepCount + 1) = TraceCall(lead.account, 3)
  BY <1>1 DEF NextDeterministicAction
<1>3. lead.account \in Accounts \cup {NoAccount}
  BY InvestigatorAssumption DEF Init
<1>4. CASE lead.account \in Accounts
  <2>1. TraceCall(lead.account, 3) \in ValidCalls
    BY <1>4 DEF ValidCalls, TraceCall, Depths
  <2> QED
    BY <1>2, <2>1, InvestigatorAssumption
<1>5. CASE lead.account = NoAccount
  BY <1>2, <1>5, InvestigatorAssumption
<1> QED
  BY <1>3, <1>4, <1>5

LEMMA PlanNext == PlanInv /\ [Next]_vars => PlanInv'
<1> SUFFICES ASSUME PlanInv, [Next]_vars, phase' = "select"
             PROVE  (NextDeterministicAction(stepCount + 1) # NoCall)'
  BY DEF PlanInv
<1>1. CASE Follow
  <2>1. NextDeterministicAction(stepCount + 1) # NoCall
    BY <1>1 DEF Follow, Decision
  <2> QED
    BY <1>1, <2>1 DEF Follow, NextDeterministicAction, Called
<1>2. CASE UNCHANGED vars
  BY <1>2 DEF vars, PlanInv, NextDeterministicAction, Called
<1>3. ~(Next /\ ~Follow /\ ~UNCHANGED vars)
  BY DEF Next, TimeBudgetGuard, StepBudgetGuard, SelectPlanned, SelectGemini,
         ValidationFails, RepeatedCall, Admit, ToolError, UnknownRoot, Execute, TraceFunds,
         InspectCounterparties, InspectInvoices, CheckRegulatoryStatus, CalculateExposure,
         Reduce, Settle, Finish, BuildCase, Done
<1> QED
  BY <1>1, <1>2, <1>3

(* The plan never runs dry: the investigator's `break` on an exhausted plan
   is dead code, so no investigation ends without a deciding step. *)
THEOREM PlanHolds == Spec => []PlanNeverRunsDry
<1>1. Spec => []PlanInv
  BY PlanInit, PlanNext, PTL DEF Spec
<1>2. PlanInv => PlanNeverRunsDry
  BY DEF PlanInv, PlanNeverRunsDry, AtTop
<1> QED
  BY <1>1, <1>2, PTL

-----------------------------------------------------------------------------
(* Appending a step leaves the earlier ones alone. *)
LEMMA AppendStep ==
  ASSUME steps \in Seq(Step), NEW step \in Step, steps' = Append(steps, step)
  PROVE  /\ DOMAIN steps = 1..Len(steps) /\ Len(steps) \in Nat
         /\ Len(steps') = Len(steps) + 1
         /\ DOMAIN steps' = DOMAIN steps \cup {Len(steps) + 1}
         /\ steps'[Len(steps) + 1] = step
         /\ \A i \in DOMAIN steps : steps'[i] = steps[i] /\ i # Len(steps) + 1
  OBVIOUS

(* Every executed step's call is in the set of seen calls, and the call in
   flight is a new one. *)
CallsInv ==
  /\ NoCallRunsTwice
  /\ \A i \in Executed : steps[i].call \in calls
  /\ phase \in {"execute", "decide"} =>
       pending \in calls /\ \A i \in Executed : steps[i].call # pending

LEMMA CallsInit == Init => CallsInv
  BY DEF Init, CallsInv, NoCallRunsTwice, Executed

(* Recording a step that is no execution, or the execution in flight. *)
LEMMA CallsAppend ==
  ASSUME TypeOK, CallsInv, NEW step \in Step, steps' = Append(steps, step),
         calls' = calls, phase' \notin {"execute", "decide"},
         \/ step.by \notin {"tool", "tool_error", "unknown_root"}
         \/ phase \in {"execute", "decide"} /\ step.call = pending
  PROVE  CallsInv'
<1>1. steps \in Seq(Step)
  BY DEF TypeOK
<1>2. Executed' \subseteq Executed \cup {Len(steps) + 1}
  BY <1>1, AppendStep DEF Executed
<1>3. CASE step.by \notin {"tool", "tool_error", "unknown_root"}
  <2>1. Executed' = Executed
    BY <1>1, <1>3, AppendStep DEF Executed
  <2>2. \A i \in Executed : steps'[i] = steps[i]
    BY <1>1, AppendStep DEF Executed
  <2>3. NoCallRunsTwice'
    <3>1. \A i, j \in Executed : i # j => steps[i].call # steps[j].call
      BY DEF CallsInv, NoCallRunsTwice
    <3>2. \A i, j \in Executed : i # j => steps'[i].call # steps'[j].call
      BY <2>2, <3>1
    <3> QED
      BY <2>1, <3>2 DEF NoCallRunsTwice
  <2>4. \A i \in Executed' : steps'[i].call \in calls'
    BY <2>1, <2>2 DEF CallsInv
  <2> QED
    BY <2>3, <2>4 DEF CallsInv
<1>4. CASE phase \in {"execute", "decide"} /\ step.call = pending
  <2>1. \A i \in Executed : steps'[i] = steps[i] /\ i # Len(steps) + 1
    BY <1>1, AppendStep DEF Executed
  <2>2. steps'[Len(steps) + 1].call = pending
    BY <1>1, <1>4, AppendStep
  <2>3. pending \in calls /\ \A i \in Executed : steps[i].call # pending
    BY <1>4 DEF CallsInv
  <2>4. \A i, j \in Executed : i # j => steps[i].call # steps[j].call
    BY DEF CallsInv, NoCallRunsTwice
  <2>5. \A i, j \in Executed : i # j => steps'[i].call # steps'[j].call
    BY <2>1, <2>4
  <2>6. \A i \in Executed : steps'[i].call # steps'[Len(steps) + 1].call
    BY <2>1, <2>2, <2>3
  <2>7. NoCallRunsTwice'
    BY <1>2, <2>5, <2>6 DEF NoCallRunsTwice
  <2>8. \A i \in Executed : steps'[i].call \in calls
    BY <2>1 DEF CallsInv
  <2>9. \A i \in Executed' : steps'[i].call \in calls'
    BY <1>2, <2>2, <2>3, <2>8
  <2> QED
    BY <2>7, <2>9 DEF CallsInv
<1> QED
  BY <1>3, <1>4

LEMMA CallsNext == TypeInv /\ CallsInv /\ [Next]_vars => CallsInv'
<1> SUFFICES ASSUME TypeInv, CallsInv, [Next]_vars PROVE CallsInv'
  OBVIOUS
<1> USE DEF TypeInv
<1> DEFINE Made(decision, by, call) == [decision |-> decision, by |-> by, call |-> call]
<1>0. \A decision \in {"FOLLOW", "DISCARD", "ESCALATE", "CONCLUDE"}, by \in {"tool"} \cup Guards :
        /\ Made(decision, by, pending) \in Step
        /\ Made(decision, by, NoCall) \in Step
  BY DEF TypeOK, Step
<1>1. CASE TimeBudgetGuard
  <2>1. Made("ESCALATE", "time_budget_guard", NoCall) \in Step
    BY <1>0 DEF Guards
  <2> QED
    BY <1>1, <2>1, CallsAppend DEF TimeBudgetGuard
<1>2. CASE StepBudgetGuard
  <2>1. Made("ESCALATE", "step_budget_guard", NoCall) \in Step
    BY <1>0 DEF Guards
  <2> QED
    BY <1>2, <2>1, CallsAppend DEF StepBudgetGuard
<1>3. CASE ValidationFails
  <2>1. Made("ESCALATE", "validation", pending) \in Step
    BY <1>0 DEF Guards
  <2> QED
    BY <1>3, <2>1, CallsAppend DEF ValidationFails, Finish
<1>4. CASE RepeatedCall
  <2>1. Made("ESCALATE", "repeated_call", pending) \in Step
    BY <1>0 DEF Guards
  <2> QED
    BY <1>4, <2>1, CallsAppend DEF RepeatedCall, Finish
<1>5. CASE ToolError
  <2>1. Made("ESCALATE", "tool_error", pending) \in Step
    BY <1>0 DEF Guards
  <2> QED
    BY <1>5, <2>1, CallsAppend DEF ToolError, Finish
<1>6. CASE UnknownRoot
  <2>1. Made("ESCALATE", "unknown_root", pending) \in Step
    BY <1>0 DEF Guards
  <2> QED
    BY <1>6, <2>1, CallsAppend DEF UnknownRoot, Finish
<1>7. CASE Follow
  <2>1. Made("FOLLOW", "tool", pending) \in Step
    BY <1>0
  <2> QED
    BY <1>7, <2>1, CallsAppend DEF Follow
<1>8. CASE Settle
  <2>1. Made(Decision, "tool", pending) \in Step
    BY <1>0 DEF Decision
  <2> QED
    BY <1>8, <2>1, CallsAppend DEF Settle, Finish
<1>9. CASE SelectPlanned \/ SelectGemini \/ BuildCase
  BY <1>9 DEF SelectPlanned, SelectGemini, BuildCase, CallsInv, NoCallRunsTwice, Executed
<1>10. CASE Admit
  <2>1. Executed' = Executed /\ steps' = steps
    BY <1>10 DEF Admit, Executed
  <2>2. \A i \in Executed : steps[i].call \in calls /\ steps[i].call # pending
    BY <1>10 DEF Admit, CallsInv
  <2> QED
    BY <1>10, <2>1, <2>2 DEF Admit, CallsInv, NoCallRunsTwice
<1>11. CASE Execute
  <2>1. UNCHANGED <<steps, calls, pending>> /\ phase = "execute" /\ phase' = "decide"
    BY <1>11 DEF Execute, TraceFunds, InspectCounterparties, InspectInvoices,
       CheckRegulatoryStatus, CalculateExposure, Reduce
  <2>2. Executed' = Executed
    BY <2>1 DEF Executed
  <2> QED
    BY <2>1, <2>2 DEF CallsInv, NoCallRunsTwice
<1>12. CASE Done \/ UNCHANGED vars
  BY <1>12 DEF Done, vars, CallsInv, NoCallRunsTwice, Executed
<1> QED
  BY <1>1, <1>2, <1>3, <1>4, <1>5, <1>6, <1>7, <1>8, <1>9, <1>10, <1>11, <1>12 DEF Next

(* No tool call reaches the repositories twice in one investigation,
   whatever the model proposes and however the budget is set. *)
THEOREM CallsAreDistinct == Spec => []NoCallRunsTwice
<1>1. Spec => [](TypeInv /\ CallsInv)
  BY TypeInit, TypeNext, CallsInit, CallsNext, PTL DEF Spec
<1>2. CallsInv => NoCallRunsTwice
  BY DEF CallsInv
<1> QED
  BY <1>1, <1>2, PTL

-----------------------------------------------------------------------------
(* The exposure is computed once, by the call that ends the loop: before
   it there is no exposure record, after it the only one is the root's. *)
ExposureInv ==
  /\ phase \in {"select", "validate", "execute"} => ctx.exposure = None
  /\ phase = "decide" /\ ctx.exposure # None => pending.tool = "calculate_exposure"
  /\ ctx.exposure = None => \A t \in Transactions : ~OnRecord("EXPOSURE", t)
  /\ ctx.exposure # None =>
       /\ ctx.root \in Transactions
       /\ ctx.exposure.supported = AmountOf[ctx.root]
       /\ \A t \in Transactions : OnRecord("EXPOSURE", t) <=> t = ctx.root
  /\ case.status = "SUBSTANTIATED" =>
       ctx.exposure # None /\ case.amount = ctx.exposure.supported

LEMMA ExposureInit == Init => ExposureInv
  BY DEF Init, ExposureInv, NoCase, OnRecord

(* A tool other than calculate_exposure leaves the exposure alone. *)
LEMMA ReduceKeepsExposure ==
  ASSUME TypeInv, ExposureInv, phase = "execute",
         NEW newCtx, NEW found, NEW records,
         newCtx.exposure = None,
         \A r \in records : r.source[1] # "EXPOSURE",
         Reduce(newCtx, found, records)
  PROVE  ExposureInv'
<1>1. ctx.exposure = None /\ ctx'.exposure = None
  BY DEF ExposureInv, Reduce
<1>2. \A e \in evidence' : e \in evidence \/ e.source[1] # "EXPOSURE"
  BY DEF Reduce, Fresh
<1>3. \A t \in Transactions : ~OnRecord("EXPOSURE", t)'
  <2>1. \A t \in Transactions : ~OnRecord("EXPOSURE", t)
    BY <1>1 DEF ExposureInv
  <2> QED
    BY <1>2, <2>1 DEF OnRecord, Source
<1>4. phase' = "decide" /\ case' = case /\ case.status # "SUBSTANTIATED"
  BY <1>1 DEF Reduce, ExposureInv
<1> QED
  BY <1>1, <1>3, <1>4 DEF ExposureInv

LEMMA OtherToolsKeepExposure ==
  TypeInv /\ ExposureInv /\ (TraceFunds \/ InspectCounterparties \/ InspectInvoices
                              \/ CheckRegulatoryStatus) => ExposureInv'
<1> SUFFICES ASSUME TypeInv, ExposureInv,
                    TraceFunds \/ InspectCounterparties \/ InspectInvoices
                      \/ CheckRegulatoryStatus
             PROVE  ExposureInv'
  OBVIOUS
<1>1. phase = "execute" /\ ctx \in Context /\ ctx.exposure = None
  BY DEF TypeInv, TypeOK, ExposureInv, TraceFunds, InspectCounterparties, InspectInvoices,
         CheckRegulatoryStatus
<1>2. \A f, r, p, x, c, h : /\ [ctx EXCEPT !.focus = f, !.root = r, !.payment = p,
                                          !.returned = x, !.rfcs = c,
                                          !.hypothesis = h].exposure = None
                           /\ [ctx EXCEPT !.hypothesis = h].exposure = None
                           /\ [ctx EXCEPT !.empty_trace = TRUE].exposure = None
  BY <1>1 DEF Context
<1>3. CASE TraceFunds
  <2> DEFINE trail   == TrailOf(pending.account, pending.depth, ctx.root)
             payment == IF trail.payment = None THEN ctx.payment ELSE trail.payment
             linked  == LinkedRecords(payment)
  <2>1. \A r \in linked : r.source[1] # "EXPOSURE"
    BY DEF LinkedRecords, Record, Source
  <2>2. \A r \in {Record("TX", t, "DIRECT") : t \in FocusSet(trail)} \cup linked :
          r.source[1] # "EXPOSURE"
    BY <2>1 DEF Record, Source
  <2>3. CASE trail.found = {}
    <3> DEFINE next == [ctx EXCEPT !.empty_trace = TRUE]
               nothing == {}
    <3>1. Reduce(next, nothing, nothing)
      BY <1>3, <2>3 DEF TraceFunds
    <3>2. next.exposure = None
      BY <1>2
    <3>3. \A r \in nothing : r.source[1] # "EXPOSURE"
      OBVIOUS
    <3> HIDE DEF next, nothing
    <3> QED
      BY <1>1, <3>1, <3>2, <3>3, ReduceKeepsExposure
  <2>4. CASE trail.found # {}
    <3> DEFINE next == [ctx EXCEPT !.focus = trail.focus,
                                   !.root = trail.root,
                                   !.payment = payment,
                                   !.returned = IF trail.returned = None THEN @
                                                ELSE trail.returned,
                                   !.rfcs = trail.rfcs,
                                   !.hypothesis = Hypothesis("trail",
                                     SubSeq(trail.focus, 1,
                                       IF Len(trail.focus) < 3 THEN Len(trail.focus)
                                       ELSE 3))]
    <3>1. Reduce(next,
                 {Source("TX", t) : t \in trail.found} \cup {r.source : r \in linked},
                 {Record("TX", t, "DIRECT") : t \in FocusSet(trail)} \cup linked)
      BY <1>3, <2>4 DEF TraceFunds
    <3>2. next.exposure = None
      BY <1>2
    <3> HIDE DEF next, linked
    <3> QED
      BY <1>1, <2>2, <3>1, <3>2, ReduceKeepsExposure
  <2> QED
    BY <2>3, <2>4
<1>4. CASE InspectCounterparties
  <2> DEFINE asked == {r \in Rfcs : pending.tally[r] > 0}
             next  == [ctx EXCEPT !.hypothesis = Hypothesis("counterparties", ctx.rfcs)]
  <2>1. next.exposure = None
    BY <1>2
  <2>2. \A r \in {Record("CPTY", r, "CORROBORATING") : r \in asked} :
          r.source[1] # "EXPOSURE"
    BY DEF Record, Source
  <2> HIDE DEF next
  <2> QED
    BY <1>1, <1>4, <2>1, <2>2, ReduceKeepsExposure DEF InspectCounterparties, next
<1>5. CASE InspectInvoices
  BY <1>1, <1>5, ReduceKeepsExposure DEF InspectInvoices, Record, Source
<1>6. CASE CheckRegulatoryStatus
  BY <1>1, <1>6, ReduceKeepsExposure DEF CheckRegulatoryStatus, Record, Source
<1> QED
  BY <1>3, <1>4, <1>5, <1>6

LEMMA CalculateSetsExposure == TypeInv /\ ExposureInv /\ CalculateExposure => ExposureInv'
<1> SUFFICES ASSUME TypeInv, ExposureInv, CalculateExposure PROVE ExposureInv'
  OBVIOUS
<1> DEFINE exposure == RootFlowExposure(pending.root, pending.returned)
           record   == Record("EXPOSURE", pending.root, "DIRECT")
<1>1. pending.root \in Transactions
  BY DEF CalculateExposure
<1>2. ctx \in Context /\ ctx.exposure = None /\ case.status # "SUBSTANTIATED"
  BY DEF TypeInv, TypeOK, ExposureInv, CalculateExposure
<1>3. ctx'.root = pending.root /\ ctx'.exposure = exposure
  BY <1>2 DEF CalculateExposure, Reduce, Context
<1>4. exposure.supported = AmountOf[pending.root] /\ exposure \in Exposures
  <2>1. pending.returned \in Transactions => AmountOf[pending.returned] \in Nat
    BY FieldsAssumption
  <2>2. AmountOf[pending.root] \in Nat
    BY <1>1, FieldsAssumption
  <2> QED
    BY <2>1, <2>2 DEF RootFlowExposure, Exposures
<1>5. exposure # None
  BY <1>4, InvestigatorAssumption
<1>6. \A t \in Transactions : ~OnRecord("EXPOSURE", t)
  BY <1>2 DEF ExposureInv
<1>7. evidence' = evidence \cup {record}
  <2>1. Fresh({record}) = {record}
    BY <1>1, <1>6 DEF Fresh, Record, OnRecord
  <2> QED
    BY <2>1 DEF CalculateExposure, Reduce
<1>8. \A t \in Transactions : OnRecord("EXPOSURE", t)' <=> t = pending.root
  <2>1. record.source = <<"EXPOSURE", pending.root>>
    BY DEF Record, Source
  <2>2. \A t \in Transactions :
          (\E e \in evidence : e.source = <<"EXPOSURE", t>>) <=> FALSE
    BY <1>6 DEF OnRecord, Source
  <2>3. \A t \in Transactions :
          (\E e \in evidence' : e.source = <<"EXPOSURE", t>>) <=> t = pending.root
    <3> HIDE DEF record
    <3> QED
      BY <1>7, <2>1, <2>2
  <2> QED
    BY <2>3 DEF OnRecord, Source
<1>9. phase' = "decide" /\ case' = case /\ pending' = pending
        /\ pending.tool = "calculate_exposure"
  BY DEF CalculateExposure, Reduce
<1> QED
  BY <1>1, <1>2, <1>3, <1>4, <1>5, <1>8, <1>9 DEF ExposureInv

LEMMA ExposureNext == TypeInv /\ ExposureInv /\ [Next]_vars => ExposureInv'
<1> SUFFICES ASSUME TypeInv, ExposureInv, [Next]_vars PROVE ExposureInv'
  OBVIOUS
<1>1. CASE \/ TimeBudgetGuard \/ StepBudgetGuard \/ SelectPlanned \/ SelectGemini
           \/ ValidationFails \/ RepeatedCall \/ Admit \/ ToolError \/ UnknownRoot
           \/ Settle
  BY <1>1 DEF TimeBudgetGuard, StepBudgetGuard, SelectPlanned, SelectGemini, AtTop,
     ValidationFails, RepeatedCall, Admit, ToolError, UnknownRoot, Settle, Finish,
     ExposureInv, OnRecord
<1>2. CASE TraceFunds \/ InspectCounterparties \/ InspectInvoices \/ CheckRegulatoryStatus
  BY <1>2, OtherToolsKeepExposure
<1>3. CASE CalculateExposure
  BY <1>3, CalculateSetsExposure
<1>4. CASE Follow
  <2>1. ctx.exposure = None
    BY <1>4 DEF Follow, Decision, ExposureInv
  <2> QED
    BY <1>4, <2>1 DEF Follow, ExposureInv, OnRecord
<1>5. CASE BuildCase
  <2>1. CaseStatus(steps[Len(steps)].decision) = "SUBSTANTIATED" => ctx.exposure # None
    BY DEF CaseStatus
  <2>2. case'.status = "SUBSTANTIATED" =>
          ctx.exposure # None /\ case'.amount = ctx.exposure.supported
    BY <1>5, <2>1 DEF BuildCase
  <2> QED
    BY <1>5, <2>2 DEF BuildCase, ExposureInv, OnRecord
<1>6. CASE Done \/ UNCHANGED vars
  BY <1>6 DEF Done, vars, ExposureInv, OnRecord
<1> QED
  BY <1>1, <1>2, <1>3, <1>4, <1>5, <1>6 DEF Next, Execute

(* A substantiated case carries exactly the amount of its root transaction,
   which is the only one an exposure record names: downstream hops and
   returns are never added to it, whatever calls the model chose. *)
THEOREM AmountIsTheRoot == Spec => []SubstantiatedAmountIsTheRoot
<1>1. Spec => [](TypeInv /\ ExposureInv)
  BY TypeInit, TypeNext, ExposureInit, ExposureNext, PTL DEF Spec
<1>2. ExposureInv => SubstantiatedAmountIsTheRoot
  BY DEF ExposureInv, SubstantiatedAmountIsTheRoot
<1> QED
  BY <1>1, <1>2, PTL

-----------------------------------------------------------------------------
(* What a finished investigation cites.  An inspection that ran has put its
   counterparties on record, a trace that ran has emptied the lead or set
   the focus; offline, the exposure is asked for only after both. *)
Running == phase \in {"select", "validate", "execute", "decide"}

InFlight(c) == phase = "execute" /\ c = pending

Cited ==
  /\ ctx.focus # << >>
  /\ \A i \in DOMAIN ctx.rfcs : OnRecord("CPTY", ctx.rfcs[i])

ExposureAsked == phase \in {"validate", "execute"} /\ pending.tool = "calculate_exposure"

FocusIsCited == \A i \in DOMAIN ctx.focus : OnRecord("TX", ctx.focus[i])

InspectionsAreCited ==
  Running => \A c \in calls : c.tool = "inspect_counterparties" /\ ~InFlight(c) =>
    \A r \in Rfcs : c.tally[r] > 0 => OnRecord("CPTY", r)

TracesFocus ==
  Running => \A c \in calls : c.tool = "trace_outgoing_funds" /\ ~InFlight(c) =>
    ctx.empty_trace \/ ctx.focus # << >>

ExposureIsLast == ~configured /\ (ExposureAsked \/ ctx.exposure # None) => Cited

CitesInv == FocusIsCited /\ InspectionsAreCited /\ TracesFocus /\ ExposureIsLast

(* How often an RFC occurs in a list. *)
LEMMA TimesCounts ==
  ASSUME NEW rfcs \in Seq(Rfcs), NEW r
  PROVE  /\ Times(rfcs, r) \in Nat
         /\ Times(rfcs, r) > 0 <=> \E i \in DOMAIN rfcs : rfcs[i] = r
<1> DEFINE at == {i \in DOMAIN rfcs : rfcs[i] = r}
<1>1. IsFiniteSet(1..Len(rfcs))
  BY FS_Interval
<1>2. IsFiniteSet(at)
  BY <1>1, FS_Subset
<1>3. Cardinality(at) \in Nat /\ (Cardinality(at) = 0 <=> at = {})
  BY <1>2, FS_CardinalityType, FS_EmptySet
<1> QED
  BY <1>3 DEF Times

LEMMA CitesInit == Init => CitesInv
  BY DEF Init, CitesInv, FocusIsCited, InspectionsAreCited, TracesFocus, ExposureIsLast,
     ExposureAsked

(* Evidence is only ever added to, and what a tool asks to have recorded is
   on record afterwards. *)
LEMMA ReduceRecords ==
  ASSUME NEW newCtx, NEW found, NEW records, Reduce(newCtx, found, records)
  PROVE  /\ \A kind, id : OnRecord(kind, id) => OnRecord(kind, id)'
         /\ \A r \in records : \E e \in evidence' : e.source = r.source
  BY DEF Reduce, Fresh, OnRecord

(* A tool other than the trace and the inspection keeps CitesInv, provided
   its context keeps focus and RFCs. *)
LEMMA ReduceCites ==
  ASSUME CitesInv, phase = "execute",
         NEW newCtx, NEW found, NEW records,
         newCtx.focus = ctx.focus, newCtx.rfcs = ctx.rfcs,
         newCtx.empty_trace = ctx.empty_trace,
         newCtx.exposure # None => ctx.exposure # None \/ pending.tool = "calculate_exposure",
         pending.tool = "inspect_counterparties" =>
           \A r \in Rfcs : pending.tally[r] > 0 => OnRecord("CPTY", r)',
         pending.tool # "trace_outgoing_funds",
         Reduce(newCtx, found, records)
  PROVE  CitesInv'
<1>1. \A kind, id : OnRecord(kind, id) => OnRecord(kind, id)'
  BY ReduceRecords
<1>2. /\ phase' = "decide" /\ ctx' = newCtx
      /\ UNCHANGED <<configured, pending, calls>>
  BY DEF Reduce
<1>3. \A c \in calls : c.tool = "inspect_counterparties" =>
        \A r \in Rfcs : c.tally[r] > 0 => OnRecord("CPTY", r)'
  BY <1>1 DEF CitesInv, InspectionsAreCited, Running, InFlight
<1>4. \A c \in calls : c.tool = "trace_outgoing_funds" => ctx.empty_trace \/ ctx.focus # << >>
  BY DEF CitesInv, TracesFocus, Running, InFlight
<1>5. \A i \in DOMAIN ctx.focus : OnRecord("TX", ctx.focus[i])'
  <2>1. \A id : OnRecord("TX", id) => (\E e \in evidence' : e.source = Source("TX", id))
    BY <1>1 DEF OnRecord
  <2>2. \A i \in DOMAIN ctx.focus : \E e \in evidence' : e.source = Source("TX", ctx.focus[i])
    BY <2>1 DEF CitesInv, FocusIsCited
  <2> QED
    BY <1>2, <2>2 DEF OnRecord
<1>6. ~configured /\ ctx'.exposure # None => Cited'
  <2>1. ~configured /\ ctx'.exposure # None => Cited
    BY <1>2 DEF CitesInv, ExposureIsLast, ExposureAsked
  <2>2. \A id : OnRecord("CPTY", id) => (\E e \in evidence' : e.source = Source("CPTY", id))
    BY <1>1 DEF OnRecord
  <2> QED
    BY <1>2, <2>1, <2>2 DEF Cited, OnRecord
<1>7. FocusIsCited'
  BY <1>2, <1>5 DEF FocusIsCited
<1>8. InspectionsAreCited'
  BY <1>2, <1>3 DEF InspectionsAreCited, Running, InFlight
<1>9. TracesFocus'
  BY <1>2, <1>4 DEF TracesFocus, Running, InFlight
<1>10. ExposureIsLast'
  BY <1>2, <1>6 DEF ExposureIsLast, ExposureAsked
<1> QED
  BY <1>7, <1>8, <1>9, <1>10 DEF CitesInv

LEMMA TraceCites == TypeInv /\ ExposureInv /\ CitesInv /\ TraceFunds => CitesInv'
<1> SUFFICES ASSUME TypeInv, ExposureInv, CitesInv, TraceFunds PROVE CitesInv'
  OBVIOUS
<1> DEFINE trail   == TrailOf(pending.account, pending.depth, ctx.root)
           payment == IF trail.payment = None THEN ctx.payment ELSE trail.payment
           linked  == LinkedRecords(payment)
           records == {Record("TX", t, "DIRECT") : t \in FocusSet(trail)} \cup linked
           found   == {Source("TX", t) : t \in trail.found} \cup {r.source : r \in linked}
<1>1. phase = "execute" /\ ctx \in Context /\ ctx.exposure = None /\ pending \in ValidCalls
        /\ pending.tool = "trace_outgoing_funds"
  BY DEF TypeInv, TypeOK, ValidatedFirst, ExposureInv, TraceFunds
<1>2. trail \in TrailDigest /\ (trail.found # {} => trail.focus # << >>)
  <2>1. pending.account \in Accounts /\ pending.depth \in Depths
    BY <1>1, CallFields
  <2>2. ctx.root \in TxRefs \cup {None}
    BY <1>1 DEF Context
  <2> QED
    BY <2>1, <2>2, TrailAssumption
<1>3. /\ phase' = "decide" /\ UNCHANGED <<configured, pending, calls>>
      /\ ctx'.exposure = None
      /\ ctx'.empty_trace \/ ctx'.focus # << >>
  BY <1>1, <1>2 DEF TraceFunds, Reduce, Context
<1>4. \A kind, id : OnRecord(kind, id) => \E e \in evidence' : e.source = Source(kind, id)
  BY DEF TraceFunds, Reduce, OnRecord
<1>5. FocusIsCited'
  <2>1. CASE trail.found = {}
    <3>1. ctx'.focus = ctx.focus
      BY <1>1, <2>1 DEF TraceFunds, Reduce, Context
    <3>2. \A i \in DOMAIN ctx.focus : \E e \in evidence' : e.source = Source("TX", ctx.focus[i])
      BY <1>4 DEF CitesInv, FocusIsCited
    <3> QED
      BY <3>1, <3>2 DEF FocusIsCited, OnRecord
  <2>2. CASE trail.found # {}
    <3>1. PICK newCtx : Reduce(newCtx, found, records)
      BY <2>2 DEF TraceFunds
    <3>2. \A r \in records : \E e \in evidence' : e.source = r.source
      BY <3>1, ReduceRecords
    <3>3. \A t \in FocusSet(trail) : Record("TX", t, "DIRECT") \in records
      OBVIOUS
    <3>4. \A t : Record("TX", t, "DIRECT").source = Source("TX", t)
      BY DEF Record
    <3>5. \A t \in FocusSet(trail) : \E e \in evidence' : e.source = Source("TX", t)
      BY <3>2, <3>3, <3>4
    <3>6. ctx'.focus = trail.focus
      BY <1>1, <2>2 DEF TraceFunds, Reduce, Context
    <3> HIDE DEF trail
    <3> QED
      BY <3>5, <3>6 DEF FocusIsCited, OnRecord, FocusSet
  <2> QED
    BY <2>1, <2>2
<1>6. InspectionsAreCited'
  <2>1. \A c \in calls : c.tool = "inspect_counterparties" =>
          \A r \in Rfcs : c.tally[r] > 0 => \E e \in evidence' : e.source = Source("CPTY", r)
    BY <1>1, <1>4 DEF CitesInv, InspectionsAreCited, Running, InFlight
  <2> QED
    BY <1>3, <2>1 DEF InspectionsAreCited, OnRecord
<1>7. TracesFocus'
  BY <1>3 DEF TracesFocus
<1>8. ExposureIsLast'
  BY <1>3 DEF ExposureIsLast, ExposureAsked
<1> QED
  BY <1>5, <1>6, <1>7, <1>8 DEF CitesInv

LEMMA ToolsCite ==
  TypeInv /\ ExposureInv /\ CitesInv
    /\ (InspectCounterparties \/ InspectInvoices \/ CheckRegulatoryStatus \/ CalculateExposure)
  => CitesInv'
<1> SUFFICES ASSUME TypeInv, ExposureInv, CitesInv,
                    InspectCounterparties \/ InspectInvoices \/ CheckRegulatoryStatus
                      \/ CalculateExposure
             PROVE  CitesInv'
  OBVIOUS
<1>1. phase = "execute" /\ ctx \in Context
  BY DEF TypeInv, TypeOK, InspectCounterparties, InspectInvoices, CheckRegulatoryStatus,
         CalculateExposure
<1>2. CASE InspectCounterparties
  <2> DEFINE asked == {r \in Rfcs : pending.tally[r] > 0}
             next  == [ctx EXCEPT !.hypothesis = Hypothesis("counterparties", ctx.rfcs)]
             found == {Source("ENTITY", r) : r \in asked \cap Entities}
                        \cup {Source("PROVIDER", r) : r \in asked \cap Providers}
             records == {Record("CPTY", r, "CORROBORATING") : r \in asked}
  <2>1. Reduce(next, found, records)
    BY <1>2 DEF InspectCounterparties
  <2>2. /\ next.focus = ctx.focus /\ next.rfcs = ctx.rfcs
        /\ next.empty_trace = ctx.empty_trace /\ next.exposure = ctx.exposure
    BY <1>1 DEF Context
  <2>3. \A r \in asked : \E e \in evidence' : e.source = Source("CPTY", r)
    <3>1. \A r \in records : \E e \in evidence' : e.source = r.source
      BY <2>1, ReduceRecords
    <3>2. \A r : Record("CPTY", r, "CORROBORATING").source = Source("CPTY", r)
      BY DEF Record
    <3> QED
      BY <3>1, <3>2
  <2>4. \A r \in Rfcs : pending.tally[r] > 0 => OnRecord("CPTY", r)'
    BY <2>3 DEF OnRecord
  <2>5. pending.tool = "inspect_counterparties"
    BY <1>2 DEF InspectCounterparties
  <2> HIDE DEF next, found, records
  <2> QED
    BY <1>1, <2>1, <2>2, <2>4, <2>5, ReduceCites
<1>3. CASE InspectInvoices
  <2> DEFINE found == {Source("INV", i) : i \in IssuedBy[pending.rfc]}
             records == {Record("INV", i, "CORROBORATING") : i \in IssuedBy[pending.rfc]}
  <2>1. Reduce(ctx, found, records) /\ pending.tool = "inspect_invoices"
    BY <1>3 DEF InspectInvoices
  <2> HIDE DEF found, records
  <2> QED
    BY <1>1, <2>1, ReduceCites
<1>4. CASE CheckRegulatoryStatus
  <2> DEFINE found == {Source("PROVIDER", r) : r \in {pending.rfc} \cap Providers}
             records == {Record("EFOS", pending.rfc, "CIRCUMSTANTIAL")}
  <2>1. Reduce(ctx, found, records) /\ pending.tool = "check_regulatory_status"
    BY <1>4 DEF CheckRegulatoryStatus
  <2> HIDE DEF found, records
  <2> QED
    BY <1>1, <2>1, ReduceCites
<1>5. CASE CalculateExposure
  <2> DEFINE next == [ctx EXCEPT !.root = pending.root,
                                 !.exposure = RootFlowExposure(pending.root, pending.returned),
                                 !.hypothesis = Hypothesis("exposure",
                                                  <<pending.root, pending.returned>>)]
             found == {Source("TX", t) : t \in {pending.root, pending.returned}
                                               \cap Transactions}
             records == {Record("EXPOSURE", pending.root, "DIRECT")}
  <2>1. Reduce(next, found, records) /\ pending.tool = "calculate_exposure"
    BY <1>5 DEF CalculateExposure
  <2>2. /\ next.focus = ctx.focus /\ next.rfcs = ctx.rfcs
        /\ next.empty_trace = ctx.empty_trace
    BY <1>1 DEF Context
  <2> HIDE DEF next, found, records
  <2> QED
    BY <1>1, <2>1, <2>2, ReduceCites
<1> QED
  BY <1>2, <1>3, <1>4, <1>5

(* The plan asks for the exposure only when the counterparties of the trail,
   if it has any, have been inspected. *)
LEMMA PlanAsksForExposureLast ==
  ASSUME TypeInv, CitesInv, phase = "select", NEW count,
         NextDeterministicAction(count).tool = "calculate_exposure",
         NextDeterministicAction(count) # NoCall
  PROVE  Cited
<1> DEFINE inspected == InspectCall(Tally(ctx.rfcs), 0)
<1>1. ctx.rfcs \in Seq(Rfcs)
  BY DEF TypeInv, TypeOK, Context
<1>2. /\ ~ctx.empty_trace
      /\ Called("trace_outgoing_funds")
      /\ ctx.rfcs # << >> => inspected \in calls
  BY DEF NextDeterministicAction, TraceCall, InspectCall, RegulatoryCall
<1>3. ctx.focus # << >>
  BY <1>2 DEF CitesInv, TracesFocus, Running, InFlight, Called
<1>4. ASSUME NEW i \in DOMAIN ctx.rfcs PROVE OnRecord("CPTY", ctx.rfcs[i])
  <2>1. ctx.rfcs # << >> /\ ctx.rfcs[i] \in Rfcs
    BY <1>1, <1>4
  <2>2. inspected.tool = "inspect_counterparties" /\ inspected.tally = Tally(ctx.rfcs)
    BY DEF InspectCall
  <2>3. Tally(ctx.rfcs)[ctx.rfcs[i]] > 0
    BY <1>1, <2>1, TimesCounts DEF Tally
  <2> HIDE DEF inspected
  <2> QED
    BY <1>2, <2>1, <2>2, <2>3 DEF CitesInv, InspectionsAreCited, Running, InFlight
<1> QED
  BY <1>3, <1>4 DEF Cited

LEMMA CitesNext == TypeInv /\ ExposureInv /\ CitesInv /\ [Next]_vars => CitesInv'
<1> SUFFICES ASSUME TypeInv, ExposureInv, CitesInv, [Next]_vars PROVE CitesInv'
  OBVIOUS
<1> USE DEF CitesInv, FocusIsCited, InspectionsAreCited, TracesFocus, ExposureIsLast, Running,
           InFlight, ExposureAsked, Cited, OnRecord
<1>1. CASE \/ TimeBudgetGuard \/ StepBudgetGuard \/ ValidationFails \/ RepeatedCall
           \/ ToolError \/ UnknownRoot \/ Settle
  BY <1>1 DEF TimeBudgetGuard, StepBudgetGuard, AtTop, ValidationFails, RepeatedCall, ToolError,
     UnknownRoot, Settle, Finish
<1>2. CASE SelectPlanned
  <2>1. /\ phase = "select" /\ phase' = "validate"
        /\ pending' = NextDeterministicAction(stepCount + 1) /\ pending' # NoCall
        /\ UNCHANGED <<configured, calls, ctx, evidence>>
    BY <1>2 DEF SelectPlanned, AtTop
  <2>2. pending'.tool = "calculate_exposure" => Cited
    BY <2>1, PlanAsksForExposureLast
  <2> QED
    BY <2>1, <2>2
<1>3. CASE SelectGemini
  BY <1>3 DEF SelectGemini, AtTop
<1>4. CASE Admit
  BY <1>4 DEF Admit
<1>5. CASE Execute
  BY <1>5, TraceCites, ToolsCite DEF Execute
<1>6. CASE Follow
  BY <1>6 DEF Follow
<1>7. CASE BuildCase
  BY <1>7 DEF BuildCase
<1>8. CASE Done \/ UNCHANGED vars
  BY <1>8 DEF Done, vars
<1> QED
  BY <1>1, <1>2, <1>3, <1>4, <1>5, <1>6, <1>7, <1>8 DEF Next

(* Without the model, a case is only substantiated with the whole focus of
   its trail on record and every counterparty of the trail looked up: the
   exposure comes last in the plan, whatever the dataset and the budget. *)
THEOREM OfflineCasesCiteTheirTrail == Spec => []OfflineCitesTheTrail
<1>1. Spec => [](TypeInv /\ ExposureInv /\ CitesInv)
  BY TypeInit, TypeNext, ExposureInit, ExposureNext, CitesInit, CitesNext, PTL DEF Spec
<1>2. ExposureInv /\ CitesInv => OfflineCitesTheTrail
  BY DEF ExposureInv, CitesInv, FocusIsCited, ExposureIsLast, Cited, OfflineCitesTheTrail,
         Substantiated
<1> QED
  BY <1>1, <1>2, PTL

-----------------------------------------------------------------------------
(* The timeline: a turn that is under way has recorded nothing yet, and a
   step that decides is the last one. *)
TimelineInv ==
  /\ phase = "select" => Len(steps) = stepCount
  /\ phase \in {"validate", "execute", "decide"} => Len(steps) = stepCount - 1
  /\ phase \notin {"build", "done"} =>
       \A i \in DOMAIN steps : steps[i].decision = "FOLLOW"
  /\ phase \in {"build", "done"} =>
       steps # << >> /\ steps[Len(steps)].decision \in Protocol!Terminal
  /\ phase # "done" => case.status = "PENDING"

DecisionsOf(timeline) == [i \in DOMAIN timeline |-> timeline[i].decision]

(* Recording a step appends its decision. *)
LEMMA DecisionsAppend ==
  ASSUME NEW timeline \in Seq(Step), NEW step \in Step
  PROVE  DecisionsOf(Append(timeline, step)) = Append(DecisionsOf(timeline), step.decision)
<1> DEFINE n == Len(timeline)
           longer == Append(timeline, step)
<1>1. /\ n \in Nat /\ DOMAIN timeline = 1..n
      /\ DOMAIN longer = 1..(n + 1)
      /\ longer[n + 1] = step
      /\ \A i \in 1..n : longer[i] = timeline[i]
  OBVIOUS
<1>2. DecisionsOf(timeline) = [i \in 1..n |-> timeline[i].decision]
  BY <1>1 DEF DecisionsOf
<1>3. DecisionsOf(longer) = [i \in 1..(n + 1) |-> longer[i].decision]
  BY <1>1 DEF DecisionsOf
<1>4. Append([i \in 1..n |-> timeline[i].decision], step.decision)
        = [i \in 1..(n + 1) |-> longer[i].decision]
  <2> HIDE DEF n, longer
  <2> QED
    BY <1>1
<1> QED
  BY <1>2, <1>3, <1>4

LEMMA TimelineInit == Init => TimelineInv
  BY DEF Init, TimelineInv, NoCase

(* The turn ends by recording a step with this decision. *)
Records(decision) ==
  \E step \in Step : step.decision = decision /\ steps' = Append(steps, step)

Closes(decision) ==
  /\ Records(decision)
  /\ phase \notin {"build", "done"}
  /\ phase' = "build"
  /\ case' = case

Guarded ==
  \/ TimeBudgetGuard
  \/ StepBudgetGuard
  \/ ValidationFails
  \/ RepeatedCall
  \/ ToolError
  \/ UnknownRoot

LEMMA GuardsEscalate == TypeInv /\ Guarded => Closes("ESCALATE")
<1> SUFFICES ASSUME TypeInv, Guarded PROVE Closes("ESCALATE")
  OBVIOUS
<1>1. \A by \in Guards, call \in {pending, NoCall} :
        [decision |-> "ESCALATE", by |-> by, call |-> call] \in Step
  BY DEF TypeInv, TypeOK, Step
<1>2. \E by \in Guards, call \in {pending, NoCall} :
        steps' = Append(steps, [decision |-> "ESCALATE", by |-> by, call |-> call])
  BY DEF Guarded, TimeBudgetGuard, StepBudgetGuard, ValidationFails, RepeatedCall, ToolError,
         UnknownRoot, Finish, Guards
<1>3. phase \notin {"build", "done"} /\ phase' = "build" /\ case' = case
  BY DEF Guarded, TimeBudgetGuard, AtTop, StepBudgetGuard, ValidationFails, RepeatedCall,
         ToolError, UnknownRoot, Finish
<1>4. Records("ESCALATE")
  BY <1>1, <1>2 DEF Records
<1> QED
  BY <1>3, <1>4 DEF Closes

LEMMA SettleDecides ==
  TypeInv /\ Settle => \E decision \in Protocol!Terminal : Closes(decision)
<1> SUFFICES ASSUME TypeInv, Settle
             PROVE  \E decision \in Protocol!Terminal : Closes(decision)
  OBVIOUS
<1>1. PICK decision \in Protocol!Terminal : decision = Decision
  BY DEF Settle, Decision, Protocol!Terminal
<1>2. [decision |-> decision, by |-> "tool", call |-> pending] \in Step
  BY <1>1 DEF TypeInv, TypeOK, Step, Protocol!Terminal
<1>3. Records(decision)
  BY <1>1, <1>2 DEF Settle, Finish, Records
<1> QED
  BY <1>3 DEF Settle, Finish, Closes

LEMMA FollowRecords == TypeInv /\ Follow => Records("FOLLOW")
<1> SUFFICES ASSUME TypeInv, Follow PROVE Records("FOLLOW")
  OBVIOUS
<1>1. [decision |-> "FOLLOW", by |-> "tool", call |-> pending] \in Step
  BY DEF TypeInv, TypeOK, Step
<1> QED
  BY <1>1 DEF Follow, Records

LEMMA TimelineNext == TypeInv /\ TimelineInv /\ [Next]_vars => TimelineInv'
<1> SUFFICES ASSUME TypeInv, TimelineInv, [Next]_vars PROVE TimelineInv'
  OBVIOUS
<1>1. ASSUME NEW decision \in Protocol!Terminal, Closes(decision) PROVE TimelineInv'
  <2>1. PICK step \in Step : step.decision = decision /\ steps' = Append(steps, step)
    BY <1>1 DEF Closes, Records
  <2>2. steps' # << >> /\ steps'[Len(steps')].decision = decision
    BY <2>1, AppendStep DEF TypeInv, TypeOK
  <2> QED
    BY <1>1, <2>2 DEF Closes, TimelineInv
<1>2. CASE Guarded
  BY <1>1, <1>2, GuardsEscalate DEF Protocol!Terminal
<1>3. CASE Settle
  BY <1>1, <1>3, SettleDecides
<1>4. CASE Follow
  <2>1. PICK step \in Step : step.decision = "FOLLOW" /\ steps' = Append(steps, step)
    BY <1>4, FollowRecords DEF Records
  <2>2. phase = "decide" /\ phase' = "select" /\ UNCHANGED <<stepCount, case>>
    BY <1>4 DEF Follow
  <2>3. Len(steps') = stepCount'
    BY <2>1, <2>2, AppendStep DEF TimelineInv, TypeInv, TypeOK
  <2>4. \A i \in DOMAIN steps' : steps'[i].decision = "FOLLOW"
    BY <2>1, <2>2, AppendStep DEF TimelineInv, TypeInv, TypeOK
  <2> QED
    BY <2>2, <2>3, <2>4 DEF TimelineInv
<1>5. CASE SelectPlanned \/ SelectGemini
  BY <1>5 DEF SelectPlanned, SelectGemini, AtTop, TimelineInv, TypeInv, TypeOK
<1>6. CASE Admit \/ Execute
  BY <1>6 DEF Admit, Execute, TraceFunds, InspectCounterparties, InspectInvoices,
     CheckRegulatoryStatus, CalculateExposure, Reduce, TimelineInv
<1>7. CASE BuildCase \/ Done \/ UNCHANGED vars
  BY <1>7 DEF BuildCase, Done, vars, TimelineInv
<1> QED
  BY <1>2, <1>3, <1>4, <1>5, <1>6, <1>7 DEF Next, Guarded

-----------------------------------------------------------------------------
(* The refinement: each recorded step is a Follow or a Decide of the
   protocol, BuildCase is its Report, and everything else stutters. *)
LEMMA ProtocolInit == Init => Protocol!Init
  BY DEF Init, Protocol!Init, NoCase

LEMMA Undecided ==
  ASSUME TypeInv, TimelineInv, phase \notin {"build", "done"}
  PROVE  ~Protocol!Decided
<1>1. \A i \in DOMAIN steps : steps[i].decision \notin Protocol!Terminal
  BY DEF TimelineInv, Protocol!Terminal
<1>2. steps \in Seq(Step)
  BY DEF TypeInv, TypeOK
<1> QED
  BY <1>1, <1>2 DEF Protocol!Decided

LEMMA ClosingIsDecide ==
  ASSUME TypeInv, TimelineInv, NEW decision \in Protocol!Terminal, Closes(decision),
         Len(steps) <= MaxSteps, Len(steps) = MaxSteps => decision = "ESCALATE"
  PROVE  Protocol!Decide(decision)
<1>1. PICK step \in Step : step.decision = decision /\ steps' = Append(steps, step)
  BY DEF Closes, Records
<1>2. DecisionsOf(steps') = Append(DecisionsOf(steps), decision)
  BY <1>1, DecisionsAppend DEF TypeInv, TypeOK
<1>3. Len(DecisionsOf(steps)) = Len(steps)
  BY DEF TypeInv, TypeOK, DecisionsOf
<1>4. ~Protocol!Decided
  BY Undecided DEF Closes
<1> QED
  BY <1>2, <1>3, <1>4 DEF Protocol!Decide, DecisionsOf, Closes

LEMMA BuildIsReport == TypeInv /\ TimelineInv /\ BuildCase => Protocol!Report
<1> SUFFICES ASSUME TypeInv, TimelineInv, BuildCase PROVE Protocol!Report
  OBVIOUS
<1> DEFINE terminal == steps[Len(steps)].decision
<1>1. steps # << >> /\ terminal \in Protocol!Terminal /\ case.status = "PENDING"
  BY DEF BuildCase, TimelineInv
<1>2. case'.status = CaseStatus(terminal)
  BY DEF BuildCase
<1>3. CaseStatus(terminal) \in Protocol!VerdictsFor(terminal)
  BY <1>1 DEF CaseStatus, Protocol!VerdictsFor, Protocol!Verdicts, Protocol!Terminal
<1>4. /\ DecisionsOf(steps) # << >>
      /\ DecisionsOf(steps)[Len(DecisionsOf(steps))] = terminal
      /\ DecisionsOf(steps') = DecisionsOf(steps)
  BY <1>1 DEF DecisionsOf, BuildCase, TypeInv, TypeOK
<1> QED
  BY <1>1, <1>2, <1>3, <1>4 DEF Protocol!Report, Protocol!Decided, DecisionsOf

LEMMA ProtocolNext ==
  TypeInv /\ TimelineInv /\ [Next]_vars => [Protocol!Next]_(Protocol!vars)
<1> SUFFICES ASSUME TypeInv, TimelineInv, [Next]_vars
             PROVE  Protocol!Next \/ UNCHANGED Protocol!vars
  OBVIOUS
<1>1. stepCount \in 0..MaxSteps /\ MaxSteps \in Nat
  BY InvestigatorAssumption DEF TypeInv, TypeOK
<1>2. CASE Guarded
  <2>1. Len(steps) <= MaxSteps
    BY <1>1, <1>2 DEF Guarded, TimeBudgetGuard, AtTop, StepBudgetGuard, ValidationFails,
       RepeatedCall, ToolError, UnknownRoot, TimelineInv
  <2> QED
    BY <1>2, <2>1, GuardsEscalate, ClosingIsDecide DEF Protocol!Next, Protocol!Terminal
<1>3. CASE Settle
  <2>1. Len(steps) <= MaxSteps /\ Len(steps) # MaxSteps
    BY <1>1, <1>3 DEF Settle, TimelineInv
  <2> QED
    BY <1>3, <2>1, SettleDecides, ClosingIsDecide DEF Protocol!Next
<1>4. CASE Follow
  <2>1. PICK step \in Step : step.decision = "FOLLOW" /\ steps' = Append(steps, step)
    BY <1>4, FollowRecords DEF Records
  <2>2. DecisionsOf(steps') = Append(DecisionsOf(steps), "FOLLOW")
    BY <2>1, DecisionsAppend DEF TypeInv, TypeOK
  <2>3. Len(DecisionsOf(steps)) < MaxSteps
    BY <1>1, <1>4 DEF Follow, TimelineInv, TypeInv, TypeOK, DecisionsOf
  <2>4. ~Protocol!Decided
    BY <1>4, Undecided DEF Follow
  <2>5. Protocol!Follow
    BY <1>4, <2>2, <2>3, <2>4 DEF Protocol!Follow, Follow, DecisionsOf
  <2> QED
    BY <2>5 DEF Protocol!Next
<1>5. CASE BuildCase
  BY <1>5, BuildIsReport DEF Protocol!Next
<1>6. CASE \/ SelectPlanned \/ SelectGemini \/ Admit \/ Execute \/ Done \/ UNCHANGED vars
  <2>1. UNCHANGED <<steps, case>>
    BY <1>6 DEF SelectPlanned, SelectGemini, Admit, Execute, TraceFunds,
       InspectCounterparties, InspectInvoices, CheckRegulatoryStatus, CalculateExposure,
       Reduce, Done, vars
  <2> QED
    BY <2>1 DEF Protocol!vars
<1> QED
  BY <1>2, <1>3, <1>4, <1>5, <1>6 DEF Next, Guarded

(* The investigator implements the protocol: at most MaxSteps FOLLOW steps,
   one deciding step after which nothing is recorded, and a verdict that
   agrees with it. *)
THEOREM InvestigatorRefinesProtocol == Spec => ImplementsProtocol
<1>1. Spec => [](TypeInv /\ TimelineInv)
  BY TypeInit, TypeNext, TimelineInit, TimelineNext, PTL DEF Spec
<1> QED
  BY <1>1, ProtocolInit, ProtocolNext, PTL DEF Spec, ImplementsProtocol, Protocol!Spec

-----------------------------------------------------------------------------
(* Offline the investigation is a fixed sequence of calls, each of which
   gets somewhere: the trace, the inspection, the check when a step is left
   over for it, and the exposure. *)
NoCheckYet == \A e \in evidence : e.source[1] # "EFOS"

Traced(made, count) ==
  made = {PlannedTrace} /\ count = 1 /\ ctx.hypothesis.template = "trail" /\ NoCheckYet

Inspected(made, count) ==
  /\ made = {PlannedTrace, PlannedInspection} /\ count = 2
  /\ ctx.rfcs # << >> /\ NoCheckYet

Checked(made, count) ==
  /\ made = {PlannedTrace, PlannedInspection, PlannedCheck} /\ count = 3
  /\ ctx.rfcs # << >> /\ MaxSteps > 3

Stage(made, count) ==
  /\ ~ctx.empty_trace /\ ctx.root # None
  /\ Traced(made, count) \/ Inspected(made, count) \/ Checked(made, count)

(* The root names a transaction and no two accounts of the trail have the
   same holder.  Otherwise the plan may end at an unknown root or at an
   inspection it asks for again. *)
Usable == ctx.root # Ghost /\ \A r \in Rfcs : Times(ctx.rfcs, r) <= 1

(* The call that follows the calls made in the first `count` steps. *)
Turn(made, count, call) ==
  \/ Traced(made, count) /\ ctx.rfcs # << >> /\ call = PlannedInspection
  \/ Traced(made, count) /\ ctx.rfcs = << >> /\ call = PlannedExposure
  \/ /\ Inspected(made, count) \/ Checked(made, count)
     /\ ~Usable /\ call = PlannedInspection
  \/ Inspected(made, count) /\ MaxSteps > 3 /\ call = PlannedCheck
  \/ Inspected(made, count) /\ MaxSteps <= 3 /\ call = PlannedExposure
  \/ Checked(made, count) /\ call = PlannedExposure

FirstTurn ==
  /\ sources = {} /\ evidence = {} /\ ~ctx.empty_trace
  /\ \/ phase = "select" /\ calls = {} /\ stepCount = 0
     \/ phase = "validate" /\ calls = {} /\ stepCount = 1 /\ pending = PlannedTrace
     \/ phase = "execute" /\ calls = {pending} /\ stepCount = 1 /\ pending = PlannedTrace

LaterTurn ==
  \/ phase = "select" /\ Stage(calls, stepCount)
  \/ /\ phase = "validate"
     /\ Stage(calls, stepCount - 1) /\ Turn(calls, stepCount - 1, pending)
  \/ /\ phase = "execute" /\ pending \in calls
     /\ Stage(calls \ {pending}, stepCount - 1) /\ Turn(calls \ {pending}, stepCount - 1, pending)
  \/ /\ phase = "decide"
     /\ \/ ctx.empty_trace
        \/ pending.tool = "calculate_exposure" /\ ctx.exposure # None
        \/ progress /\ Stage(calls, stepCount)
  \/ /\ phase \in {"build", "done"}
     /\ Usable => steps[Len(steps)].decision \in {"DISCARD", "CONCLUDE"}

Uninterrupted ==
  \A i \in DOMAIN steps : steps[i].by \notin {"time_budget_guard", "tool_error", "validation"}

OfflineInv ==
  ~configured /\ MaxSteps >= 3 /\ Uninterrupted => FirstTurn \/ LaterTurn

(* The four planned calls are four different calls. *)
LEMMA PlannedTools ==
  /\ PlannedTrace.tool = "trace_outgoing_funds"
  /\ PlannedInspection.tool = "inspect_counterparties"
  /\ PlannedCheck.tool = "check_regulatory_status"
  /\ PlannedExposure.tool = "calculate_exposure"
BY DEF PlannedTrace, PlannedInspection, PlannedCheck, PlannedExposure, TraceCall, InspectCall,
   RegulatoryCall, ExposureCall

(* After a stage the plan finds the call of the next turn. *)
LEMMA StageHasATurn ==
  ASSUME TypeInv, MaxSteps >= 3, Stage(calls, stepCount)
  PROVE  /\ Turn(calls, stepCount, NextDeterministicAction(stepCount + 1))
         /\ NextDeterministicAction(stepCount + 1) # NoCall
<1> DEFINE plan == NextDeterministicAction(stepCount + 1)
           inspected == InspectCall(Tally(ctx.rfcs), 0)
<1> USE PlannedTools
<1>1. ctx.rfcs \in Seq(Rfcs) /\ MaxSteps \in Nat
  BY InvestigatorAssumption DEF TypeInv, TypeOK, Context
<1>2. ~ctx.empty_trace /\ ctx.root # None /\ Called("trace_outgoing_funds")
  BY DEF Stage, Traced, Inspected, Checked, Called
<1>3. NoCall \notin ValidCalls
  BY InvestigatorAssumption
<1>4. (ctx.rfcs # << >> => PlannedInspection # NoCall /\ PlannedCheck # NoCall)
        /\ PlannedExposure # NoCall
  BY <1>2, <1>3, PlannedCallsAreValid DEF TypeInv
<1>5. PlannedExposure \notin calls
  BY DEF Stage, Traced, Inspected, Checked
<1>6. inspected.tool = "inspect_counterparties"
  BY DEF InspectCall
<1>7. CASE Traced(calls, stepCount)
  <2>1. inspected \notin calls
    BY <1>6, <1>7 DEF Traced
  <2>2. plan = IF ctx.rfcs # << >> THEN PlannedInspection ELSE PlannedExposure
    BY <1>2, <1>5, <2>1 DEF NextDeterministicAction, PlannedInspection, PlannedExposure
  <2> QED
    BY <1>4, <1>7, <2>2 DEF Turn
<1>8. CASE /\ Inspected(calls, stepCount) \/ Checked(calls, stepCount)
           /\ inspected \notin calls
  <2>1. plan = PlannedInspection
    BY <1>2, <1>8 DEF NextDeterministicAction, PlannedInspection, Inspected, Checked
  <2>2. Tally(ctx.rfcs) # Distinct(ctx.rfcs)
    BY <1>8 DEF Inspected, Checked, PlannedInspection
  <2>3. \A r \in Rfcs : Times(ctx.rfcs, r) \in Nat
          /\ (Times(ctx.rfcs, r) > 0 <=> \E i \in DOMAIN ctx.rfcs : ctx.rfcs[i] = r)
    BY <1>1, TimesCounts
  <2>4. PICK r \in Rfcs : Tally(ctx.rfcs)[r] # Distinct(ctx.rfcs)[r]
    BY <2>2 DEF Tally, Distinct
  <2>5. Times(ctx.rfcs, r) > 1
    BY <2>3, <2>4 DEF Tally, Distinct
  <2>6. ~Usable
    BY <2>3, <2>5 DEF Usable
  <2> QED
    BY <1>4, <1>8, <2>1, <2>6 DEF Turn, Inspected, Checked
<1>9. CASE Inspected(calls, stepCount) /\ inspected \in calls
  <2>1. ~Called("check_regulatory_status") /\ stepCount = 2 /\ ctx.rfcs # << >>
    BY <1>9 DEF Inspected, Called
  <2>2. plan = IF MaxSteps > 3 THEN PlannedCheck ELSE PlannedExposure
    BY <1>1, <1>2, <1>5, <1>9, <2>1 DEF NextDeterministicAction, PlannedCheck, PlannedExposure
  <2> QED
    BY <1>1, <1>4, <1>9, <2>1, <2>2 DEF Turn
<1>10. CASE Checked(calls, stepCount) /\ inspected \in calls
  <2>1. Called("check_regulatory_status") /\ ctx.rfcs # << >>
    BY <1>10 DEF Checked, Called
  <2>2. plan = PlannedExposure
    BY <1>2, <1>5, <1>10, <2>1 DEF NextDeterministicAction, PlannedExposure
  <2> QED
    BY <1>4, <1>10, <2>2 DEF Turn
<1> QED
  BY <1>7, <1>8, <1>9, <1>10 DEF Stage

(* The first trace empties the lead, or leaves a trail to work on. *)
LEMMA OfflineTrace ==
  ASSUME TypeInv, FirstTurn, TraceFunds
  PROVE  LaterTurn'
<1> DEFINE trail   == TrailOf(pending.account, pending.depth, ctx.root)
           payment == IF trail.payment = None THEN ctx.payment ELSE trail.payment
           linked  == LinkedRecords(payment)
           records == {Record("TX", t, "DIRECT") : t \in FocusSet(trail)} \cup linked
           found   == {Source("TX", t) : t \in trail.found} \cup {r.source : r \in linked}
<1>1. ctx \in Context /\ phase = "execute" /\ pending \in ValidCalls
        /\ pending.tool = "trace_outgoing_funds"
  BY DEF TypeInv, TypeOK, ValidatedFirst, TraceFunds
<1>2. sources = {} /\ evidence = {} /\ ~ctx.empty_trace
        /\ calls = {PlannedTrace} /\ stepCount = 1
  BY <1>1 DEF FirstTurn
<1>3. trail \in TrailDigest /\ (trail.found # {} => trail.root # None)
  <2>1. pending.account \in Accounts /\ pending.depth \in Depths
    BY <1>1, CallFields
  <2>2. ctx.root \in TxRefs \cup {None}
    BY <1>1 DEF Context
  <2> QED
    BY <2>1, <2>2, TrailAssumption
<1>4. UNCHANGED <<lead, calls, stepCount>> /\ phase' = "decide"
  BY DEF TraceFunds, Reduce
<1>5. PlannedTrace' = PlannedTrace
  BY <1>4 DEF PlannedTrace
<1>6. CASE trail.found = {}
  <2>1. ctx'.empty_trace
    BY <1>1, <1>6 DEF TraceFunds, Reduce, Context
  <2> QED
    BY <1>4, <2>1 DEF LaterTurn
<1>7. CASE trail.found # {}
  <2>1. /\ ~ctx'.empty_trace /\ ctx'.root # None
        /\ ctx'.hypothesis.template = "trail"
    <3> DEFINE first == SubSeq(trail.focus, 1, IF Len(trail.focus) < 3 THEN Len(trail.focus)
                                               ELSE 3)
               next  == [ctx EXCEPT !.focus = trail.focus,
                                    !.root = trail.root,
                                    !.payment = payment,
                                    !.returned = IF trail.returned = None THEN @
                                                 ELSE trail.returned,
                                    !.rfcs = trail.rfcs,
                                    !.hypothesis = Hypothesis("trail", first)]
    <3>1. Reduce(next, found, records)
      BY <1>7 DEF TraceFunds
    <3>2. \A f, r, p, x, c, h :
            LET set == [ctx EXCEPT !.focus = f, !.root = r, !.payment = p, !.returned = x,
                                   !.rfcs = c, !.hypothesis = h]
            IN set.hypothesis = h /\ set.root = r /\ set.empty_trace = ctx.empty_trace
      BY <1>1 DEF Context
    <3>3. /\ next.hypothesis = Hypothesis("trail", first) /\ next.root = trail.root
          /\ next.empty_trace = ctx.empty_trace
      BY <3>2
    <3>4. \A ids : Hypothesis("trail", ids).template = "trail"
      BY DEF Hypothesis
    <3>5. ctx' = next
      BY <3>1 DEF Reduce
    <3> HIDE DEF next, found, records, first, trail
    <3> QED
      BY <1>2, <1>3, <1>7, <3>3, <3>4, <3>5
  <2>2. PICK newCtx : Reduce(newCtx, found, records)
    BY <1>7 DEF TraceFunds
  <2>3. NoCheckYet'
    <3>1. \A r \in records : r.source[1] # "EFOS"
      BY DEF LinkedRecords, Record, Source
    <3>2. \A e \in evidence' : e \in records
      BY <1>2, <2>2 DEF Reduce, Fresh
    <3> HIDE DEF records
    <3> QED
      BY <3>1, <3>2 DEF NoCheckYet
  <2>4. progress'
    <3>1. PICK t \in trail.found : TRUE
      BY <1>7
    <3>2. Source("TX", t) \in found
      BY <3>1
    <3> HIDE DEF found, records
    <3> QED
      BY <1>2, <2>2, <3>2 DEF Reduce
  <2>5. Traced(calls, stepCount)'
    BY <1>2, <1>4, <1>5, <2>1, <2>3 DEF Traced
  <2> QED
    BY <1>4, <2>1, <2>4, <2>5 DEF LaterTurn, Stage
<1> QED
  BY <1>6, <1>7

(* Every later call gets somewhere, or concludes. *)
LEMMA OfflineTools ==
  ASSUME TypeInv, LaterTurn, Execute
  PROVE  LaterTurn'
<1> DEFINE made  == calls \ {pending}
           count == stepCount - 1
<1> USE PlannedTools
<1>1. ctx \in Context /\ phase = "execute" /\ pending \in ValidCalls /\ stepCount \in Nat
  BY InvestigatorAssumption DEF TypeInv, TypeOK, ValidatedFirst, Execute, TraceFunds,
     InspectCounterparties, InspectInvoices, CheckRegulatoryStatus, CalculateExposure
<1>2. pending \in calls /\ Stage(made, count) /\ Turn(made, count, pending)
  BY <1>1 DEF LaterTurn
<1>3. UNCHANGED <<lead, calls, pending, stepCount>> /\ phase' = "decide"
  BY DEF Execute, TraceFunds, InspectCounterparties, InspectInvoices, CheckRegulatoryStatus,
         CalculateExposure, Reduce
<1>4. calls = made \cup {pending} /\ stepCount = count + 1
  BY <1>1, <1>2
<1>5. /\ pending \in {PlannedInspection, PlannedCheck, PlannedExposure}
      /\ pending = PlannedInspection => Traced(made, count) /\ ctx.rfcs # << >>
      /\ pending = PlannedCheck => Inspected(made, count) /\ MaxSteps > 3
  BY <1>2 DEF Turn, Inspected, Checked
<1>6. CASE InspectCounterparties
  <2> DEFINE asked == {r \in Rfcs : pending.tally[r] > 0}
             records == {Record("CPTY", r, "CORROBORATING") : r \in asked}
  <2>1. pending = PlannedInspection
    BY <1>5, <1>6 DEF InspectCounterparties
  <2>2. /\ ctx'.rfcs = ctx.rfcs /\ ctx'.root = ctx.root /\ ~ctx'.empty_trace
        /\ ctx'.hypothesis.template = "counterparties"
    BY <1>1, <1>2, <1>6 DEF InspectCounterparties, Reduce, Context, Hypothesis, Stage
  <2>3. progress'
    BY <1>5, <1>6, <2>1, <2>2 DEF InspectCounterparties, Reduce, Traced
  <2>4. NoCheckYet'
    <3>1. \A r \in records : r.source[1] # "EFOS"
      BY DEF Record, Source
    <3>2. \A e \in evidence' : e \in evidence \/ e \in records
      BY <1>6 DEF InspectCounterparties, Reduce, Fresh
    <3> HIDE DEF records
    <3> QED
      BY <1>5, <2>1, <3>1, <3>2 DEF NoCheckYet, Traced
  <2>5. PlannedTrace' = PlannedTrace /\ PlannedInspection' = PlannedInspection
    BY <1>3, <2>2 DEF PlannedTrace, PlannedInspection
  <2>6. Inspected(calls, stepCount)'
    BY <1>3, <1>4, <1>5, <2>1, <2>2, <2>4, <2>5 DEF Inspected, Traced
  <2> QED
    BY <1>2, <1>3, <2>2, <2>3, <2>6 DEF LaterTurn, Stage
<1>7. CASE CheckRegulatoryStatus
  <2> DEFINE record == Record("EFOS", pending.rfc, "CIRCUMSTANTIAL")
  <2>1. pending = PlannedCheck
    BY <1>5, <1>7 DEF CheckRegulatoryStatus
  <2>2. ctx' = ctx
    BY <1>7 DEF CheckRegulatoryStatus, Reduce
  <2>3. progress'
    <3>1. record.source[1] = "EFOS"
      BY DEF Record, Source
    <3>2. record \in Fresh({record})
      BY <1>5, <2>1, <3>1 DEF Fresh, Inspected, NoCheckYet
    <3> QED
      BY <1>7, <3>2 DEF CheckRegulatoryStatus, Reduce
  <2>4. /\ PlannedTrace' = PlannedTrace /\ PlannedInspection' = PlannedInspection
        /\ PlannedCheck' = PlannedCheck
    BY <1>3, <2>2 DEF PlannedTrace, PlannedInspection, PlannedCheck
  <2>5. Checked(calls, stepCount)'
    BY <1>3, <1>4, <1>5, <2>1, <2>2, <2>4 DEF Inspected, Checked
  <2> QED
    BY <1>2, <1>3, <2>2, <2>3, <2>5 DEF LaterTurn, Stage
<1>8. CASE CalculateExposure
  <2>1. RootFlowExposure(pending.root, pending.returned) \in Exposures
    BY <1>8, FieldsAssumption DEF CalculateExposure, RootFlowExposure, Exposures
  <2>2. ctx'.exposure # None
    BY <1>1, <1>8, <2>1, InvestigatorAssumption DEF CalculateExposure, Reduce, Context
  <2>3. pending'.tool = "calculate_exposure"
    BY <1>3, <1>8 DEF CalculateExposure
  <2> QED
    BY <1>3, <2>2, <2>3 DEF LaterTurn
<1>9. ~TraceFunds /\ ~InspectInvoices
  BY <1>5 DEF TraceFunds, InspectInvoices
<1> QED
  BY <1>6, <1>7, <1>8, <1>9 DEF Execute

LEMMA OfflineInit == Init => OfflineInv
  BY DEF Init, OfflineInv, FirstTurn

(* A run without interruption had none before its last step either. *)
LEMMA UninterruptedBefore ==
  ASSUME TypeInv, NEW step \in Step, steps' = Append(steps, step), Uninterrupted'
  PROVE  Uninterrupted /\ step.by \notin {"time_budget_guard", "tool_error", "validation"}
<1>1. /\ \A i \in DOMAIN steps : steps'[i] = steps[i] /\ i \in DOMAIN steps'
      /\ steps'[Len(steps) + 1] = step /\ Len(steps) + 1 \in DOMAIN steps'
  BY AppendStep DEF TypeInv, TypeOK
<1>2. \A i \in DOMAIN steps' :
        steps'[i].by \notin {"time_budget_guard", "tool_error", "validation"}
  BY DEF Uninterrupted
<1> QED
  BY <1>1, <1>2 DEF Uninterrupted

LEMMA OfflineNext == TypeInv /\ OfflineInv /\ [Next]_vars => OfflineInv'
<1> SUFFICES ASSUME TypeInv, OfflineInv, [Next]_vars,
                    ~configured', MaxSteps >= 3, Uninterrupted'
             PROVE  FirstTurn' \/ LaterTurn'
  BY DEF OfflineInv
<1> DEFINE Made(decision, by, call) == [decision |-> decision, by |-> by, call |-> call]
<1> USE PlannedTools
<1>a. \A decision \in {"FOLLOW", "DISCARD", "ESCALATE", "CONCLUDE"}, by \in {"tool"} \cup Guards,
         call \in {pending, NoCall} :
        steps' = Append(steps, Made(decision, by, call)) =>
          Uninterrupted /\ by \notin {"time_budget_guard", "tool_error", "validation"}
  <2> SUFFICES ASSUME NEW decision \in {"FOLLOW", "DISCARD", "ESCALATE", "CONCLUDE"},
                      NEW by \in {"tool"} \cup Guards, NEW call \in {pending, NoCall},
                      steps' = Append(steps, Made(decision, by, call))
               PROVE  Uninterrupted /\ by \notin {"time_budget_guard", "tool_error", "validation"}
    OBVIOUS
  <2>1. Made(decision, by, call) \in Step
    BY DEF TypeInv, TypeOK, Step
  <2>2. Made(decision, by, call).by = by
    OBVIOUS
  <2> HIDE DEF Made
  <2> QED
    BY <2>1, <2>2, UninterruptedBefore
<1>b. MaxSteps \in Nat /\ stepCount \in Nat /\ steps \in Seq(Step)
  BY InvestigatorAssumption DEF TypeInv, TypeOK
<1>1. CASE TimeBudgetGuard \/ ValidationFails \/ ToolError
  BY <1>a, <1>1 DEF TimeBudgetGuard, ValidationFails, ToolError, Finish, Guards
<1>2. CASE StepBudgetGuard
  <2>1. FirstTurn \/ LaterTurn
    BY <1>a, <1>2 DEF StepBudgetGuard, OfflineInv, Guards
  <2>2. stepCount < MaxSteps
    BY <1>2, <1>b, <2>1 DEF StepBudgetGuard, FirstTurn, LaterTurn, Stage, Traced, Inspected,
       Checked
  <2> QED
    BY <1>2, <1>b, <2>2 DEF StepBudgetGuard
<1>3. CASE SelectPlanned
  <2>1. /\ phase = "select" /\ phase' = "validate"
        /\ stepCount' = stepCount + 1
        /\ pending' = NextDeterministicAction(stepCount + 1)
        /\ UNCHANGED <<lead, calls, sources, ctx, evidence, steps, configured>>
    BY <1>3 DEF SelectPlanned, AtTop
  <2>2. FirstTurn \/ LaterTurn
    BY <2>1 DEF OfflineInv, Uninterrupted
  <2>3. /\ PlannedTrace' = PlannedTrace /\ PlannedInspection' = PlannedInspection
        /\ PlannedCheck' = PlannedCheck /\ PlannedExposure' = PlannedExposure
    BY <2>1 DEF PlannedTrace, PlannedInspection, PlannedCheck, PlannedExposure
  <2>4. CASE FirstTurn
    <3>1. calls = {} /\ stepCount = 0 /\ ~ctx.empty_trace
      BY <2>1, <2>4 DEF FirstTurn
    <3>2. pending' = PlannedTrace
      BY <2>1, <3>1 DEF NextDeterministicAction, Called, PlannedTrace
    <3> QED
      BY <2>1, <2>3, <2>4, <3>1, <3>2 DEF FirstTurn
  <2>5. CASE LaterTurn
    <3>1. Stage(calls, stepCount)
      BY <2>1, <2>5 DEF LaterTurn
    <3>2. Turn(calls, stepCount, pending')
      BY <2>1, <3>1, StageHasATurn
    <3>3. stepCount' - 1 = stepCount
      BY <1>b, <2>1
    <3>4. Stage(calls, stepCount - 1)'
      BY <2>1, <2>3, <3>1, <3>3 DEF Stage, Traced, Inspected, Checked, NoCheckYet
    <3>5. Turn(calls, stepCount - 1, pending)'
      BY <2>1, <2>3, <3>2, <3>3 DEF Turn, Traced, Inspected, Checked, NoCheckYet, Usable
    <3> QED
      BY <2>1, <3>4, <3>5 DEF LaterTurn
  <2> QED
    BY <2>2, <2>4, <2>5
<1>4. CASE SelectGemini
  BY <1>4 DEF SelectGemini
<1>5. CASE RepeatedCall
  <2>1. /\ phase = "validate" /\ phase' = "build" /\ pending \in calls
        /\ UNCHANGED <<ctx, calls>>
    BY <1>5 DEF RepeatedCall, Finish
  <2>2. FirstTurn \/ LaterTurn
    BY <1>a, <1>5 DEF RepeatedCall, Finish, OfflineInv, Guards
  <2>3. LaterTurn /\ ~Usable
    BY <2>1, <2>2 DEF FirstTurn, LaterTurn, Turn, Traced, Inspected, Checked
  <2> QED
    BY <2>1, <2>3 DEF LaterTurn, Usable
<1>6. CASE Admit
  <2>1. /\ phase = "validate" /\ phase' = "execute"
        /\ pending \notin calls /\ calls' = calls \cup {pending}
        /\ UNCHANGED <<lead, pending, stepCount, sources, ctx, evidence, steps, configured>>
    BY <1>6 DEF Admit
  <2>2. FirstTurn \/ LaterTurn
    BY <2>1 DEF OfflineInv, Uninterrupted
  <2>3. /\ PlannedTrace' = PlannedTrace /\ PlannedInspection' = PlannedInspection
        /\ PlannedCheck' = PlannedCheck /\ PlannedExposure' = PlannedExposure
    BY <2>1 DEF PlannedTrace, PlannedInspection, PlannedCheck, PlannedExposure
  <2>4. CASE FirstTurn
    BY <2>1, <2>3, <2>4 DEF FirstTurn
  <2>5. CASE LaterTurn
    <3>1. Stage(calls, stepCount - 1) /\ Turn(calls, stepCount - 1, pending)
      BY <2>1, <2>5 DEF LaterTurn
    <3>2. calls' \ {pending'} = calls
      BY <2>1
    <3>3. Stage(calls \ {pending}, stepCount - 1)'
      BY <2>1, <2>3, <3>1, <3>2 DEF Stage, Traced, Inspected, Checked, NoCheckYet
    <3>4. Turn(calls \ {pending}, stepCount - 1, pending)'
      BY <2>1, <2>3, <3>1, <3>2 DEF Turn, Traced, Inspected, Checked, NoCheckYet, Usable
    <3> QED
      BY <2>1, <3>3, <3>4 DEF LaterTurn
  <2> QED
    BY <2>2, <2>4, <2>5
<1>7. CASE UnknownRoot
  <2>1. /\ phase = "execute" /\ phase' = "build" /\ ctx' = ctx
        /\ pending.tool = "calculate_exposure" /\ pending.root \notin Transactions
    BY <1>7 DEF UnknownRoot, Finish
  <2>2. FirstTurn \/ LaterTurn
    BY <1>a, <1>7 DEF UnknownRoot, Finish, OfflineInv, Guards
  <2>3. pending = PlannedExposure /\ ctx.root # None
    BY <2>1, <2>2 DEF FirstTurn, LaterTurn, Turn, Stage
  <2>4. ctx.root = Ghost
    BY <2>1, <2>3 DEF PlannedExposure, ExposureCall, TypeInv, TypeOK, Context, TxRefs
  <2> QED
    BY <2>1, <2>4 DEF LaterTurn, Usable
<1>8. CASE Execute
  <2>1. phase = "execute" /\ UNCHANGED <<configured, steps>>
    BY <1>8 DEF Execute, TraceFunds, InspectCounterparties, InspectInvoices,
       CheckRegulatoryStatus, CalculateExposure, Reduce
  <2>2. FirstTurn \/ LaterTurn
    BY <2>1 DEF OfflineInv, Uninterrupted
  <2>3. CASE FirstTurn
    <3>1. pending.tool = "trace_outgoing_funds"
      BY <2>1, <2>3 DEF FirstTurn
    <3>2. TraceFunds
      BY <1>8, <3>1 DEF Execute, InspectCounterparties, InspectInvoices,
         CheckRegulatoryStatus, CalculateExposure
    <3> QED
      BY <2>3, <3>2, OfflineTrace
  <2> QED
    BY <1>8, <2>2, <2>3, OfflineTools
<1>9. CASE Follow
  <2>1. /\ phase = "decide" /\ phase' = "select" /\ Decision = "FOLLOW"
        /\ UNCHANGED <<lead, calls, stepCount, ctx, evidence>>
    BY <1>9 DEF Follow
  <2>2. LaterTurn
    BY <1>a, <1>9, <2>1 DEF Follow, OfflineInv, FirstTurn, Guards
  <2>3. Stage(calls, stepCount)
    BY <2>1, <2>2 DEF LaterTurn, Decision
  <2>4. /\ PlannedTrace' = PlannedTrace /\ PlannedInspection' = PlannedInspection
        /\ PlannedCheck' = PlannedCheck
    BY <2>1 DEF PlannedTrace, PlannedInspection, PlannedCheck
  <2>5. Stage(calls, stepCount)'
    BY <2>1, <2>3, <2>4 DEF Stage, Traced, Inspected, Checked, NoCheckYet
  <2> QED
    BY <2>1, <2>5 DEF LaterTurn
<1>10. CASE Settle
  <2>1. /\ phase = "decide" /\ phase' = "build" /\ Decision # "FOLLOW"
        /\ steps' = Append(steps, Made(Decision, "tool", pending))
    BY <1>10 DEF Settle, Finish
  <2>2. Decision \in {"DISCARD", "ESCALATE", "CONCLUDE"}
    BY <2>1 DEF Decision
  <2>3. LaterTurn
    BY <1>a, <1>10, <2>1, <2>2 DEF Settle, OfflineInv, FirstTurn, Guards
  <2>4. Decision \in {"DISCARD", "CONCLUDE"}
    BY <2>1, <2>3, StageHasATurn DEF LaterTurn, Decision
  <2>5. steps'[Len(steps')].decision = Decision
    BY <1>b, <2>1
  <2> QED
    BY <2>1, <2>4, <2>5 DEF LaterTurn
<1>11. CASE BuildCase \/ Done
  <2>1. phase \in {"build", "done"} /\ phase' = "done" /\ UNCHANGED <<steps, ctx, configured>>
    BY <1>11 DEF BuildCase, Done, vars
  <2>2. LaterTurn
    BY <2>1 DEF OfflineInv, FirstTurn, Uninterrupted
  <2> QED
    BY <2>1, <2>2 DEF LaterTurn, Usable
<1>12. CASE UNCHANGED vars
  BY <1>12 DEF vars, OfflineInv, FirstTurn, LaterTurn, Stage, Turn, Traced, Inspected, Checked,
     NoCheckYet, Usable, Uninterrupted, PlannedTrace, PlannedInspection, PlannedCheck,
     PlannedExposure
<1> QED
  BY <1>1, <1>2, <1>3, <1>4, <1>5, <1>6, <1>7, <1>8, <1>9, <1>10, <1>11, <1>12 DEF Next

(* Without the model and with three steps or more, an investigation that is
   not interrupted is decided by what its tools found, never by running out
   of steps or of progress, for every dataset and lead whose root is a
   transaction and whose trail has one account per holder. *)
THEOREM OfflineInvestigationsAreDecided == Spec => []OfflinePlanDecides
<1>1. Spec => [](TypeInv /\ OfflineInv)
  BY TypeInit, TypeNext, OfflineInit, OfflineNext, PTL DEF Spec
<1>2. OfflineInv => OfflinePlanDecides
  BY DEF OfflineInv, FirstTurn, LaterTurn, Usable, Uninterrupted, OfflinePlanDecides
<1> QED
  BY <1>1, <1>2, PTL

-----------------------------------------------------------------------------
(* The traces the investigator reads. *)

(* Sequences.  A set of naturals has a least member, which is how whatever is
   defined by recursion is followed here: no step of it is the first to fail. *)
LEMMA Least ==
  ASSUME NEW S \in SUBSET Nat, S # {}
  PROVE  \E n \in S : \A m \in S : ~(m < n)
<1>1. \E n \in S : \A m \in S : <<m, n>> \notin OpToRel(<, Nat)
  BY WFMin, NatLessThanWellFounded, Zenon
<1> QED
  BY <1>1 DEF OpToRel

(* The recursion FlattenSeq is defined by, as far as n. *)
Unrolls(g, s, n) == g = [i \in 1..n |-> IF i = 1 THEN s[i] ELSE g[i-1] \o s[i]]

LEMMA Unrolled ==
  ASSUME NEW s, NEW n \in Nat
  PROVE  \E g : Unrolls(g, s, n)
<1> DEFINE Bad == {m \in Nat : ~ \E g : Unrolls(g, s, m)}
<1> SUFFICES ASSUME Bad # {} PROVE FALSE
  OBVIOUS
<1>1. PICK m \in Bad : \A k \in Bad : ~(k < m)
  BY Least
<1>2. m # 0
  <2>1. Unrolls([i \in 1..0 |-> 0], s, 0)
    BY DEF Unrolls
  <2> QED
    BY <2>1
<1>3. PICK g : Unrolls(g, s, m - 1)
  BY <1>1, <1>2
<1> DEFINE h == [i \in 1..m |-> IF i = 1 THEN s[i] ELSE g[i-1] \o s[i]]
<1>4. \A i \in 1..(m-1) : g[i] = h[i]
  <2> SUFFICES ASSUME NEW i \in 1..(m-1) PROVE g[i] = h[i]
    OBVIOUS
  <2>1. g[i] = IF i = 1 THEN s[i] ELSE g[i-1] \o s[i]
    BY <1>3, Zenon DEF Unrolls
  <2>2. i \in 1..m
    BY <1>1
  <2> QED
    BY <2>1, <2>2, Zenon
<1>5. Unrolls(h, s, m)
  <2>1. \A i \in 1..m : i # 1 => i - 1 \in 1..(m-1)
    BY <1>1
  <2>2. \A i \in 1..m : i # 1 => g[i-1] = h[i-1]
    BY <1>4, <2>1, Zenon
  <2>4. h = [i \in 1..m |-> h[i]]
    OBVIOUS
  <2>3. h = [i \in 1..m |-> IF i = 1 THEN s[i] ELSE h[i-1] \o s[i]]
    <3>1. \A i \in 1..m : h[i] = IF i = 1 THEN s[i] ELSE h[i-1] \o s[i]
      BY <2>2, Zenon
    <3> HIDE DEF h
    <3> QED
      BY <3>1, <2>4
  <2> QED
    BY <2>3 DEF Unrolls
<1> QED
  BY <1>1, <1>5

LEMMA FlattenUnrolls ==
  ASSUME NEW s, Len(s) \in Nat, Len(s) # 0
  PROVE  \E g : Unrolls(g, s, Len(s)) /\ FlattenSeq(s) = g[Len(s)]
<1>1. \E g : g = [i \in 1..Len(s) |-> IF i = 1 THEN s[i] ELSE g[i-1] \o s[i]]
  BY Unrolled DEF Unrolls
<1> DEFINE G == CHOOSE g : g = [i \in 1..Len(s) |-> IF i = 1 THEN s[i] ELSE g[i-1] \o s[i]]
<1>2. G = [i \in 1..Len(s) |-> IF i = 1 THEN s[i] ELSE G[i-1] \o s[i]]
  BY <1>1, Zenon
<1>3. FlattenSeq(s) = G[Len(s)]
  BY Zenon DEF FlattenSeq
<1> QED
  BY <1>2, <1>3 DEF Unrolls

LEMMA FlattenIsSeq ==
  ASSUME NEW X, NEW s \in Seq(Seq(X))
  PROVE  FlattenSeq(s) \in Seq(X)
<1>1. CASE Len(s) = 0
  <2>1. s = << >>
    BY <1>1
  <2> QED
    BY <2>1 DEF FlattenSeq
<1>2. CASE Len(s) # 0
  <2>1. PICK g : Unrolls(g, s, Len(s)) /\ FlattenSeq(s) = g[Len(s)]
    BY <1>2, FlattenUnrolls
  <2> DEFINE Bad == {i \in 1..Len(s) : g[i] \notin Seq(X)}
  <2>2. Bad = {}
    <3> SUFFICES ASSUME Bad # {} PROVE FALSE
      OBVIOUS
    <3>1. PICK i \in Bad : \A k \in Bad : ~(k < i)
      <4>1. Bad \in SUBSET Nat
        OBVIOUS
      <4> HIDE DEF Bad
      <4> QED
        BY <4>1, Least
    <3>2. g[i] = IF i = 1 THEN s[i] ELSE g[i-1] \o s[i]
      BY <2>1, Zenon DEF Unrolls
    <3>3. i \in 1..Len(s) /\ s[i] \in Seq(X)
      OBVIOUS
    <3>4. CASE i = 1
      BY <3>2, <3>3, <3>4
    <3>5. CASE i # 1
      <4>1. i - 1 \in 1..Len(s) /\ i - 1 < i
        BY <3>3, <3>5
      <4>2. g[i-1] \in Seq(X)
        BY <3>1, <4>1
      <4>3. g[i-1] \o s[i] \in Seq(X)
        BY <3>3, <4>2
      <4>4. g[i] = g[i-1] \o s[i]
        BY <3>2, <3>5
      <4> QED
        BY <4>3, <4>4
    <3> QED
      BY <3>4, <3>5
  <2> QED
    BY <1>2, <2>1, <2>2
<1> QED
  BY <1>1, <1>2

LEMMA RangeOfBoth ==
  ASSUME NEW X, NEW a \in Seq(X), NEW b \in Seq(X)
  PROVE  Range(a \o b) = Range(a) \cup Range(b)
<1>1. \A i \in DOMAIN (a \o b) : (a \o b)[i] \in Range(a) \cup Range(b)
  BY DEF Range
<1>2. \A i \in DOMAIN a : i \in DOMAIN (a \o b) /\ (a \o b)[i] = a[i]
  OBVIOUS
<1>3. \A i \in DOMAIN b : i + Len(a) \in DOMAIN (a \o b) /\ (a \o b)[i + Len(a)] = b[i]
  OBVIOUS
<1>4. Range(a) \subseteq Range(a \o b)
  BY <1>2, Zenon DEF Range
<1>5. Range(b) \subseteq Range(a \o b)
  BY <1>3, Zenon DEF Range
<1>6. Range(a \o b) \subseteq Range(a) \cup Range(b)
  BY <1>1, Zenon DEF Range
<1> QED
  BY <1>4, <1>5, <1>6

LEMMA RangeOfFlatten ==
  ASSUME NEW X, NEW s \in Seq(Seq(X))
  PROVE  Range(FlattenSeq(s)) = UNION {Range(s[i]) : i \in 1..Len(s)}
<1>1. CASE Len(s) = 0
  <2>1. s = << >>
    BY <1>1
  <2> QED
    BY <2>1 DEF FlattenSeq, Range
<1>2. CASE Len(s) # 0
  <2>1. PICK g : Unrolls(g, s, Len(s)) /\ FlattenSeq(s) = g[Len(s)]
    BY <1>2, FlattenUnrolls
  <2> DEFINE Upto(i) == UNION {Range(s[k]) : k \in 1..i}
             Bad == {i \in 1..Len(s) : ~(g[i] \in Seq(X) /\ Range(g[i]) = Upto(i))}
  <2>2. Bad = {}
    <3> SUFFICES ASSUME Bad # {} PROVE FALSE
      OBVIOUS
    <3>1. PICK i \in Bad : \A k \in Bad : ~(k < i)
      <4>1. Bad \in SUBSET Nat
        OBVIOUS
      <4> HIDE DEF Bad
      <4> QED
        BY <4>1, Least
    <3>2. g[i] = IF i = 1 THEN s[i] ELSE g[i-1] \o s[i]
      BY <2>1, Zenon DEF Unrolls
    <3>3. i \in 1..Len(s) /\ s[i] \in Seq(X)
      OBVIOUS
    <3>4. CASE i = 1
      <4>1. Upto(1) = Range(s[1])
        OBVIOUS
      <4> HIDE DEF Upto
      <4> QED
        BY <3>2, <3>3, <3>4, <4>1
    <3>5. CASE i # 1
      <4>1. i - 1 \in 1..Len(s) /\ i - 1 < i
        BY <3>3, <3>5
      <4>2. g[i-1] \in Seq(X) /\ Range(g[i-1]) = Upto(i - 1)
        <5> HIDE DEF Upto
        <5> QED
          BY <3>1, <4>1
      <4>3. 1..i = (1..(i-1)) \cup {i}
        BY <3>3
      <4>4. Upto(i) = Upto(i - 1) \cup Range(s[i])
        BY <4>3
      <4> HIDE DEF Upto
      <4>7. g[i] = g[i-1] \o s[i]
        BY <3>2, <3>5
      <4>5. Range(g[i]) = Upto(i)
        BY <3>3, <4>2, <4>4, <4>7, RangeOfBoth
      <4>6. g[i-1] \o s[i] \in Seq(X)
        BY <3>3, <4>2
      <4> QED
        BY <4>5, <4>6, <4>7
    <3> QED
      BY <3>4, <3>5
  <2>3. Len(s) \in 1..Len(s)
    BY <1>2
  <2>4. Range(g[Len(s)]) = Upto(Len(s))
    <3> HIDE DEF Upto
    <3> QED
      BY <2>2, <2>3
  <2> QED
    BY <2>1, <2>4
<1> QED
  BY <1>1, <1>2

-----------------------------------------------------------------------------
LEMMA BothInjective ==
  ASSUME NEW X, NEW a \in Seq(X), NEW b \in Seq(X), IsInjective(a), IsInjective(b),
         Range(a) \cap Range(b) = {}
  PROVE  IsInjective(a \o b)
<1>1. \A i \in 1..Len(a), j \in 1..Len(b) : a[i] # b[j]
  BY DEF Range
<1>2. \A i \in 1..Len(a \o b) : (a \o b)[i] = IF i <= Len(a) THEN a[i] ELSE b[i - Len(a)]
  OBVIOUS
<1>3. \A i \in 1..Len(a \o b) : IF i <= Len(a) THEN i \in 1..Len(a) ELSE i - Len(a) \in 1..Len(b)
  OBVIOUS
<1>4. \A i, j \in 1..Len(a) : a[i] = a[j] => i = j
  BY DEF IsInjective
<1>5. \A i, j \in 1..Len(b) : b[i] = b[j] => i = j
  BY DEF IsInjective
<1> SUFFICES ASSUME NEW i \in 1..Len(a \o b), NEW j \in 1..Len(a \o b), (a \o b)[i] = (a \o b)[j]
             PROVE  i = j
  BY DEF IsInjective
<1>6. CASE i <= Len(a) /\ j <= Len(a)
  BY <1>2, <1>3, <1>4, <1>6
<1>7. CASE i <= Len(a) /\ ~(j <= Len(a))
  BY <1>1, <1>2, <1>3, <1>7
<1>8. CASE ~(i <= Len(a)) /\ j <= Len(a)
  BY <1>1, <1>2, <1>3, <1>8
<1>9. CASE ~(i <= Len(a)) /\ ~(j <= Len(a))
  <2>1. i - Len(a) = j - Len(a)
    BY <1>2, <1>3, <1>5, <1>9
  <2> QED
    BY <2>1
<1> QED
  BY <1>6, <1>7, <1>8, <1>9

LEMMA FlattenInjective ==
  ASSUME NEW X, NEW s \in Seq(Seq(X)), \A i \in 1..Len(s) : IsInjective(s[i]),
         \A i, j \in 1..Len(s) : i # j => Range(s[i]) \cap Range(s[j]) = {}
  PROVE  IsInjective(FlattenSeq(s))
<1>1. CASE Len(s) = 0
  <2>1. s = << >>
    BY <1>1
  <2> QED
    BY <2>1 DEF FlattenSeq, IsInjective
<1>2. CASE Len(s) # 0
  <2>1. PICK g : Unrolls(g, s, Len(s)) /\ FlattenSeq(s) = g[Len(s)]
    BY <1>2, FlattenUnrolls
  <2> DEFINE Upto(i) == UNION {Range(s[k]) : k \in 1..i}
             Good(i) == g[i] \in Seq(X) /\ Range(g[i]) = Upto(i) /\ IsInjective(g[i])
             Bad == {i \in 1..Len(s) : ~Good(i)}
  <2>2. Bad = {}
    <3> SUFFICES ASSUME Bad # {} PROVE FALSE
      OBVIOUS
    <3>1. PICK i \in Bad : \A k \in Bad : ~(k < i)
      <4>1. Bad \in SUBSET Nat
        OBVIOUS
      <4> HIDE DEF Bad
      <4> QED
        BY <4>1, Least
    <3>2. g[i] = IF i = 1 THEN s[i] ELSE g[i-1] \o s[i]
      BY <2>1, Zenon DEF Unrolls
    <3>3. i \in 1..Len(s) /\ s[i] \in Seq(X)
      OBVIOUS
    <3>4. CASE i = 1
      <4>1. Upto(1) = Range(s[1])
        OBVIOUS
      <4> HIDE DEF Upto
      <4> QED
        BY <3>2, <3>3, <3>4, <4>1
    <3>5. CASE i # 1
      <4>1. i - 1 \in 1..Len(s) /\ i - 1 < i
        BY <3>3, <3>5
      <4>2. Good(i - 1)
        <5> HIDE DEF Good
        <5> QED
          BY <3>1, <4>1
      <4>3. 1..i = (1..(i-1)) \cup {i}
        BY <3>3
      <4>4. Upto(i) = Upto(i - 1) \cup Range(s[i])
        BY <4>3
      <4>8. Range(g[i-1]) \cap Range(s[i]) = {}
        <5>1. \A k \in 1..(i-1) : k \in 1..Len(s) /\ k # i
          BY <3>3
        <5>2. \A k \in 1..(i-1) : Range(s[k]) \cap Range(s[i]) = {}
          BY <3>3, <5>1
        <5> QED
          BY <4>2, <5>2
      <4> HIDE DEF Upto
      <4>7. g[i] = g[i-1] \o s[i]
        BY <3>2, <3>5
      <4>5. Range(g[i]) = Upto(i)
        BY <3>3, <4>2, <4>4, <4>7, RangeOfBoth
      <4>6. g[i-1] \o s[i] \in Seq(X)
        BY <3>3, <4>2
      <4>9. IsInjective(g[i])
        BY <3>3, <4>2, <4>7, <4>8, BothInjective
      <4> QED
        BY <4>5, <4>6, <4>7, <4>9
    <3> QED
      BY <3>4, <3>5
  <2>3. Len(s) \in 1..Len(s)
    BY <1>2
  <2> HIDE DEF Upto
  <2> QED
    BY <2>1, <2>2, <2>3
<1> QED
  BY <1>1, <1>2

(* A comprehension keeps the members of the set. *)
LEMMA KeepIs ==
  ASSUME NEW X, NEW s \in Seq(X), NEW S
  PROVE  /\ Keep(s, S) \in Seq(X \cap S)
         /\ Range(Keep(s, S)) = Range(s) \cap S
<1> DEFINE picked == [i \in DOMAIN s |-> IF s[i] \in S THEN <<s[i]>> ELSE << >>]
<1>1. \A i \in 1..Len(s) : picked[i] = IF s[i] \in S THEN <<s[i]>> ELSE << >>
  OBVIOUS
<1>2. \A i \in 1..Len(s) : s[i] \in X
  OBVIOUS
<1>3. picked \in Seq(Seq(X \cap S)) /\ Len(picked) = Len(s)
  <2>1. \A i \in 1..Len(s) : picked[i] \in Seq(X \cap S)
    <3> SUFFICES ASSUME NEW i \in 1..Len(s) PROVE picked[i] \in Seq(X \cap S)
      OBVIOUS
    <3>1. picked[i] = IF s[i] \in S THEN <<s[i]>> ELSE << >>
      BY <1>1
    <3>2. s[i] \in S => <<s[i]>> \in Seq(X \cap S)
      BY <1>2
    <3>3. << >> \in Seq(X \cap S)
      OBVIOUS
    <3> HIDE DEF picked
    <3> QED
      BY <3>1, <3>2, <3>3
  <2>2. picked = [i \in 1..Len(s) |-> picked[i]] /\ Len(s) \in Nat
    OBVIOUS
  <2> HIDE DEF picked
  <2>3. picked \in [1..Len(s) -> Seq(X \cap S)]
    BY <2>1, <2>2
  <2> QED
    BY <2>2, <2>3
<1>4. \A i \in 1..Len(s) : Range(picked[i]) = {s[i]} \cap S
  <2> SUFFICES ASSUME NEW i \in 1..Len(s) PROVE Range(picked[i]) = {s[i]} \cap S
    OBVIOUS
  <2>1. CASE s[i] \in S
    <3>1. picked[i] = <<s[i]>>
      BY <1>1, <2>1
    <3> HIDE DEF picked
    <3> QED
      BY <2>1, <3>1 DEF Range
  <2>2. CASE s[i] \notin S
    <3>1. picked[i] = << >>
      BY <1>1, <2>2
    <3> HIDE DEF picked
    <3> QED
      BY <2>2, <3>1 DEF Range
  <2> QED
    BY <2>1, <2>2
<1>5. Range(s) = {s[i] : i \in 1..Len(s)}
  BY DEF Range
<1> HIDE DEF picked
<1>6. Keep(s, S) = FlattenSeq(picked)
  BY DEF Keep, picked
<1>7. Range(FlattenSeq(picked)) = Range(s) \cap S
  <2>1. Range(FlattenSeq(picked)) = UNION {Range(picked[i]) : i \in 1..Len(picked)}
    BY <1>3, RangeOfFlatten
  <2>2. UNION {Range(picked[i]) : i \in 1..Len(s)} = {s[i] : i \in 1..Len(s)} \cap S
    BY <1>4
  <2> QED
    BY <1>3, <1>5, <2>1, <2>2
<1>8. FlattenSeq(picked) \in Seq(X \cap S)
  BY <1>3, FlattenIsSeq
<1> QED
  BY <1>6, <1>7, <1>8

(* What was not seen is passed, each once. *)
LEMMA UnseenIs ==
  ASSUME NEW X, NEW s \in Seq(X), NEW seen
  PROVE  /\ Unseen(s, seen) \in Seq(X)
         /\ Range(Unseen(s, seen)) = Range(s) \ seen
         /\ IsInjective(Unseen(s, seen))
<1> DEFINE First(i) == s[i] \notin seen /\ \A j \in 1..(i - 1) : s[j] # s[i]
           picked == [i \in DOMAIN s |-> IF First(i) THEN <<s[i]>> ELSE << >>]
<1>1. \A i \in 1..Len(s) : picked[i] = (IF First(i) THEN <<s[i]>> ELSE << >>) /\ s[i] \in X
  OBVIOUS
<1>2. picked = [i \in 1..Len(s) |-> picked[i]] /\ Len(s) \in Nat
  OBVIOUS
<1>3. Unseen(s, seen) = FlattenSeq(picked)
  BY DEF Unseen
<1>4. \A i, j \in 1..Len(s) : First(i) /\ First(j) /\ i # j => s[i] # s[j]
  <2> SUFFICES ASSUME NEW i \in 1..Len(s), NEW j \in 1..Len(s), First(i), First(j), i # j, s[i] = s[j]
               PROVE  FALSE
    OBVIOUS
  <2>1. i \in 1..(j - 1) \/ j \in 1..(i - 1)
    OBVIOUS
  <2> QED
    BY <2>1
<1>5. ASSUME NEW i \in 1..Len(s), s[i] \notin seen
      PROVE  \E j \in 1..Len(s) : First(j) /\ s[j] = s[i]
  <2> DEFINE Same == {j \in 1..Len(s) : s[j] = s[i]}
  <2>1. PICK j \in Same : \A k \in Same : ~(k < j)
    <3>1. Same \in SUBSET Nat /\ Same # {}
      OBVIOUS
    <3> HIDE DEF Same
    <3> QED
      BY <3>1, Least
  <2>2. \A k \in 1..(j - 1) : k \in 1..Len(s) /\ k < j
    OBVIOUS
  <2>3. \A k \in 1..(j - 1) : s[k] # s[j]
    BY <2>1, <2>2
  <2> QED
    BY <1>5, <2>3
<1>6. \A i \in 1..Len(s) : First(i) => s[i] \notin seen
  OBVIOUS
<1> HIDE DEF picked, First
<1>7. ASSUME NEW i \in 1..Len(s)
      PROVE  /\ picked[i] \in Seq(X) /\ IsInjective(picked[i])
             /\ Range(picked[i]) = IF First(i) THEN {s[i]} ELSE {}
  <2>1. CASE First(i)
    <3>1. picked[i] = <<s[i]>> /\ s[i] \in X
      BY <1>1, <2>1
    <3> QED
      BY <2>1, <3>1 DEF Range, IsInjective
  <2>2. CASE ~First(i)
    <3>1. picked[i] = << >>
      BY <1>1, <2>2
    <3> QED
      BY <2>2, <3>1 DEF Range, IsInjective
  <2> QED
    BY <2>1, <2>2
<1>8. picked \in Seq(Seq(X)) /\ Len(picked) = Len(s)
  <2>1. picked \in [1..Len(s) -> Seq(X)]
    BY <1>2, <1>7
  <2> QED
    BY <1>2, <2>1
<1>9. Range(FlattenSeq(picked)) = Range(s) \ seen
  <2>1. Range(FlattenSeq(picked)) = UNION {Range(picked[i]) : i \in 1..Len(s)}
    BY <1>8, RangeOfFlatten
  <2>2. Range(s) = {s[i] : i \in 1..Len(s)}
    BY DEF Range
  <2>3. ASSUME NEW x \in Range(FlattenSeq(picked)) PROVE x \in Range(s) \ seen
    <3>1. PICK i \in 1..Len(s) : x \in Range(picked[i])
      BY <2>1
    <3> QED
      BY <1>6, <1>7, <2>2, <3>1
  <2>4. ASSUME NEW x \in Range(s) \ seen PROVE x \in Range(FlattenSeq(picked))
    <3>1. PICK i \in 1..Len(s) : s[i] = x
      BY <2>2
    <3>2. PICK j \in 1..Len(s) : First(j) /\ s[j] = x
      BY <1>5, <3>1
    <3>3. x \in Range(picked[j])
      BY <1>7, <3>2
    <3> QED
      BY <2>1, <3>3
  <2> QED
    BY <2>3, <2>4
<1>10. IsInjective(FlattenSeq(picked))
  <2>1. \A i, j \in 1..Len(s) : i # j => Range(picked[i]) \cap Range(picked[j]) = {}
    <3> SUFFICES ASSUME NEW i \in 1..Len(s), NEW j \in 1..Len(s), i # j
                 PROVE  Range(picked[i]) \cap Range(picked[j]) = {}
      OBVIOUS
    <3>1. First(i) /\ First(j) => s[i] # s[j]
      BY <1>4
    <3>2. /\ Range(picked[i]) = IF First(i) THEN {s[i]} ELSE {}
          /\ Range(picked[j]) = IF First(j) THEN {s[j]} ELSE {}
      BY <1>7
    <3> QED
      BY <3>1, <3>2
  <2>2. \A i \in 1..Len(picked) : IsInjective(picked[i])
    BY <1>7, <1>8
  <2> QED
    BY <1>8, <2>1, <2>2, FlattenInjective
<1>11. FlattenSeq(picked) \in Seq(X)
  BY <1>8, FlattenIsSeq
<1> QED
  BY <1>3, <1>9, <1>10, <1>11

-----------------------------------------------------------------------------
(* What is defined by recursion over the naturals. *)

(* F goes from b on by g, within S. *)
Iterates(F, S, b, g) ==
  /\ F \in [Nat -> S]
  /\ F[0] = b
  /\ \A n \in Nat : F[n + 1] = g[F[n]]

(* As many steps of the recursion as there are. *)
Starts(f, S, b, g, n) ==
  /\ f \in [0..n -> S]
  /\ f[0] = b
  /\ \A k \in 0..n : k # n => f[k + 1] = g[f[k]]

LEMMA StartsExist ==
  ASSUME NEW S, NEW b \in S, NEW g \in [S -> S], NEW n \in Nat
  PROVE  \E f : Starts(f, S, b, g, n)
<1> DEFINE Bad == {m \in Nat : ~ \E f : Starts(f, S, b, g, m)}
<1> SUFFICES ASSUME Bad # {} PROVE FALSE
  OBVIOUS
<1>1. PICK m \in Bad : \A k \in Bad : ~(k < m)
  BY Least
<1>2. m # 0
  <2>1. Starts([k \in 0..0 |-> b], S, b, g, 0)
    BY DEF Starts
  <2> QED
    BY <2>1
<1>3. PICK f : Starts(f, S, b, g, m - 1)
  BY <1>1, <1>2
<1> DEFINE h == [k \in 0..m |-> IF k = m THEN g[f[m - 1]] ELSE f[k]]
<1>4. f \in [0..(m-1) -> S] /\ f[0] = b /\ \A k \in 0..(m-1) : k # m - 1 => f[k + 1] = g[f[k]]
  BY <1>3 DEF Starts
<1>5. m \in Nat /\ m - 1 \in 0..(m-1) /\ g[f[m - 1]] \in S
  BY <1>1, <1>2, <1>4
<1>6. \A k \in 0..m : k # m => h[k] = f[k] /\ k \in 0..(m-1)
  BY <1>5
<1>7. h[m] = g[f[m - 1]] /\ h[m - 1] = f[m - 1]
  BY <1>5
<1>8. h \in [0..m -> S]
  BY <1>4, <1>5, <1>6
<1> HIDE DEF h
<1>9. h[0] = b
  BY <1>2, <1>4, <1>5, <1>6
<1>10. ASSUME NEW k \in 0..m, k # m PROVE h[k + 1] = g[h[k]]
  <2>1. CASE k = m - 1
    BY <1>5, <1>7, <2>1
  <2>2. CASE k # m - 1
    <3>1. k \in 0..(m-1) /\ k + 1 \in 0..m /\ k + 1 # m
      BY <1>5, <1>10, <2>2
    <3> QED
      BY <1>4, <1>6, <1>10, <2>2, <3>1
  <2> QED
    BY <2>1, <2>2
<1>11. Starts(h, S, b, g, m)
  BY <1>8, <1>9, <1>10 DEF Starts
<1> QED
  BY <1>1, <1>11

LEMMA StartsAgree ==
  ASSUME NEW S, NEW b, NEW g, NEW m \in Nat, NEW n \in Nat, m <= n,
         NEW f, NEW h, Starts(f, S, b, g, m), Starts(h, S, b, g, n)
  PROVE  \A k \in 0..m : f[k] = h[k]
<1> DEFINE Bad == {k \in 0..m : f[k] # h[k]}
<1> SUFFICES ASSUME Bad # {} PROVE FALSE
  OBVIOUS
<1>1. PICK k \in Bad : \A i \in Bad : ~(i < k)
  <2>1. Bad \in SUBSET Nat
    OBVIOUS
  <2> HIDE DEF Bad
  <2> QED
    BY <2>1, Least
<1>2. k # 0
  BY DEF Starts
<1>3. k - 1 \in 0..m /\ k - 1 # m /\ k - 1 \in 0..n /\ k - 1 # n /\ k - 1 < k /\ (k - 1) + 1 = k
  BY <1>2
<1>4. f[k - 1] = h[k - 1]
  BY <1>1, <1>3
<1>5. f[k] = g[f[k - 1]] /\ h[k] = g[h[k - 1]]
  <2>1. f[(k - 1) + 1] = g[f[k - 1]]
    BY <1>3 DEF Starts
  <2>2. h[(k - 1) + 1] = g[h[k - 1]]
    BY <1>3 DEF Starts
  <2> QED
    BY <1>3, <2>1, <2>2
<1> QED
  BY <1>4, <1>5

LEMMA IteratesExist ==
  ASSUME NEW S, NEW b \in S, NEW g \in [S -> S]
  PROVE  \E F : Iterates(F, S, b, g)
<1> DEFINE part(n) == CHOOSE f : Starts(f, S, b, g, n)
           F == [n \in Nat |-> part(n)[n]]
<1>1. \A n \in Nat : Starts(part(n), S, b, g, n)
  BY StartsExist
<1> HIDE DEF part
<1>2. \A n \in Nat : part(n)[n] \in S
  <2> SUFFICES ASSUME NEW n \in Nat PROVE part(n)[n] \in S
    OBVIOUS
  <2>1. part(n) \in [0..n -> S]
    BY <1>1 DEF Starts
  <2> QED
    BY <2>1
<1>3. F[0] = b
  BY <1>1 DEF Starts
<1>4. ASSUME NEW n \in Nat PROVE F[n + 1] = g[F[n]]
  <2>1. n + 1 \in Nat /\ n <= n + 1 /\ n \in 0..(n+1) /\ n \in 0..n /\ n # n + 1
    OBVIOUS
  <2>2. part(n)[n] = part(n + 1)[n]
    BY <1>1, <2>1, StartsAgree
  <2>3. part(n + 1)[n + 1] = g[part(n + 1)[n]]
    BY <1>1, <2>1 DEF Starts
  <2> QED
    BY <2>1, <2>2, <2>3
<1> QED
  BY <1>2, <1>3, <1>4 DEF Iterates

(* A recursive function over 0..n goes through the same steps, wherever it
   is defined by them. *)
LEMMA RecursionIterates ==
  ASSUME NEW S, NEW b, NEW g, NEW F, Iterates(F, S, b, g), NEW n \in Nat, NEW f,
         f[0] = b, \A k \in 1..n : f[k - 1] \in S => f[k] = g[f[k - 1]]
  PROVE  \A k \in 0..n : f[k] = F[k]
<1> DEFINE Bad == {k \in 0..n : f[k] # F[k]}
<1> SUFFICES ASSUME Bad # {} PROVE FALSE
  OBVIOUS
<1>1. PICK k \in Bad : \A i \in Bad : ~(i < k)
  <2>1. Bad \in SUBSET Nat
    OBVIOUS
  <2> HIDE DEF Bad
  <2> QED
    BY <2>1, Least
<1>2. k # 0
  BY DEF Iterates
<1>3. k - 1 \in 0..n /\ k - 1 \in Nat /\ k \in 1..n /\ k - 1 < k /\ (k - 1) + 1 = k
  BY <1>2
<1>4. f[k - 1] = F[k - 1]
  BY <1>1, <1>3
<1>5. F[k - 1] \in S /\ F[k] = g[F[k - 1]]
  <2>1. F \in [Nat -> S] /\ F[(k - 1) + 1] = g[F[k - 1]]
    BY <1>3 DEF Iterates
  <2> QED
    BY <1>3, <2>1
<1> QED
  BY <1>3, <1>4, <1>5

(* What holds first and is picked by every step holds throughout. *)
LEMMA ByNaturals ==
  ASSUME NEW Good, 0 \in Good, \A n \in Nat : n \in Good => n + 1 \in Good
  PROVE  \A n \in Nat : n \in Good
<1> DEFINE Bad == Nat \ Good
<1> SUFFICES ASSUME Bad # {} PROVE FALSE
  OBVIOUS
<1>1. PICK n \in Bad : \A k \in Bad : ~(k < n)
  BY Least
<1>2. n - 1 \in Nat /\ n - 1 < n /\ (n - 1) + 1 = n
  BY <1>1
<1>3. n - 1 \in Good
  BY <1>1, <1>2
<1> QED
  BY <1>2, <1>3

-----------------------------------------------------------------------------
(* The accounts in reach. *)
Next1(outgoing, A) == A \cup {ToAccount[t] : t \in Leaving(outgoing, A)}

(* The transfers listed under an account are those it is debited by, so that
   those of accounts apart are apart. *)
LEMMA OutgoingIs ==
  ASSUME NEW outgoing \in Listings, NEW a \in Accounts
  PROVE  /\ outgoing[a] \in Seq(Transactions) /\ Range(outgoing[a]) = Leaving(outgoing, {a})
         /\ Range(outgoing[a]) \subseteq Transactions
         /\ \A t \in Range(outgoing[a]) : FromAccount[t] = a
<1>1. outgoing[a] \in Seq(Transactions)
  BY DEF Listings
<1>2. Range(outgoing[a]) = Leaving(outgoing, {a})
  BY DEF Leaving
<1>3. \A i \in DOMAIN outgoing[a] : outgoing[a][i] \in Transactions /\ FromAccount[outgoing[a][i]] = a
  BY <1>1 DEF Listings
<1> QED
  BY <1>1, <1>2, <1>3 DEF Range

LEMMA LeavingIs ==
  ASSUME NEW outgoing \in Listings, NEW A \in SUBSET Accounts
  PROVE  /\ Leaving(outgoing, A) \subseteq Transactions
         /\ \A t \in Leaving(outgoing, A) : FromAccount[t] \in A
         /\ \A B \in SUBSET Accounts :
              /\ Leaving(outgoing, A \cup B) = Leaving(outgoing, A) \cup Leaving(outgoing, B)
              /\ A \cap B = {} => Leaving(outgoing, A) \cap Leaving(outgoing, B) = {}
<1>1. \A B \in SUBSET Accounts : \A t \in Leaving(outgoing, B) : t \in Transactions /\ FromAccount[t] \in B
  BY OutgoingIs DEF Leaving
<1>2. \A B : Leaving(outgoing, A \cup B) = Leaving(outgoing, A) \cup Leaving(outgoing, B)
  BY DEF Leaving
<1> QED
  BY <1>1, <1>2

LEMMA ReachIterates ==
  ASSUME NEW outgoing \in Listings, NEW account \in Accounts
  PROVE  \E R : /\ Iterates(R, SUBSET Accounts, {account}, [A \in SUBSET Accounts |-> Next1(outgoing, A)])
                /\ \A n \in Nat : Within(outgoing, account, n) = R[n]
<1> DEFINE S == SUBSET Accounts
           g == [A \in S |-> Next1(outgoing, A)]
<1>1. \A A \in S : Next1(outgoing, A) \in S
  <2> SUFFICES ASSUME NEW A \in S PROVE Next1(outgoing, A) \in S
    OBVIOUS
  <2>1. Leaving(outgoing, A) \subseteq Transactions
    BY LeavingIs
  <2>2. {ToAccount[t] : t \in Leaving(outgoing, A)} \subseteq Accounts
    BY <2>1, FieldsAssumption
  <2> QED
    BY <2>2 DEF Next1
<1>2. {account} \in S /\ g \in [S -> S]
  BY <1>1
<1>3. PICK R : Iterates(R, S, {account}, g)
  <2> HIDE DEF S, g
  <2> QED
    BY <1>2, IteratesExist
<1>4. ASSUME NEW n \in Nat PROVE Within(outgoing, account, n) = R[n]
  <2> DEFINE Nth(f, k) == IF k = 0 THEN {account} ELSE Next1(outgoing, f[k - 1])
             h == [k \in 0..n |-> R[k]]
  <2>1. R \in [Nat -> S] /\ R[0] = {account} /\ \A k \in Nat : R[k + 1] = g[R[k]]
    <3> HIDE DEF S, g
    <3> QED
      BY <1>3 DEF Iterates
  <2>2. \A k \in 0..n : h[k] = Nth(h, k)
    <3> SUFFICES ASSUME NEW k \in 0..n PROVE h[k] = Nth(h, k)
      OBVIOUS
    <3>1. CASE k = 0
      BY <2>1, <3>1
    <3>2. CASE k # 0
      <4>1. k - 1 \in 0..n /\ k - 1 \in Nat /\ (k - 1) + 1 = k
        BY <3>2
      <4>2. R[(k - 1) + 1] = g[R[k - 1]] /\ R[k - 1] \in S
        BY <2>1, <4>1
      <4>3. R[k] = Next1(outgoing, R[k - 1])
        BY <4>1, <4>2
      <4>4. h[k] = R[k] /\ h[k - 1] = R[k - 1]
        BY <4>1
      <4> QED
        BY <3>2, <4>3, <4>4
    <3> QED
      BY <3>1, <3>2
  <2>3. h = [k \in 0..n |-> Nth(h, k)]
    <3>1. h = [k \in 0..n |-> h[k]]
      OBVIOUS
    <3> HIDE DEF h, Nth
    <3> QED
      BY <2>2, <3>1
  <2>4. PICK q : q = [k \in 0..n |-> Nth(q, k)] /\ Within(outgoing, account, n) = q[n]
    <3> DEFINE Q == CHOOSE f : f = [k \in 0..n |-> Nth(f, k)]
    <3>1. Within(outgoing, account, n) = Q[n]
      BY Zenon DEF Within, Next1
    <3>2. Q = [k \in 0..n |-> Nth(Q, k)]
      <4> HIDE DEF h, Nth
      <4> QED
        BY <2>3, Zenon
    <3> HIDE DEF Nth, Q
    <3> QED
      BY <3>1, <3>2
  <2>5. \A k \in 0..n : q[k] = Nth(q, k)
    <3> HIDE DEF Nth
    <3> QED
      BY <2>4
  <2>6. q[0] = {account}
    BY <2>5
  <2>7. \A k \in 1..n : q[k - 1] \in S => q[k] = g[q[k - 1]]
    BY <2>5
  <2>8. \A k \in 0..n : q[k] = R[k]
    <3> DEFINE b == {account}
    <3>1. q[0] = b /\ Iterates(R, S, b, g)
      BY <1>3, <2>6
    <3> HIDE DEF S, g, h, Nth, b
    <3> QED
      BY <2>7, <3>1, RecursionIterates
  <2>9. n \in 0..n
    OBVIOUS
  <2> HIDE DEF S, g, h, Nth
  <2> QED
    BY <2>4, <2>8, <2>9
<1> QED
  BY <1>3, <1>4

LEMMA ReachGrows ==
  ASSUME NEW outgoing \in Listings, NEW account \in Accounts
  PROVE  /\ Within(outgoing, account, 0) = {account}
         /\ \A n \in Nat : /\ Within(outgoing, account, n) \in SUBSET Accounts
                           /\ Within(outgoing, account, n + 1) = Next1(outgoing, Within(outgoing, account, n))
<1>1. PICK R : /\ Iterates(R, SUBSET Accounts, {account}, [A \in SUBSET Accounts |-> Next1(outgoing, A)])
               /\ \A n \in Nat : Within(outgoing, account, n) = R[n]
  BY ReachIterates
<1>2. R \in [Nat -> SUBSET Accounts] /\ R[0] = {account}
  BY <1>1 DEF Iterates
<1>3. ASSUME NEW n \in Nat PROVE R[n + 1] = Next1(outgoing, R[n])
  <2>1. R[n + 1] = [A \in SUBSET Accounts |-> Next1(outgoing, A)][R[n]]
    BY <1>1 DEF Iterates
  <2> QED
    BY <1>2, <2>1
<1> QED
  BY <1>1, <1>2, <1>3

-----------------------------------------------------------------------------
(* One hop of the walk: what it finds, and where it goes on. *)
WalkStates == [txs : Seq(Transactions), seen : SUBSET Accounts, frontier : Seq(Accounts)]

ListedFrom(outgoing, w) == FlattenSeq([i \in DOMAIN w.frontier |-> outgoing[w.frontier[i]]])

FoundFrom(outgoing, w) == Unseen(ListedFrom(outgoing, w), Range(w.txs))

(* The accounts some transfers credit. *)
CreditedBy(T) == {ToAccount[t] : t \in T}

LEMMA FoundIs ==
  ASSUME NEW outgoing \in Listings, NEW w \in WalkStates
  PROVE  /\ FoundFrom(outgoing, w) \in Seq(Transactions)
         /\ Range(FoundFrom(outgoing, w)) = Leaving(outgoing, Range(w.frontier)) \ Range(w.txs)
         /\ IsInjective(FoundFrom(outgoing, w))
<1> DEFINE fr == w.frontier
           lists == [i \in DOMAIN fr |-> outgoing[fr[i]]]
<1>1. fr \in Seq(Accounts) /\ \A i \in 1..Len(fr) : fr[i] \in Accounts
  BY DEF WalkStates
<1>2. Range(fr) = {fr[i] : i \in 1..Len(fr)}
  BY <1>1 DEF Range
<1>3. \A i \in 1..Len(fr) : lists[i] = outgoing[fr[i]]
  BY <1>1
<1>4. lists = [i \in 1..Len(fr) |-> lists[i]] /\ Len(fr) \in Nat
  BY <1>1
<1>5. ListedFrom(outgoing, w) = FlattenSeq(lists)
  BY DEF ListedFrom
<1> HIDE DEF fr, lists
<1>6. \A i \in 1..Len(fr) : lists[i] \in Seq(Transactions) /\ Range(lists[i]) = Leaving(outgoing, {fr[i]})
  BY <1>1, <1>3, OutgoingIs
<1>7. lists \in Seq(Seq(Transactions)) /\ Len(lists) = Len(fr)
  <2>1. lists \in [1..Len(fr) -> Seq(Transactions)]
    BY <1>4, <1>6
  <2> QED
    BY <1>4, <2>1
<1>8. Range(FlattenSeq(lists)) = Leaving(outgoing, Range(fr))
  <2>1. Range(FlattenSeq(lists)) = UNION {Range(lists[i]) : i \in 1..Len(lists)}
    BY <1>7, RangeOfFlatten
  <2>2. \A i \in 1..Len(fr) : Range(lists[i]) = Range(outgoing[fr[i]])
    BY <1>3
  <2>3. UNION {Range(lists[i]) : i \in 1..Len(fr)} = UNION {Range(outgoing[a]) : a \in Range(fr)}
    BY <1>2, <2>2
  <2> QED
    BY <1>7, <2>1, <2>3 DEF Leaving
<1>9. FlattenSeq(lists) \in Seq(Transactions)
  BY <1>7, FlattenIsSeq
<1>10. ListedFrom(outgoing, w) \in Seq(Transactions) /\ Range(ListedFrom(outgoing, w)) = Leaving(outgoing, Range(fr))
  BY <1>5, <1>8, <1>9
<1> QED
  BY <1>10, UnseenIs DEF FoundFrom, fr

LEMMA HopIs ==
  ASSUME NEW outgoing \in Listings, NEW w \in WalkStates
  PROVE  /\ Hop(outgoing, w) \in WalkStates
         /\ Hop(outgoing, w).txs = w.txs \o FoundFrom(outgoing, w)
         /\ Hop(outgoing, w).seen = w.seen \cup CreditedBy(Range(FoundFrom(outgoing, w)))
         /\ Range(Hop(outgoing, w).frontier) = CreditedBy(Range(FoundFrom(outgoing, w))) \ w.seen
<1> DEFINE found == FoundFrom(outgoing, w)
           to    == [i \in DOMAIN found |-> ToAccount[found[i]]]
<1>1. found \in Seq(Transactions)
  BY FoundIs
<1>2. Hop(outgoing, w) = [txs |-> w.txs \o found, seen |-> w.seen \cup Range(to), frontier |-> Unseen(to, w.seen)]
  BY DEF Hop, FoundFrom, ListedFrom
<1> HIDE DEF found
<1>3. DOMAIN found = 1..Len(found) /\ Len(found) \in Nat
  BY <1>1
<1>4. \A i \in 1..Len(found) : ToAccount[found[i]] \in Accounts
  BY <1>1, FieldsAssumption
<1>5. to \in Seq(Accounts)
  BY <1>3, <1>4
<1>6. Range(to) = CreditedBy(Range(found))
  BY DEF CreditedBy, Range
<1>7. Range(to) \subseteq Accounts
  BY <1>3, <1>4 DEF Range
<1> HIDE DEF to
<1>8. Unseen(to, w.seen) \in Seq(Accounts) /\ Range(Unseen(to, w.seen)) = Range(to) \ w.seen
  BY <1>5, UnseenIs
<1>9. w.txs \o found \in Seq(Transactions) /\ w.seen \cup Range(to) \in SUBSET Accounts
  BY <1>1, <1>7 DEF WalkStates
<1> QED
  BY <1>2, <1>6, <1>8, <1>9 DEF WalkStates, found

-----------------------------------------------------------------------------
(* The walk, from the account on, hop by hop. *)
WalkFrom(account) == [txs |-> << >>, seen |-> {account}, frontier |-> <<account>>]

LEMMA WalkIterates ==
  ASSUME NEW outgoing \in Listings, NEW account \in Accounts
  PROVE  \E W : /\ Iterates(W, WalkStates, WalkFrom(account), [w \in WalkStates |-> Hop(outgoing, w)])
                /\ \A n \in Nat : TraceOutgoing(outgoing, account, n) = W[n].txs
<1> DEFINE S == WalkStates
           g == [w \in S |-> Hop(outgoing, w)]
           start == WalkFrom(account)
<1>1. \A w \in S : Hop(outgoing, w) \in S
  BY HopIs
<1>2. start \in S /\ g \in [S -> S]
  <2>1. start \in WalkStates
    BY DEF WalkStates, WalkFrom
  <2> QED
    BY <1>1, <2>1
<1>3. PICK W : Iterates(W, S, start, g)
  <2> HIDE DEF S, g, start
  <2> QED
    BY <1>2, IteratesExist
<1>4. ASSUME NEW n \in Nat PROVE TraceOutgoing(outgoing, account, n) = W[n].txs
  <2> DEFINE Nth(f, k) == IF k = 0 THEN start ELSE Hop(outgoing, f[k - 1])
             h == [k \in 0..n |-> W[k]]
  <2>1. W \in [Nat -> S] /\ W[0] = start /\ \A k \in Nat : W[k + 1] = g[W[k]]
    <3> HIDE DEF S, g, start
    <3> QED
      BY <1>3 DEF Iterates
  <2>2. \A k \in 0..n : h[k] = Nth(h, k)
    <3> SUFFICES ASSUME NEW k \in 0..n PROVE h[k] = Nth(h, k)
      OBVIOUS
    <3> HIDE DEF S, start
    <3>1. CASE k = 0
      BY <2>1, <3>1
    <3>2. CASE k # 0
      <4>1. k - 1 \in 0..n /\ k - 1 \in Nat /\ (k - 1) + 1 = k
        BY <3>2
      <4>2. W[(k - 1) + 1] = g[W[k - 1]] /\ W[k - 1] \in S
        BY <2>1, <4>1
      <4>3. W[k] = Hop(outgoing, W[k - 1])
        BY <4>1, <4>2
      <4>4. h[k] = W[k] /\ h[k - 1] = W[k - 1]
        BY <4>1
      <4> QED
        BY <3>2, <4>3, <4>4
    <3> QED
      BY <3>1, <3>2
  <2>3. h = [k \in 0..n |-> Nth(h, k)]
    <3>1. h = [k \in 0..n |-> h[k]]
      OBVIOUS
    <3> HIDE DEF h, Nth
    <3> QED
      BY <2>2, <3>1
  <2>4. PICK q : q = [k \in 0..n |-> Nth(q, k)] /\ TraceOutgoing(outgoing, account, n) = q[n].txs
    <3> DEFINE Q == CHOOSE f : f = [k \in 0..n |-> Nth(f, k)]
    <3>1. TraceOutgoing(outgoing, account, n) = Q[n].txs
      BY Zenon DEF TraceOutgoing, WalkFrom
    <3>2. Q = [k \in 0..n |-> Nth(Q, k)]
      <4> HIDE DEF h, Nth
      <4> QED
        BY <2>3, Zenon
    <3> HIDE DEF Nth, Q
    <3> QED
      BY <3>1, <3>2
  <2>5. \A k \in 0..n : q[k] = Nth(q, k)
    <3> HIDE DEF Nth
    <3> QED
      BY <2>4
  <2> HIDE DEF S, start, h
  <2>6. q[0] = start
    BY <2>5
  <2>7. \A k \in 1..n : q[k - 1] \in S => q[k] = g[q[k - 1]]
    BY <2>5
  <2>8. \A k \in 0..n : q[k] = W[k]
    <3> HIDE DEF g, Nth
    <3> QED
      BY <1>3, <2>6, <2>7, RecursionIterates
  <2>9. n \in 0..n
    OBVIOUS
  <2> HIDE DEF g, Nth
  <2> QED
    BY <2>4, <2>8, <2>9
<1> QED
  BY <1>3, <1>4

(* The accounts expanded in so many hops. *)
Expanded(outgoing, account, n) == IF n = 0 THEN {} ELSE Within(outgoing, account, n - 1)

LEMMA WithinMonotone ==
  ASSUME NEW outgoing \in Listings, NEW account \in Accounts
  PROVE  \A n \in Nat : \A m \in 0..n : Within(outgoing, account, m) \subseteq Within(outgoing, account, n)
<1> DEFINE Good == {n \in Nat : \A m \in 0..n : Within(outgoing, account, m) \subseteq Within(outgoing, account, n)}
<1>1. 0 \in Good
  OBVIOUS
<1>2. ASSUME NEW n \in Nat, n \in Good PROVE n + 1 \in Good
  <2>1. Within(outgoing, account, n) \subseteq Within(outgoing, account, n + 1)
    BY ReachGrows DEF Next1
  <2>2. \A m \in 0..(n + 1) : m \in 0..n \/ m = n + 1
    OBVIOUS
  <2>3. \A m \in 0..n : Within(outgoing, account, m) \subseteq Within(outgoing, account, n)
    BY <1>2
  <2> QED
    BY <2>1, <2>2, <2>3
<1>3. \A n \in Nat : n \in Good
  <2> HIDE DEF Good
  <2> QED
    BY <1>1, <1>2, ByNaturals
<1> QED
  BY <1>3

LEMMA ExpandedIs ==
  ASSUME NEW outgoing \in Listings, NEW account \in Accounts, NEW n \in Nat
  PROVE  /\ Expanded(outgoing, account, n) \subseteq Within(outgoing, account, n)
         /\ CreditedBy(Leaving(outgoing, Expanded(outgoing, account, n))) \subseteq Within(outgoing, account, n)
         /\ Expanded(outgoing, account, n + 1) = Within(outgoing, account, n)
<1>1. CASE n = 0
  BY <1>1 DEF Expanded, CreditedBy, Leaving
<1>2. CASE n # 0
  <2>1. n - 1 \in Nat /\ (n - 1) + 1 = n
    BY <1>2
  <2>2. Within(outgoing, account, n) = Next1(outgoing, Within(outgoing, account, n - 1))
    BY <2>1, ReachGrows
  <2> QED
    BY <1>2, <2>1, <2>2 DEF Expanded, CreditedBy, Leaving, Next1
<1> QED
  BY <1>1, <1>2

(* After n hops the walk has seen what is within n of the account, goes on
   from what is exactly so far away, and holds the transfers of everything
   nearer, each once and nearest first. *)
WalkInv(outgoing, account, w, n) ==
  /\ w.seen = Within(outgoing, account, n)
  /\ Range(w.frontier) = Within(outgoing, account, n) \ Expanded(outgoing, account, n)
  /\ Range(w.txs) = Leaving(outgoing, Expanded(outgoing, account, n))
  /\ IsInjective(w.txs)
  /\ \A hops \in 0..n - 1 : \A i, j \in DOMAIN w.txs :
       i < j /\ FromAccount[w.txs[j]] \in Within(outgoing, account, hops) =>
         FromAccount[w.txs[i]] \in Within(outgoing, account, hops)

LEMMA HopKeepsWalk ==
  ASSUME NEW outgoing \in Listings, NEW account \in Accounts, NEW n \in Nat, NEW w \in WalkStates, WalkInv(outgoing, account, w, n)
  PROVE  WalkInv(outgoing, account, Hop(outgoing, w), n + 1)
<1> DEFINE found == FoundFrom(outgoing, w)
           reach == Within(outgoing, account, n)
           past  == Expanded(outgoing, account, n)
           all   == w.txs \o found
<1>1. w \in WalkStates
  OBVIOUS
<1>2. reach \in SUBSET Accounts /\ past \in SUBSET Accounts /\ past \subseteq reach
  BY ReachGrows, ExpandedIs
<1>3. /\ Leaving(outgoing, reach) = Leaving(outgoing, past) \cup Leaving(outgoing, reach \ past)
      /\ Leaving(outgoing, past) \cap Leaving(outgoing, reach \ past) = {}
      /\ Leaving(outgoing, reach) \subseteq Transactions
      /\ \A t \in Leaving(outgoing, reach) : FromAccount[t] \in reach
      /\ \A t \in Leaving(outgoing, reach \ past) : FromAccount[t] \in reach \ past
  <2> DEFINE beyond == reach \ past
  <2>1. beyond \in SUBSET Accounts /\ past \cup beyond = reach /\ past \cap beyond = {}
    BY <1>2
  <2> HIDE DEF beyond, reach, past
  <2>2. /\ Leaving(outgoing, past \cup beyond) = Leaving(outgoing, past) \cup Leaving(outgoing, beyond)
        /\ Leaving(outgoing, past) \cap Leaving(outgoing, beyond) = {}
    BY <1>2, <2>1, LeavingIs
  <2>3. /\ Leaving(outgoing, reach) \subseteq Transactions
        /\ \A t \in Leaving(outgoing, reach) : FromAccount[t] \in reach
        /\ \A t \in Leaving(outgoing, beyond) : FromAccount[t] \in beyond
    BY <1>2, <2>1, LeavingIs
  <2> QED
    BY <2>1, <2>2, <2>3 DEF beyond
<1>4. /\ found \in Seq(Transactions) /\ IsInjective(found)
      /\ Range(found) = Leaving(outgoing, reach \ past)
  <2>1. /\ found \in Seq(Transactions) /\ IsInjective(found)
        /\ Range(found) = Leaving(outgoing, reach \ past) \ Leaving(outgoing, past)
    BY <1>1, FoundIs DEF WalkInv
  <2>2. Leaving(outgoing, reach \ past) \ Leaving(outgoing, past) = Leaving(outgoing, reach \ past)
    BY <1>3
  <2> QED
    BY <2>1, <2>2
<1>5. past \subseteq reach /\ CreditedBy(Leaving(outgoing, past)) \subseteq reach
      /\ Expanded(outgoing, account, n + 1) = reach
  BY ExpandedIs
<1>6. Within(outgoing, account, n + 1) = reach \cup CreditedBy(Leaving(outgoing, reach))
  <2>1. Within(outgoing, account, n + 1) = Next1(outgoing, reach)
    BY ReachGrows
  <2> QED
    BY <2>1 DEF Next1, CreditedBy, Leaving
<1>7. /\ Hop(outgoing, w).txs = all
      /\ Hop(outgoing, w).seen = w.seen \cup CreditedBy(Range(found))
      /\ Range(Hop(outgoing, w).frontier) = CreditedBy(Range(found)) \ w.seen
  BY <1>1, HopIs
<1>8. w.txs \in Seq(Transactions) /\ w.seen = reach /\ Range(w.txs) = Leaving(outgoing, past)
      /\ IsInjective(w.txs)
  BY <1>1 DEF WalkStates, WalkInv
<1> HIDE DEF found, reach, past
<1>9. CreditedBy(Leaving(outgoing, reach)) = CreditedBy(Leaving(outgoing, past)) \cup CreditedBy(Leaving(outgoing, reach \ past))
  BY <1>3 DEF CreditedBy
<1>10. Hop(outgoing, w).seen = Within(outgoing, account, n + 1)
  BY <1>4, <1>5, <1>6, <1>7, <1>8, <1>9
<1>11. Range(Hop(outgoing, w).frontier) = Within(outgoing, account, n + 1) \ Expanded(outgoing, account, n + 1)
  BY <1>4, <1>5, <1>6, <1>7, <1>8, <1>9
<1>12. Range(all) = Leaving(outgoing, Expanded(outgoing, account, n + 1))
  <2>1. Range(all) = Range(w.txs) \cup Range(found)
    BY <1>4, <1>8, RangeOfBoth
  <2> HIDE DEF all
  <2> QED
    BY <1>4, <1>5, <1>8, <1>3, <2>1
<1>13. IsInjective(all)
  BY <1>4, <1>8, <1>3, BothInjective
<1>14. ASSUME NEW hops \in 0..(n + 1) - 1, NEW i \in DOMAIN all, NEW j \in DOMAIN all, i < j,
              FromAccount[all[j]] \in Within(outgoing, account, hops)
       PROVE  FromAccount[all[i]] \in Within(outgoing, account, hops)
  <2>1. \A k \in DOMAIN all : all[k] \in Range(all)
    BY DEF Range
  <2>2. CASE hops = n
    <3>1. all[i] \in Leaving(outgoing, reach)
      BY <1>5, <1>12, <1>14, <2>1
    <3> QED
      BY <1>3, <2>2, <3>1 DEF reach
  <2>3. CASE hops # n
    <3>1. hops \in 0..n - 1 /\ n # 0 /\ n - 1 \in Nat /\ hops \in 0..(n - 1)
      BY <1>14, <2>3
    <3>2. Within(outgoing, account, hops) \subseteq past
      <4>1. Within(outgoing, account, hops) \subseteq Within(outgoing, account, n - 1)
        BY <3>1, WithinMonotone
      <4> QED
        BY <3>1, <4>1 DEF past, Expanded
    <3>3. all[j] \notin Range(found)
      BY <1>4, <1>14, <1>3, <3>2
    <3>4. /\ \A k \in DOMAIN all : k \in 1..Len(w.txs) \/ k - Len(w.txs) \in 1..Len(found)
          /\ \A k \in DOMAIN all : k \in 1..Len(w.txs) => all[k] = w.txs[k]
          /\ \A k \in DOMAIN all : ~(k \in 1..Len(w.txs)) => all[k] = found[k - Len(w.txs)]
      BY <1>4, <1>8
    <3>5. \A k \in 1..Len(found) : found[k] \in Range(found)
      BY <1>4 DEF Range
    <3>6. j \in 1..Len(w.txs)
      BY <3>3, <3>4, <3>5
    <3>7. DOMAIN all \subseteq Nat \ {0}
      BY <1>4, <1>8
    <3>8. i \in 1..Len(w.txs) /\ DOMAIN w.txs = 1..Len(w.txs)
      BY <1>8, <1>14, <3>6, <3>7
    <3>9. all[i] = w.txs[i] /\ all[j] = w.txs[j]
      BY <1>14, <3>4, <3>6, <3>8
    <3> HIDE DEF all
    <3> QED
      BY <1>14, <3>1, <3>6, <3>8, <3>9 DEF WalkInv
  <2> QED
    BY <2>2, <2>3
<1> HIDE DEF all
<1> QED
  BY <1>7, <1>10, <1>11, <1>12, <1>13, <1>14 DEF WalkInv

LEMMA WalkHolds ==
  ASSUME NEW outgoing \in Listings, NEW account \in Accounts, NEW n \in Nat
  PROVE  \E w \in WalkStates : WalkInv(outgoing, account, w, n) /\ TraceOutgoing(outgoing, account, n) = w.txs
<1>1. PICK W : /\ Iterates(W, WalkStates, WalkFrom(account), [w \in WalkStates |-> Hop(outgoing, w)])
               /\ \A k \in Nat : TraceOutgoing(outgoing, account, k) = W[k].txs
  BY WalkIterates
<1>2. W \in [Nat -> WalkStates] /\ W[0] = WalkFrom(account)
  BY <1>1 DEF Iterates
<1>3. ASSUME NEW k \in Nat PROVE W[k + 1] = Hop(outgoing, W[k])
  <2>1. W[k + 1] = [w \in WalkStates |-> Hop(outgoing, w)][W[k]]
    BY <1>1 DEF Iterates
  <2> QED
    BY <1>2, <2>1
<1> DEFINE Good == {k \in Nat : WalkInv(outgoing, account, W[k], k)}
<1>4. 0 \in Good
  <2> DEFINE w == WalkFrom(account)
  <2>1. w.txs = << >> /\ w.seen = {account} /\ w.frontier = <<account>>
    BY DEF WalkFrom
  <2>2. Within(outgoing, account, 0) = {account} /\ Expanded(outgoing, account, 0) = {}
    BY ReachGrows DEF Expanded
  <2>3. Range(w.frontier) = {account}
    BY <2>1 DEF Range
  <2>4. Range(w.txs) = {} /\ IsInjective(w.txs) /\ DOMAIN w.txs = {}
    BY <2>1 DEF Range, IsInjective
  <2>5. Leaving(outgoing, {}) = {}
    BY DEF Leaving
  <2> HIDE DEF w
  <2>6. WalkInv(outgoing, account, w, 0)
    BY <2>1, <2>2, <2>3, <2>4, <2>5 DEF WalkInv
  <2> QED
    BY <1>2, <2>6 DEF w
<1>5. ASSUME NEW k \in Nat, k \in Good PROVE k + 1 \in Good
  <2>1. WalkInv(outgoing, account, Hop(outgoing, W[k]), k + 1)
    BY <1>2, <1>5, HopKeepsWalk
  <2> QED
    BY <1>3, <2>1
<1>6. n \in Good
  <2> HIDE DEF Good
  <2> QED
    BY <1>4, <1>5, ByNaturals
<1> QED
  BY <1>1, <1>2, <1>6

(* trace_outgoing_funds returns the transfers of every account within
   reach, each once and nearest first, whatever the records. *)
LEMMA TraceReaches ==
  ASSUME NEW outgoing \in Listings, NEW account \in Accounts, NEW depth \in Nat \ {0}
  PROVE  BoundedReach(outgoing, account, depth, TraceOutgoing(outgoing, account, depth))
<1>1. PICK w \in WalkStates : WalkInv(outgoing, account, w, depth) /\ TraceOutgoing(outgoing, account, depth) = w.txs
  BY WalkHolds
<1>2. Expanded(outgoing, account, depth) = Within(outgoing, account, depth - 1)
  BY DEF Expanded
<1>3. Range(w.txs) = Leaving(outgoing, Within(outgoing, account, depth - 1))
  BY <1>1, <1>2 DEF WalkInv
<1> QED
  BY <1>1, <1>3 DEF BoundedReach, WalkInv

-----------------------------------------------------------------------------
(* Paths of distinct transfers, each starting where the one before ended. *)
EndOf(p, start) == IF p = << >> THEN start ELSE ToAccount[Last(p)]

IsPath(p, txs, start) ==
  /\ p \in Seq(Range(txs))
  /\ IsInjective(p)
  /\ \A i \in 1..Len(p) : FromAccount[p[i]] = IF i = 1 THEN start ELSE ToAccount[p[i - 1]]

Onward(p, txs, start) == {tx \in Range(txs) \ Range(p) : FromAccount[tx] = EndOf(p, start)}

LEMMA AppendPath ==
  ASSUME NEW txs, NEW start, NEW p \in Seq(Range(txs)), NEW t
  PROVE  IsPath(p, txs, start) /\ t \in Onward(p, txs, start) <=>
           /\ t \in Range(txs)
           /\ IsPath(Append(p, t), txs, start)
<1> DEFINE T == Range(txs)
           q == Append(p, t)
<1>1. t \in T => /\ q \in Seq(T) /\ Len(q) = Len(p) + 1 /\ Len(p) \in Nat
                 /\ \A i \in 1..Len(p) : q[i] = p[i]
                 /\ q[Len(p) + 1] = t
  <2>1. p \in Seq(T)
    OBVIOUS
  <2> HIDE DEF T
  <2> QED
    BY <2>1
<1>2. Range(p) = {p[i] : i \in 1..Len(p)}
  BY DEF Range
<1>3. EndOf(p, start) = IF Len(p) = 0 THEN start ELSE ToAccount[p[Len(p)]]
  BY DEF EndOf, Last
<1>4. ASSUME IsPath(p, txs, start), t \in Onward(p, txs, start)
      PROVE  IsPath(q, txs, start)
  <2>1. t \in T /\ t \notin Range(p) /\ FromAccount[t] = EndOf(p, start)
    BY <1>4 DEF Onward
  <2>2. /\ q \in Seq(T) /\ Len(q) = Len(p) + 1 /\ Len(p) \in Nat
        /\ \A i \in 1..Len(p) : q[i] = p[i]
        /\ q[Len(p) + 1] = t
    BY <1>1, <2>1
  <2> HIDE DEF q, T
  <2>3. \A i, j \in 1..Len(p) : p[i] = p[j] => i = j
    BY <1>4 DEF IsPath, IsInjective
  <2>4. \A i \in 1..Len(q) : i \in 1..Len(p) \/ i = Len(p) + 1
    BY <2>2
  <2>5. \A i, j \in 1..Len(q) : q[i] = q[j] => i = j
    BY <1>2, <2>1, <2>2, <2>3, <2>4
  <2>6. ASSUME NEW i \in 1..Len(q)
        PROVE  FromAccount[q[i]] = IF i = 1 THEN start ELSE ToAccount[q[i - 1]]
    <3>1. CASE i \in 1..Len(p)
      <4>1. i # 1 => i - 1 \in 1..Len(p)
        BY <2>2, <3>1
      <4>2. FromAccount[p[i]] = IF i = 1 THEN start ELSE ToAccount[p[i - 1]]
        BY <1>4, <3>1 DEF IsPath
      <4> QED
        BY <2>2, <3>1, <4>1, <4>2
    <3>2. CASE i = Len(p) + 1
      <4>1. i # 1 => i - 1 = Len(p) /\ Len(p) \in 1..Len(p)
        BY <2>2, <3>2
      <4> QED
        BY <1>3, <2>1, <2>2, <3>2, <4>1
    <3> QED
      BY <2>4, <3>1, <3>2
  <2>7. IsInjective(q)
    BY <2>2, <2>5 DEF IsInjective
  <2> QED
    BY <2>2, <2>6, <2>7 DEF IsPath, T
<1>5. ASSUME t \in T, IsPath(q, txs, start)
      PROVE  IsPath(p, txs, start) /\ t \in Onward(p, txs, start)
  <2>2. /\ q \in Seq(T) /\ Len(q) = Len(p) + 1 /\ Len(p) \in Nat
        /\ \A i \in 1..Len(p) : q[i] = p[i]
        /\ q[Len(p) + 1] = t
    <3>1. t \in T
      BY <1>5
    <3> QED
      BY <1>1, <3>1
  <2>1. DOMAIN q = 1..Len(q)
    BY <2>2
  <2> HIDE DEF q
  <2>11. IsInjective(q)
    BY <1>5 DEF IsPath
  <2>3. \A i, j \in 1..Len(q) : q[i] = q[j] => i = j
    BY <2>1, <2>11 DEF IsInjective
  <2>4. \A i \in 1..Len(p) : i \in 1..Len(q) /\ i # Len(p) + 1
    BY <2>2
  <2>5. Len(p) + 1 \in 1..Len(q)
    BY <2>2
  <2>6. IsInjective(p)
    BY <2>2, <2>3, <2>4 DEF IsInjective
  <2>7. t \notin Range(p)
    BY <1>2, <2>2, <2>3, <2>4, <2>5
  <2>8. \A i \in 1..Len(q) : FromAccount[q[i]] = IF i = 1 THEN start ELSE ToAccount[q[i - 1]]
    BY <1>5 DEF IsPath
  <2>9. ASSUME NEW i \in 1..Len(p)
        PROVE  FromAccount[p[i]] = IF i = 1 THEN start ELSE ToAccount[p[i - 1]]
    <3>1. i # 1 => i - 1 \in 1..Len(p)
      BY <2>2
    <3> QED
      BY <2>2, <2>4, <2>8, <3>1
  <2>10. FromAccount[t] = EndOf(p, start)
    <3>1. FromAccount[t] = IF Len(p) + 1 = 1 THEN start ELSE ToAccount[q[(Len(p) + 1) - 1]]
      BY <2>2, <2>5, <2>8
    <3>2. Len(p) # 0 => (Len(p) + 1) - 1 = Len(p) /\ Len(p) \in 1..Len(p)
      BY <2>2
    <3>3. Len(p) = 0 <=> Len(p) + 1 = 1
      BY <2>2
    <3> QED
      BY <1>3, <2>2, <3>1, <3>2, <3>3
  <2> QED
    BY <1>5, <2>6, <2>7, <2>9, <2>10 DEF IsPath, Onward
<1> QED
  BY <1>4, <1>5 DEF Onward

LEMMA LongerIs ==
  ASSUME NEW txs \in Seq(Transactions), NEW start, NEW p \in Seq(Range(txs))
  PROVE  LET longer == Longer(p, txs, start)
         IN /\ longer \in Seq(Seq(Range(txs)))
            /\ \A i \in DOMAIN longer : \E t \in Onward(p, txs, start) : longer[i] = Append(p, t)
            /\ \A t \in Onward(p, txs, start) : \E i \in DOMAIN longer : longer[i] = Append(p, t)
<1> DEFINE T == Range(txs)
           further == Onward(p, txs, start)
           onward == Keep(txs, further)
           longer == [i \in DOMAIN onward |-> Append(p, onward[i])]
<1>1. Longer(p, txs, start) = longer
  BY DEF Longer, Onward, EndOf
<1>2. further \subseteq T
  BY DEF Onward
<1> HIDE DEF further
<1>3. onward \in Seq(Transactions \cap further) /\ Range(onward) = T \cap further
  BY KeepIs
<1>4. DOMAIN onward = 1..Len(onward) /\ Len(onward) \in Nat
  BY <1>3
<1>5. Range(onward) = further /\ Range(onward) = {onward[i] : i \in 1..Len(onward)}
  BY <1>2, <1>3, <1>4 DEF Range
<1> HIDE DEF onward, T
<1>6. \A i \in 1..Len(onward) : longer[i] = Append(p, onward[i]) /\ onward[i] \in further
  BY <1>4, <1>5
<1>7. longer = [i \in 1..Len(onward) |-> longer[i]]
  BY <1>4
<1> HIDE DEF longer
<1>8. \A t \in further : Append(p, t) \in Seq(T)
  BY <1>2 DEF T
<1>9. longer \in Seq(Seq(T)) /\ DOMAIN longer = 1..Len(onward)
  <2>1. longer \in [1..Len(onward) -> Seq(T)]
    BY <1>6, <1>7, <1>8
  <2> QED
    BY <1>4, <2>1
<1>10. \A t \in further : \E i \in 1..Len(onward) : longer[i] = Append(p, t)
  BY <1>5, <1>6
<1> QED
  BY <1>1, <1>6, <1>9, <1>10 DEF T, further

(* The walks of the reference are the paths. *)
FurtherWalks(A, txs, start) ==
  UNION {{Append(w, t) : t \in {u \in Range(txs) \ Range(w) : FromAccount[u] = EndOf(w, start)}} : w \in A}

LEMMA WalksIterate ==
  ASSUME NEW txs, NEW start
  PROVE  \E R : /\ Iterates(R, SUBSET Seq(Range(txs)), {<< >>},
                            [A \in SUBSET Seq(Range(txs)) |-> FurtherWalks(A, txs, start)])
                /\ \A n \in Nat : Walks(txs, start, n) = R[n]
<1> DEFINE T == Range(txs)
           S == SUBSET Seq(T)
           More(A) == FurtherWalks(A, txs, start)
           g == [A \in S |-> More(A)]
           b == {<< >>}
<1>1. \A A \in S : More(A) \in S
  <2> SUFFICES ASSUME NEW A \in S, NEW w \in A, NEW t \in T
               PROVE  Append(w, t) \in Seq(T)
    BY DEF FurtherWalks
  <2> HIDE DEF T
  <2> QED
    OBVIOUS
<1>2. b \in S /\ g \in [S -> S]
  <2>1. b \in S
    <3> HIDE DEF T
    <3> QED
      OBVIOUS
  <2> HIDE DEF S, More, b
  <2> QED
    BY <1>1, <2>1
<1>3. PICK R : Iterates(R, S, b, g)
  <2> HIDE DEF S, g, b
  <2> QED
    BY <1>2, IteratesExist
<1>4. ASSUME NEW n \in Nat PROVE Walks(txs, start, n) = R[n]
  <2> DEFINE Nth(f, k) == IF k = 0 THEN b ELSE More(f[k - 1])
             h == [k \in 0..n |-> R[k]]
  <2>1. R \in [Nat -> S] /\ R[0] = b /\ \A k \in Nat : R[k + 1] = g[R[k]]
    <3> HIDE DEF S, g, b
    <3> QED
      BY <1>3 DEF Iterates
  <2>2. \A k \in 0..n : h[k] = Nth(h, k)
    <3> SUFFICES ASSUME NEW k \in 0..n PROVE h[k] = Nth(h, k)
      OBVIOUS
    <3> HIDE DEF S, b, More
    <3>1. CASE k = 0
      BY <2>1, <3>1
    <3>2. CASE k # 0
      <4>1. k - 1 \in 0..n /\ k - 1 \in Nat /\ (k - 1) + 1 = k
        BY <3>2
      <4>2. R[(k - 1) + 1] = g[R[k - 1]] /\ R[k - 1] \in S
        BY <2>1, <4>1
      <4>3. R[k] = More(R[k - 1])
        BY <4>1, <4>2
      <4>4. h[k] = R[k] /\ h[k - 1] = R[k - 1]
        BY <4>1
      <4> QED
        BY <3>2, <4>3, <4>4
    <3> QED
      BY <3>1, <3>2
  <2>3. h = [k \in 0..n |-> Nth(h, k)]
    <3>1. h = [k \in 0..n |-> h[k]]
      OBVIOUS
    <3> HIDE DEF h, Nth
    <3> QED
      BY <2>2, <3>1
  <2>4. PICK q : q = [k \in 0..n |-> Nth(q, k)] /\ Walks(txs, start, n) = q[n]
    <3> DEFINE Q == CHOOSE f : f = [k \in 0..n |-> Nth(f, k)]
    <3>1. Walks(txs, start, n) = Q[n]
      BY Zenon DEF Walks, FurtherWalks, EndOf
    <3>2. Q = [k \in 0..n |-> Nth(Q, k)]
      <4> HIDE DEF h, Nth
      <4> QED
        BY <2>3, Zenon
    <3> HIDE DEF Nth, Q
    <3> QED
      BY <3>1, <3>2
  <2>5. \A k \in 0..n : q[k] = Nth(q, k)
    <3> HIDE DEF Nth
    <3> QED
      BY <2>4
  <2> HIDE DEF S, b, h, More
  <2>6. q[0] = b
    BY <2>5
  <2>7. \A k \in 1..n : q[k - 1] \in S => q[k] = g[q[k - 1]]
    BY <2>5
  <2>8. \A k \in 0..n : q[k] = R[k]
    <3> HIDE DEF g, Nth
    <3> QED
      BY <1>3, <2>6, <2>7, RecursionIterates
  <2>9. n \in 0..n
    OBVIOUS
  <2> HIDE DEF g, Nth
  <2> QED
    BY <2>4, <2>8, <2>9
<1> QED
  BY <1>3, <1>4

LEMMA WalksArePaths ==
  ASSUME NEW txs, NEW start, NEW n \in Nat
  PROVE  Walks(txs, start, n) = {p \in Seq(Range(txs)) : IsPath(p, txs, start) /\ Len(p) = n}
<1> DEFINE T == Range(txs)
           S == SUBSET Seq(T)
           Paths(k) == {p \in Seq(T) : IsPath(p, txs, start) /\ Len(p) = k}
           Good == {k \in Nat : Walks(txs, start, k) = Paths(k)}
<1>1. PICK R : /\ Iterates(R, S, {<< >>}, [A \in S |-> FurtherWalks(A, txs, start)])
               /\ \A k \in Nat : Walks(txs, start, k) = R[k]
  BY WalksIterate
<1>2. R \in [Nat -> S] /\ R[0] = {<< >>}
  <2> HIDE DEF S
  <2> QED
    BY <1>1 DEF Iterates
<1>3. ASSUME NEW k \in Nat PROVE R[k + 1] = FurtherWalks(R[k], txs, start)
  <2> HIDE DEF S
  <2>1. R[k + 1] = [A \in S |-> FurtherWalks(A, txs, start)][R[k]]
    BY <1>1 DEF Iterates
  <2> QED
    BY <1>2, <2>1
<1>4. 0 \in Good
  <2>1. \A p \in Seq(T) : Len(p) = 0 <=> p = << >>
    <3> HIDE DEF T
    <3> QED
      OBVIOUS
  <2>2. << >> \in Seq(T) /\ IsPath(<< >>, txs, start)
    BY DEF IsPath, IsInjective
  <2>3. Paths(0) = {<< >>}
    <3> HIDE DEF T
    <3> QED
      BY <2>1, <2>2
  <2> QED
    BY <1>1, <1>2, <2>3
<1>5. ASSUME NEW k \in Nat, k \in Good PROVE k + 1 \in Good
  <2>0. Walks(txs, start, k) = Paths(k)
    BY <1>5
  <2>1. Walks(txs, start, k + 1) = FurtherWalks(Paths(k), txs, start)
    <3> HIDE DEF Paths
    <3> QED
      BY <1>1, <1>3, <2>0
  <2>2. ASSUME NEW q \in FurtherWalks(Paths(k), txs, start) PROVE q \in Paths(k + 1)
    <3>0. PICK p \in Paths(k) : \E t \in Onward(p, txs, start) : q = Append(p, t)
      BY <2>2 DEF FurtherWalks, Onward
    <3>1. PICK t \in Onward(p, txs, start) : q = Append(p, t)
      BY <3>0
    <3>2. p \in Seq(T) /\ IsPath(p, txs, start) /\ Len(p) = k
      OBVIOUS
    <3>3. t \in T /\ IsPath(q, txs, start)
      BY <3>1, <3>2, AppendPath
    <3>4. q \in Seq(T) /\ Len(q) = k + 1
      <4> HIDE DEF T
      <4> QED
        BY <3>1, <3>2, <3>3
    <3> QED
      BY <3>3, <3>4
  <2>3. ASSUME NEW q \in Paths(k + 1) PROVE q \in FurtherWalks(Paths(k), txs, start)
    <3>1. q \in Seq(T) /\ IsPath(q, txs, start) /\ Len(q) = k + 1
      OBVIOUS
    <3>2. PICK p \in Seq(T), t \in T : q = Append(p, t) /\ Len(p) = k
      <4> HIDE DEF T
      <4>1. q # << >>
        BY <3>1
      <4>2. PICK p \in Seq(T), t \in T : q = Append(p, t)
        BY <3>1, <4>1, SequenceEmptyOrAppend
      <4>3. Len(q) = Len(p) + 1 /\ Len(p) \in Nat
        BY <4>2
      <4> QED
        BY <3>1, <4>2, <4>3
    <3>3. IsPath(p, txs, start) /\ t \in Onward(p, txs, start)
      BY <3>1, <3>2, AppendPath
    <3>4. p \in Paths(k)
      BY <3>2, <3>3
    <3> HIDE DEF Paths
    <3> QED
      BY <3>2, <3>3, <3>4 DEF FurtherWalks, Onward
  <2> HIDE DEF Paths
  <2>4. Walks(txs, start, k + 1) = Paths(k + 1)
    BY <2>1, <2>2, <2>3
  <2> QED
    BY <2>4
<1>6. n \in Good
  <2> HIDE DEF Good
  <2> QED
    BY <1>4, <1>5, ByNaturals
<1> QED
  BY <1>6

-----------------------------------------------------------------------------
(* The search is one function of the path it is at: what it finds from a
   path is decided by the ways on from it and by what lies beyond each. *)
Best(longer, beyond, start) ==
  LET home == {i \in DOMAIN longer : RoundTrip(longer[i], start)}
      hits == {i \in DOMAIN longer : beyond[i] # << >>}
  IN IF home # {} THEN longer[Min(home)]
     ELSE IF hits # {} THEN beyond[Max(hits)] ELSE << >>

Beyond(F, longer) == [i \in DOMAIN longer |-> IF Len(longer[i]) < 5 THEN F[longer[i]] ELSE << >>]

Searched(F, p, txs, start) == Best(Longer(p, txs, start), Beyond(F, Longer(p, txs, start)), start)

(* F is what the search finds from every path of at least so many transfers. *)
Settled(F, txs, start, m) ==
  \A p \in Seq(Range(txs)) : Len(p) >= m => F[p] = Searched(F, p, txs, start)

LEMMA SearchedAgrees ==
  ASSUME NEW txs \in Seq(Transactions), NEW start, NEW p \in Seq(Range(txs)), NEW F, NEW G,
         \A q \in Seq(Range(txs)) : Len(q) = Len(p) + 1 /\ Len(q) < 5 => F[q] = G[q]
  PROVE  Searched(F, p, txs, start) = Searched(G, p, txs, start)
<1> DEFINE longer == Longer(p, txs, start)
           T == Range(txs)
<1>1. /\ longer \in Seq(Seq(T))
      /\ \A i \in DOMAIN longer : \E t \in Onward(p, txs, start) : longer[i] = Append(p, t)
  BY LongerIs
<1>2. ASSUME NEW i \in DOMAIN longer
      PROVE  longer[i] \in Seq(T) /\ Len(longer[i]) = Len(p) + 1
  <2>1. PICK t \in Onward(p, txs, start) : longer[i] = Append(p, t)
    BY <1>1, <1>2
  <2>2. t \in T /\ p \in Seq(T)
    BY DEF Onward
  <2> HIDE DEF longer, T
  <2> QED
    BY <1>1, <1>2, <2>1, <2>2
<1>3. \A i \in DOMAIN longer : Len(longer[i]) < 5 => F[longer[i]] = G[longer[i]]
  <2> HIDE DEF longer
  <2> QED
    BY <1>2
<1>4. Beyond(F, longer) = Beyond(G, longer)
  <2> HIDE DEF longer
  <2> QED
    BY <1>3 DEF Beyond
<1> QED
  BY <1>4 DEF Searched

LEMMA SettledSooner ==
  ASSUME NEW txs \in Seq(Transactions), NEW start, NEW F, NEW m \in Nat,
         Settled(F, txs, start, m + 1)
  PROVE  \E G : Settled(G, txs, start, m)
<1> DEFINE T == Range(txs)
           G == [p \in Seq(T) |-> Searched(F, p, txs, start)]
<1>1. ASSUME NEW p \in Seq(T), Len(p) >= m PROVE G[p] = Searched(G, p, txs, start)
  <2>1. \A q \in Seq(T) : Len(q) = Len(p) + 1 => Len(q) >= m + 1
    <3> HIDE DEF T
    <3> QED
      BY <1>1
  <2>2. \A q \in Seq(T) : Len(q) >= m + 1 => F[q] = G[q]
    BY DEF Settled
  <2>3. \A q \in Seq(T) : Len(q) = Len(p) + 1 /\ Len(q) < 5 => F[q] = G[q]
    BY <2>1, <2>2
  <2>4. G[p] = Searched(F, p, txs, start)
    OBVIOUS
  <2> HIDE DEF G
  <2> QED
    BY <2>3, <2>4, SearchedAgrees
<1> HIDE DEF G
<1> QED
  BY <1>1 DEF Settled

LEMMA SearchIsRecursive ==
  ASSUME NEW txs \in Seq(Transactions), NEW start
  PROVE  \E F : /\ \A p \in Seq(Range(txs)) : F[p] = Searched(F, p, txs, start)
                /\ SelectCyclePath(txs, start) = F[<< >>]
<1> DEFINE T == Range(txs)
<1>1. \E F : Settled(F, txs, start, 4)
  <2> DEFINE G == [p \in Seq(T) |-> Searched(0, p, txs, start)]
  <2>1. ASSUME NEW p \in Seq(T), Len(p) >= 4 PROVE G[p] = Searched(G, p, txs, start)
    <3>1. \A q \in Seq(T) : ~(Len(q) = Len(p) + 1 /\ Len(q) < 5)
      <4> HIDE DEF T
      <4> QED
        BY <2>1
    <3>2. G[p] = Searched(0, p, txs, start)
      OBVIOUS
    <3> HIDE DEF G
    <3> QED
      BY <3>1, <3>2, SearchedAgrees
  <2> HIDE DEF G
  <2> QED
    BY <2>1 DEF Settled
<1>2. \A m \in Nat : (\E F : Settled(F, txs, start, m + 1)) => \E F : Settled(F, txs, start, m)
  BY SettledSooner
<1>3. \E F : Settled(F, txs, start, 0)
  <2>1. /\ 3 \in Nat /\ 3 + 1 = 4
        /\ 2 \in Nat /\ 2 + 1 = 3
        /\ 1 \in Nat /\ 1 + 1 = 2
        /\ 0 \in Nat /\ 0 + 1 = 1
    OBVIOUS
  <2>2. \E F : Settled(F, txs, start, 3)
    BY <1>1, <1>2, <2>1
  <2>3. \E F : Settled(F, txs, start, 2)
    BY <1>2, <2>1, <2>2
  <2>4. \E F : Settled(F, txs, start, 1)
    BY <1>2, <2>1, <2>3
  <2> QED
    BY <1>2, <2>1, <2>4
<1>4. \E F : F = [p \in Seq(T) |-> Searched(F, p, txs, start)]
  <2>1. PICK F : Settled(F, txs, start, 0)
    BY <1>3
  <2> DEFINE G == [p \in Seq(T) |-> F[p]]
  <2>2. \A p \in Seq(T) : Len(p) >= 0
    <3> HIDE DEF T
    <3> QED
      OBVIOUS
  <2>3. ASSUME NEW p \in Seq(T) PROVE G[p] = Searched(G, p, txs, start)
    <3>1. F[p] = Searched(F, p, txs, start)
      BY <2>1, <2>2 DEF Settled
    <3>2. \A q \in Seq(T) : F[q] = G[q]
      OBVIOUS
    <3> HIDE DEF G
    <3>3. Searched(F, p, txs, start) = Searched(G, p, txs, start)
      BY <3>2, SearchedAgrees
    <3> QED
      BY <3>1, <3>2, <3>3
  <2>4. G = [p \in Seq(T) |-> G[p]]
    OBVIOUS
  <2>5. G = [p \in Seq(T) |-> Searched(G, p, txs, start)]
    <3> HIDE DEF G, T
    <3> QED
      BY <2>3, <2>4
  <2> HIDE DEF G
  <2> QED
    BY <2>5
<1>5. PICK q : q = [p \in Seq(T) |-> Searched(q, p, txs, start)] /\ SelectCyclePath(txs, start) = q[<< >>]
  <2> DEFINE Q == CHOOSE F : F = [p \in Seq(T) |-> Searched(F, p, txs, start)]
  <2>1. SelectCyclePath(txs, start) = Q[<< >>]
    BY Zenon DEF SelectCyclePath, Searched, Best, Beyond
  <2>2. Q = [p \in Seq(T) |-> Searched(Q, p, txs, start)]
    <3> HIDE DEF T
    <3> QED
      BY <1>4, Zenon
  <2> HIDE DEF Q, T
  <2> QED
    BY <2>1, <2>2
<1>6. \A p \in Seq(T) : q[p] = Searched(q, p, txs, start)
  <2> HIDE DEF T
  <2> QED
    BY <1>5
<1> QED
  BY <1>5, <1>6

-----------------------------------------------------------------------------
(* What the search promises of a path it is at. *)
Returning(txs, start) ==
  {w \in Seq(Range(txs)) : IsPath(w, txs, start) /\ Len(w) \in 2..5 /\ ToAccount[Last(w)] = start}

Beginning(w, p) == Len(w) > Len(p) /\ \A i \in 1..Len(p) : w[i] = p[i]

Sound(v, p, txs, start) ==
  /\ v = << >> \/ v \in Returning(txs, start)
  /\ (\E w \in Returning(txs, start) : Beginning(w, p)) => v # << >>

LEMMA LeastAndLargest ==
  ASSUME NEW n \in Nat, NEW S \in SUBSET (1..n), S # {}
  PROVE  Min(S) \in S /\ Max(S) \in S
<1>1. \E x \in S : \A y \in S : x =< y
  <2>1. PICK x \in S : \A y \in S : ~(y < x)
    BY Least
  <2> QED
    BY <2>1
<1>2. \E x \in S : \A y \in S : x >= y
  <2> DEFINE U == {n - x : x \in S}
  <2>0. \A x \in S : n - x \in Nat
    OBVIOUS
  <2>1. U \in SUBSET Nat /\ U # {}
    BY <2>0
  <2>2. PICK u \in U : \A m \in U : ~(m < u)
    <3> HIDE DEF U
    <3> QED
      BY <2>1, Least
  <2>3. PICK x \in S : u = n - x
    OBVIOUS
  <2>4. \A y \in S : ~(n - y < n - x)
    BY <2>2, <2>3
  <2> QED
    BY <2>3, <2>4
<1>3. Min(S) \in S
  BY <1>1 DEF Min
<1>4. Max(S) \in S
  BY <1>2 DEF Max
<1> QED
  BY <1>3, <1>4

LEMMA NextIsOnward ==
  ASSUME NEW txs, NEW start, NEW p \in Seq(Range(txs)), NEW w \in Seq(Range(txs)),
         IsPath(w, txs, start), Beginning(w, p)
  PROVE  LET t == w[Len(p) + 1]
         IN /\ t \in Onward(p, txs, start)
            /\ Len(w) = Len(p) + 1 => w = Append(p, t)
            /\ Len(w) # Len(p) + 1 => Beginning(w, Append(p, t))
<1> DEFINE T == Range(txs)
           t == w[Len(p) + 1]
           k == Len(p)
<1>1. p \in Seq(T) /\ w \in Seq(T)
  OBVIOUS
<1> HIDE DEF T
<1>2. /\ k \in Nat /\ Len(w) \in Nat
      /\ k + 1 \in 1..Len(w) /\ t \in T
      /\ DOMAIN w = 1..Len(w) /\ DOMAIN p = 1..k
      /\ \A i \in 1..k : w[i] = p[i] /\ i \in 1..Len(w) /\ i # k + 1
  BY <1>1 DEF Beginning
<1>3. t \notin Range(p)
  <2>1. \A i, j \in 1..Len(w) : w[i] = w[j] => i = j
    BY <1>2 DEF IsPath, IsInjective
  <2>2. Range(p) = {p[i] : i \in 1..k}
    BY <1>2 DEF Range
  <2> QED
    BY <1>2, <2>1, <2>2
<1>4. FromAccount[t] = EndOf(p, start)
  <2>1. FromAccount[t] = IF k + 1 = 1 THEN start ELSE ToAccount[w[(k + 1) - 1]]
    BY <1>2 DEF IsPath
  <2>2. EndOf(p, start) = IF k = 0 THEN start ELSE ToAccount[p[k]]
    BY <1>1 DEF EndOf, Last
  <2>3. (k + 1 = 1 <=> k = 0) /\ (k + 1) - 1 = k /\ (k # 0 => w[k] = p[k])
    BY <1>2
  <2> HIDE DEF k, t
  <2> QED
    BY <2>1, <2>2, <2>3
<1>5. t \in Onward(p, txs, start)
  BY <1>2, <1>3, <1>4 DEF Onward, T
<1> DEFINE q == Append(p, t)
<1>6. /\ q \in Seq(T) /\ Len(q) = k + 1
      /\ \A i \in 1..k : q[i] = p[i]
      /\ q[k + 1] = t
  BY <1>1, <1>2
<1> HIDE DEF q
<1>7. \A i \in 1..k + 1 : w[i] = q[i]
  <2> SUFFICES ASSUME NEW i \in 1..k + 1 PROVE w[i] = q[i]
    OBVIOUS
  <2>1. i \in 1..k \/ i = k + 1
    BY <1>2
  <2> QED
    BY <1>2, <1>6, <2>1
<1>8. Len(w) = k + 1 => w = q
  BY <1>1, <1>6, <1>7
<1>9. Len(w) # k + 1 => Beginning(w, q)
  <2>1. Len(w) # k + 1 => Len(w) > k + 1
    <3> DEFINE m == Len(w)
    <3>1. m \in Nat /\ k \in Nat /\ k + 1 \in 1..m
      BY <1>2
    <3> HIDE DEF k, m
    <3>2. m # k + 1 => m > k + 1
      BY <3>1
    <3> QED
      BY <3>2 DEF m
  <2> QED
    BY <1>6, <1>7, <2>1 DEF Beginning
<1> QED
  BY <1>5, <1>8, <1>9 DEF q

(* One step of the search: what is found beyond each way on being right,
   so is what is found from the path. *)
LEMMA SearchedIsSound ==
  ASSUME NEW txs \in Seq(Transactions), NEW start, NEW F,
         NEW p \in Seq(Range(txs)), IsPath(p, txs, start), Len(p) =< 4,
         \A t \in Onward(p, txs, start) :
           Len(p) + 1 =< 4 => Sound(F[Append(p, t)], Append(p, t), txs, start)
  PROVE  Sound(Searched(F, p, txs, start), p, txs, start)
<1> DEFINE T == Range(txs)
           longer == Longer(p, txs, start)
           beyond == Beyond(F, longer)
           further == Onward(p, txs, start)
           home == {i \in DOMAIN longer : RoundTrip(longer[i], start)}
           hits == {i \in DOMAIN longer : beyond[i] # << >>}
           found == Returning(txs, start)
           v == Searched(F, p, txs, start)
<1>1. /\ longer \in Seq(Seq(T))
      /\ \A i \in DOMAIN longer : \E t \in further : longer[i] = Append(p, t)
      /\ \A t \in further : \E i \in DOMAIN longer : longer[i] = Append(p, t)
  BY LongerIs
<1>2. v = IF home # {} THEN longer[Min(home)] ELSE IF hits # {} THEN beyond[Max(hits)] ELSE << >>
  BY DEF Searched, Best
<1>3. ASSUME NEW t \in further
      PROVE  /\ Append(p, t) \in Seq(T) /\ Len(Append(p, t)) = Len(p) + 1
             /\ Len(Append(p, t)) \in 1..5
             /\ IsPath(Append(p, t), txs, start)
  <2>1. t \in T /\ p \in Seq(T)
    BY DEF Onward
  <2>2. IsPath(Append(p, t), txs, start)
    BY AppendPath
  <2> HIDE DEF T, further
  <2> QED
    BY <2>1, <2>2
<1>4. ASSUME NEW i \in DOMAIN longer
      PROVE  beyond[i] = << >> \/ beyond[i] \in found
  <2>1. PICK t \in further : longer[i] = Append(p, t)
    BY <1>1
  <2>2. beyond[i] = IF Len(longer[i]) < 5 THEN F[longer[i]] ELSE << >>
    BY DEF Beyond
  <2>3. Len(p) + 1 =< 4 => Sound(F[longer[i]], longer[i], txs, start)
    BY <2>1
  <2> HIDE DEF longer, beyond, T
  <2>4. Len(longer[i]) < 5 => Len(p) + 1 =< 4
    BY <1>3, <2>1
  <2> QED
    BY <2>2, <2>3, <2>4 DEF Sound
<1>5. \A n \in DOMAIN longer : n \in 1..Len(longer)
  <2> HIDE DEF longer, T
  <2> QED
    BY <1>1
<1>6. Len(longer) \in Nat
  <2> HIDE DEF longer, T
  <2> QED
    BY <1>1
<1>7. home # {} => Min(home) \in home
  <2>1. home \in SUBSET (1..Len(longer))
    BY <1>5
  <2> HIDE DEF home, longer
  <2> QED
    BY <1>6, <2>1, LeastAndLargest
<1>8. hits # {} => Max(hits) \in hits
  <2>1. hits \in SUBSET (1..Len(longer))
    BY <1>5
  <2> HIDE DEF hits, longer
  <2> QED
    BY <1>6, <2>1, LeastAndLargest
<1>9. home # {} => v \in found /\ v # << >>
  <2> SUFFICES ASSUME home # {} PROVE v \in found /\ v # << >>
    OBVIOUS
  <2>1. PICK i \in home : v = longer[i]
    <3> HIDE DEF home, v
    <3> QED
      BY <1>2, <1>7
  <2>2. PICK t \in further : v = Append(p, t)
    BY <1>1, <2>1
  <2>3. Len(v) >= 2 /\ ToAccount[Last(v)] = start
    BY <2>1 DEF RoundTrip
  <2>4. v \in Seq(T) /\ Len(v) \in 1..5 /\ IsPath(v, txs, start)
    BY <1>3, <2>2
  <2>5. v # << >>
    <3> HIDE DEF v
    <3> QED
      BY <2>3
  <2> HIDE DEF v
  <2>6. Len(v) \in 2..5
    <3> DEFINE m == Len(v)
    <3>1. m \in 1..5 /\ m >= 2
      BY <2>3, <2>4
    <3> HIDE DEF m
    <3>2. m \in 2..5
      BY <3>1
    <3> QED
      BY <3>2 DEF m
  <2> QED
    BY <2>3, <2>4, <2>5, <2>6 DEF Returning
<1>10. home = {} /\ hits # {} => v \in found /\ v # << >>
  <2> SUFFICES ASSUME home = {}, hits # {} PROVE v \in found /\ v # << >>
    OBVIOUS
  <2>1. PICK i \in hits : v = beyond[i]
    <3> HIDE DEF hits, v, beyond
    <3> QED
      BY <1>2, <1>8
  <2>2. i \in DOMAIN longer /\ beyond[i] # << >>
    BY <2>1
  <2> HIDE DEF found, v, beyond
  <2> QED
    BY <1>4, <2>1, <2>2
<1>11. ASSUME NEW w \in found, Beginning(w, p) PROVE home # {} \/ hits # {}
  <2> DEFINE t == w[Len(p) + 1]
  <2>1. /\ w \in Seq(T) /\ IsPath(w, txs, start) /\ Len(w) \in 2..5
        /\ ToAccount[Last(w)] = start
    BY DEF Returning
  <2>9. Len(w) \in Nat /\ Len(w) >= 2 /\ Len(w) =< 5
    <3> DEFINE m == Len(w)
    <3>1. m \in 2..5
      BY <2>1
    <3> HIDE DEF m
    <3>2. m \in Nat /\ m >= 2 /\ m =< 5
      BY <3>1
    <3> QED
      BY <3>2 DEF m
  <2>2. /\ t \in further
        /\ Len(w) = Len(p) + 1 => w = Append(p, t)
        /\ Len(w) # Len(p) + 1 => Beginning(w, Append(p, t))
    BY <1>11, <2>1, NextIsOnward
  <2>3. PICK i \in DOMAIN longer : longer[i] = Append(p, t)
    BY <1>1, <2>2
  <2>4. CASE Len(w) = Len(p) + 1
    <3>1. longer[i] = w
      BY <2>2, <2>3, <2>4
    <3>2. RoundTrip(w, start)
      BY <2>1, <2>9 DEF RoundTrip
    <3> QED
      BY <3>1, <3>2
  <2>5. CASE Len(w) # Len(p) + 1
    <3>1. Len(longer[i]) = Len(p) + 1 /\ Len(p) \in Nat
      <4>1. Len(p) \in Nat
        OBVIOUS
      <4> HIDE DEF longer, T, t, further
      <4> QED
        BY <1>3, <2>2, <2>3, <4>1
    <3>2. Len(p) + 1 < Len(w)
      BY <1>11, <2>1, <2>5, <3>1 DEF Beginning
    <3>3. Len(p) + 1 =< 4 /\ Len(longer[i]) < 5
      <4> HIDE DEF longer
      <4> QED
        BY <2>9, <3>1, <3>2
    <3>4. Sound(F[Append(p, t)], Append(p, t), txs, start)
      BY <2>2, <3>3
    <3>5. F[Append(p, t)] # << >>
      <4> HIDE DEF t
      <4> QED
        BY <2>2, <2>5, <3>4 DEF Sound
    <3>6. beyond[i] = F[longer[i]]
      BY <3>3 DEF Beyond
    <3>7. beyond[i] # << >>
      <4> HIDE DEF t, beyond, longer
      <4> QED
        BY <2>3, <3>5, <3>6
    <3> QED
      BY <3>7
  <2> QED
    BY <2>4, <2>5
<1>12. home = {} /\ hits = {} => v = << >>
  BY <1>2
<1> HIDE DEF v, home, hits, found
<1>13. v = << >> \/ v \in found
  BY <1>9, <1>10, <1>12
<1>14. (\E w \in found : Beginning(w, p)) => v # << >>
  BY <1>9, <1>10, <1>11
<1> QED
  BY <1>13, <1>14 DEF Sound, v, found

LEMMA SearchIsSound ==
  ASSUME NEW txs \in Seq(Transactions), NEW start
  PROVE  Sound(SelectCyclePath(txs, start), << >>, txs, start)
<1> DEFINE T == Range(txs)
<1>1. PICK F : /\ \A p \in Seq(T) : F[p] = Searched(F, p, txs, start)
               /\ SelectCyclePath(txs, start) = F[<< >>]
  BY SearchIsRecursive
<1> DEFINE SoundAt(p) == Sound(F[p], p, txs, start)
           Good == {n \in Nat : \A p \in Seq(T) : IsPath(p, txs, start) /\ Len(p) + n = 4 => SoundAt(p)}
<1>2. ASSUME NEW p \in Seq(T), IsPath(p, txs, start), Len(p) =< 4,
             \A t \in Onward(p, txs, start) : Len(p) + 1 =< 4 => SoundAt(Append(p, t))
      PROVE  SoundAt(p)
  <2>1. Sound(Searched(F, p, txs, start), p, txs, start)
    BY <1>2, SearchedIsSound
  <2> QED
    BY <1>1, <2>1
<1> HIDE DEF SoundAt
<1>3. 0 \in Good
  <2> SUFFICES ASSUME NEW p \in Seq(T), IsPath(p, txs, start), Len(p) + 0 = 4
               PROVE  SoundAt(p)
    OBVIOUS
  <2>1. Len(p) =< 4 /\ ~(Len(p) + 1 =< 4)
    <3> DEFINE m == Len(p)
    <3>1. m \in Nat /\ m + 0 = 4
      OBVIOUS
    <3> HIDE DEF m
    <3>2. m =< 4 /\ ~(m + 1 =< 4)
      BY <3>1
    <3> QED
      BY <3>2 DEF m
  <2> QED
    BY <1>2, <2>1
<1>4. ASSUME NEW n \in Nat, n \in Good PROVE n + 1 \in Good
  <2> SUFFICES ASSUME NEW p \in Seq(T), IsPath(p, txs, start), Len(p) + (n + 1) = 4
               PROVE  SoundAt(p)
    OBVIOUS
  <2>1. Len(p) =< 4 /\ Len(p) \in Nat
    <3>1. p \in Seq(T)
      OBVIOUS
    <3> HIDE DEF T
    <3> QED
      BY <3>1
  <2>2. ASSUME NEW t \in Onward(p, txs, start) PROVE SoundAt(Append(p, t))
    <3>1. t \in T /\ IsPath(Append(p, t), txs, start)
      BY AppendPath DEF Onward
    <3>2. Append(p, t) \in Seq(T) /\ Len(Append(p, t)) + n = 4
      <4>1. p \in Seq(T)
        OBVIOUS
      <4> HIDE DEF T
      <4> QED
        BY <2>1, <3>1, <4>1
    <3> QED
      BY <1>4, <3>1, <3>2
  <2> QED
    BY <1>2, <2>1, <2>2
<1>5. \A n \in Nat : n \in Good
  <2> HIDE DEF Good
  <2> QED
    BY <1>3, <1>4, ByNaturals
<1>6. << >> \in Seq(T) /\ Len(<< >>) + 4 = 4 /\ 4 \in Nat
  <2> HIDE DEF T
  <2> QED
    OBVIOUS
<1>7. IsPath(<< >>, txs, start)
  BY DEF IsPath, IsInjective
<1>8. SoundAt(<< >>)
  BY <1>5, <1>6, <1>7
<1> QED
  BY <1>1, <1>8 DEF SoundAt

(* _select_cycle_path returns a walk of two to five distinct transfers that
   comes back to where it started, and finds one whenever there is one. *)
LEMMA RoundTripIsFound ==
  ASSUME NEW txs \in Seq(Transactions), NEW start
  PROVE  FindsRoundTrip(txs, start)
<1> DEFINE T == Range(txs)
           cycle == SelectCyclePath(txs, start)
           trips == RoundTrips(txs, start)
<1>1. Sound(cycle, << >>, txs, start)
  BY SearchIsSound
<1>2. \A n \in 2..5 : Walks(txs, start, n) = {p \in Seq(T) : IsPath(p, txs, start) /\ Len(p) = n}
  BY WalksArePaths
<1>3. trips = Returning(txs, start)
  BY <1>2 DEF RoundTrips, Returning
<1>4. \A w \in Returning(txs, start) : Beginning(w, << >>)
  <2> SUFFICES ASSUME NEW w \in Returning(txs, start) PROVE Beginning(w, << >>)
    OBVIOUS
  <2> DEFINE m == Len(w)
  <2>1. m \in 2..5
    BY DEF Returning
  <2> HIDE DEF m
  <2>2. m > 0
    BY <2>1
  <2> QED
    BY <2>2 DEF Beginning, m
<1>5. IF trips = {} THEN cycle = << >> ELSE cycle \in trips
  <2> HIDE DEF cycle, trips
  <2> QED
    BY <1>1, <1>3, <1>4 DEF Sound
<1> QED
  BY <1>5 DEF FindsRoundTrip

-----------------------------------------------------------------------------
(* The pieces of a digest. *)
LEMMA FocusIs ==
  ASSUME NEW outgoing \in Listings, NEW account \in Accounts, NEW depth \in Nat
  PROVE  LET txs   == TraceOutgoing(outgoing, account, depth)
             cycle == SelectCyclePath(txs, account)
             focus == Focus(txs, account)
         IN /\ txs \in Seq(Transactions) /\ Range(txs) \subseteq Transactions
            /\ focus \in Seq(Range(txs)) /\ focus \in Seq(Transactions)
            /\ Range(txs) # {} => focus # << >>
            /\ cycle # << >> => focus \in Returning(txs, account)
<1> DEFINE txs == TraceOutgoing(outgoing, account, depth)
           T == Range(txs)
           cycle == SelectCyclePath(txs, account)
           focus == Focus(txs, account)
<1>1. PICK w \in WalkStates : txs = w.txs
  BY WalkHolds
<1>2. txs \in Seq(Transactions)
  BY <1>1 DEF WalkStates
<1>3. T \subseteq Transactions /\ txs \in Seq(T) /\ (T # {} => txs # << >>)
  <2> HIDE DEF txs
  <2> QED
    BY <1>2 DEF Range
<1>4. cycle = << >> \/ cycle \in Returning(txs, account)
  BY <1>2, SearchIsSound DEF Sound
<1>5. focus = IF cycle = << >> THEN txs ELSE cycle
  BY DEF Focus
<1>6. Returning(txs, account) \subseteq Seq(T)
  BY DEF Returning
<1>7. Seq(T) \subseteq Seq(Transactions)
  <2> HIDE DEF T
  <2> SUFFICES ASSUME NEW s \in Seq(T) PROVE s \in Seq(Transactions)
    OBVIOUS
  <2>1. \A i \in 1..Len(s) : s[i] \in Transactions
    BY <1>3
  <2>2. s = [i \in 1..Len(s) |-> s[i]] /\ Len(s) \in Nat
    OBVIOUS
  <2> QED
    BY <2>1, <2>2
<1> HIDE DEF txs, T, cycle, focus
<1>8. /\ txs \in Seq(Transactions) /\ T \subseteq Transactions
      /\ focus \in Seq(T) /\ focus \in Seq(Transactions)
      /\ T # {} => focus # << >>
      /\ cycle # << >> => focus \in Returning(txs, account)
  BY <1>2, <1>3, <1>4, <1>5, <1>6, <1>7
<1> QED
  BY <1>8 DEF txs, T, cycle, focus

LEMMA LinkedIs ==
  ASSUME NEW X, NEW txs \in Seq(X), NEW focus \in Seq(X)
  PROVE  LET linked == PaymentLinked(txs, focus)
         IN /\ linked \in Seq(X)
            /\ \A i \in DOMAIN linked : linked[i] \in X /\ PaymentOf[linked[i]] # None
<1> DEFINE Linked(s) == Keep(s, {tx \in Range(s) : PaymentOf[tx] # None})
<1>1. ASSUME NEW s \in Seq(X)
      PROVE  /\ Linked(s) \in Seq(X)
             /\ \A i \in DOMAIN Linked(s) : Linked(s)[i] \in X /\ PaymentOf[Linked(s)[i]] # None
  <2> DEFINE S == {tx \in Range(s) : PaymentOf[tx] # None}
             picked == Keep(s, S)
             U == X \cap S
  <2>1. picked \in Seq(U)
    BY KeepIs
  <2>2. \A u \in U : u \in X /\ PaymentOf[u] # None
    OBVIOUS
  <2> HIDE DEF U, picked
  <2>3. \A i \in 1..Len(picked) : picked[i] \in X /\ PaymentOf[picked[i]] # None
    BY <2>1, <2>2
  <2>4. picked = [i \in 1..Len(picked) |-> picked[i]] /\ Len(picked) \in Nat /\ DOMAIN picked = 1..Len(picked)
    BY <2>1
  <2>5. picked \in Seq(X)
    BY <2>3, <2>4
  <2> QED
    BY <2>3, <2>4, <2>5 DEF picked
<1>2. PaymentLinked(txs, focus) \in {Linked(txs), Linked(focus)}
  BY DEF PaymentLinked
<1> HIDE DEF Linked
<1> QED
  BY <1>1, <1>2

LEMMA RfcsAre ==
  ASSUME NEW focus, NEW origin
  PROVE  CounterpartyRfcs(focus, origin) \in Seq(Rfcs)
<1> DEFINE touched == UNION {{FromAccount[tx], ToAccount[tx]} : tx \in Range(focus)} \ {origin}
           S == {a \in touched : RfcOf[a] # None}
           known == Keep(AccountOrder, S)
           U == Accounts \cap S
           rfcs == [i \in DOMAIN known |-> RfcOf[known[i]]]
<1>1. known \in Seq(U)
  BY KeepIs, OrderAssumption
<1>2. \A a \in U : RfcOf[a] \in Rfcs
  BY FieldsAssumption
<1>3. CounterpartyRfcs(focus, origin) = rfcs
  BY DEF CounterpartyRfcs
<1> HIDE DEF U, known
<1>4. \A i \in 1..Len(known) : RfcOf[known[i]] \in Rfcs
  BY <1>1, <1>2
<1>5. DOMAIN known = 1..Len(known) /\ Len(known) \in Nat
  BY <1>1
<1>6. rfcs \in Seq(Rfcs)
  BY <1>4, <1>5
<1> QED
  BY <1>3, <1>6

(* The last leg of a round trip whose legs are distinct is not its first. *)
LEMMA ReturnLeg ==
  ASSUME NEW txs, NEW start, NEW w \in Returning(txs, start)
  PROVE  /\ w # << >> /\ Last(w) \in Range(w) /\ Last(w) # w[1]
         /\ ToAccount[Last(w)] = start /\ FromAccount[w[1]] = start
<1> DEFINE T == Range(txs)
           n == Len(w)
<1>1. w \in Seq(T) /\ IsPath(w, txs, start) /\ n \in 2..5 /\ ToAccount[Last(w)] = start
  BY DEF Returning
<1> HIDE DEF T
<1>2. DOMAIN w = 1..n /\ Last(w) = w[n]
  BY <1>1 DEF Last
<1>3. 1 \in 1..n /\ n \in 1..n /\ n # 1
  <2> HIDE DEF n
  <2> QED
    BY <1>1
<1>4. Range(w) = {w[i] : i \in 1..n}
  BY <1>2 DEF Range
<1>5. FromAccount[w[1]] = start
  BY <1>1, <1>3 DEF IsPath
<1>6. \A i, j \in 1..n : w[i] = w[j] => i = j
  BY <1>1, <1>2 DEF IsPath, IsInjective
<1>7. w # << >>
  BY <1>2, <1>3
<1> HIDE DEF n
<1> QED
  BY <1>1, <1>2, <1>3, <1>4, <1>5, <1>6, <1>7

LEMMA LastIsIn ==
  ASSUME NEW X, NEW s \in Seq(X), s # << >>
  PROVE  Last(s) \in Range(s) /\ s[1] \in Range(s) /\ Range(s) \subseteq X /\ 1 \in DOMAIN s
<1>1. Len(s) \in DOMAIN s /\ 1 \in DOMAIN s
  OBVIOUS
<1>2. \A i \in DOMAIN s : s[i] \in X
  OBVIOUS
<1> QED
  BY <1>1, <1>2 DEF Last, Range

(* The root and the returning transfer of a digest. *)
LEMMA RootIs ==
  ASSUME NEW X, NEW focus \in Seq(X), NEW linked \in Seq(X), NEW known
  PROVE  LET root == RootOf(focus, linked, known)
         IN /\ root \in X \cup {known}
            /\ focus # << >> /\ known = None => root \in X
            /\ linked = << >> /\ focus # << >> /\ known = None => root = focus[1]
            /\ focus # << >> /\ None \notin X => root # None
<1>1. focus # << >> => focus[1] \in X
  BY LastIsIn
<1>2. linked # << >> => linked[1] \in X
  BY LastIsIn
<1> QED
  BY <1>1, <1>2 DEF RootOf

(* What a reduced trace is made of. *)
LEMMA ReducedTrace ==
  ASSUME NEW outgoing \in Listings, NEW account \in Accounts, NEW depth \in Nat, NEW known
  PROVE  LET txs    == TraceOutgoing(outgoing, account, depth)
             focus  == Focus(txs, account)
             digest == ReduceTrace(outgoing, account, depth, known)
         IN /\ digest.found = Range(txs) /\ digest.focus = focus
            /\ digest.root = RootOf(focus, PaymentLinked(txs, focus), known)
            /\ digest.payment \in PaymentIds \cup {None}
            /\ digest.returned \in Range(txs) \cup {None}
            /\ digest.rfcs \in Seq(Rfcs)
            /\ digest = [found |-> digest.found, focus |-> digest.focus, root |-> digest.root,
                         payment |-> digest.payment, returned |-> digest.returned,
                         rfcs |-> digest.rfcs]
<1> DEFINE txs     == TraceOutgoing(outgoing, account, depth)
           T       == Range(txs)
           focus   == Focus(txs, account)
           linked  == PaymentLinked(txs, focus)
           root    == RootOf(focus, linked, known)
           origin  == IF root \in Range(txs) THEN FromAccount[root] ELSE account
           returns == Keep(focus, {tx \in Range(focus) : tx # root /\ ToAccount[tx] = origin})
           digest  == [found    |-> Range(txs),
                       focus    |-> focus,
                       root     |-> root,
                       payment  |-> IF linked # << >> THEN PaymentOf[linked[1]] ELSE None,
                       returned |-> IF returns # << >> THEN Last(returns) ELSE None,
                       rfcs     |-> CounterpartyRfcs(focus, origin)]
<1>1. ReduceTrace(outgoing, account, depth, known) = digest
  BY Zenon DEF ReduceTrace
<1>2. txs \in Seq(Transactions) /\ focus \in Seq(T) /\ focus \in Seq(Transactions)
  BY FocusIs
<1>3. linked \in Seq(Transactions) /\ \A i \in DOMAIN linked : PaymentOf[linked[i]] # None
  BY <1>2, LinkedIs
<1>4. linked # << >> => PaymentOf[linked[1]] \in PaymentIds
  <2> SUFFICES ASSUME linked # << >> PROVE PaymentOf[linked[1]] \in PaymentIds
    OBVIOUS
  <2> HIDE DEF linked
  <2>1. linked[1] \in Transactions /\ 1 \in DOMAIN linked
    BY <1>3
  <2> QED
    BY <1>3, <2>1, FieldsAssumption
<1>5. returns # << >> => Last(returns) \in T
  <2> DEFINE S == {tx \in Range(focus) : tx # root /\ ToAccount[tx] = origin}
  <2>1. Keep(focus, S) \in Seq(T \cap S)
    <3> HIDE DEF S, T, focus
    <3> QED
      BY <1>2, KeepIs
  <2>2. returns = Keep(focus, S)
    OBVIOUS
  <2> HIDE DEF returns, S, T
  <2>3. returns \in Seq(T \cap S)
    BY <2>1, <2>2
  <2> QED
    BY <2>3, LastIsIn
<1>6. CounterpartyRfcs(focus, origin) \in Seq(Rfcs)
  BY RfcsAre
<1> HIDE DEF txs, T, focus, linked, root, origin, returns
<1>7. /\ digest.found = Range(txs) /\ digest.focus = focus /\ digest.root = root
      /\ digest.payment \in PaymentIds \cup {None}
      /\ digest.returned \in T \cup {None}
      /\ digest.rfcs \in Seq(Rfcs)
      /\ digest = [found |-> digest.found, focus |-> digest.focus, root |-> digest.root,
                   payment |-> digest.payment, returned |-> digest.returned,
                   rfcs |-> digest.rfcs]
  BY <1>4, <1>5, <1>6
<1> HIDE DEF digest
<1> QED
  BY <1>1, <1>7 DEF txs, T, focus, linked, root

(* The return leg is looked for among the legs that are not the root. *)
LEMMA ReturnedIs ==
  ASSUME NEW outgoing \in Listings, NEW account \in Accounts, NEW depth \in Nat
  PROVE  LET txs    == TraceOutgoing(outgoing, account, depth)
             focus  == Focus(txs, account)
             digest == ReduceTrace(outgoing, account, depth, None)
             ways   == {tx \in Range(focus) : tx # digest.root /\ ToAccount[tx] = account}
         IN digest.root \in Range(txs) /\ FromAccount[digest.root] = account /\ ways # {}
              => digest.returned \in ways
<1> DEFINE txs     == TraceOutgoing(outgoing, account, depth)
           T       == Range(txs)
           focus   == Focus(txs, account)
           linked  == PaymentLinked(txs, focus)
           root    == RootOf(focus, linked, None)
           origin  == IF root \in Range(txs) THEN FromAccount[root] ELSE account
           returns == Keep(focus, {tx \in Range(focus) : tx # root /\ ToAccount[tx] = origin})
           returned == IF returns # << >> THEN Last(returns) ELSE None
           digest  == ReduceTrace(outgoing, account, depth, None)
           ways    == {tx \in Range(focus) : tx # root /\ ToAccount[tx] = account}
<1>1. digest.root = root /\ digest.returned = returned
  <2> DEFINE whole == [found    |-> Range(txs),
                       focus    |-> focus,
                       root     |-> root,
                       payment  |-> IF linked # << >> THEN PaymentOf[linked[1]] ELSE None,
                       returned |-> returned,
                       rfcs     |-> CounterpartyRfcs(focus, origin)]
  <2>1. digest = whole
    BY Zenon DEF ReduceTrace
  <2> HIDE DEF digest, txs, focus, linked, root, origin, returns, returned
  <2> QED
    BY <2>1
<1>2. focus \in Seq(T)
  BY FocusIs
<1>3. ASSUME root \in T, FromAccount[root] = account, ways # {}
      PROVE  returned \in ways
  <2>1. origin = account
    BY <1>3
  <2>2. returns = Keep(focus, ways)
    BY <2>1
  <2> HIDE DEF T, focus, root, returns
  <2>3. Keep(focus, ways) \in Seq(T \cap ways) /\ Range(Keep(focus, ways)) = Range(focus) \cap ways
    <3> HIDE DEF ways
    <3> QED
      BY <1>2, KeepIs
  <2>4. Range(returns) # {} /\ returns \in Seq(T \cap ways)
    <3>1. ways \subseteq Range(focus)
      OBVIOUS
    <3> HIDE DEF ways
    <3> QED
      BY <1>3, <2>2, <2>3, <3>1
  <2>5. returns # << >>
    BY <2>4 DEF Range
  <2>6. Last(returns) \in T \cap ways
    <3> HIDE DEF ways
    <3> QED
      BY <2>4, <2>5, LastIsIn
  <2> HIDE DEF ways
  <2> QED
    BY <2>5, <2>6
<1> HIDE DEF root, returned, digest, txs, T, focus
<1>4. digest.root \in T /\ FromAccount[digest.root] = account
        /\ {tx \in Range(focus) : tx # digest.root /\ ToAccount[tx] = account} # {}
        => digest.returned \in {tx \in Range(focus) : tx # digest.root /\ ToAccount[tx] = account}
  BY <1>1, <1>3
<1> QED
  BY <1>4 DEF digest, txs, T, focus

(* The trace branch of _update_context_from_tool keeps, of whatever records
   it is given, a root among what was found, evidence within the trace and,
   of a round trip none of whose transfers pays anything, the leg that
   brings the money back to the account the root left. *)
LEMMA DigestKeepsRoundTrip ==
  ASSUME NEW outgoing \in Listings, NEW account \in Accounts, NEW depth \in Nat
  PROVE  KeepsRoundTrip(TraceOutgoing(outgoing, account, depth), account, ReduceTrace(outgoing, account, depth, None))
<1> DEFINE txs    == TraceOutgoing(outgoing, account, depth)
           found  == Range(txs)
           focus  == Focus(txs, account)
           cycle  == SelectCyclePath(txs, account)
           linked == PaymentLinked(txs, focus)
           digest == ReduceTrace(outgoing, account, depth, None)
           quiet  == \A t \in found : PaymentOf[t] = None
<1> SUFFICES ASSUME txs # << >>
             PROVE  /\ digest.root \in found
                    /\ Range(digest.focus) \subseteq found
                    /\ cycle # << >> /\ quiet
                       => /\ FromAccount[digest.root] = account
                          /\ digest.returned \in found \ {digest.root}
                          /\ ToAccount[digest.returned] = account
  BY Zenon DEF KeepsRoundTrip
<1>1. /\ focus \in Seq(found) /\ focus # << >>
      /\ cycle # << >> => focus \in Returning(txs, account)
      /\ txs \in Seq(found)
  <2>1. /\ focus \in Seq(found) /\ (found # {} => focus # << >>)
        /\ cycle # << >> => focus \in Returning(txs, account)
        /\ txs \in Seq(Transactions)
    BY FocusIs
  <2>3. found # {}
    <3> HIDE DEF txs
    <3> QED
      BY <2>1, LastIsIn
  <2> HIDE DEF txs
  <2>2. txs \in Seq(found)
    BY <2>1 DEF Range
  <2> QED
    BY <2>1, <2>2, <2>3
<1>2. digest.focus = focus /\ digest.root = RootOf(focus, linked, None)
  BY ReducedTrace
<1>3. /\ linked \in Seq(found)
      /\ \A i \in DOMAIN linked : linked[i] \in found /\ PaymentOf[linked[i]] # None
  <2> HIDE DEF txs, found, focus
  <2> QED
    BY <1>1, LinkedIs
<1>4. /\ digest.root \in found
      /\ linked = << >> => digest.root = focus[1]
  <2> HIDE DEF found, focus, linked, digest
  <2> QED
    BY <1>1, <1>2, <1>3, RootIs
<1>5. Range(digest.focus) \subseteq found
  <2> HIDE DEF found, focus, linked, digest
  <2> QED
    BY <1>1, <1>2, LastIsIn
<1>6. ASSUME cycle # << >>, quiet
      PROVE  /\ FromAccount[digest.root] = account
             /\ digest.returned \in found \ {digest.root}
             /\ ToAccount[digest.returned] = account
  <2>1. linked = << >>
    <3>1. \A i \in DOMAIN linked : FALSE
      BY <1>3, <1>6
    <3> HIDE DEF linked, found
    <3> QED
      BY <1>3, <3>1
  <2>2. /\ Last(focus) \in Range(focus) /\ Last(focus) # focus[1]
        /\ ToAccount[Last(focus)] = account /\ FromAccount[focus[1]] = account
    <3> HIDE DEF focus, cycle, txs
    <3> QED
      BY <1>1, <1>6, ReturnLeg
  <2>3. FromAccount[digest.root] = account
    BY <1>4, <2>1, <2>2
  <2>4. Last(focus) \in {tx \in Range(focus) : tx # digest.root /\ ToAccount[tx] = account}
    <3> HIDE DEF focus, digest
    <3> QED
      BY <1>4, <2>1, <2>2
  <2>5. digest.returned \in {tx \in Range(focus) : tx # digest.root /\ ToAccount[tx] = account}
    BY <1>4, <2>3, <2>4, ReturnedIs
  <2> HIDE DEF found, focus, digest
  <2> QED
    BY <1>2, <1>5, <2>3, <2>5
<1> QED
  BY <1>4, <1>5, <1>6

-----------------------------------------------------------------------------
(* The traces of TraceSpec: nothing is held before one is asked for, and
   what is held then is what the functions return. *)
TraceInv ==
  /\ listing \in Listings
  /\ limit \in Nat
  /\ limit = 0 => traced = << >>
  /\ limit > 0 => /\ traced = TraceOutgoing(listing, Origin, limit)
                  /\ kept = ReduceTrace(listing, Origin, limit, None)

LEMMA TraceInvHolds == TraceSpec => []TraceInv
<1>1. TraceInit => TraceInv
  BY TracesAssumption DEF TraceInit, TraceInv
<1>2. TraceInv /\ [TraceNext]_<<listing, limit, traced, kept>> => TraceInv'
  <2> SUFFICES ASSUME TraceInv, [TraceNext]_<<listing, limit, traced, kept>>
               PROVE  TraceInv'
    OBVIOUS
  <2>1. CASE AskForTrace
    <3>1. limit' \in Nat /\ limit' > 0
      BY <2>1, TracesAssumption DEF AskForTrace
    <3>2. /\ listing' \in Listings
          /\ traced' = TraceOutgoing(listing', Origin, limit')
          /\ kept' = ReduceTrace(listing', Origin, limit', None)
      BY <2>1 DEF AskForTrace, TraceInv
    <3> QED
      BY <3>1, <3>2 DEF TraceInv
  <2>2. CASE UNCHANGED <<listing, limit, traced, kept>>
    BY <2>2 DEF TraceInv
  <2> QED
    BY <2>1, <2>2 DEF TraceNext, Answered
<1> QED
  BY <1>1, <1>2, PTL DEF TraceSpec

(* trace_outgoing_funds returns exactly the transfers of the accounts in
   reach, each once and nearest first, from any account of any repository,
   to any depth. *)
THEOREM TracesAreBoundedReach == TraceSpec => []TraceIsBoundedReach
<1>1. TraceInv => TraceIsBoundedReach
  BY TraceReaches, TracesAssumption DEF TraceInv, TraceIsBoundedReach
<1> QED
  BY <1>1, TraceInvHolds, PTL

(* _select_cycle_path finds a round trip of two to five distinct transfers
   in any trace that has one, and invents none. *)
THEOREM CyclesAreFound == TraceSpec => []CycleIsFoundIfAny
<1>1. TraceInv => traced \in Seq(Transactions)
  <2> SUFFICES ASSUME TraceInv PROVE traced \in Seq(Transactions)
    OBVIOUS
  <2>1. TraceOutgoing(listing, Origin, limit) \in Seq(Transactions)
    BY FocusIs, TracesAssumption DEF TraceInv
  <2>2. << >> \in Seq(Transactions)
    OBVIOUS
  <2>3. limit = 0 \/ limit > 0
    BY DEF TraceInv
  <2>4. traced = << >> \/ traced = TraceOutgoing(listing, Origin, limit)
    BY <2>3 DEF TraceInv
  <2> QED
    BY <2>1, <2>2, <2>4, Zenon
<1>2. TraceInv => CycleIsFoundIfAny
  BY <1>1, RoundTripIsFound DEF CycleIsFoundIfAny
<1> QED
  BY <1>2, TraceInvHolds, PTL

(* _update_context_from_tool keeps, of any trace, a root among what was
   found, evidence within it and, of an unpaid round trip, the leg that
   brings the money back to the account the root left. *)
THEOREM DigestsTraceRoundTrips == TraceSpec => []DigestTracesTheRoundTrip
<1>1. TraceInv => DigestTracesTheRoundTrip
  BY DigestKeepsRoundTrip, TracesAssumption DEF TraceInv, DigestTracesTheRoundTrip
<1> QED
  BY <1>1, TraceInvHolds, PTL

(* What the investigator is told of a trace is what TrailAssumption asks
   for: the reduction of trace_outgoing_funds keeps a well-formed digest,
   evidence within the trace and, once anything was found, a focus and a
   root, whatever the repository lists.  The theorems about the investigator thus
   hold of it with its own traces. *)
THEOREM TracesReduceToDigests ==
  \A outgoing \in Listings, a \in Accounts, d \in Depths, known \in TxRefs \cup {None} :
    LET trail == ReduceTrace(outgoing, a, d, known)
    IN /\ trail \in TrailDigest
       /\ {trail.focus[i] : i \in DOMAIN trail.focus} \subseteq trail.found
       /\ trail.found # {} => trail.focus # << >> /\ trail.root # None
<1> SUFFICES ASSUME NEW outgoing \in Listings, NEW a \in Accounts, NEW d \in Depths, NEW known \in TxRefs \cup {None}
             PROVE  LET trail == ReduceTrace(outgoing, a, d, known)
                    IN /\ trail \in TrailDigest
                       /\ {trail.focus[i] : i \in DOMAIN trail.focus} \subseteq trail.found
                       /\ trail.found # {} => trail.focus # << >> /\ trail.root # None
  BY Zenon
<1> DEFINE txs    == TraceOutgoing(outgoing, a, d)
           T      == Range(txs)
           focus  == Focus(txs, a)
           linked == PaymentLinked(txs, focus)
           trail  == ReduceTrace(outgoing, a, d, known)
<1>0. d \in Nat
  BY DEF Depths
<1>1. /\ trail.found = T /\ trail.focus = focus
      /\ trail.root = RootOf(focus, linked, known)
      /\ trail.payment \in PaymentIds \cup {None}
      /\ trail.returned \in T \cup {None}
      /\ trail.rfcs \in Seq(Rfcs)
      /\ trail = [found |-> trail.found, focus |-> trail.focus, root |-> trail.root,
                  payment |-> trail.payment, returned |-> trail.returned, rfcs |-> trail.rfcs]
  BY <1>0, ReducedTrace
<1>2. /\ T \subseteq Transactions
      /\ focus \in Seq(T) /\ focus \in Seq(Transactions)
      /\ T # {} => focus # << >>
      /\ txs \in Seq(Transactions)
  BY <1>0, FocusIs
<1>3. linked \in Seq(Transactions)
  <2> HIDE DEF txs, focus
  <2> QED
    BY <1>2, LinkedIs
<1> HIDE DEF txs, T, focus, linked, trail
<1>4. /\ trail.root \in TxRefs \cup {None}
      /\ focus # << >> => trail.root # None
  BY <1>1, <1>2, <1>3, RootIs, RecordsAssumption DEF TxRefs
<1>5. trail \in TrailDigest
  BY <1>1, <1>2, <1>4 DEF TrailDigest
<1>6. {focus[i] : i \in DOMAIN focus} \subseteq T
  BY <1>2
<1> QED
  BY <1>1, <1>2, <1>4, <1>5, <1>6 DEF trail
=============================================================================
