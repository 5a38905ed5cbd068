---------------------------- MODULE Investigator ----------------------------
(***************************************************************************)
(* ForensicInvestigator.investigate (agent/investigator.py): the bounded   *)
(* loop one lead goes through, select -> validate -> execute -> reduce ->  *)
(* decide, until a step decides and the case is assembled.  One action per *)
(* phase and way out of it.                                                *)
(*                                                                         *)
(* The tools are read through TrailOf, the digest of a trace (module       *)
(* MoneyTrail computes it), and the canonical records.  Left out: prompts, *)
(* wording of claims, ids, hashes and providers_involved, which no branch  *)
(* reads.                                                                  *)
(***************************************************************************)
EXTENDS CanonicalData, FiniteSets

CONSTANTS
  TrailOf(_, _, _), \* account, depth, known root -> digest of the trace
  Ghost,            \* a TX- pattern in a lead that names no transaction
  NoAccount,        \* the lead resolves to the empty account id
  Entities,         \* the RFCs that have an entity record
  Leads,            \* [detector, account, root]: what _resolve_account_id
                    \* and _infer_root_tx_from_lead find for a lead
  GeminiCalls,      \* the valid calls the model may propose
  MaxSteps,
  NoCall            \* no tool call

TxRefs == Transactions \cup {Ghost}

TraceCall(account, depth) ==
  [tool |-> "trace_outgoing_funds", account |-> account, depth |-> depth]
InspectCall(tally, order) ==
  [tool |-> "inspect_counterparties", tally |-> tally, order |-> order]
InvoicesCall(rfc) == [tool |-> "inspect_invoices", rfc |-> rfc]
RegulatoryCall(rfc) == [tool |-> "check_regulatory_status", rfc |-> rfc]
ExposureCall(root, returned) ==
  [tool |-> "calculate_exposure", root |-> root, returned |-> returned]

(* The detectors whose leads policy v1 asks something particular of. *)
Detectors == {"CIRCULAR_FLOW", "RAPID_PASS_THROUGH", "OTHER"}

Depths == 1..5   \* validate_tool_args caps max_depth at 5

NoRfcs == [r \in Rfcs |-> 0]

(* The calls validate_tool_args accepts, in normalised form.  A list of
   RFCs is kept as how often each occurs in it and which of their orderings
   it is, 0 being the sorted one; an empty list is refused. *)
ValidCalls ==
  [tool : {"trace_outgoing_funds"}, account : Accounts, depth : Depths]
    \cup [tool : {"inspect_counterparties"}, tally : [Rfcs -> Nat] \ {NoRfcs}, order : Nat]
    \cup [tool : {"inspect_invoices", "check_regulatory_status"}, rfc : Rfcs]
    \cup [tool : {"calculate_exposure"}, root : TxRefs, returned : TxRefs \cup {None}]

(* A planned trace for a lead without an account is the only call of the
   plan that validation refuses. *)
Calls == ValidCalls \cup {TraceCall(NoAccount, 3)}

TrailDigest ==
  [found : SUBSET Transactions, focus : Seq(Transactions), root : TxRefs \cup {None},
   payment : PaymentIds \cup {None}, returned : Transactions \cup {None}, rfcs : Seq(Rfcs)]

Exposures == [supported : Nat, net : Nat]

ASSUME TrailAssumption ==
  \A a \in Accounts, d \in Depths, known \in TxRefs \cup {None} :
    LET trail == TrailOf(a, d, known)
    IN /\ trail \in TrailDigest
       /\ {trail.focus[i] : i \in DOMAIN trail.focus} \subseteq trail.found
       /\ trail.found # {} => trail.focus # << >> /\ trail.root # None

ASSUME InvestigatorAssumption ==
  /\ MaxSteps \in Nat \ {0}
  /\ Leads \subseteq [detector : Detectors, account : Accounts \cup {NoAccount},
                      root : TxRefs \cup {None}]
  /\ NoAccount \notin Accounts
  /\ Entities \subseteq Rfcs
  /\ Ghost # None /\ Ghost \notin Transactions
  /\ \A c \in GeminiCalls : c \in ValidCalls
  /\ NoCall \notin ValidCalls /\ NoCall # TraceCall(NoAccount, 3)
  /\ None \notin Exposures

VARIABLES
  lead,        \* the lead under investigation
  configured,  \* gemini.is_configured
  phase,       \* where the loop stands
  stepCount,
  pending,     \* the call selected for this turn
  calls,       \* ctx.seen_call_keys
  sources,     \* ctx.seen_source_ids
  ctx,         \* the rest of InvestigationContext
  evidence,    \* collector.evidence
  progress,    \* this turn found new evidence, new sources or a new hypothesis
  steps,       \* the recorded steps: decision, how it came about, call
  case         \* the assembled case

vars == <<lead, configured, phase, stepCount, pending, calls, sources, ctx,
          evidence, progress, steps, case>>

(* A hypothesis is a template and the ids written into it. *)
Hypothesis(template, ids) == [template |-> template, ids |-> ids]

NoCase == [status |-> "PENDING", amount |-> 0]

Init ==
  /\ lead \in Leads
  /\ configured \in BOOLEAN
  /\ phase = "select"
  /\ stepCount = 0
  /\ pending = NoCall
  /\ calls = {}
  /\ sources = {}
  /\ ctx = [empty_trace |-> FALSE, focus |-> << >>, root |-> lead.root,
            returned |-> None, payment |-> None, rfcs |-> << >>,
            hypothesis |-> Hypothesis("lead", << >>), exposure |-> None]
  /\ evidence = {}
  /\ progress = FALSE
  /\ steps = << >>
  /\ case = NoCase

-----------------------------------------------------------------------------
(* Evidence and sources are tagged with the registry they point into. *)
Source(kind, id) == <<kind, id>>

Record(kind, id, strength) == [source |-> Source(kind, id), strength |-> strength]

(* collector.add_record, skipped when the source is already on record. *)
Fresh(records) ==
  {r \in records : \A e \in evidence : e.source # r.source}

FocusSet(trail) == {trail.focus[i] : i \in DOMAIN trail.focus}

Times(rfcs, r) == Cardinality({i \in DOMAIN rfcs : rfcs[i] = r})

(* sorted(rfcs), duplicates and all, and sorted(set(rfcs)). *)
Tally(rfcs) == [r \in Rfcs |-> Times(rfcs, r)]
Distinct(rfcs) == [r \in Rfcs |-> IF \E i \in DOMAIN rfcs : rfcs[i] = r THEN 1 ELSE 0]

Called(tool) == \E c \in calls : c.tool = tool

(* Fault: every counterparty is checked, whether a step is left or not. *)
NextActionChecksEveryone(count) ==
  IF ctx.empty_trace THEN NoCall
  ELSE IF ~Called("trace_outgoing_funds") THEN TraceCall(lead.account, 3)
  ELSE IF ctx.rfcs # << >> /\ InspectCall(Tally(ctx.rfcs), 0) \notin calls
    THEN InspectCall(Distinct(ctx.rfcs), 0)
  ELSE IF \E i \in DOMAIN ctx.rfcs : RegulatoryCall(ctx.rfcs[i]) \notin calls
    THEN RegulatoryCall(ctx.rfcs[CHOOSE i \in DOMAIN ctx.rfcs : RegulatoryCall(ctx.rfcs[i]) \notin calls])
  ELSE IF ctx.root # None /\ ExposureCall(ctx.root, ctx.returned) \notin calls
    THEN ExposureCall(ctx.root, ctx.returned)
  ELSE NoCall

(* Fault: the exposure is asked for before the counterparties. *)
NextActionExposureEarly(count) ==
  IF ctx.empty_trace THEN NoCall
  ELSE IF ~Called("trace_outgoing_funds") THEN TraceCall(lead.account, 3)
  ELSE IF ctx.root # None /\ ExposureCall(ctx.root, ctx.returned) \notin calls
    THEN ExposureCall(ctx.root, ctx.returned)
  ELSE IF ctx.rfcs # << >> /\ InspectCall(Tally(ctx.rfcs), 0) \notin calls
    THEN InspectCall(Distinct(ctx.rfcs), 0)
  ELSE NoCall

(***************************************************************************)
(* _next_deterministic_action: trace, then inspect, then one 69-B check    *)
(* while a step is left for the exposure, then the exposure.               *)
(***************************************************************************)
NextDeterministicAction(count) ==
  IF ctx.empty_trace THEN NoCall
  ELSE IF ~Called("trace_outgoing_funds") THEN TraceCall(lead.account, 3)
  ELSE IF ctx.rfcs # << >> /\ InspectCall(Tally(ctx.rfcs), 0) \notin calls
    THEN InspectCall(Distinct(ctx.rfcs), 0)
  ELSE IF /\ ctx.rfcs # << >>
          /\ count <= MaxSteps - 1
          /\ ~Called("check_regulatory_status")
    THEN RegulatoryCall(ctx.rfcs[1])
  ELSE IF ctx.root # None /\ ExposureCall(ctx.root, ctx.returned) \notin calls
    THEN ExposureCall(ctx.root, ctx.returned)
  ELSE NoCall

-----------------------------------------------------------------------------
(* The loop condition holds, and a guard or a selection takes the turn. *)
AtTop == phase = "select" /\ stepCount < MaxSteps

Finish(decision, by) ==
  /\ steps' = Append(steps, [decision |-> decision, by |-> by, call |-> pending])
  /\ phase' = "build"

(* Fault: the break after the escalated step is missing. *)
TimeBudgetGuardKeepsLooping ==
  /\ AtTop
  /\ stepCount' = stepCount + 1
  /\ steps' = Append(steps, [decision |-> "ESCALATE", by |-> "time_budget_guard",
                             call |-> NoCall])
  /\ UNCHANGED <<lead, configured, phase, pending, calls, sources, ctx, evidence,
                 progress, case>>

(* elapsed >= max_seconds, looked at before the turn only. *)
TimeBudgetGuard ==
  /\ AtTop
  /\ stepCount' = stepCount + 1
  /\ steps' = Append(steps, [decision |-> "ESCALATE", by |-> "time_budget_guard",
                             call |-> NoCall])
  /\ phase' = "build"
  /\ UNCHANGED <<lead, configured, pending, calls, sources, ctx, evidence, progress, case>>

(* _select_action; also what _maybe_apply_gemini keeps when the client is
   offline, falls back or proposes invalid arguments. *)
SelectPlanned ==
  /\ AtTop
  /\ NextDeterministicAction(stepCount + 1) # NoCall
  /\ stepCount' = stepCount + 1
  /\ pending' = NextDeterministicAction(stepCount + 1)
  /\ phase' = "validate"
  /\ UNCHANGED <<lead, configured, calls, sources, ctx, evidence, progress, steps, case>>

(* A valid proposal of the model overrides the planned call. *)
SelectGemini ==
  /\ AtTop
  /\ configured
  /\ NextDeterministicAction(stepCount + 1) # NoCall
  /\ stepCount' = stepCount + 1
  /\ pending' \in GeminiCalls
  /\ phase' = "validate"
  /\ UNCHANGED <<lead, configured, calls, sources, ctx, evidence, progress, steps, case>>

(* step_count reached max_steps without a deciding step. *)
StepBudgetGuard ==
  /\ phase = "select"
  /\ stepCount >= MaxSteps
  /\ steps' = Append(steps, [decision |-> "ESCALATE", by |-> "step_budget_guard",
                             call |-> NoCall])
  /\ phase' = "build"
  /\ UNCHANGED <<lead, configured, stepCount, pending, calls, sources, ctx, evidence,
                 progress, case>>

ValidationFails ==
  /\ phase = "validate"
  /\ pending \notin ValidCalls
  /\ Finish("ESCALATE", "validation")
  /\ UNCHANGED <<lead, configured, stepCount, pending, calls, sources, ctx, evidence,
                 progress, case>>

(* Fault: a repeated call is skipped and does not use up a step. *)
RepeatedCallRefunded ==
  /\ phase = "validate"
  /\ pending \in ValidCalls
  /\ pending \in calls
  /\ stepCount' = stepCount - 1
  /\ phase' = "select"
  /\ UNCHANGED <<lead, configured, pending, calls, sources, ctx, evidence, progress, steps,
                 case>>

RepeatedCall ==
  /\ phase = "validate"
  /\ pending \in ValidCalls
  /\ pending \in calls
  /\ Finish("ESCALATE", "repeated_call")
  /\ UNCHANGED <<lead, configured, stepCount, pending, calls, sources, ctx, evidence,
                 progress, case>>

(* Fault: the call key is not looked up. *)
AdmitAnything ==
  /\ phase = "validate"
  /\ pending \in ValidCalls
  /\ calls' = calls \cup {pending}
  /\ phase' = "execute"
  /\ UNCHANGED <<lead, configured, stepCount, pending, sources, ctx, evidence, progress,
                 steps, case>>

Admit ==
  /\ phase = "validate"
  /\ pending \in ValidCalls
  /\ pending \notin calls
  /\ calls' = calls \cup {pending}
  /\ phase' = "execute"
  /\ UNCHANGED <<lead, configured, stepCount, pending, sources, ctx, evidence, progress,
                 steps, case>>

-----------------------------------------------------------------------------
(* An exception in a repository comes back as an error envelope, whichever
   the tool; so does an exposure whose root is no transaction. *)
ToolError ==
  /\ phase = "execute"
  /\ Finish("ESCALATE", "tool_error")
  /\ UNCHANGED <<lead, configured, stepCount, pending, calls, sources, ctx, evidence,
                 progress, case>>

UnknownRoot ==
  /\ phase = "execute"
  /\ pending.tool = "calculate_exposure"
  /\ pending.root \notin Transactions
  /\ Finish("ESCALATE", "unknown_root")
  /\ UNCHANGED <<lead, configured, stepCount, pending, calls, sources, ctx, evidence,
                 progress, case>>

(* What every successful tool call does with its result: note the sources,
   materialize the records that are new, and see whether it got anywhere. *)
Reduce(newCtx, found, records) ==
  /\ ctx' = newCtx
  /\ sources' = sources \cup found
  /\ evidence' = evidence \cup Fresh(records)
  /\ progress' = \/ Fresh(records) # {}
                 \/ ~(found \subseteq sources)
                 \/ newCtx.hypothesis # ctx.hypothesis
  /\ phase' = "decide"
  /\ UNCHANGED <<lead, configured, stepCount, pending, calls, steps, case>>

(* _materialize_linked_payment_invoice: the payment the trail settles and
   the invoice it pays. *)
LinkedRecords(payment) ==
  IF payment \notin Payments THEN {}
  ELSE {Record("PMT", payment, "CORROBORATING")}
         \cup (IF InvoiceOf[payment] = None THEN {}
               ELSE {Record("INV", InvoiceOf[payment], "CORROBORATING")})

(* The whole trail is noted as seen, only its focus becomes evidence. *)
TraceFunds ==
  /\ phase = "execute"
  /\ pending.tool = "trace_outgoing_funds"
  /\ LET trail   == TrailOf(pending.account, pending.depth, ctx.root)
         payment == IF trail.payment = None THEN ctx.payment ELSE trail.payment
         linked  == LinkedRecords(payment)
     IN IF trail.found = {}
        THEN Reduce([ctx EXCEPT !.empty_trace = TRUE], {}, {})
        ELSE Reduce([ctx EXCEPT !.focus = trail.focus,
                                !.root = trail.root,
                                !.payment = payment,
                                !.returned = IF trail.returned = None THEN @
                                             ELSE trail.returned,
                                !.rfcs = trail.rfcs,
                                !.hypothesis = Hypothesis("trail",
                                  SubSeq(trail.focus, 1,
                                    IF Len(trail.focus) < 3 THEN Len(trail.focus) ELSE 3))],
                    {Source("TX", t) : t \in trail.found} \cup {r.source : r \in linked},
                    {Record("TX", t, "DIRECT") : t \in FocusSet(trail)} \cup linked)

(* Every RFC asked about becomes a counterparty record, known or not. *)
InspectCounterparties ==
  /\ phase = "execute"
  /\ pending.tool = "inspect_counterparties"
  /\ LET asked == {r \in Rfcs : pending.tally[r] > 0}
     IN Reduce([ctx EXCEPT !.hypothesis = Hypothesis("counterparties", ctx.rfcs)],
               {Source("ENTITY", r) : r \in asked \cap Entities}
                 \cup {Source("PROVIDER", r) : r \in asked \cap Providers},
               {Record("CPTY", r, "CORROBORATING") : r \in asked})

InspectInvoices ==
  /\ phase = "execute"
  /\ pending.tool = "inspect_invoices"
  /\ Reduce(ctx, {Source("INV", i) : i \in IssuedBy[pending.rfc]},
            {Record("INV", i, "CORROBORATING") : i \in IssuedBy[pending.rfc]})

CheckRegulatoryStatus ==
  /\ phase = "execute"
  /\ pending.tool = "check_regulatory_status"
  /\ Reduce(ctx, {Source("PROVIDER", r) : r \in {pending.rfc} \cap Providers},
            {Record("EFOS", pending.rfc, "CIRCUMSTANTIAL")})

(* Fault: the returning hop is added to the root. *)
RootFlowExposureAddsHops(root, returned) ==
  LET back == IF returned \in Transactions THEN AmountOf[returned] ELSE 0
  IN [supported |-> AmountOf[root] + back, net |-> AmountOf[root]]

(* ExposureCalculator.calculate_root_flow_exposure: the root alone, less
   what came back. *)
RootFlowExposure(root, returned) ==
  LET back == IF returned \in Transactions THEN AmountOf[returned] ELSE 0
  IN [supported |-> AmountOf[root],
      net |-> IF back < AmountOf[root] THEN AmountOf[root] - back ELSE 0]

CalculateExposure ==
  /\ phase = "execute"
  /\ pending.tool = "calculate_exposure"
  /\ pending.root \in Transactions
  /\ LET exposure == RootFlowExposure(pending.root, pending.returned)
     IN Reduce([ctx EXCEPT !.root = pending.root,
                           !.exposure = exposure,
                           !.hypothesis = Hypothesis("exposure",
                                            <<pending.root, pending.returned>>)],
               {Source("TX", t) : t \in {pending.root, pending.returned} \cap Transactions},
               {Record("EXPOSURE", pending.root, "DIRECT")})

-----------------------------------------------------------------------------
(* Fault: progress is looked at before anything else. *)
DecisionFollowsProgress ==
  IF progress THEN "FOLLOW"
  ELSE IF ctx.empty_trace THEN "DISCARD"
  ELSE IF pending.tool = "calculate_exposure" /\ ctx.exposure # None THEN "CONCLUDE"
  ELSE "ESCALATE"

(* _decide_step. *)
Decision ==
  IF ctx.empty_trace THEN "DISCARD"
  ELSE IF pending.tool = "calculate_exposure" /\ ctx.exposure # None THEN "CONCLUDE"
  ELSE IF ~progress THEN "ESCALATE"
  ELSE IF NextDeterministicAction(stepCount + 1) # NoCall THEN "FOLLOW"
  ELSE IF ctx.exposure = None /\ ctx.focus = << >> THEN "DISCARD"
  ELSE "CONCLUDE"

Follow ==
  /\ phase = "decide"
  /\ Decision = "FOLLOW"
  /\ steps' = Append(steps, [decision |-> "FOLLOW", by |-> "tool", call |-> pending])
  /\ phase' = "select"
  /\ UNCHANGED <<lead, configured, stepCount, pending, calls, sources, ctx, evidence,
                 progress, case>>

Settle ==
  /\ phase = "decide"
  /\ Decision # "FOLLOW"
  /\ Finish(Decision, "tool")
  /\ UNCHANGED <<lead, configured, stepCount, pending, calls, sources, ctx, evidence,
                 progress, case>>

(* collector.evaluate_finding: one DIRECT record supports the finding. *)
Outcome ==
  IF \E e \in evidence : e.strength = "DIRECT" THEN "SUPPORTED"
  ELSE IF evidence # {} THEN "INSUFFICIENT_EVIDENCE"
  ELSE "REJECTED"

(* _map_finding_to_case_fields: the terminal decision first, the evidence
   after it. *)
CaseStatus(terminal) ==
  IF terminal = "ESCALATE" THEN "INSUFFICIENT_EVIDENCE"
  ELSE IF terminal = "DISCARD" \/ ctx.empty_trace \/ Outcome = "REJECTED"
    THEN "UNSUBSTANTIATED"
  ELSE IF Outcome = "INSUFFICIENT_EVIDENCE" \/ ctx.exposure = None \/ ctx.root = None
    THEN "INSUFFICIENT_EVIDENCE"
  ELSE IF terminal = "CONCLUDE" THEN "SUBSTANTIATED"
  ELSE "UNSUBSTANTIATED"

BuildCase ==
  /\ phase = "build"
  /\ LET status == CaseStatus(steps[Len(steps)].decision)
         carries == ctx.exposure # None /\ status # "UNSUBSTANTIATED"
     IN case' = [status |-> status,
                 amount |-> IF carries THEN ctx.exposure.supported ELSE 0]
  /\ phase' = "done"
  /\ UNCHANGED <<lead, configured, stepCount, pending, calls, sources, ctx, evidence,
                 progress, steps>>

Done == phase = "done" /\ UNCHANGED vars

Execute ==
  \/ TraceFunds
  \/ InspectCounterparties
  \/ InspectInvoices
  \/ CheckRegulatoryStatus
  \/ CalculateExposure

Next ==
  \/ TimeBudgetGuard
  \/ StepBudgetGuard
  \/ SelectPlanned
  \/ SelectGemini
  \/ ValidationFails
  \/ RepeatedCall
  \/ Admit
  \/ ToolError
  \/ UnknownRoot
  \/ Execute
  \/ Follow
  \/ Settle
  \/ BuildCase
  \/ Done

(* The loop runs on the request's own thread: it keeps taking steps. *)
Spec == Init /\ [][Next]_vars /\ WF_vars(Next)

-----------------------------------------------------------------------------
EvidenceSources ==
  ({"TX"} \X Transactions) \cup ({"EXPOSURE"} \X Transactions)
    \cup ({"PMT"} \X Payments) \cup ({"INV"} \X Invoices)
    \cup ({"CPTY", "EFOS"} \X Rfcs)

Sources ==
  ({"TX"} \X Transactions) \cup ({"PMT"} \X Payments) \cup ({"INV"} \X Invoices)
    \cup ({"ENTITY", "PROVIDER"} \X Rfcs)

Strengths == {"DIRECT", "CORROBORATING", "CIRCUMSTANTIAL"}

Context ==
  [empty_trace : BOOLEAN, focus : Seq(Transactions), root : TxRefs \cup {None},
   returned : Transactions \cup {None}, payment : PaymentIds \cup {None},
   rfcs : Seq(Rfcs),
   hypothesis : [template : {"lead", "trail", "counterparties", "exposure"},
                 ids : Seq(TxRefs \cup Rfcs \cup {None})],
   exposure : Exposures \cup {None}]

Guards == {"validation", "repeated_call", "tool_error", "unknown_root",
           "time_budget_guard", "step_budget_guard"}

Step ==
  [decision : {"FOLLOW", "DISCARD", "ESCALATE", "CONCLUDE"}, by : {"tool"} \cup Guards,
   call : Calls \cup {NoCall}]

(* Every variable has the shape its Python counterpart is declared with. *)
TypeOK ==
  /\ lead \in Leads
  /\ configured \in BOOLEAN
  /\ phase \in {"select", "validate", "execute", "decide", "build", "done"}
  /\ stepCount \in 0..MaxSteps
  /\ pending \in Calls \cup {NoCall}
  /\ calls \subseteq ValidCalls
  /\ sources \subseteq Sources
  /\ ctx \in Context
  /\ evidence \subseteq [source : EvidenceSources, strength : Strengths]
  /\ progress \in BOOLEAN
  /\ steps \in Seq(Step)
  /\ case \in [status : {"PENDING", "SUBSTANTIATED", "UNSUBSTANTIATED",
                         "INSUFFICIENT_EVIDENCE"}, amount : Nat]

(* The timeline a reader sees: FOLLOW steps within the budget, one deciding
   step, and a verdict that agrees with it (docs/investigation/protocol.md). *)
Protocol == INSTANCE InvestigationProtocol
              WITH decisions <- [i \in DOMAIN steps |-> steps[i].decision],
                   verdict <- case.status

ImplementsProtocol == Protocol!Spec

(* A turn never finds the plan exhausted: `if planned is None: break` is
   unreachable, because a FOLLOW was only decided with a call still to
   make.  Taken, that break would end the loop without a deciding step. *)
PlanNeverRunsDry == AtTop => NextDeterministicAction(stepCount + 1) # NoCall

(* The steps whose call reached the tools. *)
Executed == {i \in DOMAIN steps : steps[i].by \in {"tool", "tool_error", "unknown_root"}}

(* No tool runs twice with the same arguments, whatever the model proposes. *)
NoCallRunsTwice == \A i, j \in Executed : i # j => steps[i].call # steps[j].call

OnRecord(kind, id) == \E e \in evidence : e.source = Source(kind, id)

(* A substantiated case carries the amount of one existing transaction, the
   root of its only exposure record, whatever calls the model chose: hops
   are never added up (docs/forensic-principles.md, section 3). *)
SubstantiatedAmountIsTheRoot ==
  case.status = "SUBSTANTIATED" =>
    /\ ctx.root \in Transactions
    /\ case.amount = AmountOf[ctx.root]
    /\ \A t \in Transactions : OnRecord("EXPOSURE", t) <=> t = ctx.root

(* Without the model, a lead with a usable root and one account per
   counterparty is always decided by what the tools found, never by running
   out of steps: the 69-B check is skipped when it would cost the exposure. *)
OfflinePlanDecides ==
  /\ phase = "done" /\ ~configured /\ MaxSteps >= 3
  /\ ctx.root # Ghost
  /\ \A r \in Rfcs : Times(ctx.rfcs, r) <= 1
  /\ \A i \in DOMAIN steps :
       steps[i].by \notin {"time_budget_guard", "tool_error", "validation"}
  => steps[Len(steps)].decision \in {"DISCARD", "CONCLUDE"}

(* Every investigation ends with a case: the loop is bounded. *)
Termination == <>(phase = "done")
=============================================================================
