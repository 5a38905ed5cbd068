------------------------ MODULE InvestigationProtocol ------------------------
(***************************************************************************)
(* What an investigation promises to whoever reads its timeline, whatever  *)
(* the plan, the model and the tools do: a run of FOLLOW decisions no      *)
(* longer than the step budget, one deciding step, then one verdict that   *)
(* agrees with that step.                                                  *)
(***************************************************************************)
EXTENDS Naturals, Sequences

CONSTANTS MaxSteps   \* settings.max_investigation_steps

VARIABLES
  decisions,  \* the decision of every recorded step, in order
  verdict     \* "PENDING", then the status of the case

vars == <<decisions, verdict>>

Terminal == {"DISCARD", "ESCALATE", "CONCLUDE"}

Verdicts == {"SUBSTANTIATED", "UNSUBSTANTIATED", "INSUFFICIENT_EVIDENCE"}

(* Only a CONCLUDE leaves room for judgement. *)
VerdictsFor(decision) ==
  CASE decision = "ESCALATE" -> {"INSUFFICIENT_EVIDENCE"}
    [] decision = "DISCARD"  -> {"UNSUBSTANTIATED"}
    [] decision = "CONCLUDE" -> Verdicts

Decided == decisions # << >> /\ decisions[Len(decisions)] \in Terminal

Init == decisions = << >> /\ verdict = "PENDING"

Follow ==
  /\ ~Decided
  /\ Len(decisions) < MaxSteps
  /\ decisions' = Append(decisions, "FOLLOW")
  /\ UNCHANGED verdict

Decide(decision) ==
  /\ ~Decided
  /\ Len(decisions) <= MaxSteps
  /\ Len(decisions) = MaxSteps => decision = "ESCALATE"
  /\ decisions' = Append(decisions, decision)
  /\ UNCHANGED verdict

Report ==
  /\ Decided
  /\ verdict = "PENDING"
  /\ verdict' \in VerdictsFor(decisions[Len(decisions)])
  /\ UNCHANGED decisions

Next == Follow \/ (\E decision \in Terminal : Decide(decision)) \/ Report

Spec == Init /\ [][Next]_vars
=============================================================================
