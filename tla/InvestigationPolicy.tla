------------------------- MODULE InvestigationPolicy -------------------------
(***************************************************************************)
(* What the repository's documents ask of a finished investigation, beyond *)
(* the protocol: the minimum evidence of agent/policy/v1.md, which the     *)
(* fixed plan keeps and a model that strays from it need not.              *)
(***************************************************************************)
EXTENDS Investigator

Substantiated == case.status = "SUBSTANTIATED"

(* Offline, a substantiated case cites every transfer of the trail it
   narrows to, and no counterparty was left without a look at the registry:
   the exposure comes last in the plan. *)
OfflineCitesTheTrail ==
  Substantiated /\ ~configured =>
    /\ ctx.focus # << >>
    /\ \A i \in DOMAIN ctx.focus : OnRecord("TX", ctx.focus[i])
    /\ \A i \in DOMAIN ctx.rfcs : OnRecord("CPTY", ctx.rfcs[i])
=============================================================================
