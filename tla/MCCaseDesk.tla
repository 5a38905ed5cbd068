----------------------------- MODULE MCCaseDesk ------------------------------
(* The desk after an investigation of the seed's lead, whose run collects
   evidence; the lead investigated next collects none. *)
EXTENDS CaseDesk, TLC

CONSTANTS cycle, control

MCLeads == {cycle, control}

MCStepsOf == (cycle :> 1) @@ (control :> 1)

MCEvidenced == {cycle}

(* The threads are alike. *)
Symmetry == Permutations(Threads)
=============================================================================
