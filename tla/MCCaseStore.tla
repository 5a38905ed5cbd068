---------------------------- MODULE MCCaseStore ----------------------------
(***************************************************************************)
(* CaseStore with two leads, the second raised by the injected scenario    *)
(* only, and one file of each kind.                                        *)
(***************************************************************************)
EXTENDS CaseStoreDocs

KeysOnly == {"cycle", "passthrough"}

WithDisplayId == KeysOnly \cup {"L001"}

MCSeedNames == Names \cap {"L001"}

MCLeadOf == [n \in Names |-> IF n = "L001" THEN "cycle" ELSE n]

MCFactsOf == [f \in {"demo", "hidden", "upload"} |->
                CASE f = "demo" -> {"root", "return"}
                  [] f = "hidden" -> {"hop"}
                  [] f = "upload" -> {}]

MCRaises == [f \in {"demo", "hidden", "upload"} |->
               CASE f = "demo" -> {"cycle"}
                 [] f = "hidden" -> {"passthrough"}
                 [] f = "upload" -> {}]

Outcome(verdict, facts, steps) == [verdict |-> verdict, facts |-> facts, steps |-> steps]

(* A supported round trip, a weak one, a branch that leads nowhere, a shell. *)
MCOutcomes ==
  {Outcome("SUBSTANTIATED", {"root", "return"}, 2),
   Outcome("SUBSTANTIATED", {"root"}, 1),
   Outcome("UNSUBSTANTIATED", {"hop"}, 1),
   Outcome("INSUFFICIENT_EVIDENCE", {}, 1)}
=============================================================================
