--------------------------- MODULE CaseStoreDocs ---------------------------
(***************************************************************************)
(* What a document says of the case store and the code does not keep,      *)
(* stated over CaseStore; the run that refutes it shows the scenario.      *)
(***************************************************************************)
EXTENDS CaseStore

Answered(t) == pc[t] = "done" /\ op[t] = "start" /\ answer[t].verdict \in Verdicts

(* docs/challenge/plan-agente-consultoria.md: a persisted investigation is
   recovered exactly.  The read model answers for the whole case. *)
ReplayIsOfTheLead ==
  \A t \in Threads : Answered(t) /\ work[t] = None => answer[t].about = Lead(t)

(* postgres.py:665: "Do not reuse empty/failed shells - allow a fresh
   investigation."  A run that gives way to the result under its key gives
   way to one with evidence, unless it found none itself. *)
FreshRunReplacesTheShell ==
  \A t \in Threads : pc[t] = "reread" /\ work[t].facts # {} =>
    \A i \in StoredAt(Key(t)) : results[i].facts # {}
=============================================================================
