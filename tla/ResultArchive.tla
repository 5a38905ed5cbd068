--------------------------- MODULE ResultArchive ---------------------------
(***************************************************************************)
(* What the store promises about investigation results: a result is put    *)
(* away whole, once per lead and dataset, is never touched again, and      *)
(* leaves only together with all the others.                               *)
(***************************************************************************)
CONSTANT SeedResults   \* those the demo's seed file brings along

VARIABLE archive

(* One run wrote the timeline, a finding goes with a supported thread, and
   a supported thread has the two pieces of evidence it needs. *)
Sound(r) ==
  /\ \A i, j \in DOMAIN r.steps : r.steps[i] = r.steps[j]
  /\ r.finding <=> r.status = "SUPPORTED"
  /\ r.finding => \E f, g \in r.facts : f # g

Init == archive \in {{}, SeedResults}

(* One sound result is added under a key of its own. *)
Record ==
  \E r \in archive' :
    /\ archive' = archive \cup {r}
    /\ Sound(r)
    /\ \A old \in archive : <<old.lead, old.fp>> # <<r.lead, r.fp>>

Forget == archive' = {}

Reload == archive = {} /\ archive' = SeedResults

Next == Record \/ Forget \/ Reload

Spec == Init /\ [][Next]_archive
=============================================================================
