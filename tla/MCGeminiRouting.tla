--------------------------- MODULE MCGeminiRouting ---------------------------
(* GeminiRouting with two request threads and two projects whose session
   budgets together exceed the hard stop by one call. *)
EXTENDS GeminiRouting

MCProviders == {"project-a", "project-b"}
MCRank == [p \in MCProviders |-> IF p = "project-a" THEN 1 ELSE 2]
MCSessionCap == [p \in MCProviders |-> 2]
=============================================================================
