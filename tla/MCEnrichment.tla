------------------------------ MODULE MCEnrichment ------------------------------
(***************************************************************************)
(* Small instances of EnrichmentPages, and what the end-to-end tests say   *)
(* of the filters and the code does not do.                                *)
(***************************************************************************)
EXTENDS EnrichmentPages, TLC

CONSTANTS ann, bob   \* users who meet the same gap

MCAsks == {[user |-> u, description |-> "gap"] : u \in {ann, bob}}

MCChainTask == <<"chain", "gap", 0>>

MCChainItem == [user |-> "chain", description |-> "gap"]

\* The reports are alike, and so are the users.
Symmetry ==
  {p @@ q : p \in Permutations(Reports), q \in Permutations({ann, bob})}

\* frontend/tests/e2e/enrichment.spec.ts:69-72, "Switch to resolved": then the
\* open task is "not.toBeVisible()".  Once every call has been answered or has
\* failed, so that nothing will change the page any more, it shows the tasks of
\* the filter that is selected.
ShownIsSelected ==
  /\ \A i \in DOMAIN calls : calls[i].step = "settled"
  /\ ~loading /\ ~error /\ shown # 0
  => calls[shown].filter = filter
=============================================================================
