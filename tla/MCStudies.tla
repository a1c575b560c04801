----------------------------- MODULE MCStudies -----------------------------
(***************************************************************************)
(* Bounded instance of Studies: steps of one or two experts and one wider  *)
(* than the cache; a second layer that is used little, and one whose       *)
(* reuse comes late (a histogram that is not concave).                     *)
(***************************************************************************)
EXTENDS Studies

MCRankings == {<<3, 1, 0, 2>>}
MCSteps == kSubset(1, Experts) \cup kSubset(2, Experts) \cup {{0, 2, 3}}
MCSingles == kSubset(1, Experts)
MCBatches == <<1, 2>>
MCOtherHists == {[d \in 0 .. 5 |-> IF d = 3 THEN 3 ELSE 0],
                 [d \in 0 .. 5 |-> IF d \in {1, 2} THEN d ELSE 0]}
============================================================================
