---------------------------- MODULE MCHydration ----------------------------
(***************************************************************************)
(* Instances of Hydration for TLC: three tiers with the floors of the      *)
(* code (a quarter for the wiki, 15% for the others) and hits that fit a   *)
(* floor, a share, or nothing. Scores are in tenths.                       *)
(***************************************************************************)
EXTENDS Hydration

MCSearched == {"wiki", "semantic", "episodic"}
MCFloor == [t \in MCSearched |-> IF t = "wiki" THEN 25 ELSE 15]

MCHits == [score : {0, 3, 8}, cost : {2, 7}]

\* Cosine similarity is negative for opposite vectors.
MCOppositeHits == [score : {-6, 8}, cost : {7}]
============================================================================
