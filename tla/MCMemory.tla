----------------------------- MODULE MCMemory ------------------------------
(***************************************************************************)
(* Instances of Memory for TLC. Slots and users are interchangeable where  *)
(* no liveness is checked. Of three texts the middle one is near both      *)
(* others, which are not near each other.                                  *)
(***************************************************************************)
EXTENDS Memory, TLC

MCAlike == {pair \in Texts \X Texts : pair[1] = pair[2] \/ "middle" \in {pair[1], pair[2]}}

MemorySymmetry == Permutations(Slots) \cup Permutations(Users)
============================================================================
