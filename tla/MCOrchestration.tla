------------------------- MODULE MCOrchestration ---------------------------
(***************************************************************************)
(* Instances of Orchestration for TLC. Slots are interchangeable where no  *)
(* liveness is checked (the Claim configurations).                         *)
(***************************************************************************)
EXTENDS Orchestration, TLC

SlotSymmetry == Permutations(Slots)
============================================================================
