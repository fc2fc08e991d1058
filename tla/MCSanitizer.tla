---------------------------- MODULE MCSanitizer ----------------------------
(***************************************************************************)
(* Instances of Sanitizer for TLC. Turns are interchangeable where no      *)
(* liveness is checked and no payload hangs (the Claim configurations).    *)
(***************************************************************************)
EXTENDS Sanitizer, TLC

TurnSymmetry == Permutations(Turns)
============================================================================
