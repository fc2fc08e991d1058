---------------------------- MODULE MCYaraRules ----------------------------
(***************************************************************************)
(* The instance of YaraRules for TLC: two threads and two rule files. No   *)
(* symmetry, as the run checks liveness.                                   *)
(***************************************************************************)
EXTENDS YaraRules
============================================================================
