------------------------------ MODULE Threat ------------------------------
(***************************************************************************)
(* The threat levels every scanner, worker and verdict speaks in           *)
(* (foundation/vocab/types.py), and what the stages do about them.         *)
(***************************************************************************)
ThreatLevel == {"none", "low", "medium", "high", "critical"}

ShouldBlock(threat) == threat \in {"high", "critical"}
ShouldWarn(threat)  == threat \in {"low", "medium"}
============================================================================
