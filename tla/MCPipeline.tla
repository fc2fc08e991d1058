---------------------------- MODULE MCPipeline ----------------------------
(***************************************************************************)
(* An instance of Pipeline for TLC: a target model that reads text and     *)
(* images, another profile that also hears audio, nothing that sees video. *)
(* Every branch of the routing check has a modality that takes it.         *)
(***************************************************************************)
EXTENDS Pipeline

MCTargetCapabilities     == {"text", "image"}
MCConfiguredCapabilities == {"text", "image", "audio"}
============================================================================
