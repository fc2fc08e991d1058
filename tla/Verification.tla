--------------------------- MODULE Verification ---------------------------
(***************************************************************************)
(* The hand-off between the normalizer and the verifier, as operators:     *)
(* what normalize_payload builds (core/normalizer/builders.py), which      *)
(* structural checks it must survive (core/verifier/checks.py), and how    *)
(* the verdict of the verifier model is repaired and merged                *)
(* (core/verifier/agent.py).                                               *)
(*                                                                         *)
(* Text is abstracted to whether there is any left after decoding and      *)
(* canonicalization: "none" is Python's None, "empty" the empty string.    *)
(***************************************************************************)
EXTENDS Threat

CONSTANTS
  TargetCapabilities,     \* what the orchestrator's model declares (models.yaml)
  ConfiguredCapabilities  \* what at least one configured profile declares

\* The target profile is itself one of the configured profiles.
ASSUME CapabilitiesAssumption ==
  TargetCapabilities \subseteq ConfiguredCapabilities

Modality         == {"text", "pdf", "image", "audio", "video"}
TextModalities   == {"text", "pdf"}
NativeModalities == Modality \ TextModalities

---------------------------------------------------------------------------
\* Normalizer

Supports(capability) == capability \in TargetCapabilities

NormalizedInput ==
  [modality : Modality, content : {"none", "empty", "text"}, native : BOOLEAN,
   preserved_native : BOOLEAN, requires_expert : BOOLEAN,
   required_capability : Modality \cup {"none"}]

NormalizedText(modality, text) ==
  [modality |-> modality, content |-> text, native |-> FALSE,
   preserved_native |-> FALSE, requires_expert |-> FALSE,
   required_capability |-> "none"]

PreserveNative(modality) ==
  [modality |-> modality, content |-> "none", native |-> TRUE,
   preserved_native |-> TRUE, requires_expert |-> FALSE,
   required_capability |-> "none"]

RequiresExpert(modality, capability) ==
  [modality |-> modality, content |-> "none", native |-> TRUE,
   preserved_native |-> FALSE, requires_expert |-> TRUE,
   required_capability |-> capability]

\* Mutant of NormalizePayload: a PDF without text goes on as text.
NormalizeTextlessPdf(modality, text) ==
  CASE modality \in TextModalities         -> NormalizedText(modality, text)
    [] modality \in NativeModalities /\ Supports(modality)
                                           -> PreserveNative(modality)
    [] OTHER                               -> RequiresExpert(modality, modality)

\* text is what decoding or PDF extraction leaves: "empty" or "text".
NormalizePayload(modality, text) ==
  CASE modality = "text"                   -> NormalizedText("text", text)
    [] modality = "pdf" /\ text = "text"   -> NormalizedText("pdf", text)
    [] modality = "pdf" /\ text # "text"   -> RequiresExpert("pdf", "image")
    [] modality \in NativeModalities /\ Supports(modality)
                                           -> PreserveNative(modality)
    [] OTHER                               -> RequiresExpert(modality, modality)

---------------------------------------------------------------------------
\* Verifier: deterministic checks

\* verification_result: the fields of VerificationResult a later step reads.
\* ran says whether the model adjudicated (metadata["llm_verifier"]).
Verdict(proceed, dangerous, warn, threat, ran) ==
  [proceed |-> proceed, dangerous |-> dangerous, warn |-> warn,
   threat |-> threat, ran |-> ran]

VerificationResult ==
  [proceed : BOOLEAN, dangerous : BOOLEAN, warn : BOOLEAN,
   threat : ThreatLevel, ran : BOOLEAN]

HasText(n) == n.content = "text"        \* Python truth of normalized.content

\* The shapes on which verify_handoff raises VerifierError.
HandoffFault(n) ==
  \/ n.preserved_native /\ n.requires_expert
  \/ n.modality \in TextModalities /\ ~HasText(n) /\ ~n.requires_expert
  \/ n.modality \in NativeModalities /\ ~n.native
  \/ n.requires_expert /\ n.required_capability = "none"
  \/ ~HasText(n) /\ ~n.native

\* ... and those on which verify_routing does; text modalities return early.
RoutingFault(n) ==
  /\ n.modality \notin TextModalities
  /\ \/ n.preserved_native /\ ~Supports(n.modality)
     \/ n.requires_expert /\ Supports(n.modality)

\* verify_routing answers with a block when nothing configured can help.
RoutingBlocks(n) ==
  /\ n.modality \notin TextModalities
  /\ n.requires_expert
  /\ n.required_capability \notin ConfiguredCapabilities

VerifierFault(n) == HandoffFault(n) \/ RoutingFault(n)

\* verify_deterministic, where it does not raise. The regex scan is a hint
\* and always proceeds, so both of its outcomes are the same verdict.
VerifyDeterministic(n) ==
  IF RoutingBlocks(n) THEN Verdict(FALSE, FALSE, FALSE, "high", FALSE)
                      ELSE Verdict(TRUE, FALSE, FALSE, "none", FALSE)

---------------------------------------------------------------------------
\* Verifier: the model's verdict

LLMResult ==
  [proceed : BOOLEAN, dangerous : BOOLEAN, warn : BOOLEAN, threat : ThreatLevel]

\* _coerce_consistent_llm_result, then _merge_result: routing comes from the
\* deterministic result, the decision from the repaired model output.
CoerceConsistent(r) ==
  CASE ShouldBlock(r.threat) -> Verdict(FALSE, TRUE, FALSE, r.threat, TRUE)
    [] ShouldWarn(r.threat)  -> Verdict(TRUE, FALSE, TRUE, r.threat, TRUE)
    [] r.threat = "none" /\ (r.dangerous \/ ~r.proceed)
                             -> Verdict(FALSE, TRUE, FALSE, "high", TRUE)
    [] OTHER                 -> Verdict(TRUE, FALSE, FALSE, "none", TRUE)

\* Which inputs verifier.run sends to the model after the structural checks.
NeedsModel(n) ==
  n.modality \in TextModalities /\ HasText(n) /\ VerifyDeterministic(n).proceed

\* The verdicts verifier.run can store for n when nothing faults.
Verdicts(n) ==
  IF NeedsModel(n) THEN {CoerceConsistent(r) : r \in LLMResult}
                   ELSE {VerifyDeterministic(n)}

\* _block_reason, from categories: the routing check names its own, those of
\* the model are free.
BlockReasons(v) ==
  IF v.ran THEN {"unsupported_modality", "injection_detected", "verifier_rejected"}
           ELSE {"unsupported_modality"}

VerdictBlocks(v) == ~v.proceed \/ v.dangerous \/ ShouldBlock(v.threat)

VerdictWarns(v)  == v.warn \/ ShouldWarn(v.threat)
============================================================================
