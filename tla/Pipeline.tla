----------------------------- MODULE Pipeline -----------------------------
(***************************************************************************)
(* core/pipeline.py and its seven stages: the way of every user turn from  *)
(* the raw input to the delivered answer, through Flow.chain. Turns of one *)
(* user run concurrently and meet in that user's episodic memory.          *)
(*                                                                         *)
(* A stage is one action, except the orchestrator, which awaits in ways    *)
(* another turn can observe: it reads memory, produces a draft and has a   *)
(* thread store the memory of the turn. The thread is not cancelled with   *)
(* the task that awaits it: a turn interrupted meanwhile is stored all the *)
(* same. What the outside decides (rate limiter, scanners, models, the     *)
(* memory service) is a choice in the action; every stage can also raise,  *)
(* which its last except clause turns into a fail. A stage may also never  *)
(* return: no fairness is assumed.                                         *)
(***************************************************************************)
EXTENDS Naturals, Flow, Verification

CONSTANTS
  Turns,          \* user turns of one user
  MaxInputSize,   \* MAX_INPUT_SIZE_BYTES
  None            \* Python's None

FilterResult == [proceed : BOOLEAN, blocked : BOOLEAN]

ASSUME PipelineAssumption ==
  /\ MaxInputSize \in Nat \ {0}
  /\ None \notin NormalizedInput \cup VerificationResult \cup FilterResult

VARIABLES
  pc,       \* the step of the stage chain each turn is at
  flow,     \* the current Flow of each turn
  ctx,      \* the VrakshaContext of each turn
  memory,   \* the turns of which an episodic memory has been stored
  writing   \* where the thread stands that stores the memory of each turn

vars == <<pc, flow, ctx, memory, writing>>

\* The steps of a turn: a stage each, "recording" being the memory write at
\* the end of the orchestrator stage and "thinking" the loop before it.
Steps == {"start", "intake", "sanitizer", "normalizer", "verifier",
          "orchestrator", "thinking", "recording", "filter", "delivery",
          "done", "interrupted"}

---------------------------------------------------------------------------
\* What a caller may hand to intake.

Input ==
  [shape    : {"str", "bytes", "path", "object"},
   readable : BOOLEAN,                     \* a path that can be stat-ed
   size     : 0 .. MaxInputSize + 1,
   mime     : Modality \cup {"unsupported", "undetectable"}]

\* _input_size_bytes and _detect_modality raise these as InputErrors.
SizeUnknown(i) ==
  \/ i.shape = "object"
  \/ i.shape = "path" /\ ~i.readable
Detected(i)    == IF i.shape = "str" THEN "text" ELSE i.mime

\* Mutant of Refusal: libmagic's failure is not caught.
RefusalOfSized(i) ==
  IF SizeUnknown(i) \/ i.size = 0     THEN "malformed_input"
  ELSE IF i.size > MaxInputSize       THEN "input_too_large"
  ELSE IF Detected(i) = "unsupported" THEN "unsupported_modality"
  ELSE "none"

\* The reason intake blocks i for once the rate limit let it pass.
Refusal(i) ==
  IF SizeUnknown(i) \/ i.size = 0      THEN "malformed_input"
  ELSE IF i.size > MaxInputSize        THEN "input_too_large"
  ELSE IF Detected(i) = "undetectable" THEN "malformed_input"
  ELSE IF Detected(i) = "unsupported"  THEN "unsupported_modality"
  ELSE "none"

NewContext ==
  [current_stage |-> "intake", modality |-> "none",
   sanitization |-> "none", sanitization_blocked |-> FALSE,
   normalized_input |-> None, verifier_result |-> None,
   verifier_blocked |-> FALSE, hydration_items |-> {},
   orchestrator_response |-> FALSE, memory_writes_requested |-> FALSE,
   filter_result |-> None, filter_blocked |-> FALSE,
   final_response |-> FALSE,
   blocked |-> FALSE, block_reason |-> "none",
   failed |-> FALSE, failure_error |-> "none"]

---------------------------------------------------------------------------
\* The chain: each stage's result replaces the flow, and Flow.then skips
\* every later stage once it should stop.

Following(step) ==
  CASE step = "start"        -> "intake"
    [] step = "intake"       -> "sanitizer"
    [] step = "sanitizer"    -> "normalizer"
    [] step = "normalizer"   -> "verifier"
    [] step = "verifier"     -> "orchestrator"
    [] step = "orchestrator" -> "thinking"
    [] step = "thinking"     -> "recording"
    [] step = "recording"    -> "filter"
    [] step = "filter"       -> "delivery"
    [] OTHER                 -> "done"

\* Mutant of Commit: the chain forgets to ask should_stop.
CommitUnconditionally(t, f, c) ==
  /\ flow' = [flow EXCEPT ![t] = f]
  /\ ctx'  = [ctx EXCEPT ![t] = c]
  /\ pc'   = [pc EXCEPT ![t] = Following(@)]

Commit(t, f, c) ==
  /\ flow' = [flow EXCEPT ![t] = f]
  /\ ctx'  = [ctx EXCEPT ![t] = c]
  /\ pc'   = [pc EXCEPT ![t] = IF ShouldStop(f) THEN "done" ELSE Following(@)]

\* Mutant of Blocks: a block that lets the chain go on.
BlocksAsWarning(t, c, reason, origin) ==
  Commit(t, FlowWarn(flow[t], origin), MarkBlocked(c, reason))

Blocks(t, c, reason, origin) ==
  Commit(t, FlowBlock(flow[t], origin), MarkBlocked(c, reason))

Fails(t, c, error, origin) ==
  Commit(t, FlowFail(flow[t], origin), MarkFailed(c, error))

\* pipeline.run: a new flow enters the chain.
Submit(t) ==
  /\ pc[t] = "start"
  /\ Commit(t, FlowNew("raw"), NewContext)
  /\ UNCHANGED <<memory, writing>>

---------------------------------------------------------------------------
\* intake.process

IntakeRateLimited(t) ==
  /\ pc[t] = "intake"
  /\ Blocks(t, ctx[t], "rate_limited", "intake")
  /\ UNCHANGED <<memory, writing>>

IntakeRefuse(t) ==
  /\ pc[t] = "intake"
  /\ \E i \in Input :
       /\ Refusal(i) # "none"
       /\ Blocks(t, ctx[t], Refusal(i), "intake")
  /\ UNCHANGED <<memory, writing>>

IntakeAdmit(t) ==
  /\ pc[t] = "intake"
  /\ \E i \in Input :
       /\ Refusal(i) = "none"
       /\ Commit(t, FlowNext(flow[t], "raw", "intake"),
                 Advance([ctx[t] EXCEPT !.modality = Detected(i)], "intake"))
  /\ UNCHANGED <<memory, writing>>

IntakeFault(t) ==
  /\ pc[t] = "intake"
  /\ Fails(t, ctx[t], "infrastructure", "intake")
  /\ UNCHANGED <<memory, writing>>

---------------------------------------------------------------------------
\* sanitizer.run: ClamAV and YARA first, then the worker of the modality.
\* (Intake always leaves one modality, so the branch for none is not here.)

Sanitizing(t) == Advance(ctx[t], "sanitizing")

PreSanitizationBlock(t) ==
  /\ pc[t] = "sanitizer"
  /\ Blocks(t, [Sanitizing(t) EXCEPT !.sanitization = "pre",
                                     !.sanitization_blocked = TRUE],
            "malicious_content", "sanitizer")
  /\ UNCHANGED <<memory, writing>>

\* An engine or a worker raises, or a worker or all of them time out.
SanitizerFault(t) ==
  /\ pc[t] = "sanitizer"
  /\ Fails(t, Sanitizing(t), "infrastructure", "sanitizer")
  /\ UNCHANGED <<memory, writing>>

WorkerReport(t) ==
  /\ pc[t] = "sanitizer"
  /\ \E threat \in ThreatLevel, rewritten \in BOOLEAN :
       LET report == [Sanitizing(t) EXCEPT !.sanitization = "report",
                        !.sanitization_blocked = ShouldBlock(threat)]
       IN \/ /\ ShouldBlock(threat)
             /\ Blocks(t, report, "malicious_content", "sanitizer")
          \/ /\ ~ShouldBlock(threat)
             /\ Commit(t, FlowNext(flow[t],
                                   IF rewritten THEN "sanitized" ELSE flow[t].payload,
                                   "sanitizer"),
                       report)
  /\ UNCHANGED <<memory, writing>>

---------------------------------------------------------------------------
\* normalizer.run: text says whether decoding or extraction leaves any.

Normalize(t) ==
  /\ pc[t] = "normalizer"
  /\ \E text \in {"empty", "text"} :
       Commit(t, FlowNext(flow[t], "normalized", "normalizer"),
              Advance([ctx[t] EXCEPT
                         !.normalized_input = NormalizePayload(ctx[t].modality, text)],
                      "normalizing"))
  /\ UNCHANGED <<memory, writing>>

NormalizerFault(t) ==
  /\ pc[t] = "normalizer"
  /\ Fails(t, ctx[t], "infrastructure", "normalizer")
  /\ UNCHANGED <<memory, writing>>

---------------------------------------------------------------------------
\* verifier.run

Verifying(t) == Advance(ctx[t], "verifying")

\* verify_handoff or verify_routing raises VerifierError.
VerifierHandoffFault(t) ==
  /\ pc[t] = "verifier"
  /\ VerifierFault(ctx[t].normalized_input)
  /\ Fails(t, Verifying(t), "handoff", "verifier")
  /\ UNCHANGED <<memory, writing>>

\* The model is unreachable, exhausts its retries or breaks its schema.
VerifierModelFault(t) ==
  /\ pc[t] = "verifier"
  /\ ~VerifierFault(ctx[t].normalized_input)
  /\ NeedsModel(ctx[t].normalized_input)
  /\ Fails(t, Verifying(t), "model", "verifier")
  /\ UNCHANGED <<memory, writing>>

Verify(t) ==
  /\ pc[t] = "verifier"
  /\ ~VerifierFault(ctx[t].normalized_input)
  /\ \E v \in Verdicts(ctx[t].normalized_input) :
       LET c == [Verifying(t) EXCEPT !.verifier_result = v,
                                     !.verifier_blocked = VerdictBlocks(v)]
       IN \/ /\ VerdictBlocks(v)
             /\ \E reason \in BlockReasons(v) : Blocks(t, c, reason, "verifier")
          \/ /\ ~VerdictBlocks(v) /\ VerdictWarns(v)
             /\ Commit(t, FlowWarn(Load(flow[t]), "verifier"), c)
          \/ /\ ~VerdictBlocks(v) /\ ~VerdictWarns(v)
             /\ Commit(t, FlowNext(flow[t], "normalized", "verifier"), c)
  /\ UNCHANGED <<memory, writing>>

---------------------------------------------------------------------------
\* orchestrator.run

\* run_loop hydrates first; a memory fault degrades to an empty package.
Hydrate(t) ==
  /\ pc[t] = "orchestrator"
  /\ \E items \in SUBSET memory :
       Commit(t, Load(flow[t]),
              Advance([ctx[t] EXCEPT !.hydration_items = items], "orchestrating"))
  /\ UNCHANGED <<memory, writing>>

\* The tool-driving agent answers: the draft and the proposal to remember it.
Draft(t) ==
  /\ pc[t] = "thinking"
  /\ Commit(t, flow[t],
            [ctx[t] EXCEPT !.orchestrator_response = TRUE,
                           !.memory_writes_requested = TRUE])
  /\ UNCHANGED <<memory, writing>>

\* wait_for expires, the agent fails closed at its cap, or a provider fails.
OrchestratorFault(t) ==
  /\ pc[t] \in {"orchestrator", "thinking"}
  /\ Fails(t, Advance(ctx[t], "orchestrating"), "infrastructure", "orchestrator")
  /\ UNCHANGED <<memory, writing>>

\* record_write_proposals: once the proposal is embedded and compared, store
\* .upsert runs in a thread of its own.
StoreMemory(t) ==
  /\ pc[t] = "recording"
  /\ writing[t] = "none"
  /\ writing' = [writing EXCEPT ![t] = "running"]
  /\ UNCHANGED <<pc, flow, ctx, memory>>

\* The thread ends, stored or not, whatever has become of the turn.
MemoryStored(t) ==
  /\ writing[t] = "running"
  /\ writing' = [writing EXCEPT ![t] = "over"]
  /\ memory' \in {memory, memory \cup {t}}
  /\ UNCHANGED <<pc, flow, ctx>>

\* Best effort: the stage goes on when the thread has ended, or when an await
\* before it raised or found no embeddings and dropped the proposal.
RecordProposals(t) ==
  /\ pc[t] = "recording"
  /\ writing[t] # "running"
  /\ Commit(t, FlowNext(flow[t], "draft", "orchestrator"), ctx[t])
  /\ UNCHANGED <<memory, writing>>

---------------------------------------------------------------------------
\* filter.run and delivery.run. The draft is there whenever they run.

Filter(t) ==
  /\ pc[t] = "filter"
  /\ \E r \in FilterResult :
       LET c == [Advance(ctx[t], "filtering") EXCEPT !.filter_result = r,
                                                     !.filter_blocked = ~r.proceed]
       IN \/ ~r.proceed /\ Blocks(t, c, "filter_rejected", "filter")
          \/ r.proceed /\ Commit(t, FlowNext(flow[t], "draft", "filter"), c)
  /\ UNCHANGED <<memory, writing>>

FilterFault(t) ==
  /\ pc[t] = "filter"
  /\ Fails(t, Advance(ctx[t], "filtering"), "model", "filter")
  /\ UNCHANGED <<memory, writing>>

Delivering(t) == [Advance(ctx[t], "output") EXCEPT !.final_response = TRUE]

Deliver(t) ==
  /\ pc[t] = "delivery"
  /\ Commit(t, FlowNext(flow[t], "final", "output"), Delivering(t))
  /\ UNCHANGED <<memory, writing>>

\* Printing raises after the final response has been set.
DeliveryFault(t) ==
  /\ pc[t] = "delivery"
  /\ Fails(t, Delivering(t), "infrastructure", "output")
  /\ UNCHANGED <<memory, writing>>

---------------------------------------------------------------------------
\* Mutant of Interrupt: an answer already printed is taken back.
InterruptLate(t) ==
  /\ pc[t] \notin {"start", "interrupted"}
  /\ pc' = [pc EXCEPT ![t] = "interrupted"]
  /\ UNCHANGED <<flow, ctx, memory, writing>>

\* The user interrupts the run: its task is abandoned at whatever it awaits. A
\* thread it awaited goes on.
Interrupt(t) ==
  /\ pc[t] \notin {"start", "done", "interrupted"}
  /\ pc' = [pc EXCEPT ![t] = "interrupted"]
  /\ UNCHANGED <<flow, ctx, memory, writing>>

Step(t) ==
  \/ IntakeRateLimited(t) \/ IntakeRefuse(t) \/ IntakeAdmit(t) \/ IntakeFault(t)
  \/ PreSanitizationBlock(t) \/ SanitizerFault(t) \/ WorkerReport(t)
  \/ Normalize(t) \/ NormalizerFault(t)
  \/ VerifierHandoffFault(t) \/ VerifierModelFault(t) \/ Verify(t)
  \/ Hydrate(t) \/ Draft(t) \/ OrchestratorFault(t) \/ RecordProposals(t)
  \/ Filter(t) \/ FilterFault(t)
  \/ Deliver(t) \/ DeliveryFault(t)

Init ==
  /\ pc     = [t \in Turns |-> "start"]
  /\ flow   = [t \in Turns |-> FlowNew("raw")]
  /\ ctx    = [t \in Turns |-> NewContext]
  /\ memory = {}
  /\ writing = [t \in Turns |-> "none"]

Next ==
  \E t \in Turns :
    Submit(t) \/ Step(t) \/ StoreMemory(t) \/ MemoryStored(t) \/ Interrupt(t)

Spec == Init /\ [][Next]_vars

---------------------------------------------------------------------------
\* Correctness

Context ==
  [current_stage : Stage, modality : Modality \cup {"none"},
   sanitization : {"none", "pre", "report"}, sanitization_blocked : BOOLEAN,
   normalized_input : NormalizedInput \cup {None},
   verifier_result : VerificationResult \cup {None},
   verifier_blocked : BOOLEAN, hydration_items : SUBSET Turns,
   orchestrator_response : BOOLEAN, memory_writes_requested : BOOLEAN,
   filter_result : FilterResult \cup {None}, filter_blocked : BOOLEAN,
   final_response : BOOLEAN,
   blocked : BOOLEAN,
   block_reason : {"none", "rate_limited", "malformed_input", "input_too_large",
                   "unsupported_modality", "malicious_content",
                   "injection_detected", "verifier_rejected", "filter_rejected"},
   failed : BOOLEAN,
   failure_error : {"none", "infrastructure", "handoff", "model"}]

FlowType ==
  [status : Status, payload : Payload, cached : BOOLEAN,
   journal : Seq([origin : Origin, status : Status])]

\* Every variable holds what its declaration says.
TypeOK ==
  /\ pc     \in [Turns -> Steps]
  /\ flow   \in [Turns -> FlowType]
  /\ ctx    \in [Turns -> Context]
  /\ memory \subseteq Turns
  /\ writing \in [Turns -> {"none", "running", "over"}]

\* No answer leaves a turn unless every gate of that turn passed on it: the
\* sanitizer's report is clean, the verifier let the input through and its
\* model adjudicated all text, and the filter approved the draft. The gates'
\* verdicts and the release are five stages apart, and delivery itself looks
\* at none of them.
GatesBeforeRelease ==
  \A t \in Turns : ctx[t].final_response =>
    /\ ctx[t].sanitization = "report" /\ ~ctx[t].sanitization_blocked
    /\ ctx[t].verifier_result # None
    /\ ~VerdictBlocks(ctx[t].verifier_result)
    /\ NeedsModel(ctx[t].normalized_input) => ctx[t].verifier_result.ran
    /\ ctx[t].filter_result # None /\ ctx[t].filter_result.proceed

BlockedAt(f, origin) ==
  f.journal[Len(f.journal)] = [origin |-> origin, status |-> "blocked"]

\* The immutable flow and the context all flows of the turn mutate never
\* disagree on how the turn stands, and a gate's own flag is up exactly when
\* the journal ends with a block by that gate.
StatusCoherent ==
  \A t \in Turns :
    LET f == flow[t]  c == ctx[t] IN
    /\ f.status = "blocked" <=> c.blocked
    /\ f.status = "error"   <=> c.failed
    /\ c.current_stage = "blocked" <=> c.blocked
    /\ c.current_stage = "failed"  <=> c.failed
    /\ c.sanitization_blocked <=> BlockedAt(f, "sanitizer")
    /\ c.verifier_blocked     <=> BlockedAt(f, "verifier")
    /\ c.filter_blocked       <=> BlockedAt(f, "filter")

\* Whatever the normalizer builds passes the verifier's checks, whichever
\* capabilities are configured, but for text that has nothing left after
\* canonicalization; and media that pass are either within the target model's
\* capabilities or left to an expert some configured profile can be. (PDFs are
\* not asked: ExpertCapabilityConfigured.)
HandoffCoherent ==
  \A t \in Turns :
    LET n == ctx[t].normalized_input IN
    /\ ctx[t].failure_error = "handoff" => n.modality = "text" /\ n.content = "empty"
    /\ (pc[t] = "orchestrator" /\ ~ShouldStop(flow[t]) /\ n.modality \notin TextModalities) =>
         IF n.preserved_native THEN Supports(n.modality)
         ELSE n.required_capability \in ConfiguredCapabilities

\* Memory holds answers only of turns the sanitizer and the verifier cleared,
\* and no turn is grounded in its own answer.
MemoryVetted ==
  /\ \A t \in memory :
       /\ ctx[t].orchestrator_response
       /\ ~ctx[t].sanitization_blocked
       /\ ctx[t].verifier_result # None
       /\ ~VerdictBlocks(ctx[t].verifier_result)
  /\ \A t \in Turns : t \notin ctx[t].hydration_items

\* A flow that must stop is final: no stage runs on it, and neither it nor
\* its context changes again (Flow.then).
StoppedIsFinal ==
  [][\A t \in Turns : ShouldStop(flow[t]) =>
       /\ flow'[t] = flow[t]
       /\ ctx'[t] = ctx[t]
       /\ t \in memory' <=> t \in memory]_vars

---------------------------------------------------------------------------
\* The pipeline implements Turn.

Outcome(t) ==
  CASE pc[t] = "interrupted" -> "abandoned"
    [] pc[t] = "done" /\ flow[t].status = "blocked" -> "blocked"
    [] pc[t] = "done" /\ flow[t].status = "error"   -> "failed"
    [] pc[t] = "done" /\ ~ShouldStop(flow[t])       -> "delivered"
    [] OTHER -> "running"

\* One gate per stage that handed the flow on; delivery is not a gate.
Cleared(t) ==
  LET entries == Len(flow[t].journal)
  IN IF ShouldStop(flow[t]) THEN entries - 2
     ELSE IF entries = 8    THEN 6
     ELSE entries - 1

Abstract == INSTANCE Turn WITH
  cleared    <- [t \in Turns |-> Cleared(t)],
  outcome    <- [t \in Turns |-> Outcome(t)],
  released   <- {t \in Turns : ctx[t].final_response},
  remembered <- memory

\* Every behaviour of the stages is one of the promise: gates in order, no
\* release before the last, ends that stay, memory only of a turn behind its
\* input gates that has not ended, unless it was abandoned.
TurnSpec == Abstract!Spec

---------------------------------------------------------------------------
\* Claims of the documentation, checked on their own

\* core/memory/ARCHITECTURE.md:105: "Writes happen post-delivery in the
\* pipeline order". The orchestrator stage writes, before the filter runs.
MemoryOnlyDelivered == \A t \in memory : ctx[t].final_response

\* security/filter/filter.py:7: "On block it stops the chain (delivery is
\* skipped)". The stage reads proceed and never the verdict's blocked field.
FilterBlockHonoured ==
  \A t \in Turns : ctx[t].final_response => ~ctx[t].filter_result.blocked

\* core/verifier/rules.py:117-119: structural problems "(unsupported modality,
\* missing capability) are still hard-blocked upstream". A PDF without text
\* requires the image capability, and verify_routing returns before it looks.
ExpertCapabilityConfigured ==
  \A t \in Turns :
    pc[t] = "orchestrator" /\ ctx[t].normalized_input.requires_expert
    => ctx[t].normalized_input.required_capability \in ConfiguredCapabilities
============================================================================
