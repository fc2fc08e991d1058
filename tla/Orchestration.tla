--------------------------- MODULE Orchestration ---------------------------
(***************************************************************************)
(* One turn of the orchestrator: Capabilities.run_turn and what it drives. *)
(* The main agent asks its model, runs the capabilities the model calls    *)
(* (tools through ToolHandler, experts through ExpertHandler, in parallel) *)
(* and asks again; an expert is an agent of the same kind with tools of    *)
(* its own. Every agent runs under run_structured: a cap on model requests *)
(* and a bounded number of fresh attempts after transient errors. At the   *)
(* cap the turn is run once more without capabilities. The stage's timeout *)
(* can cancel all of it at any point.                                      *)
(*                                                                         *)
(* A slot is one of the capability calls of a model response; an agent is  *)
(* "main" or the slot its expert runs in. The backoff between attempts is  *)
(* left out: nothing of this turn runs during it. The tool calls an expert *)
(* makes in one response are taken one after the other.                    *)
(***************************************************************************)
EXTENDS Naturals, FiniteSets

CONSTANTS
  Slots,          \* parallel capability calls of one response
  MaxTurns,       \* ORCHESTRATOR_MAX_TURNS
  ExpertTurns,    \* EXPERT_MAX_TURNS
  MaxAttempts,    \* LLM_TRANSIENT_MAX_RETRIES + 1
  MaxConcurrent,  \* EXPERT_MAX_CONCURRENT
  Kinds,          \* the capabilities the registry offers
  Faults          \* what can go wrong in this instance

ASSUME OrchestrationAssumption ==
  /\ "main" \notin Slots /\ IsFiniteSet(Slots)
  /\ {MaxTurns, ExpertTurns, MaxAttempts, MaxConcurrent} \subseteq Nat \ {0}
  /\ Kinds \subseteq {"local", "network", "research", "writer"}
  /\ Faults \subseteq {"model", "capability", "timeout"}

Tools   == Kinds \cap {"local", "network"}
Experts == Kinds \cap {"research", "writer"}
Agents  == Slots \cup {"main"}

\* The tools an expert is granted: the writer has none.
Granted(kind) == IF kind = "research" THEN Tools ELSE {}

VARIABLES
  run,         \* "driving" with capabilities, or "forced" to answer without
  agent,       \* per agent, where it stands, its requests and its attempt
  call,        \* per slot, the capability call of the main agent
  nested,      \* per slot, the tool call of the expert running there
  permits,     \* the semaphore of ExpertHandler
  findings,    \* ctx.expert_findings, by ref
  known,       \* the refs the main agent's conversation holds
  \* histories:
  rounds,      \* tool rounds of the main agent in this turn
  learned,     \* refs the main agent was told since its attempt began
  unrecorded,  \* tool calls started and not recorded on ctx.tool_calls
  seen         \* what tool outputs some model was given

vars == <<run, agent, call, nested, permits, findings, known,
          rounds, learned, unrecorded, seen>>

histories == <<rounds, learned, unrecorded, seen>>

Off      == [phase |-> "off", requests |-> 0, attempt |-> 0]
Started  == [phase |-> "model", requests |-> 0, attempt |-> 1]
NoCall   == [kind |-> "none", place |-> "none", ref |-> 0, given |-> {}, materials |-> {}]
NoTool   == [kind |-> "none", place |-> "none"]

\* usage_limits_for_layer: requests of one attempt, the final answer included.
RequestLimit(a) ==
  IF a # "main" THEN ExpertTurns + 1
  ELSE IF run = "forced" THEN 2 ELSE MaxTurns + 1

---------------------------------------------------------------------------
\* How an agent's run ends

\* The experts at work, each inside the semaphore's block.
Running == {s \in Slots : call[s].kind \in Experts /\ call[s].place = "running"}

\* run_turn ended: the stage cancels or awaits whatever is still running, and
\* every expert that leaves its block gives its permit back.
MainEnds(phase) ==
  /\ agent' = [a \in Agents |-> IF a = "main" THEN [agent[a] EXCEPT !.phase = phase] ELSE Off]
  /\ call'   = [s \in Slots |-> NoCall]
  /\ nested' = [s \in Slots |-> NoTool]
  /\ permits' = permits + Cardinality(Running)
  /\ UNCHANGED <<run, findings, known, histories>>

\* Mutant of ReleasePermit: only an expert that succeeds gives its permit back.
KeepPermit == permits

ReleasePermit == permits + 1

\* ExpertHandler._run_one, failing: a record and a failed summary.
ExpertFails(s) ==
  /\ agent' = [agent EXCEPT ![s] = Off]
  /\ call' = [call EXCEPT ![s].place = "done"]
  /\ nested' = [nested EXCEPT ![s] = NoTool]
  /\ permits' = ReleasePermit
  /\ UNCHANGED <<run, findings, known, histories>>

\* ... and succeeding: findings and record in one step, then the summary.
NewRef == Cardinality(findings) + 1

ExpertAnswers(s) ==
  /\ agent' = [agent EXCEPT ![s] = Off]
  /\ findings' = findings \cup {NewRef}
  /\ call' = [call EXCEPT ![s].place = "done", ![s].ref = NewRef]
  /\ permits' = permits + 1
  /\ UNCHANGED <<run, nested, known, histories>>

---------------------------------------------------------------------------
\* A model request, for an agent below its cap

Asking(a)  == agent[a].phase = "model"
MayAsk(a)  == Asking(a) /\ agent[a].requests < RequestLimit(a)
Asked(a)   == [agent EXCEPT ![a].requests = @ + 1]

\* The model answers in the shape of its output type.
Answer(a) ==
  /\ MayAsk(a)
  /\ IF a = "main" THEN MainEnds("answered") ELSE ExpertAnswers(a)

\* Its answer does not validate: the framework asks again, on its budget. (An
\* expert that loads a skill spends a request the same way.)
Malformed(a) ==
  /\ "model" \in Faults
  /\ MayAsk(a)
  /\ agent' = Asked(a)
  /\ UNCHANGED <<run, call, nested, permits, findings, known, histories>>

\* The forced agent is built with no tools.
Offered == run = "driving"

\* The main model calls capabilities; a writer is handed refs.
CallCapabilities ==
  /\ MayAsk("main") /\ Offered
  /\ \E kinds \in [Slots -> Kinds \cup {"none"}] :
       /\ \E s \in Slots : kinds[s] # "none"
       /\ call' = [s \in Slots |->
            [kind |-> kinds[s], ref |-> 0, materials |-> {},
             place |-> CASE kinds[s] = "none"     -> "done"
                         [] kinds[s] \in Tools    -> "running"
                         [] kinds[s] \in Experts  -> "waiting",
             given |-> IF kinds[s] = "writer" THEN known ELSE {}]]
       /\ unrecorded' = unrecorded + Cardinality({s \in Slots : kinds[s] \in Tools})
  /\ agent' = [agent EXCEPT !["main"].phase = "tools", !["main"].requests = @ + 1]
  /\ rounds' = rounds + 1
  /\ UNCHANGED <<run, nested, permits, findings, known, learned, seen>>

\* The model of an expert calls a tool it was granted.
CallTool(s) ==
  /\ MayAsk(s)
  /\ \E kind \in Granted(call[s].kind) :
       nested' = [nested EXCEPT ![s] = [kind |-> kind, place |-> "running"]]
  /\ agent' = [agent EXCEPT ![s].phase = "tools", ![s].requests = @ + 1]
  /\ unrecorded' = unrecorded + 1
  /\ UNCHANGED <<run, call, permits, findings, known, rounds, learned, seen>>

\* run_agent starts the whole run over after a transient error.
Retry(a) ==
  /\ agent' = [agent EXCEPT ![a] = [phase |-> "model", requests |-> 0, attempt |-> @.attempt + 1]]
  /\ known'   = IF a = "main" THEN {} ELSE known
  /\ learned' = IF a = "main" THEN {} ELSE learned
  /\ UNCHANGED <<run, call, nested, permits, findings, rounds, unrecorded, seen>>

\* Mutant of TransientError: the budget of attempts is never used up.
TransientErrorUnbounded(a) ==
  /\ "model" \in Faults
  /\ MayAsk(a)
  /\ agent' = [agent EXCEPT ![a].requests = 0]
  /\ UNCHANGED <<run, call, nested, permits, findings, known, histories>>

TransientError(a) ==
  /\ "model" \in Faults
  /\ MayAsk(a)
  /\ \/ agent[a].attempt < MaxAttempts /\ Retry(a)
     \/ agent[a].attempt = MaxAttempts
        /\ IF a = "main" THEN MainEnds("failed") ELSE ExpertFails(a)

\* Any other failure, and malformed output beyond the framework's budget.
PermanentError(a) ==
  /\ "model" \in Faults
  /\ MayAsk(a)
  /\ IF a = "main" THEN MainEnds("failed") ELSE ExpertFails(a)

\* Mutant of ForceAnswer: the capped agent is simply run again.
DriveAgain ==
  /\ agent' = [agent EXCEPT !["main"] = Started]
  /\ known' = {}
  /\ UNCHANGED <<run, call, nested, permits, findings, histories>>

\* run_turn at the cap: a new agent without tools gets the user's prompt.
ForceAnswer ==
  /\ run' = "forced"
  /\ agent' = [agent EXCEPT !["main"] = Started]
  /\ known' = {}
  /\ UNCHANGED <<call, nested, permits, findings, histories>>

\* The framework refuses the request that would exceed the cap, and ends the
\* orchestrator's run when its output tokens exceed theirs.
Cap(a) ==
  /\ Asking(a)
  /\ \/ agent[a].requests = RequestLimit(a)
     \/ a = "main" /\ "model" \in Faults
  /\ IF a # "main" THEN ExpertFails(a)
     ELSE IF run = "driving" THEN ForceAnswer
     ELSE MainEnds("failed")

---------------------------------------------------------------------------
\* Capability calls

\* The main agent goes on when all the calls of its response have returned.
ToolsReturned ==
  /\ agent["main"].phase = "tools"
  /\ \A s \in Slots : call[s].place = "done"
  /\ LET refs == {call[s].ref : s \in Slots} \ {0}
     IN known' = known \cup refs /\ learned' = learned \cup refs
  /\ agent' = [agent EXCEPT !["main"].phase = "model"]
  /\ call' = [s \in Slots |-> NoCall]
  /\ UNCHANGED <<run, nested, permits, findings, rounds, unrecorded, seen>>

\* Mutant of Recorded: calls that fail leave no record.
RecordedIfAny(outputs) ==
  /\ unrecorded' = IF outputs = {} THEN unrecorded ELSE unrecorded - 1
  /\ seen' = seen \cup outputs

\* ToolHandler.call_tool has a record and hands output to the asking model.
Recorded(outputs) == unrecorded' = unrecorded - 1 /\ seen' = seen \cup outputs

MainToolDone(s, outputs) ==
  /\ call' = [call EXCEPT ![s].place = "done"]
  /\ Recorded(outputs)
  /\ UNCHANGED <<run, agent, nested, permits, findings, known, rounds, learned>>

NestedToolDone(s, outputs) ==
  /\ nested' = [nested EXCEPT ![s] = NoTool]
  /\ agent' = [agent EXCEPT ![s].phase = "model"]
  /\ Recorded(outputs)
  /\ UNCHANGED <<run, call, permits, findings, known, rounds, learned>>

\* The text of the failed record, which the asking model is told. What a tool
\* that reads the network raises carries text of the other side with it.
ErrorText(kind) == IF kind = "network" THEN {{}, {"error"}} ELSE {{}}

\* Unknown, refused, timed out or raising: a failed record and its error text.
ToolFails(s) ==
  /\ "capability" \in Faults
  /\ \/ /\ call[s].kind \in Tools /\ call[s].place = "running"
        /\ \E outputs \in ErrorText(call[s].kind) : MainToolDone(s, outputs)
     \/ /\ nested[s].place = "running"
        /\ \E outputs \in ErrorText(nested[s].kind) : NestedToolDone(s, outputs)

\* Mutant of NeedsScan: an expert's tools are trusted.
NeedsScanOfMain(kind, owner) == kind = "network" /\ owner = "main"

NeedsScan(kind, owner) == kind = "network"

\* The tool returns. Output of NETWORK tools is scanned before anyone sees it.
Unscanned(kind) == IF kind = "network" THEN {"raw"} ELSE {"local"}

ToolReturns(s) ==
  \/ /\ call[s].kind \in Tools /\ call[s].place = "running"
     /\ \/ /\ ~NeedsScan(call[s].kind, "main")
           /\ MainToolDone(s, Unscanned(call[s].kind))
        \/ /\ NeedsScan(call[s].kind, "main")
           /\ call' = [call EXCEPT ![s].place = "scanning"]
           /\ UNCHANGED <<run, agent, nested, permits, findings, known, histories>>
  \/ /\ nested[s].place = "running"
     /\ \/ /\ ~NeedsScan(nested[s].kind, s)
           /\ NestedToolDone(s, Unscanned(nested[s].kind))
        \/ /\ NeedsScan(nested[s].kind, s)
           /\ nested' = [nested EXCEPT ![s].place = "scanning"]
           /\ UNCHANGED <<run, agent, call, permits, findings, known, histories>>

\* _sanitize scans the strings of the output and replaces those that do not
\* pass. What lies below them, in its lists and dicts, it copies as it came.
Copied == {{}, {"nested"}}

Scanned(s) ==
  \E rest \in Copied :
    \/ /\ call[s].kind \in Tools /\ call[s].place = "scanning"
       /\ MainToolDone(s, {"scanned"} \cup rest)
    \/ nested[s].place = "scanning" /\ NestedToolDone(s, {"scanned"} \cup rest)

\* What call_tool does with an output is outside its try, for every tool: the
\* conversion, the scan and the cap raise into the agent's run.
HandlerRaises(s) ==
  /\ "capability" \in Faults
  /\ \/ /\ call[s].kind \in Tools /\ call[s].place \in {"running", "scanning"}
        /\ MainEnds("failed")
     \/ nested[s].place \in {"running", "scanning"} /\ ExpertFails(s)

\* A call of the same response whose arguments do not validate, its retries
\* used up, ends the run while the other calls are under way.
ArgumentsExhausted(a) ==
  /\ "model" \in Faults
  /\ agent[a].phase = "tools"
  /\ IF a = "main" THEN MainEnds("failed") ELSE ExpertFails(a)

\* Mutant of Packed: what was there when the gateway was opened.
PackedAtOpen == {}

\* _build_env: the findings buffered so far.
Packed == findings

\* _run_one gets its permit and packs the materials.
ExpertStarts(s) ==
  /\ call[s].place = "waiting" /\ permits > 0
  /\ permits' = permits - 1
  /\ call' = [call EXCEPT ![s].place = "running", ![s].materials = Packed]
  /\ agent' = [agent EXCEPT ![s] = Started]
  /\ UNCHANGED <<run, nested, findings, known, histories>>

\* Unknown or broken expert, bad arguments: it fails holding its permit.
ExpertRefused(s) ==
  /\ "capability" \in Faults
  /\ call[s].place = "waiting" /\ permits > 0
  /\ call' = [call EXCEPT ![s].place = "done"]
  /\ UNCHANGED <<run, agent, nested, permits, findings, known, histories>>

\* EXPERT_TIMEOUT_S: the expert and the tool call it awaits are cancelled.
ExpertTimeout(s) ==
  /\ "timeout" \in Faults
  /\ call[s].kind \in Experts /\ call[s].place = "running"
  /\ ExpertFails(s)

\* ORCHESTRATOR_TIMEOUT_S
TurnTimeout ==
  /\ "timeout" \in Faults
  /\ agent["main"].phase \in {"model", "tools"}
  /\ MainEnds("failed")

---------------------------------------------------------------------------

Init ==
  /\ run = "driving"
  /\ agent = [a \in Agents |-> IF a = "main" THEN Started ELSE Off]
  /\ call = [s \in Slots |-> NoCall]
  /\ nested = [s \in Slots |-> NoTool]
  /\ permits = MaxConcurrent
  /\ findings = {} /\ known = {}
  /\ rounds = 0 /\ learned = {} /\ unrecorded = 0 /\ seen = {}

\* What goes on by itself: models answer or fail, tools return or time out.
Progress ==
  \/ \E a \in Agents :
       \/ Answer(a) \/ Malformed(a) \/ TransientError(a) \/ PermanentError(a) \/ Cap(a)
       \/ ArgumentsExhausted(a)
  \/ CallCapabilities \/ ToolsReturned
  \/ \E s \in Slots :
       \/ CallTool(s) \/ ToolReturns(s) \/ ToolFails(s) \/ Scanned(s) \/ HandlerRaises(s)
       \/ ExpertStarts(s) \/ ExpertRefused(s)

Next == Progress \/ TurnTimeout \/ \E s \in Slots : ExpertTimeout(s)

\* Requests and tools are bounded by timeouts of their own; that the timeouts
\* of the turn and of experts strike is not assumed.
Spec == Init /\ [][Next]_vars /\ WF_vars(Progress)

---------------------------------------------------------------------------
\* Correctness

Place == {"none", "waiting", "running", "scanning", "done"}
Refs  == 0 .. Cardinality(Slots) * (MaxTurns + 1) * MaxAttempts

AgentState == [phase : {"off", "model", "tools", "answered", "failed"},
               requests : 0 .. MaxTurns + ExpertTurns + 1, attempt : 0 .. MaxAttempts]
CallState  == [kind : Kinds \cup {"none"}, place : Place, ref : Refs,
               given : SUBSET Refs, materials : SUBSET Refs]
ToolState  == [kind : Tools \cup {"none"}, place : Place]

TypeOK ==
  /\ run \in {"driving", "forced"}
  /\ agent \in [Agents -> AgentState]
  /\ call \in [Slots -> CallState]
  /\ nested \in [Slots -> ToolState]
  /\ permits \in 0 .. MaxConcurrent
  /\ findings \subseteq Refs /\ known \subseteq Refs /\ learned \subseteq Refs
  /\ rounds \in Nat /\ unrecorded \in Nat
  /\ seen \subseteq {"local", "raw", "scanned", "nested", "error"}

ExpertsBounded ==
  /\ Cardinality(Running) <= MaxConcurrent
  /\ permits + Cardinality(Running) = MaxConcurrent

\* No more experts run than EXPERT_MAX_CONCURRENT, and no permit is lost,
\* however experts end: answering, failing, timing out or cancelled; and every
\* variable has its type.
PermitInv == TypeOK /\ ExpertsBounded

\* A ref the orchestrator's model was told resolves: to a finding when it is
\* named as the deliverable (_resolve_deliverable, which then also wants that
\* finding to have content), and in the materials of
\* the writer it is handed to, which were packed after it was told.
RefsResolve ==
  /\ known \subseteq findings
  /\ \A s \in Running : call[s].given \subseteq call[s].materials

\* Invariant A, as far as the code keeps it: no model, of the orchestrator or
\* of an expert, is given a string a NETWORK tool returned that was not scanned.
\* It does not hold of what the tool nests deeper, nor of its error texts: see
\* the claim ExternalTextScanned.
ScannedBeforeReasoning == "raw" \notin seen

\* What really bounds a turn's tool use: one round more than the turn cap per
\* attempt (the response to the last request still runs its calls).
RoundsBounded == rounds <= (MaxTurns + 1) * MaxAttempts

InFlight ==
  Cardinality({s \in Slots : call[s].kind \in Tools /\ call[s].place \in {"running", "scanning"}})
  + Cardinality({s \in Slots : nested[s].place # "none"})

\* A step loses n calls: neither are they recorded nor still under way.
Loses(n) == unrecorded' + InFlight = unrecorded + InFlight' + n

\* A run ends while it waits for calls: the turn, or one expert with its call.
Cut ==
  \/ agent["main"].phase = "tools" /\ agent'["main"].phase = "failed"
  \/ \E s \in Slots :
       /\ agent[s].phase = "tools" /\ agent'[s].phase = "off"
       /\ call'[s].place = "done" /\ call'[s].ref = 0
       /\ Loses(1)

\* A tool call that leaves no record takes the run that made it with it: calls
\* are lost only in a step that fails the turn while it waits for them, or that
\* ends the expert which waits for the one call, without a finding. No model
\* reasons on past a call of its own that was never recorded.
RecordedUnlessCut == [][~Loses(0) => Cut]_vars

\* A turn ends even if no timeout of the turn or of an expert ever strikes.
TurnEnds == <>(agent["main"].phase \in {"answered", "failed"})

---------------------------------------------------------------------------
\* Claims of the documentation, checked on their own

\* foundation/vocab/constants.py:123: ORCHESTRATOR_MAX_TURNS is the "max tool
\* rounds in one orchestrator turn before the cap forces a final answer".
RoundsCapped == rounds <= MaxTurns

\* registry/capabilities/handler/tools.py:6: "Every outcome is a structured
\* ToolCallRecord recorded on the context [...] never silence".
EveryOutcomeRecorded ==
  agent["main"].phase \in {"answered", "failed"} => unrecorded = 0

\* registry/capabilities/handler/tools.py:93: "external text re-enters
\* sanitization before reasoning". Nested values and error texts do not.
ExternalTextScanned == seen \cap {"raw", "nested", "error"} = {}

\* registry/capabilities/handler/capability.py:29: the forced run is to answer
\* "using only what you already have". It has nothing: its conversation is new.
ForcedHasFindings == run = "forced" => learned \subseteq known
============================================================================
