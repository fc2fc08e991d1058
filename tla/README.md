# Vraksha in TLA+

Vraksha is a security-first pipeline around an LLM orchestrator. A user turn
enters as raw bytes, text or a path, passes a fixed chain of stages (intake,
sanitizer, normalizer, verifier, orchestrator, output filter, delivery), and
ends as a delivered answer, a block or a fault. This directory holds TLA+ models
of its control, the TLC runs that check them on small instances and the theorems
TLAPS proves of them. Paths below are relative to `src/`.

Run from this directory:

    tlc -workers 2 -config Pipeline.cfg MCPipeline.tla
    tlapm PipelineProofs.tla

`PROJECT.json` lists the runs, the mutants, the theorems, the hazards and, for
every definition that models code, the lines it stands for.

## 1. Inventory

### Transport (`foundation/transport`, `core/pipeline.py`, `main.py`)

* State: the immutable `Flow` (status, payload handle, append-only journal) and
  the mutable `VrakshaContext` all flows of a turn share.
* Operations: `Flow.new/next/warn/block/fail/then/chain`, `pipeline.run`, the
  REPL, which can abandon a turn on an interrupt.
* Interaction: `chain` runs the stages in order; a stopped flow passes through
  the rest untouched. `block` and `fail` also write the shared context.
* Hard: two representations of one truth (flow and context); a stage raising
  after it already changed the context; a turn abandoned between two awaits, while
  a thread it awaited goes on.
* Correct when: no answer leaves before every gate approved it; flow and context
  agree; a stopped flow is final; what one stage hands on the next accepts.

### Intake (`core/intake`)

* State: two module-level sliding-window limiters (per identity, global), each a
  map from key to a deque of time stamps, behind a lock.
* Operations: `process` (size, modality, admission), `allow`, `_prune_if_needed`,
  `check_request_rate`.
* Hard: the clock is read before the lock is taken; capacity of the key map; two
  limiters consulted one after the other without a common lock.
* Correct when: a window never holds more than the limit of admissions, the key
  map stays bounded, an idle key does not block others for ever.

### Sanitizer (`security/sanitizers`)

* State: a semaphore of worker permits per event loop, the loop's thread pool
  every scan runs in, the compiled YARA rules cached by the rules' modification
  times, the context's sanitization report.
* Operations: ClamAV and YARA pre-scan (in parallel), a worker per modality made
  of sub-workers, aggregation of their reports, the payload handed on.
* Hard: fail-closed on any engine fault or timeout; a timeout abandons an await
  and not the thread behind it; one sub-worker masking another; rules edited
  while one thread lists them and another compiles.
* Correct when: no parser sees a payload before both engines passed it, every
  permit comes back, what is handed on has lost what a worker can find, no scan
  uses rules older than its own beginning.

### Normalizer and verifier (`core/normalizer`, `core/verifier`)

* State: the normalized input and the verification result on the context.
* Operations: building the normalized input, structural and routing checks,
  model adjudication, repair and merge of the model's verdict.
* Hard: an inconsistent model verdict; shapes one stage builds and the next
  rejects; the capability questions of three modules having to agree.
* Correct when: a verdict repaired from contradictory fields still errs on the
  safe side, and everything the normalizer builds passes the structural checks.

### Orchestrator (`core/orchestrator`, `registry/capabilities/handler`)

* State: the draft, tool-call records, expert findings, memory packages and
  write proposals on the context; a semaphore bounding parallel experts.
* Operations: hydrate, the tool-driving agent loop with its tool-round cap and
  forced final answer, tool and expert capabilities with timeouts, recording
  memory proposals.
* Hard: parallel tool calls appending to one context, cancellation by an outer
  timeout, transient-error re-runs repeating work, bounded rounds.
* Correct when: permits are conserved, refs the model was told resolve, strings
  from the network are scanned before a model sees them, no model reasons on past
  a call that was never recorded, tool use is bounded and the turn ends.

### Capability registry (`registry/capabilities`)

* State: the tables of callable and of broken specifications, Python's
  `sys.modules`, the flag that discovery is done.
* Operations: `discover()` at the beginning of every turn, the decorators,
  `validate`, `register`, `status`, `cards`, the wrappers offered to the agent.
* Hard: a module that raises between two declarations leaves the first one
  registered; the next turn's discovery executes the body again and meets it;
  another turn may already work with the table.
* Correct when: no turn works with a part of the capabilities, nothing that was
  declared disappears, and which of two declarations counts does not depend on
  what failed in between.

### Model selection and calls (`core/llm`, `registry/config/models.py`)

* State: `models.yaml` as loaded, the API-key variables, the cache of resolved
  models, the agents cached per layer, the overrides of the user whose turn runs.
* Operations: routing of a layer to a provider, the fallback chain over models
  and keys, building an agent, running it with output retries, usage limits,
  fallback and transient re-runs; search is one such agent.
* Hard: caches keyed by a part of what decides; nested retries (transport, output,
  entries of the chain) under limits counted in requests and in tokens.
* Correct when: the cache of resolutions misses no key that came or went, a run
  fails for its models only after all of them failed it, and every call ends.

### Memory (`core/memory`)

* State: Qdrant collections per tier, the process-wide circuit breaker, the
  ensured-collections set, the embedder singleton.
* Operations: parallel tier search, upsert with near-duplicate supersede, delete,
  hydrate with a token budget, record proposals.
* Hard: a service that is down or slow, threads racing on the breaker and on
  collection creation, check-then-act between search and upsert, a similarity
  that is not transitive.
* Correct when: no user meets another user's memory, erasure reaches every tier,
  a memory is added only where no near-duplicate is, hydration keeps to its
  budget, no operation waits for ever.

### Output filter and delivery (`security/filter`, `delivery`)

* State: filter verdict and final response on the context.
* Operations: adjudicate the draft, print the answer.
* Hard: a verdict whose fields contradict each other; a print that raises after
  the response is on the context.
* Correct when: nothing is printed that the filter did not let through.

## 2. Modules

| Module | Models | Built on |
| --- | --- | --- |
| `Flow` | `Flow` and the marks of `VrakshaContext`, as operators | |
| `Threat` | the threat levels and what is done about them | |
| `Verification` | normalizer and verifier, as operators | `Threat` |
| `Turn` | the abstract promise of a turn | |
| `Pipeline` | the seven stages, interleaved turns, shared memory | extends `Flow`, `Verification`; implements `Turn` |
| `PipelineProofs` | theorems about `Pipeline` | extends `Pipeline` |
| `RateLimiter` | the two sliding windows of intake | |
| `RateLimiterProofs` | theorems about `RateLimiter` | extends `RateLimiter` |
| `Sanitizer` | gate order, thread pool, permits and timeouts | |
| `SanitizerProofs` | theorems about `Sanitizer` and `Workers` | extends `Sanitizer`, `Workers` |
| `Workers` | what a worker does with one payload | `Threat` |
| `YaraRules` | the shared cache of compiled rules | |
| `YaraRulesProofs` | theorems about `YaraRules` | extends `YaraRules` |
| `Orchestration` | the agent loop, tools, experts, caps and timeouts | |
| `OrchestrationProofs` | theorems about `Orchestration` | extends `Orchestration` |
| `Memory` | manager, store, breaker, embedder, Qdrant | |
| `MemoryProofs` | theorems about `Memory` and `Hydration` | extends `Memory`, `Hydration` |
| `Registry` | discovery, declarations and what a turn is offered | |
| `RegistryProofs` | theorems about `Registry` | extends `Registry` |
| `Models` | which models a call is run with, and how it ends | |
| `ModelsProofs` | theorems about `Models` | extends `Models` |
| `Hydration` | the token budget of hydration | |

`MCPipeline`, `MCRateLimiter`, `MCSanitizer`, `MCYaraRules`, `MCOrchestration`,
`MCMemory`, `MCHydration`, `MCRegistry` and `MCModels` hold the values and symmetries of the instances.

The modules meet at these abstractions: the pipeline takes from the rate limiter
an arbitrary admission, from the sanitizer's threads a report, block or fault,
from the agent loop a draft or a fault, from memory a set of earlier turns;
`Orchestration` takes from the registry the tools that are offered and from model
selection a request that is answered, malformed or fails. Each
of the detailed modules shows how its component comes to exactly those ends:
`Sanitizer` ends a turn as passed, blocked or failed, `Orchestration` as answered
or failed, and an operation of `Memory` always ends without raising. `Workers`
is the inside of one worker job of `Sanitizer`.

### How they correspond to the code

**Flow, Pipeline.** `flow[t]` is the current `Flow` of turn `t`: status, payload
tag, whether the payload is cached, journal. `ctx[t]` is its `VrakshaContext`,
reduced to the fields some stage reads or some property relates. `pc[t]` is the
place in `Flow.chain`; `"recording"` is the second await of the orchestrator
stage. Each stage is one action per outcome (`IntakeRefuse`, `WorkerReport`,
`VerifierModelFault`, ...), because nothing another turn can observe happens
inside it; the orchestrator is `Hydrate`, `Draft`, `StoreMemory`, `MemoryStored` and
`RecordProposals`, because memory is shared. `store.upsert` runs in a thread
(`writing[t]`) that is not cancelled with the task awaiting it: `MemoryStored` may
come after an `Interrupt` of the turn. All actions of a stage go through `Commit`, which is
`Flow.then` with `Flow.chain`: run the stage, append to the journal, move to the
next stage unless `ShouldStop`. A stage that raises after writing its context
keeps those writes (`Delivering`, `Sanitizing` and the like), as Python does.
`Interrupt` is the Ctrl-C of the REPL in the middle of a turn. A stage may also
never return; only safety is checked of this module.

**Verification.** `NormalizePayload` is the normalizer on a modality and on
whether any text is left; `HandoffFault`, `RoutingFault` and `RoutingBlocks` are
the structural checks in their order; `Verdicts` is every verdict the model path
can end with, after `CoerceConsistent` repaired what the model contradicted.

**RateLimiter.** `requests[l]` is the key map of limiter `l`, `lastPrune[l]` its
last sweep. A call is two steps per limiter, `ReadClock` outside the lock and
`Admit` or `Refuse` under it; `admitted` is a history of what was let through, a
set of (caller, stamp, number), where `Admission` numbers those that are alike.

**Sanitizer.** `stage[t]` is where `runner.run` stands, `job` where each of a
turn's scans stands in the executor, `queue` the executor's queue, `permits` the
semaphore. `TimesOut` is either timeout: the await is cancelled, the permit
returned, a queued job dropped, a running one left to its thread.

**Workers.** A payload is a modality, a shape and a set of traits. `Scan` lists
the sub-workers of its modality in their order, each an operator that yields the
results it may return for that payload, or none when it raises. `Report` is
`_scan_sync`'s aggregation, `Merge` the runner's use of it. `View` is what a worker
makes of a payload, `Read` what the normalizer makes of it later: it stabilizes a
text (`Stable`), which brings to light the personal data and secrets that were
"veiled" by format characters or forms that NFKC folds. The content of a PDF that
the walk over its objects does not come to, or that raises on it, is "buried": no
sub-worker removes or reports it.

**YaraRules.** A file's version is the edit that wrote it. A scan lists the
directory (`List`), reads modification times one by one (`Stat`), takes the lock
(`Acquire`), takes the cache (`TakeCached`) or compiles file by file
(`CompileFile`, `CompileFails`) and keeps rules and signature in two assignments
(`KeepRules`, `KeepSignature`). `Edit` may run between any two of them.

**Orchestration.** `agent[a]` is an agent's phase, request count and attempt;
`call[s]` is a capability call of the main agent, `nested[s]` the tool call of an
expert in that slot; `permits` the expert semaphore; `findings` and `known` the
refs on the context and in the model's conversation. `Answer`, `Malformed`,
`TransientError`, `PermanentError` and `Cap` are what a model request comes to
under `run_structured`; `TurnTimeout` and `ExpertTimeout` cancel what runs below.
`seen` is what models were given: "scanned" are the strings at the top of a network
tool's result, "nested" the values below them, which `_sanitize` copies (`Copied`),
"error" the text of what such a tool raised (`ErrorText`). `HandlerRaises` is the
conversion, the scan or the cap of an output raising outside `call_tool`'s `try`,
`ArgumentsExhausted` the end of a run by a call beside those under way.

**Memory.** `op[s]` is the manager operation a task runs, `call[s][c]` the place
of its store function in tier `c`, one Qdrant request per step. `ensured` and
`downUntil` are the module globals of the store, `index`, `session` and `points`
the service. `RequestFails` fails before the service applied the request,
`UpsertUnanswered`, `RequestUnanswered` after. Of the vectors there is left which
texts are `Alike`, any reflexive and symmetric relation: similarity of at least
0.97 is not transitive. A search for a near-duplicate finds the text itself first, otherwise
any that is alike (`Nearest`); a refresh overwrites the text with the vector. A
fresh point's id is the number of its operation.

**Hydration.** `Allocate` shares the budget, `Pack(t)` adds the next hit of a
tier while it fits. Shares are exact fractions, truncated; means are in units of
1/(`Unit` * `Scale`), where `Scale` is a common multiple of the numbers of hits.

**Registry.** `ok` and `broken` are the two tables, `imported` is `sys.modules`,
`at` the module and the declaration `discover()` has come to. A specification is
the declaration with the number of the load that made it, because a body
executed twice makes two classes. `Discover` begins the walk, which no other turn
interrupts, `Skip` passes a module that was imported, `Decorate` runs one
decorator (`Validate` and `Register`), `Raise` ends the discovery and its turn
and leaves the module out of `sys.modules`, `Imported` and `AllImported` end a
body and the walk. `Open` gives a turn the wrappers of what is callable then.
`Repair` is an edit of a file whose load raised.

**Models.** `config`, `keys` and `changes` are the world around: `models.yaml` as
loaded and what each key variable is set to, which `Reload` and `SetKey` change.
`EntriesFor` is what `model_for_layer` lists without its cache, built of `Named`,
`Among`, `Promoted` and `Expand`, a function of a version of `models.yaml` and of
the keys: a google model with one of several keys, or a plain string. `Resolve` is
empty where building them raises, because one of several entries finds no key
(`KeyOf`). `Others` are the providers `_PROVIDER_KEY_ENVS` does not list, whose
models always count as available. `CacheKey` has the values of google's keys and
of anthropic's and openai's only whether there is one, as the code's; `ModelFor`
and `Remember` are what `model_for_layer` returns and keeps.
`Build` and `Reuse` begin a call with a new or with the layer's cached agent;
`Answered`, `Malformed`, `NeverValid`, `Overspends`, `EntryFails`, `Raises` and
`Unkeyed` are what comes of a request. `owed` records, when an agent is built,
every model and google key, and every model whose provider has a key, `tried`
those that failed it. What
is owed is what `models.yaml` says in the version the entries were resolved with:
a resolution kept from an older one owes the older fallbacks, and that it was kept
is the subject of `ClaimModels`.

## 3. What the runs check

| Run | Question | Bounds |
| --- | --- | --- |
| `Pipeline` | Two turns of one user over one memory: gates before release, flow and context agree, coherent hand-off up to the capabilities of media the orchestrator gets, vetted memory, final stops, the refinement of `Turn` with threads that outlive their turn | 2 turns; sizes 0, 1 and too large; the target model reads text and images, another profile hears audio, none sees video |
| `RateLimiterLoop` | As the event loop calls it: windows hold, maps stay bounded, nobody is refused without reason | 1 thread, 3 identities over a capacity of 2 keys, limits of 2 in windows of 3 and 2, 6 time units |
| `Sanitizer` | Nothing parsed before both engines passed it, permits conserved, every turn ends though one payload hangs its parser | 3 turns, 2 threads, 1 permit, 1 hanging payload |
| `Workers` | What is handed on is clean as far as a worker sees, what the normalizer brings to light was veiled on arrival, every change or block has a reason | all payloads of all modalities; every library may raise |
| `YaraRules` | No scan matches rules older than its beginning; the lock comes free | 2 scans, 2 files, 3 edits |
| `Orchestration` | Permits conserved, refs resolve, no string a network tool returned reaches a model unscanned, tool rounds bounded, a call that leaves no record ends the run that made it, the turn ends | 2 calls per response, 1 permit, 1 round per agent, 2 attempts, all faults |
| `MemoryTenants` | No user meets another's memory, erasure reaches every tier | 2 tasks, 2 users, 2 tiers, 3 operations, 1 failing request |
| `MemoryOutage` | Ensured tiers are usable, until a fault no text is stored twice and nothing is added beside a near-duplicate, operations end | 1 task, 2 tiers, 3 texts of which one is like two that are not alike, 3 confidences, every state a collection may be found in, 3 operations, 2 failures |
| `HydrationBudget` | The package keeps to its budget and shares are fair | 3 tiers with the code's floors, budget 20, up to 2 hits of 3 scores and 2 costs |
| `Registry` | No turn works with a part of the capabilities, nothing declared is silently missing, the first valid declaration counts, discovery converges once nothing raises | 3 turns, 3 modules of 2 or 3 declarations, 4 slots, 3 declarations that may raise until repaired |
| `Models` | The cache of resolved models misses no google key and no listed provider, a call is exhausted only when every model and key failed it, what stops a build is a google key that is not the first one or a provider without a known key variable, the verifier is cut short by tokens only, calls end | 2 calls, one with a chosen model; 4 models, one of a provider the code does not list, 4 key variables of 2 values, 2 versions of `models.yaml`, 1 change, 2 attempts, 1 output retry, 2 tokens, a cache of 2 |

`ClaimErasureComplete`, the twelfth, is about section 5.

Why these are enough to show something: two turns suffice for every interaction
through memory, as turns share nothing else and each reads and writes it once;
one identity more than the key map holds makes it overflow, be swept and refuse;
one permit and two slots, or three turns, make every caller wait for another at
some point; with two threads one can hang while the other serves the rest; three
edits are enough for a file to change before, between and after the reads of a
scan; three memory operations are enough for create, refresh and erase, or for
two of them around an outage; a round cap of one with two attempts reaches the
cap in either attempt; three turns let a module raise twice and be imported by
the third discovery; one change is enough for a resolution or an agent to be kept
before it and used after it, and a cache of two overflows with three layers.
`MaxTime`, `MaxFaults`, `MaxOps`, `MaxEdits` and `MaxChanges` bound counters in
the guards; the remaining counters are bounded by the code. `MaxGoogleKeys` bounds
the numbers of `GOOGLE_API_KEY_<n>`, for which the code has no bound; the
theorems hold for any.

Deadlock is checked for `RateLimiterLoop` and `YaraRules`, whose callers and
scans may always begin again. In the others the system stops when all turns,
operations or payloads of the instance are over; that it does not stop before is
what the liveness properties `TurnEnds` (of `Orchestration`), `StageEnds`, `OperationsEnd`,
`RetryConverges` and `CallsEnd` say. `Pipeline` has none: whether a turn ends
depends on what its stages wait for.

Every property of a passing run is accompanied by a mutant: a variant of one
mapped definition, written as a plausible slip in that code, under which the run
must find the property violated. They stand in the modules beside the
definitions they vary ("Mutant of ...").

### Fairness

Nobody is assumed to submit a turn, interrupt one, edit a rule file or begin a
memory operation. Weak fairness is assumed of what goes on by itself once begun:

* `Pipeline`: nothing. Not every await of a stage is under a timeout: recording
  memory and embedding come after `ORCHESTRATOR_TIMEOUT_S`, the normalizer extracts
  a PDF in the event loop, the pre-scan and the compilation of rules are outside
  `SANITIZER_TIMEOUT_TOTAL_S`. What ends is shown where it is modelled in detail,
  in `Orchestration`, `Sanitizer`, `Memory` and `Models`.
* `Sanitizer`: threads take queued jobs, jobs that can return do, the event loop
  runs its tasks and timers. A hanging job never returns; `StageEnds` holds
  because there are fewer hanging payloads than threads, and with as many it
  does not: a hung parser keeps its thread for the life of the process.
* `YaraRules`: a thread inside a scan goes on.
* `Orchestration`: some progress is made while any is possible. That the
  timeouts of a turn or of an expert ever strike is not assumed: the turn ends
  even without them.
* `Memory`: a store thread goes on, since every Qdrant request has a timeout.
* `Registry`: a discovery that was begun goes on, as it is straight-line code.
  That files are repaired is not assumed: `RetryConverges` asks for the walk
  under way once nothing raises any more.
* `Models`: a request that was made is answered or fails, since the clients time
  out.

## 4. What is proved

TLAPS checks these for every value of the constants. The runs above check the
same statements on small instances.

**`PipelineProofs`**, for any number of turns, any size limit and any capability
sets, from `PipelineAssumption` (the limit is positive, `None` is no record) and
`CapabilitiesAssumption` (the target profile is one of the configured ones):
`TypeCorrect`, `GatesHold` (`GatesBeforeRelease`), `FlowAndContextAgree`
(`StatusCoherent`), `MemoryIsVetted` (`MemoryVetted`), `StopIsFinal`
(`StoppedIsFinal`). None of these is inductive: `GatesBeforeRelease` speaks of
released answers, and the step that releases needs to know what the earlier
stages left in the context of a turn still under way. The inductive invariant
`Inv` is therefore `TypeOK`, and for each turn `TurnInv`: what the stages before
the current one established (`Passed`), that a live turn carries no mark of a
stop (`Live`), and the two properties themselves (`Coherent`, `Gated`); and for
the turns in memory `Vetted`, which needs them to be at recording or past it, so that
their context can no longer lose what was vetted. `Storing` says of a running store
thread that its turn awaits it or was interrupted there, vetted either way. As every
action of a stage is a `Commit` of one turn, lemma `CommitInv` lifts `TurnInv` of the
committed values to the whole state; `BlocksInv`, `FailsInv` and `GoesInv` do
the three kinds of commit, and there is one lemma per stage.

`HandoffsAgree` (`HandoffCoherent`) and `TurnIsKept` (`TurnSpec`, the refinement of
`Turn`) rest on a second invariant, `Chained`: the journal of a live turn has one
entry per stage behind it, which is how the abstract number of gates cleared is
counted, and from the verifier on the context holds what the normalizer made of the
payload, with the verifier's checks passed, also of a turn whose thread outlives
it. The refinement goes by the four effects
a stage can have on its turn (`Effect`): it hands the flow on with one entry more
and clears a gate, or it is a part of its stage and nobody outside can tell, or it
stops the turn, or it delivers. `Interrupt` stops it too. Each effect is one step
of `Turn` or a stutter, and the turns not committed stand still. `StorePromised`
is the step of the thread: it remembers a turn that runs or was abandoned.

**`RateLimiterProofs`**, from `RateLimiterAssumption` (limits, windows and the
capacity are positive). `TableStaysBounded` (`TableInv`) holds for any number of
threads. `NoWindowIsExceeded` (`WindowHolds`) and `RefusalsAreJustified`
(`RefusalJustified`) assume `OneThread`, which the code gives: `allow` is called by
the event loop, and `check_request_rate` has no await between the clock and the
lock. Without it windows overflow (`ClaimThreadSafeWindow`). The invariant says that from
the oldest window that can still be asked about on, a deque holds exactly as many
stamps as requests were let through under its key (`Matched`), that deques are
sorted and of the past (`Ordered`, `Past`), and `WindowHolds` itself for every
window, wherever it ends (`Kept`). Sweeping and eviction lose stamps; `Matched`
survives because what they drop is older than any window to come. `FreshEvicts`
is the lemma for that: the eviction loop drops a prefix and nothing live.

**`SanitizerProofs`**, for any turns, threads and permits, from
`SanitizerAssumption`: `PermitsAreConserved` (`PermitInv`) and `ScansAreOrdered`
(`ScannedInOrder`). The invariant ties the stage of a turn to its jobs (`Coherent`:
both engines are clean before a permit is asked for, the worker's job exists only
then) and the executor's queue to the jobs that are queued, each once (`Queued`),
so that what a thread takes is what some turn submitted; a job left behind by a
timeout changes nothing of either.

The same module proves about `Workers`, for any payload that a worker may be given
and any choice of its libraries, faults included, from `WorkersAssumption` (`None` is no payload): `HandedOnIsClean` (`PassedIsClean`) and
`ReportsExplain` (`Explained`). `ScanInv` says that what is reported so far comes
from the modality's sub-workers in their order (`Reported`) and that a worker ends
with the merged report of them all. `HandedOnIsClean` speaks of what the scan can
find: content of a PDF the walk does not come to is outside it, and of a text it
says that what shows after the normalizer stabilized it was veiled in what came in
(`StableShows`). The rest is about one payload: what each
sub-worker's result says about the payload it was given (`TextResults` to
`MediaResults`), that only the last one replaces it (`ResultsAreSound`,
`LastSanitizes`), that the report's level is the worst of the results
(`HighestIsWorst`) and so not blocking only if none of them is (`ReportIsWorst`).

**`YaraRulesProofs`**, for any scans, files and number of edits, from
`YaraAssumption` and from the modelling of versions (two edits never share a
modification time): `TypeCorrect` and `NeverStale` (`RulesInv`, that is, types and
`RulesFresh`). A scan that takes cached rules compares signatures and never the
rules, so the invariant has to say that the cache is honest: what is kept was read no earlier than the
signature it is kept under, `began <= signature <= rules` for every file, unless
a thread is between the two assignments that keep them, and then it holds the
lock and its own signature.

**`OrchestrationProofs`**, for any number of parallel calls, any caps, attempts and
permits, from `OrchestrationAssumption`: `PermitsAreKept` (`PermitInv`),
`RefsAlwaysResolve` (`RefsResolve`), `NothingUnscannedIsSeen`
(`ScannedBeforeReasoning`), `RoundsAreBounded` (`RoundsBounded`) and
`CallsAreRecordedUnlessCut` (`RecordedUnlessCut`). One invariant carries all five:
what an agent is doing fits the phases of its calls (`Fits`), requests stay under
their cap (`InCap`) and rounds are counted by requests over attempts (`Spent`), the
experts that run are those that hold a permit (`ExpertsBounded`), every ref in the
conversation is among the findings (`RefsKnown`, `FindingsBounded`), and every call
in flight is still to be recorded (`Accounted`). `NothingUnscannedIsSeen` is about
the strings at the top of a result; nested values and error texts it leaves open.
`CallsAreRecordedUnlessCut` names what the step that loses a record does to the run,
not which step it is: a timeout, a handler that raises, another call's arguments. `Effects` reduces the actions to the
few things they do to this; `Open`, `MainFlight` and `NestedFlight` are the sets
whose cardinalities change by one. `RefsSuffice` shows that the bound on refs in
the model cuts no step off.

**`MemoryProofs`**, for any tasks, users, tiers and failures, from
`MemoryAssumption`: `TenantsAreIsolated` (`TenantInv`) and `ErasureIsComplete`
(`ErasureReachesEveryTier`). `Shape` says where a store function stands given what
its operation is doing, and points carry the user of the operation that wrote
them. The owner check after a retrieve (`RetrieveOwner`) is not needed for
isolation: ids are taken from searches filtered by user. `OneTurnEnsures`
(`EnsuredUsable`) and `OneTurnConverges` (`SameTextOnce` and `InsertsOnlyNews`)
assume `OneTurn`, one operation at a time, which is how `main.py` runs turns as long
as none is interrupted or times out and leaves a store thread behind; with two, `ClaimMemoriesConverge` and a concurrent `_ensure`
refute them. `EnsuredByOne` adds to `EnsuredUsable` what a call knows of the index at
each step of `_ensure`, `TwinsKnown` what a search has found of the text at hand and
of its near-duplicates while the upsert is still to come (`AddsNews`). Of `Alike` no
more is assumed than that it is reflexive and symmetric; that no two stored memories
are alike does not follow, and is not so (`ClaimMemoriesBridged`).

The same module proves about `Hydration`, for any tiers, floors of at most the whole
budget, budget and hits, from `HydrationAssumption`:
`PackageKeepsBudget` (`BudgetKept`) and `BudgetIsShared` (`FairlyShared`), both as
long as no tier's mean score is negative (`NoneOpposite`), which is what the code
needs and does not see to (`ClaimBudgetBounded`). `HydrationInv` says that the
allocation is what `Allocate` made of the hits and that no tier has spent more than
its part; it holds whatever the scores. That the parts add up is arithmetic over
`Total`, the library's fold: it takes any element first (`TotalTakesAny`), is linear
and monotone (`TotalAdds`, `TotalScales`, `TotalIsMonotone`), and so shares in
proportion, each truncated, do not exceed what is shared, while one token more for
each of them would (`ProportionalShares`).

**`ModelsProofs`**, for any models, keys, versions of `models.yaml`, calls and
limits, from `ModelsAssumption` (google, anthropic, openai and any others the code
does not list, of which google has numbered keys; every model's provider has a key
variable, which may be unset): `CacheIsTransparent` (`CacheInv`),
`NothingIsLeftUntried` (`NoEntryUntried`), `OnlyTokensCap` (`CappedByTokensOnly`) and
`BuildsOnceKeyed` (`BuildsWhenKeyed`). Four lemmas about a resolution do the work:
`KeyDetermines`, that two environments with the same cache key list alike,
`BuiltWithGoogle`, that what is built with google keys is built with those there are,
`OwedIsAsked`, that filtering, promotion and expansion leave out nothing a layer
names and a key allows, and `CrashesByOne`, that nothing is resolved for a named
model only where one of its models is google's with a lone numbered key, or an
unlisted provider's without its own. The invariant says that a cached resolution is
what resolving gave with the keys it was resolved with, which have its cache key
(`GoodResolution`; `CacheTransparent` speaks of the present environment only, which
the next change of a key leaves),
that agents hold what they owe (`GoodAgent`), and that a call has tried all entries
before the one it asks (`Trying`).

**`RegistryProofs`**, for any turns, any order of modules, any bodies and any
declarations that may raise, from `RegistryAssumption` (no module is walked
twice, `None` is no specification): `NoPartialDiscovery` (`RegistryInv`),
`NothingSilent` (`NeverSilent`) and `FirstWins` (`FirstDeclaredWins`). The last
speaks of the table only, and a slot's winner is decided by what the walk has
done before: the invariant `WalkInv` says that an imported module has no valid
declaration without a callable slot (`Covered`), that `discover()` has passed
imported modules only and in the body it is in covered what it passed
(`Walked`), and that discovery is done only when all modules are imported
(`Ready`). So when a declaration fills an empty slot, no earlier valid one of the
slot can exist. Callable slots never change again (`OkStays`), which is also why
a turn under way keeps the offer it was given. `Counted`, that each load that
raised failed a turn of its own, bounds the number of loads.

Recursion over data is met by least counterexample. The library's induction
theorems take an operator as a parameter, which the provers cannot instantiate;
but `LeastNumber` of `ModelsProofs`, that a set of numbers with an element has a
least one, takes a set. From it follows what `FlattenSeq`, defined by a recursive
function, computes (`FlattenHolds`), and in `MemoryProofs` an induction over finite
sets whose claim is the set of the subsets it holds of (`SetInduction`), by which
every fact about sums is proved.

**Only model-checked**: liveness (`TurnEnds` of `Orchestration`, `StageEnds`, `OperationsEnd`,
`RetryConverges`, `LockReleased`, `CallsEnd`) and everything else that rests on fairness or
`ENABLED`. Every other property of a passing run is stated by a theorem.

## 5. Where code and documentation disagree

The run `ClaimErasureComplete` violates, on purpose, what the documentation says:
while the breaker is open `delete_user` removes nothing and says nothing;
`core/memory/ARCHITECTURE.md:140` says it removes every point.

Further claims stand at the end of the modules, with configurations that refute
them (`tlc -config <name>.cfg MC<module>.tla`, or `Workers.tla`). Where several
share a configuration, `tlc -continue -workers 1` goes on after the first:

| Claim | Configuration | Module | What the code does, and what it is said to do |
| --- | --- | --- | --- |
| `FilterBlockHonoured` | `ClaimDelivery` | Pipeline | the filter stage reads `proceed` only, a verdict with `blocked` and `proceed` is delivered (`security/filter/filter.py:7`) |
| `MemoryOnlyDelivered` | `ClaimDelivery` | Pipeline | memory is written by the orchestrator stage, before the filter decides, not after delivery (`core/memory/ARCHITECTURE.md:105`) |
| `ExpertCapabilityConfigured` | `ClaimExpertCapabilityConfigured` | Pipeline | a PDF without text skips the capability check (`core/verifier/rules.py:117`) |
| `ThreadSafeWindow` | `ClaimThreadSafeWindow` | RateLimiter | with several threads a stale clock lets a window overflow (`core/intake/rate_limiter.py:32`) |
| `WorkersBounded` | `ClaimWorkersBounded` | Sanitizer | an abandoned worker runs on without a permit (`foundation/vocab/constants.py:75`) |
| `EncryptedIsBlocked` | `ClaimIngest` | Workers | a PDF that needs a password makes the last sub-worker raise, which discards the HIGH report of the first: the turn fails and is not blocked (`security/sanitizers/workers/pdf.py:90`) |
| `FilesAreRead` | `ClaimIngest` | Workers | a text file given as a path is scanned and read as its name (`foundation/coercion.py:5`) |
| `CanonicalIsScanned` | `ClaimIngest` | Workers | a text is put in canonical form after the scan for secrets and personal data, which therefore never sees that form (`core/normalizer/utils.py:23`) |
| `ActiveIsStripped` | `ClaimIngest` | Workers | the walk over a PDF passes over some objects in silence, and what they hold is saved (`security/sanitizers/workers/pdf.py:197`) |
| `RoundsCapped` | `ClaimAgentLoop` | Orchestration | one tool round more than the cap per attempt (`foundation/vocab/constants.py:123`) |
| `EveryOutcomeRecorded` | `ClaimAgentLoop` | Orchestration | a cancelled tool, or one whose output raises in the conversion, the scan or the cap, leaves no record (`registry/capabilities/handler/tools.py:6`) |
| `ExternalTextScanned` | `ClaimAgentLoop` | Orchestration | values below the top of a network tool's result, and the text of its errors, reach a model unscanned (`registry/capabilities/handler/tools.py:93`) |
| `ForcedHasFindings` | `ClaimAgentLoop` | Orchestration | the forced run starts without the findings it is told to use (`registry/capabilities/handler/capability.py:29`) |
| `MemoriesConverge` | `ClaimMemoriesConverge` | Memory | two concurrent turns store the same memory twice (`core/memory/ARCHITECTURE.md:102`) |
| `MemoriesConverge` | `ClaimMemoriesBridged` | Memory | in one turn and without a fault, a text like two memories that are not alike refreshes one of them, which is then like the other |
| `SessionIndexed` | `ClaimSessionIndexed` | Memory | a half created collection never gets its session index (`core/memory/ARCHITECTURE.md:62`) |
| `HonestHydration` | `ClaimHonestHydration` | Memory | an outage that ends in time is told as "no prior memory" (`foundation/contracts/memory.py:58`) |
| `OneTimeout` | `ClaimOneTimeout` | Memory | parallel searches each pay their timeout (`core/memory/ARCHITECTURE.md:119`) |
| `EmbedderRetried` | `ClaimEmbedderRetried` | Memory | a failed model load is never tried again (`core/memory/ARCHITECTURE.md:115`) |
| `BudgetKept` | `ClaimBudgetBounded` | Hydration | negative similarities drive a share over the budget (`foundation/contracts/memory.py:56`) |
| `NeverCrashes` | `ClaimNeverCrashes` | Registry | a tool and an expert whose wrappers share a name fail every turn; they are not registered as broken (`registry/capabilities/registration.py:4`) |
| `OverrideIsolated` | `ClaimModels` | Models | the cached agents of verifier and filter keep the model the first user chose (`core/llm/registry.py:17`) |
| `CacheKeyComplete` | `ClaimModels` | Models | `models.yaml`, the values of anthropic's and openai's keys and the keys of other providers are not in the key of resolved models: a replaced key is not noticed (`core/llm/registry.py:125`) |
| `KeylessSkipped` | `ClaimModels` | Models | a chain entry of a provider that is not listed is never skipped, and without a key stops the build (`core/llm/registry.py:52`) |
| `RetriesAffordable` | `ClaimModels` | Models | the filter's request limit of one leaves none for its output retries (`core/llm/registry.py:192`) |

## 6. What is left out

* The bodies of tools and experts: external effects; their outcome is arbitrary in
  `Orchestration`. Of search its prompt and its text.
* The reset functions of the registry, which are there for tests and tools, and
  the constants the program never reads (`FILTER_TIMEOUT_S`,
  `FILTER_MAX_TOKENS`, `MAX_CONCURRENT_LLM_CALLS`). Backoff and jitter.
* What libraries find in a payload or a text: YARA and ClamAV matches, Presidio,
  which objects of a PDF the walk reaches, ffmpeg; which characters
  canonicalization changes, and the pattern scores of the verifier. The models take
  their answer as a choice or a trait of the payload.
* Vectors (but for which texts are alike), recency and floats in memory; spans, durations and descriptors of the
  flow, which the program writes and never reads.
* Prompts, constants, installers, tests.

## 7. Plan

The order was the way of a turn: transport and stages first, then the components
whose concurrency or failures decide how a stage ends. Written so far: everything
in section 2. Next:

1. `Sanitizer` as an implementation of the pipeline's sanitizer step, and
   `Workers` as one of a `Sanitizer` job.
2. Proofs: the theorems that assume `OneTurn` for any number of turns where they
   hold then.
