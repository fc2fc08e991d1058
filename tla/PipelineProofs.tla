-------------------------- MODULE PipelineProofs --------------------------
(***************************************************************************)
(* Proofs about Pipeline, for any number of turns, any size limit and any  *)
(* capabilities: type correctness, the gates before a release, coherence   *)
(* of flow and context, the vetting of memory, finality of a stop, the     *)
(* agreement of normalizer and verifier, and the refinement of Turn. Every *)
(* action but Interrupt and the two ends of the store thread is a Commit   *)
(* of one turn. So the inductive invariant Inv is local to a turn,         *)
(* TurnInv(step, flow, context), plus one condition on the turns in memory *)
(* and one on those whose thread runs; a lemma lifts TurnInv of the        *)
(* committed values to the whole state, and each action then only has to   *)
(* establish TurnInv of what it commits. A second one, Chained, ties the   *)
(* length of the journal to the step, which is what the refinement counts  *)
(* gates by, and what the normalizer built to what the verifier let        *)
(* through.                                                                *)
(***************************************************************************)
EXTENDS Pipeline, TLAPS

---------------------------------------------------------------------------
\* The inductive invariant

Active         == Steps \ {"done", "interrupted"}
PastIntake     == Active \ {"start", "intake"}
PastSanitizer  == PastIntake \ {"sanitizer"}
PastNormalizer == PastSanitizer \ {"normalizer"}
PastVerifier   == PastNormalizer \ {"verifier"}
PastDraft      == {"recording", "filter", "delivery"}
FromRecording  == {"recording", "filter", "delivery", "done", "interrupted"}

Typed(p, f, c) == p \in Steps /\ f \in FlowType /\ c \in Context

\* What the stages before step p have left in the context of a live turn.
VerifierCleared(c) ==
  /\ c.verifier_result # None
  /\ ~VerdictBlocks(c.verifier_result)
  /\ NeedsModel(c.normalized_input) => c.verifier_result.ran

FilterCleared(c) == c.filter_result # None /\ c.filter_result.proceed

Passed(p, c) ==
  /\ p \in PastIntake     => c.modality \in Modality
  /\ p \in PastSanitizer  => c.sanitization = "report"
  /\ p \in PastNormalizer => c.normalized_input # None
  /\ p \in PastVerifier   => VerifierCleared(c)
  /\ p \in PastDraft      => c.orchestrator_response
  /\ p = "delivery"       => FilterCleared(c)

\* A live turn carries no mark of a stop and has released nothing.
Live(p, f, c) ==
  p \in Active =>
    /\ ~ShouldStop(f)
    /\ ~c.blocked /\ ~c.failed
    /\ c.current_stage \notin {"blocked", "failed"}
    /\ ~c.sanitization_blocked /\ ~c.verifier_blocked /\ ~c.filter_blocked
    /\ ~c.final_response

Coherent(f, c) ==
  /\ f.status = "blocked" <=> c.blocked
  /\ f.status = "error"   <=> c.failed
  /\ c.current_stage = "blocked" <=> c.blocked
  /\ c.current_stage = "failed"  <=> c.failed
  /\ c.sanitization_blocked <=> BlockedAt(f, "sanitizer")
  /\ c.verifier_blocked     <=> BlockedAt(f, "verifier")
  /\ c.filter_blocked       <=> BlockedAt(f, "filter")

Gated(c) ==
  c.final_response =>
    /\ c.sanitization = "report" /\ ~c.sanitization_blocked
    /\ VerifierCleared(c)
    /\ FilterCleared(c)

TurnInv(p, f, c) ==
  /\ Typed(p, f, c)
  /\ Passed(p, c)
  /\ Live(p, f, c)
  /\ Coherent(f, c)
  /\ Gated(c)

Vetted(p, c) ==
  /\ p \in FromRecording
  /\ c.orchestrator_response
  /\ ~c.sanitization_blocked
  /\ c.verifier_result # None
  /\ ~VerdictBlocks(c.verifier_result)

\* While the store thread of a turn runs, the turn awaits it or was
\* interrupted there.
Storing(p, f, c) ==
  /\ p \in {"recording", "interrupted"}
  /\ ~ShouldStop(f)
  /\ Vetted(p, c)

Inv ==
  /\ TypeOK
  /\ \A t \in Turns : TurnInv(pc[t], flow[t], ctx[t])
  /\ \A t \in memory : Vetted(pc[t], ctx[t]) /\ writing[t] = "over"
  /\ \A t \in Turns : writing[t] = "running" => Storing(pc[t], flow[t], ctx[t])
  /\ \A t \in Turns : t \notin ctx[t].hydration_items

---------------------------------------------------------------------------
\* Typing of the operators of Flow

LEMMA JournalTypes ==
  ASSUME NEW f \in FlowType, NEW origin \in Origin, NEW status \in Status
  PROVE  LET j == Append(f.journal, [origin |-> origin, status |-> status]) IN
         /\ j \in Seq([origin : Origin, status : Status])
         /\ j[Len(j)] = [origin |-> origin, status |-> status]
<1>1. f.journal \in Seq([origin : Origin, status : Status])
  BY DEF FlowType
<1> QED BY <1>1

LEMMA BlockTypes ==
  ASSUME NEW f \in FlowType, NEW origin \in Origin
  PROVE  LET g == FlowBlock(f, origin) IN
         /\ g \in FlowType
         /\ g.status = "blocked"
         /\ \A o \in Origin : BlockedAt(g, o) <=> o = origin
<1> DEFINE j == Append(f.journal, [origin |-> origin, status |-> "blocked"])
           g == FlowBlock(f, origin)
<1>1. "blocked" \in Status
  BY DEF Status
<1>2. /\ j \in Seq([origin : Origin, status : Status])
      /\ j[Len(j)] = [origin |-> origin, status |-> "blocked"]
  BY <1>1, JournalTypes
<1>3. g = [status |-> "blocked", payload |-> f.payload, cached |-> FALSE, journal |-> j]
  BY DEF FlowBlock, FlowOver
<1> HIDE DEF j, g
<1>4. g \in FlowType
  BY <1>1, <1>2, <1>3 DEF FlowType
<1>5. \A o \in Origin : BlockedAt(g, o) <=> o = origin
  BY <1>2, <1>3 DEF BlockedAt
<1>6. g.status = "blocked"
  BY <1>3
<1> QED BY <1>4, <1>5, <1>6 DEF g

LEMMA FailTypes ==
  ASSUME NEW f \in FlowType, NEW origin \in Origin
  PROVE  LET g == FlowFail(f, origin) IN
         /\ g \in FlowType
         /\ g.status = "error"
         /\ \A o \in Origin : ~BlockedAt(g, o)
<1> DEFINE j == Append(f.journal, [origin |-> origin, status |-> "error"])
           g == FlowFail(f, origin)
<1>1. "error" \in Status
  BY DEF Status
<1>2. /\ j \in Seq([origin : Origin, status : Status])
      /\ j[Len(j)] = [origin |-> origin, status |-> "error"]
  BY <1>1, JournalTypes
<1>3. g = [status |-> "error", payload |-> f.payload, cached |-> FALSE, journal |-> j]
  BY DEF FlowFail, FlowOver
<1> HIDE DEF j, g
<1>4. g \in FlowType
  BY <1>1, <1>2, <1>3 DEF FlowType
<1>5. \A o \in Origin : ~BlockedAt(g, o)
  BY <1>2, <1>3 DEF BlockedAt
<1>6. g.status = "error"
  BY <1>3
<1> QED BY <1>4, <1>5, <1>6 DEF g

LEMMA NextTypes ==
  ASSUME NEW f \in FlowType, NEW origin \in Origin, NEW p \in Payload
  PROVE  LET g == FlowNext(f, p, origin) IN
         /\ g \in FlowType
         /\ g.status = "ok"
         /\ \A o \in Origin : ~BlockedAt(g, o)
<1> DEFINE j == Append(f.journal, [origin |-> origin, status |-> "ok"])
           g == FlowNext(f, p, origin)
<1>1. "ok" \in Status
  BY DEF Status
<1>2. /\ j \in Seq([origin : Origin, status : Status])
      /\ j[Len(j)] = [origin |-> origin, status |-> "ok"]
  BY <1>1, JournalTypes
<1>3. g = [status |-> "ok", payload |-> p, cached |-> FALSE, journal |-> j]
  BY DEF FlowNext, FlowOver
<1> HIDE DEF j, g
<1>4. g \in FlowType
  BY <1>1, <1>2, <1>3 DEF FlowType
<1>5. \A o \in Origin : ~BlockedAt(g, o)
  BY <1>2, <1>3 DEF BlockedAt
<1>6. g.status = "ok"
  BY <1>3
<1> QED BY <1>4, <1>5, <1>6 DEF g

LEMMA WarnTypes ==
  ASSUME NEW f \in FlowType, NEW origin \in Origin
  PROVE  LET g == FlowWarn(f, origin) IN
         /\ g \in FlowType
         /\ g.status = "warn"
         /\ \A o \in Origin : ~BlockedAt(g, o)
<1> DEFINE j == Append(f.journal, [origin |-> origin, status |-> "warn"])
           g == FlowWarn(f, origin)
<1>1. "warn" \in Status
  BY DEF Status
<1>2. /\ j \in Seq([origin : Origin, status : Status])
      /\ j[Len(j)] = [origin |-> origin, status |-> "warn"]
  BY <1>1, JournalTypes
<1>3. g = [status |-> "warn", payload |-> f.payload, cached |-> f.cached, journal |-> j]
  BY DEF FlowWarn, FlowOver
<1> HIDE DEF j, g
<1>4. g \in FlowType
  BY <1>1, <1>2, <1>3 DEF FlowType
<1>5. \A o \in Origin : ~BlockedAt(g, o)
  BY <1>2, <1>3 DEF BlockedAt
<1>6. g.status = "warn"
  BY <1>3
<1> QED BY <1>4, <1>5, <1>6 DEF g

LEMMA LoadTypes ==
  ASSUME NEW f \in FlowType
  PROVE  /\ Load(f) \in FlowType
         /\ Load(f).status = f.status
         /\ \A o \in Origin : BlockedAt(Load(f), o) <=> BlockedAt(f, o)
BY DEF Load, FlowType, BlockedAt

LEMMA NewTypes ==
  /\ FlowNew("raw") \in FlowType
  /\ FlowNew("raw").status = "ok"
  /\ \A o \in Origin : ~BlockedAt(FlowNew("raw"), o)
  /\ NewContext \in Context
<1>1. "intake" \in Origin
  BY DEF Origin, StageOrder
<1>2. <<[origin |-> "intake", status |-> "ok"]>> \in Seq([origin : Origin, status : Status])
  BY <1>1 DEF Status
<1>3. FlowNew("raw") \in FlowType
  BY <1>2 DEF FlowNew, FlowType, Status, Payload
<1>4. \A o \in Origin : ~BlockedAt(FlowNew("raw"), o)
  BY DEF FlowNew, BlockedAt
<1>5. NewContext \in Context
  BY DEF NewContext, Context, Stage
<1> QED BY <1>3, <1>4, <1>5 DEF FlowNew

LEMMA Origins == \A i \in 1 .. 7 : StageOrder[i] \in Origin
BY DEF Origin

LEMMA OriginNames ==
  {"intake", "sanitizer", "normalizer", "verifier", "orchestrator", "filter", "output"}
    \subseteq Origin
<1>1. /\ StageOrder[1] = "intake" /\ StageOrder[2] = "sanitizer"
      /\ StageOrder[3] = "normalizer" /\ StageOrder[4] = "verifier"
      /\ StageOrder[5] = "orchestrator" /\ StageOrder[6] = "filter"
      /\ StageOrder[7] = "output"
  BY DEF StageOrder
<1> QED BY <1>1, Origins

---------------------------------------------------------------------------
\* Contexts of a stopped turn

Reasons == {"rate_limited", "malformed_input", "input_too_large",
            "unsupported_modality", "malicious_content", "injection_detected",
            "verifier_rejected", "filter_rejected"}
Errors  == {"infrastructure", "handoff", "model"}

LEMMA MarkBlockedType ==
  ASSUME NEW c \in Context, NEW r \in Reasons
  PROVE  MarkBlocked(c, r) \in Context
<1>1. r \in {"none", "rate_limited", "malformed_input", "input_too_large",
            "unsupported_modality", "malicious_content",
            "injection_detected", "verifier_rejected", "filter_rejected"}
  BY DEF Reasons
<1>2. "blocked" \in Stage
  BY DEF Stage
<1> QED BY <1>1, <1>2 DEF Context, MarkBlocked

LEMMA MarkFailedType ==
  ASSUME NEW c \in Context, NEW e \in Errors
  PROVE  MarkFailed(c, e) \in Context
<1>1. e \in {"none", "infrastructure", "handoff", "model"}
  BY DEF Errors
<1>2. "failed" \in Stage
  BY DEF Stage
<1> QED BY <1>1, <1>2 DEF Context, MarkFailed

LEMMA AdvanceTypes ==
  ASSUME NEW c \in Context, NEW s \in Stage
  PROVE  Advance(c, s) \in Context
BY DEF Context, Advance

---------------------------------------------------------------------------
\* What a commit has to establish

LEMMA CommitInv ==
  ASSUME Inv, NEW t \in Turns, NEW f, NEW c, NEW p,
         p = IF ShouldStop(f) THEN "done" ELSE Following(pc[t]),
         Commit(t, f, c),
         TurnInv(p, f, c),
         t \notin c.hydration_items,
         memory' = memory, writing' = writing, writing[t] # "running",
         t \in memory => Vetted(p, c)
  PROVE  Inv'
<1>1. /\ pc' = [pc EXCEPT ![t] = p]
      /\ flow' = [flow EXCEPT ![t] = f]
      /\ ctx' = [ctx EXCEPT ![t] = c]
  BY DEF Commit
<1>2. TypeOK'
  BY <1>1 DEF Inv, TypeOK, TurnInv, Typed
<1>3. ASSUME NEW u \in Turns
      PROVE  /\ pc'[u] = IF u = t THEN p ELSE pc[u]
             /\ flow'[u] = IF u = t THEN f ELSE flow[u]
             /\ ctx'[u] = IF u = t THEN c ELSE ctx[u]
  BY <1>1 DEF Inv, TypeOK
<1>4. ASSUME NEW u \in Turns
      PROVE  TurnInv(pc'[u], flow'[u], ctx'[u]) /\ u \notin ctx'[u].hydration_items
  <2>1. CASE u = t
    BY <2>1, <1>3
  <2>2. CASE u # t
    BY <2>2, <1>3 DEF Inv
  <2> QED BY <2>1, <2>2
<1>5. ASSUME NEW u \in memory PROVE Vetted(pc'[u], ctx'[u]) /\ writing'[u] = "over"
  <2>1. u \in Turns
    BY <1>5 DEF Inv, TypeOK
  <2>2. CASE u = t
    BY <1>5, <2>1, <2>2, <1>3 DEF Inv
  <2>3. CASE u # t
    BY <1>5, <2>1, <2>3, <1>3 DEF Inv
  <2> QED BY <2>2, <2>3
<1>6. ASSUME NEW u \in Turns, writing'[u] = "running"
      PROVE  Storing(pc'[u], flow'[u], ctx'[u])
  BY <1>3, <1>6 DEF Inv
<1> QED BY <1>2, <1>4, <1>5, <1>6 DEF Inv

LEMMA BlocksInv ==
  ASSUME Inv, NEW t \in Turns, pc[t] \in Active, NEW c \in Context,
         NEW r \in Reasons, NEW origin \in Origin,
         Blocks(t, c, r, origin),
         memory' = memory, writing' = writing, writing[t] # "running",
         ~c.failed, ~c.final_response,
         c.sanitization_blocked <=> origin = "sanitizer",
         c.verifier_blocked     <=> origin = "verifier",
         c.filter_blocked       <=> origin = "filter",
         t \notin c.hydration_items,
         t \in memory => Vetted("done", c)
  PROVE  Inv'
<1> DEFINE f == FlowBlock(flow[t], origin)
           d == MarkBlocked(c, r)
<1>1. flow[t] \in FlowType
  BY DEF Inv, TypeOK
<1>2. f \in FlowType /\ f.status = "blocked" /\ \A o \in Origin : BlockedAt(f, o) <=> o = origin
  BY <1>1, BlockTypes
<1>3. d \in Context
  BY MarkBlockedType
<1>4. /\ d.blocked /\ d.current_stage = "blocked"
      /\ d.failed = c.failed /\ d.final_response = c.final_response
      /\ d.sanitization_blocked = c.sanitization_blocked
      /\ d.verifier_blocked = c.verifier_blocked
      /\ d.filter_blocked = c.filter_blocked
      /\ d.hydration_items = c.hydration_items
      /\ d.orchestrator_response = c.orchestrator_response
      /\ d.verifier_result = c.verifier_result
  BY DEF MarkBlocked, Context
<1>5. Commit(t, f, d)
  BY DEF Blocks
<1> HIDE DEF f, d
<1>6. ShouldStop(f)
  BY <1>2 DEF ShouldStop
<1>7. TurnInv("done", f, d)
  <2>1. Typed("done", f, d)
    BY <1>2, <1>3 DEF Typed, Steps
  <2>2. Passed("done", d) /\ Live("done", f, d)
    BY DEF Passed, Live, PastIntake, PastSanitizer, PastNormalizer, PastVerifier, PastDraft, Active
  <2>3. Coherent(f, d)
    BY <1>2, <1>4, OriginNames DEF Coherent
  <2>4. Gated(d)
    BY <1>4 DEF Gated
  <2> QED BY <2>1, <2>2, <2>3, <2>4 DEF TurnInv
<1>8. t \in memory => Vetted("done", d)
  BY <1>4 DEF Vetted
<1> QED BY <1>4, <1>5, <1>6, <1>7, <1>8, CommitInv

LEMMA FailsInv ==
  ASSUME Inv, NEW t \in Turns, pc[t] \in Active, NEW c \in Context,
         NEW e \in Errors, NEW origin \in Origin,
         Fails(t, c, e, origin),
         memory' = memory, writing' = writing, writing[t] # "running",
         ~c.blocked, Gated(c),
         ~c.sanitization_blocked, ~c.verifier_blocked, ~c.filter_blocked,
         t \notin c.hydration_items,
         t \in memory => Vetted("done", c)
  PROVE  Inv'
<1> DEFINE f == FlowFail(flow[t], origin)
           d == MarkFailed(c, e)
<1>1. flow[t] \in FlowType
  BY DEF Inv, TypeOK
<1>2. f \in FlowType /\ f.status = "error" /\ \A o \in Origin : ~BlockedAt(f, o)
  BY <1>1, FailTypes
<1>3. d \in Context
  BY MarkFailedType
<1>4. /\ d.failed /\ d.current_stage = "failed"
      /\ d.blocked = c.blocked /\ d.final_response = c.final_response
      /\ d.sanitization = c.sanitization
      /\ d.sanitization_blocked = c.sanitization_blocked
      /\ d.verifier_blocked = c.verifier_blocked
      /\ d.filter_blocked = c.filter_blocked
      /\ d.hydration_items = c.hydration_items
      /\ d.orchestrator_response = c.orchestrator_response
      /\ d.normalized_input = c.normalized_input
      /\ d.verifier_result = c.verifier_result
      /\ d.filter_result = c.filter_result
  BY DEF MarkFailed, Context
<1>5. Commit(t, f, d)
  BY DEF Fails
<1> HIDE DEF f, d
<1>6. ShouldStop(f)
  BY <1>2 DEF ShouldStop
<1>7. TurnInv("done", f, d)
  <2>1. Typed("done", f, d)
    BY <1>2, <1>3 DEF Typed, Steps
  <2>2. Passed("done", d) /\ Live("done", f, d)
    BY DEF Passed, Live, PastIntake, PastSanitizer, PastNormalizer, PastVerifier, PastDraft, Active
  <2>3. Coherent(f, d)
    BY <1>2, <1>4, OriginNames DEF Coherent
  <2>4. Gated(d)
    BY <1>4 DEF Gated, VerifierCleared, FilterCleared
  <2> QED BY <2>1, <2>2, <2>3, <2>4 DEF TurnInv
<1>8. t \in memory => Vetted("done", d)
  BY <1>4 DEF Vetted
<1> QED BY <1>4, <1>5, <1>6, <1>7, <1>8, CommitInv

\* A stage that hands the flow on: f is ok or a warning.
LEMMA GoesInv ==
  ASSUME Inv, NEW t \in Turns, pc[t] \in Active, NEW c \in Context,
         NEW f \in FlowType, f.status \in {"ok", "warn"},
         \A o \in {"sanitizer", "verifier", "filter"} : ~BlockedAt(f, o),
         Commit(t, f, c),
         memory' = memory, writing' = writing, writing[t] # "running",
         Passed(Following(pc[t]), c),
         ~c.blocked, ~c.failed, c.current_stage \notin {"blocked", "failed"},
         ~c.sanitization_blocked, ~c.verifier_blocked, ~c.filter_blocked,
         c.final_response => pc[t] = "delivery" /\ Gated(c),
         t \notin c.hydration_items,
         t \in memory => Vetted(Following(pc[t]), c)
  PROVE  Inv'
<1> DEFINE p == Following(pc[t])
<1>1. ~ShouldStop(f)
  BY DEF ShouldStop
<1>2. p \in Steps /\ (p \in Active => pc[t] # "delivery")
  BY DEF Following, Active, Steps
<1> HIDE DEF p
<1>3. TurnInv(p, f, c)
  <2>1. Typed(p, f, c)
    BY <1>2 DEF Typed
  <2>2. Passed(p, c)
    BY DEF p
  <2>3. Live(p, f, c)
    BY <1>1, <1>2 DEF Live
  <2>4. Coherent(f, c)
    BY OriginNames DEF Coherent
  <2>5. Gated(c)
    BY DEF Gated
  <2> QED BY <2>1, <2>2, <2>3, <2>4, <2>5 DEF TurnInv
<1> QED BY <1>1, <1>3, CommitInv DEF p

---------------------------------------------------------------------------
\* One lemma per action

LEMMA LiveFacts ==
  ASSUME Inv, NEW t \in Turns, pc[t] \in Active
  PROVE  /\ flow[t] \in FlowType /\ flow[t].status \in {"ok", "warn"}
         /\ \A o \in {"sanitizer", "verifier", "filter"} : ~BlockedAt(flow[t], o)
         /\ ctx[t] \in Context
         /\ ~ctx[t].blocked /\ ~ctx[t].failed
         /\ ctx[t].current_stage \notin {"blocked", "failed"}
         /\ ~ctx[t].sanitization_blocked /\ ~ctx[t].verifier_blocked
         /\ ~ctx[t].filter_blocked /\ ~ctx[t].final_response
         /\ t \notin ctx[t].hydration_items
         /\ Passed(pc[t], ctx[t])
         /\ t \in memory => pc[t] \in {"recording", "filter", "delivery"}
         /\ pc[t] # "recording" => writing[t] # "running"
<1>1. /\ flow[t] \in FlowType /\ ctx[t] \in Context
      /\ Live(pc[t], flow[t], ctx[t]) /\ Coherent(flow[t], ctx[t])
      /\ Passed(pc[t], ctx[t]) /\ t \notin ctx[t].hydration_items
  BY DEF Inv, TurnInv, Typed
<1>2. flow[t].status \in Status
  BY <1>1 DEF FlowType
<1>3. /\ t \in memory => pc[t] \in {"recording", "filter", "delivery"}
      /\ pc[t] # "recording" => writing[t] # "running"
  BY DEF Inv, Vetted, Storing, FromRecording, Active
<1> QED BY <1>1, <1>2, <1>3 DEF Live, Coherent, ShouldStop, Status

\* d carries the marks of c: nothing that a stop sets has changed.
SameMarks(c, d) ==
  /\ d.blocked = c.blocked /\ d.failed = c.failed
  /\ d.sanitization_blocked = c.sanitization_blocked
  /\ d.verifier_blocked = c.verifier_blocked
  /\ d.filter_blocked = c.filter_blocked
  /\ d.final_response = c.final_response
  /\ d.hydration_items = c.hydration_items

LEMMA SubmitInv == ASSUME Inv, NEW t \in Turns, Submit(t) PROVE Inv'
<1>1. /\ pc[t] \in Active /\ pc[t] # "recording" /\ Following(pc[t]) = "intake"
      /\ memory' = memory /\ writing' = writing
  BY DEF Submit, Active, Steps, Following
<1>2. t \notin memory
  BY LiveFacts, <1>1 DEF Submit
<1>3. Passed("intake", NewContext)
  BY DEF Passed, PastIntake, PastSanitizer, PastNormalizer, PastVerifier, PastDraft
<1>4. /\ ~NewContext.blocked /\ ~NewContext.failed
      /\ NewContext.current_stage = "intake"
      /\ ~NewContext.sanitization_blocked /\ ~NewContext.verifier_blocked
      /\ ~NewContext.filter_blocked /\ ~NewContext.final_response
      /\ NewContext.hydration_items = {}
  BY DEF NewContext
<1> QED
  BY <1>1, <1>2, <1>3, <1>4, LiveFacts, NewTypes, OriginNames, GoesInv DEF Submit

LEMMA IntakeInv ==
  ASSUME Inv, NEW t \in Turns,
         \/ IntakeRateLimited(t) \/ IntakeRefuse(t) \/ IntakeAdmit(t) \/ IntakeFault(t)
  PROVE  Inv'
<1>1. pc[t] = "intake" /\ pc[t] \in Active /\ memory' = memory /\ writing' = writing
  BY DEF IntakeRateLimited, IntakeRefuse, IntakeAdmit, IntakeFault, Active, Steps
<1>2. t \notin memory
  BY <1>1, LiveFacts
<1>3. ASSUME NEW r \in Reasons, Blocks(t, ctx[t], r, "intake") PROVE Inv'
  BY <1>1, <1>2, <1>3, LiveFacts, OriginNames, BlocksInv
<1>4. CASE IntakeRateLimited(t)
  BY <1>3, <1>4 DEF IntakeRateLimited, Reasons
<1>5. CASE IntakeRefuse(t)
  <2>1. PICK i \in Input : Refusal(i) # "none" /\ Blocks(t, ctx[t], Refusal(i), "intake")
    BY <1>5 DEF IntakeRefuse
  <2>2. Refusal(i) \in Reasons
    BY <2>1 DEF Refusal, Reasons
  <2> QED BY <1>3, <2>1, <2>2
<1>6. CASE IntakeAdmit(t)
  <2>1. PICK i \in Input :
          /\ Refusal(i) = "none"
          /\ Commit(t, FlowNext(flow[t], "raw", "intake"),
                    Advance([ctx[t] EXCEPT !.modality = Detected(i)], "intake"))
    BY <1>6 DEF IntakeAdmit
  <2>2. Detected(i) \in Modality
    BY <2>1 DEF Refusal, Detected, Input, Modality
  <2> DEFINE c == Advance([ctx[t] EXCEPT !.modality = Detected(i)], "intake")
  <2>3. ctx[t] \in Context /\ "intake" \in Stage
    BY <1>1, LiveFacts DEF Stage
  <2>4. c \in Context
    BY <2>2, <2>3 DEF Advance, Context
  <2>5. /\ c.modality = Detected(i) /\ c.current_stage = "intake"
        /\ SameMarks(ctx[t], c)
    BY <2>3 DEF Advance, Context, SameMarks
  <2> HIDE DEF c
  <2>6. Passed("sanitizer", c)
    BY <2>2, <2>5 DEF Passed, PastSanitizer, PastNormalizer, PastVerifier, PastDraft
  <2>7. Following(pc[t]) = "sanitizer"
    BY <1>1 DEF Following
  <2> DEFINE f == FlowNext(flow[t], "raw", "intake")
  <2>8. /\ f \in FlowType /\ f.status = "ok"
        /\ \A o \in {"sanitizer", "verifier", "filter"} : ~BlockedAt(f, o)
    BY <1>1, LiveFacts, NextTypes, OriginNames DEF Payload
  <2>9. Commit(t, f, c)
    BY <2>1 DEF c
  <2> HIDE DEF f
  <2> QED
    BY <1>1, <1>2, <2>4, <2>5, <2>6, <2>7, <2>8, <2>9, LiveFacts, GoesInv
    DEF SameMarks
<1>7. CASE IntakeFault(t)
  BY <1>1, <1>2, <1>7, LiveFacts, OriginNames, FailsInv DEF IntakeFault, Errors, Gated
<1> QED BY <1>4, <1>5, <1>6, <1>7

LEMMA SanitizerInv ==
  ASSUME Inv, NEW t \in Turns,
         \/ PreSanitizationBlock(t) \/ SanitizerFault(t) \/ WorkerReport(t)
  PROVE  Inv'
<1>1. pc[t] = "sanitizer" /\ pc[t] \in Active /\ memory' = memory /\ writing' = writing
  BY DEF PreSanitizationBlock, SanitizerFault, WorkerReport, Active, Steps
<1>2. /\ t \notin memory /\ ctx[t] \in Context /\ ctx[t].modality \in Modality
      /\ writing[t] # "running"
  BY <1>1, LiveFacts DEF Passed, PastIntake
<1> DEFINE c == Sanitizing(t)
<1>3. /\ c \in Context /\ c.modality = ctx[t].modality
      /\ SameMarks(ctx[t], c) /\ c.current_stage = "sanitizing"
  <2>1. "sanitizing" \in Stage
    BY DEF Stage
  <2> QED BY <1>2, <2>1 DEF Sanitizing, Advance, Context, SameMarks
<1> HIDE DEF c
<1>4. CASE PreSanitizationBlock(t)
  <2> DEFINE d == [c EXCEPT !.sanitization = "pre", !.sanitization_blocked = TRUE]
  <2>1. d \in Context
    BY <1>3 DEF Context
  <2>2. /\ d.sanitization_blocked
        /\ d.failed = c.failed /\ d.final_response = c.final_response
        /\ d.verifier_blocked = c.verifier_blocked /\ d.filter_blocked = c.filter_blocked
        /\ d.hydration_items = c.hydration_items
    BY <1>3 DEF Context
  <2>3. Blocks(t, d, "malicious_content", "sanitizer")
    BY <1>4 DEF PreSanitizationBlock, c
  <2> HIDE DEF d
  <2>4. "malicious_content" \in Reasons
    BY DEF Reasons
  <2> QED
    BY <1>1, <1>2, <1>3, <2>1, <2>2, <2>3, <2>4, LiveFacts, OriginNames, BlocksInv
    DEF SameMarks
<1>5. CASE SanitizerFault(t)
  <2>1. Fails(t, c, "infrastructure", "sanitizer")
    BY <1>5 DEF SanitizerFault, c
  <2>2. "infrastructure" \in Errors
    BY DEF Errors
  <2> QED
    BY <1>1, <1>2, <1>3, <2>1, <2>2, LiveFacts, OriginNames, FailsInv
    DEF SameMarks, Gated
<1>6. CASE WorkerReport(t)
  <2>1. PICK threat \in ThreatLevel, rewritten \in BOOLEAN :
          LET report == [c EXCEPT !.sanitization = "report",
                                  !.sanitization_blocked = ShouldBlock(threat)]
          IN \/ /\ ShouldBlock(threat)
                /\ Blocks(t, report, "malicious_content", "sanitizer")
             \/ /\ ~ShouldBlock(threat)
                /\ Commit(t, FlowNext(flow[t],
                                      IF rewritten THEN "sanitized" ELSE flow[t].payload,
                                      "sanitizer"),
                          report)
    BY <1>6 DEF WorkerReport, c
  <2> DEFINE d == [c EXCEPT !.sanitization = "report",
                            !.sanitization_blocked = ShouldBlock(threat)]
  <2>2. ShouldBlock(threat) \in BOOLEAN
    BY DEF ShouldBlock
  <2>3. d \in Context
    BY <1>3, <2>2 DEF Context
  <2>4. /\ d.sanitization_blocked = ShouldBlock(threat)
        /\ d.sanitization = "report" /\ d.modality = c.modality
        /\ d.current_stage = c.current_stage
        /\ d.blocked = c.blocked
        /\ d.failed = c.failed /\ d.final_response = c.final_response
        /\ d.verifier_blocked = c.verifier_blocked /\ d.filter_blocked = c.filter_blocked
        /\ d.hydration_items = c.hydration_items
    BY <1>3 DEF Context
  <2> HIDE DEF d
  <2>5. CASE ShouldBlock(threat)
    <3>1. Blocks(t, d, "malicious_content", "sanitizer")
      BY <2>1, <2>5 DEF d
    <3>2. "malicious_content" \in Reasons
      BY DEF Reasons
    <3> QED
      BY <1>1, <1>2, <1>3, <2>3, <2>4, <2>5, <3>1, <3>2, LiveFacts, OriginNames, BlocksInv
      DEF SameMarks
  <2>6. CASE ~ShouldBlock(threat)
    <3> DEFINE p == IF rewritten THEN "sanitized" ELSE flow[t].payload
               f == FlowNext(flow[t], p, "sanitizer")
    <3>1. Commit(t, f, d)
      BY <2>1, <2>6 DEF d
    <3>2. p \in Payload
      BY <1>1, LiveFacts DEF Payload, FlowType
    <3> HIDE DEF p
    <3>3. /\ f \in FlowType /\ f.status = "ok"
          /\ \A o \in {"sanitizer", "verifier", "filter"} : ~BlockedAt(f, o)
      BY <1>1, <3>2, LiveFacts, NextTypes, OriginNames
    <3> HIDE DEF f
    <3>4. Passed("normalizer", d)
      BY <1>2, <1>3, <2>4 DEF Passed, PastNormalizer, PastVerifier, PastDraft
    <3>5. Following(pc[t]) = "normalizer"
      BY <1>1 DEF Following
    <3> QED
      BY <1>1, <1>2, <1>3, <2>3, <2>4, <2>6, <3>1, <3>3, <3>4, <3>5, LiveFacts, GoesInv
      DEF SameMarks
  <2> QED BY <2>5, <2>6
<1> QED BY <1>4, <1>5, <1>6

LEMMA NormalizePayloadType ==
  ASSUME NEW modality \in Modality, NEW text \in {"empty", "text"}
  PROVE  NormalizePayload(modality, text) \in NormalizedInput
BY DEF NormalizePayload, NormalizedText, PreserveNative, RequiresExpert, NormalizedInput,
       Modality, NativeModalities, TextModalities

LEMMA NormalizerInv ==
  ASSUME Inv, NEW t \in Turns, Normalize(t) \/ NormalizerFault(t)
  PROVE  Inv'
<1>1. pc[t] = "normalizer" /\ pc[t] \in Active /\ memory' = memory /\ writing' = writing
  BY DEF Normalize, NormalizerFault, Active, Steps
<1>2. /\ t \notin memory /\ ctx[t] \in Context
      /\ ctx[t].modality \in Modality /\ ctx[t].sanitization = "report"
  BY <1>1, LiveFacts DEF Passed, PastIntake, PastSanitizer
<1>3. CASE Normalize(t)
  <2>1. PICK text \in {"empty", "text"} :
          Commit(t, FlowNext(flow[t], "normalized", "normalizer"),
              Advance([ctx[t] EXCEPT
                         !.normalized_input = NormalizePayload(ctx[t].modality, text)],
                      "normalizing"))
    BY <1>3 DEF Normalize
  <2> DEFINE n == NormalizePayload(ctx[t].modality, text)
             c == Advance([ctx[t] EXCEPT !.normalized_input = n], "normalizing")
             f == FlowNext(flow[t], "normalized", "normalizer")
  <2>2. n \in NormalizedInput /\ n # None
    BY <1>2, NormalizePayloadType, PipelineAssumption
  <2>3. Commit(t, f, c)
    BY <2>1
  <2> HIDE DEF n
  <2>4. c \in Context
    <3>1. "normalizing" \in Stage
      BY DEF Stage
    <3> QED BY <1>2, <2>2, <3>1 DEF Advance, Context
  <2>5. /\ c.normalized_input = n /\ c.current_stage = "normalizing"
        /\ c.modality = ctx[t].modality /\ c.sanitization = ctx[t].sanitization
        /\ SameMarks(ctx[t], c)
    BY <1>2 DEF Advance, Context, SameMarks
  <2>6. /\ f \in FlowType /\ f.status = "ok"
        /\ \A o \in {"sanitizer", "verifier", "filter"} : ~BlockedAt(f, o)
    BY <1>1, LiveFacts, NextTypes, OriginNames DEF Payload
  <2> HIDE DEF c, f
  <2>7. Passed("verifier", c)
    BY <1>2, <2>2, <2>5 DEF Passed, PastVerifier, PastDraft
  <2>8. Following(pc[t]) = "verifier"
    BY <1>1 DEF Following
  <2> QED
    BY <1>1, <1>2, <2>3, <2>4, <2>5, <2>6, <2>7, <2>8, LiveFacts, GoesInv
    DEF SameMarks
<1>4. CASE NormalizerFault(t)
  BY <1>1, <1>2, <1>4, LiveFacts, OriginNames, FailsInv DEF NormalizerFault, Errors, Gated
<1> QED BY <1>3, <1>4

LEMMA VerdictTypes ==
  ASSUME NEW n \in NormalizedInput, NEW v \in Verdicts(n)
  PROVE  /\ v \in VerificationResult
         /\ NeedsModel(n) => v.ran
<1>1. \A r \in LLMResult : /\ CoerceConsistent(r) \in VerificationResult
                           /\ CoerceConsistent(r).ran
  BY DEF LLMResult, CoerceConsistent, VerificationResult, Verdict, ThreatLevel,
         ShouldBlock, ShouldWarn
<1>2. VerifyDeterministic(n) \in VerificationResult
  BY DEF VerifyDeterministic, VerificationResult, Verdict, ThreatLevel
<1> QED BY <1>1, <1>2 DEF Verdicts

LEMMA VerifierInv ==
  ASSUME Inv, NEW t \in Turns,
         VerifierHandoffFault(t) \/ VerifierModelFault(t) \/ Verify(t)
  PROVE  Inv'
<1>1. pc[t] = "verifier" /\ pc[t] \in Active /\ memory' = memory /\ writing' = writing
  BY DEF VerifierHandoffFault, VerifierModelFault, Verify, Active, Steps
<1>2. /\ t \notin memory /\ ctx[t] \in Context /\ writing[t] # "running"
      /\ ctx[t].modality \in Modality /\ ctx[t].sanitization = "report"
      /\ ctx[t].normalized_input # None
  BY <1>1, LiveFacts DEF Passed, PastIntake, PastSanitizer, PastNormalizer
<1>3. ctx[t].normalized_input \in NormalizedInput
  BY <1>2 DEF Context
<1> DEFINE n == ctx[t].normalized_input
           c == Verifying(t)
<1>4. /\ c \in Context /\ c.modality = ctx[t].modality
      /\ c.sanitization = ctx[t].sanitization /\ c.normalized_input = n
      /\ SameMarks(ctx[t], c) /\ c.current_stage = "verifying"
  <2>1. "verifying" \in Stage
    BY DEF Stage
  <2> QED BY <1>2, <2>1 DEF Verifying, Advance, Context, SameMarks
<1> HIDE DEF c, n
<1>5. ASSUME NEW e \in Errors, Fails(t, c, e, "verifier") PROVE Inv'
  BY <1>1, <1>2, <1>4, <1>5, LiveFacts, OriginNames, FailsInv DEF SameMarks, Gated
<1>6. CASE VerifierHandoffFault(t)
  BY <1>5, <1>6 DEF VerifierHandoffFault, Errors, c
<1>7. CASE VerifierModelFault(t)
  BY <1>5, <1>7 DEF VerifierModelFault, Errors, c
<1>8. CASE Verify(t)
  <2>1. PICK v \in Verdicts(n) :
         LET d == [c EXCEPT !.verifier_result = v, !.verifier_blocked = VerdictBlocks(v)]
         IN \/ /\ VerdictBlocks(v)
               /\ \E reason \in BlockReasons(v) : Blocks(t, d, reason, "verifier")
            \/ /\ ~VerdictBlocks(v) /\ VerdictWarns(v)
               /\ Commit(t, FlowWarn(Load(flow[t]), "verifier"), d)
            \/ /\ ~VerdictBlocks(v) /\ ~VerdictWarns(v)
               /\ Commit(t, FlowNext(flow[t], "normalized", "verifier"), d)
    BY <1>8 DEF Verify, c, n
  <2> DEFINE d == [c EXCEPT !.verifier_result = v, !.verifier_blocked = VerdictBlocks(v)]
  <2>2. v \in VerificationResult /\ (NeedsModel(n) => v.ran) /\ v # None
    BY <1>3, VerdictTypes, PipelineAssumption DEF n
  <2>3. VerdictBlocks(v) \in BOOLEAN
    BY <2>2 DEF VerdictBlocks, ShouldBlock
  <2>4. d \in Context
    BY <1>4, <2>2, <2>3 DEF Context
  <2>5. /\ d.verifier_blocked = VerdictBlocks(v) /\ d.verifier_result = v
        /\ d.sanitization = c.sanitization /\ d.modality = c.modality
        /\ d.normalized_input = c.normalized_input
        /\ d.current_stage = c.current_stage /\ d.blocked = c.blocked
        /\ d.failed = c.failed /\ d.final_response = c.final_response
        /\ d.sanitization_blocked = c.sanitization_blocked
        /\ d.filter_blocked = c.filter_blocked /\ d.hydration_items = c.hydration_items
    BY <1>4 DEF Context
  <2>6. CASE VerdictBlocks(v)
    <3>1. PICK reason \in BlockReasons(v) : Blocks(t, d, reason, "verifier")
      BY <2>1, <2>6
    <3>2. reason \in Reasons
      BY <3>1 DEF BlockReasons, Reasons
    <3> HIDE DEF d
    <3>3. d.verifier_blocked = TRUE
      BY <2>5, <2>6
    <3>4. /\ ~d.failed /\ ~d.final_response /\ t \notin d.hydration_items
          /\ ~d.sanitization_blocked /\ ~d.filter_blocked
      BY <1>1, <1>4, <2>5, LiveFacts DEF SameMarks
    <3>5. /\ d.sanitization_blocked <=> "verifier" = "sanitizer"
          /\ d.verifier_blocked <=> "verifier" = "verifier"
          /\ d.filter_blocked <=> "verifier" = "filter"
      BY <3>3, <3>4
    <3> QED
      BY <1>1, <1>2, <2>4, <3>1, <3>2, <3>4, <3>5, OriginNames, BlocksInv
  <2>7. ASSUME ~VerdictBlocks(v), NEW f \in FlowType, f.status \in {"ok", "warn"},
               \A o \in {"sanitizer", "verifier", "filter"} : ~BlockedAt(f, o),
               Commit(t, f, d)
        PROVE  Inv'
    <3> HIDE DEF d
    <3>1. Following(pc[t]) = "orchestrator"
      BY <1>1 DEF Following
    <3>2. VerifierCleared(d)
      BY <1>4, <2>2, <2>5, <2>7 DEF VerifierCleared
    <3>3. Passed("orchestrator", d)
      BY <1>2, <1>4, <2>5, <3>2, <1>3, PipelineAssumption DEF Passed, PastDraft, n
    <3> QED
      BY <1>1, <1>2, <1>4, <2>4, <2>5, <2>7, <3>1, <3>3, LiveFacts, GoesInv
      DEF SameMarks
  <2>8. CASE ~VerdictBlocks(v) /\ VerdictWarns(v)
    <3> DEFINE f == FlowWarn(Load(flow[t]), "verifier")
    <3>1. Load(flow[t]) \in FlowType
      BY <1>1, LiveFacts, LoadTypes
    <3>2. /\ f \in FlowType /\ f.status = "warn"
          /\ \A o \in {"sanitizer", "verifier", "filter"} : ~BlockedAt(f, o)
      BY <3>1, WarnTypes, OriginNames
    <3>3. Commit(t, f, d)
      BY <2>1, <2>8
    <3> HIDE DEF f, d
    <3> QED BY <2>7, <2>8, <3>2, <3>3
  <2>9. CASE ~VerdictBlocks(v) /\ ~VerdictWarns(v)
    <3> DEFINE f == FlowNext(flow[t], "normalized", "verifier")
    <3>1. /\ f \in FlowType /\ f.status = "ok"
          /\ \A o \in {"sanitizer", "verifier", "filter"} : ~BlockedAt(f, o)
      BY <1>1, LiveFacts, NextTypes, OriginNames DEF Payload
    <3>2. Commit(t, f, d)
      BY <2>1, <2>9
    <3> HIDE DEF f, d
    <3> QED BY <2>7, <2>9, <3>1, <3>2
  <2> QED BY <2>6, <2>8, <2>9
<1> QED BY <1>6, <1>7, <1>8

LEMMA OrchestratorInv ==
  ASSUME Inv, NEW t \in Turns,
         Hydrate(t) \/ Draft(t) \/ OrchestratorFault(t) \/ RecordProposals(t)
  PROVE  Inv'
<1>1. pc[t] \in {"orchestrator", "thinking", "recording"} /\ pc[t] \in Active
  BY DEF Hydrate, Draft, OrchestratorFault, RecordProposals, Active, Steps
<1>2. /\ pc[t] # "recording" => t \notin memory
      /\ ctx[t] \in Context
      /\ ctx[t].modality \in Modality /\ ctx[t].sanitization = "report"
      /\ ctx[t].normalized_input # None /\ VerifierCleared(ctx[t])
      /\ pc[t] = "recording" => ctx[t].orchestrator_response
  BY <1>1, LiveFacts
  DEF Passed, PastIntake, PastSanitizer, PastNormalizer, PastVerifier, PastDraft
<1>3. "orchestrating" \in Stage
  BY DEF Stage
<1>4. CASE Hydrate(t)
  <2>1. PICK items \in SUBSET memory :
          Commit(t, Load(flow[t]),
              Advance([ctx[t] EXCEPT !.hydration_items = items], "orchestrating"))
    BY <1>4 DEF Hydrate
  <2> DEFINE c == Advance([ctx[t] EXCEPT !.hydration_items = items], "orchestrating")
             f == Load(flow[t])
  <2>2. items \in SUBSET Turns /\ t \notin items
    BY <1>2, <1>4 DEF Hydrate, Inv, TypeOK
  <2>3. c \in Context
    BY <1>2, <1>3, <2>2 DEF Advance, Context
  <2>4. /\ c.hydration_items = items /\ c.current_stage = "orchestrating"
        /\ c.modality = ctx[t].modality /\ c.sanitization = ctx[t].sanitization
        /\ c.normalized_input = ctx[t].normalized_input
        /\ c.verifier_result = ctx[t].verifier_result
        /\ c.blocked = ctx[t].blocked /\ c.failed = ctx[t].failed
        /\ c.sanitization_blocked = ctx[t].sanitization_blocked
        /\ c.verifier_blocked = ctx[t].verifier_blocked
        /\ c.filter_blocked = ctx[t].filter_blocked
        /\ c.final_response = ctx[t].final_response
    BY <1>2 DEF Advance, Context, SameMarks
  <2>5. /\ f \in FlowType /\ f.status \in {"ok", "warn"}
        /\ \A o \in {"sanitizer", "verifier", "filter"} : ~BlockedAt(f, o)
    BY <1>1, LiveFacts, LoadTypes, OriginNames
  <2> HIDE DEF c, f
  <2>6. pc[t] = "orchestrator" /\ Following(pc[t]) = "thinking" /\ memory' = memory /\ writing' = writing
    BY <1>4 DEF Hydrate, Following
  <2>7. Passed("thinking", c)
    BY <1>2, <2>4 DEF Passed, VerifierCleared, PastDraft
  <2>8. Commit(t, f, c)
    BY <2>1 DEF f, c
  <2> QED
    BY <1>1, <1>2, <2>2, <2>3, <2>4, <2>5, <2>6, <2>7, <2>8, LiveFacts, GoesInv
<1>5. CASE Draft(t)
  <2> DEFINE c == [ctx[t] EXCEPT !.orchestrator_response = TRUE,
                                 !.memory_writes_requested = TRUE]
  <2>1. c \in Context
    BY <1>2 DEF Context
  <2>2. /\ c.orchestrator_response /\ c.current_stage = ctx[t].current_stage
        /\ c.modality = ctx[t].modality /\ c.sanitization = ctx[t].sanitization
        /\ c.normalized_input = ctx[t].normalized_input
        /\ c.verifier_result = ctx[t].verifier_result
        /\ SameMarks(ctx[t], c)
    BY <1>2 DEF Context, SameMarks
  <2>3. Commit(t, flow[t], c) /\ pc[t] = "thinking" /\ memory' = memory /\ writing' = writing
    BY <1>5 DEF Draft
  <2> HIDE DEF c
  <2>4. Following(pc[t]) = "recording"
    BY <2>3 DEF Following
  <2>5. Passed("recording", c)
    BY <1>2, <2>2 DEF Passed, VerifierCleared
  <2> QED
    BY <1>1, <1>2, <2>1, <2>2, <2>3, <2>4, <2>5, LiveFacts, GoesInv DEF SameMarks
<1>6. CASE OrchestratorFault(t)
  <2> DEFINE c == Advance(ctx[t], "orchestrating")
  <2>1. c \in Context /\ SameMarks(ctx[t], c)
    BY <1>2, <1>3 DEF Advance, Context, SameMarks
  <2>2. /\ Fails(t, c, "infrastructure", "orchestrator") /\ memory' = memory
        /\ writing' = writing /\ pc[t] # "recording"
    BY <1>6 DEF OrchestratorFault
  <2> HIDE DEF c
  <2>3. "infrastructure" \in Errors
    BY DEF Errors
  <2> QED
    BY <1>1, <1>2, <2>1, <2>2, <2>3, LiveFacts, OriginNames, FailsInv
    DEF SameMarks, Gated
<1>7. CASE RecordProposals(t)
  <2> DEFINE f == FlowNext(flow[t], "draft", "orchestrator")
  <2>1. /\ Commit(t, f, ctx[t]) /\ memory' = memory /\ writing' = writing
        /\ pc[t] = "recording" /\ writing[t] # "running"
    BY <1>7 DEF RecordProposals
  <2>2. /\ f \in FlowType /\ f.status = "ok"
        /\ \A o \in {"sanitizer", "verifier", "filter"} : ~BlockedAt(f, o)
    BY <1>1, LiveFacts, NextTypes, OriginNames DEF Payload
  <2> HIDE DEF f
  <2>3. Following(pc[t]) = "filter"
    BY <2>1 DEF Following
  <2>4. Passed("filter", ctx[t])
    BY <1>2, <2>1 DEF Passed
  <2>5. Vetted("filter", ctx[t])
    BY <1>1, <1>2, <2>1, LiveFacts DEF Vetted, FromRecording, VerifierCleared
  <2> QED
    BY <1>1, <1>2, <2>1, <2>2, <2>3, <2>4, <2>5, LiveFacts, GoesInv
<1> QED BY <1>4, <1>5, <1>6, <1>7

LEMMA FilterInv ==
  ASSUME Inv, NEW t \in Turns, Filter(t) \/ FilterFault(t)
  PROVE  Inv'
<1>1. pc[t] = "filter" /\ pc[t] \in Active /\ memory' = memory /\ writing' = writing
  BY DEF Filter, FilterFault, Active, Steps
<1>2. /\ ctx[t] \in Context /\ writing[t] # "running"
      /\ ctx[t].modality \in Modality /\ ctx[t].sanitization = "report"
      /\ ctx[t].normalized_input # None /\ VerifierCleared(ctx[t])
      /\ ctx[t].orchestrator_response
  BY <1>1, LiveFacts
  DEF Passed, PastIntake, PastSanitizer, PastNormalizer, PastVerifier, PastDraft
<1> DEFINE c == Advance(ctx[t], "filtering")
<1>3. /\ c \in Context /\ c.current_stage = "filtering"
      /\ c.modality = ctx[t].modality /\ c.sanitization = ctx[t].sanitization
      /\ c.normalized_input = ctx[t].normalized_input
      /\ c.verifier_result = ctx[t].verifier_result
      /\ c.orchestrator_response = ctx[t].orchestrator_response
      /\ SameMarks(ctx[t], c)
  <2>1. "filtering" \in Stage
    BY DEF Stage
  <2> QED BY <1>2, <2>1 DEF Advance, Context, SameMarks
<1> HIDE DEF c
<1>4. CASE FilterFault(t)
  <2>1. Fails(t, c, "model", "filter") /\ "model" \in Errors
    BY <1>4 DEF FilterFault, Errors, c
  <2>2. Vetted("done", c)
    BY <1>1, <1>2, <1>3, LiveFacts DEF Vetted, FromRecording, VerifierCleared, SameMarks
  <2> QED
    BY <1>1, <1>2, <1>3, <2>1, <2>2, LiveFacts, OriginNames, FailsInv
    DEF SameMarks, Gated
<1>5. CASE Filter(t)
  <2>1. PICK r \in FilterResult :
         LET d == [c EXCEPT !.filter_result = r, !.filter_blocked = ~r.proceed]
         IN \/ ~r.proceed /\ Blocks(t, d, "filter_rejected", "filter")
            \/ r.proceed /\ Commit(t, FlowNext(flow[t], "draft", "filter"), d)
    BY <1>5 DEF Filter, c
  <2> DEFINE d == [c EXCEPT !.filter_result = r, !.filter_blocked = ~r.proceed]
  <2>2. r.proceed \in BOOLEAN
    BY DEF FilterResult
  <2>3. d \in Context
    BY <1>3, <2>2 DEF Context
  <2>4. /\ d.filter_result = r /\ d.filter_blocked = ~r.proceed
        /\ d.modality = c.modality /\ d.sanitization = c.sanitization
        /\ d.normalized_input = c.normalized_input
        /\ d.verifier_result = c.verifier_result
        /\ d.orchestrator_response = c.orchestrator_response
        /\ d.current_stage = c.current_stage /\ d.blocked = c.blocked
        /\ d.failed = c.failed /\ d.final_response = c.final_response
        /\ d.sanitization_blocked = c.sanitization_blocked
        /\ d.verifier_blocked = c.verifier_blocked
        /\ d.hydration_items = c.hydration_items
    BY <1>3 DEF Context
  <2>5. ASSUME NEW p \in {"delivery", "done"} PROVE Vetted(p, d)
    <3> HIDE DEF d
    <3> QED
      BY <1>1, <1>2, <1>3, <2>4, LiveFacts DEF Vetted, FromRecording, VerifierCleared, SameMarks
  <2>6. CASE ~r.proceed
    <3>1. Blocks(t, d, "filter_rejected", "filter")
      BY <2>1, <2>6
    <3>2. "filter_rejected" \in Reasons
      BY DEF Reasons
    <3> HIDE DEF d
    <3>3. /\ ~d.failed /\ ~d.final_response /\ t \notin d.hydration_items
          /\ ~d.sanitization_blocked /\ ~d.verifier_blocked /\ d.filter_blocked
      BY <1>1, <1>3, <2>4, <2>6, LiveFacts DEF SameMarks
    <3> QED
      BY <1>1, <1>2, <2>3, <2>5, <3>1, <3>2, <3>3, OriginNames, BlocksInv
  <2>7. CASE r.proceed
    <3> DEFINE f == FlowNext(flow[t], "draft", "filter")
    <3>1. Commit(t, f, d)
      BY <2>1, <2>7
    <3>2. /\ f \in FlowType /\ f.status = "ok"
          /\ \A o \in {"sanitizer", "verifier", "filter"} : ~BlockedAt(f, o)
      BY <1>1, LiveFacts, NextTypes, OriginNames DEF Payload
    <3> HIDE DEF d, f
    <3>3. Following(pc[t]) = "delivery"
      BY <1>1 DEF Following
    <3>4. r # None
      BY PipelineAssumption
    <3>5. Passed("delivery", d)
      BY <1>2, <1>3, <2>4, <2>7, <3>4 DEF Passed, FilterCleared, VerifierCleared
    <3>6. /\ ~d.blocked /\ ~d.failed /\ ~d.final_response /\ t \notin d.hydration_items
          /\ d.current_stage = "filtering"
          /\ ~d.sanitization_blocked /\ ~d.verifier_blocked /\ ~d.filter_blocked
      BY <1>1, <1>3, <2>4, <2>7, LiveFacts DEF SameMarks
    <3> QED
      BY <1>1, <1>2, <2>3, <2>5, <3>1, <3>2, <3>3, <3>5, <3>6, GoesInv
  <2> QED BY <2>6, <2>7
<1> QED BY <1>4, <1>5

LEMMA DeliveryInv ==
  ASSUME Inv, NEW t \in Turns, Deliver(t) \/ DeliveryFault(t)
  PROVE  Inv'
<1>1. pc[t] = "delivery" /\ pc[t] \in Active /\ memory' = memory /\ writing' = writing
  BY DEF Deliver, DeliveryFault, Active, Steps
<1>2. /\ ctx[t] \in Context /\ ctx[t].sanitization = "report"
      /\ VerifierCleared(ctx[t]) /\ FilterCleared(ctx[t])
      /\ ctx[t].orchestrator_response
  BY <1>1, LiveFacts
  DEF Passed, PastIntake, PastSanitizer, PastNormalizer, PastVerifier, PastDraft
<1> DEFINE c == Delivering(t)
<1>3. /\ c \in Context /\ c.current_stage = "output"
      /\ c.sanitization = ctx[t].sanitization
      /\ c.normalized_input = ctx[t].normalized_input
      /\ c.verifier_result = ctx[t].verifier_result
      /\ c.filter_result = ctx[t].filter_result
      /\ c.orchestrator_response = ctx[t].orchestrator_response
      /\ c.hydration_items = ctx[t].hydration_items
      /\ c.blocked = ctx[t].blocked /\ c.failed = ctx[t].failed
      /\ c.sanitization_blocked = ctx[t].sanitization_blocked
      /\ c.verifier_blocked = ctx[t].verifier_blocked
      /\ c.filter_blocked = ctx[t].filter_blocked
  <2>1. "output" \in Stage
    BY DEF Stage
  <2> QED BY <1>2, <2>1 DEF Delivering, Advance, Context
<1> HIDE DEF c
<1>4. Gated(c)
  BY <1>1, <1>2, <1>3, LiveFacts DEF Gated, VerifierCleared, FilterCleared
<1>5. Vetted("done", c)
  BY <1>1, <1>2, <1>3, LiveFacts DEF Vetted, FromRecording, VerifierCleared
<1>6. CASE Deliver(t)
  <2> DEFINE f == FlowNext(flow[t], "final", "output")
  <2>1. Commit(t, f, c)
    BY <1>6 DEF Deliver, c
  <2>2. /\ f \in FlowType /\ f.status = "ok"
        /\ \A o \in {"sanitizer", "verifier", "filter"} : ~BlockedAt(f, o)
    BY <1>1, LiveFacts, NextTypes, OriginNames DEF Payload
  <2> HIDE DEF f
  <2>3. Following(pc[t]) = "done"
    BY <1>1 DEF Following
  <2>4. Passed("done", c)
    BY DEF Passed, PastIntake, PastSanitizer, PastNormalizer, PastVerifier, PastDraft, Active
  <2> QED
    BY <1>1, <1>3, <1>4, <1>5, <2>1, <2>2, <2>3, <2>4, LiveFacts, GoesInv
<1>7. CASE DeliveryFault(t)
  <2>1. Fails(t, c, "infrastructure", "output") /\ "infrastructure" \in Errors
    BY <1>7 DEF DeliveryFault, Errors, c
  <2> QED
    BY <1>1, <1>3, <1>4, <1>5, <2>1, LiveFacts, OriginNames, FailsInv
<1> QED BY <1>6, <1>7

LEMMA InterruptInv == ASSUME Inv, NEW t \in Turns, Interrupt(t) PROVE Inv'
<1>1. /\ pc' = [pc EXCEPT ![t] = "interrupted"]
      /\ flow' = flow /\ ctx' = ctx /\ memory' = memory /\ writing' = writing
  BY DEF Interrupt
<1>2. ASSUME NEW u \in Turns PROVE pc'[u] = IF u = t THEN "interrupted" ELSE pc[u]
  BY <1>1 DEF Inv, TypeOK
<1>3. TypeOK'
  BY <1>1 DEF Inv, TypeOK, Steps
<1>4. ASSUME NEW u \in Turns PROVE TurnInv(pc'[u], flow'[u], ctx'[u])
  <2>1. TurnInv(pc[u], flow[u], ctx[u])
    BY DEF Inv
  <2>2. TurnInv("interrupted", flow[u], ctx[u])
    BY <2>1 DEF TurnInv, Typed, Passed, Live, Active, PastIntake, PastSanitizer,
                PastNormalizer, PastVerifier, PastDraft, Steps
  <2> QED BY <1>1, <1>2, <2>1, <2>2
<1>5. ASSUME NEW u \in memory PROVE Vetted(pc'[u], ctx'[u]) /\ writing'[u] = "over"
  <2>1. u \in Turns /\ Vetted(pc[u], ctx[u]) /\ writing[u] = "over"
    BY DEF Inv, TypeOK
  <2> QED BY <1>1, <1>2, <2>1 DEF Vetted, FromRecording
<1>6. ASSUME NEW u \in Turns, writing'[u] = "running"
      PROVE  Storing(pc'[u], flow'[u], ctx'[u])
  <2>1. Storing(pc[u], flow[u], ctx[u])
    BY <1>1, <1>6 DEF Inv
  <2> QED BY <1>1, <1>2, <2>1 DEF Storing, Vetted, FromRecording
<1> QED BY <1>1, <1>3, <1>4, <1>5, <1>6 DEF Inv

\* The thread starts at a turn whose input passed and whose answer is there.
LEMMA StoreMemoryInv == ASSUME Inv, NEW t \in Turns, StoreMemory(t) PROVE Inv'
<1>1. /\ pc' = pc /\ flow' = flow /\ ctx' = ctx /\ memory' = memory
      /\ writing' = [writing EXCEPT ![t] = "running"]
      /\ pc[t] = "recording" /\ pc[t] \in Active /\ writing[t] = "none"
  BY DEF StoreMemory, Active, Steps
<1>2. \A u \in Turns : writing'[u] = IF u = t THEN "running" ELSE writing[u]
  BY <1>1 DEF Inv, TypeOK
<1>3. TypeOK'
  BY <1>1 DEF Inv, TypeOK
<1>4. t \notin memory
  BY <1>1 DEF Inv
<1>5. Storing(pc[t], flow[t], ctx[t])
  BY <1>1, LiveFacts
  DEF Storing, Vetted, FromRecording, ShouldStop, Passed, VerifierCleared, PastDraft,
      PastVerifier, PastNormalizer, PastSanitizer, PastIntake
<1> QED BY <1>1, <1>2, <1>3, <1>4, <1>5 DEF Inv, TypeOK

\* The thread ends: the turn is vetted, wherever it is by now.
LEMMA MemoryStoredInv == ASSUME Inv, NEW t \in Turns, MemoryStored(t) PROVE Inv'
<1>1. /\ pc' = pc /\ flow' = flow /\ ctx' = ctx
      /\ memory' \in {memory, memory \cup {t}}
      /\ writing' = [writing EXCEPT ![t] = "over"]
      /\ writing[t] = "running"
  BY DEF MemoryStored
<1>2. \A u \in Turns : writing'[u] = IF u = t THEN "over" ELSE writing[u]
  BY <1>1 DEF Inv, TypeOK
<1>3. TypeOK'
  BY <1>1 DEF Inv, TypeOK
<1>4. Vetted(pc[t], ctx[t])
  BY <1>1 DEF Inv, Storing
<1> QED BY <1>1, <1>2, <1>3, <1>4 DEF Inv, TypeOK

---------------------------------------------------------------------------
\* The theorems

LEMMA InitInv == Init => Inv
<1> SUFFICES ASSUME Init PROVE Inv
  OBVIOUS
<1>1. TypeOK
  BY NewTypes DEF Init, TypeOK, Steps
<1>2. ASSUME NEW t \in Turns PROVE TurnInv(pc[t], flow[t], ctx[t])
  <2>1. pc[t] = "start" /\ flow[t] = FlowNew("raw") /\ ctx[t] = NewContext
    BY DEF Init
  <2>2. Typed("start", FlowNew("raw"), NewContext)
    BY NewTypes DEF Typed, Steps
  <2>3. Passed("start", NewContext)
    BY DEF Passed, PastIntake, PastSanitizer, PastNormalizer, PastVerifier, PastDraft
  <2>4. /\ Live("start", FlowNew("raw"), NewContext)
        /\ Coherent(FlowNew("raw"), NewContext)
        /\ Gated(NewContext)
    BY NewTypes, OriginNames DEF Live, Coherent, Gated, NewContext, ShouldStop
  <2> QED BY <2>1, <2>2, <2>3, <2>4 DEF TurnInv
<1>3. /\ memory = {}
      /\ \A t \in Turns : ctx[t].hydration_items = {} /\ writing[t] = "none"
  BY DEF Init, NewContext
<1> QED BY <1>1, <1>2, <1>3 DEF Inv

LEMMA NextInv == Inv /\ [Next]_vars => Inv'
<1> SUFFICES ASSUME Inv, [Next]_vars PROVE Inv'
  OBVIOUS
<1>1. CASE UNCHANGED vars
  BY <1>1 DEF vars, Inv, TypeOK
<1>2. CASE Next
  <2>1. PICK t \in Turns :
          Submit(t) \/ Step(t) \/ StoreMemory(t) \/ MemoryStored(t) \/ Interrupt(t)
    BY <1>2 DEF Next
  <2>2. CASE Submit(t)
    BY <2>2, SubmitInv
  <2>3. CASE Interrupt(t)
    BY <2>3, InterruptInv
  <2>4. CASE Step(t)
    BY <2>4, IntakeInv, SanitizerInv, NormalizerInv, VerifierInv, OrchestratorInv,
       FilterInv, DeliveryInv DEF Step
  <2>5. CASE StoreMemory(t) \/ MemoryStored(t)
    BY <2>5, StoreMemoryInv, MemoryStoredInv
  <2> QED BY <2>1, <2>2, <2>3, <2>4, <2>5
<1> QED BY <1>1, <1>2

\* Inv is an invariant of the pipeline: every other theorem follows from it.
THEOREM Invariance == Spec => []Inv
BY InitInv, NextInv, PTL DEF Spec

\* Every variable keeps its type, for any set of turns and any capabilities.
THEOREM TypeCorrect == Spec => []TypeOK
<1>1. Inv => TypeOK
  BY DEF Inv
<1> QED BY <1>1, Invariance, PTL

\* No answer is released past a gate of its turn that did not pass it.
THEOREM GatesHold == Spec => []GatesBeforeRelease
<1>1. Inv => GatesBeforeRelease
  BY DEF Inv, TurnInv, Gated, VerifierCleared, FilterCleared, GatesBeforeRelease
<1> QED BY <1>1, Invariance, PTL

\* The flow and the context of a turn never disagree on how it stands.
THEOREM FlowAndContextAgree == Spec => []StatusCoherent
<1>1. Inv => StatusCoherent
  BY DEF Inv, TurnInv, Coherent, StatusCoherent
<1> QED BY <1>1, Invariance, PTL

\* Only turns behind the input gates are remembered, whatever interleaving.
THEOREM MemoryIsVetted == Spec => []MemoryVetted
<1>1. Inv => MemoryVetted
  BY DEF Inv, Vetted, MemoryVetted
<1> QED BY <1>1, Invariance, PTL

\* Every stage is a commit of its turn, and can only run on a live one.
LEMMA StepsCommit ==
  ASSUME NEW u \in Turns, Submit(u) \/ Step(u)
  PROVE  /\ pc[u] \in Active
         /\ memory' = memory /\ writing' = writing
         /\ pc[u] = "recording" => writing[u] # "running"
         /\ \E f, c : Commit(u, f, c)
<1> USE DEF Blocks, Fails, Active, Steps
<1>1. CASE Submit(u)
  BY <1>1 DEF Submit
<1>2. CASE IntakeRateLimited(u) \/ IntakeRefuse(u) \/ IntakeAdmit(u) \/ IntakeFault(u)
  BY <1>2 DEF IntakeRateLimited, IntakeRefuse, IntakeAdmit, IntakeFault
<1>3. CASE PreSanitizationBlock(u) \/ SanitizerFault(u) \/ WorkerReport(u)
  BY <1>3 DEF PreSanitizationBlock, SanitizerFault, WorkerReport
<1>4. CASE Normalize(u) \/ NormalizerFault(u)
  BY <1>4 DEF Normalize, NormalizerFault
<1>5. CASE VerifierHandoffFault(u) \/ VerifierModelFault(u) \/ Verify(u)
  BY <1>5 DEF VerifierHandoffFault, VerifierModelFault, Verify
<1>6. CASE Hydrate(u) \/ Draft(u) \/ OrchestratorFault(u) \/ RecordProposals(u)
  BY <1>6 DEF Hydrate, Draft, OrchestratorFault, RecordProposals
<1>7. CASE Filter(u) \/ FilterFault(u) \/ Deliver(u) \/ DeliveryFault(u)
  BY <1>7 DEF Filter, FilterFault, Deliver, DeliveryFault
<1> QED BY <1>1, <1>2, <1>3, <1>4, <1>5, <1>6, <1>7 DEF Step

\* A stopped flow never moves again, whatever other turns do.
THEOREM StopIsFinal == Spec => StoppedIsFinal
<1> DEFINE Kept(t) == ShouldStop(flow[t]) =>
              /\ flow'[t] = flow[t]
              /\ ctx'[t] = ctx[t]
              /\ t \in memory' <=> t \in memory
<1>1. ASSUME Inv, Next, NEW t \in Turns, ShouldStop(flow[t])
      PROVE  /\ flow'[t] = flow[t]
             /\ ctx'[t] = ctx[t]
             /\ t \in memory' <=> t \in memory
  <2>1. pc[t] \notin Active
    BY <1>1 DEF Inv, TurnInv, Live
  <2>2. PICK u \in Turns :
          Submit(u) \/ Step(u) \/ StoreMemory(u) \/ MemoryStored(u) \/ Interrupt(u)
    BY <1>1 DEF Next
  <2>3. CASE StoreMemory(u) \/ Interrupt(u)
    BY <2>3 DEF StoreMemory, Interrupt
  <2>5. CASE MemoryStored(u)
    <3>1. u # t
      BY <1>1, <2>5 DEF MemoryStored, Inv, Storing
    <3> QED BY <2>5, <3>1 DEF MemoryStored
  <2>4. CASE Submit(u) \/ Step(u)
    <3>1. PICK f, c : Commit(u, f, c)
      BY <2>4, StepsCommit
    <3>2. u # t /\ memory' = memory
      BY <2>1, <2>4, StepsCommit
    <3> QED BY <1>1, <3>1, <3>2 DEF Commit, Inv, TypeOK
  <2> QED BY <2>2, <2>3, <2>4, <2>5
<1>2. Inv /\ [Next]_vars => [\A t \in Turns : Kept(t)]_vars
  BY <1>1
<1> QED BY <1>2, Invariance, PTL DEF Spec, StoppedIsFinal

---------------------------------------------------------------------------
\* The chain of a turn: its journal, its hand-over, its promise

\* The journal of a turn under way has one entry for every stage passed.
Entries(p) ==
  CASE p \in {"start", "intake"}                       -> 1
    [] p = "sanitizer"                                 -> 2
    [] p = "normalizer"                                -> 3
    [] p = "verifier"                                  -> 4
    [] p \in {"orchestrator", "thinking", "recording"} -> 5
    [] p = "filter"                                    -> 6
    [] OTHER                                           -> 7

\* A live turn has as many entries as its step says.
Journaled(p, f) == p \in Active => Len(f.journal) = Entries(p)

\* What the verifier's structural checks find out about what it hands on.
Routed(n) == ~VerifierFault(n) /\ ~RoutingBlocks(n)

\* The turn carries what the normalizer builds for its modality.
Normalized(c) == \E text \in {"empty", "text"} :
                   c.normalized_input = NormalizePayload(c.modality, text)

\* What is handed over at the normalizer and the verifier, where a turn can
\* only end with a handoff error if its text is empty.
Handed(p, c) ==
  /\ p \in Active => c.failure_error # "handoff"
  /\ p \in PastNormalizer => Normalized(c)
  /\ p = "orchestrator" => Routed(c.normalized_input)
  /\ c.failure_error = "handoff" =>
       c.normalized_input.modality = "text" /\ c.normalized_input.content = "empty"

\* The second inductive invariant, on top of Inv: also of a turn whose thread
\* outlives it.
Chained ==
  \A t \in Turns :
    /\ Journaled(pc[t], flow[t])
    /\ Handed(pc[t], ctx[t])
    /\ writing[t] = "running" => Len(flow[t].journal) = 5

---------------------------------------------------------------------------
\* The four effects a stage can have on its turn: it hands the flow on, it
\* is only a part of its stage, it stops the turn, or it delivers.

\* The step a commit of f takes the turn to.
After(t, f) == IF ShouldStop(f) THEN "done" ELSE Following(pc[t])

\* f has the entry of the stage on top.
Grown(t, f) == Len(f.journal) = Len(flow[t].journal) + 1

Onward(t, f, c) ==
  /\ pc[t] \in {"intake", "sanitizer", "normalizer", "verifier", "recording", "filter"}
  /\ ~ShouldStop(f) /\ Grown(t, f) /\ ~c.final_response
  /\ memory' = memory

Stays(t, f, c) ==
  /\ pc[t] \in {"start", "orchestrator", "thinking"}
  /\ ~ShouldStop(f) /\ Len(f.journal) = Len(flow[t].journal) /\ ~c.final_response
  /\ memory' = memory

Halts(t, f, c) ==
  /\ pc[t] \in Active \ {"start", "delivery"}
  /\ ShouldStop(f) /\ Grown(t, f) /\ ~c.final_response
  /\ memory' = memory

Delivers(t, f, c) ==
  /\ pc[t] = "delivery"
  /\ f.status \in {"ok", "error"} /\ Grown(t, f) /\ c.final_response
  /\ memory' = memory

\* The turn commits f and c, with one of the effects.
Effect(t, f, c) ==
  /\ Commit(t, f, c)
  /\ Onward(t, f, c) \/ Stays(t, f, c) \/ Halts(t, f, c) \/ Delivers(t, f, c)
  /\ Handed(After(t, f), c)

\* The fields of a context, which no stage adds to.
Fields == {"current_stage", "modality", "sanitization", "sanitization_blocked",
           "normalized_input", "verifier_result", "verifier_blocked", "hydration_items",
           "orchestrator_response", "memory_writes_requested", "filter_result",
           "filter_blocked", "final_response", "blocked", "block_reason", "failed",
           "failure_error"}

\* A context has these fields whatever a stage has set.
LEMMA ContextFields ==
  ASSUME NEW c \in Context
  PROVE  DOMAIN c = Fields
BY DEF Context, Fields

\* Every transition of a flow adds one entry and sets its own status.
LEMMA EntryAdded ==
  ASSUME NEW f \in FlowType, NEW origin, NEW payload
  PROVE  /\ Len(f.journal) \in Nat
         /\ Len(FlowBlock(f, origin).journal) = Len(f.journal) + 1
         /\ FlowBlock(f, origin).status = "blocked"
         /\ Len(FlowFail(f, origin).journal) = Len(f.journal) + 1
         /\ FlowFail(f, origin).status = "error"
         /\ Len(FlowWarn(f, origin).journal) = Len(f.journal) + 1
         /\ FlowWarn(f, origin).status = "warn"
         /\ Len(FlowNext(f, payload, origin).journal) = Len(f.journal) + 1
         /\ FlowNext(f, payload, origin).status = "ok"
<1>1. f.journal \in Seq([origin : Origin, status : Status])
  BY DEF FlowType
<1>2. ASSUME NEW entry
      PROVE  Len(Append(f.journal, entry)) = Len(f.journal) + 1 /\ Len(f.journal) \in Nat
  BY <1>1
<1>3. Len(f.journal) \in Nat
  BY <1>1
<1>4. /\ Len(FlowBlock(f, origin).journal) = Len(f.journal) + 1
      /\ FlowBlock(f, origin).status = "blocked"
  BY <1>2 DEF FlowBlock, FlowOver
<1>5. /\ Len(FlowFail(f, origin).journal) = Len(f.journal) + 1
      /\ FlowFail(f, origin).status = "error"
  BY <1>2 DEF FlowFail, FlowOver
<1>6. /\ Len(FlowWarn(f, origin).journal) = Len(f.journal) + 1
      /\ FlowWarn(f, origin).status = "warn"
  BY <1>2 DEF FlowWarn, FlowOver
<1>7. /\ Len(FlowNext(f, payload, origin).journal) = Len(f.journal) + 1
      /\ FlowNext(f, payload, origin).status = "ok"
  BY <1>2 DEF FlowNext, FlowOver
<1> QED
  BY <1>3, <1>4, <1>5, <1>6, <1>7

\* A gate that blocks stops its turn.
LEMMA BlocksEffect ==
  ASSUME Inv, Chained, NEW t \in Turns, pc[t] \in Active \ {"start", "delivery"},
         NEW c, DOMAIN c = Fields, ~c.final_response, c.failure_error # "handoff",
         NEW reason, NEW origin, Blocks(t, c, reason, origin), memory' = memory
  PROVE  \E f, d : Effect(t, f, d)
<1> DEFINE f == FlowBlock(flow[t], origin)
           d == MarkBlocked(c, reason)
<1>1. Commit(t, f, d)
  BY DEF Blocks
<1>2. flow[t] \in FlowType
  BY DEF Inv, TypeOK
<1>3. f.status = "blocked" /\ Grown(t, f)
  BY <1>2, EntryAdded DEF Grown
<1>4. d.final_response = c.final_response /\ d.failure_error = c.failure_error
  BY DEF MarkBlocked, Fields
<1> HIDE DEF f, d
<1>5. ShouldStop(f)
  BY <1>3 DEF ShouldStop
<1>6. Halts(t, f, d)
  BY <1>3, <1>4, <1>5 DEF Halts
<1>7. Handed("done", d)
  BY <1>4 DEF Handed, Active, PastNormalizer, PastSanitizer, PastIntake
<1> QED
  BY <1>1, <1>5, <1>6, <1>7 DEF Effect, After

\* A stage that fails stops its turn, with a handoff error only over empty
\* text.
LEMMA FailsEffect ==
  ASSUME Inv, Chained, NEW t \in Turns, pc[t] \in Active \ {"start", "delivery"},
         NEW c, DOMAIN c = Fields, ~c.final_response,
         NEW error, NEW origin, Fails(t, c, error, origin), memory' = memory,
         error = "handoff" => /\ c.normalized_input.modality = "text"
                              /\ c.normalized_input.content = "empty"
  PROVE  \E f, d : Effect(t, f, d)
<1> DEFINE f == FlowFail(flow[t], origin)
           d == MarkFailed(c, error)
<1>1. Commit(t, f, d)
  BY DEF Fails
<1>2. flow[t] \in FlowType
  BY DEF Inv, TypeOK
<1>3. f.status = "error" /\ Grown(t, f)
  BY <1>2, EntryAdded DEF Grown
<1>4. /\ d.final_response = c.final_response /\ d.failure_error = error
      /\ d.normalized_input = c.normalized_input
  BY DEF MarkFailed, Fields
<1> HIDE DEF f, d
<1>5. ShouldStop(f)
  BY <1>3 DEF ShouldStop
<1>6. Halts(t, f, d)
  BY <1>3, <1>4, <1>5 DEF Halts
<1>7. Handed("done", d)
  BY <1>4 DEF Handed, Active, PastNormalizer, PastSanitizer, PastIntake
<1> QED
  BY <1>1, <1>5, <1>6, <1>7 DEF Effect, After

\* A stage that hands the flow on, for what its successor relies on.
LEMMA GoesEffect ==
  ASSUME Inv, Chained, NEW t \in Turns,
         pc[t] \in {"intake", "sanitizer", "normalizer", "verifier", "recording", "filter"},
         NEW f, f.status \in {"ok", "warn"}, Grown(t, f),
         NEW c, ~c.final_response, c.failure_error # "handoff",
         Commit(t, f, c),
         memory' = memory,
         NEW p, p = Following(pc[t]),
         p \in PastNormalizer => Normalized(c),
         p = "orchestrator" => Routed(c.normalized_input)
  PROVE  Effect(t, f, c)
<1>1. ~ShouldStop(f)
  BY DEF ShouldStop
<1>2. Onward(t, f, c)
  BY <1>1 DEF Onward
<1>3. Handed(p, c)
  BY DEF Handed
<1> QED
  BY <1>1, <1>2, <1>3 DEF Effect, After

\* What holds of the flow and the context of a turn under way.
LEMMA UnderWay ==
  ASSUME Inv, Chained, NEW t \in Turns, pc[t] \in Active
  PROVE  /\ flow[t] \in FlowType /\ ctx[t] \in Context /\ DOMAIN ctx[t] = Fields
         /\ ~ctx[t].final_response /\ ctx[t].failure_error # "handoff"
         /\ pc[t] \in PastNormalizer => Normalized(ctx[t])
         /\ flow[t].status \in {"ok", "warn"}
BY LiveFacts, ContextFields DEF Chained, Handed

\* intake.process: refuse, fail or hand on.
LEMMA IntakeEffect ==
  ASSUME Inv, Chained, NEW t \in Turns,
         IntakeRateLimited(t) \/ IntakeRefuse(t) \/ IntakeAdmit(t) \/ IntakeFault(t)
  PROVE  \E f, c : Effect(t, f, c)
<1>1. pc[t] = "intake" /\ memory' = memory /\ pc[t] \in Active /\ pc[t] \in Active \ {"start", "delivery"}
  BY DEF IntakeRateLimited, IntakeRefuse, IntakeAdmit, IntakeFault, Active, Steps
<1>2. /\ flow[t] \in FlowType /\ DOMAIN ctx[t] = Fields
      /\ ~ctx[t].final_response /\ ctx[t].failure_error # "handoff"
  BY <1>1, UnderWay
<1>3. CASE IntakeRateLimited(t) \/ IntakeRefuse(t)
  <2>1. PICK reason : Blocks(t, ctx[t], reason, "intake")
    BY <1>3 DEF IntakeRateLimited, IntakeRefuse
  <2> QED
    BY <2>1, <1>1, <1>2, BlocksEffect
<1>4. CASE IntakeFault(t)
  BY <1>1, <1>2, <1>4, FailsEffect DEF IntakeFault
<1>5. CASE IntakeAdmit(t)
  <2>1. PICK i \in Input :
          Commit(t, FlowNext(flow[t], "raw", "intake"),
                 Advance([ctx[t] EXCEPT !.modality = Detected(i)], "intake"))
    BY <1>5 DEF IntakeAdmit
  <2> DEFINE f == FlowNext(flow[t], "raw", "intake")
             c == Advance([ctx[t] EXCEPT !.modality = Detected(i)], "intake")
  <2>2. f.status = "ok" /\ Grown(t, f)
    BY <1>2, EntryAdded DEF Grown
  <2>3. ~c.final_response /\ c.failure_error # "handoff"
    BY <1>2 DEF Advance, Fields
  <2>4. Commit(t, f, c)
    BY <2>1
  <2> HIDE DEF f, c
  <2>5. Following(pc[t]) = "sanitizer"
    BY <1>1 DEF Following
  <2> QED
    BY <2>2, <2>3, <2>4, <2>5, <1>1, GoesEffect DEF PastNormalizer, PastSanitizer
<1> QED
  BY <1>3, <1>4, <1>5

\* sanitizer.run: block before or after the worker, fail or hand on.
LEMMA SanitizerEffect ==
  ASSUME Inv, Chained, NEW t \in Turns,
         PreSanitizationBlock(t) \/ SanitizerFault(t) \/ WorkerReport(t)
  PROVE  \E f, c : Effect(t, f, c)
<1>1. pc[t] = "sanitizer" /\ memory' = memory /\ pc[t] \in Active /\ pc[t] \in Active \ {"start", "delivery"}
  BY DEF PreSanitizationBlock, SanitizerFault, WorkerReport, Active, Steps
<1>2. /\ flow[t] \in FlowType /\ DOMAIN ctx[t] = Fields
      /\ ~ctx[t].final_response /\ ctx[t].failure_error # "handoff"
  BY <1>1, UnderWay
<1>3. /\ DOMAIN Sanitizing(t) = Fields
      /\ ~Sanitizing(t).final_response /\ Sanitizing(t).failure_error # "handoff"
  BY <1>2 DEF Sanitizing, Advance, Fields
<1>4. CASE PreSanitizationBlock(t)
  <2> DEFINE c == [Sanitizing(t) EXCEPT !.sanitization = "pre", !.sanitization_blocked = TRUE]
  <2>1. Blocks(t, c, "malicious_content", "sanitizer")
    BY <1>4 DEF PreSanitizationBlock
  <2>2. DOMAIN c = Fields /\ ~c.final_response /\ c.failure_error # "handoff"
    BY <1>3 DEF Fields
  <2> HIDE DEF c
  <2> QED
    BY <2>1, <2>2, <1>1, BlocksEffect
<1>5. CASE SanitizerFault(t)
  BY <1>1, <1>3, <1>5, FailsEffect DEF SanitizerFault
<1>6. CASE WorkerReport(t)
  <2>1. PICK threat \in ThreatLevel, rewritten \in BOOLEAN :
          LET report == [Sanitizing(t) EXCEPT !.sanitization = "report",
                           !.sanitization_blocked = ShouldBlock(threat)]
          IN \/ /\ ShouldBlock(threat)
                /\ Blocks(t, report, "malicious_content", "sanitizer")
             \/ /\ ~ShouldBlock(threat)
                /\ Commit(t, FlowNext(flow[t],
                                      IF rewritten THEN "sanitized" ELSE flow[t].payload,
                                      "sanitizer"),
                          report)
    BY <1>6 DEF WorkerReport
  <2> DEFINE c == [Sanitizing(t) EXCEPT !.sanitization = "report",
                           !.sanitization_blocked = ShouldBlock(threat)]
             f == FlowNext(flow[t], IF rewritten THEN "sanitized" ELSE flow[t].payload, "sanitizer")
  <2>2. DOMAIN c = Fields /\ ~c.final_response /\ c.failure_error # "handoff"
    BY <1>3 DEF Fields
  <2>3. f.status = "ok" /\ Grown(t, f)
    BY <1>2, EntryAdded DEF Grown
  <2>4. Blocks(t, c, "malicious_content", "sanitizer") \/ Commit(t, f, c)
    BY <2>1
  <2> HIDE DEF f, c
  <2>5. Following(pc[t]) = "normalizer"
    BY <1>1 DEF Following
  <2>6. CASE Commit(t, f, c)
    BY <2>2, <2>3, <2>5, <2>6, <1>1, GoesEffect DEF PastNormalizer, PastSanitizer
  <2>7. CASE Blocks(t, c, "malicious_content", "sanitizer")
    BY <2>2, <2>7, <1>1, BlocksEffect
  <2> QED
    BY <2>4, <2>6, <2>7
<1> QED
  BY <1>4, <1>5, <1>6

\* normalizer.run: fail, or hand on what NormalizePayload builds.
LEMMA NormalizerEffect ==
  ASSUME Inv, Chained, NEW t \in Turns, Normalize(t) \/ NormalizerFault(t)
  PROVE  \E f, c : Effect(t, f, c)
<1>1. /\ pc[t] = "normalizer" /\ memory' = memory
      /\ pc[t] \in Active /\ pc[t] \in Active \ {"start", "delivery"}
  BY DEF Normalize, NormalizerFault, Active, Steps
<1>2. /\ flow[t] \in FlowType /\ DOMAIN ctx[t] = Fields
      /\ ~ctx[t].final_response /\ ctx[t].failure_error # "handoff"
  BY <1>1, UnderWay
<1>3. CASE NormalizerFault(t)
  BY <1>1, <1>2, <1>3, FailsEffect DEF NormalizerFault
<1>4. CASE Normalize(t)
  <2>1. PICK text \in {"empty", "text"} :
          Commit(t, FlowNext(flow[t], "normalized", "normalizer"),
              Advance([ctx[t] EXCEPT
                         !.normalized_input = NormalizePayload(ctx[t].modality, text)],
                      "normalizing"))
    BY <1>4 DEF Normalize
  <2> DEFINE c == Advance([ctx[t] EXCEPT
                             !.normalized_input = NormalizePayload(ctx[t].modality, text)],
                          "normalizing")
             f == FlowNext(flow[t], "normalized", "normalizer")
  <2>2. f.status = "ok" /\ Grown(t, f)
    BY <1>2, EntryAdded DEF Grown
  <2>3. /\ ~c.final_response /\ c.failure_error # "handoff"
        /\ c.normalized_input = NormalizePayload(c.modality, text)
    BY <1>2 DEF Advance, Fields
  <2>4. Normalized(c)
    BY <2>3 DEF Normalized
  <2>5. Commit(t, f, c)
    BY <2>1
  <2> HIDE DEF c, f
  <2>6. Following(pc[t]) = "verifier"
    BY <1>1 DEF Following
  <2> QED
    BY <1>1, <2>2, <2>3, <2>4, <2>5, <2>6, GoesEffect
<1> QED
  BY <1>3, <1>4

\* verify_handoff and verify_routing raise on nothing normalize_payload builds
\* but on text of which nothing is left.
LEMMA OnlyEmptyTextIsRefused ==
  ASSUME NEW m \in Modality, NEW text \in {"empty", "text"},
         VerifierFault(NormalizePayload(m, text))
  PROVE  m = "text" /\ text = "empty"
<1> USE DEF VerifierFault, HandoffFault, RoutingFault, HasText, TextModalities,
            NativeModalities, Modality
<1>1. CASE m = "text"
  BY <1>1 DEF NormalizePayload, NormalizedText
<1>2. CASE m = "pdf" /\ text = "text"
  BY <1>2 DEF NormalizePayload, NormalizedText
<1>3. CASE m = "pdf" /\ text # "text"
  BY <1>3 DEF NormalizePayload, RequiresExpert
<1>4. CASE m \notin TextModalities /\ Supports(m)
  <2>1. NormalizePayload(m, text) = PreserveNative(m)
    BY <1>4 DEF NormalizePayload
  <2> QED
    BY <1>4, <2>1 DEF PreserveNative
<1>5. CASE m \notin TextModalities /\ ~Supports(m)
  <2>1. NormalizePayload(m, text) = RequiresExpert(m, m)
    BY <1>5 DEF NormalizePayload
  <2> QED
    BY <1>5, <2>1 DEF RequiresExpert
<1> QED
  BY <1>1, <1>2, <1>3, <1>4, <1>5

\* A verdict that lets the input through is not the one of verify_routing.
LEMMA PassedIsRouted ==
  ASSUME NEW n, NEW v \in Verdicts(n), ~VerdictBlocks(v), ~VerifierFault(n)
  PROVE  Routed(n)
<1>1. SUFFICES ASSUME RoutingBlocks(n) PROVE FALSE
  BY DEF Routed
<1>2. VerifyDeterministic(n) = Verdict(FALSE, FALSE, FALSE, "high", FALSE)
  BY <1>1 DEF VerifyDeterministic
<1>3. ~NeedsModel(n)
  BY <1>1 DEF NeedsModel, RoutingBlocks
<1>4. v = Verdict(FALSE, FALSE, FALSE, "high", FALSE)
  BY <1>2, <1>3 DEF Verdicts
<1> QED
  BY <1>4 DEF VerdictBlocks, Verdict

\* verifier.run: refuse the hand-over, fail, block, or hand on what it has
\* checked.
LEMMA VerifierEffect ==
  ASSUME Inv, Chained, NEW t \in Turns,
         VerifierHandoffFault(t) \/ VerifierModelFault(t) \/ Verify(t)
  PROVE  \E f, c : Effect(t, f, c)
<1>1. /\ pc[t] = "verifier" /\ memory' = memory
      /\ pc[t] \in Active /\ pc[t] \in Active \ {"start", "delivery"}
      /\ pc[t] \in PastIntake /\ pc[t] \in PastNormalizer
  BY DEF VerifierHandoffFault, VerifierModelFault, Verify, Active, Steps,
         PastNormalizer, PastSanitizer, PastIntake
<1>2. /\ flow[t] \in FlowType /\ DOMAIN ctx[t] = Fields
      /\ ~ctx[t].final_response /\ ctx[t].failure_error # "handoff"
      /\ Normalized(ctx[t])
  BY <1>1, UnderWay
<1>3. ctx[t].modality \in Modality
  BY <1>1, LiveFacts DEF Passed
<1> DEFINE c == Verifying(t)
<1>4. /\ DOMAIN c = Fields /\ ~c.final_response /\ c.failure_error # "handoff"
      /\ c.normalized_input = ctx[t].normalized_input /\ c.modality = ctx[t].modality
  BY <1>2 DEF Verifying, Advance, Fields
<1> HIDE DEF c
<1>5. CASE VerifierHandoffFault(t)
  <2>1. VerifierFault(c.normalized_input) /\ Fails(t, c, "handoff", "verifier")
    BY <1>4, <1>5 DEF VerifierHandoffFault, c
  <2>2. PICK text \in {"empty", "text"} :
          ctx[t].normalized_input = NormalizePayload(ctx[t].modality, text)
    BY <1>2 DEF Normalized
  <2>3. ctx[t].modality = "text" /\ text = "empty"
    BY <1>3, <1>4, <2>1, <2>2, OnlyEmptyTextIsRefused
  <2>4. NormalizePayload("text", "empty") = NormalizedText("text", "empty")
    BY DEF NormalizePayload, NativeModalities, TextModalities, Modality
  <2>5. c.normalized_input.modality = "text" /\ c.normalized_input.content = "empty"
    BY <1>4, <2>2, <2>3, <2>4 DEF NormalizedText
  <2> QED
    BY <1>1, <1>4, <2>1, <2>5, FailsEffect
<1>6. CASE VerifierModelFault(t)
  <2>1. Fails(t, c, "model", "verifier")
    BY <1>6 DEF VerifierModelFault, c
  <2> QED
    BY <1>1, <1>4, <2>1, FailsEffect
<1>7. CASE Verify(t)
  <2> DEFINE n == ctx[t].normalized_input
  <2>1. ~VerifierFault(n)
    BY <1>7 DEF Verify
  <2>2. PICK v \in Verdicts(n) :
         LET d == [c EXCEPT !.verifier_result = v, !.verifier_blocked = VerdictBlocks(v)]
         IN \/ /\ VerdictBlocks(v)
               /\ \E reason \in BlockReasons(v) : Blocks(t, d, reason, "verifier")
            \/ /\ ~VerdictBlocks(v) /\ VerdictWarns(v)
               /\ Commit(t, FlowWarn(Load(flow[t]), "verifier"), d)
            \/ /\ ~VerdictBlocks(v) /\ ~VerdictWarns(v)
               /\ Commit(t, FlowNext(flow[t], "normalized", "verifier"), d)
    BY <1>7 DEF Verify, c
  <2> DEFINE d == [c EXCEPT !.verifier_result = v, !.verifier_blocked = VerdictBlocks(v)]
  <2>3. /\ DOMAIN d = Fields /\ ~d.final_response /\ d.failure_error # "handoff"
        /\ d.normalized_input = n /\ d.modality = ctx[t].modality
    BY <1>4 DEF Fields
  <2> HIDE DEF n
  <2>4. Normalized(d)
    BY <1>2, <2>3 DEF Normalized, n
  <2>5. CASE VerdictBlocks(v)
    <3>1. PICK reason \in BlockReasons(v) : Blocks(t, d, reason, "verifier")
      BY <2>2, <2>5
    <3> HIDE DEF d
    <3> QED
      BY <1>1, <2>3, <3>1, BlocksEffect
  <2>6. ASSUME ~VerdictBlocks(v), NEW f, f.status \in {"ok", "warn"}, Grown(t, f),
               Commit(t, f, d)
        PROVE  Effect(t, f, d)
    <3> HIDE DEF d
    <3>1. Routed(n)
      BY <2>1, <2>6, PassedIsRouted
    <3>2. Following(pc[t]) = "orchestrator"
      BY <1>1 DEF Following
    <3> QED
      BY <1>1, <2>3, <2>4, <2>6, <3>1, <3>2, GoesEffect
  <2>7. CASE ~VerdictBlocks(v) /\ VerdictWarns(v)
    <3> DEFINE f == FlowWarn(Load(flow[t]), "verifier")
    <3>1. Load(flow[t]) \in FlowType
      BY <1>2, LoadTypes
    <3>9. Load(flow[t]).journal = flow[t].journal
      BY <1>2 DEF Load, FlowType
    <3>2. f.status = "warn" /\ Grown(t, f)
      BY <3>9, <3>1, EntryAdded DEF Grown
    <3>3. Commit(t, f, d)
      BY <2>2, <2>7
    <3> HIDE DEF f, d
    <3> QED
      BY <2>6, <2>7, <3>2, <3>3
  <2>8. CASE ~VerdictBlocks(v) /\ ~VerdictWarns(v)
    <3> DEFINE f == FlowNext(flow[t], "normalized", "verifier")
    <3>1. f.status = "ok" /\ Grown(t, f)
      BY <1>2, EntryAdded DEF Grown
    <3>2. Commit(t, f, d)
      BY <2>2, <2>8
    <3> HIDE DEF f, d
    <3> QED
      BY <2>6, <2>8, <3>1, <3>2
  <2> QED
    BY <2>5, <2>7, <2>8
<1> QED
  BY <1>5, <1>6, <1>7

\* A part of a stage that leaves the journal to the end of the stage.
LEMMA StaysEffect ==
  ASSUME Inv, Chained, NEW t \in Turns,
         pc[t] \in {"start", "orchestrator", "thinking"},
         NEW f, f.status \in {"ok", "warn"}, Len(f.journal) = Len(flow[t].journal),
         NEW c, ~c.final_response, c.failure_error # "handoff",
         Commit(t, f, c), memory' = memory,
         pc[t] # "start" => Normalized(c)
  PROVE  Effect(t, f, c)
<1>1. ~ShouldStop(f)
  BY DEF ShouldStop
<1>2. Stays(t, f, c)
  BY <1>1 DEF Stays
<1>3. Following(pc[t]) \in {"intake", "thinking", "recording"}
  BY DEF Following
<1>4. Following(pc[t]) \in PastNormalizer => pc[t] # "start"
  BY DEF Following, PastNormalizer, PastSanitizer, PastIntake
<1> DEFINE p == Following(pc[t])
<1> HIDE DEF p
<1>5. Handed(p, c)
  BY <1>3, <1>4 DEF p, Handed
<1> QED
  BY <1>1, <1>2, <1>5 DEF Effect, After, p

\* pipeline.run: a new flow and a new context, at the same journal length.
LEMMA SubmitEffect ==
  ASSUME Inv, Chained, NEW t \in Turns, Submit(t)
  PROVE  \E f, c : Effect(t, f, c)
<1>1. pc[t] = "start" /\ memory' = memory /\ Commit(t, FlowNew("raw"), NewContext)
  BY DEF Submit
<1>2. pc[t] \in Active
  BY <1>1 DEF Active, Steps
<1>3. Len(flow[t].journal) = 1
  BY <1>1, <1>2 DEF Chained, Journaled, Entries
<1>4. FlowNew("raw").status = "ok" /\ Len(FlowNew("raw").journal) = 1
  BY DEF FlowNew
<1>5. ~NewContext.final_response /\ NewContext.failure_error # "handoff"
  BY DEF NewContext
<1> QED
  BY <1>1, <1>3, <1>4, <1>5, StaysEffect

\* orchestrator.run: hydrating and drafting are parts of the stage, recording
\* ends it.
LEMMA OrchestratorEffect ==
  ASSUME Inv, Chained, NEW t \in Turns,
         Hydrate(t) \/ Draft(t) \/ OrchestratorFault(t) \/ RecordProposals(t)
  PROVE  \E f, c : Effect(t, f, c)
<1>1. /\ pc[t] \in {"orchestrator", "thinking", "recording"}
      /\ pc[t] \in Active /\ pc[t] \in Active \ {"start", "delivery"}
      /\ pc[t] \in PastNormalizer
  BY DEF Hydrate, Draft, OrchestratorFault, RecordProposals, Active, Steps,
         PastNormalizer, PastSanitizer, PastIntake
<1>2. /\ flow[t] \in FlowType /\ DOMAIN ctx[t] = Fields
      /\ ~ctx[t].final_response /\ ctx[t].failure_error # "handoff"
      /\ Normalized(ctx[t]) /\ flow[t].status \in {"ok", "warn"}
  BY <1>1, UnderWay
<1>3. CASE Hydrate(t)
  <2>1. PICK items \in SUBSET memory :
          Commit(t, Load(flow[t]),
              Advance([ctx[t] EXCEPT !.hydration_items = items], "orchestrating"))
    BY <1>3 DEF Hydrate
  <2> DEFINE c == Advance([ctx[t] EXCEPT !.hydration_items = items], "orchestrating")
             f == Load(flow[t])
  <2>2. f.status \in {"ok", "warn"} /\ Len(f.journal) = Len(flow[t].journal)
    BY <1>2 DEF Load, FlowType
  <2>3. /\ ~c.final_response /\ c.failure_error # "handoff"
        /\ c.normalized_input = ctx[t].normalized_input /\ c.modality = ctx[t].modality
    BY <1>2 DEF Advance, Fields
  <2>4. Normalized(c)
    BY <1>2, <2>3 DEF Normalized
  <2>5. Commit(t, f, c)
    BY <2>1
  <2>6. pc[t] = "orchestrator" /\ memory' = memory
    BY <1>3 DEF Hydrate
  <2> HIDE DEF c, f
  <2> QED
    BY <2>2, <2>3, <2>4, <2>5, <2>6, StaysEffect
<1>4. CASE Draft(t)
  <2> DEFINE c == [ctx[t] EXCEPT !.orchestrator_response = TRUE,
                                 !.memory_writes_requested = TRUE]
  <2>1. /\ ~c.final_response /\ c.failure_error # "handoff"
        /\ c.normalized_input = ctx[t].normalized_input /\ c.modality = ctx[t].modality
    BY <1>2 DEF Fields
  <2>2. Normalized(c)
    BY <1>2, <2>1 DEF Normalized
  <2>3. Commit(t, flow[t], c) /\ pc[t] = "thinking" /\ memory' = memory
    BY <1>4 DEF Draft
  <2> HIDE DEF c
  <2> QED
    BY <1>2, <2>1, <2>2, <2>3, StaysEffect
<1>5. CASE OrchestratorFault(t)
  <2> DEFINE c == Advance(ctx[t], "orchestrating")
  <2>1. DOMAIN c = Fields /\ ~c.final_response
    BY <1>2 DEF Advance, Fields
  <2>2. Fails(t, c, "infrastructure", "orchestrator") /\ memory' = memory
    BY <1>5 DEF OrchestratorFault
  <2> HIDE DEF c
  <2> QED
    BY <1>1, <2>1, <2>2, FailsEffect
<1>6. CASE RecordProposals(t)
  <2> DEFINE f == FlowNext(flow[t], "draft", "orchestrator")
  <2>1. /\ Commit(t, f, ctx[t]) /\ pc[t] = "recording"
        /\ memory' = memory
    BY <1>6 DEF RecordProposals
  <2>2. f.status = "ok" /\ Grown(t, f)
    BY <1>2, EntryAdded DEF Grown
  <2>3. Following(pc[t]) = "filter"
    BY <2>1 DEF Following
  <2> HIDE DEF f
  <2> QED
    BY <1>2, <2>1, <2>2, <2>3, GoesEffect
<1> QED
  BY <1>3, <1>4, <1>5, <1>6

\* filter.run: fail, block or hand on.
LEMMA FilterEffect ==
  ASSUME Inv, Chained, NEW t \in Turns, Filter(t) \/ FilterFault(t)
  PROVE  \E f, c : Effect(t, f, c)
<1>1. /\ pc[t] = "filter" /\ memory' = memory
      /\ pc[t] \in Active /\ pc[t] \in Active \ {"start", "delivery"}
      /\ pc[t] \in PastNormalizer
  BY DEF Filter, FilterFault, Active, Steps, PastNormalizer, PastSanitizer, PastIntake
<1>2. /\ flow[t] \in FlowType /\ DOMAIN ctx[t] = Fields
      /\ ~ctx[t].final_response /\ ctx[t].failure_error # "handoff"
      /\ Normalized(ctx[t])
  BY <1>1, UnderWay
<1> DEFINE c == Advance(ctx[t], "filtering")
<1>3. /\ DOMAIN c = Fields /\ ~c.final_response /\ c.failure_error # "handoff"
      /\ c.normalized_input = ctx[t].normalized_input /\ c.modality = ctx[t].modality
  BY <1>2 DEF Advance, Fields
<1> HIDE DEF c
<1>4. CASE FilterFault(t)
  <2>1. Fails(t, c, "model", "filter")
    BY <1>4 DEF FilterFault, c
  <2> QED
    BY <1>1, <1>3, <2>1, FailsEffect
<1>5. CASE Filter(t)
  <2>1. PICK r \in FilterResult :
         LET d == [c EXCEPT !.filter_result = r, !.filter_blocked = ~r.proceed]
         IN \/ ~r.proceed /\ Blocks(t, d, "filter_rejected", "filter")
            \/ r.proceed /\ Commit(t, FlowNext(flow[t], "draft", "filter"), d)
    BY <1>5 DEF Filter, c
  <2> DEFINE d == [c EXCEPT !.filter_result = r, !.filter_blocked = ~r.proceed]
             f == FlowNext(flow[t], "draft", "filter")
  <2>2. /\ DOMAIN d = Fields /\ ~d.final_response /\ d.failure_error # "handoff"
        /\ d.normalized_input = ctx[t].normalized_input /\ d.modality = ctx[t].modality
    BY <1>3 DEF Fields
  <2>3. Normalized(d)
    BY <1>2, <2>2 DEF Normalized
  <2>4. f.status = "ok" /\ Grown(t, f)
    BY <1>2, EntryAdded DEF Grown
  <2>5. Blocks(t, d, "filter_rejected", "filter") \/ Commit(t, f, d)
    BY <2>1
  <2> HIDE DEF d, f
  <2>6. Following(pc[t]) = "delivery"
    BY <1>1 DEF Following
  <2>7. CASE Commit(t, f, d)
    BY <1>1, <2>2, <2>3, <2>4, <2>6, <2>7, GoesEffect
  <2>8. CASE Blocks(t, d, "filter_rejected", "filter")
    BY <1>1, <2>2, <2>8, BlocksEffect
  <2> QED
    BY <2>5, <2>7, <2>8
<1> QED
  BY <1>4, <1>5

\* delivery.run releases the answer, whether printing it then raises or not.
LEMMA DeliveryEffect ==
  ASSUME Inv, Chained, NEW t \in Turns, Deliver(t) \/ DeliveryFault(t)
  PROVE  \E f, c : Effect(t, f, c)
<1>1. pc[t] = "delivery" /\ memory' = memory /\ pc[t] \in Active
  BY DEF Deliver, DeliveryFault, Active, Steps
<1>2. /\ flow[t] \in FlowType /\ DOMAIN ctx[t] = Fields
      /\ ctx[t].failure_error # "handoff"
  BY <1>1, UnderWay
<1>3. /\ DOMAIN Delivering(t) = Fields /\ Delivering(t).final_response
      /\ Delivering(t).failure_error # "handoff"
  BY <1>2 DEF Delivering, Advance, Fields
<1>4. ASSUME NEW f, f.status \in {"ok", "error"}, Grown(t, f), NEW c, c.final_response,
             c.failure_error # "handoff", Commit(t, f, c)
      PROVE  Effect(t, f, c)
  <2>1. Delivers(t, f, c)
    BY <1>1, <1>4 DEF Delivers
  <2>2. Handed("done", c)
    BY <1>4 DEF Handed, Active, PastNormalizer, PastSanitizer, PastIntake
  <2>3. After(t, f) = "done"
    BY <1>1 DEF After, Following
  <2> QED
    BY <1>4, <2>1, <2>2, <2>3 DEF Effect
<1>5. CASE Deliver(t)
  <2> DEFINE f == FlowNext(flow[t], "final", "output")
  <2>1. f.status \in {"ok", "error"} /\ Grown(t, f)
    BY <1>2, EntryAdded DEF Grown
  <2>2. Commit(t, f, Delivering(t))
    BY <1>5 DEF Deliver
  <2> HIDE DEF f
  <2> QED
    BY <1>3, <1>4, <2>1, <2>2
<1>6. CASE DeliveryFault(t)
  <2> DEFINE f == FlowFail(flow[t], "output")
             c == MarkFailed(Delivering(t), "infrastructure")
  <2>1. f.status \in {"ok", "error"} /\ Grown(t, f)
    BY <1>2, EntryAdded DEF Grown
  <2>2. Commit(t, f, c)
    BY <1>6 DEF DeliveryFault, Fails
  <2>3. c.final_response /\ c.failure_error # "handoff"
    BY <1>3 DEF MarkFailed, Fields
  <2> HIDE DEF f, c
  <2> QED
    BY <1>4, <2>1, <2>2, <2>3
<1> QED
  BY <1>5, <1>6

\* Every stage is one of the four effects on its turn.
LEMMA StepEffect ==
  ASSUME Inv, Chained, NEW t \in Turns, Submit(t) \/ Step(t)
  PROVE  \E f, c : Effect(t, f, c)
BY SubmitEffect, IntakeEffect, SanitizerEffect, NormalizerEffect, VerifierEffect,
   OrchestratorEffect, FilterEffect, DeliveryEffect DEF Step

\* What a commit of t does to every turn, t and the others.
LEMMA Committed ==
  ASSUME Inv, NEW t \in Turns, NEW f, NEW c, Commit(t, f, c), NEW u \in Turns
  PROVE  /\ pc'[u] = IF u = t THEN After(t, f) ELSE pc[u]
         /\ flow'[u] = IF u = t THEN f ELSE flow[u]
         /\ ctx'[u] = IF u = t THEN c ELSE ctx[u]
BY DEF Commit, After, Inv, TypeOK

\* An effect leaves the journal as long as the next step expects it.
LEMMA EffectJournaled ==
  ASSUME Inv, Chained, NEW t \in Turns, NEW f, NEW c, Effect(t, f, c)
  PROVE  Journaled(After(t, f), f)
<1>1. pc[t] \in Active
  BY DEF Effect, Onward, Stays, Halts, Delivers, Active, Steps
<1>2. Len(flow[t].journal) = Entries(pc[t])
  BY <1>1 DEF Chained, Journaled
<1>3. CASE Onward(t, f, c)
  <2>1. Entries(Following(pc[t])) = Entries(pc[t]) + 1
    BY <1>3 DEF Onward, Entries, Following
  <2> QED
    BY <1>2, <1>3, <2>1 DEF Onward, After, Journaled, Grown
<1>4. CASE Stays(t, f, c)
  <2>1. Entries(Following(pc[t])) = Entries(pc[t])
    BY <1>4 DEF Stays, Entries, Following
  <2> QED
    BY <1>2, <1>4, <2>1 DEF Stays, After, Journaled
<1>5. CASE Halts(t, f, c)
  BY <1>5 DEF Halts, After, Journaled, Active
<1>6. CASE Delivers(t, f, c)
  BY <1>6 DEF Delivers, After, Following, Journaled, Active
<1> QED
  BY <1>3, <1>4, <1>5, <1>6 DEF Effect

\* No turn has started.
LEMMA ChainedInit == Init => Chained
<1> SUFFICES ASSUME Init, NEW t \in Turns
             PROVE  Journaled(pc[t], flow[t]) /\ Handed(pc[t], ctx[t])
  BY DEF Chained, Init
<1>1. pc[t] = "start" /\ flow[t] = FlowNew("raw") /\ ctx[t] = NewContext
  BY DEF Init
<1>2. Len(FlowNew("raw").journal) = 1 /\ Entries("start") = 1
  BY DEF FlowNew, Entries
<1>3. NewContext.failure_error = "none"
  BY DEF NewContext
<1>4. "start" \notin PastNormalizer
  BY DEF PastNormalizer, PastSanitizer, PastIntake
<1> QED
  BY <1>1, <1>2, <1>3, <1>4 DEF Journaled, Handed

\* Every step keeps the journals and the hand-overs as they should be.
LEMMA ChainedNext == Inv /\ Chained /\ [Next]_vars => Chained'
<1> SUFFICES ASSUME Inv, Chained, [Next]_vars, NEW u \in Turns
             PROVE  /\ Journaled(pc'[u], flow'[u]) /\ Handed(pc'[u], ctx'[u])
                    /\ writing'[u] = "running" => Len(flow'[u].journal) = 5
  BY DEF Chained, Journaled, Handed, Normalized, Routed, VerifierFault, HandoffFault,
         RoutingFault, RoutingBlocks
<1>1. /\ Journaled(pc[u], flow[u]) /\ Handed(pc[u], ctx[u])
      /\ writing[u] = "running" => Len(flow[u].journal) = 5
  BY DEF Chained
<1>2. CASE UNCHANGED vars
  BY <1>1, <1>2 DEF vars
<1>3. ASSUME NEW t \in Turns, Submit(t) \/ Step(t)
      PROVE  /\ Journaled(pc'[u], flow'[u]) /\ Handed(pc'[u], ctx'[u])
             /\ writing'[u] = "running" => Len(flow'[u].journal) = 5
  <2>1. PICK f, c : Effect(t, f, c)
    BY <1>3, StepEffect
  <2>2. Journaled(After(t, f), f) /\ Handed(After(t, f), c) /\ Commit(t, f, c)
    BY <2>1, EffectJournaled DEF Effect
  <2>3. writing' = writing /\ writing[t] # "running"
    BY <1>3, StepsCommit, LiveFacts
  <2> QED
    BY <1>1, <2>2, <2>3, Committed
<1>4. ASSUME NEW t \in Turns, Interrupt(t)
      PROVE  /\ Journaled(pc'[u], flow'[u]) /\ Handed(pc'[u], ctx'[u])
             /\ writing'[u] = "running" => Len(flow'[u].journal) = 5
  <2>1. /\ pc'[u] = IF u = t THEN "interrupted" ELSE pc[u]
        /\ flow'[u] = flow[u] /\ ctx'[u] = ctx[u] /\ writing'[u] = writing[u]
    BY <1>4 DEF Interrupt, Inv, TypeOK
  <2>2. "interrupted" \notin Active /\ "interrupted" \notin PastNormalizer
    BY DEF Active, PastNormalizer, PastSanitizer, PastIntake
  <2> QED
    BY <1>1, <2>1, <2>2 DEF Journaled, Handed
<1>5. ASSUME NEW t \in Turns, StoreMemory(t) \/ MemoryStored(t)
      PROVE  /\ Journaled(pc'[u], flow'[u]) /\ Handed(pc'[u], ctx'[u])
             /\ writing'[u] = "running" => Len(flow'[u].journal) = 5
  <2>1. pc' = pc /\ flow' = flow /\ ctx' = ctx
    BY <1>5 DEF StoreMemory, MemoryStored
  <2>2. writing'[u] = "running" => writing[u] = "running" \/ pc[u] = "recording"
    BY <1>5 DEF StoreMemory, MemoryStored, Inv, TypeOK
  <2>3. pc[u] = "recording" => Len(flow[u].journal) = 5
    BY <1>1 DEF Journaled, Active, Steps, Entries
  <2> QED
    BY <1>1, <2>1, <2>2, <2>3
<1> QED
  BY <1>2, <1>3, <1>4, <1>5 DEF Next

\* Chained is an invariant of the pipeline.
LEMMA ChainedAlways == Spec => []Chained
BY ChainedInit, ChainedNext, Invariance, PTL DEF Spec

\* Whatever the normalizer builds passes the verifier's checks but empty text,
\* and media that pass are within the target's capabilities or left to an
\* expert some profile can be, for any capabilities configured.
THEOREM HandoffsAgree == Spec => []HandoffCoherent
<1>1. ASSUME Inv, Chained, NEW t \in Turns, pc[t] = "orchestrator",
             ctx[t].normalized_input.modality \notin TextModalities
      PROVE  LET n == ctx[t].normalized_input
             IN IF n.preserved_native THEN Supports(n.modality)
                ELSE n.required_capability \in ConfiguredCapabilities
  <2> DEFINE n == ctx[t].normalized_input
  <2>1. Handed(pc[t], ctx[t])
    BY <1>1 DEF Chained
  <2>2. pc[t] \in PastNormalizer /\ pc[t] \in PastIntake /\ pc[t] \in Active
    BY <1>1 DEF PastNormalizer, PastSanitizer, PastIntake, Active, Steps
  <2>3. ctx[t].modality \in Modality
    BY <1>1, <2>2, LiveFacts DEF Passed
  <2>4. PICK text \in {"empty", "text"} : n = NormalizePayload(ctx[t].modality, text)
    BY <2>1, <2>2 DEF Handed, Normalized
  <2>5. Routed(n)
    BY <1>1, <2>1 DEF Handed
  <2>6. n.modality \notin TextModalities
    BY <1>1
  <2>7. n.preserved_native \/ n.requires_expert
    BY <2>3, <2>4, <2>6 DEF NormalizePayload, NormalizedText, PreserveNative,
       RequiresExpert, Modality, TextModalities, NativeModalities
  <2> HIDE DEF n
  <2>8. IF n.preserved_native THEN Supports(n.modality)
        ELSE n.required_capability \in ConfiguredCapabilities
    BY <2>5, <2>6, <2>7 DEF Routed, VerifierFault, RoutingFault, RoutingBlocks
  <2> QED
    BY <2>8 DEF n
<1>2. Inv /\ Chained => HandoffCoherent
  BY <1>1 DEF HandoffCoherent, Chained, Handed
<1> QED
  BY <1>2, Invariance, ChainedAlways, PTL

---------------------------------------------------------------------------
\* The refinement

\* Where a live turn stands in the promise: one gate per entry but the first.
LEMMA LiveMaps ==
  ASSUME Inv, Chained, NEW t \in Turns, pc[t] \in Active
  PROVE  /\ Outcome(t) = "running"
         /\ Cleared(t) = Entries(pc[t]) - 1
         /\ ~ctx[t].final_response
         /\ Len(flow[t].journal) = Entries(pc[t])
<1>1. Len(flow[t].journal) = Entries(pc[t])
  BY DEF Chained, Journaled
<1>2. ~ShouldStop(flow[t]) /\ ~ctx[t].final_response
  BY LiveFacts DEF ShouldStop
<1>3. Outcome(t) = "running"
  BY DEF Outcome, Active
<1>4. Entries(pc[t]) \in 1 .. 7
  BY DEF Entries
<1> QED
  BY <1>1, <1>2, <1>3, <1>4 DEF Cleared

\* The pipeline starts as the promise does.
LEMMA PromiseInit == Init => Abstract!Init
<1> SUFFICES ASSUME Init PROVE Abstract!Init
  OBVIOUS
<1>1. ASSUME NEW t \in Turns
      PROVE  Cleared(t) = 0 /\ Outcome(t) = "running" /\ ~ctx[t].final_response
  <2>1. pc[t] = "start" /\ flow[t] = FlowNew("raw") /\ ctx[t] = NewContext
    BY DEF Init
  <2>2. Len(FlowNew("raw").journal) = 1 /\ ~ShouldStop(FlowNew("raw"))
    BY DEF FlowNew, ShouldStop
  <2>3. ~NewContext.final_response
    BY DEF NewContext
  <2> QED
    BY <2>1, <2>2, <2>3 DEF Cleared, Outcome
<1>2. memory = {}
  BY DEF Init
<1> QED
  BY <1>1, <1>2 DEF Abstract!Init

\* How the promise sees the turn of an effect: in its gates, its end and its
\* release.
LEMMA TurnMaps ==
  ASSUME Inv, Chained, NEW t \in Turns, NEW f, NEW c, Effect(t, f, c)
  PROVE  \/ /\ Cleared(t)' = Cleared(t) + 1 /\ Cleared(t) < 6
            /\ Outcome(t)' = "running" /\ ~c.final_response
            /\ memory' = memory
         \/ /\ Cleared(t)' = Cleared(t)
            /\ Outcome(t)' = "running" /\ ~c.final_response
            /\ memory' = memory
         \/ /\ Cleared(t)' = Cleared(t)
            /\ Outcome(t)' \in {"blocked", "failed"} /\ ~c.final_response
            /\ memory' = memory
         \/ /\ Cleared(t)' = Cleared(t) /\ Cleared(t) = 6
            /\ Outcome(t)' \in {"delivered", "failed"} /\ c.final_response
            /\ memory' = memory
<1>1. pc[t] \in Active
  BY DEF Effect, Onward, Stays, Halts, Delivers, Active, Steps
<1>2. Cleared(t) = Entries(pc[t]) - 1 /\ Len(flow[t].journal) = Entries(pc[t])
  BY <1>1, LiveMaps
<1>3. pc'[t] = After(t, f) /\ flow'[t] = f
  BY Committed DEF Effect
<1>4. CASE Onward(t, f, c)
  <2>1. Following(pc[t]) \notin {"done", "interrupted"}
    BY <1>4 DEF Onward, Following
  <2>2. Outcome(t)' = "running"
    BY <1>3, <1>4, <2>1 DEF Onward, After, Outcome
  <2>3. Entries(pc[t]) \in 1 .. 6 /\ (pc[t] = "recording" => Entries(pc[t]) = 5)
    BY <1>4 DEF Onward, Entries
  <2>4. Cleared(t)' = Entries(pc[t])
    BY <1>2, <1>3, <1>4, <2>3 DEF Onward, Grown, Cleared
  <2> QED
    BY <1>2, <1>4, <2>2, <2>3, <2>4 DEF Onward
<1>5. CASE Stays(t, f, c)
  <2>1. Following(pc[t]) \notin {"done", "interrupted"}
    BY <1>5 DEF Stays, Following
  <2>2. Outcome(t)' = "running"
    BY <1>3, <1>5, <2>1 DEF Stays, After, Outcome
  <2>3. Entries(pc[t]) \in 1 .. 6
    BY <1>5 DEF Stays, Entries
  <2>4. Cleared(t)' = Entries(pc[t]) - 1
    BY <1>2, <1>3, <1>5, <2>3 DEF Stays, Cleared
  <2> QED
    BY <1>2, <1>5, <2>2, <2>4 DEF Stays
<1>6. CASE Halts(t, f, c)
  <2>1. Outcome(t)' \in {"blocked", "failed"}
    BY <1>3, <1>6 DEF Halts, After, Outcome, ShouldStop
  <2>2. Entries(pc[t]) \in 1 .. 7
    BY DEF Entries
  <2>3. Cleared(t)' = Entries(pc[t]) - 1
    BY <1>2, <1>3, <1>6, <2>2 DEF Halts, Grown, Cleared
  <2> QED
    BY <1>2, <1>6, <2>1, <2>3 DEF Halts
<1>7. CASE Delivers(t, f, c)
  <2>1. After(t, f) = "done"
    BY <1>7 DEF Delivers, After, Following
  <2>2. Outcome(t)' \in {"delivered", "failed"}
    BY <1>3, <1>7, <2>1 DEF Delivers, Outcome, ShouldStop
  <2>3. Entries(pc[t]) = 7
    BY <1>7 DEF Delivers, Entries
  <2>4. Cleared(t)' = 6
    BY <1>2, <1>3, <1>7, <2>3 DEF Delivers, Grown, Cleared
  <2> QED
    BY <1>2, <1>7, <2>2, <2>3, <2>4 DEF Delivers
<1> QED
  BY <1>4, <1>5, <1>6, <1>7 DEF Effect

\* To the promise every other turn looks as it did.
LEMMA OthersMap ==
  ASSUME Inv, NEW t \in Turns, NEW f, NEW c, Commit(t, f, c),
         NEW u \in Turns, u # t
  PROVE  /\ Cleared(u)' = Cleared(u) /\ Outcome(u)' = Outcome(u)
         /\ ctx'[u] = ctx[u]
BY Committed DEF Cleared, Outcome

\* A stage is a step of the promise or invisible to it.
LEMMA StagePromised ==
  ASSUME Inv, Chained, NEW t \in Turns, NEW f, NEW c, Effect(t, f, c)
  PROVE  [Abstract!Next]_(Abstract!vars)
<1> DEFINE cleared == [u \in Turns |-> Cleared(u)]
           outcome == [u \in Turns |-> Outcome(u)]
           released == {u \in Turns : ctx[u].final_response}
<1>1. Commit(t, f, c) /\ pc[t] \in Active
  BY DEF Effect, Onward, Stays, Halts, Delivers, Active, Steps
<1>2. /\ ctx'[t] = c
      /\ Outcome(t) = "running" /\ ~ctx[t].final_response
  BY <1>1, Committed, LiveMaps
<1>3. \A u \in Turns : u # t => /\ Cleared(u)' = Cleared(u) /\ Outcome(u)' = Outcome(u)
                                /\ ctx'[u] = ctx[u]
  BY <1>1, OthersMap
<1>4. cleared' = [cleared EXCEPT ![t] = Cleared(t)']
  BY <1>3
<1>5. outcome' = [outcome EXCEPT ![t] = Outcome(t)']
  BY <1>3
<1>6. released' = IF c.final_response THEN released \cup {t} ELSE released
  BY <1>2, <1>3
<1>7. cleared[t] = Cleared(t) /\ outcome[t] = "running"
  BY <1>2
<1>8. Cleared(t)' = Cleared(t) => cleared' = cleared
  BY <1>4
<1>9. Outcome(t)' = "running" => outcome' = outcome
  BY <1>2, <1>5
<1> HIDE DEF cleared, outcome, released
<1>10. CASE /\ Cleared(t)' = Cleared(t) + 1 /\ Cleared(t) < 6
            /\ Outcome(t)' = "running" /\ ~c.final_response
            /\ memory' = memory
  <2>1. Abstract!ClearGate(t)
    BY <1>4, <1>6, <1>7, <1>9, <1>10
    DEF Abstract!ClearGate, Abstract!Approved, Abstract!InputGates, cleared, outcome, released
  <2> QED
    BY <2>1 DEF Abstract!Next
<1>11. CASE /\ Cleared(t)' = Cleared(t)
            /\ Outcome(t)' = "running" /\ ~c.final_response
            /\ memory' = memory
  BY <1>6, <1>8, <1>9, <1>11 DEF Abstract!vars, cleared, outcome, released
<1>12. CASE /\ Cleared(t)' = Cleared(t)
            /\ Outcome(t)' \in {"blocked", "failed"} /\ ~c.final_response
            /\ memory' = memory
  <2>1. Abstract!Stop(t)
    BY <1>5, <1>6, <1>7, <1>8, <1>12
    DEF Abstract!Stop, Abstract!Ends, cleared, outcome, released
  <2> QED
    BY <2>1 DEF Abstract!Next
<1>13. CASE /\ Cleared(t)' = Cleared(t) /\ Cleared(t) = 6
            /\ Outcome(t)' \in {"delivered", "failed"} /\ c.final_response
            /\ memory' = memory
  <2>1. Abstract!Release(t)
    BY <1>5, <1>6, <1>7, <1>8, <1>13
    DEF Abstract!Release, Abstract!Approved, cleared, outcome, released
  <2> QED
    BY <2>1 DEF Abstract!Next
<1> QED
  BY <1>10, <1>11, <1>12, <1>13, TurnMaps

\* An interrupt abandons a turn under way and changes nothing else.
LEMMA InterruptPromised ==
  ASSUME Inv, Chained, NEW t \in Turns, Interrupt(t)
  PROVE  Abstract!Stop(t)
<1> DEFINE cleared == [u \in Turns |-> Cleared(u)]
           outcome == [u \in Turns |-> Outcome(u)]
           released == {u \in Turns : ctx[u].final_response}
<1>1. /\ pc[t] \in Active /\ flow' = flow /\ ctx' = ctx /\ memory' = memory
      /\ \A u \in Turns : pc'[u] = IF u = t THEN "interrupted" ELSE pc[u]
  BY DEF Interrupt, Inv, TypeOK, Active
<1>2. outcome[t] = "running"
  BY <1>1, LiveMaps
<1>3. \A u \in Turns : Cleared(u)' = Cleared(u)
  BY <1>1 DEF Cleared
<1>4. \A u \in Turns : Outcome(u)' = IF u = t THEN "abandoned" ELSE Outcome(u)
  BY <1>1 DEF Outcome
<1>5. cleared' = cleared /\ released' = released
  BY <1>1, <1>3
<1>6. outcome' = [outcome EXCEPT ![t] = "abandoned"]
  BY <1>4
<1> HIDE DEF cleared, outcome, released
<1> QED
  BY <1>1, <1>2, <1>5, <1>6 DEF Abstract!Stop, Abstract!Ends, cleared, outcome, released

\* The thread remembers a turn that still runs or was abandoned, at the gate
\* where memory takes it.
LEMMA StorePromised ==
  ASSUME Inv, Chained, NEW t \in Turns, StoreMemory(t) \/ MemoryStored(t)
  PROVE  [Abstract!Next]_(Abstract!vars)
<1> DEFINE cleared == [u \in Turns |-> Cleared(u)]
           outcome == [u \in Turns |-> Outcome(u)]
           released == {u \in Turns : ctx[u].final_response}
<1>1. pc' = pc /\ flow' = flow /\ ctx' = ctx
  BY DEF StoreMemory, MemoryStored
<1>2. cleared' = cleared /\ outcome' = outcome /\ released' = released
  BY <1>1 DEF Cleared, Outcome
<1>3. CASE memory' = memory
  BY <1>2, <1>3 DEF Abstract!vars, cleared, outcome, released
<1>4. CASE memory' # memory
  <2>1. memory' = memory \cup {t} /\ writing[t] = "running"
    BY <1>4 DEF StoreMemory, MemoryStored
  <2>2. /\ pc[t] \in {"recording", "interrupted"} /\ ~ShouldStop(flow[t])
        /\ Len(flow[t].journal) = 5
    BY <2>1 DEF Inv, Storing, Chained
  <2>3. outcome[t] \in {"running", "abandoned"} /\ cleared[t] = 4
    BY <2>2 DEF Outcome, Cleared
  <2> HIDE DEF cleared, outcome, released
  <2>4. Abstract!Remember(t)
    BY <1>2, <2>1, <2>3 DEF Abstract!Remember, Abstract!InputGates, cleared, outcome, released
  <2> QED
    BY <2>4 DEF Abstract!Next
<1> QED
  BY <1>3, <1>4

\* Every step of the pipeline is one of the promise or a stutter.
LEMMA PromiseNext ==
  Inv /\ Chained /\ [Next]_vars => [Abstract!Next]_(Abstract!vars)
<1> SUFFICES ASSUME Inv, Chained, [Next]_vars
             PROVE  [Abstract!Next]_(Abstract!vars)
  OBVIOUS
<1>1. CASE UNCHANGED vars
  BY <1>1 DEF vars, Abstract!vars, Cleared, Outcome
<1>2. ASSUME NEW t \in Turns, Submit(t) \/ Step(t)
      PROVE  [Abstract!Next]_(Abstract!vars)
  BY <1>2, StepEffect, StagePromised
<1>3. ASSUME NEW t \in Turns, Interrupt(t)
      PROVE  [Abstract!Next]_(Abstract!vars)
  BY <1>3, InterruptPromised DEF Abstract!Next
<1>4. ASSUME NEW t \in Turns, StoreMemory(t) \/ MemoryStored(t)
      PROVE  [Abstract!Next]_(Abstract!vars)
  BY <1>4, StorePromised
<1> QED
  BY <1>1, <1>2, <1>3, <1>4 DEF Next

\* The pipeline implements Turn, for any number of concurrent turns: gates are
\* cleared in order, nothing is released before the last of them, a turn that
\* ended stays as it ended, and memory takes a turn only between its input
\* gates and its filter, or when it was abandoned there.
THEOREM TurnIsKept == Spec => TurnSpec
BY PromiseInit, PromiseNext, Invariance, ChainedAlways, PTL
DEF Spec, TurnSpec, Abstract!Spec

=============================================================================
