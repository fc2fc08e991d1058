------------------------ MODULE OrchestrationProofs ------------------------
(***************************************************************************)
(* Theorems about Orchestration, for any number of parallel calls and any  *)
(* limits: permits are neither exceeded nor lost, refs resolve, no string  *)
(* of a network tool is seen unscanned, the rounds of a turn are bounded,  *)
(* and a tool call without a record ends the run that made it. All five    *)
(* come from one inductive invariant; Effects reduces the actions to what  *)
(* they do.                                                                *)
(***************************************************************************)
EXTENDS Orchestration, FiniteSetTheorems, TLAPS

\* The parts of the inductive invariant.

\* An agent in the middle of its run.
Busy(a) == agent[a].phase \in {"model", "tools"}

\* The turn has begun, and its calls are those of the response it waits on.
MainFits ==
  /\ agent["main"].phase # "off"
  /\ agent["main"].attempt > 0
  /\ agent["main"].phase # "tools" => \A s \in Slots : call[s] = NoCall

\* An expert is at work exactly while its call runs, and waits for a tool of
\* its own exactly while one is under way.
CallFits(s) ==
  /\ call[s].kind = "none" => call[s].place \in {"none", "done"}
  /\ call[s].place # "done" => call[s].ref = 0
  /\ call[s].place = "waiting" => call[s].kind \in Experts
  /\ call[s].place = "scanning" => call[s].kind \in Tools
  /\ Busy(s) <=> s \in Running
  /\ ~Busy(s) => agent[s].phase = "off"
  /\ nested[s].place # "none" <=> agent[s].phase = "tools"
  /\ nested[s].place # "none" => nested[s].kind \in Tools

Fits == MainFits /\ \A s \in Slots : CallFits(s)

\* No attempt made more requests than the cap allows.
InCap == \A a \in Agents : agent[a].requests <= RequestLimit(a)

\* Every tool round cost a request of its attempt; a forced run has none.
Spent ==
  /\ run = "driving" =>
       rounds <= (agent["main"].attempt - 1) * (MaxTurns + 1) + agent["main"].requests
  /\ RoundsBounded

\* The expert calls that may still add a finding.
Open == {s \in Slots : call[s].kind \in Experts /\ call[s].place \in {"waiting", "running"}}

\* A finding comes from one expert call of one round.
FindingsBounded ==
  /\ IsFiniteSet(findings)
  /\ Cardinality(findings) + Cardinality(Open) <= Cardinality(Slots) * rounds

\* Every ref anybody holds is that of a finding.
RefsKnown ==
  /\ known \subseteq findings
  /\ \A s \in Slots : call[s].ref \in findings \cup {0} /\ call[s].given \subseteq findings
  /\ \A s \in Running : call[s].given \subseteq call[s].materials

\* A call under way was counted when it started.
Accounted == InFlight <= unrecorded

---------------------------------------------------------------------------
\* What a step does

MainStops ==
  \E phase \in {"answered", "failed"} :
    /\ Asking("main") \/ (agent["main"].phase = "tools" /\ phase = "failed")
    /\ MainEnds(phase)
ExpertStops(s) == Busy(s) /\ ExpertFails(s)
ExpertDelivers(s) == agent[s].phase = "model" /\ ExpertAnswers(s)
AsksAgain(a) ==
  /\ MayAsk(a) /\ agent' = Asked(a)
  /\ UNCHANGED <<run, call, nested, permits, findings, known, histories>>
StartsOver(a) == MayAsk(a) /\ agent[a].attempt < MaxAttempts /\ Retry(a)
Forced == Asking("main") /\ run = "driving" /\ ForceAnswer

MainCall(s)   == call[s].kind \in Tools /\ call[s].place \in {"running", "scanning"}
NestedCall(s) == nested[s].place \in {"running", "scanning"}
Scan(s) ==
  \/ /\ MainCall(s) /\ call' = [call EXCEPT ![s].place = "scanning"] /\ UNCHANGED nested
  \/ /\ NestedCall(s) /\ nested' = [nested EXCEPT ![s].place = "scanning"] /\ UNCHANGED call
Scanning(s) == Scan(s) /\ UNCHANGED <<run, agent, permits, findings, known, histories>>

\* What a model may be given.
Passed == {"local", "scanned", "nested", "error"}

MainDone(s) ==
  \E outputs \in SUBSET Passed : MainCall(s) /\ MainToolDone(s, outputs)
NestedDone(s) ==
  \E outputs \in SUBSET Passed : NestedCall(s) /\ NestedToolDone(s, outputs)

\* What a step's effect depends on.
Typed == TypeOK /\ Fits

\* The main agent is no slot, tools are no experts, and the limits are
\* positive (constants of src/foundation/vocab/constants.py).
LEMMA Distinct ==
  /\ \A s \in Slots : s # "main" /\ s \in Agents
  /\ "main" \in Agents /\ Tools \cap Experts = {} /\ "none" \notin Tools \cup Experts
  /\ Tools \cup Experts = Kinds
  /\ MaxTurns \in Nat /\ MaxTurns > 0 /\ ExpertTurns \in Nat /\ ExpertTurns > 0
  /\ MaxAttempts \in Nat /\ MaxAttempts > 0 /\ MaxConcurrent \in Nat /\ MaxConcurrent > 0
<1>1. \A s \in Slots : s # "main" /\ s \in Agents
  BY OrchestrationAssumption DEF Agents
<1>2. "main" \in Agents /\ Tools \cap Experts = {} /\ "none" \notin Tools \cup Experts
  BY DEF Agents, Tools, Experts
<1>3. Tools \cup Experts = Kinds
  BY OrchestrationAssumption DEF Tools, Experts
<1>4. {MaxTurns, ExpertTurns, MaxAttempts, MaxConcurrent} \subseteq Nat \ {0}
  BY OrchestrationAssumption
<1>5. /\ MaxTurns \in Nat /\ MaxTurns > 0 /\ ExpertTurns \in Nat /\ ExpertTurns > 0
      /\ MaxAttempts \in Nat /\ MaxAttempts > 0 /\ MaxConcurrent \in Nat /\ MaxConcurrent > 0
  BY <1>4
<1> QED
  BY <1>1, <1>2, <1>3, <1>5

\* Every step has one of fourteen effects: the endings of Answer,
\* TransientError, PermanentError, Cap and the timeouts come down to three.
LEMMA Effects ==
  ASSUME Typed, Next
  PROVE  \/ MainStops \/ Forced \/ CallCapabilities \/ ToolsReturned
         \/ \E a \in Agents : AsksAgain(a) \/ StartsOver(a)
         \/ \E s \in Slots :
              \/ ExpertStops(s) \/ ExpertDelivers(s) \/ CallTool(s) \/ Scanning(s)
              \/ MainDone(s) \/ NestedDone(s) \/ ExpertStarts(s) \/ ExpertRefused(s)
<1> DEFINE Goal ==
         \/ MainStops \/ Forced \/ CallCapabilities \/ ToolsReturned
         \/ \E a \in Agents : AsksAgain(a) \/ StartsOver(a)
         \/ \E s \in Slots :
              \/ ExpertStops(s) \/ ExpertDelivers(s) \/ CallTool(s) \/ Scanning(s)
              \/ MainDone(s) \/ NestedDone(s) \/ ExpertStarts(s) \/ ExpertRefused(s)
<1>1. ASSUME NEW a \in Agents,
             \/ Answer(a) \/ Malformed(a) \/ TransientError(a) \/ PermanentError(a) \/ Cap(a)
             \/ ArgumentsExhausted(a)
      PROVE  Goal
  <2>1. a = "main" \/ a \in Slots
    BY DEF Agents
  <2>2. CASE Answer(a)
    BY <2>1, <2>2, Distinct DEF Answer, MayAsk, Asking, MainStops, ExpertDelivers
  <2>3. CASE Malformed(a)
    BY <2>3 DEF Malformed, AsksAgain
  <2>4. CASE TransientError(a)
    BY <2>1, <2>4, Distinct
    DEF TransientError, MayAsk, Asking, StartsOver, MainStops, ExpertStops, Busy
  <2>5. CASE PermanentError(a)
    BY <2>1, <2>5, Distinct DEF PermanentError, MayAsk, Asking, MainStops, ExpertStops, Busy
  <2>6. CASE Cap(a)
    BY <2>1, <2>6, Distinct DEF Cap, Asking, MainStops, ExpertStops, Busy, Forced
  <2>7. CASE ArgumentsExhausted(a)
    BY <2>1, <2>7, Distinct DEF ArgumentsExhausted, MainStops, ExpertStops, Busy
  <2> QED
    BY <1>1, <2>2, <2>3, <2>4, <2>5, <2>6, <2>7
<1>2. ASSUME NEW s \in Slots, ToolReturns(s)
      PROVE  Goal
  <2>1. /\ "raw" \notin Passed
        /\ {"local"} \in SUBSET Passed
    BY DEF Passed
  <2>2. MainDone(s) \/ NestedDone(s) \/ Scanning(s)
    BY <1>2, <2>1
    DEF ToolReturns, NeedsScan, Unscanned, MainDone, NestedDone, Scanning, Scan, MainCall,
        NestedCall
  <2> QED
    BY <2>2
<1>3. ASSUME NEW s \in Slots, ToolFails(s) \/ Scanned(s)
      PROVE  Goal
  <2>1. CASE ToolFails(s)
    <3>1. \A kind : ErrorText(kind) \subseteq SUBSET Passed
      BY DEF ErrorText, Passed
    <3>2. MainDone(s) \/ NestedDone(s)
      BY <2>1, <3>1 DEF ToolFails, MainDone, NestedDone, MainCall, NestedCall
    <3> QED
      BY <3>2
  <2>2. CASE Scanned(s)
    <3>1. \A rest \in Copied : {"scanned"} \cup rest \in SUBSET Passed
      BY DEF Copied, Passed
    <3>2. MainDone(s) \/ NestedDone(s)
      BY <2>2, <3>1 DEF Scanned, MainDone, NestedDone, MainCall, NestedCall
    <3> QED
      BY <3>2
  <2> QED
    BY <1>3, <2>1, <2>2
<1>4. ASSUME NEW s \in Slots, HandlerRaises(s)
      PROVE  Goal
  <2>1. MainFits /\ CallFits(s)
    BY DEF Typed, Fits
  <2>2. CASE /\ call[s].kind \in Tools /\ call[s].place \in {"running", "scanning"}
             /\ MainEnds("failed")
    <3>1. agent["main"].phase = "tools"
      BY <2>1, <2>2 DEF MainFits, NoCall
    <3> QED
      BY <2>2, <3>1 DEF MainStops
  <2>3. CASE nested[s].place \in {"running", "scanning"} /\ ExpertFails(s)
    BY <2>1, <2>3 DEF ExpertStops, CallFits, Busy
  <2> QED
    BY <1>4, <2>2, <2>3 DEF HandlerRaises
<1>5. ASSUME NEW s \in Slots, ExpertTimeout(s)
      PROVE  Goal
  <2>1. CallFits(s)
    BY DEF Typed, Fits
  <2> QED
    BY <1>5, <2>1 DEF ExpertTimeout, ExpertStops, CallFits, Running
<1>6. CASE TurnTimeout
  <2>1. Asking("main") \/ agent["main"].phase = "tools"
    BY <1>6 DEF TurnTimeout, Asking
  <2> QED
    BY <1>6, <2>1 DEF TurnTimeout, MainStops
<1> HIDE DEF Goal
<1>7. CallCapabilities \/ ToolsReturned => Goal
  BY DEF Goal
<1>8. ASSUME NEW s \in Slots, CallTool(s) \/ ExpertStarts(s) \/ ExpertRefused(s) PROVE Goal
  BY <1>8 DEF Goal
<1> QED
  BY <1>1, <1>2, <1>3, <1>4, <1>5, <1>6, <1>7, <1>8 DEF Next, Progress, Goal

---------------------------------------------------------------------------
\* Finite sets of slots

\* Sets of slots are finite; adding or removing one slot counts one.
LEMMA SlotSets ==
  ASSUME NEW T \in SUBSET Slots
  PROVE  /\ IsFiniteSet(T) /\ Cardinality(T) \in Nat /\ Cardinality(T) <= Cardinality(Slots)
         /\ \A s \in Slots : s \notin T => Cardinality(T \cup {s}) = Cardinality(T) + 1
         /\ \A s \in T : Cardinality(T \ {s}) = Cardinality(T) - 1
         /\ \A s \in T : Cardinality(T) > 0
<1>1. IsFiniteSet(Slots)
  BY OrchestrationAssumption
<1>2. IsFiniteSet(T) /\ Cardinality(T) <= Cardinality(Slots)
  BY <1>1, FS_Subset
<1>3. Cardinality(T) \in Nat
  BY <1>2, FS_CardinalityType
<1>4. ASSUME NEW s \in Slots, s \notin T PROVE Cardinality(T \cup {s}) = Cardinality(T) + 1
  BY <1>2, <1>4, FS_AddElement
<1>5. ASSUME NEW s \in T PROVE Cardinality(T \ {s}) = Cardinality(T) - 1 /\ Cardinality(T) > 0
  <2>1. Cardinality(T \ {s}) = Cardinality(T) - 1
    BY <1>2, FS_RemoveElement
  <2>2. IsFiniteSet(T \ {s})
    BY <1>2, FS_RemoveElement
  <2>3. Cardinality(T \ {s}) \in Nat
    BY <2>2, FS_CardinalityType
  <2> QED
    BY <1>3, <2>1, <2>3
<1> QED
  BY <1>2, <1>3, <1>4, <1>5

\* What is in flight, in its two parts.
MainFlight   == {s \in Slots : call[s].kind \in Tools /\ call[s].place \in {"running", "scanning"}}
NestedFlight == {s \in Slots : nested[s].place # "none"}

\* InFlight counts the tool calls of the main agent and of experts.
LEMMA Flights ==
  /\ MainFlight \in SUBSET Slots /\ NestedFlight \in SUBSET Slots
  /\ InFlight = Cardinality(MainFlight) + Cardinality(NestedFlight)
  /\ InFlight \in Nat
<1>1. MainFlight \in SUBSET Slots /\ NestedFlight \in SUBSET Slots
  BY DEF MainFlight, NestedFlight
<1>2. Cardinality(MainFlight) \in Nat /\ Cardinality(NestedFlight) \in Nat
  BY <1>1, SlotSets
<1>3. InFlight = Cardinality(MainFlight) + Cardinality(NestedFlight)
  BY DEF InFlight, MainFlight, NestedFlight
<1> QED
  BY <1>1, <1>2, <1>3

\* How a step changes the sets of slots that are counted.
Same(S)      == S' = S
Leaves(S, s) == s \in S /\ S' = S \ {s}
Joins(S, s)  == s \notin S /\ S' = S \cup {s}

\* The inductive invariant.
IInv == /\ TypeOK /\ Fits /\ InCap /\ Spent /\ ExpertsBounded /\ FindingsBounded
        /\ RefsKnown /\ Accounted /\ ScannedBeforeReasoning

\* An agent whose phase alone changes keeps its requests and its attempt.
LEMMA AgentPhased ==
  ASSUME agent \in [Agents -> AgentState], NEW a \in Agents,
         NEW ph \in {"model", "answered", "failed"}
  PROVE  /\ [agent[a] EXCEPT !.phase = ph] \in AgentState
         /\ [agent[a] EXCEPT !.phase = ph].phase = ph
         /\ [agent[a] EXCEPT !.phase = ph].requests = agent[a].requests
         /\ [agent[a] EXCEPT !.phase = ph].attempt = agent[a].attempt
BY DEF AgentState

\* A malformed answer costs an agent one request (Asked).
LEMMA AgentAsked ==
  ASSUME agent \in [Agents -> AgentState], NEW a \in Agents,
         agent[a].requests + 1 <= MaxTurns + ExpertTurns + 1,
         agent' = [agent EXCEPT ![a].requests = @ + 1]
  PROVE  /\ agent'[a] \in AgentState /\ agent'[a].phase = agent[a].phase
         /\ agent'[a].requests = agent[a].requests + 1
         /\ agent'[a].attempt = agent[a].attempt
         /\ \A b \in Agents : b # a => agent'[b] = agent[b]
         /\ agent' \in [Agents -> AgentState]
<1>1. agent[a].requests + 1 \in 0 .. MaxTurns + ExpertTurns + 1
  BY Distinct DEF AgentState
<1>2. /\ agent'[a].phase = agent[a].phase /\ agent'[a].requests = agent[a].requests + 1
      /\ agent'[a].attempt = agent[a].attempt
  BY DEF AgentState
<1>3. agent'[a] \in AgentState
  BY <1>1 DEF AgentState
<1>4. \A b \in Agents : b # a => agent'[b] = agent[b]
  OBVIOUS
<1>5. agent' \in [Agents -> AgentState]
  BY <1>3, <1>4
<1> QED
  BY <1>2, <1>3, <1>4, <1>5

\* A response with tool calls costs an agent one request.
LEMMA AgentCalls ==
  ASSUME agent \in [Agents -> AgentState], NEW a \in Agents,
         agent[a].requests + 1 <= MaxTurns + ExpertTurns + 1,
         agent' = [agent EXCEPT ![a].phase = "tools", ![a].requests = @ + 1]
  PROVE  /\ agent'[a] \in AgentState /\ agent'[a].phase = "tools"
         /\ agent'[a].requests = agent[a].requests + 1
         /\ agent'[a].attempt = agent[a].attempt
         /\ \A b \in Agents : b # a => agent'[b] = agent[b]
         /\ agent' \in [Agents -> AgentState]
<1>1. agent[a].requests + 1 \in 0 .. MaxTurns + ExpertTurns + 1
  BY Distinct DEF AgentState
<1>2. /\ agent'[a].phase = "tools" /\ agent'[a].requests = agent[a].requests + 1
      /\ agent'[a].attempt = agent[a].attempt
  BY DEF AgentState
<1>3. agent'[a] \in AgentState
  BY <1>1 DEF AgentState
<1>4. \A b \in Agents : b # a => agent'[b] = agent[b]
  OBVIOUS
<1>5. agent' \in [Agents -> AgentState]
  BY <1>3, <1>4
<1> QED
  BY <1>2, <1>3, <1>4, <1>5

\* A fresh attempt (run_agent, in Retry) is a legal state of an agent.
LEMMA AgentRestarts ==
  ASSUME NEW o \in AgentState, o.attempt < MaxAttempts
  PROVE  [phase |-> "model", requests |-> 0, attempt |-> o.attempt + 1] \in AgentState
BY Distinct DEF AgentState

\* The refs are numbers.
LEMMA Bounds ==
  /\ Cardinality(Slots) \in Nat /\ Cardinality(Slots) * (MaxTurns + 1) * MaxAttempts \in Nat
  /\ 0 \in Refs /\ Refs \subseteq Nat
<1>1. Cardinality(Slots) \in Nat
  BY SlotSets
<1>2. Cardinality(Slots) * (MaxTurns + 1) \in Nat
  BY <1>1, Distinct
<1>3. Cardinality(Slots) * (MaxTurns + 1) * MaxAttempts \in Nat
  BY <1>2, Distinct
<1> QED
  BY <1>1, <1>3 DEF Refs

\* The states at rest have their types.
LEMMA Resting ==
  /\ Off \in AgentState /\ Started \in AgentState /\ NoCall \in CallState /\ NoTool \in ToolState
<1>1. Off \in AgentState /\ Started \in AgentState
  BY Distinct DEF Off, Started, AgentState
<1>2. NoCall \in CallState /\ NoTool \in ToolState
  BY Bounds DEF NoCall, NoTool, CallState, ToolState, Place
<1> QED
  BY <1>1, <1>2

\* A call that moves keeps its kind, its ref and what it was given.
LEMMA CallPlaced ==
  ASSUME NEW o \in CallState, NEW p \in Place
  PROVE  /\ [o EXCEPT !.place = p] \in CallState
         /\ [o EXCEPT !.place = p].kind = o.kind /\ [o EXCEPT !.place = p].place = p
         /\ [o EXCEPT !.place = p].ref = o.ref /\ [o EXCEPT !.place = p].given = o.given
         /\ [o EXCEPT !.place = p].materials = o.materials
BY DEF CallState

---------------------------------------------------------------------------
\* Counting

\* Permits and running experts stay in balance when an expert starts with a
\* permit, ends giving it back, or the turn ends and all that run give theirs back.
LEMMA PermitsCounted ==
  ASSUME TypeOK, ExpertsBounded,
         \/ Same(Running) /\ permits' = permits
         \/ \E s \in Slots : Leaves(Running, s) /\ permits' = permits + 1
         \/ \E s \in Slots : Joins(Running, s) /\ permits > 0 /\ permits' = permits - 1
         \/ Running' = {} /\ permits' = MaxConcurrent
  PROVE  ExpertsBounded' /\ permits' \in 0 .. MaxConcurrent
<1>1. Running \in SUBSET Slots /\ Running' \in SUBSET Slots
  BY DEF Running
<1>2. Cardinality(Running) \in Nat /\ Cardinality(Running') \in Nat
  BY <1>1, SlotSets
<1>3. permits \in Nat /\ permits + Cardinality(Running) = MaxConcurrent
  BY DEF TypeOK, ExpertsBounded
<1>4. permits' \in Nat /\ permits' + Cardinality(Running') = MaxConcurrent
  <2>1. CASE Same(Running) /\ permits' = permits
    BY <1>3, <2>1 DEF Same
  <2>2. CASE \E s \in Slots : Leaves(Running, s) /\ permits' = permits + 1
    BY <1>1, <1>2, <1>3, <2>2, SlotSets DEF Leaves
  <2>3. CASE \E s \in Slots : Joins(Running, s) /\ permits > 0 /\ permits' = permits - 1
    BY <1>1, <1>2, <1>3, <2>3, SlotSets DEF Joins
  <2>4. CASE Running' = {} /\ permits' = MaxConcurrent
    BY <2>4, Distinct, FS_EmptySet
  <2> QED
    BY <2>1, <2>2, <2>3, <2>4
<1> QED
  BY <1>2, <1>4, Distinct DEF ExpertsBounded

\* One more element is at most one more to count.
LEMMA OneMore ==
  ASSUME NEW F, IsFiniteSet(F), NEW x
  PROVE  /\ IsFiniteSet(F \cup {x}) /\ Cardinality(F \cup {x}) \in Nat
         /\ Cardinality(F \cup {x}) <= Cardinality(F) + 1
<1>1. Cardinality(F) \in Nat
  BY FS_CardinalityType
<1>2. IsFiniteSet(F \cup {x})
      /\ (Cardinality(F \cup {x}) = Cardinality(F) \/ Cardinality(F \cup {x}) = Cardinality(F) + 1)
  BY FS_AddElement
<1> QED
  BY <1>1, <1>2

\* A finding takes the place of the expert call that found it; a round opens
\* at most one call per slot.
LEMMA FindingsCounted ==
  ASSUME TypeOK, FindingsBounded,
         \/ findings' = findings /\ rounds' = rounds /\ Open' \subseteq Open
         \/ /\ rounds' = rounds /\ \E x : findings' = findings \cup {x}
            /\ \E s \in Slots : Leaves(Open, s)
         \/ findings' = findings /\ Open = {} /\ rounds' = rounds + 1
  PROVE  FindingsBounded'
<1>1. Open \in SUBSET Slots /\ Open' \in SUBSET Slots /\ IsFiniteSet(findings)
  BY DEF Open, FindingsBounded
<1>2. /\ Cardinality(Open) \in Nat /\ Cardinality(Open') \in Nat
      /\ Cardinality(Open') <= Cardinality(Slots) /\ IsFiniteSet(Open)
      /\ Cardinality(findings) \in Nat /\ Cardinality(Slots) \in Nat /\ rounds \in Nat
      /\ Cardinality(findings) + Cardinality(Open) <= Cardinality(Slots) * rounds
  BY <1>1, SlotSets, Bounds, FS_CardinalityType DEF TypeOK, FindingsBounded
<1>3. CASE findings' = findings /\ rounds' = rounds /\ Open' \subseteq Open
  <2>1. Cardinality(Open') <= Cardinality(Open)
    BY <1>2, <1>3, FS_Subset
  <2> DEFINE n == Cardinality(Slots) * rounds
  <2>2. n \in Nat
    BY <1>2
  <2> HIDE DEF n
  <2>3. Cardinality(findings) + Cardinality(Open') <= n
    BY <1>2, <2>1, <2>2 DEF n
  <2> QED
    BY <1>1, <1>3, <2>3 DEF FindingsBounded, n
<1>4. CASE /\ rounds' = rounds /\ \E x : findings' = findings \cup {x}
           /\ \E s \in Slots : Leaves(Open, s)
  <2>1. PICK x : findings' = findings \cup {x}
    BY <1>4
  <2>2. IsFiniteSet(findings') /\ Cardinality(findings') <= Cardinality(findings) + 1
        /\ Cardinality(findings') \in Nat
    BY <1>1, <2>1, OneMore
  <2>3. Cardinality(Open') = Cardinality(Open) - 1
    BY <1>1, <1>4, SlotSets DEF Leaves
  <2> DEFINE n == Cardinality(Slots) * rounds
  <2>4. n \in Nat
    BY <1>2
  <2> HIDE DEF n
  <2>5. Cardinality(findings') + Cardinality(Open') <= n
    BY <1>2, <2>2, <2>3, <2>4 DEF n
  <2> QED
    BY <1>4, <2>2, <2>5 DEF FindingsBounded, n
<1>5. CASE findings' = findings /\ Open = {} /\ rounds' = rounds + 1
  <2>1. Cardinality(Slots) * (rounds + 1) = Cardinality(Slots) * rounds + Cardinality(Slots)
    BY <1>2
  <2>2. Cardinality(Slots) * rounds \in Nat /\ Cardinality(findings) <= Cardinality(Slots) * rounds
    BY <1>2
  <2> QED
    BY <1>1, <1>2, <1>5, <2>1, <2>2 DEF FindingsBounded
<1> QED
  BY <1>3, <1>4, <1>5

\* What was started is either recorded or still under way.
Balanced == unrecorded' + InFlight = unrecorded + InFlight'

\* A tool call that is recorded as it ends, or counted as it starts, keeps
\* what was started in balance.
LEMMA CallsCounted ==
  ASSUME TypeOK, Accounted,
         \/ unrecorded' = unrecorded /\ Same(MainFlight) /\ Same(NestedFlight)
         \/ /\ unrecorded' = unrecorded - 1 /\ Same(NestedFlight)
            /\ \E s \in Slots : Leaves(MainFlight, s)
         \/ /\ unrecorded' = unrecorded - 1 /\ Same(MainFlight)
            /\ \E s \in Slots : Leaves(NestedFlight, s)
         \/ /\ unrecorded' = unrecorded + 1 /\ Same(MainFlight)
            /\ \E s \in Slots : Joins(NestedFlight, s)
         \/ /\ unrecorded' = unrecorded + Cardinality(MainFlight') /\ MainFlight = {}
            /\ Same(NestedFlight)
  PROVE  Balanced /\ Accounted' /\ unrecorded' \in Nat
<1>1. /\ MainFlight \in SUBSET Slots /\ NestedFlight \in SUBSET Slots
      /\ MainFlight' \in SUBSET Slots /\ NestedFlight' \in SUBSET Slots
      /\ InFlight = Cardinality(MainFlight) + Cardinality(NestedFlight)
      /\ InFlight' = Cardinality(MainFlight') + Cardinality(NestedFlight')
  BY Flights DEF MainFlight, NestedFlight, InFlight
<1>2. /\ Cardinality(MainFlight) \in Nat /\ Cardinality(NestedFlight) \in Nat
      /\ Cardinality(MainFlight') \in Nat /\ Cardinality(NestedFlight') \in Nat
      /\ unrecorded \in Nat /\ Cardinality(MainFlight) + Cardinality(NestedFlight) <= unrecorded
  BY <1>1, SlotSets DEF TypeOK, Accounted
<1>3. CASE unrecorded' = unrecorded /\ Same(MainFlight) /\ Same(NestedFlight)
  BY <1>1, <1>2, <1>3 DEF Same, Balanced, Accounted
<1>4. CASE /\ unrecorded' = unrecorded - 1 /\ Same(NestedFlight)
           /\ \E s \in Slots : Leaves(MainFlight, s)
  <2>1. Cardinality(MainFlight') = Cardinality(MainFlight) - 1
    BY <1>1, <1>4, SlotSets DEF Leaves
  <2> QED
    BY <1>1, <1>2, <1>4, <2>1 DEF Same, Balanced, Accounted
<1>5. CASE /\ unrecorded' = unrecorded - 1 /\ Same(MainFlight)
           /\ \E s \in Slots : Leaves(NestedFlight, s)
  <2>1. Cardinality(NestedFlight') = Cardinality(NestedFlight) - 1
    BY <1>1, <1>5, SlotSets DEF Leaves
  <2> QED
    BY <1>1, <1>2, <1>5, <2>1 DEF Same, Balanced, Accounted
<1>6. CASE /\ unrecorded' = unrecorded + 1 /\ Same(MainFlight)
           /\ \E s \in Slots : Joins(NestedFlight, s)
  <2>1. Cardinality(NestedFlight') = Cardinality(NestedFlight) + 1
    BY <1>1, <1>6, SlotSets DEF Joins
  <2> QED
    BY <1>1, <1>2, <1>6, <2>1 DEF Same, Balanced, Accounted
<1>7. CASE /\ unrecorded' = unrecorded + Cardinality(MainFlight') /\ MainFlight = {}
           /\ Same(NestedFlight)
  <2>1. Cardinality(MainFlight) = 0
    BY <1>7, FS_EmptySet
  <2> QED
    BY <1>1, <1>2, <1>7, <2>1 DEF Same, Balanced, Accounted
<1> QED
  BY <1>3, <1>4, <1>5, <1>6, <1>7

\* Cancelled calls are never more than were counted.
LEMMA CallsCut ==
  ASSUME TypeOK, Accounted, unrecorded' = unrecorded,
         MainFlight' \subseteq MainFlight, NestedFlight' \subseteq NestedFlight
  PROVE  Accounted' /\ unrecorded' \in Nat
<1>1. /\ MainFlight \in SUBSET Slots /\ NestedFlight \in SUBSET Slots
      /\ MainFlight' \in SUBSET Slots /\ NestedFlight' \in SUBSET Slots
      /\ InFlight = Cardinality(MainFlight) + Cardinality(NestedFlight)
      /\ InFlight' = Cardinality(MainFlight') + Cardinality(NestedFlight')
  BY Flights DEF MainFlight, NestedFlight, InFlight
<1>2. Cardinality(MainFlight') <= Cardinality(MainFlight)
      /\ Cardinality(NestedFlight') <= Cardinality(NestedFlight)
  BY <1>1, SlotSets, FS_Subset
<1>3. /\ Cardinality(MainFlight) \in Nat /\ Cardinality(NestedFlight) \in Nat
      /\ Cardinality(MainFlight') \in Nat /\ Cardinality(NestedFlight') \in Nat
  BY <1>1, SlotSets
<1> QED
  BY <1>1, <1>2, <1>3 DEF TypeOK, Accounted

---------------------------------------------------------------------------
\* A step at one slot

\* Whatever a step does, it does to one slot.
Elsewhere(s) ==
  /\ call' \in [Slots -> CallState] /\ nested' \in [Slots -> ToolState]
  /\ agent' \in [Agents -> AgentState] /\ agent'["main"] = agent["main"] /\ run' = run
  /\ \A t \in Slots : t # s => /\ call'[t] = call[t] /\ nested'[t] = nested[t]
                              /\ agent'[t] = agent[t]

\* A step at a slot with a call, that leaves that slot coherent, leaves
\* everything coherent: the main agent waits for its tools meanwhile.
LEMMA AtOneSlot ==
  ASSUME Typed, InCap, Spent, NEW s \in Slots, call[s].place # "none", Elsewhere(s),
         CallFits(s)', agent'[s].requests <= ExpertTurns + 1, rounds' = rounds
  PROVE  Fits' /\ InCap' /\ Spent'
<1>1. \A t \in Slots : t # s => call'[t] = call[t] /\ nested'[t] = nested[t] /\ agent'[t] = agent[t]
  BY DEF Elsewhere
<1>2. MainFits'
  <2>1. call[s] # NoCall
    BY DEF NoCall
  <2>2. agent["main"].phase = "tools"
    BY <2>1 DEF Typed, Fits, MainFits
  <2> QED
    BY <2>2 DEF Typed, Fits, MainFits, Elsewhere
<1>3. ASSUME NEW t \in Slots, t # s PROVE CallFits(t)'
  <2>1. CallFits(t)
    BY DEF Typed, Fits
  <2>2. t \in Running <=> t \in Running'
    BY <1>1, <1>3 DEF Running
  <2> QED
    BY <1>1, <1>3, <2>1, <2>2 DEF CallFits, Busy
<1>4. InCap'
  <2>1. RequestLimit("main")' = RequestLimit("main")
    BY DEF Elsewhere, RequestLimit
  <2>2. \A t \in Slots : RequestLimit(t)' = ExpertTurns + 1 /\ RequestLimit(t) = ExpertTurns + 1
    BY Distinct DEF RequestLimit
  <2>3. \A t \in Slots : agent'[t].requests <= ExpertTurns + 1
    BY <1>1, <2>2, Distinct DEF InCap
  <2>4. agent'["main"].requests <= RequestLimit("main")'
    BY <2>1, Distinct DEF InCap, Elsewhere
  <2> QED
    BY <2>2, <2>3, <2>4 DEF InCap, Agents
<1>5. Spent'
  BY DEF Spent, RoundsBounded, Elsewhere
<1> QED
  BY <1>2, <1>3, <1>4, <1>5 DEF Fits

\* What a step at one slot may change in the sets that are counted.
LEMMA SetsAtOneSlot ==
  ASSUME NEW s \in Slots, Elsewhere(s)
  PROVE  /\ Running' \ {s} = Running \ {s} /\ Open' \ {s} = Open \ {s}
         /\ MainFlight' \ {s} = MainFlight \ {s} /\ NestedFlight' \ {s} = NestedFlight \ {s}
         /\ Running' \subseteq Slots /\ Open' \subseteq Slots
         /\ MainFlight' \subseteq Slots /\ NestedFlight' \subseteq Slots
         /\ call'[s] = call[s] => Same(Running) /\ Same(Open) /\ Same(MainFlight)
         /\ nested'[s] = nested[s] => Same(NestedFlight)
<1>1. \A t \in Slots : t # s => call'[t] = call[t] /\ nested'[t] = nested[t]
  BY DEF Elsewhere
<1>2. Running' \ {s} = Running \ {s} /\ (call'[s] = call[s] => Same(Running))
      /\ Running' \subseteq Slots
  BY <1>1 DEF Running, Same
<1>3. Open' \ {s} = Open \ {s} /\ (call'[s] = call[s] => Same(Open)) /\ Open' \subseteq Slots
  BY <1>1 DEF Open, Same
<1>4. MainFlight' \ {s} = MainFlight \ {s} /\ (call'[s] = call[s] => Same(MainFlight))
      /\ MainFlight' \subseteq Slots
  BY <1>1 DEF MainFlight, Same
<1>5. NestedFlight' \ {s} = NestedFlight \ {s} /\ (nested'[s] = nested[s] => Same(NestedFlight))
      /\ NestedFlight' \subseteq Slots
  BY <1>1 DEF NestedFlight, Same
<1> QED
  BY <1>2, <1>3, <1>4, <1>5

\* Two sets that differ at most at one element.
LEMMA ChangesAtOne ==
  ASSUME NEW S, NEW T, NEW s, S \ {s} = T \ {s}
  PROVE  /\ s \in S /\ s \notin T => T = S \ {s}
         /\ s \notin S /\ s \in T => T = S \cup {s}
         /\ (s \in S <=> s \in T) => T = S
OBVIOUS

\* A tool call of the main agent ends (call_tool): it is recorded, and its
\* output was scanned or is local.
LEMMA MainToolReturned ==
  ASSUME IInv, NEW s \in Slots, MainDone(s)
  PROVE  IInv' /\ Balanced
<1>1. PICK outputs \in SUBSET Passed :
        MainCall(s) /\ MainToolDone(s, outputs)
  BY DEF MainDone
<1>2. /\ Typed /\ InCap /\ Spent /\ ExpertsBounded /\ FindingsBounded /\ RefsKnown /\ Accounted
      /\ ScannedBeforeReasoning /\ TypeOK /\ CallFits(s)
  BY DEF IInv, Typed, Fits
<1>3. /\ call' = [call EXCEPT ![s] = [@ EXCEPT !.place = "done"]] /\ unrecorded' = unrecorded - 1
      /\ seen' = seen \cup outputs
      /\ UNCHANGED <<run, agent, nested, permits, findings, known, rounds, learned>>
  BY <1>1 DEF MainToolDone, Recorded
<1>4. /\ call \in [Slots -> CallState] /\ call[s] \in CallState /\ "done" \in Place
      /\ agent \in [Agents -> AgentState] /\ nested \in [Slots -> ToolState]
  BY <1>2 DEF TypeOK, Place
<1>5. /\ call'[s] \in CallState /\ call'[s].kind = call[s].kind /\ call'[s].place = "done"
      /\ call'[s].ref = call[s].ref /\ call'[s].given = call[s].given
      /\ \A t \in Slots : t # s => call'[t] = call[t]
  <2>1. call'[s] = [call[s] EXCEPT !.place = "done"] /\ \A t \in Slots : t # s => call'[t] = call[t]
    BY <1>3, <1>4
  <2> QED
    BY <1>4, <2>1, CallPlaced
<1>6. Elsewhere(s)
  BY <1>3, <1>4, <1>5 DEF Elsewhere
<1>7. /\ call[s].kind \in Tools /\ call[s].kind \notin Experts
      /\ call[s].place \in {"running", "scanning"}
  BY <1>1, Distinct DEF MainCall
<1>8. CallFits(s)'
  BY <1>2, <1>3, <1>5, <1>7 DEF CallFits, Busy, Running
<1>9. agent'[s].requests <= ExpertTurns + 1
  BY <1>2, <1>3, Distinct DEF InCap, RequestLimit
<1>10. Fits' /\ InCap' /\ Spent'
  BY <1>2, <1>3, <1>6, <1>7, <1>8, <1>9, AtOneSlot
<1>11. s \notin Running /\ s \notin Running' /\ s \notin Open /\ s \notin Open'
       /\ s \in MainFlight /\ s \notin MainFlight'
  BY <1>5, <1>7 DEF Running, Open, MainFlight
<1>12. Same(Running) /\ Same(Open) /\ Leaves(MainFlight, s) /\ Same(NestedFlight)
  BY <1>3, <1>6, <1>11, SetsAtOneSlot, ChangesAtOne DEF Same, Leaves
<1>13. ExpertsBounded' /\ permits' \in 0 .. MaxConcurrent
  BY <1>2, <1>3, <1>12, PermitsCounted
<1>14. FindingsBounded'
  BY <1>2, <1>3, <1>12, FindingsCounted DEF Same
<1>15. Balanced /\ Accounted' /\ unrecorded' \in Nat
  BY <1>2, <1>3, <1>12, CallsCounted
<1>16. RefsKnown'
  BY <1>2, <1>3, <1>5, <1>12 DEF RefsKnown, Same, Running
<1>17. TypeOK' /\ ScannedBeforeReasoning'
  BY <1>2, <1>3, <1>6, <1>13, <1>15 DEF TypeOK, Elsewhere, ScannedBeforeReasoning, Passed
<1> QED
  BY <1>10, <1>13, <1>14, <1>15, <1>16, <1>17 DEF IInv

\* A tool call of an expert ends (call_tool): it is recorded, and its output
\* was scanned or is local.
LEMMA NestedToolReturned ==
  ASSUME IInv, NEW s \in Slots, NestedDone(s)
  PROVE  IInv' /\ Balanced
<1>1. PICK outputs \in SUBSET Passed :
        NestedCall(s) /\ NestedToolDone(s, outputs)
  BY DEF NestedDone
<1>2. /\ Typed /\ InCap /\ Spent /\ ExpertsBounded /\ FindingsBounded /\ RefsKnown /\ Accounted
      /\ ScannedBeforeReasoning /\ TypeOK /\ CallFits(s)
  BY DEF IInv, Typed, Fits
<1>3. /\ nested' = [nested EXCEPT ![s] = NoTool]
      /\ agent' = [agent EXCEPT ![s] = [@ EXCEPT !.phase = "model"]]
      /\ unrecorded' = unrecorded - 1 /\ seen' = seen \cup outputs
      /\ UNCHANGED <<run, call, permits, findings, known, rounds, learned>>
  BY <1>1 DEF NestedToolDone, Recorded
<1>4. /\ call \in [Slots -> CallState] /\ call[s] \in CallState
      /\ agent \in [Agents -> AgentState] /\ agent[s] \in AgentState /\ s \in Agents /\ s # "main"
      /\ nested \in [Slots -> ToolState] /\ nested[s] \in ToolState
  BY <1>2, Distinct DEF TypeOK
<1>5. /\ nested'[s] = NoTool /\ agent'[s] \in AgentState /\ agent'[s].phase = "model"
      /\ agent'[s].requests = agent[s].requests /\ agent'["main"] = agent["main"]
      /\ \A t \in Slots : t # s => nested'[t] = nested[t] /\ agent'[t] = agent[t]
  <2>1. /\ nested'[s] = NoTool /\ agent'[s] = [agent[s] EXCEPT !.phase = "model"]
        /\ agent'["main"] = agent["main"]
        /\ \A t \in Slots : t # s => nested'[t] = nested[t] /\ agent'[t] = agent[t]
    BY <1>3, <1>4, Distinct
  <2>2. /\ [agent[s] EXCEPT !.phase = "model"] \in AgentState
        /\ [agent[s] EXCEPT !.phase = "model"].phase = "model"
        /\ [agent[s] EXCEPT !.phase = "model"].requests = agent[s].requests
    BY <1>4, AgentPhased
  <2> QED
    BY <2>1, <2>2
<1>6. Elsewhere(s)
  BY <1>3, <1>4, <1>5, Resting DEF Elsewhere
<1>7. /\ nested[s].place # "none" /\ agent[s].phase = "tools" /\ Busy(s) /\ s \in Running
      /\ call[s].place = "running"
  BY <1>1, <1>2 DEF NestedCall, CallFits, Busy, Running
<1>8. CallFits(s)'
  BY <1>2, <1>3, <1>5, <1>7 DEF CallFits, Busy, Running, NoTool
<1>9. agent'[s].requests <= ExpertTurns + 1
  BY <1>2, <1>4, <1>5 DEF InCap, RequestLimit
<1>10. Fits' /\ InCap' /\ Spent'
  BY <1>2, <1>3, <1>6, <1>7, <1>8, <1>9, AtOneSlot
<1>11. s \in NestedFlight /\ s \notin NestedFlight'
  BY <1>5, <1>7 DEF NestedFlight, NoTool
<1>12. Same(Running) /\ Same(Open) /\ Same(MainFlight) /\ Leaves(NestedFlight, s)
  BY <1>3, <1>6, <1>11, SetsAtOneSlot, ChangesAtOne DEF Leaves
<1>13. ExpertsBounded' /\ permits' \in 0 .. MaxConcurrent
  BY <1>2, <1>3, <1>12, PermitsCounted
<1>14. FindingsBounded'
  BY <1>2, <1>3, <1>12, FindingsCounted DEF Same
<1>15. Balanced /\ Accounted' /\ unrecorded' \in Nat
  BY <1>2, <1>3, <1>12, CallsCounted
<1>16. RefsKnown'
  BY <1>2, <1>3, <1>12 DEF RefsKnown, Same
<1>17. TypeOK' /\ ScannedBeforeReasoning'
  BY <1>2, <1>3, <1>6, <1>13, <1>15 DEF TypeOK, Elsewhere, ScannedBeforeReasoning, Passed
<1> QED
  BY <1>10, <1>13, <1>14, <1>15, <1>16, <1>17 DEF IInv

\* Output of a NETWORK tool goes to the scanner.
LEMMA OutputScanned ==
  ASSUME IInv, NEW s \in Slots, Scanning(s)
  PROVE  IInv' /\ Balanced
<1>1. /\ Typed /\ InCap /\ Spent /\ ExpertsBounded /\ FindingsBounded /\ RefsKnown /\ Accounted
      /\ ScannedBeforeReasoning /\ TypeOK /\ CallFits(s)
  BY DEF IInv, Typed, Fits
<1>2. /\ UNCHANGED <<run, agent, permits, findings, known, rounds, learned, unrecorded, seen>>
      /\ Scan(s)
  BY DEF Scanning, histories
<1>3. /\ call \in [Slots -> CallState] /\ call[s] \in CallState
      /\ agent \in [Agents -> AgentState] /\ agent[s] \in AgentState /\ s \in Agents /\ s # "main"
      /\ nested \in [Slots -> ToolState] /\ nested[s] \in ToolState
  BY <1>1, Distinct DEF TypeOK
<1>4. /\ call'[s] \in CallState /\ nested'[s] \in ToolState
      /\ call'[s].kind = call[s].kind /\ nested'[s].kind = nested[s].kind
      /\ call'[s].ref = call[s].ref /\ call'[s].given = call[s].given
      /\ call' \in [Slots -> CallState] /\ nested' \in [Slots -> ToolState]
      /\ \A t \in Slots : t # s => call'[t] = call[t] /\ nested'[t] = nested[t]
      /\ \/ MainCall(s) /\ call'[s].place = "scanning" /\ nested' = nested
         \/ NestedCall(s) /\ nested'[s].place = "scanning" /\ call' = call
  <2>1. CASE MainCall(s) /\ call' = [call EXCEPT ![s].place = "scanning"] /\ UNCHANGED nested
    <3>1. /\ call'[s] = [call[s] EXCEPT !.place = "scanning"]
          /\ \A t \in Slots : t # s => call'[t] = call[t]
      BY <1>3, <2>1
    <3>2. /\ call'[s] \in CallState /\ call'[s].kind = call[s].kind /\ call'[s].place = "scanning"
          /\ call'[s].ref = call[s].ref /\ call'[s].given = call[s].given
      <4>1. "scanning" \in Place
        BY DEF Place
      <4> QED
        BY <1>3, <3>1, <4>1, CallPlaced
    <3>3. call' \in [Slots -> CallState]
      BY <1>3, <2>1, <3>2
    <3> QED
      BY <1>3, <2>1, <3>1, <3>2, <3>3
  <2>2. CASE NestedCall(s) /\ nested' = [nested EXCEPT ![s].place = "scanning"] /\ UNCHANGED call
    <3>1. nested'[s] = [nested[s] EXCEPT !.place = "scanning"]
          /\ \A t \in Slots : t # s => nested'[t] = nested[t]
      BY <1>3, <2>2
    <3>2. /\ nested'[s] \in ToolState /\ nested'[s].kind = nested[s].kind
          /\ nested'[s].place = "scanning"
      BY <1>3, <3>1 DEF Place, ToolState
    <3>3. nested' \in [Slots -> ToolState]
      BY <1>3, <2>2, <3>2
    <3> QED
      BY <1>3, <2>2, <3>1, <3>2, <3>3
  <2> QED
    BY <1>2, <2>1, <2>2 DEF Scan
<1>5. Elsewhere(s)
  BY <1>2, <1>3, <1>4 DEF Elsewhere
<1>6. /\ MainCall(s) => call[s].kind \in Tools /\ call[s].kind \notin Experts
      /\ NestedCall(s) => nested[s].place # "none" /\ agent[s].phase = "tools" /\ s \in Running
      /\ call[s].place # "none"
  BY <1>1, <1>2, Distinct DEF NestedCall, MainCall, Scan, CallFits, Busy, Running
<1>7. CallFits(s)'
  BY <1>1, <1>2, <1>4, <1>6, Distinct DEF CallFits, Busy, Running, MainCall
<1>8. agent'[s].requests <= ExpertTurns + 1
  BY <1>1, <1>2, <1>3 DEF InCap, RequestLimit
<1>9. Fits' /\ InCap' /\ Spent'
  BY <1>1, <1>2, <1>5, <1>6, <1>7, <1>8, AtOneSlot
<1>10. /\ s \in Running <=> s \in Running'
       /\ s \in Open <=> s \in Open'
       /\ s \in MainFlight <=> s \in MainFlight'
       /\ s \in NestedFlight <=> s \in NestedFlight'
  BY <1>4, <1>6 DEF Running, Open, MainFlight, NestedFlight, MainCall, NestedCall
<1>11. Same(Running) /\ Same(Open) /\ Same(MainFlight) /\ Same(NestedFlight)
  BY <1>5, <1>10, SetsAtOneSlot, ChangesAtOne DEF Same
<1>12. ExpertsBounded' /\ permits' \in 0 .. MaxConcurrent
  BY <1>1, <1>2, <1>11, PermitsCounted
<1>13. FindingsBounded'
  BY <1>1, <1>2, <1>11, FindingsCounted DEF Same
<1>14. Balanced /\ Accounted' /\ unrecorded' \in Nat
  BY <1>1, <1>2, <1>11, CallsCounted
<1>15. RefsKnown'
  <2>1. s \in Running => call'[s] = call[s]
    BY <1>4, <1>6 DEF Running, MainCall
  <2> QED
    BY <1>1, <1>2, <1>4, <1>11, <2>1 DEF RefsKnown, Same, Running
<1>16. TypeOK' /\ ScannedBeforeReasoning'
  BY <1>1, <1>2, <1>5, <1>12, <1>14 DEF TypeOK, Elsewhere, ScannedBeforeReasoning
<1> QED
  BY <1>9, <1>12, <1>13, <1>14, <1>15, <1>16 DEF IInv

\* An expert calls a tool it was granted.
LEMMA ExpertCallsTool ==
  ASSUME IInv, NEW s \in Slots, CallTool(s)
  PROVE  IInv' /\ Balanced
<1>1. PICK kind \in Granted(call[s].kind) :
        nested' = [nested EXCEPT ![s] = [kind |-> kind, place |-> "running"]]
  BY DEF CallTool
<1>2. /\ Typed /\ InCap /\ Spent /\ ExpertsBounded /\ FindingsBounded /\ RefsKnown /\ Accounted
      /\ ScannedBeforeReasoning /\ TypeOK /\ CallFits(s)
  BY DEF IInv, Typed, Fits
<1>3. /\ agent' = [agent EXCEPT ![s].phase = "tools", ![s].requests = @ + 1]
      /\ unrecorded' = unrecorded + 1
      /\ agent[s].phase = "model" /\ agent[s].requests < RequestLimit(s)
      /\ UNCHANGED <<run, call, permits, findings, known, rounds, learned, seen>>
  BY DEF CallTool, MayAsk, Asking
<1>4. /\ call \in [Slots -> CallState] /\ call[s] \in CallState
      /\ agent \in [Agents -> AgentState] /\ agent[s] \in AgentState /\ s \in Agents /\ s # "main"
      /\ nested \in [Slots -> ToolState] /\ nested[s] \in ToolState
  BY <1>2, Distinct DEF TypeOK
<1>5. /\ nested'[s] = [kind |-> kind, place |-> "running"] /\ agent'[s] \in AgentState
      /\ agent'[s].phase = "tools" /\ agent'[s].requests <= ExpertTurns + 1
      /\ agent'["main"] = agent["main"]
      /\ \A t \in Slots : t # s => nested'[t] = nested[t] /\ agent'[t] = agent[t]
  <2>1. /\ nested'[s] = [kind |-> kind, place |-> "running"]
        /\ \A t \in Slots : t # s => nested'[t] = nested[t]
    BY <1>1, <1>4
  <2>2. agent[s].requests \in Nat /\ agent[s].requests + 1 <= ExpertTurns + 1
    BY <1>3, <1>4, Distinct DEF RequestLimit, AgentState
  <2>3. agent[s].requests + 1 <= MaxTurns + ExpertTurns + 1
    BY <2>2, Distinct
  <2>4. /\ agent'[s] \in AgentState /\ agent'[s].phase = "tools"
        /\ agent'[s].requests = agent[s].requests + 1
        /\ \A b \in Agents : b # s => agent'[b] = agent[b]
    BY <1>3, <1>4, <2>3, AgentCalls
  <2> QED
    BY <2>1, <2>2, <2>4, Distinct
<1>6. Elsewhere(s)
  <2>1. kind \in Tools
    BY DEF Granted
  <2>2. [kind |-> kind, place |-> "running"] \in ToolState
    BY <2>1 DEF ToolState, Place
  <2> QED
    BY <1>1, <1>3, <1>4, <1>5, <2>2 DEF Elsewhere
<1>7. /\ nested[s].place = "none" /\ Busy(s) /\ s \in Running /\ call[s].place = "running"
      /\ kind \in Tools
  BY <1>2, <1>3 DEF CallFits, Busy, Running, Granted
<1>8. CallFits(s)'
  BY <1>2, <1>3, <1>5, <1>7 DEF CallFits, Busy, Running
<1>9. Fits' /\ InCap' /\ Spent'
  BY <1>2, <1>3, <1>5, <1>6, <1>7, <1>8, AtOneSlot
<1>10. s \notin NestedFlight /\ s \in NestedFlight'
  BY <1>5, <1>7 DEF NestedFlight
<1>11. Same(Running) /\ Same(Open) /\ Same(MainFlight) /\ Joins(NestedFlight, s)
  BY <1>3, <1>6, <1>10, SetsAtOneSlot, ChangesAtOne DEF Joins
<1>12. ExpertsBounded' /\ permits' \in 0 .. MaxConcurrent
  BY <1>2, <1>3, <1>11, PermitsCounted
<1>13. FindingsBounded'
  BY <1>2, <1>3, <1>11, FindingsCounted DEF Same
<1>14. Balanced /\ Accounted' /\ unrecorded' \in Nat
  BY <1>2, <1>3, <1>11, CallsCounted
<1>15. RefsKnown'
  BY <1>2, <1>3, <1>11 DEF RefsKnown, Same
<1>16. TypeOK' /\ ScannedBeforeReasoning'
  BY <1>2, <1>3, <1>6, <1>12, <1>14 DEF TypeOK, Elsewhere, ScannedBeforeReasoning
<1> QED
  BY <1>9, <1>12, <1>13, <1>14, <1>15, <1>16 DEF IInv

\* An expert takes its permit and packs the findings so far (_build_env), the
\* refs it was given among them.
LEMMA ExpertStarted ==
  ASSUME IInv, NEW s \in Slots, ExpertStarts(s)
  PROVE  IInv' /\ Balanced
<1>1. /\ Typed /\ InCap /\ Spent /\ ExpertsBounded /\ FindingsBounded /\ RefsKnown /\ Accounted
      /\ ScannedBeforeReasoning /\ TypeOK /\ CallFits(s)
  BY DEF IInv, Typed, Fits
<1>2. /\ call' = [call EXCEPT ![s] = [@ EXCEPT !.place = "running", !.materials = findings]]
      /\ agent' = [agent EXCEPT ![s] = Started]
      /\ call[s].place = "waiting" /\ permits > 0 /\ permits' = permits - 1
      /\ UNCHANGED <<run, nested, findings, known, rounds, learned, unrecorded, seen>>
  BY DEF ExpertStarts, Packed, histories
<1>3. /\ call \in [Slots -> CallState] /\ call[s] \in CallState
      /\ agent \in [Agents -> AgentState] /\ agent[s] \in AgentState /\ s \in Agents /\ s # "main"
      /\ nested \in [Slots -> ToolState] /\ nested[s] \in ToolState
  BY <1>1, Distinct DEF TypeOK
<1>4. /\ call'[s] \in CallState /\ call'[s].kind = call[s].kind /\ call'[s].place = "running"
      /\ call'[s].ref = call[s].ref /\ call'[s].given = call[s].given
      /\ call'[s].materials = findings
      /\ agent'[s] = Started /\ agent'["main"] = agent["main"]
      /\ \A t \in Slots : t # s => call'[t] = call[t] /\ agent'[t] = agent[t]
  <2>1. /\ call'[s] = [call[s] EXCEPT !.place = "running", !.materials = findings]
        /\ agent'[s] = Started /\ agent'["main"] = agent["main"]
        /\ \A t \in Slots : t # s => call'[t] = call[t] /\ agent'[t] = agent[t]
    BY <1>2, <1>3, Distinct
  <2>2. "running" \in Place /\ findings \in SUBSET Refs
    BY <1>1 DEF Place, TypeOK
  <2> QED
    <3> DEFINE c == [call[s] EXCEPT !.place = "running", !.materials = findings]
    <3>1. /\ c \in CallState /\ c.kind = call[s].kind /\ c.place = "running" /\ c.ref = call[s].ref
          /\ c.given = call[s].given /\ c.materials = findings
      BY <1>3, <2>2 DEF CallState
    <3> HIDE DEF c
    <3>2. call'[s] = c
      BY <2>1 DEF c
    <3> QED
      BY <2>1, <3>1, <3>2
<1>5. Elsewhere(s)
  BY <1>2, <1>3, <1>4, Resting DEF Elsewhere
<1>6. /\ call[s].kind \in Experts /\ call[s].kind \notin Tools /\ s \notin Running
      /\ agent[s].phase = "off" /\ nested[s].place = "none" /\ call[s].place # "none"
  BY <1>1, <1>2, Distinct DEF CallFits, Busy, Running
<1>7. CallFits(s)'
  BY <1>1, <1>2, <1>4, <1>6 DEF CallFits, Busy, Running, Started
<1>8. agent'[s].requests <= ExpertTurns + 1
  BY <1>4, Distinct DEF Started
<1>9. Fits' /\ InCap' /\ Spent'
  BY <1>1, <1>2, <1>5, <1>6, <1>7, <1>8, AtOneSlot
<1>10. /\ s \notin Running /\ s \in Running' /\ s \in Open /\ s \in Open'
       /\ s \notin MainFlight /\ s \notin MainFlight'
  BY <1>2, <1>4, <1>6 DEF Running, Open, MainFlight
<1>11. Joins(Running, s) /\ Same(Open) /\ Same(MainFlight) /\ Same(NestedFlight)
  BY <1>2, <1>5, <1>10, SetsAtOneSlot, ChangesAtOne DEF Same, Joins
<1>12. ExpertsBounded' /\ permits' \in 0 .. MaxConcurrent
  BY <1>1, <1>2, <1>11, PermitsCounted
<1>13. FindingsBounded'
  BY <1>1, <1>2, <1>11, FindingsCounted DEF Same
<1>14. Balanced /\ Accounted' /\ unrecorded' \in Nat
  BY <1>1, <1>2, <1>11, CallsCounted
<1>15. RefsKnown'
  <2>1. ASSUME NEW t \in Running' PROVE call'[t].given \subseteq call'[t].materials
    BY <1>1, <1>2, <1>4, <2>1 DEF RefsKnown, Running
  <2>2. \A t \in Slots : call'[t].ref = call[t].ref /\ call'[t].given = call[t].given
    BY <1>4
  <2> QED
    BY <1>1, <1>2, <2>1, <2>2 DEF RefsKnown
<1>16. TypeOK' /\ ScannedBeforeReasoning'
  BY <1>1, <1>2, <1>5, <1>12, <1>14 DEF TypeOK, Elsewhere, ScannedBeforeReasoning
<1> QED
  BY <1>9, <1>12, <1>13, <1>14, <1>15, <1>16 DEF IInv

\* An unknown or broken expert fails and takes no permit with it.
LEMMA ExpertDenied ==
  ASSUME IInv, NEW s \in Slots, ExpertRefused(s)
  PROVE  IInv' /\ Balanced
<1>1. /\ Typed /\ InCap /\ Spent /\ ExpertsBounded /\ FindingsBounded /\ RefsKnown /\ Accounted
      /\ ScannedBeforeReasoning /\ TypeOK /\ CallFits(s)
  BY DEF IInv, Typed, Fits
<1>2. /\ call' = [call EXCEPT ![s] = [@ EXCEPT !.place = "done"]] /\ call[s].place = "waiting"
      /\ UNCHANGED <<run, agent, nested, permits, findings, known,
                    rounds, learned, unrecorded, seen>>
  BY DEF ExpertRefused, histories
<1>3. /\ call \in [Slots -> CallState] /\ call[s] \in CallState
      /\ agent \in [Agents -> AgentState] /\ agent[s] \in AgentState /\ s \in Agents /\ s # "main"
      /\ nested \in [Slots -> ToolState] /\ nested[s] \in ToolState
  BY <1>1, Distinct DEF TypeOK
<1>4. /\ call'[s] \in CallState /\ call'[s].kind = call[s].kind /\ call'[s].place = "done"
      /\ call'[s].ref = call[s].ref /\ call'[s].given = call[s].given
      /\ \A t \in Slots : t # s => call'[t] = call[t]
  <2>1. call'[s] = [call[s] EXCEPT !.place = "done"] /\ \A t \in Slots : t # s => call'[t] = call[t]
    BY <1>2, <1>3
  <2>2. "done" \in Place
    BY DEF Place
  <2> QED
    BY <1>3, <2>1, <2>2, CallPlaced
<1>5. Elsewhere(s)
  BY <1>2, <1>3, <1>4 DEF Elsewhere
<1>6. /\ call[s].kind \in Experts /\ call[s].kind \notin Tools /\ s \notin Running
      /\ agent[s].phase = "off" /\ nested[s].place = "none" /\ call[s].place # "none"
  BY <1>1, <1>2, Distinct DEF CallFits, Busy, Running
<1>7. CallFits(s)'
  BY <1>1, <1>2, <1>4, <1>6 DEF CallFits, Busy, Running
<1>8. agent'[s].requests <= ExpertTurns + 1
  BY <1>1, <1>2, <1>3 DEF InCap, RequestLimit
<1>9. Fits' /\ InCap' /\ Spent'
  BY <1>1, <1>2, <1>5, <1>6, <1>7, <1>8, AtOneSlot
<1>10. /\ s \notin Running /\ s \notin Running' /\ s \in Open /\ s \notin Open'
       /\ s \notin MainFlight /\ s \notin MainFlight'
  BY <1>2, <1>4, <1>6 DEF Running, Open, MainFlight
<1>11. Same(Running) /\ Open' \subseteq Open /\ Same(MainFlight) /\ Same(NestedFlight)
  BY <1>2, <1>5, <1>10, SetsAtOneSlot, ChangesAtOne DEF Same
<1>12. ExpertsBounded' /\ permits' \in 0 .. MaxConcurrent
  BY <1>1, <1>2, <1>11, PermitsCounted
<1>13. FindingsBounded'
  BY <1>1, <1>2, <1>11, FindingsCounted DEF Same
<1>14. Balanced /\ Accounted' /\ unrecorded' \in Nat
  BY <1>1, <1>2, <1>11, CallsCounted
<1>15. RefsKnown'
  <2>1. ASSUME NEW t \in Running' PROVE call'[t].given \subseteq call'[t].materials
    BY <1>1, <1>4, <2>1 DEF RefsKnown, Running
  <2>2. \A t \in Slots : call'[t].ref = call[t].ref /\ call'[t].given = call[t].given
    BY <1>4
  <2> QED
    BY <1>1, <1>2, <2>1, <2>2 DEF RefsKnown
<1>16. TypeOK' /\ ScannedBeforeReasoning'
  BY <1>1, <1>2, <1>5, <1>12, <1>14 DEF TypeOK, Elsewhere, ScannedBeforeReasoning
<1> QED
  BY <1>9, <1>12, <1>13, <1>14, <1>15, <1>16 DEF IInv

\* An expert fails (_run_one) and returns its permit. Only a cut leaves a tool
\* call of its own unrecorded.
LEMMA ExpertFailed ==
  ASSUME IInv, NEW s \in Slots, ExpertStops(s)
  PROVE  IInv' /\ (Balanced \/ Cut)
<1>1. /\ Typed /\ InCap /\ Spent /\ ExpertsBounded /\ FindingsBounded /\ RefsKnown /\ Accounted
      /\ ScannedBeforeReasoning /\ TypeOK /\ CallFits(s)
  BY DEF IInv, Typed, Fits
<1>2. /\ call' = [call EXCEPT ![s] = [@ EXCEPT !.place = "done"]]
      /\ agent' = [agent EXCEPT ![s] = Off] /\ nested' = [nested EXCEPT ![s] = NoTool]
      /\ permits' = permits + 1 /\ Busy(s)
      /\ UNCHANGED <<run, findings, known, rounds, learned, unrecorded, seen>>
  BY DEF ExpertStops, ExpertFails, ReleasePermit, histories
<1>3. /\ call \in [Slots -> CallState] /\ call[s] \in CallState
      /\ agent \in [Agents -> AgentState] /\ agent[s] \in AgentState /\ s \in Agents /\ s # "main"
      /\ nested \in [Slots -> ToolState] /\ nested[s] \in ToolState
  BY <1>1, Distinct DEF TypeOK
<1>4. /\ call'[s] \in CallState /\ call'[s].kind = call[s].kind /\ call'[s].place = "done"
      /\ call'[s].ref = call[s].ref /\ call'[s].given = call[s].given
      /\ agent'[s] = Off /\ nested'[s] = NoTool /\ agent'["main"] = agent["main"]
      /\ \A t \in Slots : t # s => /\ call'[t] = call[t] /\ agent'[t] = agent[t]
                                   /\ nested'[t] = nested[t]
  <2>1. /\ call'[s] = [call[s] EXCEPT !.place = "done"]
        /\ agent'[s] = Off /\ nested'[s] = NoTool /\ agent'["main"] = agent["main"]
        /\ \A t \in Slots : t # s => /\ call'[t] = call[t] /\ agent'[t] = agent[t]
                                     /\ nested'[t] = nested[t]
    BY <1>2, <1>3, Distinct
  <2>2. "done" \in Place
    BY DEF Place
  <2> QED
    BY <1>3, <2>1, <2>2, CallPlaced
<1>5. Elsewhere(s)
  BY <1>2, <1>3, <1>4, Resting DEF Elsewhere
<1>6. /\ s \in Running /\ call[s].kind \in Experts /\ call[s].kind \notin Tools
      /\ call[s].place # "none" /\ call[s].place = "running"
  BY <1>1, <1>2, Distinct DEF CallFits, Running
<1>7. CallFits(s)'
  BY <1>1, <1>2, <1>4, <1>6 DEF CallFits, Busy, Running, Off, NoTool
<1>8. agent'[s].requests <= ExpertTurns + 1
  BY <1>4, Distinct DEF Off
<1>9. Fits' /\ InCap' /\ Spent'
  BY <1>1, <1>2, <1>5, <1>6, <1>7, <1>8, AtOneSlot
<1>10. /\ s \in Running /\ s \notin Running' /\ s \in Open /\ s \notin Open'
       /\ s \notin MainFlight /\ s \notin MainFlight' /\ s \notin NestedFlight'
  BY <1>4, <1>6 DEF Running, Open, MainFlight, NestedFlight, NoTool
<1>11. Leaves(Running, s) /\ Open' \subseteq Open /\ Same(MainFlight)
       /\ NestedFlight' = NestedFlight \ {s}
  BY <1>5, <1>10, SetsAtOneSlot, ChangesAtOne DEF Same, Leaves
<1>12. ExpertsBounded' /\ permits' \in 0 .. MaxConcurrent
  BY <1>1, <1>2, <1>11, PermitsCounted
<1>13. FindingsBounded'
  BY <1>1, <1>2, <1>11, FindingsCounted DEF Same
<1>14. (Balanced \/ Cut) /\ Accounted' /\ unrecorded' \in Nat
  <2>1. Accounted' /\ unrecorded' \in Nat
    BY <1>1, <1>2, <1>11, CallsCut DEF Same
  <2>2. ASSUME Asking(s) PROVE Balanced
    <3>1. nested[s].place = "none"
      BY <1>1, <2>2 DEF CallFits, Asking
    <3>2. Same(NestedFlight)
      BY <1>11, <3>1 DEF Same, NestedFlight
    <3> QED
      BY <1>1, <1>2, <1>11, <2>1, <3>2, CallsCounted
  <2>3. ASSUME agent[s].phase = "tools" PROVE Cut
    <3>1. Loses(1)
      <4>1. nested[s].place # "none" /\ s \in NestedFlight /\ NestedFlight \in SUBSET Slots
        BY <1>1, <2>3 DEF CallFits, NestedFlight
      <4>2. Cardinality(NestedFlight') = Cardinality(NestedFlight) - 1
        BY <1>11, <4>1, SlotSets
      <4>3. /\ InFlight = Cardinality(MainFlight) + Cardinality(NestedFlight)
            /\ InFlight' = Cardinality(MainFlight') + Cardinality(NestedFlight')
        BY Flights DEF InFlight, MainFlight, NestedFlight
      <4>4. /\ Cardinality(MainFlight') = Cardinality(MainFlight)
            /\ Cardinality(MainFlight) \in Nat /\ Cardinality(NestedFlight) \in Nat
        BY <1>11, Flights, SlotSets DEF Same
      <4>5. unrecorded \in Nat /\ unrecorded' = unrecorded
        BY <1>1, <1>2 DEF TypeOK
      <4> QED
        BY <4>2, <4>3, <4>4, <4>5 DEF Loses
    <3>2. call[s].ref = 0
      BY <1>1, <1>6 DEF CallFits
    <3> QED
      BY <1>4, <2>3, <3>1, <3>2 DEF Cut, Off
  <2> QED
    BY <1>2, <2>1, <2>2, <2>3 DEF Busy, Asking
<1>15. RefsKnown'
  <2>1. ASSUME NEW t \in Running' PROVE call'[t].given \subseteq call'[t].materials
    BY <1>1, <1>4, <2>1 DEF RefsKnown, Running
  <2>2. \A t \in Slots : call'[t].ref = call[t].ref /\ call'[t].given = call[t].given
    BY <1>4
  <2> QED
    BY <1>1, <1>2, <2>1, <2>2 DEF RefsKnown
<1>16. TypeOK' /\ ScannedBeforeReasoning'
  BY <1>1, <1>2, <1>5, <1>12, <1>14 DEF TypeOK, Elsewhere, ScannedBeforeReasoning
<1> QED
  BY <1>9, <1>12, <1>13, <1>14, <1>15, <1>16 DEF IInv

\* The next ref is within the bound the model puts on refs, which follows from
\* the caps on rounds and attempts: the bound cuts no behaviour off.
LEMMA RefsSuffice ==
  ASSUME TypeOK, FindingsBounded, Spent, Open # {}
  PROVE  NewRef \in Refs
<1> DEFINE S == Cardinality(Slots)
           F == Cardinality(findings)
           M == (MaxTurns + 1) * MaxAttempts
<1>1. Open \in SUBSET Slots
  BY DEF Open
<1>2. Cardinality(Open) \in Nat /\ Cardinality(Open) > 0
  BY <1>1, SlotSets
<1>3. S \in Nat /\ F \in Nat /\ M \in Nat /\ rounds \in Nat /\ rounds <= M
  BY Bounds, Distinct, FS_CardinalityType DEF FindingsBounded, TypeOK, Spent, RoundsBounded
<1>4. F + Cardinality(Open) <= S * rounds
  BY DEF FindingsBounded
<1>5. S * (MaxTurns + 1) * MaxAttempts = S * M
  BY <1>3, Distinct
<1> HIDE DEF S, F, M
<1>6. S * rounds \in Nat /\ S * M \in Nat /\ S * rounds <= S * M
  BY <1>3
<1>7. F + 1 \in 0 .. S * M
  BY <1>2, <1>3, <1>4, <1>6
<1> QED
  BY <1>5, <1>7 DEF NewRef, Refs, S, F

\* An expert answers: a new finding, and its permit back.
LEMMA ExpertDelivered ==
  ASSUME IInv, NEW s \in Slots, ExpertDelivers(s)
  PROVE  IInv' /\ Balanced
<1>1. /\ Typed /\ InCap /\ Spent /\ ExpertsBounded /\ FindingsBounded /\ RefsKnown /\ Accounted
      /\ ScannedBeforeReasoning /\ TypeOK /\ CallFits(s)
  BY DEF IInv, Typed, Fits
<1>2. /\ call' = [call EXCEPT ![s] = [@ EXCEPT !.place = "done", !.ref = NewRef]]
      /\ agent' = [agent EXCEPT ![s] = Off] /\ findings' = findings \cup {NewRef}
      /\ permits' = permits + 1 /\ agent[s].phase = "model" /\ Busy(s)
      /\ UNCHANGED <<run, nested, known, rounds, learned, unrecorded, seen>>
  BY DEF ExpertDelivers, ExpertAnswers, Busy, histories
<1>3. /\ call \in [Slots -> CallState] /\ call[s] \in CallState
      /\ agent \in [Agents -> AgentState] /\ agent[s] \in AgentState /\ s \in Agents /\ s # "main"
      /\ nested \in [Slots -> ToolState] /\ nested[s] \in ToolState
  BY <1>1, Distinct DEF TypeOK
<1>4. /\ s \in Running /\ call[s].kind \in Experts /\ call[s].kind \notin Tools
      /\ call[s].place # "none" /\ call[s].place = "running" /\ nested[s].place = "none"
  BY <1>1, <1>2, Distinct DEF CallFits, Running
<1>5. NewRef \in Refs
  <2>1. Open # {}
    BY <1>4 DEF Open
  <2> QED
    BY <1>1, <2>1, RefsSuffice
<1>6. /\ call'[s] \in CallState /\ call'[s].kind = call[s].kind /\ call'[s].place = "done"
      /\ call'[s].ref = NewRef /\ call'[s].given = call[s].given
      /\ agent'[s] = Off /\ agent'["main"] = agent["main"]
      /\ \A t \in Slots : t # s => call'[t] = call[t] /\ agent'[t] = agent[t]
  <2>1. /\ call'[s] = [call[s] EXCEPT !.place = "done", !.ref = NewRef]
        /\ agent'[s] = Off /\ agent'["main"] = agent["main"]
        /\ \A t \in Slots : t # s => call'[t] = call[t] /\ agent'[t] = agent[t]
    BY <1>2, <1>3, Distinct
  <2>2. "done" \in Place
    BY DEF Place
  <2> QED
    <3> DEFINE c == [call[s] EXCEPT !.place = "done", !.ref = NewRef]
    <3>1. /\ c \in CallState /\ c.kind = call[s].kind /\ c.place = "done" /\ c.ref = NewRef
          /\ c.given = call[s].given
      BY <1>3, <1>5, <2>2 DEF CallState
    <3> HIDE DEF c
    <3>2. call'[s] = c
      BY <2>1 DEF c
    <3> QED
      BY <2>1, <3>1, <3>2
<1>7. Elsewhere(s)
  BY <1>2, <1>3, <1>6, Resting DEF Elsewhere
<1>8. CallFits(s)'
  BY <1>1, <1>2, <1>6, <1>4 DEF CallFits, Busy, Running, Off
<1>9. agent'[s].requests <= ExpertTurns + 1
  BY <1>6, Distinct DEF Off
<1>10. Fits' /\ InCap' /\ Spent'
  BY <1>1, <1>2, <1>7, <1>4, <1>8, <1>9, AtOneSlot
<1>11. /\ s \in Running /\ s \notin Running' /\ s \in Open /\ s \notin Open'
       /\ s \notin MainFlight /\ s \notin MainFlight'
  BY <1>6, <1>4 DEF Running, Open, MainFlight
<1>12. Leaves(Running, s) /\ Leaves(Open, s) /\ Same(MainFlight) /\ Same(NestedFlight)
  BY <1>2, <1>7, <1>11, SetsAtOneSlot, ChangesAtOne DEF Same, Leaves
<1>13. ExpertsBounded' /\ permits' \in 0 .. MaxConcurrent
  BY <1>1, <1>2, <1>12, PermitsCounted
<1>14. FindingsBounded'
  BY <1>1, <1>2, <1>12, FindingsCounted DEF Same
<1>15. Balanced /\ Accounted' /\ unrecorded' \in Nat
  BY <1>1, <1>2, <1>12, CallsCounted
<1>16. RefsKnown'
  <2>1. ASSUME NEW t \in Running' PROVE call'[t].given \subseteq call'[t].materials
    BY <1>1, <1>6, <2>1 DEF RefsKnown, Running
  <2>2. \A t \in Slots : call'[t].ref \in findings' \cup {0} /\ call'[t].given = call[t].given
    BY <1>1, <1>2, <1>6 DEF RefsKnown
  <2> QED
    BY <1>1, <1>2, <2>1, <2>2 DEF RefsKnown
<1>17. TypeOK' /\ ScannedBeforeReasoning'
  BY <1>1, <1>2, <1>7, <1>13, <1>15, <1>5 DEF TypeOK, Elsewhere, ScannedBeforeReasoning
<1> QED
  BY <1>10, <1>13, <1>14, <1>15, <1>16, <1>17 DEF IInv

\* An expert asks its model again, in this attempt or a fresh one.
LEMMA ExpertAsks ==
  ASSUME IInv, NEW s \in Slots, AsksAgain(s) \/ StartsOver(s)
  PROVE  IInv' /\ Balanced
<1>1. /\ Typed /\ InCap /\ Spent /\ ExpertsBounded /\ FindingsBounded /\ RefsKnown /\ Accounted
      /\ ScannedBeforeReasoning /\ TypeOK /\ CallFits(s)
  BY DEF IInv, Typed, Fits
<1>2. /\ agent[s].phase = "model" /\ agent[s].requests < RequestLimit(s)
      /\ \/ agent' = [agent EXCEPT ![s].requests = @ + 1]
         \/ /\ agent[s].attempt < MaxAttempts
            /\ agent' = [agent EXCEPT ![s] =
                            [phase |-> "model", requests |-> 0, attempt |-> agent[s].attempt + 1]]
      /\ UNCHANGED <<run, call, nested, permits, findings, known,
                    rounds, learned, unrecorded, seen>>
  BY <1>1, Distinct DEF AsksAgain, StartsOver, Retry, MayAsk, Asking, Asked, histories, TypeOK
<1>3. /\ call \in [Slots -> CallState] /\ call[s] \in CallState
      /\ agent \in [Agents -> AgentState] /\ agent[s] \in AgentState /\ s \in Agents /\ s # "main"
      /\ nested \in [Slots -> ToolState] /\ nested[s] \in ToolState
  BY <1>1, Distinct DEF TypeOK
<1>4. /\ agent'[s] \in AgentState /\ agent'[s].phase = "model"
      /\ agent'[s].requests <= ExpertTurns + 1
      /\ agent'["main"] = agent["main"]
      /\ \A t \in Slots : t # s => agent'[t] = agent[t]
  <2>1. agent[s].requests \in Nat /\ agent[s].requests + 1 <= ExpertTurns + 1
    BY <1>2, <1>3, Distinct DEF RequestLimit, AgentState
  <2>2. agent[s].requests + 1 <= MaxTurns + ExpertTurns + 1
    BY <2>1, Distinct
  <2>3. CASE agent' = [agent EXCEPT ![s].requests = @ + 1]
    <3>1. /\ agent'[s] \in AgentState /\ agent'[s].phase = "model"
          /\ agent'[s].requests = agent[s].requests + 1
          /\ \A b \in Agents : b # s => agent'[b] = agent[b]
      BY <1>2, <1>3, <2>2, <2>3, AgentAsked
    <3> QED
      BY <2>1, <3>1, Distinct
  <2>4. CASE /\ agent[s].attempt < MaxAttempts
             /\ agent' = [agent EXCEPT ![s] =
                            [phase |-> "model", requests |-> 0, attempt |-> agent[s].attempt + 1]]
    <3>1. agent'[s] \in AgentState
      BY <1>3, <2>4, AgentRestarts
    <3> QED
      BY <1>3, <2>4, <3>1, Distinct
  <2> QED
    BY <1>2, <2>3, <2>4
<1>5. Elsewhere(s)
  <2>1. agent' \in [Agents -> AgentState]
    BY <1>2, <1>3, <1>4
  <2> QED
    BY <1>2, <1>3, <1>4, <2>1 DEF Elsewhere
<1>6. s \in Running /\ call[s].place # "none"
  BY <1>1, <1>2 DEF CallFits, Busy, Running
<1>7. CallFits(s)'
  BY <1>1, <1>2, <1>4 DEF CallFits, Busy, Running
<1>8. Fits' /\ InCap' /\ Spent'
  BY <1>1, <1>2, <1>4, <1>5, <1>6, <1>7, AtOneSlot
<1>9. Same(Running) /\ Same(Open) /\ Same(MainFlight) /\ Same(NestedFlight)
  BY <1>2, <1>5, SetsAtOneSlot
<1>10. ExpertsBounded' /\ permits' \in 0 .. MaxConcurrent
  BY <1>1, <1>2, <1>9, PermitsCounted
<1>11. FindingsBounded'
  BY <1>1, <1>2, <1>9, FindingsCounted DEF Same
<1>12. Balanced /\ Accounted' /\ unrecorded' \in Nat
  BY <1>1, <1>2, <1>9, CallsCounted
<1>13. RefsKnown'
  BY <1>1, <1>2, <1>9 DEF RefsKnown, Same
<1>14. TypeOK' /\ ScannedBeforeReasoning'
  BY <1>1, <1>2, <1>5, <1>10, <1>12 DEF TypeOK, Elsewhere, ScannedBeforeReasoning
<1> QED
  BY <1>8, <1>10, <1>11, <1>12, <1>13, <1>14 DEF IInv

---------------------------------------------------------------------------
\* Steps of the main agent

\* Below its cap, the main agent has a round left in the bound of the turn:
\* the requests of its earlier attempts pay for the rounds so far.
LEMMA MainCanAsk ==
  ASSUME Typed, InCap, Spent, agent["main"].phase = "model",
         agent["main"].requests < RequestLimit("main")
  PROVE  /\ agent["main"] \in AgentState /\ agent["main"].requests \in Nat
         /\ agent["main"].requests + 1 <= MaxTurns + ExpertTurns + 1
         /\ agent["main"].attempt \in 1 .. MaxAttempts
         /\ run = "driving" => /\ agent["main"].requests + 1 <= MaxTurns + 1
                               /\ rounds + 1 <= agent["main"].attempt * (MaxTurns + 1)
                               /\ rounds + 1 <= (MaxTurns + 1) * MaxAttempts
<1>1. agent["main"] \in AgentState /\ agent["main"].attempt > 0 /\ rounds \in Nat
  BY Distinct DEF Typed, TypeOK, Fits, MainFits
<1>2. agent["main"].requests \in Nat /\ agent["main"].attempt \in 1 .. MaxAttempts
  BY <1>1, Distinct DEF AgentState
<1>3. /\ agent["main"].requests + 1 <= MaxTurns + ExpertTurns + 1
      /\ run = "driving" => agent["main"].requests + 1 <= MaxTurns + 1
  BY <1>2, Distinct DEF RequestLimit
<1>4. ASSUME run = "driving"
      PROVE  /\ rounds + 1 <= agent["main"].attempt * (MaxTurns + 1)
             /\ rounds + 1 <= (MaxTurns + 1) * MaxAttempts
  <2> DEFINE n == agent["main"].attempt
             r == agent["main"].requests
             L == MaxTurns + 1
  <2>1. n \in 1 .. MaxAttempts /\ r \in Nat /\ r + 1 <= L /\ L \in Nat /\ MaxAttempts \in Nat
    BY <1>2, <1>3, <1>4, Distinct
  <2>2. rounds <= (n - 1) * L + r
    BY <1>4 DEF Spent
  <2> HIDE DEF n, r, L
  <2>3. (n - 1) * L = n * L - L /\ n * L \in Nat /\ n * L <= L * MaxAttempts
    BY <2>1
  <2>4. rounds + 1 <= n * L /\ rounds + 1 <= L * MaxAttempts
    <3>1. rounds + 1 <= n * L - L + r + 1
      BY <1>1, <2>1, <2>2, <2>3
    <3>2. L * MaxAttempts \in Nat
      BY <2>1
    <3> QED
      BY <1>1, <2>1, <2>3, <3>1, <3>2
  <2> QED
    BY <2>4 DEF n, L
<1> QED
  BY <1>1, <1>2, <1>3, <1>4

\* Steps of the main agent alone, between model requests.
LEMMA MainOnly ==
  ASSUME IInv, agent["main"].phase = "model", agent' \in [Agents -> AgentState],
         agent'["main"].phase = "model", agent'["main"].attempt > 0,
         agent'["main"].requests <= RequestLimit("main")',
         \A s \in Slots : agent'[s] = agent[s],
         run' \in {"driving", "forced"}, known' \subseteq known, learned' \subseteq learned, Spent',
         UNCHANGED <<call, nested, permits, findings, rounds, unrecorded, seen>>
  PROVE  IInv' /\ Balanced
<1>1. /\ Typed /\ InCap /\ Spent /\ ExpertsBounded /\ FindingsBounded /\ RefsKnown /\ Accounted
      /\ ScannedBeforeReasoning /\ TypeOK
  BY DEF IInv, Typed
<1>2. UNCHANGED <<call, nested, permits, findings, rounds, unrecorded, seen>>
  OBVIOUS
<1>3. Fits' /\ InCap' /\ Spent'
  <2>1. MainFits'
    BY <1>1 DEF Typed, Fits, MainFits
  <2>2. ASSUME NEW s \in Slots PROVE CallFits(s)'
    <3>1. CallFits(s)
      BY <1>1 DEF Typed, Fits
    <3> QED
      BY <3>1 DEF CallFits, Busy, Running
  <2>3. InCap'
    <3>1. \A t \in Slots : RequestLimit(t)' = RequestLimit(t)
      BY Distinct DEF RequestLimit
    <3>2. \A t \in Slots : agent'[t].requests <= RequestLimit(t)'
      BY <1>1, <3>1, Distinct DEF InCap
    <3> QED
      BY <3>2 DEF InCap, Agents
  <2> QED
    BY <2>1, <2>2, <2>3 DEF Fits
<1>4. Same(Running) /\ Same(Open) /\ Same(MainFlight) /\ Same(NestedFlight)
  BY DEF Same, Running, Open, MainFlight, NestedFlight
<1>5. ExpertsBounded' /\ permits' \in 0 .. MaxConcurrent
  BY <1>1, <1>2, <1>4, PermitsCounted
<1>6. FindingsBounded'
  BY <1>1, <1>2, <1>4, FindingsCounted DEF Same
<1>7. Balanced /\ Accounted' /\ unrecorded' \in Nat
  BY <1>1, <1>2, <1>4, CallsCounted
<1>8. RefsKnown'
  BY <1>1, <1>2, <1>4 DEF RefsKnown, Same
<1>9. TypeOK' /\ ScannedBeforeReasoning'
  BY <1>1, <1>2, <1>5, <1>7 DEF TypeOK, ScannedBeforeReasoning
<1> QED
  BY <1>3, <1>5, <1>6, <1>7, <1>8, <1>9 DEF IInv

\* The main agent asks again, starts over after a transient error, or is
\* forced to answer without capabilities (run_turn at the cap).
LEMMA MainAsks ==
  ASSUME IInv, AsksAgain("main") \/ StartsOver("main") \/ Forced
  PROVE  IInv' /\ Balanced
<1>1. /\ Typed /\ InCap /\ Spent /\ ExpertsBounded /\ FindingsBounded /\ RefsKnown /\ Accounted
      /\ ScannedBeforeReasoning /\ TypeOK
  BY DEF IInv, Typed
<1>2. agent["main"].phase = "model"
  BY DEF AsksAgain, StartsOver, Forced, MayAsk, Asking
<1>3. /\ agent \in [Agents -> AgentState] /\ "main" \in Agents /\ rounds \in Nat
      /\ run \in {"driving", "forced"} /\ agent["main"] \in AgentState
  BY <1>1, Distinct DEF TypeOK
<1>4. CASE AsksAgain("main")
  <2>1. /\ agent["main"].requests < RequestLimit("main")
        /\ agent' = [agent EXCEPT !["main"].requests = @ + 1]
        /\ UNCHANGED <<run, call, nested, permits, findings, known,
                      rounds, learned, unrecorded, seen>>
    BY <1>4 DEF AsksAgain, MayAsk, Asked, histories
  <2>2. /\ agent["main"].requests \in Nat
        /\ agent["main"].requests + 1 <= MaxTurns + ExpertTurns + 1
        /\ agent["main"].attempt \in 1 .. MaxAttempts
    BY <1>1, <1>2, <2>1, MainCanAsk
  <2>3. /\ agent'["main"] \in AgentState /\ agent'["main"].phase = "model"
        /\ agent'["main"].requests = agent["main"].requests + 1
        /\ agent'["main"].attempt = agent["main"].attempt
        /\ \A b \in Agents : b # "main" => agent'[b] = agent[b]
        /\ agent' \in [Agents -> AgentState]
    BY <1>2, <1>3, <2>1, <2>2, AgentAsked
  <2>4. \A s \in Slots : agent'[s] = agent[s]
    BY <2>3, Distinct
  <2>6. agent'["main"].requests <= RequestLimit("main")'
    BY <2>1, <2>2, <2>3, Distinct DEF RequestLimit
  <2>7. Spent'
    <3> DEFINE x == (agent["main"].attempt - 1) * (MaxTurns + 1)
    <3>1. x \in Nat
      BY <2>2, Distinct
    <3>2. run = "driving" => rounds <= x + agent["main"].requests
      BY <1>1 DEF Spent
    <3> HIDE DEF x
    <3>3. run' = "driving" => rounds' <= x + agent'["main"].requests
      BY <1>3, <2>1, <2>2, <2>3, <3>1, <3>2
    <3> QED
      BY <1>1, <2>1, <2>3, <3>3 DEF Spent, RoundsBounded, x
  <2>8. agent'["main"].attempt > 0
    BY <2>2, <2>3
  <2> QED
    BY <1>2, <1>3, <2>1, <2>3, <2>4, <2>6, <2>7, <2>8, MainOnly
<1>5. CASE StartsOver("main")
  <2>1. /\ agent["main"].requests < RequestLimit("main") /\ agent["main"].attempt < MaxAttempts
        /\ agent' = [agent EXCEPT !["main"] =
                       [phase |-> "model", requests |-> 0, attempt |-> agent["main"].attempt + 1]]
        /\ known' = {} /\ learned' = {}
        /\ UNCHANGED <<run, call, nested, permits, findings, rounds, unrecorded, seen>>
    BY <1>3, <1>5 DEF StartsOver, Retry, MayAsk
  <2>2. /\ agent["main"].attempt \in 1 .. MaxAttempts
        /\ run = "driving" => rounds + 1 <= agent["main"].attempt * (MaxTurns + 1)
    BY <1>1, <1>2, <2>1, MainCanAsk
  <2>3. /\ agent'["main"] =
             [phase |-> "model", requests |-> 0, attempt |-> agent["main"].attempt + 1]
        /\ \A s \in Slots : agent'[s] = agent[s]
    BY <1>3, <2>1, Distinct
  <2>4. agent'["main"] \in AgentState
    BY <1>3, <2>1, <2>3, AgentRestarts
  <2>5. agent' \in [Agents -> AgentState]
    BY <1>3, <2>1, <2>4
  <2>6. agent'["main"].requests <= RequestLimit("main")'
    BY <2>3, Distinct DEF RequestLimit
  <2>7. Spent'
    <3>1. (agent["main"].attempt + 1) - 1 = agent["main"].attempt
      BY <2>2
    <3>2. agent["main"].attempt * (MaxTurns + 1) \in Nat
      BY <2>2, Distinct
    <3>3. agent'["main"].attempt - 1 = agent["main"].attempt /\ agent'["main"].requests = 0
      BY <2>3, <3>1
    <3>4. run' = "driving" =>
            rounds' <= (agent'["main"].attempt - 1) * (MaxTurns + 1) + agent'["main"].requests
      BY <1>3, <2>1, <2>2, <3>2, <3>3
    <3> QED
      BY <1>1, <2>1, <3>4 DEF Spent, RoundsBounded
  <2>8. agent'["main"].attempt > 0 /\ agent'["main"].phase = "model"
    BY <2>2, <2>3
  <2> QED
    BY <1>2, <1>3, <2>1, <2>3, <2>5, <2>6, <2>7, <2>8, MainOnly
<1>6. CASE Forced
  <2>1. /\ run' = "forced" /\ agent' = [agent EXCEPT !["main"] = Started] /\ known' = {}
        /\ UNCHANGED <<call, nested, permits, findings, rounds, learned, unrecorded, seen>>
    BY <1>6 DEF Forced, ForceAnswer, histories
  <2>2. /\ agent' \in [Agents -> AgentState] /\ agent'["main"] = Started
        /\ \A s \in Slots : agent'[s] = agent[s]
    BY <1>3, <2>1, Distinct, Resting
  <2>3. /\ agent'["main"].phase = "model" /\ agent'["main"].requests = 0
        /\ agent'["main"].attempt > 0
    BY <2>2 DEF Started
  <2>4. agent'["main"].requests <= RequestLimit("main")'
    BY <2>3, Distinct DEF RequestLimit
  <2>5. Spent'
    BY <1>1, <2>1 DEF Spent, RoundsBounded
  <2> QED
    BY <1>2, <2>1, <2>2, <2>3, <2>4, <2>5, MainOnly
<1> QED
  BY <1>4, <1>5, <1>6

\* While the main agent waits for its model, nothing else is under way.
LEMMA Quiet ==
  ASSUME Typed, agent["main"].phase # "tools"
  PROVE  /\ Running = {} /\ Open = {} /\ MainFlight = {} /\ NestedFlight = {}
         /\ \A s \in Slots : call[s] = NoCall /\ agent[s].phase = "off" /\ nested[s].place = "none"
<1>1. \A s \in Slots : call[s] = NoCall
  BY DEF Typed, Fits, MainFits
<1>2. Running = {} /\ Open = {} /\ MainFlight = {}
  BY <1>1 DEF Running, Open, MainFlight, NoCall
<1>3. ASSUME NEW s \in Slots PROVE agent[s].phase = "off" /\ nested[s].place = "none"
  <2>1. CallFits(s)
    BY DEF Typed, Fits
  <2> QED
    BY <1>2, <2>1 DEF CallFits, Busy
<1>4. NestedFlight = {}
  BY <1>3 DEF NestedFlight
<1> QED
  BY <1>1, <1>2, <1>3, <1>4

\* The turn ends: whatever still runs is cancelled. Only a cut leaves tool
\* calls unrecorded.
LEMMA MainStopped ==
  ASSUME IInv, MainStops
  PROVE  IInv' /\ (Balanced \/ Cut)
<1>1. PICK phase \in {"answered", "failed"} :
        /\ Asking("main") \/ (agent["main"].phase = "tools" /\ phase = "failed")
        /\ MainEnds(phase)
  BY DEF MainStops
<1>2. /\ Typed /\ InCap /\ Spent /\ ExpertsBounded /\ FindingsBounded /\ RefsKnown /\ Accounted
      /\ ScannedBeforeReasoning /\ TypeOK
  BY DEF IInv, Typed
<1>3. /\ agent' = [a \in Agents |-> IF a = "main" THEN [agent[a] EXCEPT !.phase = phase] ELSE Off]
      /\ call' = [s \in Slots |-> NoCall] /\ nested' = [s \in Slots |-> NoTool]
      /\ permits' = MaxConcurrent
      /\ UNCHANGED <<run, findings, known, rounds, learned, unrecorded, seen>>
  BY <1>1, <1>2 DEF MainEnds, histories, ExpertsBounded
<1>4. /\ agent \in [Agents -> AgentState] /\ "main" \in Agents /\ agent["main"] \in AgentState
      /\ \A s \in Slots : s \in Agents /\ s # "main"
      /\ nested \in [Slots -> ToolState] /\ call \in [Slots -> CallState]
      /\ run \in {"driving", "forced"} /\ rounds \in Nat /\ unrecorded \in Nat
  BY <1>2, Distinct DEF TypeOK
<1>5. /\ agent'["main"] \in AgentState /\ agent'["main"].phase = phase
      /\ agent'["main"].requests = agent["main"].requests
      /\ agent'["main"].attempt = agent["main"].attempt
      /\ \A s \in Slots : agent'[s] = Off /\ call'[s] = NoCall /\ nested'[s] = NoTool
  <2>1. /\ agent'["main"] = [agent["main"] EXCEPT !.phase = phase]
        /\ \A s \in Slots : agent'[s] = Off /\ call'[s] = NoCall /\ nested'[s] = NoTool
    BY <1>3, <1>4
  <2>2. /\ [agent["main"] EXCEPT !.phase = phase] \in AgentState
        /\ [agent["main"] EXCEPT !.phase = phase].phase = phase
        /\ [agent["main"] EXCEPT !.phase = phase].requests = agent["main"].requests
        /\ [agent["main"] EXCEPT !.phase = phase].attempt = agent["main"].attempt
    BY <1>4, AgentPhased
  <2> QED
    BY <2>1, <2>2
<1>6. /\ agent' \in [Agents -> AgentState] /\ call' \in [Slots -> CallState]
      /\ nested' \in [Slots -> ToolState]
  <2>1. \A a \in Agents : agent'[a] \in AgentState
    BY <1>5, Resting DEF Agents
  <2>2. agent' \in [Agents -> AgentState]
    BY <1>3, <2>1
  <2> QED
    BY <1>3, <2>2, Resting
<1>7. Running' = {} /\ Open' = {} /\ MainFlight' = {} /\ NestedFlight' = {}
  BY <1>5 DEF Running, Open, MainFlight, NestedFlight, NoCall, NoTool
<1>8. Fits' /\ InCap' /\ Spent'
  <2>1. MainFits'
    BY <1>2, <1>5 DEF Typed, Fits, MainFits
  <2>2. ASSUME NEW s \in Slots PROVE CallFits(s)'
    BY <1>5, <1>7 DEF CallFits, Busy, NoCall, NoTool, Off
  <2>3. InCap'
    <3>1. \A a \in Agents : RequestLimit(a)' = RequestLimit(a)
      BY <1>3 DEF RequestLimit
    <3>2. \A s \in Slots : agent'[s].requests <= RequestLimit(s)'
      BY <1>4, <1>5, Distinct DEF RequestLimit, Off
    <3>3. agent'["main"].requests <= RequestLimit("main")'
      BY <1>2, <1>4, <1>5, <3>1 DEF InCap
    <3> QED
      BY <3>2, <3>3 DEF InCap, Agents
  <2>4. Spent'
    BY <1>2, <1>3, <1>5 DEF Spent, RoundsBounded
  <2> QED
    BY <2>1, <2>2, <2>3, <2>4 DEF Fits
<1>9. ExpertsBounded' /\ permits' \in 0 .. MaxConcurrent
  BY <1>2, <1>3, <1>7, PermitsCounted
<1>10. FindingsBounded'
  BY <1>2, <1>3, <1>7, FindingsCounted
<1>11. (Balanced \/ Cut) /\ Accounted' /\ unrecorded' \in Nat
  <2>1. Accounted' /\ unrecorded' \in Nat
    BY <1>2, <1>3, <1>7, CallsCut
  <2>2. ASSUME Asking("main") PROVE Balanced
    <3>1. MainFlight = {} /\ NestedFlight = {}
      BY <1>2, <2>2, Quiet DEF Asking
    <3> QED
      BY <1>2, <1>3, <1>7, <3>1, CallsCounted DEF Same
  <2>3. CASE agent["main"].phase = "tools" /\ phase = "failed"
    BY <1>5, <2>1, <2>3 DEF Cut
  <2> QED
    BY <1>1, <2>1, <2>2, <2>3
<1>12. RefsKnown'
  BY <1>2, <1>3, <1>5, <1>7 DEF RefsKnown, NoCall
<1>13. TypeOK' /\ ScannedBeforeReasoning'
  BY <1>2, <1>3, <1>6, <1>9, <1>11 DEF TypeOK, ScannedBeforeReasoning
<1> QED
  BY <1>8, <1>9, <1>10, <1>11, <1>12, <1>13 DEF IInv

\* The main agent goes on with what its calls returned; the refs it is told
\* are those of findings.
LEMMA CapabilitiesReturned ==
  ASSUME IInv, ToolsReturned
  PROVE  IInv' /\ Balanced
<1>1. /\ Typed /\ InCap /\ Spent /\ ExpertsBounded /\ FindingsBounded /\ RefsKnown /\ Accounted
      /\ ScannedBeforeReasoning /\ TypeOK
  BY DEF IInv, Typed
<1>2. /\ agent["main"].phase = "tools" /\ \A s \in Slots : call[s].place = "done"
      /\ agent' = [agent EXCEPT !["main"] = [@ EXCEPT !.phase = "model"]]
      /\ call' = [s \in Slots |-> NoCall]
      /\ known' = known \cup ({call[s].ref : s \in Slots} \ {0})
      /\ learned' = learned \cup ({call[s].ref : s \in Slots} \ {0})
      /\ UNCHANGED <<run, nested, permits, findings, rounds, unrecorded, seen>>
  BY DEF ToolsReturned
<1>3. /\ agent \in [Agents -> AgentState] /\ "main" \in Agents /\ agent["main"] \in AgentState
      /\ \A s \in Slots : s \in Agents /\ s # "main"
      /\ nested \in [Slots -> ToolState] /\ call \in [Slots -> CallState]
      /\ run \in {"driving", "forced"} /\ rounds \in Nat /\ unrecorded \in Nat
  BY <1>1, Distinct DEF TypeOK
<1>4. /\ agent'["main"] \in AgentState /\ agent'["main"].phase = "model"
      /\ agent'["main"].requests = agent["main"].requests
      /\ agent'["main"].attempt = agent["main"].attempt
      /\ \A s \in Slots : agent'[s] = agent[s] /\ call'[s] = NoCall
  <2>1. /\ agent'["main"] = [agent["main"] EXCEPT !.phase = "model"]
        /\ \A s \in Slots : agent'[s] = agent[s] /\ call'[s] = NoCall
    BY <1>2, <1>3
  <2>2. /\ [agent["main"] EXCEPT !.phase = "model"] \in AgentState
        /\ [agent["main"] EXCEPT !.phase = "model"].phase = "model"
        /\ [agent["main"] EXCEPT !.phase = "model"].requests = agent["main"].requests
        /\ [agent["main"] EXCEPT !.phase = "model"].attempt = agent["main"].attempt
    BY <1>3, AgentPhased
  <2> QED
    BY <2>1, <2>2
<1>5. /\ agent' \in [Agents -> AgentState] /\ call' \in [Slots -> CallState]
  BY <1>2, <1>3, <1>4, Resting
<1>6. /\ Running = {} /\ Open = {} /\ MainFlight = {}
      /\ Running' = {} /\ Open' = {} /\ MainFlight' = {} /\ NestedFlight' = NestedFlight
  BY <1>2, <1>4 DEF Running, Open, MainFlight, NestedFlight, NoCall
<1>7. Fits' /\ InCap' /\ Spent'
  <2>1. MainFits'
    BY <1>1, <1>4 DEF Typed, Fits, MainFits
  <2>2. ASSUME NEW s \in Slots PROVE CallFits(s)'
    <3>1. CallFits(s)
      BY <1>1 DEF Typed, Fits
    <3> QED
      BY <1>2, <1>4, <1>6, <3>1 DEF CallFits, Busy, NoCall
  <2>3. InCap'
    <3>1. \A a \in Agents : RequestLimit(a)' = RequestLimit(a)
      BY <1>2 DEF RequestLimit
    <3>2. \A a \in Agents : agent'[a].requests = agent[a].requests
      BY <1>4 DEF Agents
    <3> QED
      BY <1>1, <3>1, <3>2 DEF InCap
  <2>4. Spent'
    BY <1>1, <1>2, <1>4 DEF Spent, RoundsBounded
  <2> QED
    BY <2>1, <2>2, <2>3, <2>4 DEF Fits
<1>8. Same(Running) /\ Same(Open) /\ Same(MainFlight) /\ Same(NestedFlight)
  BY <1>6 DEF Same
<1>9. ExpertsBounded' /\ permits' \in 0 .. MaxConcurrent
  BY <1>1, <1>2, <1>8, PermitsCounted
<1>10. FindingsBounded'
  BY <1>1, <1>2, <1>8, FindingsCounted DEF Same
<1>11. Balanced /\ Accounted' /\ unrecorded' \in Nat
  BY <1>1, <1>2, <1>8, CallsCounted
<1>12. {call[s].ref : s \in Slots} \ {0} \subseteq findings
  BY <1>1 DEF RefsKnown
<1>13. RefsKnown'
  BY <1>1, <1>2, <1>4, <1>6, <1>12 DEF RefsKnown, NoCall
<1>14. TypeOK' /\ ScannedBeforeReasoning'
  BY <1>1, <1>2, <1>5, <1>9, <1>11, <1>12 DEF TypeOK, ScannedBeforeReasoning
<1> QED
  BY <1>7, <1>9, <1>10, <1>11, <1>13, <1>14 DEF IInv

\* A response with capability calls: one round, one request, and a writer is
\* given refs the main agent knows.
LEMMA CapabilitiesCalled ==
  ASSUME IInv, CallCapabilities
  PROVE  IInv' /\ Balanced
<1>1. PICK kinds \in [Slots -> Kinds \cup {"none"}] :
       /\ call' = [s \in Slots |->
            [kind |-> kinds[s], ref |-> 0, materials |-> {},
             place |-> CASE kinds[s] = "none"     -> "done"
                         [] kinds[s] \in Tools    -> "running"
                         [] kinds[s] \in Experts  -> "waiting",
             given |-> IF kinds[s] = "writer" THEN known ELSE {}]]
       /\ unrecorded' = unrecorded + Cardinality({s \in Slots : kinds[s] \in Tools})
  BY DEF CallCapabilities
<1>2. /\ Typed /\ InCap /\ Spent /\ ExpertsBounded /\ FindingsBounded /\ RefsKnown /\ Accounted
      /\ ScannedBeforeReasoning /\ TypeOK
  BY DEF IInv, Typed
<1>3. /\ agent["main"].phase = "model" /\ agent["main"].requests < RequestLimit("main")
      /\ run = "driving" /\ rounds' = rounds + 1
      /\ agent' = [agent EXCEPT !["main"].phase = "tools", !["main"].requests = @ + 1]
      /\ UNCHANGED <<run, nested, permits, findings, known, learned, seen>>
  BY DEF CallCapabilities, MayAsk, Asking, Offered
<1>4. /\ agent \in [Agents -> AgentState] /\ "main" \in Agents /\ agent["main"] \in AgentState
      /\ \A s \in Slots : s \in Agents /\ s # "main"
      /\ nested \in [Slots -> ToolState] /\ call \in [Slots -> CallState]
      /\ run \in {"driving", "forced"} /\ rounds \in Nat /\ unrecorded \in Nat
  BY <1>2, Distinct DEF TypeOK
<1>5. ASSUME NEW s \in Slots
      PROVE  /\ call'[s].kind = kinds[s] /\ call'[s].ref = 0 /\ call'[s].materials = {}
             /\ call'[s].given \in {known, {}}
             /\ kinds[s] = "none" => call'[s].place = "done"
             /\ kinds[s] \in Tools => call'[s].place = "running"
             /\ kinds[s] \in Experts => call'[s].place = "waiting"
             /\ kinds[s] \in Tools \cup Experts \cup {"none"}
             /\ call'[s] \in CallState
  <2>1. kinds[s] \in Tools \cup Experts \cup {"none"}
    BY Distinct
  <2>2. /\ call'[s].kind = kinds[s] /\ call'[s].ref = 0 /\ call'[s].materials = {}
        /\ call'[s].given \in {known, {}}
        /\ call'[s].place = CASE kinds[s] = "none" -> "done"
                               [] kinds[s] \in Tools -> "running"
                               [] kinds[s] \in Experts -> "waiting"
        /\ call'[s] = [kind |-> call'[s].kind, ref |-> call'[s].ref,
                       materials |-> call'[s].materials, place |-> call'[s].place,
                       given |-> call'[s].given]
    BY <1>1
  <2>3. /\ kinds[s] = "none" => call'[s].place = "done"
        /\ kinds[s] \in Tools => call'[s].place = "running"
        /\ kinds[s] \in Experts => call'[s].place = "waiting"
    BY <2>2, Distinct
  <2>4. call'[s] \in CallState
    <3>1. call'[s].place \in Place /\ call'[s].given \in SUBSET Refs
      BY <1>2, <2>1, <2>2, <2>3 DEF Place, TypeOK
    <3>2. /\ call'[s].kind \in Kinds \cup {"none"} /\ call'[s].ref \in Refs
          /\ call'[s].materials \in SUBSET Refs
      BY <2>2, Bounds
    <3> HIDE <1>1
    <3> QED
      BY <2>2, <3>1, <3>2 DEF CallState
  <2> QED
    BY <2>1, <2>2, <2>3, <2>4
<1>6. /\ agent["main"].requests \in Nat /\ agent["main"].attempt \in 1 .. MaxAttempts
      /\ agent["main"].requests + 1 <= MaxTurns + ExpertTurns + 1
      /\ agent["main"].requests + 1 <= MaxTurns + 1
      /\ rounds + 1 <= (MaxTurns + 1) * MaxAttempts
  BY <1>2, <1>3, MainCanAsk
<1>7. /\ agent'["main"] \in AgentState /\ agent'["main"].phase = "tools"
      /\ agent'["main"].requests = agent["main"].requests + 1
      /\ agent'["main"].attempt = agent["main"].attempt
      /\ \A b \in Agents : b # "main" => agent'[b] = agent[b]
      /\ agent' \in [Agents -> AgentState]
  BY <1>3, <1>4, <1>6, AgentCalls
<1>8. /\ Running = {} /\ Open = {} /\ MainFlight = {}
      /\ \A s \in Slots : agent[s].phase = "off" /\ nested[s].place = "none"
  BY <1>2, <1>3, Quiet
<1>9. /\ Running' = {} /\ MainFlight' = {s \in Slots : kinds[s] \in Tools}
      /\ NestedFlight' = NestedFlight
  <2>1. Running' = {}
    BY <1>5, Distinct DEF Running
  <2>2. MainFlight' = {s \in Slots : kinds[s] \in Tools}
    BY <1>5 DEF MainFlight
  <2> QED
    BY <1>3, <2>1, <2>2 DEF NestedFlight
<1>10. Fits' /\ InCap' /\ Spent'
  <2>1. MainFits'
    BY <1>2, <1>7 DEF Typed, Fits, MainFits
  <2>2. ASSUME NEW s \in Slots PROVE CallFits(s)'
    <3>1. agent'[s].phase = "off" /\ nested'[s].place = "none"
      BY <1>3, <1>4, <1>7, <1>8
    <3>2. s \notin Running'
      BY <1>9
    <3>3. /\ call'[s].kind = kinds[s] /\ call'[s].ref = 0
          /\ kinds[s] = "none" => call'[s].place = "done"
          /\ kinds[s] \in Tools => call'[s].place = "running"
          /\ kinds[s] \in Experts => call'[s].place = "waiting"
          /\ kinds[s] \in Tools \cup Experts \cup {"none"}
      BY <1>5
    <3> QED
      BY <3>1, <3>2, <3>3, Distinct DEF CallFits, Busy
  <2>3. InCap'
    <3>1. \A a \in Agents : RequestLimit(a)' = RequestLimit(a)
      BY <1>3 DEF RequestLimit
    <3>2. \A s \in Slots : agent'[s].requests <= RequestLimit(s)'
      BY <1>2, <1>4, <1>7, <3>1 DEF InCap
    <3>3. agent'["main"].requests <= RequestLimit("main")'
      BY <1>3, <1>4, <1>6, <1>7, <3>1 DEF RequestLimit
    <3> QED
      BY <3>2, <3>3 DEF InCap, Agents
  <2>4. Spent'
    <3> DEFINE x == (agent["main"].attempt - 1) * (MaxTurns + 1)
               y == (MaxTurns + 1) * MaxAttempts
    <3>1. x \in Nat
      BY <1>6, Distinct
    <3>2. rounds <= x + agent["main"].requests
      BY <1>2, <1>3 DEF Spent
    <3> HIDE DEF x, y
    <3>3. rounds' <= x + agent'["main"].requests
      BY <1>3, <1>4, <1>6, <1>7, <3>1, <3>2
    <3>4. rounds' <= (agent'["main"].attempt - 1) * (MaxTurns + 1) + agent'["main"].requests
      BY <1>7, <3>3 DEF x
    <3>5. RoundsBounded'
      BY <1>3, <1>6 DEF RoundsBounded
    <3> QED
      BY <3>4, <3>5 DEF Spent
  <2> QED
    BY <2>1, <2>2, <2>3, <2>4 DEF Fits
<1>11. Same(Running) /\ Same(NestedFlight) /\ unrecorded' = unrecorded + Cardinality(MainFlight')
  BY <1>1, <1>8, <1>9 DEF Same
<1>12. ExpertsBounded' /\ permits' \in 0 .. MaxConcurrent
  BY <1>2, <1>3, <1>11, PermitsCounted
<1>13. FindingsBounded'
  BY <1>2, <1>3, <1>8, FindingsCounted
<1>14. Balanced /\ Accounted' /\ unrecorded' \in Nat
  BY <1>2, <1>8, <1>11, CallsCounted
<1>15. RefsKnown'
  BY <1>2, <1>3, <1>5, <1>9 DEF RefsKnown
<1>16. TypeOK' /\ ScannedBeforeReasoning'
  <2>1. call' \in [Slots -> CallState]
    BY <1>1, <1>5
  <2>2. rounds' \in Nat
    BY <1>3, <1>4
  <2> QED
    BY <1>2, <1>3, <1>7, <1>12, <1>14, <2>1, <2>2 DEF TypeOK, ScannedBeforeReasoning
<1> QED
  BY <1>10, <1>12, <1>13, <1>14, <1>15, <1>16 DEF IInv

---------------------------------------------------------------------------

\* The invariant holds at the start of a turn.
LEMMA InitiallyInvariant == Init => IInv
<1> SUFFICES ASSUME Init PROVE IInv
  OBVIOUS
<1>1. /\ run = "driving" /\ permits = MaxConcurrent /\ findings = {} /\ known = {}
      /\ rounds = 0 /\ learned = {} /\ unrecorded = 0 /\ seen = {}
      /\ agent = [a \in Agents |-> IF a = "main" THEN Started ELSE Off]
      /\ call = [s \in Slots |-> NoCall] /\ nested = [s \in Slots |-> NoTool]
  BY DEF Init
<1>2. /\ agent["main"] = Started
      /\ \A s \in Slots : agent[s] = Off /\ call[s] = NoCall /\ nested[s] = NoTool
  BY <1>1, Distinct
<1>3. /\ Running = {} /\ Open = {} /\ MainFlight = {} /\ NestedFlight = {}
  BY <1>2 DEF Running, Open, MainFlight, NestedFlight, NoCall, NoTool
<1>4. Cardinality({}) = 0 /\ IsFiniteSet({})
  BY FS_EmptySet
<1>5. TypeOK
  <2>1. /\ agent \in [Agents -> AgentState] /\ call \in [Slots -> CallState]
        /\ nested \in [Slots -> ToolState]
    BY <1>1, Resting
  <2> QED
    BY <1>1, <2>1, Distinct DEF TypeOK
<1>6. MainFits
  BY <1>2 DEF MainFits, Started
<1>7. \A s \in Slots : CallFits(s)
  BY <1>2, <1>3 DEF CallFits, Busy, NoCall, NoTool, Off
<1>8. InCap
  BY <1>2, Distinct DEF InCap, Agents, RequestLimit, Started, Off
<1>9. Spent
  <2>1. (MaxTurns + 1) * MaxAttempts \in Nat
    BY Distinct
  <2>2. agent["main"].attempt = 1 /\ agent["main"].requests = 0 /\ (1 - 1) * (MaxTurns + 1) = 0
    BY <1>2, Distinct DEF Started
  <2> QED
    BY <1>1, <2>1, <2>2 DEF Spent, RoundsBounded
<1>10. ExpertsBounded /\ FindingsBounded /\ Accounted
  <2>1. Cardinality(Slots) * 0 = 0
    BY Bounds
  <2> QED
    BY <1>1, <1>3, <1>4, <2>1, Distinct, Flights DEF ExpertsBounded, FindingsBounded, Accounted
<1>11. RefsKnown /\ ScannedBeforeReasoning
  BY <1>1, <1>2, <1>3 DEF RefsKnown, NoCall, ScannedBeforeReasoning
<1> QED
  BY <1>5, <1>6, <1>7, <1>8, <1>9, <1>10, <1>11 DEF IInv, Fits

\* A step that changes nothing keeps the invariant.
LEMMA Stuttering == ASSUME IInv, UNCHANGED vars PROVE IInv' /\ Balanced
<1>1. /\ TypeOK' /\ InCap' /\ Spent' /\ RefsKnown' /\ Accounted' /\ ScannedBeforeReasoning'
  BY DEF IInv, vars, histories, TypeOK, InCap, RequestLimit, Spent, RoundsBounded,
         RefsKnown, Running, Accounted, InFlight, ScannedBeforeReasoning
<1>2. ExpertsBounded' /\ FindingsBounded'
  BY DEF IInv, vars, ExpertsBounded, Running, FindingsBounded, Open
<1>3. Fits'
  BY DEF IInv, vars, Fits, MainFits, CallFits, Busy, Running
<1>4. Balanced
  <2>1. InFlight' = InFlight /\ unrecorded' = unrecorded
    BY DEF vars, InFlight
  <2> QED
    BY <2>1 DEF Balanced
<1> QED
  BY <1>1, <1>2, <1>3, <1>4 DEF IInv

\* Every step keeps the invariant, and every step but a cut keeps what was
\* started in balance.
LEMMA StepKeeps == ASSUME IInv, [Next]_vars PROVE IInv' /\ (Balanced \/ Cut)
<1>1. CASE UNCHANGED vars
  BY <1>1, Stuttering
<1>2. CASE Next
  <2>1. Typed
    BY DEF IInv, Typed
  <2>2. CASE MainStops
    BY <2>2, MainStopped
  <2>3. CASE Forced
    BY <2>3, MainAsks
  <2>4. CASE CallCapabilities
    BY <2>4, CapabilitiesCalled
  <2>5. CASE ToolsReturned
    BY <2>5, CapabilitiesReturned
  <2>6. ASSUME NEW a \in Agents, AsksAgain(a) \/ StartsOver(a)
        PROVE  IInv' /\ Balanced
    <3>1. CASE a = "main"
      BY <2>6, <3>1, MainAsks
    <3>2. CASE a \in Slots
      BY <2>6, <3>2, ExpertAsks
    <3> QED
      BY <3>1, <3>2 DEF Agents
  <2>7. ASSUME NEW s \in Slots,
               \/ ExpertStops(s) \/ ExpertDelivers(s) \/ CallTool(s) \/ Scanning(s)
               \/ MainDone(s) \/ NestedDone(s) \/ ExpertStarts(s) \/ ExpertRefused(s)
        PROVE  IInv' /\ (Balanced \/ Cut)
    BY <2>7, ExpertFailed, ExpertDelivered, ExpertCallsTool, OutputScanned, MainToolReturned,
       NestedToolReturned, ExpertStarted, ExpertDenied
  <2> QED
    BY <1>2, <2>1, <2>2, <2>3, <2>4, <2>5, <2>6, <2>7, Effects
<1> QED
  BY <1>1, <1>2

\* The inductive invariant holds throughout.
LEMMA Invariant == Spec => []IInv
<1>1. IInv /\ [Next]_vars => IInv'
  BY StepKeeps
<1> QED
  BY <1>1, InitiallyInvariant, PTL DEF Spec

\* However experts end, no more than EXPERT_MAX_CONCURRENT run and no permit
\* is lost (the semaphore of ExpertHandler), for any number of parallel calls.
THEOREM PermitsAreKept == Spec => []PermitInv
<1>1. IInv => PermitInv
  BY DEF IInv, PermitInv
<1> QED
  BY <1>1, Invariant, PTL

\* A ref the orchestrator was told resolves, as a deliverable
\* (_resolve_deliverable) and in the materials of the writer it is handed to
\* (_build_env).
THEOREM RefsAlwaysResolve == Spec => []RefsResolve
<1>1. IInv => RefsResolve
  BY DEF IInv, RefsKnown, RefsResolve
<1> QED
  BY <1>1, Invariant, PTL

\* Invariant A of the capability layer, as far as it reaches: a string that a
\* NETWORK tool returned is scanned before the orchestrator or an expert is
\* given it (ToolHandler.call_tool), whoever called the tool.
THEOREM NothingUnscannedIsSeen == Spec => []ScannedBeforeReasoning
<1>1. IInv => ScannedBeforeReasoning
  BY DEF IInv
<1> QED
  BY <1>1, Invariant, PTL

\* The tool rounds of a turn are bounded by its cap and its attempts
\* (usage_limits_for_layer, run_agent): at most ORCHESTRATOR_MAX_TURNS + 1 for
\* each attempt.
THEOREM RoundsAreBounded == Spec => []RoundsBounded
<1>1. IInv => RoundsBounded
  BY DEF IInv, Spent
<1> QED
  BY <1>1, Invariant, PTL

\* A tool call that is never recorded ends the run that made it: the turn
\* fails while it waits for its calls, or the expert that waits for the call
\* ends without a finding (call_tool, _run_one, run_turn). No other step loses
\* a ToolCallRecord.
THEOREM CallsAreRecordedUnlessCut == Spec => RecordedUnlessCut
<1>1. ASSUME IInv, [Next]_vars PROVE [~Loses(0) => Cut]_vars
  <2>1. IInv' /\ (Balanced \/ Cut)
    BY <1>1, StepKeeps
  <2>2. ASSUME Balanced PROVE Loses(0)
    <3>1. \A T \in SUBSET Slots : Cardinality(T) \in Nat
      BY SlotSets
    <3>2. InFlight' \in Nat /\ unrecorded \in Nat
      BY <1>1, <3>1 DEF InFlight, IInv, TypeOK
    <3> QED
      BY <2>2, <3>2 DEF Balanced, Loses
  <2> QED
    BY <2>1, <2>2
<1>2. Spec => []IInv /\ [][Next]_vars
  BY Invariant, PTL DEF Spec
<1> QED
  BY <1>1, <1>2, PTL DEF RecordedUnlessCut
=============================================================================
