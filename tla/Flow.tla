------------------------------- MODULE Flow -------------------------------
(***************************************************************************)
(* The transport of the pipeline, as operators: foundation/transport's     *)
(* Flow and the context it carries. A flow is immutable, every transition  *)
(* returns a new one with one more journal entry; the context is the       *)
(* mutable object all the flows of one turn share.                         *)
(*                                                                         *)
(* Payloads are tags naming what the handle holds; their content lives in  *)
(* the context. Span ids, durations and descriptors are left out: they are *)
(* written and never read by the program.                                  *)
(***************************************************************************)
EXTENDS Naturals, Sequences

Status  == {"ok", "warn", "blocked", "error"}
Payload == {"raw", "sanitized", "normalized", "draft", "final"}

\* The origins of journal entries, in the order of pipeline.ACTIVE_STAGES.
StageOrder == <<"intake", "sanitizer", "normalizer", "verifier",
                "orchestrator", "filter", "output">>
Origin == {StageOrder[i] : i \in 1 .. 7}

\* payload and cached are the PayloadHandle: what its loader returns and
\* whether the loaded value is still held.
FlowOver(f, status, origin, payload, cached) ==
  [status  |-> status, payload |-> payload, cached |-> cached,
   journal |-> Append(f.journal, [origin |-> origin, status |-> status])]

\* Flow.new
FlowNew(payload) ==
  [status |-> "ok", payload |-> payload, cached |-> FALSE,
   journal |-> <<[origin |-> "intake", status |-> "ok"]>>]

Load(f) == [f EXCEPT !.cached = TRUE]

\* Flow.next: a fresh handle, and the status is "ok" whatever it was.
FlowNext(f, payload, origin) == FlowOver(f, "ok", origin, payload, FALSE)

\* Flow.block and Flow.fail keep the handle but drop its cached value.
FlowBlock(f, origin) == FlowOver(f, "blocked", origin, f.payload, FALSE)
FlowFail(f, origin)  == FlowOver(f, "error", origin, f.payload, FALSE)

\* Flow.warn keeps the handle as it is.
FlowWarn(f, origin)  == FlowOver(f, "warn", origin, f.payload, f.cached)

\* Mutant of ShouldStop: only faults stop the chain.
StopsOnErrorOnly(f) == f.status = "error"

ShouldStop(f) == f.status \in {"blocked", "error"}

---------------------------------------------------------------------------
\* VrakshaContext

Stage == {"created", "intake", "sanitizing", "normalizing", "verifying",
          "orchestrating", "filtering", "output", "blocked", "failed"}

Advance(c, stage) == [c EXCEPT !.current_stage = stage]

\* Mutant of MarkBlocked: the stage is left where it was.
MarkBlockedInPlace(c, reason) ==
  [c EXCEPT !.blocked = TRUE, !.block_reason = reason]

\* Called by Flow.block and Flow.fail on the shared context.
MarkBlocked(c, reason) ==
  [c EXCEPT !.blocked = TRUE, !.block_reason = reason, !.current_stage = "blocked"]
MarkFailed(c, error) ==
  [c EXCEPT !.failed = TRUE, !.failure_error = error, !.current_stage = "failed"]
============================================================================
