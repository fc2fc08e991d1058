----------------------------- MODULE Sanitizer -----------------------------
(***************************************************************************)
(* The sanitizer stage of several turns (security/sanitizers/runner.py).   *)
(* A turn's payload goes to ClamAV and YARA in parallel, then to the       *)
(* worker of its modality (intake detects one) under a global semaphore,   *)
(* a worker timeout and a total timeout. Every scan is a job in the event  *)
(* loop's thread pool, a FIFO queue and a bounded number of threads. A     *)
(* timeout abandons the job: a queued one is dropped, a running one is not *)
(* stopped by it and keeps its thread.                                     *)
(*                                                                         *)
(* What the engines and workers look for is left out: a job finds the      *)
(* payload clean, finds a threat that blocks, or raises.                   *)
(***************************************************************************)
EXTENDS Naturals, FiniteSets, Sequences, SequencesExt

CONSTANTS
  Turns,
  Threads,     \* threads of the loop's executor
  MaxWorkers,  \* SANITIZER_MAX_WORKERS
  Hanging      \* turns whose payload a worker's library never returns from

ASSUME SanitizerAssumption ==
  /\ IsFiniteSet(Turns) /\ Hanging \subseteq Turns
  /\ Threads \in Nat \ {0} /\ MaxWorkers \in Nat \ {0}

Engines == {"clamav", "yara"}
Jobs    == Turns \X (Engines \cup {"worker"})

VARIABLES
  stage,   \* per turn, where runner.run stands
  job,     \* per job, where it stands, then what it returned
  queue,   \* jobs the executor has not given to a thread yet
  permits  \* the semaphore of the modality workers

vars == <<stage, job, queue, permits>>

Ended   == {"passed", "blocked", "failed"}
Results == {"clean", "threat", "fault"}

Busy == {j \in Jobs : job[j] = "running"}

\* Mutant of Hangs: the YARA match has no timeout of its own.
HangsInEngine(j) == j[1] \in Hanging /\ j[2] # "clamav"

\* The workers run external programs and libraries. The engines have timeouts
\* of their own (clamd's socket, rules.match).
Hangs(j) == j[2] = "worker" /\ j[1] \in Hanging

---------------------------------------------------------------------------
\* The thread pool

ThreadTakes ==
  /\ queue # <<>> /\ Cardinality(Busy) < Threads
  /\ job' = [job EXCEPT ![Head(queue)] = "running"]
  /\ queue' = Tail(queue)
  /\ UNCHANGED <<stage, permits>>

JobReturns(j) ==
  /\ job[j] = "running" /\ ~Hangs(j)
  /\ \E r \in Results : job' = [job EXCEPT ![j] = r]
  /\ UNCHANGED <<stage, queue, permits>>

---------------------------------------------------------------------------
\* runner.run and pre_sanitization.scan

Start(t) ==
  /\ stage[t] = "loaded"
  /\ stage' = [stage EXCEPT ![t] = "prescan"]
  /\ job' = [job EXCEPT ![<<t, "clamav">>] = "queued", ![<<t, "yara">>] = "queued"]
  /\ queue' = queue \o <<<<t, "clamav">>, <<t, "yara">>>>
  /\ UNCHANGED permits

\* Mutant of EnginesDone: the first engine to return decides.
EitherDone(t) == \E e \in Engines : job[<<t, e>>] \in {"clean", "threat"}

EnginesDone(t) == \A e \in Engines : job[<<t, e>>] \in {"clean", "threat"}

\* gather raises the first fault, and leaves the other engine to its thread.
EngineFaults(t) ==
  /\ stage[t] = "prescan"
  /\ \E e \in Engines : job[<<t, e>>] = "fault"
  /\ stage' = [stage EXCEPT ![t] = "failed"]
  /\ UNCHANGED <<job, queue, permits>>

EngineBlocks(t) == \E e \in Engines : job[<<t, e>>] = "threat"

PreSanitized(t) ==
  /\ stage[t] = "prescan" /\ EnginesDone(t)
  /\ stage' = [stage EXCEPT ![t] = IF EngineBlocks(t) THEN "blocked" ELSE "waiting"]
  /\ UNCHANGED <<job, queue, permits>>

\* _run_worker has its permit; the worker's scan goes to a thread.
WorkerStarts(t) ==
  /\ stage[t] = "waiting" /\ permits > 0
  /\ stage' = [stage EXCEPT ![t] = "working"]
  /\ permits' = permits - 1
  /\ job' = [job EXCEPT ![<<t, "worker">>] = "queued"]
  /\ queue' = Append(queue, <<t, "worker">>)

\* An exception gathered among the results fails the turn.
WorkerDone(t) ==
  LET r == job[<<t, "worker">>]
  IN /\ stage[t] = "working" /\ r \in Results
     /\ stage' = [stage EXCEPT ![t] = CASE r = "clean"  -> "passed"
                                         [] r = "threat" -> "blocked"
                                         [] r = "fault"  -> "failed"]
     /\ permits' = permits + 1
     /\ UNCHANGED <<job, queue>>

\* The await of a worker is cancelled: a job still queued never runs.
Cancelled(t) ==
  LET w == <<t, "worker">>
  IN IF job[w] = "queued"
     THEN /\ job' = [job EXCEPT ![w] = "none"]
          /\ \E i \in 1 .. Len(queue) : queue[i] = w /\ queue' = RemoveAt(queue, i)
     ELSE UNCHANGED <<job, queue>>

\* Mutant of Released: cancelled workers keep their permit.
ReleasedByResult(t) == permits

Released(t) == IF stage[t] = "working" THEN permits + 1 ELSE permits

\* SANITIZER_TIMEOUT_WORKER_S or SANITIZER_TIMEOUT_TOTAL_S; before the worker
\* has its permit only the second can strike.
TimesOut(t) ==
  /\ stage[t] \in {"waiting", "working"}
  /\ stage' = [stage EXCEPT ![t] = "failed"]
  /\ permits' = Released(t)
  /\ Cancelled(t)

---------------------------------------------------------------------------

Init ==
  /\ stage = [t \in Turns |-> "loaded"]
  /\ job = [j \in Jobs |-> "none"]
  /\ queue = <<>>
  /\ permits = MaxWorkers

\* What the event loop does for a turn it has started.
LoopStep(t) ==
  \/ EngineFaults(t) \/ PreSanitized(t) \/ WorkerStarts(t) \/ WorkerDone(t) \/ TimesOut(t)

Next ==
  \/ ThreadTakes
  \/ \E j \in Jobs : JobReturns(j)
  \/ \E t \in Turns : Start(t) \/ LoopStep(t)

\* Free threads take jobs, scans that can return do, the loop serves its tasks
\* and its timers. That a turn is submitted is not assumed.
Fairness ==
  /\ WF_vars(ThreadTakes)
  /\ \A j \in Jobs : WF_vars(JobReturns(j))
  /\ \A t \in Turns : WF_vars(LoopStep(t))

Spec == Init /\ [][Next]_vars /\ Fairness

---------------------------------------------------------------------------
\* Correctness

TypeOK ==
  /\ stage \in [Turns -> {"loaded", "prescan", "waiting", "working"} \cup Ended]
  /\ job \in [Jobs -> {"none", "queued", "running"} \cup Results]
  /\ permits \in 0 .. MaxWorkers
  /\ queue \in Seq(Jobs)
  /\ \A i \in 1 .. Len(queue) :
       /\ job[queue[i]] = "queued"
       /\ \A k \in 1 .. i - 1 : queue[k] # queue[i]

\* "No modality parser should touch the input until ClamAV/YARA have had a
\* chance to reject it": no worker is scheduled before both found it clean,
\* and a turn only passes when all three did.
ScannedInOrder ==
  \A t \in Turns :
    /\ job[<<t, "worker">>] # "none" => \A e \in Engines : job[<<t, e>>] = "clean"
    /\ stage[t] = "passed" =>
         \A k \in Engines \cup {"worker"} : job[<<t, k>>] = "clean"

PermitsConserved ==
  permits + Cardinality({t \in Turns : stage[t] = "working"}) = MaxWorkers

\* Results, faults and timeouts give each permit back once, so no turn is
\* locked out by one that ended; and every variable has its type.
PermitInv == TypeOK /\ PermitsConserved

\* A turn that was started ends, even if workers hang, as long as they do not
\* hold every thread (runner.py: the timeouts; the engines' own timeouts).
StageEnds == \A t \in Turns : stage[t] = "prescan" ~> stage[t] \in Ended

---------------------------------------------------------------------------
\* Claims of the documentation, checked on their own

\* foundation/vocab/constants.py:75: SANITIZER_MAX_WORKERS is a "global
\* semaphore - max concurrent workers across all incoming requests".
WorkersBounded == Cardinality({j \in Busy : j[2] = "worker"}) <= MaxWorkers
============================================================================
