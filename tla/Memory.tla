------------------------------ MODULE Memory ------------------------------
(***************************************************************************)
(* core/memory: the operations of the MemoryManager (hydrate,              *)
(* record_write_proposals, sync_wiki, delete_user) over the store module,  *)
(* its circuit breaker and lazily ensured collections, the embedding       *)
(* model, and the Qdrant service behind them.                              *)
(*                                                                         *)
(* A slot is a task of the event loop running one operation after another. *)
(* Store functions run in threads: each keeps its own place (call), makes  *)
(* one Qdrant request per step and takes no lock on the module's globals;  *)
(* hydrate runs one per tier in parallel. A request can fail before or     *)
(* after the service applied it. Of the vectors only one thing is kept:    *)
(* which texts are near-duplicates (similarity >= 0.97), a relation that   *)
(* is not transitive. Recency and the token budget are left out (Hydration *)
(* has the budget).                                                        *)
(***************************************************************************)
EXTENDS Naturals, FiniteSets

CONSTANTS
  Slots,      \* tasks using the manager concurrently
  Users,
  Tiers,      \* the tiers that have a collection
  Texts,      \* contents of memories
  Alike,      \* the pairs of texts at least _DEDUP_SIMILARITY similar
  Confidence, \* of proposals: 2 is certain, 0 below _MIN_ACCEPT_CONFIDENCE
  Kinds,      \* the operations callers use
  Breaker,    \* _BREAKER_S
  Indexes,    \* the user_id index a collection may have when the process starts
  MaxTime, MaxFaults, MaxOps,   \* bounds: clock, failures, operations
  None

ASSUME MemoryAssumption ==
  /\ Tiers \subseteq {"wiki", "semantic", "episodic", "procedural"}
  /\ Kinds \subseteq {"hydrate", "record", "sync_wiki", "delete_user"}
  /\ Indexes \subseteq {"missing", "none", "plain", "tenant"}
  /\ Alike \subseteq Texts \X Texts
  /\ \A x \in Texts : <<x, x>> \in Alike
  /\ \A pair \in Alike : <<pair[2], pair[1]>> \in Alike
  /\ 2 \in Confidence /\ Confidence \subseteq Nat
  /\ None \notin Nat
  /\ Breaker \in Nat \ {0} /\ MaxTime \in Nat /\ MaxFaults \in Nat /\ MaxOps \in Nat

MinAcceptConfidence == 1        \* _MIN_ACCEPT_CONFIDENCE
Ids == 1 .. MaxOps

Point == [id : Ids, tier : Tiers, user : Users, text : Texts, confidence : Confidence]

VARIABLES
  clock,
  downUntil,   \* _down_until
  ensured,     \* _ensured
  embedder,    \* _model and _failed
  index,       \* Qdrant: per tier, "missing" or the state of its user_id index
  session,     \* Qdrant: the tiers with a session_id index
  points,      \* Qdrant: the stored points
  op,          \* per slot, the operation it runs
  call,        \* per slot and tier, where its store function stands
  erasing,     \* history: what each running delete_user still has to remove
  faults, ops  \* bounds, counted

store    == <<downUntil, ensured>>
qdrant   == <<index, session, points>>
vars == <<clock, store, embedder, qdrant, op, call, erasing, faults, ops>>

IsDown == clock < downUntil
Trip   == downUntil' = clock + Breaker
Fault  == faults < MaxFaults /\ faults' = faults + 1

At(s, c, place)   == call[s][c] = place
Goto(s, c, place) == call' = [call EXCEPT ![s][c] = place]

---------------------------------------------------------------------------
\* store.py: what search and upsert have in common.

\* Where a call goes once its collection is ensured.
Request(s) ==
  CASE op[s].phase = "search"                              -> "query"
    [] op[s].phase = "write" /\ op[s].point_id # None      -> "retrieve"
    [] OTHER                                               -> "upsert"

\* A call that degrades returns [] or None; the operation never learns why.
Degrade(s, c) == Goto(s, c, "done") /\ UNCHANGED op

Requests == {"exists", "create", "index_user", "index_session", "get", "drop",
             "upgrade", "query", "retrieve", "upsert"}

\* Any request may raise: the call trips the breaker and degrades.
RequestFails(s, c) ==
  /\ call[s][c] \in Requests
  /\ Fault /\ Trip /\ Degrade(s, c)
  /\ UNCHANGED <<clock, ensured, embedder, qdrant, erasing, ops>>

\* ... or time out after the service has applied it (upsert has its own).
RequestUnanswered(s, c) ==
  /\ \/ /\ (At(s, c, "create") /\ index[c] = "missing") \/ At(s, c, "drop")
        /\ index' = [index EXCEPT ![c] = "none"]
     \/ /\ At(s, c, "index_user") \/ At(s, c, "upgrade")
        /\ index' = [index EXCEPT ![c] = "tenant"]
  /\ Fault /\ Trip /\ Degrade(s, c)
  /\ UNCHANGED <<clock, ensured, embedder, session, points, erasing, ops>>

\* Mutant of Enter: a call waits for the breaker to close.
EnterWaits(s, c) ==
  /\ At(s, c, "enter")
  /\ ~IsDown
  /\ Goto(s, c, IF c \in ensured THEN Request(s) ELSE "exists")
  /\ UNCHANGED <<clock, store, embedder, qdrant, op, erasing, faults, ops>>

\* _qdrant and the check of _ensured: no request yet.
Enter(s, c) ==
  /\ At(s, c, "enter")
  /\ \/ /\ IsDown
        /\ Goto(s, c, "done")
        /\ op' = [op EXCEPT ![s].skipped = TRUE]
     \/ /\ ~IsDown
        /\ Goto(s, c, IF c \in ensured THEN Request(s) ELSE "exists")
        /\ UNCHANGED op
  /\ UNCHANGED <<clock, store, embedder, qdrant, erasing, faults, ops>>

CollectionExists(s, c) ==
  /\ At(s, c, "exists")
  /\ Goto(s, c, IF index[c] = "missing" THEN "create" ELSE "get")
  /\ UNCHANGED <<clock, store, embedder, qdrant, op, erasing, faults, ops>>

\* create_collection raises when another thread has created it meanwhile.
CreateCollection(s, c) ==
  /\ At(s, c, "create")
  /\ \/ /\ index[c] = "missing"
        /\ index' = [index EXCEPT ![c] = "none"]
        /\ Goto(s, c, "index_user")
        /\ UNCHANGED <<downUntil, op>>
     \/ /\ index[c] # "missing"
        /\ Trip /\ Degrade(s, c)
        /\ UNCHANGED index
  /\ UNCHANGED <<clock, ensured, embedder, session, points, erasing, faults, ops>>

CreateUserIndex(s, c) ==
  /\ At(s, c, "index_user")
  /\ index' = [index EXCEPT ![c] = "tenant"]
  /\ Goto(s, c, "index_session")
  /\ UNCHANGED <<clock, store, embedder, session, points, op, erasing, faults, ops>>

CreateSessionIndex(s, c) ==
  /\ At(s, c, "index_session")
  /\ session' = session \cup {c}
  /\ ensured' = ensured \cup {c}
  /\ Goto(s, c, Request(s))
  /\ UNCHANGED <<clock, downUntil, embedder, index, points, op, erasing, faults, ops>>

\* Mutant of GetCollection: a plain index counts as ensured.
GetCollectionPlain(s, c) ==
  /\ At(s, c, "get")
  /\ ensured' = ensured \cup {c}
  /\ Goto(s, c, Request(s))
  /\ UNCHANGED <<clock, downUntil, embedder, qdrant, op, erasing, faults, ops>>

\* _ensure_tenant_index: a plain index is dropped, then created as tenant.
GetCollection(s, c) ==
  /\ At(s, c, "get")
  /\ \/ /\ index[c] = "tenant"
        /\ ensured' = ensured \cup {c}
        /\ Goto(s, c, Request(s))
     \/ index[c] = "plain" /\ Goto(s, c, "drop")    /\ UNCHANGED ensured
     \/ index[c] = "none"  /\ Goto(s, c, "upgrade") /\ UNCHANGED ensured
  /\ UNCHANGED <<clock, downUntil, embedder, qdrant, op, erasing, faults, ops>>

DropIndex(s, c) ==
  /\ At(s, c, "drop")
  /\ index' = [index EXCEPT ![c] = "none"]
  /\ Goto(s, c, "upgrade")
  /\ UNCHANGED <<clock, store, embedder, session, points, op, erasing, faults, ops>>

UpgradeIndex(s, c) ==
  /\ At(s, c, "upgrade")
  /\ index' = [index EXCEPT ![c] = "tenant"]
  /\ ensured' = ensured \cup {c}
  /\ Goto(s, c, Request(s))
  /\ UNCHANGED <<clock, downUntil, embedder, session, points, op, erasing, faults, ops>>

---------------------------------------------------------------------------
\* store.search

\* Mutant of Verified: the filter in the query is trusted.
Trusted(hits, user) == hits

\* The payload of every hit is compared with the user it was asked for.
Verified(hits, user) == {p \in hits : p.user = user}

\* What a query of limit 1 can return, if it is near enough: the same text has
\* the highest score there is; which of several others scores highest is open.
Nearest(scope, text) ==
  LET same == {p \in scope : p.text = text}
  IN IF same # {} THEN same ELSE {p \in scope : <<p.text, text>> \in Alike}

\* hydrate asks for the best of a tier, the write path for the nearest one.
\* The filter of the query is one defence; should it leak, Verified remains.
Search(s, c) ==
  /\ At(s, c, "query")
  /\ \E leaks \in BOOLEAN :
       LET scope == {p \in points : p.tier = c /\ (leaks \/ p.user = op[s].user)}
           near  == Nearest(scope, op[s].text)
       IN /\ IF leaks THEN Fault ELSE UNCHANGED faults
          /\ \E found \in IF op[s].kind = "hydrate" THEN {scope}
                          ELSE {{p} : p \in near} \cup (IF near = {} THEN {{}} ELSE {}) :
               op' = [op EXCEPT ![s].hits = @ \cup Verified(found, op[s].user)]
  /\ Goto(s, c, "done")
  /\ UNCHANGED <<clock, store, embedder, qdrant, erasing, ops>>

---------------------------------------------------------------------------
\* store.upsert

\* _owns_point: absent, or of the same user.
RetrieveOwner(s, c) ==
  /\ At(s, c, "retrieve")
  /\ \/ /\ \A p \in points : p.id = op[s].point_id => p.user = op[s].user
        /\ Goto(s, c, "upsert")
        /\ UNCHANGED op
     \/ /\ \E p \in points : p.id = op[s].point_id /\ p.user # op[s].user
        /\ Degrade(s, c)
  /\ UNCHANGED <<clock, store, embedder, qdrant, erasing, faults, ops>>

\* A fresh id is a uuid4; here the number of the operation.
Written(s, c) ==
  [id |-> IF op[s].point_id = None THEN op[s].number ELSE op[s].point_id,
   tier |-> c, user |-> op[s].user, text |-> op[s].text,
   confidence |-> op[s].confidence]

\* What Qdrant holds once it has applied the upsert: an id names one point.
ApplyUpsert(s, c) ==
  /\ points' = {p \in points : p.tier # c \/ p.id # Written(s, c).id}
                 \cup {Written(s, c)}
  /\ erasing' = [e \in Slots |-> {p \in erasing[e] : p.id # Written(s, c).id}]

Upsert(s, c) ==
  /\ At(s, c, "upsert")
  /\ ApplyUpsert(s, c)
  /\ Goto(s, c, "done")
  /\ UNCHANGED <<clock, store, embedder, index, session, op, faults, ops>>

\* The request times out after the service applied it.
UpsertUnanswered(s, c) ==
  /\ At(s, c, "upsert")
  /\ ApplyUpsert(s, c)
  /\ Fault /\ Trip /\ Degrade(s, c)
  /\ UNCHANGED <<clock, ensured, embedder, index, session, ops>>

---------------------------------------------------------------------------
\* store.delete_user: tier after tier, going on past a fault.

EraseTier(s, c) ==
  /\ op[s].phase = "erase"
  /\ At(s, c, "todo")
  /\ \A other \in Tiers : call[s][other] \in {"todo", "done"}
  /\ Goto(s, c, IF index[c] = "missing" THEN "done" ELSE "delete")
  /\ UNCHANGED <<clock, store, embedder, qdrant, op, erasing, faults, ops>>

DeletePoints(s, c) ==
  /\ At(s, c, "delete")
  /\ points' = {p \in points : p.tier # c \/ p.user # op[s].user}
  /\ Goto(s, c, "done")
  /\ UNCHANGED <<clock, store, embedder, index, session, op, erasing, faults, ops>>

\* Mutant of EraseFails: the first fault ends the whole erasure.
EraseStops(s, c) ==
  /\ call[s][c] \in {"todo", "delete"} /\ op[s].phase = "erase"
  /\ \A other \in Tiers \ {c} : call[s][other] \in {"todo", "done"}
  /\ Fault /\ Trip
  /\ call' = [call EXCEPT ![s] = [other \in Tiers |-> "done"]]
  /\ op' = [op EXCEPT ![s].failed = @ \cup {c}]
  /\ UNCHANGED <<clock, ensured, embedder, qdrant, erasing, ops>>

EraseFails(s, c) ==
  /\ call[s][c] \in {"todo", "delete"} /\ op[s].phase = "erase"
  /\ \A other \in Tiers \ {c} : call[s][other] \in {"todo", "done"}
  /\ Fault /\ Trip
  /\ Goto(s, c, "done")
  /\ op' = [op EXCEPT ![s].failed = @ \cup {c}]
  /\ UNCHANGED <<clock, ensured, embedder, qdrant, erasing, ops>>

---------------------------------------------------------------------------
\* manager.py

Idle(s)     == op[s].phase \in {"idle", "over"}
CallsDone(s) == \A c \in Tiers : call[s][c] \in {"none", "done"}

\* Which tier a proposal ends up in, None when the policy drops it.
Accepted(tier, confidence) ==
  CASE tier = "working"                                      -> None
    [] tier \in {"wiki", "semantic", "procedural"}
       /\ confidence < MinAcceptConfidence                   -> None
    [] tier = "wiki" /\ confidence >= MinAcceptConfidence    -> "semantic"
    [] OTHER                                                 -> tier

\* What an operation starts from. Only fields later steps read are kept:
\* failed (the tiers whose erasure raised), skipped (the breaker kept a call
\* from asking) and loading (it loaded the model) are histories.
NewOp(kind, user, tier, text, confidence) ==
  [kind |-> kind, user |-> user, tier |-> tier, text |-> text,
   confidence |-> confidence, number |-> 0, phase |-> "embed",
   point_id |-> None, hits |-> {}, outcome |-> "none",
   failed |-> {}, skipped |-> FALSE, loading |-> FALSE]

Start(s, o) ==
  /\ Idle(s) /\ ops < MaxOps
  /\ ops' = ops + 1
  /\ op' = [op EXCEPT ![s] = [o EXCEPT !.number = ops + 1]]
  /\ call' = [call EXCEPT ![s] = [c \in Tiers |-> "none"]]

Hydrate(s, user) ==
  /\ "hydrate" \in Kinds
  /\ Start(s, NewOp("hydrate", user, None, None, 2))
  /\ UNCHANGED <<clock, store, embedder, qdrant, erasing, faults>>

\* One accepted proposal; one the policy drops changes nothing.
Record(s, user, tier, text, confidence) ==
  /\ "record" \in Kinds
  /\ Accepted(tier, confidence) \in Tiers
  /\ Start(s, NewOp("record", user, Accepted(tier, confidence), text, confidence))
  /\ UNCHANGED <<clock, store, embedder, qdrant, erasing, faults>>

SyncWiki(s, user, text) ==
  /\ "sync_wiki" \in Kinds /\ "wiki" \in Tiers
  /\ Start(s, NewOp("sync_wiki", user, "wiki", text, 2))
  /\ UNCHANGED <<clock, store, embedder, qdrant, erasing, faults>>

\* delete_user does nothing while the breaker is open, and says nothing.
DeleteUser(s, user) ==
  /\ "delete_user" \in Kinds
  /\ Idle(s) /\ ops < MaxOps
  /\ ops' = ops + 1
  /\ op' = [op EXCEPT ![s] =
       [NewOp("delete_user", user, None, None, 2) EXCEPT !.phase = "erase",
                                                         !.skipped = IsDown]]
  /\ call' = [call EXCEPT ![s] = [c \in Tiers |-> IF IsDown THEN "done" ELSE "todo"]]
  /\ erasing' = [erasing EXCEPT ![s] = {p \in points : p.user = user}]
  /\ UNCHANGED <<clock, store, embedder, qdrant, faults>>

\* The calls an operation makes once it has its vector.
Searches(s) == IF op[s].kind = "hydrate" THEN Tiers ELSE {op[s].tier}

Embedded(s) ==
  /\ op' = [op EXCEPT ![s].phase = "search", ![s].loading = embedder = "unloaded"]
  /\ call' = [call EXCEPT ![s] =
       [c \in Tiers |-> IF c \in Searches(s) THEN "enter" ELSE "none"]]

\* embed() answers None: hydrate gives a degraded package, a write is dropped.
NotEmbedded(s) ==
  /\ op' = [op EXCEPT ![s] = [@ EXCEPT !.phase = "over", !.outcome = "unembedded",
                                       !.loading = embedder = "unloaded"]]
  /\ UNCHANGED call

\* embeddings.embed: the model loads once; a failed load is never repeated.
Embed(s) ==
  /\ op[s].phase = "embed"
  /\ \/ embedder # "failed" /\ embedder' = "loaded" /\ Embedded(s) /\ UNCHANGED faults
     \/ embedder # "failed" /\ NotEmbedded(s) /\ Fault
        /\ embedder' = (IF embedder = "unloaded" THEN "failed" ELSE "loaded")
     \/ embedder = "failed" /\ NotEmbedded(s) /\ UNCHANGED <<embedder, faults>>
  /\ UNCHANGED <<clock, store, qdrant, erasing, ops>>

\* hydrate, after gather: is_down is asked only when no tier had a hit.
Hydrated(s) ==
  /\ op[s].phase = "search" /\ op[s].kind = "hydrate" /\ CallsDone(s)
  /\ op' = [op EXCEPT ![s].phase = "over",
       ![s].outcome = IF op[s].hits # {} THEN "items"
                      ELSE IF IsDown THEN "unavailable" ELSE "no prior memory"]
  /\ UNCHANGED <<clock, store, embedder, qdrant, call, erasing, faults, ops>>

Refreshed(confidence, old) == IF old > confidence THEN old ELSE confidence

\* Mutant of Deduplicated: the hit's id is not carried over.
InsertAnyway(s) ==
  /\ op[s].phase = "search" /\ op[s].kind # "hydrate" /\ CallsDone(s)
  /\ op' = [op EXCEPT ![s].phase = "write"]
  /\ call' = [call EXCEPT ![s][op[s].tier] = "enter"]
  /\ UNCHANGED <<clock, store, embedder, qdrant, erasing, faults, ops>>

\* The write path, after its search: refresh the near-duplicate, if any. Its
\* vector and its content become those of the new text (Written).
Deduplicated(s) ==
  /\ op[s].phase = "search" /\ op[s].kind # "hydrate" /\ CallsDone(s)
  /\ \/ /\ op[s].hits = {}
        /\ op' = [op EXCEPT ![s].phase = "write"]
     \/ \E p \in op[s].hits :
          op' = [op EXCEPT ![s] =
                  [@ EXCEPT !.phase = "write", !.point_id = p.id,
                            !.confidence = Refreshed(op[s].confidence, p.confidence)]]
  /\ call' = [call EXCEPT ![s][op[s].tier] = "enter"]
  /\ UNCHANGED <<clock, store, embedder, qdrant, erasing, faults, ops>>

Finished(s) ==
  /\ op[s].phase \in {"write", "erase"} /\ CallsDone(s)
  /\ op' = [op EXCEPT ![s].phase = "over"]
  /\ UNCHANGED <<clock, store, embedder, qdrant, call, erasing, faults, ops>>

Tick ==
  /\ clock < MaxTime
  /\ clock' = clock + 1
  /\ UNCHANGED <<store, embedder, qdrant, op, call, erasing, faults, ops>>

Begin(s) ==
  \E user \in Users :
    \/ DeleteUser(s, user)
    \/ Hydrate(s, user)
    \/ \E text \in Texts :
         \/ SyncWiki(s, user, text)
         \/ \E tier \in Tiers \cup {"working"}, confidence \in Confidence :
              Record(s, user, tier, text, confidence)

StoreStep(s, c) ==
  \/ Enter(s, c) \/ CollectionExists(s, c) \/ CreateCollection(s, c)
  \/ CreateUserIndex(s, c) \/ CreateSessionIndex(s, c)
  \/ GetCollection(s, c) \/ DropIndex(s, c) \/ UpgradeIndex(s, c)
  \/ Search(s, c) \/ RetrieveOwner(s, c) \/ Upsert(s, c) \/ UpsertUnanswered(s, c)
  \/ EraseTier(s, c) \/ DeletePoints(s, c) \/ EraseFails(s, c)
  \/ RequestFails(s, c) \/ RequestUnanswered(s, c)

Init ==
  /\ clock = 0 /\ downUntil = 0 /\ ensured = {} /\ embedder = "unloaded"
  /\ \E before \in Indexes : index = [c \in Tiers |-> before]
  /\ session = {c \in Tiers : index[c] # "missing"}
  /\ points = {}
  /\ op = [s \in Slots |-> [NewOp("none", None, None, None, 2)
                            EXCEPT !.phase = "idle"]]
  /\ call = [s \in Slots |-> [c \in Tiers |-> "none"]]
  /\ erasing = [s \in Slots |-> {}]
  /\ faults = 0 /\ ops = 0

Next ==
  \/ Tick
  \/ \E s \in Slots :
       \/ Begin(s) \/ Embed(s) \/ Hydrated(s) \/ Deduplicated(s) \/ Finished(s)
       \/ \E c \in Tiers : StoreStep(s, c)

\* Every request has a timeout, so a thread that runs goes on.
Fairness ==
  \A s \in Slots :
    /\ WF_vars(Embed(s)) /\ WF_vars(Hydrated(s) \/ Deduplicated(s) \/ Finished(s))
    /\ \A c \in Tiers : WF_vars(StoreStep(s, c))

Spec == Init /\ [][Next]_vars /\ Fairness

---------------------------------------------------------------------------
\* Correctness

Place == Requests \cup {"none", "enter", "todo", "delete", "done"}

Phases   == {"idle", "embed", "search", "write", "erase", "over"}
Outcomes == {"none", "unembedded", "items", "unavailable", "no prior memory"}

Operation ==
  [kind : {"none", "hydrate", "record", "sync_wiki", "delete_user"},
   user : Users \cup {None}, tier : Tiers \cup {None}, text : Texts \cup {None},
   confidence : Confidence, number : 0 .. MaxOps, phase : Phases,
   point_id : Ids \cup {None}, hits : SUBSET Point, outcome : Outcomes,
   failed : SUBSET Tiers, skipped : BOOLEAN, loading : BOOLEAN]

TypeOK ==
  /\ clock \in 0 .. MaxTime /\ downUntil \in 0 .. MaxTime + Breaker
  /\ ensured \subseteq Tiers /\ session \subseteq Tiers
  /\ embedder \in {"unloaded", "loaded", "failed"}
  /\ index \in [Tiers -> {"missing", "none", "plain", "tenant"}]
  /\ points \subseteq Point
  /\ op \in [Slots -> Operation] /\ erasing \in [Slots -> SUBSET Point]
  /\ call \in [Slots -> [Tiers -> Place]]
  /\ faults \in 0 .. MaxFaults /\ ops \in 0 .. MaxOps

TenantIsolation ==
  /\ \A s \in Slots, p \in Point :
       p \in op[s].hits => p.user = op[s].user
  /\ \A p, q \in points : p.id = q.id => p.user = q.user

\* No operation ever sees or refreshes a memory of another user, even when
\* the filter of a query leaks one (store.search, store.upsert), and an id
\* names one memory of one user; and every variable has its type.
TenantInv == TypeOK /\ TenantIsolation

\* delete_user, when the breaker lets it start, removes every memory the
\* user had from every tier but those whose own requests failed, whatever
\* other turns write meanwhile.
ErasureReachesEveryTier ==
  \A s \in Slots :
    (op[s].kind = "delete_user" /\ op[s].phase = "over" /\ ~op[s].skipped) =>
      \A p \in erasing[s] \cap points : p.tier \in op[s].failed

\* A tier taken for ensured has its collection and the tenant index on it,
\* whichever requests failed on the way (_ensure). For one turn at a time.
EnsuredUsable == \A c \in ensured : index[c] = "tenant"

Beside(p, q) == p.tier = q.tier /\ p.user = q.user

\* As long as nothing fails, a tier never holds the same text of a user twice,
\* whatever was proposed before and refreshed since. For one turn at a time.
SameTextOnce ==
  faults = 0 =>
    \A p, q \in points : Beside(p, q) /\ p.text = q.text => p = q

\* As long as nothing fails, a memory is added only when no near-duplicate of
\* it is stored at that moment, though the search for one was two calls ago.
\* That two stored ones never become near-duplicates is not said: a refresh
\* moves the one it hits. For one turn at a time.
InsertsOnlyNews ==
  [][faults' = 0 =>
       \A q \in points' : (\A p \in points : p.id # q.id) =>
         \A p \in points : Beside(p, q) => <<p.text, q.text>> \notin Alike]_vars

\* Whatever fails, an operation ends: memory never takes a run down.
OperationsEnd ==
  \A s \in Slots : op[s].phase = "embed" ~> op[s].phase = "over"

---------------------------------------------------------------------------
\* Claims of the documentation, checked on their own

\* core/memory/ARCHITECTURE.md:102: "Memories converge, never multiply". Two
\* turns may search before either inserts, the breaker may skip the search and
\* not the insert, and a text near two memories that are not near each other
\* refreshes one of them and moves it next to the other.
MemoriesConverge ==
  \A p, q \in points : Beside(p, q) /\ <<p.text, q.text>> \in Alike => p = q

\* core/memory/ARCHITECTURE.md:62: both fields "get Qdrant keyword payload
\* indexes at collection creation".
SessionIndexed == ensured \subseteq session

\* core/memory/ARCHITECTURE.md:140: "delete_user() removes every point for a
\* user across all tiers, continuing past per-tier faults".
ErasureComplete ==
  \A s \in Slots :
    (op[s].kind = "delete_user" /\ op[s].phase = "over") =>
      \A p \in erasing[s] \cap points : p.tier \in op[s].failed

\* foundation/contracts/memory.py:58: "degraded=True means memory was wanted
\* but is temporarily unavailable", as opposed to a user without memory. The
\* breaker can keep the searches from asking and close before is_down looks.
HonestHydration ==
  \A s \in Slots : op[s].outcome = "no prior memory" => ~op[s].skipped

\* core/memory/ARCHITECTURE.md:119: "a dead store costs one timeout per window".
OneTimeoutPerWindow ==
  [][\A s \in Slots, c \in Tiers : RequestFails(s, c) => ~IsDown]_vars

\* core/memory/ARCHITECTURE.md:115: the model "is retried next call".
EmbedderRetried ==
  \A s \in Slots :
    op[s].outcome = "unembedded" => op[s].loading \/ embedder = "loaded"
============================================================================
