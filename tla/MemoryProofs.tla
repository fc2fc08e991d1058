---------------------------- MODULE MemoryProofs ----------------------------
(***************************************************************************)
(* Theorems about Memory: for any number of tasks, users and tiers and     *)
(* whatever fails, tenants stay apart and an erasure reaches every tier;   *)
(* for one turn at a time, an ensured tier is usable and, until a failure, *)
(* memories converge. The last part is about Hydration, the budget of the  *)
(* same manager's packages: about sums over finite sets, by induction over *)
(* the set, then what is allocated, then the inductive invariant.          *)
(***************************************************************************)
EXTENDS Memory, Hydration, Integers, FiniteSetTheorems, SequenceTheorems, WellFoundedInduction, TLAPS

\* The phases that lead to a write or a hydration, and the places of a store
\* function that has entered and not ended.
Asking  == {"embed", "search", "write"}
Calling == Requests \cup {"enter"}

\* An operation that has a vector to ask for, or has asked, is not an erasure;
\* only a write reaches the upsert.
PhaseFits(s) ==
  /\ op[s].phase \in Asking =>
       /\ op[s].number \in Ids /\ op[s].user \in Users /\ op[s].kind \notin {"none", "delete_user"}
       /\ op[s].kind # "hydrate" => op[s].text \in Texts
  /\ op[s].phase = "write" => op[s].kind # "hydrate"
  /\ op[s].phase = "erase" => op[s].kind = "delete_user"
  /\ op[s].kind = "delete_user" => op[s].phase \in {"erase", "over"} /\ op[s].user \in Users

\* Where a store function stands fits what its operation is doing.
PlaceFits(s, c) ==
  /\ call[s][c] \in Calling => op[s].phase \in {"search", "write"}
  /\ call[s][c] = "query" => op[s].phase = "search"
  /\ call[s][c] \in {"retrieve", "upsert"} => op[s].phase = "write"
  /\ call[s][c] \in {"todo", "delete"} => op[s].phase = "erase"

\* Type correctness, and what it needs to be inductive.
Shape ==
  /\ TypeOK
  /\ \A s \in Slots : PhaseFits(s)
  /\ \A s \in Slots, c \in Tiers : PlaceFits(s, c)

\* What an upsert writes (store.upsert) is a point of the tier it was called
\* for and of the user who asked.
LEMMA WrittenIsPoint ==
  ASSUME Shape, NEW s \in Slots, NEW c \in Tiers, At(s, c, "upsert")
  PROVE  Written(s, c) \in Point /\ Written(s, c).tier = c /\ Written(s, c).user = op[s].user
BY MemoryAssumption DEF Shape, TypeOK, PhaseFits, PlaceFits, Operation, Point, Written, At,
                        Asking, Ids, Calling, Requests

\* A counted failure stays within its bound, a trip of the breaker within the
\* clock's.
LEMMA FaultTyped ==
  ASSUME TypeOK PROVE /\ Fault => faults' \in 0 .. MaxFaults
                      /\ Trip => downUntil' \in 0 .. MaxTime + Breaker
BY MemoryAssumption DEF TypeOK, Fault, Trip

\* Goto moves one call and no other.
LEMMA GoneTo ==
  ASSUME TypeOK, NEW s \in Slots, NEW c \in Tiers, NEW place \in Place, Goto(s, c, place)
  PROVE  /\ call' \in [Slots -> [Tiers -> Place]]
         /\ call'[s][c] = place
         /\ \A t \in Slots, d \in Tiers : t # s \/ d # c => call'[t][d] = call[t][d]
BY DEF TypeOK, Goto

\* Two operations that agree on what later steps decide by.
SameOp(o, n) ==
  /\ n.kind = o.kind /\ n.user = o.user /\ n.tier = o.tier /\ n.text = o.text
  /\ n.number = o.number /\ n.phase = o.phase /\ n.point_id = o.point_id
  /\ n.confidence = o.confidence

\* The three fields a store function reports in keep an operation an
\* operation, and leave what later steps decide by.
LEMMA FieldReported ==
  ASSUME NEW o \in Operation, NEW b \in BOOLEAN, NEW h \in SUBSET Point, NEW f \in SUBSET Tiers
  PROVE  /\ [o EXCEPT !.skipped = b] \in Operation /\ SameOp(o, [o EXCEPT !.skipped = b])
         /\ [o EXCEPT !.hits = h] \in Operation /\ SameOp(o, [o EXCEPT !.hits = h])
         /\ [o EXCEPT !.failed = f] \in Operation /\ SameOp(o, [o EXCEPT !.failed = f])
<1>1. [o EXCEPT !.skipped = b] \in Operation /\ SameOp(o, [o EXCEPT !.skipped = b])
  BY DEF Operation, SameOp
<1>2. [o EXCEPT !.hits = h] \in Operation /\ SameOp(o, [o EXCEPT !.hits = h])
  BY DEF Operation, SameOp
<1>3. [o EXCEPT !.failed = f] \in Operation /\ SameOp(o, [o EXCEPT !.failed = f])
  BY DEF Operation, SameOp
<1> QED
  BY <1>1, <1>2, <1>3

\* The step of a store function leaves what its operation asks for.
SameAsking(s) ==
  /\ op' \in [Slots -> Operation]
  /\ \A t \in Slots : t # s => op'[t] = op[t]
  /\ SameOp(op[s], op'[s])

\* Whatever a store function reports, it reports to its own slot.
LEMMA Reported ==
  ASSUME TypeOK, NEW s \in Slots,
         \/ op' = op
         \/ op' = [op EXCEPT ![s].skipped = TRUE]
         \/ \E found \in SUBSET Point : op' = [op EXCEPT ![s].hits = found]
         \/ \E c \in Tiers : op' = [op EXCEPT ![s].failed = @ \cup {c}]
  PROVE  SameAsking(s)
<1>0. op \in [Slots -> Operation] /\ op[s] \in Operation
  BY DEF TypeOK
<1>1. CASE op' = op
  BY <1>0, <1>1 DEF SameAsking, SameOp
<1>2. CASE op' = [op EXCEPT ![s].skipped = TRUE]
  BY <1>0, <1>2, FieldReported DEF SameAsking
<1>3. CASE \E found \in SUBSET Point : op' = [op EXCEPT ![s].hits = found]
  BY <1>0, <1>3, FieldReported DEF SameAsking
<1>4. CASE \E c \in Tiers : op' = [op EXCEPT ![s].failed = @ \cup {c}]
  <2>1. PICK c \in Tiers : op' = [op EXCEPT ![s].failed = @ \cup {c}]
    BY <1>4
  <2>2. op[s].failed \cup {c} \in SUBSET Tiers
    BY <1>0 DEF Operation
  <2> QED
    BY <1>0, <2>1, <2>2, FieldReported DEF SameAsking
<1> QED
  BY <1>1, <1>2, <1>3, <1>4

\* Where a store function may go from a place between its entry and its end.
LEMMA Arrived ==
  ASSUME Shape, NEW s \in Slots, NEW c \in Tiers, SameAsking(s), NEW place, Goto(s, c, place),
         \/ place = "done"
         \/ /\ call[s][c] \in Calling
            /\ place \in {"exists", "create", "index_user", "index_session", "get",
                          "drop", "upgrade", Request(s)}
         \/ call[s][c] = "retrieve" /\ place = "upsert"
         \/ op[s].phase = "erase" /\ place = "delete"
  PROVE  /\ call' \in [Slots -> [Tiers -> Place]] /\ call'[s][c] = place
         /\ \A t \in Slots, d \in Tiers : t # s \/ d # c => call'[t][d] = call[t][d]
         /\ PlaceFits(s, c)'
<1>1. TypeOK /\ PlaceFits(s, c)
  BY DEF Shape
<1>2. /\ Request(s) \in {"query", "retrieve", "upsert"}
      /\ Request(s) = "query" => op[s].phase = "search"
      /\ op[s].phase = "search" => Request(s) = "query"
  BY DEF Request
<1>3. place \in Place
  BY <1>2 DEF Place, Requests
<1>4. /\ call' \in [Slots -> [Tiers -> Place]] /\ call'[s][c] = place
      /\ \A t \in Slots, d \in Tiers : t # s \/ d # c => call'[t][d] = call[t][d]
  BY <1>1, <1>3, GoneTo
<1>5. PlaceFits(s, c)'
  BY <1>1, <1>2, <1>4 DEF PlaceFits, SameAsking, SameOp, Calling, Requests
<1> QED
  BY <1>4, <1>5

\* Every step of a store function keeps the types, moves only its own call,
\* and leaves it where the operation's phase allows it to be.
LEMMA StoreShape ==
  ASSUME Shape, NEW s \in Slots, NEW c \in Tiers, StoreStep(s, c)
  PROVE  /\ TypeOK' /\ SameAsking(s) /\ PlaceFits(s, c)'
         /\ \A t \in Slots, d \in Tiers : t # s \/ d # c => call'[t][d] = call[t][d]
<1> USE DEF At, Degrade
<1> DEFINE Landed ==
             /\ call' \in [Slots -> [Tiers -> Place]] /\ SameAsking(s) /\ PlaceFits(s, c)'
             /\ \A t \in Slots, d \in Tiers : t # s \/ d # c => call'[t][d] = call[t][d]
<1>0. TypeOK /\ {"enter", "exists", "create", "index_user", "index_session", "get", "drop",
                 "upgrade", "query", "retrieve", "upsert"} = Calling
  BY DEF Shape, Calling, Requests
<1>1. CASE op' = op /\ ~(Enter(s, c) \/ Search(s, c) \/ EraseFails(s, c))
  <2>0. SameAsking(s)
    BY <1>0, <1>1, Reported
  <2>2. CASE CollectionExists(s, c)
    BY <1>0, <2>0, <2>2, Arrived DEF CollectionExists, TypeOK, SameAsking, store, qdrant
  <2>3. CASE CreateCollection(s, c)
    BY <1>0, <2>0, <2>3, Arrived, FaultTyped DEF CreateCollection, TypeOK, SameAsking
  <2>4. CASE CreateUserIndex(s, c)
    BY <1>0, <2>0, <2>4, Arrived DEF CreateUserIndex, TypeOK, SameAsking, store
  <2>5. CASE CreateSessionIndex(s, c)
    BY <1>0, <2>0, <2>5, Arrived DEF CreateSessionIndex, TypeOK, SameAsking
  <2>6. CASE GetCollection(s, c)
    BY <1>0, <2>0, <2>6, Arrived DEF GetCollection, TypeOK, SameAsking, qdrant
  <2>7. CASE DropIndex(s, c)
    BY <1>0, <2>0, <2>7, Arrived DEF DropIndex, TypeOK, SameAsking, store
  <2>8. CASE UpgradeIndex(s, c)
    BY <1>0, <2>0, <2>8, Arrived DEF UpgradeIndex, TypeOK, SameAsking
  <2>9. CASE RetrieveOwner(s, c)
    BY <1>0, <2>0, <2>9, Arrived DEF RetrieveOwner, TypeOK, SameAsking, store, qdrant
  <2>10. CASE Upsert(s, c) \/ UpsertUnanswered(s, c)
    <3>1. points' \subseteq Point /\ erasing' \in [Slots -> SUBSET Point]
      BY <1>0, <2>10, WrittenIsPoint DEF Upsert, UpsertUnanswered, ApplyUpsert, TypeOK
    <3> QED
      BY <1>0, <2>0, <2>10, <3>1, Arrived, FaultTyped
      DEF Upsert, UpsertUnanswered, TypeOK, SameAsking, store
  <2>11. CASE EraseTier(s, c)
    BY <1>0, <2>0, <2>11, Arrived DEF EraseTier, TypeOK, SameAsking, store, qdrant
  <2>12. CASE DeletePoints(s, c)
    BY <1>0, <2>0, <2>12, Arrived DEF DeletePoints, TypeOK, SameAsking, store
  <2>13. CASE RequestFails(s, c)
    BY <1>0, <2>0, <2>13, Arrived, FaultTyped DEF RequestFails, TypeOK, SameAsking, qdrant
  <2>14. CASE RequestUnanswered(s, c)
    BY <1>0, <2>0, <2>14, Arrived, FaultTyped DEF RequestUnanswered, TypeOK, SameAsking
  <2> QED
    BY StoreStep(s, c), <1>1, <2>2, <2>3, <2>4, <2>5, <2>6, <2>7, <2>8, <2>9, <2>10,
       <2>11, <2>12, <2>13, <2>14 DEF StoreStep
<1>2. CASE Enter(s, c)
  <2>0. CASE op' = [op EXCEPT ![s].skipped = TRUE] /\ Goto(s, c, "done")
    <3>1. SameAsking(s)
      BY <1>0, <2>0, Reported
    <3>2. Landed
      BY <1>0, <2>0, <3>1, Arrived
    <3>3. UNCHANGED <<clock, store, embedder, qdrant, erasing, faults, ops>>
      BY <1>2 DEF Enter
    <3> QED
      BY <1>0, <3>1, <3>2, <3>3 DEF TypeOK, SameAsking, store, qdrant
  <2>1. CASE op' = op
    <3>1. SameAsking(s)
      BY <1>0, <2>1, Reported
    <3> QED
      BY <1>0, <1>2, <2>1, <3>1, Arrived DEF Enter, TypeOK, SameAsking, store, qdrant
  <2> QED
    BY <1>2, <2>0, <2>1 DEF Enter
<1>3. CASE Search(s, c)
  <2> DEFINE Scope(leaks) == {p \in points : p.tier = c /\ (leaks \/ p.user = op[s].user)}
             Close(leaks) == Nearest(Scope(leaks), op[s].text)
  <2>0. PICK leaks \in BOOLEAN :
             /\ IF leaks THEN Fault ELSE UNCHANGED faults
             /\ \E found \in IF op[s].kind = "hydrate" THEN {Scope(leaks)}
                             ELSE {{p} : p \in Close(leaks)} \cup (IF Close(leaks) = {} THEN {{}} ELSE {}) :
                  op' = [op EXCEPT ![s].hits = @ \cup Verified(found, op[s].user)]
    BY <1>3 DEF Search
  <2>9. \A b \in BOOLEAN : Close(b) \subseteq points
    BY DEF Nearest
  <2> HIDE DEF Close
  <2>1. PICK found \in SUBSET points :
             op' = [op EXCEPT ![s].hits = @ \cup Verified(found, op[s].user)]
    BY <2>0, <2>9
  <2>2. op[s].hits \cup Verified(found, op[s].user) \in SUBSET Point
    BY <1>0 DEF TypeOK, Verified, Operation
  <2>3. SameAsking(s)
    BY <1>0, <2>1, <2>2, Reported
  <2> QED
    BY <1>0, <1>3, <2>0, <2>3, Arrived, FaultTyped DEF Search, TypeOK, SameAsking, store, qdrant
<1>4. CASE EraseFails(s, c)
  <2>1. SameAsking(s)
    BY <1>0, <1>4, Reported DEF EraseFails
  <2>2. op[s].phase = "erase" /\ Goto(s, c, "done")
    BY <1>4 DEF EraseFails
  <2>3. Landed
    BY <1>0, <2>1, <2>2, Arrived
  <2>4. /\ faults' \in 0 .. MaxFaults /\ downUntil' \in 0 .. MaxTime + Breaker
        /\ UNCHANGED <<clock, ensured, embedder, qdrant, erasing, ops>>
    BY <1>0, <1>4, FaultTyped DEF EraseFails
  <2> QED
    BY <1>0, <2>1, <2>3, <2>4 DEF TypeOK, SameAsking, qdrant
<1> QED
  BY StoreStep(s, c), <1>1, <1>2, <1>3, <1>4
  DEF StoreStep, CollectionExists, CreateCollection, CreateUserIndex, CreateSessionIndex,
      GetCollection, DropIndex, UpgradeIndex, RetrieveOwner, Upsert, UpsertUnanswered, EraseTier,
      DeletePoints, RequestFails, RequestUnanswered

\* A step of one slot that leaves it in shape leaves all slots in shape.
LEMMA OneSlot ==
  ASSUME Shape, TypeOK', NEW s \in Slots,
         \A t \in Slots : t # s => op'[t] = op[t] /\ call'[t] = call[t],
         PhaseFits(s)', \A c \in Tiers : PlaceFits(s, c)'
  PROVE  Shape'
BY DEF Shape, PhaseFits, PlaceFits

\* The steps of the store functions keep Shape.
LEMMA StoreKeepsShape ==
  ASSUME Shape, NEW s \in Slots, NEW c \in Tiers, StoreStep(s, c)
  PROVE  Shape'
<1>1. /\ TypeOK' /\ SameAsking(s) /\ PlaceFits(s, c)'
      /\ \A t \in Slots, d \in Tiers : t # s \/ d # c => call'[t][d] = call[t][d]
  BY StoreShape
<1>2. ASSUME NEW t \in Slots PROVE PhaseFits(t)'
  BY <1>1 DEF Shape, PhaseFits, SameAsking, SameOp
<1>3. ASSUME NEW t \in Slots, NEW d \in Tiers PROVE PlaceFits(t, d)'
  <2>1. CASE t = s /\ d = c
    BY <1>1, <2>1
  <2>2. CASE t # s \/ d # c
    <3>1. call'[t][d] = call[t][d] /\ op'[t].phase = op[t].phase
      BY <1>1, <2>2 DEF SameAsking, SameOp
    <3> QED
      BY <3>1 DEF Shape, PlaceFits
  <2> QED
    BY <2>1, <2>2
<1> QED
  BY <1>1, <1>2, <1>3 DEF Shape

\* What NewOp promises.
Fresh(o, kind, user, tier, text, conf) ==
  /\ o \in Operation /\ o.kind = kind /\ o.user = user /\ o.tier = tier /\ o.text = text
  /\ o.phase = "embed" /\ o.number = 0 /\ o.hits = {} /\ o.point_id = None
  /\ o.confidence = conf /\ o.skipped = FALSE

\* An operation starts with what it was asked for, and has seen nothing.
LEMMA NewOpTyped ==
  ASSUME NEW kind \in {"none", "hydrate", "record", "sync_wiki", "delete_user"},
         NEW user \in Users \cup {None}, NEW tier \in Tiers \cup {None},
         NEW text \in Texts \cup {None}, NEW conf \in Confidence
  PROVE  Fresh(NewOp(kind, user, tier, text, conf), kind, user, tier, text, conf)
<1>1. {} \subseteq Point /\ {} \subseteq Tiers /\ 0 \in 0 .. MaxOps
  BY MemoryAssumption
<1> QED
  BY <1>1 DEF NewOp, Operation, Phases, Outcomes, Fresh

\* The manager moves an operation on and leaves what it was asked for.
SameRequest(o, n) ==
  /\ n.kind = o.kind /\ n.user = o.user /\ n.tier = o.tier /\ n.text = o.text
  /\ n.number = o.number /\ n.hits = o.hits /\ n.failed = o.failed /\ n.skipped = o.skipped

\* One operation is another one further on.
Moved(o, n, ph) == n \in Operation /\ SameRequest(o, n) /\ n.phase = ph

\* Moving an operation to another phase changes no more.
LEMMA Phased ==
  ASSUME NEW o \in Operation, NEW ph \in Phases
  PROVE  Moved(o, [o EXCEPT !.phase = ph], ph) /\ [o EXCEPT !.phase = ph].point_id = o.point_id
BY DEF Operation, SameRequest, Moved

\* So does noting whether it loaded the embedding model.
LEMMA PhasedLoading ==
  ASSUME NEW o \in Operation, NEW ph \in Phases, NEW b \in BOOLEAN
  PROVE  LET n == [o EXCEPT !.phase = ph, !.loading = b]
         IN  Moved(o, n, ph) /\ n.point_id = o.point_id
BY DEF Operation, SameRequest, Moved

\* So does noting its outcome.
LEMMA PhasedOutcome ==
  ASSUME NEW o \in Operation, NEW ph \in Phases, NEW out \in Outcomes
  PROVE  LET n == [o EXCEPT !.phase = ph, !.outcome = out]
         IN  Moved(o, n, ph) /\ n.point_id = o.point_id
BY DEF Operation, SameRequest, Moved

\* What the manager's own steps do to the slot that takes them.
MovesOn(s) ==
  /\ op' \in [Slots -> Operation] /\ call' \in [Slots -> [Tiers -> Place]]
  /\ \A t \in Slots : t # s => op'[t] = op[t] /\ call'[t] = call[t]
  /\ SameRequest(op[s], op'[s])

\* A step that replaces the operation of a slot by one of the same request.
LEMMA MovedOn ==
  ASSUME TypeOK, NEW s \in Slots, NEW n \in Operation, SameRequest(op[s], n),
         op' = [op EXCEPT ![s] = n],
         \/ call' = call
         \/ \E f \in [Tiers -> Place] : call' = [call EXCEPT ![s] = f]
  PROVE  MovesOn(s) /\ op'[s] = n
BY DEF TypeOK, MovesOn

\* Embed sends an operation to its searches, or ends it.
LEMMA EmbedMoves ==
  ASSUME TypeOK, NEW s \in Slots, Embed(s)
  PROVE  /\ MovesOn(s) /\ op'[s].point_id = op[s].point_id
         /\ \/ op'[s].phase = "search" /\ call' = [call EXCEPT ![s] =
                 [c \in Tiers |-> IF c \in Searches(s) THEN "enter" ELSE "none"]]
            \/ op'[s].phase = "over" /\ call' = call
<1>0. op[s] \in Operation /\ "search" \in Phases /\ "over" \in Phases /\ "unembedded" \in Outcomes
  BY DEF TypeOK, Phases, Outcomes
<1> DEFINE loads == embedder = "unloaded"
<1>1. loads \in BOOLEAN
  OBVIOUS
<1> HIDE DEF loads
<1>2. CASE Embedded(s)
  <2> DEFINE n == [op[s] EXCEPT !.phase = "search", !.loading = loads]
             f == [c \in Tiers |-> IF c \in Searches(s) THEN "enter" ELSE "none"]
  <2>1. Moved(op[s], n, "search") /\ n.point_id = op[s].point_id
    BY <1>0, <1>1, PhasedLoading
  <2>2. op' = [op EXCEPT ![s] = n] /\ call' = [call EXCEPT ![s] = f]
    BY <1>2 DEF Embedded, loads
  <2>3. f \in [Tiers -> Place]
    BY DEF Place
  <2> QED
    BY <2>1, <2>2, <2>3, MovedOn DEF Moved
<1>3. CASE NotEmbedded(s)
  <2> DEFINE n == [op[s] EXCEPT !.phase = "over", !.outcome = "unembedded", !.loading = loads]
  <2>1. Moved(op[s], n, "over") /\ n.point_id = op[s].point_id
    BY <1>0, <1>1 DEF Operation, SameRequest, Moved
  <2>2. op' = [op EXCEPT ![s] = n] /\ call' = call
    BY <1>3 DEF NotEmbedded, loads
  <2> QED
    BY <2>1, <2>2, MovedOn DEF Moved
<1> QED
  BY <1>2, <1>3 DEF Embed

\* Hydrated ends a hydrate.
LEMMA HydratedMoves ==
  ASSUME TypeOK, NEW s \in Slots, Hydrated(s)
  PROVE  /\ MovesOn(s) /\ op'[s].point_id = op[s].point_id
         /\ op'[s].phase = "over" /\ call' = call
<1> DEFINE out == IF op[s].hits # {} THEN "items"
                  ELSE IF IsDown THEN "unavailable" ELSE "no prior memory"
           n == [op[s] EXCEPT !.phase = "over", !.outcome = out]
<1>1. op[s] \in Operation /\ "over" \in Phases /\ out \in Outcomes
  BY DEF TypeOK, Phases, Outcomes
<1>2. op' = [op EXCEPT ![s] = n] /\ call' = call
  BY DEF Hydrated
<1> HIDE DEF out
<1>3. Moved(op[s], n, "over") /\ n.point_id = op[s].point_id
  BY <1>1, PhasedOutcome
<1> QED
  BY <1>2, <1>3, MovedOn DEF Moved

\* Finished ends a write or an erasure.
LEMMA FinishedMoves ==
  ASSUME TypeOK, NEW s \in Slots, Finished(s)
  PROVE  /\ MovesOn(s) /\ op'[s].point_id = op[s].point_id
         /\ op'[s].phase = "over" /\ call' = call
<1> DEFINE n == [op[s] EXCEPT !.phase = "over"]
<1>1. op[s] \in Operation /\ "over" \in Phases
  BY DEF TypeOK, Phases
<1>2. op' = [op EXCEPT ![s] = n] /\ call' = call
  BY DEF Finished
<1>3. Moved(op[s], n, "over") /\ n.point_id = op[s].point_id
  BY <1>1, Phased
<1> QED
  BY <1>2, <1>3, MovedOn DEF Moved

\* Deduplicated sends an operation on to write, under the id of one of its
\* hits or a fresh one.
LEMMA DeduplicatedMoves ==
  ASSUME TypeOK, NEW s \in Slots, Deduplicated(s)
  PROVE  /\ MovesOn(s) /\ op'[s].phase = "write"
         /\ \/ op[s].hits = {} /\ op'[s].point_id = op[s].point_id
            \/ \E p \in op[s].hits : op'[s].point_id = p.id
         /\ call' = [call EXCEPT ![s] = [@ EXCEPT ![op[s].tier] = "enter"]]
<1>1. op[s] \in Operation /\ "write" \in Phases /\ "enter" \in Place
  BY DEF TypeOK, Phases, Place
<1>2. call' = [call EXCEPT ![s] = [call[s] EXCEPT ![op[s].tier] = "enter"]]
      /\ [call[s] EXCEPT ![op[s].tier] = "enter"] \in [Tiers -> Place]
  BY <1>1 DEF Deduplicated, TypeOK
<1>3. CASE op[s].hits = {} /\ op' = [op EXCEPT ![s].phase = "write"]
  <2> DEFINE n == [op[s] EXCEPT !.phase = "write"]
  <2>1. Moved(op[s], n, "write") /\ n.point_id = op[s].point_id
    BY <1>1, Phased
  <2>2. op' = [op EXCEPT ![s] = n]
    BY <1>3
  <2> QED
    BY <1>2, <1>3, <2>1, <2>2, MovedOn DEF Moved
<1>4. CASE \E p \in op[s].hits :
             op' = [op EXCEPT ![s] = [@ EXCEPT !.phase = "write", !.point_id = p.id,
                                               !.confidence = Refreshed(op[s].confidence, p.confidence)]]
  <2>1. PICK p \in op[s].hits :
             op' = [op EXCEPT ![s] = [@ EXCEPT !.phase = "write", !.point_id = p.id,
                                               !.confidence = Refreshed(op[s].confidence, p.confidence)]]
    BY <1>4, Zenon
  <2> DEFINE conf == Refreshed(op[s].confidence, p.confidence)
             n == [op[s] EXCEPT !.phase = "write", !.point_id = p.id, !.confidence = conf]
  <2>2. p.id \in Ids /\ conf \in Confidence
    BY <1>1 DEF Operation, Point, Refreshed
  <2>3. op' = [op EXCEPT ![s] = n]
    BY <2>1, Zenon
  <2> HIDE DEF conf
  <2>4. Moved(op[s], n, "write") /\ n.point_id = p.id
    BY <1>1, <2>2 DEF Operation, SameRequest, Moved
  <2> QED
    BY <1>2, <2>3, <2>4, MovedOn DEF Moved
<1> QED
  BY <1>3, <1>4 DEF Deduplicated

\* What a new operation is: its number is fresh, it has seen and named nothing.
Begun(s) ==
  /\ op' \in [Slots -> Operation] /\ call' \in [Slots -> [Tiers -> Place]]
  /\ \A t \in Slots : t # s => op'[t] = op[t] /\ call'[t] = call[t]
  /\ ops < MaxOps /\ ops' = ops + 1 /\ Idle(s)
  /\ op'[s].user \in Users /\ op'[s].hits = {} /\ op'[s].point_id = None
  /\ UNCHANGED <<clock, store, embedder, qdrant, faults>>

\* ... one that will need a vector,
BegunAsking(s) ==
  /\ Begun(s) /\ erasing' = erasing
  /\ op'[s].phase = "embed" /\ op'[s].number = ops + 1
  /\ op'[s].kind \in {"hydrate", "record", "sync_wiki"}
  /\ op'[s].kind # "hydrate" => op'[s].text \in Texts /\ op'[s].tier \in Tiers
  /\ \A c \in Tiers : call'[s][c] = "none"

\* ... and an erasure.
BegunErasing(s) ==
  /\ Begun(s) /\ op'[s].phase = "erase" /\ op'[s].number = 0
  /\ op'[s].kind = "delete_user" /\ op'[s].skipped = IsDown
  /\ erasing' = [erasing EXCEPT ![s] = {p \in points : p.user = op'[s].user}]
  /\ \A c \in Tiers : call'[s][c] = IF IsDown THEN "done" ELSE "todo"

\* Starting an operation that needs a vector.
LEMMA StartMoves ==
  ASSUME TypeOK, NEW s \in Slots, NEW user \in Users,
         NEW kind \in {"hydrate", "record", "sync_wiki"},
         NEW tier \in Tiers \cup {None}, NEW text \in Texts \cup {None}, NEW conf \in Confidence,
         kind # "hydrate" => text \in Texts /\ tier \in Tiers,
         Start(s, NewOp(kind, user, tier, text, conf)),
         UNCHANGED <<clock, store, embedder, qdrant, erasing, faults>>
  PROVE  BegunAsking(s)
<1> DEFINE o == NewOp(kind, user, tier, text, conf)
           n == [o EXCEPT !.number = ops + 1]
           f == [c \in Tiers |-> "none"]
<1>0. /\ user \in Users \cup {None}
      /\ kind \in {"none", "hydrate", "record", "sync_wiki", "delete_user"}
  OBVIOUS
<1>1. Fresh(o, kind, user, tier, text, conf)
  BY <1>0, NewOpTyped
<1>2. ops < MaxOps /\ ops + 1 \in 0 .. MaxOps
  BY MemoryAssumption DEF TypeOK, Start
<1>3. op' = [op EXCEPT ![s] = n] /\ call' = [call EXCEPT ![s] = f] /\ f \in [Tiers -> Place]
      /\ ops' = ops + 1 /\ Idle(s)
  BY DEF Start, Place
<1> HIDE DEF o
<1>4. /\ n \in Operation /\ n.kind = kind /\ n.user = user /\ n.tier = tier /\ n.text = text
      /\ n.phase = "embed" /\ n.hits = {} /\ n.point_id = None /\ n.number = ops + 1
  BY <1>1, <1>2 DEF Operation, Fresh
<1> HIDE DEF n
<1> QED
  BY <1>2, <1>3, <1>4 DEF TypeOK, BegunAsking, Begun

\* Starting an erasure.
LEMMA DeleteUserMoves ==
  ASSUME TypeOK, NEW s \in Slots, NEW user \in Users, DeleteUser(s, user)
  PROVE  BegunErasing(s)
<1> DEFINE down == IsDown
           o == NewOp("delete_user", user, None, None, 2)
           n == [o EXCEPT !.phase = "erase", !.skipped = down]
           f == [c \in Tiers |-> IF down THEN "done" ELSE "todo"]
<1>0. user \in Users \cup {None} /\ None \in Tiers \cup {None} /\ None \in Texts \cup {None}
      /\ "delete_user" \in {"none", "hydrate", "record", "sync_wiki", "delete_user"}
      /\ 2 \in Confidence
  BY MemoryAssumption
<1>1. Fresh(o, "delete_user", user, None, None, 2)
  BY <1>0, NewOpTyped
<1>2. ops < MaxOps /\ Idle(s) /\ ops' = ops + 1 /\ down \in BOOLEAN
  BY DEF DeleteUser, IsDown
<1>3. /\ op' = [op EXCEPT ![s] = n] /\ call' = [call EXCEPT ![s] = f] /\ f \in [Tiers -> Place]
      /\ erasing' = [erasing EXCEPT ![s] = {p \in points : p.user = user}]
      /\ UNCHANGED <<clock, store, embedder, qdrant, faults>>
  BY DEF DeleteUser, Place
<1> HIDE DEF o, down
<1>4. /\ n \in Operation /\ n.kind = "delete_user" /\ n.user = user /\ n.phase = "erase"
      /\ n.hits = {} /\ n.point_id = None /\ n.number = 0 /\ n.skipped = down
  BY <1>1, <1>2 DEF Operation, Phases, Fresh
<1> HIDE DEF n
<1>5. Begun(s) /\ op'[s] = n /\ call'[s] = f
  BY <1>2, <1>3, <1>4 DEF TypeOK, Begun
<1>6. op'[s].skipped = IsDown /\ \A c \in Tiers : call'[s][c] = IF IsDown THEN "done" ELSE "todo"
  BY <1>4, <1>5 DEF down
<1> QED
  BY <1>3, <1>4, <1>5, <1>6 DEF BegunErasing

\* Every operation starts one way or the other.
LEMMA BeginMoves ==
  ASSUME TypeOK, NEW s \in Slots, Begin(s)
  PROVE  BegunAsking(s) \/ BegunErasing(s)
<1>0. 2 \in Confidence
  BY MemoryAssumption
<1>1. ASSUME NEW user \in Users, DeleteUser(s, user) PROVE BegunErasing(s)
  BY <1>1, DeleteUserMoves
<1>2. ASSUME NEW user \in Users, Hydrate(s, user) PROVE BegunAsking(s)
  BY <1>0, <1>2, StartMoves DEF Hydrate
<1>3. ASSUME NEW user \in Users, NEW text \in Texts, SyncWiki(s, user, text) PROVE BegunAsking(s)
  BY <1>0, <1>3, StartMoves DEF SyncWiki
<1>4. ASSUME NEW user \in Users, NEW text \in Texts, NEW tier, NEW conf \in Confidence,
             Record(s, user, tier, text, conf)
      PROVE  BegunAsking(s)
  BY <1>4, StartMoves DEF Record
<1> QED
  BY <1>1, <1>2, <1>3, <1>4 DEF Begin

\* The manager moves on only operations whose store functions are through.
ManagerStep(s) == Embed(s) \/ Hydrated(s) \/ Deduplicated(s) \/ Finished(s)

\* An operation that asks nothing of the store has no call under way.
LEMMA Waiting ==
  ASSUME Shape, NEW s \in Slots, op[s].phase \in {"idle", "embed", "over"} \/ CallsDone(s)
  PROVE  \A c \in Tiers : call[s][c] \in {"none", "done"}
BY DEF Shape, TypeOK, Place, PlaceFits, CallsDone, Calling

\* The manager's own steps keep Shape.
LEMMA ManagerKeepsShape ==
  ASSUME Shape, NEW s \in Slots, ManagerStep(s)
  PROVE  Shape'
<1>1. TypeOK
  BY DEF Shape
<1>2. MovesOn(s)
  BY <1>1, EmbedMoves, HydratedMoves, DeduplicatedMoves, FinishedMoves DEF ManagerStep
<1>3. PhaseFits(s) /\ \A c \in Tiers : PlaceFits(s, c) /\ call[s][c] \in {"none", "done"}
  <2>1. op[s].phase = "embed" \/ CallsDone(s)
    BY DEF ManagerStep, Embed, Hydrated, Deduplicated, Finished
  <2> QED
    BY <2>1, Waiting DEF Shape
<1>4. CASE Embed(s)
  <2>1. \/ op'[s].phase = "search" /\ call' = [call EXCEPT ![s] =
               [c \in Tiers |-> IF c \in Searches(s) THEN "enter" ELSE "none"]]
        \/ op'[s].phase = "over" /\ call' = call
    BY <1>1, <1>4, EmbedMoves
  <2>2. \A c \in Tiers :
          (call'[s][c] \in {"none", "done"}) \/ (op'[s].phase = "search" /\ call'[s][c] = "enter")
    <3> DEFINE f == [c \in Tiers |-> IF c \in Searches(s) THEN "enter" ELSE "none"]
    <3>1. call \in [Slots -> [Tiers -> Place]]
      BY <1>1 DEF TypeOK
    <3>0. \A c \in Tiers : call[s][c] \in {"none", "done"}
      BY <1>3
    <3>2. CASE call' = call
      BY <3>0, <3>2
    <3>3. CASE op'[s].phase = "search" /\ call' = [call EXCEPT ![s] = f]
      <4>1. call'[s] = f
        BY <3>1, <3>3
      <4>2. op'[s].phase = "search"
        BY <3>3
      <4>3. \A c \in Tiers : call'[s][c] \in {"none", "enter"}
        BY <4>1
      <4> HIDE DEF f
      <4> QED
        BY <4>2, <4>3
    <3> QED
      BY <2>1, <3>2, <3>3
  <2>3. PhaseFits(s)' /\ \A c \in Tiers : PlaceFits(s, c)'
    BY <1>2, <1>3, <1>4, <2>1, <2>2
    DEF PhaseFits, PlaceFits, MovesOn, SameRequest, Embed, Asking, Calling, Requests
  <2>4. embedder' \in {"unloaded", "loaded", "failed"} /\ faults' \in 0 .. MaxFaults
        /\ UNCHANGED <<clock, store, qdrant, erasing, ops>>
    BY <1>1, <1>4, FaultTyped DEF Embed, TypeOK
  <2>5. TypeOK'
    BY <1>1, <1>2, <2>4 DEF TypeOK, MovesOn, store, qdrant
  <2> QED
    BY <1>2, <2>3, <2>5, OneSlot DEF MovesOn
<1>5. CASE Hydrated(s) \/ Finished(s)
  <2>1. op'[s].phase = "over" /\ call' = call
    BY <1>1, <1>5, HydratedMoves, FinishedMoves
  <2>2. PhaseFits(s)' /\ \A c \in Tiers : PlaceFits(s, c)'
    BY <1>2, <1>3, <1>5, <2>1
    DEF PhaseFits, PlaceFits, MovesOn, SameRequest, Asking, Calling, Requests
  <2>3. TypeOK'
    BY <1>1, <1>2, <1>5 DEF Hydrated, Finished, TypeOK, MovesOn, store, qdrant
  <2> QED
    BY <1>2, <2>2, <2>3, OneSlot DEF MovesOn
<1>6. CASE Deduplicated(s)
  <2>1. op'[s].phase = "write" /\ call' = [call EXCEPT ![s] = [@ EXCEPT ![op[s].tier] = "enter"]]
    BY <1>1, <1>6, DeduplicatedMoves
  <2>2. \A c \in Tiers : call'[s][c] \in {"none", "done", "enter"}
    BY <1>1, <1>3, <2>1 DEF TypeOK
  <2>3. PhaseFits(s)' /\ \A c \in Tiers : PlaceFits(s, c)'
    BY <1>2, <1>3, <1>6, <2>1, <2>2
    DEF PhaseFits, PlaceFits, MovesOn, SameRequest, Deduplicated, Asking, Calling, Requests
  <2>4. TypeOK'
    BY <1>1, <1>2, <1>6 DEF Deduplicated, TypeOK, MovesOn, store, qdrant
  <2> QED
    BY <1>2, <2>3, <2>4, OneSlot DEF MovesOn
<1> QED
  BY <1>4, <1>5, <1>6 DEF ManagerStep

\* The start of an operation keeps Shape.
LEMMA BeginKeepsShape ==
  ASSUME Shape, NEW s \in Slots, Begin(s)
  PROVE  Shape'
<1>1. TypeOK
  BY DEF Shape
<1>2. BegunAsking(s) \/ BegunErasing(s)
  BY <1>1, BeginMoves
<1>3. Begun(s) /\ ops' \in 0 .. MaxOps /\ ops + 1 \in Ids
  BY <1>1, <1>2, MemoryAssumption DEF BegunAsking, BegunErasing, Begun, TypeOK, Ids
<1>4. erasing' \in [Slots -> SUBSET Point]
  BY <1>1, <1>2 DEF BegunAsking, BegunErasing, TypeOK
<1>5. TypeOK'
  BY <1>1, <1>3, <1>4 DEF Begun, TypeOK, store, qdrant
<1>6. PhaseFits(s)'
  BY <1>2, <1>3 DEF BegunAsking, BegunErasing, Begun, PhaseFits, Asking
<1>7. \A c \in Tiers : PlaceFits(s, c)'
  BY <1>2 DEF BegunAsking, BegunErasing, PlaceFits, Calling, Requests
<1> QED
  BY <1>3, <1>5, <1>6, <1>7, OneSlot DEF Begun

\* At the start of the process every slot is idle.
LEMMA IdleInit ==
  ASSUME Init, NEW s \in Slots
  PROVE  /\ op \in [Slots -> Operation] /\ op[s].phase = "idle" /\ op[s].kind = "none"
         /\ op[s].hits = {} /\ op[s].number = 0 /\ op[s].point_id = None
         /\ call[s] = [c \in Tiers |-> "none"]
<1> DEFINE o == NewOp("none", None, None, None, 2)
           n == [o EXCEPT !.phase = "idle"]
<1>1. Fresh(o, "none", None, None, None, 2)
  BY NewOpTyped, MemoryAssumption
<1>2. op = [t \in Slots |-> n] /\ call = [t \in Slots |-> [c \in Tiers |-> "none"]]
  BY DEF Init
<1>3. /\ n \in Operation /\ n.phase = "idle" /\ n.kind = "none"
      /\ n.hits = {} /\ n.number = 0 /\ n.point_id = None
  <2> HIDE DEF o
  <2> QED
    BY <1>1 DEF Fresh, Operation, Phases
<1> HIDE DEF n
<1> QED
  BY <1>2, <1>3

\* Shape holds at the start of the process.
LEMMA ShapeInit ==
  ASSUME Init
  PROVE  Shape
<1>4. PICK before \in Indexes : index = [c \in Tiers |-> before]
  BY DEF Init
<1>5. index \in [Tiers -> {"missing", "none", "plain", "tenant"}]
  BY <1>4, MemoryAssumption
<1>6. /\ clock \in 0 .. MaxTime /\ downUntil \in 0 .. MaxTime + Breaker
      /\ faults \in 0 .. MaxFaults /\ ops \in 0 .. MaxOps
      /\ ensured \subseteq Tiers /\ session \subseteq Tiers /\ points \subseteq Point
      /\ embedder \in {"unloaded", "loaded", "failed"}
  BY MemoryAssumption DEF Init
<1>7. erasing \in [Slots -> SUBSET Point]
  BY DEF Init
<1>8. op \in [Slots -> Operation] /\ call \in [Slots -> [Tiers -> Place]]
  BY IdleInit DEF Init, Place
<1>9. TypeOK
  BY <1>5, <1>6, <1>7, <1>8 DEF TypeOK
<1> QED
  BY <1>9, IdleInit DEF Shape, PhaseFits, PlaceFits, Asking, Calling, Requests

\* Every step keeps Shape: with ShapeInit, type correctness.
LEMMA ShapeStep ==
  ASSUME Shape, [Next]_vars
  PROVE  Shape'
<1>1. CASE UNCHANGED vars
  BY <1>1 DEF Shape, TypeOK, PhaseFits, PlaceFits, vars, store, qdrant
<1>2. CASE Tick
  BY <1>2, MemoryAssumption DEF Tick, Shape, TypeOK, PhaseFits, PlaceFits, store, qdrant
<1>3. ASSUME NEW s \in Slots, Begin(s) PROVE Shape'
  BY <1>3, BeginKeepsShape
<1>4. ASSUME NEW s \in Slots, ManagerStep(s) PROVE Shape'
  BY <1>4, ManagerKeepsShape
<1>5. ASSUME NEW s \in Slots, NEW c \in Tiers, StoreStep(s, c) PROVE Shape'
  BY <1>5, StoreKeepsShape
<1> QED
  BY <1>1, <1>2, <1>3, <1>4, <1>5 DEF Next, ManagerStep

---------------------------------------------------------------------------
\* Tenant isolation

\* An id belongs to a user who has a point with it, holds a hit with it, or
\* runs an operation that will write under it.
Claimed(i, u) ==
  \/ \E p \in points : p.id = i /\ p.user = u
  \/ \E s \in Slots :
       \/ \E p \in op[s].hits : p.id = i /\ p.user = u
       \/ op[s].user = u /\ (op[s].number = i \/ op[s].point_id = i)

\* An id has one owner, and the ids to come have none.
OneOwner ==
  \A i \in Ids, u \in Users :
    Claimed(i, u) => i <= ops /\ \A v \in Users : Claimed(i, v) => u = v

\* An operation holds hits of its own user.
OwnHits == \A s \in Slots : \A p \in op[s].hits : p.user = op[s].user

\* The inductive invariant of tenant isolation.
Owned == Shape /\ OneOwner /\ OwnHits

\* A step after which nobody claims an id who did not before keeps OneOwner.
LEMMA NoNewClaim ==
  ASSUME TypeOK, OneOwner, ops' \in Nat, ops <= ops',
         \A i \in Ids, u \in Users : Claimed(i, u)' => Claimed(i, u)
  PROVE  OneOwner'
BY DEF OneOwner, TypeOK, Ids

\* A store function stores under an id its operation already claims, and keeps
\* only hits of the user who asked: Verified sees to it even when the query's
\* filter leaks.
LEMMA StoreClaims ==
  ASSUME Shape, NEW s \in Slots, NEW c \in Tiers, StoreStep(s, c)
  PROVE  /\ \A p \in points' : p \in points \/ (/\ p.user = op[s].user
                                                /\ p.id \in {op[s].number, op[s].point_id})
         /\ \A p \in op'[s].hits : p \in op[s].hits \/ (p \in points /\ p.user = op[s].user)
<1>0. TypeOK /\ op[s] \in Operation
  BY DEF Shape, TypeOK
<1>1. CASE Upsert(s, c) \/ UpsertUnanswered(s, c)
  <2>1. Written(s, c).user = op[s].user /\ Written(s, c).id \in {op[s].number, op[s].point_id}
    BY DEF Written
  <2>2. op' = op /\ points' \subseteq points \cup {Written(s, c)}
    BY <1>1 DEF Upsert, UpsertUnanswered, ApplyUpsert, Degrade
  <2> QED
    BY <2>1, <2>2
<1>2. CASE Search(s, c)
  <2> DEFINE Scope(leaks) == {p \in points : p.tier = c /\ (leaks \/ p.user = op[s].user)}
             Close(leaks) == Nearest(Scope(leaks), op[s].text)
  <2>1. PICK leaks \in BOOLEAN :
             \E found \in IF op[s].kind = "hydrate" THEN {Scope(leaks)}
                             ELSE {{p} : p \in Close(leaks)} \cup (IF Close(leaks) = {} THEN {{}} ELSE {}) :
                  op' = [op EXCEPT ![s].hits = @ \cup Verified(found, op[s].user)]
    BY <1>2 DEF Search
  <2>9. \A b \in BOOLEAN : Close(b) \subseteq points
    BY DEF Nearest
  <2> HIDE DEF Close
  <2>2. PICK found \in SUBSET points :
             op' = [op EXCEPT ![s].hits = @ \cup Verified(found, op[s].user)]
    BY <2>1, <2>9
  <2>3. op'[s].hits = op[s].hits \cup Verified(found, op[s].user)
    BY <1>0, <2>2 DEF TypeOK, Operation
  <2>4. points' = points
    BY <1>2 DEF Search, qdrant
  <2> QED
    BY <2>3, <2>4 DEF Verified
<1>3. CASE Enter(s, c) \/ EraseFails(s, c) \/ RequestFails(s, c) \/ RequestUnanswered(s, c)
  <2>1. op'[s].hits = op[s].hits
    BY <1>0, <1>3 DEF Enter, EraseFails, RequestFails, RequestUnanswered, Degrade, TypeOK, Operation
  <2>2. points' = points
    BY <1>3 DEF Enter, EraseFails, RequestFails, RequestUnanswered, qdrant
  <2> QED
    BY <2>1, <2>2
<1>4. CASE DeletePoints(s, c)
  BY <1>4 DEF DeletePoints
<1> QED
  BY StoreStep(s, c), <1>1, <1>2, <1>3, <1>4
  DEF StoreStep, CollectionExists, CreateCollection, CreateUserIndex, CreateSessionIndex,
      GetCollection, DropIndex, UpgradeIndex, RetrieveOwner, EraseTier, Degrade, qdrant

\* Every step keeps the ids with their owners. RetrieveOwner is not needed for
\* it: an operation never names an id that is not its user's.
LEMMA OwnedStep ==
  ASSUME Owned, [Next]_vars
  PROVE  Owned'
<1>0. Shape' /\ TypeOK /\ Shape /\ ops \in Nat /\ ops' \in Nat
  BY ShapeStep DEF Owned, Shape, TypeOK
<1>1. CASE UNCHANGED vars \/ Tick
  BY <1>0, <1>1 DEF Owned, OneOwner, OwnHits, Claimed, vars, qdrant, Tick
<1>2. ASSUME NEW s \in Slots, Begin(s) PROVE Owned'
  <2>1. Begun(s) /\ (op'[s].number = ops + 1 \/ op'[s].number = 0)
    BY <1>0, <1>2, BeginMoves DEF BegunAsking, BegunErasing
  <2>2. points' = points
    BY <2>1 DEF Begun, qdrant
  <2>3. ASSUME NEW i \in Ids, NEW u \in Users, Claimed(i, u)'
        PROVE  Claimed(i, u) \/ (i = ops + 1 /\ u = op'[s].user)
    BY <2>1, <2>2, <2>3, MemoryAssumption DEF Claimed, Begun, Ids
  <2>4. OneOwner'
    BY <1>0, <2>1, <2>3 DEF Owned, OneOwner, Begun, Ids
  <2>5. OwnHits'
    BY <2>1 DEF Owned, OwnHits, Begun
  <2> QED
    BY <1>0, <2>4, <2>5 DEF Owned
<1>3. ASSUME NEW s \in Slots, ManagerStep(s) PROVE Owned'
  <2>1. MovesOn(s) /\ (op'[s].point_id = op[s].point_id
                       \/ \E p \in op[s].hits : op'[s].point_id = p.id)
    BY <1>0, <1>3, EmbedMoves, HydratedMoves, DeduplicatedMoves, FinishedMoves DEF ManagerStep
  <2>2. points' = points /\ ops' = ops
    BY <1>3 DEF ManagerStep, Embed, Hydrated, Deduplicated, Finished, qdrant
  <2>3. ASSUME NEW i \in Ids, NEW u \in Users, Claimed(i, u)'
        PROVE  Claimed(i, u)
    BY <2>1, <2>2, <2>3 DEF Owned, OwnHits, Claimed, MovesOn, SameRequest
  <2>4. OneOwner'
    BY <1>0, <2>2, <2>3, NoNewClaim DEF Owned
  <2>5. OwnHits'
    BY <2>1 DEF Owned, OwnHits, MovesOn, SameRequest
  <2> QED
    BY <1>0, <2>4, <2>5 DEF Owned
<1>4. ASSUME NEW s \in Slots, NEW c \in Tiers, StoreStep(s, c) PROVE Owned'
  <2>1. /\ \A p \in points' : p \in points \/ (/\ p.user = op[s].user
                                               /\ p.id \in {op[s].number, op[s].point_id})
        /\ \A p \in op'[s].hits : p \in op[s].hits \/ (p \in points /\ p.user = op[s].user)
        /\ SameAsking(s)
    BY <1>0, <1>4, StoreClaims, StoreShape
  <2>2. ops' = ops
    BY <1>4 DEF StoreStep, Enter, CollectionExists, CreateCollection, CreateUserIndex,
                CreateSessionIndex, GetCollection, DropIndex, UpgradeIndex, Search, RetrieveOwner,
                Upsert, UpsertUnanswered, EraseTier, DeletePoints, EraseFails, RequestFails,
                RequestUnanswered
  <2>3. ASSUME NEW i \in Ids, NEW u \in Users, Claimed(i, u)'
        PROVE  Claimed(i, u)
    BY <2>1, <2>3 DEF Claimed, SameAsking, SameOp
  <2>4. OneOwner'
    BY <1>0, <2>2, <2>3, NoNewClaim DEF Owned
  <2>5. OwnHits'
    BY <2>1 DEF Owned, OwnHits, SameAsking, SameOp
  <2> QED
    BY <1>0, <2>4, <2>5 DEF Owned
<1> QED
  BY <1>1, <1>2, <1>3, <1>4 DEF Next, ManagerStep

\* At the start nobody claims an id.
LEMMA OwnedInit ==
  ASSUME Init
  PROVE  Owned
<1>1. points = {}
  BY DEF Init
<1>2. \A i \in Ids, u \in Users : ~Claimed(i, u)
  BY <1>1, IdleInit, MemoryAssumption DEF Claimed, Ids
<1> QED
  BY <1>1, <1>2, ShapeInit, IdleInit DEF Owned, OneOwner, OwnHits

\* Owners keep tenants apart.
LEMMA OwnedIsolates ==
  ASSUME Owned
  PROVE  TenantInv
<1>1. TypeOK
  BY DEF Owned, Shape
<1>2. ASSUME NEW p \in points, NEW q \in points, p.id = q.id
      PROVE  p.user = q.user
  <2>1. Claimed(p.id, p.user) /\ Claimed(p.id, q.user)
    BY <1>2 DEF Claimed
  <2>2. p.id \in Ids /\ p.user \in Users /\ q.user \in Users
    BY <1>1 DEF TypeOK, Point
  <2> QED
    BY <2>1, <2>2 DEF Owned, OneOwner
<1> QED
  BY <1>1, <1>2 DEF Owned, OwnHits, TenantInv, TenantIsolation

\* For any number of tasks, users, tiers and failures, no operation sees or
\* refreshes a memory of another user, and an id names memories of one user
\* only (store.search, store.upsert).
THEOREM TenantsAreIsolated == Spec => []TenantInv
<1>1. Init => Owned
  BY OwnedInit
<1>2. Owned /\ [Next]_vars => Owned'
  BY OwnedStep
<1>3. Owned => TenantInv
  BY OwnedIsolates
<1> QED
  BY <1>1, <1>2, <1>3, PTL DEF Spec

---------------------------------------------------------------------------
\* Erasure

\* The places behind the collection's creation.
Known == {"index_user", "index_session", "get", "drop", "upgrade", "query", "retrieve", "upsert"}

\* A tier without a collection holds no point: an erasure may pass it over.
CollectionKnown ==
  /\ \A s \in Slots, c \in Tiers : call[s][c] \in Known => index[c] # "missing"
  /\ \A c \in ensured : index[c] # "missing"
  /\ \A p \in points : index[p.tier] # "missing"

\* The steps of the store functions keep CollectionKnown: only _ensure creates
\* a collection, and nothing drops one.
LEMMA CollectionKnownStore ==
  ASSUME Shape, CollectionKnown, NEW s \in Slots, NEW c \in Tiers, StoreStep(s, c)
  PROVE  CollectionKnown'
<1>0. /\ TypeOK /\ TypeOK' /\ SameAsking(s)
      /\ \A t \in Slots, d \in Tiers : t # s \/ d # c => call'[t][d] = call[t][d]
  BY StoreShape DEF Shape
<1> USE DEF At, Goto, Degrade
<1> DEFINE Stays == \A d \in Tiers : index[d] # "missing" => index'[d] # "missing"
           Lands == call'[s][c] \in Known => index'[c] # "missing"
           Holds == \A p \in points' : p \in points \/ (p.tier = c /\ index[c] # "missing")
           Joins == \A d \in ensured' : d \in ensured \/ (d = c /\ index'[c] # "missing")
<1>1. Stays
  BY <1>0 DEF StoreStep, Enter, CollectionExists, CreateCollection, CreateUserIndex,
              CreateSessionIndex, GetCollection, DropIndex, UpgradeIndex, Search, RetrieveOwner,
              Upsert, UpsertUnanswered, EraseTier, DeletePoints, EraseFails, RequestFails,
              RequestUnanswered, qdrant, TypeOK
<1>2. Holds
  <2>1. CASE Upsert(s, c) \/ UpsertUnanswered(s, c)
    BY <2>1 DEF Upsert, UpsertUnanswered, ApplyUpsert, Written, CollectionKnown, Known
  <2>2. CASE DeletePoints(s, c)
    BY <2>2 DEF DeletePoints
  <2>3. CASE points' = points
    BY <2>3
  <2> QED
    BY StoreStep(s, c), <2>1, <2>2, <2>3
    DEF StoreStep, Enter, CollectionExists, CreateCollection, CreateUserIndex,
        CreateSessionIndex, GetCollection, DropIndex, UpgradeIndex, Search, RetrieveOwner,
        EraseTier, EraseFails, RequestFails, RequestUnanswered, qdrant
<1>3. Joins
  <2>1. CASE CreateSessionIndex(s, c)
    BY <1>0, <2>1 DEF CreateSessionIndex, TypeOK, CollectionKnown, Known
  <2>2. CASE GetCollection(s, c)
    BY <1>0, <2>2 DEF GetCollection, TypeOK, qdrant
  <2>3. CASE UpgradeIndex(s, c)
    BY <1>0, <2>3 DEF UpgradeIndex, TypeOK
  <2>4. CASE ensured' = ensured
    BY <2>4
  <2> QED
    BY StoreStep(s, c), <2>1, <2>2, <2>3, <2>4
    DEF StoreStep, Enter, CollectionExists, CreateCollection, CreateUserIndex, DropIndex, Search,
        RetrieveOwner, Upsert, UpsertUnanswered, EraseTier, DeletePoints, EraseFails,
        RequestFails, RequestUnanswered, store
<1>4. Lands
  <2>1. Request(s) \in {"query", "retrieve", "upsert"}
    BY DEF Request
  <2>2. CASE Enter(s, c)
    BY <1>0, <2>1, <2>2 DEF Enter, TypeOK, CollectionKnown, Known, qdrant
  <2>3. CASE CollectionExists(s, c)
    BY <1>0, <2>3 DEF CollectionExists, TypeOK, Known, qdrant
  <2>4. CASE call[s][c] \in Known
    BY <1>1, <2>4 DEF CollectionKnown
  <2>5. CASE CreateCollection(s, c)
    BY <1>0, <2>5 DEF CreateCollection, TypeOK, Known
  <2>6. CASE EraseTier(s, c) \/ DeletePoints(s, c) \/ EraseFails(s, c)
             \/ RequestFails(s, c) \/ RequestUnanswered(s, c)
    BY <1>0, <2>6
    DEF EraseTier, DeletePoints, EraseFails, RequestFails, RequestUnanswered, TypeOK, Known
  <2> QED
    BY StoreStep(s, c), <2>2, <2>3, <2>4, <2>5, <2>6
    DEF StoreStep, CreateUserIndex, CreateSessionIndex, GetCollection, DropIndex, UpgradeIndex,
        Search, RetrieveOwner, Upsert, UpsertUnanswered, Known
<1>5. \A t \in Slots, d \in Tiers : call'[t][d] \in Known => index'[d] # "missing"
  BY <1>0, <1>1, <1>4 DEF CollectionKnown
<1> HIDE DEF Stays, Holds, Joins, Lands
<1>6. \A d \in ensured' : index'[d] # "missing"
  BY <1>0, <1>1, <1>3 DEF CollectionKnown, Stays, Joins, TypeOK
<1>7. \A p \in points' : index'[p.tier] # "missing"
  BY <1>0, <1>1, <1>2 DEF CollectionKnown, Stays, Holds, TypeOK, Point
<1> QED
  BY <1>5, <1>6, <1>7 DEF CollectionKnown

\* What an erasure still has to remove is the user's, and sits in a tier that
\* failed or is still to come.
Erasing(s) ==
  (op[s].kind = "delete_user" /\ ~op[s].skipped) =>
    /\ \A p \in erasing[s] : p.user = op[s].user
    /\ \A p \in erasing[s] \cap points :
         p.tier \in op[s].failed \/ call[s][p.tier] \in {"todo", "delete"}

\* The inductive invariant of erasure.
Erasable == Shape /\ CollectionKnown /\ \A s \in Slots : Erasing(s)

\* The step of another slot only takes from what an erasure has to remove.
LEMMA OtherSlots ==
  ASSUME NEW s \in Slots, Erasing(s), op'[s] = op[s], call'[s] = call[s],
         erasing'[s] \subseteq erasing[s], erasing'[s] \cap points' \subseteq points
  PROVE  Erasing(s)'
BY DEF Erasing

\* The steps of the store functions keep every erasure on its way, whatever
\* the other tasks write meanwhile.
LEMMA ErasingStore ==
  ASSUME Erasable, NEW s \in Slots, NEW c \in Tiers, StoreStep(s, c), NEW t \in Slots
  PROVE  Erasing(t)'
<1>0. /\ TypeOK /\ TypeOK' /\ SameAsking(s) /\ PlaceFits(s, c) /\ PhaseFits(s)
      /\ \A r \in Slots, d \in Tiers : r # s \/ d # c => call'[r][d] = call[r][d]
  BY StoreShape DEF Erasable, Shape
<1>1. /\ \A r \in Slots : erasing'[r] \subseteq erasing[r]
      /\ \A r \in Slots : erasing'[r] \cap points' \subseteq points
  <2>1. CASE Upsert(s, c) \/ UpsertUnanswered(s, c)
    BY <1>0, <2>1 DEF Upsert, UpsertUnanswered, ApplyUpsert, TypeOK
  <2>2. CASE DeletePoints(s, c)
    BY <2>2 DEF DeletePoints
  <2>3. CASE points' = points /\ erasing' = erasing
    BY <2>3
  <2> QED
    BY StoreStep(s, c), <2>1, <2>2, <2>3
    DEF StoreStep, Enter, CollectionExists, CreateCollection, CreateUserIndex,
        CreateSessionIndex, GetCollection, DropIndex, UpgradeIndex, Search, RetrieveOwner,
        EraseTier, EraseFails, RequestFails, RequestUnanswered, qdrant
<1>2. CASE t # s
  <2>1. op'[t] = op[t] /\ call'[t] = call[t]
    BY <1>0, <1>2 DEF SameAsking, TypeOK
  <2> QED
    BY <1>1, <2>1, OtherSlots DEF Erasable
<1>3. CASE t = s /\ op[s].kind # "delete_user"
  BY <1>0, <1>3 DEF Erasing, SameAsking, SameOp
<1>4. CASE t = s /\ op[s].kind = "delete_user"
  <2>1. call[s][c] \notin Calling /\ Erasing(s)
    BY <1>0, <1>4 DEF PlaceFits, PhaseFits, Erasable
  <2>2. EraseTier(s, c) \/ DeletePoints(s, c) \/ EraseFails(s, c)
    BY <2>1
    DEF StoreStep, Enter, CollectionExists, CreateCollection, CreateUserIndex, CreateSessionIndex,
        GetCollection, DropIndex, UpgradeIndex, Search, RetrieveOwner, Upsert, UpsertUnanswered,
        RequestFails, RequestUnanswered, At, Calling, Requests
  <2>3. CASE EraseTier(s, c)
    <3>1. op' = op /\ points' = points /\ erasing' = erasing
          /\ call'[s][c] = IF index[c] = "missing" THEN "done" ELSE "delete"
      BY <1>0, <2>3 DEF EraseTier, Goto, TypeOK, qdrant
    <3>2. index[c] = "missing" => \A p \in points : p.tier # c
      BY DEF Erasable, CollectionKnown
    <3>3. \A p \in points : p.tier \in Tiers
      BY <1>0 DEF TypeOK, Point
    <3> QED
      BY <1>0, <1>4, <2>1, <3>1, <3>2, <3>3 DEF Erasing
  <2>4. CASE DeletePoints(s, c)
    <3>1. op' = op /\ erasing' = erasing
          /\ points' = {p \in points : p.tier # c \/ p.user # op[s].user}
      BY <2>4 DEF DeletePoints
    <3>3. \A p \in points : p.tier \in Tiers
      BY <1>0 DEF TypeOK, Point
    <3> QED
      BY <1>0, <1>4, <2>1, <3>1, <3>3 DEF Erasing
  <2>5. CASE EraseFails(s, c)
    <3>1. /\ points' = points /\ erasing' = erasing
          /\ op'[s].failed = op[s].failed \cup {c} /\ op'[s].skipped = op[s].skipped
      BY <1>0, <2>5 DEF EraseFails, TypeOK, Operation, qdrant
    <3>2. \A p \in points : p.tier \in Tiers
      BY <1>0 DEF TypeOK, Point
    <3> QED
      BY <1>0, <1>4, <2>1, <3>1, <3>2 DEF Erasing, SameAsking, SameOp
  <2> QED
    BY <2>2, <2>3, <2>4, <2>5
<1> QED
  BY <1>2, <1>3, <1>4

\* Where the manager sends the store functions of an operation.
LEMMA ManagerPlaces ==
  ASSUME Shape, NEW s \in Slots, ManagerStep(s)
  PROVE  \A c \in Tiers : call'[s][c] \in {"none", "done", "enter"}
<1>1. TypeOK
  BY DEF Shape
<1>2. \A c \in Tiers : call[s][c] \in {"none", "done"}
  BY Waiting DEF ManagerStep, Embed, Hydrated, Deduplicated, Finished
<1>3. CASE Embed(s)
  BY <1>1, <1>2, <1>3, EmbedMoves DEF TypeOK
<1>4. CASE Hydrated(s) \/ Finished(s)
  BY <1>2, <1>4 DEF Hydrated, Finished
<1>5. CASE Deduplicated(s)
  BY <1>1, <1>2, <1>5, DeduplicatedMoves DEF TypeOK
<1> QED
  BY <1>3, <1>4, <1>5 DEF ManagerStep

\* Every step keeps the erasures on their way.
LEMMA ErasableStep ==
  ASSUME Erasable, [Next]_vars
  PROVE  Erasable'
<1>0. Shape /\ Shape' /\ TypeOK /\ TypeOK'
  BY ShapeStep DEF Erasable, Shape
<1>1. CASE UNCHANGED vars \/ Tick
  BY <1>0, <1>1 DEF Erasable, CollectionKnown, Erasing, vars, store, qdrant, Tick
<1>2. ASSUME NEW s \in Slots, Begin(s) PROVE Erasable'
  <2>1. Begun(s) /\ (BegunAsking(s) \/ BegunErasing(s))
    BY <1>0, <1>2, BeginMoves DEF BegunAsking, BegunErasing
  <2>2. \A c \in Tiers : call'[s][c] \notin Known
    BY <2>1 DEF BegunAsking, BegunErasing, Known
  <2>3. CollectionKnown'
    BY <2>1, <2>2 DEF Erasable, CollectionKnown, Begun, store, qdrant
  <2>4. ASSUME NEW t \in Slots PROVE Erasing(t)'
    <3>1. CASE t # s
      <4>1. erasing'[t] = erasing[t] /\ points' = points
        BY <1>0, <2>1, <3>1 DEF Begun, BegunAsking, BegunErasing, qdrant, TypeOK
      <4> QED
        BY <2>1, <3>1, <4>1, OtherSlots DEF Begun, Erasable
    <3>2. CASE t = s /\ BegunAsking(s)
      BY <3>2 DEF BegunAsking, Erasing
    <3>3. CASE t = s /\ BegunErasing(s)
      <4>1. erasing'[s] = {p \in points : p.user = op'[s].user}
        BY <1>0, <3>3 DEF BegunErasing, TypeOK
      <4>2. \A p \in points' : p.tier \in Tiers
        BY <1>0 DEF TypeOK, Point
      <4> QED
        BY <3>3, <4>1, <4>2 DEF BegunErasing, Erasing
    <3> QED
      BY <2>1, <3>1, <3>2, <3>3
  <2> QED
    BY <1>0, <2>3, <2>4 DEF Erasable
<1>3. ASSUME NEW s \in Slots, ManagerStep(s) PROVE Erasable'
  <2>1. MovesOn(s)
    BY <1>0, <1>3, EmbedMoves, HydratedMoves, DeduplicatedMoves, FinishedMoves DEF ManagerStep
  <2>2. UNCHANGED <<index, ensured, points, erasing>>
    BY <1>3 DEF ManagerStep, Embed, Hydrated, Deduplicated, Finished, store, qdrant
  <2>3. \A c \in Tiers : call'[s][c] \notin Known
    BY <1>0, <1>3, ManagerPlaces DEF Known
  <2>4. CollectionKnown'
    BY <2>1, <2>2, <2>3 DEF Erasable, CollectionKnown, MovesOn
  <2>5. ASSUME NEW t \in Slots PROVE Erasing(t)'
    <3>1. CASE t # s
      BY <2>1, <2>2, <3>1, OtherSlots DEF MovesOn, Erasable
    <3>2. CASE t = s /\ op[s].kind # "delete_user"
      BY <2>1, <3>2 DEF MovesOn, SameRequest, Erasing
    <3>3. CASE t = s /\ op[s].kind = "delete_user"
      <4>1. Finished(s)
        BY <1>0, <1>3, <3>3
        DEF ManagerStep, Embed, Hydrated, Deduplicated, Shape, PhaseFits
      <4>2. call' = call
        BY <4>1 DEF Finished
      <4> QED
        BY <2>1, <2>2, <3>3, <4>2 DEF MovesOn, SameRequest, Erasing, Erasable
    <3> QED
      BY <3>1, <3>2, <3>3
  <2> QED
    BY <1>0, <2>4, <2>5 DEF Erasable
<1>4. ASSUME NEW s \in Slots, NEW c \in Tiers, StoreStep(s, c) PROVE Erasable'
  BY <1>0, <1>4, CollectionKnownStore, ErasingStore DEF Erasable
<1> QED
  BY <1>1, <1>2, <1>3, <1>4 DEF Next, ManagerStep

\* At the start there is nothing to erase.
LEMMA ErasableInit ==
  ASSUME Init
  PROVE  Erasable
<1>1. Shape
  BY ShapeInit
<1>2. CollectionKnown
  BY DEF Init, CollectionKnown, Known
<1>3. \A s \in Slots : Erasing(s)
  BY DEF Init, Erasing
<1> QED
  BY <1>1, <1>2, <1>3 DEF Erasable

\* An erasure that ends has been through every tier.
LEMMA ErasableErases ==
  ASSUME Erasable
  PROVE  ErasureReachesEveryTier
<1>1. ASSUME NEW s \in Slots, op[s].kind = "delete_user", op[s].phase = "over", ~op[s].skipped,
             NEW p \in erasing[s] \cap points
      PROVE  p.tier \in op[s].failed
  <2>1. p.tier \in Tiers
    BY <1>1 DEF Erasable, Shape, TypeOK, Point
  <2>2. call[s][p.tier] \in {"none", "done"}
    BY <1>1, <2>1, Waiting DEF Erasable
  <2> QED
    BY <1>1, <2>2 DEF Erasable, Erasing
<1> QED
  BY <1>1 DEF ErasureReachesEveryTier

\* For any number of tasks and tiers and whatever fails, a delete_user the
\* breaker lets start removes every memory its user had, from every tier but
\* those whose own requests failed (store.delete_user).
THEOREM ErasureIsComplete == Spec => []ErasureReachesEveryTier
<1>1. Init => Erasable
  BY ErasableInit
<1>2. Erasable /\ [Next]_vars => Erasable'
  BY ErasableStep
<1>3. Erasable => ErasureReachesEveryTier
  BY ErasableErases
<1> QED
  BY <1>1, <1>2, <1>3, PTL DEF Spec

---------------------------------------------------------------------------
\* Alone turn at a time

\* One task at a time uses the manager.
OneTurn == \A s, t \in Slots : s = t

\* The places of a call on its way through _ensure.
Ensuring == {"exists", "create", "index_user", "index_session", "get", "drop", "upgrade"}

\* While a call ensures its tier, nobody takes the tier for ensured, and
\* nobody else creates its collection or drops its index.
EnsuredByOne ==
  /\ EnsuredUsable
  /\ \A s \in Slots, c \in Tiers :
       /\ call[s][c] \in Ensuring => c \notin ensured
       /\ call[s][c] = "create" => index[c] = "missing"
       /\ call[s][c] = "index_session" => index[c] = "tenant"

\* With one task, the steps of the store functions keep EnsuredByOne.
LEMMA EnsuredByOneStore ==
  ASSUME OneTurn, Shape, EnsuredByOne, NEW s \in Slots, NEW c \in Tiers, StoreStep(s, c)
  PROVE  EnsuredByOne'
<1>0. /\ TypeOK /\ TypeOK'
      /\ \A t \in Slots, d \in Tiers : t # s \/ d # c => call'[t][d] = call[t][d]
      /\ \A t \in Slots : t = s
  BY StoreShape DEF Shape, OneTurn
<1> USE DEF At, Goto, Degrade
<1> DEFINE Other == \A d \in Tiers \ {c} : index'[d] = index[d] /\ (d \in ensured' => d \in ensured)
           Own   == /\ c \in ensured' => index'[c] = "tenant"
                    /\ call'[s][c] \in Ensuring => c \notin ensured'
                    /\ call'[s][c] = "create" => index'[c] = "missing"
                    /\ call'[s][c] = "index_session" => index'[c] = "tenant"
<1>r. Request(s) \in {"query", "retrieve", "upsert"}
  BY DEF Request
<1>1. CASE Enter(s, c)
  BY <1>0, <1>r, <1>1 DEF Enter, EnsuredByOne, EnsuredUsable, TypeOK, Ensuring, store, qdrant
<1>2. CASE CollectionExists(s, c)
  BY <1>0, <1>2 DEF CollectionExists, EnsuredByOne, EnsuredUsable, TypeOK, Ensuring, store, qdrant
<1>3. CASE CreateCollection(s, c)
  <2>1. Other /\ Own
    BY <1>0, <1>3 DEF CreateCollection, EnsuredByOne, EnsuredUsable, TypeOK, Ensuring
  <2> QED
    BY <1>0, <2>1 DEF EnsuredByOne, EnsuredUsable, TypeOK
<1>4. CASE CreateUserIndex(s, c) \/ CreateSessionIndex(s, c)
  <2>1. Other /\ Own
    BY <1>0, <1>r, <1>4
    DEF CreateUserIndex, CreateSessionIndex, EnsuredByOne, EnsuredUsable, TypeOK, Ensuring, store
  <2> QED
    BY <1>0, <2>1 DEF EnsuredByOne, EnsuredUsable, TypeOK
<1>5. CASE GetCollection(s, c)
  <2>1. Other /\ Own
    BY <1>0, <1>r, <1>5 DEF GetCollection, EnsuredByOne, EnsuredUsable, TypeOK, Ensuring, qdrant
  <2> QED
    BY <1>0, <2>1 DEF EnsuredByOne, EnsuredUsable, TypeOK
<1>6. CASE DropIndex(s, c) \/ UpgradeIndex(s, c)
  <2>1. Other /\ Own
    BY <1>0, <1>r, <1>6
    DEF DropIndex, UpgradeIndex, EnsuredByOne, EnsuredUsable, TypeOK, Ensuring, store
  <2> QED
    BY <1>0, <2>1 DEF EnsuredByOne, EnsuredUsable, TypeOK
<1>7. CASE RequestUnanswered(s, c)
  <2>1. Other /\ Own
    BY <1>0, <1>7 DEF RequestUnanswered, EnsuredByOne, EnsuredUsable, TypeOK, Ensuring
  <2> QED
    BY <1>0, <2>1 DEF EnsuredByOne, EnsuredUsable, TypeOK
<1>8. CASE Search(s, c) \/ RetrieveOwner(s, c) \/ Upsert(s, c) \/ UpsertUnanswered(s, c)
           \/ EraseTier(s, c) \/ DeletePoints(s, c) \/ EraseFails(s, c) \/ RequestFails(s, c)
  <2>1. UNCHANGED <<index, ensured>> /\ call'[s][c] \notin Ensuring
    BY <1>0, <1>8
    DEF Search, RetrieveOwner, Upsert, UpsertUnanswered, EraseTier, DeletePoints, EraseFails,
        RequestFails, TypeOK, Ensuring, store, qdrant
  <2> QED
    BY <1>0, <2>1 DEF EnsuredByOne, EnsuredUsable, Ensuring
<1> QED
  BY StoreStep(s, c), <1>1, <1>2, <1>3, <1>4, <1>5, <1>6, <1>7, <1>8 DEF StoreStep

\* With one task, every step keeps EnsuredByOne.
LEMMA EnsuredByOneStep ==
  ASSUME OneTurn, Shape, EnsuredByOne, [Next]_vars
  PROVE  EnsuredByOne'
<1>0. Shape' /\ TypeOK /\ TypeOK'
  BY ShapeStep DEF Shape
<1>1. CASE UNCHANGED vars \/ Tick
  BY <1>1 DEF EnsuredByOne, EnsuredUsable, vars, store, qdrant, Tick
<1>2. ASSUME NEW s \in Slots, Begin(s) \/ ManagerStep(s) PROVE EnsuredByOne'
  <2>1. UNCHANGED <<index, ensured>>
    <3>1. CASE Begin(s)
      BY <1>0, <3>1, BeginMoves DEF BegunAsking, BegunErasing, Begun, store, qdrant
    <3>2. CASE ManagerStep(s)
      BY <3>2 DEF ManagerStep, Embed, Hydrated, Deduplicated, Finished, store, qdrant
    <3> QED
      BY <1>2, <3>1, <3>2
  <2>2. \A t \in Slots : t = s
    BY DEF OneTurn
  <2>3. \A c \in Tiers : call'[s][c] \notin Ensuring
    <3>1. CASE Begin(s)
      BY <1>0, <3>1, BeginMoves DEF BegunAsking, BegunErasing, Ensuring
    <3>2. CASE ManagerStep(s)
      BY <1>0, <3>2, ManagerPlaces DEF Ensuring
    <3> QED
      BY <1>2, <3>1, <3>2
  <2> QED
    BY <2>1, <2>2, <2>3 DEF EnsuredByOne, EnsuredUsable, Ensuring
<1>3. ASSUME NEW s \in Slots, NEW c \in Tiers, StoreStep(s, c) PROVE EnsuredByOne'
  BY <1>3, EnsuredByOneStore
<1> QED
  BY <1>1, <1>2, <1>3 DEF Next, ManagerStep

\* For one turn at a time and whatever fails, a tier taken for ensured has its
\* collection and the tenant index on it (_ensure).
THEOREM OneTurnEnsures ==
  ASSUME OneTurn
  PROVE  Spec => []EnsuredUsable
<1>1. Init => Shape /\ EnsuredByOne
  <2>1. Init => EnsuredByOne
    BY DEF Init, EnsuredByOne, EnsuredUsable, Ensuring
  <2> QED
    BY <2>1, ShapeInit
<1>2. Shape /\ EnsuredByOne /\ [Next]_vars => (Shape /\ EnsuredByOne)'
  BY ShapeStep, EnsuredByOneStep
<1>3. EnsuredByOne => EnsuredUsable
  BY DEF EnsuredByOne
<1> QED
  BY <1>1, <1>2, <1>3, PTL DEF Spec

\* The operations that write; the memories next to the one that s writes, those
\* of the same text among them, and the near-duplicates.
Writes == {"record", "sync_wiki"}
Scope(s) == {p \in points : p.tier = op[s].tier /\ p.user = op[s].user}
Same(s)  == {p \in Scope(s) : p.text = op[s].text}
Near(s)  == {p \in Scope(s) : <<p.text, op[s].text>> \in Alike}

\* A write that searched knows the only memory of its text, and will add one
\* only if there is no near-duplicate.
Deduplicating(s) ==
  (op[s].kind \in Writes /\ op[s].phase \in Asking) =>
    /\ op[s].tier \in Tiers
    /\ \A c \in Tiers : call[s][c] # "none" => c = op[s].tier
    /\ op[s].phase = "embed" => op[s].hits = {} /\ op[s].point_id = None
    /\ op[s].phase = "search" =>
         /\ call[s][op[s].tier] # "none" /\ op[s].point_id = None
         /\ call[s][op[s].tier] # "done" => op[s].hits = {}
         /\ call[s][op[s].tier] = "done" =>
              /\ op[s].hits \subseteq Scope(s)
              /\ op[s].hits = {} => Near(s) = {}
              /\ \A p \in op[s].hits : Same(s) \subseteq {p}
    /\ (op[s].phase = "write" /\ call[s][op[s].tier] # "done") =>
         /\ \A p \in Same(s) : p.id = op[s].point_id
         /\ op[s].point_id = None => Near(s) = {}
         /\ op[s].point_id # None => \E p \in Scope(s) : p.id = op[s].point_id

\* No text twice, as SameTextOnce has it.
Converged ==
  \A p, q \in points : Beside(p, q) /\ p.text = q.text => p = q

\* Until a failure, no text is written twice, and the breaker stays closed.
TwinsKnown == faults = 0 => Converged /\ downUntil = 0 /\ \A s \in Slots : Deduplicating(s)

\* The inductive invariant of convergence.
Alone == OneTurn /\ Shape /\ EnsuredByOne /\ TwinsKnown

\* Every text is near itself.
LEMMA SelfAlike == \A x \in Texts : <<x, x>> \in Alike
BY MemoryAssumption

\* The start of an operation keeps TwinsKnown.
LEMMA DeduplicatingBegin ==
  ASSUME Alone, NEW s \in Slots, Begin(s)
  PROVE  TwinsKnown'
<1>0. TypeOK /\ \A t \in Slots : t = s
  BY DEF Alone, Shape, OneTurn
<1>1. Begun(s) /\ (BegunAsking(s) \/ BegunErasing(s))
  BY <1>0, BeginMoves DEF BegunAsking, BegunErasing
<1>2. UNCHANGED <<points, downUntil, faults>>
  BY <1>1 DEF Begun, qdrant, store
<1>3. Deduplicating(s)'
  BY <1>1 DEF Deduplicating, BegunAsking, BegunErasing, Begun, Writes, Asking
<1> QED
  BY <1>0, <1>2, <1>3 DEF Alone, TwinsKnown, Converged

\* The manager's own steps keep TwinsKnown.
LEMMA DeduplicatingManager ==
  ASSUME Alone, NEW s \in Slots, ManagerStep(s)
  PROVE  TwinsKnown'
<1>0. TypeOK /\ (\A t \in Slots : t = s) /\ MovesOn(s)
  BY EmbedMoves, HydratedMoves, DeduplicatedMoves, FinishedMoves
  DEF Alone, Shape, OneTurn, ManagerStep
<1>1. points' = points /\ downUntil' = downUntil /\ (faults' = 0 => faults = 0)
  <2>1. points' = points /\ downUntil' = downUntil /\ (faults' = faults \/ faults' = faults + 1)
    BY DEF ManagerStep, Embed, Hydrated, Deduplicated, Finished, store, qdrant, Fault
  <2> QED
    BY <1>0, <2>1 DEF TypeOK
<1> SUFFICES ASSUME faults' = 0 PROVE Deduplicating(s)'
  BY <1>0, <1>1 DEF Alone, TwinsKnown, Converged
<1>2. Deduplicating(s) /\ Converged
  BY <1>1 DEF Alone, TwinsKnown
<1>3. CASE Hydrated(s) \/ Finished(s)
  BY <1>0, <1>3, HydratedMoves, FinishedMoves DEF Deduplicating, Asking
<1>4. CASE Embed(s)
  <2>1. CASE op'[s].phase = "over"
    BY <2>1 DEF Deduplicating, Asking
  <2> DEFINE f == [c \in Tiers |-> IF c \in Searches(s) THEN "enter" ELSE "none"]
  <2>2. CASE op'[s].phase = "search" /\ call' = [call EXCEPT ![s] = f]
    <3>1. call'[s] = f
      BY <1>0, <2>2 DEF TypeOK
    <3>2. op[s].phase = "embed" /\ op'[s].point_id = op[s].point_id
      BY <1>0, <1>4, EmbedMoves DEF Embed
    <3>3. CASE op[s].kind \in Writes
      <4>1. op[s].tier \in Tiers /\ op[s].hits = {} /\ op[s].point_id = None
        BY <1>2, <3>2, <3>3 DEF Deduplicating, Asking
      <4>2. \A c \in Tiers : f[c] = IF c = op[s].tier THEN "enter" ELSE "none"
        BY <3>3 DEF Searches, Writes
      <4> QED
        BY <1>0, <2>2, <3>1, <3>2, <4>1, <4>2 DEF MovesOn, SameRequest, Deduplicating
    <3>4. CASE op[s].kind \notin Writes
      BY <1>0, <3>4 DEF MovesOn, SameRequest, Deduplicating
    <3> QED
      BY <3>3, <3>4
  <2> QED
    BY <1>0, <1>4, <2>1, <2>2, EmbedMoves
<1>5. CASE Deduplicated(s)
  <2>1. /\ op'[s].phase = "write" /\ op[s].phase = "search"
        /\ (op[s].hits = {} /\ op'[s].point_id = op[s].point_id)
           \/ \E p \in op[s].hits : op'[s].point_id = p.id
        /\ call' = [call EXCEPT ![s] = [@ EXCEPT ![op[s].tier] = "enter"]]
    BY <1>0, <1>5, DeduplicatedMoves DEF Deduplicated
  <2>2. CASE op[s].kind \notin Writes
    BY <1>0, <2>2 DEF MovesOn, SameRequest, Deduplicating
  <2>3. CASE op[s].kind \in Writes
    <3>1. /\ op[s].tier \in Tiers /\ call[s][op[s].tier] = "done"
          /\ \A c \in Tiers : call[s][c] # "none" => c = op[s].tier
          /\ op[s].hits \subseteq Scope(s) /\ (op[s].hits = {} => Near(s) = {})
          /\ \A p \in op[s].hits : Same(s) \subseteq {p}
          /\ op[s].point_id = None
      BY <1>2, <1>5, <2>1, <2>3 DEF Deduplicating, Asking, Deduplicated, CallsDone
    <3>2. \A c \in Tiers : call'[s][c] = IF c = op[s].tier THEN "enter" ELSE call[s][c]
      BY <1>0, <2>1, <3>1 DEF TypeOK
    <3>3. Scope(s)' = Scope(s) /\ Same(s)' = Same(s) /\ Near(s)' = Near(s)
      BY <1>0, <1>1 DEF Scope, Same, Near, MovesOn, SameRequest
    <3>5. Same(s) \subseteq Near(s)
      BY <1>0, SelfAlike DEF Same, Near, Scope, TypeOK, Point
    <3>6. \A p \in op[s].hits : p.id # None
      BY <1>0, <3>1, MemoryAssumption DEF Scope, TypeOK, Point, Ids
    <3>4. /\ \A p \in Same(s) : p.id = op'[s].point_id
          /\ op'[s].point_id = None => Near(s) = {}
          /\ op'[s].point_id # None => \E p \in Scope(s) : p.id = op'[s].point_id
      BY <2>1, <3>1, <3>5, <3>6
    <3> QED
      BY <1>0, <2>1, <3>1, <3>2, <3>3, <3>4 DEF MovesOn, SameRequest, Deduplicating
  <2> QED
    BY <2>2, <2>3
<1> QED
  BY <1>3, <1>4, <1>5 DEF ManagerStep

\* The steps of the store functions keep TwinsKnown, as long as none fails.
LEMMA DeduplicatingStore ==
  ASSUME Alone, NEW s \in Slots, NEW c \in Tiers, StoreStep(s, c)
  PROVE  TwinsKnown'
<1>0. /\ TypeOK /\ TypeOK' /\ SameAsking(s) /\ PlaceFits(s, c) /\ PhaseFits(s)
      /\ \A t \in Slots, d \in Tiers : t # s \/ d # c => call'[t][d] = call[t][d]
      /\ \A t \in Slots : t = s
      /\ op[s] \in Operation
  BY StoreShape DEF Alone, Shape, OneTurn, TypeOK
<1> SUFFICES ASSUME faults' = 0 PROVE Converged' /\ downUntil' = 0 /\ Deduplicating(s)'
  BY <1>0 DEF TwinsKnown
<1>1. faults = 0 /\ ~Fault
  BY <1>0 DEF StoreStep, Enter, CollectionExists, CreateCollection, CreateUserIndex,
              CreateSessionIndex, GetCollection, DropIndex, UpgradeIndex, Search, RetrieveOwner,
              Upsert, UpsertUnanswered, EraseTier, DeletePoints, EraseFails, RequestFails,
              RequestUnanswered, Fault, TypeOK
<1>2. Deduplicating(s) /\ Converged /\ downUntil = 0 /\ ~IsDown
  BY <1>0, <1>1 DEF Alone, TwinsKnown, IsDown, TypeOK
<1> USE DEF At, Goto, Degrade
<1>3. ~RequestFails(s, c) /\ ~RequestUnanswered(s, c) /\ ~EraseFails(s, c) /\ ~UpsertUnanswered(s, c)
  BY <1>1 DEF RequestFails, RequestUnanswered, EraseFails, UpsertUnanswered
<1>4. downUntil' = 0
  BY <1>0, <1>2, <1>3
  DEF StoreStep, Enter, CollectionExists, CreateCollection, CreateUserIndex, CreateSessionIndex,
      GetCollection, DropIndex, UpgradeIndex, Search, RetrieveOwner, Upsert, EraseTier,
      DeletePoints, store, Alone, EnsuredByOne
<1>5. CASE DeletePoints(s, c) \/ EraseTier(s, c)
  <2>1. op[s].kind = "delete_user" /\ op'[s].kind = "delete_user"
    BY <1>0, <1>5 DEF DeletePoints, EraseTier, PlaceFits, PhaseFits, SameAsking, SameOp
  <2>2. points' \subseteq points
    BY <1>5 DEF DeletePoints, EraseTier, qdrant
  <2> QED
    BY <1>2, <1>4, <2>1, <2>2 DEF Converged, Deduplicating, Writes
<1>6. CASE Upsert(s, c)
  <2> DEFINE w == Written(s, c)
  <2>1. op[s].kind \in Writes /\ op[s].phase = "write"
    BY <1>0, <1>6 DEF Upsert, PlaceFits, PhaseFits, Asking, Operation, Writes
  <2>2. /\ c = op[s].tier /\ \A p \in Same(s) : p.id = op[s].point_id
        /\ \A d \in Tiers : call[s][d] # "none" => d = op[s].tier
    BY <1>2, <1>6, <2>1 DEF Upsert, Deduplicating, Asking
  <2>3. /\ points' = {p \in points : p.tier # c \/ p.id # w.id} \cup {w}
        /\ call'[s][c] = "done" /\ op' = op
    BY <1>0, <1>6 DEF Upsert, ApplyUpsert, TypeOK
  <2>4. w.tier = c /\ w.user = op[s].user /\ w.text = op[s].text
        /\ (op[s].point_id # None => w.id = op[s].point_id)
    BY DEF Written
  <2>5. ASSUME NEW p \in points, p.tier = w.tier, p.user = w.user, p.text = w.text
        PROVE  p.id = w.id
    <3>1. p \in Same(s) /\ p.id \in Ids
      BY <1>0, <2>2, <2>4, <2>5 DEF Same, Scope, TypeOK, Point
    <3> QED
      BY <2>2, <2>4, <3>1, MemoryAssumption DEF Ids
  <2>6. Converged'
    BY <1>2, <2>3, <2>4, <2>5 DEF Converged, Beside
  <2>7. Deduplicating(s)'
    BY <1>0, <1>2, <2>1, <2>2, <2>3 DEF Deduplicating, Asking
  <2> QED
    BY <1>4, <2>6, <2>7
<1>7. CASE Search(s, c)
  <2> DEFINE Found(leaks) == {p \in points : p.tier = c /\ (leaks \/ p.user = op[s].user)}
             Close(leaks) == Nearest(Found(leaks), op[s].text)
  <2>1. points' = points /\ call'[s][c] = "done" /\ call[s][c] = "query"
    BY <1>0, <1>7 DEF Search, qdrant, TypeOK
  <2>2. PICK leaks \in BOOLEAN :
             /\ IF leaks THEN Fault ELSE UNCHANGED faults
             /\ \E found \in IF op[s].kind = "hydrate" THEN {Found(leaks)}
                             ELSE {{p} : p \in Close(leaks)} \cup (IF Close(leaks) = {} THEN {{}} ELSE {}) :
                  op' = [op EXCEPT ![s].hits = @ \cup Verified(found, op[s].user)]
    BY <1>7 DEF Search
  <2>3. leaks = FALSE
    BY <1>1, <2>2
  <2>4. CASE op[s].kind \notin Writes
    BY <1>0, <1>2, <1>4, <2>1, <2>4 DEF SameAsking, SameOp, Deduplicating, Converged
  <2>5. CASE op[s].kind \in Writes
    <3>1. /\ op[s].phase = "search" /\ c = op[s].tier /\ op[s].hits = {} /\ op[s].point_id = None
          /\ \A d \in Tiers : call[s][d] # "none" => d = op[s].tier
      BY <1>0, <1>2, <2>1, <2>5 DEF PlaceFits, Deduplicating, Asking
    <3>2. Found(FALSE) = Scope(s)
      BY <3>1 DEF Scope
    <3>10. Close(FALSE) = Nearest(Scope(s), op[s].text)
      BY <3>2
    <3> HIDE DEF Close
    <3>3. PICK found \in {{p} : p \in Close(FALSE)} \cup (IF Close(FALSE) = {} THEN {{}} ELSE {}) :
                  op' = [op EXCEPT ![s].hits = @ \cup Verified(found, op[s].user)]
      BY <2>2, <2>3, <2>5 DEF Writes
    <3>4. op'[s].hits = op[s].hits \cup Verified(found, op[s].user)
      BY <1>0, <3>3 DEF TypeOK, Operation
    <3>11. /\ Close(FALSE) \subseteq Scope(s) /\ Same(s) \subseteq Close(FALSE)
           /\ Same(s) # {} => Close(FALSE) = Same(s)
           /\ Close(FALSE) = {} => Near(s) = {}
      BY <3>10 DEF Nearest, Same, Near
    <3>12. \A p, q \in Same(s) : p = q
      BY <1>2 DEF Same, Scope, Converged, Beside
    <3>5. /\ found \subseteq Scope(s) /\ (found = {} => Near(s) = {})
          /\ \A p \in found : Same(s) \subseteq {p}
      BY <3>3, <3>11, <3>12
    <3>6. Verified(found, op[s].user) = found
      BY <3>5 DEF Verified, Scope
    <3>7. op'[s].hits = found
      BY <3>1, <3>4, <3>6
    <3>8. Scope(s)' = Scope(s) /\ Same(s)' = Same(s) /\ Near(s)' = Near(s)
      BY <1>0, <2>1 DEF Scope, Same, Near, SameAsking, SameOp
    <3>9. Deduplicating(s)'
      BY <1>0, <2>1, <3>1, <3>5, <3>7, <3>8 DEF SameAsking, SameOp, Deduplicating
    <3> QED
      BY <1>2, <1>4, <2>1, <3>9 DEF Converged
  <2> QED
    BY <2>4, <2>5
<1>8. CASE Enter(s, c) \/ CollectionExists(s, c) \/ CreateCollection(s, c) \/ CreateUserIndex(s, c)
           \/ CreateSessionIndex(s, c) \/ GetCollection(s, c) \/ DropIndex(s, c) \/ UpgradeIndex(s, c)
  <2>1. Request(s) \in {"query", "retrieve", "upsert"}
    BY DEF Request
  <2>2. /\ points' = points /\ op' = op
        /\ call[s][c] \notin {"none", "done"} /\ call'[s][c] \notin {"none", "done"}
    BY <1>0, <1>2, <1>8, <2>1
    DEF Enter, CollectionExists, CreateCollection, CreateUserIndex, CreateSessionIndex,
        GetCollection, DropIndex, UpgradeIndex, Alone, EnsuredByOne, TypeOK, qdrant
  <2> QED
    BY <1>0, <1>2, <1>4, <2>2 DEF Converged, Deduplicating, Near, Same, Scope
<1>9. CASE RetrieveOwner(s, c)
  <2>1. /\ points' = points /\ op' = op /\ op[s].phase = "write"
        /\ call[s][c] = "retrieve" /\ call'[s][c] # "none"
    BY <1>0, <1>9 DEF RetrieveOwner, PlaceFits, TypeOK, qdrant
  <2> QED
    BY <1>0, <1>2, <1>4, <2>1 DEF Converged, Deduplicating, Near, Same, Scope
<1> QED
  BY StoreStep(s, c), <1>3, <1>5, <1>6, <1>7, <1>8, <1>9 DEF StoreStep

\* Nothing but an upsert adds a memory.
LEMMA NewPoints ==
  ASSUME [Next]_vars, NEW q \in points', q \notin points
  PROVE  \E s \in Slots, c \in Tiers : Upsert(s, c) \/ UpsertUnanswered(s, c)
<1>1. ~(UNCHANGED vars) /\ ~Tick
  BY DEF vars, qdrant, Tick
<1>2. ASSUME NEW s \in Slots, Begin(s) PROVE FALSE
  BY <1>2 DEF Begin, DeleteUser, Hydrate, SyncWiki, Record, qdrant
<1>3. ASSUME NEW s \in Slots, ManagerStep(s) PROVE FALSE
  BY <1>3 DEF ManagerStep, Embed, Hydrated, Deduplicated, Finished, qdrant
<1>4. ASSUME NEW s \in Slots, NEW c \in Tiers, StoreStep(s, c)
      PROVE  Upsert(s, c) \/ UpsertUnanswered(s, c)
  BY <1>4
  DEF StoreStep, Enter, CollectionExists, CreateCollection, CreateUserIndex, CreateSessionIndex,
      GetCollection, DropIndex, UpgradeIndex, Search, RetrieveOwner, EraseTier, DeletePoints,
      EraseFails, RequestFails, RequestUnanswered, qdrant
<1> QED
  BY <1>1, <1>2, <1>3, <1>4 DEF Next, ManagerStep

\* Only an upsert adds a memory, and it knows what is stored next to it.
LEMMA AddsNews ==
  ASSUME Alone, [Next]_vars, faults' = 0,
         NEW q \in points', \A p \in points : p.id # q.id,
         NEW p \in points, Beside(p, q)
  PROVE  <<p.text, q.text>> \notin Alike
<1>0. TypeOK /\ TypeOK'
  BY ShapeStep DEF Alone, Shape, TypeOK
<1>1. q \notin points
  OBVIOUS
<1>2. PICK s \in Slots, c \in Tiers : Upsert(s, c) \/ UpsertUnanswered(s, c)
  BY <1>1, NewPoints
<1>3. /\ ~UpsertUnanswered(s, c) /\ faults = 0
  BY <1>0, <1>2 DEF Upsert, UpsertUnanswered, Fault, TypeOK
<1>4. Upsert(s, c)
  BY <1>2, <1>3
<1>5. Deduplicating(s) /\ PlaceFits(s, c) /\ PhaseFits(s) /\ op[s] \in Operation
  BY <1>0, <1>3 DEF Alone, TwinsKnown, Shape, TypeOK
<1>6. op[s].kind \in Writes /\ op[s].phase = "write"
  BY <1>4, <1>5 DEF Upsert, At, PlaceFits, PhaseFits, Asking, Operation, Writes
<1>7. /\ c = op[s].tier /\ call[s][c] = "upsert"
      /\ op[s].point_id = None => Near(s) = {}
      /\ op[s].point_id # None => \E r \in Scope(s) : r.id = op[s].point_id
  BY <1>4, <1>5, <1>6 DEF Upsert, At, Deduplicating, Asking
<1>8. q = Written(s, c)
  BY <1>1, <1>4 DEF Upsert, ApplyUpsert
<1>9. op[s].point_id = None
  BY <1>7, <1>8 DEF Written, Scope
<1>10. p \notin Near(s)
  BY <1>7, <1>9
<1> QED
  BY <1>7, <1>8, <1>10 DEF Near, Scope, Written, Beside

\* For one turn at a time and as long as nothing fails, a tier never holds the
\* same text of a user twice, and a memory is added only when no near-duplicate
\* is stored (the write path of manager.py), for any relation of texts that is
\* reflexive and symmetric.
THEOREM OneTurnConverges ==
  ASSUME OneTurn
  PROVE  Spec => []SameTextOnce /\ InsertsOnlyNews
<1>1. Init => Alone
  <2> SUFFICES ASSUME Init PROVE Alone
    OBVIOUS
  <2>1. EnsuredByOne
    BY DEF Init, EnsuredByOne, EnsuredUsable, Ensuring
  <2>2. \A s \in Slots : op[s].phase \notin Asking
    BY IdleInit DEF Asking
  <2>3. TwinsKnown
    BY <2>2 DEF Init, TwinsKnown, Converged, Deduplicating
  <2> QED
    BY <2>1, <2>3, ShapeInit DEF Alone
<1>2. Alone /\ [Next]_vars => Alone'
  <2> SUFFICES ASSUME Alone, [Next]_vars PROVE Alone'
    OBVIOUS
  <2>1. Shape' /\ EnsuredByOne'
    BY ShapeStep, EnsuredByOneStep DEF Alone
  <2>2. ASSUME UNCHANGED vars \/ Tick PROVE TwinsKnown'
    BY <2>2 DEF Alone, TwinsKnown, Converged, Deduplicating, Near, Same, Scope, vars, store, qdrant, Tick
  <2>3. ASSUME \E s \in Slots : Begin(s) \/ ManagerStep(s) \/ \E c \in Tiers : StoreStep(s, c)
        PROVE  TwinsKnown'
    BY <2>3, DeduplicatingBegin, DeduplicatingManager, DeduplicatingStore
  <2>4. TwinsKnown'
    BY <2>2, <2>3 DEF Next, ManagerStep
  <2> QED
    BY <2>1, <2>4 DEF Alone
<1>3. Alone => SameTextOnce
  BY DEF Alone, TwinsKnown, SameTextOnce, Converged
<1>4. Alone /\ [Next]_vars =>
        [faults' = 0 =>
           \A q \in points' : (\A p \in points : p.id # q.id) =>
             \A p \in points : Beside(p, q) => <<p.text, q.text>> \notin Alike]_vars
  BY AddsNews
<1> QED
  BY <1>1, <1>2, <1>3, <1>4, PTL DEF Spec, InsertsOnlyNews
---------------------------------------------------------------------------
\* Hydration, for any tiers, floors of at most the whole budget, and hits.

\* Every set of natural numbers with an element has a least one.
LEMMA LeastNumber ==
  ASSUME NEW N \in SUBSET Nat, N # {}
  PROVE  \E n \in N : \A m \in N : n <= m
<1> DEFINE R == {ss \in Nat \X Nat : ss[1] < ss[2]}
<1>1. R = OpToRel(<, Nat)
  BY DEF OpToRel
<1>2. IsWellFoundedOn(R, Nat)
  BY <1>1, NatLessThanWellFounded
<1> HIDE DEF R
<1>3. PICK n \in N : \A m \in N : <<m, n>> \notin R
  BY <1>2, WFMin
<1>4. ASSUME NEW m \in N PROVE n <= m
  <2>1. ~(m < n)
    BY <1>3 DEF R
  <2> QED
    BY <2>1
<1> QED
  BY <1>4

\* Induction over a finite set, one element less at a time; the claim is the
\* set P of the subsets it holds of, since provers cannot instantiate an operator.
LEMMA SetInduction ==
  ASSUME NEW T, IsFiniteSet(T), NEW P,
         \A s \in SUBSET T : (\A x \in s : s \ {x} \in P) => s \in P
  PROVE  T \in P
<1> DEFINE Bad == {n \in Nat : \E s \in SUBSET T : s \notin P /\ Cardinality(s) = n}
<1>1. SUFFICES ASSUME T \notin P PROVE FALSE
  OBVIOUS
<1>2. Bad # {}
  BY <1>1, FS_CardinalityType
<1>3. PICK n \in Bad : \A m \in Bad : n <= m
  <2>1. Bad \in SUBSET Nat
    OBVIOUS
  <2> HIDE DEF Bad
  <2> QED
    BY <1>2, <2>1, LeastNumber
<1>4. PICK s \in SUBSET T : s \notin P /\ Cardinality(s) = n
  BY <1>3
<1>5. IsFiniteSet(s)
  BY FS_Subset
<1>6. PICK x \in s : s \ {x} \notin P
  BY <1>4
<1>7. n \in Nat /\ Cardinality(s \ {x}) = n - 1 /\ Cardinality(s \ {x}) \in Nat
  BY <1>4, <1>5, <1>6, FS_RemoveElement, FS_CardinalityType
<1>8. n - 1 \in Bad
  BY <1>6, <1>7
<1> HIDE DEF Bad
<1> QED
  BY <1>3, <1>7, <1>8

\* The element a fold takes first, and the value of a sum at s from its values
\* at smaller sets.
First(s) == CHOOSE x \in s : TRUE
Sum(f, g, s) == IF s = {} THEN 0 ELSE f[First(s)] + g[s \ {First(s)}]

\* g holds the sums of f over the subsets of T.
Sums(f, T, g) == g = [s \in SUBSET T |-> Sum(f, g, s)]

\* A fold takes an element of the set.
LEMMA FirstIsElement ==
  ASSUME NEW s, s # {}
  PROVE  First(s) \in s
  BY DEF First

\* The recursion behind the library's fold has a solution.
LEMMA SumsExist ==
  ASSUME NEW f, NEW T, IsFiniteSet(T)
  PROVE  \E g : Sums(f, T, g)
<1> DEFINE Agrees(g, n) == \A s \in SUBSET T : Cardinality(s) <= n => g[s] = Sum(f, g, s)
           Bad == {n \in Nat : ~ \E g : g = [s \in SUBSET T |-> g[s]] /\ Agrees(g, n)}
<1>1. \A s \in SUBSET T : IsFiniteSet(s) /\ Cardinality(s) \in Nat /\ Cardinality(s) <= Cardinality(T)
  BY FS_Subset, FS_CardinalityType
<1>2. Cardinality(T) \in Nat
  BY FS_CardinalityType
<1>3. Cardinality(T) \notin Bad => \E g : Sums(f, T, g)
  <2> SUFFICES ASSUME NEW g, g = [s \in SUBSET T |-> g[s]], Agrees(g, Cardinality(T))
               PROVE  Sums(f, T, g)
    BY <1>2
  <2>1. \A s \in SUBSET T : g[s] = Sum(f, g, s)
    BY <1>1
  <2> QED
    BY <2>1 DEF Sums
<1>4. SUFFICES ASSUME Bad # {} PROVE FALSE
  BY <1>2, <1>3
<1>5. PICK n \in Bad : \A m \in Bad : n <= m
  <2>1. Bad \in SUBSET Nat
    OBVIOUS
  <2> HIDE DEF Bad
  <2> QED
    BY <1>4, <2>1, LeastNumber
<1>6. CASE n = 0
  <2> DEFINE g == [s \in SUBSET T |-> 0]
  <2>1. ASSUME NEW s \in SUBSET T, Cardinality(s) <= 0 PROVE g[s] = Sum(f, g, s)
    <3>1. s = {}
      BY <1>1, <2>1, FS_EmptySet
    <3> QED
      BY <3>1 DEF Sum
  <2>2. g = [s \in SUBSET T |-> g[s]]
    OBVIOUS
  <2> HIDE DEF g
  <2>3. Agrees(g, 0)
    BY <2>1
  <2> QED
    BY <1>5, <1>6, <2>2, <2>3
<1>7. CASE n # 0
  <2>1. n \in Nat /\ n - 1 \in Nat /\ ~(n <= n - 1)
    BY <1>5, <1>7
  <2>2. n - 1 \notin Bad
    <3> HIDE DEF Bad
    <3> QED
      BY <1>5, <2>1
  <2>3. PICK g : g = [s \in SUBSET T |-> g[s]] /\ Agrees(g, n - 1)
    BY <2>1, <2>2
  <2> DEFINE h == [s \in SUBSET T |-> Sum(f, g, s)]
  <2>4. ASSUME NEW s \in SUBSET T, Cardinality(s) <= n PROVE h[s] = Sum(f, h, s)
    <3>1. CASE s = {}
      BY <3>1 DEF Sum
    <3>2. CASE s # {}
      <4> DEFINE r == s \ {First(s)}
      <4>1. First(s) \in s
        BY <3>2, FirstIsElement
      <4>2. r \in SUBSET T /\ Cardinality(r) = Cardinality(s) - 1
        BY <1>1, <4>1, FS_RemoveElement
      <4>3. Cardinality(r) <= n - 1
        BY <1>1, <2>1, <2>4, <4>2
      <4>4. g[r] = Sum(f, g, r)
        BY <2>3, <4>2, <4>3
      <4>5. h[r] = g[r]
        BY <4>2, <4>4
      <4>6. h[s] = f[First(s)] + g[r]
        BY <3>2 DEF Sum
      <4> HIDE DEF h, r
      <4>7. h[s] = f[First(s)] + h[r]
        BY <4>5, <4>6
      <4> QED
        BY <3>2, <4>7 DEF Sum, r
    <3> QED
      BY <3>1, <3>2
  <2>5. h = [s \in SUBSET T |-> h[s]]
    OBVIOUS
  <2> HIDE DEF h
  <2>6. Agrees(h, n)
    BY <2>4
  <2> QED
    BY <1>5, <2>5, <2>6
<1> QED
  BY <1>6, <1>7

\* Two solutions agree where both are defined.
LEMMA SumsAgree ==
  ASSUME NEW f, NEW T, NEW S \in SUBSET T, IsFiniteSet(S),
         NEW g, Sums(f, T, g), NEW h, Sums(f, S, h)
  PROVE  g[S] = h[S]
<1> DEFINE P == {s \in SUBSET S : g[s] = h[s]}
<1>1. ASSUME NEW s \in SUBSET S, \A x \in s : s \ {x} \in P
      PROVE  s \in P
  <2>1. g[s] = Sum(f, g, s) /\ h[s] = Sum(f, h, s)
    BY DEF Sums
  <2>2. s # {} => g[s \ {First(s)}] = h[s \ {First(s)}]
    BY <1>1, FirstIsElement
  <2>3. g[s] = h[s]
    BY <2>1, <2>2 DEF Sum
  <2> QED
    BY <2>3
<1> HIDE DEF P
<1>2. S \in P
  BY <1>1, SetInduction
<1> QED
  BY <1>2 DEF P

\* The library's fold is a solution.
LEMMA TotalIsSum ==
  ASSUME NEW f, NEW T, IsFiniteSet(T)
  PROVE  \E g : Sums(f, T, g) /\ Total(f, T) = g[T]
<1> DEFINE Equation(g) == g = [s \in SUBSET T |->
                                 IF s = {} THEN 0
                                 ELSE f[CHOOSE x \in s : TRUE] + g[s \ {CHOOSE x \in s : TRUE}]]
           total == CHOOSE g : Equation(g)
<1>1. \A g : Equation(g) <=> Sums(f, T, g)
  BY DEF Sums, Sum, First
<1>2. \E g : Equation(g)
  <2> HIDE DEF Equation
  <2> QED
    BY <1>1, SumsExist
<1>3. Total(f, T) = total[T]
  BY DEF Total, SumFunctionOnSet, FoldFunctionOnSet, MapThenFoldSet
<1> HIDE DEF Equation
<1>4. Equation(total)
  BY <1>2
<1> HIDE DEF total
<1> QED
  BY <1>1, <1>3, <1>4

\* Nothing adds up to zero.
LEMMA TotalOfNone ==
  ASSUME NEW f
  PROVE  Total(f, {}) = 0
<1>1. IsFiniteSet({})
  BY FS_EmptySet
<1>2. PICK g : Sums(f, {}, g) /\ Total(f, {}) = g[{}]
  BY <1>1, TotalIsSum
<1>3. g[{}] = Sum(f, g, {})
  BY <1>2 DEF Sums
<1> QED
  BY <1>2, <1>3 DEF Sum

\* A sum takes one element and adds the sum of the others.
LEMMA TotalTakesFirst ==
  ASSUME NEW f, NEW T, IsFiniteSet(T), T # {}
  PROVE  First(T) \in T /\ Total(f, T) = f[First(T)] + Total(f, T \ {First(T)})
<1> DEFINE S == T \ {First(T)}
<1>1. IsFiniteSet(S)
  BY FS_RemoveElement
<1>2. PICK g : Sums(f, T, g) /\ Total(f, T) = g[T]
  BY TotalIsSum
<1>3. PICK h : Sums(f, S, h) /\ Total(f, S) = h[S]
  BY <1>1, TotalIsSum
<1>4. g[T] = f[First(T)] + g[S]
  <2>1. g[T] = Sum(f, g, T)
    BY <1>2 DEF Sums
  <2> QED
    BY <2>1 DEF Sum
<1>5. g[S] = h[S]
  <2>1. S \in SUBSET T
    OBVIOUS
  <2> HIDE DEF S
  <2> QED
    BY <1>1, <1>2, <1>3, <2>1, SumsAgree
<1> QED
  BY <1>2, <1>3, <1>4, <1>5, FirstIsElement

\* Sums of integers are integers.
LEMMA TotalIsInt ==
  ASSUME NEW f, NEW T, IsFiniteSet(T), \A x \in T : f[x] \in Int
  PROVE  Total(f, T) \in Int
<1> DEFINE P == {s \in SUBSET T : Total(f, s) \in Int}
<1>1. ASSUME NEW s \in SUBSET T, \A x \in s : s \ {x} \in P
      PROVE  s \in P
  <2>1. CASE s = {}
    BY <2>1, TotalOfNone
  <2>2. CASE s # {}
    <3>1. IsFiniteSet(s)
      BY FS_Subset
    <3>2. First(s) \in s /\ Total(f, s) = f[First(s)] + Total(f, s \ {First(s)})
      BY <2>2, <3>1, TotalTakesFirst
    <3> QED
      BY <1>1, <3>2
  <2> QED
    BY <2>1, <2>2
<1> HIDE DEF P
<1>2. T \in P
  BY <1>1, SetInduction
<1> QED
  BY <1>2 DEF P

\* The order does not matter: any element may be taken first.
LEMMA TotalTakesAny ==
  ASSUME NEW f, NEW T, IsFiniteSet(T), \A x \in T : f[x] \in Int
  PROVE  \A x \in T : Total(f, T) = f[x] + Total(f, T \ {x})
<1> DEFINE P == {s \in SUBSET T : \A x \in s : Total(f, s) = f[x] + Total(f, s \ {x})}
<1>1. ASSUME NEW s \in SUBSET T, \A x \in s : s \ {x} \in P
      PROVE  s \in P
  <2>1. ASSUME NEW x \in s PROVE Total(f, s) = f[x] + Total(f, s \ {x})
    <3> DEFINE c == First(s)
               r == (s \ {c}) \ {x}
    <3>1. IsFiniteSet(s) /\ IsFiniteSet(s \ {x}) /\ IsFiniteSet(r)
      BY FS_Subset
    <3>2. c \in s /\ Total(f, s) = f[c] + Total(f, s \ {c})
      BY <3>1, TotalTakesFirst
    <3>3. CASE x = c
      BY <3>2, <3>3
    <3>4. CASE x # c
      <4>1. Total(f, s \ {c}) = f[x] + Total(f, r)
        BY <1>1, <3>2, <3>4
      <4>2. r = (s \ {x}) \ {c}
        OBVIOUS
      <4>3. Total(f, s \ {x}) = f[c] + Total(f, r)
        BY <1>1, <3>2, <3>4, <4>2
      <4>4. Total(f, r) \in Int
        BY <3>1, TotalIsInt
      <4> HIDE DEF r, c
      <4> QED
        BY <3>2, <4>1, <4>3, <4>4
    <3> QED
      BY <3>3, <3>4
  <2> QED
    BY <2>1
<1> HIDE DEF P
<1>2. T \in P
  BY <1>1, SetInduction
<1> QED
  BY <1>2 DEF P

\* The sum of sums.
LEMMA TotalAdds ==
  ASSUME NEW T, IsFiniteSet(T), NEW f, NEW g, NEW h,
         \A x \in T : f[x] \in Int /\ g[x] \in Int /\ h[x] = f[x] + g[x]
  PROVE  Total(h, T) = Total(f, T) + Total(g, T)
<1> DEFINE P == {s \in SUBSET T : Total(h, s) = Total(f, s) + Total(g, s)}
<1>1. ASSUME NEW s \in SUBSET T, \A x \in s : s \ {x} \in P
      PROVE  s \in P
  <2>1. CASE s = {}
    BY <2>1, TotalOfNone
  <2>2. CASE s # {}
    <3> DEFINE c == First(s)
               r == s \ {c}
    <3>1. IsFiniteSet(s) /\ IsFiniteSet(r)
      BY FS_Subset
    <3>2. /\ c \in s
          /\ Total(f, s) = f[c] + Total(f, r)
          /\ Total(g, s) = g[c] + Total(g, r)
          /\ Total(h, s) = h[c] + Total(h, r)
      BY <2>2, <3>1, TotalTakesFirst
    <3>3. Total(f, r) \in Int /\ Total(g, r) \in Int
      BY <3>1, TotalIsInt
    <3>4. Total(h, r) = Total(f, r) + Total(g, r)
      BY <1>1, <3>2
    <3>5. f[c] \in Int /\ g[c] \in Int /\ h[c] = f[c] + g[c]
      BY <3>2
    <3> HIDE DEF r, c
    <3> QED
      BY <3>2, <3>3, <3>4, <3>5
  <2> QED
    BY <2>1, <2>2
<1> HIDE DEF P
<1>2. T \in P
  BY <1>1, SetInduction
<1> QED
  BY <1>2 DEF P

\* A common factor can be taken out of a sum.
LEMMA TotalScales ==
  ASSUME NEW T, IsFiniteSet(T), NEW d \in Int, NEW f, NEW h,
         \A x \in T : f[x] \in Int /\ h[x] = d * f[x]
  PROVE  Total(h, T) = d * Total(f, T)
<1> DEFINE P == {s \in SUBSET T : Total(h, s) = d * Total(f, s)}
<1>1. ASSUME NEW s \in SUBSET T, \A x \in s : s \ {x} \in P
      PROVE  s \in P
  <2>1. CASE s = {}
    BY <2>1, TotalOfNone
  <2>2. CASE s # {}
    <3> DEFINE c == First(s)
               r == s \ {c}
    <3>1. IsFiniteSet(s) /\ IsFiniteSet(r)
      BY FS_Subset
    <3>2. /\ c \in s
          /\ Total(f, s) = f[c] + Total(f, r)
          /\ Total(h, s) = h[c] + Total(h, r)
      BY <2>2, <3>1, TotalTakesFirst
    <3>3. Total(f, r) \in Int
      BY <3>1, TotalIsInt
    <3>4. Total(h, r) = d * Total(f, r)
      BY <1>1, <3>2
    <3>5. f[c] \in Int /\ h[c] = d * f[c]
      BY <3>2
    <3> HIDE DEF r, c
    <3>6. \A a, b \in Int : d * a + d * b = d * (a + b)
      OBVIOUS
    <3>7. Total(h, s) = d * f[c] + d * Total(f, r)
      BY <3>2, <3>4, <3>5
    <3> QED
      BY <3>2, <3>3, <3>5, <3>6, <3>7
  <2> QED
    BY <2>1, <2>2
<1> HIDE DEF P
<1>2. T \in P
  BY <1>1, SetInduction
<1> QED
  BY <1>2 DEF P

\* A sum of larger values is larger.
LEMMA TotalIsMonotone ==
  ASSUME NEW T, IsFiniteSet(T), NEW f, NEW g,
         \A x \in T : f[x] \in Int /\ g[x] \in Int /\ f[x] <= g[x]
  PROVE  Total(f, T) <= Total(g, T)
<1> DEFINE P == {s \in SUBSET T : Total(f, s) <= Total(g, s)}
<1>1. ASSUME NEW s \in SUBSET T, \A x \in s : s \ {x} \in P
      PROVE  s \in P
  <2>1. CASE s = {}
    BY <2>1, TotalOfNone
  <2>2. CASE s # {}
    <3> DEFINE c == First(s)
               r == s \ {c}
    <3>1. IsFiniteSet(s) /\ IsFiniteSet(r)
      BY FS_Subset
    <3>2. /\ c \in s
          /\ Total(f, s) = f[c] + Total(f, r)
          /\ Total(g, s) = g[c] + Total(g, r)
      BY <2>2, <3>1, TotalTakesFirst
    <3>3. Total(f, r) \in Int /\ Total(g, r) \in Int
      BY <3>1, TotalIsInt
    <3>4. Total(f, r) <= Total(g, r)
      BY <1>1, <3>2
    <3>5. f[c] \in Int /\ g[c] \in Int /\ f[c] <= g[c]
      BY <3>2
    <3> HIDE DEF r, c
    <3> QED
      BY <3>2, <3>3, <3>4, <3>5
  <2> QED
    BY <2>1, <2>2
<1> HIDE DEF P
<1>2. T \in P
  BY <1>1, SetInduction
<1> QED
  BY <1>2 DEF P

\* A sum of values of zero and more is zero or more.
LEMMA TotalIsNat ==
  ASSUME NEW T, IsFiniteSet(T), NEW f, \A x \in T : f[x] \in Nat
  PROVE  Total(f, T) \in Nat
<1> DEFINE P == {s \in SUBSET T : Total(f, s) \in Nat}
<1>1. ASSUME NEW s \in SUBSET T, \A x \in s : s \ {x} \in P
      PROVE  s \in P
  <2>1. CASE s = {}
    BY <2>1, TotalOfNone
  <2>2. CASE s # {}
    <3>1. IsFiniteSet(s)
      BY FS_Subset
    <3>2. First(s) \in s /\ Total(f, s) = f[First(s)] + Total(f, s \ {First(s)})
      BY <2>2, <3>1, TotalTakesFirst
    <3> QED
      BY <1>1, <3>2
  <2> QED
    BY <2>1, <2>2
<1> HIDE DEF P
<1>2. T \in P
  BY <1>1, SetInduction
<1> QED
  BY <1>2 DEF P

\* It is no less than any of the values.
LEMMA TotalHasEach ==
  ASSUME NEW T, IsFiniteSet(T), NEW f, \A x \in T : f[x] \in Nat
  PROVE  \A x \in T : f[x] <= Total(f, T)
<1>1. SUFFICES ASSUME NEW x \in T PROVE f[x] <= Total(f, T)
  OBVIOUS
<1>2. Total(f, T) = f[x] + Total(f, T \ {x})
  BY TotalTakesAny
<1>3. Total(f, T \ {x}) \in Nat
  BY FS_RemoveElement, TotalIsNat
<1> QED
  BY <1>2, <1>3

\* Over fewer of them it is no larger.
LEMMA TotalOfFewer ==
  ASSUME NEW T, IsFiniteSet(T), NEW f, \A x \in T : f[x] \in Nat, NEW S \in SUBSET T
  PROVE  Total(f, S) <= Total(f, T)
<1> DEFINE P == {s \in SUBSET T : Total(f, s \cap S) <= Total(f, s)}
<1>1. ASSUME NEW s \in SUBSET T, \A x \in s : s \ {x} \in P
      PROVE  s \in P
  <2>1. CASE s = {}
    <3>1. s \cap S = {}
      BY <2>1
    <3> QED
      BY <2>1, <3>1, TotalOfNone
  <2>2. CASE s # {}
    <3>1. PICK x \in s : TRUE
      BY <2>2
    <3> DEFINE r == s \ {x}
               both == s \cap S
    <3>2. IsFiniteSet(s) /\ IsFiniteSet(r) /\ IsFiniteSet(both) /\ IsFiniteSet(r \cap S)
      BY FS_Subset
    <3>3. f[x] \in Nat /\ Total(f, s) = f[x] + Total(f, r)
      BY <3>2, TotalTakesAny
    <3>4. Total(f, r) \in Nat /\ Total(f, r \cap S) \in Nat
      BY <3>2, TotalIsNat
    <3>5. Total(f, r \cap S) <= Total(f, r)
      BY <1>1
    <3>6. x \in S => Total(f, both) = f[x] + Total(f, r \cap S)
      <4>1. HAVE x \in S
      <4>2. x \in both /\ both \ {x} = r \cap S
        BY <4>1
      <4>3. \A y \in both : f[y] \in Int
        OBVIOUS
      <4> HIDE DEF both, r
      <4> QED
        BY <3>2, <4>2, <4>3, TotalTakesAny
    <3>7. x \notin S => both = r \cap S
      OBVIOUS
    <3>8. Total(f, both) <= Total(f, s)
      <4> HIDE DEF both, r
      <4>1. CASE x \in S
        BY <3>3, <3>4, <3>5, <3>6, <4>1
      <4>2. CASE x \notin S
        BY <3>3, <3>4, <3>5, <3>7, <4>2
      <4> QED
        BY <4>1, <4>2
    <3> QED
      BY <3>8
  <2> QED
    BY <2>1, <2>2
<1> HIDE DEF P
<1>2. T \in P
  BY <1>1, SetInduction
<1>3. T \cap S = S
  OBVIOUS
<1> QED
  BY <1>2, <1>3 DEF P

\* Where the other values are zero, the sum is that of the rest.
LEMMA TotalOfRest ==
  ASSUME NEW T, IsFiniteSet(T), NEW f, \A x \in T : f[x] \in Nat,
         NEW S \in SUBSET T, \A x \in T \ S : f[x] = 0
  PROVE  Total(f, S) = Total(f, T)
<1> DEFINE P == {s \in SUBSET T : Total(f, s \cap S) = Total(f, s)}
<1>1. ASSUME NEW s \in SUBSET T, \A x \in s : s \ {x} \in P
      PROVE  s \in P
  <2>1. CASE s = {}
    <3>1. s \cap S = {}
      BY <2>1
    <3> QED
      BY <2>1, <3>1, TotalOfNone
  <2>2. CASE s # {}
    <3>1. PICK x \in s : TRUE
      BY <2>2
    <3> DEFINE r == s \ {x}
               both == s \cap S
    <3>2. IsFiniteSet(s) /\ IsFiniteSet(r) /\ IsFiniteSet(both) /\ IsFiniteSet(r \cap S)
      BY FS_Subset
    <3>3. f[x] \in Nat /\ Total(f, s) = f[x] + Total(f, r)
      BY <3>2, TotalTakesAny
    <3>4. Total(f, r) \in Nat /\ Total(f, r \cap S) \in Nat
      BY <3>2, TotalIsNat
    <3>5. Total(f, r \cap S) = Total(f, r)
      BY <1>1
    <3>6. x \in S => Total(f, both) = f[x] + Total(f, r \cap S)
      <4>1. HAVE x \in S
      <4>2. x \in both /\ both \ {x} = r \cap S
        BY <4>1
      <4>3. \A y \in both : f[y] \in Int
        OBVIOUS
      <4> HIDE DEF both, r
      <4> QED
        BY <3>2, <4>2, <4>3, TotalTakesAny
    <3>7. x \notin S => both = r \cap S
      OBVIOUS
    <3>8. Total(f, both) = Total(f, s)
      <4> HIDE DEF both, r
      <4>1. CASE x \in S
        BY <3>3, <3>4, <3>5, <3>6, <4>1
      <4>2. CASE x \notin S
        <5>1. f[x] = 0
          BY <4>2
        <5>2. Total(f, both) = Total(f, r \cap S)
          BY <3>7, <4>2
        <5>3. Total(f, s) = Total(f, r)
          BY <3>3, <3>4, <5>1
        <5> QED
          BY <3>5, <5>2, <5>3
      <4> QED
        BY <4>1, <4>2
    <3> QED
      BY <3>8
  <2> QED
    BY <2>1, <2>2
<1> HIDE DEF P
<1>2. T \in P
  BY <1>1, SetInduction
<1>3. T \cap S = S
  OBVIOUS
<1> QED
  BY <1>2, <1>3 DEF P

\* Division truncates: the quotient is the whole part of the fraction.
LEMMA Quotient ==
  ASSUME NEW a \in Nat, NEW d \in Nat \ {0}
  PROVE  a \div d \in Nat /\ d * (a \div d) <= a /\ a < d * (a \div d + 1)
  OBVIOUS

\* Factors can be cancelled.
LEMMA Cancelled ==
  ASSUME NEW a \in Int, NEW b \in Int, NEW d \in Nat \ {0}
  PROVE  (d * a <= d * b => a <= b) /\ (d * a < d * b => a < b)
  OBVIOUS

\* The larger number has the larger quotient.
LEMMA QuotientIsMonotone ==
  ASSUME NEW a \in Nat, NEW b \in Nat, a <= b, NEW d \in Nat \ {0}
  PROVE  a \div d <= b \div d
<1>1. d * (a \div d) <= a /\ b < d * (b \div d + 1) /\ a \div d \in Nat /\ b \div d \in Nat
  BY Quotient
<1>2. ASSUME NEW p \in Nat, NEW q \in Nat, d * p < d * (q + 1)
      PROVE  p <= q
  BY <1>2, Cancelled
<1>3. d * (a \div d) < d * (b \div d + 1)
  BY <1>1
<1> QED
  BY <1>1, <1>2, <1>3

\* Shares of R in proportion to m, each truncated, do not exceed R together, and
\* one more token for each of them would.
LEMMA ProportionalShares ==
  ASSUME NEW T, IsFiniteSet(T), NEW R \in Nat, NEW D \in Nat \ {0},
         NEW m, \A t \in T : m[t] \in Nat, Total(m, T) = D,
         NEW q, \A t \in T : q[t] = (R * m[t]) \div D
  PROVE  /\ Total(q, T) <= R
         /\ \A p : (\A t \in T : p[t] = q[t] + 1) => R < Total(p, T)
<1> DEFINE whole == [t \in T |-> R * m[t]]
           below == [t \in T |-> D * q[t]]
<1>1. ASSUME NEW t \in T
      PROVE  /\ R * m[t] \in Nat /\ q[t] \in Nat
             /\ D * q[t] <= R * m[t] /\ R * m[t] < D * (q[t] + 1)
  <2>1. m[t] \in Nat /\ R * m[t] \in Nat
    OBVIOUS
  <2> QED
    BY <2>1, Quotient
<1>2. Total(whole, T) = D * R
  <2>1. \A t \in T : m[t] \in Int /\ whole[t] = R * m[t]
    OBVIOUS
  <2> HIDE DEF whole
  <2>2. Total(whole, T) = R * D
    <3>1. R \in Int
      OBVIOUS
    <3>2. Total(whole, T) = R * Total(m, T)
      BY <2>1, <3>1, TotalScales
    <3> QED
      BY <3>2
  <2>3. R * D = D * R
    OBVIOUS
  <2> QED
    BY <2>2, <2>3
<1>3. Total(below, T) = D * Total(q, T)
  <2>1. \A t \in T : q[t] \in Int /\ below[t] = D * q[t]
    BY <1>1
  <2> HIDE DEF below
  <2> QED
    BY <2>1, TotalScales
<1>4. Total(below, T) <= Total(whole, T)
  <2>1. \A t \in T : below[t] \in Int /\ whole[t] \in Int /\ below[t] <= whole[t]
    BY <1>1
  <2> HIDE DEF below, whole
  <2> QED
    BY <2>1, TotalIsMonotone
<1>5. Total(q, T) \in Int
  BY <1>1, TotalIsInt
<1>6. Total(q, T) <= R
  <2> HIDE DEF below, whole
  <2> QED
    BY <1>2, <1>3, <1>4, <1>5, Cancelled
<1>7. ASSUME NEW p, \A t \in T : p[t] = q[t] + 1
      PROVE  R < Total(p, T)
  <2> DEFINE above == [t \in T |-> D * p[t]]
             next  == [t \in T |-> R * m[t] + 1]
             one   == [t \in T |-> 1]
  <2>1. \A t \in T : /\ p[t] \in Int /\ above[t] = D * p[t] /\ next[t] = whole[t] + one[t]
                     /\ whole[t] \in Int /\ one[t] = 1 /\ next[t] <= above[t]
                     /\ next[t] \in Int /\ above[t] \in Int
    BY <1>1, <1>7
  <2> HIDE DEF above, next, one, whole
  <2>2. Total(above, T) = D * Total(p, T) /\ Total(p, T) \in Int
    <3>1. D \in Int /\ \A t \in T : p[t] \in Int /\ above[t] = D * p[t]
      BY <2>1
    <3>2. Total(p, T) \in Int
      BY <3>1, TotalIsInt
    <3>3. Total(above, T) = D * Total(p, T)
      BY <3>1, TotalScales
    <3> QED
      BY <3>2, <3>3
  <2>3. Total(next, T) = Total(whole, T) + Total(one, T)
    <3>1. \A t \in T : whole[t] \in Int /\ one[t] \in Int /\ next[t] = whole[t] + one[t]
      BY <2>1
    <3> QED
      BY <3>1, TotalAdds
  <2>4. Total(next, T) <= Total(above, T)
    <3>1. \A t \in T : next[t] \in Int /\ above[t] \in Int /\ next[t] <= above[t]
      BY <2>1
    <3> QED
      BY <3>1, TotalIsMonotone
  <2>5. Total(one, T) \in Nat \ {0}
    <3>1. T # {}
      BY TotalOfNone
    <3>2. PICK t \in T : TRUE
      BY <3>1
    <3>3. \A x \in T : one[x] \in Nat
      BY <2>1
    <3>4. one[t] <= Total(one, T) /\ Total(one, T) \in Nat
      BY <3>3, TotalHasEach, TotalIsNat
    <3> QED
      BY <2>1, <3>4
  <2>6. D * R < D * Total(p, T)
    BY <1>2, <2>2, <2>3, <2>4, <2>5
  <2> QED
    BY <2>2, <2>6, Cancelled
<1> QED
  BY <1>6, <1>7

---------------------------------------------------------------------------

\* The shares depend on the hits alone, which a hydration does not change once
\* it has them (manager.py:106-112).
LEMMA SharesStay ==
  ASSUME hits' = hits, NEW t
  PROVE  PerTier' = PerTier /\ Share(t)' = Share(t)
<1>1. PerTier' = PerTier
  BY DEF PerTier
<1>2. \A u : Mean(u)' = Mean(u)
  BY DEF Mean, Scores
<1>3. Remainder' = Remainder
  BY <1>1 DEF Remainder, FloorOf
<1>4. Share(t)' = Share(t)
  BY <1>1, <1>2, <1>3 DEF Share
<1> QED
  BY <1>1, <1>4

\* Type correctness, and what it needs to be inductive: the allocation is what
\* was allocated, and no tier has spent more.
HydrationInv ==
  /\ hits \in [Searched -> Results]
  /\ packed \in [Searched -> Nat]
  /\ \A t \in Searched : packed[t] <= Len(hits[t])
  /\ packing \subseteq PerTier
  /\ \/ allocation = <<>> /\ packing = {}
     \/ allocation = [t \in PerTier |-> FloorOf(t) + Share(t)]
  /\ \A t \in Searched : packed[t] = 0 \/ Spent(t) <= FloorOf(t) + Share(t)

\* What a search returns is a sequence of hits (store.search).
LEMMA ResultsAreHits ==
  ASSUME hits \in [Searched -> Results], NEW t \in Searched
  PROVE  /\ Len(hits[t]) \in Nat /\ DOMAIN hits[t] = 1 .. Len(hits[t])
         /\ \A i \in 1 .. Len(hits[t]) :
              hits[t][i].score \in Int /\ hits[t][i].cost \in Nat \ {0}
<1>1. PICK n \in 0 .. MaxHits : hits[t] \in [1 .. n -> Hits]
  BY DEF Results
<1>2. MaxHits \in Nat /\ n \in Nat
  BY HydrationAssumption
<1>3. hits[t] \in Seq(Hits) /\ Len(hits[t]) = n
  <2>1. hits[t] \in Seq(Hits)
    BY <1>1, <1>2 
  <2> QED
    BY <1>1, <1>2, <2>1, LenProperties
<1>4. \A h \in Hits : h.score \in Int /\ h.cost \in Nat \ {0}
  BY HydrationAssumption
<1> QED
  BY <1>1, <1>2, <1>3, <1>4

\* The places of a sequence are finitely many.
LEMMA PlacesAreFinite ==
  ASSUME NEW n \in Nat
  PROVE  IsFiniteSet(1 .. n)
  BY FS_Interval

\* The tokens of a tier's packed hits: none at first, and one more hit adds
\* its cost (manager.py:116-121).
LEMMA SpentGrows ==
  ASSUME hits \in [Searched -> Results], NEW t \in Searched,
         NEW n \in Nat, n < Len(hits[t]), NEW costs,
         \A i \in 1 .. Len(hits[t]) : costs[i] = hits[t][i].cost
  PROVE  Total(costs, 1 .. n + 1) = Total(costs, 1 .. n) + hits[t][n + 1].cost
<1>1. \A i \in 1 .. n + 1 : costs[i] \in Int /\ costs[i] = hits[t][i].cost
  <2>1. /\ Len(hits[t]) \in Nat /\ DOMAIN hits[t] = 1 .. Len(hits[t])
        /\ \A i \in 1 .. Len(hits[t]) : hits[t][i].cost \in Nat
    BY ResultsAreHits
  <2>2. \A i \in 1 .. n + 1 : i \in 1 .. Len(hits[t])
    BY <2>1
  <2> QED
    BY <2>1, <2>2
<1>2. IsFiniteSet(1 .. n + 1) /\ IsFiniteSet(1 .. n)
  BY PlacesAreFinite
<1>3. n + 1 \in 1 .. n + 1 /\ (1 .. n + 1) \ {n + 1} = 1 .. n
  OBVIOUS
<1>4. \A x \in 1 .. n + 1 : Total(costs, 1 .. n + 1) = costs[x] + Total(costs, (1 .. n + 1) \ {x})
  BY <1>1, <1>2, TotalTakesAny
<1>5. Total(costs, 1 .. n + 1) = costs[n + 1] + Total(costs, 1 .. n)
  BY <1>3, <1>4
<1>6. Total(costs, 1 .. n) \in Int
  <2>1. \A i \in 1 .. n : costs[i] \in Int
    BY <1>1
  <2> QED
    BY <1>2, <2>1, TotalIsInt
<1> QED
  BY <1>1, <1>3, <1>5, <1>6

\* The floors of the tiers searched are within the budget (manager.py:106).
LEMMA FloorsFit ==
  ASSUME NEW T \in SUBSET Searched, NEW g,
         \A t \in T : g[t] = FloorOf(t)
  PROVE  (\A t \in T : g[t] \in Nat) /\ Total(g, T) \in 0 .. Budget
<1>1. /\ Budget \in Nat /\ IsFiniteSet(Searched) /\ IsFiniteSet(T)
      /\ \A t \in Searched : Floor[t] \in Nat
      /\ Total(Floor, Searched) <= 100
  <2>1. IsFiniteSet(Searched)
    BY HydrationAssumption
  <2> QED
    BY <2>1, FS_Subset, HydrationAssumption DEF Total
<1>2. ASSUME NEW t \in T
      PROVE  /\ g[t] \in Nat /\ Budget * Floor[t] \in Nat
             /\ 100 * g[t] <= Budget * Floor[t]
  <2>1. Budget * Floor[t] \in Nat
    BY <1>1
  <2> QED
    BY <2>1, Quotient DEF FloorOf
<1> DEFINE a == [t \in T |-> 100 * g[t]]
           b == [t \in T |-> Budget * Floor[t]]
<1>3. Total(a, T) = 100 * Total(g, T)
  <2>1. \A t \in T : g[t] \in Int /\ a[t] = 100 * g[t]
    BY <1>2
  <2> HIDE DEF a
  <2>2. 100 \in Int /\ IsFiniteSet(T)
    BY <1>1
  <2> QED
    BY <2>1, <2>2, TotalScales
<1>4. Total(b, T) = Budget * Total(Floor, T)
  <2>1. \A t \in T : Floor[t] \in Int /\ b[t] = Budget * Floor[t]
    BY <1>1
  <2> HIDE DEF b
  <2> QED
    BY <1>1, <2>1, TotalScales
<1>5. Total(a, T) <= Total(b, T)
  <2>1. \A t \in T : a[t] \in Int /\ b[t] \in Int /\ a[t] <= b[t]
    BY <1>2
  <2> HIDE DEF a, b
  <2> QED
    BY <1>1, <2>1, TotalIsMonotone
<1> HIDE DEF a, b
<1>6. Total(Floor, T) <= Total(Floor, Searched) /\ Total(Floor, T) \in Nat /\ Total(Floor, Searched) \in Nat
  BY <1>1, TotalOfFewer, TotalIsNat
<1>7. Total(g, T) \in Nat
  BY <1>1, <1>2, TotalIsNat
<1>8. Budget * Total(Floor, T) <= Budget * 100
  BY <1>1, <1>6
<1>9. 100 * Total(g, T) <= 100 * Budget
  BY <1>1, <1>3, <1>4, <1>5, <1>6, <1>7, <1>8
<1> QED
  BY <1>1, <1>2, <1>7, <1>9

\* Where no mean is negative, they are natural numbers (manager.py:108).
LEMMA MeansAreNat ==
  ASSUME hits \in [Searched -> Results], NoneOpposite, NEW t \in PerTier
  PROVE  Mean(t) \in Nat
<1>1. t \in Searched /\ hits[t] # <<>>
  BY DEF PerTier
<1>2. /\ Len(hits[t]) \in Nat /\ DOMAIN hits[t] = 1 .. Len(hits[t])
      /\ \A i \in 1 .. Len(hits[t]) : hits[t][i].score \in Int
  BY <1>1, ResultsAreHits
<1>3. Len(hits[t]) # 0
  <2>1. PICK n \in 0 .. MaxHits : hits[t] \in [1 .. n -> Hits]
    BY <1>1 DEF Results
  <2>2. hits[t] \in Seq(Hits)
    BY <2>1, HydrationAssumption
  <2> QED
    BY <1>1, <2>2, EmptySeq
<1> DEFINE places == DOMAIN hits[t]
           scores == [i \in places |-> hits[t][i].score]
<1>4. Total(scores, places) \in Int
  <2>1. \A i \in places : scores[i] \in Int
    BY <1>2
  <2>2. IsFiniteSet(places)
    <3>1. places = 1 .. Len(hits[t]) /\ Len(hits[t]) \in Nat
      BY <1>2
    <3> HIDE DEF places
    <3> QED
      BY <3>1, PlacesAreFinite
  <2> HIDE DEF scores, places
  <2> QED
    BY <2>1, <2>2, TotalIsInt
<1>5. Scale \div Len(hits[t]) \in Nat
  BY <1>2, <1>3, Quotient, HydrationAssumption
<1>6. Mean(t) = Total(scores, places) * (Scale \div Len(hits[t]))
  BY DEF Mean, Scores
<1>7. \A a \in Int, b \in Nat : a * b \in Int
  OBVIOUS
<1> HIDE DEF scores, places
<1>8. Mean(t) \in Int
  BY <1>4, <1>5, <1>6, <1>7
<1> QED
  BY <1>8 DEF NoneOpposite

\* The remainder is what the floors leave of the budget (manager.py:107).
LEMMA RemainderIsRest ==
  ASSUME NEW g, g = [t \in PerTier |-> FloorOf(t)]
  PROVE  /\ Remainder \in Nat /\ Total(g, PerTier) \in Nat
         /\ Total(g, PerTier) + Remainder = Budget
<1>1. PerTier \in SUBSET Searched /\ \A t \in PerTier : g[t] = FloorOf(t)
  BY DEF PerTier
<1>2. Total(g, PerTier) \in 0 .. Budget
  BY <1>1, FloorsFit
<1>3. Budget \in Nat
  BY HydrationAssumption
<1> DEFINE total == Total(g, PerTier)
<1>4. Remainder = Max({0, Budget - total})
  BY DEF Remainder
<1> HIDE DEF total
<1>5. total \in 0 .. Budget
  BY <1>2 DEF total
<1>6. Max({0, Budget - total}) = Budget - total
  <2>1. \A m \in {0, Budget - total} : Budget - total >= m
    BY <1>3, <1>5
  <2>2. \A m \in {0, Budget - total} : m >= Budget - total => m = Budget - total
    BY <1>3, <1>5
  <2> QED
    BY <2>1, <2>2 DEF Max
<1>7. total + Remainder = Budget /\ Remainder \in Nat /\ total \in Nat
  BY <1>3, <1>4, <1>5, <1>6
<1> QED
  BY <1>7 DEF total

\* Where no mean is negative, the shares of the remainder are in proportion to
\* the means and truncated, or nothing if all means are (manager.py:109-112).
LEMMA ShareIsQuotient ==
  ASSUME hits \in [Searched -> Results], NoneOpposite,
         NEW means, means = [u \in PerTier |-> Mean(u)], NEW t \in PerTier
  PROVE  /\ Total(means, PerTier) \in Nat /\ Mean(t) <= Total(means, PerTier)
         /\ Total(means, PerTier) # 0 =>
              Share(t) = (Remainder * Mean(t)) \div Total(means, PerTier)
         /\ Total(means, PerTier) = 0 => Share(t) = 0
<1>1. IsFiniteSet(PerTier)
  <2>1. IsFiniteSet(Searched)
    BY HydrationAssumption
  <2> QED
    BY <2>1, FS_Subset DEF PerTier
<1>2. \A u \in PerTier : means[u] \in Nat /\ means[u] = Mean(u)
  BY MeansAreNat
<1>3. Remainder \in Nat
  BY RemainderIsRest
<1>4. Unit * Scale \in Nat \ {0}
  BY HydrationAssumption
<1> DEFINE total == Total(means, PerTier)
<1>5. total \in Nat /\ Mean(t) <= total
  <2>1. \A u \in PerTier : means[u] \in Nat
    BY <1>2
  <2> QED
    BY <1>1, <1>2, <2>1, TotalIsNat, TotalHasEach
<1>6. Share(t) = Truncate(Remainder * Mean(t), IF total = 0 THEN Unit * Scale ELSE total)
  BY DEF Share
<1> HIDE DEF total
<1>7. Mean(t) \in Nat /\ Remainder * Mean(t) \in Nat
  BY <1>2, <1>3
<1>8. ASSUME NEW a \in Nat, NEW b \in Nat \ {0}
      PROVE  Truncate(a, b) = a \div b
  BY DEF Truncate
<1>9. total # 0 => Share(t) = (Remainder * Mean(t)) \div total
  BY <1>5, <1>6, <1>7, <1>8
<1>10. total = 0 => Share(t) = 0
  <2>1. HAVE total = 0
  <2>2. Mean(t) = 0
    BY <1>5, <1>7, <2>1
  <2>3. Remainder * Mean(t) = 0
    BY <1>3, <2>2
  <2>4. 0 \div (Unit * Scale) = 0
    BY <1>4
  <2>5. Share(t) = Truncate(0, Unit * Scale)
    BY <1>6, <2>1, <2>3
  <2> QED
    BY <1>4, <1>8, <2>4, <2>5
<1> QED
  BY <1>5, <1>9, <1>10 DEF total

\* What FairlyShared says, of the shares of the remainder.
LEMMA SharesAreFair ==
  ASSUME hits \in [Searched -> Results], NoneOpposite,
         NEW shares, shares = [u \in PerTier |-> Share(u)]
  PROVE  /\ IsFiniteSet(PerTier) /\ \A t \in PerTier : shares[t] \in Nat
         /\ Total(shares, PerTier) <= Remainder
         /\ \A t, u \in PerTier : Mean(t) >= Mean(u) => shares[t] >= shares[u]
         /\ (\E t \in PerTier : Mean(t) > 0) =>
              \A p : (\A t \in PerTier : p[t] = shares[t] + 1) =>
                       Remainder < Total(p, PerTier)
<1>1. IsFiniteSet(PerTier)
  <2>1. IsFiniteSet(Searched)
    BY HydrationAssumption
  <2> QED
    BY <2>1, FS_Subset DEF PerTier
<1>2. Remainder \in Nat
  BY RemainderIsRest
<1> DEFINE means == [u \in PerTier |-> Mean(u)]
           D     == Total(means, PerTier)
<1>3. \A t \in PerTier : means[t] = Mean(t) /\ means[t] \in Nat
  BY MeansAreNat
<1>4. ASSUME NEW t \in PerTier
      PROVE  /\ D \in Nat /\ Mean(t) <= D
             /\ D # 0 => shares[t] = (Remainder * means[t]) \div D
             /\ D = 0 => shares[t] = 0
  BY <1>3, ShareIsQuotient
<1>5. shares = [u \in PerTier |-> shares[u]]
  OBVIOUS
<1> HIDE DEF means, D
<1>6. D \in Nat
  <2>1. \A t \in PerTier : means[t] \in Nat
    BY <1>3
  <2> QED
    BY <1>1, <2>1, TotalIsNat DEF D
<1>7. \A t \in PerTier : Remainder * means[t] \in Nat
  BY <1>2, <1>3
<1>8. CASE D = 0
  <2>1. \A t \in PerTier : shares[t] = 0 /\ ~(Mean(t) > 0)
    BY <1>3, <1>4, <1>8
  <2>2. Total(shares, PerTier) = 0
    <3>1. \A t \in PerTier : shares[t] \in Nat
      BY <2>1
    <3>2. Total(shares, {}) = Total(shares, PerTier)
      BY <1>1, <2>1, <3>1, TotalOfRest
    <3> QED
      BY <3>2, TotalOfNone
  <2> QED
    BY <1>1, <1>2, <2>1, <2>2
<1>9. CASE D # 0
  <2>1. D \in Nat \ {0} /\ Total(means, PerTier) = D
    BY <1>6, <1>9 DEF D
  <2>2. \A t \in PerTier : shares[t] = (Remainder * means[t]) \div D
    BY <1>4, <1>9
  <2>3. \A t \in PerTier : means[t] \in Nat
    BY <1>3
  <2>4. /\ Total(shares, PerTier) <= Remainder
        /\ \A p : (\A t \in PerTier : p[t] = shares[t] + 1) => Remainder < Total(p, PerTier)
    BY <1>1, <1>2, <2>1, <2>2, <2>3, ProportionalShares
  <2>5. \A t \in PerTier : shares[t] \in Nat
    BY <1>7, <2>1, <2>2, Quotient
  <2>6. ASSUME NEW t \in PerTier, NEW u \in PerTier, Mean(t) >= Mean(u)
        PROVE  shares[t] >= shares[u]
    <3>1. Remainder * means[u] <= Remainder * means[t]
      BY <1>2, <1>3, <2>6
    <3>2. (Remainder * means[u]) \div D <= (Remainder * means[t]) \div D
      BY <1>7, <2>1, <3>1, QuotientIsMonotone
    <3> QED
      BY <2>2, <2>5, <3>2
  <2> QED
    BY <1>1, <2>4, <2>5, <2>6
<1> QED
  BY <1>8, <1>9

\* The first conjunct of FairlyShared and its counterpart: what is allocated.
LEMMA AllocationIsFair ==
  ASSUME hits \in [Searched -> Results], NoneOpposite,
         allocation = [t \in PerTier |-> FloorOf(t) + Share(t)]
  PROVE  /\ FairlyShared
         /\ Total(allocation, PerTier) <= Budget
         /\ \A t \in PerTier : allocation[t] \in Nat
<1> DEFINE floors == [t \in PerTier |-> FloorOf(t)]
           shares == [t \in PerTier |-> Share(t)]
           more   == [t \in PerTier |-> shares[t] + 1]
           above  == [t \in PerTier |-> allocation[t] + 1]
           fsum   == Total(floors, PerTier)
           ssum   == Total(shares, PerTier)
           msum   == Total(more, PerTier)
<1>1. /\ IsFiniteSet(PerTier) /\ \A t \in PerTier : shares[t] \in Nat
      /\ ssum <= Remainder
      /\ \A t, u \in PerTier : Mean(t) >= Mean(u) => shares[t] >= shares[u]
      /\ (\E t \in PerTier : Mean(t) > 0) => Remainder < msum
  <2>1. shares = [u \in PerTier |-> Share(u)] /\ \A t \in PerTier : more[t] = shares[t] + 1
    OBVIOUS
  <2> HIDE DEF shares, more
  <2> QED
    BY <2>1, SharesAreFair
<1>2. \A t \in PerTier : floors[t] \in Nat
  <2>1. PerTier \in SUBSET Searched /\ \A t \in PerTier : floors[t] = FloorOf(t)
    BY DEF PerTier
  <2> HIDE DEF floors
  <2> QED
    BY <2>1, FloorsFit
<1>3. fsum + Remainder = Budget /\ fsum \in Nat /\ Remainder \in Nat /\ Budget \in Nat
  <2>1. floors = [t \in PerTier |-> FloorOf(t)]
    OBVIOUS
  <2> HIDE DEF floors
  <2> QED
    BY <2>1, RemainderIsRest, HydrationAssumption
<1>4. \A t \in PerTier : /\ floors[t] = FloorOf(t) /\ allocation[t] = floors[t] + shares[t]
                         /\ above[t] = floors[t] + more[t] /\ more[t] = shares[t] + 1
                         /\ allocation[t] \in Nat /\ more[t] \in Nat
  BY <1>1, <1>2
<1> HIDE DEF floors, shares, more, above
<1>5. ssum \in Int /\ msum \in Int
  BY <1>1, <1>4, TotalIsInt
<1>6. Total(allocation, PerTier) = fsum + ssum
  BY <1>1, <1>2, <1>4, TotalAdds
<1>7. Total(above, PerTier) = fsum + msum
  BY <1>1, <1>2, <1>4, TotalAdds
<1>8. Total(allocation, PerTier) <= Budget
  <2> HIDE DEF fsum, ssum, msum
  <2> QED
    BY <1>1, <1>3, <1>5, <1>6
<1>9. (\E t \in PerTier : Mean(t) > 0) => Total(above, PerTier) > Budget
  <2> HIDE DEF fsum, ssum, msum
  <2> QED
    BY <1>1, <1>3, <1>5, <1>7
<1>10. \A t, u \in PerTier :
         /\ allocation[t] >= FloorOf(t)
         /\ Mean(t) >= Mean(u) => allocation[t] - FloorOf(t) >= allocation[u] - FloorOf(u)
  <2>1. ASSUME NEW t \in PerTier
        PROVE  allocation[t] >= FloorOf(t) /\ allocation[t] - FloorOf(t) = shares[t]
    BY <1>1, <1>2, <1>4
  <2> QED
    BY <1>1, <2>1
<1>11. FairlyShared
  BY <1>8, <1>9, <1>10 DEF FairlyShared, above
<1> QED
  BY <1>4, <1>8, <1>11

\* The inductive invariant: at first nothing is packed.
LEMMA HydrationStarts ==
  ASSUME HydrationInit
  PROVE  HydrationInv
<1>1. hits \in [Searched -> Results] /\ packed = [t \in Searched |-> 0] /\ packing = {} /\ allocation = <<>>
  BY DEF HydrationInit
<1>2. \A t \in Searched : Len(hits[t]) \in Nat
  BY <1>1, ResultsAreHits
<1> QED
  BY <1>1, <1>2 DEF HydrationInv

\* Sharing the budget (manager.py:105-112) keeps the invariant.
LEMMA AllocateKeeps ==
  ASSUME HydrationInv, Allocate
  PROVE  HydrationInv'
<1>1. /\ allocation' = [t \in PerTier |-> FloorOf(t) + Share(t)]
      /\ packing' = PerTier /\ hits' = hits /\ packed' = packed
  BY DEF Allocate, Packing
<1>2. \A t : PerTier' = PerTier /\ Share(t)' = Share(t)
  BY <1>1, SharesStay
<1>3. \A t : Spent(t)' = Spent(t) /\ FloorOf(t)' = FloorOf(t)
  BY <1>1 DEF Spent, FloorOf
<1>4. (allocation = [t \in PerTier |-> FloorOf(t) + Share(t)])'
  BY <1>1, <1>2, <1>3
<1>5. (packing \subseteq PerTier)'
  BY <1>1, <1>2
<1>6. (\A t \in Searched : packed[t] = 0 \/ Spent(t) <= FloorOf(t) + Share(t))'
  BY <1>1, <1>2, <1>3 DEF HydrationInv
<1>7. Results' = Results
  BY DEF Results, Ranked
<1> QED
  BY <1>1, <1>4, <1>5, <1>6, <1>7 DEF HydrationInv

\* Packing a hit or passing on (manager.py:114-129) keeps the invariant.
LEMMA PackKeeps ==
  ASSUME HydrationInv, NEW t \in Searched, Pack(t)
  PROVE  HydrationInv'
<1>1. hits' = hits /\ allocation' = allocation /\ t \in packing /\ packed[t] < Len(hits[t])
  BY DEF Pack
<1>2. /\ hits \in [Searched -> Results] /\ packed \in [Searched -> Nat] /\ packing \subseteq PerTier
      /\ allocation = [u \in PerTier |-> FloorOf(u) + Share(u)]
      /\ \A u \in Searched : packed[u] <= Len(hits[u])
      /\ \A u \in Searched : packed[u] = 0 \/ Spent(u) <= FloorOf(u) + Share(u)
  BY <1>1 DEF HydrationInv
<1>3. \A u : PerTier' = PerTier /\ Share(u)' = Share(u) /\ FloorOf(u)' = FloorOf(u)
  BY <1>1, SharesStay DEF FloorOf
<1>4. (allocation = [u \in PerTier |-> FloorOf(u) + Share(u)])'
  BY <1>1, <1>2, <1>3
<1>5. Results' = Results
  BY DEF Results, Ranked
<1>6. CASE Fits(t)
  <2>1. packed' = [packed EXCEPT ![t] = @ + 1] /\ packing' = packing
    BY <1>6 DEF Pack
  <2>2. \A u \in Searched : packed'[u] = IF u = t THEN packed[t] + 1 ELSE packed[u]
    BY <1>2, <2>1
  <2>3. packed' \in [Searched -> Nat]
    BY <1>2, <2>1
  <2>4. \A u \in Searched : packed'[u] <= Len(hits[u])
    <3>1. Len(hits[t]) \in Nat /\ packed[t] \in Nat
      BY <1>2, ResultsAreHits
    <3>2. packed[t] + 1 <= Len(hits[t])
      BY <1>1, <3>1
    <3>3. \A u \in Searched : packed[u] <= Len(hits[u])
      BY <1>2
    <3> QED
      BY <2>2, <3>2, <3>3
  <2>5. Spent(t)' = Spent(t) + hits[t][packed[t] + 1].cost
    <3> DEFINE costs == [i \in DOMAIN hits[t] |-> hits[t][i].cost]
    <3>1. Spent(t)' = Total(costs, 1 .. packed[t] + 1) /\ Spent(t) = Total(costs, 1 .. packed[t])
      BY <1>1, <2>2 DEF Spent
    <3>2. \A i \in 1 .. Len(hits[t]) : costs[i] = hits[t][i].cost
      BY <1>2, ResultsAreHits
    <3>3. packed[t] \in Nat
      BY <1>2
    <3>4. packed[t] < Len(hits[t]) /\ hits \in [Searched -> Results]
      BY <1>1, <1>2
    <3> HIDE DEF costs
    <3>5. Total(costs, 1 .. packed[t] + 1) = Total(costs, 1 .. packed[t]) + hits[t][packed[t] + 1].cost
      BY <3>2, <3>3, <3>4, SpentGrows
    <3> QED
      BY <3>1, <3>5
  <2>6. Spent(t)' <= FloorOf(t) + Share(t)
    <3>1. t \in PerTier
      BY <1>1, <1>2
    <3>2. allocation[t] = FloorOf(t) + Share(t)
      BY <1>2, <3>1
    <3> QED
      BY <1>6, <2>5, <3>2 DEF Fits
  <2>7. \A u \in Searched : u # t => Spent(u)' = Spent(u)
    BY <1>1, <2>2 DEF Spent
  <2>8. (\A u \in Searched : packed[u] = 0 \/ Spent(u) <= FloorOf(u) + Share(u))'
    BY <1>2, <1>3, <2>2, <2>6, <2>7
  <2> QED
    BY <1>1, <1>2, <1>3, <1>4, <1>5, <2>1, <2>3, <2>4, <2>8 DEF HydrationInv
<1>7. CASE ~Fits(t)
  <2>1. packed' = packed /\ packing' = packing \ {t}
    BY <1>7 DEF Pack
  <2>2. \A u : Spent(u)' = Spent(u)
    BY <1>1, <2>1 DEF Spent
  <2>3. (\A u \in Searched : packed[u] = 0 \/ Spent(u) <= FloorOf(u) + Share(u))'
    BY <1>2, <1>3, <2>1, <2>2
  <2> QED
    BY <1>1, <1>2, <1>3, <1>4, <1>5, <2>1, <2>3 DEF HydrationInv
<1> QED
  BY <1>6, <1>7

\* The sum of what is packed is within the sum of what is allocated, and that
\* is within the budget.
LEMMA PackedWithinBudget ==
  ASSUME HydrationInv, NoneOpposite
  PROVE  BudgetKept
<1> DEFINE alloc == [t \in PerTier |-> FloorOf(t) + Share(t)]
           most  == [t \in Searched |-> IF t \in PerTier THEN alloc[t] ELSE 0]
           spent == [t \in Searched |-> Spent(t)]
<1>1. IsFiniteSet(Searched) /\ IsFiniteSet(PerTier) /\ PerTier \in SUBSET Searched /\ Budget \in Nat
  <2>1. IsFiniteSet(Searched) /\ PerTier \in SUBSET Searched
    BY HydrationAssumption DEF PerTier
  <2> QED
    BY <2>1, FS_Subset, HydrationAssumption
<1>2. hits \in [Searched -> Results]
  BY DEF HydrationInv
<1> DEFINE floors == [t \in PerTier |-> FloorOf(t)]
           shares == [t \in PerTier |-> Share(t)]
           fsum   == Total(floors, PerTier)
           ssum   == Total(shares, PerTier)
<1>3. (\A t \in PerTier : shares[t] \in Nat) /\ ssum <= Remainder
  <2>1. shares = [t \in PerTier |-> Share(t)]
    OBVIOUS
  <2> HIDE DEF shares
  <2> QED
    BY <1>2, <2>1, SharesAreFair
<1>4. (\A t \in PerTier : floors[t] \in Nat) /\ fsum + Remainder = Budget
      /\ fsum \in Nat /\ Remainder \in Nat
  <2>1. floors = [t \in PerTier |-> FloorOf(t)] /\ \A t \in PerTier : floors[t] = FloorOf(t)
    OBVIOUS
  <2> HIDE DEF floors
  <2> QED
    BY <1>1, <2>1, FloorsFit, RemainderIsRest
<1>5. \A t \in PerTier : /\ alloc[t] = floors[t] + shares[t] /\ alloc[t] = FloorOf(t) + Share(t)
                         /\ alloc[t] \in Nat
  BY <1>3, <1>4
<1>6. /\ \A t \in PerTier : most[t] = alloc[t]
      /\ \A t \in Searched \ PerTier : most[t] = 0
      /\ \A t \in Searched : spent[t] = Spent(t)
  BY <1>1
<1>7. ASSUME NEW t \in Searched
      PROVE  spent[t] \in Int /\ most[t] \in Nat /\ spent[t] <= most[t]
  <2> DEFINE costs == [i \in DOMAIN hits[t] |-> hits[t][i].cost]
  <2>1. /\ packed[t] \in Nat /\ packed[t] <= Len(hits[t]) /\ Len(hits[t]) \in Nat
        /\ \A i \in 1 .. Len(hits[t]) : costs[i] \in Nat
    <3>1. /\ packed[t] \in Nat /\ packed[t] <= Len(hits[t])
          /\ \A i \in 1 .. Len(hits[t]) : hits[t][i].cost \in Nat
      BY <1>2, ResultsAreHits DEF HydrationInv
    <3>2. Len(hits[t]) \in Nat /\ DOMAIN hits[t] = 1 .. Len(hits[t])
      BY <1>2, ResultsAreHits
    <3> QED
      BY <3>1, <3>2
  <2>2. Spent(t) = Total(costs, 1 .. packed[t])
    BY DEF Spent
  <2>3. packed[t] = 0 \/ Spent(t) <= FloorOf(t) + Share(t)
    BY DEF HydrationInv
  <2> HIDE DEF costs
  <2>4. IsFiniteSet(1 .. packed[t]) /\ \A i \in 1 .. packed[t] : costs[i] \in Nat
    <3>1. IsFiniteSet(1 .. packed[t])
      BY <2>1, PlacesAreFinite
    <3>2. \A i \in 1 .. packed[t] : i \in 1 .. Len(hits[t])
      BY <2>1
    <3> QED
      BY <2>1, <3>1, <3>2
  <2>5. Spent(t) \in Nat
    BY <2>2, <2>4, TotalIsNat
  <2>6. packed[t] = 0 => Spent(t) = 0
    <3>1. HAVE packed[t] = 0
    <3>2. 1 .. packed[t] = {}
      BY <3>1
    <3> QED
      BY <2>2, <3>2, TotalOfNone
  <2>7. t \notin PerTier => packed[t] = 0
    <3>1. t \notin PerTier => hits[t] = <<>>
      BY DEF PerTier
    <3>2. Len(<<>>) = 0
      BY EmptySeq
    <3> QED
      BY <2>1, <3>1, <3>2
  <2> HIDE DEF alloc, most, spent
  <2> QED
    BY <1>5, <1>6, <2>3, <2>5, <2>6, <2>7
<1> HIDE DEF alloc, most, spent, floors, shares
<1>8. Total(spent, Searched) <= Total(most, Searched)
  BY <1>1, <1>7, TotalIsMonotone
<1>9. Total(most, PerTier) = Total(most, Searched)
  BY <1>1, <1>6, <1>7, TotalOfRest
<1>10. Total(most, PerTier) = fsum + ssum
  <2>1. \A t \in PerTier : floors[t] \in Int /\ shares[t] \in Int /\ most[t] = floors[t] + shares[t]
    BY <1>3, <1>4, <1>5, <1>6
  <2> QED
    BY <1>1, <2>1, TotalAdds
<1>11. ssum \in Nat
  BY <1>1, <1>3, TotalIsNat
<1>12. Total(spent, Searched) \in Int
  BY <1>1, <1>7, TotalIsInt
<1>13. Total(spent, Searched) <= Budget
  <2> HIDE DEF fsum, ssum
  <2> QED
    BY <1>1, <1>3, <1>4, <1>8, <1>9, <1>10, <1>11, <1>12
<1> QED
  BY <1>13 DEF BudgetKept, spent

\* Every step keeps the invariant.
LEMMA HydrationStep ==
  ASSUME HydrationInv, [HydrationNext]_hydrationVars
  PROVE  HydrationInv'
<1>1. CASE Allocate
  BY <1>1, AllocateKeeps
<1>2. CASE \E t \in Searched : Pack(t)
  BY <1>2, PackKeeps
<1>3. CASE UNCHANGED hydrationVars
  <2>1. hits' = hits /\ allocation' = allocation /\ packed' = packed /\ packing' = packing
    BY <1>3 DEF hydrationVars
  <2>2. \A t : PerTier' = PerTier /\ Share(t)' = Share(t)
    BY <2>1, SharesStay
  <2>3. \A t : Spent(t)' = Spent(t) /\ FloorOf(t)' = FloorOf(t)
    BY <2>1 DEF Spent, FloorOf
  <2>4. Results' = Results
    BY DEF Results, Ranked
  <2>5. (allocation = [t \in PerTier |-> FloorOf(t) + Share(t)])'
        <=> allocation = [t \in PerTier |-> FloorOf(t) + Share(t)]
    BY <2>1, <2>2, <2>3
  <2>6. (\A t \in Searched : packed[t] = 0 \/ Spent(t) <= FloorOf(t) + Share(t))'
    BY <2>1, <2>2, <2>3 DEF HydrationInv
  <2> QED
    BY <2>1, <2>2, <2>4, <2>5, <2>6 DEF HydrationInv
<1> QED
  BY <1>1, <1>2, <1>3 DEF HydrationNext

\* The package of a hydration keeps to its budget, for any tiers, floors of at
\* most the whole, budget and hits, as long as no mean is negative
\* (manager.py:105-121); ClaimBudgetBounded shows that the proviso is needed.
THEOREM PackageKeepsBudget == HydrationSpec => [](NoneOpposite => BudgetKept)
<1>1. HydrationInit => HydrationInv
  BY HydrationStarts
<1>2. HydrationInv /\ [HydrationNext]_hydrationVars => HydrationInv'
  BY HydrationStep
<1>3. HydrationInv => (NoneOpposite => BudgetKept)
  BY PackedWithinBudget
<1> QED
  BY <1>1, <1>2, <1>3, PTL DEF HydrationSpec

\* The budget is shared fairly, as long as no mean is negative: all of it but
\* for less than a token per tier, to no tier less than its floor, and to the
\* more relevant on average no less of the remainder (manager.py:105-112).
THEOREM BudgetIsShared == HydrationSpec => [](NoneOpposite => FairlyShared)
<1>1. HydrationInit => HydrationInv
  BY HydrationStarts
<1>2. HydrationInv /\ [HydrationNext]_hydrationVars => HydrationInv'
  BY HydrationStep
<1>3. HydrationInv => (NoneOpposite => FairlyShared)
  <2> SUFFICES ASSUME HydrationInv, NoneOpposite PROVE FairlyShared
    OBVIOUS
  <2>1. CASE allocation = <<>>
    BY <2>1 DEF FairlyShared, Allocated
  <2>2. CASE allocation = [t \in PerTier |-> FloorOf(t) + Share(t)]
    BY <2>2, AllocationIsFair DEF HydrationInv
  <2> QED
    BY <2>1, <2>2 DEF HydrationInv
<1> QED
  BY <1>1, <1>2, <1>3, PTL DEF HydrationSpec
=============================================================================
