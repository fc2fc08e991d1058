----------------------------- MODULE Hydration -----------------------------
(***************************************************************************)
(* How MemoryManager.hydrate shares the token budget of a turn among the   *)
(* tiers that have something to say: a floor for each, the remainder in    *)
(* proportion to their mean relevance, then each tier's hits best first    *)
(* until one does not fit. The searches and their faults are in Memory.    *)
(* MemoryProofs extends both modules, so they share no name.               *)
(*                                                                         *)
(* A hit is its rank score, similarity times recency in units of 1/Unit,   *)
(* and its cost in tokens. Shares are exact fractions truncated like       *)
(* Python's int(); the rounding of floats before that is left out.         *)
(***************************************************************************)
EXTENDS Integers, Sequences, FiniteSetsExt

CONSTANTS
  Searched, \* tiers searched for this user
  Budget,   \* token budget of the turn
  Floor,    \* per tier, its floor in percent of the budget
  Hits,     \* possible hits: records of a score and a cost
  MaxHits,  \* hits a search returns
  Unit,     \* the score of a perfect match
  Scale     \* a common multiple of the numbers of hits, for exact means

ASSUME HydrationAssumption ==
  /\ Budget \in Nat \ {0} /\ MaxHits \in Nat /\ Unit \in Nat \ {0}
  /\ Scale \in Nat \ {0} /\ \A n \in 1 .. MaxHits : Scale % n = 0
  /\ IsFiniteSet(Searched) /\ Floor \in [Searched -> 0 .. 100] /\ SumFunctionOnSet(Floor, Searched) <= 100
  /\ \A h \in Hits : h.score \in -Unit .. Unit /\ h.cost \in Nat \ {0}

VARIABLES
  hits,        \* per tier, its hits, best first
  allocation,  \* per tier, the tokens it may spend
  packed,      \* per tier, how many hits are packed
  packing      \* tiers that may still pack

hydrationVars == <<hits, allocation, packed, packing>>

Total(f, T) == SumFunctionOnSet(f, T)

Ranked(s) == \A i \in 1 .. Len(s) - 1 : s[i].score >= s[i + 1].score

Results == {s \in UNION {[1 .. n -> Hits] : n \in 0 .. MaxHits} : Ranked(s)}

PerTier == {t \in Searched : hits[t] # <<>>}

Spent(t) == Total([i \in DOMAIN hits[t] |-> hits[t][i].cost], 1 .. packed[t])

---------------------------------------------------------------------------
\* int(a / b)
Truncate(a, b) ==
  LET n == IF b > 0 THEN a ELSE -a
      d == IF b > 0 THEN b ELSE -b
  IN IF n >= 0 THEN n \div d ELSE -((-n) \div d)

FloorOf(t) == (Budget * Floor[t]) \div 100

Remainder == Max({0, Budget - Total([t \in PerTier |-> FloorOf(t)], PerTier)})

Scores(t) == Total([i \in DOMAIN hits[t] |-> hits[t][i].score], DOMAIN hits[t])

\* The mean score of a tier, in units of 1/(Unit * Scale).
Mean(t) == Scores(t) * (Scale \div Len(hits[t]))

\* Mutant of Share: relevance is summed over a tier, not averaged.
ShareOfSum(t) ==
  LET all == Total([u \in PerTier |-> Scores(u)], PerTier)
  IN Truncate(Remainder * Scores(t), IF all = 0 THEN Unit ELSE all)

\* Scores that sum to nothing are taken as they are ("or 1.0").
Share(t) ==
  LET total == Total([u \in PerTier |-> Mean(u)], PerTier)
  IN Truncate(Remainder * Mean(t), IF total = 0 THEN Unit * Scale ELSE total)

Packing == PerTier

Allocate ==
  /\ allocation = <<>> /\ PerTier # {}
  /\ allocation' = [t \in PerTier |-> FloorOf(t) + Share(t)]
  /\ packing' = Packing
  /\ UNCHANGED <<hits, packed>>

\* Mutant of Fits: what is already packed is not counted.
FitsAlone(t) == hits[t][packed[t] + 1].cost <= allocation[t]

Fits(t) == Spent(t) + hits[t][packed[t] + 1].cost <= allocation[t]

Pack(t) ==
  /\ t \in packing /\ packed[t] < Len(hits[t])
  /\ IF Fits(t)
     THEN packed' = [packed EXCEPT ![t] = @ + 1] /\ UNCHANGED packing
     ELSE packing' = packing \ {t} /\ UNCHANGED packed
  /\ UNCHANGED <<hits, allocation>>

---------------------------------------------------------------------------

HydrationInit ==
  /\ hits \in [Searched -> Results]
  /\ allocation = <<>>
  /\ packed = [t \in Searched |-> 0]
  /\ packing = {}

HydrationNext == Allocate \/ \E t \in Searched : Pack(t)

HydrationSpec == HydrationInit /\ [][HydrationNext]_hydrationVars

---------------------------------------------------------------------------
\* Correctness

Allocated == allocation # <<>>

\* No tier's hits are on average opposite to the query, which store.search does
\* not rule out: it sets no score threshold.
NoneOpposite == \A t \in PerTier : Mean(t) >= 0

\* The package keeps to its budget, and so the orchestrator's prompt does:
\* "ranked, budget-bounded context to inject" (foundation/contracts/memory.py:56).
\* It holds where NoneOpposite does; a tier of hits opposite to the query drives
\* the share of another over the budget.
BudgetKept == Total([t \in Searched |-> Spent(t)], Searched) <= Budget

\* The whole budget is shared out, but for less than a token per tier, as soon
\* as one hit has any relevance; no tier is given less than its floor, and of
\* two tiers the more relevant on average gets no less of the remainder.
FairlyShared ==
  Allocated =>
    /\ Total(allocation, PerTier) <= Budget
    /\ (\E t \in PerTier : Mean(t) > 0) =>
         Total([t \in PerTier |-> allocation[t] + 1], PerTier) > Budget
    /\ \A t, u \in PerTier :
         /\ allocation[t] >= FloorOf(t)
         /\ Mean(t) >= Mean(u) => allocation[t] - FloorOf(t) >= allocation[u] - FloorOf(u)
============================================================================
