---------------------------- MODULE RateLimiter ----------------------------
(***************************************************************************)
(* core/intake/rate_limiter.py: the two sliding-window limiters intake     *)
(* consults through check_request_rate, one per caller identity and one    *)
(* over all callers. Each is a map from key to a deque of time stamps      *)
(* behind a lock of its own.                                               *)
(*                                                                         *)
(* allow() reads the clock before it takes the lock, so a call is two      *)
(* steps per limiter and time may pass, or another thread run, between     *)
(* them. The section under the lock is one step. Time is counted in units  *)
(* of the clock and bounded by MaxTime.                                    *)
(***************************************************************************)
EXTENDS Integers, Sequences, FiniteSets

CONSTANTS
  Threads,         \* threads calling check_request_rate
  Identities,      \* caller identities (session ids)
  IdentityMax,     \* RATE_LIMIT_MAX_REQUESTS
  IdentityWindow,  \* RATE_LIMIT_WINDOW_S
  GlobalMax,       \* GLOBAL_RATE_LIMIT_MAX_REQUESTS
  GlobalWindow,    \* GLOBAL_RATE_LIMIT_WINDOW_S
  MaxTrackedKeys,  \* RATE_LIMIT_MAX_TRACKED_KEYS
  PruneInterval,   \* at most one sweep of the key map in this time
  MaxTime,         \* bound: the clock stops here
  None

ASSUME RateLimiterAssumption ==
  /\ {IdentityMax, IdentityWindow, GlobalMax, GlobalWindow,
      MaxTrackedKeys, PruneInterval} \subseteq Nat \ {0}
  /\ MaxTime \in Nat /\ MaxTime >= PruneInterval
  /\ None \notin Int \cup Identities
  /\ "global" \notin Identities

Limiters == {"identity", "global"}
MaxRequests == [l \in Limiters |-> IF l = "identity" THEN IdentityMax ELSE GlobalMax]
Window      == [l \in Limiters |-> IF l = "identity" THEN IdentityWindow ELSE GlobalWindow]

VARIABLES
  clock,      \* time.monotonic
  requests,   \* per limiter, the deque of stamps of every tracked key
  lastPrune,  \* per limiter, when the map was last swept
  pc,         \* per thread, "idle" or the limiter it is asking
  caller,     \* per thread, the identity it asks for, None when idle
  now,        \* per thread, the clock it read, None before
  admitted    \* history: per limiter, the requests let through

vars == <<clock, requests, lastPrune, pc, caller, now, admitted>>

Times == 0 .. MaxTime

\* A request let through: the n-th of a caller with this stamp.
Request == [caller : Identities, stamp : Nat, n : Nat]

---------------------------------------------------------------------------
\* InMemorySlidingWindowRateLimiter

Key(l, identity) == IF l = "identity" THEN identity ELSE "global"

\* Mutant of Fresh: the oldest stamp decides for the whole deque.
FreshEager(stamps, cutoff) ==
  IF stamps # <<>> /\ Head(stamps) <= cutoff THEN <<>> ELSE stamps

\* Mutant of Fresh: a stamp exactly one window old still counts.
FreshInclusive(stamps, cutoff) ==
  LET expired == {i \in 1 .. Len(stamps) : \A j \in 1 .. i : stamps[j] < cutoff}
  IN SubSeq(stamps, Cardinality(expired) + 1, Len(stamps))

\* The loop that pops expired stamps: it stops at the first live one.
Fresh(stamps, cutoff) ==
  LET expired == {i \in 1 .. Len(stamps) : \A j \in 1 .. i : stamps[j] <= cutoff}
  IN SubSeq(stamps, Cardinality(expired) + 1, Len(stamps))

PruneDue(l) ==
  /\ Cardinality(DOMAIN requests[l]) >= MaxTrackedKeys
  /\ clock - lastPrune[l] >= PruneInterval

\* _prune_if_needed: the map as the rest of allow() finds it.
Pruned(l, cutoff) ==
  IF PruneDue(l)
  THEN [k \in {k \in DOMAIN requests[l] : Fresh(requests[l][k], cutoff) # <<>>} |->
          Fresh(requests[l][k], cutoff)]
  ELSE requests[l]

\* Mutant of Full: the capacity is compared one key too late.
FullLate(table, key) ==
  key \notin DOMAIN table /\ Cardinality(DOMAIN table) > MaxTrackedKeys

Full(table, key) ==
  key \notin DOMAIN table /\ Cardinality(DOMAIN table) >= MaxTrackedKeys

Deque(table, key) == IF key \in DOMAIN table THEN table[key] ELSE <<>>
Put(table, key, stamps) ==
  [k \in DOMAIN table \cup {key} |-> IF k = key THEN stamps ELSE table[k]]

ReadClock(t) ==
  /\ pc[t] \in Limiters
  /\ now[t] = None
  /\ now' = [now EXCEPT ![t] = clock]
  /\ UNCHANGED <<clock, requests, lastPrune, pc, caller, admitted>>

\* What allow() leaves in the map and answers, once it has the lock.
Cutoff(l, t) == now[t] - Window[l]
Table(l, t)  == Pruned(l, Cutoff(l, t))
Stamps(l, t) == Fresh(Deque(Table(l, t), Key(l, caller[t])), Cutoff(l, t))
Refused(l, t) ==
  \/ Full(Table(l, t), Key(l, caller[t]))
  \/ Len(Stamps(l, t)) >= MaxRequests[l]

Sweep(l) == lastPrune' = [lastPrune EXCEPT ![l] = IF PruneDue(l) THEN clock ELSE @]

Refuse(l, t) ==
  /\ pc[t] = l /\ now[t] # None
  /\ Refused(l, t)
  /\ requests' = [requests EXCEPT ![l] =
       IF Full(Table(l, t), Key(l, caller[t])) THEN Table(l, t)
       ELSE Put(Table(l, t), Key(l, caller[t]), Stamps(l, t))]
  /\ Sweep(l)
  /\ pc' = [pc EXCEPT ![t] = "idle"]
  /\ caller' = [caller EXCEPT ![t] = None]
  /\ now' = [now EXCEPT ![t] = None]
  /\ UNCHANGED <<clock, admitted>>

\* check_request_rate goes on to the global limiter after the identity one.
NextLimiter(l) == IF l = "identity" THEN "global" ELSE "idle"

Admission(l, t) ==
  LET alike == {a \in admitted[l] : a.caller = caller[t] /\ a.stamp = now[t]}
  IN [caller |-> caller[t], stamp |-> now[t], n |-> Cardinality(alike) + 1]

Admit(l, t) ==
  /\ pc[t] = l /\ now[t] # None
  /\ ~Refused(l, t)
  /\ requests' = [requests EXCEPT ![l] =
       Put(Table(l, t), Key(l, caller[t]), Append(Stamps(l, t), now[t]))]
  /\ Sweep(l)
  /\ admitted' = [admitted EXCEPT ![l] = @ \cup {Admission(l, t)}]
  /\ pc' = [pc EXCEPT ![t] = NextLimiter(l)]
  /\ caller' = [caller EXCEPT ![t] = IF l = "identity" THEN @ ELSE None]
  /\ now' = [now EXCEPT ![t] = None]
  /\ UNCHANGED clock

---------------------------------------------------------------------------
\* check_request_rate

CheckRequestRate(t) ==
  /\ pc[t] = "idle"
  /\ \E identity \in Identities : caller' = [caller EXCEPT ![t] = identity]
  /\ pc' = [pc EXCEPT ![t] = "identity"]
  /\ UNCHANGED <<clock, requests, lastPrune, now, admitted>>

Tick ==
  /\ clock < MaxTime
  /\ clock' = clock + 1
  /\ UNCHANGED <<requests, lastPrune, pc, caller, now, admitted>>

\* _last_prune starts at 0 on a clock that is already past the interval.
Init ==
  /\ clock = PruneInterval
  /\ requests  = [l \in Limiters |-> [k \in {} |-> <<>>]]
  /\ lastPrune = [l \in Limiters |-> 0]
  /\ pc     = [t \in Threads |-> "idle"]
  /\ caller = [t \in Threads |-> None]
  /\ now    = [t \in Threads |-> None]
  /\ admitted = [l \in Limiters |-> {}]

Next ==
  \/ Tick
  \/ \E t \in Threads :
       \/ CheckRequestRate(t)
       \/ ReadClock(t)
       \/ \E l \in Limiters : Admit(l, t) \/ Refuse(l, t)

Spec == Init /\ [][Next]_vars

---------------------------------------------------------------------------
\* Correctness

TypeOK ==
  /\ clock \in Nat
  /\ DOMAIN requests = Limiters
  /\ \A l \in Limiters :
       /\ DOMAIN requests[l] \subseteq (IF l = "identity" THEN Identities ELSE {"global"})
       /\ \A k \in DOMAIN requests[l] : requests[l][k] \in Seq(Nat)
  /\ lastPrune \in [Limiters -> Nat]
  /\ pc     \in [Threads -> Limiters \cup {"idle"}]
  /\ caller \in [Threads -> Identities \cup {None}]
  /\ now    \in [Threads -> Nat \cup {None}]
  /\ admitted \in [Limiters -> SUBSET Request]

\* Requests of the callers let through by l with a stamp in (last - Window, last].
InWindow(l, callers, last) ==
  Cardinality({a \in admitted[l] :
                 a.caller \in callers /\ last - Window[l] < a.stamp /\ a.stamp <= last})

\* The limit: in no window, wherever it is placed, are more requests let
\* through than the limiter allows.
WindowHolds ==
  \A last \in Times :
    /\ \A i \in Identities : InWindow("identity", {i}, last) <= IdentityMax
    /\ InWindow("global", Identities, last) <= GlobalMax

TableBounded ==
  \A l \in Limiters :
    /\ Cardinality(DOMAIN requests[l]) <= MaxTrackedKeys
    /\ \A k \in DOMAIN requests[l] : Len(requests[l][k]) <= MaxRequests[l]

\* Memory stays bounded however identities rotate: no more keys than the
\* capacity, no longer deque than the limit; and every variable has its type.
TableInv == TypeOK /\ TableBounded

\* Nobody is refused without a reason: the caller has used its limit in the
\* window before the request, or the map is full and either was swept less
\* than PruneInterval ago or holds only keys with a request in the window.
RefusalJustified ==
  [][\A t \in Threads : (pc[t] = "identity" /\ pc'[t] = "idle") =>
       \/ InWindow("identity", {caller[t]}, now[t]) = IdentityMax
       \/ /\ caller[t] \notin DOMAIN requests["identity"]
          /\ \/ clock - lastPrune["identity"] < PruneInterval
             \/ /\ Cardinality(DOMAIN requests["identity"]) = MaxTrackedKeys
                /\ \A k \in DOMAIN requests["identity"] :
                     InWindow("identity", {k}, now[t]) > 0]_vars
=============================================================================
