------------------------- MODULE RateLimiterProofs -------------------------
(***************************************************************************)
(* Theorems about RateLimiter. For any number of threads the two maps stay *)
(* within their bounds. For the one thread the event loop gives the code,  *)
(* the limit holds in every window and every refusal has a reason: the     *)
(* deques count the requests let through, from the oldest window that can  *)
(* still be asked about on.                                                *)
(***************************************************************************)
EXTENDS RateLimiter, FiniteSetTheorems, FunctionTheorems, SequenceTheorems, TLAPS

---------------------------------------------------------------------------

\* r is q after its oldest stamps have been popped, all of them at or before cut.
Evicted(q, r, cut) ==
  \E p \in 0 .. Len(q) :
    /\ r \in Seq(Nat)
    /\ Len(r) = Len(q) - p
    /\ \A i \in 1 .. Len(r) : r[i] = q[i + p]
    /\ \A i \in 1 .. p : q[i] <= cut

\* The places of q with a stamp after c.
Live(q, c) == {i \in 1 .. Len(q) : q[i] > c}

\* The oldest stamp is at the head.
Sorted(q) == \A i \in 1 .. Len(q) : \A j \in 1 .. i : q[j] <= q[i]

\* The loop that pops expired stamps pops exactly a prefix: what it leaves is
\* the deque without its oldest stamps, and starts with a live one. The
\* expired places are an initial interval, so their number is where it stops.
LEMMA FreshEvicts ==
  ASSUME NEW q \in Seq(Nat), NEW cut \in Int
  PROVE  /\ Fresh(q, cut) \in Seq(Nat)
         /\ Evicted(q, Fresh(q, cut), cut)
         /\ Fresh(q, cut) # <<>> => Fresh(q, cut)[1] > cut
<1> DEFINE expired == {i \in 1 .. Len(q) : \A j \in 1 .. i : q[j] <= cut}
           p == Cardinality(expired)
           n == Len(q)
<1>1. n \in Nat /\ \A i \in 1 .. n : q[i] \in Nat
  OBVIOUS
<1>2. IsFiniteSet(1 .. n) /\ Cardinality(1 .. n) = n
  BY <1>1, FS_Interval
<1>3. IsFiniteSet(expired) /\ p \in 0 .. n
  <2>1. expired \in SUBSET (1 .. n)
    OBVIOUS
  <2> HIDE DEF expired
  <2>2. IsFiniteSet(expired) /\ Cardinality(expired) <= Cardinality(1 .. n)
    BY <2>1, <1>2, FS_Subset
  <2>3. Cardinality(expired) \in Nat
    BY <2>2, FS_CardinalityType
  <2> QED
    BY <2>2, <2>3, <1>1, <1>2
<1>4. ASSUME NEW i \in expired
      PROVE  1 .. i \subseteq expired
  BY <1>1
<1>5. ASSUME NEW i \in expired
      PROVE  i <= p
  <2>1. i \in 1 .. n
    OBVIOUS
  <2>2. IsFiniteSet(1 .. i) /\ Cardinality(1 .. i) = i
    BY <2>1, <1>1, FS_Interval
  <2>3. 1 .. i \in SUBSET expired
    BY <1>4
  <2> HIDE DEF expired
  <2> QED
    BY <2>1, <2>2, <2>3, <1>3, FS_Subset
<1>6. ASSUME NEW i \in 1 .. p
      PROVE  i \in expired
  <2>1. SUFFICES ASSUME i \notin expired PROVE FALSE
    OBVIOUS
  <2>2. expired \in SUBSET (1 .. (i - 1))
    <3> SUFFICES ASSUME NEW j \in expired
                 PROVE  j \in 1 .. (i - 1)
      OBVIOUS
    <3>1. j \in 1 .. n /\ i \in Nat
      BY <1>3
    <3>2. j >= i => i \in 1 .. j
      BY <3>1
    <3>3. 1 .. j \subseteq expired
      BY <1>4
    <3>4. ~(j >= i)
      BY <3>2, <3>3, <2>1
    <3> QED
      BY <3>1, <3>4
  <2>3. IsFiniteSet(1 .. (i - 1)) /\ Cardinality(1 .. (i - 1)) = i - 1
    <3>1. i - 1 \in Int /\ i >= 1
      BY <1>3
    <3> QED
      BY <3>1, FS_Interval
  <2> HIDE DEF expired
  <2> QED
    <3>1. Cardinality(expired) <= Cardinality(1 .. (i - 1))
      BY <2>2, <2>3, FS_Subset
    <3> QED
      BY <3>1, <2>3, <1>3
<1>7. Fresh(q, cut) = SubSeq(q, p + 1, n)
  BY DEF Fresh
<1>8. \A i \in 1 .. p : q[i] <= cut
  <2> SUFFICES ASSUME NEW i \in 1 .. p
               PROVE  q[i] <= cut
    OBVIOUS
  <2>1. i \in expired
    BY <1>6
  <2> QED
    BY <2>1
<1>9. p < n => ~(q[p + 1] <= cut)
  <2> SUFFICES ASSUME p < n, q[p + 1] <= cut
               PROVE  FALSE
    OBVIOUS
  <2>1. \A j \in 1 .. (p + 1) : q[j] <= cut
    <3> HIDE DEF p
    <3> QED
      BY <1>8, <1>3
  <2>2. p + 1 \in 1 .. n
    <3> HIDE DEF p
    <3> QED
      BY <1>3, <1>1
  <2>3. p + 1 \in expired
    <3> HIDE DEF p
    <3> QED
      BY <2>1, <2>2
  <2>4. p + 1 <= p
    <3> HIDE DEF p
    <3> QED
      BY <1>5, <2>3
  <2> HIDE DEF p
  <2> QED
    BY <2>4, <1>3
<1> HIDE DEF p, expired
<1> DEFINE r == SubSeq(q, p + 1, n)
<1>10. /\ r \in Seq(Nat)
       /\ Len(r) = n - p
       /\ \A i \in 1 .. Len(r) : r[i] = q[i + p]
  BY <1>1, <1>3
<1> HIDE DEF r
<1>11. Evicted(q, r, cut)
  BY <1>3, <1>8, <1>10 DEF Evicted
<1>12. r # <<>> => r[1] > cut
  <2> SUFFICES ASSUME r # <<>>
               PROVE  r[1] > cut
    OBVIOUS
  <2>1. Len(r) \in Nat /\ Len(r) # 0
    BY <1>10
  <2>2. r[1] = q[1 + p] /\ p < n /\ 1 + p \in 1 .. n
    BY <1>10, <2>1, <1>3, <1>1
  <2>3. p + 1 = 1 + p
    BY <1>3
  <2> QED
    BY <2>2, <2>3, <1>9, <1>1
<1> QED
  BY <1>7, <1>10, <1>11, <1>12 DEF r

\* Popping nothing is an eviction.
LEMMA EvictedNone ==
  ASSUME NEW q \in Seq(Nat), NEW cut \in Int
  PROVE  Evicted(q, q, cut)
<1>1. 0 \in 0 .. Len(q) /\ \A i \in 1 .. Len(q) : q[i] = q[i + 0]
  OBVIOUS
<1> QED
  BY <1>1 DEF Evicted

\* Two evictions with one cutoff, the sweep's and the call's own, are one.
LEMMA EvictedTwice ==
  ASSUME NEW q \in Seq(Nat), NEW r, NEW s, NEW cut \in Int,
         Evicted(q, r, cut), Evicted(r, s, cut)
  PROVE  Evicted(q, s, cut)
<1>1. PICK p \in 0 .. Len(q) :
        /\ r \in Seq(Nat)
        /\ Len(r) = Len(q) - p
        /\ \A i \in 1 .. Len(r) : r[i] = q[i + p]
        /\ \A i \in 1 .. p : q[i] <= cut
  BY DEF Evicted
<1>2. PICK m \in 0 .. Len(r) :
        /\ s \in Seq(Nat)
        /\ Len(s) = Len(r) - m
        /\ \A i \in 1 .. Len(s) : s[i] = r[i + m]
        /\ \A i \in 1 .. m : r[i] <= cut
  BY DEF Evicted
<1>3. p + m \in 0 .. Len(q) /\ Len(s) = Len(q) - (p + m)
  BY <1>1, <1>2
<1>4. \A i \in 1 .. Len(s) : s[i] = q[i + (p + m)]
  <2> SUFFICES ASSUME NEW i \in 1 .. Len(s)
               PROVE  s[i] = q[i + (p + m)]
    OBVIOUS
  <2>1. i + m \in 1 .. Len(r) /\ (i + m) + p = i + (p + m)
    BY <1>1, <1>2
  <2> QED
    BY <2>1, <1>1, <1>2
<1>5. \A i \in 1 .. (p + m) : q[i] <= cut
  <2> SUFFICES ASSUME NEW i \in 1 .. (p + m)
               PROVE  q[i] <= cut
    OBVIOUS
  <2>1. CASE i <= p
    BY <2>1, <1>1
  <2>2. CASE ~(i <= p)
    <3>1. i - p \in 1 .. m /\ i - p \in 1 .. Len(r) /\ (i - p) + p = i
      BY <2>2, <1>1, <1>2
    <3> QED
      BY <3>1, <1>1, <1>2
  <2> QED
    BY <2>1, <2>2
<1> QED
  BY <1>2, <1>3, <1>4, <1>5 DEF Evicted

\* An eviction leaves a sequence of stamps, no longer than it was.
LEMMA EvictedLen ==
  ASSUME NEW q \in Seq(Nat), NEW r, NEW cut \in Int, Evicted(q, r, cut)
  PROVE  r \in Seq(Nat) /\ Len(r) <= Len(q)
BY DEF Evicted

\* An eviction keeps the order of a deque and its bound.
LEMMA EvictedSorted ==
  ASSUME NEW q \in Seq(Nat), NEW r, NEW cut \in Int, Evicted(q, r, cut),
         Sorted(q), NEW limit \in Int, \A i \in 1 .. Len(q) : q[i] <= limit
  PROVE  Sorted(r) /\ \A i \in 1 .. Len(r) : r[i] <= limit
<1>1. PICK p \in 0 .. Len(q) :
        /\ r \in Seq(Nat)
        /\ Len(r) = Len(q) - p
        /\ \A i \in 1 .. Len(r) : r[i] = q[i + p]
  BY DEF Evicted
<1>2. ASSUME NEW i \in 1 .. Len(r)
      PROVE  r[i] <= limit /\ \A j \in 1 .. i : r[j] <= r[i]
  <2>1. i + p \in 1 .. Len(q) /\ r[i] = q[i + p]
    BY <1>1
  <2>2. ASSUME NEW j \in 1 .. i
        PROVE  r[j] <= r[i]
    <3>1. j + p \in 1 .. (i + p) /\ j \in 1 .. Len(r)
      BY <1>1
    <3> QED
      BY <3>1, <2>1, <1>1 DEF Sorted
  <2> QED
    BY <2>1, <2>2
<1> QED
  BY <1>2 DEF Sorted

\* The live places of a deque are no more than its length.
LEMMA LiveIsFinite ==
  ASSUME NEW q \in Seq(Nat), NEW c
  PROVE  IsFiniteSet(Live(q, c)) /\ Cardinality(Live(q, c)) \in Nat
         /\ Cardinality(Live(q, c)) <= Len(q)
<1>1. IsFiniteSet(1 .. Len(q)) /\ Cardinality(1 .. Len(q)) = Len(q)
  <2>1. Len(q) \in Nat
    OBVIOUS
  <2>2. IsFiniteSet(1 .. Len(q))
        /\ Cardinality(1 .. Len(q)) = IF 1 > Len(q) THEN 0 ELSE Len(q) - 1 + 1
    BY <2>1, FS_Interval
  <2> QED
    BY <2>1, <2>2
<1>2. Live(q, c) \in SUBSET (1 .. Len(q))
  BY DEF Live
<1> QED
  BY <1>1, <1>2, FS_Subset, FS_CardinalityType

\* An eviction loses no stamp after its cutoff: the live places before and
\* after correspond one to one.
LEMMA EvictedLive ==
  ASSUME NEW q \in Seq(Nat), NEW r, NEW cut \in Int, Evicted(q, r, cut),
         NEW c \in Int, cut <= c
  PROVE  Cardinality(Live(r, c)) = Cardinality(Live(q, c))
<1>1. PICK p \in 0 .. Len(q) :
        /\ r \in Seq(Nat)
        /\ Len(r) = Len(q) - p
        /\ \A i \in 1 .. Len(r) : r[i] = q[i + p]
        /\ \A i \in 1 .. p : q[i] <= cut
  BY DEF Evicted
<1> DEFINE shift == [i \in Live(r, c) |-> i + p]
<1>2. shift \in [Live(r, c) -> Live(q, c)]
  <2> SUFFICES ASSUME NEW i \in Live(r, c)
               PROVE  i + p \in Live(q, c)
    OBVIOUS
  <2>1. i \in 1 .. Len(r) /\ r[i] > c
    BY DEF Live
  <2>2. i + p \in 1 .. Len(q) /\ q[i + p] = r[i]
    BY <2>1, <1>1
  <2> QED
    BY <2>1, <2>2 DEF Live
<1>3. shift \in Injection(Live(r, c), Live(q, c))
  <2>1. \A i, j \in Live(r, c) : i + p = j + p => i = j
    BY <1>1 DEF Live
  <2>2. \A i, j \in Live(r, c) : shift[i] = shift[j] => i = j
    BY <2>1
  <2> HIDE DEF shift
  <2> QED
    BY <1>2, <2>2, Fun_IsInj
<1>4. shift \in Surjection(Live(r, c), Live(q, c))
  <2>1. ASSUME NEW k \in Live(q, c)
        PROVE  \E i \in Live(r, c) : shift[i] = k
    <3>1. k \in 1 .. Len(q) /\ q[k] > c /\ q[k] \in Nat
      BY DEF Live
    <3>2. k > p
      <4>1. k <= p => q[k] <= cut
        BY <1>1, <3>1
      <4> QED
        BY <4>1, <3>1, <1>1
    <3>3. k - p \in 1 .. Len(r) /\ (k - p) + p = k
      BY <3>1, <3>2, <1>1
    <3>4. k - p \in Live(r, c)
      BY <3>1, <3>3, <1>1 DEF Live
    <3> QED
      BY <3>3, <3>4
  <2> QED
    BY <1>2, <2>1, Fun_IsSurj
<1>5. ExistsBijection(Live(r, c), Live(q, c))
  BY <1>3, <1>4 DEF ExistsBijection, Bijection
<1>6. IsFiniteSet(Live(r, c))
  BY <1>1, LiveIsFinite
<1> QED
  BY <1>5, <1>6, FS_Bijection

\* A stamp appended is one more live place, if it is live.
LEMMA AppendLive ==
  ASSUME NEW q \in Seq(Nat), NEW n \in Nat, NEW c \in Int
  PROVE  Cardinality(Live(Append(q, n), c)) =
           IF n > c THEN Cardinality(Live(q, c)) + 1 ELSE Cardinality(Live(q, c))
<1> DEFINE m == Len(q) + 1
           r == Append(q, n)
<1>1. /\ m \in Nat /\ Len(r) = m /\ r[m] = n
      /\ \A i \in 1 .. Len(q) : r[i] = q[i]
      /\ 1 .. m = (1 .. Len(q)) \cup {m}
      /\ m \notin 1 .. Len(q)
  OBVIOUS
<1>2. IsFiniteSet(Live(q, c)) /\ m \notin Live(q, c)
  BY <1>1, LiveIsFinite DEF Live
<1>3. Live(r, c) = IF n > c THEN Live(q, c) \cup {m} ELSE Live(q, c)
  <2> HIDE DEF m, r
  <2> QED
    BY <1>1 DEF Live
<1>4. Cardinality(Live(q, c) \cup {m}) = Cardinality(Live(q, c)) + 1
  <2> HIDE DEF m
  <2> QED
    BY <1>2, FS_AddElement
<1> QED
  BY <1>3, <1>4

---------------------------------------------------------------------------

\* The keys limiter l may track.
Keys(l) == IF l = "identity" THEN Identities ELSE {"global"}

\* Counting is meaningful: both sets are finite.
Finite ==
  \A l \in Limiters : IsFiniteSet(DOMAIN requests[l]) /\ IsFiniteSet(admitted[l])

\* A thread outside a call holds no caller and no time, one inside knows its caller.
CallFits ==
  \A t \in Threads :
    /\ pc[t] = "idle" => caller[t] = None /\ now[t] = None
    /\ pc[t] # "idle" => caller[t] \in Identities

\* The part of the inductive invariant that holds for any number of threads.
Bounded == TypeOK /\ TableBounded /\ Finite /\ CallFits

\* What the assumption says of each constant.
LEMMA Constants ==
  /\ MaxTrackedKeys \in Nat /\ PruneInterval \in Nat
  /\ \A l \in Limiters : MaxRequests[l] \in Nat \ {0} /\ Window[l] \in Nat \ {0}
  /\ None \notin Nat /\ None \notin Identities
BY RateLimiterAssumption DEF Limiters, MaxRequests, Window

\* The key of a caller is one its limiter tracks.
LEMMA KeyOfCaller ==
  ASSUME NEW l \in Limiters, NEW i \in Identities
  PROVE  Key(l, i) \in Keys(l)
BY DEF Key, Keys

\* A deque is a sequence of stamps, the empty one for a key that is not
\* tracked.
LEMMA DequeTyped ==
  ASSUME TypeOK, NEW l \in Limiters, NEW k
  PROVE  Deque(requests[l], k) \in Seq(Nat)
BY DEF TypeOK, Deque

\* No deque is longer than the limit, the empty one included.
LEMMA DequeBounded ==
  ASSUME TypeOK, TableBounded, NEW l \in Limiters, NEW k
  PROVE  Len(Deque(requests[l], k)) <= MaxRequests[l]
BY Constants DEF TableBounded, Deque

\* A sweep tracks no new key and pops only expired stamps; a key it drops had
\* no others.
LEMMA PrunedTyped ==
  ASSUME TypeOK, NEW l \in Limiters, NEW cut \in Int
  PROVE  /\ DOMAIN Pruned(l, cut) \subseteq DOMAIN requests[l]
         /\ \A k : /\ Deque(Pruned(l, cut), k) \in Seq(Nat)
                   /\ Evicted(Deque(requests[l], k), Deque(Pruned(l, cut), k), cut)
<1>1. \A k \in DOMAIN requests[l] : requests[l][k] \in Seq(Nat)
  BY DEF TypeOK
<1>2. CASE PruneDue(l)
  <2> DEFINE kept == {k \in DOMAIN requests[l] : Fresh(requests[l][k], cut) # <<>>}
  <2>1. Pruned(l, cut) = [k \in kept |-> Fresh(requests[l][k], cut)]
    BY <1>2 DEF Pruned
  <2>2. \A k \in kept : k \in DOMAIN requests[l]
    OBVIOUS
  <2>3. \A k \in DOMAIN requests[l] :
          /\ Fresh(requests[l][k], cut) \in Seq(Nat)
          /\ Evicted(requests[l][k], Fresh(requests[l][k], cut), cut)
          /\ k \notin kept => Fresh(requests[l][k], cut) = <<>>
    BY <1>1, FreshEvicts
  <2> HIDE DEF kept
  <2>4. ASSUME NEW k
        PROVE  /\ Deque(Pruned(l, cut), k) \in Seq(Nat)
               /\ Evicted(Deque(requests[l], k), Deque(Pruned(l, cut), k), cut)
    <3>1. CASE k \in kept
      BY <3>1, <2>1, <2>2, <2>3 DEF Deque
    <3>2. CASE k \notin kept /\ k \in DOMAIN requests[l]
      <4>1. Deque(Pruned(l, cut), k) = <<>>
        BY <3>2, <2>1 DEF Deque
      <4>2. Deque(requests[l], k) = requests[l][k]
        BY <3>2 DEF Deque
      <4> QED
        BY <3>2, <4>1, <4>2, <2>3
    <3>3. CASE k \notin DOMAIN requests[l]
      <4>1. Deque(Pruned(l, cut), k) = <<>> /\ Deque(requests[l], k) = <<>>
        BY <3>3, <2>1, <2>2 DEF Deque
      <4>2. <<>> \in Seq(Nat)
        OBVIOUS
      <4> QED
        BY <4>1, <4>2, EvictedNone
    <3> QED
      BY <3>1, <3>2, <3>3
  <2> QED
    BY <2>1, <2>2, <2>4
<1>3. CASE ~PruneDue(l)
  <2>1. Pruned(l, cut) = requests[l]
    BY <1>3 DEF Pruned
  <2> QED
    BY <2>1, DequeTyped, EvictedNone
<1> QED
  BY <1>2, <1>3

\* What allow() finds in the deque of its caller's key: the stamps of before
\* without expired ones.
LEMMA StampsTyped ==
  ASSUME Bounded, NEW t \in Threads, NEW l \in Limiters, pc[t] = l, now[t] # None
  PROVE  /\ now[t] \in Nat
         /\ caller[t] \in Identities
         /\ Key(l, caller[t]) \in Keys(l)
         /\ Cutoff(l, t) \in Int
         /\ Stamps(l, t) \in Seq(Nat)
         /\ Evicted(Deque(requests[l], Key(l, caller[t])), Stamps(l, t), Cutoff(l, t))
         /\ Len(Stamps(l, t)) <= MaxRequests[l]
<1>1. now[t] \in Nat
  BY DEF Bounded, TypeOK
<1>2. caller[t] \in Identities /\ Key(l, caller[t]) \in Keys(l)
  BY KeyOfCaller DEF Bounded, CallFits, Limiters
<1>3. Cutoff(l, t) \in Int
  BY <1>1, Constants DEF Cutoff
<1> DEFINE cut  == Cutoff(l, t)
           q    == Deque(requests[l], Key(l, caller[t]))
           left == Deque(Table(l, t), Key(l, caller[t]))
<1>4. q \in Seq(Nat) /\ Len(q) <= MaxRequests[l]
  BY DequeTyped, DequeBounded DEF Bounded
<1>5. left \in Seq(Nat) /\ Evicted(q, left, cut)
  BY <1>3, PrunedTyped DEF Bounded, Table
<1>6. Stamps(l, t) = Fresh(left, cut)
  BY DEF Stamps
<1> HIDE DEF cut, q, left
<1>7. Fresh(left, cut) \in Seq(Nat) /\ Evicted(left, Fresh(left, cut), cut)
  BY <1>3, <1>5, FreshEvicts DEF cut
<1>8. Evicted(q, Fresh(left, cut), cut)
  BY <1>3, <1>4, <1>5, <1>7, EvictedTwice DEF cut
<1>9. Len(Fresh(left, cut)) <= MaxRequests[l]
  <2>1. Len(Fresh(left, cut)) <= Len(q)
    BY <1>3, <1>4, <1>8, EvictedLen DEF cut
  <2>2. Len(Fresh(left, cut)) \in Nat /\ Len(q) \in Nat
    BY <1>4, <1>7
  <2> QED
    BY <2>1, <2>2, <1>4, Constants
<1> QED
  BY <1>1, <1>2, <1>3, <1>6, <1>7, <1>8, <1>9 DEF cut, q

\* A map as limiter l may leave it: typed, and within both bounds.
TableFits(l, table) ==
  /\ DOMAIN table \subseteq Keys(l)
  /\ IsFiniteSet(DOMAIN table)
  /\ Cardinality(DOMAIN table) <= MaxTrackedKeys
  /\ \A k \in DOMAIN table : table[k] \in Seq(Nat) /\ Len(table[k]) <= MaxRequests[l]

\* The invariant says of both maps that they are within their bounds.
LEMMA TableOfBounded ==
  ASSUME Bounded, NEW l \in Limiters
  PROVE  TableFits(l, requests[l])
BY DEF Bounded, TypeOK, TableBounded, Finite, TableFits, Keys

\* A sweep keeps a map within its bounds.
LEMMA SweptFits ==
  ASSUME Bounded, NEW l \in Limiters, NEW cut \in Int
  PROVE  TableFits(l, Pruned(l, cut))
<1> DEFINE table == Pruned(l, cut)
<1>1. DOMAIN table \subseteq DOMAIN requests[l]
  BY PrunedTyped DEF Bounded
<1>2. \A k : /\ Deque(table, k) \in Seq(Nat)
             /\ Evicted(Deque(requests[l], k), Deque(table, k), cut)
  BY PrunedTyped DEF Bounded
<1>3. \A k : Deque(requests[l], k) \in Seq(Nat) /\ Len(Deque(requests[l], k)) <= MaxRequests[l]
  BY DequeTyped, DequeBounded DEF Bounded
<1> HIDE DEF table
<1>4. ASSUME NEW k \in DOMAIN table
      PROVE  table[k] \in Seq(Nat) /\ Len(table[k]) <= MaxRequests[l]
  <2>1. table[k] = Deque(table, k)
    BY DEF Deque
  <2>2. Len(Deque(table, k)) <= Len(Deque(requests[l], k))
    BY <1>2, <1>3, EvictedLen
  <2>3. Len(Deque(table, k)) \in Nat /\ Len(Deque(requests[l], k)) \in Nat
    BY <1>2, <1>3
  <2> QED
    BY <2>1, <2>2, <2>3, <1>2, <1>3, Constants
<1>5. /\ DOMAIN requests[l] \subseteq Keys(l)
      /\ IsFiniteSet(DOMAIN requests[l])
      /\ Cardinality(DOMAIN requests[l]) <= MaxTrackedKeys
  BY TableOfBounded DEF TableFits
<1>6. /\ IsFiniteSet(DOMAIN table)
      /\ Cardinality(DOMAIN table) <= Cardinality(DOMAIN requests[l])
  BY <1>1, <1>5, FS_Subset
<1>7. Cardinality(DOMAIN table) \in Nat /\ Cardinality(DOMAIN requests[l]) \in Nat
  BY <1>5, <1>6, FS_CardinalityType
<1> QED
  BY <1>1, <1>4, <1>5, <1>6, <1>7, Constants DEF TableFits, table

\* Writing one deque back keeps a map within its bounds, when it is not full
\* for that key.
LEMMA PutFits ==
  ASSUME NEW l \in Limiters, NEW table, TableFits(l, table), NEW key \in Keys(l),
         ~Full(table, key), NEW stamps \in Seq(Nat), Len(stamps) <= MaxRequests[l]
  PROVE  TableFits(l, Put(table, key, stamps))
<1> DEFINE next == Put(table, key, stamps)
<1>1. DOMAIN next = DOMAIN table \cup {key}
  BY DEF Put
<1>2. \A k \in DOMAIN next : next[k] = IF k = key THEN stamps ELSE table[k]
  BY DEF Put
<1>3. \A k \in DOMAIN next : next[k] \in Seq(Nat) /\ Len(next[k]) <= MaxRequests[l]
  <2> HIDE DEF next
  <2> QED
    BY <1>1, <1>2 DEF TableFits
<1>4. IsFiniteSet(DOMAIN table) /\ Cardinality(DOMAIN table) \in Nat
  BY FS_CardinalityType DEF TableFits
<1>5. /\ IsFiniteSet(DOMAIN table \cup {key})
      /\ Cardinality(DOMAIN table \cup {key}) =
           IF key \in DOMAIN table THEN Cardinality(DOMAIN table)
           ELSE Cardinality(DOMAIN table) + 1
  BY <1>4, FS_AddElement
<1>6. Cardinality(DOMAIN table \cup {key}) <= MaxTrackedKeys
  BY <1>4, <1>5, Constants DEF Full, TableFits
<1> HIDE DEF next
<1>7. TableFits(l, next)
  BY <1>1, <1>3, <1>5, <1>6 DEF TableFits
<1> QED
  BY <1>7 DEF next

\* Both limiters' maps are within their bounds.
TableFitsEverywhere ==
  DOMAIN requests = Limiters /\ \A l \in Limiters : TableFits(l, requests[l])

\* Maps within their bounds are what the invariant asks of them.
LEMMA FitsSuffices ==
  TableFitsEverywhere =>
    /\ TableBounded
    /\ DOMAIN requests = Limiters
    /\ \A l \in Limiters :
         /\ IsFiniteSet(DOMAIN requests[l])
         /\ DOMAIN requests[l] \subseteq (IF l = "identity" THEN Identities ELSE {"global"})
         /\ \A k \in DOMAIN requests[l] : requests[l][k] \in Seq(Nat)
BY DEF TableFitsEverywhere, TableFits, TableBounded, Keys

\* The same of the maps after a step.
LEMMA FitsSufficesNext ==
  TableFitsEverywhere' =>
    /\ TableBounded'
    /\ DOMAIN requests' = Limiters
    /\ \A l \in Limiters :
         /\ IsFiniteSet(DOMAIN requests'[l])
         /\ DOMAIN requests'[l] \subseteq (IF l = "identity" THEN Identities ELSE {"global"})
         /\ \A k \in DOMAIN requests'[l] : requests'[l][k] \in Seq(Nat)
BY DEF TableFitsEverywhere, TableFits, TableBounded, Keys

\* A refusal leaves the maps within their bounds, and at most pops expired
\* stamps.
LEMMA RefuseTable ==
  ASSUME Bounded, NEW t \in Threads, NEW l \in Limiters, Refuse(l, t)
  PROVE  /\ DOMAIN requests' = Limiters
         /\ TableFits(l, requests'[l])
         /\ \A m \in Limiters : m # l => requests'[m] = requests[m]
         /\ \A k : Evicted(Deque(requests[l], k), Deque(requests'[l], k), Cutoff(l, t))
<1> DEFINE key   == Key(l, caller[t])
           table == Table(l, t)
<1>1. pc[t] = l /\ now[t] # None
  BY DEF Refuse
<1>2. /\ key \in Keys(l)
      /\ Cutoff(l, t) \in Int
      /\ Stamps(l, t) \in Seq(Nat)
      /\ Evicted(Deque(requests[l], key), Stamps(l, t), Cutoff(l, t))
      /\ Len(Stamps(l, t)) <= MaxRequests[l]
  BY <1>1, StampsTyped
<1>3. /\ DOMAIN requests' = Limiters
      /\ \A m \in Limiters : m # l => requests'[m] = requests[m]
      /\ requests'[l] = IF Full(table, key) THEN table
                        ELSE Put(table, key, Stamps(l, t))
  BY DEF Refuse, Bounded, TypeOK
<1>4. TableFits(l, table)
  BY <1>2, SweptFits DEF Table
<1>5. \A k : Evicted(Deque(requests[l], k), Deque(table, k), Cutoff(l, t))
  BY <1>2, PrunedTyped DEF Table, Bounded
<1> HIDE DEF key, table
<1>6. CASE Full(table, key)
  BY <1>3, <1>4, <1>5, <1>6
<1>7. CASE ~Full(table, key)
  <2>1. TableFits(l, requests'[l])
    BY <1>2, <1>3, <1>4, <1>7, PutFits
  <2>2. \A k : Deque(requests'[l], k) = IF k = key THEN Stamps(l, t) ELSE Deque(table, k)
    <3>1. \A k : Deque(Put(table, key, Stamps(l, t)), k) =
                  IF k = key THEN Stamps(l, t) ELSE Deque(table, k)
      BY DEF Put, Deque
    <3> QED
      BY <3>1, <1>3, <1>7
  <2> QED
    BY <2>1, <2>2, <1>2, <1>3, <1>5
<1> QED
  BY <1>6, <1>7

\* A request let through leaves the maps within their bounds; its stamp is
\* appended to the deque of its key, which had room, and every other deque at
\* most loses expired stamps.
LEMMA AdmitTable ==
  ASSUME Bounded, NEW t \in Threads, NEW l \in Limiters, Admit(l, t)
  PROVE  /\ DOMAIN requests' = Limiters
         /\ TableFits(l, requests'[l])
         /\ \A m \in Limiters : m # l => requests'[m] = requests[m]
         /\ \A k : k # Key(l, caller[t]) =>
              Evicted(Deque(requests[l], k), Deque(requests'[l], k), Cutoff(l, t))
         /\ Deque(requests'[l], Key(l, caller[t])) = Append(Stamps(l, t), now[t])
         /\ Len(Stamps(l, t)) < MaxRequests[l]
<1> DEFINE key    == Key(l, caller[t])
           table  == Table(l, t)
           stamps == Append(Stamps(l, t), now[t])
<1>1. pc[t] = l /\ now[t] # None
  BY DEF Admit
<1>2. /\ key \in Keys(l)
      /\ now[t] \in Nat
      /\ Cutoff(l, t) \in Int
      /\ Stamps(l, t) \in Seq(Nat)
  BY <1>1, StampsTyped
<1>3. /\ DOMAIN requests' = Limiters
      /\ \A m \in Limiters : m # l => requests'[m] = requests[m]
      /\ requests'[l] = Put(table, key, stamps)
      /\ ~Full(table, key)
      /\ ~(Len(Stamps(l, t)) >= MaxRequests[l])
  BY DEF Admit, Refused, Bounded, TypeOK
<1>4. TableFits(l, table)
  BY <1>2, SweptFits DEF Table
<1>5. \A k : Evicted(Deque(requests[l], k), Deque(table, k), Cutoff(l, t))
  BY <1>2, PrunedTyped DEF Table, Bounded
<1>6. /\ stamps \in Seq(Nat)
      /\ Len(stamps) <= MaxRequests[l]
      /\ Len(Stamps(l, t)) < MaxRequests[l]
  BY <1>2, <1>3, Constants
<1> HIDE DEF key, table, stamps
<1>7. TableFits(l, requests'[l])
  BY <1>2, <1>3, <1>4, <1>6, PutFits
<1>8. \A k : Deque(requests'[l], k) = IF k = key THEN stamps ELSE Deque(table, k)
  <2>1. \A k : Deque(Put(table, key, stamps), k) =
                IF k = key THEN stamps ELSE Deque(table, k)
    BY DEF Put, Deque
  <2> QED
    BY <2>1, <1>3
<1>9. \A k : k # key =>
        Evicted(Deque(requests[l], k), Deque(requests'[l], k), Cutoff(l, t))
  BY <1>8, <1>5
<1>10. Deque(requests'[l], key) = stamps
  BY <1>8
<1> QED
  BY <1>3, <1>6, <1>7, <1>9, <1>10 DEF key, stamps

\* The history records requests.
LEMMA AdmissionTyped ==
  ASSUME Bounded, NEW t \in Threads, NEW l \in Limiters, pc[t] = l, now[t] # None
  PROVE  Admission(l, t) \in Request
<1> DEFINE alike == {a \in admitted[l] : a.caller = caller[t] /\ a.stamp = now[t]}
<1>1. now[t] \in Nat /\ caller[t] \in Identities
  BY StampsTyped
<1>2. IsFiniteSet(admitted[l]) /\ alike \in SUBSET admitted[l]
  BY DEF Bounded, Finite
<1>3. Admission(l, t) = [caller |-> caller[t], stamp |-> now[t], n |-> Cardinality(alike) + 1]
  BY DEF Admission
<1> HIDE DEF alike
<1>4. Cardinality(alike) \in Nat
  BY <1>2, FS_Subset, FS_CardinalityType
<1> QED
  BY <1>1, <1>3, <1>4 DEF Request

\* The bounds hold in the initial state.
LEMMA BoundedInit == Init => Bounded
<1> SUFFICES ASSUME Init
             PROVE  Bounded
  OBVIOUS
<1>1. DOMAIN requests = Limiters /\ \A l \in Limiters : DOMAIN requests[l] = {}
  BY DEF Init
<1>2. \A l \in Limiters : TableFits(l, requests[l])
  <2>1. IsFiniteSet({}) /\ Cardinality({}) = 0 /\ 0 <= MaxTrackedKeys
    BY FS_EmptySet, Constants
  <2> QED
    BY <1>1, <2>1 DEF TableFits
<1>3. \A l \in Limiters : IsFiniteSet(admitted[l])
  BY FS_EmptySet DEF Init
<1>4. /\ clock \in Nat
      /\ lastPrune \in [Limiters -> Nat]
      /\ pc     \in [Threads -> Limiters \cup {"idle"}]
      /\ caller \in [Threads -> Identities \cup {None}]
      /\ now    \in [Threads -> Nat \cup {None}]
      /\ admitted \in [Limiters -> SUBSET Request]
  BY Constants DEF Init
<1>5. CallFits
  BY DEF Init, CallFits
<1> QED
  BY <1>1, <1>2, <1>3, <1>4, <1>5, FitsSuffices DEF TableFitsEverywhere, Bounded, TypeOK, Finite

\* Every step keeps the bounds, whichever threads interleave.
LEMMA BoundedNext == Bounded /\ [Next]_vars => Bounded'
<1> SUFFICES ASSUME Bounded, [Next]_vars
             PROVE  Bounded'
  OBVIOUS
<1> USE DEF Bounded
<1>1. CASE Tick
  BY <1>1 DEF Tick, TypeOK, TableBounded, Finite, CallFits
<1>2. ASSUME NEW t \in Threads, CheckRequestRate(t)
      PROVE  Bounded'
  <2>1. PICK i \in Identities : caller' = [caller EXCEPT ![t] = i]
    BY <1>2 DEF CheckRequestRate
  <2>2. pc' = [pc EXCEPT ![t] = "identity"]
        /\ UNCHANGED <<clock, requests, lastPrune, now, admitted>>
    BY <1>2 DEF CheckRequestRate
  <2>3. TypeOK' /\ TableBounded' /\ Finite'
    BY <2>1, <2>2 DEF TypeOK, TableBounded, Finite, Limiters
  <2>4. CallFits'
    BY <2>1, <2>2 DEF CallFits, TypeOK
  <2> QED
    BY <2>3, <2>4
<1>3. ASSUME NEW t \in Threads, ReadClock(t)
      PROVE  Bounded'
  <2>1. TypeOK' /\ TableBounded' /\ Finite'
    BY <1>3 DEF ReadClock, TypeOK, TableBounded, Finite
  <2>2. CallFits'
    BY <1>3 DEF CallFits, TypeOK, ReadClock, Limiters
  <2> QED
    BY <2>1, <2>2
<1>4. ASSUME NEW t \in Threads, NEW l \in Limiters, Admit(l, t)
      PROVE  Bounded'
  <2>1. /\ DOMAIN requests' = Limiters
        /\ \A m \in Limiters : TableFits(m, requests'[m])
    BY <1>4, AdmitTable, TableOfBounded
  <2>2. Admission(l, t) \in Request
    BY <1>4, AdmissionTyped DEF Admit
  <2>3. admitted' = [admitted EXCEPT ![l] = @ \cup {Admission(l, t)}]
    BY <1>4 DEF Admit
  <2>4. \A m \in Limiters : IsFiniteSet(admitted'[m])
    <3>1. IsFiniteSet(admitted[l] \cup {Admission(l, t)})
      BY FS_AddElement DEF Finite
    <3> QED
      BY <3>1, <2>3 DEF Finite, TypeOK
  <2>5. admitted' \in [Limiters -> SUBSET Request]
    BY <2>2, <2>3 DEF TypeOK
  <2>6. /\ clock' \in Nat
        /\ lastPrune' \in [Limiters -> Nat]
        /\ pc'     \in [Threads -> Limiters \cup {"idle"}]
        /\ caller' \in [Threads -> Identities \cup {None}]
        /\ now'    \in [Threads -> Nat \cup {None}]
    BY <1>4 DEF Admit, Sweep, NextLimiter, TypeOK, Limiters
  <2>7. CallFits'
    BY <1>4 DEF Admit, NextLimiter, CallFits, TypeOK, Limiters
  <2>8. TableFitsEverywhere'
    BY <2>1 DEF TableFitsEverywhere
  <2> QED
    BY <2>4, <2>5, <2>6, <2>7, <2>8, FitsSufficesNext DEF TypeOK, Finite
<1>5. ASSUME NEW t \in Threads, NEW l \in Limiters, Refuse(l, t)
      PROVE  Bounded'
  <2>1. /\ DOMAIN requests' = Limiters
        /\ \A m \in Limiters : TableFits(m, requests'[m])
    BY <1>5, RefuseTable, TableOfBounded
  <2>2. /\ clock' \in Nat
        /\ lastPrune' \in [Limiters -> Nat]
        /\ pc'     \in [Threads -> Limiters \cup {"idle"}]
        /\ caller' \in [Threads -> Identities \cup {None}]
        /\ now'    \in [Threads -> Nat \cup {None}]
        /\ admitted' \in [Limiters -> SUBSET Request]
        /\ \A m \in Limiters : IsFiniteSet(admitted'[m])
    BY <1>5 DEF Refuse, Sweep, TypeOK, Limiters, Finite
  <2>3. CallFits'
    BY <1>5 DEF Refuse, CallFits, TypeOK, Limiters
  <2>4. TableFitsEverywhere'
    BY <2>1 DEF TableFitsEverywhere
  <2> QED
    BY <2>2, <2>3, <2>4, FitsSufficesNext DEF TypeOK, Finite
<1>6. CASE UNCHANGED vars
  BY <1>6 DEF vars, TypeOK, TableBounded, Finite, CallFits
<1> QED
  BY <1>1, <1>2, <1>3, <1>4, <1>5, <1>6 DEF Next

\* The memory of both limiters stays bounded however many identities call and
\* however their calls interleave: never more tracked keys than
\* RATE_LIMIT_MAX_TRACKED_KEYS, no deque longer than its limit.
THEOREM TableStaysBounded == Spec => []TableInv
<1>1. Bounded => TableInv
  BY DEF Bounded, TableInv
<1> QED
  BY BoundedInit, BoundedNext, <1>1, PTL DEF Spec

---------------------------------------------------------------------------

\* The event loop's thread makes every call: check_request_rate has no await, so
\* no other request runs between the clock and the lock.
OneThread == \E t : Threads = {t}

\* The thread of the event loop.
TheThread == CHOOSE t : Threads = {t}

\* The time a decision would be made for: the clock the thread has read, or will.
Present == IF now[TheThread] = None THEN clock ELSE now[TheThread]

\* The requests let through under key k with a stamp after c.
Tokens(l, k, c) == {a \in admitted[l] : Key(l, a.caller) = k /\ a.stamp > c}

\* From the oldest window that can still be asked about on, a deque counts the
\* requests let through under its key.
Matched ==
  \A l \in Limiters : \A k \in Keys(l) : \A c \in Int : c >= Present - Window[l] =>
    Cardinality(Tokens(l, k, c)) = Cardinality(Live(Deque(requests[l], k), c))

\* Every deque is sorted and holds no stamp of the future.
Ordered ==
  \A l \in Limiters : \A k \in Keys(l) :
    LET q == Deque(requests[l], k)
    IN Sorted(q) /\ \A i \in 1 .. Len(q) : q[i] <= Present

\* Nor does the history, and the present is not after the clock.
Past == Present <= clock /\ \A l \in Limiters : \A a \in admitted[l] : a.stamp <= Present

\* The requests of one caller let through with one stamp.
Alike(l, i, n) == {a \in admitted[l] : a.caller = i /\ a.stamp = n}

\* No number is given out before its turn, so the next one is new.
Numbered ==
  \A l \in Limiters : \A a \in admitted[l] : a.n <= Cardinality(Alike(l, a.caller, a.stamp))

\* The requests let through under key k in the window that ends with last.
Within(l, k, last) ==
  {a \in admitted[l] : Key(l, a.caller) = k /\ last - Window[l] < a.stamp /\ a.stamp <= last}

\* The limit, in every window and under every key.
Kept ==
  \A l \in Limiters : \A k \in Keys(l) : \A last \in Int :
    Cardinality(Within(l, k, last)) <= MaxRequests[l]

\* The part of the inductive invariant that holds for one thread.
Timed == Matched /\ Ordered /\ Past /\ Numbered /\ Kept

\* With one thread, every thread is that one.
LEMMA OnlyThread ==
  ASSUME OneThread
  PROVE  Threads = {TheThread}
BY DEF OneThread, TheThread

\* The present is a time.
LEMMA PresentTyped ==
  ASSUME OneThread, Bounded
  PROVE  Present \in Nat /\ TheThread \in Threads /\ clock \in Nat
BY OnlyThread DEF Bounded, TypeOK, Present

\* The history's sets can be counted: those of a key ...
LEMMA TokensFinite ==
  ASSUME Bounded, NEW l \in Limiters, NEW k, NEW c
  PROVE  /\ IsFiniteSet(Tokens(l, k, c)) /\ Cardinality(Tokens(l, k, c)) \in Nat
         /\ IsFiniteSet(Within(l, k, c)) /\ Cardinality(Within(l, k, c)) \in Nat
<1>1. IsFiniteSet(admitted[l])
  BY DEF Bounded, Finite
<1>2. /\ Tokens(l, k, c) \in SUBSET admitted[l]
      /\ Within(l, k, c) \in SUBSET admitted[l]
  BY DEF Tokens, Within
<1> QED
  BY <1>1, <1>2, FS_Subset, FS_CardinalityType

\* ... and those of a caller at one instant.
LEMMA AlikeFinite ==
  ASSUME Bounded, NEW l \in Limiters, NEW i, NEW n
  PROVE  IsFiniteSet(Alike(l, i, n)) /\ Cardinality(Alike(l, i, n)) \in Nat
<1>1. IsFiniteSet(admitted[l])
  BY DEF Bounded, Finite
<1>2. Alike(l, i, n) \in SUBSET admitted[l]
  BY DEF Alike
<1> QED
  BY <1>1, <1>2, FS_Subset, FS_CardinalityType

\* Nothing is tracked and nobody let through in the initial state.
LEMMA TimedInit ==
  ASSUME OneThread, Init
  PROVE  Timed
<1>1. Bounded
  BY BoundedInit
<1>2. Present = clock /\ clock \in Nat
  BY <1>1, PresentTyped DEF Init, Present
<1>3. \A l \in Limiters : admitted[l] = {} /\ \A k : Deque(requests[l], k) = <<>>
  BY DEF Init, Deque
<1>4. \A l \in Limiters : \A k : \A c :
        Tokens(l, k, c) = {} /\ Within(l, k, c) = {}
  BY <1>3 DEF Tokens, Within
<1>5. Cardinality({}) = 0
  BY FS_EmptySet
<1>6. \A c : Live(<<>>, c) = {}
  BY DEF Live
<1>7. Matched
  BY <1>3, <1>4, <1>5, <1>6 DEF Matched
<1>8. Ordered
  <2>1. Sorted(<<>>) /\ 1 .. Len(<<>>) = {}
    BY DEF Sorted
  <2> QED
    BY <2>1, <1>3 DEF Ordered
<1>9. Past /\ Numbered
  BY <1>2, <1>3 DEF Past, Numbered
<1>10. Kept
  BY <1>4, <1>5, Constants DEF Kept
<1> QED
  BY <1>7, <1>8, <1>9, <1>10 DEF Timed

\* Time may pass: a step that leaves the deques and the history alone keeps
\* the invariant, as the present never moves back.
LEMMA TimedFrame ==
  ASSUME OneThread, Bounded, Timed, UNCHANGED <<requests, admitted>>,
         Present' \in Int, clock' \in Int, Present <= Present', Present' <= clock'
  PROVE  Timed'
<1>1. Present \in Nat
  BY PresentTyped
<1>2. Matched'
  <2> SUFFICES ASSUME NEW l \in Limiters, NEW k \in Keys(l), NEW c \in Int,
                      c >= Present' - Window[l]
               PROVE  Cardinality(Tokens(l, k, c))' = Cardinality(Live(Deque(requests[l], k), c))'
    BY DEF Matched
  <2>1. c >= Present - Window[l]
    BY <1>1, Constants
  <2>2. Cardinality(Tokens(l, k, c)) = Cardinality(Live(Deque(requests[l], k), c))
    BY <2>1 DEF Timed, Matched
  <2>3. Tokens(l, k, c)' = Tokens(l, k, c) /\ requests'[l] = requests[l]
    BY DEF Tokens
  <2> QED
    BY <2>2, <2>3
<1>3. Ordered'
  <2> SUFFICES ASSUME NEW l \in Limiters, NEW k \in Keys(l)
               PROVE  LET q == Deque(requests'[l], k)
                      IN Sorted(q) /\ \A i \in 1 .. Len(q) : q[i] <= Present'
    BY DEF Ordered
  <2> DEFINE q == Deque(requests[l], k)
  <2>1. q \in Seq(Nat)
    BY DequeTyped DEF Bounded
  <2>2. Sorted(q) /\ \A i \in 1 .. Len(q) : q[i] <= Present
    BY DEF Timed, Ordered
  <2>3. Deque(requests'[l], k) = q
    OBVIOUS
  <2> HIDE DEF q
  <2>4. \A i \in 1 .. Len(q) : q[i] <= Present'
    BY <2>1, <2>2, <1>1
  <2> QED
    BY <2>2, <2>3, <2>4
<1>4. Past'
  <2>1. \A l \in Limiters : \A a \in admitted[l] : a.stamp \in Nat /\ a.stamp <= Present
    BY DEF Timed, Past, Bounded, TypeOK, Request
  <2> QED
    BY <2>1, <1>1 DEF Past
<1>5. Numbered' /\ Kept'
  BY DEF Timed, Numbered, Kept, Alike, Within
<1> QED
  BY <1>2, <1>3, <1>4, <1>5 DEF Timed

\* During a call the present is the clock it read.
LEMMA CallerIsPresent ==
  ASSUME OneThread, Bounded, NEW t \in Threads, NEW l \in Limiters, now[t] # None
  PROVE  /\ Present = now[t]
         /\ Cutoff(l, t) = Present - Window[l]
BY OnlyThread DEF Present, Cutoff

\* After a call the present is the clock, no earlier than the call's own time.
LEMMA PresentAfter ==
  ASSUME OneThread, Bounded, Timed, NEW t \in Threads, now' = [now EXCEPT ![t] = None],
         UNCHANGED clock
  PROVE  Present' = clock /\ Present \in Nat /\ clock \in Nat /\ Present <= Present'
<1>1. TheThread = t /\ Present \in Nat /\ clock \in Nat
  BY OnlyThread, PresentTyped
<1>2. Present' = clock
  BY <1>1 DEF Present, Bounded, TypeOK
<1> QED
  BY <1>1, <1>2 DEF Timed, Past

\* Matched and Ordered for one deque, at one time.
DequeFits(l, k, q, present) ==
  /\ \A c \in Int : c >= present - Window[l] =>
       Cardinality(Tokens(l, k, c)) = Cardinality(Live(q, c))
  /\ Sorted(q)
  /\ \A i \in 1 .. Len(q) : q[i] <= present

\* The invariant, for one deque.
LEMMA DequesFit ==
  ASSUME Timed, NEW l \in Limiters, NEW k \in Keys(l)
  PROVE  DequeFits(l, k, Deque(requests[l], k), Present)
BY DEF Timed, Matched, Ordered, DequeFits

\* A deque that has lost expired stamps still matches the history, now or
\* later.
LEMMA EvictedFits ==
  ASSUME Bounded, NEW l \in Limiters, NEW k \in Keys(l), NEW q \in Seq(Nat), NEW r,
         NEW present \in Nat, NEW later \in Nat, present <= later,
         DequeFits(l, k, q, present), Evicted(q, r, present - Window[l])
  PROVE  DequeFits(l, k, r, later)
<1>1. Window[l] \in Nat
  BY Constants
<1>2. r \in Seq(Nat)
  BY <1>1, EvictedLen
<1>3. Sorted(r) /\ \A i \in 1 .. Len(r) : r[i] <= present
  BY <1>1, EvictedSorted DEF DequeFits
<1>4. \A i \in 1 .. Len(r) : r[i] <= later
  BY <1>2, <1>3
<1>5. ASSUME NEW c \in Int, c >= later - Window[l]
      PROVE  Cardinality(Tokens(l, k, c)) = Cardinality(Live(r, c))
  <2>1. present - Window[l] <= c /\ c >= present - Window[l] /\ present - Window[l] \in Int
    BY <1>1, <1>5
  <2>2. Cardinality(Live(r, c)) = Cardinality(Live(q, c))
    BY <2>1, EvictedLive
  <2> QED
    BY <2>1, <2>2 DEF DequeFits
<1> QED
  BY <1>3, <1>4, <1>5 DEF DequeFits

\* A refusal keeps the invariant.
LEMMA RefuseTimed ==
  ASSUME OneThread, Bounded, Timed, NEW t \in Threads, NEW l \in Limiters, Refuse(l, t)
  PROVE  Timed'
<1>1. /\ now[t] # None /\ pc[t] = l
      /\ now' = [now EXCEPT ![t] = None]
      /\ UNCHANGED <<clock, admitted>>
  BY DEF Refuse
<1>2. Present' = clock /\ Present \in Nat /\ clock \in Nat /\ Present <= clock
  BY <1>1, PresentAfter
<1>3. Cutoff(l, t) = Present - Window[l]
  BY <1>1, CallerIsPresent
<1>4. /\ \A m \in Limiters : m # l => requests'[m] = requests[m]
      /\ \A k : Evicted(Deque(requests[l], k), Deque(requests'[l], k), Cutoff(l, t))
  BY RefuseTable
<1>5. ASSUME NEW m \in Limiters, NEW k \in Keys(m)
      PROVE  DequeFits(m, k, Deque(requests'[m], k), clock)
  <2>1. Deque(requests[m], k) \in Seq(Nat)
    BY DequeTyped DEF Bounded
  <2>2. DequeFits(m, k, Deque(requests[m], k), Present)
    BY DequesFit
  <2>3. Present - Window[m] \in Int
    BY <1>2, Constants
  <2>4. Evicted(Deque(requests[m], k), Deque(requests'[m], k), Present - Window[m])
    BY <1>3, <1>4, <2>1, <2>3, EvictedNone
  <2> QED
    BY <2>1, <2>2, <2>4, <1>2, EvictedFits
<1>6. Matched' /\ Ordered'
  <2>1. \A m \in Limiters : \A k : \A c : Tokens(m, k, c)' = Tokens(m, k, c)
    BY <1>1 DEF Tokens
  <2>2. Matched'
    BY <1>2, <1>5, <2>1 DEF Matched, DequeFits
  <2>3. Ordered'
    BY <1>2, <1>5 DEF Ordered, DequeFits
  <2> QED
    BY <2>2, <2>3
<1>7. Past'
  <2>1. \A m \in Limiters : \A a \in admitted[m] : a.stamp \in Nat /\ a.stamp <= Present
    BY DEF Timed, Past, Bounded, TypeOK, Request
  <2> QED
    BY <2>1, <1>1, <1>2 DEF Past
<1>8. Numbered' /\ Kept'
  BY <1>1 DEF Timed, Numbered, Kept, Alike, Within
<1> QED
  BY <1>6, <1>7, <1>8 DEF Timed

\* The request about to be let through is not in the history yet.
LEMMA AdmissionIsNew ==
  ASSUME Bounded, Timed, NEW t \in Threads, NEW l \in Limiters, pc[t] = l, now[t] # None
  PROVE  /\ Admission(l, t) \notin admitted[l]
         /\ Admission(l, t).caller = caller[t]
         /\ Admission(l, t).stamp = now[t]
         /\ Admission(l, t).n = Cardinality(Alike(l, caller[t], now[t])) + 1
         /\ Cardinality(Alike(l, caller[t], now[t])) \in Nat
<1>1. Admission(l, t) = [caller |-> caller[t], stamp |-> now[t],
                         n |-> Cardinality(Alike(l, caller[t], now[t])) + 1]
  BY DEF Admission, Alike
<1>2. Cardinality(Alike(l, caller[t], now[t])) \in Nat
  BY AlikeFinite
<1>3. Admission(l, t) \in admitted[l] =>
        Admission(l, t).n <= Cardinality(Alike(l, caller[t], now[t]))
  BY <1>1 DEF Timed, Numbered
<1> QED
  BY <1>1, <1>2, <1>3

\* Appending a stamp no earlier than the others keeps the order.
LEMMA AppendSorted ==
  ASSUME NEW q \in Seq(Nat), Sorted(q), NEW n \in Nat, \A i \in 1 .. Len(q) : q[i] <= n
  PROVE  Sorted(Append(q, n)) /\ \A i \in 1 .. Len(Append(q, n)) : Append(q, n)[i] <= n
<1> DEFINE r == Append(q, n)
<1>1. /\ Len(r) = Len(q) + 1 /\ r[Len(q) + 1] = n /\ Len(q) \in Nat
      /\ \A i \in 1 .. Len(q) : r[i] = q[i]
  OBVIOUS
<1> HIDE DEF r
<1>2. \A i \in 1 .. Len(r) : r[i] <= n
  BY <1>1
<1>3. ASSUME NEW i \in 1 .. Len(r), NEW j \in 1 .. i
      PROVE  r[j] <= r[i]
  <2>1. CASE i = Len(q) + 1
    BY <2>1, <1>1, <1>2
  <2>2. CASE i \in 1 .. Len(q)
    <3>1. j \in 1 .. Len(q)
      BY <2>2, <1>1
    <3> QED
      BY <3>1, <2>2, <1>1 DEF Sorted
  <2> QED
    BY <2>1, <2>2, <1>1
<1> QED
  BY <1>2, <1>3 DEF Sorted, r

\* The request let through is counted once in its deque and once in the
\* history.
LEMMA AdmitMatched ==
  ASSUME OneThread, Bounded, Timed, NEW t \in Threads, NEW l \in Limiters, Admit(l, t),
         NEW c \in Int, c >= clock - Window[l], NEW key, key = Key(l, caller[t])
  PROVE  Cardinality(Tokens(l, key, c)') = Cardinality(Live(Deque(requests'[l], key), c))
<1> DEFINE token == Admission(l, t)
           q     == Deque(requests[l], key)
           r     == Stamps(l, t)
<1>1. /\ now[t] # None /\ pc[t] = l
      /\ now' = [now EXCEPT ![t] = None]
      /\ UNCHANGED clock
      /\ admitted' = [admitted EXCEPT ![l] = @ \cup {token}]
  BY DEF Admit
<1>2. /\ now[t] \in Nat /\ key \in Keys(l) /\ r \in Seq(Nat)
      /\ Evicted(q, r, Cutoff(l, t)) /\ Cutoff(l, t) \in Int
  BY <1>1, StampsTyped
<1>3. Present = now[t] /\ Cutoff(l, t) = Present - Window[l]
  BY <1>1, CallerIsPresent
<1>4. clock \in Nat /\ Present <= clock
  BY <1>1, PresentAfter
<1>5. c >= Present - Window[l] /\ Cutoff(l, t) <= c
  BY <1>2, <1>3, <1>4, Constants
<1>6. Cardinality(Tokens(l, key, c)) = Cardinality(Live(q, c))
  BY <1>2, <1>5 DEF Timed, Matched
<1>7. q \in Seq(Nat)
  BY DequeTyped DEF Bounded
<1>8. Cardinality(Live(r, c)) = Cardinality(Live(q, c))
  BY <1>2, <1>5, <1>7, EvictedLive
<1>9. Deque(requests'[l], key) = Append(r, now[t])
  BY AdmitTable
<1>10. Cardinality(Live(Append(r, now[t]), c)) =
         IF now[t] > c THEN Cardinality(Live(r, c)) + 1 ELSE Cardinality(Live(r, c))
  BY <1>2, AppendLive
<1>11. token \notin admitted[l] /\ token.caller = caller[t] /\ token.stamp = now[t]
  BY <1>1, AdmissionIsNew
<1>12. admitted'[l] = admitted[l] \cup {token}
  BY <1>1 DEF Bounded, TypeOK
<1>13. Key(l, token.caller) = key
  BY <1>11
<1> HIDE DEF token, q, r
<1>14. Tokens(l, key, c)' =
         IF now[t] > c THEN Tokens(l, key, c) \cup {token} ELSE Tokens(l, key, c)
  <2>1. Tokens(l, key, c)' =
          {a \in admitted[l] \cup {token} : Key(l, a.caller) = key /\ a.stamp > c}
    BY <1>12 DEF Tokens
  <2> QED
    BY <2>1, <1>2, <1>11, <1>13 DEF Tokens
<1>15. IsFiniteSet(Tokens(l, key, c)) /\ token \notin Tokens(l, key, c)
  <2>1. token \notin Tokens(l, key, c)
    BY <1>11 DEF Tokens
  <2> QED
    BY <2>1, TokensFinite
<1>16. Cardinality(Tokens(l, key, c) \cup {token}) = Cardinality(Tokens(l, key, c)) + 1
  BY <1>15, FS_AddElement
<1> QED
  BY <1>6, <1>8, <1>9, <1>10, <1>14, <1>16

\* No window exceeds the limit when a request is let through: in a window that
\* holds the new stamp every earlier request is still in the deque, and the
\* deque had room.
LEMMA AdmitKept ==
  ASSUME OneThread, Bounded, Timed, NEW t \in Threads, NEW l \in Limiters, Admit(l, t),
         NEW last \in Int, NEW key, key = Key(l, caller[t])
  PROVE  Cardinality(Within(l, key, last)') <= MaxRequests[l]
<1> DEFINE token == Admission(l, t)
           q     == Deque(requests[l], key)
           r     == Stamps(l, t)
<1>1. /\ now[t] # None /\ pc[t] = l
      /\ admitted' = [admitted EXCEPT ![l] = @ \cup {token}]
  BY DEF Admit
<1>2. /\ now[t] \in Nat /\ key \in Keys(l) /\ r \in Seq(Nat)
      /\ Evicted(q, r, Cutoff(l, t)) /\ Cutoff(l, t) \in Int
  BY <1>1, StampsTyped
<1>3. Present = now[t] /\ Cutoff(l, t) = Present - Window[l]
  BY <1>1, CallerIsPresent
<1>4. token.caller = caller[t] /\ token.stamp = now[t]
  BY <1>1, AdmissionIsNew
<1>5. admitted'[l] = admitted[l] \cup {token}
  BY <1>1 DEF Bounded, TypeOK
<1>6. Key(l, token.caller) = key
  BY <1>4
<1>7. Cardinality(Within(l, key, last)) <= MaxRequests[l]
  BY <1>2 DEF Timed, Kept
<1>8. q \in Seq(Nat)
  BY DequeTyped DEF Bounded
<1>9. Len(r) < MaxRequests[l]
  BY AdmitTable
<1>10. \A a \in admitted[l] : a.stamp \in Nat /\ a.stamp <= Present
  BY DEF Timed, Past, Bounded, TypeOK, Request
<1>11. Window[l] \in Nat
  BY Constants
<1> HIDE DEF token, q, r
<1>12. Within(l, key, last)' =
         {a \in admitted[l] \cup {token} :
            Key(l, a.caller) = key /\ last - Window[l] < a.stamp /\ a.stamp <= last}
  BY <1>5 DEF Within
<1>13. CASE ~(last - Window[l] < now[t] /\ now[t] <= last)
  <2>1. Within(l, key, last)' = Within(l, key, last)
    BY <1>12, <1>13, <1>4 DEF Within
  <2> QED
    BY <2>1, <1>7
<1>14. CASE last - Window[l] < now[t] /\ now[t] <= last
  <2> DEFINE c == last - Window[l]
  <2>1. c \in Int /\ c >= Present - Window[l] /\ Cutoff(l, t) <= c
    BY <1>2, <1>3, <1>11, <1>14
  <2>2. Within(l, key, last) = Tokens(l, key, c)
    <3>1. \A a \in admitted[l] : a.stamp <= last /\ (c < a.stamp <=> a.stamp > c)
      BY <1>2, <1>3, <1>10, <1>11, <1>14
    <3> HIDE DEF c
    <3>2. Within(l, key, last) =
            {a \in admitted[l] : Key(l, a.caller) = key /\ c < a.stamp /\ a.stamp <= last}
      BY DEF Within, c
    <3> QED
      BY <3>1, <3>2 DEF Tokens
  <2>3. Cardinality(Tokens(l, key, c)) = Cardinality(Live(q, c))
    BY <1>2, <2>1 DEF Timed, Matched, q
  <2>4. Cardinality(Live(r, c)) = Cardinality(Live(q, c))
    BY <1>2, <1>8, <2>1, EvictedLive
  <2>5. Cardinality(Live(r, c)) \in Nat /\ Cardinality(Live(r, c)) <= Len(r) /\ Len(r) \in Nat
    BY <1>2, LiveIsFinite
  <2>6. Within(l, key, last)' = Within(l, key, last) \cup {token}
    BY <1>12, <1>14, <1>4, <1>6 DEF Within
  <2>7. Cardinality(Within(l, key, last) \cup {token}) <= Cardinality(Within(l, key, last)) + 1
    <3>1. IsFiniteSet(Within(l, key, last)) /\ Cardinality(Within(l, key, last)) \in Nat
      BY TokensFinite
    <3>2. Cardinality(Within(l, key, last) \cup {token}) =
            IF token \in Within(l, key, last) THEN Cardinality(Within(l, key, last))
            ELSE Cardinality(Within(l, key, last)) + 1
      BY <3>1, FS_AddElement
    <3> QED
      BY <3>1, <3>2
  <2>8. IsFiniteSet(Within(l, key, last) \cup {token})
    BY TokensFinite, FS_AddElement
  <2>9. Cardinality(Within(l, key, last) \cup {token}) \in Nat
    BY <2>8, FS_CardinalityType
  <2> HIDE DEF c
  <2>10. Cardinality(Within(l, key, last) \cup {token}) <= MaxRequests[l]
    BY <2>2, <2>3, <2>4, <2>5, <2>7, <2>9, <1>9, Constants
  <2> QED
    BY <2>6, <2>10
<1> QED
  BY <1>13, <1>14

\* The request let through takes the next number of its caller and stamp.
LEMMA AdmitNumbered ==
  ASSUME OneThread, Bounded, Timed, NEW t \in Threads, NEW l \in Limiters, Admit(l, t)
  PROVE  Numbered'
<1> DEFINE token == Admission(l, t)
           alike == Alike(l, caller[t], now[t])
<1>1. /\ now[t] # None /\ pc[t] = l
      /\ admitted' = [admitted EXCEPT ![l] = @ \cup {token}]
  BY DEF Admit
<1>2. /\ token \notin admitted[l] /\ token.caller = caller[t] /\ token.stamp = now[t]
      /\ token.n = Cardinality(alike) + 1 /\ Cardinality(alike) \in Nat
  BY <1>1, AdmissionIsNew
<1>3. /\ admitted'[l] = admitted[l] \cup {token}
      /\ \A m \in Limiters : m # l => admitted'[m] = admitted[m]
  BY <1>1 DEF Bounded, TypeOK
<1> HIDE DEF token, alike
<1>4. SUFFICES ASSUME NEW m \in Limiters, NEW a \in admitted'[m]
               PROVE  a.n <= Cardinality(Alike(m, a.caller, a.stamp)')
  BY DEF Numbered
<1>5. CASE m # l
  <2>1. Alike(m, a.caller, a.stamp)' = Alike(m, a.caller, a.stamp)
    BY <1>3, <1>5 DEF Alike
  <2> QED
    BY <2>1, <1>3, <1>5 DEF Timed, Numbered
<1>6. \A i, n : Alike(l, i, n)' = IF token.caller = i /\ token.stamp = n
                                THEN Alike(l, i, n) \cup {token} ELSE Alike(l, i, n)
  BY <1>3 DEF Alike
<1>7. CASE m = l /\ a = token
  <2>1. Alike(l, a.caller, a.stamp)' = alike \cup {token}
    BY <1>2, <1>6, <1>7 DEF alike
  <2>2. IsFiniteSet(alike) /\ token \notin alike
    <3>1. IsFiniteSet(alike)
      BY AlikeFinite DEF alike
    <3>2. token \notin alike
      BY <1>2 DEF alike, Alike
    <3> QED
      BY <3>1, <3>2
  <2>3. Cardinality(alike \cup {token}) = Cardinality(alike) + 1
    BY <2>2, FS_AddElement
  <2> QED
    <3>1. Alike(m, a.caller, a.stamp)' = alike \cup {token}
      BY <2>1, <1>7
    <3>2. a.n = Cardinality(alike \cup {token}) /\ a.n \in Nat
      BY <2>3, <1>2, <1>7
    <3> QED
      BY <3>1, <3>2
<1>8. CASE m = l /\ a # token
  <2> DEFINE before == Alike(l, a.caller, a.stamp)
             after  == Alike(l, a.caller, a.stamp)'
  <2>1. a \in admitted[l]
    BY <1>3, <1>8
  <2>2. a.n <= Cardinality(before) /\ a.n \in Nat
    BY <2>1 DEF Timed, Numbered, Bounded, TypeOK, Request
  <2>3. before \subseteq after /\ after \subseteq before \cup {token}
    BY <1>6
  <2>4. IsFiniteSet(before) /\ Cardinality(before) \in Nat
    BY AlikeFinite
  <2> HIDE DEF before, after
  <2>5. IsFiniteSet(before \cup {token})
    BY <2>4, FS_AddElement
  <2>6. IsFiniteSet(after)
    BY <2>3, <2>5, FS_Subset
  <2>7. Cardinality(before) <= Cardinality(after) /\ Cardinality(after) \in Nat
    BY <2>3, <2>6, FS_Subset, FS_CardinalityType
  <2>8. a.n <= Cardinality(after)
    BY <2>2, <2>4, <2>7
  <2> QED
    BY <2>8, <1>8 DEF after
<1> QED
  BY <1>5, <1>7, <1>8

\* Letting a request through keeps the invariant.
LEMMA AdmitTimed ==
  ASSUME OneThread, Bounded, Timed, NEW t \in Threads, NEW l \in Limiters, Admit(l, t)
  PROVE  Timed'
<1>1. /\ now[t] # None /\ pc[t] = l
      /\ now' = [now EXCEPT ![t] = None]
      /\ UNCHANGED clock
      /\ admitted' = [admitted EXCEPT ![l] = @ \cup {Admission(l, t)}]
  BY DEF Admit
<1>2. Present' = clock /\ Present \in Nat /\ clock \in Nat /\ Present <= clock
  BY <1>1, PresentAfter
<1>3. Present = now[t] /\ Cutoff(l, t) = Present - Window[l]
  BY <1>1, CallerIsPresent
<1>4. /\ \A m \in Limiters : m # l => requests'[m] = requests[m]
      /\ \A k : k # Key(l, caller[t]) =>
           Evicted(Deque(requests[l], k), Deque(requests'[l], k), Cutoff(l, t))
      /\ Deque(requests'[l], Key(l, caller[t])) = Append(Stamps(l, t), now[t])
  BY AdmitTable
<1>5. /\ admitted'[l] = admitted[l] \cup {Admission(l, t)}
      /\ \A m \in Limiters : m # l => admitted'[m] = admitted[m]
  BY <1>1 DEF Bounded, TypeOK
<1>6. /\ Admission(l, t).caller = caller[t]
      /\ Admission(l, t).stamp = now[t]
  BY <1>1, AdmissionIsNew
\* Every key but the caller's: stamps expire and nobody is let through.
<1>7. ASSUME NEW m \in Limiters, NEW k \in Keys(m), ~(m = l /\ k = Key(l, caller[t]))
      PROVE  /\ DequeFits(m, k, Deque(requests'[m], k), clock)
             /\ \A c : Tokens(m, k, c)' = Tokens(m, k, c)
             /\ \A last : Within(m, k, last)' = Within(m, k, last)
  <2>1. Deque(requests[m], k) \in Seq(Nat)
    BY DequeTyped DEF Bounded
  <2>2. DequeFits(m, k, Deque(requests[m], k), Present)
    BY DequesFit
  <2>3. Present - Window[m] \in Int
    BY <1>2, Constants
  <2>4. Evicted(Deque(requests[m], k), Deque(requests'[m], k), Present - Window[m])
    BY <1>3, <1>4, <1>7, <2>1, <2>3, EvictedNone
  <2>5. DequeFits(m, k, Deque(requests'[m], k), clock)
    BY <2>1, <2>2, <2>4, <1>2, EvictedFits
  <2>6. m = l => Key(m, Admission(l, t).caller) # k
    BY <1>6, <1>7
  <2>7. {a \in admitted'[m] : Key(m, a.caller) = k} = {a \in admitted[m] : Key(m, a.caller) = k}
    BY <1>5, <2>6
  <2>8. \A c : Tokens(m, k, c)' = Tokens(m, k, c)
    BY <2>7 DEF Tokens
  <2>9. \A last : Within(m, k, last)' = Within(m, k, last)
    BY <2>7 DEF Within
  <2> QED
    BY <2>5, <2>8, <2>9
<1>8. Matched'
  <2> SUFFICES ASSUME NEW m \in Limiters, NEW k \in Keys(m), NEW c \in Int,
                      c >= Present' - Window[m]
               PROVE  Cardinality(Tokens(m, k, c)') = Cardinality(Live(Deque(requests'[m], k), c))
    BY DEF Matched
  <2>1. CASE m = l /\ k = Key(l, caller[t])
    <3>1. c >= clock - Window[l]
      BY <1>2, <2>1
    <3> QED
      BY <2>1, <3>1, AdmitMatched
  <2>2. CASE ~(m = l /\ k = Key(l, caller[t]))
    BY <2>2, <1>2, <1>7 DEF DequeFits
  <2> QED
    BY <2>1, <2>2
<1>9. Ordered'
  <2> SUFFICES ASSUME NEW m \in Limiters, NEW k \in Keys(m)
               PROVE  /\ Sorted(Deque(requests'[m], k))
                      /\ \A i \in 1 .. Len(Deque(requests'[m], k)) :
                           Deque(requests'[m], k)[i] <= clock
    BY <1>2 DEF Ordered
  <2>1. CASE ~(m = l /\ k = Key(l, caller[t]))
    BY <2>1, <1>7 DEF DequeFits
  <2>2. CASE m = l /\ k = Key(l, caller[t])
    <3> DEFINE r == Stamps(l, t)
               q == Deque(requests[l], k)
    <3>1. r \in Seq(Nat) /\ now[t] \in Nat /\ Evicted(q, r, Cutoff(l, t)) /\ Cutoff(l, t) \in Int
      BY <1>1, <2>2, StampsTyped
    <3>2. q \in Seq(Nat)
      BY DequeTyped DEF Bounded
    <3>3. Sorted(q) /\ \A i \in 1 .. Len(q) : q[i] <= now[t]
      BY <1>3, <2>2, DequesFit DEF DequeFits
    <3> DEFINE cut == Cutoff(l, t)
               top == now[t]
    <3>4. top \in Int /\ cut \in Int /\ Evicted(q, r, cut) /\ \A i \in 1 .. Len(q) : q[i] <= top
      BY <3>1, <3>3
    <3> HIDE DEF q, r, cut, top
    <3>5. Sorted(r) /\ \A i \in 1 .. Len(r) : r[i] <= top
      BY <3>4, <3>2, <3>3, EvictedSorted
    <3>6. Sorted(r) /\ \A i \in 1 .. Len(r) : r[i] <= now[t]
      BY <3>5 DEF top
    <3> DEFINE next == Append(r, now[t])
    <3>7. Sorted(next) /\ \A i \in 1 .. Len(next) : next[i] <= now[t]
      BY <3>1, <3>6, AppendSorted
    <3>8. next \in Seq(Nat)
      BY <3>1
    <3>9. Deque(requests'[m], k) = next
      BY <1>4, <2>2 DEF r
    <3> HIDE DEF next
    <3>10. \A i \in 1 .. Len(next) : next[i] <= clock
      BY <3>7, <3>8, <3>1, <1>2, <1>3
    <3> QED
      BY <3>7, <3>9, <3>10
  <2> QED
    BY <2>1, <2>2
<1>10. Past'
  <2>1. \A m \in Limiters : \A a \in admitted[m] : a.stamp \in Nat /\ a.stamp <= Present
    BY DEF Timed, Past, Bounded, TypeOK, Request
  <2>2. \A m \in Limiters : \A a \in admitted'[m] : a.stamp <= clock
    BY <2>1, <1>2, <1>3, <1>5, <1>6
  <2> QED
    BY <2>2, <1>1, <1>2 DEF Past
<1>11. Kept'
  <2> SUFFICES ASSUME NEW m \in Limiters, NEW k \in Keys(m), NEW last \in Int
               PROVE  Cardinality(Within(m, k, last)') <= MaxRequests[m]
    BY DEF Kept
  <2>1. CASE m = l /\ k = Key(l, caller[t])
    BY <2>1, AdmitKept
  <2>2. CASE ~(m = l /\ k = Key(l, caller[t]))
    BY <2>2, <1>7 DEF Timed, Kept
  <2> QED
    BY <2>1, <2>2
<1>12. Numbered'
  BY AdmitNumbered
<1> QED
  BY <1>8, <1>9, <1>10, <1>11, <1>12 DEF Timed

\* Every step of the one thread keeps the invariant.
LEMMA TimedNext ==
  ASSUME OneThread, Bounded, Timed, [Next]_vars
  PROVE  Timed'
<1>1. /\ Present \in Nat /\ TheThread \in Threads /\ clock \in Nat /\ Present <= clock
      /\ Threads = {TheThread}
  BY PresentTyped, OnlyThread DEF Timed, Past
<1>2. CASE Tick
  <2>1. clock' = clock + 1 /\ UNCHANGED <<requests, admitted, now>>
    BY <1>2 DEF Tick
  <2>2. Present' = IF now[TheThread] = None THEN clock + 1 ELSE Present
    BY <2>1 DEF Present
  <2>3. Present' \in Int /\ clock' \in Int /\ Present <= Present' /\ Present' <= clock'
    BY <2>1, <2>2, <1>1
  <2> QED
    BY <2>1, <2>3, TimedFrame
<1>3. ASSUME NEW t \in Threads, CheckRequestRate(t)
      PROVE  Timed'
  <2>1. UNCHANGED <<clock, requests, admitted, now>>
    BY <1>3 DEF CheckRequestRate
  <2>2. Present' = Present
    BY <2>1 DEF Present
  <2> QED
    BY <2>1, <2>2, <1>1, TimedFrame
<1>4. ASSUME NEW t \in Threads, ReadClock(t)
      PROVE  Timed'
  <2>1. /\ UNCHANGED <<clock, requests, admitted>>
        /\ now[t] = None /\ now' = [now EXCEPT ![t] = clock]
    BY <1>4 DEF ReadClock
  <2>2. t = TheThread
    BY <1>1
  <2>3. Present = clock /\ now'[TheThread] = clock
    BY <2>1, <2>2 DEF Present, Bounded, TypeOK
  <2>4. Present' = clock
    BY <2>1, <2>3 DEF Present
  <2> QED
    BY <2>1, <2>3, <2>4, <1>1, TimedFrame
<1>5. ASSUME NEW t \in Threads, NEW l \in Limiters, Admit(l, t) \/ Refuse(l, t)
      PROVE  Timed'
  BY <1>5, AdmitTimed, RefuseTimed
<1>6. CASE UNCHANGED vars
  <2>1. UNCHANGED <<clock, requests, admitted, now>>
    BY <1>6 DEF vars
  <2>2. Present' = Present
    BY <2>1 DEF Present
  <2> QED
    BY <2>1, <2>2, <1>1, TimedFrame
<1> QED
  BY <1>2, <1>3, <1>4, <1>5, <1>6 DEF Next

\* The limit in every window, in the terms of the run's property.
LEMMA TimedImpliesWindow ==
  ASSUME Bounded, Timed
  PROVE  WindowHolds
<1>1. SUFFICES ASSUME NEW last \in Times
               PROVE  /\ \A i \in Identities : InWindow("identity", {i}, last) <= IdentityMax
                      /\ InWindow("global", Identities, last) <= GlobalMax
  BY DEF WindowHolds
<1>2. last \in Int
  BY RateLimiterAssumption DEF Times
<1>3. ASSUME NEW i \in Identities
      PROVE  InWindow("identity", {i}, last) <= IdentityMax
  <2>1. "identity" \in Limiters /\ i \in Keys("identity") /\ MaxRequests["identity"] = IdentityMax
    BY DEF Limiters, Keys, MaxRequests
  <2>2. {a \in admitted["identity"] : a.caller \in {i} /\ last - Window["identity"] < a.stamp
                                       /\ a.stamp <= last} = Within("identity", i, last)
    BY DEF Within, Key
  <2>3. Cardinality(Within("identity", i, last)) <= IdentityMax
    BY <1>2, <2>1 DEF Timed, Kept
  <2> QED
    BY <2>2, <2>3 DEF InWindow
<1>4. InWindow("global", Identities, last) <= GlobalMax
  <2>1. "global" \in Limiters /\ "global" \in Keys("global") /\ MaxRequests["global"] = GlobalMax
    BY DEF Limiters, Keys, MaxRequests
  <2>2. \A a \in admitted["global"] : a.caller \in Identities
    BY <2>1 DEF Bounded, TypeOK, Request
  <2>3. {a \in admitted["global"] : a.caller \in Identities /\ last - Window["global"] < a.stamp
                                     /\ a.stamp <= last} = Within("global", "global", last)
    BY <2>2 DEF Within, Key
  <2>4. Cardinality(Within("global", "global", last)) <= GlobalMax
    BY <1>2, <2>1 DEF Timed, Kept
  <2> QED
    BY <2>3, <2>4 DEF InWindow
<1> QED
  BY <1>3, <1>4

\* With the calls made by one thread, in no window, wherever it is placed, are
\* more requests let through than the limiter allows, for any limits, windows,
\* capacity and identities. The deque cannot have forgotten a request of the
\* window, evictions and sweeps included.
THEOREM NoWindowIsExceeded ==
  ASSUME OneThread
  PROVE  Spec => []WindowHolds
<1>1. Init => Bounded /\ Timed
  BY BoundedInit, TimedInit
<1>2. Bounded /\ Timed /\ [Next]_vars => (Bounded /\ Timed)'
  BY BoundedNext, TimedNext
<1>3. Bounded /\ Timed => WindowHolds
  BY TimedImpliesWindow
<1> QED
  BY <1>1, <1>2, <1>3, PTL DEF Spec

---------------------------------------------------------------------------

\* The requests of a caller in the window before its call are the live stamps
\* of its deque.
LEMMA WindowIsDeque ==
  ASSUME OneThread, Bounded, Timed, NEW t \in Threads, now[t] # None, NEW i \in Identities
  PROVE  InWindow("identity", {i}, now[t]) =
           Cardinality(Live(Deque(requests["identity"], i), Cutoff("identity", t)))
<1>1. "identity" \in Limiters /\ i \in Keys("identity") /\ Window["identity"] \in Nat
  BY Constants DEF Limiters, Keys
<1>2. Present = now[t] /\ Cutoff("identity", t) = Present - Window["identity"] /\ Present \in Nat
  BY <1>1, CallerIsPresent, PresentTyped
<1>3. \A a \in admitted["identity"] : a.stamp \in Nat /\ a.stamp <= Present
  BY <1>1 DEF Timed, Past, Bounded, TypeOK, Request
<1> DEFINE cut == Cutoff("identity", t)
<1>4. {a \in admitted["identity"] :
         a.caller \in {i} /\ now[t] - Window["identity"] < a.stamp /\ a.stamp <= now[t]}
       = Tokens("identity", i, cut)
  <2>1. \A a \in admitted["identity"] :
          (now[t] - Window["identity"] < a.stamp /\ a.stamp <= now[t]) <=> a.stamp > cut
    BY <1>1, <1>2, <1>3
  <2> HIDE DEF cut
  <2> QED
    BY <2>1 DEF Tokens, Key
<1>5. cut \in Int /\ cut >= Present - Window["identity"]
  BY <1>1, <1>2
<1>6. Cardinality(Tokens("identity", i, cut))
        = Cardinality(Live(Deque(requests["identity"], i), cut))
  BY <1>1, <1>5 DEF Timed, Matched
<1> QED
  BY <1>4, <1>6 DEF InWindow

\* A sorted deque with a live head is live throughout.
LEMMA FreshIsLive ==
  ASSUME NEW q \in Seq(Nat), NEW cut \in Int, Sorted(q), q # <<>> => q[1] > cut
  PROVE  Cardinality(Live(q, cut)) = Len(q)
<1>1. ASSUME NEW i \in 1 .. Len(q)
      PROVE  q[i] > cut
  <2>1. 1 \in 1 .. i /\ q # <<>> /\ 1 \in 1 .. Len(q)
    OBVIOUS
  <2>2. q[1] <= q[i] /\ q[1] > cut /\ q[1] \in Nat /\ q[i] \in Nat
    BY <2>1 DEF Sorted
  <2> QED
    BY <2>2
<1>2. Live(q, cut) = 1 .. Len(q)
  BY <1>1 DEF Live
<1>3. Len(q) \in Nat
  OBVIOUS
<1>4. Cardinality(1 .. Len(q)) = IF 1 > Len(q) THEN 0 ELSE Len(q) - 1 + 1
  BY <1>3, FS_Interval
<1> QED
  BY <1>2, <1>3, <1>4

\* A caller refused because its deque is full has used its limit in the window
\* before the call.
LEMMA RefusedForTheDeque ==
  ASSUME OneThread, Bounded, Timed, NEW t \in Threads, pc[t] = "identity", now[t] # None,
         Len(Stamps("identity", t)) >= MaxRequests["identity"]
  PROVE  InWindow("identity", {caller[t]}, now[t]) = IdentityMax
<1> DEFINE l   == "identity"
           i   == caller[t]
           cut == Cutoff(l, t)
           q   == Deque(requests[l], i)
           d   == Deque(Table(l, t), i)
           r   == Stamps(l, t)
<1>1. l \in Limiters /\ Key(l, i) = i /\ MaxRequests[l] = IdentityMax
  BY DEF Limiters, Key, MaxRequests
<1>2. /\ now[t] \in Nat /\ i \in Identities /\ i \in Keys(l) /\ cut \in Int
      /\ r \in Seq(Nat) /\ Evicted(q, r, cut) /\ Len(r) <= IdentityMax
  BY <1>1, StampsTyped
<1>3. q \in Seq(Nat)
  BY <1>1, DequeTyped DEF Bounded
<1>4. /\ Present = now[t] /\ cut = Present - Window[l] /\ Present \in Nat
  BY <1>1, CallerIsPresent, PresentTyped
<1>5. Sorted(q) /\ \A j \in 1 .. Len(q) : q[j] <= Present
  BY <1>1, <1>2, DequesFit DEF DequeFits
<1>6. r = Fresh(d, cut)
  BY <1>1 DEF Stamps
<1>7. d \in Seq(Nat)
  BY <1>1, <1>2, PrunedTyped DEF Bounded, Table
<1>8. InWindow("identity", {i}, now[t]) = Cardinality(Live(q, cut))
  BY <1>2, WindowIsDeque
<1>9. IdentityMax \in Nat /\ Len(r) >= IdentityMax
  BY <1>1, Constants
<1> HIDE DEF l, i, cut, q, d, r
<1>10. r # <<>> => r[1] > cut
  BY <1>2, <1>6, <1>7, FreshEvicts
<1>11. Sorted(r)
  <2>1. Present \in Int
    BY <1>4
  <2> QED
    BY <2>1, <1>2, <1>3, <1>5, EvictedSorted
<1>12. Cardinality(Live(r, cut)) = Len(r)
  BY <1>2, <1>10, <1>11, FreshIsLive
<1>13. Cardinality(Live(r, cut)) = Cardinality(Live(q, cut))
  <2>1. cut <= cut
    BY <1>2
  <2> QED
    BY <2>1, <1>2, <1>3, EvictedLive
<1>14. Len(r) = IdentityMax
  BY <1>2, <1>9
<1> QED
  BY <1>8, <1>12, <1>13, <1>14 DEF i

\* A caller refused because the map is full is not tracked, and either the map
\* was swept less than an interval ago or the sweep of this very call found a
\* live request under every key.
LEMMA RefusedForTheMap ==
  ASSUME OneThread, Bounded, Timed, NEW t \in Threads, pc[t] = "identity", now[t] # None,
         Full(Table("identity", t), Key("identity", caller[t]))
  PROVE  /\ caller[t] \notin DOMAIN requests["identity"]
         /\ \/ clock - lastPrune["identity"] < PruneInterval
            \/ /\ Cardinality(DOMAIN requests["identity"]) = MaxTrackedKeys
               /\ \A k \in DOMAIN requests["identity"] :
                    InWindow("identity", {k}, now[t]) > 0
<1> DEFINE l   == "identity"
           cut == Cutoff(l, t)
           all == DOMAIN requests[l]
           old == DOMAIN Table(l, t)
<1>1. l \in Limiters /\ Key(l, caller[t]) = caller[t]
  BY DEF Limiters, Key
<1>2. cut \in Int
  BY <1>1, StampsTyped
<1>3. caller[t] \notin old /\ Cardinality(old) >= MaxTrackedKeys
  BY <1>1 DEF Full
<1>4. /\ all \subseteq Identities /\ IsFiniteSet(all) /\ Cardinality(all) \in Nat
      /\ Cardinality(all) <= MaxTrackedKeys
  <2>1. TableFits(l, requests[l])
    BY <1>1, TableOfBounded
  <2> QED
    BY <2>1, FS_CardinalityType DEF TableFits, Keys
<1>5. old \subseteq all
  BY <1>1, <1>2, PrunedTyped DEF Table, Bounded
<1>6. IsFiniteSet(old) /\ Cardinality(old) \in Nat /\ Cardinality(old) <= Cardinality(all)
  <2> HIDE DEF old, all
  <2> QED
    BY <1>4, <1>5, FS_Subset, FS_CardinalityType
<1>7. Cardinality(all) = MaxTrackedKeys /\ Cardinality(all) = Cardinality(old)
  <2> HIDE DEF old, all
  <2> QED
    BY <1>3, <1>4, <1>6, Constants
<1>8. all = old
  <2> HIDE DEF old, all
  <2> QED
    BY <1>4, <1>5, <1>7, FS_Subset
<1>9. CASE ~PruneDue(l)
  <2>1. ~(clock - lastPrune[l] >= PruneInterval)
    BY <1>7, <1>9, Constants DEF PruneDue
  <2>2. clock \in Nat /\ lastPrune[l] \in Nat
    BY <1>1 DEF Bounded, TypeOK
  <2> QED
    BY <1>3, <1>8, <2>1, <2>2, Constants
<1>10. CASE PruneDue(l)
  <2>1. old = {k \in all : Fresh(requests[l][k], cut) # <<>>}
    BY <1>10 DEF Table, Pruned
  <2>2. ASSUME NEW k \in all
        PROVE  InWindow(l, {k}, now[t]) > 0
    <3> DEFINE q == requests[l][k]
               r == Fresh(q, cut)
    <3>1. q \in Seq(Nat) /\ k \in Identities
      BY <1>1, <1>4 DEF Bounded, TypeOK
    <3>2. Deque(requests[l], k) = q
      BY DEF Deque
    <3>3. InWindow(l, {k}, now[t]) = Cardinality(Live(q, cut))
      BY <3>1, <3>2, WindowIsDeque
    <3>4. r # <<>>
      BY <2>1, <1>8
    <3> HIDE DEF q
    <3>5. r \in Seq(Nat) /\ Evicted(q, r, cut) /\ r[1] > cut
      BY <3>1, <3>4, <1>2, FreshEvicts
    <3> HIDE DEF r, cut
    <3>6. 1 \in Live(r, cut)
      BY <3>4, <3>5 DEF Live
    <3>7. IsFiniteSet(Live(r, cut)) /\ Cardinality(Live(r, cut)) \in Nat
      BY <3>5, LiveIsFinite
    <3>8. Cardinality(Live(r, cut)) # 0
      BY <3>6, <3>7, FS_EmptySet
    <3>9. Cardinality(Live(r, cut)) = Cardinality(Live(q, cut))
      <4>1. cut <= cut
        BY <1>2
      <4> QED
        BY <4>1, <1>2, <3>1, <3>5, EvictedLive
    <3> QED
      BY <3>3, <3>7, <3>8, <3>9
  <2> QED
    BY <2>2, <1>3, <1>7, <1>8
<1> QED
  BY <1>9, <1>10

\* With the calls made by one thread, no caller is refused without one of
\* those reasons.
THEOREM RefusalsAreJustified ==
  ASSUME OneThread
  PROVE  Spec => RefusalJustified
<1>1. Init => Bounded /\ Timed
  BY BoundedInit, TimedInit
<1>2. Bounded /\ Timed /\ [Next]_vars => (Bounded /\ Timed)'
  BY BoundedNext, TimedNext
<1> DEFINE Justified(t) ==
             \/ InWindow("identity", {caller[t]}, now[t]) = IdentityMax
             \/ /\ caller[t] \notin DOMAIN requests["identity"]
                /\ \/ clock - lastPrune["identity"] < PruneInterval
                   \/ /\ Cardinality(DOMAIN requests["identity"]) = MaxTrackedKeys
                      /\ \A k \in DOMAIN requests["identity"] :
                           InWindow("identity", {k}, now[t]) > 0
<1>3. ASSUME Bounded, Timed, Next, NEW t \in Threads, pc[t] = "identity", pc'[t] = "idle"
      PROVE  Justified(t)
  <2>1. \A u \in Threads : u = t
    BY OnlyThread
  <2>2. PICK l \in Limiters : Refuse(l, t)
    <3>1. ~Tick
      BY <1>3 DEF Tick
    <3>2. ~CheckRequestRate(t) /\ ~ReadClock(t)
      BY <1>3 DEF CheckRequestRate, ReadClock
    <3>3. \A l \in Limiters : ~Admit(l, t)
      BY <1>3 DEF Admit, NextLimiter, Bounded, TypeOK
    <3> QED
      BY <1>3, <2>1, <3>1, <3>2, <3>3 DEF Next
  <2>3. l = "identity" /\ now[t] # None
    BY <2>2, <1>3 DEF Refuse
  <2>4. Full(Table("identity", t), Key("identity", caller[t]))
        \/ Len(Stamps("identity", t)) >= MaxRequests["identity"]
    BY <2>2, <2>3 DEF Refuse, Refused
  <2> HIDE DEF Justified
  <2>5. CASE Full(Table("identity", t), Key("identity", caller[t]))
    BY <1>3, <2>3, <2>5, RefusedForTheMap DEF Justified
  <2>6. CASE Len(Stamps("identity", t)) >= MaxRequests["identity"]
    BY <1>3, <2>3, <2>6, RefusedForTheDeque DEF Justified
  <2> QED
    BY <2>4, <2>5, <2>6
<1> DEFINE Refusals == \A t \in Threads : (pc[t] = "identity" /\ pc'[t] = "idle") => Justified(t)
<1>4. Bounded /\ Timed /\ [Next]_vars => [Refusals]_vars
  <2> HIDE DEF Justified
  <2> QED
    BY <1>3
<1>5. Spec => [][Refusals]_vars
  <2> HIDE DEF Refusals
  <2> QED
    BY <1>1, <1>2, <1>4, PTL DEF Spec
<1> QED
  BY <1>5 DEF RefusalJustified
=============================================================================
