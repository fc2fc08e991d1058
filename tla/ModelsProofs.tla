---------------------------- MODULE ModelsProofs ----------------------------
(***************************************************************************)
(* Proofs about Models, for any models, providers' keys, versions of       *)
(* models.yaml, calls and limits. The first part is about FlattenSeq,      *)
(* whose recursion is met by least counterexample: of the numbers at which *)
(* a claim fails there would be a least one, which LeastNumber takes from  *)
(* the well-foundedness of the numbers. The rest: what a resolution        *)
(* consists of, that its cache key determines it, that it leaves out       *)
(* nothing it owes; then the inductive invariant, one action at a time.    *)
(***************************************************************************)
EXTENDS Models, FiniteSetTheorems, WellFoundedInduction, TLAPS

\* Every set of natural numbers with an element has a least one.
LEMMA LeastNumber ==
  ASSUME NEW T \in SUBSET Nat, T # {}
  PROVE  \E n \in T : \A m \in T : n <= m
<1> DEFINE R == {ss \in Nat \X Nat : ss[1] < ss[2]}
<1>1. R = OpToRel(<, Nat)
  BY DEF OpToRel
<1>2. IsWellFoundedOn(R, Nat)
  BY <1>1, NatLessThanWellFounded
<1> HIDE DEF R
<1>3. PICK n \in T : \A m \in T : <<m, n>> \notin R
  BY <1>2, WFMin
<1>4. ASSUME NEW m \in T PROVE n <= m
  <2>1. ~(m < n)
    BY <1>3 DEF R
  <2> QED
    BY <2>1
<1> QED
  BY <1>4

\* f holds the concatenations of the first 1, 2, ... n sequences of ss.
Joined(f, ss, n) ==
  /\ f = [i \in 1 .. n |-> f[i]]
  /\ \A i \in 1 .. n : f[i] = IF i = 1 THEN ss[i] ELSE f[i - 1] \o ss[i]

LEMMA JoinsExist ==
  ASSUME NEW ss, Len(ss) \in Nat
  PROVE  \A n \in 0 .. Len(ss) : \E f : Joined(f, ss, n)
<1> DEFINE T == {n \in 0 .. Len(ss) : ~ \E f : Joined(f, ss, n)}
<1>1. SUFFICES ASSUME T # {} PROVE FALSE
  OBVIOUS
<1>2. PICK n \in T : \A m \in T : n <= m
  <2>1. T \in SUBSET Nat
    OBVIOUS
  <2> HIDE DEF T
  <2> QED
    BY <1>1, <2>1, LeastNumber
<1>3. n \in 0 .. Len(ss) /\ ~ \E f : Joined(f, ss, n)
  BY <1>2
<1>4. CASE n = 0
  <2> DEFINE f == [i \in 1 .. 0 |-> i]
  <2>1. Joined(f, ss, 0)
    BY DEF Joined
  <2> QED
    BY <1>3, <1>4, <2>1
<1>5. CASE n # 0
  <2>1. n - 1 \in 0 .. Len(ss) /\ ~(n <= n - 1)
    BY <1>3, <1>5
  <2>2. n - 1 \notin T
    <3> HIDE DEF T
    <3> QED
      BY <1>2, <2>1
  <2>3. PICK f : Joined(f, ss, n - 1)
    BY <2>1, <2>2
  <2> DEFINE g == [i \in 1 .. n |-> IF i < n THEN f[i]
                                    ELSE IF n = 1 THEN ss[n] ELSE f[n - 1] \o ss[n]]
  <2>4. ASSUME NEW i \in 1 .. n
        PROVE  g[i] = IF i = 1 THEN ss[i] ELSE g[i - 1] \o ss[i]
    <3>1. CASE i < n
      <4>1. i \in 1 .. (n - 1) /\ i \in 1 .. n /\ g[i] = f[i]
        BY <1>3, <3>1
      <4>2. f[i] = IF i = 1 THEN ss[i] ELSE f[i - 1] \o ss[i]
        BY <2>3, <4>1 DEF Joined
      <4>3. i # 1 => g[i - 1] = f[i - 1]
        BY <1>3, <3>1
      <4> HIDE DEF g
      <4> QED
        BY <4>1, <4>2, <4>3
    <3>2. CASE i = n
      <4>1. g[i] = IF n = 1 THEN ss[n] ELSE f[n - 1] \o ss[n]
        BY <1>3, <3>2
      <4>2. n # 1 => g[n - 1] = f[n - 1]
        BY <1>3, <1>5
      <4> HIDE DEF g
      <4> QED
        BY <3>2, <4>1, <4>2
    <3> QED
      BY <1>3, <3>1, <3>2
  <2>5. Joined(g, ss, n)
    <3>1. g = [i \in 1 .. n |-> g[i]]
      OBVIOUS
    <3> HIDE DEF g
    <3> QED
      BY <2>4, <3>1 DEF Joined
  <2> HIDE DEF g
  <2> QED
    BY <1>3, <2>5
<1> QED
  BY <1>4, <1>5

\* FlattenSeq is the last of the concatenations.
LEMMA FlattenIsLast ==
  ASSUME NEW ss, Len(ss) \in Nat \ {0}
  PROVE  \E f : Joined(f, ss, Len(ss)) /\ FlattenSeq(ss) = f[Len(ss)]
<1> DEFINE Equation(g) == g = [i \in 1 .. Len(ss) |->
                                 IF i = 1 THEN ss[i] ELSE g[i - 1] \o ss[i]]
           flatten == CHOOSE g : Equation(g)
<1>1. \E g : Equation(g)
  <2>1. PICK g : Joined(g, ss, Len(ss))
    BY JoinsExist
  <2>2. g = [i \in 1 .. Len(ss) |-> IF i = 1 THEN ss[i] ELSE g[i - 1] \o ss[i]]
    BY <2>1 DEF Joined
  <2> QED
    BY <2>2
<1>2. FlattenSeq(ss) = flatten[Len(ss)]
  BY DEF FlattenSeq
<1> HIDE DEF Equation
<1>3. Equation(flatten)
  BY <1>1
<1> HIDE DEF flatten
<1>4. Joined(flatten, ss, Len(ss))
  BY <1>3 DEF Joined, Equation
<1> QED
  BY <1>2, <1>4

\* What a concatenation of the first n sequences consists of.
Holds(f, ss, S, n) ==
  /\ f[n] \in Seq(S)
  /\ \A k \in DOMAIN f[n] : \E i \in 1 .. n : f[n][k] \in Range(ss[i])
  /\ \A i \in 1 .. n : Range(ss[i]) \subseteq Range(f[n])

LEMMA RangeHas ==
  ASSUME NEW f, NEW k \in DOMAIN f
  PROVE  f[k] \in Range(f)
BY DEF Range

LEMMA RangeOfJoin ==
  ASSUME NEW S, NEW p \in Seq(S), NEW q \in Seq(S)
  PROVE  /\ p \o q \in Seq(S)
         /\ \A k \in DOMAIN (p \o q) : (p \o q)[k] \in Range(p) \cup Range(q)
         /\ Range(p) \cup Range(q) \subseteq Range(p \o q)
<1> DEFINE r == p \o q
<1>1. /\ r \in Seq(S) /\ DOMAIN r = 1 .. (Len(p) + Len(q))
      /\ DOMAIN p = 1 .. Len(p) /\ DOMAIN q = 1 .. Len(q)
      /\ Len(p) \in Nat /\ Len(q) \in Nat
      /\ \A k \in 1 .. (Len(p) + Len(q)) : r[k] = IF k <= Len(p) THEN p[k] ELSE q[k - Len(p)]
  OBVIOUS
<1> HIDE DEF r
<1>2. ASSUME NEW k \in DOMAIN r PROVE r[k] \in Range(p) \cup Range(q)
  <2>1. CASE k <= Len(p)
    <3>1. k \in DOMAIN p /\ r[k] = p[k]
      BY <1>1, <2>1
    <3> QED
      BY <3>1, RangeHas
  <2>2. CASE ~(k <= Len(p))
    <3>1. k - Len(p) \in DOMAIN q /\ r[k] = q[k - Len(p)]
      BY <1>1, <2>2
    <3> QED
      BY <3>1, RangeHas
  <2> QED
    BY <2>1, <2>2
<1>3. ASSUME NEW k \in DOMAIN p PROVE p[k] \in Range(r)
  <2>1. k \in DOMAIN r /\ r[k] = p[k]
    BY <1>1
  <2> QED
    BY <2>1, RangeHas
<1>4. ASSUME NEW k \in DOMAIN q PROVE q[k] \in Range(r)
  <2>1. k + Len(p) \in DOMAIN r /\ r[k + Len(p)] = q[k]
    BY <1>1
  <2> QED
    BY <2>1, RangeHas
<1>5. Range(p) \cup Range(q) \subseteq Range(r)
  BY <1>3, <1>4 DEF Range
<1> QED
  BY <1>1, <1>2, <1>5 DEF r

LEMMA JoinedHolds ==
  ASSUME NEW S, NEW ss \in Seq(Seq(S)), NEW f, Joined(f, ss, Len(ss))
  PROVE  \A n \in 1 .. Len(ss) : Holds(f, ss, S, n)
<1> DEFINE T == {n \in 1 .. Len(ss) : ~ Holds(f, ss, S, n)}
<1>1. SUFFICES ASSUME T # {} PROVE FALSE
  OBVIOUS
<1>2. PICK n \in T : \A m \in T : n <= m
  <2>1. T \in SUBSET Nat
    OBVIOUS
  <2> HIDE DEF T
  <2> QED
    BY <1>1, <2>1, LeastNumber
<1>3. n \in 1 .. Len(ss) /\ ~ Holds(f, ss, S, n) /\ Len(ss) \in Nat
  BY <1>2
<1> HIDE DEF T
<1>4. ss[n] \in Seq(S) /\ f[n] = IF n = 1 THEN ss[n] ELSE f[n - 1] \o ss[n]
  <2>1. ss[n] \in Seq(S)
    BY <1>3
  <2> QED
    BY <1>3, <2>1 DEF Joined
<1>5. CASE n = 1
  <2>1. f[n] = ss[n] /\ f[n] \in Seq(S)
    BY <1>4, <1>5
  <2>2. \A k \in DOMAIN f[n] : f[n][k] \in Range(ss[n])
    BY <2>1, RangeHas
  <2>3. \A i \in 1 .. n : i = n
    BY <1>5
  <2>4. Holds(f, ss, S, n)
    BY <1>3, <2>1, <2>2, <2>3, <1>5 DEF Holds
  <2> QED
    BY <1>3, <2>4
<1>6. CASE n # 1
  <2>1. n - 1 \in 1 .. Len(ss) /\ ~(n <= n - 1)
    BY <1>3, <1>6
  <2>2. n - 1 \notin T
    BY <1>2, <2>1
  <2>3. Holds(f, ss, S, n - 1)
    BY <2>1, <2>2 DEF T
  <2> DEFINE p == f[n - 1]
             q == ss[n]
  <2>4. p \in Seq(S) /\ q \in Seq(S) /\ f[n] = p \o q
    BY <1>4, <1>6, <2>3 DEF Holds
  <2>5. /\ f[n] \in Seq(S)
        /\ \A k \in DOMAIN f[n] : f[n][k] \in Range(p) \cup Range(q)
        /\ Range(p) \cup Range(q) \subseteq Range(f[n])
    <3> HIDE DEF p, q
    <3> QED
      BY <2>4, RangeOfJoin
  <2>6. \A x \in Range(p) : \E i \in 1 .. (n - 1) : x \in Range(ss[i])
    <3>1. \A k \in DOMAIN p : \E i \in 1 .. (n - 1) : p[k] \in Range(ss[i])
      BY <2>3 DEF Holds
    <3>2. \A x \in Range(p) : \E k \in DOMAIN p : x = p[k]
      BY DEF Range
    <3> HIDE DEF p
    <3> QED
      BY <3>1, <3>2
  <2>7. \A i \in 1 .. (n - 1) : Range(ss[i]) \subseteq Range(p)
    BY <2>3 DEF Holds
  <2>8. n \in 1 .. n /\ \A i : i \in 1 .. n <=> i \in 1 .. (n - 1) \/ i = n
    BY <1>3, <1>6
  <2> HIDE DEF p
  <2>9. \A k \in DOMAIN f[n] : \E i \in 1 .. n : f[n][k] \in Range(ss[i])
    BY <2>5, <2>6, <2>8
  <2>10. \A i \in 1 .. n : Range(ss[i]) \subseteq Range(f[n])
    BY <2>5, <2>7, <2>8
  <2>11. Holds(f, ss, S, n)
    BY <2>5, <2>9, <2>10 DEF Holds
  <2> QED
    BY <1>3, <2>11
<1> QED
  BY <1>5, <1>6

\* The elements of a flattened sequence are those of its members.
LEMMA FlattenHolds ==
  ASSUME NEW S, NEW ss \in Seq(Seq(S))
  PROVE  /\ FlattenSeq(ss) \in Seq(S)
         /\ \A x : x \in Range(FlattenSeq(ss)) <=> \E i \in 1 .. Len(ss) : x \in Range(ss[i])
<1>1. CASE Len(ss) = 0
  <2>1. FlattenSeq(ss) = <<>> /\ ss = <<>>
    BY <1>1 DEF FlattenSeq
  <2> QED
    BY <2>1, <1>1 DEF Range
<1>2. CASE Len(ss) # 0
  <2>1. PICK f : Joined(f, ss, Len(ss)) /\ FlattenSeq(ss) = f[Len(ss)]
    BY <1>2, FlattenIsLast
  <2>2. Len(ss) \in 1 .. Len(ss)
    BY <1>2
  <2> DEFINE flat == FlattenSeq(ss)
  <2>3. /\ flat \in Seq(S)
        /\ \A k \in DOMAIN flat : \E i \in 1 .. Len(ss) : flat[k] \in Range(ss[i])
        /\ \A i \in 1 .. Len(ss) : Range(ss[i]) \subseteq Range(flat)
    BY <2>1, <2>2, JoinedHolds DEF Holds
  <2> HIDE DEF flat
  <2>4. \A x : x \in Range(flat) <=> \E i \in 1 .. Len(ss) : x \in Range(ss[i])
    BY <2>3 DEF Range
  <2> QED
    BY <2>3, <2>4 DEF flat
<1> QED
  BY <1>1, <1>2

\* FlattenSeq of one sequence is that sequence.
LEMMA FlattenOne ==
  ASSUME NEW ss, Len(ss) = 1
  PROVE  FlattenSeq(ss) = ss[1]
<1>1. PICK f : Joined(f, ss, Len(ss)) /\ FlattenSeq(ss) = f[Len(ss)]
  <2>1. Len(ss) \in Nat \ {0}
    OBVIOUS
  <2> QED
    BY <2>1, FlattenIsLast
<1>2. f[1] = ss[1]
  BY <1>1 DEF Joined
<1> QED
  BY <1>1, <1>2

---------------------------------------------------------------------------


\* What the key variables may be set to.
KeyMap == [Keys -> Values \cup {None}]

Google == <<"google", 1>>

\* The scan of _google_api_keys ends: there is a number after which one is
\* missing.
LEMMA LastExists ==
  ASSUME NEW ks
  PROVE  \E n \in 1 .. MaxGoogleKeys :
           /\ ~IsSet(ks, <<"google", n + 1>>)
           /\ \A m \in 2 .. n : IsSet(ks, <<"google", m>>)
<1> DEFINE T == {n \in 1 .. MaxGoogleKeys : ~IsSet(ks, <<"google", n + 1>>)}
<1>1. MaxGoogleKeys \in Nat \ {0} /\ Keys \subseteq KeyNames
  BY ModelsAssumption
<1>2. <<"google", MaxGoogleKeys + 1>> \notin KeyNames
  BY <1>1 DEF KeyNames, Providers, Listed
<1>3. MaxGoogleKeys \in T
  BY <1>1, <1>2 DEF IsSet
<1>4. PICK n \in T : \A m \in T : n <= m
  <2>1. T \in SUBSET Nat
    OBVIOUS
  <2> HIDE DEF T
  <2> QED
    BY <1>3, <2>1, LeastNumber
<1>5. n \in 1 .. MaxGoogleKeys /\ ~IsSet(ks, <<"google", n + 1>>)
  BY <1>4
<1>6. ASSUME NEW m \in 2 .. n PROVE IsSet(ks, <<"google", m>>)
  <2>1. m - 1 \in 1 .. MaxGoogleKeys /\ ~(n <= m - 1) /\ (m - 1) + 1 = m
    BY <1>1, <1>5
  <2>2. m - 1 \notin T
    <3> HIDE DEF T
    <3> QED
      BY <1>4, <2>1
  <2> QED
    BY <2>1, <2>2
<1> QED
  BY <1>5, <1>6

\* The google keys are values, that of the first variable among them if it is
\* set.
LEMMA GoogleKeysOf ==
  ASSUME NEW ks \in KeyMap
  PROVE  /\ GoogleKeys(ks) \in Seq(Values)
         /\ IsSet(ks, Google) => ks[Google] \in ToSet(GoogleKeys(ks))
<1> DEFINE Ends(n) == /\ ~IsSet(ks, <<"google", n + 1>>)
                      /\ \A m \in 2 .. n : IsSet(ks, <<"google", m>>)
           first == IF IsSet(ks, <<"google", 1>>) THEN 1 ELSE 2
           last  == CHOOSE n \in 1 .. MaxGoogleKeys : Ends(n)
           gs    == [i \in 1 .. last + 1 - first |-> ks[<<"google", first - 1 + i>>]]
<1>1. GoogleKeys(ks) = gs
  BY DEF GoogleKeys
<1>2. last \in 1 .. MaxGoogleKeys /\ Ends(last)
  <2>1. \E n \in 1 .. MaxGoogleKeys : Ends(n)
    BY LastExists
  <2> HIDE DEF Ends
  <2> QED
    BY <2>1
<1>3. MaxGoogleKeys \in Nat
  BY ModelsAssumption
<1>4. /\ last \in Nat /\ last >= 1 /\ first \in {1, 2}
      /\ first = 1 <=> IsSet(ks, <<"google", 1>>)
  BY <1>2, <1>3
<1> HIDE DEF last
<1>5. \A i \in 1 .. last + 1 - first : ks[<<"google", first - 1 + i>>] \in Values
  <2>1. TAKE i \in 1 .. last + 1 - first
  <2>2. first - 1 + i \in 2 .. last \/ (first - 1 + i = 1 /\ first = 1)
    BY <1>4
  <2>3. IsSet(ks, <<"google", first - 1 + i>>)
    BY <1>2, <1>4, <2>2
  <2> QED
    BY <2>3 DEF IsSet, KeyMap
<1>6. gs \in Seq(Values)
  BY <1>4, <1>5
<1>7. IsSet(ks, Google) => ks[Google] \in ToSet(gs)
  <2>1. SUFFICES ASSUME first = 1 PROVE ks[Google] \in ToSet(gs)
    BY <1>4 DEF Google
  <2>2. 1 \in DOMAIN gs /\ gs[1] = ks[Google]
    BY <1>4, <2>1 DEF Google
  <2> HIDE DEF gs
  <2> QED
    BY <2>2 DEF ToSet
<1> HIDE DEF gs
<1> QED
  BY <1>1, <1>6, <1>7

---------------------------------------------------------------------------

\* A model is run with every google key there is, if there are several, or as a
\* plain string.
LEMMA ExpandOf ==
  ASSUME NEW ks \in KeyMap, NEW m \in Names
  PROVE  /\ Expand(ks, m) \in Seq(Entries) /\ Expand(ks, m) # <<>>
         /\ \A e \in ToSet(Expand(ks, m)) :
              /\ e.model = m
              /\ e.key = None => ~(Provider[m] = "google" /\ Len(GoogleKeys(ks)) > 1)
              /\ e.key # None => e.key \in ToSet(GoogleKeys(ks))
         /\ Len(Expand(ks, m)) > 1 => \A e \in ToSet(Expand(ks, m)) : e.key # None
<1> DEFINE gs   == GoogleKeys(ks)
           many == [i \in DOMAIN gs |-> [model |-> m, key |-> gs[i]]]
           one  == <<[model |-> m, key |-> None]>>
<1>1. gs \in Seq(Values) /\ None \notin Values
  BY GoogleKeysOf, ModelsAssumption
<1>2. Expand(ks, m) = IF Provider[m] = "google" /\ Len(gs) > 1 THEN many ELSE one
  BY DEF Expand
<1>3. \A i \in DOMAIN gs : gs[i] \in ToSet(gs) /\ gs[i] \in Values
  BY <1>1 DEF ToSet
<1> HIDE DEF gs
<1>4. CASE Provider[m] = "google" /\ Len(gs) > 1
  <2>1. DOMAIN gs = 1 .. Len(gs) /\ Len(gs) \in Nat
    BY <1>1
  <2>2. \A i \in DOMAIN gs : [model |-> m, key |-> gs[i]] \in Entries
    BY <1>3 DEF Entries
  <2>3. many \in Seq(Entries) /\ Len(many) = Len(gs)
    BY <2>1, <2>2
  <2>4. many # <<>>
    BY <1>4, <2>1, <2>3
  <2>5. \A i \in DOMAIN many : many[i].model = m /\ many[i].key \in ToSet(gs) /\ many[i].key # None
    BY <1>1, <1>3
  <2> HIDE DEF many
  <2>6. \A e \in ToSet(many) : e.model = m /\ e.key \in ToSet(gs) /\ e.key # None
    BY <2>5 DEF ToSet
  <2> QED
    BY <1>2, <1>4, <2>3, <2>4, <2>6 DEF gs
<1>5. CASE ~(Provider[m] = "google" /\ Len(gs) > 1)
  <2>1. one \in Seq(Entries) /\ Len(one) = 1 /\ one # <<>> /\ DOMAIN one = 1 .. 1
    BY DEF Entries
  <2>2. \A e \in ToSet(one) : e.model = m /\ e.key = None
    BY <2>1 DEF ToSet
  <2>3. Expand(ks, m) = one
    BY <1>2, <1>5
  <2> HIDE DEF one
  <2>4. ~(Len(Expand(ks, m)) > 1)
    BY <2>1, <2>3
  <2>5. \A e \in ToSet(Expand(ks, m)) : e.model = m /\ e.key = None
    BY <2>2, <2>3
  <2>6. Expand(ks, m) \in Seq(Entries) /\ Expand(ks, m) # <<>>
    BY <2>1, <2>3
  <2>7. ~(Provider[m] = "google" /\ Len(GoogleKeys(ks)) > 1)
    BY <1>5 DEF gs
  <2> QED
    BY <2>4, <2>5, <2>6, <2>7
<1> QED
  BY <1>4, <1>5

\* It is run with every key that it is owed.
LEMMA ExpandHas ==
  ASSUME NEW ks \in KeyMap, NEW m \in Names, NEW key,
         IF Provider[m] = "google" /\ Len(GoogleKeys(ks)) > 1
         THEN key \in ToSet(GoogleKeys(ks)) ELSE key = None
  PROVE  [model |-> m, key |-> key] \in ToSet(Expand(ks, m))
<1> DEFINE gs   == GoogleKeys(ks)
           many == [i \in DOMAIN gs |-> [model |-> m, key |-> gs[i]]]
           one  == <<[model |-> m, key |-> None]>>
<1>1. Expand(ks, m) = IF Provider[m] = "google" /\ Len(gs) > 1 THEN many ELSE one
  BY DEF Expand
<1>2. IF Provider[m] = "google" /\ Len(gs) > 1 THEN \E i \in DOMAIN gs : key = gs[i] ELSE key = None
  BY DEF ToSet
<1> HIDE DEF gs
<1>3. CASE Provider[m] = "google" /\ Len(gs) > 1
  <2>1. PICK i \in DOMAIN gs : key = gs[i]
    BY <1>2, <1>3
  <2>2. i \in DOMAIN many /\ many[i] = [model |-> m, key |-> key]
    BY <2>1
  <2>3. [model |-> m, key |-> key] \in ToSet(many)
    <3> HIDE DEF many
    <3> QED
      BY <2>2 DEF ToSet
  <2> QED
    BY <1>1, <1>3, <2>3
<1>4. CASE ~(Provider[m] = "google" /\ Len(gs) > 1)
  <2>1. 1 \in DOMAIN one /\ one[1] = [model |-> m, key |-> key]
    BY <1>2, <1>4
  <2>2. [model |-> m, key |-> key] \in ToSet(one)
    <3> HIDE DEF one
    <3> QED
      BY <2>1 DEF ToSet
  <2> QED
    BY <1>1, <1>4, <2>2
<1> QED
  BY <1>3, <1>4

\* Filtering a chain leaves the models of the chain that are in the set.
LEMMA AmongOf ==
  ASSUME NEW models \in Seq(Names), NEW S
  PROVE  /\ Among(models, S) \in Seq(Names)
         /\ ToSet(Among(models, S)) = ToSet(models) \cap S
<1> DEFINE ss == [i \in DOMAIN models |-> IF models[i] \in S THEN <<models[i]>> ELSE <<>>]
<1>1. /\ DOMAIN models = 1 .. Len(models) /\ Len(models) \in Nat
      /\ \A i \in DOMAIN models : models[i] \in Names
  OBVIOUS
<1>2. ss \in Seq(Seq(Names)) /\ Len(ss) = Len(models)
  <2>1. \A i \in DOMAIN models : (IF models[i] \in S THEN <<models[i]>> ELSE <<>>) \in Seq(Names)
    BY <1>1
  <2> QED
    BY <1>1, <2>1
<1>3. ASSUME NEW i \in 1 .. Len(models), NEW x
      PROVE  x \in Range(ss[i]) <=> x = models[i] /\ x \in S
  <2>1. Range(<<models[i]>>) = {models[i]} /\ Range(<<>>) = {}
    BY DEF Range
  <2>2. ss[i] = IF models[i] \in S THEN <<models[i]>> ELSE <<>>
    BY <1>1
  <2> HIDE DEF ss
  <2> QED
    BY <2>1, <2>2
<1>4. FlattenSeq(ss) \in Seq(Names)
  <2> HIDE DEF ss
  <2> QED
    BY <1>2, FlattenHolds
<1>5. \A x : x \in Range(FlattenSeq(ss)) <=> \E i \in 1 .. Len(models) : x \in Range(ss[i])
  <2> HIDE DEF ss
  <2> QED
    BY <1>2, FlattenHolds
<1>6. Among(models, S) = FlattenSeq(ss)
  BY DEF Among
<1> HIDE DEF ss
<1>7. \A x : x \in Range(FlattenSeq(ss)) <=> x \in Range(models) /\ x \in S
  <2>1. \A x : x \in Range(models) <=> \E i \in 1 .. Len(models) : x = models[i]
    BY <1>1 DEF Range
  <2> QED
    BY <1>3, <1>5, <2>1
<1>8. ToSet(FlattenSeq(ss)) = Range(FlattenSeq(ss)) /\ ToSet(models) = Range(models)
  BY DEF ToSet, Range
<1> QED
  BY <1>4, <1>6, <1>7, <1>8

---------------------------------------------------------------------------

\* The primary stays if it can be asked or nothing can take its place.
LEMMA PromotedOf ==
  ASSUME NEW A, NEW named \in Names, NEW chain \in Seq(Names)
  PROVE  LET models == Promoted(A, named, chain)
         IN /\ models \in Seq(Names) /\ models # <<>>
            /\ ToSet(models) \subseteq ToSet(chain) \cup {named}
            /\ ToSet(chain) \subseteq ToSet(models)
            /\ named \in A => named \in ToSet(models)
            /\ named \notin A => models = chain \/ models = <<named>>
<1> DEFINE both == <<named>> \o chain
<1>1. both \in Seq(Names) /\ both # <<>>
  OBVIOUS
<1>2. ToSet(both) = ToSet(chain) \cup {named}
  <2>1. <<named>> \in Seq(Names) /\ ToSet(<<named>>) = {named}
    BY DEF ToSet
  <2>2. ToSet(both) = Range(both) /\ ToSet(chain) = Range(chain) /\ Range(<<named>>) = {named}
    BY <2>1 DEF ToSet, Range
  <2>3. /\ both \in Seq(Names)
        /\ \A k \in DOMAIN both : both[k] \in Range(<<named>>) \cup Range(chain)
        /\ Range(<<named>>) \cup Range(chain) \subseteq Range(both)
    BY <2>1, RangeOfJoin
  <2> HIDE DEF both
  <2>4. \A x \in Range(both) : x \in Range(<<named>>) \cup Range(chain)
    BY <2>3 DEF Range
  <2> QED
    BY <2>2, <2>3, <2>4
<1>3. chain = <<>> => both = <<named>>
  OBVIOUS
<1>4. Promoted(A, named, chain) = IF named \notin A /\ chain # <<>> THEN chain ELSE both
  BY DEF Promoted
<1> HIDE DEF both
<1> QED
  BY <1>1, <1>2, <1>3, <1>4

\* The entries of a sequence of models are those of its models.
LEMMA ExpansionsOf ==
  ASSUME NEW ks \in KeyMap, NEW models \in Seq(Names), models # <<>>
  PROVE  LET flat == FlattenSeq([i \in DOMAIN models |-> Expand(ks, models[i])])
         IN /\ flat \in Seq(Entries) /\ flat # <<>>
            /\ \A e : e \in ToSet(flat) <=> \E m \in ToSet(models) : e \in ToSet(Expand(ks, m))
            /\ \A m : models = <<m>> => flat = Expand(ks, m)
<1> DEFINE ss   == [i \in DOMAIN models |-> Expand(ks, models[i])]
           flat == FlattenSeq(ss)
<1>1. /\ DOMAIN models = 1 .. Len(models) /\ Len(models) \in Nat /\ 1 \in DOMAIN models
      /\ \A i \in DOMAIN models : models[i] \in Names
  OBVIOUS
<1>2. \A i \in DOMAIN models : Expand(ks, models[i]) \in Seq(Entries) /\ Expand(ks, models[i]) # <<>>
  BY <1>1, ExpandOf
<1>3. ss \in Seq(Seq(Entries)) /\ Len(ss) = Len(models)
  BY <1>1, <1>2
<1>4. \A i \in DOMAIN models : ss[i] = Expand(ks, models[i])
  OBVIOUS
<1> HIDE DEF ss
<1>5. flat \in Seq(Entries)
  BY <1>3, FlattenHolds
<1>6. \A e : e \in Range(flat) <=> \E i \in 1 .. Len(models) : e \in Range(ss[i])
  BY <1>3, FlattenHolds
<1>7. \A f : ToSet(f) = Range(f)
  BY DEF ToSet, Range
<1>8. \A e : e \in ToSet(flat) <=> \E m \in ToSet(models) : e \in ToSet(Expand(ks, m))
  <2>1. \A m : m \in ToSet(models) <=> \E i \in 1 .. Len(models) : m = models[i]
    BY <1>1 DEF ToSet
  <2> HIDE DEF flat
  <2> QED
    BY <1>1, <1>4, <1>6, <1>7, <2>1
<1>9. flat # <<>>
  <2>1. 1 \in DOMAIN Expand(ks, models[1])
    BY <1>1, <1>2
  <2>2. Expand(ks, models[1])[1] \in Range(ss[1])
    BY <1>1, <1>4, <2>1, RangeHas
  <2>3. Expand(ks, models[1])[1] \in Range(flat)
    BY <1>1, <1>6, <2>2
  <2> HIDE DEF flat
  <2> QED
    BY <2>3 DEF Range
<1>10. ASSUME NEW m, models = <<m>> PROVE flat = Expand(ks, m)
  <2>1. Len(ss) = 1 /\ ss[1] = Expand(ks, m)
    BY <1>1, <1>3, <1>4, <1>10
  <2> QED
    BY <2>1, FlattenOne
<1> QED
  BY <1>5, <1>8, <1>9, <1>10 DEF ss

\* for_role and model_name_for_layer find a model or none (the first section
\* that names a provider is taken).
LEMMA ConfigTyped ==
  ASSUME NEW cfg \in Configs, NEW layer \in Layers, NEW override \in Names \cup {None}
  PROVE  /\ cfg.fallbacks[layer] \in Seq(Names)
         /\ Named(cfg, layer, override) \in Names \cup {None}
<1>1. cfg \in Config
  BY ModelsAssumption
<1>2. cfg.fallbacks[layer] \in Seq(Names)
  BY <1>1 DEF Config
<1>3. ProviderOf(cfg, layer) \in Providers
  <2> DEFINE named == <<cfg.routes[layer], cfg.routing[layer], cfg.defaults[layer],
                        cfg.default, "google">>
             First(i) == named[i] # None /\ \A j \in 1 .. i - 1 : named[j] = None
  <2>1. \A i \in 1 .. 5 : named[i] \in Providers \cup {None}
    BY <1>1 DEF Config, Providers, Listed
  <2>2. named[5] # None
    BY ModelsAssumption DEF Providers, Listed
  <2>3. ProviderOf(cfg, layer) = named[CHOOSE i \in 1 .. 5 : First(i)]
    BY DEF ProviderOf
  <2> HIDE DEF named
  <2>4. \E i \in 1 .. 5 : First(i)
    <3> DEFINE T == {i \in 1 .. 5 : named[i] # None}
    <3>1. T \in SUBSET Nat /\ 5 \in T
      BY <2>2
    <3>2. PICK i \in T : \A j \in T : i <= j
      <4> HIDE DEF T
      <4> QED
        BY <3>1, LeastNumber
    <3>3. i \in 1 .. 5 /\ named[i] # None
      BY <3>2
    <3>4. ASSUME NEW j \in 1 .. i - 1 PROVE named[j] = None
      <4>1. j \in 1 .. 5 /\ ~(i <= j)
        BY <3>3
      <4> QED
        BY <3>2, <4>1
    <3> QED
      BY <3>3, <3>4
  <2> DEFINE at == CHOOSE i \in 1 .. 5 : First(i)
  <2>5. at \in 1 .. 5 /\ First(at)
    <3> HIDE DEF First
    <3> QED
      BY <2>4
  <2> HIDE DEF at
  <2>6. named[at] \in Providers
    BY <2>1, <2>5
  <2> QED
    BY <2>3, <2>6 DEF at
<1>4. Primary(cfg, layer) \in Names \cup {None}
  BY <1>1, <1>3 DEF Primary, Config, Choice
<1> QED
  BY <1>2, <1>4 DEF Named

---------------------------------------------------------------------------

\* The fallbacks that can be asked, and the models with the primary among them.
ChainOf(cfg, ks, layer, named)  == Among(cfg.fallbacks[layer], Available(ks) \ {named})
ModelsOf(cfg, ks, layer, named) == Promoted(Available(ks), named, ChainOf(cfg, ks, layer, named))

\* The entries of a resolution are those of its models.
Asks(cfg, ks, layer, override) ==
  LET named   == Named(cfg, layer, override)
      chain   == ChainOf(cfg, ks, layer, named)
      models  == ModelsOf(cfg, ks, layer, named)
      entries == EntriesFor(cfg, ks, layer, override)
  IN /\ entries \in Seq(Entries) /\ entries # <<>>
     /\ named \in Names /\ chain \in Seq(Names) /\ models \in Seq(Names)
     /\ ToSet(chain) = ToSet(cfg.fallbacks[layer]) \cap (Available(ks) \ {named})
     /\ \A e : e \in ToSet(entries) <=> \E m \in ToSet(models) : e \in ToSet(Expand(ks, m))
     /\ \A m : models = <<m>> => entries = Expand(ks, m)

\* What fallback_chain_for_layer, the promotion and _expand_keys make of a
\* layer.
LEMMA EntriesOf ==
  ASSUME NEW cfg \in Configs, NEW ks \in KeyMap, NEW layer \in Layers,
         NEW override \in Names \cup {None}, Named(cfg, layer, override) # None
  PROVE  Asks(cfg, ks, layer, override)
<1> DEFINE named   == Named(cfg, layer, override)
           chain   == ChainOf(cfg, ks, layer, named)
           models  == ModelsOf(cfg, ks, layer, named)
           flat    == FlattenSeq([i \in DOMAIN models |-> Expand(ks, models[i])])
<1>1. named \in Names /\ cfg.fallbacks[layer] \in Seq(Names)
  BY ConfigTyped
<1>2. chain \in Seq(Names) /\ ToSet(chain) = ToSet(cfg.fallbacks[layer]) \cap (Available(ks) \ {named})
  BY <1>1, AmongOf DEF ChainOf
<1>3. EntriesFor(cfg, ks, layer, override) = flat
  BY DEF EntriesFor, ChainOf, ModelsOf
<1> HIDE DEF named
<1>4. models \in Seq(Names) /\ models # <<>>
  BY <1>1, <1>2, PromotedOf DEF ModelsOf
<1> HIDE DEF models
<1>5. /\ flat \in Seq(Entries) /\ flat # <<>>
      /\ \A e : e \in ToSet(flat) <=> \E m \in ToSet(models) : e \in ToSet(Expand(ks, m))
      /\ \A m : models = <<m>> => flat = Expand(ks, m)
  BY <1>4, ExpansionsOf
<1> HIDE DEF flat
<1> QED
  BY <1>1, <1>2, <1>3, <1>4, <1>5 DEF Asks, named, chain, models

\* Environments with the same google keys, and anthropic and openai alike,
\* offer the same models with the same keys.
LEMMA KeysAlike ==
  ASSUME NEW ks1, NEW ks2, GoogleKeys(ks1) = GoogleKeys(ks2),
         IsSet(ks1, <<"anthropic", 1>>) <=> IsSet(ks2, <<"anthropic", 1>>),
         IsSet(ks1, <<"openai", 1>>) <=> IsSet(ks2, <<"openai", 1>>)
  PROVE  /\ Available(ks1) = Available(ks2)
         /\ \A m : Expand(ks1, m) = Expand(ks2, m)
<1>1. ASSUME NEW m \in Names, Provider[m] \in Listed \ {"google"}
      PROVE  IsSet(ks1, OwnKey(m)) <=> IsSet(ks2, OwnKey(m))
  BY <1>1 DEF Listed, OwnKey
<1> QED
  BY <1>1 DEF Available, Expand

\* What a resolution lists is determined by its cache key and models.yaml.
LEMMA KeyDetermines ==
  ASSUME NEW cfg, NEW ks1, NEW ks2, NEW layer, NEW override,
         CacheKey(ks1, layer, override) = CacheKey(ks2, layer, override)
  PROVE  EntriesFor(cfg, ks1, layer, override) = EntriesFor(cfg, ks2, layer, override)
<1>1. /\ GoogleKeys(ks1) = GoogleKeys(ks2)
      /\ IsSet(ks1, <<"anthropic", 1>>) <=> IsSet(ks2, <<"anthropic", 1>>)
      /\ IsSet(ks1, <<"openai", 1>>) <=> IsSet(ks2, <<"openai", 1>>)
  BY DEF CacheKey
<1>2. Available(ks1) = Available(ks2) /\ \A m : Expand(ks1, m) = Expand(ks2, m)
  BY <1>1, KeysAlike
<1> QED
  BY <1>2 DEF EntriesFor

\* Where something is resolved, it is all that is listed, and has its keys.
LEMMA Resolved ==
  ASSUME NEW cfg, NEW ks, NEW layer, NEW override, Resolve(cfg, ks, layer, override) # <<>>
  PROVE  LET entries == EntriesFor(cfg, ks, layer, override)
         IN /\ Named(cfg, layer, override) # None
            /\ Resolve(cfg, ks, layer, override) = entries
            /\ Len(entries) > 1 => \A i \in DOMAIN entries : KeyOf(ks, entries[i]) # None
BY DEF Resolve

\* A resolution is a sequence of entries.
LEMMA ResolveTyped ==
  ASSUME NEW cfg \in Configs, NEW ks \in KeyMap, NEW layer \in Layers,
         NEW override \in Names \cup {None}
  PROVE  Resolve(cfg, ks, layer, override) \in Seq(Entries)
<1>1. CASE Named(cfg, layer, override) = None
  BY <1>1 DEF Resolve
<1>2. CASE Named(cfg, layer, override) # None
  <2>1. EntriesFor(cfg, ks, layer, override) \in Seq(Entries)
    BY <1>2, EntriesOf DEF Asks
  <2> QED
    BY <2>1 DEF Resolve
<1> QED
  BY <1>1, <1>2

\* What a resolution owes are entries.
LEMMA OwedTyped ==
  ASSUME NEW cfg \in Configs, NEW ks \in KeyMap, NEW layer \in Layers,
         NEW override \in Names \cup {None}
  PROVE  Owed(cfg, ks, layer, override) \subseteq Entries
<1>1. /\ Named(cfg, layer, override) \in Names \cup {None}
      /\ ToSet(cfg.fallbacks[layer]) \subseteq Names
  BY ConfigTyped DEF ToSet
<1> QED
  BY <1>1 DEF Owed, Entries

\* A resolution leaves out nothing of what it owes.
LEMMA OwedIsAsked ==
  ASSUME NEW cfg \in Configs, NEW ks \in KeyMap, NEW layer \in Layers,
         NEW override \in Names \cup {None}, Named(cfg, layer, override) # None
  PROVE  Owed(cfg, ks, layer, override) \subseteq ToSet(EntriesFor(cfg, ks, layer, override))
<1> DEFINE named   == Named(cfg, layer, override)
           chain   == ChainOf(cfg, ks, layer, named)
           models  == ModelsOf(cfg, ks, layer, named)
           entries == EntriesFor(cfg, ks, layer, override)
<1>1. named # None
  OBVIOUS
<1>2. /\ named \in Names /\ chain \in Seq(Names)
      /\ ToSet(chain) = ToSet(cfg.fallbacks[layer]) \cap (Available(ks) \ {named})
      /\ \A e : e \in ToSet(entries) <=> \E m \in ToSet(models) : e \in ToSet(Expand(ks, m))
  <2>1. Asks(cfg, ks, layer, override)
    BY <1>1, EntriesOf
  <2> QED
    BY <2>1 DEF Asks
<1>3. SUFFICES ASSUME NEW e \in Owed(cfg, ks, layer, override)
               PROVE  e \in ToSet(entries)
  OBVIOUS
<1>4. /\ e.model \in ({named} \cup ToSet(cfg.fallbacks[layer])) \ {None}
      /\ e = [model |-> e.model, key |-> e.key]
      /\ IF Provider[e.model] = "google" /\ Len(GoogleKeys(ks)) > 1
         THEN e.key \in ToSet(GoogleKeys(ks))
         ELSE e.key = None /\ IsSet(ks, OwnKey(e.model))
  BY DEF Owed
<1>5. e.model \in Names
  BY <1>2, <1>4, ConfigTyped DEF ToSet
<1>6. e.model \in Available(ks)
  <2>1. CASE Provider[e.model] = "google"
    <3>1. CASE Len(GoogleKeys(ks)) > 1
      <4>1. GoogleKeys(ks) # <<>>
        BY <3>1
      <4> QED
        BY <1>5, <2>1, <4>1 DEF Available
    <3>2. CASE ~(Len(GoogleKeys(ks)) > 1)
      <4>1. IsSet(ks, Google)
        BY <1>4, <2>1, <3>2 DEF OwnKey, Google
      <4>2. GoogleKeys(ks) # <<>>
        BY <4>1, GoogleKeysOf DEF ToSet
      <4> QED
        BY <1>5, <2>1, <4>2 DEF Available
    <3> QED
      BY <3>1, <3>2
  <2>2. CASE Provider[e.model] # "google"
    <3>1. IsSet(ks, OwnKey(e.model))
      BY <1>4, <2>2
    <3>2. Provider[e.model] \in Others \/ Provider[e.model] \in Listed
      BY <1>5, ModelsAssumption DEF Providers
    <3> QED
      BY <1>5, <2>2, <3>1, <3>2 DEF Available
  <2> QED
    BY <2>1, <2>2
<1>7. e.model \in ToSet(models)
  <2>1. named \in Available(ks) => named \in ToSet(models)
    <3> HIDE DEF named
    <3> QED
      BY <1>2, PromotedOf DEF ModelsOf
  <2>2. ToSet(chain) \subseteq ToSet(models)
    <3> HIDE DEF named
    <3> QED
      BY <1>2, PromotedOf DEF ModelsOf
  <2> HIDE DEF named, chain, models
  <2> QED
    BY <1>2, <1>4, <1>6, <2>1, <2>2
<1>8. [model |-> e.model, key |-> e.key] \in ToSet(Expand(ks, e.model))
  BY <1>4, <1>5, ExpandHas
<1> HIDE DEF entries, models
<1> QED
  BY <1>2, <1>4, <1>7, <1>8

\* The models that stop a build, ...
Stops(cfg, ks, layer, override, m) ==
  /\ m \in {Named(cfg, layer, override)} \cup ToSet(cfg.fallbacks[layer])
  /\ ~IsSet(ks, OwnKey(m))
  /\ Provider[m] \in Others \/ (Provider[m] = "google" /\ Len(GoogleKeys(ks)) = 1)

\* ... and there is one where nothing is resolved although a model is named.
LEMMA CrashesByOne ==
  ASSUME NEW cfg \in Configs, NEW ks \in KeyMap, NEW layer \in Layers,
         NEW override \in Names \cup {None}, Named(cfg, layer, override) # None,
         Resolve(cfg, ks, layer, override) = <<>>
  PROVE  \E m : Stops(cfg, ks, layer, override, m)
<1> DEFINE named   == Named(cfg, layer, override)
           chain   == ChainOf(cfg, ks, layer, named)
           models  == ModelsOf(cfg, ks, layer, named)
           entries == EntriesFor(cfg, ks, layer, override)
<1>1. /\ entries \in Seq(Entries) /\ entries # <<>>
      /\ named \in Names /\ chain \in Seq(Names)
      /\ ToSet(chain) = ToSet(cfg.fallbacks[layer]) \cap (Available(ks) \ {named})
      /\ \A e : e \in ToSet(entries) <=> \E m \in ToSet(models) : e \in ToSet(Expand(ks, m))
      /\ \A m : models = <<m>> => entries = Expand(ks, m)
  <2>1. Asks(cfg, ks, layer, override)
    BY EntriesOf
  <2> QED
    BY <2>1 DEF Asks
<1>2. Len(entries) > 1 /\ \E i \in DOMAIN entries : KeyOf(ks, entries[i]) = None
  BY <1>1 DEF Resolve
<1>3. PICK e \in ToSet(entries) : KeyOf(ks, e) = None
  BY <1>2 DEF ToSet
<1>4. /\ ToSet(models) \subseteq ToSet(chain) \cup {named}
      /\ named \notin Available(ks) => models = chain \/ models = <<named>>
  <2> HIDE DEF named
  <2> QED
    BY <1>1, PromotedOf DEF ModelsOf
<1>5. ToSet(chain) \subseteq ToSet(cfg.fallbacks[layer]) \cap Available(ks)
  BY <1>1
<1>6. named = Named(cfg, layer, override)
  OBVIOUS
<1> HIDE DEF named, chain, models, entries
<1>7. PICK m \in ToSet(models) : e \in ToSet(Expand(ks, m))
  BY <1>1
<1>8. m \in Available(ks)
  <2>1. CASE named \in Available(ks)
    BY <1>4, <1>5, <2>1
  <2>2. CASE models = chain
    BY <1>5, <2>2
  <2>3. CASE models = <<named>>
    <3>1. entries = Expand(ks, named)
      BY <1>1, <2>3
    <3>2. e.key # None
      BY <1>1, <1>2, <1>3, <3>1, ExpandOf
    <3> QED
      BY <1>3, <3>2 DEF KeyOf
  <2> QED
    BY <1>4, <2>1, <2>2, <2>3
<1>9. m \in Names /\ m \in {named} \cup ToSet(cfg.fallbacks[layer])
  BY <1>4, <1>5, <1>7, <1>8 DEF Available
<1>10. e.key = None /\ e.model = m /\ ~(Provider[m] = "google" /\ Len(GoogleKeys(ks)) > 1)
  <2>1. e.key = None
    BY <1>3 DEF KeyOf
  <2> QED
    BY <1>7, <1>9, <2>1, ExpandOf
<1>11. ~IsSet(ks, OwnKey(m))
  <2>1. CASE IsSet(ks, OwnKey(m))
    <3>1. KeyOf(ks, e) = ks[OwnKey(m)]
      BY <1>10, <2>1 DEF KeyOf
    <3> QED
      BY <1>3, <2>1, <3>1 DEF IsSet
  <2> QED
    BY <2>1
<1>12. Provider[m] = "google" => Len(GoogleKeys(ks)) = 1
  <2>1. SUFFICES ASSUME Provider[m] = "google" PROVE Len(GoogleKeys(ks)) = 1
    OBVIOUS
  <2>2. Provider[m] \notin Others
    BY <2>1, ModelsAssumption DEF Listed
  <2>3. GoogleKeys(ks) # <<>> /\ GoogleKeys(ks) \in Seq(Values)
    BY <1>8, <2>1, <2>2, GoogleKeysOf DEF Available
  <2>4. ~(Len(GoogleKeys(ks)) > 1)
    BY <1>10, <2>1
  <2> DEFINE gs == GoogleKeys(ks)
  <2>5. gs # <<>> /\ gs \in Seq(Values) /\ ~(Len(gs) > 1)
    BY <2>3, <2>4
  <2> HIDE DEF gs
  <2>6. Len(gs) \in Nat /\ Len(gs) # 0
    BY <2>5
  <2>7. ASSUME NEW n \in Nat, n # 0, ~(n > 1) PROVE n = 1
    BY <2>7
  <2>8. Len(gs) = 1
    BY <2>5, <2>6, <2>7
  <2> QED
    BY <2>8 DEF gs
<1>13. Provider[m] \in Others \/ Provider[m] = "google"
  BY <1>8, <1>11 DEF Available
<1>14. Stops(cfg, ks, layer, override, m)
  BY <1>6, <1>9, <1>11, <1>12, <1>13 DEF Stops
<1> QED
  BY <1>14

\* What is built with google keys is built with those there are.
LEMMA BuiltWithGoogle ==
  ASSUME NEW cfg \in Configs, NEW ks \in KeyMap, NEW layer \in Layers,
         NEW override \in Names \cup {None}, NEW entries, entries # <<>>,
         entries = Resolve(cfg, ks, layer, override), Len(entries) > 1,
         NEW i \in DOMAIN entries, Provider[entries[i].model] = "google"
  PROVE  KeyOf(ks, entries[i]) \in ToSet(GoogleKeys(ks))
<1> DEFINE named  == Named(cfg, layer, override)
           models == ModelsOf(cfg, ks, layer, named)
           e      == entries[i]
<1>1. entries = EntriesFor(cfg, ks, layer, override) /\ named # None /\ KeyOf(ks, e) # None
  BY Resolved
<1>2. /\ models \in Seq(Names)
      /\ \A x : x \in ToSet(entries) <=> \E m \in ToSet(models) : x \in ToSet(Expand(ks, m))
  <2>1. Asks(cfg, ks, layer, override)
    BY <1>1, EntriesOf
  <2> QED
    BY <1>1, <2>1 DEF Asks
<1>3. e \in ToSet(entries)
  BY DEF ToSet
<1> HIDE DEF models, e
<1>4. PICK m \in ToSet(models) : e \in ToSet(Expand(ks, m))
  BY <1>2, <1>3
<1>5. m \in Names
  BY <1>2 DEF ToSet
<1>6. e.model = m /\ (e.key # None => e.key \in ToSet(GoogleKeys(ks)))
  BY <1>4, <1>5, ExpandOf
<1>7. CASE e.key # None
  BY <1>6, <1>7 DEF KeyOf, e
<1>8. CASE e.key = None
  <2>1. IsSet(ks, OwnKey(e.model)) /\ KeyOf(ks, e) = ks[OwnKey(e.model)]
    BY <1>1, <1>8 DEF KeyOf
  <2>2. OwnKey(e.model) = Google
    BY DEF OwnKey, Google, e
  <2> QED
    BY <2>1, <2>2, GoogleKeysOf DEF e
<1> QED
  BY <1>7, <1>8

---------------------------------------------------------------------------
\* The inductive invariant

\* A cached resolution is what resolving gave, with the keys it was resolved
\* with, which have its cache key.
GoodResolution(k, r) ==
  /\ r.config \in Configs /\ r.keys \in KeyMap /\ r.entries \in Seq(Entries) \ {<<>>}
  /\ k[1] \in Layers /\ k[2] \in Names \cup {None}
  /\ k = CacheKey(r.keys, k[1], k[2])
  /\ r.entries = Resolve(r.config, r.keys, k[1], k[2])

CacheGood ==
  /\ IsFiniteSet(DOMAIN resolved) /\ Cardinality(DOMAIN resolved) <= MaxCached
  /\ \A k \in DOMAIN resolved : GoodResolution(k, resolved[k])

\* An agent has entries, and among them all that it owes.
GoodAgent(agent) ==
  /\ agent.entries \in Seq(Entries) /\ agent.owed \subseteq ToSet(agent.entries)
  /\ agent # NoAgent => agent.entries # <<>>

AgentsGood ==
  /\ agents = [l \in {"verifier", "filter"} |-> agents[l]]
  /\ \A l \in {"verifier", "filter"} : GoodAgent(agents[l])

\* A call has tried every entry before the one it asks, and owes no others.
Trying(v) ==
  /\ v.layer \in Layers /\ v.pos \in 1 .. Len(v.entries)
  /\ v.owed \subseteq ToSet(v.entries)
  /\ \A i \in 1 .. v.pos - 1 : v.entries[i] \in v.tried

GoodCall(v) ==
  /\ v \in CallType
  /\ v.phase = "asking" => Trying(v)
  /\ v.phase = "capped" /\ v.layer = "verifier" => v.tokens > MaxTokens
  /\ v.phase = "exhausted" =>
       v.owed \subseteq v.tried /\ (v.attempt = MaxAttempts \/ "transient" \notin v.errors)

WorldTyped == config \in Configs /\ keys \in KeyMap /\ changes \in 0 .. MaxChanges

CallsGood == call = [c \in Calls |-> call[c]] /\ \A c \in Calls : GoodCall(call[c])

IInv == WorldTyped /\ CacheGood /\ AgentsGood /\ CallsGood

---------------------------------------------------------------------------
\* Lemmas about its parts

\* model_for_layer returns, from its cache or not, what resolving now would
\* list, under the configuration it reports, or nothing if resolving raises.
LEMMA ModelForGood ==
  ASSUME WorldTyped, CacheGood, NEW layer \in Layers, NEW override \in Names \cup {None}
  PROVE  LET r == ModelFor(layer, override)
         IN /\ r.config \in Configs /\ r.entries \in Seq(Entries)
            /\ r.entries # <<>> => /\ Named(r.config, layer, override) # None
                                   /\ r.entries = EntriesFor(r.config, keys, layer, override)
            /\ r.entries = <<>> => Resolve(config, keys, layer, override) = <<>>
<1> DEFINE k == CacheKey(keys, layer, override)
           r == ModelFor(layer, override)
<1>1. CASE k \in DOMAIN resolved
  <2>1. r = resolved[k]
    BY <1>1 DEF ModelFor
  <2>2. GoodResolution(k, r)
    BY <1>1, <2>1 DEF CacheGood
  <2>3. k[1] = layer /\ k[2] = override
    BY DEF CacheKey
  <2> HIDE DEF r
  <2>4. /\ r.config \in Configs /\ r.entries \in Seq(Entries) /\ r.entries # <<>>
        /\ r.entries = Resolve(r.config, r.keys, layer, override)
        /\ CacheKey(r.keys, layer, override) = CacheKey(keys, layer, override)
    BY <2>2, <2>3 DEF GoodResolution
  <2>5. /\ Named(r.config, layer, override) # None
        /\ r.entries = EntriesFor(r.config, r.keys, layer, override)
    BY <2>4, Resolved
  <2>6. r.entries = EntriesFor(r.config, keys, layer, override)
    BY <2>4, <2>5, KeyDetermines
  <2> QED
    BY <2>4, <2>5, <2>6 DEF r
<1>2. CASE k \notin DOMAIN resolved
  <2>1. r = [entries |-> Resolve(config, keys, layer, override), config |-> config, keys |-> keys]
    BY <1>2 DEF ModelFor
  <2>2. Resolve(config, keys, layer, override) \in Seq(Entries)
    BY ResolveTyped DEF WorldTyped
  <2> HIDE DEF r
  <2>3. r.entries = Resolve(config, keys, layer, override) /\ r.config = config
    BY <2>1
  <2> QED
    BY <2>2, <2>3, Resolved DEF WorldTyped, r
<1> QED
  BY <1>1, <1>2

\* What model_for_layer keeps, cleared first at its limit, is within the limit
\* and right for its key.
LEMMA RememberKeeps ==
  ASSUME WorldTyped, CacheGood, NEW layer \in Layers, NEW override \in Names \cup {None},
         Remember(layer, override)
  PROVE  CacheGood'
<1> DEFINE k   == CacheKey(keys, layer, override)
           new == ModelFor(layer, override)
<1>1. resolved' = IF k \in DOMAIN resolved \/ new.entries = <<>> THEN resolved
                  ELSE IF Cardinality(DOMAIN resolved) >= MaxCached THEN [x \in {k} |-> new]
                  ELSE [x \in DOMAIN resolved \cup {k} |-> IF x = k THEN new ELSE resolved[x]]
  BY DEF Remember
<1>2. /\ IsFiniteSet(DOMAIN resolved) /\ Cardinality(DOMAIN resolved) <= MaxCached
      /\ \A x \in DOMAIN resolved : GoodResolution(x, resolved[x])
  BY DEF CacheGood
<1>3. MaxCached \in Nat \ {0}
  BY ModelsAssumption
<1>4. ASSUME k \notin DOMAIN resolved, new.entries # <<>>
      PROVE  GoodResolution(k, new)
  <2>1. new = [entries |-> Resolve(config, keys, layer, override), config |-> config, keys |-> keys]
    BY <1>4 DEF ModelFor
  <2>2. /\ new.entries = Resolve(config, keys, layer, override)
        /\ new.config = config /\ new.keys = keys
    BY <2>1
  <2>3. new.entries \in Seq(Entries) \ {<<>>} /\ new.config \in Configs /\ new.keys \in KeyMap
    BY <1>4, <2>2, ResolveTyped DEF WorldTyped
  <2>4. k[1] = layer /\ k[2] = override
    BY DEF CacheKey
  <2> HIDE DEF new
  <2> QED
    BY <2>2, <2>3, <2>4 DEF GoodResolution
<1> HIDE DEF new, k
<1>5. CASE k \in DOMAIN resolved \/ new.entries = <<>>
  <2>1. resolved' = resolved
    BY <1>1, <1>5
  <2> QED
    BY <2>1 DEF CacheGood
<1>6. CASE /\ k \notin DOMAIN resolved /\ new.entries # <<>>
           /\ Cardinality(DOMAIN resolved) >= MaxCached
  <2>1. resolved' = [x \in {k} |-> new]
    BY <1>1, <1>6
  <2>2. DOMAIN resolved' = {k} /\ resolved'[k] = new
    BY <2>1
  <2>3. IsFiniteSet({k}) /\ Cardinality({k}) = 1
    BY FS_Singleton
  <2>4. IsFiniteSet(DOMAIN resolved') /\ Cardinality(DOMAIN resolved') <= MaxCached
    BY <1>3, <2>2, <2>3
  <2>5. \A x \in DOMAIN resolved' : GoodResolution(x, resolved'[x])
    BY <1>4, <1>6, <2>2
  <2> QED
    BY <2>4, <2>5 DEF CacheGood, GoodResolution
<1>7. CASE /\ k \notin DOMAIN resolved /\ new.entries # <<>>
           /\ ~(Cardinality(DOMAIN resolved) >= MaxCached)
  <2>1. resolved' = [x \in DOMAIN resolved \cup {k} |-> IF x = k THEN new ELSE resolved[x]]
    BY <1>1, <1>7
  <2>2. /\ DOMAIN resolved' = DOMAIN resolved \cup {k}
        /\ \A x \in DOMAIN resolved' : resolved'[x] = IF x = k THEN new ELSE resolved[x]
    BY <2>1
  <2>3. /\ IsFiniteSet(DOMAIN resolved \cup {k})
        /\ Cardinality(DOMAIN resolved \cup {k}) = Cardinality(DOMAIN resolved) + 1
    BY <1>2, <1>7, FS_AddElement
  <2>4. IsFiniteSet(DOMAIN resolved') /\ Cardinality(DOMAIN resolved') <= MaxCached
    <3>1. Cardinality(DOMAIN resolved) \in Nat
      BY <1>2, FS_CardinalityType
    <3> QED
      BY <1>3, <1>7, <2>2, <2>3, <3>1
  <2>5. \A x \in DOMAIN resolved' : GoodResolution(x, resolved'[x])
    <3>1. TAKE x \in DOMAIN resolved'
    <3>2. CASE x = k
      BY <1>4, <1>7, <2>2, <3>2
    <3>3. CASE x # k
      BY <1>2, <2>2, <3>3
    <3> QED
      BY <3>2, <3>3
  <2> QED
    BY <2>4, <2>5 DEF CacheGood, GoodResolution
<1> QED
  BY <1>5, <1>6, <1>7

\* Changing one call to one that is as it should be keeps all calls so.
LEMMA OneCall ==
  ASSUME CallsGood, NEW c \in Calls, NEW v, GoodCall(v), call' = [call EXCEPT ![c] = v]
  PROVE  CallsGood'
<1>1. /\ call = [d \in Calls |-> call[d]] /\ \A d \in Calls : GoodCall(call[d])
  BY DEF CallsGood
<1>2. /\ call' = [d \in Calls |-> call'[d]]
      /\ \A d \in Calls : call'[d] = IF d = c THEN v ELSE call[d]
  BY <1>1
<1>3. \A d \in Calls : GoodCall(call'[d])
  BY <1>1, <1>2
<1> QED
  BY <1>2, <1>3 DEF CallsGood, GoodCall, Trying

\* Every call is as it should be.
LEMMA CallTyped ==
  ASSUME CallsGood, NEW c \in Calls
  PROVE  GoodCall(call[c])
BY DEF CallsGood

\* A call that has not begun, and one that ended in an error or an answer.
LEMMA NoCallGood ==
  /\ NoCall \in CallType
  /\ \A phase \in (Over \ {"capped", "exhausted"}) \cup {"new"} : GoodCall(Done(phase))
<1>1. 1 \in 1 .. MaxAttempts /\ 1 \in 1 .. MaxRetries + 1 /\ None \in Layers \cup {None}
  BY ModelsAssumption
<1>2. NoCall \in CallType
  BY <1>1 DEF NoCall, CallType
<1>3. ASSUME NEW phase \in (Over \ {"capped", "exhausted"}) \cup {"new"}
      PROVE  GoodCall(Done(phase))
  <2>1. Done(phase) \in CallType
    BY <1>2, <1>3 DEF Done, CallType
  <2>2. Done(phase).phase = phase
    BY DEF Done, NoCall
  <2> QED
    BY <2>1, <2>2 DEF GoodCall, Over
<1> QED
  BY <1>2, <1>3

\* A call that begins has tried nothing and owes no more than its agent's
\* entries.
LEMMA BegunGood ==
  ASSUME NEW layer \in Layers, NEW agent, GoodAgent(agent), agent.entries # <<>>
  PROVE  GoodCall([NoCall EXCEPT !.phase = "asking", !.layer = layer,
                                 !.entries = agent.entries, !.owed = agent.owed])
<1> DEFINE v == [NoCall EXCEPT !.phase = "asking", !.layer = layer,
                               !.entries = agent.entries, !.owed = agent.owed]
<1>1. agent.entries \in Seq(Entries) /\ agent.owed \subseteq ToSet(agent.entries)
  BY DEF GoodAgent
<1>2. agent.owed \in SUBSET Entries
  BY <1>1 DEF ToSet
<1>3. v \in CallType
  BY <1>1, <1>2, NoCallGood DEF CallType
<1>4. /\ v.phase = "asking" /\ v.layer = layer /\ v.pos = 1
      /\ v.entries = agent.entries /\ v.owed = agent.owed
  BY DEF NoCall
<1>5. 1 \in 1 .. Len(agent.entries)
  BY <1>1
<1> HIDE DEF v
<1>6. Trying(v)
  BY <1>1, <1>4, <1>5 DEF Trying
<1>7. GoodCall(v)
  BY <1>3, <1>4, <1>6 DEF GoodCall
<1> QED
  BY <1>7 DEF v

---------------------------------------------------------------------------
\* One action at a time

\* A user's choice for a layer is a model or none.
LEMMA ChoiceTyped ==
  ASSUME NEW c \in Calls, NEW layer \in Layers
  PROVE  Override[c][layer] \in Names \cup {None}
BY ModelsAssumption DEF Choice

\* The cached agents stay as they should be while nothing is built.
LEMMA AgentsKept ==
  ASSUME AgentsGood, UNCHANGED agents
  PROVE  AgentsGood'
BY DEF AgentsGood, GoodAgent

\* So does the world while neither keys nor models.yaml change.
LEMMA WorldKept ==
  ASSUME WorldTyped, UNCHANGED world
  PROVE  WorldTyped'
BY DEF WorldTyped, world

\* So do the cached resolutions while none is added.
LEMMA CacheKept ==
  ASSUME CacheGood, UNCHANGED resolved
  PROVE  CacheGood'
BY DEF CacheGood, GoodResolution

\* A call that begins with an agent as it should be is one itself.
LEMMA BeginsCall ==
  ASSUME CallsGood, NEW c \in Calls, NEW layer \in Layers, NEW agent, GoodAgent(agent),
         agent.entries # <<>>, Begun(c, layer, agent)
  PROVE  CallsGood'
<1> DEFINE v == [NoCall EXCEPT !.phase = "asking", !.layer = layer,
                               !.entries = agent.entries, !.owed = agent.owed]
<1>1. GoodCall(v)
  BY BegunGood
<1>2. call' = [call EXCEPT ![c] = v]
  BY DEF Begun
<1> HIDE DEF v
<1> QED
  BY <1>1, <1>2, OneCall

\* build_agent finding its agent keeps the invariant.
LEMMA ReuseKeeps ==
  ASSUME IInv, NEW c \in Calls, NEW layer \in Layers, Reuse(c, layer)
  PROVE  IInv'
<1>1. layer \in {"verifier", "filter"} /\ agents[layer] # NoAgent
  BY DEF Reuse, Cached
<1>2. GoodAgent(agents[layer]) /\ agents[layer].entries # <<>>
  BY <1>1 DEF IInv, AgentsGood, GoodAgent
<1>3. CallsGood'
  BY <1>2, BeginsCall DEF Reuse, IInv
<1> QED
  BY <1>3, AgentsKept, WorldKept, CacheKept DEF Reuse, IInv

\* The agent that Build builds.
AgentFor(c, layer) ==
  LET model == ModelFor(layer, Override[c][layer])
  IN [entries |-> model.entries, owed |-> Owed(model.config, keys, layer, Override[c][layer])]

\* An agent is built with all the entries that it owes.
LEMMA AgentForGood ==
  ASSUME IInv, NEW c \in Calls, NEW layer \in Layers, AgentFor(c, layer).entries # <<>>
  PROVE  GoodAgent(AgentFor(c, layer))
<1> DEFINE override == Override[c][layer]
           model    == ModelFor(layer, override)
           agent    == AgentFor(c, layer)
<1>1. override \in Names \cup {None}
  BY ChoiceTyped
<1>2. agent.entries = model.entries /\ agent.owed = Owed(model.config, keys, layer, override)
  BY DEF AgentFor
<1>3. keys \in KeyMap /\ WorldTyped /\ CacheGood
  BY DEF IInv, WorldTyped
<1> HIDE DEF override
<1>4. /\ model.config \in Configs /\ model.entries \in Seq(Entries)
      /\ Named(model.config, layer, override) # None
      /\ model.entries = EntriesFor(model.config, keys, layer, override)
  BY <1>1, <1>2, <1>3, ModelForGood
<1> HIDE DEF model
<1>5. Owed(model.config, keys, layer, override) \subseteq ToSet(model.entries)
  BY <1>1, <1>2, <1>3, <1>4, OwedIsAsked
<1> QED
  BY <1>2, <1>4, <1>5 DEF GoodAgent

\* build_agent building one keeps the invariant, whether it raises or not.
LEMMA BuildKeeps ==
  ASSUME IInv, NEW c \in Calls, NEW layer \in Layers, Build(c, layer)
  PROVE  IInv'
<1> DEFINE override == Override[c][layer]
           agent    == AgentFor(c, layer)
<1>1. /\ Remember(layer, override) /\ UNCHANGED world
      /\ \/ /\ agent.entries # <<>> /\ Begun(c, layer, agent)
            /\ agents' = IF Cached(layer) THEN [agents EXCEPT ![layer] = agent] ELSE agents
         \/ /\ call' = [call EXCEPT ![c] =
                         [Done(IF agent.entries = <<>> /\ Named(config, layer, override) # None
                               THEN "crashed" ELSE "misconfigured") EXCEPT !.layer = layer]]
            /\ UNCHANGED agents
  BY DEF Build, AgentFor
<1>2. override \in Names \cup {None}
  BY ChoiceTyped
<1>3. agent.entries # <<>> => GoodAgent(agent)
  BY AgentForGood
<1> HIDE DEF agent, override
<1>4. CacheGood'
  BY <1>1, <1>2, RememberKeeps DEF IInv
<1>5. WorldTyped'
  BY <1>1, WorldKept DEF IInv
<1>6. CASE /\ agent.entries # <<>> /\ Begun(c, layer, agent)
           /\ agents' = IF Cached(layer) THEN [agents EXCEPT ![layer] = agent] ELSE agents
  <2>1. CallsGood'
    BY <1>3, <1>6, BeginsCall DEF IInv
  <2>2. agents = [l \in {"verifier", "filter"} |-> agents[l]]
        /\ \A l \in {"verifier", "filter"} : GoodAgent(agents[l])
    BY DEF IInv, AgentsGood
  <2>3. agents' = [l \in {"verifier", "filter"} |-> agents'[l]]
    BY <1>6, <2>2 DEF Cached
  <2>4. \A l \in {"verifier", "filter"} : agents'[l] = agents[l] \/ agents'[l] = agent
    BY <1>6, <2>2 DEF Cached
  <2>5. AgentsGood'
    BY <1>3, <1>6, <2>2, <2>3, <2>4 DEF AgentsGood, GoodAgent
  <2> QED
    BY <1>4, <1>5, <2>1, <2>5 DEF IInv
<1>7. CASE /\ call' = [call EXCEPT ![c] =
                        [Done(IF agent.entries = <<>> /\ Named(config, layer, override) # None
                              THEN "crashed" ELSE "misconfigured") EXCEPT !.layer = layer]]
           /\ UNCHANGED agents
  <2>1. \A phase \in {"crashed", "misconfigured"} : GoodCall([Done(phase) EXCEPT !.layer = layer])
    <3>1. TAKE phase \in {"crashed", "misconfigured"}
    <3> DEFINE v == [Done(phase) EXCEPT !.layer = layer]
    <3>2. GoodCall(Done(phase)) /\ Done(phase).phase = phase
      BY NoCallGood DEF Over, Done, NoCall
    <3>3. v \in CallType /\ v.phase = phase
      BY <3>2 DEF GoodCall, CallType
    <3> HIDE DEF v
    <3>4. GoodCall(v)
      BY <3>3 DEF GoodCall
    <3> QED
      BY <3>4 DEF v
  <2>2. CallsGood'
    BY <1>7, <2>1, OneCall DEF IInv
  <2> QED
    BY <1>4, <1>5, <1>7, <2>2, AgentsKept DEF IInv
<1> QED
  BY <1>1, <1>6, <1>7

\* A call that fails leaves a resolution behind, at most.
LEMMA FailsKeeps ==
  ASSUME IInv, NEW c \in Calls, NEW failed, GoodCall(failed), call[c].layer \in Layers,
         Fails(c, failed)
  PROVE  CallsGood' /\ CacheGood'
<1>1. call' = [call EXCEPT ![c] = failed]
  BY DEF Fails
<1>2. CallsGood'
  BY <1>1, OneCall DEF IInv
<1>3. CASE call[c].layer = "search"
  BY <1>2, <1>3, CacheKept DEF Fails, IInv
<1>4. CASE call[c].layer # "search"
  <2>1. Remember(call[c].layer, Override[c][call[c].layer])
    BY <1>4 DEF Fails
  <2>2. Override[c][call[c].layer] \in Names \cup {None}
    BY ChoiceTyped
  <2> QED
    BY <1>2, <2>1, <2>2, RememberKeeps DEF IInv
<1> QED
  BY <1>3, <1>4

\* Steps that change a call and perhaps the resolutions.
LEMMA RunKeeps ==
  ASSUME IInv, CallsGood', CacheGood', UNCHANGED <<world, agents>>
  PROVE  IInv'
BY AgentsKept, WorldKept DEF IInv

\* A call that asks has what it needs to go on.
LEMMA AskingTries ==
  ASSUME IInv, NEW c \in Calls, call[c].phase = "asking"
  PROVE  GoodCall(call[c]) /\ Trying(call[c]) /\ call[c].layer \in Layers
BY DEF IInv, CallsGood, GoodCall, Trying

\* A plain model string whose key is gone.
LEMMA UnkeyedKeeps ==
  ASSUME IInv, NEW c \in Calls, Unkeyed(c)
  PROVE  IInv'
<1>1. GoodCall(Done("unkeyed"))
  BY NoCallGood DEF Over
<1>2. call[c].layer \in Layers /\ Fails(c, Done("unkeyed")) /\ UNCHANGED <<world, agents>>
  BY AskingTries DEF Unkeyed
<1> QED
  BY <1>1, <1>2, FailsKeeps, RunKeeps

\* An answer.
LEMMA AnsweredKeeps ==
  ASSUME IInv, NEW c \in Calls, NEW spent \in 1 .. MaxTokens, Answered(c, spent)
  PROVE  IInv'
<1>1. GoodCall(Done("answered"))
  BY NoCallGood DEF Over
<1>2. call' = [call EXCEPT ![c] = Done("answered")] /\ UNCHANGED <<world, resolved, agents>>
  BY DEF Answered
<1>3. CallsGood' /\ CacheGood'
  BY <1>1, <1>2, OneCall, CacheKept DEF IInv
<1> QED
  BY <1>2, <1>3, RunKeeps

\* A response over the token limit: the tokens it spent are more than the
\* limit.
LEMMA OverspendsKeeps ==
  ASSUME IInv, NEW c \in Calls, NEW spent \in 1 .. MaxTokens, Overspends(c, spent)
  PROVE  IInv'
<1> DEFINE v == [call[c] EXCEPT !.phase = "capped", !.tokens = @ + spent]
<1>1. /\ GoodCall(call[c]) /\ UNCHANGED <<world, resolved, agents>>
      /\ ~Within(c, spent)
      /\ call' = [call EXCEPT ![c].phase = "capped", ![c].tokens = @ + spent]
  BY AskingTries DEF Overspends, Asking
<1>2. call' = [call EXCEPT ![c] = v]
  BY <1>1 DEF IInv, CallsGood
<1>3. MaxTokens \in Nat
  BY ModelsAssumption
<1>4. call[c] \in CallType
  BY <1>1 DEF GoodCall
<1>5. v \in CallType
  <2> DEFINE sum == call[c].tokens + spent
  <2>1. sum \in Nat
    BY <1>3, <1>4 DEF CallType
  <2> HIDE DEF sum
  <2>2. [call[c] EXCEPT !.phase = "capped", !.tokens = sum] \in CallType
    BY <1>4, <2>1 DEF CallType, Over
  <2> QED
    BY <2>2 DEF sum
<1>6. v.phase = "capped" /\ v.layer = call[c].layer /\ v.tokens = call[c].tokens + spent
  BY <1>4 DEF CallType
<1>7. call[c].layer = "verifier" => call[c].tokens + spent > MaxTokens
  BY <1>1, <1>3, <1>4 DEF Within, TokenLimit, CallType
<1> HIDE DEF v
<1>8. GoodCall(v)
  BY <1>5, <1>6, <1>7 DEF GoodCall
<1>9. CallsGood' /\ CacheGood'
  BY <1>1, <1>2, <1>8, OneCall, CacheKept DEF IInv
<1> QED
  BY <1>1, <1>9, RunKeeps

\* The last retry is malformed.
LEMMA NeverValidKeeps ==
  ASSUME IInv, NEW c \in Calls, NEW spent \in 1 .. MaxTokens, NeverValid(c, spent)
  PROVE  IInv'
<1>1. GoodCall(Done("raised"))
  BY NoCallGood DEF Over
<1>2. call[c].layer \in Layers /\ Fails(c, Done("raised")) /\ UNCHANGED <<world, agents>>
  BY AskingTries DEF NeverValid, Asking
<1> QED
  BY <1>1, <1>2, FailsKeeps, RunKeeps

\* A malformed response: the verifier's request limit leaves room for every
\* retry.
LEMMA MalformedKeeps ==
  ASSUME IInv, NEW c \in Calls, NEW spent \in 1 .. MaxTokens, Malformed(c, spent)
  PROVE  IInv'
<1> DEFINE capped == [call[c] EXCEPT !.phase = "capped"]
           again  == [call[c] EXCEPT !.requests = @ + 1, !.tokens = @ + spent,
                                     !.pos = 1, !.errors = {}, !.tried = {}]
<1>1. /\ GoodCall(call[c]) /\ Trying(call[c]) /\ call[c].phase = "asking"
      /\ UNCHANGED <<world, resolved, agents>>
      /\ call[c].requests <= MaxRetries
  BY AskingTries DEF Malformed, Asking
<1>2. call' = IF call[c].requests = RequestLimit(call[c].layer)
              THEN [call EXCEPT ![c].phase = "capped"]
              ELSE [call EXCEPT ![c].requests = @ + 1, ![c].tokens = @ + spent,
                                ![c].pos = 1, ![c].errors = {}, ![c].tried = {}]
  BY DEF Malformed
<1>3. MaxTokens \in Nat /\ MaxRetries \in Nat
  BY ModelsAssumption
<1>4. call[c] \in CallType
  BY <1>1 DEF GoodCall
<1>5. CASE call[c].requests = RequestLimit(call[c].layer)
  <2>1. call' = [call EXCEPT ![c] = capped]
    BY <1>2, <1>5 DEF IInv, CallsGood
  <2>2. capped \in CallType
    BY <1>4 DEF CallType, Over
  <2>3. capped.phase = "capped" /\ capped.layer = call[c].layer
    BY <1>4 DEF CallType
  <2>4. call[c].layer # "verifier"
    BY <1>1, <1>3, <1>4, <1>5 DEF RequestLimit, CallType
  <2> HIDE DEF capped
  <2>5. GoodCall(capped)
    BY <2>2, <2>3, <2>4 DEF GoodCall
  <2>6. CallsGood' /\ CacheGood'
    BY <1>1, <2>1, <2>5, OneCall, CacheKept DEF IInv
  <2> QED
    BY <1>1, <2>6, RunKeeps
<1>6. CASE call[c].requests # RequestLimit(call[c].layer)
  <2>1. call' = [call EXCEPT ![c] = again]
    BY <1>2, <1>6 DEF IInv, CallsGood
  <2>2. again \in CallType
    <3> DEFINE sum  == call[c].tokens + spent
               next == call[c].requests + 1
    <3>1. sum \in Nat /\ next \in 1 .. MaxRetries + 1
      BY <1>1, <1>3, <1>4 DEF CallType
    <3>2. 1 \in Nat \ {0}
      OBVIOUS
    <3> HIDE DEF sum, next
    <3>3. [call[c] EXCEPT !.requests = next, !.tokens = sum,
                          !.pos = 1, !.errors = {}, !.tried = {}] \in CallType
      BY <1>4, <3>1, <3>2 DEF CallType
    <3> QED
      BY <3>3 DEF sum, next
  <2>3. /\ again.phase = "asking" /\ again.layer = call[c].layer /\ again.pos = 1
        /\ again.entries = call[c].entries /\ again.owed = call[c].owed
    BY <1>1, <1>4 DEF CallType
  <2> HIDE DEF again
  <2>4. GoodCall(again)
    BY <1>1, <2>2, <2>3 DEF GoodCall, Trying
  <2>5. CallsGood' /\ CacheGood'
    BY <1>1, <2>1, <2>4, OneCall, CacheKept DEF IInv
  <2> QED
    BY <1>1, <2>5, RunKeeps
<1> QED
  BY <1>5, <1>6

\* A run that starts over or fails for good.
LEMMA AgainOrFailKeeps ==
  ASSUME IInv, NEW c \in Calls, call[c].phase = "asking", NEW failed \in CallType,
         failed.phase = "asking", failed.layer = call[c].layer,
         failed.entries = call[c].entries, failed.owed = call[c].owed,
         NEW end, ~(Transient(failed.errors) /\ failed.attempt < MaxAttempts) => GoodCall(end),
         AgainOrFail(c, failed, end)
  PROVE  CallsGood' /\ CacheGood'
<1>1. Trying(call[c]) /\ call[c].layer \in Layers
  BY AskingTries
<1>2. CASE Transient(failed.errors) /\ failed.attempt < MaxAttempts
  <2> DEFINE v == Again(failed, failed.attempt + 1)
  <2>1. call' = [call EXCEPT ![c] = v] /\ UNCHANGED resolved
    BY <1>2 DEF AgainOrFail
  <2>2. MaxAttempts \in Nat /\ MaxRetries \in Nat
    BY ModelsAssumption
  <2>3. v \in CallType
    <3> DEFINE next == failed.attempt + 1
    <3>1. next \in 1 .. MaxAttempts
      BY <1>2, <2>2 DEF CallType
    <3>2. 1 \in Nat \ {0} /\ 1 \in 1 .. MaxRetries + 1 /\ 0 \in Nat
      BY <2>2
    <3> HIDE DEF next
    <3>3. Again(failed, next) \in CallType
      BY <3>1, <3>2 DEF CallType, Again
    <3> QED
      BY <3>3 DEF next
  <2>4. /\ v.phase = "asking" /\ v.layer = call[c].layer /\ v.pos = 1
        /\ v.entries = call[c].entries /\ v.owed = call[c].owed
    BY DEF CallType, Again
  <2> HIDE DEF v
  <2>5. GoodCall(v)
    BY <1>1, <2>3, <2>4 DEF GoodCall, Trying
  <2> QED
    BY <2>1, <2>5, OneCall, CacheKept DEF IInv
<1>3. CASE ~(Transient(failed.errors) /\ failed.attempt < MaxAttempts)
  <2>1. Fails(c, end)
    BY <1>3 DEF AgainOrFail
  <2> QED
    BY <1>1, <1>3, <2>1, FailsKeeps
<1> QED
  BY <1>2, <1>3

\* An error the chain does not handle.
LEMMA RaisesKeeps ==
  ASSUME IInv, NEW c \in Calls, NEW error \in {"transient", "permanent"}, Raises(c, error)
  PROVE  IInv'
<1> DEFINE failed == [call[c] EXCEPT !.errors = {error}]
<1>1. /\ call[c].phase = "asking" /\ call[c] \in CallType
      /\ AgainOrFail(c, failed, Done("raised")) /\ UNCHANGED <<world, agents>>
  BY AskingTries DEF Raises, Asking, GoodCall
<1>2. /\ failed \in CallType /\ failed.phase = "asking" /\ failed.layer = call[c].layer
      /\ failed.entries = call[c].entries /\ failed.owed = call[c].owed
  BY <1>1 DEF CallType
<1>3. GoodCall(Done("raised"))
  BY NoCallGood DEF Over
<1> HIDE DEF failed
<1>4. CallsGood' /\ CacheGood'
  BY <1>1, <1>2, <1>3, AgainOrFailKeeps
<1> QED
  BY <1>1, <1>4, RunKeeps

\* An entry that fails: after the last one, all that the call owes has been
\* tried.
LEMMA EntryFailsKeeps ==
  ASSUME IInv, NEW c \in Calls, NEW error \in {"transient", "permanent"}, EntryFails(c, error)
  PROVE  IInv'
<1> DEFINE entry  == call[c].entries[call[c].pos]
           failed == [call[c] EXCEPT !.errors = @ \cup {error}, !.tried = @ \cup {entry}]
           next   == [failed EXCEPT !.pos = @ + 1]
           end    == [failed EXCEPT !.phase = "exhausted"]
<1>1. /\ call[c].phase = "asking" /\ call[c] \in CallType /\ Trying(call[c])
      /\ UNCHANGED <<world, agents>>
      /\ \/ /\ call[c].pos < Len(call[c].entries)
            /\ call' = [call EXCEPT ![c] = next] /\ UNCHANGED resolved
         \/ call[c].pos = Len(call[c].entries) /\ AgainOrFail(c, failed, end)
  BY AskingTries DEF EntryFails, Asking, GoodCall
<1>2. /\ call[c].entries \in Seq(Entries) /\ call[c].pos \in 1 .. Len(call[c].entries)
      /\ call[c].owed \subseteq ToSet(call[c].entries)
      /\ \A i \in 1 .. call[c].pos - 1 : call[c].entries[i] \in call[c].tried
  BY <1>1 DEF Trying, CallType
<1>3. entry \in Entries
  BY <1>2
<1> HIDE DEF entry
<1>4. /\ failed \in CallType /\ failed.phase = "asking" /\ failed.layer = call[c].layer
      /\ failed.entries = call[c].entries /\ failed.owed = call[c].owed
      /\ failed.pos = call[c].pos /\ failed.attempt = call[c].attempt
      /\ failed.tried = call[c].tried \cup {entry}
  BY <1>1, <1>3 DEF CallType
<1> HIDE DEF failed
<1>5. \A i \in 1 .. call[c].pos : call[c].entries[i] \in failed.tried
  BY <1>2, <1>4 DEF entry
<1>6. CASE /\ call[c].pos < Len(call[c].entries)
           /\ call' = [call EXCEPT ![c] = next] /\ UNCHANGED resolved
  <2>1. next \in CallType
    <3>1. \A pos \in Nat \ {0} : [failed EXCEPT !.pos = pos] \in CallType
      BY <1>4 DEF CallType
    <3>2. failed.pos + 1 \in Nat \ {0}
      BY <1>4 DEF CallType
    <3> QED
      BY <3>1, <3>2
  <2>2. /\ next.phase = "asking" /\ next.layer = call[c].layer /\ next.pos = call[c].pos + 1
        /\ next.entries = call[c].entries /\ next.owed = call[c].owed
        /\ next.tried = failed.tried
    BY <1>4 DEF CallType
  <2> HIDE DEF next
  <2>3. Trying(next)
    <3>1. next.pos \in 1 .. Len(next.entries) /\ next.pos - 1 = call[c].pos
      BY <1>2, <1>6, <2>2
    <3> QED
      BY <1>1, <1>5, <2>2, <3>1 DEF Trying
  <2>4. GoodCall(next)
    BY <2>1, <2>2, <2>3 DEF GoodCall
  <2>5. CallsGood' /\ CacheGood'
    BY <1>6, <2>4, OneCall, CacheKept DEF IInv
  <2> QED
    BY <1>1, <2>5, RunKeeps
<1>7. CASE call[c].pos = Len(call[c].entries) /\ AgainOrFail(c, failed, end)
  <2>1. end \in CallType
    BY <1>4 DEF CallType, Over
  <2>2. /\ end.phase = "exhausted" /\ end.owed = call[c].owed /\ end.tried = failed.tried
        /\ end.attempt = failed.attempt /\ end.errors = failed.errors
    BY <1>4 DEF CallType
  <2>3. call[c].owed \subseteq failed.tried
    BY <1>2, <1>5, <1>7 DEF ToSet
  <2>4. failed.attempt \in 1 .. MaxAttempts /\ MaxAttempts \in Nat
    BY <1>4, ModelsAssumption DEF CallType
  <2> HIDE DEF end
  <2>5. ASSUME ~(Transient(failed.errors) /\ failed.attempt < MaxAttempts)
        PROVE  GoodCall(end)
    <3>1. failed.attempt = MaxAttempts \/ "transient" \notin failed.errors
      BY <2>4, <2>5 DEF Transient
    <3> QED
      BY <2>1, <2>2, <2>3, <3>1 DEF GoodCall
  <2>6. CallsGood' /\ CacheGood'
    BY <1>1, <1>4, <1>7, <2>5, AgainOrFailKeeps
  <2> QED
    BY <1>1, <2>6, RunKeeps
<1> QED
  BY <1>1, <1>6, <1>7

\* Changes of the keys and of models.yaml.
LEMMA WorldKeeps ==
  ASSUME IInv,
         \/ \E k \in Keys, value \in Values \cup {None} : SetKey(k, value)
         \/ \E version \in Configs : Reload(version)
  PROVE  IInv'
<1>1. changes < MaxChanges /\ changes' = changes + 1 /\ UNCHANGED <<resolved, agents, call>>
  BY DEF SetKey, Reload
<1>2. config' \in Configs /\ keys' \in KeyMap
  <2>1. CASE \E k \in Keys, value \in Values \cup {None} : SetKey(k, value)
    BY <2>1 DEF SetKey, IInv, WorldTyped, KeyMap
  <2>2. CASE \E version \in Configs : Reload(version)
    BY <2>2 DEF Reload, IInv, WorldTyped
  <2> QED
    BY <2>1, <2>2
<1>3. changes' \in 0 .. MaxChanges
  BY <1>1, ModelsAssumption DEF IInv, WorldTyped
<1>4. CallsGood'
  BY <1>1 DEF IInv, CallsGood, GoodCall, Trying
<1> QED
  BY <1>1, <1>2, <1>3, <1>4, AgentsKept, CacheKept DEF IInv, WorldTyped

---------------------------------------------------------------------------
\* The theorems

\* The invariant holds at first.
THEOREM InitIInv == Init => IInv
<1> SUFFICES ASSUME Init PROVE IInv
  OBVIOUS
<1>1. WorldTyped
  BY ModelsAssumption DEF Init, WorldTyped, KeyMap
<1>2. CacheGood
  <2>1. DOMAIN resolved = {}
    BY DEF Init
  <2>2. IsFiniteSet(DOMAIN resolved) /\ Cardinality(DOMAIN resolved) = 0
    BY <2>1, FS_EmptySet
  <2>3. 0 <= MaxCached
    BY ModelsAssumption
  <2> QED
    BY <2>1, <2>2, <2>3 DEF CacheGood
<1>3. AgentsGood
  <2>1. GoodAgent(NoAgent)
    BY DEF GoodAgent, NoAgent
  <2>2. agents = [l \in {"verifier", "filter"} |-> NoAgent]
    BY DEF Init
  <2>3. \A l \in {"verifier", "filter"} : agents[l] = NoAgent
    BY <2>2
  <2>4. agents = [l \in {"verifier", "filter"} |-> agents[l]]
    BY <2>2
  <2> QED
    BY <2>1, <2>3, <2>4 DEF AgentsGood
<1>4. CallsGood
  <2>1. Done("new") = NoCall
    <3>1. NoCall.phase = "new"
      BY DEF NoCall
    <3>2. NoCall \in CallType
      BY NoCallGood
    <3> QED
      BY <3>1, <3>2 DEF Done, CallType
  <2>2. GoodCall(NoCall)
    BY <2>1, NoCallGood
  <2>3. call = [c \in Calls |-> NoCall]
    BY DEF Init
  <2> QED
    BY <2>2, <2>3 DEF CallsGood
<1> QED
  BY <1>1, <1>2, <1>3, <1>4 DEF IInv

\* Every step keeps the invariant.
THEOREM NextIInv == IInv /\ [Next]_vars => IInv'
<1> SUFFICES ASSUME IInv, [Next]_vars PROVE IInv'
  OBVIOUS
<1>1. ASSUME NEW c \in Calls, Begin(c) PROVE IInv'
  BY <1>1, ReuseKeeps, BuildKeeps DEF Begin
<1>2. ASSUME NEW c \in Calls, Proceed(c) PROVE IInv'
  <2>1. CASE Unkeyed(c)
    BY <2>1, UnkeyedKeeps
  <2>2. CASE \E spent \in 1 .. MaxTokens :
               \/ Overspends(c, spent) \/ Answered(c, spent)
               \/ Malformed(c, spent) \/ NeverValid(c, spent)
    BY <2>2, OverspendsKeeps, AnsweredKeeps, MalformedKeeps, NeverValidKeeps
  <2>3. CASE \E error \in {"transient", "permanent"} : EntryFails(c, error) \/ Raises(c, error)
    BY <2>3, EntryFailsKeeps, RaisesKeeps
  <2> QED
    BY <1>2, <2>1, <2>2, <2>3 DEF Proceed
<1>3. CASE UNCHANGED vars
  BY <1>3, RunKeeps, CacheKept DEF vars, world, IInv, CallsGood, GoodCall, Trying
<1> QED
  BY <1>1, <1>2, <1>3, WorldKeeps DEF Next

\* IInv is an invariant of the specification.
THEOREM Inductive == Spec => []IInv
BY InitIInv, NextIInv, PTL DEF Spec

\* The invariant implies that the cache misses no google key and no listed provider.
LEMMA IInvCache == IInv => CacheInv
<1> SUFFICES ASSUME IInv PROVE CacheInv
  OBVIOUS
<1>1. TypeOK
  BY DEF IInv, WorldTyped, CacheGood, GoodResolution, AgentsGood, GoodAgent, CallsGood,
         GoodCall, TypeOK, KeyMap
<1>2. CacheTransparent
  <2>1. SUFFICES ASSUME NEW k \in DOMAIN resolved, k = CacheKey(keys, k[1], k[2]),
                        resolved[k].config = config
                 PROVE  LET r == resolved[k]
                        IN /\ r.entries = EntriesFor(config, keys, k[1], k[2])
                           /\ \A i \in DOMAIN r.entries :
                                (Len(r.entries) > 1 /\ Provider[r.entries[i].model] = "google")
                                  => KeyOf(r.keys, r.entries[i]) \in ToSet(GoogleKeys(keys))
    BY DEF CacheTransparent
  <2> DEFINE r == resolved[k]
  <2>2. GoodResolution(k, r)
    BY DEF IInv, CacheGood
  <2> HIDE DEF r
  <2>3. /\ r.config \in Configs /\ r.keys \in KeyMap /\ r.entries # <<>>
        /\ k[1] \in Layers /\ k[2] \in Names \cup {None}
        /\ CacheKey(r.keys, k[1], k[2]) = CacheKey(keys, k[1], k[2])
        /\ r.entries = Resolve(r.config, r.keys, k[1], k[2])
    BY <2>1, <2>2 DEF GoodResolution
  <2>4. r.entries = EntriesFor(r.config, r.keys, k[1], k[2])
    BY <2>3, Resolved
  <2>5. EntriesFor(r.config, r.keys, k[1], k[2]) = EntriesFor(r.config, keys, k[1], k[2])
    BY <2>3, KeyDetermines
  <2>6. GoogleKeys(r.keys) = GoogleKeys(keys)
    BY <2>3 DEF CacheKey
  <2>7. \A i \in DOMAIN r.entries :
          (Len(r.entries) > 1 /\ Provider[r.entries[i].model] = "google")
            => KeyOf(r.keys, r.entries[i]) \in ToSet(GoogleKeys(r.keys))
    BY <2>3, BuiltWithGoogle
  <2> QED
    BY <2>1, <2>4, <2>5, <2>6, <2>7 DEF r
<1> QED
  BY <1>1, <1>2 DEF CacheInv

\* As long as models.yaml stays the same, what the cache of model_for_layer
\* returns are the models and google keys that a resolution with the keys of
\* the moment would list, and it stays within its limit.
THEOREM CacheIsTransparent == Spec => []CacheInv
BY Inductive, IInvCache, PTL

\* A call fails for its models only after every model it names with every key
\* it may use has failed it, with no attempt left or nothing transient about
\* it.
THEOREM NothingIsLeftUntried == Spec => []NoEntryUntried
<1>1. IInv => NoEntryUntried
  BY DEF IInv, CallsGood, GoodCall, NoEntryUntried
<1> QED
  BY <1>1, Inductive, PTL

\* The verifier's retries are never cut short by its request limit.
THEOREM OnlyTokensCap == Spec => []CappedByTokensOnly
<1>1. IInv => CappedByTokensOnly
  BY DEF IInv, CallsGood, GoodCall, CappedByTokensOnly
<1> QED
  BY <1>1, Inductive, PTL

\* An agent that cannot be built although its layer names a model: one of its
\* models stops it.
LEMMA BuildCrashes ==
  ASSUME IInv, NEW c \in Calls, NEW layer \in Layers, AgentFor(c, layer).entries = <<>>,
         Named(config, layer, Override[c][layer]) # None
  PROVE  \E m : Stops(config, keys, layer, Override[c][layer], m)
<1> DEFINE override == Override[c][layer]
           model    == ModelFor(layer, override)
<1>1. override \in Names \cup {None}
  BY ChoiceTyped
<1>2. model.entries = <<>>
  BY DEF AgentFor
<1>3. config \in Configs /\ keys \in KeyMap /\ WorldTyped /\ CacheGood
  BY DEF IInv, WorldTyped
<1>4. Named(config, layer, override) # None
  OBVIOUS
<1> HIDE DEF override
<1>5. model.entries = <<>> => Resolve(config, keys, layer, override) = <<>>
  BY <1>1, <1>3, ModelForGood
<1> HIDE DEF model
<1>6. \E m : Stops(config, keys, layer, override, m)
  BY <1>1, <1>2, <1>3, <1>4, <1>5, CrashesByOne
<1> QED
  BY <1>6 DEF override

\* A call becomes crashed only where nothing was built for it.
LEMMA CrashesInBuild ==
  ASSUME IInv, Next, NEW c \in Calls, call[c].phase = "new", call'[c].phase = "crashed"
  PROVE  \E m : Stops(config, keys, call'[c].layer, Override[c][call'[c].layer], m)
<1>1. call = [d \in Calls |-> call[d]]
  BY DEF IInv, CallsGood
<1>2. PICK d \in Calls : Begin(d) \/ Proceed(d)
  BY DEF Next, SetKey, Reload
<1>3. ASSUME NEW v, call' = [call EXCEPT ![d] = v]
      PROVE  d = c /\ v.phase = "crashed" /\ call'[c] = v
  BY <1>1, <1>3
<1>4. CASE Proceed(d)
  <2>1. call[d].phase = "asking"
    BY <1>4 DEF Proceed, Unkeyed, Overspends, Answered, Malformed, NeverValid, EntryFails,
                Raises, Asking
  <2>2. c # d
    BY <2>1
  <2>3. call'[c] = call[c]
    BY <1>1, <1>4, <2>2 DEF Proceed, Unkeyed, Overspends, Answered, Malformed, NeverValid,
                            EntryFails, Raises, AgainOrFail, Fails
  <2> QED
    BY <2>3
<1>5. ASSUME NEW layer \in Layers, NEW agent, Begun(d, layer, agent)
      PROVE  FALSE
  <2> DEFINE v == [NoCall EXCEPT !.phase = "asking", !.layer = layer,
                                 !.entries = agent.entries, !.owed = agent.owed]
  <2>1. call' = [call EXCEPT ![d] = v] /\ v.phase = "asking"
    BY <1>5 DEF Begun, NoCall
  <2> HIDE DEF v
  <2> QED
    BY <1>3, <2>1
<1>6. ASSUME NEW layer \in Layers, Build(d, layer)
      PROVE  \E m : Stops(config, keys, call'[c].layer, Override[c][call'[c].layer], m)
  <2> DEFINE agent    == AgentFor(d, layer)
             override == Override[d][layer]
             phase    == IF agent.entries = <<>> /\ Named(config, layer, override) # None
                         THEN "crashed" ELSE "misconfigured"
             v        == [Done(phase) EXCEPT !.layer = layer]
  <2>1. Begun(d, layer, agent) \/ call' = [call EXCEPT ![d] = v]
    BY <1>6 DEF Build, AgentFor
  <2>2. call' = [call EXCEPT ![d] = v]
    <3> HIDE DEF agent, v
    <3> QED
      BY <1>5, <2>1
  <2>3. v.phase = phase /\ v.layer = layer
    BY DEF Done, NoCall
  <2>4. d = c /\ v.phase = "crashed" /\ call'[c] = v
    <3> HIDE DEF v
    <3> QED
      BY <1>3, <2>2
  <2>5. agent.entries = <<>> /\ Named(config, layer, override) # None
    BY <2>3, <2>4
  <2>6. call'[c].layer = layer
    BY <2>3, <2>4
  <2> HIDE DEF v, phase
  <2>7. \E m : Stops(config, keys, layer, Override[d][layer], m)
    BY <2>5, BuildCrashes
  <2> QED
    BY <2>4, <2>6, <2>7
<1> QED
  BY <1>2, <1>4, <1>5, <1>6 DEF Begin, Reuse

\* Entries without a key never stop an agent from being built, but for google
\* models when the only google key is a numbered one, and for models of
\* providers without a known key variable.
THEOREM BuildsOnceKeyed == Spec => BuildsWhenKeyed
<1> DEFINE Step ==
      \A c \in Calls : (call[c].phase = "new" /\ call'[c].phase = "crashed") =>
        LET layer  == call'[c].layer
            models == {Named(config, layer, Override[c][layer])} \cup ToSet(config.fallbacks[layer])
        IN \E m \in models :
             /\ ~IsSet(keys, OwnKey(m))
             /\ Provider[m] \in Others \/ (Provider[m] = "google" /\ Len(GoogleKeys(keys)) = 1)
<1>1. IInv /\ [Next]_vars => [Step]_vars
  BY CrashesInBuild DEF Stops
<1> HIDE DEF Step
<1>2. Spec => [][Step]_vars
  BY <1>1, Inductive, PTL DEF Spec
<1> QED
  BY <1>2 DEF Step, BuildsWhenKeyed
====
