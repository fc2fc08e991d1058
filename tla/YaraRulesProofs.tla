-------------------------- MODULE YaraRulesProofs --------------------------
(***************************************************************************)
(* Proofs about YaraRules, for any scans, files and number of edits. A     *)
(* scan that takes cached rules trusts two things it never compares with   *)
(* the directory: that what is cached was read no earlier than the times   *)
(* it is kept under, and that nobody is half way through changing it. The  *)
(* inductive invariant says so, and that versions only move forward:       *)
(*   what a scan saw first <= what it signed <= what it compiled.          *)
(***************************************************************************)
EXTENDS YaraRules, TLAPS

\* No version anyone remembers is newer than the last edit, or newer than what
\* the directory still has of that file.
Behind(version) == \A f \in Files :
  version[f] <= edits /\ (disk[f] = 0 \/ version[f] <= disk[f])

Past ==
  /\ \A f \in Files : disk[f] <= edits
  /\ \A s \in Scans : Behind(began[s]) /\ Behind(signature[s])

\* What scan s has signed and compiled so far.
Ordered(s) ==
  /\ \A f \in Files : f \in listed[s] <=> began[s][f] # 0
  /\ \A f \in Files : signature[s][f] # 0 => f \in listed[s] /\ began[s][f] <= signature[s][f]
  /\ scan[s] = "stat" => \A f \in Files : rules[s][f] = 0
  /\ scan[s] \in {"locked", "kept"} =>
       /\ \A f \in listed[s] : signature[s][f] # 0
       /\ \A f \in Files : rules[s][f] # 0 =>
            f \in listed[s] /\ signature[s][f] <= rules[s][f]
  /\ scan[s] = "kept" =>
       /\ compiled.rules = rules[s]
       /\ \A f \in listed[s] : rules[s][f] # 0

\* What is cached was read no earlier than its signature.
Honest ==
  (compiled.rules # Blank /\ \A s \in Scans : scan[s] # "kept") =>
    \A f \in Files :
      /\ compiled.signature[f] <= compiled.rules[f]
      /\ compiled.signature[f] = 0 => compiled.rules[f] = 0

IInv == TypeOK /\ Past /\ (\A s \in Scans : Ordered(s)) /\ Honest /\ RulesFresh

---------------------------------------------------------------------------

\* Versions are natural numbers, and the blank rules are rules.
LEMMA VersionsAreNat == Versions \subseteq Nat /\ 0 \in Versions /\ 1 \in Versions /\ Blank \in RulesOf
  BY YaraAssumption DEF Versions, Blank, RulesOf

\* So is every version a scan or the cache remembers.
LEMMA NaturalVersions ==
  ASSUME TypeOK
  PROVE  \A s \in Scans, f \in Files :
           rules[s][f] \in Nat /\ signature[s][f] \in Nat /\ began[s][f] \in Nat
           /\ compiled.rules[f] \in Nat /\ compiled.signature[f] \in Nat
<1>1. \A s \in Scans : rules[s] \in RulesOf /\ signature[s] \in RulesOf /\ began[s] \in RulesOf
  BY DEF TypeOK
<1>2. compiled.rules \in RulesOf /\ compiled.signature \in RulesOf
  BY DEF TypeOK
<1>3. \A v \in RulesOf, f \in Files : v[f] \in Nat
  BY VersionsAreNat DEF RulesOf
<1> QED
  BY <1>1, <1>2, <1>3

\* The invariant holds where the program starts.
LEMMA InitIInv == Init => IInv
<1> SUFFICES ASSUME Init PROVE IInv OBVIOUS
<1> USE VersionsAreNat, YaraAssumption
<1>1. TypeOK
  <2>1. disk \in RulesOf BY DEF Init, RulesOf
  <2>2. edits \in Versions BY DEF Init
  <2>3. compiled \in [rules : RulesOf, signature : RulesOf] BY DEF Init, Absent
  <2> QED BY <2>1, <2>2, <2>3 DEF Init, TypeOK
<1>2. Past BY DEF Init, Past, Behind, Blank
<1>3. \A s \in Scans : Ordered(s) BY DEF Init, Ordered, Blank
<1>4. Honest BY DEF Init, Honest, Absent
<1>5. RulesFresh BY DEF Init, RulesFresh
<1> QED BY <1>1, <1>2, <1>3, <1>4, <1>5 DEF IInv

---------------------------------------------------------------------------
\* Every step keeps the types.
LEMMA TypeStep == TypeOK /\ [Next]_vars => TypeOK'
<1> SUFFICES ASSUME TypeOK, [Next]_vars PROVE TypeOK'
  OBVIOUS
<1> USE VersionsAreNat, YaraAssumption
<1>1. ASSUME NEW f \in Files, Edit(f) PROVE TypeOK'
  <2>1. edits' \in Versions
    BY <1>1 DEF Edit, TypeOK, Versions
  <2>2. disk' \in RulesOf
    BY <1>1, <2>1 DEF Edit, TypeOK, RulesOf
  <2> QED
    BY <1>1, <2>1, <2>2 DEF Edit, TypeOK
<1>2. ASSUME NEW s \in Scans, List(s) PROVE TypeOK'
  BY <1>2 DEF List, TypeOK
<1>3. ASSUME NEW s \in Scans, Stat(s) PROVE TypeOK'
  BY <1>3 DEF Stat, TypeOK, RulesOf
<1>4. ASSUME NEW s \in Scans, Acquire(s) PROVE TypeOK'
  BY <1>4 DEF Acquire, Free, TypeOK
<1>5. ASSUME NEW s \in Scans, TakeCached(s) PROVE TypeOK'
  BY <1>5 DEF TakeCached, TypeOK
<1>6. ASSUME NEW s \in Scans, CompileFile(s) PROVE TypeOK'
  BY <1>6 DEF CompileFile, TypeOK, RulesOf
<1>7. ASSUME NEW s \in Scans, KeepRules(s) PROVE TypeOK'
  BY <1>7 DEF KeepRules, TypeOK
<1>8. ASSUME NEW s \in Scans, KeepSignature(s) PROVE TypeOK'
  BY <1>8 DEF KeepSignature, Kept, TypeOK
<1>9. ASSUME NEW s \in Scans, CompileFails(s) PROVE TypeOK'
  BY <1>9 DEF CompileFails, TypeOK
<1>10. ASSUME NEW s \in Scans, Match(s) PROVE TypeOK'
  BY <1>10 DEF Match, TypeOK
<1>11. ASSUME NEW s \in Scans, Again(s) PROVE TypeOK'
  BY <1>11 DEF Again, TypeOK
<1>12. CASE UNCHANGED vars
  BY <1>12 DEF vars, TypeOK
<1> QED
  BY <1>1, <1>2, <1>3, <1>4, <1>5, <1>6, <1>7, <1>8, <1>9, <1>10, <1>11, <1>12 DEF Next, Work

\* The versions scans remember stay behind the directory: an edit writes a
\* version newer than all of them, and a scan remembers what it reads.
LEMMA PastStep == TypeOK /\ Past /\ [Next]_vars => Past'
<1> SUFFICES ASSUME TypeOK, Past, [Next]_vars PROVE Past'
  OBVIOUS
<1> USE VersionsAreNat, YaraAssumption
<1>1. ASSUME NEW f \in Files, Edit(f) PROVE Past'
  <2>1. edits \in Nat /\ edits' = edits + 1
    BY <1>1 DEF Edit, TypeOK
  <2>2. \A g \in Files : disk[g] \in Nat /\ disk[g] <= edits /\ disk'[g] \in {disk[g], 0, edits + 1}
    BY <1>1 DEF Edit, TypeOK, RulesOf, Past
  <2>3. \A g \in Files : disk'[g] <= edits'
    BY <2>1, <2>2
  <2>4. ASSUME NEW version \in RulesOf, Behind(version)
        PROVE  Behind(version)'
    <3>1. \A g \in Files : version[g] \in Nat
      BY DEF RulesOf
    <3> QED
      BY <2>1, <2>2, <2>4, <3>1 DEF Behind
  <2>5. \A s \in Scans : Behind(began[s])' /\ Behind(signature[s])'
    BY <1>1, <2>4 DEF Edit, TypeOK, Past, Behind
  <2> QED
    BY <2>3, <2>5 DEF Past
<1>2. ASSUME NEW s \in Scans, List(s) PROVE Past'
  <2>1. disk' = disk /\ edits' = edits
    BY <1>2 DEF List
  <2>2. \A r \in Scans : began'[r] \in {began[r], disk} /\ signature'[r] \in {signature[r], Blank}
    BY <1>2 DEF List, TypeOK
  <2>3. Behind(disk) /\ Behind(Blank)
    <3>1. edits \in Nat /\ \A f \in Files : disk[f] \in Nat
      BY DEF TypeOK, RulesOf
    <3>2. \A f \in Files : disk[f] <= edits /\ Blank[f] = 0
      BY DEF Past, Blank
    <3> QED
      BY <3>1, <3>2 DEF Behind
  <2>4. \A r \in Scans : Behind(began'[r]) /\ Behind(signature'[r])
    BY <2>2, <2>3 DEF Past
  <2> QED
    BY <2>1, <2>4 DEF Past, Behind
<1>3. ASSUME NEW s \in Scans, Stat(s) PROVE Past'
  <2>1. disk' = disk /\ edits' = edits /\ began' = began
    BY <1>3 DEF Stat
  <2>2. \A r \in Scans, g \in Files : signature'[r][g] \in {signature[r][g], disk[g]}
    BY <1>3 DEF Stat, TypeOK, RulesOf
  <2>3. \A g \in Files : disk[g] \in Nat
    BY DEF TypeOK, RulesOf
  <2> QED
    BY <2>1, <2>2, <2>3 DEF Past, Behind
<1>4. CASE UNCHANGED <<disk, edits, signature, began>>
  BY <1>4 DEF Past, Behind
<1>5. ASSUME NEW s \in Scans,
             \/ Acquire(s) \/ TakeCached(s) \/ CompileFile(s) \/ KeepRules(s)
             \/ KeepSignature(s) \/ CompileFails(s) \/ Match(s) \/ Again(s)
      PROVE  Past'
  BY <1>4, <1>5
  DEF Acquire, TakeCached, CompileFile, KeepRules, KeepSignature, CompileFails, Match, Again
<1>6. CASE UNCHANGED vars
  BY <1>4, <1>6 DEF vars
<1> QED
  BY <1>1, <1>2, <1>3, <1>5, <1>6 DEF Next, Work

---------------------------------------------------------------------------
\* The scans that take no part in a step keep their place in the order: only
\* the holder of the lock changes what a "kept" scan relies on.
LEMMA OthersOrdered ==
  ASSUME TypeOK, NEW s \in Scans, NEW r \in Scans, r # s, Ordered(r),
         scan'[r] = scan[r], listed'[r] = listed[r], signature'[r] = signature[r],
         rules'[r] = rules[r], began'[r] = began[r],
         compiled'.rules = compiled.rules \/ lock = s
  PROVE  Ordered(r)'
<1>1. scan[r] = "kept" => compiled'.rules = compiled.rules
  BY DEF TypeOK
<1> QED
  BY <1>1 DEF Ordered

\* Every step keeps what each scan signed and compiled in order.
LEMMA OrderedStep ==
  TypeOK /\ Past /\ Honest /\ (\A s \in Scans : Ordered(s)) /\ [Next]_vars
    => \A s \in Scans : Ordered(s)'
<1> SUFFICES ASSUME TypeOK, Past, Honest, \A s \in Scans : Ordered(s), [Next]_vars
             PROVE  \A s \in Scans : Ordered(s)'
  OBVIOUS
<1> USE VersionsAreNat, YaraAssumption
<1>1. ASSUME NEW f \in Files, Edit(f) PROVE \A s \in Scans : Ordered(s)'
  BY <1>1 DEF Edit, Ordered
<1>2. ASSUME NEW s \in Scans, List(s) PROVE \A r \in Scans : Ordered(r)'
  <2>1. Ordered(s)'
    BY <1>2 DEF List, Ordered, TypeOK, RulesOf, Blank
  <2>2. ASSUME NEW r \in Scans, r # s PROVE Ordered(r)'
    BY <1>2, <2>2, OthersOrdered DEF List, TypeOK
  <2> QED
    BY <2>1, <2>2
<1>3. ASSUME NEW s \in Scans, Stat(s) PROVE \A r \in Scans : Ordered(r)'
  <2>1. PICK f \in listed[s] :
          /\ signature' = [signature EXCEPT ![s][f] = disk[f]]
          /\ scan' = [scan EXCEPT ![s] = IF disk[f] = 0 THEN "ended" ELSE "stat"]
    BY <1>3 DEF Stat
  <2>2. f \in Files
    BY DEF TypeOK
  <2>3. disk[f] # 0 => began[s][f] <= disk[f]
    BY <2>2 DEF Past, Behind
  <2>4. Ordered(s)'
    BY <1>3, <2>1, <2>2, <2>3 DEF Stat, Ordered, TypeOK, RulesOf
  <2>5. ASSUME NEW r \in Scans, r # s PROVE Ordered(r)'
    BY <1>3, <2>1, <2>5, OthersOrdered DEF Stat, TypeOK
  <2> QED
    BY <2>4, <2>5
<1>4. ASSUME NEW s \in Scans, Acquire(s) PROVE \A r \in Scans : Ordered(r)'
  <2>1. Ordered(s)'
    BY <1>4 DEF Acquire, Signed, Ordered, TypeOK
  <2>2. ASSUME NEW r \in Scans, r # s PROVE Ordered(r)'
    BY <1>4, <2>2, OthersOrdered DEF Acquire, TypeOK
  <2> QED
    BY <2>1, <2>2
<1>5. ASSUME NEW s \in Scans, TakeCached(s) PROVE \A r \in Scans : Ordered(r)'
  <2>1. Ordered(s)'
    BY <1>5 DEF TakeCached, Ordered, TypeOK
  <2>2. ASSUME NEW r \in Scans, r # s PROVE Ordered(r)'
    BY <1>5, <2>2, OthersOrdered DEF TakeCached, TypeOK
  <2> QED
    BY <2>1, <2>2
<1>6. ASSUME NEW s \in Scans, CompileFile(s) PROVE \A r \in Scans : Ordered(r)'
  <2>1. PICK f \in listed[s] :
          disk[f] # 0 /\ rules' = [rules EXCEPT ![s][f] = disk[f]]
    BY <1>6 DEF CompileFile
  <2>2. f \in Files
    BY DEF TypeOK
  <2>3. signature[s][f] <= disk[f]
    BY <2>1, <2>2 DEF Past, Behind
  <2>4. Ordered(s)'
    BY <1>6, <2>1, <2>2, <2>3 DEF CompileFile, Ordered, TypeOK, RulesOf
  <2>5. ASSUME NEW r \in Scans, r # s PROVE Ordered(r)'
    BY <1>6, <2>1, <2>5, OthersOrdered DEF CompileFile, TypeOK
  <2> QED
    BY <2>4, <2>5
<1>7. ASSUME NEW s \in Scans, KeepRules(s) PROVE \A r \in Scans : Ordered(r)'
  <2>1. Ordered(s)'
    BY <1>7 DEF KeepRules, Ordered, TypeOK
  <2>2. ASSUME NEW r \in Scans, r # s PROVE Ordered(r)'
    BY <1>7, <2>2, OthersOrdered DEF KeepRules, TypeOK
  <2> QED
    BY <2>1, <2>2
<1>8. ASSUME NEW s \in Scans, KeepSignature(s) PROVE \A r \in Scans : Ordered(r)'
  <2>1. Ordered(s)'
    BY <1>8 DEF KeepSignature, Ordered, TypeOK
  <2>2. ASSUME NEW r \in Scans, r # s PROVE Ordered(r)'
    BY <1>8, <2>2, OthersOrdered DEF KeepSignature, TypeOK
  <2> QED
    BY <2>1, <2>2
<1>9. ASSUME NEW s \in Scans, CompileFails(s) \/ Match(s) \/ Again(s)
      PROVE  \A r \in Scans : Ordered(r)'
  <2>1. Ordered(s)'
    BY <1>9 DEF CompileFails, Match, Again, Ordered, TypeOK
  <2>2. ASSUME NEW r \in Scans, r # s PROVE Ordered(r)'
    BY <1>9, <2>2, OthersOrdered DEF CompileFails, Match, Again, TypeOK
  <2> QED
    BY <2>1, <2>2
<1>10. CASE UNCHANGED vars
  BY <1>10 DEF vars, Ordered
<1> QED
  BY <1>1, <1>2, <1>3, <1>4, <1>5, <1>6, <1>7, <1>8, <1>9, <1>10 DEF Next, Work

---------------------------------------------------------------------------
\* Only the holder of the lock changes the cache, and leaves it honest.
LEMMA HonestStep ==
  TypeOK /\ Honest /\ (\A s \in Scans : Ordered(s)) /\ [Next]_vars => Honest'
<1> SUFFICES ASSUME TypeOK, Honest, \A s \in Scans : Ordered(s), [Next]_vars
             PROVE  Honest'
  OBVIOUS
<1> USE VersionsAreNat
<1>1. ASSUME compiled' = compiled,
             \A s \in Scans : scan[s] = "kept" => scan'[s] = "kept"
      PROVE  Honest'
  BY <1>1 DEF Honest
<1>2. ASSUME NEW s \in Scans, KeepRules(s) PROVE Honest'
  <2>1. scan'[s] = "kept"
    BY <1>2 DEF KeepRules, TypeOK
  <2> QED
    BY <2>1 DEF Honest
<1>3. ASSUME NEW s \in Scans, KeepSignature(s) PROVE Honest'
  <2>1. compiled'.rules = rules[s] /\ compiled'.signature = signature[s]
    BY <1>3 DEF KeepSignature, Kept, Ordered, TypeOK
  <2>2. \A f \in Files : rules[s][f] \in Nat /\ signature[s][f] \in Nat
    BY NaturalVersions
  <2>3. \A f \in Files :
          /\ signature[s][f] <= rules[s][f]
          /\ signature[s][f] = 0 => rules[s][f] = 0
    BY <1>3, <2>2 DEF KeepSignature, Ordered
  <2> QED
    BY <2>1, <2>3 DEF Honest
<1>4. ASSUME NEW f \in Files, Edit(f) PROVE Honest'
  BY <1>1, <1>4 DEF Edit
<1>5. ASSUME NEW s \in Scans, List(s) PROVE Honest'
  BY <1>1, <1>5 DEF List, TypeOK
<1>6. ASSUME NEW s \in Scans, Stat(s) PROVE Honest'
  BY <1>1, <1>6 DEF Stat, TypeOK
<1>7. ASSUME NEW s \in Scans,
             Acquire(s) \/ TakeCached(s) \/ CompileFile(s) \/ CompileFails(s) \/ Match(s) \/ Again(s)
      PROVE  Honest'
  BY <1>1, <1>7 DEF Acquire, TakeCached, CompileFile, CompileFails, Match, Again, TypeOK
<1>8. CASE UNCHANGED vars
  BY <1>1, <1>8 DEF vars
<1> QED
  BY <1>2, <1>3, <1>4, <1>5, <1>6, <1>7, <1>8 DEF Next, Work

\* A scan gets to match with rules it compiled, or with honest ones.
LEMMA FreshStep ==
  IInv /\ [Next]_vars => RulesFresh'
<1> SUFFICES ASSUME IInv, [Next]_vars PROVE RulesFresh'
  OBVIOUS
<1> USE VersionsAreNat DEF IInv
<1>1. ASSUME NEW s \in Scans,
             \A r \in Scans : r # s => scan'[r] = scan[r] /\ rules'[r] = rules[r] /\ began'[r] = began[r],
             scan'[s] = "match" => \A f \in Files :
               rules'[s][f] >= began'[s][f] /\ (began'[s][f] = 0 => rules'[s][f] = 0)
      PROVE  RulesFresh'
  BY <1>1 DEF RulesFresh
<1>2. \A s \in Scans, f \in Files :
        rules[s][f] \in Nat /\ signature[s][f] \in Nat /\ began[s][f] \in Nat
        /\ compiled.rules[f] \in Nat /\ compiled.signature[f] \in Nat
  BY NaturalVersions
<1>3. ASSUME NEW s \in Scans, TakeCached(s) PROVE RulesFresh'
  <2>1. \A r \in Scans : scan[r] # "kept"
    BY <1>3 DEF TakeCached, TypeOK
  <2>2. \A f \in Files :
          /\ signature[s][f] <= compiled.rules[f]
          /\ signature[s][f] = 0 => compiled.rules[f] = 0
    BY <1>3, <2>1 DEF TakeCached, Cached, Honest
  <2>3. \A f \in Files :
          /\ began[s][f] # 0 => signature[s][f] # 0
          /\ signature[s][f] # 0 => began[s][f] # 0 /\ began[s][f] <= signature[s][f]
    BY <1>3 DEF TakeCached, Ordered
  <2>4. \A f \in Files :
          compiled.rules[f] >= began[s][f] /\ (began[s][f] = 0 => compiled.rules[f] = 0)
    BY <1>2, <2>2, <2>3
  <2>5. rules'[s] = compiled.rules /\ began' = began
    BY <1>3 DEF TakeCached, TypeOK
  <2>6. \A r \in Scans : r # s => scan'[r] = scan[r] /\ rules'[r] = rules[r]
    BY <1>3 DEF TakeCached, TypeOK
  <2> QED
    BY <1>1, <2>4, <2>5, <2>6
<1>4. ASSUME NEW s \in Scans, KeepSignature(s) PROVE RulesFresh'
  <2>1. \A f \in Files :
          rules[s][f] >= began[s][f] /\ (began[s][f] = 0 => rules[s][f] = 0)
    BY <1>2, <1>4 DEF KeepSignature, Ordered
  <2> QED
    BY <1>1, <1>4, <2>1 DEF KeepSignature, TypeOK
<1>5. ASSUME NEW f \in Files, Edit(f) PROVE RulesFresh'
  BY <1>5 DEF Edit, RulesFresh
<1>6. ASSUME NEW s \in Scans, List(s) PROVE RulesFresh'
  BY <1>1, <1>6 DEF List, TypeOK
<1>7. ASSUME NEW s \in Scans, Stat(s) PROVE RulesFresh'
  BY <1>1, <1>7 DEF Stat, TypeOK
<1>8. ASSUME NEW s \in Scans, Acquire(s) \/ CompileFails(s) \/ Match(s) \/ Again(s)
      PROVE  RulesFresh'
  BY <1>1, <1>8 DEF Acquire, CompileFails, Match, Again, TypeOK
<1>9. ASSUME NEW s \in Scans, CompileFile(s) PROVE RulesFresh'
  BY <1>1, <1>9 DEF CompileFile, TypeOK
<1>10. ASSUME NEW s \in Scans, KeepRules(s) PROVE RulesFresh'
  BY <1>1, <1>10 DEF KeepRules, TypeOK
<1>11. CASE UNCHANGED vars
  BY <1>11 DEF vars, RulesFresh
<1> QED
  BY <1>3, <1>4, <1>5, <1>6, <1>7, <1>8, <1>9, <1>10, <1>11 DEF Next, Work

---------------------------------------------------------------------------
\* The invariant is inductive.
LEMMA Inductive == IInv /\ [Next]_vars => IInv'
  BY TypeStep, PastStep, OrderedStep, HonestStep, FreshStep DEF IInv

LEMMA Invariance == Spec => []IInv
  BY InitIInv, Inductive, PTL DEF Spec

\* Types, and mutual exclusion on _compile_lock (YaraScanner._load_rules).
THEOREM TypeCorrect == Spec => []TypeOK
<1>1. IInv => TypeOK
  BY DEF IInv
<1> QED
  BY <1>1, Invariance, PTL

\* Whatever is edited while any number of threads share the cache, no payload
\* is matched against rules older than the directory its scan found, and no
\* two threads hold _compile_lock (YaraScanner._load_rules, _scan_sync).
THEOREM NeverStale == Spec => []RulesInv
<1>1. IInv => RulesInv
  BY DEF IInv, RulesInv
<1> QED
  BY <1>1, Invariance, PTL
=============================================================================
