--------------------------- MODULE RegistryProofs ---------------------------
(***************************************************************************)
(* Theorems about Registry: whatever modules raise, whenever they are      *)
(* repaired and whichever turns discover, nothing that was declared is     *)
(* silently missing, the first valid declaration of a slot is the one that *)
(* counts, and no turn works with a part of the capabilities.              *)
(***************************************************************************)
EXTENDS Registry, FiniteSetTheorems, TLAPS

\* What the constants are, in the forms the steps below use.
LEMMA Shapes ==
  /\ Len(Walk) \in Nat /\ DOMAIN Walk = 1 .. Len(Walk)
  /\ \A k \in DOMAIN Walk : Walk[k] \in Modules
  /\ \A m \in Modules : Len(Body[m]) \in Nat /\ DOMAIN Body[m] = 1 .. Len(Body[m])
  /\ \A m \in Modules : \A i \in DOMAIN Body[m] :
       /\ <<m, i>> \in Decls
       /\ SlotOf(<<m, i>>) = Body[m][i].slot /\ SlotOf(<<m, i>>) \in Slots
       /\ FormOf(<<m, i>>) = Body[m][i].form
<1>1. Walk \in Seq(Modules)
  BY RegistryAssumption
<1>2. ASSUME NEW m \in Modules
      PROVE  Body[m] \in Seq([slot : Slots, form : {"valid", "rejected", "disabled"}])
  BY RegistryAssumption
<1>3. Len(Walk) \in Nat /\ DOMAIN Walk = 1 .. Len(Walk)
  BY <1>1
<1>4. \A k \in DOMAIN Walk : Walk[k] \in Modules
  BY DEF Modules
<1>5. ASSUME NEW m \in Modules
      PROVE  Len(Body[m]) \in Nat /\ DOMAIN Body[m] = 1 .. Len(Body[m])
  BY <1>2
<1>6. ASSUME NEW m \in Modules, NEW i \in DOMAIN Body[m]
      PROVE  /\ <<m, i>> \in Decls
             /\ SlotOf(<<m, i>>) = Body[m][i].slot /\ SlotOf(<<m, i>>) \in Slots
             /\ FormOf(<<m, i>>) = Body[m][i].form
  <2> DEFINE R == [slot : Slots, form : {"valid", "rejected", "disabled"}]
  <2>0. Body[m] \in Seq(R) /\ i \in 1 .. Len(Body[m])
    BY <1>2, <1>5
  <2>1. Body[m][i] \in R
    <3> HIDE DEF R
    <3> QED
      BY <2>0
  <2>2. <<m, i>> \in Decls
    BY DEF Decls
  <2> QED
    BY <2>1, <2>2 DEF SlotOf, FormOf
<1> QED
  BY <1>3, <1>4, <1>5, <1>6

\* A declaration is a module and a place in its body.
LEMMA DeclShape ==
  ASSUME NEW d \in Decls
  PROVE  /\ d[1] \in Modules /\ d[2] \in DOMAIN Body[d[1]]
         /\ d = <<d[1], d[2]>> /\ SlotOf(d) \in Slots
<1>1. PICK m \in Modules : d \in {<<m, i>> : i \in DOMAIN Body[m]}
  BY DEF Decls
<1>2. PICK i \in DOMAIN Body[m] : d = <<m, i>>
  BY <1>1
<1> QED
  BY <1>1, <1>2, Shapes

---------------------------------------------------------------------------
\* Types

Failed == {t \in Turns : turn[t] = "failed"}

\* Every load that raised failed a turn of its own.
Counted == \A m \in Modules : failed[m] <= Cardinality(Failed)

LEMMA InitTypes == Init => TypeOK /\ Counted
<1> SUFFICES ASSUME Init PROVE TypeOK /\ Counted
  OBVIOUS
<1>1. IsFiniteSet(Turns) /\ Cardinality(Turns) \in Nat
  BY RegistryAssumption, FS_CardinalityType
<1>2. Failed \subseteq Turns
  BY DEF Failed
<1>3. Cardinality(Failed) \in Nat
  BY <1>1, <1>2, FS_Subset, FS_CardinalityType
<1>4. Counted
  BY <1>3 DEF Init, Counted
<1>5. <<1, 1>> \in Nat \X Nat
  OBVIOUS
<1>6. 0 \in 0 .. Cardinality(Turns)
  BY <1>1
<1>7. failed \in [Modules -> 0 .. Cardinality(Turns)]
  BY <1>6 DEF Init
<1>8. at \in Nat \X Nat
  BY <1>5 DEF Init
<1>9. offer \in [Turns -> [Slots -> Specs \cup {None}]]
  BY DEF Init
<1> QED
  BY <1>4, <1>7, <1>8, <1>9 DEF Init, TypeOK

\* What a declaration registers.
LEMMA RegisterTypes ==
  ASSUME TypeOK, NEW d \in Decls, NEW spec \in Specs, Register(d, spec, Validate(d))
  PROVE  /\ ok' \in [Slots -> Specs \cup {None}]
         /\ broken' \in [Slots -> (Decls \X Reasons) \cup {None}]
<1>1. SlotOf(d) \in Slots
  BY DeclShape
<1>2. Validate(d) \in {"reason", None} /\ None # "reason"
  BY RegistryAssumption DEF Validate
<1>3. <<d, IF Validate(d) = None THEN "duplicate" ELSE Validate(d)>> \in Decls \X Reasons
  BY <1>2 DEF Reasons
<1> QED
  BY <1>1, <1>3 DEF Register, TypeOK

LEMMA TypeStep == TypeOK /\ Counted /\ [Next]_vars => TypeOK' /\ Counted'
<1> SUFFICES ASSUME TypeOK, Counted, [Next]_vars PROVE TypeOK' /\ Counted'
  OBVIOUS
<1>0. IsFiniteSet(Turns) /\ Cardinality(Turns) \in Nat
  BY RegistryAssumption, FS_CardinalityType
<1>1. ASSUME NEW t \in Turns, Discover(t) PROVE TypeOK' /\ Counted'
  <2>1. Failed' = Failed
    BY <1>1 DEF Discover, Failed, TypeOK
  <2>2. at' \in Nat \X Nat
    <3>1. <<1, 1>> \in Nat \X Nat
      OBVIOUS
    <3> QED
      BY <1>1, <3>1 DEF Discover, TypeOK
  <2>3. turn' \in [Turns -> {"new", "discovering", "ready", "running", "failed"}]
    BY <1>1 DEF Discover, TypeOK
  <2> QED
    BY <1>1, <2>1, <2>2, <2>3 DEF Discover, store, TypeOK, Counted
<1>2. CASE Skip
  BY <1>2 DEF Skip, store, TypeOK, Counted, Failed
<1>3. ASSUME NEW m \in Modules, Decorate(m) PROVE TypeOK' /\ Counted'
  <2> DEFINE d == <<m, at[2]>>  spec == <<d, failed[m]>>
  <2>1. d \in Decls
    BY <1>3, Shapes DEF Decorate
  <2>2. spec \in Specs
    BY <2>1 DEF Specs, TypeOK
  <2>3. at' \in Nat \X Nat
    BY <1>3 DEF Decorate, TypeOK
  <2>4. CASE FormOf(d) = "disabled"
    BY <1>3, <2>3, <2>4 DEF Decorate, store, TypeOK, Counted, Failed
  <2>5. CASE FormOf(d) # "disabled"
    <3>1. Register(d, spec, Validate(d)) /\ executed' = executed \cup {spec}
      BY <1>3, <2>5 DEF Decorate
    <3>2. /\ ok' \in [Slots -> Specs \cup {None}]
          /\ broken' \in [Slots -> (Decls \X Reasons) \cup {None}]
      BY <2>1, <2>2, <3>1, RegisterTypes
    <3> QED
      BY <1>3, <2>2, <2>3, <3>1, <3>2 DEF Decorate, TypeOK, Counted, Failed
  <2> QED
    BY <2>4, <2>5
<1>4. ASSUME NEW m \in Modules, Raise(m) PROVE TypeOK' /\ Counted'
  <2>1. PICK t \in Turns : turn[t] = "discovering"
    BY <1>4 DEF Raise, InBody, Discovering
  <2>2. turn' = [u \in Turns |-> IF u \in Discovering THEN "failed" ELSE turn[u]]
    BY <1>4 DEF Raise
  <2>3. Failed' \subseteq Turns /\ Failed \cup {t} \subseteq Failed' /\ t \notin Failed
    BY <2>1, <2>2 DEF Failed, Discovering
  <2>4. IsFiniteSet(Failed) /\ IsFiniteSet(Failed') /\ Cardinality(Failed') <= Cardinality(Turns)
    BY <1>0, <2>3, FS_Subset DEF Failed
  <2>5. Cardinality(Failed \cup {t}) = Cardinality(Failed) + 1
    BY <2>3, <2>4, FS_AddElement
  <2>6. Cardinality(Failed \cup {t}) <= Cardinality(Failed')
    BY <2>3, <2>4, FS_Subset
  <2>7. Cardinality(Failed) \in Nat /\ Cardinality(Failed') \in Nat
    BY <2>4, FS_CardinalityType
  <2>8. Cardinality(Failed) + 1 <= Cardinality(Failed')
    BY <2>5, <2>6
  <2>9. failed \in [Modules -> 0 .. Cardinality(Turns)] /\ failed' = [failed EXCEPT ![m] = @ + 1]
    BY <1>4 DEF Raise, TypeOK
  <2>10. \A n \in Modules : failed'[n] \in Nat /\ failed'[n] <= Cardinality(Failed')
    BY <2>7, <2>8, <2>9 DEF Counted
  <2>11. failed' \in [Modules -> 0 .. Cardinality(Turns)]
    BY <1>0, <2>4, <2>7, <2>9, <2>10
  <2>12. turn' \in [Turns -> {"new", "discovering", "ready", "running", "failed"}]
    BY <2>2 DEF TypeOK
  <2> QED
    BY <1>4, <2>10, <2>11, <2>12 DEF Raise, store, TypeOK, Counted
<1>5. ASSUME NEW m \in Modules, Imported(m) PROVE TypeOK' /\ Counted'
  BY <1>5 DEF Imported, store, TypeOK, Counted, Failed
<1>6. ASSUME NEW t \in Turns, AllImported(t) PROVE TypeOK' /\ Counted'
  <2>1. Failed' = Failed
    BY <1>6 DEF AllImported, Failed, TypeOK
  <2> QED
    BY <1>6, <2>1 DEF AllImported, store, TypeOK, Counted
<1>7. ASSUME NEW t \in Turns, Open(t) PROVE TypeOK' /\ Counted'
  <2>1. Failed \subseteq Failed' /\ Failed' \subseteq Turns
    BY <1>7 DEF Open, Failed, TypeOK
  <2>2. IsFiniteSet(Failed') /\ Cardinality(Failed) <= Cardinality(Failed')
    BY <1>0, <2>1, FS_Subset
  <2>3. Cardinality(Failed) \in Nat /\ Cardinality(Failed') \in Nat
    BY <1>0, <2>1, <2>2, FS_Subset, FS_CardinalityType
  <2>4. Counted'
    BY <1>7, <2>2, <2>3 DEF Open, Counted, TypeOK
  <2> QED
    BY <1>7, <2>4 DEF Open, store, TypeOK
<1>8. ASSUME NEW d \in MayRaise, Repair(d) PROVE TypeOK' /\ Counted'
  BY <1>8 DEF Repair, store, TypeOK, Counted, Failed
<1>9. CASE UNCHANGED vars
  BY <1>9 DEF vars, TypeOK, Counted, Failed
<1> QED
  BY <1>1, <1>2, <1>3, <1>4, <1>5, <1>6, <1>7, <1>8, <1>9 DEF Next, Step

---------------------------------------------------------------------------
\* What a step does to the table

\* A declaration that does not fail leaves its slot callable, or broken for a
\* reason, and takes no slot away.
LEMMA RegisterKeeps ==
  ASSUME TypeOK, NEW d \in Decls, NEW spec \in Specs, Register(d, spec, Validate(d))
  PROVE  /\ ok'[SlotOf(d)] = spec \/ broken'[SlotOf(d)] # None
         /\ FormOf(d) = "valid" => ok'[SlotOf(d)] # None
         /\ \A s \in Slots : ok[s] # None => ok'[s] = ok[s]
         /\ \A s \in Slots : broken[s] # None => broken'[s] # None
         /\ \A s \in Slots : ok[s] = None /\ ok'[s] # None =>
              s = SlotOf(d) /\ ok'[s] = spec
<1>1. SlotOf(d) \in Slots
  BY DeclShape
<1>2. Validate(d) \in {"reason", None} /\ None # "reason"
  BY RegistryAssumption DEF Validate
<1> DEFINE b == <<d, IF Validate(d) = None THEN "duplicate" ELSE Validate(d)>>
<1>3. b \in Decls \X Reasons
  BY <1>2 DEF Reasons
<1>4. b # None /\ spec # None
  BY <1>3, RegistryAssumption
<1>5. FormOf(d) = "valid" => Validate(d) = None
  BY DEF Validate
<1>6. CASE Validate(d) = None /\ ok[SlotOf(d)] = None
  <2>1. ok' = [ok EXCEPT ![SlotOf(d)] = spec] /\ broken' = broken
    BY <1>6 DEF Register
  <2>2. ok'[SlotOf(d)] = spec /\ \A s \in Slots : s # SlotOf(d) => ok'[s] = ok[s]
    BY <1>1, <2>1 DEF TypeOK
  <2> QED
    BY <1>4, <1>6, <2>1, <2>2
<1>7. CASE ~ (Validate(d) = None /\ ok[SlotOf(d)] = None)
  <2>1. broken' = [broken EXCEPT ![SlotOf(d)] = b] /\ ok' = ok
    BY <1>7 DEF Register
  <2> HIDE DEF b
  <2>2. broken'[SlotOf(d)] # None
    BY <1>1, <1>4, <2>1 DEF TypeOK
  <2>3. \A s \in Slots : broken[s] # None => broken'[s] # None
    BY <1>1, <1>4, <2>1 DEF TypeOK
  <2>4. FormOf(d) = "valid" => ok'[SlotOf(d)] # None
    BY <1>5, <1>7, <2>1
  <2> QED
    BY <2>1, <2>2, <2>3, <2>4
<1> QED
  BY <1>6, <1>7

\* Every step but a decorator's leaves the table alone.
LEMMA StoreStep ==
  ASSUME TypeOK, [Next]_vars
  PROVE  \/ UNCHANGED <<store, executed>>
         \/ \E m \in Modules : Decorate(m) /\ FormOf(<<m, at[2]>>) # "disabled"
<1>1. ASSUME NEW m \in Modules, Decorate(m)
      PROVE  UNCHANGED <<store, executed>> \/ FormOf(<<m, at[2]>>) # "disabled"
  BY <1>1 DEF Decorate
<1> QED
  BY <1>1 DEF Next, Step, Discover, Open, Skip, Raise, Imported, AllImported,
              Repair, vars, store

\* What a decorator that registers does.
LEMMA DecorateRegisters ==
  ASSUME TypeOK, NEW m \in Modules, Decorate(m), FormOf(<<m, at[2]>>) # "disabled"
  PROVE  LET d == <<m, at[2]>> spec == <<d, failed[m]>> IN
         /\ d \in Decls /\ spec \in Specs
         /\ Register(d, spec, Validate(d)) /\ executed' = executed \cup {spec}
<1>1. <<m, at[2]>> \in Decls
  BY Shapes DEF Decorate
<1> QED
  BY <1>1 DEF Decorate, Specs, TypeOK

---------------------------------------------------------------------------
\* Nothing is silently missing

LEMMA SilentStep == TypeOK /\ NeverSilent /\ [Next]_vars => NeverSilent'
<1> SUFFICES ASSUME TypeOK, NeverSilent, [Next]_vars PROVE NeverSilent'
  OBVIOUS
<1>1. CASE UNCHANGED <<store, executed>>
  BY <1>1 DEF NeverSilent, Status, store
<1>2. ASSUME NEW m \in Modules, Decorate(m), FormOf(<<m, at[2]>>) # "disabled"
      PROVE  NeverSilent'
  <2> DEFINE d == <<m, at[2]>>  spec == <<d, failed[m]>>
  <2>1. /\ d \in Decls /\ spec \in Specs
        /\ Register(d, spec, Validate(d)) /\ executed' = executed \cup {spec}
    BY <1>2, DecorateRegisters
  <2>2. spec[1] = d
    OBVIOUS
  <2> HIDE DEF d, spec
  <2>3. /\ ok'[SlotOf(d)] = spec \/ broken'[SlotOf(d)] # None
        /\ \A s \in Slots : ok[s] # None => ok'[s] = ok[s]
        /\ \A s \in Slots : broken[s] # None => broken'[s] # None
    BY <2>1, RegisterKeeps
  <2>4. \A e \in Specs : e # None /\ SlotOf(e[1]) \in Slots
    <3> SUFFICES ASSUME NEW e \in Specs PROVE e # None /\ SlotOf(e[1]) \in Slots
      OBVIOUS
    <3>1. e[1] \in Decls
      BY DEF Specs
    <3> QED
      BY <3>1, DeclShape, RegistryAssumption
  <2>5. ASSUME NEW e \in executed'
        PROVE  ok'[SlotOf(e[1])] = e \/ broken'[SlotOf(e[1])] # None
    <3>1. CASE e = spec
      BY <2>2, <2>3, <3>1
    <3>2. CASE e \in executed
      <4>1. e # None /\ SlotOf(e[1]) \in Slots
        BY <2>4, <3>2 DEF TypeOK
      <4>2. ok[SlotOf(e[1])] = e \/ broken[SlotOf(e[1])] # None
        BY <3>2 DEF NeverSilent
      <4> QED
        BY <2>3, <4>1, <4>2
    <3> QED
      BY <2>1, <2>5, <3>1, <3>2
  <2>6. executed' \subseteq Specs
    BY <2>1 DEF TypeOK
  <2>7. ASSUME NEW e \in executed' PROVE Status(SlotOf(e[1]))' # "unknown"
    BY <2>4, <2>5, <2>6, <2>7 DEF Status
  <2> QED
    BY <2>5, <2>7 DEF NeverSilent
<1> QED
  BY <1>1, <1>2, StoreStep

---------------------------------------------------------------------------
\* How far the walk has come

\* The valid declarations of m before place n have callable slots.
CoveredUpTo(m, n) ==
  \A i \in DOMAIN Body[m] :
    i < n /\ FormOf(<<m, i>>) = "valid" => ok[SlotOf(<<m, i>>)] # None

\* A module counts as imported when all its valid declarations are callable.
Covered == \A m \in imported : CoveredUpTo(m, Len(Body[m]) + 1)

\* discover() has passed imported modules only, and in the body it is in the
\* declarations it has passed are callable.
Walked ==
  Discovering # {} =>
    /\ at[1] \in 1 .. Len(Walk) + 1
    /\ \A k \in 1 .. Len(Walk) : k < at[1] => Walk[k] \in imported
    /\ at[1] \in DOMAIN Walk => CoveredUpTo(Walk[at[1]], at[2])

\* Discovery is done when all modules are imported, and a turn goes on with it.
Ready ==
  /\ discovered => Modules \subseteq imported
  /\ \A t \in Turns :
       /\ turn[t] \in {"ready", "running"} => discovered
       /\ turn[t] = "running" => offer[t] = ok

WalkInv == TypeOK /\ Covered /\ Walked /\ Ready

LEMMA WalkInit == Init => Covered /\ Walked /\ Ready
  BY DEF Init, Covered, Walked, Ready, Discovering

\* A callable slot stays callable, as it was.
LEMMA OkStays ==
  ASSUME TypeOK, [Next]_vars
  PROVE  \A s \in Slots : ok[s] # None => ok'[s] = ok[s]
<1>1. CASE UNCHANGED <<store, executed>>
  BY <1>1 DEF store
<1>2. ASSUME NEW m \in Modules, Decorate(m), FormOf(<<m, at[2]>>) # "disabled"
      PROVE  \A s \in Slots : ok[s] # None => ok'[s] = ok[s]
  BY <1>2, DecorateRegisters, RegisterKeeps
<1> QED
  BY <1>1, <1>2, StoreStep

LEMMA CoveredStays ==
  ASSUME TypeOK, [Next]_vars, NEW m \in Modules, NEW n, CoveredUpTo(m, n)
  PROVE  CoveredUpTo(m, n)'
<1> SUFFICES ASSUME NEW i \in DOMAIN Body[m], i < n, FormOf(<<m, i>>) = "valid"
             PROVE  ok'[SlotOf(<<m, i>>)] # None
  BY DEF CoveredUpTo
<1>1. ok[SlotOf(<<m, i>>)] # None
  BY DEF CoveredUpTo
<1>2. SlotOf(<<m, i>>) \in Slots
  BY Shapes
<1> QED
  BY <1>1, <1>2, OkStays

LEMMA CoveredStep == WalkInv /\ [Next]_vars => Covered'
<1> SUFFICES ASSUME WalkInv, [Next]_vars PROVE Covered'
  OBVIOUS
<1>1. TypeOK /\ imported \subseteq Modules
  BY DEF WalkInv, TypeOK
<1>2. CASE UNCHANGED imported
  <2>1. ASSUME NEW m \in imported PROVE CoveredUpTo(m, Len(Body[m]) + 1)'
    BY <1>1, <2>1, CoveredStays DEF WalkInv, Covered
  <2> QED
    BY <1>2, <2>1 DEF Covered
<1>3. ASSUME NEW m \in Modules, Imported(m) PROVE Covered'
  <2>1. CoveredUpTo(m, Len(Body[m]) + 1)
    BY <1>3 DEF WalkInv, Walked, Imported, InBody
  <2>2. ASSUME NEW n \in imported' PROVE CoveredUpTo(n, Len(Body[n]) + 1)'
    <3>1. n \in imported \/ n = m
      BY <1>3, <2>2 DEF Imported
    <3>2. n \in Modules /\ CoveredUpTo(n, Len(Body[n]) + 1)
      BY <1>1, <1>3, <2>1, <3>1 DEF WalkInv, Covered
    <3> QED
      BY <1>1, <3>2, CoveredStays
  <2> QED
    BY <2>2 DEF Covered
<1>4. UNCHANGED imported \/ \E m \in Modules : Imported(m)
  BY DEF Next, Step, Discover, Open, Skip, Decorate, Raise, AllImported, Repair, vars
<1> QED
  BY <1>2, <1>3, <1>4

LEMMA WalkedStep == WalkInv /\ [Next]_vars => Walked'
<1> SUFFICES ASSUME WalkInv, [Next]_vars PROVE Walked'
  OBVIOUS
<1>1. TypeOK /\ Len(Walk) \in Nat /\ DOMAIN Walk = 1 .. Len(Walk) /\ at \in Nat \X Nat
  BY Shapes DEF WalkInv, TypeOK
<1>2. \A k \in DOMAIN Walk : Walk[k] \in Modules
  BY Shapes
<1>3. \A m \in Modules : CoveredUpTo(m, 1)'
  BY Shapes DEF CoveredUpTo
\* The walk goes on where it stands, or with the next module.
<1>4. CASE Discovering' = {}
  BY <1>4 DEF Walked
<1>5. CASE at' = <<1, 1>>
  <2>1. at'[1] = 1 /\ at'[2] = 1
    BY <1>5
  <2>2. at'[1] \in DOMAIN Walk => CoveredUpTo(Walk[at[1]], at[2])'
    BY <1>2, <1>3, <2>1 DEF CoveredUpTo
  <2> QED
    BY <1>1, <2>1, <2>2 DEF Walked
<1>6. CASE at' = at /\ Discovering # {} /\ imported' = imported
  <2>1. at[1] \in DOMAIN Walk => CoveredUpTo(Walk[at[1]], at[2])'
    <3> SUFFICES ASSUME at[1] \in DOMAIN Walk PROVE CoveredUpTo(Walk[at[1]], at[2])'
      OBVIOUS
    <3>1. CoveredUpTo(Walk[at[1]], at[2])
      BY <1>6 DEF WalkInv, Walked
    <3>2. \A i \in DOMAIN Body[Walk[at[1]]] :
            SlotOf(<<Walk[at[1]], i>>) \in Slots
      BY <1>2, Shapes
    <3> QED
      BY <1>1, <1>6, <3>1, <3>2, OkStays DEF CoveredUpTo
  <2> QED
    BY <1>6, <2>1 DEF WalkInv, Walked
<1>7. ASSUME Discovering # {}, at[1] \in DOMAIN Walk, at' = <<at[1] + 1, 1>>,
             imported' = imported \cup {Walk[at[1]]}
      PROVE  Walked'
  <2>1. at'[1] = at[1] + 1 /\ at'[2] = 1
    BY <1>7
  <2>2. at'[1] \in DOMAIN Walk => CoveredUpTo(Walk[at[1]], at[2])'
    BY <1>2, <1>3, <2>1 DEF CoveredUpTo
  <2>3. \A k \in 1 .. Len(Walk) : k < at[1] => Walk[k] \in imported
    BY <1>7 DEF WalkInv, Walked
  <2>4. \A k \in 1 .. Len(Walk) : k < at'[1] => Walk[k] \in imported'
    BY <1>1, <1>7, <2>1, <2>3
  <2>5. at'[1] \in 1 .. Len(Walk) + 1
    BY <1>1, <1>7, <2>1
  <2> QED
    BY <2>2, <2>4, <2>5 DEF Walked
<1>8. ASSUME NEW m \in Modules, Decorate(m) PROVE Walked'
  <2> DEFINE d == <<m, at[2]>>
  <2>1. /\ Discovering # {} /\ at[1] \in DOMAIN Walk /\ m = Walk[at[1]]
        /\ at[2] \in DOMAIN Body[m] /\ at'[1] = at[1] /\ at'[2] = at[2] + 1
        /\ imported' = imported /\ d \in Decls
    BY <1>8, Shapes DEF Decorate, InBody
  <2>2. CoveredUpTo(m, at[2])
    BY <2>1 DEF WalkInv, Walked
  <2>3. FormOf(d) = "valid" => ok'[SlotOf(d)] # None
    BY <1>1, <1>8, DecorateRegisters, RegisterKeeps
  <2>4. ASSUME NEW i \in DOMAIN Body[m], i < at[2] + 1, FormOf(<<m, i>>) = "valid"
        PROVE  ok'[SlotOf(<<m, i>>)] # None
    <3>1. CASE i = at[2]
      BY <2>3, <2>4, <3>1
    <3>2. CASE i < at[2]
      <4>1. ok[SlotOf(<<m, i>>)] # None /\ SlotOf(<<m, i>>) \in Slots
        BY <2>2, <2>4, <3>2, Shapes DEF CoveredUpTo
      <4> QED
        BY <1>1, <4>1, OkStays
    <3>3. i \in Nat /\ at[2] \in Nat
      BY <1>1, Shapes
    <3> QED
      BY <2>4, <3>1, <3>2, <3>3
  <2>5. CoveredUpTo(Walk[at[1]], at[2])'
    BY <2>1, <2>4 DEF CoveredUpTo
  <2> QED
    BY <2>1, <2>5 DEF WalkInv, Walked
<1>9. ASSUME NEW t \in Turns, Discover(t) PROVE Walked'
  <2>1. CASE discovered
    <3>1. Discovering' = {}
      BY <1>1, <1>9, <2>1 DEF Discover, Discovering, TypeOK
    <3> QED
      BY <1>4, <3>1
  <2>2. CASE ~ discovered
    BY <1>5, <1>9, <2>2 DEF Discover
  <2> QED
    BY <2>1, <2>2
<1>10. CASE Skip
  BY <1>7, <1>10 DEF Skip
<1>11. ASSUME NEW m \in Modules, Raise(m) PROVE Walked'
  <2>1. Discovering' = {}
    BY <1>11 DEF Raise, Discovering
  <2> QED
    BY <1>4, <2>1
<1>12. ASSUME NEW m \in Modules, Imported(m) PROVE Walked'
  BY <1>7, <1>12 DEF Imported, InBody
<1>13. ASSUME NEW t \in Turns, AllImported(t) PROVE Walked'
  <2>1. Discovering # {}
    BY <1>13 DEF AllImported, Discovering
  <2> QED
    BY <1>6, <1>13, <2>1 DEF AllImported
<1>14. ASSUME NEW t \in Turns, Open(t) PROVE Walked'
  <2>1. Discovering' = {}
    BY <1>1, <1>14 DEF Open, Discovering, TypeOK
  <2> QED
    BY <1>4, <2>1
<1>15. ASSUME NEW d \in MayRaise, Repair(d) PROVE Walked'
  <2>1. Discovering' = Discovering
    BY <1>15 DEF Repair, Discovering
  <2> QED
    BY <1>4, <1>6, <1>15, <2>1 DEF Repair
<1>16. CASE UNCHANGED vars
  <2>1. Discovering' = Discovering
    BY <1>16 DEF vars, Discovering
  <2> QED
    BY <1>4, <1>6, <1>16, <2>1 DEF vars
<1> QED
  BY <1>8, <1>9, <1>10, <1>11, <1>12, <1>13, <1>14, <1>15, <1>16 DEF Next, Step

LEMMA ReadyStep == WalkInv /\ [Next]_vars => Ready'
<1> SUFFICES ASSUME WalkInv, [Next]_vars PROVE Ready'
  OBVIOUS
<1>1. TypeOK /\ Ready
  BY DEF WalkInv
<1>2. Len(Walk) \in Nat /\ DOMAIN Walk = 1 .. Len(Walk)
  BY Shapes
<1>3. ASSUME NEW t \in Turns, Discover(t) PROVE Ready'
  BY <1>1, <1>3 DEF Discover, Ready, TypeOK, store
<1>4. CASE Skip
  BY <1>1, <1>4 DEF Skip, Ready, store
<1>5. ASSUME NEW m \in Modules, Decorate(m) PROVE Ready'
  <2>1. ~ discovered
    BY <1>1, <1>5 DEF Decorate, InBody, Ready
  <2> QED
    BY <1>1, <1>5, <2>1 DEF Decorate, Ready
<1>6. ASSUME NEW m \in Modules, Raise(m) PROVE Ready'
  BY <1>1, <1>6 DEF Raise, Ready, store
<1>7. ASSUME NEW m \in Modules, Imported(m) PROVE Ready'
  BY <1>1, <1>7 DEF Imported, Ready, store
<1>8. ASSUME NEW t \in Turns, AllImported(t) PROVE Ready'
  <2>1. Discovering # {}
    BY <1>8 DEF AllImported, Discovering
  <2>2. \A k \in 1 .. Len(Walk) : Walk[k] \in imported
    BY <1>2, <1>8, <2>1 DEF AllImported, WalkInv, Walked
  <2>3. Modules \subseteq imported
    BY <1>2, <2>2 DEF Modules
  <2> QED
    BY <1>1, <1>8, <2>3 DEF AllImported, Ready, TypeOK, store
<1>9. ASSUME NEW t \in Turns, Open(t) PROVE Ready'
  BY <1>1, <1>9 DEF Open, Ready, TypeOK, store
<1>10. ASSUME NEW d \in MayRaise, Repair(d) PROVE Ready'
  BY <1>1, <1>10 DEF Repair, Ready, store
<1>11. CASE UNCHANGED vars
  BY <1>1, <1>11 DEF vars, Ready
<1> QED
  BY <1>3, <1>4, <1>5, <1>6, <1>7, <1>8, <1>9, <1>10, <1>11 DEF Next, Step

---------------------------------------------------------------------------
\* The first valid declaration counts

LEMMA FirstStep == WalkInv /\ FirstDeclaredWins /\ [Next]_vars => FirstDeclaredWins'
<1> SUFFICES ASSUME WalkInv, FirstDeclaredWins, [Next]_vars,
                    NEW s \in Slots, ok'[s] # None, NEW e \in ValidFor(s)
             PROVE  Before(ok'[s][1], e)
  BY DEF FirstDeclaredWins
<1>1. TypeOK
  BY DEF WalkInv
<1>2. CASE ok[s] # None
  BY <1>1, <1>2, OkStays DEF FirstDeclaredWins
<1>3. CASE ok[s] = None
  <2>1. PICK m \in Modules : Decorate(m) /\ FormOf(<<m, at[2]>>) # "disabled"
    BY <1>1, <1>3, StoreStep DEF store
  <2> DEFINE d == <<m, at[2]>>  spec == <<d, failed[m]>>
  <2>2. ok'[s] = spec
    BY <1>1, <1>3, <2>1, DecorateRegisters, RegisterKeeps
  <2>3. /\ Discovering # {} /\ at[1] \in DOMAIN Walk /\ Walk[at[1]] = m
        /\ m \notin imported
    BY <2>1 DEF Decorate, InBody
  <2>4. /\ e \in Decls /\ SlotOf(e) = s /\ FormOf(e) = "valid"
        /\ e[1] \in Modules /\ e[2] \in DOMAIN Body[e[1]] /\ e = <<e[1], e[2]>>
    BY DeclShape DEF ValidFor
  <2>5. e[1] \notin imported
    <3>1. SUFFICES ASSUME e[1] \in imported PROVE FALSE
      OBVIOUS
    <3>2. e[2] < Len(Body[e[1]]) + 1
      BY <2>4, Shapes
    <3>3. CoveredUpTo(e[1], Len(Body[e[1]]) + 1)
      BY <3>1 DEF WalkInv, Covered
    <3> QED
      BY <1>3, <2>4, <3>2, <3>3 DEF CoveredUpTo
  <2>6. PICK k \in DOMAIN Walk : Walk[k] = e[1]
    BY <2>4 DEF Modules
  <2>7. ~ (k < at[1])
    BY <2>3, <2>5, <2>6, Shapes DEF WalkInv, Walked
  <2>8. k = at[1] => ~ (e[2] < at[2])
    <3>1. SUFFICES ASSUME k = at[1], e[2] < at[2] PROVE FALSE
      OBVIOUS
    <3>2. CoveredUpTo(e[1], at[2])
      BY <2>3, <2>6, <3>1 DEF WalkInv, Walked
    <3> QED
      BY <1>3, <2>4, <3>1, <3>2 DEF CoveredUpTo
  <2>9. at[1] \in Nat /\ at[2] \in Nat /\ k \in Nat /\ e[2] \in Nat
    BY <1>1, <2>4, Shapes DEF TypeOK
  <2>10. ok'[s][1][1] = m /\ ok'[s][1][2] = at[2]
    BY <2>2
  <2>11. at[1] < k \/ (at[1] = k /\ at[2] <= e[2])
    BY <2>7, <2>8, <2>9
  <2> QED
    BY <2>3, <2>6, <2>10, <2>11 DEF Before
<1> QED
  BY <1>2, <1>3

---------------------------------------------------------------------------
\* Theorems

LEMMA Inductive == Spec => [](WalkInv /\ Counted)
<1>1. Init => WalkInv /\ Counted
  BY InitTypes, WalkInit DEF WalkInv
<1>2. WalkInv /\ Counted /\ [Next]_vars => WalkInv' /\ Counted'
  BY TypeStep, CoveredStep, WalkedStep, ReadyStep DEF WalkInv
<1> QED
  BY <1>1, <1>2, PTL DEF Spec

\* What the walk has reached makes discovery complete.
LEMMA Complete == WalkInv => RegistryInv
<1> SUFFICES ASSUME WalkInv PROVE DiscoveredIsComplete
  BY DEF WalkInv, RegistryInv
<1>1. ASSUME discovered, NEW s \in Slots, NEW d \in ValidFor(s) PROVE ok[s] # None
  <2>1. d \in Decls /\ SlotOf(d) = s /\ FormOf(d) = "valid"
    BY DEF ValidFor
  <2>2. d[1] \in imported /\ d[2] \in DOMAIN Body[d[1]] /\ d = <<d[1], d[2]>>
    BY <1>1, <2>1, DeclShape DEF WalkInv, Ready
  <2>3. d[2] < Len(Body[d[1]]) + 1
    BY <2>1, <2>2, DeclShape, Shapes
  <2> QED
    BY <2>1, <2>2, <2>3 DEF WalkInv, Covered, CoveredUpTo
<1> QED
  BY <1>1 DEF WalkInv, Ready, DiscoveredIsComplete

\* Whichever modules raise and whenever they are repaired, no turn goes on with
\* a part of the capabilities (discover, registration.py, and its caller the
\* orchestrator stage).
THEOREM NoPartialDiscovery == Spec => []RegistryInv
  BY Inductive, Complete, PTL

\* What a decorator registered is callable or leaves its slot visibly broken
\* (CapabilityRegistry.register, store.py).
THEOREM NothingSilent == Spec => []NeverSilent
<1>1. Init => NeverSilent
  BY DEF Init, NeverSilent
<1>2. TypeOK /\ NeverSilent /\ [Next]_vars => NeverSilent'
  BY SilentStep
<1>3. WalkInv => TypeOK
  BY DEF WalkInv
<1> QED
  BY <1>1, <1>2, <1>3, Inductive, PTL DEF Spec

\* The order of the failures and of the repairs does not decide which of two
\* declarations of a slot is called: the one declared first is.
THEOREM FirstWins == Spec => []FirstDeclaredWins
<1>1. Init => FirstDeclaredWins
  BY DEF Init, FirstDeclaredWins
<1>2. WalkInv /\ FirstDeclaredWins /\ [Next]_vars => FirstDeclaredWins'
  BY FirstStep
<1> QED
  BY <1>1, <1>2, Inductive, PTL DEF Spec
=============================================================================
