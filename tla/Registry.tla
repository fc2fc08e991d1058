------------------------------ MODULE Registry ------------------------------
(***************************************************************************)
(* The capability registry (registry/capabilities). Every turn calls       *)
(* discover(), which imports the modules of tools/ and experts/ in the     *)
(* order of pkgutil.walk_packages until it has once imported them all; the *)
(* decorators in their bodies register what they declare. A module that    *)
(* raises ends the discovery and its turn; Python forgets the module, so   *)
(* the next discovery executes its body again, while modules that worked   *)
(* are not executed again. What was registered stays.                      *)
(*                                                                         *)
(* A body is a sequence of declarations. One raises where the code before  *)
(* it does, or where its decorator cannot read a field (tuple(None)),      *)
(* until somebody repairs the file. Of a specification only its slot, the  *)
(* kind and the key, and its verdict of validate() are kept.               *)
(***************************************************************************)
EXTENDS Naturals, Sequences, FiniteSets

CONSTANTS
  Turns,       \* turns, each of which discovers once
  Walk,        \* the modules in the order walk_packages yields them
  Body,        \* per module, the declarations of its body in order
  Slots,       \* the slots declared
  WrapperName, \* per slot, the name of its wrapper: the key, "." made "_"
  MayRaise,    \* the declarations that may raise
  None

Modules == {Walk[k] : k \in DOMAIN Walk}
Decls   == UNION {{<<m, i>> : i \in DOMAIN Body[m]} : m \in Modules}
Specs   == Decls \X (0 .. Cardinality(Turns))
Reasons == {"reason", "duplicate"}

ASSUME RegistryAssumption ==
  /\ IsFiniteSet(Turns)
  /\ Walk \in Seq(Modules)
  /\ \A k, l \in DOMAIN Walk : Walk[k] = Walk[l] => k = l
  /\ Body \in [Modules -> Seq([slot : Slots, form : {"valid", "rejected", "disabled"}])]
  /\ DOMAIN WrapperName = Slots
  /\ MayRaise \subseteq Decls
  /\ None \notin Specs \cup (Decls \X Reasons) \cup {"reason"}

VARIABLES
  ok,          \* registry._ok: per slot, the declaration and which load of its
               \* module made the class
  broken,      \* registry._broken: per slot, the declaration and the reason
  imported,    \* the modules in sys.modules
  discovered,  \* the flag of registration.py
  faults,      \* the declarations that raise when they are reached
  turn,        \* per turn, where it stands
  at,          \* the module and the declaration discover() is at
  offer,       \* per turn, the specifications its agent's tools are built of
  \* histories:
  failed,      \* per module, how many loads of it raised
  executed     \* the specifications registered so far, broken ones included

vars == <<ok, broken, imported, discovered, faults, turn, at, offer, failed, executed>>

store == <<ok, broken>>

SlotOf(d) == Body[d[1]][d[2]].slot
FormOf(d) == Body[d[1]][d[2]].form
Discovering == {t \in Turns : turn[t] = "discovering"}

---------------------------------------------------------------------------
\* CapabilityRegistry

\* Mutant of Register: a second declaration of a slot is ignored.
RegisterOnce(d, spec, reason) ==
  /\ ok' = [ok EXCEPT ![SlotOf(d)] = IF reason = None /\ @ = None THEN spec ELSE @]
  /\ broken' = [broken EXCEPT ![SlotOf(d)] = IF reason = None THEN @ ELSE <<d, reason>>]

\* Mutant of Register: a second declaration of a slot raises.
RegisterStrict(d, spec, reason) ==
  /\ reason # None \/ ok[SlotOf(d)] = None
  /\ ok' = [ok EXCEPT ![SlotOf(d)] = IF reason = None THEN spec ELSE @]
  /\ broken' = [broken EXCEPT ![SlotOf(d)] = IF reason = None THEN @ ELSE <<d, reason>>]

\* register: a reason, or an OK declaration of the slot, makes it broken.
Register(d, spec, reason) ==
  \/ /\ reason = None /\ ok[SlotOf(d)] = None
     /\ ok' = [ok EXCEPT ![SlotOf(d)] = spec]
     /\ UNCHANGED broken
  \/ /\ reason # None \/ ok[SlotOf(d)] # None
     /\ broken' = [broken EXCEPT ![SlotOf(d)] =
                     <<d, IF reason = None THEN "duplicate" ELSE reason>>]
     /\ UNCHANGED ok

\* validate: why a specification is refused, or None.
Validate(d) == IF FormOf(d) = "rejected" THEN "reason" ELSE None

\* status, and describe_missing, which tells a broken slot from an unknown one
Status(s) ==
  IF ok[s] # None THEN "ok" ELSE IF broken[s] # None THEN "broken" ELSE "unknown"

---------------------------------------------------------------------------
\* discover

\* discover() does not await: no other turn runs before it has ended.
Discover(t) ==
  /\ turn[t] = "new" /\ Discovering = {}
  /\ IF discovered
     THEN turn' = [turn EXCEPT ![t] = "ready"] /\ UNCHANGED at
     ELSE turn' = [turn EXCEPT ![t] = "discovering"] /\ at' = <<1, 1>>
  /\ UNCHANGED <<store, imported, discovered, faults, offer, failed, executed>>

\* The body discover() is in: no module that is in sys.modules is executed.
InBody(m) ==
  /\ Discovering # {}
  /\ at[1] \in DOMAIN Walk /\ m = Walk[at[1]] /\ m \notin imported

\* import_module of a module that was imported before
Skip ==
  /\ Discovering # {}
  /\ at[1] \in DOMAIN Walk /\ Walk[at[1]] \in imported
  /\ at' = <<at[1] + 1, 1>>
  /\ UNCHANGED <<store, imported, discovered, faults, turn, offer, failed, executed>>

\* The decorator of a class: nothing when disabled, else validate and register.
Decorate(m) ==
  LET d == <<m, at[2]>> spec == <<d, failed[m]>> IN
  /\ InBody(m) /\ at[2] \in DOMAIN Body[m] /\ d \notin faults
  /\ IF FormOf(d) = "disabled"
     THEN UNCHANGED <<store, executed>>
     ELSE Register(d, spec, Validate(d)) /\ executed' = executed \cup {spec}
  /\ at' = <<at[1], at[2] + 1>>
  /\ UNCHANGED <<imported, discovered, faults, turn, offer, failed>>

\* Mutant of Raise: the module that raised stays in sys.modules.
RaiseKept(m) ==
  /\ InBody(m) /\ at[2] \in DOMAIN Body[m] /\ <<m, at[2]>> \in faults
  /\ imported' = imported \cup {m}
  /\ failed' = [failed EXCEPT ![m] = @ + 1]
  /\ turn' = [t \in Turns |-> IF t \in Discovering THEN "failed" ELSE turn[t]]
  /\ UNCHANGED <<store, discovered, faults, at, offer, executed>>

\* Mutant of Raise: discover() goes on with the next module.
RaiseOn(m) ==
  /\ InBody(m) /\ at[2] \in DOMAIN Body[m] /\ <<m, at[2]>> \in faults
  /\ failed' = [failed EXCEPT ![m] = @ + 1]
  /\ at' = <<at[1] + 1, 1>>
  /\ UNCHANGED <<store, imported, discovered, faults, turn, offer, executed>>

\* The body raises: the import system drops the module and the stage fails.
Raise(m) ==
  /\ InBody(m) /\ at[2] \in DOMAIN Body[m] /\ <<m, at[2]>> \in faults
  /\ failed' = [failed EXCEPT ![m] = @ + 1]
  /\ turn' = [t \in Turns |-> IF t \in Discovering THEN "failed" ELSE turn[t]]
  /\ UNCHANGED <<store, imported, discovered, faults, at, offer, executed>>

Imported(m) ==
  /\ InBody(m) /\ at[2] = Len(Body[m]) + 1
  /\ imported' = imported \cup {m}
  /\ at' = <<at[1] + 1, 1>>
  /\ UNCHANGED <<store, discovered, faults, turn, offer, failed, executed>>

AllImported(t) ==
  /\ turn[t] = "discovering" /\ at[1] = Len(Walk) + 1
  /\ discovered' = TRUE
  /\ turn' = [turn EXCEPT ![t] = "ready"]
  /\ UNCHANGED <<store, imported, faults, at, offer, failed, executed>>

---------------------------------------------------------------------------
\* The turn and the files

Offered == {s \in Slots : ok[s] # None}

\* run_turn: build_orchestrator_tools wraps all that cards() lists, tools and
\* experts. The agent framework refuses two tools of one name.
Open(t) ==
  /\ turn[t] = "ready" /\ Discovering = {}
  /\ IF \A r, s \in Offered : WrapperName[r] = WrapperName[s] => r = s
     THEN turn' = [turn EXCEPT ![t] = "running"] /\ offer' = [offer EXCEPT ![t] = ok]
     ELSE turn' = [turn EXCEPT ![t] = "failed"] /\ UNCHANGED offer
  /\ UNCHANGED <<store, imported, discovered, faults, at, failed, executed>>

\* Somebody repairs a file; the next load of the module reads it anew.
Repair(d) ==
  /\ d \in faults
  /\ faults' = faults \ {d}
  /\ UNCHANGED <<store, imported, discovered, turn, at, offer, failed, executed>>

Init ==
  /\ ok = [s \in Slots |-> None] /\ broken = [s \in Slots |-> None]
  /\ imported = {} /\ discovered = FALSE
  /\ faults \in SUBSET MayRaise
  /\ turn = [t \in Turns |-> "new"] /\ at = <<1, 1>>
  /\ offer = [t \in Turns |-> [s \in Slots |-> None]]
  /\ failed = [m \in Modules |-> 0] /\ executed = {}

\* What goes on by itself once discover() was called.
Step ==
  \/ Skip
  \/ \E m \in Modules : Decorate(m) \/ Raise(m) \/ Imported(m)
  \/ \E t \in Turns : AllImported(t)

Next ==
  \/ Step
  \/ \E t \in Turns : Discover(t) \/ Open(t)
  \/ \E d \in MayRaise : Repair(d)

\* discover() is straight-line code; turns and repairs are nobody's duty.
Spec == Init /\ [][Next]_vars /\ WF_vars(Step)

---------------------------------------------------------------------------
\* Correctness

TypeOK ==
  /\ ok \in [Slots -> Specs \cup {None}]
  /\ broken \in [Slots -> (Decls \X Reasons) \cup {None}]
  /\ imported \subseteq Modules /\ discovered \in BOOLEAN
  /\ faults \subseteq MayRaise
  /\ turn \in [Turns -> {"new", "discovering", "ready", "running", "failed"}]
  /\ at \in Nat \X Nat
  /\ offer \in [Turns -> [Slots -> Specs \cup {None}]]
  /\ failed \in [Modules -> 0 .. Cardinality(Turns)]
  /\ executed \subseteq Specs

\* "brokenness is always visible, never silent" (store.py:5): whatever a
\* decorator registered is callable or its slot is among the broken ones,
\* and a slot something was declared for is never unknown.
NeverSilent ==
  \A e \in executed :
    LET s == SlotOf(e[1]) IN
    /\ ok[s] = e \/ broken[s] # None
    /\ Status(s) # "unknown"

\* Of several valid declarations of a slot the one that is callable does not
\* depend on which modules raised, when, and in what order they were repaired.
Before(d, e) ==
  \E k, l \in DOMAIN Walk :
    Walk[k] = d[1] /\ Walk[l] = e[1] /\ (k < l \/ (k = l /\ d[2] <= e[2]))

ValidFor(s) == {d \in Decls : SlotOf(d) = s /\ FormOf(d) = "valid"}

FirstDeclaredWins ==
  \A s \in Slots : ok[s] # None => \A d \in ValidFor(s) : Before(ok[s][1], d)

DiscoveredIsComplete ==
  \A t \in Turns :
    /\ discovered \/ turn[t] \in {"ready", "running"} =>
         \A s \in Slots : ValidFor(s) # {} => ok[s] # None
    /\ turn[t] = "running" => offer[t] = ok

\* No turn goes on with a part of the capabilities: once discovery counts as
\* done every slot with a valid declaration is callable, those of modules that
\* raised at first included, and a turn can call what it was offered as it was
\* offered. And every variable has its type.
RegistryInv == TypeOK /\ DiscoveredIsComplete

\* When nothing raises any more the discovery under way succeeds, although it
\* registers again what failed loads had registered.
RetryConverges == (Discovering # {} /\ faults = {}) ~> discovered

---------------------------------------------------------------------------
\* A claim of the documentation, checked on its own

\* registration.py:4-11: a decorated file "self-registers", and a malformed or
\* duplicate capability "registers as BROKEN [...] rather than crashing". A
\* field the decorator cannot read raises, and so do two wrappers of one name,
\* in every turn.
NeverCrashes == \A t \in Turns : turn[t] # "failed"
============================================================================
