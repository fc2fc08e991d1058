------------------------------- MODULE Turn -------------------------------
(***************************************************************************)
(* What the pipeline promises of a user turn: gates are cleared one after  *)
(* the other, a turn can end early at any of them, nothing is released     *)
(* before the last one, and a turn that ended stays as it ended. A turn is *)
(* remembered while it is being answered, between its input gates and the  *)
(* filter; one abandoned there may still be remembered afterwards.         *)
(***************************************************************************)
EXTENDS Naturals

CONSTANT Turns

VARIABLES
  cleared,    \* how many gates each turn has cleared
  outcome,    \* how each turn ended, if it did
  released,   \* the turns whose answer has left the pipeline
  remembered  \* the turns later ones may be told about

vars == <<cleared, outcome, released, remembered>>

\* Gates in the order of the stages: admission, sanitizing, normalizing and
\* verification clear the input, orchestration answers, the filter approves.
InputGates == 4
Answered   == 5
Approved   == 6

Ends == {"delivered", "blocked", "failed", "abandoned"}

TypeOK ==
  /\ cleared    \in [Turns -> 0 .. Approved]
  /\ outcome    \in [Turns -> Ends \cup {"running"}]
  /\ released   \subseteq Turns
  /\ remembered \subseteq Turns

Init ==
  /\ cleared = [t \in Turns |-> 0]
  /\ outcome = [t \in Turns |-> "running"]
  /\ released = {}
  /\ remembered = {}

ClearGate(t) ==
  /\ outcome[t] = "running"
  /\ cleared[t] < Approved
  /\ cleared' = [cleared EXCEPT ![t] = @ + 1]
  /\ UNCHANGED <<outcome, released, remembered>>

Remember(t) ==
  /\ outcome[t] \in {"running", "abandoned"}
  /\ cleared[t] = InputGates
  /\ remembered' = remembered \cup {t}
  /\ UNCHANGED <<cleared, outcome, released>>

Release(t) ==
  /\ outcome[t] = "running"
  /\ cleared[t] = Approved
  /\ released' = released \cup {t}
  /\ \E end \in {"delivered", "failed"} : outcome' = [outcome EXCEPT ![t] = end]
  /\ UNCHANGED <<cleared, remembered>>

Stop(t) ==
  /\ outcome[t] = "running"
  /\ \E end \in Ends \ {"delivered"} : outcome' = [outcome EXCEPT ![t] = end]
  /\ UNCHANGED <<cleared, released, remembered>>

Next == \E t \in Turns : ClearGate(t) \/ Remember(t) \/ Release(t) \/ Stop(t)

Spec == Init /\ [][Next]_vars
============================================================================
