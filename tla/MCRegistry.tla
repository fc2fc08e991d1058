----------------------------- MODULE MCRegistry -----------------------------
(***************************************************************************)
(* The instance of Registry for TLC: a tool module with two declarations,  *)
(* the second of which may raise; a second tool module with a slot of the  *)
(* first and a refused one; an expert module with a slot declared before   *)
(* as disabled, whose load may raise between its declarations.             *)
(***************************************************************************)
EXTENDS Registry

D(slot, form) == [slot |-> slot, form |-> form]

MCWalk == <<"tools.web", "tools.more", "experts.web">>

MCSlots == {"tool web.fetch", "tool web.search", "tool code.run", "expert web.research"}

MCBody ==
  [m \in {"tools.web", "tools.more", "experts.web"} |->
     CASE m = "tools.web" ->
            <<D("tool web.search", "valid"), D("tool web.fetch", "valid")>>
       [] m = "tools.more" ->
            <<D("tool web.fetch", "valid"), D("tool code.run", "rejected"),
              D("expert web.research", "disabled")>>
       [] m = "experts.web" ->
            <<D("expert web.research", "valid"), D("tool code.run", "valid")>>]

MCWrapperName == [s \in MCSlots |-> s]

MCMayRaise == {<<"tools.web", 2>>, <<"tools.more", 3>>, <<"experts.web", 2>>}

\* For the claim NeverCrashes: no declaration raises, but an expert's wrapper
\* is named like a tool's.
MCNoFault == {}

MCSameName == [s \in MCSlots |-> IF s \in {"expert web.research", "tool web.search"}
                                 THEN "web_search" ELSE s]
============================================================================
