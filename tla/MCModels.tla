------------------------------ MODULE MCModels ------------------------------
(***************************************************************************)
(* Models on a small instance: two calls, two google models, one of        *)
(* anthropic, one of a provider the code has no key variable for, and a    *)
(* user who chooses models. models.yaml routes the layers to anthropic,    *)
(* backed by google, or, in a second version, the filter to openai, which  *)
(* has no filter model, and backs the search with what it may not have.    *)
(***************************************************************************)
EXTENDS Models

MCCalls    == {"c1", "c2"}
MCOthers   == {"xai"}
MCProvider == [haiku |-> "anthropic", lite |-> "google", pro |-> "google", grok |-> "xai"]
MCOverride == [c1 |-> [l \in Layers |-> None],
               c2 |-> [verifier |-> None, filter |-> "pro", search |-> None]]
MCKeys     == {<<"google", 1>>, <<"google", 2>>, <<"anthropic", 1>>, <<"xai", 1>>}
MCValues   == {"a", "b"}

NoKeys     == [k \in MCKeys |-> None]
MCInitKeys ==
  {[NoKeys EXCEPT ![<<"google", 1>>] = "a", ![<<"anthropic", 1>>] = "a", ![<<"xai", 1>>] = "a"],
   [NoKeys EXCEPT ![<<"google", 2>>] = "a"]}

NoRoutes == [l \in Layers |-> None]
AllOf(model) == [l \in Layers |-> model]

Paid ==
  [defaults  |-> [AllOf("anthropic") EXCEPT !["search"] = "google"],
   routing   |-> NoRoutes,
   routes    |-> NoRoutes,
   default   |-> "anthropic",
   models    |-> [anthropic |-> [AllOf("haiku") EXCEPT !["search"] = None],
                  google    |-> AllOf("lite"),
                  openai    |-> NoRoutes,
                  xai       |-> NoRoutes],
   fallbacks |-> [verifier |-> <<"haiku", "lite">>, filter |-> <<>>, search |-> <<>>]]

Rerouted ==
  [Paid EXCEPT !.defaults = NoRoutes,
               !.routing  = [NoRoutes EXCEPT !["verifier"] = "anthropic", !["search"] = "google"],
               !.routes   = [NoRoutes EXCEPT !["verifier"] = "google", !["filter"] = "openai"],
               !.default  = None,
               !.fallbacks["search"] = <<"grok">>]

MCConfigs == {Paid, Rerouted}
=============================================================================
