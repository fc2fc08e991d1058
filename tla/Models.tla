------------------------------- MODULE Models -------------------------------
(***************************************************************************)
(* Model calls (core/llm): which models an agent is built with, and how a  *)
(* call of it ends. A layer's primary model (models.yaml, or the override  *)
(* of the user whose turn it is) and its fallback chain are resolved to    *)
(* entries, one per Google API key; resolutions are cached, and so are     *)
(* the agents of the verifier and the filter. A call asks the entries in   *)
(* turn, asks again for output that does not validate, within the limits   *)
(* of its layer, and starts over after transient errors. Calls of several  *)
(* turns run at once; the environment's keys and models.yaml may change    *)
(* between any two steps.                                                  *)
(*                                                                         *)
(* A model given by its name finds its provider's key when it is built,    *)
(* which is now if it is one of several entries and at each run if it is   *)
(* the only one. Tokens are counted in units, of which a response spends   *)
(* one or as many as it may. Backoff and the contents of prompts, settings *)
(* and answers are left out, and so are tool-driving calls, which are in   *)
(* Orchestration.                                                          *)
(***************************************************************************)
EXTENDS Naturals, Sequences, FiniteSets, SequencesExt

CONSTANTS
  Calls,         \* model calls, each of a turn of its own
  Provider,      \* per model, its provider
  Override,      \* per call and layer, the model its user chose, if any
  Configs,       \* the versions of models.yaml: its sections defaults,
                 \* routing and routes, its models per provider and layer,
                 \* and its fallbacks per layer
  Others,        \* the providers that _PROVIDER_KEY_ENVS does not list
  Keys,          \* the key variables, <<provider, number>>
  Values,        \* what they may be set to
  InitKeys,      \* what they may be set to at first
  MaxGoogleKeys, \* bound on the numbers of google keys
  MaxChanges,    \* bound on the changes of keys and configuration
  MaxAttempts,   \* LLM_TRANSIENT_MAX_RETRIES + 1
  MaxRetries,    \* VERIFIER_MAX_RETRIES and FILTER_MAX_RETRIES
  MaxTokens,     \* VERIFIER_MAX_TOKENS
  MaxCached,     \* _RESOLVED_CACHE_MAX
  None

Layers == {"verifier", "filter", "search"}
Names  == DOMAIN Provider

\* The providers of _PROVIDER_KEY_ENVS; only google's keys are numbered.
Listed    == {"google", "anthropic", "openai"}
Providers == Listed \cup Others
KeyNames  == ({"google"} \X (1 .. MaxGoogleKeys)) \cup ((Providers \ {"google"}) \X {1})

Choice == [Layers -> Names \cup {None}]
Config ==
  [defaults : [Layers -> Providers \cup {None}], routing : [Layers -> Providers \cup {None}],
   routes : [Layers -> Providers \cup {None}], default : Providers \cup {None},
   models : [Providers -> Choice], fallbacks : [Layers -> Seq(Names)]]

ASSUME ModelsAssumption ==
  /\ Provider \in [Names -> Providers]
  /\ Override \in [Calls -> Choice]
  /\ Configs \subseteq Config
  /\ Keys \subseteq KeyNames /\ \A m \in Names : <<Provider[m], 1>> \in Keys
  /\ Others \cap Listed = {}
  /\ InitKeys \subseteq [Keys -> Values \cup {None}]
  /\ {MaxGoogleKeys, MaxAttempts, MaxTokens, MaxCached} \subseteq Nat \ {0}
  /\ {MaxChanges, MaxRetries} \subseteq Nat
  /\ None \notin Names \cup Values \cup Providers \cup Layers

VARIABLES
  config,     \* the models.yaml that load_model_registry holds
  keys,       \* per key variable, what it is set to
  changes,    \* number of changes of the two
  resolved,   \* _resolved_models: per cache key, the entries, and the
              \* configuration and the keys they were resolved with
  agents,     \* the cache of build_agent: per layer, the agent's entries
  call        \* per call, where it stands

vars  == <<config, keys, changes, resolved, agents, call>>
world == <<config, keys, changes>>

---------------------------------------------------------------------------
\* Which models: registry/config/models.py and core/llm/registry.py. What is
\* read of the world comes as cfg, a version of models.yaml, and ks, the keys.

\* for_role: sections in increasing precedence, then the default provider.
ProviderOf(cfg, layer) ==
  LET named == <<cfg.routes[layer], cfg.routing[layer], cfg.defaults[layer], cfg.default, "google">>
  IN named[CHOOSE i \in 1 .. 5 : named[i] # None /\ \A j \in 1 .. i - 1 : named[j] = None]

\* The layer's model of that provider, None where for_role raises.
Primary(cfg, layer) == cfg.models[ProviderOf(cfg, layer)][layer]

IsSet(ks, k) == k \in Keys /\ ks[k] # None

\* The key a provider looks for by itself.
OwnKey(model) == <<Provider[model], 1>>

\* _google_api_keys: the first one, then 2, 3, ... until one is missing.
GoogleKeys(ks) ==
  LET first == IF IsSet(ks, <<"google", 1>>) THEN 1 ELSE 2
      last  == CHOOSE n \in 1 .. MaxGoogleKeys :
                 /\ ~IsSet(ks, <<"google", n + 1>>)
                 /\ \A m \in 2 .. n : IsSet(ks, <<"google", m>>)
  IN [i \in 1 .. last + 1 - first |-> ks[<<"google", first - 1 + i>>]]

\* The models of which _provider_available says that they can be asked: an
\* unknown provider is left to the framework to decide.
Available(ks) ==
  {m \in Names : \/ Provider[m] \in Others
                 \/ Provider[m] = "google" /\ GoogleKeys(ks) # <<>>
                 \/ Provider[m] \in Listed \ {"google"} /\ IsSet(ks, OwnKey(m))}

\* _expand_keys: one entry per google key, if there are several; everything
\* else is a plain string, without a key of its own.
Expand(ks, model) ==
  IF Provider[model] = "google" /\ Len(GoogleKeys(ks)) > 1
  THEN [i \in DOMAIN GoogleKeys(ks) |-> [model |-> model, key |-> GoogleKeys(ks)[i]]]
  ELSE <<[model |-> model, key |-> None]>>

\* The models of the sequence that are in S.
Among(models, S) ==
  FlattenSeq([i \in DOMAIN models |-> IF models[i] \in S THEN <<models[i]>> ELSE <<>>])

\* Mutant of Promoted: the primary stays although it has no key.
PromotedNever(available, named, chain) == <<named>> \o chain

\* The chain entry that takes the place of a primary without a key.
Promoted(available, named, chain) ==
  IF named \notin available /\ chain # <<>> THEN chain ELSE <<named>> \o chain

\* model_name_for_layer: the user's choice wins over models.yaml.
Named(cfg, layer, override) == IF override # None THEN override ELSE Primary(cfg, layer)

\* The entries of a layer, in the order in which they are asked.
EntriesFor(cfg, ks, layer, override) ==
  LET named  == Named(cfg, layer, override)
      chain  == Among(cfg.fallbacks[layer], Available(ks) \ {named})
      models == Promoted(Available(ks), named, chain)
  IN FlattenSeq([i \in DOMAIN models |-> Expand(ks, models[i])])

\* The key an entry is built with.
KeyOf(ks, entry) ==
  IF entry.key # None THEN entry.key
  ELSE IF IsSet(ks, OwnKey(entry.model)) THEN ks[OwnKey(entry.model)] ELSE None

\* model_for_layer without its cache. Empty where it raises: nothing names a
\* model, or one of several entries has no key to be built with.
Resolve(cfg, ks, layer, override) ==
  IF Named(cfg, layer, override) = None THEN <<>>
  ELSE LET entries == EntriesFor(cfg, ks, layer, override)
       IN IF Len(entries) > 1 /\ \E i \in DOMAIN entries : KeyOf(ks, entries[i]) = None
          THEN <<>> ELSE entries

\* Mutant of CacheKey: which google keys there are does not count.
CacheKeyOfProviders(ks, layer, override) ==
  <<layer, override, GoogleKeys(ks) # <<>>,
    IsSet(ks, <<"anthropic", 1>>), IsSet(ks, <<"openai", 1>>)>>

\* The values of google's keys, whether anthropic and openai have one, and
\* nothing of the others.
CacheKey(ks, layer, override) ==
  <<layer, override, GoogleKeys(ks), IsSet(ks, <<"anthropic", 1>>), IsSet(ks, <<"openai", 1>>)>>

\* model_for_layer: what it returns and what it keeps of it.
ModelFor(layer, override) ==
  LET k == CacheKey(keys, layer, override)
  IN IF k \in DOMAIN resolved THEN resolved[k]
     ELSE [entries |-> Resolve(config, keys, layer, override), config |-> config, keys |-> keys]

Remember(layer, override) ==
  LET k   == CacheKey(keys, layer, override)
      new == ModelFor(layer, override)
  IN resolved' = IF k \in DOMAIN resolved \/ new.entries = <<>> THEN resolved
                 ELSE IF Cardinality(DOMAIN resolved) >= MaxCached THEN [x \in {k} |-> new]
                 ELSE [x \in DOMAIN resolved \cup {k} |-> IF x = k THEN new ELSE resolved[x]]

---------------------------------------------------------------------------
\* Building an agent

\* What a call could be answered with: the models its layer names, google's
\* with every key _google_api_keys lists, the others with their provider's own.
\* A single google key that is numbered does not count: a plain string never
\* finds it.
Owed(cfg, ks, layer, override) ==
  {e \in [model : ({Named(cfg, layer, override)} \cup ToSet(cfg.fallbacks[layer])) \ {None},
          key : Values \cup {None}] :
     IF Provider[e.model] = "google" /\ Len(GoogleKeys(ks)) > 1
     THEN e.key \in ToSet(GoogleKeys(ks))
     ELSE e.key = None /\ IsSet(ks, OwnKey(e.model))}

Cached(layer) == layer \in {"verifier", "filter"}

NoAgent == [entries |-> <<>>, owed |-> {}]
NoCall  ==
  [phase |-> "new", layer |-> None, entries |-> <<>>, owed |-> {},
   attempt |-> 1, pos |-> 1, requests |-> 1, tokens |-> 0, errors |-> {}, tried |-> {}]
Done(phase) == [NoCall EXCEPT !.phase = phase]

Begun(c, layer, agent) ==
  call' = [call EXCEPT ![c] = [NoCall EXCEPT !.phase = "asking", !.layer = layer,
                                             !.entries = agent.entries, !.owed = agent.owed]]

\* build_agent finds the layer's agent, whosever turn it was built in.
Reuse(c, layer) ==
  /\ call[c].phase = "new"
  /\ Cached(layer) /\ agents[layer] # NoAgent
  /\ Begun(c, layer, agents[layer])
  /\ UNCHANGED <<world, resolved, agents>>

\* An agent is built; its settings need a profile of the layer too.
Build(c, layer) ==
  LET override == Override[c][layer]
      model == ModelFor(layer, override)
      agent == [entries |-> model.entries, owed |-> Owed(model.config, keys, layer, override)] IN
  /\ call[c].phase = "new"
  /\ Cached(layer) => agents[layer] = NoAgent
  /\ Remember(layer, override)
  /\ \/ /\ agent.entries # <<>> /\ Primary(config, layer) # None
        /\ Begun(c, layer, agent)
        /\ agents' = IF Cached(layer) THEN [agents EXCEPT ![layer] = agent] ELSE agents
     \/ /\ agent.entries = <<>> \/ Primary(config, layer) = None
        /\ call' = [call EXCEPT ![c] =
                     [Done(IF agent.entries = <<>> /\ Named(config, layer, override) # None
                           THEN "crashed" ELSE "misconfigured") EXCEPT !.layer = layer]]
        /\ UNCHANGED agents
  /\ UNCHANGED world

---------------------------------------------------------------------------
\* Running it: run_structured, run_agent and the framework

\* Mutant of RequestLimit: the retries, but not the first request.
RequestLimitOfRetries(layer) == IF layer = "verifier" THEN MaxRetries ELSE 1

\* usage_limits_for_layer
RequestLimit(layer) == IF layer = "verifier" THEN MaxRetries + 1 ELSE 1
TokenLimit(layer)   == IF layer = "verifier" THEN MaxTokens ELSE MaxTokens * (MaxRetries + 1)

\* An agent on a plain model string looks for its key when it runs.
Asking(c) ==
  /\ call[c].phase = "asking"
  /\ Len(call[c].entries) = 1 => KeyOf(keys, call[c].entries[1]) # None

\* A failed call's error names the layer's model, resolved again.
Fails(c, failed) ==
  /\ call' = [call EXCEPT ![c] = failed]
  /\ IF call[c].layer = "search" THEN UNCHANGED resolved
     ELSE Remember(call[c].layer, Override[c][call[c].layer])

Unkeyed(c) ==
  /\ call[c].phase = "asking" /\ ~Asking(c)
  /\ Fails(c, Done("unkeyed"))
  /\ UNCHANGED <<world, agents>>

Within(c, spent) == call[c].tokens + spent <= TokenLimit(call[c].layer)

\* The framework counts a response's tokens before it looks at it.
Overspends(c, spent) ==
  /\ Asking(c) /\ ~Within(c, spent)
  /\ call' = [call EXCEPT ![c].phase = "capped", ![c].tokens = @ + spent]
  /\ UNCHANGED <<world, resolved, agents>>

Answered(c, spent) ==
  /\ Asking(c) /\ Within(c, spent)
  /\ call' = [call EXCEPT ![c] = Done("answered")]
  /\ UNCHANGED <<world, resolved, agents>>

\* A response that does not validate, while the agent has retries left: one
\* more request, if the limit allows it, from the first entry on.
Malformed(c, spent) ==
  /\ Asking(c) /\ call[c].layer # "search" /\ Within(c, spent)
  /\ call[c].requests <= MaxRetries
  /\ IF call[c].requests = RequestLimit(call[c].layer)
     THEN call' = [call EXCEPT ![c].phase = "capped"]
     ELSE call' = [call EXCEPT ![c].requests = @ + 1, ![c].tokens = @ + spent,
                               ![c].pos = 1, ![c].errors = {}, ![c].tried = {}]
  /\ UNCHANGED <<world, resolved, agents>>

\* The last retry is malformed as well.
NeverValid(c, spent) ==
  /\ Asking(c) /\ call[c].layer # "search" /\ Within(c, spent)
  /\ call[c].requests = MaxRetries + 1
  /\ Fails(c, Done("raised"))
  /\ UNCHANGED <<world, agents>>

\* Mutant of Transient: a chain is tried again only if nothing else failed it.
TransientOnly(errors) == errors = {"transient"}

\* _is_transient, of one error and of a group
Transient(errors) == "transient" \in errors

\* The run starts over, on what is left of its attempts.
Again(failed, attempt) ==
  [failed EXCEPT !.attempt = attempt, !.pos = 1, !.requests = 1, !.tokens = 0,
                 !.errors = {}, !.tried = {}]

\* Mutant of AgainOrFail: attempts are not counted.
AgainForEver(c, failed, end) ==
  IF Transient(failed.errors)
  THEN /\ call' = [call EXCEPT ![c] = Again(failed, 1)] /\ UNCHANGED resolved
  ELSE Fails(c, end)

\* run_agent: all of the run once more, on the budget of attempts.
AgainOrFail(c, failed, end) ==
  IF Transient(failed.errors) /\ failed.attempt < MaxAttempts
  THEN /\ call' = [call EXCEPT ![c] = Again(failed, failed.attempt + 1)]
       /\ UNCHANGED resolved
  ELSE Fails(c, end)

\* A model API error moves on to the next entry; after the last one the run
\* fails with the errors of all.
EntryFails(c, error) ==
  LET entry  == call[c].entries[call[c].pos]
      failed == [call[c] EXCEPT !.errors = @ \cup {error}, !.tried = @ \cup {entry}]
  IN
  /\ Asking(c)
  /\ \/ /\ call[c].pos < Len(call[c].entries)
        /\ call' = [call EXCEPT ![c] = [failed EXCEPT !.pos = @ + 1]]
        /\ UNCHANGED resolved
     \/ /\ call[c].pos = Len(call[c].entries)
        /\ AgainOrFail(c, failed, [failed EXCEPT !.phase = "exhausted"])
  /\ UNCHANGED <<world, agents>>

\* An error the chain does not handle, a transport error among them.
Raises(c, error) ==
  /\ Asking(c)
  /\ AgainOrFail(c, [call[c] EXCEPT !.errors = {error}], Done("raised"))
  /\ UNCHANGED <<world, agents>>

---------------------------------------------------------------------------

\* A key is set, replaced or, with None, unset.
SetKey(k, value) ==
  /\ changes < MaxChanges /\ changes' = changes + 1
  /\ value # keys[k] /\ keys' = [keys EXCEPT ![k] = value]
  /\ UNCHANGED <<config, resolved, agents, call>>

\* models.yaml is edited and load_model_registry.cache_clear() called.
Reload(version) ==
  /\ changes < MaxChanges /\ changes' = changes + 1
  /\ version # config /\ config' = version
  /\ UNCHANGED <<keys, resolved, agents, call>>

Init ==
  /\ config \in Configs /\ keys \in InitKeys /\ changes = 0
  /\ resolved = <<>>
  /\ agents = [l \in {"verifier", "filter"} |-> NoAgent]
  /\ call = [c \in Calls |-> NoCall]

Begin(c) ==
  \E layer \in Layers : Reuse(c, layer) \/ Build(c, layer)

Proceed(c) ==
  /\ call[c].phase = "asking"
  /\ \/ Unkeyed(c)
     \/ \E spent \in 1 .. MaxTokens :
          \/ Overspends(c, spent) \/ Answered(c, spent)
          \/ Malformed(c, spent) \/ NeverValid(c, spent)
     \/ \E error \in {"transient", "permanent"} : EntryFails(c, error) \/ Raises(c, error)

Next ==
  \/ \E c \in Calls : Begin(c) \/ Proceed(c)
  \/ \E k \in Keys, value \in Values \cup {None} : SetKey(k, value)
  \/ \E version \in Configs : Reload(version)

\* A request that was made is answered or fails: clients time out.
Spec == Init /\ [][Next]_vars /\ \A c \in Calls : WF_vars(Proceed(c))

---------------------------------------------------------------------------
\* Correctness

Over     == {"answered", "capped", "exhausted", "raised", "unkeyed", "misconfigured", "crashed"}
Entries  == [model : Names, key : Values \cup {None}]
CallType ==
  [phase : {"new", "asking"} \cup Over, layer : Layers \cup {None},
   entries : Seq(Entries), owed : SUBSET Entries,
   attempt : 1 .. MaxAttempts, pos : Nat \ {0}, requests : 1 .. MaxRetries + 1, tokens : Nat,
   errors : SUBSET {"transient", "permanent"}, tried : SUBSET Entries]

TypeOK ==
  /\ config \in Configs /\ keys \in [Keys -> Values \cup {None}] /\ changes \in 0 .. MaxChanges
  /\ Cardinality(DOMAIN resolved) <= MaxCached
  /\ \A k \in DOMAIN resolved :
       /\ resolved[k].config \in Configs /\ resolved[k].keys \in [Keys -> Values \cup {None}]
       /\ resolved[k].entries \in Seq(Entries) \ {<<>>}
  /\ \A l \in DOMAIN agents : agents[l].entries \in Seq(Entries)
  /\ call \in [Calls -> CallType]

\* The cache of resolved models never misses a google key or a provider of
\* _PROVIDER_KEY_ENVS that came or went: as long as models.yaml is the same, it
\* returns the models and google keys that a resolution would list with the
\* keys of the moment, in the same order, and no google key the environment
\* holds no more (registry.py:117-120, 142-153). Replaced keys of the others are
\* missed: CacheKeyComplete.
CacheTransparent ==
  \A k \in DOMAIN resolved :
    LET layer == k[1]  override == k[2]  r == resolved[k] IN
    (k = CacheKey(keys, layer, override) /\ r.config = config) =>
      /\ r.entries = EntriesFor(config, keys, layer, override)
      /\ \A i \in DOMAIN r.entries :
           (Len(r.entries) > 1 /\ Provider[r.entries[i].model] = "google")
             => KeyOf(r.keys, r.entries[i]) \in ToSet(GoogleKeys(keys))

CacheInv == TypeOK /\ CacheTransparent

\* "one provider/model outage or quota never takes a run down with it": a call
\* fails for its models only when every model with every google key there was
\* when its agent was built, and every model whose provider had a key, has
\* failed it in the last attempt, and nothing of that was transient or no
\* attempt is left. Which key of its own a provider used is left open.
NoEntryUntried ==
  \A c \in Calls : call[c].phase = "exhausted" =>
    /\ call[c].owed \subseteq call[c].tried
    /\ call[c].attempt = MaxAttempts \/ "transient" \notin call[c].errors

\* Entries without a key never stop an agent from being built, but for google
\* models when the only google key is a numbered one, and for models of
\* providers that _PROVIDER_KEY_ENVS does not list (registry.py:81-93, 160-169).
BuildsWhenKeyed ==
  [][\A c \in Calls : (call[c].phase = "new" /\ call'[c].phase = "crashed") =>
       LET layer  == call'[c].layer
           models == {Named(config, layer, Override[c][layer])} \cup ToSet(config.fallbacks[layer])
       IN \E m \in models :
            /\ ~IsSet(keys, OwnKey(m))
            /\ Provider[m] \in Others \/ (Provider[m] = "google" /\ Len(GoogleKeys(keys)) = 1)]_vars

\* The verifier's retries are never cut short by its request limit, only by
\* the tokens of its earlier responses.
CappedByTokensOnly ==
  \A c \in Calls : (call[c].layer = "verifier" /\ call[c].phase = "capped") =>
    call[c].tokens > MaxTokens

\* A model call ends, whatever its providers do: from some time on none asks any
\* more, as a call begins once and asks until it is over.
CallsEnd == <>[](\A c \in Calls : call[c].phase # "asking")

---------------------------------------------------------------------------
\* Claims of the documentation, checked on their own

\* registry.py:17-20: overrides are of "the requesting user's preferences", and
\* "concurrent runs by different users never see each other's choices".
OverrideIsolated ==
  \A c \in Calls : call[c].phase = "asking" =>
    \A i \in DOMAIN call[c].entries :
      call[c].entries[i].model \in
        {Override[c][call[c].layer], Primary(config, call[c].layer)}
          \cup ToSet(config.fallbacks[call[c].layer])

\* registry.py:125: "keyed by everything that can change a resolution".
CacheKeyComplete ==
  \A k \in DOMAIN resolved :
    LET r == resolved[k] IN
    k = CacheKey(keys, k[1], k[2]) =>
      /\ r.entries = Resolve(config, keys, k[1], k[2])
      /\ \A i \in DOMAIN r.entries :
           Len(r.entries) > 1 => KeyOf(r.keys, r.entries[i]) = KeyOf(keys, r.entries[i])

\* registry.py:52-53: "Chain entries for providers without a key are skipped
\* instead of crashing the agent build". A crash is then google's numbered key.
KeylessSkipped ==
  [][\A c \in Calls : (call[c].phase = "new" /\ call'[c].phase = "crashed") =>
       Len(GoogleKeys(keys)) = 1 /\ ~IsSet(keys, <<"google", 1>>)]_vars

\* registry.py:192: "A one-shot structured agent (verifier, filter) needs
\* retries + 1 (each malformed-output retry is a request)".
RetriesAffordable == \A c \in Calls : call[c].phase # "capped"
============================================================================
