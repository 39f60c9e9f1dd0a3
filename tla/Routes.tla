------------------------------- MODULE Routes -------------------------------
(***************************************************************************)
(* From the configuration to the routes of the gateway: what commands and  *)
(* users write under "providers" and "models", what start warns of, and    *)
(* what a daemon that loads it makes of it.                                *)
(***************************************************************************)
EXTENDS Naturals, SequencesExt

CONSTANTS
  Providers,   \* provider names
  Models,      \* public model names
  Upstreams,   \* model names that --upstream may give
  EntryForms,  \* entries that a user writes into providers.yaml
  ValueForms,  \* values that a user writes under "models"
  MaxEntries,  \* bound on the entries of providers.yaml
  None         \* nothing: a field that is missing, a null

\* An entry of providers.yaml: id is what older versions called the name, health
\* what they kept there; validation refuses a "bad" base_url.
Entries == [name : Providers \cup {None}, id : Providers \cup {None},
            url : {"good", "bad", None}, health : {"up", "down", None}]

\* The value of a model, whether written as a name, a mapping or a list: the
\* providers in it, each with the upstream written for it, or a list of those.
Items == [provider : Providers \cup {""}, isList : BOOLEAN,
          upstreams : Seq(Models \cup Upstreams \cup {"", None})]
Values == Seq(Items)

ASSUME ConstantsOK ==
  /\ EntryForms \subseteq Entries /\ ValueForms \subseteq Values
  /\ "" \notin Providers \cup Models \cup Upstreams
  /\ None \notin Providers \cup Models \cup Upstreams \cup {"", "good", "bad", "up", "down"}
  /\ None \notin Values

VARIABLES
  entries,  \* "providers" of providers.yaml
  models    \* "models" of config.yaml: model -> its value

vars == <<entries, models>>

\* The elements of s that are in S, in their order.
Those(s, S) == FlattenSeq([i \in DOMAIN s |-> IF s[i] \in S THEN <<s[i]>> ELSE <<>>])

-----------------------------------------------------------------------------
(* What a daemon makes of it                                               *)

\* from_dict
Name(e) == IF e.name # None THEN e.name ELSE e.id

\* The health that an entry starts with: what is written there, and "down" for a
\* base_url that is missing or refused.
IsDown(e) == e.url # "good" \/ e.health = "down"

Named(p) == Those(entries, {e \in Entries : Name(e) = p})

\* Of entries with the same name the router knows the last.
Entry(p) == Last(Named(p))

Usable(p) == Named(p) # <<>> /\ ~IsDown(Entry(p))

BindingSet == [provider : Providers, upstream : Models \cup Upstreams]

\* _bindings_from_upstream: the public name stands for an upstream that is empty.
\* A null in a list is skipped.
BindingsFrom(item, m) ==
  LET written == IF item.isList THEN Those(item.upstreams, Models \cup Upstreams \cup {""})
                                ELSE item.upstreams IN
  IF item.provider = "" THEN <<>>
  ELSE [i \in DOMAIN written |->
          [provider |-> item.provider,
           upstream |-> IF written[i] \in {"", None} THEN m ELSE written[i]]]

\* _normalize_bindings
Bindings(m) ==
  IF models[m] = None THEN <<>>
  ELSE FlattenSeq([i \in DOMAIN models[m] |-> BindingsFrom(models[m][i], m)])

\* The bindings that resolve() goes through while no provider fails.
Routes(m) == Those(Bindings(m), {b \in BindingSet : Usable(b.provider)})

-----------------------------------------------------------------------------
(* What start warns of                                                     *)

\* Mutant: the base_url is not looked at.
WarnedIfIncomplete(e) == e.name = None \/ e.url = None

\* _validate_providers_config
Warned(e) == e.name = None \/ e.url = None \/ e.url = "bad"

-----------------------------------------------------------------------------
(* Commands                                                                *)

\* save_providers_config, which refuses the whole document for one base_url.
SaveProviders(new) ==
  /\ \A i \in DOMAIN new : new[i].url # "bad"
  /\ entries' = new
  /\ UNCHANGED models

Others(p) == Those(entries, {e \in Entries : e.name # p})

NewEntry(p, url) == [name |-> p, id |-> None, url |-> url, health |-> None]

\* Mutant: the new entry comes first.
ProviderAddFirst(p, url) ==
  /\ Len(entries) < MaxEntries
  /\ SaveProviders(<<NewEntry(p, url)>> \o Others(p))

\* provider add
ProviderAdd(p, url) ==
  /\ Len(entries) < MaxEntries
  /\ SaveProviders(Append(Others(p), NewEntry(p, url)))

\* provider remove
ProviderRemove(p) ==
  /\ \E i \in DOMAIN entries : entries[i].name = p
  /\ SaveProviders(Others(p))

\* What model add writes: the provider alone, or with an upstream of its own.
Value(m, p, u) ==
  <<[provider |-> p, isList |-> FALSE, upstreams |-> <<IF u = m THEN None ELSE u>>]>>

\* Mutant: the section is replaced.
ModelAddAlone(m, p, u) ==
  /\ \E i \in DOMAIN entries : entries[i].name = p
  /\ models' = [n \in Models |-> IF n = m THEN Value(m, p, u) ELSE None]
  /\ UNCHANGED entries

\* model add
ModelAdd(m, p, u) ==
  /\ \E i \in DOMAIN entries : entries[i].name = p
  /\ models' = [models EXCEPT ![m] = Value(m, p, u)]
  /\ UNCHANGED entries

\* model remove
ModelRemove(m) ==
  /\ models[m] # None
  /\ models' = [models EXCEPT ![m] = None]
  /\ UNCHANGED entries

\* config edit, or an older version of the program.
WriteEntry(e) ==
  /\ Len(entries) < MaxEntries
  /\ entries' = Append(entries, e)
  /\ UNCHANGED models

WriteModel(m, v) ==
  /\ models' = [models EXCEPT ![m] = v]
  /\ UNCHANGED entries

-----------------------------------------------------------------------------
Init == entries = <<>> /\ models = [m \in Models |-> None]

Next ==
  \/ \E p \in Providers : ProviderRemove(p) \/ \E url \in {"good", "bad"} : ProviderAdd(p, url)
  \/ \E m \in Models : ModelRemove(m)
  \/ \E m \in Models, p \in Providers, u \in Upstreams \cup {None} : ModelAdd(m, p, u)
  \/ \E e \in EntryForms : WriteEntry(e)
  \/ \E m \in Models, v \in ValueForms : WriteModel(m, v)

Spec == Init /\ [][Next]_vars

-----------------------------------------------------------------------------
(* Properties                                                              *)

\* start warns of an entry that the daemon will not use for what is written in
\* it, and of no other: the two look at it with different code, in different
\* processes.  Entries from older versions, with an id or a health, are apart.
WarningsAreRight ==
  \A i \in DOMAIN entries :
    LET e == entries[i] IN
    e.id = None /\ e.health = None => (Warned(e) <=> Name(e) = None \/ IsDown(e))

\* An edit takes effect whatever entries there were before: a provider that has
\* been added is used as it was added, one that has been removed is known only
\* from an entry of an older version, a model that has been added goes to the
\* provider and the upstream that were given and nowhere else, and one that has
\* been removed goes nowhere.
EditsTakeEffect ==
  [][/\ \A p \in Providers :
          /\ ProviderAdd(p, "good") => Usable(p)' /\ Entry(p)' = NewEntry(p, "good")
          /\ ProviderRemove(p) => \A i \in DOMAIN Named(p)' : Named(p)'[i].name = None
     /\ \A m \in Models :
          /\ ModelRemove(m) => Routes(m)' = <<>>
          /\ \A p \in Providers, u \in Upstreams \cup {None} :
               ModelAdd(m, p, u) =>
                 Routes(m)' =
                   IF Usable(p) THEN <<[provider |-> p, upstream |-> IF u = None THEN m ELSE u]>>
                                ELSE <<>>]_vars

\* The routes of m that do not go to p.
RoutesBut(m, p) == Those(Routes(m), {b \in BindingSet : b.provider # p})

\* A command that names one model or provider leaves the routes of the others,
\* and their order, as they are.
OtherRoutesStay ==
  [][/\ \A p \in Providers :
          (entries' # entries /\ \E url \in {"good", "bad"} : ProviderAdd(p, url) \/ ProviderRemove(p))
            => \A m \in Models : RoutesBut(m, p)' = RoutesBut(m, p)
     /\ \A m \in Models :
          (ModelRemove(m) \/ \E p \in Providers, u \in Upstreams \cup {None} : ModelAdd(m, p, u))
            => \A n \in Models \ {m} : Routes(n)' = Routes(n)]_vars

=============================================================================
