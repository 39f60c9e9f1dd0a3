------------------------------ MODULE Failover ------------------------------
(***************************************************************************)
(* What the gateway promises about failover, apart from how it serves a    *)
(* request: each provider has a breaker.  A request goes to the first      *)
(* binding of its model whose breaker is closed.  A provider that fails to *)
(* be available has its breaker opened in the very step that ends the      *)
(* exchange, and nothing else ever opens a breaker; time alone closes it.  *)
(* A blocked provider (one that was down when the configuration was        *)
(* loaded) never serves at all.                                            *)
(***************************************************************************)
EXTENDS Naturals, Sequences

CONSTANTS
  Providers,   \* the configured providers
  Blocked,     \* those that are down for good
  Models,      \* the public model names
  Bindings,    \* model -> sequence of provider names, in order of preference
  Requests,    \* connections on which requests are served
  Cooldown,    \* clock ticks a breaker stays open
  None         \* no provider

VARIABLES
  breaker,     \* provider -> ticks until its breaker closes
  serving,     \* request -> the provider it was routed to, or None
  verdict      \* request -> what became of the exchange

abstractVars == <<breaker, serving, verdict>>

Verdicts == {"pending", "released", "failed"}

Closed(p) == p \in Providers \ Blocked /\ breaker[p] = 0

\* The bindings of m that a request may use now, as positions.
Usable(m) == {i \in DOMAIN Bindings[m] : Closed(Bindings[m][i])}

FirstUsable(m, p) ==
  \E i \in Usable(m) : Bindings[m][i] = p /\ \A j \in Usable(m) : i <= j

AbstractInit ==
  /\ breaker = [p \in Providers |-> 0]
  /\ serving = [r \in Requests |-> None]
  /\ verdict = [r \in Requests |-> "pending"]

\* A request is routed to the first binding with a closed breaker.
Route(r) ==
  /\ serving[r] = None
  /\ \E m \in Models : \E p \in Providers :
       FirstUsable(m, p) /\ serving' = [serving EXCEPT ![r] = p]
  /\ UNCHANGED <<breaker, verdict>>

\* The exchange ends and says nothing against the provider.
Serve(r) ==
  /\ serving[r] # None /\ verdict[r] = "pending"
  /\ verdict' = [verdict EXCEPT ![r] = "released"]
  /\ UNCHANGED <<breaker, serving>>

\* The exchange shows the provider unavailable: its breaker opens now.
Trip(r) ==
  /\ serving[r] # None /\ verdict[r] = "pending"
  /\ verdict' = [verdict EXCEPT ![r] = "failed"]
  /\ breaker' = [breaker EXCEPT ![serving[r]] = Cooldown]
  /\ UNCHANGED serving

\* The connection is free again.
Leave(r) ==
  /\ serving[r] # None /\ verdict[r] # "pending"
  /\ serving' = [serving EXCEPT ![r] = None]
  /\ verdict' = [verdict EXCEPT ![r] = "pending"]
  /\ UNCHANGED breaker

\* Time passes, for all breakers alike.
Elapse ==
  /\ breaker' = [p \in Providers |-> IF breaker[p] = 0 THEN 0 ELSE breaker[p] - 1]
  /\ UNCHANGED <<serving, verdict>>

AbstractNext ==
  \/ \E r \in Requests : Route(r) \/ Serve(r) \/ Trip(r) \/ Leave(r)
  \/ Elapse

AbstractSpec == AbstractInit /\ [][AbstractNext]_abstractVars
=============================================================================
