------------------------------ MODULE MCConfig ------------------------------
(* Instances of Config for TLC.                                            *)
EXTENDS Config

CONSTANTS c1, c2, p1, p2, m1, url1, url2, pkey1, key1, fresh1, gw1, gw2

\* A provider at url2 would be the gateway itself if that listened at gw2.
MCRejected == [g \in {gw1, gw2} |-> IF g = gw2 THEN {url2} ELSE {}]

Entry1 == [p \in {p1, p2} |-> IF p = p1 THEN [url |-> url1, key |-> pkey1] ELSE None]
Map1 == [m \in {m1} |-> p1]

Nothing == [config |-> None, providers |-> None, models |-> None, backup |-> None]

\* As of today, with settings of its own.
Current ==
  [Nothing EXCEPT
     !.config = [gateway |-> gw2, models |-> Map1, key |-> None, comments |-> TRUE],
     !.providers = [entries |-> Entry1, gateway |-> None]]

\* Two files, before config.yaml existed.
Old == [Nothing EXCEPT !.providers = [entries |-> Entry1, gateway |-> gw2], !.models = Map1]

\* One file only; with providers.yaml when the upgrade was not completed.
OneFile == [Nothing EXCEPT !.config = Ancient]

MCDisks ==
  {Nothing, Current, Old, OneFile, [Old EXCEPT !.config = Ancient],
   [Old EXCEPT !.providers = None], [Old EXCEPT !.models = None],
   [Old EXCEPT !.providers.entries[p2] = [url |-> url2, key |-> None]],
   [Current EXCEPT !.providers.entries[p2] = [url |-> url2, key |-> None]]}
=============================================================================
