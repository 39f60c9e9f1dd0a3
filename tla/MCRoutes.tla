------------------------------ MODULE MCRoutes ------------------------------
(* Instances of Routes for TLC.                                            *)
EXTENDS Routes

E(name, id, url, health) == [name |-> name, id |-> id, url |-> url, health |-> health]

Written == {
  E("p", None, "good", None), E("p", None, "bad", None), E("q", None, None, None),
  E(None, None, "good", None), E(None, "p", "good", "up"), E("q", "p", "good", "down")}

OnlyNew == {e \in Written : e.id = None}

I(provider, isList, upstreams) == [provider |-> provider, isList |-> isList, upstreams |-> upstreams]

ModelValues == {
  <<>>,
  <<I("q", FALSE, <<None>>)>>,
  <<I("p", FALSE, <<None>>), I("q", FALSE, <<"u">>), I("p", FALSE, <<"u">>)>>,
  <<I("q", TRUE, <<"u", None, "">>), I("", FALSE, <<"u">>), I("p", TRUE, <<>>)>>}
=============================================================================
