---------------------------- MODULE MCPublishing ----------------------------
\* One plugin with a second one of the same last segment that depends on it.
EXTENDS Publishing

V(a, b, c) == <<a, ".", b, ".", c>>
V101 == V("1", "0", "1")
V110 == V("1", "10", "0")
V200 == V("2", "0", "0")
Calc == <<"org", ".", "calc">>
Calc2 == <<"net", ".", "calc">>

Entry(path, digest) == [path |-> path, digest |-> digest]
Manifest(plugin, v, eps, signing, deps) ==
  [plugin |-> plugin, version |-> v, eps |-> eps, signing |-> signing, deps |-> deps,
   formed |-> TRUE, fits |-> TRUE, risky |-> FALSE, caps |-> "c1"]
Linux(path) == [linux |-> Entry(path, Placeholder)]
Both == [linux |-> Entry(<<"linux", "tool">>, Placeholder),
         mac |-> Entry(<<"mac", "tool">>, Placeholder)]

\* Of two of the manifests the binary has the name under which packages arrive;
\* the fourth one is of a risky plugin; the last one has no display name.
MCTemplates ==
  {Manifest(Calc, V101, Linux(<<"calc">>), "k1", {}),
   [Manifest(Calc, V110, Both, "k1", {}) EXCEPT !.caps = "c2"],
   Manifest(Calc, V200 \o <<"-", "rc">>, Linux(<<"tool">>), "k2", {}),
   [Manifest(Calc2, V200, Linux(<<"bin", "calc">>), "k1",
             {[plugin |-> Calc, range |-> {V101, V110}]}) EXCEPT !.risky = TRUE],
   [Manifest(Calc2, V110, Linux(<<"calc">>), "k1", {}) EXCEPT !.formed = FALSE]}

MCConsents == {{"risk", "ack"}, {"dev"}}

MCArguments ==
  {<<"template", "binary", "--key-file", "key", "--out", "out">>,
   <<"--out", "out", "--key-file", "key", "template", "binary">>,
   <<"template", "--out", "out", "--unknown", "binary", "--key-file", "key">>}

MCTrusted == [k1 |-> [id |-> "k1", number |-> 1]]
MCBlocked == {[plugin |-> Calc, max |-> <<V("1", "2", "0") \o <<"-", "rc", ".", "1">> >>]}

MCAliasTables ==
  {<<>>, <<"calc">> :> [plugin |-> Calc, version |-> <<V110>>]}

Block(key, items) == [key |-> key, array |-> TRUE, items |-> items]
Add(params) == Block(<<"calc", "::", "add">>, params)
AddA(params) == Block(<<"calc", "::", "add", "|", "a">>, params)
AddBlank(params) == Block(<<"calc", "::", "add", "|", " ", "a">>, params)
SubV(params) == Block(<<"calc", "::", "sub", "|", "v">>, params)
AddPinned(v, params) == Block(<<"calc", "::">> \o v \o <<"::", "add">>, params)
AddPinnedB(v, params) ==
  Block(<<"calc", "::">> \o v \o <<"::", "add", "|", "b">>, params)

MCNumberOf == ("0" :> 0) @@ ("1" :> 1) @@ ("2" :> 2) @@ ("10" :> 10)

MCFiles ==
  {<<Add(<<"p", "q">>), AddA(<<"r", "s">>), AddPinned(V110, <<"t">>)>>,
   <<AddPinned(V101, <<"p", "q">>), AddPinnedB(V101, <<"r">>), AddPinned(V110, <<"t">>)>>,
   <<AddBlank(<<"p">>), AddA(<<"q">>)>>,
   <<AddPinnedB(V200, <<"p">>), SubV(<<"q">>)>>,
   <<SubV(<<"p">>), Block(<<"sub">>, <<"q">>)>>,
   <<SubV(<<"p">>), [key |-> <<"calc", "::", "add">>, array |-> FALSE, items |-> <<>>]>>}
=============================================================================
