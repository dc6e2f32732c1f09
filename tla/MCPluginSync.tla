---------------------------- MODULE MCPluginSync ----------------------------
(***************************************************************************)
(* PluginSync for TLC: two plugin configurations, some of whose plugins    *)
(* run before the request, and two routes.                                 *)
(***************************************************************************)
EXTENDS PluginSync, TLC

CONSTANTS r1, r2

Plain(conf) == [type |-> "", conf |-> conf]
PreReq(conf) == [type |-> "pre-req", conf |-> conf]

\* The plugins of configuration a in each of its versions, and of b.
PluginsOfA(v) ==
  IF v = <<1>>
  THEN "rewrite" :> Plain("c1") @@ "limit" :> Plain("c1")
  ELSE "rewrite" :> Plain("c2") @@ "limit" :> Plain("bad") @@ "auth" :> PreReq("c2")
PluginsOfB(v) ==
  IF v = <<1>>
  THEN "limit" :> Plain("b") @@ "audit" :> PreReq("b")
  ELSE "limit" :> PreReq("b") @@ "prometheus" :> Plain("b")

A(v) == [name |-> "a", version |-> v, plugins |-> PluginsOfA(v)]
B(v) == [name |-> "b", version |-> v, plugins |-> PluginsOfB(v)]

MCPluginNames ==
  {"rewrite", "limit", "auth", "audit", "prometheus", "fault-injection"}

MCVersions == {<<1>>, <<2>>}

\* Both configurations, only the newer version of one of them; that of b gives a
\* plugin another type and has one that the mesh asks for too.
MCResponses == {<<A(<<1>>), B(<<1>>)>>, <<A(<<2>>)>>, <<B(<<2>>)>>}

MCOnlyA == {<<A(v)>> : v \in MCVersions}

\* No route, and two.
MCMeshRoutes == {<< >>, r1 :> {"prometheus", "fault-injection"} @@ r2 :> {"prometheus"}}

=============================================================================
