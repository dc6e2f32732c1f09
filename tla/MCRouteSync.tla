----------------------------- MODULE MCRouteSync -----------------------------
(***************************************************************************)
(* Three states of a mesh with two route configurations, "out" for outgoing *)
(* and "in" for incoming HTTP requests.                                    *)
(***************************************************************************)
EXTENDS RouteSync

CONSTANTS out, in

MCLowerCase == ("U" :> "u") @@ ("X" :> "x")

Match(name, kind, text) ==
  [name |-> name, kind |-> kind, text |-> text, invert |-> FALSE, nocase |-> FALSE]

\* A route to one cluster without any conditions; others are exceptions to it.
To(name, cluster, kind, text) ==
  [name |-> name, sensitive |-> "unset", path |-> [kind |-> kind, text |-> text],
   headers |-> << >>, params |-> << >>, action |-> "cluster",
   clusters |-> <<[name |-> cluster, weight |-> 1]>>, fault |-> {}, timeout |-> 0]

Split(r, c1, w1, c2, w2) ==
  [r EXCEPT !.action = "weighted",
            !.clusters = <<[name |-> c1, weight |-> w1], [name |-> c2, weight |-> w2]>>]

Domain(star, text, port) == [star |-> star, text |-> text, port |-> port]

\* A host, with the port of the listener and without it.
Named(text) == {Domain(FALSE, text, 0), Domain(FALSE, text, 80)}

VHost(name, domains, rs) == [name |-> name, domains |-> domains, routes |-> rs]

Listener(addr, filters) == [socket |-> TRUE, addr |-> addr, filters |-> filters]
Filter(kind, config) == [kind |-> kind, config |-> config]

AllowAny == VHost("allow_any", {AnyDomain}, <<To("allow_any", "passthrough", "prefix", << >>)>>)

\* Routes of one name are told apart by their conditions.
Reviews ==
  VHost("reviews", Named(<<"a">>),
        <<[To("anon", "v2", "prefix", <<"p">>) EXCEPT
             !.headers = <<Match(<<"x", "-", "U">>, "exact", <<"u">>)>>],
          [Split(To("anon", "v1", "prefix", <<"p">>), "v1", 90, "v2", 10) EXCEPT
             !.headers = <<Match(<<"X", "-", "u">>, "prefix", <<"v">>),
                           Match(Method, "exact", <<"G">>)>>,
             !.fault = {{[kind |-> "abort", type |-> "status", value |-> 500,
                          percent |-> [numerator |-> 550, denominator |-> 10000]]}}],
          [To("old", "v1", "path", <<"q">>) EXCEPT !.sensitive = "false"]>>)

\* Hosts that end in ".n"; the texts for "d.n" have a dot, so that Envoy and
\* APISIX read them differently.
Wild ==
  VHost("wild", {Domain(TRUE, <<".", "n">>, 0)},
        <<[To("anon", "v1", "prefix", <<"p">>) EXCEPT !.fault = {{}}]>>)
Dotted ==
  VHost("dotted", Named(<<"d", ".", "n">>),
        <<[To("anon", "v2", "prefix", <<"p">>) EXCEPT
             !.headers = <<Match(Authority, "exact", <<"d", ".", "n">>)>>]>>)

\* Two routes with one name and the same conditions, and one with others.
Local ==
  VHost("inbound", Named(<<"b">>),
        <<To("anon", "v1", "prefix", <<"p">>), To("anon", "v2", "prefix", <<"p">>),
          [To("anon", "local", "path", <<"q", "p">>) EXCEPT
             !.params = <<[Match("x", "suffix", <<"U">>) EXCEPT !.nocase = TRUE]>>]>>)
AnyHost == VHost("any_host", {Domain(TRUE, << >>, 80)}, <<To("anon", "v3", "prefix", <<"p">>)>>)

Redirect == [To("moved", "v1", "path", <<"r">>) EXCEPT !.action = "redirect"]

OutRules == [name |-> out, vhosts |-> <<Reviews, Wild, Dotted, AllowAny>>]
InTwins == [name |-> in, vhosts |-> <<Local, AnyHost>>]
InMoved == [InTwins EXCEPT !.vhosts[1].routes = Append(@, Redirect)]

Outbound == Listener("0.0.0.0:80", <<Filter("other", out), Filter("rds", out)>>)
Inbound == Listener("10.0.0.1:80", <<Filter("rds", in), Filter("static", in)>>)
Unusable == <<[Outbound EXCEPT !.socket = FALSE],
              Listener("0.0.0.0:81", <<Filter("rds", out), Filter("broken", out)>>)>>

MCMesh ==
  <<[listeners |-> <<Outbound, Inbound>>, configs |-> <<OutRules, InMoved>>],
    [listeners |-> Append(Unusable, Inbound), configs |-> <<OutRules, InTwins>>],
    [listeners |-> Unusable, configs |-> <<OutRules, InTwins>>]>>

Query(host, port, path, user, x) ==
  [host |-> host, port |-> port, path |-> path,
   headers |-> [n \in {Method, Authority, <<"x", "-", "u">>} |->
                  CASE n = Method    -> {<<"G">>}
                    [] n = Authority -> {IF port = 0 THEN host ELSE Append(host, ":80")}
                    [] OTHER         -> user],
   params |-> [n \in {"x"} |-> x]]

MCQueries ==
  {Query(host, port, path, user, x) :
     host \in {<<"a">>, <<"b">>, <<"c">>, <<"c", ".", "n">>, <<"d", ".", "n">>}, port \in {0, 80},
     path \in {<<"p">>, <<"q", "p">>}, user \in {{}, {<<"u">>}, {<<"v", "u">>}},
     x \in {{}, {<<"v", "u">>}}}
=============================================================================
