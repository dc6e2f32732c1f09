-------------------------- MODULE RouteTranslator --------------------------
(***************************************************************************)
(* The translation of Envoy listeners and route configurations to APISIX   *)
(* routes, as pure operators, and what the two sides make of a request.    *)
(*                                                                         *)
(* A text (a host, a path, the name or a value of a header) is a sequence  *)
(* of letters, so that one can be a prefix of another.  A pattern "^text$" *)
(* is a text with the two anchors it has; of the letters that are special  *)
(* in a pattern there is the dot.  The names of pseudo headers, and the    *)
(* name "host", are one letter each.  The id of a resource is the tuple of *)
(* what is hashed for it.                                                  *)
(***************************************************************************)
EXTENDS Slices

CONSTANT LowerCase   \* capital letter -> small letter

\* Punctuation has no case, and these names have no capitals.
ASSUME LettersAssumption ==
  \A a \in DOMAIN LowerCase :
    {a, LowerCase[a]} \cap {".", "-", "_"} = {} /\ a \notin {":method", ":authority"}

\* strings.ToLower
Lower(text) ==
  [i \in DOMAIN text |->
     IF text[i] \in DOMAIN LowerCase THEN LowerCase[text[i]] ELSE text[i]]

Method == <<":method">>
Authority == <<":authority">>
Pseudo == {Method, Authority, <<":path">>, <<":scheme">>}
Host == <<"host">>

\* The function f, overridden by g.
Override(f, g) ==
  [k \in DOMAIN f \cup DOMAIN g |-> IF k \in DOMAIN g THEN g[k] ELSE f[k]]

-----------------------------------------------------------------------------
(***************************************************************************)
(* Envoy's side.  A match has the kind exact, prefix, suffix, contains,    *)
(* present, regex, unset or one that is not supported; "nocase" says that  *)
(* the case of letters does not matter.  A domain is a text with a port or *)
(* 0, and may begin with a star.                                           *)
(***************************************************************************)

Supported == {"exact", "prefix", "suffix", "contains", "present", "regex"}

\* What Envoy demands of a route: one cluster, or several.  They have weights:
\* the translation panics for one without.
WellFormed(r) ==
  /\ IsSlice(r.headers) /\ IsSlice(r.params) /\ IsSlice(r.clusters)
  /\ r.action = "cluster" => Len(r.clusters) = 1
  /\ r.action = "weighted" => r.clusters # << >>
  /\ \A i \in DOMAIN r.clusters : r.clusters[i].weight \in Nat
  /\ \A m \in Range(r.headers) : IsSlice(m.name)
  /\ \A m \in Range(r.headers) \cup Range(r.params) :
       IsSlice(m.text) /\ {m.invert, m.nocase} \subseteq BOOLEAN

\* A route is ignored if its path is to be matched regardless of case; the field
\* may be unset.
Ignored(r) == r.sensitive = "false"

\* getClusterName, getURL, getParametersMatchVars and getHeadersMatchVars: what
\* makes translateVirtualHost report an error.  A parameter without a specifier
\* is none.
Untranslatable(r) ==
  /\ ~Ignored(r)
  /\ \/ r.action \notin {"cluster", "weighted"}
     \/ r.path.kind \notin {"path", "prefix"}
     \/ \E i \in DOMAIN r.headers : r.headers[i].kind \notin Supported
     \/ \E i \in DOMAIN r.params : r.params[i].kind \notin Supported \cup {"unset"}

-----------------------------------------------------------------------------
(***************************************************************************)
(* The parts of a route                                                    *)
(***************************************************************************)

AnyDomain == [star |-> TRUE, text |-> << >>, port |-> 0]

\* The hosts of a virtual host: none at all if one of its domains is "*", else
\* the domains without their ports, so that "*:80" becomes the host "*".
Hosts(vhost) ==
  IF AnyDomain \in vhost.domains THEN {}
  ELSE {[star |-> d.star, text |-> d.text] : d \in vhost.domains}

\* getURL: a prefix gets a star.
Uri(path) == [text |-> path.text, any |-> path.kind = "prefix"]

\* getStringMatchValue and its counterpart for headers: the pattern of a match.
\* The text is not escaped, the pattern for presence is empty, and a regular
\* expression is taken as it is.
Pattern(m) ==
  [text |-> IF m.kind = "present" THEN << >> ELSE m.text,
   start |-> m.kind \in {"exact", "prefix"},
   end |-> m.kind \in {"exact", "suffix"}]

\* The variable for a header: a name in small letters, with "_" for "-".
Underscored(text) == [i \in DOMAIN text |-> IF text[i] = "-" THEN "_" ELSE text[i]]
Variable(name) ==
  CASE name = Method    -> <<"request_method">>
    [] name = Authority -> <<"http", Host>>
    [] OTHER            -> <<"http", Underscored(Lower(name))>>

\* getHeadersMatchVars: "~~" whether or not the case of letters matters.
HeaderVar(m) ==
  [var |-> Variable(m.name), negated |-> m.invert, nocase |-> FALSE, pattern |-> Pattern(m)]

\* getParametersMatchVars: "! ~~ ^$" for presence, an empty expression without
\* a specifier, and else "~*" or "~~".
ParamVar(m) ==
  [var     |-> IF m.kind = "unset" THEN << >> ELSE <<"arg", m.name>>,
   negated |-> m.kind = "present",
   nocase  |-> m.kind \notin {"present", "unset"} /\ m.nocase,
   pattern |-> IF m.kind \in {"present", "unset"}
               THEN [text |-> << >>, start |-> TRUE, end |-> TRUE] ELSE Pattern(m)]

Vars(r) ==
  [i \in DOMAIN r.headers |-> HeaderVar(r.headers[i])]
    \o [i \in DOMAIN r.params |-> ParamVar(r.params[i])]

\* Routes for any host, and Istio's route of last resort, come last.
Priority(r, hosts) == IF hosts = {} \/ r.name = "allow_any" THEN 0 ELSE 999

\* convertPercent, rounded down to whole percents and at most 100.
ConvertPercent(p) == Min({100, (p.numerator * 100) \div p.denominator})

\* translateRouteFilters: a route has at most one fault filter, a set with an
\* abort, a delay, both or none.  One of a type that is not supported leaves the
\* route without the plugin, as does a filter of another version, which counts
\* as one with such a part.
FaultPlugin(r) ==
  LET supported == {f \in r.fault : \A p \in f : p.type # "other"}
  IN  [n \in {"fault-injection" : f \in supported} |->
         {<<p.kind, p.value, ConvertPercent(p.percent)>> : p \in UNION supported}]

\* translateRouteWeightedClusters: the last cluster is the route's own.
SplitPlugin(r) ==
  IF r.action # "weighted" THEN << >>
  ELSE [n \in {"traffic-split"} |->
          [i \in DOMAIN r.clusters |->
             [upstream |-> IF i = Len(r.clusters) THEN << >> ELSE <<r.clusters[i].name>>,
              weight |-> r.clusters[i].weight]]]

\* The plugins of a route: the configured ones, the filters, prometheus, split.
Plugins(r, configured) ==
  Override(Override(Override(configured, FaultPlugin(r)),
                    [n \in {"prometheus"} |-> "prefer_name"]), SplitPlugin(r))

\* getClusterName: the last of several clusters is the default.
ClusterName(r) == Last(r.clusters).name

\* Mutant: the conditions are left out of the id.
RouteIdByName(config, vhost, r) ==
  <<r.name, vhost.name, config.name, Uri(r.path), r.sensitive>>

\* The name, and every condition, without regard to their order.
RouteId(config, vhost, r) ==
  <<r.name, vhost.name, config.name, Uri(r.path), r.sensitive, Range(Vars(r))>>

Translate(config, vhost, r, configured) ==
  [id       |-> RouteId(config, vhost, r),
   config   |-> config.name,
   hosts    |-> Hosts(vhost),
   uri      |-> Uri(r.path),
   vars     |-> Vars(r),
   priority |-> Priority(r, Hosts(vhost)),
   upstream |-> ClusterName(r),
   timeout  |-> r.timeout,
   plugins  |-> Plugins(r, configured)]

-----------------------------------------------------------------------------
(***************************************************************************)
(* Virtual hosts, route configurations and listeners                       *)
(***************************************************************************)

\* translateVirtualHost logs that a route it cannot translate is skipped, but
\* returns the error with the other routes.
Fails(config) ==
  \E i \in DOMAIN config.vhosts : \E j \in DOMAIN config.vhosts[i].routes :
    Untranslatable(config.vhosts[i].routes[j])

TranslateVirtualHost(config, vhost, configured) ==
  LET kept == Pick(vhost.routes, {i \in DOMAIN vhost.routes : ~Ignored(vhost.routes[i])})
  IN  [i \in DOMAIN kept |-> Translate(config, vhost, kept[i], configured)]

\* TranslateRouteConfiguration: one error, and there are no routes.
TranslateRouteConfiguration(config, configured) ==
  IF Fails(config) THEN << >>
  ELSE FlattenSeq([i \in DOMAIN config.vhosts |->
                     TranslateVirtualHost(config, config.vhosts[i], configured)])

\* processStaticRouteConfigurations: what is translated is dropped.
ProcessStaticRouteConfigurations(configs) == << >>

\* A filter is an HTTP connection manager with rds, static or scoped routes, one
\* that does not unmarshal (broken), or another filter or version (other).
\* GetRoutesFromListener gives up on a broken one.
UsableListener(l) == l.socket /\ \A i \in DOMAIN l.filters : l.filters[i].kind # "broken"

FiltersOf(listeners, kind) ==
  FlattenSeq([i \in DOMAIN listeners |->
    IF UsableListener(listeners[i])
    THEN SelectSeq(listeners[i].filters, LAMBDA f : f.kind = kind) ELSE << >>])

\* The names to ask for, and the configurations that listeners bring along.
RdsNames(listeners) == {f.config : f \in Range(FiltersOf(listeners, "rds"))}
StaticConfigs(listeners) == FiltersOf(listeners, "static")

\* routeOwnership: the address of the last listener that has the configuration.
RouteOwnership(listeners) ==
  LET owners(n) == {i \in DOMAIN listeners :
                      /\ UsableListener(listeners[i])
                      /\ \E f \in Range(listeners[i].filters) :
                           f.kind \in {"rds", "static"} /\ f.config = n}
      names == UNION {{f.config : f \in Range(listeners[i].filters)} : i \in DOMAIN listeners}
  IN  [n \in {m \in names : owners(m) # {}} |-> listeners[Max(owners(n))].addr]

-----------------------------------------------------------------------------
(***************************************************************************)
(* What Envoy (external) would do with a request.  A request has a host, a *)
(* port or 0, and a path; "headers" has the values, at most one, of every  *)
(* field by its name in small letters, and "params" those of parameters.   *)
(***************************************************************************)

Values(fields, name) == IF name \in DOMAIN fields THEN fields[name] ELSE {}

\* A text, and the same in small letters if case does not matter.
Folded(nocase, text) == IF nocase THEN Lower(text) ELSE text

HasText(text, t) ==
  \E i \in 0..(Len(text) - Len(t)) : SubSeq(text, i + 1, i + Len(t)) = t

\* The pattern t, from the place i of a text on: a dot is there for any letter.
FoundAtPlace(t, text, i) == \A k \in DOMAIN t : t[k] \in {".", text[i + k]}

EnvoyMatches(m, values) ==
  \E value \in values :
    LET t == Folded(m.nocase, m.text)
        v == Folded(m.nocase, value)
    IN  CASE m.kind = "exact"    -> v = t
          [] m.kind = "prefix"   -> IsPrefix(t, v)
          [] m.kind = "suffix"   -> IsSuffix(t, v)
          [] m.kind = "contains" -> HasText(v, t)
          [] m.kind = "regex"    -> Len(m.text) = Len(value) /\ FoundAtPlace(m.text, value, 0)
          [] OTHER               -> m.kind \in {"present", "unset"}

EnvoyRouteMatches(r, q) ==
  /\ IF r.path.kind = "prefix" THEN IsPrefix(r.path.text, q.path) ELSE r.path.text = q.path
  /\ \A i \in DOMAIN r.headers :
       EnvoyMatches(r.headers[i], Values(q.headers, Lower(r.headers[i].name)))
  /\ \A i \in DOMAIN r.params : EnvoyMatches(r.params[i], Values(q.params, r.params[i].name))

\* A name of a header that leads both sides to the same field: a name with "_" is
\* taken for one with "-", "host" for :authority, and other pseudo headers for
\* ordinary ones.
FaithfulName(name) ==
  \/ name \in {Method, Authority}
  \/ /\ Lower(name) \notin Pseudo \cup {Host}
     /\ \A i \in DOMAIN name : name[i] # "_"

\* A route whose matches both sides read in the same way.  They differ in what a
\* dot is, as a text is not escaped, in a regular expression, which has to match
\* the whole value for Envoy, in an absent value, for which an inverted match
\* holds for APISIX, and in headers whose letters may have any case.
Faithful(r) ==
  /\ \A m \in Range(r.headers) :
       m.kind # "regex" /\ ~m.invert /\ ~m.nocase /\ FaithfulName(m.name)
  /\ \A m \in Range(r.params) : m.kind \notin {"regex", "present", "unset"}
  /\ \A m \in Range(r.headers) \cup Range(r.params) : \A i \in DOMAIN m.text : m.text[i] # "."

HostMatches(h, host) == IF h.star THEN IsSuffix(h.text, host) ELSE h.text = host

\* A star is for at least one letter, and the port is part of what is compared.
DomainMatches(d, q) ==
  \/ d = AnyDomain
  \/ d.port = q.port /\ HostMatches(d, q.host) /\ (d.star => Len(d.text) < Len(q.host))

\* Domain e is more specific than d.
Beats(e, d) ==
  \/ ~e.star /\ d.star
  \/ e.star /\ d.star /\ Len(e.text) > Len(d.text)
  \/ d = AnyDomain /\ e # AnyDomain

\* The virtual host for a request: the one with the most specific domain.
EnvoyVirtualHosts(config, q) ==
  LET matching(v) == {d \in v.domains : DomainMatches(d, q)}
      all == UNION {matching(v) : v \in Range(config.vhosts)}
  IN  {v \in Range(config.vhosts) : \E d \in matching(v) : \A e \in all : ~Beats(e, d)}

MatchingRoutes(v, q) == {r \in Range(v.routes) : ~Ignored(r) /\ EnvoyRouteMatches(r, q)}

\* All routes of a set of configurations that a request might take.
EnvoyRoutes(configs, q) ==
  UNION {UNION {MatchingRoutes(v, q) : v \in EnvoyVirtualHosts(c, q)} : c \in configs}

\* Cluster -> weight, for a list of clusters, which may have one twice, and a
\* list of their weights.
Shares(clusters, weights) ==
  LET weight(i) == weights[i]
  IN  [n \in Range(clusters) |->
         MapThenSumSet(weight, {i \in DOMAIN clusters : clusters[i] = n})]

\* Where Envoy sends a request that takes route r.
EnvoyTargets(r) ==
  IF r.action # "weighted" THEN Shares(<<Head(r.clusters).name>>, <<1>>)
  ELSE Shares([i \in DOMAIN r.clusters |-> r.clusters[i].name],
              [i \in DOMAIN r.clusters |-> r.clusters[i].weight])

-----------------------------------------------------------------------------
(***************************************************************************)
(* What APISIX (external) does with it                                     *)
(***************************************************************************)

PatternFound(p, v) ==
  \E i \in 0..(Len(v) - Len(p.text)) :
    /\ FoundAtPlace(p.text, v, i)
    /\ p.start => i = 0
    /\ p.end => i = Len(v) - Len(p.text)

\* The field of a header, written with "_" for "-".
FieldValues(q, name) ==
  IF name = Host THEN Values(q.headers, Authority)
  ELSE UNION {q.headers[n] : n \in {k \in DOMAIN q.headers \ Pseudo : Underscored(k) = name}}

\* An empty expression has no value.
VarValues(var, q) ==
  CASE var = << >>                -> {}
    [] var = <<"request_method">> -> Values(q.headers, Method)
    [] OTHER -> IF var[1] = "http" THEN FieldValues(q, var[2]) ELSE Values(q.params, var[2])

VarHolds(x, q) ==
  LET folded(p) == [p EXCEPT !.text = Folded(x.nocase, @)]
  IN  x.negated # \E v \in VarValues(x.var, q) :
                    PatternFound(folded(x.pattern), Folded(x.nocase, v))

HostsMatch(hosts, q) == hosts = {} \/ \E h \in hosts : HostMatches(h, q.host)

ApisixRouteMatches(route, q) ==
  /\ HostsMatch(route.hosts, q)
  /\ IF route.uri.any THEN IsPrefix(route.uri.text, q.path) ELSE route.uri.text = q.path
  /\ \A i \in DOMAIN route.vars : VarHolds(route.vars[i], q)

\* The routes APISIX may take: the matching ones of the highest priority.
ApisixRoutes(routes, q) ==
  LET matching == {r \in routes : ApisixRouteMatches(r, q)}
  IN  {r \in matching : \A s \in matching : s.priority <= r.priority}

\* Where APISIX sends a request that takes the route.
ApisixTargets(route) ==
  IF "traffic-split" \notin DOMAIN route.plugins THEN Shares(<<route.upstream>>, <<1>>)
  ELSE LET split == route.plugins["traffic-split"]
       IN  Shares([i \in DOMAIN split |-> IF split[i].upstream = << >> THEN route.upstream
                                         ELSE split[i].upstream[1]],
                  [i \in DOMAIN split |-> split[i].weight])

=============================================================================
