----------------------------- MODULE RouteSync -----------------------------
(***************************************************************************)
(* How the listeners and route configurations of the mesh become the       *)
(* routes in the shared dictionary: the LDS and RDS branches of translate, *)
(* the requests they cause, and the events that follow.                    *)
(*                                                                         *)
(*   istiod --responses--> translate --evChan--> storeEvents --> store     *)
(*      ^                      |                                           *)
(*      +------- requests -----+                                           *)
(*                                                                         *)
(* Requests, responses and batches of events are each in the hands of a    *)
(* goroutine of their own: any of them may be taken next.  A response to   *)
(* RDS is acknowledged with the names of the configurations that could be  *)
(* translated, and to istiod these are the subscription from then on, if   *)
(* the response is the last one it has sent; it ignores other ACKs.        *)
(***************************************************************************)
EXTENDS Manifest, ManifestDiff, RouteTranslator

CONSTANTS
  Mesh,          \* states of the mesh: id -> [listeners, configs], sequences of each
  InitialMeshes, \* the ones there may be at first
  Queries,       \* the HTTP requests that the properties are about
  MaxChanges,    \* bound on the changes of the mesh
  MaxMessages,   \* bound on the requests and responses in flight
  MaxBatches,    \* bound on the batches of events in flight
  Missing        \* no route, no state of the mesh

ASSUME MeshAssumption == InitialMeshes \subseteq DOMAIN Mesh /\ Missing \notin DOMAIN Mesh
ASSUME BoundsAssumption ==
  MaxChanges \in Nat /\ MaxMessages \in Nat /\ MaxBatches \in Nat \ {0}

VARIABLES
  mesh,         \* the state of the mesh that istiod's answers are from
  changes,      \* how often it has changed
  announced,    \* it has been pushed since it last changed
  subscribed,   \* the names of the last RDS request istiod has received
  requests,     \* names of route configurations asked for, not yet received
  ack,          \* the ACK of istiod's last RDS response, while it is on its way
  responses,    \* responses received, not yet translated
  lds,          \* the state of the mesh whose listeners were translated last
                \*   (history variable)
  ownership,    \* p.routeOwnership
  static,       \* p.staticRouteConfigurations
  rds,          \* the state of the mesh and the names of the route configurations
                \*   that were translated last (history variable)
  routes,       \* p.routes
  evChan,       \* batches of events on their way to the agent
  store,        \* the routes in the shared dictionary, by id
  overtaken     \* what has overtaken an older one of its kind (history variable)

istiodVars == <<mesh, changes, announced, subscribed>>
ldsVars == <<lds, ownership, static>>
rdsVars == <<rds, routes>>
channels == <<requests, ack, responses>>
vars == <<istiodVars, channels, ldsVars, rdsVars, evChan, store, overtaken>>

Meshes == DOMAIN Mesh

\* The listeners and the route configurations that a response is about.
Listeners(m) == IF m = Missing THEN << >> ELSE Mesh[m].listeners
Configs(x) ==
  IF x = Missing THEN << >>
  ELSE LET cs == Mesh[x.mesh].configs
       IN  Pick(cs, {i \in DOMAIN cs : cs[i].name \in x.names})

AllConfigs == UNION {Range(Mesh[m].configs) : m \in Meshes}

\* The translation of every route configuration there is, with no plugins
\* configured: those are for module PluginSync.
Translated == [c \in AllConfigs |-> TranslateRouteConfiguration(c, << >>)]

\* Configurations are slices of slices of slices.
ASSUME SlicesAssumption ==
  /\ \A m \in Meshes : IsSlice(Mesh[m].configs)
  /\ \A c \in AllConfigs :
       IsSlice(c.vhosts) /\ \A i \in DOMAIN c.vhosts : IsSlice(c.vhosts[i].routes)

\* What istiod and Envoy demand: the names of the configurations, and of the
\* virtual hosts of one, are unique.
ASSUME ConfigsAssumption ==
  /\ \A m \in Meshes : \A c, d \in Range(Mesh[m].configs) : c.name = d.name => c = d
  /\ \A c \in AllConfigs : \A v, w \in Range(c.vhosts) : v.name = w.name => v = w
  /\ \A c \in AllConfigs : \A v \in Range(c.vhosts) : \A r \in Range(v.routes) : WellFormed(r)

\* Names and values of an HTTP request are texts, and no field of its header has a
\* name with "_".
ASSUME QueriesAssumption ==
  \A q \in Queries :
    /\ \A n \in DOMAIN q.headers :
         IsSlice(n) /\ (\A i \in DOMAIN n : n[i] # "_") /\ \A x \in q.headers[n] : IsSlice(x)
    /\ \A n \in DOMAIN q.params : \A x \in q.params[n] : IsSlice(x)

Manifests(rs) == [Routes |-> rs, Upstreams |-> << >>]

\* Taking the i-th of a channel overtakes the older ones.
Overtaking(kind, i) == overtaken' = overtaken \cup (IF i = 1 THEN {} ELSE {kind})

-----------------------------------------------------------------------------
(***************************************************************************)
(* istiod (external)                                                       *)
(***************************************************************************)

Lds == [type |-> "LDS", mesh |-> mesh]
Rds(names) == [type |-> "RDS", mesh |-> mesh, names |-> names, last |-> TRUE]

\* The responses, none of them istiod's last to RDS any more.
Outdated == [i \in DOMAIN responses |->
               IF responses[i].type = "RDS" THEN [responses[i] EXCEPT !.last = FALSE]
               ELSE responses[i]]

MeshChange ==
  /\ changes < MaxChanges
  /\ changes' = changes + 1
  /\ mesh' \in Meshes \ {mesh}
  /\ announced' = FALSE
  /\ UNCHANGED <<subscribed, channels, ldsVars, rdsVars, evChan, store, overtaken>>

\* A change is pushed: the listeners, and the routes that were asked for.
Push ==
  /\ ~announced
  /\ Len(requests) + Cardinality(ack) + Len(responses) + 2 <= MaxMessages
  /\ announced' = TRUE
  /\ IF subscribed = {} THEN responses' = Append(responses, Lds) /\ UNCHANGED ack
     ELSE responses' = Outdated \o <<Lds, Rds(subscribed)>> /\ ack' = {}
  /\ UNCHANGED <<mesh, changes, subscribed, requests, ldsVars, rdsVars, evChan, store,
                 overtaken>>

\* The goroutine of sendRds gets its request through, and istiod answers it.
AnswerRequest(i) ==
  /\ subscribed' = requests[i]
  /\ requests' = RemoveAt(requests, i)
  /\ responses' = Append(Outdated, Rds(requests[i]))
  /\ ack' = {}
  /\ Overtaking("messages", i)
  /\ UNCHANGED <<mesh, changes, announced, ldsVars, rdsVars, evChan, store>>

\* The ACK of the last response arrives.  Other names than those asked for are
\* a new subscription, which is answered if there are any.
AnswerAck ==
  /\ \E names \in ack :
       /\ subscribed' = names
       /\ responses' = IF names \in {{}, subscribed} THEN responses
                       ELSE Append(responses, Rds(names))
  /\ ack' = {}
  /\ UNCHANGED <<mesh, changes, announced, requests, ldsVars, rdsVars, evChan, store,
                 overtaken>>

-----------------------------------------------------------------------------
(***************************************************************************)
(* The provisioner and the agent                                           *)
(***************************************************************************)

\* Mutant: the names are asked for only if there are none yet.
ReceiveLDSOnce(i) ==
  /\ responses[i].type = "LDS"
  /\ lds' = responses[i].mesh
  /\ LET ls == Listeners(lds') IN
       /\ static' = StaticConfigs(ls)
       /\ ownership' = RouteOwnership(ls)
       /\ requests' = IF RdsNames(ls) = {} \/ lds # Missing THEN requests
                      ELSE Append(requests, RdsNames(ls))
  /\ responses' = RemoveAt(responses, i)
  /\ Overtaking("messages", i)
  /\ UNCHANGED <<istiodVars, ack, rdsVars, evChan, store>>

\* translate, LDS: note the owners and static configurations, and ask for the
\* routes the listeners name, if they name any.
ReceiveLDS(i) ==
  /\ responses[i].type = "LDS"
  /\ lds' = responses[i].mesh
  /\ LET ls == Listeners(lds') IN
       /\ static' = StaticConfigs(ls)
       /\ ownership' = RouteOwnership(ls)
       /\ requests' = IF RdsNames(ls) = {} THEN requests
                      ELSE Append(requests, RdsNames(ls))
  /\ responses' = RemoveAt(responses, i)
  /\ Overtaking("messages", i)
  /\ UNCHANGED <<istiodVars, ack, rdsVars, evChan, store>>

\* The routes of an RDS response and of the static configurations; those of a
\* configuration that cannot be translated are left out.
NewRoutes(cs) ==
  FlattenSeq([i \in DOMAIN cs |-> Translated[cs[i]]])
    \o ProcessStaticRouteConfigurations(static)

\* translate, RDS: replace the routes and emit the difference; translateLoop
\* then acknowledges the configurations that were translated.
ReceiveRDS(i) ==
  /\ responses[i].type = "RDS" /\ Len(evChan) < MaxBatches
  /\ rds' = [mesh |-> responses[i].mesh, names |-> responses[i].names]
  /\ routes' = NewRoutes(Configs(rds'))
  /\ LET events == IncrementalEvents(Manifests(routes), Manifests(routes'))
     IN  evChan' = IF events = << >> THEN evChan ELSE Append(evChan, events)
  /\ ack' = IF responses[i].last
            THEN {{c.name : c \in {d \in Range(Configs(rds')) : ~Fails(d)}}} ELSE ack
  /\ responses' = RemoveAt(responses, i)
  /\ Overtaking("messages", i)
  /\ UNCHANGED <<istiodVars, requests, ldsVars, store>>

\* The agent takes a batch from evChan and stores it.
Deliver(i) ==
  /\ store' = ApplyEvents(store, evChan[i])
  /\ evChan' = RemoveAt(evChan, i)
  /\ Overtaking("batches", i)
  /\ UNCHANGED <<istiodVars, channels, ldsVars, rdsVars>>

-----------------------------------------------------------------------------

\* The connection is up and firstSend has asked for the listeners.
Init ==
  /\ mesh \in InitialMeshes
  /\ changes = 0
  /\ announced = FALSE
  /\ subscribed = {}
  /\ requests = << >>
  /\ ack = {}
  /\ responses = << >>
  /\ lds = Missing
  /\ ownership = << >>
  /\ static = << >>
  /\ rds = Missing
  /\ routes = << >>
  /\ evChan = << >>
  /\ store = << >>
  /\ overtaken = {}

Receive(i) == ReceiveLDS(i) \/ ReceiveRDS(i)

Next ==
  \/ MeshChange
  \/ Push
  \/ \E i \in DOMAIN requests : AnswerRequest(i)
  \/ AnswerAck
  \/ \E i \in DOMAIN responses : Receive(i)
  \/ \E i \in DOMAIN evChan : Deliver(i)

Spec == Init /\ [][Next]_vars

\* The first response is received.  Only Receive removes responses, so this is
\* Receive(1), without what it does to the other variables.
ReceiveFirst ==
  /\ responses # << >>
  /\ responses[1].type = "RDS" => Len(evChan) < MaxBatches
  /\ responses' = Tail(responses)

\* istiod pushes what has changed and answers what it is asked; goroutines
\* blocked on a channel are served, the first one first.
Fairness ==
  /\ SF_vars(Push)
  /\ SF_vars(requests # << >> /\ AnswerRequest(1))
  /\ SF_vars(AnswerAck)
  /\ SF_responses(ReceiveFirst)
  /\ WF_vars(evChan # << >> /\ Deliver(1))

FairSpec == Spec /\ Fairness

-----------------------------------------------------------------------------
(***************************************************************************)
(* Properties                                                              *)
(***************************************************************************)

\* The names of configurations, and those that listeners ask for.
AllNames ==
  {c.name : c \in AllConfigs} \cup UNION {RdsNames(Mesh[m].listeners) : m \in Meshes}
AllRoutes == UNION {Range(Translated[c]) : c \in AllConfigs}

\* Types: what is in flight and in place comes from a state of the mesh, and
\* the dictionary holds a translated route under its own id.
TypeOK ==
  /\ mesh \in Meshes
  /\ changes \in 0..MaxChanges
  /\ announced \in BOOLEAN
  /\ subscribed \subseteq AllNames
  /\ \A i \in DOMAIN requests : requests[i] \subseteq AllNames
  /\ ack \subseteq SUBSET AllNames /\ Cardinality(ack) <= 1
  /\ lds \in Meshes \cup {Missing}
  /\ rds \in [mesh : Meshes, names : SUBSET AllNames] \cup {Missing}
  /\ Range(routes) \subseteq AllRoutes
  /\ \A k \in DOMAIN store : store[k] \in AllRoutes /\ store[k].id = k
  /\ overtaken \subseteq {"messages", "batches"}

\* Differences add up: once the waiting batches are stored the dictionary holds
\* exactly the routes of the provisioner, the last of two with one id, although
\* only differences of slices with duplicates were ever sent, as long as no
\* batch overtakes another.
RoutesStored ==
  "batches" \notin overtaken =>
    FoldLeft(ApplyEvents, store, evChan) = AsMap(routes)

\* The event list of a step, none at all if it sends none, and the difference of
\* the two maps, which module UpstreamSync uses in its place, have the same
\* effect.
EventsAreTheDifference ==
  [][LET old == AsMap(routes)
         diff == GenerateIncrementalEvents(old, AsMap(routes'), Missing)
         new == IF evChan' = evChan THEN old ELSE ApplyEvents(old, Last(evChan'))
     IN  routes' # routes =>
           \A k \in DOMAIN old \cup DOMAIN AsMap(routes') :
             (IF k \in DOMAIN new THEN new[k] ELSE Missing)
               = (IF k \in DOMAIN diff THEN diff[k] ELSE old[k])]_vars

Served == {c \in Range(Configs(rds)) : ~Fails(c)}

AtRest ==
  announced /\ requests = << >> /\ ack = {} /\ responses = << >> /\ evChan = << >>

\* Both sides read the routes for the host of a request in the same way.
ReadAlike(q) ==
  \A c \in Served : \A v \in Range(c.vhosts) :
    HostsMatch(Hosts(v), q) => \A r \in Range(v.routes) : Faithful(r)

\* Virtual hosts for the host of a request, those that Envoy takes and those it
\* passes over for one with a more specific domain or with the right port.
\* APISIX gets the routes of both.
Taken(q) == UNION {EnvoyVirtualHosts(c, q) : c \in Served}
PassedOver(q) ==
  UNION {{v \in Range(c.vhosts) \ EnvoyVirtualHosts(c, q) : HostsMatch(Hosts(v), q)} :
           c \in Served}

Priorities(vhosts, q) ==
  UNION {{Priority(r, Hosts(v)) : r \in MatchingRoutes(v, q)} : v \in vhosts}

\* Where Envoy passes over a virtual host, APISIX does so only for a route with a
\* higher priority.
Preferred(q) ==
  \A low \in Priorities(PassedOver(q), q), high \in Priorities(Taken(q), q) : low < high

\* With nothing on its way, APISIX sends an HTTP request to the clusters, with
\* the weights, that Envoy would choose, whenever Envoy has just one route for
\* it.  Not so for a configuration with a route that cannot be translated (none
\* of its routes is there), for a host with matches that the two sides read
\* differently (unescaped dots and regular expressions among them), for requests
\* with several matching routes (Envoy takes the first, and APISIX is not told
\* the order), and where Envoy passes over a route of no lower priority.
RequestsFollowMesh ==
  AtRest /\ "batches" \notin overtaken =>
    \A q \in Queries :
      ReadAlike(q) /\ Preferred(q) =>
        \A r \in EnvoyRoutes(Served, q) :
          EnvoyRoutes(Served, q) = {r} =>
            {ApisixTargets(s) : s \in ApisixRoutes(Range(store), q)} = {EnvoyTargets(r)}

\* When nothing is on its way, the dictionary has routes only of configurations
\* that the listeners name, unless they name none: then nothing is asked for,
\* and the routes there were stay.
RoutesOfListeners ==
  AtRest /\ overtaken = {} /\ RdsNames(Listeners(lds)) # {} =>
    {r.config : r \in Range(store)} \subseteq RdsNames(Listeners(lds))

\* What the dictionary should hold for each state of the mesh.
Expected ==
  [m \in Meshes |->
     LET cs == Configs([mesh |-> m, names |-> RdsNames(Listeners(m))])
     IN  AsMap(FlattenSeq([i \in DOMAIN cs |-> Translated[cs[i]]]))]

\* When the mesh stops changing, the dictionary ends up with exactly its
\* routes, provided that no message has overtaken another: listeners and routes
\* are not asked for again, so nothing would heal that.
RoutesConverge ==
  \A m \in Meshes :
    RdsNames(Listeners(m)) # {} =>
      (<>[](mesh = m /\ overtaken = {}) => <>[](store = Expected[m]))

=============================================================================
