# A TLA+ verification project for Amesh

Amesh lets Apache APISIX be the sidecar of an Istio mesh. A Go library loaded
into APISIX (`pkg/amesh`) speaks xDS with istiod, translates what it receives
into APISIX routes and upstreams and writes them into nginx shared
dictionaries; a Kubernetes controller (`controller`) streams plugin
configurations to the same library; an init container (`cmd/iptables`)
redirects the connections of the pod to APISIX. This directory models the parts
of that code in which concurrency, ordering and partial state matter.

## 1. The system

```
 istiod --xDS--> xdsProvisioner --evChan--> Agent.storeEvents --> shared dicts --> APISIX
                      ^   p.upstreams, p.routes
                      | EventsChannel / GetPlugins
 controller --gRPC--> ameshProvisioner
   Reconcile, SelectorCache, InstanceManager, GRPCController
```

| Component | State | Operations | What is hard |
|---|---|---|---|
| xDS provisioner, clusters and endpoints (`provisioner/xds.go`, `translator.go`, `cluster_translator.go`, `endpoint_translator.go`) | `p.upstreams`, `p.edsRequiredClusters` | `translate` for CDS and EDS, `sendEds`, periodic CDS request | a goroutine per response and per batch of events, differences instead of states, nodes reset before EDS answers |
| xDS provisioner, listeners and routes (`xds.go`, `route_translator.go`) | `p.routes`, `staticRouteConfigurations`, `routeOwnership` | `translate` for LDS and RDS, `sendRds`, the ACK | the same, with nothing that asks again; one bad route fails its configuration |
| Manifest difference (`util/manifest.go`, `apisix/utils`) | none | `DiffFrom`, `CompareRoutes`, `CompareUpstreams`, `Events`, `generateIncrementalEvents` | duplicates in slices, differences have to add up |
| xDS connection (`xds.go`) | `sendCh`, `recvCh`, `resetCh`, the status flags | dial, streams, send, receive and translate loops, reset | stale errors and loops after a reset, lost requests |
| Agent and dictionaries (`agent.go`, `storage/shdict.go`) | `DataStorage`, `VersionStorage` | `storeEvents`; APISIX polls and reads | two processes, no lock over several keys, millisecond versions |
| Start, servers and shutdown (`agent.go`, `cmd/dynamic`, `cmd/standalone`) | two HTTP servers, the stop channel | handlers, `Shutdown`, closing of `evChan` | who ends the process, and when; shutdown waiting for handlers |
| Amesh provisioner (`provisioner/amesh.go`) | `config`, `configRevision` | `Run`, `recvLoop`, `updatePlugins`, `GetPlugins` | a lock held over a channel send, versions, reconnects |
| Plugins of routes (`xds.go`, `route_translator.go`) | `p.routes` | `UpdateRoutesPlugin`, `patchAmeshPlugins` | plugins patched into routes concurrently with translation |
| Plugin streams (`controller/pkg`) | `InstanceManager`, one handler per stream | `StreamPlugins`, `sendPodPluginConfig`, `NotifyPodChange` | changes between registering, reading, sending and waiting; reconnects that overlap the old handler |
| Reconciler (`controller/controllers`, `controller/utils`) | `pluginsCache`, `SelectorCache` | `Reconcile`, pod event handlers, `GetPodPluginConfigs` | caches that lag behind each other, string versions, pod differences |
| iptables command (`cmd/iptables`) | the rules of the pod | one command after the other | connections made while rules are being installed, failure half way, a second run |

The components not in the models, and why, are in `PROJECT.json`
("components"); the places where the code can go wrong are there under
"hazards", each with the properties that cover it or a note.

## 2. Modules

| Module | Models | Notes |
|---|---|---|
| `ManifestDiff` | the difference of two manifests as maps, and storing it | pure operators, used by `UpstreamSync` and `PluginSync` |
| `UpstreamSync` | CDS and EDS branches of `translate`, event channel, agent | core module |
| `Slices` | loops that append to a slice | pure operators, used by the next two |
| `Manifest` | difference and events on slices, as the code has them | pure operators |
| `RouteTranslator` | listeners and route configurations to APISIX routes | pure operators, with Envoy and APISIX as reference |
| `RouteSync` | LDS and RDS branches of `translate`, ACK, event channel, agent | composes the two above |
| `XdsConnection` | `Run`, `run` and its goroutines | |
| `AgentStore` | `storeEvents` one dictionary write at a time, and the reader | |
| `Lifecycle` | main programs, `Agent.Run`, servers, secrets, the end of the provisioner | |
| `PluginFeed` | what a plugin stream promises | abstract specification |
| `PluginStreams` | `StreamPlugins`, `NotifyPodChange`, `InstanceManager`, and `ameshProvisioner.Run` as their client | implements `PluginFeed` |
| `PluginSync` | `updatePlugins`, `GetPlugins`, RDS translation, `UpdateRoutesPlugin` with both locks | amesh provisioner and route side of the xDS provisioner composed |
| `PluginController` | `Reconcile`, `SelectorCache`, `DiffPods`, `recordStatus`, `GetPodPluginConfigs`, pods | |
| `ResourceVersions` | the string comparison of resource versions | used by the two above |
| `Iptables` | the rules, the commands, and connections | |
| `MC*` | | the constants of the runs |
| `*Proofs` | | TLAPS proofs about `UpstreamSync`, `AgentStore`, `Lifecycle`, `XdsConnection`, `PluginStreams`, `PluginController`, `PluginSync` and `RouteSync` |

### UpstreamSync

`upstreams` is `p.upstreams`; `responses` are the responses read from the wire,
each in the hands of the goroutine `recvLoop` started for it; `evChan` are the
batches of events, each in the hands of the goroutine at the end of
`translate`. Both are sequences in the order of production, of which any element
may be taken next. `ReceiveCDS` and `ReceiveCLA` are the two branches of
`translate` (the one `translateLoop` of a first connection runs them, so they
are atomic), `Deliver` is `storeEvents`, `PeriodicSync` the timer of `run`. istiod
is external: it has a `mesh`, changes it, pushes it unasked, and answers requests
with what it has at that time.

Abstractions. Nodes of an upstream are a set (their order and weights are no
matter of these properties); everything else in an upstream is its `conf`. A
resource that fails to unmarshal is one that was not announced. An empty batch
is not queued, since `storeEvents` returns from it at once. Identical
outstanding requests are one. ACKs, nonces and versions of xDS are left out: the
provisioner never acts on them. A `Delete` removes the key (the code stores a
nil value, which the dictionary takes as a removal). Events carry an upstream by
value; the code passes pointers, but `processClusterLoadAssignmentV3` copies an
upstream before it sets the nodes, so no waiting event changes.

### Manifest, RouteTranslator and RouteSync

`Manifest` has slices of routes and upstreams with ids that may repeat.
`Compare` is the pair `CompareRoutes`/`CompareUpstreams`, which build a map per
slice; `IncrementalEvents` is the event list in the order of the code (added,
deleted, updated), `ApplyEvents` is `storeEvents`.

`RouteTranslator` follows `route_translator.go` function by function. Texts are
sequences of letters, so that prefix, suffix, containment and a change of letter
case (`LowerCase`) mean something; a regular expression `^text$` is a text with
its anchors. The code puts a text into it unescaped, and so does the model: a "."
of the text stands for any letter (`FoundAtPlace`). The dot is the one special
letter there is. Names of header fields become variables as in the code
(`:method` is `request_method`, `:authority` is `http_host`, any other in lower case with
"-" turned into "_"); the ignore-case flag of a header match is dropped, that of a
parameter gives "~*"; a parameter match with nothing to match gives an empty
expression, and none of the two is an error. A domain may begin with "*" and end
with a port; the port is cut off after the comparison with "*", so that "*:80"
becomes the host "*". An id is the tuple of what the code hashes.

What a request meets in Envoy and in APISIX is defined next to it and marked
external: it is the reference that `RequestsFollowMesh` compares the stored routes
with. Envoy takes, in each configuration, the virtual hosts with the most
specific domain that fits the host and the port (`EnvoyVirtualHosts`); APISIX takes
the matching routes of the highest priority. The property has conditions, all of
them about what the translation loses: the routes of the virtual hosts in question
are read alike on both sides (`ReadAlike`: no live dot, no regular expression, no
ignored case, no name with "_"), and where Envoy passes over a virtual host, for a
more specific domain or for its port, the routes it takes have a higher priority
(`Taken`, `PassedOver`, `Preferred`), since APISIX has the routes of both and is
not told the configuration or the port. The last condition was found by proving the
property: the run had no mesh in which it mattered. Weighted clusters have their
weights set, as istiod sends them (`WellFormed`): the code panics otherwise.

`RouteSync` puts them together in the manner of `UpstreamSync`: requests,
responses and batches in the hands of goroutines. An ACK matters here, since it
names the configurations that could be translated and so changes istiod's idea
of the subscription; istiod ignores an ACK of any but its last response.
`overtaken` records whether a message or a batch has overtaken another. No
plugins are configured: those are for `PluginSync`.

### XdsConnection

`phase` is where `Run` is; `conn` counts the calls of `run`. Every connection has
two receive loops, which end with it, after an attempt to send their error on
`resetCh` (`err`). Its send loop, `firstSend`, timer and translate loop do not
end: `Send(c, t)` may be of an old connection `c`, and then the request is lost.
`wanted` and `lost` are history variables since the connection is up. A
goroutine per `Send` is not a step of its own (the order of sends is that of
takes). After `stop` the goroutines return from their next `select`; what they
may still do before is left out. Requests for secrets are in `Lifecycle`.

### AgentStore

One action per dictionary operation: `TakeBatch` reads the clock, `StoreEvent`
writes one key, `MarkVersion` writes the version. APISIX (external) polls the
version and, if it differs from the one it acted on, reads the keys one by one.
The clock is that of the system: it may stand still between two batches and may be
set back. The history variables `used` and `shared` have the timestamps given to a
batch and those given to more than one.

### Lifecycle

`process` says how the process ended, if it has: `Fatalw` and a panic in a
goroutine end it from anywhere; a panic in an HTTP handler does not, since
`net/http` recovers it. `env` is its configuration, `server` the two HTTP servers,
whose variables the agent reads without synchronisation (`ShutDown` may miss a
server that is there), `secret` a request to `/sds/`, `scraping` one for metrics,
whose handler waits for APISIX without a limit. Of the provisioner only what can
end the process is here: its goroutines send on a channel that `Run` closes when
it returns, the map of secrets is never made, and `p.amesh` may be nil.

### PluginFeed and PluginStreams

`pc[s]` is where the handler of stream `s` is: `query` and `send` are the two
halves of `sendPodPluginConfig`, `loop` is the `select`, `aborted` and `return` are
after it and before the deferred delete. `notify[s]` counts the goroutines
`NotifyPodChange` left blocked on the instance's channel. A configuration is a
number that the reconciler increases in one step and announces in a later one.
`client` is `ameshProvisioner.Run`: it dials again after an error `recvLoop` knows,
is `deaf` after any other one, and has `ended` when opening a stream failed. The
history variable `overlapped` has the pods whose sidecar has reconnected before
its old handler had returned.

`PluginFeed` is the promise: a sidecar gets the configurations of its pod in
order, maybe not all, and the last one in the end. The refinement maps `lost` to
the pods the code gives up: a stopped server, a client that is deaf or has ended,
one that has overlapped, and one the model has no more streams for.

### PluginSync

`pending` are the responses in the hands of `updatePlugins` goroutines.
`UpdatePlugins` is that function up to its send on `evChan`, with `configLock`
taken; `Notify` is the rendezvous on the channel, after which the lock is
released. The goroutine that takes events is `patcher`; while it is in `patch` it
holds `routesLock`, and `PatchRoute`, which patches a copy of one route, needs
`configLock` for `GetPlugins`. The translation of a route response reads the
plugins route by route (`Translate`) and takes `routesLock` only for
`ReplaceRoutes`. Both emit the difference, which is stored at once in `stored`. A
route is its map of plugins; those the mesh asks for have the value "mesh".
Plugins for external runners are collected under one entry per phase, as a map
since the code's order is that of a Go map. A plugin that was plain before keeps
its plain entry in routes that are patched, since only names that are no longer
configured are deleted; `RoutesPatched` says that nothing else is left over.

The environment is unrestricted: the controller sends at any time, routes are
translated at any time, goroutines overtake each other. The history variable
`anomalies` records what the code does not stand: `burst` (a response before the
last one was worked off), `overtaken` (an `updatePlugins` goroutine was), `notNewer`
(a configuration with a version that as a string is not above its last one) and
`race` (plugins that changed while the routes in place were translated; a later
translation at rest clears it). Each property names the anomalies it excludes.
`notNewer` is no rare case: after a reconnect, and when one of two objects has
changed, the controller sends versions again that are in force already. What the
code then does is in the model; `PluginsApplied` promises nothing for it.

Two things are simpler than in the code. Events are stored at once, where the code
leaves each batch to a goroutine and one may overtake another; what comes of that
is the subject of `RouteSync`. And there is one patcher, where each reset of the xDS
connection leaves one more behind: patchers exclude each other by `routesLock`, but
an event is then taken by any of them.

### PluginController

`objects` is the API server, `queue` the work queue, `listed` the lister of the
second informer, `knownPods` the pod informer, `view` what was last sent to each
pod. `Reconcile` is one action per way out of the function: deleted, early return
(an object with a deletion timestamp, or no news), the error of a selector that
cannot be converted, changed. `newSelector` is never nil (`Update` turns an absent
selector into `labels.Everything()`), so two of the four branches at the end of
`Reconcile` cannot be taken. A status write that changes nothing leaves the
resource version alone, as the API server does; one that fails is not repeated.

The stream of a notified pod goes through `GetPodPluginConfigs` step by step, with
its place in `query[p]`. `StartQuery` gets the pod and the list of objects
(`PodNotFound` if there is no such pod); `LookUp` is `SelectorCache.Get` for one of
them; where that found nothing, `FillSelector` is `SelectorCache.Update` with the
selector as it was listed, whatever has happened in between (`FillFails` if it cannot
be converted); `Send` reads `pluginsCache` and sends. `misfilled` has the keys for
which a stream has put in a selector that was not that of the object.

`Reconcile` stays atomic, since one worker runs it and since nothing a stream does
between its steps makes a difference:

* What a stream reads between the writes of the caches is followed by the
  notification at the end, or the plugins have not changed.
* A fill between the `Get` and the `Update` of a selector is overwritten; for a new
  object the old selector is then `labels.Everything()`, which notifies no fewer
  pods than the one filled in. A fill after the `Update` commutes with the write
  of `pluginsCache` and is `FillSelector` after `Reconcile`.
* When an object is gone, its plugins are deleted first, so no stream that fills in
  its selector after that sends them; the selector is deleted with the rest.

`anomalies` records a changed `selector`, an `invalid` one, a plugin `list` with a
duplicate or in another order only, a `lister` behind the reconciler, an object
`recreated` before its deletion was reconciled or while a stream that had listed the
old one was not done with it, a pod with a stream that is `unlisted`, and a `version`
that as a string is not above the last.

### Iptables

`Rules` is the list the command generates, `BuildV4` (istio's builder, external)
the list of commands. `RunCommand` runs one; `FailCommand` is any failure, after
which the init container is run again on what is installed. `Redirected` walks the
chains as they are for a connection, at any moment of the installation.

## 3. Runs

| Run | Shows |
|---|---|
| `upstream_sync` | `TypeOK`, `LiveUpstreamsStored`: in whatever order responses are translated, no upstream with nodes is lost on its way to the dictionary as long as batches are stored in order; `EdsConverges`: the periodic request heals the dictionary once the mesh is quiet |
| `upstream_serving` | `NoServiceGap`: a service that stays in the mesh is never removed from the dictionary or emptied, batches overtaking each other included |
| `upstream_orphan` (violation) | a cluster removed between CDS and EDS stays in the dictionary |
| `route_sync` | `TypeOK`; `RoutesStored`, `EventsAreTheDifference`: differences of slices with duplicates add up, and are the map difference; `RequestsFollowMesh`: APISIX sends a request where Envoy would, with hosts, wildcards, header fields and parameters as they are translated; `RoutesOfListeners`, `RoutesConverge`: the dictionary has the routes of the listeners, and in the end those of the mesh, if nothing was overtaken |
| `xds_connection` | `TypeOK`; `WantedIsAsked`: a request is lost only by a failed send; `ResetsLeaveErrors`: every reset leaves an error for the next connection; `StatusFollowsFailure`; `BrokenIsReplaced`, `StopReturns` |
| `agent_store` | `TypeOK`, `UpToDate`, `ChangesAreApplied`: whatever the clock does, the reader never settles on a torn or old configuration, unless the version that is marked was given to two batches |
| `lifecycle` | `TypeOK`; `PanicsExplained`, `FatalsExplained`: what can end the process, and nothing else; `StoresUntilStopped`; `StopEnds`: a stop ends the agent's loop or the process, even with a handler that waits for ever |
| `plugin_streams` | `TypeOK`, `NoLostUpdate`, `ManagedInstancesCounted` for pods that have not overlapped; `ImplementsFeed`: the refinement, its liveness included |
| `plugin_sync` | `TypeOK`; `PluginsApplied` without `overtaken` and `notNewer`; `RoutesPatched` without `race`; `UpdatesArrive` without `burst` |
| `plugin_sync_deadlock` (violation) | two updates in a row: `configLock` and the event channel wait for each other |
| `plugin_controller` | `TypeOK`, `StatusWritesSettle`; `CachesFollowObjects` without `version`, and for selectors but for keys that are `misfilled`; `PodsUpToDate` without any anomaly |
| `iptables` | `TypeOK`; `NothingElseRedirected`: no connection that should not be redirected is, at any moment; `AllRedirected` when finished; `InstalledInOrder`: nothing takes effect twice |

The violations are the project's findings; each is a disagreement between
what the code does and what its README or tests say, quoted in
`PROJECT.json`. The conditions of the passing properties are needed too, each of
them: `LiveUpstreamsStored`, `RoutesStored` and `RoutesConverge` fail when
messages overtake each other, `UpToDate` when the marked version is `shared`: the
second of two batches in one millisecond is stored and not applied until another
comes. `NoLostUpdate` fails for a pod that has overlapped, and the
properties of `PluginSync` and `PluginController` fail when an anomaly they
exclude is admitted; so a change of an object's selector alone reaches no pod, as
`DiffPods` never finds a difference. These places are among the hazards in `PROJECT.json`. So is
the loss of the mesh's own plugins (fault injection, prometheus) whenever plugins
are updated, which `PatchAmeshPlugins` models as the code has it.

Some properties say what the code does where one might wish otherwise:
`ResetsLeaveErrors` that after a first reset no connection lasts, `FatalsExplained`
that a regular stop may end in a fatal error, `PanicsExplained` that a secret or
a missing Amesh source ends the process. Their other half, that nothing else
does, is what is checked.

**Bounds.** `MaxResponses`, `MaxMessages` and `MaxBatches` of 2 or 3 are the least
with which one message can overtake another; meshes are chosen so that a cluster
appears, changes its settings, its endpoints and its kind, and disappears. In
`upstream_serving` one cluster always serves and another comes and goes, has no
usable type, no endpoints, or needs further EDS and is ignored by it. The three
meshes of `route_sync` have two route configurations and listeners that name
both, one or none; one configuration has in one of them a route that cannot be
translated, and two routes share an id; there are hosts with and without a port, a
wildcard, any host with a port, texts with a dot, header fields in capitals, the
method, and a parameter in any case; two changes of the mesh suffice to come
back to an earlier one. `xds_connection` has two connections, the least with an
old one, and the types LDS, CDS and RDS (endpoints are asked for in the same way as
routes). `agent_store` stores three batches of up to two events, so that a read can
fall inside one, and has three milliseconds, so that a timestamp can be given twice
and then another one. In `lifecycle` two batches wait, so that one can be stored and
another be caught by the closing of the channel. Two streams for one pod and one
for another are the least with a reconnect and a bystander; `MaxVersion` gives
the pod that reconnects two changes. For `plugin_controller` two objects, a pod
and three changes are enough to delete and recreate an object, with a stream between
its look-up and its write, and to relabel a pod meanwhile; they start with version 5
and cross from one digit to two only if status writes succeed, so both cases are
there (4.8 million states). Two routes are the least that can be patched
with different plugins; the responses of `plugin_sync` change, drop and retype a
plugin, one of them is not JSON, and one is a plugin the mesh asks for too.
`iptables` runs through all combinations of no ports, all
ports, and lists with empty items, and exclusions.

The deadlock check is off where the model or the system may really stop: the
process or a stream has ended, the changes of the mesh or of objects are used up,
the command has finished, or, in `plugin_sync`, the system is in the deadlock
that `plugin_sync_deadlock` finds.

**Fairness.** Goroutines blocked on a Go channel are served in the order they
arrived, so the first response and the first batch are taken eventually.
Strong fairness for translating stands for this (`ReceiveFirst` in `RouteSync` is
`Receive` of the first response): the bounds `MaxBatches` and
`MaxMessages`, which the code does not have, disable steps now and then. istiod
answers what it is asked and pushes what has changed. The periodic timer fires
again and again if `syncInterval` is positive, which is the configuration
`EdsConverges` is about. In `XdsConnection` both servers can be reached again and
again (strong fairness of `StartRun`, which failed dials disable), a broken `Recv`
returns, and the `select` of `Run` is fair. In `Lifecycle` goroutines that can go on
do, and a `select` that finds `stop` closed each time takes it at some time, although
other cases are ready; nothing is assumed of istiod, APISIX, signals and clients.
In `AgentStore` the agent finishes what it began and APISIX polls. In
`PluginStreams` handlers and the reconciler run on and a sidecar that dials gets
through; no client is assumed to stay connected. In `PluginSync` every goroutine
that can proceed does.

## 4. Proofs

Everything here holds for every value of the constants, under the named
assumptions (`ASSUME`) of the modules. These say what the constants are: ignored
clusters are clusters, meshes are maps from clusters, `Missing` and `NoRoute` are no
values, streams are finitely many and each pod has one, versions are strings of
digits (in `PluginController` of numbers below 100, as `Digits` has it), a plugin
list is a list of names with configurations, names are unique in a response, what
is repeated in a listener or a route configuration is a slice, configurations and
their virtual hosts have different names, routes are what Envoy accepts
(`WellFormed`), punctuation has no letter case (`LettersAssumption`), the names and
values in a request are texts, and no header field of it has a name with "_". The
theorems are listed in `PROJECT.json`; every property of a run that is proved is
stated there by the theorem of its module. Each invariant below was an invariant
of a run before it was proved.

* `UpstreamSync`. `TypeCorrect`: each action builds maps over cluster names from
  maps over cluster names; the lemmas are about the operators. `ServiceGapFree`:
  by itself `NoServiceGap` says nothing about batches that are still waiting,
  hence `ServingInv`: no waiting batch deletes or empties a serving cluster, every
  announced form of it is an EDS cluster with a usable endpoint, and no load
  assignment in flight that names it lacks one. No order of delivery is assumed.
  `NoLostUpstream`: translating a CDS response emits the difference of old and new
  manifests; where there is none, the invariant before the step says that the
  dictionary will hold the old upstream, which is the new one; where there is
  one, the new batch is the last.
* `AgentStore`. `TypeCorrect` and `ReaderUpToDate`, with no assumption on the clock:
  `VersionsInv` says that the timestamp of the batch being stored, if no other batch
  has it, is neither marked nor seen; `ReadKeysInv` that keys read under the marked
  version, if that is not `shared`, are what is stored, unless a batch is being stored.
* `Lifecycle`. `TypeCorrect`, `NoOtherPanic`, `NoOtherFatal`, `StoringGoesOn` from one
  invariant: with the properties, `StopInv` says that whatever only a stop brings
  about (a server shut down, the provisioner returned and its channel closed, the
  agent past its loop) has not happened before one.
* `XdsConnection`. `TypeCorrect` with `ConnInv`, which ties the loops of a connection to
  the number of connections made. `RequestsArrive` is inductive with the types: what
  a send loop takes is asked for or is counted as lost. `StatusIsHonest` needs no
  more. `ErrorsOutliveResets` counts: `ResetInv` says that there are at least as many
  receive loops that run or hold an error as connections, and one more while a
  connection is up, its own two among them; a reset takes one and the next
  connection starts two.
* `PluginStreams`. `TypeCorrect` needs `GaugeInv`: the gauge is the number of handlers
  between registering and the deferred delete. `InstancesInv` says which handler
  an instance belongs to in pods that have not overlapped; with it follow
  `GaugeIsRight` and `UpdatesNotLost`. `StreamsImplementFeed` proves `Spec => Feed!Spec`
  step by step: `ClientInv` says that a sidecar has one stream at a time, even where
  the server has several handlers of it, `OrderInv` that what a handler is about to
  send is not behind what the sidecar has, and `LostGrows` that a pod once lost stays lost.
* `PluginController`. `TypeCorrect`. `WritesSettle`: status writes and objects whose
  status is not yet right are together at most the changes (`StatusInv`), a
  counting argument over a finite set. `CachesAreRight`: `VersionInv` and the lemma
  `StringOrder` say that strings of one length are ordered as the numbers are;
  `CacheInv` that what is cached is not newer than the object, and right if of the
  same version, the selector unless the key is `misfilled`; `QueueInv` that what is
  not queued is cached in its version.
  `PodsGetTheirPlugins` adds `KeyInv`: for each key, the object, the lister, the cache
  and every stream that has listed it have one selector, and an object that is gone
  and worked off is not listed. The lemma `FillKeeps` is what makes the
  two critical sections of a stream harmless here: without an anomaly a fill never
  changes a selector that is there. `PodInv` says for each key and each known pod that is
  not to be notified that its query has matched the key, or has still to look it up,
  if it is selected (`MatchInv`), and, if no query is under way, that the pod was sent
  what is cached (`PairInv`).
  The lemma `EqualLists` says for which lists `PluginsConfigEqual` is equality.
* `PluginSync`. `TypeCorrect`: the patcher empties its copies when it unlocks, and no
  translation replaces routes while they are locked. `LastResponseApplied`:
  `RevisionInv` says that the versions of a configuration rise, as strings, from
  the one in force over those under way to the last one sent (the lemma
  `StringLessTransitive` is needed for that), so that none is skipped; `LastInv` that
  the last response is the last under way, or in force. `RoutesGetPlugins`: `StoredInv`
  says that the dictionary has the routes in place; `RightInv` that they are right
  unless an event is to be taken or acted on, and that the copies are, as long as
  `configLock` is free: an update during the patching keeps the lock until the
  patcher comes back. The lemma `PatchForgets` says what of a route survives a
  patch. `LatestIn` (a set of places has a last one) comes from the
  well-foundedness of the naturals.
* `RouteSync`. What the loops over slices compute is proved by induction over the
  places of the slice, as sets of numbers with a least element (the lemma
  `Induction`), for `Pick`, `FlattenSeq` and the folds of `ApplyEvents`. `TypeCorrect`
  follows with it. `DictionaryHoldsRoutes`: an event list is a patch, a map of the
  last event of each key; patches compose, and the one of
  `IncrementalEvents` leads from the old map of routes to the new one
  (`DifferenceOfMaps`), hence `StoreInv`. `OnlyRoutesOfListeners`: `NamesInv` says
  that the names of the listeners are the last asked for, by a request not yet
  answered, or that what istiod serves is within them; `Closed` that the last RDS
  response under way is istiod's last. `RequestsReachTheirClusters`: `RoutesInv` says
  that routes in place are the translations of the configurations received last;
  the rest is about the translation. A pattern whose text has no dot means what the
  matcher means (`FoundIfDotFree`, `PatternMeans`), with and without letter case
  (`VarMeans`); the variable of a header field has the values of that field
  (`NameMeans`); so header, parameter and path of a faithful route mean the same on
  both sides (`HeaderMeans`, `ParamMeans`, `VarsMean`, `RouteMeans`). Clusters and weights
  are kept (`TargetsKept`), routes with one id are alike in all that counts
  (`SameId`), a virtual host Envoy takes is one whose hosts APISIX finds to match
  (`HostsMean`), and priorities do for Envoy's choice between several (`EnvoyRoutesMean`,
  `Alike`, `Above`, `RequestFollows`).

Only model-checked:

* liveness (`EdsConverges`, `RoutesConverge`, `BrokenIsReplaced`, `StopReturns`,
  `ChangesAreApplied`, `StopEnds`, `UpdatesArrive`) and the fairness half of
  `ImplementsFeed`: the prover has no fairness reasoning;
* the properties of `Iptables`: the list of rules is built with `SelectSeq`
  and from sorted sequences, about which the provers know nothing.

## 5. Checking

```
tlc -config UpstreamSync.cfg MCUpstreamSync      # every run: module and cfg in PROJECT.json
tlapm UpstreamSyncProofs.tla                     # and every other *Proofs module
```

Each property has a mutant of the model beside the definition it changes
(comments that begin with "Mutant:"); the property fails when the mutant
replaces the definition.

## 6. The plan

1. Proofs: `NothingElseRedirected` for any list of ports, with the list of rules
   stated by `Pick`, as the slices of `RouteSync` are.
2. A composition of `PluginController`, `PluginStreams` and `PluginSync`, from an
   object to the routes of a sidecar, and one of `XdsConnection` with
   `UpstreamSync`, where after a reset two responses are translated at a time.

## 7. Not modelled

* The rate of requests: a cluster without endpoints is asked for again at once
  and for ever (`xds.go:820`).
* The size of the shared dictionary, which may refuse or evict entries
  (`shdict.go:72`).
* Goroutines that `NotifyPodChange` leaves behind when a handler has returned: the
  model counts them, but leaking them breaks no promise (`grpc_server.go:92`).
* The panic for a weighted cluster without a weight (`route_translator.go:583`), and the
  special letters of a regular expression other than the dot.
* The panic of `amesh-iptables` for a user that does not exist, and its dry run
  (`cmd/iptables/main.go`), which installs nothing.
* Concurrent calls of `Send` on one stream (`xds.go:467`), a matter of the gRPC
  library, and the version in an ACK, which istiod does not go by.
* `translateRouteMirror`, `LabelSelectorEqual` and `patchRoutesWithOriginalDestination`:
  not called, or empty.
* What the HTTP servers answer, logging, command lines, the controller's main
  program (wiring only), the demo agent, generated code, charts, end to end tests.
