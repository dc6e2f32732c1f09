-------------------------- MODULE PluginController --------------------------
(***************************************************************************)
(* The reconciler of AmeshPluginConfig objects: it keeps their plugins in  *)
(* pluginsCache and their selectors in selectorCache, and notifies the     *)
(* pods a change affects; a notified pod is sent what GetPodPluginConfigs  *)
(* finds for it.  That function goes by the lister of a second informer,   *)
(* which learns of an object independently of the queue of the reconciler, *)
(* and fills the selector cache where it finds nothing: it looks a selector*)
(* up and writes it in two critical sections, with what it had listed.     *)
(* The way of a notification to a stream is the subject of PluginStreams;  *)
(* here a notified pod is one whose configurations will be sent, and a     *)
(* stream that ends with an error is not opened again.                     *)
(***************************************************************************)
EXTENDS Naturals, Sequences, FiniteSetsExt, Functions, ResourceVersions

CONSTANTS
  Keys,           \* names of AmeshPluginConfig objects, in one namespace
  Pods, Labels,   \* the pods of it, and the labels a pod may have
  PluginNames,    \* a name here stands for the type and the name of a plugin
  Configs,        \* configurations of a plugin
  Plugins,        \* the plugin lists an object may have
  Specs,          \* key -> the specs the object may have
  NoSelector,     \* the selector of an object that has none
  BadSelector,    \* a selector that cannot be converted, as one whose operator is
                  \*   unknown; the API server accepts it
  FirstVersions,  \* the resource versions there may be before the first change
  MaxChanges      \* bound on the changes made to objects and pods

\* A selector is the set of labels it matches.
ObjectSpec == [plugins : Plugins, selector : (SUBSET Labels) \cup {NoSelector, BadSelector}]

ASSUME PluginsAssumption == Plugins \subseteq Seq([name : PluginNames, config : Configs])
ASSUME SpecsAssumption == Specs \in [Keys -> SUBSET ObjectSpec]
ASSUME BoundsAssumption ==
  /\ FirstVersions \subseteq Nat /\ MaxChanges \in Nat
  /\ \A v \in FirstVersions : v + 2 * MaxChanges < 100

VARIABLES
  objects,        \* key -> [version, spec, synced, deleting]: the API server
  podLabel,       \* pod -> its label
  podVersion,     \* pod -> its resource version
  knownPods,      \* the pods the pod informer has
  lastVersion,    \* the resource version last given
  changes,        \* the number of changes made so far
  statusWrites,   \* the number of status writes so far (history variable)
  queue,          \* the keys to be reconciled
  listed,         \* key -> the selector the lister has
  pluginsCache,   \* key -> [version, plugins]
  selectorCache,  \* key -> labels
  misfilled,      \* the keys a stream has put a selector in for that was not that
                  \*   of the object, since they were last reconciled (history variable)
  streams,        \* the pods with an open stream
  toNotify,       \* the pods notified whose stream has not yet taken notice
  query,          \* pod -> where GetPodPluginConfigs of its stream is, see StartQuery
  view,           \* pod -> the configurations last sent: key -> plugins
  anomalies       \* what has happened that the code does not stand (history
                  \*   variable), see Anomalies

podVars    == <<podLabel, podVersion, knownPods>>
apiVars    == <<objects, podVars, lastVersion, changes, statusWrites>>
cacheVars  == <<pluginsCache, selectorCache, misfilled>>
streamVars == <<streams, toNotify, query, view>>
vars == <<apiVars, queue, listed, cacheVars, streamVars, anomalies>>

Without(f, k) == [x \in DOMAIN f \ {k} |-> f[x]]
With(f, k, v) == [x \in DOMAIN f \cup {k} |-> IF x = k THEN v ELSE f[x]]

-----------------------------------------------------------------------------
(***************************************************************************)
(* Kubernetes (external)                                                   *)
(***************************************************************************)

\* selector: an object has changed its selector;
\* invalid: an object was given a selector that cannot be converted;
\* list: an object was given a plugin list that names a plugin twice or has only
\*   changed its order;
\* lister: an object was reconciled before the lister knew of its change;
\* recreated: an object was created again before its deletion was reconciled, or
\*   before a stream that had listed the old one was done with it;
\* unlisted: a stream was served before the pod informer had its pod;
\* version: a resource version was given that as a string is not above the one
\*   before it, as 10 after 9.
Anomalies ==
  {"selector", "invalid", "list", "lister", "recreated", "unlisted", "version"}

Names(list) == {list[i].name : i \in DOMAIN list}

\* A list that names a plugin twice, or has the elements of the cached one in
\* another order.
OddList(k, list) ==
  \/ Cardinality(Names(list)) # Len(list)
  \/ /\ k \in DOMAIN pluginsCache
     /\ pluginsCache[k].plugins # list
     /\ Range(pluginsCache[k].plugins) = Range(list)

\* The anomaly of giving the next resource version, if it is one.
VersionAnomaly ==
  IF StringLess(Digits(lastVersion), Digits(lastVersion + 1)) THEN {} ELSE {"version"}

\* Some stream is going to fill in a selector of k, or to send its plugins.
Queried(k) == \E p \in DOMAIN query : k \in DOMAIN query[p].todo \cup query[p].matched

\* The anomalies of giving object k the spec s.
SpecAnomalies(k, s) ==
  {a \in {"selector", "invalid", "list", "recreated"} :
     CASE a = "selector" -> k \in DOMAIN objects /\ objects[k].spec.selector # s.selector
       [] a = "invalid" -> s.selector = BadSelector
       [] a = "list" -> OddList(k, s.plugins)
       [] a = "recreated" -> k \notin DOMAIN objects /\ (k \in queue \/ Queried(k))}

\* An object is created, or its spec is changed.
Apply(k, s) ==
  /\ changes < MaxChanges
  /\ k \in DOMAIN objects => objects[k].spec # s /\ ~objects[k].deleting
  /\ changes' = changes + 1
  /\ lastVersion' = lastVersion + 1
  /\ objects' = With(objects, k, [version |-> lastVersion', spec |-> s,
                                  synced |-> FALSE, deleting |-> FALSE])
  /\ queue' = queue \cup {k}
  /\ anomalies' = anomalies \cup VersionAnomaly \cup SpecAnomalies(k, s)
  /\ UNCHANGED <<podVars, statusWrites, listed, cacheVars, streamVars>>

\* An object is deleted, or, if it has a finalizer, marked at first.
Remove(k) ==
  /\ changes < MaxChanges
  /\ k \in DOMAIN objects
  /\ changes' = changes + 1
  /\ lastVersion' = lastVersion + 1
  /\ \/ objects' = Without(objects, k)
     \/ /\ ~objects[k].deleting
        /\ objects' = [objects EXCEPT ![k].deleting = TRUE, ![k].version = lastVersion']
  /\ queue' = queue \cup {k}
  /\ anomalies' = anomalies \cup VersionAnomaly
  /\ UNCHANGED <<podVars, statusWrites, listed, cacheVars, streamVars>>

\* The lister behind the selector cache catches up with an object.
ListerFresh(k) ==
  /\ k \in DOMAIN objects <=> k \in DOMAIN listed
  /\ k \in DOMAIN objects => listed[k] = objects[k].spec.selector

ListerSync(k) ==
  /\ ~ListerFresh(k)
  /\ listed' = IF k \in DOMAIN objects THEN With(listed, k, objects[k].spec.selector)
               ELSE Without(listed, k)
  /\ UNCHANGED <<apiVars, queue, cacheVars, streamVars, anomalies>>

-----------------------------------------------------------------------------
(***************************************************************************)
(* The reconciler                                                          *)
(***************************************************************************)

\* SelectorCache.Update: no selector, or an empty one, selects everything.  It
\* fails for a selector that cannot be converted.
SelectorOf(sel) == IF sel \in {NoSelector, {}} THEN Labels ELSE sel

\* The pods the pod lister returns for a selector.
PodsOf(labels) == {p \in knownPods : podLabel[p] \in labels}

\* The second result of DiffPods, both.  The pods of either selector are looked
\* up in the map they come from and found there, so onlyInOld and onlyInNew are
\* empty and every pod is in both.
DiffPodsBoth(old, new) == PodsOf(old) \cup PodsOf(new)

\* The map a plugin list is turned into: the last one of a name counts.
PluginMap(list) ==
  [n \in Names(list) |-> list[Max({i \in DOMAIN list : list[i].name = n})].config]

\* Mutant: lists of the same names are taken to be equal.
PluginsConfigEqualNames(old, new) ==
  /\ Len(old) = Len(new)
  /\ Names(new) \subseteq Names(old)

\* Lists of one length whose maps agree on the names of the new one.
PluginsConfigEqual(old, new) ==
  /\ Len(old) = Len(new)
  /\ \A n \in Names(new) : n \in Names(old) /\ PluginMap(new)[n] = PluginMap(old)[n]

LabelsEqual(old, new) == old = new

\* SendPluginsConfigs: NotifyPodChange finds the streams that are open.
SendPluginsConfigs(pods) == toNotify' = toNotify \cup (pods \cap streams)

\* The informer's AddFunc.
AddPod(p) ==
  /\ p \notin knownPods
  /\ knownPods' = knownPods \cup {p}
  /\ SendPluginsConfigs({p})
  /\ UNCHANGED <<objects, podLabel, podVersion, lastVersion, changes, statusWrites,
                 queue, listed, cacheVars, streams, query, view, anomalies>>

\* A pod changes, maybe its label, and the informer's UpdateFunc notifies it if
\* its version has grown and its labels are others.
UpdatePod(p, l) ==
  /\ changes < MaxChanges
  /\ p \in knownPods
  /\ changes' = changes + 1
  /\ lastVersion' = lastVersion + 1
  /\ podLabel' = [podLabel EXCEPT ![p] = l]
  /\ podVersion' = [podVersion EXCEPT ![p] = lastVersion']
  /\ LET grown == StringLess(Digits(podVersion[p]), Digits(lastVersion'))
     IN  SendPluginsConfigs(IF grown /\ ~LabelsEqual(podLabel[p], l) THEN {p} ELSE {})
  /\ anomalies' = anomalies \cup VersionAnomaly
  /\ UNCHANGED <<objects, knownPods, statusWrites, queue, listed, cacheVars, streams, query,
                 view>>

\* Mutant: the status is written each time.
RecordStatusAlways(k) ==
  /\ objects' = [objects EXCEPT ![k].version = lastVersion + 1, ![k].synced = TRUE]
  /\ lastVersion' = lastVersion + 1
  /\ statusWrites' = statusWrites + 1
  /\ queue' = queue

\* recordStatus: the condition of a spec that has it already changes nothing;
\* otherwise the object gets a new version and comes back to the queue.  A
\* failed write is logged, and not tried again.
RecordStatus(k) ==
  \/ /\ queue' = queue \ {k}
     /\ UNCHANGED <<objects, lastVersion, statusWrites>>
  \/ /\ ~objects[k].synced
     /\ objects' = [objects EXCEPT ![k].version = lastVersion + 1, ![k].synced = TRUE]
     /\ lastVersion' = lastVersion + 1
     /\ statusWrites' = statusWrites + 1
     /\ queue' = queue

\* Mutant: the plugins of a deleted object stay in the cache.
ReconcileDeletedKeeping(k) ==
  /\ k \notin DOMAIN objects
  /\ SendPluginsConfigs(IF k \in DOMAIN selectorCache THEN PodsOf(selectorCache[k]) ELSE {})
  /\ selectorCache' = Without(selectorCache, k)
  /\ misfilled' = misfilled \ {k}
  /\ queue' = queue \ {k}
  /\ UNCHANGED <<apiVars, listed, pluginsCache, streams, query, view>>

\* Reconcile of an object that is gone.
ReconcileDeleted(k) ==
  /\ k \notin DOMAIN objects
  /\ pluginsCache' = Without(pluginsCache, k)
  /\ SendPluginsConfigs(IF k \in DOMAIN selectorCache THEN PodsOf(selectorCache[k]) ELSE {})
  /\ selectorCache' = Without(selectorCache, k)
  /\ misfilled' = misfilled \ {k}
  /\ queue' = queue \ {k}
  /\ UNCHANGED <<apiVars, listed, streams, query, view>>

\* The cached configuration is taken to be as new as the object.
Stale(k) ==
  /\ k \in DOMAIN pluginsCache
  /\ ~StringLess(Digits(pluginsCache[k].version), Digits(objects[k].version))

\* Reconcile returns early: the object is being deleted, or it is no news.
ReconcileSkipped(k) ==
  /\ k \in DOMAIN objects
  /\ objects[k].deleting \/ Stale(k)
  /\ queue' = queue \ {k}
  /\ UNCHANGED <<apiVars, listed, cacheVars, streamVars>>

\* Reconcile returns the error of the selector, and the key is queued again.
ReconcileInvalid(k) ==
  /\ k \in DOMAIN objects
  /\ ~objects[k].deleting /\ ~Stale(k)
  /\ objects[k].spec.selector = BadSelector
  /\ UNCHANGED <<apiVars, queue, listed, cacheVars, streamVars>>

\* Reconcile of a new or changed object.  As the new selector is never nil,
\* only two of the branches at its end are taken, and both notify the same
\* pods: those of DiffPods if the plugins have changed.
ReconcileChanged(k) ==
  /\ k \in DOMAIN objects
  /\ ~objects[k].deleting /\ ~Stale(k)
  /\ objects[k].spec.selector # BadSelector
  /\ LET spec == objects[k].spec
         new == SelectorOf(spec.selector)
         old == IF k \in DOMAIN selectorCache THEN selectorCache[k] ELSE Labels
         pluginChanged == k \in DOMAIN pluginsCache
                            => ~PluginsConfigEqual(pluginsCache[k].plugins, spec.plugins)
     IN  /\ selectorCache' = With(selectorCache, k, new)
         /\ pluginsCache' = With(pluginsCache, k,
              [version |-> objects[k].version, plugins |-> spec.plugins])
         /\ SendPluginsConfigs(IF pluginChanged THEN DiffPodsBoth(old, new) ELSE {})
  /\ misfilled' = misfilled \ {k}
  /\ RecordStatus(k)
  /\ UNCHANGED <<podVars, changes, listed, streams, query, view>>

Reconcile(k) ==
  /\ k \in queue
  /\ \/ ReconcileDeleted(k)
     \/ ReconcileSkipped(k)
     \/ ReconcileInvalid(k)
     \/ ReconcileChanged(k)
  /\ anomalies' = anomalies
       \cup (IF ListerFresh(k) THEN {} ELSE {"lister"})
       \cup (IF statusWrites' = statusWrites THEN {} ELSE VersionAnomaly)

-----------------------------------------------------------------------------
(***************************************************************************)
(* The stream of a pod                                                     *)
(***************************************************************************)

\* The stream of a notified pod starts GetPodPluginConfigs: it gets the pod, and
\* SelectorCache.GetPodPluginConfigs lists the objects.  Those that have no
\* selector match at once; of the others it has the selectors as they are listed
\* now, and takes them one by one.
StartQuery(p) ==
  /\ p \in toNotify \ DOMAIN query
  /\ p \in knownPods
  /\ LET none == {k \in DOMAIN listed : listed[k] = NoSelector}
     IN  query' = With(query, p, [label |-> podLabel[p], matched |-> none, missed |-> {},
                                  todo |-> [k \in DOMAIN listed \ none |-> listed[k]]])
  /\ toNotify' = toNotify \ {p}
  /\ UNCHANGED <<apiVars, queue, listed, cacheVars, streams, view, anomalies>>

\* sendPodPluginConfig returns an error, and with it the handler.
EndStream(p) ==
  /\ streams' = streams \ {p}
  /\ toNotify' = toNotify \ {p}
  /\ query' = Without(query, p)
  /\ UNCHANGED <<apiVars, queue, listed, cacheVars, view>>

\* The pod is not listed.
PodNotFound(p) ==
  /\ p \in toNotify \ DOMAIN query
  /\ p \notin knownPods
  /\ EndStream(p)
  /\ anomalies' = anomalies \cup {"unlisted"}

\* The object k is done with: it matches if its selector selects the pod.
Looked(q, k, labels) ==
  [q EXCEPT !.todo = Without(q.todo, k), !.missed = {},
            !.matched = IF q.label \in labels THEN q.matched \cup {k} ELSE q.matched]

\* SelectorCache.Get, by the stream of p for object k.
LookUp(p, k) ==
  /\ p \in DOMAIN query /\ query[p].missed = {}
  /\ k \in DOMAIN query[p].todo
  /\ query' = [query EXCEPT ![p] = IF k \in DOMAIN selectorCache
                                   THEN Looked(query[p], k, selectorCache[k])
                                   ELSE [query[p] EXCEPT !.missed = {k}]]
  /\ UNCHANGED <<apiVars, queue, listed, cacheVars, streams, toNotify, view, anomalies>>

\* SelectorCache.Update, after a Get that found nothing: by now there may be a
\* selector, and the object may have another one or be gone.
FillSelector(p, k) ==
  /\ p \in DOMAIN query /\ k \in query[p].missed
  /\ query[p].todo[k] # BadSelector
  /\ LET labels == SelectorOf(query[p].todo[k])
         right == k \in DOMAIN objects /\ objects[k].spec.selector = query[p].todo[k]
     IN  /\ selectorCache' = With(selectorCache, k, labels)
         /\ query' = [query EXCEPT ![p] = Looked(query[p], k, labels)]
         /\ misfilled' = IF right THEN misfilled \ {k} ELSE misfilled \cup {k}
  /\ UNCHANGED <<apiVars, queue, listed, pluginsCache, streams, toNotify, view, anomalies>>

\* An object of the namespace, whether or not meant for this pod, has a selector
\* that cannot be converted.
FillFails(p, k) ==
  /\ p \in DOMAIN query /\ k \in query[p].missed
  /\ query[p].todo[k] = BadSelector
  /\ EndStream(p)
  /\ UNCHANGED anomalies

\* Mutant: an object that is not in the cache is sent as well.
PodPluginConfigsUnchecked(p) ==
  [k \in query[p].matched |-> IF k \in DOMAIN pluginsCache
                              THEN pluginsCache[k].plugins ELSE NoSelector]

\* GetPodPluginConfigs returns the cached plugins of the matching objects.
PodPluginConfigs(p) ==
  [k \in query[p].matched \cap DOMAIN pluginsCache |-> pluginsCache[k].plugins]

\* They are read and sent.
Send(p) ==
  /\ p \in DOMAIN query /\ DOMAIN query[p].todo = {}
  /\ view' = [view EXCEPT ![p] = PodPluginConfigs(p)]
  /\ query' = Without(query, p)
  /\ UNCHANGED <<apiVars, queue, listed, cacheVars, streams, toNotify, anomalies>>

-----------------------------------------------------------------------------

\* The streams have just been opened.
Init ==
  /\ objects = << >>
  /\ podLabel \in [Pods -> Labels]
  /\ lastVersion \in FirstVersions
  /\ podVersion = [p \in Pods |-> lastVersion]
  /\ knownPods \in SUBSET Pods
  /\ changes = 0
  /\ statusWrites = 0
  /\ queue = {}
  /\ listed = << >>
  /\ pluginsCache = << >>
  /\ selectorCache = << >>
  /\ misfilled = {}
  /\ streams = Pods
  /\ toNotify = Pods
  /\ query = << >>
  /\ view = [p \in Pods |-> << >>]
  /\ anomalies = {}

Next ==
  \/ \E k \in Keys : \/ \E s \in Specs[k] : Apply(k, s)
                     \/ Remove(k)
                     \/ ListerSync(k)
                     \/ Reconcile(k)
  \/ \E p \in Pods : \/ AddPod(p)
                     \/ \E l \in Labels : UpdatePod(p, l)
                     \/ StartQuery(p)
                     \/ PodNotFound(p)
                     \/ \E k \in Keys : LookUp(p, k) \/ FillSelector(p, k) \/ FillFails(p, k)
                     \/ Send(p)

Spec == Init /\ [][Next]_vars

-----------------------------------------------------------------------------
(***************************************************************************)
(* Properties                                                              *)
(***************************************************************************)

MapOf(f, S) == DOMAIN f \subseteq Keys /\ \A k \in DOMAIN f : f[k] \in S

\* Types: objects, caches and what was sent are maps over the keys, and a pod
\* that is to be sent something has a stream, whose query has missed only what
\* it has still to do.
TypeOK ==
  /\ MapOf(objects, [version : 0..lastVersion, spec : ObjectSpec,
                     synced : BOOLEAN, deleting : BOOLEAN])
  /\ podLabel \in [Pods -> Labels]
  /\ podVersion \in [Pods -> 0..lastVersion]
  /\ knownPods \subseteq Pods
  /\ lastVersion \in Nat /\ changes \in 0..MaxChanges /\ statusWrites \in Nat
  /\ queue \subseteq Keys
  /\ MapOf(listed, (SUBSET Labels) \cup {NoSelector, BadSelector})
  /\ MapOf(pluginsCache, [version : 0..lastVersion, plugins : Plugins])
  /\ MapOf(selectorCache, SUBSET Labels)
  /\ misfilled \subseteq Keys
  /\ streams \subseteq Pods /\ toNotify \subseteq streams
  /\ DOMAIN query \subseteq streams
  /\ \A p \in DOMAIN query :
       /\ DOMAIN query[p] = {"label", "matched", "missed", "todo"}
       /\ query[p].label \in Labels /\ query[p].matched \subseteq Keys
       /\ MapOf(query[p].todo, (SUBSET Labels) \cup {BadSelector})
       /\ query[p].missed \subseteq DOMAIN query[p].todo
  /\ DOMAIN view = Pods /\ \A p \in Pods : MapOf(view[p], Plugins)
  /\ anomalies \subseteq Anomalies

\* The objects Reconcile takes notice of.
Current == {k \in DOMAIN objects : ~objects[k].deleting}
Valid == {k \in Current : objects[k].spec.selector # BadSelector}

\* Once the valid objects are worked off, pluginsCache holds exactly their
\* plugins, and selectorCache the right selector of each and none of an object
\* that is gone, although status writes fail, an object with an invalid selector
\* is queued for ever and streams fill the selector cache with what they had
\* listed before.  The exceptions are a version that Reconcile takes for an older
\* one, and, for selectors, the keys for which a stream has put one back that is
\* not, or no longer, that of the object: the next Reconcile rights them.
CachesFollowObjects ==
  queue \subseteq Current \ Valid /\ "version" \notin anomalies =>
    /\ DOMAIN pluginsCache \subseteq DOMAIN objects
    /\ DOMAIN selectorCache \subseteq DOMAIN objects \cup misfilled
    /\ \A k \in Valid :
         /\ k \in DOMAIN pluginsCache \cap DOMAIN selectorCache
         /\ pluginsCache[k].plugins = objects[k].spec.plugins
         /\ k \notin misfilled => selectorCache[k] = SelectorOf(objects[k].spec.selector)

\* Each change of an object leads to at most one status write: the version that
\* a status write gives the object, and the reconciliation this causes, do not
\* lead to another one.
StatusWritesSettle == statusWrites <= changes

\* Nothing is left to be reconciled, listed or sent.
Settled ==
  /\ queue = {} /\ toNotify = {} /\ DOMAIN query = {} /\ knownPods = Pods
  /\ \A k \in Keys : ListerFresh(k)

\* What a pod should run with: the plugins of every object that selects it.
Expected(p) ==
  LET matching == {k \in Current : podLabel[p] \in SelectorOf(objects[k].spec.selector)}
  IN  [k \in matching |-> objects[k].spec.plugins]

\* What it was last sent of the objects that are not being deleted.
Sent(p) == [k \in DOMAIN view[p] \ (DOMAIN objects \ Current) |-> view[p][k]]

\* Whatever was applied, deleted or relabelled, and however this falls between
\* reconciling, listing, the look-ups of a stream, its writes to the selector
\* cache and sending, when all is settled every pod has kept its stream and was
\* sent exactly the plugins of the objects that select it.  This holds unless one
\* of the anomalies occurred; a selector that a stream has put back after its
\* object was deleted does no harm.
PodsUpToDate ==
  anomalies = {} /\ Settled => \A p \in Pods : p \in streams /\ Sent(p) = Expected(p)

=============================================================================
