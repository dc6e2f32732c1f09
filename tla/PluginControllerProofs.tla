----------------------- MODULE PluginControllerProofs -----------------------
(***************************************************************************)
(* Proofs about PluginController, for any objects, pods, plugins and       *)
(* bounds.                                                                 *)
(***************************************************************************)
EXTENDS PluginController, FiniteSetTheorems, TLAPS

ObjectsUpTo(n) ==
  [version : 0..n, spec : ObjectSpec, synced : BOOLEAN, deleting : BOOLEAN]

CachedUpTo(n) == [version : 0..n, plugins : Plugins]

Selectors == (SUBSET Labels) \cup {NoSelector, BadSelector}

\* What a stream has to look up.
Asked == (SUBSET Labels) \cup {BadSelector}

QueryOK(q) ==
  /\ DOMAIN q = {"label", "matched", "missed", "todo"}
  /\ q.label \in Labels /\ q.matched \subseteq Keys
  /\ MapOf(q.todo, Asked)
  /\ q.missed \subseteq DOMAIN q.todo

\* A step of the stream of a pod.
StreamStep(p) ==
  \/ StartQuery(p) \/ PodNotFound(p) \/ Send(p)
  \/ \E k \in Keys : LookUp(p, k) \/ FillSelector(p, k) \/ FillFails(p, k)

\* It leaves the objects, the queue, the lister and the plugins cache alone, and
\* only a fill writes to the selector cache.
LEMMA StreamFrame ==
  ASSUME NEW p, StreamStep(p)
  PROVE  /\ UNCHANGED <<apiVars, queue, listed, pluginsCache>>
         /\ anomalies \subseteq anomalies'
         /\ \/ UNCHANGED <<selectorCache, misfilled>>
            \/ \E k \in Keys : FillSelector(p, k)
BY DEF StreamStep, StartQuery, PodNotFound, LookUp, FillSelector, FillFails, Send, EndStream,
       cacheVars

-----------------------------------------------------------------------------
(***************************************************************************)
(* Type correctness                                                        *)
(***************************************************************************)

\* The empty map.
LEMMA EmptyMap == ASSUME NEW S PROVE MapOf(<< >>, S)
BY DEF MapOf

\* A map with one more entry.
LEMMA WithMap ==
  ASSUME NEW f, NEW S, MapOf(f, S), NEW k \in Keys, NEW v \in S
  PROVE  MapOf(With(f, k, v), S)
BY DEF MapOf, With

\* A map with one entry less.
LEMMA WithoutMap ==
  ASSUME NEW f, NEW S, MapOf(f, S), NEW k
  PROVE  MapOf(Without(f, k), S)
BY DEF MapOf, Without

\* Versions that are in range stay so when the last version grows.
LEMMA VersionsGrow ==
  ASSUME NEW n \in Nat, NEW m \in Nat, n <= m
  PROVE  /\ \A f : MapOf(f, ObjectsUpTo(n)) => MapOf(f, ObjectsUpTo(m))
         /\ \A f : MapOf(f, CachedUpTo(n)) => MapOf(f, CachedUpTo(m))
         /\ \A f : f \in [Pods -> 0..n] => f \in [Pods -> 0..m]
<1>1. 0..n \subseteq 0..m
  OBVIOUS
<1>2. ObjectsUpTo(n) \subseteq ObjectsUpTo(m)
  BY <1>1, Zenon DEF ObjectsUpTo
<1>3. CachedUpTo(n) \subseteq CachedUpTo(m)
  BY <1>1 DEF CachedUpTo
<1> QED
  BY <1>1, <1>2, <1>3 DEF MapOf

\* TypeOK, by the names used here.
Types ==
  /\ MapOf(objects, ObjectsUpTo(lastVersion))
  /\ podLabel \in [Pods -> Labels]
  /\ podVersion \in [Pods -> 0..lastVersion]
  /\ knownPods \subseteq Pods
  /\ lastVersion \in Nat /\ changes \in 0..MaxChanges /\ statusWrites \in Nat
  /\ queue \subseteq Keys
  /\ MapOf(listed, Selectors)
  /\ MapOf(pluginsCache, CachedUpTo(lastVersion))
  /\ MapOf(selectorCache, SUBSET Labels)
  /\ misfilled \subseteq Keys
  /\ streams \subseteq Pods /\ toNotify \subseteq streams
  /\ DOMAIN query \subseteq streams /\ \A p \in DOMAIN query : QueryOK(query[p])
  /\ DOMAIN view = Pods /\ \A p \in Pods : MapOf(view[p], Plugins)
  /\ anomalies \subseteq Anomalies

\* The two are the same.
LEMMA TypesAreTypeOK == Types <=> TypeOK
BY DEF Types, TypeOK, ObjectsUpTo, CachedUpTo, Selectors, Asked, QueryOK

\* Before the first object.
LEMMA TypesInit == Init => Types
<1> SUFFICES ASSUME Init PROVE Types
  OBVIOUS
<1>1. \A S : MapOf(<< >>, S)
  BY EmptyMap
<1>2. lastVersion \in Nat
  BY BoundsAssumption DEF Init
<1>3. podVersion \in [Pods -> 0..lastVersion]
  BY <1>2 DEF Init
<1>4. changes \in 0..MaxChanges /\ statusWrites \in Nat
  BY BoundsAssumption DEF Init
<1>5. DOMAIN view = Pods /\ \A p \in Pods : MapOf(view[p], Plugins)
  BY <1>1 DEF Init
<1> QED
  BY <1>1, <1>2, <1>3, <1>4, <1>5 DEF Init, Types

\* The fields of an object.
LEMMA ObjectFields ==
  ASSUME NEW n \in Nat, MapOf(objects, ObjectsUpTo(n)), NEW k \in DOMAIN objects
  PROVE  /\ k \in Keys
         /\ objects[k].version \in 0..n
         /\ objects[k].spec \in ObjectSpec
         /\ objects[k].spec.plugins \in Plugins
         /\ objects[k].spec.selector \in Selectors
         /\ objects[k].synced \in BOOLEAN
         /\ objects[k].deleting \in BOOLEAN
<1>1. k \in Keys /\ objects[k] \in ObjectsUpTo(n)
  BY DEF MapOf
<1>2. /\ objects[k].version \in 0..n
      /\ objects[k].spec \in ObjectSpec
      /\ objects[k].synced \in BOOLEAN
      /\ objects[k].deleting \in BOOLEAN
  BY <1>1, Zenon DEF ObjectsUpTo
<1>3. objects[k].spec.plugins \in Plugins /\ objects[k].spec.selector \in Selectors
  BY <1>2, Zenon DEF ObjectSpec, Selectors
<1> QED
  BY <1>1, <1>2, <1>3

\* The names of the anomalies.
LEMMA AnomalyNames ==
  /\ VersionAnomaly \subseteq Anomalies
  /\ \A k, s : SpecAnomalies(k, s) \subseteq Anomalies
BY DEF VersionAnomaly, SpecAnomalies, Anomalies

\* A marked object, or one with its status written, differs in its version and
\* one flag.
LEMMA MarkedObject ==
  ASSUME NEW n \in Nat, MapOf(objects, ObjectsUpTo(n)), NEW k \in DOMAIN objects,
         NEW m \in Nat, n <= m
  PROVE  /\ MapOf([objects EXCEPT ![k].deleting = TRUE, ![k].version = m], ObjectsUpTo(m))
         /\ MapOf([objects EXCEPT ![k].version = m, ![k].synced = TRUE], ObjectsUpTo(m))
<1>1. MapOf(objects, ObjectsUpTo(m))
  BY VersionsGrow
<1>2. /\ [objects[k] EXCEPT !.deleting = TRUE, !.version = m] \in ObjectsUpTo(m)
      /\ [objects[k] EXCEPT !.version = m, !.synced = TRUE] \in ObjectsUpTo(m)
  <2>1. objects[k] \in ObjectsUpTo(m) /\ m \in 0..m
    BY <1>1 DEF MapOf
  <2>2. \A r \in ObjectsUpTo(m) : /\ [r EXCEPT !.deleting = TRUE] \in ObjectsUpTo(m)
                                  /\ [r EXCEPT !.synced = TRUE] \in ObjectsUpTo(m)
    BY Zenon DEF ObjectsUpTo
  <2>3. \A r \in ObjectsUpTo(m) : [r EXCEPT !.version = m] \in ObjectsUpTo(m)
    BY <2>1, Zenon DEF ObjectsUpTo
  <2> QED
    BY <2>1, <2>2, <2>3
<1> QED
  BY <1>1, <1>2 DEF MapOf

\* What a selector that can be converted becomes.
LEMMA SelectorOfType ==
  ASSUME NEW sel \in Selectors, sel # BadSelector
  PROVE  SelectorOf(sel) \in SUBSET Labels
BY DEF Selectors, SelectorOf

\* A query with one object less to do.
LEMMA LookedType ==
  ASSUME NEW q, QueryOK(q), NEW k \in Keys, NEW labels
  PROVE  QueryOK(Looked(q, k, labels))
<1>1. /\ DOMAIN Looked(q, k, labels) = {"label", "matched", "missed", "todo"}
      /\ Looked(q, k, labels).label = q.label
      /\ Looked(q, k, labels).missed = {}
      /\ Looked(q, k, labels).todo = Without(q.todo, k)
      /\ Looked(q, k, labels).matched \subseteq q.matched \cup {k}
  BY DEF Looked, QueryOK
<1>2. MapOf(Without(q.todo, k), Asked)
  BY WithoutMap DEF QueryOK
<1> QED
  BY <1>1, <1>2 DEF QueryOK

\* What is sent.
LEMMA ConfigsType ==
  ASSUME NEW n, MapOf(pluginsCache, CachedUpTo(n)), NEW p
  PROVE  MapOf(PodPluginConfigs(p), Plugins)
BY DEF MapOf, PodPluginConfigs, CachedUpTo

\* The objects and versions after a status write, or none.
LEMMA RecordStatusTypes ==
  ASSUME Types, NEW k \in DOMAIN objects, RecordStatus(k)
  PROVE  /\ lastVersion' \in Nat /\ lastVersion <= lastVersion'
         /\ statusWrites' \in Nat /\ queue' \subseteq Keys
         /\ MapOf(objects', ObjectsUpTo(lastVersion'))
<1>0. lastVersion \in Nat /\ statusWrites \in Nat /\ queue \subseteq Keys
      /\ MapOf(objects, ObjectsUpTo(lastVersion))
  BY DEF Types
<1>1. CASE queue' = queue \ {k} /\ UNCHANGED <<objects, lastVersion, statusWrites>>
  BY <1>0, <1>1
<1>2. CASE /\ objects' = [objects EXCEPT ![k].version = lastVersion + 1, ![k].synced = TRUE]
           /\ lastVersion' = lastVersion + 1
           /\ statusWrites' = statusWrites + 1
           /\ queue' = queue
  <2>1. lastVersion' \in Nat /\ lastVersion <= lastVersion' /\ statusWrites' \in Nat
    BY <1>0, <1>2
  <2>2. MapOf(objects', ObjectsUpTo(lastVersion'))
    BY <1>0, <1>2, <2>1, MarkedObject
  <2> QED
    BY <1>0, <1>2, <2>1, <2>2
<1> QED
  BY <1>1, <1>2 DEF RecordStatus

\* Reconciling keeps the types.
LEMMA TypesReconcile ==
  ASSUME Types, NEW k \in Keys, Reconcile(k)
  PROVE  Types'
<1> USE DEF Types, apiVars, podVars, cacheVars, streamVars
<1>0. anomalies' \subseteq Anomalies
  BY AnomalyNames DEF Reconcile, Anomalies
<1>1. CASE ReconcileDeleted(k)
  <2>1. MapOf(pluginsCache', CachedUpTo(lastVersion)) /\ MapOf(selectorCache', SUBSET Labels)
    BY <1>1, WithoutMap DEF ReconcileDeleted
  <2>2. toNotify' \subseteq streams
    BY <1>1 DEF ReconcileDeleted, SendPluginsConfigs
  <2> QED
    BY <1>0, <1>1, <2>1, <2>2 DEF ReconcileDeleted
<1>2. CASE ReconcileSkipped(k) \/ ReconcileInvalid(k)
  BY <1>0, <1>2 DEF ReconcileSkipped, ReconcileInvalid
<1>3. CASE ReconcileChanged(k)
  <2>0. k \in DOMAIN objects /\ RecordStatus(k)
    BY <1>3 DEF ReconcileChanged
  <2>1. /\ lastVersion' \in Nat /\ lastVersion <= lastVersion'
        /\ statusWrites' \in Nat /\ queue' \subseteq Keys
        /\ MapOf(objects', ObjectsUpTo(lastVersion'))
    BY <2>0, RecordStatusTypes
  <2>2. /\ objects[k].version \in 0..lastVersion
        /\ objects[k].spec.plugins \in Plugins
        /\ objects[k].spec.selector \in Selectors
    BY <2>0, ObjectFields
  <2>3. MapOf(selectorCache', SUBSET Labels)
    <3>1. SelectorOf(objects[k].spec.selector) \in SUBSET Labels
      BY <1>3, <2>2, SelectorOfType DEF ReconcileChanged
    <3>2. selectorCache' = With(selectorCache, k, SelectorOf(objects[k].spec.selector))
      BY <1>3 DEF ReconcileChanged
    <3> QED
      BY <3>1, <3>2, WithMap
  <2>4. MapOf(pluginsCache', CachedUpTo(lastVersion'))
    <3> DEFINE entry == [version |-> objects[k].version, plugins |-> objects[k].spec.plugins]
    <3>1. entry \in CachedUpTo(lastVersion)
      BY <2>2 DEF CachedUpTo
    <3>2. pluginsCache' = With(pluginsCache, k, entry)
      BY <1>3 DEF ReconcileChanged
    <3> HIDE DEF entry
    <3>3. MapOf(pluginsCache', CachedUpTo(lastVersion))
      BY <3>1, <3>2, WithMap
    <3> QED
      BY <2>1, <3>3, VersionsGrow
  <2>5. toNotify' \subseteq streams
    BY <1>3 DEF ReconcileChanged, SendPluginsConfigs
  <2>6. podVersion' \in [Pods -> 0..lastVersion']
    BY <1>3, <2>1, VersionsGrow DEF ReconcileChanged
  <2> QED
    BY <1>0, <1>3, <2>1, <2>3, <2>4, <2>5, <2>6 DEF ReconcileChanged
<1> QED
  BY <1>1, <1>2, <1>3 DEF Reconcile

\* The spec of an object is given or it is removed: the new objects.
LEMMA TypesKubernetes ==
  ASSUME Types, NEW k \in Keys,
         (\E s \in Specs[k] : Apply(k, s)) \/ Remove(k) \/ ListerSync(k)
  PROVE  Types'
<1> USE DEF Types, apiVars, podVars, cacheVars, streamVars
<1>a. ASSUME lastVersion' = lastVersion + 1, changes < MaxChanges, changes' = changes + 1
      PROVE  /\ lastVersion' \in Nat /\ lastVersion <= lastVersion'
             /\ changes' \in 0..MaxChanges
  BY <1>a, BoundsAssumption
<1>b. ASSUME lastVersion' \in Nat, lastVersion <= lastVersion'
      PROVE  /\ podVersion \in [Pods -> 0..lastVersion']
             /\ MapOf(pluginsCache, CachedUpTo(lastVersion'))
             /\ MapOf(objects, ObjectsUpTo(lastVersion'))
  BY <1>b, VersionsGrow
<1>1. ASSUME NEW s \in Specs[k], Apply(k, s) PROVE Types'
  <2>1. /\ lastVersion' \in Nat /\ lastVersion <= lastVersion'
        /\ changes' \in 0..MaxChanges
    BY <1>1, <1>a DEF Apply
  <2> DEFINE o == [version |-> lastVersion', spec |-> s, synced |-> FALSE, deleting |-> FALSE]
  <2>2. o \in ObjectsUpTo(lastVersion')
    <3>1. s \in ObjectSpec /\ lastVersion' \in 0..lastVersion'
      BY <2>1, SpecsAssumption
    <3> QED
      BY <3>1, Zenon DEF ObjectsUpTo
  <2>3. objects' = With(objects, k, o)
    BY <1>1 DEF Apply
  <2> HIDE DEF o
  <2>4. MapOf(objects', ObjectsUpTo(lastVersion'))
    BY <1>b, <2>1, <2>2, <2>3, WithMap
  <2>5. anomalies' \subseteq Anomalies
    BY <1>1, AnomalyNames DEF Apply
  <2> QED
    BY <1>1, <1>b, <2>1, <2>4, <2>5 DEF Apply
<1>2. CASE Remove(k)
  <2>1. /\ lastVersion' \in Nat /\ lastVersion <= lastVersion'
        /\ changes' \in 0..MaxChanges
    BY <1>2, <1>a DEF Remove
  <2>2. MapOf(objects', ObjectsUpTo(lastVersion'))
    <3>1. CASE objects' = Without(objects, k)
      BY <1>b, <2>1, <3>1, WithoutMap
    <3>2. CASE objects' = [objects EXCEPT ![k].deleting = TRUE, ![k].version = lastVersion']
      BY <1>2, <2>1, <3>2, MarkedObject DEF Remove
    <3> QED
      BY <1>2, <3>1, <3>2 DEF Remove
  <2>3. anomalies' \subseteq Anomalies
    BY <1>2, AnomalyNames DEF Remove
  <2> QED
    BY <1>2, <1>b, <2>1, <2>2, <2>3 DEF Remove
<1>3. CASE ListerSync(k)
  <2>1. MapOf(listed', Selectors)
    BY <1>3, ObjectFields, WithMap, WithoutMap DEF ListerSync
  <2> QED
    BY <1>3, <2>1 DEF ListerSync
<1> QED
  BY <1>1, <1>2, <1>3

\* Pods and their streams keep the types.
LEMMA TypesPods ==
  ASSUME Types, NEW p \in Pods,
         AddPod(p) \/ (\E l \in Labels : UpdatePod(p, l)) \/ StreamStep(p)
  PROVE  Types'
<1> USE DEF Types, apiVars, podVars, cacheVars, streamVars
<1>1. CASE AddPod(p)
  BY <1>1 DEF AddPod, SendPluginsConfigs
<1>2. ASSUME NEW l \in Labels, UpdatePod(p, l) PROVE Types'
  <2>1. /\ lastVersion' \in Nat /\ lastVersion <= lastVersion' /\ lastVersion' \in 0..lastVersion'
        /\ changes' \in 0..MaxChanges
    BY <1>2, BoundsAssumption DEF UpdatePod
  <2>2. /\ podVersion \in [Pods -> 0..lastVersion']
        /\ MapOf(pluginsCache, CachedUpTo(lastVersion'))
        /\ MapOf(objects, ObjectsUpTo(lastVersion'))
    BY <2>1, VersionsGrow
  <2>3. podVersion' \in [Pods -> 0..lastVersion'] /\ podLabel' \in [Pods -> Labels]
    BY <1>2, <2>1, <2>2 DEF UpdatePod
  <2>4. toNotify' \subseteq streams
    BY <1>2 DEF UpdatePod, SendPluginsConfigs
  <2>5. anomalies' \subseteq Anomalies
    BY <1>2, AnomalyNames DEF UpdatePod
  <2> QED
    BY <1>2, <2>1, <2>2, <2>3, <2>4, <2>5 DEF UpdatePod
<1>3. CASE StreamStep(p)
  <2>0. /\ UNCHANGED <<apiVars, queue, listed, pluginsCache>>
        /\ \/ UNCHANGED <<selectorCache, misfilled>>
           \/ \E k \in Keys : FillSelector(p, k)
    BY <1>3, StreamFrame
  <2>a. ASSUME MapOf(selectorCache', SUBSET Labels), misfilled' \subseteq Keys,
               streams' \subseteq streams, toNotify' \subseteq streams',
               DOMAIN query' \subseteq streams', \A q \in DOMAIN query' : QueryOK(query'[q]),
               DOMAIN view' = Pods, \A q \in Pods : MapOf(view'[q], Plugins),
               anomalies' \subseteq Anomalies
        PROVE  Types'
    BY <2>0, <2>a DEF QueryOK
  <2>1. CASE StartQuery(p)
    <3> DEFINE none == {k \in DOMAIN listed : listed[k] = NoSelector}
               q == [label |-> podLabel[p], matched |-> none, missed |-> {},
                     todo |-> [k \in DOMAIN listed \ none |-> listed[k]]]
    <3>1. MapOf([k \in DOMAIN listed \ none |-> listed[k]], Asked)
      BY DEF MapOf, Selectors, Asked
    <3>2. QueryOK(q)
      BY <3>1 DEF QueryOK, MapOf
    <3>3. query' = With(query, p, q) /\ p \in streams
      BY <2>1 DEF StartQuery
    <3> HIDE DEF q, none
    <3>4. DOMAIN query' \subseteq streams /\ \A x \in DOMAIN query' : QueryOK(query'[x])
      BY <3>2, <3>3 DEF With
    <3> QED
      BY <2>1, <2>a, <3>4 DEF StartQuery
  <2>b. ASSUME EndStream(p) PROVE /\ streams' = streams \ {p} /\ toNotify' \subseteq streams'
                                  /\ DOMAIN query' \subseteq streams'
                                  /\ \A x \in DOMAIN query' : QueryOK(query'[x])
                                  /\ UNCHANGED <<selectorCache, misfilled, view>>
    BY <2>b DEF EndStream, Without
  <2>2. CASE PodNotFound(p)
    BY <2>2, <2>a, <2>b DEF PodNotFound, Anomalies
  <2>3. ASSUME NEW k \in Keys, FillFails(p, k) PROVE Types'
    BY <2>3, <2>a, <2>b DEF FillFails
  <2>c. ASSUME NEW q, QueryOK(q), query' = [query EXCEPT ![p] = q]
        PROVE  DOMAIN query' \subseteq streams /\ \A x \in DOMAIN query' : QueryOK(query'[x])
    BY <2>c
  <2>4. ASSUME NEW k \in Keys, LookUp(p, k) PROVE Types'
    <3>1. p \in DOMAIN query /\ k \in DOMAIN query[p].todo /\ QueryOK(query[p])
      BY <2>4 DEF LookUp
    <3>2. QueryOK(Looked(query[p], k, selectorCache[k]))
      BY <3>1, LookedType
    <3>3. QueryOK([query[p] EXCEPT !.missed = {k}])
      BY <3>1 DEF QueryOK
    <3>4. DOMAIN query' \subseteq streams /\ \A x \in DOMAIN query' : QueryOK(query'[x])
      BY <2>4, <2>c, <3>2, <3>3 DEF LookUp
    <3> QED
      BY <2>4, <2>a, <3>4 DEF LookUp
  <2>5. ASSUME NEW k \in Keys, FillSelector(p, k) PROVE Types'
    <3> DEFINE labels == SelectorOf(query[p].todo[k])
    <3>1. /\ p \in DOMAIN query /\ QueryOK(query[p]) /\ k \in DOMAIN query[p].todo
          /\ query[p].todo[k] # BadSelector
      BY <2>5 DEF FillSelector, QueryOK
    <3>2. labels \in SUBSET Labels
      BY <3>1, SelectorOfType DEF QueryOK, MapOf, Asked, Selectors
    <3>3. /\ selectorCache' = With(selectorCache, k, labels)
          /\ query' = [query EXCEPT ![p] = Looked(query[p], k, labels)]
          /\ misfilled' \subseteq Keys
      BY <2>5 DEF FillSelector
    <3> HIDE DEF labels
    <3>4. MapOf(selectorCache', SUBSET Labels)
      BY <3>2, <3>3, WithMap
    <3>5. QueryOK(Looked(query[p], k, labels))
      BY <3>1, LookedType
    <3>6. DOMAIN query' \subseteq streams /\ \A x \in DOMAIN query' : QueryOK(query'[x])
      BY <2>c, <3>3, <3>5
    <3> QED
      BY <2>5, <2>a, <3>3, <3>4, <3>6 DEF FillSelector
  <2>6. CASE Send(p)
    <3>1. DOMAIN view' = Pods /\ \A q \in Pods : MapOf(view'[q], Plugins)
      BY <2>6, ConfigsType DEF Send
    <3>2. DOMAIN query' \subseteq streams /\ \A x \in DOMAIN query' : QueryOK(query'[x])
      BY <2>6 DEF Send, Without
    <3> QED
      BY <2>6, <2>a, <3>1, <3>2 DEF Send
  <2> QED
    BY <1>3, <2>1, <2>2, <2>3, <2>4, <2>5, <2>6 DEF StreamStep
<1> QED
  BY <1>1, <1>2, <1>3

\* Every step keeps the types.
LEMMA TypesNext == Types /\ [Next]_vars => Types'
<1>1. ASSUME Types, UNCHANGED vars PROVE Types'
  BY <1>1 DEF Types, vars, apiVars, podVars, cacheVars, streamVars
<1> QED
  BY <1>1, TypesKubernetes, TypesReconcile, TypesPods DEF Next, StreamStep

\* Types: objects, caches and what was sent are maps over the keys; no cached
\* or known version is above the last one given, whatever fails or lags; a
\* selector that cannot be converted never gets into the selector cache; and a
\* pod that is to be sent something has a stream.
THEOREM TypeCorrect == Spec => []TypeOK
BY TypesInit, TypesNext, TypesAreTypeOK, PTL DEF Spec

-----------------------------------------------------------------------------
(***************************************************************************)
(* Status writes                                                           *)
(***************************************************************************)

\* The objects whose condition was not written since their last change.
Unsynced == {k \in DOMAIN objects : ~objects[k].synced}

\* An object is unsynced by a change, and a status write makes it synced.
StatusInv == IsFiniteSet(Unsynced) /\ Cardinality(Unsynced) + statusWrites <= changes

\* No object, no write.
LEMMA StatusInit == Init => StatusInv
<1> SUFFICES ASSUME Init PROVE StatusInv
  OBVIOUS
<1>1. Unsynced = {}
  BY DEF Init, Unsynced
<1> QED
  BY <1>1, FS_EmptySet DEF Init, StatusInv

\* A change adds one unsynced object at most.
LEMMA ChangeStatus ==
  ASSUME Types, StatusInv, NEW k, Unsynced' \subseteq Unsynced \cup {k},
         changes' = changes + 1, statusWrites' = statusWrites
  PROVE  StatusInv'
<1>1. /\ IsFiniteSet(Unsynced \cup {k})
      /\ Cardinality(Unsynced) \in Nat
      /\ Cardinality(Unsynced \cup {k}) <= Cardinality(Unsynced) + 1
  <2>1. Cardinality(Unsynced) \in Nat /\ IsFiniteSet(Unsynced)
    BY FS_CardinalityType DEF StatusInv
  <2>2. /\ IsFiniteSet(Unsynced \cup {k})
        /\ Cardinality(Unsynced \cup {k}) =
             IF k \in Unsynced THEN Cardinality(Unsynced) ELSE Cardinality(Unsynced) + 1
    BY <2>1, FS_AddElement
  <2> QED
    BY <2>1, <2>2
<1>2. /\ IsFiniteSet(Unsynced') /\ Cardinality(Unsynced') \in Nat
      /\ Cardinality(Unsynced \cup {k}) \in Nat
      /\ Cardinality(Unsynced') <= Cardinality(Unsynced \cup {k})
  BY <1>1, FS_Subset, FS_CardinalityType
<1>3. statusWrites \in Nat /\ changes \in Nat
  BY BoundsAssumption DEF Types
<1> QED
  BY <1>1, <1>2, <1>3 DEF StatusInv

\* A status write takes one unsynced object away.
LEMMA WriteStatus ==
  ASSUME Types, StatusInv, NEW k \in Unsynced, Unsynced' = Unsynced \ {k},
         changes' = changes, statusWrites' = statusWrites + 1
  PROVE  StatusInv'
<1>1. IsFiniteSet(Unsynced) /\ Cardinality(Unsynced) \in Nat
  BY FS_CardinalityType DEF StatusInv
<1>2. /\ IsFiniteSet(Unsynced \ {k})
      /\ Cardinality(Unsynced \ {k}) = Cardinality(Unsynced) - 1
  BY <1>1, FS_RemoveElement
<1>3. statusWrites \in Nat /\ changes \in Nat
  BY BoundsAssumption DEF Types
<1> QED
  BY <1>1, <1>2, <1>3 DEF StatusInv

\* Every step keeps the balance of changes and status writes.
LEMMA StatusNext == Types /\ StatusInv /\ [Next]_vars => StatusInv'
<1> SUFFICES ASSUME Types, StatusInv, [Next]_vars PROVE StatusInv'
  OBVIOUS
<1> USE DEF apiVars, podVars, cacheVars, streamVars
<1>a. ASSUME UNCHANGED <<objects, statusWrites>>, changes' = changes \/ changes' = changes + 1
      PROVE  StatusInv'
  <2>1. Unsynced' = Unsynced
    BY <1>a DEF Unsynced
  <2>2. statusWrites \in Nat /\ changes \in Nat /\ Cardinality(Unsynced) \in Nat
    BY BoundsAssumption, FS_CardinalityType DEF Types, StatusInv
  <2> QED
    BY <1>a, <2>1, <2>2 DEF StatusInv
<1>1. ASSUME NEW k \in Keys, NEW s \in Specs[k], Apply(k, s) PROVE StatusInv'
  <2>1. Unsynced' \subseteq Unsynced \cup {k}
    BY <1>1 DEF Apply, With, Unsynced
  <2> QED
    BY <1>1, <2>1, ChangeStatus DEF Apply
<1>2. ASSUME NEW k \in Keys, Remove(k) PROVE StatusInv'
  <2>1. CASE objects' = Without(objects, k)
    <3>1. Unsynced' \subseteq Unsynced \cup {k}
      BY <2>1 DEF Without, Unsynced
    <3> QED
      BY <1>2, <3>1, ChangeStatus DEF Remove
  <2>2. CASE objects' = [objects EXCEPT ![k].deleting = TRUE, ![k].version = lastVersion']
    <3>1. DOMAIN objects' = DOMAIN objects /\ \A x \in DOMAIN objects \ {k} : objects'[x] = objects[x]
      BY <2>2
    <3>2. Unsynced' \subseteq Unsynced \cup {k}
      BY <3>1 DEF Unsynced
    <3> QED
      BY <1>2, <3>2, ChangeStatus DEF Remove
  <2> QED
    BY <1>2, <2>1, <2>2 DEF Remove
<1>3. ASSUME NEW k \in Keys, ReconcileChanged(k) PROVE StatusInv'
  <2>0. k \in DOMAIN objects /\ changes' = changes /\ RecordStatus(k)
    BY <1>3 DEF ReconcileChanged
  <2>1. CASE UNCHANGED <<objects, lastVersion, statusWrites>>
    BY <1>a, <2>0, <2>1
  <2>2. CASE /\ ~objects[k].synced
             /\ objects' = [objects EXCEPT ![k].version = lastVersion + 1, ![k].synced = TRUE]
             /\ statusWrites' = statusWrites + 1
    <3>1. /\ DOMAIN objects' = DOMAIN objects
          /\ \A x \in DOMAIN objects \ {k} : objects'[x] = objects[x]
          /\ objects'[k] = [objects[k] EXCEPT !.version = lastVersion + 1, !.synced = TRUE]
      BY <2>0, <2>2
    <3>2. objects[k] \in ObjectsUpTo(lastVersion)
      BY <2>0 DEF Types, MapOf
    <3>3. objects'[k].synced = TRUE
      BY <3>1, <3>2 DEF ObjectsUpTo
    <3>4. Unsynced' = Unsynced \ {k} /\ k \in Unsynced
      BY <2>0, <2>2, <3>1, <3>3 DEF Unsynced
    <3> QED
      BY <2>0, <2>2, <3>4, WriteStatus
  <2> QED
    BY <2>0, <2>1, <2>2 DEF RecordStatus
<1>4. ASSUME NEW k \in Keys,
             ListerSync(k) \/ ReconcileDeleted(k) \/ ReconcileSkipped(k) \/ ReconcileInvalid(k)
      PROVE  StatusInv'
  BY <1>4, <1>a DEF ListerSync, ReconcileDeleted, ReconcileSkipped, ReconcileInvalid
<1>5. ASSUME NEW p \in Pods, AddPod(p) \/ StreamStep(p) PROVE StatusInv'
  BY <1>5, <1>a, StreamFrame DEF AddPod
<1>6. ASSUME NEW p \in Pods, NEW l \in Labels, UpdatePod(p, l) PROVE StatusInv'
  BY <1>6, <1>a DEF UpdatePod
<1>7. CASE UNCHANGED vars
  BY <1>7, <1>a DEF vars
<1> QED
  BY <1>1, <1>2, <1>3, <1>4, <1>5, <1>6, <1>7 DEF Next, Reconcile, StreamStep

\* There are no more status writes than changes.
LEMMA StatusSettles == Types /\ StatusInv => StatusWritesSettle
<1> SUFFICES ASSUME Types, StatusInv PROVE statusWrites <= changes
  BY DEF StatusWritesSettle
<1>1. statusWrites \in Nat /\ changes \in Nat /\ Cardinality(Unsynced) \in Nat
  BY BoundsAssumption, FS_CardinalityType DEF Types, StatusInv
<1> QED
  BY <1>1 DEF StatusInv

\* The reconciler does not feed itself: the events its own status writes cause
\* lead to no further one, so there are at most as many as changes, for any
\* number of objects and any failures of the writes.
THEOREM WritesSettle == Spec => []StatusWritesSettle
<1>1. Init => Types /\ StatusInv
  BY TypesInit, StatusInit
<1>2. Types /\ StatusInv /\ [Next]_vars => (Types /\ StatusInv)'
  BY TypesNext, StatusNext
<1>3. Types /\ StatusInv => StatusWritesSettle
  BY StatusSettles
<1> QED
  BY <1>1, <1>2, <1>3, PTL DEF Spec

-----------------------------------------------------------------------------
(***************************************************************************)
(* Versions compared as strings                                            *)
(***************************************************************************)

\* Strings of one length are compared as the numbers are.
LEMMA StringOrder ==
  ASSUME NEW n \in 0..99, NEW m \in 0..99, n < 10 <=> m < 10
  PROVE  StringLess(Digits(n), Digits(m)) <=> n < m
<1>1. CASE n < 10 /\ m < 10
  <2>1. Digits(n) = <<n>> /\ Digits(m) = <<m>>
    BY <1>1 DEF Digits
  <2>2. Len(<<n>>) = 1 /\ Len(<<m>>) = 1 /\ <<n>>[1] = n /\ <<m>>[1] = m
    OBVIOUS
  <2> HIDE <1>1
  <2>3. LessAt(<<n>>, <<m>>, 1) <=> n < m
    BY <2>2 DEF LessAt
  <2> QED
    BY <2>1, <2>2, <2>3 DEF StringLess
<1>2. CASE n >= 10 /\ m >= 10
  <2> DEFINE v == <<n \div 10, n % 10>>
             w == <<m \div 10, m % 10>>
  <2>1. Digits(n) = v /\ Digits(m) = w
    BY <1>2 DEF Digits
  <2>2. /\ Len(v) = 2 /\ Len(w) = 2
        /\ v[1] = n \div 10 /\ v[2] = n % 10
        /\ w[1] = m \div 10 /\ w[2] = m % 10
    OBVIOUS
  <2>3. /\ n \div 10 \in Nat /\ m \div 10 \in Nat /\ n % 10 \in 0..9 /\ m % 10 \in 0..9
        /\ n = 10 * (n \div 10) + (n % 10)
        /\ m = 10 * (m \div 10) + (m % 10)
    OBVIOUS
  <2> HIDE DEF v, w
  <2>4. LessAt(v, w, 2) <=> v[1] < w[1] \/ (v[2] < w[2] /\ v[1] = w[1])
    <3>1. 1..2 = {1, 2} /\ 1..(1 - 1) = {} /\ 1..(2 - 1) = {1}
      OBVIOUS
    <3> QED
      BY <3>1 DEF LessAt
  <2>5. StringLess(v, w) <=> LessAt(v, w, 2)
    BY <2>2 DEF StringLess
  <2>6. (v[1] < w[1] \/ (v[2] < w[2] /\ v[1] = w[1])) <=> n < m
    BY <2>2, <2>3
  <2> QED
    BY <2>1, <2>4, <2>5, <2>6
<1> QED
  BY <1>1, <1>2

\* The step to the first version of two digits is the anomaly.
LEMMA FirstOfTwoDigits == ~StringLess(Digits(9), Digits(10))
<1>1. Digits(9) = <<9>> /\ Digits(10) = <<1, 0>>
  BY DEF Digits
<1>2. /\ Len(<<9>>) = 1 /\ Len(<<1, 0>>) = 2
      /\ <<9>>[1] = 9 /\ <<1, 0>>[1] = 1
  OBVIOUS
<1>3. 1..1 = {1}
  OBVIOUS
<1>4. ~LessAt(<<9>>, <<1, 0>>, 1)
  BY <1>2, <1>3 DEF LessAt
<1>5. ~ \A i \in 1..1 : <<9>>[i] = <<1, 0>>[i]
  BY <1>2, <1>3
<1>6. ~StringLess(<<9>>, <<1, 0>>)
  BY <1>2, <1>4, <1>5 DEF StringLess
<1> QED
  BY <1>1, <1>6

\* The versions given are accounted for: one for each change and each write.
BoundInv == \E v \in FirstVersions : lastVersion = v + changes + statusWrites

\* All versions there are have two digits.
TwoDigits ==
  /\ \A k \in DOMAIN objects : objects[k].version >= 10
  /\ \A k \in DOMAIN pluginsCache : pluginsCache[k].version >= 10
  /\ \A p \in Pods : podVersion[p] >= 10

\* Without the anomaly, all versions are of one length.
VersionInv == "version" \notin anomalies => lastVersion < 10 \/ TwoDigits

\* Within the bounds a version has two digits at most.
LEMMA VersionBound ==
  ASSUME Types, StatusInv, BoundInv
  PROVE  lastVersion \in 0..99 /\ (changes < MaxChanges => lastVersion + 1 \in 0..99)
<1>1. PICK v \in FirstVersions : lastVersion = v + changes + statusWrites
  BY DEF BoundInv
<1>2. v \in Nat /\ MaxChanges \in Nat /\ v + 2 * MaxChanges < 100
  BY BoundsAssumption
<1>3. changes \in Nat /\ changes <= MaxChanges /\ statusWrites \in Nat /\ statusWrites <= changes
  BY <1>2, StatusSettles DEF Types, StatusWritesSettle
<1> QED
  BY <1>1, <1>2, <1>3

\* Every step gives as many versions as it makes changes and status writes.
LEMMA BoundNext == Types /\ BoundInv /\ [Next]_vars => BoundInv'
<1> SUFFICES ASSUME Types, BoundInv, [Next]_vars PROVE BoundInv'
  OBVIOUS
<1> USE DEF apiVars, podVars, cacheVars, streamVars
<1>1. PICK v \in FirstVersions : lastVersion = v + changes + statusWrites
  BY DEF BoundInv
<1>2. v \in Nat /\ changes \in Nat /\ statusWrites \in Nat /\ lastVersion \in Nat
  BY BoundsAssumption DEF Types
<1>3. \/ UNCHANGED <<lastVersion, changes, statusWrites>>
      \/ lastVersion' = lastVersion + 1 /\ changes' = changes + 1 /\ statusWrites' = statusWrites
      \/ lastVersion' = lastVersion + 1 /\ changes' = changes /\ statusWrites' = statusWrites + 1
  BY StreamFrame, ZenonT(60)
     DEF Next, Apply, Remove, ListerSync, Reconcile, ReconcileDeleted, ReconcileSkipped,
         ReconcileInvalid, ReconcileChanged, RecordStatus, AddPod, UpdatePod, StreamStep, vars
<1>4. lastVersion' = v + changes' + statusWrites'
  BY <1>1, <1>2, <1>3
<1> QED
  BY <1>4 DEF BoundInv

\* What marking an object for deletion and what writing its status change.
LEMMA MarkedFields ==
  ASSUME Types, NEW k \in DOMAIN objects, NEW m,
         \/ objects' = [objects EXCEPT ![k].deleting = TRUE, ![k].version = m]
         \/ objects' = [objects EXCEPT ![k].version = m, ![k].synced = TRUE]
  PROVE  /\ DOMAIN objects' = DOMAIN objects
         /\ \A x \in DOMAIN objects \ {k} : objects'[x] = objects[x]
         /\ objects'[k].version = m
         /\ objects'[k].spec = objects[k].spec
<1>1. objects[k] \in ObjectsUpTo(lastVersion)
  BY DEF Types, MapOf
<1>2. CASE objects' = [objects EXCEPT ![k].deleting = TRUE, ![k].version = m]
  <2>1. /\ DOMAIN objects' = DOMAIN objects
        /\ \A x \in DOMAIN objects \ {k} : objects'[x] = objects[x]
        /\ objects'[k] = [objects[k] EXCEPT !.deleting = TRUE, !.version = m]
    BY <1>2
  <2>2. objects'[k].version = m /\ objects'[k].spec = objects[k].spec
    BY <1>1, <2>1 DEF ObjectsUpTo
  <2> QED
    BY <2>1, <2>2
<1>3. CASE objects' = [objects EXCEPT ![k].version = m, ![k].synced = TRUE]
  <2>1. /\ DOMAIN objects' = DOMAIN objects
        /\ \A x \in DOMAIN objects \ {k} : objects'[x] = objects[x]
        /\ objects'[k] = [objects[k] EXCEPT !.version = m, !.synced = TRUE]
    BY <1>3
  <2>2. objects'[k].version = m /\ objects'[k].spec = objects[k].spec
    BY <1>1, <2>1 DEF ObjectsUpTo
  <2> QED
    BY <2>1, <2>2
<1> QED
  BY <1>2, <1>3

\* What reconciling a changed object does to the objects and the versions.
LEMMA ChangedObjects ==
  ASSUME Types, NEW k \in Keys, ReconcileChanged(k)
  PROVE  /\ k \in DOMAIN objects
         /\ DOMAIN objects' = DOMAIN objects
         /\ \A x \in DOMAIN objects \ {k} : objects'[x] = objects[x]
         /\ objects'[k].spec = objects[k].spec
         /\ \/ objects' = objects /\ queue' = queue \ {k}
               /\ UNCHANGED <<lastVersion, statusWrites>>
            \/ objects'[k].version = lastVersion + 1 /\ queue' = queue
               /\ lastVersion' = lastVersion + 1 /\ statusWrites' = statusWrites + 1
<1>1. k \in DOMAIN objects /\ RecordStatus(k)
  BY DEF ReconcileChanged
<1>2. CASE objects' = objects /\ queue' = queue \ {k} /\ UNCHANGED <<lastVersion, statusWrites>>
  BY <1>1, <1>2
<1>3. CASE /\ objects' = [objects EXCEPT ![k].version = lastVersion + 1, ![k].synced = TRUE]
           /\ lastVersion' = lastVersion + 1
           /\ statusWrites' = statusWrites + 1
           /\ queue' = queue
  BY <1>1, <1>3, MarkedFields
<1> QED
  BY <1>1, <1>2, <1>3 DEF RecordStatus

\* Where versions come from: a step keeps them, gives one, or caches that of an
\* object.
VersionsFrom ==
  /\ \A k \in DOMAIN objects' :
       \/ objects'[k].version = lastVersion'
       \/ k \in DOMAIN objects /\ objects'[k].version = objects[k].version
  /\ \A k \in DOMAIN pluginsCache' :
       \/ k \in DOMAIN pluginsCache /\ pluginsCache'[k] = pluginsCache[k]
       \/ k \in DOMAIN objects /\ pluginsCache'[k].version = objects[k].version
  /\ \A p \in Pods : podVersion'[p] \in {podVersion[p], lastVersion'}
  /\ anomalies \subseteq anomalies'
  /\ \/ lastVersion' = lastVersion
     \/ lastVersion' = lastVersion + 1 /\ VersionAnomaly \subseteq anomalies'

\* So does every step.
LEMMA StepVersions == Types /\ [Next]_vars => VersionsFrom
<1> SUFFICES ASSUME Types, [Next]_vars PROVE VersionsFrom
  OBVIOUS
<1> USE DEF apiVars, podVars, cacheVars, streamVars, VersionsFrom
<1>1. ASSUME NEW k \in Keys, NEW s \in Specs[k], Apply(k, s) PROVE VersionsFrom
  <2>1. \A x \in DOMAIN objects' :
          \/ objects'[x].version = lastVersion'
          \/ x \in DOMAIN objects /\ objects'[x].version = objects[x].version
    BY <1>1 DEF Apply, With
  <2> QED
    BY <1>1, <2>1 DEF Apply
<1>2. ASSUME NEW k \in Keys, Remove(k) PROVE VersionsFrom
  <2>1. CASE objects' = Without(objects, k)
    BY <1>2, <2>1 DEF Remove, Without
  <2>2. CASE objects' = [objects EXCEPT ![k].deleting = TRUE, ![k].version = lastVersion']
    <3>1. /\ DOMAIN objects' = DOMAIN objects
          /\ \A x \in DOMAIN objects \ {k} : objects'[x] = objects[x]
          /\ objects'[k].version = lastVersion'
      BY <1>2, <2>2, MarkedFields DEF Remove
    <3> QED
      BY <1>2, <3>1 DEF Remove
  <2> QED
    BY <1>2, <2>1, <2>2 DEF Remove
<1>3. ASSUME NEW k \in Keys, ReconcileChanged(k), Reconcile(k) PROVE VersionsFrom
  <2>1. \A x \in DOMAIN objects' :
          \/ objects'[x].version = lastVersion'
          \/ x \in DOMAIN objects /\ objects'[x].version = objects[x].version
    BY <1>3, ChangedObjects
  <2>2. pluginsCache' = With(pluginsCache, k, [version |-> objects[k].version,
                                               plugins |-> objects[k].spec.plugins])
    BY <1>3 DEF ReconcileChanged
  <2>3. \A x \in DOMAIN pluginsCache' :
          \/ x \in DOMAIN pluginsCache /\ pluginsCache'[x] = pluginsCache[x]
          \/ x \in DOMAIN objects /\ pluginsCache'[x].version = objects[x].version
    BY <1>3, <2>2, ChangedObjects DEF With
  <2>4. \/ lastVersion' = lastVersion
        \/ lastVersion' = lastVersion + 1 /\ VersionAnomaly \subseteq anomalies'
    <3>1. statusWrites' = statusWrites + 1 => statusWrites' # statusWrites
      BY DEF Types
    <3> QED
      BY <1>3, <3>1, ChangedObjects DEF Reconcile
  <2>5. podVersion' = podVersion /\ anomalies \subseteq anomalies'
    BY <1>3 DEF ReconcileChanged, Reconcile
  <2> QED
    BY <2>1, <2>3, <2>4, <2>5
<1>4. ASSUME NEW k \in Keys, Reconcile(k),
             ReconcileDeleted(k) \/ ReconcileSkipped(k) \/ ReconcileInvalid(k)
      PROVE  VersionsFrom
  BY <1>4 DEF Reconcile, ReconcileDeleted, ReconcileSkipped, ReconcileInvalid, Without
<1>5. ASSUME NEW k \in Keys, ListerSync(k) PROVE VersionsFrom
  BY <1>5 DEF ListerSync
<1>6. ASSUME NEW p \in Pods, AddPod(p) \/ StreamStep(p) PROVE VersionsFrom
  BY <1>6, StreamFrame DEF AddPod
<1>7. ASSUME NEW p \in Pods, NEW l \in Labels, UpdatePod(p, l) PROVE VersionsFrom
  BY <1>7 DEF UpdatePod, Types
<1>8. CASE UNCHANGED vars
  BY <1>8 DEF vars
<1> QED
  BY <1>1, <1>2, <1>3, <1>4, <1>5, <1>6, <1>7, <1>8 DEF Next, Reconcile, StreamStep

\* Every step keeps the versions of one length, or is the anomaly.
LEMMA VersionNext == Types /\ VersionInv /\ [Next]_vars => VersionInv'
<1> SUFFICES ASSUME Types, VersionInv, [Next]_vars, "version" \notin anomalies'
             PROVE  lastVersion' < 10 \/ TwoDigits'
  BY DEF VersionInv
<1>0. VersionsFrom
  BY StepVersions
<1>1. lastVersion \in Nat /\ (lastVersion < 10 \/ TwoDigits)
  BY <1>0 DEF VersionsFrom, VersionInv, Types
<1>2. lastVersion' = lastVersion \/ (lastVersion' = lastVersion + 1 /\ lastVersion # 9)
  BY <1>0, FirstOfTwoDigits DEF VersionsFrom, VersionAnomaly
<1>3. CASE lastVersion < 10
  BY <1>1, <1>2, <1>3
<1>4. CASE lastVersion >= 10
  <2>1. lastVersion' >= 10 /\ TwoDigits
    BY <1>1, <1>2, <1>4
  <2> QED
    BY <1>0, <2>1 DEF VersionsFrom, TwoDigits
<1> QED
  BY <1>1, <1>3, <1>4

\* Before the first object.
LEMMA VersionInit == Init => BoundInv /\ VersionInv
<1> SUFFICES ASSUME Init PROVE BoundInv /\ VersionInv
  OBVIOUS
<1>1. lastVersion \in FirstVersions /\ lastVersion \in Nat
  BY BoundsAssumption DEF Init
<1>2. BoundInv
  BY <1>1 DEF Init, BoundInv
<1>3. lastVersion >= 10 => TwoDigits
  BY <1>1 DEF Init, TwoDigits
<1> QED
  BY <1>1, <1>2, <1>3 DEF VersionInv

\* Without the anomaly Stale compares the versions as numbers.
LEMMA StaleIsOlder ==
  ASSUME Types, StatusInv, BoundInv, VersionInv, "version" \notin anomalies,
         NEW k \in DOMAIN objects
  PROVE  Stale(k) <=> /\ k \in DOMAIN pluginsCache
                      /\ objects[k].version <= pluginsCache[k].version
<1> SUFFICES ASSUME k \in DOMAIN pluginsCache
             PROVE  StringLess(Digits(pluginsCache[k].version), Digits(objects[k].version))
                      <=> ~(objects[k].version <= pluginsCache[k].version)
  BY DEF Stale
<1>1. lastVersion \in 0..99
  BY VersionBound
<1>2. objects[k].version \in 0..lastVersion /\ pluginsCache[k].version \in 0..lastVersion
  BY <1>1, ObjectFields DEF Types, MapOf, CachedUpTo
<1>3. objects[k].version \in 0..99 /\ pluginsCache[k].version \in 0..99
  BY <1>1, <1>2
<1>4. objects[k].version < 10 <=> pluginsCache[k].version < 10
  <2>1. CASE lastVersion < 10
    BY <1>1, <1>2, <2>1
  <2>2. CASE TwoDigits
    <3>1. objects[k].version >= 10 /\ pluginsCache[k].version >= 10
      BY <2>2 DEF TwoDigits
    <3> QED
      BY <1>3, <3>1
  <2> QED
    BY <2>1, <2>2 DEF VersionInv
<1>5. StringLess(Digits(pluginsCache[k].version), Digits(objects[k].version))
        <=> pluginsCache[k].version < objects[k].version
  BY <1>3, <1>4, StringOrder
<1>6. \A v, w \in 0..99 : v < w <=> ~(w <= v)
  OBVIOUS
<1> QED
  BY <1>3, <1>5, <1>6, Zenon

-----------------------------------------------------------------------------
(***************************************************************************)
(* The caches follow the objects                                           *)
(***************************************************************************)

\* What is cached of an object has its selector cached with it, is not newer
\* than the object, and if of the same version right, the selector unless a
\* stream has put another one back.
CacheInv ==
  /\ DOMAIN pluginsCache \subseteq DOMAIN selectorCache
  /\ \A k \in DOMAIN pluginsCache \cap DOMAIN objects :
       /\ pluginsCache[k].version <= objects[k].version
       /\ pluginsCache[k].version = objects[k].version =>
            /\ pluginsCache[k].plugins = objects[k].spec.plugins
            /\ k \notin misfilled => selectorCache[k] = SelectorOf(objects[k].spec.selector)

\* What is not queued is worked off: a valid object is cached in its version,
\* and of one that is gone nothing is cached, but what a stream has put back.
QueueInv ==
  "version" \notin anomalies =>
    \A k \in Keys \ queue :
      /\ k \in Valid => /\ k \in DOMAIN pluginsCache
                        /\ pluginsCache[k].version = objects[k].version
      /\ k \in DOMAIN pluginsCache => k \in DOMAIN objects
      /\ k \in DOMAIN selectorCache => k \in DOMAIN objects \cup misfilled

\* Before the first object.
LEMMA CachesInit == Init => CacheInv /\ QueueInv
BY DEF Init, CacheInv, QueueInv, Valid, Current

\* What a fill does to the selector cache.
LEMMA FilledCache ==
  ASSUME NEW p, NEW k, FillSelector(p, k)
  PROVE  /\ DOMAIN selectorCache' = DOMAIN selectorCache \cup {k}
         /\ selectorCache'[k] = SelectorOf(query[p].todo[k])
         /\ \A x \in DOMAIN selectorCache \ {k} : selectorCache'[x] = selectorCache[x]
         /\ \A x : x # k => (x \in misfilled' <=> x \in misfilled)
         /\ k \in misfilled' \/ ( /\ k \in DOMAIN objects
                                 /\ objects[k].spec.selector = query[p].todo[k])
         /\ UNCHANGED <<apiVars, queue, listed, pluginsCache>>
BY DEF FillSelector, With

\* What reconciling a changed object does to the caches.
LEMMA ChangedCaches ==
  ASSUME NEW k \in Keys, ReconcileChanged(k)
  PROVE  /\ DOMAIN pluginsCache' = DOMAIN pluginsCache \cup {k}
         /\ DOMAIN selectorCache' = DOMAIN selectorCache \cup {k}
         /\ pluginsCache'[k].version = objects[k].version
         /\ pluginsCache'[k].plugins = objects[k].spec.plugins
         /\ selectorCache'[k] = SelectorOf(objects[k].spec.selector)
         /\ \A x \in DOMAIN pluginsCache \ {k} : pluginsCache'[x] = pluginsCache[x]
         /\ \A x \in DOMAIN selectorCache \ {k} : selectorCache'[x] = selectorCache[x]
         /\ misfilled' = misfilled \ {k}
<1>0. misfilled' = misfilled \ {k}
  BY DEF ReconcileChanged
<1>1. selectorCache' = With(selectorCache, k, SelectorOf(objects[k].spec.selector))
  BY DEF ReconcileChanged
<1>2. pluginsCache' = With(pluginsCache, k, [version |-> objects[k].version,
                                             plugins |-> objects[k].spec.plugins])
  BY DEF ReconcileChanged
<1> QED
  BY <1>0, <1>1, <1>2 DEF With

\* What reconciling a deleted object does to the caches.
LEMMA DeletedCaches ==
  ASSUME NEW k \in Keys, ReconcileDeleted(k)
  PROVE  /\ k \notin DOMAIN objects
         /\ DOMAIN pluginsCache' = DOMAIN pluginsCache \ {k}
         /\ DOMAIN selectorCache' = DOMAIN selectorCache \ {k}
         /\ \A x \in DOMAIN pluginsCache' : pluginsCache'[x] = pluginsCache[x]
         /\ \A x \in DOMAIN selectorCache' : selectorCache'[x] = selectorCache[x]
         /\ misfilled' = misfilled \ {k}
BY DEF ReconcileDeleted, Without

\* Versions are numbers up to the last one.
LEMMA VersionNumbers ==
  ASSUME Types
  PROVE  /\ lastVersion \in Nat
         /\ \A k \in DOMAIN objects : objects[k].version \in 0..lastVersion
         /\ \A k \in DOMAIN pluginsCache : pluginsCache[k].version \in 0..lastVersion
<1>1. lastVersion \in Nat
  BY DEF Types
<1>2. \A k \in DOMAIN objects : objects[k].version \in 0..lastVersion
  BY <1>1, ObjectFields DEF Types
<1>3. \A k \in DOMAIN pluginsCache : pluginsCache[k].version \in 0..lastVersion
  BY DEF Types, MapOf, CachedUpTo
<1> QED
  BY <1>1, <1>2, <1>3

\* A step that gives an object the next version, and leaves the other ones and
\* the caches alone.
LEMMA NewVersion ==
  ASSUME Types, CacheInv, NEW k, UNCHANGED cacheVars,
         DOMAIN objects' \subseteq DOMAIN objects \cup {k},
         \A x \in DOMAIN objects' \ {k} : objects'[x] = objects[x],
         k \in DOMAIN objects' => objects'[k].version = lastVersion + 1
  PROVE  CacheInv'
<1>1. UNCHANGED <<pluginsCache, selectorCache, misfilled>>
  BY DEF cacheVars
<1>2. k \in DOMAIN pluginsCache \cap DOMAIN objects' =>
        pluginsCache[k].version <= objects'[k].version
          /\ pluginsCache[k].version # objects'[k].version
  BY VersionNumbers
<1>3. ASSUME NEW x \in DOMAIN pluginsCache \cap DOMAIN objects', x # k
      PROVE  x \in DOMAIN pluginsCache \cap DOMAIN objects /\ objects'[x] = objects[x]
  BY <1>3
<1> QED
  BY <1>1, <1>2, <1>3 DEF CacheInv

\* Every step keeps the caches right as far as their versions go.
LEMMA CacheNext == Types /\ CacheInv /\ [Next]_vars => CacheInv'
<1> SUFFICES ASSUME Types, CacheInv, [Next]_vars PROVE CacheInv'
  OBVIOUS
<1> USE DEF apiVars, podVars, streamVars
<1>1. ASSUME NEW k \in Keys, NEW s \in Specs[k], Apply(k, s) PROVE CacheInv'
  <2>1. /\ DOMAIN objects' \subseteq DOMAIN objects \cup {k}
        /\ \A x \in DOMAIN objects' \ {k} : objects'[x] = objects[x]
        /\ objects'[k].version = lastVersion + 1
    BY <1>1 DEF Apply, With
  <2> QED
    BY <1>1, <2>1, NewVersion DEF Apply
<1>2. ASSUME NEW k \in Keys, Remove(k) PROVE CacheInv'
  <2>1. /\ DOMAIN objects' \subseteq DOMAIN objects \cup {k}
        /\ \A x \in DOMAIN objects' \ {k} : objects'[x] = objects[x]
        /\ k \in DOMAIN objects' => objects'[k].version = lastVersion + 1
    <3>1. CASE objects' = Without(objects, k)
      BY <3>1 DEF Without
    <3>2. CASE objects' = [objects EXCEPT ![k].deleting = TRUE, ![k].version = lastVersion']
      BY <1>2, <3>2, MarkedFields DEF Remove
    <3> QED
      BY <1>2, <3>1, <3>2 DEF Remove
  <2> QED
    BY <1>2, <2>1, NewVersion DEF Remove
<1>3. ASSUME NEW k \in Keys, ReconcileDeleted(k) PROVE CacheInv'
  <2>1. objects' = objects
    BY <1>3 DEF ReconcileDeleted
  <2> QED
    BY <1>3, <2>1, DeletedCaches DEF CacheInv
<1>4. ASSUME NEW k \in Keys, ReconcileChanged(k) PROVE CacheInv'
  <2>1. DOMAIN pluginsCache' \subseteq DOMAIN selectorCache'
    BY <1>4, ChangedCaches DEF CacheInv
  <2>2. ASSUME NEW x \in DOMAIN pluginsCache' \cap DOMAIN objects', x # k
        PROVE  /\ x \in DOMAIN pluginsCache \cap DOMAIN objects
               /\ pluginsCache'[x] = pluginsCache[x] /\ objects'[x] = objects[x]
               /\ selectorCache'[x] = selectorCache[x]
               /\ x \in misfilled' <=> x \in misfilled
    <3>1. x \in DOMAIN pluginsCache \cap DOMAIN objects
      BY <1>4, <2>2, ChangedCaches, ChangedObjects
    <3>2. x \in DOMAIN selectorCache
      BY <3>1 DEF CacheInv
    <3> QED
      BY <1>4, <2>2, <3>1, <3>2, ChangedCaches, ChangedObjects
  <2>3. /\ pluginsCache'[k].version <= objects'[k].version
        /\ pluginsCache'[k].plugins = objects'[k].spec.plugins
        /\ selectorCache'[k] = SelectorOf(objects'[k].spec.selector)
    <3>1. pluginsCache'[k].version = objects[k].version /\ objects[k].version \in 0..lastVersion
      BY <1>4, ChangedCaches, ChangedObjects, VersionNumbers
    <3>2. objects'[k].version = objects[k].version \/ objects'[k].version = lastVersion + 1
      BY <1>4, ChangedObjects
    <3>3. pluginsCache'[k].version <= objects'[k].version
      BY <3>1, <3>2, VersionNumbers
    <3> QED
      BY <1>4, <3>3, ChangedCaches, ChangedObjects
  <2> QED
    BY <2>1, <2>2, <2>3 DEF CacheInv
<1>5. ASSUME NEW p \in Pods, NEW k \in Keys, FillSelector(p, k) PROVE CacheInv'
  <2>1. UNCHANGED <<objects, pluginsCache>>
    BY <1>5, FilledCache
  <2>2. k \notin misfilled' =>
          k \in DOMAIN objects /\ selectorCache'[k] = SelectorOf(objects[k].spec.selector)
    BY <1>5, FilledCache
  <2>3. ASSUME NEW x \in DOMAIN pluginsCache \cap DOMAIN objects, x # k
        PROVE  selectorCache'[x] = selectorCache[x] /\ (x \in misfilled' <=> x \in misfilled)
    <3>1. x \in DOMAIN selectorCache \ {k}
      BY <2>3 DEF CacheInv
    <3>2. /\ \A y \in DOMAIN selectorCache \ {k} : selectorCache'[y] = selectorCache[y]
          /\ \A y : y # k => (y \in misfilled' <=> y \in misfilled)
      BY <1>5, FilledCache, Zenon
    <3> QED
      BY <2>3, <3>1, <3>2, Zenon
  <2>4. DOMAIN pluginsCache \subseteq DOMAIN selectorCache'
    BY <1>5, FilledCache DEF CacheInv
  <2> QED
    BY <2>1, <2>2, <2>3, <2>4 DEF CacheInv
<1>6. ASSUME UNCHANGED <<objects, pluginsCache, selectorCache, misfilled>> PROVE CacheInv'
  BY <1>6 DEF CacheInv
<1>7. ASSUME NEW k \in Keys, ListerSync(k) \/ ReconcileSkipped(k) \/ ReconcileInvalid(k)
      PROVE  CacheInv'
  BY <1>6, <1>7 DEF ListerSync, ReconcileSkipped, ReconcileInvalid, cacheVars
<1>8. ASSUME NEW p \in Pods, AddPod(p) \/ \E l \in Labels : UpdatePod(p, l) PROVE CacheInv'
  BY <1>6, <1>8 DEF AddPod, UpdatePod, cacheVars
<1>9. ASSUME NEW p \in Pods, StreamStep(p) PROVE CacheInv'
  BY <1>5, <1>6, <1>9, StreamFrame
<1>10. CASE UNCHANGED vars
  BY <1>6, <1>10 DEF vars, cacheVars
<1> QED
  BY <1>1, <1>2, <1>3, <1>4, <1>7, <1>8, <1>9, <1>10 DEF Next, Reconcile, StreamStep

\* Every step works off what it takes from the queue.
LEMMA QueueNext ==
  ASSUME Types, StatusInv, BoundInv, VersionInv, CacheInv, QueueInv, [Next]_vars
  PROVE  QueueInv'
<1> SUFFICES ASSUME "version" \notin anomalies', NEW k \in Keys, k \notin queue'
             PROVE  /\ k \in Valid' => /\ k \in DOMAIN pluginsCache'
                                       /\ pluginsCache'[k].version = objects'[k].version
                    /\ k \in DOMAIN pluginsCache' => k \in DOMAIN objects'
                    /\ k \in DOMAIN selectorCache' => k \in DOMAIN objects' \cup misfilled'
  BY DEF QueueInv
<1> USE DEF apiVars, podVars, streamVars
<1> DEFINE Worked == /\ k \in Valid => /\ k \in DOMAIN pluginsCache
                                       /\ pluginsCache[k].version = objects[k].version
                     /\ k \in DOMAIN pluginsCache => k \in DOMAIN objects
                     /\ k \in DOMAIN selectorCache => k \in DOMAIN objects \cup misfilled
<1>0. "version" \notin anomalies /\ (k \notin queue => Worked)
  BY StepVersions DEF VersionsFrom, QueueInv
<1>a. ASSUME k \notin queue,
             k \in DOMAIN objects' <=> k \in DOMAIN objects,
             k \in DOMAIN objects => objects'[k] = objects[k],
             k \in DOMAIN pluginsCache' <=> k \in DOMAIN pluginsCache,
             k \in DOMAIN pluginsCache => pluginsCache'[k] = pluginsCache[k],
             k \in DOMAIN selectorCache' =>
               k \in DOMAIN objects \cup misfilled' \/ k \in DOMAIN selectorCache,
             k \in misfilled => k \in DOMAIN objects \cup misfilled'
      PROVE  Worked'
  <2>1. k \in Valid' <=> k \in Valid
    BY <1>a DEF Valid, Current
  <2> QED
    BY <1>0, <1>a, <2>1 DEF Valid, Current
<1>1. ASSUME NEW x \in Keys, NEW s \in Specs[x], Apply(x, s) PROVE Worked'
  <2>1. k # x /\ k \notin queue /\ UNCHANGED <<pluginsCache, selectorCache, misfilled>>
    BY <1>1 DEF Apply, cacheVars
  <2>2. /\ k \in DOMAIN objects' <=> k \in DOMAIN objects
        /\ k \in DOMAIN objects => objects'[k] = objects[k]
    BY <1>1, <2>1 DEF Apply, With
  <2> QED
    BY <1>a, <2>1, <2>2
<1>2. ASSUME NEW x \in Keys, Remove(x) PROVE Worked'
  <2>1. k # x /\ k \notin queue /\ UNCHANGED <<pluginsCache, selectorCache, misfilled>>
    BY <1>2 DEF Remove, cacheVars
  <2>2. /\ k \in DOMAIN objects' <=> k \in DOMAIN objects
        /\ k \in DOMAIN objects => objects'[k] = objects[k]
    <3>1. CASE objects' = Without(objects, x)
      BY <2>1, <3>1 DEF Without
    <3>2. CASE objects' = [objects EXCEPT ![x].deleting = TRUE, ![x].version = lastVersion']
      BY <1>2, <2>1, <3>2, MarkedFields DEF Remove
    <3> QED
      BY <1>2, <3>1, <3>2 DEF Remove
  <2> QED
    BY <1>a, <2>1, <2>2
<1>3. ASSUME NEW x \in Keys, ReconcileDeleted(x) PROVE Worked'
  <2>1. objects' = objects /\ queue' = queue \ {x}
    BY <1>3 DEF ReconcileDeleted
  <2>2. CASE k = x
    BY <1>3, <2>1, <2>2, DeletedCaches DEF Valid, Current
  <2>3. CASE k # x
    BY <1>3, <1>a, <2>1, <2>3, DeletedCaches
  <2> QED
    BY <2>2, <2>3
<1>4. ASSUME NEW x \in Keys, ReconcileSkipped(x) PROVE Worked'
  <2>1. /\ x \in DOMAIN objects /\ (objects[x].deleting \/ Stale(x))
        /\ queue' = queue \ {x} /\ UNCHANGED <<objects, pluginsCache, selectorCache, misfilled>>
    BY <1>4 DEF ReconcileSkipped, cacheVars
  <2>2. CASE k = x /\ objects[x].deleting
    BY <2>1, <2>2 DEF Valid, Current
  <2>3. CASE k = x /\ Stale(x)
    <3>1. k \in DOMAIN pluginsCache /\ objects[k].version <= pluginsCache[k].version
      BY <1>0, <2>1, <2>3, StaleIsOlder
    <3>2. pluginsCache[k].version <= objects[k].version
      BY <2>1, <2>3, <3>1 DEF CacheInv
    <3>3. pluginsCache[k].version = objects[k].version
      BY <2>1, <2>3, <3>1, <3>2, VersionNumbers
    <3> QED
      BY <2>1, <2>3, <3>1, <3>3
  <2>4. CASE k # x
    BY <1>a, <2>1, <2>4
  <2> QED
    BY <2>1, <2>2, <2>3, <2>4
<1>5. ASSUME NEW x \in Keys, x \in queue, ReconcileChanged(x) PROVE Worked'
  <2>1. CASE k = x
    <3>1. objects' = objects
      BY <1>5, <2>1, ChangedObjects
    <3> QED
      BY <1>5, <2>1, <3>1, ChangedCaches, ChangedObjects
  <2>2. CASE k # x
    <3>1. k \notin queue
      BY <1>5, <2>2, ChangedObjects
    <3> QED
      BY <1>5, <1>a, <2>2, <3>1, ChangedCaches, ChangedObjects
  <2> QED
    BY <2>1, <2>2
<1>6. ASSUME UNCHANGED <<objects, pluginsCache, queue, selectorCache, misfilled>> PROVE Worked'
  BY <1>6, <1>a
<1>7. ASSUME NEW x \in Keys, ListerSync(x) \/ ReconcileInvalid(x) PROVE Worked'
  BY <1>6, <1>7 DEF ListerSync, ReconcileInvalid, cacheVars
<1>8. ASSUME NEW p \in Pods, AddPod(p) \/ (\E l \in Labels : UpdatePod(p, l)) PROVE Worked'
  BY <1>6, <1>8 DEF AddPod, UpdatePod, cacheVars
<1>9. ASSUME NEW p \in Pods, StreamStep(p) PROVE Worked'
  <2>1. CASE UNCHANGED <<selectorCache, misfilled>>
    BY <1>6, <1>9, <2>1, StreamFrame
  <2>2. ASSUME NEW x \in Keys, FillSelector(p, x) PROVE Worked'
    <3>1. UNCHANGED <<objects, queue, pluginsCache>>
      BY <2>2, FilledCache
    <3>2. /\ DOMAIN selectorCache' = DOMAIN selectorCache \cup {x}
          /\ \A y : y # x => (y \in misfilled' <=> y \in misfilled)
          /\ x \in misfilled' \/ x \in DOMAIN objects
      BY <2>2, FilledCache, Zenon
    <3>3. /\ k \in DOMAIN selectorCache' =>
               k \in DOMAIN objects \cup misfilled' \/ k \in DOMAIN selectorCache
          /\ k \in misfilled => k \in DOMAIN objects \cup misfilled'
      BY <3>2
    <3> QED
      BY <1>a, <3>1, <3>3
  <2> QED
    BY <1>9, <2>1, <2>2, StreamFrame
<1>10. UNCHANGED vars => Worked'
  BY <1>6 DEF vars, cacheVars
<1>11. Worked'
  BY <1>1, <1>2, <1>3, <1>4, <1>5, <1>7, <1>8, <1>9, <1>10 DEF Next, Reconcile, StreamStep
<1> QED
  BY <1>11

\* All that the caches need.
CachesInv ==
  Types /\ StatusInv /\ BoundInv /\ VersionInv /\ CacheInv /\ QueueInv

\* It holds before the first object.
LEMMA CachesInvInit == Init => CachesInv
BY TypesInit, StatusInit, VersionInit, CachesInit DEF CachesInv

\* It is inductive.
LEMMA CachesInvNext == CachesInv /\ [Next]_vars => CachesInv'
BY TypesNext, StatusNext, BoundNext, VersionNext, CacheNext, QueueNext DEF CachesInv

\* It implies the property.
LEMMA CachesInvFollow == CachesInv => CachesFollowObjects
<1> SUFFICES ASSUME CachesInv, queue \subseteq Current \ Valid, "version" \notin anomalies
             PROVE  /\ DOMAIN pluginsCache \subseteq DOMAIN objects
                    /\ DOMAIN selectorCache \subseteq DOMAIN objects \cup misfilled
                    /\ \A k \in Valid :
                         /\ k \in DOMAIN pluginsCache \cap DOMAIN selectorCache
                         /\ pluginsCache[k].plugins = objects[k].spec.plugins
                         /\ k \notin misfilled =>
                              selectorCache[k] = SelectorOf(objects[k].spec.selector)
  BY DEF CachesFollowObjects
<1>1. /\ DOMAIN pluginsCache \subseteq Keys /\ DOMAIN objects \subseteq Keys
      /\ DOMAIN selectorCache \subseteq Keys
  BY DEF CachesInv, Types, MapOf
<1>2. /\ DOMAIN pluginsCache \subseteq DOMAIN objects
      /\ DOMAIN selectorCache \subseteq DOMAIN objects \cup misfilled
  BY <1>1 DEF CachesInv, QueueInv, Current
<1>3. ASSUME NEW k \in Valid
      PROVE  /\ k \in DOMAIN pluginsCache \cap DOMAIN selectorCache
             /\ pluginsCache[k].plugins = objects[k].spec.plugins
             /\ k \notin misfilled => selectorCache[k] = SelectorOf(objects[k].spec.selector)
  <2>1. k \in DOMAIN objects /\ k \in Keys \ queue
    BY <1>1 DEF Valid, Current
  <2>2. k \in DOMAIN pluginsCache /\ pluginsCache[k].version = objects[k].version
    BY <2>1 DEF CachesInv, QueueInv
  <2> QED
    BY <2>1, <2>2 DEF CachesInv, CacheInv
<1> QED
  BY <1>2, <1>3

\* Once the valid objects are worked off, pluginsCache holds exactly their
\* plugins, and selectorCache the right selector of each and none of an object
\* that is gone, but where a stream that missed has since put one back that is not
\* that of the object; whatever the lister and failed status writes did in
\* between, for any number of objects and streams, unless a version was given that
\* Reconcile takes for an older one.
THEOREM CachesAreRight == Spec => []CachesFollowObjects
BY CachesInvInit, CachesInvNext, CachesInvFollow, PTL DEF Spec

-----------------------------------------------------------------------------
(***************************************************************************)
(* The comparison of plugin lists                                          *)
(***************************************************************************)

\* The elements of a sequence.
LEMMA ElementOf == ASSUME NEW S, NEW s \in Seq(S), NEW i \in DOMAIN s PROVE s[i] \in S
OBVIOUS

\* The names of a list are at most as many as its elements, and all different
\* if they are as many.
LEMMA NamesOfList ==
  ASSUME NEW list \in Seq([name : PluginNames, config : Configs])
  PROVE  /\ IsFiniteSet(Names(list)) /\ Cardinality(Names(list)) \in Nat
         /\ Cardinality(Names(list)) <= Len(list)
         /\ Cardinality(Names(list)) = Len(list) =>
              \A i, j \in DOMAIN list : list[i].name = list[j].name => i = j
<1> DEFINE N == Len(list)
           f == [i \in 1..N |-> list[i].name]
<1>1. N \in Nat /\ DOMAIN list = 1..N
  OBVIOUS
<1>2. IsFiniteSet(1..N) /\ Cardinality(1..N) = N
  <2>1. IsFiniteSet(1..N) /\ Cardinality(1..N) = IF 1 > N THEN 0 ELSE N - 1 + 1
    BY <1>1, FS_Interval
  <2> QED
    BY <1>1, <2>1
<1>3. f \in Surjection(1..N, Names(list))
  BY <1>1 DEF Names, Surjection
<1>4. /\ IsFiniteSet(Names(list))
      /\ Cardinality(Names(list)) <= Cardinality(1..N)
      /\ Cardinality(Names(list)) = Cardinality(1..N) <=> f \in Injection(1..N, Names(list))
  BY <1>2, <1>3, FS_Surjection
<1>5. Cardinality(Names(list)) \in Nat
  BY <1>4, FS_CardinalityType
<1>6. f \in Injection(1..N, Names(list)) =>
        \A i, j \in 1..N : list[i].name = list[j].name => i = j
  BY DEF Injection, IsInjective
<1> QED
  BY <1>1, <1>2, <1>4, <1>5, <1>6

\* A list without repeated names is its map.
LEMMA MapOfList ==
  ASSUME NEW list \in Seq([name : PluginNames, config : Configs]),
         Cardinality(Names(list)) = Len(list), NEW i \in DOMAIN list
  PROVE  list[i].name \in Names(list) /\ PluginMap(list)[list[i].name] = list[i].config
<1>1. list[i].name \in Names(list)
  BY DEF Names
<1>2. {j \in DOMAIN list : list[j].name = list[i].name} = {i}
  BY NamesOfList
<1>3. Max({i}) = i
  <2>1. i \in Int /\ i >= i
    OBVIOUS
  <2> QED
    BY <2>1 DEF Max
<1> QED
  BY <1>1, <1>2, <1>3 DEF PluginMap

\* Lists that PluginsConfigEqual takes to be equal have the same elements, if
\* the new one does not name a plugin twice.
LEMMA EqualLists ==
  ASSUME NEW old \in Plugins, NEW new \in Plugins,
         Cardinality(Names(new)) = Len(new), PluginsConfigEqual(old, new)
  PROVE  Range(old) = Range(new)
<1>0. /\ old \in Seq([name : PluginNames, config : Configs])
      /\ new \in Seq([name : PluginNames, config : Configs])
  BY PluginsAssumption
<1>1. Len(old) = Len(new) /\ Names(new) \subseteq Names(old)
  BY DEF PluginsConfigEqual
<1>2. Names(old) = Names(new) /\ Cardinality(Names(old)) = Len(old)
  <2>1. /\ IsFiniteSet(Names(old)) /\ Cardinality(Names(old)) \in Nat
        /\ Cardinality(Names(old)) <= Len(old)
    BY <1>0, NamesOfList
  <2>2. /\ Cardinality(Names(new)) <= Cardinality(Names(old))
        /\ Cardinality(Names(old)) = Cardinality(Names(new)) => Names(old) = Names(new)
    BY <1>1, <2>1, FS_Subset
  <2>3. Cardinality(Names(old)) = Len(old)
    BY <1>0, <1>1, <2>1, <2>2
  <2> QED
    BY <1>1, <2>2, <2>3
<1>3. ASSUME NEW i \in DOMAIN old, NEW j \in DOMAIN new, old[i].name = new[j].name
      PROVE  old[i] = new[j]
  <2>1. old[i].config = new[j].config
    BY <1>0, <1>2, <1>3, MapOfList DEF PluginsConfigEqual
  <2>2. old[i] \in [name : PluginNames, config : Configs]
        /\ new[j] \in [name : PluginNames, config : Configs]
    BY <1>0, ElementOf
  <2> QED
    BY <1>3, <2>1, <2>2
<1>4. /\ \A i \in DOMAIN old : \E j \in DOMAIN new : old[i].name = new[j].name
      /\ \A j \in DOMAIN new : \E i \in DOMAIN old : old[i].name = new[j].name
  BY <1>2 DEF Names
<1> QED
  BY <1>3, <1>4 DEF Range

-----------------------------------------------------------------------------
(***************************************************************************)
(* The pods are up to date                                                 *)
(***************************************************************************)

\* While nothing unusual has happened, the lister knows of an object what it is
\* like, a cached object is listed, and its cached selector is right.
ObjectKnown(k) ==
  /\ objects[k].spec.selector # BadSelector
  /\ ~OddList(k, objects[k].spec.plugins)
  /\ k \in DOMAIN listed => listed[k] = objects[k].spec.selector
  /\ k \in DOMAIN pluginsCache => /\ k \in DOMAIN listed
                                  /\ selectorCache[k] = SelectorOf(objects[k].spec.selector)

\* What is listed, of an object that may be gone, agrees with the cache.
ListedKnown(k) ==
  /\ listed[k] # BadSelector
  /\ k \in DOMAIN pluginsCache => selectorCache[k] = SelectorOf(listed[k])

\* What a stream has listed agrees with the object, if it is still there, the
\* lister, the other streams, the selector cached with its plugins, and the one
\* that was put in the cache since the stream found none.
TodoKnown(p, k) ==
  /\ query[p].todo[k] # BadSelector
  /\ k \in DOMAIN objects => objects[k].spec.selector = query[p].todo[k]
  /\ k \in DOMAIN listed => listed[k] = query[p].todo[k]
  /\ \A q \in DOMAIN query : k \in DOMAIN query[q].todo => query[q].todo[k] = query[p].todo[k]
  /\ k \in DOMAIN pluginsCache \/ (k \in query[p].missed /\ k \in DOMAIN selectorCache)
       => selectorCache[k] = SelectorOf(query[p].todo[k])

\* With an object that is gone and worked off, it is not listed.
KeyInv(k) ==
  /\ k \in DOMAIN objects => ObjectKnown(k)
  /\ k \in DOMAIN listed => ListedKnown(k)
  /\ k \notin queue \cup DOMAIN objects => k \notin DOMAIN listed
  /\ \A p \in DOMAIN query : k \in DOMAIN query[p].todo => TodoKnown(p, k)

\* All this, no stream has ended, and those at work have a known pod.
ListerInv ==
  anomalies = {} => /\ streams = Pods /\ DOMAIN query \subseteq knownPods
                    /\ \A k \in Keys : KeyInv(k)

\* Before the first object.
LEMMA ListerInit == Init => ListerInv
BY DEF Init, ListerInv, KeyInv

\* What it means that applying a spec is no anomaly.
LEMMA NoSpecAnomaly ==
  ASSUME NEW k, NEW s, SpecAnomalies(k, s) = {}
  PROVE  /\ k \in DOMAIN objects => objects[k].spec.selector = s.selector
         /\ s.selector # BadSelector
         /\ ~OddList(k, s.plugins)
         /\ k \notin DOMAIN objects => k \notin queue /\ ~Queried(k)
<1>1. ASSUME k \in DOMAIN objects, objects[k].spec.selector # s.selector PROVE FALSE
  <2>1. "selector" \in SpecAnomalies(k, s)
    BY <1>1 DEF SpecAnomalies
  <2> QED
    BY <2>1
<1>2. ASSUME s.selector = BadSelector PROVE FALSE
  <2>1. "invalid" \in SpecAnomalies(k, s)
    BY <1>2 DEF SpecAnomalies
  <2> QED
    BY <2>1
<1>3. ASSUME OddList(k, s.plugins) PROVE FALSE
  <2>1. "list" \in SpecAnomalies(k, s)
    BY <1>3 DEF SpecAnomalies
  <2> QED
    BY <2>1
<1>4. ASSUME k \notin DOMAIN objects, k \in queue \/ Queried(k) PROVE FALSE
  <2>1. "recreated" \in SpecAnomalies(k, s)
    BY <1>4 DEF SpecAnomalies
  <2> QED
    BY <2>1
<1> QED
  BY <1>1, <1>2, <1>3, <1>4

\* A step after which no stream has more to do for key k, nor more to fill in.
SameTodo(k) ==
  \A p \in DOMAIN query' : k \in DOMAIN query'[p].todo =>
    /\ p \in DOMAIN query /\ k \in DOMAIN query[p].todo
    /\ query'[p].todo[k] = query[p].todo[k]
    /\ k \in query'[p].missed /\ k \in DOMAIN selectorCache => k \in query[p].missed

\* A step that changes nothing that KeyInv says of a key.
SameAt(k) ==
  /\ k \in queue' <=> k \in queue
  /\ k \in DOMAIN objects' <=> k \in DOMAIN objects
  /\ k \in DOMAIN objects => objects'[k].spec = objects[k].spec
  /\ k \in DOMAIN listed' <=> k \in DOMAIN listed
  /\ k \in DOMAIN listed => listed'[k] = listed[k]
  /\ k \in DOMAIN selectorCache' <=> k \in DOMAIN selectorCache
  /\ k \in DOMAIN selectorCache => selectorCache'[k] = selectorCache[k]
  /\ k \in DOMAIN pluginsCache' <=> k \in DOMAIN pluginsCache
  /\ k \in DOMAIN pluginsCache => pluginsCache'[k] = pluginsCache[k]
  /\ SameTodo(k)

\* Such a step keeps it.
LEMMA KeySame ==
  ASSUME CacheInv, NEW k, KeyInv(k), SameAt(k)
  PROVE  KeyInv(k)'
<1>0. k \in DOMAIN pluginsCache => k \in DOMAIN selectorCache
  BY DEF CacheInv
<1>1. /\ k \in DOMAIN objects' => ObjectKnown(k)'
      /\ k \in DOMAIN listed' => ListedKnown(k)'
      /\ k \notin queue' \cup DOMAIN objects' => k \notin DOMAIN listed'
  BY <1>0 DEF KeyInv, SameAt, ObjectKnown, ListedKnown, OddList
<1>2. ASSUME NEW p \in DOMAIN query', k \in DOMAIN query'[p].todo PROVE TodoKnown(p, k)'
  <2>1. /\ p \in DOMAIN query /\ k \in DOMAIN query[p].todo
        /\ query'[p].todo[k] = query[p].todo[k]
        /\ k \in query'[p].missed /\ k \in DOMAIN selectorCache => k \in query[p].missed
    BY <1>2 DEF SameAt, SameTodo
  <2>2. TodoKnown(p, k)
    BY <2>1 DEF KeyInv
  <2>3. \A q \in DOMAIN query' :
          k \in DOMAIN query'[q].todo => query'[q].todo[k] = query'[p].todo[k]
    BY <2>1, <2>2 DEF SameAt, SameTodo, TodoKnown
  <2> QED
    BY <1>0, <2>1, <2>2, <2>3 DEF TodoKnown, SameAt
<1> QED
  BY <1>1, <1>2 DEF KeyInv

\* What steps of Kubernetes do to the objects, the lister and the queue.
LEMMA ApplyAt ==
  ASSUME NEW x \in Keys, NEW s, Apply(x, s)
  PROVE  /\ x \in queue' /\ x \in DOMAIN objects' /\ objects'[x].spec = s
         /\ UNCHANGED <<listed, pluginsCache, selectorCache, streams, query>>
         /\ \A k : k # x => SameAt(k)
<1>1. objects' = With(objects, x, [version |-> lastVersion', spec |-> s,
                                   synced |-> FALSE, deleting |-> FALSE])
      /\ queue' = queue \cup {x}
      /\ UNCHANGED <<listed, pluginsCache, selectorCache, streams, query>>
  BY DEF Apply, cacheVars, streamVars
<1> QED
  BY <1>1 DEF With, SameAt, SameTodo

\* Removing an object, or marking it.
LEMMA RemoveAt ==
  ASSUME Types, NEW x \in Keys, Remove(x)
  PROVE  /\ x \in queue' /\ x \in DOMAIN objects
         /\ x \in DOMAIN objects' => objects'[x].spec = objects[x].spec
         /\ UNCHANGED <<listed, pluginsCache, selectorCache, streams, query>>
         /\ \A k : k # x => SameAt(k)
<1>0. /\ queue' = queue \cup {x} /\ x \in DOMAIN objects
      /\ UNCHANGED <<listed, pluginsCache, selectorCache, streams, query>>
  BY DEF Remove, cacheVars, streamVars
<1>1. CASE objects' = Without(objects, x)
  BY <1>0, <1>1 DEF Without, SameAt, SameTodo
<1>2. CASE objects' = [objects EXCEPT ![x].deleting = TRUE, ![x].version = lastVersion']
  BY <1>0, <1>2, MarkedFields DEF SameAt, SameTodo
<1> QED
  BY <1>1, <1>2 DEF Remove

\* Reconciling a key without the lister anomaly.
LEMMA ReconcileFresh ==
  ASSUME NEW x \in Keys, Reconcile(x), anomalies' = {}
  PROVE  ListerFresh(x)
BY DEF Reconcile

\* Reconciling one key leaves the others alone.
LEMMA ReconcileAt ==
  ASSUME Types, NEW x \in Keys, Reconcile(x), NEW k, k # x
  PROVE  SameAt(k)
<1> USE DEF apiVars, cacheVars, streamVars
<1>0. query' = query
  BY DEF Reconcile, ReconcileDeleted, ReconcileSkipped, ReconcileInvalid, ReconcileChanged
<1>1. CASE ReconcileDeleted(x)
  <2>1. UNCHANGED <<objects, listed>> /\ queue' = queue \ {x}
    BY <1>1 DEF ReconcileDeleted
  <2> QED
    BY <1>0, <1>1, <2>1, DeletedCaches DEF SameAt, SameTodo
<1>2. CASE ReconcileSkipped(x) \/ ReconcileInvalid(x)
  BY <1>0, <1>2 DEF ReconcileSkipped, ReconcileInvalid, SameAt, SameTodo
<1>3. CASE ReconcileChanged(x)
  <2>1. listed' = listed /\ (k \in queue' <=> k \in queue)
    BY <1>3, ChangedObjects DEF ReconcileChanged
  <2> QED
    BY <1>0, <1>3, <2>1, ChangedObjects, ChangedCaches DEF SameAt, SameTodo
<1> QED
  BY <1>1, <1>2, <1>3 DEF Reconcile

\* Without an anomaly a fill never changes a selector that is there.
LEMMA FillKeeps ==
  ASSUME Types, NEW p, NEW x \in Keys, KeyInv(x), FillSelector(p, x)
  PROVE  /\ DOMAIN selectorCache' = DOMAIN selectorCache \cup {x}
         /\ \A k \in DOMAIN selectorCache : selectorCache'[k] = selectorCache[k]
<1>1. p \in DOMAIN query /\ x \in query[p].missed /\ x \in DOMAIN query[p].todo
  BY DEF FillSelector, Types, QueryOK
<1>2. x \in DOMAIN selectorCache => selectorCache[x] = SelectorOf(query[p].todo[x])
  BY <1>1 DEF KeyInv, TodoKnown
<1> QED
  BY <1>2, FilledCache

\* A look-up and a fill leave what there is to do for another key alone; a
\* look-up that finds nothing leaves all of it.
LEMMA LookedTodo ==
  ASSUME Types, NEW p \in DOMAIN query, NEW x, NEW labels, NEW k,
         query' = [query EXCEPT ![p] = Looked(query[p], x, labels)]
  PROVE  /\ SameTodo(k)
         /\ DOMAIN query' = DOMAIN query
         /\ \A q \in DOMAIN query \ {p} : query'[q] = query[q]
         /\ query'[p].label = query[p].label
         /\ query'[p].matched = IF query[p].label \in labels THEN query[p].matched \cup {x}
                                ELSE query[p].matched
         /\ DOMAIN query'[p].todo = DOMAIN query[p].todo \ {x}
<1>1. QueryOK(query[p])
  BY DEF Types
<1>2. /\ DOMAIN query' = DOMAIN query /\ query'[p] = Looked(query[p], x, labels)
      /\ \A q \in DOMAIN query \ {p} : query'[q] = query[q]
  OBVIOUS
<1>3. /\ query'[p].label = query[p].label
      /\ query'[p].matched = IF query[p].label \in labels THEN query[p].matched \cup {x}
                             ELSE query[p].matched
      /\ query'[p].missed = {}
      /\ query'[p].todo = Without(query[p].todo, x)
  BY <1>1, <1>2 DEF Looked, QueryOK
<1>4. /\ DOMAIN query'[p].todo = DOMAIN query[p].todo \ {x}
      /\ \A y \in DOMAIN query'[p].todo : query'[p].todo[y] = query[p].todo[y]
  BY <1>3 DEF Without
<1>5. SameTodo(k)
  <2> SUFFICES ASSUME NEW q \in DOMAIN query', k \in DOMAIN query'[q].todo
               PROVE  /\ q \in DOMAIN query /\ k \in DOMAIN query[q].todo
                      /\ query'[q].todo[k] = query[q].todo[k]
                      /\ k \in query'[q].missed => k \in query[q].missed
    BY DEF SameTodo
  <2>1. CASE q = p
    BY <1>2, <1>3, <1>4, <2>1
  <2>2. CASE q # p
    BY <1>2, <2>2
  <2> QED
    BY <2>1, <2>2
<1> QED
  BY <1>2, <1>3, <1>4, <1>5

\* The query that was started.
LEMMA StartedQuery ==
  ASSUME NEW p, StartQuery(p)
  PROVE  /\ p \notin DOMAIN query /\ p \in knownPods
         /\ DOMAIN query' = DOMAIN query \cup {p}
         /\ \A q \in DOMAIN query : query'[q] = query[q]
         /\ query'[p].label = podLabel[p] /\ query'[p].missed = {}
         /\ query'[p].matched = {k \in DOMAIN listed : listed[k] = NoSelector}
         /\ DOMAIN query'[p].todo = {k \in DOMAIN listed : listed[k] # NoSelector}
         /\ \A k \in DOMAIN query'[p].todo : query'[p].todo[k] = listed[k]
<1> DEFINE none == {k \in DOMAIN listed : listed[k] = NoSelector}
           q == [label |-> podLabel[p], matched |-> none, missed |-> {},
                 todo |-> [k \in DOMAIN listed \ none |-> listed[k]]]
<1>1. p \notin DOMAIN query /\ p \in knownPods /\ query' = With(query, p, q)
  BY DEF StartQuery
<1>2. /\ q.label = podLabel[p] /\ q.missed = {} /\ q.matched = none
      /\ q.todo = [k \in DOMAIN listed \ none |-> listed[k]]
  OBVIOUS
<1> HIDE DEF q
<1>3. /\ DOMAIN query' = DOMAIN query \cup {p} /\ query'[p] = q
      /\ \A r \in DOMAIN query : query'[r] = query[r]
  BY <1>1 DEF With
<1> QED
  BY <1>1, <1>2, <1>3

\* Every step keeps what is known of a key, or is an anomaly.
LEMMA KeyNext ==
  ASSUME CachesInv, anomalies = {}, \A k \in Keys : KeyInv(k), [Next]_vars,
         anomalies' = {}, NEW k \in Keys
  PROVE  KeyInv(k)'
<1> USE DEF apiVars, podVars, cacheVars, streamVars
<1>0. Types /\ QueueInv /\ KeyInv(k)
  BY DEF CachesInv
<1>a. ASSUME SameAt(k) PROVE KeyInv(k)'
  BY <1>0, <1>a, KeySame DEF CachesInv
<1>1. ASSUME NEW x \in Keys, NEW s \in Specs[x], Apply(x, s) PROVE KeyInv(k)'
  <2>1. CASE k = x
    <3>1. SpecAnomalies(x, s) = {}
      BY <1>1 DEF Apply
    <3>2. /\ k \in DOMAIN objects => objects[k].spec.selector = s.selector
          /\ s.selector # BadSelector
          /\ ~OddList(k, s.plugins)
          /\ k \notin DOMAIN objects => k \notin queue /\ ~Queried(k)
      BY <2>1, <3>1, NoSpecAnomaly
    <3>3. /\ k \in queue' /\ k \in DOMAIN objects' /\ objects'[k].spec = s
          /\ UNCHANGED <<listed, pluginsCache, selectorCache, query>>
      BY <1>1, <2>1, ApplyAt
    <3>4. ~OddList(k, s.plugins)'
      BY <3>2, <3>3 DEF OddList
    <3>5. CASE k \in DOMAIN objects
      <4>1. ObjectKnown(k)' /\ (k \in DOMAIN listed => ListedKnown(k)')
        BY <3>2, <3>3, <3>4, <3>5 DEF KeyInv, ObjectKnown, ListedKnown
      <4>2. \A p \in DOMAIN query : k \in DOMAIN query[p].todo => TodoKnown(p, k)'
        BY <3>2, <3>3, <3>5 DEF KeyInv, TodoKnown
      <4> QED
        BY <3>3, <4>1, <4>2 DEF KeyInv
    <3>6. CASE k \notin DOMAIN objects
      <4>1. k \notin DOMAIN listed /\ \A p \in DOMAIN query : k \notin DOMAIN query[p].todo
        BY <3>2, <3>6 DEF KeyInv, Queried
      <4>2. k \notin DOMAIN pluginsCache
        BY <1>0, <3>2, <3>6 DEF QueueInv
      <4> QED
        BY <3>2, <3>3, <3>4, <4>1, <4>2 DEF KeyInv, ObjectKnown
    <3> QED
      BY <3>5, <3>6
  <2>2. CASE k # x
    BY <1>1, <1>a, <2>2, ApplyAt
  <2> QED
    BY <2>1, <2>2
<1>2. ASSUME NEW x \in Keys, Remove(x) PROVE KeyInv(k)'
  <2>1. CASE k = x
    <3>1. /\ k \in queue' /\ k \in DOMAIN objects
          /\ k \in DOMAIN objects' => objects'[k].spec = objects[k].spec
          /\ UNCHANGED <<listed, pluginsCache, selectorCache, query>>
      BY <1>0, <1>2, <2>1, RemoveAt
    <3>2. /\ k \in DOMAIN objects' => ObjectKnown(k)'
          /\ k \in DOMAIN listed => ListedKnown(k)'
      BY <1>0, <3>1 DEF KeyInv, ObjectKnown, ListedKnown, OddList
    <3>3. \A p \in DOMAIN query : k \in DOMAIN query[p].todo => TodoKnown(p, k)'
      BY <1>0, <3>1 DEF KeyInv, TodoKnown
    <3> QED
      BY <3>1, <3>2, <3>3 DEF KeyInv
  <2>2. CASE k # x
    BY <1>0, <1>2, <1>a, <2>2, RemoveAt
  <2> QED
    BY <2>1, <2>2
<1>3. ASSUME NEW x \in Keys, ListerSync(x) PROVE KeyInv(k)'
  <2>1. UNCHANGED <<objects, queue, pluginsCache, selectorCache, query>>
    BY <1>3 DEF ListerSync
  <2>2. CASE k = x
    <3>1. IF k \in DOMAIN objects
          THEN k \in DOMAIN listed' /\ listed'[k] = objects[k].spec.selector
          ELSE k \notin DOMAIN listed'
      BY <1>3, <2>2 DEF ListerSync, With, Without
    <3>2. /\ k \in DOMAIN objects' => ObjectKnown(k)'
          /\ k \in DOMAIN listed' => ListedKnown(k)'
      BY <1>0, <2>1, <3>1 DEF KeyInv, ObjectKnown, ListedKnown, OddList
    <3>3. \A p \in DOMAIN query : k \in DOMAIN query[p].todo => TodoKnown(p, k)'
      BY <1>0, <2>1, <3>1 DEF KeyInv, TodoKnown
    <3> QED
      BY <2>1, <3>1, <3>2, <3>3 DEF KeyInv
  <2>3. CASE k # x
    <3>1. /\ k \in DOMAIN listed' <=> k \in DOMAIN listed
          /\ k \in DOMAIN listed => listed'[k] = listed[k]
      BY <1>3, <2>3 DEF ListerSync, With, Without
    <3> QED
      BY <1>a, <2>1, <3>1 DEF SameAt, SameTodo
  <2> QED
    BY <2>2, <2>3
<1>4. ASSUME NEW x \in Keys, Reconcile(x) PROVE KeyInv(k)'
  <2>0. ListerFresh(x)
    BY <1>4, ReconcileFresh
  <2>a. query' = query
    BY <1>4 DEF Reconcile, ReconcileDeleted, ReconcileSkipped, ReconcileInvalid, ReconcileChanged
  <2>1. CASE k = x /\ ReconcileDeleted(x)
    <3>1. /\ k \notin DOMAIN objects' /\ k \notin DOMAIN selectorCache'
          /\ k \notin DOMAIN pluginsCache' /\ listed' = listed
      BY <2>1, DeletedCaches DEF ReconcileDeleted
    <3>2. k \notin DOMAIN listed
      BY <2>0, <2>1, DeletedCaches DEF ListerFresh
    <3>3. \A p \in DOMAIN query : k \in DOMAIN query[p].todo => TodoKnown(p, k)'
      BY <1>0, <2>a, <3>1, <3>2 DEF KeyInv, TodoKnown
    <3> QED
      BY <2>a, <3>1, <3>2, <3>3 DEF KeyInv
  <2>2. CASE k = x /\ (ReconcileSkipped(x) \/ ReconcileInvalid(x))
    <3>1. k \in DOMAIN objects /\ UNCHANGED <<objects, listed, pluginsCache, selectorCache>>
      BY <2>2 DEF ReconcileSkipped, ReconcileInvalid
    <3>2. ObjectKnown(k)' /\ (k \in DOMAIN listed => ListedKnown(k)')
      BY <1>0, <3>1 DEF KeyInv, ObjectKnown, ListedKnown, OddList
    <3>3. \A p \in DOMAIN query : k \in DOMAIN query[p].todo => TodoKnown(p, k)'
      BY <1>0, <2>a, <3>1 DEF KeyInv, TodoKnown
    <3> QED
      BY <2>a, <3>1, <3>2, <3>3 DEF KeyInv
  <2>3. CASE k = x /\ ReconcileChanged(x)
    <3>1. /\ k \in DOMAIN objects /\ k \in DOMAIN objects'
          /\ objects'[k].spec = objects[k].spec
          /\ listed' = listed
      BY <1>0, <2>3, ChangedObjects DEF ReconcileChanged
    <3>2. k \in DOMAIN listed /\ listed[k] = objects[k].spec.selector
      BY <2>0, <2>3, <3>1 DEF ListerFresh
    <3>3. /\ selectorCache'[k] = SelectorOf(objects[k].spec.selector)
          /\ k \in DOMAIN pluginsCache'
          /\ pluginsCache'[k].plugins = objects[k].spec.plugins
      BY <2>3, ChangedCaches
    <3>4. ~OddList(k, objects[k].spec.plugins)'
      BY <1>0, <3>1, <3>3 DEF KeyInv, ObjectKnown, OddList
    <3>5. ObjectKnown(k)' /\ ListedKnown(k)'
      BY <1>0, <3>1, <3>2, <3>3, <3>4 DEF KeyInv, ObjectKnown, ListedKnown
    <3>6. \A p \in DOMAIN query : k \in DOMAIN query[p].todo => TodoKnown(p, k)'
      BY <1>0, <2>a, <3>1, <3>2, <3>3 DEF KeyInv, TodoKnown
    <3> QED
      BY <2>a, <3>1, <3>5, <3>6 DEF KeyInv
  <2>4. CASE k # x
    BY <1>0, <1>4, <1>a, <2>4, ReconcileAt
  <2> QED
    BY <1>4, <2>1, <2>2, <2>3, <2>4 DEF Reconcile
<1>5. ASSUME NEW p \in Pods, AddPod(p) \/ \E l \in Labels : UpdatePod(p, l) PROVE KeyInv(k)'
  BY <1>5, <1>a DEF AddPod, UpdatePod, SameAt, SameTodo
<1>6. ASSUME NEW p \in Pods, StartQuery(p) PROVE KeyInv(k)'
  <2>1. UNCHANGED <<objects, queue, listed, pluginsCache, selectorCache>>
    BY <1>6 DEF StartQuery
  <2>2. /\ p \notin DOMAIN query /\ DOMAIN query' = DOMAIN query \cup {p}
        /\ \A q \in DOMAIN query : query'[q] = query[q]
        /\ query'[p].missed = {}
        /\ DOMAIN query'[p].todo \subseteq DOMAIN listed
        /\ \A y \in DOMAIN query'[p].todo : query'[p].todo[y] = listed[y]
    BY <1>6, StartedQuery
  <2>3. /\ k \in DOMAIN objects' => ObjectKnown(k)'
        /\ k \in DOMAIN listed' => ListedKnown(k)'
    BY <1>0, <2>1 DEF KeyInv, ObjectKnown, ListedKnown, OddList
  <2>4. ASSUME NEW q \in DOMAIN query, k \in DOMAIN query[q].todo PROVE TodoKnown(q, k)'
    <3>1. TodoKnown(q, k) /\ query'[q] = query[q]
      BY <1>0, <2>2, <2>4 DEF KeyInv
    <3>2. \A r \in DOMAIN query' :
            k \in DOMAIN query'[r].todo => query'[r].todo[k] = query'[q].todo[k]
      BY <2>2, <3>1 DEF TodoKnown
    <3> QED
      BY <2>1, <3>1, <3>2 DEF TodoKnown
  <2>5. ASSUME k \in DOMAIN query'[p].todo PROVE TodoKnown(p, k)'
    <3>1. k \in DOMAIN listed /\ query'[p].todo[k] = listed[k] /\ ListedKnown(k)
      BY <1>0, <2>2, <2>5 DEF KeyInv
    <3>2. \A r \in DOMAIN query' :
            k \in DOMAIN query'[r].todo => query'[r].todo[k] = query'[p].todo[k]
      BY <1>0, <2>2, <3>1 DEF KeyInv, TodoKnown
    <3>3. k \in DOMAIN objects => objects[k].spec.selector = listed[k]
      BY <1>0, <3>1 DEF KeyInv, ObjectKnown
    <3> QED
      BY <2>1, <2>2, <3>1, <3>2, <3>3 DEF TodoKnown, ListedKnown
  <2> QED
    BY <1>0, <2>1, <2>2, <2>3, <2>4, <2>5 DEF KeyInv
<1>7. ASSUME NEW p \in Pods, NEW x \in Keys, LookUp(p, x) PROVE KeyInv(k)'
  <2>1. UNCHANGED <<objects, queue, listed, pluginsCache, selectorCache>> /\ p \in DOMAIN query
    BY <1>7 DEF LookUp
  <2>2. SameTodo(k)
    <3>1. CASE x \in DOMAIN selectorCache
      BY <1>0, <1>7, <2>1, <3>1, LookedTodo DEF LookUp
    <3>2. CASE x \notin DOMAIN selectorCache
      <4>1. query' = [query EXCEPT ![p] = [query[p] EXCEPT !.missed = {x}]]
        BY <1>7, <3>2 DEF LookUp
      <4>2. \A q \in DOMAIN query : /\ query'[q].todo = query[q].todo
                                    /\ query'[q].missed \subseteq query[q].missed \cup {x}
        BY <1>0, <2>1, <4>1 DEF Types, QueryOK
      <4> QED
        BY <3>2, <4>1, <4>2 DEF SameTodo
    <3> QED
      BY <3>1, <3>2
  <2> QED
    BY <1>a, <2>1, <2>2 DEF SameAt
<1>8. ASSUME NEW p \in Pods, NEW x \in Keys, FillSelector(p, x) PROVE KeyInv(k)'
  <2>1. UNCHANGED <<objects, queue, listed, pluginsCache>>
    BY <1>8, FilledCache
  <2>2. /\ DOMAIN selectorCache' = DOMAIN selectorCache \cup {x}
        /\ \A y \in DOMAIN selectorCache : selectorCache'[y] = selectorCache[y]
    BY <1>0, <1>8, FillKeeps
  <2>3. SameTodo(k)
    BY <1>0, <1>8, LookedTodo DEF FillSelector
  <2>4. CASE k \in DOMAIN selectorCache \/ k # x
    BY <1>a, <2>1, <2>2, <2>3, <2>4 DEF SameAt
  <2>5. CASE k \notin DOMAIN selectorCache /\ k = x
    <3>1. k \notin DOMAIN pluginsCache
      BY <2>5 DEF CachesInv, CacheInv
    <3>2. /\ p \in DOMAIN query /\ k \in DOMAIN query[p].todo
          /\ selectorCache'[k] = SelectorOf(query[p].todo[k])
      BY <1>0, <1>8, <2>5, FilledCache DEF FillSelector, Types, QueryOK
    <3>3. /\ k \in DOMAIN objects' => ObjectKnown(k)'
          /\ k \in DOMAIN listed' => ListedKnown(k)'
      BY <1>0, <2>1, <3>1 DEF KeyInv, ObjectKnown, ListedKnown, OddList
    <3>4. ASSUME NEW q \in DOMAIN query', k \in DOMAIN query'[q].todo PROVE TodoKnown(q, k)'
      <4>1. /\ q \in DOMAIN query /\ k \in DOMAIN query[q].todo
            /\ query'[q].todo[k] = query[q].todo[k]
        BY <2>3, <3>4 DEF SameTodo
      <4>2. TodoKnown(q, k) /\ query[p].todo[k] = query[q].todo[k]
        BY <1>0, <3>2, <4>1 DEF KeyInv, TodoKnown
      <4>3. \A r \in DOMAIN query' :
              k \in DOMAIN query'[r].todo => query'[r].todo[k] = query'[q].todo[k]
        BY <2>3, <4>1, <4>2 DEF SameTodo, TodoKnown
      <4> QED
        BY <2>1, <3>2, <4>1, <4>2, <4>3 DEF TodoKnown
    <3> QED
      BY <1>0, <2>1, <3>3, <3>4 DEF KeyInv
  <2> QED
    BY <2>4, <2>5
<1>9. ASSUME NEW p \in Pods, \/ PodNotFound(p) \/ Send(p)
                            \/ \E x \in Keys : FillFails(p, x)
      PROVE  KeyInv(k)'
  <2>1. /\ UNCHANGED <<objects, queue, listed, pluginsCache, selectorCache>>
        /\ query' = Without(query, p)
    BY <1>9 DEF PodNotFound, FillFails, EndStream, Send
  <2>2. SameTodo(k)
    BY <2>1 DEF SameTodo, Without
  <2> QED
    BY <1>a, <2>1, <2>2 DEF SameAt
<1>10. CASE UNCHANGED vars
  BY <1>10, <1>a DEF vars, SameAt, SameTodo
<1> QED
  BY <1>1, <1>2, <1>3, <1>4, <1>5, <1>6, <1>7, <1>8, <1>9, <1>10 DEF Next

\* Without an anomaly no stream fails.
LEMMA NoStreamEnds ==
  ASSUME Types, \A k \in Keys : KeyInv(k), anomalies' = {}
  PROVE  /\ \A p \in Pods : ~PodNotFound(p)
         /\ \A p \in Pods : \A k \in Keys : ~FillFails(p, k)
<1>1. ASSUME NEW p \in Pods, PodNotFound(p) PROVE FALSE
  BY <1>1 DEF PodNotFound
<1>2. ASSUME NEW p \in Pods, NEW k \in Keys, FillFails(p, k) PROVE FALSE
  <2>1. p \in DOMAIN query /\ k \in DOMAIN query[p].todo /\ query[p].todo[k] = BadSelector
    BY <1>2 DEF FillFails, Types, QueryOK
  <2> QED
    BY <2>1 DEF KeyInv, TodoKnown
<1> QED
  BY <1>1, <1>2

\* Every step keeps all this.
LEMMA ListerNext == CachesInv /\ ListerInv /\ [Next]_vars => ListerInv'
<1> SUFFICES ASSUME CachesInv, ListerInv, [Next]_vars, anomalies' = {}
             PROVE  /\ streams' = Pods /\ DOMAIN query' \subseteq knownPods'
                    /\ \A k \in Keys : KeyInv(k)'
  BY DEF ListerInv
<1> USE DEF apiVars, podVars, streamVars
<1>0. Types /\ anomalies = {}
  BY StepVersions DEF CachesInv, VersionsFrom
<1>1. streams = Pods /\ DOMAIN query \subseteq knownPods /\ \A k \in Keys : KeyInv(k)
  BY <1>0 DEF ListerInv
<1>2. \A k \in Keys : KeyInv(k)'
  BY <1>0, <1>1, KeyNext
<1>3. CASE \E p \in Pods : StreamStep(p)
  <2>1. PICK p \in Pods : StreamStep(p)
    BY <1>3
  <2>2. knownPods' = knownPods
    BY <2>1, StreamFrame
  <2>3. streams' = streams /\ (DOMAIN query' \subseteq DOMAIN query \cup knownPods)
    <3>1. CASE StartQuery(p)
      <4>1. streams' = streams
        BY <3>1 DEF StartQuery
      <4>2. p \in knownPods /\ DOMAIN query' = DOMAIN query \cup {p}
        BY <3>1, StartedQuery
      <4> QED
        BY <4>1, <4>2
    <3>2. ASSUME NEW k \in Keys, LookUp(p, k) \/ FillSelector(p, k)
          PROVE  streams' = streams /\ DOMAIN query' = DOMAIN query
      BY <3>2 DEF LookUp, FillSelector
    <3>3. CASE Send(p)
      BY <3>3 DEF Send, Without
    <3> QED
      BY <1>0, <1>1, <2>1, <3>1, <3>2, <3>3, NoStreamEnds DEF StreamStep
  <2> QED
    BY <1>1, <1>2, <2>2, <2>3
<1>4. CASE ~ \E p \in Pods : StreamStep(p)
  <2>1. UNCHANGED <<streams, query>> /\ knownPods \subseteq knownPods'
    BY <1>4
       DEF Next, Apply, Remove, ListerSync, Reconcile, ReconcileDeleted, ReconcileSkipped,
           ReconcileInvalid, ReconcileChanged, AddPod, UpdatePod, StreamStep, vars
  <2> QED
    BY <1>1, <1>2, <2>1
<1> QED
  BY <1>3, <1>4

\* What pod p was last sent of key k is what is cached, if it selects the pod.
PairInv(p, k) ==
  /\ k \in DOMAIN view[p] => /\ k \in DOMAIN pluginsCache
                             /\ view[p][k] = pluginsCache[k].plugins
                             /\ podLabel[p] \in selectorCache[k]
  /\ k \in DOMAIN objects \cap DOMAIN pluginsCache /\ podLabel[p] \in selectorCache[k]
       => k \in DOMAIN view[p]

\* What the stream of p has found of key k so far: a match was one by the selector
\* of the object, or by one that Reconcile will notify the pods of; and a match
\* that counts was found or will be.
MatchInv(p, k) ==
  /\ query[p].label = podLabel[p]
  /\ k \in query[p].matched =>
       /\ k \in DOMAIN pluginsCache => podLabel[p] \in selectorCache[k]
       /\ k \in DOMAIN objects => \/ podLabel[p] \in SelectorOf(objects[k].spec.selector)
                                  \/ /\ k \in DOMAIN selectorCache
                                     /\ podLabel[p] \in selectorCache[k]
  /\ k \in DOMAIN objects \cap DOMAIN pluginsCache /\ podLabel[p] \in selectorCache[k]
       => k \in query[p].matched \cup DOMAIN query[p].todo

\* One of the two holds of a pod, whether or not its stream is at work.
PodInv(p, k) == IF p \in DOMAIN query THEN MatchInv(p, k) ELSE PairInv(p, k)

\* So it is for every known pod that is not notified.
ViewInv == anomalies = {} => \A p \in knownPods \ toNotify : \A k \in Keys : PodInv(p, k)

\* Before the first object.
LEMMA ViewInit == Init => ViewInv
BY DEF Init, ViewInv

\* A step that changes nothing that PodInv is about.
LEMMA PodSame ==
  ASSUME CachesInv, NEW p, NEW k, PodInv(p, k),
         view'[p] = view[p], podLabel'[p] = podLabel[p],
         p \in DOMAIN query' <=> p \in DOMAIN query,
         p \in DOMAIN query => query'[p] = query[p],
         k \in DOMAIN objects' =>
           k \in DOMAIN objects /\ objects'[k].spec.selector = objects[k].spec.selector,
         k \in DOMAIN selectorCache =>
           k \in DOMAIN selectorCache' /\ selectorCache'[k] = selectorCache[k],
         k \in DOMAIN pluginsCache' <=> k \in DOMAIN pluginsCache,
         k \in DOMAIN pluginsCache => pluginsCache'[k].plugins = pluginsCache[k].plugins
  PROVE  PodInv(p, k)'
<1>1. k \in DOMAIN pluginsCache => k \in DOMAIN selectorCache
  BY DEF CachesInv, CacheInv
<1>2. CASE p \in DOMAIN query
  BY <1>1, <1>2 DEF PodInv, MatchInv
<1>3. CASE p \notin DOMAIN query
  BY <1>1, <1>3 DEF PodInv, PairInv
<1> QED
  BY <1>2, <1>3

\* Without the anomaly, the informer sees that the version of a pod has grown.
LEMMA PodVersionGrows ==
  ASSUME CachesInv, anomalies' = {}, NEW p \in Pods, NEW l \in Labels, UpdatePod(p, l)
  PROVE  StringLess(Digits(podVersion[p]), Digits(lastVersion'))
<1>1. /\ lastVersion \in Nat /\ lastVersion' = lastVersion + 1
      /\ podVersion[p] \in 0..lastVersion
      /\ lastVersion' \in 0..99
  BY VersionBound DEF UpdatePod, CachesInv, Types
<1>2. lastVersion # 9
  BY <1>1, FirstOfTwoDigits DEF UpdatePod, VersionAnomaly
<1>3. lastVersion < 10 \/ podVersion[p] >= 10
  BY DEF UpdatePod, CachesInv, VersionInv, TwoDigits
<1>4. podVersion[p] \in 0..99 /\ podVersion[p] < lastVersion'
      /\ (podVersion[p] < 10 <=> lastVersion' < 10)
  BY <1>1, <1>2, <1>3
<1> QED
  BY <1>1, <1>4, StringOrder

\* Plugins that Reconcile takes to be unchanged are, unless a list was odd.
LEMMA UnchangedPlugins ==
  ASSUME Types, NEW k \in DOMAIN objects, KeyInv(k), k \in DOMAIN pluginsCache,
         PluginsConfigEqual(pluginsCache[k].plugins, objects[k].spec.plugins)
  PROVE  pluginsCache[k].plugins = objects[k].spec.plugins
<1>1. pluginsCache[k].plugins \in Plugins /\ objects[k].spec.plugins \in Plugins
  BY ObjectFields DEF Types, MapOf, CachedUpTo
<1>2. ~OddList(k, objects[k].spec.plugins)
  BY DEF KeyInv, ObjectKnown
<1>3. Range(pluginsCache[k].plugins) = Range(objects[k].spec.plugins)
  BY <1>1, <1>2, EqualLists DEF OddList
<1> QED
  BY <1>2, <1>3 DEF OddList

\* What is sent to a pod.
LEMMA SentPair ==
  ASSUME CachesInv, NEW p \in Pods, Send(p), NEW k \in Keys, MatchInv(p, k)
  PROVE  PodInv(p, k)'
<1>1. /\ UNCHANGED <<objects, selectorCache, pluginsCache, podLabel>>
      /\ p \notin DOMAIN query' /\ DOMAIN query[p].todo = {}
      /\ view'[p] = PodPluginConfigs(p)
  BY DEF Send, CachesInv, Types, apiVars, podVars, cacheVars, Without
<1>2. DOMAIN view'[p] = query[p].matched \cap DOMAIN pluginsCache
      /\ \A x \in DOMAIN view'[p] : view'[p][x] = pluginsCache[x].plugins
  BY <1>1 DEF PodPluginConfigs
<1> QED
  BY <1>1, <1>2 DEF MatchInv, PairInv, PodInv

\* What a stream starts with.
LEMMA StartedMatch ==
  ASSUME CachesInv, NEW p \in Pods, StartQuery(p), NEW k \in Keys, KeyInv(k)
  PROVE  PodInv(p, k)'
<1>1. UNCHANGED <<objects, listed, selectorCache, pluginsCache, podLabel>>
  BY DEF StartQuery, apiVars, podVars, cacheVars
<1>2. /\ p \in DOMAIN query' /\ query'[p].label = podLabel[p]
      /\ k \in query'[p].matched <=> k \in DOMAIN listed /\ listed[k] = NoSelector
      /\ k \in DOMAIN query'[p].todo <=> k \in DOMAIN listed /\ listed[k] # NoSelector
  BY StartedQuery
<1>3. podLabel[p] \in SelectorOf(NoSelector)
  BY DEF CachesInv, Types, SelectorOf
<1>4. k \in DOMAIN listed /\ listed[k] = NoSelector =>
        /\ k \in DOMAIN pluginsCache => podLabel[p] \in selectorCache[k]
        /\ k \in DOMAIN objects => podLabel[p] \in SelectorOf(objects[k].spec.selector)
  BY <1>3 DEF KeyInv, ListedKnown, ObjectKnown
<1>5. k \in DOMAIN objects \cap DOMAIN pluginsCache => k \in DOMAIN listed
  BY DEF KeyInv, ObjectKnown
<1> QED
  BY <1>1, <1>2, <1>4, <1>5 DEF PodInv, MatchInv

\* What a look-up, or a fill, finds.
LEMMA LookedMatch ==
  ASSUME CachesInv, NEW p \in Pods, NEW x \in Keys, NEW k \in Keys, MatchInv(p, k),
         p \in DOMAIN query, x \in DOMAIN selectorCache',
         query' = [query EXCEPT ![p] = Looked(query[p], x, selectorCache'[x])],
         UNCHANGED <<objects, pluginsCache, podLabel>>,
         \A y \in DOMAIN selectorCache :
           y \in DOMAIN selectorCache' /\ selectorCache'[y] = selectorCache[y]
  PROVE  PodInv(p, k)'
<1>0. Types /\ (k \in DOMAIN pluginsCache => k \in DOMAIN selectorCache)
  BY DEF CachesInv, CacheInv
<1>1. /\ p \in DOMAIN query' /\ query'[p].label = query[p].label
      /\ query'[p].matched = IF query[p].label \in selectorCache'[x]
                             THEN query[p].matched \cup {x} ELSE query[p].matched
      /\ DOMAIN query'[p].todo = DOMAIN query[p].todo \ {x}
  BY <1>0, LookedTodo
<1>2. query[p].label = podLabel[p]
  BY DEF MatchInv
<1>3. ASSUME k \in query'[p].matched
      PROVE  /\ k \in DOMAIN pluginsCache => podLabel[p] \in selectorCache'[k]
             /\ k \in DOMAIN objects => \/ podLabel[p] \in SelectorOf(objects[k].spec.selector)
                                        \/ /\ k \in DOMAIN selectorCache'
                                           /\ podLabel[p] \in selectorCache'[k]
  <2>1. CASE k \in query[p].matched
    BY <1>0, <2>1 DEF MatchInv
  <2>2. CASE k \notin query[p].matched
    BY <1>1, <1>2, <1>3, <2>2
  <2> QED
    BY <2>1, <2>2
<1>4. ASSUME k \in DOMAIN objects \cap DOMAIN pluginsCache, podLabel[p] \in selectorCache'[k]
      PROVE  k \in query'[p].matched \cup DOMAIN query'[p].todo
  <2>1. k \in query[p].matched \cup DOMAIN query[p].todo
    BY <1>0, <1>4 DEF MatchInv
  <2> QED
    BY <1>1, <1>2, <1>4, <2>1
<1> QED
  BY <1>1, <1>2, <1>3, <1>4 DEF PodInv, MatchInv

\* Reconciling notifies the pods it affects.
LEMMA ReconcilePair ==
  ASSUME CachesInv, streams = Pods, NEW x \in Keys, Reconcile(x), KeyInv(x),
         NEW p \in knownPods, p \in Pods, p \notin toNotify', NEW k \in Keys, PodInv(p, k)
  PROVE  PodInv(p, k)'
<1> USE DEF apiVars, podVars, cacheVars, streamVars
<1>0. Types /\ podLabel[p] \in Labels /\ (k \in DOMAIN pluginsCache => k \in DOMAIN selectorCache)
  BY DEF CachesInv, CacheInv, Types
<1>1. UNCHANGED <<view, podLabel, query>>
  BY DEF Reconcile, ReconcileDeleted, ReconcileSkipped, ReconcileInvalid, ReconcileChanged
<1>2. CASE k # x
  <2>1. SameAt(k)
    BY <1>0, <1>2, ReconcileAt
  <2> QED
    BY <1>1, <2>1, PodSame DEF SameAt
<1>3. CASE k = x /\ ReconcileDeleted(x)
  <2>1. k \in DOMAIN selectorCache => p \notin PodsOf(selectorCache[k])
    BY <1>3 DEF ReconcileDeleted, SendPluginsConfigs
  <2>2. k \notin DOMAIN objects' /\ k \notin DOMAIN pluginsCache'
    BY <1>3, DeletedCaches DEF ReconcileDeleted
  <2>3. CASE p \in DOMAIN query
    BY <1>1, <2>2, <2>3 DEF PodInv, MatchInv
  <2>4. CASE p \notin DOMAIN query
    <3>1. k \notin DOMAIN view[p]
      BY <1>0, <2>1, <2>4 DEF PodsOf, PodInv, PairInv
    <3> QED
      BY <1>1, <2>2, <2>4, <3>1 DEF PodInv, PairInv
  <2> QED
    BY <2>3, <2>4
<1>4. CASE k = x /\ (ReconcileSkipped(x) \/ ReconcileInvalid(x))
  <2>1. UNCHANGED <<objects, pluginsCache, selectorCache>>
    BY <1>4 DEF ReconcileSkipped, ReconcileInvalid
  <2> QED
    BY <1>1, <2>1, PodSame
<1>5. CASE k = x /\ ReconcileChanged(x)
  <2> DEFINE new == SelectorOf(objects[k].spec.selector)
             old == IF k \in DOMAIN selectorCache THEN selectorCache[k] ELSE Labels
  <2>1. /\ k \in DOMAIN objects /\ objects'[k].spec = objects[k].spec
        /\ k \in DOMAIN pluginsCache => selectorCache[k] = new
        /\ k \in DOMAIN selectorCache' /\ selectorCache'[k] = new
        /\ k \in DOMAIN pluginsCache'
        /\ pluginsCache'[k].plugins = objects[k].spec.plugins
    BY <1>0, <1>5, ChangedObjects, ChangedCaches DEF KeyInv, ObjectKnown
  <2>2. CASE /\ k \in DOMAIN pluginsCache
             /\ PluginsConfigEqual(pluginsCache[k].plugins, objects[k].spec.plugins)
    <3>1. pluginsCache[k].plugins = objects[k].spec.plugins
      BY <1>0, <1>5, <2>1, <2>2, UnchangedPlugins
    <3> QED
      BY <1>1, <2>1, <2>2, <3>1, PodSame
  <2>3. CASE ~ /\ k \in DOMAIN pluginsCache
               /\ PluginsConfigEqual(pluginsCache[k].plugins, objects[k].spec.plugins)
    <3>1. SendPluginsConfigs(DiffPodsBoth(old, new))
      BY <1>5, <2>3 DEF ReconcileChanged
    <3> HIDE DEF old, new
    <3>2. podLabel[p] \notin old /\ podLabel[p] \notin new
      BY <3>1 DEF SendPluginsConfigs, DiffPodsBoth, PodsOf
    <3>3. k \in DOMAIN selectorCache /\ podLabel[p] \notin selectorCache[k]
      BY <1>0, <3>2 DEF old
    <3>4. CASE p \in DOMAIN query
      <4>1. k \notin query[p].matched
        BY <2>1, <3>2, <3>3, <3>4 DEF PodInv, MatchInv, new
      <4> QED
        BY <1>1, <2>1, <3>2, <3>4, <4>1 DEF PodInv, MatchInv
    <3>5. CASE p \notin DOMAIN query
      <4>1. k \notin DOMAIN view[p]
        BY <3>3, <3>5 DEF PodInv, PairInv
      <4> QED
        BY <1>1, <2>1, <3>2, <3>5, <4>1 DEF PodInv, PairInv
    <3> QED
      BY <3>4, <3>5
  <2> QED
    BY <2>2, <2>3
<1> QED
  BY <1>2, <1>3, <1>4, <1>5 DEF Reconcile

\* Every step keeps what the pods were sent right, or has them notified.
LEMMA PodNext ==
  ASSUME CachesInv, anomalies = {}, anomalies' = {}, streams = Pods,
         \A x \in Keys : KeyInv(x), ViewInv, DOMAIN query \subseteq knownPods, [Next]_vars,
         NEW p \in knownPods', p \notin toNotify', NEW k \in Keys
  PROVE  PodInv(p, k)'
<1> USE DEF apiVars, podVars, cacheVars, streamVars
<1>0. Types /\ p \in Pods /\ DOMAIN view = Pods
  BY TypesNext DEF CachesInv, Types
<1>a. ASSUME p \in knownPods, p \notin toNotify PROVE PodInv(p, k)
  BY <1>a DEF ViewInv
<1>b. ASSUME p \in knownPods, p \notin toNotify,
             UNCHANGED <<objects, selectorCache, pluginsCache>>,
             p \in DOMAIN query' <=> p \in DOMAIN query,
             p \in DOMAIN query => query'[p] = query[p],
             view'[p] = view[p], podLabel'[p] = podLabel[p]
      PROVE  PodInv(p, k)'
  BY <1>a, <1>b, PodSame
<1>1. ASSUME NEW x \in Keys, NEW s \in Specs[x], Apply(x, s) PROVE PodInv(p, k)'
  <2>1. UNCHANGED <<knownPods, toNotify, query, view, podLabel, selectorCache, pluginsCache>>
    BY <1>1 DEF Apply
  <2>2. PodInv(p, k)
    BY <1>a, <2>1
  <2>3. CASE k \in DOMAIN objects
    <3>1. k \in DOMAIN objects' => objects'[k].spec.selector = objects[k].spec.selector
      <4>1. CASE k = x
        <5>1. SpecAnomalies(x, s) = {} /\ objects'[x].spec = s
          BY <1>1, ApplyAt DEF Apply
        <5> QED
          BY <2>3, <4>1, <5>1, NoSpecAnomaly
      <4>2. CASE k # x
        BY <1>1, <2>3, <4>2, ApplyAt DEF SameAt
      <4> QED
        BY <4>1, <4>2
    <3> QED
      BY <2>1, <2>2, <2>3, <3>1, PodSame
  <2>4. CASE k \notin DOMAIN objects /\ k \notin DOMAIN objects'
    BY <2>1, <2>2, <2>4, PodSame
  <2>5. CASE k \notin DOMAIN objects /\ k \in DOMAIN objects'
    <3>1. k = x
      BY <1>1, <2>5, ApplyAt DEF SameAt
    <3>2. k \notin queue /\ ~Queried(k)
      BY <1>1, <2>5, <3>1, NoSpecAnomaly DEF Apply
    <3>3. k \notin DOMAIN pluginsCache
      BY <2>5, <3>2 DEF CachesInv, QueueInv
    <3>4. CASE p \in DOMAIN query
      <4>1. k \notin query[p].matched
        BY <3>2, <3>4 DEF Queried
      <4> QED
        BY <2>1, <2>2, <3>3, <3>4, <4>1 DEF PodInv, MatchInv
    <3>5. CASE p \notin DOMAIN query
      BY <2>1, <2>2, <3>3, <3>5 DEF PodInv, PairInv
    <3> QED
      BY <3>4, <3>5
  <2> QED
    BY <2>3, <2>4, <2>5
<1>2. ASSUME NEW x \in Keys, Remove(x) PROVE PodInv(p, k)'
  <2>1. UNCHANGED <<knownPods, toNotify, query, view, podLabel, selectorCache, pluginsCache>>
    BY <1>2 DEF Remove
  <2>2. k \in DOMAIN objects' =>
          k \in DOMAIN objects /\ objects'[k].spec.selector = objects[k].spec.selector
    BY <1>0, <1>2, RemoveAt DEF SameAt
  <2> QED
    BY <1>a, <2>1, <2>2, PodSame
<1>3. ASSUME NEW x \in Keys, ListerSync(x) PROVE PodInv(p, k)'
  BY <1>3, <1>b DEF ListerSync
<1>4. ASSUME NEW x \in Keys, Reconcile(x) PROVE PodInv(p, k)'
  <2>1. knownPods' = knownPods /\ toNotify \subseteq toNotify'
    BY <1>4 DEF Reconcile, ReconcileDeleted, ReconcileSkipped, ReconcileInvalid,
                ReconcileChanged, SendPluginsConfigs
  <2> QED
    BY <1>0, <1>4, <1>a, <2>1, ReconcilePair
<1>5. ASSUME NEW q \in Pods, AddPod(q) PROVE PodInv(p, k)'
  BY <1>5, <1>b DEF AddPod, SendPluginsConfigs
<1>6. ASSUME NEW q \in Pods, NEW l \in Labels, UpdatePod(q, l) PROVE PodInv(p, k)'
  <2>1. /\ UNCHANGED <<knownPods, query, view, objects, selectorCache, pluginsCache>>
        /\ toNotify \subseteq toNotify'
        /\ podLabel' = [podLabel EXCEPT ![q] = l]
    BY <1>6 DEF UpdatePod, SendPluginsConfigs
  <2>2. podLabel'[p] = podLabel[p]
    <3>1. CASE p = q
      <4>1. StringLess(Digits(podVersion[p]), Digits(lastVersion'))
        BY <1>6, <3>1, PodVersionGrows
      <4>2. podLabel[p] # l => p \in toNotify'
        BY <1>0, <1>6, <3>1, <4>1 DEF UpdatePod, SendPluginsConfigs, LabelsEqual
      <4> QED
        BY <1>0, <2>1, <3>1, <4>2 DEF Types
    <3>2. CASE p # q
      BY <1>0, <2>1, <3>2 DEF Types
    <3> QED
      BY <3>1, <3>2
  <2> QED
    BY <1>b, <2>1, <2>2
<1>7. ASSUME NEW q \in Pods, StartQuery(q) PROVE PodInv(p, k)'
  <2>1. CASE p = q
    BY <1>7, <2>1, StartedMatch
  <2>2. CASE p # q
    <3>1. /\ UNCHANGED <<knownPods, objects, pluginsCache, selectorCache, podLabel, view>>
          /\ toNotify' = toNotify \ {q}
      BY <1>7 DEF StartQuery
    <3>2. DOMAIN query' = DOMAIN query \cup {q} /\ \A r \in DOMAIN query : query'[r] = query[r]
      BY <1>7, StartedQuery
    <3> QED
      BY <1>b, <2>2, <3>1, <3>2
  <2> QED
    BY <2>1, <2>2
<1>8. ASSUME NEW q \in Pods, NEW x \in Keys, LookUp(q, x) PROVE PodInv(p, k)'
  <2>1. /\ UNCHANGED <<knownPods, toNotify, objects, pluginsCache, selectorCache, podLabel, view>>
        /\ q \in DOMAIN query
    BY <1>8 DEF LookUp
  <2>2. PodInv(p, k)
    BY <1>a, <2>1
  <2>3. CASE p # q
    <3>1. DOMAIN query' = DOMAIN query /\ \A r \in DOMAIN query \ {q} : query'[r] = query[r]
      BY <1>8 DEF LookUp
    <3> QED
      BY <1>b, <2>1, <2>3, <3>1
  <2>4. CASE p = q /\ x \in DOMAIN selectorCache
    <3>1. query' = [query EXCEPT ![p] = Looked(query[p], x, selectorCache'[x])]
      BY <1>8, <2>1, <2>4 DEF LookUp
    <3>2. MatchInv(p, k)
      BY <2>1, <2>2, <2>4 DEF PodInv
    <3> QED
      BY <2>1, <2>4, <3>1, <3>2, LookedMatch
  <2>5. CASE p = q /\ x \notin DOMAIN selectorCache
    <3>1. /\ DOMAIN query' = DOMAIN query
          /\ query'[p] = [query[p] EXCEPT !.missed = {x}]
      BY <1>8, <2>1, <2>5 DEF LookUp
    <3>2. /\ query'[p].label = query[p].label /\ query'[p].matched = query[p].matched
          /\ query'[p].todo = query[p].todo
      BY <1>0, <2>1, <2>5, <3>1 DEF Types, QueryOK
    <3> QED
      BY <2>1, <2>2, <2>5, <3>1, <3>2 DEF PodInv, MatchInv
  <2> QED
    BY <2>3, <2>4, <2>5
<1>9. ASSUME NEW q \in Pods, NEW x \in Keys, FillSelector(q, x) PROVE PodInv(p, k)'
  <2>1. /\ UNCHANGED <<knownPods, toNotify, objects, pluginsCache, podLabel, view>>
        /\ q \in DOMAIN query
    BY <1>9 DEF FillSelector
  <2>2. PodInv(p, k)
    BY <1>a, <2>1
  <2>3. /\ DOMAIN selectorCache' = DOMAIN selectorCache \cup {x}
        /\ \A y \in DOMAIN selectorCache : selectorCache'[y] = selectorCache[y]
    BY <1>0, <1>9, FillKeeps
  <2>4. query' = [query EXCEPT ![q] = Looked(query[q], x, selectorCache'[x])]
    BY <1>9, FilledCache DEF FillSelector
  <2>5. CASE p # q
    <3>1. DOMAIN query' = DOMAIN query /\ \A r \in DOMAIN query \ {q} : query'[r] = query[r]
      BY <2>4
    <3> QED
      BY <2>1, <2>2, <2>3, <2>5, <3>1, PodSame
  <2>6. CASE p = q
    <3>1. MatchInv(p, k)
      BY <2>1, <2>2, <2>6 DEF PodInv
    <3> QED
      BY <2>1, <2>3, <2>4, <2>6, <3>1, LookedMatch
  <2> QED
    BY <2>5, <2>6
<1>10. ASSUME NEW q \in Pods, Send(q) PROVE PodInv(p, k)'
  <2>1. /\ UNCHANGED <<knownPods, toNotify, objects, selectorCache, pluginsCache, podLabel>>
        /\ q \in DOMAIN query /\ query' = Without(query, q)
        /\ view' = [view EXCEPT ![q] = PodPluginConfigs(q)]
    BY <1>10 DEF Send
  <2>2. PodInv(p, k)
    BY <1>a, <2>1
  <2>3. CASE p = q
    <3>1. MatchInv(p, k)
      BY <2>1, <2>2, <2>3 DEF PodInv
    <3> QED
      BY <1>10, <2>3, <3>1, SentPair
  <2>4. CASE p # q
    <3>1. view'[p] = view[p]
      BY <1>0, <2>1, <2>4
    <3>2. (p \in DOMAIN query' <=> p \in DOMAIN query) /\ (p \in DOMAIN query => query'[p] = query[p])
      BY <2>1, <2>4 DEF Without
    <3> QED
      BY <1>b, <2>1, <3>1, <3>2
  <2> QED
    BY <2>3, <2>4
<1>11. ASSUME NEW q \in Pods, PodNotFound(q) \/ \E x \in Keys : FillFails(q, x)
       PROVE  PodInv(p, k)'
  BY <1>0, <1>11, NoStreamEnds
<1>12. CASE UNCHANGED vars
  BY <1>12, <1>b DEF vars
<1> QED
  BY <1>1, <1>2, <1>3, <1>4, <1>5, <1>6, <1>7, <1>8, <1>9, <1>10, <1>11, <1>12 DEF Next

\* So every step keeps it, or is an anomaly.
LEMMA ViewNext == CachesInv /\ ListerInv /\ ViewInv /\ [Next]_vars => ViewInv'
<1> SUFFICES ASSUME CachesInv, ListerInv, ViewInv, [Next]_vars, anomalies' = {},
                    NEW p \in knownPods', p \notin toNotify', NEW k \in Keys
             PROVE  PodInv(p, k)'
  BY DEF ViewInv
<1>1. anomalies = {}
  BY StepVersions DEF CachesInv, VersionsFrom
<1>2. streams = Pods /\ DOMAIN query \subseteq knownPods /\ \A x \in Keys : KeyInv(x)
  BY <1>1 DEF ListerInv
<1> QED
  BY <1>1, <1>2, PodNext

\* When all is settled, what was sent is what is expected.
LEMMA ViewSettled == CachesInv /\ ListerInv /\ ViewInv => PodsUpToDate
<1> SUFFICES ASSUME CachesInv, ListerInv, ViewInv, anomalies = {}, Settled, NEW p \in Pods
             PROVE  p \in streams /\ Sent(p) = Expected(p)
  BY DEF PodsUpToDate
<1>1. queue = {} /\ toNotify = {} /\ DOMAIN query = {} /\ knownPods = Pods
  BY DEF Settled
<1>2. streams = Pods /\ \A k \in Keys : KeyInv(k) /\ PairInv(p, k)
  BY <1>1 DEF ListerInv, ViewInv, PodInv
<1>3. DOMAIN objects \subseteq Keys /\ DOMAIN view[p] \subseteq Keys
  BY DEF CachesInv, Types, MapOf
<1>4. ASSUME NEW k \in Current
      PROVE  /\ k \in DOMAIN pluginsCache
             /\ pluginsCache[k].plugins = objects[k].spec.plugins
             /\ selectorCache[k] = SelectorOf(objects[k].spec.selector)
  <2>1. CachesFollowObjects
    BY CachesInvFollow
  <2>2. k \in Valid
    BY <1>2, <1>3 DEF Current, Valid, KeyInv, ObjectKnown
  <2> QED
    BY <1>1, <1>2, <1>3, <2>1, <2>2
       DEF CachesFollowObjects, KeyInv, ObjectKnown, Valid, Current
<1>5. ASSUME NEW k \in DOMAIN view[p] PROVE k \in DOMAIN objects
  BY <1>1, <1>2, <1>3 DEF CachesInv, QueueInv, PairInv
<1> DEFINE matching == {k \in Current : podLabel[p] \in SelectorOf(objects[k].spec.selector)}
<1>6. DOMAIN view[p] \ (DOMAIN objects \ Current) = matching
  BY <1>2, <1>3, <1>4, <1>5 DEF PairInv, Current
<1>7. \A k \in matching : view[p][k] = objects[k].spec.plugins
  BY <1>2, <1>3, <1>4, <1>6 DEF PairInv, Current
<1>8. Sent(p) = Expected(p)
  BY <1>6, <1>7 DEF Sent, Expected
<1> QED
  BY <1>2, <1>8

\* Whatever was applied, deleted or relabelled, and however this falls between
\* reconciling, listing, the look-ups of a stream, its writes to the selector
\* cache and sending, when all is settled every pod has kept its stream and was
\* sent exactly the plugins of the objects that select it, for any number of
\* objects and pods, unless one of the anomalies occurred.
THEOREM PodsGetTheirPlugins == Spec => []PodsUpToDate
<1> DEFINE Inv == CachesInv /\ ListerInv /\ ViewInv
<1>1. Init => Inv
  BY CachesInvInit, ListerInit, ViewInit
<1>2. Inv /\ [Next]_vars => Inv'
  BY CachesInvNext, ListerNext, ViewNext
<1>3. Inv => PodsUpToDate
  BY ViewSettled
<1> QED
  BY <1>1, <1>2, <1>3, PTL DEF Spec

=============================================================================
