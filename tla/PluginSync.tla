----------------------------- MODULE PluginSync -----------------------------
(***************************************************************************)
(* How the plugin configurations of the controller get into the routes of  *)
(* a sidecar.  The amesh provisioner starts a goroutine for each response  *)
(* it receives (updatePlugins); that goroutine replaces the configuration  *)
(* under configLock and, still holding the lock, announces it on an        *)
(* unbuffered channel.  One goroutine of the xDS provisioner takes the     *)
(* announcements and patches all routes under routesLock, while the        *)
(* translation of a route response patches the new routes one by one and   *)
(* takes routesLock only to put them in place.  Either sends the events of *)
(* the difference it has made; they are stored here at once and in order,  *)
(* what happens otherwise is the subject of RouteSync.                     *)
(*                                                                         *)
(*   controller --pending--> updatePlugins --evChan--> UpdateRoutesPlugin  *)
(*                              config  <--GetPlugins--'      |            *)
(*   istiod ----> translate (RDS) --GetPlugins--> config    routes, stored *)
(***************************************************************************)
EXTENDS Naturals, Sequences, SequencesExt, ManifestDiff, ResourceVersions

CONSTANTS
  Routes,         \* route ids
  ConfigNames,    \* names of AmeshPluginConfig objects
  PluginNames,    \* names of plugins
  Versions,       \* resource versions: decimal digits, most significant first
  Responses,      \* the responses the controller may send
  MeshRoutes,     \* the route responses of istiod: route -> names of the
                  \*   plugins translated from the mesh (filters, prometheus)
  Unparsable,     \* plugin configurations that are not JSON
  NoRoute,        \* what the dictionary has for a route that is not there
  MaxPending      \* bound on the responses received and not yet applied

ASSUME MaxPendingAssumption == MaxPending \in Nat \ {0}
ASSUME VersionsAssumption == Versions \subseteq Seq(0..9)

\* A configuration of a plugin, ApisixPlugin.
PluginConf == [type : STRING, conf : STRING]

\* A pod gets the objects of its namespace, where names are unique.
ASSUME ResponsesAssumption ==
  \A resp \in Responses :
    /\ resp \in Seq({resp[i] : i \in DOMAIN resp})
    /\ \A i \in DOMAIN resp : LET c == resp[i] IN
         /\ c.name \in ConfigNames
         /\ c.version \in Versions
         /\ DOMAIN c.plugins \subseteq PluginNames
         /\ \A n \in DOMAIN c.plugins : c.plugins[n] \in PluginConf
    /\ \A i, j \in DOMAIN resp : resp[i].name = resp[j].name => i = j

ASSUME MeshRoutesAssumption == MeshRoutes \subseteq PartialFn(Routes, SUBSET PluginNames)

\* The entries of a route: plugins, configured or of the mesh, and the external
\* plugins of a phase.
RouteEntries == PluginNames \cup {"ext-plugin-pre-req", "ext-plugin-post-req"}
EntryConf == {"mesh"} \cup STRING \cup PartialFn(PluginNames, STRING)

ASSUME NoRouteAssumption ==
  \A names \in SUBSET RouteEntries : NoRoute \notin [names -> EntryConf]

VARIABLES
  sent,            \* the response last sent
  sentRevision,    \* config name -> the last version sent, << >> for none
  pending,         \* responses in the hands of updatePlugins goroutines
  configLocked,    \* one of them holds configLock and is sending on evChan
  config,          \* p.config: plugin name -> [type, conf]
  configRevision,  \* p.configRevision: config name -> version
  patcher,         \* the goroutine that takes events: idle, woken or patch
  toPatch,         \* the routes it has still to patch, under routesLock
  patched,         \* the patched copies of the others
  rdsing,          \* an RDS response is being translated
  translating,     \* its routes
  newRoutes,       \* the routes translated so far
  routes,          \* p.routes: route -> plugin name -> configuration
  stored,          \* route -> plugin name -> configuration, in the dictionary
  mesh,            \* the route response last put in place (history variable)
  anomalies        \* what has happened that the code does not stand (history
                   \*   variable), see Anomalies

ameshVars == <<configLocked, config, configRevision>>
patchVars == <<patcher, toPatch, patched>>
routeVars == <<routes, stored>>
rdsVars   == <<rdsing, translating, newRoutes>>
vars == <<sent, sentRevision, pending, ameshVars, patchVars, rdsVars, routeVars,
          mesh, anomalies>>

-----------------------------------------------------------------------------
(***************************************************************************)
(* updatePlugins and patchAmeshPlugins                                     *)
(***************************************************************************)

\* The function f, overridden by g.
Override(f, g) ==
  [k \in DOMAIN f \cup DOMAIN g |-> IF k \in DOMAIN g THEN g[k] ELSE f[k]]

\* The plugins of a configuration that can be unmarshalled.
Parsed(plugins) ==
  [n \in {k \in DOMAIN plugins : plugins[k].conf \notin Unparsable} |-> plugins[n]]

\* The configurations of a response that are not skipped, by their places.
Newer(resp, revision) ==
  {i \in DOMAIN resp : resp[i].name \in DOMAIN revision
                         => StringLess(revision[resp[i].name], resp[i].version)}

\* A later configuration overrides an earlier one.
Latest(places) == CHOOSE i \in places : \A j \in places : j <= i

\* The plugins of the configurations at the given places of a response.
PluginsOf(resp, places) ==
  LET with(n) == {i \in places : n \in DOMAIN Parsed(resp[i].plugins)}
  IN  [n \in {k \in PluginNames : with(k) # {}} |-> resp[Latest(with(n))].plugins[n]]

RevisionsOf(resp, places) ==
  [n \in {resp[i].name : i \in places} |->
     resp[Latest({i \in places : resp[i].name = n})].version]

ExtPluginKey == [type \in {"pre-req", "post-req"} |->
                   IF type = "pre-req" THEN "ext-plugin-pre-req"
                   ELSE "ext-plugin-post-req"]

\* The plugins of config with the given type.
OfType(plugins, type) ==
  [n \in {k \in DOMAIN plugins : plugins[k].type = type} |-> plugins[n].conf]

\* The entries that the external plugins are collected under.
ExtPlugins(plugins) ==
  [key \in {ExtPluginKey[t] : t \in {u \in DOMAIN ExtPluginKey :
                                       DOMAIN OfType(plugins, u) # {}}} |->
     OfType(plugins, CHOOSE t \in DOMAIN ExtPluginKey : ExtPluginKey[t] = key)]

\* patchAmeshPlugins: drop what is not configured, then set what is.
PatchAmeshPlugins(old, plugins) ==
  LET kept == [n \in DOMAIN old \cap DOMAIN plugins |-> old[n]]
  IN  Override(Override(kept, OfType(plugins, "")), ExtPlugins(plugins))

\* What RDS makes of a route: patched first, then the plugins of the mesh.
TranslateRoute(names, plugins) ==
  Override(PatchAmeshPlugins(<< >>, plugins), [n \in names |-> "mesh"])

-----------------------------------------------------------------------------
(***************************************************************************)
(* The controller's stream (external, see PluginStreams)                   *)
(***************************************************************************)

AtRest == pending = << >> /\ ~configLocked /\ patcher = "idle"

\* burst: a response was sent before the one before it was worked off;
\* overtaken: an updatePlugins goroutine was overtaken by a later one;
\* notNewer: a configuration was sent with a version that as a string is not
\*   above the one before it, be it unchanged or 10 after 9;
\* race: the plugins changed while the routes in place were being translated.
Anomalies == {"burst", "overtaken", "notNewer", "race"}

\* An object sent again has the version it had or a higher one.
MaySend(resp) ==
  \A i \in DOMAIN resp : LET c == resp[i] IN
    sentRevision[c.name] = c.version \/ Older(sentRevision[c.name], c.version)

AllNewer(resp) ==
  \A i \in DOMAIN resp : StringLess(sentRevision[resp[i].name], resp[i].version)

SendResponse(resp) ==
  /\ Len(pending) < MaxPending
  /\ MaySend(resp)
  /\ sent' = resp
  /\ sentRevision' = Override(sentRevision, RevisionsOf(resp, DOMAIN resp))
  /\ pending' = Append(pending, resp)
  /\ anomalies' = anomalies \cup (IF AtRest THEN {} ELSE {"burst"})
                            \cup (IF AllNewer(resp) THEN {} ELSE {"notNewer"})
                            \cup (IF rdsing THEN {"race"} ELSE {})
  /\ UNCHANGED <<ameshVars, patchVars, rdsVars, mesh, routeVars>>

-----------------------------------------------------------------------------
(***************************************************************************)
(* The amesh provisioner                                                   *)
(***************************************************************************)

\* Mutant: the plugins are added to the ones there are.
UpdatePluginsAdding(i) ==
  /\ ~configLocked
  /\ LET newer == Newer(pending[i], configRevision) IN
       /\ config' = Override(config, PluginsOf(pending[i], newer))
       /\ configRevision' = RevisionsOf(pending[i], newer)
  /\ configLocked' = TRUE
  /\ pending' = RemoveAt(pending, i)
  /\ anomalies' = anomalies \cup (IF i = 1 THEN {} ELSE {"overtaken"})
  /\ UNCHANGED <<sent, sentRevision, patchVars, rdsVars, mesh, routeVars>>

\* updatePlugins up to the send on evChan, with configLock taken and kept.
UpdatePlugins(i) ==
  /\ ~configLocked
  /\ LET newer == Newer(pending[i], configRevision) IN
       /\ config' = PluginsOf(pending[i], newer)
       /\ configRevision' = RevisionsOf(pending[i], newer)
  /\ configLocked' = TRUE
  /\ pending' = RemoveAt(pending, i)
  /\ anomalies' = anomalies \cup (IF i = 1 THEN {} ELSE {"overtaken"})
  /\ UNCHANGED <<sent, sentRevision, patchVars, rdsVars, mesh, routeVars>>

\* The event is taken from evChan, and updatePlugins returns.
Notify ==
  /\ configLocked
  /\ patcher = "idle"
  /\ patcher' = "woken"
  /\ configLocked' = FALSE
  /\ UNCHANGED <<sent, sentRevision, pending, config, configRevision, toPatch,
                 patched, rdsVars, mesh, routeVars, anomalies>>

-----------------------------------------------------------------------------
(***************************************************************************)
(* The xDS provisioner                                                     *)
(***************************************************************************)

RoutesLocked == patcher = "patch"

\* The routes are replaced and the events of the difference stored.
Replace(new) ==
  /\ routes' = new
  /\ stored' = StoreEvents(stored, GenerateIncrementalEvents(routes, new, NoRoute))

\* updateRoutesPluginManifest takes routesLock.
LockRoutes ==
  /\ patcher = "woken"
  /\ patcher' = "patch"
  /\ toPatch' = DOMAIN routes
  /\ UNCHANGED <<sent, sentRevision, pending, ameshVars, patched, rdsVars, mesh,
                 routeVars, anomalies>>

\* GetPlugins can take configLock.
MayGetPlugins == ~configLocked

\* Mutant: the route is patched in place, and with it the old manifest.
PatchRouteInPlace(r) ==
  /\ RoutesLocked /\ r \in toPatch
  /\ MayGetPlugins
  /\ routes' = [routes EXCEPT ![r] = PatchAmeshPlugins(@, config)]
  /\ patched' = Override(patched, [x \in {r} |-> routes'[r]])
  /\ toPatch' = toPatch \ {r}
  /\ UNCHANGED <<sent, sentRevision, pending, ameshVars, patcher, rdsVars, mesh,
                 stored, anomalies>>

\* A copy of one route is patched with what GetPlugins returns, which needs
\* configLock.
PatchRoute(r) ==
  /\ RoutesLocked /\ r \in toPatch
  /\ MayGetPlugins
  /\ patched' = Override(patched, [x \in {r} |-> PatchAmeshPlugins(routes[r], config)])
  /\ toPatch' = toPatch \ {r}
  /\ UNCHANGED <<sent, sentRevision, pending, ameshVars, patcher, rdsVars, mesh,
                 routeVars, anomalies>>

\* Mutant: the lock is kept when there was nothing to patch.
UnlockRoutesIfAny ==
  /\ RoutesLocked /\ toPatch = {} /\ DOMAIN routes # {}
  /\ Replace(patched)
  /\ patched' = << >>
  /\ patcher' = "idle"
  /\ UNCHANGED <<sent, sentRevision, pending, ameshVars, toPatch, rdsVars, mesh,
                 anomalies>>

\* All routes are patched; the copies take their place and their events are
\* sent, the next event is awaited.
UnlockRoutes ==
  /\ RoutesLocked /\ toPatch = {}
  /\ Replace(patched)
  /\ patched' = << >>
  /\ patcher' = "idle"
  /\ UNCHANGED <<sent, sentRevision, pending, ameshVars, toPatch, rdsVars, mesh,
                 anomalies>>

\* translate begins with a route response.
ReceiveRDS(m) ==
  /\ ~rdsing
  /\ rdsing' = TRUE
  /\ translating' = m
  /\ anomalies' = IF AtRest THEN anomalies \ {"race"} ELSE anomalies \cup {"race"}
  /\ UNCHANGED <<sent, sentRevision, pending, ameshVars, patchVars, newRoutes,
                 mesh, routeVars>>

\* One route is translated, with the plugins GetPlugins returns by then.
Translate(r) ==
  /\ r \in DOMAIN translating \ DOMAIN newRoutes
  /\ MayGetPlugins
  /\ newRoutes' = Override(newRoutes,
                    [x \in {r} |-> TranslateRoute(translating[r], config)])
  /\ UNCHANGED <<sent, sentRevision, pending, ameshVars, patchVars, rdsing,
                 translating, mesh, routeVars, anomalies>>

\* Mutant: the routes of the response are added to the ones there are.
ReplaceRoutesAdding ==
  /\ rdsing /\ DOMAIN newRoutes = DOMAIN translating
  /\ ~RoutesLocked
  /\ Replace(Override(routes, newRoutes))
  /\ mesh' = translating
  /\ rdsing' = FALSE
  /\ translating' = << >>
  /\ newRoutes' = << >>
  /\ UNCHANGED <<sent, sentRevision, pending, ameshVars, patchVars, anomalies>>

\* With all of them translated, p.routes is replaced under routesLock.  The
\* static route configurations add nothing: their translation is dropped.
ReplaceRoutes ==
  /\ rdsing /\ DOMAIN newRoutes = DOMAIN translating
  /\ ~RoutesLocked
  /\ Replace(newRoutes)
  /\ mesh' = translating
  /\ rdsing' = FALSE
  /\ translating' = << >>
  /\ newRoutes' = << >>
  /\ UNCHANGED <<sent, sentRevision, pending, ameshVars, patchVars, anomalies>>

-----------------------------------------------------------------------------

Init ==
  /\ sent = << >>
  /\ sentRevision = [n \in ConfigNames |-> << >>]
  /\ pending = << >>
  /\ configLocked = FALSE
  /\ config = << >>
  /\ configRevision = << >>
  /\ patcher = "idle"
  /\ toPatch = {}
  /\ patched = << >>
  /\ rdsing = FALSE
  /\ translating = << >>
  /\ newRoutes = << >>
  /\ mesh = << >>
  /\ routes = << >>
  /\ stored = [r \in Routes |-> NoRoute]
  /\ anomalies = {}

Patcher == LockRoutes \/ (\E r \in Routes : PatchRoute(r)) \/ UnlockRoutes

Translator == (\E r \in Routes : Translate(r)) \/ ReplaceRoutes

Next ==
  \/ \E resp \in Responses : SendResponse(resp)
  \/ \E i \in 1..Len(pending) : UpdatePlugins(i)
  \/ Notify
  \/ Patcher
  \/ \E m \in MeshRoutes : ReceiveRDS(m)
  \/ Translator

Spec == Init /\ [][Next]_vars

\* Every goroutine that can go on does.
Fairness ==
  /\ WF_vars(pending # << >> /\ UpdatePlugins(1))
  /\ WF_vars(Notify)
  /\ WF_vars(Patcher)
  /\ WF_vars(Translator)

FairSpec == Spec /\ Fairness

-----------------------------------------------------------------------------
(***************************************************************************)
(* Properties                                                              *)
(***************************************************************************)

\* Types: revisions are versions, the patcher works through routes there are.
TypeOK ==
  /\ sent \in Responses \cup {<< >>}
  /\ sentRevision \in [ConfigNames -> Versions \cup {<< >>}]
  /\ pending \in Seq(Responses) /\ Len(pending) <= MaxPending
  /\ configLocked \in BOOLEAN
  /\ DOMAIN config \subseteq PluginNames
  /\ \A n \in DOMAIN config : config[n] \in PluginConf
  /\ configRevision \in PartialFn(ConfigNames, Versions)
  /\ patcher \in {"idle", "woken", "patch"}
  /\ toPatch \subseteq DOMAIN routes
  /\ RoutesLocked => DOMAIN patched = DOMAIN routes \ toPatch
  /\ rdsing \in BOOLEAN
  /\ DOMAIN newRoutes \subseteq DOMAIN translating
  /\ DOMAIN translating \subseteq Routes
  /\ DOMAIN routes = DOMAIN mesh
  /\ DOMAIN stored = Routes
  /\ anomalies \subseteq Anomalies

\* When all responses are worked off, the sidecar has exactly the plugins of
\* the last response, none skipped and none left over from an earlier one, as
\* long as no updatePlugins was overtaken and every version was higher as a
\* string than the one before it.
PluginsApplied ==
  /\ anomalies \cap {"overtaken", "notNewer"} = {}
  /\ pending = << >> /\ ~configLocked
  => config = PluginsOf(sent, DOMAIN sent)

\* The plugins for external runners.  A route that had an entry of such a name,
\* from when the type of the plugin was another, keeps it.
External == {n \in DOMAIN config : config[n].type # ""}

Without(plugins, names) == [n \in DOMAIN plugins \ names |-> plugins[n]]

\* When all is at rest, the dictionary has the routes of the last route response
\* and each, apart from the mesh's plugins and such leftovers, with exactly the
\* configured plugins, whether it was translated before or after they came, and
\* whatever came in between, unless they changed while the routes in place were
\* translated.
RoutesPatched ==
  AtRest /\ ~rdsing /\ "race" \notin anomalies =>
    \A r \in Routes :
      /\ r \in DOMAIN mesh <=> stored[r] # NoRoute
      /\ r \in DOMAIN mesh =>
           Without(stored[r], mesh[r] \cup External)
             = Without(PatchAmeshPlugins(<< >>, config), mesh[r] \cup External)

\* The goroutine that holds configLock waits for the patcher to take its event,
\* so the patcher must not be waiting for configLock in GetPlugins.
NoCircularWait == ~(configLocked /\ RoutesLocked /\ toPatch # {})

\* Every response is worked off, its event taken and the routes patched:
\* updatePlugins, the patcher and the translation do not block each other as
\* long as no response comes before the one before it is worked off.
UpdatesArrive == []("burst" \notin anomalies) => (~AtRest ~> AtRest)

=============================================================================
