-------------------------- MODULE PluginSyncProofs --------------------------
(***************************************************************************)
(* Proofs about PluginSync: its types, that the plugins of the last        *)
(* response are the ones in force, and that the routes have them.          *)
(***************************************************************************)
EXTENDS PluginSync, SequenceTheorems, WellFoundedInduction, TLAPS

-----------------------------------------------------------------------------
(***************************************************************************)
(* Inductive invariants                                                    *)
(***************************************************************************)

RoutePlugins == PartialFn(RouteEntries, EntryConf)

\* The types, with those of the plugins in routes, of which TypeOK says less.
\* What the patcher and the translation have gathered is empty when neither is
\* at work.
Types ==
  /\ sent \in Responses \cup {<< >>}
  /\ sentRevision \in [ConfigNames -> Versions \cup {<< >>}]
  /\ pending \in Seq(Responses) /\ Len(pending) <= MaxPending
  /\ configLocked \in BOOLEAN
  /\ config \in PartialFn(PluginNames, PluginConf)
  /\ configRevision \in PartialFn(ConfigNames, Versions)
  /\ patcher \in {"idle", "woken", "patch"}
  /\ toPatch \subseteq DOMAIN routes
  /\ patched \in PartialFn(Routes, RoutePlugins)
  /\ IF RoutesLocked THEN DOMAIN patched = DOMAIN routes \ toPatch
                     ELSE toPatch = {} /\ DOMAIN patched = {}
  /\ rdsing \in BOOLEAN
  /\ translating \in PartialFn(Routes, SUBSET PluginNames)
  /\ newRoutes \in PartialFn(Routes, RoutePlugins)
  /\ DOMAIN newRoutes \subseteq DOMAIN translating
  /\ ~rdsing => DOMAIN translating = {}
  /\ mesh \in PartialFn(Routes, SUBSET PluginNames)
  /\ routes \in PartialFn(Routes, RoutePlugins)
  /\ DOMAIN routes = DOMAIN mesh
  /\ DOMAIN stored = Routes
  /\ anomalies \subseteq Anomalies

\* Version v is w or below it as a string.
UpTo(v, w) == v = w \/ StringLess(v, w)

\* The versions of a configuration rise, as strings, from the one in force over
\* those in the order of pending to the last one sent.
RevisionInv ==
  /\ \A n \in DOMAIN configRevision :
       /\ UpTo(configRevision[n], sentRevision[n])
       /\ \A i \in DOMAIN pending : \A k \in DOMAIN pending[i] :
            pending[i][k].name = n => StringLess(configRevision[n], pending[i][k].version)
  /\ \A i \in DOMAIN pending : \A k \in DOMAIN pending[i] :
       LET c == pending[i][k] IN
       /\ UpTo(c.version, sentRevision[c.name])
       /\ \A j \in (i + 1)..Len(pending) : \A l \in DOMAIN pending[j] :
            pending[j][l].name = c.name => StringLess(c.version, pending[j][l].version)

\* The last response is the last of those not applied, or it is applied.
LastInv ==
  IF pending = << >> THEN config = PluginsOf(sent, DOMAIN sent)
                     ELSE pending[Len(pending)] = sent

AppliedInv ==
  anomalies \cap {"overtaken", "notNewer"} = {} => RevisionInv /\ LastInv

\* The dictionary has the routes in place.
StoredInv ==
  \A r \in Routes : stored[r] = IF r \in DOMAIN routes THEN routes[r] ELSE NoRoute

\* These plugins of a route are the configured ones, apart from the mesh's.
Right(plugins, names) ==
  Without(plugins, names \cup External)
    = Without(PatchAmeshPlugins(<< >>, config), names \cup External)

\* Unless an event waits to be taken or to be acted on, the routes are right, or
\* the copies made of them so far; with no race, nothing is under way while
\* routes are translated.
RightInv ==
  "race" \notin anomalies =>
    /\ rdsing => AtRest /\ \A r \in DOMAIN newRoutes : Right(newRoutes[r], translating[r])
    /\ ~rdsing /\ ~configLocked =>
         /\ patcher = "idle" => \A r \in DOMAIN routes : Right(routes[r], mesh[r])
         /\ patcher = "patch" => \A r \in DOMAIN patched : Right(patched[r], mesh[r])

IInv == Types /\ AppliedInv /\ StoredInv /\ RightInv

-----------------------------------------------------------------------------
(***************************************************************************)
(* Operators                                                               *)
(***************************************************************************)

LEMMA InPartialFn ==
  ASSUME NEW D, NEW R, NEW f
  PROVE  f \in PartialFn(D, R) <=> f \in [DOMAIN f -> R] /\ DOMAIN f \subseteq D
BY DEF PartialFn

LEMMA EmptyFn == /\ DOMAIN << >> = {}
                 /\ \A D, R : << >> \in PartialFn(D, R)
<1>1. DOMAIN << >> = {}
  OBVIOUS
<1>2. \A R : << >> \in [{} -> R]
  OBVIOUS
<1> QED
  BY <1>1, <1>2 DEF PartialFn

LEMMA OverrideType ==
  ASSUME NEW D, NEW R, NEW f \in PartialFn(D, R), NEW g \in PartialFn(D, R)
  PROVE  Override(f, g) \in PartialFn(D, R)
<1>1. f \in [DOMAIN f -> R] /\ g \in [DOMAIN g -> R]
      /\ DOMAIN f \subseteq D /\ DOMAIN g \subseteq D
  BY InPartialFn
<1>2. Override(f, g) \in [DOMAIN f \cup DOMAIN g -> R]
  BY <1>1 DEF Override
<1> QED
  BY <1>1, <1>2 DEF PartialFn

LEMMA OverrideOneType ==
  ASSUME NEW D, NEW R, NEW f \in PartialFn(D, R), NEW r \in D, NEW e \in R
  PROVE  Override(f, [x \in {r} |-> e]) \in PartialFn(D, R)
<1>1. [x \in {r} |-> e] \in [{r} -> R] /\ {r} \in SUBSET D
  OBVIOUS
<1>2. [x \in {r} |-> e] \in PartialFn(D, R)
  BY <1>1 DEF PartialFn
<1> QED
  BY <1>2, OverrideType

\* A set of places has a latest one.
LEMMA LatestIn ==
  ASSUME NEW n \in Nat, NEW places \in SUBSET (1..n), places # {}
  PROVE  /\ Latest(places) \in places
         /\ \A j \in places : j <= Latest(places)
<1> DEFINE T == {m \in Nat : n - m \in places}
<1>1. T \subseteq Nat
  OBVIOUS
<1>2. T # {}
  <2>1. PICK i \in places : TRUE
    OBVIOUS
  <2>2. n - i \in Nat /\ n - (n - i) = i
    BY <2>1
  <2>3. n - i \in T
    BY <2>1, <2>2
  <2> QED
    BY <2>3
<1>3. PICK m \in T : \A k \in T : ~(<<k, m>> \in OpToRel(<, Nat))
  BY <1>1, <1>2, NatLessThanWellFounded, WFMin
<1>4. ASSUME NEW k \in T PROVE m <= k
  <2>1. k \in Nat /\ m \in Nat
    BY <1>3
  <2>2. ~(<<k, m>> \in OpToRel(<, Nat))
    BY <1>3
  <2>3. ~(k < m)
    BY <2>1, <2>2, Zenon DEF OpToRel
  <2> QED
    BY <2>1, <2>3
<1>5. n - m \in places
  BY <1>3
<1>6. ASSUME NEW j \in places PROVE j <= n - m
  <2>1. j \in 1..n /\ m \in Nat
    BY <1>3
  <2>2. n - j \in T
    <3>1. n - j \in Nat /\ n - (n - j) = j
      BY <2>1
    <3> QED
      BY <3>1
  <2>3. m <= n - j
    BY <1>4, <2>2
  <2> QED
    BY <2>1, <2>3
<1>7. \E i \in places : \A j \in places : j <= i
  BY <1>5, <1>6
<1> QED
  BY <1>7 DEF Latest

-----------------------------------------------------------------------------
(***************************************************************************)
(* Responses                                                               *)
(***************************************************************************)

\* Responses are sequences of configurations with distinct names.
LEMMA ResponseType ==
  ASSUME NEW resp \in Responses \cup {<< >>}
  PROVE  /\ Len(resp) \in Nat /\ DOMAIN resp = 1..Len(resp)
         /\ \A i \in DOMAIN resp :
              /\ resp[i].name \in ConfigNames
              /\ resp[i].version \in Versions
              /\ DOMAIN resp[i].plugins \subseteq PluginNames
              /\ \A n \in DOMAIN resp[i].plugins : resp[i].plugins[n] \in PluginConf
         /\ \A i, j \in DOMAIN resp : resp[i].name = resp[j].name => i = j
<1>1. CASE resp = << >>
  BY <1>1
<1>2. CASE resp \in Responses
  <2>1. resp \in Seq({resp[i] : i \in DOMAIN resp})
    BY <1>2, ResponsesAssumption
  <2>2. Len(resp) \in Nat /\ DOMAIN resp = 1..Len(resp)
    BY <2>1
  <2> QED
    BY <1>2, <2>2, ResponsesAssumption, Zenon
<1> QED
  BY <1>1, <1>2

LEMMA PluginsOfType ==
  ASSUME NEW resp \in Responses \cup {<< >>}, NEW places \in SUBSET DOMAIN resp
  PROVE  PluginsOf(resp, places) \in PartialFn(PluginNames, PluginConf)
<1> DEFINE with(n) == {i \in places : n \in DOMAIN Parsed(resp[i].plugins)}
           D == {k \in PluginNames : with(k) # {}}
<1>1. ASSUME NEW n \in D PROVE resp[Latest(with(n))].plugins[n] \in PluginConf
  <2>1. Len(resp) \in Nat /\ with(n) \in SUBSET (1..Len(resp)) /\ with(n) # {}
    BY ResponseType
  <2>2. Latest(with(n)) \in with(n)
    BY <2>1, LatestIn
  <2>3. /\ Latest(with(n)) \in DOMAIN resp
        /\ n \in DOMAIN resp[Latest(with(n))].plugins
    BY <2>2 DEF Parsed
  <2> QED
    BY <2>3, ResponseType
<1>2. PluginsOf(resp, places) = [n \in D |-> resp[Latest(with(n))].plugins[n]]
  BY DEF PluginsOf
<1> HIDE DEF with
<1>3. PluginsOf(resp, places) \in [D -> PluginConf] /\ D \subseteq PluginNames
  BY <1>1, <1>2
<1> QED
  BY <1>3 DEF PartialFn

\* Each name has the version of the one configuration of that name.
LEMMA RevisionsOfResponse ==
  ASSUME NEW resp \in Responses \cup {<< >>}, NEW places \in SUBSET DOMAIN resp
  PROVE  /\ RevisionsOf(resp, places) \in PartialFn(ConfigNames, Versions)
         /\ DOMAIN RevisionsOf(resp, places) = {resp[i].name : i \in places}
         /\ \A i \in places : RevisionsOf(resp, places)[resp[i].name] = resp[i].version
<1> DEFINE D == {resp[i].name : i \in places}
           at(n) == {i \in places : resp[i].name = n}
<1>1. RevisionsOf(resp, places) = [n \in D |-> resp[Latest(at(n))].version]
  BY DEF RevisionsOf
<1>2. ASSUME NEW i \in places PROVE Latest(at(resp[i].name)) = i
  <2>1. Len(resp) \in Nat /\ at(resp[i].name) \in SUBSET (1..Len(resp))
        /\ i \in at(resp[i].name)
    BY ResponseType
  <2>2. Latest(at(resp[i].name)) \in at(resp[i].name)
    BY <2>1, LatestIn
  <2> QED
    BY <2>2, ResponseType
<1>3. \A i \in places : RevisionsOf(resp, places)[resp[i].name] = resp[i].version
  BY <1>1, <1>2
<1>4. DOMAIN RevisionsOf(resp, places) = D
  BY <1>1
<1>5. \A n \in D : RevisionsOf(resp, places)[n] \in Versions
  BY <1>3, ResponseType
<1>6. RevisionsOf(resp, places) \in [D -> Versions]
  <2> HIDE DEF D, at
  <2> QED
    BY <1>1, <1>5
<1>7. D \subseteq ConfigNames
  BY ResponseType
<1> QED
  BY <1>3, <1>4, <1>6, <1>7 DEF PartialFn

\* The order of strings is transitive.
LEMMA StringLessTransitive ==
  ASSUME NEW u \in Seq(Nat), NEW v \in Seq(Nat), NEW w \in Seq(Nat),
         StringLess(u, v), StringLess(v, w)
  PROVE  StringLess(u, w)
<1> DEFINE Least(a, b) == IF Len(a) < Len(b) THEN Len(a) ELSE Len(b)
           Prefix(a, b) == Len(a) < Len(b) /\ \A i \in 1..Len(a) : a[i] = b[i]
<1>1. \A a \in Seq(Nat), b \in Seq(Nat) :
        StringLess(a, b) <=> LessAt(a, b, Least(a, b)) \/ Prefix(a, b)
  BY DEF StringLess
<1>2. Len(u) \in Nat /\ Len(v) \in Nat /\ Len(w) \in Nat
  OBVIOUS
<1>3. /\ \A i \in 1..Len(u) : u[i] \in Nat
      /\ \A i \in 1..Len(v) : v[i] \in Nat
      /\ \A i \in 1..Len(w) : w[i] \in Nat
  OBVIOUS
<1>4. CASE LessAt(u, v, Least(u, v)) /\ LessAt(v, w, Least(v, w))
  <2>1. PICK i \in 1..Least(u, v) : u[i] < v[i] /\ \A k \in 1..(i - 1) : u[k] = v[k]
    BY <1>4 DEF LessAt
  <2>2. PICK j \in 1..Least(v, w) : v[j] < w[j] /\ \A k \in 1..(j - 1) : v[k] = w[k]
    BY <1>4 DEF LessAt
  <2>3. CASE i <= j
    <3>0. i \in 1..Len(u) /\ i \in 1..Len(v) /\ i \in 1..Len(w)
      <4>1. i \in 1..Len(u) /\ i \in 1..Len(v) /\ j \in 1..Len(w)
        BY <1>2, <2>1, <2>2
      <4> QED
        BY <1>2, <2>3, <4>1
    <3>1. i \in 1..Least(u, w)
      BY <1>2, <3>0
    <3>2. u[i] < w[i]
      <4>1. u[i] \in Nat /\ v[i] \in Nat /\ w[i] \in Nat
        BY <1>3, <3>0
      <4>2. v[i] < w[i] \/ v[i] = w[i]
        BY <1>2, <2>2, <2>3, <3>0
      <4> QED
        BY <2>1, <4>1, <4>2
    <3>3. \A k \in 1..(i - 1) : u[k] = w[k]
      BY <1>2, <2>1, <2>2, <2>3
    <3>4. LessAt(u, w, Least(u, w))
      BY <3>1, <3>2, <3>3 DEF LessAt
    <3> QED
      BY <1>1, <3>4
  <2>4. CASE j < i
    <3>1. j \in 1..Least(u, w)
      BY <1>2, <2>1, <2>2, <2>4
    <3>2. u[j] < w[j]
      BY <1>2, <1>3, <2>1, <2>2, <2>4
    <3>3. \A k \in 1..(j - 1) : u[k] = w[k]
      BY <1>2, <2>1, <2>2, <2>4
    <3>4. LessAt(u, w, Least(u, w))
      BY <3>1, <3>2, <3>3 DEF LessAt
    <3> QED
      BY <1>1, <3>4
  <2> QED
    BY <1>2, <2>1, <2>2, <2>3, <2>4
<1>5. CASE LessAt(u, v, Least(u, v)) /\ Prefix(v, w)
  <2>1. PICK i \in 1..Least(u, v) : u[i] < v[i] /\ \A k \in 1..(i - 1) : u[k] = v[k]
    BY <1>5 DEF LessAt
  <2>2. i \in 1..Least(u, w) /\ u[i] < w[i] /\ \A k \in 1..(i - 1) : u[k] = w[k]
    BY <1>2, <1>3, <1>5, <2>1
  <2>3. LessAt(u, w, Least(u, w))
    BY <2>2 DEF LessAt
  <2> QED
    BY <1>1, <2>3
<1>6. CASE Prefix(u, v) /\ LessAt(v, w, Least(v, w))
  <2>1. PICK j \in 1..Least(v, w) : v[j] < w[j] /\ \A k \in 1..(j - 1) : v[k] = w[k]
    BY <1>6 DEF LessAt
  <2>2. CASE j <= Len(u)
    <3>1. j \in 1..Least(u, w) /\ u[j] < w[j] /\ \A k \in 1..(j - 1) : u[k] = w[k]
      BY <1>2, <1>3, <1>6, <2>1, <2>2
    <3>2. LessAt(u, w, Least(u, w))
      BY <3>1 DEF LessAt
    <3> QED
      BY <1>1, <3>2
  <2>3. CASE Len(u) < j
    <3>1. Prefix(u, w)
      BY <1>2, <1>6, <2>1, <2>3
    <3> QED
      BY <1>1, <3>1
  <2> QED
    BY <1>2, <2>1, <2>2, <2>3
<1>7. CASE Prefix(u, v) /\ Prefix(v, w)
  <2>1. Prefix(u, w)
    BY <1>2, <1>7
  <2> QED
    BY <1>1, <2>1
<1> QED
  BY <1>1, <1>4, <1>5, <1>6, <1>7

-----------------------------------------------------------------------------
(***************************************************************************)
(* The plugins of a route                                                  *)
(***************************************************************************)

LEMMA ExtPluginKeys ==
  /\ DOMAIN ExtPluginKey = {"pre-req", "post-req"}
  /\ ExtPluginKey["pre-req"] = "ext-plugin-pre-req"
  /\ ExtPluginKey["post-req"] = "ext-plugin-post-req"
BY DEF ExtPluginKey

LEMMA OfTypeType ==
  ASSUME NEW plugins \in PartialFn(PluginNames, PluginConf), NEW type
  PROVE  OfType(plugins, type) \in PartialFn(PluginNames, STRING)
<1> DEFINE D == {k \in DOMAIN plugins : plugins[k].type = type}
<1>1. plugins \in [DOMAIN plugins -> PluginConf] /\ DOMAIN plugins \subseteq PluginNames
  BY InPartialFn
<1>2. OfType(plugins, type) \in [D -> STRING] /\ D \subseteq PluginNames
  BY <1>1 DEF OfType, PluginConf
<1> QED
  BY <1>2 DEF PartialFn

LEMMA ExtPluginsType ==
  ASSUME NEW plugins \in PartialFn(PluginNames, PluginConf)
  PROVE  ExtPlugins(plugins) \in RoutePlugins
<1> DEFINE D == {ExtPluginKey[t] : t \in {u \in DOMAIN ExtPluginKey :
                                           DOMAIN OfType(plugins, u) # {}}}
           type(key) == CHOOSE t \in DOMAIN ExtPluginKey : ExtPluginKey[t] = key
<1>1. ExtPlugins(plugins) = [key \in D |-> OfType(plugins, type(key))]
  BY DEF ExtPlugins
<1>2. D \subseteq RouteEntries
  BY ExtPluginKeys DEF RouteEntries
<1>3. \A key \in D : OfType(plugins, type(key)) \in EntryConf
  BY OfTypeType DEF EntryConf
<1> HIDE DEF D, type
<1>4. ExtPlugins(plugins) \in [D -> EntryConf]
  BY <1>1, <1>3
<1> QED
  BY <1>2, <1>4 DEF PartialFn, RoutePlugins

LEMMA PatchType ==
  ASSUME NEW old \in RoutePlugins, NEW plugins \in PartialFn(PluginNames, PluginConf)
  PROVE  PatchAmeshPlugins(old, plugins) \in RoutePlugins
<1> DEFINE kept == [n \in DOMAIN old \cap DOMAIN plugins |-> old[n]]
<1>1. kept \in RoutePlugins
  <2>1. old \in [DOMAIN old -> EntryConf] /\ DOMAIN old \subseteq RouteEntries
    BY InPartialFn DEF RoutePlugins
  <2>2. kept \in [DOMAIN old \cap DOMAIN plugins -> EntryConf]
        /\ DOMAIN old \cap DOMAIN plugins \subseteq RouteEntries
    BY <2>1
  <2> QED
    BY <2>2 DEF PartialFn, RoutePlugins
<1>2. OfType(plugins, "") \in RoutePlugins
  <2>1. OfType(plugins, "") \in [DOMAIN OfType(plugins, "") -> STRING]
        /\ DOMAIN OfType(plugins, "") \subseteq PluginNames
    BY OfTypeType, InPartialFn
  <2>2. OfType(plugins, "") \in [DOMAIN OfType(plugins, "") -> EntryConf]
        /\ DOMAIN OfType(plugins, "") \subseteq RouteEntries
    BY <2>1 DEF EntryConf, RouteEntries
  <2> QED
    BY <2>2, InPartialFn DEF RoutePlugins
<1>3. PatchAmeshPlugins(old, plugins)
        = Override(Override(kept, OfType(plugins, "")), ExtPlugins(plugins))
  BY DEF PatchAmeshPlugins
<1> HIDE DEF kept
<1>4. Override(kept, OfType(plugins, "")) \in RoutePlugins
  BY <1>1, <1>2, OverrideType DEF RoutePlugins
<1> QED
  BY <1>3, <1>4, ExtPluginsType, OverrideType DEF RoutePlugins

LEMMA TranslateType ==
  ASSUME NEW names \in SUBSET PluginNames,
         NEW plugins \in PartialFn(PluginNames, PluginConf)
  PROVE  TranslateRoute(names, plugins) \in RoutePlugins
<1>1. PatchAmeshPlugins(<< >>, plugins) \in RoutePlugins
  BY PatchType, EmptyFn DEF RoutePlugins
<1>2. [n \in names |-> "mesh"] \in RoutePlugins
  <2>0. "mesh" \in EntryConf
    BY DEF EntryConf
  <2>1. [n \in names |-> "mesh"] \in [names -> EntryConf] /\ names \in SUBSET RouteEntries
    BY <2>0 DEF RouteEntries
  <2> QED
    BY <2>1 DEF PartialFn, RoutePlugins
<1> QED
  BY <1>1, <1>2, OverrideType DEF TranslateRoute, RoutePlugins

\* Patching forgets what was there, but for entries named as external plugins.
LEMMA PatchForgets ==
  ASSUME NEW old, NEW plugins, NEW names,
         {n \in DOMAIN plugins : plugins[n].type # ""} \subseteq names
  PROVE  Without(PatchAmeshPlugins(old, plugins), names)
           = Without(PatchAmeshPlugins(<< >>, plugins), names)
<1> DEFINE plain == OfType(plugins, "")
           ext == ExtPlugins(plugins)
           patch(o) == PatchAmeshPlugins(o, plugins)
<1>1. DOMAIN plain = {n \in DOMAIN plugins : plugins[n].type = ""}
  BY DEF OfType
<1>2. ASSUME NEW o
      PROVE  /\ DOMAIN patch(o)
                  = (DOMAIN o \cap DOMAIN plugins) \cup DOMAIN plain \cup DOMAIN ext
             /\ \A n \in DOMAIN ext : patch(o)[n] = ext[n]
             /\ \A n \in DOMAIN plain \ DOMAIN ext : patch(o)[n] = plain[n]
  <2> DEFINE kept == [n \in DOMAIN o \cap DOMAIN plugins |-> o[n]]
  <2>1. patch(o) = Override(Override(kept, plain), ext)
    BY DEF PatchAmeshPlugins
  <2>2. DOMAIN kept = DOMAIN o \cap DOMAIN plugins
    OBVIOUS
  <2> HIDE DEF plain, ext, kept, patch
  <2> QED
    BY <2>1, <2>2 DEF Override
<1>3. ASSUME NEW o
      PROVE  DOMAIN patch(o) \ names = (DOMAIN plain \cup DOMAIN ext) \ names
  <2> HIDE DEF plain, ext, patch
  <2> QED
    BY <1>1, <1>2
<1>4. \A n \in (DOMAIN plain \cup DOMAIN ext) \ names : patch(old)[n] = patch(<< >>)[n]
  <2> HIDE DEF plain, ext, patch
  <2> QED
    BY <1>2
<1>5. Without(patch(old), names) = Without(patch(<< >>), names)
  <2> HIDE DEF plain, ext, patch
  <2> QED
    BY <1>3, <1>4 DEF Without
<1> QED
  BY <1>5

\* A route just translated is right.
LEMMA TranslatedRight ==
  ASSUME NEW names
  PROVE  Right(TranslateRoute(names, config), names)
<1> DEFINE p == PatchAmeshPlugins(<< >>, config)
           all == names \cup External
<1>1. TranslateRoute(names, config) = Override(p, [n \in names |-> "mesh"])
  BY DEF TranslateRoute
<1> HIDE DEF p
<1>2. /\ DOMAIN TranslateRoute(names, config) = DOMAIN p \cup names
      /\ \A n \in DOMAIN p \ names : TranslateRoute(names, config)[n] = p[n]
  BY <1>1 DEF Override
<1>3. Without(TranslateRoute(names, config), all) = Without(p, all)
  BY <1>2 DEF Without
<1> QED
  BY <1>3 DEF p, Right

LEMMA PatchedRight ==
  ASSUME NEW old, NEW names
  PROVE  Right(PatchAmeshPlugins(old, config), names)
BY PatchForgets DEF Right, External

\* Storing the difference leaves what is in place in the dictionary.
LEMMA ReplaceStores ==
  ASSUME Types, StoredInv, NEW new, DOMAIN new \subseteq Routes, Replace(new)
  PROVE  StoredInv' /\ DOMAIN stored' = Routes
<1>1. DOMAIN stored = Routes /\ routes' = new
  BY DEF Types, Replace
<1>2. stored' = [k \in Routes |->
                   IF k \in ChangedKeys(routes, new)
                   THEN IF k \in DOMAIN new THEN new[k] ELSE NoRoute
                   ELSE stored[k]]
  BY <1>1, Zenon DEF Replace, StoreEvents, GenerateIncrementalEvents
<1>3. ASSUME NEW r \in Routes
      PROVE  stored'[r] = IF r \in DOMAIN routes' THEN routes'[r] ELSE NoRoute
  BY <1>1, <1>2 DEF StoredInv, ChangedKeys
<1> QED
  BY <1>2, <1>3 DEF StoredInv

-----------------------------------------------------------------------------
(***************************************************************************)
(* Types                                                                   *)
(***************************************************************************)

LEMMA RemovedAt ==
  ASSUME NEW S, NEW s \in Seq(S), NEW i \in 1..Len(s)
  PROVE  /\ RemoveAt(s, i) \in Seq(S)
         /\ Len(RemoveAt(s, i)) = Len(s) - 1
         /\ \A j \in 1..(Len(s) - 1) :
              RemoveAt(s, i)[j] = IF j < i THEN s[j] ELSE s[j + 1]
<1>1. RemoveAt(s, i) = SubSeq(s, 1, i - 1) \o SubSeq(s, i + 1, Len(s))
  BY DEF RemoveAt
<1> DEFINE a == SubSeq(s, 1, i - 1)
           b == SubSeq(s, i + 1, Len(s))
<1>2. Len(s) \in Nat /\ \A j \in 1..Len(s) : s[j] \in S
  OBVIOUS
<1>3. /\ a \in Seq(S) /\ Len(a) = i - 1
      /\ \A j \in 1..(i - 1) : a[j] = s[j]
  <2>1. \A j \in 1..(i - 1) : s[j] \in S
    BY <1>2
  <2>2. /\ a \in Seq(S) /\ Len(a) = IF 1 <= i - 1 THEN (i - 1) - 1 + 1 ELSE 0
        /\ \A j \in 1..((i - 1) - 1 + 1) : a[j] = s[1 + j - 1]
    BY <2>1, SubSeqProperties
  <2> HIDE DEF a
  <2> QED
    BY <1>2, <2>2
<1>4. /\ b \in Seq(S) /\ Len(b) = Len(s) - i
      /\ \A j \in 1..(Len(s) - i) : b[j] = s[i + j]
  <2>1. \A j \in (i + 1)..Len(s) : s[j] \in S
    BY <1>2
  <2>2. /\ b \in Seq(S)
        /\ Len(b) = IF i + 1 <= Len(s) THEN Len(s) - (i + 1) + 1 ELSE 0
        /\ \A j \in 1..(Len(s) - (i + 1) + 1) : b[j] = s[i + 1 + j - 1]
    BY <1>2, <2>1, SubSeqProperties
  <2> HIDE DEF b
  <2> QED
    BY <1>2, <2>2
<1> HIDE DEF a, b
<1>5. /\ a \o b \in Seq(S) /\ Len(a \o b) = Len(a) + Len(b)
      /\ \A j \in 1..(Len(a) + Len(b)) :
           (a \o b)[j] = IF j <= Len(a) THEN a[j] ELSE b[j - Len(a)]
  BY <1>3, <1>4, ConcatProperties
<1>6. RemoveAt(s, i) = a \o b
  BY <1>1 DEF a, b
<1>7. ASSUME NEW j \in 1..(Len(s) - 1)
      PROVE  (a \o b)[j] = IF j < i THEN s[j] ELSE s[j + 1]
  <2>1. CASE j < i
    BY <1>2, <1>3, <1>4, <1>5, <2>1
  <2>2. CASE j >= i
    <3>1. j - (i - 1) \in 1..(Len(s) - i) /\ i + (j - (i - 1)) = j + 1
      BY <1>2, <2>2
    <3>2. (a \o b)[j] = b[j - (i - 1)]
      BY <1>2, <1>3, <1>4, <1>5, <2>2
    <3>3. b[j - (i - 1)] = s[i + (j - (i - 1))]
      BY <1>4, <3>1
    <3>4. ~(j < i)
      BY <1>2, <2>2
    <3> QED
      BY <3>1, <3>2, <3>3, <3>4
  <2>3. j < i \/ j >= i
    BY <1>2
  <2> QED
    BY <2>1, <2>2, <2>3
<1> QED
  BY <1>2, <1>3, <1>4, <1>5, <1>6, <1>7

LEMMA TypesInit == Init => Types
<1> SUFFICES ASSUME Init PROVE Types
  OBVIOUS
<1>1. DOMAIN << >> = {}
  BY EmptyFn
<1>2. /\ config \in PartialFn(PluginNames, PluginConf)
      /\ configRevision \in PartialFn(ConfigNames, Versions)
      /\ patched \in PartialFn(Routes, RoutePlugins)
      /\ translating \in PartialFn(Routes, SUBSET PluginNames)
      /\ newRoutes \in PartialFn(Routes, RoutePlugins)
      /\ mesh \in PartialFn(Routes, SUBSET PluginNames)
      /\ routes \in PartialFn(Routes, RoutePlugins)
  BY EmptyFn, Zenon DEF Init
<1>3. pending \in Seq(Responses) /\ Len(pending) <= MaxPending
  BY MaxPendingAssumption DEF Init
<1> QED
  BY <1>1, <1>2, <1>3 DEF Init, Types, RoutesLocked, Anomalies

LEMMA TypesSend ==
  ASSUME Types, NEW resp \in Responses, SendResponse(resp)
  PROVE  Types'
<1>1. pending' \in Seq(Responses) /\ Len(pending') <= MaxPending
  BY MaxPendingAssumption DEF Types, SendResponse
<1>2. sentRevision' \in [ConfigNames -> Versions \cup {<< >>}]
  <2> DEFINE R == RevisionsOf(resp, DOMAIN resp)
  <2>1. R \in PartialFn(ConfigNames, Versions)
    BY RevisionsOfResponse
  <2>2. R \in [DOMAIN R -> Versions] /\ DOMAIN R \subseteq ConfigNames
    BY <2>1, InPartialFn
  <2>3. sentRevision' = Override(sentRevision, R)
    BY DEF SendResponse
  <2>4. sentRevision \in [ConfigNames -> Versions \cup {<< >>}]
    BY DEF Types
  <2> HIDE DEF R
  <2> QED
    BY <2>2, <2>3, <2>4 DEF Override
<1>3. anomalies' \subseteq Anomalies
  BY DEF Types, SendResponse, Anomalies
<1>4. UNCHANGED <<ameshVars, patchVars, rdsVars, mesh, routeVars>> /\ sent' = resp
  BY DEF SendResponse
<1> QED
  BY <1>1, <1>2, <1>3, <1>4
     DEF Types, RoutesLocked, ameshVars, patchVars, rdsVars, routeVars

LEMMA NewerPlaces ==
  ASSUME NEW resp, NEW revision
  PROVE  Newer(resp, revision) \in SUBSET DOMAIN resp
BY DEF Newer

LEMMA TypesUpdatePlugins ==
  ASSUME Types, NEW i \in 1..Len(pending), UpdatePlugins(i)
  PROVE  Types'
<1> DEFINE newer == Newer(pending[i], configRevision)
<1>1. pending[i] \in Responses
  BY DEF Types
<1>2. pending' \in Seq(Responses) /\ Len(pending') <= MaxPending
  <2>1. pending \in Seq(Responses) /\ Len(pending) <= MaxPending
        /\ pending' = RemoveAt(pending, i)
    BY DEF Types, UpdatePlugins
  <2> QED
    BY <2>1, RemovedAt, MaxPendingAssumption
<1>3. config' \in PartialFn(PluginNames, PluginConf)
  BY <1>1, NewerPlaces, PluginsOfType DEF UpdatePlugins
<1>4. configRevision' \in PartialFn(ConfigNames, Versions)
  BY <1>1, NewerPlaces, RevisionsOfResponse DEF UpdatePlugins
<1>5. anomalies' \subseteq Anomalies
  BY DEF Types, UpdatePlugins, Anomalies
<1>6. /\ UNCHANGED <<sent, sentRevision, patchVars, rdsVars, mesh, routeVars>>
      /\ configLocked' = TRUE
  BY DEF UpdatePlugins
<1> QED
  BY <1>2, <1>3, <1>4, <1>5, <1>6 DEF Types, RoutesLocked, patchVars, rdsVars, routeVars

LEMMA TypesNotify ==
  ASSUME Types, Notify
  PROVE  Types'
BY DEF Types, Notify, RoutesLocked, rdsVars, routeVars

LEMMA TypesLockRoutes ==
  ASSUME Types, LockRoutes
  PROVE  Types'
<1>1. /\ DOMAIN patched = {}
      /\ patcher' = "patch" /\ toPatch' = DOMAIN routes
      /\ UNCHANGED <<sent, sentRevision, pending, configLocked, config, configRevision,
                     patched, rdsing, translating, newRoutes, mesh, routes, stored,
                     anomalies>>
  BY DEF Types, LockRoutes, RoutesLocked, ameshVars, rdsVars, routeVars
<1> QED
  BY <1>1 DEF Types, RoutesLocked

LEMMA TypesPatchRoute ==
  ASSUME Types, NEW r \in Routes, PatchRoute(r)
  PROVE  Types'
<1>1. /\ patcher = "patch" /\ r \in toPatch /\ r \in DOMAIN routes
      /\ patched' = Override(patched, [x \in {r} |-> PatchAmeshPlugins(routes[r], config)])
      /\ toPatch' = toPatch \ {r}
      /\ UNCHANGED <<sent, sentRevision, pending, configLocked, config, configRevision,
                     patcher, rdsing, translating, newRoutes, mesh, routes, stored,
                     anomalies>>
  BY DEF Types, PatchRoute, RoutesLocked, ameshVars, rdsVars, routeVars
<1>2. routes[r] \in RoutePlugins
  <2>1. routes \in [DOMAIN routes -> RoutePlugins]
    BY InPartialFn DEF Types
  <2> QED
    BY <1>1, <2>1
<1>3. PatchAmeshPlugins(routes[r], config) \in RoutePlugins
  BY <1>2, PatchType DEF Types
<1>4. patched' \in PartialFn(Routes, RoutePlugins)
  <2>1. patched \in PartialFn(Routes, RoutePlugins)
    BY DEF Types
  <2> QED
    BY <1>1, <1>3, <2>1, OverrideOneType
<1>5. DOMAIN patched' = DOMAIN patched \cup {r}
  BY <1>1 DEF Override
<1>6. DOMAIN patched' = DOMAIN routes' \ toPatch'
  BY <1>1, <1>5 DEF Types, RoutesLocked
<1> QED
  BY <1>1, <1>4, <1>6 DEF Types, RoutesLocked

LEMMA TypesUnlockRoutes ==
  ASSUME Types, StoredInv, UnlockRoutes
  PROVE  Types'
<1>1. /\ patcher = "patch" /\ toPatch = {} /\ Replace(patched)
      /\ routes' = patched /\ patched' = << >> /\ patcher' = "idle"
      /\ UNCHANGED <<sent, sentRevision, pending, configLocked, config, configRevision,
                     toPatch, rdsing, translating, newRoutes, mesh, anomalies>>
  BY DEF UnlockRoutes, Replace, RoutesLocked, ameshVars, rdsVars
<1>2. DOMAIN patched = DOMAIN routes /\ DOMAIN patched \subseteq Routes
  BY <1>1, InPartialFn DEF Types, RoutesLocked
<1>3. DOMAIN stored' = Routes
  BY <1>1, <1>2, ReplaceStores
<1>4. patched' \in PartialFn(Routes, RoutePlugins) /\ DOMAIN patched' = {}
  BY <1>1, EmptyFn
<1> QED
  BY <1>1, <1>2, <1>3, <1>4 DEF Types, RoutesLocked

LEMMA TypesReceiveRDS ==
  ASSUME Types, NEW m \in MeshRoutes, ReceiveRDS(m)
  PROVE  Types'
<1>1. m \in PartialFn(Routes, SUBSET PluginNames)
  BY MeshRoutesAssumption
<1>2. anomalies' \subseteq Anomalies
  BY DEF Types, ReceiveRDS, Anomalies
<1>3. /\ ~rdsing /\ rdsing' = TRUE /\ translating' = m
      /\ UNCHANGED <<sent, sentRevision, pending, configLocked, config, configRevision,
                     patcher, toPatch, patched, newRoutes, mesh, routes, stored>>
  BY DEF ReceiveRDS, ameshVars, patchVars, routeVars
<1> QED
  BY <1>1, <1>2, <1>3 DEF Types, RoutesLocked

LEMMA TypesTranslate ==
  ASSUME Types, NEW r \in Routes, Translate(r)
  PROVE  Types'
<1>1. /\ r \in DOMAIN translating
      /\ newRoutes' = Override(newRoutes,
                        [x \in {r} |-> TranslateRoute(translating[r], config)])
      /\ UNCHANGED <<sent, sentRevision, pending, configLocked, config, configRevision,
                     patcher, toPatch, patched, rdsing, translating, mesh, routes,
                     stored, anomalies>>
  BY DEF Translate, ameshVars, patchVars, routeVars
<1>2. translating[r] \in SUBSET PluginNames
  <2>1. translating \in [DOMAIN translating -> SUBSET PluginNames]
    BY InPartialFn DEF Types
  <2> QED
    BY <1>1, <2>1
<1>3. TranslateRoute(translating[r], config) \in RoutePlugins
  BY <1>2, TranslateType DEF Types
<1>4. newRoutes' \in PartialFn(Routes, RoutePlugins)
  <2>1. newRoutes \in PartialFn(Routes, RoutePlugins)
    BY DEF Types
  <2> QED
    BY <1>1, <1>3, <2>1, OverrideOneType
<1>5. DOMAIN newRoutes' = DOMAIN newRoutes \cup {r}
  BY <1>1 DEF Override
<1> QED
  BY <1>1, <1>4, <1>5 DEF Types, RoutesLocked

LEMMA TypesReplaceRoutes ==
  ASSUME Types, StoredInv, ReplaceRoutes
  PROVE  Types'
<1>1. /\ ~RoutesLocked /\ DOMAIN newRoutes = DOMAIN translating /\ Replace(newRoutes)
      /\ routes' = newRoutes /\ mesh' = translating
      /\ rdsing' = FALSE /\ translating' = << >> /\ newRoutes' = << >>
      /\ UNCHANGED <<sent, sentRevision, pending, configLocked, config, configRevision,
                     patcher, toPatch, patched, anomalies>>
  BY DEF ReplaceRoutes, Replace, ameshVars, patchVars
<1>2. DOMAIN newRoutes \subseteq Routes
  BY InPartialFn DEF Types
<1>3. DOMAIN stored' = Routes
  BY <1>1, <1>2, ReplaceStores
<1>4. /\ newRoutes' \in PartialFn(Routes, RoutePlugins)
      /\ translating' \in PartialFn(Routes, SUBSET PluginNames)
      /\ DOMAIN newRoutes' = {} /\ DOMAIN translating' = {}
  BY <1>1, EmptyFn
<1> QED
  BY <1>1, <1>3, <1>4 DEF Types, RoutesLocked

LEMMA TypesNext ==
  ASSUME Types, StoredInv, [Next]_vars
  PROVE  Types'
<1>1. CASE UNCHANGED vars
  BY <1>1 DEF Types, RoutesLocked, vars, ameshVars, patchVars, rdsVars, routeVars
<1>2. CASE \E resp \in Responses : SendResponse(resp)
  BY <1>2, TypesSend
<1>3. CASE \E i \in 1..Len(pending) : UpdatePlugins(i)
  BY <1>3, TypesUpdatePlugins
<1>4. CASE Notify
  BY <1>4, TypesNotify
<1>5. CASE Patcher
  BY <1>5, TypesLockRoutes, TypesPatchRoute, TypesUnlockRoutes DEF Patcher
<1>6. CASE \E m \in MeshRoutes : ReceiveRDS(m)
  BY <1>6, TypesReceiveRDS
<1>7. CASE Translator
  BY <1>7, TypesTranslate, TypesReplaceRoutes DEF Translator
<1> QED
  BY <1>1, <1>2, <1>3, <1>4, <1>5, <1>6, <1>7 DEF Next

LEMMA StoredNext ==
  ASSUME Types, StoredInv, [Next]_vars
  PROVE  StoredInv'
<1>1. CASE UNCHANGED <<routes, stored>>
  BY <1>1 DEF StoredInv
<1>2. CASE UnlockRoutes
  BY <1>2, ReplaceStores, InPartialFn DEF UnlockRoutes, Types
<1>3. CASE ReplaceRoutes
  BY <1>3, ReplaceStores, InPartialFn DEF ReplaceRoutes, Types
<1>4. UnlockRoutes \/ ReplaceRoutes \/ UNCHANGED <<routes, stored>>
  BY DEF Next, vars, routeVars, SendResponse, UpdatePlugins, Notify, Patcher, LockRoutes,
         PatchRoute, ReceiveRDS, Translator, Translate
<1> QED
  BY <1>1, <1>2, <1>3, <1>4

\* The properties of TypeOK, from the finer types.
LEMMA TypesImply == Types => TypeOK
<1> SUFFICES ASSUME Types PROVE TypeOK
  OBVIOUS
<1>1. DOMAIN config \subseteq PluginNames /\ config \in [DOMAIN config -> PluginConf]
  BY InPartialFn DEF Types
<1>2. \A n \in DOMAIN config : config[n] \in PluginConf
  BY <1>1
<1>3. DOMAIN translating \subseteq Routes
  BY InPartialFn DEF Types
<1> QED
  BY <1>1, <1>2, <1>3 DEF Types, TypeOK, RoutesLocked

-----------------------------------------------------------------------------
(***************************************************************************)
(* The plugins of the last response are in force                           *)
(***************************************************************************)

\* Versions are strings that can be compared.
LEMMA VersionStrings == Versions \cup {<< >>} \subseteq Seq(Nat)
<1>1. \A v \in Seq(0..9) : v \in Seq(Nat)
  OBVIOUS
<1>2. << >> \in Seq(Nat)
  OBVIOUS
<1> QED
  BY <1>1, <1>2, VersionsAssumption

LEMMA UpToLess ==
  ASSUME NEW u \in Versions \cup {<< >>}, NEW v \in Versions \cup {<< >>},
         NEW w \in Versions \cup {<< >>}, UpTo(u, v), StringLess(v, w)
  PROVE  StringLess(u, w)
BY VersionStrings, StringLessTransitive DEF UpTo

\* The responses under way.
LEMMA PendingType ==
  ASSUME Types, NEW i \in DOMAIN pending
  PROVE  /\ pending[i] \in Responses
         /\ \A k \in DOMAIN pending[i] :
              /\ pending[i][k].name \in ConfigNames
              /\ pending[i][k].version \in Versions
              /\ sentRevision[pending[i][k].name] \in Versions \cup {<< >>}
<1>1. pending[i] \in Responses
  BY DEF Types
<1> QED
  BY <1>1, ResponseType DEF Types

LEMMA AppliedInit == Init => AppliedInv
<1> SUFFICES ASSUME Init PROVE RevisionInv /\ LastInv
  BY DEF AppliedInv
<1>1. pending = << >> /\ sent = << >> /\ config = << >> /\ configRevision = << >>
  BY DEF Init
<1>2. DOMAIN << >> = {}
  BY EmptyFn
<1>3. RevisionInv
  BY <1>1, <1>2 DEF RevisionInv
<1>4. PluginsOf(<< >>, {}) = [n \in {} |-> (<< >>)[1].plugins[n]]
  BY DEF PluginsOf
<1>5. << >> = [n \in {} |-> (<< >>)[1].plugins[n]]
  OBVIOUS
<1>6. LastInv
  BY <1>1, <1>2, <1>4, <1>5 DEF LastInv
<1> QED
  BY <1>3, <1>6

\* A response that is newer than the last goes to the end of the line.
LEMMA AppliedSend ==
  ASSUME Types, AppliedInv, NEW resp \in Responses, SendResponse(resp),
         anomalies' \cap {"overtaken", "notNewer"} = {}
  PROVE  RevisionInv' /\ LastInv'
<1>0. anomalies \cap {"overtaken", "notNewer"} = {} /\ AllNewer(resp)
  BY DEF SendResponse
<1>1. RevisionInv
  BY <1>0 DEF AppliedInv
<1>2. /\ pending' = Append(pending, resp) /\ sent' = resp
      /\ sentRevision' = Override(sentRevision, RevisionsOf(resp, DOMAIN resp))
      /\ UNCHANGED <<config, configRevision>>
  BY DEF SendResponse, ameshVars
<1>3. pending \in Seq(Responses) /\ Len(pending) \in Nat
      /\ DOMAIN pending = 1..Len(pending)
  BY DEF Types
<1>4. /\ Len(pending') = Len(pending) + 1 /\ DOMAIN pending' = 1..(Len(pending) + 1)
      /\ \A i \in DOMAIN pending : pending'[i] = pending[i]
      /\ pending'[Len(pending) + 1] = resp
  BY <1>2, <1>3
<1>a. /\ DOMAIN RevisionsOf(resp, DOMAIN resp) = {resp[k].name : k \in DOMAIN resp}
      /\ \A k \in DOMAIN resp :
           RevisionsOf(resp, DOMAIN resp)[resp[k].name] = resp[k].version
  <2>1. resp \in Responses \cup {<< >>} /\ DOMAIN resp \in SUBSET DOMAIN resp
    OBVIOUS
  <2> QED
    BY <2>1, RevisionsOfResponse
<1>5. ASSUME NEW n \in ConfigNames, NEW v \in Versions \cup {<< >>}, UpTo(v, sentRevision[n])
      PROVE  /\ UpTo(v, sentRevision'[n])
             /\ \A k \in DOMAIN resp : resp[k].name = n => StringLess(v, resp[k].version)
  <2>1. sentRevision[n] \in Versions \cup {<< >>} /\ DOMAIN sentRevision = ConfigNames
    BY DEF Types
  <2>2. ASSUME NEW k \in DOMAIN resp, resp[k].name = n
        PROVE  StringLess(v, resp[k].version) /\ sentRevision'[n] = resp[k].version
    <3>1. StringLess(sentRevision[n], resp[k].version) /\ resp[k].version \in Versions
      BY <1>0, <2>2, ResponseType DEF AllNewer
    <3>2. StringLess(v, resp[k].version)
      BY <1>5, <2>1, <3>1, UpToLess
    <3>3. /\ n \in DOMAIN RevisionsOf(resp, DOMAIN resp)
          /\ RevisionsOf(resp, DOMAIN resp)[n] = resp[k].version
      BY <1>a, <2>2
    <3>4. sentRevision'[n] = resp[k].version
      BY <1>2, <2>1, <3>3 DEF Override
    <3> QED
      BY <3>2, <3>4
  <2>3. CASE \E k \in DOMAIN resp : resp[k].name = n
    BY <2>2, <2>3 DEF UpTo
  <2>4. CASE ~ \E k \in DOMAIN resp : resp[k].name = n
    <3>1. n \notin DOMAIN RevisionsOf(resp, DOMAIN resp)
      BY <1>a, <2>4
    <3>2. sentRevision'[n] = sentRevision[n]
      BY <1>2, <2>1, <3>1 DEF Override
    <3> QED
      BY <1>5, <2>4, <3>2
  <2> QED
    BY <2>3, <2>4
<1>6. ASSUME NEW n \in DOMAIN configRevision
      PROVE  /\ UpTo(configRevision[n], sentRevision'[n])
             /\ \A i \in DOMAIN pending' : \A k \in DOMAIN pending'[i] :
                  pending'[i][k].name = n
                    => StringLess(configRevision[n], pending'[i][k].version)
  <2>1. n \in ConfigNames /\ configRevision[n] \in Versions \cup {<< >>}
    <3>1. configRevision \in [DOMAIN configRevision -> Versions]
          /\ DOMAIN configRevision \subseteq ConfigNames
      BY InPartialFn DEF Types
    <3> QED
      BY <3>1
  <2>2. /\ UpTo(configRevision[n], sentRevision[n])
        /\ \A i \in DOMAIN pending : \A k \in DOMAIN pending[i] :
             pending[i][k].name = n => StringLess(configRevision[n], pending[i][k].version)
    BY <1>1 DEF RevisionInv
  <2>3. /\ UpTo(configRevision[n], sentRevision'[n])
        /\ \A k \in DOMAIN resp :
             resp[k].name = n => StringLess(configRevision[n], resp[k].version)
    BY <1>5, <2>1, <2>2
  <2> QED
    BY <1>3, <1>4, <2>2, <2>3
<1>7. ASSUME NEW i \in DOMAIN pending', NEW k \in DOMAIN pending'[i]
      PROVE  LET c == pending'[i][k] IN
             /\ UpTo(c.version, sentRevision'[c.name])
             /\ \A j \in (i + 1)..Len(pending') : \A l \in DOMAIN pending'[j] :
                  pending'[j][l].name = c.name => StringLess(c.version, pending'[j][l].version)
  <2>1. CASE i \in DOMAIN pending
    <3> DEFINE c == pending[i][k]
    <3>1. pending'[i] = pending[i]
      BY <1>4, <2>1
    <3>2. /\ UpTo(c.version, sentRevision[c.name])
          /\ \A j \in (i + 1)..Len(pending) : \A l \in DOMAIN pending[j] :
               pending[j][l].name = c.name => StringLess(c.version, pending[j][l].version)
      BY <1>1, <1>7, <2>1, <3>1 DEF RevisionInv
    <3>3. c.name \in ConfigNames /\ c.version \in Versions \cup {<< >>}
      BY <1>7, <2>1, <3>1, PendingType
    <3>4. /\ UpTo(c.version, sentRevision'[c.name])
          /\ \A l \in DOMAIN resp : resp[l].name = c.name => StringLess(c.version, resp[l].version)
      BY <1>5, <3>2, <3>3
    <3>5. ASSUME NEW j \in (i + 1)..Len(pending')
          PROVE  (j \in (i + 1)..Len(pending) /\ j \in DOMAIN pending) \/ j = Len(pending) + 1
      BY <1>3, <1>4, <2>1
    <3> HIDE DEF c
    <3>6. \A j \in (i + 1)..Len(pending') : \A l \in DOMAIN pending'[j] :
            pending'[j][l].name = c.name => StringLess(c.version, pending'[j][l].version)
      BY <1>4, <3>2, <3>4, <3>5
    <3> QED
      BY <3>1, <3>4, <3>6 DEF c
  <2>2. CASE i = Len(pending) + 1
    <3>1. pending'[i] = resp /\ k \in DOMAIN resp
      BY <1>4, <1>7, <2>2
    <3>2. /\ resp[k].name \in ConfigNames
          /\ resp[k].name \in DOMAIN RevisionsOf(resp, DOMAIN resp)
          /\ RevisionsOf(resp, DOMAIN resp)[resp[k].name] = resp[k].version
      BY <1>a, <3>1, ResponseType
    <3>3. sentRevision'[resp[k].name] = resp[k].version
      BY <1>2, <3>2 DEF Override
    <3>4. (i + 1)..Len(pending') = {}
      BY <1>3, <1>4, <2>2
    <3> QED
      BY <3>1, <3>3, <3>4 DEF UpTo
  <2> QED
    BY <1>3, <1>4, <2>1, <2>2
<1>8. RevisionInv'
  BY <1>2, <1>6, <1>7 DEF RevisionInv
<1>9. LastInv'
  <2>1. pending' # << >>
    BY <1>3, <1>4
  <2> QED
    BY <1>2, <1>4, <2>1 DEF LastInv
<1> QED
  BY <1>8, <1>9

\* The first response under way is newer than what is in force, so that none of
\* its configurations is skipped.
LEMMA AppliedUpdatePlugins ==
  ASSUME Types, AppliedInv, NEW i \in 1..Len(pending), UpdatePlugins(i),
         anomalies' \cap {"overtaken", "notNewer"} = {}
  PROVE  RevisionInv' /\ LastInv'
<1>0. anomalies \cap {"overtaken", "notNewer"} = {} /\ i = 1
  BY DEF UpdatePlugins
<1>1. RevisionInv /\ LastInv
  BY <1>0 DEF AppliedInv
<1> DEFINE first == pending[1]
<1>2. /\ pending \in Seq(Responses) /\ Len(pending) \in Nat \ {0}
      /\ DOMAIN pending = 1..Len(pending) /\ 1 \in DOMAIN pending
      /\ first \in Responses
  BY DEF Types
<1>3. Newer(first, configRevision) = DOMAIN first
  BY <1>1, <1>2 DEF Newer, RevisionInv
<1>4. /\ config' = PluginsOf(first, DOMAIN first)
      /\ configRevision' = RevisionsOf(first, DOMAIN first)
      /\ pending' = RemoveAt(pending, 1)
      /\ UNCHANGED <<sent, sentRevision>>
  BY <1>0, <1>3 DEF UpdatePlugins
<1>5. /\ pending' \in Seq(Responses) /\ Len(pending') = Len(pending) - 1
      /\ DOMAIN pending' = 1..(Len(pending) - 1)
      /\ \A j \in 1..(Len(pending) - 1) : pending'[j] = pending[j + 1]
  <2>1. /\ pending' \in Seq(Responses) /\ Len(pending') = Len(pending) - 1
        /\ \A j \in 1..(Len(pending) - 1) :
             pending'[j] = IF j < 1 THEN pending[j] ELSE pending[j + 1]
    BY <1>2, <1>4, RemovedAt
  <2> QED
    BY <1>2, <2>1
<1>6. /\ DOMAIN configRevision' = {first[k].name : k \in DOMAIN first}
      /\ \A k \in DOMAIN first : configRevision'[first[k].name] = first[k].version
  <2>1. first \in Responses \cup {<< >>} /\ DOMAIN first \in SUBSET DOMAIN first
    BY <1>2
  <2> HIDE DEF first
  <2> QED
    BY <1>4, <2>1, RevisionsOfResponse
<1>7. ASSUME NEW k \in DOMAIN first
      PROVE  /\ UpTo(first[k].version, sentRevision[first[k].name])
             /\ \A j \in 2..Len(pending) : \A l \in DOMAIN pending[j] :
                  pending[j][l].name = first[k].name
                    => StringLess(first[k].version, pending[j][l].version)
  <2>1. 1 + 1 = 2
    OBVIOUS
  <2> QED
    BY <1>1, <1>2, <2>1 DEF RevisionInv
<1>8. ASSUME NEW j \in DOMAIN pending'
      PROVE  j + 1 \in DOMAIN pending /\ j + 1 \in 2..Len(pending)
             /\ pending'[j] = pending[j + 1]
  BY <1>2, <1>5
<1>9. ASSUME NEW n \in DOMAIN configRevision'
      PROVE  /\ UpTo(configRevision'[n], sentRevision'[n])
             /\ \A j \in DOMAIN pending' : \A l \in DOMAIN pending'[j] :
                  pending'[j][l].name = n
                    => StringLess(configRevision'[n], pending'[j][l].version)
  <2>1. PICK k \in DOMAIN first : first[k].name = n /\ configRevision'[n] = first[k].version
    BY <1>6
  <2> HIDE DEF first
  <2> QED
    BY <1>4, <1>7, <1>8, <2>1
<1>10. ASSUME NEW j \in DOMAIN pending', NEW k \in DOMAIN pending'[j]
       PROVE  LET c == pending'[j][k] IN
              /\ UpTo(c.version, sentRevision'[c.name])
              /\ \A m \in (j + 1)..Len(pending') : \A l \in DOMAIN pending'[m] :
                   pending'[m][l].name = c.name => StringLess(c.version, pending'[m][l].version)
  <2> DEFINE c == pending[j + 1][k]
  <2>1. j + 1 \in DOMAIN pending /\ pending'[j] = pending[j + 1]
    BY <1>8
  <2>2. /\ UpTo(c.version, sentRevision[c.name])
        /\ \A m \in ((j + 1) + 1)..Len(pending) : \A l \in DOMAIN pending[m] :
             pending[m][l].name = c.name => StringLess(c.version, pending[m][l].version)
    BY <1>1, <1>10, <2>1 DEF RevisionInv
  <2>3. \A m \in (j + 1)..Len(pending') :
          m + 1 \in ((j + 1) + 1)..Len(pending) /\ pending'[m] = pending[m + 1]
    BY <1>2, <1>5
  <2> HIDE DEF c
  <2>4. \A m \in (j + 1)..Len(pending') : \A l \in DOMAIN pending'[m] :
          pending'[m][l].name = c.name => StringLess(c.version, pending'[m][l].version)
    BY <2>2, <2>3
  <2> QED
    BY <1>4, <2>1, <2>2, <2>4 DEF c
<1>11. RevisionInv'
  <2> HIDE DEF first
  <2> QED
    BY <1>9, <1>10 DEF RevisionInv
<1>12. LastInv'
  <2>1. CASE Len(pending) = 1
    <3>1. pending' = << >>
      BY <1>5, <2>1
    <3>2. first = sent
      BY <1>1, <1>2, <2>1 DEF LastInv
    <3> QED
      BY <1>4, <3>1, <3>2 DEF LastInv
  <2>2. CASE Len(pending) > 1
    <3>1. pending' # << >> /\ pending # << >>
      BY <1>2, <1>5, <2>2
    <3>2. pending'[Len(pending')] = pending[Len(pending)]
      BY <1>2, <1>5, <2>2
    <3> QED
      BY <1>1, <1>4, <3>1, <3>2 DEF LastInv
  <2> QED
    BY <1>2, <2>1, <2>2
<1> QED
  BY <1>11, <1>12

LEMMA AppliedNext ==
  ASSUME Types, AppliedInv, [Next]_vars
  PROVE  AppliedInv'
<1> SUFFICES ASSUME anomalies' \cap {"overtaken", "notNewer"} = {}
             PROVE  RevisionInv' /\ LastInv'
  BY DEF AppliedInv
<1>1. CASE \E resp \in Responses : SendResponse(resp)
  BY <1>1, AppliedSend
<1>2. CASE \E i \in 1..Len(pending) : UpdatePlugins(i)
  BY <1>2, AppliedUpdatePlugins
<1>3. CASE /\ UNCHANGED <<sent, sentRevision, pending, config, configRevision>>
           /\ anomalies \subseteq anomalies' \cup {"race"}
  <2>1. RevisionInv /\ LastInv
    BY <1>3 DEF AppliedInv
  <2> QED
    BY <1>3, <2>1 DEF RevisionInv, LastInv
<1>4. CASE UNCHANGED vars \/ Notify
  <2>1. /\ UNCHANGED <<sent, sentRevision, pending, config, configRevision>>
        /\ anomalies \subseteq anomalies'
    BY <1>4 DEF vars, ameshVars, Notify
  <2> QED
    BY <1>3, <2>1
<1>5. CASE Patcher \/ Translator
  <2>1. /\ UNCHANGED <<sent, sentRevision, pending, config, configRevision>>
        /\ anomalies' = anomalies
    BY <1>5 DEF Patcher, LockRoutes, PatchRoute, UnlockRoutes, Translator, Translate,
                ReplaceRoutes, ameshVars
  <2> QED
    BY <1>3, <2>1
<1>6. CASE \E m \in MeshRoutes : ReceiveRDS(m)
  <2>1. /\ UNCHANGED <<sent, sentRevision, pending, config, configRevision>>
        /\ anomalies \subseteq anomalies' \cup {"race"}
    BY <1>6 DEF ReceiveRDS, ameshVars
  <2> QED
    BY <1>3, <2>1
<1> QED
  BY <1>1, <1>2, <1>4, <1>5, <1>6 DEF Next

-----------------------------------------------------------------------------
(***************************************************************************)
(* The routes have the plugins in force                                    *)
(***************************************************************************)

LEMMA RightInit == Init => RightInv
<1>1. DOMAIN << >> = {}
  BY EmptyFn
<1> QED
  BY <1>1 DEF Init, RightInv

LEMMA RightUpdate ==
  ASSUME RightInv,
         \/ \E resp \in Responses : SendResponse(resp)
         \/ \E i \in 1..Len(pending) : UpdatePlugins(i)
  PROVE  RightInv'
<1>1. CASE \E resp \in Responses : SendResponse(resp)
  <2>1. /\ UNCHANGED <<configLocked, config, patcher, patched, rdsing, translating,
                       newRoutes, mesh, routes>>
        /\ rdsing => "race" \in anomalies'
        /\ anomalies \subseteq anomalies'
    BY <1>1 DEF SendResponse, ameshVars, patchVars, rdsVars, routeVars
  <2> QED
    BY <2>1 DEF RightInv, Right, External
<1>2. CASE \E i \in 1..Len(pending) : UpdatePlugins(i)
  <2>1. /\ Len(pending) > 0 /\ configLocked' = TRUE /\ rdsing' = rdsing
        /\ anomalies \subseteq anomalies'
    BY <1>2 DEF UpdatePlugins, rdsVars
  <2>2. ~AtRest
    BY <2>1 DEF AtRest
  <2> QED
    BY <2>1, <2>2 DEF RightInv
<1> QED
  BY <1>1, <1>2

LEMMA RightNotify ==
  ASSUME RightInv, Notify
  PROVE  RightInv'
<1>1. configLocked /\ patcher' = "woken" /\ UNCHANGED <<rdsing, anomalies>>
  BY DEF Notify, rdsVars
<1>2. ~AtRest
  BY <1>1 DEF AtRest
<1> QED
  BY <1>1, <1>2 DEF RightInv

LEMMA RightPatcher ==
  ASSUME Types, RightInv, Patcher
  PROVE  RightInv'
<1>1. /\ patcher \in {"woken", "patch"}
      /\ UNCHANGED <<configLocked, config, rdsing, mesh, anomalies>>
  BY DEF Patcher, LockRoutes, PatchRoute, UnlockRoutes, RoutesLocked, ameshVars, rdsVars
<1>2. ~AtRest
  BY <1>1 DEF AtRest
<1>3. CASE LockRoutes
  <2>1. patcher' = "patch" /\ DOMAIN patched' = {}
    BY <1>3 DEF LockRoutes, Types, RoutesLocked
  <2> QED
    BY <1>1, <1>2, <2>1 DEF RightInv
<1>4. CASE \E r \in Routes : PatchRoute(r)
  <2>1. PICK r \in Routes : PatchRoute(r)
    BY <1>4
  <2>2. /\ patcher = "patch" /\ patcher' = "patch"
        /\ patched' = Override(patched,
                        [x \in {r} |-> PatchAmeshPlugins(routes[r], config)])
    BY <2>1 DEF PatchRoute, RoutesLocked
  <2>3. /\ DOMAIN patched' = DOMAIN patched \cup {r}
        /\ patched'[r] = PatchAmeshPlugins(routes[r], config)
        /\ \A x \in DOMAIN patched \ {r} : patched'[x] = patched[x]
    BY <2>2 DEF Override
  <2>4. Right(patched'[r], mesh[r])
    BY <2>3, PatchedRight
  <2>5. ASSUME \A x \in DOMAIN patched : Right(patched[x], mesh[x])
        PROVE  \A x \in DOMAIN patched' : Right(patched'[x], mesh[x])
    BY <2>3, <2>4, <2>5
  <2>6. ASSUME \A x \in DOMAIN patched' : Right(patched'[x], mesh[x])
        PROVE  (\A x \in DOMAIN patched : Right(patched[x], mesh[x]))'
    BY <1>1, <2>6 DEF Right, External
  <2> QED
    BY <1>1, <1>2, <2>2, <2>5, <2>6 DEF RightInv
<1>5. CASE UnlockRoutes
  <2>1. patcher = "patch" /\ patcher' = "idle" /\ routes' = patched
    BY <1>5 DEF UnlockRoutes, Replace, RoutesLocked
  <2>2. ASSUME \A x \in DOMAIN patched : Right(patched[x], mesh[x])
        PROVE  (\A x \in DOMAIN routes : Right(routes[x], mesh[x]))'
    BY <1>1, <2>1, <2>2 DEF Right, External
  <2> QED
    BY <1>1, <1>2, <2>1, <2>2 DEF RightInv
<1> QED
  BY <1>3, <1>4, <1>5 DEF Patcher

LEMMA RightReceiveRDS ==
  ASSUME Types, RightInv, NEW m \in MeshRoutes, ReceiveRDS(m)
  PROVE  RightInv'
<1>1. /\ rdsing' = TRUE /\ ~rdsing /\ newRoutes' = newRoutes
      /\ UNCHANGED <<pending, configLocked, patcher>>
      /\ "race" \notin anomalies' => AtRest
  BY DEF ReceiveRDS, ameshVars, patchVars
<1>2. DOMAIN newRoutes' = {}
  BY <1>1 DEF Types
<1> QED
  BY <1>1, <1>2 DEF RightInv, AtRest

LEMMA RightTranslator ==
  ASSUME Types, RightInv, Translator
  PROVE  RightInv'
<1>1. CASE \E r \in Routes : Translate(r)
  <2>1. PICK r \in Routes : Translate(r)
    BY <1>1
  <2>2. /\ r \in DOMAIN translating
        /\ newRoutes' = Override(newRoutes,
                          [x \in {r} |-> TranslateRoute(translating[r], config)])
        /\ UNCHANGED <<pending, configLocked, config, patcher, rdsing, translating,
                       anomalies>>
    BY <2>1 DEF Translate, ameshVars, patchVars
  <2>3. /\ DOMAIN newRoutes' = DOMAIN newRoutes \cup {r}
        /\ newRoutes'[r] = TranslateRoute(translating[r], config)
        /\ \A x \in DOMAIN newRoutes \ {r} : newRoutes'[x] = newRoutes[x]
    BY <2>2 DEF Override
  <2>4. rdsing /\ rdsing'
    BY <2>2 DEF Types
  <2>5. Right(newRoutes'[r], translating[r])
    BY <2>3, TranslatedRight
  <2>6. ASSUME \A x \in DOMAIN newRoutes : Right(newRoutes[x], translating[x])
        PROVE  \A x \in DOMAIN newRoutes' : Right(newRoutes'[x], translating[x])
    BY <2>3, <2>5, <2>6
  <2>7. ASSUME \A x \in DOMAIN newRoutes' : Right(newRoutes'[x], translating[x])
        PROVE  (\A x \in DOMAIN newRoutes : Right(newRoutes[x], translating[x]))'
    BY <2>2, <2>7 DEF Right, External
  <2> QED
    BY <2>2, <2>4, <2>6, <2>7 DEF RightInv, AtRest
<1>2. CASE ReplaceRoutes
  <2>1. /\ rdsing /\ ~rdsing' /\ routes' = newRoutes /\ mesh' = translating
        /\ UNCHANGED <<configLocked, config, patcher, anomalies>>
    BY <1>2 DEF ReplaceRoutes, Replace, ameshVars, patchVars
  <2>2. "race" \notin anomalies =>
          AtRest /\ \A r \in DOMAIN newRoutes : Right(newRoutes[r], translating[r])
    BY <2>1 DEF RightInv
  <2>3. ASSUME \A x \in DOMAIN newRoutes : Right(newRoutes[x], translating[x])
        PROVE  (\A x \in DOMAIN routes : Right(routes[x], mesh[x]))'
    BY <2>1, <2>3 DEF Right, External
  <2> QED
    BY <2>1, <2>2, <2>3 DEF RightInv, AtRest
<1> QED
  BY <1>1, <1>2 DEF Translator

LEMMA RightNext ==
  ASSUME Types, RightInv, [Next]_vars
  PROVE  RightInv'
<1>1. CASE UNCHANGED vars
  BY <1>1 DEF RightInv, Right, External, AtRest, vars, ameshVars, patchVars, rdsVars,
              routeVars
<1> QED
  BY <1>1, RightUpdate, RightNotify, RightPatcher, RightReceiveRDS, RightTranslator DEF Next

-----------------------------------------------------------------------------
(***************************************************************************)
(* Theorems                                                                *)
(***************************************************************************)

LEMMA Invariance == Spec => []IInv
<1>1. Init => IInv
  <2>1. Init => StoredInv
    BY EmptyFn DEF Init, StoredInv
  <2> QED
    BY <2>1, TypesInit, AppliedInit, RightInit DEF IInv
<1>2. IInv /\ [Next]_vars => IInv'
  BY TypesNext, AppliedNext, StoredNext, RightNext DEF IInv
<1> QED
  BY <1>1, <1>2, PTL DEF Spec

\* The state stays well typed: in particular the patcher works through the
\* routes in place, which a translation cannot replace under its hands.
THEOREM TypeCorrect == Spec => []TypeOK
<1>1. IInv => TypeOK
  BY TypesImply DEF IInv
<1> QED
  BY <1>1, Invariance, PTL

\* updatePlugins puts the plugins of the last response in force and no others,
\* if its goroutines are not overtaken and versions rise as strings.
THEOREM LastResponseApplied == Spec => []PluginsApplied
<1>1. IInv => PluginsApplied
  BY DEF IInv, AppliedInv, LastInv, PluginsApplied
<1> QED
  BY <1>1, Invariance, PTL

\* Whatever the order in which updates come, routes are patched and routes are
\* translated, at rest the dictionary has each route of the mesh with exactly
\* the plugins in force, unless the plugins changed during a translation.
THEOREM RoutesGetPlugins == Spec => []RoutesPatched
<1>1. ASSUME IInv, AtRest, ~rdsing, "race" \notin anomalies, NEW r \in Routes
      PROVE  /\ r \in DOMAIN mesh <=> stored[r] # NoRoute
             /\ r \in DOMAIN mesh => Right(stored[r], mesh[r])
  <2>1. /\ DOMAIN routes = DOMAIN mesh /\ routes \in PartialFn(Routes, RoutePlugins)
        /\ stored[r] = IF r \in DOMAIN routes THEN routes[r] ELSE NoRoute
    BY <1>1 DEF IInv, Types, StoredInv
  <2>2. \A x \in DOMAIN routes : Right(routes[x], mesh[x])
    BY <1>1 DEF IInv, RightInv, AtRest
  <2>3. routes \in [DOMAIN routes -> RoutePlugins]
    BY <2>1, InPartialFn
  <2>4. NoRoute \notin RoutePlugins
    BY NoRouteAssumption DEF RoutePlugins, PartialFn
  <2> QED
    BY <2>1, <2>2, <2>3, <2>4
<1>2. IInv => RoutesPatched
  BY <1>1 DEF RoutesPatched, Right
<1> QED
  BY <1>2, Invariance, PTL

=============================================================================
