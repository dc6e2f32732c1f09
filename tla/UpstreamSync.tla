---------------------------- MODULE UpstreamSync ----------------------------
(***************************************************************************)
(* How the clusters and endpoints of the mesh become the upstreams in the  *)
(* shared dictionary that APISIX reads: the CDS and EDS branches of the    *)
(* xDS provisioner, its event channel, and the agent that stores events.   *)
(*                                                                         *)
(*   istiod --responses--> translate --evChan--> storeEvents -> DataStorage *)
(*      ^                      |                                           *)
(*      +------- requests -----+                                           *)
(*                                                                         *)
(* A response is handed to recvCh, and a batch of events to evChan, by a   *)
(* goroutine of its own, so both channels hold their messages in the order *)
(* in which they were produced but any of them may be taken next.          *)
(***************************************************************************)
EXTENDS Naturals, Sequences, ManifestDiff

CONSTANTS
  Clusters,       \* cluster names
  Endpoints,      \* endpoints a load assignment may list
  Unusable,       \* endpoints no APISIX node is made of (not TCP, named port, ...)
  Ignored,        \* the clusters ignoreEds matches
  Confs,          \* the settings of a cluster other than its nodes
  Meshes,         \* the states of the mesh istiod may announce
  MaxResponses,   \* bound on responses received and not yet translated
  MaxBatches,     \* bound on event batches waiting for the agent
  Missing         \* what a key holds that the shared dictionary does not have

\* An APISIX upstream: the settings taken from the cluster, and its nodes.
Upstream == [conf : Confs, nodes : SUBSET Endpoints]

\* A cluster as CDS announces it and EDS answers for it.  An EDS cluster has
\* its endpoints in a ClusterLoadAssignment, any other type (INLINE) in the
\* cluster itself, and a custom cluster type (CUSTOM) has none Amesh can use.
\* A cluster that does not unmarshal is one that is not announced.
Cluster == [kind : {"EDS", "INLINE", "CUSTOM"}, conf : Confs,
            eps : SUBSET Endpoints]

ASSUME UsableAssumption == Unusable \subseteq Endpoints
ASSUME IgnoredAssumption == Ignored \subseteq Clusters
ASSUME MeshesAssumption == Meshes \subseteq PartialFn(Clusters, Cluster)
ASSUME BoundsAssumption == MaxResponses \in Nat /\ MaxBatches \in Nat
ASSUME MissingAssumption == Missing \notin Upstream

VARIABLES
  mesh,         \* what istiod would answer now
  requests,     \* discovery requests istiod has not answered yet
  responses,    \* responses received, each held by its recvLoop goroutine
  upstreams,    \* p.upstreams: cluster name -> upstream
  evChan,       \* event batches, each held by a goroutine sending on evChan
  DataStorage,  \* the shared dictionary
  inOrder       \* no batch has overtaken an older one so far (history variable)

vars == <<mesh, requests, responses, upstreams, evChan, DataStorage, inOrder>>

Request == [type : {"CDS"}] \cup [type : {"CLA"}, names : SUBSET Clusters]

CdsRequest == [type |-> "CDS"]
EdsRequest(names) == [type |-> "CLA", names |-> names]

Response ==
  [type : {"CDS"}, clusters : Meshes]
    \cup [type : {"CLA"}, clas : PartialFn(Clusters, SUBSET Endpoints)]

Batch == PartialFn(Clusters, Upstream \cup {Missing})

-----------------------------------------------------------------------------
(***************************************************************************)
(* Translation of clusters and load assignments                            *)
(***************************************************************************)

\* Mutant: an endpoint that is not usable becomes a nil node.
TranslateClusterLoadAssignmentNil(eps) ==
  {IF e \in Unusable THEN Missing ELSE e : e \in eps}

\* TranslateClusterLoadAssignment on a load assignment that lists endpoints.
TranslateClusterLoadAssignment(eps) == eps \ Unusable

\* The ErrorRequireFurtherEDS of TranslateCluster: no endpoints at all in a
\* cluster that should carry them.
RequireFurtherEDS(d) == d.kind = "INLINE" /\ d.eps = {}

\* TranslateCluster.
TranslateCluster(d) ==
  [conf |-> d.conf,
   nodes |-> IF d.kind = "INLINE"
             THEN TranslateClusterLoadAssignment(d.eps) ELSE {}]

\* The upstreams of a CDS response, without the clusters that need EDS first.
NewUpstreams(cs) ==
  [c \in {k \in DOMAIN cs : ~RequireFurtherEDS(cs[k])} |-> TranslateCluster(cs[c])]

\* ignoreEds: the name contains that of a cluster nothing is asked for.
IgnoreEds(c) == c \in Ignored

\* p.edsRequiredClusters after a CDS response.
EdsRequiredClusters(cs) ==
  {c \in DOMAIN cs : \/ cs[c].kind = "EDS"
                     \/ RequireFurtherEDS(cs[c]) /\ ~IgnoreEds(c)}

\* oldManifest.Upstreams: the upstreams that have nodes.
OldManifest(ups) == [c \in {k \in DOMAIN ups : ups[k].nodes # {}} |-> ups[c]]

\* Mutant: the old upstream is used whatever the type of the cluster is.
NewManifestAlwaysOld(cs, ups) ==
  LET new == NewUpstreams(cs)
      kept == {c \in DOMAIN new : c \in DOMAIN ups /\ ups[c].nodes # {}}
      inline == {c \in DOMAIN new : new[c].nodes # {}}
  IN  [c \in kept \cup inline |-> IF c \in kept THEN ups[c] ELSE new[c]]

\* Mutant: the old upstream is never used.
NewManifestNeverOld(cs, ups) ==
  LET new == NewUpstreams(cs)
      inline == {c \in DOMAIN new : new[c].nodes # {}}
  IN  [c \in inline |-> new[c]]

\* newManifest.Upstreams of a CDS response: an EDS cluster keeps the upstream
\* it had, so that its nodes are not deleted before the EDS answer is there.
NewManifest(cs, ups) ==
  LET new == NewUpstreams(cs)
      kept == {c \in DOMAIN new :
                 cs[c].kind = "EDS" /\ c \in DOMAIN ups /\ ups[c].nodes # {}}
      inline == {c \in DOMAIN new : cs[c].kind # "EDS" /\ new[c].nodes # {}}
  IN  [c \in kept \cup inline |-> IF c \in kept THEN ups[c] ELSE new[c]]

\* The clusters a CLA response gives new nodes: known, with endpoints listed.
AppliedClusters(clas, ups) ==
  {c \in DOMAIN clas \cap DOMAIN ups : clas[c] # {}}

\* requireFurtherEds: known, but without a single endpoint, and not ignored.
EmptyClusters(clas, ups) ==
  {c \in DOMAIN clas \cap DOMAIN ups : clas[c] = {} /\ ~IgnoreEds(c)}

\* processClusterLoadAssignmentV3: the known upstream with the nodes replaced.
RefreshedUpstreams(clas, ups) ==
  [c \in AppliedClusters(clas, ups) |->
     [ups[c] EXCEPT !.nodes = TranslateClusterLoadAssignment(clas[c])]]

-----------------------------------------------------------------------------
(***************************************************************************)
(* istiod (external)                                                       *)
(***************************************************************************)

\* What istiod answers for the named clusters, none of them announced or not.
LoadAssignments(names) ==
  [c \in names |-> IF c \in DOMAIN mesh THEN mesh[c].eps ELSE {}]

CdsResponse == [type |-> "CDS", clusters |-> mesh]
ClaResponse(names) == [type |-> "CLA", clas |-> LoadAssignments(names)]

\* A service, its settings or its endpoints change.
MeshChange ==
  /\ mesh' \in Meshes \ {mesh}
  /\ UNCHANGED <<requests, responses, upstreams, evChan, DataStorage, inOrder>>

\* istiod pushes the clusters, or the endpoints of some, without being asked.
Push ==
  /\ Len(responses) < MaxResponses
  /\ \/ responses' = Append(responses, CdsResponse)
     \/ \E names \in SUBSET DOMAIN mesh :
          responses' = Append(responses, ClaResponse(names))
  /\ UNCHANGED <<mesh, requests, upstreams, evChan, DataStorage, inOrder>>

\* istiod answers a discovery request.
AnswerRequest(r) ==
  /\ r \in requests
  /\ Len(responses) < MaxResponses
  /\ requests' = requests \ {r}
  /\ responses' = Append(responses, IF r.type = "CDS" THEN CdsResponse
                                    ELSE ClaResponse(r.names))
  /\ UNCHANGED <<mesh, upstreams, evChan, DataStorage, inOrder>>

-----------------------------------------------------------------------------
(***************************************************************************)
(* The provisioner                                                         *)
(***************************************************************************)

\* The sequence without its i-th element.
RemoveAt(s, i) ==
  [j \in 1..(Len(s) - 1) |-> IF j < i THEN s[j] ELSE s[j + 1]]

\* evChan with one more batch; storeEvents returns at once from an empty one,
\* which is therefore not kept.
Enqueue(chan, batch) == IF DOMAIN batch = {} THEN chan ELSE Append(chan, batch)

\* Mutant: the timer is not started again once there are clusters.
PeriodicSyncOnce ==
  /\ upstreams = << >>
  /\ requests' = requests \cup {CdsRequest}
  /\ UNCHANGED <<mesh, responses, upstreams, evChan, DataStorage, inOrder>>

\* The periodic synchronisation: ask for the clusters again.
PeriodicSync ==
  /\ requests' = requests \cup {CdsRequest}
  /\ UNCHANGED <<mesh, responses, upstreams, evChan, DataStorage, inOrder>>

\* translate, CDS: replace the upstreams, ask for the endpoints of all EDS
\* clusters, and emit the difference of the manifests.
ReceiveCDS(i) ==
  /\ Len(evChan) < MaxBatches
  /\ responses[i].type = "CDS"
  /\ LET cs == responses[i].clusters IN
       /\ upstreams' = NewUpstreams(cs)
       /\ requests' = requests \cup {EdsRequest(EdsRequiredClusters(cs))}
       /\ evChan' = Enqueue(evChan, GenerateIncrementalEvents(
                      OldManifest(upstreams), NewManifest(cs, upstreams), Missing))
  /\ responses' = RemoveAt(responses, i)
  /\ UNCHANGED <<mesh, DataStorage, inOrder>>

\* translate, EDS: replace the nodes of the known clusters, always emit an
\* update for them, and ask again for the ones without endpoints.
ReceiveCLA(i) ==
  /\ Len(evChan) < MaxBatches
  /\ responses[i].type = "CLA"
  /\ LET clas == responses[i].clas
         refreshed == RefreshedUpstreams(clas, upstreams)
         empty == EmptyClusters(clas, upstreams)
     IN  /\ upstreams' = StoreEvents(upstreams, refreshed)
         /\ requests' = requests \cup
              (IF empty = {} THEN {} ELSE {EdsRequest(empty)})
         /\ evChan' = Enqueue(evChan, refreshed)
  /\ responses' = RemoveAt(responses, i)
  /\ UNCHANGED <<mesh, DataStorage, inOrder>>

Receive(i) == ReceiveCDS(i) \/ ReceiveCLA(i)

-----------------------------------------------------------------------------
(***************************************************************************)
(* The agent                                                               *)
(***************************************************************************)

\* The agent takes a batch from evChan and stores it.
Deliver(i) ==
  /\ DataStorage' = StoreEvents(DataStorage, evChan[i])
  /\ evChan' = RemoveAt(evChan, i)
  /\ inOrder' = (inOrder /\ i = 1)
  /\ UNCHANGED <<mesh, requests, responses, upstreams>>

-----------------------------------------------------------------------------

\* The connection is up, firstSend has asked for the clusters.
Init ==
  /\ mesh \in Meshes
  /\ requests = {CdsRequest}
  /\ responses = << >>
  /\ upstreams = << >>
  /\ evChan = << >>
  /\ DataStorage = [c \in Clusters |-> Missing]
  /\ inOrder = TRUE

Next ==
  \/ MeshChange
  \/ Push
  \/ \E r \in requests : AnswerRequest(r)
  \/ PeriodicSync
  \/ \E i \in 1..Len(responses) : Receive(i)
  \/ \E i \in 1..Len(evChan) : Deliver(i)

Spec == Init /\ [][Next]_vars

\* The first response and the first batch are always taken eventually (the
\* goroutines blocked on a Go channel are served first come, first served),
\* istiod answers, and the sync timer keeps firing.
Fairness ==
  /\ SF_vars(responses # << >> /\ Receive(1))
  /\ WF_vars(evChan # << >> /\ Deliver(1))
  /\ \A r \in Request : SF_vars(AnswerRequest(r))
  /\ WF_vars(PeriodicSync)

FairSpec == Spec /\ Fairness

-----------------------------------------------------------------------------
(***************************************************************************)
(* Properties                                                              *)
(***************************************************************************)

\* Every variable has its type: responses carry states of the mesh, upstreams
\* and batches are maps over cluster names, the dictionary holds an upstream or
\* nothing under every key.
TypeOK ==
  /\ mesh \in Meshes
  /\ requests \subseteq Request
  /\ responses \in Seq(Response)
  /\ upstreams \in PartialFn(Clusters, Upstream)
  /\ evChan \in Seq(Batch)
  /\ DataStorage \in [Clusters -> Upstream \cup {Missing}]
  /\ inOrder \in BOOLEAN

\* The batches of a channel that write the key of cluster c.
Touching(chan, c) == {i \in 1..Len(chan) : c \in DOMAIN chan[i]}

\* Once the batches of chan are stored in the order they were produced, the
\* store holds v for cluster c.
WillHold(chan, store, c, v) ==
  \/ Touching(chan, c) = {} /\ store[c] = v
  \/ \E i \in Touching(chan, c) :
       /\ chan[i][c] = v
       /\ \A j \in Touching(chan, c) : j <= i

\* No upstream is lost on the way to the dictionary: whatever order responses
\* are translated in, every upstream the provisioner knows with nodes is what
\* the dictionary holds, or will hold after the waiting batches, as long as
\* evChan has delivered the batches in order.  This is what lets the
\* provisioner send differences only (generateIncrementalEvents).
LiveUpstreamsStored ==
  inOrder => \A c \in DOMAIN upstreams :
               upstreams[c].nodes # {}
                 => WillHold(evChan, DataStorage, c, upstreams[c])

\* Clusters that are EDS clusters with a usable endpoint in every state of the
\* mesh: services that are never taken down.
ServingClusters ==
  {c \in Clusters :
     \A m \in Meshes : /\ c \in DOMAIN m
                       /\ m[c].kind = "EDS"
                       /\ m[c].eps \ Unusable # {}}

Serves(v) == v \in Upstream /\ v.nodes # {}

\* A service that never leaves the mesh and never loses its last endpoint is
\* never removed from the dictionary nor left without nodes once it is there,
\* in whatever order responses and batches overtake each other and although
\* every CDS response resets its nodes (the "use old upstream to avoid empty
\* Nodes" branch of translate).
KeepsServing ==
  \A c \in ServingClusters : Serves(DataStorage[c]) => Serves(DataStorage'[c])

NoServiceGap == [][KeepsServing]_vars

\* The upstream the dictionary should hold for an EDS cluster of the mesh.
ExpectedUpstream(d) == [conf |-> d.conf, nodes |-> d.eps \ Unusable]

\* When the mesh stops changing, the dictionary ends up with exactly the
\* settings and endpoints of every EDS cluster that has an endpoint, and keeps
\* them: the periodic CDS request heals whatever reordering did to it.
EdsConverges ==
  \A m \in Meshes :
    <>[](mesh = m) =>
      <>[](\A c \in DOMAIN m :
             m[c].kind = "EDS" /\ m[c].eps # {}
               => DataStorage[c] = ExpectedUpstream(m[c]))

\* What the README says of the store, for clusters that are gone: with every
\* response translated and every batch stored in order, the dictionary holds
\* upstreams of known clusters only.
NoOrphanUpstream ==
  inOrder /\ evChan = << >> =>
    \A c \in Clusters : DataStorage[c] \in Upstream => c \in DOMAIN upstreams

=============================================================================
