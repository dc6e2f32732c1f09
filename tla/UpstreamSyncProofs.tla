------------------------- MODULE UpstreamSyncProofs -------------------------
(***************************************************************************)
(* Proofs about UpstreamSync, for every set of clusters, endpoints and     *)
(* mesh states and every bound.                                            *)
(***************************************************************************)
EXTENDS UpstreamSync, TLAPS

\* A function of a PartialFn set is one whose domain and values fit.
LEMMA PartialFnIntro ==
  ASSUME NEW D, NEW R, NEW S \in SUBSET D, NEW f \in [S -> R]
  PROVE  f \in PartialFn(D, R)
BY DEF PartialFn

\* What membership in a PartialFn set says of domain and values.
LEMMA PartialFnElim ==
  ASSUME NEW D, NEW R, NEW f \in PartialFn(D, R)
  PROVE  /\ DOMAIN f \subseteq D
         /\ f = [k \in DOMAIN f |-> f[k]]
         /\ \A k \in DOMAIN f : f[k] \in R
<1>1. PICK S \in SUBSET D : f \in [S -> R]
  BY DEF PartialFn
<1> QED
  BY <1>1

\* Removing the element at i keeps the others, shifted.
LEMMA RemoveAtProperties ==
  ASSUME NEW S, NEW s \in Seq(S), NEW i \in 1..Len(s)
  PROVE  /\ RemoveAt(s, i) \in Seq(S)
         /\ Len(RemoveAt(s, i)) = Len(s) - 1
         /\ \A j \in 1..(Len(s) - 1) :
              RemoveAt(s, i)[j] = IF j < i THEN s[j] ELSE s[j + 1]
BY DEF RemoveAt

\* A queue grows by at most the batch, at its end.
LEMMA EnqueueProperties ==
  ASSUME NEW S, NEW q \in Seq(S), NEW b \in S
  PROVE  /\ Enqueue(q, b) \in Seq(S)
         /\ DOMAIN b # {} =>
              /\ Len(Enqueue(q, b)) = Len(q) + 1
              /\ Enqueue(q, b)[Len(q) + 1] = b
              /\ \A j \in 1..Len(q) : Enqueue(q, b)[j] = q[j]
         /\ DOMAIN b = {} => Enqueue(q, b) = q
BY DEF Enqueue

\* The difference of two manifests is a map over their keys.
LEMMA GenerateIncrementalEventsType ==
  ASSUME NEW D, NEW R, NEW old \in PartialFn(D, R), NEW new \in PartialFn(D, R),
         NEW gone
  PROVE  GenerateIncrementalEvents(old, new, gone) \in PartialFn(D, R \cup {gone})
<1>1. DOMAIN old \subseteq D /\ DOMAIN new \subseteq D
  BY PartialFnElim
<1>2. \A k \in DOMAIN new : new[k] \in R
  BY PartialFnElim
<1>3. ChangedKeys(old, new) \in SUBSET D
  BY <1>1 DEF ChangedKeys
<1>4. GenerateIncrementalEvents(old, new, gone)
        \in [ChangedKeys(old, new) -> R \cup {gone}]
  BY <1>2 DEF GenerateIncrementalEvents
<1> QED
  BY <1>3, <1>4, PartialFnIntro

\* A usable part of a set of endpoints is a set of endpoints.
LEMMA TranslateClusterType ==
  ASSUME NEW d \in Cluster
  PROVE  TranslateCluster(d) \in Upstream
BY DEF Cluster, Upstream, TranslateCluster, TranslateClusterLoadAssignment

\* What a CDS response is translated to.
LEMMA NewUpstreamsType ==
  ASSUME NEW cs \in Meshes
  PROVE  /\ NewUpstreams(cs) \in PartialFn(Clusters, Upstream)
         /\ DOMAIN NewUpstreams(cs) \subseteq DOMAIN cs
<1>1. cs \in PartialFn(Clusters, Cluster)
  BY MeshesAssumption
<1>2. DOMAIN cs \subseteq Clusters /\ \A c \in DOMAIN cs : cs[c] \in Cluster
  BY <1>1, PartialFnElim
<1> DEFINE K == {k \in DOMAIN cs : ~RequireFurtherEDS(cs[k])}
<1>3. NewUpstreams(cs) \in [K -> Upstream]
  BY <1>2, TranslateClusterType DEF NewUpstreams
<1>4. K \in SUBSET Clusters
  BY <1>2
<1> QED
  BY <1>3, <1>4, PartialFnIntro

\* The manifests a CDS response is compared with are maps of upstreams.
LEMMA ManifestTypes ==
  ASSUME NEW cs \in Meshes, NEW ups \in PartialFn(Clusters, Upstream)
  PROVE  /\ OldManifest(ups) \in PartialFn(Clusters, Upstream)
         /\ NewManifest(cs, ups) \in PartialFn(Clusters, Upstream)
<1>1. DOMAIN ups \subseteq Clusters /\ \A c \in DOMAIN ups : ups[c] \in Upstream
  BY PartialFnElim
<1>2. OldManifest(ups) \in PartialFn(Clusters, Upstream)
  <2> DEFINE K == {k \in DOMAIN ups : ups[k].nodes # {}}
  <2>1. K \in SUBSET Clusters
    BY <1>1
  <2>2. OldManifest(ups) \in [K -> Upstream]
    BY <1>1 DEF OldManifest
  <2> QED
    BY <2>1, <2>2, PartialFnIntro
<1>3. NewManifest(cs, ups) \in PartialFn(Clusters, Upstream)
  <2> DEFINE new == NewUpstreams(cs)
             kept == {c \in DOMAIN new :
                        cs[c].kind = "EDS" /\ c \in DOMAIN ups /\ ups[c].nodes # {}}
             inline == {c \in DOMAIN new : cs[c].kind # "EDS" /\ new[c].nodes # {}}
  <2>1. new \in PartialFn(Clusters, Upstream)
    BY NewUpstreamsType
  <2>2. DOMAIN new \subseteq Clusters /\ \A c \in DOMAIN new : new[c] \in Upstream
    BY <2>1, PartialFnElim
  <2>3. NewManifest(cs, ups) = [c \in kept \cup inline |->
                                  IF c \in kept THEN ups[c] ELSE new[c]]
    BY DEF NewManifest
  <2>4. NewManifest(cs, ups) \in [kept \cup inline -> Upstream]
    <3> HIDE DEF new
    <3> QED BY <1>1, <2>2, <2>3
  <2>5. kept \cup inline \in SUBSET Clusters
    BY <2>2
  <2> HIDE DEF kept, inline, new
  <2> QED
    BY <2>4, <2>5, PartialFnIntro
<1> QED
  BY <1>2, <1>3

\* What a CLA response makes of the known upstreams.
LEMMA RefreshedUpstreamsType ==
  ASSUME NEW clas \in PartialFn(Clusters, SUBSET Endpoints),
         NEW ups \in PartialFn(Clusters, Upstream)
  PROVE  /\ RefreshedUpstreams(clas, ups) \in PartialFn(Clusters, Upstream)
         /\ DOMAIN RefreshedUpstreams(clas, ups) = AppliedClusters(clas, ups)
         /\ StoreEvents(ups, RefreshedUpstreams(clas, ups))
              \in PartialFn(Clusters, Upstream)
<1>1. DOMAIN ups \subseteq Clusters /\ \A c \in DOMAIN ups : ups[c] \in Upstream
  BY PartialFnElim
<1>2. \A c \in DOMAIN clas : clas[c] \in SUBSET Endpoints
  BY PartialFnElim
<1> DEFINE K == AppliedClusters(clas, ups)
           new == RefreshedUpstreams(clas, ups)
<1>3. K \subseteq DOMAIN clas /\ K \subseteq DOMAIN ups
  BY DEF AppliedClusters
<1>4. new \in [K -> Upstream]
  BY <1>1, <1>2, <1>3
     DEF RefreshedUpstreams, TranslateClusterLoadAssignment, Upstream
<1>5. new \in PartialFn(Clusters, Upstream)
  BY <1>1, <1>3, <1>4, PartialFnIntro
<1>6. StoreEvents(ups, new) \in [DOMAIN ups -> Upstream]
  BY <1>1, <1>4 DEF StoreEvents
<1>7. StoreEvents(ups, new) \in PartialFn(Clusters, Upstream)
  BY <1>1, <1>6, PartialFnIntro
<1> QED
  BY <1>4, <1>5, <1>7

-----------------------------------------------------------------------------
(***************************************************************************)
(* Type correctness                                                        *)
(***************************************************************************)

\* The answers of istiod have the type of a response.
LEMMA AnswerTypes ==
  ASSUME TypeOK
  PROVE  /\ CdsResponse \in Response
         /\ \A names \in SUBSET Clusters : ClaResponse(names) \in Response
         /\ DOMAIN mesh \subseteq Clusters
<1>1. mesh \in PartialFn(Clusters, Cluster)
  BY MeshesAssumption DEF TypeOK
<1>2. DOMAIN mesh \subseteq Clusters /\ \A c \in DOMAIN mesh : mesh[c] \in Cluster
  BY <1>1, PartialFnElim
<1>3. CdsResponse \in Response
  BY DEF TypeOK, CdsResponse, Response
<1>4. ASSUME NEW names \in SUBSET Clusters
      PROVE  ClaResponse(names) \in Response
  <2>1. LoadAssignments(names) \in [names -> SUBSET Endpoints]
    BY <1>2 DEF LoadAssignments, Cluster
  <2>2. LoadAssignments(names) \in PartialFn(Clusters, SUBSET Endpoints)
    BY <2>1, PartialFnIntro
  <2> QED
    BY <2>2 DEF ClaResponse, Response
<1> QED
  BY <1>2, <1>3, <1>4

\* What is known of the response a step translates.
LEMMA ResponseShape ==
  ASSUME TypeOK, NEW i \in 1..Len(responses)
  PROVE  /\ responses[i].type = "CDS" => responses[i].clusters \in Meshes
         /\ responses[i].type = "CLA" =>
              responses[i].clas \in PartialFn(Clusters, SUBSET Endpoints)
         /\ RemoveAt(responses, i) \in Seq(Response)
<1>1. responses[i] \in Response
  BY DEF TypeOK
<1>2. RemoveAt(responses, i) \in Seq(Response)
  BY RemoveAtProperties DEF TypeOK
<1> QED
  BY <1>1, <1>2 DEF Response

\* The batch of a CDS response, and the upstreams after it.
CdsBatch(cs) ==
  GenerateIncrementalEvents(OldManifest(upstreams), NewManifest(cs, upstreams), Missing)

\* The batch of a CDS response is a batch.
LEMMA CdsBatchType ==
  ASSUME TypeOK, NEW cs \in Meshes
  PROVE  CdsBatch(cs) \in Batch
BY ManifestTypes, GenerateIncrementalEventsType DEF TypeOK, CdsBatch, Batch

\* The batch of a CLA response is a batch: it deletes nothing.
LEMMA ClaBatchType ==
  ASSUME TypeOK, NEW clas \in PartialFn(Clusters, SUBSET Endpoints)
  PROVE  RefreshedUpstreams(clas, upstreams) \in Batch
<1> DEFINE b == RefreshedUpstreams(clas, upstreams)
<1>1. b \in PartialFn(Clusters, Upstream)
  BY RefreshedUpstreamsType DEF TypeOK
<1>2. PICK S \in SUBSET Clusters : b \in [S -> Upstream]
  BY <1>1 DEF PartialFn
<1>3. b \in [S -> Upstream \cup {Missing}]
  BY <1>2
<1> QED
  BY <1>3, PartialFnIntro DEF Batch

\* The types hold before the first response.
LEMMA TypeOKInit == Init => TypeOK
<1> SUFFICES ASSUME Init PROVE TypeOK
  OBVIOUS
<1>1. << >> \in PartialFn(Clusters, Upstream)
  <2>1. << >> \in [{} -> Upstream]
    OBVIOUS
  <2> QED
    BY <2>1, PartialFnIntro
<1>2. {CdsRequest} \subseteq Request
  BY DEF CdsRequest, Request
<1> QED
  BY <1>1, <1>2 DEF Init, TypeOK

\* Every step of istiod, the provisioner and the agent keeps the types.
LEMMA TypeOKNext == TypeOK /\ [Next]_vars => TypeOK'
<1> SUFFICES ASSUME TypeOK, [Next]_vars PROVE TypeOK'
  OBVIOUS
<1>1. CASE MeshChange
  BY <1>1 DEF TypeOK, MeshChange
<1>2. CASE Push
  BY <1>2, AnswerTypes DEF TypeOK, Push
<1>3. ASSUME NEW r \in requests, AnswerRequest(r) PROVE TypeOK'
  <2>1. r.type # "CDS" => r.names \in SUBSET Clusters
    BY DEF TypeOK, Request
  <2>2. (IF r.type = "CDS" THEN CdsResponse ELSE ClaResponse(r.names)) \in Response
    BY <2>1, AnswerTypes
  <2> QED
    BY <1>3, <2>2 DEF TypeOK, AnswerRequest
<1>4. CASE PeriodicSync
  BY <1>4 DEF TypeOK, PeriodicSync, Request, CdsRequest
<1>5. ASSUME NEW i \in 1..Len(responses), ReceiveCDS(i) PROVE TypeOK'
  <2> DEFINE cs == responses[i].clusters
  <2>1. cs \in Meshes /\ RemoveAt(responses, i) \in Seq(Response)
    BY <1>5, ResponseShape DEF ReceiveCDS
  <2>2. upstreams' \in PartialFn(Clusters, Upstream)
    BY <1>5, <2>1, NewUpstreamsType DEF ReceiveCDS
  <2>3. requests' \subseteq Request
    <3>1. DOMAIN cs \subseteq Clusters
      BY <2>1, MeshesAssumption, PartialFnElim
    <3>2. EdsRequiredClusters(cs) \in SUBSET Clusters
      BY <3>1 DEF EdsRequiredClusters
    <3> QED
      BY <1>5, <3>2 DEF TypeOK, ReceiveCDS, Request, EdsRequest
  <2>4. evChan' \in Seq(Batch)
    BY <1>5, <2>1, CdsBatchType, EnqueueProperties
       DEF TypeOK, ReceiveCDS, CdsBatch
  <2> QED
    BY <1>5, <2>1, <2>2, <2>3, <2>4 DEF TypeOK, ReceiveCDS
<1>6. ASSUME NEW i \in 1..Len(responses), ReceiveCLA(i) PROVE TypeOK'
  <2> DEFINE clas == responses[i].clas
  <2>1. /\ clas \in PartialFn(Clusters, SUBSET Endpoints)
        /\ RemoveAt(responses, i) \in Seq(Response)
    BY <1>6, ResponseShape DEF ReceiveCLA
  <2>2. upstreams' \in PartialFn(Clusters, Upstream)
    BY <1>6, <2>1, RefreshedUpstreamsType DEF TypeOK, ReceiveCLA
  <2>3. requests' \subseteq Request
    <3>1. EmptyClusters(clas, upstreams) \in SUBSET Clusters
      BY <2>1, PartialFnElim DEF EmptyClusters
    <3> QED
      BY <1>6, <3>1 DEF TypeOK, ReceiveCLA, Request, EdsRequest
  <2>4. evChan' \in Seq(Batch)
    BY <1>6, <2>1, ClaBatchType, EnqueueProperties DEF TypeOK, ReceiveCLA
  <2> QED
    BY <1>6, <2>1, <2>2, <2>3, <2>4 DEF TypeOK, ReceiveCLA
<1>7. ASSUME NEW i \in 1..Len(evChan), Deliver(i) PROVE TypeOK'
  <2>1. RemoveAt(evChan, i) \in Seq(Batch)
    BY RemoveAtProperties DEF TypeOK
  <2>2. evChan[i] \in Batch
    BY DEF TypeOK
  <2>3. \A c \in DOMAIN evChan[i] : evChan[i][c] \in Upstream \cup {Missing}
    BY <2>2, PartialFnElim DEF Batch
  <2>4. DataStorage' \in [Clusters -> Upstream \cup {Missing}]
    BY <1>7, <2>3 DEF TypeOK, Deliver, StoreEvents
  <2> QED
    BY <1>7, <2>1, <2>4 DEF TypeOK, Deliver
<1>8. CASE UNCHANGED vars
  BY <1>8 DEF TypeOK, vars
<1> QED
  BY <1>1, <1>2, <1>3, <1>4, <1>5, <1>6, <1>7, <1>8 DEF Next, Receive

\* Every reachable state has the types of TypeOK: the maps the provisioner and
\* the agent exchange stay maps of upstreams over the announced clusters.
THEOREM TypeCorrect == Spec => []TypeOK
BY TypeOKInit, TypeOKNext, PTL DEF Spec

-----------------------------------------------------------------------------
(***************************************************************************)
(* A service that stays in the mesh is never taken out of the dictionary   *)
(***************************************************************************)

\* The strengthening of NoServiceGap: no batch that waits, and no response that
\* waits, would leave a serving cluster without nodes.
ServingInv ==
  \A c \in ServingClusters :
    /\ \A i \in 1..Len(evChan) :
         c \in DOMAIN evChan[i] => Serves(evChan[i][c])
    /\ \A i \in 1..Len(responses) :
         responses[i].type = "CLA" /\ c \in DOMAIN responses[i].clas
           => responses[i].clas[c] \ Unusable # {}

\* A CDS response says nothing about a serving cluster: it either keeps the
\* upstream in both manifests or has it in none.
LEMMA CdsBatchSkipsServing ==
  ASSUME TypeOK, NEW cs \in Meshes, NEW c \in ServingClusters
  PROVE  c \notin DOMAIN CdsBatch(cs)
<1>1. c \in DOMAIN cs /\ cs[c].kind = "EDS"
  BY DEF ServingClusters
<1>2. c \in DOMAIN NewUpstreams(cs)
  BY <1>1 DEF NewUpstreams, RequireFurtherEDS
<1>3. /\ c \in DOMAIN OldManifest(upstreams)
           <=> c \in DOMAIN upstreams /\ upstreams[c].nodes # {}
      /\ c \in DOMAIN OldManifest(upstreams)
           => OldManifest(upstreams)[c] = upstreams[c]
  BY DEF OldManifest
<1>4. /\ c \in DOMAIN NewManifest(cs, upstreams)
           <=> c \in DOMAIN upstreams /\ upstreams[c].nodes # {}
      /\ c \in DOMAIN NewManifest(cs, upstreams)
           => NewManifest(cs, upstreams)[c] = upstreams[c]
  BY <1>1, <1>2 DEF NewManifest
<1> QED
  BY <1>3, <1>4 DEF CdsBatch, GenerateIncrementalEvents, ChangedKeys

\* A CLA response gives a serving cluster at least one node.
LEMMA ClaBatchServes ==
  ASSUME TypeOK, NEW clas \in PartialFn(Clusters, SUBSET Endpoints),
         NEW c \in DOMAIN RefreshedUpstreams(clas, upstreams),
         clas[c] \ Unusable # {}
  PROVE  Serves(RefreshedUpstreams(clas, upstreams)[c])
<1> DEFINE b == RefreshedUpstreams(clas, upstreams)
<1>1. b \in PartialFn(Clusters, Upstream) /\ c \in AppliedClusters(clas, upstreams)
  BY RefreshedUpstreamsType DEF TypeOK
<1>2. b[c] \in Upstream
  BY <1>1, PartialFnElim
<1>3. upstreams[c] \in Upstream
  BY <1>1, PartialFnElim DEF TypeOK, AppliedClusters
<1>4. b[c].nodes = clas[c] \ Unusable
  BY <1>1, <1>3 DEF RefreshedUpstreams, TranslateClusterLoadAssignment, Upstream
<1> QED
  BY <1>2, <1>4 DEF Serves

\* A batch that does no harm may be queued.
LEMMA ServingEnqueue ==
  ASSUME TypeOK, ServingInv, NEW b \in Batch, evChan' = Enqueue(evChan, b),
         NEW c \in ServingClusters, c \in DOMAIN b => Serves(b[c])
  PROVE  \A i \in 1..Len(evChan') :
           c \in DOMAIN evChan'[i] => Serves(evChan'[i][c])
<1>1. CASE DOMAIN b = {}
  <2>1. evChan' = evChan
    BY <1>1 DEF Enqueue
  <2> QED
    BY <2>1 DEF ServingInv
<1>2. CASE DOMAIN b # {}
  <2>1. /\ Len(evChan') = Len(evChan) + 1
        /\ evChan'[Len(evChan) + 1] = b
        /\ \A j \in 1..Len(evChan) : evChan'[j] = evChan[j]
    BY <1>2, EnqueueProperties DEF TypeOK
  <2>2. Len(evChan) \in Nat
    BY DEF TypeOK
  <2> QED
    BY <2>1, <2>2 DEF ServingInv
<1> QED
  BY <1>1, <1>2

\* Taking a response out of the queue keeps what is known of the others.
LEMMA ServingDequeue ==
  ASSUME TypeOK, ServingInv, NEW i \in 1..Len(responses),
         responses' = RemoveAt(responses, i), NEW c \in ServingClusters
  PROVE  \A j \in 1..Len(responses') :
           responses'[j].type = "CLA" /\ c \in DOMAIN responses'[j].clas
             => responses'[j].clas[c] \ Unusable # {}
<1>1. /\ Len(responses') = Len(responses) - 1
      /\ \A j \in 1..(Len(responses) - 1) :
           responses'[j] = IF j < i THEN responses[j] ELSE responses[j + 1]
  BY RemoveAtProperties DEF TypeOK
<1>2. Len(responses) \in Nat
  BY DEF TypeOK
<1>3. SUFFICES ASSUME NEW j \in 1..Len(responses')
      PROVE  \E k \in 1..Len(responses) : responses'[j] = responses[k]
  BY DEF ServingInv
<1>4. CASE j < i
  BY <1>1, <1>2, <1>4
<1>5. CASE ~(j < i)
  <2>1. j + 1 \in 1..Len(responses) /\ responses'[j] = responses[j + 1]
    BY <1>1, <1>2, <1>5
  <2> QED
    BY <2>1
<1> QED
  BY <1>4, <1>5

\* Every answer istiod gives has a usable endpoint for a serving cluster.
LEMMA ServingAnswer ==
  ASSUME TypeOK, ServingInv, NEW c \in ServingClusters,
         NEW resp \in {CdsResponse} \cup {ClaResponse(names) : names \in SUBSET Clusters},
         responses' = Append(responses, resp)
  PROVE  \A i \in 1..Len(responses') :
           responses'[i].type = "CLA" /\ c \in DOMAIN responses'[i].clas
             => responses'[i].clas[c] \ Unusable # {}
<1>1. c \in DOMAIN mesh /\ mesh[c].eps \ Unusable # {}
  BY DEF TypeOK, ServingClusters
<1>2. resp.type = "CLA" /\ c \in DOMAIN resp.clas => resp.clas[c] \ Unusable # {}
  BY <1>1 DEF CdsResponse, ClaResponse, LoadAssignments
<1>3. /\ Len(responses') = Len(responses) + 1
      /\ responses'[Len(responses) + 1] = resp
      /\ \A j \in 1..Len(responses) : responses'[j] = responses[j]
      /\ Len(responses) \in Nat
  BY AnswerTypes DEF TypeOK
<1> QED
  BY <1>2, <1>3 DEF ServingInv

\* Both channels start empty.
LEMMA ServingInvInit == Init => ServingInv
BY DEF Init, ServingInv, ServingClusters

\* Every step keeps ServingInv: istiod answers with a usable endpoint, a CDS
\* response does not touch a serving cluster, a CLA response gives it nodes.
LEMMA ServingInvNext == TypeOK /\ ServingInv /\ [Next]_vars => ServingInv'
<1> SUFFICES ASSUME TypeOK, ServingInv, [Next]_vars PROVE ServingInv'
  OBVIOUS
<1>1. CASE MeshChange
  BY <1>1 DEF ServingInv, MeshChange
<1>2. CASE Push
  <2>1. PICK resp \in {CdsResponse} \cup {ClaResponse(names) : names \in SUBSET Clusters} :
          responses' = Append(responses, resp)
    BY <1>2, AnswerTypes DEF Push
  <2> QED
    BY <1>2, <2>1, ServingAnswer DEF ServingInv, Push
<1>3. ASSUME NEW r \in requests, AnswerRequest(r) PROVE ServingInv'
  <2>1. r.type # "CDS" => r.names \in SUBSET Clusters
    BY DEF TypeOK, Request
  <2>2. PICK resp \in {CdsResponse} \cup {ClaResponse(names) : names \in SUBSET Clusters} :
          responses' = Append(responses, resp)
    BY <1>3, <2>1 DEF AnswerRequest
  <2> QED
    BY <1>3, <2>2, ServingAnswer DEF ServingInv, AnswerRequest
<1>4. CASE PeriodicSync
  BY <1>4 DEF ServingInv, PeriodicSync
<1>5. ASSUME NEW i \in 1..Len(responses), ReceiveCDS(i) PROVE ServingInv'
  <2> DEFINE cs == responses[i].clusters
  <2>1. cs \in Meshes
    BY <1>5, ResponseShape DEF ReceiveCDS
  <2>2. /\ evChan' = Enqueue(evChan, CdsBatch(cs))
        /\ responses' = RemoveAt(responses, i)
        /\ UNCHANGED DataStorage
    BY <1>5 DEF ReceiveCDS, CdsBatch
  <2>3. CdsBatch(cs) \in Batch
    BY <2>1, CdsBatchType
  <2> HIDE DEF cs
  <2>4. \A c \in ServingClusters : c \notin DOMAIN CdsBatch(cs)
    BY <2>1, CdsBatchSkipsServing
  <2> QED
    BY <2>2, <2>3, <2>4, ServingEnqueue, ServingDequeue DEF ServingInv
<1>6. ASSUME NEW i \in 1..Len(responses), ReceiveCLA(i) PROVE ServingInv'
  <2> DEFINE clas == responses[i].clas
             b == RefreshedUpstreams(clas, upstreams)
  <2>1. clas \in PartialFn(Clusters, SUBSET Endpoints) /\ responses[i].type = "CLA"
    BY <1>6, ResponseShape DEF ReceiveCLA
  <2>2. /\ evChan' = Enqueue(evChan, b)
        /\ responses' = RemoveAt(responses, i)
        /\ UNCHANGED DataStorage
    BY <1>6 DEF ReceiveCLA
  <2>3. b \in Batch
    BY <2>1, ClaBatchType
  <2>4. \A c \in ServingClusters : c \in DOMAIN clas => clas[c] \ Unusable # {}
    BY <2>1 DEF ServingInv
  <2>5. DOMAIN b \subseteq DOMAIN clas
    BY <2>1, RefreshedUpstreamsType DEF TypeOK, AppliedClusters
  <2>6. \A c \in ServingClusters : c \in DOMAIN b => Serves(b[c])
    BY <2>1, <2>4, <2>5, ClaBatchServes
  <2> HIDE DEF clas, b
  <2> QED
    BY <2>2, <2>3, <2>6, ServingEnqueue, ServingDequeue DEF ServingInv
<1>7. ASSUME NEW i \in 1..Len(evChan), Deliver(i) PROVE ServingInv'
  <2>1. /\ Len(evChan') = Len(evChan) - 1
        /\ \A j \in 1..(Len(evChan) - 1) :
             evChan'[j] = IF j < i THEN evChan[j] ELSE evChan[j + 1]
    BY <1>7, RemoveAtProperties DEF TypeOK, Deliver
  <2>2. Len(evChan) \in Nat
    BY DEF TypeOK
  <2>3. \A j \in 1..Len(evChan') : \E k \in 1..Len(evChan) : evChan'[j] = evChan[k]
    <3>1. SUFFICES ASSUME NEW j \in 1..Len(evChan')
                   PROVE  \E k \in 1..Len(evChan) : evChan'[j] = evChan[k]
      OBVIOUS
    <3>2. CASE j < i
      BY <2>1, <2>2, <3>2
    <3>3. CASE ~(j < i)
      <4>1. j + 1 \in 1..Len(evChan) /\ evChan'[j] = evChan[j + 1]
        BY <2>1, <2>2, <3>3
      <4> QED
        BY <4>1
    <3> QED
      BY <3>2, <3>3
  <2>4. UNCHANGED responses
    BY <1>7 DEF Deliver
  <2> QED
    BY <2>3, <2>4 DEF ServingInv
<1>8. CASE UNCHANGED vars
  BY <1>8 DEF ServingInv, vars
<1> QED
  BY <1>1, <1>2, <1>3, <1>4, <1>5, <1>6, <1>7, <1>8 DEF Next, Receive

\* Once a service that never leaves the mesh and always has a usable endpoint
\* is in the dictionary, it stays there with nodes, however responses and
\* batches overtake each other.
THEOREM ServiceGapFree == Spec => NoServiceGap
<1>1. TypeOK /\ ServingInv /\ [Next]_vars => [KeepsServing]_vars
  <2> SUFFICES ASSUME TypeOK, ServingInv, [Next]_vars PROVE KeepsServing
    OBVIOUS
  <2>1. CASE UNCHANGED DataStorage
    BY <2>1 DEF KeepsServing
  <2>2. ASSUME NEW i \in 1..Len(evChan), Deliver(i) PROVE KeepsServing
    <3>1. \A c \in ServingClusters :
            DataStorage'[c] = IF c \in DOMAIN evChan[i] THEN evChan[i][c] ELSE DataStorage[c]
      BY <2>2 DEF Deliver, StoreEvents, TypeOK, ServingClusters
    <3> QED
      BY <3>1 DEF ServingInv, KeepsServing
  <2>3. MeshChange \/ Push \/ (\E r \in requests : AnswerRequest(r)) \/ PeriodicSync
          \/ (\E i \in 1..Len(responses) : Receive(i))
          => UNCHANGED DataStorage
    BY DEF MeshChange, Push, AnswerRequest, PeriodicSync, Receive, ReceiveCDS, ReceiveCLA
  <2> QED
    BY <2>1, <2>2, <2>3 DEF Next, vars
<1> QED
  BY <1>1, TypeOKInit, TypeOKNext, ServingInvInit, ServingInvNext, PTL
     DEF Spec, NoServiceGap

-----------------------------------------------------------------------------
(***************************************************************************)
(* No upstream is lost on the way to the dictionary                        *)
(***************************************************************************)

\* Queueing a batch decides what its keys will hold and leaves the others.
LEMMA WillHoldEnqueue ==
  ASSUME NEW q \in Seq(Batch), NEW b \in Batch, NEW st, NEW c, NEW v
  PROVE  /\ c \in DOMAIN b => WillHold(Enqueue(q, b), st, c, b[c])
         /\ c \notin DOMAIN b /\ WillHold(q, st, c, v)
              => WillHold(Enqueue(q, b), st, c, v)
<1>1. CASE DOMAIN b = {}
  BY <1>1 DEF Enqueue
<1>2. CASE DOMAIN b # {}
  <2> DEFINE r == Enqueue(q, b)
  <2>1. /\ Len(r) = Len(q) + 1
        /\ r[Len(q) + 1] = b
        /\ \A j \in 1..Len(q) : r[j] = q[j]
        /\ Len(q) \in Nat
    BY <1>2, EnqueueProperties
  <2> HIDE DEF r
  <2>2. ASSUME c \in DOMAIN b PROVE WillHold(r, st, c, b[c])
    <3>1. Len(q) + 1 \in Touching(r, c)
      BY <2>1, <2>2 DEF Touching
    <3>2. \A j \in Touching(r, c) : j <= Len(q) + 1
      BY <2>1 DEF Touching
    <3> QED
      BY <2>1, <3>1, <3>2 DEF WillHold
  <2>3. ASSUME c \notin DOMAIN b, WillHold(q, st, c, v) PROVE WillHold(r, st, c, v)
    <3>1. Touching(r, c) = Touching(q, c)
      BY <2>1, <2>3 DEF Touching
    <3>2. \A j \in Touching(q, c) : r[j] = q[j]
      BY <2>1 DEF Touching
    <3> QED
      BY <2>3, <3>1, <3>2 DEF WillHold
  <2> QED
    BY <2>2, <2>3 DEF r
<1> QED
  BY <1>1, <1>2

\* Storing the first batch keeps what every key will hold.
LEMMA WillHoldDeliver ==
  ASSUME NEW q \in Seq(Batch), Len(q) >= 1, NEW st, NEW c \in DOMAIN st, NEW v,
         WillHold(q, st, c, v)
  PROVE  WillHold(RemoveAt(q, 1), StoreEvents(st, q[1]), c, v)
<1> DEFINE r == RemoveAt(q, 1)
           st2 == StoreEvents(st, q[1])
<1>1. Len(q) \in Nat /\ Len(q) >= 1 /\ 1 \in 1..Len(q)
  OBVIOUS
<1>2. Len(r) = Len(q) - 1 /\ \A j \in 1..(Len(q) - 1) : r[j] = q[j + 1]
  BY <1>1, RemoveAtProperties
<1>3. st2[c] = IF c \in DOMAIN q[1] THEN q[1][c] ELSE st[c]
  BY DEF StoreEvents
<1> HIDE DEF r, st2
<1>4. \A j \in Touching(r, c) :
        j \in Nat /\ j >= 1 /\ j + 1 \in Touching(q, c) /\ r[j] = q[j + 1]
  BY <1>1, <1>2 DEF Touching
<1>5. \A i \in Touching(q, c) :
        i \in Nat /\ (i # 1 => i - 1 \in Touching(r, c) /\ r[i - 1] = q[i])
  <2>1. SUFFICES ASSUME NEW i \in Touching(q, c)
                 PROVE  i \in Nat /\ (i # 1 => i - 1 \in Touching(r, c) /\ r[i - 1] = q[i])
    OBVIOUS
  <2>2. i \in 1..Len(q) /\ c \in DOMAIN q[i]
    BY DEF Touching
  <2>3. i # 1 => i - 1 \in 1..(Len(q) - 1) /\ (i - 1) + 1 = i
    BY <1>1, <2>2
  <2>4. i # 1 => r[i - 1] = q[i]
    BY <1>2, <2>3
  <2> QED
    BY <1>1, <1>2, <2>2, <2>3, <2>4 DEF Touching
<1>6. CASE Touching(q, c) = {} /\ st[c] = v
  <2>1. Touching(r, c) = {}
    BY <1>4, <1>6
  <2>2. c \notin DOMAIN q[1]
    BY <1>1, <1>6 DEF Touching
  <2> QED
    BY <1>3, <1>6, <2>1, <2>2 DEF WillHold, r, st2
<1>7. ASSUME NEW i \in Touching(q, c), q[i][c] = v, \A j \in Touching(q, c) : j <= i
      PROVE  WillHold(r, st2, c, v)
  <2>1. CASE i = 1
    <3>1. Touching(r, c) = {}
      <4>1. SUFFICES ASSUME NEW j \in Touching(r, c) PROVE FALSE
        OBVIOUS
      <4>2. j \in Nat /\ j >= 1 /\ j + 1 \in Touching(q, c)
        BY <1>4
      <4>3. j + 1 <= 1
        BY <1>7, <2>1, <4>2
      <4> QED
        BY <4>2, <4>3
    <3>2. c \in DOMAIN q[1]
      BY <2>1 DEF Touching
    <3> QED
      BY <1>3, <1>7, <2>1, <3>1, <3>2 DEF WillHold
  <2>2. CASE i # 1
    <3>1. i - 1 \in Touching(r, c) /\ r[i - 1][c] = v
      BY <1>5, <1>7, <2>2
    <3>2. \A j \in Touching(r, c) : j <= i - 1
      BY <1>4, <1>5, <1>7
    <3> QED
      BY <3>1, <3>2 DEF WillHold
  <2> QED
    BY <2>1, <2>2
<1> QED
  BY <1>6, <1>7 DEF WillHold, r, st2

\* After a CDS response every upstream with nodes is either the one that was
\* there before it, untouched by the batch, or written by the batch.
LEMMA CdsBatchCovers ==
  ASSUME TypeOK, NEW cs \in Meshes,
         NEW c \in DOMAIN NewUpstreams(cs), NewUpstreams(cs)[c].nodes # {}
  PROVE  \/ c \in DOMAIN CdsBatch(cs) /\ CdsBatch(cs)[c] = NewUpstreams(cs)[c]
         \/ /\ c \notin DOMAIN CdsBatch(cs)
            /\ c \in DOMAIN upstreams
            /\ upstreams[c] = NewUpstreams(cs)[c]
<1> DEFINE new == NewUpstreams(cs)
           om == OldManifest(upstreams)
           nm == NewManifest(cs, upstreams)
<1>1. new[c] = TranslateCluster(cs[c])
  BY DEF NewUpstreams
<1>2. cs[c].kind # "EDS"
  BY <1>1 DEF TranslateCluster
<1>3. c \in DOMAIN nm /\ nm[c] = new[c]
  BY <1>2 DEF NewManifest
<1>4. c \in DOMAIN om => c \in DOMAIN upstreams /\ om[c] = upstreams[c]
  BY DEF OldManifest
<1> HIDE DEF new, om, nm
<1>5. c \in ChangedKeys(om, nm) <=> ~(c \in DOMAIN om /\ om[c] = nm[c])
  BY <1>3 DEF ChangedKeys
<1>6. c \in DOMAIN CdsBatch(cs) <=> c \in ChangedKeys(om, nm)
  BY DEF CdsBatch, GenerateIncrementalEvents, om, nm
<1>7. c \in ChangedKeys(om, nm) => CdsBatch(cs)[c] = nm[c]
  BY <1>3 DEF CdsBatch, GenerateIncrementalEvents, om, nm
<1> QED
  BY <1>3, <1>4, <1>5, <1>6, <1>7 DEF new

\* Before the first response the provisioner knows no upstream.
LEMMA LiveUpstreamsStoredInit == Init => LiveUpstreamsStored
BY DEF Init, LiveUpstreamsStored

\* Every step keeps LiveUpstreamsStored; only the two translations and the
\* in-order delivery have to be looked into.
LEMMA LiveUpstreamsStoredNext ==
  TypeOK /\ LiveUpstreamsStored /\ [Next]_vars => LiveUpstreamsStored'
<1> SUFFICES ASSUME TypeOK, LiveUpstreamsStored, [Next]_vars
             PROVE  LiveUpstreamsStored'
  OBVIOUS
<1> USE DEF LiveUpstreamsStored
<1>1. CASE UNCHANGED <<upstreams, evChan, DataStorage, inOrder>>
  BY <1>1
<1>2. ASSUME NEW i \in 1..Len(responses), ReceiveCDS(i) PROVE LiveUpstreamsStored'
  <2> DEFINE cs == responses[i].clusters
  <2>1. cs \in Meshes
    BY <1>2, ResponseShape DEF ReceiveCDS
  <2>2. /\ upstreams' = NewUpstreams(cs)
        /\ evChan' = Enqueue(evChan, CdsBatch(cs))
        /\ UNCHANGED <<DataStorage, inOrder>>
    BY <1>2 DEF ReceiveCDS, CdsBatch
  <2>3. CdsBatch(cs) \in Batch /\ evChan \in Seq(Batch)
    BY <2>1, CdsBatchType DEF TypeOK
  <2> HIDE DEF cs
  <2>4. SUFFICES ASSUME inOrder, NEW c \in DOMAIN NewUpstreams(cs),
                        NewUpstreams(cs)[c].nodes # {}
                 PROVE  WillHold(Enqueue(evChan, CdsBatch(cs)), DataStorage, c,
                                 NewUpstreams(cs)[c])
    BY <2>2
  <2>5. CASE c \in DOMAIN CdsBatch(cs) /\ CdsBatch(cs)[c] = NewUpstreams(cs)[c]
    BY <2>3, <2>5, WillHoldEnqueue
  <2>6. CASE /\ c \notin DOMAIN CdsBatch(cs)
             /\ c \in DOMAIN upstreams
             /\ upstreams[c] = NewUpstreams(cs)[c]
    <3>1. WillHold(evChan, DataStorage, c, NewUpstreams(cs)[c])
      BY <2>4, <2>6
    <3> QED
      BY <2>3, <2>6, <3>1, WillHoldEnqueue
  <2> QED
    BY <2>1, <2>4, <2>5, <2>6, CdsBatchCovers
<1>3. ASSUME NEW i \in 1..Len(responses), ReceiveCLA(i) PROVE LiveUpstreamsStored'
  <2> DEFINE clas == responses[i].clas
             b == RefreshedUpstreams(clas, upstreams)
  <2>1. clas \in PartialFn(Clusters, SUBSET Endpoints)
    BY <1>3, ResponseShape DEF ReceiveCLA
  <2>2. /\ upstreams' = StoreEvents(upstreams, b)
        /\ evChan' = Enqueue(evChan, b)
        /\ UNCHANGED <<DataStorage, inOrder>>
    BY <1>3 DEF ReceiveCLA
  <2>3. b \in Batch /\ evChan \in Seq(Batch)
    BY <2>1, ClaBatchType DEF TypeOK
  <2> HIDE DEF clas, b
  <2>4. DOMAIN upstreams' = DOMAIN upstreams
    BY <2>2 DEF StoreEvents
  <2>5. SUFFICES ASSUME inOrder, NEW c \in DOMAIN upstreams, upstreams'[c].nodes # {}
                 PROVE  WillHold(Enqueue(evChan, b), DataStorage, c, upstreams'[c])
    BY <2>2, <2>4
  <2>6. upstreams'[c] = IF c \in DOMAIN b THEN b[c] ELSE upstreams[c]
    BY <2>2 DEF StoreEvents
  <2>7. CASE c \in DOMAIN b
    BY <2>3, <2>6, <2>7, WillHoldEnqueue
  <2>8. CASE c \notin DOMAIN b
    <3>1. WillHold(evChan, DataStorage, c, upstreams[c])
      BY <2>5, <2>6, <2>8
    <3> QED
      BY <2>3, <2>6, <2>8, <3>1, WillHoldEnqueue
  <2> QED
    BY <2>7, <2>8
<1>4. ASSUME NEW i \in 1..Len(evChan), Deliver(i) PROVE LiveUpstreamsStored'
  <2>1. /\ DataStorage' = StoreEvents(DataStorage, evChan[i])
        /\ evChan' = RemoveAt(evChan, i)
        /\ UNCHANGED upstreams
    BY <1>4 DEF Deliver
  <2>2. SUFFICES ASSUME inOrder'
                 PROVE  \A c \in DOMAIN upstreams : upstreams[c].nodes # {}
                          => WillHold(evChan', DataStorage', c, upstreams[c])
    BY <2>1
  <2>3. inOrder /\ i = 1
    BY <1>4, <2>2, Zenon DEF Deliver
  <2>4. evChan \in Seq(Batch) /\ Len(evChan) >= 1
    BY DEF TypeOK
  <2>5. DOMAIN upstreams \subseteq DOMAIN DataStorage
    BY PartialFnElim DEF TypeOK
  <2> QED
    BY <2>1, <2>3, <2>4, <2>5, WillHoldDeliver
<1> QED
  <2>1. MeshChange \/ Push \/ (\E r \in requests : AnswerRequest(r)) \/ PeriodicSync
          => UNCHANGED <<upstreams, evChan, DataStorage, inOrder>>
    BY DEF MeshChange, Push, AnswerRequest, PeriodicSync
  <2> QED
    BY <1>1, <1>2, <1>3, <1>4, <2>1 DEF Next, Receive, vars

\* As long as batches are delivered in order, every upstream the provisioner
\* knows with nodes is in the dictionary or in a waiting batch nothing will
\* overwrite: sending differences only loses nothing.
THEOREM NoLostUpstream == Spec => []LiveUpstreamsStored
BY TypeOKInit, TypeOKNext, LiveUpstreamsStoredInit, LiveUpstreamsStoredNext, PTL
   DEF Spec

=============================================================================
