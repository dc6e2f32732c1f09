------------------------ MODULE PluginStreamsProofs ------------------------
(***************************************************************************)
(* Proofs about PluginStreams, for any pods, streams and configurations:   *)
(* types, the instances and their gauge, no lost update, and that it       *)
(* implements the safety part of PluginFeed.                               *)
(***************************************************************************)
EXTENDS PluginStreams, FiniteSetTheorems, TLAPS

States == {"closed", "query", "send", "loop", "aborted", "return", "ended"}

\* The streams whose handler is registered, or thinks it is.
Active == {s \in Streams : pc[s] \notin {"closed", "ended"}}

-----------------------------------------------------------------------------
(***************************************************************************)
(* Type correctness                                                        *)
(***************************************************************************)

\* The types but for the bound of the gauge.
BaseTypes ==
  /\ config \in [Pods -> Nat] /\ \A p \in Pods : config[p] \in VersionsOf(p)
  /\ toNotify \subseteq Pods
  /\ instances \in [Pods -> Streams \cup {None}]
  /\ managed \in Int
  /\ pc \in [Streams -> States]
  /\ read \in [Streams -> Nat] /\ \A s \in Streams : read[s] \in VersionsOf(PodOf[s])
  /\ has \in [Pods -> Nat] /\ \A p \in Pods : has[p] \in VersionsOf(p)
  /\ notify \in [Streams -> Nat]
  /\ connected \in [Streams -> BOOLEAN]
  /\ client \in [Pods -> {"dialling", "streaming", "deaf", "ended"}]
  /\ overlapped \subseteq Pods
  /\ stopped \in BOOLEAN

\* The gauge is the number of handlers between add and delete.
GaugeInv == managed = Cardinality(Active)

\* Before the first stream.
LEMMA BaseTypesInit == Init => BaseTypes
<1> SUFFICES ASSUME Init PROVE BaseTypes
  OBVIOUS
<1>1. \A p \in Pods : 0 \in VersionsOf(p)
  BY MaxVersionAssumption DEF VersionsOf
<1>2. \A s \in Streams : 0 \in VersionsOf(PodOf[s])
  BY <1>1, PodOfAssumption
<1>3. connected \in [Streams -> BOOLEAN] /\ stopped \in BOOLEAN
  BY DEF Init
<1> QED
  BY <1>1, <1>2, <1>3 DEF Init, BaseTypes, States

\* The end of a stream for its client.
LEMMA EndStreamTypes ==
  ASSUME BaseTypes, NEW s \in Streams, NEW known, EndStream(s, known)
  PROVE  /\ connected' \in [Streams -> BOOLEAN]
         /\ client' \in [Pods -> {"dialling", "streaming", "deaf", "ended"}]
<1>1. connected' \in [Streams -> BOOLEAN]
  BY DEF EndStream, BaseTypes
<1>2. client' \in [Pods -> {"dialling", "streaming", "deaf", "ended"}]
  BY PodOfAssumption DEF EndStream, BaseTypes
<1> QED
  BY <1>1, <1>2

\* Every step keeps the types.
LEMMA BaseTypesNext == BaseTypes /\ [Next]_vars => BaseTypes'
<1> SUFFICES ASSUME BaseTypes, [Next]_vars PROVE BaseTypes'
  OBVIOUS
<1> USE DEF handlerVars, clientVars
<1>1. ASSUME NEW p \in Pods, ChangeConfig(p) PROVE BaseTypes'
  <2>0. config' \in [Pods -> Nat]
    BY <1>1 DEF ChangeConfig, BaseTypes
  <2>1. ASSUME NEW q \in Pods PROVE config'[q] \in VersionsOf(q)
    <3>1. CASE q = p
      <4>1. config[p] \in Nat /\ MaxVersion[p] \in Nat /\ config[p] < MaxVersion[p]
        BY <1>1, MaxVersionAssumption DEF ChangeConfig, BaseTypes
      <4>2. config'[p] = config[p] + 1
        BY <1>1 DEF ChangeConfig, BaseTypes
      <4> QED
        BY <3>1, <4>1, <4>2 DEF VersionsOf
    <3>2. CASE q # p
      BY <1>1, <3>2 DEF ChangeConfig, BaseTypes
    <3> QED
      BY <3>1, <3>2
  <2> QED
    BY <1>1, <2>0, <2>1 DEF ChangeConfig, BaseTypes
<1>2. ASSUME NEW p \in Pods, NotifyPodChange(p) PROVE BaseTypes'
  <2>1. notify' \in [Streams -> Nat]
    BY <1>2 DEF NotifyPodChange, BaseTypes, Registered
  <2> QED
    BY <1>2, <2>1 DEF NotifyPodChange, BaseTypes
<1>3. ASSUME NEW s \in Streams PROVE PodOf[s] \in Pods
  BY PodOfAssumption
<1>4. ASSUME NEW s \in Streams, Open(s) PROVE BaseTypes'
  <2>1. /\ instances' \in [Pods -> Streams \cup {None}]
        /\ client' \in [Pods -> {"dialling", "streaming", "deaf", "ended"}]
        /\ overlapped' \subseteq Pods
    BY <1>3, <1>4 DEF Open, Add, BaseTypes
  <2>2. connected' \in [Streams -> BOOLEAN] /\ pc' \in [Streams -> States]
    BY <1>4 DEF Open, BaseTypes, States
  <2>3. managed' \in Int
    BY <1>4 DEF Open, Add, BaseTypes
  <2> QED
    BY <1>4, <2>1, <2>2, <2>3 DEF Open, BaseTypes
<1>5. ASSUME NEW s \in Streams, OpenFails(s) PROVE BaseTypes'
  BY <1>3, <1>5 DEF OpenFails, BaseTypes
<1>6. ASSUME NEW s \in Streams, Query(s) PROVE BaseTypes'
  <2>1. read' \in [Streams -> Nat] /\ \A t \in Streams : read'[t] \in VersionsOf(PodOf[t])
    BY <1>3, <1>6 DEF Query, BaseTypes
  <2> QED
    BY <1>6, <2>1 DEF Query, BaseTypes, States
<1>7. ASSUME NEW s \in Streams, Send(s) PROVE BaseTypes'
  <2>1. has' \in [Pods -> Nat] /\ \A p \in Pods : has'[p] \in VersionsOf(p)
    BY <1>3, <1>7 DEF Send, BaseTypes
  <2> QED
    BY <1>7, <2>1 DEF Send, BaseTypes, States
<1>8. ASSUME NEW s \in Streams, TakeNotify(s) PROVE BaseTypes'
  <2>1. notify' \in [Streams -> Nat]
    BY <1>8 DEF TakeNotify, BaseTypes
  <2> QED
    BY <1>8, <2>1 DEF TakeNotify, BaseTypes, States
<1>9. ASSUME NEW s \in Streams, Return(s) PROVE BaseTypes'
  BY <1>9 DEF Return, BaseTypes, States
<1>10. ASSUME NEW s \in Streams, Delete(s) PROVE BaseTypes'
  <2>1. instances' \in [Pods -> Streams \cup {None}] /\ pc' \in [Streams -> States]
    BY <1>3, <1>10 DEF Delete, BaseTypes, States
  <2>2. managed' \in Int
    BY <1>10 DEF Delete, BaseTypes
  <2>3. /\ connected' \in [Streams -> BOOLEAN]
        /\ client' \in [Pods -> {"dialling", "streaming", "deaf", "ended"}]
    BY <1>10, EndStreamTypes DEF Delete
  <2> QED
    BY <1>10, <2>1, <2>2, <2>3 DEF Delete, BaseTypes
<1>11. ASSUME NEW s \in Streams, Disconnect(s) PROVE BaseTypes'
  <2>1. /\ connected' \in [Streams -> BOOLEAN]
        /\ client' \in [Pods -> {"dialling", "streaming", "deaf", "ended"}]
    BY <1>11, EndStreamTypes DEF Disconnect
  <2> QED
    BY <1>11, <2>1 DEF Disconnect, BaseTypes
<1>12. CASE Stop
  BY <1>12 DEF Stop, BaseTypes
<1>13. CASE UNCHANGED vars
  BY <1>13 DEF vars, BaseTypes
<1> QED
  BY <1>1, <1>2, <1>4, <1>5, <1>6, <1>7, <1>8, <1>9, <1>10, <1>11, <1>12, <1>13
     DEF Next, Handler

\* The active streams are some of the finitely many.
LEMMA ActiveFinite == IsFiniteSet(Active) /\ Cardinality(Active) \in 0..Cardinality(Streams)
<1>1. Active \subseteq Streams
  BY DEF Active
<1>2. IsFiniteSet(Active) /\ Cardinality(Active) <= Cardinality(Streams)
  BY <1>1, StreamsAssumption, FS_Subset
<1>3. Cardinality(Active) \in Nat /\ Cardinality(Streams) \in Nat
  BY <1>2, StreamsAssumption, FS_CardinalityType
<1> QED
  BY <1>2, <1>3

\* Before the first stream the gauge is zero.
LEMMA GaugeInit == Init => GaugeInv
<1> SUFFICES ASSUME Init PROVE GaugeInv
  OBVIOUS
<1>1. Active = {}
  BY DEF Init, Active
<1>2. Cardinality({}) = 0
  BY FS_EmptySet
<1> QED
  BY <1>1, <1>2 DEF Init, GaugeInv

\* add makes one stream active.
LEMMA OpenActive ==
  ASSUME BaseTypes, NEW s \in Streams, Open(s)
  PROVE  s \notin Active /\ Active' = Active \cup {s}
BY DEF BaseTypes, Open, NextStream, Active, States

\* delete makes one stream inactive.
LEMMA DeleteActive ==
  ASSUME BaseTypes, NEW s \in Streams, Delete(s)
  PROVE  s \in Active /\ Active' = Active \ {s}
BY DEF BaseTypes, Delete, Active, States

\* No other step does either.
LEMMA OtherActive ==
  ASSUME BaseTypes, [Next]_vars,
         ~ \E s \in Streams : Open(s) \/ Delete(s)
  PROVE  Active' = Active /\ instances' = instances /\ managed' = managed
           /\ overlapped' = overlapped
<1> USE DEF handlerVars, clientVars
<1>1. ASSUME NEW p \in Pods, ChangeConfig(p) \/ NotifyPodChange(p)
      PROVE  UNCHANGED <<pc, instances, managed, overlapped>>
  BY <1>1 DEF ChangeConfig, NotifyPodChange
<1>2. ASSUME NEW s \in Streams, OpenFails(s) \/ Disconnect(s)
      PROVE  UNCHANGED <<pc, instances, managed, overlapped>>
  BY <1>2 DEF OpenFails, Disconnect
<1>3. ASSUME NEW s \in Streams, Query(s) \/ Send(s) \/ TakeNotify(s) \/ Return(s)
      PROVE  Active' = Active /\ UNCHANGED <<instances, managed, overlapped>>
  <2>1. UNCHANGED <<instances, managed, overlapped>>
    BY <1>3 DEF Query, Send, TakeNotify, Return
  <2>2. CASE Query(s)
    BY <2>2 DEF Query, BaseTypes, Active, States
  <2>3. CASE Send(s)
    BY <2>3 DEF Send, BaseTypes, Active, States
  <2>4. CASE TakeNotify(s)
    BY <2>4 DEF TakeNotify, BaseTypes, Active, States
  <2>5. CASE Return(s)
    BY <2>5 DEF Return, BaseTypes, Active, States
  <2> QED
    BY <1>3, <2>1, <2>2, <2>3, <2>4, <2>5
<1>4. CASE Stop
  BY <1>4 DEF Stop, Active
<1>5. CASE UNCHANGED vars
  BY <1>5 DEF vars, Active
<1>6. UNCHANGED pc => Active' = Active
  BY DEF Active
<1> QED
  BY <1>1, <1>2, <1>3, <1>4, <1>5, <1>6 DEF Next, Handler

\* The gauge follows.
LEMMA GaugeNext == BaseTypes /\ GaugeInv /\ [Next]_vars => GaugeInv'
<1> SUFFICES ASSUME BaseTypes, GaugeInv, [Next]_vars PROVE GaugeInv'
  OBVIOUS
<1>0. IsFiniteSet(Active) /\ Cardinality(Active) \in Nat
  BY ActiveFinite, FS_CardinalityType
<1>1. ASSUME NEW s \in Streams, Open(s) PROVE GaugeInv'
  <2>1. s \notin Active /\ Active' = Active \cup {s}
    BY <1>1, OpenActive
  <2>2. Cardinality(Active \cup {s}) = Cardinality(Active) + 1
    BY <1>0, <2>1, FS_AddElement
  <2>3. managed' = managed + 1
    BY <1>1 DEF Open, Add
  <2> QED
    BY <2>1, <2>2, <2>3 DEF GaugeInv
<1>2. ASSUME NEW s \in Streams, Delete(s) PROVE GaugeInv'
  <2>1. s \in Active /\ Active' = Active \ {s}
    BY <1>2, DeleteActive
  <2>2. Cardinality(Active \ {s}) = Cardinality(Active) - 1
    BY <1>0, <2>1, FS_RemoveElement
  <2>3. managed' = managed - 1
    BY <1>2 DEF Delete
  <2> QED
    BY <2>1, <2>2, <2>3 DEF GaugeInv
<1>3. CASE ~ \E s \in Streams : Open(s) \/ Delete(s)
  BY <1>3, OtherActive DEF GaugeInv
<1> QED
  BY <1>1, <1>2, <1>3

\* With the gauge, the types are those of the model.
LEMMA TypesFollow == BaseTypes /\ GaugeInv => TypeOK
BY ActiveFinite DEF BaseTypes, GaugeInv, TypeOK, States

\* Types: whatever the reconciler, the handlers and the clients do, no
\* handler reads or sends a configuration that its pod never had, and the gauge
\* of managed instances is never negative nor above the number of streams.
THEOREM TypeCorrect == Spec => []TypeOK
<1>1. Init => BaseTypes /\ GaugeInv
  BY BaseTypesInit, GaugeInit
<1>2. BaseTypes /\ GaugeInv /\ [Next]_vars => (BaseTypes /\ GaugeInv)'
  BY BaseTypesNext, GaugeNext
<1>3. BaseTypes /\ GaugeInv => TypeOK
  BY TypesFollow
<1> QED
  BY <1>1, <1>2, <1>3, PTL DEF Spec

-----------------------------------------------------------------------------
(***************************************************************************)
(* The instances and the gauge                                             *)
(***************************************************************************)

\* An instance is a stream of its pod; and for a pod that has not reconnected
\* too early it is the one with a handler.
InstancesInv ==
  /\ \A p \in Pods : Registered(p) => PodOf[instances[p]] = p
  /\ \A s \in Streams :
       PodOf[s] \notin overlapped => (s \in Active <=> instances[PodOf[s]] = s)

\* The pods with an instance.
RegisteredPods == {p \in Pods : Registered(p)}

\* Before the first stream there is no instance.
LEMMA InstancesInit == Init => InstancesInv
BY NoneAssumption, PodOfAssumption DEF Init, InstancesInv, Registered, Active

\* Opening a stream in time: the pod had no instance, and has one.
LEMMA OpenInTime ==
  ASSUME BaseTypes, InstancesInv, NEW s \in Streams, Open(s), PodOf[s] \notin overlapped'
  PROVE  /\ PodOf[s] \notin overlapped
         /\ \A t \in Others(s) : t \notin Active
         /\ instances[PodOf[s]] = None
<1>1. PodOf[s] \notin overlapped /\ \A t \in Others(s) : t \notin Active
  BY DEF Open, Active
<1>2. s \notin Active
  BY OpenActive
<1>3. ASSUME Registered(PodOf[s]) PROVE FALSE
  <2>1. instances[PodOf[s]] \in Streams /\ PodOf[instances[PodOf[s]]] = PodOf[s]
    BY <1>3, PodOfAssumption DEF BaseTypes, InstancesInv, Registered
  <2>2. instances[PodOf[s]] \in Active
    BY <1>1, <2>1 DEF InstancesInv
  <2> QED
    BY <1>1, <1>2, <2>1, <2>2 DEF Others
<1> QED
  BY <1>1, <1>3 DEF Registered

\* Every step keeps the instances right.
LEMMA InstancesNext == BaseTypes /\ InstancesInv /\ [Next]_vars => InstancesInv'
<1> SUFFICES ASSUME BaseTypes, InstancesInv, [Next]_vars PROVE InstancesInv'
  OBVIOUS
<1>0. ASSUME NEW s \in Streams PROVE PodOf[s] \in Pods
  BY PodOfAssumption
<1>1. ASSUME NEW s \in Streams, Open(s) PROVE InstancesInv'
  <2>0. /\ Active' = Active \cup {s}
        /\ instances' = [instances EXCEPT ![PodOf[s]] = s]
        /\ overlapped \subseteq overlapped'
    BY <1>1, OpenActive DEF Open, Add
  <2>1. ASSUME NEW p \in Pods, instances'[p] # None PROVE PodOf[instances'[p]] = p
    BY <2>0, <2>1 DEF BaseTypes, InstancesInv, Registered
  <2>2. ASSUME NEW t \in Streams, PodOf[t] \notin overlapped'
        PROVE  t \in Active' <=> instances'[PodOf[t]] = t
    <3>1. CASE PodOf[t] # PodOf[s]
      BY <1>0, <2>0, <2>2, <3>1 DEF BaseTypes, InstancesInv
    <3>2. CASE PodOf[t] = PodOf[s]
      <4>1. \A u \in Others(s) : u \notin Active
        BY <1>1, <2>2, <3>2, OpenInTime
      <4>2. instances'[PodOf[t]] = s
        BY <1>0, <2>0, <3>2 DEF BaseTypes
      <4> QED
        BY <2>0, <3>2, <4>1, <4>2 DEF Others
    <3> QED
      BY <3>1, <3>2
  <2> QED
    BY <2>1, <2>2 DEF InstancesInv, Registered
<1>2. ASSUME NEW s \in Streams, Delete(s) PROVE InstancesInv'
  <2>0. /\ s \in Active
        /\ Active' = Active \ {s}
        /\ instances' = [instances EXCEPT ![PodOf[s]] = None]
        /\ overlapped' = overlapped
    BY <1>2, DeleteActive DEF Delete
  <2>1. ASSUME NEW p \in Pods, instances'[p] # None PROVE PodOf[instances'[p]] = p
    BY <2>0, <2>1 DEF BaseTypes, InstancesInv, Registered
  <2>2. ASSUME NEW t \in Streams, PodOf[t] \notin overlapped'
        PROVE  t \in Active' <=> instances'[PodOf[t]] = t
    <3>1. CASE PodOf[t] # PodOf[s]
      BY <1>0, <2>0, <2>2, <3>1 DEF BaseTypes, InstancesInv
    <3>2. CASE PodOf[t] = PodOf[s]
      <4>1. instances[PodOf[s]] = s
        BY <2>0, <2>2, <3>2 DEF InstancesInv
      <4>2. instances'[PodOf[t]] = None
        BY <1>0, <2>0, <3>2 DEF BaseTypes
      <4>3. t \in Active => t = s
        BY <2>0, <2>2, <3>2, <4>1 DEF InstancesInv
      <4> QED
        BY <2>0, <4>2, <4>3, NoneAssumption
    <3> QED
      BY <3>1, <3>2
  <2> QED
    BY <2>1, <2>2 DEF InstancesInv, Registered
<1>3. CASE ~ \E s \in Streams : Open(s) \/ Delete(s)
  BY <1>3, OtherActive DEF InstancesInv, Registered
<1> QED
  BY <1>1, <1>2, <1>3

\* Only pods with a stream have an instance: finitely many.
LEMMA RegisteredFinite ==
  ASSUME BaseTypes, InstancesInv
  PROVE  IsFiniteSet(RegisteredPods)
<1> DEFINE Served == {PodOf[s] : s \in Streams}
<1>1. PodOf \in Surjection(Streams, Served)
  BY PodOfAssumption DEF Surjection
<1>2. IsFiniteSet(Served)
  BY <1>1, StreamsAssumption, FS_Surjection
<1>3. RegisteredPods \subseteq Served
  BY DEF RegisteredPods, Registered, BaseTypes, InstancesInv
<1> QED
  BY <1>2, <1>3, FS_Subset

\* Every step keeps gauge and instances together.
LEMMA CountedNext ==
  BaseTypes /\ InstancesInv /\ ManagedInstancesCounted /\ [Next]_vars
    => ManagedInstancesCounted'
<1> SUFFICES ASSUME BaseTypes, InstancesInv, ManagedInstancesCounted, [Next]_vars,
                    overlapped' = {}
             PROVE  managed' = Cardinality(RegisteredPods')
  BY DEF ManagedInstancesCounted, RegisteredPods, Registered
<1>0. IsFiniteSet(RegisteredPods) /\ Cardinality(RegisteredPods) \in Nat
  BY RegisteredFinite, FS_CardinalityType
<1>a. overlapped = {} => managed = Cardinality(RegisteredPods)
  BY DEF ManagedInstancesCounted, RegisteredPods
<1>1. ASSUME NEW s \in Streams, Open(s) PROVE managed' = Cardinality(RegisteredPods')
  <2>1. overlapped = {} /\ managed' = managed + 1
    BY <1>1 DEF Open, Add
  <2>2. PodOf[s] \in Pods /\ instances[PodOf[s]] = None
    BY <1>1, OpenInTime, PodOfAssumption
  <2>3. PodOf[s] \notin RegisteredPods
    BY <2>2 DEF RegisteredPods, Registered
  <2>4. RegisteredPods' = RegisteredPods \cup {PodOf[s]}
    BY <1>1, <2>2, NoneAssumption DEF Open, Add, RegisteredPods, Registered, BaseTypes
  <2>5. Cardinality(RegisteredPods \cup {PodOf[s]}) = Cardinality(RegisteredPods) + 1
    BY <1>0, <2>3, FS_AddElement
  <2> QED
    BY <1>a, <2>1, <2>4, <2>5
<1>2. ASSUME NEW s \in Streams, Delete(s) PROVE managed' = Cardinality(RegisteredPods')
  <2>1. overlapped = {} /\ managed' = managed - 1
    BY <1>2 DEF Delete
  <2>2. PodOf[s] \in Pods /\ instances[PodOf[s]] = s
    BY <1>2, <2>1, DeleteActive, PodOfAssumption DEF InstancesInv
  <2>3. PodOf[s] \in RegisteredPods
    BY <2>2, NoneAssumption DEF RegisteredPods, Registered
  <2>4. RegisteredPods' = RegisteredPods \ {PodOf[s]}
    BY <1>2, <2>2 DEF Delete, RegisteredPods, Registered, BaseTypes
  <2>5. Cardinality(RegisteredPods \ {PodOf[s]}) = Cardinality(RegisteredPods) - 1
    BY <1>0, <2>3, FS_RemoveElement
  <2> QED
    BY <1>a, <2>1, <2>4, <2>5
<1>3. CASE ~ \E s \in Streams : Open(s) \/ Delete(s)
  BY <1>a, <1>3, OtherActive DEF RegisteredPods, Registered
<1> QED
  BY <1>1, <1>2, <1>3

\* The gauge of managed instances, counted up and down apart from the map of
\* the instance manager, agrees with it as long as no pod has reconnected
\* before the handler of its earlier stream was gone.
THEOREM GaugeIsRight == Spec => []ManagedInstancesCounted
<1> DEFINE Inv == BaseTypes /\ InstancesInv /\ ManagedInstancesCounted
<1>1. Init => Inv
  <2> SUFFICES ASSUME Init PROVE ManagedInstancesCounted
    BY BaseTypesInit, InstancesInit
  <2>1. {p \in Pods : Registered(p)} = {}
    BY DEF Init, Registered
  <2>2. Cardinality({}) = 0
    BY FS_EmptySet
  <2> QED
    BY <2>1, <2>2 DEF Init, ManagedInstancesCounted
<1>2. Inv /\ [Next]_vars => Inv'
  BY BaseTypesNext, InstancesNext, CountedNext
<1> QED
  BY <1>1, <1>2, PTL DEF Spec

-----------------------------------------------------------------------------
(***************************************************************************)
(* No lost update                                                          *)
(***************************************************************************)

\* Nothing was read before the first stream.
LEMMA NoLostUpdateInit == Init => NoLostUpdate
BY DEF Init, NoLostUpdate

\* No step loses an update.
LEMMA NoLostUpdateNext ==
  BaseTypes /\ InstancesInv /\ NoLostUpdate /\ [Next]_vars => NoLostUpdate'
<1> SUFFICES ASSUME BaseTypes, InstancesInv, NoLostUpdate, [Next]_vars,
                    NEW s \in Streams, connected'[s], pc'[s] \in {"send", "loop"},
                    PodOf[s] \notin overlapped'
             PROVE  \/ Latest(s)' = config'[PodOf[s]]
                    \/ PodOf[s] \in toNotify'
                    \/ notify'[s] > 0
  BY DEF NoLostUpdate
<1> DEFINE p == PodOf[s]
           Told == Latest(s) = config[p] \/ p \in toNotify \/ notify[s] > 0
<1> USE DEF handlerVars, clientVars
<1>0. p \in Pods
  BY PodOfAssumption
<1>a. ASSUME connected[s], pc[s] \in {"send", "loop"}, p \notin overlapped
      PROVE  Told
  BY <1>a DEF NoLostUpdate
<1>b. ASSUME pc[s] \in {"send", "loop"}, p \notin overlapped
      PROVE  instances[p] = s
  BY <1>b DEF InstancesInv, Active
<1> HIDE DEF p
<1>1. ASSUME NEW q \in Pods, ChangeConfig(q) PROVE Told'
  <2>1. CASE q = p
    BY <1>1, <2>1 DEF ChangeConfig
  <2>2. CASE q # p
    <3>1. Told
      BY <1>1, <1>a DEF ChangeConfig, p
    <3>2. config'[p] = config[p] /\ toNotify \subseteq toNotify' /\ UNCHANGED <<pc, read, has, notify>>
      BY <1>0, <1>1, <2>2 DEF ChangeConfig, BaseTypes
    <3> QED
      BY <3>1, <3>2 DEF Latest, p
  <2> QED
    BY <2>1, <2>2
<1>2. ASSUME NEW q \in Pods, NotifyPodChange(q) PROVE Told'
  <2>0. UNCHANGED <<pc, read, has, config, overlapped, connected>>
    BY <1>2 DEF NotifyPodChange
  <2>1. Told
    BY <1>a, <2>0 DEF p
  <2>2. instances[p] = s
    BY <1>b, <2>0 DEF p
  <2>3. notify'[s] >= notify[s] /\ (q = p => notify'[s] = notify[s] + 1)
    <3>1. q = p => Registered(q)
      BY <2>2, NoneAssumption DEF Registered
    <3>2. notify[s] \in Nat
      BY DEF BaseTypes
    <3>3. CASE Registered(q)
      <4>1. notify' = [notify EXCEPT ![instances[q]] = @ + 1]
        BY <1>2, <3>3 DEF NotifyPodChange
      <4>2. instances[q] \in Streams
        BY <3>3 DEF Registered, BaseTypes
      <4>3. CASE instances[q] = s
        BY <3>2, <4>1, <4>3 DEF BaseTypes
      <4>4. CASE instances[q] # s
        BY <2>2, <3>2, <4>1, <4>2, <4>4 DEF BaseTypes
      <4> QED
        BY <4>3, <4>4
    <3>4. CASE ~Registered(q)
      BY <1>2, <3>1, <3>2, <3>4 DEF NotifyPodChange
    <3> QED
      BY <3>3, <3>4
  <2>4. notify[s] \in Nat /\ notify'[s] \in Nat
    BY BaseTypesNext DEF BaseTypes
  <2>5. CASE q = p
    BY <2>3, <2>4, <2>5
  <2>6. CASE q # p
    <3>1. p \in toNotify => p \in toNotify'
      BY <1>2, <2>6 DEF NotifyPodChange
    <3>2. Latest(s)' = Latest(s)
      BY <2>0 DEF Latest
    <3> QED
      BY <2>0, <2>1, <2>3, <2>4, <3>1, <3>2
  <2> QED
    BY <2>5, <2>6
<1>3. ASSUME NEW t \in Streams, Open(t) PROVE Told'
  <2>1. t # s
    BY <1>3 DEF Open, BaseTypes
  <2>2. /\ UNCHANGED <<config, toNotify, read, has, notify>>
        /\ pc'[s] = pc[s] /\ connected'[s] = connected[s]
        /\ overlapped \subseteq overlapped'
    BY <1>3, <2>1 DEF Open, BaseTypes
  <2>3. Told
    BY <1>a, <2>2 DEF p
  <2> QED
    BY <2>2, <2>3 DEF Latest
<1>4. ASSUME NEW t \in Streams, Query(t) PROVE Told'
  <2>1. CASE t = s
    <3>1. pc'[s] = "send" /\ read'[s] = config[p] /\ config' = config
      BY <1>4, <2>1 DEF Query, BaseTypes, p
    <3> QED
      BY <3>1 DEF Latest
  <2>2. CASE t # s
    <3>1. /\ UNCHANGED <<config, toNotify, has, notify, overlapped, connected>>
          /\ pc'[s] = pc[s] /\ read'[s] = read[s]
      BY <1>4, <2>2 DEF Query, BaseTypes
    <3>2. Told
      BY <1>a, <3>1 DEF p
    <3> QED
      BY <3>1, <3>2 DEF Latest
  <2> QED
    BY <2>1, <2>2
<1>5. ASSUME NEW t \in Streams, Send(t) PROVE Told'
  <2>0. UNCHANGED <<config, toNotify, read, notify, overlapped, connected>>
    BY <1>5 DEF Send
  <2>1. CASE t = s
    <3>1. pc[s] = "send" /\ pc'[s] = "loop" /\ has'[p] = read[s]
      BY <1>0, <1>5, <2>1 DEF Send, BaseTypes, p
    <3>2. Told
      BY <1>a, <2>0, <3>1 DEF p
    <3>3. Latest(s)' = Latest(s)
      BY <3>1 DEF Latest, p
    <3> QED
      BY <2>0, <3>2, <3>3
  <2>2. CASE t # s
    <3>1. pc'[s] = pc[s]
      BY <1>5, <2>2 DEF Send, BaseTypes
    <3>2. Told /\ instances[p] = s
      BY <1>a, <1>b, <2>0, <3>1 DEF p
    <3>3. PodOf[t] # p
      <4>1. t \in Active
        BY <1>5 DEF Send, Active
      <4> QED
        BY <2>0, <2>2, <3>2, <4>1 DEF InstancesInv, p
    <3>4. has'[p] = has[p]
      BY <1>0, <1>5, <3>3 DEF Send, BaseTypes
    <3> QED
      BY <2>0, <3>1, <3>2, <3>4 DEF Latest, p
  <2> QED
    BY <2>1, <2>2
<1>6. ASSUME NEW t \in Streams, TakeNotify(t) PROVE Told'
  <2>1. t # s
    BY <1>6 DEF TakeNotify, BaseTypes
  <2>2. /\ UNCHANGED <<config, toNotify, read, has, overlapped, connected>>
        /\ pc'[s] = pc[s] /\ notify'[s] = notify[s]
    BY <1>6, <2>1 DEF TakeNotify, BaseTypes
  <2>3. Told
    BY <1>a, <2>2 DEF p
  <2> QED
    BY <2>2, <2>3 DEF Latest
<1>7. ASSUME NEW t \in Streams, Return(t) \/ Delete(t) \/ OpenFails(t) \/ Disconnect(t)
      PROVE  Told'
  <2>1. /\ UNCHANGED <<config, toNotify, read, has, notify, overlapped>>
        /\ pc'[s] = pc[s]
    <3>1. CASE Return(t)
      BY <3>1 DEF Return, BaseTypes
    <3>2. CASE Delete(t)
      BY <3>2 DEF Delete, BaseTypes
    <3>3. CASE OpenFails(t) \/ Disconnect(t)
      BY <3>3 DEF OpenFails, Disconnect
    <3> QED
      BY <1>7, <3>1, <3>2, <3>3
  <2>2. connected'[s] => connected[s]
    BY <1>7 DEF Return, Delete, OpenFails, Disconnect, EndStream, BaseTypes
  <2>3. Told
    BY <1>a, <2>1, <2>2 DEF p
  <2> QED
    BY <2>1, <2>3 DEF Latest
<1>8. ASSUME Stop \/ UNCHANGED vars PROVE Told'
  <2>1. UNCHANGED <<config, toNotify, pc, read, has, notify, overlapped, connected>>
    BY <1>8 DEF Stop, vars
  <2>2. Told
    BY <1>a, <2>1 DEF p
  <2> QED
    BY <2>1, <2>2 DEF Latest
<1>9. Told'
  BY <1>1, <1>2, <1>3, <1>4, <1>5, <1>6, <1>7, <1>8 DEF Next, Handler
<1> QED
  BY <1>9 DEF p

\* No change of a pod's configuration is lost, however the reconciler's two
\* steps, storing and notifying, fall between the steps of the handler and
\* however many streams the pod has had, as long as it has not reconnected too
\* early.
THEOREM UpdatesNotLost == Spec => []NoLostUpdate
<1> DEFINE Inv == BaseTypes /\ InstancesInv /\ NoLostUpdate
<1>1. Init => Inv
  BY BaseTypesInit, InstancesInit, NoLostUpdateInit
<1>2. Inv /\ [Next]_vars => Inv'
  BY BaseTypesNext, InstancesNext, NoLostUpdateNext
<1> QED
  BY <1>1, <1>2, PTL DEF Spec

-----------------------------------------------------------------------------
(***************************************************************************)
(* The refinement of PluginFeed                                            *)
(***************************************************************************)

\* A sidecar has one stream at a time, even where the server has several
\* handlers of it.
ClientInv ==
  /\ \A s \in Streams : connected[s] => client[PodOf[s]] = "streaming"
  /\ \A s, t \in Streams : connected[s] /\ connected[t] /\ PodOf[s] = PodOf[t] => s = t

\* Nobody is ahead of the configuration, and what a handler is about to send is
\* not behind what the sidecar has.
OrderInv ==
  /\ \A p \in Pods : has[p] <= config[p]
  /\ \A s \in Streams : read[s] <= config[PodOf[s]]
  /\ \A s \in Streams : connected[s] /\ pc[s] = "send" => has[PodOf[s]] <= read[s]

\* Before the first stream.
LEMMA FeedInvInit == Init => ClientInv /\ OrderInv
<1> SUFFICES ASSUME Init PROVE ClientInv /\ OrderInv
  OBVIOUS
<1>1. \A s \in Streams : ~connected[s]
  BY DEF Init
<1>2. \A s \in Streams : PodOf[s] \in Pods
  BY PodOfAssumption
<1> QED
  BY <1>1, <1>2 DEF Init, ClientInv, OrderInv

\* The end of a stream leaves the others of the sidecar, of which there are
\* none, alone.
LEMMA EndStreamClient ==
  ASSUME BaseTypes, ClientInv, NEW s \in Streams, NEW known, EndStream(s, known)
  PROVE  ClientInv'
<1>1. \A t \in Streams : connected'[t] <=> connected[t] /\ t # s
  BY DEF EndStream, BaseTypes
<1>2. ASSUME NEW t \in Streams, connected[t], t # s
      PROVE  client'[PodOf[t]] = "streaming"
  <2>1. client[PodOf[t]] = "streaming" /\ (connected[s] => PodOf[t] # PodOf[s])
    BY <1>2 DEF ClientInv
  <2>2. PodOf[t] \in Pods /\ PodOf[s] \in Pods
    BY PodOfAssumption
  <2> QED
    BY <2>1, <2>2 DEF EndStream, BaseTypes
<1> QED
  BY <1>1, <1>2 DEF ClientInv

\* Every step keeps a sidecar to one stream.
LEMMA ClientNext == BaseTypes /\ ClientInv /\ [Next]_vars => ClientInv'
<1> SUFFICES ASSUME BaseTypes, ClientInv, [Next]_vars PROVE ClientInv'
  OBVIOUS
<1> USE DEF handlerVars, clientVars
<1>0. \A s \in Streams : PodOf[s] \in Pods
  BY PodOfAssumption
<1>1. ASSUME NEW s \in Streams, Open(s) PROVE ClientInv'
  <2>1. \A t \in Streams : connected'[t] <=> connected[t] \/ t = s
    BY <1>1 DEF Open, BaseTypes
  <2>2. \A t \in Streams : connected[t] => PodOf[t] # PodOf[s]
    BY <1>1 DEF Open, NextStream, ClientInv
  <2>3. \A t \in Streams : connected'[t] => client'[PodOf[t]] = "streaming"
    BY <1>0, <1>1, <2>1, <2>2 DEF Open, ClientInv, BaseTypes
  <2> QED
    BY <2>1, <2>2, <2>3 DEF ClientInv
<1>2. ASSUME NEW s \in Streams, OpenFails(s) PROVE ClientInv'
  <2>1. connected' = connected /\ client' = [client EXCEPT ![PodOf[s]] = "ended"]
    BY <1>2 DEF OpenFails
  <2>2. \A t \in Streams : connected[t] => PodOf[t] # PodOf[s]
    BY <1>2 DEF OpenFails, NextStream, ClientInv
  <2> QED
    BY <1>0, <2>1, <2>2 DEF ClientInv, BaseTypes
<1>3. ASSUME NEW s \in Streams, Delete(s) \/ Disconnect(s) PROVE ClientInv'
  BY <1>3, EndStreamClient DEF Delete, Disconnect
<1>4. ASSUME UNCHANGED <<connected, client>> PROVE ClientInv'
  BY <1>4 DEF ClientInv
<1>5. ASSUME NEW p \in Pods, ChangeConfig(p) \/ NotifyPodChange(p)
      PROVE  UNCHANGED <<connected, client>>
  BY <1>5 DEF ChangeConfig, NotifyPodChange
<1>6. ASSUME NEW s \in Streams, Query(s) \/ Send(s) \/ TakeNotify(s) \/ Return(s)
      PROVE  UNCHANGED <<connected, client>>
  BY <1>6 DEF Query, Send, TakeNotify, Return
<1>7. Stop \/ UNCHANGED vars => UNCHANGED <<connected, client>>
  BY DEF Stop, vars
<1> QED
  BY <1>1, <1>2, <1>3, <1>4, <1>5, <1>6, <1>7 DEF Next, Handler

\* Every step keeps the order of the configurations.
LEMMA OrderNext == BaseTypes /\ ClientInv /\ OrderInv /\ [Next]_vars => OrderInv'
<1> SUFFICES ASSUME BaseTypes, ClientInv, OrderInv, [Next]_vars PROVE OrderInv'
  OBVIOUS
<1> USE DEF handlerVars, clientVars
<1>0. \A s \in Streams : PodOf[s] \in Pods
  BY PodOfAssumption
<1>a. /\ \A p \in Pods : has[p] \in Nat /\ config[p] \in Nat
      /\ \A s \in Streams : read[s] \in Nat
  BY DEF BaseTypes
<1>b. /\ \A p \in Pods : has'[p] \in Nat /\ config'[p] \in Nat
      /\ \A s \in Streams : read'[s] \in Nat
  BY BaseTypesNext DEF BaseTypes
<1>1. ASSUME NEW q \in Pods, ChangeConfig(q) PROVE OrderInv'
  <2>1. UNCHANGED <<has, read, connected, pc>>
    BY <1>1 DEF ChangeConfig
  <2>2. \A p \in Pods : config[p] <= config'[p]
    BY <1>1, <1>a DEF ChangeConfig, BaseTypes
  <2>3. \A p \in Pods : has'[p] <= config'[p]
    BY <1>a, <1>b, <2>1, <2>2 DEF OrderInv
  <2>4. ASSUME NEW s \in Streams PROVE read'[s] <= config'[PodOf[s]]
    <3>1. read[s] <= config[PodOf[s]] /\ config[PodOf[s]] <= config'[PodOf[s]]
      BY <1>0, <2>2 DEF OrderInv
    <3> QED
      BY <1>0, <1>a, <1>b, <2>1, <3>1
  <2> QED
    BY <2>1, <2>3, <2>4 DEF OrderInv
<1>2. ASSUME NEW t \in Streams, Query(t) PROVE OrderInv'
  <2>1. UNCHANGED <<has, config, connected>>
    BY <1>2 DEF Query
  <2>2. \A s \in Streams : s # t => read'[s] = read[s] /\ pc'[s] = pc[s]
    BY <1>2 DEF Query, BaseTypes
  <2>3. read'[t] = config[PodOf[t]] /\ has[PodOf[t]] <= config[PodOf[t]]
    BY <1>0, <1>2 DEF Query, OrderInv, BaseTypes
  <2>4. config[PodOf[t]] <= config[PodOf[t]]
    BY <1>0, <1>a
  <2> QED
    BY <2>1, <2>2, <2>3, <2>4 DEF OrderInv
<1>3. ASSUME NEW t \in Streams, Send(t) PROVE OrderInv'
  <2>1. UNCHANGED <<read, config, connected>>
    BY <1>3 DEF Send
  <2>2. has'[PodOf[t]] = read[t] /\ \A p \in Pods : p # PodOf[t] => has'[p] = has[p]
    BY <1>0, <1>3 DEF Send, BaseTypes
  <2>3. \A p \in Pods : has'[p] <= config[p]
    BY <2>2 DEF OrderInv
  <2>4. ASSUME NEW s \in Streams, connected'[s], pc'[s] = "send"
        PROVE  has'[PodOf[s]] <= read'[s]
    <3>1. s # t /\ pc[s] = "send"
      BY <1>3, <2>4 DEF Send, BaseTypes
    <3>2. PodOf[s] # PodOf[t]
      BY <1>3, <2>1, <2>4, <3>1 DEF Send, ClientInv
    <3> QED
      BY <1>0, <2>1, <2>2, <2>4, <3>1, <3>2 DEF OrderInv
  <2> QED
    BY <2>1, <2>3, <2>4 DEF OrderInv
<1>4. ASSUME UNCHANGED <<has, read, config>>,
             \A s \in Streams : connected'[s] /\ pc'[s] = "send"
                                 => connected[s] /\ pc[s] = "send"
      PROVE  OrderInv'
  BY <1>4 DEF OrderInv
<1>5. ASSUME NEW s \in Streams,
             Open(s) \/ OpenFails(s) \/ TakeNotify(s) \/ Return(s) \/ Delete(s) \/ Disconnect(s)
      PROVE  OrderInv'
  <2>1. UNCHANGED <<has, read, config>>
    BY <1>5 DEF Open, OpenFails, TakeNotify, Return, Delete, Disconnect
  <2>2. ASSUME NEW t \in Streams, pc'[t] = "send" PROVE pc[t] = "send"
    BY <1>5, <2>2 DEF Open, OpenFails, TakeNotify, Return, Delete, Disconnect, BaseTypes
  <2>3. CASE Open(s)
    BY <1>4, <2>1, <2>2, <2>3 DEF Open, BaseTypes
  <2>4. ASSUME ~Open(s), NEW t \in Streams, connected'[t] PROVE connected[t]
    BY <1>5, <2>4 DEF OpenFails, TakeNotify, Return, Delete, Disconnect, EndStream, BaseTypes
  <2> QED
    BY <1>4, <2>1, <2>2, <2>3, <2>4
<1>6. ASSUME NEW q \in Pods, NotifyPodChange(q) PROVE OrderInv'
  BY <1>4, <1>6 DEF NotifyPodChange
<1>7. CASE Stop \/ UNCHANGED vars
  BY <1>4, <1>7 DEF Stop, vars
<1> QED
  BY <1>1, <1>2, <1>3, <1>5, <1>6, <1>7 DEF Next, Handler

\* A sidecar that was given up stays so.
LEMMA LostGrows ==
  ASSUME BaseTypes, ClientInv, [Next]_vars
  PROVE  Lost \subseteq Lost' /\ Lost' \subseteq Pods
<1> USE DEF handlerVars, clientVars
<1>0. \A s \in Streams : PodOf[s] \in Pods
  BY PodOfAssumption
<1>1. (stopped => stopped') /\ overlapped \subseteq overlapped'
  BY DEF Next, Handler, ChangeConfig, NotifyPodChange, Open, OpenFails, Query, Send, TakeNotify,
         Return, Delete, Disconnect, Stop, vars
<1>2. ASSUME NEW p \in Pods, client[p] \in {"deaf", "ended"} PROVE client'[p] = client[p]
  <2>1. ASSUME NEW s \in Streams, connected[s] PROVE PodOf[s] # p
    BY <1>2, <2>1 DEF ClientInv
  <2>2. ASSUME NEW s \in Streams, NEW known, EndStream(s, known) PROVE client'[p] = client[p]
    BY <1>0, <2>1, <2>2 DEF EndStream, BaseTypes
  <2>3. ASSUME NEW s \in Streams, Open(s) \/ OpenFails(s) PROVE client'[p] = client[p]
    BY <1>0, <1>2, <2>3 DEF Open, OpenFails, NextStream, BaseTypes
  <2>4. ASSUME NEW s \in Streams, Delete(s) \/ Disconnect(s) PROVE client'[p] = client[p]
    BY <2>2, <2>4 DEF Delete, Disconnect
  <2> QED
    BY <2>3, <2>4 DEF Next, Handler, ChangeConfig, NotifyPodChange, Query, Send, TakeNotify,
                      Return, Stop, vars
<1>3. ASSUME NEW s \in Streams, pc[s] # "closed" PROVE pc'[s] # "closed"
  BY <1>3 DEF Next, Handler, ChangeConfig, NotifyPodChange, Open, OpenFails, Query, Send,
              TakeNotify, Return, Delete, Disconnect, Stop, vars, BaseTypes
<1>4. ASSUME NEW s \in Streams, pc[s] # "closed", ~connected[s] PROVE ~connected'[s]
  <2>1. ASSUME NEW t \in Streams, Open(t) PROVE ~connected'[s]
    BY <1>4, <2>1 DEF Open, NextStream, BaseTypes
  <2>2. ASSUME NEW t \in Streams, Delete(t) \/ Disconnect(t) PROVE ~connected'[s]
    BY <1>4, <2>2 DEF Delete, Disconnect, EndStream, BaseTypes
  <2> QED
    BY <1>4, <2>1, <2>2 DEF Next, Handler, ChangeConfig, NotifyPodChange, OpenFails, Query, Send,
                            TakeNotify, Return, Stop, vars
<1> QED
  BY <1>1, <1>2, <1>3, <1>4 DEF Lost

\* The first state is one of the feed.
LEMMA FeedInit == Init => Feed!Init
<1> SUFFICES ASSUME Init PROVE Feed!Init
  OBVIOUS
<1>1. Lost = {}
  BY PodsAssumption DEF Init, Lost
<1> QED
  BY <1>1 DEF Init, Feed!Init

\* Every step is one of the feed, or none.
LEMMA FeedNext ==
  BaseTypes /\ ClientInv /\ OrderInv /\ [Next]_vars => [Feed!Next]_Feed!vars
<1> SUFFICES ASSUME BaseTypes, ClientInv, OrderInv, [Next]_vars
             PROVE  [Feed!Next]_Feed!vars
  OBVIOUS
<1> USE DEF handlerVars, clientVars
<1>0. \A s \in Streams : PodOf[s] \in Pods
  BY PodOfAssumption
<1>1. ASSUME NEW p \in Pods, ChangeConfig(p) PROVE Feed!Change(p)
  <2>1. Lost' = Lost
    BY <1>1 DEF ChangeConfig, Lost
  <2> QED
    BY <1>1, <2>1 DEF ChangeConfig, Feed!Change
<1>2. ASSUME NEW s \in Streams, Send(s)
      PROVE  Feed!Update(PodOf[s]) \/ UNCHANGED Feed!vars
  <2> DEFINE p == PodOf[s]
  <2>1. Lost' = Lost
    <3>1. \A t \in Streams : pc'[t] = "closed" <=> pc[t] = "closed"
      BY <1>2 DEF Send, BaseTypes
    <3>2. UNCHANGED <<stopped, overlapped, client, connected>>
      BY <1>2 DEF Send
    <3> QED
      BY <3>1, <3>2 DEF Lost
  <2>2. /\ config' = config
        /\ has' = [has EXCEPT ![p] = read[s]]
        /\ has[p] <= read[s] /\ read[s] <= config[p]
    BY <1>2 DEF Send, OrderInv
  <2>3. has[p] \in Nat /\ read[s] \in Nat /\ config[p] \in Nat /\ p \in Pods
    BY <1>0 DEF BaseTypes
  <2>4. CASE read[s] = has[p]
    <3>1. has' = has
      BY <2>2, <2>4 DEF BaseTypes
    <3> QED
      BY <2>1, <2>2, <3>1 DEF Feed!vars
  <2>5. CASE read[s] # has[p]
    <3>1. has[p] < config[p] /\ read[s] \in (has[p] + 1)..config[p]
      BY <2>2, <2>3, <2>5
    <3> QED
      BY <2>1, <2>2, <3>1 DEF Feed!Update
  <2> QED
    BY <2>4, <2>5
<1>3. ASSUME UNCHANGED <<config, has>> PROVE Feed!Lose
  BY <1>3, LostGrows DEF Feed!Lose
<1>4. ASSUME NEW s \in Streams,
             \/ Open(s) \/ OpenFails(s) \/ Query(s) \/ TakeNotify(s) \/ Return(s)
             \/ Delete(s) \/ Disconnect(s)
      PROVE  UNCHANGED <<config, has>>
  BY <1>4 DEF Open, OpenFails, Query, TakeNotify, Return, Delete, Disconnect
<1>5. ASSUME NEW p \in Pods, NotifyPodChange(p) PROVE UNCHANGED <<config, has>>
  BY <1>5 DEF NotifyPodChange
<1>6. Stop \/ UNCHANGED vars => UNCHANGED <<config, has>>
  BY DEF Stop, vars
<1> QED
  BY <1>0, <1>1, <1>2, <1>3, <1>4, <1>5, <1>6 DEF Next, Handler, Feed!Next

\* The plugin streams implement the safety part of the feed: across handlers
\* and reconnections, of which several may overlap on the server, a sidecar is
\* sent configurations of its pod only, and never an older one than it has;
\* and a sidecar that is promised nothing any more never comes back.
THEOREM StreamsImplementFeed == Spec => Feed!Spec
<1> DEFINE Inv == BaseTypes /\ ClientInv /\ OrderInv
<1>1. Init => Inv /\ Feed!Init
  BY BaseTypesInit, FeedInvInit, FeedInit
<1>2. Inv /\ [Next]_vars => Inv'
  BY BaseTypesNext, ClientNext, OrderNext
<1>3. Inv /\ [Next]_vars => [Feed!Next]_Feed!vars
  BY FeedNext
<1> QED
  BY <1>1, <1>2, <1>3, PTL DEF Spec, Feed!Spec

=============================================================================
