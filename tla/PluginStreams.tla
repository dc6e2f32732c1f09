---------------------------- MODULE PluginStreams ----------------------------
(***************************************************************************)
(* The gRPC server of the controller and its clients, the Amesh            *)
(* provisioners: every sidecar holds a StreamPlugins stream, the instance  *)
(* manager maps a pod to the instance of its stream, and the reconciler,   *)
(* after it has changed the plugin configuration of a pod, has the stream  *)
(* of that pod send the configuration again.                               *)
(*                                                                         *)
(* The steps of a stream's handler:                                        *)
(*   closed -> (add) query -> send -> loop -> query ... -> (delete) ended  *)
(* where `query` is about to read the configuration and `send` holds what  *)
(* it has read.  `aborted` and `return` are where it ends with an error or *)
(* without one, before the deferred call.                                  *)
(***************************************************************************)
EXTENDS Naturals, FiniteSets

CONSTANTS
  Pods,           \* the pods whose sidecar opens a stream
  Streams,        \* the streams ever opened, numbered in their order
  PodOf,          \* Streams -> Pods, the key of the request
  MaxVersion,     \* pod -> bound on the configurations it goes through
  None            \* no instance

ASSUME StreamsAssumption == Streams \subseteq Nat /\ IsFiniteSet(Streams)
ASSUME PodOfAssumption == PodOf \in [Streams -> Pods]
ASSUME PodsAssumption == \A p \in Pods : \E s \in Streams : PodOf[s] = p
ASSUME MaxVersionAssumption == MaxVersion \in [Pods -> Nat]
ASSUME NoneAssumption == None \notin Streams

VARIABLES
  config,     \* pod -> what GetPodPluginConfigs returns for it now
  toNotify,   \* pods the reconciler has changed and not yet notified
  instances,  \* the instance manager: pod -> stream or None
  managed,    \* the gauge of managed instances
  pc,         \* where each handler is
  read,       \* the configuration a handler has read and not yet sent
  has,        \* pod -> the configuration its sidecar was last sent
  notify,     \* goroutines blocked on the UpdateNotifyChan of a stream
  connected,  \* the client end of a stream is there
  client,     \* pod -> its sidecar: dialling, streaming, deaf or ended
  overlapped, \* pods that have reconnected while the handler of an earlier
              \*   stream was there (history variable)
  stopped     \* the server was told to stop

clientVars == <<connected, client, overlapped>>
handlerVars == <<pc, read, has>>
vars == <<config, toNotify, instances, managed, handlerVars, notify, clientVars,
          stopped>>

VersionsOf(p) == 0..MaxVersion[p]

\* InstanceManager.get.
Registered(p) == instances[p] # None

\* InstanceManager.add: register the stream of a pod, and count it.
Add(p, s) ==
  /\ instances' = [instances EXCEPT ![p] = s]
  /\ managed' = managed + 1

-----------------------------------------------------------------------------
(***************************************************************************)
(* The reconciler and the notification                                     *)
(***************************************************************************)

\* Reconcile stores a new configuration; SendPluginsConfigs comes later.
ChangeConfig(p) ==
  /\ config[p] < MaxVersion[p]
  /\ config' = [config EXCEPT ![p] = @ + 1]
  /\ toNotify' = toNotify \cup {p}
  /\ UNCHANGED <<instances, managed, handlerVars, notify, clientVars, stopped>>

\* Mutant: the notification is dropped unless the handler is waiting for it.
NotifyIfWaiting(p) ==
  /\ p \in toNotify
  /\ toNotify' = toNotify \ {p}
  /\ notify' = [s \in Streams |-> IF s = instances[p] /\ pc[s] = "loop"
                                  THEN notify[s] + 1 ELSE notify[s]]
  /\ UNCHANGED <<config, instances, managed, handlerVars, clientVars, stopped>>

\* NotifyPodChange: a goroutine for the instance, if there is one.
NotifyPodChange(p) ==
  /\ p \in toNotify
  /\ toNotify' = toNotify \ {p}
  /\ notify' = IF Registered(p) THEN [notify EXCEPT ![instances[p]] = @ + 1]
               ELSE notify
  /\ UNCHANGED <<config, instances, managed, handlerVars, clientVars, stopped>>

-----------------------------------------------------------------------------
(***************************************************************************)
(* The handler of a stream                                                 *)
(***************************************************************************)

Others(s) == {t \in Streams \ {s} : PodOf[t] = PodOf[s]}

\* The next stream of a sidecar that has given up the one before.
NextStream(s) ==
  /\ pc[s] = "closed" /\ client[PodOf[s]] = "dialling" /\ ~stopped
  /\ \A t \in Others(s) : pc[t] = "closed" => s < t

\* instanceManager.add, under its lock, and the gauge.  The handler of an
\* earlier stream may still be there.
Open(s) ==
  /\ NextStream(s)
  /\ pc' = [pc EXCEPT ![s] = "query"]
  /\ connected' = [connected EXCEPT ![s] = TRUE]
  /\ client' = [client EXCEPT ![PodOf[s]] = "streaming"]
  /\ overlapped' = IF \A t \in Others(s) : pc[t] \in {"closed", "ended"} THEN overlapped
                   ELSE overlapped \cup {PodOf[s]}
  /\ Add(PodOf[s], s)
  /\ UNCHANGED <<config, toNotify, read, has, notify, stopped>>

\* sendPodPluginConfig, first half: read the configuration.
Query(s) ==
  /\ pc[s] = "query"
  /\ pc' = [pc EXCEPT ![s] = "send"]
  /\ read' = [read EXCEPT ![s] = config[PodOf[s]]]
  /\ UNCHANGED <<config, toNotify, instances, managed, has, notify, clientVars, stopped>>

\* sendPodPluginConfig, second half: send it, if the client is there.
Send(s) ==
  /\ pc[s] = "send" /\ connected[s]
  /\ pc' = [pc EXCEPT ![s] = "loop"]
  /\ has' = [has EXCEPT ![PodOf[s]] = read[s]]
  /\ UNCHANGED <<config, toNotify, instances, managed, read, notify, clientVars, stopped>>

\* Mutant: the error paths count the instance down, too.
ReturnCountingDown(s) ==
  /\ \/ pc[s] = "query" /\ pc' = [pc EXCEPT ![s] = "aborted"]
     \/ /\ \/ pc[s] = "send" /\ ~connected[s]
           \/ pc[s] = "loop" /\ (~connected[s] \/ stopped)
        /\ pc' = [pc EXCEPT ![s] = "return"]
  /\ managed' = managed - 1
  /\ UNCHANGED <<config, toNotify, instances, read, has, notify, clientVars, stopped>>

\* The handler returns: the query fails (the pod is not listed), the send
\* fails, the context is done or the server stops.
Return(s) ==
  /\ \/ pc[s] = "query" /\ pc' = [pc EXCEPT ![s] = "aborted"]
     \/ /\ \/ pc[s] = "send" /\ ~connected[s]
           \/ pc[s] = "loop" /\ (~connected[s] \/ stopped)
        /\ pc' = [pc EXCEPT ![s] = "return"]
  /\ UNCHANGED <<config, toNotify, instances, managed, read, has, notify, clientVars,
                 stopped>>

\* The stream ends for its client, if that is still there.  recvLoop has Run
\* dial again for an error it knows; after any other one it calls Recv on the
\* dead stream for ever.
EndStream(s, known) ==
  /\ connected' = [connected EXCEPT ![s] = FALSE]
  /\ client' = IF connected[s]
               THEN [client EXCEPT ![PodOf[s]] = IF known THEN "dialling" ELSE "deaf"]
               ELSE client

\* Mutant: the gauge is not counted down.
DeleteUncounted(s) ==
  /\ pc[s] \in {"aborted", "return"}
  /\ pc' = [pc EXCEPT ![s] = "ended"]
  /\ instances' = [instances EXCEPT ![PodOf[s]] = None]
  /\ EndStream(s, pc[s] = "return")
  /\ UNCHANGED <<config, toNotify, managed, read, has, notify, overlapped, stopped>>

\* The deferred instanceManager.delete, by key, and the gauge.  Then the client
\* gets the end of the stream: EOF, or the error Aborted, which it does not
\* know.
Delete(s) ==
  /\ pc[s] \in {"aborted", "return"}
  /\ pc' = [pc EXCEPT ![s] = "ended"]
  /\ instances' = [instances EXCEPT ![PodOf[s]] = None]
  /\ managed' = managed - 1
  /\ EndStream(s, pc[s] = "return")
  /\ UNCHANGED <<config, toNotify, read, has, notify, overlapped, stopped>>

\* Mutant: the notification is taken and nothing is sent.
TakeNotifyOnly(s) ==
  /\ pc[s] = "loop" /\ notify[s] > 0
  /\ notify' = [notify EXCEPT ![s] = @ - 1]
  /\ UNCHANGED <<config, toNotify, instances, managed, handlerVars, clientVars, stopped>>

\* The handler takes a notification and sends again.
TakeNotify(s) ==
  /\ pc[s] = "loop" /\ notify[s] > 0
  /\ pc' = [pc EXCEPT ![s] = "query"]
  /\ notify' = [notify EXCEPT ![s] = @ - 1]
  /\ UNCHANGED <<config, toNotify, instances, managed, read, has, clientVars, stopped>>

-----------------------------------------------------------------------------

\* The connection breaks, with an error that recvLoop knows by its text or not.
Disconnect(s) ==
  /\ connected[s]
  /\ \E known \in BOOLEAN : EndStream(s, known)
  /\ UNCHANGED <<config, toNotify, instances, managed, handlerVars, notify, overlapped,
                 stopped>>

\* The sidecar has dialled, but the call of StreamPlugins fails: Run returns.
OpenFails(s) ==
  /\ NextStream(s)
  /\ client' = [client EXCEPT ![PodOf[s]] = "ended"]
  /\ UNCHANGED <<config, toNotify, instances, managed, handlerVars, notify, connected,
                 overlapped, stopped>>

Stop ==
  /\ ~stopped
  /\ stopped' = TRUE
  /\ UNCHANGED <<config, toNotify, instances, managed, handlerVars, notify, clientVars>>

Init ==
  /\ config = [p \in Pods |-> 0]
  /\ toNotify = {}
  /\ instances = [p \in Pods |-> None]
  /\ managed = 0
  /\ pc = [s \in Streams |-> "closed"]
  /\ read = [s \in Streams |-> 0]
  /\ has = [p \in Pods |-> 0]
  /\ notify = [s \in Streams |-> 0]
  /\ connected = [s \in Streams |-> FALSE]
  /\ client = [p \in Pods |-> "dialling"]
  /\ overlapped = {}
  /\ stopped = FALSE

Handler(s) == Query(s) \/ Send(s) \/ TakeNotify(s) \/ Return(s) \/ Delete(s)

Next ==
  \/ \E p \in Pods : ChangeConfig(p) \/ NotifyPodChange(p)
  \/ \E s \in Streams : Open(s) \/ OpenFails(s) \/ Handler(s) \/ Disconnect(s)
  \/ Stop

Spec == Init /\ [][Next]_vars

\* The reconciler gets to notify the pods it has changed, a handler that can
\* go on does, and a sidecar that dials gets through at some time.
Fairness ==
  /\ \A p \in Pods : WF_vars(NotifyPodChange(p))
  /\ \A s \in Streams : WF_vars(Handler(s)) /\ WF_vars(Open(s))

FairSpec == Spec /\ Fairness

-----------------------------------------------------------------------------

\* Types: configurations, handlers and instances.
TypeOK ==
  /\ config \in [Pods -> Nat] /\ \A p \in Pods : config[p] \in VersionsOf(p)
  /\ toNotify \subseteq Pods
  /\ instances \in [Pods -> Streams \cup {None}]
  /\ managed \in 0..Cardinality(Streams)
  /\ pc \in [Streams -> {"closed", "query", "send", "loop", "aborted", "return", "ended"}]
  /\ read \in [Streams -> Nat] /\ \A s \in Streams : read[s] \in VersionsOf(PodOf[s])
  /\ has \in [Pods -> Nat] /\ \A p \in Pods : has[p] \in VersionsOf(p)
  /\ notify \in [Streams -> Nat]
  /\ connected \in [Streams -> BOOLEAN]
  /\ client \in [Pods -> {"dialling", "streaming", "deaf", "ended"}]
  /\ overlapped \subseteq Pods
  /\ stopped \in BOOLEAN

\* What the client of a stream has, or is about to get.
Latest(s) == IF pc[s] = "send" THEN read[s] ELSE has[PodOf[s]]

\* No change is lost: the handler of a connected sidecar that has read the
\* configuration has the current one, or a notification for it is on its way,
\* however the reconciler's two steps fall between registering, reading,
\* sending and waiting.  Not so for a pod that has reconnected too early: the
\* deferred delete of the old handler removes the new instance.
NoLostUpdate ==
  \A s \in Streams :
    connected[s] /\ pc[s] \in {"send", "loop"} /\ PodOf[s] \notin overlapped =>
      \/ Latest(s) = config[PodOf[s]]
      \/ PodOf[s] \in toNotify
      \/ notify[s] > 0

\* The gauge counts the instances the manager knows, as long as no pod has
\* reconnected too early.
ManagedInstancesCounted ==
  overlapped = {} => managed = Cardinality({p \in Pods : Registered(p)})

\* Pods that nothing is promised any more: the server has stopped, the client
\* has met an error it does not handle or reconnected too early, or the model
\* has no more streams for it.
Lost ==
  {p \in Pods :
     \/ stopped \/ p \in overlapped \/ client[p] \in {"deaf", "ended"}
     \/ \A s \in Streams : PodOf[s] = p => pc[s] # "closed" /\ ~connected[s]}

Feed == INSTANCE PluginFeed WITH lost <- Lost

\* All this implements a simple feed: a sidecar gets the configurations of its
\* pod in their order, none that never was, and, across reconnections, the
\* current one in the end unless it is lost.
ImplementsFeed == Feed!FairSpec

=============================================================================
