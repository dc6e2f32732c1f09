----------------------------- MODULE Lifecycle -----------------------------
(***************************************************************************)
(* The life of a sidecar process: its start, the agent's loop, the two     *)
(* HTTP servers, the provisioner's goroutines as far as they can end the   *)
(* process, and what a signal sets off.                                    *)
(*                                                                         *)
(* A panic in a goroutine ends the process, one in an HTTP handler does    *)
(* not.  Fatalw and Dief end it too.  The agent is either the whole        *)
(* process (cmd/standalone) or a library in an APISIX worker               *)
(* (cmd/dynamic), which goes on when Run has returned.  Connections and    *)
(* their loops are the subject of module XdsConnection.                    *)
(***************************************************************************)
EXTENDS Naturals, FiniteSets

CONSTANTS
  MaxBatches    \* bound on the goroutines that wait to send a batch of events

ASSUME MaxBatchesAssumption == MaxBatches \in Nat \ {0}

VARIABLES
  env,          \* the configuration of the process, from flags and environment
  process,      \* starting, running, exited, died, fatal or panic
  stop,         \* a signal has arrived and the context is cancelled
  agent,        \* Agent.Run: loop, status, between, metrics or returned
  server,       \* the two servers: starting, made, serving, closed or off
  provisioner,  \* xdsProvisioner.Run: dialling, connected or returned
  loops,        \* which of sendLoop and translateLoop have a goroutine
  batches,      \* goroutines that wait to send a batch on evChan
  secret,       \* a request for a secret: none, waiting in its handler, sent
  scraping,     \* a request for metrics is being handled
  gone          \* a client of the status server went away (history variable)

vars == <<env, process, stop, agent, server, provisioner, loops, batches, secret, scraping, gone>>

Servers == {"status", "metrics"}

\* A port is unset (or NONE), not a number, in use by another, or usable.
Ports == {"none", "malformed", "taken", "usable"}

Running == process = "running"
End(outcome) == process' = outcome

-----------------------------------------------------------------------------
(***************************************************************************)
(* The main programs                                                       *)
(***************************************************************************)

\* NewAmeshProvisioner needs the name of the pod and its namespace.
NewAmeshProvisioner == env.amesh => env.named

\* initial, StartTestAmesh and the run command: an interval that is not a
\* number, or whatever NewAgent refuses, and the process dies.
Start ==
  /\ process = "starting"
  /\ End(IF env.valid /\ NewAmeshProvisioner THEN "running" ELSE "died")
  /\ UNCHANGED <<env, stop, agent, server, provisioner, loops, batches, secret, scraping, gone>>

\* WaitForSignal takes one signal and cancels the context.
Signal ==
  /\ Running /\ ~stop
  /\ stop' = TRUE
  /\ UNCHANGED <<env, process, agent, server, provisioner, loops, batches, secret, scraping, gone>>

\* The run command ends with Agent.Run.
MainReturns ==
  /\ Running /\ env.standalone /\ agent = "returned"
  /\ End("exited")
  /\ UNCHANGED <<env, stop, agent, server, provisioner, loops, batches, secret, scraping, gone>>

-----------------------------------------------------------------------------
(***************************************************************************)
(* The status and the metrics server                                       *)
(***************************************************************************)

\* Mutant: an unset port is parsed like any other.
StartServerUnset(s) ==
  /\ Running /\ server[s] = "starting"
  /\ IF env[s] \in {"none", "malformed"} THEN End("fatal") /\ UNCHANGED server
     ELSE UNCHANGED process /\ server' = [server EXCEPT ![s] = "made"]
  /\ UNCHANGED <<env, stop, agent, provisioner, loops, batches, secret, scraping, gone>>

\* The goroutine of a server, until it has assigned the variable that the
\* agent reads.  A malformed port is fatal, although the message speaks of a
\* default.
StartServer(s) ==
  /\ Running /\ server[s] = "starting"
  /\ IF env[s] = "malformed" THEN End("fatal") /\ UNCHANGED server
     ELSE /\ UNCHANGED process
          /\ server' = [server EXCEPT ![s] = IF env[s] = "none" THEN "off" ELSE "made"]
  /\ UNCHANGED <<env, stop, agent, provisioner, loops, batches, secret, scraping, gone>>

\* ListenAndServe.
Listen(s) ==
  /\ Running /\ server[s] = "made"
  /\ IF env[s] = "taken" THEN End("fatal") /\ UNCHANGED server
     ELSE UNCHANGED process /\ server' = [server EXCEPT ![s] = "serving"]
  /\ UNCHANGED <<env, stop, agent, provisioner, loops, batches, secret, scraping, gone>>

\* Mutant: the end of a server that has been shut down is no error.
ServeReturnsNil(s) ==
  /\ Running /\ server[s] = "closed"
  /\ server' = [server EXCEPT ![s] = "off"]
  /\ UNCHANGED <<env, process, stop, agent, provisioner, loops, batches, secret, scraping, gone>>

\* ListenAndServe returns ErrServerClosed as soon as Shutdown has been called,
\* and the goroutine takes that for a failure.
ServeReturns(s) ==
  /\ Running /\ server[s] = "closed"
  /\ End("fatal")
  /\ UNCHANGED <<env, stop, agent, server, provisioner, loops, batches, secret, scraping, gone>>

\* The handler of /sds/ waits in SendSds for a sendLoop.
RequestSecret ==
  /\ Running /\ server["status"] = "serving" /\ secret = "none"
  /\ secret' = "waiting"
  /\ UNCHANGED <<env, process, stop, agent, server, provisioner, loops, batches, scraping, gone>>

\* The handler of the metrics server writes its own metrics, and getMetrics asks
\* APISIX for its, with no limit to the time that may take.
Scrape ==
  /\ Running /\ server["metrics"] = "serving" /\ ~scraping
  /\ scraping' = TRUE
  /\ UNCHANGED <<env, process, stop, agent, server, provisioner, loops, batches, secret,
                 gone>>

\* APISIX has answered or refused, and the handler writes that or gives up.
ScrapeEnds ==
  /\ Running /\ scraping
  /\ scraping' = FALSE
  /\ UNCHANGED <<env, process, stop, agent, server, provisioner, loops, batches, secret,
                 gone>>

\* internalDataHandler cannot write its answer (of GetData, or of an error):
\* the client is gone, and so is the process.
ClientGone ==
  /\ Running /\ server["status"] = "serving"
  /\ gone' = TRUE
  /\ End("fatal")
  /\ UNCHANGED <<env, stop, agent, server, provisioner, loops, batches, secret, scraping>>

-----------------------------------------------------------------------------
(***************************************************************************)
(* The provisioner                                                         *)
(***************************************************************************)

\* Run has connected, and run starts the loops.
Connect ==
  /\ Running /\ provisioner = "dialling"
  /\ provisioner' = "connected"
  /\ loops' = {"send", "translate"}
  /\ UNCHANGED <<env, process, stop, agent, server, batches, secret, scraping, gone>>

\* The first goroutine of run waits for events of p.amesh, which is nil if
\* there is no Amesh source; it may run as late as after a reset.
WaitForAmesh ==
  /\ Running /\ ~env.amesh
  /\ provisioner # "dialling" \/ loops # {}
  /\ End("panic")
  /\ UNCHANGED <<env, stop, agent, server, provisioner, loops, batches, secret, scraping, gone>>

\* Closing a channel panics all goroutines that are sending on it.
CloseEvents ==
  /\ provisioner' = "returned"
  /\ IF batches > 0 THEN End("panic") ELSE UNCHANGED process

\* Mutant: Run returns when a connection is lost.
ResetReturns ==
  /\ Running /\ provisioner = "connected"
  /\ CloseEvents
  /\ UNCHANGED <<env, stop, agent, server, loops, batches, secret, scraping, gone>>

\* A connection is lost; Run dials again, and the loops go on.
Reset ==
  /\ Running /\ provisioner = "connected"
  /\ provisioner' = "dialling"
  /\ UNCHANGED <<env, process, stop, agent, server, loops, batches, secret, scraping, gone>>

\* Run looks at stop only while it is connected; it closes evChan.
ProvisionerReturns ==
  /\ Running /\ stop /\ provisioner = "connected"
  /\ CloseEvents
  /\ UNCHANGED <<env, stop, agent, server, loops, batches, secret, scraping, gone>>

\* translateLoop: every response leaves a goroutine that sends on evChan.
Translate ==
  /\ Running /\ "translate" \in loops /\ batches < MaxBatches
  /\ IF provisioner = "returned" THEN End("panic") /\ UNCHANGED batches
     ELSE UNCHANGED process /\ batches' = batches + 1
  /\ UNCHANGED <<env, stop, agent, server, provisioner, loops, secret, scraping, gone>>

\* sendLoop: a request for a secret is sent, or lost with its connection.
SendSecret ==
  /\ Running /\ "send" \in loops /\ secret = "waiting"
  /\ secret' \in {"sent", "none"}
  /\ UNCHANGED <<env, process, stop, agent, server, provisioner, loops, batches, scraping, gone>>

\* translate, SDS: a secret is noted in p.secrets, a map that is never made.
TranslateSecret ==
  /\ Running /\ "translate" \in loops /\ secret = "sent"
  /\ \/ End("panic") /\ UNCHANGED secret
     \/ secret' = "none" /\ UNCHANGED process    \* there is no such secret
  /\ UNCHANGED <<env, stop, agent, server, provisioner, loops, batches, scraping, gone>>

\* A loop whose select has taken stop.
LoopStops(l) ==
  /\ Running /\ stop /\ l \in loops
  /\ loops' = loops \ {l}
  /\ UNCHANGED <<env, process, stop, agent, server, provisioner, batches, secret, scraping, gone>>

-----------------------------------------------------------------------------
(***************************************************************************)
(* The agent's loop and its end                                            *)
(***************************************************************************)

\* Mutant: the agent does not wait for a batch.
TakeAny ==
  /\ Running /\ agent = "loop"
  /\ batches' = batches - 1
  /\ UNCHANGED <<env, process, stop, agent, server, provisioner, loops, secret, scraping, gone>>

\* A batch of events is stored (module AgentStore).
Take ==
  /\ Running /\ agent = "loop" /\ batches > 0
  /\ batches' = batches - 1
  /\ UNCHANGED <<env, process, stop, agent, server, provisioner, loops, secret, scraping, gone>>

\* evChan is closed: the loop ends and the servers stay.
EventsClosed ==
  /\ Running /\ agent = "loop" /\ provisioner = "returned"
  /\ agent' = "returned"
  /\ UNCHANGED <<env, process, stop, server, provisioner, loops, batches, secret, scraping, gone>>

\* The server variable is written and read without synchronisation: it may be
\* nil still when the server is there.
ShutDown(s, next) ==
  \/ /\ server[s] \in {"made", "serving"}
     /\ server' = [server EXCEPT ![s] = "closed"]
     /\ agent' = s
  \/ /\ UNCHANGED server
     /\ agent' = next

\* The loop takes stop, and shuts down the status server if it sees one.
StopSeen ==
  /\ Running /\ stop /\ agent = "loop"
  /\ ShutDown("status", "between")
  /\ UNCHANGED <<env, process, stop, provisioner, loops, batches, secret, scraping, gone>>

\* Shutdown returns when no request is being handled.
StatusDown ==
  /\ Running /\ agent = "status" /\ secret # "waiting"
  /\ agent' = "between"
  /\ UNCHANGED <<env, process, stop, server, provisioner, loops, batches, secret, scraping, gone>>

\* The same for the metrics server.
StopMetrics ==
  /\ Running /\ agent = "between"
  /\ ShutDown("metrics", "returned")
  /\ UNCHANGED <<env, process, stop, provisioner, loops, batches, secret, scraping, gone>>

MetricsDown ==
  /\ Running /\ agent = "metrics" /\ ~scraping
  /\ agent' = "returned"
  /\ UNCHANGED <<env, process, stop, server, provisioner, loops, batches, secret, scraping, gone>>

-----------------------------------------------------------------------------

Environments ==
  [valid : BOOLEAN, named : BOOLEAN, standalone : BOOLEAN, amesh : BOOLEAN,
   status : Ports, metrics : Ports]

\* The run command has no option for an Amesh source.
Init ==
  /\ env \in {e \in Environments : e.standalone => ~e.amesh}
  /\ process = "starting"
  /\ stop = FALSE
  /\ agent = "loop"
  /\ server = [s \in Servers |-> "starting"]
  /\ provisioner = "dialling"
  /\ loops = {}
  /\ batches = 0
  /\ secret = "none"
  /\ scraping = FALSE
  /\ gone = FALSE

AgentNext == Take \/ EventsClosed \/ StopSeen \/ StatusDown \/ StopMetrics \/ MetricsDown

Next ==
  \/ Start \/ Signal \/ MainReturns
  \/ \E s \in Servers : StartServer(s) \/ Listen(s) \/ ServeReturns(s)
  \/ RequestSecret \/ ClientGone \/ Scrape \/ ScrapeEnds
  \/ Connect \/ WaitForAmesh \/ Reset \/ ProvisionerReturns \/ Translate
  \/ SendSecret \/ TranslateSecret
  \/ \E l \in {"send", "translate"} : LoopStops(l)
  \/ AgentNext

Spec == Init /\ [][Next]_vars

\* Goroutines that can go on do; a select that finds stop closed every time
\* takes it at some time, although others may be ready as well.  Nothing is
\* assumed of istiod, of APISIX, of signals and of clients.
Fairness ==
  /\ WF_vars(Start) /\ WF_vars(MainReturns) /\ WF_vars(WaitForAmesh)
  /\ \A s \in Servers :
       WF_vars(StartServer(s)) /\ WF_vars(Listen(s)) /\ WF_vars(ServeReturns(s))
  /\ WF_vars(SendSecret) /\ \A l \in {"send", "translate"} : SF_vars(LoopStops(l))
  /\ SF_vars(StopSeen)
  /\ WF_vars(StatusDown) /\ WF_vars(StopMetrics) /\ WF_vars(MetricsDown)

FairSpec == Spec /\ Fairness

-----------------------------------------------------------------------------
(***************************************************************************)
(* Properties                                                              *)
(***************************************************************************)

\* Types.
TypeOK ==
  /\ env \in Environments
  /\ process \in {"starting", "running", "exited", "died", "fatal", "panic"}
  /\ stop \in BOOLEAN
  /\ agent \in {"loop", "status", "between", "metrics", "returned"}
  /\ server \in [Servers -> {"starting", "made", "serving", "closed", "off"}]
  /\ provisioner \in {"dialling", "connected", "returned"}
  /\ loops \subseteq {"send", "translate"}
  /\ batches \in 0..MaxBatches
  /\ secret \in {"none", "waiting", "sent"}
  /\ scraping \in BOOLEAN
  /\ gone \in BOOLEAN

\* A sidecar that has an Amesh source, was not asked for a secret and has not
\* been stopped never panics: only Run's return closes the channel that the
\* goroutines of translate send on, and only stop makes it return.
PanicsExplained ==
  process = "panic" => ~env.amesh \/ secret = "sent" \/ stop

\* The process ends with a fatal error only for a port it cannot use, for a
\* client of the status server that went away, or, when it has been stopped,
\* because one of the servers was shut down: that is fatal each time.
FatalsExplained ==
  process = "fatal" =>
    \/ \E s \in Servers : env[s] \in {"malformed", "taken"}
    \/ gone
    \/ stop /\ \E s \in Servers : server[s] = "closed"

\* As long as it has not been stopped, a process that runs stores events,
\* however often connections are lost.
StoresUntilStopped == Running /\ ~stop => agent = "loop" /\ provisioner # "returned"

\* Once stopped, Agent.Run returns or the process ends, although Shutdown may
\* wait for a request for a secret that nobody will take any more, or for one for
\* metrics that APISIX does not answer: the fatal error of the server that is
\* shut down is what ends it then.
StopEnds == stop ~> (agent = "returned" \/ ~Running)

=============================================================================
