-------------------------- MODULE LifecycleProofs --------------------------
(***************************************************************************)
(* Proofs about Lifecycle, for every configuration of the process and any  *)
(* number of waiting batches.                                              *)
(***************************************************************************)
EXTENDS Lifecycle, TLAPS

\* What only a stop can bring about: the loop of the agent ends, Run returns
\* and closes evChan, a server is shut down.
StopInv ==
  /\ agent # "loop" => stop
  /\ provisioner = "returned" => stop
  /\ \A s \in Servers : server[s] = "closed" => stop

IInv == TypeOK /\ StopInv /\ PanicsExplained /\ FatalsExplained

\* All of it holds before the process has read its configuration.
LEMMA IInvInit == Init => IInv
<1> SUFFICES ASSUME Init PROVE IInv
  OBVIOUS
<1>1. TypeOK
  <2>1. /\ env \in Environments
        /\ server \in [Servers -> {"starting", "made", "serving", "closed", "off"}]
    BY DEF Init
  <2>2. batches \in 0..MaxBatches /\ loops \subseteq {"send", "translate"}
    BY MaxBatchesAssumption DEF Init
  <2>3. stop \in BOOLEAN /\ scraping \in BOOLEAN /\ gone \in BOOLEAN
    BY DEF Init
  <2> QED
    BY <2>1, <2>2, <2>3 DEF Init, TypeOK
<1>2. StopInv
  BY DEF Init, StopInv
<1>3. PanicsExplained /\ FatalsExplained
  BY DEF Init, PanicsExplained, FatalsExplained
<1> QED
  BY <1>1, <1>2, <1>3 DEF IInv

\* The main programs: only Start and MainReturns change how the process is.
LEMMA MainSteps ==
  ASSUME IInv, Start \/ Signal \/ MainReturns
  PROVE  IInv'
<1> USE DEF IInv, TypeOK, StopInv, PanicsExplained, FatalsExplained, Running, End
<1>1. CASE Start
  BY <1>1 DEF Start
<1>2. CASE Signal
  BY <1>2 DEF Signal
<1>3. CASE MainReturns
  BY <1>3 DEF MainReturns
<1> QED
  BY <1>1, <1>2, <1>3

\* A server fails for its port, or because it was shut down after a stop.
LEMMA ServerSteps ==
  ASSUME IInv, NEW s \in Servers, StartServer(s) \/ Listen(s) \/ ServeReturns(s)
  PROVE  IInv'
<1> USE DEF IInv, TypeOK, StopInv, PanicsExplained, FatalsExplained, Running, End
<1>1. CASE StartServer(s)
  BY <1>1 DEF StartServer, Servers
<1>2. CASE Listen(s)
  BY <1>2 DEF Listen, Servers
<1>3. CASE ServeReturns(s)
  BY <1>3 DEF ServeReturns, Servers
<1> QED
  BY <1>1, <1>2, <1>3

\* The handlers: only a client that is gone ends the process.
LEMMA HandlerSteps ==
  ASSUME IInv, RequestSecret \/ ClientGone \/ Scrape \/ ScrapeEnds
  PROVE  IInv'
<1> USE DEF IInv, TypeOK, StopInv, PanicsExplained, FatalsExplained, Running, End
<1>1. CASE RequestSecret
  BY <1>1 DEF RequestSecret
<1>2. CASE ClientGone
  BY <1>2 DEF ClientGone
<1>3. CASE Scrape
  BY <1>3 DEF Scrape
<1>4. CASE ScrapeEnds
  BY <1>4 DEF ScrapeEnds
<1> QED
  BY <1>1, <1>2, <1>3, <1>4

\* The provisioner: the channel is closed only after a stop, so that a
\* translation finds it closed only then.
LEMMA ProvisionerSteps ==
  ASSUME IInv,
         \/ Connect \/ WaitForAmesh \/ Reset \/ ProvisionerReturns \/ Translate
         \/ SendSecret \/ TranslateSecret
         \/ \E l \in {"send", "translate"} : LoopStops(l)
  PROVE  IInv'
<1> USE DEF IInv, TypeOK, StopInv, PanicsExplained, FatalsExplained, Running, End
<1>1. CASE Connect
  BY <1>1 DEF Connect
<1>2. CASE WaitForAmesh
  BY <1>2 DEF WaitForAmesh
<1>3. CASE Reset
  BY <1>3 DEF Reset
<1>4. CASE ProvisionerReturns
  BY <1>4 DEF ProvisionerReturns, CloseEvents
<1>5. CASE Translate
  <2>1. batches' \in 0..MaxBatches
    BY <1>5, MaxBatchesAssumption DEF Translate
  <2> QED
    BY <1>5, <2>1 DEF Translate
<1>6. CASE SendSecret
  BY <1>6 DEF SendSecret
<1>7. CASE TranslateSecret
  BY <1>7 DEF TranslateSecret
<1>8. ASSUME NEW l \in {"send", "translate"}, LoopStops(l) PROVE IInv'
  BY <1>8 DEF LoopStops
<1> QED
  BY <1>1, <1>2, <1>3, <1>4, <1>5, <1>6, <1>7, <1>8

\* The agent: it leaves its loop when it is stopped or finds evChan closed.
LEMMA AgentSteps ==
  ASSUME IInv, AgentNext
  PROVE  IInv'
<1> USE DEF IInv, TypeOK, StopInv, PanicsExplained, FatalsExplained, Running, End
<1>1. CASE Take
  <2>1. batches' \in 0..MaxBatches
    BY <1>1, MaxBatchesAssumption DEF Take
  <2> QED
    BY <1>1, <2>1 DEF Take
<1>2. CASE EventsClosed
  BY <1>2 DEF EventsClosed
<1>3. CASE StopSeen
  BY <1>3 DEF StopSeen, ShutDown, Servers
<1>4. CASE StatusDown
  BY <1>4 DEF StatusDown
<1>5. CASE StopMetrics
  BY <1>5 DEF StopMetrics, ShutDown, Servers
<1>6. CASE MetricsDown
  BY <1>6 DEF MetricsDown
<1> QED
  BY <1>1, <1>2, <1>3, <1>4, <1>5, <1>6 DEF AgentNext

\* Every step keeps the invariant.
LEMMA IInvNext == IInv /\ [Next]_vars => IInv'
<1> SUFFICES ASSUME IInv, [Next]_vars PROVE IInv'
  OBVIOUS
<1>1. CASE Next
  BY <1>1, MainSteps, ServerSteps, HandlerSteps, ProvisionerSteps, AgentSteps DEF Next
<1>2. CASE UNCHANGED vars
  BY <1>2 DEF vars, IInv, TypeOK, StopInv, PanicsExplained, FatalsExplained
<1> QED
  BY <1>1, <1>2

-----------------------------------------------------------------------------

\* The invariant holds in every state the process can be in.
LEMMA IInvHolds == Spec => []IInv
BY IInvInit, IInvNext, PTL DEF Spec

\* The state of the process, the agent, the servers and the provisioner is well
\* typed, whatever the configuration and however many batches may wait.
THEOREM TypeCorrect == Spec => []TypeOK
<1>1. IInv => TypeOK
  BY DEF IInv
<1> QED
  BY <1>1, IInvHolds, PTL

\* Nothing but a stop, a secret or a missing Amesh source makes the process
\* panic: translate never meets a closed evChan before Run was stopped.
THEOREM NoOtherPanic == Spec => []PanicsExplained
<1>1. IInv => PanicsExplained
  BY DEF IInv
<1> QED
  BY <1>1, IInvHolds, PTL

\* Nothing but an unusable port, a client that is gone or a server that is shut
\* down after a stop ends the process with a fatal error.
THEOREM NoOtherFatal == Spec => []FatalsExplained
<1>1. IInv => FatalsExplained
  BY DEF IInv
<1> QED
  BY <1>1, IInvHolds, PTL

\* A process that runs and has not been stopped stores events, with any number
\* of lost connections.
THEOREM StoringGoesOn == Spec => []StoresUntilStopped
<1>1. IInv => StoresUntilStopped
  BY DEF IInv, StopInv, StoresUntilStopped
<1> QED
  BY <1>1, IInvHolds, PTL

=============================================================================
