--------------------------- MODULE XdsConnection ---------------------------
(***************************************************************************)
(* The connection of the xDS provisioner to istiod: the loop of Run, which *)
(* dials, opens the ADS and SDS streams, starts the goroutines of run and  *)
(* waits for a reset, and those goroutines: sendLoop, recvLoop,            *)
(* sdsRecvLoop, translateLoop, firstSend and the timer of the periodic     *)
(* synchronisation.                                                        *)
(*                                                                         *)
(* Only the two receive loops end with their connection.  The others go on *)
(* when the next one is up: a send loop of an old connection keeps taking  *)
(* requests from the one sendCh and sends them to a stream that is gone.   *)
(* After stop every goroutine returns from its next select; what some of   *)
(* them may still send before that is left out.  Requests for secrets, the *)
(* only ones for the SDS stream, are in module Lifecycle.                  *)
(***************************************************************************)
EXTENDS Naturals, FiniteSets

CONSTANTS
  MaxConns,       \* bound on the connections brought up
  MaxMessages,    \* bound on equal requests, and on equal responses, waiting
  SyncInterval,   \* seconds between two periodic requests, 0: never
  Types           \* the resource types in use

ASSUME MaxConnsAssumption == MaxConns \in Nat \ {0}
ASSUME MaxMessagesAssumption == MaxMessages \in Nat \ {0}
ASSUME SyncIntervalAssumption == SyncInterval \in Nat

ASSUME TypesAssumption ==
  {"LDS", "CDS"} \subseteq Types /\ Types \subseteq {"LDS", "CDS", "RDS", "EDS"}

Conns == 1..MaxConns
Kinds == {"ads", "sds"}

VARIABLES
  stop,         \* the stop channel is closed
  phase,        \* where Run is: dial, streams, up or returned
  conn,         \* how often run was called; the last connection is the current
  connected,    \* p.adsConnected and p.sdsConnected
  open,         \* the streams of the current connection that work
  loop,         \* connection -> stream -> its receive loop: off, recv, done, or
                \*   err while it is blocked on resetCh
  firstSend,    \* connection -> the request firstSend is blocked on, or done
  requests,     \* type -> goroutines of sendRds and sendEds
  responses,    \* type -> responses in the hands of goroutines on recvCh
  asked,        \* what istiod was asked for on the current connection
  wanted,       \* what was requested since it is up (history variable)
  lost          \* what was requested and dropped since then (history variable)

runVars  == <<stop, phase, conn>>
linkVars == <<connected, open, loop>>
sendVars == <<firstSend, requests>>
vars == <<runVars, linkVars, sendVars, responses, asked, wanted, lost>>

\* What the translation of a response asks for: the routes its listeners
\* name, if they name any, or the endpoints of its clusters.
FollowUps(t) ==
  CASE t = "LDS" -> {{}, {"RDS"} \cap Types}
    [] t = "CDS" -> {{"EDS"} \cap Types}
    [] t = "EDS" -> {{}, {"EDS"}}
    [] OTHER     -> {{}}

-----------------------------------------------------------------------------
(***************************************************************************)
(* Run.  A failed dial to istiod is retried and changes nothing.           *)
(***************************************************************************)

Dial ==
  /\ phase = "dial"
  /\ phase' = "streams"
  /\ connected' = [connected EXCEPT !["ads"] = TRUE]
  /\ UNCHANGED <<stop, conn, open, loop, sendVars, responses, asked, wanted, lost>>

\* The ADS stream, the connection to the SDS server or the SDS stream fails, the
\* last after p.sdsConnected was set: cancel, sleep, begin again.  No flag is
\* cleared.
Fail ==
  /\ phase = "streams"
  /\ phase' = "dial"
  /\ \E sds \in {connected["sds"], TRUE} : connected' = [connected EXCEPT !["sds"] = sds]
  /\ UNCHANGED <<stop, conn, open, loop, sendVars, responses, asked, wanted, lost>>

\* Mutant: firstSend begins with the clusters.
StartRunClusters ==
  /\ phase = "streams"
  /\ phase' = "up"
  /\ conn' = conn + 1
  /\ connected' = [connected EXCEPT !["sds"] = TRUE]
  /\ open' = Kinds
  /\ loop' = [loop EXCEPT ![conn + 1] = [k \in Kinds |-> "recv"]]
  /\ firstSend' = [firstSend EXCEPT ![conn + 1] = "CDS"]
  /\ asked' = {}
  /\ wanted' = {"LDS", "CDS"}
  /\ lost' = {}
  /\ UNCHANGED <<stop, requests, responses>>

\* Both streams are there, and run starts the goroutines of the connection.
StartRun ==
  /\ phase = "streams"
  /\ phase' = "up"
  /\ conn' = conn + 1
  /\ connected' = [connected EXCEPT !["sds"] = TRUE]
  /\ open' = Kinds
  /\ loop' = [loop EXCEPT ![conn + 1] = [k \in Kinds |-> "recv"]]
  /\ firstSend' = [firstSend EXCEPT ![conn + 1] = "LDS"]
  /\ asked' = {}
  /\ wanted' = {"LDS", "CDS"}
  /\ lost' = {}
  /\ UNCHANGED <<stop, requests, responses>>

\* Run takes an error from resetCh, whichever connection it is of, cleans up
\* the current one, and begins again.
TakeReset(c, k) ==
  /\ phase = "up" /\ conn < MaxConns
  /\ loop[c][k] = "err"
  /\ phase' = "dial"
  /\ loop' = [loop EXCEPT ![c][k] = "done"]
  /\ connected' = [s \in Kinds |-> FALSE]
  /\ open' = {}
  /\ UNCHANGED <<stop, conn, sendVars, responses, asked, wanted, lost>>

\* Mutant: stop is heeded only while istiod is connected.
ReturnIfConnected ==
  /\ phase = "up" /\ stop /\ connected["ads"]
  /\ phase' = "returned"
  /\ open' = {}
  /\ UNCHANGED <<stop, conn, connected, loop, sendVars, responses, asked, wanted,
                 lost>>

\* Run sees stop, which it looks at only here, and cleans up.
ReturnOnStop ==
  /\ phase = "up" /\ stop
  /\ phase' = "returned"
  /\ open' = {}
  /\ UNCHANGED <<stop, conn, connected, loop, sendVars, responses, asked, wanted,
                 lost>>

Stop ==
  /\ ~stop
  /\ stop' = TRUE
  /\ UNCHANGED <<phase, conn, linkVars, sendVars, responses, asked, wanted, lost>>

-----------------------------------------------------------------------------
(***************************************************************************)
(* The receive loops                                                       *)
(***************************************************************************)

\* The stream of a connection that was cleaned up does not work any more.
Works(c, k) == c = conn /\ k \in open

\* A stream breaks, or istiod closes it.
Break(k) ==
  /\ phase = "up" /\ k \in open
  /\ open' = open \ {k}
  /\ UNCHANGED <<runVars, connected, loop, sendVars, responses, asked, wanted, lost>>

\* Mutant: an error of a cancelled stream is not reported.
RecvErrorOfCurrent(c, k) ==
  /\ loop[c][k] = "recv" /\ ~Works(c, k)
  /\ loop' = [loop EXCEPT ![c][k] = IF stop \/ c < conn THEN "done" ELSE "err"]
  /\ connected' = [connected EXCEPT ![k] = @ /\ (stop \/ c < conn)]
  /\ UNCHANGED <<runVars, open, sendVars, responses, asked, wanted, lost>>

\* Mutant: the status keeps its flag.
RecvErrorSilent(c, k) ==
  /\ loop[c][k] = "recv" /\ ~Works(c, k)
  /\ loop' = [loop EXCEPT ![c][k] = IF stop THEN "done" ELSE "err"]
  /\ UNCHANGED <<runVars, connected, open, sendVars, responses, asked, wanted, lost>>

\* Mutant: an error that is not known is logged, and Recv called again.
RecvErrorUnhandled(c, k) ==
  /\ loop[c][k] = "recv" /\ ~Works(c, k)
  /\ loop' = [loop EXCEPT ![c][k] = IF stop THEN "done" ELSE "recv"]
  /\ connected' = [connected EXCEPT ![k] = @ /\ stop]
  /\ UNCHANGED <<runVars, open, sendVars, responses, asked, wanted, lost>>

\* Recv fails, because the stream is broken or was cancelled by a clean-up:
\* whatever the error, the loop blocks on resetCh with it, unless stopped.
RecvError(c, k) ==
  /\ loop[c][k] = "recv" /\ ~Works(c, k)
  /\ loop' = [loop EXCEPT ![c][k] = IF stop THEN "done" ELSE "err"]
  /\ connected' = [connected EXCEPT ![k] = @ /\ stop]
  /\ UNCHANGED <<runVars, open, sendVars, responses, asked, wanted, lost>>

\* istiod answers or pushes what it was asked for on this connection, and a
\* goroutine for the response blocks on recvCh.  A response whose translation
\* asks for nothing makes no difference here.
Recv(t) ==
  /\ phase = "up" /\ t \in asked /\ FollowUps(t) # {{}}
  /\ "ads" \in open /\ loop[conn]["ads"] = "recv"
  /\ responses[t] < MaxMessages
  /\ responses' = [responses EXCEPT ![t] = @ + 1]
  /\ UNCHANGED <<runVars, linkVars, sendVars, asked, wanted, lost>>

-----------------------------------------------------------------------------
(***************************************************************************)
(* Requests                                                                *)
(***************************************************************************)

\* Mutant: the response is taken, and taken again.
TranslateAgain(t, more) ==
  /\ \A u \in more : requests[u] < MaxMessages
  /\ responses' = [responses EXCEPT ![t] = @ - 1]
  /\ requests' = [u \in Types |-> IF u \in more THEN requests[u] + 1 ELSE requests[u]]
  /\ wanted' = wanted \cup more
  /\ UNCHANGED <<runVars, linkVars, firstSend, asked, lost>>

\* A translateLoop, of this connection or another, takes a response and has it
\* translated.  The reply it then sends (nonce, version, error) goes the way of
\* every request; nothing depends on whether it arrives.
Translate(t, more) ==
  /\ responses[t] > 0
  /\ \A u \in more : requests[u] < MaxMessages
  /\ responses' = [responses EXCEPT ![t] = @ - 1]
  /\ requests' = [u \in Types |-> IF u \in more THEN requests[u] + 1 ELSE requests[u]]
  /\ wanted' = wanted \cup more
  /\ UNCHANGED <<runVars, linkVars, firstSend, asked, lost>>

\* The send loop of connection c has taken a request of type t, and a goroutine
\* sends it, at once here: sends in another order are requests taken in another
\* order.  An error is logged, and the request is gone.
SendOn(c, t) ==
  IF Works(c, "ads")
  THEN asked' = asked \cup {t} /\ UNCHANGED lost
  ELSE lost' = lost \cup {t} /\ UNCHANGED asked

\* The goroutines blocked on sendCh: firstSend, a timer, which is back on its
\* channel whenever it fires, and the ones that ask for routes and endpoints.
Offer(t) ==
  \/ \E d \in Conns :
       /\ firstSend[d] = t
       /\ firstSend' = [firstSend EXCEPT ![d] = IF t = "LDS" THEN "CDS" ELSE "done"]
       /\ UNCHANGED requests
  \/ /\ SyncInterval > 0 /\ t = "CDS"
     /\ UNCHANGED <<firstSend, requests>>
  \/ /\ requests[t] > 0
     /\ requests' = [requests EXCEPT ![t] = @ - 1]
     /\ UNCHANGED firstSend

\* sendLoop of any connection so far takes a request.
Send(c, t) ==
  /\ loop[c]["ads"] # "off"
  /\ Offer(t)
  /\ SendOn(c, t)
  /\ UNCHANGED <<runVars, linkVars, responses, wanted>>

-----------------------------------------------------------------------------

Init ==
  /\ stop = FALSE
  /\ phase = "dial"
  /\ conn = 0
  /\ connected = [k \in Kinds |-> FALSE]
  /\ open = {}
  /\ loop = [c \in Conns |-> [k \in Kinds |-> "off"]]
  /\ firstSend = [c \in Conns |-> "done"]
  /\ requests = [t \in Types |-> 0]
  /\ responses = [t \in Types |-> 0]
  /\ asked = {}
  /\ wanted = {}
  /\ lost = {}

Run ==
  \/ Dial \/ Fail \/ StartRun \/ ReturnOnStop
  \/ \E c \in Conns, k \in Kinds : TakeReset(c, k)

Goroutines ==
  \/ \E t \in Types : Recv(t)
  \/ \E t \in Types : \E more \in FollowUps(t) : Translate(t, more)
  \/ \E c \in Conns, t \in Types : Send(c, t)

Next ==
  \/ Run
  \/ Stop
  \/ \E k \in Kinds : Break(k)
  \/ \E c \in Conns, k \in Kinds : RecvError(c, k)
  \/ ~stop /\ Goroutines

Spec == Init /\ [][Next]_vars

\* istiod and the SDS server can be reached again and again, a failing Recv
\* returns, and the select of Run is fair to its two cases.
Fairness ==
  /\ WF_vars(Dial)
  /\ SF_vars(StartRun)
  /\ SF_vars(ReturnOnStop)
  /\ WF_vars(\E c \in Conns, k \in Kinds : TakeReset(c, k))
  /\ WF_vars(\E c \in Conns, k \in Kinds : RecvError(c, k))

FairSpec == Spec /\ Fairness

-----------------------------------------------------------------------------
(***************************************************************************)
(* Properties                                                              *)
(***************************************************************************)

\* Types of the connection's state.
TypeOK ==
  /\ stop \in BOOLEAN
  /\ phase \in {"dial", "streams", "up", "returned"}
  /\ conn \in 0..MaxConns
  /\ connected \in [Kinds -> BOOLEAN]
  /\ open \subseteq Kinds
  /\ loop \in [Conns -> [Kinds -> {"off", "recv", "err", "done"}]]
  /\ firstSend \in [Conns -> {"LDS", "CDS", "done"}]
  /\ requests \in [Types -> 0..MaxMessages]
  /\ responses \in [Types -> 0..MaxMessages]
  /\ asked \subseteq Types
  /\ wanted \subseteq Types
  /\ lost \subseteq Types

OnItsWay(t) ==
  \/ \E c \in Conns : firstSend[c] = t \/ (firstSend[c] = "LDS" /\ t = "CDS")
  \/ requests[t] > 0

\* What is wanted since the connection is up, listeners and clusters first,
\* then the routes and endpoints they name, has been asked for on this very
\* connection or is about to be: the only way to miss it is a failed Send, by
\* the send loop of a broken connection or of one that was replaced.  The
\* comment of sendLoop promises retries; a lost request is never repeated,
\* except the periodic one for the clusters.
WantedIsAsked ==
  phase = "up" => \A t \in wanted : t \in asked \/ OnItsWay(t) \/ t \in lost

\* The receive loops of old connections that have an error for Run, or will.
StaleLoops ==
  {x \in Conns \X Kinds : x[1] < conn /\ loop[x[1]][x[2]] \in {"recv", "err"}}

\* A reset uses up one error and, by cancelling the connection, causes up to
\* two: from the first reset on there is always an error of an old connection
\* for the new one to be reset by, one more for each.  So no connection after
\* the first one lasts.
ResetsLeaveErrors ==
  phase = "up" /\ ~stop => Cardinality(StaleLoops) >= conn - 1

\* The status never says connected when the receive loop of the connection has
\* given up, although Run, both loops and the loops of older connections write
\* the flags without a lock.
StatusFollowsFailure ==
  phase = "up" => \A k \in Kinds : loop[conn][k] = "err" => ~connected[k]

\* A connection with a broken stream is replaced by another, whatever the
\* error: Run never waits for ever.
BrokenIsReplaced ==
  \A c \in 1..(MaxConns - 1), k \in Kinds :
    (phase = "up" /\ conn = c /\ k \notin open) ~> (conn > c \/ stop)

\* Run returns after stop, in the middle of resets and failed dials, provided
\* that the servers can be reached: it does not look at stop before it is up.
StopReturns == stop ~> phase = "returned"

=============================================================================
