------------------------ MODULE XdsConnectionProofs ------------------------
(***************************************************************************)
(* Proofs about XdsConnection, for any number of connections and messages  *)
(* and any interval of the periodic requests.                              *)
(***************************************************************************)
EXTENDS XdsConnection, FiniteSetTheorems, TLAPS

\* A translation asks for types in use only.
LEMMA FollowUpsType ==
  ASSUME NEW t \in Types, NEW more \in FollowUps(t)
  PROVE  more \in SUBSET Types
BY DEF FollowUps

-----------------------------------------------------------------------------
(***************************************************************************)
(* Type correctness                                                        *)
(***************************************************************************)

\* There is room for another connection whenever Run is about to bring one up,
\* and loops of connections that were never up are off.
ConnInv ==
  /\ phase \in {"dial", "streams"} => conn < MaxConns
  /\ phase \in {"up", "returned"} => conn \in Conns
  /\ \A c \in Conns, k \in Kinds : c > conn => loop[c][k] = "off"

TypeInv == TypeOK /\ ConnInv

\* Before the first dial.
LEMMA TypeInvInit == Init => TypeInv
<1> SUFFICES ASSUME Init PROVE TypeInv
  OBVIOUS
<1> USE DEF Init
<1>1. stop \in BOOLEAN /\ connected \in [Kinds -> BOOLEAN]
  OBVIOUS
<1>2. conn \in 0..MaxConns /\ conn < MaxConns
  BY MaxConnsAssumption
<1>3. requests \in [Types -> 0..MaxMessages] /\ responses \in [Types -> 0..MaxMessages]
  BY MaxMessagesAssumption
<1>4. ConnInv
  BY <1>2 DEF ConnInv
<1> QED
  BY <1>1, <1>2, <1>3, <1>4 DEF TypeInv, TypeOK

\* The steps of Run.
LEMMA TypeInvRun == ASSUME TypeInv, Run PROVE TypeInv'
<1> USE MaxConnsAssumption DEF TypeInv, TypeOK, ConnInv, sendVars, linkVars, Conns
<1>1. CASE Dial
  BY <1>1 DEF Dial
<1>2. CASE Fail
  <2>1. PICK sds \in {connected["sds"], TRUE} : connected' = [connected EXCEPT !["sds"] = sds]
    BY <1>2 DEF Fail
  <2>2. connected["sds"] \in BOOLEAN
    BY DEF Kinds
  <2>3. connected' \in [Kinds -> BOOLEAN]
    BY <2>1, <2>2
  <2> QED
    BY <1>2, <2>3 DEF Fail
<1>3. CASE StartRun
  <2>1. conn + 1 \in Conns /\ conn' \in 0..MaxConns
    BY <1>3 DEF StartRun
  <2>2. loop' \in [Conns -> [Kinds -> {"off", "recv", "err", "done"}]]
    BY <1>3, <2>1 DEF StartRun
  <2>3. \A c \in Conns, k \in Kinds : c > conn' => loop'[c][k] = "off"
    BY <1>3, <2>1 DEF StartRun
  <2>4. /\ connected' \in [Kinds -> BOOLEAN]
        /\ firstSend' \in [Conns -> {"LDS", "CDS", "done"}]
        /\ wanted' \subseteq Types
    BY <1>3, TypesAssumption DEF StartRun
  <2> QED
    BY <1>3, <2>1, <2>2, <2>3, <2>4 DEF StartRun
<1>4. CASE ReturnOnStop
  BY <1>4 DEF ReturnOnStop
<1>5. ASSUME NEW c \in Conns, NEW k \in Kinds, TakeReset(c, k) PROVE TypeInv'
  BY <1>5 DEF TakeReset
<1> QED
  BY <1>1, <1>2, <1>3, <1>4, <1>5 DEF Run

\* The steps of the goroutines.
LEMMA TypeInvGoroutines == ASSUME TypeInv, Goroutines PROVE TypeInv'
<1> USE MaxMessagesAssumption DEF TypeInv, TypeOK, ConnInv, runVars, linkVars, sendVars
<1>1. ASSUME NEW t \in Types, Recv(t) PROVE TypeInv'
  <2>1. responses' \in [Types -> 0..MaxMessages]
    BY <1>1 DEF Recv
  <2> QED
    BY <1>1, <2>1 DEF Recv
<1>2. ASSUME NEW t \in Types, NEW more \in FollowUps(t), Translate(t, more) PROVE TypeInv'
  <2>1. more \in SUBSET Types
    BY FollowUpsType
  <2>2. responses' \in [Types -> 0..MaxMessages] /\ requests' \in [Types -> 0..MaxMessages]
    BY <1>2, <2>1 DEF Translate
  <2> QED
    BY <1>2, <2>1, <2>2 DEF Translate
<1>3. ASSUME NEW c \in Conns, NEW t \in Types, Send(c, t) PROVE TypeInv'
  <2>1. /\ firstSend' \in [Conns -> {"LDS", "CDS", "done"}]
        /\ requests' \in [Types -> 0..MaxMessages]
    <3>1. Offer(t)
      BY <1>3 DEF Send
    <3>2. ASSUME NEW d \in Conns,
                 firstSend' = [firstSend EXCEPT ![d] = IF t = "LDS" THEN "CDS" ELSE "done"]
          PROVE  firstSend' \in [Conns -> {"LDS", "CDS", "done"}]
      BY <3>2
    <3>3. CASE requests[t] > 0 /\ requests' = [requests EXCEPT ![t] = @ - 1]
      BY <3>1, <3>2, <3>3 DEF Offer
    <3> QED
      BY <3>1, <3>2, <3>3 DEF Offer
  <2>2. asked' \subseteq Types /\ lost' \subseteq Types
    BY <1>3 DEF Send, SendOn
  <2> QED
    BY <1>3, <2>1, <2>2 DEF Send
<1> QED
  BY <1>1, <1>2, <1>3 DEF Goroutines

\* Every step keeps the types.
LEMMA TypeInvNext == TypeInv /\ [Next]_vars => TypeInv'
<1> SUFFICES ASSUME TypeInv, [Next]_vars PROVE TypeInv'
  OBVIOUS
<1> USE DEF TypeInv, TypeOK, ConnInv, runVars, linkVars, sendVars
<1>1. CASE Stop
  BY <1>1 DEF Stop
<1>2. ASSUME NEW k \in Kinds, Break(k) PROVE TypeInv'
  BY <1>2 DEF Break
<1>3. ASSUME NEW c \in Conns, NEW k \in Kinds, RecvError(c, k) PROVE TypeInv'
  BY <1>3 DEF RecvError
<1>4. CASE UNCHANGED vars
  BY <1>4 DEF vars
<1> QED
  BY <1>1, <1>2, <1>3, <1>4, TypeInvRun, TypeInvGoroutines DEF Next

\* Types and the order of connections hold throughout.
LEMMA TypeInvHolds == Spec => []TypeInv
BY TypeInvInit, TypeInvNext, PTL DEF Spec

\* The state of the connection is well typed, for every number of connections,
\* messages and types: Run never brings up more than it has room for.
THEOREM TypeCorrect == Spec => []TypeOK
<1>1. TypeInv => TypeOK
  BY DEF TypeInv
<1> QED
  BY <1>1, TypeInvHolds, PTL

-----------------------------------------------------------------------------
(***************************************************************************)
(* Requests                                                                *)
(***************************************************************************)

\* Nothing is wanted before the first connection.
LEMMA WantedInit == Init => WantedIsAsked
BY DEF Init, WantedIsAsked

\* A request that the send loop takes is asked for or lost; the other ones stay
\* where they are, and firstSend has the clusters before it when it gives up the
\* listeners.
LEMMA WantedSend ==
  ASSUME TypeInv, WantedIsAsked, NEW c \in Conns, NEW t \in Types, Send(c, t)
  PROVE  WantedIsAsked'
<1> SUFFICES ASSUME phase = "up", NEW u \in wanted
             PROVE  u \in asked' \/ OnItsWay(u)' \/ u \in lost'
  BY DEF WantedIsAsked, Send, runVars
<1>1. t \in asked' \/ t \in lost'
  BY DEF Send, SendOn
<1>2. asked \subseteq asked' /\ lost \subseteq lost'
  BY DEF Send, SendOn
<1>3. CASE u = t
  BY <1>1, <1>3
<1>4. CASE u # t /\ OnItsWay(u)
  <2>1. u \in Types /\ u # "done"
    BY TypesAssumption DEF TypeInv, TypeOK
  <2>2. Offer(t)
    BY DEF Send
  <2>3. CASE \E d \in Conns :
               /\ firstSend[d] = t
               /\ firstSend' = [firstSend EXCEPT ![d] = IF t = "LDS" THEN "CDS" ELSE "done"]
               /\ UNCHANGED requests
    <3>1. PICK d \in Conns :
               /\ firstSend[d] = t
               /\ firstSend' = [firstSend EXCEPT ![d] = IF t = "LDS" THEN "CDS" ELSE "done"]
               /\ UNCHANGED requests
      BY <2>3
    <3>2. CASE requests[u] > 0
      BY <3>1, <3>2 DEF OnItsWay
    <3>3. ASSUME NEW e \in Conns, firstSend[e] = u \/ (firstSend[e] = "LDS" /\ u = "CDS")
          PROVE  OnItsWay(u)'
      <4>1. CASE e = d
        <5>1. firstSend'[d] = "CDS" /\ u = "CDS"
          BY <1>4, <3>1, <3>3, <4>1 DEF TypeInv, TypeOK
        <5> QED
          BY <5>1 DEF OnItsWay
      <4>2. CASE e # d
        <5>1. firstSend'[e] = firstSend[e]
          BY <3>1, <4>2 DEF TypeInv, TypeOK
        <5> QED
          BY <3>3, <5>1 DEF OnItsWay
      <4> QED
        BY <4>1, <4>2
    <3> QED
      BY <1>4, <3>2, <3>3 DEF OnItsWay
  <2>4. CASE UNCHANGED <<firstSend, requests>>
    BY <1>4, <2>4 DEF OnItsWay
  <2>5. CASE requests' = [requests EXCEPT ![t] = @ - 1] /\ UNCHANGED firstSend
    <3>1. requests'[u] = requests[u]
      BY <1>4, <2>1, <2>5 DEF TypeInv, TypeOK
    <3> QED
      BY <1>4, <2>5, <3>1 DEF OnItsWay
  <2> QED
    BY <2>2, <2>3, <2>4, <2>5 DEF Offer
<1> QED
  BY <1>2, <1>3, <1>4 DEF WantedIsAsked

\* Only a new connection and a translation add to what is wanted, and both put
\* it on its way.
LEMMA WantedNext == TypeInv /\ WantedIsAsked /\ [Next]_vars => WantedIsAsked'
<1> SUFFICES ASSUME TypeInv, WantedIsAsked, [Next]_vars PROVE WantedIsAsked'
  OBVIOUS
<1> USE DEF WantedIsAsked, OnItsWay, runVars, linkVars, sendVars
<1>1. CASE Dial \/ Fail \/ ReturnOnStop
  BY <1>1 DEF Dial, Fail, ReturnOnStop
<1>2. CASE StartRun
  <2>1. conn + 1 \in Conns /\ firstSend'[conn + 1] = "LDS"
    BY <1>2, MaxConnsAssumption DEF StartRun, TypeInv, TypeOK, ConnInv, Conns
  <2> QED
    BY <1>2, <2>1 DEF StartRun
<1>3. ASSUME NEW c \in Conns, NEW k \in Kinds, TakeReset(c, k) PROVE WantedIsAsked'
  BY <1>3 DEF TakeReset
<1>4. CASE Stop
  BY <1>4 DEF Stop
<1>5. ASSUME NEW k \in Kinds, Break(k) PROVE WantedIsAsked'
  BY <1>5 DEF Break
<1>6. ASSUME NEW c \in Conns, NEW k \in Kinds, RecvError(c, k) PROVE WantedIsAsked'
  BY <1>6 DEF RecvError
<1>7. ASSUME NEW t \in Types, Recv(t) PROVE WantedIsAsked'
  BY <1>7 DEF Recv
<1>8. ASSUME NEW t \in Types, NEW more \in FollowUps(t), Translate(t, more)
      PROVE  WantedIsAsked'
  <2>1. more \in SUBSET Types
    BY FollowUpsType
  <2>2. \A u \in Types : requests'[u] >= requests[u] /\ (u \in more => requests'[u] > 0)
    BY <1>8 DEF Translate, TypeInv, TypeOK
  <2>3. wanted' \subseteq Types
    BY <1>8, <2>1 DEF Translate, TypeInv, TypeOK
  <2>4. \A u \in Types : requests[u] > 0 => requests'[u] > 0
    BY <1>8, <2>1 DEF Translate, TypeInv, TypeOK
  <2> QED
    BY <1>8, <2>2, <2>3, <2>4 DEF Translate
<1>9. ASSUME NEW c \in Conns, NEW t \in Types, Send(c, t) PROVE WantedIsAsked'
  BY <1>9, WantedSend
<1>10. CASE UNCHANGED vars
  BY <1>10 DEF vars
<1> QED
  BY <1>1, <1>2, <1>3, <1>4, <1>5, <1>6, <1>7, <1>8, <1>9, <1>10
     DEF Next, Run, Goroutines

\* What is wanted since the connection is up was asked for on it, is on its way
\* or was lost by a failed Send: nothing else loses a request, with any number of
\* old send loops taking requests from the channel.
THEOREM RequestsArrive == Spec => []WantedIsAsked
BY TypeInvHolds, WantedInit, WantedNext, PTL DEF Spec

-----------------------------------------------------------------------------
(***************************************************************************)
(* The status                                                              *)
(***************************************************************************)

\* A flag is set only while Run brings a connection up, whose loops have not
\* failed yet.
LEMMA StatusNext ==
  TypeInv /\ StatusFollowsFailure /\ [Next]_vars => StatusFollowsFailure'
<1> SUFFICES ASSUME TypeInv, StatusFollowsFailure, [Next]_vars
             PROVE  StatusFollowsFailure'
  OBVIOUS
<1> USE DEF StatusFollowsFailure, runVars, linkVars, sendVars
<1>1. CASE Dial \/ Fail \/ ReturnOnStop
  BY <1>1 DEF Dial, Fail, ReturnOnStop
<1>2. CASE StartRun
  <2>1. conn + 1 \in Conns
    BY <1>2, MaxConnsAssumption DEF StartRun, TypeInv, TypeOK, ConnInv, Conns
  <2>2. \A k \in Kinds : loop'[conn'][k] = "recv"
    BY <1>2, <2>1 DEF StartRun, TypeInv, TypeOK
  <2> QED
    BY <2>2
<1>3. ASSUME NEW c \in Conns, NEW k \in Kinds, TakeReset(c, k) PROVE StatusFollowsFailure'
  BY <1>3 DEF TakeReset
<1>4. CASE Stop
  BY <1>4 DEF Stop
<1>5. ASSUME NEW k \in Kinds, Break(k) PROVE StatusFollowsFailure'
  BY <1>5 DEF Break
<1>6. ASSUME NEW c \in Conns, NEW k \in Kinds, RecvError(c, k) PROVE StatusFollowsFailure'
  <2> SUFFICES ASSUME phase = "up", NEW j \in Kinds, loop'[conn][j] = "err"
               PROVE  ~connected'[j]
    BY <1>6 DEF RecvError
  <2>1. connected'[j] => connected[j]
    BY <1>6 DEF RecvError, TypeInv, TypeOK
  <2>2. CASE c = conn /\ k = j
    <3>1. ~stop
      BY <1>6, <2>2 DEF RecvError, TypeInv, TypeOK
    <3> QED
      BY <1>6, <2>2, <3>1 DEF RecvError, TypeInv, TypeOK
  <2>3. CASE c # conn \/ k # j
    <3>1. loop'[conn][j] = loop[conn][j]
      BY <1>6, <2>3 DEF RecvError, TypeInv, TypeOK, ConnInv
    <3> QED
      BY <2>1, <3>1
  <2> QED
    BY <2>2, <2>3
<1>7. CASE Goroutines
  BY <1>7 DEF Goroutines, Recv, Translate, Send
<1>8. CASE UNCHANGED vars
  BY <1>8 DEF vars
<1> QED
  BY <1>1, <1>2, <1>3, <1>4, <1>5, <1>6, <1>7, <1>8 DEF Next, Run

\* The status never says connected once the receive loop of the connection has
\* failed, whatever the loops of older connections write.
THEOREM StatusIsHonest == Spec => []StatusFollowsFailure
<1>1. Init => StatusFollowsFailure
  BY DEF Init, StatusFollowsFailure
<1> QED
  BY <1>1, TypeInvHolds, StatusNext, PTL DEF Spec

-----------------------------------------------------------------------------
(***************************************************************************)
(* Resets                                                                  *)
(***************************************************************************)

\* The receive loops that have an error for Run, or will.
Alive == {x \in Conns \X Kinds : loop[x[1]][x[2]] \in {"recv", "err"}}

\* As long as nobody stops it, Run finds both loops of the connection that is up
\* alive, and as many others as there were resets before.
ResetInv ==
  ~stop =>
    /\ phase # "returned"
    /\ phase \in {"dial", "streams"} => Cardinality(Alive) >= conn
    /\ phase = "up" => /\ Cardinality(Alive) >= conn + 1
                       /\ \A k \in Kinds : <<conn, k>> \in Alive

\* There are finitely many loops.
LEMMA AliveFinite == IsFiniteSet(Alive) /\ Cardinality(Alive) \in Nat
<1>1. IsFiniteSet(Conns)
  BY FS_Interval, MaxConnsAssumption DEF Conns
<1>2. IsFiniteSet({"ads"} \cup {"sds"})
  BY FS_Singleton, FS_Union
<1>3. Kinds = {"ads"} \cup {"sds"}
  BY DEF Kinds
<1>4. IsFiniteSet(Conns \X Kinds)
  BY <1>1, <1>2, <1>3, FS_Product
<1>5. IsFiniteSet(Alive)
  BY <1>4, FS_Subset DEF Alive
<1> QED
  BY <1>5, FS_CardinalityType

\* There are no loops at first.
LEMMA ResetInvInit == Init => ResetInv
<1> SUFFICES ASSUME Init PROVE ResetInv
  OBVIOUS
<1>1. Alive = {}
  BY DEF Init, Alive
<1>2. Cardinality(Alive) = 0
  BY <1>1, FS_EmptySet
<1> QED
  BY <1>2 DEF Init, ResetInv

\* run starts two loops, of a connection that had none.
LEMMA ResetInvStartRun == ASSUME TypeInv, ResetInv, StartRun PROVE ResetInv'
<1> SUFFICES ASSUME ~stop PROVE ResetInv'
  BY DEF StartRun, ResetInv
<1> DEFINE a == <<conn + 1, "ads">>
           b == <<conn + 1, "sds">>
<1>1. conn \in Nat /\ conn + 1 \in Conns /\ Cardinality(Alive) >= conn
  BY MaxConnsAssumption DEF StartRun, TypeInv, TypeOK, ConnInv, Conns, ResetInv
<1>2. loop' = [loop EXCEPT ![conn + 1] = [k \in Kinds |-> "recv"]]
  BY DEF StartRun
<1>3. Alive' = (Alive \cup {a}) \cup {b}
  BY <1>1, <1>2 DEF Alive, Kinds, TypeInv, TypeOK
<1>4. a \notin Alive /\ b \notin Alive
  BY <1>1 DEF Alive, Kinds, TypeInv, ConnInv
<1>5. /\ IsFiniteSet(Alive \cup {a})
      /\ Cardinality(Alive \cup {a}) = Cardinality(Alive) + 1
  BY <1>4, AliveFinite, FS_AddElement
<1>6. b \notin Alive \cup {a}
  BY <1>4
<1>7. Cardinality(Alive') = Cardinality(Alive) + 2
  <2>1. Cardinality((Alive \cup {a}) \cup {b}) = Cardinality(Alive \cup {a}) + 1
    BY <1>5, <1>6, FS_AddElement
  <2> QED
    BY <1>3, <1>5, <2>1, AliveFinite
<1>8. Cardinality(Alive') >= conn' + 1
  BY <1>1, <1>7, AliveFinite DEF StartRun
<1>9. \A k \in Kinds : <<conn', k>> \in Alive'
  BY <1>3 DEF Kinds, StartRun
<1> QED
  BY <1>8, <1>9 DEF ResetInv, StartRun

\* A reset uses up one error.
LEMMA ResetInvTakeReset ==
  ASSUME TypeInv, ResetInv, NEW c \in Conns, NEW k \in Kinds, TakeReset(c, k)
  PROVE  ResetInv'
<1> SUFFICES ASSUME ~stop PROVE ResetInv'
  BY DEF TakeReset, ResetInv
<1>1. conn \in Nat /\ Cardinality(Alive) >= conn + 1
  BY DEF TakeReset, TypeInv, TypeOK, ResetInv
<1>2. <<c, k>> \in Alive
  BY DEF TakeReset, Alive
<1>3. Alive' = Alive \ {<<c, k>>}
  BY DEF TakeReset, Alive, TypeInv, TypeOK
<1>4. Cardinality(Alive') = Cardinality(Alive) - 1
  BY <1>2, <1>3, AliveFinite, FS_RemoveElement
<1>5. Cardinality(Alive') >= conn'
  BY <1>1, <1>4, AliveFinite DEF TakeReset
<1> QED
  BY <1>5 DEF ResetInv, TakeReset

\* Every step keeps the count.
LEMMA ResetInvNext == TypeInv /\ ResetInv /\ [Next]_vars => ResetInv'
<1> SUFFICES ASSUME TypeInv, ResetInv, [Next]_vars PROVE ResetInv'
  OBVIOUS
<1>1. CASE UNCHANGED <<loop, conn, stop>> /\ phase' = phase
  BY <1>1 DEF ResetInv, Alive
<1>2. CASE Dial \/ Fail
  BY <1>2 DEF Dial, Fail, ResetInv, Alive
<1>3. CASE ReturnOnStop \/ Stop
  BY <1>3 DEF ReturnOnStop, Stop, ResetInv
<1>4. ASSUME NEW c \in Conns, NEW k \in Kinds, RecvError(c, k) PROVE ResetInv'
  <2> SUFFICES ASSUME ~stop PROVE ResetInv'
    BY <1>4 DEF RecvError, runVars, ResetInv
  <2>1. Alive' = Alive
    BY <1>4 DEF RecvError, Alive, TypeInv, TypeOK
  <2> QED
    BY <1>4, <2>1 DEF RecvError, runVars, ResetInv
<1>5. CASE Goroutines \/ \E k \in Kinds : Break(k)
  BY <1>1, <1>5 DEF Goroutines, Recv, Translate, Send, Break, runVars, linkVars
<1>6. CASE UNCHANGED vars
  BY <1>1, <1>6 DEF vars, runVars, linkVars
<1> QED
  BY <1>2, <1>3, <1>4, <1>5, <1>6, ResetInvStartRun, ResetInvTakeReset DEF Next, Run

\* When connection n is up there are at least n - 1 loops of older ones that have
\* an error for it, or will have: for any number of connections, each reset
\* leaves the cause of the next.
THEOREM ErrorsOutliveResets == Spec => []ResetsLeaveErrors
<1>1. TypeInv /\ ResetInv => ResetsLeaveErrors
  <2> SUFFICES ASSUME TypeInv, ResetInv, phase = "up", ~stop
               PROVE  Cardinality(StaleLoops) >= conn - 1
    BY DEF ResetsLeaveErrors
  <2> DEFINE a == <<conn, "ads">>
             b == <<conn, "sds">>
  <2>1. conn \in Nat /\ Cardinality(Alive) >= conn + 1
    BY DEF ResetInv, TypeInv, TypeOK
  <2>2. a \in Alive /\ b \in Alive \ {a}
    BY DEF ResetInv, Kinds
  <2>3. StaleLoops = (Alive \ {a}) \ {b}
    <3>1. ASSUME NEW x \in StaleLoops PROVE x \in (Alive \ {a}) \ {b}
      BY <2>1 DEF StaleLoops, Alive
    <3>2. ASSUME NEW x \in (Alive \ {a}) \ {b} PROVE x \in StaleLoops
      <4>1. PICK c \in Conns, k \in Kinds : x = <<c, k>> /\ loop[c][k] \in {"recv", "err"}
        BY DEF Alive
      <4>2. c # conn
        BY <4>1 DEF Kinds
      <4>3. ~(c > conn)
        BY <4>1 DEF TypeInv, ConnInv
      <4>4. c < conn
        BY <2>1, <4>2, <4>3 DEF Conns
      <4> QED
        BY <4>1, <4>4 DEF StaleLoops
    <3> QED
      BY <3>1, <3>2
  <2>4. /\ IsFiniteSet(Alive \ {a})
        /\ Cardinality(Alive \ {a}) = Cardinality(Alive) - 1
    BY <2>2, AliveFinite, FS_RemoveElement
  <2>5. Cardinality((Alive \ {a}) \ {b}) = Cardinality(Alive) - 2
    <3>1. Cardinality((Alive \ {a}) \ {b}) = Cardinality(Alive \ {a}) - 1
      BY <2>2, <2>4, FS_RemoveElement
    <3> QED
      BY <2>4, <3>1, AliveFinite
  <2> QED
    BY <2>1, <2>3, <2>5, AliveFinite
<1> QED
  BY <1>1, TypeInvHolds, ResetInvInit, ResetInvNext, PTL DEF Spec

=============================================================================
