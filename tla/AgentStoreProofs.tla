-------------------------- MODULE AgentStoreProofs --------------------------
(***************************************************************************)
(* Proofs about AgentStore, for every set of keys, values and batches and  *)
(* every bound.                                                            *)
(***************************************************************************)
EXTENDS AgentStore, TLAPS

\* The types hold before the first batch.
LEMMA TypeOKInit == Init => TypeOK
BY BoundsAssumption DEF Init, TypeOK

\* Every step of the clock, the agent and the reader keeps the types.
LEMMA TypeOKNext == TypeOK /\ [Next]_vars => TypeOK'
<1> SUFFICES ASSUME TypeOK, [Next]_vars PROVE TypeOK'
  OBVIOUS
<1> USE DEF TypeOK
<1>1. CASE Tick
  BY <1>1 DEF Tick, agentVars, readerVars
<1>2. ASSUME NEW b \in Batches, TakeBatch(b) PROVE TypeOK'
  <2>1. b \in Seq(Event)
    BY BatchesAssumption
  <2>2. events' \in Seq(Event)
    BY <1>2, <2>1 DEF TakeBatch
  <2>4. /\ timestamp' \in {0} \cup used'
        /\ shared' \subseteq used' /\ used \subseteq used' /\ used' \subseteq 1..MaxTime
    <3>1. CASE b = << >>
      BY <1>2, <3>1 DEF TakeBatch
    <3>2. CASE b # << >>
      BY <1>2, <3>2 DEF TakeBatch, Timestamp
    <3> QED
      BY <3>1, <3>2
  <2>3. stored' \in 0..MaxBatches
    BY <1>2, BoundsAssumption DEF TakeBatch
  <2> QED
    BY <1>2, <2>2, <2>3, <2>4 DEF TakeBatch, readerVars
<1>3. CASE StoreEvent
  <2>1. Head(events) \in Event /\ Tail(events) \in Seq(Event)
    BY <1>3 DEF StoreEvent
  <2>2. Head(events).object \in Values \cup {Missing}
    BY <2>1 DEF Event
  <2>3. DataStorage' \in [Keys -> Values \cup {Missing}]
    BY <1>3, <2>2 DEF StoreEvent, Store
  <2> QED
    BY <1>3, <2>1, <2>3 DEF StoreEvent, Store, readerVars
<1>4. CASE MarkVersion
  BY <1>4 DEF MarkVersion, readerVars
<1>5. CASE Poll
  BY <1>5 DEF Poll, agentVars
<1>6. ASSUME NEW k \in Keys, ReadKey(k) PROVE TypeOK'
  BY <1>6 DEF ReadKey, agentVars
<1>7. CASE UNCHANGED vars
  BY <1>7 DEF vars, agentVars, readerVars
<1> QED
  BY <1>1, <1>2, <1>3, <1>4, <1>5, <1>6, <1>7 DEF Next, Agent, Apisix

-----------------------------------------------------------------------------

\* The timestamp of the batch being stored, if no other batch has it, is neither
\* the marked version nor the one that the reader knows.
VersionsInv ==
  Storing /\ timestamp \notin shared => timestamp # seen /\ timestamp # VersionStorage

\* Between batches, the keys read for the marked version are up to date, if only
\* one batch was given that version.
ReadKeysInv ==
  ~Storing /\ seen = VersionStorage /\ VersionStorage \notin shared =>
    \A k \in Keys \ unread : applied[k] = DataStorage[k]

\* Nothing is stored and nothing is read at the start.
LEMMA InvInit == Init => VersionsInv /\ ReadKeysInv
BY DEF Init, VersionsInv, ReadKeysInv, Storing

\* A timestamp that is new to the agent is new to the reader, who knows only
\* versions that were marked.
LEMMA VersionsInvNext ==
  ASSUME TypeOK, VersionsInv, [Next]_vars
  PROVE  VersionsInv'
<1> USE DEF VersionsInv, Storing, TypeOK
<1>1. CASE Tick
  BY <1>1 DEF Tick, agentVars, readerVars
<1>2. ASSUME NEW b \in Batches, TakeBatch(b) PROVE VersionsInv'
  <2>1. CASE b = << >>
    BY <1>2, <2>1 DEF TakeBatch, readerVars
  <2>2. CASE b # << >>
    <3>1. /\ timestamp' = now /\ used' = used \cup {now}
          /\ shared' = shared \cup ({now} \cap used)
          /\ seen' = seen /\ VersionStorage' = VersionStorage
      BY <1>2, <2>2 DEF TakeBatch, Timestamp, readerVars
    <3>2. now \notin used => now # seen /\ now # VersionStorage
      BY BoundsAssumption
    <3> QED
      BY <3>1, <3>2
  <2> QED
    BY <2>1, <2>2
<1>3. CASE StoreEvent
  BY <1>3 DEF StoreEvent, Store, readerVars
<1>4. CASE MarkVersion
  BY <1>4 DEF MarkVersion, readerVars
<1>5. CASE Poll
  BY <1>5 DEF Poll, agentVars
<1>6. ASSUME NEW k \in Keys, ReadKey(k) PROVE VersionsInv'
  BY <1>6 DEF ReadKey, agentVars
<1>7. CASE UNCHANGED vars
  BY <1>7 DEF vars, agentVars, readerVars
<1> QED
  BY <1>1, <1>2, <1>3, <1>4, <1>5, <1>6, <1>7 DEF Next, Agent, Apisix

\* A step of the agent inside a batch says nothing about the keys read, and the
\* version it marks at the end is one the reader has not seen.
LEMMA ReadKeysInvNext ==
  ASSUME TypeOK, VersionsInv, ReadKeysInv, [Next]_vars
  PROVE  ReadKeysInv'
<1> USE DEF ReadKeysInv, Storing
<1>1. CASE Tick
  BY <1>1 DEF Tick, agentVars, readerVars
<1>2. ASSUME NEW b \in Batches, TakeBatch(b) PROVE ReadKeysInv'
  <2>1. CASE b = << >>
    BY <1>2, <2>1 DEF TakeBatch, readerVars
  <2>2. CASE b # << >>
    <3>1. timestamp' = now /\ now # 0
      BY <1>2, <2>2, BoundsAssumption DEF TakeBatch, Timestamp, TypeOK
    <3> QED
      BY <3>1
  <2> QED
    BY <2>1, <2>2
<1>3. CASE StoreEvent
  BY <1>3 DEF StoreEvent, readerVars
<1>4. CASE MarkVersion
  BY <1>4 DEF MarkVersion, readerVars, VersionsInv
<1>5. CASE Poll
  BY <1>5 DEF Poll, agentVars
<1>6. ASSUME NEW k \in Keys, ReadKey(k) PROVE ReadKeysInv'
  BY <1>6 DEF ReadKey, agentVars, TypeOK
<1>7. CASE UNCHANGED vars
  BY <1>7 DEF vars, agentVars, readerVars
<1> QED
  BY <1>1, <1>2, <1>3, <1>4, <1>5, <1>6, <1>7 DEF Next, Agent, Apisix

\* Types of the dictionaries, of the agent's position in a batch and of the
\* reader's in the keys, for any batches: every event stored is one of a batch,
\* and what APISIX reads is a value or no value.
THEOREM TypeCorrect == Spec => []TypeOK
BY TypeOKInit, TypeOKNext, PTL DEF Spec

\* An APISIX that has acted on the marked version runs with the stored
\* configuration, for any batches, any interleaving of writes and reads and
\* whatever the clock does, unless that very version was given to two batches.
THEOREM ReaderUpToDate == Spec => []UpToDate
<1>1. TypeOK /\ VersionsInv /\ ReadKeysInv /\ [Next]_vars
        => (TypeOK /\ VersionsInv /\ ReadKeysInv)'
  BY TypeOKNext, VersionsInvNext, ReadKeysInvNext
<1>2. TypeOK /\ ReadKeysInv => UpToDate
  <2> SUFFICES ASSUME TypeOK, ReadKeysInv, ~Storing, seen = VersionStorage, unread = {},
                      VersionStorage \notin shared
               PROVE  applied = DataStorage
    BY DEF UpToDate
  <2>1. \A k \in Keys : applied[k] = DataStorage[k]
    BY DEF ReadKeysInv
  <2> QED
    BY <2>1 DEF TypeOK
<1> QED
  BY <1>1, <1>2, TypeOKInit, InvInit, PTL DEF Spec

=============================================================================
