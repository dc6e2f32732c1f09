----------------------------- MODULE AgentStore -----------------------------
(***************************************************************************)
(* How the agent hands configuration to APISIX through two shared          *)
(* dictionaries: storeEvents writes the events of a batch into DataStorage *)
(* one by one and then a millisecond timestamp into VersionStorage; APISIX *)
(* polls the version and reads the data again when it has changed.  The    *)
(* agent and the APISIX worker are different processes and nothing locks   *)
(* the dictionaries across two operations.  The timestamp is that of a     *)
(* wall clock: two batches may be stored in one millisecond, and the clock *)
(* may be set back.                                                        *)
(***************************************************************************)
EXTENDS Naturals, Sequences

CONSTANTS
  Keys, Values,
  Batches,        \* the event lists the provisioner may send
  MaxBatches,     \* bound on the batches stored
  MaxTime,        \* the milliseconds the clock may show
  Missing         \* what a key holds that the dictionary does not have

Event == [key : Keys, object : Values \cup {Missing}]

ASSUME BatchesAssumption == Batches \subseteq Seq(Event)
ASSUME BoundsAssumption == MaxBatches \in Nat /\ MaxTime \in Nat \ {0}
ASSUME MissingAssumption == Missing \notin Values

VARIABLES
  now,             \* the clock the agent reads
  events,          \* the events of the batch that are still to be stored
  timestamp,       \* the timestamp of that batch, 0 between batches
  stored,          \* the number of batches taken so far
  used,            \* the timestamps of the batches so far
  shared,          \* those that more than one batch has
  DataStorage,
  VersionStorage,  \* 0: no version yet
  seen,            \* the version APISIX has last acted on
  unread,          \* the keys it still has to read for that version
  applied          \* the configuration it runs with

agentVars  == <<events, timestamp, stored, used, shared, DataStorage, VersionStorage>>
readerVars == <<seen, unread, applied>>
vars == <<now, agentVars, readerVars>>

Storing == timestamp # 0

-----------------------------------------------------------------------------
(***************************************************************************)
(* The agent                                                               *)
(***************************************************************************)

\* SharedDictStorage: Store puts a value under a key, Delete removes the key.
Store(dict, key, value) == [dict EXCEPT ![key] = value]

\* The system's clock goes on, or is set to another time.
Tick ==
  /\ now' \in 1..MaxTime
  /\ UNCHANGED <<agentVars, readerVars>>

\* The batch is given a timestamp, whether or not another one has it.
Timestamp(t) ==
  /\ timestamp' = t
  /\ used' = used \cup {t}
  /\ shared' = shared \cup ({t} \cap used)

\* Mutant: the version is marked before the data is stored.
TakeBatchMarkFirst(b) ==
  /\ ~Storing
  /\ stored < MaxBatches
  /\ stored' = stored + 1
  /\ IF b = << >> THEN UNCHANGED <<events, timestamp, used, shared, VersionStorage>>
     ELSE events' = b /\ Timestamp(now) /\ VersionStorage' = now
  /\ UNCHANGED <<now, DataStorage, readerVars>>

\* The agent takes a batch from the event channel; storeEvents returns from an
\* empty one and takes the timestamp of any other.
TakeBatch(b) ==
  /\ ~Storing
  /\ stored < MaxBatches
  /\ stored' = stored + 1
  /\ IF b = << >> THEN UNCHANGED <<events, timestamp, used, shared>>
     ELSE events' = b /\ Timestamp(now)
  /\ UNCHANGED <<now, DataStorage, VersionStorage, readerVars>>

\* Mutant: the event is stored instead of its object.
StoreWholeEvent ==
  /\ Storing
  /\ events # << >>
  /\ DataStorage' = [DataStorage EXCEPT ![Head(events).key] = Head(events)]
  /\ events' = Tail(events)
  /\ UNCHANGED <<now, timestamp, stored, used, shared, VersionStorage, readerVars>>

\* One event is stored: Store for add and update, Delete for delete.
StoreEvent ==
  /\ Storing
  /\ events # << >>
  /\ DataStorage' = Store(DataStorage, Head(events).key, Head(events).object)
  /\ events' = Tail(events)
  /\ UNCHANGED <<now, timestamp, stored, used, shared, VersionStorage, readerVars>>

\* Mutant: the version is not marked.
MarkNothing ==
  /\ Storing
  /\ events = << >>
  /\ timestamp' = 0
  /\ UNCHANGED <<now, events, stored, used, shared, DataStorage, VersionStorage, readerVars>>

\* With every event stored, the version is marked.
MarkVersion ==
  /\ Storing
  /\ events = << >>
  /\ VersionStorage' = timestamp
  /\ timestamp' = 0
  /\ UNCHANGED <<now, events, stored, used, shared, DataStorage, readerVars>>

-----------------------------------------------------------------------------
(***************************************************************************)
(* APISIX (external)                                                       *)
(***************************************************************************)

\* A poll of the version starts reading when it is a new one.
Poll ==
  /\ unread = {}
  /\ seen' = VersionStorage
  /\ unread' = IF seen = VersionStorage THEN {} ELSE Keys
  /\ UNCHANGED <<now, agentVars, applied>>

ReadKey(k) ==
  /\ k \in unread
  /\ applied' = [applied EXCEPT ![k] = DataStorage[k]]
  /\ unread' = unread \ {k}
  /\ UNCHANGED <<now, agentVars, seen>>

-----------------------------------------------------------------------------

Init ==
  /\ now = 1
  /\ events = << >>
  /\ timestamp = 0
  /\ stored = 0
  /\ used = {} /\ shared = {}
  /\ DataStorage = [k \in Keys |-> Missing]
  /\ VersionStorage = 0
  /\ seen = 0
  /\ unread = {}
  /\ applied = [k \in Keys |-> Missing]

Agent == (\E b \in Batches : TakeBatch(b)) \/ StoreEvent \/ MarkVersion

Apisix == Poll \/ (\E k \in Keys : ReadKey(k))

Next == Tick \/ Agent \/ Apisix

Spec == Init /\ [][Next]_vars

\* The agent finishes a batch it has taken, and APISIX keeps polling and reads
\* every key it has to.
FairSpec ==
  /\ Spec
  /\ WF_vars(StoreEvent)
  /\ WF_vars(MarkVersion)
  /\ WF_vars(Poll)
  /\ \A k \in Keys : WF_vars(ReadKey(k))

-----------------------------------------------------------------------------

\* Types of the two dictionaries, the agent's position in a batch and the
\* reader's position in the keys.
TypeOK ==
  /\ now \in 1..MaxTime /\ stored \in 0..MaxBatches
  /\ shared \subseteq used /\ used \subseteq 1..MaxTime
  /\ events \in Seq(Event)
  /\ DataStorage \in [Keys -> Values \cup {Missing}]
  /\ {timestamp, VersionStorage, seen} \subseteq {0} \cup used
  /\ unread \subseteq Keys
  /\ applied \in [Keys -> Values \cup {Missing}]

\* Whenever APISIX believes that it is up to date (it acted on the version that
\* is marked and has read every key), and the agent is between batches, it runs
\* with exactly the stored configuration, unless two batches were given that
\* very timestamp: a read that saw half of a batch is always followed by another
\* one.  This rests on storeEvents marking the version after the data.
UpToDate ==
  ~Storing /\ seen = VersionStorage /\ unread = {} /\ VersionStorage \notin shared =>
    applied = DataStorage

\* If the version that is marked in the end was given to one batch only, the
\* stored configuration is applied in the end: batches that had shared a
\* timestamp earlier on are made up for.  A version that two batches were given may
\* leave APISIX with what it read before the second one.
ChangesAreApplied ==
  <>[](VersionStorage \notin shared) => <>[](applied = DataStorage)

=============================================================================
