---------------------------- MODULE MCAgentStore ----------------------------
(***************************************************************************)
(* AgentStore with two keys and batches of up to two events for TLC.       *)
(***************************************************************************)
EXTENDS AgentStore

CONSTANTS k1, k2, v1, v2

Put(k, v) == [key |-> k, object |-> v]
Del(k) == [key |-> k, object |-> Missing]

\* An empty batch, one that adds a route and its upstream, one that changes
\* both, one that removes a key and changes the other.
MCBatches ==
  {<< >>,
   <<Put(k1, v1), Put(k2, v1)>>,
   <<Put(k1, v2), Put(k2, v2)>>,
   <<Del(k1), Put(k2, v1)>>}

=============================================================================
