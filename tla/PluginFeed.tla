----------------------------- MODULE PluginFeed -----------------------------
(***************************************************************************)
(* What the controller's plugin streams promise: the sidecar of a pod is   *)
(* kept up to date with the plugin configuration of the pod.  It may miss  *)
(* some in between, but never goes back.  Module PluginStreams implements  *)
(* this.                                                                   *)
(***************************************************************************)
EXTENDS Naturals

CONSTANTS
  Pods,
  MaxVersion   \* pod -> bound on the configurations it goes through

VARIABLES
  config,   \* pod -> the number of its current configuration
  has,      \* pod -> the number of the one its sidecar has
  lost      \* pods whose sidecar is promised nothing any more

vars == <<config, has, lost>>

Init ==
  /\ config = [p \in Pods |-> 0]
  /\ has = [p \in Pods |-> 0]
  /\ lost = {}

Change(p) ==
  /\ config[p] < MaxVersion[p]
  /\ config' = [config EXCEPT ![p] = @ + 1]
  /\ UNCHANGED <<has, lost>>

\* The sidecar gets a configuration that is newer, if not the newest.
Update(p) ==
  /\ has[p] < config[p]
  /\ \E v \in (has[p] + 1)..config[p] : has' = [has EXCEPT ![p] = v]
  /\ UNCHANGED <<config, lost>>

Lose ==
  /\ lost' \in SUBSET Pods /\ lost \subseteq lost'
  /\ UNCHANGED <<config, has>>

Next == (\E p \in Pods : Change(p) \/ Update(p)) \/ Lose

Spec == Init /\ [][Next]_vars

\* Who is not lost is served.
FairSpec == Spec /\ \A p \in Pods : WF_vars(p \notin lost /\ Update(p))

=============================================================================
