--------------------------- MODULE MCPluginStreams ---------------------------
(***************************************************************************)
(* PluginStreams for TLC: one pod that reconnects, one that does not.      *)
(***************************************************************************)
EXTENDS PluginStreams, TLC

CONSTANTS p1, p2

\* 1 and then 2 for p1, 3 for p2.
MCPodOf == 1 :> p1 @@ 2 :> p1 @@ 3 :> p2

MCMaxVersion == p1 :> 2 @@ p2 :> 0
=============================================================================
