--------------------------- MODULE MCUpstreamSync ---------------------------
(***************************************************************************)
(* Instances of UpstreamSync for TLC: one EDS service that is always there *)
(* and one cluster that comes, goes and changes its type.                  *)
(***************************************************************************)
EXTENDS UpstreamSync, TLC

CONSTANTS c1, c2, e1, e2, ex, f1, f2

Eds(f, eps)    == [kind |-> "EDS", conf |-> f, eps |-> eps]
Inline(f, eps) == [kind |-> "INLINE", conf |-> f, eps |-> eps]
Custom(f)      == [kind |-> "CUSTOM", conf |-> f, eps |-> {}]

\* One cluster that comes and goes and changes its form: EDS with a usable and
\* an unusable endpoint, inline with other settings.
MCOneCluster ==
  {<< >>, c1 :> Eds(f1, {e1, ex}), c1 :> Inline(f2, {e1})}

\* A service that is always there and changes its endpoints, next to a cluster
\* of no usable type, one without endpoints, one that should carry its endpoints
\* and does not, and none.
MCServing ==
  {c1 :> Eds(f1, {e1}) @@ c2 :> Custom(f1),
   c1 :> Eds(f1, {e1}) @@ c2 :> Eds(f1, {}),
   c1 :> Eds(f1, {e1, ex}) @@ c2 :> Inline(f1, {}),
   c1 :> Eds(f2, {e2, ex})}

\* An EDS cluster that is removed, for the orphan run.
MCRemoved == {<< >>, c1 :> Eds(f1, {e1})}

=============================================================================
