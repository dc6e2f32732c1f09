------------------------- MODULE MCPluginController -------------------------
(***************************************************************************)
(* PluginController for TLC: an object with a selector, which may be       *)
(* invalid, and one without, whose list may change its order only.         *)
(***************************************************************************)
EXTENDS PluginController, TLC

CONSTANTS k1, k2, pod1, la, lb

SpecOf(plugins, selector) == [plugins |-> plugins, selector |-> selector]

A1 == [name |-> "a", config |-> 1]
A2 == [name |-> "a", config |-> 2]
B1 == [name |-> "b", config |-> 1]

MCPlugins == {<<A1>>, <<A2>>, <<A1, B1>>, <<B1, A1>>}

\* k1 changes its selector or its plugins, k2 has no selector.
MCSpecs == k1 :> {SpecOf(<<A1>>, {la}), SpecOf(<<A1>>, {lb}), SpecOf(<<A2>>, {la}),
                  SpecOf(<<A2>>, {}), SpecOf(<<A1>>, BadSelector)}
             @@ k2 :> {SpecOf(<<A1, B1>>, NoSelector), SpecOf(<<B1, A1>>, NoSelector)}

=============================================================================
