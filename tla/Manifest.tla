------------------------------ MODULE Manifest ------------------------------
(***************************************************************************)
(* Manifests as the code has them, slices of routes and upstreams, their   *)
(* comparison, the event list made of it, and what storing that list does. *)
(*                                                                         *)
(* A nil slice is an empty sequence: every slice compared here is built    *)
(* with append, which leaves an empty one nil.  Resources are compared by  *)
(* their JSON text, which is to say by value.  A slice may hold two        *)
(* resources with one id.                                                  *)
(***************************************************************************)
EXTENDS Slices

Ids(s) == {s[i].id : i \in DOMAIN s}

\* The map entry of an id: the last resource of the slice that has it.
Entry(s, id) == s[Max({i \in DOMAIN s : s[i].id = id})]

\* The places of s with an id that is not in t, and with a resource other than
\* the one of its id in t.
Unknown(s, t) == {i \in DOMAIN s : s[i].id \notin Ids(t)}
Stale(s, t) == {i \in DOMAIN s \ Unknown(s, t) : s[i] # Entry(t, s[i].id)}

\* Mutant: the old resource is reported as the updated one.
CompareStale(s1, s2) ==
  [added   |-> Pick(s2, Unknown(s2, s1)),
   deleted |-> Pick(s1, Unknown(s1, s2)),
   updated |-> Pick(s1, Stale(s1, s2))]

\* Mutant: nothing is deleted when the new slice is nil.
CompareNil(s1, s2) ==
  LET stale == Pick(s1, Stale(s1, s2))
  IN  [added   |-> Pick(s2, Unknown(s2, s1)),
       deleted |-> IF s2 = << >> THEN << >> ELSE Pick(s1, Unknown(s1, s2)),
       updated |-> [i \in DOMAIN stale |-> Entry(s2, stale[i].id)]]

\* CompareRoutes and CompareUpstreams, from the point of view of s1.
Compare(s1, s2) ==
  IF s1 = << >> THEN [added |-> s2, deleted |-> << >>, updated |-> << >>]
  ELSE IF s2 = << >> THEN [added |-> << >>, deleted |-> s1, updated |-> << >>]
  ELSE LET stale == Pick(s1, Stale(s1, s2))
       IN  [added   |-> Pick(s2, Unknown(s2, s1)),
            deleted |-> Pick(s1, Unknown(s1, s2)),
            updated |-> [i \in DOMAIN stale |-> Entry(s2, stale[i].id)]]

\* Manifest.DiffFrom: the differences of both slices, by kind of change.
DiffFrom(m1, m2) ==
  LET routes == Compare(m1.Routes, m2.Routes)
      ups    == Compare(m1.Upstreams, m2.Upstreams)
  IN  [added   |-> [Routes |-> routes.added, Upstreams |-> ups.added],
       deleted |-> [Routes |-> routes.deleted, Upstreams |-> ups.deleted],
       updated |-> [Routes |-> routes.updated, Upstreams |-> ups.updated]]

\* An event; a deletion carries its object as a tombstone.
Event(evType, key, r) == [type |-> evType, key |-> key, object |-> r]

\* Mutant: the key of an event is not the id of its route.
EventsByConfig(m, evType) ==
  [i \in DOMAIN m.Routes |-> Event(evType, m.Routes[i].config, m.Routes[i])]

\* Manifest.Events: an event for each resource.  An upstream without nodes is
\* only ever deleted.
Events(m, evType) ==
  LET event(r) == Event(evType, r.id, r)
      ups == Pick(m.Upstreams, {i \in DOMAIN m.Upstreams :
                                  evType = "delete" \/ m.Upstreams[i].nodes # {}})
  IN  [i \in DOMAIN m.Routes |-> event(m.Routes[i])]
        \o [i \in DOMAIN ups |-> event(ups[i])]

\* generateIncrementalEvents: added, then deleted, then updated.
IncrementalEvents(old, new) ==
  LET diff == DiffFrom(old, new)
  IN  Events(diff.added, "add") \o Events(diff.deleted, "delete")
        \o Events(diff.updated, "update")

\* storeEvents: the events are carried out in the order of the list.
ApplyEvents(store, events) ==
  FoldLeft(LAMBDA s, e :
             [k \in IF e.type = "delete" THEN DOMAIN s \ {e.key} ELSE DOMAIN s \cup {e.key} |->
                IF k = e.key THEN e.object ELSE s[k]],
           store, events)

\* The resources of a slice as a map, by id.
AsMap(s) == [k \in Ids(s) |-> Entry(s, k)]

=============================================================================
