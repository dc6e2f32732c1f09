---------------------------- MODULE ManifestDiff ----------------------------
(***************************************************************************)
(* The difference between two manifests, and what applying it does to the  *)
(* store, at the level the event pipeline needs.  A manifest is a partial  *)
(* function from resource keys to resources; a batch of events is a        *)
(* partial function from the touched keys to what the agent will write for *)
(* them, `gone` standing for a delete event.  Add and update events write  *)
(* the same thing, and the keys of a batch are distinct, so neither the    *)
(* event type nor the order inside a batch is kept.  Module Manifest has   *)
(* the slices and the event lists of the code and is checked against this. *)
(***************************************************************************)

\* Functions from some subset of D to R: the Go maps of the provisioner.
PartialFn(D, R) == UNION {[S -> R] : S \in SUBSET D}

\* The keys DiffFrom reports as added, deleted or updated.
ChangedKeys(old, new) ==
  {k \in DOMAIN old \cup DOMAIN new :
     \/ k \notin DOMAIN old
     \/ k \notin DOMAIN new
     \/ old[k] # new[k]}

\* generateIncrementalEvents: one event for each changed key.
GenerateIncrementalEvents(old, new, gone) ==
  [k \in ChangedKeys(old, new) |-> IF k \in DOMAIN new THEN new[k] ELSE gone]

\* storeEvents: write every event of the batch, leave the other keys alone.
StoreEvents(store, batch) ==
  [k \in DOMAIN store |-> IF k \in DOMAIN batch THEN batch[k] ELSE store[k]]

=============================================================================
