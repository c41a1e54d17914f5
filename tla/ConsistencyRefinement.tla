------------------------- MODULE ConsistencyRefinement -------------------------
(* ConsistencyLease implements ReviewSlot: the rows give the phases, the tasks  *)
(* that are calling the model give the calls.                                   *)
EXTENDS ConsistencyLease

PhaseOf(s) == IF s \in Active THEN "open" ELSE s

phases == [c \in Check |-> PhaseOf(row[c].status)]
callers == {<<w, CheckOf(w)>> : w \in {v \in Worker : Calling(v)}}

Slot == INSTANCE ReviewSlot WITH phase <- phases, calls <- callers

\* Reviews of a version open one at a time, never with two calls in progress,
\* and end once, although deliveries, leases and requests interleave.
ImplementsSlot == Slot!Spec
===============================================================================
