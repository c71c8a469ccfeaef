--------------------------- MODULE AbstractIndex ---------------------------
(***************************************************************************)
(* What the indexer promises (spec sections 3 and 4.4): a bucket key maps  *)
(* to the list of the ids added under it, in insertion order.  Callers     *)
(* number their ids 1, 2, ...: Add of the n-th id appends n to the list of *)
(* its key, creating the bucket on its first id, and nothing else changes. *)
(***************************************************************************)
EXTENDS Naturals, Sequences, TLC

CONSTANTS Keys     \* the bucket keys

VARIABLES
  buckets,         \* bucket key -> sequence of ids
  nadds            \* number of Add calls so far

vars == <<buckets, nadds>>

Init == buckets = <<>> /\ nadds = 0

AddItem(key) ==
  /\ nadds' = nadds + 1
  /\ buckets' = IF key \in DOMAIN buckets
                THEN [buckets EXCEPT ![key] = Append(@, nadds + 1)]
                ELSE (key :> <<nadds + 1>>) @@ buckets

Next == \E key \in Keys : AddItem(key)

Spec == Init /\ [][Next]_vars

=============================================================================
