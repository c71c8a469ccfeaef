--------------------------- MODULE AbstractServer ---------------------------
(***************************************************************************)
(* What a POST to the metadata server promises, each request one atomic   *)
(* step (src/istore/server.go, ServePost): the path's metadata is stored   *)
(* under a fresh ItemId that is indexed back to the path, or under an id   *)
(* the index already gives to that path.  The index only grows and never  *)
(* rebinds an id.  Reads, failed requests and restarts change nothing      *)
(* here and are stuttering steps.                                          *)
(***************************************************************************)
EXTENDS Integers, TLC

CONSTANTS
  Paths,   \* request paths
  Ids      \* the ItemIds the server may hand out

NoKey == -1

VARIABLES
  store,   \* path -> the ItemId its stored metadata holds, or NoKey
  index    \* ItemId -> path, for every id handed out

Init ==
  /\ store = [p \in Paths |-> NoKey]
  /\ index = <<>>

(* A new item: a fresh id, stored for p and indexed to p.                  *)
Assign(p, id) ==
  /\ id \notin DOMAIN index
  /\ store' = [store EXCEPT ![p] = id]
  /\ index' = (id :> p) @@ index

(* An update: p's metadata is rewritten under an id already indexed to p.  *)
Update(p, id) ==
  /\ id \in DOMAIN index
  /\ index[id] = p
  /\ store' = [store EXCEPT ![p] = id]
  /\ UNCHANGED index

Next == \E p \in Paths, id \in Ids : Assign(p, id) \/ Update(p, id)

Spec == Init /\ [][Next]_<<store, index>>

=============================================================================
