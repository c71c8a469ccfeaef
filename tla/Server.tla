------------------------------- MODULE Server -------------------------------
(***************************************************************************)
(* The metadata server of package istore (src/istore/server.go): POST      *)
(* handlers running concurrently (net/http gives each request its own      *)
(* goroutine), the in-memory id sequence behind idseqLock, and the LevelDB *)
(* keys they write: path -> metadata, ItemId key -> path, and the sys.seq  *)
(* hint.  A restart loses every handler in flight and the in-memory idseq; *)
(* LevelDB keeps every batch written (a batch is atomic).                  *)
(*                                                                         *)
(* The user metadata itself is abstracted away: a stored path holds the    *)
(* ItemId of its metadata.  ServeGet and ServeList only read.              *)
(***************************************************************************)
EXTENDS Integers, FiniteSets, Sequences, TLC

CONSTANTS
  Paths,            \* request paths (r.URL.Path) clients POST to
  Handlers,         \* goroutines serving requests concurrently
  MaxPosts,         \* bound on the number of POST requests
  MaxRestarts,      \* bound on the number of restarts
  ReadErrors        \* whether LevelDB reads (Get, Has) may return an error
                    \* other than ErrNotFound

ASSUME MaxPosts \in Nat /\ MaxRestarts \in Nat /\ ReadErrors \in BOOLEAN

NoKey == -1          \* the key is absent from LevelDB (leveldb.ErrNotFound)

VARIABLES
  meta,      \* LevelDB path -> metadata: the ItemId it holds, or NoKey
  idpath,    \* LevelDB ItemId.Key() -> path, as a function of the id
  seqhint,   \* LevelDB sys.seq: an id, or NoKey
  idseq,     \* Server.idseq
  pc,        \* per handler: "idle", "read", "nextid", "locked" or "write"
  locked,    \* the handler holding idseqLock: {} or {h}
  req,       \* per handler: the ServePost locals key, meta.ItemId, isnew
  posts,     \* number of POST requests received so far
  restarts,  \* number of restarts so far
  acks       \* history: <<path, id, isnew>> of every 201 Created sent

vars == <<meta, idpath, seqhint, idseq, pc, locked, req, posts, restarts, acks>>

NoReq == [path |-> NoKey, id |-> 0, isnew |-> FALSE]

(* NewServer: idseq from the sys.seq hint, 1 when there is none; a failed  *)
(* read leaves idseq = ToItemId(nil) = 0.                                  *)
LoadIdseq(hint) ==
  (IF hint = NoKey THEN {1} ELSE {hint}) \cup (IF ReadErrors THEN {0} ELSE {})

Init ==
  /\ meta = [p \in Paths |-> NoKey]
  /\ idpath = <<>>
  /\ seqhint = NoKey
  /\ idseq \in LoadIdseq(NoKey)
  /\ pc = [h \in Handlers |-> "idle"]
  /\ locked = {}
  /\ req = [h \in Handlers |-> NoReq]
  /\ posts = 0
  /\ restarts = 0
  /\ acks = {}

(***************************************************************************)
(* ServeHTTP -> ServePost: the request arrives; a "metadata" form value    *)
(* that is not JSON is answered 400 at once, before any LevelDB access.    *)
(***************************************************************************)
Receive(h, p) ==
  /\ pc[h] = "idle"
  /\ posts < MaxPosts
  /\ posts' = posts + 1
  /\ \/ /\ pc' = [pc EXCEPT ![h] = "read"]
        /\ req' = [req EXCEPT ![h] = [NoReq EXCEPT !.path = p]]
     \/ UNCHANGED <<pc, req>>                          \* 400 Bad Request
  /\ UNCHANGED <<meta, idpath, seqhint, idseq, locked, restarts, acks>>

(* s.Db.Get(key): the stored ItemId; 0 when the key is absent or the Get   *)
(* fails, and ItemId 0 means a new item.                                   *)
StoredId(p) == IF meta[p] = NoKey THEN {0} ELSE {meta[p]}

Read(h) ==
  /\ pc[h] = "read"
  /\ \E id \in StoredId(req[h].path) \cup (IF ReadErrors THEN {0} ELSE {}) :
       /\ req' = [req EXCEPT ![h].id = id, ![h].isnew = (id = 0)]
       /\ pc' = [pc EXCEPT ![h] = IF id = 0 THEN "nextid" ELSE "write"]
  /\ UNCHANGED <<meta, idpath, seqhint, idseq, locked, posts, restarts, acks>>

(* NextItemId begins with s.idseqLock.Lock(): a handler waits while       *)
(* another holds the lock.                                                 *)
Acquire(h) ==
  /\ pc[h] = "nextid"
  /\ locked = {}
  /\ locked' = {h}
  /\ pc' = [pc EXCEPT ![h] = "locked"]
  /\ UNCHANGED <<meta, idpath, seqhint, idseq, req, posts, restarts, acks>>

(***************************************************************************)
(* The loop of NextItemId, one step because idseqLock is held throughout:  *)
(* val := idseq and idseq++ until the key of val is absent from LevelDB;   *)
(* the deferred Unlock runs on return.  A failed Has panics after idseq++; *)
(* net/http recovers the handler's panic, the deferred Unlock runs and the *)
(* request gets no response.  (The wrap to 0 needs 2^64 ids and is not     *)
(* modelled.)                                                              *)
(***************************************************************************)
\* mutant: the loop trusts idseq and skips the Db.Has check
FirstFreeNoCheck(from) == from

FirstFree(from) == CHOOSE v \in from..from + Cardinality(DOMAIN idpath) :
                     /\ v \notin DOMAIN idpath
                     /\ \A w \in from..v-1 : w \in DOMAIN idpath

NextItemId(h) ==
  LET val == FirstFree(idseq)
  IN /\ pc[h] = "locked"
     /\ idseq' = val + 1
     /\ locked' = {}
     /\ req' = [req EXCEPT ![h].id = val]
     /\ pc' = [pc EXCEPT ![h] = "write"]
     /\ UNCHANGED <<meta, idpath, seqhint, posts, restarts, acks>>

\* mutant: Unlock is called at the end of NextItemId instead of deferred
HasFailsNoUnlock(h) ==
  /\ ReadErrors
  /\ pc[h] = "locked"
  /\ \E v \in idseq..FirstFree(idseq) : idseq' = v + 1
  /\ pc' = [pc EXCEPT ![h] = "idle"]
  /\ req' = [req EXCEPT ![h] = NoReq]
  /\ UNCHANGED <<meta, idpath, seqhint, locked, posts, restarts, acks>>

(* Db.Has(val) fails at any val the loop reaches: each taken id before it  *)
(* was skipped, and idseq is val + 1 when the panic unwinds.               *)
HasFails(h) ==
  /\ ReadErrors
  /\ pc[h] = "locked"
  /\ \E v \in idseq..FirstFree(idseq) : idseq' = v + 1
  /\ locked' = {}
  /\ pc' = [pc EXCEPT ![h] = "idle"]
  /\ req' = [req EXCEPT ![h] = NoReq]
  /\ UNCHANGED <<meta, idpath, seqhint, posts, restarts, acks>>

\* mutant: the ItemId -> path entry is written for updates, not new items
WriteIndexInverted(h) ==
  LET r == req[h] IN
  /\ pc[h] = "write"
  /\ pc' = [pc EXCEPT ![h] = "idle"]
  /\ req' = [req EXCEPT ![h] = NoReq]
  /\ \/ /\ meta' = [meta EXCEPT ![r.path] = r.id]
        /\ idpath' = IF ~r.isnew THEN (r.id :> r.path) @@ idpath ELSE idpath
        /\ seqhint' = IF r.isnew THEN r.id ELSE seqhint
        /\ acks' = acks \cup {<<r.path, r.id, r.isnew>>}
     \/ UNCHANGED <<meta, idpath, seqhint, acks>>
  /\ UNCHANGED <<idseq, locked, posts, restarts>>

(***************************************************************************)
(* The batch: path -> metadata, and for a new item ItemId -> path and the  *)
(* sys.seq hint; s.Db.Write either applies all of it and 201 is sent, or   *)
(* fails and 500 is sent.                                                  *)
(***************************************************************************)
Write(h) ==
  LET r == req[h] IN
  /\ pc[h] = "write"
  /\ pc' = [pc EXCEPT ![h] = "idle"]
  /\ req' = [req EXCEPT ![h] = NoReq]
  /\ \/ /\ meta' = [meta EXCEPT ![r.path] = r.id]
        /\ idpath' = IF r.isnew THEN (r.id :> r.path) @@ idpath ELSE idpath
        /\ seqhint' = IF r.isnew THEN r.id ELSE seqhint
        /\ acks' = acks \cup {<<r.path, r.id, r.isnew>>}
     \/ UNCHANGED <<meta, idpath, seqhint, acks>>        \* Write failed
  /\ UNCHANGED <<idseq, locked, posts, restarts>>

(***************************************************************************)
(* The process stops and NewServer runs again: handlers in flight are      *)
(* gone, idseq is reloaded from the sys.seq hint.                          *)
(***************************************************************************)
Restart ==
  /\ restarts < MaxRestarts
  /\ restarts' = restarts + 1
  /\ pc' = [h \in Handlers |-> "idle"]
  /\ locked' = {}
  /\ req' = [h \in Handlers |-> NoReq]
  /\ idseq' \in LoadIdseq(seqhint)
  /\ UNCHANGED <<meta, idpath, seqhint, posts, acks>>

Next ==
  \/ \E h \in Handlers, p \in Paths : Receive(h, p)
  \/ \E h \in Handlers :
       Read(h) \/ Acquire(h) \/ NextItemId(h) \/ HasFails(h) \/ Write(h)
  \/ Restart

Spec == Init /\ [][Next]_vars

(***************************************************************************)
(* Fairness: the Go scheduler eventually runs every runnable goroutine     *)
(* (weak fairness of each handler's steps), and sync.Mutex switches to     *)
(* starvation mode, handing the lock to a waiter that has waited over 1 ms *)
(* (strong fairness of Acquire).  Receive and Restart are the environment  *)
(* and get no fairness.                                                    *)
(***************************************************************************)
FairSpec ==
  /\ Spec
  /\ \A h \in Handlers :
       /\ WF_vars(Read(h))
       /\ SF_vars(Acquire(h))
       /\ WF_vars(NextItemId(h) \/ HasFails(h))
       /\ WF_vars(Write(h))

-----------------------------------------------------------------------------
(***************************************************************************)
(* Properties                                                              *)
(***************************************************************************)
(* Every stored item can be found by its id: the ItemId -> path key of the *)
(* id in a path's metadata names that path, whatever POSTs to the same     *)
(* path raced and whichever batches failed.                                *)
StoredIdsIndexed ==
  \A p \in Paths : meta[p] # NoKey => meta[p] \in DOMAIN idpath /\ idpath[meta[p]] = p

(* NextItemId never hands out an id twice, across restarts: the sys.seq    *)
(* hint may lag or go backward (batches commit out of order), and the Has  *)
(* check of the ItemId key must skip every id a committed POST holds.      *)
AckedNewIdsDistinct ==
  \A a, b \in acks : (a[3] /\ b[3] /\ a # b) => a[2] # b[2]

(* A 201 response's _id is the id the path keeps: once a POST to p is     *)
(* acknowledged with id i, p's stored metadata holds i from then on.       *)
AckedIdStable ==
  \A a \in acks : meta[a[1]] = a[2]

(* ItemId 0 means "no id" to ServePost (and json omits it): no POST is     *)
(* acknowledged as a new item with id 0.                                   *)
NoZeroId ==
  \A a \in acks : a[2] # 0

(* Every request a handler has taken up is finished: its handler returns   *)
(* to idle, answered or after a recovered panic, unless a restart ends it  *)
(* first.  No path through ServePost and NextItemId leaves idseqLock held  *)
(* so that the next new item waits on it for ever.                         *)
RequestsComplete ==
  \A h \in Handlers : pc[h] # "idle" ~> pc[h] = "idle"

(* Every POST, seen from outside, is one step of AbstractServer: the path's *)
(* stored id changes only to a fresh id that the same batch indexes to the *)
(* path, or to an id already indexed to it; no id is ever rebound to      *)
(* another path, across racing handlers, failed batches and restarts that *)
(* reload idseq from a stale sys.seq hint.  Ids are bounded by the ids     *)
(* MaxPosts requests can be given.                                         *)
Abs == INSTANCE AbstractServer WITH store <- meta, index <- idpath,
                                    Ids <- 0..MaxPosts + 1
AbstractServerSpec == Abs!Spec

=============================================================================
