------------------------------ MODULE LSHIndex ------------------------------
(***************************************************************************)
(* The LSH indexer of package lsh (src/unnamed/part_000): Indexer, Storage *)
(* and Page.  An Indexer maps a bucket key (the angular hash of a vector)  *)
(* to the number of the head page of that bucket's chain; Storage keeps   *)
(* the pages in one Go slice and links them by page number.                *)
(*                                                                         *)
(* The state keeps what the code keeps: the slice of pages, the slice's    *)
(* capacity (Go's append moves the array when it is full, which matters    *)
(* because Storage.Add holds a *Page across allocatePage), and the lookup  *)
(* table.  Search and Dump change nothing and are operators.               *)
(***************************************************************************)
EXTENDS Integers, Sequences, FiniteSets, TLC

LOCAL INSTANCE SequencesExt

CONSTANTS
  Capacity,    \* items per page: len(Page.items), 1023 in the code
  Hyperplane,  \* <<h_0, ..., h_{bitsize-1}>>: integer vectors of length vecsize
  Vectors,     \* the vectors callers pass to Add and Search
  MaxAdds,     \* bound on the number of Add calls
  SearchLimits \* the limits callers pass to Search

BitSize == Len(Hyperplane)

ASSUME Capacity \in Nat \ {0}
ASSUME BitSize \in 1..32            \* NewIndexer panics when bitsize > 32
ASSUME MaxAdds \in Nat
ASSUME SearchLimits \subseteq Nat

NoLink == -1                        \* Page.Init: p.Link(-1)

VARIABLES
  pages,    \* Storage.pages: page number n is pages[n+1]
  pagecap,  \* cap(Storage.pages), the length of the Go backing array
  lookup,   \* Indexer.lookup: bucket key -> head page number
  added     \* history: bucket key -> ids passed to Add for it, in order

vars == <<pages, pagecap, lookup, added>>

(***************************************************************************)
(* Angular hashing (GetBitVector of the Angular distance, and the          *)
(* bucket key Uint32 of its BitVector): bit i is set iff the dot product   *)
(* of hyperplane i with the vector is >= 0; bit i has weight 2^i.          *)
(***************************************************************************)
Dot(h, v) == SumFunction([i \in DOMAIN h |-> h[i] * v[i]])

GetBitVector(vec) ==
  SumSet({2^i : i \in {j \in 0..BitSize-1 : Dot(Hyperplane[j+1], vec) >= 0}})

(* bitvector.Hamming: popcount of the XOR of each of the ByteSize bytes.   *)
Bit(x, i) == (x \div 2^i) % 2
ByteSize == (BitSize + 7) \div 8
Hamming(x, y) == Cardinality({i \in 0..8*ByteSize-1 : Bit(x, i) # Bit(y, i)})

(***************************************************************************)
(* Pages and chains                                                        *)
(***************************************************************************)
EmptyPage == [nitems |-> 0, link |-> NoLink, items |-> <<>>]

\* mutant: Full one item early
FullEarly(p) == p.nitems = Capacity - 1

Full(p) == p.nitems = Capacity

\* mutant: Page.Add forgets nitems++
PageAddNoCount(p, id) == [p EXCEPT !.items = Append(@, id)]

PageAdd(p, id) == [p EXCEPT !.items = Append(@, id), !.nitems = @ + 1]

(* The page numbers pageIterator(n) visits in ps, following link until     *)
(* NoLink.  The fuel argument only keeps evaluation finite on a cycle.     *)
(* A link outside the slice is where pageIter.next panics; the chain stops *)
(* there (ChainsWellFormed reports such a link).                           *)
RECURSIVE ChainFrom(_, _, _)
ChainFrom(ps, n, fuel) ==
  IF n \notin 0..Len(ps)-1 \/ fuel = 0 THEN <<>>
  ELSE <<n>> \o ChainFrom(ps, ps[n+1].link, fuel - 1)

Chain(ps, n) == ChainFrom(ps, n, Len(ps) + 1)

ChainItems(ps, n) ==
  LET c == Chain(ps, n) IN FlattenSeq([i \in DOMAIN c |-> ps[c[i]+1].items])

(* Go's append on a full slice of 8192-byte Pages doubles its capacity.    *)
GrowCap(c) == IF c = 0 THEN 1 ELSE 2 * c

(* allocatePage: append an empty page; the new capacity of the slice.      *)
AllocCap(ps, c) == IF Len(ps) = c THEN GrowCap(c) ELSE c

(***************************************************************************)
(* Storage.Add(itemid, pageno): walk to the tail page; if it is full,      *)
(* allocate a page, link the tail to it and add there.  The tail is held   *)
(* as a *Page into the slice; when allocatePage's append moves the array,  *)
(* page.Link writes the old copy, so the live tail keeps link -1.          *)
(***************************************************************************)
\* mutant: allocatePage's number taken after the append (len, not len-1)
StorageAddLinkPastEnd(ps, c, id, head) ==
  LET tail == Last(Chain(ps, head))
      moved == Len(ps) = c
      linked == IF moved THEN ps ELSE [ps EXCEPT ![tail+1].link = Len(ps) + 1]
  IN IF ~Full(ps[tail+1])
     THEN [pages |-> [ps EXCEPT ![tail+1] = PageAdd(@, id)], cap |-> c]
     ELSE [pages |-> Append(linked, PageAdd(EmptyPage, id)),
           cap   |-> AllocCap(ps, c)]

\* mutant: the item is not added to the page allocated for it
StorageAddDropsItem(ps, c, id, head) ==
  LET tail == Last(Chain(ps, head))
      moved == Len(ps) = c
      linked == IF moved THEN ps ELSE [ps EXCEPT ![tail+1].link = Len(ps)]
  IN IF ~Full(ps[tail+1])
     THEN [pages |-> [ps EXCEPT ![tail+1] = PageAdd(@, id)], cap |-> c]
     ELSE [pages |-> Append(linked, EmptyPage), cap |-> AllocCap(ps, c)]

StorageAdd(ps, c, id, head) ==
  LET tail == Last(Chain(ps, head))
      new  == Len(ps)
      moved == Len(ps) = c
      linked == IF moved THEN ps ELSE [ps EXCEPT ![tail+1].link = new]
  IN IF ~Full(ps[tail+1])
     THEN [pages |-> [ps EXCEPT ![tail+1] = PageAdd(@, id)], cap |-> c]
     ELSE [pages |-> Append(linked, PageAdd(EmptyPage, id)),
           cap   |-> AllocCap(ps, c)]

NumAdds == SumFunction([k \in DOMAIN added |-> Len(added[k])])

Init ==
  /\ pages = <<>>
  /\ pagecap = 0
  /\ lookup = <<>>
  /\ added = <<>>

(***************************************************************************)
(* Indexer.Add(itemid, vec).  The caller numbers its items 1, 2, ...       *)
(* (ids are opaque to the index; unique ids let properties name items).    *)
(***************************************************************************)
\* mutant: a new bucket's head page is not recorded in lookup
AddForgetsLookup(vec) ==
  /\ NumAdds < MaxAdds
  /\ LET id    == NumAdds + 1
         key   == GetBitVector(vec)
         isnew == key \notin DOMAIN lookup
         ps    == IF isnew THEN Append(pages, EmptyPage) ELSE pages
         c     == IF isnew THEN AllocCap(pages, pagecap) ELSE pagecap
         head  == IF isnew THEN Len(pages) ELSE lookup[key]
         r     == StorageAdd(ps, c, id, head)
     IN /\ pages' = r.pages
        /\ pagecap' = r.cap
        /\ lookup' = lookup
        /\ added' = IF key \notin DOMAIN added THEN (key :> <<id>>) @@ added
                    ELSE [added EXCEPT ![key] = Append(@, id)]

Add(vec) ==
  /\ NumAdds < MaxAdds
  /\ LET id    == NumAdds + 1
         key   == GetBitVector(vec)
         isnew == key \notin DOMAIN lookup
         ps    == IF isnew THEN Append(pages, EmptyPage) ELSE pages
         c     == IF isnew THEN AllocCap(pages, pagecap) ELSE pagecap
         head  == IF isnew THEN Len(pages) ELSE lookup[key]
         r     == StorageAdd(ps, c, id, head)
     IN /\ pages' = r.pages
        /\ pagecap' = r.cap
        /\ lookup' = IF isnew THEN (key :> head) @@ lookup ELSE lookup
        /\ added' = IF isnew THEN (key :> <<id>>) @@ added
                    ELSE [added EXCEPT ![key] = Append(@, id)]

Next == \E vec \in Vectors : Add(vec)

Spec == Init /\ [][Next]_vars

(***************************************************************************)
(* Indexer.Search(vec, limit).  The bucket keys come out of the map in     *)
(* random order and sort.Sort is not stable, so the drain order is any     *)
(* ordering of the keys by non-decreasing Hamming distance to the query.   *)
(* lastdist starts at 0, as the Go zero value.                             *)
(***************************************************************************)
SortedKeyOrders(q) ==
  {s \in SetToSeqs(DOMAIN lookup) :
     \A i, j \in DOMAIN s : i < j => Hamming(q, s[i]) <= Hamming(q, s[j])}

\* mutant: stop at the limit even inside a tier of equal distance
RECURSIVE DrainNoTie(_, _, _, _, _)
DrainNoTie(q, limit, lkeys, items, lastdist) ==
  IF lkeys = <<>> \/ Len(items) >= limit THEN items
  ELSE DrainNoTie(q, limit, Tail(lkeys),
                  items \o ChainItems(pages, lookup[Head(lkeys)]),
                  Hamming(q, Head(lkeys)))

RECURSIVE Drain(_, _, _, _, _)
Drain(q, limit, lkeys, items, lastdist) ==
  IF lkeys = <<>> THEN items
  ELSE LET thiskey  == Head(lkeys)
           thisdist == Hamming(q, thiskey)
       IN IF lastdist # thisdist /\ Len(items) >= limit THEN items
          ELSE Drain(q, limit, Tail(lkeys),
                     items \o ChainItems(pages, lookup[thiskey]), thisdist)

SearchResults(vec, limit) ==
  LET q == GetBitVector(vec)
  IN {Drain(q, limit, o, <<>>, 0) : o \in SortedKeyOrders(q)}

(***************************************************************************)
(* Indexer.Dump, without its text: per bucket key, the page numbers of its *)
(* chain and the number of items on them.                                  *)
(***************************************************************************)
Dump ==
  [k \in DOMAIN lookup |->
     LET c == Chain(pages, lookup[k])
     IN [pagenolist |-> c,
         nitems |-> SumFunction([i \in DOMAIN c |-> pages[c[i]+1].nitems])]]

-----------------------------------------------------------------------------
(***************************************************************************)
(* Properties                                                              *)
(***************************************************************************)
Keys == 0..2^BitSize-1

TypeOK ==
  /\ pages \in Seq([nitems : 0..Capacity, link : {NoLink} \cup Nat,
                    items : Seq(1..MaxAdds)])
  /\ \A n \in DOMAIN pages : pages[n].nitems = Len(pages[n].items)
  /\ pagecap \in Nat /\ Len(pages) <= pagecap
  /\ DOMAIN lookup \subseteq Keys
  /\ \A k \in DOMAIN lookup : lookup[k] \in 0..Len(pages)-1
  /\ DOMAIN added \subseteq Keys
  /\ \A k \in DOMAIN added : added[k] \in Seq(1..MaxAdds)

(* Every link the page iterator follows stays inside the slice (else       *)
(* pageIter.next panics), every chain reaches NoLink without revisiting a  *)
(* page, and no page is on the chains of two bucket keys, so Storage.Add   *)
(* of one bucket never writes another bucket's page.                       *)
ChainsWellFormed ==
  /\ \A n \in DOMAIN pages : pages[n].link \in {NoLink} \cup 0..Len(pages)-1
  /\ \A k \in DOMAIN lookup :
       LET c == Dump[k].pagenolist
       IN /\ pages[Last(c)+1].link = NoLink
          /\ Cardinality(Range(c)) = Len(c)
  /\ \A k1, k2 \in DOMAIN lookup :
       k1 # k2 => Range(Dump[k1].pagenolist) \cap Range(Dump[k2].pagenolist) = {}

(* Storage.Add adds to a page only when it is the tail and not full, so on *)
(* every chain all pages but the last hold len(Page.items) items.          *)
OnlyTailHasRoom ==
  \A k \in DOMAIN lookup :
    LET c == Dump[k].pagenolist
    IN \A i \in 1..Len(c)-1 : pages[c[i]+1].nitems = Capacity

(* Every id passed to Add is stored on exactly one page, and no page holds *)
(* anything else: pages together hold each added id exactly once.          *)
ItemsConserved ==
  LET all == FlattenSeq([n \in DOMAIN pages |-> pages[n].items])
  IN /\ Len(all) = NumAdds
     /\ Range(all) = 1..NumAdds

(* Every bucket that was added to has a head page in lookup, and the items *)
(* its chain shows (those Search and Dump read) are ids added for that     *)
(* key, in the order they were added, starting with the first Capacity.   *)
ChainsHoldOwnItems ==
  /\ DOMAIN added = DOMAIN lookup
  /\ \A k \in DOMAIN lookup :
       LET v == ChainItems(pages, lookup[k])
           a == added[k]
           pos(x) == CHOOSE i \in DOMAIN a : a[i] = x
       IN /\ Range(v) \subseteq Range(a)
          /\ \A i, j \in DOMAIN v : i < j => pos(v[i]) < pos(v[j])
          /\ SubSeq(v, 1, Min({Len(v), Capacity})) =
               SubSeq(a, 1, Min({Len(a), Capacity}))

(* Reference for Search: the buckets within distance D of the query, for   *)
(* the least D whose buckets hold at least limit items (all buckets when   *)
(* none does); D = -1 (nothing) when limit is 0.                           *)
ItemsWithin(q, D) ==
  UNION {Range(ChainItems(pages, lookup[k])) :
           k \in {k2 \in DOMAIN lookup : Hamming(q, k2) <= D}}

NearestTiers(q, limit) ==
  LET enough == {D \in -1..BitSize : Cardinality(ItemsWithin(q, D)) >= limit}
  IN ItemsWithin(q, IF enough = {} THEN BitSize ELSE Min(enough))

(* Search returns whole buckets, never part of one: exactly the items of   *)
(* the nearest distance tiers needed to reach limit, each once, whatever   *)
(* order the map and the unstable sort give the keys.                      *)
SearchNearestTiers ==
  \A vec \in Vectors, limit \in SearchLimits :
    \A r \in SearchResults(vec, limit) :
      /\ Range(r) = NearestTiers(GetBitVector(vec), limit)
      /\ Len(r) = Cardinality(Range(r))

(***************************************************************************)
(* The index implements AbstractIndex: each bucket key's chain holds       *)
(* exactly the ids added under it, in order (spec section 8: a bucket's    *)
(* item count equals the number of inserts into it).                       *)
(***************************************************************************)
Abstract == INSTANCE AbstractIndex
  WITH nadds <- NumAdds,
       buckets <- [k \in DOMAIN lookup |-> ChainItems(pages, lookup[k])]

AbstractSpec == Abstract!Spec

=============================================================================
