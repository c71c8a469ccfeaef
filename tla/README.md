# TLA+ models of istore

This directory holds TLA+ models of the istore repository, the TLC configurations that
check them, and `PROJECT.json`. `PROJECT.json` lists the components, runs, mutants,
the mapping from definitions to source lines, the findings and the hazards.

## 1. Inventory

### Components

| Component | Source | State | Operations |
|---|---|---|---|
| BitVector | `src/bitvector/bitvector.go` | `size`, byte buffer `bits` | `New`, `Set`, `Unset`, `Get`, `String`, `Scan`/`MustScan`, `Uint64`, `ByteSize`, `Less` (bytewise), `Hamming`, `SortFrom` |
| Indexer | `src/unnamed/part_000` (package `lsh`) | `hyperplane` (fixed at construction), `lookup: bucket key -> head page number`, `storage` | `NewIndexer`, `Add`, `Search`, `Dump`, `GetBitVector` |
| Storage / Page | `src/unnamed/part_000` | `pages []Page` (a Go slice: length and capacity), each page `nitems`, `link`, `items [1023]uint64` | `allocatePage`, `Add`, `pageIterator`/`next`, `Page.Add/Full/Link/Gets` |
| Angular hasher, random vector generator | not in the sources (`Angular`, `NewRandomVectorGen`, `FromUint32`, `Uint32`, `Sort(..).From`) | none | `GetBitVector` = sign of dot product per hyperplane |
| Metadata server | `src/istore/server.go` | LevelDB (`path -> metadata`, `sys.ns.seq<id> -> path`, `sys.seq -> hint`), in-memory `idseq` behind `idseqLock` | `NewServer`, `ServeHTTP`, `NextItemId`, `ServePost`, `ServeGet`, `ServeList` |
| Content client | `src/istore/client.go` | none | `getContent`, `fileGet`, `selfGet` (calls `GetApply`, which is not in the sources) |
| Image / video operations | `src/istore/images.go` | none | image filters, `Expand`/`expand` (calls `PutObject`, which is not in the sources), `frame` |

### How they interact

Callers use the Indexer synchronously. `Add` hashes the vector into a bucket key. For a
new key it allocates a head page and records it in `lookup`. It then calls `Storage.Add`,
which walks the chain from the head to its tail page, allocating and linking a new page
when the tail is full. `Search` hashes the query and sorts every key in `lookup` by
Hamming distance (a `BitVector` operation). It then drains the chains of the keys in
that order until it holds `limit` items and the distance changes. `Dump` reports each
chain.

The indexer is single-threaded by contract (spec section 5). Nothing in the repository
calls it concurrently.

The server is separate. Nothing in the sources connects it to the index. `net/http`
runs its handlers concurrently. `NextItemId` serialises id allocation with `idseqLock`.
`ServePost` reads the path's metadata, takes an id if the path is new, and writes one
LevelDB batch. These steps are not atomic with respect to other POSTs. The persisted
`sys.seq` is only a hint: after a restart, uniqueness comes from `NextItemId` skipping
ids whose `id -> path` key exists.

### What is hard

- The stale pointer in `Storage.Add` (part_000:153-167). The tail `*Page` is taken
  before `allocatePage`, and `allocatePage` appends to `s.pages`. When the slice is
  full, Go moves the array, and `page.Link` then writes the old copy. Whether this
  happens depends on the whole history of page allocations across all buckets: it
  happens when the page count is 1, 2, 4, 8, ... (Pages are 8192 bytes, so append
  doubles the capacity.) A unit test that fills one bucket hits it. A test with several
  buckets may or may not.
- Page boundaries: `Full` at exactly the capacity, `Page.Add` writing `items[nitems]`.
- Search's drain order. Keys come from map iteration in random order and `sort.Sort`
  is unstable, so tied buckets come in any order. The stop test compares with
  `lastdist`, which starts at 0.
- Server: concurrent POSTs to one path, a restart between batches (the `sys.seq` hint
  can go backward), LevelDB read and write errors in the middle of a POST, and the id
  counter's edge at 0.

### Properties that make each component correct

- Storage: links stay inside the slice, and chains are acyclic and disjoint. Only a
  chain's tail has room. Every added id is on exactly one page. A bucket's chain shows
  its own ids in insertion order. Storage is append-only. Refinement: the chain of
  every key holds exactly the ids added under it (`AbstractIndex`).
- Search: the result is exactly the nearest whole distance tiers that reach `limit`,
  each item once, whatever the tie order.
- BitVector: Get after Set/Unset, unused high bits stay zero, the Hamming byte loop
  matches the bit-level reference, Scan/String round trip, `Uint64` matches the bit
  weights, and valid indices never panic.
- Server: every stored id is indexed back to its path, ids are never reused across
  restarts (the hint never makes `NextItemId` return a used id), every POST's response
  names the id that stays stored, and id 0 is never handed out.

## 2. Plan

1. **LSHIndex** (done): Indexer + Storage + Page as one module, because `Indexer.Add`
   calls `Storage.Add` inside one synchronous step. Hashing is spec-modelled over
   integer vectors.
   **AbstractIndex** (done): bucket key -> list of ids, with the refinement mapping
   `buckets <- chain items of lookup[k]` and `nadds <- number of Adds`.
2. **BitVector** (done): one object as state, `Scan`/`New` as initial states,
   `Set`/`Unset` as actions, a status for panics and Scan errors. Get, String, Uint64
   and Hamming are operators checked against bit-level references.
3. **Server** (done): concurrent `ServePost` handlers with program counters, LevelDB
   as functions, restart, and LevelDB read/write errors.
4. **AbstractServer** (done): what a POST promises, as one atomic step, with
   Server checked to refine it (`AbstractServerSpec` in `server_post`). The same-path
   race does not break it: the abstract spec lets a second POST to a new path store a
   fresh id, and the race shows up only as `AckedIdStable`, a property of the 201
   responses. A 3-bit LSHIndex search instance did not fit TLC's time.

5. **Server liveness** (done): `idseqLock` is a variable, with `Acquire` as its own
   step, and `FairSpec` adds the fairness that Go's scheduler and `sync.Mutex`
   give.
6. **Expand** (done): `Server.Expand`, `expand`, `selfURL`, `extractTargetURL`,
   `getContent` and `selfGet`, with strings as sequences of characters, so that
   escaping and key order are modelled by what they do.
7. **ExpandFrame** (done): `frame` composed with Expand, so that any stored key can be
   served; BitVectorSlice `Less`.

   `Dump`'s statistics, ServeGet/ServeList, fileGet and the image filters stay out of
   scope: they are read-only or pure I/O, or they call code that is not in the sources.

## 3. Modules and correspondence to the code

### LSHIndex.tla

- Constants: `Capacity` (len(Page.items), 1023 in the code), `Hyperplane`,
  `Vectors`, `MaxAdds` and `SearchLimits`.
- `pages` is `Storage.pages`, and page number `n` is `pages[n+1]`. Each page is
  `[nitems, link, items]`, where `items` holds the first `nitems` array slots.
- `pagecap` is `cap(Storage.pages)`. `GrowCap` is Go's growth rule for an append to a
  full slice of 8192-byte elements: 0 -> 1, then doubling.
- `lookup` is `Indexer.lookup`.
- `added` is a history variable: the ids passed to `Add` per key. The caller numbers
  its ids 1, 2, ... The index treats ids as opaque, and unique ids let the properties
  name items.
- `Add(vec)` is `Indexer.Add` with the whole `Storage.Add` (and `allocatePage`) it
  calls. `StorageAdd` writes the tail's link only when the append did not move the
  array (`Len(ps) # cap`). This is what the Go code does through its stale `page`
  pointer.
- `Search` and `Dump` do not change state, so they are operators. `SearchResults` is
  the set of results over every drain order that the sort allows. `Drain` is the loop
  at part_000:84-107.

### AbstractIndex.tla

The promise of spec sections 3 and 4.4, stated as state and actions: the n-th `Add`
appends id n to its key's list.

### MC_LSHIndex.tla

This module instantiates LSHIndex. The two hyperplanes are (1,0) and (0,1), and the
four vectors are one per quadrant. So the bucket keys are 0..3, at mutual distances
0, 1 and 2: ties at distance 1 exist for every query. `Capacity = 2`, so overflow
pages occur after 2 items.

### BitVector.tla

- `size` and `bits` are the struct's fields; byte `j` is `bits[j+1]`.
- `written` is a history variable: the value last given to each bit by Scan, Set or
  Unset. The properties compare the bytes with it.
- `status` is "panic" after an index out of range (a Go panic ends the program) and
  "error" after a Scan of a bad character.
- `Init` is either `New(n)` for `n` in `Sizes` or `Scan(t)` for `t` in `Texts`. `New`
  allocates `n \div 8` bytes, as `size >> 3` does. `Set(i)` and `Unset(i)` range over
  valid indices `0..size-1`.
- String, Uint64, Hamming, BitVectorSlice.Less and their panic conditions are
  operators. `FirstDiff` is the first byte at which Less's loop stops.

`MC_BitVector.tla` gives sizes 0, 12 and 16, and texts with separators, a 12-bit
text, a text with an error character and one with a `1` in the last bit.

### Server.tla

- `meta[p]` is LevelDB's `path -> metadata`, reduced to the metadata's `ItemId` (or
  `NoKey`). `idpath` is the `ItemId.Key() -> path` keys, and `seqhint` is `sys.seq`.
- `idseq` is `Server.idseq`. `pc` and `req` are each handler goroutine's position in
  ServePost and its locals (path, `meta.ItemId`, `isnew`).
- `Receive` is ServeHTTP's dispatch plus the form parse (an early 400). `Read` is the
  `Db.Get` of the path; any error reads as a new item. `Acquire` is
  `idseqLock.Lock()`, and `locked` holds its holder. `NextItemId` is the loop under the
  lock as one step, ending with the deferred Unlock. No other handler touches `idseq`
  meanwhile, and a concurrent `Write` only commits ids below `idseq`. `HasFails` is a
  `Db.Has` error at any id the loop reaches (the taken ids before it already skipped):
  a panic after `idseq++`, recovered by net/http, with the deferred Unlock run. `Write` is the batch: all of it or none of it.
- `Restart` is the process dying and NewServer running again. The handlers in flight
  are lost; LevelDB is kept, and `idseq` is reloaded from the hint.
- `ReadErrors` switches on LevelDB read errors other than ErrNotFound (Get and Has).
  Write errors are always possible.

### AbstractServer.tla

- `store` is `path -> metadata` (the metadata's ItemId, or `NoKey`), and `index` is
  the `ItemId -> path` keys. One POST is one step. `Assign(p, id)` is a new item: a
  fresh id, stored for `p` and indexed to `p`, as in the batch of ServePost's `isnew`
  branch. `Update(p, id)` rewrites `p`'s metadata under an id the index already gives
  to `p`. Reads, failed batches, handler steps before the batch and restarts are
  stuttering steps.
- In Server, `Abs` instantiates it with `store <- meta`, `index <- idpath` and the ids
  `0..MaxPosts + 1`, which covers every id five POSTs can be given: `idseq` grows by
  one per `NextItemId` or `HasFails`, and a restart reloads it from an id already
  handed out. `AbstractServerSpec` is `Abs!Spec`, checked as a PROPERTY. It says more
  than the invariants: the index only grows, no id is ever rebound to another path,
  and a path's stored id changes only to a fresh id or to one indexed to that path.
  Without the `Has` check in NextItemId (mutant `FirstFreeNoCheck`), a restart with a
  stale hint rebinds a committed id and TLC reports the refinement violated.

### Expand.tla

- Strings are sequences of one-character strings. `LexLess` is Go's bytewise string
  comparison. `Unescape` is net/url's unescaping in path mode, or in query mode, where
  `+` becomes a space.
- `SelfURL` is `selfURL`, the simultaneous `?` -> `%3F`, `%` -> `%25` replacement.
  `ExtractTargetURL` is the greedy regular expression of `extractTargetURL`.
  `GetContent` is url.Parse followed by the switch on the scheme. `SelfGet` is
  `selfGet`: `./` stripping, the directory prefix, `http.NewRequest`'s parse, then
  `url.QueryUnescape`.
- `Log10Trunc`, `NPads`, `NFrames` and `Pad` are expand's `int(math.Log10(...))+1`,
  its loop bound and `%0<n>d`. A negative width is the `-` flag. `Log10Trunc` is an exact
  integer logarithm. Go's `Log10` is `Log(x) * (1/Ln10)`, with `1/Ln10` folded
  from exact constants. With a correctly rounded `Log`, that product is exactly k at
  10^k for k = 1..6, but Go's `Log` is not guaranteed to be correctly rounded. Runs
  reach only 10 s (k = 1). At larger powers of ten, a `Log` one ulp low would make
  the true width one less than `Log10Trunc` gives.
- `frames` is the set of keys written to LevelDB, each with its directory, video,
  second and the Expand call that wrote it. `nexp` counts Expand requests, and `resp`
  is the last status.
- `Expand(path, video)` is `Server.Expand` with the `expand` it calls. `Rejection` is
  its early returns (400, 400, 404). Then either the fetch, `OpenInput`, a `PutObject`
  or `Db.Write` fails (500, nothing written), or one batch writes a key per second of
  a video of some duration in `Durations` (200). A video is a source in `Videos` or a
  key an earlier expand wrote, so self URLs nest. Each key also records the
  duration expand read, which is the video it will be served from.

### ExpandFrame.tla

This module extends Expand with frame serving. GetApply is not in the sources. It is
the code that would call `frame(input, sec)` for a key's `?apply=frame&sec=i`.
`ServeFrame(f)` stands for it: it runs frame on the key's video, and `srv` records
the second, the duration and the result.

- The input is what libav demuxes. `VideoTs(d)` gives one video frame every
  `FrameStepMs`, each starting before the duration. `Packets(d)` follows each video
  packet with a packet of another stream, and every `KeyEvery`-th video frame is a
  keyframe. Timestamps are in milliseconds, as frame's `sec*1000` comparison takes
  them.
- `FrameResults` is frame. Each set-up call may fail: OpenInput, GetBestStream,
  SeekFrameAt, FindEncoder, cc.Open and ImgAlloc. `SeekStarts` is where
  `SeekFrameAt` may leave the stream: any keyframe at or before the second.
  `PacketLoop` is the loop at images.go:399-475, translated branch by branch. It
  covers end of stream, a packet of another stream, a failing GetStream or
  GetNextFrame, `Ready`, and a packet out of frames.
- frame reads only its input and shares nothing with other requests, so a request is
  one step. The loop is a recursive operator, checked against a set-based reference:
  the least timestamp at or after the second.

## 4. Runs

| Run | Expect | What it shows |
|---|---|---|
| `index_storage` (`MC_LSHIndex_storage.cfg`, MaxAdds 6, limits 1..7) | pass | Checks TypeOK, ChainsWellFormed, OnlyTailHasRoom, ItemsConserved and ChainsHoldOwnItems. These hold even with the lost link: the lost page is orphaned, never shared or mis-filed, and its loss is what `index_refines_abstract` reports. `SearchNearestTiers`: in every reached state, Search returns exactly the nearest whole tiers, in every tie order. |
| `index_search_limit_zero` (limit 0) | violation | Search returns the distance-0 tier at limit 0, because `lastdist` starts at 0. |
| `index_refines_abstract` (MaxAdds 6) | violation | `AbstractSpec` fails after 3 Adds to one bucket: id 3 is on a page that no chain links to (the stale `*Page` bug). |
| `bitvector_ops` (`MC_BitVector.cfg`) | pass | After any Scan/New and Set/Unset sequence: Get returns the last bit written, String round-trips through Scan, Hamming equals the count of differing bits, and Uint64 is the value of the first min(size, 32) bits. `LessIsTrichotomous`: of two vectors of one size with different bits, exactly one is `Less`, as sort.Sort needs. |
| `bitvector_panic` (size 12, text "1 1") | violation | `New(12)` allocates 1 byte, so in the initial state String, Uint64 and Hamming of the 12-bit vector already index past it and panic, and `Scan` of a 2-bit string allocates no byte and panics on its first `1`. |
| `bitvector_uint64_wide` (a 40-bit text) | violation | `Uint64` drops bit 32, contrary to its comment ("first 64 bits"). |
| `server_post` (`MC_Server.cfg`) | pass | With 2 handlers, 2 paths, 5 POSTs, 2 restarts and read/write errors: every stored id is indexed back to its path (`StoredIdsIndexed`), and no id is acknowledged to two new items (`AckedNewIdsDistinct`), although the hint goes backward. Under `FairSpec`, every request a handler takes up finishes (`RequestsComplete`): no path leaves `idseqLock` held. Without the deferred Unlock, a `Has` error would block every later new item. Every behaviour is one of AbstractServer (`AbstractServerSpec`), so no id is rebound to another path and the index only grows. |
| `server_same_path` (1 path) | violation | Two concurrent POSTs of one new path: the first client is acknowledged with id 1, and the path ends with id 2 (`AckedIdStable`). |
| `server_hint_error` | violation | A failed read of `sys.seq` at start: the first new item is acknowledged with id 0 (`NoZeroId`). |
| `expand_keys` (`MC_Expand.cfg`, 2 expands) | pass | Each expand's keys sort in second order for durations under 0.01 s, 0.5 s and 10 s (`FrameKeysOrdered`, the comment at images.go:292). `getContent` of every key's self URL gives back the expanded object, for a source and for a frame key of it (`SelfGetResolves`). Serving any stored key, frame returns the first video frame at or after its second, whatever keyframe the seek lands on. It answers end of stream only when there is no such frame (`FrameIsFirstAtOrAfter`). |
| `expand_nested_query` (`MC_Expand_nested.cfg`) | violation | A source with a query, expanded, and then one of its frame keys expanded: the second-level self URL resolves to a path with a raw `?`, not to the key. |
| `expand_last_second` (`MC_Expand_served.cfg`, no libav errors) | violation | A 10 s video gets keys for seconds 0..10. Serving second 10 finds no frame: `unexpected end of stream` (`KeysServed`). |

Bounds.

- **LSHIndex.** Six Adds into four buckets with 2-item pages cover first and second
  overflows of a bucket in both cases. The append moves the array at page counts 1, 2
  and 4, which loses the link. At page counts 3, 5, 6 and 7 the append does not move
  the array, and the link is kept. The search run uses 5 Adds and limits up to one
  more than the number of items, so "fewer items than limit" is covered too.
- **BitVector.** Size 12 is not byte-aligned, 16 spans two full bytes, and 0 is the
  empty vector. Every valid index is reachable by Set/Unset in any order.
- **Server.** Two handlers are enough for every pairwise interleaving of
  read/allocate/write. With 5 POSTs and 2 restarts, a hint written out of order is
  followed by a restart and then a new allocation.
- **Expand.** The durations 0.005 s, 0.5 s and 10 s give padding widths -1 (the `-`
  flag), 1 and 2. At 10 s the frame count reaches 11 together with the width.
  `Log10Trunc` also gives width 0 for durations from 0.01 s to just under 0.1 s.
  Two directories and a path without a trailing `/` reach every early return. Two expands reach the second level of nesting. A third
  expand breaks `SelfGetResolves` even for sources without a query (finding 7), so the
  passing run stops at two levels. Frames come once a second with a keyframe every
  two seconds, so the seek for an odd second lands on an earlier keyframe. The loop
  then passes over a frame and a packet of another stream before the ready one.
  Libav errors are on in the passing run and off in `expand_last_second`.

Deadlock checking is off everywhere. The index and BitVector are passive libraries, so
a caller may stop calling at any point. The server may stop receiving requests, so
every handler idle with the POST bound reached is a legitimate final state.

Fairness. The index, BitVector and Expand models have none: they are synchronous, or
one step per request. The server's `FairSpec` assumes two things. Each handler's
steps are weakly fair, because the Go scheduler eventually runs every runnable
goroutine. `Acquire` is strongly fair, because `sync.Mutex` enters starvation mode
after a waiter has waited 1 ms and then hands the lock to it. `Receive` and `Restart`
are the environment and get no fairness: clients may stop sending, and the process
need not restart.

## 5. Findings

1. **Lost overflow pages (code bug, part_000:162).** See `index_refines_abstract`. In
   the spec's own scenario (1025 inserts into one bucket), page 1 is allocated when
   `len == cap == 1`. The link from page 0 is lost, so Dump reports one page and 1023
   items. Every later insert into that bucket allocates another orphan page.
2. **Limit 0 (spec/code divergence, part_000:85).** See `index_search_limit_zero`.
3. **`New` undersizes the buffer (code bug, bitvector.go:15).** `size>>3` bytes, not
   `(size+7)>>3`. Any size that is not a multiple of 8 panics on its last bits, in
   Set, Scan, String and Hamming.
4. **Uint64 returns at most 32 bits (divergence, bitvector.go:96).** The comment says
   64.
5. **Same-path POST race (code bug, server.go:151).** See `server_same_path`. Nothing
   serialises read-allocate-write per path. Two ids are allocated, the first response's
   id is lost, and its `ItemId -> path` entry points at a path with another id.
6. **Hint read error gives id 0 (code bug, server.go:83).** See `server_hint_error`.
   Only ErrNotFound is handled. `ToItemId(nil) = 0`, `NextItemId` returns 0, the item
   is stored without `_id` (omitempty), and the next POST re-allocates.

7. **Self URLs are unescaped twice (spec/code divergence, client.go:87).** See
   `expand_nested_query`. The comment at client.go:95-100 says a self URL is used by
   splitting off the query and de-escaping the path. But `http.NewRequest` already
   decodes `r.URL.Path`, and `url.QueryUnescape` decodes it again (and turns `+` into
   a space). A key whose name holds `%3F` (a source with a query, at the second level)
   or `%253F` (any source, at the comment's third level) does not resolve back to
   itself.

8. **The last key of a whole-second video cannot be served (code bug,
   images.go:295).** See `expand_last_second`. expand's loop writes keys for seconds
   0..int(duration). A video of exactly 10 s has no frame starting at or after 10 s,
   so frame fails for the key `sec=10`, although expand stored it.

## 6. Not modelled

- Floating-point hashing of real vectors. Hyperplanes come from a generator that is not
  in the sources; small integer vectors exercise the same control.
- Dump's text and statistics.
- ServeGet and ServeList: they only read LevelDB and proxy a remote URL. ServeList
  goes on writing after its 500 (server.go:218). This is about the bytes of one
  response, and no state outlives it.
- Durations of zero or unknown (AV_NOPTS_VALUE) length: `int(math.Log10(NaN))` is
  implementation-defined in Go.
- Dump's mean and standard deviation divide by the number of buckets, which gives NaN
  on an empty index. This is float formatting, and no comment or test says what Dump
  should print then.
- The user metadata JSON. ServePost always stores valid JSON, so the "failed to parse
  json from db" branch is unreachable from this code.
- `idseq` wrapping to 0 after 2^64 ids.
- fileGet, the http fetch, the image filters, makeInputHandlers, and frame's pixel
  conversion and JPEG encoding: these are file, network and media I/O with no state.
  `PutObject` and `GetApply` are not in the sources. What frame decodes is abstracted
  to packets with timestamps.
- `Page.link` is an `int32`, so page numbers of 2^31 or more would truncate. This is
  unreachable at any bound TLC can explore.
- BitVector `SortFrom`/`ByHamming` (a Hamming comparison handed to sort.Sort; the
  index sorts through `bitvector.Sort(..).From`, not in this file) and `MustScan`.
