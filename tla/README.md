# A TLA+ verification of pg_tre

pg_tre is a PostgreSQL index access method for approximate regular-expression
search. An index holds, for every trigram hash, a posting of heap TIDs; a query
is turned into a trigram query, the index yields candidate TIDs and the executor
rechecks them. The index may therefore return too much but never too little,
and it must forget a TID before the heap reuses it. This directory models the
parts of the code that decide whether that is so while INSERTs, merges, VACUUM,
scans, errors and crashes interleave, and the algorithms the answer rests on: the trigram
query extracted from a pattern, the SuRF prefilter and the compressed bitmap postings are
stored in. Two further models follow a single backend: the ordered scan over a heap that
changes under it, and the cache of compiled patterns.

Paths are relative to the repository's `src/` (the C sources) unless they start with
`include/` or `test/`.

## Inventory

| Component | State | Operations | Hard part | Correct when |
|---|---|---|---|---|
| Pending list (`am/aminsert.c`, `pages/pending.c`) | `pending_head`, `pending_tail`, `pending_n_entries` in the metapage; a chain of pages of (trigram, TID) entries | append a batch; merge (snapshot a watermark, collect, rebuild, truncate) | appends run while a merge is between its watermark and its truncation; a merge can be cancelled or crash anywhere | no entry lost or duplicated by truncation, counter exact, chain whole |
| Merge lock | heavyweight page lock on the metapage | trylock (INSERT), lock (VACUUM) | VACUUM against a stream of INSERTs | merges and strips are serial; VACUUM is not starved |
| Base tree (`pages/upper.c`, `pages/posting.c`) | `root_upper`, upper pages, posting leaves, inline and coalesced postings | wholesale rebuild, in-place strip, unlink of emptied leaves | stale scanners | root swap and truncation in one WAL record; pages not reused under a scan |
| Run catalog (`pages/run_catalog.c`, `pages/pending.c`) | `run_catalog_head`, runs with levels | append a run, Hanoi merge, collapse | append, rewrite and free are separate records; runs that alias the base; the iterator holds no lock between pages | union of runs and base keeps its contents |
| Scan (`am/amscan.c`) | overlay of the pending list, one bitmap per trigram | overlay, then lookup per trigram; CNF, PIECES, DNF | nothing is locked from one page to the next | every row of the snapshot is a candidate |
| Ordered scan (`am/amscan.c`: `knn_build`, `amgettuple`) | `knn_entries` with distances, position, mark; the HOT root map of a page | build, next tuple, mark, restore, rescan | HOT chains grow, are pruned and reused between collecting a TID and fetching it | every row once, nearest first |
| VACUUM (`am/amvacuum.c`, `pages/posting.c`) | the dead TIDs, the sweep and drain positions | merge, strip, reap by the heap, compact, sweep, drain | runs against INSERT merges, and frees what scans may visit | no dead TID survives; pages come back |
| Page allocation (`pages/buffer.c`, `pages/free_log.c`) | FSM, free-log chain, deletion XIDs | extend, log, drain, collapse | FSM is not WAL-logged and races; called under metapage and tail locks | one owner per page; no deadlock; pages reclaimed |
| Metapage, TID packing (`pages/meta.c`, `include/pg_tre/page.h`) | versioned fields | read, set roots, pack, unpack | boundary values | round-trip, order kept |
| SuRF (`util/surf.c`, `pages/surf_page.c`) | a succinct trie of build-time trigrams, `surf_complete` | range test | stale after merges | never rejects a range that has entries |
| Query (`query/*.c`) | none | regex AST, required trigrams, tiles, neighbourhoods | rounding, overflow fallbacks | every match satisfies the trigram query |
| Pattern cache (`util/pattern_cache.c`, `module.c`) | 32 slots, LRU clock, pins; the global collation and match deadline | lookup, pin, release, match | re-entrance, errors | a pinned handle is never freed; a match has its own collation and a deadline |
| Build (`am/ambuild.c`) | tuplesort, parallel shared state | scan, sort, load | leader/worker hand-over | the built tree holds every live row |
| Coalesced pages (`pages/coalesced.c`) | slots on shared pages | add, read | skipped by VACUUM | as posting trees |
| Sparsemap (`util/sparsemap.c`) | a word array, or a stream of chunks (windows of bits, runs); capacity; the caller's cursor | add, bulk add, remove, set operations, readers, validate | every operation re-encodes its surroundings; out of room half-way; stale cursors | it is the set its caller made, and always valid |
| Planner support, options, SQL functions, upgrade, bloom | - | - | - | not modelled (see below) |

Components meet in three places. The **metapage** names every root; its buffer lock
orders appends, truncations, catalog and log updates, and readers copy it and then
follow what it named. The **merge lock** serialises everything that rewrites or strips
trees. The **snapshot horizon** (deletion XIDs against running snapshots) is all that
stands between a scan and the reuse of the pages it is about to read.

## Modules

```
IndexContents          what an index promises the heap: a set of entries
  ^ refined by
PendingList            aminsert, pending list, merge, VACUUM strip, scan, faults
  ^ extended by  PendingListProofs, and that by PendingContentsProofs  (theorems)
  ^ extended by  MCPendingList                                         (TLC instances)
RunStore               what the run catalog promises: entries in a base and in runs
  ^ refined by
RunCatalog             catalog pages, flush, Hanoi merge, collapse, run iterator, faults
  ^ extended by  RunCatalogProofs, MCRunCatalog
PostingChain           one posting: build, VACUUM leaf by leaf, scans along the chain
  ^ extended by  PostingChainProofs, MCPostingChain
PageReclaim            pg_tre_extend, free log, sweep, drain, page ownership, stale FSM
  ^ extended by  PageReclaimProofs, MCPageReclaim
Query                  pattern -> trigram query -> candidates; SuRF; a reference matcher
  ^ extended by  MCQuery
Sparsemap              the compressed bitmap, operation by operation
  ^ extended by  MCSparsemap
KnnScan                tuple-at-a-time scans, TID packing, a heap with HOT chains
  ^ extended by  KnnScanProofs, MCKnnScan
PatternCache           compiled patterns, pins, collation and deadline of one backend
  ^ extended by  PatternCacheProofs, MCPatternCache
Induction              induction on numbers, used by the proof modules
```

They fit together as assumption and guarantee. PendingList takes trees as sets of entries
and calls compaction one step (`Compact`); that the catalog's many steps amount to the
steps of RunStore is RunCatalog's refinement. It strips a posting in one step;
PostingChain shows what the pages do meanwhile, and what can stay behind (`Skips` in
PendingList). Both number pages as they are allocated; that a page is not reused while
a scan may still come by is PageReclaim's. Query takes the evaluation of a trigram query as
one step over exact postings: those of the list, the base and the runs, or for a DNF query of the
list and the base only, the two cases PendingList's scan has page by page. KnnScan starts from
any candidate set that lacks no matching row, `Sound` with nothing exempt. Everywhere a
sparsemap is a set of TIDs, which is what Sparsemap checks.

In the models of concurrent code one action is one critical section of the code: what happens under the
metapage or page buffer lock, or one generic WAL record. Everything between two such
sections interleaves with every other backend. Some definitions have an unused
neighbour with the same parameters directly above (`Rewind` and `RewindByCountOnly`,
`Reusable` and `AnyPage`, ...). These are faulty variants, what the code would do
with a plausible mistake; exchanging one for the definition below it makes TLC report
the property that `PROJECT.json` names for it, which shows that the property looks at that
line of the code.

### IndexContents

State: the heap's rows (`row`, `rowTrgs`) and `idx`, the set of (trigram, TID) entries a
reader can find. A row may commit only when all of its entries are in `idx`; entries may
leave only for dead rows; a line pointer may be reused only when no entry of it is left.

### PendingList

| State | Code |
|---|---|
| `row`, `rowTrgs` | the heap: line pointers unused, being inserted, live, dead to all |
| `pending_head`, `pending_tail`, `pending_n_entries` | metapage fields |
| `entries`, `next_page` | `PgTrePendingHeader.next_page` and the entries of each page |
| `base`, `runs`, `coalesced` | entries under `root_upper`; entries of the catalog runs; trigrams whose base posting is on a coalesced page |
| `freed` | blocks passed to `pg_tre_free_log_append` |
| `merge_lock`, `pc` and the locals | the heavyweight lock, and what each backend holds in local variables between critical sections |

| Actions | Code |
|---|---|
| `AmInsert`, `AppendPage`, `SkipMerge`, `TryLock`, `InsertMergeDone`, `EndXact` | `pg_tre_aminsert`, one iteration of `pg_tre_pending_append_batch`, `pg_tre_pending_maybe_merge`, the transaction's outcome |
| `MergeMeta`, `MergeWatermark`, `MergeWatermarkN`, `MergeCollect`, `MergeBuild`, `MergeAppendRun`, `FinalizeMerge`, `FreeConsumed`, `FreeWatermarkTail`, `SetRoots` | `pg_tre_pending_merge` in its order: metapage read, watermark (two locks), the walk, the rebuild or the pending-only run, catalog append, `finalize_merge` (root swap and truncation in one record), the free-log appends, the statistics write |
| `VacuumStart`, `MergeLock`, `VacuumMergeDone`, `StripPosting`, `StripDone`, `Reap`, `Compact` | `pg_tre_ambulkdelete`, the heap's second pass, `pg_tre_amvacuumcleanup` |
| `ScanStart`, `ScanOverlay`, `ScanOverlayDone`, `ScanLookup`, `ScanEnd` | `tre_compute_candidate_sm`: list first, page by page; then the roots again for each trigram |
| `Die`, `Cancel`, `Crash` | a row becomes dead to all; ERROR or cancel; server crash |

Abstractions. Trees are the sets of entries they hold; blocks are numbered in allocation
order (reuse is PageReclaim's subject); a position is not part of an entry. A crash
keeps every finished WAL record. Losing an unflushed suffix of the WAL gives the state of
a crash at an earlier moment, except for committed rows, whose commit flushed the WAL. The
rewind branch of `finalize_merge` subtracts `watermark_tail_n` from the page's count in
unsigned arithmetic; the count cannot have shrunk since only this merge, under the merge
lock, compacts pages.

### PageReclaim

| State | Code |
|---|---|
| `page`, `del_xid` | what a block looks like to `pg_tre_extend` and to the sweep: absent, blank, with contents, deleted leaf with its XID |
| `tree`, `pend`, `log` | blocks reachable from the roots, the pending chain, the free log's pages with their entries |
| `fsm`, `recorded` | the index FSM; every block it ever listed, which is what a stale copy can list |
| `meta_lock`, `held`, `merge_lock` | buffer locks that are held from one step to the next; the merge lock |
| `alloc`, `cand`, `buf` | locals of `pg_tre_extend` |
| `wm`, `old`, `new`, `batches`, `todo`, `batch_xid` | locals of a rebuild and of `pg_tre_free_log_append` |
| `task`, `blkno`, `nblocks`, `logat`, `kept` | VACUUM's phase, sweep and drain positions |
| `xmin`, `may` | a scan's snapshot, and every block it may still be led to |

| Actions | Code |
|---|---|
| `GetFree`, `MarkUsed`, `TryReuse`, `ExtendRel` | `pg_tre_extend_fork`: FSM search, FSM mark, conditional lock and re-validation, extension |
| `AppendStart`, `AppendLink` | a new pending tail, allocated with metapage and old tail locked |
| `MergeTryLock`, `BuildCall`, `BuildPage`, `FlushRun`, `Finalize` | a merge as pages: collect the old tree, write new pages, register a run, swap and truncate |
| `FreeBatch`, `LogChunk`, `LogExtend`, `LogNewPage`, `FreeDone` | `pg_tre_free_log_append` |
| `VacuumStart`, `Unlink`, `StripDone`, `Compact`, `SweepStart`, `SweepLock`, `SweepPage`, `SweepFree`, `SweepDone` | `posting_leaf_unlink`, Hanoi merge or collapse, `pg_tre_posting_recycle_deleted` |
| `DrainKeep`, `DrainReclaim`, `DrainFree`, `DrainNext`, `Collapse`, `CollapseFree`, `CleanupDone` | `pg_tre_free_log_drain` |
| `ScanStart`, `ScanRoot`, `ScanEnd`, `AssignXid`, `Error`, `Crash` | scans, XIDs, faults |

Abstractions. Contents of pages are left out; a rebuild passes an arbitrary proper subset
of the old tree's pages through to the new one. A scan's snapshot is taken when it
first reads the metapage, the latest possible moment and the one that protects least.
From then on `may` holds everything linked when it read the metapage, and grows with the
list. Several Hanoi passes of one cleanup are one compaction. Runs that alias the base
root (`tre_debug_append_run`) and the catalog's own pages are left to RunCatalog. `StaleFsm` is what the
FSM lists at the start although it is in use: a page that a crash before the start has brought
back, for the instances that have no crash of their own.

### RunStore and RunCatalog

RunStore has two variables, `base` and `runs`, and four steps: a flush adds one batch to the runs,
a rebuild adds one to the base, a collapse moves the runs into the base, a strip takes one TID out of
both. Nothing else may change what is stored, so an implementation loses no entry and brings back
none that was stripped. The mapping reads `base` as the tree under `root_upper` and `runs` as the
union of the trees of the catalog's runs.

| State | Code |
|---|---|
| `root_upper`, `run_catalog_head`, `n_runs`, `next_run_id`, `max_levels` | metapage fields |
| `cat` | catalog pages: right link and `PgTreRun` records (id, level, root, hash range) |
| `tree`, `logged` | the entries under every root ever built; roots whose pages were logged |
| `pc`, `picked`, `target`, `new_root`, `dropped` | the holder of the merge lock and its locals |
| `it`, `acc`, `must` | a scan's run iterator, its union so far, what it has to find |

| Actions | Code |
|---|---|
| `FlushRun`, `RebuildBase`, `FreeOldBase` | both targets of `pg_tre_pending_merge` |
| `BulkDelete` | `pg_tre_posting_bulk_delete` over base and runs (as one step; PostingChain has the pages) |
| `VacuumCleanup`, `HanoiPass`, `HanoiPromote`, `HanoiRewrite`, `HanoiLog`, `HanoiDone` | `pg_tre_hanoi_merge`: read at most a page's worth of runs, fold the shallowest over-full level, append the promoted run, rewrite the catalog, log the pages |
| `CollapseSkipped`, `CollapseFold`, `CollapseReset`, `CollapseLog` | the backstop, `pg_tre_collapse_runs` |
| `ScanOpen`, `ScanBase`, `ScanLoad`, `ScanExhausted`, `ScanRun`, `ScanFollow`, `ScanEnd` | `pg_tre_run_catalog_open`, `_next`, `_close` under `resolve_trigram_runs`; every run is a fresh visit to its page |
| `Crash` | between any two WAL records |

### PostingChain

| State | Code |
|---|---|
| `layout` | inline limit, coalescing limit, leaf budget (in runs of TIDs, the unit of `SmSize`) |
| `entry`, `leaf` | the upper leaf's entry; leaves with TIDs, right link and deleted flag |
| `held`, `pc`, `dead`, `prev`, `cur`, `next`, `remaining`, `n_removed`, `n_remaining` | buffer locks VACUUM holds and the locals of `posting_upper_walk`, `posting_tree_delete` |
| `at`, `blk`, `acc`, `must`, `before` | scans; histories |

| Actions | Code |
|---|---|
| `BulkDelete`, `InlineRepack`, `MigrateWrite`, `MigrateRepoint`, `InlineKept`, `CoalescedSkipped` | `posting_upper_walk`, `posting_leaf_inline_delete`, `repack_inline_posting`: in place, migrated out of line in two records, or kept |
| `ChainStart`, `LeafDelete`, `LeafUnlink`, `LeafAdvance`, `ChainEnd`, `BulkDeleteEnd` | `posting_tree_delete` under lock coupling, `posting_leaf_delete`, `posting_leaf_unlink` |
| `ScanLookup`, `ScanLeaf`, `ScanEnd`, `ScanClose` | the lookup and `pg_tre_posting_materialize`, one locked page after the other |
| `Crash` | |

The size of a posting is the number of its runs of consecutive TIDs: taking a TID out of
the inside of a run makes it larger, which is the growth the comments in `posting.c`
describe and the reason for migration and overflow. The payload (bloom signatures,
positions) is left out; it only makes leaves smaller.

### Query

State: the rows under the base root (`base`), those flushed to runs (`flushed`), those on the pending
list (`pending`), the SuRF with `surf_complete`, and the scan, which notes what its query did not
read (`unread`).

A text is a sequence of letters: 1, 2, 3 stand for a, b, c; 4 for the upper case of a; 5 for a
character between 0x80 and 0xFF; 6 for one beyond. A pattern is a syntax tree (`Lit`,
`Class`, `Cat`, `Alt`, `Rep`, `Anchor`, `Approx`), a LIKE pattern, or one the parser leaves
to the recheck.

| Definitions | Code |
|---|---|
| `FromLike`, `FromLiteral`, `Translate`, `Rescan` | `like_translate.c`, `pg_tre_amrescan`: operators, case folding, forced lossy scans |
| `AppendNode`, `Emit`, `Flush`, `Copies`, `EndsRun`, `Common`, `AddGroup`, `Conjuncts` | `lin_append_node`, `run_emit`, the accumulator with its caps |
| `OneRun`, `PiecesOf`, `PrefixKey`, `WithRange`, `ExtractQuery` | `try_build_run_pieces`, `extract_anchored_prefix_key`, `regex_extract_query` |
| `Linearize`, `TilePieces`, `Spine`, `TileSpine`, `Neighbours`, `Expand` | `tiling.c`, `uleven.c` |
| `SurfBuild`, `Rank`, `Select`, `SuccessorBelow`, `RangeOverlaps` | `surf.c`: the LOUDS trie and its searches |
| `Insert`, `Merge`, `Prefilter` | `aminsert`, the record that swaps roots and clears `surf_complete`, `pg_tre_surf_prefilter_rejects` |
| `Searched`, `Candidates`, `GetBitmap` | `tre_compute_candidate_sm` (a DNF query does not look into the runs), `pg_tre_amgetbitmap` |
| `Reach`, `Accepts` | external: what core's operators and TRE accept (match, substitute, insert, delete), the reference |

Abstractions. Hashes are injective (a collision adds candidates). A SuRF key is three
letters where the code has eight bytes. A neighbourhood with two edits always exceeds
the 4096 trigrams of its buffer, so `Expand` is exact for one edit and overflows for two.
The walk for an anchored prefix has a stack of 64 nodes that no pattern here fills. Bloom
tiers and positions, which filter further, are not in the model.

### Sparsemap

State: `map` (small or chunked, its chunks, its capacity in words), `cur` (the insertion
cursor) and `ref` (the set the caller made). Every action is one call: `Add`, `AddCursor`,
`Remove`, `AddMany`, `Union`, `Intersect`, `Subtract`, `Reopen`, `Clear`. The operators
under them follow the functions of `sparsemap.c`: the cursor and the walk (`Find`,
`CursorAfter`), separation of runs (`Separate`), coalescing (`CoalesceLeft`,
`CoalesceRight`, `CoalesceMap`), the moves between small and chunk form (`Promote`,
`TryDemote`), ENOSPC and the one retry (`OrGrow`), the emitter of bulk results
(`EmitRun`, `EmitWords`) and the merge walks of the set operations (`UnionWalk`,
`IntersectionWalk`, `DifferenceWalk`). Bits are sets of indices and a chunk is known by its
ordinal, so byte offsets, alignment and flag words are not in the model. Neither are the greatest
length and capacity of a run (`SM_CHUNK_RLE_MAX_LENGTH` and `_CAPACITY`, at `sparsemap.c:2102`,
2738, 2808 and 2907): they are 2^31 - 1, far beyond three windows.

### KnnScan

| State | Code |
|---|---|
| `heap`, `xid`, `idx` | external: line pointers with versions, HOT links and redirects; committed transactions; the TIDs the index stores |
| `packing` | `tid_packing` of the index |
| `pc`, `mode`, `snap` | phase of the scan (`knn_ready` is `pc = "ready"`), WHERE and ORDER BY of the query and whether it has trigrams, `xs_snapshot` |
| `todo`, `pin`, `vis` | the heap scan `knn_build` opens: pages to come, the pinned page, its visible tuples |
| `root_blkno`, `root_offsets`, `cand`, `entries` | locals of `knn_build` |
| `knn_pos`, `knn_markpos` | fields of `TreScanState` |
| `out`, `marked` | the executor: the rows it has, and how many it had at the mark |

| Actions | Code |
|---|---|
| `BeginScan`, `Rescan`, `EndScan` | `pg_tre_ambeginscan`, `pg_tre_amrescan`, `pg_tre_amendscan` |
| `BuildStart`, `GetPage`, `StreamTuple`, `PageDone`, `NextCandidate`, `BuildEnd`, `BuildError` | `knn_build`: the streamed heap with the root map, or candidates with `heap_fetch`; sort; a timeout or cancel |
| `GetTuple`, `MarkPos`, `RestrPos` | `pg_tre_amgettuple` with the executor's fetch and recheck, `pg_tre_ammarkpos`, `pg_tre_amrestrpos` |
| `HotUpdate`, `Update`, `Delete`, `Prune`, `Vacuum` | external: other sessions |

Abstractions. A transaction of another session is its commit; none is in progress when a
snapshot is taken. A text is a body, of which the query sees whether it satisfies WHERE
and its distance. A HOT update keeps the body, since the indexed column is unchanged. The
candidates are any set of stored TIDs with at least those whose body has the pattern; an
index the SuRF prefilter rejects is the empty one. Growing the entries array is left out.
The tuples of a pinned page are a set, taken in the order of their offsets. A HOT chain is the
least set of offsets that is closed under the links of its page, and `qsort` puts each entry
at the place given by how many compare lower; both say what the C code computes by a loop, in a
form that can be proved about.

### PatternCache

State: `cache_slots` and `cache_clock`; `mem`, what is compiled at each address (an address may be
given out again after it is freed, which is what makes a premature free visible); `stack`, the
ordered scans of the backend, each nested in the loop of the one below; `pgt_collation`,
`arm_depth` and `deadline` (whether the hook is installed). `Lookup` and `Release` are `tre_cache_lookup_internal` and
`tre_cache_release`. `Udf` is a matching SQL function, `CompileError` a lookup that raises, and
`KnnPin`, `KnnErrorBeforeTry`, `KnnTry`, `KnnArm`, `KnnMatch`, `KnnFinally` are the steps of
`knn_build`. Where other code can run follows the comments at `am/amscan.c:1447` (the loop
re-enters the backend) and `module.c:564` (nothing runs between setting the collation and the
match). For each scan and each SQL function the match timeout may be on or off (`Timeouts`):
`Armed` and `Disarmed` are the depth after `pg_tre_arm_match_deadline`, which returns early when it
is off, and `pg_tre_disarm_match_deadline`, which does not. How far a nested arm tightens the time is
left out, and so is running out of memory inside the lookup. History variables: `matched`
(collation of the last match's pattern and the one in force), `lost` (pins of scans that failed before
their `PG_TRY`), `armed` (the scans that armed with the timeout on) and `stray` (a disarm has lowered
the depth for a call that had not raised it).

## Runs

| Run | Checks | Bounds | Shows |
|---|---|---|---|
| `pending_merge` | `TypeOK`, `NoLostEntry`, `NoGhostEntry`, `CounterExact`, `FreedUnlinked`, `ChainIntact`, `RefinesContents` | 2 trigrams, 2 TIDs, 2 inserters and VACUUM, pages of 3 entries, batches of 2, 2 blocks, 1 fault, rebuild merges | the list, the merge and VACUUM keep the contract of an index |
| `pending_scan` | `NoMissedRow`, `VacuumFinishes` | 1 trigram, a built row and inserted ones, 1 inserter whose INSERTs never end and all exceed the limit, VACUUM, 1 scan, pages of 1 entry, 2 blocks at a time, no fault, both merge targets, coalesced postings | overlay first, trees afterwards, is enough without locks; INSERTs do not starve VACUUM |
| `page_reclaim` | `TypeOK`, `ScanSafe`, `OneOwner`, `LogSound` | 4 blocks, 1 inserter, VACUUM, 1 scan, 2 XIDs, log pages of 2, both merge targets, 1 fault | pages change owner only when nobody can visit them |
| `page_reclaim_liveness` | `AllocFinishes`, `EventuallyReclaimed` | 5 blocks, a tree of 2 pages, 1 inserter, VACUUM, 1 scan, 2 XIDs, log pages of 1 entry (so the log has several pages), 2 pending pages, an FSM that offers a page in use, no fault | no self-deadlock in allocation; what is logged and what is deleted comes back although a snapshot holds it up |
| `run_catalog` | `TypeOK`, `ScanComplete`, `LoggedUnreachable`, `CountExact`, `NoTreeForgotten`, `RefinesRunStore` | 2 trigrams, 2 TIDs, catalog pages of 3 runs, 1 or 3 levels, 1 run that aliases the base, 2 runs before a flush, 4 trees, 1 scan, 1 crash | compaction is invisible to the contents and to scans, and keeps track of every tree |
| `posting_chain` | `TypeOK`, `ScanComplete`, `OnlyOverflowKeepsDead`, `StatsExact`, `EmptiedLeavesGo` | every posting over 5 TIDs, every set of dead TIDs, 3 layouts (chains of up to three leaves; inline postings that migrate; coalesced ones), 1 scan, 1 crash, repeated VACUUMs | a strip loses nothing under a scan and leaves only what it must |
| `sparsemap` | `Agrees`, `Valid`, `ReadersAgree` | vectors of 2 bits, 3 per window, 3 windows, small maps of 2 words, 5 points, 3 operands, capacities to 12 words at the start of a call | the bitmap is the set, in every reachable encoding, but for one removal |
| `query` | `Sound`, `SurfExact`, `SurfCovers` | 49 queries, about 1000 texts (and three smaller tables), 2 late rows, both kinds of encoding, fanout 2 and 64, both merge targets | the filter never loses a match it looks at (a DNF query does not look into runs) |
| `query_pieces` | `PiecesSound`, violated | 3 patterns that repeat a class, 1 row | finding 1 |
| `knn_scan` | `NoRowLost`, `EachRowOnce`, `PublishedOrder` | 2 pages of 3 line pointers, dense packing, 2 transactions after the load, every kind of query | a scan returns the answer, in order, while the heap changes |
| `knn_hot` | `ExecutorSkipsToo`, violated | ORDER BY over candidates | finding 2 |
| `pattern_cache` | `PinnedHandleLive`, `PinsCounted`, `MatchCollation`, `DeadlineCovers`, `LeaksOnlyWhenAllPinned` | 2 slots, 2 patterns under 2 collations and 1 that does not compile, 4 addresses, 3 nested scans, 4 ticks of the clock, 1 lost pin per handle, match timeout on or off | nested users of the cache and its globals do not disturb each other, but for a nested call without a timeout |

Why the bounds are enough. The pending-list hazards are orders of at most one merge, the
appends that overtake it and one VACUUM: two inserters give a merging one and an
overtaking one; pages of three entries with batches of two make a batch fill a page and go
on to a new one; two blocks give a watermark page and a page behind it. Merging,
stripping and looking up treat every (trigram, TID) pair by itself, so a second trigram is
needed only where pairs of one row are told apart (a row half appended, a strip half
done), and it is there in `pending_merge`. That run rebuilds the base in every merge; the window after
a flush to a run is `pending_scan`'s, and for `NoLostEntry` and `RefinesContents` the theorems', which
hold for both targets and any number of faults.

Starvation needs INSERTs that never end, and an instance has few TIDs and blocks.
`MCPendingList!StreamSpec` adds two steps that no backend takes: `Recycle` renumbers the blocks
once those before the head are out of every scan's reach, `Forget` gives out again the TID of a
row that is in the trees only and in no snapshot. Both wait until nobody merges. They only add
behaviours, so `NoMissedRow` holds all the more without them. With a trylock that does not defer to
the waiter (`LockIsFree`) TLC finds the behaviour in which INSERTs take the lock for ever and VACUUM
never does. How far INSERTs get ahead during one merge is bounded: one page of one entry. The run
has no fault; that `NoMissedRow` holds with any number of them is a theorem.

For reclaim the shortest life of a page is
allocate, link, unlink, log, age, drain, reallocate; four blocks and two XIDs let it
happen while a scan from before the unlink is alive; with five blocks the same
properties were checked once (13.5 million states). In `page_reclaim_liveness` a tree of two pages
has a leaf to unlink, the scan's snapshot makes the drain and the sweep pass entries over, on either
of two log pages, and `StaleFsm` offers a backend the page that it holds locked; with a waiting lock
(`WaitForLock`) or a drain of the head page only (`DrainHeadOnly`) the properties fail. TLC takes two
states of this run as one if they differ in nothing but the history variable `may` and in `recorded`,
which only a crash reads (`VIEW WithoutHistory`). `page_reclaim` and its liveness
counterpart do not check deadlock, because the bounded file of a model can be used up
while a real one is extended; the PendingList runs check it.

In `run_catalog` three trees beside the base are enough for a flush, a promotion and a
collapse in one behaviour, and the aliased run makes a level over-full with two flushes; a
crash between append and rewrite then leaves a catalog page to be chained. In
`posting_chain` five TIDs give every pattern of runs and gaps over up to three leaves, among
them two neighbouring leaves emptied by one VACUUM. The caps of `query` (`CLASS_EXPAND_MAX`,
`OR_ALTS_MAX`, ...) are set so low that some queries stay within each of them and some go
beyond it; the table holds every text over two letters to length seven, so that a filter that
demands a window some match lacks meets that match. In `sparsemap` the points and operands
touch the edges of vectors, windows and the small form; a buffer of four words is exhausted
within two calls, so ENOSPC and the retry happen everywhere.

In `knn_scan` two pages make a root map of the page before stale, and two transactions give a
chain of three versions, its pruning to a redirect, or a line pointer that is vacuumed and
reused before the executor comes to it; on one page of four line pointers with a third
transaction and the legacy packing, `NoRowLost` and `EachRowOnce` were checked once (1.8
million states). In `pattern_cache` two slots are exhausted by two pins, so eviction, an
uncached handle and its release all happen, with a reused address.

Every action fires in the passing runs, and each bound (`MaxBlocks`, `MaxFaults`,
`MaxXid`, `MaxPending`, `MaxBuilt`, `MaxRuns`, `MaxRoots`, `MaxCap`, `MaxDepth`, `MaxClock`,
`MaxLost`) is a guard of the action it limits.

### Fairness

`PendingList!Fairness` is weak fairness of each backend's steps and of a running
VACUUM: the operating system schedules them, and no step of theirs waits for anything but
locks. Statements, VACUUM runs and faults are not fair. VACUUM's blocking lock request
gets weak fairness only: it is enough because the lock manager queues the request and a
conditional request behind a conflicting waiter is refused (`CanTryLock`), so the lock
stays free once it is released. In PageReclaim the queue is not modelled and the same fact is
stated as strong fairness of `VacuumStart("cleanup")`; autovacuum is assumed to keep
coming, transactions to start (`AssignXid`) and scans to end.

## Properties

* `NoLostEntry` and `RefinesContents`: entries of live rows and of running INSERTs are
  always findable, and the list, merge, runs and VACUUM together implement IndexContents.
* `NoMissedRow`: a finished candidate computation has every row of its snapshot.
* `NoGhostEntry`: a dead TID does not outlive its heap tuple.
* `CounterExact`, `ChainIntact`, `FreedUnlinked`: the list's metadata describes the list.
* `ScanSafe`, `OneOwner`, `LogSound`: a page is blanked only when no scan can be led to
  it, belongs to one structure, and is logged once and only when out of use.
* `RefinesRunStore`, `CountExact`, `LoggedUnreachable`, `NoTreeForgotten`: folding runs moves
  entries and nothing else, its counter is exact, no page of a reachable tree is freed, and
  (until a crash) every unreachable tree is freed, shared ones by the last that drops them.
* `ScanComplete` (RunCatalog and PostingChain): a scan finds what was stored when it began,
  run by run and leaf by leaf, though it holds no lock on its way.
* `OnlyOverflowKeepsDead`, `StatsExact`, `EmptiedLeavesGo`: what a strip leaves behind, and
  what it says it did, coalesced postings excepted.
* `Sound`: no row the operator accepts is filtered away, but for rows in runs a DNF query does
  not read. `SurfExact`, `SurfCovers`: the
  prefilter's search is exact, and is trusted only while it covers the trees.
* `Agrees`, `Valid`, `ReadersAgree`: the bitmap is the set its caller made (one removal excepted,
  see Findings), passes `sm_validate`, and every reader says so.
* `NoRowLost`, `EachRowOnce`, `PublishedOrder`: a scan by tuples returns the answer of its
  snapshot, once, in the order it publishes.
* `PinnedHandleLive`, `PinsCounted`, `LeaksOnlyWhenAllPinned`: handles in use stay, pins balance,
  and memory is lost only where the code says so. `MatchCollation`, `DeadlineCovers`: the
  collation belongs to the match that runs; a deadline ends with the scans that armed one and
  lasts as long, unless a nested call ran without a timeout.
* `VacuumFinishes`, `AllocFinishes`, `EventuallyReclaimed`: progress.

## Findings

With a run that shows the violation:

1. **Pieces of a repeated class lose rows** (`query/extract.c:803`, run `query_pieces`). A
   repetition of a class is inlined at most twice and the run goes on behind it, so for
   `a[bc]{3}d`, `a[bc]{2,}d` or `a([bc]d)+e` the pieces join what follows to the second (or
   only) copy, and rows with more copies satisfy no piece. The comment above says the run
   "is the entire required substring and PIECES is sound".
2. **Ordered scans lose HOT-updated rows** (`am/amscan.c:1658`, run `knn_hot`). Over
   candidates `knn_build` looks at exactly the stored TID, the root of the chain; once the
   root version is dead to the snapshot the row is dropped, although "the executor would
   skip too" (line 1662) is not so: it follows the chain. The streamed path translates to
   roots and is right.

Shown by a passing run's property under other constants:

* **Edit-distance scans ignore runs** (`am/amscan.c:1021`). The DNF branch looks under
  `root_upper` only; with `pg_tre.flush_to_run` rows in a run are missed although
  `pages/pending.c:1428` says the scan unions all runs. `PendingScan.cfg` with
  `QueryModes = {"dnf"}` violates `NoMissedRow`; in `query`, `Sound` without `scan.unread` is
  violated by a row that was flushed before an edit-distance scan.
* **A catalog of more than one page loses runs** (`pages/pending.c:1935`). The Hanoi merge
  reads one page's worth of runs and rewrites the catalog from them; the comment at line
  1859 says all other levels stay untouched. `RunCatalog.cfg` with `CatalogCap = 2` and
  `MaxRuns = 3` violates `NoTreeForgotten` and `RefinesRunStore`.

The passing runs leave the settings behind these out of the property they break:
`NoMissedRow` is checked with CNF, `Sound` exempts what a DNF query does not read, the `query` run
repeats a class at most twice, in
`run_catalog` the catalog outgrows one page only when a crash leaves folded runs in it, and
`NoRowLost` leaves out the heap-only rows of an ORDER BY over candidates.

Noted on the way, without a run of their own:

* Rows without a distance are not returned by an ordered scan at all. The comment at
  `am/amscan.c:1804` says ASC NULLS LAST is preserved by leaving them out because a LIMIT
  never reaches them; without a LIMIT, or with a larger one, they are missing, while
  `README.md:479` says they sort to the bottom. `NoRowLost` asks for ranked rows only.
* A pin can be lost: between the pinned lookup (`am/amscan.c:1466`) and `PG_TRY` (line 1490) an
  error leaves the slot pinned for the session, although the comment at line 1482 says the pin
  is released on every exit. `PinsCounted` counts such pins in `lost`.
* `ambulkdelete` skips coalesced postings (`pages/posting.c:2284`), so with
  `coalesce_enable` the index still holds a TID whose line pointer the heap reuses;
  `NoGhostEntry` is checked without them and `OnlyOverflowKeepsDead` exempts them. Their TIDs
  are not counted either: `am/amvacuum.c:92` calls the count "the authoritative exact live-tuple
  count" and `pages/posting.c:2193` says "num_index_tuples is now exact", but an index with
  coalesced postings reports fewer tuples than it has. `StatsExact` exempts them.
* A nested call can take the deadline of an ordered scan down. `pg_tre_arm_match_deadline` returns at
  `module.c:306` without raising the depth when `pg_tre.match_timeout_ms` is 0, and the disarm
  (`module.c:325`) lowers it for every caller. A matching function that the loop of an ordered scan
  re-enters and that runs with the timeout set to 0 leaves the rest of the loop without a deadline,
  although the comment at `module.c:296` says that nested arms keep the outermost hook installed.
  `DeadlineCovers` exempts the scans around such a call (`stray`); without the exemption it is
  violated.
* The comment at `am/amvacuum.c:149` says each VACUUM merges at most one over-capacity level;
  `pg_tre_hanoi_merge` makes up to 64 passes (`pages/pending.c:1917`).
* The free log's chain never shrinks past two pages: no code moves an empty page behind
  the head to it (comment at `pages/free_log.c:569`).
* A free block that `pg_tre_extend` skips because its buffer is held is not recorded again
  (comment at `pages/buffer.c:76`): the sweep looks at deleted leaves, the drain at logged
  blocks.
* `sm_remove` of the last bit of a chunk coalesces the chunk that moved into its place with
  the old start (`util/sparsemap.c:5013`): removing 3000 from {0..2047, 3000, 4096..6143}
  leaves {0..4095}. pg_tre never calls it. `Agrees` exempts that step, and of the removals that
  empty a chunk only those that coalesce from the old start (`MergesFromStaleStart`): `ref` follows
  the map there. Without the exemption `Agrees` is violated.
* `include/pg_tre/run_catalog.h:45` promises runs newest first; pages are, records on a page
  are oldest first. No caller depends on it.
* `pages/posting.c:967` reads the link after the release; only the planner's estimate does.
  The comment at `pages/posting.c:1909` says an emptied leaf stays linked; it is unlinked.

## Proofs

Every theorem is checked by TLAPS, for every value of the constants that satisfies the named
assumptions of its component's module: any number of backends, scans, trigrams, TIDs, pages,
slots, page capacities and faults. The assumptions say that numbers are numbers, that
the capacities are positive and that the names of different things differ; TLC evaluates them
in the runs. The one that is more than that is `LevelCaps \subseteq 1 .. 19` in RunCatalog: the
code writes `max_levels` 7 and clamps its shift from level 20 on.

| Module | Theorem | States |
|---|---|---|
| PendingListProofs | `Inductive`, `TypeCorrect` | `Spec => []IInv`, `[]TypeOK` |
| | `NothingLost` | `Spec => []NoLostEntry` |
| | `NothingFreedIsLinked` | `Spec => []FreedUnlinked` |
| | `ListNeverBroken` | `Spec => []ChainIntact` |
| PendingContentsProofs | `CounterCounts` | `Spec => []CounterExact` |
| | `NoGhosts` | `Spec => []NoGhostEntry`, if `~Coalesce` and `~RepackOverflow` |
| | `ImplementsContents` | `Spec => RefinesContents`, under the same conditions |
| | `ScansComplete` | `Spec => []NoMissedRow`, if DNF queries and flushes to a run are not mixed |
| PageReclaimProofs | `Inductive`, `TypeCorrect` | `Spec => []IInv`, `[]TypeOK` |
| | `ScansSafe`, `OwnersUnique`, `LogsSound` | `Spec => []ScanSafe`, `[]OneOwner`, `[]LogSound` |
| RunCatalogProofs | `Inductive`, `TypeCorrect` | `Spec => []IInv`, `[]TypeOK` |
| | `ScansComplete` | `Spec => []ScanComplete` |
| | `LoggedPagesUnreachable`, `CountsExact` | `Spec => []LoggedUnreachable`, `[]CountExact` |
| | `TreesAccounted`, `KeepsEveryEntry` | `Spec /\ []Fits => []NoTreeForgotten`, `=> RefinesRunStore` |
| | `CatalogFits`, `KeepsWhatFits` | `[]Fits`, and so both, from the bounds of a model |
| PostingChainProofs | `ChainInvariant`, `TypeCorrect` | `Spec => []IInv`, `[]TypeOK` |
| | `ScansMissNothing` | `Spec => []ScanComplete` |
| | `DeadKeptOnlyOnOverflow`, `StatisticsExact` | `Spec => []OnlyOverflowKeepsDead`, `[]StatsExact` |
| | `NoEmptyLeafLinked` | `Spec => []EmptiedLeavesGo` |
| PatternCacheProofs | `Inductive`, `TypeCorrect` | `Spec => []IInv`, `[]TypeOK` |
| | `HandlesLive`, `PinsBalance` | `Spec => []PinnedHandleLive`, `[]PinsCounted` |
| | `MatchesUnderOwnCollation`, `DeadlineArmed` | `Spec => []MatchCollation`, `[]DeadlineCovers` |
| | `LeakBounded` | `Spec => LeaksOnlyWhenAllPinned` |
| KnnScanProofs | `KnnInductive`, `KnnTypeOK` | `Spec => []IInv`, `[]TypeOK` |
| | `KnnNoRowLost`, `KnnEachRowOnce` | `Spec => []NoRowLost`, `[]EachRowOnce` |
| | `KnnPublishedOrder` | `Spec => []PublishedOrder` |

Each `IInv` was an invariant of a TLC run before it was proved.

### Conditions of the theorems

Five theorems have a hypothesis beside `Spec`, and each one is where the code itself stops
short. Without it TLC has a counterexample (see Findings).

* `~Coalesce`, `~RepackOverflow`: `pg_tre_posting_bulk_delete` skips coalesced postings and
  leaves a leaf alone whose survivors would overflow it, so a dead TID may stay.
* `"dnf" \notin QueryModes \/ TRUE \notin FlushModes`: the DNF branch of the scan looks under
  `root_upper` only.
* `Fits`: at the start of a pass of the Hanoi merge the runs fit on one catalog page
  (`RUN_CATALOG_CAP` records). A pass reads at most a page's worth of runs and writes the catalog anew
  from them. `CatalogFits` derives it: if a flush and the debug function leave at most
  `N` runs, and `N + MaxFaults <= CatalogCap`, then `[]Fits`; each crash between an append and
  its rewrite leaves one run more. The run `run_catalog` satisfies this with `N = 2`.
  `ScanComplete`, `CountExact` and `LoggedUnreachable` need no such bound: a run that a
  rewrite loses stays on the pages a scan walks.

Five properties carry an exemption in their formula, and so do the theorems about them:
`StatsExact` and `OnlyOverflowKeepsDead` speak of postings that are not coalesced, `NoTreeForgotten`
of histories without a crash, `DeadlineCovers` (second half) of scans without a nested call that ran
with the timeout off, and `NoRowLost` of rows that are not heap-only when an ORDER BY runs over
candidates.

### The invariants

**PendingList.** `NoLostEntry` is not inductive: it says nothing of a merge in flight, and
`FinalizeMerge` replaces the base and cuts the list on the strength of local variables
read many steps before. `IInv` adds what makes those locals trustworthy:

* `LockInv`: a backend between `meta` and the unlock holds the merge lock, so at most
  one merge or strip is in progress and the base it read is the base it replaces;
* `ListInv`: the shape of the list (this gives `ChainIntact`);
* `InsertInv`, `ReapInv`: an INSERT owns the row it inserts and has something left to
  append only while appending; the TIDs being reaped are dead and stay so;
* `LocalsInv`, `MergeInv`: by phase of the merge, the base is the one it read, the watermark
  page is on the list and has not shrunk below the watermark, everything below the
  walk's position is in `got`, `consumed` is exactly the list below it, and `new_root` is the
  base with `got` folded in (or the base alone, with `got` in `runs`);
* `FreeInv`: freed blocks, and those about to be freed, are off the list for good;
* `ScanInv`: a scan's position is an allocated block.

With these the truncation is safe: what `FinalizeMerge` cuts off is contained in
`got`, and `got` is in the new base or in the runs. The proof groups the actions by what
they may disturb (the list, the trees, the rows, one backend's locals) and has a lemma for
each conjunct of `IInv` over those groups.

PendingContentsProofs adds two strengthenings to it. `GhostInv` follows the entries of the
rows VACUUM will reap: all of them are below its watermark, then in what its merge collected,
then only in the trees, then only under trigrams still to be stripped, then nowhere. No other
merge can bring one back, because the merge lock is held and what a merge has in `got` is on the
list. `ScanKeeps` says of every entry that a scan owes its snapshot: it is found, or under a
trigram still to be looked up and in a tree, or on a page of the list ahead. It holds because
entries move in one direction only, from the list to the trees, and the scan goes the same
way. `CounterExact` is a bijection: the counter is the cardinality of the set of slots
(page, position) on the list, and an append or a truncation adds or removes a set of slots of a
known size.

**PageReclaim.** `ScanSafe` needs to know why a page is not reused, `OneOwner` why it is
not handed out twice. `LinkInv`: what the trees, the list or the log use, and what the
log lists, is live, and `pg_tre_extend` takes blank pages only, whatever a stale FSM offers.
`AllocInv`: the page an allocation ends with is blank and locked by that backend, so two
backends that were offered the same block end with one. `OwnInv`, `BuildInv`, `LockInv`: the
pages that a merge has built, or has cut off and not logged yet, are in no structure and not
listed, and the tree it replaces is the one it read. `SnapInv`: a page a scan can be led to is
live, or deleted or logged at an XID at or after the scan's xmin; that is what the sweep and the
drain compare with the horizon. `VacuumInv`, `FileInv`, `KnownInv` keep positions and
remembered blocks inside the file.

**RunCatalog.** Old catalog pages are never written or unlinked, which is what makes an iterator
without locks safe: `ScanInv` says that what a scan has to find is in what it collected, in the rest of its
page, or in the runs its next page leads to (`RunsFrom`, a recursive function over the
links). `FoldInv`, `PromoteInv`, `NewInv`, `DropInv`, `CollapseInv` say, phase by phase, that
the writer's locals still describe the catalog, that the new tree is the union of those it replaces,
and that what will be logged is reached from nowhere once the catalog is switched; the
aliases of the base root and a crash at any point are covered. `PagesInv` has the hash
ranges, without which skipping a run by its range would be unjustified, and `CountInv` the counter.
For `RefinesRunStore` every step is shown to be a step of RunStore or to leave base and runs as they
are, with `FullInv` (a pass has read every run), which is where `Fits` comes in. `NoTreeForgotten`
rests on it too: a rewrite drops exactly the folded level, and a root of that level that is not
logged is the base's or that of a run which stays.

**PostingChain.** `ScanInv` says that what a scan has to find is in what it collected or on the
leaves its copied link leads to. It is kept because `LeafDelete` changes no link, and because
`LeafUnlink` changes what a block leads to by an empty leaf only (`LinkedCut`, by induction along
the links), whether the scan comes over the predecessor or stands on the unlinked leaf. The
proof uses that each access to a page is atomic, not that the predecessor stays locked between
two leaves. `WalkInv` ties `prev`, `cur` and `next` to the chain; `LiveInv` (a TID is on
one leaf of the chain) is what makes the per-leaf counts add up to `StatsExact`; `PassedInv`
says that the leaves above `cur` are clean, which at the end of the chain is
`OnlyOverflowKeepsDead` and `EmptiedLeavesGo`. That a build starts with such a chain is
`SlicesCut`: the slices of `leaf_fill_count` are disjoint and each fits its page.

**PatternCache.** `CachedLive`, `CachedOnce`: a cached handle is allocated, in one slot, and
compiled for the slot's key. `UncachedOwned`: a handle in no slot belongs to one scan, so its
release frees nothing another scan uses. `LostLive`: what a failed scan left pinned is never freed.
`Nesting`: only the innermost scan can be outside its loop. The depth is at most the number of scans
that armed, and equal to it until a stray disarm, which gives `DeadlineCovers`. `JustPinned` is for the leak: a scan that has just got an uncached handle still sees
every slot pinned.

**KnnScan.** Between the step that collects a TID and the one that fetches it, other sessions
may update, prune, vacuum and reuse any line of the heap. `HeapOK` is why that is harmless: a
link leads to the heap-only version that replaces its line and begins where that one ends
(`Links`), so a snapshot sees at most one version of a chain (`OneVisible`), and every version
is on the chain of exactly one root (`Rooted`). For each step of another session a lemma about
the heap before and after it (`PlainHeap`, `HotHeap`, `PruneHeap`) shows that this is kept
and that from every TID the scan's snapshot finds what it found before; pruning needs its horizon
not to be past the snapshot. `IndexOK` says that the index has the root of every chain, with the body
its versions share, so the candidates reach every row. On the scan's side `EntryInv` says that no TID
is collected twice and that a distance is that of the version found from it, `CoverInv` that
a row owed is collected or still to come, `StreamInv` that the root map, once loaded for a
page, stays right although the page changes (a root keeps its line pointer while a version of
its chain is visible), and `OutInv` ties the rows to the entries up to the position and up to the
mark. `RankFacts` shows that the ranks of entries with distinct TIDs are 0 to n - 1, which
makes the sort a permutation.

The theorems need nothing beside `Spec` and the assumptions on the constants: offsets fit 16
bits, each query has a WHERE or an ORDER BY, a distance is a number or NULL. `NoRowLost` leaves
out the HOT-updated rows of an ORDER BY over candidates, which the code does lose (see Findings).

### Recursion

The library's induction theorems take an operator as a parameter, which the provers cannot
instantiate. `Induction` states induction for sets of numbers instead (a set that holds 0,
and n + 1 with n, holds every number), derived from the well-foundedness of `<`. The recursive
functions of RunCatalog (`RunsFrom`, `Select`, `Pow2`) and of PostingChain (`Linked`, `Slices`)
are first shown to exist and to satisfy their equations that way, and then reasoned about by
the same induction.

### Only model-checked

* Liveness: `VacuumFinishes`, `AllocFinishes`, `EventuallyReclaimed`. It needs fairness and
  ENABLED, which are outside this prover's reach.
* Query and Sparsemap: recursive operators over syntax trees and chunk sequences, checked against
  reference definitions over bounded inputs.

## Not modelled, and why

Planner estimates and options (`am/amcost.c`, `am/sel.c`, `am/amoptions.c`) have no
correctness property; type I/O, registration and format upgrade (`module.c`, `util/type_pattern.c`,
`util/upgrade.c`) are straight-line;
hashing and bloom filters are bit-level and taken as injective or sound. The tokenizer and
the grammar of patterns (`query/tokens.c`, `query/parser.c`) are left out: a query is a
syntax tree. Of the sparsemap, `select`, `rank`, `xor`, `split`, `offset`, ranges, hashing and
serialisation are not modelled, because the index does not use them. The parallel build and the
descent of the upper tree are in the plan.

## Plan

1. Proofs: `Valid` of Sparsemap, if its recursive operators are written as functions.
2. `ParallelBuild` (leader and workers), `UpperTree` (bulk load and descent by key order).
