----------------------------- MODULE PendingList -----------------------------
(***************************************************************************)
(* The pending list of a pg_tre index and everything that moves entries    *)
(* into, through and out of it: aminsert appends (trigram, TID) entries to *)
(* a linked list of pages, a merge drains the prefix of the list below a   *)
(* watermark into the base posting tree (or into a catalog run when        *)
(* pg_tre.flush_to_run is on), VACUUM strips dead TIDs from the trees, and *)
(* scans union the list with the trees.                                    *)
(*                                                                         *)
(* One action is one critical section of the code: what it does while it   *)
(* holds the metapage buffer lock, and what one generic WAL record makes   *)
(* durable.  Everything between two such sections can interleave.          *)
(*                                                                         *)
(* A definition that stands just above another with the same parameters    *)
(* and that nothing uses is a faulty variant of it: what the code would do *)
(* with a plausible mistake, kept to show that a property notices.         *)
(*                                                                         *)
(* Blocks are numbered in the order in which the list allocates them; 0 is *)
(* InvalidBlockNumber.  Reuse of freed blocks is the subject of module     *)
(* PageReclaim.  The base tree and the catalog runs are the sets of        *)
(* entries they hold; RunCatalog refines the latter.                       *)
(***************************************************************************)
EXTENDS Integers, Sequences, FiniteSets

CONSTANTS
    Trigrams,        \* trigram hashes
    Values,          \* the trigram sets that indexed values and queries have
    Tids,            \* heap TIDs
    Built,           \* rows present when ambuild ran (each with every trigram)
    Inserters,       \* backends that run INSERT
    Vacuum,          \* the VACUUM process (the heap lock admits one at a time)
    Scanners,        \* backends that run index scans
    None,            \* no holder of the merge lock, no TID
    PageCap,         \* pending_capacity(): entries on one pending page
    BatchMax,        \* PG_TRE_PENDING_BATCH_MAX
    MergeLimit,      \* pending_list_limit, in entries
    FlushModes,      \* values pg_tre.flush_to_run may have: a subset of BOOLEAN
    QueryModes,      \* trigram query modes: a subset of {"cnf", "dnf"}
    Coalesce,        \* the index was built with pg_tre.coalesce_enable
    RepackOverflow,  \* a repacked leaf may exceed the page budget
    MaxBlocks,       \* bound: pending pages ever allocated
    MaxFaults        \* bound: crashes and cancelled statements

ASSUME SetsAssumption ==
    /\ IsFiniteSet(Trigrams)
    /\ Values \subseteq SUBSET Trigrams
    /\ Built \subseteq Tids
    /\ Vacuum \notin Inserters
    /\ None \notin Inserters \cup {Vacuum} \cup Tids
    /\ FlushModes \subseteq BOOLEAN
    /\ QueryModes \subseteq {"cnf", "dnf"}
    /\ Coalesce \in BOOLEAN
    /\ RepackOverflow \in BOOLEAN

ASSUME BoundsAssumption ==
    /\ PageCap \in Nat \ {0}
    /\ BatchMax \in Nat \ {0}
    /\ MergeLimit \in Nat
    /\ MaxBlocks \in Nat
    /\ MaxFaults \in Nat

VARIABLES
    \* The heap, as far as the index depends on it.
    row,                \* [Tids -> RowState]
    rowTrgs,            \* [Tids -> SUBSET Trigrams]: trigrams of the row there
    \* The index: metapage fields, pending pages, trees, free log.
    pending_head, pending_tail, pending_n_entries,
    entries, next_page, \* pending pages, by block number
    base,               \* entries of the tree under meta.root_upper
    runs,               \* entries of the catalog runs
    coalesced,          \* trigrams whose base posting is on a coalesced page
    freed,              \* pending blocks handed to the deferred free log
    \* The heavyweight page lock that serialises merges.
    merge_lock,
    \* Backends.
    pc,
    tid, todo, left, n_pending,         \* locals of aminsert
    root, flush, wm_tail, wm_tail_n,    \* locals of pg_tre_pending_merge
    blk, got, consumed, new_root, free_wm_tail,
    reap,               \* TIDs the running VACUUM found dead
    strip,              \* trigrams its bulk delete has still to visit
    scan_at, mode, want, rest,          \* locals of a scan
    scan_blk, found,
    rows,               \* history: the rows the scan's snapshot sees
    faults

heapVars   == <<row, rowTrgs>>
listVars   == <<pending_head, pending_tail, pending_n_entries, entries, next_page>>
treeVars   == <<base, runs, coalesced>>
insertVars == <<tid, todo, left, n_pending>>
mergeVars  == <<root, flush, wm_tail, wm_tail_n, blk, got, consumed, new_root,
                free_wm_tail>>
vacVars    == <<reap, strip>>
scanVars   == <<scan_at, mode, want, rest, scan_blk, found, rows>>
vars == <<heapVars, listVars, treeVars, freed, merge_lock, pc, insertVars, mergeVars,
          vacVars, scanVars, faults>>

-----------------------------------------------------------------------------
Procs == Inserters \cup {Vacuum}
Entry == Trigrams \X Tids
Invalid == 0

RowState == {"unused", "inserting", "live", "dead"}

MergePc  == {"meta", "wm", "wm_n", "collect", "build", "run", "finalize",
             "free", "free_tail", "set_roots", "merged"}
LockedPc == MergePc \cup {"strip", "compact"}
InsertPc == {"idle", "append", "maybe", "xact"}
VacuumPc == {"idle", "bd_lock", "reap", "cl_lock"}
PcState  == LockedPc \cup InsertPc \cup VacuumPc

Elems(s) == {s[i] : i \in DOMAIN s}
Min2(a, b) == IF a <= b THEN a ELSE b
PageEntries(b) == Elems(entries[b])

RowEntries(r) == rowTrgs[r] \X {r}

(* Links of a list page lead to the page allocated next, so the list is    *)
(* the blocks from head to tail.                                           *)
ListBlocks == IF pending_head = Invalid THEN {} ELSE pending_head .. pending_tail
Pending    == UNION {PageEntries(b) : b \in ListBlocks}

(* What a reader that unions the list with every run can find.             *)
Indexed == Pending \cup base \cup runs

-----------------------------------------------------------------------------
Init ==
    /\ row = [r \in Tids |-> IF r \in Built THEN "live" ELSE "unused"]
    /\ rowTrgs = [r \in Tids |-> IF r \in Built THEN Trigrams ELSE {}]
    /\ pending_head = Invalid /\ pending_tail = Invalid
    /\ pending_n_entries = 0
    /\ entries = <<>> /\ next_page = <<>>
    /\ base = Trigrams \X Built
    /\ runs = {}
    /\ coalesced = IF Coalesce THEN Trigrams ELSE {}
    /\ freed = {}
    /\ merge_lock = None
    /\ pc = [p \in Procs |-> "idle"]
    /\ tid = [p \in Inserters |-> None]
    /\ todo = [p \in Inserters |-> <<>>]
    /\ left = [p \in Inserters |-> 0]
    /\ n_pending = [p \in Inserters |-> 0]
    /\ root = [p \in Procs |-> {}] /\ flush = [p \in Procs |-> FALSE]
    /\ wm_tail = [p \in Procs |-> Invalid] /\ wm_tail_n = [p \in Procs |-> 0]
    /\ blk = [p \in Procs |-> Invalid]
    /\ got = [p \in Procs |-> {}] /\ consumed = [p \in Procs |-> {}]
    /\ new_root = [p \in Procs |-> {}] /\ free_wm_tail = [p \in Procs |-> FALSE]
    /\ reap = {} /\ strip = {}
    /\ scan_at = [s \in Scanners |-> "idle"]
    /\ mode = [s \in Scanners |-> "cnf"]
    /\ want = [s \in Scanners |-> {}] /\ rest = [s \in Scanners |-> {}]
    /\ scan_blk = [s \in Scanners |-> Invalid]
    /\ found = [s \in Scanners |-> {}] /\ rows = [s \in Scanners |-> {}]
    /\ faults = 0

Goto(p, label) == pc' = [pc EXCEPT ![p] = label]

(* pg_tre_pending_merge returns or is abandoned: its locals are gone.      *)
ClearMerge(p) ==
    /\ root' = [root EXCEPT ![p] = {}] /\ flush' = [flush EXCEPT ![p] = FALSE]
    /\ wm_tail' = [wm_tail EXCEPT ![p] = Invalid]
    /\ wm_tail_n' = [wm_tail_n EXCEPT ![p] = 0]
    /\ blk' = [blk EXCEPT ![p] = Invalid]
    /\ got' = [got EXCEPT ![p] = {}] /\ consumed' = [consumed EXCEPT ![p] = {}]
    /\ new_root' = [new_root EXCEPT ![p] = {}]
    /\ free_wm_tail' = [free_wm_tail EXCEPT ![p] = FALSE]

(* UnlockPage, or the end of a transaction: p holds the merge lock no more. *)
Unlock(p) == merge_lock' = IF merge_lock = p THEN None ELSE merge_lock

-----------------------------------------------------------------------------
(* INSERT: aminsert, the pending append, and the transaction's outcome.    *)

(* The orders in which aminsert can meet the distinct trigrams of a row.   *)
Orders(S) == {s \in [1 .. Cardinality(S) -> S] : Elems(s) = S}

(* The heap has placed the tuple at r and aminsert has extracted its       *)
(* distinct trigrams T; they will be appended BatchMax at a time.          *)
AmInsert(p, r, T) ==
    /\ pc[p] = "idle" /\ row[r] = "unused"
    /\ row' = [row EXCEPT ![r] = "inserting"]
    /\ rowTrgs' = [rowTrgs EXCEPT ![r] = T]
    /\ tid' = [tid EXCEPT ![p] = r]
    /\ \E s \in Orders(T \X {r}) :
          /\ todo' = [todo EXCEPT ![p] = s]
          /\ left' = [left EXCEPT ![p] = Min2(BatchMax, Len(s))]
    /\ Goto(p, IF T = {} THEN "maybe" ELSE "append")
    /\ UNCHANGED <<listVars, treeVars, freed, merge_lock, n_pending, mergeVars,
                   vacVars, scanVars, faults>>

(* The tail acquire_tail hands out: the present one, or a new page when    *)
(* there is none or it is full.                                            *)
NeedNewTail == pending_tail = Invalid \/ Len(entries[pending_tail]) >= PageCap
Room == IF NeedNewTail THEN PageCap ELSE PageCap - Len(entries[pending_tail])
Take(p) == Min2(left[p], Room)

(* A new page goes behind the old tail: its own link is initialised and    *)
(* the old tail's leads to it.                                             *)
Uninitialised(new) == Append(next_page, None)
TailNotLinked(new) == Append(next_page, Invalid)
Linked(new) ==
    [b \in 1 .. new |-> IF b = new THEN Invalid
                        ELSE IF b = pending_tail THEN new ELSE next_page[b]]

(* One iteration of pg_tre_pending_append_batch under the metapage lock:   *)
(* acquire_tail picks the tail or links a new page behind it, and as much  *)
(* of the batch as fits is written.  One WAL record.  When a batch is out, *)
(* aminsert starts the next; after the last it goes on to maybe_merge.     *)
AppendPage(p) ==
    /\ pc[p] = "append"
    /\ LET put  == SubSeq(todo[p], 1, Take(p))
           more == SubSeq(todo[p], Take(p) + 1, Len(todo[p]))
           new  == Len(entries) + 1
       IN /\ IF NeedNewTail
               THEN /\ new <= MaxBlocks
                    /\ entries' = Append(entries, put)
                    /\ next_page' = Linked(new)
                    /\ pending_tail' = new
                    /\ pending_head' = IF pending_tail = Invalid THEN new ELSE pending_head
               ELSE /\ entries' = [entries EXCEPT ![pending_tail] = @ \o put]
                    /\ UNCHANGED <<next_page, pending_head, pending_tail>>
          /\ pending_n_entries' = pending_n_entries + Take(p)
          /\ n_pending' = [n_pending EXCEPT ![p] = pending_n_entries']
          /\ todo' = [todo EXCEPT ![p] = more]
          /\ left' = [left EXCEPT ![p] = IF @ = Take(p) THEN Min2(BatchMax, Len(more))
                                         ELSE @ - Take(p)]
          /\ Goto(p, IF more = <<>> THEN "maybe" ELSE "append")
    /\ UNCHANGED <<heapVars, treeVars, freed, merge_lock, tid, mergeVars, vacVars,
                   scanVars,
                   faults>>

(* ConditionalLockPage is refused when the lock is held and also when a    *)
(* conflicting request already waits for it (the lock manager's waitMask). *)
VacuumWaits == pc[Vacuum] \in {"bd_lock", "cl_lock"}
LockIsFree  == merge_lock = None
CanTryLock  == merge_lock = None /\ ~VacuumWaits

(* pg_tre_pending_maybe_merge: below the limit, or someone else is merging *)
(* or about to; never wait.                                                *)
SkipMerge(p) ==
    /\ pc[p] = "maybe"
    /\ n_pending[p] <= MergeLimit \/ ~CanTryLock
    /\ n_pending' = [n_pending EXCEPT ![p] = 0]
    /\ Goto(p, "xact")
    /\ UNCHANGED <<heapVars, listVars, treeVars, freed, merge_lock, tid, todo, left,
                   mergeVars,
                   vacVars, scanVars, faults>>

TryLock(p) ==
    /\ pc[p] = "maybe"
    /\ n_pending[p] > MergeLimit /\ CanTryLock
    /\ n_pending' = [n_pending EXCEPT ![p] = 0]
    /\ merge_lock' = p
    /\ Goto(p, "meta")
    /\ UNCHANGED <<heapVars, listVars, treeVars, freed, tid, todo, left, mergeVars,
                   vacVars, scanVars,
                   faults>>

(* aminsert has returned; the transaction commits or rolls back.           *)
EndXact(p, outcome) ==
    /\ pc[p] = "xact"
    /\ row' = [row EXCEPT ![tid[p]] = outcome]
    /\ tid' = [tid EXCEPT ![p] = None]
    /\ Goto(p, "idle")
    /\ UNCHANGED <<rowTrgs, listVars, treeVars, freed, merge_lock, todo, left,
                   n_pending,
                   mergeVars, vacVars, scanVars, faults>>

(* A row is deleted and becomes dead to every snapshot: VACUUM's horizon   *)
(* excludes rows a running scan still sees.                                *)
Die(r) ==
    /\ row[r] = "live"
    /\ \A s \in Scanners : r \notin rows[s]
    /\ row' = [row EXCEPT ![r] = "dead"]
    /\ UNCHANGED <<rowTrgs, listVars, treeVars, freed, merge_lock, pc, insertVars,
                   mergeVars,
                   vacVars, scanVars, faults>>

-----------------------------------------------------------------------------
(* pg_tre_pending_merge, run by an INSERT over the limit or by VACUUM,     *)
(* always under the merge lock.                                            *)

TrigramsOf(E) == {e[1] : e \in E}
Flushing(p)   == flush[p] /\ got[p] # {}

(* The metapage read at entry; an empty list has nothing to merge.         *)
MergeMeta(p) ==
    /\ pc[p] = "meta"
    /\ IF pending_head = Invalid
         THEN /\ Goto(p, "merged")
              /\ UNCHANGED <<root, flush>>
         ELSE /\ Goto(p, "wm")
              /\ root' = [root EXCEPT ![p] = base]
              /\ \E f \in FlushModes : flush' = [flush EXCEPT ![p] = f]
    /\ UNCHANGED <<heapVars, listVars, treeVars, freed, merge_lock, insertVars, wm_tail,
                   wm_tail_n, blk, got, consumed, new_root, free_wm_tail, vacVars, scanVars,
                   faults>>

(* pg_tre_pending_scan_watermark reads head and tail from the metapage ... *)
MergeWatermark(p) ==
    /\ pc[p] = "wm"
    /\ wm_tail' = [wm_tail EXCEPT ![p] = pending_tail]
    /\ blk' = [blk EXCEPT ![p] = pending_head]
    /\ Goto(p, "wm_n")
    /\ UNCHANGED <<heapVars, listVars, treeVars, freed, merge_lock, insertVars, root,
                   flush,
                   wm_tail_n, got, consumed, new_root, free_wm_tail, vacVars, scanVars,
                   faults>>

(* ... then the number of entries on that tail under the tail's own lock.  *)
MergeWatermarkN(p) ==
    /\ pc[p] = "wm_n"
    /\ wm_tail_n' = [wm_tail_n EXCEPT ![p] = Len(entries[wm_tail[p]])]
    /\ Goto(p, "collect")
    /\ UNCHANGED <<heapVars, listVars, treeVars, freed, merge_lock, insertVars, root,
                   flush,
                   wm_tail, blk, got, consumed, new_root, free_wm_tail, vacVars, scanVars,
                   faults>>

(* The entries the walk consumes on its current page: on the watermark     *)
(* page only the snapshotted prefix.                                       *)
Consumes(p) ==
    IF blk[p] = wm_tail[p]
    THEN SubSeq(entries[blk[p]], 1, Min2(Len(entries[blk[p]]), wm_tail_n[p]))
    ELSE entries[blk[p]]

(* The pages the walk has drained for good: not the watermark page, which  *)
(* may turn out to hold later entries.                                     *)
WatermarkDrained(p) == {blk[p]}
Drained(p) == IF blk[p] = wm_tail[p] THEN {} ELSE {blk[p]}

(* One page of the walk from head to the watermark.                        *)
MergeCollect(p) ==
    /\ pc[p] = "collect"
    /\ got' = [got EXCEPT ![p] = @ \cup Elems(Consumes(p))]
    /\ consumed' = [consumed EXCEPT ![p] = @ \cup Drained(p)]
    /\ IF blk[p] = wm_tail[p] \/ next_page[blk[p]] = Invalid
         THEN /\ blk' = [blk EXCEPT ![p] = Invalid]
              /\ Goto(p, "build")
         ELSE /\ blk' = [blk EXCEPT ![p] = next_page[@]]
              /\ Goto(p, "collect")
    /\ UNCHANGED <<heapVars, listVars, treeVars, freed, merge_lock, insertVars, root,
                   flush,
                   wm_tail, wm_tail_n, new_root, free_wm_tail, vacVars, scanVars, faults>>

(* The base with the collected entries folded into its postings.           *)
FoldedOverCoalesced(p) ==
    {e \in base : e[1] \notin coalesced \cap TrigramsOf(got[p])} \cup got[p]
Folded(p) == base \cup got[p]

(* materialize_merged_postings and pg_tre_upper_bulkload write a tree that *)
(* nothing references yet: the base with the collected entries folded in,  *)
(* or, flushing to a run, only the collected entries (the base is kept).   *)
MergeBuild(p) ==
    /\ pc[p] = "build"
    /\ new_root' = [new_root EXCEPT ![p] = IF Flushing(p) THEN root[p] ELSE Folded(p)]
    /\ Goto(p, IF Flushing(p) THEN "run" ELSE "finalize")
    /\ UNCHANGED <<heapVars, listVars, treeVars, freed, merge_lock, insertVars, root,
                   flush,
                   wm_tail, wm_tail_n, blk, got, consumed, free_wm_tail, vacVars, scanVars,
                   faults>>

(* pg_tre_run_catalog_append of the flushed run: its own WAL record,       *)
(* before the truncation.                                                  *)
MergeAppendRun(p) ==
    /\ pc[p] = "run"
    /\ runs' = runs \cup got[p]
    /\ Goto(p, "finalize")
    /\ UNCHANGED <<heapVars, listVars, base, coalesced, freed, merge_lock,
                   insertVars, mergeVars,
                   vacVars, scanVars, faults>>

(* finalize_merge: under the metapage and the watermark tail's locks, swap *)
(* the root and drop the consumed prefix in one WAL record.  If anything   *)
(* was appended since the watermark, the survivors on the watermark page   *)
(* move to slot 0 and that page becomes the head.                          *)
Slots(B) == UNION {{b} \X (1 .. Len(entries[b])) : b \in B}

RewindByCountOnly(p) == Len(entries[wm_tail[p]]) > wm_tail_n[p]
Rewind(p) ==
    \/ Len(entries[wm_tail[p]]) > wm_tail_n[p]
    \/ next_page[wm_tail[p]] # Invalid
    \/ pending_tail # wm_tail[p]

Survivors(p) ==
    SubSeq(entries[wm_tail[p]], wm_tail_n[p] + 1, Len(entries[wm_tail[p]]))

SurvivorsOnTailOnly(p) == Len(Survivors(p))
SurvivingTotal(p) ==
    Len(Survivors(p)) + Cardinality(Slots(wm_tail[p] + 1 .. pending_tail))

FinalizeMerge(p) ==
    /\ pc[p] = "finalize"
    /\ IF Rewind(p)
         THEN /\ entries' = [entries EXCEPT ![wm_tail[p]] = Survivors(p)]
              /\ pending_head' = wm_tail[p]
              /\ pending_n_entries' = SurvivingTotal(p)
              /\ UNCHANGED pending_tail
         ELSE /\ pending_head' = Invalid
              /\ pending_tail' = Invalid
              /\ pending_n_entries' = 0
              /\ UNCHANGED entries
    /\ base' = new_root[p]
    /\ coalesced' = IF Flushing(p) THEN coalesced ELSE coalesced \ TrigramsOf(got[p])
    /\ free_wm_tail' = [free_wm_tail EXCEPT ![p] = ~Rewind(p)]
    /\ Goto(p, "free")
    /\ UNCHANGED <<heapVars, next_page, runs, freed, merge_lock, insertVars, root,
                   flush,
                   wm_tail, wm_tail_n, blk, got, consumed, new_root, vacVars, scanVars,
                   faults>>

(* Once the truncation is durable and the buffer locks are gone, the       *)
(* drained pages go to the free log, the watermark page in a second append *)
(* and only when nothing survived on it.                                   *)
FreeConsumed(p) ==
    /\ pc[p] = "free"
    /\ freed' = freed \cup consumed[p]
    /\ Goto(p, IF free_wm_tail[p] THEN "free_tail"
               ELSE IF Flushing(p) THEN "merged" ELSE "set_roots")
    /\ UNCHANGED <<heapVars, listVars, treeVars, merge_lock, insertVars, mergeVars,
                   vacVars, scanVars, faults>>

FreeWatermarkTail(p) ==
    /\ pc[p] = "free_tail"
    /\ freed' = freed \cup {wm_tail[p]}
    /\ Goto(p, IF Flushing(p) THEN "merged" ELSE "set_roots")
    /\ UNCHANGED <<heapVars, listVars, treeVars, merge_lock, insertVars, mergeVars,
                   vacVars, scanVars, faults>>

(* After a rebuild pg_tre_meta_set_roots bumps n_tuples_indexed and writes *)
(* the roots once more, unless fewer than five entries were consumed.      *)
SetRoots(p) ==
    /\ pc[p] = "set_roots"
    /\ base' \in {base, new_root[p]}
    /\ Goto(p, "merged")
    /\ UNCHANGED <<heapVars, listVars, runs, coalesced, freed, merge_lock,
                   insertVars, mergeVars,
                   vacVars, scanVars, faults>>

(* The merge returns to maybe_merge, which releases the lock.              *)
InsertMergeDone(p) ==
    /\ pc[p] = "merged" /\ p \in Inserters
    /\ Unlock(p)
    /\ ClearMerge(p)
    /\ Goto(p, "xact")
    /\ UNCHANGED <<heapVars, listVars, treeVars, freed, insertVars, vacVars,
                   scanVars, faults>>

Merge(p) ==
    \/ MergeMeta(p) \/ MergeWatermark(p) \/ MergeWatermarkN(p) \/ MergeCollect(p)
    \/ MergeBuild(p) \/ MergeAppendRun(p) \/ FinalizeMerge(p)
    \/ FreeConsumed(p) \/ FreeWatermarkTail(p) \/ SetRoots(p)

-----------------------------------------------------------------------------
(* VACUUM: ambulkdelete over the dead TIDs, the heap pass that frees their *)
(* line pointers, amvacuumcleanup.                                         *)

VacuumStart ==
    /\ pc[Vacuum] = "idle"
    /\ reap' = {r \in Tids : row[r] = "dead"}
    /\ Goto(Vacuum, IF reap' = {} THEN "cl_lock" ELSE "bd_lock")
    /\ UNCHANGED <<heapVars, listVars, treeVars, freed, merge_lock, insertVars,
                   mergeVars,
                   strip, scanVars, faults>>

(* pg_tre_merge_lock, on entry to ambulkdelete and to amvacuumcleanup.     *)
MergeLockStripFirst ==
    /\ pc[Vacuum] \in {"bd_lock", "cl_lock"}
    /\ merge_lock = None
    /\ merge_lock' = Vacuum
    /\ Goto(Vacuum, IF pc[Vacuum] = "bd_lock" THEN "merged" ELSE "meta")
    /\ UNCHANGED <<heapVars, listVars, treeVars, freed, insertVars, mergeVars,
                   vacVars, scanVars, faults>>

MergeLock ==
    /\ pc[Vacuum] \in {"bd_lock", "cl_lock"}
    /\ merge_lock = None
    /\ merge_lock' = Vacuum
    /\ Goto(Vacuum, "meta")
    /\ UNCHANGED <<heapVars, listVars, treeVars, freed, insertVars, mergeVars,
                   vacVars, scanVars, faults>>

(* The merge returns to ambulkdelete (there are TIDs to reap) or to        *)
(* amvacuumcleanup.                                                        *)
VacuumUnlocksBeforeStrip ==
    /\ pc[Vacuum] = "merged"
    /\ ClearMerge(Vacuum)
    /\ strip' = IF reap = {} THEN {} ELSE Trigrams
    /\ Goto(Vacuum, IF reap = {} THEN "compact" ELSE "strip")
    /\ Unlock(Vacuum)
    /\ UNCHANGED <<heapVars, listVars, treeVars, freed, insertVars, reap,
                   scanVars, faults>>

VacuumMergeDone ==
    /\ pc[Vacuum] = "merged"
    /\ ClearMerge(Vacuum)
    /\ strip' = IF reap = {} THEN {} ELSE Trigrams
    /\ Goto(Vacuum, IF reap = {} THEN "compact" ELSE "strip")
    /\ UNCHANGED <<heapVars, listVars, treeVars, freed, merge_lock, insertVars, reap,
                   scanVars, faults>>

(* pg_tre_posting_bulk_delete at one trigram: the dead TIDs leave its      *)
(* posting in every run, except that a coalesced posting is skipped and a  *)
(* posting whose repacked form would not fit is left as it is.             *)
Skips == IF RepackOverflow THEN BOOLEAN ELSE {FALSE}

StripPosting(t) ==
    /\ pc[Vacuum] = "strip" /\ t \in strip
    /\ \E skipBase, skipRuns \in Skips :
          /\ base' = IF skipBase \/ t \in coalesced THEN base ELSE base \ ({t} \X reap)
          /\ runs' = IF skipRuns THEN runs ELSE runs \ ({t} \X reap)
    /\ strip' = strip \ {t}
    /\ UNCHANGED <<heapVars, listVars, coalesced, freed, merge_lock, pc, insertVars,
                   mergeVars,
                   reap, scanVars, faults>>

StripDone ==
    /\ pc[Vacuum] = "strip" /\ strip = {}
    /\ Unlock(Vacuum)
    /\ Goto(Vacuum, "reap")
    /\ UNCHANGED <<heapVars, listVars, treeVars, freed, insertVars, mergeVars,
                   vacVars, scanVars, faults>>

(* The heap's second pass: the line pointers can be reused.                *)
Reap ==
    /\ pc[Vacuum] = "reap"
    /\ row' = [r \in Tids |-> IF r \in reap THEN "unused" ELSE row[r]]
    /\ rowTrgs' = [r \in Tids |-> IF r \in reap THEN {} ELSE rowTrgs[r]]
    /\ reap' = {}
    /\ Goto(Vacuum, "cl_lock")
    /\ UNCHANGED <<listVars, treeVars, freed, merge_lock, insertVars, mergeVars,
                   strip, scanVars, faults>>

(* The rest of amvacuumcleanup: pg_tre_hanoi_merge regroups runs, which    *)
(* does not show here; past the backstop pg_tre_collapse_runs folds every  *)
(* run into a fresh base.                                                  *)
Compact ==
    /\ pc[Vacuum] = "compact"
    /\ \/ UNCHANGED treeVars
       \/ /\ runs # {}
          /\ base' = base \cup runs
          /\ runs' = {}
          /\ coalesced' = {}
    /\ Unlock(Vacuum)
    /\ Goto(Vacuum, "idle")
    /\ UNCHANGED <<heapVars, listVars, freed, insertVars, mergeVars, vacVars,
                   scanVars, faults>>

-----------------------------------------------------------------------------
(* Index scan: tre_compute_candidate_sm builds the pending overlay first   *)
(* and resolves each trigram against the trees afterwards.                 *)

ScanStart(s, T, q) ==
    /\ scan_at[s] = "idle"
    /\ scan_at' = [scan_at EXCEPT ![s] = "overlay"]
    /\ mode' = [mode EXCEPT ![s] = q]
    /\ want' = [want EXCEPT ![s] = T]
    /\ rest' = [rest EXCEPT ![s] = T]
    /\ scan_blk' = [scan_blk EXCEPT ![s] = pending_head]
    /\ rows' = [rows EXCEPT ![s] = {r \in Tids : row[r] = "live"}]
    /\ UNCHANGED <<heapVars, listVars, treeVars, freed, merge_lock, pc, insertVars,
                   mergeVars, vacVars, found, faults>>

(* One page of pg_tre_pending_scan, under that page's share lock only; the *)
(* link is followed after the lock is released.                            *)
ScanOverlay(s) ==
    /\ scan_at[s] = "overlay" /\ scan_blk[s] # Invalid
    /\ found' = [found EXCEPT ![s] =
                    @ \cup (PageEntries(scan_blk[s]) \cap (want[s] \X Tids))]
    /\ scan_blk' = [scan_blk EXCEPT ![s] = next_page[@]]
    /\ UNCHANGED <<heapVars, listVars, treeVars, freed, merge_lock, pc, insertVars,
                   mergeVars, vacVars, scan_at, mode, want, rest, rows, faults>>

ScanOverlayDone(s) ==
    /\ scan_at[s] = "overlay" /\ scan_blk[s] = Invalid
    /\ scan_at' = [scan_at EXCEPT ![s] = "lookup"]
    /\ UNCHANGED <<heapVars, listVars, treeVars, freed, merge_lock, pc, insertVars,
                   mergeVars, vacVars, mode, want, rest, scan_blk, found, rows, faults>>

(* Resolving one trigram re-reads the roots.  The CNF and PIECES paths     *)
(* union all runs (resolve_trigram_runs); the DNF path of edit-distance    *)
(* queries looks only under meta.root_upper.                               *)
Trees(q) == IF q = "dnf" THEN base ELSE base \cup runs

ScanLookup(s, t) ==
    /\ scan_at[s] = "lookup" /\ t \in rest[s]
    /\ found' = [found EXCEPT ![s] = @ \cup (Trees(mode[s]) \cap ({t} \X Tids))]
    /\ rest' = [rest EXCEPT ![s] = @ \ {t}]
    /\ UNCHANGED <<heapVars, listVars, treeVars, freed, merge_lock, pc, insertVars,
                   mergeVars, vacVars, scan_at, mode, want, scan_blk, rows, faults>>

ScanEnd(s) ==
    /\ scan_at[s] = "lookup" /\ rest[s] = {}
    /\ scan_at' = [scan_at EXCEPT ![s] = "idle"]
    /\ mode' = [mode EXCEPT ![s] = "cnf"]
    /\ want' = [want EXCEPT ![s] = {}]
    /\ found' = [found EXCEPT ![s] = {}]
    /\ rows' = [rows EXCEPT ![s] = {}]
    /\ UNCHANGED <<heapVars, listVars, treeVars, freed, merge_lock, pc, insertVars,
                   mergeVars, vacVars, rest, scan_blk, faults>>

-----------------------------------------------------------------------------
(* Faults.  Every finished WAL record survives; what a backend was doing   *)
(* does not.                                                               *)

(* An ERROR or a cancelled statement: abort releases the merge lock.       *)
Cancel(p) ==
    /\ pc[p] # "idle" /\ faults < MaxFaults
    /\ faults' = faults + 1
    /\ Unlock(p)
    /\ ClearMerge(p)
    /\ Goto(p, "idle")
    /\ IF p = Vacuum
         THEN /\ reap' = {} /\ strip' = {}
              /\ UNCHANGED <<heapVars, insertVars>>
         ELSE /\ row' = [row EXCEPT ![tid[p]] = "dead"]
              /\ tid' = [tid EXCEPT ![p] = None]
              /\ todo' = [todo EXCEPT ![p] = <<>>]
              /\ left' = [left EXCEPT ![p] = 0]
              /\ n_pending' = [n_pending EXCEPT ![p] = 0]
              /\ UNCHANGED <<rowTrgs, vacVars>>
    /\ UNCHANGED <<listVars, treeVars, freed, scanVars>>

Crash ==
    /\ faults < MaxFaults
    /\ faults' = faults + 1
    /\ merge_lock' = None
    /\ root' = [p \in Procs |-> {}] /\ flush' = [p \in Procs |-> FALSE]
    /\ wm_tail' = [p \in Procs |-> Invalid] /\ wm_tail_n' = [p \in Procs |-> 0]
    /\ blk' = [p \in Procs |-> Invalid]
    /\ got' = [p \in Procs |-> {}] /\ consumed' = [p \in Procs |-> {}]
    /\ new_root' = [p \in Procs |-> {}] /\ free_wm_tail' = [p \in Procs |-> FALSE]
    /\ pc' = [p \in Procs |-> "idle"]
    /\ reap' = {} /\ strip' = {}
    /\ row' = [r \in Tids |-> IF row[r] = "inserting" THEN "dead" ELSE row[r]]
    /\ tid' = [p \in Inserters |-> None]
    /\ todo' = [p \in Inserters |-> <<>>]
    /\ left' = [p \in Inserters |-> 0]
    /\ n_pending' = [p \in Inserters |-> 0]
    /\ scan_at' = [s \in Scanners |-> "idle"]
    /\ mode' = [s \in Scanners |-> "cnf"]
    /\ want' = [s \in Scanners |-> {}] /\ rest' = [s \in Scanners |-> {}]
    /\ scan_blk' = [s \in Scanners |-> Invalid]
    /\ found' = [s \in Scanners |-> {}] /\ rows' = [s \in Scanners |-> {}]
    /\ UNCHANGED <<rowTrgs, listVars, treeVars, freed>>

-----------------------------------------------------------------------------
InsertStep(p) ==
    \/ AppendPage(p) \/ SkipMerge(p) \/ TryLock(p)
    \/ Merge(p) \/ InsertMergeDone(p)
    \/ EndXact(p, "live") \/ EndXact(p, "dead")

VacuumStep ==
    \/ MergeLock \/ Merge(Vacuum) \/ VacuumMergeDone
    \/ \E t \in Trigrams : StripPosting(t)
    \/ StripDone \/ Reap \/ Compact

ScanStep(s) ==
    \/ ScanOverlay(s) \/ ScanOverlayDone(s) \/ ScanEnd(s)
    \/ \E t \in Trigrams : ScanLookup(s, t)

Next ==
    \/ \E p \in Inserters : \E r \in Tids, T \in Values : AmInsert(p, r, T)
    \/ \E p \in Inserters : InsertStep(p)
    \/ \E r \in Tids : Die(r)
    \/ VacuumStart
    \/ VacuumStep
    \/ \E s \in Scanners, T \in Values, q \in QueryModes : ScanStart(s, T, q)
    \/ \E s \in Scanners : ScanStep(s)
    \/ \E p \in Procs : Cancel(p)
    \/ Crash

Spec == Init /\ [][Next]_vars

(* Backends are scheduled; statements, VACUUM runs and faults may or may   *)
(* not happen.  A lock request in the queue is granted: trylock defers to  *)
(* a waiter, so weak fairness of the waiter is enough.                     *)
Fairness ==
    /\ \A p \in Inserters : WF_vars(InsertStep(p))
    /\ WF_vars(VacuumStep)
    /\ \A s \in Scanners : WF_vars(ScanStep(s))

-----------------------------------------------------------------------------
(* Every variable has its type: block numbers and counters are naturals,   *)
(* page contents are sequences of entries, the merge lock is held by a     *)
(* backend or free.                                                        *)
TypeOK ==
    /\ row \in [Tids -> RowState]
    /\ rowTrgs \in [Tids -> SUBSET Trigrams]
    /\ pending_head \in Nat /\ pending_tail \in Nat /\ pending_n_entries \in Nat
    /\ entries \in Seq(Seq(Entry)) /\ next_page \in Seq(Nat)
    /\ Len(next_page) = Len(entries)
    /\ base \in SUBSET Entry /\ runs \in SUBSET Entry
    /\ coalesced \in SUBSET Trigrams
    /\ freed \in SUBSET Nat
    /\ merge_lock \in Procs \cup {None}
    /\ pc \in [Procs -> PcState]
    /\ tid \in [Inserters -> Tids \cup {None}]
    /\ todo \in [Inserters -> Seq(Entry)]
    /\ left \in [Inserters -> Nat]
    /\ n_pending \in [Inserters -> Nat]
    /\ root \in [Procs -> SUBSET Entry] /\ flush \in [Procs -> BOOLEAN]
    /\ wm_tail \in [Procs -> Nat] /\ wm_tail_n \in [Procs -> Nat]
    /\ blk \in [Procs -> Nat]
    /\ got \in [Procs -> SUBSET Entry] /\ consumed \in [Procs -> SUBSET Nat]
    /\ new_root \in [Procs -> SUBSET Entry] /\ free_wm_tail \in [Procs -> BOOLEAN]
    /\ reap \in SUBSET Tids /\ strip \in SUBSET Trigrams
    /\ scan_at \in [Scanners -> {"idle", "overlay", "lookup"}]
    /\ mode \in [Scanners -> {"cnf", "dnf"}]
    /\ want \in [Scanners -> SUBSET Trigrams] /\ rest \in [Scanners -> SUBSET Trigrams]
    /\ scan_blk \in [Scanners -> Nat]
    /\ found \in [Scanners -> SUBSET Entry] /\ rows \in [Scanners -> SUBSET Tids]
    /\ faults \in Nat

(* Every entry aminsert has written for a row that is committed, or whose  *)
(* INSERT is still running, is in the pending list or in a tree: no append *)
(* racing a merge, no cancelled merge and no crash between a flushed run   *)
(* and the truncation loses it.                                            *)
NoLostEntry ==
    /\ \A r \in Tids : row[r] = "live" => RowEntries(r) \subseteq Indexed
    /\ \A p \in Inserters : tid[p] # None =>
          RowEntries(tid[p]) \ Elems(todo[p]) \subseteq Indexed

(* A scan that has resolved all its trigrams has found the entry of every  *)
(* row its snapshot sees, although the list was merged, compacted and      *)
(* truncated under it: overlay first, trees afterwards.                    *)
NoMissedRow ==
    \A s \in Scanners :
        scan_at[s] = "lookup" /\ rest[s] = {} =>
            \A r \in rows[s] : RowEntries(r) \cap (want[s] \X Tids) \subseteq found[s]

(* A dead TID does not outlive its heap tuple: once VACUUM has freed a     *)
(* line pointer, neither the list nor any tree still holds an entry of the *)
(* row that was there, and no merge in flight will bring one back.         *)
NoGhostEntry ==
    \A e \in Indexed : row[e[2]] # "unused" /\ e[1] \in rowTrgs[e[2]]

(* meta.pending_n_entries, which INSERT compares with the limit and the    *)
(* merge subtracts from, is the number of slots on the list.               *)
CounterExact == pending_n_entries = Cardinality(Slots(ListBlocks))

(* A block handed to the free log is not on the list, so the drain can     *)
(* never reclaim a page an append or a scan starts from.                   *)
FreedUnlinked == freed \cap ListBlocks = {}

(* The links of the list lead from the head over every allocated page to   *)
(* the tail, and only the head of a compacted list may be empty.           *)
ChainIntact ==
    /\ (pending_head = Invalid) <=> (pending_tail = Invalid)
    /\ \A b \in ListBlocks :
          /\ b \in DOMAIN entries
          /\ next_page[b] = IF b = pending_tail THEN Invalid ELSE b + 1
          /\ Len(entries[b]) <= PageCap
          /\ b # pending_head => entries[b] # <<>>

(* The list, the merge, the runs and VACUUM together keep the contract of  *)
(* an index: seen as one set of entries, each step of this module adds     *)
(* entries of a row being inserted, strips entries of dead rows, or does   *)
(* not show; a row commits only when wholly indexed and a line pointer is  *)
(* reused only when wholly forgotten.                                      *)
Contents == INSTANCE IndexContents WITH idx <- Indexed
RefinesContents == Contents!Spec

(* VACUUM always comes to its end, although INSERTs take the merge lock    *)
(* before it again and again and append behind it while it merges: a merge *)
(* ends at its watermark and gives the lock back, and trylock leaves the   *)
(* lock to a waiter.  The INSERTs go on for ever in the run's              *)
(* specification, MCPendingList!StreamSpec; how far they can get ahead of  *)
(* one merge is bounded by MaxBlocks.                                      *)
VacuumFinishes == []<>(pc[Vacuum] = "idle")
====
