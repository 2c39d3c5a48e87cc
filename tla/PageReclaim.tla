----------------------------- MODULE PageReclaim -----------------------------
(***************************************************************************)
(* How a page of a pg_tre index stops being used and is used again.        *)
(*                                                                         *)
(* A merge swaps the root to a rebuilt tree, truncates the pending list    *)
(* and hands the replaced pages to the deferred free log with the next     *)
(* XID; VACUUM unlinks emptied posting leaves and stamps them with the     *)
(* next XID.  A scan that read a root or a link before may still visit     *)
(* these pages, so only a later VACUUM, once no snapshot is that old,      *)
(* blanks them and records them in the free space map (FSM).               *)
(* pg_tre_extend takes a page the FSM offers, whatever the FSM says,       *)
(* only after it has checked the page under its buffer lock.               *)
(*                                                                         *)
(* One action is one critical section or one WAL record; buffer locks are  *)
(* state only where they are held from one such step to another.  What is  *)
(* on a page does not matter here, only which structure owns it.  As in    *)
(* PendingList, an unused definition above another one with the same       *)
(* parameters is a faulty variant of it.                                   *)
(***************************************************************************)
EXTENDS Integers, Sequences, FiniteSets

CONSTANTS
    MaxBlocks,      \* bound: blocks of the index file, the metapage excluded
    Inserters,      \* backends that append to the pending list and may merge
    Vacuum,         \* the VACUUM process
    Scanners,       \* backends that scan
    None,           \* nobody, no block
    TreePages,      \* pages of the tree at the start
    StaleFsm,       \* those of them that a crash before the start left in the FSM
    FlushModes,     \* values pg_tre.flush_to_run may have: a subset of BOOLEAN
    LogCap,         \* FREE_LOG_CAP: entries on one free-log page
    MaxPending,     \* bound: pages on the pending list
    MaxBuilt,       \* bound: pages one rebuild writes
    MaxXid,         \* bound: transaction IDs
    MaxFaults       \* bound: crashes and errors

ASSUME ReclaimAssumption ==
    /\ MaxBlocks \in Nat \ {0} /\ LogCap \in Nat \ {0}
    /\ TreePages \in 1 .. MaxBlocks /\ StaleFsm \subseteq 1 .. TreePages
    /\ FlushModes \subseteq BOOLEAN
    /\ MaxPending \in Nat /\ MaxBuilt \in Nat \ {0} /\ MaxXid \in Nat \ {0} /\ MaxFaults \in Nat
    /\ Vacuum \notin Inserters
    /\ None \notin Inserters \cup {Vacuum} \cup Nat

VARIABLES
    page,           \* [Blocks -> PageState]
    del_xid,        \* the deletion XID stamped on an unlinked posting leaf
    tree,           \* pages reachable from meta.root_upper and the run catalog
    pend,           \* the pending list, head first
    log,            \* the free log: its pages, head first, each with its entries
    fsm,            \* blocks the index FSM lists
    recorded,       \* blocks it ever listed: what a stale copy of it may list
    next_xid,
    meta_lock,      \* holder of the metapage's exclusive buffer lock
    merge_lock,     \* holder of the heavyweight merge lock
    held,           \* [Blocks -> holder of the buffer's exclusive lock]
    pc,
    alloc, cand, buf,           \* locals of pg_tre_extend
    wm, old, new,               \* locals of a merge or a collapse
    batches, todo, batch_xid,   \* locals of pg_tre_free_log_append
    task, blkno, nblocks,       \* locals of VACUUM: its phase, its sweep ...
    logat, kept,                \* ... and its drain
    xmin, may,      \* scans: the snapshot's xmin, the blocks it may still visit
    faults

pageVars  == <<page, del_xid>>
linkVars  == <<tree, pend, log>>
fsmVars   == <<fsm, recorded>>
lockVars  == <<meta_lock, merge_lock, held>>
allocVars == <<alloc, cand, buf>>
buildVars == <<wm, old, new>>
freeVars  == <<batches, todo, batch_xid>>
vacVars   == <<task, blkno, nblocks, logat, kept>>
scanVars  == <<xmin, may>>
vars == <<pageVars, linkVars, fsmVars, next_xid, lockVars, pc, allocVars, buildVars,
          freeVars, vacVars, scanVars, faults>>

Blocks == 1 .. MaxBlocks
Procs  == Inserters \cup {Vacuum}

(* "blank" is what pg_tre_extend takes for free: PageIsNew, or pd_lower    *)
(* not past the page header.  "live" pages have contents, linked or not.   *)
PageState == {"absent", "blank", "live", "deleted"}

Elems(s)  == {s[i] : i \in DOMAIN s}
LogPages  == {log[i].blk : i \in DOMAIN log}
Logged    == UNION {log[i].ents : i \in DOMAIN log}
Allocated == {b \in Blocks : page[b] # "absent"}

Goto(p, label) == pc' = [pc EXCEPT ![p] = label]

Init ==
    /\ page = [b \in Blocks |-> IF b <= TreePages THEN "live" ELSE "absent"]
    /\ del_xid = [b \in Blocks |-> 0]
    /\ tree = 1 .. TreePages /\ pend = <<>> /\ log = <<>>
    /\ fsm = StaleFsm /\ recorded = StaleFsm
    /\ next_xid = 1
    /\ meta_lock = None /\ merge_lock = None
    /\ held = [b \in Blocks |-> None]
    /\ pc = [p \in Procs |-> "idle"]
    /\ alloc = [p \in Procs |-> "no"]
    /\ cand = [p \in Procs |-> None] /\ buf = [p \in Procs |-> None]
    /\ wm = [p \in Procs |-> 0]
    /\ old = [p \in Procs |-> {}] /\ new = [p \in Procs |-> {}]
    /\ batches = [p \in Procs |-> <<>>]
    /\ todo = [p \in Procs |-> {}] /\ batch_xid = [p \in Procs |-> 0]
    /\ task = "none" /\ blkno = 0 /\ nblocks = 0 /\ logat = 0 /\ kept = {}
    /\ xmin = [s \in Scanners |-> 0] /\ may = [s \in Scanners |-> {}]
    /\ faults = 0

-----------------------------------------------------------------------------
(* pg_tre_extend, called with the metapage (and the pending tail) locked   *)
(* by an append or a free-log chunk, and without any by a rebuild.         *)

(* GetFreeIndexPage is two FSM steps, a search and RecordUsedIndexPage:    *)
(* two backends can be given the same block.                               *)
GetFree(p, b) ==
    /\ alloc[p] = "pick" /\ b \in fsm
    /\ cand' = [cand EXCEPT ![p] = b]
    /\ alloc' = [alloc EXCEPT ![p] = "mark"]
    /\ UNCHANGED <<pageVars, linkVars, fsmVars, next_xid, lockVars, pc, buf, buildVars,
                   freeVars, vacVars, scanVars, faults>>

MarkUsed(p) ==
    /\ alloc[p] = "mark"
    /\ fsm' = fsm \ {cand[p]}
    /\ alloc' = [alloc EXCEPT ![p] = "try"]
    /\ UNCHANGED <<pageVars, linkVars, recorded, next_xid, lockVars, pc, cand, buf,
                   buildVars, freeVars, vacVars, scanVars, faults>>

(* ConditionalLockBuffer fails on a buffer that is held, even by p itself; *)
(* the page is taken only if it is still unclaimed.                        *)
AnyPage(b) == TRUE
Reusable(b) == page[b] = "blank"

WaitForLock(p) ==
    /\ alloc[p] = "try"
    /\ held[cand[p]] = None
    /\ IF Reusable(cand[p])
         THEN /\ held' = [held EXCEPT ![cand[p]] = p]
              /\ buf' = [buf EXCEPT ![p] = cand[p]]
              /\ alloc' = [alloc EXCEPT ![p] = "got"]
         ELSE /\ alloc' = [alloc EXCEPT ![p] = "pick"]
              /\ UNCHANGED <<held, buf>>
    /\ cand' = [cand EXCEPT ![p] = None]
    /\ UNCHANGED <<pageVars, linkVars, fsmVars, next_xid, meta_lock, merge_lock, pc,
                   buildVars, freeVars, vacVars, scanVars, faults>>

TryReuse(p) ==
    /\ alloc[p] = "try"
    /\ IF held[cand[p]] = None /\ Reusable(cand[p])
         THEN /\ held' = [held EXCEPT ![cand[p]] = p]
              /\ buf' = [buf EXCEPT ![p] = cand[p]]
              /\ alloc' = [alloc EXCEPT ![p] = "got"]
         ELSE /\ alloc' = [alloc EXCEPT ![p] = "pick"]
              /\ UNCHANGED <<held, buf>>
    /\ cand' = [cand EXCEPT ![p] = None]
    /\ UNCHANGED <<pageVars, linkVars, fsmVars, next_xid, meta_lock, merge_lock, pc,
                   buildVars, freeVars, vacVars, scanVars, faults>>

(* ExtendBufferedRel: the FSM offered nothing.  A block recorded since the *)
(* FSM's upper levels were last brought up to date may not be offered.     *)
ExtendRel(p) ==
    /\ alloc[p] = "pick" /\ Cardinality(Allocated) < MaxBlocks
    /\ LET b == Cardinality(Allocated) + 1
       IN /\ page' = [page EXCEPT ![b] = "blank"]
          /\ held' = [held EXCEPT ![b] = p]
          /\ buf' = [buf EXCEPT ![p] = b]
    /\ alloc' = [alloc EXCEPT ![p] = "got"]
    /\ UNCHANGED <<del_xid, linkVars, fsmVars, next_xid, meta_lock, merge_lock, pc, cand,
                   buildVars, freeVars, vacVars, scanVars, faults>>

Extend(p) ==
    \/ \E b \in Blocks : GetFree(p, b)
    \/ MarkUsed(p) \/ TryReuse(p) \/ ExtendRel(p)

(* The caller calls pg_tre_extend; it has the page; it has filled it and   *)
(* released it.                                                            *)
CallExtend(p)  == alloc[p] = "no" /\ alloc' = [alloc EXCEPT ![p] = "pick"]
HasPage(p)     == alloc[p] = "got"
FillPage(p)    == page' = [page EXCEPT ![buf[p]] = "live"]
ReleasePage(p) ==
    /\ alloc' = [alloc EXCEPT ![p] = "no"]
    /\ buf' = [buf EXCEPT ![p] = None]

-----------------------------------------------------------------------------
(* pg_tre_pending_append_batch, when the tail is missing or full: the      *)
(* metapage and the tail stay locked while the new tail is allocated.      *)

AppendStart(p) ==
    /\ pc[p] = "idle" /\ p \in Inserters
    /\ meta_lock = None /\ Len(pend) < MaxPending
    /\ pend # <<>> => held[pend[Len(pend)]] = None
    /\ meta_lock' = p
    /\ held' = IF pend = <<>> THEN held ELSE [held EXCEPT ![pend[Len(pend)]] = p]
    /\ CallExtend(p)
    /\ Goto(p, "append")
    /\ UNCHANGED <<pageVars, linkVars, fsmVars, next_xid, merge_lock, cand, buf, buildVars,
                   freeVars, vacVars, scanVars, faults>>

(* The new page is linked behind the old tail in one WAL record.  A scan   *)
(* that may visit the old tail may follow the new link.                    *)
AppendLink(p) ==
    /\ pc[p] = "append" /\ HasPage(p)
    /\ FillPage(p)
    /\ pend' = Append(pend, buf[p])
    /\ may' = [s \in Scanners |->
                  IF pend # <<>> /\ pend[Len(pend)] \in may[s]
                  THEN may[s] \cup {buf[p]} ELSE may[s]]
    /\ meta_lock' = None
    /\ held' = [b \in Blocks |-> IF held[b] = p THEN None ELSE held[b]]
    /\ ReleasePage(p)
    /\ Goto(p, "idle")
    /\ UNCHANGED <<del_xid, tree, log, fsmVars, next_xid, merge_lock, cand, buildVars,
                   freeVars, vacVars, xmin, faults>>

-----------------------------------------------------------------------------
(* A rebuild under the merge lock: pg_tre_pending_merge by an INSERT or by *)
(* VACUUM, or the Hanoi merge or collapse of VACUUM, which consume no      *)
(* pending page.  VACUUM takes the lock for ambulkdelete and again for     *)
(* amvacuumcleanup.                                                        *)

BuildStart(p, consumed) ==
    /\ wm' = [wm EXCEPT ![p] = consumed]
    /\ old' = [old EXCEPT ![p] = tree]
    /\ Goto(p, "build")

MergeTryLock(p) ==
    /\ pc[p] = "idle" /\ p \in Inserters
    /\ merge_lock = None /\ meta_lock = None /\ pend # <<>>
    /\ merge_lock' = p
    /\ BuildStart(p, Len(pend))
    /\ UNCHANGED <<pageVars, linkVars, fsmVars, next_xid, meta_lock, held, allocVars, new,
                   freeVars, vacVars, scanVars, faults>>

AfterMerge(t) == IF t = "bulkdelete" THEN "strip" ELSE "compact"

VacuumStart(t) ==
    /\ pc[Vacuum] = "idle"
    /\ merge_lock = None /\ meta_lock = None
    /\ merge_lock' = Vacuum
    /\ task' = t
    /\ IF pend = <<>> THEN /\ Goto(Vacuum, AfterMerge(t))
                           /\ UNCHANGED <<wm, old>>
                      ELSE BuildStart(Vacuum, Len(pend))
    /\ UNCHANGED <<pageVars, linkVars, fsmVars, next_xid, meta_lock, held, allocVars, new,
                   freeVars, blkno, nblocks, logat, kept, scanVars, faults>>

(* The Hanoi merge or the collapse of amvacuumcleanup, if one is due.      *)
Compact ==
    /\ pc[Vacuum] = "compact" /\ task = "cleanup" /\ meta_lock = None
    /\ task' = "compacted"
    /\ BuildStart(Vacuum, 0)
    /\ UNCHANGED <<pageVars, linkVars, fsmVars, next_xid, lockVars, allocVars, new,
                   freeVars, blkno, nblocks, logat, kept, scanVars, faults>>

(* The rebuild writes page after page: each is filled under its own lock,  *)
(* and nothing refers to it yet.                                           *)
BuildCall(p) ==
    /\ pc[p] = "build" /\ Cardinality(new[p]) < MaxBuilt
    /\ CallExtend(p)
    /\ UNCHANGED <<pageVars, linkVars, fsmVars, next_xid, lockVars, pc, cand, buf,
                   buildVars, freeVars, vacVars, scanVars, faults>>

BuildPage(p) ==
    /\ pc[p] = "build" /\ HasPage(p)
    /\ FillPage(p)
    /\ new' = [new EXCEPT ![p] = @ \cup {buf[p]}]
    /\ held' = [held EXCEPT ![buf[p]] = None]
    /\ ReleasePage(p)
    /\ UNCHANGED <<del_xid, linkVars, fsmVars, next_xid, meta_lock, merge_lock, pc, cand,
                   wm, old, freeVars, vacVars, scanVars, faults>>

(* With pg_tre.flush_to_run what was built becomes a run of the catalog,   *)
(* in a WAL record of its own; the base tree stays.                        *)
FlushRun(p) ==
    /\ pc[p] = "build" /\ alloc[p] = "no" /\ new[p] # {}
    /\ wm[p] # 0 /\ TRUE \in FlushModes /\ meta_lock = None
    /\ tree' = tree \cup new[p]
    /\ old' = [old EXCEPT ![p] = tree']
    /\ new' = [new EXCEPT ![p] = {}]
    /\ Goto(p, "flushed")
    /\ UNCHANGED <<pageVars, pend, log, fsmVars, next_xid, lockVars, allocVars, wm,
                   freeVars, vacVars, scanVars, faults>>

(* The pages of the old tree that the new one does not use; postings of    *)
(* untouched trigrams are passed through to it.                            *)
DropAll(before, after) == before
DropUnused(before, after) == before \ after

(* An empty list of pages is not handed to the free log.                   *)
Batch(S) == IF S = {} THEN <<>> ELSE <<S>>

(* The swap of the root and the truncation of the pending list (or of the  *)
(* catalog) in one WAL record.  The watermark page stays if anything was   *)
(* appended to it or behind it.  What it replaced is freed afterwards, in  *)
(* up to three batches.                                                    *)
Finalize(p) ==
    /\ pc[p] = "flushed" \/ (pc[p] = "build" /\ alloc[p] = "no" /\ new[p] # {})
    /\ pc[p] = "build" /\ wm[p] # 0 => FALSE \in FlushModes
    /\ meta_lock = None
    /\ wm[p] # 0 => held[pend[wm[p]]] = None
    /\ \E passed \in SUBSET old[p], rewind \in BOOLEAN :
          /\ passed = old[p] <=> pc[p] = "flushed"
          /\ wm[p] = 0 => rewind
          /\ Len(pend) > wm[p] => rewind
          /\ tree' = new[p] \cup passed
          /\ pend' = IF ~rewind THEN <<>>
                     ELSE SubSeq(pend, IF wm[p] = 0 THEN 1 ELSE wm[p], Len(pend))
          /\ LET drained == Elems(SubSeq(pend, 1, wm[p] - 1))
                 tail    == IF rewind THEN {} ELSE {pend[wm[p]]}
             IN batches' = [batches EXCEPT ![p] =
                               Batch(drained) \o Batch(tail) \o Batch(DropUnused(old[p], tree'))]
    /\ wm' = [wm EXCEPT ![p] = 0]
    /\ old' = [old EXCEPT ![p] = {}]
    /\ new' = [new EXCEPT ![p] = {}]
    /\ Goto(p, "free")
    /\ UNCHANGED <<pageVars, log, fsmVars, next_xid, lockVars, allocVars, todo, batch_xid,
                   vacVars, scanVars, faults>>

-----------------------------------------------------------------------------
(* pg_tre_free_log_append: one deletion XID for a batch, then chunk after  *)
(* chunk under the metapage lock.                                          *)

FreeBatch(p) ==
    /\ pc[p] = "free" /\ batches[p] # <<>>
    /\ todo' = [todo EXCEPT ![p] = Head(batches[p])]
    /\ batches' = [batches EXCEPT ![p] = Tail(@)]
    /\ batch_xid' = [batch_xid EXCEPT ![p] = next_xid]
    /\ Goto(p, "log")
    /\ UNCHANGED <<pageVars, linkVars, fsmVars, next_xid, lockVars, allocVars, buildVars,
                   vacVars, scanVars, faults>>

(* The first n blocks of a sorted batch.                                   *)
FirstOf(S, n) == {b \in S : Cardinality({c \in S : c < b}) < n}
Entries(S, x) == [block : S, xid : {x}]

NeedLogPage == log # <<>> => Cardinality(log[1].ents) >= LogCap

(* A chunk that fits on the head page: one critical section.               *)
LogChunk(p) ==
    /\ pc[p] = "log" /\ meta_lock = None /\ ~NeedLogPage
    /\ LET take == FirstOf(todo[p], LogCap - Cardinality(log[1].ents))
       IN /\ log' = [log EXCEPT ![1].ents = log[1].ents \cup Entries(take, batch_xid[p])]
          /\ todo' = [todo EXCEPT ![p] = @ \ take]
          /\ Goto(p, IF todo[p] = take THEN "free" ELSE "log")
    /\ UNCHANGED <<pageVars, tree, pend, fsmVars, next_xid, lockVars, allocVars, buildVars,
                   batches, batch_xid, vacVars, scanVars, faults>>

(* No head page, or a full one: the metapage stays locked while a new head *)
(* is allocated and linked in front.                                       *)
LogExtend(p) ==
    /\ pc[p] = "log" /\ meta_lock = None /\ NeedLogPage
    /\ meta_lock' = p
    /\ CallExtend(p)
    /\ Goto(p, "log_page")
    /\ UNCHANGED <<pageVars, linkVars, fsmVars, next_xid, merge_lock, held, cand, buf,
                   buildVars, freeVars, vacVars, scanVars, faults>>

LogNewPage(p) ==
    /\ pc[p] = "log_page" /\ HasPage(p)
    /\ FillPage(p)
    /\ LET take == FirstOf(todo[p], LogCap)
       IN /\ log' = <<[blk |-> buf[p], ents |-> Entries(take, batch_xid[p])]>> \o log
          /\ todo' = [todo EXCEPT ![p] = @ \ take]
          /\ Goto(p, IF todo[p] = take THEN "free" ELSE "log")
    /\ meta_lock' = None
    /\ held' = [held EXCEPT ![buf[p]] = None]
    /\ ReleasePage(p)
    /\ UNCHANGED <<del_xid, tree, pend, fsmVars, next_xid, merge_lock, cand, buildVars,
                   batches, batch_xid, vacVars, scanVars, faults>>

(* Every batch is logged: an INSERT gives the merge lock back, VACUUM goes *)
(* on.                                                                     *)
FreeDone(p) ==
    /\ pc[p] = "free" /\ batches[p] = <<>>
    /\ batch_xid' = [batch_xid EXCEPT ![p] = 0]
    /\ IF p = Vacuum
         THEN /\ Goto(p, AfterMerge(task))
              /\ UNCHANGED merge_lock
         ELSE /\ Goto(p, "idle")
              /\ merge_lock' = None
    /\ UNCHANGED <<pageVars, linkVars, fsmVars, next_xid, meta_lock, held, allocVars,
                   buildVars, batches, todo, vacVars, scanVars, faults>>

-----------------------------------------------------------------------------
(* VACUUM: reclaiming.                                                     *)

(* GlobalVisCheckRemovableFullXid: no snapshot, present or future, can     *)
(* have begun before XID x was assigned.                                   *)
OnlyNextXid(x) == x < next_xid
Removable(x) == x < next_xid /\ \A s \in Scanners : xmin[s] = 0 \/ x < xmin[s]

(* ambulkdelete emptied a non-head leaf: posting_leaf_unlink takes it out  *)
(* of its chain and stamps it, keeping its own link for stale scanners.    *)
Unlink(b) ==
    /\ pc[Vacuum] = "strip" /\ b \in tree /\ tree # {b}
    /\ tree' = tree \ {b}
    /\ page' = [page EXCEPT ![b] = "deleted"]
    /\ del_xid' = [del_xid EXCEPT ![b] = next_xid]
    /\ UNCHANGED <<pend, log, fsmVars, next_xid, lockVars, pc, allocVars, buildVars,
                   freeVars, vacVars, scanVars, faults>>

VacuumUnlock ==
    /\ merge_lock' = None
    /\ task' = "none"
    /\ Goto(Vacuum, "idle")

StripDone ==
    /\ pc[Vacuum] = "strip"
    /\ VacuumUnlock
    /\ UNCHANGED <<pageVars, linkVars, fsmVars, next_xid, meta_lock, held, allocVars,
                   buildVars, freeVars, blkno, nblocks, logat, kept, scanVars, faults>>

(* pg_tre_posting_recycle_deleted visits every block under its lock and    *)
(* blanks the deleted leaves no snapshot can reach; the FSM learns of it   *)
(* in a step of its own, which no WAL record covers.                       *)
SweepStart ==
    /\ pc[Vacuum] = "compact"
    /\ blkno' = 1 /\ nblocks' = Cardinality(Allocated)
    /\ Goto(Vacuum, "sweep")
    /\ UNCHANGED <<pageVars, linkVars, fsmVars, next_xid, lockVars, allocVars, buildVars,
                   freeVars, task, logat, kept, scanVars, faults>>

SweepLock ==
    /\ pc[Vacuum] = "sweep" /\ blkno <= nblocks
    /\ held[blkno] = None
    /\ held' = [held EXCEPT ![blkno] = Vacuum]
    /\ Goto(Vacuum, "sweep_page")
    /\ UNCHANGED <<pageVars, linkVars, fsmVars, next_xid, meta_lock, merge_lock, allocVars,
                   buildVars, freeVars, vacVars, scanVars, faults>>

SweepPage ==
    /\ pc[Vacuum] = "sweep_page"
    /\ IF page[blkno] = "deleted" /\ Removable(del_xid[blkno])
         THEN /\ page' = [page EXCEPT ![blkno] = "blank"]
              /\ del_xid' = [del_xid EXCEPT ![blkno] = 0]
              /\ Goto(Vacuum, "sweep_free")
              /\ UNCHANGED blkno
         ELSE /\ blkno' = blkno + 1
              /\ Goto(Vacuum, "sweep")
              /\ UNCHANGED pageVars
    /\ held' = [held EXCEPT ![blkno] = None]
    /\ UNCHANGED <<linkVars, fsmVars, next_xid, meta_lock, merge_lock, allocVars,
                   buildVars, freeVars, task, nblocks, logat, kept, scanVars, faults>>

(* RecordFreeIndexPage, after whichever step blanked a page.               *)
RecordNext(b) ==
    /\ fsm' = fsm \cup {b + 1}
    /\ recorded' = recorded \cup {b + 1}

RecordFree(b) ==
    /\ fsm' = fsm \cup {b}
    /\ recorded' = recorded \cup {b}

SweepFree ==
    /\ pc[Vacuum] = "sweep_free"
    /\ RecordFree(blkno)
    /\ blkno' = blkno + 1
    /\ Goto(Vacuum, "sweep")
    /\ UNCHANGED <<pageVars, linkVars, next_xid, lockVars, allocVars, buildVars, freeVars,
                   task, nblocks, logat, kept, scanVars, faults>>

SweepDone ==
    /\ pc[Vacuum] = "sweep" /\ blkno > nblocks /\ meta_lock = None
    /\ logat' = 1 /\ blkno' = 0 /\ nblocks' = 0
    /\ Goto(Vacuum, IF log = <<>> THEN "drained" ELSE "drain")
    /\ UNCHANGED <<pageVars, linkVars, fsmVars, next_xid, lockVars, allocVars, buildVars,
                   freeVars, task, kept, scanVars, faults>>

(* pg_tre_free_log_drain tests each entry of each log page once; a         *)
(* removable one is reclaimed: blanking the block and removing the entry   *)
(* are one WAL record, telling the FSM is not part of it.                  *)
DrainKeep(e) ==
    /\ pc[Vacuum] = "drain" /\ e \in log[logat].ents \ kept
    /\ ~Removable(e.xid)
    /\ kept' = kept \cup {e}
    /\ UNCHANGED <<pageVars, linkVars, fsmVars, next_xid, lockVars, pc, allocVars,
                   buildVars, freeVars, task, blkno, nblocks, logat, scanVars, faults>>

DrainReclaim(e) ==
    /\ pc[Vacuum] = "drain" /\ e \in log[logat].ents \ kept
    /\ Removable(e.xid)
    /\ held[e.block] = None
    /\ page' = [page EXCEPT ![e.block] = "blank"]
    /\ log' = [log EXCEPT ![logat].ents = log[logat].ents \ {e}]
    /\ blkno' = e.block
    /\ Goto(Vacuum, "drain_free")
    /\ UNCHANGED <<del_xid, tree, pend, fsmVars, next_xid, lockVars, allocVars, buildVars,
                   freeVars, task, nblocks, logat, kept, scanVars, faults>>

DrainFree ==
    /\ pc[Vacuum] = "drain_free"
    /\ RecordFree(blkno)
    /\ blkno' = 0
    /\ Goto(Vacuum, "drain")
    /\ UNCHANGED <<pageVars, linkVars, next_xid, lockVars, allocVars, buildVars, freeVars,
                   task, nblocks, logat, kept, scanVars, faults>>

DrainHeadOnly ==
    /\ pc[Vacuum] = "drain" /\ log[logat].ents \subseteq kept
    /\ kept' = {}
    /\ Goto(Vacuum, "collapse") /\ logat' = 0
    /\ UNCHANGED <<pageVars, linkVars, fsmVars, next_xid, lockVars, allocVars, buildVars,
                   freeVars, task, blkno, nblocks, scanVars, faults>>

DrainNext ==
    /\ pc[Vacuum] = "drain" /\ log[logat].ents \subseteq kept
    /\ kept' = {}
    /\ IF logat < Len(log) THEN /\ logat' = logat + 1
                                /\ Goto(Vacuum, "drain")
                           ELSE /\ logat' = 0
                                /\ Goto(Vacuum, "collapse")
    /\ UNCHANGED <<pageVars, linkVars, fsmVars, next_xid, lockVars, allocVars, buildVars,
                   freeVars, task, blkno, nblocks, scanVars, faults>>

(* The log's last page goes when it is empty; the metapage stays locked    *)
(* until the FSM has been told.                                            *)
Collapse ==
    /\ pc[Vacuum] = "collapse" /\ meta_lock = None
    /\ IF Len(log) = 1 /\ log[1].ents = {}
         THEN /\ held[log[1].blk] = None
              /\ page' = [page EXCEPT ![log[1].blk] = "blank"]
              /\ blkno' = log[1].blk
              /\ log' = <<>>
              /\ meta_lock' = Vacuum
              /\ Goto(Vacuum, "collapse_free")
         ELSE /\ Goto(Vacuum, "drained")
              /\ UNCHANGED <<page, blkno, log, meta_lock>>
    /\ UNCHANGED <<del_xid, tree, pend, fsmVars, next_xid, merge_lock, held, allocVars,
                   buildVars, freeVars, task, nblocks, logat, kept, scanVars, faults>>

CollapseFree ==
    /\ pc[Vacuum] = "collapse_free"
    /\ RecordFree(blkno)
    /\ blkno' = 0
    /\ meta_lock' = None
    /\ Goto(Vacuum, "drained")
    /\ UNCHANGED <<pageVars, linkVars, next_xid, merge_lock, held, allocVars, buildVars,
                   freeVars, task, nblocks, logat, kept, scanVars, faults>>

CleanupDone ==
    /\ pc[Vacuum] = "drained"
    /\ VacuumUnlock
    /\ logat' = 0
    /\ UNCHANGED <<pageVars, linkVars, fsmVars, next_xid, meta_lock, held, allocVars,
                   buildVars, freeVars, blkno, nblocks, kept, scanVars, faults>>

-----------------------------------------------------------------------------
(* Scans, and the XID counter they are ordered by.                         *)

(* A scan that has read the metapage can reach, by pages and links it      *)
(* reads later, whatever is linked now.  Its snapshot is at its latest,    *)
(* and protects least, when it is taken just before.                       *)
Reach == tree \cup Elems(pend)

ScanStart(s) ==
    /\ xmin[s] = 0 /\ meta_lock = None
    /\ xmin' = [xmin EXCEPT ![s] = next_xid]
    /\ may' = [may EXCEPT ![s] = Reach]
    /\ UNCHANGED <<pageVars, linkVars, fsmVars, next_xid, lockVars, pc, allocVars,
                   buildVars, freeVars, vacVars, faults>>

(* It reads the metapage again for every trigram.                          *)
ScanRoot(s) ==
    /\ xmin[s] # 0 /\ meta_lock = None
    /\ may' = [may EXCEPT ![s] = @ \cup Reach]
    /\ UNCHANGED <<pageVars, linkVars, fsmVars, next_xid, lockVars, pc, allocVars,
                   buildVars, freeVars, vacVars, xmin, faults>>

ScanEnd(s) ==
    /\ xmin[s] # 0
    /\ xmin' = [xmin EXCEPT ![s] = 0]
    /\ may' = [may EXCEPT ![s] = {}]
    /\ UNCHANGED <<pageVars, linkVars, fsmVars, next_xid, lockVars, pc, allocVars,
                   buildVars, freeVars, vacVars, faults>>

AssignXid ==
    /\ next_xid < MaxXid
    /\ next_xid' = next_xid + 1
    /\ UNCHANGED <<pageVars, linkVars, fsmVars, lockVars, pc, allocVars, buildVars,
                   freeVars, vacVars, scanVars, faults>>

-----------------------------------------------------------------------------
(* An ERROR: the backend's locks are released, its work is forgotten.      *)
Error(p) ==
    /\ pc[p] # "idle" /\ faults < MaxFaults
    /\ faults' = faults + 1
    /\ meta_lock' = IF meta_lock = p THEN None ELSE meta_lock
    /\ merge_lock' = IF merge_lock = p THEN None ELSE merge_lock
    /\ held' = [b \in Blocks |-> IF held[b] = p THEN None ELSE held[b]]
    /\ Goto(p, "idle")
    /\ alloc' = [alloc EXCEPT ![p] = "no"]
    /\ cand' = [cand EXCEPT ![p] = None] /\ buf' = [buf EXCEPT ![p] = None]
    /\ wm' = [wm EXCEPT ![p] = 0]
    /\ old' = [old EXCEPT ![p] = {}] /\ new' = [new EXCEPT ![p] = {}]
    /\ batches' = [batches EXCEPT ![p] = <<>>]
    /\ todo' = [todo EXCEPT ![p] = {}]
    /\ batch_xid' = [batch_xid EXCEPT ![p] = 0]
    /\ IF p = Vacuum
         THEN task' = "none" /\ blkno' = 0 /\ nblocks' = 0 /\ logat' = 0 /\ kept' = {}
         ELSE UNCHANGED vacVars
    /\ UNCHANGED <<pageVars, linkVars, fsmVars, next_xid, scanVars>>

(* A crash: pages are as their WAL records left them; the FSM, which is    *)
(* not WAL-logged, is some earlier copy.                                   *)
Crash ==
    /\ faults < MaxFaults
    /\ faults' = faults + 1
    /\ fsm' \in SUBSET recorded
    /\ meta_lock' = None /\ merge_lock' = None
    /\ held' = [b \in Blocks |-> None]
    /\ pc' = [p \in Procs |-> "idle"]
    /\ alloc' = [p \in Procs |-> "no"]
    /\ cand' = [p \in Procs |-> None] /\ buf' = [p \in Procs |-> None]
    /\ wm' = [p \in Procs |-> 0]
    /\ old' = [p \in Procs |-> {}] /\ new' = [p \in Procs |-> {}]
    /\ batches' = [p \in Procs |-> <<>>] /\ todo' = [p \in Procs |-> {}]
    /\ batch_xid' = [p \in Procs |-> 0]
    /\ task' = "none" /\ blkno' = 0 /\ nblocks' = 0 /\ logat' = 0 /\ kept' = {}
    /\ xmin' = [s \in Scanners |-> 0] /\ may' = [s \in Scanners |-> {}]
    /\ UNCHANGED <<pageVars, linkVars, recorded, next_xid>>

-----------------------------------------------------------------------------
(* What a backend does once it is under way.                               *)
WriterStep(p) ==
    \/ Extend(p) \/ AppendLink(p)
    \/ BuildCall(p) \/ BuildPage(p) \/ FlushRun(p) \/ Finalize(p)
    \/ FreeBatch(p) \/ LogChunk(p) \/ LogExtend(p) \/ LogNewPage(p) \/ FreeDone(p)

VacuumStep ==
    \/ WriterStep(Vacuum)
    \/ \E b \in Blocks : Unlink(b)
    \/ StripDone \/ Compact
    \/ SweepStart \/ SweepLock \/ SweepPage \/ SweepFree \/ SweepDone
    \/ \E e \in Logged : DrainKeep(e) \/ DrainReclaim(e)
    \/ DrainFree \/ DrainNext \/ Collapse \/ CollapseFree \/ CleanupDone

Next ==
    \/ \E p \in Inserters : AppendStart(p) \/ MergeTryLock(p) \/ WriterStep(p)
    \/ \E t \in {"bulkdelete", "cleanup"} : VacuumStart(t)
    \/ VacuumStep
    \/ \E s \in Scanners : ScanStart(s) \/ ScanRoot(s) \/ ScanEnd(s)
    \/ AssignXid
    \/ \E p \in Procs : Error(p)
    \/ Crash

Spec == Init /\ [][Next]_vars

(* Backends are scheduled, scans end, transactions are started and         *)
(* autovacuum keeps coming.  VACUUM waits in the lock queue, where trylock *)
(* defers to it (PendingList!CanTryLock), hence strong fairness.           *)
Fairness ==
    /\ \A p \in Inserters : WF_vars(WriterStep(p))
    /\ WF_vars(VacuumStep)
    /\ SF_vars(VacuumStart("cleanup"))
    /\ \A s \in Scanners : WF_vars(ScanEnd(s))
    /\ WF_vars(AssignXid)

FairSpec == Spec /\ Fairness

-----------------------------------------------------------------------------
(* Every variable has its type; buffers are locked by backends, the FSM    *)
(* lists blocks of the file.                                               *)
TypeOK ==
    /\ page \in [Blocks -> PageState]
    /\ del_xid \in [Blocks -> 0 .. MaxXid]
    /\ tree \subseteq Allocated /\ pend \in Seq(Allocated)
    /\ log \in Seq([blk : Allocated, ents : SUBSET [block : Allocated, xid : 1 .. MaxXid]])
    /\ fsm \subseteq Allocated /\ recorded \subseteq Allocated
    /\ next_xid \in 1 .. MaxXid
    /\ meta_lock \in Procs \cup {None} /\ merge_lock \in Procs \cup {None}
    /\ held \in [Blocks -> Procs \cup {None}]
    /\ pc \in [Procs -> {"idle", "append", "build", "flushed", "free", "log", "log_page",
                         "strip", "compact", "sweep", "sweep_page", "sweep_free", "drain",
                         "drain_free", "collapse", "collapse_free", "drained"}]
    /\ alloc \in [Procs -> {"no", "pick", "mark", "try", "got"}]
    /\ cand \in [Procs -> Allocated \cup {None}] /\ buf \in [Procs -> Allocated \cup {None}]
    /\ wm \in [Procs -> Nat]
    /\ old \in [Procs -> SUBSET Allocated] /\ new \in [Procs -> SUBSET Allocated]
    /\ batches \in [Procs -> Seq(SUBSET Allocated)] /\ todo \in [Procs -> SUBSET Allocated]
    /\ batch_xid \in [Procs -> 0 .. MaxXid]
    /\ task \in {"none", "bulkdelete", "cleanup", "compacted"}
    /\ blkno \in Nat /\ nblocks \in Nat /\ logat \in Nat
    /\ kept \subseteq [block : Allocated, xid : 1 .. MaxXid]
    /\ xmin \in [Scanners -> 0 .. MaxXid] /\ may \in [Scanners -> SUBSET Allocated]
    /\ faults \in 0 .. MaxFaults

(* No scan can be led, by a root or a link it read earlier, to a page that *)
(* has been blanked since (and so perhaps reused): neither the drain of    *)
(* the free log nor the sweep of deleted leaves runs ahead of a snapshot.  *)
ScanSafe == \A s \in Scanners : \A b \in may[s] : page[b] \in {"live", "deleted"}

(* A block belongs to one structure only: the trees, the pending list, the *)
(* log's own pages, a tree being built, the page a backend has just been   *)
(* given.  Whatever a stale FSM offers, pg_tre_extend never hands out a    *)
(* page in use, and never the same page twice.                             *)
InUse == tree \cup Elems(pend) \cup LogPages
OneOwner ==
    /\ \A b \in InUse : page[b] = "live"
    /\ Cardinality(InUse) = Cardinality(tree) + Len(pend) + Len(log)
    /\ \A p \in Procs : /\ new[p] \cap InUse = {}
                        /\ buf[p] \notin InUse
                        /\ \A q \in Procs :
                              /\ buf[p] # None => buf[p] \notin new[q]
                              /\ p # q /\ buf[p] # None => buf[p] # buf[q]

(* What the free log lists, or a merge is about to log, is out of every    *)
(* structure and listed once, so that the drain blanks no page in use and  *)
(* no page that was reclaimed before and has been reused since.            *)
ToLog(p) == todo[p] \cup UNION Elems(batches[p])
LogSound ==
    LET all == {e.block : e \in Logged} \cup UNION {ToLog(p) : p \in Procs}
    IN /\ all \cap InUse = {}
       /\ \A p \in Procs : buf[p] \notin all /\ new[p] \cap all = {}
       /\ \A i, j \in DOMAIN log : \A e \in log[i].ents, f \in log[j].ents :
             e.block = f.block => i = j /\ e = f
       /\ \A b \in all : page[b] = "live"

(* Every allocation ends, again and again: no backend waits for a buffer   *)
(* that it holds itself (its own pending tail, which a stale FSM offers    *)
(* it) or whose holder waits for the metapage that it holds.  (The bounded *)
(* file of a model can be used up; a real one is extended.)                *)
OutOfBlocks == Allocated = Blocks /\ fsm = {} /\ \E p \in Procs : alloc[p] = "pick"
AllocFinishes == \A p \in Procs : []<>(alloc[p] = "no" \/ OutOfBlocks)

(* The pages that wait for old snapshots to end, on whatever page of the   *)
(* free log or as deleted leaves, are all reclaimed by later VACUUMs:      *)
(* there comes a time, again and again, when none waits (but for those     *)
(* freed at the last XID of a model).                                      *)
Waiting ==
    {b \in Blocks : page[b] = "deleted" /\ del_xid[b] < MaxXid}
        \cup {e.block : e \in {f \in Logged : f.xid < MaxXid}}
EventuallyReclaimed == []<>(Waiting = {} \/ OutOfBlocks)
====
