------------------------------ MODULE RunCatalog ------------------------------
(***************************************************************************)
(* The run catalog of a pg_tre index: with pg_tre.flush_to_run a merge     *)
(* does not rebuild the base tree but adds a run, an upper tree of its own *)
(* over the new entries, to a chain of catalog pages.  VACUUM keeps the    *)
(* number of runs down: pg_tre_hanoi_merge folds the shallowest level that *)
(* holds more than 2^(L-1) runs into one run of the next level, and past a *)
(* backstop pg_tre_collapse_runs folds everything into a fresh base.  A    *)
(* scan walks base and catalog without any lock between two pages.         *)
(*                                                                         *)
(* Everything that writes here holds the heavyweight merge lock, so there  *)
(* is one writer (its pc); one action is one WAL record.  A tree is named  *)
(* by its root and is the set of its entries.  Roots and catalog pages are *)
(* numbered as they are allocated and 0 is InvalidBlockNumber: reuse of    *)
(* freed pages is the subject of PageReclaim.  An unused definition above  *)
(* one with the same parameters is a faulty variant of it.                 *)
(***************************************************************************)
EXTENDS Integers, Sequences, FiniteSets

CONSTANTS
    Trigrams,       \* trigram hashes, a set of numbers: runs carry a hash range
    Tids,           \* heap TIDs
    Batches,        \* sets of entries a merge may bring
    InitBase,       \* entries of the base tree ambuild wrote
    Scanners,       \* backends that resolve a trigram
    CatalogCap,     \* RUN_CATALOG_CAP: run records on one catalog page
    LevelCaps,      \* values meta.max_levels may have
    Aliases,        \* runs tre_debug_append_run has registered on the base root
    MaxRuns,        \* bound: no flush starts with this many catalog runs
    MaxRoots,       \* bound: no merge starts with this many trees ever built
    MaxFaults       \* bound: crashes

ASSUME CatalogAssumption ==
    /\ Trigrams \subseteq Nat /\ IsFiniteSet(Trigrams) /\ Trigrams # {}
    /\ Batches \subseteq SUBSET (Trigrams \X Tids)
    /\ InitBase \subseteq Trigrams \X Tids
    /\ CatalogCap \in Nat \ {0}
    /\ LevelCaps \subseteq 1 .. 19     \* the code writes 7 and clamps its shifts from 20 on
    /\ Aliases \in 0 .. CatalogCap
    /\ MaxRuns \in Nat /\ MaxRoots \in Nat \ {0} /\ MaxFaults \in Nat

VARIABLES
    root_upper, run_catalog_head, n_runs, next_run_id, max_levels,   \* metapage
    cat,            \* catalog pages: [right_link, runs]
    tree,           \* [root -> its entries], a sequence
    logged,         \* roots whose pages were handed to the free log
    pc,             \* the holder of the merge lock
    picked, target, new_root, dropped,   \* locals of the Hanoi merge, collapse
    it, acc,        \* scans: the run iterator, the union so far
    must,           \* history: what the scan has to find
    faults

metaVars  == <<root_upper, run_catalog_head, n_runs, next_run_id, max_levels>>
storeVars == <<cat, tree, logged>>
mergeVars == <<picked, target, new_root, dropped>>
scanVars  == <<it, acc, must>>
vars == <<metaVars, storeVars, pc, mergeVars, scanVars, faults>>

Invalid == 0
Entry == Trigrams \X Tids

(* PgTreRun; every record the code writes has PG_TRE_RUN_LIVE set.         *)
Run(id, level, root, lo, hi) ==
    [run_id |-> id, level |-> level, root |-> root, lo |-> lo, hi |-> hi]

Elems(s) == {s[i] : i \in DOMAIN s}
Hashes(E) == {e[1] : e \in E}
Least(S) == CHOOSE m \in S : \A x \in S : m <= x
Greatest(S) == CHOOSE m \in S : \A x \in S : x <= m
MinHash == Least(Trigrams)
MaxHash == Greatest(Trigrams)

(* 1 << n                                                                  *)
Pow2(n) == LET f[i \in 0 .. n] == IF i = 0 THEN 1 ELSE 2 * f[i - 1] IN f[n]

(* The elements of a sequence at some of its indices, in order.            *)
Select(s, I) ==
    LET f[i \in 0 .. Len(s)] == IF i = 0 THEN <<>>
                                ELSE IF i \in I THEN Append(f[i - 1], s[i]) ELSE f[i - 1]
    IN f[Len(s)]

(* The catalog runs in the order pg_tre_run_catalog_next yields them after *)
(* the implicit base run: pages from the head, records in page order.      *)
RunsFrom(c) == LET f[b \in 0 .. Len(c)] ==
                     IF b = Invalid THEN <<>> ELSE c[b].runs \o f[c[b].right_link]
               IN f
CatalogRuns == RunsFrom(cat)[run_catalog_head]
Live        == Elems(CatalogRuns)
LiveRoots   == {root_upper} \cup {r.root : r \in Live}

BaseEntries == tree[root_upper]
RunEntries  == UNION {tree[r.root] : r \in Live}
Stored      == BaseEntries \cup RunEntries

(* PgTreRunIter.                                                           *)
Iter(at, h, root, page, idx, n) ==
    [at |-> at, h |-> h, root |-> root, page |-> page, idx |-> idx, n |-> n]
Closed == [at |-> "idle"]

Alias(i) == Run(i, 1, 1, MinHash, MaxHash)

Init ==
    /\ root_upper = 1
    /\ run_catalog_head = IF Aliases = 0 THEN Invalid ELSE 1
    /\ n_runs = IF Aliases = 0 THEN 0 ELSE Aliases + 1
    /\ next_run_id = Aliases + 1
    /\ max_levels \in LevelCaps
    /\ cat = IF Aliases = 0 THEN <<>>
             ELSE <<[right_link |-> Invalid, runs |-> [i \in 1 .. Aliases |-> Alias(i)]]>>
    /\ tree = <<InitBase>>
    /\ logged = {}
    /\ pc = "idle"
    /\ picked = <<>> /\ target = 0 /\ new_root = Invalid /\ dropped = {}
    /\ it = [s \in Scanners |-> Closed]
    /\ acc = [s \in Scanners |-> {}] /\ must = [s \in Scanners |-> {}]
    /\ faults = 0

-----------------------------------------------------------------------------
(* pg_tre_run_catalog_append: the record goes to the head page, or to a    *)
(* fresh page in front of it; one WAL record covers page and metapage.     *)

(* Faulty variant: one record too many.                                    *)
HeadHasRoomForOneMore ==
    /\ run_catalog_head # Invalid
    /\ Len(cat[run_catalog_head].runs) <= CatalogCap
HeadHasRoom ==
    /\ run_catalog_head # Invalid
    /\ Len(cat[run_catalog_head].runs) < CatalogCap

(* The first append counts the implicit base run too.                      *)
BaseNotCounted == n_runs + 1
RunsAfterAppend == IF n_runs = 0 THEN 2 ELSE n_runs + 1

AppendRun(level, root, lo, hi) ==
    LET run == Run(next_run_id, level, root, lo, hi) IN
    /\ IF HeadHasRoom
         THEN /\ cat' = [cat EXCEPT ![run_catalog_head] =
                             [right_link |-> cat[run_catalog_head].right_link,
                              runs |-> Append(cat[run_catalog_head].runs, run)]]
              /\ run_catalog_head' = run_catalog_head
         ELSE /\ cat' = Append(cat, [right_link |-> run_catalog_head, runs |-> <<run>>])
              /\ run_catalog_head' = Len(cat) + 1
    /\ next_run_id' = next_run_id + 1
    /\ n_runs' = RunsAfterAppend

-----------------------------------------------------------------------------
(* What a merge of the pending list does to the trees.                     *)

(* With pg_tre.flush_to_run: a tree over the batch alone becomes a run.    *)
FlushRun(E) ==
    /\ pc = "idle" /\ E # {}
    /\ Len(CatalogRuns) < MaxRuns /\ Len(tree) < MaxRoots
    /\ tree' = Append(tree, E)
    /\ AppendRun(1, Len(tree) + 1, Least(Hashes(E)), Greatest(Hashes(E)))
    /\ UNCHANGED <<root_upper, max_levels, logged, pc, mergeVars, scanVars, faults>>

(* Without: the base is rebuilt with the batch and the root swapped.  The  *)
(* old tree is freed afterwards unless a catalog run has the same root.    *)
RebuildBase(E) ==
    /\ pc = "idle" /\ Len(tree) < MaxRoots
    /\ tree' = Append(tree, BaseEntries \cup E)
    /\ root_upper' = Len(tree) + 1
    /\ dropped' = IF \E r \in Live : r.root = root_upper THEN {} ELSE {root_upper}
    /\ pc' = "free"
    /\ UNCHANGED <<run_catalog_head, n_runs, next_run_id, max_levels, cat, logged, picked, target,
                   new_root, scanVars, faults>>

FreeOldBase ==
    /\ pc = "free"
    /\ logged' = logged \cup dropped
    /\ dropped' = {} /\ pc' = "idle"
    /\ UNCHANGED <<metaVars, cat, tree, picked, target, new_root, scanVars, faults>>

(* ambulkdelete strips the postings of a dead TID from every live tree.    *)
BulkDelete(d) ==
    /\ pc = "idle"
    /\ \E e \in Stored : e[2] = d
    /\ tree' = [r \in DOMAIN tree |->
                  IF r \in LiveRoots THEN {e \in tree[r] : e[2] # d} ELSE tree[r]]
    /\ must' = [s \in Scanners |-> {e \in must[s] : e[2] # d}]
    /\ UNCHANGED <<metaVars, cat, logged, pc, mergeVars, it, acc, faults>>

-----------------------------------------------------------------------------
(* pg_tre_hanoi_merge, one pass at a time.                                 *)

PrefixOf(s, n) == SubSeq(s, 1, IF n <= Len(s) THEN n ELSE Len(s))
AtLevel(s, lv) == Select(s, {i \in DOMAIN s : s[i].level = lv})
NotAtLevel(s, lv) == Select(s, {i \in DOMAIN s : s[i].level # lv})

(* The shallowest level over its capacity, 0 if there is none.             *)
OverFull(s) ==
    LET over == {lv \in 1 .. max_levels - 1 : Len(AtLevel(s, lv)) > Pow2(lv - 1)}
    IN IF over = {} THEN 0 ELSE Least(over)

(* root_is_shared: the base or a run of another level reaches this tree.   *)
NeverShared(root, s, lv) == FALSE
SharedWithItself(root, s, lv) == root = root_upper \/ \E r \in Elems(s) : r.root = root
RootIsShared(root, s, lv) ==
    \/ root = root_upper
    \/ \E r \in Elems(s) : r.root = root /\ r.level # lv

VacuumCleanup ==
    /\ pc = "idle"
    /\ pc' = "hanoi"
    /\ UNCHANGED <<metaVars, storeVars, mergeVars, scanVars, faults>>

(* The pass reads at most CatalogCap runs, folds those of the target level *)
(* and writes their union as a new tree.                                   *)
HanoiPass ==
    LET read == PrefixOf(CatalogRuns, CatalogCap)
        lv   == OverFull(read)
        fold == Elems(AtLevel(read, lv))
    IN
    /\ pc = "hanoi" /\ lv # 0
    /\ picked' = read /\ target' = lv
    /\ tree' = Append(tree, UNION {tree[r.root] : r \in fold})
    /\ new_root' = Len(tree) + 1
    /\ dropped' = {r.root : r \in {f \in fold : ~RootIsShared(f.root, read, lv)}}
    /\ pc' = "promote"
    /\ UNCHANGED <<metaVars, cat, logged, scanVars, faults>>

(* The promoted run covers the hash ranges of the runs it replaces; it is  *)
(* appended first, to get its run_id.                                      *)
RangeOf(s) == <<Least({r.lo : r \in Elems(s)}), Greatest({r.hi : r \in Elems(s)})>>

HanoiPromote ==
    LET range == IF tree[new_root] = {} THEN <<MinHash, MaxHash>>
                 ELSE RangeOf(AtLevel(picked, target))
    IN
    /\ pc = "promote"
    /\ AppendRun(target + 1, new_root, range[1], range[2])
    /\ pc' = "rewrite"
    /\ UNCHANGED <<root_upper, max_levels, tree, logged, mergeVars, scanVars, faults>>

(* pg_tre_run_catalog_rewrite: survivors and the promoted run on one fresh *)
(* page, installed with the metapage in one WAL record.                    *)
PromotedRun == cat[run_catalog_head].runs[Len(cat[run_catalog_head].runs)]
SurvivorsOnly == NotAtLevel(picked, target)
Rewritten == Append(NotAtLevel(picked, target), PromotedRun)

HanoiRewrite ==
    /\ pc = "rewrite"
    /\ cat' = Append(cat, [right_link |-> Invalid, runs |-> Rewritten])
    /\ run_catalog_head' = Len(cat) + 1
    /\ n_runs' = Len(Rewritten) + 1
    /\ pc' = "hanoi_log"
    /\ UNCHANGED <<root_upper, next_run_id, max_levels, tree, logged, mergeVars, scanVars, faults>>

HanoiLog ==
    /\ pc = "hanoi_log"
    /\ logged' = logged \cup dropped
    /\ dropped' = {} /\ picked' = <<>> /\ target' = 0 /\ new_root' = Invalid
    /\ pc' = "hanoi"
    /\ UNCHANGED <<metaVars, cat, tree, scanVars, faults>>

HanoiDone ==
    /\ pc = "hanoi"
    /\ OverFull(PrefixOf(CatalogRuns, CatalogCap)) = 0
    /\ pc' = "backstop"
    /\ UNCHANGED <<metaVars, storeVars, mergeVars, scanVars, faults>>

-----------------------------------------------------------------------------
(* The backstop of amvacuumcleanup and pg_tre_collapse_runs.               *)

RunCount == IF n_runs = 0 THEN 1 ELSE n_runs

CollapseSkipped ==
    /\ pc = "backstop"
    /\ RunCount <= Pow2(max_levels)
    /\ pc' = "idle"
    /\ UNCHANGED <<metaVars, storeVars, mergeVars, scanVars, faults>>

(* Every live run, the base included, is folded; all their pages go.       *)
CollapseFold ==
    /\ pc = "backstop"
    /\ RunCount > Pow2(max_levels)
    /\ tree' = Append(tree, Stored)
    /\ new_root' = Len(tree) + 1
    /\ dropped' = LiveRoots
    /\ pc' = "reset"
    /\ UNCHANGED <<metaVars, cat, logged, picked, target, scanVars, faults>>

CollapseReset ==
    /\ pc = "reset"
    /\ root_upper' = new_root
    /\ run_catalog_head' = Invalid
    /\ n_runs' = 0
    /\ pc' = "collapse_log"
    /\ UNCHANGED <<next_run_id, max_levels, storeVars, mergeVars, scanVars, faults>>

CollapseLog ==
    /\ pc = "collapse_log"
    /\ logged' = logged \cup dropped
    /\ dropped' = {} /\ new_root' = Invalid
    /\ pc' = "idle"
    /\ UNCHANGED <<metaVars, cat, tree, picked, target, scanVars, faults>>

(* A crash loses the locals of every backend; each WAL record above is     *)
(* replayed whole.                                                         *)
Crash ==
    /\ faults < MaxFaults
    /\ faults' = faults + 1
    /\ pc' = "idle"
    /\ picked' = <<>> /\ target' = 0 /\ new_root' = Invalid /\ dropped' = {}
    /\ it' = [s \in Scanners |-> Closed]
    /\ acc' = [s \in Scanners |-> {}] /\ must' = [s \in Scanners |-> {}]
    /\ UNCHANGED <<metaVars, storeVars>>

-----------------------------------------------------------------------------
(* resolve_trigram_runs: the union of one trigram over all live runs,      *)
(* through an iterator that locks one catalog page at a time.              *)

EntriesOf(h, E) == {e \in E : e[1] = h}

ScanOpen(s, h) ==
    /\ it[s].at = "idle"
    /\ it' = [it EXCEPT ![s] = Iter("base", h, root_upper, run_catalog_head, 0, 0)]
    /\ must' = [must EXCEPT ![s] = EntriesOf(h, Stored)]
    /\ UNCHANGED <<metaVars, storeVars, pc, mergeVars, acc, faults>>

(* Faulty variant: the head is read when the walk gets to it.              *)
CurrentHead(s) == run_catalog_head
FirstPage(s) == it[s].page

ScanBase(s) ==
    /\ it[s].at = "base"
    /\ acc' = [acc EXCEPT ![s] = @ \cup EntriesOf(it[s].h, tree[it[s].root])]
    /\ it' = [it EXCEPT ![s] = Iter("load", it[s].h, it[s].root, FirstPage(s), 0, 0)]
    /\ UNCHANGED <<metaVars, storeVars, pc, mergeVars, must, faults>>

(* catalog_load_page: the run count of the page as it is now.              *)
ScanLoad(s) ==
    /\ it[s].at = "load" /\ it[s].page # Invalid
    /\ it' = [it EXCEPT ![s] = Iter("read", it[s].h, it[s].root, it[s].page, 1,
                                    Len(cat[it[s].page].runs))]
    /\ UNCHANGED <<metaVars, storeVars, pc, mergeVars, acc, must, faults>>

ScanExhausted(s) ==
    /\ it[s].at = "load" /\ it[s].page = Invalid
    /\ it' = [it EXCEPT ![s] = Iter("done", it[s].h, it[s].root, Invalid, 0, 0)]
    /\ UNCHANGED <<metaVars, storeVars, pc, mergeVars, acc, must, faults>>

(* One run: skipped if the hash is outside its range.                      *)
ScanRun(s) ==
    /\ it[s].at = "read" /\ it[s].idx <= it[s].n
    /\ LET r == cat[it[s].page].runs[it[s].idx]
           h == it[s].h
       IN acc' = [acc EXCEPT ![s] =
                    IF h < r.lo \/ h > r.hi THEN @ ELSE @ \cup EntriesOf(h, tree[r.root])]
    /\ it' = [it EXCEPT ![s] = Iter("read", it[s].h, it[s].root, it[s].page, it[s].idx + 1, it[s].n)]
    /\ UNCHANGED <<metaVars, storeVars, pc, mergeVars, must, faults>>

ScanFollow(s) ==
    /\ it[s].at = "read" /\ it[s].idx > it[s].n
    /\ it' = [it EXCEPT ![s] = Iter("load", it[s].h, it[s].root, cat[it[s].page].right_link, 0, 0)]
    /\ UNCHANGED <<metaVars, storeVars, pc, mergeVars, acc, must, faults>>

ScanEnd(s) ==
    /\ it[s].at = "done"
    /\ it' = [it EXCEPT ![s] = Closed]
    /\ acc' = [acc EXCEPT ![s] = {}] /\ must' = [must EXCEPT ![s] = {}]
    /\ UNCHANGED <<metaVars, storeVars, pc, mergeVars, faults>>

-----------------------------------------------------------------------------
Next ==
    \/ \E E \in Batches : FlushRun(E) \/ RebuildBase(E)
    \/ FreeOldBase
    \/ \E d \in Tids : BulkDelete(d)
    \/ VacuumCleanup \/ HanoiPass \/ HanoiPromote \/ HanoiRewrite \/ HanoiLog \/ HanoiDone
    \/ CollapseSkipped \/ CollapseFold \/ CollapseReset \/ CollapseLog
    \/ Crash
    \/ \E s \in Scanners :
         \/ \E h \in Trigrams : ScanOpen(s, h)
         \/ ScanBase(s) \/ ScanLoad(s) \/ ScanExhausted(s) \/ ScanRun(s) \/ ScanFollow(s) \/ ScanEnd(s)

Spec == Init /\ [][Next]_vars

-----------------------------------------------------------------------------
(* The catalog is well formed: links lead to older pages, pages are not    *)
(* empty, records name trees that were built, one holder's pc.             *)
RunType == [run_id : 1 .. next_run_id, level : 1 .. max_levels, root : DOMAIN tree,
            lo : Trigrams, hi : Trigrams]
TypeOK ==
    /\ tree \in Seq(SUBSET Entry) /\ root_upper \in DOMAIN tree
    /\ run_catalog_head \in 0 .. Len(cat)
    /\ \A b \in DOMAIN cat :
         /\ cat[b].right_link \in 0 .. b - 1
         /\ Len(cat[b].runs) \in 1 .. CatalogCap
         /\ Elems(cat[b].runs) \subseteq RunType
    /\ n_runs \in Nat /\ next_run_id \in Nat /\ max_levels \in LevelCaps
    /\ logged \subseteq DOMAIN tree /\ dropped \subseteq DOMAIN tree
    /\ pc \in {"idle", "free", "hanoi", "promote", "rewrite", "hanoi_log", "backstop",
               "reset", "collapse_log"}

(* Compaction keeps every entry: seen as a base and a set of run entries,  *)
(* the catalog only ever takes the steps of RunStore (flush, rebuild,      *)
(* collapse, bulk delete); what pg_tre_hanoi_merge does with levels,       *)
(* pages, ranges and run_ids is invisible, also across a crash between     *)
(* the append of the promoted run and the rewrite.                         *)
Store == INSTANCE RunStore WITH base <- BaseEntries, runs <- RunEntries
RefinesRunStore == Store!Spec

(* A scan that resolves a trigram while runs are appended, merged,         *)
(* promoted, collapsed and freed finds every entry that was stored when it *)
(* opened the iterator and that no bulk delete removed since.              *)
ScanComplete == \A s \in Scanners : it[s].at = "done" => must[s] \subseteq acc[s]

(* Pages handed to the free log belong to trees that neither the metapage  *)
(* nor a catalog run reaches, runs that alias the base root included.      *)
LoggedUnreachable == logged \cap LiveRoots = {}

(* meta.n_runs, from which the backstop is taken, is the number of runs    *)
(* the iterator yields, and run_ids identify runs.                         *)
CountExact ==
    /\ RunCount = Len(CatalogRuns) + 1
    /\ \A i, j \in DOMAIN CatalogRuns :
         i # j => CatalogRuns[i].run_id # CatalogRuns[j].run_id
    /\ \A r \in Live : r.run_id < next_run_id

(* No tree is forgotten: while no crash has come between a switch of the   *)
(* catalog and its log record, every tree ever built is reached from the   *)
(* metapage or the catalog, or its pages were handed to the free log, or   *)
(* the holder of the merge lock still has it to install or to free.  That  *)
(* covers trees shared between runs and with the base, which the first to  *)
(* drop them may not free and the last one must.                           *)
NoTreeForgotten ==
    faults = 0 => DOMAIN tree \subseteq LiveRoots \cup logged \cup dropped \cup {new_root}
==============================================================================
