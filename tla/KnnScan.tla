------------------------------- MODULE KnnScan -------------------------------
(***************************************************************************)
(* The tuple-at-a-time scan of a pg_tre index (amgettuple, amscan.c):      *)
(* knn_build collects heap TIDs with their edit distances, either from the *)
(* candidate sparsemap or, when the query has no trigrams, by streaming    *)
(* the heap; the executor then fetches each TID through its HOT chain.     *)
(*                                                                         *)
(* The heap is modelled from how amscan.c uses it: line pointers, MVCC     *)
(* versions, HOT chains, pruning and reuse, all of it while the scan runs. *)
(* A transaction is one step, its commit; a transaction number is also the *)
(* snapshot taken after it.  A row's text is an abstract body, of which    *)
(* the query sees whether it satisfies WHERE and its distance, if any.     *)
(* An unused definition above one with the same parameters is a faulty     *)
(* variant of it.                                                          *)
(***************************************************************************)
EXTENDS Integers, Sequences, FiniteSets, SequencesExt

CONSTANTS
    Blocks, MaxOff,     \* heap blocks, and MaxHeapTuplesPerPage
    Loads,              \* the tables the index may be built over: bodies by TID
    Packings,           \* how the index may pack TIDs
    Bodies,
    Satisfies, Dist,    \* per body: the WHERE clause, and <@> or NoDist (NULL)
    Modes,              \* the kinds of query: [where, orderby, always]
    MaxXid              \* bound: transactions

NoDist == -1
Invalid == 0            \* InvalidOffsetNumber; also no transaction
NoBlock == -1           \* InvalidBlockNumber
LegacyStride == 65536   \* offsets have 16 bits

ASSUME KnnAssumption ==
    /\ Blocks \subseteq Nat /\ MaxOff \in 1 .. (LegacyStride - 1) /\ MaxXid \in Nat \ {0}
    /\ Packings \subseteq {"legacy", "dense"}
    /\ \A load \in Loads : DOMAIN load \subseteq Blocks \X (1 .. MaxOff)
                           /\ \A t \in DOMAIN load : load[t] \in Bodies
    /\ Satisfies \in [Bodies -> BOOLEAN]
    /\ Dist \in [Bodies -> Nat \cup {NoDist}]
    /\ Modes \subseteq [where : BOOLEAN, orderby : BOOLEAN, always : BOOLEAN]
    /\ \A m \in Modes : m.where \/ m.orderby

VARIABLES
    packing,            \* the index's tid_packing
    heap,               \* line pointers: [lp, xmin, xmax, heapOnly, link, body]
    xid,                \* the last transaction
    idx,                \* what the index stores: [tid, body]
    pc, mode, snap,     \* the scan: phase, the query it serves, xs_snapshot
    todo, pin, vis,     \* heap_getnext: pages to come, the pinned page, its visible offsets
    root_blkno, root_offsets,
    cand,               \* the candidate sparsemap, packed TIDs
    entries, knn_pos, knn_markpos,
    out, marked         \* the executor: rows it has, how many when it marked

heapVars == <<packing, heap, xid, idx>>
pageVars == <<todo, pin, vis, root_blkno, root_offsets>>
execVars == <<knn_pos, knn_markpos, out, marked>>
vars == <<heapVars, pc, mode, snap, pageVars, cand, entries, execVars>>

Offsets == 1 .. MaxOff
Tids == Blocks \X Offsets
NoRoots == [o \in Offsets |-> Invalid]

-----------------------------------------------------------------------------
(* pg_tre_pack_tid and pg_tre_unpack_tid.                                  *)

Stride(pk) == IF pk = "dense" THEN MaxOff + 1 ELSE LegacyStride

PackTid(pk, tid) == tid[1] * Stride(pk) + tid[2]
UnpackTid(pk, packed) == <<packed \div Stride(pk), packed % Stride(pk)>>

-----------------------------------------------------------------------------
(* The heap.                                                               *)

Line(lp, xmin, heapOnly, link, body) ==
    [lp |-> lp, xmin |-> xmin, xmax |-> Invalid, heapOnly |-> heapOnly,
     link |-> link, body |-> body]
NoBody == "none"
Unused == Line("unused", Invalid, FALSE, Invalid, NoBody)
DeadLine == Line("dead", Invalid, FALSE, Invalid, NoBody)
Redirect(off) == Line("redirect", Invalid, FALSE, off, NoBody)

Visible(l, s) ==
    /\ l.lp = "normal" /\ l.xmin <= s
    /\ l.xmax = Invalid \/ l.xmax > s

(* The offsets of the HOT chain that goes through off, from off on: what   *)
(* every set that holds off, and with a line the one it links to, holds.   *)
Closed(h, b, S) == \A o \in S : h[<<b, o>>].link # Invalid => h[<<b, o>>].link \in S
ChainFrom(h, b, off) ==
    {o \in Offsets : \A S \in SUBSET Offsets : off \in S /\ Closed(h, b, S) => o \in S}

IsRoot(l) == l.lp = "redirect" \/ (l.lp = "normal" /\ ~l.heapOnly)

(* heap_fetch: the tuple at exactly this TID, if it is visible.            *)
HeapFetch(tid) == Visible(heap[tid], snap)

(* heap_hot_search_buffer: the visible member of the chain that starts at  *)
(* tid; a chain never starts at a heap-only tuple.                         *)
HotSearch(tid) ==
    IF ~IsRoot(heap[tid]) THEN {}
    ELSE {<<tid[1], o>> : o \in {p \in ChainFrom(heap, tid[1], tid[2]) :
                                    Visible(heap[<<tid[1], p>>], snap)}}

(* heap_get_root_tuples                                                    *)
GetRootTuples(b) ==
    [o \in Offsets |->
        LET roots == {r \in Offsets : /\ IsRoot(heap[<<b, r>>])
                                      /\ heap[<<b, o>>].lp = "normal"
                                      /\ o \in ChainFrom(heap, b, r)}
        IN IF roots = {} THEN Invalid ELSE CHOOSE r \in roots : TRUE]

Init ==
    /\ packing \in Packings
    /\ \E load \in Loads :
         /\ heap = [t \in Tids |-> IF t \in DOMAIN load THEN Line("normal", 1, FALSE, Invalid, load[t])
                                   ELSE Unused]
         /\ idx = {[tid |-> t, body |-> load[t]] : t \in DOMAIN load}
    /\ xid = 1
    /\ pc = "idle" /\ mode \in Modes /\ snap = Invalid
    /\ todo = {} /\ pin = NoBlock /\ vis = {}
    /\ root_blkno = NoBlock /\ root_offsets = NoRoots
    /\ cand = {} /\ entries = <<>> /\ knn_pos = 0 /\ knn_markpos = -1
    /\ out = <<>> /\ marked = 0

-----------------------------------------------------------------------------
(* Other sessions.  The body is the indexed column: an update that keeps   *)
(* it and finds room on the page is HOT and leaves the index alone.        *)

Current(t) == heap[t].lp = "normal" /\ heap[t].xmax = Invalid

(* PageAddItem takes the first unused line pointer of the page.            *)
FirstFree(b) ==
    LET free == {o \in Offsets : heap[<<b, o>>].lp = "unused"}
    IN {<<b, o>> : o \in {p \in free : \A q \in free : p <= q}}

Commit(h, i) ==
    /\ xid < MaxXid /\ xid' = xid + 1 /\ heap' = h /\ idx' = i
    /\ UNCHANGED <<packing, pc, mode, snap, pageVars, cand, entries, execVars>>

HotUpdate(t) ==
    \E u \in FirstFree(t[1]) :
    /\ Current(t)
    /\ Commit([heap EXCEPT ![t].xmax = xid + 1, ![t].link = u[2],
                           ![u] = Line("normal", xid + 1, TRUE, Invalid, heap[t].body)], idx)

Update(t, blk, b) ==
    \E u \in FirstFree(blk) :
    /\ Current(t) /\ b # heap[t].body
    /\ Commit([heap EXCEPT ![t].xmax = xid + 1,
                           ![u] = Line("normal", xid + 1, FALSE, Invalid, b)],
              idx \cup {[tid |-> u, body |-> b]})

Delete(t) == Current(t) /\ Commit([heap EXCEPT ![t].xmax = xid + 1], idx)

(* heap_page_prune: versions that no snapshot can see go, the root of a    *)
(* chain stays as a redirect to its first survivor, or as a dead line.     *)
(* Needs a cleanup lock, so never on a page a scan has pinned.             *)
Horizon == IF pc = "idle" THEN xid ELSE snap
Gone(l) == l.lp = "normal" /\ l.xmax # Invalid /\ l.xmax <= Horizon

PrunedBlock(b) ==
    [t \in Tids |->
        LET chain == ChainFrom(heap, b, t[2])
            left == {o \in chain : heap[<<b, o>>].lp = "normal" /\ ~Gone(heap[<<b, o>>])}
        IN IF t[1] # b THEN heap[t]
           ELSE IF IsRoot(heap[t]) /\ t[2] \notin left
                THEN IF left = {} THEN DeadLine
                     ELSE Redirect(CHOOSE o \in left : left \subseteq ChainFrom(heap, b, o))
           ELSE IF Gone(heap[t]) THEN Unused
           ELSE heap[t]]

Prune(b) ==
    /\ pin # b /\ PrunedBlock(b) # heap
    /\ heap' = PrunedBlock(b)
    /\ UNCHANGED <<packing, xid, idx, pc, mode, snap, pageVars, cand, entries, execVars>>

(* VACUUM takes a dead root out of the index, then frees its line pointer. *)
Vacuum(t) ==
    /\ heap[t].lp = "dead"
    /\ heap' = [heap EXCEPT ![t] = Unused]
    /\ idx' = {e \in idx : e.tid # t}
    /\ UNCHANGED <<packing, xid, pc, mode, snap, pageVars, cand, entries, execVars>>

-----------------------------------------------------------------------------
(* pg_tre_ambeginscan and pg_tre_amrescan.                                 *)

ResetKnn == entries' = <<>> /\ knn_pos' = 0 /\ knn_markpos' = -1

BeginScan ==
    /\ pc = "idle"
    /\ pc' = "rescanned" /\ snap' = xid
    /\ ResetKnn /\ out' = <<>> /\ marked' = 0
    /\ UNCHANGED <<heapVars, mode, pageVars, cand>>

Rescan ==
    /\ pc = "ready"
    /\ pc' = "rescanned"
    /\ ResetKnn /\ out' = <<>> /\ marked' = 0
    /\ UNCHANGED <<heapVars, mode, snap, pageVars, cand>>

-----------------------------------------------------------------------------
(* knn_build.  The candidates come from the pattern of the WHERE clause,   *)
(* or without one from that of the ORDER BY; they are a superset, dead     *)
(* rows included, of the stored TIDs whose body has it.                    *)

Wanted(body) == IF mode.where THEN Satisfies[body] ELSE Dist[body] # NoDist
Qualifies(body) == mode.where => Satisfies[body]
Ranked(body) == mode.orderby => Dist[body] # NoDist
DistOf(body) == IF mode.orderby THEN Dist[body] ELSE 0

Candidates ==
    LET stored == {e.tid : e \in idx}
        must == {e.tid : e \in {f \in idx : Wanted(f.body)}}
    IN {S \in SUBSET stored : must \subseteq S}

BuildStart ==
    /\ pc = "rescanned"
    /\ IF mode.always
       THEN /\ pc' = "pages" /\ todo' = Blocks /\ cand' = {}
       ELSE /\ \E S \in Candidates : cand' = {PackTid(packing, t) : t \in S}
            /\ pc' = "cands" /\ UNCHANGED todo
    /\ UNCHANGED <<heapVars, mode, snap, pin, vis, root_blkno, root_offsets, entries, execVars>>

(* heap_getnext reads a page at a time: it pins the page and notes the     *)
(* visible tuples.                                                         *)
VisibleOffsets(b) == {o \in Offsets : Visible(heap[<<b, o>>], snap)}

GetPage(b) ==
    /\ pc = "pages" /\ b \in todo
    /\ pc' = "page" /\ todo' = todo \ {b} /\ pin' = b
    /\ vis' = VisibleOffsets(b)
    /\ UNCHANGED <<heapVars, mode, snap, root_blkno, root_offsets, cand, entries, execVars>>

PageDone ==
    /\ pc = "page" /\ vis = {}
    /\ pc' = "pages" /\ pin' = NoBlock
    /\ UNCHANGED <<heapVars, mode, snap, todo, vis, root_blkno, root_offsets, cand, entries, execVars>>

AddEntry(tid, body) ==
    entries' = Append(entries, [packed_tid |-> PackTid(packing, tid), dist |-> DistOf(body)])

(* The TID of the chain's root, if the root map knows it.                  *)
RootOffset(map, off) == IF map[off] # Invalid THEN map[off] ELSE off

OffsetUnmapped(off) == root_offsets[off] = Invalid
MapStale(off) == root_blkno # pin \/ root_offsets[off] = Invalid

StreamTuple ==
    /\ pc = "page" /\ vis # {}
    /\ LET off == CHOOSE o \in vis : \A p \in vis : o <= p
           tup == heap[<<pin, off>>]
       IN /\ vis' = vis \ {off}
          /\ IF ~Ranked(tup.body)
             THEN UNCHANGED <<root_blkno, root_offsets, entries>>
             ELSE IF ~tup.heapOnly
             THEN AddEntry(<<pin, off>>, tup.body) /\ UNCHANGED <<root_blkno, root_offsets>>
             ELSE /\ root_offsets' = IF MapStale(off) THEN GetRootTuples(pin) ELSE root_offsets
                  /\ root_blkno' = IF MapStale(off) THEN pin ELSE root_blkno
                  /\ AddEntry(<<pin, RootOffset(root_offsets', off)>>, tup.body)
    /\ UNCHANGED <<heapVars, pc, mode, snap, todo, pin, cand, execVars>>

(* sm_next_member and, for the distance, heap_fetch.                       *)
NextCandidate ==
    /\ pc = "cands" /\ cand # {}
    /\ LET packed == CHOOSE p \in cand : \A q \in cand : p <= q
           tid == UnpackTid(packing, packed)
       IN /\ cand' = cand \ {packed}
          /\ IF ~mode.orderby
             THEN entries' = Append(entries, [packed_tid |-> packed, dist |-> 0])
             ELSE IF HeapFetch(tid) /\ Ranked(heap[tid].body)
             THEN entries' = Append(entries, [packed_tid |-> packed, dist |-> DistOf(heap[tid].body)])
             ELSE UNCHANGED entries
    /\ UNCHANGED <<heapVars, pc, mode, snap, pageVars, execVars>>

(* knn_entry_cmp                                                           *)
TidOnly(x, y) == x.packed_tid < y.packed_tid
EntryCmp(x, y) == x.dist < y.dist \/ (x.dist = y.dist /\ x.packed_tid < y.packed_tid)

(* qsort: an entry comes after those that compare lower.                   *)
Before(s, i, j) == EntryCmp(s[i], s[j]) \/ (~EntryCmp(s[j], s[i]) /\ i < j)
Rank(s, i) == Cardinality({j \in DOMAIN s : Before(s, j, i)})
Sorted(s) == [k \in DOMAIN s |-> s[CHOOSE i \in DOMAIN s : Rank(s, i) = k - 1]]

BuildEnd ==
    /\ \/ pc = "pages" /\ todo = {}
       \/ pc = "cands" /\ cand = {}
    /\ pc' = "ready"
    /\ entries' = IF mode.orderby THEN Sorted(entries) ELSE entries
    /\ root_blkno' = NoBlock /\ root_offsets' = NoRoots
    /\ UNCHANGED <<heapVars, mode, snap, todo, pin, vis, cand, execVars>>

(* pg_tre_check_match_timeout or a cancelled query: the scan is gone and   *)
(* the transaction's end drops its pin.                                    *)
BuildError ==
    /\ pc \in {"pages", "page", "cands"}
    /\ pc' = "idle" /\ pin' = NoBlock /\ vis' = {} /\ todo' = {} /\ cand' = {}
    /\ root_blkno' = NoBlock /\ root_offsets' = NoRoots
    /\ ResetKnn /\ snap' = Invalid
    /\ UNCHANGED <<heapVars, mode, out, marked>>

-----------------------------------------------------------------------------
(* pg_tre_amgettuple, then the executor's fetch and its recheck of WHERE.  *)

GetTuple ==
    /\ pc = "ready" /\ knn_pos < Len(entries)
    /\ knn_pos' = knn_pos + 1
    /\ LET e == entries[knn_pos + 1]
           found == {t \in HotSearch(UnpackTid(packing, e.packed_tid)) : Qualifies(heap[t].body)}
       IN out' = out \o SetToSeq({[tid |-> t, dist |-> e.dist] : t \in found})
    /\ UNCHANGED <<heapVars, pc, mode, snap, pageVars, cand, entries, knn_markpos, marked>>

(* pg_tre_ammarkpos and pg_tre_amrestrpos.  The executor marks at a row it *)
(* has and, on restoring, goes back to that row.                           *)
MarkAtRow == IF pc = "ready" THEN knn_pos - 1 ELSE -1
MarkAfterRow == IF pc = "ready" THEN knn_pos ELSE -1

MarkPos ==
    /\ pc = "ready" /\ out # <<>>
    /\ knn_markpos' = MarkAfterRow /\ marked' = Len(out)
    /\ UNCHANGED <<heapVars, pc, mode, snap, pageVars, cand, entries, knn_pos, out>>

RestrPos ==
    /\ pc = "ready" /\ marked > 0
    /\ knn_pos' = IF knn_markpos >= 0 THEN knn_markpos ELSE knn_pos
    /\ out' = SubSeq(out, 1, marked)
    /\ UNCHANGED <<heapVars, pc, mode, snap, pageVars, cand, entries, knn_markpos, marked>>

EndScan ==
    /\ pc = "ready" /\ pc' = "idle" /\ snap' = Invalid
    /\ ResetKnn /\ out' = <<>> /\ marked' = 0
    /\ UNCHANGED <<heapVars, mode, pageVars, cand>>

Scan ==
    \/ BeginScan \/ Rescan \/ BuildStart
    \/ \E b \in Blocks : GetPage(b)
    \/ PageDone \/ StreamTuple \/ NextCandidate \/ BuildEnd \/ BuildError
    \/ GetTuple \/ MarkPos \/ RestrPos \/ EndScan

Others ==
    \/ \E t \in Tids : HotUpdate(t) \/ Delete(t) \/ Vacuum(t)
    \/ \E t \in Tids, blk \in Blocks, b \in Bodies : Update(t, blk, b)
    \/ \E b \in Blocks : Prune(b)

Next == Scan \/ Others

Spec == Init /\ [][Next]_vars

-----------------------------------------------------------------------------
(* Types; the scan position stays inside what knn_build collected.         *)
TypeOK ==
    /\ packing \in Packings
    /\ heap \in [Tids -> [lp : {"unused", "normal", "redirect", "dead"}, xmin : 0 .. MaxXid,
                          xmax : 0 .. MaxXid, heapOnly : BOOLEAN, link : 0 .. MaxOff,
                          body : Bodies \cup {NoBody}]]
    /\ xid \in 1 .. MaxXid /\ snap \in 0 .. xid
    /\ idx \subseteq [tid : Tids, body : Bodies]
    /\ pc \in {"idle", "rescanned", "pages", "page", "cands", "ready"}
    /\ mode \in Modes /\ todo \subseteq Blocks /\ pin \in Blocks \cup {NoBlock}
    /\ knn_pos \in 0 .. Len(entries) /\ knn_markpos \in -1 .. Len(entries)
    /\ marked \in 0 .. Len(out)

Done == pc = "ready" /\ knn_pos = Len(entries)
Rows == {out[i].tid : i \in DOMAIN out}

(* The rows a query must return: visible to its snapshot, WHERE satisfied. *)
Answer == {t \in Tids : Visible(heap[t], snap) /\ Qualifies(heap[t].body)}

(* ORDER BY over candidates looks at the exact TID the index stores, every *)
(* other plan at its HOT chain.                                            *)
FollowsChains == mode.always \/ ~mode.orderby

(* A scan read to its end has returned every row of the answer that has a  *)
(* distance, whatever HOT updates, pruning and line pointer reuse went on  *)
(* between collecting the TIDs and fetching them, and however often the    *)
(* executor went back to a mark.  Left out: the HOT-updated rows of an     *)
(* ORDER BY over candidates, which ExecutorSkipsToo is about.              *)
NoRowLost ==
    Done => \A t \in Answer :
              Ranked(heap[t].body) /\ (FollowsChains \/ ~heap[t].heapOnly) => t \in Rows

(* The executor gets no row twice and none its snapshot must not see.      *)
EachRowOnce ==
    /\ \A i, j \in DOMAIN out : out[i].tid = out[j].tid => i = j
    /\ pc = "ready" => Rows \subseteq Answer

(* The distance published with a row (xs_recheckorderby is false, nobody   *)
(* recomputes it) is the one of the version the executor fetched, and the  *)
(* rows come nearest first.                                                *)
PublishedOrder ==
    pc = "ready" /\ mode.orderby =>
        /\ \A i \in DOMAIN out : out[i].dist = Dist[heap[out[i].tid].body]
        /\ \A i, j \in DOMAIN out : i < j => out[i].dist <= out[j].dist

(* "Skip TIDs that are not visible to the snapshot (the executor would     *)
(* have skipped them too)" (knn_build): a candidate passed over because    *)
(* heap_fetch does not see it is one whose HOT chain shows the executor    *)
(* nothing either.                                                         *)
ExecutorSkipsToo ==
    [][\A p \in cand \ cand' :
         LET tid == UnpackTid(packing, p) IN
         pc' = "cands" /\ mode.orderby /\ ~HeapFetch(tid) => HotSearch(tid) = {}]_vars
==============================================================================
