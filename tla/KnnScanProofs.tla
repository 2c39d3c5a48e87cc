---------------------------- MODULE KnnScanProofs ----------------------------
(***************************************************************************)
(* Proofs about the tuple-at-a-time scan, for any heap, any table the      *)
(* index was built over, either packing, any kind of query and any number  *)
(* of transactions, prunings and marks.                                    *)
(*                                                                         *)
(* The inductive invariant has three parts.  The heap: a link leads to the *)
(* heap-only version that replaces its line, from the moment it does, so   *)
(* that a snapshot sees at most one version of a chain, and every version  *)
(* is on the chain of one root.  The index: it has that root, with the     *)
(* body all versions of the chain share.  The scan: every TID is collected *)
(* once, and every row the query owes is either found from a TID already   *)
(* collected or still to come, on a page not read or among the candidates. *)
(*                                                                         *)
(* What the other sessions do is one lemma each about a heap and the next  *)
(* one: the chain order is kept, and from every TID the snapshot of the    *)
(* scan finds what it found before.  That makes their steps a stutter for  *)
(* the scan's part (OthersInv), and is why a TID may be fetched long after *)
(* it was collected.                                                       *)
(***************************************************************************)
EXTENDS KnnScan, FiniteSetTheorems, SequenceTheorems, Induction, TLAPS

(* A line pointer with its tuple.                                          *)
LineRec == [lp : {"unused", "normal", "redirect", "dead"}, xmin : 0 .. MaxXid, xmax : 0 .. MaxXid,
            heapOnly : BOOLEAN, link : 0 .. MaxOff, body : Bodies \cup {NoBody}]

(* A version lives from its transaction on until a later one.              *)
Versions(h, x) ==
    /\ h \in [Tids -> LineRec]
    /\ \A t \in Tids : h[t].lp = "normal" =>
         /\ h[t].body \in Bodies /\ h[t].xmin \in 1 .. x
         /\ h[t].xmax # Invalid => h[t].xmin < h[t].xmax /\ h[t].xmax <= x

(* A link leads to the heap-only version that replaces its line.           *)
Links(h) ==
    \A b \in Blocks, o \in Offsets : h[<<b, o>>].link # Invalid =>
        LET s == h[<<b, o>>]
            d == h[<<b, s.link>>]
        IN /\ s.lp \in {"normal", "redirect"} /\ d.lp = "normal" /\ d.heapOnly
           /\ s.lp = "normal" => s.xmax = d.xmin /\ s.body = d.body

(* Offset o of block b is on the chain that starts at root r.              *)
OnChain(h, b, r, o) == r \in Offsets /\ IsRoot(h[<<b, r>>]) /\ o \in ChainFrom(h, b, r)

(* What heap_hot_search_buffer finds from tid under snapshot s.            *)
HotAt(h, s, t) ==
    IF ~IsRoot(h[t]) THEN {}
    ELSE {<<t[1], o>> : o \in {p \in ChainFrom(h, t[1], t[2]) : Visible(h[<<t[1], p>>], s)}}

(* Every version is on the chain of exactly one root.                      *)
Rooted(h) ==
    \A b \in Blocks, o \in Offsets : h[<<b, o>>].lp = "normal" =>
        /\ \E r \in Offsets : OnChain(h, b, r, o)
        /\ \A r, q \in Offsets : OnChain(h, b, r, o) /\ OnChain(h, b, q, o) => r = q

(* The heap is in order.                                                   *)
HeapOK(h, x) == Versions(h, x) /\ Links(h) /\ Rooted(h)

(* The index has every root with the body its versions share, and no line  *)
(* but roots and dead ones.                                                *)
IndexOK(h, i) ==
    /\ i \subseteq [tid : Tids, body : Bodies]
    /\ \A e \in i : IsRoot(h[e.tid]) \/ h[e.tid].lp = "dead"
    /\ \A b \in Blocks, r, o \in Offsets :
         OnChain(h, b, r, o) /\ h[<<b, o>>].lp = "normal" =>
             [tid |-> <<b, r>>, body |-> h[<<b, o>>].body] \in i

-----------------------------------------------------------------------------
(* A KnnEntry.                                                             *)
Entry == [packed_tid : Nat, dist : Nat]

(* The types of the scan; while it is open it has a snapshot.              *)
TypeInv ==
    /\ packing \in Packings /\ xid \in 1 .. MaxXid
    /\ snap \in 0 .. xid /\ (pc # "idle" => snap # 0)
    /\ pc \in {"idle", "rescanned", "pages", "page", "cands", "ready"} /\ mode \in Modes
    /\ todo \subseteq Blocks /\ pin \in Blocks \cup {NoBlock} /\ vis \subseteq Offsets
    /\ root_blkno \in Blocks \cup {NoBlock} /\ root_offsets \in [Offsets -> 0 .. MaxOff]
    /\ cand \subseteq Nat /\ entries \in Seq(Entry) /\ out \in Seq([tid : Tids, dist : Nat])
    /\ knn_pos \in 0 .. Len(entries) /\ knn_markpos \in -1 .. Len(entries)
    /\ marked \in 0 .. Len(out)

(* What a phase has not begun is empty.                                    *)
IdleInv ==
    /\ pc \in {"idle", "rescanned"} => entries = <<>>
    /\ pc # "ready" => out = <<>> /\ marked = 0 /\ knn_pos = 0
    /\ pc # "page" => vis = {}
    /\ pc \notin {"pages", "page"} => root_blkno = NoBlock

(* The TID of an entry.                                                    *)
Tid(e) == UnpackTid(packing, e.packed_tid)

(* The entries: TIDs, each once, with the distance of what is fetched.     *)
EntryInv ==
    /\ \A i \in DOMAIN entries :
         /\ Tid(entries[i]) \in Tids
         /\ mode.orderby => \A t \in HotAt(heap, snap, Tid(entries[i])) :
                               entries[i].dist = DistOf(heap[t].body)
    /\ \A i, j \in DOMAIN entries : entries[i].packed_tid = entries[j].packed_tid => i = j

(* Streaming has passed t.                                                 *)
Streamed(t) == t[1] \notin todo /\ ~(t[1] = pin /\ t[2] \in vis)

(* While streaming: the tuples to come are visible ones of the pinned      *)
(* page, the root map is right for its page, stale or not, and the entries *)
(* are of tuples passed.                                                   *)
StreamInv ==
    pc \in {"pages", "page"} =>
        /\ mode.always
        /\ pc = "page" => pin \in Blocks \ todo /\ vis \subseteq VisibleOffsets(pin)
        /\ root_blkno # NoBlock => \A o \in VisibleOffsets(root_blkno) :
             root_offsets[o] # Invalid =>
                <<root_blkno, o>> \in HotAt(heap, snap, <<root_blkno, root_offsets[o]>>)
        /\ \A i \in DOMAIN entries : \E t \in HotAt(heap, snap, Tid(entries[i])) : Streamed(t)

(* While fetching candidates: they are stored TIDs, never of a visible     *)
(* heap-only tuple, and the entries are of other ones.                     *)
CandInv ==
    pc = "cands" =>
        /\ ~mode.always
        /\ \A p \in cand : \E t \in Tids : /\ p = PackTid(packing, t)
                                           /\ Visible(heap[t], snap) => ~heap[t].heapOnly
        /\ \A i \in DOMAIN entries : entries[i].packed_tid \notin cand

(* A row the scan has to return.                                           *)
Owed(t) ==
    /\ t \in Tids /\ Visible(heap[t], snap)
    /\ Qualifies(heap[t].body) /\ Ranked(heap[t].body)
    /\ FollowsChains \/ ~heap[t].heapOnly

(* Some entry leads the executor to it.                                    *)
Covered(t) == \E i \in DOMAIN entries : t \in HotAt(heap, snap, Tid(entries[i]))

(* What is owed and no longer to come has been collected.                  *)
CoverInv ==
    \A t \in Tids : Owed(t) =>
        /\ pc \in {"pages", "page"} /\ Streamed(t) => Covered(t)
        /\ pc = "cands" => Covered(t) \/ \E p \in cand : t \in HotAt(heap, snap, UnpackTid(packing, p))
        /\ pc = "ready" => Covered(t)

(* The entries handed out are sorted.                                      *)
SortInv ==
    pc = "ready" /\ mode.orderby =>
        \A i, j \in DOMAIN entries : i < j => entries[i].dist <= entries[j].dist

(* Row k of the output was fetched through entry i.                        *)
Source(k, i) ==
    /\ out[k].tid \in HotAt(heap, snap, Tid(entries[i])) /\ out[k].dist = entries[i].dist
    /\ Qualifies(heap[out[k].tid].body)

(* The first n rows are what the first m entries have.                     *)
Fetched(n, m) ==
    /\ \A k \in 1 .. n : \E i \in 1 .. m : Source(k, i)
    /\ \A i \in 1 .. m : \A t \in HotAt(heap, snap, Tid(entries[i])) :
         Qualifies(heap[t].body) => \E k \in 1 .. n : out[k].tid = t

(* The rows are what the entries up to the position have, in the order of  *)
(* the entries; at a mark, those up to the mark.                           *)
OutInv ==
    pc = "ready" =>
        /\ Fetched(Len(out), knn_pos)
        /\ \A k, l \in DOMAIN out, i, j \in DOMAIN entries :
             k < l /\ Source(k, i) /\ Source(l, j) => i < j
        /\ marked > 0 => knn_markpos >= 0 /\ Fetched(marked, knn_markpos)

ScanInv == EntryInv /\ StreamInv /\ CandInv /\ CoverInv /\ SortInv /\ OutInv

(* The inductive invariant.                                                *)
IInv == HeapOK(heap, xid) /\ IndexOK(heap, idx) /\ TypeInv /\ IdleInv /\ ScanInv

-----------------------------------------------------------------------------
(* Chains, in any heap whose line pointers have their types.               *)
Typed(h) == h \in [Tids -> LineRec]

(* The limits of a page and of the transactions.                           *)
LEMMA Bounds ==
    /\ MaxXid \in Nat /\ MaxOff \in Nat /\ 1 <= MaxOff /\ MaxOff < LegacyStride
    /\ 0 \in 0 .. MaxOff /\ 0 \in 0 .. MaxXid /\ 1 \in 0 .. MaxXid /\ Blocks \subseteq Nat
<1>1. MaxXid \in Nat \ {0} /\ MaxOff \in 1 .. (LegacyStride - 1) /\ Blocks \subseteq Nat BY KnnAssumption
<1>2. LegacyStride \in Nat BY SMT DEF LegacyStride
<1> QED BY <1>1, <1>2

(* The fields of a line.                                                   *)
LEMMA LineFacts ==
    ASSUME NEW h, Typed(h), NEW b \in Blocks, NEW o \in Offsets
    PROVE  /\ <<b, o>> \in Tids /\ h[<<b, o>>] \in LineRec
           /\ h[<<b, o>>].link \in 0 .. MaxOff
           /\ (h[<<b, o>>].link # Invalid => h[<<b, o>>].link \in Offsets)
           /\ h[<<b, o>>].xmin \in Nat /\ h[<<b, o>>].xmax \in Nat
           /\ h[<<b, o>>].heapOnly \in BOOLEAN
<1>1. <<b, o>> \in Tids BY DEF Tids
<1>2. h[<<b, o>>] \in LineRec BY <1>1 DEF Typed
<1>3. /\ h[<<b, o>>].link \in 0 .. MaxOff /\ h[<<b, o>>].xmin \in Nat
      /\ h[<<b, o>>].xmax \in Nat /\ h[<<b, o>>].heapOnly \in BOOLEAN
  BY <1>2 DEF LineRec
<1>4. h[<<b, o>>].link # Invalid => h[<<b, o>>].link \in Offsets
  BY <1>3, KnnAssumption DEF Offsets, Invalid
<1> QED BY <1>1, <1>2, <1>3, <1>4

(* A TID is a block and an offset.                                         *)
LEMMA TidFacts ==
    ASSUME NEW t \in Tids
    PROVE  t[1] \in Blocks /\ t[2] \in Offsets /\ t = <<t[1], t[2]>>
BY DEF Tids

(* A chain holds its start and with a line the one it links to.            *)
LEMMA ChainClosed ==
    ASSUME NEW h, Typed(h), NEW b \in Blocks, NEW r \in Offsets
    PROVE  /\ r \in ChainFrom(h, b, r) /\ ChainFrom(h, b, r) \in SUBSET Offsets
           /\ Closed(h, b, ChainFrom(h, b, r))
<1>1. r \in ChainFrom(h, b, r) /\ ChainFrom(h, b, r) \in SUBSET Offsets BY DEF ChainFrom
<1>2. ASSUME NEW o \in ChainFrom(h, b, r), h[<<b, o>>].link # Invalid
      PROVE  h[<<b, o>>].link \in ChainFrom(h, b, r)
  <2>1. o \in Offsets /\ h[<<b, o>>].link \in Offsets BY <1>1, <1>2, LineFacts
  <2>2. ASSUME NEW S \in SUBSET Offsets, r \in S, Closed(h, b, S) PROVE h[<<b, o>>].link \in S
    <3>1. o \in S BY <1>2, <2>2 DEF ChainFrom
    <3> QED BY <1>2, <2>2, <3>1 DEF Closed
  <2> QED BY <2>1, <2>2 DEF ChainFrom
<1> QED BY <1>1, <1>2 DEF Closed

(* It is the least such set.                                               *)
LEMMA ChainLeast ==
    ASSUME NEW h, NEW b, NEW r, NEW S \in SUBSET Offsets, r \in S, Closed(h, b, S)
    PROVE  ChainFrom(h, b, r) \subseteq S
BY DEF ChainFrom

(* The chain from a line of a chain is the rest of that chain.             *)
LEMMA ChainRest ==
    ASSUME NEW h, Typed(h), NEW b \in Blocks, NEW r \in Offsets, NEW x \in ChainFrom(h, b, r)
    PROVE  x \in Offsets /\ ChainFrom(h, b, x) \subseteq ChainFrom(h, b, r)
<1> DEFINE C == ChainFrom(h, b, r)
<1>1. x \in C /\ C \in SUBSET Offsets /\ Closed(h, b, C) BY ChainClosed
<1> HIDE DEF C
<1>2. ChainFrom(h, b, x) \subseteq C BY <1>1, ChainLeast
<1> QED BY <1>1, <1>2 DEF C

(* Its start, and the chain from the line the start links to.              *)
LEMMA ChainHead ==
    ASSUME NEW h, Typed(h), NEW b \in Blocks, NEW r \in Offsets, NEW x \in ChainFrom(h, b, r), x # r
    PROVE  h[<<b, r>>].link # Invalid /\ x \in ChainFrom(h, b, h[<<b, r>>].link)
<1> DEFINE l == h[<<b, r>>].link
           D == ChainFrom(h, b, l)
           S == IF l = Invalid THEN {r} ELSE {r} \cup D
<1>1. l # Invalid => l \in Offsets /\ l \in D /\ D \in SUBSET Offsets /\ Closed(h, b, D)
  BY LineFacts, ChainClosed
<1> HIDE DEF D
<1>2. S \in SUBSET Offsets /\ r \in S BY <1>1
<1>3. Closed(h, b, S) BY <1>1 DEF Closed
<1> HIDE DEF S
<1>4. ChainFrom(h, b, r) \subseteq S BY <1>2, <1>3, ChainLeast
<1> QED BY <1>4 DEF S, D

(* Two lines of a chain: one comes after the other.                        *)
LEMMA ChainLinear ==
    ASSUME NEW h, Typed(h), NEW b \in Blocks, NEW r \in Offsets,
           NEW x \in ChainFrom(h, b, r), NEW y \in ChainFrom(h, b, r)
    PROVE  x \in ChainFrom(h, b, y) \/ y \in ChainFrom(h, b, x)
<1> DEFINE S == {o \in Offsets : o \in ChainFrom(h, b, y) \/ y \in ChainFrom(h, b, o)}
<1>0. y \in Offsets BY ChainClosed
<1>1. S \in SUBSET Offsets /\ r \in S OBVIOUS
<1>2. ASSUME NEW o \in S, h[<<b, o>>].link # Invalid PROVE h[<<b, o>>].link \in S
  <2> DEFINE l == h[<<b, o>>].link
  <2>1. o \in Offsets /\ l \in Offsets BY <1>2, LineFacts
  <2>2. CASE o \in ChainFrom(h, b, y)
    <3>1. l \in ChainFrom(h, b, y) BY <1>0, <1>2, <2>2, ChainClosed DEF Closed
    <3> QED BY <2>1, <3>1
  <2>3. CASE y \in ChainFrom(h, b, o) /\ y # o
    <3>1. y \in ChainFrom(h, b, l) BY <2>1, <2>3, ChainHead
    <3> QED BY <2>1, <3>1
  <2>4. CASE y = o
    <3>1. o \in ChainFrom(h, b, y) BY <1>0, <2>4, ChainClosed
    <3> QED BY <2>2, <3>1
  <2> QED BY <1>2, <2>2, <2>3, <2>4
<1>3. Closed(h, b, S) BY <1>2 DEF Closed
<1> HIDE DEF S
<1>4. x \in S BY <1>1, <1>3, ChainLeast
<1> QED BY <1>4 DEF S

(* Behind its start a chain has heap-only versions.                        *)
LEMMA ChainTargets ==
    ASSUME NEW h, Typed(h), Links(h), NEW b \in Blocks, NEW r \in Offsets,
           NEW x \in ChainFrom(h, b, r), x # r
    PROVE  h[<<b, x>>].lp = "normal" /\ h[<<b, x>>].heapOnly
<1> DEFINE S == {o \in Offsets : o = r \/ (h[<<b, o>>].lp = "normal" /\ h[<<b, o>>].heapOnly)}
<1>1. S \in SUBSET Offsets /\ r \in S OBVIOUS
<1>2. ASSUME NEW o \in S, h[<<b, o>>].link # Invalid PROVE h[<<b, o>>].link \in S
  <2>1. o \in Offsets /\ h[<<b, o>>].link \in Offsets BY <1>2, LineFacts
  <2> QED BY <1>2, <2>1 DEF Links
<1>3. Closed(h, b, S) BY <1>2 DEF Closed
<1> HIDE DEF S
<1>4. x \in S BY <1>1, <1>3, ChainLeast
<1> QED BY <1>4 DEF S

(* A later version of a chain begins at or after the end of an earlier one. *)
LEMMA ChainLater ==
    ASSUME NEW h, NEW n, Versions(h, n), Links(h), NEW b \in Blocks, NEW x \in Offsets,
           h[<<b, x>>].lp = "normal", NEW y \in ChainFrom(h, b, x), y # x
    PROVE  /\ h[<<b, y>>].lp = "normal" /\ h[<<b, x>>].xmax # Invalid
           /\ h[<<b, x>>].xmax <= h[<<b, y>>].xmin
<1> DEFINE later(o) == /\ h[<<b, o>>].lp = "normal" /\ h[<<b, x>>].xmax # Invalid
                       /\ h[<<b, x>>].xmax <= h[<<b, o>>].xmin
           S == {o \in Offsets : o = x \/ later(o)}
<1>0. Typed(h) BY DEF Versions, Typed
<1>1. S \in SUBSET Offsets /\ x \in S OBVIOUS
<1>2. ASSUME NEW o \in S, h[<<b, o>>].link # Invalid PROVE h[<<b, o>>].link \in S
  <2> DEFINE l == h[<<b, o>>].link
  <2>1. o \in Offsets /\ l \in Offsets /\ h[<<b, o>>].lp = "normal" BY <1>0, <1>2, LineFacts
  <2>2. h[<<b, l>>].lp = "normal" /\ h[<<b, o>>].xmax = h[<<b, l>>].xmin BY <1>2, <2>1 DEF Links
  <2>3. /\ h[<<b, l>>].xmin \in Nat /\ h[<<b, l>>].xmin # Invalid /\ h[<<b, o>>].xmin \in Nat
        /\ h[<<b, x>>].xmax \in Nat
    <3>1. <<b, l>> \in Tids /\ <<b, o>> \in Tids BY <2>1 DEF Tids
    <3>2. h[<<b, l>>].xmin \in 1 .. n BY <2>2, <3>1 DEF Versions
    <3> QED BY <1>0, <2>1, <3>2, LineFacts DEF Invalid
  <2>4. h[<<b, o>>].xmin < h[<<b, o>>].xmax
    <3>1. <<b, o>> \in Tids BY <2>1 DEF Tids
    <3> QED BY <2>1, <2>2, <2>3, <3>1 DEF Versions
  <2>5. later(l)
    <3>1. CASE o = x BY <2>2, <2>3, <3>1
    <3>2. CASE later(o) BY <2>2, <2>3, <2>4, <3>2
    <3> QED BY <1>2, <3>1, <3>2
  <2> QED BY <2>1, <2>5
<1>3. Closed(h, b, S) BY <1>2 DEF Closed
<1> HIDE DEF S
<1>4. y \in S BY <1>1, <1>3, ChainLeast
<1> QED BY <1>4 DEF S

(* A snapshot sees at most one version of a chain.                         *)
LEMMA OneVisible ==
    ASSUME NEW h, NEW n, Versions(h, n), Links(h), NEW b \in Blocks, NEW r \in Offsets,
           NEW s \in Nat, NEW x \in ChainFrom(h, b, r), NEW y \in ChainFrom(h, b, r),
           Visible(h[<<b, x>>], s), Visible(h[<<b, y>>], s)
    PROVE  x = y
<1>0. Typed(h) BY DEF Versions, Typed
<1>1. x \in Offsets /\ y \in Offsets BY <1>0, ChainClosed
<1>2. ASSUME NEW u \in Offsets, NEW v \in ChainFrom(h, b, u), u # v,
             Visible(h[<<b, u>>], s), Visible(h[<<b, v>>], s)
      PROVE  FALSE
  <2>1. h[<<b, u>>].xmax # Invalid /\ h[<<b, u>>].xmax <= h[<<b, v>>].xmin
    BY <1>2, ChainLater DEF Visible
  <2>2. v \in Offsets BY <1>0, ChainClosed
  <2>3. h[<<b, u>>].xmax \in Nat /\ h[<<b, v>>].xmin \in Nat BY <1>0, <2>2, LineFacts
  <2> QED BY <1>2, <2>1, <2>3 DEF Visible
<1>3. x \in ChainFrom(h, b, y) \/ y \in ChainFrom(h, b, x) BY <1>0, ChainLinear
<1> QED BY <1>1, <1>2, <1>3

-----------------------------------------------------------------------------
(* The visible versions of the chain that starts there.                    *)
LEMMA HotMembers ==
    ASSUME NEW h, Typed(h), NEW s, NEW t \in Tids, NEW u
    PROVE  u \in HotAt(h, s, t) <=>
              /\ u \in Tids /\ u[1] = t[1] /\ OnChain(h, t[1], t[2], u[2]) /\ Visible(h[u], s)
<1> DEFINE C == ChainFrom(h, t[1], t[2])
<1>1. /\ t[1] \in Blocks /\ t[2] \in Offsets /\ t = <<t[1], t[2]>> BY TidFacts
<1>2. C \in SUBSET Offsets BY <1>1, ChainClosed
<1> HIDE DEF C
<1>3. ASSUME u \in HotAt(h, s, t)
      PROVE  u \in Tids /\ u[1] = t[1] /\ OnChain(h, t[1], t[2], u[2]) /\ Visible(h[u], s)
  <2>1. IsRoot(h[t]) BY <1>3 DEF HotAt
  <2>2. PICK o \in C : u = <<t[1], o>> /\ Visible(h[<<t[1], o>>], s) BY <1>3, <2>1 DEF HotAt, C
  <2>3. o \in Offsets BY <1>2
  <2> QED BY <1>1, <2>1, <2>2, <2>3 DEF OnChain, Tids, C
<1>4. ASSUME u \in Tids, u[1] = t[1], OnChain(h, t[1], t[2], u[2]), Visible(h[u], s)
      PROVE  u \in HotAt(h, s, t)
  <2>1. u = <<t[1], u[2]>> BY <1>4, TidFacts
  <2>2. IsRoot(h[t]) /\ u[2] \in C BY <1>1, <1>4 DEF OnChain, C
  <2> QED BY <1>4, <2>1, <2>2 DEF HotAt, C
<1> QED BY <1>3, <1>4

(* Every visible version is found from exactly one TID, which finds        *)
(* nothing else; from its own if it is no heap-only tuple.                 *)
LEMMA HotFacts ==
    ASSUME NEW h, NEW n, HeapOK(h, n), NEW s \in Nat
    PROVE  /\ \A t \in Tids : \A u \in HotAt(h, s, t) : u \in Tids /\ u[1] = t[1] /\ Visible(h[u], s)
           /\ \A t \in Tids : \A u, v \in HotAt(h, s, t) : u = v
           /\ \A t, r \in Tids : \A u \in HotAt(h, s, t) : u \in HotAt(h, s, r) => t = r
           /\ \A u \in Tids : Visible(h[u], s) => \E r \in Offsets : u \in HotAt(h, s, <<u[1], r>>)
           /\ \A u \in Tids : Visible(h[u], s) /\ ~h[u].heapOnly => u \in HotAt(h, s, u)
<1>0. Typed(h) /\ Versions(h, n) /\ Links(h) /\ Rooted(h) BY DEF HeapOK, Versions, Typed
<1>1. \A t \in Tids : \A u \in HotAt(h, s, t) :
         u \in Tids /\ u[1] = t[1] /\ OnChain(h, t[1], t[2], u[2]) /\ Visible(h[u], s)
  BY <1>0, HotMembers
<1>2. ASSUME NEW t \in Tids, NEW u \in HotAt(h, s, t), NEW v \in HotAt(h, s, t) PROVE u = v
  <2>1. /\ u = <<t[1], u[2]>> /\ v = <<t[1], v[2]>> /\ t[1] \in Blocks /\ t[2] \in Offsets
        /\ u[2] \in ChainFrom(h, t[1], t[2]) /\ v[2] \in ChainFrom(h, t[1], t[2])
        /\ Visible(h[u], s) /\ Visible(h[v], s)
    BY <1>1, TidFacts DEF OnChain
  <2>2. u[2] = v[2] BY <1>0, <2>1, OneVisible
  <2> QED BY <2>1, <2>2
<1>3. ASSUME NEW t \in Tids, NEW r \in Tids, NEW u \in HotAt(h, s, t), u \in HotAt(h, s, r) PROVE t = r
  <2>1. /\ u \in Tids /\ u[1] = t[1] /\ u[1] = r[1] /\ OnChain(h, u[1], t[2], u[2])
        /\ OnChain(h, u[1], r[2], u[2]) /\ Visible(h[u], s)
    BY <1>1, <1>3
  <2>2. u[1] \in Blocks /\ u[2] \in Offsets /\ t[2] \in Offsets /\ r[2] \in Offsets
        /\ u = <<u[1], u[2]>> /\ t = <<t[1], t[2]>> /\ r = <<r[1], r[2]>>
    BY <2>1, TidFacts
  <2>3. h[<<u[1], u[2]>>].lp = "normal" BY <2>1, <2>2 DEF Visible
  <2>4. t[2] = r[2] BY <1>0, <2>1, <2>2, <2>3 DEF Rooted
  <2> QED BY <2>1, <2>2, <2>4
<1>4. ASSUME NEW u \in Tids, Visible(h[u], s)
      PROVE  \E r \in Offsets : u \in HotAt(h, s, <<u[1], r>>)
  <2>1. u[1] \in Blocks /\ u[2] \in Offsets /\ u = <<u[1], u[2]>> BY TidFacts
  <2>2. h[<<u[1], u[2]>>].lp = "normal" BY <1>4, <2>1 DEF Visible
  <2>3. PICK r \in Offsets : OnChain(h, u[1], r, u[2]) BY <1>0, <2>1, <2>2 DEF Rooted
  <2> DEFINE t == <<u[1], r>>
  <2>4. t \in Tids /\ t[1] = u[1] /\ t[2] = r BY <2>1 DEF Tids
  <2> HIDE DEF t
  <2>5. u \in HotAt(h, s, t) BY <1>0, <1>4, <2>3, <2>4, HotMembers
  <2> QED BY <2>5 DEF t
<1>5. ASSUME NEW u \in Tids, Visible(h[u], s), ~h[u].heapOnly PROVE u \in HotAt(h, s, u)
  <2>1. u[1] \in Blocks /\ u[2] \in Offsets /\ u = <<u[1], u[2]>> BY TidFacts
  <2>2. IsRoot(h[u]) BY <1>5 DEF Visible, IsRoot
  <2>3. u[2] \in ChainFrom(h, u[1], u[2]) BY <1>0, <2>1, ChainClosed
  <2>4. OnChain(h, u[1], u[2], u[2]) BY <2>1, <2>2, <2>3 DEF OnChain
  <2> QED BY <1>0, <1>5, <2>4, HotMembers
<1>6. \A t \in Tids : \A u \in HotAt(h, s, t) : u \in Tids /\ u[1] = t[1] /\ Visible(h[u], s)
  BY <1>1
<1> QED BY <1>2, <1>3, <1>4, <1>5, <1>6

(* A heap that has become another one under a snapshot's eyes: it sees the *)
(* same versions, and they are on the chains they were on.                 *)
Same(h, g, s) ==
    \A t \in Tids :
        /\ Visible(g[t], s) <=> Visible(h[t], s)
        /\ Visible(h[t], s) =>
              /\ g[t].body = h[t].body /\ g[t].heapOnly = h[t].heapOnly
              /\ \A r \in Offsets : OnChain(h, t[1], r, t[2]) => OnChain(g, t[1], r, t[2])

(* The executor then finds from every TID what it would have found before. *)
LEMMA HotStable ==
    ASSUME NEW h, NEW n, HeapOK(h, n), NEW g, NEW m, HeapOK(g, m), NEW s \in Nat, Same(h, g, s)
    PROVE  \A t \in Tids : HotAt(g, s, t) = HotAt(h, s, t)
<1>0. Typed(h) /\ Typed(g) /\ Rooted(h) /\ Rooted(g) BY DEF HeapOK, Versions, Typed
<1> SUFFICES ASSUME NEW t \in Tids, NEW u
             PROVE  u \in HotAt(g, s, t) <=> u \in HotAt(h, s, t)
  OBVIOUS
<1>1. ASSUME NEW f, Typed(f)
      PROVE  u \in HotAt(f, s, t) <=>
                u \in Tids /\ u[1] = t[1] /\ OnChain(f, t[1], t[2], u[2]) /\ Visible(f[u], s)
  BY <1>1, HotMembers
<1> SUFFICES ASSUME u \in Tids, u[1] = t[1], Visible(h[u], s), Visible(g[u], s)
             PROVE  OnChain(g, t[1], t[2], u[2]) <=> OnChain(h, t[1], t[2], u[2])
  BY <1>0, <1>1 DEF Same
<1>2. u[1] \in Blocks /\ u[2] \in Offsets /\ u = <<u[1], u[2]>> /\ t[2] \in Offsets BY TidFacts
<1>3. h[<<u[1], u[2]>>].lp = "normal" /\ g[<<u[1], u[2]>>].lp = "normal" BY <1>2 DEF Visible
<1>4. \A r \in Offsets : OnChain(h, u[1], r, u[2]) => OnChain(g, u[1], r, u[2]) BY DEF Same
<1>5. ASSUME OnChain(g, u[1], t[2], u[2]) PROVE OnChain(h, u[1], t[2], u[2])
  <2>1. PICK r \in Offsets : OnChain(h, u[1], r, u[2]) BY <1>0, <1>2, <1>3 DEF Rooted
  <2>2. OnChain(g, u[1], r, u[2]) BY <1>4, <2>1
  <2>3. r = t[2] BY <1>0, <1>2, <1>3, <1>5, <2>2 DEF Rooted
  <2> QED BY <2>1, <2>3
<1> QED BY <1>2, <1>4, <1>5

(* A chain is part of another heap's if that has its links.                *)
LEMMA ChainKept ==
    ASSUME NEW h, Typed(h), NEW g, Typed(g), NEW b \in Blocks, NEW r \in Offsets,
           \A o \in ChainFrom(h, b, r) :
              h[<<b, o>>].link # Invalid => g[<<b, o>>].link = h[<<b, o>>].link
    PROVE  ChainFrom(h, b, r) \subseteq ChainFrom(g, b, r)
<1> DEFINE C == ChainFrom(h, b, r)
           D == ChainFrom(g, b, r)
<1>1. /\ r \in C /\ C \in SUBSET Offsets /\ Closed(h, b, C)
      /\ r \in D /\ D \in SUBSET Offsets /\ Closed(g, b, D)
  BY ChainClosed
<1>2. \A o \in C : h[<<b, o>>].link # Invalid => g[<<b, o>>].link = h[<<b, o>>].link OBVIOUS
<1> HIDE DEF C, D
<1>3. Closed(h, b, C \cap D) BY <1>1, <1>2 DEF Closed
<1>4. C \cap D \in SUBSET Offsets /\ r \in C \cap D BY <1>1
<1>5. ChainFrom(h, b, r) \subseteq C \cap D BY <1>3, <1>4, ChainLeast
<1> QED BY <1>5 DEF C, D

-----------------------------------------------------------------------------
(* A step that changes no link: versions end, a free line becomes a root,  *)
(* a dead one becomes free.                                                *)
Ends(l, k, m) == \/ k.xmax = l.xmax
                 \/ l.xmax = Invalid /\ k.xmax = m
Fresh(l, k, m) == /\ l.lp = "unused" /\ k.lp = "normal" /\ ~k.heapOnly /\ k.xmin = m
                  /\ k.xmax = Invalid /\ k.body \in Bodies
PlainLine(l, k, m) ==
    /\ k.link = l.link
    /\ IF l.lp = "normal"
       THEN /\ k.lp = "normal" /\ k.xmin = l.xmin /\ k.heapOnly = l.heapOnly /\ k.body = l.body
            /\ Ends(l, k, m)
       ELSE k = l \/ Fresh(l, k, m) \/ (l.lp = "dead" /\ k.lp = "unused")
Plain(h, g, m) == \A t \in Tids : PlainLine(h[t], g[t], m)

(* Chains are the same then, and a fresh line is on none but its own.      *)
LEMMA PlainChains ==
    ASSUME NEW h, NEW n, HeapOK(h, n), NEW g, Typed(g), NEW m, Plain(h, g, m),
           NEW b \in Blocks, NEW r \in Offsets
    PROVE  /\ ChainFrom(g, b, r) = ChainFrom(h, b, r)
           /\ (h[<<b, r>>].lp = "unused" => ChainFrom(h, b, r) = {r})
           /\ \A o \in Offsets : o # r /\ o \in ChainFrom(h, b, r) => h[<<b, o>>].lp = "normal"
<1>0. Typed(h) /\ Links(h) BY DEF HeapOK, Versions, Typed
<1>1. \A o \in Offsets : g[<<b, o>>].link = h[<<b, o>>].link BY DEF Plain, PlainLine, Tids
<1>2. ChainFrom(h, b, r) \subseteq Offsets /\ ChainFrom(g, b, r) \subseteq Offsets BY <1>0, ChainClosed
<1>3. ChainFrom(h, b, r) \subseteq ChainFrom(g, b, r) BY <1>0, <1>1, <1>2, ChainKept
<1>4. ChainFrom(g, b, r) \subseteq ChainFrom(h, b, r) BY <1>0, <1>1, <1>2, ChainKept
<1>5. ASSUME h[<<b, r>>].lp = "unused" PROVE ChainFrom(h, b, r) = {r}
  <2>1. h[<<b, r>>].link = Invalid BY <1>0, <1>5 DEF Links
  <2>2. \A o \in ChainFrom(h, b, r) : o = r BY <1>0, <2>1, ChainHead
  <2>3. r \in ChainFrom(h, b, r) BY <1>0, ChainClosed
  <2> QED BY <2>2, <2>3
<1>6. \A o \in Offsets : o # r /\ o \in ChainFrom(h, b, r) => h[<<b, o>>].lp = "normal"
  BY <1>0, ChainTargets
<1> QED BY <1>3, <1>4, <1>5, <1>6

(* Who is on which chain.                                                  *)
LEMMA PlainOnChain ==
    ASSUME NEW h, NEW n, HeapOK(h, n), NEW g, Typed(g), NEW m, Plain(h, g, m),
           NEW b \in Blocks, NEW o \in Offsets, NEW r \in Offsets
    PROVE  /\ OnChain(h, b, r, o) => OnChain(g, b, r, o)
           /\ OnChain(g, b, r, o) =>
                 OnChain(h, b, r, o) \/ (r = o /\ h[<<b, r>>].lp = "unused")
<1>1. /\ ChainFrom(g, b, r) = ChainFrom(h, b, r)
      /\ (h[<<b, r>>].lp = "unused" => ChainFrom(h, b, r) = {r})
  BY PlainChains
<1>2. PlainLine(h[<<b, r>>], g[<<b, r>>], m) BY DEF Plain, Tids
<1>3. IsRoot(h[<<b, r>>]) => IsRoot(g[<<b, r>>]) BY <1>2 DEF PlainLine, IsRoot, Fresh
<1>4. IsRoot(g[<<b, r>>]) => IsRoot(h[<<b, r>>]) \/ h[<<b, r>>].lp = "unused"
  BY <1>2 DEF PlainLine, IsRoot, Fresh
<1> QED BY <1>1, <1>3, <1>4 DEF OnChain

(* Such a step keeps the heap in order and shows a snapshot what it saw.   *)
LEMMA PlainHeap ==
    ASSUME NEW h, NEW n \in Nat, HeapOK(h, n), NEW g, Typed(g), NEW m \in Nat, Plain(h, g, m),
           \/ m = n + 1
           \/ /\ m = n /\ \A t \in Tids : h[t].lp = "normal" => g[t] = h[t]
              /\ \A t \in Tids : ~Fresh(h[t], g[t], m),
           NEW s \in Nat, s <= n
    PROVE  HeapOK(g, m) /\ Same(h, g, s)
<1>0. Typed(h) /\ Versions(h, n) /\ Links(h) /\ Rooted(h) BY DEF HeapOK, Versions, Typed
<1>1. \A t \in Tids : PlainLine(h[t], g[t], m) BY DEF Plain
<1>2. Versions(g, m)
  <2> SUFFICES ASSUME NEW t \in Tids, g[t].lp = "normal"
               PROVE  /\ g[t].body \in Bodies /\ g[t].xmin \in 1 .. m
                      /\ g[t].xmax # Invalid => g[t].xmin < g[t].xmax /\ g[t].xmax <= m
    BY DEF Versions, Typed
  <2>0. t[1] \in Blocks /\ t[2] \in Offsets /\ t = <<t[1], t[2]>> BY TidFacts
  <2>00. h[t].xmin \in Nat /\ h[t].xmax \in Nat BY <1>0, <2>0, LineFacts
  <2>1. CASE h[t].lp = "normal" /\ m = n
    <3>1. g[t] = h[t] BY <2>1
    <3> QED BY <1>0, <2>1, <3>1 DEF Versions
  <2>2. CASE h[t].lp = "normal" /\ m = n + 1
    <3>1. /\ h[t].body \in Bodies /\ h[t].xmin \in 1 .. n
          /\ h[t].xmax # Invalid => h[t].xmin < h[t].xmax /\ h[t].xmax <= n
      BY <1>0, <2>2 DEF Versions
    <3>2. g[t].xmin = h[t].xmin /\ g[t].body = h[t].body /\ Ends(h[t], g[t], m)
      BY <1>1, <2>2 DEF PlainLine
    <3> QED BY <2>00, <2>2, <3>1, <3>2 DEF Ends
  <2>3. CASE h[t].lp # "normal"
    <3>1. Fresh(h[t], g[t], m) BY <1>1, <2>3 DEF PlainLine
    <3>2. m = n + 1 BY <3>1
    <3> QED BY <3>1, <3>2 DEF Fresh
  <2> QED BY <2>1, <2>2, <2>3
<1>3. Links(g)
  <2> SUFFICES ASSUME NEW b \in Blocks, NEW o \in Offsets, g[<<b, o>>].link # Invalid
               PROVE  LET v == g[<<b, o>>]
                          d == g[<<b, v.link>>]
                      IN /\ v.lp \in {"normal", "redirect"} /\ d.lp = "normal" /\ d.heapOnly
                         /\ v.lp = "normal" => v.xmax = d.xmin /\ v.body = d.body
    BY DEF Links
  <2> DEFINE l == h[<<b, o>>].link
  <2>1. PlainLine(h[<<b, o>>], g[<<b, o>>], m) BY <1>1 DEF Tids
  <2>2. g[<<b, o>>].link = l /\ l # Invalid BY <2>1 DEF PlainLine
  <2>3. l \in Offsets BY <1>0, <2>2, LineFacts
  <2>4. /\ h[<<b, o>>].lp \in {"normal", "redirect"} /\ h[<<b, l>>].lp = "normal" /\ h[<<b, l>>].heapOnly
        /\ h[<<b, o>>].lp = "normal" => h[<<b, o>>].xmax = h[<<b, l>>].xmin /\ h[<<b, o>>].body = h[<<b, l>>].body
    BY <1>0, <2>2 DEF Links
  <2>5. PlainLine(h[<<b, l>>], g[<<b, l>>], m) /\ <<b, l>> \in Tids BY <1>1, <2>3 DEF Tids
  <2>6. g[<<b, l>>].lp = "normal" /\ g[<<b, l>>].heapOnly /\ g[<<b, l>>].xmin = h[<<b, l>>].xmin
        /\ g[<<b, l>>].body = h[<<b, l>>].body
    BY <2>4, <2>5 DEF PlainLine
  <2>7. h[<<b, l>>].xmin \in 1 .. n BY <1>0, <2>4, <2>5 DEF Versions
  <2>8. CASE h[<<b, o>>].lp = "normal"
    <3>1. h[<<b, o>>].xmax # Invalid BY <2>4, <2>7, <2>8 DEF Invalid
    <3>2. /\ g[<<b, o>>].lp = "normal" /\ g[<<b, o>>].xmax = h[<<b, o>>].xmax
          /\ g[<<b, o>>].body = h[<<b, o>>].body
      BY <2>1, <2>8, <3>1 DEF PlainLine, Ends
    <3> QED BY <2>2, <2>4, <2>6, <2>8, <3>2
  <2>9. CASE h[<<b, o>>].lp = "redirect"
    <3>1. g[<<b, o>>].lp = "redirect" BY <2>1, <2>9 DEF PlainLine, Fresh
    <3> QED BY <2>2, <2>4, <2>6, <3>1
  <2> QED BY <2>4, <2>8, <2>9
<1>4. Rooted(g)
  <2> SUFFICES ASSUME NEW b \in Blocks, NEW o \in Offsets, g[<<b, o>>].lp = "normal"
               PROVE  /\ \E r \in Offsets : OnChain(g, b, r, o)
                      /\ \A r, q \in Offsets : OnChain(g, b, r, o) /\ OnChain(g, b, q, o) => r = q
    BY DEF Rooted
  <2>1. PlainLine(h[<<b, o>>], g[<<b, o>>], m) BY <1>1 DEF Tids
  <2>2. CASE h[<<b, o>>].lp = "normal"
    <3>1. ASSUME NEW r \in Offsets PROVE OnChain(g, b, r, o) <=> OnChain(h, b, r, o)
      <4>1. OnChain(h, b, r, o) => OnChain(g, b, r, o) BY PlainOnChain
      <4>2. OnChain(g, b, r, o) => OnChain(h, b, r, o) \/ (r = o /\ h[<<b, r>>].lp = "unused")
        BY PlainOnChain
      <4> QED BY <2>2, <4>1, <4>2
    <3> QED BY <1>0, <2>2, <3>1 DEF Rooted
  <2>3. CASE h[<<b, o>>].lp # "normal"
    <3>1. Fresh(h[<<b, o>>], g[<<b, o>>], m) BY <2>1, <2>3 DEF PlainLine
    <3>2. IsRoot(g[<<b, o>>]) /\ o \in ChainFrom(g, b, o) BY <3>1, ChainClosed DEF IsRoot, Fresh
    <3>3. OnChain(g, b, o, o) BY <3>2 DEF OnChain
    <3>4. ASSUME NEW r \in Offsets, OnChain(g, b, r, o) PROVE r = o
      <4>1. o \in ChainFrom(h, b, r) BY <3>4, PlainChains DEF OnChain
      <4> QED BY <2>3, <4>1, PlainChains
    <3> QED BY <3>3, <3>4
  <2> QED BY <2>2, <2>3
<1>5. Same(h, g, s)
  <2> SUFFICES ASSUME NEW t \in Tids
               PROVE  /\ Visible(g[t], s) <=> Visible(h[t], s)
                      /\ Visible(h[t], s) =>
                            /\ g[t].body = h[t].body /\ g[t].heapOnly = h[t].heapOnly
                            /\ \A r \in Offsets : OnChain(h, t[1], r, t[2]) => OnChain(g, t[1], r, t[2])
    BY DEF Same
  <2>0. t[1] \in Blocks /\ t[2] \in Offsets /\ t = <<t[1], t[2]>> BY TidFacts
  <2>1. h[t].xmin \in Nat /\ h[t].xmax \in Nat BY <1>0, <2>0, LineFacts
  <2>2. PlainLine(h[t], g[t], m) BY <1>1
  <2>3. \A r \in Offsets : OnChain(h, t[1], r, t[2]) => OnChain(g, t[1], r, t[2])
    BY <2>0, PlainOnChain
  <2>4. CASE h[t].lp = "normal" /\ m = n
    <3>1. g[t] = h[t] BY <2>4
    <3> QED BY <2>3, <3>1
  <2>5. CASE h[t].lp = "normal" /\ m = n + 1
    <3>1. /\ g[t].lp = "normal" /\ g[t].xmin = h[t].xmin /\ g[t].heapOnly = h[t].heapOnly
          /\ g[t].body = h[t].body /\ Ends(h[t], g[t], m)
      BY <2>2, <2>5 DEF PlainLine
    <3>2. Visible(g[t], s) <=> Visible(h[t], s) BY <2>1, <2>5, <3>1 DEF Visible, Ends, Invalid
    <3> QED BY <2>3, <3>1, <3>2
  <2>6. CASE h[t].lp # "normal"
    <3>1. ~Visible(h[t], s) BY <2>6 DEF Visible
    <3>2. ~Visible(g[t], s)
      <4>1. CASE Fresh(h[t], g[t], m)
        <5>1. m = n + 1 BY <4>1
        <5> QED BY <4>1, <5>1 DEF Fresh, Visible
      <4>2. CASE ~Fresh(h[t], g[t], m)
        <5>1. g[t].lp # "normal" BY <2>2, <2>6, <4>2 DEF PlainLine
        <5> QED BY <5>1 DEF Visible
      <4> QED BY <4>1, <4>2
    <3> QED BY <3>1, <3>2
  <2> QED BY <2>4, <2>5, <2>6
<1> QED BY <1>2, <1>3, <1>4, <1>5 DEF HeapOK

-----------------------------------------------------------------------------
(* A HOT update of t, which puts the new version into the free line u.     *)
HotStep(h, g, t, u, m) ==
    /\ t \in Tids /\ u \in Tids /\ u[1] = t[1]
    /\ h[t].lp = "normal" /\ h[t].xmax = Invalid /\ h[u].lp = "unused"
    /\ g[t].lp = "normal" /\ g[t].xmin = h[t].xmin /\ g[t].xmax = m
    /\ g[t].heapOnly = h[t].heapOnly /\ g[t].link = u[2] /\ g[t].body = h[t].body
    /\ g[u].lp = "normal" /\ g[u].xmin = m /\ g[u].xmax = Invalid
    /\ g[u].heapOnly /\ g[u].link = Invalid /\ g[u].body = h[t].body
    /\ \A v \in Tids : v # t /\ v # u => g[v] = h[v]

(* What was free is on no chain.                                           *)
LEMMA FreeOffChain ==
    ASSUME NEW h, NEW n, HeapOK(h, n), NEW b \in Blocks, NEW o \in Offsets, NEW r \in Offsets,
           h[<<b, o>>].lp \notin {"normal", "redirect"}
    PROVE  ~OnChain(h, b, r, o)
<1>0. Typed(h) /\ Links(h) BY DEF HeapOK, Versions, Typed
<1>1. ASSUME OnChain(h, b, r, o) PROVE FALSE
  <2>1. o = r BY <1>0, <1>1, ChainTargets DEF OnChain
  <2> QED BY <1>1, <2>1 DEF OnChain, IsRoot
<1> QED BY <1>1

(* The current version is the last of its chain.                           *)
LEMMA HotLast ==
    ASSUME NEW h, NEW n, HeapOK(h, n), NEW t \in Tids, h[t].lp = "normal", h[t].xmax = Invalid
    PROVE  h[t].link = Invalid
<1>0. t[1] \in Blocks /\ t[2] \in Offsets /\ t = <<t[1], t[2]>> BY TidFacts
<1>1. Typed(h) /\ Versions(h, n) /\ Links(h) BY DEF HeapOK, Versions, Typed
<1>2. ASSUME h[t].link # Invalid PROVE FALSE
  <2> DEFINE l == h[t].link
  <2>1. l \in Offsets BY <1>0, <1>1, <1>2, LineFacts
  <2>2. h[<<t[1], l>>].lp = "normal" /\ h[t].xmax = h[<<t[1], l>>].xmin BY <1>0, <1>1, <1>2 DEF Links
  <2>3. <<t[1], l>> \in Tids BY <1>0, <2>1 DEF Tids
  <2>4. h[<<t[1], l>>].xmin \in 1 .. n BY <1>1, <2>2, <2>3 DEF Versions
  <2> QED BY <2>2, <2>4 DEF Invalid
<1> QED BY <1>2

(* The chain of t gets u, every other chain stays as it is.                *)
LEMMA HotChains ==
    ASSUME NEW h, NEW n, HeapOK(h, n), NEW g, Typed(g), NEW m, NEW t, NEW u, HotStep(h, g, t, u, m),
           NEW b \in Blocks, NEW r \in Offsets, NEW o \in Offsets
    PROVE  OnChain(g, b, r, o) <=>
              OnChain(h, b, r, o) \/ (<<b, o>> = u /\ OnChain(h, b, r, t[2]))
<1> DEFINE C == ChainFrom(h, b, r)
           D == ChainFrom(g, b, r)
           S == C \cup {p \in Offsets : <<b, p>> = u /\ t[2] \in C}
<1>0. Typed(h) /\ Links(h) BY DEF HeapOK, Versions, Typed
<1>1. /\ t \in Tids /\ u \in Tids /\ u[1] = t[1] /\ g[t].link = u[2] /\ g[u].link = Invalid
      /\ h[u].lp = "unused" /\ h[t].link = Invalid
  BY HotLast DEF HotStep
<1>2. /\ t[2] \in Offsets /\ t = <<t[1], t[2]>> /\ u[2] \in Offsets /\ u = <<u[1], u[2]>> BY <1>1, TidFacts
<1>3. h[u].link = Invalid
  <2>1. u[1] \in Blocks BY <1>1, TidFacts
  <2>2. h[<<u[1], u[2]>>].link # Invalid => h[<<u[1], u[2]>>].lp \in {"normal", "redirect"}
    BY <1>0, <1>2, <2>1 DEF Links
  <2>3. h[u].link # Invalid => h[u].lp \in {"normal", "redirect"} BY <1>2, <2>2
  <2> QED BY <1>1, <2>3
<1>4. \A p \in Offsets : <<b, p>> # t => g[<<b, p>>].link = h[<<b, p>>].link
  BY <1>1, <1>3 DEF HotStep, Tids
<1>5. /\ r \in C /\ C \in SUBSET Offsets /\ Closed(h, b, C)
      /\ r \in D /\ D \in SUBSET Offsets /\ Closed(g, b, D)
  BY <1>0, ChainClosed
<1>6. C \subseteq D
  <2>1. \A p \in ChainFrom(h, b, r) : h[<<b, p>>].link # Invalid => g[<<b, p>>].link = h[<<b, p>>].link
    BY <1>1, <1>4, <1>5
  <2> QED BY <1>0, <2>1, ChainKept
<1> HIDE DEF C, D
<1>7. ASSUME NEW p \in S, g[<<b, p>>].link # Invalid PROVE g[<<b, p>>].link \in S
  <2>1. CASE <<b, p>> = t
    <3>1. p = t[2] /\ b = t[1] BY <1>2, <2>1
    <3>2. p \in C BY <1>1, <1>7, <2>1
    <3> QED BY <1>1, <1>2, <2>1, <3>1, <3>2
  <2>2. CASE <<b, p>> # t
    <3>1. g[<<b, p>>].link = h[<<b, p>>].link BY <1>4, <1>5, <1>7, <2>2
    <3>2. p \in C BY <1>1, <1>7
    <3> QED BY <1>5, <1>7, <3>1, <3>2 DEF Closed
  <2> QED BY <2>1, <2>2
<1>8. Closed(g, b, S) BY <1>7 DEF Closed
<1>9. S \in SUBSET Offsets /\ r \in S BY <1>5
<1> HIDE DEF S
<1>10. D \subseteq S BY <1>8, <1>9, ChainLeast DEF D
<1>11. IsRoot(g[<<b, r>>]) <=> IsRoot(h[<<b, r>>])
  <2>1. CASE <<b, r>> = t BY <2>1 DEF HotStep, IsRoot
  <2>2. CASE <<b, r>> = u BY <2>2 DEF HotStep, IsRoot
  <2>3. CASE <<b, r>> # t /\ <<b, r>> # u BY <2>3 DEF HotStep, Tids
  <2> QED BY <2>1, <2>2, <2>3
<1>12. ASSUME OnChain(g, b, r, o)
       PROVE  OnChain(h, b, r, o) \/ (<<b, o>> = u /\ OnChain(h, b, r, t[2]))
  <2>1. o \in S /\ IsRoot(h[<<b, r>>]) BY <1>10, <1>11, <1>12 DEF OnChain, D
  <2> QED BY <2>1 DEF OnChain, C, S
<1>13. ASSUME OnChain(h, b, r, o) PROVE OnChain(g, b, r, o)
  BY <1>6, <1>11, <1>13 DEF OnChain, C, D
<1>14. ASSUME <<b, o>> = u, OnChain(h, b, r, t[2]) PROVE OnChain(g, b, r, o)
  <2>1. t[2] \in D /\ IsRoot(g[<<b, r>>]) BY <1>6, <1>11, <1>14 DEF OnChain, C
  <2>2. b = u[1] /\ o = u[2] BY <1>2, <1>14
  <2>3. <<b, t[2]>> = t BY <1>1, <1>2, <2>2
  <2>4. g[<<b, t[2]>>].link = o /\ o # Invalid
    <3>1. o # Invalid BY DEF Offsets, Invalid
    <3> QED BY <1>1, <2>2, <2>3, <3>1
  <2>5. o \in D BY <1>5, <2>1, <2>4 DEF Closed
  <2> QED BY <2>1, <2>5 DEF OnChain, D
<1> QED BY <1>12, <1>13, <1>14

(* A HOT update keeps the heap in order and shows a snapshot what it saw.  *)
LEMMA HotHeap ==
    ASSUME NEW h, NEW n \in Nat, HeapOK(h, n), NEW g, Typed(g), NEW t, NEW u,
           HotStep(h, g, t, u, n + 1), NEW s \in Nat, s <= n
    PROVE  HeapOK(g, n + 1) /\ Same(h, g, s)
<1>0. Typed(h) /\ Versions(h, n) /\ Links(h) /\ Rooted(h) BY DEF HeapOK, Versions, Typed
<1>1. t \in Tids /\ u \in Tids /\ u[1] = t[1] /\ t # u /\ h[t].link = Invalid
  BY HotLast DEF HotStep
<1>2. /\ t[1] \in Blocks /\ t[2] \in Offsets /\ t = <<t[1], t[2]>>
      /\ u[1] \in Blocks /\ u[2] \in Offsets /\ u = <<u[1], u[2]>>
  BY <1>1, TidFacts
<1>3. h[t].body \in Bodies /\ h[t].xmin \in 1 .. n BY <1>0, <1>1 DEF Versions, HotStep
<1>4. Versions(g, n + 1)
  <2> SUFFICES ASSUME NEW v \in Tids, g[v].lp = "normal"
               PROVE  /\ g[v].body \in Bodies /\ g[v].xmin \in 1 .. (n + 1)
                      /\ g[v].xmax # Invalid => g[v].xmin < g[v].xmax /\ g[v].xmax <= n + 1
    BY DEF Versions, Typed
  <2>1. CASE v = t BY <1>3, <2>1 DEF HotStep
  <2>2. CASE v = u BY <1>3, <2>2 DEF HotStep
  <2>3. CASE v # t /\ v # u
    <3>1. g[v] = h[v] BY <2>3 DEF HotStep
    <3>2. h[v].xmax \in Nat /\ h[v].xmin \in Nat
      <4>1. v[1] \in Blocks /\ v[2] \in Offsets /\ v = <<v[1], v[2]>> BY TidFacts
      <4> QED BY <1>0, <4>1, LineFacts
    <3>3. /\ h[v].body \in Bodies /\ h[v].xmin \in 1 .. n
          /\ h[v].xmax # Invalid => h[v].xmin < h[v].xmax /\ h[v].xmax <= n
      BY <1>0, <3>1 DEF Versions
    <3> QED BY <3>1, <3>2, <3>3
  <2> QED BY <2>1, <2>2, <2>3
<1>5. Links(g)
  <2> SUFFICES ASSUME NEW b \in Blocks, NEW o \in Offsets, g[<<b, o>>].link # Invalid
               PROVE  LET v == g[<<b, o>>]
                          d == g[<<b, v.link>>]
                      IN /\ v.lp \in {"normal", "redirect"} /\ d.lp = "normal" /\ d.heapOnly
                         /\ v.lp = "normal" => v.xmax = d.xmin /\ v.body = d.body
    BY DEF Links
  <2>1. CASE <<b, o>> = t
    <3>1. b = t[1] /\ <<b, u[2]>> = u BY <1>1, <1>2, <2>1
    <3> QED BY <2>1, <3>1 DEF HotStep
  <2>2. CASE <<b, o>> = u BY <2>2 DEF HotStep
  <2>3. CASE <<b, o>> # t /\ <<b, o>> # u
    <3> DEFINE l == h[<<b, o>>].link
    <3>1. g[<<b, o>>] = h[<<b, o>>] BY <2>3 DEF HotStep, Tids
    <3>2. l # Invalid /\ l \in Offsets BY <1>0, <3>1, LineFacts
    <3>3. /\ h[<<b, o>>].lp \in {"normal", "redirect"} /\ h[<<b, l>>].lp = "normal" /\ h[<<b, l>>].heapOnly
          /\ h[<<b, o>>].lp = "normal" => h[<<b, o>>].xmax = h[<<b, l>>].xmin /\ h[<<b, o>>].body = h[<<b, l>>].body
      BY <1>0, <3>2 DEF Links
    <3>4. /\ g[<<b, l>>].lp = "normal" /\ g[<<b, l>>].heapOnly = h[<<b, l>>].heapOnly
          /\ g[<<b, l>>].xmin = h[<<b, l>>].xmin /\ g[<<b, l>>].body = h[<<b, l>>].body
      <4>1. <<b, l>> # u BY <3>3 DEF HotStep
      <4>2. CASE <<b, l>> = t BY <4>2 DEF HotStep
      <4>3. CASE <<b, l>> # t
        <5>1. g[<<b, l>>] = h[<<b, l>>] BY <3>2, <4>1, <4>3 DEF HotStep, Tids
        <5> QED BY <3>3, <5>1
      <4> QED BY <4>2, <4>3
    <3> QED BY <3>1, <3>3, <3>4
  <2> QED BY <2>1, <2>2, <2>3
<1>6. Rooted(g)
  <2> SUFFICES ASSUME NEW b \in Blocks, NEW o \in Offsets, g[<<b, o>>].lp = "normal"
               PROVE  /\ \E r \in Offsets : OnChain(g, b, r, o)
                      /\ \A r, q \in Offsets : OnChain(g, b, r, o) /\ OnChain(g, b, q, o) => r = q
    BY DEF Rooted
  <2>1. CASE <<b, o>> = u
    <3>1. b = t[1] /\ <<b, t[2]>> = t BY <1>1, <1>2, <2>1
    <3>2. h[<<b, t[2]>>].lp = "normal" BY <3>1 DEF HotStep
    <3>3. ASSUME NEW r \in Offsets PROVE OnChain(g, b, r, o) <=> OnChain(h, b, r, t[2])
      <4>1. ~OnChain(h, b, r, o)
        <5>1. h[<<b, o>>].lp = "unused" BY <2>1 DEF HotStep
        <5> QED BY <5>1, FreeOffChain
      <4>2. OnChain(g, b, r, o) <=> OnChain(h, b, r, o) \/ (<<b, o>> = u /\ OnChain(h, b, r, t[2]))
        BY HotChains
      <4> QED BY <2>1, <4>1, <4>2
    <3> QED BY <1>0, <1>2, <3>2, <3>3 DEF Rooted
  <2>2. CASE <<b, o>> # u
    <3>1. h[<<b, o>>].lp = "normal"
      <4>1. CASE <<b, o>> = t BY <4>1 DEF HotStep
      <4>2. CASE <<b, o>> # t
        <5>1. g[<<b, o>>] = h[<<b, o>>] BY <2>2, <4>2 DEF HotStep, Tids
        <5> QED BY <5>1
      <4> QED BY <4>1, <4>2
    <3>2. ASSUME NEW r \in Offsets PROVE OnChain(g, b, r, o) <=> OnChain(h, b, r, o)
      <4>1. OnChain(g, b, r, o) <=> OnChain(h, b, r, o) \/ (<<b, o>> = u /\ OnChain(h, b, r, t[2]))
        BY HotChains
      <4> QED BY <2>2, <4>1
    <3> QED BY <1>0, <3>1, <3>2 DEF Rooted
  <2> QED BY <2>1, <2>2
<1>7. Same(h, g, s)
  <2> SUFFICES ASSUME NEW v \in Tids
               PROVE  /\ Visible(g[v], s) <=> Visible(h[v], s)
                      /\ Visible(h[v], s) =>
                            /\ g[v].body = h[v].body /\ g[v].heapOnly = h[v].heapOnly
                            /\ \A r \in Offsets : OnChain(h, v[1], r, v[2]) => OnChain(g, v[1], r, v[2])
    BY DEF Same
  <2>1. v[1] \in Blocks /\ v[2] \in Offsets /\ v = <<v[1], v[2]>> BY TidFacts
  <2>2. \A r \in Offsets : OnChain(h, v[1], r, v[2]) => OnChain(g, v[1], r, v[2]) BY <2>1, HotChains
  <2>3. CASE v = t
    <3>1. Visible(g[v], s) <=> Visible(h[v], s) BY <1>3, <2>3 DEF Visible, HotStep, Invalid
    <3> QED BY <2>2, <2>3, <3>1 DEF HotStep
  <2>4. CASE v = u
    <3>1. ~Visible(g[v], s) /\ ~Visible(h[v], s) BY <2>4 DEF Visible, HotStep
    <3> QED BY <3>1
  <2>5. CASE v # t /\ v # u
    <3>1. g[v] = h[v] BY <2>5 DEF HotStep
    <3> QED BY <2>2, <3>1
  <2> QED BY <2>3, <2>4, <2>5
<1> QED BY <1>4, <1>5, <1>6, <1>7 DEF HeapOK

-----------------------------------------------------------------------------
(* heap_page_prune of block b with horizon z.                              *)
GoneAt(l, z) == l.lp = "normal" /\ l.xmax # Invalid /\ l.xmax <= z
Stays(l, z) == l.lp = "normal" /\ ~GoneAt(l, z)
Left(h, b, r, z) == {o \in ChainFrom(h, b, r) : Stays(h[<<b, o>>], z)}

(* What becomes of a line of the page, and the step.                       *)
PruneLine(h, b, r, z) ==
    IF IsRoot(h[<<b, r>>]) /\ r \notin Left(h, b, r, z)
    THEN IF Left(h, b, r, z) = {} THEN DeadLine
         ELSE Redirect(CHOOSE o \in Left(h, b, r, z) : Left(h, b, r, z) \subseteq ChainFrom(h, b, o))
    ELSE IF GoneAt(h[<<b, r>>], z) THEN Unused
    ELSE h[<<b, r>>]

PruneStep(h, g, b, z) ==
    \A c \in Blocks, o \in Offsets :
        g[<<c, o>>] = IF c # b THEN h[<<c, o>>] ELSE PruneLine(h, b, o, z)

(* What comes after a version that stays, stays.                           *)
LEMMA LiveTail ==
    ASSUME NEW h, NEW n, HeapOK(h, n), NEW b \in Blocks, NEW x \in Offsets, NEW z \in Nat,
           Stays(h[<<b, x>>], z), NEW y \in ChainFrom(h, b, x)
    PROVE  y \in Offsets /\ Stays(h[<<b, y>>], z)
<1>0. Typed(h) /\ Versions(h, n) /\ Links(h) BY DEF HeapOK, Versions, Typed
<1>1. y \in Offsets /\ <<b, y>> \in Tids BY <1>0, ChainClosed DEF Tids
<1>2. CASE y = x BY <1>1, <1>2
<1>3. CASE y # x
  <2>1. /\ h[<<b, y>>].lp = "normal" /\ h[<<b, x>>].xmax # Invalid
        /\ h[<<b, x>>].xmax <= h[<<b, y>>].xmin
    BY <1>0, <1>3, ChainLater DEF Stays
  <2>2. h[<<b, y>>].xmax # Invalid => h[<<b, y>>].xmin < h[<<b, y>>].xmax
    BY <1>0, <1>1, <2>1 DEF Versions
  <2>3. h[<<b, x>>].xmax \in Nat /\ h[<<b, y>>].xmin \in Nat /\ h[<<b, y>>].xmax \in Nat
    BY <1>0, <1>1, LineFacts
  <2> QED BY <1>1, <2>1, <2>2, <2>3 DEF Stays, GoneAt
<1> QED BY <1>2, <1>3

(* The versions of a chain that stay have a first one.                     *)
LEMMA FirstLeft ==
    ASSUME NEW h, NEW n, HeapOK(h, n), NEW b \in Blocks, NEW r \in Offsets, NEW z \in Nat,
           Left(h, b, r, z) # {}
    PROVE  \E f \in Left(h, b, r, z) : Left(h, b, r, z) \subseteq ChainFrom(h, b, f)
<1> DEFINE L == Left(h, b, r, z)
           N == {h[<<b, o>>].xmin : o \in L}
<1>0. Typed(h) /\ Versions(h, n) /\ Links(h) BY DEF HeapOK, Versions, Typed
<1>1. \A o \in L : o \in Offsets /\ o \in ChainFrom(h, b, r) /\ h[<<b, o>>].lp = "normal"
  BY <1>0, ChainClosed DEF Left, Stays
<1>2. L # {} OBVIOUS
<1> HIDE DEF L
<1>3. \A o \in L : h[<<b, o>>].xmin \in Nat BY <1>0, <1>1, LineFacts
<1>4. N \subseteq Nat /\ N # {} BY <1>2, <1>3
<1> HIDE DEF N
<1>5. PICK k \in N : \A j \in N : k <= j BY <1>4, LeastNumber
<1>6. PICK f \in L : h[<<b, f>>].xmin = k BY DEF N
<1>7. ASSUME NEW p \in L PROVE p \in ChainFrom(h, b, f)
  <2>0. p \in Offsets /\ f \in Offsets /\ <<b, p>> \in Tids BY <1>1 DEF Tids
  <2>1. CASE p = f BY <1>0, <2>0, <2>1, ChainClosed
  <2>2. CASE p # f /\ f \in ChainFrom(h, b, p)
    <3>1. h[<<b, p>>].xmax # Invalid /\ h[<<b, p>>].xmax <= h[<<b, f>>].xmin
      BY <1>0, <1>1, <2>0, <2>2, ChainLater
    <3>2. h[<<b, p>>].xmin < h[<<b, p>>].xmax BY <1>0, <1>1, <2>0, <3>1 DEF Versions
    <3>3. h[<<b, p>>].xmin \in N BY DEF N
    <3>4. h[<<b, f>>].xmin <= h[<<b, p>>].xmin BY <1>5, <1>6, <3>3
    <3>5. h[<<b, p>>].xmax \in Nat BY <1>0, <2>0, LineFacts
    <3> QED BY <1>3, <3>1, <3>2, <3>4, <3>5
  <2>3. p \in ChainFrom(h, b, f) \/ f \in ChainFrom(h, b, p) BY <1>0, <1>1, ChainLinear
  <2> QED BY <2>1, <2>2, <2>3
<1> QED BY <1>7 DEF L

(* What pruning makes of a line.                                           *)
LEMMA PruneLines ==
    ASSUME NEW h, NEW n, HeapOK(h, n), NEW b \in Blocks, NEW r \in Offsets, NEW z \in Nat,
           NEW l, l = PruneLine(h, b, r, z)
    PROVE  /\ Stays(h[<<b, r>>], z) => l = h[<<b, r>>]
           /\ l.lp = "normal" => Stays(h[<<b, r>>], z)
           /\ l.link # Invalid =>
                 \/ Stays(h[<<b, r>>], z)
                 \/ /\ IsRoot(h[<<b, r>>]) /\ l.lp = "redirect"
                    /\ l.link \in Left(h, b, r, z) /\ l.link # r
                    /\ Left(h, b, r, z) \subseteq ChainFrom(h, b, l.link)
           /\ IsRoot(l) => IsRoot(h[<<b, r>>])
           /\ IsRoot(h[<<b, r>>]) => IsRoot(l) \/ l.lp = "dead"
           /\ IsRoot(h[<<b, r>>]) /\ ~Stays(h[<<b, r>>], z) /\ Left(h, b, r, z) # {} =>
                 l.lp = "redirect" /\ l.link # Invalid
           /\ h[<<b, r>>].lp = "dead" => l = h[<<b, r>>]
<1> DEFINE L == Left(h, b, r, z)
           k == h[<<b, r>>]
           f == CHOOSE o \in L : L \subseteq ChainFrom(h, b, o)
<1>0. Typed(h) /\ Links(h) BY DEF HeapOK, Versions, Typed
<1>1. r \in L <=> Stays(k, z) BY <1>0, ChainClosed DEF Left
<1>2. L # {} => f \in L /\ L \subseteq ChainFrom(h, b, f) BY FirstLeft
<1>3. L \subseteq Offsets BY <1>0, ChainClosed DEF Left
<1>4. k.link # Invalid => k.lp \in {"normal", "redirect"} BY <1>0 DEF Links
<1>5. \/ IsRoot(k) /\ ~Stays(k, z) /\ L = {} /\ l = DeadLine
      \/ IsRoot(k) /\ ~Stays(k, z) /\ L # {} /\ l = Redirect(f)
      \/ (~IsRoot(k) \/ Stays(k, z)) /\ GoneAt(k, z) /\ l = Unused
      \/ (~IsRoot(k) \/ Stays(k, z)) /\ ~GoneAt(k, z) /\ l = k
  BY <1>1 DEF PruneLine
<1>6. 0 \notin Offsets BY DEF Offsets
<1> HIDE DEF L, f, k
<1>7. CASE IsRoot(k) /\ ~Stays(k, z) /\ L = {} /\ l = DeadLine
  <2>1. l.lp = "dead" /\ l.link = Invalid BY <1>7 DEF DeadLine, Line
  <2>2. ~IsRoot(l) /\ k.lp # "dead" BY <1>7, <2>1 DEF IsRoot
  <2> QED BY <1>7, <2>1, <2>2 DEF k, L
<1>8. CASE IsRoot(k) /\ ~Stays(k, z) /\ L # {} /\ l = Redirect(f)
  <2>1. l.lp = "redirect" /\ l.link = f BY <1>8 DEF Redirect, Line
  <2>2. IsRoot(l) /\ k.lp # "dead" BY <1>8, <2>1 DEF IsRoot
  <2>3. f \in L /\ f # r /\ f # Invalid /\ L \subseteq ChainFrom(h, b, f)
    BY <1>1, <1>2, <1>3, <1>6, <1>8 DEF Invalid
  <2> QED BY <1>8, <2>1, <2>2, <2>3 DEF k, L
<1>9. CASE (~IsRoot(k) \/ Stays(k, z)) /\ GoneAt(k, z) /\ l = Unused
  <2>1. l.lp = "unused" /\ l.link = Invalid BY <1>9 DEF Unused, Line
  <2>2. ~IsRoot(l) /\ ~IsRoot(k) /\ ~Stays(k, z) /\ k.lp = "normal"
    BY <1>9, <2>1 DEF IsRoot, Stays, GoneAt
  <2> QED BY <1>9, <2>1, <2>2 DEF k, L
<1>10. CASE (~IsRoot(k) \/ Stays(k, z)) /\ ~GoneAt(k, z) /\ l = k
  <2>1. k.lp = "normal" => Stays(k, z) BY <1>10 DEF Stays
  <2>2. k.link # Invalid => Stays(k, z) BY <1>4, <1>10, <2>1 DEF IsRoot
  <2> QED BY <1>10, <2>1, <2>2 DEF k, L
<1> QED BY <1>5, <1>7, <1>8, <1>9, <1>10

(* A line of the page, or of another one.                                  *)
LEMMA PruneAt ==
    ASSUME NEW h, NEW g, NEW b, NEW z, PruneStep(h, g, b, z), NEW c \in Blocks, NEW o \in Offsets
    PROVE  /\ c # b => g[<<c, o>>] = h[<<c, o>>]
           /\ c = b => g[<<c, o>>] = PruneLine(h, c, o, z)
BY DEF PruneStep

(* A version that is left is the one that was there, and one that stays is *)
(* left.                                                                   *)
LEMMA PruneVersions ==
    ASSUME NEW h, NEW n, HeapOK(h, n), NEW g, NEW b \in Blocks, NEW z \in Nat, PruneStep(h, g, b, z),
           NEW t \in Tids
    PROVE  /\ g[t].lp = "normal" => g[t] = h[t]
           /\ Stays(h[t], z) => g[t] = h[t]
<1>1. t[1] \in Blocks /\ t[2] \in Offsets /\ t = <<t[1], t[2]>> BY TidFacts
<1>2. CASE t[1] # b BY <1>1, <1>2, PruneAt
<1>3. CASE t[1] = b
  <2>1. g[t] = PruneLine(h, t[1], t[2], z) BY <1>1, <1>3, PruneAt
  <2>2. /\ Stays(h[<<t[1], t[2]>>], z) => g[t] = h[<<t[1], t[2]>>]
        /\ g[t].lp = "normal" => Stays(h[<<t[1], t[2]>>], z)
    BY <1>1, <2>1, PruneLines
  <2> QED BY <1>1, <2>2
<1> QED BY <1>2, <1>3

(* A chain loses versions and gets none; a version that is left is on the  *)
(* chain of the root that it had.                                          *)
LEMMA PruneOnChain ==
    ASSUME NEW h, NEW n, HeapOK(h, n), NEW g, Typed(g), NEW b \in Blocks, NEW z \in Nat,
           PruneStep(h, g, b, z), NEW c \in Blocks, NEW r \in Offsets, NEW o \in Offsets
    PROVE  /\ OnChain(g, c, r, o) => OnChain(h, c, r, o)
           /\ OnChain(h, c, r, o) /\ g[<<c, o>>].lp = "normal" => OnChain(g, c, r, o)
<1>0. Typed(h) /\ Links(h) BY DEF HeapOK, Versions, Typed
<1>1. CASE c # b
  <2>1. \A p \in Offsets : g[<<c, p>>] = h[<<c, p>>] BY <1>1, PruneAt
  <2>2. ChainFrom(h, c, r) \subseteq Offsets /\ ChainFrom(g, c, r) \subseteq Offsets BY <1>0, ChainClosed
  <2>3. ChainFrom(h, c, r) \subseteq ChainFrom(g, c, r) BY <1>0, <2>1, <2>2, ChainKept
  <2>4. ChainFrom(g, c, r) \subseteq ChainFrom(h, c, r) BY <1>0, <2>1, <2>2, ChainKept
  <2> QED BY <2>1, <2>3, <2>4 DEF OnChain
<1>2. CASE c = b
  <2> DEFINE C == ChainFrom(h, b, r)
             D == ChainFrom(g, b, r)
             L == Left(h, b, r, z)
  <2>0. \A p \in Offsets : g[<<b, p>>] = PruneLine(h, b, p, z) BY PruneAt
  <2>1. /\ r \in C /\ C \in SUBSET Offsets /\ Closed(h, b, C)
        /\ r \in D /\ D \in SUBSET Offsets /\ Closed(g, b, D)
    BY <1>0, ChainClosed
  <2>2. ASSUME NEW p \in C, g[<<b, p>>].link # Invalid PROVE g[<<b, p>>].link \in C
    <3> DEFINE l == g[<<b, p>>]
    <3>1. p \in Offsets BY <2>1
    <3>2. l = PruneLine(h, b, p, z) BY <2>0, <3>1
    <3> HIDE DEF l
    <3>3. l.link # Invalid BY <2>2 DEF l
    <3>4. CASE Stays(h[<<b, p>>], z)
      <4>1. l = h[<<b, p>>] BY <3>1, <3>2, <3>4, PruneLines
      <4> QED BY <2>1, <3>3, <4>1 DEF Closed, l
    <3>5. CASE ~Stays(h[<<b, p>>], z)
      <4>1. l.link \in Left(h, b, p, z) BY <3>1, <3>2, <3>3, <3>5, PruneLines
      <4>2. l.link \in ChainFrom(h, b, p) BY <4>1 DEF Left
      <4>3. ChainFrom(h, b, p) \subseteq C BY <1>0, ChainRest
      <4> QED BY <4>2, <4>3 DEF l
    <3> QED BY <3>4, <3>5
  <2>3. Closed(g, b, C) BY <2>2 DEF Closed
  <2>4. D \subseteq C
    <3> HIDE DEF C
    <3> QED BY <2>1, <2>3, ChainLeast
  <2>5. IsRoot(g[<<b, r>>]) => IsRoot(h[<<b, r>>]) BY <2>0, PruneLines
  <2>6. OnChain(g, b, r, o) => OnChain(h, b, r, o) BY <2>4, <2>5 DEF OnChain
  <2>7. ASSUME NEW x \in Offsets, Stays(h[<<b, x>>], z)
        PROVE  ChainFrom(h, b, x) \subseteq ChainFrom(g, b, x)
    <3>1. ASSUME NEW p \in ChainFrom(h, b, x), h[<<b, p>>].link # Invalid
          PROVE  g[<<b, p>>].link = h[<<b, p>>].link
      <4>1. p \in Offsets /\ Stays(h[<<b, p>>], z) BY <2>7, LiveTail
      <4>2. <<b, p>> \in Tids BY <4>1 DEF Tids
      <4>3. g[<<b, p>>] = h[<<b, p>>] BY <4>1, <4>2, PruneVersions
      <4> QED BY <4>3
    <3> QED BY <1>0, <3>1, ChainKept
  <2>8. ASSUME OnChain(h, b, r, o), g[<<b, o>>].lp = "normal" PROVE OnChain(g, b, r, o)
    <3>0. IsRoot(h[<<b, r>>]) /\ o \in C BY <2>8 DEF OnChain
    <3>1. Stays(h[<<b, o>>], z) BY <2>0, <2>8, PruneLines
    <3>2. CASE Stays(h[<<b, r>>], z)
      <4>1. o \in D BY <2>7, <3>0, <3>2
      <4>2. <<b, r>> \in Tids BY DEF Tids
      <4>3. g[<<b, r>>] = h[<<b, r>>] BY <3>2, <4>2, PruneVersions
      <4> QED BY <3>0, <4>1, <4>3 DEF OnChain
    <3>3. CASE ~Stays(h[<<b, r>>], z)
      <4> DEFINE f == g[<<b, r>>].link
      <4>1. o \in L BY <3>0, <3>1 DEF Left
      <4>2. g[<<b, r>>].lp = "redirect" /\ f # Invalid BY <2>0, <3>0, <3>3, <4>1, PruneLines
      <4>3. f \in L /\ L \subseteq ChainFrom(h, b, f) BY <2>0, <3>3, <4>2, PruneLines
      <4>4. f \in Offsets /\ Stays(h[<<b, f>>], z) BY <2>1, <4>3 DEF Left
      <4>5. o \in ChainFrom(g, b, f) BY <2>7, <4>1, <4>3, <4>4
      <4>6. f \in D BY <2>1, <4>2 DEF Closed
      <4>7. ChainFrom(g, b, f) \subseteq D BY <4>6, ChainRest
      <4> QED BY <4>2, <4>5, <4>7 DEF OnChain, IsRoot
    <3> QED BY <3>2, <3>3
  <2> QED BY <1>2, <2>6, <2>8
<1> QED BY <1>1, <1>2

(* Pruning keeps the heap in order, and a snapshot not older than the      *)
(* horizon sees what it saw.                                               *)
LEMMA PruneHeap ==
    ASSUME NEW h, NEW n \in Nat, HeapOK(h, n), NEW g, Typed(g), NEW b \in Blocks, NEW z \in Nat,
           PruneStep(h, g, b, z), NEW s \in Nat, z <= s
    PROVE  HeapOK(g, n) /\ Same(h, g, s)
<1>0. Typed(h) /\ Versions(h, n) /\ Links(h) /\ Rooted(h) BY DEF HeapOK, Versions, Typed
<1>1. \A t \in Tids : (g[t].lp = "normal" => g[t] = h[t]) /\ (Stays(h[t], z) => g[t] = h[t])
  BY PruneVersions
<1>2. Versions(g, n)
  <2> SUFFICES ASSUME NEW t \in Tids, g[t].lp = "normal"
               PROVE  /\ g[t].body \in Bodies /\ g[t].xmin \in 1 .. n
                      /\ g[t].xmax # Invalid => g[t].xmin < g[t].xmax /\ g[t].xmax <= n
    BY DEF Versions, Typed
  <2>1. g[t] = h[t] BY <1>1
  <2> QED BY <1>0, <2>1 DEF Versions
<1>3. Links(g)
  <2> SUFFICES ASSUME NEW c \in Blocks, NEW o \in Offsets, g[<<c, o>>].link # Invalid
               PROVE  LET v == g[<<c, o>>]
                          d == g[<<c, v.link>>]
                      IN /\ v.lp \in {"normal", "redirect"} /\ d.lp = "normal" /\ d.heapOnly
                         /\ v.lp = "normal" => v.xmax = d.xmin /\ v.body = d.body
    BY DEF Links
  <2> DEFINE l == g[<<c, o>>].link
  <2>0. l \in Offsets /\ <<c, l>> \in Tids BY LineFacts DEF Tids
  <2>1. CASE g[<<c, o>>] = h[<<c, o>>] /\ (c # b \/ Stays(h[<<c, o>>], z))
    <3>1. h[<<c, o>>].link = l BY <2>1
    <3>2. /\ h[<<c, o>>].lp \in {"normal", "redirect"} /\ h[<<c, l>>].lp = "normal" /\ h[<<c, l>>].heapOnly
          /\ h[<<c, o>>].lp = "normal" => h[<<c, o>>].xmax = h[<<c, l>>].xmin /\ h[<<c, o>>].body = h[<<c, l>>].body
      BY <1>0, <3>1 DEF Links
    <3>3. g[<<c, l>>] = h[<<c, l>>]
      <4>1. CASE c # b BY <2>0, <4>1, PruneAt
      <4>2. CASE Stays(h[<<c, o>>], z)
        <5>1. l \in ChainFrom(h, c, o) BY <1>0, <3>1, ChainClosed DEF Closed
        <5>2. Stays(h[<<c, l>>], z) BY <4>2, <5>1, LiveTail
        <5> QED BY <1>1, <2>0, <5>2
      <4> QED BY <2>1, <4>1, <4>2
    <3> QED BY <2>1, <3>2, <3>3
  <2>2. CASE c = b /\ ~Stays(h[<<c, o>>], z)
    <3>0. g[<<c, o>>] = PruneLine(h, c, o, z) BY <2>2, PruneAt
    <3>1. g[<<c, o>>].lp = "redirect" /\ l \in Left(h, c, o, z) /\ l # o BY <2>2, <3>0, PruneLines
    <3>2. l \in ChainFrom(h, c, o) /\ Stays(h[<<c, l>>], z) BY <3>1 DEF Left
    <3>3. h[<<c, l>>].lp = "normal" /\ h[<<c, l>>].heapOnly BY <1>0, <3>1, <3>2, ChainTargets
    <3>4. g[<<c, l>>] = h[<<c, l>>] BY <1>1, <2>0, <3>2
    <3> QED BY <3>1, <3>3, <3>4
  <2>3. c # b \/ Stays(h[<<c, o>>], z) => g[<<c, o>>] = h[<<c, o>>]
    <3>1. <<c, o>> \in Tids BY DEF Tids
    <3>2. c # b => g[<<c, o>>] = h[<<c, o>>] BY PruneAt
    <3> QED BY <1>1, <3>1, <3>2
  <2> QED BY <2>1, <2>2, <2>3
<1>4. Rooted(g)
  <2> SUFFICES ASSUME NEW c \in Blocks, NEW o \in Offsets, g[<<c, o>>].lp = "normal"
               PROVE  /\ \E r \in Offsets : OnChain(g, c, r, o)
                      /\ \A r, q \in Offsets : OnChain(g, c, r, o) /\ OnChain(g, c, q, o) => r = q
    BY DEF Rooted
  <2>1. <<c, o>> \in Tids BY DEF Tids
  <2>2. h[<<c, o>>].lp = "normal" BY <1>1, <2>1
  <2>3. \A r \in Offsets : OnChain(g, c, r, o) <=> OnChain(h, c, r, o) BY PruneOnChain
  <2> QED BY <1>0, <2>2, <2>3 DEF Rooted
<1>5. Same(h, g, s)
  <2> SUFFICES ASSUME NEW t \in Tids
               PROVE  /\ Visible(g[t], s) <=> Visible(h[t], s)
                      /\ Visible(h[t], s) =>
                            /\ g[t].body = h[t].body /\ g[t].heapOnly = h[t].heapOnly
                            /\ \A r \in Offsets : OnChain(h, t[1], r, t[2]) => OnChain(g, t[1], r, t[2])
    BY DEF Same
  <2>0. t[1] \in Blocks /\ t[2] \in Offsets /\ t = <<t[1], t[2]>> BY TidFacts
  <2>1. h[t].xmax \in Nat BY <1>0, <2>0, LineFacts
  <2>2. Visible(h[t], s) => g[t] = h[t]
    <3>1. Visible(h[t], s) => Stays(h[t], z) BY <2>1 DEF Visible, Stays, GoneAt
    <3> QED BY <1>1, <3>1
  <2>3. Visible(g[t], s) => g[t] = h[t] BY <1>1 DEF Visible
  <2>4. ASSUME Visible(h[t], s), NEW r \in Offsets, OnChain(h, t[1], r, t[2])
        PROVE  OnChain(g, t[1], r, t[2])
    <3>1. g[<<t[1], t[2]>>].lp = "normal" BY <2>0, <2>2, <2>4 DEF Visible
    <3> QED BY <2>0, <2>4, <3>1, PruneOnChain
  <2> QED BY <2>2, <2>3, <2>4
<1> QED BY <1>2, <1>3, <1>4, <1>5 DEF HeapOK

-----------------------------------------------------------------------------
(* The index through the same steps: a step that changes no link, with the *)
(* entries j, which has every fresh line and lacks none that is not dead.  *)
LEMMA IndexPlain ==
    ASSUME NEW h, NEW n, HeapOK(h, n), NEW g, Typed(g), NEW m, Plain(h, g, m),
           NEW i, IndexOK(h, i), NEW j, j \subseteq [tid : Tids, body : Bodies],
           \A e \in j : (e \in i /\ (h[e.tid].lp = "dead" => g[e.tid].lp = "dead"))
                        \/ Fresh(h[e.tid], g[e.tid], m),
           \A e \in i : h[e.tid].lp # "dead" => e \in j,
           \A t \in Tids : Fresh(h[t], g[t], m) => [tid |-> t, body |-> g[t].body] \in j
    PROVE  IndexOK(g, j)
<1>1. ASSUME NEW e \in j PROVE IsRoot(g[e.tid]) \/ g[e.tid].lp = "dead"
  <2>1. e.tid \in Tids OBVIOUS
  <2>2. PlainLine(h[e.tid], g[e.tid], m) BY <2>1 DEF Plain
  <2>3. CASE Fresh(h[e.tid], g[e.tid], m) BY <2>3 DEF Fresh, IsRoot
  <2>4. CASE e \in i /\ h[e.tid].lp = "dead" BY <2>3, <2>4
  <2>5. CASE e \in i /\ IsRoot(h[e.tid]) BY <2>2, <2>5 DEF PlainLine, IsRoot, Fresh
  <2> QED BY <2>3, <2>4, <2>5 DEF IndexOK
<1>2. ASSUME NEW b \in Blocks, NEW r \in Offsets, NEW o \in Offsets,
             OnChain(g, b, r, o), g[<<b, o>>].lp = "normal"
      PROVE  [tid |-> <<b, r>>, body |-> g[<<b, o>>].body] \in j
  <2>0. <<b, o>> \in Tids /\ <<b, r>> \in Tids BY DEF Tids
  <2>1. PlainLine(h[<<b, o>>], g[<<b, o>>], m) BY <2>0 DEF Plain
  <2>2. CASE h[<<b, o>>].lp = "normal"
    <3>1. OnChain(h, b, r, o)
      <4>1. OnChain(h, b, r, o) \/ (r = o /\ h[<<b, r>>].lp = "unused") BY <1>2, PlainOnChain
      <4> QED BY <2>2, <4>1
    <3>2. [tid |-> <<b, r>>, body |-> h[<<b, o>>].body] \in i BY <2>2, <3>1 DEF IndexOK
    <3>3. h[<<b, r>>].lp # "dead" BY <3>1 DEF OnChain, IsRoot
    <3>4. g[<<b, o>>].body = h[<<b, o>>].body BY <2>1, <2>2 DEF PlainLine
    <3> QED BY <3>2, <3>3, <3>4
  <2>3. CASE h[<<b, o>>].lp # "normal"
    <3>1. Fresh(h[<<b, o>>], g[<<b, o>>], m) BY <1>2, <2>1, <2>3 DEF PlainLine
    <3>2. o \in ChainFrom(h, b, r) BY <1>2, PlainChains DEF OnChain
    <3>3. \A p \in Offsets : p # r /\ p \in ChainFrom(h, b, r) => h[<<b, p>>].lp = "normal"
      BY PlainChains, ZenonT(30)
    <3>4. o = r BY <2>3, <3>2, <3>3
    <3> QED BY <2>0, <3>1, <3>4
  <2> QED BY <2>2, <2>3
<1> QED BY <1>1, <1>2 DEF IndexOK

(* A HOT update leaves the index right as it is.                           *)
LEMMA IndexHot ==
    ASSUME NEW h, NEW n, HeapOK(h, n), NEW g, Typed(g), NEW m, NEW t, NEW u, HotStep(h, g, t, u, m),
           NEW i, IndexOK(h, i)
    PROVE  IndexOK(g, i)
<1>0. t \in Tids /\ u \in Tids /\ u[1] = t[1] BY DEF HotStep
<1>1. t[1] \in Blocks /\ t[2] \in Offsets /\ t = <<t[1], t[2]>> /\ u = <<u[1], u[2]>>
  BY <1>0, TidFacts
<1>2. ASSUME NEW e \in i PROVE IsRoot(g[e.tid]) \/ g[e.tid].lp = "dead"
  <2>1. e.tid \in Tids /\ (IsRoot(h[e.tid]) \/ h[e.tid].lp = "dead") BY DEF IndexOK
  <2>2. CASE e.tid = t BY <2>1, <2>2 DEF HotStep, IsRoot
  <2>3. CASE e.tid = u BY <2>1, <2>3 DEF HotStep, IsRoot
  <2>4. CASE e.tid # t /\ e.tid # u
    <3>1. g[e.tid] = h[e.tid] BY <2>1, <2>4 DEF HotStep
    <3> QED BY <2>1, <3>1
  <2> QED BY <2>2, <2>3, <2>4
<1>3. ASSUME NEW b \in Blocks, NEW r \in Offsets, NEW o \in Offsets,
             OnChain(g, b, r, o), g[<<b, o>>].lp = "normal"
      PROVE  [tid |-> <<b, r>>, body |-> g[<<b, o>>].body] \in i
  <2>0. <<b, o>> \in Tids BY DEF Tids
  <2>1. OnChain(h, b, r, o) \/ (<<b, o>> = u /\ OnChain(h, b, r, t[2])) BY <1>3, HotChains
  <2>2. CASE <<b, o>> = u
    <3>1. b = t[1] /\ <<b, t[2]>> = t BY <1>0, <1>1, <2>2
    <3>2. ~OnChain(h, b, r, o)
      <4>1. h[<<b, o>>].lp = "unused" BY <2>2 DEF HotStep
      <4> QED BY <4>1, FreeOffChain
    <3>3. h[<<b, t[2]>>].lp = "normal" /\ g[<<b, o>>].body = h[<<b, t[2]>>].body
      BY <2>2, <3>1 DEF HotStep
    <3>4. [tid |-> <<b, r>>, body |-> h[<<b, t[2]>>].body] \in i
      BY <1>1, <2>1, <3>2, <3>3 DEF IndexOK
    <3> QED BY <3>3, <3>4
  <2>3. CASE <<b, o>> # u
    <3>1. h[<<b, o>>].lp = "normal" /\ h[<<b, o>>].body = g[<<b, o>>].body
      <4>1. CASE <<b, o>> = t BY <4>1 DEF HotStep
      <4>2. CASE <<b, o>> # t
        <5>1. g[<<b, o>>] = h[<<b, o>>] BY <2>0, <2>3, <4>2 DEF HotStep
        <5> QED BY <1>3, <5>1
      <4> QED BY <4>1, <4>2
    <3>2. [tid |-> <<b, r>>, body |-> h[<<b, o>>].body] \in i
      BY <2>1, <2>3, <3>1 DEF IndexOK
    <3> QED BY <3>1, <3>2
  <2> QED BY <2>2, <2>3
<1> QED BY <1>2, <1>3 DEF IndexOK

(* So does pruning, which keeps the roots of a page.                       *)
LEMMA IndexPrune ==
    ASSUME NEW h, NEW n, HeapOK(h, n), NEW g, Typed(g), NEW b \in Blocks, NEW z \in Nat,
           PruneStep(h, g, b, z), NEW i, IndexOK(h, i)
    PROVE  IndexOK(g, i)
<1>1. ASSUME NEW e \in i PROVE IsRoot(g[e.tid]) \/ g[e.tid].lp = "dead"
  <2> DEFINE c == e.tid[1]
             o == e.tid[2]
  <2>1. e.tid \in Tids /\ (IsRoot(h[e.tid]) \/ h[e.tid].lp = "dead") BY DEF IndexOK
  <2>2. c \in Blocks /\ o \in Offsets /\ e.tid = <<c, o>> BY <2>1, TidFacts
  <2> HIDE DEF c, o
  <2>3. CASE c # b BY <2>1, <2>2, <2>3, PruneAt
  <2>4. CASE c = b
    <3>1. g[<<c, o>>] = PruneLine(h, c, o, z) BY <2>2, <2>4, PruneAt
    <3>2. /\ IsRoot(h[<<c, o>>]) => IsRoot(g[<<c, o>>]) \/ g[<<c, o>>].lp = "dead"
          /\ h[<<c, o>>].lp = "dead" => g[<<c, o>>] = h[<<c, o>>]
      BY <2>2, <3>1, PruneLines
    <3> QED BY <2>1, <2>2, <3>2
  <2> QED BY <2>3, <2>4
<1>2. ASSUME NEW c \in Blocks, NEW r \in Offsets, NEW o \in Offsets,
             OnChain(g, c, r, o), g[<<c, o>>].lp = "normal"
      PROVE  [tid |-> <<c, r>>, body |-> g[<<c, o>>].body] \in i
  <2>1. <<c, o>> \in Tids BY DEF Tids
  <2>2. g[<<c, o>>] = h[<<c, o>>] BY <1>2, <2>1, PruneVersions
  <2>3. OnChain(h, c, r, o) BY <1>2, PruneOnChain
  <2>4. h[<<c, o>>].lp = "normal" BY <1>2, <2>2
  <2>5. [tid |-> <<c, r>>, body |-> h[<<c, o>>].body] \in i BY <2>3, <2>4 DEF IndexOK
  <2> QED BY <2>2, <2>5
<1> QED BY <1>1, <1>2 DEF IndexOK

-----------------------------------------------------------------------------
(* What a step of another session does to the heap and the index.          *)
OtherStep ==
    /\ HeapOK(heap', xid') /\ IndexOK(heap', idx') /\ xid' \in 1 .. MaxXid /\ xid <= xid'
    /\ pc # "idle" => Same(heap, heap', snap)
    /\ UNCHANGED <<packing, pc, mode, snap, pageVars, cand, entries, execVars>>

(* The lines a step finds.                                                 *)
LEMMA LinesHere ==
    ASSUME IInv
    PROVE  /\ HeapOK(heap, xid) /\ IndexOK(heap, idx) /\ Typed(heap) /\ Versions(heap, xid) /\ Links(heap)
           /\ xid \in Nat /\ snap \in Nat /\ snap <= xid
           /\ \A t \in Tids : heap[t] \in LineRec /\ t[1] \in Blocks /\ t[2] \in Offsets /\ t = <<t[1], t[2]>>
           /\ \A t \in Tids : heap[t].lp # "normal" /\ heap[t].lp # "redirect" => heap[t].link = Invalid
           /\ \A t \in Tids : Current(t) => heap[t].link = Invalid
<1>1. HeapOK(heap, xid) /\ IndexOK(heap, idx) /\ TypeInv BY DEF IInv
<1>2. Typed(heap) /\ Versions(heap, xid) /\ Links(heap) BY <1>1 DEF HeapOK, Versions, Typed
<1>3. xid \in Nat /\ snap \in Nat /\ snap <= xid BY <1>1 DEF TypeInv
<1>4. \A t \in Tids : heap[t] \in LineRec /\ t[1] \in Blocks /\ t[2] \in Offsets /\ t = <<t[1], t[2]>>
  BY <1>2, TidFacts DEF Typed
<1>5. ASSUME NEW t \in Tids, heap[t].lp # "normal", heap[t].lp # "redirect" PROVE heap[t].link = Invalid
  <2>1. heap[<<t[1], t[2]>>].link # Invalid => heap[<<t[1], t[2]>>].lp \in {"normal", "redirect"}
    BY <1>2, <1>4 DEF Links
  <2>2. heap[t].link # Invalid => heap[t].lp \in {"normal", "redirect"} BY <1>4, <2>1
  <2> QED BY <1>5, <2>2
<1>6. \A t \in Tids : Current(t) => heap[t].link = Invalid BY <1>1, HotLast DEF Current
<1> QED BY <1>1, <1>2, <1>3, <1>4, <1>5, <1>6

(* A free line pointer is on the page and free.                            *)
LEMMA FreeLine ==
    ASSUME NEW b \in Blocks, NEW u \in FirstFree(b)
    PROVE  u \in Tids /\ u[1] = b /\ heap[u].lp = "unused"
<1> DEFINE free == {o \in Offsets : heap[<<b, o>>].lp = "unused"}
<1>1. PICK o \in free : u = <<b, o>> BY DEF FirstFree
<1> QED BY <1>1 DEF Tids

(* The lines without a tuple.                                              *)
LEMMA EmptyLines ==
    /\ Unused \in LineRec /\ DeadLine \in LineRec
    /\ \A f \in Offsets : Redirect(f) \in LineRec
<1>1. 0 \in 0 .. MaxOff /\ 0 \in 0 .. MaxXid BY Bounds
<1>2. \A f \in Offsets : f \in 0 .. MaxOff BY Bounds DEF Offsets
<1>3. Unused \in LineRec BY <1>1 DEF Unused, Line, LineRec, Invalid
<1>4. DeadLine \in LineRec BY <1>1 DEF DeadLine, Line, LineRec, Invalid
<1>5. \A f \in Offsets : Redirect(f) \in LineRec BY <1>1, <1>2 DEF Redirect, Line, LineRec, Invalid
<1> QED BY <1>3, <1>4, <1>5

(* Delete ends a version.                                                  *)
LEMMA DeleteStep ==
    ASSUME IInv, NEW t \in Tids, Delete(t)
    PROVE  OtherStep
<1> DEFINE h == heap
           g == heap'
           m == xid + 1
<1>1. /\ Current(t) /\ heap' = [heap EXCEPT ![t].xmax = xid + 1] /\ idx' = idx
      /\ xid < MaxXid /\ xid' = xid + 1
      /\ UNCHANGED <<packing, pc, mode, snap, pageVars, cand, entries, execVars>>
  BY DEF Delete, Commit
<1>2. /\ HeapOK(h, xid) /\ IndexOK(h, idx) /\ Typed(h) /\ xid \in Nat /\ snap \in Nat /\ snap <= xid
      /\ \A v \in Tids : h[v] \in LineRec
  BY LinesHere
<1>3. /\ \A v \in Tids : v # t => g[v] = h[v]
      /\ g[t].lp = h[t].lp /\ g[t].xmin = h[t].xmin /\ g[t].heapOnly = h[t].heapOnly
      /\ g[t].link = h[t].link /\ g[t].body = h[t].body /\ g[t].xmax = m
  BY <1>1, <1>2 DEF Typed, LineRec
<1>4. Typed(g)
  <2>1. m \in 0 .. MaxXid BY <1>1, <1>2, Bounds
  <2> QED BY <1>1, <1>2, <2>1 DEF Typed, LineRec
<1>5. h[t].lp = "normal" /\ h[t].xmax = Invalid BY <1>1 DEF Current
<1>6. xid' = m /\ idx' = idx /\ m \in 1 .. MaxXid /\ m \in Nat /\ xid <= m
  BY <1>1, <1>2, Bounds
<1>7. m = xid + 1 OBVIOUS
<1> HIDE DEF h, g, m
<1>8. Plain(h, g, m)
  <2> SUFFICES ASSUME NEW v \in Tids PROVE PlainLine(h[v], g[v], m) BY DEF Plain
  <2>1. CASE v = t BY <1>3, <1>5, <2>1 DEF PlainLine, Ends
  <2>2. CASE v # t BY <1>3, <2>2 DEF PlainLine, Ends
  <2> QED BY <2>1, <2>2
<1>9. \A v \in Tids : ~Fresh(h[v], g[v], m)
  <2>1. \A v \in Tids : v # t => ~Fresh(h[v], g[v], m) BY <1>3 DEF Fresh
  <2>2. ~Fresh(h[t], g[t], m) BY <1>5 DEF Fresh
  <2> QED BY <2>1, <2>2
<1>10. HeapOK(g, m) /\ Same(h, g, snap) BY <1>2, <1>4, <1>6, <1>7, <1>8, PlainHeap
<1>11. IndexOK(g, idx)
  <2>1. idx \subseteq [tid : Tids, body : Bodies] BY <1>2 DEF IndexOK
  <2>2. \A e \in idx : h[e.tid].lp = "dead" => g[e.tid].lp = "dead" BY <1>3, <1>5, <2>1
  <2> QED BY <1>2, <1>4, <1>8, <1>9, <2>1, <2>2, IndexPlain
<1> QED BY <1>1, <1>6, <1>10, <1>11 DEF OtherStep, h, g

(* VACUUM frees a dead line that the index no longer has.                  *)
LEMMA VacuumStep ==
    ASSUME IInv, NEW t \in Tids, Vacuum(t)
    PROVE  OtherStep
<1> DEFINE h == heap
           g == heap'
           j == idx'
<1>1. /\ heap[t].lp = "dead" /\ heap' = [heap EXCEPT ![t] = Unused]
      /\ idx' = {e \in idx : e.tid # t} /\ xid' = xid
      /\ UNCHANGED <<packing, pc, mode, snap, pageVars, cand, entries, execVars>>
  BY DEF Vacuum
<1>2. /\ HeapOK(h, xid) /\ IndexOK(h, idx) /\ Typed(h) /\ xid \in Nat /\ snap \in Nat /\ snap <= xid
      /\ h[t].link = Invalid
  BY <1>1, LinesHere
<1>3. (\A v \in Tids : v # t => g[v] = h[v]) /\ g[t] = Unused
  BY <1>1, <1>2 DEF Typed
<1>4. g[t].lp = "unused" /\ g[t].link = Invalid BY <1>3 DEF Unused, Line
<1>5. Typed(g)
  <2> QED BY <1>1, <1>2, EmptyLines DEF Typed
<1>6. h[t].lp = "dead" /\ j = {e \in idx : e.tid # t} BY <1>1
<1>7. xid' = xid /\ xid \in 1 .. MaxXid BY <1>1 DEF IInv, TypeInv
<1> HIDE DEF h, g, j
<1>8. Plain(h, g, xid)
  <2> SUFFICES ASSUME NEW v \in Tids PROVE PlainLine(h[v], g[v], xid) BY DEF Plain
  <2>1. CASE v = t BY <1>2, <1>4, <1>6, <2>1 DEF PlainLine
  <2>2. CASE v # t BY <1>3, <2>2 DEF PlainLine, Ends
  <2> QED BY <2>1, <2>2
<1>9. ASSUME NEW v \in Tids PROVE ~Fresh(h[v], g[v], xid)
  <2>1. CASE v = t BY <1>4, <2>1 DEF Fresh
  <2>2. CASE v # t BY <1>3, <2>2 DEF Fresh
  <2> QED BY <2>1, <2>2
<1>10. HeapOK(g, xid) /\ Same(h, g, snap)
  <2>1. \A v \in Tids : h[v].lp = "normal" => g[v] = h[v] BY <1>3, <1>6
  <2> QED BY <1>2, <1>5, <1>8, <1>9, <2>1, PlainHeap
<1>11. IndexOK(g, j)
  <2>1. idx \subseteq [tid : Tids, body : Bodies] BY <1>2 DEF IndexOK
  <2>2. j \subseteq [tid : Tids, body : Bodies] BY <1>6, <2>1
  <2>3. \A e \in j : e \in idx /\ (h[e.tid].lp = "dead" => g[e.tid].lp = "dead") BY <1>3, <1>6, <2>1
  <2>4. \A e \in idx : h[e.tid].lp # "dead" => e \in j BY <1>6
  <2> QED BY <1>2, <1>5, <1>8, <1>9, <2>2, <2>3, <2>4, IndexPlain
<1> QED BY <1>1, <1>7, <1>10, <1>11 DEF OtherStep, h, g, j

(* An update that changes the body ends a version and adds a root, which   *)
(* the index gets.                                                         *)
LEMMA UpdateStep ==
    ASSUME IInv, NEW t \in Tids, NEW blk \in Blocks, NEW b \in Bodies, Update(t, blk, b)
    PROVE  OtherStep
<1>0. PICK u \in FirstFree(blk) :
        /\ Current(t)
        /\ Commit([heap EXCEPT ![t].xmax = xid + 1,
                               ![u] = Line("normal", xid + 1, FALSE, Invalid, b)],
                  idx \cup {[tid |-> u, body |-> b]})
  BY DEF Update
<1> DEFINE h == heap
           g == heap'
           m == xid + 1
           j == idx'
           l == Line("normal", xid + 1, FALSE, Invalid, b)
<1>1. /\ heap' = [heap EXCEPT ![t].xmax = xid + 1, ![u] = l]
      /\ idx' = idx \cup {[tid |-> u, body |-> b]} /\ xid < MaxXid /\ xid' = xid + 1
      /\ UNCHANGED <<packing, pc, mode, snap, pageVars, cand, entries, execVars>>
  BY <1>0 DEF Commit
<1>2. /\ HeapOK(h, xid) /\ IndexOK(h, idx) /\ Typed(h) /\ xid \in Nat /\ snap \in Nat /\ snap <= xid
      /\ \A v \in Tids : h[v] \in LineRec
      /\ \A v \in Tids : h[v].lp # "normal" /\ h[v].lp # "redirect" => h[v].link = Invalid
  BY LinesHere
<1>3. u \in Tids /\ h[u].lp = "unused" BY FreeLine
<1>4. h[t].lp = "normal" /\ h[t].xmax = Invalid /\ t # u BY <1>0, <1>3 DEF Current
<1>5. /\ l \in LineRec /\ l.lp = "normal" /\ l.xmin = m /\ l.xmax = Invalid /\ ~l.heapOnly
      /\ l.link = Invalid /\ l.body = b
  <2>1. 0 \in 0 .. MaxOff /\ 0 \in 0 .. MaxXid /\ m \in 0 .. MaxXid BY <1>1, <1>2, Bounds
  <2> HIDE DEF m
  <2>2. l = Line("normal", m, FALSE, Invalid, b) BY DEF m
  <2> HIDE DEF l
  <2> QED BY <2>1, <2>2 DEF Line, LineRec, Invalid
<1> HIDE DEF l
<1>6. /\ \A v \in Tids : v # t /\ v # u => g[v] = h[v]
      /\ g[u] = l /\ g[t] = [h[t] EXCEPT !.xmax = m]
  BY <1>1, <1>2, <1>3, <1>4 DEF Typed
<1>7. /\ g[t] \in LineRec
      /\ g[t].lp = h[t].lp /\ g[t].xmin = h[t].xmin /\ g[t].heapOnly = h[t].heapOnly
      /\ g[t].link = h[t].link /\ g[t].body = h[t].body /\ g[t].xmax = m
  <2> DEFINE old == h[t]
             new == g[t]
  <2>0. m \in 0 .. MaxXid BY <1>1, <1>2, Bounds
  <2>1. old \in LineRec /\ new = [old EXCEPT !.xmax = m] BY <1>2, <1>6
  <2> HIDE DEF old, new, m
  <2>2. /\ new \in LineRec /\ new.lp = old.lp /\ new.xmin = old.xmin /\ new.heapOnly = old.heapOnly
        /\ new.link = old.link /\ new.body = old.body /\ new.xmax = m
    BY <2>0, <2>1 DEF LineRec
  <2> QED BY <2>2 DEF old, new
<1>8. Typed(g)
  <2>1. \A v \in Tids : g[v] \in LineRec BY <1>2, <1>5, <1>6, <1>7
  <2>2. g = [v \in Tids |-> g[v]] BY <1>1, <1>2 DEF Typed
  <2> HIDE DEF g
  <2> QED BY <2>1, <2>2 DEF Typed
<1>9. xid' = m /\ m \in 1 .. MaxXid /\ m \in Nat /\ xid <= m BY <1>1, <1>2, Bounds
<1>10. m = xid + 1 /\ j = idx \cup {[tid |-> u, body |-> b]} BY <1>1
<1> HIDE DEF h, g, m, j
<1>11. Fresh(h[u], g[u], m) BY <1>3, <1>5, <1>6 DEF Fresh
<1>12. \A v \in Tids : Fresh(h[v], g[v], m) => v = u
  <2>1. ~Fresh(h[t], g[t], m) BY <1>4 DEF Fresh
  <2>2. \A v \in Tids : v # t /\ v # u => ~Fresh(h[v], g[v], m) BY <1>6 DEF Fresh
  <2> QED BY <2>1, <2>2
<1>13. Plain(h, g, m)
  <2> SUFFICES ASSUME NEW v \in Tids PROVE PlainLine(h[v], g[v], m) BY DEF Plain
  <2>1. CASE v = t BY <1>4, <1>7, <2>1 DEF PlainLine, Ends
  <2>2. CASE v = u
    <3>1. h[u].link = Invalid BY <1>2, <1>3
    <3> QED BY <1>3, <1>5, <1>6, <1>11, <2>2, <3>1 DEF PlainLine
  <2>3. CASE v # t /\ v # u
    <3>1. g[v] = h[v] BY <1>6, <2>3
    <3> QED BY <3>1 DEF PlainLine, Ends
  <2> QED BY <2>1, <2>2, <2>3
<1>14. HeapOK(g, m) /\ Same(h, g, snap) BY <1>2, <1>8, <1>9, <1>10, <1>13, PlainHeap
<1>15. IndexOK(g, j)
  <2>1. idx \subseteq [tid : Tids, body : Bodies] BY <1>2 DEF IndexOK
  <2>2. j \subseteq [tid : Tids, body : Bodies] BY <1>3, <1>10, <2>1
  <2>3. ASSUME NEW e \in j
        PROVE  (e \in idx /\ (h[e.tid].lp = "dead" => g[e.tid].lp = "dead"))
               \/ Fresh(h[e.tid], g[e.tid], m)
    <3>1. CASE e.tid = u BY <1>11, <3>1
    <3>2. CASE e.tid # u
      <4>1. e \in idx /\ e.tid \in Tids BY <1>10, <2>1, <3>2
      <4>2. h[e.tid].lp = "dead" => g[e.tid].lp = "dead" BY <1>4, <1>6, <3>2, <4>1
      <4> QED BY <4>1, <4>2
    <3> QED BY <3>1, <3>2
  <2>4. \A e \in idx : h[e.tid].lp # "dead" => e \in j BY <1>10
  <2>5. \A v \in Tids : Fresh(h[v], g[v], m) => [tid |-> v, body |-> g[v].body] \in j
    BY <1>5, <1>6, <1>10, <1>12
  <2> QED BY <1>2, <1>8, <1>13, <2>2, <2>3, <2>4, <2>5, IndexPlain
<1> QED BY <1>1, <1>9, <1>14, <1>15 DEF OtherStep, h, g, j

(* A HOT update.                                                           *)
LEMMA HotUpdateStep ==
    ASSUME IInv, NEW t \in Tids, HotUpdate(t)
    PROVE  OtherStep
<1>0. PICK u \in FirstFree(t[1]) :
        /\ Current(t)
        /\ Commit([heap EXCEPT ![t].xmax = xid + 1, ![t].link = u[2],
                               ![u] = Line("normal", xid + 1, TRUE, Invalid, heap[t].body)], idx)
  BY DEF HotUpdate
<1> DEFINE h == heap
           g == heap'
           m == xid + 1
           l == Line("normal", xid + 1, TRUE, Invalid, heap[t].body)
           k == u[2]
           h1 == [heap EXCEPT ![t].xmax = xid + 1]
           h2 == [h1 EXCEPT ![t].link = k]
<1>1. /\ heap' = [h2 EXCEPT ![u] = l]
      /\ idx' = idx /\ xid < MaxXid /\ xid' = xid + 1
      /\ UNCHANGED <<packing, pc, mode, snap, pageVars, cand, entries, execVars>>
  BY <1>0 DEF Commit
<1>2. /\ HeapOK(h, xid) /\ IndexOK(h, idx) /\ Typed(h) /\ xid \in Nat /\ snap \in Nat /\ snap <= xid
      /\ \A v \in Tids : h[v] \in LineRec
  BY LinesHere
<1>3. u \in Tids /\ u[1] = t[1] /\ h[u].lp = "unused" BY FreeLine, TidFacts
<1>4. h[t].lp = "normal" /\ h[t].xmax = Invalid /\ t # u BY <1>0, <1>3 DEF Current
<1>5. k \in 0 .. MaxOff
  <2>1. k \in Offsets BY <1>3, TidFacts
  <2> QED BY <2>1, Bounds DEF Offsets
<1>6. /\ l \in LineRec /\ l.lp = "normal" /\ l.xmin = m /\ l.xmax = Invalid /\ l.heapOnly
      /\ l.link = Invalid /\ l.body = h[t].body
  <2> DEFINE b == heap[t].body
  <2>1. 0 \in 0 .. MaxOff /\ 0 \in 0 .. MaxXid /\ m \in 0 .. MaxXid BY <1>1, <1>2, Bounds
  <2>2. b \in Bodies \cup {NoBody} BY <1>2 DEF LineRec
  <2> HIDE DEF m, b
  <2>3. l = Line("normal", m, TRUE, Invalid, b) BY DEF m, b
  <2> HIDE DEF l
  <2>4. /\ l \in LineRec /\ l.lp = "normal" /\ l.xmin = m /\ l.xmax = Invalid /\ l.heapOnly
        /\ l.link = Invalid /\ l.body = b
    BY <2>1, <2>2, <2>3 DEF Line, LineRec, Invalid
  <2> QED BY <2>4 DEF b
<1> HIDE DEF l, k
<1>7. h1 \in [Tids -> LineRec] /\ h1[t] = [h[t] EXCEPT !.xmax = m]
      /\ \A v \in Tids : v # t => h1[v] = h[v]
  <2>1. m \in 0 .. MaxXid BY <1>1, <1>2, Bounds
  <2>2. h \in [Tids -> LineRec] BY <1>2 DEF Typed
  <2>3. m \in 0 .. MaxXid /\ h1 = [h EXCEPT ![t].xmax = m] BY <2>1
  <2> HIDE DEF m, h1, h
  <2> QED BY <2>2, <2>3 DEF LineRec
<1> HIDE DEF h1
<1>8. h2 \in [Tids -> LineRec] /\ h2[t] = [h1[t] EXCEPT !.link = k]
      /\ \A v \in Tids : v # t => h2[v] = h1[v]
  <2>1. h1 \in [Tids -> LineRec] /\ k \in 0 .. MaxOff /\ h2 = [h1 EXCEPT ![t].link = k] BY <1>5, <1>7
  <2> HIDE DEF h2
  <2> QED BY <2>1, SMTT(30) DEF LineRec
<1> HIDE DEF h2
<1>9. /\ \A v \in Tids : v # t /\ v # u => g[v] = h[v]
      /\ g[u] = l /\ g[t] = h2[t] /\ Typed(g)
  BY <1>1, <1>3, <1>4, <1>6, <1>7, <1>8 DEF Typed
<1>10. /\ g[t].lp = h[t].lp /\ g[t].xmin = h[t].xmin /\ g[t].heapOnly = h[t].heapOnly
       /\ g[t].link = k /\ g[t].body = h[t].body /\ g[t].xmax = m
  <2> DEFINE old == h[t]
             mid == h1[t]
             new == h2[t]
  <2>0. m \in 0 .. MaxXid BY <1>1, <1>2, Bounds
  <2>1. old \in LineRec /\ mid = [old EXCEPT !.xmax = m] /\ new = [mid EXCEPT !.link = k]
    BY <1>2, <1>7, <1>8
  <2>2. g[t] = new BY <1>9
  <2> HIDE DEF old, mid, new, m
  <2>3. /\ mid \in LineRec /\ mid.lp = old.lp /\ mid.xmin = old.xmin /\ mid.heapOnly = old.heapOnly
        /\ mid.body = old.body /\ mid.xmax = m
    BY <2>0, <2>1 DEF LineRec
  <2>4. /\ new.lp = mid.lp /\ new.xmin = mid.xmin /\ new.heapOnly = mid.heapOnly
        /\ new.body = mid.body /\ new.xmax = mid.xmax /\ new.link = k
    BY <2>1, <2>3 DEF LineRec
  <2> QED BY <2>2, <2>3, <2>4 DEF old
<1>11. xid' = m /\ m \in 1 .. MaxXid /\ m \in Nat /\ xid <= m /\ m = xid + 1 BY <1>1, <1>2, Bounds
<1> HIDE DEF h, g, m
<1>12. HotStep(h, g, t, u, m) BY <1>3, <1>4, <1>6, <1>9, <1>10 DEF HotStep, k
<1>13. HotStep(h, g, t, u, xid + 1) BY <1>11, <1>12
<1>14. HeapOK(g, xid + 1) /\ Same(h, g, snap) BY <1>2, <1>9, <1>13, HotHeap
<1>15. IndexOK(g, idx) BY <1>2, <1>9, <1>12, IndexHot
<1> QED BY <1>1, <1>11, <1>14, <1>15 DEF OtherStep, h, g

(* Pruning: what it takes away no snapshot sees, the one of the scan       *)
(* included.                                                               *)
LEMMA PruneStepHolds ==
    ASSUME IInv, NEW b \in Blocks, Prune(b)
    PROVE  OtherStep
<1> DEFINE h == heap
           g == heap'
           z == Horizon
<1>1. /\ heap' = PrunedBlock(b) /\ idx' = idx /\ xid' = xid
      /\ UNCHANGED <<packing, pc, mode, snap, pageVars, cand, entries, execVars>>
  BY DEF Prune
<1>2. /\ HeapOK(h, xid) /\ IndexOK(h, idx) /\ Typed(h) /\ xid \in Nat /\ snap \in Nat /\ snap <= xid
      /\ \A v \in Tids : h[v] \in LineRec /\ v[1] \in Blocks /\ v[2] \in Offsets /\ v = <<v[1], v[2]>>
  BY LinesHere
<1>3. z \in Nat /\ (pc # "idle" => z = snap) BY <1>2 DEF Horizon
<1>4. \A v : Gone(v) <=> GoneAt(v, z) BY DEF Gone, GoneAt
<1>5. ASSUME NEW o
      PROVE  Left(h, b, o, z) = {p \in ChainFrom(heap, b, o) :
                                   heap[<<b, p>>].lp = "normal" /\ ~Gone(heap[<<b, p>>])}
  BY <1>4 DEF Left, Stays
<1> HIDE DEF z
<1>6. ASSUME NEW c \in Blocks, NEW o \in Offsets
      PROVE  g[<<c, o>>] = IF c # b THEN h[<<c, o>>] ELSE PruneLine(h, b, o, z)
  <2> DEFINE t == <<c, o>>
             L == Left(h, b, o, z)
             left == {p \in ChainFrom(heap, b, t[2]) :
                        heap[<<b, p>>].lp = "normal" /\ ~Gone(heap[<<b, p>>])}
  <2>1. t \in Tids /\ t[1] = c /\ t[2] = o BY DEF Tids
  <2>2. left = L BY <1>5, <2>1
  <2>3. g[t] = IF t[1] # b THEN heap[t]
               ELSE IF IsRoot(heap[t]) /\ t[2] \notin left
                    THEN IF left = {} THEN DeadLine
                         ELSE Redirect(CHOOSE p \in left : left \subseteq ChainFrom(heap, b, p))
               ELSE IF Gone(heap[t]) THEN Unused
               ELSE heap[t]
    BY <1>1, <2>1 DEF PrunedBlock
  <2> HIDE DEF left
  <2>4. CASE c # b BY <2>1, <2>3, <2>4
  <2>5. CASE c = b
    <3>1. Gone(heap[t]) <=> GoneAt(h[t], z) BY <1>4
    <3>2. g[t] = IF IsRoot(h[t]) /\ o \notin L
                    THEN IF L = {} THEN DeadLine
                         ELSE Redirect(CHOOSE p \in L : L \subseteq ChainFrom(h, b, p))
               ELSE IF GoneAt(h[t], z) THEN Unused
               ELSE h[t]
      BY <2>1, <2>2, <2>3, <2>5, <3>1
    <3> QED BY <2>5, <3>2 DEF PruneLine
  <2> QED BY <2>4, <2>5
<1>7. PruneStep(h, g, b, z) BY <1>6 DEF PruneStep
<1>8. Typed(g)
  <2>1. ASSUME NEW o \in Offsets PROVE PruneLine(h, b, o, z) \in LineRec
    <3> DEFINE L == Left(h, b, o, z)
               f == CHOOSE p \in L : L \subseteq ChainFrom(h, b, p)
    <3>1. L # {} => f \in L BY <1>2, <1>3, FirstLeft
    <3>2. L \subseteq Offsets BY <1>2, ChainClosed DEF Left
    <3>3. L # {} => Redirect(f) \in LineRec BY <3>1, <3>2, EmptyLines
    <3>4. h[<<b, o>>] \in LineRec BY <1>2 DEF Tids
    <3> HIDE DEF L, f
    <3> QED BY <3>3, <3>4, EmptyLines DEF PruneLine, L, f
  <2>2. ASSUME NEW v \in Tids PROVE g[v] \in LineRec
    <3>1. v[1] \in Blocks /\ v[2] \in Offsets /\ v = <<v[1], v[2]>> /\ h[v] \in LineRec BY <1>2
    <3>2. g[v] = IF v[1] # b THEN h[v] ELSE PruneLine(h, b, v[2], z) BY <1>6, <3>1
    <3> QED BY <2>1, <3>1, <3>2
  <2>3. g = [v \in Tids |-> g[v]] BY <1>1 DEF PrunedBlock
  <2> HIDE DEF g
  <2> QED BY <2>2, <2>3 DEF Typed
<1> HIDE DEF h, g
<1>9. HeapOK(g, xid) /\ Same(h, g, z) BY <1>2, <1>3, <1>7, <1>8, PruneHeap
<1>10. IndexOK(g, idx) BY <1>2, <1>3, <1>7, <1>8, IndexPrune
<1>11. xid \in 1 .. MaxXid BY DEF IInv, TypeInv
<1> QED BY <1>1, <1>2, <1>3, <1>9, <1>10, <1>11 DEF OtherStep, h, g

-----------------------------------------------------------------------------
(* Packing.                                                                *)
LEMMA StrideFacts ==
    ASSUME NEW pk
    PROVE  Stride(pk) \in Nat /\ MaxOff < Stride(pk)
BY Bounds, SMT DEF Stride, LegacyStride

(* Unpacking gives back the TID that was packed.                           *)
LEMMA Unpacked ==
    ASSUME NEW pk, NEW t \in Tids
    PROVE  PackTid(pk, t) \in Nat /\ UnpackTid(pk, PackTid(pk, t)) = t
<1> DEFINE b == t[1]
           o == t[2]
           S == Stride(pk)
           p == PackTid(pk, t)
<1>1. b \in Blocks /\ o \in Offsets /\ t = <<b, o>> BY TidFacts
<1>2. b \in Nat /\ o \in 1 .. MaxOff BY <1>1, Bounds DEF Offsets
<1>3. S \in Nat /\ MaxOff < S BY StrideFacts
<1>4. p = b * S + o /\ UnpackTid(pk, p) = <<p \div S, p % S>> BY DEF PackTid, UnpackTid
<1> HIDE DEF b, o, S, p
<1>5. o \in 1 .. (S - 1) BY <1>2, <1>3, Bounds
<1>6. p \in Nat BY <1>2, <1>3, <1>4, <1>5
<1>7. p \div S = b /\ p % S = o BY <1>2, <1>3, <1>4, <1>5, SMTT(30)
<1> QED BY <1>1, <1>4, <1>6, <1>7 DEF p

-----------------------------------------------------------------------------
(* The steps of other sessions leave the scan's invariants alone: its      *)
(* snapshot still sees what it saw, and finds it from where it did.        *)
LEMMA OthersInv ==
    ASSUME IInv, OtherStep
    PROVE  IInv'
<1> DEFINE h == heap
           g == heap'
<1>0. /\ HeapOK(h, xid) /\ xid \in Nat /\ snap \in Nat /\ snap <= xid
      /\ TypeInv /\ IdleInv /\ EntryInv /\ StreamInv /\ CandInv /\ CoverInv /\ SortInv /\ OutInv
  BY LinesHere DEF IInv, ScanInv
<1>1. /\ HeapOK(g, xid') /\ IndexOK(heap', idx') /\ xid' \in 1 .. MaxXid /\ xid <= xid'
      /\ pc # "idle" => Same(h, g, snap)
      /\ packing' = packing /\ pc' = pc /\ mode' = mode /\ snap' = snap
      /\ todo' = todo /\ pin' = pin /\ vis' = vis /\ root_blkno' = root_blkno
      /\ root_offsets' = root_offsets /\ cand' = cand /\ entries' = entries
      /\ knn_pos' = knn_pos /\ knn_markpos' = knn_markpos /\ out' = out /\ marked' = marked
  BY DEF OtherStep, pageVars, execVars
<1>2. TypeInv'
  <2>1. snap' \in 0 .. xid' /\ (pc' # "idle" => snap' # 0)
    BY <1>0, <1>1 DEF TypeInv
  <2> QED BY <1>0, <1>1, <2>1 DEF TypeInv
<1>3. IdleInv' BY <1>0, <1>1 DEF IdleInv
<1>4. CASE pc = "idle"
  <2>1. entries' = <<>> /\ pc' = "idle" BY <1>0, <1>1, <1>4 DEF IdleInv
  <2>2. ScanInv' BY <2>1 DEF ScanInv, EntryInv, StreamInv, CandInv, CoverInv, SortInv, OutInv
  <2> QED BY <1>1, <1>2, <1>3, <2>2 DEF IInv
<1>5. CASE pc # "idle"
  <2>1. \A t \in Tids : HotAt(g, snap, t) = HotAt(h, snap, t)
    <3>1. Same(h, g, snap) BY <1>1, <1>5
    <3> HIDE DEF h, g
    <3> QED BY <1>0, <1>1, <3>1, HotStable
  <2>2. \A t \in Tids : \A u \in HotAt(h, snap, t) : u \in Tids /\ Visible(h[u], snap)
    <3> HIDE DEF h
    <3> QED BY <1>0, HotFacts
  <2>3. \A t \in Tids : /\ Visible(g[t], snap) <=> Visible(h[t], snap)
                        /\ Visible(h[t], snap) => g[t].body = h[t].body /\ g[t].heapOnly = h[t].heapOnly
    BY <1>1, <1>5 DEF Same
  <2>4. \A t \in Tids : \A u \in HotAt(h, snap, t) : g[u].body = h[u].body BY <2>2, <2>3
  <2>5. \A i \in DOMAIN entries : Tid(entries[i]) \in Tids BY <1>0 DEF EntryInv
  <2>6. \A i \in DOMAIN entries : HotAt(heap', snap', Tid(entries[i])') = HotAt(heap, snap, Tid(entries[i]))
    BY <1>1, <2>1, <2>5 DEF Tid
  <2>7. EntryInv'
    <3>1. ASSUME NEW i \in DOMAIN entries
          PROVE  /\ Tid(entries[i])' \in Tids
                 /\ mode'.orderby => \A t \in HotAt(heap', snap', Tid(entries[i])') :
                                       entries'[i].dist = DistOf(heap[t].body)'
      <4>1. Tid(entries[i])' = Tid(entries[i]) BY <1>1 DEF Tid
      <4>2. ASSUME mode.orderby, NEW t \in HotAt(heap, snap, Tid(entries[i]))
            PROVE  entries[i].dist = DistOf(heap[t].body)'
        <5>1. entries[i].dist = DistOf(heap[t].body) BY <1>0, <4>2 DEF EntryInv
        <5>2. heap'[t].body = heap[t].body BY <2>4, <2>5, <4>2
        <5> QED BY <1>1, <5>1, <5>2 DEF DistOf
      <4> QED BY <1>1, <2>5, <2>6, <4>1, <4>2
    <3>2. \A i, j \in DOMAIN entries : entries[i].packed_tid = entries[j].packed_tid => i = j
      BY <1>0 DEF EntryInv
    <3> QED BY <1>1, <3>1, <3>2 DEF EntryInv
  <2>8. \A b \in Blocks : VisibleOffsets(b)' = VisibleOffsets(b)
    <3>1. \A b \in Blocks, o \in Offsets : Visible(g[<<b, o>>], snap) <=> Visible(h[<<b, o>>], snap)
      BY <2>3 DEF Tids
    <3> QED BY <1>1, <3>1 DEF VisibleOffsets
  <2>9. StreamInv'
    <3> SUFFICES ASSUME pc \in {"pages", "page"} PROVE StreamInv' BY <1>1 DEF StreamInv
    <3>1. mode.always BY <1>0 DEF StreamInv
    <3>2. ASSUME pc = "page" PROVE pin \in Blocks \ todo /\ vis \subseteq VisibleOffsets(pin)'
      <4>1. pin \in Blocks \ todo /\ vis \subseteq VisibleOffsets(pin) BY <1>0, <3>2 DEF StreamInv
      <4> QED BY <1>1, <2>8, <4>1
    <3>3. ASSUME root_blkno # NoBlock, NEW o \in VisibleOffsets(root_blkno)', root_offsets[o] # Invalid
          PROVE  <<root_blkno, o>> \in HotAt(heap', snap', <<root_blkno, root_offsets[o]>>)
      <4>1. root_blkno \in Blocks BY <1>0, <3>3 DEF TypeInv
      <4>2. o \in VisibleOffsets(root_blkno) BY <1>1, <2>8, <3>3, <4>1
      <4>3. <<root_blkno, o>> \in HotAt(heap, snap, <<root_blkno, root_offsets[o]>>)
        BY <1>0, <3>3, <4>2 DEF StreamInv
      <4>4. <<root_blkno, root_offsets[o]>> \in Tids
        <5>1. o \in Offsets BY <4>2 DEF VisibleOffsets
        <5>2. root_offsets[o] \in 0 .. MaxOff BY <1>0, <5>1 DEF TypeInv
        <5>3. root_offsets[o] \in Offsets BY <3>3, <5>2, Bounds DEF Offsets, Invalid
        <5> QED BY <4>1, <5>3 DEF Tids
      <4> QED BY <1>1, <2>1, <4>3, <4>4
    <3>4. \A i \in DOMAIN entries : \E t \in HotAt(heap', snap', Tid(entries[i])') : Streamed(t)'
      <4>1. \A t : Streamed(t)' <=> Streamed(t) BY <1>1 DEF Streamed
      <4>2. \A i \in DOMAIN entries : \E t \in HotAt(heap, snap, Tid(entries[i])) : Streamed(t)
        BY <1>0 DEF StreamInv
      <4> QED BY <2>6, <4>1, <4>2
    <3> QED BY <1>1, <3>1, <3>2, <3>3, <3>4 DEF StreamInv
  <2>10. CandInv'
    <3> SUFFICES ASSUME pc = "cands" PROVE CandInv' BY <1>1 DEF CandInv
    <3>1. ASSUME NEW p \in cand
          PROVE  \E t \in Tids : /\ p = PackTid(packing, t)
                                 /\ Visible(heap'[t], snap) => ~heap'[t].heapOnly
      <4>1. PICK t \in Tids : /\ p = PackTid(packing, t)
                              /\ Visible(heap[t], snap) => ~heap[t].heapOnly
        BY <1>0 DEF CandInv
      <4> QED BY <2>3, <4>1
    <3> QED BY <1>0, <1>1, <3>1 DEF CandInv
  <2>11. CoverInv'
    <3> SUFFICES ASSUME NEW t \in Tids, Owed(t)'
                 PROVE  /\ pc \in {"pages", "page"} /\ Streamed(t)' => Covered(t)'
                        /\ pc = "cands" => Covered(t)' \/ \E p \in cand : t \in HotAt(heap', snap', UnpackTid(packing, p))
                        /\ pc = "ready" => Covered(t)'
      BY <1>1 DEF CoverInv
    <3>1. Owed(t)
      <4>1. Visible(heap'[t], snap) BY <1>1 DEF Owed
      <4>2. Visible(heap[t], snap) /\ heap'[t].body = heap[t].body /\ heap'[t].heapOnly = heap[t].heapOnly
        BY <2>3, <4>1
      <4>3. Qualifies(heap[t].body) /\ Ranked(heap[t].body) BY <1>1, <4>2 DEF Owed, Qualifies, Ranked
      <4>4. FollowsChains \/ ~heap[t].heapOnly BY <1>1, <4>2 DEF Owed, FollowsChains
      <4> QED BY <4>2, <4>3, <4>4 DEF Owed
    <3>2. Covered(t) => Covered(t)' BY <1>1, <2>6 DEF Covered
    <3>3. Streamed(t)' <=> Streamed(t) BY <1>1 DEF Streamed
    <3>4. ASSUME pc = "cands", NEW p \in cand, t \in HotAt(heap, snap, UnpackTid(packing, p))
          PROVE  t \in HotAt(heap', snap', UnpackTid(packing, p))
      <4>1. PICK v \in Tids : p = PackTid(packing, v) BY <1>0, <3>4 DEF CandInv
      <4>2. UnpackTid(packing, p) = v BY <4>1, Unpacked
      <4> QED BY <1>1, <2>1, <3>4, <4>2
    <3> QED BY <1>0, <3>1, <3>2, <3>3, <3>4 DEF CoverInv
  <2>12. SortInv' BY <1>0, <1>1 DEF SortInv
  <2>13. OutInv'
    <3> SUFFICES ASSUME pc = "ready" PROVE OutInv' BY <1>1 DEF OutInv
    <3>1. DOMAIN entries = 1 .. Len(entries) /\ DOMAIN out = 1 .. Len(out)
      BY <1>0 DEF TypeInv
    <3>2. ASSUME NEW i \in DOMAIN entries, NEW t \in HotAt(heap, snap, Tid(entries[i]))
          PROVE  Qualifies(heap[t].body)' <=> Qualifies(heap[t].body)
      <4>1. heap'[t].body = heap[t].body BY <2>4, <2>5
      <4> QED BY <1>1, <4>1 DEF Qualifies
    <3>3. ASSUME NEW k, NEW i \in DOMAIN entries PROVE Source(k, i)' <=> Source(k, i)
      <4>1. HotAt(heap', snap', Tid(entries[i])') = HotAt(heap, snap, Tid(entries[i])) BY <2>6
      <4>2. out[k].tid \in HotAt(heap, snap, Tid(entries[i])) =>
               (Qualifies(heap[out[k].tid].body)' <=> Qualifies(heap[out[k].tid].body))
        <5> SUFFICES ASSUME out[k].tid \in HotAt(heap, snap, Tid(entries[i]))
                     PROVE  Qualifies(heap[out[k].tid].body)' <=> Qualifies(heap[out[k].tid].body)
          OBVIOUS
        <5>1. heap'[out[k].tid].body = heap[out[k].tid].body BY <2>4, <2>5
        <5> QED BY <1>1, <5>1 DEF Qualifies
      <4> QED BY <1>1, <4>1, <4>2 DEF Source
    <3>4. ASSUME NEW n \in Nat, NEW m \in 0 .. Len(entries), Fetched(n, m) PROVE Fetched(n, m)'
      <4>0. \A i \in 1 .. m : i \in DOMAIN entries BY <3>1
      <4>1. \A k \in 1 .. n : \E i \in 1 .. m : Source(k, i)' BY <3>3, <3>4, <4>0 DEF Fetched
      <4>2. ASSUME NEW i \in 1 .. m, NEW t \in HotAt(heap', snap', Tid(entries[i])'), Qualifies(heap[t].body)'
            PROVE  \E k \in 1 .. n : out'[k].tid = t
        <5>1. t \in HotAt(heap, snap, Tid(entries[i])) BY <2>6, <4>0, <4>2
        <5>2. Qualifies(heap[t].body) BY <3>2, <4>0, <4>2, <5>1
        <5>3. \E k \in 1 .. n : out[k].tid = t BY <3>4, <5>1, <5>2 DEF Fetched
        <5> QED BY <1>1, <5>3
      <4> QED BY <4>1, <4>2 DEF Fetched
    <3>5. Len(out) \in Nat /\ knn_pos \in 0 .. Len(entries) /\ marked \in Nat
      BY <1>0 DEF TypeInv
    <3>6. Fetched(Len(out), knn_pos)' BY <1>0, <1>1, <3>4, <3>5 DEF OutInv
    <3>7. ASSUME marked > 0 PROVE knn_markpos >= 0 /\ Fetched(marked, knn_markpos)'
      <4>1. knn_markpos >= 0 /\ Fetched(marked, knn_markpos) BY <1>0, <3>7 DEF OutInv
      <4>2. knn_markpos \in 0 .. Len(entries) BY <1>0, <4>1 DEF TypeInv
      <4> QED BY <1>1, <3>4, <3>5, <4>1, <4>2
    <3>8. \A k, l \in DOMAIN out, i, j \in DOMAIN entries :
             k < l /\ Source(k, i)' /\ Source(l, j)' => i < j
      BY <1>0, <3>3 DEF OutInv
    <3> QED BY <1>1, <3>6, <3>7, <3>8 DEF OutInv
  <2> QED BY <1>1, <1>2, <1>3, <2>7, <2>9, <2>10, <2>11, <2>12, <2>13 DEF IInv, ScanInv
<1> QED BY <1>4, <1>5

-----------------------------------------------------------------------------
(* The sort of the entries.  No two of them have the same TID.             *)
Distinct(s) == \A i, j \in DOMAIN s : s[i].packed_tid = s[j].packed_tid => i = j

(* knn_entry_cmp then orders them strictly and totally.                    *)
LEMMA BeforeOrder ==
    ASSUME NEW s \in Seq(Entry), Distinct(s)
    PROVE  /\ \A i \in DOMAIN s : ~Before(s, i, i)
           /\ \A i, j \in DOMAIN s : i # j => Before(s, i, j) \/ Before(s, j, i)
           /\ \A i, j, k \in DOMAIN s : Before(s, i, j) /\ Before(s, j, k) => Before(s, i, k)
           /\ \A i, j \in DOMAIN s : Before(s, i, j) => s[i].dist <= s[j].dist
<1>1. /\ DOMAIN s \subseteq Nat
      /\ \A i \in DOMAIN s : s[i].packed_tid \in Nat /\ s[i].dist \in Nat
  <2>1. \A i \in DOMAIN s : s[i] \in Entry /\ i \in Nat OBVIOUS
  <2> QED BY <2>1 DEF Entry
<1>2. \A i, j \in DOMAIN s : i # j => s[i].packed_tid # s[j].packed_tid BY DEF Distinct
<1>3. \A i \in DOMAIN s : ~Before(s, i, i) BY <1>1 DEF Before, EntryCmp
<1>4. ASSUME NEW i \in DOMAIN s, NEW j \in DOMAIN s, i # j PROVE Before(s, i, j) \/ Before(s, j, i)
  BY <1>1, <1>4 DEF Before, EntryCmp
<1>5. ASSUME NEW i \in DOMAIN s, NEW j \in DOMAIN s, i # j PROVE Before(s, i, j) <=> EntryCmp(s[i], s[j])
  <2>1. /\ s[i].packed_tid \in Nat /\ s[i].dist \in Nat /\ s[j].packed_tid \in Nat /\ s[j].dist \in Nat
        /\ s[i].packed_tid # s[j].packed_tid
    BY <1>1, <1>2, <1>5
  <2>2. EntryCmp(s[i], s[j]) \/ EntryCmp(s[j], s[i]) BY <2>1 DEF EntryCmp
  <2> QED BY <2>2 DEF Before
<1>6. ASSUME NEW i \in DOMAIN s, NEW j \in DOMAIN s, NEW k \in DOMAIN s, Before(s, i, j), Before(s, j, k)
      PROVE  Before(s, i, k)
  <2>0. i # j /\ j # k BY <1>3, <1>6
  <2>1. EntryCmp(s[i], s[j]) /\ EntryCmp(s[j], s[k]) BY <1>5, <1>6, <2>0
  <2>2. /\ s[i].packed_tid \in Nat /\ s[i].dist \in Nat /\ s[j].packed_tid \in Nat /\ s[j].dist \in Nat
        /\ s[k].packed_tid \in Nat /\ s[k].dist \in Nat
    BY <1>1
  <2>3. EntryCmp(s[i], s[k]) BY <2>1, <2>2 DEF EntryCmp
  <2> QED BY <2>3 DEF Before
<1>7. ASSUME NEW i \in DOMAIN s, NEW j \in DOMAIN s, Before(s, i, j) PROVE s[i].dist <= s[j].dist
  <2>1. EntryCmp(s[i], s[j]) BY <1>3, <1>5, <1>7
  <2> QED BY <1>1, <2>1 DEF EntryCmp
<1> QED BY <1>3, <1>4, <1>6, <1>7

(* The ranks of the entries are 0 .. Len(s) - 1, in order.                 *)
LEMMA RankFacts ==
    ASSUME NEW s \in Seq(Entry), Distinct(s)
    PROVE  /\ \A i \in DOMAIN s : Rank(s, i) \in 0 .. (Len(s) - 1)
           /\ \A i, j \in DOMAIN s : Before(s, i, j) => Rank(s, i) < Rank(s, j)
           /\ \A k \in DOMAIN s : \E i \in DOMAIN s : Rank(s, i) = k - 1
<1> DEFINE n == Len(s)
           D == DOMAIN s
           B(i) == {j \in D : Before(s, j, i)}
           f == [i \in D |-> Rank(s, i) + 1]
<1>1. D = 1 .. n /\ n \in Nat OBVIOUS
<1>2. IsFiniteSet(D) /\ Cardinality(D) = n BY <1>1, FS_Interval
<1>3. /\ \A i \in D : ~Before(s, i, i)
      /\ \A i, j \in D : i # j => Before(s, i, j) \/ Before(s, j, i)
      /\ \A i, j, k \in D : Before(s, i, j) /\ Before(s, j, k) => Before(s, i, k)
  BY BeforeOrder
<1>4. \A i \in D : Rank(s, i) = Cardinality(B(i)) BY DEF Rank
<1> HIDE DEF D, n
<1>5. ASSUME NEW i \in D PROVE IsFiniteSet(B(i)) /\ Cardinality(B(i)) \in 0 .. (n - 1)
  <2>1. B(i) \in SUBSET D /\ i \in D /\ i \notin B(i) BY <1>3
  <2> DEFINE T == B(i)
  <2> HIDE DEF T
  <2>2. T \in SUBSET D /\ T # D BY <2>1 DEF T
  <2>3. IsFiniteSet(T) /\ Cardinality(T) <= n /\ Cardinality(T) # n BY <1>2, <2>2, FS_Subset
  <2>4. Cardinality(T) \in Nat BY <2>3, FS_CardinalityType
  <2> QED BY <1>1, <2>3, <2>4 DEF T
<1>6. ASSUME NEW i \in D, NEW j \in D, Before(s, i, j) PROVE Rank(s, i) < Rank(s, j)
  <2> DEFINE S == B(j)
             T == B(i)
  <2>1. T \in SUBSET S /\ i \in S /\ i \notin T BY <1>3, <1>6
  <2>2. IsFiniteSet(S) /\ Cardinality(S) \in Nat /\ Cardinality(T) \in Nat
    <3>1. IsFiniteSet(B(i)) /\ Cardinality(B(i)) \in 0 .. (n - 1) BY <1>5
    <3>2. IsFiniteSet(B(j)) /\ Cardinality(B(j)) \in 0 .. (n - 1) BY <1>5
    <3> QED BY <3>1, <3>2
  <2>3. Rank(s, i) = Cardinality(T) /\ Rank(s, j) = Cardinality(S) BY <1>4
  <2> HIDE DEF S, T
  <2>4. S # T BY <2>1
  <2>5. Cardinality(T) <= Cardinality(S) /\ Cardinality(S) # Cardinality(T) BY <2>1, <2>2, <2>4, FS_Subset
  <2> QED BY <2>2, <2>3, <2>5
<1>7. \A i \in D : Rank(s, i) \in 0 .. (n - 1) BY <1>4, <1>5
<1>8. f \in Injection(D, D)
  <2>1. f \in [D -> D] BY <1>1, <1>7
  <2>2. \A i, j \in D : f[i] = f[j] => i = j
    <3> SUFFICES ASSUME NEW i \in D, NEW j \in D, f[i] = f[j], i # j PROVE FALSE OBVIOUS
    <3>1. Rank(s, i) = Rank(s, j) BY <1>7
    <3>2. Before(s, i, j) \/ Before(s, j, i) BY <1>3
    <3> QED BY <1>6, <1>7, <3>1, <3>2
  <2> QED BY <2>1, <2>2 DEF Injection, IsInjective
<1> HIDE DEF f
<1>9. f \in Surjection(D, D) BY <1>2, <1>8, FS_Injection
<1>10. ASSUME NEW k \in D PROVE \E i \in D : Rank(s, i) = k - 1
  <2>1. PICK i \in D : f[i] = k BY <1>9 DEF Surjection
  <2>2. Rank(s, i) + 1 = k BY <2>1 DEF f
  <2> QED BY <1>7, <2>2
<1> QED BY <1>6, <1>7, <1>10 DEF D, n

(* Sorting permutes the entries and leaves them nearest first.             *)
LEMMA SortedFacts ==
    ASSUME NEW s \in Seq(Entry), Distinct(s), NEW d, d = Sorted(s)
    PROVE  /\ d \in Seq(Entry) /\ Len(d) = Len(s) /\ DOMAIN d = DOMAIN s /\ Distinct(d)
           /\ \A k \in DOMAIN s : \E i \in DOMAIN s : d[k] = s[i]
           /\ \A i \in DOMAIN s : \E k \in DOMAIN s : d[k] = s[i]
           /\ \A j, k \in DOMAIN s : j < k => d[j].dist <= d[k].dist
<1> DEFINE n == Len(s)
           D == DOMAIN s
           p(k) == CHOOSE i \in D : Rank(s, i) = k - 1
<1>1. D = 1 .. n /\ n \in Nat /\ \A i \in D : s[i] \in Entry OBVIOUS
<1>2. d = [k \in D |-> s[p(k)]] BY DEF Sorted
<1>3. \A k \in D : p(k) \in D /\ Rank(s, p(k)) = k - 1 BY RankFacts
<1>4. /\ \A i \in D : Rank(s, i) \in 0 .. (n - 1)
      /\ \A i, j \in D : Before(s, i, j) => Rank(s, i) < Rank(s, j)
      /\ \A i, j \in D : i # j => Before(s, i, j) \/ Before(s, j, i)
      /\ \A i, j \in D : Before(s, i, j) => s[i].dist <= s[j].dist
  BY RankFacts, BeforeOrder
<1> HIDE DEF p, D, n
<1>5. d \in [D -> Entry] /\ \A k \in D : d[k] = s[p(k)] BY <1>1, <1>2, <1>3
<1>6. d \in Seq(Entry) /\ Len(d) = n /\ DOMAIN d = D BY <1>1, <1>5
<1>7. ASSUME NEW i \in D, NEW j \in D, Rank(s, i) = Rank(s, j) PROVE i = j BY <1>4, <1>7
<1>8. ASSUME NEW j \in D, NEW k \in D, p(j) = p(k) PROVE j = k
  <2>1. j - 1 = k - 1 BY <1>3, <1>8
  <2> QED BY <1>1, <2>1
<1>9. Distinct(d)
  <2> SUFFICES ASSUME NEW j \in D, NEW k \in D, d[j].packed_tid = d[k].packed_tid PROVE j = k
    BY <1>6 DEF Distinct
  <2>1. s[p(j)].packed_tid = s[p(k)].packed_tid BY <1>5
  <2>2. p(j) = p(k) BY <1>3, <2>1 DEF Distinct, D
  <2> QED BY <1>8, <2>2
<1>10. ASSUME NEW i \in D PROVE \E k \in D : d[k] = s[i]
  <2> DEFINE k == Rank(s, i) + 1
  <2>1. k \in D /\ Rank(s, i) = k - 1 BY <1>1, <1>4
  <2> HIDE DEF k
  <2>2. p(k) = i BY <1>3, <1>7, <2>1
  <2> QED BY <1>5, <2>1, <2>2
<1>11. ASSUME NEW j \in D, NEW k \in D, j < k PROVE d[j].dist <= d[k].dist
  <2>1. p(j) \in D /\ p(k) \in D /\ Rank(s, p(j)) < Rank(s, p(k)) BY <1>1, <1>3, <1>11
  <2>2. ~Before(s, p(k), p(j)) /\ p(j) # p(k) BY <1>4, <2>1
  <2>3. Before(s, p(j), p(k)) BY <1>4, <2>1, <2>2
  <2>4. s[p(j)].dist <= s[p(k)].dist BY <1>4, <2>1, <2>3
  <2> QED BY <1>5, <2>4
<1>12. \A k \in D : \E i \in D : d[k] = s[i] BY <1>3, <1>5
<1> QED BY <1>6, <1>9, <1>10, <1>11, <1>12 DEF D, n

(* A set of at most one element as a sequence.                             *)
LEMMA OneRow ==
    ASSUME NEW S, \A x, y \in S : x = y
    PROVE  /\ S = {} => SetToSeq(S) = <<>>
           /\ \A x \in S : SetToSeq(S) = <<x>>
<1>1. ASSUME S = {} PROVE SetToSeq(S) = <<>>
  <2>1. Cardinality(S) = 0 BY <1>1, FS_EmptySet
  <2>2. 1 .. 0 = {} OBVIOUS
  <2>3. <<>> \in [1 .. Cardinality(S) -> S] /\ IsInjective(<<>>) BY <1>1, <2>1, <2>2 DEF IsInjective
  <2>4. SetToSeq(S) \in [1 .. Cardinality(S) -> S] BY <2>3 DEF SetToSeq
  <2> QED BY <1>1, <2>1, <2>2, <2>4
<1>2. ASSUME NEW x \in S PROVE SetToSeq(S) = <<x>>
  <2>1. S = {x} BY <1>2
  <2>2. Cardinality(S) = 1 BY <2>1, FS_Singleton
  <2>3. <<x>> \in [1 .. Cardinality(S) -> S] /\ IsInjective(<<x>>) BY <2>1, <2>2 DEF IsInjective
  <2>4. SetToSeq(S) \in [1 .. Cardinality(S) -> S] BY <2>3 DEF SetToSeq
  <2> DEFINE f == SetToSeq(S)
  <2>5. f \in [1 .. 1 -> {x}] BY <2>1, <2>2, <2>4
  <2> HIDE DEF f
  <2>6. f = <<x>> BY <2>5
  <2> QED BY <2>6 DEF f
<1> QED BY <1>1, <1>2

-----------------------------------------------------------------------------
(* The steps of the scan.  What every one of them finds.                   *)
LEMMA ScanHere ==
    ASSUME IInv
    PROVE  /\ HeapOK(heap, xid) /\ IndexOK(heap, idx) /\ Typed(heap) /\ snap \in Nat /\ xid \in Nat
           /\ TypeInv /\ IdleInv /\ EntryInv /\ StreamInv /\ CandInv /\ CoverInv /\ SortInv /\ OutInv
           /\ entries \in Seq(Entry) /\ DOMAIN entries = 1 .. Len(entries) /\ Len(entries) \in Nat
           /\ DOMAIN out = 1 .. Len(out) /\ Len(out) \in Nat
<1>1. /\ TypeInv /\ IdleInv /\ EntryInv /\ StreamInv /\ CandInv /\ CoverInv /\ SortInv /\ OutInv
  BY DEF IInv, ScanInv
<1>2. entries \in Seq(Entry) /\ out \in Seq([tid : Tids, dist : Nat]) BY <1>1 DEF TypeInv
<1> QED BY <1>1, <1>2, LinesHere

(* A scan that has not begun to build has nothing to answer for.           *)
LEMMA EmptyScan ==
    ASSUME pc' \in {"idle", "rescanned"}, entries' = <<>>
    PROVE  ScanInv'
BY DEF ScanInv, EntryInv, StreamInv, CandInv, CoverInv, SortInv, OutInv

(* The types of an empty scan.                                             *)
LEMMA EmptyTypes ==
    /\ <<>> \in Seq(Entry) /\ <<>> \in Seq([tid : Tids, dist : Nat])
    /\ 0 \in 0 .. Len(<<>>) /\ -1 \in -1 .. Len(<<>>)
OBVIOUS

(* A scan begins: what is visible is what its snapshot sees.               *)
LEMMA BeginScanInv ==
    ASSUME IInv, BeginScan
    PROVE  IInv'
<1>1. /\ pc = "idle" /\ pc' = "rescanned" /\ snap' = xid
      /\ entries' = <<>> /\ knn_pos' = 0 /\ knn_markpos' = -1 /\ out' = <<>> /\ marked' = 0
      /\ packing' = packing /\ heap' = heap /\ xid' = xid /\ idx' = idx /\ mode' = mode
      /\ todo' = todo /\ pin' = pin /\ vis' = vis /\ root_blkno' = root_blkno
      /\ root_offsets' = root_offsets /\ cand' = cand
  BY DEF BeginScan, ResetKnn, heapVars, pageVars
<1>2. TypeInv /\ IdleInv /\ HeapOK(heap, xid) /\ IndexOK(heap, idx) BY ScanHere
<1>3. snap' \in 0 .. xid' /\ snap' # 0 BY <1>1, <1>2 DEF TypeInv
<1>4. TypeInv' BY <1>1, <1>2, <1>3, EmptyTypes DEF TypeInv
<1>5. IdleInv' BY <1>1, <1>2 DEF IdleInv
<1>6. ScanInv' BY <1>1, EmptyScan
<1> QED BY <1>1, <1>2, <1>4, <1>5, <1>6 DEF IInv

(* A rescan drops what the scan had.                                       *)
LEMMA RescanInv ==
    ASSUME IInv, Rescan
    PROVE  IInv'
<1>1. /\ pc = "ready" /\ pc' = "rescanned" /\ snap' = snap
      /\ entries' = <<>> /\ knn_pos' = 0 /\ knn_markpos' = -1 /\ out' = <<>> /\ marked' = 0
      /\ packing' = packing /\ heap' = heap /\ xid' = xid /\ idx' = idx /\ mode' = mode
      /\ todo' = todo /\ pin' = pin /\ vis' = vis /\ root_blkno' = root_blkno
      /\ root_offsets' = root_offsets /\ cand' = cand
  BY DEF Rescan, ResetKnn, heapVars, pageVars
<1>2. TypeInv /\ IdleInv /\ HeapOK(heap, xid) /\ IndexOK(heap, idx) BY ScanHere
<1>3. TypeInv' BY <1>1, <1>2, EmptyTypes DEF TypeInv
<1>4. IdleInv' BY <1>1, <1>2 DEF IdleInv
<1>5. ScanInv' BY <1>1, EmptyScan
<1> QED BY <1>1, <1>2, <1>3, <1>4, <1>5 DEF IInv

(* So does its end.                                                        *)
LEMMA EndScanInv ==
    ASSUME IInv, EndScan
    PROVE  IInv'
<1>1. /\ pc = "ready" /\ pc' = "idle" /\ snap' = Invalid
      /\ entries' = <<>> /\ knn_pos' = 0 /\ knn_markpos' = -1 /\ out' = <<>> /\ marked' = 0
      /\ packing' = packing /\ heap' = heap /\ xid' = xid /\ idx' = idx /\ mode' = mode
      /\ todo' = todo /\ pin' = pin /\ vis' = vis /\ root_blkno' = root_blkno
      /\ root_offsets' = root_offsets /\ cand' = cand
  BY DEF EndScan, ResetKnn, heapVars, pageVars
<1>2. TypeInv /\ IdleInv /\ HeapOK(heap, xid) /\ IndexOK(heap, idx) BY ScanHere
<1>3. snap' \in 0 .. xid' BY <1>1, <1>2 DEF TypeInv, Invalid
<1>4. TypeInv' BY <1>1, <1>2, <1>3, EmptyTypes DEF TypeInv
<1>5. IdleInv' BY <1>1, <1>2 DEF IdleInv
<1>6. ScanInv' BY <1>1, EmptyScan
<1> QED BY <1>1, <1>2, <1>4, <1>5, <1>6 DEF IInv

(* And an error in the middle of knn_build.                                *)
LEMMA BuildErrorInv ==
    ASSUME IInv, BuildError
    PROVE  IInv'
<1>1. /\ pc \in {"pages", "page", "cands"} /\ pc' = "idle" /\ snap' = Invalid
      /\ entries' = <<>> /\ knn_pos' = 0 /\ knn_markpos' = -1 /\ out' = out /\ marked' = marked
      /\ packing' = packing /\ heap' = heap /\ xid' = xid /\ idx' = idx /\ mode' = mode
      /\ todo' = {} /\ pin' = NoBlock /\ vis' = {} /\ root_blkno' = NoBlock
      /\ root_offsets' = NoRoots /\ cand' = {}
  BY DEF BuildError, ResetKnn, heapVars
<1>2. TypeInv /\ IdleInv /\ HeapOK(heap, xid) /\ IndexOK(heap, idx) BY ScanHere
<1>3. snap' \in 0 .. xid' BY <1>1, <1>2 DEF TypeInv, Invalid
<1>4. root_offsets' \in [Offsets -> 0 .. MaxOff] BY <1>1, Bounds DEF NoRoots, Invalid
<1>5. TypeInv' BY <1>1, <1>2, <1>3, <1>4, EmptyTypes DEF TypeInv
<1>6. IdleInv' BY <1>1, <1>2 DEF IdleInv
<1>7. ScanInv' BY <1>1, EmptyScan
<1> QED BY <1>1, <1>2, <1>5, <1>6, <1>7 DEF IInv

(* Every row owed is under a TID that the index has among those it must    *)
(* return.                                                                 *)
LEMMA BuildStartInv ==
    ASSUME IInv, BuildStart
    PROVE  IInv'
<1>1. /\ pc = "rescanned" /\ snap' = snap
      /\ packing' = packing /\ heap' = heap /\ xid' = xid /\ idx' = idx /\ mode' = mode
      /\ pin' = pin /\ vis' = vis /\ root_blkno' = root_blkno /\ root_offsets' = root_offsets
      /\ entries' = entries /\ knn_pos' = knn_pos /\ knn_markpos' = knn_markpos
      /\ out' = out /\ marked' = marked
  BY DEF BuildStart, heapVars, execVars
<1>2. /\ TypeInv /\ IdleInv /\ HeapOK(heap, xid) /\ IndexOK(heap, idx) /\ Typed(heap) /\ snap \in Nat
  BY ScanHere
<1>3. entries = <<>> /\ vis = {} /\ root_blkno = NoBlock /\ out = <<>> BY <1>1, <1>2 DEF IdleInv
<1>4. CASE mode.always
  <2>1. pc' = "pages" /\ todo' = Blocks /\ cand' = {} BY <1>4 DEF BuildStart
  <2>2. TypeInv' BY <1>1, <1>2, <2>1 DEF TypeInv
  <2>3. IdleInv' BY <1>1, <1>2, <2>1 DEF IdleInv
  <2>4. StreamInv' BY <1>1, <1>3, <1>4, <2>1 DEF StreamInv
  <2>5. CoverInv'
    <3>1. \A t \in Tids : ~Streamed(t)' BY <2>1, TidFacts DEF Streamed
    <3> QED BY <2>1, <3>1 DEF CoverInv
  <2>6. EntryInv' /\ CandInv' /\ SortInv' /\ OutInv'
    BY <1>1, <1>3, <2>1 DEF EntryInv, CandInv, SortInv, OutInv
  <2> QED BY <1>1, <1>2, <2>2, <2>3, <2>4, <2>5, <2>6 DEF IInv, ScanInv
<1>5. CASE ~mode.always
  <2>0. pc' = "cands" /\ todo' = todo BY <1>5 DEF BuildStart
  <2>1. PICK S \in Candidates : cand' = {PackTid(packing, t) : t \in S} BY <1>5 DEF BuildStart
  <2>2. /\ S \subseteq {e.tid : e \in idx}
        /\ \A e \in idx : Wanted(e.body) => e.tid \in S
    BY DEF Candidates
  <2>3. idx \subseteq [tid : Tids, body : Bodies] /\ \A e \in idx : IsRoot(heap[e.tid]) \/ heap[e.tid].lp = "dead"
    BY <1>2 DEF IndexOK
  <2>4. \A t \in S : t \in Tids /\ (IsRoot(heap[t]) \/ heap[t].lp = "dead") BY <2>2, <2>3
  <2>5. cand' \subseteq Nat BY <2>1, <2>4, Unpacked
  <2>6. TypeInv' BY <1>1, <1>2, <2>0, <2>5 DEF TypeInv
  <2>7. IdleInv' BY <1>1, <1>2, <2>0 DEF IdleInv
  <2>8. ASSUME NEW p \in cand'
        PROVE  \E t \in Tids : p = PackTid(packing, t) /\ (Visible(heap[t], snap) => ~heap[t].heapOnly)
    <3>1. PICK t \in S : p = PackTid(packing, t) BY <2>1, <2>8
    <3>2. Visible(heap[t], snap) => ~heap[t].heapOnly BY <2>4 DEF Visible, IsRoot
    <3> QED BY <2>4, <3>1, <3>2
  <2>9. CandInv' BY <1>1, <1>3, <1>5, <2>0, <2>8 DEF CandInv
  <2>10. ASSUME NEW t \in Tids, Owed(t)
         PROVE  \E p \in cand' : t \in HotAt(heap, snap, UnpackTid(packing, p))
    <3>1. Visible(heap[t], snap) /\ Qualifies(heap[t].body) /\ Ranked(heap[t].body) BY <2>10 DEF Owed
    <3>2. PICK r \in Offsets : t \in HotAt(heap, snap, <<t[1], r>>) BY <1>2, <3>1, HotFacts
    <3> DEFINE u == <<t[1], r>>
    <3>3. t[1] \in Blocks /\ t[2] \in Offsets /\ t = <<t[1], t[2]>> BY TidFacts
    <3>4. u \in Tids /\ u[1] = t[1] /\ u[2] = r BY <3>3 DEF Tids
    <3>5. OnChain(heap, t[1], r, t[2])
      <4> HIDE DEF u
      <4>1. t \in HotAt(heap, snap, u) BY <3>2 DEF u
      <4>2. OnChain(heap, u[1], u[2], t[2]) BY <1>2, <3>4, <4>1, HotMembers
      <4> QED BY <3>4, <4>2
    <3>6. heap[<<t[1], t[2]>>].lp = "normal" BY <3>1, <3>3 DEF Visible
    <3>7. [tid |-> <<t[1], r>>, body |-> heap[<<t[1], t[2]>>].body] \in idx BY <1>2, <3>3, <3>5, <3>6 DEF IndexOK
    <3>8. Wanted(heap[t].body)
      <4>1. mode \in Modes BY <1>2 DEF TypeInv
      <4>2. mode.where \/ mode.orderby BY <4>1, KnnAssumption
      <4> QED BY <3>1, <4>2 DEF Wanted, Qualifies, Ranked
    <3>9. u \in S
      <4> DEFINE e == [tid |-> u, body |-> heap[t].body]
      <4>1. e \in idx BY <3>3, <3>7
      <4>2. e.tid = u /\ e.body = heap[t].body OBVIOUS
      <4> HIDE DEF e, u
      <4> QED BY <2>2, <3>8, <4>1, <4>2
    <3> DEFINE p == PackTid(packing, u)
    <3>10. p \in cand' BY <2>1, <3>9
    <3>11. UnpackTid(packing, p) = u BY <3>4, Unpacked
    <3> QED BY <3>2, <3>10, <3>11
  <2>11. CoverInv'
    <3>1. \A t \in Tids : Owed(t)' => Owed(t)
      BY <1>1 DEF Owed, Qualifies, Ranked, FollowsChains
    <3> QED BY <1>1, <2>0, <2>10, <3>1 DEF CoverInv
  <2>12. EntryInv' /\ StreamInv' /\ SortInv' /\ OutInv'
    BY <1>1, <1>3, <2>0 DEF EntryInv, StreamInv, SortInv, OutInv
  <2> QED BY <1>1, <1>2, <2>6, <2>7, <2>9, <2>11, <2>12 DEF IInv, ScanInv
<1> QED BY <1>4, <1>5

(* A page is pinned: its visible tuples are still to come.                 *)
LEMMA GetPageInv ==
    ASSUME IInv, NEW b \in Blocks, GetPage(b)
    PROVE  IInv'
<1>1. /\ pc = "pages" /\ b \in todo /\ pc' = "page" /\ todo' = todo \ {b} /\ pin' = b
      /\ vis' = VisibleOffsets(b)
      /\ packing' = packing /\ heap' = heap /\ xid' = xid /\ idx' = idx /\ mode' = mode /\ snap' = snap
      /\ root_blkno' = root_blkno /\ root_offsets' = root_offsets /\ cand' = cand
      /\ entries' = entries /\ knn_pos' = knn_pos /\ knn_markpos' = knn_markpos
      /\ out' = out /\ marked' = marked
  BY DEF GetPage, heapVars, execVars
<1>2. /\ TypeInv /\ IdleInv /\ HeapOK(heap, xid) /\ IndexOK(heap, idx)
      /\ EntryInv /\ StreamInv /\ CoverInv
  BY ScanHere
<1>3. vis = {} BY <1>1, <1>2 DEF IdleInv
<1>4. \A c : VisibleOffsets(c)' = VisibleOffsets(c) /\ VisibleOffsets(c) \subseteq Offsets
  BY <1>1 DEF VisibleOffsets
<1>5. TypeInv' BY <1>1, <1>2, <1>4 DEF TypeInv
<1>6. IdleInv' BY <1>1, <1>2 DEF IdleInv
<1>7. \A t : Streamed(t) => Streamed(t)' BY <1>1 DEF Streamed
<1>8. \A t \in Tids : Visible(heap[t], snap) /\ Streamed(t)' => Streamed(t)
  <2> SUFFICES ASSUME NEW t \in Tids, Visible(heap[t], snap), Streamed(t)' PROVE Streamed(t) OBVIOUS
  <2>1. t[2] \in Offsets /\ t = <<t[1], t[2]>> BY TidFacts
  <2>2. t[1] # b
    <3>1. t[1] = b => t[2] \in VisibleOffsets(b) BY <2>1 DEF VisibleOffsets
    <3> QED BY <1>1, <3>1 DEF Streamed
  <2> QED BY <1>1, <1>3, <2>2 DEF Streamed
<1>9. EntryInv' BY <1>1, <1>2 DEF EntryInv, Tid, DistOf
<1>10. StreamInv'
  <2>1. /\ mode.always
        /\ root_blkno # NoBlock => \A o \in VisibleOffsets(root_blkno) :
             root_offsets[o] # Invalid =>
                <<root_blkno, o>> \in HotAt(heap, snap, <<root_blkno, root_offsets[o]>>)
        /\ \A i \in DOMAIN entries : \E t \in HotAt(heap, snap, Tid(entries[i])) : Streamed(t)
    BY <1>1, <1>2 DEF StreamInv
  <2>2. \A i \in DOMAIN entries : \E t \in HotAt(heap, snap, Tid(entries[i])) : Streamed(t)'
    BY <1>7, <2>1
  <2>3. \A i : Tid(entries[i])' = Tid(entries[i]) BY <1>1 DEF Tid
  <2>4. VisibleOffsets(pin)' = VisibleOffsets(b) /\ VisibleOffsets(root_blkno)' = VisibleOffsets(root_blkno)
    BY <1>1 DEF VisibleOffsets
  <2> QED BY <1>1, <2>1, <2>2, <2>3, <2>4 DEF StreamInv
<1>11. CoverInv'
  <2> SUFFICES ASSUME NEW t \in Tids, Owed(t)', Streamed(t)' PROVE Covered(t)'
    BY <1>1 DEF CoverInv
  <2>1. Owed(t) BY <1>1 DEF Owed, Qualifies, Ranked, FollowsChains
  <2>2. Streamed(t) BY <1>8, <2>1 DEF Owed
  <2>3. Covered(t) BY <1>1, <1>2, <2>1, <2>2 DEF CoverInv
  <2> QED BY <1>1, <2>3 DEF Covered, Tid
<1>12. CandInv' /\ SortInv' /\ OutInv' BY <1>1 DEF CandInv, SortInv, OutInv
<1> QED BY <1>1, <1>2, <1>5, <1>6, <1>9, <1>10, <1>11, <1>12 DEF IInv, ScanInv

(* The page has been read and is let go.                                   *)
LEMMA PageDoneInv ==
    ASSUME IInv, PageDone
    PROVE  IInv'
<1>1. /\ pc = "page" /\ vis = {} /\ pc' = "pages" /\ todo' = todo /\ pin' = NoBlock /\ vis' = vis
      /\ packing' = packing /\ heap' = heap /\ xid' = xid /\ idx' = idx /\ mode' = mode /\ snap' = snap
      /\ root_blkno' = root_blkno /\ root_offsets' = root_offsets /\ cand' = cand
      /\ entries' = entries /\ knn_pos' = knn_pos /\ knn_markpos' = knn_markpos
      /\ out' = out /\ marked' = marked
  BY DEF PageDone, heapVars, execVars
<1>2. /\ TypeInv /\ IdleInv /\ HeapOK(heap, xid) /\ IndexOK(heap, idx)
      /\ EntryInv /\ StreamInv /\ CoverInv
  BY ScanHere
<1>3. TypeInv' BY <1>1, <1>2 DEF TypeInv
<1>4. IdleInv' BY <1>1, <1>2 DEF IdleInv
<1>5. \A t : Streamed(t)' <=> Streamed(t) BY <1>1 DEF Streamed
<1>6. EntryInv' BY <1>1, <1>2 DEF EntryInv, Tid, DistOf
<1>7. StreamInv'
  <2>1. /\ mode.always
        /\ root_blkno # NoBlock => \A o \in VisibleOffsets(root_blkno) :
             root_offsets[o] # Invalid =>
                <<root_blkno, o>> \in HotAt(heap, snap, <<root_blkno, root_offsets[o]>>)
        /\ \A i \in DOMAIN entries : \E t \in HotAt(heap, snap, Tid(entries[i])) : Streamed(t)
    BY <1>1, <1>2 DEF StreamInv
  <2>2. \A i \in DOMAIN entries : \E t \in HotAt(heap, snap, Tid(entries[i])) : Streamed(t)'
    BY <1>5, <2>1
  <2>3. \A i : Tid(entries[i])' = Tid(entries[i]) BY <1>1 DEF Tid
  <2>4. VisibleOffsets(root_blkno)' = VisibleOffsets(root_blkno) BY <1>1 DEF VisibleOffsets
  <2> QED BY <1>1, <2>1, <2>2, <2>3, <2>4 DEF StreamInv
<1>8. CoverInv'
  <2> SUFFICES ASSUME NEW t \in Tids, Owed(t)', Streamed(t)' PROVE Covered(t)'
    BY <1>1 DEF CoverInv
  <2>1. Owed(t) BY <1>1 DEF Owed, Qualifies, Ranked, FollowsChains
  <2>2. Covered(t) BY <1>1, <1>2, <1>5, <2>1 DEF CoverInv
  <2> QED BY <1>1, <2>2 DEF Covered, Tid
<1>9. CandInv' /\ SortInv' /\ OutInv' BY <1>1 DEF CandInv, SortInv, OutInv
<1> QED BY <1>1, <1>2, <1>3, <1>4, <1>6, <1>7, <1>8, <1>9 DEF IInv, ScanInv

(* One more entry.                                                         *)
Longer(e, d, r) == d = Append(e, r)

(* The others are where they were.                                         *)
LEMMA LongerFacts ==
    ASSUME NEW e \in Seq(Entry), NEW d, NEW r \in Entry, Longer(e, d, r)
    PROVE  /\ d \in Seq(Entry) /\ Len(d) = Len(e) + 1 /\ DOMAIN d = DOMAIN e \cup {Len(e) + 1}
           /\ \A i \in DOMAIN e : d[i] = e[i] /\ i # Len(e) + 1
           /\ d[Len(e) + 1] = r
BY DEF Longer

(* An entry for a version fetched from u keeps the entries in order, if    *)
(* none has that TID.                                                      *)
LEMMA AddedEntry ==
    ASSUME IInv, packing' = packing, heap' = heap, snap' = snap, mode' = mode,
           NEW r \in Entry, Longer(entries, entries', r), Tid(r) \in Tids,
           \A i \in DOMAIN entries : entries[i].packed_tid # r.packed_tid,
           mode.orderby => \A t \in HotAt(heap, snap, Tid(r)) : r.dist = DistOf(heap[t].body)
    PROVE  /\ EntryInv' /\ entries' \in Seq(Entry) /\ Len(entries') = Len(entries) + 1
           /\ \A t : Covered(t)' <=> Covered(t) \/ t \in HotAt(heap, snap, Tid(r))
           /\ DOMAIN entries' = DOMAIN entries \cup {Len(entries) + 1}
           /\ \A i \in DOMAIN entries : entries'[i] = entries[i]
           /\ entries'[Len(entries) + 1] = r
<1> DEFINE n == Len(entries) + 1
           e == entries
           d == entries'
<1>0. EntryInv /\ e \in Seq(Entry) BY ScanHere
<1>1. /\ d \in Seq(Entry) /\ Len(d) = Len(e) + 1 /\ DOMAIN d = DOMAIN e \cup {n}
      /\ \A i \in DOMAIN e : d[i] = e[i] /\ i # n
      /\ d[n] = r
  <2>1. Longer(e, d, r) OBVIOUS
  <2> HIDE DEF e, d
  <2>2. /\ d \in Seq(Entry) /\ Len(d) = Len(e) + 1 /\ DOMAIN d = DOMAIN e \cup {Len(e) + 1}
        /\ \A i \in DOMAIN e : d[i] = e[i] /\ i # Len(e) + 1
        /\ d[Len(e) + 1] = r
    BY <1>0, <2>1, LongerFacts
  <2> QED BY <2>2 DEF e
<1> HIDE DEF n
<1>2. (\A i \in DOMAIN e : Tid(d[i]) = Tid(e[i])) /\ Tid(d[n]) = Tid(r) BY <1>1
<1>3. \A i : Tid(entries[i])' = Tid(d[i]) BY DEF Tid
<1>4. \A t : DistOf(heap[t].body)' = DistOf(heap[t].body) BY DEF DistOf
<1>5. ASSUME NEW i \in DOMAIN d
      PROVE  /\ Tid(d[i]) \in Tids
             /\ mode.orderby => \A t \in HotAt(heap, snap, Tid(d[i])) : d[i].dist = DistOf(heap[t].body)
  <2>1. CASE i = n BY <1>1, <1>2, <2>1
  <2>2. CASE i \in DOMAIN e BY <1>0, <1>1, <1>2, <2>2 DEF EntryInv
  <2> QED BY <1>1, <2>1, <2>2
<1>6. ASSUME NEW i \in DOMAIN d, NEW j \in DOMAIN d, d[i].packed_tid = d[j].packed_tid PROVE i = j
  <2>1. CASE i = n /\ j \in DOMAIN e BY <1>1, <1>6, <2>1
  <2>2. CASE j = n /\ i \in DOMAIN e BY <1>1, <1>6, <2>2
  <2>3. CASE i \in DOMAIN e /\ j \in DOMAIN e
    <3>1. e[i].packed_tid = e[j].packed_tid BY <1>1, <1>6, <2>3
    <3> QED BY <1>0, <2>3, <3>1 DEF EntryInv
  <2> QED BY <1>1, <2>1, <2>2, <2>3
<1>7. EntryInv' BY <1>3, <1>4, <1>5, <1>6 DEF EntryInv
<1>8. ASSUME NEW t
      PROVE  Covered(t)' <=> Covered(t) \/ t \in HotAt(heap, snap, Tid(r))
  <2>1. Covered(t)' <=> \E i \in DOMAIN d : t \in HotAt(heap, snap, Tid(d[i]))
    BY <1>3 DEF Covered
  <2> QED BY <1>1, <1>2, <2>1 DEF Covered
<1> QED BY <1>1, <1>7, <1>8 DEF n

(* What a DistOf is worth.                                                 *)
LEMMA DistType ==
    ASSUME IInv, NEW b \in Bodies, Ranked(b)
    PROVE  DistOf(b) \in Nat
<1>1. Dist[b] \in Nat \cup {NoDist} BY KnnAssumption
<1> QED BY <1>1 DEF Ranked, DistOf

(* The entry of a streamed tuple: the TID it is fetched from is new.       *)
LEMMA StreamAdded ==
    ASSUME IInv, pc = "page", packing' = packing, heap' = heap, snap' = snap, mode' = mode,
           todo' = todo, pin' = pin, NEW off \in vis, vis' = vis \ {off},
           NEW u \in Tids, <<pin, off>> \in HotAt(heap, snap, u), Ranked(heap[<<pin, off>>].body),
           NEW r, r = [packed_tid |-> PackTid(packing, u), dist |-> DistOf(heap[<<pin, off>>].body)],
           Longer(entries, entries', r)
    PROVE  /\ EntryInv' /\ entries' \in Seq(Entry) /\ Len(entries') = Len(entries) + 1
           /\ \A i \in DOMAIN entries' : \E t \in HotAt(heap, snap, Tid(entries'[i])) : Streamed(t)'
           /\ \A t : Covered(t) => Covered(t)'
           /\ \E i \in DOMAIN entries' : <<pin, off>> \in HotAt(heap, snap, Tid(entries'[i]))
<1> DEFINE row == <<pin, off>>
<1>0. HeapOK(heap, xid) /\ snap \in Nat /\ StreamInv /\ EntryInv /\ entries \in Seq(Entry) /\ TypeInv BY ScanHere
<1>1. row \in Tids /\ Visible(heap[row], snap) BY <1>0, HotFacts
<1>2. heap[row].body \in Bodies
  <2>1. Versions(heap, xid) BY <1>0 DEF HeapOK
  <2> QED BY <1>1, <2>1 DEF Versions, Visible
<1>3. PackTid(packing, u) \in Nat /\ UnpackTid(packing, PackTid(packing, u)) = u BY Unpacked
<1>4. DistOf(heap[row].body) \in Nat BY <1>2, DistType
<1>5. /\ r \in Entry /\ r.packed_tid = PackTid(packing, u) /\ r.dist = DistOf(heap[row].body)
  BY <1>3, <1>4 DEF Entry
<1>6. Tid(r) = u BY <1>3, <1>5 DEF Tid
<1>7. \A t \in HotAt(heap, snap, u) : t = row BY <1>0, HotFacts
<1>8. ~Streamed(row) BY DEF Streamed
<1>9. \A i \in DOMAIN entries : entries[i].packed_tid # r.packed_tid
  <2> SUFFICES ASSUME NEW i \in DOMAIN entries, entries[i].packed_tid = r.packed_tid PROVE FALSE OBVIOUS
  <2>1. Tid(entries[i]) = u BY <1>6 DEF Tid
  <2>2. \E t \in HotAt(heap, snap, Tid(entries[i])) : Streamed(t) BY <1>0 DEF StreamInv
  <2> QED BY <1>7, <1>8, <2>1, <2>2
<1>10. mode.orderby => \A t \in HotAt(heap, snap, Tid(r)) : r.dist = DistOf(heap[t].body)
  BY <1>5, <1>6, <1>7
<1>11. Tid(r) \in Tids BY <1>6
<1>12. /\ EntryInv' /\ entries' \in Seq(Entry) /\ Len(entries') = Len(entries) + 1
       /\ \A t : Covered(t)' <=> Covered(t) \/ t \in HotAt(heap, snap, Tid(r))
       /\ DOMAIN entries' = DOMAIN entries \cup {Len(entries) + 1}
       /\ \A i \in DOMAIN entries : entries'[i] = entries[i]
       /\ entries'[Len(entries) + 1] = r
  <2> HIDE DEF row
  <2> QED BY <1>5, <1>9, <1>10, <1>11, AddedEntry
<1>13. Streamed(row)' /\ \A t : Streamed(t) => Streamed(t)'
  <2>1. pin \notin todo BY <1>0 DEF StreamInv
  <2> QED BY <2>1 DEF Streamed
<1>14. ASSUME NEW i \in DOMAIN entries'
       PROVE  \E t \in HotAt(heap, snap, Tid(entries'[i])) : Streamed(t)'
  <2>1. CASE i = Len(entries) + 1
    <3>1. entries'[i] = r BY <1>12, <2>1
    <3> QED BY <1>6, <1>13, <3>1
  <2>2. CASE i \in DOMAIN entries
    <3>1. entries'[i] = entries[i] BY <1>12, <2>2
    <3>2. PICK t \in HotAt(heap, snap, Tid(entries[i])) : Streamed(t) BY <1>0, <2>2 DEF StreamInv
    <3> QED BY <1>13, <3>1, <3>2
  <2> QED BY <1>12, <2>1, <2>2
<1>15. \E i \in DOMAIN entries' : row \in HotAt(heap, snap, Tid(entries'[i]))
  BY <1>6, <1>12
<1> QED BY <1>12, <1>14, <1>15

(* The map heap_get_root_tuples makes knows the root of every visible      *)
(* tuple of the page.                                                      *)
LEMMA RootMap ==
    ASSUME IInv, NEW b \in Blocks, NEW map, map = GetRootTuples(b)
    PROVE  /\ map \in [Offsets -> 0 .. MaxOff]
           /\ \A o \in VisibleOffsets(b) : /\ map[o] # Invalid
                                           /\ <<b, o>> \in HotAt(heap, snap, <<b, map[o]>>)
<1> DEFINE roots(o) == {r \in Offsets : /\ IsRoot(heap[<<b, r>>])
                                        /\ heap[<<b, o>>].lp = "normal"
                                        /\ o \in ChainFrom(heap, b, r)}
<1>0. HeapOK(heap, xid) /\ Typed(heap) /\ Rooted(heap) BY ScanHere DEF HeapOK
<1>1. map = [o \in Offsets |-> IF roots(o) = {} THEN Invalid ELSE CHOOSE r \in roots(o) : TRUE]
  BY DEF GetRootTuples
<1>2. \A o \in Offsets : roots(o) \subseteq Offsets OBVIOUS
<1>3. \A r : r \in Offsets => r \in 0 .. MaxOff /\ r # Invalid BY Bounds DEF Offsets, Invalid
<1>4. Invalid \in 0 .. MaxOff BY Bounds DEF Invalid
<1>5. ASSUME NEW o \in VisibleOffsets(b)
      PROVE  map[o] # Invalid /\ <<b, o>> \in HotAt(heap, snap, <<b, map[o]>>)
  <2>1. o \in Offsets /\ Visible(heap[<<b, o>>], snap) BY DEF VisibleOffsets
  <2>2. heap[<<b, o>>].lp = "normal" BY <2>1 DEF Visible
  <2>3. \E r \in Offsets : OnChain(heap, b, r, o) BY <1>0, <2>1, <2>2 DEF Rooted
  <2>4. roots(o) # {} BY <2>2, <2>3 DEF OnChain
  <2>5. map[o] \in roots(o) BY <1>1, <2>1, <2>4
  <2>6. map[o] \in Offsets /\ OnChain(heap, b, map[o], o) BY <2>5 DEF OnChain
  <2> DEFINE t == <<b, map[o]>>
             u == <<b, o>>
  <2>7. t \in Tids /\ u \in Tids /\ t[1] = b /\ u[1] = b /\ t[2] = map[o] /\ u[2] = o /\ Visible(heap[u], snap)
    BY <2>1, <2>6 DEF Tids
  <2> HIDE DEF t, u
  <2>8. u \in HotAt(heap, snap, t) BY <1>0, <2>6, <2>7, HotMembers
  <2> QED BY <1>3, <2>6, <2>8 DEF t, u
<1> HIDE DEF roots
<1>6. map \in [Offsets -> 0 .. MaxOff] BY <1>1, <1>2, <1>3, <1>4
<1> QED BY <1>5, <1>6

(* knn_build streams one tuple.                                            *)
LEMMA StreamTupleInv ==
    ASSUME IInv, StreamTuple
    PROVE  IInv'
<1> DEFINE off == CHOOSE o \in vis : \A p \in vis : o <= p
           row == <<pin, off>>
           r(u) == [packed_tid |-> PackTid(packing, u), dist |-> DistOf(heap[row].body)]
<1>1. /\ pc = "page" /\ vis # {} /\ vis' = vis \ {off} /\ pc' = pc
      /\ packing' = packing /\ heap' = heap /\ xid' = xid /\ idx' = idx /\ mode' = mode /\ snap' = snap
      /\ todo' = todo /\ pin' = pin /\ cand' = cand /\ knn_pos' = knn_pos /\ knn_markpos' = knn_markpos
      /\ out' = out /\ marked' = marked
      /\ \/ ~Ranked(heap[row].body) /\ UNCHANGED <<root_blkno, root_offsets, entries>>
         \/ /\ Ranked(heap[row].body) /\ ~heap[row].heapOnly
            /\ Longer(entries, entries', r(row)) /\ UNCHANGED <<root_blkno, root_offsets>>
         \/ /\ Ranked(heap[row].body) /\ heap[row].heapOnly
            /\ root_offsets' = IF MapStale(off) THEN GetRootTuples(pin) ELSE root_offsets
            /\ root_blkno' = IF MapStale(off) THEN pin ELSE root_blkno
            /\ Longer(entries, entries', r(<<pin, RootOffset(root_offsets', off)>>))
  BY DEF StreamTuple, heapVars, execVars, AddEntry, Longer
<1>2. /\ TypeInv /\ IdleInv /\ HeapOK(heap, xid) /\ IndexOK(heap, idx) /\ snap \in Nat
      /\ EntryInv /\ StreamInv /\ CoverInv /\ entries \in Seq(Entry)
  BY ScanHere
<1>3. off \in vis
  <2>1. vis \in SUBSET Nat BY <1>2 DEF TypeInv, Offsets
  <2>2. \E o \in vis : \A p \in vis : o <= p BY <1>1, <2>1, LeastNumber
  <2> QED BY <2>2
<1>4. /\ pin \in Blocks /\ pin \notin todo /\ off \in Offsets /\ off \in VisibleOffsets(pin)
      /\ row \in Tids /\ Visible(heap[row], snap)
  <2>1. pin \in Blocks \ todo /\ vis \subseteq VisibleOffsets(pin) BY <1>1, <1>2 DEF StreamInv
  <2> HIDE DEF off
  <2> QED BY <1>3, <2>1 DEF VisibleOffsets, Tids
<1> HIDE DEF off
<1>5. /\ mode.always
      /\ root_blkno # NoBlock => \A o \in VisibleOffsets(root_blkno) :
           root_offsets[o] # Invalid =>
              <<root_blkno, o>> \in HotAt(heap, snap, <<root_blkno, root_offsets[o]>>)
      /\ \A i \in DOMAIN entries : \E t \in HotAt(heap, snap, Tid(entries[i])) : Streamed(t)
      /\ vis \subseteq VisibleOffsets(pin)
  BY <1>1, <1>2 DEF StreamInv
<1> DEFINE MapOK == /\ root_blkno' \in Blocks \cup {NoBlock} /\ root_offsets' \in [Offsets -> 0 .. MaxOff]
                    /\ root_blkno' # NoBlock => \A o \in VisibleOffsets(root_blkno') :
                         root_offsets'[o] # Invalid =>
                            <<root_blkno', o>> \in HotAt(heap, snap, <<root_blkno', root_offsets'[o]>>)
           EntriesOK == /\ EntryInv' /\ entries' \in Seq(Entry) /\ Len(entries') >= Len(entries)
                        /\ \A i \in DOMAIN entries' : \E t \in HotAt(heap, snap, Tid(entries'[i])) : Streamed(t)'
                        /\ \A t : Covered(t) => Covered(t)'
                        /\ Ranked(heap[row].body) => \E i \in DOMAIN entries' : row \in HotAt(heap, snap, Tid(entries'[i]))
<1>6. MapOK /\ EntriesOK
  <2>1. CASE ~Ranked(heap[row].body) /\ UNCHANGED <<root_blkno, root_offsets, entries>>
    <3>1. MapOK BY <1>2, <1>5, <2>1 DEF TypeInv
    <3>2. EntryInv' BY <1>1, <1>2, <2>1 DEF EntryInv, Tid, DistOf
    <3>3. \A t : Streamed(t) => Streamed(t)' BY <1>1 DEF Streamed
    <3>4. \A t : Covered(t) => Covered(t)' BY <1>1, <2>1 DEF Covered, Tid
    <3>5. \A i \in DOMAIN entries : \E t \in HotAt(heap, snap, Tid(entries[i])) : Streamed(t)' BY <1>5, <3>3
    <3>6. Len(entries') >= Len(entries) BY <1>2, <2>1
    <3> QED BY <1>2, <2>1, <3>1, <3>2, <3>4, <3>5, <3>6
  <2>2. ASSUME Ranked(heap[row].body), NEW u \in Tids, row \in HotAt(heap, snap, u), Longer(entries, entries', r(u))
        PROVE  EntriesOK
    <3> DEFINE e == r(u)
    <3>1. e = [packed_tid |-> PackTid(packing, u), dist |-> DistOf(heap[<<pin, off>>].body)] OBVIOUS
    <3>2. Longer(entries, entries', e) BY <2>2
    <3> HIDE DEF e
    <3>3. /\ EntryInv' /\ entries' \in Seq(Entry) /\ Len(entries') = Len(entries) + 1
          /\ \A i \in DOMAIN entries' : \E t \in HotAt(heap, snap, Tid(entries'[i])) : Streamed(t)'
          /\ \A t : Covered(t) => Covered(t)'
          /\ \E i \in DOMAIN entries' : <<pin, off>> \in HotAt(heap, snap, Tid(entries'[i]))
      BY <1>1, <1>3, <2>2, <3>1, <3>2, StreamAdded
    <3>4. Len(entries') >= Len(entries) BY <1>2, <3>3
    <3> QED BY <3>3, <3>4
  <2>3. CASE /\ Ranked(heap[row].body) /\ ~heap[row].heapOnly
             /\ Longer(entries, entries', r(row)) /\ UNCHANGED <<root_blkno, root_offsets>>
    <3>1. MapOK BY <1>2, <1>5, <2>3 DEF TypeInv
    <3>2. row \in HotAt(heap, snap, row) BY <1>2, <1>4, <2>3, HotFacts
    <3> QED BY <1>4, <2>2, <2>3, <3>1, <3>2
  <2>4. CASE /\ Ranked(heap[row].body) /\ heap[row].heapOnly
             /\ root_offsets' = IF MapStale(off) THEN GetRootTuples(pin) ELSE root_offsets
             /\ root_blkno' = IF MapStale(off) THEN pin ELSE root_blkno
             /\ Longer(entries, entries', r(<<pin, RootOffset(root_offsets', off)>>))
    <3> DEFINE map == GetRootTuples(pin)
    <3>1. /\ map \in [Offsets -> 0 .. MaxOff]
          /\ \A o \in VisibleOffsets(pin) : map[o] # Invalid /\ <<pin, o>> \in HotAt(heap, snap, <<pin, map[o]>>)
      BY <1>4, RootMap
    <3> HIDE DEF map
    <3>2. MapOK /\ root_offsets'[off] # Invalid /\ row \in HotAt(heap, snap, <<pin, root_offsets'[off]>>)
      <4>1. CASE MapStale(off)
        <5>1. root_offsets' = map /\ root_blkno' = pin BY <2>4, <4>1 DEF map
        <5> QED BY <1>4, <3>1, <5>1
      <4>2. CASE ~MapStale(off)
        <5>1. root_offsets' = root_offsets /\ root_blkno' = root_blkno BY <2>4, <4>2
        <5>2. root_blkno = pin /\ root_offsets[off] # Invalid BY <4>2 DEF MapStale
        <5>3. pin # NoBlock BY <1>4, Bounds DEF NoBlock
        <5>4. MapOK BY <1>2, <1>5, <5>1 DEF TypeInv
        <5> QED BY <1>4, <1>5, <5>1, <5>2, <5>3, <5>4
      <4> QED BY <4>1, <4>2
    <3> DEFINE u == <<pin, root_offsets'[off]>>
    <3>3. RootOffset(root_offsets', off) = root_offsets'[off] BY <3>2 DEF RootOffset
    <3>4. u \in Tids
      <4>1. root_offsets'[off] \in 0 .. MaxOff BY <1>4, <3>2
      <4>2. root_offsets'[off] \in Offsets BY <3>2, <4>1, Bounds DEF Offsets, Invalid
      <4> QED BY <1>4, <4>2 DEF Tids
    <3>5. Longer(entries, entries', r(u)) BY <2>4, <3>3
    <3>6. row \in HotAt(heap, snap, u) BY <3>2
    <3> HIDE DEF MapOK, EntriesOK, u
    <3> QED BY <2>2, <2>4, <3>2, <3>4, <3>5, <3>6
  <2> QED BY <1>1, <2>1, <2>3, <2>4
<1>7. TypeInv'
  <2>1. /\ knn_pos' \in 0 .. Len(entries') /\ knn_markpos' \in -1 .. Len(entries')
    BY <1>1, <1>2, <1>6 DEF TypeInv
  <2> QED BY <1>1, <1>2, <1>6, <2>1 DEF TypeInv
<1>8. IdleInv' BY <1>1, <1>2 DEF IdleInv
<1>9. StreamInv'
  <2>1. \A c : VisibleOffsets(c)' = VisibleOffsets(c) BY <1>1 DEF VisibleOffsets
  <2>2. VisibleOffsets(pin)' = VisibleOffsets(pin) /\ VisibleOffsets(root_blkno)' = VisibleOffsets(root_blkno')
    BY <1>1 DEF VisibleOffsets
  <2>3. \A i : Tid(entries[i])' = Tid(entries'[i]) BY <1>1 DEF Tid
  <2> QED BY <1>1, <1>4, <1>5, <1>6, <2>2, <2>3 DEF StreamInv
<1>10. CoverInv'
  <2> SUFFICES ASSUME NEW t \in Tids, Owed(t)', Streamed(t)' PROVE Covered(t)'
    BY <1>1 DEF CoverInv
  <2>1. Owed(t) BY <1>1 DEF Owed, Qualifies, Ranked, FollowsChains
  <2>2. CASE t = row
    <3>1. \E i \in DOMAIN entries' : t \in HotAt(heap, snap, Tid(entries'[i])) BY <1>6, <2>1, <2>2 DEF Owed
    <3> QED BY <1>1, <3>1 DEF Covered, Tid
  <2>3. CASE t # row
    <3>1. t = <<t[1], t[2]>> BY TidFacts
    <3>2. Streamed(t) BY <1>1, <2>3, <3>1 DEF Streamed
    <3>3. Covered(t) BY <1>1, <1>2, <2>1, <3>2 DEF CoverInv
    <3> QED BY <1>6, <3>3
  <2> QED BY <2>2, <2>3
<1>11. CandInv' /\ SortInv' /\ OutInv' BY <1>1 DEF CandInv, SortInv, OutInv
<1>12. EntryInv' BY <1>6
<1> QED BY <1>1, <1>2, <1>7, <1>8, <1>9, <1>10, <1>11, <1>12 DEF IInv, ScanInv

(* The next candidate is the least.                                        *)
LEMMA NextCandidateInv ==
    ASSUME IInv, NextCandidate
    PROVE  IInv'
<1> DEFINE least == CHOOSE p \in cand : \A q \in cand : p <= q
           e(k) == [packed_tid |-> least, dist |-> k]
<1>1. /\ pc = "cands" /\ cand # {} /\ cand' = cand \ {least} /\ pc' = pc
      /\ packing' = packing /\ heap' = heap /\ xid' = xid /\ idx' = idx /\ mode' = mode /\ snap' = snap
      /\ todo' = todo /\ pin' = pin /\ vis' = vis /\ root_blkno' = root_blkno /\ root_offsets' = root_offsets
      /\ knn_pos' = knn_pos /\ knn_markpos' = knn_markpos /\ out' = out /\ marked' = marked
      /\ \/ ~mode.orderby /\ Longer(entries, entries', e(0))
         \/ /\ mode.orderby /\ HeapFetch(UnpackTid(packing, least)) /\ Ranked(heap[UnpackTid(packing, least)].body)
            /\ Longer(entries, entries', e(DistOf(heap[UnpackTid(packing, least)].body)))
         \/ /\ mode.orderby /\ entries' = entries
            /\ ~(HeapFetch(UnpackTid(packing, least)) /\ Ranked(heap[UnpackTid(packing, least)].body))
  BY DEF NextCandidate, heapVars, pageVars, execVars, Longer
<1>2. /\ TypeInv /\ IdleInv /\ HeapOK(heap, xid) /\ IndexOK(heap, idx) /\ snap \in Nat
      /\ EntryInv /\ CandInv /\ CoverInv /\ entries \in Seq(Entry)
  BY ScanHere
<1>3. least \in cand
  <2>1. cand \in SUBSET Nat BY <1>2 DEF TypeInv
  <2>2. \E p \in cand : \A q \in cand : p <= q BY <1>1, <2>1, LeastNumber
  <2> QED BY <2>2
<1>4. PICK p : p = least OBVIOUS
<1> HIDE DEF least
<1>5. p \in cand /\ p \in Nat /\ cand' = cand \ {p} BY <1>1, <1>2, <1>3, <1>4 DEF TypeInv
<1>6. PICK v \in Tids : p = PackTid(packing, v) /\ (Visible(heap[v], snap) => ~heap[v].heapOnly)
  BY <1>1, <1>2, <1>5 DEF CandInv
<1>7. UnpackTid(packing, p) = v BY <1>6, Unpacked
<1>8. ~mode.always /\ \A i \in DOMAIN entries : entries[i].packed_tid \notin cand BY <1>1, <1>2 DEF CandInv
<1>9. Visible(heap[v], snap) => v \in HotAt(heap, snap, v) BY <1>2, <1>6, HotFacts
<1> DEFINE EntriesOK == /\ EntryInv' /\ entries' \in Seq(Entry) /\ Len(entries') >= Len(entries)
                        /\ \A t : Covered(t) => Covered(t)'
                        /\ \A t : Owed(t) /\ t \in HotAt(heap, snap, v) => Covered(t)'
                        /\ \A i \in DOMAIN entries' : entries'[i].packed_tid \notin cand'
<1>10. EntriesOK
  <2>1. ASSUME NEW k \in Nat, Longer(entries, entries', e(k)),
               mode.orderby => \A t \in HotAt(heap, snap, v) : k = DistOf(heap[t].body)
        PROVE  EntriesOK
    <3> DEFINE r == e(k)
    <3>1. r \in Entry /\ r.packed_tid = p /\ r.dist = k BY <1>4, <1>5 DEF Entry
    <3>2. Longer(entries, entries', r) BY <2>1
    <3> HIDE DEF r
    <3>3. Tid(r) = v BY <1>7, <3>1 DEF Tid
    <3>4. \A i \in DOMAIN entries : entries[i].packed_tid # r.packed_tid BY <1>5, <1>8, <3>1
    <3>5. mode.orderby => \A t \in HotAt(heap, snap, Tid(r)) : r.dist = DistOf(heap[t].body)
      BY <2>1, <3>1, <3>3
    <3>6. Tid(r) \in Tids BY <3>3
    <3>7. /\ EntryInv' /\ entries' \in Seq(Entry) /\ Len(entries') = Len(entries) + 1
          /\ \A t : Covered(t)' <=> Covered(t) \/ t \in HotAt(heap, snap, Tid(r))
          /\ DOMAIN entries' = DOMAIN entries \cup {Len(entries) + 1}
          /\ \A i \in DOMAIN entries : entries'[i] = entries[i]
          /\ entries'[Len(entries) + 1] = r
      BY <1>1, <3>1, <3>2, <3>4, <3>5, <3>6, AddedEntry
    <3>8. Len(entries') >= Len(entries) BY <1>2, <3>7
    <3>9. \A i \in DOMAIN entries' : entries'[i].packed_tid \notin cand' BY <1>5, <1>8, <3>1, <3>7
    <3> QED BY <3>3, <3>7, <3>8, <3>9
  <2>2. CASE ~mode.orderby /\ Longer(entries, entries', e(0)) BY <2>1, <2>2
  <2>3. CASE /\ mode.orderby /\ HeapFetch(UnpackTid(packing, least)) /\ Ranked(heap[UnpackTid(packing, least)].body)
             /\ Longer(entries, entries', e(DistOf(heap[UnpackTid(packing, least)].body)))
    <3>1. Visible(heap[v], snap) /\ Ranked(heap[v].body) BY <1>4, <1>7, <2>3 DEF HeapFetch
    <3>2. heap[v].body \in Bodies
      <4>1. Versions(heap, xid) BY <1>2 DEF HeapOK
      <4> QED BY <3>1, <4>1 DEF Versions, Visible
    <3>3. DistOf(heap[v].body) \in Nat BY <3>1, <3>2, DistType
    <3>4. Longer(entries, entries', e(DistOf(heap[v].body))) BY <1>4, <1>7, <2>3
    <3>5. \A t \in HotAt(heap, snap, v) : t = v BY <1>2, <1>9, <3>1, HotFacts
    <3>6. PICK k : k = DistOf(heap[v].body) OBVIOUS
    <3> HIDE DEF EntriesOK
    <3>7. k \in Nat /\ Longer(entries, entries', e(k)) /\ \A t \in HotAt(heap, snap, v) : k = DistOf(heap[t].body)
      BY <3>3, <3>4, <3>5, <3>6
    <3> QED BY <2>1, <3>7
  <2>4. CASE /\ mode.orderby /\ entries' = entries
             /\ ~(HeapFetch(UnpackTid(packing, least)) /\ Ranked(heap[UnpackTid(packing, least)].body))
    <3>1. ~(Visible(heap[v], snap) /\ Ranked(heap[v].body)) BY <1>4, <1>7, <2>4 DEF HeapFetch
    <3>2. ASSUME NEW t, Owed(t), t \in HotAt(heap, snap, v) PROVE FALSE
      <4>1. t \in Tids /\ Visible(heap[t], snap) /\ ~heap[t].heapOnly /\ Ranked(heap[t].body)
        BY <1>8, <2>4, <3>2 DEF Owed, FollowsChains
      <4>2. t \in HotAt(heap, snap, t) BY <1>2, <4>1, HotFacts
      <4>3. t = v BY <1>2, <3>2, <4>1, <4>2, HotFacts
      <4> QED BY <3>1, <4>1, <4>3
    <3>3. EntryInv' BY <1>1, <1>2, <2>4 DEF EntryInv, Tid, DistOf
    <3>4. \A t : Covered(t) => Covered(t)' BY <1>1, <2>4 DEF Covered, Tid
    <3>5. Len(entries') >= Len(entries) BY <1>2, <2>4
    <3> QED BY <1>2, <1>5, <1>8, <2>4, <3>2, <3>3, <3>4, <3>5
  <2> QED BY <1>1, <2>2, <2>3, <2>4
<1>11. TypeInv'
  <2>1. entries' \in Seq(Entry) /\ Len(entries') \in Nat /\ Len(entries') >= Len(entries) BY <1>10
  <2>2. knn_pos' \in 0 .. Len(entries') /\ knn_markpos' \in -1 .. Len(entries')
    BY <1>1, <1>2, <2>1 DEF TypeInv
  <2>3. cand' \subseteq Nat BY <1>2, <1>5 DEF TypeInv
  <2> QED BY <1>1, <1>2, <2>1, <2>2, <2>3 DEF TypeInv
<1>12. IdleInv' BY <1>1, <1>2 DEF IdleInv
<1>13. CandInv' BY <1>1, <1>2, <1>5, <1>8, <1>10 DEF CandInv
<1>14. CoverInv'
  <2> SUFFICES ASSUME NEW t \in Tids, Owed(t)'
               PROVE  Covered(t)' \/ \E q \in cand' : t \in HotAt(heap, snap, UnpackTid(packing, q))
    BY <1>1 DEF CoverInv
  <2>1. Owed(t) BY <1>1 DEF Owed, Qualifies, Ranked, FollowsChains
  <2>2. Covered(t) \/ \E q \in cand : t \in HotAt(heap, snap, UnpackTid(packing, q))
    BY <1>1, <1>2, <2>1 DEF CoverInv
  <2>3. CASE Covered(t) BY <1>10, <2>3
  <2>4. CASE t \in HotAt(heap, snap, UnpackTid(packing, p)) BY <1>7, <1>10, <2>1, <2>4
  <2> QED BY <1>5, <2>2, <2>3, <2>4
<1>15. StreamInv' /\ SortInv' /\ OutInv' BY <1>1 DEF StreamInv, SortInv, OutInv
<1>16. EntryInv' BY <1>10
<1> QED BY <1>1, <1>2, <1>11, <1>12, <1>13, <1>14, <1>15, <1>16 DEF IInv, ScanInv

(* knn_build is done and sorts what it has.                                *)
LEMMA BuildEndInv ==
    ASSUME IInv, BuildEnd
    PROVE  IInv'
<1> DEFINE e == entries
           d == entries'
<1>1. /\ (pc = "pages" /\ todo = {}) \/ (pc = "cands" /\ cand = {})
      /\ pc' = "ready" /\ entries' = IF mode.orderby THEN Sorted(entries) ELSE entries
      /\ packing' = packing /\ heap' = heap /\ xid' = xid /\ idx' = idx /\ mode' = mode /\ snap' = snap
      /\ todo' = todo /\ pin' = pin /\ vis' = vis /\ root_blkno' = NoBlock /\ root_offsets' = NoRoots
      /\ cand' = cand /\ knn_pos' = knn_pos /\ knn_markpos' = knn_markpos /\ out' = out /\ marked' = marked
  BY DEF BuildEnd, heapVars, execVars
<1>2. /\ TypeInv /\ IdleInv /\ HeapOK(heap, xid) /\ IndexOK(heap, idx)
      /\ EntryInv /\ CoverInv /\ e \in Seq(Entry)
  BY ScanHere
<1>3. vis = {} /\ out = <<>> /\ marked = 0 /\ knn_pos = 0 BY <1>1, <1>2 DEF IdleInv
<1>4. Distinct(e) BY <1>2 DEF EntryInv, Distinct
<1>5. /\ d \in Seq(Entry) /\ Len(d) = Len(e) /\ DOMAIN d = DOMAIN e /\ Distinct(d)
      /\ \A k \in DOMAIN e : \E i \in DOMAIN e : d[k] = e[i]
      /\ \A i \in DOMAIN e : \E k \in DOMAIN e : d[k] = e[i]
      /\ mode.orderby => \A j, k \in DOMAIN e : j < k => d[j].dist <= d[k].dist
  <2>1. CASE mode.orderby
    <3>1. d = Sorted(e) BY <1>1, <2>1
    <3> HIDE DEF d, e
    <3>2. d \in Seq(Entry) /\ Len(d) = Len(e) /\ DOMAIN d = DOMAIN e /\ Distinct(d)
      BY <1>2, <1>4, <3>1, SortedFacts
    <3>3. \A k \in DOMAIN e : \E i \in DOMAIN e : d[k] = e[i] BY <1>2, <1>4, <3>1, SortedFacts
    <3>4. \A i \in DOMAIN e : \E k \in DOMAIN e : d[k] = e[i] BY <1>2, <1>4, <3>1, SortedFacts
    <3>5. \A j, k \in DOMAIN e : j < k => d[j].dist <= d[k].dist BY <1>2, <1>4, <3>1, SortedFacts
    <3> QED BY <3>2, <3>3, <3>4, <3>5
  <2>2. CASE ~mode.orderby
    <3>1. d = e BY <1>1, <2>2
    <3> HIDE DEF d, e
    <3> QED BY <1>2, <1>4, <2>2, <3>1
  <2> QED BY <2>1, <2>2
<1>6. TypeInv'
  <2>1. root_offsets' \in [Offsets -> 0 .. MaxOff] BY <1>1, Bounds DEF NoRoots, Invalid
  <2> QED BY <1>1, <1>2, <1>5, <2>1 DEF TypeInv
<1>7. IdleInv' BY <1>1, <1>3 DEF IdleInv
<1>8. EntryInv'
  <2>1. \A i : Tid(entries[i])' = Tid(d[i]) BY <1>1 DEF Tid
  <2>2. \A t : DistOf(heap[t].body)' = DistOf(heap[t].body) BY <1>1 DEF DistOf
  <2>3. ASSUME NEW k \in DOMAIN d
        PROVE  /\ Tid(d[k]) \in Tids
               /\ mode.orderby => \A t \in HotAt(heap, snap, Tid(d[k])) : d[k].dist = DistOf(heap[t].body)
    <3>1. PICK i \in DOMAIN e : d[k] = e[i] BY <1>5
    <3> QED BY <1>2, <3>1 DEF EntryInv
  <2> QED BY <1>1, <1>5, <2>1, <2>2, <2>3 DEF EntryInv, Distinct
<1>9. CoverInv'
  <2> SUFFICES ASSUME NEW t \in Tids, Owed(t)' PROVE Covered(t)' BY <1>1 DEF CoverInv
  <2>1. Owed(t) BY <1>1 DEF Owed, Qualifies, Ranked, FollowsChains
  <2>2. Covered(t)
    <3>1. CASE pc = "pages" /\ todo = {}
      <4>1. Streamed(t) BY <1>3, <3>1 DEF Streamed
      <4> QED BY <1>2, <2>1, <3>1, <4>1 DEF CoverInv
    <3>2. CASE pc = "cands" /\ cand = {} BY <1>2, <2>1, <3>2 DEF CoverInv
    <3> QED BY <1>1, <3>1, <3>2
  <2>3. PICK i \in DOMAIN e : t \in HotAt(heap, snap, Tid(e[i])) BY <2>2 DEF Covered
  <2>4. PICK k \in DOMAIN e : d[k] = e[i] BY <1>5
  <2>5. t \in HotAt(heap, snap, Tid(d[k])) BY <2>3, <2>4
  <2> QED BY <1>1, <1>5, <2>5 DEF Covered, Tid
<1>10. SortInv' BY <1>1, <1>5 DEF SortInv
<1>11. OutInv'
  <2>1. Len(out') = 0 /\ knn_pos' = 0 /\ ~(marked' > 0) /\ DOMAIN out' = {} BY <1>1, <1>3
  <2>2. 1 .. 0 = {} OBVIOUS
  <2>3. Fetched(Len(out), knn_pos)' BY <2>1, <2>2 DEF Fetched
  <2> QED BY <2>1, <2>3 DEF OutInv
<1>12. StreamInv' /\ CandInv' BY <1>1 DEF StreamInv, CandInv
<1> QED BY <1>1, <1>2, <1>6, <1>7, <1>8, <1>9, <1>10, <1>11, <1>12 DEF IInv, ScanInv

-----------------------------------------------------------------------------
(* Packing what was unpacked gives the same number.                        *)
LEMMA Repacked ==
    ASSUME NEW pk, NEW p \in Nat, NEW q \in Nat, UnpackTid(pk, p) = UnpackTid(pk, q)
    PROVE  p = q
<1> DEFINE S == Stride(pk)
<1>1. S \in Nat /\ S > 0 BY StrideFacts, Bounds
<1>2. p \div S = q \div S /\ p % S = q % S BY DEF UnpackTid
<1> HIDE DEF S
<1>3. p = S * (p \div S) + (p % S) /\ q = S * (q \div S) + (q % S) BY <1>1, SMTT(30)
<1> QED BY <1>2, <1>3

(* A row is fetched through one entry.                                     *)
LEMMA OneEntry ==
    ASSUME IInv, NEW i \in DOMAIN entries, NEW j \in DOMAIN entries,
           NEW t \in HotAt(heap, snap, Tid(entries[i])), t \in HotAt(heap, snap, Tid(entries[j]))
    PROVE  i = j
<1>1. HeapOK(heap, xid) /\ snap \in Nat /\ EntryInv /\ entries \in Seq(Entry) BY ScanHere
<1>2. Tid(entries[i]) \in Tids /\ Tid(entries[j]) \in Tids BY <1>1 DEF EntryInv
<1>3. Tid(entries[i]) = Tid(entries[j]) BY <1>1, <1>2, HotFacts
<1>4. entries[i] \in Entry /\ entries[j] \in Entry BY <1>1
<1>5. entries[i].packed_tid \in Nat /\ entries[j].packed_tid \in Nat BY <1>4 DEF Entry
<1>6. UnpackTid(packing, entries[i].packed_tid) = UnpackTid(packing, entries[j].packed_tid)
  BY <1>3 DEF Tid
<1>7. entries[i].packed_tid = entries[j].packed_tid BY <1>5, <1>6, Repacked
<1> QED BY <1>1, <1>7 DEF EntryInv

(* The executor marks the row it has.                                      *)
LEMMA MarkPosInv ==
    ASSUME IInv, MarkPos
    PROVE  IInv'
<1>1. /\ pc = "ready" /\ knn_markpos' = knn_pos /\ marked' = Len(out) /\ pc' = pc
      /\ packing' = packing /\ heap' = heap /\ xid' = xid /\ idx' = idx /\ mode' = mode /\ snap' = snap
      /\ todo' = todo /\ pin' = pin /\ vis' = vis /\ root_blkno' = root_blkno /\ root_offsets' = root_offsets
      /\ cand' = cand /\ entries' = entries /\ knn_pos' = knn_pos /\ out' = out
  BY DEF MarkPos, MarkAfterRow, heapVars, pageVars
<1>2. /\ TypeInv /\ IdleInv /\ HeapOK(heap, xid) /\ IndexOK(heap, idx)
      /\ EntryInv /\ CoverInv /\ SortInv /\ OutInv /\ Len(out) \in Nat
  BY ScanHere
<1>3. TypeInv'
  <2>1. knn_markpos' \in -1 .. Len(entries') /\ marked' \in 0 .. Len(out') BY <1>1, <1>2 DEF TypeInv
  <2> QED BY <1>1, <1>2, <2>1 DEF TypeInv
<1>4. IdleInv' BY <1>1, <1>2 DEF IdleInv
<1>5. EntryInv' BY <1>1, <1>2 DEF EntryInv, Tid, DistOf
<1>6. CoverInv'
  <2>1. \A t : (Owed(t)' => Owed(t)) /\ (Covered(t) => Covered(t)')
    BY <1>1 DEF Owed, Qualifies, Ranked, FollowsChains, Covered, Tid
  <2> QED BY <1>1, <1>2, <2>1 DEF CoverInv
<1>7. OutInv'
  <2>1. \A k, i : Source(k, i)' <=> Source(k, i) BY <1>1 DEF Source, Tid, Qualifies
  <2>2. /\ Fetched(Len(out), knn_pos) /\ knn_pos >= 0
        /\ \A k, l \in DOMAIN out, i, j \in DOMAIN entries :
             k < l /\ Source(k, i) /\ Source(l, j) => i < j
    BY <1>1, <1>2 DEF OutInv, TypeInv
  <2>3. Fetched(Len(out), knn_pos)'
    <3>1. Fetched(Len(out), knn_pos) BY <2>2
    <3> QED BY <1>1, <3>1 DEF Fetched, Source, Tid, Qualifies
  <2>4. Fetched(marked, knn_markpos)' BY <1>1, <2>3 DEF Fetched
  <2> QED BY <1>1, <2>1, <2>2, <2>3, <2>4 DEF OutInv
<1>8. StreamInv' /\ CandInv' /\ SortInv' BY <1>1, <1>2 DEF StreamInv, CandInv, SortInv
<1> QED BY <1>1, <1>2, <1>3, <1>4, <1>5, <1>6, <1>7, <1>8 DEF IInv, ScanInv

(* The executor goes back to the mark.                                     *)
LEMMA RestrPosInv ==
    ASSUME IInv, RestrPos
    PROVE  IInv'
<1>1. /\ pc = "ready" /\ marked > 0 /\ pc' = pc /\ out' = SubSeq(out, 1, marked)
      /\ knn_pos' = IF knn_markpos >= 0 THEN knn_markpos ELSE knn_pos
      /\ packing' = packing /\ heap' = heap /\ xid' = xid /\ idx' = idx /\ mode' = mode /\ snap' = snap
      /\ todo' = todo /\ pin' = pin /\ vis' = vis /\ root_blkno' = root_blkno /\ root_offsets' = root_offsets
      /\ cand' = cand /\ entries' = entries /\ knn_markpos' = knn_markpos /\ marked' = marked
  BY DEF RestrPos, heapVars, pageVars
<1>2. /\ TypeInv /\ IdleInv /\ HeapOK(heap, xid) /\ IndexOK(heap, idx)
      /\ EntryInv /\ CoverInv /\ SortInv /\ OutInv /\ Len(out) \in Nat /\ DOMAIN out = 1 .. Len(out)
  BY ScanHere
<1>3. knn_markpos >= 0 /\ Fetched(marked, knn_markpos) /\ knn_pos' = knn_markpos
  BY <1>1, <1>2 DEF OutInv
<1>4. /\ out' \in Seq([tid : Tids, dist : Nat]) /\ Len(out') = marked /\ marked \in Nat /\ marked <= Len(out)
      /\ DOMAIN out' = 1 .. marked /\ \A k \in 1 .. marked : out'[k] = out[k]
  <2> DEFINE T == [tid : Tids, dist : Nat]
             s == out
             d == out'
             n == marked
  <2>1. s \in Seq(T) /\ n \in 0 .. Len(s) /\ d = SubSeq(s, 1, n) BY <1>1, <1>2 DEF TypeInv
  <2> HIDE DEF T, s, d, n
  <2>2. d \in Seq(T) /\ Len(d) = n /\ \A k \in 1 .. n : d[k] = s[k] BY <2>1, SubSeqProperties
  <2>3. DOMAIN d = 1 .. n /\ n \in Nat /\ n <= Len(s) BY <2>1, <2>2
  <2> QED BY <2>2, <2>3 DEF T, s, d, n
<1>5. TypeInv'
  <2>1. knn_pos' \in 0 .. Len(entries') /\ marked' \in 0 .. Len(out') BY <1>1, <1>2, <1>3, <1>4 DEF TypeInv
  <2> QED BY <1>1, <1>2, <1>4, <2>1 DEF TypeInv
<1>6. IdleInv' BY <1>1, <1>2 DEF IdleInv
<1>7. EntryInv' BY <1>1, <1>2 DEF EntryInv, Tid, DistOf
<1>8. CoverInv'
  <2>1. \A t : (Owed(t)' => Owed(t)) /\ (Covered(t) => Covered(t)')
    BY <1>1 DEF Owed, Qualifies, Ranked, FollowsChains, Covered, Tid
  <2> QED BY <1>1, <1>2, <2>1 DEF CoverInv
<1>9. OutInv'
  <2>1. \A k \in 1 .. marked : \A i : Source(k, i)' <=> Source(k, i) BY <1>1, <1>4 DEF Source, Tid, Qualifies
  <2>2. /\ \A k \in 1 .. marked : \E i \in 1 .. knn_markpos : Source(k, i)
        /\ \A i \in 1 .. knn_markpos : \A t \in HotAt(heap, snap, Tid(entries[i])) :
             Qualifies(heap[t].body) => \E k \in 1 .. marked : out[k].tid = t
    BY <1>3 DEF Fetched
  <2>3. /\ \A k \in 1 .. marked : \E i \in 1 .. knn_markpos : Source(k, i)'
        /\ \A i \in 1 .. knn_markpos : \A t \in HotAt(heap', snap', Tid(entries[i])') :
             Qualifies(heap[t].body)' => \E k \in 1 .. marked : out'[k].tid = t
    <3>1. \A i : Tid(entries[i])' = Tid(entries[i]) BY <1>1 DEF Tid
    <3>2. \A t : Qualifies(heap[t].body)' <=> Qualifies(heap[t].body) BY <1>1 DEF Qualifies
    <3>3. \A k \in 1 .. marked : out'[k].tid = out[k].tid BY <1>4
    <3>4. \A k \in 1 .. marked : \E i \in 1 .. knn_markpos : Source(k, i)' BY <2>1, <2>2
    <3>5. ASSUME NEW i \in 1 .. knn_markpos, NEW t \in HotAt(heap', snap', Tid(entries[i])'),
                 Qualifies(heap[t].body)'
          PROVE  \E k \in 1 .. marked : out'[k].tid = t
      <4>1. t \in HotAt(heap, snap, Tid(entries[i])) /\ Qualifies(heap[t].body) BY <1>1, <3>1, <3>2, <3>5
      <4>2. PICK k \in 1 .. marked : out[k].tid = t BY <2>2, <4>1
      <4> QED BY <3>3, <4>2
    <3> QED BY <3>4, <3>5
  <2>4. Fetched(Len(out), knn_pos)' BY <1>1, <1>3, <1>4, <2>3 DEF Fetched
  <2>5. Fetched(marked, knn_markpos)' BY <1>1, <2>3 DEF Fetched
  <2>6. \A k, l \in DOMAIN out', i, j \in DOMAIN entries :
           k < l /\ Source(k, i)' /\ Source(l, j)' => i < j
    <3>1. \A k \in 1 .. marked : k \in DOMAIN out BY <1>2, <1>4
    <3>2. \A k, l \in DOMAIN out, i, j \in DOMAIN entries :
             k < l /\ Source(k, i) /\ Source(l, j) => i < j
      BY <1>1, <1>2 DEF OutInv
    <3> QED BY <1>4, <2>1, <3>1, <3>2
  <2> QED BY <1>1, <1>3, <2>4, <2>5, <2>6 DEF OutInv
<1>10. StreamInv' /\ CandInv' /\ SortInv' BY <1>1, <1>2 DEF StreamInv, CandInv, SortInv
<1> QED BY <1>1, <1>2, <1>5, <1>6, <1>7, <1>8, <1>9, <1>10 DEF IInv, ScanInv

(* The executor fetches the next entry: one row, if the chain shows it one *)
(* and the row satisfies WHERE, and then one that it does not have yet.    *)
LEMMA GetTupleInv ==
    ASSUME IInv, GetTuple
    PROVE  IInv'
<1>0. PICK m, n : m = knn_pos + 1 /\ n = Len(out) OBVIOUS
<1> DEFINE e == entries[m]
           F == HotAt(heap, snap, Tid(e))
           row(t) == [tid |-> t, dist |-> e.dist]
           R == {row(t) : t \in {u \in F : Qualifies(heap[u].body)}}
<1>1. /\ pc = "ready" /\ knn_pos < Len(entries) /\ knn_pos' = m /\ pc' = pc
      /\ packing' = packing /\ heap' = heap /\ xid' = xid /\ idx' = idx /\ mode' = mode /\ snap' = snap
      /\ todo' = todo /\ pin' = pin /\ vis' = vis /\ root_blkno' = root_blkno /\ root_offsets' = root_offsets
      /\ cand' = cand /\ entries' = entries /\ knn_markpos' = knn_markpos /\ marked' = marked
  BY <1>0 DEF GetTuple, heapVars, pageVars
<1>2. out' = out \o SetToSeq(R)
  <2>1. \A t : HotSearch(t) = HotAt(heap, snap, t) BY DEF HotSearch, HotAt
  <2>2. HotSearch(UnpackTid(packing, entries[knn_pos + 1].packed_tid)) = F BY <1>0, <2>1 DEF Tid
  <2> HIDE DEF F
  <2>3. out' = out \o SetToSeq({[tid |-> t, dist |-> entries[knn_pos + 1].dist] :
                                  t \in {u \in HotSearch(UnpackTid(packing, entries[knn_pos + 1].packed_tid)) :
                                           Qualifies(heap[u].body)}})
    BY DEF GetTuple
  <2> QED BY <1>0, <2>2, <2>3
<1>3. /\ TypeInv /\ IdleInv /\ HeapOK(heap, xid) /\ IndexOK(heap, idx) /\ snap \in Nat
      /\ EntryInv /\ CoverInv /\ SortInv /\ OutInv /\ n \in Nat /\ DOMAIN out = 1 .. n
      /\ entries \in Seq(Entry) /\ DOMAIN entries = 1 .. Len(entries) /\ Len(entries) \in Nat
      /\ out \in Seq([tid : Tids, dist : Nat]) /\ knn_pos \in Nat
  BY <1>0, ScanHere DEF TypeInv
<1>4. m \in DOMAIN entries /\ m \in Nat /\ knn_pos < m BY <1>0, <1>1, <1>3
<1>5. Tid(e) \in Tids /\ e \in Entry BY <1>3, <1>4 DEF EntryInv
<1>6. /\ \A t \in F : t \in Tids
      /\ \A t, u \in F : t = u
  BY <1>3, <1>5, HotFacts
<1>7. \A x, y \in R : x = y BY <1>6
<1>8. /\ Fetched(n, knn_pos)
      /\ \A k, l \in DOMAIN out, i, j \in DOMAIN entries :
           k < l /\ Source(k, i) /\ Source(l, j) => i < j
      /\ marked > 0 => knn_markpos >= 0 /\ Fetched(marked, knn_markpos)
      /\ marked \in 0 .. n
  BY <1>0, <1>1, <1>3 DEF OutInv, TypeInv
<1>9. /\ \A i : Tid(entries[i])' = Tid(entries[i])
      /\ \A t : Qualifies(heap[t].body)' <=> Qualifies(heap[t].body)
  BY <1>1 DEF Tid, Qualifies
<1> DEFINE OutOK == /\ out' \in Seq([tid : Tids, dist : Nat]) /\ Len(out') >= n
                    /\ \A k \in 1 .. n : out'[k] = out[k]
                    /\ \A k \in DOMAIN out' : k \in 1 .. n \/ (k = n + 1 /\ Source(k, m)')
                    /\ \A t \in F : Qualifies(heap[t].body) => \E k \in DOMAIN out' : out'[k].tid = t
                    /\ DOMAIN out' = 1 .. Len(out') /\ Len(out') \in Nat
<1>10. OutOK
  <2>1. CASE R = {}
    <3>1. SetToSeq(R) = <<>> BY <1>7, <2>1, OneRow
    <3>2. out' = out
      <4>1. out' = out \o <<>> BY <1>2, <3>1
      <4> QED BY <1>3, <4>1
    <3>3. \A t \in F : ~Qualifies(heap[t].body) BY <2>1
    <3> QED BY <1>0, <1>3, <3>2, <3>3
  <2>2. CASE R # {}
    <3>1. PICK t \in F : Qualifies(heap[t].body) BY <2>2
    <3>2. PICK x : x = row(t) OBVIOUS
    <3>3. x \in R BY <3>1, <3>2
    <3>4. SetToSeq(R) = <<x>>
      <4> HIDE DEF R
      <4> QED BY <1>7, <3>3, OneRow
    <3>5. out' = out \o <<x>> BY <1>2, <3>4
    <3>6. e.dist \in Nat BY <1>5 DEF Entry
    <3>7. x \in [tid : Tids, dist : Nat] /\ x.tid = t /\ x.dist = e.dist BY <1>6, <3>1, <3>2, <3>6
    <3>8. /\ out' \in Seq([tid : Tids, dist : Nat]) /\ Len(out') = n + 1
          /\ \A k \in 1 .. n : out'[k] = out[k]
          /\ out'[n + 1] = x
      BY <1>0, <1>3, <3>5, <3>7
    <3>9. Source(n + 1, m)'
      <4>1. out'[n + 1].tid \in HotAt(heap, snap, Tid(entries[m])) BY <3>1, <3>7, <3>8
      <4>2. Qualifies(heap[out'[n + 1].tid].body) BY <3>1, <3>7, <3>8
      <4>3. out'[n + 1].dist = entries[m].dist BY <3>7, <3>8
      <4> QED BY <1>1, <4>1, <4>2, <4>3 DEF Source, Tid, Qualifies
    <3> HIDE DEF F, e
    <3>10. DOMAIN out' = 1 .. (n + 1) BY <3>8
    <3>11. \A u \in F : out'[n + 1].tid = u BY <1>6, <3>1, <3>7, <3>8
    <3>12. \A k \in DOMAIN out' : k \in 1 .. n \/ k = n + 1 BY <1>3, <3>10
    <3>13. n + 1 \in DOMAIN out' /\ Len(out') >= n /\ Len(out') \in Nat BY <1>3, <3>8, <3>10
    <3> QED BY <3>8, <3>9, <3>10, <3>11, <3>12, <3>13
  <2> QED BY <2>1, <2>2
<1>11. ASSUME NEW k \in 1 .. n, NEW i PROVE Source(k, i)' <=> Source(k, i)
  <2>1. out'[k] = out[k] BY <1>10
  <2> QED BY <1>1, <2>1 DEF Source, Tid, Qualifies
<1>12. /\ DOMAIN out' = 1 .. Len(out') /\ Len(out') \in Nat /\ Len(out') >= n
       /\ out' \in Seq([tid : Tids, dist : Nat])
       /\ \A k \in 1 .. n : out'[k] = out[k]
       /\ \A k \in DOMAIN out' : k \in 1 .. n \/ (k = n + 1 /\ Source(k, m)')
       /\ \A t \in F : Qualifies(heap[t].body) => \E k \in DOMAIN out' : out'[k].tid = t
  BY <1>10
<1> HIDE DEF OutOK
<1>13. ASSUME NEW a \in 0 .. n, NEW b \in Int, Fetched(a, b)
       PROVE  /\ \A k \in 1 .. a : \E i \in 1 .. b : Source(k, i)'
              /\ \A i \in 1 .. b : \A t \in HotAt(heap', snap', Tid(entries[i])') :
                   Qualifies(heap[t].body)' => \E k \in 1 .. a : out'[k].tid = t
  <2>1. \A k \in 1 .. a : k \in 1 .. n BY <1>3
  <2>2. \A k \in 1 .. a : \E i \in 1 .. b : Source(k, i)' BY <1>11, <1>13, <2>1 DEF Fetched
  <2>3. ASSUME NEW i \in 1 .. b, NEW t \in HotAt(heap', snap', Tid(entries[i])'), Qualifies(heap[t].body)'
        PROVE  \E k \in 1 .. a : out'[k].tid = t
    <3>1. t \in HotAt(heap, snap, Tid(entries[i])) /\ Qualifies(heap[t].body) BY <1>1, <1>9, <2>3
    <3>2. PICK k \in 1 .. a : out[k].tid = t BY <1>13, <3>1 DEF Fetched
    <3>3. out'[k] = out[k] BY <1>12, <2>1
    <3> QED BY <3>2, <3>3
  <2> QED BY <2>2, <2>3
<1>14. Fetched(Len(out), knn_pos)'
  <2>0. /\ \A k \in 1 .. n : \E i \in 1 .. knn_pos : Source(k, i)'
        /\ \A i \in 1 .. knn_pos : \A t \in HotAt(heap', snap', Tid(entries[i])') :
             Qualifies(heap[t].body)' => \E k \in 1 .. n : out'[k].tid = t
    <3>1. n \in 0 .. n /\ knn_pos \in Int BY <1>3
    <3> QED BY <1>8, <1>13, <3>1
  <2>1. ASSUME NEW k \in 1 .. Len(out') PROVE \E i \in 1 .. m : Source(k, i)'
    <3>1. CASE k \in 1 .. n
      <4>1. PICK i \in 1 .. knn_pos : Source(k, i)' BY <2>0, <3>1
      <4>2. i \in 1 .. m BY <1>3, <1>4
      <4> QED BY <4>1, <4>2
    <3>2. CASE k = n + 1 /\ Source(k, m)'
      <4>1. m \in 1 .. m BY <1>3, <1>4
      <4> QED BY <3>2, <4>1
    <3> QED BY <1>12, <3>1, <3>2
  <2>2. ASSUME NEW i \in 1 .. m, NEW t \in HotAt(heap', snap', Tid(entries[i])'), Qualifies(heap[t].body)'
        PROVE  \E k \in 1 .. Len(out') : out'[k].tid = t
    <3>1. CASE i = m
      <4>1. t \in F /\ Qualifies(heap[t].body) BY <1>1, <1>9, <2>2, <3>1
      <4> QED BY <1>12, <4>1
    <3>2. CASE i # m
      <4>1. i \in 1 .. knn_pos BY <1>0, <1>3, <3>2
      <4>2. PICK k \in 1 .. n : out'[k].tid = t BY <2>0, <2>2, <4>1
      <4>3. k \in 1 .. Len(out') BY <1>3, <1>12
      <4> QED BY <4>2, <4>3
    <3> QED BY <3>1, <3>2
  <2> QED BY <1>1, <2>1, <2>2 DEF Fetched
<1>15. ASSUME marked > 0 PROVE knn_markpos >= 0 /\ Fetched(marked, knn_markpos)'
  <2>1. knn_markpos >= 0 /\ Fetched(marked, knn_markpos) BY <1>8, <1>15
  <2>2. knn_markpos \in Int /\ marked \in 0 .. n BY <1>3, <1>8, <2>1 DEF TypeInv
  <2>3. /\ \A k \in 1 .. marked : \E i \in 1 .. knn_markpos : Source(k, i)'
        /\ \A i \in 1 .. knn_markpos : \A t \in HotAt(heap', snap', Tid(entries[i])') :
             Qualifies(heap[t].body)' => \E k \in 1 .. marked : out'[k].tid = t
    BY <1>13, <2>1, <2>2
  <2> QED BY <1>1, <2>1, <2>3 DEF Fetched
<1>16. ASSUME NEW k \in DOMAIN out', NEW l \in DOMAIN out', NEW i \in DOMAIN entries, NEW j \in DOMAIN entries,
              k < l, Source(k, i)', Source(l, j)'
       PROVE  i < j
  <2>1. k \in 1 .. n
    <3>1. k \in Nat /\ l \in Nat /\ n \in Nat /\ k < l BY <1>3, <1>12, <1>16
    <3>2. (k \in 1 .. n \/ k = n + 1) /\ (l \in 1 .. n \/ l = n + 1) BY <1>12
    <3> QED BY <3>1, <3>2
  <2>2. Source(k, i) BY <1>11, <1>16, <2>1
  <2>3. CASE l \in 1 .. n
    <3>1. Source(l, j) BY <1>11, <1>16, <2>3
    <3> QED BY <1>3, <1>8, <1>16, <2>1, <2>2, <2>3, <3>1
  <2>4. CASE l = n + 1 /\ Source(l, m)'
    <3>1. out'[l].tid \in HotAt(heap, snap, Tid(entries[j])) /\ out'[l].tid \in HotAt(heap, snap, Tid(entries[m]))
      BY <1>1, <1>16, <2>4 DEF Source, Tid
    <3>2. j = m
      <4>1. PICK t : t = out'[l].tid OBVIOUS
      <4> QED BY <1>4, <3>1, <4>1, OneEntry
    <3>3. PICK q \in 1 .. knn_pos : Source(k, q) BY <1>8, <2>1 DEF Fetched
    <3>4. q \in DOMAIN entries BY <1>1, <1>3
    <3>5. out[k].tid \in HotAt(heap, snap, Tid(entries[i])) /\ out[k].tid \in HotAt(heap, snap, Tid(entries[q]))
      BY <2>2, <3>3 DEF Source
    <3>6. i = q BY <3>4, <3>5, OneEntry
    <3> QED BY <1>0, <1>3, <3>2, <3>6
  <2> QED BY <1>12, <2>3, <2>4
<1>17. OutInv' BY <1>1, <1>14, <1>15, <1>16 DEF OutInv
<1>18. TypeInv'
  <2>1. knn_pos' \in 0 .. Len(entries') BY <1>0, <1>1, <1>3
  <2>2. marked' \in 0 .. Len(out') BY <1>1, <1>3, <1>8, <1>12
  <2> QED BY <1>1, <1>3, <1>12, <2>1, <2>2 DEF TypeInv
<1>19. IdleInv' BY <1>1, <1>3 DEF IdleInv
<1>20. EntryInv' BY <1>1, <1>3 DEF EntryInv, Tid, DistOf
<1>21. CoverInv'
  <2>1. \A t : (Owed(t)' => Owed(t)) /\ (Covered(t) => Covered(t)')
    BY <1>1 DEF Owed, Qualifies, Ranked, FollowsChains, Covered, Tid
  <2> QED BY <1>1, <1>3, <2>1 DEF CoverInv
<1>22. StreamInv' /\ CandInv' /\ SortInv' BY <1>1, <1>3 DEF StreamInv, CandInv, SortInv
<1> QED BY <1>1, <1>3, <1>17, <1>18, <1>19, <1>20, <1>21, <1>22 DEF IInv, ScanInv

-----------------------------------------------------------------------------
(* The table as the index was built over it: every line a root of its own. *)
LEMMA InitInv ==
    ASSUME Init
    PROVE  IInv
<1>1. PICK load \in Loads :
        /\ heap = [t \in Tids |-> IF t \in DOMAIN load THEN Line("normal", 1, FALSE, Invalid, load[t])
                                  ELSE Unused]
        /\ idx = {[tid |-> t, body |-> load[t]] : t \in DOMAIN load}
  BY DEF Init
<1>2. DOMAIN load \subseteq Tids /\ \A t \in DOMAIN load : load[t] \in Bodies
  BY KnnAssumption DEF Tids, Offsets
<1>3. ASSUME NEW t \in Tids
      PROVE  /\ heap[t] \in LineRec /\ heap[t].link = Invalid /\ heap[t].xmax = Invalid
             /\ t \in DOMAIN load => heap[t].lp = "normal" /\ heap[t].xmin = 1 /\ heap[t].body = load[t] /\ ~heap[t].heapOnly
             /\ t \notin DOMAIN load => heap[t].lp = "unused"
  <2>1. CASE t \in DOMAIN load
    <3>1. heap[t] = Line("normal", 1, FALSE, Invalid, load[t]) BY <1>1, <2>1
    <3>2. load[t] \in Bodies /\ 0 \in 0 .. MaxOff /\ 0 \in 0 .. MaxXid /\ 1 \in 0 .. MaxXid BY <1>2, <2>1, Bounds
    <3> QED BY <2>1, <3>1, <3>2 DEF Line, LineRec, Invalid
  <2>2. CASE t \notin DOMAIN load
    <3>1. heap[t] = Unused BY <1>1, <2>2
    <3>2. Unused.link = Invalid /\ Unused.xmax = Invalid /\ Unused.lp = "unused" BY DEF Unused, Line
    <3> QED BY <2>2, <3>1, <3>2, EmptyLines
  <2> QED BY <2>1, <2>2
<1>4. Typed(heap) BY <1>1, <1>3 DEF Typed
<1>5. /\ packing \in Packings /\ xid = 1 /\ pc = "idle" /\ mode \in Modes /\ snap = Invalid
      /\ todo = {} /\ pin = NoBlock /\ vis = {} /\ root_blkno = NoBlock /\ root_offsets = NoRoots
      /\ cand = {} /\ entries = <<>> /\ knn_pos = 0 /\ knn_markpos = -1 /\ out = <<>> /\ marked = 0
  BY DEF Init
<1>6. Versions(heap, xid) BY <1>2, <1>3, <1>4, <1>5 DEF Versions, Typed
<1>7. Links(heap) BY <1>3 DEF Links, Tids
<1>8. ASSUME NEW b \in Blocks, NEW r \in Offsets, NEW o \in Offsets
      PROVE  OnChain(heap, b, r, o) <=> (o = r /\ heap[<<b, o>>].lp = "normal")
  <2>0. <<b, r>> \in Tids BY DEF Tids
  <2>1. heap[<<b, r>>].link = Invalid /\ (IsRoot(heap[<<b, r>>]) <=> heap[<<b, r>>].lp = "normal")
    BY <1>3, <2>0 DEF IsRoot
  <2>2. r \in ChainFrom(heap, b, r) BY <1>4, ChainClosed
  <2>3. o \in ChainFrom(heap, b, r) => o = r BY <1>4, <2>1, ChainHead
  <2> QED BY <2>1, <2>2, <2>3 DEF OnChain
<1>9. Rooted(heap) BY <1>8 DEF Rooted
<1>10. IndexOK(heap, idx)
  <2>1. idx \subseteq [tid : Tids, body : Bodies] BY <1>1, <1>2
  <2>2. \A e \in idx : IsRoot(heap[e.tid])
    <3>1. \A t \in DOMAIN load : IsRoot(heap[t]) BY <1>2, <1>3 DEF IsRoot
    <3>2. ASSUME NEW e \in idx PROVE IsRoot(heap[e.tid])
      <4>1. PICK t \in DOMAIN load : e = [tid |-> t, body |-> load[t]] BY <1>1
      <4>2. e.tid = t BY <4>1
      <4> QED BY <3>1, <4>2
    <3> QED BY <3>2
  <2>3. ASSUME NEW b \in Blocks, NEW r \in Offsets, NEW o \in Offsets,
               OnChain(heap, b, r, o), heap[<<b, o>>].lp = "normal"
        PROVE  [tid |-> <<b, r>>, body |-> heap[<<b, o>>].body] \in idx
    <3>1. r = o BY <1>8, <2>3
    <3> DEFINE t == <<b, o>>
    <3>2. t \in Tids BY DEF Tids
    <3>3. t \in DOMAIN load /\ heap[t].body = load[t] BY <1>3, <2>3, <3>2
    <3> HIDE DEF t
    <3>4. [tid |-> t, body |-> load[t]] \in idx BY <1>1, <3>3
    <3>5. [tid |-> t, body |-> heap[t].body] \in idx BY <3>3, <3>4
    <3> QED BY <3>1, <3>5 DEF t
  <2> QED BY <2>1, <2>2, <2>3 DEF IndexOK
<1>11. TypeInv
  <2>1. root_offsets \in [Offsets -> 0 .. MaxOff] BY <1>5, Bounds DEF NoRoots, Invalid
  <2>2. xid \in 1 .. MaxXid BY <1>5, KnnAssumption
  <2> QED BY <1>5, <2>1, <2>2, EmptyTypes DEF TypeInv, Invalid
<1>12. IdleInv BY <1>5 DEF IdleInv
<1>13. ScanInv BY <1>5 DEF ScanInv, EntryInv, StreamInv, CandInv, CoverInv, SortInv, OutInv
<1> QED BY <1>6, <1>7, <1>9, <1>10, <1>11, <1>12, <1>13 DEF IInv, HeapOK

(* The inductive invariant: every step of the scan and of the other        *)
(* sessions keeps it.                                                      *)
THEOREM KnnInductive == Spec => []IInv
<1>1. Init => IInv BY InitInv
<1>2. IInv /\ [Next]_vars => IInv'
  <2> SUFFICES ASSUME IInv, [Next]_vars PROVE IInv' OBVIOUS
  <2>1. CASE Scan
    BY <2>1, BeginScanInv, RescanInv, BuildStartInv, GetPageInv, PageDoneInv, StreamTupleInv,
       NextCandidateInv, BuildEndInv, BuildErrorInv, GetTupleInv, MarkPosInv, RestrPosInv, EndScanInv
       DEF Scan
  <2>2. CASE Others
    <3>1. OtherStep
      BY <2>2, HotUpdateStep, DeleteStep, VacuumStep, UpdateStep, PruneStepHolds DEF Others
    <3> QED BY <3>1, OthersInv
  <2>3. CASE UNCHANGED vars
    <3>1. UNCHANGED <<packing, pc, mode, snap, pageVars, cand, entries, execVars>> /\ UNCHANGED <<heap, xid, idx>>
      BY <2>3 DEF vars, heapVars
    <3>2. HeapOK(heap, xid) /\ IndexOK(heap, idx) /\ xid \in 1 .. MaxXid /\ xid <= xid
      BY ScanHere DEF TypeInv
    <3>3. Same(heap, heap, snap) BY DEF Same
    <3>4. OtherStep BY <3>1, <3>2, <3>3 DEF OtherStep
    <3> QED BY <3>4, OthersInv
  <2> QED BY <2>1, <2>2, <2>3 DEF Next
<1> QED BY <1>1, <1>2, PTL DEF Spec

(* The types, the scan position inside what knn_build collected among      *)
(* them, for every table, packing and query.                               *)
THEOREM KnnTypeOK == Spec => []TypeOK
<1>1. IInv => TypeOK
  <2> SUFFICES ASSUME IInv PROVE TypeOK OBVIOUS
  <2>1. TypeInv /\ Typed(heap) /\ idx \subseteq [tid : Tids, body : Bodies]
    BY ScanHere DEF IndexOK
  <2> QED BY <2>1 DEF TypeInv, Typed, LineRec, TypeOK
<1> QED BY <1>1, KnnInductive, PTL

(* What the scan has so far, row by row: row k came through an entry, was  *)
(* visible, satisfies WHERE and has that entry's distance.                 *)
LEMMA RowFacts ==
    ASSUME IInv, pc = "ready", NEW k \in DOMAIN out
    PROVE  \E i \in DOMAIN entries :
             /\ Source(k, i) /\ out[k].tid \in Answer
             /\ mode.orderby => out[k].dist = Dist[heap[out[k].tid].body]
<1>1. /\ HeapOK(heap, xid) /\ snap \in Nat /\ TypeInv /\ EntryInv /\ OutInv
      /\ DOMAIN entries = 1 .. Len(entries) /\ DOMAIN out = 1 .. Len(out) /\ Len(entries) \in Nat
  BY ScanHere
<1>2. Fetched(Len(out), knn_pos) BY <1>1 DEF OutInv
<1>3. PICK i \in 1 .. knn_pos : Source(k, i) BY <1>1, <1>2 DEF Fetched
<1>4. i \in DOMAIN entries BY <1>1 DEF TypeInv
<1>5. PICK t : t = out[k].tid OBVIOUS
<1>6. /\ t \in HotAt(heap, snap, Tid(entries[i])) /\ out[k].dist = entries[i].dist
      /\ Qualifies(heap[t].body)
  BY <1>3, <1>5 DEF Source
<1>7. Tid(entries[i]) \in Tids BY <1>1, <1>4 DEF EntryInv
<1>8. t \in Tids /\ Visible(heap[t], snap) BY <1>1, <1>6, <1>7, HotFacts
<1>9. t \in Answer BY <1>6, <1>8 DEF Answer
<1>10. mode.orderby => out[k].dist = Dist[heap[t].body] BY <1>1, <1>4, <1>6 DEF EntryInv, DistOf
<1> QED BY <1>3, <1>4, <1>5, <1>9, <1>10

(* The executor gets no row twice and none its snapshot must not see.      *)
THEOREM KnnEachRowOnce == Spec => []EachRowOnce
<1>1. IInv => EachRowOnce
  <2> SUFFICES ASSUME IInv PROVE EachRowOnce OBVIOUS
  <2>1. /\ IdleInv /\ OutInv /\ DOMAIN out = 1 .. Len(out) /\ Len(out) \in Nat
        /\ DOMAIN entries = 1 .. Len(entries) /\ Len(entries) \in Nat
    BY ScanHere
  <2>2. ASSUME NEW k \in DOMAIN out, NEW l \in DOMAIN out, out[k].tid = out[l].tid, k < l PROVE FALSE
    <3>1. pc = "ready" BY <2>1 DEF IdleInv
    <3>2. PICK i \in DOMAIN entries : Source(k, i) BY <3>1, RowFacts
    <3>3. PICK j \in DOMAIN entries : Source(l, j) BY <3>1, RowFacts
    <3>4. i < j BY <2>1, <2>2, <3>1, <3>2, <3>3 DEF OutInv
    <3>5. PICK t : t = out[k].tid OBVIOUS
    <3>6. t \in HotAt(heap, snap, Tid(entries[i])) /\ t \in HotAt(heap, snap, Tid(entries[j]))
      BY <2>2, <3>2, <3>3, <3>5 DEF Source
    <3>7. i = j BY <3>6, OneEntry
    <3> QED BY <2>1, <3>4, <3>7
  <2>3. \A k, l \in DOMAIN out : out[k].tid = out[l].tid => k = l
    <3> SUFFICES ASSUME NEW k \in DOMAIN out, NEW l \in DOMAIN out, out[k].tid = out[l].tid, k # l
                 PROVE  FALSE
      OBVIOUS
    <3>1. k < l \/ l < k BY <2>1
    <3> QED BY <2>2, <3>1
  <2>4. ASSUME pc = "ready" PROVE Rows \subseteq Answer
    <3>1. \A k \in DOMAIN out : out[k].tid \in Answer BY <2>4, RowFacts
    <3> QED BY <3>1 DEF Rows
  <2> QED BY <2>3, <2>4 DEF EachRowOnce
<1> QED BY <1>1, KnnInductive, PTL

(* The distance published with a row is the one of the version fetched,    *)
(* and the rows come nearest first.                                        *)
THEOREM KnnPublishedOrder == Spec => []PublishedOrder
<1>1. IInv => PublishedOrder
  <2> SUFFICES ASSUME IInv, pc = "ready", mode.orderby
               PROVE  /\ \A k \in DOMAIN out : out[k].dist = Dist[heap[out[k].tid].body]
                      /\ \A k, l \in DOMAIN out : k < l => out[k].dist <= out[l].dist
    BY DEF PublishedOrder
  <2>1. SortInv /\ OutInv BY ScanHere
  <2>2. \A k \in DOMAIN out : out[k].dist = Dist[heap[out[k].tid].body] BY RowFacts
  <2>3. ASSUME NEW k \in DOMAIN out, NEW l \in DOMAIN out, k < l PROVE out[k].dist <= out[l].dist
    <3>1. PICK i \in DOMAIN entries : Source(k, i) BY RowFacts
    <3>2. PICK j \in DOMAIN entries : Source(l, j) BY RowFacts
    <3>3. i < j BY <2>1, <2>3, <3>1, <3>2 DEF OutInv
    <3>4. entries[i].dist <= entries[j].dist BY <2>1, <3>3 DEF SortInv
    <3>5. out[k].dist = entries[i].dist /\ out[l].dist = entries[j].dist BY <3>1, <3>2 DEF Source
    <3> QED BY <3>4, <3>5
  <2> QED BY <2>2, <2>3
<1> QED BY <1>1, KnnInductive, PTL

(* A scan read to its end has returned every ranked row of the answer,     *)
(* whatever updates and pruning went on between collecting the TIDs and    *)
(* fetching them; an ORDER BY over candidates owes only the rows that are  *)
(* not heap-only, since heap_fetch does not follow HOT chains.             *)
THEOREM KnnNoRowLost == Spec => []NoRowLost
<1>1. IInv => NoRowLost
  <2> SUFFICES ASSUME IInv, Done, NEW t \in Answer, Ranked(heap[t].body),
                      FollowsChains \/ ~heap[t].heapOnly
               PROVE  t \in Rows
    BY DEF NoRowLost
  <2>1. CoverInv /\ OutInv /\ DOMAIN out = 1 .. Len(out) /\ DOMAIN entries = 1 .. Len(entries)
    BY ScanHere
  <2>2. pc = "ready" /\ knn_pos = Len(entries) BY DEF Done
  <2>3. t \in Tids /\ Qualifies(heap[t].body) /\ Owed(t) BY DEF Answer, Owed
  <2>4. Covered(t) BY <2>1, <2>2, <2>3 DEF CoverInv
  <2>5. PICK i \in 1 .. knn_pos : t \in HotAt(heap, snap, Tid(entries[i])) BY <2>1, <2>2, <2>4 DEF Covered
  <2>6. Fetched(Len(out), knn_pos) BY <2>1, <2>2 DEF OutInv
  <2>7. PICK k \in 1 .. Len(out) : out[k].tid = t BY <2>3, <2>5, <2>6 DEF Fetched
  <2> QED BY <2>1, <2>7 DEF Rows
<1> QED BY <1>1, KnnInductive, PTL
=============================================================================
