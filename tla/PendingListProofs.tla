-------------------------- MODULE PendingListProofs --------------------------
(***************************************************************************)
(* Proofs about PendingList, for any number of backends, scans, trigrams,  *)
(* TIDs and pages and any number of faults.  IInv is the inductive         *)
(* invariant: the properties to be shown, and what the watermark merge and *)
(* the free log rely on while the metapage lock is not held.               *)
(***************************************************************************)
EXTENDS PendingList, TLAPS, SequenceTheorems, FiniteSetTheorems

-----------------------------------------------------------------------------
(* A backend inside a merge, a strip or a compaction holds the merge lock. *)
LockInv == \A p \in Procs : pc[p] \in LockedPc => merge_lock = p

(* The list is the blocks from head to tail, linked in the order in which  *)
(* they were allocated, and the tail is the block allocated last.          *)
ListInv ==
    /\ (pending_head = Invalid) <=> (pending_tail = Invalid)
    /\ pending_head # Invalid =>
          /\ pending_head <= pending_tail
          /\ pending_tail = Len(entries)
          /\ \A b \in pending_head .. pending_tail :
                next_page[b] = IF b = pending_tail THEN Invalid ELSE b + 1
    /\ \A b \in ListBlocks : b # pending_head => entries[b] # <<>>
    /\ \A b \in 1 .. Len(entries) :
          /\ Len(entries[b]) <= PageCap
          /\ next_page[b] \in 0 .. Len(entries)

(* The locals of aminsert: what is left of the batch is part of what is    *)
(* left to append, and the row belongs to this INSERT alone.               *)
InsertInv ==
    \A p \in Inserters :
        /\ pc[p] = "append" => left[p] \in 1 .. Len(todo[p])
        /\ pc[p] # "append" => todo[p] = <<>>
        /\ (pc[p] = "idle") <=> (tid[p] = None)
        /\ tid[p] # None => row[tid[p]] = "inserting"
        /\ \A q \in Inserters : tid[p] # None /\ tid[q] = tid[p] => q = p

(* VACUUM reaps rows that are dead and stay so.                            *)
ReapInv == \A r \in reap : row[r] = "dead"

(* A merge starts its walk with nothing collected.                         *)
HoldingPc == {"collect", "build", "run", "finalize", "free", "free_tail", "set_roots",
              "merged"}
LocalsInv == \A p \in Procs : pc[p] \notin HoldingPc => got[p] = {} /\ consumed[p] = {}

DrainingPc == {"wm", "wm_n", "collect", "build", "run", "finalize"}

(* A merge between its reading of the metapage and the truncation: the     *)
(* base is the one it read, the watermark lies on the list, everything     *)
(* below the walk's position has been collected.                           *)
MergeAt(p) ==
    /\ pc[p] \in DrainingPc => pending_head # Invalid /\ root[p] = base
    /\ pc[p] \in DrainingPc \ {"wm"} => wm_tail[p] \in pending_head .. pending_tail
    /\ pc[p] = "wm_n" => blk[p] = pending_head
    /\ pc[p] \in DrainingPc \ {"wm", "wm_n"} =>
          wm_tail_n[p] <= Len(entries[wm_tail[p]])
    /\ pc[p] = "collect" =>
          /\ blk[p] \in pending_head .. wm_tail[p]
          /\ consumed[p] = pending_head .. blk[p] - 1
          /\ \A b \in pending_head .. blk[p] - 1 : PageEntries(b) \subseteq got[p]
    /\ pc[p] \in {"build", "run", "finalize"} =>
          /\ consumed[p] = pending_head .. wm_tail[p] - 1
          /\ \A b \in consumed[p] : PageEntries(b) \subseteq got[p]
          /\ \A i \in 1 .. wm_tail_n[p] : entries[wm_tail[p]][i] \in got[p]
    /\ pc[p] = "run" => Flushing(p) /\ new_root[p] = base
    /\ pc[p] = "finalize" =>
          IF Flushing(p) THEN new_root[p] = base /\ got[p] \subseteq runs
          ELSE new_root[p] = base \cup got[p]
    /\ pc[p] \in {"free", "free_tail", "set_roots"} => new_root[p] = base

MergeInv == \A p \in Procs : MergeAt(p)

(* Blocks a merge is about to hand, or has handed, to the free log.        *)
Unlinked == (1 .. Len(entries)) \ ListBlocks

FreeInv ==
    /\ freed \subseteq Unlinked
    /\ \A p \in Procs :
          /\ pc[p] = "free" => consumed[p] \subseteq Unlinked
          /\ pc[p] = "free" /\ free_wm_tail[p] => wm_tail[p] \in Unlinked
          /\ pc[p] = "free_tail" => wm_tail[p] \in Unlinked

ScanInv == \A s \in Scanners : scan_blk[s] \in 0 .. Len(entries)

IInv == /\ TypeOK /\ LockInv /\ ListInv /\ InsertInv /\ ReapInv
        /\ LocalsInv /\ MergeInv /\ FreeInv /\ ScanInv /\ NoLostEntry

-----------------------------------------------------------------------------
(* The steps of the specification, by what they may disturb.               *)

(* Two sequences one after the other.                                      *)
LEMMA ConcatFacts ==
    ASSUME NEW S, NEW a \in Seq(S), NEW c \in Seq(S)
    PROVE  /\ a \o c \in Seq(S) /\ Len(a \o c) = Len(a) + Len(c)
           /\ \A i \in 1 .. Len(a) : (a \o c)[i] = a[i]
           /\ \A i \in 1 .. Len(c) : (a \o c)[Len(a) + i] = c[i]
BY ConcatProperties

(* Only an append and a truncation touch the list.                         *)
LEMMA ListFrame ==
    ASSUME Next
    PROVE  \/ \E p \in Inserters : AppendPage(p)
           \/ \E p \in Procs : FinalizeMerge(p)
           \/ UNCHANGED listVars
<1>1. CASE \E p \in Inserters : \E r \in Tids, T \in Values : AmInsert(p, r, T)
  BY <1>1 DEF AmInsert
<1>2. ASSUME NEW p \in Procs, Merge(p)
      PROVE  FinalizeMerge(p) \/ UNCHANGED listVars
  BY <1>2 DEF Merge, MergeMeta, MergeWatermark, MergeWatermarkN, MergeCollect,
              MergeBuild, MergeAppendRun, FreeConsumed, FreeWatermarkTail, SetRoots
<1>3. ASSUME NEW p \in Inserters, InsertStep(p)
      PROVE  AppendPage(p) \/ FinalizeMerge(p) \/ UNCHANGED listVars
  <2>1. CASE Merge(p)
    BY <2>1, <1>2 DEF Procs
  <2>2. CASE SkipMerge(p) \/ TryLock(p) \/ InsertMergeDone(p)
             \/ EndXact(p, "live") \/ EndXact(p, "dead")
    BY <2>2 DEF SkipMerge, TryLock, InsertMergeDone, EndXact
  <2>3. QED
    BY <1>3, <2>1, <2>2 DEF InsertStep
<1>4. CASE VacuumStep
  <2>1. CASE Merge(Vacuum)
    BY <2>1, <1>2 DEF Procs
  <2>2. CASE \E t \in Trigrams : StripPosting(t)
    BY <2>2 DEF StripPosting
  <2>3. CASE MergeLock \/ VacuumMergeDone \/ StripDone \/ Reap \/ Compact
    BY <2>3 DEF MergeLock, VacuumMergeDone, StripDone, Reap, Compact
  <2>4. QED
    BY <1>4, <2>1, <2>2, <2>3 DEF VacuumStep
<1>5. CASE \E s \in Scanners : ScanStep(s)
  BY <1>5 DEF ScanStep, ScanOverlay, ScanOverlayDone, ScanLookup, ScanEnd
<1>6. CASE (\E r \in Tids : Die(r)) \/ VacuumStart \/ Crash
  BY <1>6 DEF Die, VacuumStart, Crash
<1>7. CASE \E s \in Scanners, T \in Values, q \in QueryModes : ScanStart(s, T, q)
  BY <1>7 DEF ScanStart
<1>8. CASE \E p \in Procs : Cancel(p)
  BY <1>8 DEF Cancel
<1>9. QED
  BY <1>1, <1>3, <1>4, <1>5, <1>6, <1>7, <1>8 DEF Next, Procs

-----------------------------------------------------------------------------
(* Type correctness.                                                       *)

LEMMA Min2Nat == \A a, b \in Nat : Min2(a, b) \in Nat /\ Min2(a, b) <= a /\ Min2(a, b) <= b
BY DEF Min2

LEMMA FunctionIsSeq ==
    ASSUME NEW S, NEW n \in Nat, NEW f \in [1 .. n -> S]
    PROVE  f \in Seq(S) /\ Len(f) = n
BY SeqDef

(* The slots of a range of pages can be counted.                           *)
LEMMA SlotsFinite ==
    ASSUME TypeOK, ListInv, NEW a \in Nat, NEW b \in Nat, a > 0, b <= Len(entries)
    PROVE  IsFiniteSet(Slots(a .. b)) /\ Cardinality(Slots(a .. b)) \in Nat
<1>1. \A c \in a .. b : Len(entries[c]) \in Nat /\ Len(entries[c]) <= PageCap
  BY DEF TypeOK, ListInv
<1>2. Slots(a .. b) \subseteq (a .. b) \X (1 .. PageCap)
  BY <1>1, BoundsAssumption DEF Slots
<1>3. IsFiniteSet(a .. b) /\ IsFiniteSet(1 .. PageCap)
  BY BoundsAssumption, FS_Interval
<1>4. IsFiniteSet((a .. b) \X (1 .. PageCap))
  BY <1>3, FS_Product
<1>5. IsFiniteSet(Slots(a .. b))
  BY <1>2, <1>4, FS_Subset
<1>6. QED
  BY <1>5, FS_CardinalityType

LEMMA TypeInit == Init => TypeOK
BY SetsAssumption DEF Init, TypeOK, RowState, Invalid, Entry, Procs, PcState, InsertPc

LEMMA TypeInsert ==
    ASSUME IInv, NEW p \in Inserters,
           \/ \E r \in Tids, T \in Values : AmInsert(p, r, T)
           \/ SkipMerge(p) \/ TryLock(p) \/ InsertMergeDone(p)
           \/ \E o \in {"live", "dead"} : EndXact(p, o)
    PROVE  TypeOK'
<1>0. p \in Procs
  BY DEF Procs
<1>1. CASE \E r \in Tids, T \in Values : AmInsert(p, r, T)
  <2>1. PICK r \in Tids, T \in Values : AmInsert(p, r, T)
    BY <1>1
  <2>2. PICK s \in Orders(T \X {r}) :
          /\ todo' = [todo EXCEPT ![p] = s]
          /\ left' = [left EXCEPT ![p] = Min2(BatchMax, Len(s))]
    BY <2>1 DEF AmInsert
  <2>3. T \X {r} \subseteq Entry /\ IsFiniteSet(T \X {r})
    BY SetsAssumption, FS_Subset, FS_Singleton, FS_Product DEF Entry
  <2>4. Cardinality(T \X {r}) \in Nat
    BY <2>3, FS_CardinalityType
  <2>5. s \in [1 .. Cardinality(T \X {r}) -> Entry]
    BY <2>2, <2>3 DEF Orders
  <2>6. s \in Seq(Entry) /\ Len(s) \in Nat
    BY <2>4, <2>5, FunctionIsSeq
  <2>7. Min2(BatchMax, Len(s)) \in Nat
    BY <2>6, BoundsAssumption, Min2Nat
  <2>8. QED
    BY <1>0, <2>1, <2>2, <2>6, <2>7, SetsAssumption
    DEF IInv, TypeOK, AmInsert, RowState, PcState, InsertPc, Goto, listVars, treeVars,
        mergeVars, vacVars, scanVars
<1>2. CASE SkipMerge(p)
  BY <1>0, <1>2 DEF IInv, TypeOK, SkipMerge, Goto, PcState, InsertPc,
     heapVars, listVars, treeVars, mergeVars, vacVars, scanVars
<1>3. CASE TryLock(p)
  BY <1>0, <1>3 DEF IInv, TypeOK, TryLock, Goto, PcState, LockedPc, MergePc,
     heapVars, listVars, treeVars, mergeVars, vacVars, scanVars
<1>4. CASE InsertMergeDone(p)
  BY <1>0, <1>4 DEF IInv, TypeOK, InsertMergeDone, ClearMerge, Unlock, Goto, PcState,
     InsertPc,
     Invalid, heapVars, listVars, treeVars, insertVars, vacVars, scanVars
<1>5. CASE \E o \in {"live", "dead"} : EndXact(p, o)
  <2>1. tid[p] \in Tids
    BY <1>5 DEF IInv, TypeOK, InsertInv, EndXact
  <2>2. QED
    BY <1>0, <1>5, <2>1 DEF IInv, TypeOK, EndXact, Goto, PcState, InsertPc, RowState,
       listVars, treeVars, mergeVars, vacVars, scanVars
<1>6. QED
  BY <1>1, <1>2, <1>3, <1>4, <1>5

LEMMA TypeScan ==
    ASSUME IInv, NEW s \in Scanners,
           \/ \E T \in Values, q \in QueryModes : ScanStart(s, T, q)
           \/ ScanStep(s)
    PROVE  TypeOK'
<1> USE DEF IInv, TypeOK, heapVars, listVars, treeVars, insertVars, mergeVars, vacVars
<1>1. CASE \E T \in Values, q \in QueryModes : ScanStart(s, T, q)
  BY SMTT(30), <1>1, SetsAssumption DEF ScanStart
<1>2. CASE ScanOverlay(s)
  <2>1. scan_blk[s] \in 1 .. Len(entries)
    BY <1>2 DEF ScanInv, ScanOverlay, Invalid
  <2>2. next_page[scan_blk[s]] \in Nat /\ PageEntries(scan_blk[s]) \subseteq Entry
    BY <2>1 DEF PageEntries, Elems
  <2>3. QED
    BY <1>2, <2>2 DEF ScanOverlay
<1>3. CASE ScanOverlayDone(s)
  BY <1>3 DEF ScanOverlayDone
<1>4. CASE \E t \in Trigrams : ScanLookup(s, t)
  BY <1>4 DEF ScanLookup, Trees, Entry
<1>5. CASE ScanEnd(s)
  BY <1>5 DEF ScanEnd
<1>6. QED
  BY <1>1, <1>2, <1>3, <1>4, <1>5 DEF ScanStep

(* Cutting a sequence in two keeps its elements.                           *)
LEMMA ElemsCut ==
    ASSUME NEW S, NEW s \in Seq(S), NEW n \in 0 .. Len(s)
    PROVE  /\ SubSeq(s, 1, n) \in Seq(S) /\ Len(SubSeq(s, 1, n)) = n
           /\ \A i \in 1 .. n : SubSeq(s, 1, n)[i] = s[i]
           /\ SubSeq(s, n + 1, Len(s)) \in Seq(S)
           /\ Len(SubSeq(s, n + 1, Len(s))) = Len(s) - n
           /\ \A i \in 1 .. Len(s) - n : SubSeq(s, n + 1, Len(s))[i] = s[n + i]
           /\ Elems(s) = Elems(SubSeq(s, 1, n)) \cup Elems(SubSeq(s, n + 1, Len(s)))
<1> DEFINE a == SubSeq(s, 1, n)
           b == SubSeq(s, n + 1, Len(s))
           k == Len(s)
<1>1. k \in Nat /\ n \in Nat /\ n <= k
  OBVIOUS
<1>2. a \in Seq(S) /\ Len(a) = n /\ \A i \in 1 .. n : a[i] = s[i]
  BY <1>1, SubSeqProperties
<1>3. b \in Seq(S) /\ Len(b) = k - n /\ \A i \in 1 .. k - n : b[i] = s[n + i]
  BY <1>1, SubSeqProperties
<1>4. DOMAIN s = 1 .. k /\ DOMAIN a = 1 .. n /\ DOMAIN b = 1 .. k - n
  BY <1>2, <1>3, LenProperties
<1> HIDE DEF a, b, k
<1>5. ASSUME NEW i \in DOMAIN s
      PROVE  \/ \E j \in DOMAIN a : s[i] = a[j]
             \/ \E j \in DOMAIN b : s[i] = b[j]
  <2>1. CASE i <= n
    <3>1. i \in 1 .. n
      BY <1>1, <1>4, <2>1
    <3>2. QED
      BY <1>2, <1>4, <3>1, Zenon
  <2>2. CASE i > n
    <3>1. i - n \in 1 .. k - n /\ n + (i - n) = i
      BY <1>1, <1>4, <2>2
    <3>2. i - n \in DOMAIN b /\ b[i - n] = s[i]
      BY <1>3, <1>4, <3>1
    <3>3. QED
      BY <3>2, Zenon
  <2>3. i \in Nat
    BY <1>1, <1>4
  <2>4. QED
    BY <1>1, <2>1, <2>2, <2>3
<1>7. Elems(s) \subseteq Elems(a) \cup Elems(b)
  BY <1>5, Zenon DEF Elems
<1>8. Elems(a) \subseteq Elems(s)
  BY <1>1, <1>2, <1>4 DEF Elems
<1>9. \A i \in 1 .. k - n : n + i \in 1 .. k
  BY <1>1
<1>10. Elems(b) \subseteq Elems(s)
  BY <1>3, <1>4, <1>9 DEF Elems
<1>11. QED
  BY <1>2, <1>3, <1>7, <1>8, <1>10 DEF a, b, k

(* What an append writes and what it leaves to be written.                 *)
Put(p)  == SubSeq(todo[p], 1, Take(p))
More(p) == SubSeq(todo[p], Take(p) + 1, Len(todo[p]))

LEMMA AppendFacts ==
    ASSUME IInv, NEW p \in Inserters, AppendPage(p)
    PROVE  /\ pending_tail # Invalid => pending_tail \in 1 .. Len(entries)
           /\ left[p] \in 1 .. Len(todo[p])
           /\ Take(p) \in 1 .. left[p]
           /\ NeedNewTail => Take(p) <= PageCap
           /\ ~NeedNewTail => Len(entries[pending_tail]) + Take(p) <= PageCap
           /\ Put(p) \in Seq(Entry) /\ Len(Put(p)) = Take(p)
           /\ More(p) \in Seq(Entry) /\ Len(More(p)) = Len(todo[p]) - Take(p)
           /\ Elems(todo[p]) = Elems(Put(p)) \cup Elems(More(p))
<1>1. pending_tail # Invalid => pending_tail \in 1 .. Len(entries)
  BY DEF IInv, TypeOK, ListInv, Invalid
<1>2. left[p] \in 1 .. Len(todo[p])
  BY DEF IInv, InsertInv, AppendPage
<1>3. todo[p] \in Seq(Entry) /\ Len(todo[p]) \in Nat /\ left[p] \in Nat
  BY DEF IInv, TypeOK
<1>4. /\ Room \in Nat \ {0}
      /\ NeedNewTail => Room = PageCap
      /\ ~NeedNewTail => Room = PageCap - Len(entries[pending_tail])
  <2>1. CASE NeedNewTail
    BY <2>1, BoundsAssumption DEF Room
  <2>2. CASE ~NeedNewTail
    <3>1. Len(entries[pending_tail]) \in Nat
      BY <1>1, <2>2 DEF IInv, TypeOK, NeedNewTail
    <3>2. QED
      BY <2>2, <3>1, BoundsAssumption DEF Room, NeedNewTail
  <2>3. QED
    BY <2>1, <2>2
<1>5. Take(p) \in 1 .. left[p] /\ Take(p) <= Room
  BY <1>2, <1>3, <1>4 DEF Take, Min2
<1>6. NeedNewTail => Take(p) <= PageCap
  BY <1>4, <1>5
<1>7. ~NeedNewTail => Len(entries[pending_tail]) + Take(p) <= PageCap
  <2>1. SUFFICES ASSUME ~NeedNewTail
                 PROVE  Len(entries[pending_tail]) + Take(p) <= PageCap
    OBVIOUS
  <2>2. Len(entries[pending_tail]) \in Nat
    BY <1>1, <2>1 DEF IInv, TypeOK, NeedNewTail
  <2>3. QED
    BY <1>4, <1>5, <2>1, <2>2, BoundsAssumption
<1>8. todo[p] \in Seq(Entry) /\ Take(p) \in 0 .. Len(todo[p])
  BY <1>2, <1>3, <1>5
<1>9. QED
  BY <1>1, <1>2, <1>5, <1>6, <1>7, <1>8, ElemsCut DEF Put, More

LEMMA LinkedSeq ==
    ASSUME TypeOK
    PROVE  /\ Linked(Len(entries) + 1) \in Seq(Nat)
           /\ Len(Linked(Len(entries) + 1)) = Len(entries) + 1
<1> DEFINE n == Len(entries) + 1
<1>1. n \in Nat
  BY DEF TypeOK
<1>2. Linked(n) \in [1 .. n -> Nat]
  BY <1>1 DEF TypeOK, Linked, Invalid
<1>3. QED
  BY <1>1, <1>2, FunctionIsSeq

LEMMA TypeAppend ==
    ASSUME IInv, NEW p \in Inserters, AppendPage(p)
    PROVE  TypeOK'
<1>0. p \in Procs /\ TypeOK
  BY DEF Procs, IInv
<1>1. /\ Take(p) \in Nat /\ Take(p) <= left[p]
      /\ Put(p) \in Seq(Entry) /\ More(p) \in Seq(Entry) /\ Len(More(p)) \in Nat
      /\ left[p] \in Nat
  BY SMTT(30), AppendFacts DEF IInv, TypeOK
<1>2. entries' \in Seq(Seq(Entry)) /\ next_page' \in Seq(Nat) /\ Len(next_page') = Len(entries')
  <2>1. CASE NeedNewTail
    <3>1. entries' = Append(entries, Put(p)) /\ next_page' = Linked(Len(entries) + 1)
      BY <2>1 DEF AppendPage, Put
    <3>2. entries' \in Seq(Seq(Entry)) /\ Len(entries') = Len(entries) + 1
      BY <1>0, <1>1, <3>1, AppendProperties DEF TypeOK
    <3>3. QED
      BY <1>0, <3>1, <3>2, LinkedSeq
  <2>2. CASE ~NeedNewTail
    <3>1. pending_tail \in 1 .. Len(entries)
      BY <2>2, AppendFacts DEF NeedNewTail
    <3>2. entries[pending_tail] \o Put(p) \in Seq(Entry)
      BY <1>0, <1>1, <3>1, ConcatProperties DEF TypeOK
    <3>3. entries' = [entries EXCEPT ![pending_tail] = entries[pending_tail] \o Put(p)]
          /\ next_page' = next_page
      BY <2>2 DEF AppendPage, Put
    <3>4. QED
      BY <1>0, <3>1, <3>2, <3>3, ExceptSeq DEF TypeOK
  <2>3. QED
    BY <2>1, <2>2
<1>3. pending_head' \in Nat /\ pending_tail' \in Nat /\ pending_n_entries' \in Nat
  <2>1. pending_n_entries' = pending_n_entries + Take(p)
    BY DEF AppendPage
  <2>2. \/ pending_head' = pending_head /\ pending_tail' = pending_tail
        \/ pending_head' \in {pending_head, Len(entries) + 1}
           /\ pending_tail' = Len(entries) + 1
    BY DEF AppendPage
  <2>3. pending_head \in Nat /\ pending_tail \in Nat /\ pending_n_entries \in Nat
        /\ Len(entries) + 1 \in Nat
    BY <1>0 DEF TypeOK
  <2>4. QED
    BY <1>1, <2>1, <2>2, <2>3
<1>4. left' \in [Inserters -> Nat]
  <2>1. Min2(BatchMax, Len(More(p))) \in Nat
    BY <1>1, BoundsAssumption, Min2Nat
  <2>2. left[p] - Take(p) \in Nat
    BY <1>1
  <2>3. QED
    BY <1>0, <2>1, <2>2 DEF AppendPage, More, TypeOK
<1>5. n_pending' \in [Inserters -> Nat] /\ todo' \in [Inserters -> Seq(Entry)]
  BY <1>0, <1>1, <1>3 DEF AppendPage, More, TypeOK
<1>6. pc' \in [Procs -> PcState]
  BY <1>0 DEF AppendPage, Goto, TypeOK, PcState, InsertPc
<1>7. QED
  BY <1>0, <1>2, <1>3, <1>4, <1>5, <1>6 DEF AppendPage, TypeOK, heapVars, treeVars,
     mergeVars,
     vacVars, scanVars

(* Where a merge's watermark and its walk stand.                           *)
LEMMA MergeFacts ==
    ASSUME IInv, NEW p \in Procs
    PROVE  /\ pc[p] \in DrainingPc =>
                 /\ pending_head \in 1 .. Len(entries)
                 /\ pending_tail = Len(entries)
           /\ pc[p] \in DrainingPc \ {"wm"} =>
                 /\ wm_tail[p] \in pending_head .. Len(entries)
                 /\ entries[wm_tail[p]] \in Seq(Entry)
           /\ pc[p] = "collect" =>
                 /\ blk[p] \in pending_head .. wm_tail[p]
                 /\ entries[blk[p]] \in Seq(Entry)
                 /\ next_page[blk[p]] = IF blk[p] = Len(entries) THEN Invalid ELSE blk[p] + 1
<1>1. ASSUME pc[p] \in DrainingPc
      PROVE  pending_head \in 1 .. Len(entries) /\ pending_tail = Len(entries)
  BY <1>1 DEF IInv, MergeInv, MergeAt, ListInv, TypeOK, Invalid
<1>2. ASSUME pc[p] \in DrainingPc \ {"wm"}
      PROVE  wm_tail[p] \in pending_head .. Len(entries) /\ entries[wm_tail[p]] \in Seq(Entry)
  <2>1. wm_tail[p] \in pending_head .. Len(entries)
    BY <1>1, <1>2 DEF IInv, MergeInv, MergeAt
  <2>2. wm_tail[p] \in 1 .. Len(entries)
    BY <1>1, <1>2, <2>1 DEF IInv, TypeOK
  <2>3. QED
    BY <2>1, <2>2 DEF IInv, TypeOK
<1>3. ASSUME pc[p] = "collect"
      PROVE  /\ blk[p] \in pending_head .. wm_tail[p]
             /\ entries[blk[p]] \in Seq(Entry)
             /\ next_page[blk[p]] = IF blk[p] = Len(entries) THEN Invalid ELSE blk[p] + 1
  <2>1. /\ pending_head \in 1 .. Len(entries)
        /\ pending_tail = Len(entries)
        /\ wm_tail[p] \in pending_head .. Len(entries)
    BY <1>1, <1>2, <1>3 DEF DrainingPc
  <2>2. blk[p] \in pending_head .. wm_tail[p]
    BY <1>3 DEF IInv, MergeInv, MergeAt
  <2>3. Len(entries) \in Nat
    BY DEF IInv, TypeOK
  <2>4. blk[p] \in 1 .. Len(entries) /\ blk[p] \in pending_head .. pending_tail
    BY <2>1, <2>2, <2>3
  <2>5. pending_head # Invalid
    BY <2>1, <2>3 DEF Invalid
  <2>6. next_page[blk[p]] = IF blk[p] = pending_tail THEN Invalid ELSE blk[p] + 1
    BY <2>4, <2>5 DEF IInv, ListInv
  <2>7. entries[blk[p]] \in Seq(Entry)
    BY <2>4 DEF IInv, TypeOK
  <2>8. QED
    BY <2>1, <2>2, <2>6, <2>7
<1>4. QED
  BY <1>1, <1>2, <1>3

LEMMA TypeMerge ==
    ASSUME IInv, NEW p \in Procs, Merge(p)
    PROVE  TypeOK'
<1> USE DEF TypeOK, Goto, PcState, LockedPc, MergePc, heapVars, listVars, treeVars, insertVars,
            vacVars, scanVars
<1>0. TypeOK
  BY DEF IInv
<1>1. CASE MergeMeta(p)
  <2>1. root' \in [Procs -> SUBSET Entry]
    BY <1>0, <1>1 DEF MergeMeta
  <2>2. flush' \in [Procs -> BOOLEAN]
    <3>1. flush \in [Procs -> BOOLEAN] /\ FlushModes \subseteq BOOLEAN
      BY <1>0, SetsAssumption
    <3>2. flush' = flush \/ \E f \in FlushModes : flush' = [flush EXCEPT ![p] = f]
      BY <1>1, Zenon DEF MergeMeta
    <3>3. QED
      BY ONLY <3>1, <3>2, Zenon
  <2>3. pc' \in [Procs -> PcState]
    BY <1>0, <1>1 DEF MergeMeta
  <2>4. QED
    BY <1>0, <1>1, <2>1, <2>2, <2>3 DEF MergeMeta
<1>2. CASE MergeWatermark(p)
  BY <1>0, <1>2 DEF MergeWatermark
<1>3. CASE MergeWatermarkN(p)
  <2>1. Len(entries[wm_tail[p]]) \in Nat
    BY <1>3, MergeFacts DEF MergeWatermarkN, DrainingPc
  <2>2. QED
    BY <1>0, <1>3, <2>1 DEF MergeWatermarkN
<1>4. CASE MergeCollect(p)
  <2>1. /\ blk[p] \in pending_head .. wm_tail[p] /\ entries[blk[p]] \in Seq(Entry)
        /\ next_page[blk[p]] = IF blk[p] = Len(entries) THEN Invalid ELSE blk[p] + 1
    BY <1>4, MergeFacts DEF MergeCollect
  <2>2. Elems(Consumes(p)) \subseteq Entry
    <3>1. Min2(Len(entries[blk[p]]), wm_tail_n[p]) \in 0 .. Len(entries[blk[p]])
      <4>1. Len(entries[blk[p]]) \in Nat /\ wm_tail_n[p] \in Nat
        BY <1>0, <2>1
      <4>2. QED
        BY ONLY <4>1 DEF Min2
    <3>2. Consumes(p) \in Seq(Entry)
      BY <2>1, <3>1, ElemsCut DEF Consumes
    <3>3. QED
      BY <3>2 DEF Elems
  <2>3. blk[p] \in Nat /\ next_page[blk[p]] \in Nat
    BY SMTT(30), <1>0, <2>1 DEF Invalid
  <2>4. QED
    <3>1. got' \in [Procs -> SUBSET Entry] /\ consumed' \in [Procs -> SUBSET Nat]
      BY <1>0, <1>4, <2>2, <2>3 DEF MergeCollect, Drained
    <3>2. blk' \in [Procs -> Nat]
      BY SMTT(30), <1>0, <1>4, <2>3 DEF MergeCollect, Invalid
    <3>3. pc' \in [Procs -> PcState]
      <4>1. \E l \in {"build", "collect"} : pc' = [pc EXCEPT ![p] = l]
        BY <1>4, Zenon DEF MergeCollect
      <4>2. QED
        BY <1>0, <4>1
    <3>4. QED
      BY <1>0, <1>4, <3>1, <3>2, <3>3 DEF MergeCollect
<1>5. CASE MergeBuild(p)
  BY <1>0, <1>5 DEF MergeBuild, Folded
<1>6. CASE MergeAppendRun(p)
  BY <1>0, <1>6 DEF MergeAppendRun, mergeVars
<1>7. CASE FinalizeMerge(p)
  <2>1. /\ wm_tail[p] \in 1 .. Len(entries) /\ entries[wm_tail[p]] \in Seq(Entry)
        /\ pending_tail = Len(entries)
        /\ wm_tail_n[p] \in 0 .. Len(entries[wm_tail[p]])
    <3>1. pc[p] = "finalize"
      BY <1>7 DEF FinalizeMerge
    <3>2. /\ pending_head \in 1 .. Len(entries) /\ pending_tail = Len(entries)
          /\ wm_tail[p] \in pending_head .. Len(entries)
          /\ entries[wm_tail[p]] \in Seq(Entry)
      BY <3>1, MergeFacts DEF DrainingPc
    <3>3. wm_tail_n[p] <= Len(entries[wm_tail[p]])
      BY <3>1 DEF IInv, MergeInv, MergeAt, DrainingPc
    <3>4. wm_tail_n[p] \in Nat /\ Len(entries) \in Nat /\ Len(entries[wm_tail[p]]) \in Nat
      BY <1>0, <3>2
    <3>5. QED
      BY <3>2, <3>3, <3>4
  <2>2. Survivors(p) \in Seq(Entry) /\ Len(Survivors(p)) \in Nat
    BY <2>1, ElemsCut DEF Survivors
  <2>3. SurvivingTotal(p) \in Nat
    <3>1. Cardinality(Slots(wm_tail[p] + 1 .. pending_tail)) \in Nat
      <4>1. Len(entries) \in Nat
        BY <1>0
      <4>2. wm_tail[p] + 1 \in Nat /\ wm_tail[p] + 1 > 0 /\ pending_tail \in Nat
            /\ pending_tail <= Len(entries)
        BY <2>1, <4>1
      <4>3. QED
        BY <4>2, SlotsFinite DEF IInv
    <3>2. QED
      BY <2>2, <3>1 DEF SurvivingTotal
  <2>4. entries' \in Seq(Seq(Entry)) /\ Len(entries') = Len(entries)
    <3>1. CASE Rewind(p)
      <4>1. entries' = [entries EXCEPT ![wm_tail[p]] = Survivors(p)]
        BY <1>7, <3>1 DEF FinalizeMerge
      <4>2. entries \in Seq(Seq(Entry))
        BY <1>0
      <4>3. QED
        BY <2>1, <2>2, <4>1, <4>2, ExceptSeq
    <3>2. CASE ~Rewind(p)
      BY <1>0, <1>7, <3>2 DEF FinalizeMerge
    <3>3. QED
      BY <3>1, <3>2
  <2>5. pending_head' \in Nat /\ pending_tail' \in Nat /\ pending_n_entries' \in Nat
    BY <1>0, <1>7, <2>1, <2>3 DEF FinalizeMerge, Invalid
  <2>6. base' \in SUBSET Entry /\ coalesced' \in SUBSET Trigrams
    BY <1>0, <1>7 DEF FinalizeMerge
  <2>7. free_wm_tail' \in [Procs -> BOOLEAN] /\ pc' \in [Procs -> PcState]
    BY <1>0, <1>7 DEF FinalizeMerge, Rewind
  <2>8. QED
    BY <1>0, <1>7, <2>4, <2>5, <2>6, <2>7 DEF FinalizeMerge
<1>8. CASE FreeConsumed(p)
  BY <1>0, <1>8 DEF FreeConsumed, mergeVars
<1>9. CASE FreeWatermarkTail(p)
  BY <1>0, <1>9 DEF FreeWatermarkTail, mergeVars
<1>10. CASE SetRoots(p)
  BY <1>0, <1>10 DEF SetRoots, mergeVars
<1>11. QED
  BY <1>1, <1>2, <1>3, <1>4, <1>5, <1>6, <1>7, <1>8, <1>9, <1>10 DEF Merge

LEMMA TypeVacuum ==
    ASSUME IInv,
           \/ VacuumStart \/ MergeLock \/ VacuumMergeDone \/ StripDone \/ Reap \/ Compact
           \/ \E t \in Trigrams : StripPosting(t)
    PROVE  TypeOK'
<1> USE DEF TypeOK, Goto, Unlock, PcState, LockedPc, MergePc, VacuumPc, heapVars, listVars,
            treeVars, insertVars, scanVars
<1>0. TypeOK /\ Vacuum \in Procs
  BY DEF IInv, Procs
<1>1. CASE VacuumStart
  BY <1>0, <1>1 DEF VacuumStart, mergeVars
<1>2. CASE MergeLock
  BY <1>0, <1>2 DEF MergeLock, mergeVars, vacVars
<1>3. CASE VacuumMergeDone
  BY <1>0, <1>3 DEF VacuumMergeDone, ClearMerge, Invalid
<1>4. CASE \E t \in Trigrams : StripPosting(t)
  BY <1>0, <1>4 DEF StripPosting, mergeVars
<1>5. CASE StripDone
  BY <1>0, <1>5 DEF StripDone, mergeVars, vacVars
<1>6. CASE Reap
  BY <1>0, <1>6 DEF Reap, RowState, mergeVars
<1>7. CASE Compact
  BY <1>0, <1>7 DEF Compact, mergeVars, vacVars
<1>8. QED
  BY <1>1, <1>2, <1>3, <1>4, <1>5, <1>6, <1>7

LEMMA TypeFaults ==
    ASSUME IInv,
           \/ \E p \in Procs : Cancel(p)
           \/ \E r \in Tids : Die(r)
           \/ Crash
    PROVE  TypeOK'
<1> USE DEF TypeOK, PcState, InsertPc, RowState, listVars, treeVars
<1>0. TypeOK
  BY DEF IInv
<1>1. CASE \E p \in Procs : Cancel(p)
  <2>1. PICK p \in Procs : Cancel(p)
    BY <1>1
  <2>2. /\ merge_lock' \in Procs \cup {None} /\ pc' \in [Procs -> PcState]
        /\ root' \in [Procs -> SUBSET Entry] /\ flush' \in [Procs -> BOOLEAN]
        /\ wm_tail' \in [Procs -> Nat] /\ wm_tail_n' \in [Procs -> Nat] /\ blk' \in [Procs -> Nat]
        /\ got' \in [Procs -> SUBSET Entry] /\ consumed' \in [Procs -> SUBSET Nat]
        /\ new_root' \in [Procs -> SUBSET Entry] /\ free_wm_tail' \in [Procs -> BOOLEAN]
        /\ faults' \in Nat
    BY <1>0, <2>1, BoundsAssumption DEF Cancel, ClearMerge, Unlock, Goto, Invalid
  <2>3. CASE p = Vacuum
    BY <1>0, <2>1, <2>2, <2>3 DEF Cancel, heapVars, insertVars, scanVars
  <2>4. CASE p # Vacuum
    <3>1. p \in Inserters
      BY <2>4 DEF Procs
    <3>2. tid[p] \in Tids
      BY <1>0, <2>1, <3>1 DEF Cancel, IInv, InsertInv
    <3>3. /\ row' = [row EXCEPT ![tid[p]] = "dead"]
          /\ tid' = [tid EXCEPT ![p] = None]
          /\ todo' = [todo EXCEPT ![p] = <<>>]
          /\ left' = [left EXCEPT ![p] = 0]
          /\ n_pending' = [n_pending EXCEPT ![p] = 0]
      BY <2>1, <2>4 DEF Cancel
    <3>4. row' \in [Tids -> RowState] /\ tid' \in [Inserters -> Tids \cup {None}]
      BY <1>0, <3>1, <3>2, <3>3
    <3>5. /\ todo' \in [Inserters -> Seq(Entry)] /\ left' \in [Inserters -> Nat]
          /\ n_pending' \in [Inserters -> Nat]
      BY <1>0, <3>1, <3>3
    <3>6. QED
      BY <1>0, <2>1, <2>2, <2>4, <3>4, <3>5 DEF Cancel, vacVars, scanVars
  <2>5. QED
    BY <2>3, <2>4
<1>2. CASE \E r \in Tids : Die(r)
  BY <1>0, <1>2 DEF Die, insertVars, mergeVars, vacVars, scanVars
<1>3. CASE Crash
  BY <1>0, <1>3, BoundsAssumption DEF Crash, Invalid
<1>4. QED
  BY <1>1, <1>2, <1>3

-----------------------------------------------------------------------------
(* Every step is one of these; a proof about a step follows this list.     *)
InsertCase(p) ==
    \/ \E r \in Tids, T \in Values : AmInsert(p, r, T)
    \/ SkipMerge(p) \/ TryLock(p) \/ InsertMergeDone(p)
    \/ \E o \in {"live", "dead"} : EndXact(p, o)
VacuumCase ==
    \/ VacuumStart \/ MergeLock \/ VacuumMergeDone \/ StripDone \/ Reap \/ Compact
    \/ \E t \in Trigrams : StripPosting(t)
ScanCase(s) ==
    (\E T \in Values, q \in QueryModes : ScanStart(s, T, q)) \/ ScanStep(s)
FaultCase ==
    (\E p \in Procs : Cancel(p)) \/ (\E r \in Tids : Die(r)) \/ Crash

LEMMA NextCases ==
    ASSUME Next
    PROVE  \/ \E p \in Inserters : AppendPage(p) \/ InsertCase(p)
           \/ \E p \in Procs : Merge(p)
           \/ VacuumCase
           \/ \E s \in Scanners : ScanCase(s)
           \/ FaultCase
BY DEF Next, InsertStep, VacuumStep, InsertCase, VacuumCase, ScanCase, FaultCase, Procs

(* A step of a merge changes nothing but its locals, the index and the     *)
(* free log.                                                               *)
LEMMA MergeFrame ==
    ASSUME NEW p \in Procs, Merge(p)
    PROVE  /\ pc[p] \in MergePc
           /\ \E l \in MergePc : pc' = [pc EXCEPT ![p] = l]
           /\ UNCHANGED <<row, rowTrgs, merge_lock, tid, todo, left, n_pending, reap,
                          strip>>
           /\ UNCHANGED <<scan_at, mode, want, rest, scan_blk, found, rows>>
<1> USE DEF MergePc, Goto, heapVars, insertVars, vacVars, scanVars
<1>1. CASE MergeMeta(p)
  BY <1>1, Zenon DEF MergeMeta
<1>2. CASE MergeWatermark(p)
  BY <1>2, Zenon DEF MergeWatermark
<1>3. CASE MergeWatermarkN(p)
  BY <1>3, Zenon DEF MergeWatermarkN
<1>4. CASE MergeCollect(p)
  BY <1>4, Zenon DEF MergeCollect
<1>5. CASE MergeBuild(p)
  BY <1>5, Zenon DEF MergeBuild
<1>6. CASE MergeAppendRun(p)
  BY <1>6, Zenon DEF MergeAppendRun
<1>7. CASE FinalizeMerge(p)
  BY <1>7, Zenon DEF FinalizeMerge
<1>8. CASE FreeConsumed(p)
  BY <1>8, Zenon DEF FreeConsumed
<1>9. CASE FreeWatermarkTail(p)
  BY <1>9, Zenon DEF FreeWatermarkTail
<1>10. CASE SetRoots(p)
  BY <1>10, Zenon DEF SetRoots
<1>11. QED
  BY <1>1, <1>2, <1>3, <1>4, <1>5, <1>6, <1>7, <1>8, <1>9, <1>10 DEF Merge

-----------------------------------------------------------------------------
(* The merge lock.                                                         *)
LEMMA LockStep == ASSUME IInv, Next PROVE LockInv'
<1> USE DEF LockInv, LockedPc, MergePc, Goto
<1>0. LockInv /\ pc \in [Procs -> PcState] /\ None \notin Procs /\ Vacuum \in Procs
      /\ Inserters \subseteq Procs
  BY SetsAssumption DEF IInv, TypeOK, Procs
<1>1. ASSUME NEW p \in Inserters, AppendPage(p) \/ InsertCase(p)
      PROVE  LockInv'
  <2>1. CASE AppendPage(p)
    BY <1>0, <2>1 DEF AppendPage
  <2>2. CASE \E r \in Tids, T \in Values : AmInsert(p, r, T)
    BY <1>0, <2>2 DEF AmInsert
  <2>3. CASE SkipMerge(p)
    BY <1>0, <2>3 DEF SkipMerge
  <2>4. CASE TryLock(p)
    BY <1>0, <2>4 DEF TryLock, CanTryLock
  <2>5. CASE InsertMergeDone(p)
    BY <1>0, <2>5 DEF InsertMergeDone, Unlock
  <2>6. CASE \E o \in {"live", "dead"} : EndXact(p, o)
    BY <1>0, <2>6 DEF EndXact
  <2>7. QED
    BY <1>1, <2>1, <2>2, <2>3, <2>4, <2>5, <2>6 DEF InsertCase
<1>2. ASSUME NEW p \in Procs, Merge(p)
      PROVE  LockInv'
  BY <1>0, <1>2, MergeFrame
<1>3. CASE VacuumCase
  <2>1. CASE VacuumStart
    BY <1>0, <2>1 DEF VacuumStart
  <2>2. CASE MergeLock
    BY <1>0, <2>2 DEF MergeLock
  <2>3. CASE VacuumMergeDone
    BY <1>0, <2>3 DEF VacuumMergeDone
  <2>4. CASE StripDone
    BY <1>0, <2>4 DEF StripDone, Unlock
  <2>5. CASE Reap
    BY <1>0, <2>5 DEF Reap
  <2>6. CASE Compact
    BY <1>0, <2>6 DEF Compact, Unlock
  <2>7. CASE \E t \in Trigrams : StripPosting(t)
    BY <1>0, <2>7 DEF StripPosting
  <2>8. QED
    BY <1>3, <2>1, <2>2, <2>3, <2>4, <2>5, <2>6, <2>7 DEF VacuumCase
<1>4. ASSUME NEW s \in Scanners, ScanCase(s)
      PROVE  LockInv'
  BY <1>0, <1>4 DEF ScanCase, ScanStep, ScanStart, ScanOverlay, ScanOverlayDone,
     ScanLookup, ScanEnd
<1>5. CASE FaultCase
  <2>1. CASE \E p \in Procs : Cancel(p)
    BY <1>0, <2>1 DEF Cancel, Unlock
  <2>2. CASE \E r \in Tids : Die(r)
    BY <1>0, <2>2 DEF Die
  <2>3. CASE Crash
    BY <1>0, <2>3 DEF Crash
  <2>4. QED
    BY <1>5, <2>1, <2>2, <2>3 DEF FaultCase
<1>6. QED
  BY <1>1, <1>2, <1>3, <1>4, <1>5, NextCases

LEMMA TypeStep == ASSUME IInv, Next PROVE TypeOK'
<1>1. ASSUME NEW p \in Inserters, AppendPage(p) \/ InsertCase(p)
      PROVE  TypeOK'
  BY <1>1, TypeAppend, TypeInsert DEF InsertCase
<1>2. ASSUME NEW p \in Procs, Merge(p)
      PROVE  TypeOK'
  BY <1>2, TypeMerge
<1>3. CASE VacuumCase
  BY <1>3, TypeVacuum DEF VacuumCase
<1>4. ASSUME NEW s \in Scanners, ScanCase(s)
      PROVE  TypeOK'
  BY <1>4, TypeScan DEF ScanCase
<1>5. CASE FaultCase
  BY <1>5, TypeFaults DEF FaultCase
<1>6. QED
  BY <1>1, <1>2, <1>3, <1>4, <1>5, NextCases

-----------------------------------------------------------------------------
(* What an append does to the list: the pages there keep what they hold,   *)
(* only the tail page grows, and a new page becomes the tail.              *)
LEMMA AppendList ==
    ASSUME IInv, NEW p \in Inserters, AppendPage(p)
    PROVE  /\ Len(entries') \in {Len(entries), Len(entries) + 1}
           /\ \A b \in 1 .. Len(entries) :
                 /\ b # pending_tail => entries'[b] = entries[b]
                 /\ Len(entries[b]) <= Len(entries'[b])
                 /\ \A i \in 1 .. Len(entries[b]) : entries'[b][i] = entries[b][i]
           /\ pending_tail' = Len(entries')
           /\ pending_head # Invalid => pending_head' = pending_head
           /\ pending_head = Invalid => pending_head' = Len(entries) + 1
           /\ pending_head' \in 1 .. Len(entries')
           /\ entries'[pending_tail'] # <<>>
           /\ Len(entries'[pending_tail']) <= PageCap
           /\ Elems(Put(p)) \subseteq Elems(entries'[pending_tail'])
<1>0. /\ entries \in Seq(Seq(Entry)) /\ Len(entries) \in Nat
      /\ pending_head \in Nat /\ pending_tail \in Nat
      /\ (pending_head = Invalid) <=> (pending_tail = Invalid)
      /\ pending_head # Invalid => pending_head <= pending_tail /\ pending_tail = Len(entries)
  BY DEF IInv, TypeOK, ListInv
<1>1. /\ Put(p) \in Seq(Entry) /\ Len(Put(p)) = Take(p) /\ Take(p) \in Nat \ {0}
  BY AppendFacts DEF IInv, TypeOK
<1>2. CASE NeedNewTail
  <2>1. /\ entries' = Append(entries, Put(p))
        /\ pending_tail' = Len(entries) + 1
        /\ pending_head' = IF pending_tail = Invalid THEN Len(entries) + 1 ELSE pending_head
    BY <1>2 DEF AppendPage, Put
  <2>2. /\ Len(entries') = Len(entries) + 1
        /\ \A b \in 1 .. Len(entries) : entries'[b] = entries[b]
        /\ entries'[Len(entries) + 1] = Put(p)
    BY <1>0, <1>1, <2>1, AppendProperties
  <2>3. Take(p) <= PageCap
    BY <1>2, AppendFacts
  <2>4. Put(p) # <<>>
    BY <1>1
  <2>5. \A b \in 1 .. Len(entries) : Len(entries[b]) <= Len(entries'[b])
    BY <1>0, <2>2
  <2>6. pending_head' \in 1 .. Len(entries')
    BY <1>0, <2>1, <2>2 DEF Invalid
  <2>7. /\ pending_head # Invalid => pending_head' = pending_head
        /\ pending_head = Invalid => pending_head' = Len(entries) + 1
    BY <1>0, <2>1
  <2>8. QED
    BY <1>1, <2>1, <2>2, <2>3, <2>4, <2>5, <2>6, <2>7
<1>3. CASE ~NeedNewTail
  <2>1. pending_tail \in 1 .. Len(entries) /\ pending_head # Invalid
        /\ pending_tail = Len(entries)
    BY <1>0, <1>3, AppendFacts DEF NeedNewTail
  <2>2. /\ entries' = [entries EXCEPT ![pending_tail] = entries[pending_tail] \o Put(p)]
        /\ pending_tail' = pending_tail /\ pending_head' = pending_head
    BY <1>3 DEF AppendPage, Put
  <2> DEFINE t == entries[pending_tail]
             u == t \o Put(p)
  <2>3. t \in Seq(Entry) /\ Len(t) \in Nat
    BY <1>0, <2>1
  <2>4. /\ u \in Seq(Entry) /\ Len(u) = Len(t) + Take(p)
        /\ \A i \in 1 .. Len(t) : u[i] = t[i]
        /\ \A i \in 1 .. Take(p) : u[Len(t) + i] = Put(p)[i]
    <3> HIDE DEF t
    <3>1. Put(p) \in Seq(Entry) /\ Len(Put(p)) = Take(p) BY <1>1
    <3> DEFINE v == Put(p)
    <3>2. t \in Seq(Entry) /\ v \in Seq(Entry) BY <2>3, <3>1
    <3> HIDE DEF v
    <3>3. /\ t \o v \in Seq(Entry) /\ Len(t \o v) = Len(t) + Len(v)
          /\ \A i \in 1 .. Len(t) : (t \o v)[i] = t[i]
          /\ \A i \in 1 .. Len(v) : (t \o v)[Len(t) + i] = v[i]
      BY <3>2, ConcatFacts
    <3> QED BY <3>1, <3>3 DEF v
  <2>5. Len(entries') = Len(entries) /\ entries'[pending_tail] = u
        /\ \A b \in 1 .. Len(entries) : b # pending_tail => entries'[b] = entries[b]
    BY <1>0, <2>1, <2>2, <2>4, ExceptSeq
  <2>6. Len(u) <= PageCap
    BY <1>3, <2>4, AppendFacts
  <2>7. u # <<>>
    BY <1>1, <2>3, <2>4
  <2>8. Elems(Put(p)) \subseteq Elems(u)
    <3>1. DOMAIN Put(p) = 1 .. Take(p) /\ DOMAIN u = 1 .. Len(u)
      BY <1>1, <2>4, LenProperties
    <3>2. \A i \in 1 .. Take(p) : Len(t) + i \in 1 .. Len(u)
      BY <1>1, <2>3, <2>4
    <3>3. QED
      BY <2>4, <3>1, <3>2 DEF Elems
  <2>9. Len(t) <= Len(u)
    BY <1>1, <2>3, <2>4
  <2>10. /\ \A b \in 1 .. Len(entries) : Len(entries[b]) <= Len(entries'[b])
         /\ \A b \in 1 .. Len(entries) :
               \A i \in 1 .. Len(entries[b]) : entries'[b][i] = entries[b][i]
    <3> SUFFICES ASSUME NEW b \in 1 .. Len(entries)
                 PROVE  /\ Len(entries[b]) <= Len(entries'[b])
                        /\ \A i \in 1 .. Len(entries[b]) : entries'[b][i] = entries[b][i]
      OBVIOUS
    <3>1. CASE b = pending_tail
      BY <2>4, <2>5, <2>9, <3>1
    <3>2. CASE b # pending_tail
      BY <1>0, <2>5, <3>2
    <3>3. QED
      BY <3>1, <3>2
  <2>11. pending_head' \in 1 .. Len(entries')
    BY <1>0, <2>1, <2>2, <2>5 DEF Invalid
  <2> HIDE DEF t, u
  <2>12. QED
    BY <2>1, <2>2, <2>5, <2>6, <2>7, <2>8, <2>10, <2>11
<1>4. QED
  BY <1>2, <1>3

(* What the truncation does to the list: either everything up to the tail  *)
(* was consumed and the list is empty, or the watermark page becomes its   *)
(* head and keeps the entries behind the watermark.                        *)
LEMMA FinalizeList ==
    ASSUME IInv, NEW p \in Procs, FinalizeMerge(p)
    PROVE  /\ pending_head \in 1 .. Len(entries) /\ pending_tail = Len(entries)
           /\ wm_tail[p] \in pending_head .. Len(entries)
           /\ Len(entries') = Len(entries)
           /\ \A b \in 1 .. Len(entries) : b # wm_tail[p] => entries'[b] = entries[b]
           /\ Rewind(p) =>
                 /\ pending_head' = wm_tail[p] /\ pending_tail' = pending_tail
                 /\ entries'[wm_tail[p]] = Survivors(p)
           /\ ~Rewind(p) =>
                 /\ pending_head' = Invalid /\ pending_tail' = Invalid
                 /\ entries' = entries /\ wm_tail[p] = Len(entries)
                 /\ wm_tail_n[p] = Len(entries[wm_tail[p]])
           /\ Len(Survivors(p)) <= Len(entries[wm_tail[p]])
           /\ \A i \in 1 .. Len(entries[wm_tail[p]]) :
                 \/ i \in 1 .. wm_tail_n[p]
                 \/ entries[wm_tail[p]][i] \in Elems(Survivors(p))
<1>0. pc[p] = "finalize" /\ Len(entries) \in Nat /\ wm_tail_n[p] \in Nat
      /\ entries \in Seq(Seq(Entry))
  BY DEF FinalizeMerge, IInv, TypeOK
<1>1. /\ pending_head \in 1 .. Len(entries) /\ pending_tail = Len(entries)
      /\ wm_tail[p] \in pending_head .. Len(entries)
      /\ entries[wm_tail[p]] \in Seq(Entry)
      /\ wm_tail_n[p] <= Len(entries[wm_tail[p]])
  BY <1>0, MergeFacts DEF DrainingPc, IInv, MergeInv, MergeAt
<1> DEFINE t == entries[wm_tail[p]]
<1>2. wm_tail[p] \in 1 .. Len(entries) /\ Len(t) \in Nat /\ wm_tail_n[p] \in 0 .. Len(t)
  BY <1>0, <1>1
<1>3. /\ Survivors(p) \in Seq(Entry) /\ Len(Survivors(p)) = Len(t) - wm_tail_n[p]
      /\ \A i \in 1 .. Len(t) - wm_tail_n[p] : Survivors(p)[i] = t[wm_tail_n[p] + i]
  BY ZenonT(30), <1>1, <1>2, ElemsCut DEF Survivors
<1>4. Len(Survivors(p)) <= Len(t)
  BY <1>2, <1>3
<1>5. ASSUME NEW i \in 1 .. Len(t), i \notin 1 .. wm_tail_n[p]
      PROVE  t[i] \in Elems(Survivors(p))
  <2>1. i - wm_tail_n[p] \in 1 .. Len(t) - wm_tail_n[p] /\ wm_tail_n[p] + (i - wm_tail_n[p]) = i
    BY <1>2, <1>5
  <2>2. DOMAIN Survivors(p) = 1 .. Len(t) - wm_tail_n[p]
    BY <1>3, LenProperties
  <2>3. QED
    BY <1>3, <2>1, <2>2 DEF Elems
<1>6. CASE Rewind(p)
  <2>1. /\ entries' = [entries EXCEPT ![wm_tail[p]] = Survivors(p)]
        /\ pending_head' = wm_tail[p] /\ pending_tail' = pending_tail
    BY <1>6 DEF FinalizeMerge
  <2>2. Len(entries') = Len(entries) /\ entries'[wm_tail[p]] = Survivors(p)
        /\ \A b \in 1 .. Len(entries) : b # wm_tail[p] => entries'[b] = entries[b]
    BY <1>0, <1>2, <1>3, <2>1, ExceptSeq
  <2>3. QED
    BY <1>1, <1>4, <1>5, <1>6, <2>1, <2>2
<1>7. CASE ~Rewind(p)
  <2>1. /\ entries' = entries /\ pending_head' = Invalid /\ pending_tail' = Invalid
    BY <1>7 DEF FinalizeMerge
  <2>2. wm_tail[p] = Len(entries) /\ wm_tail_n[p] = Len(t)
    <3>1. ~(Len(t) > wm_tail_n[p]) /\ pending_tail = wm_tail[p]
      BY <1>7 DEF Rewind
    <3>2. QED
      BY <1>1, <1>2, <3>1
  <2>3. QED
    BY <1>1, <1>4, <1>5, <1>7, <2>1, <2>2
<1>8. QED
  BY <1>6, <1>7

(* The list stays a chain of blocks in the order of their allocation.      *)
LEMMA ListStep == ASSUME IInv, Next PROVE ListInv'
<1>0. /\ ListInv /\ Len(entries) \in Nat /\ pending_head \in Nat /\ pending_tail \in Nat
      /\ \A b \in 1 .. Len(entries) : Len(entries[b]) \in Nat
      /\ \A b \in 1 .. Len(entries) : next_page[b] \in Nat
  BY DEF IInv, TypeOK
<1>1. ASSUME NEW p \in Inserters, AppendPage(p)
      PROVE  ListInv'
  <2>1. /\ Len(entries') \in {Len(entries), Len(entries) + 1}
        /\ \A b \in 1 .. Len(entries) : b # pending_tail => entries'[b] = entries[b]
        /\ pending_tail' = Len(entries')
        /\ pending_head # Invalid => pending_head' = pending_head
        /\ pending_head = Invalid => pending_head' = Len(entries) + 1
        /\ pending_head' \in 1 .. Len(entries')
        /\ entries'[pending_tail'] # <<>>
        /\ Len(entries'[pending_tail']) <= PageCap
    BY <1>1, AppendList
  <2>2. Len(entries') \in Nat /\ pending_head' # Invalid /\ pending_tail' # Invalid
    BY <1>0, <2>1 DEF Invalid
  <2>3. CASE NeedNewTail
    <3>1. /\ next_page' = Linked(Len(entries) + 1)
          /\ Len(entries') = Len(entries) + 1
      BY <1>0, <1>1, <2>1, <2>3 DEF AppendPage
    <3>2. \A b \in 1 .. Len(entries') :
             next_page'[b] = IF b = Len(entries') THEN Invalid
                             ELSE IF b = pending_tail THEN Len(entries') ELSE next_page[b]
      BY <3>1 DEF Linked
    <3>3. \A b \in 1 .. Len(entries') : next_page'[b] \in 0 .. Len(entries')
      <4>1. \A b \in 1 .. Len(entries) : next_page[b] \in 0 .. Len(entries)
        BY <1>0 DEF ListInv
      <4>2. QED
        BY <1>0, <3>1, <3>2, <4>1 DEF Invalid
    <3>4. ASSUME NEW b \in pending_head' .. pending_tail'
          PROVE  next_page'[b] = IF b = pending_tail' THEN Invalid ELSE b + 1
      <4>1. CASE b = Len(entries')
        BY <1>0, <2>1, <3>1, <3>2, <4>1
      <4>2. CASE b # Len(entries')
        <5>1. pending_head # Invalid
          BY <1>0, <2>1, <3>1, <4>2
        <5>2. /\ b \in pending_head .. pending_tail /\ pending_tail = Len(entries)
              /\ b \in 1 .. Len(entries')
          BY <1>0, <2>1, <3>1, <4>2, <5>1 DEF ListInv, Invalid
        <5>3. next_page[b] = IF b = pending_tail THEN Invalid ELSE b + 1
          BY <1>0, <5>1, <5>2 DEF ListInv
        <5>4. QED
          BY <1>0, <2>1, <3>1, <3>2, <4>2, <5>2, <5>3
      <4>3. QED
        BY <4>1, <4>2
    <3>5. \A b \in pending_head' .. pending_tail' : b # pending_head' => entries'[b] # <<>>
      <4> SUFFICES ASSUME NEW b \in pending_head' .. pending_tail', b # pending_head',
                          b # pending_tail'
                   PROVE  entries'[b] # <<>>
        BY <2>1
      <4>1. pending_head # Invalid
        BY <1>0, <2>1, <3>1
      <4>2. b \in pending_head .. pending_tail /\ b # pending_head /\ b \in 1 .. Len(entries)
        BY <1>0, <2>1, <3>1, <4>1 DEF ListInv, Invalid
      <4>3. entries[b] # <<>>
        BY <1>0, <4>1, <4>2 DEF ListInv, ListBlocks
      <4>4. entries'[b] = entries[b]
        <5>1. entries' = Append(entries, Put(p))
          BY <1>1, <2>3 DEF AppendPage, Put
        <5>2. entries \in Seq(Seq(Entry)) /\ Put(p) \in Seq(Entry)
          BY <1>1, AppendFacts DEF IInv, TypeOK
        <5>3. QED
          BY <4>2, <5>1, <5>2, AppendProperties
      <4>5. QED
        BY <4>3, <4>4
    <3>6. QED
      <4>1. \A b \in 1 .. Len(entries') : Len(entries'[b]) <= PageCap
        <5>1. entries' = Append(entries, Put(p)) /\ entries \in Seq(Seq(Entry))
              /\ Put(p) \in Seq(Entry)
          BY <1>1, <2>3, AppendFacts DEF AppendPage, Put, IInv, TypeOK
        <5>2. \A b \in 1 .. Len(entries) : entries'[b] = entries[b]
          BY <5>1, AppendProperties
        <5>3. \A b \in 1 .. Len(entries) : Len(entries'[b]) <= PageCap
          BY <1>0, <5>2 DEF ListInv
        <5>4. QED
          BY <1>0, <2>1, <3>1, <5>3
      <4>2. pending_head' <= pending_tail'
        BY <1>0, <2>1, <2>2
      <4>3. QED
        BY <2>1, <2>2, <3>3, <3>4, <3>5, <4>1, <4>2 DEF ListInv, ListBlocks
  <2>4. CASE ~NeedNewTail
    <3>1. /\ next_page' = next_page /\ pending_head' = pending_head
          /\ pending_tail' = pending_tail /\ pending_tail # Invalid
      BY <1>1, <2>4 DEF AppendPage, NeedNewTail
    <3>2. pending_head # Invalid /\ pending_tail = Len(entries) /\ Len(entries') = Len(entries)
          /\ pending_head <= pending_tail
      BY <1>0, <2>1, <3>1 DEF ListInv
    <3>3. \A b \in 1 .. Len(entries) : next_page[b] \in 0 .. Len(entries)
                                       /\ Len(entries[b]) <= PageCap
      BY <1>0 DEF ListInv
    <3>4. \A b \in pending_head .. pending_tail :
             /\ next_page[b] = IF b = pending_tail THEN Invalid ELSE b + 1
             /\ b # pending_head => entries[b] # <<>>
      BY <1>0, <3>2 DEF ListInv, ListBlocks
    <3>5. \A b \in pending_head .. pending_tail : b \in 1 .. Len(entries)
      BY <1>0, <3>2 DEF Invalid
    <3>6. \A b \in pending_head .. pending_tail : b # pending_head => entries'[b] # <<>>
      BY <2>1, <3>1, <3>4, <3>5
    <3>7. \A b \in 1 .. Len(entries) : Len(entries'[b]) <= PageCap
      BY <2>1, <3>1, <3>3
    <3>8. QED
      BY <2>2, <3>1, <3>2, <3>3, <3>4, <3>6, <3>7 DEF ListInv, ListBlocks
  <2>5. QED
    BY <2>3, <2>4
<1>2. ASSUME NEW p \in Procs, FinalizeMerge(p)
      PROVE  ListInv'
  <2>0. next_page' = next_page
    BY <1>2 DEF FinalizeMerge
  <2>1. /\ pending_head \in 1 .. Len(entries) /\ pending_tail = Len(entries)
        /\ wm_tail[p] \in pending_head .. Len(entries)
        /\ Len(entries') = Len(entries)
        /\ \A b \in 1 .. Len(entries) : b # wm_tail[p] => entries'[b] = entries[b]
        /\ Len(Survivors(p)) <= Len(entries[wm_tail[p]])
    BY <1>2, FinalizeList
  <2>2. pending_head # Invalid /\ wm_tail[p] \in 1 .. Len(entries) /\ wm_tail[p] # Invalid
    BY <1>0, <2>1 DEF Invalid
  <2>3. \A b \in 1 .. Len(entries) : next_page[b] \in 0 .. Len(entries)
                                     /\ Len(entries[b]) <= PageCap
    BY <1>0 DEF ListInv
  <2>4. CASE Rewind(p)
    <3>1. /\ pending_head' = wm_tail[p] /\ pending_tail' = Len(entries)
          /\ entries'[wm_tail[p]] = Survivors(p)
      BY <1>2, <2>1, <2>4, FinalizeList
    <3>2. Survivors(p) \in Seq(Entry) /\ Len(Survivors(p)) \in Nat
      <4>1. TypeOK'
        BY TypeStep
      <4>2. entries' \in Seq(Seq(Entry))
        BY <4>1 DEF TypeOK
      <4>3. QED
        BY <2>1, <2>2, <3>1, <4>2
    <3>3. Len(entries'[wm_tail[p]]) <= PageCap
      BY <1>0, <2>1, <2>2, <2>3, <3>1, <3>2, BoundsAssumption
    <3>4. \A b \in 1 .. Len(entries) : Len(entries'[b]) <= PageCap
      BY <2>1, <2>3, <3>3
    <3>5. \A b \in wm_tail[p] .. Len(entries) :
             /\ b \in pending_head .. pending_tail
             /\ b # wm_tail[p] => b # pending_head /\ b \in 1 .. Len(entries)
      BY <1>0, <2>1
    <3>6. \A b \in wm_tail[p] .. Len(entries) :
             /\ next_page[b] = IF b = Len(entries) THEN Invalid ELSE b + 1
             /\ b # wm_tail[p] => entries[b] # <<>>
      BY <1>0, <2>1, <2>2, <3>5 DEF ListInv, ListBlocks
    <3>7. \A b \in wm_tail[p] .. Len(entries) : b # wm_tail[p] => entries'[b] # <<>>
      BY <2>1, <3>5, <3>6
    <3>8. wm_tail[p] <= Len(entries) /\ Len(entries) # Invalid
      BY <1>0, <2>1, <2>2 DEF Invalid
    <3>9. QED
      BY <2>0, <2>1, <2>2, <2>3, <3>1, <3>4, <3>6, <3>7, <3>8 DEF ListInv, ListBlocks
  <2>5. CASE ~Rewind(p)
    <3>1. pending_head' = Invalid /\ pending_tail' = Invalid /\ entries' = entries
      BY <1>2, <2>5, FinalizeList
    <3>2. QED
      BY <2>0, <2>3, <3>1 DEF ListInv, ListBlocks
  <2>6. QED
    BY <2>4, <2>5
<1>3. CASE UNCHANGED listVars
  BY <1>0, <1>3 DEF ListInv, ListBlocks, listVars
<1>4. QED
  BY <1>1, <1>2, <1>3, ListFrame

-----------------------------------------------------------------------------
(* The distinct trigrams of a row, in any order.                           *)
LEMMA OrdersFacts ==
    ASSUME NEW T \in Values, NEW r \in Tids, NEW s \in Orders(T \X {r})
    PROVE  /\ s \in Seq(Entry) /\ Elems(s) = T \X {r}
           /\ T = {} => s = <<>>
           /\ T # {} => Len(s) \in Nat \ {0}
<1>1. T \X {r} \subseteq Entry /\ IsFiniteSet(T \X {r})
  BY SetsAssumption, FS_Subset, FS_Singleton, FS_Product DEF Entry
<1>2. Cardinality(T \X {r}) \in Nat
  BY <1>1, FS_CardinalityType
<1>3. s \in [1 .. Cardinality(T \X {r}) -> Entry] /\ Elems(s) = T \X {r}
  BY <1>1 DEF Orders
<1>4. s \in Seq(Entry) /\ Len(s) = Cardinality(T \X {r})
  BY <1>2, <1>3, FunctionIsSeq
<1>5. ASSUME T = {} PROVE s = <<>>
  <2>1. T \X {r} = {}
    BY <1>5
  <2>2. Cardinality(T \X {r}) = 0
    BY <2>1, FS_EmptySet
  <2>3. QED
    BY <1>4, <2>2, EmptySeq
<1>6. ASSUME T # {} PROVE Len(s) # 0
  <2>1. PICK t \in T : TRUE
    BY <1>6
  <2>2. <<t, r>> \in T \X {r}
    OBVIOUS
  <2>3. T \X {r} # {}
    BY <2>2
  <2>4. QED
    BY <1>1, <1>4, <2>3, FS_EmptySet
<1>7. QED
  BY <1>2, <1>3, <1>4, <1>5, <1>6

(* The locals of aminsert and the row it is inserting.                     *)
LEMMA InsertStepInv == ASSUME IInv, Next PROVE InsertInv'
<1>0. /\ InsertInv /\ pc \in [Procs -> PcState] /\ tid \in [Inserters -> Tids \cup {None}]
      /\ row \in [Tids -> RowState]
      /\ todo \in [Inserters -> Seq(Entry)] /\ left \in [Inserters -> Nat]
      /\ Inserters \subseteq Procs /\ Vacuum \in Procs /\ Vacuum \notin Inserters
      /\ None \notin Tids
  BY SetsAssumption DEF IInv, TypeOK, Procs
<1>1. ASSUME NEW p \in Inserters, AppendPage(p)
      PROVE  InsertInv'
  <2>1. /\ pc[p] = "append"
        /\ todo' = [todo EXCEPT ![p] = More(p)]
        /\ left' = [left EXCEPT ![p] = IF @ = Take(p) THEN Min2(BatchMax, Len(More(p)))
                                       ELSE @ - Take(p)]
        /\ pc' = [pc EXCEPT ![p] = IF More(p) = <<>> THEN "maybe" ELSE "append"]
        /\ tid' = tid /\ row' = row
    BY <1>1 DEF AppendPage, More, Goto, heapVars
  <2>2. /\ left[p] \in 1 .. Len(todo[p]) /\ Take(p) \in 1 .. left[p]
        /\ More(p) \in Seq(Entry) /\ Len(More(p)) = Len(todo[p]) - Take(p)
        /\ Len(todo[p]) \in Nat
    BY <1>0, <1>1, AppendFacts
  <2>3. More(p) # <<>> => Len(More(p)) \in Nat \ {0}
    BY <2>2, EmptySeq
  <2>4. More(p) # <<>> => left'[p] \in 1 .. Len(More(p))
    <3>1. left'[p] = IF left[p] = Take(p) THEN Min2(BatchMax, Len(More(p)))
                     ELSE left[p] - Take(p)
      BY <1>0, <2>1
    <3>2. More(p) # <<>> => Min2(BatchMax, Len(More(p))) \in 1 .. Len(More(p))
      BY <2>3, BoundsAssumption DEF Min2
    <3>3. left[p] # Take(p) => left[p] - Take(p) \in 1 .. Len(More(p))
      BY <2>2
    <3>4. QED
      BY <3>1, <3>2, <3>3
  <2>5. pc'[p] # "idle" /\ pc'[p] = (IF More(p) = <<>> THEN "maybe" ELSE "append")
    BY <1>0, <2>1
  <2>6. todo'[p] = More(p)
    BY <1>0, <2>1
  <2>7. \A q \in Inserters : q # p => pc'[q] = pc[q] /\ todo'[q] = todo[q] /\ left'[q] = left[q]
    BY <1>0, <2>1
  <2>8. QED
    BY <1>0, <2>1, <2>4, <2>5, <2>6, <2>7 DEF InsertInv
<1>2. ASSUME NEW p \in Inserters, InsertCase(p)
      PROVE  InsertInv'
  <2>1. CASE \E r \in Tids, T \in Values : AmInsert(p, r, T)
    <3>1. PICK r \in Tids, T \in Values : AmInsert(p, r, T)
      BY <2>1
    <3>2. PICK s \in Orders(T \X {r}) :
            /\ todo' = [todo EXCEPT ![p] = s]
            /\ left' = [left EXCEPT ![p] = Min2(BatchMax, Len(s))]
      BY <3>1 DEF AmInsert
    <3>3. /\ pc[p] = "idle" /\ row[r] = "unused"
          /\ row' = [row EXCEPT ![r] = "inserting"]
          /\ tid' = [tid EXCEPT ![p] = r]
          /\ pc' = [pc EXCEPT ![p] = IF T = {} THEN "maybe" ELSE "append"]
      BY <3>1 DEF AmInsert, Goto
    <3>4. T # {} => Min2(BatchMax, Len(s)) \in 1 .. Len(s)
      BY OrdersFacts, BoundsAssumption DEF Min2
    <3>5. T = {} => s = <<>>
      BY OrdersFacts
    <3>6. /\ todo'[p] = s /\ left'[p] = Min2(BatchMax, Len(s)) /\ tid'[p] = r
          /\ pc'[p] = (IF T = {} THEN "maybe" ELSE "append")
          /\ row'[r] = "inserting"
      BY <1>0, <3>2, <3>3
    <3>7. \A q \in Inserters : q # p => /\ pc'[q] = pc[q] /\ todo'[q] = todo[q]
                                        /\ left'[q] = left[q] /\ tid'[q] = tid[q]
      BY <1>0, <3>2, <3>3
    <3>8. \A q \in Inserters : tid[q] # r
      BY <1>0, <3>3 DEF InsertInv
    <3>9. \A q \in Inserters : tid[q] # None => row'[tid[q]] = row[tid[q]]
      BY <1>0, <3>3, <3>8
    <3>10. QED
      BY <1>0, <3>4, <3>5, <3>6, <3>7, <3>8, <3>9 DEF InsertInv
  <2>2. CASE SkipMerge(p)
    BY <1>0, <2>2 DEF InsertInv, SkipMerge, Goto, heapVars
  <2>3. CASE TryLock(p)
    BY <1>0, <2>3 DEF InsertInv, TryLock, Goto, heapVars
  <2>4. CASE InsertMergeDone(p)
    BY <1>0, <2>4 DEF InsertInv, InsertMergeDone, Goto, heapVars, insertVars
  <2>5. CASE \E o \in {"live", "dead"} : EndXact(p, o)
    BY <1>0, <2>5 DEF InsertInv, EndXact, Goto
  <2>6. QED
    BY <1>2, <2>1, <2>2, <2>3, <2>4, <2>5 DEF InsertCase
<1>3. ASSUME NEW p \in Procs, Merge(p)
      PROVE  InsertInv'
  <2>1. /\ pc[p] \in MergePc /\ \E l \in MergePc : pc' = [pc EXCEPT ![p] = l]
        /\ UNCHANGED <<row, tid, todo, left>>
    BY <1>3, MergeFrame
  <2>2. \A q \in Inserters : \/ pc'[q] = pc[q]
                             \/ pc[q] \in MergePc /\ pc'[q] \in MergePc
    BY <1>0, <1>3, <2>1
  <2>3. "append" \notin MergePc /\ "idle" \notin MergePc
    BY DEF MergePc
  <2>4. QED
    BY <1>0, <2>1, <2>2, <2>3 DEF InsertInv
<1>4. CASE VacuumCase
  <2>1. \A q \in Inserters : pc'[q] = pc[q]
    BY <1>0, <1>4 DEF VacuumCase, VacuumStart, MergeLock, VacuumMergeDone, StripDone,
       Reap,
       Compact, StripPosting, Goto
  <2>2. UNCHANGED <<tid, todo, left>>
    BY <1>4 DEF VacuumCase, VacuumStart, MergeLock, VacuumMergeDone, StripDone, Reap,
       Compact, StripPosting, insertVars
  <2>3. \A r \in Tids : row[r] = "inserting" => row'[r] = "inserting"
    <3>1. CASE Reap
      BY <1>0, <3>1 DEF Reap, IInv, ReapInv
    <3>2. CASE ~Reap
      BY <1>4, <3>2 DEF VacuumCase, VacuumStart, MergeLock, VacuumMergeDone, StripDone,
         Compact, StripPosting, heapVars
    <3>3. QED
      BY <3>1, <3>2
  <2>4. QED
    BY <1>0, <2>1, <2>2, <2>3 DEF InsertInv
<1>5. ASSUME NEW s \in Scanners, ScanCase(s)
      PROVE  InsertInv'
  <2>1. UNCHANGED <<pc, row, tid, todo, left>>
    BY <1>5 DEF ScanCase, ScanStep, ScanStart, ScanOverlay, ScanOverlayDone, ScanLookup,
       ScanEnd, heapVars, insertVars
  <2>2. QED
    BY <1>0, <2>1 DEF InsertInv
<1>6. CASE FaultCase
  <2>1. ASSUME NEW p \in Procs, Cancel(p)
        PROVE  InsertInv'
    <3>1. CASE p = Vacuum
      BY <1>0, <2>1, <3>1 DEF InsertInv, Cancel, Goto, heapVars, insertVars
    <3>2. CASE p # Vacuum
      <4>1. p \in Inserters /\ tid[p] \in Tids
        BY <1>0, <2>1, <3>2 DEF Procs, Cancel, InsertInv
      <4>2. /\ row' = [row EXCEPT ![tid[p]] = "dead"]
            /\ tid' = [tid EXCEPT ![p] = None]
            /\ todo' = [todo EXCEPT ![p] = <<>>]
            /\ left' = [left EXCEPT ![p] = 0]
            /\ pc' = [pc EXCEPT ![p] = "idle"]
        BY <2>1, <3>2 DEF Cancel, Goto
      <4>3. \A q \in Inserters : q # p /\ tid[q] # None => row'[tid[q]] = row[tid[q]]
        BY <1>0, <4>1, <4>2 DEF InsertInv
      <4>4. QED
        BY <1>0, <4>1, <4>2, <4>3 DEF InsertInv
    <3>3. QED
      BY <3>1, <3>2
  <2>2. CASE \E r \in Tids : Die(r)
    BY <1>0, <2>2 DEF InsertInv, Die, insertVars
  <2>3. CASE Crash
    BY <1>0, <2>3 DEF InsertInv, Crash
  <2>4. QED
    BY <1>6, <2>1, <2>2, <2>3 DEF FaultCase
<1>7. QED
  BY <1>1, <1>2, <1>3, <1>4, <1>5, <1>6, NextCases

LEMMA ReapStep == ASSUME IInv, Next PROVE ReapInv'
<1>0. /\ ReapInv /\ InsertInv /\ row \in [Tids -> RowState] /\ reap \subseteq Tids
      /\ tid \in [Inserters -> Tids \cup {None}] /\ Inserters \subseteq Procs
  BY DEF IInv, TypeOK, Procs
<1>1. ASSUME NEW p \in Inserters, AppendPage(p) \/ InsertCase(p)
      PROVE  ReapInv'
  <2>1. CASE \E r \in Tids, T \in Values : AmInsert(p, r, T)
    BY <1>0, <2>1 DEF ReapInv, AmInsert, vacVars
  <2>2. CASE \E o \in {"live", "dead"} : EndXact(p, o)
    BY <1>0, <2>2 DEF ReapInv, EndXact, vacVars, InsertInv
  <2>3. CASE AppendPage(p) \/ SkipMerge(p) \/ TryLock(p) \/ InsertMergeDone(p)
    BY <1>0, <2>3 DEF ReapInv, AppendPage, SkipMerge, TryLock, InsertMergeDone,
       heapVars, vacVars
  <2>4. QED
    BY <1>1, <2>1, <2>2, <2>3 DEF InsertCase
<1>2. ASSUME NEW p \in Procs, Merge(p)
      PROVE  ReapInv'
  BY <1>0, <1>2, MergeFrame DEF ReapInv
<1>3. CASE VacuumCase
  BY <1>0, <1>3 DEF VacuumCase, ReapInv, VacuumStart, MergeLock, VacuumMergeDone,
     StripDone, Reap,
     Compact, StripPosting, heapVars, vacVars
<1>4. ASSUME NEW s \in Scanners, ScanCase(s)
      PROVE  ReapInv'
  BY <1>0, <1>4 DEF ReapInv, ScanCase, ScanStep, ScanStart, ScanOverlay, ScanOverlayDone,
     ScanLookup, ScanEnd, heapVars, vacVars
<1>5. CASE FaultCase
  <2>1. CASE \E p \in Procs : Cancel(p)
    BY <1>0, <2>1 DEF ReapInv, Cancel, heapVars, vacVars
  <2>2. CASE \E r \in Tids : Die(r)
    BY <1>0, <2>2 DEF ReapInv, Die, vacVars
  <2>3. CASE Crash
    BY <1>0, <2>3 DEF ReapInv, Crash
  <2>4. QED
    BY <1>5, <2>1, <2>2, <2>3 DEF FaultCase
<1>6. QED
  BY <1>1, <1>2, <1>3, <1>4, <1>5, NextCases

-----------------------------------------------------------------------------
(* The merge.  Outside these places MergeAt says nothing.                  *)
MergingPc == DrainingPc \cup {"free", "free_tail", "set_roots"}

LEMMA MergingLocked ==
    MergingPc \subseteq LockedPc /\ DrainingPc \subseteq MergingPc
BY DEF MergingPc, DrainingPc, LockedPc, MergePc

(* An append leaves what a running merge has collected where it was.       *)
LEMMA MergeAppend ==
    ASSUME IInv, NEW p \in Inserters, AppendPage(p), NEW q \in Procs
    PROVE  MergeAt(q)'
<1>0. /\ MergeAt(q) /\ pc \in [Procs -> PcState] /\ p \in Procs
      /\ Len(entries) \in Nat /\ pending_head \in Nat /\ pending_tail \in Nat
      /\ wm_tail[q] \in Nat /\ wm_tail_n[q] \in Nat /\ blk[q] \in Nat
      /\ entries \in Seq(Seq(Entry))
  BY DEF IInv, MergeInv, TypeOK, Procs
<1>1. /\ UNCHANGED <<base, runs, coalesced>>
      /\ UNCHANGED <<root, flush, wm_tail, wm_tail_n, blk, got, consumed, new_root,
                     free_wm_tail>>
      /\ pc[p] = "append" /\ \E l \in {"append", "maybe"} : pc' = [pc EXCEPT ![p] = l]
  <2>1. \E l \in {"append", "maybe"} : pc' = [pc EXCEPT ![p] = l]
    BY Zenon DEF AppendPage, Goto
  <2>2. QED
    BY <2>1 DEF AppendPage, treeVars, mergeVars
<1>2. CASE q = p \/ pc[q] \notin MergingPc
  <2>1. pc'[q] \notin MergingPc
    BY <1>0, <1>1, <1>2 DEF MergingPc, DrainingPc
  <2>2. QED
    BY <2>1 DEF MergeAt, MergingPc, DrainingPc
<1>3. CASE q # p /\ pc[q] \in MergingPc
  <2>1. pc'[q] = pc[q]
    BY <1>0, <1>1, <1>3
  <2>2. CASE pc[q] \notin DrainingPc
    BY <1>0, <1>1, <2>1, <2>2 DEF MergeAt, DrainingPc
  <2>3. CASE pc[q] \in DrainingPc
    <3>1. pending_head # Invalid /\ pending_head \in 1 .. Len(entries) /\ pending_tail = Len(entries)
      BY <2>3, MergeFacts DEF IInv, MergeInv, MergeAt
    <3>2. pending_head' = pending_head /\ pending_tail' \in Nat /\ pending_tail <= pending_tail'
      BY <1>0, <3>1, AppendList
    <3>3. \A b \in pending_head .. pending_tail - 1 : PageEntries(b)' = PageEntries(b)
      <4>1. \A b \in pending_head .. pending_tail - 1 : b \in 1 .. Len(entries) /\ b # pending_tail
        BY <1>0, <3>1
      <4>2. \A b \in pending_head .. pending_tail - 1 : entries'[b] = entries[b]
        BY <4>1, AppendList
      <4>3. QED
        BY <4>2 DEF PageEntries
    <3>4. pc[q] # "wm" =>
             /\ wm_tail[q] \in pending_head .. pending_tail
             /\ wm_tail[q] \in pending_head' .. pending_tail'
             /\ wm_tail[q] \in 1 .. Len(entries)
             /\ Len(entries[wm_tail[q]]) \in Nat
             /\ Len(entries[wm_tail[q]]) <= Len(entries'[wm_tail[q]])
             /\ \A i \in 1 .. Len(entries[wm_tail[q]]) :
                   entries'[wm_tail[q]][i] = entries[wm_tail[q]][i]
      <4> SUFFICES ASSUME pc[q] # "wm"
                   PROVE  /\ wm_tail[q] \in pending_head .. pending_tail
                          /\ wm_tail[q] \in pending_head' .. pending_tail'
                          /\ wm_tail[q] \in 1 .. Len(entries)
                          /\ Len(entries[wm_tail[q]]) \in Nat
                          /\ Len(entries[wm_tail[q]]) <= Len(entries'[wm_tail[q]])
                          /\ \A i \in 1 .. Len(entries[wm_tail[q]]) :
                                entries'[wm_tail[q]][i] = entries[wm_tail[q]][i]
        OBVIOUS
      <4>1. wm_tail[q] \in pending_head .. pending_tail /\ entries[wm_tail[q]] \in Seq(Entry)
        BY <2>3, <3>1, MergeFacts
      <4>2. wm_tail[q] \in pending_head' .. pending_tail' /\ wm_tail[q] \in 1 .. Len(entries)
        BY <1>0, <3>1, <3>2, <4>1
      <4>3. QED
        BY <4>1, <4>2, AppendList
    <3>5. pc[q] \notin {"wm", "wm_n"} =>
             /\ wm_tail_n[q] <= Len(entries[wm_tail[q]])
             /\ wm_tail_n[q] <= Len(entries'[wm_tail[q]])
             /\ \A i \in 1 .. wm_tail_n[q] :
                   entries'[wm_tail[q]][i] = entries[wm_tail[q]][i]
      <4> SUFFICES ASSUME pc[q] \notin {"wm", "wm_n"}
                   PROVE  /\ wm_tail_n[q] <= Len(entries[wm_tail[q]])
                          /\ wm_tail_n[q] <= Len(entries'[wm_tail[q]])
                          /\ \A i \in 1 .. wm_tail_n[q] :
                                entries'[wm_tail[q]][i] = entries[wm_tail[q]][i]
        OBVIOUS
      <4>1. wm_tail_n[q] <= Len(entries[wm_tail[q]])
        BY <1>0, <2>3 DEF MergeAt
      <4>2. entries'[wm_tail[q]] \in Seq(Entry)
        <5>1. TypeOK'
          BY TypeAppend
        <5>2. entries' \in Seq(Seq(Entry))
          BY <5>1 DEF TypeOK
        <5>3. wm_tail[q] \in 1 .. Len(entries')
          BY <1>0, <3>4, AppendList
        <5>4. QED
          BY <5>2, <5>3
      <4>3. Len(entries'[wm_tail[q]]) \in Nat
        BY <4>2
      <4>4. wm_tail_n[q] <= Len(entries'[wm_tail[q]])
        BY <1>0, <3>4, <4>1, <4>3
      <4>5. \A i \in 1 .. wm_tail_n[q] : i \in 1 .. Len(entries[wm_tail[q]])
        BY <1>0, <3>4, <4>1
      <4>6. QED
        BY <3>4, <4>1, <4>4, <4>5
    <3>6. pc[q] = "collect" =>
             /\ blk[q] \in pending_head .. wm_tail[q]
             /\ \A b \in pending_head .. blk[q] - 1 : PageEntries(b)' = PageEntries(b)
      <4>1. SUFFICES ASSUME pc[q] = "collect"
                     PROVE  /\ blk[q] \in pending_head .. wm_tail[q]
                            /\ \A b \in pending_head .. blk[q] - 1 : PageEntries(b)' = PageEntries(b)
        OBVIOUS
      <4>2. blk[q] \in pending_head .. wm_tail[q]
        BY <1>0, <4>1 DEF MergeAt
      <4>3. \A b \in pending_head .. blk[q] - 1 : b \in pending_head .. pending_tail - 1
        BY <1>0, <3>4, <4>1, <4>2
      <4>4. QED
        BY <3>3, <4>2, <4>3
    <3>7. pc[q] \in {"build", "run", "finalize"} =>
             \A b \in consumed[q] : PageEntries(b)' = PageEntries(b)
      <4>1. SUFFICES ASSUME pc[q] \in {"build", "run", "finalize"}
                     PROVE  \A b \in consumed[q] : PageEntries(b)' = PageEntries(b)
        OBVIOUS
      <4>2. consumed[q] = pending_head .. wm_tail[q] - 1
        BY <1>0, <4>1 DEF MergeAt
      <4>3. \A b \in consumed[q] : b \in pending_head .. pending_tail - 1
        BY <1>0, <3>4, <4>1, <4>2
      <4>4. QED
        BY <3>3, <4>3
    <3>8. pending_head' # Invalid
      BY <3>1, <3>2
    <3>9. QED
      <4> USE <1>0, <1>1, <2>1
      <4>1. CASE pc[q] = "wm"
        BY <3>2, <3>8, <4>1 DEF MergeAt, DrainingPc
      <4>2. CASE pc[q] = "wm_n"
        BY <3>2, <3>4, <3>8, <4>2 DEF MergeAt, DrainingPc
      <4>3. CASE pc[q] = "collect"
        BY <3>2, <3>4, <3>5, <3>6, <3>8, <4>3 DEF MergeAt, DrainingPc
      <4>4. CASE pc[q] \in {"build", "run", "finalize"}
        BY <3>2, <3>4, <3>5, <3>7, <3>8, <4>4 DEF MergeAt, DrainingPc, Flushing
      <4>5. QED
        BY <2>3, <4>1, <4>2, <4>3, <4>4 DEF DrainingPc
  <2>4. QED
    BY <2>2, <2>3
<1>4. QED
  BY <1>2, <1>3

LEMMA LocalsStep == ASSUME IInv, Next PROVE LocalsInv'
<1> USE DEF LocalsInv, HoldingPc, Goto
<1>0. /\ LocalsInv /\ pc \in [Procs -> PcState] /\ Vacuum \in Procs /\ Inserters \subseteq Procs
      /\ got \in [Procs -> SUBSET Entry] /\ consumed \in [Procs -> SUBSET Nat]
  BY DEF IInv, TypeOK, Procs
<1>1. ASSUME NEW p \in Inserters, AppendPage(p) \/ InsertCase(p)
      PROVE  LocalsInv'
  <2>1. CASE AppendPage(p)
    BY <1>0, <2>1 DEF AppendPage, mergeVars
  <2>2. CASE \E r \in Tids, T \in Values : AmInsert(p, r, T)
    BY <1>0, <2>2 DEF AmInsert, mergeVars
  <2>3. CASE SkipMerge(p) \/ TryLock(p)
    BY <1>0, <2>3 DEF SkipMerge, TryLock, mergeVars
  <2>4. CASE InsertMergeDone(p)
    BY <1>0, <2>4 DEF InsertMergeDone, ClearMerge
  <2>5. CASE \E o \in {"live", "dead"} : EndXact(p, o)
    BY <1>0, <2>5 DEF EndXact, mergeVars
  <2>6. QED
    BY <1>1, <2>1, <2>2, <2>3, <2>4, <2>5 DEF InsertCase
<1>2. ASSUME NEW p \in Procs, Merge(p)
      PROVE  LocalsInv'
  <2>1. CASE MergeMeta(p) \/ MergeWatermark(p) \/ MergeWatermarkN(p) \/ MergeBuild(p)
             \/ FinalizeMerge(p)
    BY <1>0, <2>1 DEF MergeMeta, MergeWatermark, MergeWatermarkN, MergeBuild,
       FinalizeMerge
  <2>2. CASE MergeAppendRun(p) \/ FreeConsumed(p) \/ FreeWatermarkTail(p) \/ SetRoots(p)
    BY <1>0, <2>2 DEF MergeAppendRun, FreeConsumed, FreeWatermarkTail, SetRoots, mergeVars
  <2>3. CASE MergeCollect(p)
    <3>1. \E l \in {"build", "collect"} : pc' = [pc EXCEPT ![p] = l]
      BY <2>3, Zenon DEF MergeCollect
    <3>2. \A q \in Procs : q # p => got'[q] = got[q] /\ consumed'[q] = consumed[q]
      BY <1>0, <2>3 DEF MergeCollect
    <3>3. QED
      BY <1>0, <3>1, <3>2
  <2>4. QED
    BY <1>2, <2>1, <2>2, <2>3 DEF Merge
<1>3. CASE VacuumCase
  <2>1. CASE VacuumStart \/ MergeLock \/ StripDone \/ Reap \/ Compact
    BY <1>0, <2>1 DEF VacuumStart, MergeLock, StripDone, Reap, Compact, mergeVars
  <2>2. CASE VacuumMergeDone
    BY <1>0, <2>2 DEF VacuumMergeDone, ClearMerge
  <2>3. CASE \E t \in Trigrams : StripPosting(t)
    BY <1>0, <2>3 DEF StripPosting, mergeVars
  <2>4. QED
    BY <1>3, <2>1, <2>2, <2>3 DEF VacuumCase
<1>4. ASSUME NEW s \in Scanners, ScanCase(s)
      PROVE  LocalsInv'
  BY <1>0, <1>4 DEF ScanCase, ScanStep, ScanStart, ScanOverlay, ScanOverlayDone,
     ScanLookup,
     ScanEnd, mergeVars
<1>5. CASE FaultCase
  <2>1. CASE \E p \in Procs : Cancel(p)
    BY <1>0, <2>1 DEF Cancel, ClearMerge
  <2>2. CASE \E r \in Tids : Die(r)
    BY <1>0, <2>2 DEF Die, mergeVars
  <2>3. CASE Crash
    BY <1>0, <2>3 DEF Crash
  <2>4. QED
    BY <1>5, <2>1, <2>2, <2>3 DEF FaultCase
<1>6. QED
  BY <1>1, <1>2, <1>3, <1>4, <1>5, NextCases

(* A step of the merge itself.                                             *)
LEMMA MergeSelf ==
    ASSUME IInv, NEW p \in Procs, Merge(p)
    PROVE  MergeAt(p)'
<1>0. /\ MergeAt(p) /\ pc \in [Procs -> PcState]
      /\ Len(entries) \in Nat /\ pending_head \in Nat /\ pending_tail \in Nat
      /\ wm_tail \in [Procs -> Nat] /\ wm_tail_n \in [Procs -> Nat] /\ blk \in [Procs -> Nat]
      /\ root \in [Procs -> SUBSET Entry] /\ new_root \in [Procs -> SUBSET Entry]
      /\ got \in [Procs -> SUBSET Entry] /\ consumed \in [Procs -> SUBSET Nat]
      /\ flush \in [Procs -> BOOLEAN]
      /\ entries \in Seq(Seq(Entry))
  BY DEF IInv, MergeInv, TypeOK
<1> USE DEF Goto
<1>1. CASE MergeMeta(p)
  <2>1. CASE pending_head = Invalid
    BY <1>0, <1>1, <2>1 DEF MergeMeta, MergeAt, DrainingPc
  <2>2. CASE pending_head # Invalid
    BY <1>0, <1>1, <2>2 DEF MergeMeta, MergeAt, DrainingPc, listVars, treeVars
  <2>3. QED
    BY <2>1, <2>2
<1>2. CASE MergeWatermark(p)
  <2>1. pending_head <= pending_tail
    BY <1>0, <1>2 DEF MergeWatermark, MergeAt, DrainingPc, IInv, ListInv
  <2>2. QED
    BY <1>0, <1>2, <2>1 DEF MergeWatermark, MergeAt, DrainingPc, listVars, treeVars
<1>3. CASE MergeWatermarkN(p)
  <2>1. /\ pc[p] = "wm_n" /\ pc'[p] = "collect"
        /\ wm_tail_n'[p] = Len(entries[wm_tail[p]])
        /\ UNCHANGED <<pending_head, pending_tail, entries, base, runs, root,
                       wm_tail, blk, got,
                       consumed>>
    BY <1>0, <1>3 DEF MergeWatermarkN, listVars, treeVars
  <2>2. /\ pending_head # Invalid /\ root[p] = base
        /\ wm_tail[p] \in pending_head .. pending_tail /\ blk[p] = pending_head
    BY <1>0, <2>1 DEF MergeAt, DrainingPc
  <2>3. consumed[p] = {}
    BY <2>1 DEF IInv, LocalsInv, HoldingPc
  <2>4. pending_head .. blk[p] - 1 = {} /\ blk[p] \in pending_head .. wm_tail[p]
    BY <1>0, <2>2
  <2>5. Len(entries[wm_tail[p]]) <= Len(entries[wm_tail[p]])
    <3>1. entries[wm_tail[p]] \in Seq(Entry)
      BY <2>1, MergeFacts DEF DrainingPc
    <3>2. QED
      BY <3>1
  <2>6. QED
    BY <2>1, <2>2, <2>3, <2>4, <2>5 DEF MergeAt, DrainingPc
<1>4. CASE MergeCollect(p)
  <2>1. /\ pc[p] = "collect"
        /\ got'[p] = got[p] \cup Elems(Consumes(p))
        /\ consumed'[p] = consumed[p] \cup Drained(p)
        /\ UNCHANGED <<pending_head, pending_tail, entries, base, runs, root, flush,
                       wm_tail,
                       wm_tail_n, new_root>>
    BY <1>0, <1>4 DEF MergeCollect, listVars, treeVars
  <2>2. /\ pending_head # Invalid /\ root[p] = base
        /\ wm_tail[p] \in pending_head .. pending_tail
        /\ wm_tail_n[p] <= Len(entries[wm_tail[p]])
        /\ blk[p] \in pending_head .. wm_tail[p]
        /\ consumed[p] = pending_head .. blk[p] - 1
        /\ \A b \in pending_head .. blk[p] - 1 : PageEntries(b) \subseteq got[p]
    BY <1>0, <2>1 DEF MergeAt, DrainingPc
  <2>3. /\ pending_head \in 1 .. Len(entries) /\ pending_tail = Len(entries)
        /\ entries[wm_tail[p]] \in Seq(Entry)
        /\ next_page[blk[p]] = IF blk[p] = Len(entries) THEN Invalid ELSE blk[p] + 1
    BY <2>1, MergeFacts DEF DrainingPc
  <2>4. CASE blk[p] = wm_tail[p]
    <3>1. pc'[p] = "build"
      BY <1>0, <1>4, <2>4 DEF MergeCollect
    <3>2. consumed'[p] = pending_head .. wm_tail[p] - 1
      BY <2>1, <2>2, <2>4 DEF Drained
    <3>3. \A b \in consumed'[p] : PageEntries(b)' \subseteq got'[p]
      BY <2>1, <2>2, <2>4, <3>2 DEF PageEntries
    <3>4. \A i \in 1 .. wm_tail_n[p] : entries[wm_tail[p]][i] \in Elems(Consumes(p))
      <4> DEFINE t == entries[wm_tail[p]]
      <4>1. Len(t) \in Nat /\ wm_tail_n[p] \in 0 .. Len(t)
        BY <1>0, <2>2, <2>3
      <4>2. Min2(Len(t), wm_tail_n[p]) = wm_tail_n[p]
        BY <4>1 DEF Min2
      <4>3. Consumes(p) = SubSeq(t, 1, wm_tail_n[p])
        BY <2>4, <4>2 DEF Consumes
      <4>4. /\ SubSeq(t, 1, wm_tail_n[p]) \in Seq(Entry)
            /\ Len(SubSeq(t, 1, wm_tail_n[p])) = wm_tail_n[p]
            /\ \A i \in 1 .. wm_tail_n[p] : SubSeq(t, 1, wm_tail_n[p])[i] = t[i]
        BY <2>3, <4>1, ElemsCut
      <4>5. DOMAIN Consumes(p) = 1 .. wm_tail_n[p]
        BY <4>3, <4>4, LenProperties
      <4>6. QED
        BY <4>3, <4>4, <4>5 DEF Elems
    <3>5. \A i \in 1 .. wm_tail_n'[p] : entries'[wm_tail'[p]][i] \in got'[p]
      BY <2>1, <3>4
    <3>6. QED
      BY <2>1, <2>2, <3>1, <3>2, <3>3, <3>5 DEF MergeAt, DrainingPc
  <2>5. CASE blk[p] # wm_tail[p]
    <3>1. /\ blk[p] # Len(entries) /\ blk[p] + 1 # Invalid
          /\ blk[p] + 1 \in pending_head .. wm_tail[p]
          /\ blk[p] \in Nat
      BY <1>0, <2>2, <2>3, <2>5 DEF Invalid
    <3>2. next_page[blk[p]] = blk[p] + 1
      BY <2>3, <3>1
    <3>3. pc'[p] = "collect" /\ blk'[p] = blk[p] + 1
      BY <1>0, <1>4, <2>5, <3>1, <3>2 DEF MergeCollect
    <3>4. consumed'[p] = (pending_head .. blk[p] - 1) \cup {blk[p]}
      BY <2>1, <2>2, <2>5 DEF Drained
    <3>5. /\ (pending_head .. blk[p] - 1) \cup {blk[p]} = pending_head .. blk[p]
          /\ blk[p] + 1 - 1 = blk[p]
      BY <1>0, <2>2, <3>1
    <3>6. Elems(Consumes(p)) = PageEntries(blk[p])
      BY <2>5 DEF Consumes, PageEntries
    <3>7. \A b \in pending_head .. blk[p] : PageEntries(b) \subseteq got'[p]
      BY <2>1, <2>2, <3>5, <3>6
    <3>8. \A b \in pending_head' .. blk'[p] - 1 : PageEntries(b)' \subseteq got'[p]
      BY <2>1, <3>3, <3>5, <3>7 DEF PageEntries
    <3>9. consumed'[p] = pending_head' .. blk'[p] - 1
      BY <2>1, <3>3, <3>4, <3>5
    <3>10. QED
      BY <2>1, <2>2, <3>1, <3>3, <3>8, <3>9 DEF MergeAt, DrainingPc
  <2>6. QED
    BY <2>4, <2>5
<1>5. CASE MergeBuild(p)
  <2>1. /\ pc[p] = "build" /\ pc'[p] = (IF Flushing(p) THEN "run" ELSE "finalize")
        /\ new_root'[p] = IF Flushing(p) THEN root[p] ELSE base \cup got[p]
        /\ UNCHANGED <<pending_head, pending_tail, entries, base, runs, root, flush,
                       wm_tail,
                       wm_tail_n, blk, got, consumed>>
    BY <1>0, <1>5 DEF MergeBuild, Folded, listVars, treeVars
  <2>2. QED
    BY <1>0, <2>1 DEF MergeAt, DrainingPc, Flushing, PageEntries
<1>6. CASE MergeAppendRun(p)
  <2>1. /\ pc[p] = "run" /\ pc'[p] = "finalize" /\ runs' = runs \cup got[p]
        /\ UNCHANGED <<pending_head, pending_tail, entries, base, root, flush, wm_tail,
                       wm_tail_n, blk, got, consumed, new_root>>
    BY <1>0, <1>6 DEF MergeAppendRun, listVars, mergeVars
  <2>2. QED
    BY <1>0, <2>1 DEF MergeAt, DrainingPc, Flushing, PageEntries
<1>7. CASE FinalizeMerge(p)
  BY <1>0, <1>7 DEF FinalizeMerge, MergeAt, DrainingPc
<1>8. CASE FreeConsumed(p)
  <2>1. /\ pc[p] = "free" /\ pc'[p] \in {"free_tail", "merged", "set_roots"}
        /\ UNCHANGED <<base, new_root>>
    BY <1>0, <1>8 DEF FreeConsumed, treeVars, mergeVars
  <2>2. QED
    BY <1>0, <2>1 DEF MergeAt, DrainingPc
<1>9. CASE FreeWatermarkTail(p)
  <2>1. /\ pc[p] = "free_tail" /\ pc'[p] \in {"merged", "set_roots"}
        /\ UNCHANGED <<base, new_root>>
    BY <1>0, <1>9 DEF FreeWatermarkTail, treeVars, mergeVars
  <2>2. QED
    BY <1>0, <2>1 DEF MergeAt, DrainingPc
<1>10. CASE SetRoots(p)
  BY <1>0, <1>10 DEF SetRoots, MergeAt, DrainingPc
<1>11. QED
  BY <1>1, <1>2, <1>3, <1>4, <1>5, <1>6, <1>7, <1>8, <1>9, <1>10 DEF Merge

(* No other step disturbs a merge: whoever changes the trees holds the     *)
(* merge lock.                                                             *)
LEMMA MergeStep == ASSUME IInv, Next PROVE MergeInv'
<1>0. /\ MergeInv /\ LockInv /\ pc \in [Procs -> PcState] /\ merge_lock \in Procs \cup {None}
      /\ Vacuum \in Procs /\ Inserters \subseteq Procs
      /\ MergingPc \subseteq LockedPc
  BY MergingLocked DEF IInv, TypeOK, Procs
<1>1. ASSUME NEW q \in Procs, pc'[q] \notin MergingPc
      PROVE  MergeAt(q)'
  BY <1>1 DEF MergeAt, MergingPc, DrainingPc
<1>2. ASSUME NEW q \in Procs, pc'[q] = pc[q],
             UNCHANGED <<pending_head, pending_tail, entries, base, runs>>,
             UNCHANGED <<root[q], flush[q], wm_tail[q], wm_tail_n[q], blk[q], got[q],
                         consumed[q], new_root[q]>>
      PROVE  MergeAt(q)'
  BY <1>0, <1>2 DEF MergeInv, MergeAt, Flushing, PageEntries
<1>3. ASSUME NEW p \in Inserters, AppendPage(p)
      PROVE  MergeInv'
  BY <1>3, MergeAppend DEF MergeInv
<1>4. ASSUME NEW p \in Procs, Merge(p)
      PROVE  MergeInv'
  <2>1. pc[p] \in MergePc /\ \E l \in MergePc : pc' = [pc EXCEPT ![p] = l]
    BY <1>4, MergeFrame
  <2>2. merge_lock = p
    BY <1>0, <2>1 DEF LockInv, LockedPc
  <2>3. \A q \in Procs : q # p => pc'[q] = pc[q] /\ pc[q] \notin MergingPc
    BY <1>0, <2>1, <2>2 DEF LockInv
  <2>4. \A q \in Procs : MergeAt(q)'
    BY <1>1, <1>4, <2>3, MergeSelf
  <2>5. QED
    BY <2>4 DEF MergeInv
<1>5. ASSUME NEW p \in Inserters, InsertCase(p)
      PROVE  MergeInv'
  <2>1. UNCHANGED <<pending_head, pending_tail, entries, base, runs>>
    BY <1>5 DEF InsertCase, AmInsert, SkipMerge, TryLock, InsertMergeDone, EndXact,
       listVars, treeVars
  <2>2. pc'[p] \notin MergingPc /\ \A q \in Procs : q # p => pc'[q] = pc[q]
    BY <1>0, <1>5 DEF InsertCase, AmInsert, SkipMerge, TryLock, InsertMergeDone, EndXact,
       Goto, MergingPc, DrainingPc
  <2>3. ASSUME NEW q \in Procs, q # p
        PROVE  UNCHANGED <<root[q], flush[q], wm_tail[q], wm_tail_n[q], blk[q], got[q],
                           consumed[q], new_root[q]>>
    <3>1. CASE InsertMergeDone(p)
      BY <2>3, <3>1 DEF InsertMergeDone, ClearMerge, IInv, TypeOK
    <3>2. CASE ~InsertMergeDone(p)
      BY <1>5, <3>2 DEF InsertCase, AmInsert, SkipMerge, TryLock, EndXact, mergeVars
    <3>3. QED
      BY <3>1, <3>2
  <2>4. QED
    BY <1>1, <1>2, <2>1, <2>2, <2>3 DEF MergeInv
<1>6. CASE VacuumCase
  <2>1. CASE VacuumStart \/ MergeLock \/ VacuumMergeDone \/ StripDone \/ Reap
    <3>1. UNCHANGED <<pending_head, pending_tail, entries, base, runs>>
      BY <2>1 DEF VacuumStart, MergeLock, VacuumMergeDone, StripDone, Reap, listVars,
         treeVars
    <3>2. pc'[Vacuum] \notin MergingPc /\ \A q \in Procs : q # Vacuum => pc'[q] = pc[q]
      BY <1>0, <2>1 DEF VacuumStart, MergeLock, VacuumMergeDone, StripDone, Reap, Goto,
         MergingPc, DrainingPc
    <3>3. ASSUME NEW q \in Procs, q # Vacuum
          PROVE  UNCHANGED <<root[q], flush[q], wm_tail[q], wm_tail_n[q], blk[q],
                             got[q],
                             consumed[q], new_root[q]>>
      <4>1. CASE VacuumMergeDone
        BY <3>3, <4>1 DEF VacuumMergeDone, ClearMerge, IInv, TypeOK
      <4>2. CASE ~VacuumMergeDone
        BY <2>1, <4>2 DEF VacuumStart, MergeLock, StripDone, Reap, mergeVars
      <4>3. QED
        BY <4>1, <4>2
    <3>4. QED
      BY <1>1, <1>2, <3>1, <3>2, <3>3 DEF MergeInv
  <2>2. CASE Compact \/ \E t \in Trigrams : StripPosting(t)
    <3>1. pc[Vacuum] \in {"strip", "compact"} /\ pc'[Vacuum] \in {"strip", "idle"}
          /\ \A q \in Procs : q # Vacuum => pc'[q] = pc[q]
      BY <1>0, <2>2 DEF Compact, StripPosting, Goto
    <3>2. merge_lock = Vacuum
      BY <1>0, <3>1 DEF LockInv, LockedPc
    <3>3. \A q \in Procs : pc'[q] \notin MergingPc
      <4>1. pc'[Vacuum] \notin MergingPc
        BY <3>1 DEF MergingPc, DrainingPc
      <4>2. \A q \in Procs : q # Vacuum => pc[q] \notin MergingPc
        BY <1>0, <3>2 DEF LockInv
      <4>3. QED
        BY <3>1, <4>1, <4>2
    <3>4. QED
      BY <1>1, <3>3 DEF MergeInv
  <2>3. QED
    BY <1>6, <2>1, <2>2 DEF VacuumCase
<1>7. ASSUME NEW s \in Scanners, ScanCase(s)
      PROVE  MergeInv'
  <2>1. /\ UNCHANGED <<pc, pending_head, pending_tail, entries, base, runs>>
        /\ UNCHANGED <<root, flush, wm_tail, wm_tail_n, blk, got, consumed, new_root>>
    BY <1>7 DEF ScanCase, ScanStep, ScanStart, ScanOverlay, ScanOverlayDone, ScanLookup,
       ScanEnd, listVars, treeVars, mergeVars
  <2>2. QED
    BY <1>2, <2>1 DEF MergeInv
<1>8. CASE FaultCase
  <2>1. ASSUME NEW p \in Procs, Cancel(p)
        PROVE  MergeInv'
    <3>1. UNCHANGED <<pending_head, pending_tail, entries, base, runs>>
      BY <2>1 DEF Cancel, listVars, treeVars
    <3>2. pc'[p] = "idle" /\ \A q \in Procs : q # p => pc'[q] = pc[q]
      BY <1>0, <2>1 DEF Cancel, Goto
    <3>3. "idle" \notin MergingPc
      BY DEF MergingPc, DrainingPc
    <3>4. ASSUME NEW q \in Procs, q # p
          PROVE  UNCHANGED <<root[q], flush[q], wm_tail[q], wm_tail_n[q], blk[q],
                             got[q],
                             consumed[q], new_root[q]>>
      BY <2>1, <3>4 DEF Cancel, ClearMerge, IInv, TypeOK
    <3>5. QED
      BY <1>1, <1>2, <3>1, <3>2, <3>3, <3>4 DEF MergeInv
  <2>2. CASE \E r \in Tids : Die(r)
    <3>1. /\ UNCHANGED <<pc, pending_head, pending_tail, entries, base, runs>>
          /\ UNCHANGED <<root, flush, wm_tail, wm_tail_n, blk, got, consumed, new_root>>
      BY <2>2 DEF Die, listVars, treeVars, mergeVars
    <3>2. QED
      BY <1>2, <3>1 DEF MergeInv
  <2>3. CASE Crash
    <3>1. \A q \in Procs : pc'[q] = "idle"
      BY <2>3 DEF Crash
    <3>2. "idle" \notin MergingPc
      BY DEF MergingPc, DrainingPc
    <3>3. QED
      BY <1>1, <3>1, <3>2 DEF MergeInv
  <2>4. QED
    BY <1>8, <2>1, <2>2, <2>3 DEF FaultCase
<1>9. QED
  BY <1>3, <1>4, <1>5, <1>6, <1>7, <1>8, NextCases

-----------------------------------------------------------------------------
(* A block that has left the list never comes back to it.                  *)
LEMMA UnlinkedGrows ==
    ASSUME IInv, Next
    PROVE  Unlinked \subseteq Unlinked' /\ Len(entries') \in Nat /\ Len(entries) <= Len(entries')
<1>0. /\ Len(entries) \in Nat /\ pending_head \in Nat /\ pending_tail \in Nat
      /\ pending_head # Invalid => pending_tail = Len(entries)
  BY DEF IInv, TypeOK, ListInv
<1>1. ASSUME NEW p \in Inserters, AppendPage(p)
      PROVE  Unlinked \subseteq Unlinked' /\ Len(entries') \in Nat /\ Len(entries) <= Len(entries')
  <2>1. /\ Len(entries') \in {Len(entries), Len(entries) + 1}
        /\ pending_tail' = Len(entries')
        /\ pending_head # Invalid => pending_head' = pending_head
        /\ pending_head = Invalid => pending_head' = Len(entries) + 1
        /\ pending_head' \in 1 .. Len(entries')
    BY <1>1, AppendList
  <2>2. Len(entries') \in Nat /\ Len(entries) <= Len(entries') /\ pending_head' # Invalid
    BY <1>0, <2>1 DEF Invalid
  <2>3. CASE pending_head = Invalid
    BY <1>0, <2>1, <2>2, <2>3 DEF Unlinked, ListBlocks
  <2>4. CASE pending_head # Invalid
    BY <1>0, <2>1, <2>2, <2>4 DEF Unlinked, ListBlocks
  <2>5. QED
    BY <2>2, <2>3, <2>4
<1>2. ASSUME NEW p \in Procs, FinalizeMerge(p)
      PROVE  Unlinked \subseteq Unlinked' /\ Len(entries') \in Nat /\ Len(entries) <= Len(entries')
  <2>1. /\ pending_head \in 1 .. Len(entries) /\ pending_tail = Len(entries)
        /\ wm_tail[p] \in pending_head .. Len(entries)
        /\ Len(entries') = Len(entries)
        /\ \/ pending_head' = Invalid
           \/ pending_head' = wm_tail[p] /\ pending_tail' = pending_tail
    BY <1>2, FinalizeList
  <2>2. ListBlocks' \subseteq ListBlocks
    BY <1>0, <2>1 DEF ListBlocks, Invalid
  <2>3. QED
    BY <1>0, <2>1, <2>2 DEF Unlinked
<1>3. CASE UNCHANGED listVars
  BY <1>0, <1>3 DEF Unlinked, ListBlocks, listVars
<1>4. QED
  BY <1>1, <1>2, <1>3, ListFrame

(* The truncation unlinks what it is about to hand to the free log.        *)
LEMMA FinalizeUnlinks ==
    ASSUME IInv, NEW p \in Procs, FinalizeMerge(p)
    PROVE  /\ consumed[p] \subseteq Unlinked'
           /\ ~Rewind(p) => wm_tail[p] \in Unlinked'
<1>0. Len(entries) \in Nat /\ pc[p] = "finalize"
  BY DEF IInv, TypeOK, FinalizeMerge
<1>1. /\ pending_head \in 1 .. Len(entries) /\ pending_tail = Len(entries)
      /\ wm_tail[p] \in pending_head .. Len(entries)
      /\ Len(entries') = Len(entries)
      /\ Rewind(p) => pending_head' = wm_tail[p] /\ pending_tail' = pending_tail
      /\ ~Rewind(p) => pending_head' = Invalid
  BY FinalizeList
<1>2. consumed[p] = pending_head .. wm_tail[p] - 1
  BY <1>0 DEF IInv, MergeInv, MergeAt
<1>3. CASE Rewind(p)
  <2>1. ListBlocks' = wm_tail[p] .. Len(entries)
    BY <1>0, <1>1, <1>3 DEF ListBlocks, Invalid
  <2>2. QED
    BY <1>0, <1>1, <1>2, <1>3, <2>1 DEF Unlinked
<1>4. CASE ~Rewind(p)
  <2>1. ListBlocks' = {}
    BY <1>1, <1>4 DEF ListBlocks
  <2>2. QED
    BY <1>0, <1>1, <1>2, <2>1 DEF Unlinked
<1>5. QED
  BY <1>3, <1>4

(* Who touches the free log, and the locals of a merge that is about to.   *)
LEMMA FreeFrame ==
    ASSUME IInv, Next
    PROVE  \/ \E p \in Procs : FinalizeMerge(p) \/ FreeConsumed(p) \/ FreeWatermarkTail(p)
           \/ /\ freed' = freed
              /\ \A q \in Procs : pc'[q] \in {"free", "free_tail"} =>
                    /\ pc'[q] = pc[q]
                    /\ UNCHANGED <<consumed[q], wm_tail[q], free_wm_tail[q]>>
<1> DEFINE Quiet == /\ freed' = freed
                    /\ \A q \in Procs : pc'[q] \in {"free", "free_tail"} =>
                          /\ pc'[q] = pc[q]
                          /\ UNCHANGED <<consumed[q], wm_tail[q], free_wm_tail[q]>>
<1>0. /\ pc \in [Procs -> PcState] /\ Vacuum \in Procs /\ Inserters \subseteq Procs
      /\ consumed \in [Procs -> SUBSET Nat] /\ wm_tail \in [Procs -> Nat]
      /\ free_wm_tail \in [Procs -> BOOLEAN]
  BY DEF IInv, TypeOK, Procs
<1>1. ASSUME NEW p \in Inserters, AppendPage(p) \/ InsertCase(p)
      PROVE  Quiet
  <2>1. CASE AppendPage(p)
    BY <1>0, <2>1 DEF AppendPage, mergeVars, Goto
  <2>2. CASE \E r \in Tids, T \in Values : AmInsert(p, r, T)
    BY <1>0, <2>2 DEF AmInsert, mergeVars, Goto
  <2>3. CASE SkipMerge(p) \/ TryLock(p)
    BY <1>0, <2>3 DEF SkipMerge, TryLock, mergeVars, Goto
  <2>4. CASE InsertMergeDone(p)
    BY <1>0, <2>4 DEF InsertMergeDone, ClearMerge, Goto
  <2>5. CASE \E o \in {"live", "dead"} : EndXact(p, o)
    BY <1>0, <2>5 DEF EndXact, mergeVars, Goto
  <2>6. QED
    BY <1>1, <2>1, <2>2, <2>3, <2>4, <2>5 DEF InsertCase
<1>2. ASSUME NEW p \in Procs, Merge(p)
      PROVE  Quiet \/ FinalizeMerge(p) \/ FreeConsumed(p) \/ FreeWatermarkTail(p)
  <2>1. CASE MergeMeta(p) \/ MergeWatermark(p) \/ MergeWatermarkN(p) \/ MergeBuild(p)
    BY <1>0, <2>1 DEF MergeMeta, MergeWatermark, MergeWatermarkN, MergeBuild, Goto
  <2>2. CASE MergeAppendRun(p) \/ SetRoots(p)
    BY <1>0, <2>2 DEF MergeAppendRun, SetRoots, mergeVars, Goto
  <2>3. CASE MergeCollect(p)
    <3>1. \E l \in {"build", "collect"} : pc' = [pc EXCEPT ![p] = l]
      BY <2>3, Zenon DEF MergeCollect, Goto
    <3>2. \A q \in Procs : q # p => consumed'[q] = consumed[q]
      BY <1>0, <2>3 DEF MergeCollect
    <3>3. UNCHANGED <<freed, wm_tail, free_wm_tail>>
      BY <2>3 DEF MergeCollect
    <3>4. QED
      BY <1>0, <3>1, <3>2, <3>3
  <2>4. QED
    BY <1>2, <2>1, <2>2, <2>3 DEF Merge
<1>3. ASSUME VacuumCase
      PROVE  Quiet
  <2>1. CASE VacuumStart \/ MergeLock \/ StripDone \/ Reap \/ Compact
    BY <1>0, <2>1 DEF VacuumStart, MergeLock, StripDone, Reap, Compact, mergeVars, Goto
  <2>2. CASE VacuumMergeDone
    BY <1>0, <2>2 DEF VacuumMergeDone, ClearMerge, Goto
  <2>3. CASE \E t \in Trigrams : StripPosting(t)
    BY <1>0, <2>3 DEF StripPosting, mergeVars, Goto
  <2>4. QED
    BY <1>3, <2>1, <2>2, <2>3 DEF VacuumCase
<1>4. ASSUME NEW s \in Scanners, ScanCase(s)
      PROVE  Quiet
  BY <1>0, <1>4 DEF ScanCase, ScanStep, ScanStart, ScanOverlay, ScanOverlayDone,
     ScanLookup,
     ScanEnd, mergeVars
<1>5. ASSUME FaultCase
      PROVE  Quiet
  <2>1. ASSUME NEW p \in Procs, Cancel(p)
        PROVE  Quiet
    <3>1. /\ freed' = freed /\ pc' = [pc EXCEPT ![p] = "idle"]
          /\ consumed' = [consumed EXCEPT ![p] = {}]
          /\ wm_tail' = [wm_tail EXCEPT ![p] = Invalid]
          /\ free_wm_tail' = [free_wm_tail EXCEPT ![p] = FALSE]
      BY <2>1 DEF Cancel, ClearMerge, Goto
    <3>2. QED
      BY <1>0, <3>1
  <2>2. CASE \E r \in Tids : Die(r)
    BY <1>0, <2>2 DEF Die, mergeVars
  <2>3. CASE Crash
    BY <1>0, <2>3 DEF Crash
  <2>4. QED
    BY <1>5, <2>1, <2>2, <2>3 DEF FaultCase
<1> HIDE DEF Quiet
<1>6. Quiet \/ \E p \in Procs : FinalizeMerge(p) \/ FreeConsumed(p) \/ FreeWatermarkTail(p)
  BY <1>1, <1>2, <1>3, <1>4, <1>5, NextCases
<1>7. QED
  BY <1>6 DEF Quiet

(* Only blocks that have left the list go to the free log.                 *)
LEMMA FreeStep == ASSUME IInv, Next PROVE FreeInv'
<1>0. /\ FreeInv /\ LockInv /\ pc \in [Procs -> PcState] /\ merge_lock \in Procs \cup {None}
      /\ consumed \in [Procs -> SUBSET Nat] /\ wm_tail \in [Procs -> Nat]
      /\ free_wm_tail \in [Procs -> BOOLEAN]
      /\ Unlinked \subseteq Unlinked'
  BY UnlinkedGrows DEF IInv, TypeOK
<1>1. ASSUME NEW p \in Procs, FinalizeMerge(p) \/ FreeConsumed(p) \/ FreeWatermarkTail(p)
      PROVE  FreeInv'
  <2>1. pc[p] \in LockedPc
    BY <1>1 DEF FinalizeMerge, FreeConsumed, FreeWatermarkTail, LockedPc, MergePc
  <2>2. \A q \in Procs : q # p => pc[q] \notin LockedPc
    BY <1>0, <2>1 DEF LockInv
  <2>3. \A q \in Procs : q # p => pc'[q] = pc[q]
    BY <1>0, <1>1 DEF FinalizeMerge, FreeConsumed, FreeWatermarkTail, Goto
  <2>4. \A q \in Procs : q # p => pc'[q] \notin {"free", "free_tail"}
    BY <2>2, <2>3 DEF LockedPc, MergePc
  <2>5. CASE FinalizeMerge(p)
    <3>1. /\ freed' = freed /\ pc'[p] = "free" /\ consumed' = consumed /\ wm_tail' = wm_tail
          /\ free_wm_tail'[p] = ~Rewind(p)
      BY <1>0, <2>5 DEF FinalizeMerge, Goto
    <3>2. consumed[p] \subseteq Unlinked' /\ (~Rewind(p) => wm_tail[p] \in Unlinked')
      BY <2>5, FinalizeUnlinks
    <3>3. QED
      BY <1>0, <2>4, <3>1, <3>2 DEF FreeInv
  <2>6. CASE FreeConsumed(p)
    <3>1. /\ freed' = freed \cup consumed[p] /\ pc[p] = "free"
          /\ pc'[p] # "free" /\ (pc'[p] = "free_tail" => free_wm_tail[p])
          /\ wm_tail' = wm_tail
      BY <1>0, <2>6 DEF FreeConsumed, Goto, mergeVars
    <3>2. consumed[p] \subseteq Unlinked /\ (free_wm_tail[p] => wm_tail[p] \in Unlinked)
      BY <1>0, <3>1 DEF FreeInv
    <3>3. QED
      BY <1>0, <2>4, <3>1, <3>2 DEF FreeInv
  <2>7. CASE FreeWatermarkTail(p)
    <3>1. /\ freed' = freed \cup {wm_tail[p]} /\ pc[p] = "free_tail"
          /\ pc'[p] \notin {"free", "free_tail"}
      BY <1>0, <2>7 DEF FreeWatermarkTail, Goto
    <3>2. wm_tail[p] \in Unlinked
      BY <1>0, <3>1 DEF FreeInv
    <3>3. QED
      BY <1>0, <2>4, <3>1, <3>2 DEF FreeInv
  <2>8. QED
    BY <1>1, <2>5, <2>6, <2>7
<1>2. CASE /\ freed' = freed
           /\ \A q \in Procs : pc'[q] \in {"free", "free_tail"} =>
                 /\ pc'[q] = pc[q]
                 /\ UNCHANGED <<consumed[q], wm_tail[q], free_wm_tail[q]>>
  <2>1. ASSUME NEW q \in Procs, pc'[q] = "free"
        PROVE  /\ consumed'[q] \subseteq Unlinked'
               /\ free_wm_tail'[q] => wm_tail'[q] \in Unlinked'
    BY <1>0, <1>2, <2>1 DEF FreeInv
  <2>2. ASSUME NEW q \in Procs, pc'[q] = "free_tail"
        PROVE  wm_tail'[q] \in Unlinked'
    BY <1>0, <1>2, <2>2 DEF FreeInv
  <2>3. freed' \subseteq Unlinked'
    BY <1>0, <1>2 DEF FreeInv
  <2>4. QED
    BY <2>1, <2>2, <2>3 DEF FreeInv
<1>3. QED
  BY <1>1, <1>2, FreeFrame

(* A scan stands on a page that was on the list at some time.              *)
LEMMA ScanStepInv == ASSUME IInv, Next PROVE ScanInv'
<1>0. /\ ScanInv /\ scan_blk \in [Scanners -> Nat] /\ Len(entries) \in Nat
      /\ Len(entries') \in Nat /\ Len(entries) <= Len(entries')
      /\ pending_head \in 0 .. Len(entries)
  <2>1. pending_head \in 0 .. Len(entries)
    BY DEF IInv, TypeOK, ListInv, Invalid
  <2>2. Len(entries') \in Nat /\ Len(entries) <= Len(entries')
    BY UnlinkedGrows
  <2>3. QED
    BY <2>1, <2>2 DEF IInv, TypeOK
<1>1. \A n \in 0 .. Len(entries) : n \in 0 .. Len(entries')
  BY <1>0
<1>2. ASSUME scan_blk' = scan_blk
      PROVE  ScanInv'
  BY <1>0, <1>1, <1>2 DEF ScanInv
<1>3. ASSUME NEW s \in Scanners, ScanCase(s)
      PROVE  ScanInv'
  <2>1. CASE \E T \in Values, q \in QueryModes : ScanStart(s, T, q)
    <3>1. scan_blk' = [scan_blk EXCEPT ![s] = pending_head]
      BY <2>1 DEF ScanStart
    <3>2. QED
      BY <1>0, <1>1, <3>1 DEF ScanInv
  <2>2. CASE ScanOverlay(s)
    <3>1. scan_blk' = [scan_blk EXCEPT ![s] = next_page[scan_blk[s]]] /\ scan_blk[s] # Invalid
      BY <2>2 DEF ScanOverlay
    <3>2. scan_blk[s] \in 1 .. Len(entries)
      BY <1>0, <3>1 DEF ScanInv, Invalid
    <3>3. next_page[scan_blk[s]] \in 0 .. Len(entries)
      BY <3>2 DEF IInv, ListInv
    <3>4. QED
      BY <1>0, <1>1, <3>1, <3>3 DEF ScanInv
  <2>3. CASE ScanOverlayDone(s) \/ ScanEnd(s) \/ \E t \in Trigrams : ScanLookup(s, t)
    BY <1>2, <2>3 DEF ScanOverlayDone, ScanEnd, ScanLookup
  <2>4. QED
    BY <1>3, <2>1, <2>2, <2>3 DEF ScanCase, ScanStep
<1>4. ASSUME NEW p \in Inserters, AppendPage(p) \/ InsertCase(p)
      PROVE  ScanInv'
  BY <1>2, <1>4 DEF AppendPage, InsertCase, AmInsert, SkipMerge, TryLock,
     InsertMergeDone, EndXact,
     scanVars
<1>5. ASSUME NEW p \in Procs, Merge(p)
      PROVE  ScanInv'
  BY <1>2, <1>5, MergeFrame
<1>6. CASE VacuumCase
  BY <1>2, <1>6 DEF VacuumCase, VacuumStart, MergeLock, VacuumMergeDone, StripDone,
     Reap, Compact,
     StripPosting, scanVars
<1>7. CASE FaultCase
  <2>1. CASE (\E p \in Procs : Cancel(p)) \/ \E r \in Tids : Die(r)
    BY <1>2, <2>1 DEF Cancel, Die, scanVars
  <2>2. CASE Crash
    BY <1>0, <2>2 DEF Crash, ScanInv, Invalid
  <2>3. QED
    BY <1>7, <2>1, <2>2 DEF FaultCase
<1>8. QED
  BY <1>3, <1>4, <1>5, <1>6, <1>7, NextCases

-----------------------------------------------------------------------------
(* No entry leaves the index except the ones VACUUM strips.                *)
LEMMA AppendKeeps ==
    ASSUME IInv, NEW p \in Inserters, AppendPage(p)
    PROVE  Pending \cup Elems(Put(p)) \subseteq Pending'
<1>0. /\ Len(entries) \in Nat /\ pending_head \in Nat /\ entries \in Seq(Seq(Entry))
      /\ pending_head # Invalid => pending_head \in 1 .. Len(entries) /\ pending_tail = Len(entries)
  BY DEF IInv, TypeOK, ListInv, Invalid
<1>1. /\ pending_tail' = Len(entries') /\ pending_head' \in 1 .. Len(entries')
      /\ Len(entries') \in {Len(entries), Len(entries) + 1}
      /\ pending_head # Invalid => pending_head' = pending_head
      /\ Elems(Put(p)) \subseteq Elems(entries'[pending_tail'])
  BY AppendList
<1>2. ListBlocks' = pending_head' .. Len(entries') /\ pending_tail' \in ListBlocks'
  BY <1>0, <1>1 DEF ListBlocks, Invalid
<1>3. ListBlocks \subseteq ListBlocks' /\ ListBlocks \subseteq 1 .. Len(entries)
  BY <1>0, <1>1, <1>2 DEF ListBlocks
<1>4. \A b \in 1 .. Len(entries) : PageEntries(b) \subseteq PageEntries(b)'
  <2> SUFFICES ASSUME NEW b \in 1 .. Len(entries)
               PROVE  PageEntries(b) \subseteq PageEntries(b)'
    OBVIOUS
  <2>1. /\ Len(entries[b]) <= Len(entries'[b])
        /\ \A i \in 1 .. Len(entries[b]) : entries'[b][i] = entries[b][i]
    BY AppendList
  <2>2. entries[b] \in Seq(Entry) /\ entries'[b] \in Seq(Entry)
    <3>1. TypeOK'
      BY TypeAppend
    <3>2. entries' \in Seq(Seq(Entry))
      BY <3>1 DEF TypeOK
    <3>3. b \in 1 .. Len(entries')
      BY <1>0, <1>1
    <3>4. QED
      BY <1>0, <3>2, <3>3
  <2>3. DOMAIN entries[b] = 1 .. Len(entries[b]) /\ DOMAIN entries'[b] = 1 .. Len(entries'[b])
        /\ Len(entries[b]) \in Nat /\ Len(entries'[b]) \in Nat
    BY <2>2, LenProperties
  <2>4. \A i \in 1 .. Len(entries[b]) : i \in 1 .. Len(entries'[b])
    BY <2>1, <2>3
  <2>5. QED
    BY <2>1, <2>3, <2>4 DEF PageEntries, Elems
<1>5. Pending \subseteq Pending'
  BY <1>3, <1>4 DEF Pending
<1>6. Elems(Put(p)) \subseteq Pending'
  BY <1>1, <1>2 DEF Pending, PageEntries
<1>7. QED
  BY <1>5, <1>6

LEMMA FinalizeKeeps ==
    ASSUME IInv, NEW p \in Procs, FinalizeMerge(p)
    PROVE  Indexed \subseteq Indexed'
<1>0. /\ pc[p] = "finalize" /\ Len(entries) \in Nat /\ entries \in Seq(Seq(Entry))
      /\ base' = new_root[p] /\ runs' = runs
  BY DEF IInv, TypeOK, FinalizeMerge
<1>1. /\ consumed[p] = pending_head .. wm_tail[p] - 1
      /\ \A b \in consumed[p] : PageEntries(b) \subseteq got[p]
      /\ \A i \in 1 .. wm_tail_n[p] : entries[wm_tail[p]][i] \in got[p]
      /\ base \subseteq base' /\ got[p] \subseteq base' \cup runs'
  BY <1>0 DEF IInv, MergeInv, MergeAt
<1>2. /\ pending_head \in 1 .. Len(entries) /\ pending_tail = Len(entries)
      /\ wm_tail[p] \in pending_head .. Len(entries)
      /\ \A b \in 1 .. Len(entries) : b # wm_tail[p] => entries'[b] = entries[b]
      /\ \A i \in 1 .. Len(entries[wm_tail[p]]) :
            \/ i \in 1 .. wm_tail_n[p]
            \/ entries[wm_tail[p]][i] \in Elems(Survivors(p))
  BY FinalizeList
<1>3. ASSUME NEW b \in pending_head .. Len(entries)
      PROVE  PageEntries(b) \subseteq Indexed'
  <2>1. CASE b < wm_tail[p]
    <3>1. b \in consumed[p]
      BY <1>0, <1>1, <1>2, <2>1
    <3>2. QED
      BY <1>1, <3>1 DEF Indexed
  <2>2. CASE b = wm_tail[p]
    <3>1. DOMAIN entries[b] = 1 .. Len(entries[b])
      <4>1. b \in 1 .. Len(entries)
        BY <1>0, <1>2
      <4>2. QED
        BY <1>0, <4>1, LenProperties
    <3>2. PageEntries(b) \subseteq got[p] \cup Elems(Survivors(p))
      BY <1>1, <1>2, <2>2, <3>1 DEF PageEntries, Elems
    <3>3. CASE Rewind(p)
      <4>1. /\ pending_head' = wm_tail[p] /\ pending_tail' = Len(entries)
            /\ entries'[wm_tail[p]] = Survivors(p)
        BY <1>2, <3>3, FinalizeList
      <4>2. wm_tail[p] \in ListBlocks'
        BY <1>0, <1>2, <4>1 DEF ListBlocks, Invalid
      <4>3. Elems(Survivors(p)) \subseteq Pending'
        BY <4>1, <4>2 DEF Pending, PageEntries
      <4>4. QED
        BY <1>1, <3>2, <4>3 DEF Indexed
    <3>4. CASE ~Rewind(p)
      <4>1. wm_tail_n[p] = Len(entries[wm_tail[p]])
        BY <3>4, FinalizeList
      <4>2. PageEntries(b) \subseteq got[p]
        BY <1>1, <2>2, <3>1, <4>1 DEF PageEntries, Elems
      <4>3. QED
        BY <1>1, <4>2 DEF Indexed
    <3>5. QED
      BY <3>3, <3>4
  <2>3. CASE b > wm_tail[p]
    <3>1. b \in 1 .. Len(entries) /\ b # wm_tail[p] /\ wm_tail[p] # Len(entries)
      BY <1>0, <1>2, <2>3
    <3>2. Rewind(p)
      BY <3>1, FinalizeList
    <3>3. pending_head' = wm_tail[p] /\ pending_tail' = Len(entries)
      BY <1>2, <3>2, FinalizeList
    <3>4. b \in ListBlocks'
      BY <1>0, <1>2, <2>3, <3>3 DEF ListBlocks, Invalid
    <3>5. PageEntries(b)' = PageEntries(b)
      BY <1>2, <3>1 DEF PageEntries
    <3>6. QED
      BY <3>4, <3>5 DEF Indexed, Pending
  <2>4. QED
    <3>1. b \in Nat /\ wm_tail[p] \in Nat
      BY <1>0, <1>2
    <3>2. QED
      BY <2>1, <2>2, <2>3, <3>1
<1>4. Pending \subseteq Indexed'
  BY <1>2, <1>3 DEF Pending, ListBlocks
<1>5. QED
  BY <1>0, <1>1, <1>4 DEF Indexed

LEMMA IndexedGrows ==
    ASSUME IInv, Next
    PROVE  Indexed \subseteq Indexed' \cup (Trigrams \X reap)
<1>1. ASSUME UNCHANGED listVars, base \subseteq base' \cup runs', runs \subseteq base' \cup runs'
      PROVE  Indexed \subseteq Indexed'
  <2>1. Pending' = Pending
    BY <1>1 DEF Pending, ListBlocks, PageEntries, listVars
  <2>2. QED
    BY <1>1, <2>1 DEF Indexed
<1>2. ASSUME NEW p \in Inserters, AppendPage(p)
      PROVE  Indexed \subseteq Indexed'
  <2>1. base' = base /\ runs' = runs
    BY <1>2 DEF AppendPage, treeVars
  <2>2. QED
    BY <1>2, <2>1, AppendKeeps DEF Indexed
<1>3. ASSUME NEW p \in Inserters, InsertCase(p)
      PROVE  Indexed \subseteq Indexed'
  BY <1>1, <1>3 DEF InsertCase, AmInsert, SkipMerge, TryLock, InsertMergeDone, EndXact,
     treeVars
<1>4. ASSUME NEW p \in Procs, Merge(p)
      PROVE  Indexed \subseteq Indexed'
  <2>1. CASE FinalizeMerge(p)
    BY <2>1, FinalizeKeeps
  <2>2. CASE MergeMeta(p) \/ MergeWatermark(p) \/ MergeWatermarkN(p) \/ MergeCollect(p)
             \/ MergeBuild(p) \/ FreeConsumed(p) \/ FreeWatermarkTail(p)
    BY <1>1, <2>2 DEF MergeMeta, MergeWatermark, MergeWatermarkN, MergeCollect,
       MergeBuild,
       FreeConsumed, FreeWatermarkTail, treeVars
  <2>3. CASE MergeAppendRun(p)
    BY <1>1, <2>3 DEF MergeAppendRun
  <2>4. CASE SetRoots(p)
    <3>1. new_root[p] = base
      BY <2>4 DEF IInv, MergeInv, MergeAt, SetRoots
    <3>2. QED
      BY <1>1, <2>4, <3>1 DEF SetRoots
  <2>5. QED
    BY <1>4, <2>1, <2>2, <2>3, <2>4 DEF Merge
<1>5. CASE VacuumCase
  <2>1. CASE VacuumStart \/ MergeLock \/ VacuumMergeDone \/ StripDone \/ Reap
    BY <1>1, <2>1 DEF VacuumStart, MergeLock, VacuumMergeDone, StripDone, Reap, treeVars
  <2>2. CASE Compact
    <3>1. UNCHANGED listVars /\ base \subseteq base' \cup runs' /\ runs \subseteq base' \cup runs'
      BY <2>2 DEF Compact, treeVars
    <3>2. QED
      BY <1>1, <3>1
  <2>3. CASE \E t \in Trigrams : StripPosting(t)
    <3>1. PICK t \in Trigrams : StripPosting(t)
      BY <2>3
    <3>2. /\ base \subseteq base' \cup ({t} \X reap) /\ runs \subseteq runs' \cup ({t} \X reap)
          /\ UNCHANGED listVars
      BY <3>1 DEF StripPosting
    <3>3. {t} \X reap \subseteq Trigrams \X reap
      OBVIOUS
    <3>4. Pending' = Pending
      BY <3>2 DEF Pending, ListBlocks, PageEntries, listVars
    <3>5. QED
      BY <3>2, <3>3, <3>4 DEF Indexed
  <2>4. QED
    BY <1>5, <2>1, <2>2, <2>3 DEF VacuumCase
<1>6. ASSUME NEW s \in Scanners, ScanCase(s)
      PROVE  Indexed \subseteq Indexed'
  BY <1>1, <1>6 DEF ScanCase, ScanStep, ScanStart, ScanOverlay, ScanOverlayDone,
     ScanLookup,
     ScanEnd, treeVars
<1>7. CASE FaultCase
  BY <1>1, <1>7 DEF FaultCase, Cancel, Die, Crash, treeVars
<1>8. QED
  BY <1>2, <1>3, <1>4, <1>5, <1>6, <1>7, NextCases

LEMMA NoLostStep == ASSUME IInv, Next PROVE NoLostEntry'
<1>0. /\ NoLostEntry /\ InsertInv /\ ReapInv
      /\ row \in [Tids -> RowState] /\ rowTrgs \in [Tids -> SUBSET Trigrams]
      /\ tid \in [Inserters -> Tids \cup {None}] /\ todo \in [Inserters -> Seq(Entry)]
      /\ None \notin Tids /\ Inserters \subseteq Procs
  BY SetsAssumption DEF IInv, TypeOK, Procs
(* An entry of a row that is not dead stays in the index. *)
<1>1. ASSUME NEW r \in Tids, row[r] # "dead", NEW E, E \subseteq RowEntries(r), E \subseteq Indexed
      PROVE  E \subseteq Indexed'
  <2>1. r \notin reap
    BY <1>0, <1>1 DEF ReapInv
  <2>2. E \cap (Trigrams \X reap) = {}
    BY <1>1, <2>1 DEF RowEntries
  <2>3. QED
    BY <1>1, <2>2, IndexedGrows
(* Rows that were live before the step and still have their trigrams. *)
<1>2. ASSUME NEW r \in Tids, row[r] = "live", rowTrgs'[r] = rowTrgs[r]
      PROVE  RowEntries(r)' \subseteq Indexed'
  <2>1. RowEntries(r) \subseteq Indexed
    BY <1>0, <1>2 DEF NoLostEntry
  <2>2. RowEntries(r) \subseteq Indexed'
    BY <1>1, <1>2, <2>1
  <2>3. QED
    BY <1>2, <2>2 DEF RowEntries
(* INSERTs whose row and whose outstanding entries the step leaves alone. *)
<1>3. ASSUME NEW q \in Inserters, tid[q] # None, rowTrgs'[tid[q]] = rowTrgs[tid[q]],
             tid'[q] = tid[q], todo'[q] = todo[q]
      PROVE  RowEntries(tid[q])' \ Elems(todo'[q]) \subseteq Indexed'
  <2> DEFINE E == RowEntries(tid[q]) \ Elems(todo[q])
  <2>1. E \subseteq Indexed
    BY <1>0, <1>3 DEF NoLostEntry
  <2>2. tid[q] \in Tids /\ row[tid[q]] # "dead" /\ E \subseteq RowEntries(tid[q])
    BY <1>0, <1>3 DEF InsertInv
  <2> HIDE DEF E
  <2>3. E \subseteq Indexed'
    BY <1>1, <2>1, <2>2
  <2>4. QED
    BY <1>3, <2>3 DEF E, RowEntries
<1>4. ASSUME UNCHANGED <<rowTrgs, tid, todo>>,
                         \A r \in Tids : row'[r] = "live" => row[r] = "live"
      PROVE  NoLostEntry'
  <2>1. \A r \in Tids : row'[r] = "live" => RowEntries(r)' \subseteq Indexed'
    BY <1>2, <1>4
  <2>2. \A q \in Inserters : tid'[q] # None =>
           RowEntries(tid[q])' \ Elems(todo'[q]) \subseteq Indexed'
    BY <1>3, <1>4
  <2>3. QED
    BY <2>1, <2>2 DEF NoLostEntry
<1>5. ASSUME NEW p \in Inserters, AppendPage(p)
      PROVE  NoLostEntry'
  <2>1. /\ UNCHANGED <<row, rowTrgs, tid>> /\ todo' = [todo EXCEPT ![p] = More(p)]
        /\ pc[p] = "append"
    BY <1>5 DEF AppendPage, More, heapVars
  <2>2. tid[p] \in Tids /\ row[tid[p]] # "dead"
    BY <1>0, <2>1 DEF InsertInv
  <2>3. RowEntries(tid[p]) \ Elems(More(p)) \subseteq Indexed'
    <3>1. Elems(todo[p]) = Elems(Put(p)) \cup Elems(More(p))
      BY <1>5, AppendFacts
    <3>2. Elems(Put(p)) \subseteq Indexed'
      BY <1>5, AppendKeeps DEF Indexed
    <3> DEFINE E == RowEntries(tid[p]) \ Elems(todo[p])
    <3>3. E \subseteq Indexed /\ E \subseteq RowEntries(tid[p])
      BY <1>0, <2>2 DEF NoLostEntry
    <3> HIDE DEF E
    <3>4. E \subseteq Indexed'
      BY <1>1, <2>2, <3>3
    <3>5. QED
      BY <3>1, <3>2, <3>4 DEF E
  <2>4. \A r \in Tids : row'[r] = "live" => RowEntries(r)' \subseteq Indexed'
    BY <1>2, <2>1
  <2>5. \A q \in Inserters : q # p /\ tid'[q] # None =>
           RowEntries(tid[q])' \ Elems(todo'[q]) \subseteq Indexed'
    BY <1>0, <1>3, <2>1
  <2>6. RowEntries(tid[p])' \ Elems(todo'[p]) \subseteq Indexed'
    BY <1>0, <2>1, <2>3 DEF RowEntries
  <2>7. QED
    BY <2>4, <2>5, <2>6 DEF NoLostEntry
<1>6. ASSUME NEW p \in Inserters, InsertCase(p)
      PROVE  NoLostEntry'
  <2>1. CASE \E r \in Tids, T \in Values : AmInsert(p, r, T)
    <3>1. PICK r \in Tids, T \in Values : AmInsert(p, r, T)
      BY <2>1
    <3>2. PICK s \in Orders(T \X {r}) : todo' = [todo EXCEPT ![p] = s]
      BY <3>1 DEF AmInsert
    <3>3. /\ row[r] = "unused" /\ row' = [row EXCEPT ![r] = "inserting"]
          /\ rowTrgs' = [rowTrgs EXCEPT ![r] = T] /\ tid' = [tid EXCEPT ![p] = r]
      BY <3>1 DEF AmInsert
    <3>4. \A x \in Tids : row'[x] = "live" => row[x] = "live" /\ rowTrgs'[x] = rowTrgs[x]
      BY <1>0, <3>3
    <3>5. \A x \in Tids : row'[x] = "live" => RowEntries(x)' \subseteq Indexed'
      BY <1>2, <3>4
    <3>6. \A q \in Inserters : tid[q] # r
      BY <1>0, <3>3 DEF InsertInv
    <3>7. ASSUME NEW q \in Inserters, q # p, tid'[q] # None
          PROVE  RowEntries(tid[q])' \ Elems(todo'[q]) \subseteq Indexed'
      <4>1. tid'[q] = tid[q] /\ todo'[q] = todo[q] /\ rowTrgs'[tid[q]] = rowTrgs[tid[q]]
        BY <1>0, <3>2, <3>3, <3>6, <3>7
      <4>2. QED
        BY <1>3, <3>7, <4>1
    <3>8. RowEntries(tid[p])' \ Elems(todo'[p]) \subseteq Indexed'
      <4>1. RowEntries(tid[p])' = T \X {r}
        BY <1>0, <3>3 DEF RowEntries
      <4>2. Elems(todo'[p]) = T \X {r}
        BY <1>0, <3>2 DEF Orders
      <4>3. QED
        BY <4>1, <4>2
    <3>9. QED
      BY <3>5, <3>7, <3>8 DEF NoLostEntry
  <2>2. CASE SkipMerge(p) \/ TryLock(p) \/ InsertMergeDone(p)
    BY <1>4, <2>2 DEF SkipMerge, TryLock, InsertMergeDone, heapVars, insertVars
  <2>3. CASE \E o \in {"live", "dead"} : EndXact(p, o)
    <3>1. PICK o \in {"live", "dead"} : EndXact(p, o)
      BY <2>3
    <3>2. /\ pc[p] = "xact" /\ row' = [row EXCEPT ![tid[p]] = o]
          /\ tid' = [tid EXCEPT ![p] = None] /\ rowTrgs' = rowTrgs /\ todo' = todo
      BY <3>1 DEF EndXact
    <3>3. tid[p] \in Tids /\ todo[p] = <<>> /\ row[tid[p]] # "dead"
      BY <1>0, <3>2 DEF InsertInv
    <3>4. RowEntries(tid[p]) \subseteq Indexed
      <4>1. Elems(todo[p]) = {}
        BY <3>3 DEF Elems
      <4>2. QED
        BY <1>0, <3>3, <4>1 DEF NoLostEntry
    <3>5. RowEntries(tid[p]) \subseteq Indexed'
      BY <1>1, <3>3, <3>4
    <3>6. \A r \in Tids : row'[r] = "live" => r = tid[p] \/ row[r] = "live"
      BY <1>0, <3>2, <3>3
    <3>7. \A r \in Tids : row'[r] = "live" => RowEntries(r)' \subseteq Indexed'
      BY <1>2, <3>2, <3>5, <3>6 DEF RowEntries
    <3>8. \A q \in Inserters : tid'[q] # None => tid'[q] = tid[q]
      BY <1>0, <3>2
    <3>9. \A q \in Inserters : tid'[q] # None =>
             RowEntries(tid[q])' \ Elems(todo'[q]) \subseteq Indexed'
      BY <1>3, <3>2, <3>8
    <3>10. QED
      BY <3>7, <3>9 DEF NoLostEntry
  <2>4. QED
    BY <1>6, <2>1, <2>2, <2>3 DEF InsertCase
<1>7. ASSUME NEW p \in Procs, Merge(p)
      PROVE  NoLostEntry'
  BY <1>4, <1>7, MergeFrame
<1>8. CASE VacuumCase
  <2>1. CASE Reap
    <3>1. /\ \A r \in Tids : r \notin reap => row'[r] = row[r] /\ rowTrgs'[r] = rowTrgs[r]
          /\ \A r \in reap : row'[r] = "unused"
          /\ tid' = tid /\ todo' = todo /\ reap \subseteq Tids
      BY <2>1 DEF Reap, insertVars, IInv, TypeOK
    <3>2. \A r \in Tids : row'[r] = "live" => row[r] = "live" /\ rowTrgs'[r] = rowTrgs[r]
      BY <3>1
    <3>3. \A q \in Inserters : tid[q] # None => rowTrgs'[tid[q]] = rowTrgs[tid[q]]
      BY <1>0, <3>1 DEF InsertInv, ReapInv
    <3>4. \A r \in Tids : row'[r] = "live" => RowEntries(r)' \subseteq Indexed'
      BY <1>2, <3>2
    <3>5. \A q \in Inserters : tid'[q] # None =>
             RowEntries(tid[q])' \ Elems(todo'[q]) \subseteq Indexed'
      BY <1>3, <3>1, <3>3
    <3>6. QED
      BY <3>4, <3>5 DEF NoLostEntry
  <2>2. CASE ~Reap
    <3>1. UNCHANGED <<row, rowTrgs, tid, todo>>
      BY <1>8, <2>2 DEF VacuumCase, VacuumStart, MergeLock, VacuumMergeDone, StripDone,
         Compact,
         StripPosting, heapVars, insertVars
    <3>2. QED
      BY <1>4, <3>1
  <2>3. QED
    BY <2>1, <2>2
<1>9. ASSUME NEW s \in Scanners, ScanCase(s)
      PROVE  NoLostEntry'
  <2>1. UNCHANGED <<row, rowTrgs, tid, todo>>
    BY <1>9 DEF ScanCase, ScanStep, ScanStart, ScanOverlay, ScanOverlayDone, ScanLookup,
       ScanEnd, heapVars, insertVars
  <2>2. QED
    BY <1>4, <2>1
<1>10. CASE FaultCase
  <2>1. ASSUME NEW p \in Procs, Cancel(p)
        PROVE  NoLostEntry'
    <3>1. CASE p = Vacuum
      BY <1>4, <2>1, <3>1 DEF Cancel, heapVars, insertVars
    <3>2. CASE p # Vacuum
      <4>1. p \in Inserters /\ tid[p] \in Tids
        BY <1>0, <2>1, <3>2 DEF Procs, Cancel, InsertInv
      <4>2. /\ row' = [row EXCEPT ![tid[p]] = "dead"] /\ rowTrgs' = rowTrgs
            /\ tid' = [tid EXCEPT ![p] = None] /\ todo' = [todo EXCEPT ![p] = <<>>]
        BY <2>1, <3>2 DEF Cancel
      <4>3. \A r \in Tids : row'[r] = "live" => RowEntries(r)' \subseteq Indexed'
        BY <1>0, <1>2, <4>1, <4>2
      <4>4. \A q \in Inserters : tid'[q] # None => tid'[q] = tid[q] /\ todo'[q] = todo[q]
        BY <1>0, <4>1, <4>2
      <4>5. \A q \in Inserters : tid'[q] # None =>
               RowEntries(tid[q])' \ Elems(todo'[q]) \subseteq Indexed'
        BY <1>3, <4>2, <4>4
      <4>6. QED
        BY <4>3, <4>5 DEF NoLostEntry
    <3>3. QED
      BY <3>1, <3>2
  <2>2. CASE \E r \in Tids : Die(r)
    <3>1. UNCHANGED <<rowTrgs, tid,
                      todo>> /\ \A r \in Tids : row'[r] = "live" => row[r] = "live"
      BY <1>0, <2>2 DEF Die, insertVars
    <3>2. QED
      BY <1>4, <3>1
  <2>3. CASE Crash
    <3>1. /\ \A r \in Tids : row'[r] = "live" => row[r] = "live"
          /\ rowTrgs' = rowTrgs /\ \A q \in Inserters : tid'[q] = None
      BY <1>0, <2>3 DEF Crash
    <3>2. \A r \in Tids : row'[r] = "live" => RowEntries(r)' \subseteq Indexed'
      BY <1>2, <3>1
    <3>3. QED
      BY <3>1, <3>2 DEF NoLostEntry
  <2>4. QED
    BY <1>10, <2>1, <2>2, <2>3 DEF FaultCase
<1>11. QED
  BY <1>5, <1>6, <1>7, <1>8, <1>9, <1>10, NextCases

-----------------------------------------------------------------------------
(* The invariant is inductive.                                             *)
LEMMA InvInit == Init => IInv
<1> SUFFICES ASSUME Init PROVE IInv
  OBVIOUS
<1>0. TypeOK
  BY TypeInit
<1>1. pending_head = Invalid /\ pending_tail = Invalid /\ entries = <<>> /\ Len(entries) = 0
  BY DEF Init
<1>2. LockInv /\ ReapInv /\ LocalsInv
  BY DEF Init, LockInv, LockedPc, MergePc, ReapInv, LocalsInv
<1>3. ListInv
  BY <1>1 DEF ListInv, ListBlocks
<1>4. InsertInv
  BY DEF Init, InsertInv, Procs
<1>5. MergeInv
  BY DEF Init, MergeInv, MergeAt, DrainingPc
<1>6. FreeInv
  BY DEF Init, FreeInv
<1>7. ScanInv
  BY <1>1 DEF Init, ScanInv, Invalid
<1>8. NoLostEntry
  BY DEF Init, NoLostEntry, RowEntries, Indexed
<1>9. QED
  BY <1>0, <1>2, <1>3, <1>4, <1>5, <1>6, <1>7, <1>8 DEF IInv

LEMMA InvStutter == ASSUME IInv, UNCHANGED vars PROVE IInv'
<1>1. /\ UNCHANGED <<row, rowTrgs, pending_head, pending_tail, pending_n_entries,
                     entries, next_page>>
      /\ UNCHANGED <<base, runs, coalesced, freed, merge_lock, pc, tid, todo, left,
                     n_pending>>
      /\ UNCHANGED <<root, flush, wm_tail, wm_tail_n, blk, got, consumed, new_root,
                     free_wm_tail>>
      /\ UNCHANGED <<reap, strip, scan_at, mode, want, rest, scan_blk, found, rows,
                     faults>>
  BY DEF vars, heapVars, listVars, treeVars, insertVars, mergeVars, vacVars, scanVars
<1>2. TypeOK' /\ LockInv' /\ ReapInv' /\ InsertInv' /\ LocalsInv' /\ ScanInv'
  BY <1>1 DEF IInv, TypeOK, LockInv, ReapInv, InsertInv, LocalsInv, ScanInv
<1>3. ListInv' /\ FreeInv'
  BY <1>1 DEF IInv, ListInv, ListBlocks, FreeInv, Unlinked
<1>4. MergeInv'
  BY <1>1 DEF IInv, MergeInv, MergeAt, Flushing, PageEntries
<1>5. NoLostEntry'
  BY <1>1 DEF IInv, NoLostEntry, RowEntries, Indexed, Pending, ListBlocks, PageEntries
<1>6. QED
  BY <1>2, <1>3, <1>4, <1>5 DEF IInv

(* Every reachable state of the pending list satisfies IInv, whatever      *)
(* appends, merges, VACUUM passes, scans and faults led to it.             *)
THEOREM Inductive == Spec => []IInv
<1>1. Init => IInv
  BY InvInit
<1>2. IInv /\ [Next]_vars => IInv'
  <2>1. ASSUME IInv, Next PROVE IInv'
    BY <2>1, TypeStep, LockStep, ListStep, InsertStepInv, ReapStep, LocalsStep,
       MergeStep, FreeStep,
       ScanStepInv, NoLostStep DEF IInv
  <2>2. QED
    BY <2>1, InvStutter
<1>3. QED
  BY <1>1, <1>2, PTL DEF Spec

(* The variables keep their types: no block link, counter or watermark     *)
(* ever leaves its range.                                                  *)
THEOREM TypeCorrect == Spec => []TypeOK
<1>1. IInv => TypeOK
  BY DEF IInv
<1>2. QED
  BY <1>1, Inductive, PTL

(* No committed row, and no entry an INSERT has already written, is lost   *)
(* to an append racing a merge, a cancelled merge or a crash.              *)
THEOREM NothingLost == Spec => []NoLostEntry
<1>1. IInv => NoLostEntry
  BY DEF IInv
<1>2. QED
  BY <1>1, Inductive, PTL

(* What the free log holds is off the list for good.                       *)
THEOREM NothingFreedIsLinked == Spec => []FreedUnlinked
<1>1. IInv => FreedUnlinked
  BY DEF IInv, FreeInv, Unlinked, FreedUnlinked
<1>2. QED
  BY <1>1, Inductive, PTL

(* The list of pages is never broken, and a page never overflows.          *)
THEOREM ListNeverBroken == Spec => []ChainIntact
<1>1. ASSUME IInv PROVE ChainIntact
  <2>1. /\ Len(entries) \in Nat /\ pending_head \in Nat /\ ListInv /\ DOMAIN entries = 1 .. Len(entries)
    BY <1>1, LenProperties DEF IInv, TypeOK
  <2>2. ASSUME NEW b \in ListBlocks
        PROVE  pending_head # Invalid /\ b \in pending_head .. pending_tail /\ b \in 1 .. Len(entries)
    BY <2>1, <2>2 DEF ListBlocks, ListInv, Invalid
  <2>3. QED
    BY <2>1, <2>2 DEF ChainIntact, ListInv
<1>2. QED
  BY <1>1, Inductive, PTL
=============================================================================
