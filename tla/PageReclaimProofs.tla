-------------------------- MODULE PageReclaimProofs --------------------------
(***************************************************************************)
(* Proofs about the allocation and the reclamation of pages, for any       *)
(* number of backends, scans, blocks and transactions, any mix of          *)
(* inserters and any number of aborts and crashes.                         *)
(*                                                                         *)
(* The inductive invariant says who may touch a page.  A page in the       *)
(* trees, the pending list or the log, or listed by the log, is live, so   *)
(* that pg_tre_extend, which takes blank pages only, cannot hand it out.   *)
(* What one merge has built or has yet to log is in no structure and not   *)
(* listed: only the holder of the merge lock has such pages.  A page that  *)
(* a scan can still be led to is live, or was deleted or logged at an XID  *)
(* that the scan's snapshot holds back; the sweep and the drain compare    *)
(* with the oldest snapshot before they blank a page.                      *)
(***************************************************************************)
EXTENDS PageReclaim, FiniteSetTheorems, SequenceTheorems, TLAPS

(* An entry of the free log, a page of it, and what a backend may be at.   *)
Ent    == [block : Blocks, xid : 1 .. MaxXid]
LogRec == [blk : Blocks, ents : SUBSET Ent]
PcState == {"idle", "append", "build", "flushed", "free", "log", "log_page", "strip",
            "compact", "sweep", "sweep_page", "sweep_free", "drain", "drain_free",
            "collapse", "collapse_free", "drained"}

(* The types of the pages, of the FSM and of the XID counter.              *)
TypePages ==
    /\ page \in [Blocks -> PageState] /\ del_xid \in [Blocks -> 0 .. MaxXid]
    /\ fsm \in SUBSET Blocks /\ recorded \in SUBSET Blocks
    /\ next_xid \in 1 .. MaxXid

(* The types of what links to pages.                                       *)
TypeLinks == tree \in SUBSET Blocks /\ pend \in Seq(Blocks) /\ log \in Seq(LogRec)

(* The types of the locks and of the allocations under way.                *)
TypeProcs ==
    /\ meta_lock \in Procs \cup {None} /\ merge_lock \in Procs \cup {None}
    /\ held \in [Blocks -> Procs \cup {None}]
    /\ pc \in [Procs -> PcState]
    /\ alloc \in [Procs -> {"no", "pick", "mark", "try", "got"}]
    /\ cand \in [Procs -> Blocks \cup {None}] /\ buf \in [Procs -> Blocks \cup {None}]

(* The types of a merge's own lists.                                       *)
TypeBuild ==
    /\ wm \in [Procs -> Nat]
    /\ old \in [Procs -> SUBSET Blocks] /\ new \in [Procs -> SUBSET Blocks]
    /\ batches \in [Procs -> Seq(SUBSET Blocks)] /\ todo \in [Procs -> SUBSET Blocks]
    /\ batch_xid \in [Procs -> 0 .. MaxXid]

(* The types of VACUUM's own variables.                                    *)
TypeVacuum ==
    /\ task \in {"none", "bulkdelete", "cleanup", "compacted"}
    /\ blkno \in Nat /\ nblocks \in Nat /\ logat \in Nat /\ kept \in SUBSET Ent

(* The types of the scans.                                                 *)
TypeScan ==
    /\ xmin \in [Scanners -> 0 .. MaxXid] /\ may \in [Scanners -> SUBSET Blocks]
    /\ faults \in 0 .. MaxFaults

(* Every variable has its type; that the blocks are allocated ones is said *)
(* by the parts below.                                                     *)
Types == TypePages /\ TypeLinks /\ TypeProcs /\ TypeBuild /\ TypeVacuum /\ TypeScan

(* What a backend does only under the merge lock.                          *)
MergePc == PcState \ {"idle", "append"}

(* The blocks that the free log lists.                                     *)
Listed  == {e.block : e \in Logged}

(* The file has no holes: its blocks are the first n.                      *)
FileInv == \E n \in 0 .. MaxBlocks : Allocated = 1 .. n

(* What the FSM, VACUUM and an allocation remember are blocks of the file. *)
KnownInv ==
    /\ fsm \subseteq Allocated /\ recorded \subseteq Allocated
    /\ \A e \in kept : e.block \in Allocated
    /\ \A p \in Procs : cand[p] # None => cand[p] \in Allocated

(* Only the holder of the merge lock merges, frees or vacuums.             *)
LockInv == \A p \in Procs : pc[p] \in MergePc => merge_lock = p

(* An allocation belongs to an append, a build or a new page of the log; a *)
(* backend has a page only once the allocation is over, and a candidate    *)
(* while it tries one.                                                     *)
AllocPc ==
    \A p \in Procs :
        /\ alloc[p] # "no" => pc[p] \in {"append", "build", "log_page"}
        /\ alloc[p] # "got" => buf[p] = None
        /\ alloc[p] \in {"mark", "try"} => cand[p] # None

(* The page a backend was given is blank and its buffer is locked by that  *)
(* backend.                                                                *)
GotPage(p) == /\ buf[p] \in Blocks
              /\ page[buf[p]] = "blank" /\ held[buf[p]] = p

(* Every allocation that is over has such a page.                          *)
AllocPage == \A p \in Procs : alloc[p] = "got" => GotPage(p)

(* What holds of allocations.                                              *)
AllocInv == AllocPc /\ AllocPage

(* The tree and the watermark that a merge took at its start are still     *)
(* those of the index: nobody else swaps the root or cuts the list.        *)
BuildLinked ==
    \A p \in Procs : pc[p] \in {"build", "flushed"} => old[p] = tree /\ wm[p] \in 0 .. Len(pend)

(* A merge's lists are empty outside the steps that use them.              *)
BuildLocal ==
    \A p \in Procs :
        /\ pc[p] \notin {"build", "flushed"} => old[p] = {}
        /\ pc[p] # "build" => new[p] = {}
        /\ pc[p] \notin {"free", "log", "log_page"} => batches[p] = <<>>
        /\ pc[p] \notin {"log", "log_page"} => todo[p] = {}
        /\ pc[p] \in {"log", "log_page"} => batch_xid[p] \in 1 .. MaxXid

(* What holds of merges.                                                   *)
BuildInv == BuildLinked /\ BuildLocal

(* Where VACUUM's sweep, drain and collapse stand.                         *)
VacuumInv ==
    /\ pc[Vacuum] \in {"sweep", "sweep_page", "sweep_free"} =>
          1 .. nblocks \subseteq Allocated /\ blkno >= 1
    /\ pc[Vacuum] \in {"sweep_page", "sweep_free"} => blkno <= nblocks
    /\ pc[Vacuum] = "sweep_page" => held[blkno] = Vacuum
    /\ pc[Vacuum] \in {"drain_free", "collapse_free"} => blkno \in Allocated
    /\ pc[Vacuum] \in {"drain", "drain_free"} => logat \in 1 .. Len(log)

(* A page in use is live and not listed; a listed page is live.            *)
LinkLive ==
    /\ \A b \in InUse : page[b] = "live" /\ b \notin Listed
    /\ \A b \in Listed : page[b] = "live"

(* The trees, the pending list and the pages of the log have no page in    *)
(* common.                                                                 *)
LinkApart == tree \cap Elems(pend) = {} /\ tree \cap LogPages = {} /\ Elems(pend) \cap LogPages = {}

(* No page is twice in the list, in the log, or listed.                    *)
LinkOnce ==
    /\ \A i, j \in DOMAIN pend : pend[i] = pend[j] => i = j
    /\ \A i, j \in DOMAIN log : log[i].blk = log[j].blk => i = j
    /\ \A i, j \in DOMAIN log : \A e \in log[i].ents, f \in log[j].ents :
             e.block = f.block => i = j /\ e = f

(* What holds of the links.                                                *)
LinkInv == LinkLive /\ LinkApart /\ LinkOnce

(* The pages only a merge knows of: those it built and those it will log.  *)
OwnSet(p) == new[p] \cup ToLog(p)

(* These are live, in no structure and not listed.                         *)
OwnOut == \A p \in Procs : \A b \in OwnSet(p) : page[b] = "live" /\ b \notin InUse /\ b \notin Listed

(* A merge will log no page twice.                                         *)
OwnOnce ==
    \A p \in Procs :
        /\ \A i \in DOMAIN batches[p] : todo[p] \cap batches[p][i] = {}
        /\ \A i, j \in DOMAIN batches[p] : i # j => batches[p][i] \cap batches[p][j] = {}

(* What holds of a merge's own pages.                                      *)
OwnInv == OwnOut /\ OwnOnce

(* A page that a scan with this xmin can be led to is live, or deleted at  *)
(* an XID the scan holds back.                                             *)
SnapPage(b, x) ==
    /\ page[b] \in {"live", "deleted"}
    /\ page[b] = "deleted" => del_xid[b] >= x

(* Such a page is no page of the log, and is logged only under an XID the  *)
(* scan holds back.                                                        *)
SnapLog(b, x) ==
    /\ b \notin LogPages
    /\ \A p \in Procs : b \in todo[p] => batch_xid[p] >= x
    /\ \A e \in Logged : e.block = b => e.xid >= x

(* Both hold of every page that a running scan can be led to.              *)
SnapInv ==
    \A s \in Scanners :
        /\ xmin[s] <= next_xid
        /\ xmin[s] = 0 => may[s] = {}
        /\ \A b \in may[s] : SnapPage(b, xmin[s]) /\ SnapLog(b, xmin[s])

(* The inductive invariant.                                                *)
IInv == /\ Types /\ FileInv /\ KnownInv /\ LockInv /\ AllocInv /\ BuildInv /\ VacuumInv
        /\ LinkInv /\ OwnInv /\ SnapInv

-----------------------------------------------------------------------------
(* The steps of VACUUM, the scans and the faults, to split on.             *)
VacuumCase ==
    \/ \E t \in {"bulkdelete", "cleanup"} : VacuumStart(t)
    \/ \E b \in Blocks : Unlink(b)
    \/ StripDone \/ Compact
    \/ SweepStart \/ SweepLock \/ SweepPage \/ SweepFree \/ SweepDone
    \/ \E e \in Logged : DrainKeep(e) \/ DrainReclaim(e)
    \/ DrainFree \/ DrainNext \/ Collapse \/ CollapseFree \/ CleanupDone
ScanCase ==
    \/ \E s \in Scanners : ScanStart(s) \/ ScanRoot(s) \/ ScanEnd(s)
    \/ AssignXid
FaultCase == (\E p \in Procs : Error(p)) \/ Crash

(* Every step is one of a writer, an inserter, VACUUM, a scan or a fault.  *)
LEMMA NextCases ==
    ASSUME Next
    PROVE  \/ \E p \in Procs : WriterStep(p)
           \/ \E p \in Inserters : AppendStart(p) \/ MergeTryLock(p)
           \/ VacuumCase \/ ScanCase \/ FaultCase
BY DEF Next, VacuumStep, VacuumCase, ScanCase, FaultCase, Procs

(* Facts about the constants.                                              *)
LEMMA ProcFacts ==
    /\ Inserters \subseteq Procs /\ Vacuum \in Procs /\ None \notin Procs /\ None \notin Blocks
    /\ Blocks \subseteq Nat \ {0} /\ MaxBlocks \in Nat \ {0} /\ MaxXid \in Nat \ {0}
    /\ IsFiniteSet(Blocks)
<1>1. MaxBlocks \in Nat \ {0} /\ MaxXid \in Nat \ {0} BY ReclaimAssumption
<1>2. IsFiniteSet(Blocks) BY <1>1, FS_Interval DEF Blocks
<1>3. Blocks \subseteq Nat \ {0} BY <1>1 DEF Blocks
<1>4. None \notin Nat /\ None \notin Procs BY ReclaimAssumption DEF Procs
<1> QED BY <1>1, <1>2, <1>3, <1>4 DEF Procs

(* The types hold at the start.                                            *)
LEMMA TypeInit == Init => Types
<1> SUFFICES ASSUME Init PROVE Types OBVIOUS
<1>0. /\ TreePages \in 1 .. MaxBlocks /\ MaxXid \in Nat \ {0} /\ MaxFaults \in Nat
      /\ MaxBlocks \in Nat \ {0} /\ StaleFsm \subseteq 1 .. TreePages
  BY ReclaimAssumption
<1>1. TypePages BY <1>0 DEF Init, TypePages, PageState, Blocks
<1>2. TypeLinks BY <1>0 DEF Init, TypeLinks, Blocks
<1>3. TypeProcs BY DEF Init, TypeProcs, PcState
<1>4. TypeBuild BY <1>0 DEF Init, TypeBuild
<1>5. TypeVacuum BY DEF Init, TypeVacuum
<1>6. TypeScan BY <1>0 DEF Init, TypeScan
<1> QED BY <1>1, <1>2, <1>3, <1>4, <1>5, <1>6 DEF Types

(* Every step keeps the types of the pages.                                *)
LEMMA TypePagesStep == ASSUME IInv, Next PROVE TypePages'
<1>0. /\ TypePages /\ TypeLinks /\ TypeProcs /\ TypeVacuum /\ VacuumInv /\ AllocInv
      /\ MaxXid \in Nat \ {0} /\ KnownInv
  BY ProcFacts DEF IInv, Types
<1> USE DEF TypePages, PageState
<1>1. CASE UNCHANGED <<pageVars, fsmVars, next_xid>>
  BY <1>0, <1>1 DEF pageVars, fsmVars
<1>2. ASSUME NEW p \in Procs, WriterStep(p) PROVE TypePages'
  <2>1. CASE AppendLink(p) \/ BuildPage(p) \/ LogNewPage(p)
    BY <1>0, <2>1 DEF AppendLink, BuildPage, LogNewPage, FillPage, fsmVars
  <2>2. CASE \E b \in Blocks : GetFree(p, b) BY <1>1, <2>2 DEF GetFree
  <2>3. CASE MarkUsed(p) BY <1>0, <2>3 DEF MarkUsed, pageVars
  <2>4. CASE TryReuse(p) BY <1>1, <2>4 DEF TryReuse
  <2>5. CASE ExtendRel(p) BY <1>0, <2>5 DEF ExtendRel, fsmVars
  <2>6. CASE BuildCall(p) \/ FlushRun(p) \/ Finalize(p) \/ FreeBatch(p) \/ LogChunk(p)
             \/ LogExtend(p) \/ FreeDone(p)
    BY <1>1, <2>6 DEF BuildCall, FlushRun, Finalize, FreeBatch, LogChunk, LogExtend, FreeDone
  <2> QED BY <1>2, <2>1, <2>2, <2>3, <2>4, <2>5, <2>6 DEF WriterStep, Extend
<1>3. CASE \E p \in Inserters : AppendStart(p) \/ MergeTryLock(p)
  BY <1>1, <1>3 DEF AppendStart, MergeTryLock
<1>4. CASE VacuumCase
  <2>1. CASE \E b \in Blocks : Unlink(b) BY <1>0, <2>1 DEF Unlink, fsmVars
  <2>2. CASE SweepPage BY <1>0, <2>2 DEF SweepPage, pageVars, fsmVars
  <2>3. CASE SweepFree \/ DrainFree \/ CollapseFree
    <3>1. blkno \in Blocks
      BY <1>0, <2>3 DEF SweepFree, DrainFree, CollapseFree, VacuumInv, TypeVacuum, Allocated
    <3> QED BY <1>0, <2>3, <3>1 DEF SweepFree, DrainFree, CollapseFree, RecordFree, pageVars
  <2>4. CASE \E e \in Logged : DrainReclaim(e) BY <1>0, <2>4 DEF DrainReclaim, fsmVars
  <2>5. CASE Collapse BY <1>0, <2>5 DEF Collapse, fsmVars
  <2>6. CASE (\E t \in {"bulkdelete", "cleanup"} : VacuumStart(t)) \/ StripDone \/ Compact
             \/ SweepStart \/ SweepLock \/ SweepDone \/ (\E e \in Logged : DrainKeep(e))
             \/ DrainNext \/ CleanupDone
    BY <1>1, <2>6 DEF VacuumStart, StripDone, Compact, SweepStart, SweepLock, SweepDone,
       DrainKeep, DrainNext, CleanupDone
  <2> QED BY <1>4, <2>1, <2>2, <2>3, <2>4, <2>5, <2>6 DEF VacuumCase
<1>5. CASE ScanCase
  <2>1. CASE AssignXid BY <1>0, <2>1 DEF AssignXid, pageVars, fsmVars
  <2>2. CASE \E s \in Scanners : ScanStart(s) \/ ScanRoot(s) \/ ScanEnd(s)
    BY <1>1, <2>2 DEF ScanStart, ScanRoot, ScanEnd
  <2> QED BY <1>5, <2>1, <2>2 DEF ScanCase
<1>6. CASE FaultCase
  <2>1. CASE Crash BY <1>0, <2>1 DEF Crash, pageVars
  <2>2. CASE \E p \in Procs : Error(p) BY <1>1, <2>2 DEF Error
  <2> QED BY <1>6, <2>1, <2>2 DEF FaultCase
<1> QED BY <1>2, <1>3, <1>4, <1>5, <1>6, NextCases

(* What a new first page of the log does to the others.                    *)
LEMMA LogPush ==
    ASSUME NEW L \in Seq(LogRec), NEW r \in LogRec, NEW M, M = <<r>> \o L
    PROVE  /\ M \in Seq(LogRec) /\ Len(M) = Len(L) + 1 /\ DOMAIN M = 1 .. Len(L) + 1
           /\ DOMAIN L = 1 .. Len(L) /\ Len(L) \in Nat
           /\ M[1] = r /\ \A j \in 1 .. Len(L) : M[j + 1] = L[j]
<1>1. <<r>> \in Seq(LogRec) /\ Len(<<r>>) = 1 /\ <<r>>[1] = r OBVIOUS
<1>2. Len(L) \in Nat /\ DOMAIN L = 1 .. Len(L) BY LenProperties
<1> DEFINE o == <<r>>
<1>3. o \in Seq(LogRec) /\ Len(o) = 1 /\ o[1] = r /\ M = o \o L BY <1>1
<1> HIDE DEF o
<1>4. /\ M \in Seq(LogRec) /\ Len(M) = Len(o) + Len(L)
      /\ \A i \in 1 .. Len(o) : M[i] = o[i]
      /\ \A i \in 1 .. Len(L) : M[Len(o) + i] = L[i]
  BY <1>3, ConcatProperties
<1>5. Len(M) = Len(L) + 1 /\ M[1] = r BY <1>2, <1>3, <1>4
<1>6. \A j \in 1 .. Len(L) : M[j + 1] = L[j]
  <2> TAKE j \in 1 .. Len(L)
  <2>1. M[1 + j] = L[j] BY <1>3, <1>4
  <2>2. 1 + j = j + 1 BY <1>2
  <2> QED BY <2>1, <2>2
<1>7. DOMAIN M = 1 .. Len(M) BY <1>4, LenProperties
<1> QED BY <1>2, <1>4, <1>5, <1>6, <1>7

(* A sequence of pairwise disjoint sets of blocks.                         *)
Apart(t) == t \in Seq(SUBSET Blocks) /\ \A i, j \in DOMAIN t : i # j => t[i] \cap t[j] = {}

(* A batch adds nothing to its pages.                                      *)
LEMMA BatchOne ==
    ASSUME NEW A \in SUBSET Blocks
    PROVE  Apart(Batch(A)) /\ UNION Elems(Batch(A)) \subseteq A
<1>1. CASE A = {}
  <2>1. Batch(A) = <<>> BY <1>1 DEF Batch
  <2> QED BY <2>1 DEF Apart, Elems
<1>2. CASE A # {}
  <2>1. Batch(A) = <<A>> BY <1>2 DEF Batch
  <2>2. <<A>> \in Seq(SUBSET Blocks) /\ DOMAIN <<A>> = {1} /\ <<A>>[1] = A OBVIOUS
  <2> QED BY <2>1, <2>2 DEF Apart, Elems
<1> QED BY <1>1, <1>2

(* Two such sequences over disjoint sets are one.                          *)
LEMMA ApartConcat ==
    ASSUME NEW s, NEW t, Apart(s), Apart(t), NEW A, NEW B, A \cap B = {},
           UNION Elems(s) \subseteq A, UNION Elems(t) \subseteq B
    PROVE  Apart(s \o t) /\ UNION Elems(s \o t) \subseteq A \cup B
<1> DEFINE q == s \o t
           m == Len(s)
           n == Len(t)
<1>1. s \in Seq(SUBSET Blocks) /\ t \in Seq(SUBSET Blocks) BY DEF Apart
<1>2. m \in Nat /\ n \in Nat /\ DOMAIN s = 1 .. m /\ DOMAIN t = 1 .. n BY <1>1, LenProperties
<1>3. /\ q \in Seq(SUBSET Blocks) /\ Len(q) = m + n
      /\ \A i \in 1 .. m : q[i] = s[i]
      /\ \A i \in 1 .. n : q[m + i] = t[i]
  BY <1>1, ConcatProperties
<1>4. DOMAIN q = 1 .. m + n BY <1>3, LenProperties
<1> HIDE DEF q, m, n
<1>5. \A i \in 1 .. m + n : i \in 1 .. m \/ (i - m \in 1 .. n /\ m + (i - m) = i) BY <1>2
<1>6. \A i \in 1 .. m : q[i] \subseteq A BY <1>2, <1>3 DEF Elems
<1>7. \A i \in 1 .. n : t[i] \subseteq B BY <1>2 DEF Elems
<1>8. \A i \in 1 .. m + n : i \in 1 .. m \/ (i - m \in 1 .. n /\ q[i] = t[i - m] /\ q[i] \subseteq B)
  BY <1>3, <1>5, <1>7
<1>9. \A i, j \in 1 .. m + n : i # j => q[i] \cap q[j] = {}
  <2> SUFFICES ASSUME NEW i \in 1 .. m + n, NEW j \in 1 .. m + n, i # j PROVE q[i] \cap q[j] = {}
    OBVIOUS
  <2>1. CASE i \in 1 .. m /\ j \in 1 .. m BY <1>2, <1>3, <2>1 DEF Apart
  <2>2. CASE i \in 1 .. m /\ j \notin 1 .. m BY <1>6, <1>8, <2>2
  <2>3. CASE i \notin 1 .. m /\ j \in 1 .. m BY <1>6, <1>8, <2>3
  <2>4. CASE i \notin 1 .. m /\ j \notin 1 .. m
    <3>1. i - m \in 1 .. n /\ j - m \in 1 .. n /\ q[i] = t[i - m] /\ q[j] = t[j - m]
      BY <1>8, <2>4
    <3>2. i - m # j - m BY <1>2
    <3> QED BY <1>2, <3>1, <3>2 DEF Apart
  <2> QED BY <2>1, <2>2, <2>3, <2>4
<1>10. UNION Elems(q) \subseteq A \cup B BY <1>4, <1>6, <1>8 DEF Elems
<1>11. Apart(q) BY <1>3, <1>4, <1>9 DEF Apart
<1> QED BY <1>10, <1>11 DEF q

(* The three batches of a merge are disjoint when their pages are.         *)
LEMMA BatchFacts ==
    ASSUME NEW A \in SUBSET Blocks, NEW B \in SUBSET Blocks, NEW C \in SUBSET Blocks,
           A \cap B = {}, A \cap C = {}, B \cap C = {}
    PROVE  /\ Apart(Batch(A) \o Batch(B) \o Batch(C))
           /\ UNION Elems(Batch(A) \o Batch(B) \o Batch(C)) \subseteq A \cup B \cup C
<1> DEFINE u == Batch(A) \o Batch(B)
           v == Batch(C)
           X == A \cup B
<1>1. Apart(u) /\ UNION Elems(u) \subseteq X BY BatchOne, ApartConcat
<1>2. Apart(v) /\ UNION Elems(v) \subseteq C BY BatchOne
<1>3. X \cap C = {} OBVIOUS
<1> HIDE DEF u, v, X
<1>4. Apart(u \o v) /\ UNION Elems(u \o v) \subseteq X \cup C BY <1>1, <1>2, <1>3, ApartConcat
<1> QED BY <1>4 DEF u, v, X

(* What Finalize leaves: a suffix of the list, and disjoint batches of     *)
(* pages that were in use and are no longer.                               *)
LEMMA FinalizeFacts ==
    ASSUME IInv, NEW p \in Procs, Finalize(p)
    PROVE  /\ pc[p] \in {"build", "flushed"} /\ alloc[p] = "no"
           /\ pc' = [pc EXCEPT ![p] = "free"]
           /\ old' = [old EXCEPT ![p] = {}] /\ new' = [new EXCEPT ![p] = {}]
           /\ tree' \in SUBSET (tree \cup new[p])
           /\ \E k \in 1 .. Len(pend) + 1 :
                 /\ pend' \in Seq(Blocks) /\ Len(pend') = Len(pend) - k + 1
                 /\ \A i \in 1 .. Len(pend') : pend'[i] = pend[i + k - 1]
                 /\ Apart(batches'[p])
                 /\ \A b \in UNION Elems(batches'[p]) :
                       \/ b \in tree /\ b \notin tree'
                       \/ \E i \in 1 .. k - 1 : b = pend[i]
                 /\ batches' = [batches EXCEPT ![p] = batches'[p]]
<1> DEFINE n == Len(pend)
           w == wm[p]
<1>0. /\ pend \in Seq(Blocks) /\ n \in Nat /\ DOMAIN pend = 1 .. n /\ tree \in SUBSET Blocks
      /\ batches \in [Procs -> Seq(SUBSET Blocks)] /\ new[p] \in SUBSET Blocks
      /\ w \in Nat
  BY LenProperties DEF IInv, Types, TypeLinks, TypeBuild
<1>1. pc[p] \in {"build", "flushed"} /\ alloc[p] = "no"
  BY DEF Finalize, IInv, AllocInv, AllocPc
<1>2. old[p] = tree /\ w \in 0 .. n BY <1>1 DEF IInv, BuildInv, BuildLinked
<1>3. PICK passed \in SUBSET old[p], rewind \in BOOLEAN :
          /\ w = 0 => rewind
          /\ Len(pend) > w => rewind
          /\ tree' = new[p] \cup passed
          /\ pend' = IF ~rewind THEN <<>> ELSE SubSeq(pend, IF w = 0 THEN 1 ELSE w, n)
          /\ batches' = [batches EXCEPT ![p] =
                               Batch(Elems(SubSeq(pend, 1, w - 1)))
                               \o Batch(IF rewind THEN {} ELSE {pend[w]})
                               \o Batch(DropUnused(old[p], tree'))]
  BY DEF Finalize
<1> HIDE DEF n, w
<1> DEFINE k == IF ~rewind THEN n + 1 ELSE IF w = 0 THEN 1 ELSE w
           A == Elems(SubSeq(pend, 1, w - 1))
           B == IF rewind THEN {} ELSE {pend[w]}
           C == DropUnused(old[p], tree')
           q == Batch(A) \o Batch(B) \o Batch(C)
<1>4. k \in 1 .. n + 1 /\ (w # 0 => w - 1 < k) /\ n = Len(pend) BY <1>0, <1>2 DEF n
<1>5. ~rewind => w = n /\ w # 0
  <2>1. n > w => rewind BY <1>3 DEF n
  <2> QED BY <1>0, <1>2, <1>3, <2>1
<1>6. /\ pend' \in Seq(Blocks) /\ Len(pend') = n - k + 1
      /\ \A i \in 1 .. Len(pend') : pend'[i] = pend[i + k - 1]
  <2>1. CASE ~rewind
    <3>1. pend' = <<>> /\ k = n + 1 BY <1>3, <2>1
    <3> HIDE DEF k
    <3> QED BY <1>0, <3>1
  <2>2. CASE rewind
    <3> DEFINE m == IF w = 0 THEN 1 ELSE w
    <3>1. pend' = SubSeq(pend, m, n) /\ k = m BY <1>3, <2>2
    <3>2. m \in 1 .. n + 1 BY <1>0, <1>2
    <3>3. \A i \in m .. n : pend[i] \in Blocks BY <1>0, <3>2, <1>4
    <3> HIDE DEF m, k
    <3>4. /\ SubSeq(pend, m, n) \in Seq(Blocks)
          /\ Len(SubSeq(pend, m, n)) = IF m <= n THEN n - m + 1 ELSE 0
          /\ \A i \in 1 .. n - m + 1 : SubSeq(pend, m, n)[i] = pend[m + i - 1]
      BY <1>0, <3>2, <3>3, SubSeqProperties
    <3>5. Len(SubSeq(pend, m, n)) = n - m + 1 BY <1>0, <3>2, <3>4
    <3>6. \A i \in 1 .. n - m + 1 : m + i - 1 = i + m - 1 BY <1>0, <3>2
    <3> QED BY <3>1, <3>4, <3>5, <3>6
  <2> QED BY <2>1, <2>2
<1>7. \A b \in A : b \in Blocks /\ \E i \in 1 .. k - 1 : i < w /\ b = pend[i]
  <2>1. CASE w = 0
    <3>0. w - 1 = -1 BY <2>1
    <3>1. SubSeq(pend, 1, -1) = <<>> BY <1>0, SubSeqProperties
    <3>2. A = Elems(<<>>) BY <3>0, <3>1
    <3>3. A = {} BY <3>2 DEF Elems
    <3> QED BY <3>3
  <2>2. CASE w # 0
    <3>1. w - 1 \in 0 .. n BY <1>0, <1>2, <2>2
    <3>2. \A i \in 1 .. w - 1 : pend[i] \in Blocks BY <1>0, <1>4, <3>1
    <3> DEFINE v == w - 1
               t == SubSeq(pend, 1, v)
    <3> HIDE DEF v
    <3>3. v \in Nat BY <3>1 DEF v
    <3>4. \A i \in 1 .. v : pend[i] \in Blocks BY <3>2 DEF v
    <3>5. /\ t \in Seq(Blocks) /\ Len(t) = IF 1 <= v THEN v - 1 + 1 ELSE 0
          /\ \A i \in 1 .. v - 1 + 1 : t[i] = pend[1 + i - 1]
      BY <1>0, <3>3, <3>4, SubSeqProperties
    <3>6. Len(t) = v /\ \A i \in 1 .. v : t[i] = pend[i] BY <3>3, <3>5
    <3> HIDE DEF t
    <3>7. DOMAIN t = 1 .. v BY <3>5, <3>6, LenProperties
    <3>8. A = Elems(t) BY DEF t, v
    <3>9. \A b \in A : \E i \in 1 .. v : b = pend[i] BY <3>6, <3>7, <3>8 DEF Elems
    <3>10. v = w - 1 /\ w \in Nat BY <1>0 DEF v
    <3>11. \A i \in 1 .. v : i \in 1 .. k - 1 /\ i < w BY <1>0, <1>4, <2>2, <3>10
    <3> HIDE DEF A, k
    <3> QED BY <3>4, <3>9, <3>11
  <2> QED BY <2>1, <2>2
<1>8. \A b \in B : b \in Blocks /\ w \in 1 .. k - 1 /\ w \in 1 .. n /\ b = pend[w]
  <2>1. CASE rewind BY <2>1
  <2>2. CASE ~rewind
    <3>1. w = n /\ w \in 1 .. n /\ k = n + 1 BY <1>0, <1>5, <2>2
    <3>2. pend[w] \in Blocks BY <1>0, <1>4, <3>1
    <3>3. w \in 1 .. k - 1 BY <1>0, <3>1
    <3> QED BY <2>2, <3>1, <3>2, <3>3
  <2> QED BY <2>1, <2>2
<1>9. C \subseteq tree /\ \A b \in C : b \notin tree' BY <1>2 DEF DropUnused
<1>10. A \cap B = {} /\ A \cap C = {} /\ B \cap C = {}
  <2> HIDE DEF A, B, C, k
  <2>1. /\ \A i, j \in DOMAIN pend : pend[i] = pend[j] => i = j
        /\ tree \cap Elems(pend) = {}
    BY DEF IInv, LinkInv, LinkApart, LinkOnce
  <2>2. \A i \in 1 .. k - 1 : i \in DOMAIN pend BY <1>0, <1>4
  <2>3. A \cap B = {}
    <3> SUFFICES ASSUME NEW b \in A, b \in B PROVE FALSE OBVIOUS
    <3>1. PICK i \in 1 .. k - 1 : i < w /\ b = pend[i] BY <1>7
    <3>2. b = pend[w] /\ w \in DOMAIN pend BY <1>0, <1>8
    <3>3. i = w BY <2>1, <2>2, <3>1, <3>2
    <3> QED BY <1>0, <3>1, <3>3
  <2>4. \A b \in A \cup B : b \in Elems(pend) BY <1>0, <1>7, <1>8, <2>2 DEF Elems
  <2> QED BY <1>9, <2>1, <2>3, <2>4
<1>11. A \in SUBSET Blocks /\ B \in SUBSET Blocks /\ C \in SUBSET Blocks
  BY <1>0, <1>7, <1>8, <1>9
<1>12. batches' = [batches EXCEPT ![p] = q] /\ batches'[p] = q BY <1>0, <1>3
<1>13. Apart(q) /\ UNION Elems(q) \subseteq A \cup B \cup C
  <2> HIDE DEF A, B, C
  <2> QED BY <1>10, <1>11, BatchFacts
<1>14. pc' = [pc EXCEPT ![p] = "free"] /\ old' = [old EXCEPT ![p] = {}]
       /\ new' = [new EXCEPT ![p] = {}]
  BY DEF Finalize, Goto
<1>15. tree' \in SUBSET (tree \cup new[p]) BY <1>2, <1>3
<1>16. \A b \in UNION Elems(q) :
          \/ b \in tree /\ b \notin tree'
          \/ \E i \in 1 .. k - 1 : b = pend[i]
  <2> HIDE DEF A, B, C, k, q
  <2> QED BY <1>7, <1>8, <1>9, <1>13
<1> HIDE DEF k, q
<1>17. \E kk \in 1 .. n + 1 :
          /\ pend' \in Seq(Blocks) /\ Len(pend') = n - kk + 1
          /\ \A i \in 1 .. Len(pend') : pend'[i] = pend[i + kk - 1]
          /\ Apart(batches'[p])
          /\ \A b \in UNION Elems(batches'[p]) :
                \/ b \in tree /\ b \notin tree'
                \/ \E i \in 1 .. kk - 1 : b = pend[i]
          /\ batches' = [batches EXCEPT ![p] = batches'[p]]
  <2>0. k \in 1 .. n + 1 BY <1>4
  <2> USE <2>0
  <2> WITNESS k \in 1 .. n + 1
  <2>1. batches'[p] = q /\ batches' = [batches EXCEPT ![p] = batches'[p]] BY <1>12
  <2> QED BY <1>6, <2>1, <1>13, <1>16
<1> QED BY <1>1, <1>14, <1>15, <1>17 DEF n

(* A chunk leaves the pages still to log.                                  *)
ChunkTaken(p, take) ==
    /\ todo' = [todo EXCEPT ![p] = todo[p] \ take]
    /\ pc' = [pc EXCEPT ![p] = IF todo[p] = take THEN "free" ELSE "log"]

(* A chunk goes into the first page of the log.                            *)
HeadFilled(p, take) ==
    /\ log' \in Seq(LogRec) /\ Len(log') = Len(log) /\ DOMAIN log' = DOMAIN log
    /\ DOMAIN log = 1 .. Len(log) /\ 1 \in DOMAIN log
    /\ log'[1].blk = log[1].blk
    /\ log'[1].ents = log[1].ents \cup Entries(take, batch_xid[p])
    /\ \A j \in DOMAIN log : j # 1 => log'[j] = log[j]

(* A chunk goes into a new first page of the log.                          *)
HeadPushed(p, take) ==
    /\ buf[p] \in Blocks /\ page[buf[p]] = "blank" /\ held[buf[p]] = p
    /\ log' \in Seq(LogRec) /\ Len(log') = Len(log) + 1 /\ Len(log) \in Nat
    /\ DOMAIN log' = 1 .. Len(log) + 1 /\ DOMAIN log = 1 .. Len(log)
    /\ log'[1].blk = buf[p] /\ log'[1].ents = Entries(take, batch_xid[p])
    /\ \A j \in 1 .. Len(log) : log'[j + 1] = log[j]
    /\ \A j \in DOMAIN log' : j # 1 => j - 1 \in DOMAIN log /\ log'[j] = log[j - 1]

(* LogChunk takes a chunk and fills the first page with it.                *)
LEMMA LogChunkFacts ==
    ASSUME IInv, NEW p \in Procs, LogChunk(p)
    PROVE  \E take \in SUBSET todo[p] :
              ChunkTaken(p, take) /\ HeadFilled(p, take)
<1> DEFINE take == FirstOf(todo[p], LogCap - Cardinality(log[1].ents))
           E == log[1].ents \cup Entries(take, batch_xid[p])
<1>0. /\ log \in Seq(LogRec) /\ todo[p] \in SUBSET Blocks /\ batch_xid[p] \in 1 .. MaxXid
      /\ todo \in [Procs -> SUBSET Blocks]
  BY DEF IInv, Types, TypeLinks, TypeBuild, BuildInv, BuildLocal, LogChunk
<1>1. take \in SUBSET todo[p] BY DEF FirstOf
<1>2. log # <<>> BY DEF LogChunk, NeedLogPage
<1>3. Len(log) \in Nat /\ DOMAIN log = 1 .. Len(log) BY <1>0, LenProperties
<1>4. 1 \in 1 .. Len(log) BY <1>0, <1>2, <1>3, EmptySeq
<1>5. log[1] \in LogRec BY <1>0, <1>4, ElementOfSeq
<1>6. Entries(take, batch_xid[p]) \subseteq Ent BY <1>0, <1>1 DEF Entries, Ent
<1>7. E \in SUBSET Ent BY <1>5, <1>6 DEF LogRec
<1>8. /\ log' = [log EXCEPT ![1].ents = E]
      /\ todo' = [todo EXCEPT ![p] = todo[p] \ take]
      /\ pc' = [pc EXCEPT ![p] = IF todo[p] = take THEN "free" ELSE "log"]
  BY <1>0 DEF LogChunk, Goto
<1> HIDE DEF take
<1>9. E = log[1].ents \cup Entries(take, batch_xid[p]) OBVIOUS
<1> DEFINE r == [log[1] EXCEPT !.ents = E]
<1> HIDE DEF E
<1>11. log' = [log EXCEPT ![1] = r] BY <1>8
<1>12. r \in LogRec /\ r.blk = log[1].blk /\ r.ents = E BY <1>5, <1>7 DEF LogRec
<1> HIDE DEF r
<1>10. /\ log' \in Seq(LogRec) /\ Len(log') = Len(log) /\ log'[1] = r
       /\ \A j \in 1 .. Len(log) : j # 1 => log'[j] = log[j]
  BY <1>0, <1>4, <1>11, <1>12, ExceptSeq
<1>13. DOMAIN log' = 1 .. Len(log') BY <1>10, LenProperties
<1>14. log'[1].blk = log[1].blk /\ log'[1].ents = log[1].ents \cup Entries(take, batch_xid[p])
  BY <1>9, <1>10, <1>12
<1>15. ChunkTaken(p, take) BY <1>8 DEF ChunkTaken
<1>16. HeadFilled(p, take) BY <1>3, <1>4, <1>10, <1>13, <1>14 DEF HeadFilled
<1> QED BY <1>1, <1>15, <1>16

(* LogNewPage takes a chunk and links a new page with it.                  *)
LEMMA LogNewPageFacts ==
    ASSUME IInv, NEW p \in Procs, LogNewPage(p)
    PROVE  \E take \in SUBSET todo[p] :
              ChunkTaken(p, take) /\ HeadPushed(p, take)
<1> DEFINE take == FirstOf(todo[p], LogCap)
           r == [blk |-> buf[p], ents |-> Entries(take, batch_xid[p])]
<1>0. /\ log \in Seq(LogRec) /\ todo[p] \in SUBSET Blocks /\ batch_xid[p] \in 1 .. MaxXid
      /\ todo \in [Procs -> SUBSET Blocks]
      /\ buf[p] \in Blocks /\ page[buf[p]] = "blank" /\ held[buf[p]] = p
  BY DEF IInv, Types, TypeLinks, TypeBuild, BuildInv, BuildLocal, LogNewPage, HasPage, AllocInv, AllocPage, GotPage
<1>1. take \in SUBSET todo[p] BY DEF FirstOf
<1>6. Entries(take, batch_xid[p]) \subseteq Ent BY <1>0, <1>1 DEF Entries, Ent
<1>7. r \in LogRec BY <1>0, <1>6 DEF LogRec
<1>8. /\ log' = <<r>> \o log
      /\ todo' = [todo EXCEPT ![p] = todo[p] \ take]
      /\ pc' = [pc EXCEPT ![p] = IF todo[p] = take THEN "free" ELSE "log"]
  BY <1>0 DEF LogNewPage, Goto
<1> HIDE DEF take
<1>9. r.blk = buf[p] /\ r.ents = Entries(take, batch_xid[p]) OBVIOUS
<1> HIDE DEF r
<1>10. /\ log' \in Seq(LogRec) /\ Len(log') = Len(log) + 1 /\ DOMAIN log' = 1 .. Len(log) + 1
       /\ DOMAIN log = 1 .. Len(log) /\ Len(log) \in Nat
       /\ log'[1] = r /\ \A j \in 1 .. Len(log) : log'[j + 1] = log[j]
  BY <1>0, <1>7, <1>8, LogPush
<1>11. \A j \in DOMAIN log' : j # 1 => j - 1 \in DOMAIN log /\ log'[j] = log[j - 1]
  <2> SUFFICES ASSUME NEW j \in 1 .. Len(log) + 1, j # 1
               PROVE  j - 1 \in DOMAIN log /\ log'[j] = log[j - 1]
    BY <1>10
  <2>1. j - 1 \in 1 .. Len(log) /\ (j - 1) + 1 = j BY <1>10
  <2>2. log'[(j - 1) + 1] = log[j - 1] BY <1>10, <2>1
  <2> QED BY <1>10, <2>1, <2>2
<1>12. ChunkTaken(p, take) BY <1>8 DEF ChunkTaken
<1>13. HeadPushed(p, take) BY <1>0, <1>9, <1>10, <1>11 DEF HeadPushed
<1> QED BY <1>1, <1>12, <1>13

(* DrainReclaim removes one entry from one page.                           *)
LEMMA DrainFacts ==
    ASSUME IInv, NEW e, DrainReclaim(e)
    PROVE  /\ log' \in Seq(LogRec) /\ Len(log') = Len(log) /\ DOMAIN log' = DOMAIN log
           /\ DOMAIN log = 1 .. Len(log) /\ logat \in DOMAIN log
           /\ e \in log[logat].ents /\ e \in Ent
           /\ log'[logat].blk = log[logat].blk /\ log'[logat].ents = log[logat].ents \ {e}
           /\ \A j \in DOMAIN log : j # logat => log'[j] = log[j]
<1> DEFINE E == log[logat].ents \ {e}
<1>0. /\ log \in Seq(LogRec) /\ logat \in 1 .. Len(log) /\ e \in log[logat].ents
      /\ log' = [log EXCEPT ![logat].ents = E]
  BY DEF IInv, Types, TypeLinks, VacuumInv, DrainReclaim
<1>1. DOMAIN log = 1 .. Len(log) BY <1>0, LenProperties
<1>2. log[logat] \in LogRec BY <1>0, ElementOfSeq
<1>3. E \in SUBSET Ent /\ e \in Ent BY <1>0, <1>2 DEF LogRec
<1>4. E = log[logat].ents \ {e} OBVIOUS
<1> DEFINE r == [log[logat] EXCEPT !.ents = E]
<1> HIDE DEF E
<1>6. log' = [log EXCEPT ![logat] = r] BY <1>0
<1>7. r \in LogRec /\ r.blk = log[logat].blk /\ r.ents = E BY <1>2, <1>3 DEF LogRec
<1> HIDE DEF r
<1>5. /\ log' \in Seq(LogRec) /\ Len(log') = Len(log) /\ log'[logat] = r
      /\ \A j \in 1 .. Len(log) : j # logat => log'[j] = log[j]
  BY <1>0, <1>6, <1>7, ExceptSeq
<1>8. DOMAIN log' = 1 .. Len(log') BY <1>5, LenProperties
<1>9. log'[logat].blk = log[logat].blk /\ log'[logat].ents = log[logat].ents \ {e}
  BY <1>4, <1>5, <1>7
<1> QED BY <1>0, <1>1, <1>3, <1>5, <1>8, <1>9

(* AppendLink adds the backend's page at the end of the list.              *)
LEMMA AppendLinkFacts ==
    ASSUME IInv, NEW p \in Procs, AppendLink(p)
    PROVE  /\ buf[p] \in Blocks /\ page[buf[p]] = "blank" /\ held[buf[p]] = p
           /\ pend' \in Seq(Blocks) /\ Len(pend') = Len(pend) + 1 /\ Len(pend) \in Nat
           /\ DOMAIN pend = 1 .. Len(pend) /\ DOMAIN pend' = 1 .. Len(pend) + 1
           /\ \A i \in DOMAIN pend : pend'[i] = pend[i]
           /\ pend'[Len(pend) + 1] = buf[p]
           /\ Elems(pend') = Elems(pend) \cup {buf[p]}
<1>0. /\ pend \in Seq(Blocks) /\ pend' = Append(pend, buf[p])
      /\ buf[p] \in Blocks /\ page[buf[p]] = "blank" /\ held[buf[p]] = p
  BY DEF IInv, Types, TypeLinks, AppendLink, HasPage, AllocInv, AllocPage, GotPage
<1>1. Len(pend) \in Nat /\ DOMAIN pend = 1 .. Len(pend) BY <1>0, LenProperties
<1>2. /\ pend' \in Seq(Blocks) /\ Len(pend') = Len(pend) + 1
      /\ \A i \in 1 .. Len(pend) : pend'[i] = pend[i]
      /\ pend'[Len(pend) + 1] = buf[p]
  BY <1>0, AppendProperties
<1>3. DOMAIN pend' = 1 .. Len(pend) + 1 BY <1>2, LenProperties
<1>4. \A i \in 1 .. Len(pend) + 1 : i \in 1 .. Len(pend) \/ i = Len(pend) + 1 BY <1>1
<1>5. Len(pend) + 1 \in 1 .. Len(pend) + 1 /\ 1 .. Len(pend) \subseteq 1 .. Len(pend) + 1 BY <1>1
<1>6. Elems(pend') = Elems(pend) \cup {buf[p]}
  BY <1>1, <1>2, <1>3, <1>4, <1>5 DEF Elems
<1> QED BY <1>0, <1>1, <1>2, <1>3, <1>6

(* Every step keeps the types of the links.                                *)
LEMMA TypeLinksStep == ASSUME IInv, Next PROVE TypeLinks'
<1>0. TypeLinks /\ TypeBuild BY DEF IInv, Types
<1>1. CASE UNCHANGED linkVars BY <1>0, <1>1 DEF linkVars, TypeLinks
<1>2. ASSUME NEW p \in Procs, WriterStep(p) PROVE TypeLinks'
  <2>1. CASE Extend(p)
    BY <1>1, <2>1 DEF Extend, GetFree, MarkUsed, TryReuse, ExtendRel
  <2>2. CASE AppendLink(p) BY <1>0, <2>2, AppendLinkFacts DEF TypeLinks, AppendLink
  <2>3. CASE BuildCall(p) \/ BuildPage(p) \/ FreeBatch(p) \/ LogExtend(p) \/ FreeDone(p)
    BY <1>1, <2>3 DEF BuildCall, BuildPage, FreeBatch, LogExtend, FreeDone
  <2>4. CASE FlushRun(p) BY <1>0, <2>4 DEF FlushRun, TypeLinks, TypeBuild
  <2>5. CASE Finalize(p)
    <3>1. log' = log BY <2>5 DEF Finalize
    <3>2. new[p] \in SUBSET Blocks BY <1>0 DEF TypeBuild
    <3> QED BY <1>0, <2>5, <3>1, <3>2, FinalizeFacts DEF TypeLinks
  <2>6. CASE LogChunk(p) BY <1>0, <2>6, LogChunkFacts DEF TypeLinks, LogChunk, HeadFilled
  <2>7. CASE LogNewPage(p) BY <1>0, <2>7, LogNewPageFacts DEF TypeLinks, LogNewPage, HeadPushed
  <2> QED BY <1>2, <2>1, <2>2, <2>3, <2>4, <2>5, <2>6, <2>7 DEF WriterStep
<1>3. CASE \E p \in Inserters : AppendStart(p) \/ MergeTryLock(p)
  BY <1>1, <1>3 DEF AppendStart, MergeTryLock
<1>4. CASE VacuumCase
  <2>1. CASE \E b \in Blocks : Unlink(b) BY <1>0, <2>1 DEF Unlink, TypeLinks
  <2>2. CASE \E e \in Logged : DrainReclaim(e)
    BY <1>0, <2>2, DrainFacts DEF DrainReclaim, TypeLinks
  <2>3. CASE Collapse
    <3>1. tree' = tree /\ pend' = pend /\ (log' = <<>> \/ log' = log) BY <2>3 DEF Collapse
    <3>2. <<>> \in Seq(LogRec) OBVIOUS
    <3> QED BY <1>0, <3>1, <3>2 DEF TypeLinks
  <2>4. CASE (\E t \in {"bulkdelete", "cleanup"} : VacuumStart(t)) \/ StripDone \/ Compact
             \/ SweepStart \/ SweepLock \/ SweepPage \/ SweepFree \/ SweepDone
             \/ (\E e \in Logged : DrainKeep(e)) \/ DrainFree \/ DrainNext \/ CollapseFree
             \/ CleanupDone
    BY <1>1, <2>4 DEF VacuumStart, StripDone, Compact, SweepStart, SweepLock, SweepPage,
       SweepFree, SweepDone, DrainKeep, DrainFree, DrainNext, CollapseFree, CleanupDone
  <2> QED BY <1>4, <2>1, <2>2, <2>3, <2>4 DEF VacuumCase
<1>5. CASE ScanCase BY <1>1, <1>5 DEF ScanCase, ScanStart, ScanRoot, ScanEnd, AssignXid
<1>6. CASE FaultCase BY <1>1, <1>6 DEF FaultCase, Error, Crash
<1> QED BY <1>2, <1>3, <1>4, <1>5, <1>6, NextCases

(* Every step keeps the types of the locks and allocations.                *)
LEMMA TypeProcsStep == ASSUME IInv, Next PROVE TypeProcs'
<1>0. /\ TypeProcs /\ TypePages /\ TypeLinks /\ TypeVacuum /\ VacuumInv /\ AllocInv
      /\ Inserters \subseteq Procs /\ Vacuum \in Procs
  BY ProcFacts DEF IInv, Types
<1> USE DEF TypeProcs, PcState, Goto
<1>1. CASE UNCHANGED <<lockVars, pc, allocVars>> BY <1>0, <1>1 DEF lockVars, allocVars
<1>2. ASSUME NEW p \in Procs, WriterStep(p) PROVE TypeProcs'
  <2>1. CASE \E b \in Blocks : GetFree(p, b) BY <1>0, <2>1 DEF GetFree, lockVars
  <2>2. CASE MarkUsed(p) BY <1>0, <2>2 DEF MarkUsed, lockVars
  <2>3. CASE TryReuse(p)
    <3>1. cand[p] \in Blocks BY <1>0, <2>3 DEF TryReuse, AllocInv, AllocPc
    <3> QED BY <1>0, <2>3, <3>1 DEF TryReuse
  <2>4. CASE ExtendRel(p)
    <3>1. Cardinality(Allocated) + 1 \in Blocks
      <4>1. IsFiniteSet(Allocated) BY FS_Subset, ProcFacts DEF Allocated
      <4>2. Cardinality(Allocated) \in Nat BY <4>1, FS_CardinalityType
      <4> QED BY <2>4, <4>2, ProcFacts DEF ExtendRel, Blocks
    <3> HIDE DEF TypeProcs
    <3> DEFINE b == Cardinality(Allocated) + 1
    <3>2. /\ held' = [held EXCEPT ![b] = p] /\ buf' = [buf EXCEPT ![p] = b]
          /\ alloc' = [alloc EXCEPT ![p] = "got"]
          /\ UNCHANGED <<meta_lock, merge_lock, pc, cand>>
      BY <2>4 DEF ExtendRel
    <3>3. b \in Blocks BY <3>1
    <3> HIDE DEF b
    <3> QED BY <1>0, <3>2, <3>3 DEF TypeProcs
  <2>5. CASE AppendLink(p) BY <1>0, <2>5 DEF AppendLink, ReleasePage
  <2>6. CASE BuildCall(p) BY <1>0, <2>6 DEF BuildCall, CallExtend, lockVars
  <2>7. CASE BuildPage(p) BY <1>0, <2>7 DEF BuildPage, ReleasePage
  <2>8. CASE FlushRun(p) BY <1>0, <2>8 DEF FlushRun, lockVars, allocVars
  <2>9. CASE Finalize(p) BY <1>0, <2>9 DEF Finalize, lockVars, allocVars
  <2>10. CASE FreeBatch(p) BY <1>0, <2>10 DEF FreeBatch, lockVars, allocVars
  <2>11. CASE LogChunk(p) BY <1>0, <2>11 DEF LogChunk, lockVars, allocVars
  <2>12. CASE LogExtend(p) BY <1>0, <2>12 DEF LogExtend, CallExtend
  <2>13. CASE LogNewPage(p) BY <1>0, <2>13 DEF LogNewPage, ReleasePage
  <2>14. CASE FreeDone(p) BY <1>0, <2>14 DEF FreeDone, AfterMerge, allocVars
  <2> QED BY <1>2, <2>1, <2>2, <2>3, <2>4, <2>5, <2>6, <2>7, <2>8, <2>9, <2>10, <2>11, <2>12,
             <2>13, <2>14 DEF WriterStep, Extend
<1>3. ASSUME NEW p \in Inserters, AppendStart(p) PROVE TypeProcs'
  BY <1>0, <1>3 DEF AppendStart, CallExtend
<1>4. ASSUME NEW p \in Inserters, MergeTryLock(p) PROVE TypeProcs'
  BY <1>0, <1>4 DEF MergeTryLock, BuildStart, allocVars
<1>5. CASE VacuumCase
  <2>1. CASE \E t \in {"bulkdelete", "cleanup"} : VacuumStart(t)
    BY <1>0, <2>1 DEF VacuumStart, BuildStart, AfterMerge, allocVars
  <2>2. CASE (\E b \in Blocks : Unlink(b)) \/ (\E e \in Logged : DrainKeep(e))
    BY <1>1, <2>2 DEF Unlink, DrainKeep
  <2>3. CASE StripDone \/ CleanupDone BY <1>0, <2>3 DEF StripDone, CleanupDone, VacuumUnlock, allocVars
  <2>4. CASE Compact BY <1>0, <2>4 DEF Compact, BuildStart, allocVars, lockVars
  <2>5. CASE SweepStart \/ SweepFree \/ SweepDone
    BY <1>0, <2>5 DEF SweepStart, SweepFree, SweepDone, allocVars, lockVars
  <2>6. CASE SweepLock BY <1>0, <2>6 DEF SweepLock, allocVars
  <2>7. CASE SweepPage BY <1>0, <2>7 DEF SweepPage, allocVars
  <2>8. CASE (\E e \in Logged : DrainReclaim(e)) \/ DrainFree \/ DrainNext
    BY <1>0, <2>8 DEF DrainReclaim, DrainFree, DrainNext, allocVars, lockVars
  <2>9. CASE Collapse BY <1>0, <2>9 DEF Collapse, allocVars
  <2>10. CASE CollapseFree BY <1>0, <2>10 DEF CollapseFree, allocVars
  <2> QED BY <1>5, <2>1, <2>2, <2>3, <2>4, <2>5, <2>6, <2>7, <2>8, <2>9, <2>10 DEF VacuumCase
<1>6. CASE ScanCase BY <1>1, <1>6 DEF ScanCase, ScanStart, ScanRoot, ScanEnd, AssignXid
<1>7. CASE FaultCase
  <2>1. CASE Crash BY <1>0, <2>1 DEF Crash
  <2>2. ASSUME NEW p \in Procs, Error(p) PROVE TypeProcs' BY <1>0, <2>2 DEF Error
  <2> QED BY <1>7, <2>1, <2>2 DEF FaultCase
<1> QED BY <1>2, <1>3, <1>4, <1>5, <1>6, <1>7, NextCases

(* Every step keeps the types of the merges.                               *)
LEMMA TypeBuildStep == ASSUME IInv, Next PROVE TypeBuild'
<1>0. /\ TypeBuild /\ TypeLinks /\ TypePages /\ TypeProcs
      /\ Inserters \subseteq Procs /\ Vacuum \in Procs
      /\ Len(pend) \in Nat /\ MaxXid \in Nat \ {0}
  BY ProcFacts, LenProperties DEF IInv, Types, TypeLinks
<1> USE DEF TypeBuild
<1>1. CASE UNCHANGED <<buildVars, freeVars>> BY <1>0, <1>1 DEF buildVars, freeVars
<1>2. ASSUME NEW p \in Procs, WriterStep(p) PROVE TypeBuild'
  <2>1. CASE Extend(p)
    BY <1>1, <2>1 DEF Extend, GetFree, MarkUsed, TryReuse, ExtendRel
  <2>2. CASE AppendLink(p) \/ BuildCall(p) \/ LogExtend(p)
    BY <1>1, <2>2 DEF AppendLink, BuildCall, LogExtend
  <2>3. CASE BuildPage(p)
    <3>1. buf[p] \in Blocks BY <2>3 DEF BuildPage, HasPage, IInv, AllocInv, AllocPage, GotPage
    <3> QED BY <1>0, <2>3, <3>1 DEF BuildPage, freeVars
  <2>4. CASE FlushRun(p)
    <3>1. tree' \in SUBSET Blocks /\ old' = [old EXCEPT ![p] = tree']
      BY <1>0, <2>4 DEF FlushRun, TypeLinks
    <3> QED BY <1>0, <2>4, <3>1 DEF FlushRun, freeVars
  <2>5. CASE Finalize(p)
    <3>1. /\ wm' = [wm EXCEPT ![p] = 0] /\ todo' = todo /\ batch_xid' = batch_xid
          /\ old' = [old EXCEPT ![p] = {}] /\ new' = [new EXCEPT ![p] = {}]
      BY <2>5 DEF Finalize
    <3>2. Apart(batches'[p]) /\ batches' = [batches EXCEPT ![p] = batches'[p]]
      BY <2>5, FinalizeFacts
    <3>3. batches' \in [Procs -> Seq(SUBSET Blocks)] BY <1>0, <3>2 DEF Apart
    <3> QED BY <1>0, <3>1, <3>3
  <2>6. CASE FreeBatch(p)
    <3>1. batches[p] \in Seq(SUBSET Blocks) /\ batches[p] # <<>> BY <1>0, <2>6 DEF FreeBatch
    <3>2. Head(batches[p]) \in SUBSET Blocks /\ Tail(batches[p]) \in Seq(SUBSET Blocks)
      BY <3>1, HeadTailProperties
    <3>3. next_xid \in 1 .. MaxXid BY <1>0 DEF TypePages
    <3>4. /\ todo' = [todo EXCEPT ![p] = Head(batches[p])]
          /\ batches' = [batches EXCEPT ![p] = Tail(batches[p])]
          /\ batch_xid' = [batch_xid EXCEPT ![p] = next_xid]
          /\ wm' = wm /\ old' = old /\ new' = new
      BY <1>0, <2>6 DEF FreeBatch, buildVars
    <3> HIDE DEF TypeBuild
    <3>5. batches' \in [Procs -> Seq(SUBSET Blocks)] BY <1>0, <3>2, <3>4 DEF TypeBuild
    <3>6. todo' \in [Procs -> SUBSET Blocks] BY <1>0, <3>2, <3>4 DEF TypeBuild
    <3>7. batch_xid' \in [Procs -> 0 .. MaxXid] BY <1>0, <3>3, <3>4 DEF TypeBuild
    <3> QED BY <1>0, <3>4, <3>5, <3>6, <3>7 DEF TypeBuild
  <2>7. CASE LogChunk(p)
    <3>1. PICK take \in SUBSET todo[p] : ChunkTaken(p, take) BY <2>7, LogChunkFacts
    <3> QED BY <1>0, <2>7, <3>1 DEF LogChunk, ChunkTaken, buildVars
  <2>8. CASE LogNewPage(p)
    <3>1. PICK take \in SUBSET todo[p] : ChunkTaken(p, take) BY <2>8, LogNewPageFacts
    <3> QED BY <1>0, <2>8, <3>1 DEF LogNewPage, ChunkTaken, buildVars
  <2>9. CASE FreeDone(p) BY <1>0, <2>9 DEF FreeDone, buildVars
  <2> QED BY <1>2, <2>1, <2>2, <2>3, <2>4, <2>5, <2>6, <2>7, <2>8, <2>9 DEF WriterStep
<1>3. ASSUME NEW p \in Inserters, AppendStart(p) \/ MergeTryLock(p) PROVE TypeBuild'
  <2>1. CASE AppendStart(p) BY <1>1, <2>1 DEF AppendStart
  <2>2. CASE MergeTryLock(p) BY <1>0, <2>2 DEF MergeTryLock, BuildStart, freeVars, TypeLinks
  <2> QED BY <1>3, <2>1, <2>2
<1>4. CASE VacuumCase
  <2>1. CASE \E t \in {"bulkdelete", "cleanup"} : VacuumStart(t)
    BY <1>0, <2>1 DEF VacuumStart, BuildStart, freeVars, TypeLinks
  <2>2. CASE Compact BY <1>0, <2>2 DEF Compact, BuildStart, freeVars, TypeLinks
  <2>3. CASE (\E b \in Blocks : Unlink(b)) \/ StripDone
             \/ SweepStart \/ SweepLock \/ SweepPage \/ SweepFree \/ SweepDone
             \/ (\E e \in Logged : DrainKeep(e) \/ DrainReclaim(e)) \/ DrainFree \/ DrainNext
             \/ Collapse \/ CollapseFree \/ CleanupDone
    BY <1>1, <2>3 DEF Unlink, StripDone, SweepStart, SweepLock, SweepPage, SweepFree,
       SweepDone, DrainKeep, DrainReclaim, DrainFree, DrainNext, Collapse, CollapseFree,
       CleanupDone
  <2> QED BY <1>4, <2>1, <2>2, <2>3 DEF VacuumCase
<1>5. CASE ScanCase BY <1>1, <1>5 DEF ScanCase, ScanStart, ScanRoot, ScanEnd, AssignXid
<1>6. CASE FaultCase
  <2>1. CASE Crash BY <1>0, <2>1 DEF Crash
  <2>2. ASSUME NEW p \in Procs, Error(p) PROVE TypeBuild' BY <1>0, <2>2 DEF Error
  <2> QED BY <1>6, <2>1, <2>2 DEF FaultCase
<1> QED BY <1>2, <1>3, <1>4, <1>5, <1>6, NextCases

(* Every step keeps the types of VACUUM's variables.                       *)
LEMMA TypeVacuumStep == ASSUME IInv, Next PROVE TypeVacuum'
<1>0. /\ TypeVacuum /\ TypeLinks /\ TypePages
      /\ Len(log) \in Nat /\ Vacuum \in Procs
  BY ProcFacts, LenProperties DEF IInv, Types, TypeLinks
<1> USE DEF TypeVacuum
<1>1. CASE UNCHANGED vacVars BY <1>0, <1>1 DEF vacVars
<1>2. ASSUME NEW p \in Procs, WriterStep(p) PROVE TypeVacuum'
  BY <1>1, <1>2 DEF WriterStep, Extend, GetFree, MarkUsed, TryReuse, ExtendRel, AppendLink,
     BuildCall, BuildPage, FlushRun, Finalize, FreeBatch, LogChunk, LogExtend, LogNewPage,
     FreeDone
<1>3. CASE \E p \in Inserters : AppendStart(p) \/ MergeTryLock(p)
  BY <1>1, <1>3 DEF AppendStart, MergeTryLock
<1>4. CASE VacuumCase
  <2>1. CASE \E b \in Blocks : Unlink(b) BY <1>1, <2>1 DEF Unlink
  <2>2. CASE (\E t \in {"bulkdelete", "cleanup"} : VacuumStart(t)) \/ StripDone \/ Compact
             \/ CleanupDone
    BY <1>0, <2>2 DEF VacuumStart, StripDone, Compact, CleanupDone, VacuumUnlock
  <2>3. CASE SweepStart
    <3>1. IsFiniteSet(Allocated) BY FS_Subset, ProcFacts DEF Allocated
    <3>2. Cardinality(Allocated) \in Nat BY <3>1, FS_CardinalityType
    <3> QED BY <1>0, <2>3, <3>2 DEF SweepStart
  <2>4. CASE SweepLock \/ SweepPage \/ SweepFree \/ SweepDone
    BY <1>0, <2>4 DEF SweepLock, SweepPage, SweepFree, SweepDone, vacVars
  <2>5. ASSUME NEW e \in Logged, DrainKeep(e) PROVE TypeVacuum'
    <3>1. e \in Ent
      <4>1. PICK i \in DOMAIN log : e \in log[i].ents BY DEF Logged
      <4>2. log[i] \in LogRec BY <1>0, <4>1, LenProperties, ElementOfSeq DEF TypeLinks
      <4> QED BY <4>1, <4>2 DEF LogRec
    <3> QED BY <1>0, <2>5, <3>1 DEF DrainKeep
  <2>6. ASSUME NEW e \in Logged, DrainReclaim(e) PROVE TypeVacuum'
    <3>1. e.block \in Blocks BY <2>6, DrainFacts DEF Ent
    <3>2. e.block \in Nat BY <3>1, ProcFacts
    <3> QED BY <1>0, <2>6, <3>2 DEF DrainReclaim
  <2>7. CASE DrainFree \/ DrainNext \/ CollapseFree
    BY <1>0, <2>7 DEF DrainFree, DrainNext, CollapseFree
  <2>8. CASE Collapse
    <3>1. Len(log) = 1 => log[1].blk \in Nat
      <4> SUFFICES ASSUME Len(log) = 1 PROVE log[1].blk \in Nat OBVIOUS
      <4>1. 1 \in 1 .. Len(log) OBVIOUS
      <4>2. log[1] \in LogRec BY <1>0, <4>1, ElementOfSeq DEF TypeLinks
      <4> QED BY <4>2, ProcFacts DEF LogRec
    <3> QED BY <1>0, <2>8, <3>1 DEF Collapse
  <2> QED BY <1>4, <2>1, <2>2, <2>3, <2>4, <2>5, <2>6, <2>7, <2>8 DEF VacuumCase
<1>5. CASE ScanCase BY <1>1, <1>5 DEF ScanCase, ScanStart, ScanRoot, ScanEnd, AssignXid
<1>6. CASE FaultCase
  <2>1. CASE Crash BY <1>0, <2>1 DEF Crash
  <2>2. ASSUME NEW p \in Procs, Error(p) PROVE TypeVacuum' BY <1>0, <2>2 DEF Error, vacVars
  <2> QED BY <1>6, <2>1, <2>2 DEF FaultCase
<1> QED BY <1>2, <1>3, <1>4, <1>5, <1>6, NextCases

(* Every step keeps the types of the scans.                                *)
LEMMA TypeScanStep == ASSUME IInv, Next PROVE TypeScan'
<1>0. TypeScan /\ TypeLinks /\ TypePages /\ MaxFaults \in Nat /\ MaxXid \in Nat \ {0}
  BY ReclaimAssumption DEF IInv, Types
<1>a. Reach \in SUBSET Blocks
  <2>1. Elems(pend) \subseteq Blocks BY <1>0, LenProperties, ElementOfSeq DEF TypeLinks, Elems
  <2> QED BY <1>0, <2>1 DEF Reach, TypeLinks
<1> USE DEF TypeScan
<1>1. CASE UNCHANGED <<scanVars, faults>> BY <1>0, <1>1 DEF scanVars
<1>2. ASSUME NEW p \in Procs, WriterStep(p) PROVE TypeScan'
  <2>1. CASE AppendLink(p)
    <3>1. buf[p] \in Blocks BY <2>1, AppendLinkFacts
    <3> QED BY <1>0, <2>1, <3>1 DEF AppendLink
  <2>2. CASE ~AppendLink(p)
    BY <1>1, <1>2, <2>2 DEF WriterStep, Extend, GetFree, MarkUsed, TryReuse, ExtendRel,
       BuildCall, BuildPage, FlushRun, Finalize, FreeBatch, LogChunk, LogExtend, LogNewPage,
       FreeDone
  <2> QED BY <2>1, <2>2
<1>3. CASE \E p \in Inserters : AppendStart(p) \/ MergeTryLock(p)
  BY <1>1, <1>3 DEF AppendStart, MergeTryLock
<1>4. CASE VacuumCase
    BY <1>1, <1>4 DEF VacuumCase, VacuumStart, StripDone, Compact, SweepStart, SweepLock,
       SweepPage, SweepFree, SweepDone, DrainKeep, DrainFree, DrainNext, CollapseFree,
       CleanupDone, Unlink, DrainReclaim, Collapse
<1>5. CASE ScanCase
  <2>1. CASE AssignXid BY <1>1, <2>1 DEF AssignXid
  <2>2. ASSUME NEW s \in Scanners, ScanStart(s) \/ ScanRoot(s) \/ ScanEnd(s) PROVE TypeScan'
    BY <1>0, <1>a, <2>2 DEF ScanStart, ScanRoot, ScanEnd, TypePages
  <2> QED BY <1>5, <2>1, <2>2 DEF ScanCase
<1>6. CASE FaultCase
  <2>1. CASE Crash BY <1>0, <2>1 DEF Crash
  <2>2. CASE \E p \in Procs : Error(p) BY <1>0, <2>2 DEF Error, scanVars
  <2> QED BY <1>6, <2>1, <2>2 DEF FaultCase
<1> QED BY <1>2, <1>3, <1>4, <1>5, <1>6, NextCases

(* An entry in the log is an entry.                                        *)
LEMMA LogMember ==
    ASSUME TypeLinks, NEW e \in Logged
    PROVE  e \in Ent /\ e.block \in Listed /\ e.block \in Blocks
<1>1. PICK i \in DOMAIN log : e \in log[i].ents BY DEF Logged
<1>2. log[i] \in LogRec BY <1>1, LenProperties, ElementOfSeq DEF TypeLinks
<1>3. e \in Ent BY <1>1, <1>2 DEF LogRec
<1> QED BY <1>3 DEF Listed, Ent

(* The number of blocks is the number of the last one.                     *)
LEMMA CardAllocated ==
    ASSUME IInv
    PROVE  /\ Cardinality(Allocated) \in 0 .. MaxBlocks
           /\ Allocated = 1 .. Cardinality(Allocated)
<1>1. PICK n \in 0 .. MaxBlocks : Allocated = 1 .. n BY DEF IInv, FileInv
<1>2. n \in Nat BY <1>1, ProcFacts
<1>3. Cardinality(1 .. n) = n
  <2>1. Cardinality(1 .. n) = IF 1 > n THEN 0 ELSE n - 1 + 1 BY <1>2, FS_Interval
  <2> QED BY <1>2, <2>1
<1> QED BY <1>1, <1>3

(* Extending the file adds the block after the last.                       *)
LEMMA ExtendFacts ==
    ASSUME IInv, NEW p \in Procs, ExtendRel(p)
    PROVE  \E b \in Blocks :
              /\ page[b] = "absent" /\ page' = [page EXCEPT ![b] = "blank"]
              /\ held' = [held EXCEPT ![b] = p] /\ buf' = [buf EXCEPT ![p] = b]
              /\ Allocated' = Allocated \cup {b} /\ b = Cardinality(Allocated) + 1
<1> DEFINE b == Cardinality(Allocated) + 1
<1>1. /\ Cardinality(Allocated) \in 0 .. MaxBlocks /\ Cardinality(Allocated) < MaxBlocks
      /\ Allocated = 1 .. Cardinality(Allocated) /\ MaxBlocks \in Nat
  BY CardAllocated, ProcFacts DEF ExtendRel
<1>2. b \in Blocks BY <1>1 DEF Blocks
<1>3. b \notin 1 .. Cardinality(Allocated) BY <1>1
<1>4. b \notin Allocated BY <1>1, <1>3
<1>5. /\ page' = [page EXCEPT ![b] = "blank"]
      /\ held' = [held EXCEPT ![b] = p] /\ buf' = [buf EXCEPT ![p] = b]
  BY DEF ExtendRel
<1>6. b = Cardinality(Allocated) + 1 OBVIOUS
<1> HIDE DEF b
<1>7. page[b] = "absent" BY <1>2, <1>4 DEF Allocated
<1>8. page \in [Blocks -> PageState] BY DEF IInv, Types, TypePages
<1>9. Allocated' = Allocated \cup {b} BY <1>2, <1>5, <1>8 DEF Allocated
<1> QED BY <1>2, <1>5, <1>6, <1>7, <1>9

(* The pages in use and the listed ones, by their kinds.                   *)
LEMMA InUseLive ==
    ASSUME IInv
    PROVE  /\ \A b \in InUse : b \in Blocks /\ page[b] = "live" /\ b \notin Listed
           /\ \A b \in Listed : b \in Blocks /\ page[b] = "live"
           /\ tree \subseteq InUse /\ Elems(pend) \subseteq InUse /\ LogPages \subseteq InUse
           /\ \A i \in DOMAIN pend : pend[i] \in InUse
           /\ \A i \in DOMAIN log : log[i].blk \in InUse
<1>1. TypeLinks /\ LinkInv BY DEF IInv, Types
<1>2. \A i \in DOMAIN pend : pend[i] \in Blocks
  BY <1>1, LenProperties, ElementOfSeq DEF TypeLinks
<1>3. \A i \in DOMAIN log : log[i].blk \in Blocks
  <2> TAKE i \in DOMAIN log
  <2>1. log[i] \in LogRec BY <1>1, LenProperties, ElementOfSeq DEF TypeLinks
  <2> QED BY <2>1 DEF LogRec
<1>4. InUse \subseteq Blocks BY <1>1, <1>2, <1>3 DEF InUse, Elems, LogPages, TypeLinks
<1>5. Listed \subseteq Blocks BY <1>1, LogMember DEF Listed
<1>6. \A b \in InUse : page[b] = "live" /\ b \notin Listed BY <1>1 DEF LinkInv, LinkLive
<1>7. \A b \in Listed : page[b] = "live" BY <1>1 DEF LinkInv, LinkLive
<1>8. tree \subseteq InUse /\ Elems(pend) \subseteq InUse /\ LogPages \subseteq InUse BY DEF InUse
<1>9. /\ \A i \in DOMAIN pend : pend[i] \in Elems(pend)
      /\ \A i \in DOMAIN log : log[i].blk \in LogPages
  BY DEF Elems, LogPages
<1> QED BY <1>4, <1>5, <1>6, <1>7, <1>8, <1>9

(* One page changes its state.                                             *)
PageSet(b, st) == page' = [page EXCEPT ![b] = st]

(* The ways a step can change a page.                                      *)
LEMMA PageEffects ==
    ASSUME IInv, Next
    PROVE  \/ page' = page
           \/ \E p \in Procs : /\ AppendLink(p) \/ BuildPage(p) \/ LogNewPage(p)
                               /\ alloc[p] = "got" /\ buf[p] \in Blocks /\ held[buf[p]] = p
                               /\ page[buf[p]] = "blank" /\ PageSet(buf[p], "live")
           \/ \E p \in Procs : ExtendRel(p)
           \/ \E b \in Blocks : Unlink(b) /\ b \in tree /\ page[b] = "live" /\ PageSet(b, "deleted")
           \/ /\ SweepPage /\ blkno \in Blocks /\ held[blkno] = Vacuum
              /\ page[blkno] = "deleted" /\ PageSet(blkno, "blank")
           \/ \E b \in Blocks : /\ (\E e \in Logged : DrainReclaim(e) /\ b = e.block) \/ Collapse
                                /\ page[b] = "live" /\ held[b] = None /\ PageSet(b, "blank")
<1>0. TypeLinks /\ AllocInv /\ VacuumInv BY DEF IInv, Types
<1>1. ASSUME NEW p \in Procs, AppendLink(p) \/ BuildPage(p) \/ LogNewPage(p)
      PROVE  /\ alloc[p] = "got" /\ buf[p] \in Blocks /\ held[buf[p]] = p
             /\ page[buf[p]] = "blank" /\ PageSet(buf[p], "live")
  BY <1>0, <1>1 DEF AppendLink, BuildPage, LogNewPage, HasPage, FillPage, AllocInv, AllocPage, GotPage, PageSet
<1>2. ASSUME NEW b \in Blocks, Unlink(b) PROVE b \in tree /\ page[b] = "live" /\ PageSet(b, "deleted")
  BY <1>2, InUseLive DEF Unlink, PageSet
<1>3. CASE SweepPage
  <2>1. held[blkno] = Vacuum /\ blkno \in Blocks
    BY <1>0, <1>3 DEF SweepPage, VacuumInv, Allocated, IInv, Types, TypeVacuum
  <2>2. page' = page \/ (page[blkno] = "deleted" /\ PageSet(blkno, "blank"))
    BY <1>3 DEF SweepPage, pageVars, PageSet
  <2> QED BY <1>3, <2>1, <2>2
<1>4. ASSUME NEW e \in Logged, DrainReclaim(e)
      PROVE  e.block \in Blocks /\ page[e.block] = "live" /\ held[e.block] = None /\ PageSet(e.block, "blank")
  <2>1. e.block \in Blocks /\ e.block \in Listed BY <1>0, LogMember
  <2> QED BY <1>4, <2>1, InUseLive DEF DrainReclaim, PageSet
<1>5. CASE Collapse
  <2>1. CASE Len(log) = 1 /\ log[1].ents = {}
    <3>1. 1 \in DOMAIN log
      <4>1. 1 \in 1 .. Len(log) BY <2>1
      <4> QED BY <1>0, <4>1, LenProperties DEF TypeLinks
    <3>2. log[1].blk \in InUse BY <3>1, InUseLive
    <3>3. log[1].blk \in Blocks /\ page[log[1].blk] = "live" BY <3>2, InUseLive
    <3>4. held[log[1].blk] = None /\ PageSet(log[1].blk, "blank")
      BY <1>5, <2>1 DEF Collapse, PageSet
    <3> QED BY <1>5, <3>3, <3>4
  <2>2. CASE ~(Len(log) = 1 /\ log[1].ents = {}) BY <1>5, <2>2 DEF Collapse
  <2> QED BY <2>1, <2>2
<1>6. ASSUME NEW p \in Procs, WriterStep(p)
      PROVE  page' = page \/ ExtendRel(p) \/ AppendLink(p) \/ BuildPage(p) \/ LogNewPage(p)
  BY <1>6 DEF WriterStep, Extend, GetFree, MarkUsed, TryReuse, BuildCall, FlushRun, Finalize,
     FreeBatch, LogChunk, LogExtend, FreeDone, pageVars
<1>7. CASE \E p \in Inserters : AppendStart(p) \/ MergeTryLock(p)
  BY <1>7 DEF AppendStart, MergeTryLock, pageVars
<1>8. CASE VacuumCase
  <2>1. \/ \E b \in Blocks : Unlink(b)
        \/ SweepPage \/ Collapse \/ \E e \in Logged : DrainReclaim(e)
        \/ page' = page
    BY <1>8 DEF VacuumCase, VacuumStart, StripDone, Compact, SweepStart, SweepLock, SweepFree,
       SweepDone, DrainKeep, DrainFree, DrainNext, CollapseFree, CleanupDone, pageVars
  <2> QED BY <1>2, <1>3, <1>4, <1>5, <2>1
<1>9. CASE ScanCase
  BY <1>9 DEF ScanCase, ScanStart, ScanRoot, ScanEnd, AssignXid, pageVars
<1>10. CASE FaultCase BY <1>10 DEF FaultCase, Error, Crash, pageVars
<1>11. CASE \E p \in Procs : WriterStep(p) BY <1>1, <1>6, <1>11
<1> QED BY <1>7, <1>8, <1>9, <1>10, <1>11, NextCases

(* Every step leaves the file without holes, and no shorter.               *)
LEMMA FileStep ==
    ASSUME IInv, Next
    PROVE  FileInv' /\ Allocated \subseteq Allocated'
<1>0. page \in [Blocks -> PageState] BY DEF IInv, Types, TypePages
<1>1. CASE page' = page BY <1>1 DEF IInv, FileInv, Allocated
<1>2. ASSUME NEW b \in Blocks, NEW st \in {"blank", "live", "deleted"}, page[b] # "absent",
             PageSet(b, st)
      PROVE  Allocated' = Allocated
  BY <1>0, <1>2 DEF Allocated, PageSet
<1>3. CASE Allocated' = Allocated BY <1>3 DEF IInv, FileInv
<1>4. ASSUME NEW p \in Procs, ExtendRel(p) PROVE FileInv' /\ Allocated \subseteq Allocated'
  <2> DEFINE n == Cardinality(Allocated)
  <2>1. PICK b \in Blocks : Allocated' = Allocated \cup {b} /\ b = n + 1 BY <1>4, ExtendFacts
  <2>2. n \in 0 .. MaxBlocks /\ Allocated = 1 .. n BY CardAllocated
  <2>3. n < MaxBlocks BY <1>4 DEF ExtendRel
  <2> HIDE DEF n
  <2>4. Allocated' = 1 .. n + 1 /\ n + 1 \in 0 .. MaxBlocks BY <2>1, <2>2, <2>3, ProcFacts
  <2> QED BY <2>1, <2>4 DEF FileInv
<1>5. CASE \E b \in Blocks, st \in {"blank", "live", "deleted"} : page[b] # "absent" /\ PageSet(b, st)
  BY <1>2, <1>3, <1>5
<1> QED BY <1>1, <1>4, <1>5, PageEffects

(* Every step keeps KnownInv: blocks never leave the file.                 *)
LEMMA KnownStep == ASSUME IInv, Next PROVE KnownInv'
<1>0. /\ KnownInv /\ VacuumInv /\ TypeProcs /\ TypeLinks /\ LinkInv /\ Allocated \subseteq Allocated'
      /\ TypeVacuum
  BY FileStep DEF IInv, Types
<1>1. CASE UNCHANGED <<fsm, recorded, kept, cand>> BY <1>0, <1>1 DEF KnownInv
<1>2. ASSUME NEW p \in Procs, WriterStep(p) PROVE KnownInv'
  <2>1. CASE \E b \in Blocks : GetFree(p, b) BY <1>0, <2>1 DEF GetFree, KnownInv, fsmVars, vacVars, TypeProcs
  <2>2. CASE MarkUsed(p) BY <1>0, <2>2 DEF MarkUsed, KnownInv, vacVars
  <2>3. CASE TryReuse(p) BY <1>0, <2>3 DEF TryReuse, KnownInv, fsmVars, vacVars, TypeProcs
  <2>4. CASE ExtendRel(p) \/ AppendLink(p) \/ BuildCall(p) \/ BuildPage(p) \/ FlushRun(p)
             \/ Finalize(p) \/ FreeBatch(p) \/ LogChunk(p) \/ LogExtend(p) \/ LogNewPage(p)
             \/ FreeDone(p)
    BY <1>1, <2>4 DEF ExtendRel, AppendLink, BuildCall, BuildPage, FlushRun, Finalize,
       FreeBatch, LogChunk, LogExtend, LogNewPage, FreeDone, fsmVars, vacVars, allocVars
  <2> QED BY <1>2, <2>1, <2>2, <2>3, <2>4 DEF WriterStep, Extend
<1>3. CASE \E p \in Inserters : AppendStart(p) \/ MergeTryLock(p)
  BY <1>1, <1>3 DEF AppendStart, MergeTryLock, fsmVars, vacVars, allocVars
<1>4. CASE VacuumCase
  <2>1. CASE SweepFree \/ DrainFree \/ CollapseFree
    <3>1. blkno \in Allocated
      BY <1>0, <2>1 DEF SweepFree, DrainFree, CollapseFree, VacuumInv, TypeVacuum
    <3> QED BY <1>0, <2>1, <3>1 DEF SweepFree, DrainFree, CollapseFree, RecordFree, KnownInv, allocVars
  <2>2. ASSUME NEW e \in Logged, DrainKeep(e) PROVE KnownInv'
    <3>1. e.block \in Blocks /\ page[e.block] = "live" BY <1>0, LogMember DEF LinkInv, LinkLive
    <3>2. e.block \in Allocated BY <3>1 DEF Allocated
    <3> QED BY <1>0, <2>2, <3>2 DEF DrainKeep, KnownInv, fsmVars, allocVars
  <2>3. CASE DrainNext BY <1>0, <2>3 DEF DrainNext, KnownInv, fsmVars, allocVars
  <2>4. CASE \/ \E t \in {"bulkdelete", "cleanup"} : VacuumStart(t)
             \/ \E b \in Blocks : Unlink(b)
             \/ StripDone \/ Compact \/ SweepStart \/ SweepLock \/ SweepPage \/ SweepDone
             \/ \E e \in Logged : DrainReclaim(e)
             \/ Collapse \/ CleanupDone
    BY <1>1, <2>4 DEF VacuumStart, Unlink, StripDone, Compact, SweepStart, SweepLock, SweepPage,
       SweepDone, DrainReclaim, Collapse, CleanupDone, fsmVars, vacVars, allocVars
  <2> QED BY <1>4, <2>1, <2>2, <2>3, <2>4 DEF VacuumCase
<1>5. CASE ScanCase
  BY <1>1, <1>5 DEF ScanCase, ScanStart, ScanRoot, ScanEnd, AssignXid, fsmVars, vacVars, allocVars
<1>6. CASE FaultCase
  <2>1. CASE Crash BY <1>0, <2>1 DEF Crash, KnownInv
  <2>2. ASSUME NEW p \in Procs, Error(p) PROVE KnownInv'
    <3>1. kept' = kept \/ kept' = {} BY <2>2 DEF Error, vacVars
    <3>2. fsm' = fsm /\ recorded' = recorded /\ cand' = [cand EXCEPT ![p] = None]
      BY <2>2 DEF Error, fsmVars
    <3> QED BY <1>0, <3>1, <3>2 DEF KnownInv, TypeProcs
  <2> QED BY <1>6, <2>1, <2>2 DEF FaultCase
<1> QED BY <1>2, <1>3, <1>4, <1>5, <1>6, NextCases

(* Every step keeps LockInv.                                               *)
LEMMA LockStep == ASSUME IInv, Next PROVE LockInv'
<1>0. /\ LockInv /\ TypeProcs /\ Inserters \subseteq Procs /\ Vacuum \in Procs /\ None \notin Procs
      /\ Vacuum \notin Inserters
  BY ProcFacts, ReclaimAssumption DEF IInv, Types
<1> USE DEF LockInv, MergePc, PcState, TypeProcs, Goto
<1>1. CASE UNCHANGED <<merge_lock, pc>> BY <1>0, <1>1
<1>2. ASSUME NEW p \in Procs, WriterStep(p) PROVE LockInv'
  <2>1. CASE Extend(p) \/ BuildCall(p) \/ BuildPage(p)
    BY <1>1, <2>1 DEF Extend, GetFree, MarkUsed, TryReuse, ExtendRel, BuildCall, BuildPage, lockVars
  <2>2. CASE AppendLink(p) BY <1>0, <2>2 DEF AppendLink
  <2>3. CASE FlushRun(p) BY <1>0, <2>3 DEF FlushRun, lockVars
  <2>4. CASE Finalize(p) BY <1>0, <2>4 DEF Finalize, lockVars
  <2>5. CASE FreeBatch(p) BY <1>0, <2>5 DEF FreeBatch, lockVars
  <2>6. CASE LogChunk(p) BY <1>0, <2>6 DEF LogChunk, lockVars
  <2>7. CASE LogExtend(p) BY <1>0, <2>7 DEF LogExtend
  <2>8. CASE LogNewPage(p) BY <1>0, <2>8 DEF LogNewPage
  <2>9. CASE FreeDone(p) BY <1>0, <2>9 DEF FreeDone, AfterMerge
  <2> QED BY <1>2, <2>1, <2>2, <2>3, <2>4, <2>5, <2>6, <2>7, <2>8, <2>9 DEF WriterStep
<1>3. ASSUME NEW p \in Inserters, AppendStart(p) \/ MergeTryLock(p) PROVE LockInv'
  BY <1>0, <1>3 DEF AppendStart, MergeTryLock, BuildStart
<1>4. CASE VacuumCase
  <2>1. CASE \E t \in {"bulkdelete", "cleanup"} : VacuumStart(t)
    BY <1>0, <2>1 DEF VacuumStart, BuildStart, AfterMerge
  <2>2. CASE (\E b \in Blocks : Unlink(b)) \/ (\E e \in Logged : DrainKeep(e))
    BY <1>1, <2>2 DEF Unlink, DrainKeep, lockVars
  <2>3. CASE StripDone \/ CleanupDone BY <1>0, <2>3 DEF StripDone, CleanupDone, VacuumUnlock
  <2>4. CASE Compact \/ SweepStart \/ SweepLock \/ SweepPage \/ SweepFree \/ SweepDone
             \/ (\E e \in Logged : DrainReclaim(e)) \/ DrainFree \/ DrainNext \/ Collapse
             \/ CollapseFree
    <3>1. pc[Vacuum] \in MergePc /\ merge_lock' = merge_lock
      BY <2>4 DEF Compact, SweepStart, SweepLock, SweepPage, SweepFree, SweepDone,
         DrainReclaim, DrainFree, DrainNext, Collapse, CollapseFree, lockVars
    <3>2. \A q \in Procs : q # Vacuum => pc'[q] = pc[q]
      BY <1>0, <2>4 DEF Compact, BuildStart, SweepStart, SweepLock, SweepPage, SweepFree, SweepDone,
         DrainReclaim, DrainFree, DrainNext, Collapse, CollapseFree
    <3> QED BY <1>0, <3>1, <3>2
  <2> QED BY <1>4, <2>1, <2>2, <2>3, <2>4 DEF VacuumCase
<1>5. CASE ScanCase
  BY <1>1, <1>5 DEF ScanCase, ScanStart, ScanRoot, ScanEnd, AssignXid, lockVars
<1>6. CASE FaultCase
  <2>1. CASE Crash BY <1>0, <2>1 DEF Crash
  <2>2. ASSUME NEW p \in Procs, Error(p) PROVE LockInv' BY <1>0, <2>2 DEF Error
  <2> QED BY <1>6, <2>1, <2>2 DEF FaultCase
<1> QED BY <1>2, <1>3, <1>4, <1>5, <1>6, NextCases

(* Every step keeps AllocPc.                                               *)
LEMMA AllocPcStep == ASSUME IInv, Next PROVE AllocPc'
<1>0. /\ AllocPc /\ TypeProcs /\ Inserters \subseteq Procs /\ Vacuum \in Procs
      /\ None \notin Blocks /\ Vacuum \notin Inserters
  BY ProcFacts, ReclaimAssumption DEF IInv, Types, AllocInv
<1> USE DEF AllocPc, PcState, TypeProcs, Goto
<1>1. CASE UNCHANGED <<pc, allocVars>> BY <1>0, <1>1 DEF allocVars
<1>2. ASSUME NEW p \in Procs, WriterStep(p) PROVE AllocPc'
  <2>1. CASE \E b \in Blocks : GetFree(p, b) BY <1>0, <2>1 DEF GetFree
  <2>2. CASE MarkUsed(p) BY <1>0, <2>2 DEF MarkUsed
  <2>3. CASE TryReuse(p) BY <1>0, <2>3 DEF TryReuse
  <2>4. CASE ExtendRel(p) BY <1>0, <2>4 DEF ExtendRel
  <2>5. CASE AppendLink(p) BY <1>0, <2>5 DEF AppendLink, ReleasePage
  <2>6. CASE BuildCall(p) BY <1>0, <2>6 DEF BuildCall, CallExtend
  <2>7. CASE BuildPage(p) BY <1>0, <2>7 DEF BuildPage, ReleasePage
  <2>8. CASE FlushRun(p) BY <1>0, <2>8 DEF FlushRun, allocVars
  <2>9. CASE Finalize(p) BY <1>0, <2>9 DEF Finalize, allocVars
  <2>10. CASE FreeBatch(p) BY <1>0, <2>10 DEF FreeBatch, allocVars
  <2>11. CASE LogChunk(p) BY <1>0, <2>11 DEF LogChunk, allocVars
  <2>12. CASE LogExtend(p) BY <1>0, <2>12 DEF LogExtend, CallExtend
  <2>13. CASE LogNewPage(p) BY <1>0, <2>13 DEF LogNewPage, ReleasePage
  <2>14. CASE FreeDone(p) BY <1>0, <2>14 DEF FreeDone, allocVars
  <2> QED BY <1>2, <2>1, <2>2, <2>3, <2>4, <2>5, <2>6, <2>7, <2>8, <2>9, <2>10, <2>11, <2>12,
             <2>13, <2>14 DEF WriterStep, Extend
<1>3. ASSUME NEW p \in Inserters, AppendStart(p) PROVE AllocPc'
  BY <1>0, <1>3 DEF AppendStart, CallExtend
<1>4. ASSUME NEW p \in Inserters, MergeTryLock(p) PROVE AllocPc'
  BY <1>0, <1>4 DEF MergeTryLock, BuildStart, allocVars
<1>5. CASE VacuumCase
  <2>1. alloc' = alloc /\ buf' = buf /\ cand' = cand
    BY <1>5 DEF VacuumCase, VacuumStart, StripDone, Compact, SweepStart, SweepLock,
       SweepPage, SweepFree, SweepDone, DrainKeep, DrainFree, DrainNext, CollapseFree,
       CleanupDone, Unlink, DrainReclaim, Collapse, allocVars
  <2>2. /\ pc[Vacuum] \notin {"append", "build", "log_page"}
        /\ \A q \in Procs : q # Vacuum => pc'[q] = pc[q]
    BY <1>0, <1>5 DEF VacuumCase, VacuumStart, BuildStart, StripDone, Compact, SweepStart,
       SweepLock, SweepPage, SweepFree, SweepDone, DrainKeep, DrainFree, DrainNext,
       CollapseFree, CleanupDone, VacuumUnlock, Unlink, DrainReclaim, Collapse
  <2> QED BY <1>0, <2>1, <2>2
<1>6. CASE ScanCase BY <1>1, <1>6 DEF ScanCase, ScanStart, ScanRoot, ScanEnd, AssignXid
<1>7. CASE FaultCase
  <2>1. CASE Crash BY <1>0, <2>1 DEF Crash
  <2>2. ASSUME NEW p \in Procs, Error(p) PROVE AllocPc' BY <1>0, <2>2 DEF Error
  <2> QED BY <1>7, <2>1, <2>2 DEF FaultCase
<1> QED BY <1>2, <1>3, <1>4, <1>5, <1>6, <1>7, NextCases

(* Every step keeps AllocPage: a blank page whose buffer is locked is left *)
(* alone by everyone else.                                                 *)
LEMMA AllocPageStep == ASSUME IInv, Next PROVE AllocPage'
<1>0. /\ AllocPc /\ AllocPage /\ TypeProcs /\ TypePages /\ Inserters \subseteq Procs /\ Vacuum \in Procs
      /\ None \notin Blocks /\ None \notin Procs /\ Vacuum \notin Inserters /\ VacuumInv
  BY ProcFacts, ReclaimAssumption DEF IInv, Types, AllocInv
<1> SUFFICES ASSUME NEW q \in Procs, alloc'[q] = "got" PROVE GotPage(q)' BY DEF AllocPage
<1>1. CASE \E p \in Procs : ExtendRel(p)
  <2>1. PICK p \in Procs : ExtendRel(p) BY <1>1
  <2>2. PICK b \in Blocks : /\ page[b] = "absent" /\ page' = [page EXCEPT ![b] = "blank"]
                            /\ held' = [held EXCEPT ![b] = p] /\ buf' = [buf EXCEPT ![p] = b]
    BY <2>1, ExtendFacts
  <2>3. alloc' = [alloc EXCEPT ![p] = "got"] BY <2>1 DEF ExtendRel
  <2>4. CASE q = p BY <1>0, <2>2, <2>4 DEF GotPage, TypeProcs, TypePages
  <2>5. CASE q # p
    <3>1. alloc[q] = "got" /\ buf'[q] = buf[q] BY <1>0, <2>2, <2>3, <2>5 DEF TypeProcs
    <3>2. GotPage(q) BY <1>0, <3>1 DEF AllocPage
    <3> QED BY <1>0, <2>2, <3>1, <3>2 DEF GotPage, TypeProcs, TypePages
  <2> QED BY <2>4, <2>5
<1>2. CASE \E p \in Procs : TryReuse(p)
  <2>1. PICK p \in Procs : TryReuse(p) BY <1>2
  <2>2. cand[p] \in Blocks /\ page' = page BY <1>0, <2>1 DEF TryReuse, AllocPc, TypeProcs, pageVars
  <2>3. CASE q = p BY <1>0, <2>1, <2>2, <2>3 DEF TryReuse, Reusable, GotPage, TypeProcs, TypePages
  <2>4. CASE q # p
    <3>1. alloc[q] = "got" /\ buf'[q] = buf[q] BY <1>0, <2>1, <2>4 DEF TypeProcs, TryReuse
    <3>2. GotPage(q) BY <1>0, <3>1 DEF AllocPage
    <3>3. held'[buf[q]] = q
      <4>1. held[buf[q]] # None BY <1>0, <3>2 DEF GotPage
      <4> QED BY <1>0, <2>1, <2>2, <3>2, <4>1 DEF GotPage, TypeProcs, TryReuse
    <3> QED BY <2>2, <3>1, <3>2, <3>3 DEF GotPage
  <2> QED BY <2>3, <2>4
<1>3. CASE ~(\E p \in Procs : ExtendRel(p)) /\ ~(\E p \in Procs : TryReuse(p))
  <2>1. alloc[q] = "got" /\ buf'[q] = buf[q] /\ held'[buf[q]] = held[buf[q]]
    <3>1. ASSUME NEW p \in Procs, WriterStep(p)
          PROVE  alloc[q] = "got" /\ buf'[q] = buf[q] /\ held'[buf[q]] = held[buf[q]]
      <4>1. CASE \E b \in Blocks : GetFree(p, b) BY <1>0, <4>1 DEF GetFree, TypeProcs, lockVars
      <4>2. CASE MarkUsed(p) BY <1>0, <4>2 DEF MarkUsed, TypeProcs, lockVars
      <4>3. CASE BuildCall(p) BY <1>0, <4>3 DEF BuildCall, CallExtend, TypeProcs, lockVars
      <4>4. CASE LogExtend(p) BY <1>0, <4>4 DEF LogExtend, CallExtend, TypeProcs
      <4>5. CASE FlushRun(p) \/ Finalize(p) \/ FreeBatch(p) \/ LogChunk(p) \/ FreeDone(p)
        BY <4>5 DEF FlushRun, Finalize, FreeBatch, LogChunk, FreeDone, allocVars, lockVars
      <4>6. CASE AppendLink(p) \/ BuildPage(p) \/ LogNewPage(p)
        <5>1. q # p /\ alloc[q] = "got" /\ buf'[q] = buf[q] /\ alloc[p] = "got"
          BY <1>0, <4>6 DEF AppendLink, BuildPage, LogNewPage, ReleasePage, HasPage, TypeProcs
        <5>2. GotPage(q) /\ GotPage(p) BY <1>0, <5>1 DEF AllocPage
        <5>3. buf[q] # buf[p] BY <5>1, <5>2 DEF GotPage
        <5>4. held[buf[q]] = q BY <5>2 DEF GotPage
        <5>5. \/ held' = [b \in Blocks |-> IF held[b] = p THEN None ELSE held[b]]
              \/ held' = [held EXCEPT ![buf[p]] = None]
          BY <4>6 DEF AppendLink, BuildPage, LogNewPage
        <5> QED BY <1>0, <5>1, <5>2, <5>3, <5>4, <5>5 DEF GotPage, TypeProcs
      <4> QED BY <1>3, <3>1, <4>1, <4>2, <4>3, <4>4, <4>5, <4>6 DEF WriterStep, Extend
    <3>2. ASSUME NEW p \in Inserters, AppendStart(p)
          PROVE  alloc[q] = "got" /\ buf'[q] = buf[q] /\ held'[buf[q]] = held[buf[q]]
      <4>1. alloc[q] = "got" /\ buf' = buf BY <1>0, <3>2 DEF AppendStart, CallExtend, TypeProcs
      <4>2. buf[q] \in Blocks /\ held[buf[q]] = q BY <1>0, <4>1 DEF AllocPage, GotPage
      <4>3. pend # <<>> => held[pend[Len(pend)]] = None BY <3>2 DEF AppendStart
      <4>4. held' = IF pend = <<>> THEN held ELSE [held EXCEPT ![pend[Len(pend)]] = p]
        BY <3>2 DEF AppendStart
      <4> QED BY <1>0, <4>1, <4>2, <4>3, <4>4 DEF TypeProcs
    <3>3. CASE \E p \in Inserters : MergeTryLock(p) BY <3>3 DEF MergeTryLock, allocVars
    <3>4. CASE VacuumCase
      <4>1. alloc' = alloc /\ buf' = buf
        BY <3>4 DEF VacuumCase, VacuumStart, StripDone, Compact, SweepStart, SweepLock,
           SweepPage, SweepFree, SweepDone, DrainKeep, DrainFree, DrainNext, CollapseFree,
           CleanupDone, Unlink, DrainReclaim, Collapse, allocVars
      <4>2. alloc[q] = "got" /\ GotPage(q) BY <1>0, <4>1 DEF AllocPage
      <4>3. buf[q] \in Blocks /\ held[buf[q]] = q BY <4>2 DEF GotPage
      <4>4. CASE SweepLock BY <1>0, <4>1, <4>2, <4>3, <4>4 DEF SweepLock, TypeProcs
      <4>5. CASE SweepPage
        <5>1. q # Vacuum BY <1>0, <4>2, <4>5 DEF SweepPage, AllocPc
        <5>2. held[blkno] = Vacuum /\ held' = [held EXCEPT ![blkno] = None]
          BY <1>0, <4>5 DEF SweepPage, VacuumInv
        <5> QED BY <1>0, <4>1, <4>2, <4>3, <5>1, <5>2 DEF TypeProcs
      <4>6. CASE held' = held BY <4>1, <4>2, <4>6
      <4>7. held' = held \/ SweepLock \/ SweepPage
        BY <3>4 DEF VacuumCase, VacuumStart, StripDone, Compact, SweepStart,
           SweepFree, SweepDone, DrainKeep, DrainFree, DrainNext, CollapseFree,
           CleanupDone, Unlink, DrainReclaim, Collapse, lockVars
      <4> QED BY <4>4, <4>5, <4>6, <4>7
    <3>5. CASE ScanCase
      BY <3>5 DEF ScanCase, ScanStart, ScanRoot, ScanEnd, AssignXid, allocVars, lockVars
    <3>6. CASE FaultCase
      <4>1. CASE Crash BY <4>1 DEF Crash
      <4>2. ASSUME NEW p \in Procs, Error(p)
            PROVE  alloc[q] = "got" /\ buf'[q] = buf[q] /\ held'[buf[q]] = held[buf[q]]
        <5>1. q # p /\ alloc[q] = "got" /\ buf'[q] = buf[q] BY <1>0, <4>2 DEF Error, TypeProcs
        <5>2. buf[q] \in Blocks /\ held[buf[q]] = q BY <1>0, <5>1 DEF AllocPage, GotPage
        <5> QED BY <4>2, <5>1, <5>2 DEF Error
      <4> QED BY <3>6, <4>1, <4>2 DEF FaultCase
    <3> QED BY <3>1, <3>2, <3>3, <3>4, <3>5, <3>6, NextCases
  <2>2. GotPage(q) BY <1>0, <2>1 DEF AllocPage
  <2>3. page'[buf[q]] = "blank"
    <3>1. page[buf[q]] = "blank" /\ buf[q] \in Blocks /\ held[buf[q]] = q BY <2>2 DEF GotPage
    <3>2. ASSUME NEW p \in Procs, AppendLink(p) \/ BuildPage(p) \/ LogNewPage(p),
                 held[buf[p]] = p, PageSet(buf[p], "live")
          PROVE  page'[buf[q]] = "blank"
      <4>1. p # q BY <1>0, <3>2 DEF AppendLink, BuildPage, LogNewPage, ReleasePage, TypeProcs
      <4>2. buf[q] # buf[p] BY <3>1, <3>2, <4>1
      <4> QED BY <1>0, <3>1, <3>2, <4>2 DEF PageSet, TypePages
    <3>3. ASSUME NEW b \in Blocks, page[b] # "blank", NEW st, PageSet(b, st)
          PROVE  page'[buf[q]] = "blank"
      BY <1>0, <3>1, <3>3 DEF PageSet, TypePages
    <3> QED BY <1>3, <3>1, <3>2, <3>3, PageEffects
  <2> QED BY <2>1, <2>2, <2>3 DEF GotPage
<1> QED BY <1>1, <1>2, <1>3

(* Every step keeps BuildLocal.                                            *)
LEMMA BuildLocalStep == ASSUME IInv, Next PROVE BuildLocal'
<1>0. /\ BuildLocal /\ TypeProcs /\ TypeBuild /\ TypePages /\ AllocInv
      /\ Inserters \subseteq Procs /\ Vacuum \in Procs /\ Vacuum \notin Inserters
  BY ProcFacts, ReclaimAssumption DEF IInv, Types, BuildInv
<1> USE DEF BuildLocal, PcState, TypeProcs, TypeBuild, Goto
<1>1. CASE UNCHANGED <<pc, buildVars, freeVars>> BY <1>0, <1>1 DEF buildVars, freeVars
<1>2. ASSUME NEW p \in Procs, WriterStep(p) PROVE BuildLocal'
  <2>1. CASE Extend(p) \/ BuildCall(p)
    BY <1>1, <2>1 DEF Extend, GetFree, MarkUsed, TryReuse, ExtendRel, BuildCall
  <2>2. CASE AppendLink(p) BY <1>0, <2>2 DEF AppendLink, buildVars, freeVars
  <2>3. CASE BuildPage(p) BY <1>0, <2>3 DEF BuildPage, freeVars
  <2>4. CASE FlushRun(p) BY <1>0, <2>4 DEF FlushRun, freeVars
  <2>5. CASE Finalize(p)
    <3>1. /\ pc[p] \in {"build", "flushed"}
          /\ pc' = [pc EXCEPT ![p] = "free"] /\ old' = [old EXCEPT ![p] = {}]
          /\ new' = [new EXCEPT ![p] = {}] /\ todo' = todo /\ batch_xid' = batch_xid
          /\ \A q \in Procs : q # p => batches'[q] = batches[q]
      BY <1>0, <2>5, FinalizeFacts DEF Finalize
    <3> QED BY <1>0, <3>1
  <2>6. CASE FreeBatch(p) BY <1>0, <2>6 DEF FreeBatch, buildVars, TypePages
  <2>7. CASE LogChunk(p)
    <3>1. PICK take \in SUBSET todo[p] : ChunkTaken(p, take) BY <2>7, LogChunkFacts
    <3> QED BY <1>0, <2>7, <3>1 DEF ChunkTaken, LogChunk, buildVars
  <2>8. CASE LogExtend(p) BY <1>0, <2>8 DEF LogExtend, buildVars, freeVars
  <2>9. CASE LogNewPage(p)
    <3>1. PICK take \in SUBSET todo[p] : ChunkTaken(p, take) BY <2>9, LogNewPageFacts
    <3> QED BY <1>0, <2>9, <3>1 DEF ChunkTaken, LogNewPage, buildVars
  <2>10. CASE FreeDone(p) BY <1>0, <2>10 DEF FreeDone, AfterMerge, buildVars
  <2> QED BY <1>2, <2>1, <2>2, <2>3, <2>4, <2>5, <2>6, <2>7, <2>8, <2>9, <2>10 DEF WriterStep
<1>3. ASSUME NEW p \in Inserters, AppendStart(p) PROVE BuildLocal'
  BY <1>0, <1>3 DEF AppendStart, buildVars, freeVars
<1>4. ASSUME NEW p \in Inserters, MergeTryLock(p) PROVE BuildLocal'
  BY <1>0, <1>4 DEF MergeTryLock, BuildStart, freeVars
<1>5. CASE VacuumCase
  <2>1. CASE \E t \in {"bulkdelete", "cleanup"} : VacuumStart(t)
    BY ZenonT(30), <1>0, <2>1 DEF VacuumStart, BuildStart, AfterMerge, freeVars
  <2>2. CASE Compact BY <1>0, <2>2 DEF Compact, BuildStart, freeVars
  <2>3. CASE (\E b \in Blocks : Unlink(b)) \/ (\E e \in Logged : DrainKeep(e))
    BY <1>1, <2>3 DEF Unlink, DrainKeep
  <2>4. CASE StripDone \/ SweepStart \/ SweepLock \/ SweepPage \/ SweepFree \/ SweepDone
             \/ (\E e \in Logged : DrainReclaim(e)) \/ DrainFree \/ DrainNext
             \/ Collapse \/ CollapseFree \/ CleanupDone
    <3>1. /\ UNCHANGED <<buildVars, freeVars>>
          /\ pc[Vacuum] \notin {"build", "flushed", "free", "log", "log_page"}
      BY <2>4 DEF StripDone, SweepStart, SweepLock, SweepPage, SweepFree, SweepDone,
         DrainReclaim, DrainFree, DrainNext, Collapse, CollapseFree, CleanupDone
    <3>2. /\ \A q \in Procs : q # Vacuum => pc'[q] = pc[q]
          /\ pc'[Vacuum] \notin {"build", "flushed", "free", "log", "log_page"}
      BY <1>0, <2>4 DEF StripDone, SweepStart, SweepLock, SweepPage, SweepFree, SweepDone,
         DrainReclaim, DrainFree, DrainNext, Collapse, CollapseFree, CleanupDone, VacuumUnlock
    <3> QED BY <1>0, <3>1, <3>2 DEF buildVars, freeVars
  <2> QED BY <1>5, <2>1, <2>2, <2>3, <2>4 DEF VacuumCase
<1>6. CASE ScanCase BY <1>1, <1>6 DEF ScanCase, ScanStart, ScanRoot, ScanEnd, AssignXid
<1>7. CASE FaultCase
  <2>1. CASE Crash BY <1>0, <2>1 DEF Crash
  <2>2. ASSUME NEW p \in Procs, Error(p) PROVE BuildLocal' BY <1>0, <2>2 DEF Error
  <2> QED BY <1>7, <2>1, <2>2 DEF FaultCase
<1> QED BY <1>2, <1>3, <1>4, <1>5, <1>6, <1>7, NextCases

(* One backend at a time is under the merge lock.                          *)
LEMMA OneMerger ==
    ASSUME IInv, NEW p \in Procs, NEW q \in Procs, pc[p] \in MergePc, pc[q] \in MergePc
    PROVE  p = q
BY DEF IInv, LockInv

(* Every step keeps BuildLinked: others only append to the list.           *)
LEMMA BuildLinkedStep == ASSUME IInv, Next PROVE BuildLinked'
<1>0. /\ BuildLinked /\ LockInv /\ TypeProcs /\ TypeBuild /\ TypeLinks
      /\ Inserters \subseteq Procs /\ Vacuum \in Procs /\ Vacuum \notin Inserters
      /\ Len(pend) \in Nat
  BY ProcFacts, ReclaimAssumption, LenProperties DEF IInv, Types, BuildInv, TypeLinks
<1> USE DEF BuildLinked
<1>1. CASE UNCHANGED <<tree, pend, pc, wm, old>> BY <1>0, <1>1
<1>2. ASSUME NEW p \in Procs, WriterStep(p) PROVE BuildLinked'
  <2>1. CASE Extend(p) \/ BuildCall(p) \/ BuildPage(p)
    BY <1>1, <2>1 DEF Extend, GetFree, MarkUsed, TryReuse, ExtendRel, BuildCall, BuildPage,
       linkVars, buildVars
  <2>2. CASE AppendLink(p)
    <3>1. Len(pend') = Len(pend) + 1 BY <2>2, AppendLinkFacts
    <3>2. /\ tree' = tree /\ wm' = wm /\ old' = old /\ pc' = [pc EXCEPT ![p] = "idle"]
      BY <2>2 DEF AppendLink, Goto, buildVars
    <3> QED BY <1>0, <3>1, <3>2 DEF TypeProcs
  <2>3. ASSUME FlushRun(p) \/ Finalize(p), NEW q \in Procs, q # p
        PROVE  pc'[q] = pc[q] /\ pc[q] \notin {"build", "flushed"}
    <3>1. pc[p] \in MergePc BY <2>3 DEF FlushRun, Finalize, MergePc, PcState
    <3>2. pc[q] \notin MergePc BY <2>3, <3>1, OneMerger
    <3> QED BY <1>0, <2>3, <3>2 DEF FlushRun, Finalize, MergePc, PcState, Goto, TypeProcs
  <2>4. CASE FlushRun(p)
    <3>1. /\ pc' = [pc EXCEPT ![p] = "flushed"] /\ old' = [old EXCEPT ![p] = tree']
          /\ wm' = wm /\ pend' = pend /\ pc[p] = "build"
      BY <2>4 DEF FlushRun, Goto
    <3> QED BY <1>0, <2>3, <2>4, <3>1 DEF TypeBuild
  <2>5. CASE Finalize(p)
    <3>1. pc'[p] = "free" BY <1>0, <2>5 DEF Finalize, Goto, TypeProcs
    <3> QED BY <2>3, <2>5, <3>1
  <2>6. CASE FreeBatch(p) \/ LogChunk(p) \/ LogExtend(p) \/ LogNewPage(p) \/ FreeDone(p)
    <3>1. UNCHANGED <<tree, pend, wm, old>>
      BY <2>6 DEF FreeBatch, LogChunk, LogExtend, LogNewPage, FreeDone, linkVars, buildVars
    <3>2. pc'[p] \notin {"build", "flushed"} /\ \A q \in Procs : q # p => pc'[q] = pc[q]
      BY <1>0, <2>6 DEF FreeBatch, LogChunk, LogExtend, LogNewPage, FreeDone, AfterMerge, Goto, TypeProcs
    <3> QED BY <1>0, <3>1, <3>2
  <2> QED BY <1>2, <2>1, <2>2, <2>4, <2>5, <2>6 DEF WriterStep
<1>3. ASSUME NEW p \in Inserters, AppendStart(p) PROVE BuildLinked'
  BY <1>0, <1>3 DEF AppendStart, Goto, TypeProcs, linkVars, buildVars
<1>4. ASSUME NEW p \in Procs, NEW n \in 0 .. Len(pend), BuildStart(p, n), UNCHANGED linkVars
      PROVE  BuildLinked'
  <2>1. /\ wm' = [wm EXCEPT ![p] = n] /\ old' = [old EXCEPT ![p] = tree]
        /\ pc' = [pc EXCEPT ![p] = "build"] /\ tree' = tree /\ pend' = pend
    BY <1>4 DEF BuildStart, Goto, linkVars
  <2>2. wm'[p] = n /\ old'[p] = tree BY <1>0, <2>1 DEF TypeBuild
  <2>3. \A q \in Procs : q # p => wm'[q] = wm[q] /\ old'[q] = old[q] /\ pc'[q] = pc[q]
    BY <1>0, <2>1 DEF TypeBuild, TypeProcs
  <2> QED BY <1>0, <2>1, <2>2, <2>3
<1>5. ASSUME NEW p \in Inserters, MergeTryLock(p) PROVE BuildLinked'
  BY <1>0, <1>4, <1>5 DEF MergeTryLock
<1>6. CASE VacuumCase
  <2>1. CASE \E t \in {"bulkdelete", "cleanup"} : VacuumStart(t)
    <3>1. PICK t \in {"bulkdelete", "cleanup"} : VacuumStart(t) BY <2>1
    <3>2. CASE pend = <<>>
      <4>1. UNCHANGED <<tree, pend, wm, old>> /\ Goto(Vacuum, AfterMerge(t))
        BY <3>1, <3>2 DEF VacuumStart, linkVars
      <4> QED BY <1>0, <4>1 DEF Goto, AfterMerge, TypeProcs
    <3>3. CASE pend # <<>> BY <1>0, <1>4, <3>1, <3>3 DEF VacuumStart
    <3> QED BY <3>2, <3>3
  <2>2. CASE Compact BY <1>0, <1>4, <2>2 DEF Compact
  <2>3. CASE \E b \in Blocks : Unlink(b)
    <3>1. pc[Vacuum] = "strip" /\ pc' = pc BY <2>3 DEF Unlink
    <3>2. \A q \in Procs : pc[q] \in {"build", "flushed"} => q = Vacuum
      BY <1>0, <3>1, OneMerger DEF MergePc, PcState
    <3> QED BY <3>1, <3>2
  <2>4. CASE \E e \in Logged : DrainKeep(e) BY <1>1, <2>4 DEF DrainKeep, linkVars, buildVars
  <2>5. CASE StripDone \/ SweepStart \/ SweepLock \/ SweepPage \/ SweepFree \/ SweepDone
             \/ (\E e \in Logged : DrainReclaim(e)) \/ DrainFree \/ DrainNext
             \/ Collapse \/ CollapseFree \/ CleanupDone
    <3>1. UNCHANGED <<tree, pend, wm, old>>
      BY <2>5 DEF StripDone, SweepStart, SweepLock, SweepPage, SweepFree, SweepDone,
         DrainReclaim, DrainFree, DrainNext, Collapse, CollapseFree, CleanupDone, linkVars, buildVars
    <3>2. /\ \A q \in Procs : q # Vacuum => pc'[q] = pc[q]
          /\ pc'[Vacuum] \notin {"build", "flushed"}
      BY <1>0, <2>5 DEF StripDone, SweepStart, SweepLock, SweepPage, SweepFree, SweepDone,
         DrainReclaim, DrainFree, DrainNext, Collapse, CollapseFree, CleanupDone, VacuumUnlock,
         Goto, TypeProcs
    <3> QED BY <1>0, <3>1, <3>2
  <2> QED BY <1>6, <2>1, <2>2, <2>3, <2>4, <2>5 DEF VacuumCase
<1>7. CASE ScanCase
  BY <1>1, <1>7 DEF ScanCase, ScanStart, ScanRoot, ScanEnd, AssignXid, linkVars, buildVars
<1>8. CASE FaultCase
  <2>1. CASE Crash BY <1>0, <2>1 DEF Crash
  <2>2. ASSUME NEW p \in Procs, Error(p) PROVE BuildLinked'
    BY <1>0, <2>2 DEF Error, Goto, TypeProcs, TypeBuild, linkVars
  <2> QED BY <1>8, <2>1, <2>2 DEF FaultCase
<1> QED BY <1>2, <1>3, <1>5, <1>6, <1>7, <1>8, NextCases

(* Every step keeps VacuumInv.                                             *)
LEMMA VacuumInvStep == ASSUME IInv, Next PROVE VacuumInv'
<1>0. /\ VacuumInv /\ TypeVacuum /\ TypeProcs /\ TypePages /\ TypeLinks /\ AllocInv
      /\ Inserters \subseteq Procs /\ Vacuum \in Procs /\ Vacuum \notin Inserters
      /\ None \notin Procs /\ Allocated \subseteq Allocated' /\ Len(log) \in Nat
  BY ProcFacts, ReclaimAssumption, FileStep, LenProperties DEF IInv, Types, TypeLinks
<1>1. ASSUME pc'[Vacuum] = pc[Vacuum], blkno' = blkno, nblocks' = nblocks, logat' = logat,
             Len(log') \in Nat, Len(log') >= Len(log),
             pc[Vacuum] = "sweep_page" => held'[blkno] = Vacuum
      PROVE  VacuumInv'
  BY <1>0, <1>1 DEF VacuumInv, TypeVacuum
<1>2. ASSUME pc'[Vacuum] \notin {"sweep", "sweep_page", "sweep_free", "drain", "drain_free",
                                 "collapse_free"}
      PROVE  VacuumInv'
  BY <1>2 DEF VacuumInv
<1>3. ASSUME NEW p \in Procs, WriterStep(p) PROVE VacuumInv'
  <2>1. blkno' = blkno /\ nblocks' = nblocks /\ logat' = logat
    BY <1>3 DEF WriterStep, Extend, GetFree, MarkUsed, TryReuse, ExtendRel, AppendLink,
       BuildCall, BuildPage, FlushRun, Finalize, FreeBatch, LogChunk, LogExtend, LogNewPage,
       FreeDone, vacVars
  <2>2. CASE p = Vacuum
    <3>1. /\ pc[Vacuum] \notin {"sweep", "sweep_page", "sweep_free", "drain", "drain_free",
                                 "collapse_free"}
      BY <1>0, <1>3, <2>2 DEF WriterStep, Extend, GetFree, MarkUsed, TryReuse, ExtendRel,
         AppendLink, BuildCall, BuildPage, FlushRun, Finalize, FreeBatch, LogChunk, LogExtend,
         LogNewPage, FreeDone, AllocInv, AllocPc
    <3>2. \/ pc' = pc
          \/ pc'[Vacuum] \in {"idle", "flushed", "free", "log", "log_page", "strip", "compact"}
      BY <1>0, <1>3, <2>2 DEF WriterStep, Extend, GetFree, MarkUsed, TryReuse, ExtendRel,
         AppendLink, BuildCall, BuildPage, FlushRun, Finalize, FreeBatch, LogChunk, LogExtend,
         LogNewPage, FreeDone, AfterMerge, Goto, TypeProcs
    <3> QED BY <1>2, <3>1, <3>2
  <2>3. CASE p # Vacuum
    <3>1. pc'[Vacuum] = pc[Vacuum]
      BY <1>0, <1>3, <2>3 DEF WriterStep, Extend, GetFree, MarkUsed, TryReuse, ExtendRel,
         AppendLink, BuildCall, BuildPage, FlushRun, Finalize, FreeBatch, LogChunk, LogExtend,
         LogNewPage, FreeDone, AfterMerge, Goto, TypeProcs
    <3>2. Len(log') \in Nat /\ Len(log') >= Len(log)
      <4>1. CASE LogChunk(p) BY <1>0, <4>1, LogChunkFacts DEF HeadFilled
      <4>2. CASE LogNewPage(p) BY <1>0, <4>2, LogNewPageFacts DEF HeadPushed
      <4>3. CASE ~LogChunk(p) /\ ~LogNewPage(p)
        <5>1. log' = log
          BY <1>3, <4>3 DEF WriterStep, Extend, GetFree, MarkUsed, TryReuse, ExtendRel,
             AppendLink, BuildCall, BuildPage, FlushRun, Finalize, FreeBatch, LogExtend,
             FreeDone, linkVars
        <5> QED BY <1>0, <5>1
      <4> QED BY <4>1, <4>2, <4>3
    <3>3. ASSUME pc[Vacuum] = "sweep_page" PROVE held'[blkno] = Vacuum
      <4>1. held[blkno] = Vacuum /\ blkno \in Blocks /\ page[blkno] # "absent"
        BY <1>0, <3>3 DEF VacuumInv, TypeVacuum, Allocated
      <4>2. CASE ExtendRel(p)
        <5>1. PICK b \in Blocks : page[b] = "absent" /\ held' = [held EXCEPT ![b] = p]
          BY <4>2, ExtendFacts
        <5> QED BY <1>0, <4>1, <5>1 DEF TypeProcs
      <4>3. CASE TryReuse(p) BY <1>0, <4>1, <4>3 DEF TryReuse, TypeProcs
      <4>4. CASE AppendLink(p) BY <1>0, <2>3, <4>1, <4>4 DEF AppendLink
      <4>5. CASE BuildPage(p) \/ LogNewPage(p)
        <5>1. held[buf[p]] = p
          BY <1>0, <4>5 DEF BuildPage, LogNewPage, HasPage, AllocInv, AllocPage, GotPage
        <5>2. held' = [held EXCEPT ![buf[p]] = None] BY <4>5 DEF BuildPage, LogNewPage
        <5> QED BY <1>0, <2>3, <4>1, <5>1, <5>2 DEF TypeProcs
      <4>6. CASE ~ExtendRel(p) /\ ~TryReuse(p) /\ ~AppendLink(p) /\ ~BuildPage(p) /\ ~LogNewPage(p)
        BY <1>3, <4>1, <4>6 DEF WriterStep, Extend, GetFree, MarkUsed, BuildCall, FlushRun,
           Finalize, FreeBatch, LogChunk, LogExtend, FreeDone, lockVars
      <4> QED BY <4>2, <4>3, <4>4, <4>5, <4>6
    <3> QED BY <1>1, <2>1, <3>1, <3>2, <3>3
  <2> QED BY <2>2, <2>3
<1>4. ASSUME NEW p \in Inserters, AppendStart(p) \/ MergeTryLock(p) PROVE VacuumInv'
  <2>1. /\ blkno' = blkno /\ nblocks' = nblocks /\ logat' = logat /\ log' = log
        /\ pc'[Vacuum] = pc[Vacuum]
    BY <1>0, <1>4 DEF AppendStart, MergeTryLock, BuildStart, Goto, TypeProcs, vacVars, linkVars
  <2>2. ASSUME pc[Vacuum] = "sweep_page" PROVE held'[blkno] = Vacuum
    <3>1. held[blkno] = Vacuum /\ blkno \in Blocks
      BY <1>0, <2>2 DEF VacuumInv, TypeVacuum, Allocated
    <3> QED BY <1>0, <1>4, <3>1 DEF AppendStart, MergeTryLock, TypeProcs
  <2> QED BY <1>0, <1>1, <2>1, <2>2
<1>5. CASE VacuumCase
  <2>1. CASE (\E t \in {"bulkdelete", "cleanup"} : VacuumStart(t)) \/ StripDone \/ Compact
             \/ CleanupDone \/ CollapseFree
    BY <1>0, <1>2, <2>1 DEF VacuumStart, BuildStart, AfterMerge, StripDone, Compact,
       CleanupDone, CollapseFree, VacuumUnlock, Goto, TypeProcs
  <2>2. CASE \E b \in Blocks : Unlink(b)
    <3>1. pc'[Vacuum] = "strip" BY <2>2 DEF Unlink
    <3> QED BY <1>2, <3>1
  <2>3. CASE SweepStart
    <3>1. /\ blkno' = 1 /\ nblocks' = Cardinality(Allocated) /\ pc'[Vacuum] = "sweep"
      BY <1>0, <2>3 DEF SweepStart, Goto, TypeProcs
    <3>2. Allocated = 1 .. Cardinality(Allocated) BY CardAllocated
    <3>3. 1 .. nblocks' = Allocated BY <3>1, <3>2
    <3>4. 1 .. nblocks' \subseteq Allocated' BY <1>0, <3>3
    <3> QED BY <3>1, <3>4 DEF VacuumInv
  <2>4. CASE SweepLock
    <3>1. /\ blkno \in Blocks /\ pc'[Vacuum] = "sweep_page" /\ blkno' = blkno /\ nblocks' = nblocks
          /\ held' = [held EXCEPT ![blkno] = Vacuum] /\ pc[Vacuum] = "sweep" /\ blkno <= nblocks
      BY <1>0, <2>4 DEF SweepLock, Goto, TypeProcs, VacuumInv, TypeVacuum, Allocated, vacVars
    <3> QED BY <1>0, <3>1 DEF VacuumInv, TypeProcs
  <2>5. CASE SweepPage
    <3>1. /\ pc[Vacuum] = "sweep_page" /\ nblocks' = nblocks
          /\ \/ blkno' = blkno /\ pc'[Vacuum] = "sweep_free"
             \/ blkno' = blkno + 1 /\ pc'[Vacuum] = "sweep"
      BY <1>0, <2>5 DEF SweepPage, Goto, TypeProcs
    <3> QED BY <1>0, <3>1 DEF VacuumInv, TypeVacuum
  <2>6. CASE SweepFree
    <3>1. /\ pc[Vacuum] = "sweep_free" /\ nblocks' = nblocks
          /\ blkno' = blkno + 1 /\ pc'[Vacuum] = "sweep"
      BY <1>0, <2>6 DEF SweepFree, Goto, TypeProcs
    <3> QED BY <1>0, <3>1 DEF VacuumInv, TypeVacuum
  <2>7. CASE SweepDone
    <3>1. /\ logat' = 1 /\ log' = log
          /\ pc'[Vacuum] = IF log = <<>> THEN "drained" ELSE "drain"
      BY <1>0, <2>7 DEF SweepDone, Goto, TypeProcs, linkVars
    <3>2. log # <<>> => 1 \in 1 .. Len(log) BY <1>0, EmptySeq DEF TypeLinks
    <3> QED BY <1>0, <3>1, <3>2 DEF VacuumInv
  <2>8. CASE \E e \in Logged : DrainKeep(e)
    <3>1. /\ pc' = pc /\ blkno' = blkno /\ nblocks' = nblocks /\ logat' = logat /\ log' = log
          /\ pc[Vacuum] = "drain"
      BY <2>8 DEF DrainKeep, linkVars
    <3> QED BY <1>0, <1>1, <3>1
  <2>9. ASSUME NEW e \in Logged, DrainReclaim(e) PROVE VacuumInv'
    <3>1. /\ pc[Vacuum] = "drain" /\ pc'[Vacuum] = "drain_free" /\ blkno' = e.block /\ logat' = logat
      BY <1>0, <2>9 DEF DrainReclaim, Goto, TypeProcs
    <3>2. Len(log') = Len(log) /\ e.block \in Blocks /\ page[e.block] = "live"
      BY <1>0, <2>9, DrainFacts, LogMember, InUseLive
    <3>3. e.block \in Allocated' BY <1>0, <3>2 DEF Allocated
    <3> QED BY <1>0, <3>1, <3>2, <3>3 DEF VacuumInv
  <2>10. CASE DrainFree
    <3>1. /\ pc[Vacuum] = "drain_free" /\ pc'[Vacuum] = "drain" /\ logat' = logat /\ log' = log
      BY <1>0, <2>10 DEF DrainFree, Goto, TypeProcs, linkVars
    <3> QED BY <1>0, <3>1 DEF VacuumInv
  <2>11. CASE DrainNext
    <3>1. /\ pc[Vacuum] = "drain" /\ log' = log
          /\ \/ pc'[Vacuum] = "drain" /\ logat' = logat + 1 /\ logat < Len(log)
             \/ pc'[Vacuum] = "collapse"
      BY <1>0, <2>11 DEF DrainNext, Goto, TypeProcs, linkVars
    <3> QED BY <1>0, <3>1 DEF VacuumInv, TypeVacuum
  <2>12. CASE Collapse
    <3>1. CASE Len(log) = 1 /\ log[1].ents = {}
      <4>1. pc'[Vacuum] = "collapse_free" /\ blkno' = log[1].blk
        BY <1>0, <2>12, <3>1 DEF Collapse, Goto, TypeProcs
      <4>2. 1 \in 1 .. Len(log) BY <3>1
      <4>3. 1 \in DOMAIN log BY <1>0, <4>2, LenProperties DEF TypeLinks
      <4>4. log[1].blk \in InUse BY <4>3, InUseLive
      <4>5. log[1].blk \in Allocated' BY <1>0, <4>4, InUseLive DEF Allocated
      <4> QED BY <4>1, <4>5 DEF VacuumInv
    <3>2. CASE ~(Len(log) = 1 /\ log[1].ents = {})
      BY <1>0, <1>2, <2>12, <3>2 DEF Collapse, Goto, TypeProcs
    <3> QED BY <3>1, <3>2
  <2> QED BY <1>5, <2>1, <2>2, <2>3, <2>4, <2>5, <2>6, <2>7, <2>8, <2>9, <2>10, <2>11, <2>12
      DEF VacuumCase
<1>6. CASE ScanCase
  <2>1. UNCHANGED <<pc, blkno, nblocks, logat, log, held>>
    BY <1>6 DEF ScanCase, ScanStart, ScanRoot, ScanEnd, AssignXid, vacVars, linkVars, lockVars
  <2> QED BY <1>0, <1>1, <2>1 DEF VacuumInv
<1>7. CASE FaultCase
  <2>1. CASE Crash
    <3>1. pc'[Vacuum] = "idle" BY <1>0, <2>1 DEF Crash
    <3> QED BY <1>2, <3>1
  <2>2. ASSUME NEW p \in Procs, Error(p) PROVE VacuumInv'
    <3>1. CASE p = Vacuum
      <4>1. pc'[Vacuum] = "idle" BY <1>0, <2>2, <3>1 DEF Error, Goto, TypeProcs
      <4> QED BY <1>2, <4>1
    <3>2. CASE p # Vacuum
      <4>1. /\ blkno' = blkno /\ nblocks' = nblocks /\ logat' = logat /\ log' = log
            /\ pc'[Vacuum] = pc[Vacuum]
        BY <1>0, <2>2, <3>2 DEF Error, Goto, TypeProcs, vacVars, linkVars
      <4>2. ASSUME pc[Vacuum] = "sweep_page" PROVE held'[blkno] = Vacuum
        <5>1. held[blkno] = Vacuum /\ blkno \in Blocks
          BY <1>0, <4>2 DEF VacuumInv, TypeVacuum, Allocated
        <5> QED BY <2>2, <3>2, <5>1 DEF Error
      <4> QED BY <1>0, <1>1, <4>1, <4>2
    <3> QED BY <3>1, <3>2
  <2> QED BY <1>7, <2>1, <2>2 DEF FaultCase
<1> QED BY <1>3, <1>4, <1>5, <1>6, <1>7, NextCases

(* The entries of a page of the log are logged, and conversely.            *)
LEMMA InLog ==
    /\ \A i \in DOMAIN log : \A e \in log[i].ents : e \in Logged /\ e.block \in Listed
    /\ \A b \in Listed : \E i \in DOMAIN log : \E e \in log[i].ents : b = e.block
BY DEF Logged, Listed

(* The log got entries for these pages at this XID.                        *)
LogKept(S, x) ==
    /\ Logged' = Logged \cup Entries(S, x) /\ Listed' = Listed \cup S

(* The entries made for a set of pages.                                    *)
LEMMA EntriesFacts ==
    ASSUME NEW S, NEW x
    PROVE  /\ \A e \in Entries(S, x) : e.block \in S /\ e.xid = x
           /\ \A e, f \in Entries(S, x) : e.block = f.block => e = f
           /\ {e.block : e \in Entries(S, x)} = S
<1>1. \A e \in Entries(S, x) : e.block \in S /\ e.xid = x BY DEF Entries
<1>2. \A e, f \in Entries(S, x) : e.block = f.block => e = f BY DEF Entries
<1>3. ASSUME NEW b \in S PROVE b \in {e.block : e \in Entries(S, x)}
  <2> DEFINE e == [block |-> b, xid |-> x]
  <2>1. e \in Entries(S, x) /\ e.block = b BY DEF Entries
  <2> QED BY <2>1
<1> QED BY <1>1, <1>2, <1>3

(* The blocks of two sets of entries.                                      *)
LEMMA ListedUnion ==
    ASSUME NEW A, NEW B PROVE {e.block : e \in A \cup B} = {e.block : e \in A} \cup {e.block : e \in B}
OBVIOUS

(* Filling the first page of the log logs the chunk.                       *)
LEMMA FilledEffects ==
    ASSUME NEW p \in Procs, NEW take, HeadFilled(p, take)
    PROVE  LogKept(take, batch_xid[p]) /\ LogPages' = LogPages
<1> DEFINE N == Entries(take, batch_xid[p])
<1>1. /\ DOMAIN log' = DOMAIN log /\ 1 \in DOMAIN log /\ log'[1].ents = log[1].ents \cup N
      /\ log'[1].blk = log[1].blk /\ \A j \in DOMAIN log : j # 1 => log'[j] = log[j]
  BY DEF HeadFilled
<1> HIDE DEF N
<1>2. LogPages' = LogPages BY <1>1 DEF LogPages
<1>3. \A j \in DOMAIN log : log[j].ents \subseteq log'[j].ents /\ log'[j].ents \subseteq log[j].ents \cup N
  BY <1>1
<1>4. Logged' = Logged \cup N BY <1>1, <1>3 DEF Logged
<1>5. Listed' = Listed \cup take BY <1>4, EntriesFacts, ListedUnion DEF Listed, N
<1> QED BY <1>2, <1>4, <1>5 DEF LogKept, N

(* Linking a new page logs the chunk too.                                  *)
LEMMA PushedEffects ==
    ASSUME NEW p \in Procs, NEW take, HeadPushed(p, take)
    PROVE  LogKept(take, batch_xid[p]) /\ LogPages' = LogPages \cup {buf[p]}
<1> DEFINE N == Entries(take, batch_xid[p])
           n == Len(log)
<1>1. /\ DOMAIN log' = 1 .. n + 1 /\ DOMAIN log = 1 .. n /\ n \in Nat
      /\ log'[1].blk = buf[p] /\ log'[1].ents = N
      /\ \A j \in 1 .. n : log'[j + 1] = log[j]
      /\ \A j \in DOMAIN log' : j # 1 => j - 1 \in DOMAIN log /\ log'[j] = log[j - 1]
  BY DEF HeadPushed
<1> HIDE DEF N, n
<1>2. 1 \in DOMAIN log' /\ \A j \in DOMAIN log : j + 1 \in DOMAIN log' BY <1>1
<1>3. LogPages' = LogPages \cup {buf[p]}
  <2>1. \A b \in LogPages' : b \in LogPages \cup {buf[p]} BY <1>1 DEF LogPages
  <2>2. \A b \in LogPages : b \in LogPages' BY <1>1, <1>2 DEF LogPages
  <2>3. buf[p] \in LogPages' BY <1>1, <1>2 DEF LogPages
  <2> QED BY <2>1, <2>2, <2>3
<1>4. Logged' = Logged \cup N
  <2>1. \A e \in Logged' : e \in Logged \cup N BY <1>1 DEF Logged
  <2>2. \A e \in Logged : e \in Logged' BY <1>1, <1>2 DEF Logged
  <2>3. N \subseteq Logged' BY <1>1, <1>2 DEF Logged
  <2> QED BY <2>1, <2>2, <2>3
<1>5. Listed' = Listed \cup take BY <1>4, EntriesFacts, ListedUnion DEF Listed, N
<1> QED BY <1>3, <1>4, <1>5 DEF LogKept, N

(* DrainReclaim takes its page off the log for good.                       *)
LEMMA DrainEffects ==
    ASSUME IInv, NEW e, DrainReclaim(e)
    PROVE  /\ Logged' \subseteq Logged /\ Listed' \subseteq Listed /\ LogPages' = LogPages
           /\ e \in Logged /\ e.block \notin Listed'
           /\ tree' = tree /\ pend' = pend /\ InUse' = InUse
           /\ \A i \in DOMAIN log' : i \in DOMAIN log /\ log'[i].ents \subseteq log[i].ents
                                     /\ log'[i].blk = log[i].blk
<1>1. /\ DOMAIN log' = DOMAIN log /\ logat \in DOMAIN log /\ e \in log[logat].ents
      /\ log'[logat].blk = log[logat].blk /\ log'[logat].ents = log[logat].ents \ {e}
      /\ \A j \in DOMAIN log : j # logat => log'[j] = log[j]
  BY DrainFacts
<1>2. \A i \in DOMAIN log : log'[i].ents \subseteq log[i].ents /\ log'[i].blk = log[i].blk
  BY <1>1
<1>3. LogPages' = LogPages BY <1>1, <1>2 DEF LogPages
<1>4. Logged' \subseteq Logged /\ e \in Logged BY <1>1, <1>2 DEF Logged
<1>5. Listed' \subseteq Listed BY <1>4 DEF Listed
<1>6. tree' = tree /\ pend' = pend BY DEF DrainReclaim
<1>7. InUse' = InUse BY <1>3, <1>6 DEF InUse, Elems
<1>8. ASSUME e.block \in Listed' PROVE FALSE
  <2>1. PICK f \in Logged' : e.block = f.block BY <1>8 DEF Listed
  <2>2. PICK i \in DOMAIN log' : f \in log'[i].ents BY <2>1 DEF Logged
  <2>3. i \in DOMAIN log /\ f \in log[i].ents BY <1>1, <1>2, <2>2
  <2>4. i = logat /\ f = e BY <1>1, <2>1, <2>3 DEF IInv, LinkInv, LinkOnce
  <2> QED BY <1>1, <2>2, <2>4
<1> QED BY <1>1, <1>2, <1>3, <1>4, <1>5, <1>6, <1>7, <1>8

(* Collapse removes the only page of an empty log, or does nothing.        *)
LEMMA CollapseEffects ==
    ASSUME IInv, Collapse
    PROVE  \/ UNCHANGED <<page, log, tree, pend>>
           \/ \E b \in Blocks :
                 /\ log # <<>> /\ log[1].blk = b /\ page[b] = "live" /\ PageSet(b, "blank")
                 /\ log' = <<>> /\ tree' = tree /\ pend' = pend
                 /\ LogPages = {b} /\ Logged = {} /\ Listed = {}
                 /\ LogPages' = {} /\ Logged' = {} /\ Listed' = {}
<1>1. CASE ~(Len(log) = 1 /\ log[1].ents = {}) BY <1>1 DEF Collapse
<1>2. CASE Len(log) = 1 /\ log[1].ents = {}
  <2>1. log \in Seq(LogRec) /\ 1 .. Len(log) = {1} BY <1>2 DEF IInv, Types, TypeLinks
  <2>2. DOMAIN log = {1} BY <2>1, LenProperties
  <2>3. log[1].blk \in Blocks /\ page[log[1].blk] = "live" BY <2>2, InUseLive
  <2>4. LogPages = {log[1].blk} /\ Logged = {} BY <1>2, <2>2 DEF LogPages, Logged
  <2>5. Listed = {} BY <2>4 DEF Listed
  <2>6. log' = <<>> /\ PageSet(log[1].blk, "blank") /\ tree' = tree /\ pend' = pend
    BY <1>2 DEF Collapse, PageSet
  <2>7. LogPages' = {} /\ Logged' = {} BY <2>6 DEF LogPages, Logged
  <2>8. Listed' = {} BY <2>7 DEF Listed
  <2>9. log # <<>> BY <1>2
  <2> QED BY <2>3, <2>4, <2>5, <2>6, <2>7, <2>8, <2>9
<1> QED BY <1>1, <1>2

(* What follows from the links being unchanged.                            *)
LEMMA LinkSame ==
    ASSUME UNCHANGED <<tree, pend, log>>
    PROVE  InUse' = InUse /\ Logged' = Logged /\ Listed' = Listed /\ LogPages' = LogPages
           /\ Elems(pend)' = Elems(pend)
<1>1. LogPages' = LogPages /\ Logged' = Logged /\ Elems(pend)' = Elems(pend)
  BY DEF LogPages, Logged, Elems
<1> QED BY <1>1 DEF InUse, Listed

(* Which steps change the links at all.  *)
LEMMA LinkCases ==
    ASSUME Next
    PROVE  \/ UNCHANGED <<tree, pend, log>>
           \/ \E p \in Procs : \/ AppendLink(p) \/ FlushRun(p) \/ Finalize(p) \/ LogChunk(p)
                               \/ LogNewPage(p)
           \/ \E b \in Blocks : Unlink(b)
           \/ \E e \in Logged : DrainReclaim(e)
           \/ Collapse
<1>1. ASSUME NEW p \in Procs, WriterStep(p)
      PROVE  \/ UNCHANGED <<tree, pend, log>>
             \/ AppendLink(p) \/ FlushRun(p) \/ Finalize(p) \/ LogChunk(p) \/ LogNewPage(p)
  BY <1>1 DEF WriterStep, Extend, GetFree, MarkUsed, TryReuse, ExtendRel, BuildCall,
     BuildPage, FreeBatch, LogExtend, FreeDone, linkVars
<1>2. CASE \E p \in Inserters : AppendStart(p) \/ MergeTryLock(p)
  BY <1>2 DEF AppendStart, MergeTryLock, linkVars
<1>3. CASE VacuumCase
  BY <1>3 DEF VacuumCase, VacuumStart, StripDone, Compact, SweepStart, SweepLock,
     SweepPage, SweepFree, SweepDone, DrainKeep, DrainFree, DrainNext, CollapseFree,
     CleanupDone, linkVars
<1>4. CASE ScanCase BY <1>4 DEF ScanCase, ScanStart, ScanRoot, ScanEnd, AssignXid, linkVars
<1>5. CASE FaultCase BY <1>5 DEF FaultCase, Error, Crash, linkVars
<1>6. CASE \E p \in Procs : WriterStep(p) BY <1>1, <1>6
<1> QED BY <1>2, <1>3, <1>4, <1>5, <1>6, NextCases

(* What Finalize hands over was in use and is no longer.                   *)
LEMMA FinalEffects ==
    ASSUME IInv, NEW p \in Procs, Finalize(p)
    PROVE  /\ Elems(pend') \subseteq Elems(pend) /\ log' = log /\ page' = page
           /\ \A i, j \in DOMAIN pend' : pend'[i] = pend'[j] => i = j
           /\ \A b \in UNION Elems(batches'[p]) : b \in tree \cup Elems(pend) /\ b \notin tree' \cup Elems(pend')
           /\ tree' \subseteq tree \cup new[p]
<1>1. PICK k \in 1 .. Len(pend) + 1 :
          /\ pend' \in Seq(Blocks) /\ Len(pend') = Len(pend) - k + 1
          /\ \A i \in 1 .. Len(pend') : pend'[i] = pend[i + k - 1]
          /\ \A b \in UNION Elems(batches'[p]) :
                \/ b \in tree /\ b \notin tree'
                \/ \E i \in 1 .. k - 1 : b = pend[i]
  BY FinalizeFacts
<1> DEFINE n == Len(pend)
<1>2. pend \in Seq(Blocks) BY DEF IInv, Types, TypeLinks
<1>3. n \in Nat /\ DOMAIN pend = 1 .. n BY <1>2, LenProperties
<1>4. DOMAIN pend' = 1 .. n - k + 1 /\ \A i \in 1 .. n - k + 1 : pend'[i] = pend[i + k - 1]
  BY <1>1, LenProperties
<1>5. k \in 1 .. n + 1 BY <1>1
<1> HIDE DEF n
<1>6. \A i \in 1 .. n - k + 1 : i + k - 1 \in 1 .. n /\ i + k - 1 >= k BY <1>3, <1>5
<1>7. Elems(pend') \subseteq Elems(pend) BY <1>3, <1>4, <1>6 DEF Elems
<1>8. LinkApart /\ LinkOnce BY DEF IInv, LinkInv
<1>9. \A i, j \in DOMAIN pend' : pend'[i] = pend'[j] => i = j
  <2> SUFFICES ASSUME NEW i \in 1 .. n - k + 1, NEW j \in 1 .. n - k + 1, pend'[i] = pend'[j]
               PROVE  i = j
    BY <1>4
  <2>1. i + k - 1 = j + k - 1 BY <1>3, <1>4, <1>6, <1>8 DEF LinkOnce
  <2> QED BY <1>3, <1>5, <2>1
<1>10. tree' \subseteq tree \cup new[p] BY FinalizeFacts
<1>11. \A b \in new[p] : b \notin Elems(pend) BY DEF IInv, OwnInv, OwnOut, OwnSet, InUse
<1>12. ASSUME NEW b \in UNION Elems(batches'[p])
       PROVE  b \in tree \cup Elems(pend) /\ b \notin tree' \cup Elems(pend')
  <2>1. CASE b \in tree /\ b \notin tree' BY <1>7, <1>8, <2>1 DEF LinkApart
  <2>2. CASE \E i \in 1 .. k - 1 : b = pend[i]
    <3>1. PICK i \in 1 .. k - 1 : b = pend[i] BY <2>2
    <3>2. i \in 1 .. n /\ i < k BY <1>3, <1>5
    <3>3. b \in Elems(pend) BY <1>3, <3>1, <3>2 DEF Elems
    <3>4. b \notin tree' BY <1>8, <1>10, <1>11, <3>3 DEF LinkApart
    <3>5. ASSUME b \in Elems(pend') PROVE FALSE
      <4>1. PICK j \in 1 .. n - k + 1 : b = pend'[j] BY <1>4, <3>5 DEF Elems
      <4>2. i = j + k - 1 BY <1>3, <1>4, <1>6, <1>8, <3>1, <3>2, <4>1 DEF LinkOnce
      <4> QED BY <1>3, <1>5, <1>6, <3>2, <4>2
    <3> QED BY <3>3, <3>4, <3>5
  <2> QED BY <1>1, <1>12, <2>1, <2>2
<1>13. log' = log /\ page' = page BY DEF Finalize, pageVars
<1> QED BY <1>7, <1>9, <1>10, <1>12, <1>13

(* The steps after which a live page is not live any more.                 *)
LEMMA LiveKept ==
    ASSUME IInv, Next, NEW b \in Blocks, page[b] = "live"
    PROVE  \/ page'[b] = "live"
           \/ Unlink(b)
           \/ \E e \in Logged : DrainReclaim(e) /\ b = e.block
           \/ Collapse /\ LogPages = {b} /\ log' = <<>>
<1>0. page \in [Blocks -> PageState] BY DEF IInv, Types, TypePages
<1>1. ASSUME NEW c \in Blocks, NEW st, PageSet(c, st), c # b \/ st = "live" PROVE page'[b] = "live"
  BY <1>0, <1>1 DEF PageSet
<1>2. CASE Collapse
  <2>1. CASE page' = page BY <2>1
  <2>2. ASSUME NEW c \in Blocks, PageSet(c, "blank"), log' = <<>>, LogPages = {c}
        PROVE  page'[b] = "live" \/ (LogPages = {b} /\ log' = <<>>)
    BY <1>1, <2>2
  <2> QED BY <1>2, <2>1, <2>2, CollapseEffects
<1>3. CASE \E p \in Procs : ExtendRel(p)
  <2>1. PICK p \in Procs : ExtendRel(p) BY <1>3
  <2>2. PICK c \in Blocks : page[c] = "absent" /\ page' = [page EXCEPT ![c] = "blank"]
    BY <2>1, ExtendFacts
  <2> QED BY <1>0, <2>2
<1>4. CASE ~Collapse /\ ~(\E p \in Procs : ExtendRel(p)) BY <1>1, <1>4, PageEffects
<1> QED BY <1>2, <1>3, <1>4

(* Who is not under the merge lock owns no page.                           *)
LEMMA OwnEmpty ==
    ASSUME IInv, NEW q \in Procs, pc[q] \notin MergePc
    PROVE  new[q] = {} /\ todo[q] = {} /\ batches[q] = <<>> /\ ToLog(q) = {}
<1>1. pc[q] \in PcState BY DEF IInv, Types, TypeProcs
<1>2. pc[q] \in {"idle", "append"} BY <1>1 DEF MergePc
<1>3. new[q] = {} /\ todo[q] = {} /\ batches[q] = <<>> BY <1>2 DEF IInv, BuildInv, BuildLocal
<1> QED BY <1>3 DEF ToLog, Elems

(* A merge's own pages, by their kinds.                                    *)
LEMMA OwnFacts ==
    ASSUME IInv, NEW p \in Procs
    PROVE  /\ \A b \in new[p] \cup ToLog(p) : /\ b \in Blocks /\ page[b] = "live"
                                              /\ b \notin InUse /\ b \notin Listed
           /\ todo[p] \subseteq ToLog(p)
           /\ \A i \in DOMAIN batches[p] : batches[p][i] \subseteq ToLog(p)
<1>1. new[p] \in SUBSET Blocks /\ todo[p] \in SUBSET Blocks /\ batches[p] \in Seq(SUBSET Blocks)
  BY DEF IInv, Types, TypeBuild
<1>2. \A i \in DOMAIN batches[p] : batches[p][i] \subseteq Blocks
  BY <1>1, LenProperties, ElementOfSeq
<1>3. ToLog(p) \subseteq Blocks BY <1>1, <1>2 DEF ToLog, Elems
<1>4. \A b \in new[p] \cup ToLog(p) : page[b] = "live" /\ b \notin InUse /\ b \notin Listed
  BY DEF IInv, OwnInv, OwnOut, OwnSet
<1>5. todo[p] \subseteq ToLog(p) /\ \A i \in DOMAIN batches[p] : batches[p][i] \subseteq ToLog(p)
  BY DEF ToLog, Elems
<1> QED BY <1>1, <1>3, <1>4, <1>5

(* Every step keeps LinkOnce: what is logged is not listed yet.            *)
LEMMA LinkOnceStep == ASSUME IInv, Next PROVE LinkOnce'
<1>0. LinkOnce BY DEF IInv, LinkInv
<1>1. CASE UNCHANGED <<tree, pend, log>> BY <1>0, <1>1 DEF LinkOnce
<1>2. ASSUME NEW p \in Procs, AppendLink(p) PROVE LinkOnce'
  <2> DEFINE n == Len(pend)
  <2>1. /\ page[buf[p]] = "blank" /\ n \in Nat /\ DOMAIN pend = 1 .. n /\ DOMAIN pend' = 1 .. n + 1
        /\ \A i \in DOMAIN pend : pend'[i] = pend[i]
        /\ pend'[n + 1] = buf[p]
    BY <1>2, AppendLinkFacts
  <2>2. \A i \in DOMAIN pend : pend[i] # buf[p] BY <2>1, InUseLive
  <2>3. log' = log BY <1>2 DEF AppendLink
  <2> HIDE DEF n
  <2>4. \A i \in 1 .. n + 1 : i \in 1 .. n \/ i = n + 1 BY <2>1
  <2>5. \A i, j \in DOMAIN pend' : pend'[i] = pend'[j] => i = j
    BY <1>0, <2>1, <2>2, <2>4 DEF LinkOnce
  <2> QED BY <1>0, <2>3, <2>5 DEF LinkOnce
<1>3. ASSUME NEW p \in Procs, FlushRun(p) PROVE LinkOnce' BY <1>0, <1>3 DEF FlushRun, LinkOnce
<1>4. ASSUME NEW p \in Procs, Finalize(p) PROVE LinkOnce'
  <2>1. log' = log /\ \A i, j \in DOMAIN pend' : pend'[i] = pend'[j] => i = j BY <1>4, FinalEffects
  <2> QED BY <1>0, <2>1 DEF LinkOnce
<1>5. ASSUME NEW p \in Procs, LogChunk(p) PROVE LinkOnce'
  <2>1. PICK take \in SUBSET todo[p] : HeadFilled(p, take) BY <1>5, LogChunkFacts
  <2> DEFINE N == Entries(take, batch_xid[p])
  <2>2. /\ DOMAIN log' = DOMAIN log /\ log'[1].ents = log[1].ents \cup N
        /\ log'[1].blk = log[1].blk /\ \A j \in DOMAIN log : j # 1 => log'[j] = log[j]
    BY <2>1 DEF HeadFilled
  <2>3. pend' = pend BY <1>5 DEF LogChunk
  <2>4. \A e \in N : e.block \notin Listed /\ \A f \in N : e.block = f.block => e = f
    BY EntriesFacts, OwnFacts
  <2>5. \A i \in DOMAIN log : \A e \in log[i].ents : e.block \in Listed BY InLog
  <2> HIDE DEF N
  <2>6. \A i, j \in DOMAIN log' : log'[i].blk = log'[j].blk => i = j
    BY <1>0, <2>2 DEF LinkOnce
  <2>7. \A i \in DOMAIN log' : \A e \in log'[i].ents : e \in log[i].ents \/ (i = 1 /\ e \in N)
    BY <2>2
  <2>8. \A i, j \in DOMAIN log' : \A e \in log'[i].ents, f \in log'[j].ents :
           e.block = f.block => i = j /\ e = f
    <3> SUFFICES ASSUME NEW i \in DOMAIN log, NEW j \in DOMAIN log, NEW e \in log'[i].ents,
                        NEW f \in log'[j].ents, e.block = f.block
                 PROVE  i = j /\ e = f
      BY <2>2
    <3>1. CASE e \in log[i].ents /\ f \in log[j].ents BY <1>0, <3>1 DEF LinkOnce
    <3>2. CASE e \in N \/ f \in N BY <2>2, <2>4, <2>5, <2>7, <3>2
    <3> QED BY <2>2, <2>7, <3>1, <3>2
  <2> QED BY <1>0, <2>3, <2>6, <2>8 DEF LinkOnce
<1>6. ASSUME NEW p \in Procs, LogNewPage(p) PROVE LinkOnce'
  <2>1. PICK take \in SUBSET todo[p] : HeadPushed(p, take) BY <1>6, LogNewPageFacts
  <2> DEFINE N == Entries(take, batch_xid[p])
  <2>2. /\ DOMAIN log' = 1 .. Len(log) + 1 /\ DOMAIN log = 1 .. Len(log) /\ Len(log) \in Nat
        /\ page[buf[p]] = "blank"
        /\ log'[1].blk = buf[p] /\ log'[1].ents = N
        /\ \A j \in DOMAIN log' : j # 1 => j - 1 \in DOMAIN log /\ log'[j] = log[j - 1]
    BY <2>1 DEF HeadPushed
  <2>3. pend' = pend BY <1>6 DEF LogNewPage
  <2>4. \A e \in N : e.block \notin Listed /\ \A f \in N : e.block = f.block => e = f
    BY EntriesFacts, OwnFacts
  <2>5. \A i \in DOMAIN log : \A e \in log[i].ents : e.block \in Listed BY InLog
  <2>6. \A i \in DOMAIN log : log[i].blk # buf[p] BY <2>2, InUseLive
  <2> HIDE DEF N
  <2>7. \A i, j \in DOMAIN log' : i - 1 = j - 1 => i = j BY <2>2
  <2>8. \A i, j \in DOMAIN log' : log'[i].blk = log'[j].blk => i = j
    <3> SUFFICES ASSUME NEW i \in DOMAIN log', NEW j \in DOMAIN log', log'[i].blk = log'[j].blk
                 PROVE  i = j
      OBVIOUS
    <3>1. CASE i # 1 /\ j # 1
      <4>1. i - 1 = j - 1 BY <1>0, <2>2, <3>1 DEF LinkOnce
      <4> QED BY <2>7, <4>1
    <3>2. CASE i = 1 \/ j = 1 BY <2>2, <2>6, <3>2
    <3> QED BY <3>1, <3>2
  <2>9. \A i, j \in DOMAIN log' : \A e \in log'[i].ents, f \in log'[j].ents :
           e.block = f.block => i = j /\ e = f
    <3> SUFFICES ASSUME NEW i \in DOMAIN log', NEW j \in DOMAIN log', NEW e \in log'[i].ents,
                        NEW f \in log'[j].ents, e.block = f.block
                 PROVE  i = j /\ e = f
      OBVIOUS
    <3>1. CASE i # 1 /\ j # 1
      <4>1. i - 1 = j - 1 /\ e = f BY <1>0, <2>2, <3>1 DEF LinkOnce
      <4> QED BY <2>7, <4>1
    <3>2. CASE i = 1 \/ j = 1 BY <2>2, <2>4, <2>5, <3>2
    <3> QED BY <3>1, <3>2
  <2> QED BY <1>0, <2>3, <2>8, <2>9 DEF LinkOnce
<1>7. CASE \E b \in Blocks : Unlink(b) BY <1>0, <1>7 DEF Unlink, LinkOnce
<1>8. ASSUME NEW e \in Logged, DrainReclaim(e) PROVE LinkOnce'
  <2>1. /\ pend' = pend
        /\ \A i \in DOMAIN log' : i \in DOMAIN log /\ log'[i].ents \subseteq log[i].ents
                                   /\ log'[i].blk = log[i].blk
    BY <1>8, DrainEffects
  <2> QED BY <1>0, <2>1 DEF LinkOnce
<1>9. CASE Collapse
  <2>1. pend' = pend /\ (log' = log \/ log' = <<>>) BY <1>9 DEF Collapse
  <2> QED BY <1>0, <2>1 DEF LinkOnce
<1> QED BY <1>1, <1>2, <1>3, <1>4, <1>5, <1>6, <1>7, <1>8, <1>9, LinkCases

(* Every step keeps LinkApart: a page joins a structure from a blank one   *)
(* or from the merge that built it.                                        *)
LEMMA LinkApartStep == ASSUME IInv, Next PROVE LinkApart'
<1>0. LinkApart BY DEF IInv, LinkInv
<1>a. /\ \A b \in tree : page[b] = "live" /\ b \in InUse
      /\ \A b \in Elems(pend) : page[b] = "live" /\ b \in InUse
      /\ \A b \in LogPages : page[b] = "live" /\ b \in InUse
  BY InUseLive
<1>1. CASE UNCHANGED <<tree, pend, log>> BY <1>0, <1>1, LinkSame DEF LinkApart
<1>2. ASSUME NEW p \in Procs, AppendLink(p) PROVE LinkApart'
  <2>1. page[buf[p]] = "blank" /\ Elems(pend') = Elems(pend) \cup {buf[p]} BY <1>2, AppendLinkFacts
  <2>2. tree' = tree /\ LogPages' = LogPages BY <1>2 DEF AppendLink, LogPages
  <2> QED BY <1>0, <1>a, <2>1, <2>2 DEF LinkApart
<1>3. ASSUME NEW p \in Procs, FlushRun(p) \/ Finalize(p) PROVE LinkApart'
  <2>1. /\ tree' \subseteq tree \cup new[p] /\ Elems(pend') \subseteq Elems(pend)
        /\ LogPages' = LogPages
    BY <1>3, FinalEffects DEF FlushRun, LogPages, Elems
  <2>2. \A b \in new[p] : b \notin InUse BY OwnFacts
  <2> QED BY <1>0, <1>a, <2>1, <2>2 DEF LinkApart
<1>4. ASSUME NEW p \in Procs, LogChunk(p) PROVE LinkApart'
  <2>1. LogPages' = LogPages BY <1>4, LogChunkFacts, FilledEffects
  <2>2. tree' = tree /\ pend' = pend BY <1>4 DEF LogChunk
  <2> QED BY <1>0, <2>1, <2>2 DEF LinkApart
<1>5. ASSUME NEW p \in Procs, LogNewPage(p) PROVE LinkApart'
  <2>1. LogPages' = LogPages \cup {buf[p]} /\ page[buf[p]] = "blank"
    BY <1>5, LogNewPageFacts, PushedEffects DEF HeadPushed
  <2>2. tree' = tree /\ pend' = pend BY <1>5 DEF LogNewPage
  <2> QED BY <1>0, <1>a, <2>1, <2>2 DEF LinkApart
<1>6. CASE \E b \in Blocks : Unlink(b)
  <2>1. tree' \subseteq tree /\ pend' = pend /\ log' = log BY <1>6 DEF Unlink
  <2> QED BY <1>0, <2>1 DEF LinkApart, LogPages
<1>7. ASSUME NEW e \in Logged, DrainReclaim(e) PROVE LinkApart'
  BY <1>0, <1>7, DrainEffects DEF LinkApart
<1>8. CASE Collapse
  <2>1. tree' = tree /\ pend' = pend /\ (log' = log \/ log' = <<>>) BY <1>8 DEF Collapse
  <2> QED BY <1>0, <2>1 DEF LinkApart, LogPages
<1> QED BY <1>1, <1>2, <1>3, <1>4, <1>5, <1>6, <1>7, <1>8, LinkCases

(* Every step keeps LinkLive: only what is out of use is blanked.          *)
LEMMA LinkLiveStep == ASSUME IInv, Next PROVE LinkLive'
<1>0. LinkLive /\ LinkApart /\ page \in [Blocks -> PageState] BY DEF IInv, LinkInv, Types, TypePages
<1>a. /\ \A b \in InUse : b \in Blocks /\ page[b] = "live" /\ b \notin Listed
      /\ \A b \in Listed : b \in Blocks /\ page[b] = "live"
  BY InUseLive
<1>1. ASSUME \A b \in Blocks : ~Unlink(b), \A e \in Logged : ~DrainReclaim(e),
             ~Collapse \/ log' # <<>> \/ log = <<>>
      PROVE  \A b \in Blocks : page[b] = "live" => page'[b] = "live"
  <2>1. log = <<>> => LogPages = {} BY DEF LogPages
  <2> QED BY <1>1, <2>1, LiveKept
<1>2. ASSUME UNCHANGED <<tree, pend, log>>, \A b \in Blocks : ~Unlink(b),
             \A e \in Logged : ~DrainReclaim(e)
      PROVE  LinkLive'
  BY <1>1, <1>2, <1>a, LinkSame DEF LinkLive
<1>3. ASSUME NEW p \in Procs, AppendLink(p) PROVE LinkLive'
  <2>1. /\ page[buf[p]] = "blank" /\ Elems(pend') = Elems(pend) \cup {buf[p]} /\ buf[p] \in Blocks
        /\ page' = [page EXCEPT ![buf[p]] = "live"] /\ tree' = tree /\ log' = log
    BY <1>3, AppendLinkFacts DEF AppendLink, FillPage
  <2>2. InUse' = InUse \cup {buf[p]} /\ Listed' = Listed
    BY <2>1 DEF InUse, LogPages, Listed, Logged
  <2>3. buf[p] \notin Listed BY <1>a, <2>1
  <2>4. \A b \in InUse' : b = buf[p] \/ b \in InUse BY <2>2
  <2> QED BY <1>0, <1>a, <2>1, <2>2, <2>3, <2>4 DEF LinkLive
<1>4. ASSUME NEW p \in Procs, FlushRun(p) \/ Finalize(p) PROVE LinkLive'
  <2>1. /\ tree' \subseteq tree \cup new[p] /\ Elems(pend') \subseteq Elems(pend)
        /\ log' = log /\ page' = page
    BY <1>4, FinalEffects DEF FlushRun, Elems, pageVars
  <2>2. InUse' \subseteq InUse \cup new[p] /\ Listed' = Listed
    BY <2>1 DEF InUse, LogPages, Listed, Logged
  <2>3. \A b \in new[p] : page[b] = "live" /\ b \notin Listed BY OwnFacts
  <2> QED BY <1>a, <2>1, <2>2, <2>3 DEF LinkLive
<1>5. ASSUME NEW p \in Procs, LogChunk(p) PROVE LinkLive'
  <2>1. PICK take \in SUBSET todo[p] : Listed' = Listed \cup take /\ LogPages' = LogPages
    BY <1>5, LogChunkFacts, FilledEffects DEF LogKept
  <2>2. tree' = tree /\ pend' = pend /\ page' = page BY <1>5 DEF LogChunk, pageVars
  <2>3. InUse' = InUse BY <2>1, <2>2 DEF InUse, Elems
  <2>4. \A b \in take : page[b] = "live" /\ b \notin InUse BY OwnFacts
  <2> QED BY <1>a, <2>1, <2>2, <2>3, <2>4 DEF LinkLive
<1>6. ASSUME NEW p \in Procs, LogNewPage(p) PROVE LinkLive'
  <2>1. PICK take \in SUBSET todo[p] :
            HeadPushed(p, take) /\ Listed' = Listed \cup take /\ LogPages' = LogPages \cup {buf[p]}
    BY <1>6, LogNewPageFacts, PushedEffects DEF LogKept
  <2>2. tree' = tree /\ pend' = pend /\ page' = [page EXCEPT ![buf[p]] = "live"]
    BY <1>6 DEF LogNewPage, FillPage
  <2>3. InUse' = InUse \cup {buf[p]} BY <2>1, <2>2 DEF InUse, Elems
  <2>4. \A b \in take : b \in Blocks /\ page[b] = "live" /\ b \notin InUse BY OwnFacts
  <2>5. page[buf[p]] = "blank" /\ buf[p] \in Blocks BY <2>1 DEF HeadPushed
  <2>6. \A b \in InUse' : page'[b] = "live" /\ b \notin Listed'
    <3> SUFFICES ASSUME NEW b \in InUse' PROVE page'[b] = "live" /\ b \notin Listed' OBVIOUS
    <3>1. CASE b = buf[p] BY <1>0, <1>a, <2>1, <2>2, <2>4, <2>5, <3>1
    <3>2. CASE b \in InUse BY <1>0, <1>a, <2>1, <2>2, <2>4, <2>5, <3>2
    <3> QED BY <2>3, <3>1, <3>2
  <2>7. \A b \in Listed' : page'[b] = "live" BY <1>0, <1>a, <2>1, <2>2, <2>4, <2>5
  <2> QED BY <2>6, <2>7 DEF LinkLive
<1>7. ASSUME NEW b \in Blocks, Unlink(b) PROVE LinkLive'
  <2>1. /\ b \in tree /\ tree' = tree \ {b} /\ pend' = pend /\ log' = log
        /\ page' = [page EXCEPT ![b] = "deleted"]
    BY <1>7 DEF Unlink
  <2>2. InUse' \subseteq InUse \ {b} /\ Listed' = Listed
    BY <1>0, <2>1 DEF InUse, LogPages, Listed, Logged, LinkApart
  <2>3. b \notin Listed BY <1>a, <2>1 DEF InUse
  <2> QED BY <1>0, <1>a, <2>1, <2>2, <2>3 DEF LinkLive
<1>8. ASSUME NEW e \in Logged, DrainReclaim(e) PROVE LinkLive'
  <2>1. InUse' = InUse /\ Listed' \subseteq Listed \ {e.block} BY <1>8, DrainEffects
  <2>2. page' = [page EXCEPT ![e.block] = "blank"] BY <1>8 DEF DrainReclaim
  <2>3. e.block \in Listed BY DEF Listed
  <2> QED BY <1>0, <1>a, <2>1, <2>2, <2>3 DEF LinkLive
<1>9. CASE Collapse
  <2>1. CASE UNCHANGED <<page, log, tree, pend>> BY <1>0, <2>1, LinkSame DEF LinkLive
  <2>2. ASSUME NEW b \in Blocks, PageSet(b, "blank"), tree' = tree, pend' = pend,
               LogPages = {b}, LogPages' = {}, Listed' = {}
        PROVE  LinkLive'
    <3>1. InUse' \subseteq InUse \ {b} BY <1>0, <2>2 DEF InUse, LinkApart, Elems
    <3> QED BY <1>0, <1>a, <2>2, <3>1 DEF LinkLive, PageSet
  <2> QED BY <1>9, <2>1, <2>2, CollapseEffects
<1> QED BY <1>2, <1>3, <1>4, <1>5, <1>6, <1>7, <1>8, <1>9, LinkCases

(* FreeBatch takes the first batch.                                        *)
LEMMA FreeBatchFacts ==
    ASSUME IInv, NEW p \in Procs, FreeBatch(p)
    PROVE  /\ todo'[p] = batches[p][1] /\ 1 \in DOMAIN batches[p]
           /\ \A i \in DOMAIN batches'[p] : i + 1 \in DOMAIN batches[p] /\ i + 1 # 1
                                            /\ batches'[p][i] = batches[p][i + 1]
           /\ DOMAIN batches'[p] \subseteq Nat
<1> DEFINE t == batches[p]
<1>1. /\ t \in Seq(SUBSET Blocks) /\ batches \in [Procs -> Seq(SUBSET Blocks)]
      /\ todo \in [Procs -> SUBSET Blocks]
  BY DEF IInv, Types, TypeBuild
<1>2. t # <<>> /\ todo'[p] = Head(t) /\ batches'[p] = Tail(t) BY <1>1 DEF FreeBatch
<1> HIDE DEF t
<1>3. /\ Len(Tail(t)) = Len(t) - 1 /\ Tail(t) \in Seq(SUBSET Blocks)
      /\ \A i \in 1 .. Len(Tail(t)) : Tail(t)[i] = t[i + 1]
  BY <1>1, <1>2, HeadTailProperties
<1>4. Len(t) \in Nat /\ DOMAIN t = 1 .. Len(t) /\ Len(t) # 0 BY <1>1, <1>2, LenProperties, EmptySeq
<1>5. DOMAIN Tail(t) = 1 .. Len(t) - 1 BY <1>3, LenProperties
<1>6. \A i \in 1 .. Len(t) - 1 : i + 1 \in 1 .. Len(t) /\ i + 1 # 1 BY <1>4
<1>7. Head(t) = t[1] BY <1>1, <1>2
<1>8. 1 \in DOMAIN t BY <1>4
<1>9. \A i \in DOMAIN Tail(t) : i + 1 \in DOMAIN t /\ i + 1 # 1 /\ Tail(t)[i] = t[i + 1]
  BY <1>3, <1>4, <1>5, <1>6
<1>10. 1 .. Len(t) - 1 \subseteq Nat BY <1>4
<1> QED BY <1>2, <1>5, <1>7, <1>8, <1>9, <1>10 DEF t

(* Every step keeps OwnOnce.                                               *)
LEMMA OwnOnceStep == ASSUME IInv, Next PROVE OwnOnce'
<1>0. /\ OwnOnce /\ TypeBuild /\ Inserters \subseteq Procs /\ Vacuum \in Procs
  BY ProcFacts DEF IInv, OwnInv, Types
<1>1. CASE UNCHANGED <<batches, todo>> BY <1>0, <1>1 DEF OwnOnce
<1>2. ASSUME NEW p \in Procs, WriterStep(p) PROVE OwnOnce'
  <2>1. CASE Finalize(p)
    <3>1. todo[p] = {} /\ todo' = todo BY <2>1, FinalizeFacts DEF Finalize, IInv, BuildInv, BuildLocal
    <3>2. Apart(batches'[p]) /\ batches' = [batches EXCEPT ![p] = batches'[p]]
      BY <2>1, FinalizeFacts
    <3>3. \A q \in Procs : q # p => batches'[q] = batches[q] BY <1>0, <3>2 DEF TypeBuild
    <3> QED BY <1>0, <3>1, <3>2, <3>3 DEF OwnOnce, Apart
  <2>2. CASE FreeBatch(p)
    <3>1. /\ todo'[p] = batches[p][1] /\ 1 \in DOMAIN batches[p]
          /\ \A i \in DOMAIN batches'[p] : i + 1 \in DOMAIN batches[p] /\ i + 1 # 1
                                            /\ batches'[p][i] = batches[p][i + 1]
          /\ DOMAIN batches'[p] \subseteq Nat
      BY <2>2, FreeBatchFacts
    <3>2. \A q \in Procs : q # p => batches'[q] = batches[q] /\ todo'[q] = todo[q]
      BY <1>0, <2>2 DEF FreeBatch, TypeBuild
    <3>3. \A i \in DOMAIN batches'[p] : todo'[p] \cap batches'[p][i] = {}
      BY <1>0, <3>1 DEF OwnOnce
    <3>4. \A i, j \in DOMAIN batches'[p] : i # j => batches'[p][i] \cap batches'[p][j] = {}
      <4> SUFFICES ASSUME NEW i \in DOMAIN batches'[p], NEW j \in DOMAIN batches'[p], i # j
                   PROVE  batches'[p][i] \cap batches'[p][j] = {}
        OBVIOUS
      <4>1. i + 1 # j + 1 BY <3>1
      <4> QED BY <1>0, <3>1, <4>1 DEF OwnOnce
    <3> QED BY <1>0, <3>2, <3>3, <3>4 DEF OwnOnce
  <2>3. CASE LogChunk(p) \/ LogNewPage(p)
    <3>1. PICK take \in SUBSET todo[p] : ChunkTaken(p, take)
      BY <2>3, LogChunkFacts, LogNewPageFacts
    <3>2. batches' = batches BY <2>3 DEF LogChunk, LogNewPage
    <3>3. \A q \in Procs : todo'[q] \subseteq todo[q] BY <1>0, <3>1 DEF ChunkTaken, TypeBuild
    <3> QED BY <1>0, <3>2, <3>3 DEF OwnOnce
  <2>4. CASE ~Finalize(p) /\ ~FreeBatch(p) /\ ~LogChunk(p) /\ ~LogNewPage(p)
    BY <1>1, <1>2, <2>4 DEF WriterStep, Extend, GetFree, MarkUsed, TryReuse, ExtendRel,
       AppendLink, BuildCall, BuildPage, FlushRun, LogExtend, FreeDone, freeVars
  <2> QED BY <2>1, <2>2, <2>3, <2>4
<1>3. CASE \E p \in Inserters : AppendStart(p) \/ MergeTryLock(p)
  BY <1>1, <1>3 DEF AppendStart, MergeTryLock, freeVars
<1>4. CASE VacuumCase
    BY <1>1, <1>4 DEF VacuumCase, VacuumStart, StripDone, Compact, SweepStart, SweepLock,
       SweepPage, SweepFree, SweepDone, DrainKeep, DrainFree, DrainNext, CollapseFree,
       CleanupDone, Unlink, DrainReclaim, Collapse, freeVars
<1>5. CASE ScanCase
  BY <1>1, <1>5 DEF ScanCase, ScanStart, ScanRoot, ScanEnd, AssignXid, freeVars
<1>6. CASE FaultCase
  <2>1. CASE Crash BY <2>1 DEF Crash, OwnOnce
  <2>2. ASSUME NEW p \in Procs, Error(p) PROVE OwnOnce'
    <3>1. batches'[p] = <<>> /\ \A q \in Procs : q # p => batches'[q] = batches[q] /\ todo'[q] = todo[q]
      BY <1>0, <2>2 DEF Error, TypeBuild
    <3> QED BY <1>0, <3>1 DEF OwnOnce
  <2> QED BY <1>6, <2>1, <2>2 DEF FaultCase
<1> QED BY <1>2, <1>3, <1>4, <1>5, <1>6, NextCases

(* No step touches the pages that a merge owns.                            *)
LEMMA OwnStaysLive ==
    ASSUME IInv, Next, NEW q \in Procs, NEW b \in OwnSet(q)
    PROVE  page'[b] = "live"
<1>1. b \in Blocks /\ page[b] = "live" /\ b \notin InUse /\ b \notin Listed BY OwnFacts DEF OwnSet
<1>2. ~Unlink(b) BY <1>1 DEF Unlink, InUse
<1>3. \A e \in Logged : b # e.block BY <1>1 DEF Listed
<1>4. LogPages # {b} BY <1>1 DEF InUse
<1> QED BY <1>1, <1>2, <1>3, <1>4, LiveKept

(* Steps after which nothing new is in use or listed, but for a page that
   was blank.  *)
LEMMA UseKept ==
    ASSUME IInv, Next,
           \A p \in Procs : ~FlushRun(p) /\ ~Finalize(p) /\ ~LogChunk(p) /\ ~LogNewPage(p)
    PROVE  /\ \A b \in InUse' : b \in InUse \/ page[b] = "blank"
           /\ Listed' \subseteq Listed
<1>1. CASE UNCHANGED <<tree, pend, log>> BY <1>1, LinkSame
<1>2. ASSUME NEW p \in Procs, AppendLink(p)
      PROVE  (\A b \in InUse' : b \in InUse \/ page[b] = "blank") /\ Listed' \subseteq Listed
  <2>1. /\ page[buf[p]] = "blank" /\ Elems(pend') = Elems(pend) \cup {buf[p]}
        /\ tree' = tree /\ log' = log
    BY <1>2, AppendLinkFacts DEF AppendLink
  <2>2. InUse' = InUse \cup {buf[p]} /\ Listed' = Listed
    BY <2>1 DEF InUse, LogPages, Listed, Logged
  <2> QED BY <2>1, <2>2
<1>3. ASSUME NEW b \in Blocks, Unlink(b) PROVE InUse' \subseteq InUse /\ Listed' \subseteq Listed
  BY <1>3 DEF Unlink, InUse, LogPages, Listed, Logged
<1>4. ASSUME NEW e \in Logged, DrainReclaim(e) PROVE InUse' \subseteq InUse /\ Listed' \subseteq Listed
  BY <1>4, DrainEffects
<1>5. CASE Collapse
  <2>1. tree' = tree /\ pend' = pend /\ (log' = log \/ log' = <<>>) BY <1>5 DEF Collapse
  <2>2. LogPages' \subseteq LogPages /\ Logged' \subseteq Logged BY <2>1 DEF LogPages, Logged
  <2> QED BY <2>1, <2>2 DEF InUse, Listed
<1> QED BY <1>1, <1>2, <1>3, <1>4, <1>5, LinkCases

(* While one merges, the others own nothing.                               *)
LEMMA MergerSteps ==
    ASSUME IInv, NEW p \in Procs, FlushRun(p) \/ Finalize(p) \/ LogChunk(p) \/ LogNewPage(p),
           NEW q \in Procs, q # p
    PROVE  OwnSet(q)' = {}
<1>1. pc[p] \in MergePc BY DEF FlushRun, Finalize, LogChunk, LogNewPage, MergePc, PcState
<1>2. pc[q] \notin MergePc BY <1>1, OneMerger
<1>3. new[q] = {} /\ todo[q] = {} /\ batches[q] = <<>> BY <1>2, OwnEmpty
<1>4. TypeBuild BY DEF IInv, Types
<1>5. new'[q] = new[q] /\ todo'[q] = todo[q] /\ batches'[q] = batches[q]
  BY <1>4 DEF FlushRun, Finalize, LogChunk, LogNewPage, TypeBuild, buildVars, freeVars
<1>6. new'[q] = {} /\ todo'[q] = {} /\ batches'[q] = <<>> BY <1>3, <1>5
<1> QED BY <1>6 DEF OwnSet, ToLog, Elems

(* Every step keeps OwnOut.                                                *)
LEMMA OwnOutStep == ASSUME IInv, Next PROVE OwnOut'
<1>0. /\ TypeBuild /\ OwnOut /\ OwnOnce BY DEF IInv, OwnInv, Types
<1> SUFFICES ASSUME NEW q \in Procs, NEW b \in OwnSet(q)'
             PROVE  (page[b] = "live" /\ b \notin InUse /\ b \notin Listed)'
  BY DEF OwnOut
<1>1. CASE FlushRun(q)
  <2>1. /\ new'[q] = {} /\ todo' = todo /\ batches' = batches /\ tree' = tree \cup new[q]
        /\ pend' = pend /\ log' = log /\ pc[q] = "build"
    BY <1>0, <1>1 DEF FlushRun, TypeBuild, freeVars
  <2>2. todo[q] = {} /\ batches[q] = <<>> BY <2>1 DEF IInv, BuildInv, BuildLocal
  <2>3. OwnSet(q)' = {} BY <2>1, <2>2 DEF OwnSet, ToLog, Elems
  <2> QED BY <2>3
<1>2. CASE Finalize(q)
  <2>1. todo[q] = {} /\ todo' = todo
    BY <1>2, FinalizeFacts DEF Finalize, IInv, BuildInv, BuildLocal
  <2>2. new'[q] = {} BY <1>0, <1>2 DEF Finalize, TypeBuild
  <2>3. b \in UNION Elems(batches'[q]) BY <2>1, <2>2 DEF OwnSet, ToLog
  <2>4. b \in tree \cup Elems(pend) /\ b \notin tree' \cup Elems(pend') /\ log' = log /\ page' = page
    BY <1>2, <2>3, FinalEffects
  <2>5. b \in InUse /\ b \notin LogPages BY <2>4 DEF InUse, IInv, LinkInv, LinkApart
  <2>6. page[b] = "live" /\ b \notin Listed BY <2>5, InUseLive
  <2> QED BY <2>4, <2>5, <2>6 DEF InUse, LogPages, Listed, Logged
<1>3. CASE LogChunk(q) \/ LogNewPage(q)
  <2>1. PICK take \in SUBSET todo[q] :
            /\ ChunkTaken(q, take) /\ Listed' = Listed \cup take
            /\ LogPages' = LogPages \/ (LogPages' = LogPages \cup {buf[q]} /\ page[buf[q]] = "blank")
    BY <1>3, LogChunkFacts, LogNewPageFacts, FilledEffects, PushedEffects DEF LogKept, HeadPushed
  <2>2. tree' = tree /\ pend' = pend /\ new' = new /\ batches' = batches
    BY <1>3 DEF LogChunk, LogNewPage, buildVars
  <2>3. todo'[q] = todo[q] \ take BY <1>0, <2>1 DEF ChunkTaken, TypeBuild
  <2>4. pc[q] # "build" BY <1>3 DEF LogChunk, LogNewPage
  <2>5. new'[q] = {} BY <2>2, <2>4 DEF IInv, BuildInv, BuildLocal
  <2>6. b \in todo'[q] \/ \E i \in DOMAIN batches[q] : b \in batches[q][i]
    BY <2>2, <2>5 DEF OwnSet, ToLog, Elems
  <2>7. b \notin take BY <1>0, <2>3, <2>6 DEF OwnOnce
  <2>8. b \in OwnSet(q) BY <2>3, <2>6, OwnFacts DEF OwnSet
  <2>9. page[b] = "live" /\ b \notin InUse /\ b \notin Listed BY <1>0, <2>8 DEF OwnOut
  <2>10. b \notin InUse' BY <2>1, <2>2, <2>9 DEF InUse, Elems
  <2> QED BY <2>1, <2>7, <2>8, <2>9, <2>10, OwnStaysLive
<1>4. CASE \E p \in Procs : p # q /\ (FlushRun(p) \/ Finalize(p) \/ LogChunk(p) \/ LogNewPage(p))
  <2>1. OwnSet(q)' = {} BY <1>4, MergerSteps
  <2> QED BY <2>1
<1>5. CASE BuildPage(q)
  <2>1. /\ new'[q] = new[q] \cup {buf[q]} /\ todo' = todo /\ batches' = batches
        /\ tree' = tree /\ pend' = pend /\ log' = log
        /\ page' = [page EXCEPT ![buf[q]] = "live"]
    BY <1>0, <1>5 DEF BuildPage, FillPage, TypeBuild, freeVars, linkVars
  <2>2. page[buf[q]] = "blank" /\ buf[q] \in Blocks
    BY <1>5 DEF BuildPage, HasPage, IInv, AllocInv, AllocPage, GotPage
  <2>3. InUse' = InUse /\ Listed' = Listed BY <2>1, LinkSame
  <2>4. b = buf[q] \/ b \in OwnSet(q) BY <2>1 DEF OwnSet, ToLog
  <2>5. CASE b = buf[q]
    <3>1. page'[b] = "live" BY <2>1, <2>2, <2>5 DEF IInv, Types, TypePages
    <3>2. b \notin InUse /\ b \notin Listed BY <2>2, <2>5, InUseLive
    <3> QED BY <2>3, <3>1, <3>2
  <2>6. CASE b \in OwnSet(q) BY <1>0, <2>3, <2>6, OwnStaysLive DEF OwnOut
  <2> QED BY <2>4, <2>5, <2>6
<1>6. CASE /\ \A p \in Procs : ~FlushRun(p) /\ ~Finalize(p) /\ ~LogChunk(p) /\ ~LogNewPage(p)
           /\ b \in OwnSet(q)
  <2>1. page[b] = "live" /\ b \notin InUse /\ b \notin Listed BY <1>0, <1>6 DEF OwnOut
  <2> QED BY <1>6, <2>1, UseKept, OwnStaysLive
<1>7. ASSUME \A p \in Procs : ~FlushRun(p) /\ ~Finalize(p) /\ ~LogChunk(p) /\ ~LogNewPage(p),
             ~BuildPage(q)
      PROVE  b \in OwnSet(q)
  <2>1. CASE new'[q] = new[q] /\ todo'[q] = todo[q] /\ batches'[q] = batches[q]
    BY <2>1 DEF OwnSet, ToLog
  <2>2. CASE new'[q] = {} /\ todo'[q] = {} /\ batches'[q] = <<>>
    BY <2>2 DEF OwnSet, ToLog, Elems
  <2>3. ASSUME NEW p \in Procs, WriterStep(p) PROVE b \in OwnSet(q)
    <3>1. CASE BuildPage(p)
      BY <1>0, <1>7, <2>1, <3>1 DEF BuildPage, TypeBuild, freeVars
    <3>2. CASE FreeBatch(p)
      <4>1. CASE p # q BY <1>0, <2>1, <3>2, <4>1 DEF FreeBatch, TypeBuild, buildVars
      <4>2. CASE p = q
        <5>1. /\ todo'[q] = batches[q][1] /\ 1 \in DOMAIN batches[q] /\ new' = new
              /\ \A i \in DOMAIN batches'[q] : i + 1 \in DOMAIN batches[q] /\ batches'[q][i] = batches[q][i + 1]
          BY <3>2, <4>2, FreeBatchFacts DEF FreeBatch, buildVars
        <5>2. todo'[q] \subseteq ToLog(q) /\ \A i \in DOMAIN batches'[q] : batches'[q][i] \subseteq ToLog(q)
          BY <5>1, OwnFacts
        <5> QED BY <5>1, <5>2 DEF OwnSet, ToLog, Elems
      <4> QED BY <4>1, <4>2
    <3>3. CASE ~BuildPage(p) /\ ~FreeBatch(p)
      BY <1>7, <2>1, <2>3, <3>3 DEF WriterStep, Extend, GetFree, MarkUsed, TryReuse, ExtendRel,
         AppendLink, BuildCall, LogExtend, FreeDone, buildVars, freeVars
    <3> QED BY <3>1, <3>2, <3>3
  <2>4. CASE \E p \in Inserters : AppendStart(p) \/ MergeTryLock(p)
    BY <2>1, <2>4 DEF AppendStart, MergeTryLock, freeVars, buildVars
  <2>5. CASE VacuumCase
    BY <2>1, <2>5 DEF VacuumCase, VacuumStart, StripDone, Compact, SweepStart, SweepLock,
       SweepPage, SweepFree, SweepDone, DrainKeep, DrainFree, DrainNext, CollapseFree,
       CleanupDone, Unlink, DrainReclaim, Collapse, freeVars, buildVars
  <2>6. CASE ScanCase
    BY <2>1, <2>6 DEF ScanCase, ScanStart, ScanRoot, ScanEnd, AssignXid, freeVars, buildVars
  <2>7. CASE FaultCase
    <3>1. CASE Crash BY <2>2, <3>1 DEF Crash
    <3>2. ASSUME NEW p \in Procs, Error(p) PROVE b \in OwnSet(q)
      BY <1>0, <2>1, <2>2, <3>2 DEF Error, TypeBuild
    <3> QED BY <2>7, <3>1, <3>2 DEF FaultCase
  <2> QED BY <2>3, <2>4, <2>5, <2>6, <2>7, NextCases
<1> QED BY <1>1, <1>2, <1>3, <1>4, <1>5, <1>6, <1>7

(* SnapPage after a step, for a page and an xmin taken before it.          *)
SnapPageGoal(b, x) ==
    /\ page'[b] \in {"live", "deleted"}
    /\ page'[b] = "deleted" => del_xid'[b] >= x

(* A page a scan can be led to stays readable: the sweep and the drain     *)
(* wait for the scan's snapshot.                                           *)
LEMMA SnapPageKept ==
    ASSUME IInv, Next, NEW s \in Scanners, NEW b \in may[s]
    PROVE  SnapPageGoal(b, xmin[s])
<1>0. /\ TypePages /\ TypeScan /\ b \in Blocks /\ xmin[s] <= next_xid /\ xmin[s] # 0
      /\ SnapPage(b, xmin[s]) /\ SnapLog(b, xmin[s]) /\ xmin[s] \in 0 .. MaxXid
      /\ MaxXid \in Nat
  BY ProcFacts DEF IInv, Types, SnapInv, TypeScan
<1>1. page[b] \in {"live", "deleted"} /\ (page[b] = "deleted" => del_xid[b] >= xmin[s])
  BY <1>0 DEF SnapPage
<1> SUFFICES page'[b] \in {"live", "deleted"} /\ (page'[b] = "deleted" => del_xid'[b] >= xmin[s])
  BY DEF SnapPageGoal
<1>2. CASE \E c \in Blocks : Unlink(c)
  <2>1. PICK c \in Blocks : Unlink(c) BY <1>2
  <2>2. page' = [page EXCEPT ![c] = "deleted"] /\ del_xid' = [del_xid EXCEPT ![c] = next_xid]
    BY <2>1 DEF Unlink
  <2>3. CASE c = b BY <1>0, <2>2, <2>3 DEF TypePages
  <2>4. CASE c # b BY <1>0, <1>1, <2>2, <2>4 DEF TypePages
  <2> QED BY <2>3, <2>4
<1>3. CASE SweepPage
  <2>1. CASE page' = page /\ del_xid' = del_xid BY <1>1, <2>1
  <2>2. CASE ~(page' = page /\ del_xid' = del_xid)
    <3>1. /\ page[blkno] = "deleted" /\ Removable(del_xid[blkno])
          /\ page' = [page EXCEPT ![blkno] = "blank"] /\ del_xid' = [del_xid EXCEPT ![blkno] = 0]
      BY <1>3, <2>2 DEF SweepPage, pageVars
    <3>2. b # blkno
      <4> SUFFICES ASSUME b = blkno PROVE FALSE OBVIOUS
      <4>1. del_xid[b] >= xmin[s] /\ del_xid[b] < xmin[s] BY <1>0, <1>1, <3>1 DEF Removable
      <4>2. del_xid[b] \in 0 .. MaxXid BY <1>0 DEF TypePages
      <4> QED BY <1>0, <4>1, <4>2
    <3> QED BY <1>0, <1>1, <3>1, <3>2 DEF TypePages
  <2> QED BY <2>1, <2>2
<1>4. CASE ~SweepPage /\ ~(\E c \in Blocks : Unlink(c))
  <2>1. del_xid' = del_xid
    <3>1. ASSUME NEW p \in Procs, WriterStep(p) PROVE del_xid' = del_xid
      BY <3>1 DEF WriterStep, Extend, GetFree, MarkUsed, TryReuse, ExtendRel, AppendLink,
         BuildCall, BuildPage, FlushRun, Finalize, FreeBatch, LogChunk, LogExtend, LogNewPage,
         FreeDone, pageVars
    <3>2. CASE \E p \in Inserters : AppendStart(p) \/ MergeTryLock(p)
      BY <3>2 DEF AppendStart, MergeTryLock, pageVars
    <3>3. CASE VacuumCase
      BY <1>4, <3>3 DEF VacuumCase, VacuumStart, StripDone, Compact, SweepStart, SweepLock,
         SweepFree, SweepDone, DrainKeep, DrainFree, DrainNext, CollapseFree,
         CleanupDone, DrainReclaim, Collapse, pageVars
    <3>4. CASE ScanCase \/ FaultCase
      BY <3>4 DEF ScanCase, FaultCase, ScanStart, ScanRoot, ScanEnd, AssignXid, Error, Crash, pageVars
    <3> QED BY <3>1, <3>2, <3>3, <3>4, NextCases
  <2>2. CASE page[b] = "live"
    <3>1. ASSUME NEW e \in Logged, DrainReclaim(e), b = e.block PROVE FALSE
      <4>1. e.xid >= xmin[s] BY <1>0, <3>1 DEF SnapLog
      <4>2. e.xid < xmin[s] BY <1>0, <3>1 DEF DrainReclaim, Removable
      <4>3. e.xid \in 1 .. MaxXid BY LogMember DEF Ent, IInv, Types
      <4> QED BY <1>0, <4>1, <4>2, <4>3
    <3>2. b \notin LogPages BY <1>0 DEF SnapLog
    <3>3. page'[b] = "live" BY <1>0, <1>4, <2>2, <3>1, <3>2, LiveKept
    <3> QED BY <3>3
  <2>3. CASE page[b] = "deleted"
    <3>1. ASSUME NEW c \in Blocks, NEW st, page[c] # "deleted", PageSet(c, st)
          PROVE  page'[b] = "deleted"
      BY <1>0, <2>3, <3>1 DEF PageSet, TypePages
    <3>2. ASSUME NEW p \in Procs, ExtendRel(p) PROVE page'[b] = "deleted"
      <4>1. PICK c \in Blocks : page[c] = "absent" /\ page' = [page EXCEPT ![c] = "blank"]
        BY <3>2, ExtendFacts
      <4> QED BY <1>0, <2>3, <4>1 DEF TypePages
    <3>3. page'[b] = "deleted" BY <1>4, <2>3, <3>1, <3>2, PageEffects
    <3> QED BY <1>1, <2>1, <2>3, <3>3
  <2> QED BY <1>1, <2>2, <2>3
<1> QED BY <1>2, <1>3, <1>4

(* SnapLog after a step, for a page and an xmin taken before it.           *)
SnapLogGoal(b, x) ==
    /\ b \notin LogPages'
    /\ \A p \in Procs : b \in todo'[p] => batch_xid'[p] >= x
    /\ \A e \in Logged' : e.block = b => e.xid >= x

(* A page a scan can be led to is logged under the next XID, which the     *)
(* scan holds back.                                                        *)
LEMMA SnapLogKept ==
    ASSUME IInv, Next, NEW s \in Scanners, NEW b \in may[s]
    PROVE  SnapLogGoal(b, xmin[s])
<1>0. /\ TypePages /\ TypeScan /\ TypeBuild /\ b \in Blocks /\ xmin[s] <= next_xid
      /\ SnapPage(b, xmin[s]) /\ xmin[s] \in 0 .. MaxXid
      /\ b \notin LogPages
      /\ \A p \in Procs : b \in todo[p] => batch_xid[p] >= xmin[s]
      /\ \A e \in Logged : e.block = b => e.xid >= xmin[s]
  BY ProcFacts DEF IInv, Types, SnapInv, TypeScan, SnapLog
<1> USE DEF SnapLogGoal
<1>1. CASE UNCHANGED <<tree, pend, log, todo, batch_xid>> BY <1>0, <1>1, LinkSame
<1>2. ASSUME NEW p \in Procs, WriterStep(p) PROVE SnapLogGoal(b, xmin[s])
  <2>1. CASE AppendLink(p) \/ FlushRun(p) \/ Finalize(p)
    <3>1. log' = log /\ todo' = todo /\ batch_xid' = batch_xid
      BY <2>1 DEF AppendLink, FlushRun, Finalize, freeVars
    <3> QED BY <1>0, <3>1 DEF LogPages, Logged
  <2>2. CASE FreeBatch(p)
    <3>1. /\ log' = log /\ batch_xid' = [batch_xid EXCEPT ![p] = next_xid]
          /\ todo' = [todo EXCEPT ![p] = todo'[p]]
      BY <1>0, <2>2 DEF FreeBatch, linkVars, TypeBuild
    <3>2. batch_xid'[p] >= xmin[s] BY <1>0, <3>1 DEF TypeBuild, TypePages
    <3>3. \A r \in Procs : r # p => todo'[r] = todo[r] /\ batch_xid'[r] = batch_xid[r]
      BY <1>0, <2>2 DEF FreeBatch, TypeBuild
    <3>4. LogPages' = LogPages /\ Logged' = Logged BY <3>1 DEF LogPages, Logged
    <3> QED BY <1>0, <3>2, <3>3, <3>4
  <2>3. CASE LogChunk(p) \/ LogNewPage(p)
    <3>1. PICK take \in SUBSET todo[p] :
            /\ ChunkTaken(p, take) /\ Logged' = Logged \cup Entries(take, batch_xid[p])
            /\ LogPages' = LogPages \/ (LogPages' = LogPages \cup {buf[p]} /\ page[buf[p]] = "blank")
      <4>1. CASE LogChunk(p) BY <4>1, LogChunkFacts, FilledEffects DEF LogKept
      <4>2. CASE LogNewPage(p)
        <5>1. PICK take \in SUBSET todo[p] : ChunkTaken(p, take) /\ HeadPushed(p, take)
          BY <4>2, LogNewPageFacts
        <5>2. LogKept(take, batch_xid[p]) /\ LogPages' = LogPages \cup {buf[p]}
          BY <5>1, PushedEffects
        <5>3. page[buf[p]] = "blank" BY <5>1 DEF HeadPushed
        <5> QED BY <5>1, <5>2, <5>3 DEF LogKept
      <4> QED BY <2>3, <4>1, <4>2
    <3>2. batch_xid' = batch_xid BY <2>3 DEF LogChunk, LogNewPage
    <3>3. \A r \in Procs : todo'[r] \subseteq todo[r] BY <1>0, <3>1 DEF ChunkTaken, TypeBuild
    <3>4. b \notin LogPages' BY <1>0, <3>1 DEF SnapPage
    <3>5. \A e \in Entries(take, batch_xid[p]) : e.block \in take /\ e.xid = batch_xid[p]
      BY EntriesFacts
    <3>6. \A e \in Logged' : e.block = b => e.xid >= xmin[s] BY <1>0, <3>1, <3>5
    <3> QED BY <1>0, <3>2, <3>3, <3>4, <3>6
  <2>4. CASE FreeDone(p)
    <3>1. pc[p] = "free" /\ log' = log /\ todo' = todo /\ batch_xid' = [batch_xid EXCEPT ![p] = 0]
      BY <2>4 DEF FreeDone, linkVars
    <3>2. todo[p] = {} BY <3>1 DEF IInv, BuildInv, BuildLocal
    <3>3. LogPages' = LogPages /\ Logged' = Logged BY <3>1 DEF LogPages, Logged
    <3> QED BY <1>0, <3>1, <3>2, <3>3 DEF TypeBuild
  <2>5. CASE Extend(p) \/ BuildCall(p) \/ BuildPage(p) \/ LogExtend(p)
    BY <1>1, <2>5 DEF Extend, GetFree, MarkUsed, TryReuse, ExtendRel, BuildCall, BuildPage,
       LogExtend, linkVars, freeVars
  <2> QED BY <1>2, <2>1, <2>2, <2>3, <2>4, <2>5 DEF WriterStep
<1>3. CASE \E p \in Inserters : AppendStart(p) \/ MergeTryLock(p)
  BY <1>1, <1>3 DEF AppendStart, MergeTryLock, linkVars, freeVars
<1>4. CASE VacuumCase
  <2>1. todo' = todo /\ batch_xid' = batch_xid
    BY <1>4 DEF VacuumCase, VacuumStart, StripDone, Compact, SweepStart, SweepLock,
       SweepPage, SweepFree, SweepDone, DrainKeep, DrainFree, DrainNext, CollapseFree,
       CleanupDone, Unlink, DrainReclaim, Collapse, freeVars
  <2>2. CASE log' = log BY <1>0, <2>1, <2>2 DEF LogPages, Logged
  <2>3. ASSUME NEW e \in Logged, DrainReclaim(e) PROVE SnapLogGoal(b, xmin[s])
    <3>1. LogPages' = LogPages /\ Logged' \subseteq Logged BY <2>3, DrainEffects
    <3> QED BY <1>0, <2>1, <3>1
  <2>4. CASE log' = <<>>
    <3>1. LogPages' = {} /\ Logged' = {} BY <2>4 DEF LogPages, Logged
    <3> QED BY <1>0, <2>1, <3>1
  <2>5. log' = log \/ log' = <<>> \/ \E e \in Logged : DrainReclaim(e)
    BY <1>4 DEF VacuumCase, VacuumStart, StripDone, Compact, SweepStart, SweepLock,
       SweepPage, SweepFree, SweepDone, DrainKeep, DrainFree, DrainNext, CollapseFree,
       CleanupDone, Unlink, Collapse, linkVars
  <2> QED BY <2>2, <2>3, <2>4, <2>5
<1>5. CASE ScanCase
  BY <1>1, <1>5 DEF ScanCase, ScanStart, ScanRoot, ScanEnd, AssignXid, linkVars, freeVars
<1>6. CASE FaultCase
  <2>1. log' = log BY <1>6 DEF FaultCase, Error, Crash, linkVars
  <2>2. \A r \in Procs : todo'[r] = {} \/ (todo'[r] = todo[r] /\ batch_xid'[r] = batch_xid[r])
    BY <1>0, <1>6 DEF FaultCase, Error, Crash, TypeBuild
  <2> QED BY <1>0, <2>1, <2>2 DEF LogPages, Logged
<1> QED BY <1>2, <1>3, <1>4, <1>5, <1>6, NextCases

(* What a scan can reach when it reads the roots is in use.                *)
LEMMA ReachSafe ==
    ASSUME IInv, NEW b \in Reach, NEW x
    PROVE  SnapPage(b, x) /\ SnapLog(b, x)
<1>1. b \in InUse BY DEF Reach, InUse
<1>2. page[b] = "live" /\ b \notin Listed BY <1>1, InUseLive
<1>3. b \notin LogPages BY DEF Reach, IInv, LinkInv, LinkApart
<1>4. \A p \in Procs : b \notin todo[p] BY <1>1, OwnFacts
<1>5. \A e \in Logged : e.block # b BY <1>2 DEF Listed
<1> QED BY <1>2, <1>3, <1>4, <1>5 DEF SnapPage, SnapLog

(* Every step keeps SnapInv.                                               *)
LEMMA SnapStep == ASSUME IInv, Next PROVE SnapInv'
<1>0. /\ SnapInv /\ TypeScan /\ TypePages /\ MaxXid \in Nat BY ProcFacts DEF IInv, Types
<1> SUFFICES ASSUME NEW s \in Scanners
             PROVE  /\ xmin'[s] <= next_xid'
                    /\ xmin'[s] = 0 => may'[s] = {}
                    /\ \A b \in may'[s] : SnapPage(b, xmin[s])' /\ SnapLog(b, xmin[s])'
  BY DEF SnapInv
<1>1. /\ xmin[s] <= next_xid /\ (xmin[s] = 0 => may[s] = {})
      /\ xmin[s] \in 0 .. MaxXid /\ next_xid \in 1 .. MaxXid
  BY <1>0 DEF SnapInv, TypeScan, TypePages
<1>2. ASSUME xmin'[s] = xmin[s], NEW b \in may[s] PROVE SnapPage(b, xmin[s])' /\ SnapLog(b, xmin[s])'
  BY <1>2, SnapPageKept, SnapLogKept DEF SnapPage, SnapLog, SnapPageGoal, SnapLogGoal
<1>3. CASE xmin'[s] = xmin[s] /\ may'[s] = may[s] /\ next_xid' = next_xid
  BY <1>1, <1>2, <1>3
<1>4. ASSUME NEW p \in Procs, WriterStep(p)
      PROVE  /\ xmin'[s] <= next_xid'
             /\ xmin'[s] = 0 => may'[s] = {}
             /\ \A b \in may'[s] : SnapPage(b, xmin[s])' /\ SnapLog(b, xmin[s])'
  <2>1. CASE AppendLink(p)
    <3>1. /\ xmin' = xmin /\ next_xid' = next_xid /\ log' = log /\ todo' = todo
          /\ page' = [page EXCEPT ![buf[p]] = "live"]
          /\ may'[s] = may[s] \/ (may'[s] = may[s] \cup {buf[p]} /\ may[s] # {})
      BY <2>1 DEF AppendLink, FillPage, freeVars
    <3>2. page[buf[p]] = "blank" /\ buf[p] \in Blocks BY <2>1, AppendLinkFacts
    <3>3. buf[p] \notin InUse /\ buf[p] \notin Listed BY <3>2, InUseLive
    <3>4. \A r \in Procs : buf[p] \notin todo[r] BY <3>2, OwnFacts
    <3>5. page'[buf[p]] = "live" BY <1>0, <3>1, <3>2 DEF TypePages
    <3>6. LogPages' = LogPages /\ Logged' = Logged BY <3>1 DEF LogPages, Logged
    <3>7. buf[p] \notin LogPages' /\ \A e \in Logged' : e.block # buf[p]
      BY <3>3, <3>6 DEF InUse, Listed
    <3>8. ASSUME NEW c, c = buf[p] PROVE SnapPage(c, xmin[s])' /\ SnapLog(c, xmin[s])'
      <4>1. page'[c] = "live" /\ c \notin LogPages' /\ (\A e \in Logged' : e.block # c)
            /\ \A r \in Procs : c \notin todo'[r]
        BY <3>1, <3>4, <3>5, <3>7, <3>8
      <4> QED BY <4>1 DEF SnapPage, SnapLog
    <3>9. \A b \in may'[s] : b \in may[s] \/ b = buf[p] BY <3>1
    <3>10. \A b \in may'[s] : SnapPage(b, xmin[s])' /\ SnapLog(b, xmin[s])'
      BY <1>2, <3>1, <3>8, <3>9
    <3> QED BY <1>1, <3>1, <3>10
  <2>2. CASE ~AppendLink(p)
    <3>1. xmin' = xmin /\ may' = may /\ next_xid' = next_xid
      BY <1>4, <2>2 DEF WriterStep, Extend, GetFree, MarkUsed, TryReuse, ExtendRel, BuildCall,
         BuildPage, FlushRun, Finalize, FreeBatch, LogChunk, LogExtend, LogNewPage,
         FreeDone, scanVars
    <3> QED BY <1>3, <3>1
  <2> QED BY <2>1, <2>2
<1>5. CASE \E p \in Inserters : AppendStart(p) \/ MergeTryLock(p)
  BY <1>3, <1>5 DEF AppendStart, MergeTryLock, scanVars
<1>6. CASE VacuumCase
  <2>1. xmin' = xmin /\ may' = may /\ next_xid' = next_xid
    BY <1>6 DEF VacuumCase, VacuumStart, StripDone, Compact, SweepStart, SweepLock,
       SweepPage, SweepFree, SweepDone, DrainKeep, DrainFree, DrainNext, CollapseFree,
       CleanupDone, Unlink, DrainReclaim, Collapse, scanVars
  <2> QED BY <1>3, <2>1
<1>7. CASE AssignXid
  <2>1. xmin' = xmin /\ may' = may /\ next_xid' = next_xid + 1 BY <1>7 DEF AssignXid, scanVars
  <2> QED BY <1>1, <1>2, <2>1
<1>8. ASSUME NEW r \in Scanners, ScanStart(r) \/ ScanRoot(r) \/ ScanEnd(r)
      PROVE  /\ xmin'[s] <= next_xid'
             /\ xmin'[s] = 0 => may'[s] = {}
             /\ \A b \in may'[s] : SnapPage(b, xmin[s])' /\ SnapLog(b, xmin[s])'
  <2>1. /\ UNCHANGED <<page, del_xid, tree, pend, log, next_xid, todo, batch_xid>>
    BY <1>8 DEF ScanStart, ScanRoot, ScanEnd, pageVars, linkVars, freeVars
  <2>2. LogPages' = LogPages /\ Logged' = Logged BY <2>1, LinkSame
  <2>3. ASSUME NEW b \in Reach PROVE SnapPage(b, xmin[s])' /\ SnapLog(b, xmin[s])'
    <3>1. SnapPage(b, xmin'[s]) /\ SnapLog(b, xmin'[s]) BY ReachSafe
    <3> QED BY <2>1, <2>2, <3>1 DEF SnapPage, SnapLog
  <2>4. CASE r # s
    <3>1. xmin'[s] = xmin[s] /\ may'[s] = may[s]
      BY <1>0, <1>8, <2>4 DEF ScanStart, ScanRoot, ScanEnd, TypeScan
    <3> QED BY <1>3, <2>1, <3>1
  <2>5. CASE r = s /\ ScanStart(r)
    <3>1. xmin'[s] = next_xid /\ may'[s] = Reach BY <1>0, <2>5 DEF ScanStart, TypeScan
    <3> QED BY <1>1, <2>1, <2>3, <3>1
  <2>6. CASE r = s /\ ScanRoot(r)
    <3>1. xmin'[s] = xmin[s] /\ xmin[s] # 0 /\ may'[s] = may[s] \cup Reach
      BY <1>0, <2>6 DEF ScanRoot, TypeScan
    <3> QED BY <1>1, <1>2, <2>1, <2>3, <3>1
  <2>7. CASE r = s /\ ScanEnd(r)
    <3>1. xmin'[s] = 0 /\ may'[s] = {} BY <1>0, <2>7 DEF ScanEnd, TypeScan
    <3> QED BY <1>1, <2>1, <3>1
  <2> QED BY <1>8, <2>4, <2>5, <2>6, <2>7
<1>9. CASE FaultCase
  <2>1. CASE Crash
    <3>1. xmin'[s] = 0 /\ may'[s] = {} /\ next_xid' = next_xid BY <2>1 DEF Crash
    <3> QED BY <1>1, <3>1
  <2>2. CASE \E p \in Procs : Error(p) BY <1>3, <2>2 DEF Error, scanVars
  <2> QED BY <1>9, <2>1, <2>2 DEF FaultCase
<1> QED BY <1>4, <1>5, <1>6, <1>7, <1>8, <1>9, NextCases DEF ScanCase

(* The invariant holds at the start.                                       *)
LEMMA IInvInit == Init => IInv
<1> SUFFICES ASSUME Init PROVE IInv OBVIOUS
<1> USE DEF Init
<1>0. /\ TreePages \in 1 .. MaxBlocks /\ MaxBlocks \in Nat /\ MaxXid \in Nat \ {0}
      /\ StaleFsm \subseteq 1 .. TreePages
  BY ReclaimAssumption
<1>1. Types BY TypeInit
<1>2. Allocated = 1 .. TreePages BY <1>0 DEF Allocated, Blocks
<1>3. FileInv BY <1>0, <1>2 DEF FileInv
<1>4. KnownInv BY <1>0, <1>2 DEF KnownInv
<1>5. LockInv BY DEF LockInv, MergePc
<1>6. AllocInv BY DEF AllocInv, AllocPc, AllocPage
<1>7. BuildInv BY DEF BuildInv, BuildLinked, BuildLocal
<1>8. Vacuum \in Procs BY ProcFacts
<1>9. VacuumInv BY <1>8 DEF VacuumInv
<1>10. Elems(pend) = {} /\ LogPages = {} /\ Logged = {} BY DEF Elems, LogPages, Logged
<1>11. InUse = 1 .. TreePages /\ Listed = {} BY <1>10 DEF InUse, Listed
<1>12. LinkInv
  <2>1. \A b \in 1 .. TreePages : b \in Blocks /\ page[b] = "live" BY <1>0 DEF Blocks
  <2>2. LinkLive BY <1>11, <2>1 DEF LinkLive
  <2>3. LinkApart /\ LinkOnce BY <1>10 DEF LinkApart, LinkOnce
  <2> QED BY <2>2, <2>3 DEF LinkInv
<1>13. OwnInv
  <2>1. \A p \in Procs : OwnSet(p) = {} BY DEF OwnSet, ToLog, Elems
  <2> QED BY <2>1 DEF OwnInv, OwnOut, OwnOnce
<1>14. SnapInv BY DEF SnapInv
<1> QED BY <1>1, <1>3, <1>4, <1>5, <1>6, <1>7, <1>9, <1>12, <1>13, <1>14 DEF IInv

(* Every step keeps the invariant.                                         *)
LEMMA IInvStep == ASSUME IInv, Next PROVE IInv'
<1>1. Types'
  BY TypePagesStep, TypeLinksStep, TypeProcsStep, TypeBuildStep, TypeVacuumStep, TypeScanStep DEF Types
<1>2. FileInv' /\ KnownInv' /\ LockInv' BY FileStep, KnownStep, LockStep
<1>3. AllocInv' BY AllocPcStep, AllocPageStep DEF AllocInv
<1>4. BuildInv' BY BuildLinkedStep, BuildLocalStep DEF BuildInv
<1>5. VacuumInv' BY VacuumInvStep
<1>6. LinkInv' BY LinkLiveStep, LinkApartStep, LinkOnceStep DEF LinkInv
<1>7. OwnInv' BY OwnOutStep, OwnOnceStep DEF OwnInv
<1>8. SnapInv' BY SnapStep
<1> QED BY <1>1, <1>2, <1>3, <1>4, <1>5, <1>6, <1>7, <1>8 DEF IInv

(* Stuttering keeps the invariant.                                         *)
LEMMA IInvStutter == ASSUME IInv, UNCHANGED vars PROVE IInv'
<1> USE DEF vars, pageVars, linkVars, fsmVars, lockVars, allocVars, buildVars, freeVars, vacVars, scanVars
<1>0. /\ Allocated' = Allocated /\ LogPages' = LogPages /\ Logged' = Logged
      /\ Elems(pend)' = Elems(pend)
      /\ UNCHANGED <<page, del_xid, tree, pend, log>>
  BY DEF Allocated, LogPages, Logged, Elems
<1>1. InUse' = InUse /\ Listed' = Listed BY <1>0 DEF InUse, Listed
<1>2. Types' BY DEF IInv, Types, TypePages, TypeLinks, TypeProcs, TypeBuild, TypeVacuum, TypeScan
<1>3. FileInv' /\ KnownInv' BY <1>0 DEF IInv, FileInv, KnownInv
<1>4. LockInv' BY DEF IInv, LockInv
<1>5. AllocInv' BY DEF IInv, AllocInv, AllocPc, AllocPage, GotPage
<1>6. BuildInv' BY DEF IInv, BuildInv, BuildLinked, BuildLocal
<1>7. VacuumInv' BY <1>0 DEF IInv, VacuumInv
<1>8. LinkInv' BY <1>0, <1>1 DEF IInv, LinkInv, LinkLive, LinkApart, LinkOnce
<1>9. OwnInv'
  <2>1. \A p \in Procs : OwnSet(p)' = OwnSet(p) BY DEF OwnSet, ToLog, Elems
  <2> QED BY <1>0, <1>1, <2>1 DEF IInv, OwnInv, OwnOut, OwnOnce
<1>10. SnapInv' BY <1>0 DEF IInv, SnapInv, SnapPage, SnapLog
<1> QED BY <1>2, <1>3, <1>4, <1>5, <1>6, <1>7, <1>8, <1>9, <1>10 DEF IInv

(* The invariant holds in every reachable state.                           *)
THEOREM Inductive == Spec => []IInv
<1>1. Init => IInv BY IInvInit
<1>2. IInv /\ [Next]_vars => IInv' BY IInvStep, IInvStutter
<1> QED BY <1>1, <1>2, PTL DEF Spec

-----------------------------------------------------------------------------
(* A sequence whose elements are in a set is over that set.                *)
LEMMA SeqInto ==
    ASSUME NEW S, NEW T, NEW t \in Seq(S), \A i \in DOMAIN t : t[i] \in T
    PROVE  t \in Seq(T)
OBVIOUS

(* With the blocks of every structure in the file, the invariant has       *)
(* TypeOK.                                                                 *)
LEMMA TypesHold == ASSUME IInv PROVE TypeOK
<1>0. /\ TypePages /\ TypeLinks /\ TypeProcs /\ TypeBuild /\ TypeVacuum /\ TypeScan /\ KnownInv
      /\ SnapInv /\ AllocInv /\ BuildInv
  BY DEF IInv, Types
<1>1. \A b \in Blocks : page[b] # "absent" => b \in Allocated BY DEF Allocated
<1>2. /\ \A b \in InUse : b \in Allocated
      /\ \A b \in Listed : b \in Allocated
      /\ \A p \in Procs : \A b \in OwnSet(p) : b \in Allocated
  BY <1>1, InUseLive, OwnFacts DEF OwnSet
<1>3. tree \subseteq Allocated BY <1>2 DEF InUse
<1>4. pend \in Seq(Allocated)
  <2>1. \A i \in DOMAIN pend : pend[i] \in Allocated BY <1>2, InUseLive
  <2> QED BY <1>0, <2>1, SeqInto DEF TypeLinks
<1> DEFINE E == [block : Allocated, xid : 1 .. MaxXid]
           R == [blk : Allocated, ents : SUBSET E]
<1>5. log \in Seq(R)
  <2>1. ASSUME NEW i \in DOMAIN log PROVE log[i] \in R
    <3>1. log[i] \in LogRec BY <1>0, LenProperties, ElementOfSeq DEF TypeLinks
    <3>2. log[i].blk \in Allocated BY <1>2, InUseLive
    <3>3. ASSUME NEW e \in log[i].ents PROVE e \in E
      <4>1. e \in Ent BY <3>1 DEF LogRec
      <4>2. e.block \in Allocated BY <1>2, InLog
      <4> QED BY <4>1, <4>2 DEF Ent
    <3> HIDE DEF E
    <3> QED BY <3>1, <3>2, <3>3 DEF LogRec
  <2> HIDE DEF R
  <2> QED BY <1>0, <2>1, SeqInto DEF TypeLinks
<1>6. cand \in [Procs -> Allocated \cup {None}] BY <1>0 DEF TypeProcs, KnownInv
<1>7. buf \in [Procs -> Allocated \cup {None}]
  <2>1. \A p \in Procs : buf[p] \in Allocated \cup {None}
    BY <1>0, <1>1 DEF AllocInv, AllocPc, AllocPage, GotPage
  <2> QED BY <1>0, <2>1 DEF TypeProcs
<1>8. old \in [Procs -> SUBSET Allocated]
  <2>1. \A p \in Procs : old[p] \subseteq Allocated
    BY <1>0, <1>3 DEF BuildInv, BuildLinked, BuildLocal
  <2> QED BY <1>0, <2>1 DEF TypeBuild
<1>9. new \in [Procs -> SUBSET Allocated] /\ todo \in [Procs -> SUBSET Allocated]
  <2>1. \A p \in Procs : new[p] \subseteq Allocated /\ todo[p] \subseteq Allocated
    BY <1>2, OwnFacts DEF OwnSet
  <2> QED BY <1>0, <2>1 DEF TypeBuild
<1>10. batches \in [Procs -> Seq(SUBSET Allocated)]
  <2>1. ASSUME NEW p \in Procs PROVE batches[p] \in Seq(SUBSET Allocated)
    <3>1. \A i \in DOMAIN batches[p] : batches[p][i] \subseteq ToLog(p) BY OwnFacts
    <3>2. ToLog(p) \subseteq Allocated BY <1>2 DEF OwnSet
    <3>3. \A i \in DOMAIN batches[p] : batches[p][i] \in SUBSET Allocated BY <3>1, <3>2
    <3>4. batches[p] \in Seq(SUBSET Blocks) BY <1>0 DEF TypeBuild
    <3> QED BY <3>3, <3>4, SeqInto
  <2> QED BY <1>0, <2>1 DEF TypeBuild
<1>11. kept \subseteq E BY <1>0 DEF TypeVacuum, KnownInv, Ent
<1>12. may \in [Scanners -> SUBSET Allocated]
  <2>1. \A s \in Scanners : may[s] \subseteq Allocated
    BY <1>0, <1>1 DEF SnapInv, SnapPage, TypeScan
  <2> QED BY <1>0, <2>1 DEF TypeScan
<1> HIDE DEF R, E
<1>13. log \in Seq([blk : Allocated, ents : SUBSET [block : Allocated, xid : 1 .. MaxXid]])
       /\ kept \subseteq [block : Allocated, xid : 1 .. MaxXid]
  BY <1>5, <1>11 DEF R, E
<1> QED
  BY <1>0, <1>3, <1>4, <1>6, <1>7, <1>8, <1>9, <1>10, <1>12, <1>13
  DEF TypeOK, TypePages, TypeLinks, TypeProcs, TypeBuild, TypeVacuum, TypeScan, KnownInv, PcState

(* Every variable has its type, and every block anything refers to is in   *)
(* the file.                                                               *)
THEOREM TypeCorrect == Spec => []TypeOK
<1>1. IInv => TypeOK BY TypesHold
<1> QED BY <1>1, Inductive, PTL

(* No page that a running scan can be led to is blanked: the XID put into  *)
(* a log entry or into a deleted leaf is one that the scan's snapshot      *)
(* holds back (tre_free_log_drain, the leaf sweep of VACUUM).              *)
THEOREM ScansSafe == Spec => []ScanSafe
<1>1. IInv => ScanSafe BY DEF IInv, SnapInv, SnapPage, ScanSafe
<1> QED BY <1>1, Inductive, PTL

(* As many elements as indices, when no element repeats.                   *)
LEMMA CountOnce ==
    ASSUME NEW n \in Nat, NEW t, \A i, j \in 1 .. n : t[i] = t[j] => i = j,
           NEW S, S = {t[i] : i \in 1 .. n}
    PROVE  IsFiniteSet(S) /\ Cardinality(S) = n
<1> DEFINE f == [i \in 1 .. n |-> t[i]]
<1>0. f \in [1 .. n -> S] OBVIOUS
<1>a. \A i, j \in 1 .. n : f[i] = f[j] => i = j OBVIOUS
<1>b. \A x \in S : \E i \in 1 .. n : f[i] = x OBVIOUS
<1> HIDE DEF f
<1>1. f \in Injection(1 .. n, S) BY <1>0, <1>a DEF Injection, IsInjective
<1>2. f \in Surjection(1 .. n, S) BY <1>0, <1>b DEF Surjection
<1>3. ExistsBijection(1 .. n, S) BY <1>1, <1>2 DEF ExistsBijection, Bijection
<1>4. IsFiniteSet(S) BY <1>3, FS_NatBijection
<1> QED BY <1>3, <1>4, FS_CountingElements

(* The size of a union of disjoint finite sets.                            *)
LEMMA DisjointUnion ==
    ASSUME NEW A, NEW B, IsFiniteSet(A), IsFiniteSet(B), A \cap B = {}
    PROVE  IsFiniteSet(A \cup B) /\ Cardinality(A \cup B) = Cardinality(A) + Cardinality(B)
<1>1. Cardinality(A \cap B) = 0 BY FS_EmptySet
<1>2. Cardinality(A) \in Nat /\ Cardinality(B) \in Nat BY FS_CardinalityType
<1>3. /\ IsFiniteSet(A \cup B)
      /\ Cardinality(A \cup B) = Cardinality(A) + Cardinality(B) - Cardinality(A \cap B)
  BY FS_Union
<1> QED BY <1>1, <1>2, <1>3

(* The invariant gives every block one owner.                              *)
LEMMA OwnersApart == ASSUME IInv PROVE OneOwner
<1>0. LinkApart /\ LinkOnce /\ AllocInv /\ TypeLinks BY DEF IInv, LinkInv, Types
<1>1. \A b \in InUse : page[b] = "live" BY InUseLive
<1>2. Cardinality(InUse) = Cardinality(tree) + Len(pend) + Len(log)
  <2> DEFINE P == Elems(pend)
             L == LogPages
  <2>1. Len(pend) \in Nat /\ DOMAIN pend = 1 .. Len(pend) /\ Len(log) \in Nat /\ DOMAIN log = 1 .. Len(log)
    BY <1>0, LenProperties DEF TypeLinks
  <2>2. IsFiniteSet(P) /\ Cardinality(P) = Len(pend)
    <3>1. P = {pend[i] : i \in 1 .. Len(pend)} BY <2>1 DEF Elems
    <3>2. \A i, j \in 1 .. Len(pend) : pend[i] = pend[j] => i = j BY <1>0, <2>1 DEF LinkOnce
    <3> HIDE DEF P
    <3> QED BY <2>1, <3>1, <3>2, CountOnce
  <2>3. IsFiniteSet(L) /\ Cardinality(L) = Len(log)
    <3>0. PICK blks : blks = [i \in DOMAIN log |-> log[i].blk] OBVIOUS
    <3>1. L = {blks[i] : i \in 1 .. Len(log)} BY <2>1, <3>0 DEF LogPages
    <3>2. \A i, j \in 1 .. Len(log) : blks[i] = blks[j] => i = j BY <1>0, <2>1, <3>0 DEF LinkOnce
    <3> HIDE DEF L
    <3> DEFINE n == Len(log)
    <3>3. n \in Nat /\ L = {blks[i] : i \in 1 .. n} /\ \A i, j \in 1 .. n : blks[i] = blks[j] => i = j
      BY <2>1, <3>1, <3>2
    <3> HIDE DEF n
    <3>4. IsFiniteSet(L) /\ Cardinality(L) = n BY <3>3, CountOnce
    <3> QED BY <3>4 DEF n
  <2>4. IsFiniteSet(tree) BY <1>0, FS_Subset, ProcFacts DEF TypeLinks
  <2>5. tree \cap P = {} /\ (tree \cup P) \cap L = {} BY <1>0 DEF LinkApart
  <2>6. InUse = (tree \cup P) \cup L BY DEF InUse
  <2> HIDE DEF P, L
  <2>7. IsFiniteSet(tree \cup P) /\ Cardinality(tree \cup P) = Cardinality(tree) + Cardinality(P)
    BY <2>2, <2>4, <2>5, DisjointUnion
  <2> DEFINE U == tree \cup P
  <2>8. IsFiniteSet(U) /\ U \cap L = {} /\ Cardinality(U) = Cardinality(tree) + Cardinality(P)
    BY <2>5, <2>7
  <2> HIDE DEF U
  <2>9. Cardinality(U \cup L) = Cardinality(U) + Cardinality(L) BY <2>3, <2>8, DisjointUnion
  <2> QED BY <2>2, <2>3, <2>6, <2>8, <2>9 DEF U
<1>3. \A p \in Procs : buf[p] = None \/ (page[buf[p]] = "blank" /\ held[buf[p]] = p)
  BY <1>0 DEF AllocInv, AllocPc, AllocPage, GotPage
<1>4. None \notin InUse BY InUseLive, ProcFacts
<1>5. \A p \in Procs : \A b \in new[p] : page[b] = "live" /\ b \notin InUse BY OwnFacts
<1> QED BY <1>1, <1>2, <1>3, <1>4, <1>5 DEF OneOwner

(* No block is in two structures, and pg_tre_extend gives out no page in   *)
(* use and no page twice, whatever the FSM offers after aborts and         *)
(* crashes.                                                                *)
THEOREM OwnersUnique == Spec => []OneOwner
<1>1. IInv => OneOwner BY OwnersApart
<1> QED BY <1>1, Inductive, PTL

(* The invariant has LogSound.                                             *)
LEMMA LogHolds == ASSUME IInv PROVE LogSound
<1> DEFINE all == Listed \cup UNION {ToLog(p) : p \in Procs}
<1>1. \A b \in all : page[b] = "live" /\ b \notin InUse /\ b \in Blocks
  BY InUseLive, OwnFacts
<1>2. \A p \in Procs : buf[p] = None \/ page[buf[p]] = "blank"
  BY DEF IInv, AllocInv, AllocPc, AllocPage, GotPage
<1>3. \A p \in Procs : buf[p] \notin all BY <1>1, <1>2, ProcFacts
<1>4. ASSUME NEW p \in Procs, NEW q \in Procs PROVE new[p] \cap ToLog(q) = {}
  <2>1. CASE pc[p] = "build" /\ pc[q] \in MergePc
    <3>1. pc[p] \in MergePc BY <2>1 DEF MergePc, PcState
    <3>2. p = q BY <2>1, <3>1, OneMerger
    <3>3. todo[q] = {} /\ batches[q] = <<>> BY <2>1, <3>2 DEF IInv, BuildInv, BuildLocal
    <3> QED BY <3>3 DEF ToLog, Elems
  <2>2. CASE pc[p] # "build"
    <3>1. new[p] = {} BY <2>2 DEF IInv, BuildInv, BuildLocal
    <3> QED BY <3>1
  <2>3. CASE pc[q] \notin MergePc BY <2>3, OwnEmpty
  <2> QED BY <2>1, <2>2, <2>3
<1>5. \A p \in Procs : new[p] \cap all = {} BY <1>4, OwnFacts
<1>6. \A i, j \in DOMAIN log : \A e \in log[i].ents, f \in log[j].ents :
         e.block = f.block => i = j /\ e = f
  BY DEF IInv, LinkInv, LinkOnce
<1>7. all \cap InUse = {} BY <1>1
<1> QED BY <1>1, <1>3, <1>5, <1>6, <1>7 DEF LogSound, Listed

(* What is listed in the free log, or about to be, is in no structure and  *)
(* listed once: the drain blanks no page in use.                           *)
THEOREM LogsSound == Spec => []LogSound
<1>1. IInv => LogSound BY LogHolds
<1> QED BY <1>1, Inductive, PTL

=============================================================================
