--------------------------- MODULE RunCatalogProofs ---------------------------
(***************************************************************************)
(* Proofs about the run catalog, for any trigrams, TIDs, batches, scans,   *)
(* page capacity, level caps and any number of crashes.                    *)
(*                                                                         *)
(* The inductive invariant has three parts.  The pages: links lead to      *)
(* older pages, the head is the newest one, and every record names a tree  *)
(* that was built and carries a hash range that covers it.  The writer:    *)
(* what a pass of the Hanoi merge or a collapse holds in its locals is     *)
(* what the catalog still says, the new tree is the union of those it      *)
(* replaces, and what will be handed to the free log is reached from       *)
(* nowhere once the catalog is switched.  The scans: every entry a scan    *)
(* has to find is in what it collected, in the rest of its page, or in the *)
(* runs its next page leads to; pages only grow and are never unlinked     *)
(* from one another, which is what makes an iterator without locks safe.   *)
(*                                                                         *)
(* A pass reads at most CatalogCap runs and its rewrite writes what it     *)
(* read.  That compaction loses no entry and forgets no tree therefore     *)
(* needs Fits: the runs fit on one page whenever a pass starts.            *)
(* CatalogFits gives it from the bounds of a model.                        *)
(***************************************************************************)
EXTENDS RunCatalog, FiniteSetTheorems, SequenceTheorems, Induction, TLAPS

(* A run record, a catalog page and an open iterator.                      *)
RunRec  == [run_id : Nat, level : Nat, root : Nat, lo : Nat, hi : Nat]
PageRec == [right_link : Nat, runs : Seq(RunRec)]
IterRec == [at : {"base", "load", "read", "done"}, h : Trigrams, root : Nat, page : Nat,
            idx : Nat, n : Nat]

(* Links lead to older pages.                                              *)
Chain(c) == c \in Seq(PageRec) /\ \A b \in DOMAIN c : c[b].right_link < b

(* Run ids identify the runs of a list.                                    *)
Uniq(s) == \A i, j \in DOMAIN s : i # j => s[i].run_id # s[j].run_id

(* The types of the metapage, the trees and the log; the head of the chain *)
(* is its newest page.                                                     *)
TypeMeta ==
    /\ tree \in Seq(SUBSET Entry) /\ root_upper \in 1 .. Len(tree)
    /\ Chain(cat) /\ (run_catalog_head = 0 \/ run_catalog_head = Len(cat))
    /\ n_runs \in Nat /\ next_run_id \in Nat \ {0} /\ max_levels \in LevelCaps
    /\ logged \in SUBSET (1 .. Len(tree))

(* The types of the writer's locals.                                       *)
TypeMerge ==
    /\ pc \in {"idle", "free", "hanoi", "promote", "rewrite", "hanoi_log", "backstop",
               "reset", "collapse_log"}
    /\ picked \in Seq(RunRec) /\ target \in Nat /\ new_root \in Nat
    /\ dropped \in SUBSET (1 .. Len(tree))

(* The types of the scans.                                                 *)
TypeScan ==
    /\ it \in [Scanners -> {Closed} \cup IterRec]
    /\ acc \in [Scanners -> SUBSET Entry] /\ must \in [Scanners -> SUBSET Entry]
    /\ faults \in 0 .. MaxFaults

(* A run record names a tree that was built, a level and an id in use, and *)
(* a hash range that covers the tree.                                      *)
RunOK(r) ==
    /\ r \in RunRec /\ r.run_id \in 1 .. next_run_id - 1
    /\ r.level \in 1 .. max_levels /\ r.root \in 1 .. Len(tree)
    /\ r.lo \in Trigrams /\ r.hi \in Trigrams
    /\ \A e \in tree[r.root] : r.lo <= e[1] /\ e[1] <= r.hi

(* Every record of every page that was ever written is such a record: old  *)
(* pages stay readable for the scans on them.                              *)
PagesInv ==
    \A b \in DOMAIN cat :
        /\ Len(cat[b].runs) \in 1 .. CatalogCap
        /\ \A i \in DOMAIN cat[b].runs : RunOK(cat[b].runs[i])

(* n_runs counts the runs, and they have different ids.                    *)
CountInv == RunCount = Len(CatalogRuns) + 1 /\ Uniq(CatalogRuns)

(* What a pass has read fits on a page, its records are good and not       *)
(* logged, and the new tree is the union of those of the target level.  A  *)
(* tree to be freed is not the base and has only runs of that level.       *)
FoldInv ==
    pc \in {"promote", "rewrite"} =>
        /\ Len(picked) <= CatalogCap /\ Uniq(picked)
        /\ target \in 1 .. max_levels - 1
        /\ \E i \in DOMAIN picked : picked[i].level = target
        /\ \A i \in DOMAIN picked : RunOK(picked[i]) /\ picked[i].root \notin logged
        /\ \A e : e \in tree[new_root] <=>
              \E i \in DOMAIN picked : picked[i].level = target /\ e \in tree[picked[i].root]
        /\ \A x \in dropped : /\ x # root_upper
                              /\ \A i \in DOMAIN picked : picked[i].root = x => picked[i].level = target

(* The promoted run is the last record of the head page, and newer than    *)
(* what the pass read.                                                     *)
PromoteInv ==
    pc = "rewrite" =>
        /\ run_catalog_head # Invalid
        /\ PromotedRun.root = new_root
        /\ \A i \in DOMAIN picked : picked[i].run_id < PromotedRun.run_id

(* The new tree is neither logged nor to be freed.                         *)
NewInv ==
    pc \in {"promote", "rewrite", "hanoi_log", "reset", "collapse_log"} =>
        new_root \in 1 .. Len(tree) /\ new_root \notin logged /\ new_root \notin dropped

(* What is about to be logged is reached from nowhere.                     *)
DropInv == pc \in {"free", "hanoi_log", "collapse_log"} => dropped \cap LiveRoots = {}

(* The tree a collapse built holds everything stored.                      *)
CollapseInv == pc = "reset" => tree[new_root] = Stored

(* An entry is in a run that the chain from a page leads to.               *)
InRuns(b, e) == \E i \in DOMAIN RunsFrom(cat)[b] : e \in tree[RunsFrom(cat)[b][i].root]

(* The scan can still meet the entry.                                      *)
Ahead(s, e) ==
    \/ /\ it[s].at = "base"
       /\ e \in tree[it[s].root] \/ InRuns(it[s].page, e)
    \/ it[s].at = "load" /\ InRuns(it[s].page, e)
    \/ /\ it[s].at = "read"
       /\ \/ \E i \in it[s].idx .. it[s].n : e \in tree[cat[it[s].page].runs[i].root]
          \/ InRuns(cat[it[s].page].right_link, e)

(* Where a scan stands exists: its tree, its page and the records it will  *)
(* read.                                                                   *)
ScanPlace(s) ==
    /\ it[s].root \in 1 .. Len(tree) /\ it[s].page \in 0 .. Len(cat)
    /\ it[s].at = "read" =>
          /\ it[s].page # 0 /\ it[s].idx \in 1 .. it[s].n + 1
          /\ it[s].n <= Len(cat[it[s].page].runs)

(* What a scan has to find it has found, or is ahead.                      *)
ScanFinds(s) == \A e \in must[s] : e[1] = it[s].h /\ (e \in acc[s] \/ Ahead(s, e))

(* Both hold of every open iterator.                                       *)
ScanInv ==
    \A s \in Scanners : IF it[s] = Closed THEN must[s] = {} ELSE ScanPlace(s) /\ ScanFinds(s)

(* The part of the invariant that scans do not change.                     *)
StoreInv == /\ TypeMeta /\ TypeMerge /\ PagesInv /\ CountInv /\ FoldInv /\ PromoteInv
            /\ NewInv /\ DropInv /\ LoggedUnreachable /\ CollapseInv

(* The inductive invariant.                                                *)
IInv == StoreInv /\ TypeScan /\ ScanInv

(* The runs fit on one page whenever a pass of the Hanoi merge starts.     *)
Fits == pc = "hanoi" => Len(CatalogRuns) <= CatalogCap

(* A pass has read every run of the catalog.                               *)
FullInv ==
    /\ pc = "promote" => Live = Elems(picked)
    /\ pc = "rewrite" => Live = Elems(picked) \cup {PromotedRun}

-----------------------------------------------------------------------------
(* A finite set of numbers has a greatest one.                             *)
LEMMA GreatestNumber ==
    ASSUME NEW S \in SUBSET Nat, IsFiniteSet(S), S # {}
    PROVE  \E m \in S : \A x \in S : x <= m
<1> DEFINE P(n) == \A T \in SUBSET Nat : IsFiniteSet(T) /\ Cardinality(T) = n /\ T # {} =>
                      \E m \in T : \A x \in T : x <= m
           Q == {n \in Nat : P(n)}
<1>1. P(0)
  <2> SUFFICES ASSUME NEW T \in SUBSET Nat, IsFiniteSet(T), Cardinality(T) = 0, T # {} PROVE FALSE
    OBVIOUS
  <2> QED BY FS_EmptySet
<1>2. ASSUME NEW n \in Nat, P(n) PROVE P(n + 1)
  <2> SUFFICES ASSUME NEW T \in SUBSET Nat, IsFiniteSet(T), Cardinality(T) = n + 1, T # {}
               PROVE  \E m \in T : \A x \in T : x <= m
    OBVIOUS
  <2>1. PICK y \in T : TRUE OBVIOUS
  <2> DEFINE U == T \ {y}
  <2>2. IsFiniteSet(U) /\ Cardinality(U) = n /\ U \in SUBSET Nat
    <3>1. IsFiniteSet(U) /\ Cardinality(U) = Cardinality(T) - 1 BY <2>1, FS_RemoveElement
    <3> QED BY <3>1
  <2>3. \A x \in T : x \in U \/ x = y OBVIOUS
  <2>4. U \subseteq T OBVIOUS
  <2> HIDE DEF U
  <2>5. CASE U = {} BY <2>1, <2>3, <2>5
  <2>6. CASE U # {}
    <3>1. PICK m \in U : \A x \in U : x <= m BY <1>2, <2>2, <2>6
    <3>2. m \in T /\ m \in Nat /\ y \in Nat /\ \A x \in U : x \in Nat BY <2>1, <2>2, <2>4
    <3>3. CASE y <= m BY <2>3, <3>1, <3>2, <3>3
    <3>4. CASE ~(y <= m)
      <4>1. \A x \in U : x <= y BY <3>1, <3>2, <3>4
      <4> QED BY <2>1, <2>3, <3>2, <4>1
    <3> QED BY <3>3, <3>4
  <2> QED BY <2>5, <2>6
<1> HIDE DEF P
<1>3. 0 \in Q BY <1>1
<1>4. \A n \in Nat : n \in Q => n + 1 \in Q BY <1>2
<1> HIDE DEF Q
<1>5. Nat \subseteq Q BY <1>3, <1>4, NumberInduction
<1>6. Cardinality(S) \in Nat BY FS_CardinalityType
<1>7. P(Cardinality(S)) BY <1>5, <1>6 DEF Q
<1> QED BY <1>7 DEF P

(* Least picks the least number.                                           *)
LEMMA LeastOf ==
    ASSUME NEW S \in SUBSET Nat, S # {}
    PROVE  Least(S) \in S /\ \A x \in S : Least(S) <= x
<1>1. \E m \in S : \A x \in S : m <= x BY LeastNumber
<1> QED BY <1>1 DEF Least

(* Greatest picks the greatest number.                                     *)
LEMMA GreatestOf ==
    ASSUME NEW S \in SUBSET Nat, S # {}, IsFiniteSet(S)
    PROVE  Greatest(S) \in S /\ \A x \in S : x <= Greatest(S)
<1>1. \E m \in S : \A x \in S : x <= m BY GreatestNumber
<1> QED BY <1>1 DEF Greatest

(* 1 << n is positive.                                                     *)
LEMMA PowerPositive == ASSUME NEW n \in Nat PROVE Pow2(n) \in Nat \ {0}
<1> DEFINE D(f, m) == f = [i \in 0 .. m |-> IF i = 0 THEN 1 ELSE 2 * f[i - 1]]
           T == {m \in Nat : \E f : D(f, m)}
<1>1. 0 \in T
  <2> DEFINE g == [i \in 0 .. 0 |-> 1]
  <2>1. D(g, 0) OBVIOUS
  <2> HIDE DEF D, g
  <2> QED BY <2>1
<1>2. ASSUME NEW m \in Nat, m \in T PROVE m + 1 \in T
  <2>1. PICK f : D(f, m) BY <1>2
  <2> DEFINE g == [i \in 0 .. m + 1 |-> IF i <= m THEN f[i] ELSE 2 * f[m]]
  <2>2. D(g, m + 1)
    <3>1. \A i \in 0 .. m + 1 : g[i] = IF i = 0 THEN 1 ELSE 2 * g[i - 1]
      <4> SUFFICES ASSUME NEW i \in 0 .. m + 1 PROVE g[i] = IF i = 0 THEN 1 ELSE 2 * g[i - 1]
        OBVIOUS
      <4>1. CASE i = 0 BY <2>1, <4>1
      <4>2. CASE i # 0 /\ i <= m BY <2>1, <4>2
      <4>3. CASE i = m + 1 BY <4>3
      <4> QED BY <4>1, <4>2, <4>3
    <3> HIDE DEF g
    <3>2. g = [i \in 0 .. m + 1 |-> g[i]] BY DEF g
    <3> QED BY <3>1, <3>2
  <2> HIDE DEF D, g
  <2> QED BY <2>2
<1>3. Nat \subseteq T
  <2> HIDE DEF T
  <2> QED BY <1>1, <1>2, NumberInduction
<1>4. \E f : D(f, n) BY <1>3
<1> DEFINE h == CHOOSE f : D(f, n)
<1>5. D(h, n)
  <2> HIDE DEF D
  <2> QED BY <1>4
<1>6. Pow2(n) = h[n] BY DEF Pow2
<1> HIDE DEF h
<1> DEFINE V == {m \in Nat : m <= n => h[m] \in Nat \ {0}}
<1>7. 0 \in V BY <1>5
<1>8. \A m \in Nat : m \in V => m + 1 \in V
  <2> SUFFICES ASSUME NEW m \in Nat, m \in V, m + 1 <= n PROVE h[m + 1] \in Nat \ {0} OBVIOUS
  <2>1. h[m + 1] = 2 * h[m] BY <1>5
  <2>2. h[m] \in Nat \ {0} OBVIOUS
  <2> QED BY <2>1, <2>2
<1>9. Nat \subseteq V
  <2> HIDE DEF V
  <2> QED BY <1>7, <1>8, NumberInduction
<1> QED BY <1>6, <1>9

(* A selection has the selected elements and no others.                    *)
SelFrom(t, s, I, m) ==
    /\ \A j \in 1 .. Len(t) : \E i \in 1 .. m : i \in I /\ t[j] = s[i]
    /\ \A i \in 1 .. m : i \in I => \E j \in 1 .. Len(t) : t[j] = s[i]

(* Different places of a selection come from different places.             *)
SelApart(t, s, m) ==
    \A j, k \in 1 .. Len(t) : j # k => \E a, b \in 1 .. m : a # b /\ t[j] = s[a] /\ t[k] = s[b]

(* A selection is no longer than its source, and shorter if it leaves      *)
(* something out.                                                          *)
SelLen(t, I, m) == Len(t) <= m /\ ((\E i \in 1 .. m : i \notin I) => Len(t) < m)

(* One more element of the source.                                         *)
LEMMA SelectStep ==
    ASSUME NEW S, NEW s \in Seq(S), NEW I, NEW m \in Nat, m + 1 <= Len(s), NEW t \in Seq(S),
           SelFrom(t, s, I, m), SelApart(t, s, m), SelLen(t, I, m),
           NEW u, u = IF m + 1 \in I THEN Append(t, s[m + 1]) ELSE t
    PROVE  /\ u \in Seq(S) /\ SelFrom(u, s, I, m + 1) /\ SelApart(u, s, m + 1)
           /\ SelLen(u, I, m + 1)
<1> DEFINE n == Len(t)
           x == s[m + 1]
<1>0. n \in Nat /\ x \in S /\ 1 .. m \subseteq 1 .. m + 1 /\ n = Len(t)
  <2>1. Len(s) \in Nat /\ DOMAIN s = 1 .. Len(s) /\ n \in Nat BY LenProperties
  <2>2. m + 1 \in 1 .. Len(s) BY <2>1
  <2>3. x \in S BY <2>1, <2>2, ElementOfSeq
  <2> QED BY <2>1, <2>3
<1> HIDE DEF n
<1>1. CASE m + 1 \notin I
  <2>1. u = t BY <1>1
  <2>2. SelFrom(t, s, I, m + 1)
    <3>1. \A j \in 1 .. Len(t) : \E i \in 1 .. m + 1 : i \in I /\ t[j] = s[i] BY <1>0 DEF SelFrom
    <3>2. \A i \in 1 .. m + 1 : i \in I => i \in 1 .. m BY <1>1
    <3>3. \A i \in 1 .. m + 1 : i \in I => \E j \in 1 .. Len(t) : t[j] = s[i] BY <3>2 DEF SelFrom
    <3> QED BY <3>1, <3>3 DEF SelFrom
  <2>3. SelApart(t, s, m + 1) BY <1>0 DEF SelApart
  <2>4. SelLen(t, I, m + 1) BY <1>0 DEF SelLen
  <2> QED BY <2>1, <2>2, <2>3, <2>4
<1>2. CASE m + 1 \in I
  <2>1. u = Append(t, x) BY <1>2
  <2>2. /\ u \in Seq(S) /\ Len(u) = n + 1 /\ u[n + 1] = x
        /\ \A j \in 1 .. n : u[j] = t[j]
    BY <1>0, <2>1, AppendProperties
  <2>3. \A j \in 1 .. n + 1 : j \in 1 .. n \/ j = n + 1 BY <1>0
  <2>4. \A i \in 1 .. m + 1 : i \in 1 .. m \/ i = m + 1 OBVIOUS
  <2>5. m + 1 \in 1 .. m + 1 /\ n + 1 \in 1 .. n + 1 /\ 1 .. n \subseteq 1 .. n + 1 BY <1>0
  <2>6. SelFrom(u, s, I, m + 1)
    <3>1. \A j \in 1 .. Len(u) : \E i \in 1 .. m + 1 : i \in I /\ u[j] = s[i]
      <4> SUFFICES ASSUME NEW j \in 1 .. n + 1 PROVE \E i \in 1 .. m + 1 : i \in I /\ u[j] = s[i]
        BY <2>2
      <4>1. CASE j \in 1 .. n BY <1>0, <2>2, <4>1 DEF SelFrom
      <4>2. CASE j = n + 1 BY <1>2, <2>2, <2>5, <4>2
      <4> QED BY <2>3, <4>1, <4>2
    <3>2. \A i \in 1 .. m + 1 : i \in I => \E j \in 1 .. Len(u) : u[j] = s[i]
      <4> SUFFICES ASSUME NEW i \in 1 .. m + 1, i \in I PROVE \E j \in 1 .. n + 1 : u[j] = s[i]
        BY <2>2
      <4>1. CASE i \in 1 .. m
        <5>1. PICK j \in 1 .. n : t[j] = s[i] BY <1>0, <4>1 DEF SelFrom
        <5> QED BY <2>2, <2>5, <5>1
      <4>2. CASE i = m + 1 BY <2>2, <2>5, <4>2
      <4> QED BY <2>4, <4>1, <4>2
    <3> QED BY <3>1, <3>2 DEF SelFrom
  <2>7. SelApart(u, s, m + 1)
    <3> DEFINE G(j, k) == \E a, b \in 1 .. m + 1 : a # b /\ u[j] = s[a] /\ u[k] = s[b]
    <3>0. (\A j, k \in 1 .. n + 1 : j # k => G(j, k)) => SelApart(u, s, m + 1)
      <4>1. SelApart(u, s, m + 1) <=> \A j, k \in 1 .. Len(u) : j # k => G(j, k)
        BY Zenon DEF SelApart
      <4> HIDE DEF G
      <4> QED BY <2>2, <4>1, Zenon
    <3> SUFFICES ASSUME NEW j \in 1 .. n + 1, NEW k \in 1 .. n + 1, j # k PROVE G(j, k)
      BY <3>0
    <3>1. CASE j \in 1 .. n /\ k \in 1 .. n
      <4>1. PICK a \in 1 .. m, b \in 1 .. m : a # b /\ t[j] = s[a] /\ t[k] = s[b]
        BY <1>0, <3>1 DEF SelApart
      <4> QED BY <1>0, <2>2, <3>1, <4>1
    <3>2. CASE j \in 1 .. n /\ k = n + 1
      <4>1. PICK a \in 1 .. m : t[j] = s[a] BY <1>0, <3>2 DEF SelFrom
      <4>2. a \in 1 .. m + 1 /\ a # m + 1 OBVIOUS
      <4>3. u[j] = s[a] /\ u[k] = s[m + 1] BY <2>2, <3>2, <4>1
      <4> QED BY <2>5, <4>2, <4>3
    <3>3. CASE k \in 1 .. n /\ j = n + 1
      <4>1. PICK b \in 1 .. m : t[k] = s[b] BY <1>0, <3>3 DEF SelFrom
      <4>2. b \in 1 .. m + 1 /\ b # m + 1 OBVIOUS
      <4>3. u[k] = s[b] /\ u[j] = s[m + 1] BY <2>2, <3>3, <4>1
      <4> QED BY <2>5, <4>2, <4>3
    <3> QED BY <2>3, <3>1, <3>2, <3>3
  <2>8. SelLen(u, I, m + 1)
    <3>1. n <= m BY <1>0 DEF SelLen
    <3>2. (\E i \in 1 .. m + 1 : i \notin I) => \E i \in 1 .. m : i \notin I BY <1>2, <2>4
    <3>3. (\E i \in 1 .. m : i \notin I) => n < m BY <1>0 DEF SelLen
    <3> QED BY <1>0, <2>2, <3>1, <3>2, <3>3 DEF SelLen
  <2> QED BY <2>2, <2>6, <2>7, <2>8
<1> QED BY <1>1, <1>2

(* Select has these three properties.                                      *)
LEMMA SelectFacts ==
    ASSUME NEW S, NEW s \in Seq(S), NEW I
    PROVE  /\ Select(s, I) \in Seq(S) /\ SelFrom(Select(s, I), s, I, Len(s))
           /\ SelApart(Select(s, I), s, Len(s)) /\ SelLen(Select(s, I), I, Len(s))
<1> DEFINE N == Len(s)
           next(t, i) == IF i \in I THEN Append(t, s[i]) ELSE t
           D(f, m) == f = [i \in 0 .. m |-> IF i = 0 THEN <<>> ELSE next(f[i - 1], i)]
           T == {m \in Nat : \E f : D(f, m)}
<1>0. N \in Nat /\ N = Len(s) BY LenProperties
<1>1. 0 \in T
  <2> DEFINE g == [i \in 0 .. 0 |-> <<>>]
  <2>1. D(g, 0) OBVIOUS
  <2> HIDE DEF D, g
  <2> QED BY <2>1
<1>2. ASSUME NEW m \in Nat, m \in T PROVE m + 1 \in T
  <2>1. PICK f : D(f, m) BY <1>2
  <2> DEFINE g == [i \in 0 .. m + 1 |-> IF i <= m THEN f[i] ELSE next(f[m], m + 1)]
  <2> HIDE DEF next
  <2>2. D(g, m + 1)
    <3>1. \A i \in 0 .. m + 1 : g[i] = IF i = 0 THEN <<>> ELSE next(g[i - 1], i)
      <4> SUFFICES ASSUME NEW i \in 0 .. m + 1
                   PROVE  g[i] = IF i = 0 THEN <<>> ELSE next(g[i - 1], i)
        OBVIOUS
      <4>1. CASE i = 0 BY <2>1, <4>1
      <4>2. CASE i # 0 /\ i <= m BY <2>1, <4>2
      <4>3. CASE i = m + 1 BY <4>3
      <4> QED BY <4>1, <4>2, <4>3
    <3> HIDE DEF g
    <3>2. g = [i \in 0 .. m + 1 |-> g[i]] BY DEF g
    <3> QED BY <3>1, <3>2
  <2> HIDE DEF D, g
  <2> QED BY <2>2
<1>3. Nat \subseteq T
  <2> HIDE DEF T
  <2> QED BY <1>1, <1>2, NumberInduction
<1>4. \E f : D(f, N) BY <1>0, <1>3
<1> DEFINE h == CHOOSE f : D(f, N)
<1>5. D(h, N)
  <2> HIDE DEF D
  <2> QED BY <1>4
<1>6. Select(s, I) = h[N] BY DEF Select
<1> HIDE DEF h
<1> DEFINE OK(m) == /\ h[m] \in Seq(S) /\ SelFrom(h[m], s, I, m)
                    /\ SelApart(h[m], s, m) /\ SelLen(h[m], I, m)
           V == {m \in Nat : m <= N => OK(m)}
<1>7. 0 \in V
  <2>1. h[0] = <<>> BY <1>0, <1>5
  <2>2. OK(0) BY <2>1 DEF SelFrom, SelApart, SelLen
  <2> QED BY <2>2
<1>8. \A m \in Nat : m \in V => m + 1 \in V
  <2> SUFFICES ASSUME NEW m \in Nat, m \in V, m + 1 <= N PROVE OK(m + 1) OBVIOUS
  <2>1. h[m + 1] = next(h[m], m + 1)
    <3> HIDE DEF next, V
    <3>1. m + 1 \in 0 .. N /\ m + 1 # 0 /\ (m + 1) - 1 = m BY <1>0
    <3>2. h[m + 1] = next(h[(m + 1) - 1], m + 1) BY <1>5, <3>1
    <3> QED BY <3>1, <3>2
  <2>2. OK(m) BY <1>0
  <2> DEFINE t == h[m]
             u == h[m + 1]
  <2>3. /\ t \in Seq(S) /\ SelFrom(t, s, I, m) /\ SelApart(t, s, m) /\ SelLen(t, I, m)
        /\ u = IF m + 1 \in I THEN Append(t, s[m + 1]) ELSE t
    BY <2>1, <2>2
  <2> HIDE DEF t, u
  <2>4. u \in Seq(S) /\ SelFrom(u, s, I, m + 1) /\ SelApart(u, s, m + 1) /\ SelLen(u, I, m + 1)
    BY <1>0, <2>3, SelectStep
  <2> QED BY <2>4 DEF u
<1>9. Nat \subseteq V
  <2> HIDE DEF V
  <2> QED BY <1>7, <1>8, NumberInduction
<1>10. OK(N) BY <1>0, <1>9
<1> QED BY <1>6, <1>10

(* The pages of a chain, and where they link to.                           *)
LEMMA ChainFacts ==
    ASSUME NEW c, Chain(c)
    PROVE  /\ c \in Seq(PageRec) /\ Len(c) \in Nat /\ DOMAIN c = 1 .. Len(c)
           /\ \A b \in 1 .. Len(c) : /\ c[b] \in PageRec /\ c[b].runs \in Seq(RunRec)
                                     /\ c[b].right_link \in 0 .. b - 1
                                     /\ c[b].right_link \in 0 .. Len(c)
<1>1. c \in Seq(PageRec) /\ \A b \in DOMAIN c : c[b].right_link < b BY DEF Chain
<1>2. Len(c) \in Nat /\ DOMAIN c = 1 .. Len(c) BY <1>1, LenProperties
<1>3. \A b \in 1 .. Len(c) : c[b] \in PageRec BY <1>1, <1>2, ElementOfSeq
<1>4. \A b \in 1 .. Len(c) : c[b].runs \in Seq(RunRec) /\ c[b].right_link \in Nat
  BY <1>3 DEF PageRec
<1>5. \A b \in 1 .. Len(c) : c[b].right_link \in 0 .. b - 1 /\ c[b].right_link \in 0 .. Len(c)
  BY <1>1, <1>2, <1>4
<1> QED BY <1>1, <1>2, <1>3, <1>4, <1>5

(* The recursive equation of RunsFrom.                                     *)
LEMMA RunsDef ==
    ASSUME NEW c, Chain(c)
    PROVE  /\ RunsFrom(c)[0] = <<>>
           /\ \A b \in 1 .. Len(c) : RunsFrom(c)[b] = c[b].runs \o RunsFrom(c)[c[b].right_link]
<1> DEFINE N == Len(c)
           next(f, b) == c[b].runs \o f[c[b].right_link]
           D(f, m) == f = [b \in 0 .. m |-> IF b = Invalid THEN <<>> ELSE next(f, b)]
           Ex(m) == \E f : D(f, m)
           T == {m \in Nat : m <= N => Ex(m)}
<1>0. N \in Nat /\ N = Len(c) /\ \A b \in 1 .. N : c[b].right_link \in 0 .. b - 1 BY ChainFacts
<1>1. 0 \in T
  <2> DEFINE g == [b \in 0 .. 0 |-> <<>>]
  <2>1. D(g, 0) BY DEF Invalid
  <2> HIDE DEF D, g
  <2>2. Ex(0) BY <2>1
  <2> HIDE DEF Ex
  <2> QED BY <2>2
<1>2. ASSUME NEW m \in Nat, m \in T PROVE m + 1 \in T
  <2>0. Ex(m + 1) => m + 1 \in T
    <3> HIDE DEF Ex
    <3> QED OBVIOUS
  <2> SUFFICES ASSUME m + 1 <= N PROVE Ex(m + 1)
    <3> HIDE DEF Ex
    <3> QED OBVIOUS
  <2>00. Ex(m)
    <3> HIDE DEF Ex
    <3> QED BY <1>0, <1>2
  <2>1. PICK f : D(f, m) BY <2>00
  <2> DEFINE g == [b \in 0 .. m + 1 |-> IF b <= m THEN f[b] ELSE next(f, m + 1)]
  <2>2. D(g, m + 1)
    <3>1. \A b \in 0 .. m + 1 : g[b] = IF b = Invalid THEN <<>> ELSE next(g, b)
      <4> SUFFICES ASSUME NEW b \in 0 .. m + 1
                   PROVE  g[b] = IF b = Invalid THEN <<>> ELSE next(g, b)
        OBVIOUS
      <4>0. b # 0 => c[b].right_link \in 0 .. m /\ c[b].right_link \in 0 .. b - 1 BY <1>0
      <4>1. b # 0 => g[c[b].right_link] = f[c[b].right_link] BY <4>0
      <4>2. b # 0 => next(g, b) = next(f, b) BY <4>1
      <4>3. CASE b = 0 BY <2>1, <4>3 DEF Invalid
      <4>4. CASE b # 0 /\ b <= m
        <5>1. g[b] = f[b] BY <4>4
        <5> HIDE DEF g, next
        <5>2. f[b] = next(f, b) BY <2>1, <4>4 DEF Invalid
        <5> QED BY <4>2, <4>4, <5>1, <5>2 DEF Invalid
      <4>5. CASE b = m + 1
        <5> HIDE DEF next
        <5>0. ~(m + 1 <= m) /\ m + 1 \in 0 .. m + 1 OBVIOUS
        <5>1. g[b] = next(f, b) BY <4>5, <5>0
        <5> HIDE DEF g
        <5> QED BY <4>2, <4>5, <5>1 DEF Invalid
      <4> QED BY <4>3, <4>4, <4>5
    <3> HIDE DEF g, next
    <3>2. g = [b \in 0 .. m + 1 |-> g[b]] BY DEF g
    <3> QED BY <3>1, <3>2
  <2> HIDE DEF D, g
  <2> QED BY <2>2
<1>3. Nat \subseteq T
  <2> HIDE DEF T
  <2> QED BY <1>1, <1>2, NumberInduction
<1>4. Ex(N)
  <2> HIDE DEF Ex
  <2> QED BY <1>0, <1>3
<1> DEFINE h == CHOOSE f : D(f, N)
<1>5. D(h, N)
  <2> HIDE DEF D
  <2> QED BY <1>4
<1>6. RunsFrom(c) = h BY DEF RunsFrom
<1> HIDE DEF h
<1>7. h[0] = <<>> BY <1>0, <1>5 DEF Invalid
<1>8. \A b \in 1 .. N : h[b] = next(h, b)
  <2> HIDE DEF next, T, Ex
  <2> TAKE b \in 1 .. N
  <2>1. b \in 0 .. N /\ b # 0 BY <1>0
  <2> QED BY <1>5, <2>1 DEF Invalid
<1> QED BY <1>6, <1>7, <1>8

(* RunsFrom lists run records.                                             *)
LEMMA RunsTypes ==
    ASSUME NEW c, Chain(c)
    PROVE  \A b \in 0 .. Len(c) : RunsFrom(c)[b] \in Seq(RunRec)
<1> DEFINE N == Len(c)
           R == RunsFrom(c)
           T == {m \in Nat : \A b \in 0 .. m : b <= N => R[b] \in Seq(RunRec)}
<1>0. /\ N \in Nat /\ R[0] = <<>>
      /\ \A b \in 1 .. N : /\ R[b] = c[b].runs \o R[c[b].right_link]
                           /\ c[b].runs \in Seq(RunRec) /\ c[b].right_link \in 0 .. b - 1
  BY RunsDef, ChainFacts
<1> HIDE DEF R, N
<1>1. 0 \in T
  <2>1. R[0] \in Seq(RunRec) BY <1>0
  <2>2. \A b \in 0 .. 0 : b = 0 OBVIOUS
  <2> QED BY <2>1, <2>2
<1>2. ASSUME NEW m \in Nat, m \in T PROVE m + 1 \in T
  <2> SUFFICES ASSUME NEW b \in 0 .. m + 1, b <= N PROVE R[b] \in Seq(RunRec) OBVIOUS
  <2>1. CASE b \in 0 .. m BY <1>2, <2>1
  <2>2. CASE b = m + 1
    <3>1. b \in 1 .. N BY <1>0, <2>2
    <3> DEFINE l == c[b].right_link
               x == c[b].runs
               y == R[l]
    <3>2. l \in 0 .. b - 1 /\ x \in Seq(RunRec) /\ R[b] = x \o y BY <1>0, <3>1
    <3> HIDE DEF l, x
    <3>3. l \in 0 .. m /\ l <= N BY <1>0, <2>2, <3>1, <3>2
    <3>4. y \in Seq(RunRec) BY <1>2, <3>3
    <3> HIDE DEF y
    <3> QED BY <3>2, <3>4, ConcatProperties
  <2> QED BY <2>1, <2>2
<1>3. Nat \subseteq T
  <2> HIDE DEF T
  <2> QED BY <1>1, <1>2, NumberInduction
<1> QED BY <1>0, <1>3 DEF R, N

(* RunsFrom of a page depends on the pages up to it only.                  *)
LEMMA RunsFrame ==
    ASSUME NEW c, Chain(c), NEW d, Chain(d), NEW n \in Nat, n <= Len(c), n <= Len(d),
           \A b \in 1 .. n : d[b] = c[b]
    PROVE  \A b \in 0 .. n : RunsFrom(d)[b] = RunsFrom(c)[b]
<1> DEFINE Q == RunsFrom(d)
           R == RunsFrom(c)
           T == {m \in Nat : \A b \in 0 .. m : b <= n => Q[b] = R[b]}
<1>0. /\ R[0] = <<>> /\ Q[0] = <<>> /\ Len(c) \in Nat /\ Len(d) \in Nat
      /\ \A b \in 1 .. Len(c) : /\ R[b] = c[b].runs \o R[c[b].right_link]
                                /\ c[b].right_link \in 0 .. b - 1
      /\ \A b \in 1 .. Len(d) : Q[b] = d[b].runs \o Q[d[b].right_link]
  BY RunsDef, ChainFacts
<1> HIDE DEF R, Q
<1>1. 0 \in T BY <1>0
<1>2. ASSUME NEW m \in Nat, m \in T PROVE m + 1 \in T
  <2> SUFFICES ASSUME NEW b \in 0 .. m + 1, b <= n PROVE Q[b] = R[b] OBVIOUS
  <2>1. CASE b \in 0 .. m BY <1>2, <2>1
  <2>2. CASE b = m + 1
    <3>1. b \in 1 .. n /\ b \in 1 .. Len(c) /\ b \in 1 .. Len(d) BY <1>0, <2>2
    <3> DEFINE l == c[b].right_link
    <3>2. l \in 0 .. b - 1 /\ R[b] = c[b].runs \o R[l] BY <1>0, <3>1
    <3>3. d[b] = c[b] BY <3>1
    <3>4. Q[b] = c[b].runs \o Q[l] BY <1>0, <3>1, <3>3
    <3> HIDE DEF l
    <3>5. l \in 0 .. m /\ l <= n BY <2>2, <3>1, <3>2
    <3>6. Q[l] = R[l] BY <1>2, <3>5
    <3> QED BY <3>2, <3>4, <3>6
  <2> QED BY <2>1, <2>2
<1>3. Nat \subseteq T
  <2> HIDE DEF T
  <2> QED BY <1>1, <1>2, NumberInduction
<1> QED BY <1>3 DEF R, Q

(* Where the elements of a concatenation come from.                        *)
LEMMA ConcatParts ==
    ASSUME NEW s \in Seq(RunRec), NEW t \in Seq(RunRec), NEW q, q = s \o t
    PROVE  /\ q \in Seq(RunRec) /\ Len(s) \in Nat /\ Len(t) \in Nat /\ Len(q) = Len(s) + Len(t)
           /\ DOMAIN s = 1 .. Len(s) /\ DOMAIN t = 1 .. Len(t) /\ DOMAIN q = 1 .. Len(s) + Len(t)
           /\ \A i \in 1 .. Len(s) : i \in DOMAIN q /\ q[i] = s[i]
           /\ \A i \in 1 .. Len(t) : Len(s) + i \in DOMAIN q /\ q[Len(s) + i] = t[i]
           /\ \A i \in DOMAIN q : \/ i \in 1 .. Len(s) /\ q[i] = s[i]
                                  \/ i - Len(s) \in 1 .. Len(t) /\ q[i] = t[i - Len(s)]
<1> DEFINE m == Len(s)
           n == Len(t)
<1>1. m \in Nat /\ n \in Nat /\ DOMAIN s = 1 .. m /\ DOMAIN t = 1 .. n BY LenProperties
<1>2. /\ q \in Seq(RunRec) /\ Len(q) = m + n
      /\ \A i \in 1 .. m : q[i] = s[i]
      /\ \A i \in 1 .. n : q[m + i] = t[i]
  BY ConcatProperties
<1>3. DOMAIN q = 1 .. m + n BY <1>2, LenProperties
<1> HIDE DEF m, n
<1>4. \A i \in 1 .. m : i \in 1 .. m + n BY <1>1
<1>5. \A i \in 1 .. n : m + i \in 1 .. m + n BY <1>1
<1>6. \A i \in 1 .. m + n : i \in 1 .. m \/ (i - m \in 1 .. n /\ m + (i - m) = i) BY <1>1
<1>7. \A i \in 1 .. m + n : \/ i \in 1 .. m /\ q[i] = s[i]
                            \/ i - m \in 1 .. n /\ q[i] = t[i - m]
  BY <1>2, <1>6
<1> QED BY <1>1, <1>2, <1>3, <1>4, <1>5, <1>7 DEF m, n

(* Every listed run is a record of some page.                              *)
LEMMA RunsOnPages ==
    ASSUME NEW c, Chain(c), NEW b \in 0 .. Len(c), NEW i \in DOMAIN RunsFrom(c)[b]
    PROVE  \E p \in 1 .. Len(c) : \E j \in DOMAIN c[p].runs : RunsFrom(c)[b][i] = c[p].runs[j]
<1> DEFINE N == Len(c)
           R == RunsFrom(c)
           On(r) == \E p \in 1 .. N : \E j \in DOMAIN c[p].runs : r = c[p].runs[j]
           T == {m \in Nat : \A x \in 0 .. m : x <= N => \A k \in DOMAIN R[x] : On(R[x][k])}
<1>0. /\ N \in Nat /\ R[0] = <<>>
      /\ \A x \in 1 .. N : /\ R[x] = c[x].runs \o R[c[x].right_link]
                           /\ c[x].runs \in Seq(RunRec) /\ c[x].right_link \in 0 .. x - 1
                           /\ c[x].right_link \in 0 .. N /\ R[c[x].right_link] \in Seq(RunRec)
  BY RunsDef, ChainFacts, RunsTypes
<1> HIDE DEF R, N
<1>1. 0 \in T BY <1>0
<1>2. ASSUME NEW m \in Nat, m \in T PROVE m + 1 \in T
  <2> SUFFICES ASSUME NEW x \in 0 .. m + 1, x <= N, NEW k \in DOMAIN R[x] PROVE On(R[x][k]) OBVIOUS
  <2>1. CASE x \in 0 .. m BY <1>2, <2>1
  <2>2. CASE x = m + 1
    <3>1. x \in 1 .. N BY <1>0, <2>2
    <3> DEFINE s == c[x].runs
               l == c[x].right_link
               t == R[l]
    <3>2. s \in Seq(RunRec) /\ t \in Seq(RunRec) /\ R[x] = s \o t BY <1>0, <3>1
    <3>22. l \in 0 .. x - 1 BY <1>0, <3>1
    <3> HIDE DEF l
    <3>3. l \in 0 .. m /\ l <= N BY <1>0, <2>2, <3>1, <3>22
    <3>4. \A j \in DOMAIN t : On(t[j])
      <4> HIDE DEF On
      <4> QED BY <1>2, <3>3
    <3>5. \A j \in DOMAIN s : On(s[j]) BY <3>1
    <3> HIDE DEF s, t, On
    <3>6. \/ k \in DOMAIN s /\ R[x][k] = s[k]
          \/ k - Len(s) \in DOMAIN t /\ R[x][k] = t[k - Len(s)]
      BY <3>2, ConcatParts
    <3> QED BY <3>4, <3>5, <3>6
  <2> QED BY <2>1, <2>2
<1>3. Nat \subseteq T
  <2> HIDE DEF T
  <2> QED BY <1>1, <1>2, NumberInduction
<1>4. On(R[b][i])
  <2> HIDE DEF On
  <2>1. b \in Nat /\ b <= N /\ b \in 0 .. b /\ i \in DOMAIN R[b] BY <1>0 DEF N, R
  <2>2. b \in T BY <1>3, <2>1
  <2> QED BY <2>1, <2>2
<1> QED BY <1>4 DEF R, N

(* A list with one more run, whose id is new.                              *)
Ins(s, t, r) ==
    /\ t \in Seq(RunRec) /\ Len(t) = Len(s) + 1 /\ Len(s) \in Nat
    /\ Elems(t) = Elems(s) \cup {r}
    /\ Uniq(s) /\ (\A i \in DOMAIN s : s[i].run_id < r.run_id) => Uniq(t)

(* A run put between two lists.                                            *)
LEMMA Inserted ==
    ASSUME NEW A \in Seq(RunRec), NEW B \in Seq(RunRec), NEW r \in RunRec,
           NEW s, s = A \o B, NEW t, t = Append(A, r) \o B
    PROVE  Ins(s, t, r)
<1> DEFINE m == Len(A)
           n == Len(B)
           C == Append(A, r)
<1>1. /\ C \in Seq(RunRec) /\ Len(C) = m + 1 /\ C[m + 1] = r
      /\ \A i \in 1 .. m : C[i] = A[i]
  BY AppendProperties
<1>2. /\ s \in Seq(RunRec) /\ m \in Nat /\ n \in Nat /\ Len(s) = m + n
      /\ DOMAIN s = 1 .. m + n
      /\ \A i \in 1 .. m : s[i] = A[i]
      /\ \A i \in 1 .. n : s[m + i] = B[i]
  BY ConcatParts
<1> HIDE DEF C
<1>3. /\ t \in Seq(RunRec) /\ Len(t) = Len(C) + n /\ DOMAIN t = 1 .. Len(C) + n
      /\ \A i \in 1 .. Len(C) : t[i] = C[i]
      /\ \A i \in 1 .. n : t[Len(C) + i] = B[i]
  BY <1>1, ConcatParts DEF C
<1> HIDE DEF m, n
<1>4. /\ Len(t) = m + n + 1 /\ DOMAIN t = 1 .. m + n + 1
      /\ \A i \in 1 .. m + 1 : t[i] = C[i]
      /\ \A i \in 1 .. n : t[m + 1 + i] = B[i]
  <2>1. Len(C) = m + 1 BY <1>1
  <2>2. (m + 1) + n = m + n + 1 BY <1>2
  <2>3. Len(t) = (m + 1) + n /\ DOMAIN t = 1 .. (m + 1) + n BY <1>3, <2>1
  <2>4. \A i \in 1 .. m + 1 : t[i] = C[i] BY <1>3, <2>1
  <2>5. \A i \in 1 .. n : t[(m + 1) + i] = B[i] BY <1>3, <2>1
  <2> QED BY <2>2, <2>3, <2>4, <2>5
<1> DEFINE f(i) == IF i <= m THEN i ELSE i - 1
<1>5. t[m + 1] = r
  <2>1. m + 1 \in 1 .. m + 1 BY <1>2
  <2> QED BY <1>1, <1>4, <2>1
<1>6. \A i \in 1 .. m + n + 1 : i # m + 1 => f(i) \in 1 .. m + n /\ t[i] = s[f(i)]
  <2> SUFFICES ASSUME NEW i \in 1 .. m + n + 1, i # m + 1
               PROVE  f(i) \in 1 .. m + n /\ t[i] = s[f(i)]
    OBVIOUS
  <2>1. CASE i <= m BY <1>1, <1>2, <1>4, <2>1
  <2>2. CASE ~(i <= m)
    <3> DEFINE j == i - (m + 1)
    <3>1. j \in 1 .. n /\ m + 1 + j = i /\ m + j = i - 1 /\ f(i) = i - 1 BY <1>2, <2>2
    <3>2. t[m + 1 + j] = B[j] /\ s[m + j] = B[j] BY <1>2, <1>4, <3>1
    <3>3. i - 1 \in 1 .. m + n BY <1>2, <2>2
    <3> HIDE DEF f, j
    <3> QED BY <3>1, <3>2, <3>3
  <2> QED BY <2>1, <2>2
<1>7. \A i \in 1 .. m + n : \E k \in 1 .. m + n + 1 : k # m + 1 /\ f(k) = i
  <2> SUFFICES ASSUME NEW i \in 1 .. m + n PROVE \E k \in 1 .. m + n + 1 : k # m + 1 /\ f(k) = i
    OBVIOUS
  <2>1. CASE i <= m
    <3>1. i \in 1 .. m + n + 1 /\ i # m + 1 /\ f(i) = i BY <1>2, <2>1
    <3> HIDE DEF f
    <3> QED BY <3>1
  <2>2. CASE ~(i <= m)
    <3>1. i + 1 \in 1 .. m + n + 1 /\ i + 1 # m + 1 /\ f(i + 1) = i BY <1>2, <2>2
    <3> HIDE DEF f
    <3> QED BY <3>1
  <2> QED BY <2>1, <2>2
<1>8. \A i, j \in 1 .. m + n + 1 : i # m + 1 /\ j # m + 1 /\ i # j => f(i) # f(j) BY <1>2
<1> HIDE DEF f
<1>9. Elems(t) = Elems(s) \cup {r}
  <2>1. ASSUME NEW x \in Elems(t) PROVE x \in Elems(s) \cup {r}
    <3>1. PICK i \in 1 .. m + n + 1 : x = t[i] BY <1>4 DEF Elems
    <3> QED BY <1>2, <1>5, <1>6, <3>1 DEF Elems
  <2>2. Elems(s) \subseteq Elems(t)
    <3> SUFFICES ASSUME NEW i \in 1 .. m + n PROVE s[i] \in Elems(t) BY <1>2 DEF Elems
    <3>1. PICK k \in 1 .. m + n + 1 : k # m + 1 /\ f(k) = i BY <1>7
    <3>2. t[k] = s[i] BY <1>6, <3>1
    <3> QED BY <1>4, <3>2 DEF Elems
  <2>3. r \in Elems(t)
    <3>1. m + 1 \in 1 .. m + n + 1 BY <1>2
    <3> QED BY <1>4, <1>5, <3>1 DEF Elems
  <2> QED BY <2>1, <2>2, <2>3
<1>10. ASSUME Uniq(s), \A i \in DOMAIN s : s[i].run_id < r.run_id PROVE Uniq(t)
  <2> SUFFICES ASSUME NEW i \in 1 .. m + n + 1, NEW j \in 1 .. m + n + 1, i # j
               PROVE  t[i].run_id # t[j].run_id
    BY <1>4 DEF Uniq
  <2>0. \A k \in 1 .. m + n : s[k].run_id \in Nat /\ s[k].run_id < r.run_id
    <3>1. \A k \in 1 .. m + n : s[k] \in RunRec BY <1>2, ElementOfSeq
    <3> QED BY <1>2, <1>10, <3>1 DEF RunRec
  <2>1. r.run_id \in Nat BY DEF RunRec
  <2>11. \A k \in 1 .. m + n + 1 : k # m + 1 => t[k].run_id \in Nat /\ t[k].run_id < r.run_id
    BY <1>6, <2>0
  <2>2. CASE i = m + 1
    <3>1. t[i] = r /\ j # m + 1 BY <1>5, <2>2
    <3> DEFINE u == t[j].run_id
               v == r.run_id
    <3>2. u \in Nat /\ u < v /\ v \in Nat /\ t[i].run_id = v BY <2>1, <2>11, <3>1
    <3> HIDE DEF u, v
    <3>3. u # v BY <3>2
    <3> QED BY <3>2, <3>3 DEF u
  <2>3. CASE j = m + 1
    <3>1. t[j] = r /\ i # m + 1 BY <1>5, <2>3
    <3> DEFINE u == t[i].run_id
               v == r.run_id
    <3>2. u \in Nat /\ u < v /\ v \in Nat /\ t[j].run_id = v BY <2>1, <2>11, <3>1
    <3> HIDE DEF u, v
    <3>3. u # v BY <3>2
    <3> QED BY <3>2, <3>3 DEF u
  <2>4. CASE i # m + 1 /\ j # m + 1
    <3>1. f(i) \in 1 .. m + n /\ f(j) \in 1 .. m + n /\ f(i) # f(j) /\ t[i] = s[f(i)] /\ t[j] = s[f(j)]
      BY <1>6, <1>8, <2>4
    <3> QED BY <1>2, <1>10, <3>1 DEF Uniq
  <2> QED BY <2>2, <2>3, <2>4
<1> QED BY <1>2, <1>3, <1>4, <1>9, <1>10 DEF Ins

-----------------------------------------------------------------------------
(* Pages keep their link and their records, and only grow.                 *)
KeptPages(c, d) ==
    \A b \in 1 .. Len(c) :
        /\ d[b].right_link = c[b].right_link /\ Len(c[b].runs) <= Len(d[b].runs)
        /\ \A i \in DOMAIN c[b].runs : d[b].runs[i] = c[b].runs[i]

(* What could be reached from a page still can.                            *)
KeptRuns(c, d) ==
    \A b \in 0 .. Len(c) : \A i \in DOMAIN RunsFrom(c)[b] :
        \E j \in DOMAIN RunsFrom(d)[b] : RunsFrom(d)[b][j] = RunsFrom(c)[b][i]

(* Both.                                                                   *)
Kept(c, d) == Len(c) <= Len(d) /\ KeptPages(c, d) /\ KeptRuns(c, d)

(* The last record of the newest page.                                     *)
LastRun(d) == d[Len(d)].runs[Len(d[Len(d)].runs)]

(* Every record is the new one or was there before.                        *)
OldOr(c, d, r) ==
    \A b \in 1 .. Len(d) : \A i \in DOMAIN d[b].runs :
        d[b].runs[i] = r \/ \E p \in 1 .. Len(c) : \E j \in DOMAIN c[p].runs : d[b].runs[i] = c[p].runs[j]

(* A chain with one more page.                                             *)
Added(c, d, g) ==
    /\ Chain(d) /\ Len(d) = Len(c) + 1 /\ d[Len(c) + 1] = g
    /\ \A b \in 1 .. Len(c) : d[b] = c[b]
    /\ Kept(c, d)
    /\ \A b \in 0 .. Len(c) : RunsFrom(d)[b] = RunsFrom(c)[b]
    /\ RunsFrom(d)[Len(c) + 1] = g.runs \o RunsFrom(c)[g.right_link]

(* A chain with another last page.                                         *)
Replaced(c, d, g) ==
    /\ d \in Seq(PageRec) /\ Len(d) = Len(c)
    /\ \A b \in 1 .. Len(c) : d[b] = IF b = Len(c) THEN g ELSE c[b]

(* Appending a page to the chain changes no other.                         *)
LEMMA AddPage ==
    ASSUME NEW c, Chain(c), NEW g \in PageRec, g.right_link <= Len(c), NEW d, d = Append(c, g)
    PROVE  Added(c, d, g)
<1> DEFINE n == Len(c)
<1>0. /\ c \in Seq(PageRec) /\ n \in Nat /\ DOMAIN c = 1 .. n /\ n = Len(c)
      /\ \A b \in 1 .. n : c[b].right_link < b /\ c[b].runs \in Seq(RunRec)
  BY ChainFacts DEF Chain
<1>1. /\ d \in Seq(PageRec) /\ Len(d) = n + 1 /\ d[n + 1] = g /\ \A b \in 1 .. n : d[b] = c[b]
  BY <1>0, AppendProperties
<1>2. DOMAIN d = 1 .. n + 1 BY <1>1, LenProperties
<1>3. g.right_link \in 0 .. n /\ g.runs \in Seq(RunRec) BY <1>0 DEF PageRec
<1> HIDE DEF n
<1>4. \A b \in 1 .. n + 1 : b \in 1 .. n \/ b = n + 1 BY <1>0
<1>5. Chain(d)
  <2> SUFFICES ASSUME NEW b \in 1 .. n + 1 PROVE d[b].right_link < b BY <1>1, <1>2 DEF Chain
  <2>1. CASE b \in 1 .. n BY <1>0, <1>1, <2>1
  <2>2. CASE b = n + 1 BY <1>0, <1>1, <1>3, <2>2
  <2> QED BY <1>4, <2>1, <2>2
<1>6. \A b \in 0 .. n : RunsFrom(d)[b] = RunsFrom(c)[b]
  <2>1. n <= Len(c) /\ n <= Len(d) BY <1>0, <1>1
  <2> QED BY <1>0, <1>1, <1>5, <2>1, RunsFrame
<1>7. n + 1 \in 1 .. Len(d) BY <1>0, <1>1
<1>8. RunsFrom(d)[n + 1] = g.runs \o RunsFrom(c)[g.right_link]
  <2>1. RunsFrom(d)[n + 1] = d[n + 1].runs \o RunsFrom(d)[d[n + 1].right_link] BY <1>5, <1>7, RunsDef
  <2> QED BY <1>1, <1>3, <1>6, <2>1
<1>9. KeptPages(c, d)
  <2>1. \A b \in 1 .. n : Len(c[b].runs) \in Nat BY <1>0, LenProperties
  <2> QED BY <1>0, <1>1, <2>1 DEF KeptPages
<1>10. KeptRuns(c, d) BY <1>0, <1>6 DEF KeptRuns
<1>11. Len(c) <= Len(d) BY <1>0, <1>1
<1> QED BY <1>0, <1>1, <1>5, <1>6, <1>8, <1>9, <1>10, <1>11 DEF Kept, Added

(* A new head page with one run in front of the old chain.                 *)
Pushed(c, d, h, r) ==
    /\ Chain(d) /\ Len(d) = Len(c) + 1 /\ Kept(c, d) /\ OldOr(c, d, r) /\ LastRun(d) = r
    /\ Ins(RunsFrom(c)[h], RunsFrom(d)[Len(d)], r)
    /\ \A b \in 1 .. Len(d) : (b \in 1 .. Len(c) /\ d[b] = c[b]) \/ Len(d[b].runs) = 1

(* One more run at the end of the head page.                               *)
Grown(c, d, r) ==
    /\ Chain(d) /\ Len(d) = Len(c) /\ Kept(c, d) /\ OldOr(c, d, r) /\ LastRun(d) = r
    /\ Ins(RunsFrom(c)[Len(c)], RunsFrom(d)[Len(c)], r)
    /\ \A b \in 1 .. Len(d) : d[b] = c[b] \/ (b = Len(c) /\ Len(d[b].runs) = Len(c[b].runs) + 1)

(* The case of pg_tre_run_catalog_append where the head is full.           *)
LEMMA NewHead ==
    ASSUME NEW c, Chain(c), NEW h \in 0 .. Len(c), NEW r \in RunRec,
           NEW g \in PageRec, g.right_link = h, NEW o \in Seq(RunRec), Len(o) = 0,
           g.runs = Append(o, r),
           NEW d, d = Append(c, g)
    PROVE  Pushed(c, d, h, r)
<1> DEFINE n == Len(c)
           C == g.runs
<1>0. n \in Nat /\ h \in 0 .. n /\ DOMAIN c = 1 .. n /\ n = Len(c) BY ChainFacts
<1>1. o \in Seq(RunRec) /\ Len(o) = 0 OBVIOUS
<1>2. C \in Seq(RunRec) /\ Len(C) = 1 /\ C[1] = r /\ DOMAIN C = {1}
  <2>1. C \in Seq(RunRec) /\ Len(C) = Len(o) + 1 /\ C[Len(o) + 1] = r BY <1>1, AppendProperties
  <2>2. DOMAIN C = 1 .. Len(C) BY <2>1, LenProperties
  <2> QED BY <1>1, <2>1, <2>2
<1>20. C = g.runs OBVIOUS
<1> HIDE DEF C, n
<1>3. /\ Chain(d) /\ Len(d) = n + 1 /\ d[n + 1] = g
      /\ \A b \in 1 .. n : d[b] = c[b]
      /\ Kept(c, d)
      /\ RunsFrom(d)[n + 1] = C \o RunsFrom(c)[h]
  <2>1. g.right_link <= Len(c) BY <1>0, <1>1
  <2>2. /\ Chain(d) /\ Len(d) = Len(c) + 1 /\ d[Len(c) + 1] = g
        /\ \A b \in 1 .. Len(c) : d[b] = c[b]
        /\ Kept(c, d)
        /\ RunsFrom(d)[Len(c) + 1] = g.runs \o RunsFrom(c)[g.right_link]
    <3>1. Added(c, d, g) BY <2>1, AddPage
    <3> QED BY <3>1 DEF Added
  <2> QED BY <1>0, <1>20, <2>2
<1>4. \A b \in 1 .. n + 1 : b \in 1 .. n \/ b = n + 1 BY <1>0
<1>5. OldOr(c, d, r)
  <2> SUFFICES ASSUME NEW b \in 1 .. n + 1, NEW i \in DOMAIN d[b].runs
               PROVE  d[b].runs[i] = r \/ \E p \in 1 .. n : \E j \in DOMAIN c[p].runs : d[b].runs[i] = c[p].runs[j]
    BY <1>0, <1>3 DEF OldOr
  <2>1. CASE b \in 1 .. n BY <1>3, <2>1
  <2>2. CASE b = n + 1
    <3>1. d[b].runs = C BY <1>20, <1>3, <2>2
    <3> QED BY <1>2, <3>1
  <2> QED BY <1>4, <2>1, <2>2
<1>6. d[n + 1].runs = C /\ Len(d[n + 1].runs) = 1 BY <1>2, <1>20, <1>3
<1>7. LastRun(d) = r BY <1>2, <1>3, <1>6 DEF LastRun
<1>8. Ins(RunsFrom(c)[h], RunsFrom(d)[n + 1], r)
  <2> DEFINE B == RunsFrom(c)[h]
             t == RunsFrom(d)[n + 1]
  <2>1. B \in Seq(RunRec) BY <1>0, RunsTypes
  <2>2. o = <<>> BY EmptySeq
  <2>3. B = o \o B BY <2>1, <2>2, ConcatEmptySeq
  <2>4. t = Append(o, r) \o B BY <1>3, <1>20
  <2> HIDE DEF t, B
  <2>5. Ins(B, t, r) BY <1>1, <2>1, <2>3, <2>4, Inserted
  <2> QED BY <2>5 DEF B, t
<1>9. \A b \in 1 .. n + 1 : (b \in 1 .. n /\ d[b] = c[b]) \/ Len(d[b].runs) = 1 BY <1>3, <1>4, <1>6
<1> QED BY <1>0, <1>3, <1>5, <1>7, <1>8, <1>9 DEF Pushed

(* The case where it has room.                                             *)
LEMMA GrowHead ==
    ASSUME NEW c, Chain(c), Len(c) # 0, NEW r \in RunRec,
           NEW g \in PageRec, g.right_link = c[Len(c)].right_link,
           g.runs = Append(c[Len(c)].runs, r),
           NEW d, Replaced(c, d, g)
    PROVE  Grown(c, d, r)
<1> DEFINE n == Len(c)
           A == c[n].runs
           l == c[n].right_link
<1>0. /\ c \in Seq(PageRec) /\ n \in Nat /\ n # 0 /\ DOMAIN c = 1 .. n /\ n = Len(c) /\ n \in 1 .. n
      /\ \A b \in 1 .. n : c[b].right_link < b /\ c[b].runs \in Seq(RunRec)
                           /\ c[b].right_link \in 0 .. b - 1
  BY ChainFacts DEF Chain
<1>00. n \in Nat /\ n # 0 /\ Len(c) = n BY <1>0
<1>1. A \in Seq(RunRec) /\ l \in 0 .. n - 1 /\ l \in Nat BY <1>0
<1> HIDE DEF A, l
<1>2. /\ Append(A, r) \in Seq(RunRec) /\ Len(Append(A, r)) = Len(A) + 1 /\ Len(A) \in Nat
      /\ Append(A, r)[Len(A) + 1] = r /\ \A i \in 1 .. Len(A) : Append(A, r)[i] = A[i]
      /\ DOMAIN A = 1 .. Len(A) /\ DOMAIN Append(A, r) = 1 .. Len(A) + 1
  <2>1. Len(A) \in Nat /\ DOMAIN A = 1 .. Len(A) BY <1>1, LenProperties
  <2>2. /\ Append(A, r) \in Seq(RunRec) /\ Len(Append(A, r)) = Len(A) + 1
        /\ Append(A, r)[Len(A) + 1] = r /\ \A i \in 1 .. Len(A) : Append(A, r)[i] = A[i]
    BY <1>1, AppendProperties
  <2>3. DOMAIN Append(A, r) = 1 .. Len(Append(A, r)) BY <2>2, LenProperties
  <2> QED BY <2>1, <2>2, <2>3
<1> DEFINE C == Append(A, r)
<1> HIDE DEF n, C
<1>3. g.right_link = l /\ g.runs = C BY <1>0 DEF A, l, C
<1>4. d \in Seq(PageRec) /\ Len(d) = n /\ DOMAIN d = 1 .. n
      /\ d[n] = g /\ \A b \in 1 .. n : b # n => d[b] = c[b]
  <2>1. /\ d \in Seq(PageRec) /\ Len(d) = n
        /\ \A b \in 1 .. n : d[b] = IF b = n THEN g ELSE c[b]
    BY <1>0 DEF Replaced
  <2>2. DOMAIN d = 1 .. n BY <2>1, LenProperties
  <2> QED BY <1>0, <2>1, <2>2
<1>40. Len(d) = n /\ \A b \in 1 .. n : b # n => d[b] = c[b] BY <1>4
<1>5. Chain(d)
  <2> SUFFICES ASSUME NEW b \in 1 .. n PROVE d[b].right_link < b BY <1>4 DEF Chain
  <2>1. CASE b # n BY <1>0, <1>4, <2>1
  <2>2. CASE b = n BY <1>0, <1>1, <1>3, <1>4, <2>2
  <2> QED BY <2>1, <2>2
<1>6. \A b \in 0 .. n - 1 : RunsFrom(d)[b] = RunsFrom(c)[b]
  <2>1. n - 1 \in Nat /\ n - 1 <= Len(c) /\ n - 1 <= Len(d) BY <1>0, <1>4
  <2>2. \A b \in 1 .. n - 1 : d[b] = c[b]
    <3> TAKE b \in 1 .. n - 1
    <3>1. b \in 1 .. n /\ b # n BY <1>00
    <3> QED BY <1>40, <3>1
  <2> DEFINE k == n - 1
  <2>3. /\ k \in Nat /\ k <= Len(c) /\ k <= Len(d) /\ \A b \in 1 .. k : d[b] = c[b]
    BY <2>1, <2>2
  <2> HIDE DEF k
  <2>4. \A b \in 0 .. k : RunsFrom(d)[b] = RunsFrom(c)[b] BY <1>5, <2>3, RunsFrame
  <2> QED BY <2>4 DEF k
<1> DEFINE B == RunsFrom(c)[l]
           s == RunsFrom(c)[n]
           t == RunsFrom(d)[n]
<1>7. B \in Seq(RunRec)
  <2>1. l \in 0 .. Len(c) BY <1>0, <1>1
  <2> QED BY <2>1, RunsTypes
<1>8. s = A \o B
  <2>1. n \in 1 .. Len(c) BY <1>0
  <2> QED BY <2>1, RunsDef DEF A, l
<1>9. t = C \o B
  <2>1. n \in 1 .. Len(d) BY <1>0, <1>4
  <2>2. t = d[n].runs \o RunsFrom(d)[d[n].right_link] BY <1>5, <2>1, RunsDef
  <2>3. RunsFrom(d)[l] = B BY <1>1, <1>6
  <2> QED BY <1>3, <1>4, <2>2, <2>3
<1> HIDE DEF B, s, t
<1>10. Ins(s, t, r)
  <2>1. t = Append(A, r) \o B BY <1>9 DEF C
  <2> QED BY <1>1, <1>7, <1>8, <2>1, Inserted
<1>11. KeptPages(c, d)
  <2> SUFFICES ASSUME NEW b \in 1 .. n
               PROVE  /\ d[b].right_link = c[b].right_link /\ Len(c[b].runs) <= Len(d[b].runs)
                      /\ \A i \in DOMAIN c[b].runs : d[b].runs[i] = c[b].runs[i]
    BY <1>0 DEF KeptPages
  <2>1. CASE b # n
    <3>1. Len(c[b].runs) \in Nat BY <1>0, LenProperties
    <3> QED BY <1>4, <2>1, <3>1
  <2>2. CASE b = n
    <3>1. d[b].right_link = l /\ d[b].runs = C /\ c[b].right_link = l /\ c[b].runs = A
      BY <1>3, <1>4, <2>2 DEF A, l
    <3>2. Len(A) <= Len(C) /\ \A i \in DOMAIN A : C[i] = A[i] BY <1>2 DEF C
    <3> QED BY <3>1, <3>2
  <2> QED BY <2>1, <2>2
<1>12. KeptRuns(c, d)
  <2> SUFFICES ASSUME NEW b \in 0 .. n, NEW i \in DOMAIN RunsFrom(c)[b]
               PROVE  \E j \in DOMAIN RunsFrom(d)[b] : RunsFrom(d)[b][j] = RunsFrom(c)[b][i]
    BY <1>0 DEF KeptRuns
  <2>1. CASE b \in 0 .. n - 1 BY <1>6, <2>1
  <2>2. CASE b = n
    <3>1. s[i] \in Elems(t) /\ i \in DOMAIN s BY <1>10, <2>2 DEF Ins, Elems, s
    <3>2. PICK j \in DOMAIN t : t[j] = s[i] BY <3>1 DEF Elems
    <3> QED BY <2>2, <3>2 DEF s, t
  <2>3. b \in 0 .. n - 1 \/ b = n BY <1>00
  <2> QED BY <2>1, <2>2, <2>3
<1>13. OldOr(c, d, r)
  <2> SUFFICES ASSUME NEW b \in 1 .. n, NEW i \in DOMAIN d[b].runs
               PROVE  d[b].runs[i] = r \/ \E p \in 1 .. n : \E j \in DOMAIN c[p].runs : d[b].runs[i] = c[p].runs[j]
    BY <1>00, <1>40 DEF OldOr
  <2>1. CASE b # n BY <1>4, <2>1
  <2>2. CASE b = n
    <3>1. d[b].runs = C BY <1>3, <1>4, <2>2
    <3>2. i \in 1 .. Len(A) + 1 BY <1>2, <3>1 DEF C
    <3>3. CASE i = Len(A) + 1 BY <1>2, <3>1, <3>3 DEF C
    <3>4. CASE i # Len(A) + 1
      <4>1. i \in 1 .. Len(A) BY <1>2, <3>2, <3>4
      <4>2. C[i] = A[i] /\ i \in DOMAIN A BY <1>2, <4>1 DEF C
      <4> QED BY <1>0, <3>1, <4>2 DEF A
    <3> QED BY <3>3, <3>4
  <2> QED BY <2>1, <2>2
<1>14. LastRun(d) = r
  <2>1. d[Len(d)].runs = C BY <1>3, <1>4
  <2> QED BY <1>2, <2>1 DEF LastRun, C
<1>15. \A b \in 1 .. n : d[b] = c[b] \/ (b = n /\ Len(d[b].runs) = Len(c[b].runs) + 1)
  <2>1. Len(d[n].runs) = Len(c[n].runs) + 1 BY <1>2, <1>3, <1>4 DEF C, A
  <2> QED BY <1>4, <2>1
<1>16. Kept(c, d)
  <2>1. Len(c) <= Len(d) BY <1>00, <1>40
  <2> QED BY <1>11, <1>12, <2>1 DEF Kept
<1> QED BY <1>0, <1>4, <1>5, <1>10, <1>13, <1>14, <1>15, <1>16 DEF s, t, Grown

-----------------------------------------------------------------------------
(* Facts about the constants; sets of trigrams have a least and a greatest *)
(* one.                                                                    *)
LEMMA ConstFacts ==
    /\ Trigrams \in SUBSET Nat /\ MinHash \in Trigrams /\ MaxHash \in Trigrams
    /\ \A t \in Trigrams : MinHash <= t /\ t <= MaxHash
    /\ LevelCaps \subseteq Nat \ {0} /\ CatalogCap \in Nat \ {0}
    /\ Batches \subseteq SUBSET Entry /\ InitBase \in SUBSET Entry
    /\ \A S \in SUBSET Trigrams : S # {} =>
          /\ Least(S) \in S /\ Greatest(S) \in S
          /\ \A x \in S : Least(S) <= x /\ x <= Greatest(S)
<1>1. /\ Trigrams \in SUBSET Nat /\ IsFiniteSet(Trigrams) /\ Trigrams # {}
      /\ LevelCaps \subseteq Nat \ {0} /\ CatalogCap \in Nat \ {0}
      /\ Batches \subseteq SUBSET Entry /\ InitBase \in SUBSET Entry
  BY CatalogAssumption DEF Entry
<1>2. \A S \in SUBSET Trigrams : S # {} =>
          /\ Least(S) \in S /\ Greatest(S) \in S
          /\ \A x \in S : Least(S) <= x /\ x <= Greatest(S)
  <2> TAKE S \in SUBSET Trigrams
  <2> HAVE S # {}
  <2>1. IsFiniteSet(S) /\ S \in SUBSET Nat BY <1>1, FS_Subset
  <2> QED BY <2>1, LeastOf, GreatestOf
<1>3. /\ MinHash \in Trigrams /\ MaxHash \in Trigrams
      /\ \A t \in Trigrams : MinHash <= t /\ t <= MaxHash
  BY <1>1, <1>2 DEF MinHash, MaxHash
<1> QED BY <1>1, <1>2, <1>3

(* Facts about the runs of the current catalog.                            *)
LEMMA RunsHere ==
    ASSUME IInv
    PROVE  /\ Chain(cat) /\ Len(cat) \in Nat /\ DOMAIN cat = 1 .. Len(cat)
           /\ run_catalog_head \in 0 .. Len(cat)
           /\ CatalogRuns \in Seq(RunRec) /\ Len(CatalogRuns) \in Nat
           /\ DOMAIN CatalogRuns = 1 .. Len(CatalogRuns)
           /\ \A b \in 0 .. Len(cat) : \A i \in DOMAIN RunsFrom(cat)[b] : RunOK(RunsFrom(cat)[b][i])
           /\ \A r \in Live : RunOK(r)
<1>1. Chain(cat) /\ (run_catalog_head = 0 \/ run_catalog_head = Len(cat)) BY DEF IInv, StoreInv, TypeMeta
<1>2. Len(cat) \in Nat /\ DOMAIN cat = 1 .. Len(cat) BY <1>1, ChainFacts
<1>3. run_catalog_head \in 0 .. Len(cat) BY <1>1, <1>2
<1>4. CatalogRuns \in Seq(RunRec) BY <1>1, <1>3, RunsTypes DEF CatalogRuns
<1>5. Len(CatalogRuns) \in Nat /\ DOMAIN CatalogRuns = 1 .. Len(CatalogRuns) BY <1>4, LenProperties
<1>6. ASSUME NEW b \in 0 .. Len(cat), NEW i \in DOMAIN RunsFrom(cat)[b]
      PROVE  RunOK(RunsFrom(cat)[b][i])
  <2>1. \E p \in 1 .. Len(cat) : \E j \in DOMAIN cat[p].runs : RunsFrom(cat)[b][i] = cat[p].runs[j]
    BY <1>1, RunsOnPages
  <2>2. PICK p \in 1 .. Len(cat) : \E j \in DOMAIN cat[p].runs : RunsFrom(cat)[b][i] = cat[p].runs[j]
    BY <2>1
  <2>3. PICK j \in DOMAIN cat[p].runs : RunsFrom(cat)[b][i] = cat[p].runs[j] BY <2>2
  <2>4. RunOK(cat[p].runs[j]) BY <1>2 DEF IInv, StoreInv, PagesInv
  <2> QED BY <2>3, <2>4
<1>7. \A r \in Live : RunOK(r) BY <1>3, <1>6 DEF Live, CatalogRuns, Elems
<1> QED BY <1>1, <1>2, <1>3, <1>4, <1>5, <1>6, <1>7

(* What AppendRun does to the pages.                                       *)
AppendedCat(r) ==
    /\ Chain(cat') /\ Kept(cat, cat') /\ OldOr(cat, cat', r)
    /\ run_catalog_head' = Len(cat') /\ Len(cat') # 0 /\ LastRun(cat') = r
    /\ Ins(CatalogRuns, CatalogRuns', r)
    /\ \A b \in 1 .. Len(cat') : Len(cat'[b].runs) \in 1 .. CatalogCap

(* What it does altogether: one more run, counted, with an id of its own.  *)
Appended(r) ==
    /\ r \in RunRec /\ AppendedCat(r)
    /\ Live' = Live \cup {r} /\ Len(CatalogRuns') = Len(CatalogRuns) + 1 /\ Uniq(CatalogRuns')
    /\ RunCount' = Len(CatalogRuns') + 1
    /\ n_runs' \in Nat /\ next_run_id' = next_run_id + 1

(* AppendRun does so in both cases.                                        *)
LEMMA AppendFacts ==
    ASSUME IInv, NEW lv \in Nat, NEW rt \in Nat, NEW lo \in Nat, NEW hi \in Nat,
           AppendRun(lv, rt, lo, hi)
    PROVE  Appended(Run(next_run_id, lv, rt, lo, hi))
<1> DEFINE r == Run(next_run_id, lv, rt, lo, hi)
           h == run_catalog_head
<1>0. /\ next_run_id \in Nat /\ n_runs \in Nat /\ (h = 0 \/ h = Len(cat)) /\ CatalogCap \in Nat \ {0}
      /\ \A b \in 1 .. Len(cat) : Len(cat[b].runs) \in 1 .. CatalogCap
      /\ RunCount = Len(CatalogRuns) + 1 /\ Uniq(CatalogRuns)
  BY RunsHere, ConstFacts DEF IInv, StoreInv, TypeMeta, PagesInv, CountInv
<1>00. /\ Chain(cat) /\ Len(cat) \in Nat /\ DOMAIN cat = 1 .. Len(cat) /\ h \in 0 .. Len(cat)
       /\ CatalogRuns \in Seq(RunRec) /\ Len(CatalogRuns) \in Nat /\ DOMAIN CatalogRuns = 1 .. Len(CatalogRuns)
  BY RunsHere
<1>1. r \in RunRec /\ r.run_id = next_run_id BY <1>0 DEF Run, RunRec
<1>2. \A i \in DOMAIN CatalogRuns : CatalogRuns[i].run_id < r.run_id
  <2> TAKE i \in DOMAIN CatalogRuns
  <2>1. RunOK(CatalogRuns[i]) BY <1>00, RunsHere DEF CatalogRuns
  <2> QED BY <1>0, <1>1, <2>1 DEF RunOK
<1>3. next_run_id' = next_run_id + 1 /\ n_runs' = RunsAfterAppend BY DEF AppendRun
<1>4. ASSUME HeadHasRoom PROVE AppendedCat(r)
  <2> DEFINE g == [right_link |-> cat[h].right_link, runs |-> Append(cat[h].runs, r)]
             C == cat[h].runs
  <2>1. /\ cat' = [cat EXCEPT ![h] = g] /\ h' = h BY <1>4 DEF AppendRun
  <2>2. h # 0 /\ h = Len(cat) /\ h \in 1 .. Len(cat) /\ Len(C) < CatalogCap
    <3>1. h # 0 /\ Len(C) < CatalogCap BY <1>4 DEF HeadHasRoom, Invalid
    <3>2. h = Len(cat) BY <1>0, <3>1
    <3>3. h \in 1 .. Len(cat)
      <4> HIDE DEF h
      <4> QED BY <1>00, <3>1, <3>2
    <3> QED BY <3>1, <3>2, <3>3
  <2>3. C \in Seq(RunRec) /\ cat[h].right_link \in Nat /\ cat \in Seq(PageRec)
    <3>1. cat[h] \in PageRec /\ C \in Seq(RunRec) /\ cat \in Seq(PageRec) BY <1>00, <2>2, ChainFacts
    <3> QED BY <3>1 DEF PageRec
  <2>4. Append(C, r) \in Seq(RunRec) BY <1>1, <2>3, AppendProperties
  <2>5. g \in PageRec /\ g.right_link = cat[h].right_link /\ g.runs = Append(C, r)
    BY <2>3, <2>4 DEF PageRec
  <2> HIDE DEF g, h, r
  <2>6. Replaced(cat, cat', g)
    <3>1. /\ [cat EXCEPT ![h] = g] \in Seq(PageRec) /\ Len([cat EXCEPT ![h] = g]) = Len(cat)
          /\ \A b \in 1 .. Len(cat) : [cat EXCEPT ![h] = g][b] = IF b = h THEN g ELSE cat[b]
      BY <2>2, <2>3, <2>5, ExceptSeq
    <3> QED BY <2>1, <2>2, <3>1 DEF Replaced
  <2>7. g.right_link = cat[Len(cat)].right_link /\ g.runs = Append(cat[Len(cat)].runs, r) BY <2>2, <2>5
  <2>8. /\ Chain(cat') /\ Len(cat') = Len(cat) /\ Kept(cat, cat') /\ OldOr(cat, cat', r)
        /\ LastRun(cat') = r
        /\ Ins(RunsFrom(cat)[Len(cat)], RunsFrom(cat')[Len(cat)], r)
        /\ \A b \in 1 .. Len(cat') : cat'[b] = cat[b] \/ (b = Len(cat) /\ Len(cat'[b].runs) = Len(cat[b].runs) + 1)
    <3>1. Len(cat) # 0 BY <2>2
    <3>2. Grown(cat, cat', r) BY <1>00, <1>1, <2>5, <2>6, <2>7, <3>1, GrowHead
    <3> QED BY <3>2 DEF Grown
  <2>9. Ins(CatalogRuns, CatalogRuns', r)
    <3>1. CatalogRuns = RunsFrom(cat)[Len(cat)] BY <2>2 DEF CatalogRuns, h
    <3>2. CatalogRuns' = RunsFrom(cat')[Len(cat)] BY <2>1, <2>2 DEF CatalogRuns, h
    <3> QED BY <2>8, <3>1, <3>2
  <2>10. \A b \in 1 .. Len(cat') : Len(cat'[b].runs) \in 1 .. CatalogCap
    <3> SUFFICES ASSUME NEW b \in 1 .. Len(cat) PROVE Len(cat'[b].runs) \in 1 .. CatalogCap BY <2>8
    <3>1. Len(cat[b].runs) \in 1 .. CatalogCap BY <1>0
    <3>2. CASE cat'[b] = cat[b] BY <3>1, <3>2
    <3>3. CASE b = Len(cat) /\ Len(cat'[b].runs) = Len(cat[b].runs) + 1
      <4>1. Len(cat[b].runs) < CatalogCap BY <2>2, <3>3
      <4> QED BY <1>0, <3>1, <3>3, <4>1
    <3> QED BY <2>8, <3>2, <3>3
  <2>11. run_catalog_head' = Len(cat') /\ Len(cat') # 0 BY <2>1, <2>2, <2>8 DEF h
  <2> QED BY <2>8, <2>9, <2>10, <2>11 DEF AppendedCat
<1>5. ASSUME ~HeadHasRoom PROVE AppendedCat(r)
  <2> DEFINE o == <<>>
             g == [right_link |-> h, runs |-> <<r>>]
  <2>1. cat' = Append(cat, g) /\ run_catalog_head' = Len(cat) + 1 BY <1>5 DEF AppendRun
  <2>2. o \in Seq(RunRec) /\ Len(o) = 0 /\ Append(o, r) = <<r>> OBVIOUS
  <2>3. <<r>> \in Seq(RunRec) BY <1>1
  <2>4. g \in PageRec /\ g.right_link = h /\ g.runs = Append(o, r) BY <1>00, <2>2, <2>3 DEF PageRec
  <2> HIDE DEF g, h, r, o
  <2>5. /\ Chain(cat') /\ Len(cat') = Len(cat) + 1 /\ Kept(cat, cat') /\ OldOr(cat, cat', r)
        /\ LastRun(cat') = r
        /\ Ins(RunsFrom(cat)[h], RunsFrom(cat')[Len(cat')], r)
        /\ \A b \in 1 .. Len(cat') : (b \in 1 .. Len(cat) /\ cat'[b] = cat[b]) \/ Len(cat'[b].runs) = 1
    <3>1. Pushed(cat, cat', h, r) BY <1>00, <1>1, <2>1, <2>2, <2>4, NewHead
    <3> QED BY <3>1 DEF Pushed
  <2>6. Ins(CatalogRuns, CatalogRuns', r)
    <3>1. CatalogRuns = RunsFrom(cat)[h] BY DEF CatalogRuns, h
    <3>2. CatalogRuns' = RunsFrom(cat')[Len(cat')] BY <2>1, <2>5 DEF CatalogRuns
    <3> QED BY <2>5, <3>1, <3>2
  <2>7. \A b \in 1 .. Len(cat') : Len(cat'[b].runs) \in 1 .. CatalogCap
    <3> TAKE b \in 1 .. Len(cat')
    <3>1. CASE b \in 1 .. Len(cat) /\ cat'[b] = cat[b] BY <1>0, <3>1
    <3>2. CASE Len(cat'[b].runs) = 1 BY <1>0, <3>2
    <3> QED BY <2>5, <3>1, <3>2
  <2>8. run_catalog_head' = Len(cat') /\ Len(cat') # 0 BY <1>00, <2>1, <2>5
  <2> QED BY <2>5, <2>6, <2>7, <2>8 DEF AppendedCat
<1>6. AppendedCat(r) BY <1>4, <1>5
<1> HIDE DEF r
<1>7. Ins(CatalogRuns, CatalogRuns', r) BY <1>6 DEF AppendedCat
<1>8. Live' = Live \cup {r} BY <1>7 DEF Live, Ins
<1>9. Len(CatalogRuns') = Len(CatalogRuns) + 1 BY <1>7 DEF Ins
<1>10. Uniq(CatalogRuns') BY <1>0, <1>2, <1>7 DEF Ins
<1>11. RunCount' = Len(CatalogRuns') + 1 /\ n_runs' \in Nat
  <2>1. n_runs' = IF n_runs = 0 THEN 2 ELSE n_runs + 1 BY <1>3 DEF RunsAfterAppend
  <2>2. (IF n_runs = 0 THEN 1 ELSE n_runs) = Len(CatalogRuns) + 1 BY <1>0 DEF RunCount
  <2>3. RunCount' = IF n_runs' = 0 THEN 1 ELSE n_runs' BY DEF RunCount
  <2> DEFINE m == Len(CatalogRuns)
             k == Len(CatalogRuns')
  <2>4. m \in Nat /\ k = m + 1 /\ (IF n_runs = 0 THEN 1 ELSE n_runs) = m + 1 BY <1>00, <1>9, <2>2
  <2> HIDE DEF m, k
  <2>5. (IF n_runs' = 0 THEN 1 ELSE n_runs') = k + 1 /\ n_runs' \in Nat BY <1>0, <2>1, <2>4
  <2> QED BY <2>3, <2>5 DEF k
<1>12. Appended(r) BY <1>1, <1>3, <1>6, <1>8, <1>9, <1>10, <1>11 DEF Appended
<1> QED BY <1>12 DEF r

-----------------------------------------------------------------------------
(* What AtLevel and NotAtLevel select.                                     *)
LEMMA LevelFacts ==
    ASSUME NEW s \in Seq(RunRec), NEW lv
    PROVE  /\ AtLevel(s, lv) \in Seq(RunRec) /\ NotAtLevel(s, lv) \in Seq(RunRec)
           /\ Elems(AtLevel(s, lv)) = {r \in Elems(s) : r.level = lv}
           /\ Elems(NotAtLevel(s, lv)) = {r \in Elems(s) : r.level # lv}
           /\ Len(NotAtLevel(s, lv)) \in Nat /\ Len(AtLevel(s, lv)) \in Nat
           /\ (\E r \in Elems(s) : r.level = lv) => Len(NotAtLevel(s, lv)) < Len(s)
           /\ Uniq(s) => Uniq(NotAtLevel(s, lv))
<1> DEFINE I == {i \in DOMAIN s : s[i].level = lv}
           J == {i \in DOMAIN s : s[i].level # lv}
           t == Select(s, I)
           u == Select(s, J)
           n == Len(s)
<1>0. n \in Nat /\ DOMAIN s = 1 .. n BY LenProperties
<1>1. t \in Seq(RunRec) /\ SelFrom(t, s, I, n) BY SelectFacts
<1>2. u \in Seq(RunRec) /\ SelFrom(u, s, J, n) /\ SelApart(u, s, n) /\ SelLen(u, J, n) BY SelectFacts
<1>3. t = AtLevel(s, lv) /\ u = NotAtLevel(s, lv) BY DEF AtLevel, NotAtLevel
<1>4. Len(t) \in Nat /\ DOMAIN t = 1 .. Len(t) /\ Len(u) \in Nat /\ DOMAIN u = 1 .. Len(u)
  BY <1>1, <1>2, LenProperties
<1>5. /\ \A i \in 1 .. n : i \in I <=> s[i].level = lv
      /\ \A i \in 1 .. n : i \in J <=> s[i].level # lv
  BY <1>0
<1>50. n = Len(s) OBVIOUS
<1> HIDE DEF I, J, t, u, n
<1>6. Elems(t) = {r \in Elems(s) : r.level = lv}
  <2>1. ASSUME NEW x \in Elems(t) PROVE x \in Elems(s) /\ x.level = lv
    <3>1. PICK j \in 1 .. Len(t) : x = t[j] BY <1>4 DEF Elems
    <3>2. PICK i \in 1 .. n : i \in I /\ t[j] = s[i] BY <1>1 DEF SelFrom
    <3> QED BY <1>0, <1>5, <3>1, <3>2 DEF Elems
  <2>2. ASSUME NEW x \in Elems(s), x.level = lv PROVE x \in Elems(t)
    <3>1. PICK i \in 1 .. n : x = s[i] BY <1>0 DEF Elems
    <3>2. i \in I BY <1>5, <2>2, <3>1
    <3>3. PICK j \in 1 .. Len(t) : t[j] = s[i] BY <1>1, <3>2 DEF SelFrom
    <3> QED BY <1>4, <3>1, <3>3 DEF Elems
  <2> QED BY <2>1, <2>2
<1>7. Elems(u) = {r \in Elems(s) : r.level # lv}
  <2>1. ASSUME NEW x \in Elems(u) PROVE x \in Elems(s) /\ x.level # lv
    <3>1. PICK j \in 1 .. Len(u) : x = u[j] BY <1>4 DEF Elems
    <3>2. PICK i \in 1 .. n : i \in J /\ u[j] = s[i] BY <1>2 DEF SelFrom
    <3> QED BY <1>0, <1>5, <3>1, <3>2 DEF Elems
  <2>2. ASSUME NEW x \in Elems(s), x.level # lv PROVE x \in Elems(u)
    <3>1. PICK i \in 1 .. n : x = s[i] BY <1>0 DEF Elems
    <3>2. i \in J BY <1>5, <2>2, <3>1
    <3>3. PICK j \in 1 .. Len(u) : u[j] = s[i] BY <1>2, <3>2 DEF SelFrom
    <3> QED BY <1>4, <3>1, <3>3 DEF Elems
  <2> QED BY <2>1, <2>2
<1>8. ASSUME \E r \in Elems(s) : r.level = lv PROVE Len(u) < n
  <2>1. PICK i \in 1 .. n : s[i].level = lv BY <1>0, <1>8 DEF Elems
  <2>2. i \notin J BY <1>5, <2>1
  <2> QED BY <1>2, <2>2 DEF SelLen
<1>9. ASSUME Uniq(s) PROVE Uniq(u)
  <2> SUFFICES ASSUME NEW j \in 1 .. Len(u), NEW k \in 1 .. Len(u), j # k
               PROVE  u[j].run_id # u[k].run_id
    BY <1>4 DEF Uniq
  <2>1. PICK a \in 1 .. n, b \in 1 .. n : a # b /\ u[j] = s[a] /\ u[k] = s[b] BY <1>2 DEF SelApart
  <2> QED BY <1>0, <1>9, <2>1 DEF Uniq
<1> QED BY <1>1, <1>2, <1>3, <1>4, <1>50, <1>6, <1>7, <1>8, <1>9

(* What PrefixOf keeps.                                                    *)
LEMMA PrefixFacts ==
    ASSUME NEW s \in Seq(RunRec), NEW n \in Nat
    PROVE  /\ PrefixOf(s, n) \in Seq(RunRec) /\ Len(PrefixOf(s, n)) <= n
           /\ Len(PrefixOf(s, n)) <= Len(s)
           /\ \A i \in DOMAIN PrefixOf(s, n) : i \in DOMAIN s /\ PrefixOf(s, n)[i] = s[i]
           /\ Uniq(s) => Uniq(PrefixOf(s, n))
           /\ Len(s) <= n => PrefixOf(s, n) = s
<1> DEFINE m == Len(s)
           k == IF n <= m THEN n ELSE m
           p == SubSeq(s, 1, k)
<1>0. m \in Nat /\ DOMAIN s = 1 .. m /\ m = Len(s) BY LenProperties
<1>2. p = PrefixOf(s, n) BY DEF PrefixOf
<1>10. n <= m => k = n OBVIOUS
<1>11. ~(n <= m) => k = m OBVIOUS
<1> HIDE DEF k, m
<1>1. k \in Nat /\ k <= n /\ k <= m /\ (m <= n => k = m)
  <2>1. m \in Nat BY <1>0
  <2>2. CASE n <= m BY <1>10, <2>1, <2>2
  <2>3. CASE ~(n <= m) BY <1>11, <2>1, <2>3
  <2> QED BY <2>2, <2>3
<1>3. p \in Seq(RunRec) /\ Len(p) = k /\ DOMAIN p = 1 .. k /\ \A i \in 1 .. k : i \in DOMAIN s /\ p[i] = s[i]
  <2>1. \A i \in 1 .. k : i \in 1 .. m /\ s[i] \in RunRec
    <3>0. m \in Nat /\ k \in Nat /\ k <= m BY <1>0, <1>1
    <3>1. \A i \in 1 .. k : i \in 1 .. m BY <3>0
    <3> QED BY <1>0, <3>1, ElementOfSeq
  <2>2. k \in Int /\ 1 \in Int /\ \A i \in 1 .. k : s[i] \in RunRec BY <1>1, <2>1
  <2>3. /\ SubSeq(s, 1, k) \in Seq(RunRec) /\ Len(SubSeq(s, 1, k)) = (IF 1 <= k THEN k - 1 + 1 ELSE 0)
        /\ \A i \in 1 .. k - 1 + 1 : SubSeq(s, 1, k)[i] = s[1 + i - 1]
    BY <2>2, SubSeqProperties
  <2>4. p \in Seq(RunRec) /\ Len(p) = (IF 1 <= k THEN k - 1 + 1 ELSE 0)
        /\ \A i \in 1 .. k - 1 + 1 : p[i] = s[1 + i - 1]
    BY <2>3 DEF p
  <2> HIDE DEF p
  <2>5. k - 1 + 1 = k /\ (IF 1 <= k THEN k - 1 + 1 ELSE 0) = k /\ \A i \in 1 .. k : 1 + i - 1 = i BY <1>1
  <2>6. Len(p) = k /\ \A i \in 1 .. k : p[i] = s[i] BY <2>4, <2>5
  <2>7. DOMAIN p = 1 .. k BY <2>4, <2>6, LenProperties
  <2> QED BY <1>0, <2>1, <2>4, <2>6, <2>7
<1> HIDE DEF p
<1>4. Uniq(s) => Uniq(p) BY <1>3 DEF Uniq
<1>5. m <= n => p = s
  <2> SUFFICES ASSUME m <= n PROVE p = s OBVIOUS
  <2>1. Len(p) = Len(s) /\ \A i \in 1 .. Len(p) : p[i] = s[i] BY <1>0, <1>1, <1>3
  <2> QED BY <1>3, <2>1, SeqEqual
<1> QED BY <1>0, <1>1, <1>2, <1>3, <1>4, <1>5

(* OverFull finds a level that has runs, or says that none is over its     *)
(* capacity.                                                               *)
LEMMA OverFullFacts ==
    ASSUME NEW s \in Seq(RunRec), max_levels \in Nat
    PROVE  /\ OverFull(s) # 0 => /\ OverFull(s) \in 1 .. max_levels - 1
                                 /\ \E r \in Elems(s) : r.level = OverFull(s)
           /\ OverFull(s) = 0 => \A lv \in 1 .. max_levels - 1 : Len(AtLevel(s, lv)) <= Pow2(lv - 1)
<1> DEFINE over == {lv \in 1 .. max_levels - 1 : Len(AtLevel(s, lv)) > Pow2(lv - 1)}
<1>1. \A lv \in 1 .. max_levels - 1 : Pow2(lv - 1) \in Nat \ {0} /\ Len(AtLevel(s, lv)) \in Nat
  <2> TAKE lv \in 1 .. max_levels - 1
  <2>1. lv - 1 \in Nat OBVIOUS
  <2> QED BY <2>1, PowerPositive, LevelFacts
<1>2. over \in SUBSET Nat /\ over \subseteq 1 .. max_levels - 1 OBVIOUS
<1>3. OverFull(s) = IF over = {} THEN 0 ELSE Least(over) BY DEF OverFull
<1>4. \A lv \in 1 .. max_levels - 1 : lv \in over <=> Len(AtLevel(s, lv)) > Pow2(lv - 1) OBVIOUS
<1> HIDE DEF over
<1>5. ASSUME OverFull(s) # 0
      PROVE  OverFull(s) \in 1 .. max_levels - 1 /\ \E r \in Elems(s) : r.level = OverFull(s)
  <2>1. over # {} BY <1>3, <1>5
  <2>2. OverFull(s) \in over BY <1>2, <1>3, <2>1, LeastOf
  <2> DEFINE lv == OverFull(s)
             t == AtLevel(s, lv)
  <2>3. lv \in 1 .. max_levels - 1 BY <1>2, <2>2
  <2>4. Len(t) > Pow2(lv - 1) /\ Pow2(lv - 1) \in Nat \ {0} /\ Len(t) \in Nat BY <1>1, <1>4, <2>2, <2>3
  <2>5. Len(t) > 0 BY <2>4
  <2>6. t \in Seq(RunRec) /\ Elems(t) = {r \in Elems(s) : r.level = lv} BY LevelFacts
  <2>7. DOMAIN t = 1 .. Len(t) BY <2>6, LenProperties
  <2> HIDE DEF t, lv
  <2>8. 1 \in DOMAIN t BY <2>4, <2>5, <2>7
  <2>9. t[1] \in Elems(t) BY <2>8 DEF Elems
  <2>10. t[1] \in Elems(s) /\ t[1].level = lv BY <2>6, <2>9
  <2> QED BY <2>3, <2>10 DEF lv
<1>6. ASSUME OverFull(s) = 0, NEW lv \in 1 .. max_levels - 1
      PROVE  Len(AtLevel(s, lv)) <= Pow2(lv - 1)
  <2>1. over = {}
    <3> SUFFICES ASSUME over # {} PROVE FALSE OBVIOUS
    <3>1. Least(over) \in over BY <1>2, LeastOf
    <3>2. 0 \in 1 .. max_levels - 1 BY <1>2, <1>3, <1>6, <3>1
    <3> QED BY <3>2
  <2>2. ~(Len(AtLevel(s, lv)) > Pow2(lv - 1)) BY <1>4, <2>1
  <2>3. Pow2(lv - 1) \in Nat \ {0} /\ Len(AtLevel(s, lv)) \in Nat BY <1>1
  <2> DEFINE x == Len(AtLevel(s, lv))
             y == Pow2(lv - 1)
  <2>4. x \in Nat /\ y \in Nat /\ ~(x > y) BY <2>2, <2>3
  <2> HIDE DEF x, y
  <2>5. x <= y BY <2>4
  <2> QED BY <2>5 DEF x, y
<1> QED BY <1>5, <1>6

-----------------------------------------------------------------------------
(* RunOK in the next state.                                                *)
RunOKNext(r) ==
    /\ r \in RunRec /\ r.run_id \in 1 .. next_run_id' - 1
    /\ r.level \in 1 .. max_levels' /\ r.root \in 1 .. Len(tree')
    /\ r.lo \in Trigrams /\ r.hi \in Trigrams
    /\ \A e \in tree'[r.root] : r.lo <= e[1] /\ e[1] <= r.hi

(* Trees are added, and lose entries only.                                 *)
GoodTree ==
    /\ tree' \in Seq(SUBSET Entry) /\ Len(tree) \in Nat /\ Len(tree') \in Nat
    /\ Len(tree) <= Len(tree')
    /\ \A r \in 1 .. Len(tree) : tree'[r] \subseteq tree[r]

(* One tree is added and the others stay as they are.                      *)
TreeAdded(E) ==
    /\ Len(tree) \in Nat /\ Len(tree') = Len(tree) + 1 /\ tree'[Len(tree) + 1] = E
    /\ \A r \in 1 .. Len(tree) : tree'[r] = tree[r]

(* What every step of the writer does to what scans read.                  *)
GoodStep ==
    /\ GoodTree /\ next_run_id' \in Nat /\ next_run_id <= next_run_id' /\ max_levels' = max_levels
    /\ Chain(cat') /\ Kept(cat, cat')

(* What such a step does to the scans: nothing, except that a bulk delete  *)
(* takes back what they have to find.                                      *)
ScansKept ==
    /\ it' = it /\ acc' = acc /\ faults' = faults /\ must' \in [Scanners -> SUBSET Entry]
    /\ \A s \in Scanners :
         /\ must'[s] \subseteq must[s]
         /\ \A e \in must'[s] : \A r \in 1 .. Len(tree) : e \in tree[r] => e \in tree'[r]

(* What is shown of every step of the writer.                              *)
StepOK == StoreInv' /\ GoodStep /\ ScansKept

(* Appending a tree.                                                       *)
LEMMA TreeAppend ==
    ASSUME IInv, NEW E \in SUBSET Entry, tree' = Append(tree, E)
    PROVE  GoodTree /\ TreeAdded(E)
<1>1. tree \in Seq(SUBSET Entry) BY DEF IInv, StoreInv, TypeMeta
<1>2. Len(tree) \in Nat BY <1>1
<1>3. /\ tree' \in Seq(SUBSET Entry) /\ Len(tree') = Len(tree) + 1 /\ tree'[Len(tree) + 1] = E
      /\ \A r \in 1 .. Len(tree) : tree'[r] = tree[r]
  BY <1>1, AppendProperties
<1> QED BY <1>2, <1>3 DEF GoodTree, TreeAdded

(* Leaving the trees alone.                                                *)
LEMMA TreeUnchanged == ASSUME IInv, tree' = tree PROVE GoodTree
BY DEF IInv, StoreInv, TypeMeta, GoodTree

(* A chain that does not change is kept.                                   *)
LEMMA KeptSame == ASSUME NEW c, Chain(c) PROVE Kept(c, c)
<1>1. \A b \in 1 .. Len(c) : c[b].runs \in Seq(RunRec) BY ChainFacts
<1>2. \A b \in 1 .. Len(c) : Len(c[b].runs) \in Nat BY <1>1
<1>3. KeptPages(c, c) BY <1>2 DEF KeptPages
<1>4. KeptRuns(c, c) BY DEF KeptRuns
<1>5. Len(c) <= Len(c) BY ChainFacts
<1> QED BY <1>3, <1>4, <1>5 DEF Kept

(* The same of the catalog.                                                *)
LEMMA CatKept == ASSUME IInv, cat' = cat PROVE Chain(cat') /\ Kept(cat, cat')
BY KeptSame DEF IInv, StoreInv, TypeMeta

(* A good record stays good.                                               *)
LEMMA RunOKKept ==
    ASSUME NEW r, RunOK(r), GoodTree, next_run_id \in Nat, next_run_id' \in Nat,
           next_run_id <= next_run_id', max_levels' = max_levels
    PROVE  RunOKNext(r)
<1>1. r.root \in 1 .. Len(tree) BY DEF RunOK
<1>2. r.root \in 1 .. Len(tree') /\ tree'[r.root] \subseteq tree[r.root] BY <1>1 DEF GoodTree
<1>3. r.run_id \in 1 .. next_run_id' - 1 BY DEF RunOK
<1> QED BY <1>2, <1>3 DEF RunOK, RunOKNext

(* The types of the variables, with the lengths.                           *)
LEMMA SetFields ==
    ASSUME IInv
    PROVE  /\ tree \in Seq(SUBSET Entry) /\ Len(tree) \in Nat /\ root_upper \in 1 .. Len(tree)
           /\ next_run_id \in Nat \ {0} /\ max_levels \in Nat \ {0} /\ max_levels \in LevelCaps
           /\ logged \in SUBSET (1 .. Len(tree)) /\ dropped \in SUBSET (1 .. Len(tree))
           /\ picked \in Seq(RunRec) /\ DOMAIN picked = 1 .. Len(picked) /\ Len(picked) \in Nat
           /\ target \in Nat /\ new_root \in Nat
           /\ must \in [Scanners -> SUBSET Entry]
           /\ n_runs \in Nat /\ (run_catalog_head = 0 \/ run_catalog_head = Len(cat))
           /\ faults \in 0 .. MaxFaults
<1>1. /\ tree \in Seq(SUBSET Entry) /\ root_upper \in 1 .. Len(tree)
           /\ next_run_id \in Nat \ {0} /\ max_levels \in LevelCaps
           /\ logged \in SUBSET (1 .. Len(tree)) /\ dropped \in SUBSET (1 .. Len(tree))
           /\ picked \in Seq(RunRec) /\ target \in Nat /\ new_root \in Nat
           /\ must \in [Scanners -> SUBSET Entry]
           /\ n_runs \in Nat /\ (run_catalog_head = 0 \/ run_catalog_head = Len(cat))
           /\ faults \in 0 .. MaxFaults
  BY DEF IInv, StoreInv, TypeMeta, TypeMerge, TypeScan
<1>2. Len(tree) \in Nat /\ DOMAIN picked = 1 .. Len(picked) /\ Len(picked) \in Nat BY <1>1, LenProperties
<1>3. max_levels \in Nat \ {0} BY <1>1, ConstFacts
<1> QED BY <1>1, <1>2, <1>3

(* Trees are sets of entries, and live roots are trees.                    *)
LEMMA TreeTypes ==
    ASSUME IInv
    PROVE  /\ \A r \in 1 .. Len(tree) : tree[r] \in SUBSET Entry
           /\ Stored \in SUBSET Entry /\ BaseEntries \in SUBSET Entry
           /\ LiveRoots \in SUBSET (1 .. Len(tree))
<1>1. \A r \in 1 .. Len(tree) : tree[r] \in SUBSET Entry BY SetFields, ElementOfSeq
<1>2. \A r \in Live : r.root \in 1 .. Len(tree) BY RunsHere DEF RunOK
<1>3. LiveRoots \in SUBSET (1 .. Len(tree)) BY <1>2, SetFields DEF LiveRoots
<1>4. BaseEntries \in SUBSET Entry BY <1>1, SetFields DEF BaseEntries
<1>5. RunEntries \in SUBSET Entry BY <1>1, <1>2 DEF RunEntries
<1> QED BY <1>1, <1>3, <1>4, <1>5 DEF Stored

(* A step that writes neither pages nor trees changes neither the runs nor *)
(* what is stored.                                                         *)
LEMMA SameStore ==
    ASSUME IInv, UNCHANGED <<metaVars, cat, tree>>
    PROVE  /\ CatalogRuns' = CatalogRuns /\ Live' = Live /\ LiveRoots' = LiveRoots /\ Stored' = Stored
           /\ PagesInv' /\ CountInv' /\ GoodStep
<1>1. /\ cat' = cat /\ tree' = tree /\ root_upper' = root_upper /\ run_catalog_head' = run_catalog_head
      /\ n_runs' = n_runs /\ next_run_id' = next_run_id /\ max_levels' = max_levels
  BY DEF metaVars
<1>2. CatalogRuns' = CatalogRuns BY <1>1 DEF CatalogRuns
<1>3. Live' = Live BY <1>2 DEF Live
<1>4. LiveRoots' = LiveRoots BY <1>1, <1>3 DEF LiveRoots
<1>5. Stored' = Stored BY <1>1, <1>3 DEF Stored, BaseEntries, RunEntries
<1>6. PagesInv' BY <1>1 DEF IInv, StoreInv, PagesInv, RunOK
<1>7. CountInv' BY <1>1, <1>2 DEF IInv, StoreInv, CountInv, RunCount
<1>8. GoodStep
  <2>1. GoodTree BY <1>1, TreeUnchanged
  <2>2. Chain(cat') /\ Kept(cat, cat') BY <1>1, CatKept
  <2>3. next_run_id \in Nat \ {0} BY SetFields
  <2>4. next_run_id' \in Nat /\ next_run_id <= next_run_id' BY <1>1, <2>3
  <2> QED BY <1>1, <2>1, <2>2, <2>4 DEF GoodStep
<1> QED BY <1>2, <1>3, <1>4, <1>5, <1>6, <1>7, <1>8

(* A step that changes no tree that was there leaves the scans alone.      *)
LEMMA SameScans ==
    ASSUME IInv, UNCHANGED <<scanVars, faults>>,
           \A r \in 1 .. Len(tree) : tree'[r] = tree[r]
    PROVE  ScansKept
<1>1. it' = it /\ acc' = acc /\ must' = must /\ faults' = faults BY DEF scanVars
<1> QED BY <1>1, SetFields DEF ScansKept

-----------------------------------------------------------------------------
(* InRuns in the next state.                                               *)
InRunsNext(b, e) ==
    \E i \in DOMAIN RunsFrom(cat')[b] : e \in tree'[RunsFrom(cat')[b][i].root]

(* Ahead in the next state, for a scan that does not move.                 *)
AheadNext(s, e) ==
    \/ /\ it[s].at = "base"
       /\ e \in tree'[it[s].root] \/ InRunsNext(it[s].page, e)
    \/ it[s].at = "load" /\ InRunsNext(it[s].page, e)
    \/ /\ it[s].at = "read"
       /\ \/ \E i \in it[s].idx .. it[s].n : e \in tree'[cat'[it[s].page].runs[i].root]
          \/ InRunsNext(cat'[it[s].page].right_link, e)

(* What could be reached from a page still can be, entry by entry.         *)
LEMMA InRunsKept ==
    ASSUME IInv, Kept(cat, cat'), NEW b \in 0 .. Len(cat), NEW e, InRuns(b, e),
           \A r \in 1 .. Len(tree) : e \in tree[r] => e \in tree'[r]
    PROVE  InRunsNext(b, e)
<1>1. PICK i \in DOMAIN RunsFrom(cat)[b] : e \in tree[RunsFrom(cat)[b][i].root] BY DEF InRuns
<1>2. RunOK(RunsFrom(cat)[b][i]) BY RunsHere
<1>3. RunsFrom(cat)[b][i].root \in 1 .. Len(tree) BY <1>2 DEF RunOK
<1>4. PICK j \in DOMAIN RunsFrom(cat')[b] : RunsFrom(cat')[b][j] = RunsFrom(cat)[b][i]
  BY DEF Kept, KeptRuns
<1> QED BY <1>1, <1>3, <1>4 DEF InRunsNext

(* What is ahead of a scan stays ahead of it.                              *)
LEMMA AheadKept ==
    ASSUME IInv, Kept(cat, cat'), NEW s \in Scanners, ScanPlace(s), it[s] \in IterRec, NEW e, Ahead(s, e),
           \A r \in 1 .. Len(tree) : e \in tree[r] => e \in tree'[r]
    PROVE  AheadNext(s, e)
<1>1. /\ it[s].root \in 1 .. Len(tree) /\ it[s].page \in 0 .. Len(cat)
      /\ it[s].at = "read" =>
          /\ it[s].page # 0 /\ it[s].idx \in 1 .. it[s].n + 1
          /\ it[s].n <= Len(cat[it[s].page].runs)
  BY DEF ScanPlace
<1>2. InRuns(it[s].page, e) => InRunsNext(it[s].page, e) BY <1>1, InRunsKept
<1>3. e \in tree[it[s].root] => e \in tree'[it[s].root] BY <1>1
<1>4. CASE it[s].at = "base" \/ it[s].at = "load" BY <1>2, <1>3, <1>4 DEF Ahead, AheadNext
<1>5. CASE it[s].at = "read"
  <2> DEFINE p == it[s].page
  <2>0. Len(cat) \in Nat /\ it[s].n \in Nat /\ it[s].idx \in Nat BY RunsHere DEF IterRec
  <2>1. p \in 1 .. Len(cat) BY <1>1, <1>5, <2>0
  <2>2. /\ cat'[p].right_link = cat[p].right_link
        /\ \A i \in DOMAIN cat[p].runs : cat'[p].runs[i] = cat[p].runs[i]
    BY <2>1 DEF Kept, KeptPages
  <2>3. cat[p].right_link \in 0 .. Len(cat) /\ cat[p].runs \in Seq(RunRec) BY <2>1, RunsHere, ChainFacts
  <2>4. DOMAIN cat[p].runs = 1 .. Len(cat[p].runs) /\ Len(cat[p].runs) \in Nat BY <2>3, LenProperties
  <2>5. InRuns(cat[p].right_link, e) => InRunsNext(cat[p].right_link, e) BY <2>3, InRunsKept
  <2>6. ASSUME NEW i \in it[s].idx .. it[s].n, e \in tree[cat[p].runs[i].root]
        PROVE  e \in tree'[cat'[p].runs[i].root]
    <3>1. i \in DOMAIN cat[p].runs BY <1>1, <1>5, <2>0, <2>4
    <3>2. RunOK(cat[p].runs[i]) BY <2>1, <3>1, RunsHere DEF IInv, StoreInv, PagesInv
    <3>3. cat[p].runs[i].root \in 1 .. Len(tree) BY <3>2 DEF RunOK
    <3> QED BY <2>2, <2>6, <3>1, <3>3
  <2>7. (\E i \in it[s].idx .. it[s].n : e \in tree[cat[p].runs[i].root]) \/ InRuns(cat[p].right_link, e)
    BY <1>5 DEF Ahead
  <2>8. (\E i \in it[s].idx .. it[s].n : e \in tree'[cat'[p].runs[i].root]) \/ InRunsNext(cat'[p].right_link, e)
    BY <2>2, <2>5, <2>6, <2>7
  <2> QED BY <1>5, <2>8 DEF AheadNext
<1> QED BY <1>4, <1>5 DEF Ahead

(* A good step of the writer keeps what holds of the scans.                *)
LEMMA ScanFrame ==
    ASSUME IInv, GoodStep, ScansKept
    PROVE  TypeScan' /\ ScanInv'
<1>1. it' = it /\ acc' = acc /\ faults' = faults /\ must' \in [Scanners -> SUBSET Entry] BY DEF ScansKept
<1>2. TypeScan' BY <1>1 DEF IInv, TypeScan
<1>3. ASSUME NEW s \in Scanners, it[s] = Closed PROVE must'[s] = {}
  <2>1. must[s] = {} BY <1>3 DEF IInv, ScanInv
  <2> QED BY <2>1 DEF ScansKept
<1>4. ASSUME NEW s \in Scanners, it[s] # Closed PROVE ScanPlace(s)' /\ ScanFinds(s)'
  <2>1. ScanPlace(s) /\ ScanFinds(s) BY <1>4 DEF IInv, ScanInv
  <2>2. it[s] \in IterRec BY <1>4 DEF IInv, TypeScan
  <2>3. ScanPlace(s)'
    <3>1. it[s].root \in 1 .. Len(tree') BY <2>1 DEF ScanPlace, GoodStep, GoodTree
    <3>2. it[s].page \in 0 .. Len(cat') /\ Len(cat) \in Nat
      <4>1. Len(cat) <= Len(cat') BY DEF GoodStep, Kept
      <4>2. Len(cat) \in Nat /\ Len(cat') \in Nat BY RunsHere, ChainFacts DEF GoodStep
      <4>3. it[s].page \in 0 .. Len(cat) BY <2>1 DEF ScanPlace
      <4> QED BY <4>1, <4>2, <4>3
    <3>3. ASSUME it[s].at = "read"
          PROVE  it[s].page # 0 /\ it[s].idx \in 1 .. it[s].n + 1 /\ it[s].n <= Len(cat'[it[s].page].runs)
      <4>1. it[s].page # 0 /\ it[s].idx \in 1 .. it[s].n + 1 /\ it[s].n <= Len(cat[it[s].page].runs)
            /\ it[s].page \in 0 .. Len(cat)
        BY <2>1, <3>3 DEF ScanPlace
      <4>2. it[s].page \in 1 .. Len(cat) BY <3>2, <4>1
      <4>3. it[s].page \in 1 .. Len(cat') BY <3>2, <4>2
      <4>4. Len(cat[it[s].page].runs) <= Len(cat'[it[s].page].runs) BY <4>2 DEF GoodStep, Kept, KeptPages
      <4>5. Len(cat[it[s].page].runs) \in Nat BY <4>2, RunsHere, ChainFacts, LenProperties
      <4>6. Len(cat'[it[s].page].runs) \in Nat
        <5>1. Chain(cat') BY DEF GoodStep
        <5> QED BY <4>3, <5>1, ChainFacts, LenProperties
      <4>7. it[s].n \in Nat BY <2>2 DEF IterRec
      <4>8. it[s].n <= Len(cat'[it[s].page].runs)
        <5> DEFINE x == Len(cat[it[s].page].runs)
                   y == Len(cat'[it[s].page].runs)
                   z == it[s].n
        <5>1. x \in Nat /\ y \in Nat /\ z \in Nat /\ z <= x /\ x <= y BY <4>1, <4>4, <4>5, <4>6, <4>7
        <5> HIDE DEF x, y, z
        <5>2. z <= y BY <5>1
        <5> QED BY <5>2 DEF y, z
      <4> QED BY <4>1, <4>8
    <3> QED BY <1>1, <3>1, <3>2, <3>3 DEF ScanPlace
  <2>4. ScanFinds(s)'
    <3> SUFFICES ASSUME NEW e \in must'[s]
                 PROVE  e[1] = it[s].h /\ (e \in acc[s] \/ Ahead(s, e)')
      BY <1>1 DEF ScanFinds
    <3>1. e \in must[s] /\ \A r \in 1 .. Len(tree) : e \in tree[r] => e \in tree'[r] BY DEF ScansKept
    <3>2. e[1] = it[s].h /\ (e \in acc[s] \/ Ahead(s, e)) BY <2>1, <3>1 DEF ScanFinds
    <3>3. Ahead(s, e) => AheadNext(s, e) BY <2>1, <2>2, <3>1, AheadKept DEF GoodStep
    <3>4. AheadNext(s, e) => Ahead(s, e)' BY <1>1 DEF Ahead, AheadNext, InRuns, InRunsNext
    <3> QED BY <3>2, <3>3, <3>4
  <2> QED BY <2>3, <2>4
<1>5. ScanInv' BY <1>1, <1>3, <1>4 DEF ScanInv
<1> QED BY <1>2, <1>5

-----------------------------------------------------------------------------
(* Steps that only move the writer on.                                     *)
LEMMA PcSteps ==
    ASSUME IInv, VacuumCleanup \/ HanoiDone \/ CollapseSkipped
    PROVE  StepOK
<1>1. /\ UNCHANGED <<metaVars, storeVars, mergeVars, scanVars, faults>>
      /\ pc' \in {"hanoi", "backstop", "idle"}
  BY DEF VacuumCleanup, HanoiDone, CollapseSkipped
<1>2. /\ UNCHANGED <<metaVars, cat, tree>> /\ tree' = tree /\ logged' = logged /\ root_upper' = root_upper
      /\ run_catalog_head' = run_catalog_head /\ n_runs' = n_runs /\ next_run_id' = next_run_id
      /\ max_levels' = max_levels /\ cat' = cat
      /\ picked' = picked /\ target' = target /\ new_root' = new_root /\ dropped' = dropped
  BY <1>1 DEF metaVars, storeVars, mergeVars
<1>3. LiveRoots' = LiveRoots /\ PagesInv' /\ CountInv' /\ GoodStep BY <1>2, SameStore
<1>4. TypeMeta' BY <1>2 DEF IInv, StoreInv, TypeMeta
<1>5. TypeMerge' BY <1>1, <1>2 DEF IInv, StoreInv, TypeMerge
<1>6. FoldInv' /\ PromoteInv' /\ NewInv' /\ DropInv' /\ CollapseInv'
  BY <1>1 DEF FoldInv, PromoteInv, NewInv, DropInv, CollapseInv
<1>7. LoggedUnreachable' BY <1>2, <1>3 DEF IInv, StoreInv, LoggedUnreachable
<1>8. ScansKept BY <1>1, <1>2, SameScans
<1>9. StoreInv' BY <1>3, <1>4, <1>5, <1>6, <1>7 DEF StoreInv
<1> QED BY <1>3, <1>8, <1>9 DEF StepOK

(* Handing trees to the free log.                                          *)
LEMMA LogSteps ==
    ASSUME IInv, FreeOldBase \/ HanoiLog \/ CollapseLog
    PROVE  StepOK
<1>1. /\ UNCHANGED <<metaVars, cat, tree, scanVars, faults>>
      /\ pc \in {"free", "hanoi_log", "collapse_log"}
      /\ pc' \in {"hanoi", "idle"} /\ logged' = logged \cup dropped /\ dropped' = {}
      /\ picked' \in {picked, <<>>} /\ target' \in {target, 0} /\ new_root' \in {new_root, 0}
  BY DEF FreeOldBase, HanoiLog, CollapseLog, Invalid
<1>2. /\ UNCHANGED <<metaVars, cat, tree>> /\ tree' = tree /\ root_upper' = root_upper
      /\ run_catalog_head' = run_catalog_head /\ n_runs' = n_runs /\ next_run_id' = next_run_id
      /\ max_levels' = max_levels /\ cat' = cat
  BY <1>1 DEF metaVars
<1>3. LiveRoots' = LiveRoots /\ PagesInv' /\ CountInv' /\ GoodStep BY <1>2, SameStore
<1>4. TypeMeta' BY <1>1, <1>2, SetFields DEF IInv, StoreInv, TypeMeta
<1>5. TypeMerge'
  <2>0. <<>> \in Seq(RunRec) OBVIOUS
  <2>1. picked' \in Seq(RunRec) BY <1>1, <2>0, SetFields
  <2>2. target' \in Nat /\ new_root' \in Nat BY <1>1, SetFields
  <2> QED BY <1>1, <2>1, <2>2 DEF TypeMerge
<1>6. FoldInv' /\ PromoteInv' /\ NewInv' /\ DropInv' /\ CollapseInv'
  BY <1>1 DEF FoldInv, PromoteInv, NewInv, DropInv, CollapseInv
<1>7. LoggedUnreachable'
  <2>1. logged \cap LiveRoots = {} BY DEF IInv, StoreInv, LoggedUnreachable
  <2>2. dropped \cap LiveRoots = {} BY <1>1 DEF IInv, StoreInv, DropInv
  <2> QED BY <1>1, <1>3, <2>1, <2>2 DEF LoggedUnreachable
<1>8. ScansKept BY <1>1, <1>2, SameScans
<1>9. StoreInv' BY <1>3, <1>4, <1>5, <1>6, <1>7 DEF StoreInv
<1> QED BY <1>3, <1>8, <1>9 DEF StepOK

(* A crash.                                                                *)
LEMMA CrashStep ==
    ASSUME IInv, Crash
    PROVE  IInv'
<1>1. /\ UNCHANGED <<metaVars, storeVars>> /\ pc' = "idle"
      /\ picked' = <<>> /\ target' = 0 /\ new_root' = 0 /\ dropped' = {}
      /\ faults < MaxFaults /\ faults' = faults + 1
      /\ it' = [s \in Scanners |-> Closed]
      /\ acc' = [s \in Scanners |-> {}] /\ must' = [s \in Scanners |-> {}]
  BY DEF Crash, Invalid
<1>2. /\ UNCHANGED <<metaVars, cat, tree>> /\ tree' = tree /\ logged' = logged /\ root_upper' = root_upper
      /\ run_catalog_head' = run_catalog_head /\ n_runs' = n_runs /\ next_run_id' = next_run_id
      /\ max_levels' = max_levels /\ cat' = cat
  BY <1>1 DEF metaVars, storeVars
<1>3. LiveRoots' = LiveRoots /\ PagesInv' /\ CountInv' BY <1>2, SameStore
<1>4. TypeMeta' BY <1>2 DEF IInv, StoreInv, TypeMeta
<1>5. TypeMerge' BY <1>1 DEF TypeMerge
<1>6. FoldInv' /\ PromoteInv' /\ NewInv' /\ DropInv' /\ CollapseInv'
  BY <1>1 DEF FoldInv, PromoteInv, NewInv, DropInv, CollapseInv
<1>7. LoggedUnreachable' BY <1>2, <1>3 DEF IInv, StoreInv, LoggedUnreachable
<1>8. StoreInv' BY <1>3, <1>4, <1>5, <1>6, <1>7 DEF StoreInv
<1>9. MaxFaults \in Nat BY CatalogAssumption
<1>10. faults' \in 0 .. MaxFaults BY <1>1, <1>9, SetFields
<1>11. TypeScan' BY <1>1, <1>10 DEF TypeScan
<1>12. ScanInv' BY <1>1 DEF ScanInv
<1> QED BY <1>8, <1>11, <1>12 DEF IInv

(* A good step that writes no page keeps the records good.                 *)
LEMMA PagesFrame ==
    ASSUME IInv, cat' = cat, GoodStep
    PROVE  PagesInv'
<1>1. \A b \in DOMAIN cat : \A i \in DOMAIN cat[b].runs : RunOKNext(cat[b].runs[i])
  <2> SUFFICES ASSUME NEW b \in DOMAIN cat, NEW i \in DOMAIN cat[b].runs PROVE RunOKNext(cat[b].runs[i])
    OBVIOUS
  <2>1. RunOK(cat[b].runs[i]) BY DEF IInv, StoreInv, PagesInv
  <2>2. next_run_id \in Nat BY SetFields
  <2> QED BY <2>1, <2>2, RunOKKept DEF GoodStep
<1>2. \A b \in DOMAIN cat : Len(cat[b].runs) \in 1 .. CatalogCap BY DEF IInv, StoreInv, PagesInv
<1> QED BY <1>1, <1>2 DEF PagesInv, RunOKNext, RunOK

(* A bulk delete.                                                          *)
LEMMA BulkDeleteStep ==
    ASSUME IInv, NEW d \in Tids, BulkDelete(d)
    PROVE  StepOK
<1> DEFINE newtree == [r \in DOMAIN tree |-> IF r \in LiveRoots THEN {e \in tree[r] : e[2] # d} ELSE tree[r]]
<1>1. /\ UNCHANGED <<metaVars, cat, logged, pc, mergeVars, it, acc, faults>>
      /\ pc = "idle" /\ tree' = newtree
      /\ must' = [s \in Scanners |-> {e \in must[s] : e[2] # d}]
  BY DEF BulkDelete
<1>2. /\ logged' = logged /\ root_upper' = root_upper /\ pc' = "idle"
      /\ run_catalog_head' = run_catalog_head /\ n_runs' = n_runs /\ next_run_id' = next_run_id
      /\ max_levels' = max_levels /\ cat' = cat /\ it' = it /\ acc' = acc /\ faults' = faults
      /\ picked' = picked /\ target' = target /\ new_root' = new_root /\ dropped' = dropped
  BY <1>1 DEF metaVars, mergeVars
<1>3. tree \in Seq(SUBSET Entry) /\ Len(tree) \in Nat /\ DOMAIN tree = 1 .. Len(tree) BY SetFields, LenProperties
<1>4. \A r \in 1 .. Len(tree) : tree[r] \in SUBSET Entry BY TreeTypes
<1>5. \A r \in 1 .. Len(tree) : tree'[r] = IF r \in LiveRoots THEN {e \in tree[r] : e[2] # d} ELSE tree[r]
  BY <1>1, <1>3
<1>6. tree' \in Seq(SUBSET Entry) /\ Len(tree') = Len(tree)
  <2> DEFINE n == Len(tree)
  <2>1. \A r \in 1 .. n : (IF r \in LiveRoots THEN {e \in tree[r] : e[2] # d} ELSE tree[r]) \in SUBSET Entry
    BY <1>4
  <2>2. newtree = [r \in 1 .. n |-> IF r \in LiveRoots THEN {e \in tree[r] : e[2] # d} ELSE tree[r]]
    BY <1>3
  <2>3. n \in Nat BY <1>3
  <2> HIDE DEF n
  <2>4. newtree \in Seq(SUBSET Entry) /\ Len(newtree) = n BY <2>1, <2>2, <2>3
  <2> QED BY <1>1, <2>4 DEF n
<1> HIDE DEF newtree
<1>7. GoodTree
  <2>1. \A r \in 1 .. Len(tree) : tree'[r] \subseteq tree[r] BY <1>5
  <2> QED BY <1>3, <1>6, <2>1 DEF GoodTree
<1>8. GoodStep
  <2>1. Chain(cat') /\ Kept(cat, cat') BY <1>2, CatKept
  <2>2. next_run_id' \in Nat /\ next_run_id <= next_run_id' BY <1>2, SetFields
  <2> QED BY <1>2, <1>7, <2>1, <2>2 DEF GoodStep
<1>9. LiveRoots' = LiveRoots /\ CatalogRuns' = CatalogRuns BY <1>2 DEF LiveRoots, Live, CatalogRuns
<1>10. PagesInv' BY <1>2, <1>8, PagesFrame
<1>11. CountInv' BY <1>2, <1>9 DEF IInv, StoreInv, CountInv, RunCount
<1>12. TypeMeta' BY <1>2, <1>6 DEF IInv, StoreInv, TypeMeta
<1>13. TypeMerge' BY <1>2, <1>6 DEF IInv, StoreInv, TypeMerge
<1>14. FoldInv' /\ PromoteInv' /\ NewInv' /\ DropInv' /\ CollapseInv'
  BY <1>2 DEF FoldInv, PromoteInv, NewInv, DropInv, CollapseInv
<1>15. LoggedUnreachable' BY <1>2, <1>9 DEF IInv, StoreInv, LoggedUnreachable
<1>16. ScansKept
  <2>1. must \in [Scanners -> SUBSET Entry] BY SetFields
  <2>2. must' \in [Scanners -> SUBSET Entry] /\ \A s \in Scanners : must'[s] \subseteq must[s]
    BY <1>1, <2>1
  <2>3. \A s \in Scanners : \A e \in must'[s] : e[2] # d BY <1>1
  <2>4. \A s \in Scanners : \A e \in must'[s] : \A r \in 1 .. Len(tree) : e \in tree[r] => e \in tree'[r]
    BY <1>5, <2>3
  <2> QED BY <1>2, <2>2, <2>4 DEF ScansKept
<1>17. StoreInv' BY <1>10, <1>11, <1>12, <1>13, <1>14, <1>15 DEF StoreInv
<1> QED BY <1>8, <1>16, <1>17 DEF StepOK

-----------------------------------------------------------------------------
(* A step that only adds a tree.                                           *)
LEMMA NewTree ==
    ASSUME IInv, NEW E \in SUBSET Entry, tree' = Append(tree, E), cat' = cat,
           next_run_id' = next_run_id, max_levels' = max_levels, UNCHANGED <<scanVars, faults>>
    PROVE  /\ GoodStep /\ ScansKept /\ PagesInv' /\ TreeAdded(E) /\ GoodTree
           /\ Len(tree) + 1 \in 1 .. Len(tree') /\ Len(tree) + 1 \notin 1 .. Len(tree)
           /\ 1 .. Len(tree) \subseteq 1 .. Len(tree')
<1>1. GoodTree /\ TreeAdded(E) BY TreeAppend
<1>2. Chain(cat') /\ Kept(cat, cat') BY CatKept
<1>3. next_run_id' \in Nat /\ next_run_id <= next_run_id' BY SetFields
<1>4. GoodStep BY <1>1, <1>2, <1>3 DEF GoodStep
<1>5. PagesInv' BY <1>4, PagesFrame
<1>6. ScansKept BY <1>1, SameScans DEF TreeAdded
<1>7. /\ Len(tree) + 1 \in 1 .. Len(tree') /\ Len(tree) + 1 \notin 1 .. Len(tree)
      /\ 1 .. Len(tree) \subseteq 1 .. Len(tree')
  <2>1. Len(tree) \in Nat /\ Len(tree') = Len(tree) + 1 BY <1>1 DEF TreeAdded
  <2> QED BY <2>1
<1> QED BY <1>1, <1>4, <1>5, <1>6, <1>7

(* The rebuild of the base.                                                *)
LEMMA RebuildStep ==
    ASSUME IInv, NEW E \in Batches, RebuildBase(E)
    PROVE  StepOK
<1>1. /\ UNCHANGED <<run_catalog_head, n_runs, next_run_id, max_levels, cat, logged, picked, target,
                   new_root, scanVars, faults>>
      /\ tree' = Append(tree, BaseEntries \cup E) /\ root_upper' = Len(tree) + 1
      /\ dropped' = IF \E r \in Live : r.root = root_upper THEN {} ELSE {root_upper}
      /\ pc' = "free"
  BY DEF RebuildBase
<1>2. BaseEntries \cup E \in SUBSET Entry BY TreeTypes, ConstFacts
<1>3. /\ GoodStep /\ ScansKept /\ PagesInv' /\ GoodTree
      /\ Len(tree) + 1 \in 1 .. Len(tree') /\ Len(tree) + 1 \notin 1 .. Len(tree)
      /\ 1 .. Len(tree) \subseteq 1 .. Len(tree')
  BY <1>1, <1>2, NewTree
<1>4. CatalogRuns' = CatalogRuns /\ Live' = Live BY <1>1 DEF CatalogRuns, Live
<1>5. LiveRoots' = {Len(tree) + 1} \cup {r.root : r \in Live} BY <1>1, <1>4 DEF LiveRoots
<1>6. CountInv' BY <1>1, <1>4 DEF IInv, StoreInv, CountInv, RunCount
<1>7. TypeMeta'
  <2>1. tree' \in Seq(SUBSET Entry) BY <1>3 DEF GoodTree
  <2> QED BY <1>1, <1>3, <2>1 DEF IInv, StoreInv, TypeMeta
<1>8. dropped' \subseteq {root_upper} /\ dropped' \cap {r.root : r \in Live} = {} BY <1>1
<1>9. TypeMerge'
  <2>1. dropped' \in SUBSET (1 .. Len(tree')) BY <1>3, <1>8, SetFields
  <2> QED BY <1>1, <2>1 DEF IInv, StoreInv, TypeMerge
<1>10. FoldInv' /\ PromoteInv' /\ NewInv' /\ CollapseInv' BY <1>1 DEF FoldInv, PromoteInv, NewInv, CollapseInv
<1>11. DropInv'
  <2>1. root_upper # Len(tree) + 1 BY <1>3, SetFields
  <2> QED BY <1>5, <1>8, <2>1 DEF DropInv
<1>12. LoggedUnreachable'
  <2>1. Len(tree) + 1 \notin logged BY <1>3, SetFields
  <2>2. logged \cap {r.root : r \in Live} = {} BY DEF IInv, StoreInv, LoggedUnreachable, LiveRoots
  <2> QED BY <1>1, <1>5, <2>1, <2>2 DEF LoggedUnreachable
<1>13. StoreInv' BY <1>3, <1>6, <1>7, <1>9, <1>10, <1>11, <1>12 DEF StoreInv
<1> QED BY <1>3, <1>13 DEF StepOK

(* The first step of a collapse.                                           *)
LEMMA CollapseFoldStep ==
    ASSUME IInv, CollapseFold
    PROVE  StepOK
<1>1. /\ UNCHANGED <<metaVars, cat, logged, picked, target, scanVars, faults>>
      /\ tree' = Append(tree, Stored) /\ new_root' = Len(tree) + 1 /\ dropped' = LiveRoots
      /\ pc' = "reset"
  BY DEF CollapseFold
<1>2. /\ root_upper' = root_upper /\ run_catalog_head' = run_catalog_head /\ n_runs' = n_runs
      /\ next_run_id' = next_run_id /\ max_levels' = max_levels
  BY <1>1 DEF metaVars
<1>30. Stored \in SUBSET Entry BY TreeTypes
<1>3. /\ GoodStep /\ ScansKept /\ PagesInv' /\ TreeAdded(Stored) /\ GoodTree
      /\ Len(tree) + 1 \in 1 .. Len(tree') /\ Len(tree) + 1 \notin 1 .. Len(tree)
      /\ 1 .. Len(tree) \subseteq 1 .. Len(tree')
  BY <1>1, <1>2, <1>30, NewTree
<1>4. CatalogRuns' = CatalogRuns /\ Live' = Live /\ LiveRoots' = LiveRoots
  BY <1>1, <1>2 DEF CatalogRuns, Live, LiveRoots
<1>5. Stored' = Stored
  <2>1. \A r \in 1 .. Len(tree) : tree'[r] = tree[r] BY <1>3 DEF TreeAdded
  <2>2. BaseEntries' = BaseEntries BY <1>2, <2>1, SetFields DEF BaseEntries
  <2>3. \A r \in Live : tree'[r.root] = tree[r.root]
    <3>1. \A r \in Live : r.root \in 1 .. Len(tree) BY RunsHere DEF RunOK
    <3> QED BY <2>1, <3>1
  <2>4. RunEntries' = RunEntries BY <1>4, <2>3 DEF RunEntries
  <2> QED BY <2>2, <2>4 DEF Stored
<1>6. CountInv' BY <1>2, <1>4 DEF IInv, StoreInv, CountInv, RunCount
<1>7. TypeMeta'
  <2>1. tree' \in Seq(SUBSET Entry) BY <1>3 DEF GoodTree
  <2> QED BY <1>1, <1>2, <1>3, <2>1 DEF IInv, StoreInv, TypeMeta
<1>8. TypeMerge'
  <2>1. dropped' \in SUBSET (1 .. Len(tree')) BY <1>1, <1>3, TreeTypes
  <2>2. new_root' \in Nat BY <1>1, SetFields
  <2> QED BY <1>1, <2>1, <2>2 DEF IInv, StoreInv, TypeMerge
<1>9. FoldInv' /\ PromoteInv' /\ DropInv' BY <1>1 DEF FoldInv, PromoteInv, DropInv
<1>10. NewInv'
  <2>1. Len(tree) + 1 \notin logged /\ Len(tree) + 1 \notin LiveRoots BY <1>3, SetFields, TreeTypes
  <2> QED BY <1>1, <1>3, <2>1 DEF NewInv
<1>11. CollapseInv'
  <2>1. tree'[new_root'] = Stored BY <1>1, <1>3 DEF TreeAdded
  <2> QED BY <1>5, <2>1 DEF CollapseInv
<1>12. LoggedUnreachable' BY <1>1, <1>4 DEF IInv, StoreInv, LoggedUnreachable
<1>13. StoreInv' BY <1>3, <1>6, <1>7, <1>8, <1>9, <1>10, <1>11, <1>12 DEF StoreInv
<1> QED BY <1>3, <1>13 DEF StepOK

(* The switch to the collapsed base.                                       *)
LEMMA ResetStep ==
    ASSUME IInv, CollapseReset
    PROVE  StepOK
<1>1. /\ UNCHANGED <<next_run_id, max_levels, storeVars, mergeVars, scanVars, faults>>
      /\ pc = "reset" /\ pc' = "collapse_log" /\ root_upper' = new_root
      /\ run_catalog_head' = 0 /\ n_runs' = 0
  BY DEF CollapseReset, Invalid
<1>2. /\ cat' = cat /\ tree' = tree /\ logged' = logged /\ next_run_id' = next_run_id
      /\ max_levels' = max_levels
      /\ picked' = picked /\ target' = target /\ new_root' = new_root /\ dropped' = dropped
  BY <1>1 DEF storeVars, mergeVars
<1>3. new_root \in 1 .. Len(tree) /\ new_root \notin logged /\ new_root \notin dropped
  BY <1>1 DEF IInv, StoreInv, NewInv
<1>4. GoodStep
  <2>1. GoodTree BY <1>2, TreeUnchanged
  <2>2. Chain(cat') /\ Kept(cat, cat') BY <1>2, CatKept
  <2>3. next_run_id' \in Nat /\ next_run_id <= next_run_id' BY <1>2, SetFields
  <2> QED BY <1>2, <2>1, <2>2, <2>3 DEF GoodStep
<1>5. PagesInv' BY <1>2, <1>4, PagesFrame
<1>6. CatalogRuns' = <<>>
  <2>1. RunsFrom(cat)[0] = <<>> BY RunsHere, RunsDef
  <2> QED BY <1>1, <1>2, <2>1 DEF CatalogRuns
<1>7. Live' = {} BY <1>6 DEF Live, Elems
<1>8. LiveRoots' = {new_root} BY <1>1, <1>7 DEF LiveRoots
<1>9. CountInv' BY <1>1, <1>6 DEF CountInv, RunCount, Uniq
<1>10. TypeMeta' BY <1>1, <1>2, <1>3 DEF IInv, StoreInv, TypeMeta
<1>11. TypeMerge' BY <1>1, <1>2 DEF IInv, StoreInv, TypeMerge
<1>12. FoldInv' /\ PromoteInv' /\ CollapseInv' BY <1>1 DEF FoldInv, PromoteInv, CollapseInv
<1>13. NewInv' BY <1>2, <1>3 DEF NewInv
<1>14. DropInv' BY <1>2, <1>3, <1>8 DEF DropInv
<1>15. LoggedUnreachable' BY <1>2, <1>3, <1>8 DEF LoggedUnreachable
<1>16. ScansKept BY <1>1, <1>2, SameScans
<1>17. StoreInv' BY <1>5, <1>9, <1>10, <1>11, <1>12, <1>13, <1>14, <1>15 DEF StoreInv
<1> QED BY <1>4, <1>16, <1>17 DEF StepOK

-----------------------------------------------------------------------------
(* A good record appended leaves good pages.                               *)
LEMMA AppendPages ==
    ASSUME IInv, NEW r, AppendedCat(r), GoodTree, next_run_id' = next_run_id + 1,
           max_levels' = max_levels, RunOKNext(r)
    PROVE  PagesInv' /\ GoodStep
<1>1. Chain(cat') /\ Kept(cat, cat') /\ OldOr(cat, cat', r)
      /\ \A b \in 1 .. Len(cat') : Len(cat'[b].runs) \in 1 .. CatalogCap
  BY DEF AppendedCat
<1>2. next_run_id' \in Nat /\ next_run_id \in Nat /\ next_run_id <= next_run_id' BY SetFields
<1>3. GoodStep BY <1>1, <1>2 DEF GoodStep
<1>4. DOMAIN cat' = 1 .. Len(cat') BY <1>1, ChainFacts
<1>5. ASSUME NEW b \in 1 .. Len(cat'), NEW i \in DOMAIN cat'[b].runs
      PROVE  RunOKNext(cat'[b].runs[i])
  <2>1. CASE cat'[b].runs[i] = r BY <2>1
  <2>2. CASE \E p \in 1 .. Len(cat) : \E j \in DOMAIN cat[p].runs : cat'[b].runs[i] = cat[p].runs[j]
    <3>1. PICK p \in 1 .. Len(cat) : \E j \in DOMAIN cat[p].runs : cat'[b].runs[i] = cat[p].runs[j] BY <2>2
    <3>2. PICK j \in DOMAIN cat[p].runs : cat'[b].runs[i] = cat[p].runs[j] BY <3>1
    <3>3. RunOK(cat[p].runs[j]) BY RunsHere DEF IInv, StoreInv, PagesInv
    <3>4. RunOKNext(cat[p].runs[j]) BY <1>2, <3>3, RunOKKept
    <3> QED BY <3>2, <3>4
  <2> QED BY <1>1, <2>1, <2>2 DEF OldOr
<1>6. \A b \in DOMAIN cat' : /\ Len(cat'[b].runs) \in 1 .. CatalogCap
                             /\ \A i \in DOMAIN cat'[b].runs : RunOKNext(cat'[b].runs[i])
  BY <1>1, <1>4, <1>5
<1>7. PagesInv' BY <1>6 DEF PagesInv, RunOK, RunOKNext
<1> QED BY <1>3, <1>7

(* The range of a flushed run covers its tree.                             *)
LEMMA HashRange ==
    ASSUME NEW E \in SUBSET Entry, E # {}
    PROVE  /\ Least(Hashes(E)) \in Trigrams /\ Greatest(Hashes(E)) \in Trigrams
           /\ Least(Hashes(E)) \in Nat /\ Greatest(Hashes(E)) \in Nat
           /\ \A e \in E : Least(Hashes(E)) <= e[1] /\ e[1] <= Greatest(Hashes(E))
<1>1. Hashes(E) \in SUBSET Trigrams BY DEF Hashes, Entry
<1>2. Hashes(E) # {} BY DEF Hashes
<1>3. \A e \in E : e[1] \in Hashes(E) BY DEF Hashes
<1>4. /\ Least(Hashes(E)) \in Hashes(E) /\ Greatest(Hashes(E)) \in Hashes(E)
      /\ \A x \in Hashes(E) : Least(Hashes(E)) <= x /\ x <= Greatest(Hashes(E))
  BY <1>1, <1>2, ConstFacts
<1>5. Trigrams \in SUBSET Nat BY ConstFacts
<1> QED BY <1>1, <1>3, <1>4, <1>5

(* A flush to a run.                                                       *)
LEMMA FlushStep ==
    ASSUME IInv, NEW E \in Batches, FlushRun(E)
    PROVE  StepOK
<1> DEFINE lo == Least(Hashes(E))
           hi == Greatest(Hashes(E))
           rt == Len(tree) + 1
           r == Run(next_run_id, 1, rt, lo, hi)
<1>1. /\ UNCHANGED <<root_upper, max_levels, logged, pc, mergeVars, scanVars, faults>>
      /\ pc = "idle" /\ E # {} /\ tree' = Append(tree, E) /\ AppendRun(1, rt, lo, hi)
  BY DEF FlushRun
<1>2. E \in SUBSET Entry BY ConstFacts
<1>3. /\ lo \in Trigrams /\ hi \in Trigrams /\ lo \in Nat /\ hi \in Nat
      /\ \A e \in E : lo <= e[1] /\ e[1] <= hi
  BY <1>1, <1>2, HashRange
<1>4. rt \in Nat /\ 1 \in Nat BY SetFields
<1>5. GoodTree /\ TreeAdded(E) BY <1>1, <1>2, TreeAppend
<1>6. Appended(r) BY <1>1, <1>3, <1>4, AppendFacts
<1>7. r.run_id = next_run_id /\ r.level = 1 /\ r.root = rt /\ r.lo = lo /\ r.hi = hi BY DEF Run
<1> HIDE DEF r, lo, hi
<1>8. /\ r \in RunRec /\ AppendedCat(r) /\ next_run_id' = next_run_id + 1
      /\ Live' = Live \cup {r} /\ CountInv' /\ n_runs' \in Nat
  BY <1>6 DEF Appended, CountInv
<1>9. RunOKNext(r)
  <2>1. Len(tree') = rt /\ tree'[rt] = E /\ rt \in 1 .. rt BY <1>4, <1>5 DEF TreeAdded
  <2>2. next_run_id \in Nat \ {0} /\ max_levels \in Nat \ {0} BY SetFields
  <2>3. r.run_id \in 1 .. next_run_id' - 1 BY <1>7, <1>8, <2>2
  <2>4. r.level \in 1 .. max_levels' BY <1>1, <1>7, <2>2
  <2> QED BY <1>3, <1>7, <1>8, <2>1, <2>3, <2>4 DEF RunOKNext
<1>10. PagesInv' /\ GoodStep BY <1>1, <1>5, <1>8, <1>9, AppendPages
<1>11. TypeMeta'
  <2>1. tree' \in Seq(SUBSET Entry) /\ Len(tree) <= Len(tree') /\ Len(tree) \in Nat /\ Len(tree') \in Nat
    BY <1>5 DEF GoodTree
  <2>2. root_upper' \in 1 .. Len(tree') /\ logged' \in SUBSET (1 .. Len(tree')) BY <1>1, <2>1, SetFields
  <2>3. Chain(cat') /\ run_catalog_head' = Len(cat') BY <1>8 DEF AppendedCat
  <2>4. next_run_id' \in Nat \ {0} /\ max_levels' \in LevelCaps BY <1>1, <1>8, SetFields
  <2> QED BY <1>8, <2>1, <2>2, <2>3, <2>4 DEF TypeMeta
<1>12. pc' = "idle" /\ picked' = picked /\ target' = target /\ new_root' = new_root /\ dropped' = dropped
  BY <1>1 DEF mergeVars
<1>13. TypeMerge'
  <2>1. dropped' \in SUBSET (1 .. Len(tree')) BY <1>5, <1>12, SetFields DEF GoodTree
  <2> QED BY <1>12, <2>1 DEF IInv, StoreInv, TypeMerge
<1>14. FoldInv' /\ PromoteInv' /\ NewInv' /\ DropInv' /\ CollapseInv'
  BY <1>12 DEF FoldInv, PromoteInv, NewInv, DropInv, CollapseInv
<1>15. LoggedUnreachable'
  <2>1. LiveRoots' = LiveRoots \cup {rt} BY <1>1, <1>7, <1>8 DEF LiveRoots
  <2>2. rt \notin logged BY SetFields
  <2> QED BY <1>1, <2>1, <2>2 DEF IInv, StoreInv, LoggedUnreachable
<1>16. ScansKept BY <1>1, <1>5, SameScans DEF TreeAdded
<1>17. StoreInv' BY <1>8, <1>10, <1>11, <1>13, <1>14, <1>15 DEF StoreInv
<1> QED BY <1>10, <1>16, <1>17 DEF StepOK

-----------------------------------------------------------------------------
(* What a pass leaves in the writer's locals.                              *)
PassNext(read, lv) ==
    /\ picked' = read /\ target' = lv /\ new_root' = Len(tree) + 1 /\ pc' = "promote"
    /\ \A e : e \in tree'[Len(tree) + 1] <=>
          \E i \in DOMAIN read : read[i].level = lv /\ e \in tree[read[i].root]
    /\ \A x \in dropped' : /\ x # root_upper /\ x \in 1 .. Len(tree)
                           /\ \A i \in DOMAIN read : read[i].root = x => read[i].level = lv

(* A pass of the Hanoi merge leaves so.                                    *)
LEMMA PassFacts ==
    ASSUME IInv, HanoiPass, NEW read, read = PrefixOf(CatalogRuns, CatalogCap)
    PROVE  /\ read \in Seq(RunRec) /\ Len(read) <= CatalogCap /\ Uniq(read)
           /\ \A i \in DOMAIN read : read[i] \in Live
           /\ OverFull(read) \in 1 .. max_levels - 1
           /\ \E i \in DOMAIN read : read[i].level = OverFull(read)
           /\ UNCHANGED <<metaVars, cat, logged, scanVars, faults>>
           /\ \E E \in SUBSET Entry : tree' = Append(tree, E)
           /\ PassNext(read, OverFull(read))
<1> DEFINE lv == OverFull(read)
           fold == Elems(AtLevel(read, lv))
           E == UNION {tree[r.root] : r \in fold}
<1>1. /\ read \in Seq(RunRec) /\ Len(read) <= CatalogCap /\ (Uniq(CatalogRuns) => Uniq(read))
      /\ \A i \in DOMAIN read : i \in DOMAIN CatalogRuns /\ read[i] = CatalogRuns[i]
  <2>1. CatalogRuns \in Seq(RunRec) /\ CatalogCap \in Nat BY RunsHere, ConstFacts
  <2> QED BY <2>1, PrefixFacts
<1>2. Uniq(read) BY <1>1 DEF IInv, StoreInv, CountInv
<1>3. \A i \in DOMAIN read : read[i] \in Live BY <1>1 DEF Live, Elems
<1>4. /\ UNCHANGED <<metaVars, cat, logged, scanVars, faults>>
      /\ lv # 0 /\ picked' = read /\ target' = lv /\ tree' = Append(tree, E)
      /\ new_root' = Len(tree) + 1 /\ pc' = "promote"
      /\ dropped' = {r.root : r \in {f \in fold : ~RootIsShared(f.root, read, lv)}}
  BY DEF HanoiPass
<1>5. max_levels \in Nat BY SetFields
<1>6. lv \in 1 .. max_levels - 1 /\ \E r \in Elems(read) : r.level = lv BY <1>1, <1>4, <1>5, OverFullFacts
<1>7. fold = {r \in Elems(read) : r.level = lv} BY <1>1, LevelFacts
<1> HIDE DEF lv, fold
<1>8. \A r \in fold : r \in Live /\ r.root \in 1 .. Len(tree)
  <2>1. \A r \in fold : r \in Live BY <1>3, <1>7 DEF Elems
  <2> QED BY <2>1, RunsHere DEF RunOK
<1>9. E \in SUBSET Entry
  <2>1. \A r \in fold : tree[r.root] \in SUBSET Entry BY <1>8, TreeTypes
  <2> QED BY <2>1
<1>10. \A e : e \in E <=> \E i \in DOMAIN read : read[i].level = lv /\ e \in tree[read[i].root]
  BY <1>7 DEF Elems
<1>11. tree'[Len(tree) + 1] = E BY <1>4, <1>9, TreeAppend DEF TreeAdded
<1>12. \A x \in dropped' : /\ x # root_upper /\ x \in 1 .. Len(tree)
                           /\ \A i \in DOMAIN read : read[i].root = x => read[i].level = lv
  BY <1>4, <1>8 DEF RootIsShared, Elems
<1> HIDE DEF E
<1>13. PassNext(read, lv) BY <1>4, <1>10, <1>11, <1>12 DEF PassNext
<1>14. \E i \in DOMAIN read : read[i].level = lv BY <1>6 DEF Elems
<1> QED BY <1>1, <1>2, <1>3, <1>4, <1>6, <1>9, <1>13, <1>14 DEF lv

(* A pass of the Hanoi merge.                                              *)
LEMMA PassStep ==
    ASSUME IInv, HanoiPass
    PROVE  StepOK
<1> DEFINE read == PrefixOf(CatalogRuns, CatalogCap)
           lv == OverFull(read)
<1>1. /\ read \in Seq(RunRec) /\ Len(read) <= CatalogCap /\ Uniq(read)
      /\ \A i \in DOMAIN read : read[i] \in Live
      /\ lv \in 1 .. max_levels - 1
      /\ \E i \in DOMAIN read : read[i].level = lv
      /\ UNCHANGED <<metaVars, cat, logged, scanVars, faults>>
      /\ \E E \in SUBSET Entry : tree' = Append(tree, E)
      /\ PassNext(read, lv)
  BY PassFacts
<1> HIDE DEF read, lv
<1>2. /\ root_upper' = root_upper /\ run_catalog_head' = run_catalog_head /\ n_runs' = n_runs
      /\ next_run_id' = next_run_id /\ max_levels' = max_levels /\ cat' = cat /\ logged' = logged
  BY <1>1 DEF metaVars
<1>3. PICK E \in SUBSET Entry : tree' = Append(tree, E) BY <1>1
<1>4. /\ GoodStep /\ ScansKept /\ PagesInv' /\ TreeAdded(E) /\ GoodTree
      /\ Len(tree) + 1 \in 1 .. Len(tree') /\ Len(tree) + 1 \notin 1 .. Len(tree)
      /\ 1 .. Len(tree) \subseteq 1 .. Len(tree')
  BY <1>1, <1>2, <1>3, NewTree
<1>5. /\ picked' = read /\ target' = lv /\ new_root' = Len(tree) + 1 /\ pc' = "promote"
      /\ \A e : e \in tree'[Len(tree) + 1] <=>
            \E i \in DOMAIN read : read[i].level = lv /\ e \in tree[read[i].root]
      /\ \A x \in dropped' : /\ x # root_upper /\ x \in 1 .. Len(tree)
                             /\ \A i \in DOMAIN read : read[i].root = x => read[i].level = lv
  BY <1>1 DEF PassNext
<1>6. CatalogRuns' = CatalogRuns /\ Live' = Live /\ LiveRoots' = LiveRoots
  BY <1>2 DEF CatalogRuns, Live, LiveRoots
<1>7. CountInv' BY <1>2, <1>6 DEF IInv, StoreInv, CountInv, RunCount
<1>8. TypeMeta'
  <2>1. tree' \in Seq(SUBSET Entry) BY <1>4 DEF GoodTree
  <2> QED BY <1>2, <1>4, <2>1 DEF IInv, StoreInv, TypeMeta
<1>9. TypeMerge'
  <2>1. dropped' \in SUBSET (1 .. Len(tree')) BY <1>4, <1>5
  <2>2. new_root' \in Nat /\ target' \in Nat BY <1>1, <1>5, SetFields
  <2> QED BY <1>1, <1>5, <2>1, <2>2 DEF TypeMerge
<1>10. FoldInv'
  <2>1. ASSUME NEW i \in DOMAIN read PROVE RunOKNext(read[i]) /\ read[i].root \notin logged
                                           /\ read[i].root \in 1 .. Len(tree)
    <3>1. RunOK(read[i]) /\ read[i].root \in LiveRoots BY <1>1, RunsHere DEF LiveRoots
    <3>2. RunOKNext(read[i]) BY <1>4, <3>1, RunOKKept, SetFields DEF GoodStep
    <3>3. read[i].root \notin logged BY <3>1 DEF IInv, StoreInv, LoggedUnreachable
    <3> QED BY <3>1, <3>2, <3>3 DEF RunOK
  <2>2. \A r \in 1 .. Len(tree) : tree'[r] = tree[r] BY <1>4 DEF TreeAdded
  <2>3. \A e : e \in tree'[Len(tree) + 1] <=>
            \E i \in DOMAIN read : read[i].level = lv /\ e \in tree'[read[i].root]
    BY <1>5, <2>1, <2>2
  <2>4. \A i \in DOMAIN picked' : RunOKNext(picked'[i]) /\ picked'[i].root \notin logged' BY <1>2, <1>5, <2>1
  <2>5. /\ Len(picked') <= CatalogCap /\ Uniq(picked') /\ target' \in 1 .. max_levels' - 1
        /\ \E i \in DOMAIN picked' : picked'[i].level = target'
    BY <1>1, <1>2, <1>5
  <2>6. \A e : e \in tree'[new_root'] <=>
            \E i \in DOMAIN picked' : picked'[i].level = target' /\ e \in tree'[picked'[i].root]
    BY <1>5, <2>3
  <2>7. \A x \in dropped' : /\ x # root_upper'
                            /\ \A i \in DOMAIN picked' : picked'[i].root = x => picked'[i].level = target'
    BY <1>2, <1>5
  <2> QED BY <2>4, <2>5, <2>6, <2>7 DEF FoldInv, RunOKNext, RunOK, Uniq
<1>11. PromoteInv' /\ DropInv' /\ CollapseInv' BY <1>5 DEF PromoteInv, DropInv, CollapseInv
<1>12. NewInv'
  <2>1. Len(tree) + 1 \notin logged' BY <1>2, <1>4, SetFields
  <2>2. Len(tree) + 1 \notin dropped' BY <1>4, <1>5
  <2> QED BY <1>4, <1>5, <2>1, <2>2 DEF NewInv
<1>13. LoggedUnreachable' BY <1>2, <1>6 DEF IInv, StoreInv, LoggedUnreachable
<1>14. StoreInv' BY <1>4, <1>7, <1>8, <1>9, <1>10, <1>11, <1>12, <1>13 DEF StoreInv
<1> QED BY <1>4, <1>14 DEF StepOK

-----------------------------------------------------------------------------
(* The range over several runs covers each of them.                        *)
LEMMA RangeFacts ==
    ASSUME NEW S \in SUBSET RunRec, S # {}, \A r \in S : r.lo \in Trigrams /\ r.hi \in Trigrams
    PROVE  /\ Least({r.lo : r \in S}) \in Trigrams /\ Greatest({r.hi : r \in S}) \in Trigrams
           /\ \A r \in S : Least({q.lo : q \in S}) <= r.lo /\ r.hi <= Greatest({q.hi : q \in S})
<1> DEFINE L == {r.lo : r \in S}
           H == {r.hi : r \in S}
<1>1. L \in SUBSET Trigrams /\ L # {} /\ H \in SUBSET Trigrams /\ H # {} OBVIOUS
<1>2. \A r \in S : r.lo \in L /\ r.hi \in H OBVIOUS
<1> HIDE DEF L, H
<1>3. Least(L) \in L /\ (\A x \in L : Least(L) <= x) /\ Greatest(H) \in H /\ (\A x \in H : x <= Greatest(H))
  BY <1>1, ConstFacts
<1>4. Least(L) \in Trigrams /\ Greatest(H) \in Trigrams /\ \A r \in S : Least(L) <= r.lo /\ r.hi <= Greatest(H)
  BY <1>1, <1>2, <1>3
<1> QED BY <1>4 DEF L, H

(* The range of the promoted run covers the new tree.                      *)
LEMMA PromotedRange ==
    ASSUME IInv, pc = "promote", NEW range,
           range = IF tree[new_root] = {} THEN <<MinHash, MaxHash>> ELSE RangeOf(AtLevel(picked, target))
    PROVE  /\ range[1] \in Trigrams /\ range[2] \in Trigrams
           /\ \A e \in tree[new_root] : range[1] <= e[1] /\ e[1] <= range[2]
<1>1. CASE tree[new_root] = {}
  <2>1. range[1] = MinHash /\ range[2] = MaxHash BY <1>1
  <2> QED BY <1>1, <2>1, ConstFacts
<1>2. CASE tree[new_root] # {}
  <2> DEFINE S == Elems(AtLevel(picked, target))
             lo == Least({r.lo : r \in S})
             hi == Greatest({r.hi : r \in S})
  <2>1. range = <<lo, hi>> BY <1>2 DEF RangeOf
  <2>2. range[1] = lo /\ range[2] = hi BY <2>1
  <2>3. picked \in Seq(RunRec) BY SetFields
  <2>4. S = {r \in Elems(picked) : r.level = target} BY <2>3, LevelFacts
  <2>5. /\ \E i \in DOMAIN picked : picked[i].level = target
        /\ \A i \in DOMAIN picked : RunOK(picked[i])
        /\ \A e \in tree[new_root] : \E i \in DOMAIN picked : picked[i].level = target /\ e \in tree[picked[i].root]
    BY DEF IInv, StoreInv, FoldInv
  <2>6. \A i \in DOMAIN picked : picked[i].level = target => picked[i] \in S BY <2>4 DEF Elems
  <2>7. \A r \in S : RunOK(r) BY <2>4, <2>5 DEF Elems
  <2>8. S # {} /\ S \in SUBSET RunRec /\ \A r \in S : r.lo \in Trigrams /\ r.hi \in Trigrams
    BY <2>5, <2>6, <2>7 DEF RunOK
  <2> HIDE DEF S
  <2>9. lo \in Trigrams /\ hi \in Trigrams /\ \A r \in S : lo <= r.lo /\ r.hi <= hi BY <2>8, RangeFacts
  <2> HIDE DEF lo, hi
  <2>10. ASSUME NEW e \in tree[new_root] PROVE lo <= e[1] /\ e[1] <= hi
    <3>1. PICK i \in DOMAIN picked : picked[i].level = target /\ e \in tree[picked[i].root] BY <2>5
    <3> DEFINE r == picked[i]
    <3>2. r \in S /\ RunOK(r) /\ r.root \in 1 .. Len(tree) BY <2>5, <2>6, <3>1 DEF RunOK
    <3>3. r.lo <= e[1] /\ e[1] <= r.hi BY <3>1, <3>2 DEF RunOK
    <3>4. e \in Entry BY <3>1, <3>2, TreeTypes
    <3>5. e[1] \in Trigrams BY <3>4 DEF Entry
    <3>6. r.lo \in Trigrams /\ r.hi \in Trigrams /\ lo <= r.lo /\ r.hi <= hi BY <2>8, <2>9, <3>2
    <3> HIDE DEF r
    <3>7. e[1] \in Nat /\ r.lo \in Nat /\ r.hi \in Nat /\ lo \in Nat /\ hi \in Nat
      BY <2>9, <3>5, <3>6, ConstFacts
    <3> QED BY <3>3, <3>6, <3>7
  <2> QED BY <2>2, <2>9, <2>10
<1> QED BY <1>1, <1>2

(* The append of the promoted run.                                         *)
LEMMA PromoteStep ==
    ASSUME IInv, HanoiPromote
    PROVE  StepOK
<1> DEFINE range == IF tree[new_root] = {} THEN <<MinHash, MaxHash>> ELSE RangeOf(AtLevel(picked, target))
           lo == range[1]
           hi == range[2]
           r == Run(next_run_id, target + 1, new_root, lo, hi)
<1>1. /\ UNCHANGED <<root_upper, max_levels, tree, logged, mergeVars, scanVars, faults>>
      /\ pc = "promote" /\ pc' = "rewrite" /\ AppendRun(target + 1, new_root, lo, hi)
  BY DEF HanoiPromote
<1>2. /\ root_upper' = root_upper /\ max_levels' = max_levels /\ tree' = tree /\ logged' = logged
      /\ picked' = picked /\ target' = target /\ new_root' = new_root /\ dropped' = dropped
  BY <1>1 DEF mergeVars
<1>3. lo \in Trigrams /\ hi \in Trigrams /\ \A e \in tree[new_root] : lo <= e[1] /\ e[1] <= hi
  BY <1>1, PromotedRange
<1> HIDE DEF range
<1> HIDE DEF lo, hi
<1>4. /\ lo \in Nat /\ hi \in Nat /\ target + 1 \in Nat /\ new_root \in Nat BY <1>3, ConstFacts, SetFields
<1>5. Appended(r) BY <1>1, <1>4, AppendFacts
<1>6. r.run_id = next_run_id /\ r.level = target + 1 /\ r.root = new_root /\ r.lo = lo /\ r.hi = hi BY DEF Run
<1> HIDE DEF r
<1>7. /\ r \in RunRec /\ AppendedCat(r) /\ next_run_id' = next_run_id + 1
      /\ Live' = Live \cup {r} /\ CountInv' /\ n_runs' \in Nat
  BY <1>5 DEF Appended, CountInv
<1>8. GoodTree BY <1>2, TreeUnchanged
<1>9. new_root \in 1 .. Len(tree) /\ new_root \notin logged /\ new_root \notin dropped
  BY <1>1 DEF IInv, StoreInv, NewInv
<1>10. /\ Len(picked) <= CatalogCap /\ Uniq(picked)
       /\ target \in 1 .. max_levels - 1
       /\ \E i \in DOMAIN picked : picked[i].level = target
       /\ \A i \in DOMAIN picked : RunOK(picked[i]) /\ picked[i].root \notin logged
       /\ \A e : e \in tree[new_root] <=>
              \E i \in DOMAIN picked : picked[i].level = target /\ e \in tree[picked[i].root]
       /\ \A x \in dropped : /\ x # root_upper
                             /\ \A i \in DOMAIN picked : picked[i].root = x => picked[i].level = target
  BY <1>1 DEF IInv, StoreInv, FoldInv
<1>11. RunOKNext(r)
  <2>1. next_run_id \in Nat \ {0} /\ max_levels \in Nat \ {0} BY SetFields
  <2>2. r.run_id \in 1 .. next_run_id' - 1 BY <1>6, <1>7, <2>1
  <2>3. r.level \in 1 .. max_levels' BY <1>2, <1>6, <1>10, <2>1
  <2> QED BY <1>2, <1>3, <1>6, <1>7, <1>9, <2>2, <2>3 DEF RunOKNext
<1>12. PagesInv' /\ GoodStep BY <1>2, <1>7, <1>8, <1>11, AppendPages
<1>13. TypeMeta'
  <2>1. Chain(cat') /\ run_catalog_head' = Len(cat') BY <1>7 DEF AppendedCat
  <2>2. next_run_id' \in Nat \ {0} BY <1>7, SetFields
  <2> QED BY <1>2, <1>7, <2>1, <2>2, SetFields DEF TypeMeta
<1>14. TypeMerge' BY <1>1, <1>2 DEF IInv, StoreInv, TypeMerge
<1>15. FoldInv'
  <2>1. \A i \in DOMAIN picked : RunOKNext(picked[i])
    <3>1. next_run_id \in Nat /\ next_run_id' \in Nat /\ next_run_id <= next_run_id' BY <1>7, SetFields
    <3> QED BY <1>2, <1>8, <1>10, <3>1, RunOKKept
  <2> QED BY <1>2, <1>10, <2>1 DEF FoldInv, RunOK, RunOKNext, Uniq
<1>16. PromoteInv'
  <2>1. run_catalog_head' = Len(cat') /\ Len(cat') # 0 /\ LastRun(cat') = r BY <1>7 DEF AppendedCat
  <2>2. PromotedRun' = r BY <2>1 DEF PromotedRun, LastRun
  <2>3. \A i \in DOMAIN picked : picked[i].run_id < r.run_id
    <3> TAKE i \in DOMAIN picked
    <3>1. picked[i].run_id \in 1 .. next_run_id - 1 BY <1>10 DEF RunOK
    <3> QED BY <1>6, <3>1, SetFields
  <2> QED BY <1>2, <1>6, <2>1, <2>2, <2>3 DEF PromoteInv, Invalid
<1>17. NewInv' BY <1>2, <1>9 DEF NewInv
<1>18. DropInv' /\ CollapseInv' BY <1>1 DEF DropInv, CollapseInv
<1>19. LoggedUnreachable'
  <2>1. LiveRoots' = LiveRoots \cup {new_root} BY <1>2, <1>6, <1>7 DEF LiveRoots
  <2> QED BY <1>2, <1>9, <2>1 DEF IInv, StoreInv, LoggedUnreachable
<1>20. ScansKept BY <1>1, <1>2, SameScans
<1>21. StoreInv' BY <1>7, <1>12, <1>13, <1>14, <1>15, <1>16, <1>17, <1>18, <1>19 DEF StoreInv
<1> QED BY <1>12, <1>20, <1>21 DEF StepOK

(* What the rewrite writes: at most a page of good runs.                   *)
LEMMA RewrittenFacts ==
    ASSUME IInv, pc = "rewrite"
    PROVE  /\ Rewritten \in Seq(RunRec) /\ Len(Rewritten) \in 1 .. CatalogCap /\ Uniq(Rewritten)
           /\ Elems(Rewritten) = {r \in Elems(picked) : r.level # target} \cup {PromotedRun}
           /\ \A r \in Elems(Rewritten) : RunOK(r)
           /\ PromotedRun.root = new_root /\ PromotedRun \in Live
<1>1. /\ Len(picked) <= CatalogCap /\ Uniq(picked)
      /\ \E i \in DOMAIN picked : picked[i].level = target
      /\ \A i \in DOMAIN picked : RunOK(picked[i])
  BY DEF IInv, StoreInv, FoldInv
<1>2. /\ run_catalog_head # 0 /\ PromotedRun.root = new_root
      /\ \A i \in DOMAIN picked : picked[i].run_id < PromotedRun.run_id
  BY DEF IInv, StoreInv, PromoteInv, Invalid
<1> DEFINE h == run_catalog_head
           C == cat[h].runs
           B == RunsFrom(cat)[cat[h].right_link]
           t == NotAtLevel(picked, target)
<1>3. h \in 1 .. Len(cat)
  <2>1. h \in 0 .. Len(cat) /\ h # 0 /\ Len(cat) \in Nat BY <1>2, RunsHere
  <2> HIDE DEF h
  <2> QED BY <2>1
<1>4. C \in Seq(RunRec) /\ Len(C) \in 1 .. CatalogCap /\ \A i \in DOMAIN C : RunOK(C[i])
  BY <1>3, RunsHere, ChainFacts DEF IInv, StoreInv, PagesInv
<1>5. DOMAIN C = 1 .. Len(C) /\ Len(C) \in DOMAIN C
  <2>1. DOMAIN C = 1 .. Len(C) /\ Len(C) \in Nat BY <1>4, LenProperties
  <2> DEFINE n == Len(C)
  <2>2. n \in 1 .. CatalogCap BY <1>4
  <2> HIDE DEF n
  <2>3. n \in 1 .. n BY <2>2
  <2> QED BY <2>1, <2>3 DEF n
<1>6. PromotedRun = C[Len(C)] /\ RunOK(PromotedRun) BY <1>4, <1>5 DEF PromotedRun
<1>7. PromotedRun \in RunRec BY <1>6 DEF RunOK
<1>8. PromotedRun \in Live
  <2>1. CatalogRuns = C \o B BY <1>3, RunsHere, RunsDef DEF CatalogRuns
  <2>2. B \in Seq(RunRec) BY <1>3, RunsHere, ChainFacts, RunsTypes
  <2> HIDE DEF B, C
  <2>3. \A i \in 1 .. Len(C) : i \in DOMAIN CatalogRuns /\ CatalogRuns[i] = C[i] BY <1>4, <2>1, <2>2, ConcatParts
  <2> QED BY <1>5, <1>6, <2>3 DEF Live, Elems
<1>9. picked \in Seq(RunRec) BY SetFields
<1>10. \E r \in Elems(picked) : r.level = target BY <1>1 DEF Elems
<1>11. /\ t \in Seq(RunRec) /\ Elems(t) = {r \in Elems(picked) : r.level # target}
       /\ Len(t) \in Nat /\ Len(t) < Len(picked) /\ Uniq(t)
  BY <1>1, <1>9, <1>10, LevelFacts
<1> DEFINE p == PromotedRun
<1>12. Rewritten = Append(t, p) BY DEF Rewritten
<1>120. DOMAIN t = 1 .. Len(t) BY <1>11, LenProperties
<1> HIDE DEF t, p, C
<1>13. /\ Rewritten \in Seq(RunRec) /\ Len(Rewritten) = Len(t) + 1 /\ Rewritten[Len(t) + 1] = p
       /\ \A i \in 1 .. Len(t) : Rewritten[i] = t[i]
  BY <1>7, <1>11, <1>12, AppendProperties DEF p
<1>14. DOMAIN Rewritten = 1 .. Len(t) + 1 BY <1>13, LenProperties
<1>15. Len(Rewritten) \in 1 .. CatalogCap
  <2> DEFINE a == Len(t)
             c == Len(picked)
  <2>1. a \in Nat /\ c \in Nat /\ CatalogCap \in Nat /\ a < c /\ c <= CatalogCap BY <1>1, <1>11, SetFields, ConstFacts
  <2> HIDE DEF a, c
  <2>2. a + 1 \in 1 .. CatalogCap BY <2>1
  <2> QED BY <1>13, <2>2 DEF a
<1>16. Elems(Rewritten) = Elems(t) \cup {p}
  <2>1. ASSUME NEW x \in Elems(Rewritten) PROVE x \in Elems(t) \cup {p}
    <3>1. PICK i \in 1 .. Len(t) + 1 : x = Rewritten[i] BY <1>14 DEF Elems
    <3>2. i \in 1 .. Len(t) \/ i = Len(t) + 1 BY <1>11
    <3> QED BY <1>13, <1>120, <3>1, <3>2 DEF Elems
  <2>2. ASSUME NEW x \in Elems(t) PROVE x \in Elems(Rewritten)
    <3>1. PICK i \in 1 .. Len(t) : x = t[i] BY <1>120 DEF Elems
    <3>2. i \in 1 .. Len(t) + 1 BY <1>11
    <3> QED BY <1>13, <1>14, <3>1, <3>2 DEF Elems
  <2>3. p \in Elems(Rewritten)
    <3>1. Len(t) + 1 \in 1 .. Len(t) + 1 BY <1>11
    <3> QED BY <1>13, <1>14, <3>1 DEF Elems
  <2> QED BY <2>1, <2>2, <2>3
<1>17. \A r \in Elems(Rewritten) : RunOK(r)
  <2>1. \A r \in Elems(picked) : RunOK(r) BY <1>1 DEF Elems
  <2> QED BY <1>6, <1>11, <1>16, <2>1 DEF p
<1>18. Uniq(Rewritten)
  <2>1. \A i \in 1 .. Len(t) : t[i].run_id < p.run_id
    <3> TAKE i \in 1 .. Len(t)
    <3>1. t[i] \in Elems(picked) BY <1>11, <1>120 DEF Elems
    <3> QED BY <1>2, <3>1 DEF Elems, p
  <2>2. \A i \in 1 .. Len(t) : t[i].run_id \in Nat
    <3> TAKE i \in 1 .. Len(t)
    <3>1. t[i] \in RunRec BY <1>11, ElementOfSeq
    <3> QED BY <3>1 DEF RunRec
  <2>3. p.run_id \in Nat BY <1>7 DEF p, RunRec
  <2>4. \A i \in 1 .. Len(t) : t[i].run_id # p.run_id BY <2>1, <2>2, <2>3
  <2>5. \A i \in 1 .. Len(t) + 1 : i \in 1 .. Len(t) \/ i = Len(t) + 1 BY <1>11
  <2> QED BY <1>11, <1>120, <1>13, <1>14, <2>4, <2>5 DEF Uniq
<1> QED BY <1>2, <1>8, <1>11, <1>13, <1>15, <1>16, <1>17, <1>18 DEF p

(* What it does to the chain.                                              *)
LEMMA RewriteCat ==
    ASSUME IInv, HanoiRewrite
    PROVE  /\ Chain(cat') /\ Kept(cat, cat') /\ Len(cat') = Len(cat) + 1
           /\ \A b \in 1 .. Len(cat) : cat'[b] = cat[b]
           /\ cat'[Len(cat')].runs = Rewritten
           /\ run_catalog_head' = Len(cat') /\ CatalogRuns' = Rewritten
<1> DEFINE g == [right_link |-> 0, runs |-> Rewritten]
<1>1. cat' = Append(cat, g) /\ run_catalog_head' = Len(cat) + 1 /\ pc = "rewrite"
  BY DEF HanoiRewrite, Invalid
<1>2. Rewritten \in Seq(RunRec) BY <1>1, RewrittenFacts
<1>3. g \in PageRec /\ g.right_link = 0 /\ g.runs = Rewritten BY <1>2 DEF PageRec
<1> HIDE DEF g
<1>4. Chain(cat) /\ Len(cat) \in Nat BY RunsHere
<1>5. g.right_link <= Len(cat) BY <1>3, <1>4
<1>6. Added(cat, cat', g) BY <1>1, <1>3, <1>4, <1>5, AddPage
<1>7. /\ Chain(cat') /\ Len(cat') = Len(cat) + 1 /\ cat'[Len(cat) + 1] = g
      /\ \A b \in 1 .. Len(cat) : cat'[b] = cat[b]
      /\ Kept(cat, cat') /\ RunsFrom(cat')[Len(cat) + 1] = g.runs \o RunsFrom(cat)[g.right_link]
  BY <1>6 DEF Added
<1>8. RunsFrom(cat)[0] = <<>> BY <1>4, RunsDef
<1>9. Rewritten \o <<>> = Rewritten BY <1>2, ConcatEmptySeq
<1>10. RunsFrom(cat')[Len(cat) + 1] = Rewritten BY <1>3, <1>7, <1>8, <1>9
<1>11. CatalogRuns' = Rewritten BY <1>1, <1>10 DEF CatalogRuns
<1> QED BY <1>1, <1>3, <1>7, <1>11

(* The rewrite of the catalog.                                             *)
LEMMA RewriteStep ==
    ASSUME IInv, HanoiRewrite
    PROVE  StepOK
<1>1. /\ UNCHANGED <<root_upper, next_run_id, max_levels, tree, logged, mergeVars, scanVars, faults>>
      /\ pc = "rewrite" /\ pc' = "hanoi_log" /\ n_runs' = Len(Rewritten) + 1
  BY DEF HanoiRewrite
<1>2. /\ root_upper' = root_upper /\ max_levels' = max_levels /\ tree' = tree /\ logged' = logged
      /\ next_run_id' = next_run_id
      /\ picked' = picked /\ target' = target /\ new_root' = new_root /\ dropped' = dropped
  BY <1>1 DEF mergeVars
<1>3. /\ Rewritten \in Seq(RunRec) /\ Len(Rewritten) \in 1 .. CatalogCap /\ Uniq(Rewritten)
      /\ Elems(Rewritten) = {r \in Elems(picked) : r.level # target} \cup {PromotedRun}
      /\ \A r \in Elems(Rewritten) : RunOK(r)
      /\ PromotedRun.root = new_root
  BY <1>1, RewrittenFacts
<1>4. /\ Chain(cat') /\ Kept(cat, cat') /\ Len(cat') = Len(cat) + 1
      /\ \A b \in 1 .. Len(cat) : cat'[b] = cat[b]
      /\ cat'[Len(cat')].runs = Rewritten
      /\ run_catalog_head' = Len(cat') /\ CatalogRuns' = Rewritten
  BY RewriteCat
<1>5. GoodTree BY <1>2, TreeUnchanged
<1>6. next_run_id' \in Nat /\ next_run_id \in Nat /\ next_run_id <= next_run_id' BY <1>2, SetFields
<1>7. GoodStep BY <1>2, <1>4, <1>5, <1>6 DEF GoodStep
<1>8. \A r \in Elems(Rewritten) : RunOKNext(r) BY <1>2, <1>3, <1>5, <1>6, RunOKKept
<1>9. PagesInv'
  <2>1. DOMAIN cat' = 1 .. Len(cat') /\ Len(cat) \in Nat BY <1>4, ChainFacts, RunsHere
  <2>2. ASSUME NEW b \in 1 .. Len(cat')
        PROVE  /\ Len(cat'[b].runs) \in 1 .. CatalogCap
               /\ \A i \in DOMAIN cat'[b].runs : RunOKNext(cat'[b].runs[i])
    <3>1. CASE b = Len(cat') BY <1>3, <1>4, <1>8, <3>1 DEF Elems
    <3>2. CASE b # Len(cat')
      <4>1. b \in 1 .. Len(cat) BY <1>4, <2>1, <3>2
      <4>2. cat'[b] = cat[b] BY <1>4, <4>1
      <4>3. b \in DOMAIN cat BY <4>1, RunsHere
      <4>4. /\ Len(cat[b].runs) \in 1 .. CatalogCap
            /\ \A i \in DOMAIN cat[b].runs : RunOK(cat[b].runs[i])
        BY <4>3 DEF IInv, StoreInv, PagesInv
      <4>5. \A i \in DOMAIN cat[b].runs : RunOKNext(cat[b].runs[i]) BY <1>2, <1>5, <1>6, <4>4, RunOKKept
      <4> QED BY <4>2, <4>4, <4>5
    <3> QED BY <3>1, <3>2
  <2> QED BY <2>1, <2>2 DEF PagesInv, RunOK, RunOKNext
<1>10. CountInv'
  <2>1. n_runs' # 0 /\ n_runs' \in Nat BY <1>1, <1>3
  <2>2. RunCount' = Len(CatalogRuns') + 1 BY <1>1, <1>4, <2>1 DEF RunCount
  <2> QED BY <1>3, <1>4, <2>2 DEF CountInv
<1>11. TypeMeta'
  <2>1. n_runs' \in Nat BY <1>1, <1>3
  <2> QED BY <1>2, <1>4, <2>1, SetFields DEF TypeMeta
<1>12. TypeMerge' BY <1>1, <1>2 DEF IInv, StoreInv, TypeMerge
<1>13. FoldInv' /\ PromoteInv' /\ CollapseInv' BY <1>1 DEF FoldInv, PromoteInv, CollapseInv
<1>14. new_root \in 1 .. Len(tree) /\ new_root \notin logged /\ new_root \notin dropped
  BY <1>1 DEF IInv, StoreInv, NewInv
<1>15. NewInv' BY <1>2, <1>14 DEF NewInv
<1>16. Live' = {r \in Elems(picked) : r.level # target} \cup {PromotedRun} BY <1>3, <1>4 DEF Live
<1>17. LiveRoots' = {root_upper} \cup {r.root : r \in {q \in Elems(picked) : q.level # target}} \cup {new_root}
  BY <1>2, <1>3, <1>16 DEF LiveRoots
<1>18. /\ \A r \in Elems(picked) : r.root \notin logged
       /\ \A x \in dropped : x # root_upper /\ \A r \in Elems(picked) : r.root = x => r.level = target
  BY <1>1 DEF IInv, StoreInv, FoldInv, Elems
<1>19. DropInv'
  <2>1. dropped \cap LiveRoots' = {} BY <1>14, <1>17, <1>18
  <2> QED BY <1>2, <2>1 DEF DropInv
<1>20. LoggedUnreachable'
  <2>1. root_upper \notin logged BY DEF IInv, StoreInv, LoggedUnreachable, LiveRoots
  <2>2. logged \cap LiveRoots' = {} BY <1>14, <1>17, <1>18, <2>1
  <2> QED BY <1>2, <2>2 DEF LoggedUnreachable
<1>21. ScansKept BY <1>1, <1>2, SameScans
<1>22. StoreInv' BY <1>9, <1>10, <1>11, <1>12, <1>13, <1>15, <1>19, <1>20 DEF StoreInv
<1> QED BY <1>7, <1>21, <1>22 DEF StepOK

-----------------------------------------------------------------------------
(* A step of a scan leaves the store alone.                                *)
LEMMA StoreFrame ==
    ASSUME IInv, UNCHANGED <<metaVars, storeVars, pc, mergeVars>>
    PROVE  StoreInv'
<1>1. /\ UNCHANGED <<metaVars, cat, tree>> /\ tree' = tree /\ logged' = logged /\ root_upper' = root_upper
      /\ run_catalog_head' = run_catalog_head /\ n_runs' = n_runs /\ next_run_id' = next_run_id
      /\ max_levels' = max_levels /\ cat' = cat /\ pc' = pc
      /\ picked' = picked /\ target' = target /\ new_root' = new_root /\ dropped' = dropped
  BY DEF metaVars, storeVars, mergeVars
<1>2. LiveRoots' = LiveRoots /\ Stored' = Stored /\ PagesInv' /\ CountInv' BY <1>1, SameStore
<1>3. TypeMeta' /\ TypeMerge' BY <1>1 DEF IInv, StoreInv, TypeMeta, TypeMerge
<1>4. FoldInv' BY <1>1 DEF IInv, StoreInv, FoldInv, RunOK
<1>5. PromoteInv' BY <1>1 DEF IInv, StoreInv, PromoteInv, PromotedRun
<1>6. NewInv' /\ DropInv' /\ CollapseInv' /\ LoggedUnreachable'
  BY <1>1, <1>2 DEF IInv, StoreInv, NewInv, DropInv, CollapseInv, LoggedUnreachable
<1> QED BY <1>2, <1>3, <1>4, <1>5, <1>6 DEF StoreInv

(* ScanPlace of an iterator.                                               *)
PlaceOf(x) ==
    /\ x.root \in 1 .. Len(tree) /\ x.page \in 0 .. Len(cat)
    /\ x.at = "read" => /\ x.page # 0 /\ x.idx \in 1 .. x.n + 1
                        /\ x.n <= Len(cat[x.page].runs)

(* Ahead of an iterator.                                                   *)
AheadOf(x, e) ==
    \/ x.at = "base" /\ (e \in tree[x.root] \/ InRuns(x.page, e))
    \/ x.at = "load" /\ InRuns(x.page, e)
    \/ /\ x.at = "read"
       /\ \/ \E i \in x.idx .. x.n : e \in tree[cat[x.page].runs[i].root]
          \/ InRuns(cat[x.page].right_link, e)

(* What has to be shown of an iterator, of what it collected and of what   *)
(* it has to find.                                                         *)
ScanGoal(x, y, z) ==
    IF x = Closed THEN z = {}
    ELSE PlaceOf(x) /\ \A e \in z : e[1] = x.h /\ (e \in y \/ AheadOf(x, e))

(* It holds of every scan.                                                 *)
LEMMA ScanNow ==
    ASSUME IInv, NEW s \in Scanners
    PROVE  /\ ScanGoal(it[s], acc[s], must[s])
           /\ it[s] \in {Closed} \cup IterRec /\ acc[s] \in SUBSET Entry /\ must[s] \in SUBSET Entry
<1>1. it[s] \in {Closed} \cup IterRec /\ acc[s] \in SUBSET Entry /\ must[s] \in SUBSET Entry
  BY DEF IInv, TypeScan
<1>2. IF it[s] = Closed THEN must[s] = {} ELSE ScanPlace(s) /\ ScanFinds(s) BY DEF IInv, ScanInv
<1> QED BY <1>1, <1>2 DEF ScanGoal, ScanPlace, ScanFinds, PlaceOf, AheadOf, Ahead

(* When it holds of the iterator that moves, it holds of all.              *)
LEMMA ScanMoves ==
    ASSUME IInv, UNCHANGED <<metaVars, storeVars, pc, mergeVars, faults>>, NEW s \in Scanners,
           NEW x \in {Closed} \cup IterRec, NEW y \in SUBSET Entry, NEW z \in SUBSET Entry,
           it' = [it EXCEPT ![s] = x], acc' = [acc EXCEPT ![s] = y], must' = [must EXCEPT ![s] = z],
           ScanGoal(x, y, z)
    PROVE  IInv'
<1>0. StoreInv' BY StoreFrame
<1>1. cat' = cat /\ tree' = tree /\ faults' = faults BY DEF storeVars
<1>2. /\ it \in [Scanners -> {Closed} \cup IterRec] /\ faults \in 0 .. MaxFaults
      /\ acc \in [Scanners -> SUBSET Entry] /\ must \in [Scanners -> SUBSET Entry]
  BY DEF IInv, TypeScan
<1>3. TypeScan' BY <1>1, <1>2 DEF TypeScan
<1>4. \A q \in Scanners : /\ it'[q] = IF q = s THEN x ELSE it[q]
                          /\ acc'[q] = IF q = s THEN y ELSE acc[q]
                          /\ must'[q] = IF q = s THEN z ELSE must[q]
  BY <1>2
<1>5. \A q \in Scanners : ScanGoal(it'[q], acc'[q], must'[q])
  <2> TAKE q \in Scanners
  <2>1. CASE q = s BY <1>4, <2>1
  <2>2. CASE q # s BY <1>4, <2>2, ScanNow
  <2> QED BY <2>1, <2>2
<1>6. ASSUME NEW q \in Scanners
      PROVE  (IF it[q] = Closed THEN must[q] = {} ELSE ScanPlace(q) /\ ScanFinds(q))'
  <2>1. ScanGoal(it'[q], acc'[q], must'[q]) BY <1>5
  <2>2. ScanPlace(q)' <=> PlaceOf(it'[q]) BY <1>1 DEF ScanPlace, PlaceOf
  <2>3. \A e : Ahead(q, e)' <=> AheadOf(it'[q], e) BY <1>1 DEF Ahead, AheadOf, InRuns
  <2>4. ScanFinds(q)' <=> \A e \in must'[q] : e[1] = it'[q].h /\ (e \in acc'[q] \/ AheadOf(it'[q], e))
    BY <2>3 DEF ScanFinds
  <2>5. Closed' = Closed BY DEF Closed
  <2> QED BY <2>1, <2>2, <2>4, <2>5 DEF ScanGoal
<1>7. ScanInv' BY <1>6 DEF ScanInv
<1> QED BY <1>0, <1>3, <1>7 DEF IInv

(* An open iterator with these fields.                                     *)
IsIter(x, at, h, root, page, idx, n) ==
    /\ x \in IterRec /\ x # Closed /\ x.at = at /\ x.h = h /\ x.root = root /\ x.page = page
    /\ x.idx = idx /\ x.n = n

(* Iter builds one.                                                        *)
LEMMA IterFacts ==
    ASSUME NEW at \in {"base", "load", "read", "done"}, NEW h \in Trigrams, NEW root \in Nat,
           NEW page \in Nat, NEW idx \in Nat, NEW n \in Nat
    PROVE  IsIter(Iter(at, h, root, page, idx, n), at, h, root, page, idx, n)
<1> DEFINE x == Iter(at, h, root, page, idx, n)
<1>1. /\ x.at = at /\ x.h = h /\ x.root = root /\ x.page = page /\ x.idx = idx /\ x.n = n
  BY DEF Iter
<1>2. x \in IterRec BY DEF Iter, IterRec
<1>3. Closed.at = "idle" BY DEF Closed
<1> HIDE DEF x
<1>4. x # Closed BY <1>1, <1>3
<1>5. IsIter(x, at, h, root, page, idx, n) BY <1>1, <1>2, <1>4 DEF IsIter
<1> QED BY <1>5 DEF x

(* Facts about an open iterator.                                           *)
LEMMA IterNow ==
    ASSUME IInv, NEW s \in Scanners, it[s].at # "idle"
    PROVE  /\ it[s] # Closed /\ it[s] \in IterRec /\ PlaceOf(it[s])
           /\ it[s].h \in Trigrams /\ it[s].root \in Nat /\ it[s].page \in Nat /\ it[s].idx \in Nat
           /\ it[s].n \in Nat /\ it[s].page \in 0 .. Len(cat)
           /\ \A e \in must[s] : e[1] = it[s].h /\ (e \in acc[s] \/ AheadOf(it[s], e))
<1>1. it[s] # Closed BY DEF Closed
<1>2. it[s] \in IterRec BY <1>1, ScanNow
<1>3. PlaceOf(it[s]) /\ \A e \in must[s] : e[1] = it[s].h /\ (e \in acc[s] \/ AheadOf(it[s], e))
  BY <1>1, ScanNow DEF ScanGoal
<1> QED BY <1>1, <1>2, <1>3 DEF IterRec, PlaceOf

(* Writing back what is there changes nothing.                             *)
LEMMA SameAt == ASSUME NEW D, NEW R, NEW f \in [D -> R], NEW s \in D PROVE f = [f EXCEPT ![s] = f[s]]
OBVIOUS

(* The same of what a scan collected and has to find.                      *)
LEMMA SameAcc ==
    ASSUME IInv, NEW s \in Scanners
    PROVE  acc = [acc EXCEPT ![s] = acc[s]] /\ must = [must EXCEPT ![s] = must[s]]
BY SameAt DEF IInv, TypeScan

(* Opening the iterator: everything stored is ahead.                       *)
LEMMA OpenStep ==
    ASSUME IInv, NEW s \in Scanners, NEW h \in Trigrams, ScanOpen(s, h)
    PROVE  IInv'
<1> DEFINE x == Iter("base", h, root_upper, run_catalog_head, 0, 0)
           z == EntriesOf(h, Stored)
<1>1. /\ UNCHANGED <<metaVars, storeVars, pc, mergeVars, faults>>
      /\ it' = [it EXCEPT ![s] = x] /\ must' = [must EXCEPT ![s] = z] /\ acc' = acc
  BY DEF ScanOpen
<1>2. /\ root_upper \in 1 .. Len(tree) /\ Len(tree) \in Nat /\ run_catalog_head \in 0 .. Len(cat) /\ Len(cat) \in Nat
  BY SetFields, RunsHere
<1>3. root_upper \in Nat /\ run_catalog_head \in Nat BY <1>2
<1>4. /\ x \in IterRec /\ x # Closed /\ x.at = "base" /\ x.h = h /\ x.root = root_upper
      /\ x.page = run_catalog_head
  <2>1. IsIter(x, "base", h, root_upper, run_catalog_head, 0, 0) BY <1>3, IterFacts
  <2> QED BY <2>1 DEF IsIter
<1>5. z \in SUBSET Entry /\ \A e \in z : e \in Stored /\ e[1] = h BY TreeTypes DEF EntriesOf
<1> HIDE DEF x, z
<1>6. PlaceOf(x) BY <1>2, <1>4 DEF PlaceOf
<1>7. ASSUME NEW e \in z PROVE AheadOf(x, e)
  <2>1. CASE e \in BaseEntries BY <1>4, <2>1 DEF AheadOf, BaseEntries
  <2>2. CASE e \in RunEntries
    <3>1. PICK r \in Live : e \in tree[r.root] BY <2>2 DEF RunEntries
    <3>2. PICK i \in DOMAIN CatalogRuns : r = CatalogRuns[i] BY DEF Live, Elems
    <3>3. InRuns(run_catalog_head, e) BY <3>1, <3>2 DEF InRuns, CatalogRuns
    <3> QED BY <1>4, <3>3 DEF AheadOf
  <2> QED BY <1>5, <2>1, <2>2 DEF Stored
<1>8. ScanGoal(x, acc[s], z) BY <1>4, <1>5, <1>6, <1>7 DEF ScanGoal
<1>9. acc[s] \in SUBSET Entry BY ScanNow
<1> QED BY <1>1, <1>4, <1>5, <1>8, <1>9, SameAcc, ScanMoves

(* Reading the base.                                                       *)
LEMMA BaseStep ==
    ASSUME IInv, NEW s \in Scanners, ScanBase(s)
    PROVE  IInv'
<1> DEFINE x == Iter("load", it[s].h, it[s].root, it[s].page, 0, 0)
           y == acc[s] \cup EntriesOf(it[s].h, tree[it[s].root])
<1>1. /\ UNCHANGED <<metaVars, storeVars, pc, mergeVars, faults>> /\ it[s].at = "base"
      /\ it' = [it EXCEPT ![s] = x] /\ acc' = [acc EXCEPT ![s] = y] /\ must' = must
  BY DEF ScanBase, FirstPage
<1>2. /\ it[s] \in IterRec /\ PlaceOf(it[s])
      /\ it[s].h \in Trigrams /\ it[s].root \in Nat /\ it[s].page \in Nat
      /\ \A e \in must[s] : e[1] = it[s].h /\ (e \in acc[s] \/ AheadOf(it[s], e))
  BY <1>1, IterNow
<1>3. /\ x \in IterRec /\ x # Closed /\ x.at = "load" /\ x.h = it[s].h /\ x.root = it[s].root
      /\ x.page = it[s].page
  <2>1. IsIter(x, "load", it[s].h, it[s].root, it[s].page, 0, 0) BY <1>2, IterFacts
  <2> HIDE DEF x
  <2> QED BY <2>1 DEF IsIter
<1> HIDE DEF x
<1>4. PlaceOf(x) BY <1>2, <1>3 DEF PlaceOf
<1>5. y \in SUBSET Entry
  <2>1. tree[it[s].root] \in SUBSET Entry BY <1>2, TreeTypes DEF PlaceOf
  <2> QED BY <2>1, ScanNow DEF EntriesOf
<1>6. ASSUME NEW e \in must[s] PROVE e[1] = x.h /\ (e \in y \/ AheadOf(x, e))
  BY <1>1, <1>2, <1>3 DEF AheadOf, EntriesOf
<1> HIDE DEF y
<1>7. ScanGoal(x, y, must[s]) BY <1>3, <1>4, <1>6 DEF ScanGoal
<1>8. must[s] \in SUBSET Entry BY ScanNow
<1> QED BY <1>1, <1>3, <1>5, <1>7, <1>8, SameAcc, ScanMoves

(* Loading a page: the runs from here are those of the page and those      *)
(* behind its link.                                                        *)
LEMMA LoadStep ==
    ASSUME IInv, NEW s \in Scanners, ScanLoad(s)
    PROVE  IInv'
<1> DEFINE p == it[s].page
           n == Len(cat[p].runs)
           x == Iter("read", it[s].h, it[s].root, p, 1, n)
<1>1. /\ UNCHANGED <<metaVars, storeVars, pc, mergeVars, faults>> /\ it[s].at = "load"
      /\ p # 0 /\ it' = [it EXCEPT ![s] = x] /\ acc' = acc /\ must' = must
  BY DEF ScanLoad, Invalid
<1>2. /\ it[s] \in IterRec /\ PlaceOf(it[s]) /\ p \in 0 .. Len(cat)
      /\ it[s].h \in Trigrams /\ it[s].root \in Nat /\ p \in Nat
      /\ \A e \in must[s] : e[1] = it[s].h /\ (e \in acc[s] \/ AheadOf(it[s], e))
  BY <1>1, IterNow
<1>3. p \in 1 .. Len(cat)
  <2>1. Len(cat) \in Nat /\ p \in 0 .. Len(cat) /\ p # 0 BY <1>1, <1>2, RunsHere
  <2> HIDE DEF p
  <2> QED BY <2>1
<1>4. /\ cat[p].runs \in Seq(RunRec) /\ cat[p].right_link \in 0 .. Len(cat) BY <1>3, RunsHere, ChainFacts
<1>5. n \in Nat /\ DOMAIN cat[p].runs = 1 .. n BY <1>4, LenProperties
<1>6. /\ x \in IterRec /\ x # Closed /\ x.at = "read" /\ x.h = it[s].h /\ x.root = it[s].root
      /\ x.page = p /\ x.idx = 1 /\ x.n = n
  <2>1. 1 \in Nat OBVIOUS
  <2> HIDE DEF n, p
  <2>2. IsIter(x, "read", it[s].h, it[s].root, p, 1, n) BY <1>2, <1>5, <2>1, IterFacts
  <2> HIDE DEF x
  <2> QED BY <2>2 DEF IsIter
<1>7. PlaceOf(x)
  <2>1. it[s].root \in 1 .. Len(tree) BY <1>2 DEF PlaceOf
  <2>2. 1 \in 1 .. n + 1 /\ n <= n
    <3> HIDE DEF n
    <3> QED BY <1>5
  <2> QED BY <1>1, <1>2, <1>6, <2>1, <2>2 DEF PlaceOf
<1>8. ASSUME NEW e, InRuns(p, e) PROVE AheadOf(x, e)
  <2> DEFINE C == cat[p].runs
             B == RunsFrom(cat)[cat[p].right_link]
             A == RunsFrom(cat)[p]
  <2>1. A = C \o B BY <1>3, RunsHere, RunsDef
  <2>2. C \in Seq(RunRec) /\ B \in Seq(RunRec) BY <1>4, RunsHere, RunsTypes
  <2>3. PICK i \in DOMAIN A : e \in tree[A[i].root] BY <1>8 DEF InRuns
  <2>4. n = Len(C) OBVIOUS
  <2> HIDE DEF A, B, C, n, p, x
  <2>5. DOMAIN B = 1 .. Len(B) BY <2>2, LenProperties
  <2>6. \/ i \in 1 .. Len(C) /\ A[i] = C[i]
        \/ i - Len(C) \in 1 .. Len(B) /\ A[i] = B[i - Len(C)]
    BY <2>1, <2>2, ConcatParts
  <2>7. CASE i \in 1 .. Len(C) /\ A[i] = C[i] BY <1>6, <2>3, <2>4, <2>7 DEF AheadOf, C
  <2>8. CASE i - Len(C) \in 1 .. Len(B) /\ A[i] = B[i - Len(C)]
    <3>1. InRuns(cat[p].right_link, e) BY <2>3, <2>5, <2>8 DEF InRuns, B
    <3> QED BY <1>6, <3>1 DEF AheadOf
  <2> QED BY <2>6, <2>7, <2>8
<1> HIDE DEF x, n, p
<1>9. ASSUME NEW e \in must[s] PROVE e[1] = x.h /\ (e \in acc[s] \/ AheadOf(x, e))
  <2>1. AheadOf(it[s], e) => InRuns(p, e) BY <1>1 DEF AheadOf, p
  <2> QED BY <1>2, <1>6, <1>8, <2>1
<1>10. ScanGoal(x, acc[s], must[s]) BY <1>6, <1>7, <1>9 DEF ScanGoal
<1> QED BY <1>1, <1>6, <1>10, SameAcc, ScanNow, ScanMoves

(* The end of the chain: nothing is ahead any more.                        *)
LEMMA ExhaustedStep ==
    ASSUME IInv, NEW s \in Scanners, ScanExhausted(s)
    PROVE  IInv'
<1> DEFINE x == Iter("done", it[s].h, it[s].root, 0, 0, 0)
<1>1. /\ UNCHANGED <<metaVars, storeVars, pc, mergeVars, faults>> /\ it[s].at = "load"
      /\ it[s].page = 0 /\ it' = [it EXCEPT ![s] = x] /\ acc' = acc /\ must' = must
  BY DEF ScanExhausted, Invalid
<1>2. /\ it[s] \in IterRec /\ PlaceOf(it[s]) /\ it[s].h \in Trigrams /\ it[s].root \in Nat
      /\ \A e \in must[s] : e[1] = it[s].h /\ (e \in acc[s] \/ AheadOf(it[s], e))
  BY <1>1, IterNow
<1>3. /\ x \in IterRec /\ x # Closed /\ x.at = "done" /\ x.h = it[s].h /\ x.root = it[s].root /\ x.page = 0
  <2>1. IsIter(x, "done", it[s].h, it[s].root, 0, 0, 0) BY <1>2, IterFacts
  <2> HIDE DEF x
  <2> QED BY <2>1 DEF IsIter
<1> HIDE DEF x
<1>4. PlaceOf(x)
  <2>1. Len(cat) \in Nat BY RunsHere
  <2>2. 0 \in 0 .. Len(cat) BY <2>1
  <2> QED BY <1>2, <1>3, <2>2 DEF PlaceOf
<1>5. \A e : ~InRuns(0, e)
  <2>1. RunsFrom(cat)[0] = <<>> BY RunsHere, RunsDef
  <2> QED BY <2>1 DEF InRuns
<1>6. \A e \in must[s] : e[1] = x.h /\ e \in acc[s] BY <1>1, <1>2, <1>3, <1>5 DEF AheadOf
<1>7. ScanGoal(x, acc[s], must[s]) BY <1>3, <1>4, <1>6 DEF ScanGoal
<1> QED BY <1>1, <1>3, <1>7, SameAcc, ScanNow, ScanMoves

(* Reading or skipping a run: its range covers it, so nothing is skipped   *)
(* that has the scan's hash.                                               *)
LEMMA RunStep ==
    ASSUME IInv, NEW s \in Scanners, ScanRun(s)
    PROVE  IInv'
<1> DEFINE p == it[s].page
           k == it[s].idx
           n == it[s].n
           h == it[s].h
           r == cat[p].runs[k]
           y == IF h < r.lo \/ h > r.hi THEN acc[s] ELSE acc[s] \cup EntriesOf(h, tree[r.root])
           x == Iter("read", h, it[s].root, p, k + 1, n)
<1>1. /\ UNCHANGED <<metaVars, storeVars, pc, mergeVars, faults>> /\ it[s].at = "read"
      /\ k <= n /\ it' = [it EXCEPT ![s] = x] /\ acc' = [acc EXCEPT ![s] = y] /\ must' = must
  BY DEF ScanRun
<1>2. /\ it[s] \in IterRec /\ PlaceOf(it[s]) /\ p \in 0 .. Len(cat)
      /\ h \in Trigrams /\ it[s].root \in Nat /\ p \in Nat /\ k \in Nat /\ n \in Nat
      /\ \A e \in must[s] : e[1] = h /\ (e \in acc[s] \/ AheadOf(it[s], e))
  BY <1>1, IterNow
<1>3. /\ p # 0 /\ k \in 1 .. n + 1 /\ n <= Len(cat[p].runs) /\ it[s].root \in 1 .. Len(tree)
  BY <1>1, <1>2 DEF PlaceOf
<1>4. p \in 1 .. Len(cat)
  <2>1. Len(cat) \in Nat /\ p \in 0 .. Len(cat) /\ p # 0 BY <1>2, <1>3, RunsHere
  <2> HIDE DEF p
  <2> QED BY <2>1
<1>5. cat[p].runs \in Seq(RunRec) /\ DOMAIN cat[p].runs = 1 .. Len(cat[p].runs) /\ Len(cat[p].runs) \in Nat
  BY <1>4, RunsHere, ChainFacts, LenProperties
<1>6. k \in DOMAIN cat[p].runs
  <2> DEFINE m == Len(cat[p].runs)
  <2>1. m \in Nat /\ n \in Nat /\ k \in Nat /\ k <= n /\ k \in 1 .. n + 1 /\ n <= m BY <1>1, <1>2, <1>3, <1>5
  <2> HIDE DEF m, n, k
  <2>2. k \in 1 .. m BY <2>1
  <2> QED BY <1>5, <2>2 DEF m
<1>7. RunOK(r) BY <1>4, <1>6, RunsHere DEF IInv, StoreInv, PagesInv
<1>8. /\ r.root \in 1 .. Len(tree) /\ \A e \in tree[r.root] : r.lo <= e[1] /\ e[1] <= r.hi
      /\ r.lo \in Nat /\ r.hi \in Nat
  BY <1>7, ConstFacts DEF RunOK
<1>9. k + 1 \in Nat /\ k + 1 \in 1 .. n + 1
  <2>1. n \in Nat /\ k \in Nat /\ k <= n BY <1>1, <1>2
  <2> HIDE DEF n, k
  <2> QED BY <2>1
<1>10. /\ x \in IterRec /\ x # Closed /\ x.at = "read" /\ x.h = h /\ x.root = it[s].root
       /\ x.page = p /\ x.idx = k + 1 /\ x.n = n
  <2> HIDE DEF h, p, k, n
  <2>1. IsIter(x, "read", h, it[s].root, p, k + 1, n) BY <1>2, <1>9, IterFacts
  <2> HIDE DEF x
  <2> QED BY <2>1 DEF IsIter
<1> HIDE DEF x, r
<1>11. PlaceOf(x) BY <1>2, <1>3, <1>9, <1>10 DEF PlaceOf
<1>12. y \in SUBSET Entry
  <2>1. tree[r.root] \in SUBSET Entry /\ acc[s] \in SUBSET Entry BY <1>8, TreeTypes, ScanNow
  <2> QED BY <2>1 DEF EntriesOf
<1>13. acc[s] \subseteq y OBVIOUS
<1>14. ASSUME NEW e \in must[s], e \in tree[r.root] PROVE e \in y
  <2>1. e[1] = h BY <1>2
  <2>2. r.lo <= h /\ h <= r.hi BY <1>8, <1>14, <2>1
  <2>3. h \in Nat BY <1>2, ConstFacts
  <2>4. ~(h < r.lo \/ h > r.hi)
    <3> HIDE DEF h
    <3> QED BY <1>8, <2>2, <2>3
  <2>5. y = acc[s] \cup EntriesOf(h, tree[r.root]) BY <2>4
  <2> QED BY <1>14, <2>1, <2>5 DEF EntriesOf
<1> HIDE DEF y
<1>15. ASSUME NEW e \in must[s] PROVE e[1] = x.h /\ (e \in y \/ AheadOf(x, e))
  <2>1. e[1] = h /\ (e \in acc[s] \/ AheadOf(it[s], e)) BY <1>2
  <2>2. CASE e \in acc[s] BY <1>10, <1>13, <2>1, <2>2
  <2>3. CASE InRuns(cat[p].right_link, e) BY <1>10, <2>1, <2>3 DEF AheadOf
  <2>4. CASE \E i \in k .. n : e \in tree[cat[p].runs[i].root]
    <3>1. PICK i \in k .. n : e \in tree[cat[p].runs[i].root] BY <2>4
    <3>2. i = k \/ i \in k + 1 .. n
      <4>1. n \in Nat /\ k \in Nat BY <1>2
      <4> HIDE DEF n, k
      <4> QED BY <4>1
    <3>3. CASE i = k BY <1>10, <1>14, <2>1, <3>1, <3>3 DEF r
    <3>4. CASE i \in k + 1 .. n
      <4>1. AheadOf(x, e) BY <1>10, <3>1, <3>4 DEF AheadOf
      <4> QED BY <1>10, <2>1, <4>1
    <3> QED BY <3>2, <3>3, <3>4
  <2>5. AheadOf(it[s], e) => \/ \E i \in k .. n : e \in tree[cat[p].runs[i].root]
                             \/ InRuns(cat[p].right_link, e)
    BY <1>1 DEF AheadOf
  <2> QED BY <2>1, <2>2, <2>3, <2>4, <2>5
<1>16. ScanGoal(x, y, must[s]) BY <1>10, <1>11, <1>15 DEF ScanGoal
<1>17. must[s] \in SUBSET Entry BY ScanNow
<1> QED BY <1>1, <1>10, <1>12, <1>16, <1>17, SameAcc, ScanMoves

(* Following the link.                                                     *)
LEMMA FollowStep ==
    ASSUME IInv, NEW s \in Scanners, ScanFollow(s)
    PROVE  IInv'
<1> DEFINE p == it[s].page
           l == cat[p].right_link
           x == Iter("load", it[s].h, it[s].root, l, 0, 0)
<1>1. /\ UNCHANGED <<metaVars, storeVars, pc, mergeVars, faults>> /\ it[s].at = "read"
      /\ it[s].idx > it[s].n /\ it' = [it EXCEPT ![s] = x] /\ acc' = acc /\ must' = must
  BY DEF ScanFollow
<1>2. /\ it[s] \in IterRec /\ PlaceOf(it[s]) /\ p \in 0 .. Len(cat)
      /\ it[s].h \in Trigrams /\ it[s].root \in Nat /\ it[s].idx \in Nat /\ it[s].n \in Nat
      /\ \A e \in must[s] : e[1] = it[s].h /\ (e \in acc[s] \/ AheadOf(it[s], e))
  BY <1>1, IterNow
<1>3. p # 0 /\ it[s].root \in 1 .. Len(tree) BY <1>1, <1>2 DEF PlaceOf
<1>4. p \in 1 .. Len(cat)
  <2>1. Len(cat) \in Nat /\ p \in 0 .. Len(cat) /\ p # 0 BY <1>2, <1>3, RunsHere
  <2> HIDE DEF p
  <2> QED BY <2>1
<1>5. l \in 0 .. Len(cat) /\ l \in Nat
  <2>1. l \in 0 .. Len(cat) /\ Len(cat) \in Nat BY <1>4, RunsHere, ChainFacts
  <2> HIDE DEF l
  <2> QED BY <2>1
<1>6. /\ x \in IterRec /\ x # Closed /\ x.at = "load" /\ x.h = it[s].h /\ x.root = it[s].root /\ x.page = l
  <2> HIDE DEF l
  <2>1. IsIter(x, "load", it[s].h, it[s].root, l, 0, 0) BY <1>2, <1>5, IterFacts
  <2> HIDE DEF x
  <2> QED BY <2>1 DEF IsIter
<1> HIDE DEF x
<1>7. PlaceOf(x) BY <1>3, <1>5, <1>6 DEF PlaceOf
<1>8. it[s].idx .. it[s].n = {} BY <1>1, <1>2
<1>9. ASSUME NEW e \in must[s] PROVE e[1] = x.h /\ (e \in acc[s] \/ AheadOf(x, e))
  <2>1. AheadOf(it[s], e) => InRuns(l, e) BY <1>1, <1>8 DEF AheadOf
  <2> QED BY <1>2, <1>6, <2>1 DEF AheadOf
<1>10. ScanGoal(x, acc[s], must[s]) BY <1>6, <1>7, <1>9 DEF ScanGoal
<1> QED BY <1>1, <1>6, <1>10, SameAcc, ScanNow, ScanMoves

(* Closing the iterator.                                                   *)
LEMMA EndStep ==
    ASSUME IInv, NEW s \in Scanners, ScanEnd(s)
    PROVE  IInv'
<1>1. /\ UNCHANGED <<metaVars, storeVars, pc, mergeVars, faults>>
      /\ it' = [it EXCEPT ![s] = Closed] /\ acc' = [acc EXCEPT ![s] = {}] /\ must' = [must EXCEPT ![s] = {}]
  BY DEF ScanEnd
<1>2. ScanGoal(Closed, {}, {}) BY DEF ScanGoal
<1>3. {} \in SUBSET Entry /\ Closed \in {Closed} \cup IterRec OBVIOUS
<1> QED BY <1>1, <1>2, <1>3, ScanMoves

-----------------------------------------------------------------------------
(* The invariant holds at the start, with aliases of the base or without.  *)
LEMMA IInvInit == Init => IInv
<1> SUFFICES ASSUME Init PROVE IInv OBVIOUS
<1>1. /\ root_upper = 1 /\ next_run_id = Aliases + 1 /\ max_levels \in LevelCaps /\ tree = <<InitBase>>
      /\ logged = {} /\ pc = "idle" /\ picked = <<>> /\ target = 0 /\ new_root = 0 /\ dropped = {}
      /\ it = [s \in Scanners |-> Closed] /\ faults = 0
      /\ acc = [s \in Scanners |-> {}] /\ must = [s \in Scanners |-> {}]
  BY DEF Init, Invalid
<1>2. Aliases \in Nat /\ Aliases <= CatalogCap /\ CatalogCap \in Nat /\ MaxFaults \in Nat BY CatalogAssumption
<1>3. /\ Len(tree) = 1 /\ tree[1] = InitBase /\ tree \in Seq(SUBSET Entry) BY <1>1, ConstFacts
<1>4. next_run_id \in Nat \ {0} /\ max_levels \in Nat \ {0} BY <1>1, <1>2, ConstFacts
<1>5. TypeMerge /\ TypeScan /\ ScanInv /\ FoldInv /\ PromoteInv /\ NewInv /\ DropInv /\ CollapseInv
      /\ LoggedUnreachable
  <2>1. TypeMerge BY <1>1 DEF TypeMerge
  <2>2. TypeScan BY <1>1, <1>2 DEF TypeScan
  <2>3. ScanInv BY <1>1 DEF ScanInv
  <2>4. FoldInv /\ PromoteInv /\ NewInv /\ DropInv /\ CollapseInv /\ LoggedUnreachable
    BY <1>1 DEF FoldInv, PromoteInv, NewInv, DropInv, CollapseInv, LoggedUnreachable
  <2> QED BY <2>1, <2>2, <2>3, <2>4
<1>6. ASSUME Aliases = 0 PROVE TypeMeta /\ PagesInv /\ CountInv
  <2>1. run_catalog_head = 0 /\ n_runs = 0 /\ cat = <<>> BY <1>6 DEF Init, Invalid
  <2>2. Chain(cat) BY <2>1 DEF Chain
  <2>3. TypeMeta BY <1>1, <1>3, <1>4, <2>1, <2>2 DEF TypeMeta
  <2>4. PagesInv BY <2>1 DEF PagesInv
  <2>5. CatalogRuns = <<>> BY <2>1, <2>2, RunsDef DEF CatalogRuns
  <2>6. CountInv BY <2>1, <2>5 DEF CountInv, RunCount, Uniq
  <2> QED BY <2>3, <2>4, <2>6
<1>7. ASSUME Aliases # 0 PROVE TypeMeta /\ PagesInv /\ CountInv
  <2> DEFINE q == [i \in 1 .. Aliases |-> Alias(i)]
             g == [right_link |-> 0, runs |-> q]
  <2>1. run_catalog_head = 1 /\ n_runs = Aliases + 1 /\ cat = <<g>> BY <1>7 DEF Init, Invalid
  <2>2. \A i \in 1 .. Aliases : RunOK(Alias(i)) /\ Alias(i) \in RunRec /\ Alias(i).run_id = i
    <3> TAKE i \in 1 .. Aliases
    <3> DEFINE r == Alias(i)
    <3>1. r.run_id = i /\ r.level = 1 /\ r.root = 1 /\ r.lo = MinHash /\ r.hi = MaxHash BY DEF Alias, Run
    <3>2. MinHash \in Nat /\ MaxHash \in Nat /\ MinHash \in Trigrams /\ MaxHash \in Trigrams BY ConstFacts
    <3>3. i \in Nat /\ i \in 1 .. next_run_id - 1 BY <1>1, <1>2
    <3>4. r \in RunRec BY <3>2, <3>3 DEF Alias, Run, RunRec
    <3>5. \A e \in InitBase : MinHash <= e[1] /\ e[1] <= MaxHash
      <4>1. \A e \in InitBase : e[1] \in Trigrams BY ConstFacts DEF Entry
      <4> QED BY <4>1, ConstFacts
    <3> HIDE DEF r
    <3>6. 1 \in 1 .. max_levels BY <1>4
    <3>7. RunOK(r) BY <1>3, <3>1, <3>2, <3>3, <3>4, <3>5, <3>6 DEF RunOK
    <3> QED BY <3>1, <3>4, <3>7 DEF r
  <2>3. q \in Seq(RunRec) /\ Len(q) = Aliases /\ DOMAIN q = 1 .. Aliases BY <1>2, <2>2
  <2>30. \A i \in 1 .. Aliases : q[i] = Alias(i) OBVIOUS
  <2> HIDE DEF q
  <2>4. g \in PageRec /\ g.right_link = 0 /\ g.runs = q BY <2>3 DEF PageRec
  <2> HIDE DEF g
  <2>5. cat \in Seq(PageRec) /\ Len(cat) = 1 /\ cat[1] = g /\ DOMAIN cat = 1 .. 1 BY <2>1, <2>4
  <2>6. Chain(cat) BY <2>4, <2>5 DEF Chain
  <2>7. TypeMeta
    <3>1. n_runs \in Nat BY <1>2, <2>1
    <3> QED BY <1>1, <1>3, <1>4, <2>1, <2>5, <2>6, <3>1 DEF TypeMeta
  <2>8. PagesInv
    <3>1. Aliases \in 1 .. CatalogCap BY <1>2, <1>7
    <3>2. \A b \in DOMAIN cat : b = 1 BY <2>5
    <3>3. \A i \in DOMAIN q : RunOK(q[i]) BY <2>2, <2>3, <2>30
    <3> QED BY <2>3, <2>4, <2>5, <3>1, <3>2, <3>3 DEF PagesInv
  <2>9. CatalogRuns = q
    <3>1. RunsFrom(cat)[1] = cat[1].runs \o RunsFrom(cat)[cat[1].right_link] /\ RunsFrom(cat)[0] = <<>>
      <4>1. 1 \in 1 .. Len(cat) BY <2>5
      <4> QED BY <2>6, <4>1, RunsDef
    <3>2. q \o <<>> = q BY <2>3, ConcatEmptySeq
    <3> QED BY <2>1, <2>4, <2>5, <3>1, <3>2 DEF CatalogRuns
  <2>10. CountInv
    <3>1. n_runs # 0 BY <1>2, <2>1
    <3>2. RunCount = Len(CatalogRuns) + 1 BY <2>1, <2>3, <2>9, <3>1 DEF RunCount
    <3>3. Uniq(q) BY <2>2, <2>3, <2>30 DEF Uniq
    <3> QED BY <2>9, <3>2, <3>3 DEF CountInv
  <2> QED BY <2>7, <2>8, <2>10
<1>8. TypeMeta /\ PagesInv /\ CountInv BY <1>6, <1>7
<1> QED BY <1>5, <1>8 DEF IInv, StoreInv

(* It holds when nothing changes.                                          *)
LEMMA StutterStep == ASSUME IInv, UNCHANGED vars PROVE IInv'
<1>1. UNCHANGED <<metaVars, storeVars, pc, mergeVars>> /\ UNCHANGED <<scanVars, faults>> /\ tree' = tree
  BY DEF vars, storeVars
<1>2. UNCHANGED <<metaVars, cat, tree>> BY <1>1 DEF storeVars
<1>3. StoreInv' BY <1>1, StoreFrame
<1>4. GoodStep BY <1>2, SameStore
<1>5. ScansKept BY <1>1, SameScans
<1>6. TypeScan' /\ ScanInv' BY <1>4, <1>5, ScanFrame
<1> QED BY <1>3, <1>6 DEF IInv

(* Every step keeps it.                                                    *)
LEMMA IInvNext == IInv /\ [Next]_vars => IInv'
<1> SUFFICES ASSUME IInv, [Next]_vars PROVE IInv' OBVIOUS
<1>1. StepOK => IInv' BY ScanFrame DEF StepOK, IInv
<1>2. ASSUME NEW E \in Batches, FlushRun(E) PROVE IInv' BY <1>1, <1>2, FlushStep
<1>3. ASSUME NEW E \in Batches, RebuildBase(E) PROVE IInv' BY <1>1, <1>3, RebuildStep
<1>4. CASE FreeOldBase \/ HanoiLog \/ CollapseLog BY <1>1, <1>4, LogSteps
<1>5. ASSUME NEW d \in Tids, BulkDelete(d) PROVE IInv' BY <1>1, <1>5, BulkDeleteStep
<1>6. CASE VacuumCleanup \/ HanoiDone \/ CollapseSkipped BY <1>1, <1>6, PcSteps
<1>7. CASE HanoiPass BY <1>1, <1>7, PassStep
<1>8. CASE HanoiPromote BY <1>1, <1>8, PromoteStep
<1>9. CASE HanoiRewrite BY <1>1, <1>9, RewriteStep
<1>10. CASE CollapseFold BY <1>1, <1>10, CollapseFoldStep
<1>11. CASE CollapseReset BY <1>1, <1>11, ResetStep
<1>12. CASE Crash BY <1>12, CrashStep
<1>13. ASSUME NEW s \in Scanners, NEW h \in Trigrams, ScanOpen(s, h) PROVE IInv' BY <1>13, OpenStep
<1>14. ASSUME NEW s \in Scanners, ScanBase(s) \/ ScanLoad(s) \/ ScanExhausted(s) \/ ScanRun(s)
              \/ ScanFollow(s) \/ ScanEnd(s)
       PROVE  IInv'
  BY <1>14, BaseStep, LoadStep, ExhaustedStep, RunStep, FollowStep, EndStep
<1>15. CASE UNCHANGED vars BY <1>15, StutterStep
<1> QED BY <1>2, <1>3, <1>4, <1>5, <1>6, <1>7, <1>8, <1>9, <1>10, <1>11, <1>12, <1>13, <1>14, <1>15 DEF Next

(* The inductive invariant holds in every state of the run catalog.        *)
THEOREM Inductive == Spec => []IInv
<1>1. IInv /\ UNCHANGED vars => IInv' BY IInvNext
<1> QED BY IInvInit, IInvNext, PTL DEF Spec

(* It contains the types.                                                  *)
LEMMA TypesHold == IInv => TypeOK
<1> SUFFICES ASSUME IInv PROVE TypeOK OBVIOUS
<1>1. /\ tree \in Seq(SUBSET Entry) /\ root_upper \in 1 .. Len(tree) /\ n_runs \in Nat
      /\ next_run_id \in Nat \ {0} /\ max_levels \in LevelCaps
      /\ logged \in SUBSET (1 .. Len(tree)) /\ dropped \in SUBSET (1 .. Len(tree))
  BY SetFields
<1>2. DOMAIN tree = 1 .. Len(tree) BY <1>1, LenProperties
<1>3. run_catalog_head \in 0 .. Len(cat) /\ DOMAIN cat = 1 .. Len(cat) BY RunsHere
<1>4. ASSUME NEW b \in DOMAIN cat
      PROVE  /\ cat[b].right_link \in 0 .. b - 1 /\ Len(cat[b].runs) \in 1 .. CatalogCap
             /\ Elems(cat[b].runs) \subseteq RunType
  <2>1. cat[b].right_link \in 0 .. b - 1 BY <1>3, RunsHere, ChainFacts
  <2>2. Len(cat[b].runs) \in 1 .. CatalogCap /\ \A i \in DOMAIN cat[b].runs : RunOK(cat[b].runs[i])
    BY DEF IInv, StoreInv, PagesInv
  <2>3. ASSUME NEW r \in Elems(cat[b].runs) PROVE r \in RunType
    <3>1. RunOK(r) BY <2>2 DEF Elems
    <3>2. r \in RunRec /\ r.run_id \in 1 .. next_run_id - 1 /\ r.level \in 1 .. max_levels
          /\ r.root \in DOMAIN tree /\ r.lo \in Trigrams /\ r.hi \in Trigrams
      BY <1>2, <3>1 DEF RunOK
    <3>3. r.run_id \in 1 .. next_run_id BY <1>1, <3>2
    <3> QED BY <3>2, <3>3 DEF RunType, RunRec
  <2> QED BY <2>1, <2>2, <2>3
<1>5. pc \in {"idle", "free", "hanoi", "promote", "rewrite", "hanoi_log", "backstop",
              "reset", "collapse_log"}
  BY DEF IInv, StoreInv, TypeMerge
<1> QED BY <1>1, <1>2, <1>3, <1>4, <1>5 DEF TypeOK

(* Nothing is ahead of a scan that is done.                                *)
LEMMA CompleteHolds == IInv => ScanComplete
<1> SUFFICES ASSUME IInv, NEW s \in Scanners, it[s].at = "done" PROVE must[s] \subseteq acc[s]
  BY DEF ScanComplete
<1>1. \A e \in must[s] : e \in acc[s] \/ AheadOf(it[s], e) BY IterNow
<1> QED BY <1>1 DEF AheadOf

(* It contains the counts.                                                 *)
LEMMA CountHolds == IInv => CountExact
<1> SUFFICES ASSUME IInv PROVE CountExact OBVIOUS
<1>1. RunCount = Len(CatalogRuns) + 1 /\ Uniq(CatalogRuns) BY DEF IInv, StoreInv, CountInv
<1>2. \A r \in Live : r.run_id < next_run_id
  <2> TAKE r \in Live
  <2>1. r.run_id \in 1 .. next_run_id - 1 BY RunsHere DEF RunOK
  <2> QED BY <2>1, SetFields
<1> QED BY <1>1, <1>2 DEF CountExact, Uniq

(* The catalog is well formed: links lead to older pages, pages hold       *)
(* between one and CatalogCap records, records name trees that were built. *)
THEOREM TypeCorrect == Spec => []TypeOK
BY Inductive, TypesHold, PTL

(* A scan that resolves a trigram through pg_tre_run_catalog_next, with no *)
(* lock between two pages, finds everything that was stored when it opened *)
(* the iterator and that no bulk delete removed, whatever is flushed,      *)
(* merged, promoted, collapsed or freed meanwhile.  It needs no bound on   *)
(* the runs: a run that a rewrite loses stays on the pages the scan walks. *)
THEOREM ScansComplete == Spec => []ScanComplete
BY Inductive, CompleteHolds, PTL

(* Pages handed to the free log by a rebuild, a Hanoi merge or a collapse  *)
(* belong to trees that neither the metapage nor a catalog run reaches,    *)
(* also where runs share the base root and across crashes.                 *)
THEOREM LoggedPagesUnreachable == Spec => []LoggedUnreachable
<1>1. IInv => LoggedUnreachable BY DEF IInv, StoreInv
<1> QED BY <1>1, Inductive, PTL

(* meta.n_runs is one more than the number of runs the iterator yields,    *)
(* and run_ids identify the runs: what the backstop of amvacuumcleanup     *)
(* goes by is right.                                                       *)
THEOREM CountsExact == Spec => []CountExact
BY Inductive, CountHolds, PTL

-----------------------------------------------------------------------------
(* The steps of one scan.                                                  *)
ScanStep(s) ==
    \/ \E h \in Trigrams : ScanOpen(s, h)
    \/ ScanBase(s) \/ ScanLoad(s) \/ ScanExhausted(s) \/ ScanRun(s) \/ ScanFollow(s) \/ ScanEnd(s)

(* They leave the store alone, as stuttering does.                         *)
LEMMA QuietSteps ==
    ASSUME (\E s \in Scanners : ScanStep(s)) \/ UNCHANGED vars
    PROVE  UNCHANGED <<metaVars, storeVars, pc, mergeVars, faults>>
BY DEF ScanStep, ScanOpen, ScanBase, ScanLoad, ScanExhausted, ScanRun, ScanFollow, ScanEnd, vars

(* The append of the promoted run adds it to the runs.                     *)
LEMMA PromotedFact ==
    ASSUME IInv, HanoiPromote
    PROVE  /\ Live' = Live \cup {PromotedRun'} /\ PromotedRun'.root = new_root
           /\ tree' = tree /\ root_upper' = root_upper /\ picked' = picked
           /\ Len(CatalogRuns') = Len(CatalogRuns) + 1
<1> DEFINE range == IF tree[new_root] = {} THEN <<MinHash, MaxHash>> ELSE RangeOf(AtLevel(picked, target))
           lo == range[1]
           hi == range[2]
           r == Run(next_run_id, target + 1, new_root, lo, hi)
<1>1. /\ UNCHANGED <<root_upper, max_levels, tree, logged, mergeVars, scanVars, faults>>
      /\ pc = "promote" /\ pc' = "rewrite" /\ AppendRun(target + 1, new_root, lo, hi)
  BY DEF HanoiPromote
<1>2. lo \in Trigrams /\ hi \in Trigrams BY <1>1, PromotedRange
<1> HIDE DEF range
<1> HIDE DEF lo, hi
<1>3. /\ lo \in Nat /\ hi \in Nat /\ target + 1 \in Nat /\ new_root \in Nat BY <1>2, ConstFacts, SetFields
<1>4. Appended(r) BY <1>1, <1>3, AppendFacts
<1>5. r.root = new_root BY DEF Run
<1> HIDE DEF r
<1>6. AppendedCat(r) /\ Live' = Live \cup {r} /\ Len(CatalogRuns') = Len(CatalogRuns) + 1 BY <1>4 DEF Appended
<1>7. run_catalog_head' = Len(cat') /\ LastRun(cat') = r BY <1>6 DEF AppendedCat
<1>8. PromotedRun' = r BY <1>7 DEF PromotedRun, LastRun
<1> QED BY <1>1, <1>5, <1>6, <1>8 DEF mergeVars

(* Nothing is read at the start.                                           *)
LEMMA FullInit == Init => FullInv
BY DEF Init, FullInv

(* While the runs fit on a page, a pass reads all of them.                 *)
LEMMA FullNext == IInv /\ FullInv /\ Fits /\ [Next]_vars => FullInv'
<1> SUFFICES ASSUME IInv, FullInv, Fits, [Next]_vars PROVE FullInv' OBVIOUS
<1>1. CASE (\E s \in Scanners : ScanStep(s)) \/ UNCHANGED vars
  <2>1. UNCHANGED <<metaVars, storeVars, pc, mergeVars>> BY <1>1, QuietSteps
  <2>2. /\ UNCHANGED <<metaVars, cat, tree>> /\ cat' = cat /\ run_catalog_head' = run_catalog_head
        /\ pc' = pc /\ picked' = picked
    BY <2>1 DEF metaVars, storeVars, mergeVars
  <2>3. Live' = Live BY <2>2, SameStore
  <2>4. PromotedRun' = PromotedRun BY <2>2 DEF PromotedRun
  <2> QED BY <2>2, <2>3, <2>4 DEF FullInv
<1>2. CASE HanoiPass
  <2> DEFINE read == PrefixOf(CatalogRuns, CatalogCap)
  <2>1. /\ UNCHANGED <<metaVars, cat, logged, scanVars, faults>> /\ PassNext(read, OverFull(read))
    BY <1>2, PassFacts
  <2>2. picked' = read /\ pc' = "promote" BY <2>1 DEF PassNext
  <2>3. Live' = Live BY <2>1 DEF metaVars, Live, CatalogRuns
  <2>4. Len(CatalogRuns) <= CatalogCap BY <1>2 DEF Fits, HanoiPass
  <2>5. read = CatalogRuns
    <3>1. CatalogRuns \in Seq(RunRec) /\ CatalogCap \in Nat BY RunsHere, ConstFacts
    <3> QED BY <2>4, <3>1, PrefixFacts
  <2> QED BY <2>2, <2>3, <2>5 DEF FullInv, Live
<1>3. CASE HanoiPromote
  <2>1. pc = "promote" /\ pc' = "rewrite" BY <1>3 DEF HanoiPromote
  <2>2. Live = Elems(picked) BY <2>1 DEF FullInv
  <2>3. Live' = Live \cup {PromotedRun'} /\ picked' = picked BY <1>3, PromotedFact
  <2> QED BY <2>1, <2>2, <2>3 DEF FullInv
<1>4. ASSUME pc' \notin {"promote", "rewrite"} PROVE FullInv' BY <1>4 DEF FullInv
<1>5. ASSUME \/ \E E \in Batches : FlushRun(E) \/ RebuildBase(E)
             \/ FreeOldBase \/ \E d \in Tids : BulkDelete(d)
             \/ VacuumCleanup \/ HanoiRewrite \/ HanoiLog \/ HanoiDone
             \/ CollapseSkipped \/ CollapseFold \/ CollapseReset \/ CollapseLog \/ Crash
      PROVE  pc' \notin {"promote", "rewrite"}
  BY <1>5 DEF FlushRun, RebuildBase, FreeOldBase, BulkDelete, VacuumCleanup, HanoiRewrite, HanoiLog,
     HanoiDone, CollapseSkipped, CollapseFold, CollapseReset, CollapseLog, Crash
<1> QED BY <1>1, <1>2, <1>3, <1>4, <1>5 DEF Next, ScanStep

(* The same along a behaviour.                                             *)
LEMMA FullHolds == Spec /\ []Fits => []FullInv
<1>1. Spec => []IInv BY Inductive
<1> QED BY <1>1, FullInit, FullNext, PTL DEF Spec

-----------------------------------------------------------------------------
(* Every tree is reached, logged, or in the hands of the writer.           *)
Accounted ==
    \A x \in 1 .. Len(tree) : x \in LiveRoots \/ x \in logged \/ x \in dropped \/ x = new_root

(* The root of a folded run will be freed, or is the base, or is shared    *)
(* with a run that stays.                                                  *)
FoldHeld ==
    pc \in {"promote", "rewrite"} =>
        \A r \in Elems(picked) : r.level = target =>
            \/ r.root \in dropped \/ r.root = root_upper
            \/ \E q \in Elems(picked) : q.level # target /\ q.root = r.root

(* What the writer holds between two operations, and once it has switched  *)
(* the catalog.                                                            *)
LocalsHeld ==
    /\ pc \in {"idle", "hanoi", "backstop"} => dropped = {}
    /\ pc \in {"idle", "hanoi", "backstop", "free"} => new_root = Invalid
    /\ pc = "reset" => LiveRoots \subseteq dropped
    /\ pc \in {"hanoi_log", "collapse_log"} => new_root \in LiveRoots

(* All of it, as long as there was no crash.                               *)
HeldInv == faults = 0 => Accounted /\ FoldHeld /\ LocalsHeld

(* The first tree is the base.                                             *)
LEMMA HeldInit == Init => HeldInv
<1> SUFFICES ASSUME Init PROVE HeldInv OBVIOUS
<1>1. root_upper = 1 /\ tree = <<InitBase>> /\ pc = "idle" /\ dropped = {} /\ new_root = Invalid
  BY DEF Init
<1>2. Len(tree) = 1 BY <1>1
<1>3. Accounted BY <1>1, <1>2 DEF Accounted, LiveRoots
<1>4. FoldHeld /\ LocalsHeld BY <1>1 DEF FoldHeld, LocalsHeld
<1> QED BY <1>3, <1>4 DEF HeldInv

(* A step that leaves metapage and catalog alone leaves the live roots.    *)
LEMMA SameRoots ==
    ASSUME root_upper' = root_upper, cat' = cat, run_catalog_head' = run_catalog_head
    PROVE  Live' = Live /\ LiveRoots' = LiveRoots
<1>1. Live' = Live BY DEF Live, CatalogRuns
<1> QED BY <1>1 DEF LiveRoots

(* Flush and rebuild.                                                      *)
LEMMA HeldMerge ==
    ASSUME IInv, faults = 0, Accounted, LocalsHeld, NEW E \in Batches, FlushRun(E) \/ RebuildBase(E)
    PROVE  Accounted' /\ FoldHeld' /\ LocalsHeld'
<1>0. E \in SUBSET Entry /\ Len(tree) \in Nat BY ConstFacts, SetFields
<1>1. CASE FlushRun(E)
  <2> DEFINE lo == Least(Hashes(E))
             hi == Greatest(Hashes(E))
             rt == Len(tree) + 1
             r == Run(next_run_id, 1, rt, lo, hi)
  <2>1. /\ root_upper' = root_upper /\ E # {} /\ tree' = Append(tree, E) /\ AppendRun(1, rt, lo, hi)
        /\ logged' = logged /\ pc = "idle" /\ pc' = pc /\ dropped' = dropped /\ new_root' = new_root
    BY <1>1 DEF FlushRun, mergeVars
  <2>2. lo \in Nat /\ hi \in Nat /\ rt \in Nat /\ 1 \in Nat BY SMTT(30), <1>0, <2>1, HashRange
  <2>3. Appended(r) BY <2>1, <2>2, AppendFacts
  <2>4. r.root = rt BY DEF Run
  <2> HIDE DEF r
  <2>5. Live' = Live \cup {r} BY <2>3 DEF Appended
  <2>6. LiveRoots' = LiveRoots \cup {rt} BY <2>1, <2>4, <2>5 DEF LiveRoots
  <2>7. Len(tree') = Len(tree) + 1 BY <1>0, <2>1, TreeAppend DEF TreeAdded
  <2>8. \A x \in 1 .. Len(tree') : x \in 1 .. Len(tree) \/ x = rt BY <1>0, <2>7
  <2>9. Accounted' BY <2>1, <2>6, <2>8 DEF Accounted
  <2> QED BY <2>1, <2>9 DEF FoldHeld, LocalsHeld
<1>2. CASE RebuildBase(E)
  <2> DEFINE B == BaseEntries \cup E
  <2>1. /\ pc = "idle" /\ pc' = "free" /\ tree' = Append(tree, B) /\ root_upper' = Len(tree) + 1
        /\ cat' = cat /\ run_catalog_head' = run_catalog_head /\ logged' = logged /\ new_root' = new_root
        /\ dropped' = IF \E r \in Live : r.root = root_upper THEN {} ELSE {root_upper}
    BY <1>2 DEF RebuildBase
  <2>2. B \in SUBSET Entry BY <1>0, TreeTypes
  <2>3. Len(tree') = Len(tree) + 1 BY <2>1, <2>2, TreeAppend DEF TreeAdded
  <2>4. \A x \in 1 .. Len(tree') : x \in 1 .. Len(tree) \/ x = Len(tree) + 1 BY <1>0, <2>3
  <2>5. Live' = Live BY <2>1 DEF Live, CatalogRuns
  <2>6. dropped = {} /\ new_root = Invalid BY <2>1 DEF LocalsHeld
  <2>7. \A x \in LiveRoots : x \in LiveRoots' \/ x \in dropped' BY <2>1, <2>5 DEF LiveRoots
  <2>8. Len(tree) + 1 \in LiveRoots' BY <2>1 DEF LiveRoots
  <2>9. Accounted' BY <2>1, <2>4, <2>6, <2>7, <2>8 DEF Accounted
  <2> QED BY <2>1, <2>6, <2>9 DEF FoldHeld, LocalsHeld
<1> QED BY <1>1, <1>2

(* The three steps of a pass of the Hanoi merge.                           *)
LEMMA HeldPass ==
    ASSUME IInv, faults = 0, Accounted, LocalsHeld, HanoiPass
    PROVE  Accounted' /\ FoldHeld' /\ LocalsHeld'
<1> DEFINE lv == OverFull(PrefixOf(CatalogRuns, CatalogCap))
<1>1. PICK read : read = PrefixOf(CatalogRuns, CatalogCap) OBVIOUS
<1>2. /\ read \in Seq(RunRec) /\ UNCHANGED <<metaVars, cat, logged, scanVars, faults>>
      /\ \E F \in SUBSET Entry : tree' = Append(tree, F)
  BY <1>1, PassFacts
<1>3. /\ pc = "hanoi" /\ pc' = "promote" /\ picked' = read /\ target' = lv /\ new_root' = Len(tree) + 1
      /\ dropped' = {r.root : r \in {f \in Elems(AtLevel(read, lv)) : ~RootIsShared(f.root, read, lv)}}
  BY <1>1 DEF HanoiPass
<1> HIDE DEF lv
<1>4. Elems(AtLevel(read, lv)) = {r \in Elems(read) : r.level = lv} BY <1>2, LevelFacts
<1>5. /\ root_upper' = root_upper /\ cat' = cat /\ run_catalog_head' = run_catalog_head /\ logged' = logged
  BY <1>2 DEF metaVars
<1>6. LiveRoots' = LiveRoots BY <1>5, SameRoots
<1>7. dropped = {} /\ new_root = Invalid BY <1>3 DEF LocalsHeld
<1>8. PICK F \in SUBSET Entry : tree' = Append(tree, F) BY <1>2
<1>9. Len(tree') = Len(tree) + 1 /\ Len(tree) \in Nat BY <1>8, TreeAppend DEF TreeAdded
<1>10. \A x \in 1 .. Len(tree') : x \in 1 .. Len(tree) \/ x = Len(tree) + 1 BY <1>9
<1>11. \A x \in 1 .. Len(tree) : x # 0 BY <1>9
<1>12. Accounted' BY <1>3, <1>5, <1>6, <1>7, <1>10, <1>11 DEF Accounted, Invalid
<1>13. FoldHeld'
  <2> SUFFICES ASSUME NEW r \in Elems(read), r.level = lv
               PROVE  \/ r.root \in dropped' \/ r.root = root_upper
                      \/ \E q \in Elems(read) : q.level # lv /\ q.root = r.root
    BY <1>3, <1>5 DEF FoldHeld
  <2>1. CASE RootIsShared(r.root, read, lv) BY <2>1 DEF RootIsShared
  <2>2. CASE ~RootIsShared(r.root, read, lv) BY <1>3, <1>4, <2>2
  <2> QED BY <2>1, <2>2
<1> QED BY <1>3, <1>12, <1>13 DEF LocalsHeld

(* The promoted run makes the new tree reachable.                          *)
LEMMA HeldPromote ==
    ASSUME IInv, faults = 0, Accounted, FoldHeld, HanoiPromote
    PROVE  Accounted' /\ FoldHeld' /\ LocalsHeld'
<1>1. /\ pc = "promote" /\ pc' = "rewrite" /\ logged' = logged /\ dropped' = dropped
      /\ new_root' = new_root /\ target' = target
  BY DEF HanoiPromote, mergeVars
<1>2. /\ Live' = Live \cup {PromotedRun'} /\ PromotedRun'.root = new_root
      /\ tree' = tree /\ root_upper' = root_upper /\ picked' = picked
  BY PromotedFact
<1>3. LiveRoots' = LiveRoots \cup {new_root} BY <1>2 DEF LiveRoots
<1>4. Accounted' BY <1>1, <1>2, <1>3 DEF Accounted
<1>5. FoldHeld' BY <1>1, <1>2 DEF FoldHeld
<1> QED BY <1>1, <1>4, <1>5 DEF LocalsHeld

(* The rewrite drops what the writer is going to log.                      *)
LEMMA HeldRewrite ==
    ASSUME IInv, FullInv, faults = 0, Accounted, FoldHeld, HanoiRewrite
    PROVE  Accounted' /\ FoldHeld' /\ LocalsHeld'
<1>1. /\ pc = "rewrite" /\ pc' = "hanoi_log" /\ tree' = tree /\ logged' = logged
      /\ root_upper' = root_upper /\ dropped' = dropped /\ new_root' = new_root
  BY DEF HanoiRewrite, mergeVars
<1>2. CatalogRuns' = Rewritten BY RewriteCat
<1>3. /\ Elems(Rewritten) = {r \in Elems(picked) : r.level # target} \cup {PromotedRun}
      /\ PromotedRun.root = new_root
  BY <1>1, RewrittenFacts
<1>4. Live = Elems(picked) \cup {PromotedRun} BY <1>1 DEF FullInv
<1>5. Live' = {r \in Elems(picked) : r.level # target} \cup {PromotedRun} BY <1>2, <1>3 DEF Live
<1>6. new_root \in LiveRoots' /\ root_upper \in LiveRoots' BY <1>1, <1>3, <1>5 DEF LiveRoots
<1>7. \A q \in Elems(picked) : q.level # target => q.root \in LiveRoots' BY <1>5 DEF LiveRoots
<1>8. \A r \in Elems(picked) : r.root \in LiveRoots' \/ r.root \in dropped
  BY <1>1, <1>6, <1>7 DEF FoldHeld
<1>9. \A x \in LiveRoots : x \in LiveRoots' \/ x \in dropped BY <1>3, <1>4, <1>6, <1>8 DEF LiveRoots
<1>10. Accounted' BY <1>1, <1>9 DEF Accounted
<1> QED BY <1>1, <1>6, <1>10 DEF FoldHeld, LocalsHeld

(* The collapse.                                                           *)
LEMMA HeldCollapse ==
    ASSUME IInv, faults = 0, Accounted, LocalsHeld, CollapseFold \/ CollapseReset
    PROVE  Accounted' /\ FoldHeld' /\ LocalsHeld'
<1>1. CASE CollapseFold
  <2>1. /\ pc = "backstop" /\ pc' = "reset" /\ tree' = Append(tree, Stored) /\ new_root' = Len(tree) + 1
        /\ dropped' = LiveRoots /\ root_upper' = root_upper /\ cat' = cat
        /\ run_catalog_head' = run_catalog_head /\ logged' = logged
    BY <1>1 DEF CollapseFold, metaVars
  <2>2. Len(tree') = Len(tree) + 1 /\ Len(tree) \in Nat BY <2>1, TreeTypes, TreeAppend DEF TreeAdded
  <2>3. \A x \in 1 .. Len(tree') : x \in 1 .. Len(tree) \/ x = Len(tree) + 1 BY <2>2
  <2>4. \A x \in 1 .. Len(tree) : x # 0 BY <2>2
  <2>5. LiveRoots' = LiveRoots BY <2>1, SameRoots
  <2>6. dropped = {} /\ new_root = 0 BY <2>1 DEF LocalsHeld, Invalid
  <2>7. Accounted' BY <2>1, <2>3, <2>4, <2>5, <2>6 DEF Accounted
  <2> QED BY <2>1, <2>5, <2>7 DEF FoldHeld, LocalsHeld
<1>2. CASE CollapseReset
  <2>1. /\ pc = "reset" /\ pc' = "collapse_log" /\ root_upper' = new_root /\ tree' = tree
        /\ logged' = logged /\ dropped' = dropped /\ new_root' = new_root
    BY <1>2 DEF CollapseReset, storeVars, mergeVars
  <2>2. LiveRoots \subseteq dropped BY <2>1 DEF LocalsHeld
  <2>3. new_root \in LiveRoots' BY <2>1 DEF LiveRoots
  <2>4. Accounted' BY <2>1, <2>2, <2>3 DEF Accounted
  <2> QED BY <2>1, <2>3, <2>4 DEF FoldHeld, LocalsHeld
<1> QED BY <1>1, <1>2

(* The steps that log what was dropped.                                    *)
LEMMA HeldLog ==
    ASSUME IInv, faults = 0, Accounted, LocalsHeld, FreeOldBase \/ HanoiLog \/ CollapseLog
    PROVE  Accounted' /\ FoldHeld' /\ LocalsHeld'
<1>1. /\ tree' = tree /\ root_upper' = root_upper /\ cat' = cat /\ run_catalog_head' = run_catalog_head
      /\ logged' = logged \cup dropped /\ dropped' = {}
      /\ \/ pc = "free" /\ pc' = "idle" /\ new_root' = new_root
         \/ pc \in {"hanoi_log", "collapse_log"} /\ pc' \in {"hanoi", "idle"} /\ new_root' = Invalid
  BY DEF FreeOldBase, HanoiLog, CollapseLog, metaVars
<1>2. LiveRoots' = LiveRoots BY <1>1, SameRoots
<1>3. Accounted' BY <1>1, <1>2 DEF Accounted, LocalsHeld
<1> QED BY <1>1, <1>3 DEF FoldHeld, LocalsHeld

(* The steps that move no tree.                                            *)
LEMMA HeldQuiet ==
    ASSUME IInv, faults = 0, Accounted, FoldHeld, LocalsHeld,
           \/ \E s \in Scanners : ScanStep(s)
           \/ \E d \in Tids : BulkDelete(d)
           \/ VacuumCleanup \/ HanoiDone \/ CollapseSkipped \/ UNCHANGED vars
    PROVE  Accounted' /\ FoldHeld' /\ LocalsHeld'
<1>1. /\ root_upper' = root_upper /\ cat' = cat /\ run_catalog_head' = run_catalog_head
      /\ logged' = logged /\ UNCHANGED mergeVars
      /\ \/ pc' = pc
         \/ pc \in {"idle", "hanoi", "backstop"} /\ pc' \in {"idle", "hanoi", "backstop"}
  <2>1. CASE (\E s \in Scanners : ScanStep(s)) \/ UNCHANGED vars
    BY <2>1, QuietSteps DEF metaVars, storeVars
  <2>2. CASE \/ \E d \in Tids : BulkDelete(d)
             \/ VacuumCleanup \/ HanoiDone \/ CollapseSkipped
    BY <2>2 DEF BulkDelete, VacuumCleanup, HanoiDone, CollapseSkipped, metaVars, storeVars
  <2> QED BY <2>1, <2>2
<1>2. Len(tree') = Len(tree)
  <2>1. CASE \E d \in Tids : BulkDelete(d)
    <3>1. DOMAIN tree' = DOMAIN tree BY <2>1 DEF BulkDelete
    <3>2. DOMAIN tree = 1 .. Len(tree) /\ Len(tree) \in Nat BY SetFields, LenProperties
    <3>3. tree' \in Seq(SUBSET Entry) BY <2>1, IInvNext DEF Next, IInv, StoreInv, TypeMeta
    <3>4. DOMAIN tree' = 1 .. Len(tree') /\ Len(tree') \in Nat BY <3>3, LenProperties
    <3> QED BY <3>1, <3>2, <3>4
  <2>2. CASE (\E s \in Scanners : ScanStep(s)) \/ UNCHANGED vars
    BY <2>2, QuietSteps DEF storeVars
  <2>3. CASE VacuumCleanup \/ HanoiDone \/ CollapseSkipped
    BY <2>3 DEF VacuumCleanup, HanoiDone, CollapseSkipped, storeVars
  <2> QED BY <2>1, <2>2, <2>3
<1>3. LiveRoots' = LiveRoots BY <1>1, SameRoots
<1>4. picked' = picked /\ target' = target /\ new_root' = new_root /\ dropped' = dropped
  BY <1>1 DEF mergeVars
<1>5. Accounted' BY <1>1, <1>2, <1>3, <1>4 DEF Accounted
<1>6. FoldHeld' BY <1>1, <1>4 DEF FoldHeld
<1>7. LocalsHeld' BY <1>1, <1>3, <1>4 DEF LocalsHeld
<1> QED BY <1>5, <1>6, <1>7

(* Every step keeps it.                                                    *)
LEMMA HeldNext == IInv /\ FullInv /\ HeldInv /\ [Next]_vars => HeldInv'
<1> SUFFICES ASSUME IInv, FullInv, HeldInv, [Next]_vars, faults' = 0
             PROVE  Accounted' /\ FoldHeld' /\ LocalsHeld'
  BY DEF HeldInv
<1>1. faults = 0 /\ ~Crash
  <2>1. faults \in 0 .. MaxFaults /\ MaxFaults \in Nat BY SetFields, CatalogAssumption
  <2>2. ASSUME Crash PROVE FALSE BY <2>1, <2>2 DEF Crash
  <2>3. ASSUME ~Crash PROVE faults' = faults
    <3>1. CASE (\E s \in Scanners : ScanStep(s)) \/ UNCHANGED vars BY <3>1, QuietSteps
    <3>2. CASE Next /\ ~(\E s \in Scanners : ScanStep(s))
      BY <2>3, <3>2 DEF Next, ScanStep, FlushRun, RebuildBase, FreeOldBase, BulkDelete, VacuumCleanup,
         HanoiPass, HanoiPromote, HanoiRewrite, HanoiLog, HanoiDone, CollapseSkipped, CollapseFold,
         CollapseReset, CollapseLog
    <3> QED BY <3>1, <3>2
  <2> QED BY <2>2, <2>3
<1>2. Accounted /\ FoldHeld /\ LocalsHeld BY <1>1 DEF HeldInv
<1>3. ASSUME NEW E \in Batches, FlushRun(E) \/ RebuildBase(E) PROVE Accounted' /\ FoldHeld' /\ LocalsHeld'
  BY <1>1, <1>2, <1>3, HeldMerge
<1>4. CASE HanoiPass BY <1>1, <1>2, <1>4, HeldPass
<1>5. CASE HanoiPromote BY <1>1, <1>2, <1>5, HeldPromote
<1>6. CASE HanoiRewrite BY <1>1, <1>2, <1>6, HeldRewrite
<1>7. CASE CollapseFold \/ CollapseReset BY <1>1, <1>2, <1>7, HeldCollapse
<1>8. CASE FreeOldBase \/ HanoiLog \/ CollapseLog BY <1>1, <1>2, <1>8, HeldLog
<1>9. CASE \/ \E s \in Scanners : ScanStep(s)
           \/ \E d \in Tids : BulkDelete(d)
           \/ VacuumCleanup \/ HanoiDone \/ CollapseSkipped \/ UNCHANGED vars
  BY <1>1, <1>2, <1>9, HeldQuiet
<1> QED BY <1>1, <1>3, <1>4, <1>5, <1>6, <1>7, <1>8, <1>9 DEF Next, ScanStep

(* While the runs fit on one page and until a crash, every tree that       *)
(* flushes, rebuilds, the Hanoi merge and the collapse ever built is       *)
(* reached, logged for reuse, or in the hands of the merge lock's holder.  *)
THEOREM TreesAccounted == Spec /\ []Fits => []NoTreeForgotten
<1>1. IInv /\ HeldInv => NoTreeForgotten
  <2> SUFFICES ASSUME IInv, HeldInv, faults = 0
               PROVE  DOMAIN tree \subseteq LiveRoots \cup logged \cup dropped \cup {new_root}
    BY DEF NoTreeForgotten
  <2>1. DOMAIN tree = 1 .. Len(tree) BY SetFields, LenProperties
  <2> QED BY <2>1 DEF HeldInv, Accounted
<1>2. Spec => []IInv BY Inductive
<1>3. Spec /\ []Fits => []FullInv BY FullHolds
<1> QED BY <1>1, <1>2, <1>3, HeldInit, HeldNext, PTL DEF Spec

-----------------------------------------------------------------------------
(* The number of runs: those a flush may leave, and one for each crash     *)
(* that came between an append and its rewrite.                            *)
LenInv(N) ==
    /\ Len(CatalogRuns) <= N + faults + (IF pc = "rewrite" THEN 1 ELSE 0)
    /\ pc \in {"promote", "rewrite"} => Len(picked) <= N + faults

(* It holds at the start.                                                  *)
LEMMA LenInit == ASSUME NEW N \in Nat, Aliases <= N PROVE Init => LenInv(N)
<1> SUFFICES ASSUME Init PROVE LenInv(N) OBVIOUS
<1>1. IInv BY IInvInit
<1>2. pc = "idle" /\ faults = 0 /\ n_runs = IF Aliases = 0 THEN 0 ELSE Aliases + 1 BY DEF Init
<1>3. RunCount = Len(CatalogRuns) + 1 BY <1>1 DEF IInv, StoreInv, CountInv
<1>4. Aliases \in Nat BY CatalogAssumption
<1>5. RunCount = Aliases + 1 BY <1>2, <1>4 DEF RunCount
<1>6. Len(CatalogRuns) = Aliases
  <2>1. Len(CatalogRuns) \in Nat BY <1>1, RunsHere
  <2> QED BY <1>3, <1>4, <1>5, <2>1
<1> QED BY <1>2, <1>4, <1>6 DEF LenInv

(* Every step keeps it.                                                    *)
LEMMA LenNext ==
    ASSUME NEW N \in Nat, MaxRuns <= N
    PROVE  IInv /\ LenInv(N) /\ [Next]_vars => LenInv(N)'
<1> SUFFICES ASSUME IInv, LenInv(N), [Next]_vars PROVE LenInv(N)' OBVIOUS
<1> DEFINE len == Len(CatalogRuns)
<1>0. len \in Nat /\ faults \in Nat /\ MaxRuns \in Nat /\ Len(picked) \in Nat
  BY RunsHere, SetFields, CatalogAssumption
<1>1. /\ len <= N + faults + 1 /\ (pc # "rewrite" => len <= N + faults)
      /\ pc \in {"promote", "rewrite"} => Len(picked) <= N + faults
  <2>1. len <= N + faults + (IF pc = "rewrite" THEN 1 ELSE 0) BY DEF LenInv
  <2>2. len <= N + faults + 1 /\ (pc # "rewrite" => len <= N + faults)
    <3> HIDE DEF len
    <3>1. CASE pc = "rewrite" BY <1>0, <2>1, <3>1
    <3>2. CASE pc # "rewrite" BY <1>0, <2>1, <3>2
    <3> QED BY <3>1, <3>2
  <2> QED BY <2>2 DEF LenInv
<1>2. ASSUME pc' \notin {"promote", "rewrite"}, len' \in Nat, faults' \in Nat, len' <= N + faults' PROVE LenInv(N)'
  <2>1. LenInv(N)' <=> /\ len' <= N + faults' + (IF pc' = "rewrite" THEN 1 ELSE 0)
                       /\ pc' \in {"promote", "rewrite"} => Len(picked') <= N + faults'
    BY DEF LenInv
  <2>2. N + faults' + 0 = N + faults' BY <1>2
  <2> QED BY <1>2, <2>1, <2>2
<1>3. CASE (\E s \in Scanners : ScanStep(s)) \/ UNCHANGED vars
  <2>1. UNCHANGED <<metaVars, storeVars, pc, mergeVars, faults>> BY <1>3, QuietSteps
  <2>2. UNCHANGED <<metaVars, cat, tree>> /\ pc' = pc /\ picked' = picked /\ faults' = faults
    BY <2>1 DEF metaVars, storeVars, mergeVars
  <2>3. CatalogRuns' = CatalogRuns BY <2>2, SameStore
  <2> QED BY <2>2, <2>3 DEF LenInv
<1>4. ASSUME NEW E \in Batches, FlushRun(E) PROVE LenInv(N)'
  <2> DEFINE lo == Least(Hashes(E))
             hi == Greatest(Hashes(E))
             rt == Len(tree) + 1
  <2>1. /\ pc' = "idle" /\ faults' = faults /\ len < MaxRuns /\ E # {} /\ AppendRun(1, rt, lo, hi)
    BY <1>4 DEF FlushRun
  <2>2. E \in SUBSET Entry BY ConstFacts
  <2>3. lo \in Nat /\ hi \in Nat /\ rt \in Nat /\ 1 \in Nat BY SMTT(30), <2>1, <2>2, HashRange, SetFields
  <2> HIDE DEF lo, hi, rt
  <2>4. len' = len + 1 BY <2>1, <2>3, AppendFacts DEF Appended
  <2> HIDE DEF len
  <2>5. len' \in Nat /\ len' <= N + faults BY <1>0, <2>1, <2>4
  <2> QED BY <1>0, <1>2, <2>1, <2>5 DEF len
<1>5. CASE HanoiPass
  <2> DEFINE read == PrefixOf(CatalogRuns, CatalogCap)
  <2>1. /\ UNCHANGED <<metaVars, cat, logged, scanVars, faults>> /\ PassNext(read, OverFull(read))
    BY <1>5, PassFacts
  <2>2. picked' = read /\ pc' = "promote" /\ faults' = faults BY <2>1 DEF PassNext
  <2>3. CatalogRuns' = CatalogRuns BY <2>1 DEF metaVars, CatalogRuns
  <2>4. Len(read) <= len
    <3>1. CatalogRuns \in Seq(RunRec) /\ CatalogCap \in Nat BY RunsHere, ConstFacts
    <3> QED BY <3>1, PrefixFacts
  <2>5. Len(read) \in Nat
    <3>1. read \in Seq(RunRec) BY <1>5, PassFacts
    <3> QED BY <3>1, LenProperties
  <2>6. pc # "rewrite" BY <1>5 DEF HanoiPass
  <2>7. len <= N + faults BY <1>1, <2>6
  <2> DEFINE a == Len(read)
  <2>8. a \in Nat /\ a <= len BY <2>4, <2>5
  <2> HIDE DEF len, a
  <2>9. a <= N + faults /\ len <= N + faults + 0 BY <1>0, <2>7, <2>8
  <2>10. LenInv(N)' <=> /\ len' <= N + faults' + (IF pc' = "rewrite" THEN 1 ELSE 0)
                        /\ pc' \in {"promote", "rewrite"} => Len(picked') <= N + faults'
    BY DEF LenInv, len
  <2>11. len' = len /\ Len(picked') = a BY <2>2, <2>3 DEF len, a
  <2> QED BY <2>2, <2>9, <2>10, <2>11
<1>6. CASE HanoiPromote
  <2>1. pc = "promote" /\ pc' = "rewrite" /\ faults' = faults BY <1>6 DEF HanoiPromote
  <2>2. len' = len + 1 /\ picked' = picked BY <1>6, PromotedFact
  <2>3. LenInv(N)' <=> /\ len' <= N + faults' + (IF pc' = "rewrite" THEN 1 ELSE 0)
                       /\ pc' \in {"promote", "rewrite"} => Len(picked') <= N + faults'
    BY DEF LenInv
  <2>4. len <= N + faults /\ Len(picked) <= N + faults BY <1>1, <2>1
  <2> HIDE DEF len
  <2>5. len + 1 <= N + faults + 1 BY <1>0, <2>4
  <2> QED BY <2>1, <2>2, <2>3, <2>4, <2>5
<1>7. CASE HanoiRewrite
  <2>1. pc = "rewrite" /\ pc' = "hanoi_log" /\ faults' = faults BY <1>7 DEF HanoiRewrite
  <2>2. CatalogRuns' = Rewritten BY <1>7, RewriteCat
  <2> DEFINE t == NotAtLevel(picked, target)
  <2>3. Len(Rewritten) = Len(t) + 1 /\ Len(t) \in Nat /\ Len(t) < Len(picked)
    <3>1. picked \in Seq(RunRec) BY SetFields
    <3>2. \E r \in Elems(picked) : r.level = target BY <2>1 DEF IInv, StoreInv, FoldInv, Elems
    <3>3. t \in Seq(RunRec) /\ Len(t) \in Nat /\ Len(t) < Len(picked) BY <3>1, <3>2, LevelFacts
    <3>4. Rewritten = Append(t, PromotedRun) BY DEF Rewritten
    <3> HIDE DEF t
    <3>5. Len(Rewritten) = Len(t) + 1 BY <3>3, <3>4
    <3> QED BY <3>3, <3>5
  <2>4. Len(picked) <= N + faults BY <1>1, <2>1
  <2> DEFINE a == Len(t)
             b == Len(picked)
  <2>5. len' = a + 1 /\ a \in Nat /\ b \in Nat /\ a < b /\ b <= N + faults BY <1>0, <2>2, <2>3, <2>4
  <2> HIDE DEF a, b, len
  <2>6. len' \in Nat /\ len' <= N + faults BY <1>0, <2>5
  <2> QED BY <1>0, <1>2, <2>1, <2>6 DEF len
<1>8. CASE CollapseReset
  <2>1. pc' = "collapse_log" /\ faults' = faults /\ cat' = cat /\ run_catalog_head' = 0
    BY <1>8 DEF CollapseReset, storeVars, Invalid
  <2>2. RunsFrom(cat)[0] = <<>> BY RunsHere, RunsDef
  <2>3. CatalogRuns' = <<>> BY <2>1, <2>2 DEF CatalogRuns
  <2>4. len' = 0 BY <2>3
  <2> HIDE DEF len
  <2>5. len' \in Nat /\ len' <= N + faults BY <1>0, <2>4
  <2> QED BY <1>0, <1>2, <2>1, <2>5 DEF len
<1>9. CASE Crash
  <2>1. pc' = "idle" /\ faults' = faults + 1 /\ CatalogRuns' = CatalogRuns
    BY <1>9 DEF Crash, metaVars, storeVars, CatalogRuns
  <2>2. len' = len BY <2>1
  <2> HIDE DEF len
  <2>3. len' \in Nat /\ faults' \in Nat /\ len' <= N + faults' BY <1>0, <1>1, <2>1, <2>2
  <2> QED BY <1>2, <2>1, <2>3 DEF len
<1>10. CASE \/ \E E \in Batches : RebuildBase(E)
            \/ FreeOldBase \/ \E d \in Tids : BulkDelete(d)
            \/ VacuumCleanup \/ HanoiLog \/ HanoiDone
            \/ CollapseSkipped \/ CollapseFold \/ CollapseLog
  <2>1. /\ pc # "rewrite" /\ pc' \notin {"promote", "rewrite"} /\ faults' = faults
        /\ cat' = cat /\ run_catalog_head' = run_catalog_head
    BY <1>10 DEF RebuildBase, FreeOldBase, BulkDelete, VacuumCleanup, HanoiLog,
       HanoiDone, CollapseSkipped, CollapseFold, CollapseLog, metaVars, storeVars
  <2>2. len' = len BY <2>1 DEF CatalogRuns
  <2>3. len <= N + faults BY <1>1, <2>1
  <2> QED BY <1>0, <1>2, <2>1, <2>2, <2>3
<1> QED BY <1>3, <1>4, <1>5, <1>6, <1>7, <1>8, <1>9, <1>10 DEF Next, ScanStep

(* The hypothesis Fits follows from the bounds of a model: the runs fit on *)
(* a page if the runs a flush or the debug function leaves do, with one to *)
(* spare for each crash.                                                   *)
THEOREM CatalogFits ==
    ASSUME NEW N \in Nat, MaxRuns <= N, Aliases <= N, N + MaxFaults <= CatalogCap
    PROVE  Spec => []Fits
<1>1. IInv /\ LenInv(N) => Fits
  <2> SUFFICES ASSUME IInv, LenInv(N), pc = "hanoi" PROVE Len(CatalogRuns) <= CatalogCap BY DEF Fits
  <2> DEFINE len == Len(CatalogRuns)
  <2>1. len \in Nat /\ faults \in 0 .. MaxFaults /\ MaxFaults \in Nat /\ CatalogCap \in Nat
    BY RunsHere, SetFields, CatalogAssumption
  <2>2. len <= N + faults + 0 BY DEF LenInv
  <2> HIDE DEF len
  <2>3. len <= CatalogCap BY <2>1, <2>2
  <2> QED BY <2>3 DEF len
<1>2. Init => LenInv(N) BY LenInit
<1>3. IInv /\ LenInv(N) /\ [Next]_vars => LenInv(N)' BY LenNext
<1> QED BY <1>1, <1>2, <1>3, Inductive, PTL DEF Spec

-----------------------------------------------------------------------------
(* Trees that stay the same hold the same.                                 *)
LEMMA TreesSame ==
    ASSUME IInv, \A r \in 1 .. Len(tree) : tree'[r] = tree[r]
    PROVE  /\ root_upper' = root_upper => BaseEntries' = BaseEntries
           /\ Live' = Live => RunEntries' = RunEntries
           /\ \A r \in Live : tree'[r.root] = tree[r.root]
<1>1. \A r \in Live : r.root \in 1 .. Len(tree) BY RunsHere DEF RunOK
<1>2. \A r \in Live : tree'[r.root] = tree[r.root] BY <1>1
<1>3. Live' = Live => RunEntries' = RunEntries BY <1>2 DEF RunEntries
<1>4. root_upper' = root_upper => BaseEntries' = BaseEntries BY SetFields DEF BaseEntries
<1> QED BY <1>2, <1>3, <1>4

(* A step RunStore does not see.                                           *)
Same == BaseEntries' = BaseEntries /\ RunEntries' = RunEntries

(* A flush adds to the runs.                                               *)
LEMMA FlushRefines ==
    ASSUME IInv, NEW E \in Batches, FlushRun(E)
    PROVE  Store!Next
<1> DEFINE lo == Least(Hashes(E))
           hi == Greatest(Hashes(E))
           rt == Len(tree) + 1
           r == Run(next_run_id, 1, rt, lo, hi)
<1>1. /\ root_upper' = root_upper /\ E # {} /\ tree' = Append(tree, E) /\ AppendRun(1, rt, lo, hi)
  BY DEF FlushRun
<1>2. E \in SUBSET Entry BY ConstFacts
<1>3. lo \in Nat /\ hi \in Nat /\ rt \in Nat /\ 1 \in Nat BY SMTT(30), <1>1, <1>2, HashRange, SetFields
<1>4. Appended(r) BY <1>1, <1>3, AppendFacts
<1>5. r.root = rt BY DEF Run
<1> HIDE DEF r
<1>6. Live' = Live \cup {r} BY <1>4 DEF Appended
<1>7. TreeAdded(E) BY <1>1, <1>2, TreeAppend
<1>8. tree'[rt] = E /\ \A q \in 1 .. Len(tree) : tree'[q] = tree[q] BY <1>7 DEF TreeAdded
<1>9. BaseEntries' = BaseEntries /\ \A q \in Live : tree'[q.root] = tree[q.root] BY <1>1, <1>8, TreesSame
<1>10. RunEntries' = RunEntries \cup E BY <1>5, <1>6, <1>8, <1>9 DEF RunEntries
<1>11. Store!Flush(E) BY <1>9, <1>10 DEF Store!Flush
<1> QED BY <1>11 DEF Store!Next

(* A rebuild adds to the base.                                             *)
LEMMA RebuildRefines ==
    ASSUME IInv, NEW E \in Batches, RebuildBase(E)
    PROVE  Store!Next
<1>1. /\ tree' = Append(tree, BaseEntries \cup E) /\ root_upper' = Len(tree) + 1
      /\ cat' = cat /\ run_catalog_head' = run_catalog_head
  BY DEF RebuildBase
<1>2. BaseEntries \cup E \in SUBSET Entry BY TreeTypes, ConstFacts
<1>3. TreeAdded(BaseEntries \cup E) BY <1>1, <1>2, TreeAppend
<1>4. BaseEntries' = BaseEntries \cup E BY <1>1, <1>3 DEF TreeAdded, BaseEntries
<1>5. Live' = Live BY <1>1 DEF Live, CatalogRuns
<1>6. RunEntries' = RunEntries BY <1>3, <1>5, TreesSame DEF TreeAdded
<1>7. Store!Rebuild(E) BY <1>4, <1>6 DEF Store!Rebuild
<1> QED BY <1>7 DEF Store!Next

(* A bulk delete strips base and runs.                                     *)
LEMMA StripRefines ==
    ASSUME IInv, NEW d \in Tids, BulkDelete(d)
    PROVE  Store!Next
<1>1. /\ tree' = [r \in DOMAIN tree |-> IF r \in LiveRoots THEN {e \in tree[r] : e[2] # d} ELSE tree[r]]
      /\ root_upper' = root_upper /\ cat' = cat /\ run_catalog_head' = run_catalog_head
  BY DEF BulkDelete, metaVars
<1>2. DOMAIN tree = 1 .. Len(tree) BY SetFields, LenProperties
<1>3. \A r \in LiveRoots : tree'[r] = {e \in tree[r] : e[2] # d} BY <1>1, <1>2, TreeTypes
<1>4. Live' = Live BY <1>1 DEF Live, CatalogRuns
<1>5. root_upper \in LiveRoots /\ \A r \in Live : r.root \in LiveRoots BY DEF LiveRoots
<1>6. BaseEntries' = {e \in BaseEntries : e[2] # d} BY <1>1, <1>3, <1>5 DEF BaseEntries
<1>7. RunEntries' = {e \in RunEntries : e[2] # d}
  <2>1. \A r \in Live : tree'[r.root] = {e \in tree[r.root] : e[2] # d} BY <1>3, <1>5
  <2>2. RunEntries' = UNION {tree'[r.root] : r \in Live} BY <1>4 DEF RunEntries
  <2> QED BY <2>1, <2>2 DEF RunEntries
<1>8. Store!Strip(d) BY <1>6, <1>7 DEF Store!Strip
<1> QED BY <1>8 DEF Store!Next

(* The switch of a collapse moves the runs into the base.                  *)
LEMMA ResetRefines ==
    ASSUME IInv, CollapseReset
    PROVE  Store!Next
<1>1. pc = "reset" /\ root_upper' = new_root /\ run_catalog_head' = 0 /\ cat' = cat /\ tree' = tree
  BY DEF CollapseReset, storeVars, Invalid
<1>2. tree[new_root] = Stored BY <1>1 DEF IInv, StoreInv, CollapseInv
<1>3. BaseEntries' = BaseEntries \cup RunEntries BY <1>1, <1>2 DEF BaseEntries, Stored
<1>4. RunsFrom(cat)[0] = <<>> BY RunsHere, RunsDef
<1>5. CatalogRuns' = <<>> BY <1>1, <1>4 DEF CatalogRuns
<1>6. RunEntries' = {} BY <1>5 DEF RunEntries, Live, Elems
<1>7. Store!Collapse BY <1>3, <1>6 DEF Store!Collapse
<1> QED BY <1>7 DEF Store!Next

(* The promoted run brings nothing that was not in the runs.               *)
LEMMA PromoteRefines ==
    ASSUME IInv, FullInv, HanoiPromote
    PROVE  Same
<1>1. /\ Live' = Live \cup {PromotedRun'} /\ PromotedRun'.root = new_root
      /\ tree' = tree /\ root_upper' = root_upper
  BY PromotedFact
<1>2. pc = "promote" BY DEF HanoiPromote
<1>3. Live = Elems(picked) BY <1>2 DEF FullInv
<1>4. \A e \in tree[new_root] : \E i \in DOMAIN picked : e \in tree[picked[i].root]
  BY <1>2 DEF IInv, StoreInv, FoldInv
<1>5. tree[new_root] \subseteq RunEntries BY <1>3, <1>4 DEF RunEntries, Elems
<1>6. RunEntries' = RunEntries \cup tree[new_root] BY <1>1 DEF RunEntries
<1>7. BaseEntries' = BaseEntries BY <1>1 DEF BaseEntries
<1> QED BY <1>5, <1>6, <1>7 DEF Same

(* The rewrite drops runs whose entries are in the promoted one.           *)
LEMMA RewriteRefines ==
    ASSUME IInv, FullInv, HanoiRewrite
    PROVE  Same
<1>1. pc = "rewrite" /\ tree' = tree /\ root_upper' = root_upper BY DEF HanoiRewrite
<1>2. CatalogRuns' = Rewritten BY RewriteCat
<1>3. /\ Elems(Rewritten) = {r \in Elems(picked) : r.level # target} \cup {PromotedRun}
      /\ PromotedRun.root = new_root
  BY <1>1, RewrittenFacts
<1>4. Live = Elems(picked) \cup {PromotedRun} BY <1>1 DEF FullInv
<1>5. Live' = {r \in Elems(picked) : r.level # target} \cup {PromotedRun} BY <1>2, <1>3 DEF Live
<1>6. \A r \in Elems(picked) : r.level = target => tree[r.root] \subseteq tree[new_root]
  BY <1>1 DEF IInv, StoreInv, FoldInv, Elems
<1>7. RunEntries' = UNION {tree[r.root] : r \in Live'} BY <1>1 DEF RunEntries
<1>8. ASSUME NEW e \in RunEntries PROVE e \in RunEntries'
  <2>1. PICK r \in Live : e \in tree[r.root] BY DEF RunEntries
  <2>2. CASE r \in Live' BY <1>7, <2>1, <2>2
  <2>3. CASE r \notin Live'
    <3>1. r \in Elems(picked) /\ r.level = target BY <1>4, <1>5, <2>3
    <3>2. e \in tree[PromotedRun.root] BY <1>3, <1>6, <2>1, <3>1
    <3>3. PromotedRun \in Live' BY <1>5
    <3> QED BY <1>7, <3>2, <3>3
  <2> QED BY <2>2, <2>3
<1>9. Live' \subseteq Live BY <1>4, <1>5
<1>10. RunEntries' \subseteq RunEntries BY <1>7, <1>9 DEF RunEntries
<1>11. BaseEntries' = BaseEntries BY <1>1 DEF BaseEntries
<1> QED BY <1>8, <1>10, <1>11 DEF Same

(* The other steps are invisible.                                          *)
LEMMA QuietRefines ==
    ASSUME IInv,
           \/ \E s \in Scanners : ScanStep(s)
           \/ FreeOldBase \/ VacuumCleanup \/ HanoiPass \/ HanoiLog \/ HanoiDone
           \/ CollapseSkipped \/ CollapseFold \/ CollapseLog \/ Crash \/ UNCHANGED vars
    PROVE  Same
<1>1. /\ cat' = cat /\ run_catalog_head' = run_catalog_head /\ root_upper' = root_upper
      /\ \A r \in 1 .. Len(tree) : tree'[r] = tree[r]
  <2>1. CASE HanoiPass
    <3> DEFINE read == PrefixOf(CatalogRuns, CatalogCap)
    <3>1. UNCHANGED <<metaVars, cat, logged, scanVars, faults>> /\ \E E \in SUBSET Entry : tree' = Append(tree, E)
      BY <2>1, PassFacts
    <3>2. PICK E \in SUBSET Entry : tree' = Append(tree, E) BY <3>1
    <3>3. TreeAdded(E) BY <3>2, TreeAppend
    <3> QED BY <3>1, <3>3 DEF TreeAdded, metaVars
  <2>2. CASE CollapseFold
    <3>1. UNCHANGED <<metaVars, cat>> /\ tree' = Append(tree, Stored) BY <2>2 DEF CollapseFold
    <3>2. TreeAdded(Stored) BY <3>1, TreeTypes, TreeAppend
    <3> QED BY <3>1, <3>2 DEF TreeAdded, metaVars
  <2>3. CASE (\E s \in Scanners : ScanStep(s)) \/ UNCHANGED vars
    BY <2>3, QuietSteps DEF metaVars, storeVars
  <2>4. CASE FreeOldBase \/ VacuumCleanup \/ HanoiLog \/ HanoiDone \/ CollapseSkipped \/ CollapseLog \/ Crash
    BY <2>4 DEF FreeOldBase, VacuumCleanup, HanoiLog, HanoiDone, CollapseSkipped, CollapseLog, Crash,
       metaVars, storeVars
  <2> QED BY <2>1, <2>2, <2>3, <2>4
<1>2. Live' = Live BY <1>1 DEF Live, CatalogRuns
<1> QED BY <1>1, <1>2, TreesSame DEF Same

(* Runs that alias the base hold nothing else at the start.                *)
LEMMA InitRefines == Init => Store!Init
<1> SUFFICES ASSUME Init PROVE Store!Init OBVIOUS
<1>1. IInv BY IInvInit
<1>2. root_upper = 1 /\ tree = <<InitBase>> BY DEF Init
<1>3. Len(tree) = 1 /\ tree[1] = InitBase BY <1>2
<1>4. BaseEntries = InitBase BY <1>2, <1>3 DEF BaseEntries
<1>5. \A r \in Live : r.root = 1
  <2>1. \A r \in Live : r.root \in 1 .. Len(tree) BY <1>1, RunsHere DEF RunOK
  <2> QED BY <1>3, <2>1
<1>6. RunEntries \subseteq BaseEntries BY <1>2, <1>5 DEF RunEntries, BaseEntries
<1> QED BY <1>4, <1>6 DEF Store!Init

(* While the runs fit on one page, the catalog with its levels, pages,     *)
(* ranges and crashes between append and rewrite takes the steps of        *)
(* RunStore only: compaction loses no entry, and brings none back that a   *)
(* bulk delete took out.                                                   *)
THEOREM KeepsEveryEntry == Spec /\ []Fits => RefinesRunStore
<1>1. IInv /\ FullInv /\ [Next]_vars => [Store!Next]_(Store!svars)
  <2> SUFFICES ASSUME IInv, FullInv, [Next]_vars PROVE Store!Next \/ Same BY DEF Store!svars, Same
  <2>1. ASSUME NEW E \in Batches, FlushRun(E) \/ RebuildBase(E) PROVE Store!Next
    BY <2>1, FlushRefines, RebuildRefines
  <2>2. ASSUME NEW d \in Tids, BulkDelete(d) PROVE Store!Next BY <2>2, StripRefines
  <2>3. CASE CollapseReset BY <2>3, ResetRefines
  <2>4. CASE HanoiPromote BY <2>4, PromoteRefines
  <2>5. CASE HanoiRewrite BY <2>5, RewriteRefines
  <2>6. CASE \/ \E s \in Scanners : ScanStep(s)
             \/ FreeOldBase \/ VacuumCleanup \/ HanoiPass \/ HanoiLog \/ HanoiDone
             \/ CollapseSkipped \/ CollapseFold \/ CollapseLog \/ Crash \/ UNCHANGED vars
    BY <2>6, QuietRefines
  <2> QED BY <2>1, <2>2, <2>3, <2>4, <2>5, <2>6 DEF Next, ScanStep
<1>2. Spec => []IInv BY Inductive
<1>3. Spec /\ []Fits => []FullInv BY FullHolds
<1> QED BY <1>1, <1>2, <1>3, InitRefines, PTL DEF Spec, RefinesRunStore, Store!Spec

(* The same, and that no tree is forgotten, from the bounds of a model     *)
(* alone.                                                                  *)
COROLLARY KeepsWhatFits ==
    ASSUME NEW N \in Nat, MaxRuns <= N, Aliases <= N, N + MaxFaults <= CatalogCap
    PROVE  Spec => RefinesRunStore /\ []NoTreeForgotten
<1>1. Spec => []Fits BY CatalogFits
<1> QED BY <1>1, KeepsEveryEntry, TreesAccounted, PTL
==============================================================================
