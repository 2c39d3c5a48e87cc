------------------------- MODULE PostingChainProofs -------------------------
(***************************************************************************)
(* Proofs about one posting, for any number of TIDs, any layouts, any      *)
(* number of scans and of crashes.                                         *)
(*                                                                         *)
(* The inductive invariant has three parts.  The pages: every leaf fits    *)
(* its page and links to a lower block, and the leaves of the chain share  *)
(* no TID (the slices a build cuts a posting into are shown to be such a   *)
(* chain).  VACUUM: its locals say where on the chain it stands, what it   *)
(* has passed is clean, and its counters are the cardinalities of what it  *)
(* took out and of what it passed.  The scans: every TID a scan has to     *)
(* find is in what it collected or on a leaf its copied link leads to.     *)
(*                                                                         *)
(* The last part is what the link that an unlinked leaf keeps is for:      *)
(* rewriting a leaf changes no link, and unlinking one changes what a block *)
(* leads to by an empty leaf only (LinkedCut), so a scan that stands on a  *)
(* leaf taken out of the chain still comes past all others.  The proof uses *)
(* that each page access is atomic, not that VACUUM keeps the predecessor  *)
(* locked from one leaf to the next.                                       *)
(***************************************************************************)
EXTENDS PostingChain, FiniteSetTheorems, SequenceTheorems, Induction, TLAPS

(* A posting leaf, and the entry of the upper leaf.                        *)
LeafRec  == [tids : SUBSET Tids, right_link : Nat, deleted : BOOLEAN]
EntryRec == [kind : {"inline", "coalesced", "chain"}, root : Nat, tids : SUBSET Tids]

(* A sequence of leaves whose links lead to lower blocks.                  *)
Chain(c) == c \in Seq(LeafRec) /\ \A b \in DOMAIN c : c[b].right_link < b

(* The leaves of the chain.                                                *)
Live == Linked(leaf)[entry.root]

(* posting_tree_delete is under way; VACUUM is.                            *)
Walking == pc \in {"leaf", "unlink", "advance"}
Running == pc # "idle"

(* The pages: leaves fit, and a posting is either a chain or has no root.  *)
TypePages ==
    /\ layout \in Layouts /\ entry \in EntryRec /\ Chain(leaf)
    /\ \A b \in DOMAIN leaf : FitsLeaf(leaf[b].tids)
    /\ entry.root <= Len(leaf)
    /\ IF entry.kind = "chain" THEN entry.root # Invalid /\ entry.tids = {}
       ELSE entry.root = Invalid

(* VACUUM's locals and counters.                                           *)
TypeVacuum ==
    /\ pc \in {"idle", "upper", "repoint", "leaf", "unlink", "advance", "done"}
    /\ held \subseteq 0 .. Len(leaf) /\ dead \subseteq Tids /\ before \subseteq Tids
    /\ prev \in Nat /\ cur \in Nat /\ next \in Nat
    /\ n_removed \in Nat /\ n_remaining \in Nat

(* What the scans keep.                                                    *)
TypeScan ==
    /\ at \in [Scanners -> {"idle", "walk", "done"}] /\ blk \in [Scanners -> 0 .. Len(leaf)]
    /\ acc \in [Scanners -> SUBSET Tids] /\ must \in [Scanners -> SUBSET Tids]

(* A TID is on one leaf of the chain, and no deleted leaf is linked.       *)
LiveInv ==
    /\ \A b, c \in Live : b # c => leaf[b].tids \cap leaf[c].tids = {}
    /\ \A b \in Live : ~leaf[b].deleted

(* Where posting_tree_delete stands: at the root, or behind a leaf of the  *)
(* chain that links to the current one.  It unlinks an empty leaf only.    *)
WalkInv ==
    Walking =>
        /\ entry.kind = "chain"
        /\ IF prev = Invalid THEN cur = entry.root
           ELSE prev \in Live /\ leaf[prev].right_link = cur
        /\ pc # "leaf" => cur # Invalid /\ next = leaf[cur].right_link
        /\ pc = "unlink" => prev # Invalid /\ leaf[cur].tids = {}

(* The leaves it has been to and has left on the chain.                    *)
Passed == {b \in Live : b > cur \/ (pc = "advance" /\ b = cur)}

(* Such a leaf is empty only at the head, and keeps dead TIDs only if it   *)
(* would overflow without them.                                            *)
Good(b) ==
    /\ leaf[b].tids = {} => b = entry.root
    /\ leaf[b].tids \cap dead # {} => ~FitsLeaf(leaf[b].tids \ dead)

(* They are as they should be, and n_remaining counts their TIDs.          *)
PassedInv ==
    Walking => /\ \A b \in Passed : Good(b)
               /\ n_remaining = Cardinality(UNION {leaf[b].tids : b \in Passed})

(* What VACUUM has done so far: nothing has left the posting but dead TIDs, *)
(* n_removed counts them, and the leaf a migration has written holds the   *)
(* survivors.                                                              *)
BeforeInv ==
    /\ Running => before \ dead \subseteq Posting /\ Posting \subseteq before
    /\ Running /\ pc # "done" => n_removed = Cardinality(before) - Cardinality(Posting)
    /\ pc \in {"upper", "repoint"} => before = Posting /\ n_remaining = 0
    /\ pc = "repoint" =>
          /\ entry.kind = "inline" /\ leaf # <<>>
          /\ leaf[Len(leaf)] = [tids |-> entry.tids \ dead, right_link |-> Invalid, deleted |-> FALSE]

(* What a scan has to find it has found, or finds from its next leaf on.   *)
ScanInv ==
    \A s \in Scanners :
        /\ must[s] \cap dead = {}
        /\ at[s] = "walk" => must[s] \subseteq acc[s] \cup From(leaf, blk[s])
        /\ at[s] = "done" => must[s] \subseteq acc[s]

(* The inductive invariant.                                                *)
IInv == /\ TypePages /\ TypeVacuum /\ TypeScan /\ LiveInv /\ WalkInv /\ PassedInv
        /\ BeforeInv /\ OnlyOverflowKeepsDead /\ StatsExact /\ EmptiedLeavesGo /\ ScanInv

-----------------------------------------------------------------------------
(* Sets of TIDs are finite, and so is what SmSize counts.                  *)
LEMMA TidSets ==
    ASSUME NEW S \in SUBSET Tids
    PROVE  IsFiniteSet(S) /\ Cardinality(S) \in Nat /\ SmSize(S) \in Nat
<1>1. IsFiniteSet(Tids) BY ChainAssumption, FS_Interval DEF Tids
<1>2. IsFiniteSet(S) BY <1>1, FS_Subset
<1> DEFINE H == {t \in S : t - 1 \notin S}
<1>3. H \in SUBSET Tids OBVIOUS
<1>4. IsFiniteSet(H) BY <1>1, <1>3, FS_Subset
<1>5. Cardinality(H) \in Nat BY <1>4, FS_CardinalityType
<1> QED BY <1>2, <1>5, FS_CardinalityType DEF SmSize

(* The empty posting has size 0.                                           *)
LEMMA EmptySize == SmSize({}) = 0
<1>1. {t \in {} : t - 1 \notin {}} = {} OBVIOUS
<1> QED BY <1>1, FS_EmptySet DEF SmSize

(* A single TID is one run.                                                *)
LEMMA SingleSize == ASSUME NEW m \in Tids PROVE SmSize({m}) <= 1
<1> DEFINE H == {t \in {m} : t - 1 \notin {m}}
<1>1. H = {m} \/ H = {} OBVIOUS
<1> HIDE DEF H
<1>2. Cardinality(H) \in {0, 1} BY <1>1, FS_EmptySet, FS_Singleton
<1> QED BY <1>2 DEF SmSize, H

(* The budget of a leaf is positive.                                       *)
LEMMA BudgetFacts == ASSUME layout \in Layouts PROVE LeafBudget \in Nat \ {0}
BY ChainAssumption DEF LeafBudget

(* Taking TIDs out of a set.                                               *)
LEMMA TakenOut ==
    ASSUME NEW S \in SUBSET Tids, NEW D
    PROVE  /\ Cardinality(S \ D) = Cardinality(S) - Cardinality(S \cap D)
           /\ Cardinality(S \cap D) \in Nat /\ Cardinality(S \ D) \in Nat
           /\ Cardinality(S \ D) <= Cardinality(S)
           /\ (Cardinality(S \ D) = 0 => S \ D = {})
<1>1. IsFiniteSet(S) /\ Cardinality(S) \in Nat BY TidSets
<1>2. Cardinality(S \ D) = Cardinality(S) - Cardinality(S \cap D) BY <1>1, FS_Difference
<1> DEFINE K == S \ D
           C == S \cap D
<1>3. K \in SUBSET Tids /\ C \in SUBSET Tids OBVIOUS
<1> HIDE DEF K, C
<1>4. IsFiniteSet(K) /\ Cardinality(K) \in Nat /\ Cardinality(C) \in Nat BY <1>3, TidSets
<1>5. Cardinality(K) = 0 => K = {} BY <1>4, FS_EmptySet
<1> USE DEF K, C
<1>6. Cardinality(S \ D) \in Nat /\ Cardinality(S \cap D) \in Nat BY <1>4
<1>7. Cardinality(S \ D) <= Cardinality(S)
  <2> HIDE DEF K, C
  <2> QED BY <1>1, <1>2, <1>6
<1> QED BY <1>2, <1>5, <1>6, <1>7

-----------------------------------------------------------------------------
(* The leaves of a chain, and where they link to.                          *)
LEMMA ChainFacts ==
    ASSUME NEW c, Chain(c)
    PROVE  /\ c \in Seq(LeafRec) /\ Len(c) \in Nat /\ DOMAIN c = 1 .. Len(c)
           /\ \A b \in 1 .. Len(c) : /\ c[b] \in LeafRec /\ c[b].tids \in SUBSET Tids
                                     /\ c[b].right_link \in 0 .. b - 1
                                     /\ c[b].right_link \in 0 .. Len(c)
<1>1. c \in Seq(LeafRec) /\ \A b \in DOMAIN c : c[b].right_link < b BY DEF Chain
<1>2. Len(c) \in Nat /\ DOMAIN c = 1 .. Len(c) BY <1>1, LenProperties
<1>3. \A b \in 1 .. Len(c) : c[b] \in LeafRec BY <1>1, <1>2, ElementOfSeq
<1>4. \A b \in 1 .. Len(c) : c[b].tids \in SUBSET Tids /\ c[b].right_link \in Nat
  BY <1>3 DEF LeafRec
<1>5. \A b \in 1 .. Len(c) : c[b].right_link \in 0 .. b - 1 /\ c[b].right_link \in 0 .. Len(c)
  BY <1>1, <1>2, <1>4
<1> QED BY <1>1, <1>2, <1>3, <1>4, <1>5

(* The recursive equation of Linked.                                       *)
LEMMA LinkedDef ==
    ASSUME NEW c, Chain(c)
    PROVE  /\ Linked(c)[0] = {}
           /\ \A b \in 1 .. Len(c) : Linked(c)[b] = {b} \cup Linked(c)[c[b].right_link]
<1> DEFINE N == Len(c)
           step(f, b) == {b} \cup f[c[b].right_link]
           D(f, m) == f = [b \in 0 .. m |-> IF b = Invalid THEN {} ELSE step(f, b)]
           Ex(m) == \E f : D(f, m)
           T == {m \in Nat : m <= N => Ex(m)}
<1>0. N \in Nat /\ N = Len(c) /\ \A b \in 1 .. N : c[b].right_link \in 0 .. b - 1 BY ChainFacts
<1>1. 0 \in T
  <2> DEFINE g == [b \in 0 .. 0 |-> {}]
  <2>1. D(g, 0) BY DEF Invalid
  <2> HIDE DEF D, g
  <2>2. Ex(0) BY <2>1
  <2> HIDE DEF Ex
  <2> QED BY <2>2
<1>2. ASSUME NEW m \in Nat, m \in T PROVE m + 1 \in T
  <2>0. Ex(m + 1) => m + 1 \in T
    <3> HIDE DEF Ex
    <3> QED OBVIOUS
  <2> SUFFICES ASSUME m + 1 <= N PROVE Ex(m + 1)
    <3> HIDE DEF Ex
    <3> QED OBVIOUS
  <2>00. Ex(m)
    <3> HIDE DEF Ex
    <3> QED BY <1>0, <1>2
  <2>1. PICK f : D(f, m) BY <2>00
  <2> DEFINE g == [b \in 0 .. m + 1 |-> IF b <= m THEN f[b] ELSE step(f, m + 1)]
  <2>2. D(g, m + 1)
    <3>1. \A b \in 0 .. m + 1 : g[b] = IF b = Invalid THEN {} ELSE step(g, b)
      <4> SUFFICES ASSUME NEW b \in 0 .. m + 1
                   PROVE  g[b] = IF b = Invalid THEN {} ELSE step(g, b)
        OBVIOUS
      <4>0. b # 0 => c[b].right_link \in 0 .. m /\ c[b].right_link \in 0 .. b - 1 BY <1>0
      <4>1. b # 0 => g[c[b].right_link] = f[c[b].right_link] BY <4>0
      <4>2. b # 0 => step(g, b) = step(f, b) BY <4>1
      <4>3. CASE b = 0 BY <2>1, <4>3 DEF Invalid
      <4>4. CASE b # 0 /\ b <= m
        <5>1. g[b] = f[b] BY <4>4
        <5> HIDE DEF g, step
        <5>2. f[b] = step(f, b) BY <2>1, <4>4 DEF Invalid
        <5> QED BY <4>2, <4>4, <5>1, <5>2 DEF Invalid
      <4>5. CASE b = m + 1
        <5> HIDE DEF step
        <5>0. ~(m + 1 <= m) /\ m + 1 \in 0 .. m + 1 OBVIOUS
        <5>1. g[b] = step(f, b) BY <4>5, <5>0
        <5> HIDE DEF g
        <5> QED BY <4>2, <4>5, <5>1 DEF Invalid
      <4> QED BY <4>3, <4>4, <4>5
    <3> HIDE DEF g, step
    <3>2. g = [b \in 0 .. m + 1 |-> g[b]] BY DEF g
    <3> QED BY <3>1, <3>2
  <2> HIDE DEF D, g
  <2> QED BY <2>2
<1>3. Nat \subseteq T
  <2> HIDE DEF T
  <2> QED BY <1>1, <1>2, NumberInduction
<1>4. Ex(N)
  <2> HIDE DEF Ex
  <2> QED BY <1>0, <1>3
<1> DEFINE h == CHOOSE f : D(f, N)
<1>5. D(h, N)
  <2> HIDE DEF D
  <2> QED BY <1>4
<1>6. Linked(c) = h BY DEF Linked
<1> HIDE DEF h
<1>7. h[0] = {} BY <1>0, <1>5 DEF Invalid
<1>8. \A b \in 1 .. N : h[b] = step(h, b)
  <2> HIDE DEF step, T, Ex
  <2> TAKE b \in 1 .. N
  <2>1. b \in 0 .. N /\ b # 0 BY <1>0
  <2> QED BY <1>5, <2>1 DEF Invalid
<1> QED BY <1>6, <1>7, <1>8

(* What a block leads to is a set of leaves at or below it.                *)
LEMMA LinkedBelow ==
    ASSUME NEW c, Chain(c), NEW b \in 0 .. Len(c)
    PROVE  /\ Linked(c)[b] \subseteq 1 .. b /\ Linked(c)[b] \subseteq 1 .. Len(c)
           /\ (b # 0 => b \in Linked(c)[b])
<1> DEFINE N == Len(c)
           L == Linked(c)
           T == {m \in Nat : \A x \in 0 .. m : x <= N => L[x] \subseteq 1 .. x}
<1>0. /\ N \in Nat /\ L[0] = {} /\ b \in 0 .. N /\ N = Len(c)
      /\ \A x \in 1 .. N : L[x] = {x} \cup L[c[x].right_link] /\ c[x].right_link \in 0 .. x - 1
  BY ChainFacts, LinkedDef
<1> HIDE DEF N, L
<1>1. 0 \in T BY <1>0
<1>2. ASSUME NEW m \in Nat, m \in T PROVE m + 1 \in T
  <2> SUFFICES ASSUME m + 1 <= N PROVE L[m + 1] \subseteq 1 .. m + 1
    <3>1. \A x \in 0 .. m + 1 : x \in 0 .. m \/ x = m + 1 OBVIOUS
    <3> QED BY <1>2, <3>1
  <2>1. m + 1 \in 1 .. N BY <1>0
  <2> DEFINE l == c[m + 1].right_link
  <2>2. L[m + 1] = {m + 1} \cup L[l] /\ l \in 0 .. m
    <3>1. c[m + 1].right_link \in 0 .. (m + 1) - 1 BY <1>0, <2>1
    <3> QED BY <1>0, <2>1, <3>1
  <2> HIDE DEF l
  <2>3. l <= N BY <1>0, <2>2
  <2>4. L[l] \subseteq 1 .. l BY <1>2, <2>2, <2>3
  <2>5. 1 .. l \subseteq 1 .. m + 1 /\ m + 1 \in 1 .. m + 1 BY <2>2
  <2> QED BY <2>2, <2>4, <2>5
<1>3. Nat \subseteq T
  <2> HIDE DEF T
  <2> QED BY <1>1, <1>2, NumberInduction
<1>4. b \in T
  <2> HIDE DEF T
  <2> QED BY <1>0, <1>3
<1>5. L[b] \subseteq 1 .. b BY <1>0, <1>4
<1>6. 1 .. b \subseteq 1 .. N BY <1>0
<1>7. b # 0 => b \in L[b] BY <1>0
<1> QED BY <1>0, <1>5, <1>6, <1>7 DEF L

(* A block leads to the same leaves while their links are the same.        *)
LEMMA LinkedSame ==
    ASSUME NEW c, Chain(c), NEW d, Chain(d), NEW b \in 0 .. Len(c), b <= Len(d),
           \A x \in Linked(c)[b] : d[x].right_link = c[x].right_link
    PROVE  Linked(d)[b] = Linked(c)[b]
<1> DEFINE N == Len(c)
           M == Len(d)
           L == Linked(c)
           K == Linked(d)
           same(x) == \A y \in L[x] : d[y].right_link = c[y].right_link
           T == {m \in Nat : \A x \in 0 .. m : x <= N /\ x <= M /\ same(x) => K[x] = L[x]}
<1>0. /\ N \in Nat /\ M \in Nat /\ L[0] = {} /\ K[0] = {} /\ b \in 0 .. N /\ b <= M
      /\ \A x \in 1 .. N : L[x] = {x} \cup L[c[x].right_link] /\ c[x].right_link \in 0 .. x - 1
      /\ \A x \in 1 .. M : K[x] = {x} \cup K[d[x].right_link]
      /\ same(b)
  BY ChainFacts, LinkedDef
<1> HIDE DEF N, M, L, K
<1>1. 0 \in T
  <2>1. \A x \in 0 .. 0 : x = 0 OBVIOUS
  <2> HIDE DEF same
  <2> QED BY <1>0, <2>1
<1>2. ASSUME NEW m \in Nat, m \in T PROVE m + 1 \in T
  <2> SUFFICES ASSUME m + 1 <= N, m + 1 <= M, same(m + 1) PROVE K[m + 1] = L[m + 1]
    <3>1. \A x \in 0 .. m + 1 : x \in 0 .. m \/ x = m + 1 OBVIOUS
    <3> HIDE DEF same
    <3> QED BY <1>2, <3>1
  <2>1. m + 1 \in 1 .. N /\ m + 1 \in 1 .. M BY <1>0
  <2> DEFINE l == c[m + 1].right_link
  <2>2. L[m + 1] = {m + 1} \cup L[l] /\ l \in 0 .. m
    <3>1. c[m + 1].right_link \in 0 .. (m + 1) - 1 BY <1>0, <2>1
    <3> QED BY <1>0, <2>1, <3>1
  <2>3. d[m + 1].right_link = l BY <2>2
  <2>4. K[m + 1] = {m + 1} \cup K[l] BY <1>0, <2>1, <2>3
  <2> HIDE DEF l
  <2>5. l <= N /\ l <= M BY <1>0, <2>2
  <2>6. same(l) BY <2>2
  <2> HIDE DEF same
  <2>7. K[l] = L[l] BY <1>2, <2>2, <2>5, <2>6
  <2> QED BY <2>2, <2>4, <2>7
<1>3. Nat \subseteq T
  <2> HIDE DEF T
  <2> QED BY <1>1, <1>2, NumberInduction
<1> HIDE DEF same
<1>4. b \in T
  <2> HIDE DEF T
  <2> QED BY <1>0, <1>3
<1> QED BY <1>0, <1>4 DEF K, L

(* The chain is a line: from a leaf on it comes what is below the leaf.    *)
LEMMA LinkedOrder ==
    ASSUME NEW c, Chain(c), NEW b \in 0 .. Len(c), NEW x \in Linked(c)[b]
    PROVE  \A y : y \in Linked(c)[x] <=> y \in Linked(c)[b] /\ y <= x
<1> DEFINE N == Len(c)
           L == Linked(c)
           line(a) == \A z \in L[a] : \A y : y \in L[z] <=> y \in L[a] /\ y <= z
           T == {m \in Nat : \A a \in 0 .. m : a <= N => line(a)}
<1>0. /\ N \in Nat /\ L[0] = {} /\ b \in 0 .. N /\ x \in L[b]
      /\ \A a \in 1 .. N : L[a] = {a} \cup L[c[a].right_link] /\ c[a].right_link \in 0 .. a - 1
  BY ChainFacts, LinkedDef
<1>00. \A a \in 0 .. N : L[a] \subseteq 1 .. a BY LinkedBelow
<1> HIDE DEF N, L
<1>1. 0 \in T BY <1>0
<1>2. ASSUME NEW m \in Nat, m \in T PROVE m + 1 \in T
  <2> SUFFICES ASSUME m + 1 <= N PROVE line(m + 1)
    <3>1. \A a \in 0 .. m + 1 : a \in 0 .. m \/ a = m + 1 OBVIOUS
    <3> HIDE DEF line
    <3> QED BY <1>2, <3>1
  <2>1. m + 1 \in 1 .. N BY <1>0
  <2> DEFINE l == c[m + 1].right_link
  <2>2. L[m + 1] = {m + 1} \cup L[l] /\ l \in 0 .. m
    <3>1. c[m + 1].right_link \in 0 .. (m + 1) - 1 BY <1>0, <2>1
    <3> QED BY <1>0, <2>1, <3>1
  <2> HIDE DEF l
  <2>3. l <= N /\ l \in 0 .. N BY <1>0, <2>2
  <2>4. line(l)
    <3> HIDE DEF line
    <3> QED BY <1>2, <2>2, <2>3
  <2>5. L[l] \subseteq 1 .. l BY <1>00, <2>3
  <2> SUFFICES ASSUME NEW z \in L[m + 1], NEW y PROVE y \in L[z] <=> y \in L[m + 1] /\ y <= z
    OBVIOUS
  <2>6. CASE z = m + 1
    <3>1. \A w \in L[m + 1] : w <= m + 1 BY <2>2, <2>5
    <3> QED BY <2>6, <3>1
  <2>7. CASE z \in L[l]
    <3>1. z \in 1 .. l BY <2>5, <2>7
    <3>2. ~(m + 1 <= z) BY <2>2, <3>1
    <3>3. y \in L[z] <=> y \in L[l] /\ y <= z BY <2>4, <2>7
    <3> QED BY <2>2, <3>2, <3>3
  <2> QED BY <2>2, <2>6, <2>7
<1>3. Nat \subseteq T
  <2> HIDE DEF T
  <2> QED BY <1>1, <1>2, NumberInduction
<1>4. b \in T
  <2> HIDE DEF T
  <2> QED BY <1>0, <1>3
<1>5. line(b)
  <2> HIDE DEF line
  <2> QED BY <1>0, <1>4
<1> QED BY <1>0, <1>5 DEF L

(* Unlinking the leaf q behind p: every block still leads to what it led   *)
(* to, q perhaps excepted, and a block that led over p no longer leads to  *)
(* q.                                                                      *)
LEMMA LinkedCut ==
    ASSUME NEW c, Chain(c), NEW d, Chain(d), Len(d) = Len(c),
           NEW p \in 1 .. Len(c), NEW q \in 1 .. Len(c), c[p].right_link = q,
           d[p].right_link = c[q].right_link,
           \A x \in 1 .. Len(c) : x # p => d[x].right_link = c[x].right_link,
           NEW b \in 0 .. Len(c)
    PROVE  /\ Linked(c)[b] \ {q} \subseteq Linked(d)[b]
           /\ Linked(d)[b] \subseteq Linked(c)[b]
           /\ (p \in Linked(c)[b] => q \notin Linked(d)[b])
<1> DEFINE N == Len(c)
           L == Linked(c)
           K == Linked(d)
           ok(a) == L[a] \ {q} \subseteq K[a] /\ K[a] \subseteq L[a] /\ (p \in L[a] => q \notin K[a])
           T == {m \in Nat : \A a \in 0 .. m : a <= N => ok(a)}
<1>0. /\ N \in Nat /\ L[0] = {} /\ K[0] = {} /\ b \in 0 .. N /\ p \in 1 .. N /\ q \in 1 .. N
      /\ \A x \in 1 .. N : L[x] = {x} \cup L[c[x].right_link] /\ c[x].right_link \in 0 .. x - 1
      /\ \A x \in 1 .. N : K[x] = {x} \cup K[d[x].right_link]
      /\ \A x \in 1 .. N : x # p => d[x].right_link = c[x].right_link
  BY ChainFacts, LinkedDef
<1>00. \A a \in 0 .. N : L[a] \subseteq 1 .. a BY LinkedBelow
<1> HIDE DEF N, L, K
<1>01. q < p BY <1>0
<1>1. 0 \in T BY <1>0
<1>2. ASSUME NEW m \in Nat, m \in T PROVE m + 1 \in T
  <2> SUFFICES ASSUME m + 1 <= N PROVE ok(m + 1)
    <3>1. \A a \in 0 .. m + 1 : a \in 0 .. m \/ a = m + 1 OBVIOUS
    <3> HIDE DEF ok
    <3> QED BY <1>2, <3>1
  <2>0. \A a \in 0 .. m : a \in 0 .. N /\ ok(a)
    <3> HIDE DEF ok
    <3> QED BY <1>0, <1>2
  <2>1. m + 1 \in 1 .. N BY <1>0
  <2>2. CASE m + 1 # p
    <3> DEFINE l == c[m + 1].right_link
    <3>1. L[m + 1] = {m + 1} \cup L[l] /\ l \in 0 .. m
      <4>1. c[m + 1].right_link \in 0 .. (m + 1) - 1 BY <1>0, <2>1
      <4> QED BY <1>0, <2>1, <4>1
    <3>2. K[m + 1] = {m + 1} \cup K[l] BY <1>0, <2>1, <2>2
    <3> HIDE DEF l
    <3>3. ok(l) BY <2>0, <3>1
    <3>4. ASSUME p \in L[m + 1] PROVE q \notin K[m + 1]
      <4>1. p \in L[l] /\ q \notin K[l] BY <2>2, <3>1, <3>3, <3>4
      <4>2. p \in 1 .. l BY <1>00, <2>0, <3>1, <4>1
      <4>3. q # m + 1 BY <1>0, <1>01, <3>1, <4>2
      <4> QED BY <3>2, <4>1, <4>3
    <3> QED BY <3>1, <3>2, <3>3, <3>4
  <2>3. CASE m + 1 = p
    <3> DEFINE l == c[q].right_link
    <3>1. L[p] = {p} \cup L[q] /\ L[q] = {q} \cup L[l] /\ l \in 0 .. q - 1 BY <1>0
    <3>2. K[p] = {p} \cup K[l] BY <1>0
    <3> HIDE DEF l
    <3>3. l \in 0 .. m BY <1>0, <1>01, <2>3, <3>1
    <3>4. ok(l) /\ L[l] \subseteq 1 .. l BY <1>00, <2>0, <3>3
    <3>5. q \notin L[l] /\ q # p BY <1>0, <1>01, <3>1, <3>4
    <3> QED BY <2>3, <3>1, <3>2, <3>4, <3>5
  <2> QED BY <2>2, <2>3
<1>3. Nat \subseteq T
  <2> HIDE DEF T
  <2> QED BY <1>1, <1>2, NumberInduction
<1>4. b \in T
  <2> HIDE DEF T
  <2> QED BY <1>0, <1>3
<1>5. ok(b)
  <2> HIDE DEF ok
  <2> QED BY <1>0, <1>4
<1> QED BY <1>5 DEF K, L

-----------------------------------------------------------------------------
(* A set of TIDs that is not empty has a first and a last one.             *)
LEMMA FirstAndLast ==
    ASSUME NEW S \in SUBSET Tids, S # {}
    PROVE  (\E m \in S : \A t \in S : m <= t) /\ (\E m \in S : \A t \in S : t <= m)
<1>0. MaxTid \in Nat /\ \A t \in S : t \in Nat /\ t <= MaxTid BY ChainAssumption DEF Tids
<1>1. \E m \in S : \A t \in S : m <= t
  <2>1. S \in SUBSET Nat BY <1>0
  <2> QED BY <2>1, LeastNumber
<1>2. \E m \in S : \A t \in S : t <= m
  <2> DEFINE R == {MaxTid - t : t \in S}
  <2>1. R \in SUBSET Nat /\ R # {} BY <1>0
  <2>2. \A t \in S : MaxTid - t \in R OBVIOUS
  <2>3. \A n \in R : \E t \in S : n = MaxTid - t OBVIOUS
  <2> HIDE DEF R
  <2>4. PICK n \in R : \A k \in R : n <= k BY <2>1, LeastNumber
  <2>5. PICK m \in S : n = MaxTid - m BY <2>3
  <2>6. \A t \in S : MaxTid - m <= MaxTid - t BY <2>2, <2>4, <2>5
  <2>7. \A t \in S : t <= m BY <1>0, <2>6
  <2> QED BY <2>7
<1> QED BY <1>1, <1>2

(* leaf_fill_count takes at least one TID and no more than fit.            *)
LEMMA LeafFillFacts ==
    ASSUME layout \in Layouts, NEW S \in SUBSET Tids, S # {}
    PROVE  /\ LeafFill(S) \in SUBSET S /\ LeafFill(S) # {}
           /\ SmSize(LeafFill(S)) <= LeafBudget
<1> DEFINE fit == {m \in S : SmSize(UpTo(S, m)) <= LeafBudget}
           last == CHOOSE m \in fit : \A t \in fit : t <= m
<1>1. PICK m \in S : \A t \in S : m <= t BY FirstAndLast
<1>2. UpTo(S, m) = {m}
  <2>1. \A t \in S : t \in Nat BY DEF Tids
  <2> QED BY <1>1, <2>1 DEF UpTo
<1>3. SmSize({m}) <= 1 /\ SmSize({m}) \in Nat BY <1>1, SingleSize, TidSets
<1>4. LeafBudget \in Nat \ {0} BY BudgetFacts
<1>5. SmSize(UpTo(S, m)) <= LeafBudget BY <1>2, <1>3, <1>4
<1>6. fit # {} /\ fit \in SUBSET Tids BY <1>1, <1>5
<1>7. \A x : x \in fit <=> x \in S /\ SmSize(UpTo(S, x)) <= LeafBudget OBVIOUS
<1>8. LeafFill(S) = UpTo(S, last) BY <1>6 DEF LeafFill
<1>9. last \in fit
  <2> HIDE DEF fit
  <2>1. \E x \in fit : \A t \in fit : t <= x BY <1>6, FirstAndLast
  <2> QED BY <2>1
<1> HIDE DEF fit, last
<1>10. last \in S /\ SmSize(UpTo(S, last)) <= LeafBudget BY <1>7, <1>9
<1>11. last \in UpTo(S, last)
  <2>1. last \in Nat BY <1>10 DEF Tids
  <2> QED BY <1>10, <2>1 DEF UpTo
<1>12. UpTo(S, last) \subseteq S BY DEF UpTo
<1> QED BY <1>8, <1>10, <1>11, <1>12

(* What is left for the next leaf is smaller.                              *)
LEMMA RestSmaller ==
    ASSUME layout \in Layouts, NEW S \in SUBSET Tids, S # {}
    PROVE  /\ S \ LeafFill(S) \in SUBSET Tids
           /\ Cardinality(S \ LeafFill(S)) < Cardinality(S)
<1> DEFINE F == LeafFill(S)
<1>1. F \in SUBSET S /\ F # {} BY LeafFillFacts
<1> HIDE DEF F
<1>2. S \cap F = F BY <1>1
<1>3. Cardinality(S \ F) = Cardinality(S) - Cardinality(S \cap F) BY TakenOut
<1>4. IsFiniteSet(F) /\ Cardinality(F) \in Nat BY <1>1, TidSets
<1>5. Cardinality(F) # 0 BY <1>1, <1>4, FS_EmptySet
<1>6. Cardinality(S) \in Nat BY TidSets
<1>7. Cardinality(S \ F) < Cardinality(S) BY <1>2, <1>3, <1>4, <1>5, <1>6
<1> QED BY <1>7 DEF F

(* The recursive equation of Slices.                                       *)
LEMMA SlicesDef ==
    ASSUME layout \in Layouts, NEW S \in SUBSET Tids
    PROVE  Slices[S] = IF S = {} THEN <<>> ELSE <<LeafFill(S)>> \o Slices[S \ LeafFill(S)]
<1> DEFINE Dom(m) == {R \in SUBSET Tids : Cardinality(R) <= m}
           rest(R) == R \ LeafFill(R)
           step(f, R) == IF R = {} THEN <<>> ELSE <<LeafFill(R)>> \o f[rest(R)]
           D(f, m) == f = [R \in Dom(m) |-> step(f, R)]
           Ex(m) == \E f : D(f, m)
           T == {m \in Nat : Ex(m)}
<1>0. \A R \in SUBSET Tids : /\ Cardinality(R) \in Nat
                             /\ R # {} => rest(R) \in SUBSET Tids /\ Cardinality(rest(R)) < Cardinality(R)
  BY TidSets, RestSmaller
<1>00. \A m : \A R : R \in Dom(m) <=> R \in SUBSET Tids /\ Cardinality(R) <= m OBVIOUS
<1>01. \A R \in SUBSET Tids : Cardinality(R) = 0 => R = {} BY TidSets, FS_EmptySet
<1> HIDE DEF rest, Dom
<1>1. 0 \in T
  <2> DEFINE g == [R \in Dom(0) |-> <<>>]
  <2>1. \A R \in Dom(0) : R = {}
    <3> TAKE R \in Dom(0)
    <3>1. R \in SUBSET Tids /\ Cardinality(R) <= 0 BY <1>00
    <3>2. Cardinality(R) = 0 BY <1>0, <3>1
    <3> QED BY <1>01, <3>1, <3>2
  <2>2. \A R \in Dom(0) : g[R] = step(g, R) BY <2>1
  <2>3. g = [R \in Dom(0) |-> g[R]] OBVIOUS
  <2> HIDE DEF g, step
  <2>4. D(g, 0) BY <2>2, <2>3
  <2> HIDE DEF D
  <2> QED BY <2>4
<1>2. ASSUME NEW m \in Nat, m \in T PROVE m + 1 \in T
  <2>1. PICK f : D(f, m) BY <1>2
  <2> DEFINE g == [R \in Dom(m + 1) |-> IF Cardinality(R) <= m THEN f[R] ELSE step(f, R)]
  <2>2. \A R \in Dom(m + 1) : g[R] = step(g, R)
    <3> TAKE R \in Dom(m + 1)
    <3>1. R \in SUBSET Tids /\ Cardinality(R) <= m + 1 /\ Cardinality(R) \in Nat BY <1>0, <1>00
    <3>2. R # {} => rest(R) \in Dom(m + 1) /\ Cardinality(rest(R)) <= m
      <4> SUFFICES ASSUME R # {} PROVE rest(R) \in Dom(m + 1) /\ Cardinality(rest(R)) <= m OBVIOUS
      <4>1. rest(R) \in SUBSET Tids /\ Cardinality(rest(R)) < Cardinality(R) BY <1>0, <3>1
      <4>2. Cardinality(rest(R)) \in Nat BY <1>0, <4>1
      <4>3. Cardinality(rest(R)) <= m /\ Cardinality(rest(R)) <= m + 1 BY <3>1, <4>1, <4>2
      <4> QED BY <1>00, <4>1, <4>3
    <3>3. R # {} => g[rest(R)] = f[rest(R)] BY <3>2
    <3>4. step(g, R) = step(f, R) BY <3>3
    <3>5. CASE Cardinality(R) <= m
      <4>1. R \in Dom(m) BY <1>00, <3>1, <3>5
      <4>2. g[R] = f[R] BY <3>5
      <4> HIDE DEF g, step
      <4>3. f[R] = step(f, R) BY <2>1, <4>1
      <4> QED BY <3>4, <4>2, <4>3
    <3>6. CASE ~(Cardinality(R) <= m)
      <4>1. g[R] = step(f, R) BY <3>6
      <4> HIDE DEF g, step
      <4> QED BY <3>4, <4>1
    <3> QED BY <3>5, <3>6
  <2>3. g = [R \in Dom(m + 1) |-> g[R]] OBVIOUS
  <2> HIDE DEF g, step
  <2>4. D(g, m + 1) BY <2>2, <2>3
  <2> HIDE DEF D
  <2> QED BY <2>4
<1>3. Nat \subseteq T
  <2> HIDE DEF T
  <2> QED BY <1>1, <1>2, NumberInduction
<1>4. Dom(MaxTid) = SUBSET Tids
  <2> SUFFICES ASSUME NEW R \in SUBSET Tids PROVE Cardinality(R) <= MaxTid BY <1>00
  <2>1. IsFiniteSet(Tids) /\ Cardinality(Tids) = MaxTid
    <3>1. MaxTid \in Nat /\ MaxTid >= 1 BY ChainAssumption
    <3>2. /\ IsFiniteSet(1 .. MaxTid)
          /\ Cardinality(1 .. MaxTid) = IF 1 > MaxTid THEN 0 ELSE MaxTid - 1 + 1
      BY <3>1, FS_Interval
    <3> QED BY <3>1, <3>2 DEF Tids
  <2> QED BY <2>1, FS_Subset
<1>5. Ex(MaxTid)
  <2> HIDE DEF Ex
  <2> QED BY <1>3, ChainAssumption
<1> DEFINE h == CHOOSE f : D(f, MaxTid)
<1>6. D(h, MaxTid)
  <2> HIDE DEF D
  <2> QED BY <1>5
<1>7. Slices = h
  <2> DEFINE E(f) == f = [R \in SUBSET Tids |-> step(f, R)]
  <2>1. \A f : D(f, MaxTid) <=> E(f)
    <3> HIDE DEF step
    <3> QED BY <1>4
  <2>2. Slices = CHOOSE f : E(f) BY DEF Slices, rest
  <2> HIDE DEF D, E
  <2>3. (CHOOSE f : E(f)) = CHOOSE f : D(f, MaxTid) BY <2>1
  <2> QED BY <2>2, <2>3
<1> HIDE DEF h, Ex, T
<1>8. h[S] = step(h, S)
  <2> HIDE DEF step
  <2> QED BY <1>4, <1>6
<1> QED BY <1>7, <1>8 DEF rest

(* A cut of a set of TIDs into leaves: each fits its page, and no TID is   *)
(* on two.                                                                 *)
Cut(S, t) ==
    /\ t \in Seq(SUBSET Tids) /\ (S # {} => t # <<>>)
    /\ \A i \in 1 .. Len(t) : t[i] \subseteq S /\ SmSize(t[i]) <= LeafBudget
    /\ \A i, j \in 1 .. Len(t) : i # j => t[i] \cap t[j] = {}

(* One more leaf in front.                                                 *)
LEMMA CutStep ==
    ASSUME NEW S \in SUBSET Tids, NEW F \in SUBSET S, SmSize(F) <= LeafBudget, NEW t, Cut(S \ F, t)
    PROVE  Cut(S, <<F>> \o t)
<1> DEFINE u == <<F>> \o t
           n == Len(t)
<1>0. t \in Seq(SUBSET Tids) /\ <<F>> \in Seq(SUBSET Tids) /\ n \in Nat /\ n = Len(t)
  BY DEF Cut
<1>1. /\ u \in Seq(SUBSET Tids) /\ Len(u) = Len(<<F>>) + Len(t)
      /\ \A i \in 1 .. Len(<<F>>) + Len(t) :
            u[i] = IF i <= Len(<<F>>) THEN <<F>>[i] ELSE t[i - Len(<<F>>)]
  <2> DEFINE v == <<F>>
  <2>1. v \in Seq(SUBSET Tids) BY <1>0
  <2> HIDE DEF v
  <2>2. /\ v \o t \in Seq(SUBSET Tids) /\ Len(v \o t) = Len(v) + Len(t)
        /\ \A i \in 1 .. Len(v) + Len(t) : (v \o t)[i] = IF i <= Len(v) THEN v[i] ELSE t[i - Len(v)]
    BY <1>0, <2>1, ConcatProperties
  <2> QED BY <2>2 DEF v
<1>2. Len(<<F>>) = 1 /\ <<F>>[1] = F OBVIOUS
<1> HIDE DEF u, n
<1>3. Len(u) = 1 + n BY <1>0, <1>1, <1>2
<1>4. u[1] = F
  <2>1. 1 \in 1 .. 1 + n BY <1>0
  <2> QED BY <1>0, <1>1, <1>2, <2>1
<1>5. \A i \in 1 .. 1 + n : i # 1 => i - 1 \in 1 .. n /\ u[i] = t[i - 1]
  <2> TAKE i \in 1 .. 1 + n
  <2> HAVE i # 1
  <2>1. i - 1 \in 1 .. n /\ ~(i <= 1) BY <1>0
  <2>2. u[i] = t[i - 1] BY <1>0, <1>1, <1>2, <2>1
  <2> QED BY <2>1, <2>2
<1>6. \A i \in 1 .. n : t[i] \subseteq S \ F /\ SmSize(t[i]) <= LeafBudget BY <1>0 DEF Cut
<1>7. \A i, j \in 1 .. n : i # j => t[i] \cap t[j] = {} BY <1>0 DEF Cut
<1>8. \A i \in 1 .. 1 + n : u[i] \subseteq S /\ SmSize(u[i]) <= LeafBudget
  <2> TAKE i \in 1 .. 1 + n
  <2>1. CASE i = 1 BY <1>4, <2>1
  <2>2. CASE i # 1 BY <1>5, <1>6, <2>2
  <2> QED BY <2>1, <2>2
<1>9. ASSUME NEW i \in 1 .. 1 + n, NEW j \in 1 .. 1 + n, i # j PROVE u[i] \cap u[j] = {}
  <2>1. CASE i = 1 BY <1>4, <1>5, <1>6, <1>9, <2>1
  <2>2. CASE j = 1 BY <1>4, <1>5, <1>6, <1>9, <2>2
  <2>3. CASE i # 1 /\ j # 1
    <3>1. i - 1 # j - 1 BY <1>0, <1>9
    <3>2. i - 1 \in 1 .. n /\ u[i] = t[i - 1] /\ j - 1 \in 1 .. n /\ u[j] = t[j - 1] BY <1>5, <2>3
    <3> QED BY <1>7, <3>1, <3>2
  <2> QED BY <2>1, <2>2, <2>3
<1>10. u # <<>> BY <1>0, <1>3
<1>11. Cut(S, u) BY <1>1, <1>3, <1>8, <1>9, <1>10 DEF Cut
<1> QED BY <1>11 DEF u

(* The leaves a build writes are a cut of the posting.                     *)
LEMMA SlicesCut ==
    ASSUME layout \in Layouts, NEW S \in SUBSET Tids
    PROVE  Cut(S, Slices[S])
<1> DEFINE P(m) == \A R \in SUBSET Tids : Cardinality(R) <= m => Cut(R, Slices[R])
           T == {m \in Nat : P(m)}
<1>1. ASSUME NEW R \in SUBSET Tids, R = {} PROVE Cut(R, Slices[R])
  <2>1. Slices[R] = <<>> BY <1>1, SlicesDef
  <2>2. Cut(R, <<>>) BY <1>1 DEF Cut
  <2> QED BY <2>1, <2>2
<1>2. P(0)
  <2> SUFFICES ASSUME NEW R \in SUBSET Tids, Cardinality(R) <= 0 PROVE Cut(R, Slices[R]) OBVIOUS
  <2>1. IsFiniteSet(R) /\ Cardinality(R) \in Nat BY TidSets
  <2>2. Cardinality(R) = 0 BY <2>1
  <2>3. R = {} BY <2>1, <2>2, FS_EmptySet
  <2> QED BY <1>1, <2>3
<1>3. ASSUME NEW m \in Nat, P(m) PROVE P(m + 1)
  <2> SUFFICES ASSUME NEW R \in SUBSET Tids, Cardinality(R) <= m + 1, R # {}
               PROVE  Cut(R, Slices[R])
    BY <1>1
  <2> DEFINE F == LeafFill(R)
             Q == R \ F
  <2>1. F \in SUBSET R /\ SmSize(F) <= LeafBudget BY LeafFillFacts
  <2>2. Q \in SUBSET Tids /\ Cardinality(Q) < Cardinality(R) BY RestSmaller
  <2>3. Slices[R] = <<F>> \o Slices[Q] BY SlicesDef
  <2> HIDE DEF F, Q
  <2>4. Cardinality(Q) \in Nat /\ Cardinality(R) \in Nat BY <2>2, TidSets
  <2>5. Cardinality(Q) <= m BY <2>2, <2>4
  <2>6. Cut(Q, Slices[Q]) BY <1>3, <2>2, <2>5
  <2>7. Cut(R \ F, Slices[Q]) BY <2>6 DEF Q
  <2>8. Cut(R, <<F>> \o Slices[Q]) BY <2>1, <2>7, CutStep
  <2> QED BY <2>3, <2>8
<1> HIDE DEF P
<1>4. 0 \in T /\ \A m \in Nat : m \in T => m + 1 \in T BY <1>2, <1>3
<1>5. Nat \subseteq T
  <2> HIDE DEF T
  <2> QED BY <1>4, NumberInduction
<1>6. Cardinality(S) \in Nat BY TidSets
<1>7. P(Cardinality(S)) BY <1>5, <1>6
<1> QED BY <1>6, <1>7 DEF P

(* The chain a build writes.                                               *)
LEMMA WrittenFacts ==
    ASSUME layout \in Layouts, NEW S \in SUBSET Tids, S # {}
    PROVE  LET c == WrittenChain(S) IN
           /\ Chain(c) /\ Len(c) = Len(Slices[S]) /\ Len(c) \in Nat \ {0}
           /\ \A b \in 1 .. Len(c) : SmSize(c[b].tids) <= LeafBudget /\ ~c[b].deleted
           /\ \A a, b \in 1 .. Len(c) : a # b => c[a].tids \cap c[b].tids = {}
<1> DEFINE t == Slices[S]
           n == Len(t)
           c == WrittenChain(S)
<1>1. Cut(S, t) BY SlicesCut
<1>2. t \in Seq(SUBSET Tids) /\ t # <<>> BY <1>1 DEF Cut
<1>3. n \in Nat /\ DOMAIN t = 1 .. n /\ n # 0
  <2> HIDE DEF t
  <2> QED BY <1>2, LenProperties, EmptySeq
<1>4. c = [i \in 1 .. n |-> [tids |-> t[i], right_link |-> i - 1, deleted |-> FALSE]]
  BY <1>3 DEF WrittenChain
<1>5. \A i \in 1 .. n : t[i] \in SUBSET Tids
  <2> HIDE DEF t
  <2> QED BY <1>2, <1>3, ElementOfSeq
<1>6. \A i \in 1 .. n : SmSize(t[i]) <= LeafBudget BY <1>1 DEF Cut
<1>7. \A i, j \in 1 .. n : i # j => t[i] \cap t[j] = {} BY <1>1 DEF Cut
<1>8. n = Len(Slices[S]) OBVIOUS
<1> HIDE DEF t, n, c
<1>9. /\ c \in [1 .. n -> LeafRec] /\ DOMAIN c = 1 .. n
      /\ \A i \in 1 .. n : c[i] = [tids |-> t[i], right_link |-> i - 1, deleted |-> FALSE]
  BY <1>3, <1>4, <1>5 DEF LeafRec
<1>10. c \in Seq(LeafRec) /\ Len(c) = n BY <1>3, <1>9
<1>11. \A i \in 1 .. n : c[i].tids = t[i] /\ c[i].right_link = i - 1 /\ ~c[i].deleted BY <1>9
<1>12. Chain(c) BY <1>3, <1>9, <1>10, <1>11 DEF Chain
<1> QED BY <1>3, <1>6, <1>7, <1>8, <1>10, <1>11, <1>12 DEF c

-----------------------------------------------------------------------------
(* What the types say of the chain.                                        *)
LEMMA PageFacts ==
    ASSUME TypePages
    PROVE  /\ Chain(leaf) /\ Len(leaf) \in Nat /\ DOMAIN leaf = 1 .. Len(leaf)
           /\ entry.root \in 0 .. Len(leaf) /\ entry.tids \in SUBSET Tids
           /\ LeafBudget \in Nat \ {0}
           /\ Live \subseteq 1 .. Len(leaf) /\ Live \subseteq 1 .. entry.root
           /\ (entry.root # 0 => entry.root \in Live)
           /\ \A b \in 1 .. Len(leaf) :
                 /\ leaf[b] \in LeafRec /\ leaf[b].tids \in SUBSET Tids
                 /\ leaf[b].right_link \in 0 .. b - 1 /\ leaf[b].right_link \in 0 .. Len(leaf)
                 /\ FitsLeaf(leaf[b].tids)
<1>1. Chain(leaf) /\ entry \in EntryRec /\ entry.root <= Len(leaf) /\ layout \in Layouts
  BY DEF TypePages
<1>2. /\ Len(leaf) \in Nat /\ DOMAIN leaf = 1 .. Len(leaf)
      /\ \A b \in 1 .. Len(leaf) :
            /\ leaf[b] \in LeafRec /\ leaf[b].tids \in SUBSET Tids
            /\ leaf[b].right_link \in 0 .. b - 1 /\ leaf[b].right_link \in 0 .. Len(leaf)
  BY <1>1, ChainFacts
<1>3. entry.root \in Nat /\ entry.tids \in SUBSET Tids BY <1>1 DEF EntryRec
<1>4. entry.root \in 0 .. Len(leaf) BY <1>1, <1>2, <1>3
<1>5. /\ Live \subseteq 1 .. Len(leaf) /\ Live \subseteq 1 .. entry.root
      /\ (entry.root # 0 => entry.root \in Live)
  BY <1>1, <1>4, LinkedBelow DEF Live
<1>6. \A b \in 1 .. Len(leaf) : FitsLeaf(leaf[b].tids) BY <1>2 DEF TypePages
<1> QED BY <1>1, <1>2, <1>3, <1>4, <1>5, <1>6, BudgetFacts

(* The TIDs along a chain are TIDs.                                        *)
LEMMA FromTypes ==
    ASSUME NEW c, Chain(c), NEW b \in 0 .. Len(c)
    PROVE  From(c, b) \in SUBSET Tids /\ From(c, 0) = {}
<1>1. Linked(c)[b] \subseteq 1 .. Len(c) /\ Linked(c)[0] = {} BY LinkedBelow, LinkedDef
<1>2. \A x \in 1 .. Len(c) : c[x].tids \in SUBSET Tids BY ChainFacts
<1> QED BY <1>1, <1>2 DEF From

(* The posting is a set of TIDs.                                           *)
LEMMA PostingTypes == ASSUME TypePages PROVE Posting \in SUBSET Tids
BY PageFacts, FromTypes DEF Posting

(* A posting as it was built.                                              *)
LEMMA BuiltFacts ==
    ASSUME layout \in Layouts, NEW S \in SUBSET Tids, S # {},
           entry = Built(S)[1], leaf = Built(S)[2]
    PROVE  TypePages /\ LiveInv
<1>1. CASE SmSize(S) <= InlineMax
  <2>1. entry = Out("inline", Invalid, S) /\ leaf = <<>> BY <1>1 DEF Built
  <2>2. Chain(leaf) /\ Len(leaf) = 0 /\ DOMAIN leaf = {} BY <2>1 DEF Chain
  <2>3. TypePages BY <2>1, <2>2 DEF TypePages, EntryRec, Out, Invalid
  <2>4. Live = {} BY <2>2, <2>3, PageFacts
  <2> QED BY <2>3, <2>4 DEF LiveInv
<1>2. CASE ~(SmSize(S) <= InlineMax) /\ SmSize(S) <= CoalesceMax /\ SmSize(S) <= LeafBudget
  <2>1. entry = Out("coalesced", Invalid, S) /\ leaf = <<>> BY <1>2 DEF Built
  <2>2. Chain(leaf) /\ Len(leaf) = 0 /\ DOMAIN leaf = {} BY <2>1 DEF Chain
  <2>3. TypePages BY <2>1, <2>2 DEF TypePages, EntryRec, Out, Invalid
  <2>4. Live = {} BY <2>2, <2>3, PageFacts
  <2> QED BY <2>3, <2>4 DEF LiveInv
<1>3. CASE ~(SmSize(S) <= InlineMax) /\ ~(SmSize(S) <= CoalesceMax /\ SmSize(S) <= LeafBudget)
  <2> DEFINE c == WrittenChain(S)
  <2>1. entry = Out("chain", Len(Slices[S]), {}) /\ leaf = c BY <1>3 DEF Built
  <2>2. /\ Chain(c) /\ Len(c) = Len(Slices[S]) /\ Len(c) \in Nat \ {0}
        /\ \A b \in 1 .. Len(c) : SmSize(c[b].tids) <= LeafBudget /\ ~c[b].deleted
        /\ \A a, b \in 1 .. Len(c) : a # b => c[a].tids \cap c[b].tids = {}
    BY WrittenFacts
  <2>3. DOMAIN c = 1 .. Len(c) BY <2>2, ChainFacts
  <2> HIDE DEF c
  <2>4. entry = Out("chain", Len(leaf), {}) BY <2>1, <2>2
  <2>5. entry \in EntryRec /\ entry.kind = "chain" /\ entry.root = Len(leaf) /\ entry.tids = {}
    BY <2>1, <2>2, <2>4 DEF EntryRec, Out
  <2>6. TypePages BY <2>1, <2>2, <2>3, <2>5 DEF TypePages, FitsLeaf, Invalid
  <2>7. Live \subseteq 1 .. Len(leaf) BY <2>6, PageFacts
  <2> QED BY <2>1, <2>2, <2>6, <2>7 DEF LiveInv
<1> QED BY <1>1, <1>2, <1>3

(* The invariant holds at the start.                                       *)
LEMMA InitInv == Init => IInv
<1> SUFFICES ASSUME Init PROVE IInv OBVIOUS
<1>1. PICK S \in (SUBSET Tids) \ {{}} : entry = Built(S)[1] /\ leaf = Built(S)[2] BY DEF Init
<1>0. layout \in Layouts BY DEF Init
<1>2. TypePages /\ LiveInv BY <1>0, <1>1, BuiltFacts
<1>3. Len(leaf) \in Nat BY <1>2, PageFacts
<1>4. TypeVacuum /\ TypeScan BY <1>3 DEF Init, TypeVacuum, TypeScan, Invalid
<1>5. WalkInv /\ PassedInv /\ BeforeInv BY DEF Init, WalkInv, PassedInv, BeforeInv, Walking, Running
<1>6. OnlyOverflowKeepsDead /\ StatsExact /\ EmptiedLeavesGo
  BY DEF Init, OnlyOverflowKeepsDead, StatsExact, EmptiedLeavesGo
<1>7. ScanInv BY DEF Init, ScanInv
<1> QED BY <1>2, <1>4, <1>5, <1>6, <1>7 DEF IInv

-----------------------------------------------------------------------------
(* What is said of VACUUM when it is done.                                 *)
DoneInv == OnlyOverflowKeepsDead /\ StatsExact /\ EmptiedLeavesGo

(* What is left as it is while pages and entry are.                        *)
LEMMA SameChain ==
    ASSUME IInv, UNCHANGED chainVars
    PROVE  /\ TypePages' /\ LiveInv' /\ Live' = Live /\ Posting' = Posting
           /\ layout' = layout /\ entry' = entry /\ leaf' = leaf
BY DEF IInv, chainVars, TypePages, LiveInv, Live, Posting, FitsLeaf, LeafBudget

(* The scans notice only what happens to leaves and to the dead TIDs.      *)
LEMMA SameScans ==
    ASSUME IInv, UNCHANGED scanVars, leaf' = leaf, dead' \subseteq dead
    PROVE  TypeScan' /\ ScanInv'
BY DEF IInv, scanVars, TypeScan, ScanInv

(* VACUUM takes up the posting.                                            *)
LEMMA BulkDeleteStep ==
    ASSUME IInv, NEW D \in SUBSET Tids, BulkDelete(D)
    PROVE  IInv'
<1>0. UNCHANGED chainVars BY DEF BulkDelete
<1>1. /\ TypePages' /\ LiveInv' /\ Live' = Live /\ Posting' = Posting
      /\ layout' = layout /\ entry' = entry /\ leaf' = leaf
  BY <1>0, SameChain
<1>2. /\ pc' = "upper" /\ dead' = D /\ held' = {UpperLeaf} /\ n_removed' = 0 /\ n_remaining' = 0
      /\ before' = Posting /\ must' = [s \in Scanners |-> must[s] \ D]
      /\ UNCHANGED <<prev, cur, next, at, blk, acc>>
  BY DEF BulkDelete
<1>3. Posting \in SUBSET Tids /\ Len(leaf) \in Nat BY PostingTypes, PageFacts DEF IInv
<1>4. TypeVacuum' BY <1>1, <1>2, <1>3 DEF IInv, TypeVacuum, UpperLeaf
<1>5. TypeScan' BY <1>1, <1>2 DEF IInv, TypeScan
<1>6. WalkInv' /\ PassedInv' BY <1>2 DEF WalkInv, PassedInv, Walking
<1>7. DoneInv' BY <1>2 DEF DoneInv, OnlyOverflowKeepsDead, StatsExact, EmptiedLeavesGo
<1>8. BeforeInv'
  <2>1. Cardinality(Posting) \in Nat BY <1>3, TidSets
  <2> QED BY <1>1, <1>2, <2>1 DEF BeforeInv, Running
<1>9. ScanInv'
  <2> SUFFICES ASSUME NEW s \in Scanners
               PROVE  /\ must'[s] \cap D = {}
                      /\ at[s] = "walk" => must'[s] \subseteq acc[s] \cup From(leaf, blk[s])
                      /\ at[s] = "done" => must'[s] \subseteq acc[s]
    BY <1>1, <1>2 DEF ScanInv
  <2>1. must'[s] = must[s] \ D BY <1>2
  <2> QED BY <2>1 DEF IInv, ScanInv
<1> QED BY <1>1, <1>4, <1>5, <1>6, <1>7, <1>8, <1>9 DEF IInv, DoneInv

(* The inline posting is repacked in place.                                *)
LEMMA InlineRepackStep == ASSUME IInv, InlineRepack PROVE IInv'
<1> DEFINE S == entry.tids
           K == S \ dead
<1>0. TypePages /\ entry \in EntryRec /\ entry.kind = "inline" /\ entry.root = 0 /\ pc = "upper" /\ S \in SUBSET Tids
  BY PageFacts DEF InlineRepack, IInv, TypePages, Invalid
<1>1. /\ entry' = [entry EXCEPT !.tids = K] /\ layout' = layout /\ leaf' = leaf
      /\ n_removed' = Cardinality(S \cap dead) /\ n_remaining' = Cardinality(K)
      /\ held' = {} /\ pc' = "done"
      /\ UNCHANGED <<dead, prev, cur, next, before, scanVars>>
  BY DEF InlineRepack
<1>2. /\ entry' \in EntryRec /\ entry'.kind = "inline" /\ entry'.root = 0 /\ entry'.tids = K
  BY <1>0, <1>1 DEF EntryRec
<1>3. Posting = S /\ Posting' = K BY <1>0, <1>2 DEF Posting
<1>4. before = S BY <1>0, <1>3 DEF IInv, BeforeInv
<1>5. /\ Cardinality(K) = Cardinality(S) - Cardinality(S \cap dead) /\ Cardinality(S) \in Nat
      /\ Cardinality(S \cap dead) \in Nat /\ Cardinality(K) \in Nat
  BY <1>0, TakenOut, TidSets
<1> HIDE DEF S
<1>6. TypePages' BY <1>0, <1>1, <1>2 DEF TypePages, Chain, FitsLeaf, LeafBudget, Invalid
<1>7. TypeVacuum' BY <1>1, <1>5 DEF IInv, TypeVacuum
<1>8. TypeScan' /\ ScanInv' BY <1>1, SameScans
<1>9. Live' = Live BY <1>0, <1>1, <1>2 DEF Live
<1>10. LiveInv' BY <1>1, <1>9 DEF IInv, LiveInv
<1>11. WalkInv' /\ PassedInv' BY <1>1 DEF WalkInv, PassedInv, Walking
<1>12. BeforeInv'
  <2>1. before' \ dead' \subseteq Posting' /\ Posting' \subseteq before' BY <1>1, <1>3, <1>4
  <2> QED BY <1>1, <2>1 DEF BeforeInv, Running
<1>13. OnlyOverflowKeepsDead'
  <2>1. before' \ dead' \subseteq Posting' /\ Posting' \subseteq before' BY <1>1, <1>3, <1>4
  <2>2. entry'.tids \cap dead' = {} BY <1>1, <1>2
  <2> HIDE DEF K
  <2> QED BY <1>2, <2>1, <2>2 DEF OnlyOverflowKeepsDead
<1>14. StatsExact'
  <2> HIDE DEF K
  <2>1. Cardinality(before') - Cardinality(Posting') = Cardinality(S \cap dead) BY <1>1, <1>3, <1>4, <1>5
  <2> QED BY <1>1, <1>3, <2>1 DEF StatsExact
<1>15. EmptiedLeavesGo' BY <1>2 DEF EmptiedLeavesGo
<1> QED BY <1>6, <1>7, <1>8, <1>10, <1>11, <1>12, <1>13, <1>14, <1>15 DEF IInv

(* A chain with one more leaf.                                             *)
Longer(c, r, d) == d = Append(c, r)

(* One more leaf of its own.                                               *)
LEMMA LeafAppended ==
    ASSUME NEW c, Chain(c), NEW r \in LeafRec, r.right_link = 0, NEW d, Longer(c, r, d)
    PROVE  /\ Chain(d) /\ Len(d) = Len(c) + 1 /\ d[Len(d)] = r
           /\ \A b \in 1 .. Len(c) : d[b] = c[b]
           /\ \A b \in 0 .. Len(c) : Linked(d)[b] = Linked(c)[b] /\ From(d, b) = From(c, b)
<1> DEFINE n == Len(c)
<1>0. n \in Nat /\ n = Len(c) /\ c \in Seq(LeafRec) /\ \A b \in 1 .. n : c[b].right_link \in 0 .. b - 1
  BY ChainFacts
<1>1. /\ d \in Seq(LeafRec) /\ Len(d) = Len(c) + 1 /\ d[Len(c) + 1] = r
      /\ \A b \in 1 .. Len(c) : d[b] = c[b]
  BY <1>0, AppendProperties DEF Longer
<1> HIDE DEF n
<1>2. Chain(d)
  <2> SUFFICES ASSUME NEW b \in DOMAIN d PROVE d[b].right_link < b BY <1>1 DEF Chain
  <2>1. b \in 1 .. n + 1 BY <1>0, <1>1, LenProperties
  <2>2. CASE b = n + 1 BY <1>0, <1>1, <2>2
  <2>3. CASE b # n + 1
    <3>1. b \in 1 .. n BY <1>0, <2>1, <2>3
    <3>2. d[b].right_link = c[b].right_link /\ c[b].right_link \in 0 .. b - 1 BY <1>0, <1>1, <3>1
    <3> QED BY <3>1, <3>2
  <2> QED BY <2>2, <2>3
<1>3. ASSUME NEW b \in 0 .. n PROVE Linked(d)[b] = Linked(c)[b] /\ From(d, b) = From(c, b)
  <2>1. b \in 0 .. Len(c) /\ b <= Len(d) BY <1>0, <1>1
  <2>2. Linked(c)[b] \subseteq 1 .. n BY <1>0, <2>1, LinkedBelow
  <2>3. \A x \in Linked(c)[b] : d[x] = c[x] BY <1>0, <1>1, <2>2
  <2>4. \A x \in Linked(c)[b] : d[x].right_link = c[x].right_link BY <2>3
  <2>5. Linked(d)[b] = Linked(c)[b] BY <1>2, <2>1, <2>4, LinkedSame
  <2>6. From(d, b) = From(c, b) BY <2>3, <2>5 DEF From
  <2> QED BY <2>5, <2>6
<1> QED BY <1>0, <1>1, <1>2, <1>3

(* Survivors that do not fit inline get a leaf.                            *)
LEMMA MigrateWriteStep == ASSUME IInv, MigrateWrite PROVE IInv'
<1> DEFINE K == entry.tids \ dead
           r == [tids |-> K, right_link |-> Invalid, deleted |-> FALSE]
<1>0. TypePages /\ entry.kind = "inline" /\ entry.root = 0 /\ pc = "upper" /\ entry.tids \in SUBSET Tids
  BY PageFacts DEF MigrateWrite, IInv, TypePages, Invalid
<1>1. /\ leaf' = Append(leaf, r) /\ pc' = "repoint" /\ SmSize(K) <= LeafBudget
      /\ UNCHANGED <<layout, entry, held, dead, prev, cur, next, n_removed, n_remaining, before, scanVars>>
  BY DEF MigrateWrite
<1>2. Chain(leaf) /\ Len(leaf) \in Nat BY <1>0, PageFacts
<1>3. r \in LeafRec /\ r.right_link = 0 /\ r.tids = K BY <1>0 DEF LeafRec, Invalid
<1> HIDE DEF r
<1>4. /\ Chain(leaf') /\ Len(leaf') = Len(leaf) + 1 /\ leaf'[Len(leaf')] = r
      /\ \A b \in 1 .. Len(leaf) : leaf'[b] = leaf[b]
      /\ \A b \in 0 .. Len(leaf) : Linked(leaf')[b] = Linked(leaf)[b] /\ From(leaf', b) = From(leaf, b)
  <2> DEFINE c == leaf
             d == leaf'
  <2>1. Longer(c, r, d) /\ Chain(c) BY <1>1, <1>2 DEF Longer
  <2> HIDE DEF c, d
  <2>2. /\ Chain(d) /\ Len(d) = Len(c) + 1 /\ d[Len(d)] = r
        /\ \A b \in 1 .. Len(c) : d[b] = c[b]
        /\ \A b \in 0 .. Len(c) : Linked(d)[b] = Linked(c)[b] /\ From(d, b) = From(c, b)
    BY <1>3, <2>1, LeafAppended
  <2> QED BY <2>2 DEF c, d
<1>5. TypePages'
  <2>1. DOMAIN leaf' = 1 .. Len(leaf) + 1 BY <1>4, ChainFacts
  <2>2. \A b \in 1 .. Len(leaf) : SmSize(leaf[b].tids) <= LeafBudget BY <1>0, PageFacts DEF FitsLeaf
  <2>3. ASSUME NEW b \in 1 .. Len(leaf) + 1 PROVE SmSize(leaf'[b].tids) <= LeafBudget
    <3>1. CASE b = Len(leaf) + 1
      <4>1. leaf'[b] = r BY <1>4, <3>1
      <4> QED BY <1>1, <1>3, <4>1
    <3>2. CASE b # Len(leaf) + 1
      <4>1. b \in 1 .. Len(leaf) BY <1>2, <3>2
      <4> QED BY <1>4, <2>2, <4>1
    <3> QED BY <3>1, <3>2
  <2>4. \A b \in DOMAIN leaf' : SmSize(leaf'[b].tids) <= LeafBudget' BY <1>1, <2>1, <2>3 DEF LeafBudget
  <2>5. entry.root <= Len(leaf') BY <1>0, <1>2, <1>4
  <2> QED BY <1>0, <1>1, <1>4, <2>4, <2>5 DEF TypePages, FitsLeaf
<1>6. Live' = {} /\ Posting' = Posting /\ Posting = entry.tids
  <2>1. Linked(leaf')[0] = {} BY <1>4, LinkedDef
  <2> QED BY <1>0, <1>1, <2>1 DEF Live, Posting
<1>7. TypeVacuum'
  <2>1. held \subseteq 0 .. Len(leaf) /\ 0 .. Len(leaf) \subseteq 0 .. Len(leaf') BY <1>2, <1>4 DEF IInv, TypeVacuum
  <2> QED BY <1>1, <2>1 DEF IInv, TypeVacuum
<1>8. TypeScan'
  <2>1. \A s \in Scanners : blk[s] \in 0 .. Len(leaf') BY <1>2, <1>4 DEF IInv, TypeScan
  <2>2. blk \in [Scanners -> 0 .. Len(leaf')] BY <2>1 DEF IInv, TypeScan
  <2> QED BY <1>1, <2>2 DEF IInv, TypeScan, scanVars
<1>9. ScanInv'
  <2> SUFFICES ASSUME NEW s \in Scanners
               PROVE  /\ must[s] \cap dead = {}
                      /\ at[s] = "walk" => must[s] \subseteq acc[s] \cup From(leaf', blk[s])
                      /\ at[s] = "done" => must[s] \subseteq acc[s]
    BY <1>1 DEF ScanInv, scanVars
  <2>1. blk[s] \in 0 .. Len(leaf) BY DEF IInv, TypeScan
  <2>2. From(leaf', blk[s]) = From(leaf, blk[s]) BY <1>4, <2>1
  <2> QED BY <2>2 DEF IInv, ScanInv
<1>10. LiveInv' BY <1>6 DEF LiveInv
<1>11. WalkInv' /\ PassedInv' BY <1>1 DEF WalkInv, PassedInv, Walking
<1>12. DoneInv' BY <1>1 DEF DoneInv, OnlyOverflowKeepsDead, StatsExact, EmptiedLeavesGo
<1>13. BeforeInv'
  <2>1. before = Posting /\ n_remaining = 0 /\ n_removed = Cardinality(before) - Cardinality(Posting)
        /\ before \ dead \subseteq Posting
    BY <1>0 DEF IInv, BeforeInv, Running
  <2>2. leaf' # <<>> BY <1>2, <1>4
  <2>3. leaf'[Len(leaf')] = [tids |-> entry.tids \ dead, right_link |-> Invalid, deleted |-> FALSE]
    BY <1>4 DEF r
  <2> QED BY <1>0, <1>1, <1>6, <2>1, <2>2, <2>3 DEF BeforeInv, Running
<1> QED BY <1>5, <1>7, <1>8, <1>9, <1>10, <1>11, <1>12, <1>13 DEF IInv, DoneInv

(* The entry is pointed to the new leaf.                                   *)
LEMMA MigrateRepointStep == ASSUME IInv, MigrateRepoint PROVE IInv'
<1> DEFINE S == entry.tids
           K == S \ dead
           n == Len(leaf)
<1>0. TypePages /\ entry.kind = "inline" /\ pc = "repoint" /\ S \in SUBSET Tids
      /\ leaf # <<>> /\ before = Posting
      /\ leaf[n] = [tids |-> K, right_link |-> Invalid, deleted |-> FALSE]
  BY PageFacts DEF MigrateRepoint, IInv, BeforeInv
<1>1. /\ entry' = Out("chain", n, {}) /\ layout' = layout /\ leaf' = leaf
      /\ n_removed' = Cardinality(S \cap dead) /\ n_remaining' = Cardinality(K)
      /\ held' = {} /\ pc' = "done"
      /\ UNCHANGED <<dead, prev, cur, next, before, scanVars>>
  BY DEF MigrateRepoint
<1>2. n \in Nat \ {0} /\ Chain(leaf)
  <2>1. Chain(leaf) /\ leaf \in Seq(LeafRec) BY <1>0, PageFacts, ChainFacts
  <2> QED BY <1>0, <2>1, EmptySeq, LenProperties
<1>3. entry' \in EntryRec /\ entry'.kind = "chain" /\ entry'.root = n /\ entry'.tids = {}
  BY <1>1, <1>2 DEF EntryRec, Out
<1>4. leaf[n].tids = K /\ leaf[n].right_link = 0 /\ ~leaf[n].deleted BY <1>0 DEF Invalid
<1>5. Linked(leaf)[n] = {n}
  <2>1. n \in 1 .. Len(leaf) BY <1>2
  <2> QED BY <1>2, <1>4, <2>1, LinkedDef
<1>6. From(leaf, n) = K BY <1>4, <1>5 DEF From
<1>7. Live' = {n} /\ Posting' = K /\ Posting = S BY <1>0, <1>1, <1>3, <1>5, <1>6 DEF Live, Posting
<1>8. /\ Cardinality(K) = Cardinality(S) - Cardinality(S \cap dead) /\ Cardinality(S) \in Nat
      /\ Cardinality(S \cap dead) \in Nat /\ Cardinality(K) \in Nat
  BY <1>0, TakenOut, TidSets
<1> HIDE DEF S, n
<1>9. n <= Len(leaf) /\ n # 0 BY <1>2 DEF n
<1>10. TypePages' BY <1>0, <1>1, <1>3, <1>9 DEF TypePages, Chain, FitsLeaf, LeafBudget, Invalid
<1>11. TypeVacuum' BY <1>1, <1>8 DEF IInv, TypeVacuum
<1>12. TypeScan' /\ ScanInv' BY <1>1, SameScans
<1>13. LiveInv' BY <1>1, <1>4, <1>7 DEF LiveInv
<1>14. WalkInv' /\ PassedInv' BY <1>1 DEF WalkInv, PassedInv, Walking
<1>15. before' \ dead' \subseteq Posting' /\ Posting' \subseteq before' BY <1>0, <1>1, <1>7
<1>16. BeforeInv' BY <1>1, <1>15 DEF BeforeInv, Running
<1>17. leaf'[n].tids \cap dead' = {} BY <1>1, <1>4
<1> HIDE DEF K
<1>18. OnlyOverflowKeepsDead'
  <2>1. \A b \in Live' : leaf'[b].tids \cap dead' = {} BY <1>7, <1>17
  <2> QED BY <1>3, <1>15, <2>1 DEF OnlyOverflowKeepsDead, Live
<1>19. StatsExact'
  <2>1. Cardinality(before') - Cardinality(Posting') = Cardinality(S \cap dead) BY <1>0, <1>1, <1>7, <1>8
  <2> QED BY <1>1, <1>7, <2>1 DEF StatsExact
<1>20. EmptiedLeavesGo'
  <2>1. \A b \in Live' : ~leaf'[b].deleted /\ b = entry'.root BY <1>1, <1>3, <1>4, <1>7
  <2> QED BY <2>1 DEF EmptiedLeavesGo, Live
<1> QED BY <1>10, <1>11, <1>12, <1>13, <1>14, <1>16, <1>18, <1>19, <1>20 DEF IInv

(* A posting that stays as it is.                                          *)
LEMMA KeptStep == ASSUME IInv, InlineKept \/ CoalescedSkipped PROVE IInv'
<1>0. UNCHANGED chainVars /\ pc = "upper" /\ pc' = "done" /\ held' = {}
      /\ UNCHANGED <<dead, prev, cur, next, n_removed, before, scanVars>>
      /\ entry.kind \in {"inline", "coalesced"}
  BY DEF InlineKept, CoalescedSkipped
<1>1. /\ TypePages' /\ LiveInv' /\ Live' = Live /\ Posting' = Posting
      /\ layout' = layout /\ entry' = entry /\ leaf' = leaf
  BY <1>0, SameChain
<1>2. entry.tids \in SUBSET Tids /\ Posting = entry.tids /\ Cardinality(entry.tids) \in Nat
  BY <1>0, PageFacts, TidSets DEF IInv, Posting
<1>3. before = Posting /\ n_removed = Cardinality(before) - Cardinality(Posting) /\ n_remaining = 0
  BY <1>0 DEF IInv, BeforeInv, Running
<1>4. n_remaining' \in Nat /\ (entry.kind = "inline" => n_remaining' = Cardinality(entry.tids))
  BY <1>2, <1>3 DEF InlineKept, CoalescedSkipped
<1>5. TypeVacuum' BY <1>0, <1>4 DEF IInv, TypeVacuum
<1>6. TypeScan' /\ ScanInv' BY <1>0, <1>1, SameScans
<1>7. WalkInv' /\ PassedInv' BY <1>0 DEF WalkInv, PassedInv, Walking
<1>8. BeforeInv' BY <1>0, <1>1, <1>3 DEF BeforeInv, Running
<1>9. entry.kind = "inline" => SmSize(entry.tids \ dead) > LeafBudget
  BY DEF InlineKept, CoalescedSkipped
<1>10. OnlyOverflowKeepsDead'
  <2>1. entry'.kind = "inline" => SmSize(entry'.tids \ dead') > LeafBudget'
    BY <1>0, <1>1, <1>9 DEF LeafBudget
  <2>2. entry'.kind # "chain" BY <1>0, <1>1
  <2>3. before' \ dead' \subseteq Posting' /\ Posting' \subseteq before' BY <1>0, <1>1, <1>3
  <2> QED BY <2>1, <2>2, <2>3 DEF OnlyOverflowKeepsDead
<1>11. StatsExact'
  <2> SUFFICES ASSUME entry'.kind # "coalesced"
               PROVE  /\ n_remaining' = Cardinality(Posting')
                      /\ n_removed' = Cardinality(before') - Cardinality(Posting')
    BY DEF StatsExact
  <2>1. entry.kind = "inline" BY <1>0, <1>1
  <2> QED BY <1>0, <1>1, <1>2, <1>3, <1>4, <2>1
<1>12. EmptiedLeavesGo' BY <1>0, <1>1 DEF EmptiedLeavesGo
<1> QED BY <1>1, <1>5, <1>6, <1>7, <1>8, <1>10, <1>11, <1>12 DEF IInv

(* Behind a leaf of the chain comes the one it links to, and none between. *)
LEMMA LiveNext ==
    ASSUME TypePages, NEW x \in Live
    PROVE  /\ x \in 1 .. Len(leaf) /\ leaf[x].right_link \in 0 .. x - 1
           /\ \A b \in Live : b > leaf[x].right_link <=> b >= x
           /\ (leaf[x].right_link # 0 => leaf[x].right_link \in Live)
<1> DEFINE l == leaf[x].right_link
           L == Linked(leaf)
<1>1. Chain(leaf) /\ Len(leaf) \in Nat /\ entry.root \in 0 .. Len(leaf) /\ x \in 1 .. Len(leaf)
      /\ l \in 0 .. x - 1 /\ l \in 0 .. Len(leaf) /\ Live \subseteq 1 .. Len(leaf)
  BY PageFacts
<1>2. L[x] = {x} \cup L[l] BY <1>1, LinkedDef
<1>3. L[l] \subseteq 1 .. l /\ (l # 0 => l \in L[l]) BY <1>1, LinkedBelow
<1>4. \A y : y \in L[x] <=> y \in Live /\ y <= x BY <1>1, LinkedOrder DEF Live
<1> HIDE DEF l, L
<1>5. l # 0 => l \in Live BY <1>2, <1>3, <1>4
<1>6. ASSUME NEW b \in Live PROVE b > l <=> b >= x
  <2>1. b \in Nat /\ x \in Nat /\ l \in Nat /\ l < x BY <1>1
  <2>2. CASE b >= x BY <2>1, <2>2
  <2>3. CASE ~(b >= x)
    <3>1. b <= x /\ b # x BY <2>1, <2>3
    <3>2. b \in L[l] BY <1>2, <1>4, <3>1
    <3>3. b <= l BY <1>3, <2>1, <3>2
    <3> QED BY <2>1, <2>3, <3>3
  <2> QED BY <2>2, <2>3
<1> QED BY <1>1, <1>5, <1>6 DEF l

(* The leaf VACUUM is at is on the chain.                                  *)
LEMMA CurLive ==
    ASSUME IInv, Walking, cur # Invalid
    PROVE  cur \in Live
<1>1. TypePages /\ entry.root # 0 /\ entry.kind = "chain" BY DEF IInv, WalkInv, TypePages, Invalid
<1>2. CASE prev = Invalid BY <1>1, <1>2, PageFacts DEF IInv, WalkInv
<1>3. CASE prev # Invalid
  <2>1. prev \in Live /\ leaf[prev].right_link = cur BY <1>3 DEF IInv, WalkInv
  <2> QED BY <1>1, <2>1, LiveNext DEF Invalid
<1> QED BY <1>2, <1>3

(* VACUUM starts along the chain.                                          *)
LEMMA ChainStartStep == ASSUME IInv, ChainStart PROVE IInv'
<1>0. /\ UNCHANGED chainVars /\ pc = "upper" /\ pc' = "leaf" /\ entry.kind = "chain"
      /\ cur' = entry.root /\ prev' = Invalid /\ held' = {}
      /\ UNCHANGED <<dead, next, n_removed, n_remaining, before, scanVars>>
  BY DEF ChainStart
<1>1. /\ TypePages' /\ LiveInv' /\ Live' = Live /\ Posting' = Posting
      /\ layout' = layout /\ entry' = entry /\ leaf' = leaf
  BY <1>0, SameChain
<1>2. entry.root \in Nat /\ Live \subseteq 1 .. entry.root BY PageFacts DEF IInv
<1>3. before = Posting /\ n_removed = Cardinality(before) - Cardinality(Posting) /\ n_remaining = 0
  BY <1>0 DEF IInv, BeforeInv, Running
<1>4. TypeVacuum' BY <1>0, <1>2 DEF IInv, TypeVacuum, Invalid
<1>5. TypeScan' /\ ScanInv' BY <1>0, <1>1, SameScans
<1>6. WalkInv' BY <1>0, <1>1 DEF WalkInv
<1>7. PassedInv'
  <2>0. \A b \in Live : ~(b > entry.root) BY <1>2
  <2>1. Passed' = {}
    <3>1. \A b \in Live' : ~(b > cur') BY <1>0, <1>1, <2>0
    <3>2. pc' # "advance" BY <1>0
    <3> QED BY <3>1, <3>2 DEF Passed
  <2>2. UNION {leaf'[b].tids : b \in Passed'} = {} BY <2>1
  <2> QED BY <1>0, <1>3, <2>1, <2>2, FS_EmptySet DEF PassedInv
<1>8. BeforeInv' BY <1>0, <1>1, <1>3 DEF BeforeInv, Running
<1>9. DoneInv' BY <1>0 DEF DoneInv, OnlyOverflowKeepsDead, StatsExact, EmptiedLeavesGo
<1> QED BY <1>1, <1>4, <1>5, <1>6, <1>7, <1>8, <1>9 DEF IInv, DoneInv

(* VACUUM goes on to the next leaf.                                        *)
LEMMA LeafAdvanceStep == ASSUME IInv, LeafAdvance PROVE IInv'
<1>0. /\ UNCHANGED chainVars /\ pc = "advance" /\ pc' = "leaf"
      /\ cur' = next /\ prev' = cur /\ held' = {cur}
      /\ UNCHANGED <<dead, next, n_removed, n_remaining, before, scanVars>>
  BY DEF LeafAdvance
<1>1. /\ TypePages' /\ LiveInv' /\ Live' = Live /\ Posting' = Posting
      /\ layout' = layout /\ entry' = entry /\ leaf' = leaf
  BY <1>0, SameChain
<1>2. Walking /\ cur # Invalid /\ next = leaf[cur].right_link /\ entry.kind = "chain"
  BY <1>0 DEF IInv, WalkInv, Walking
<1>3. cur \in Live BY <1>2, CurLive
<1>4. cur \in 1 .. Len(leaf) /\ \A b \in Live : b > next <=> b >= cur
  BY <1>2, <1>3, LiveNext DEF IInv
<1>5. TypeVacuum' BY <1>0, <1>1, <1>4 DEF IInv, TypeVacuum
<1>6. TypeScan' /\ ScanInv' BY <1>0, <1>1, SameScans
<1>7. WalkInv' BY <1>0, <1>1, <1>2, <1>3 DEF WalkInv
<1>8. PassedInv'
  <2>1. Passed' = Passed
    <3>1. \A b \in Live : b > next <=> (b > cur \/ b = cur)
      <4>1. Live \subseteq 1 .. Len(leaf) /\ Len(leaf) \in Nat BY PageFacts DEF IInv
      <4> QED BY <1>4, <4>1
    <3> QED BY <1>0, <1>1, <3>1 DEF Passed
  <2>2. \A b \in Passed : Good(b)' <=> Good(b)
    BY <1>0, <1>1 DEF Good, FitsLeaf, LeafBudget
  <2> QED BY <1>0, <1>1, <1>2, <2>1, <2>2 DEF IInv, PassedInv
<1>9. BeforeInv' BY <1>0, <1>1 DEF IInv, BeforeInv, Running
<1>10. DoneInv' BY <1>0 DEF DoneInv, OnlyOverflowKeepsDead, StatsExact, EmptiedLeavesGo
<1> QED BY <1>1, <1>5, <1>6, <1>7, <1>8, <1>9, <1>10 DEF IInv, DoneInv

(* The end of the chain.                                                   *)
LEMMA ChainEndStep == ASSUME IInv, ChainEnd PROVE IInv'
<1>0. /\ UNCHANGED chainVars /\ pc = "leaf" /\ cur = 0 /\ pc' = "done"
      /\ prev' = Invalid /\ held' = {}
      /\ UNCHANGED <<dead, cur, next, n_removed, n_remaining, before, scanVars>>
  BY DEF ChainEnd, Invalid
<1>1. /\ TypePages' /\ LiveInv' /\ Live' = Live /\ Posting' = Posting
      /\ layout' = layout /\ entry' = entry /\ leaf' = leaf
  BY <1>0, SameChain
<1>2. Walking /\ entry.kind = "chain" BY <1>0 DEF IInv, WalkInv, Walking
<1>3. Passed = Live
  <2>1. Live \subseteq 1 .. Len(leaf) /\ Len(leaf) \in Nat BY PageFacts DEF IInv
  <2>2. \A b \in Live : b > cur BY <1>0, <2>1
  <2> QED BY <2>2 DEF Passed
<1>4. Posting = UNION {leaf[b].tids : b \in Live} BY <1>2 DEF Posting, From, Live
<1>5. /\ \A b \in Live : Good(b)
      /\ n_remaining = Cardinality(Posting)
  BY <1>2, <1>3, <1>4 DEF IInv, PassedInv
<1>6. /\ before \ dead \subseteq Posting /\ Posting \subseteq before
      /\ n_removed = Cardinality(before) - Cardinality(Posting)
  BY <1>0 DEF IInv, BeforeInv, Running
<1>7. TypeVacuum' BY <1>0 DEF IInv, TypeVacuum, Invalid
<1>8. TypeScan' /\ ScanInv' BY <1>0, <1>1, SameScans
<1>9. WalkInv' /\ PassedInv' BY <1>0 DEF WalkInv, PassedInv, Walking
<1>10. BeforeInv' BY <1>0, <1>1, <1>6 DEF BeforeInv, Running
<1>11. OnlyOverflowKeepsDead'
  <2>1. \A b \in Live : leaf[b].tids \cap dead # {} => SmSize(leaf[b].tids \ dead) > LeafBudget
    <3> TAKE b \in Live
    <3> HAVE leaf[b].tids \cap dead # {}
    <3>1. ~(SmSize(leaf[b].tids \ dead) <= LeafBudget) BY <1>5 DEF Good, FitsLeaf
    <3>2. leaf[b].tids \ dead \in SUBSET Tids BY PageFacts DEF IInv
    <3>3. SmSize(leaf[b].tids \ dead) \in Nat BY <3>2, TidSets
    <3>4. LeafBudget \in Nat BY PageFacts DEF IInv
    <3> QED BY <3>1, <3>3, <3>4
  <2>2. \A b \in Live' : leaf'[b].tids \cap dead' # {} => SmSize(leaf'[b].tids \ dead') > LeafBudget'
    BY <1>0, <1>1, <2>1 DEF LeafBudget
  <2>3. before' \ dead' \subseteq Posting' /\ Posting' \subseteq before' BY <1>0, <1>1, <1>6
  <2> QED BY <1>1, <1>2, <2>2, <2>3 DEF OnlyOverflowKeepsDead, Live
<1>12. StatsExact' BY <1>0, <1>1, <1>5, <1>6 DEF StatsExact
<1>13. EmptiedLeavesGo'
  <2>1. \A b \in Live : ~leaf[b].deleted /\ (leaf[b].tids = {} => b = entry.root)
    BY <1>5 DEF IInv, LiveInv, Good
  <2> QED BY <1>1, <2>1 DEF EmptiedLeavesGo, Live
<1> QED BY <1>1, <1>7, <1>8, <1>9, <1>10, <1>11, <1>12, <1>13 DEF IInv

(* VACUUM is finished with the posting.                                    *)
LEMMA BulkDeleteEndStep == ASSUME IInv, BulkDeleteEnd PROVE IInv'
<1>0. /\ UNCHANGED chainVars /\ pc' = "idle" /\ dead' = {} /\ before' = {}
      /\ n_removed' = 0 /\ n_remaining' = 0
      /\ UNCHANGED <<held, prev, cur, next, scanVars>>
  BY DEF BulkDeleteEnd
<1>1. /\ TypePages' /\ LiveInv' /\ Live' = Live /\ Posting' = Posting
      /\ layout' = layout /\ entry' = entry /\ leaf' = leaf
  BY <1>0, SameChain
<1>2. TypeVacuum' BY <1>0, <1>1 DEF IInv, TypeVacuum
<1>3. TypeScan' /\ ScanInv' BY <1>0, <1>1, SameScans
<1>4. WalkInv' /\ PassedInv' /\ BeforeInv' BY <1>0 DEF WalkInv, PassedInv, BeforeInv, Walking, Running
<1>5. DoneInv' BY <1>0 DEF DoneInv, OnlyOverflowKeepsDead, StatsExact, EmptiedLeavesGo
<1> QED BY <1>1, <1>2, <1>3, <1>4, <1>5 DEF IInv, DoneInv

(* A crash.                                                                *)
LEMMA CrashStep == ASSUME IInv, Crash PROVE IInv'
<1>0. /\ UNCHANGED chainVars /\ held' = {} /\ pc' = "idle" /\ dead' = {} /\ before' = {}
      /\ prev' = Invalid /\ cur' = Invalid /\ next' = Invalid
      /\ n_removed' = 0 /\ n_remaining' = 0
      /\ at' = [s \in Scanners |-> "idle"] /\ blk' = [s \in Scanners |-> Invalid]
      /\ acc' = [s \in Scanners |-> {}] /\ must' = [s \in Scanners |-> {}]
  BY DEF Crash
<1>1. /\ TypePages' /\ LiveInv' /\ Live' = Live /\ Posting' = Posting
      /\ layout' = layout /\ entry' = entry /\ leaf' = leaf
  BY <1>0, SameChain
<1>2. Len(leaf) \in Nat BY PageFacts DEF IInv
<1>3. TypeVacuum' BY <1>0, <1>1 DEF IInv, TypeVacuum, Invalid
<1>4. TypeScan' /\ ScanInv' BY <1>0, <1>1, <1>2 DEF TypeScan, ScanInv, Invalid
<1>5. WalkInv' /\ PassedInv' /\ BeforeInv' BY <1>0 DEF WalkInv, PassedInv, BeforeInv, Walking, Running
<1>6. DoneInv' BY <1>0 DEF DoneInv, OnlyOverflowKeepsDead, StatsExact, EmptiedLeavesGo
<1> QED BY <1>1, <1>3, <1>4, <1>5, <1>6 DEF IInv, DoneInv

-----------------------------------------------------------------------------
(* What the scans do changes nothing of pages and VACUUM.                  *)
LEMMA SameVacuum ==
    ASSUME IInv, UNCHANGED <<chainVars, vacVars>>
    PROVE  /\ TypePages' /\ TypeVacuum' /\ LiveInv' /\ WalkInv' /\ PassedInv' /\ BeforeInv' /\ DoneInv'
           /\ layout' = layout /\ entry' = entry /\ leaf' = leaf /\ dead' = dead
<1>0. UNCHANGED <<held, pc, dead, prev, cur, next, n_removed, n_remaining, before>> BY DEF vacVars
<1>1. /\ TypePages' /\ LiveInv' /\ Live' = Live /\ Posting' = Posting
      /\ layout' = layout /\ entry' = entry /\ leaf' = leaf
  BY SameChain
<1>2. TypeVacuum' BY <1>0, <1>1 DEF IInv, TypeVacuum
<1>3. WalkInv' BY <1>0, <1>1 DEF IInv, WalkInv, Walking
<1>4. PassedInv'
  <2>1. Passed' = Passed BY <1>0, <1>1 DEF Passed
  <2>2. \A b \in Passed : Good(b)' <=> Good(b) BY <1>0, <1>1 DEF Good, FitsLeaf, LeafBudget
  <2> QED BY <1>0, <1>1, <2>1, <2>2 DEF IInv, PassedInv, Walking
<1>5. BeforeInv' BY <1>0, <1>1 DEF IInv, BeforeInv, Running
<1>6. DoneInv'
  <2>1. LeafBudget' = LeafBudget BY <1>1 DEF LeafBudget
  <2>2. OnlyOverflowKeepsDead' BY <1>0, <1>1, <2>1 DEF IInv, OnlyOverflowKeepsDead
  <2>3. StatsExact' /\ EmptiedLeavesGo' BY <1>0, <1>1 DEF IInv, StatsExact, EmptiedLeavesGo
  <2> QED BY <2>2, <2>3 DEF DoneInv
<1> QED BY <1>0, <1>1, <1>2, <1>3, <1>4, <1>5, <1>6

(* A scan looks the posting up.                                            *)
LEMMA ScanLookupStep == ASSUME IInv, NEW s \in Scanners, ScanLookup(s) PROVE IInv'
<1>0. /\ must' = [must EXCEPT ![s] = Posting \ dead] /\ acc' = [acc EXCEPT ![s] = entry.tids]
      /\ blk' = [blk EXCEPT ![s] = entry.root] /\ at' = [at EXCEPT ![s] = "walk"]
      /\ UNCHANGED <<chainVars, vacVars>>
  BY DEF ScanLookup
<1>1. /\ TypePages' /\ TypeVacuum' /\ LiveInv' /\ WalkInv' /\ PassedInv' /\ BeforeInv' /\ DoneInv'
      /\ layout' = layout /\ entry' = entry /\ leaf' = leaf /\ dead' = dead
  BY <1>0, SameVacuum
<1>2. TypePages /\ TypeScan /\ ScanInv BY DEF IInv
<1>3. Posting \in SUBSET Tids /\ entry.tids \in SUBSET Tids /\ entry.root \in 0 .. Len(leaf)
  BY <1>2, PostingTypes, PageFacts
<1>4. TypeScan' BY <1>0, <1>1, <1>2, <1>3 DEF TypeScan
<1>5. Posting \subseteq entry.tids \cup From(leaf, entry.root) BY <1>2 DEF Posting
<1>6. ScanInv'
  <2> SUFFICES ASSUME NEW r \in Scanners
               PROVE  /\ must'[r] \cap dead = {}
                      /\ at'[r] = "walk" => must'[r] \subseteq acc'[r] \cup From(leaf, blk'[r])
                      /\ at'[r] = "done" => must'[r] \subseteq acc'[r]
    BY <1>1 DEF ScanInv
  <2>1. CASE r = s
    <3>1. must'[r] = Posting \ dead /\ acc'[r] = entry.tids /\ blk'[r] = entry.root /\ at'[r] = "walk"
      BY <1>0, <1>2, <2>1 DEF TypeScan
    <3> QED BY <1>5, <3>1
  <2>2. CASE r # s
    <3>1. must'[r] = must[r] /\ acc'[r] = acc[r] /\ blk'[r] = blk[r] /\ at'[r] = at[r]
      BY <1>0, <1>2, <2>2 DEF TypeScan
    <3> QED BY <1>2, <3>1 DEF ScanInv
  <2> QED BY <2>1, <2>2
<1> QED BY <1>1, <1>4, <1>6 DEF IInv, DoneInv

(* From a leaf on: its TIDs and those behind it.                           *)
LEMMA FromStep ==
    ASSUME NEW c, Chain(c), NEW b \in 1 .. Len(c)
    PROVE  From(c, b) = c[b].tids \cup From(c, c[b].right_link)
<1>1. Linked(c)[b] = {b} \cup Linked(c)[c[b].right_link] BY LinkedDef
<1> QED BY <1>1 DEF From

(* A scan copies a leaf.                                                   *)
LEMMA ScanLeafStep == ASSUME IInv, NEW s \in Scanners, ScanLeaf(s) PROVE IInv'
<1> DEFINE b == blk[s]
           S == leaf[b].tids
           l == leaf[b].right_link
<1>2. TypePages /\ TypeScan /\ ScanInv BY DEF IInv
<1>0. /\ at[s] = "walk" /\ b # 0
      /\ acc' = [acc EXCEPT ![s] = acc[s] \cup S] /\ blk' = [blk EXCEPT ![s] = l]
      /\ UNCHANGED <<chainVars, vacVars, at, must>>
  BY <1>2 DEF ScanLeaf, Invalid, TypeScan
<1>1. /\ TypePages' /\ TypeVacuum' /\ LiveInv' /\ WalkInv' /\ PassedInv' /\ BeforeInv' /\ DoneInv'
      /\ layout' = layout /\ entry' = entry /\ leaf' = leaf /\ dead' = dead
  BY <1>0, SameVacuum
<1>3. b \in 1 .. Len(leaf) BY <1>0, <1>2, PageFacts DEF TypeScan
<1>4. S \in SUBSET Tids /\ l \in 0 .. Len(leaf) /\ Chain(leaf) BY <1>2, <1>3, PageFacts
<1>5. From(leaf, b) = S \cup From(leaf, l) BY <1>3, <1>4, FromStep
<1> HIDE DEF S, l
<1>6. TypeScan' BY <1>0, <1>1, <1>2, <1>4 DEF TypeScan
<1>7. ScanInv'
  <2> SUFFICES ASSUME NEW r \in Scanners
               PROVE  /\ must[r] \cap dead = {}
                      /\ at[r] = "walk" => must[r] \subseteq acc'[r] \cup From(leaf, blk'[r])
                      /\ at[r] = "done" => must[r] \subseteq acc'[r]
    BY <1>0, <1>1 DEF ScanInv
  <2>1. CASE r = s
    <3>1. acc'[r] = acc[s] \cup S /\ blk'[r] = l BY <1>0, <1>2, <2>1 DEF TypeScan
    <3>2. must[s] \cap dead = {} /\ must[s] \subseteq acc[s] \cup From(leaf, b) BY <1>0, <1>2 DEF ScanInv
    <3> QED BY <1>0, <1>5, <2>1, <3>1, <3>2
  <2>2. CASE r # s
    <3>1. acc'[r] = acc[r] /\ blk'[r] = blk[r] BY <1>0, <1>2, <2>2 DEF TypeScan
    <3> QED BY <1>2, <3>1 DEF ScanInv
  <2> QED BY <2>1, <2>2
<1> QED BY <1>1, <1>6, <1>7 DEF IInv, DoneInv

(* A scan has reached the end, or is closed.                               *)
LEMMA ScanEndStep == ASSUME IInv, NEW s \in Scanners, ScanEnd(s) \/ ScanClose(s) PROVE IInv'
<1>0. UNCHANGED <<chainVars, vacVars>> BY DEF ScanEnd, ScanClose
<1>1. /\ TypePages' /\ TypeVacuum' /\ LiveInv' /\ WalkInv' /\ PassedInv' /\ BeforeInv' /\ DoneInv'
      /\ layout' = layout /\ entry' = entry /\ leaf' = leaf /\ dead' = dead
  BY <1>0, SameVacuum
<1>2. TypePages /\ TypeScan /\ ScanInv BY DEF IInv
<1>3. TypeScan' BY <1>1, <1>2 DEF TypeScan, ScanEnd, ScanClose
<1>4. ScanInv'
  <2> SUFFICES ASSUME NEW r \in Scanners
               PROVE  /\ must'[r] \cap dead = {}
                      /\ at'[r] = "walk" => must'[r] \subseteq acc'[r] \cup From(leaf, blk'[r])
                      /\ at'[r] = "done" => must'[r] \subseteq acc'[r]
    BY <1>1 DEF ScanInv
  <2>1. CASE r = s /\ ScanEnd(s)
    <3>1. at[s] = "walk" /\ blk[s] = 0 /\ at'[s] = "done" /\ acc'[s] = acc[s] /\ must'[s] = must[s]
      BY <1>2, <2>1 DEF TypeScan, ScanEnd, Invalid
    <3>2. From(leaf, 0) = {}
      <4>1. Chain(leaf) /\ Len(leaf) \in Nat BY <1>2, PageFacts
      <4> QED BY <4>1, FromTypes
    <3> QED BY <1>2, <2>1, <3>1, <3>2 DEF ScanInv
  <2>2. CASE r = s /\ ScanClose(s)
    <3>1. at'[s] = "idle" /\ must'[s] = {} BY <1>2, <2>2 DEF TypeScan, ScanClose
    <3> QED BY <2>2, <3>1
  <2>3. CASE r # s
    <3>1. must'[r] = must[r] /\ acc'[r] = acc[r] /\ blk'[r] = blk[r] /\ at'[r] = at[r]
      BY <1>2, <2>3 DEF TypeScan, ScanEnd, ScanClose
    <3> QED BY <1>2, <3>1 DEF ScanInv
  <2> QED BY <2>1, <2>2, <2>3
<1> QED BY <1>1, <1>3, <1>4 DEF IInv, DoneInv

-----------------------------------------------------------------------------
(* A chain with one leaf replaced.                                         *)
Replaced(c, q, r, d) == d = [c EXCEPT ![q] = r]

(* It is still a chain if the new leaf links downwards.                    *)
LEMMA LeafReplaced ==
    ASSUME NEW c, Chain(c), NEW q \in 1 .. Len(c), NEW r \in LeafRec, r.right_link < q,
           NEW d, Replaced(c, q, r, d)
    PROVE  /\ Chain(d) /\ Len(d) = Len(c) /\ d[q] = r
           /\ \A b \in 1 .. Len(c) : b # q => d[b] = c[b]
<1>0. /\ Len(c) \in Nat /\ c \in Seq(LeafRec)
      /\ \A b \in 1 .. Len(c) : c[b].right_link \in 0 .. b - 1
  BY ChainFacts
<1>1. /\ d \in Seq(LeafRec) /\ Len(d) = Len(c)
      /\ \A b \in 1 .. Len(c) : d[b] = IF b = q THEN r ELSE c[b]
  BY <1>0, ExceptSeq DEF Replaced
<1>2. d[q] = r /\ \A b \in 1 .. Len(c) : b # q => d[b] = c[b] BY <1>1
<1>3. ASSUME NEW b \in DOMAIN d PROVE d[b].right_link < b
  <2>1. b \in 1 .. Len(c) BY <1>1, LenProperties
  <2>2. CASE b = q BY <1>2, <2>2
  <2>3. CASE b # q
    <3>1. d[b].right_link = c[b].right_link /\ c[b].right_link \in 0 .. b - 1 BY <1>0, <1>2, <2>1, <2>3
    <3> QED BY <2>1, <3>1
  <2> QED BY <2>2, <2>3
<1> QED BY <1>1, <1>2, <1>3 DEF Chain

(* A leaf that loses TIDs and keeps its link: everything leads where it    *)
(* led, and finds all but those TIDs.                                      *)
LEMMA LeafShrunk ==
    ASSUME NEW c, Chain(c), NEW d, Chain(d), Len(d) = Len(c), NEW q \in 1 .. Len(c),
           d[q].right_link = c[q].right_link, d[q].tids \subseteq c[q].tids,
           \A b \in 1 .. Len(c) : b # q => d[b] = c[b],
           NEW b \in 0 .. Len(c)
    PROVE  /\ Linked(d)[b] = Linked(c)[b]
           /\ From(d, b) \subseteq From(c, b)
           /\ From(c, b) \ (c[q].tids \ d[q].tids) \subseteq From(d, b)
<1>0. Len(c) \in Nat /\ b <= Len(d) BY ChainFacts
<1>1. Linked(c)[b] \subseteq 1 .. Len(c) BY LinkedBelow
<1>2. \A x \in Linked(c)[b] : d[x].right_link = c[x].right_link BY <1>1
<1>3. Linked(d)[b] = Linked(c)[b] BY <1>0, <1>2, LinkedSame
<1>4. \A x \in Linked(c)[b] : d[x].tids \subseteq c[x].tids
                              /\ c[x].tids \ (c[q].tids \ d[q].tids) \subseteq d[x].tids
  BY <1>1
<1> QED BY <1>3, <1>4 DEF From

(* posting_leaf_delete.                                                    *)
LEMMA LeafDeleteStep == ASSUME IInv, LeafDelete PROVE IInv'
<1> DEFINE S == leaf[cur].tids
           K == S \ dead
           N == Len(leaf)
           G == S \ leaf'[cur].tids
<1>0. /\ TypePages /\ TypeVacuum /\ TypeScan /\ LiveInv /\ WalkInv /\ PassedInv /\ BeforeInv /\ ScanInv
  BY DEF IInv
<1>1. /\ pc = "leaf" /\ cur # 0 /\ Walking /\ Running /\ entry.kind = "chain"
      /\ next' = leaf[cur].right_link /\ held' = {prev, cur} \ {0}
      /\ leaf' = IF FitsLeaf(K) THEN [leaf EXCEPT ![cur].tids = K] ELSE leaf
      /\ n_removed' = n_removed + Cardinality(S) - KeptCount(cur)
      /\ n_remaining' = n_remaining + KeptCount(cur)
      /\ pc' = IF KeptCount(cur) = 0 /\ prev # 0 THEN "unlink" ELSE "advance"
      /\ UNCHANGED <<layout, entry, dead, prev, cur, before, scanVars>>
  BY <1>0 DEF LeafDelete, Invalid, Walking, Running, WalkInv
<1>2. /\ cur \in Live /\ cur \in 1 .. N /\ N \in Nat /\ Chain(leaf) /\ Live \subseteq 1 .. N
      /\ leaf[cur] \in LeafRec /\ S \in SUBSET Tids /\ leaf[cur].right_link < cur
      /\ leaf[cur].right_link \in Nat /\ entry.root \in 0 .. N /\ FitsLeaf(S) /\ DOMAIN leaf = 1 .. N
      /\ \A b \in 1 .. N : FitsLeaf(leaf[b].tids) /\ leaf[b].tids \in SUBSET Tids
  <2>1. cur \in Live BY <1>0, <1>1, CurLive DEF Invalid
  <2> QED BY <1>0, <2>1, PageFacts
<1>3. /\ Chain(leaf') /\ Len(leaf') = N /\ leaf'[cur].right_link = leaf[cur].right_link
      /\ leaf'[cur].deleted = leaf[cur].deleted
      /\ leaf'[cur].tids = (IF FitsLeaf(K) THEN K ELSE S)
      /\ \A b \in 1 .. N : b # cur => leaf'[b] = leaf[b]
  <2>1. CASE FitsLeaf(K)
    <3> DEFINE r == [leaf[cur] EXCEPT !.tids = K]
               c == leaf
               d == leaf'
    <3>1. /\ r \in LeafRec /\ r.tids = K /\ r.right_link = leaf[cur].right_link
          /\ r.deleted = leaf[cur].deleted
      BY <1>2 DEF LeafRec
    <3>2. Replaced(c, cur, r, d) BY <1>1, <2>1 DEF Replaced
    <3>3. Chain(c) /\ cur \in 1 .. Len(c) /\ r.right_link < cur BY <1>2, <3>1
    <3> HIDE DEF c, d, r
    <3>4. /\ Chain(d) /\ Len(d) = Len(c) /\ d[cur] = r
          /\ \A b \in 1 .. Len(c) : b # cur => d[b] = c[b]
      BY <3>1, <3>2, <3>3, LeafReplaced
    <3> QED BY <2>1, <3>1, <3>4 DEF c, d
  <2>2. CASE ~FitsLeaf(K) BY <1>1, <1>2, <2>2
  <2> QED BY <2>1, <2>2
<1>4. /\ leaf'[cur].tids \in SUBSET S /\ G \subseteq dead /\ FitsLeaf(leaf'[cur].tids)
      /\ (leaf'[cur].tids \cap dead # {} => ~FitsLeaf(leaf'[cur].tids \ dead))
      /\ KeptCount(cur) = Cardinality(leaf'[cur].tids)
  BY <1>2, <1>3 DEF KeptCount
<1>5. \A b \in 0 .. N : /\ Linked(leaf')[b] = Linked(leaf)[b]
                        /\ From(leaf', b) \subseteq From(leaf, b)
                        /\ From(leaf, b) \ G \subseteq From(leaf', b)
  <2> TAKE b \in 0 .. N
  <2> DEFINE c == leaf
             d == leaf'
  <2>1. /\ Chain(c) /\ Chain(d) /\ Len(d) = Len(c) /\ cur \in 1 .. Len(c)
        /\ d[cur].right_link = c[cur].right_link /\ d[cur].tids \subseteq c[cur].tids
        /\ (\A x \in 1 .. Len(c) : x # cur => d[x] = c[x]) /\ b \in 0 .. Len(c)
    BY <1>2, <1>3, <1>4
  <2> HIDE DEF c, d
  <2>2. /\ Linked(d)[b] = Linked(c)[b] /\ From(d, b) \subseteq From(c, b)
        /\ From(c, b) \ (c[cur].tids \ d[cur].tids) \subseteq From(d, b)
    BY <2>1, LeafShrunk, SMTT(30)
  <2> QED BY <2>2 DEF c, d
<1>6. Live' = Live BY <1>1, <1>2, <1>5 DEF Live
<1>7. \A b \in 1 .. N : /\ leaf'[b].tids \subseteq leaf[b].tids /\ leaf'[b].deleted = leaf[b].deleted
                        /\ leaf'[b].right_link = leaf[b].right_link
  BY <1>3, <1>4
<1>8. LiveInv'
  <2>1. \A b, c \in Live : b # c => leaf'[b].tids \cap leaf'[c].tids = {}
    BY <1>0, <1>2, <1>7 DEF LiveInv
  <2>2. \A b \in Live : ~leaf'[b].deleted BY <1>0, <1>2, <1>7 DEF LiveInv
  <2> QED BY <1>6, <2>1, <2>2 DEF LiveInv
<1>9. TypePages'
  <2>1. \A b \in DOMAIN leaf' : FitsLeaf(leaf'[b].tids)
    <3>1. DOMAIN leaf' = 1 .. N BY <1>3, ChainFacts
    <3> QED BY <1>2, <1>3, <1>4, <3>1
  <2>2. (\A b \in DOMAIN leaf : FitsLeaf(leaf[b].tids))' BY <1>1, <2>1 DEF FitsLeaf, LeafBudget
  <2> QED BY <1>0, <1>1, <1>3, <2>2 DEF TypePages
<1> DEFINE P == Posting
           T == leaf'[cur].tids
<1>10. Posting' = P \ G /\ G \subseteq P /\ P \in SUBSET Tids
  <2>1. Posting = From(leaf, entry.root) /\ Posting' = From(leaf', entry.root) BY <1>1 DEF Posting
  <2>2. \A t \in G : t \in From(leaf, entry.root) BY <1>2 DEF From, Live
  <2>3. \A t \in G : t \notin From(leaf', entry.root)
    <3> SUFFICES ASSUME NEW t \in G, NEW x \in Live, t \in leaf'[x].tids PROVE FALSE
      BY <1>2, <1>5 DEF From, Live
    <3>1. x # cur OBVIOUS
    <3>2. t \in leaf[x].tids BY <1>2, <1>7
    <3> QED BY <1>0, <1>2, <3>1, <3>2 DEF LiveInv
  <2>4. From(leaf', entry.root) \subseteq From(leaf, entry.root)
        /\ From(leaf, entry.root) \ G \subseteq From(leaf', entry.root)
    BY <1>2, <1>5
  <2> HIDE DEF G
  <2> QED BY <1>0, <2>1, <2>2, <2>3, <2>4, PostingTypes
<1>11. /\ Cardinality(Posting') = Cardinality(P) - Cardinality(S) + Cardinality(T)
       /\ Cardinality(P) \in Nat /\ Cardinality(S) \in Nat /\ Cardinality(T) \in Nat
       /\ Cardinality(T) <= Cardinality(S) /\ (Cardinality(T) = 0 => T = {})
  <2>1. T \in SUBSET Tids /\ S \in SUBSET Tids BY <1>2, <1>4
  <2>2. /\ P \cap G = G /\ T = S \ G /\ S \cap G = G BY <1>4, <1>10
  <2> HIDE DEF G, T, P, S
  <2>3. Cardinality(P \ G) = Cardinality(P) - Cardinality(P \cap G) BY <1>10, TakenOut
  <2>4. /\ Cardinality(S \ G) = Cardinality(S) - Cardinality(S \cap G) /\ Cardinality(S \ G) <= Cardinality(S)
        /\ (Cardinality(S \ G) = 0 => S \ G = {}) /\ Cardinality(S \cap G) \in Nat
    BY <2>1, TakenOut
  <2>5. Cardinality(P) \in Nat /\ Cardinality(S) \in Nat /\ Cardinality(T) \in Nat BY <1>10, <2>1, TidSets
  <2>6. /\ Cardinality(Posting') = Cardinality(P) - Cardinality(G) /\ Cardinality(G) \in Nat
        /\ Cardinality(T) = Cardinality(S) - Cardinality(G)
    BY <1>10, <2>2, <2>3, <2>4
  <2> QED BY <2>2, <2>4, <2>5, <2>6
<1>12. n_removed \in Nat /\ n_remaining \in Nat /\ n_removed' = n_removed + Cardinality(S) - Cardinality(T)
       /\ n_remaining' = n_remaining + Cardinality(T)
  BY <1>0, <1>1, <1>4 DEF TypeVacuum
<1>13. TypeVacuum'
  <2>1. n_removed' \in Nat /\ n_remaining' \in Nat
    <3> HIDE DEF S, T
    <3> QED BY <1>11, <1>12
  <2>2. prev \in 0 .. N
    <3>1. prev = 0 \/ prev \in Live BY <1>0, <1>1 DEF WalkInv, Invalid
    <3>2. 0 \in 0 .. N /\ 1 .. N \subseteq 0 .. N BY <1>2
    <3>3. Live \subseteq 0 .. N BY <1>2, <3>2
    <3> HIDE DEF N
    <3> QED BY <3>1, <3>2, <3>3
  <2>3. held' \subseteq 0 .. Len(leaf') BY <1>1, <1>2, <1>3, <2>2
  <2>4. pc' \in {"unlink", "advance"} BY <1>1
  <2> QED BY <1>0, <1>1, <1>2, <2>1, <2>2, <2>3, <2>4 DEF TypeVacuum
<1>14. TypeScan' BY <1>0, <1>1, <1>3 DEF TypeScan, scanVars
<1>15. WalkInv'
  <2>1. pc' = "unlink" => prev # 0 /\ leaf'[cur].tids = {} BY <1>1, <1>4, <1>11
  <2>2. pc' \in {"unlink", "advance"} BY <1>1
  <2>3. IF prev = 0 THEN cur = entry.root ELSE prev \in Live /\ leaf'[prev].right_link = cur
    BY <1>0, <1>1, <1>2, <1>7 DEF WalkInv, Invalid
  <2> QED BY <1>1, <1>3, <1>6, <2>1, <2>2, <2>3 DEF WalkInv, Invalid
<1> DEFINE U == UNION {leaf[b].tids : b \in Passed}
<1>16. /\ Passed = {b \in Live : b > cur} /\ cur \notin Passed /\ Passed \subseteq Live
       /\ n_remaining = Cardinality(U) /\ U \in SUBSET Tids /\ U \cap T = {}
       /\ \A b \in Passed : b \in 1 .. N /\ leaf'[b] = leaf[b] /\ Good(b)
  <2>1. Passed = {b \in Live : b > cur} BY <1>1 DEF Passed
  <2>2. cur \notin Passed BY <1>2, <2>1
  <2>3. n_remaining = Cardinality(U) /\ \A b \in Passed : Good(b) BY <1>0, <1>1 DEF PassedInv
  <2>4. Passed \subseteq Live BY <2>1
  <2>5. \A b \in Passed : b \in 1 .. N /\ leaf'[b] = leaf[b] BY <1>2, <1>3, <2>2, <2>4
  <2>6. U \in SUBSET Tids BY <1>2, <2>5
  <2>7. U \cap S = {} BY <1>0, <1>2, <2>2, <2>4 DEF LiveInv
  <2> QED BY <1>4, <2>1, <2>2, <2>3, <2>4, <2>5, <2>6, <2>7
<1>17. PassedInv'
  <2>1. \A b \in Passed : Good(b)' BY <1>1, <1>16 DEF Good, FitsLeaf, LeafBudget
  <2>2. CASE pc' = "advance"
    <3>1. Passed' = Passed \cup {cur}
      <4>1. Passed' = {b \in Live : b > cur \/ b = cur} BY <1>1, <1>6, <2>2 DEF Passed
      <4> QED BY <1>2, <1>16, <4>1
    <3>2. Good(cur)'
      <4>1. T = {} => cur = entry.root
        <5> HAVE T = {}
        <5>1. KeptCount(cur) = 0 BY <1>4, FS_EmptySet
        <5>2. prev = 0 BY <1>1, <2>2, <5>1
        <5> QED BY <1>0, <1>1, <5>2 DEF WalkInv, Invalid
      <4>2. T \cap dead # {} => ~FitsLeaf(T \ dead) BY <1>4
      <4> QED BY <1>1, <4>1, <4>2 DEF Good, FitsLeaf, LeafBudget
    <3>3. UNION {leaf'[b].tids : b \in Passed'} = U \cup T
      <4>1. UNION {leaf'[b].tids : b \in Passed} = U BY <1>16
      <4> QED BY <3>1, <4>1
    <3>4. Cardinality(U \cup T) = Cardinality(U) + Cardinality(T)
      <4>1. T \in SUBSET Tids BY <1>2, <1>4
      <4> HIDE DEF U, T
      <4>2. IsFiniteSet(U) /\ IsFiniteSet(T) BY <1>16, <4>1, TidSets
      <4>3. Cardinality(U \cap T) = 0 BY <1>16, FS_EmptySet
      <4>4. Cardinality(U) \in Nat /\ Cardinality(T) \in Nat BY <1>16, <4>1, TidSets
      <4>5. Cardinality(U \cup T) = Cardinality(U) + Cardinality(T) - Cardinality(U \cap T)
        BY <4>2, FS_Union
      <4> QED BY <4>3, <4>4, <4>5
    <3>5. \A b \in Passed' : Good(b)' BY <1>1, <2>1, <3>1, <3>2
    <3>6. n_remaining' = Cardinality(UNION {leaf'[b].tids : b \in Passed'})
      <4> HIDE DEF U, T
      <4> QED BY <1>12, <1>16, <3>3, <3>4
    <3> QED BY <3>5, <3>6 DEF PassedInv
  <2>3. CASE pc' = "unlink"
    <3>1. Passed' = Passed BY <1>1, <1>6, <1>16, <2>3 DEF Passed
    <3>2. UNION {leaf'[b].tids : b \in Passed'} = U BY <1>16, <3>1
    <3>3. Cardinality(T) = 0 BY <1>1, <1>4, <2>3
    <3>4. n_remaining' = Cardinality(U)
      <4> HIDE DEF U, T
      <4> QED BY <1>12, <1>16, <3>3
    <3>5. \A b \in Passed' : Good(b)' BY <1>1, <2>1, <3>1
    <3> QED BY <3>2, <3>4, <3>5 DEF PassedInv
  <2> QED BY <1>1, <2>2, <2>3
<1>18. BeforeInv'
  <2>1. /\ before \ dead \subseteq P /\ P \subseteq before
        /\ n_removed = Cardinality(before) - Cardinality(P) /\ before \in SUBSET Tids
    BY <1>0, <1>1 DEF BeforeInv, TypeVacuum
  <2>2. before \ dead \subseteq Posting' /\ Posting' \subseteq before BY <1>4, <1>10, <2>1
  <2>3. Cardinality(before) \in Nat BY <2>1, TidSets
  <2>4. n_removed' = Cardinality(before) - Cardinality(Posting')
    <3> HIDE DEF P, S, T
    <3> QED BY <1>11, <1>12, <2>1, <2>3
  <2>5. pc' \notin {"upper", "repoint"} BY <1>1
  <2> HIDE DEF P, S, T, G
  <2> QED BY <1>1, <2>2, <2>4, <2>5 DEF BeforeInv
<1>19. ScanInv'
  <2> SUFFICES ASSUME NEW s \in Scanners
               PROVE  /\ must[s] \cap dead = {}
                      /\ at[s] = "walk" => must[s] \subseteq acc[s] \cup From(leaf', blk[s])
                      /\ at[s] = "done" => must[s] \subseteq acc[s]
    BY <1>1 DEF ScanInv, scanVars
  <2>1. blk[s] \in 0 .. N BY <1>0 DEF TypeScan
  <2>2. From(leaf, blk[s]) \ G \subseteq From(leaf', blk[s]) BY <1>5, <2>1
  <2> HIDE DEF G
  <2> QED BY <1>0, <1>4, <2>2 DEF ScanInv
<1>20. DoneInv'
  <2>1. pc' # "done" BY <1>1
  <2> QED BY <2>1 DEF DoneInv, OnlyOverflowKeepsDead, StatsExact, EmptiedLeavesGo
<1> QED BY <1>8, <1>9, <1>13, <1>14, <1>15, <1>17, <1>18, <1>19, <1>20 DEF IInv, DoneInv

(* posting_leaf_unlink: the TIDs every block leads to stay what they were. *)
LEMMA LeafUnlinked ==
    ASSUME NEW c, Chain(c), NEW d, Chain(d), Len(d) = Len(c),
           NEW p \in 1 .. Len(c), NEW q \in 1 .. Len(c), c[p].right_link = q,
           d[p].right_link = c[q].right_link, c[q].tids = {},
           \A x \in 1 .. Len(c) : x # p => d[x].right_link = c[x].right_link,
           \A x \in 1 .. Len(c) : d[x].tids = c[x].tids,
           NEW b \in 0 .. Len(c)
    PROVE  From(d, b) = From(c, b)
<1>1. Linked(c)[b] \ {q} \subseteq Linked(d)[b] /\ Linked(d)[b] \subseteq Linked(c)[b] BY LinkedCut
<1>2. Linked(c)[b] \subseteq 1 .. Len(c) BY LinkedBelow
<1>3. \A x \in Linked(c)[b] : x \notin Linked(d)[b] => c[x].tids = {} BY <1>1
<1>4. \A x \in Linked(c)[b] : d[x].tids = c[x].tids BY <1>2
<1> QED BY <1>1, <1>3, <1>4 DEF From

(* An emptied leaf leaves the chain.                                       *)
LEMMA LeafUnlinkStep == ASSUME IInv, LeafUnlink PROVE IInv'
<1> DEFINE N == Len(leaf)
           l == leaf[cur].right_link
           r1 == [leaf[prev] EXCEPT !.right_link = l]
           r2 == [tids |-> {}, right_link |-> l, deleted |-> TRUE]
<1>0. TypePages /\ TypeVacuum /\ TypeScan /\ LiveInv /\ WalkInv /\ PassedInv /\ BeforeInv /\ ScanInv
  BY DEF IInv
<1>1. /\ pc = "unlink" /\ pc' = "leaf" /\ prev' = prev /\ cur' = next /\ held' = {prev}
      /\ UNCHANGED <<layout, entry, dead, next, n_removed, n_remaining, before, scanVars>>
  BY DEF LeafUnlink, PrevAfterUnlink
<1>2. /\ Walking /\ Running /\ entry.kind = "chain" /\ prev # 0 /\ prev \in Live /\ leaf[prev].right_link = cur
      /\ cur # 0 /\ next = l /\ leaf[cur].tids = {}
  BY <1>0, <1>1 DEF WalkInv, Walking, Running, Invalid
<1>3. cur \in Live BY <1>2, CurLive DEF Invalid
<1>4. /\ cur \in 1 .. N /\ prev \in 1 .. N /\ N \in Nat /\ Chain(leaf) /\ Live \subseteq 1 .. N
      /\ leaf[prev] \in LeafRec /\ l \in Nat /\ l < cur /\ cur < prev /\ entry.root \in 0 .. N
      /\ DOMAIN leaf = 1 .. N /\ \A b \in 1 .. N : FitsLeaf(leaf[b].tids)
  BY <1>0, <1>2, <1>3, PageFacts
<1>5. /\ Chain(leaf') /\ Len(leaf') = N /\ leaf'[prev] = r1 /\ leaf'[cur] = r2
      /\ \A b \in 1 .. N : b # prev /\ b # cur => leaf'[b] = leaf[b]
  <2> DEFINE c == leaf
             m == [leaf EXCEPT ![prev] = r1]
             d == leaf'
  <2>0. leaf' = [m EXCEPT ![cur] = r2]
    <3>1. leaf' = [leaf EXCEPT ![prev].right_link = l, ![cur] = r2] BY DEF LeafUnlink, WaypointLink
    <3> QED BY <3>1
  <2>1. r1 \in LeafRec /\ r2 \in LeafRec /\ r1.right_link = l /\ r2.right_link = l BY <1>4 DEF LeafRec
  <2>2. Replaced(c, prev, r1, m) /\ Replaced(m, cur, r2, d) BY <2>0 DEF Replaced
  <2>3. Chain(c) /\ prev \in 1 .. Len(c) /\ cur \in 1 .. Len(c) /\ cur # prev BY <1>4
  <2>4. r1.right_link < prev /\ r2.right_link < cur BY <1>4, <2>1
  <2> HIDE DEF c, m, d, r1, r2
  <2>5. /\ Chain(m) /\ Len(m) = Len(c) /\ m[prev] = r1
        /\ \A b \in 1 .. Len(c) : b # prev => m[b] = c[b]
    BY <2>1, <2>2, <2>3, <2>4, LeafReplaced
  <2>6. /\ Chain(d) /\ Len(d) = Len(m) /\ d[cur] = r2
        /\ \A b \in 1 .. Len(m) : b # cur => d[b] = m[b]
    BY <2>1, <2>2, <2>3, <2>4, <2>5, LeafReplaced
  <2>7. d[prev] = r1 /\ \A b \in 1 .. Len(c) : b # prev /\ b # cur => d[b] = c[b] BY <2>3, <2>5, <2>6
  <2> QED BY <2>5, <2>6, <2>7 DEF c, d
<1>6. /\ \A b \in 1 .. N : leaf'[b].tids = leaf[b].tids
      /\ \A b \in 1 .. N : b # prev => leaf'[b].right_link = leaf[b].right_link
      /\ \A b \in 1 .. N : b # cur => leaf'[b].deleted = leaf[b].deleted
      /\ leaf'[prev].right_link = l
  <2>1. /\ r1.tids = leaf[prev].tids /\ r1.right_link = l /\ r1.deleted = leaf[prev].deleted
        /\ r2.tids = {} /\ r2.right_link = l
    BY <1>4 DEF LeafRec
  <2> HIDE DEF r1, r2
  <2>2. cur # prev BY <1>4
  <2> QED BY <1>2, <1>4, <1>5, <2>1, <2>2
<1>7. \A b \in 0 .. N : /\ From(leaf', b) = From(leaf, b)
                        /\ Linked(leaf)[b] \ {cur} \subseteq Linked(leaf')[b]
                        /\ Linked(leaf')[b] \subseteq Linked(leaf)[b]
                        /\ (prev \in Linked(leaf)[b] => cur \notin Linked(leaf')[b])
  <2> TAKE b \in 0 .. N
  <2> DEFINE c == leaf
             d == leaf'
  <2>1. /\ Chain(c) /\ Chain(d) /\ Len(d) = Len(c) /\ prev \in 1 .. Len(c) /\ cur \in 1 .. Len(c)
        /\ c[prev].right_link = cur /\ d[prev].right_link = c[cur].right_link /\ c[cur].tids = {}
        /\ (\A x \in 1 .. Len(c) : x # prev => d[x].right_link = c[x].right_link)
        /\ (\A x \in 1 .. Len(c) : d[x].tids = c[x].tids) /\ b \in 0 .. Len(c)
    BY <1>2, <1>4, <1>5, <1>6
  <2> HIDE DEF c, d
  <2>2. From(d, b) = From(c, b) BY <2>1, LeafUnlinked
  <2>3. /\ Linked(c)[b] \ {cur} \subseteq Linked(d)[b] /\ Linked(d)[b] \subseteq Linked(c)[b]
        /\ (prev \in Linked(c)[b] => cur \notin Linked(d)[b])
    BY <2>1, LinkedCut
  <2> QED BY <2>2, <2>3 DEF c, d
<1>8. Live' = Live \ {cur}
  <2>1. Live' = Linked(leaf')[entry.root] BY <1>1 DEF Live
  <2> QED BY <1>2, <1>4, <1>7, <2>1 DEF Live
<1>9. Posting' = Posting BY <1>1, <1>4, <1>7 DEF Posting
<1>10. TypePages'
  <2>1. DOMAIN leaf' = 1 .. N BY <1>5, ChainFacts
  <2>2. (\A b \in DOMAIN leaf : FitsLeaf(leaf[b].tids))'
    BY <1>1, <1>4, <1>6, <2>1 DEF FitsLeaf, LeafBudget
  <2> QED BY <1>0, <1>1, <1>5, <2>2 DEF TypePages
<1>11. TypeVacuum' BY <1>0, <1>1, <1>4, <1>5 DEF TypeVacuum
<1>12. TypeScan' BY <1>0, <1>1, <1>5 DEF TypeScan, scanVars
<1>13. LiveInv' BY <1>0, <1>4, <1>6, <1>8 DEF LiveInv
<1>14. WalkInv'
  <2>1. prev \in Live' BY <1>2, <1>4, <1>8
  <2> QED BY <1>1, <1>2, <1>6, <2>1 DEF WalkInv, Invalid
<1>15. PassedInv'
  <2>1. \A b \in Live : b > l <=> b >= cur BY <1>0, <1>3, LiveNext
  <2>2. \A b \in Live : (b > l /\ b # cur) <=> b > cur
    <3>1. \A b \in Live : b \in Nat BY <1>4
    <3> QED BY <1>4, <2>1, <3>1
  <2>3. Passed' = Passed BY <1>1, <1>2, <1>8, <2>2 DEF Passed
  <2>4. \A b \in Passed : b \in 1 .. N BY <1>4 DEF Passed
  <2>5. \A b \in Passed : Good(b)' <=> Good(b) BY <1>1, <1>6, <2>4 DEF Good, FitsLeaf, LeafBudget
  <2>6. UNION {leaf'[b].tids : b \in Passed} = UNION {leaf[b].tids : b \in Passed} BY <1>6, <2>4
  <2> QED BY <1>0, <1>1, <1>2, <2>3, <2>5, <2>6 DEF PassedInv
<1>16. BeforeInv' BY <1>0, <1>1, <1>2, <1>9 DEF BeforeInv, Running
<1>17. DoneInv' BY <1>1 DEF DoneInv, OnlyOverflowKeepsDead, StatsExact, EmptiedLeavesGo
<1>18. ScanInv'
  <2> SUFFICES ASSUME NEW s \in Scanners
               PROVE  /\ must[s] \cap dead = {}
                      /\ at[s] = "walk" => must[s] \subseteq acc[s] \cup From(leaf', blk[s])
                      /\ at[s] = "done" => must[s] \subseteq acc[s]
    BY <1>1 DEF ScanInv, scanVars
  <2>1. blk[s] \in 0 .. N BY <1>0 DEF TypeScan
  <2> QED BY <1>0, <1>7, <2>1 DEF ScanInv
<1> QED BY <1>10, <1>11, <1>12, <1>13, <1>14, <1>15, <1>16, <1>17, <1>18 DEF IInv, DoneInv

-----------------------------------------------------------------------------
(* A step that changes nothing.                                            *)
LEMMA StutterStep == ASSUME IInv, UNCHANGED vars PROVE IInv'
<1>1. UNCHANGED <<chainVars, vacVars>> /\ UNCHANGED scanVars BY DEF vars
<1>2. /\ TypePages' /\ TypeVacuum' /\ LiveInv' /\ WalkInv' /\ PassedInv' /\ BeforeInv' /\ DoneInv'
      /\ leaf' = leaf /\ dead' = dead
  BY <1>1, SameVacuum
<1>3. TypeScan' /\ ScanInv' BY <1>1, <1>2, SameScans
<1> QED BY <1>2, <1>3 DEF IInv, DoneInv

(* No step of VACUUM, of a scan or of a crash leaves the invariant.        *)
THEOREM Inductive == IInv /\ [Next]_vars => IInv'
<1> SUFFICES ASSUME IInv, [Next]_vars PROVE IInv' OBVIOUS
<1>1. CASE UNCHANGED vars BY <1>1, StutterStep
<1>2. CASE Vacuum
  <2>1. ASSUME NEW D \in SUBSET Tids, BulkDelete(D) PROVE IInv' BY <2>1, BulkDeleteStep
  <2>2. CASE InlineRepack BY <2>2, InlineRepackStep
  <2>3. CASE MigrateWrite BY <2>3, MigrateWriteStep
  <2>4. CASE MigrateRepoint BY <2>4, MigrateRepointStep
  <2>5. CASE InlineKept \/ CoalescedSkipped BY <2>5, KeptStep
  <2>6. CASE ChainStart BY <2>6, ChainStartStep
  <2>7. CASE LeafDelete BY <2>7, LeafDeleteStep
  <2>8. CASE LeafUnlink BY <2>8, LeafUnlinkStep
  <2>9. CASE LeafAdvance BY <2>9, LeafAdvanceStep
  <2>10. CASE ChainEnd BY <2>10, ChainEndStep
  <2>11. CASE BulkDeleteEnd BY <2>11, BulkDeleteEndStep
  <2> QED BY <1>2, <2>1, <2>2, <2>3, <2>4, <2>5, <2>6, <2>7, <2>8, <2>9, <2>10, <2>11 DEF Vacuum
<1>3. CASE Crash BY <1>3, CrashStep
<1>4. ASSUME NEW s \in Scanners, Scan(s) PROVE IInv'
  <2>1. CASE ScanLookup(s) BY <2>1, ScanLookupStep
  <2>2. CASE ScanLeaf(s) BY <2>2, ScanLeafStep
  <2>3. CASE ScanEnd(s) \/ ScanClose(s) BY <2>3, ScanEndStep
  <2> QED BY <1>4, <2>1, <2>2, <2>3 DEF Scan
<1> QED BY <1>1, <1>2, <1>3, <1>4 DEF Next

(* The inductive invariant holds throughout.                               *)
THEOREM ChainInvariant == Spec => []IInv
BY InitInv, Inductive, PTL DEF Spec

(* Whatever posting a build writes and however VACUUM and crashes cut it   *)
(* up: every leaf fits its page and links to a lower block, and VACUUM     *)
(* locks nothing but pages of the index.                                   *)
THEOREM TypeCorrect == Spec => []TypeOK
<1>1. IInv => TypeOK
  <2> SUFFICES ASSUME IInv PROVE TypeOK OBVIOUS
  <2>1. TypePages /\ TypeVacuum BY DEF IInv
  <2>2. \A b \in DOMAIN leaf : /\ leaf[b].tids \subseteq Tids /\ leaf[b].right_link \in 0 .. b - 1
                               /\ SmSize(leaf[b].tids) <= LeafBudget
    BY <2>1, PageFacts DEF FitsLeaf
  <2>3. entry.root \in 0 .. Len(leaf) /\ entry.tids \subseteq Tids BY <2>1, PageFacts
  <2>4. entry.kind \in {"inline", "coalesced", "chain"} BY <2>1 DEF TypePages, EntryRec
  <2> QED BY <2>1, <2>2, <2>3, <2>4 DEF TypeOK, TypePages, TypeVacuum
<1> QED BY <1>1, ChainInvariant, PTL

(* A scan of a posting that VACUUM repacks, migrates or unlinks under it   *)
(* returns every TID that was there when it looked the posting up and that *)
(* VACUUM has not reported dead: for every number of scans, pages, TIDs,   *)
(* VACUUMs and crashes.                                                    *)
THEOREM ScansMissNothing == Spec => []ScanComplete
<1>1. IInv => ScanComplete BY DEF IInv, ScanInv, ScanComplete
<1> QED BY <1>1, ChainInvariant, PTL

(* VACUUM takes out what its callback reports and nothing else, and leaves *)
(* a dead TID only where taking it out would overflow the page, or in a    *)
(* coalesced posting.                                                      *)
THEOREM DeadKeptOnlyOnOverflow == Spec => []OnlyOverflowKeepsDead
<1>1. IInv => OnlyOverflowKeepsDead BY DEF IInv
<1> QED BY <1>1, ChainInvariant, PTL

(* What ambulkdelete counts as removed and as remaining is what left the   *)
(* posting and what is in it, if the posting is not a coalesced one (those *)
(* posting_upper_walk does not count).                                     *)
THEOREM StatisticsExact == Spec => []StatsExact
<1>1. IInv => StatsExact BY DEF IInv
<1> QED BY <1>1, ChainInvariant, PTL

(* Once VACUUM has been along a chain, no leaf but its head is empty, and  *)
(* no deleted leaf is linked.                                              *)
THEOREM NoEmptyLeafLinked == Spec => []EmptiedLeavesGo
<1>1. IInv => EmptiedLeavesGo BY DEF IInv
<1> QED BY <1>1, ChainInvariant, PTL
=============================================================================
