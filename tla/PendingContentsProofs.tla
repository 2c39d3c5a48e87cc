------------------------ MODULE PendingContentsProofs ------------------------
(***************************************************************************)
(* What the pending list, the trees and VACUUM together make of the index, *)
(* proved for any number of backends, scans, trigrams, TIDs, pages and     *)
(* faults: the metapage's counter is exact, a scan misses no row, no entry *)
(* outlives its heap tuple, and the whole implements IndexContents.        *)
(*                                                                         *)
(* GhostInv and ScanKeeps strengthen the invariant IInv of                 *)
(* PendingListProofs: the first follows the entries of reaped rows through *)
(* VACUUM's merge and strip, the second the entries a running scan has     *)
(* still to find.                                                          *)
(***************************************************************************)
EXTENDS PendingListProofs

(* IInv holds again after every step.                                      *)
LEMMA InvStep == ASSUME IInv, Next PROVE IInv'
BY TypeStep, LockStep, ListStep, InsertStepInv, ReapStep, LocalsStep, MergeStep, FreeStep,
   ScanStepInv, NoLostStep DEF IInv

(* What an append makes of the list, slot by slot: the tail page, old or   *)
(* new, keeps its n entries and gets the batch behind them; the other      *)
(* pages are as they were.                                                 *)
LEMMA AppendExact ==
    ASSUME IInv, NEW p \in Inserters, AppendPage(p)
    PROVE  LET n == IF NeedNewTail THEN 0 ELSE Len(entries[pending_tail])
               t == pending_tail'
           IN /\ t \in Nat \ {0} /\ n \in Nat /\ Take(p) \in Nat
              /\ ListBlocks' = ListBlocks \cup {t}
              /\ ListBlocks \subseteq 1 .. Len(entries)
              /\ \A b \in ListBlocks : b # t => entries'[b] = entries[b]
              /\ NeedNewTail => t \notin ListBlocks
              /\ ~NeedNewTail => t = pending_tail /\ t \in ListBlocks
              /\ Len(entries'[t]) = n + Take(p)
              /\ \A i \in 1 .. n : entries'[t][i] = entries[t][i]
              /\ \A i \in n + 1 .. n + Take(p) : entries'[t][i] \in Elems(Put(p))
<1>0. /\ entries \in Seq(Seq(Entry)) /\ Len(entries) \in Nat
      /\ pending_head \in Nat /\ pending_tail \in Nat
      /\ (pending_head = Invalid) <=> (pending_tail = Invalid)
      /\ pending_head # Invalid => pending_head <= pending_tail /\ pending_tail = Len(entries)
  BY DEF IInv, TypeOK, ListInv
<1>1. Put(p) \in Seq(Entry) /\ Len(Put(p)) = Take(p) /\ Take(p) \in Nat \ {0}
  BY AppendFacts DEF IInv, TypeOK
<1>2. DOMAIN Put(p) = 1 .. Take(p) BY <1>1, LenProperties
<1>3. ListBlocks \subseteq 1 .. Len(entries) BY <1>0 DEF ListBlocks, Invalid
<1>4. CASE NeedNewTail
  <2>1. /\ entries' = Append(entries, Put(p))
        /\ pending_tail' = Len(entries) + 1
        /\ pending_head' = IF pending_tail = Invalid THEN Len(entries) + 1 ELSE pending_head
    BY <1>4 DEF AppendPage, Put
  <2>2. /\ \A b \in 1 .. Len(entries) : entries'[b] = entries[b]
        /\ entries'[Len(entries) + 1] = Put(p)
    BY <1>0, <1>1, <2>1, AppendProperties
  <2>3. ListBlocks' = ListBlocks \cup {Len(entries) + 1}
    BY <1>0, <2>1 DEF ListBlocks, Invalid
  <2>4. \A i \in 1 .. Take(p) : Put(p)[i] \in Elems(Put(p)) BY <1>2 DEF Elems
  <2>5. Len(entries) + 1 \notin ListBlocks BY <1>0, <1>3
  <2>6. \A b \in ListBlocks : entries'[b] = entries[b] BY <1>3, <2>2
  <2> QED BY <1>0, <1>1, <1>3, <1>4, <2>1, <2>2, <2>3, <2>4, <2>5, <2>6
<1>5. CASE ~NeedNewTail
  <2>1. pending_tail \in 1 .. Len(entries) /\ pending_head # Invalid
        /\ pending_tail = Len(entries) /\ pending_tail \in ListBlocks
    BY <1>0, <1>5, AppendFacts DEF NeedNewTail, ListBlocks
  <2>2. /\ entries' = [entries EXCEPT ![pending_tail] = entries[pending_tail] \o Put(p)]
        /\ pending_tail' = pending_tail /\ pending_head' = pending_head
    BY <1>5 DEF AppendPage, Put
  <2> DEFINE t == entries[pending_tail]
             u == t \o Put(p)
  <2>3. t \in Seq(Entry) /\ Len(t) \in Nat
    BY <1>0, <2>1
  <2>4. /\ u \in Seq(Entry) /\ Len(u) = Len(t) + Take(p)
        /\ \A i \in 1 .. Len(t) : u[i] = t[i]
        /\ \A i \in 1 .. Take(p) : u[Len(t) + i] = Put(p)[i]
    <3> HIDE DEF t
    <3>1. Put(p) \in Seq(Entry) /\ Len(Put(p)) = Take(p) BY <1>1
    <3> DEFINE v == Put(p)
    <3>2. t \in Seq(Entry) /\ v \in Seq(Entry) BY <2>3, <3>1
    <3> HIDE DEF v
    <3>3. /\ t \o v \in Seq(Entry) /\ Len(t \o v) = Len(t) + Len(v)
          /\ \A i \in 1 .. Len(t) : (t \o v)[i] = t[i]
          /\ \A i \in 1 .. Len(v) : (t \o v)[Len(t) + i] = v[i]
      BY <3>2, ConcatFacts
    <3> QED BY <3>1, <3>3 DEF v
  <2>5. entries'[pending_tail] = u
        /\ \A b \in 1 .. Len(entries) : b # pending_tail => entries'[b] = entries[b]
    BY <1>0, <2>1, <2>2, <2>4, ExceptSeq
  <2>6. ListBlocks' = ListBlocks BY <2>2 DEF ListBlocks
  <2> HIDE DEF t, u
  <2>7. \A i \in Len(t) + 1 .. Len(t) + Take(p) : u[i] \in Elems(Put(p))
    <3> TAKE i \in Len(t) + 1 .. Len(t) + Take(p)
    <3>1. i - Len(t) \in 1 .. Take(p) /\ Len(t) + (i - Len(t)) = i BY <1>1, <2>3
    <3>2. u[i] = Put(p)[i - Len(t)] BY <2>4, <3>1
    <3> QED BY <1>2, <3>1, <3>2 DEF Elems
  <2>8. ListBlocks' = ListBlocks \cup {pending_tail} BY <2>1, <2>6
  <2>9. \A b \in ListBlocks : b # pending_tail => entries'[b] = entries[b] BY <1>3, <2>5
  <2>10. entries[pending_tail] = t BY DEF t
  <2>11. /\ pending_tail' = pending_tail /\ Len(t) \in Nat /\ entries'[pending_tail] = u
         /\ Len(u) = Len(t) + Take(p)
    BY <2>2, <2>3, <2>4, <2>5
  <2>12. \A i \in 1 .. Len(t) : entries'[pending_tail][i] = entries[pending_tail][i]
    BY <2>4, <2>10, <2>11
  <2>13. \A i \in Len(t) + 1 .. Len(t) + Take(p) : entries'[pending_tail][i] \in Elems(Put(p))
    BY <2>7, <2>11
  <2>14. pending_tail \in Nat \ {0} BY <1>0, <2>1
  <2> QED BY <1>1, <1>3, <1>5, <2>1, <2>8, <2>9, <2>10, <2>11, <2>12, <2>13, <2>14
<1> QED BY <1>4, <1>5

(* A slot of a set of pages is a page and a position on it.                *)
LEMMA SlotsMember ==
    ASSUME NEW B
    PROVE  \A x : x \in Slots(B) <=> \E b \in B : \E i \in 1 .. Len(entries[b]) : x = <<b, i>>
BY DEF Slots

(* The slots of one page are as many as their positions.                   *)
LEMMA RowOfSlots ==
    ASSUME NEW b, NEW I, NEW n \in Nat, IsFiniteSet(I), Cardinality(I) = n
    PROVE  IsFiniteSet({b} \X I) /\ Cardinality({b} \X I) = n
<1>1. IsFiniteSet({b}) /\ Cardinality({b}) = 1 BY FS_Singleton
<1>2. IsFiniteSet({b} \X I) /\ Cardinality({b} \X I) = Cardinality({b}) * Cardinality(I)
  BY <1>1, FS_Product
<1> QED BY <1>1, <1>2

(* The sizes of disjoint sets add up.                                      *)
LEMMA CardinalityDisjoint ==
    ASSUME NEW S, NEW R, NEW n \in Nat, IsFiniteSet(S), IsFiniteSet(R), S \cap R = {},
           Cardinality(R) = n
    PROVE  Cardinality(S \cup R) = Cardinality(S) + n
<1>1. Cardinality(S) \in Nat BY FS_CardinalityType
<1>2. Cardinality(S \cup R) = Cardinality(S) + Cardinality(R) - Cardinality(S \cap R)
  BY FS_Union
<1>3. Cardinality(S \cap R) = 0 BY FS_EmptySet, Zenon
<1> QED BY <1>1, <1>2, <1>3

(* The list has finitely many slots.                                       *)
LEMMA ListSlotsFinite ==
    ASSUME IInv
    PROVE  IsFiniteSet(Slots(ListBlocks)) /\ Cardinality(Slots(ListBlocks)) \in Nat
<1>0. TypeOK /\ ListInv BY DEF IInv
<1>1. CASE pending_head = Invalid
  <2>1. Slots(ListBlocks) = {} BY <1>1 DEF ListBlocks, Slots
  <2> QED BY <2>1, FS_EmptySet
<1>2. CASE pending_head # Invalid
  <2>1. /\ pending_head \in Nat /\ pending_head > 0 /\ pending_tail \in Nat
        /\ pending_tail <= Len(entries)
    BY <1>0, <1>2 DEF TypeOK, ListInv, Invalid
  <2> QED BY <1>0, <1>2, <2>1, SlotsFinite DEF ListBlocks
<1> QED BY <1>1, <1>2

(* An append keeps the counter exact: the metapage update and the page     *)
(* write are one WAL record.                                               *)
LEMMA CounterAppend ==
    ASSUME IInv, CounterExact, NEW p \in Inserters, AppendPage(p)
    PROVE  CounterExact'
<1> DEFINE n == IF NeedNewTail THEN 0 ELSE Len(entries[pending_tail])
           t == pending_tail'
           S == Slots(ListBlocks)
           R == {t} \X (n + 1 .. n + Take(p))
<1>1. /\ t \in Nat \ {0} /\ n \in Nat /\ Take(p) \in Nat
      /\ ListBlocks' = ListBlocks \cup {t}
      /\ ListBlocks \subseteq 1 .. Len(entries)
      /\ \A b \in ListBlocks : b # t => entries'[b] = entries[b]
      /\ NeedNewTail => t \notin ListBlocks
      /\ ~NeedNewTail => t = pending_tail /\ t \in ListBlocks
      /\ Len(entries'[t]) = n + Take(p)
  BY AppendExact
<1>2. t \in ListBlocks => Len(entries[t]) = n BY <1>1
<1>3. t \notin ListBlocks => n = 0 BY <1>1
<1>4. Slots(ListBlocks)' = {t} \X (1 .. n + Take(p)) \cup UNION {{b} \X (1 .. Len(entries[b])) : b \in ListBlocks \ {t}}
  BY <1>1 DEF Slots
<1>5. {t} \X (1 .. n + Take(p)) = {t} \X (1 .. n) \cup R BY <1>1
<1>6. S = {t} \X (1 .. n) \cup UNION {{b} \X (1 .. Len(entries[b])) : b \in ListBlocks \ {t}}
  <2>1. CASE t \in ListBlocks BY <2>1, <1>2 DEF Slots
  <2>2. CASE t \notin ListBlocks BY <2>2, <1>3 DEF Slots
  <2> QED BY <2>1, <2>2
<1>7. Slots(ListBlocks)' = S \cup R BY <1>4, <1>5, <1>6
<1>8. S \cap R = {}
  <2> SUFFICES ASSUME NEW x \in S, x \in R PROVE FALSE OBVIOUS
  <2>1. PICK b \in ListBlocks : \E i \in 1 .. Len(entries[b]) : x = <<b, i>> BY SlotsMember
  <2>2. PICK i \in 1 .. Len(entries[b]) : x = <<b, i>> BY <2>1
  <2>3. b = t /\ i \in n + 1 .. n + Take(p) BY <2>2
  <2> QED BY <2>1, <2>2, <2>3, <1>1, <1>2
<1>9. IsFiniteSet(S) /\ Cardinality(S) \in Nat BY ListSlotsFinite
<1>10. IsFiniteSet(R) /\ Cardinality(R) = Take(p)
  <2>1. n \in Nat /\ Take(p) \in Nat BY <1>1
  <2> DEFINE I == n + 1 .. n + Take(p)
  <2>2. IsFiniteSet(I) /\ Cardinality(I) = Take(p)
    <3> HIDE DEF n
    <3>1. n + 1 \in Int /\ n + Take(p) \in Int /\ (n + Take(p)) - (n + 1) + 1 = Take(p)
      BY <2>1
    <3>2. n + 1 <= n + Take(p) \/ (Take(p) = 0 /\ n + 1 > n + Take(p)) BY <2>1
    <3> QED BY <3>1, <3>2, FS_Interval
  <2>3. R = {t} \X I OBVIOUS
  <2> HIDE DEF n, t, I, R
  <2> QED BY <2>1, <2>2, <2>3, RowOfSlots
<1> HIDE DEF S, R, n, t
<1>11. Cardinality(S \cup R) = Cardinality(S) + Take(p)
  BY <1>1, <1>8, <1>9, <1>10, CardinalityDisjoint
<1>12. pending_n_entries' = pending_n_entries + Take(p) BY DEF AppendPage
<1> QED BY <1>7, <1>11, <1>12 DEF CounterExact, S

(* The truncation recomputes the counter from the survivors and the pages  *)
(* behind the watermark.                                                   *)
LEMMA CounterFinalize ==
    ASSUME IInv, NEW p \in Procs, FinalizeMerge(p)
    PROVE  CounterExact'
<1> DEFINE w == wm_tail[p]
<1>0. TypeOK /\ ListInv /\ TypeOK' BY TypeStep DEF IInv, Next, VacuumStep, InsertStep, Merge, Procs
<1>1. /\ pending_head \in 1 .. Len(entries) /\ pending_tail = Len(entries)
      /\ w \in pending_head .. Len(entries) /\ Len(entries') = Len(entries)
      /\ \A b \in 1 .. Len(entries) : b # w => entries'[b] = entries[b]
  BY FinalizeList
<1>2. CASE ~Rewind(p)
  <2>1. pending_head' = Invalid /\ pending_n_entries' = 0 BY <1>2 DEF FinalizeMerge
  <2>2. Slots(ListBlocks)' = {} BY <2>1 DEF Slots, ListBlocks
  <2> QED BY <2>1, <2>2, FS_EmptySet DEF CounterExact
<1>3. CASE Rewind(p)
  <2>1. /\ pending_head' = w /\ pending_tail' = Len(entries) /\ entries'[w] = Survivors(p)
        /\ pending_n_entries' = SurvivingTotal(p)
    BY <1>1, <1>3, FinalizeList DEF FinalizeMerge
  <2>2. Len(entries) \in Nat /\ w \in 1 .. Len(entries) BY <1>0, <1>1 DEF TypeOK
  <2>3. ListBlocks' = {w} \cup (w + 1 .. Len(entries)) BY <2>1, <2>2 DEF ListBlocks, Invalid
  <2>4. Len(Survivors(p)) \in Nat
    <3>1. entries' \in Seq(Seq(Entry)) /\ Len(entries') = Len(entries) BY <1>0, <1>1 DEF TypeOK
    <3>2. entries'[w] \in Seq(Entry) BY <2>2, <3>1
    <3> QED BY <3>2, <2>1
  <2> DEFINE S == Slots(w + 1 .. Len(entries))
             R == {w} \X (1 .. Len(Survivors(p)))
  <2>5. Slots(ListBlocks)' = S \cup R
    <3>1. \A b \in w + 1 .. Len(entries) : entries'[b] = entries[b] BY <1>1, <2>2
    <3> QED BY <2>1, <2>3, <2>4, <3>1 DEF Slots
  <2>6. IsFiniteSet(S) /\ Cardinality(S) \in Nat BY <1>0, <2>2, SlotsFinite
  <2>7. IsFiniteSet(R) /\ Cardinality(R) = Len(Survivors(p))
    <3> DEFINE I == 1 .. Len(Survivors(p))
    <3>1. IsFiniteSet(I) /\ Cardinality(I) = Len(Survivors(p)) BY SMTT(30), <2>4, FS_Interval
    <3>2. R = {w} \X I OBVIOUS
    <3> HIDE DEF I, R, w
    <3> QED BY <2>4, <3>1, <3>2, RowOfSlots
  <2>8. S \cap R = {}
    <3> SUFFICES ASSUME NEW x \in S, x \in R PROVE FALSE OBVIOUS
    <3>1. PICK b \in w + 1 .. Len(entries) : \E i \in 1 .. Len(entries[b]) : x = <<b, i>>
      BY ZenonT(30), SlotsMember
    <3> QED BY <3>1, <2>2
  <2>9. SurvivingTotal(p) = Len(Survivors(p)) + Cardinality(S) BY <1>1 DEF SurvivingTotal
  <2> HIDE DEF S, R
  <2>10. Cardinality(S \cup R) = Cardinality(S) + Len(Survivors(p))
    BY <2>4, <2>6, <2>7, <2>8, CardinalityDisjoint
  <2> QED BY <2>1, <2>4, <2>5, <2>6, <2>9, <2>10 DEF CounterExact
<1> QED BY <1>2, <1>3

(* meta.pending_n_entries is the number of slots on the pending list in    *)
(* every reachable state, so the limit INSERT compares it with is never    *)
(* off, whatever appends and truncations raced.                            *)
THEOREM CounterCounts == Spec => []CounterExact
<1>1. Init => CounterExact
  <2> SUFFICES ASSUME Init PROVE CounterExact OBVIOUS
  <2>1. pending_n_entries = 0 /\ Slots(ListBlocks) = {} BY DEF Init, ListBlocks, Slots
  <2> QED BY <2>1, FS_EmptySet DEF CounterExact
<1>2. IInv /\ CounterExact /\ [Next]_vars => CounterExact'
  <2> SUFFICES ASSUME IInv, CounterExact, [Next]_vars PROVE CounterExact' OBVIOUS
  <2>1. ASSUME UNCHANGED listVars PROVE CounterExact'
    BY <2>1 DEF CounterExact, Slots, ListBlocks, listVars
  <2>2. CASE UNCHANGED vars BY <2>1, <2>2 DEF vars
  <2>3. CASE Next BY <2>1, <2>3, ListFrame, CounterAppend, CounterFinalize
  <2> QED BY <2>2, <2>3
<1> QED BY <1>1, <1>2, Inductive, PTL DEF Spec

-----------------------------------------------------------------------------
(* A merge that has walked, or is walking, the list but has not truncated  *)
(* it; VACUUM after its merge truncated the list.                          *)
CollectedPc == {"collect", "build", "run", "finalize"}
DrainedPc == {"free", "free_tail", "set_roots", "merged", "strip", "reap"}

(* What a merge has collected stays on the list until it truncates.        *)
GotInv == \A p \in Procs : pc[p] \in CollectedPc => got[p] \subseteq Pending

(* What an INSERT has still to append are entries of its own row.          *)
TodoInv == \A p \in Inserters : tid[p] # None => Elems(todo[p]) \subseteq RowEntries(tid[p])

(* Where entries of the rows VACUUM is about to reap can be: while it      *)
(* merges, on the list up to its watermark; after the truncation, in trees *)
(* only; after the strip of a trigram, not under that trigram; when it     *)
(* frees the line pointers, nowhere.                                       *)
ReapedInv ==
    /\ pc[Vacuum] = "wm_n" =>
          \A b \in ListBlocks : \A i \in 1 .. Len(entries[b]) :
              entries[b][i][2] \in reap => b <= wm_tail[Vacuum]
    /\ pc[Vacuum] \in CollectedPc =>
          \A b \in ListBlocks : \A i \in 1 .. Len(entries[b]) :
              entries[b][i][2] \in reap =>
                  \/ b < wm_tail[Vacuum]
                  \/ b = wm_tail[Vacuum] /\ i <= wm_tail_n[Vacuum]
    /\ pc[Vacuum] \in DrainedPc => \A e \in Pending : e[2] \notin reap
    /\ pc[Vacuum] = "strip" => \A e \in base \cup runs : e[2] \in reap => e[1] \in strip
    /\ pc[Vacuum] = "reap" => \A e \in base \cup runs : e[2] \notin reap

(* The inductive invariant for NoGhostEntry, next to IInv.                 *)
GhostInv == coalesced = {} /\ NoGhostEntry /\ GotInv /\ TodoInv /\ ReapedInv

(* A page of the list is an allocated page, and its entries are pending.   *)
LEMMA ListPages ==
    ASSUME IInv
    PROVE  \A b \in ListBlocks :
              /\ b \in 1 .. Len(entries) /\ entries[b] \in Seq(Entry)
              /\ Len(entries[b]) \in Nat /\ DOMAIN entries[b] = 1 .. Len(entries[b])
              /\ PageEntries(b) \subseteq Pending
<1> SUFFICES ASSUME NEW b \in ListBlocks
             PROVE  /\ b \in 1 .. Len(entries) /\ entries[b] \in Seq(Entry)
                    /\ Len(entries[b]) \in Nat /\ DOMAIN entries[b] = 1 .. Len(entries[b])
                    /\ PageEntries(b) \subseteq Pending
  OBVIOUS
<1>1. b \in 1 .. Len(entries) BY DEF IInv, TypeOK, ListInv, ListBlocks, Invalid
<1>2. entries[b] \in Seq(Entry) BY <1>1 DEF IInv, TypeOK
<1>3. Len(entries[b]) \in Nat /\ DOMAIN entries[b] = 1 .. Len(entries[b])
  BY <1>2, LenProperties
<1> QED BY <1>1, <1>2, <1>3 DEF Pending

(* A pending entry is at a position of a page of the list.                 *)
LEMMA PendingAt ==
    ASSUME IInv
    PROVE  \A e : e \in Pending <=>
              \E b \in ListBlocks : \E i \in 1 .. Len(entries[b]) : e = entries[b][i]
BY ListPages DEF Pending, PageEntries, Elems

(* An append puts nothing on the list but its batch.                       *)
LEMMA AppendOnly ==
    ASSUME IInv, NEW p \in Inserters, AppendPage(p)
    PROVE  /\ \A b \in ListBlocks' : \A i \in 1 .. Len(entries'[b]) :
                \/ b \in ListBlocks /\ i \in 1 .. Len(entries[b]) /\ entries'[b][i] = entries[b][i]
                \/ entries'[b][i] \in Elems(Put(p))
           /\ Pending' \subseteq Pending \cup Elems(Put(p))
<1> DEFINE n == IF NeedNewTail THEN 0 ELSE Len(entries[pending_tail])
           t == pending_tail'
<1>1. /\ n \in Nat /\ Take(p) \in Nat /\ ListBlocks' = ListBlocks \cup {t}
      /\ \A b \in ListBlocks : b # t => entries'[b] = entries[b]
      /\ ~NeedNewTail => t = pending_tail /\ t \in ListBlocks
      /\ Len(entries'[t]) = n + Take(p)
      /\ \A i \in 1 .. n : entries'[t][i] = entries[t][i]
      /\ \A i \in n + 1 .. n + Take(p) : entries'[t][i] \in Elems(Put(p))
  BY AppendExact
<1>2. n # 0 => t \in ListBlocks /\ n = Len(entries[t]) BY <1>1
<1> HIDE DEF n, t
<1>3. ASSUME NEW b \in ListBlocks', NEW i \in 1 .. Len(entries'[b])
      PROVE  \/ b \in ListBlocks /\ i \in 1 .. Len(entries[b]) /\ entries'[b][i] = entries[b][i]
             \/ entries'[b][i] \in Elems(Put(p))
  <2>1. CASE b # t BY <1>1, <1>3, <2>1
  <2>2. CASE b = t
    <3>1. i \in 1 .. n \/ i \in n + 1 .. n + Take(p) BY <1>1, <2>2
    <3>2. CASE i \in 1 .. n
      <4>1. n # 0 BY <3>2, <1>1
      <4> QED BY <1>1, <1>2, <2>2, <3>2, <4>1
    <3> QED BY <1>1, <2>2, <3>1, <3>2
  <2> QED BY <2>1, <2>2
<1>4. IInv' BY InvStep DEF Next, InsertStep
<1>5. \A e : e \in Pending' <=>
         \E b \in ListBlocks' : \E i \in 1 .. Len(entries'[b]) : e = entries'[b][i]
  <2>1. \A b \in ListBlocks' : DOMAIN entries'[b] = 1 .. Len(entries'[b])
    <3>1. /\ entries' \in Seq(Seq(Entry)) BY <1>4 DEF IInv, TypeOK
    <3>2. \A b \in ListBlocks' : b \in 1 .. Len(entries')
      BY <1>4 DEF IInv, TypeOK, ListInv, ListBlocks, Invalid
    <3> QED BY <3>1, <3>2, LenProperties
  <2> QED BY <2>1 DEF Pending, PageEntries, Elems
<1> QED BY <1>3, <1>5, PendingAt

(* What the truncation leaves on the list was behind the watermark.        *)
LEMMA FinalizeOnly ==
    ASSUME IInv, NEW p \in Procs, FinalizeMerge(p)
    PROVE  \A e \in Pending' :
              \E b \in ListBlocks : \E i \in 1 .. Len(entries[b]) :
                  /\ e = entries[b][i]
                  /\ b > wm_tail[p] \/ (b = wm_tail[p] /\ i > wm_tail_n[p])
<1> DEFINE w == wm_tail[p]
<1>0. pc[p] = "finalize" /\ wm_tail_n[p] \in Nat /\ Len(entries) \in Nat
  BY DEF FinalizeMerge, IInv, TypeOK
<1>1. /\ pending_head \in 1 .. Len(entries) /\ pending_tail = Len(entries)
      /\ w \in pending_head .. Len(entries) /\ Len(entries') = Len(entries)
      /\ \A b \in 1 .. Len(entries) : b # w => entries'[b] = entries[b]
  BY FinalizeList
<1>2. wm_tail_n[p] <= Len(entries[w]) /\ entries[w] \in Seq(Entry) /\ Len(entries[w]) \in Nat
  BY <1>0, MergeFacts, LenProperties DEF IInv, MergeInv, MergeAt, DrainingPc
<1>3. CASE ~Rewind(p)
  <2>1. Pending' = {} BY <1>3, FinalizeList DEF Pending, ListBlocks
  <2> QED BY <2>1
<1>4. CASE Rewind(p)
  <2>1. pending_head' = w /\ pending_tail' = Len(entries) /\ entries'[w] = Survivors(p)
    BY <1>1, <1>4, FinalizeList
  <2>2. ListBlocks' = w .. Len(entries) /\ ListBlocks = pending_head .. Len(entries)
    BY <1>0, <1>1, <2>1 DEF ListBlocks, Invalid
  <2>3. /\ Len(Survivors(p)) = Len(entries[w]) - wm_tail_n[p]
        /\ Survivors(p) \in Seq(Entry)
        /\ \A i \in 1 .. Len(entries[w]) - wm_tail_n[p] :
               Survivors(p)[i] = entries[w][wm_tail_n[p] + i]
    <3> DEFINE s == entries[w]
               m == Len(s)
               k == wm_tail_n[p]
    <3>1. s \in Seq(Entry) /\ m \in Nat /\ k \in Nat /\ k <= m /\ m = Len(s) BY <1>0, <1>2
    <3>2. Survivors(p) = SubSeq(s, k + 1, m) BY DEF Survivors
    <3> HIDE DEF s, m, k
    <3>3. \A i \in k + 1 .. m : s[i] \in Entry BY <3>1
    <3>4. /\ SubSeq(s, k + 1, m) \in Seq(Entry)
          /\ Len(SubSeq(s, k + 1, m)) = m - k
          /\ \A i \in 1 .. m - k : SubSeq(s, k + 1, m)[i] = s[k + i]
      BY <3>1, <3>3, SubSeqProperties
    <3> QED BY <3>1, <3>2, <3>4 DEF s, m, k
  <2>4. SUFFICES ASSUME NEW b \in w .. Len(entries), NEW e, e \in PageEntries(b)'
                 PROVE  \E c \in ListBlocks : \E i \in 1 .. Len(entries[c]) :
                           /\ e = entries[c][i]
                           /\ c > wm_tail[p] \/ (c = wm_tail[p] /\ i > wm_tail_n[p])
    BY <2>2 DEF Pending
  <2>5. b \in ListBlocks BY <1>0, <1>1, <2>2
  <2>6. DOMAIN entries[b] = 1 .. Len(entries[b]) BY <2>5, ListPages
  <2>7. CASE b = w
    <3>1. PICK i \in DOMAIN Survivors(p) : e = Survivors(p)[i]
      BY <2>1, <2>4, <2>7 DEF PageEntries, Elems
    <3>2. i \in 1 .. Len(entries[w]) - wm_tail_n[p] BY <2>3, <3>1, LenProperties
    <3>3. e = entries[w][wm_tail_n[p] + i] /\ wm_tail_n[p] + i \in 1 .. Len(entries[w])
          /\ wm_tail_n[p] + i > wm_tail_n[p]
      BY SMTT(30), <1>0, <1>2, <2>3, <3>1, <3>2
    <3> QED BY <2>5, <2>7, <3>3
  <2>8. CASE b # w
    <3>1. b > w /\ entries'[b] = entries[b] BY <1>0, <1>1, <2>8
    <3>2. PICK i \in DOMAIN entries[b] : e = entries[b][i]
      BY <2>4, <3>1 DEF PageEntries, Elems
    <3> QED BY <2>5, <2>6, <3>1, <3>2
  <2> QED BY <2>7, <2>8
<1> QED BY <1>3, <1>4

(* The truncation adds nothing to the list.                                *)
LEMMA FinalizeShrinks ==
    ASSUME IInv, NEW p \in Procs, FinalizeMerge(p)
    PROVE  Pending' \subseteq Pending
BY FinalizeOnly, PendingAt

(* A step that leaves the list alone leaves the pending entries alone.     *)
LEMMA ListUnchanged ==
    ASSUME UNCHANGED listVars
    PROVE  /\ Pending' = Pending /\ ListBlocks' = ListBlocks /\ entries' = entries
           /\ next_page' = next_page
BY DEF Pending, ListBlocks, PageEntries, listVars

(* A tree gets nothing that the index did not hold before: a flushed run   *)
(* and a rebuilt base come from the list.                                  *)
LEMMA TreesFromIndex ==
    ASSUME IInv, GotInv, Next
    PROVE  base' \cup runs' \subseteq Indexed
<1>1. ASSUME base' \subseteq base \cup runs, runs' \subseteq base \cup runs
      PROVE  base' \cup runs' \subseteq Indexed
  BY <1>1 DEF Indexed
<1>2. ASSUME NEW p \in Inserters, AppendPage(p) \/ InsertCase(p)
      PROVE  base' \cup runs' \subseteq Indexed
  BY <1>1, <1>2 DEF AppendPage, InsertCase, AmInsert, SkipMerge, TryLock, InsertMergeDone,
     EndXact, treeVars
<1>3. ASSUME NEW p \in Procs, Merge(p)
      PROVE  base' \cup runs' \subseteq Indexed
  <2>1. CASE FinalizeMerge(p)
    <3>1. pc[p] = "finalize" /\ base' = new_root[p] /\ runs' = runs
      BY <2>1 DEF FinalizeMerge
    <3>2. got[p] \subseteq Pending BY <3>1 DEF GotInv, CollectedPc
    <3>3. new_root[p] \subseteq base \cup got[p]
      BY <3>1 DEF IInv, MergeInv, MergeAt
    <3> QED BY <3>1, <3>2, <3>3 DEF Indexed
  <2>2. CASE MergeMeta(p) \/ MergeWatermark(p) \/ MergeWatermarkN(p) \/ MergeCollect(p)
             \/ MergeBuild(p) \/ FreeConsumed(p) \/ FreeWatermarkTail(p)
    BY <1>1, <2>2 DEF MergeMeta, MergeWatermark, MergeWatermarkN, MergeCollect, MergeBuild,
       FreeConsumed, FreeWatermarkTail, treeVars
  <2>3. CASE MergeAppendRun(p)
    <3>1. got[p] \subseteq Pending BY <2>3 DEF GotInv, CollectedPc, MergeAppendRun
    <3> QED BY <2>3, <3>1 DEF MergeAppendRun, Indexed
  <2>4. CASE SetRoots(p)
    <3>1. new_root[p] = base BY <2>4 DEF IInv, MergeInv, MergeAt, SetRoots
    <3> QED BY <1>1, <2>4, <3>1 DEF SetRoots
  <2> QED BY <1>3, <2>1, <2>2, <2>3, <2>4 DEF Merge
<1>4. CASE VacuumCase
  <2>1. CASE VacuumStart \/ MergeLock \/ VacuumMergeDone \/ StripDone \/ Reap
    BY <1>1, <2>1 DEF VacuumStart, MergeLock, VacuumMergeDone, StripDone, Reap, treeVars
  <2>2. CASE Compact BY <1>1, <2>2 DEF Compact, treeVars
  <2>3. CASE \E t \in Trigrams : StripPosting(t) BY <1>1, <2>3 DEF StripPosting
  <2> QED BY <1>4, <2>1, <2>2, <2>3 DEF VacuumCase
<1>5. ASSUME NEW s \in Scanners, ScanCase(s)
      PROVE  base' \cup runs' \subseteq Indexed
  BY <1>1, <1>5 DEF ScanCase, ScanStep, ScanStart, ScanOverlay, ScanOverlayDone, ScanLookup,
     ScanEnd, treeVars
<1>6. CASE FaultCase BY <1>1, <1>6 DEF FaultCase, Cancel, Die, Crash, treeVars
<1> QED BY <1>2, <1>3, <1>4, <1>5, <1>6, NextCases

(* Only an append adds entries to the index.                               *)
LEMMA IndexedShrinks ==
    ASSUME IInv, GotInv, Next
    PROVE  \/ Indexed' \subseteq Indexed
           \/ \E p \in Inserters : AppendPage(p) /\ Indexed' \subseteq Indexed \cup Elems(Put(p))
<1>1. base' \cup runs' \subseteq Indexed BY TreesFromIndex
<1>2. CASE \E p \in Inserters : AppendPage(p)
  BY <1>1, <1>2, AppendOnly DEF Indexed
<1>3. CASE \E p \in Procs : FinalizeMerge(p)
  BY <1>1, <1>3, FinalizeShrinks DEF Indexed
<1>4. CASE UNCHANGED listVars BY <1>1, <1>4, ListUnchanged DEF Indexed
<1> QED BY <1>2, <1>3, <1>4, ListFrame

(* The entries an append writes belong to the row being inserted, which    *)
(* VACUUM does not reap.                                                   *)
LEMMA FreshEntries ==
    ASSUME IInv, TodoInv, NEW p \in Inserters, AppendPage(p)
    PROVE  /\ tid[p] \in Tids /\ row[tid[p]] = "inserting"
           /\ Elems(Put(p)) \subseteq RowEntries(tid[p])
           /\ \A e \in Elems(Put(p)) : e[2] = tid[p] /\ e[2] \notin reap /\ e[1] \in rowTrgs[tid[p]]
<1>1. tid[p] # None /\ row[tid[p]] = "inserting" /\ tid[p] \in Tids
  <2>1. pc[p] = "append" BY DEF AppendPage
  <2>2. tid[p] \in Tids \cup {None} BY DEF IInv, TypeOK
  <2> QED BY <2>1, <2>2 DEF IInv, InsertInv
<1>2. Elems(Put(p)) \subseteq RowEntries(tid[p])
  BY <1>1, AppendFacts DEF TodoInv
<1>3. tid[p] \notin reap BY <1>1 DEF IInv, ReapInv
<1> QED BY <1>1, <1>2, <1>3 DEF RowEntries

(* A row being inserted keeps its trigrams.                                *)
LEMMA TodoStep == ASSUME IInv, TodoInv, Next PROVE TodoInv'
<1>0. /\ tid \in [Inserters -> Tids \cup {None}] /\ todo \in [Inserters -> Seq(Entry)]
      /\ rowTrgs \in [Tids -> SUBSET Trigrams] /\ InsertInv /\ ReapInv /\ None \notin Tids
  BY SetsAssumption DEF IInv, TypeOK
<1>1. ASSUME UNCHANGED <<rowTrgs, tid, todo>> PROVE TodoInv'
  BY <1>1 DEF TodoInv, RowEntries
<1>2. ASSUME NEW p \in Inserters, NEW r \in Tids, NEW T \in Values, AmInsert(p, r, T)
      PROVE TodoInv'
  <2>1. /\ row[r] = "unused" /\ rowTrgs' = [rowTrgs EXCEPT ![r] = T]
        /\ tid' = [tid EXCEPT ![p] = r]
    BY <1>2 DEF AmInsert
  <2>2. PICK s \in Orders(T \X {r}) : todo' = [todo EXCEPT ![p] = s]
    BY <1>2 DEF AmInsert
  <2>3. Elems(s) = T \X {r} BY <2>2 DEF Orders
  <2> SUFFICES ASSUME NEW q \in Inserters, tid'[q] # None
               PROVE  Elems(todo'[q]) \subseteq rowTrgs'[tid'[q]] \X {tid'[q]}
    BY DEF TodoInv, RowEntries
  <2>4. CASE q = p BY <1>0, <2>1, <2>2, <2>3, <2>4
  <2>5. CASE q # p
    <3>1. tid'[q] = tid[q] /\ todo'[q] = todo[q] BY <1>0, <2>1, <2>2, <2>5
    <3>2. row[tid[q]] = "inserting" /\ tid[q] # r BY <1>0, <2>1, <3>1 DEF InsertInv
    <3>3. rowTrgs'[tid[q]] = rowTrgs[tid[q]] BY <1>0, <2>1, <3>1, <3>2
    <3> QED BY <3>1, <3>3 DEF TodoInv, RowEntries
  <2> QED BY <2>4, <2>5
<1>3. ASSUME NEW p \in Inserters, AppendPage(p) PROVE TodoInv'
  <2>1. tid' = tid /\ rowTrgs' = rowTrgs /\ todo' = [todo EXCEPT ![p] = More(p)]
    BY <1>3 DEF AppendPage, heapVars, More
  <2>2. Elems(More(p)) \subseteq Elems(todo[p]) BY <1>3, AppendFacts
  <2> QED BY <1>0, <2>1, <2>2 DEF TodoInv, RowEntries
<1>4. ASSUME NEW p \in Inserters, NEW o \in {"live", "dead"}, EndXact(p, o) PROVE TodoInv'
  BY <1>0, <1>4 DEF EndXact, TodoInv, RowEntries
<1>5. ASSUME NEW p \in Procs, Cancel(p) PROVE TodoInv'
  <2>1. CASE p = Vacuum BY <1>1, <1>5, <2>1 DEF Cancel, heapVars, insertVars
  <2>2. CASE p # Vacuum
    BY <1>0, <1>5, <2>2 DEF Cancel, TodoInv, RowEntries
  <2> QED BY <2>1, <2>2
<1>6. CASE Crash BY <1>6 DEF Crash, TodoInv
<1>7. CASE Reap
  <2>1. /\ rowTrgs' = [r \in Tids |-> IF r \in reap THEN {} ELSE rowTrgs[r]]
        /\ tid' = tid /\ todo' = todo
    BY <1>7 DEF Reap, insertVars
  <2> SUFFICES ASSUME NEW q \in Inserters, tid[q] # None
               PROVE  Elems(todo[q]) \subseteq rowTrgs'[tid[q]] \X {tid[q]}
    BY <2>1 DEF TodoInv, RowEntries
  <2>2. tid[q] \in Tids /\ tid[q] \notin reap BY <1>0 DEF InsertInv, ReapInv
  <2> QED BY <2>1, <2>2 DEF TodoInv, RowEntries
<1>8. ASSUME NEW p \in Inserters, SkipMerge(p) \/ TryLock(p) \/ InsertMergeDone(p)
      PROVE  TodoInv'
  BY <1>1, <1>8 DEF SkipMerge, TryLock, InsertMergeDone, heapVars, insertVars
<1>9. ASSUME NEW p \in Procs, Merge(p) PROVE TodoInv' BY <1>1, <1>9, MergeFrame
<1>10. CASE VacuumStart \/ MergeLock \/ VacuumMergeDone \/ StripDone \/ Compact
            \/ \E t \in Trigrams : StripPosting(t)
  BY <1>1, <1>10 DEF VacuumStart, MergeLock, VacuumMergeDone, StripDone, Compact, StripPosting,
     heapVars, insertVars
<1>11. ASSUME NEW s \in Scanners, ScanCase(s) PROVE TodoInv'
  BY <1>1, <1>11 DEF ScanCase, ScanStep, ScanStart, ScanOverlay, ScanOverlayDone, ScanLookup,
     ScanEnd, heapVars, insertVars
<1>12. CASE \E r \in Tids : Die(r) BY <1>1, <1>12 DEF Die, insertVars
<1> QED BY <1>2, <1>3, <1>4, <1>5, <1>6, <1>7, <1>8, <1>9, <1>10, <1>11, <1>12, NextCases
        DEF InsertCase, VacuumCase, FaultCase

(* No step takes collected entries from the list before the merge that     *)
(* collected them truncates it: the merge lock admits one merge.           *)
LEMMA GotStep == ASSUME IInv, GotInv, Next PROVE GotInv'
<1>0. /\ pc \in [Procs -> PcState] /\ got \in [Procs -> SUBSET Entry] /\ LockInv
      /\ Inserters \subseteq Procs /\ Vacuum \in Procs /\ LocalsInv
  BY DEF IInv, TypeOK, Procs
<1>1. ASSUME Pending \subseteq Pending',
             \A q \in Procs : pc'[q] \in CollectedPc =>
                 (pc[q] \in CollectedPc /\ got'[q] = got[q]) \/ got'[q] = {}
      PROVE  GotInv'
  BY <1>1 DEF GotInv
<1>2. ASSUME UNCHANGED listVars,
             \A q \in Procs : pc'[q] \in CollectedPc =>
                 (pc[q] \in CollectedPc /\ got'[q] = got[q]) \/ got'[q] = {}
      PROVE  GotInv'
  BY <1>1, <1>2, ListUnchanged
<1>3. ASSUME NEW p \in Inserters, AppendPage(p) PROVE GotInv'
  <2>1. got' = got /\ pc' = [pc EXCEPT ![p] = IF More(p) = <<>> THEN "maybe" ELSE "append"]
    BY <1>3 DEF AppendPage, mergeVars, Goto, More
  <2>2. \A q \in Procs : pc'[q] \in CollectedPc => pc[q] \in CollectedPc
    BY <1>0, <2>1 DEF CollectedPc
  <2> QED BY <1>1, <1>3, <2>1, <2>2, AppendKeeps
<1>4. ASSUME NEW p \in Inserters, InsertCase(p) PROVE GotInv'
  <2>1. UNCHANGED listVars BY <1>4 DEF InsertCase, AmInsert, SkipMerge, TryLock,
      InsertMergeDone, EndXact
  <2>2. PICK l : l \notin CollectedPc /\ pc' = [pc EXCEPT ![p] = l]
    BY <1>4 DEF InsertCase, AmInsert, SkipMerge, TryLock,
       InsertMergeDone, EndXact, Goto, CollectedPc
  <2>3. \A q \in Procs : got'[q] = got[q] \/ got'[q] = {}
    BY <1>0, <1>4 DEF InsertCase, AmInsert, SkipMerge, TryLock,
       InsertMergeDone, EndXact, ClearMerge, mergeVars
  <2> QED BY <1>0, <1>2, <2>1, <2>2, <2>3
<1>5. ASSUME NEW p \in Procs, Merge(p) PROVE GotInv'
  <2>0. pc[p] \in LockedPc /\ \A q \in Procs : q # p => pc'[q] = pc[q] /\ pc[q] \notin LockedPc
    <3>1. pc[p] \in MergePc /\ \E l \in MergePc : pc' = [pc EXCEPT ![p] = l]
      BY <1>5, MergeFrame
    <3> QED BY <1>0, <3>1 DEF LockInv, LockedPc
  <2>1. \A q \in Procs : q # p => pc'[q] \notin CollectedPc
    BY <2>0 DEF LockedPc, MergePc, CollectedPc
  <2>2. CASE MergeCollect(p)
    <3>1. /\ UNCHANGED listVars /\ pc[p] = "collect"
          /\ got' = [got EXCEPT ![p] = got[p] \cup Elems(Consumes(p))]
      BY <2>2 DEF MergeCollect
    <3>2. /\ pending_head \in 1 .. Len(entries) /\ pending_tail = Len(entries)
          /\ wm_tail[p] \in pending_head .. Len(entries)
          /\ blk[p] \in pending_head .. wm_tail[p]
          /\ entries[blk[p]] \in Seq(Entry)
      BY <3>1, MergeFacts DEF DrainingPc
    <3>3. blk[p] \in ListBlocks
      <4>1. Len(entries) \in Nat BY DEF IInv, TypeOK
      <4> QED BY <3>2, <4>1 DEF ListBlocks, Invalid
    <3>4. Elems(Consumes(p)) \subseteq PageEntries(blk[p])
      <4>1. wm_tail_n[p] \in Nat /\ Len(entries[blk[p]]) \in Nat BY <3>2 DEF IInv, TypeOK
      <4>2. Min2(Len(entries[blk[p]]), wm_tail_n[p]) \in 0 .. Len(entries[blk[p]])
        BY <4>1 DEF Min2
      <4>3. Elems(SubSeq(entries[blk[p]], 1, Min2(Len(entries[blk[p]]), wm_tail_n[p])))
               \subseteq Elems(entries[blk[p]])
        BY <3>2, <4>2, ElemsCut
      <4> QED BY <4>3 DEF Consumes, PageEntries
    <3>5. Elems(Consumes(p)) \subseteq Pending BY <3>3, <3>4, ListPages
    <3>6. got[p] \subseteq Pending BY <3>1 DEF GotInv, CollectedPc
    <3> QED BY <1>0, <2>1, <3>1, <3>5, <3>6, ListUnchanged DEF GotInv
  <2>3. CASE MergeWatermarkN(p)
    <3>1. pc[p] = "wm_n" /\ got' = got /\ UNCHANGED listVars BY <2>3 DEF MergeWatermarkN
    <3>2. got[p] = {} BY <1>0, <3>1 DEF LocalsInv, HoldingPc
    <3> QED BY <1>2, <2>1, <3>1, <3>2
  <2>4. CASE FinalizeMerge(p)
    <3>1. pc'[p] = "free" BY <1>0, <2>4 DEF FinalizeMerge, Goto
    <3> QED BY <2>1, <3>1 DEF GotInv, CollectedPc
  <2>5. CASE MergeMeta(p) \/ MergeWatermark(p) \/ FreeConsumed(p) \/ FreeWatermarkTail(p)
             \/ SetRoots(p)
    <3>1. pc'[p] \notin CollectedPc
      BY <1>0, <2>5 DEF MergeMeta, MergeWatermark, FreeConsumed, FreeWatermarkTail, SetRoots,
         Goto, CollectedPc
    <3> QED BY <2>1, <3>1 DEF GotInv
  <2>6. CASE MergeBuild(p) \/ MergeAppendRun(p)
    <3>1. got' = got /\ UNCHANGED listVars /\ pc[p] \in CollectedPc
      BY <2>6 DEF MergeBuild, MergeAppendRun, mergeVars, CollectedPc
    <3> QED BY <1>2, <2>1, <3>1
  <2> QED BY <1>5, <2>2, <2>3, <2>4, <2>5, <2>6 DEF Merge
<1>6. CASE VacuumCase
  <2>1. UNCHANGED listVars
    BY <1>6 DEF VacuumCase, VacuumStart, MergeLock, VacuumMergeDone, StripDone, Reap, Compact,
       StripPosting
  <2>2. \A q \in Procs : pc'[q] \in CollectedPc => pc[q] \in CollectedPc
    BY <1>0, <1>6 DEF VacuumCase, VacuumStart, MergeLock, VacuumMergeDone, StripDone, Reap, Compact,
       StripPosting, Goto, CollectedPc
  <2>3. \A q \in Procs : got'[q] = got[q] \/ got'[q] = {}
    BY <1>0, <1>6 DEF VacuumCase, VacuumStart, MergeLock, VacuumMergeDone, StripDone, Reap, Compact,
       StripPosting, ClearMerge, mergeVars
  <2> QED BY <1>2, <2>1, <2>2, <2>3
<1>7. ASSUME NEW s \in Scanners, ScanCase(s) PROVE GotInv'
  BY <1>2, <1>7 DEF ScanCase, ScanStep, ScanStart, ScanOverlay, ScanOverlayDone, ScanLookup,
     ScanEnd, mergeVars
<1>8. CASE FaultCase
  <2>1. CASE \E r \in Tids : Die(r) BY <1>2, <2>1 DEF Die, mergeVars
  <2>2. CASE \E p \in Procs : Cancel(p)
    BY <1>0, <1>2, <2>2 DEF Cancel, ClearMerge, Goto, CollectedPc
  <2>3. CASE Crash BY <1>2, <2>3 DEF Crash
  <2> QED BY <1>8, <2>1, <2>2, <2>3 DEF FaultCase
<1> QED BY <1>3, <1>4, <1>5, <1>6, <1>7, <1>8, NextCases

(* ReapedInv depends on these variables only.                              *)
LEMMA ReapedFrame ==
    ASSUME ReapedInv, pc'[Vacuum] = pc[Vacuum], wm_tail'[Vacuum] = wm_tail[Vacuum],
           wm_tail_n'[Vacuum] = wm_tail_n[Vacuum], UNCHANGED <<listVars, base, runs, reap, strip>>
    PROVE  ReapedInv'
BY ListUnchanged DEF ReapedInv

(* No append brings an entry of a reaped row back.                         *)
LEMMA ReapedAppend ==
    ASSUME IInv, TodoInv, ReapedInv, NEW p \in Inserters, AppendPage(p)
    PROVE  ReapedInv'
<1>1. UNCHANGED <<base, runs, wm_tail, wm_tail_n, reap, strip>> /\ pc'[Vacuum] = pc[Vacuum]
  <2>1. pc \in [Procs -> PcState] /\ p # Vacuum /\ p \in Procs
    BY SetsAssumption DEF IInv, TypeOK, Procs
  <2> QED BY <2>1 DEF AppendPage, Goto, treeVars, mergeVars, vacVars
<1>2. \A e \in Elems(Put(p)) : e[2] \notin reap BY FreshEntries
<1>3. \A b \in ListBlocks' : \A i \in 1 .. Len(entries'[b]) :
          entries'[b][i][2] \in reap =>
             b \in ListBlocks /\ i \in 1 .. Len(entries[b]) /\ entries'[b][i] = entries[b][i]
  BY <1>2, AppendOnly
<1>4. \A e \in Pending' : e[2] \in reap => e \in Pending BY <1>2, AppendOnly
<1>5. pc[Vacuum] = "wm_n" =>
          \A b \in ListBlocks' : \A i \in 1 .. Len(entries'[b]) :
              entries'[b][i][2] \in reap => b <= wm_tail[Vacuum]
  BY <1>3 DEF ReapedInv
<1>6. pc[Vacuum] \in CollectedPc =>
          \A b \in ListBlocks' : \A i \in 1 .. Len(entries'[b]) :
              entries'[b][i][2] \in reap =>
                  \/ b < wm_tail[Vacuum]
                  \/ b = wm_tail[Vacuum] /\ i <= wm_tail_n[Vacuum]
  BY <1>3 DEF ReapedInv
<1>7. pc[Vacuum] \in DrainedPc => \A e \in Pending' : e[2] \notin reap
  BY <1>4 DEF ReapedInv
<1>8. /\ pc[Vacuum] = "strip" => \A e \in base \cup runs : e[2] \in reap => e[1] \in strip
      /\ pc[Vacuum] = "reap" => \A e \in base \cup runs : e[2] \notin reap
  BY DEF ReapedInv
<1> QED BY <1>1, <1>5, <1>6, <1>7, <1>8 DEF ReapedInv

(* A merge by an INSERT, which may run once VACUUM has given up the merge  *)
(* lock, moves no entry of a reaped row: the list holds none.              *)
LEMMA ReapedMergeOther ==
    ASSUME IInv, GotInv, ReapedInv, NEW p \in Inserters, Merge(p)
    PROVE  ReapedInv'
<1>0. pc \in [Procs -> PcState] /\ p # Vacuum /\ p \in Procs /\ Vacuum \in Procs /\ LockInv
  BY SetsAssumption DEF IInv, TypeOK, Procs
<1>1. /\ pc[p] \in MergePc /\ UNCHANGED <<reap, strip>>
      /\ \E l \in MergePc : pc' = [pc EXCEPT ![p] = l]
  BY <1>0, MergeFrame
<1>2. pc'[Vacuum] = pc[Vacuum] BY <1>0, <1>1
<1>3. pc[Vacuum] \notin LockedPc BY <1>0, <1>1 DEF LockInv, LockedPc
<1>4. /\ pc[Vacuum] # "wm_n" /\ pc[Vacuum] \notin CollectedPc /\ pc[Vacuum] # "strip"
      /\ pc[Vacuum] \in DrainedPc => pc[Vacuum] = "reap"
  BY <1>3 DEF LockedPc, MergePc, CollectedPc, DrainedPc
<1>5. Pending' \subseteq Pending /\ base' \cup runs' \subseteq Indexed
  <2>1. Next BY <1>0 DEF Next, InsertStep
  <2>2. CASE FinalizeMerge(p) BY <1>0, <2>1, <2>2, FinalizeShrinks, TreesFromIndex
  <2>3. CASE ~FinalizeMerge(p)
    <3>1. UNCHANGED listVars
      BY <2>3 DEF Merge, MergeMeta, MergeWatermark, MergeWatermarkN, MergeCollect,
              MergeBuild, MergeAppendRun, FreeConsumed, FreeWatermarkTail, SetRoots
    <3> QED BY <2>1, <3>1, ListUnchanged, TreesFromIndex
  <2> QED BY <2>2, <2>3
<1>6. ASSUME pc[Vacuum] = "reap"
      PROVE  /\ \A e \in Pending' : e[2] \notin reap
             /\ \A e \in base' \cup runs' : e[2] \notin reap
  <2>1. \A e \in Indexed : e[2] \notin reap BY <1>6 DEF ReapedInv, DrainedPc, Indexed
  <2> QED BY <1>5, <2>1 DEF Indexed
<1> QED BY <1>1, <1>2, <1>4, <1>6 DEF ReapedInv

(* VACUUM's own merge drains every entry of a reaped row: the watermark    *)
(* was read after the rows had died.                                       *)
LEMMA ReapedMerge ==
    ASSUME IInv, GotInv, ReapedInv, Merge(Vacuum)
    PROVE  ReapedInv'
<1>0. pc \in [Procs -> PcState] /\ Vacuum \in Procs /\ wm_tail \in [Procs -> Nat]
      /\ wm_tail_n \in [Procs -> Nat]
  BY DEF IInv, TypeOK, Procs
<1>1. reap' = reap /\ strip' = strip BY <1>0, MergeFrame
<1>2. CASE MergeMeta(Vacuum)
  <2>1. UNCHANGED listVars BY <1>2 DEF MergeMeta
  <2>2. CASE pending_head = Invalid
    <3>1. Pending' = {} BY <2>1, <2>2, ListUnchanged DEF Pending, ListBlocks
    <3>2. pc'[Vacuum] = "merged" BY <1>0, <1>2, <2>2 DEF MergeMeta, Goto
    <3> QED BY <3>1, <3>2 DEF ReapedInv, CollectedPc
  <2>3. CASE pending_head # Invalid
    <3>1. pc'[Vacuum] = "wm" BY <1>0, <1>2, <2>3 DEF MergeMeta, Goto
    <3> QED BY <3>1 DEF ReapedInv, CollectedPc, DrainedPc
  <2> QED BY <2>2, <2>3
<1>3. CASE MergeWatermark(Vacuum)
  <2>1. UNCHANGED listVars /\ pc'[Vacuum] = "wm_n" /\ wm_tail'[Vacuum] = pending_tail
    BY <1>0, <1>3 DEF MergeWatermark, Goto
  <2>2. \A b \in ListBlocks : b <= pending_tail BY DEF ListBlocks, IInv, TypeOK
  <2> QED BY <2>1, <2>2, ListUnchanged DEF ReapedInv, CollectedPc, DrainedPc
<1>4. CASE MergeWatermarkN(Vacuum)
  <2>1. /\ UNCHANGED listVars /\ pc'[Vacuum] = "collect" /\ wm_tail'[Vacuum] = wm_tail[Vacuum]
        /\ wm_tail_n'[Vacuum] = Len(entries[wm_tail[Vacuum]]) /\ pc[Vacuum] = "wm_n"
    BY <1>0, <1>4 DEF MergeWatermarkN, Goto
  <2>2. ASSUME NEW b \in ListBlocks, NEW i \in 1 .. Len(entries[b]), entries[b][i][2] \in reap
        PROVE  \/ b < wm_tail[Vacuum]
               \/ b = wm_tail[Vacuum] /\ i <= Len(entries[wm_tail[Vacuum]])
    <3>1. b <= wm_tail[Vacuum] BY <2>1, <2>2 DEF ReapedInv
    <3>2. b \in Nat /\ wm_tail[Vacuum] \in Nat /\ Len(entries[b]) \in Nat
      <4>1. b \in 1 .. Len(entries) /\ Len(entries[b]) \in Nat BY ListPages
      <4> QED BY <1>0, <4>1
    <3> QED BY <3>1, <3>2
  <2> QED BY <1>1, <2>1, <2>2, ListUnchanged DEF ReapedInv, DrainedPc
<1>5. CASE MergeCollect(Vacuum) \/ MergeBuild(Vacuum) \/ MergeAppendRun(Vacuum)
  <2>1. /\ UNCHANGED listVars /\ wm_tail' = wm_tail /\ wm_tail_n' = wm_tail_n
        /\ pc[Vacuum] \in CollectedPc
    BY <1>5 DEF MergeCollect, MergeBuild, MergeAppendRun, mergeVars, CollectedPc
  <2>2. pc'[Vacuum] \in CollectedPc
    BY <1>0, <1>5 DEF MergeCollect, MergeBuild, MergeAppendRun, CollectedPc, Goto
  <2> QED BY <1>1, <2>1, <2>2, ListUnchanged DEF ReapedInv, DrainedPc, CollectedPc
<1>6. CASE FinalizeMerge(Vacuum)
  <2>1. pc[Vacuum] = "finalize" /\ pc'[Vacuum] = "free" BY <1>0, <1>6 DEF FinalizeMerge, Goto
  <2>2. ASSUME NEW e \in Pending' PROVE e[2] \notin reap
    <3>1. PICK b \in ListBlocks : \E i \in 1 .. Len(entries[b]) :
                  /\ e = entries[b][i]
                  /\ b > wm_tail[Vacuum] \/ (b = wm_tail[Vacuum] /\ i > wm_tail_n[Vacuum])
      BY <1>0, <1>6, <2>2, FinalizeOnly
    <3>2. PICK i \in 1 .. Len(entries[b]) :
                  /\ e = entries[b][i]
                  /\ b > wm_tail[Vacuum] \/ (b = wm_tail[Vacuum] /\ i > wm_tail_n[Vacuum])
      BY <3>1
    <3>3. b \in Nat /\ i \in Nat /\ wm_tail[Vacuum] \in Nat /\ wm_tail_n[Vacuum] \in Nat
      BY <1>0, <3>2, ListPages
    <3>4. ~(b < wm_tail[Vacuum] \/ (b = wm_tail[Vacuum] /\ i <= wm_tail_n[Vacuum]))
      BY <3>2, <3>3
    <3>5. entries[b][i][2] \in reap =>
             b < wm_tail[Vacuum] \/ (b = wm_tail[Vacuum] /\ i <= wm_tail_n[Vacuum])
      BY <2>1, <3>2 DEF ReapedInv, CollectedPc
    <3> QED BY <3>2, <3>4, <3>5
  <2> QED BY <1>1, <2>1, <2>2 DEF ReapedInv, CollectedPc
<1>7. CASE FreeConsumed(Vacuum) \/ FreeWatermarkTail(Vacuum) \/ SetRoots(Vacuum)
  <2>1. UNCHANGED listVars /\ pc[Vacuum] \in {"free", "free_tail", "set_roots"}
    BY <1>7 DEF FreeConsumed, FreeWatermarkTail, SetRoots
  <2>2. pc'[Vacuum] \in {"free", "free_tail", "set_roots", "merged"}
    BY <1>0, <1>7 DEF FreeConsumed, FreeWatermarkTail, SetRoots, Goto
  <2> QED BY <1>1, <2>1, <2>2, ListUnchanged DEF ReapedInv, DrainedPc, CollectedPc
<1> QED BY <1>2, <1>3, <1>4, <1>5, <1>6, <1>7 DEF Merge

(* The strip visits every trigram and no posting is skipped.               *)
LEMMA ReapedVacuum ==
    ASSUME IInv, coalesced = {}, ~RepackOverflow, ReapedInv, VacuumCase
    PROVE  ReapedInv'
<1>0. pc \in [Procs -> PcState] /\ Vacuum \in Procs /\ base \subseteq Entry /\ runs \subseteq Entry
  BY DEF IInv, TypeOK, Procs
<1>1. UNCHANGED listVars
  BY DEF VacuumCase, VacuumStart, MergeLock, VacuumMergeDone, StripDone, Reap, Compact,
         StripPosting
<1>2. CASE VacuumStart \/ MergeLock \/ Reap \/ Compact
  <2>1. pc'[Vacuum] \in {"cl_lock", "bd_lock", "meta", "idle"}
    BY <1>0, <1>2 DEF VacuumStart, MergeLock, Reap, Compact, Goto
  <2> QED BY <2>1 DEF ReapedInv, DrainedPc, CollectedPc
<1>3. CASE VacuumMergeDone
  <2>1. /\ pc[Vacuum] = "merged" /\ UNCHANGED <<base, runs, reap>>
        /\ strip' = IF reap = {} THEN {} ELSE Trigrams
        /\ pc'[Vacuum] = IF reap = {} THEN "compact" ELSE "strip"
    BY <1>0, <1>3 DEF VacuumMergeDone, treeVars, Goto
  <2>2. \A e \in base \cup runs : e[1] \in Trigrams BY <1>0 DEF Entry
  <2>3. \A e \in Pending' : e[2] \notin reap
    BY <1>1, <2>1, ListUnchanged DEF ReapedInv, DrainedPc
  <2> QED BY <2>1, <2>2, <2>3 DEF ReapedInv, CollectedPc, DrainedPc
<1>4. CASE StripDone
  <2>1. /\ pc[Vacuum] = "strip" /\ strip = {} /\ pc'[Vacuum] = "reap"
        /\ UNCHANGED <<base, runs, reap, strip>>
    BY <1>0, <1>4 DEF StripDone, Goto, treeVars, vacVars
  <2> QED BY <1>1, <2>1, ListUnchanged DEF ReapedInv, CollectedPc, DrainedPc
<1>5. CASE \E t \in Trigrams : StripPosting(t)
  <2>1. PICK t \in Trigrams : StripPosting(t) BY <1>5
  <2>2. /\ pc[Vacuum] = "strip" /\ pc' = pc /\ reap' = reap /\ strip' = strip \ {t}
        /\ base' = base \ ({t} \X reap) /\ runs' = runs \ ({t} \X reap)
    BY <2>1 DEF StripPosting, Skips
  <2>3. ASSUME NEW e \in base' \cup runs', e[2] \in reap PROVE e[1] \in strip'
    <3>1. e \in base \cup runs /\ e \notin {t} \X reap BY <2>2, <2>3
    <3>2. e[1] \in strip BY <2>2, <2>3, <3>1 DEF ReapedInv
    <3>3. e = <<e[1], e[2]>> BY <1>0, <3>1 DEF Entry
    <3>4. e[1] # t BY <2>3, <3>1, <3>3
    <3> QED BY <2>2, <3>2, <3>4
  <2>4. \A e \in Pending' : e[2] \notin reap
    BY <1>1, <2>2, ListUnchanged DEF ReapedInv, DrainedPc
  <2> QED BY <2>2, <2>3, <2>4 DEF ReapedInv, CollectedPc, DrainedPc
<1> QED BY <1>2, <1>3, <1>4, <1>5 DEF VacuumCase

(* ReapedInv holds again after every step.                                 *)
LEMMA ReapedStep ==
    ASSUME IInv, GhostInv, ~RepackOverflow, Next
    PROVE  ReapedInv'
<1>0. pc \in [Procs -> PcState] /\ Vacuum \in Procs /\ Vacuum \notin Inserters
      /\ Procs = Inserters \cup {Vacuum} /\ wm_tail \in [Procs -> Nat] /\ wm_tail_n \in [Procs -> Nat]
  BY SetsAssumption DEF IInv, TypeOK, Procs
<1> USE DEF GhostInv
<1>1. ASSUME NEW p \in Inserters, AppendPage(p) PROVE ReapedInv'
  BY <1>1, ReapedAppend
<1>2. ASSUME NEW p \in Inserters, InsertCase(p) PROVE ReapedInv'
  <2>1. UNCHANGED <<listVars, base, runs, reap, strip>>
    BY <1>2 DEF InsertCase, AmInsert, SkipMerge, TryLock, InsertMergeDone, EndXact, treeVars,
       vacVars
  <2>2. p # Vacuum /\ p \in Procs BY <1>0
  <2>3. pc'[Vacuum] = pc[Vacuum]
    BY <1>0, <1>2, <2>2 DEF InsertCase, AmInsert, SkipMerge, TryLock, InsertMergeDone, EndXact,
       Goto
  <2>4. wm_tail'[Vacuum] = wm_tail[Vacuum] /\ wm_tail_n'[Vacuum] = wm_tail_n[Vacuum]
    BY <1>0, <1>2, <2>2 DEF InsertCase, AmInsert, SkipMerge, TryLock, InsertMergeDone, EndXact,
       ClearMerge, mergeVars
  <2> QED BY <2>1, <2>3, <2>4, ReapedFrame
<1>3. ASSUME NEW p \in Procs, Merge(p) PROVE ReapedInv'
  BY <1>0, <1>3, ReapedMergeOther, ReapedMerge
<1>4. CASE VacuumCase BY <1>4, ReapedVacuum
<1>5. ASSUME NEW s \in Scanners, ScanCase(s) PROVE ReapedInv'
  BY <1>5, ReapedFrame DEF ScanCase, ScanStep, ScanStart, ScanOverlay, ScanOverlayDone, ScanLookup,
     ScanEnd, treeVars, mergeVars, vacVars
<1>6. CASE FaultCase
  <2>1. CASE \E r \in Tids : Die(r)
    BY <2>1, ReapedFrame DEF Die, treeVars, mergeVars, vacVars
  <2>2. ASSUME pc'[Vacuum] = "idle" PROVE ReapedInv'
    BY <2>2 DEF ReapedInv, CollectedPc, DrainedPc
  <2>3. CASE Crash BY <1>0, <2>2, <2>3 DEF Crash
  <2>4. ASSUME NEW p \in Procs, Cancel(p) PROVE ReapedInv'
    <3>1. CASE p = Vacuum BY <1>0, <2>2, <2>4, <3>1 DEF Cancel, Goto
    <3>2. CASE p # Vacuum
      <4>1. /\ UNCHANGED <<listVars, base, runs, reap, strip>> /\ pc'[Vacuum] = pc[Vacuum]
            /\ wm_tail'[Vacuum] = wm_tail[Vacuum] /\ wm_tail_n'[Vacuum] = wm_tail_n[Vacuum]
        BY <1>0, <2>4, <3>2 DEF Cancel, Goto, ClearMerge, treeVars, vacVars
      <4> QED BY <4>1, ReapedFrame
    <3> QED BY <3>1, <3>2
  <2> QED BY <1>6, <2>1, <2>3, <2>4 DEF FaultCase
<1> QED BY <1>1, <1>2, <1>3, <1>4, <1>5, <1>6, NextCases

(* The steps that change the heap.                                         *)
LEMMA HeapSteps ==
    ASSUME IInv, Next
    PROVE  \/ \E p \in Inserters, r \in Tids, T \in Values : AmInsert(p, r, T)
           \/ \E p \in Inserters, o \in {"live", "dead"} : EndXact(p, o)
           \/ Reap
           \/ FaultCase
           \/ UNCHANGED <<row, rowTrgs>>
<1>1. ASSUME NEW p \in Inserters, AppendPage(p) \/ SkipMerge(p) \/ TryLock(p) \/ InsertMergeDone(p)
      PROVE  UNCHANGED <<row, rowTrgs>>
  BY <1>1 DEF AppendPage, SkipMerge, TryLock, InsertMergeDone, heapVars
<1>2. ASSUME NEW p \in Procs, Merge(p) PROVE UNCHANGED <<row, rowTrgs>>
  BY <1>2, MergeFrame
<1>3. ASSUME VacuumCase, ~Reap PROVE UNCHANGED <<row, rowTrgs>>
  BY <1>3 DEF VacuumCase, VacuumStart, MergeLock, VacuumMergeDone, StripDone, Compact,
     StripPosting, heapVars
<1>4. ASSUME NEW s \in Scanners, ScanCase(s) PROVE UNCHANGED <<row, rowTrgs>>
  BY <1>4 DEF ScanCase, ScanStep, ScanStart, ScanOverlay, ScanOverlayDone, ScanLookup,
     ScanEnd, heapVars
<1> QED BY <1>1, <1>2, <1>3, <1>4, NextCases DEF InsertCase

(* A step that touches neither the list nor a tree leaves the index as it  *)
(* is.                                                                     *)
LEMMA IndexUnchanged ==
    ASSUME UNCHANGED <<listVars, treeVars>>
    PROVE  Indexed' = Indexed
BY ListUnchanged DEF Indexed, treeVars

(* An INSERT under way has a row of its own; entries have TIDs.            *)
LEMMA RowOf ==
    ASSUME IInv
    PROVE  /\ \A p \in Inserters : pc[p] # "idle" => tid[p] \in Tids /\ row[tid[p]] = "inserting"
           /\ row \in [Tids -> RowState] /\ rowTrgs \in [Tids -> SUBSET Trigrams]
           /\ tid \in [Inserters -> Tids \cup {None}]
           /\ \A e \in Indexed : e[2] \in Tids
<1>1. /\ row \in [Tids -> RowState] /\ rowTrgs \in [Tids -> SUBSET Trigrams]
      /\ tid \in [Inserters -> Tids \cup {None}] /\ base \subseteq Entry /\ runs \subseteq Entry
  BY DEF IInv, TypeOK
<1>2. \A p \in Inserters : pc[p] # "idle" => tid[p] \in Tids /\ row[tid[p]] = "inserting"
  BY <1>1 DEF IInv, InsertInv
<1>3. Pending \subseteq Entry
  <2> SUFFICES ASSUME NEW e \in Pending PROVE e \in Entry OBVIOUS
  <2>1. PICK b \in ListBlocks : \E i \in 1 .. Len(entries[b]) : e = entries[b][i] BY PendingAt
  <2>2. entries[b] \in Seq(Entry) BY ListPages
  <2> QED BY <2>1, <2>2
<1> QED BY <1>1, <1>2, <1>3 DEF Indexed, Entry

(* NoGhostEntry holds again after every step.                              *)
LEMMA GhostStep ==
    ASSUME IInv, GhostInv, Next
    PROVE  NoGhostEntry'
<1> USE DEF GhostInv
<1>0. /\ \A p \in Inserters : pc[p] # "idle" => tid[p] \in Tids /\ row[tid[p]] = "inserting"
      /\ row \in [Tids -> RowState] /\ rowTrgs \in [Tids -> SUBSET Trigrams]
      /\ tid \in [Inserters -> Tids \cup {None}]
      /\ \A e \in Indexed : e[2] \in Tids
  BY RowOf
<1>1. ASSUME rowTrgs' = rowTrgs, \A r \in Tids : row'[r] = "unused" => row[r] = "unused"
      PROVE  NoGhostEntry'
  <2>1. CASE Indexed' \subseteq Indexed
    BY <1>0, <1>1, <2>1 DEF NoGhostEntry
  <2>2. ASSUME NEW p \in Inserters, AppendPage(p), Indexed' \subseteq Indexed \cup Elems(Put(p))
        PROVE  NoGhostEntry'
    <3>1. tid[p] \in Tids /\ row[tid[p]] = "inserting" BY <2>2, FreshEntries
    <3>2. \A e \in Elems(Put(p)) : e[2] = tid[p] /\ e[1] \in rowTrgs[tid[p]] BY <2>2, FreshEntries
    <3>3. row'[tid[p]] # "unused" BY <1>1, <3>1
    <3> QED BY <1>0, <1>1, <2>2, <3>2, <3>3 DEF NoGhostEntry
  <2> QED BY <2>1, <2>2, IndexedShrinks
<1>2. ASSUME NEW p \in Inserters, NEW r \in Tids, NEW T \in Values, AmInsert(p, r, T)
      PROVE  NoGhostEntry'
  <2>1. /\ row[r] = "unused" /\ row' = [row EXCEPT ![r] = "inserting"]
        /\ rowTrgs' = [rowTrgs EXCEPT ![r] = T] /\ Indexed' = Indexed
    BY <1>2, IndexUnchanged DEF AmInsert
  <2>2. \A e \in Indexed : e[2] # r BY <2>1 DEF NoGhostEntry
  <2> QED BY <1>0, <2>1, <2>2 DEF NoGhostEntry
<1>3. ASSUME NEW p \in Inserters, NEW o \in {"live", "dead"}, EndXact(p, o) PROVE NoGhostEntry'
  <2>1. rowTrgs' = rowTrgs /\ row' = [row EXCEPT ![tid[p]] = o] BY <1>3 DEF EndXact
  <2> QED BY <1>0, <1>1, <2>1
<1>4. CASE Reap
  <2>1. /\ row' = [r \in Tids |-> IF r \in reap THEN "unused" ELSE row[r]]
        /\ rowTrgs' = [r \in Tids |-> IF r \in reap THEN {} ELSE rowTrgs[r]]
        /\ pc[Vacuum] = "reap" /\ Indexed' = Indexed
    BY <1>4, IndexUnchanged DEF Reap
  <2>2. \A e \in Indexed : e[2] \notin reap BY <2>1 DEF ReapedInv, DrainedPc, Indexed
  <2> QED BY <1>0, <2>1, <2>2 DEF NoGhostEntry
<1>5. CASE FaultCase
  <2>1. rowTrgs' = rowTrgs BY <1>5 DEF FaultCase, Die, Cancel, Crash, heapVars
  <2>2. \A r \in Tids : row'[r] = "unused" => row[r] = "unused"
    <3>1. CASE \E r \in Tids : Die(r) BY <1>0, <3>1 DEF Die
    <3>2. CASE Crash BY <1>0, <3>2 DEF Crash
    <3>3. CASE \E p \in Procs : Cancel(p) BY <1>0, <3>3 DEF Cancel, heapVars
    <3> QED BY <1>5, <3>1, <3>2, <3>3 DEF FaultCase
  <2> QED BY <1>1, <2>1, <2>2
<1>6. CASE UNCHANGED <<row, rowTrgs>> BY <1>1, <1>6
<1> QED BY <1>2, <1>3, <1>4, <1>5, <1>6, HeapSteps

(* Nothing becomes coalesced after ambuild.                                *)
LEMMA NoneCoalesced == ASSUME coalesced = {}, Next PROVE coalesced' = {}
<1>1. ASSUME NEW p \in Inserters, AppendPage(p) \/ InsertCase(p) PROVE coalesced' = {}
  BY <1>1 DEF AppendPage, InsertCase, AmInsert, SkipMerge, TryLock, InsertMergeDone, EndXact,
     treeVars
<1>2. ASSUME NEW p \in Procs, Merge(p) PROVE coalesced' = {}
  BY <1>2 DEF Merge, MergeMeta, MergeWatermark, MergeWatermarkN, MergeCollect, MergeBuild,
     MergeAppendRun, FinalizeMerge, FreeConsumed, FreeWatermarkTail, SetRoots, treeVars
<1>3. CASE VacuumCase
  BY <1>3 DEF VacuumCase, VacuumStart, MergeLock, VacuumMergeDone, StripDone, Reap, Compact,
     StripPosting, treeVars
<1>4. ASSUME NEW s \in Scanners, ScanCase(s) PROVE coalesced' = {}
  BY <1>4 DEF ScanCase, ScanStep, ScanStart, ScanOverlay, ScanOverlayDone, ScanLookup, ScanEnd,
     treeVars
<1>5. CASE FaultCase BY <1>5 DEF FaultCase, Die, Cancel, Crash, treeVars
<1> QED BY <1>1, <1>2, <1>3, <1>4, <1>5, NextCases

(* GhostInv is inductive when ambuild coalesced nothing and every repacked *)
(* leaf fits its page.                                                     *)
LEMMA GhostInductive ==
    ASSUME ~Coalesce, ~RepackOverflow
    PROVE  /\ Init => GhostInv
           /\ IInv /\ GhostInv /\ [Next]_vars => GhostInv'
<1>1. ASSUME Init PROVE GhostInv
  <2>1. coalesced = {} /\ ListBlocks = {} BY <1>1 DEF Init, ListBlocks
  <2>2. Pending = {} BY <2>1 DEF Pending
  <2>3. pc[Vacuum] = "idle" BY <1>1 DEF Init, Procs
  <2>4. NoGhostEntry
    <3>1. Indexed = Trigrams \X Built BY <1>1, <2>2 DEF Init, Indexed
    <3>2. row = [r \in Tids |-> IF r \in Built THEN "live" ELSE "unused"]
          /\ rowTrgs = [r \in Tids |-> IF r \in Built THEN Trigrams ELSE {}]
      BY <1>1 DEF Init
    <3> QED BY <3>1, <3>2, SetsAssumption DEF NoGhostEntry
  <2>5. GotInv BY <1>1 DEF Init, GotInv
  <2>6. TodoInv BY <1>1 DEF Init, TodoInv
  <2>7. ReapedInv BY <2>3 DEF ReapedInv, CollectedPc, DrainedPc
  <2> QED BY <2>1, <2>4, <2>5, <2>6, <2>7 DEF GhostInv
<1>2. ASSUME IInv, GhostInv, Next PROVE GhostInv'
  BY <1>2, GhostStep, GotStep, TodoStep, ReapedStep, NoneCoalesced DEF GhostInv
<1>3. ASSUME GhostInv, UNCHANGED vars PROVE GhostInv'
  <2>1. /\ UNCHANGED <<listVars, treeVars>>
        /\ UNCHANGED <<coalesced, row, rowTrgs, tid, todo, pc, got, wm_tail, wm_tail_n, base, runs,
                       reap, strip>>
    BY <1>3 DEF vars, treeVars, heapVars, insertVars, mergeVars, vacVars
  <2>2. Indexed' = Indexed /\ Pending' = Pending BY <2>1, IndexUnchanged, ListUnchanged
  <2>3. ReapedInv' BY <1>3, <2>1, ReapedFrame DEF GhostInv
  <2>4. TodoInv' /\ GotInv' BY <1>3, <2>1, <2>2 DEF GhostInv, TodoInv, GotInv, RowEntries
  <2> QED BY <1>3, <2>1, <2>2, <2>3, <2>4 DEF GhostInv, NoGhostEntry
<1> QED BY <1>1, <1>2, <1>3

(* No entry outlives its heap tuple, provided that the index was not built *)
(* with pg_tre.coalesce_enable and that every repacked leaf fits its page: *)
(* pg_tre_posting_bulk_delete skips a coalesced posting and leaves an      *)
(* overflowing one as it is, and without these two cases the merge before  *)
(* the strip, the merge lock and the order of the two heap passes suffice. *)
THEOREM NoGhosts ==
    ASSUME ~Coalesce, ~RepackOverflow
    PROVE  Spec => []NoGhostEntry
<1>1. GhostInv => NoGhostEntry BY DEF GhostInv
<1>2. Init => GhostInv BY GhostInductive
<1>3. IInv /\ GhostInv /\ [Next]_vars => GhostInv' BY GhostInductive
<1> QED BY <1>1, <1>2, <1>3, Inductive, PTL DEF Spec

(* Every step maps to a step of IndexContents or does not show.            *)
LEMMA ContentsStep ==
    ASSUME IInv, GhostInv, Next
    PROVE  Contents!Next \/ UNCHANGED Contents!cvars
<1> USE DEF GhostInv
<1>0. /\ \A p \in Inserters : pc[p] # "idle" => tid[p] \in Tids /\ row[tid[p]] = "inserting"
      /\ row \in [Tids -> RowState] /\ rowTrgs \in [Tids -> SUBSET Trigrams]
      /\ tid \in [Inserters -> Tids \cup {None}]
      /\ \A e \in Indexed : e[2] \in Tids
  BY RowOf
<1>1. ASSUME NEW R \in SUBSET Tids, \A r \in R : row[r] \in {"inserting", "live"},
             row' = [r \in Tids |-> IF r \in R THEN "dead" ELSE row[r]],
             rowTrgs' = rowTrgs, Indexed' = Indexed
      PROVE  Contents!Next
  <2>1. Contents!Kill(R) BY <1>1 DEF Contents!Kill
  <2> QED BY <2>1 DEF Contents!Next
<1>2. ASSUME NEW p \in Inserters, NEW r \in Tids, NEW T \in Values, AmInsert(p, r, T)
      PROVE  Contents!Next
  <2>1. Contents!Store(r, T) BY <1>2, IndexUnchanged DEF AmInsert, Contents!Store
  <2> QED BY <2>1 DEF Contents!Next
<1>3. ASSUME NEW p \in Inserters, NEW o \in {"live", "dead"}, EndXact(p, o)
      PROVE  Contents!Next
  <2>1. /\ pc[p] = "xact" /\ row' = [row EXCEPT ![tid[p]] = o] /\ rowTrgs' = rowTrgs
        /\ Indexed' = Indexed
    BY <1>3, IndexUnchanged DEF EndXact
  <2>2. tid[p] \in Tids /\ row[tid[p]] = "inserting" BY <1>0, <2>1
  <2>3. CASE o = "dead"
    <3>1. row' = [r \in Tids |-> IF r \in {tid[p]} THEN "dead" ELSE row[r]]
      BY <1>0, <2>1, <2>2, <2>3
    <3> QED BY <1>1, <2>1, <2>2, <3>1
  <2>4. CASE o = "live"
    <3>1. todo[p] = <<>> /\ tid[p] # None BY <2>1, <2>2, SetsAssumption DEF IInv, InsertInv
    <3>2. Elems(todo[p]) = {} BY <3>1 DEF Elems
    <3>3. RowEntries(tid[p]) \subseteq Indexed BY <3>1, <3>2 DEF IInv, NoLostEntry
    <3>4. Contents!Commit(tid[p])
      BY <2>1, <2>2, <2>4, <3>3 DEF Contents!Commit, Contents!EntriesOf, RowEntries
    <3> QED BY <2>2, <3>4 DEF Contents!Next
  <2> QED BY <2>3, <2>4
<1>4. CASE Reap
  <2>1. /\ row' = [r \in Tids |-> IF r \in reap THEN "unused" ELSE row[r]]
        /\ rowTrgs' = [r \in Tids |-> IF r \in reap THEN {} ELSE rowTrgs[r]]
        /\ pc[Vacuum] = "reap" /\ Indexed' = Indexed
    BY <1>4, IndexUnchanged DEF Reap
  <2>2. \A e \in Indexed : e[2] \notin reap BY <2>1 DEF ReapedInv, DrainedPc, Indexed
  <2>3. reap \in SUBSET Tids /\ \A r \in reap : row[r] = "dead" BY DEF IInv, TypeOK, ReapInv
  <2>4. Contents!Reuse(reap) BY <2>1, <2>2, <2>3 DEF Contents!Reuse
  <2> QED BY <2>3, <2>4 DEF Contents!Next
<1>5. CASE UNCHANGED <<row, rowTrgs>>
  <2>1. CASE Indexed' \subseteq Indexed
    <3>1. \A e \in Indexed : e \in Indexed' \/ row[e[2]] = "dead"
      <4>1. \A e \in Trigrams \X reap : row[e[2]] = "dead" BY DEF IInv, ReapInv
      <4> QED BY <4>1, IndexedGrows
    <3>2. Contents!Strip BY <1>5, <2>1, <3>1 DEF Contents!Strip
    <3> QED BY <3>2 DEF Contents!Next
  <2>2. ASSUME NEW p \in Inserters, AppendPage(p), Indexed' \subseteq Indexed \cup Elems(Put(p))
        PROVE  Contents!Next
    <3>1. tid[p] \in Tids /\ row[tid[p]] = "inserting" /\ Elems(Put(p)) \subseteq RowEntries(tid[p])
      BY <2>2, FreshEntries
    <3>2. Indexed \subseteq Indexed'
      BY <2>2, AppendKeeps DEF Indexed, AppendPage, treeVars
    <3>3. Contents!Add(tid[p])
      BY <1>5, <2>2, <3>1, <3>2 DEF Contents!Add, Contents!EntriesOf, RowEntries
    <3> QED BY <3>1, <3>3 DEF Contents!Next
  <2> QED BY <2>1, <2>2, IndexedShrinks
<1>6. CASE FaultCase
  <2>1. rowTrgs' = rowTrgs /\ Indexed' = Indexed
    BY <1>6, IndexUnchanged DEF FaultCase, Die, Cancel, Crash, heapVars
  <2>2. ASSUME NEW r \in Tids, Die(r) PROVE Contents!Next
    <3>1. row[r] = "live" /\ row' = [row EXCEPT ![r] = "dead"] BY <2>2 DEF Die
    <3>2. row' = [q \in Tids |-> IF q \in {r} THEN "dead" ELSE row[q]] BY <1>0, <3>1
    <3> QED BY <1>1, <2>1, <3>1, <3>2
  <2>3. CASE Crash
    <3> DEFINE R == {r \in Tids : row[r] = "inserting"}
    <3>1. row' = [r \in Tids |-> IF r \in R THEN "dead" ELSE row[r]]
      BY <2>3 DEF Crash
    <3>2. R \in SUBSET Tids /\ \A r \in R : row[r] \in {"inserting", "live"} OBVIOUS
    <3> HIDE DEF R
    <3> QED BY <1>1, <2>1, <3>1, <3>2
  <2>4. ASSUME NEW p \in Procs, Cancel(p) PROVE Contents!Next \/ UNCHANGED Contents!cvars
    <3>1. CASE p = Vacuum
      BY <2>1, <2>4, <3>1 DEF Cancel, heapVars, Contents!cvars
    <3>2. CASE p # Vacuum
      <4>1. pc[p] # "idle" /\ p \in Inserters /\ row' = [row EXCEPT ![tid[p]] = "dead"]
        BY <2>4, <3>2 DEF Cancel, Procs
      <4>2. tid[p] \in Tids /\ row[tid[p]] = "inserting" BY <1>0, <4>1
      <4>3. row' = [q \in Tids |-> IF q \in {tid[p]} THEN "dead" ELSE row[q]]
        BY <1>0, <4>1, <4>2
      <4> QED BY <1>1, <2>1, <4>2, <4>3
    <3> QED BY <3>1, <3>2
  <2> QED BY <1>6, <2>2, <2>3, <2>4 DEF FaultCase
<1> QED BY <1>2, <1>3, <1>4, <1>5, <1>6, HeapSteps

(* Under the same provisos the pending list, the merges, the runs and      *)
(* VACUUM implement IndexContents: seen as one set of entries the index    *)
(* only grows by entries of rows being inserted and only loses entries of  *)
(* dead rows, a row commits wholly indexed, and a line pointer is reused   *)
(* wholly forgotten.                                                       *)
THEOREM ImplementsContents ==
    ASSUME ~Coalesce, ~RepackOverflow
    PROVE  Spec => RefinesContents
<1>1. Init => Contents!Init
  <2> SUFFICES ASSUME Init PROVE Contents!Init OBVIOUS
  <2>1. Pending = {} BY DEF Init, Pending, ListBlocks
  <2>2. Indexed = Trigrams \X Built BY <2>1 DEF Init, Indexed
  <2> QED BY <2>2 DEF Init, Contents!Init
<1>2. IInv /\ GhostInv /\ [Next]_vars => [Contents!Next]_Contents!cvars
  <2> SUFFICES ASSUME IInv, GhostInv, [Next]_vars PROVE [Contents!Next]_Contents!cvars OBVIOUS
  <2>1. CASE Next BY <2>1, ContentsStep
  <2>2. CASE UNCHANGED vars
    <3>1. UNCHANGED <<listVars, treeVars>> /\ row' = row /\ rowTrgs' = rowTrgs
      BY <2>2 DEF vars, heapVars
    <3> QED BY <3>1, IndexUnchanged DEF Contents!cvars
  <2> QED BY <2>1, <2>2
<1>3. Init => GhostInv BY GhostInductive
<1>4. IInv /\ GhostInv /\ [Next]_vars => GhostInv' BY GhostInductive
<1> QED BY <1>1, <1>2, <1>3, <1>4, Inductive, PTL DEF Spec, RefinesContents, Contents!Spec


-----------------------------------------------------------------------------
(* Entry e is on a page the walk of scan s will still come to, following   *)
(* the links as they are, even when the page is no longer on the list.     *)
Ahead(s, e) ==
    /\ scan_blk[s] # Invalid
    /\ \E b \in scan_blk[s] .. Len(entries) :
          /\ e \in PageEntries(b)
          /\ \A c \in scan_blk[s] .. b - 1 : next_page[c] = c + 1

(* Scan s has found entry e, or will find it in a tree it has still to     *)
(* look into, or on a page ahead of it.                                    *)
Seen(s, e) ==
    \/ e \in found[s]
    \/ e[1] \in rest[s] /\ e \in base \cup runs
    \/ scan_at[s] = "overlay" /\ Ahead(s, e)

(* The inductive invariant for NoMissedRow, next to IInv: every entry of a *)
(* row the snapshot sees is Seen.                                          *)
ScanKeeps ==
    \A s \in Scanners :
        /\ \A r \in rows[s] : row[r] = "live"
        /\ scan_at[s] = "overlay" => rest[s] = want[s]
        /\ \A r \in rows[s] : \A e \in RowEntries(r) : e[1] \in want[s] => Seen(s, e)

(* A query that looks under the base root only misses nothing when no      *)
(* merge flushes to a run.                                                 *)
TreesComplete ==
    /\ "dnf" \notin QueryModes => \A s \in Scanners : mode[s] = "cnf"
    /\ TRUE \notin FlushModes => runs = {} /\ \A p \in Procs : ~flush[p]

(* An entry leaves the trees only if VACUUM reaps its row.                 *)
LEMMA TreesKeep ==
    ASSUME IInv, Next
    PROVE  \A e \in base \cup runs : e[2] \in reap \/ e \in base' \cup runs'
<1>1. ASSUME base \subseteq base' \cup runs', runs \subseteq base' \cup runs'
      PROVE  \A e \in base \cup runs : e[2] \in reap \/ e \in base' \cup runs'
  BY <1>1
<1>2. ASSUME NEW p \in Inserters, AppendPage(p) \/ InsertCase(p)
      PROVE  \A e \in base \cup runs : e[2] \in reap \/ e \in base' \cup runs'
  BY <1>1, <1>2 DEF AppendPage, InsertCase, AmInsert, SkipMerge, TryLock, InsertMergeDone,
     EndXact, treeVars
<1>3. ASSUME NEW p \in Procs, Merge(p)
      PROVE  \A e \in base \cup runs : e[2] \in reap \/ e \in base' \cup runs'
  <2>1. CASE FinalizeMerge(p)
    BY <1>1, <2>1 DEF FinalizeMerge, IInv, MergeInv, MergeAt
  <2>2. CASE MergeMeta(p) \/ MergeWatermark(p) \/ MergeWatermarkN(p) \/ MergeCollect(p)
             \/ MergeBuild(p) \/ FreeConsumed(p) \/ FreeWatermarkTail(p)
    BY <1>1, <2>2 DEF MergeMeta, MergeWatermark, MergeWatermarkN, MergeCollect, MergeBuild,
       FreeConsumed, FreeWatermarkTail, treeVars
  <2>3. CASE MergeAppendRun(p) BY <1>1, <2>3 DEF MergeAppendRun
  <2>4. CASE SetRoots(p)
    <3>1. new_root[p] = base BY <2>4 DEF IInv, MergeInv, MergeAt, SetRoots
    <3> QED BY <1>1, <2>4, <3>1 DEF SetRoots
  <2> QED BY <1>3, <2>1, <2>2, <2>3, <2>4 DEF Merge
<1>4. CASE VacuumCase
  <2>1. CASE VacuumStart \/ MergeLock \/ VacuumMergeDone \/ StripDone \/ Reap
    BY <1>1, <2>1 DEF VacuumStart, MergeLock, VacuumMergeDone, StripDone, Reap, treeVars
  <2>2. CASE Compact BY <1>1, <2>2 DEF Compact, treeVars
  <2>3. ASSUME NEW t \in Trigrams, StripPosting(t)
        PROVE  \A e \in base \cup runs : e[2] \in reap \/ e \in base' \cup runs'
    <3>1. base \subseteq base' \cup ({t} \X reap) /\ runs \subseteq runs' \cup ({t} \X reap)
      BY <2>3 DEF StripPosting
    <3> QED BY <3>1
  <2> QED BY <1>4, <2>1, <2>2, <2>3 DEF VacuumCase
<1>5. ASSUME NEW s \in Scanners, ScanCase(s)
      PROVE  \A e \in base \cup runs : e[2] \in reap \/ e \in base' \cup runs'
  BY <1>1, <1>5 DEF ScanCase, ScanStep, ScanStart, ScanOverlay, ScanOverlayDone, ScanLookup,
     ScanEnd, treeVars
<1>6. CASE FaultCase BY <1>1, <1>6 DEF FaultCase, Cancel, Die, Crash, treeVars
<1> QED BY <1>2, <1>3, <1>4, <1>5, <1>6, NextCases

(* While a scan stands still, an entry ahead of it stays ahead of it or    *)
(* gets into a tree: appends relink only the tail, and the truncation      *)
(* removes what the same record makes visible under the new root.          *)
LEMMA AheadStep ==
    ASSUME IInv, Next, NEW s \in Scanners, NEW e, scan_blk'[s] = scan_blk[s], Ahead(s, e)
    PROVE  Ahead(s, e)' \/ e \in base' \cup runs'
<1> DEFINE k == scan_blk[s]
<1>0. /\ k \in Nat /\ k # Invalid /\ Len(entries) \in Nat /\ entries \in Seq(Seq(Entry))
      /\ Len(next_page) = Len(entries) /\ pending_tail \in Nat
      /\ pending_tail # Invalid => pending_tail = Len(entries)
  BY DEF IInv, TypeOK, Ahead, ListInv
<1>1. PICK b \in k .. Len(entries) : e \in PageEntries(b) /\ \A c \in k .. b - 1 : next_page[c] = c + 1
  BY DEF Ahead
<1>2. b \in 1 .. Len(entries) BY <1>0, <1>1 DEF Invalid
<1>3. ASSUME Len(entries) <= Len(entries'), Len(entries') \in Nat, e \in PageEntries(b)',
             \A c \in k .. b - 1 : next_page'[c] = next_page[c]
      PROVE  Ahead(s, e)'
  <2>1. b \in k .. Len(entries') BY <1>0, <1>1, <1>3
  <2> QED BY <1>0, <1>1, <1>3, <2>1 DEF Ahead
<1>4. CASE UNCHANGED listVars
  BY <1>0, <1>1, <1>3, <1>4 DEF listVars, PageEntries
<1>5. ASSUME NEW p \in Inserters, AppendPage(p) PROVE Ahead(s, e)'
  <2>1. /\ Len(entries') \in {Len(entries), Len(entries) + 1}
        /\ Len(entries[b]) <= Len(entries'[b])
        /\ \A i \in 1 .. Len(entries[b]) : entries'[b][i] = entries[b][i]
    BY <1>2, <1>5, AppendList
  <2>2. TypeOK' BY <1>5, TypeAppend
  <2>3. entries[b] \in Seq(Entry) /\ entries'[b] \in Seq(Entry)
    <3>1. entries' \in Seq(Seq(Entry)) BY <2>2 DEF TypeOK
    <3>2. b \in 1 .. Len(entries') BY <1>0, <1>2, <2>1
    <3> QED BY <1>0, <1>2, <3>1, <3>2
  <2>4. /\ DOMAIN entries[b] = 1 .. Len(entries[b]) /\ DOMAIN entries'[b] = 1 .. Len(entries'[b])
        /\ Len(entries[b]) \in Nat /\ Len(entries'[b]) \in Nat
    BY <2>3, LenProperties
  <2>5. \A i \in 1 .. Len(entries[b]) : i \in 1 .. Len(entries'[b]) BY <2>1, <2>4
  <2>6. e \in PageEntries(b)' BY <1>1, <2>1, <2>4, <2>5 DEF PageEntries, Elems
  <2>7. next_page' = next_page \/ next_page' = Linked(Len(entries) + 1)
    BY <1>5 DEF AppendPage
  <2>8. ASSUME NEW c \in k .. b - 1 PROVE next_page'[c] = next_page[c]
    <3>1. c \in 1 .. Len(entries) + 1 /\ c # Len(entries) + 1 /\ c # pending_tail
      BY <1>0, <1>1, <1>2 DEF Invalid
    <3> QED BY <2>7, <3>1 DEF Linked
  <2> QED BY <1>0, <1>3, <2>1, <2>6, <2>8
<1>6. ASSUME NEW p \in Procs, FinalizeMerge(p) PROVE Ahead(s, e)' \/ e \in base' \cup runs'
  <2>1. /\ Len(entries') = Len(entries) /\ next_page' = next_page
        /\ \A c \in 1 .. Len(entries) : c # wm_tail[p] => entries'[c] = entries[c]
        /\ Rewind(p) => entries'[wm_tail[p]] = Survivors(p)
        /\ ~Rewind(p) => entries' = entries
        /\ \A i \in 1 .. Len(entries[wm_tail[p]]) :
                 \/ i \in 1 .. wm_tail_n[p]
                 \/ entries[wm_tail[p]][i] \in Elems(Survivors(p))
    <3>1. next_page' = next_page BY <1>6 DEF FinalizeMerge
    <3> QED BY <1>6, <3>1, FinalizeList
  <2>2. CASE b # wm_tail[p] \/ ~Rewind(p)
    <3>1. entries'[b] = entries[b] BY <1>2, <2>1, <2>2
    <3> QED BY <1>0, <1>1, <1>3, <2>1, <3>1 DEF PageEntries
  <2>3. CASE b = wm_tail[p] /\ Rewind(p)
    <3>1. DOMAIN entries[b] = 1 .. Len(entries[b]) BY <1>0, <1>2, LenProperties
    <3>2. PICK i \in 1 .. Len(entries[b]) : e = entries[b][i]
      BY <1>1, <3>1 DEF PageEntries, Elems
    <3>3. CASE i \in 1 .. wm_tail_n[p]
      <4>1. pc[p] = "finalize" /\ base' = new_root[p] /\ runs' = runs BY <1>6 DEF FinalizeMerge
      <4>2. e \in got[p] BY <2>3, <3>2, <3>3, <4>1 DEF IInv, MergeInv, MergeAt
      <4>3. got[p] \subseteq base' \cup runs' BY <4>1 DEF IInv, MergeInv, MergeAt
      <4> QED BY <4>2, <4>3
    <3>4. CASE e \in Elems(Survivors(p))
      <4>1. e \in PageEntries(b)' BY <2>1, <2>3, <3>4 DEF PageEntries
      <4> QED BY <1>0, <1>3, <2>1, <4>1
    <3> QED BY <2>1, <2>3, <3>2, <3>3, <3>4
  <2> QED BY <2>2, <2>3
<1> QED BY <1>4, <1>5, <1>6, ListFrame

(* A live row keeps its trigrams, and only a delete ends it.               *)
LEMMA LiveRowsKeep ==
    ASSUME IInv, Next, NEW r \in Tids, row[r] = "live"
    PROVE  /\ rowTrgs'[r] = rowTrgs[r]
           /\ row'[r] = "live" \/ Die(r)
<1>0. /\ \A p \in Inserters : pc[p] # "idle" => tid[p] \in Tids /\ row[tid[p]] = "inserting"
      /\ row \in [Tids -> RowState] /\ rowTrgs \in [Tids -> SUBSET Trigrams]
      /\ \A q \in reap : row[q] = "dead"
  BY RowOf DEF IInv, ReapInv
<1>1. CASE \E p \in Inserters, q \in Tids, T \in Values : AmInsert(p, q, T)
  BY <1>0, <1>1 DEF AmInsert
<1>2. CASE \E p \in Inserters, o \in {"live", "dead"} : EndXact(p, o)
  BY <1>0, <1>2 DEF EndXact
<1>3. CASE Reap BY <1>0, <1>3 DEF Reap
<1>4. CASE FaultCase
  <2>1. rowTrgs' = rowTrgs BY <1>4 DEF FaultCase, Die, Cancel, Crash, heapVars
  <2>2. ASSUME NEW q \in Tids, Die(q) PROVE row'[r] = "live" \/ Die(r)
    <3>1. CASE q = r BY <2>2, <3>1
    <3>2. CASE q # r BY <1>0, <2>2, <3>2 DEF Die
    <3> QED BY <3>1, <3>2
  <2>3. CASE Crash BY <1>0, <2>1, <2>3 DEF Crash
  <2>4. ASSUME NEW p \in Procs, Cancel(p) PROVE row'[r] = "live"
    <3>1. CASE p = Vacuum BY <2>4, <3>1 DEF Cancel, heapVars
    <3>2. CASE p # Vacuum
      <4>1. pc[p] # "idle" /\ p \in Inserters /\ row' = [row EXCEPT ![tid[p]] = "dead"]
        BY <2>4, <3>2 DEF Cancel, Procs
      <4> QED BY <1>0, <4>1
    <3> QED BY <3>1, <3>2
  <2> QED BY <1>4, <2>1, <2>2, <2>3, <2>4 DEF FaultCase
<1>5. CASE UNCHANGED <<row, rowTrgs>> BY <1>5
<1> QED BY <1>1, <1>2, <1>3, <1>4, <1>5, HeapSteps

(* TreesComplete holds again after every step.                             *)
LEMMA TreesCompleteStep ==
    ASSUME IInv, TreesComplete, Next
    PROVE  TreesComplete'
<1>0. mode \in [Scanners -> {"cnf", "dnf"}] /\ flush \in [Procs -> BOOLEAN]
      /\ runs \subseteq Entry /\ Inserters \subseteq Procs /\ Vacuum \in Procs
  BY DEF IInv, TypeOK, Procs
<1>1. ASSUME "dnf" \notin QueryModes PROVE \A s \in Scanners : mode'[s] = "cnf"
  <2>0. \A s \in Scanners : mode[s] = "cnf" BY <1>1 DEF TreesComplete
  <2>1. CASE mode' = mode BY <2>0, <2>1
  <2>2. ASSUME NEW s \in Scanners, NEW T \in Values, NEW q \in QueryModes, ScanStart(s, T, q)
        PROVE  \A u \in Scanners : mode'[u] = "cnf"
    <3>1. q = "cnf" BY <1>1, SetsAssumption
    <3> QED BY <1>0, <2>0, <2>2, <3>1 DEF ScanStart
  <2>3. CASE \E s \in Scanners : ScanStep(s)
    BY <1>0, <2>0, <2>3 DEF ScanStep, ScanOverlay, ScanOverlayDone, ScanLookup, ScanEnd
  <2>4. CASE Crash BY <2>4 DEF Crash
  <2>5. ASSUME NEW p \in Inserters, AppendPage(p) \/ InsertCase(p) PROVE mode' = mode
    BY <2>5 DEF AppendPage, InsertCase, AmInsert, SkipMerge, TryLock, InsertMergeDone,
       EndXact, scanVars
  <2>6. ASSUME NEW p \in Procs, Merge(p) PROVE mode' = mode BY <2>6, MergeFrame
  <2>7. ASSUME VacuumCase PROVE mode' = mode
    BY <2>7 DEF VacuumCase, VacuumStart, MergeLock, VacuumMergeDone, StripDone, Reap, Compact,
       StripPosting, scanVars
  <2>8. ASSUME (\E p \in Procs : Cancel(p)) \/ (\E r \in Tids : Die(r)) PROVE mode' = mode
    BY <2>8 DEF Cancel, Die, scanVars
  <2> QED BY <2>1, <2>2, <2>3, <2>4, <2>5, <2>6, <2>7, <2>8, NextCases DEF ScanCase, FaultCase
<1>2. ASSUME TRUE \notin FlushModes PROVE runs' = {} /\ \A p \in Procs : ~flush'[p]
  <2>0. runs = {} /\ \A p \in Procs : ~flush[p] BY <1>2 DEF TreesComplete
  <2>1. CASE runs' = runs /\ flush' = flush BY <2>0, <2>1
  <2>2. ASSUME NEW p \in Inserters, AppendPage(p) \/ InsertCase(p)
        PROVE  runs' = {} /\ \A q \in Procs : ~flush'[q]
    BY <1>0, <2>0, <2>2 DEF AppendPage, InsertCase, AmInsert, SkipMerge, TryLock, InsertMergeDone,
       EndXact, treeVars, mergeVars, ClearMerge
  <2>3. ASSUME NEW p \in Procs, Merge(p)
        PROVE  runs' = {} /\ \A q \in Procs : ~flush'[q]
    <3>1. CASE MergeMeta(p)
      <4>1. runs' = runs BY <3>1 DEF MergeMeta, treeVars
      <4>2. flush' = flush \/ \E f \in FlushModes : flush' = [flush EXCEPT ![p] = f]
        BY <3>1 DEF MergeMeta
      <4>3. \A f \in FlushModes : f = FALSE BY <1>2, SetsAssumption
      <4> QED BY <1>0, <2>0, <4>1, <4>2, <4>3
    <3>2. CASE MergeAppendRun(p)
      <4>1. Flushing(p) BY <3>2 DEF MergeAppendRun, IInv, MergeInv, MergeAt
      <4> QED BY <2>0, <4>1 DEF Flushing
    <3>3. CASE ~MergeMeta(p) /\ ~MergeAppendRun(p)
      <4>1. runs' = runs /\ flush' = flush
        BY <2>3, <3>3 DEF Merge, MergeWatermark, MergeWatermarkN, MergeCollect, MergeBuild,
           FinalizeMerge, FreeConsumed, FreeWatermarkTail, SetRoots, treeVars, mergeVars
      <4> QED BY <2>0, <4>1
    <3> QED BY <3>1, <3>2, <3>3
  <2>4. CASE VacuumCase
    <3>1. runs' = {}
      BY <2>0, <2>4 DEF VacuumCase, VacuumStart, MergeLock, VacuumMergeDone, StripDone, Reap,
         Compact, StripPosting, treeVars
    <3>2. \A q \in Procs : ~flush'[q]
      BY <1>0, <2>0, <2>4 DEF VacuumCase, VacuumStart, MergeLock, VacuumMergeDone, StripDone, Reap,
         Compact, StripPosting, mergeVars, ClearMerge
    <3> QED BY <3>1, <3>2
  <2>5. ASSUME NEW s \in Scanners, ScanCase(s) PROVE runs' = runs /\ flush' = flush
    BY <2>5 DEF ScanCase, ScanStep, ScanStart, ScanOverlay, ScanOverlayDone, ScanLookup,
       ScanEnd, treeVars, mergeVars
  <2>6. CASE FaultCase
    BY <1>0, <2>0, <2>6 DEF FaultCase, Cancel, Die, Crash, treeVars, mergeVars, ClearMerge
  <2> QED BY <2>1, <2>2, <2>3, <2>4, <2>5, <2>6, NextCases
<1> QED BY <1>1, <1>2 DEF TreesComplete

(* What a scan will still find stays to be found while others work.        *)
LEMMA SeenStep ==
    ASSUME IInv, Next, NEW s \in Scanners, NEW e, e[2] \notin reap, Seen(s, e), e[1] \in want[s],
           scan_at[s] = "overlay" => rest[s] = want[s],
           scan_at'[s] = scan_at[s], rest'[s] = rest[s], found'[s] = found[s],
           scan_blk'[s] = scan_blk[s]
    PROVE  Seen(s, e)'
<1>1. CASE e \in found[s] BY <1>1 DEF Seen
<1>2. CASE e[1] \in rest[s] /\ e \in base \cup runs
  BY <1>2, TreesKeep DEF Seen
<1>3. CASE scan_at[s] = "overlay" /\ Ahead(s, e)
  <2>1. Ahead(s, e)' \/ e \in base' \cup runs' BY <1>3, AheadStep
  <2> QED BY <1>3, <2>1 DEF Seen
<1> QED BY <1>1, <1>2, <1>3 DEF Seen

(* A scan that stands still loses nothing.                                 *)
LEMMA ScanKept ==
    ASSUME IInv, ScanKeeps, Next, NEW s \in Scanners,
           scan_at'[s] = scan_at[s], rest'[s] = rest[s], found'[s] = found[s],
           scan_blk'[s] = scan_blk[s], rows'[s] = rows[s], want'[s] = want[s]
    PROVE  /\ \A r \in rows'[s] : row'[r] = "live"
           /\ scan_at'[s] = "overlay" => rest'[s] = want'[s]
           /\ \A r \in rows'[s] : \A e \in RowEntries(r)' : e[1] \in want'[s] => Seen(s, e)'
<1>0. rows[s] \in SUBSET Tids /\ \A r \in reap : row[r] = "dead"
  BY DEF IInv, TypeOK, ReapInv
<1>1. ASSUME NEW r \in rows[s]
      PROVE  r \in Tids /\ r \notin reap /\ rowTrgs'[r] = rowTrgs[r] /\ row'[r] = "live"
  <2>1. row[r] = "live" /\ r \in Tids BY <1>0 DEF ScanKeeps
  <2>2. ~Die(r) BY DEF Die
  <2> QED BY <1>0, <2>1, <2>2, LiveRowsKeep
<1>2. ASSUME NEW r \in rows[s], NEW e \in RowEntries(r)', e[1] \in want[s]
      PROVE  Seen(s, e)'
  <2>1. RowEntries(r)' = RowEntries(r) BY <1>1 DEF RowEntries
  <2>2. e[2] \notin reap BY <1>1, <2>1 DEF RowEntries
  <2>3. Seen(s, e) BY <1>2, <2>1 DEF ScanKeeps
  <2>4. scan_at[s] = "overlay" => rest[s] = want[s] BY DEF ScanKeeps
  <2> QED BY <1>2, <2>2, <2>3, <2>4, SeenStep
<1> QED BY <1>1, <1>2 DEF ScanKeeps

(* Steps of other backends keep ScanKeeps.                                 *)
LEMMA ScanOther ==
    ASSUME IInv, ScanKeeps, Next, UNCHANGED scanVars
    PROVE  ScanKeeps'
BY ScanKept DEF ScanKeeps, scanVars

(* A step of a scan keeps ScanKeeps: the overlay is read before the trees, *)
(* so an entry that a merge moves in between is met in the trees.          *)
LEMMA ScanKeepsScan ==
    ASSUME IInv, ScanKeeps, TreesComplete, Next,
           "dnf" \notin QueryModes \/ TRUE \notin FlushModes,
           NEW s \in Scanners, ScanCase(s)
    PROVE  ScanKeeps'
<1>0. /\ scan_at \in [Scanners -> {"idle", "overlay", "lookup"}]
      /\ mode \in [Scanners -> {"cnf", "dnf"}]
      /\ want \in [Scanners -> SUBSET Trigrams] /\ rest \in [Scanners -> SUBSET Trigrams]
      /\ scan_blk \in [Scanners -> Nat]
      /\ found \in [Scanners -> SUBSET Entry] /\ rows \in [Scanners -> SUBSET Tids]
      /\ rowTrgs \in [Tids -> SUBSET Trigrams]
  BY DEF IInv, TypeOK
<1>1. UNCHANGED <<row, rowTrgs, listVars, base, runs>>
  BY DEF ScanCase, ScanStep, ScanStart, ScanOverlay, ScanOverlayDone, ScanLookup, ScanEnd,
     heapVars, treeVars
<1>2. ASSUME NEW q \in Scanners, q # s
      PROVE  /\ scan_at'[q] = scan_at[q] /\ rest'[q] = rest[q] /\ found'[q] = found[q]
             /\ scan_blk'[q] = scan_blk[q] /\ rows'[q] = rows[q] /\ want'[q] = want[q]
  BY <1>0, <1>2 DEF ScanCase, ScanStep, ScanStart, ScanOverlay, ScanOverlayDone, ScanLookup,
     ScanEnd
<1>3. SUFFICES
        /\ \A r \in rows'[s] : row'[r] = "live"
        /\ scan_at'[s] = "overlay" => rest'[s] = want'[s]
        /\ \A r \in rows'[s] : \A e \in RowEntries(r)' : e[1] \in want'[s] => Seen(s, e)'
  <2> SUFFICES ASSUME NEW q \in Scanners
               PROVE  /\ \A r \in rows'[q] : row'[r] = "live"
                      /\ scan_at'[q] = "overlay" => rest'[q] = want'[q]
                      /\ \A r \in rows'[q] : \A e \in RowEntries(r)' :
                            e[1] \in want'[q] => Seen(q, e)'
    BY DEF ScanKeeps
  <2>1. CASE q = s BY <1>3, <2>1
  <2>2. CASE q # s BY <1>2, <2>2, ScanKept
  <2> QED BY <2>1, <2>2
<1>4. \A r : RowEntries(r)' = RowEntries(r) BY <1>1 DEF RowEntries
<1>5. \A e : (e \in base \cup runs) <=> (e \in base' \cup runs') BY <1>1
<1>6. ASSUME NEW T \in Values, NEW q \in QueryModes, ScanStart(s, T, q)
      PROVE  /\ \A r \in rows'[s] : row'[r] = "live"
             /\ scan_at'[s] = "overlay" => rest'[s] = want'[s]
             /\ \A r \in rows'[s] : \A e \in RowEntries(r)' : e[1] \in want'[s] => Seen(s, e)'
  <2>1. /\ scan_at'[s] = "overlay" /\ want'[s] = T /\ rest'[s] = T
        /\ scan_blk'[s] = pending_head /\ rows'[s] = {r \in Tids : row[r] = "live"}
    BY <1>0, <1>6 DEF ScanStart
  <2>2. ASSUME NEW r \in rows'[s], NEW e \in RowEntries(r), e[1] \in T
        PROVE  Seen(s, e)'
    <3>1. e \in Indexed BY <2>1 DEF IInv, NoLostEntry
    <3>2. CASE e \in base \cup runs BY <1>5, <2>1, <2>2, <3>2 DEF Seen
    <3>3. CASE e \in Pending
      <4>1. PICK b \in ListBlocks : e \in PageEntries(b) BY <3>3 DEF Pending
      <4>2. /\ pending_head # Invalid /\ b \in pending_head .. Len(entries)
            /\ \A c \in pending_head .. b - 1 : next_page[c] = c + 1
        <5>1. /\ pending_head # Invalid /\ pending_tail = Len(entries)
              /\ b \in pending_head .. pending_tail /\ pending_head \in Nat /\ Len(entries) \in Nat
              /\ \A c \in pending_head .. pending_tail :
                    next_page[c] = IF c = pending_tail THEN Invalid ELSE c + 1
          BY <4>1 DEF ListBlocks, IInv, ListInv, TypeOK
        <5>2. \A c \in pending_head .. b - 1 : c \in pending_head .. pending_tail /\ c # pending_tail
          BY <5>1
        <5> QED BY <5>1, <5>2
      <4>3. Ahead(s, e)' BY <1>1, <2>1, <4>1, <4>2 DEF Ahead, listVars, PageEntries
      <4> QED BY <2>1, <4>3 DEF Seen
    <3> QED BY <3>1, <3>2, <3>3 DEF Indexed
  <2> QED BY <1>1, <1>4, <2>1, <2>2
<1>7. CASE ScanOverlay(s)
  <2>1. /\ scan_at[s] = "overlay" /\ scan_at'[s] = "overlay" /\ want'[s] = want[s] /\ rest'[s] = rest[s]
        /\ rows'[s] = rows[s] /\ scan_blk[s] # Invalid /\ scan_blk'[s] = next_page[scan_blk[s]]
        /\ found'[s] = found[s] \cup (PageEntries(scan_blk[s]) \cap (want[s] \X Tids))
    BY <1>0, <1>7 DEF ScanOverlay
  <2>2. ASSUME NEW r \in rows[s], NEW e \in RowEntries(r), e[1] \in want[s]
        PROVE  Seen(s, e)'
    <3>1. Seen(s, e) BY <2>2 DEF ScanKeeps
    <3>2. CASE e \in found[s] BY <2>1, <3>2 DEF Seen
    <3>3. CASE e[1] \in rest[s] /\ e \in base \cup runs BY <1>5, <2>1, <3>3 DEF Seen
    <3>4. CASE Ahead(s, e)
      <4> DEFINE k == scan_blk[s]
      <4>1. PICK b \in k .. Len(entries) :
               e \in PageEntries(b) /\ \A c \in k .. b - 1 : next_page[c] = c + 1
        BY <3>4 DEF Ahead
      <4>2. k \in Nat /\ Len(entries) \in Nat BY <1>0 DEF IInv, TypeOK
      <4>3. CASE b = k
        <5>1. e \in want[s] \X Tids BY <1>0, <2>2 DEF RowEntries
        <5> QED BY <2>1, <4>1, <4>3, <5>1 DEF Seen
      <4>4. CASE b # k
        <5>1. k \in k .. b - 1 /\ b \in k + 1 .. Len(entries) BY <4>1, <4>2, <4>4
        <5>2. scan_blk'[s] = k + 1 BY <2>1, <4>1, <5>1
        <5>3. \A c \in k + 1 .. b - 1 : next_page[c] = c + 1 BY <4>1, <4>2
        <5>4. k + 1 # Invalid BY <4>2 DEF Invalid
        <5>5. Ahead(s, e)'
          BY <1>1, <4>1, <5>1, <5>2, <5>3, <5>4 DEF Ahead, listVars, PageEntries
        <5> QED BY <2>1, <5>5 DEF Seen
      <4> QED BY <4>3, <4>4
    <3> QED BY <2>1, <3>1, <3>2, <3>3, <3>4 DEF Seen
  <2> QED BY <1>1, <1>4, <2>1, <2>2 DEF ScanKeeps
<1>8. CASE ScanOverlayDone(s)
  <2>1. /\ scan_at[s] = "overlay" /\ scan_at'[s] = "lookup" /\ want'[s] = want[s] /\ rest'[s] = rest[s]
        /\ rows'[s] = rows[s] /\ scan_blk[s] = Invalid /\ found'[s] = found[s]
    BY <1>0, <1>8 DEF ScanOverlayDone
  <2>2. ASSUME NEW r \in rows[s], NEW e \in RowEntries(r), e[1] \in want[s]
        PROVE  Seen(s, e)'
    <3>1. Seen(s, e) /\ ~Ahead(s, e) BY <2>1, <2>2 DEF ScanKeeps, Ahead
    <3> QED BY <1>5, <2>1, <3>1 DEF Seen
  <2> QED BY <1>1, <1>4, <2>1, <2>2 DEF ScanKeeps
<1>9. ASSUME NEW t \in Trigrams, ScanLookup(s, t)
      PROVE  /\ \A r \in rows'[s] : row'[r] = "live"
             /\ scan_at'[s] = "overlay" => rest'[s] = want'[s]
             /\ \A r \in rows'[s] : \A e \in RowEntries(r)' : e[1] \in want'[s] => Seen(s, e)'
  <2>1. /\ scan_at[s] = "lookup" /\ scan_at'[s] = "lookup" /\ want'[s] = want[s]
        /\ rest'[s] = rest[s] \ {t} /\ rows'[s] = rows[s]
        /\ found'[s] = found[s] \cup (Trees(mode[s]) \cap ({t} \X Tids))
    BY <1>0, <1>9 DEF ScanLookup
  <2>2. Trees(mode[s]) = base \cup runs BY DEF TreesComplete, Trees
  <2>3. ASSUME NEW r \in rows[s], NEW e \in RowEntries(r), e[1] \in want[s]
        PROVE  Seen(s, e)'
    <3>1. Seen(s, e) BY <2>3 DEF ScanKeeps
    <3>2. CASE e \in found[s] BY <2>1, <3>2 DEF Seen
    <3>3. CASE e[1] \in rest[s] /\ e \in base \cup runs
      <4>1. CASE e[1] = t
        <5>1. e \in {t} \X Tids BY <1>0, <2>3, <4>1 DEF RowEntries
        <5> QED BY <2>1, <2>2, <3>3, <5>1 DEF Seen
      <4>2. CASE e[1] # t BY <1>5, <2>1, <3>3, <4>2 DEF Seen
      <4> QED BY <4>1, <4>2
    <3> QED BY <2>1, <3>1, <3>2, <3>3 DEF Seen
  <2> QED BY <1>1, <1>4, <2>1, <2>3 DEF ScanKeeps
<1>10. CASE ScanEnd(s)
  <2>1. rows'[s] = {} /\ scan_at'[s] = "idle" BY <1>0, <1>10 DEF ScanEnd
  <2> QED BY <2>1
<1> QED BY <1>6, <1>7, <1>8, <1>9, <1>10 DEF ScanCase, ScanStep

(* ScanKeeps holds again after every step.                                 *)
LEMMA ScanKeepsStep ==
    ASSUME IInv, ScanKeeps, TreesComplete, Next,
           "dnf" \notin QueryModes \/ TRUE \notin FlushModes
    PROVE  ScanKeeps'
<1>1. ASSUME NEW p \in Inserters, AppendPage(p) \/ InsertCase(p) PROVE UNCHANGED scanVars
  BY <1>1 DEF AppendPage, InsertCase, AmInsert, SkipMerge, TryLock, InsertMergeDone, EndXact
<1>2. ASSUME NEW p \in Procs, Merge(p) PROVE UNCHANGED scanVars
  BY <1>2, MergeFrame DEF scanVars
<1>3. ASSUME VacuumCase PROVE UNCHANGED scanVars
  BY <1>3 DEF VacuumCase, VacuumStart, MergeLock, VacuumMergeDone, StripDone, Reap, Compact,
     StripPosting
<1>4. ASSUME NEW s \in Scanners, ScanCase(s) PROVE ScanKeeps'
  BY <1>4, ScanKeepsScan
<1>5. CASE FaultCase
  <2>1. CASE (\E p \in Procs : Cancel(p)) \/ (\E r \in Tids : Die(r))
    BY <2>1, ScanOther DEF Cancel, Die
  <2>2. CASE Crash BY <2>2 DEF Crash, ScanKeeps
  <2> QED BY <1>5, <2>1, <2>2 DEF FaultCase
<1> QED BY <1>1, <1>2, <1>3, <1>4, <1>5, ScanOther, NextCases

(* A scan finds the entries of every row its snapshot sees, while appends, *)
(* merges, VACUUM and truncations run under it, provided that queries of   *)
(* the DNF path, which look under meta.root_upper only, are not mixed with *)
(* pg_tre.flush_to_run. (With both, rows are missed: the model checker     *)
(* shows it.)                                                              *)
THEOREM ScansComplete ==
    ASSUME "dnf" \notin QueryModes \/ TRUE \notin FlushModes
    PROVE  Spec => []NoMissedRow
<1>1. Init => ScanKeeps /\ TreesComplete BY DEF Init, ScanKeeps, TreesComplete
<1>2. IInv /\ ScanKeeps /\ TreesComplete /\ [Next]_vars => ScanKeeps' /\ TreesComplete'
  <2> SUFFICES ASSUME IInv, ScanKeeps, TreesComplete, [Next]_vars
               PROVE  ScanKeeps' /\ TreesComplete'
    OBVIOUS
  <2>1. CASE Next BY <2>1, ScanKeepsStep, TreesCompleteStep
  <2>2. CASE UNCHANGED vars
    <3>1. /\ UNCHANGED <<row, rowTrgs, base, runs, flush, entries, next_page>>
          /\ UNCHANGED <<scan_at, mode, want, rest, scan_blk, found, rows>>
      BY <2>2 DEF vars, heapVars, treeVars, mergeVars, listVars, scanVars
    <3>2. \A s \in Scanners : \A e : Seen(s, e)' <=> Seen(s, e)
      BY <3>1 DEF Seen, Ahead, PageEntries
    <3> QED BY <3>1, <3>2 DEF ScanKeeps, TreesComplete, RowEntries
  <2> QED BY <2>1, <2>2
<1>3. IInv /\ ScanKeeps => NoMissedRow
  <2> SUFFICES ASSUME IInv, ScanKeeps, NEW s \in Scanners, scan_at[s] = "lookup", rest[s] = {},
                      NEW r \in rows[s], NEW e \in RowEntries(r) \cap (want[s] \X Tids)
               PROVE  e \in found[s]
    BY DEF NoMissedRow
  <2>1. e[1] \in want[s] OBVIOUS
  <2>2. Seen(s, e) BY <2>1 DEF ScanKeeps
  <2> QED BY <2>2 DEF Seen
<1> QED BY <1>1, <1>2, <1>3, Inductive, PTL DEF Spec

=============================================================================
