-------------------------- MODULE PatternCacheProofs --------------------------
(***************************************************************************)
(* Proofs about the pattern cache, for any number of slots, patterns,      *)
(* collations, addresses and nested scans.                                 *)
(*                                                                         *)
(* The inductive invariant relates the slots, the allocated memory and the *)
(* stack of scans: a cached handle is allocated, in one slot and under the *)
(* slot's key; a handle in no slot belongs to one scan and lost no pin;    *)
(* what a failed scan left pinned stays allocated; only the innermost scan *)
(* can be outside its loop; a scan that has just got an uncached handle    *)
(* still sees every slot pinned; and the depth never exceeds the number of *)
(* scans that armed, and is that number unless a stray disarm came between.*)
(***************************************************************************)
EXTENDS PatternCache, FiniteSetTheorems, SequenceTheorems, Induction, TLAPS

(* What a slot holds, and what a scan under way does.                      *)
SlotRecs == [pattern : Patterns \cup {Null}, collation : Collations \cup {Null},
             compiled : Handles \cup {Null}, last_used : Nat, pinned : Nat]
Frames == [pattern : Patterns \ Rejected, collation : Collations,
           compiled : Handles, phase : {"pinned", "try", "loop"}]

(* The types of the cache and of the memory; an empty slot is as it was at *)
(* the start.                                                              *)
SlotTypes ==
    /\ cache_slots \in [Slots -> SlotRecs]
    /\ \A i \in Slots : cache_slots[i].compiled = Null => cache_slots[i] = Empty
    /\ \A i \in Slots : cache_slots[i].compiled # Null =>
         /\ cache_slots[i].pattern \in Patterns \ Rejected
         /\ cache_slots[i].collation \in Collations
         /\ cache_slots[i].last_used \in 1 .. cache_clock
    /\ cache_clock \in 0 .. MaxClock
    /\ mem \in [Handles -> Keys \cup {Freed}]

(* The types of all the variables.                                         *)
Types ==
    /\ SlotTypes
    /\ stack \in Seq(Frames)
    /\ pgt_collation \in Collations \cup {Null}
    /\ arm_depth \in Nat /\ deadline \in BOOLEAN /\ stray \in BOOLEAN
    /\ lost \in [Handles -> Nat]

(* A slot's handle is allocated and is the slot's pattern compiled under   *)
(* the slot's collation.                                                   *)
CachedLive ==
    \A i \in Slots : cache_slots[i].compiled # Null =>
        mem[cache_slots[i].compiled] = Key(cache_slots[i].pattern, cache_slots[i].collation)

(* No handle is in two slots.                                              *)
CachedOnce ==
    \A i, j \in Slots :
        cache_slots[i].compiled # Null /\ cache_slots[i].compiled = cache_slots[j].compiled => i = j

(* A handle that a scan holds and no slot has is held by no other scan, and*)
(* no pin of it was lost.                                                  *)
UncachedOwned ==
    \A k \in DOMAIN stack : stack[k].compiled \notin Cached =>
        /\ lost[stack[k].compiled] = 0
        /\ \A l \in DOMAIN stack : stack[l].compiled = stack[k].compiled => l = k

(* A handle whose pin was lost is never freed: its address is not given out*)
(* again.                                                                  *)
LostLive == \A h \in Handles : lost[h] > 0 => mem[h] # Freed

(* Every scan but the innermost is in its loop, and so is every scan that  *)
(* armed the deadline.                                                     *)
Nesting ==
    /\ \A k \in DOMAIN stack : k < Len(stack) => stack[k].phase = "loop"
    /\ \A k \in armed : k \in DOMAIN stack /\ stack[k].phase = "loop"

(* The depth counts the scans that armed, less what stray disarms took     *)
(* away; the deadline is armed while it is positive.                       *)
DepthCounts ==
    /\ arm_depth <= Cardinality(armed)
    /\ stray \/ arm_depth = Cardinality(armed)
    /\ deadline <=> arm_depth > 0

(* Nothing runs between the lookup of a scan and its PG_TRY: if the lookup *)
(* could not cache the handle, every slot is still pinned.                 *)
JustPinned ==
    InPhase("pinned") /\ Top.compiled \notin Cached => \A i \in Slots : cache_slots[i].pinned > 0

IInv ==
    /\ Types /\ CachedLive /\ CachedOnce /\ PinnedHandleLive /\ UncachedOwned
    /\ PinsCounted /\ LostLive /\ Nesting /\ DepthCounts /\ JustPinned /\ MatchCollation

(* No compiled pattern looks like freed memory.                            *)
LEMMA KeyNotFreed ==
  ASSUME NEW p, NEW c \in Collations
  PROVE  Key(p, c) # Freed
BY CacheAssumption DEF Key, Freed

(* The scans holding a handle can be counted.                              *)
LEMMA UsersFinite ==
  ASSUME stack \in Seq(Frames), NEW h
  PROVE  IsFiniteSet(Users(h)) /\ Cardinality(Users(h)) \in Nat
<1>1. IsFiniteSet(1 .. Len(stack)) BY FS_Interval
<1>2. Users(h) \in SUBSET (1 .. Len(stack)) BY DEF Users
<1> QED BY <1>1, <1>2, FS_Subset, FS_CardinalityType

(* The handle of a slot without pins is held by no scan, and none of its   *)
(* pins was lost: evict_slot may free it.                                  *)
LEMMA UsedPinned ==
  ASSUME Types, PinsCounted, NEW i \in Slots, cache_slots[i].compiled # Null,
         cache_slots[i].pinned = 0
  PROVE  Users(cache_slots[i].compiled) = {} /\ lost[cache_slots[i].compiled] = 0
<1> DEFINE h == cache_slots[i].compiled
<1>0. h \in Handles BY DEF Types, SlotTypes, SlotRecs
<1>1. 0 = Cardinality(Users(h)) + lost[h] BY DEF PinsCounted
<1>2. IsFiniteSet(Users(h)) /\ Cardinality(Users(h)) \in Nat BY UsersFinite DEF Types
<1>3. lost[h] \in Nat BY <1>0 DEF Types
<1>4. Cardinality(Users(h)) = 0 /\ lost[h] = 0 BY <1>1, <1>2, <1>3
<1> QED BY <1>2, <1>4, FS_EmptySet

(* The scans that armed can be counted.                                    *)
LEMMA ArmedFinite ==
  ASSUME Types, Nesting
  PROVE  IsFiniteSet(armed) /\ Cardinality(armed) \in Nat
<1>1. IsFiniteSet(1 .. Len(stack)) BY FS_Interval
<1>2. armed \in SUBSET (1 .. Len(stack)) BY DEF Nesting, Types
<1> QED BY <1>1, <1>2, FS_Subset, FS_CardinalityType

(* The types of the inductive invariant imply the type invariant the model *)
(* states.                                                                 *)
LEMMA TypesTypeOK == Types /\ Nesting => TypeOK
<1> SUFFICES ASSUME Types, Nesting PROVE TypeOK OBVIOUS
<1>1. ASSUME NEW i \in Slots, cache_slots[i] # Empty
      PROVE  /\ cache_slots[i].compiled \in Handles
             /\ Key(cache_slots[i].pattern, cache_slots[i].collation) \in Keys
             /\ cache_slots[i].last_used \in 1 .. cache_clock
             /\ cache_slots[i].pinned \in Nat
  BY <1>1 DEF Types, SlotTypes, SlotRecs, Key, Keys
<1>2. \A k \in DOMAIN stack : stack[k] \in Frames BY DEF Types
<1>3. armed \subseteq DOMAIN stack BY DEF Nesting
<1> QED BY <1>1, <1>2, <1>3 DEF Types, SlotTypes, TypeOK, Frames

(* The invariant holds of a backend that has compiled nothing.             *)
LEMMA InitInv == Init => IInv
<1> SUFFICES ASSUME Init PROVE IInv OBVIOUS
<1> USE CacheAssumption DEF Init
<1>1. \A i \in Slots : cache_slots[i] = Empty /\ cache_slots[i].compiled = Null BY DEF Slots, Empty
<1>2. DOMAIN stack = {} /\ Len(stack) = 0 /\ Reentrant /\ ~InPhase("pinned") BY DEF Reentrant, InPhase
<1>3. Types
  <2>2. cache_slots \in [Slots -> SlotRecs] BY DEF SlotRecs, Empty
  <2>3. stack \in Seq(Frames) OBVIOUS
  <2>4. deadline \in BOOLEAN /\ stray \in BOOLEAN OBVIOUS
  <2> QED BY <1>1, <2>2, <2>3, <2>4 DEF Types, SlotTypes
<1>4. DepthCounts BY FS_EmptySet DEF DepthCounts
<1> QED BY <1>1, <1>2, <1>3, <1>4 DEF IInv, CachedLive, CachedOnce, PinnedHandleLive, UncachedOwned,
                                PinsCounted, LostLive, Nesting, JustPinned, MatchCollation

(* What a lookup that returns h does, whichever of its three ways it takes:*)
(* h is the pattern; no handle in use is freed or leaves the cache; the    *)
(* pins are those of the scans and of the lost ones, and one more of h when*)
(* the lookup pins; h stays out of the cache only if every slot is pinned; *)
(* nothing else is left without an owner.                                  *)
LookedUp(p, c, pin, h) ==
    /\ p \notin Rejected /\ mem'[h] = Key(p, c)
    /\ \A g \in Handles : Users(g) # {} \/ lost[g] > 0 => mem'[g] = mem[g]
    /\ \A g \in Handles : Users(g) # {} /\ g \in Cached => g \in Cached'
    /\ \A i \in Slots :
         LET g == cache_slots'[i].compiled
         IN g # Null => cache_slots'[i].pinned =
                          Cardinality(Users(g)) + lost[g] + (IF pin /\ g = h THEN 1 ELSE 0)
    /\ h \notin Cached' => /\ Users(h) = {} /\ lost[h] = 0
                           /\ cache_slots' = cache_slots
                           /\ \A i \in Slots : cache_slots[i].pinned > 0
    /\ \A g \in Handles : mem'[g] # Freed /\ g \notin Cached' =>
         g = h \/ (mem[g] # Freed /\ g \notin Cached)

(* An address malloc may give out is in no slot and held by no scan.       *)
LEMMA FreedUnused ==
  ASSUME IInv, NEW h \in Handles, mem[h] = Freed
  PROVE  Users(h) = {} /\ lost[h] = 0 /\ h \notin Cached
<1>1. \A k \in DOMAIN stack : stack[k].collation \in Collations
  <2>1. \A k \in DOMAIN stack : stack[k] \in Frames BY DEF IInv, Types
  <2> QED BY <2>1 DEF Frames
<1>2. Users(h) = {} BY <1>1, KeyNotFreed DEF IInv, PinnedHandleLive, Users
<1>3. lost[h] = 0 BY DEF IInv, LostLive, Types
<1>4. \A i \in Slots : cache_slots[i].compiled # Null => cache_slots[i].collation \in Collations
  BY DEF IInv, Types, SlotTypes
<1>5. h \notin Cached BY <1>4, KeyNotFreed DEF IInv, CachedLive, Cached
<1> QED BY <1>2, <1>3, <1>5

(* The slot a new entry goes to has no pins.                               *)
LEMMA TargetUnpinned ==
  ASSUME SlotTypes, NEW i \in Target
  PROVE  i \in Slots /\ cache_slots[i].pinned = 0
BY DEF Target, LeastRecent, SlotTypes, Empty

(* There is no slot for a new entry only if every slot is pinned: otherwise*)
(* one is empty, or one of the unpinned was used least recently.           *)
LEMMA TargetEmpty ==
  ASSUME SlotTypes, Target = {}
  PROVE  \A i \in Slots : cache_slots[i].pinned > 0
<1> DEFINE empty == {i \in Slots : cache_slots[i].compiled = Null}
           unpinned == {i \in Slots : cache_slots[i].pinned = 0}
<1>1. empty = {}
  <2> SUFFICES ASSUME empty # {} PROVE FALSE OBVIOUS
  <2>1. empty \in SUBSET Nat BY DEF Slots
  <2>2. PICK i \in empty : \A j \in empty : i <= j BY <2>1, LeastNumber
  <2> QED BY <2>2 DEF Target
<1>2. LeastRecent(unpinned) = {} BY <1>1 DEF Target
<1>3. unpinned = {}
  <2> SUFFICES ASSUME unpinned # {} PROVE FALSE OBVIOUS
  <2> DEFINE used == {cache_slots[i].last_used : i \in unpinned}
  <2>1. used \in SUBSET Nat /\ used # {} BY DEF SlotTypes, SlotRecs
  <2>2. PICK n \in used : \A m \in used : n <= m BY <2>1, LeastNumber
  <2> QED BY <1>2, <2>2 DEF LeastRecent
<1> QED BY <1>3 DEF SlotTypes, SlotRecs

(* A lookup that finds the pattern does what LookedUp says.                *)
LEMMA LookupHit ==
  ASSUME IInv, NEW p \in Patterns, NEW c \in Collations, NEW pin \in BOOLEAN, NEW h \in Handles,
         cache_clock < MaxClock,
         NEW i \in Hit(p, c), h = cache_slots[i].compiled, cache_clock' = Tick,
         cache_slots' = [cache_slots EXCEPT ![i].last_used = cache_clock',
                                            ![i].pinned = IF pin THEN @ + 1 ELSE @],
         mem' = mem
  PROVE  SlotTypes' /\ CachedLive' /\ CachedOnce' /\ LookedUp(p, c, pin, h)
<1>0. SlotTypes BY DEF IInv, Types
<1>1. /\ i \in Slots /\ cache_slots[i].compiled = h /\ h # Null
      /\ cache_slots[i].pattern = p /\ cache_slots[i].collation = c
  BY CacheAssumption DEF Hit
<1>2. /\ cache_clock \in Nat /\ cache_clock' = cache_clock + 1 /\ cache_clock' \in 0 .. MaxClock
  BY <1>0, CacheAssumption DEF SlotTypes, Tick
<1>3. /\ cache_slots' \in [Slots -> SlotRecs]
      /\ cache_slots'[i] = [pattern |-> p, collation |-> c, compiled |-> h, last_used |-> cache_clock',
                            pinned |-> IF pin THEN cache_slots[i].pinned + 1 ELSE cache_slots[i].pinned]
      /\ \A j \in Slots \ {i} : cache_slots'[j] = cache_slots[j]
  <2> DEFINE r == [pattern |-> p, collation |-> c, compiled |-> h, last_used |-> cache_clock',
                   pinned |-> IF pin THEN cache_slots[i].pinned + 1 ELSE cache_slots[i].pinned]
  <2>1. cache_slots[i] \in SlotRecs BY <1>0, <1>1 DEF SlotTypes
  <2>2. r \in SlotRecs BY <2>1, <1>2 DEF SlotRecs
  <2>3. cache_slots' = [cache_slots EXCEPT ![i] = r]
    <3> DEFINE n == IF pin THEN cache_slots[i].pinned + 1 ELSE cache_slots[i].pinned
    <3>1. cache_slots' = [cache_slots EXCEPT ![i].last_used = cache_clock', ![i].pinned = n]
      BY Zenon
    <3> HIDE DEF n
    <3>2. [cache_slots[i] EXCEPT !.last_used = cache_clock', !.pinned = n]
            = [pattern |-> p, collation |-> c, compiled |-> h, last_used |-> cache_clock', pinned |-> n]
      <4> DEFINE u == cache_slots[i].last_used
                 m == cache_slots[i].pinned
      <4>1. cache_slots[i] = [pattern |-> p, collation |-> c, compiled |-> h, last_used |-> u, pinned |-> m]
        BY <2>1, <1>1 DEF SlotRecs
      <4> HIDE DEF u, m
      <4>2. [cache_slots[i] EXCEPT !.last_used = cache_clock']
              = [pattern |-> p, collation |-> c, compiled |-> h, last_used |-> cache_clock', pinned |-> m]
        BY <4>1
      <4>3. [cache_slots[i] EXCEPT !.last_used = cache_clock', !.pinned = n]
              = [[cache_slots[i] EXCEPT !.last_used = cache_clock'] EXCEPT !.pinned = n]
        OBVIOUS
      <4> DEFINE q == [pattern |-> p, collation |-> c, compiled |-> h, last_used |-> cache_clock', pinned |-> m]
      <4>4. [q EXCEPT !.pinned = n]
              = [pattern |-> p, collation |-> c, compiled |-> h, last_used |-> cache_clock', pinned |-> n]
        OBVIOUS
      <4>5. [cache_slots[i] EXCEPT !.last_used = cache_clock'] = q BY <4>2
      <4> HIDE DEF q
      <4> QED BY <4>3, <4>4, <4>5, Zenon
    <3>3. cache_slots' = [cache_slots EXCEPT
             ![i] = [cache_slots[i] EXCEPT !.last_used = cache_clock', !.pinned = n]]
      BY <3>1, <2>1, <1>0, <1>1 DEF SlotTypes
    <3> QED BY <3>2, <3>3 DEF n
  <2> HIDE DEF r
  <2>4. cache_slots' \in [Slots -> SlotRecs] /\ cache_slots'[i] = r
    BY ZenonT(30), <2>2, <2>3, <1>0, <1>1 DEF SlotTypes
  <2>5. \A j \in Slots \ {i} : cache_slots'[j] = cache_slots[j]
    BY <2>3, <1>0, <1>1 DEF SlotTypes
  <2> QED BY <2>4, <2>5 DEF r
<1>4. \A j \in Slots : /\ cache_slots'[j].compiled = cache_slots[j].compiled
                       /\ cache_slots'[j].pattern = cache_slots[j].pattern
                       /\ cache_slots'[j].collation = cache_slots[j].collation
  BY <1>1, <1>3
<1>5. SlotTypes'
  BY <1>0, <1>1, <1>2, <1>3 DEF SlotTypes
<1>6. CachedLive' /\ CachedOnce' /\ Cached' = Cached
  <2>1. CachedLive' BY <1>4 DEF IInv, CachedLive
  <2>2. CachedOnce' BY <1>4 DEF IInv, CachedOnce
  <2>3. Cached' = Cached BY ZenonT(30), <1>4 DEF Cached
  <2> QED BY <2>1, <2>2, <2>3
<1>7. mem'[h] = Key(p, c) /\ p \notin Rejected /\ h \in Cached
  BY <1>0, <1>1 DEF IInv, CachedLive, SlotTypes, Cached
<1>8. ASSUME NEW j \in Slots, cache_slots'[j].compiled # Null
      PROVE  cache_slots'[j].pinned = Cardinality(Users(cache_slots'[j].compiled)) + lost[cache_slots'[j].compiled]
                                        + (IF pin /\ cache_slots'[j].compiled = h THEN 1 ELSE 0)
  <2> DEFINE g == cache_slots[j].compiled
  <2>1. g = cache_slots'[j].compiled /\ g # Null BY <1>4, <1>8
  <2>2. cache_slots[j].pinned = Cardinality(Users(g)) + lost[g] BY <2>1 DEF IInv, PinsCounted
  <2>3. g \in Handles /\ lost[g] \in Nat /\ Cardinality(Users(g)) \in Nat
    BY <2>1, <1>0, UsersFinite DEF IInv, Types, SlotTypes, SlotRecs
  <2>4. CASE j = i BY <2>1, <2>2, <2>3, <2>4, <1>1, <1>3
  <2>5. CASE j # i
    <3>1. g # h BY <2>5, <2>1, <1>1 DEF IInv, CachedOnce
    <3> QED BY <3>1, <2>1, <2>2, <2>3, <2>5, <1>3
  <2> QED BY <2>4, <2>5
<1> QED BY <1>5, <1>6, <1>7, <1>8 DEF LookedUp

(* A lookup that compiles and finds every slot pinned does, too.           *)
LEMMA LookupUncached ==
  ASSUME IInv, NEW p \in Patterns, NEW c \in Collations, NEW pin \in BOOLEAN, NEW h \in Handles,
         p \notin Rejected, mem[h] = Freed, Target = {},
         mem' = [mem EXCEPT ![h] = Key(p, c)], UNCHANGED <<cache_slots, cache_clock>>
  PROVE  SlotTypes' /\ CachedLive' /\ CachedOnce' /\ LookedUp(p, c, pin, h)
<1>0. SlotTypes BY DEF IInv, Types
<1>1. Users(h) = {} /\ lost[h] = 0 /\ h \notin Cached BY FreedUnused
<1>2. mem'[h] = Key(p, c) /\ Key(p, c) \in Keys /\ \A g \in Handles \ {h} : mem'[g] = mem[g]
  BY <1>0 DEF SlotTypes, Key, Keys
<1>3. SlotTypes' BY <1>0, <1>2 DEF SlotTypes
<1>4. \A i \in Slots : cache_slots[i].compiled # Null =>
         cache_slots[i].compiled \in Handles \ {h}
  BY <1>0, <1>1 DEF SlotTypes, SlotRecs, Cached
<1>5. CachedLive' BY <1>2, <1>4 DEF IInv, CachedLive
<1>6. CachedOnce' /\ Cached' = Cached BY DEF IInv, CachedOnce, Cached
<1>7. \A i \in Slots : cache_slots[i].pinned > 0 BY <1>0, TargetEmpty
<1>8. ASSUME NEW j \in Slots, cache_slots'[j].compiled # Null
      PROVE  cache_slots'[j].pinned = Cardinality(Users(cache_slots'[j].compiled)) + lost[cache_slots'[j].compiled]
                                        + (IF pin /\ cache_slots'[j].compiled = h THEN 1 ELSE 0)
  <2> DEFINE g == cache_slots[j].compiled
  <2>1. g \in Handles \ {h} /\ g # Null BY <1>4, <1>8
  <2>2. cache_slots[j].pinned = Cardinality(Users(g)) + lost[g] BY <2>1 DEF IInv, PinsCounted
  <2>3. lost[g] \in Nat /\ Cardinality(Users(g)) \in Nat BY <2>1, UsersFinite DEF IInv, Types
  <2> QED BY <2>1, <2>2, <2>3
<1> QED BY <1>1, <1>2, <1>3, <1>5, <1>6, <1>7, <1>8 DEF LookedUp

(* A lookup that compiles and puts the handle into a slot, evicting what   *)
(* was there, does, too.                                                   *)
LEMMA LookupCached ==
  ASSUME IInv, NEW p \in Patterns, NEW c \in Collations, NEW pin \in BOOLEAN, NEW h \in Handles,
         cache_clock < MaxClock,
         p \notin Rejected, mem[h] = Freed, NEW i \in Target,
         mem' = Evict([mem EXCEPT ![h] = Key(p, c)], i), cache_clock' = Tick,
         cache_slots' = [cache_slots EXCEPT ![i] =
                   [pattern |-> p, collation |-> c, compiled |-> h,
                    last_used |-> cache_clock', pinned |-> IF pin THEN 1 ELSE 0]]
  PROVE  SlotTypes' /\ CachedLive' /\ CachedOnce' /\ LookedUp(p, c, pin, h)
<1>0. SlotTypes BY DEF IInv, Types
<1>1. Users(h) = {} /\ lost[h] = 0 /\ h \notin Cached BY FreedUnused
<1>2. /\ cache_clock \in Nat /\ cache_clock' = cache_clock + 1 /\ cache_clock' \in 0 .. MaxClock
  BY <1>0, CacheAssumption DEF SlotTypes, Tick
<1> DEFINE v == cache_slots[i].compiled
<1>3. i \in Slots /\ cache_slots[i].pinned = 0 BY <1>0, TargetUnpinned
<1>4. v # Null => v \in Handles /\ Users(v) = {} /\ lost[v] = 0 /\ v # h
  BY <1>0, <1>1, <1>3, UsedPinned DEF IInv, Types, SlotTypes, SlotRecs, Cached
<1>5. /\ mem'[h] = Key(p, c) /\ Key(p, c) \in Keys
      /\ \A g \in Handles : g = v => mem'[g] = Freed
      /\ \A g \in Handles : g # v /\ g # h => mem'[g] = mem[g]
  <2>1. v # h BY <1>4, CacheAssumption
  <2> QED BY <2>1, <1>0 DEF SlotTypes, Key, Keys, Evict
<1>6. /\ cache_slots' \in [Slots -> SlotRecs]
      /\ cache_slots'[i] = [pattern |-> p, collation |-> c, compiled |-> h,
                            last_used |-> cache_clock', pinned |-> IF pin THEN 1 ELSE 0]
      /\ \A j \in Slots \ {i} : cache_slots'[j] = cache_slots[j]
  <2>1. [pattern |-> p, collation |-> c, compiled |-> h,
         last_used |-> cache_clock', pinned |-> IF pin THEN 1 ELSE 0] \in SlotRecs
    BY <1>2 DEF SlotRecs
  <2> QED BY <2>1, <1>0, <1>3 DEF SlotTypes
<1>7. \A j \in Slots \ {i} : cache_slots[j].compiled # Null =>
         /\ cache_slots[j].compiled \in Handles \ {h, v}
         /\ cache_slots'[j].compiled = cache_slots[j].compiled
  <2> SUFFICES ASSUME NEW j \in Slots \ {i}, cache_slots[j].compiled # Null
               PROVE  cache_slots[j].compiled \in Handles \ {h, v}
    BY <1>6
  <2>1. cache_slots[j].compiled \in Handles BY <1>0 DEF SlotTypes, SlotRecs
  <2>2. cache_slots[j].compiled # h BY <1>1 DEF Cached
  <2>3. cache_slots[j].compiled # v BY <1>3 DEF IInv, CachedOnce
  <2> QED BY <2>1, <2>2, <2>3
<1>8. h # Null BY CacheAssumption
<1>9. SlotTypes'
  <2>1. mem' \in [Handles -> Keys \cup {Freed}]
    <3>1. \A g \in Handles : mem'[g] \in Keys \cup {Freed} BY <1>0, <1>5 DEF SlotTypes
    <3>2. mem' = [g \in Handles |-> mem'[g]] BY DEF Evict
    <3> QED BY <3>1, <3>2
  <2>2. \A j \in Slots : cache_slots'[j].compiled = Null => cache_slots'[j] = Empty
    BY <1>0, <1>6, <1>8 DEF SlotTypes
  <2>3. ASSUME NEW j \in Slots, cache_slots'[j].compiled # Null
        PROVE  /\ cache_slots'[j].pattern \in Patterns \ Rejected
               /\ cache_slots'[j].collation \in Collations
               /\ cache_slots'[j].last_used \in 1 .. cache_clock'
    BY <1>0, <1>2, <1>6, <2>3 DEF SlotTypes
  <2> QED BY <2>1, <2>2, <2>3, <1>2, <1>6 DEF SlotTypes
<1>10. CachedLive'
  <2> SUFFICES ASSUME NEW j \in Slots, cache_slots'[j].compiled # Null
               PROVE  mem'[cache_slots'[j].compiled] = Key(cache_slots'[j].pattern, cache_slots'[j].collation)
    BY DEF CachedLive
  <2>1. CASE j = i BY <2>1, <1>5, <1>6
  <2>2. CASE j # i
    <3>1. cache_slots'[j] = cache_slots[j] /\ cache_slots[j].compiled \in Handles \ {h, v} BY <2>2, <1>6, <1>7
    <3> QED BY ZenonT(30), <3>1, <1>5 DEF IInv, CachedLive
  <2> QED BY <2>1, <2>2
<1>11. CachedOnce' BY <1>6, <1>7 DEF IInv, CachedOnce
<1>12. \A g \in Handles : g \in Cached' <=> g = h \/ (g \in Cached /\ g # v)
  <2> SUFFICES ASSUME NEW g \in Handles PROVE g \in Cached' <=> g = h \/ (g \in Cached /\ g # v) OBVIOUS
  <2>0. g # Null BY CacheAssumption
  <2>1. g \in Cached' <=> \E j \in Slots : cache_slots'[j].compiled = g BY <2>0 DEF Cached
  <2>2. g \in Cached <=> \E j \in Slots : cache_slots[j].compiled = g BY <2>0 DEF Cached
  <2> QED BY <2>0, <2>1, <2>2, <1>3, <1>6, <1>7
<1>13. ASSUME NEW j \in Slots, cache_slots'[j].compiled # Null
      PROVE  cache_slots'[j].pinned = Cardinality(Users(cache_slots'[j].compiled)) + lost[cache_slots'[j].compiled]
                                        + (IF pin /\ cache_slots'[j].compiled = h THEN 1 ELSE 0)
  <2>1. CASE j = i
    <3>1. Cardinality(Users(h)) = 0 BY <1>1, FS_EmptySet
    <3> QED BY <3>1, <2>1, <1>1, <1>6
  <2>2. CASE j # i
    <3> DEFINE g == cache_slots[j].compiled
    <3>1. cache_slots'[j] = cache_slots[j] BY <2>2, <1>6
    <3>2. g \in Handles \ {h} /\ g # Null BY <3>1, <2>2, <1>7, <1>13
    <3>3. cache_slots[j].pinned = Cardinality(Users(g)) + lost[g] BY <3>2 DEF IInv, PinsCounted
    <3>4. lost[g] \in Nat /\ Cardinality(Users(g)) \in Nat BY <3>2, UsersFinite DEF IInv, Types
    <3> QED BY <3>1, <3>2, <3>3, <3>4
  <2> QED BY <2>1, <2>2
<1>14. \A g \in Handles : Users(g) # {} \/ lost[g] > 0 => g # v /\ g # h
  BY <1>1, <1>4, CacheAssumption
<1> QED BY <1>5, <1>9, <1>10, <1>11, <1>12, <1>13, <1>14 DEF LookedUp

(* tre_cache_lookup_internal: every lookup does what LookedUp says.        *)
LEMMA LookupFacts ==
  ASSUME IInv, NEW p \in Patterns, NEW c \in Collations, NEW pin \in BOOLEAN, NEW h \in Handles,
         cache_clock < MaxClock, Lookup(p, c, pin, h)
  PROVE  SlotTypes' /\ CachedLive' /\ CachedOnce' /\ LookedUp(p, c, pin, h)
<1>1. CASE \E i \in Hit(p, c) :
         /\ h = cache_slots[i].compiled
         /\ cache_clock' = Tick
         /\ cache_slots' = [cache_slots EXCEPT ![i].last_used = cache_clock',
                                               ![i].pinned = IF pin THEN @ + 1 ELSE @]
         /\ UNCHANGED mem
  BY <1>1, LookupHit
<1>2. CASE /\ p \notin Rejected /\ mem[h] = Freed /\ Target = {}
           /\ mem' = [mem EXCEPT ![h] = Key(p, c)] /\ UNCHANGED <<cache_slots, cache_clock>>
  BY <1>2, LookupUncached
<1>3. CASE /\ p \notin Rejected /\ mem[h] = Freed
           /\ \E i \in Target :
                /\ mem' = Evict([mem EXCEPT ![h] = Key(p, c)], i)
                /\ cache_clock' = Tick
                /\ cache_slots' = [cache_slots EXCEPT ![i] =
                      [pattern |-> p, collation |-> c, compiled |-> h,
                       last_used |-> cache_clock', pinned |-> IF pin THEN 1 ELSE 0]]
  BY <1>3, LookupCached
<1> QED BY <1>1, <1>2, <1>3 DEF Lookup

(* The scans of a stack that hold a handle.                                *)
UsersOf(s, h) == {k \in DOMAIN s : s[k].compiled = h}

(* They can be counted.                                                    *)
LEMMA UsersOfFinite ==
  ASSUME NEW s \in Seq(Frames), NEW h
  PROVE  IsFiniteSet(UsersOf(s, h)) /\ Cardinality(UsersOf(s, h)) \in Nat
<1>1. IsFiniteSet(1 .. Len(s)) BY FS_Interval
<1>2. UsersOf(s, h) \in SUBSET (1 .. Len(s)) BY DEF UsersOf
<1> QED BY <1>1, <1>2, FS_Subset, FS_CardinalityType

(* Starting a scan adds one holder of its handle.                          *)
LEMMA PushUsers ==
  ASSUME NEW s \in Seq(Frames), NEW f \in Frames, NEW h
  PROVE  LET t == Append(s, f) IN
         /\ t \in Seq(Frames) /\ Len(t) = Len(s) + 1 /\ t # <<>>
         /\ DOMAIN t = 1 .. Len(s) + 1 /\ t[Len(s) + 1] = f
         /\ \A k \in 1 .. Len(s) : t[k] = s[k]
         /\ UsersOf(t, h) = UsersOf(s, h) \cup (IF f.compiled = h THEN {Len(s) + 1} ELSE {})
         /\ Cardinality(UsersOf(t, h)) = Cardinality(UsersOf(s, h)) + (IF f.compiled = h THEN 1 ELSE 0)
<1> DEFINE t == Append(s, f)
<1>1. /\ t \in Seq(Frames) /\ Len(t) = Len(s) + 1 /\ t # <<>>
      /\ DOMAIN t = 1 .. Len(s) + 1 /\ t[Len(s) + 1] = f
      /\ \A k \in 1 .. Len(s) : t[k] = s[k]
  OBVIOUS
<1> HIDE DEF t
<1>2. UsersOf(t, h) = UsersOf(s, h) \cup (IF f.compiled = h THEN {Len(s) + 1} ELSE {})
  BY <1>1 DEF UsersOf
<1>3. IsFiniteSet(UsersOf(s, h)) /\ Cardinality(UsersOf(s, h)) \in Nat
  BY UsersOfFinite
<1>4. Len(s) + 1 \notin UsersOf(s, h) BY DEF UsersOf
<1>5. Cardinality(UsersOf(t, h)) = Cardinality(UsersOf(s, h)) + (IF f.compiled = h THEN 1 ELSE 0)
  <2>1. CASE f.compiled = h BY <2>1, <1>2, <1>3, <1>4, FS_AddElement
  <2>2. CASE f.compiled # h BY <2>2, <1>2, <1>3
  <2> QED BY <2>1, <2>2
<1> QED BY <1>1, <1>2, <1>5 DEF t

(* Ending the innermost scan takes away one holder of its handle.          *)
LEMMA PopUsers ==
  ASSUME NEW s \in Seq(Frames), s # <<>>, NEW h
  PROVE  LET t == SubSeq(s, 1, Len(s) - 1) IN
         /\ t \in Seq(Frames) /\ Len(t) = Len(s) - 1 /\ Len(s) \in Nat \ {0}
         /\ DOMAIN t = 1 .. Len(s) - 1 /\ DOMAIN s = 1 .. Len(s)
         /\ \A k \in 1 .. Len(s) - 1 : t[k] = s[k]
         /\ UsersOf(t, h) = UsersOf(s, h) \ {Len(s)}
         /\ Cardinality(UsersOf(t, h)) = Cardinality(UsersOf(s, h)) - (IF s[Len(s)].compiled = h THEN 1 ELSE 0)
<1> DEFINE t == SubSeq(s, 1, Len(s) - 1)
<1>1. /\ t \in Seq(Frames) /\ Len(t) = Len(s) - 1 /\ Len(s) \in Nat \ {0}
      /\ DOMAIN t = 1 .. Len(s) - 1 /\ DOMAIN s = 1 .. Len(s)
      /\ \A k \in 1 .. Len(s) - 1 : t[k] = s[k]
  <2> DEFINE n == Len(s)
  <2>1. n \in Nat \ {0} /\ DOMAIN s = 1 .. n /\ \A k \in 1 .. n : s[k] \in Frames OBVIOUS
  <2>2. \A k \in 1 .. n - 1 : s[k] \in Frames BY <2>1
  <2> HIDE DEF n
  <2>3. /\ SubSeq(s, 1, n - 1) \in Seq(Frames)
        /\ Len(SubSeq(s, 1, n - 1)) = IF 1 <= n - 1 THEN n - 1 - 1 + 1 ELSE 0
        /\ \A k \in 1 .. n - 1 - 1 + 1 : SubSeq(s, 1, n - 1)[k] = s[1 + k - 1]
    BY <2>1, <2>2, SubSeqProperties
  <2>4. t = SubSeq(s, 1, n - 1) BY DEF n
  <2> HIDE DEF t
  <2>5. t \in Seq(Frames) /\ Len(t) = n - 1 /\ DOMAIN t = 1 .. n - 1 BY <2>1, <2>3, <2>4
  <2>6. \A k \in 1 .. n - 1 : t[k] = s[k] BY <2>1, <2>3, <2>4
  <2> QED BY <2>1, <2>5, <2>6 DEF n
<1> HIDE DEF t
<1>2. UsersOf(t, h) = UsersOf(s, h) \ {Len(s)} BY <1>1 DEF UsersOf
<1>3. IsFiniteSet(UsersOf(s, h)) /\ Cardinality(UsersOf(s, h)) \in Nat
  BY UsersOfFinite
<1>4. Len(s) \in UsersOf(s, h) <=> s[Len(s)].compiled = h BY <1>1 DEF UsersOf
<1>5. Cardinality(UsersOf(t, h)) = Cardinality(UsersOf(s, h)) - (IF s[Len(s)].compiled = h THEN 1 ELSE 0)
  <2>1. Cardinality(UsersOf(s, h) \ {Len(s)}) =
          IF Len(s) \in UsersOf(s, h) THEN Cardinality(UsersOf(s, h)) - 1 ELSE Cardinality(UsersOf(s, h))
    BY <1>3, FS_RemoveElement
  <2> QED BY <2>1, <1>2, <1>3, <1>4
<1> QED BY <1>1, <1>2, <1>5 DEF t

(* A SQL function lowers the depth only with the timeout off, and this is  *)
(* recorded as a stray disarm.                                             *)
LEMMA UdfDepth ==
  ASSUME IInv, NEW p \in Patterns, NEW c \in Collations, Udf(p, c)
  PROVE  arm_depth' \in Nat /\ deadline' \in BOOLEAN /\ stray' \in BOOLEAN /\ DepthCounts'
<1>1. PICK on \in Timeouts : /\ arm_depth' = Disarmed(Armed(on, arm_depth))
                             /\ deadline' = StillArmed(on \/ deadline, Armed(on, arm_depth))
                             /\ stray' = (stray \/ (~on /\ arm_depth > 0))
  BY DEF Udf
<1>2. armed' = armed BY DEF Udf
<1>3. on \in BOOLEAN BY CacheAssumption
<1>4. arm_depth \in Nat /\ deadline \in BOOLEAN /\ stray \in BOOLEAN BY DEF IInv, Types
<1>5. Cardinality(armed) \in Nat BY ArmedFinite DEF IInv
<1>6. DepthCounts BY DEF IInv
<1>7. deadline' \in BOOLEAN /\ stray' \in BOOLEAN
  <2>1. deadline' \in BOOLEAN BY <1>1 DEF StillArmed
  <2>2. stray' \in BOOLEAN BY <1>1
  <2> QED BY <2>1, <2>2
<1>8. CASE on
  <2>1. arm_depth' = arm_depth BY <1>1, <1>4, <1>8 DEF Armed, Disarmed
  <2>2. deadline' <=> arm_depth + 1 # 1 BY <1>1, <1>8 DEF Armed, StillArmed
  <2>3. deadline' <=> arm_depth' > 0 BY <2>1, <2>2, <1>4
  <2>4. stray => stray' BY <1>1
  <2> QED BY <2>1, <2>3, <2>4, <1>2, <1>4, <1>6, <1>7 DEF DepthCounts
<1>9. CASE ~on
  <2>1. arm_depth' = Disarmed(arm_depth) BY <1>1, <1>9 DEF Armed
  <2>2. deadline' <=> deadline /\ arm_depth # 1 BY <1>1, <1>9 DEF Armed, StillArmed
  <2>3. arm_depth' \in Nat /\ arm_depth' <= arm_depth BY <2>1, <1>4 DEF Disarmed
  <2>4. deadline' <=> arm_depth' > 0
    <3>1. arm_depth' > 0 <=> arm_depth > 0 /\ arm_depth # 1 BY <2>1, <1>4 DEF Disarmed
    <3> QED BY <3>1, <2>2, <1>6 DEF DepthCounts
  <2>5. arm_depth' <= Cardinality(armed) BY <2>3, <1>4, <1>5, <1>6 DEF DepthCounts
  <2>6. stray' \/ arm_depth' = Cardinality(armed)
    <3>1. CASE arm_depth > 0 BY <3>1, <1>1, <1>9
    <3>2. CASE arm_depth = 0
      <4>1. arm_depth' = arm_depth BY <3>2, <2>1 DEF Disarmed
      <4>2. stray => stray' BY <1>1
      <4> QED BY <4>1, <4>2, <1>6 DEF DepthCounts
    <3> QED BY <3>1, <3>2, <1>4
  <2> QED BY <2>3, <2>4, <2>5, <2>6, <1>2, <1>7 DEF DepthCounts
<1> QED BY <1>3, <1>8, <1>9

(* A SQL function keeps the invariant.                                     *)
LEMMA UdfStep ==
  ASSUME IInv, NEW p \in Patterns, NEW c \in Collations, Udf(p, c)
  PROVE  IInv'
<1>1. PICK h \in Handles : /\ Lookup(p, c, FALSE, h)
                           /\ pgt_collation' = SetCollation(CollationAfterLookup(p, c), c)
                           /\ matched' = Ran(h, pgt_collation')
  BY DEF Udf
<1>2. SlotTypes' /\ CachedLive' /\ CachedOnce' /\ LookedUp(p, c, FALSE, h)
  BY <1>1, LookupFacts DEF Udf
<1>3. stack' = stack /\ lost' = lost /\ armed' = armed
  BY DEF Udf
<1>4. pgt_collation' = c BY <1>1 DEF SetCollation
<1>5. Types
  BY DEF IInv
<1>6. Types'
  <2>1. arm_depth' \in Nat /\ deadline' \in BOOLEAN /\ stray' \in BOOLEAN BY UdfDepth
  <2> QED BY <1>2, <1>3, <1>4, <1>5, <2>1 DEF Types
<1>7. \A k \in DOMAIN stack : /\ stack[k].compiled \in Handles
                              /\ Users(stack[k].compiled) # {}
  <2>1. \A k \in DOMAIN stack : stack[k] \in Frames BY <1>5 DEF Types
  <2> QED BY <2>1 DEF Frames, Users
<1>8. PinnedHandleLive' BY <1>2, <1>3, <1>7 DEF LookedUp, IInv, PinnedHandleLive
<1>9. UncachedOwned' BY <1>2, <1>3, <1>7 DEF LookedUp, IInv, UncachedOwned
<1>10. PinsCounted'
  <2> SUFFICES ASSUME NEW i \in Slots, cache_slots'[i].compiled # Null
               PROVE  cache_slots'[i].pinned = Cardinality(Users(cache_slots[i].compiled)') + lost'[cache_slots'[i].compiled]
    BY DEF PinsCounted
  <2> DEFINE g == cache_slots'[i].compiled
  <2>1. cache_slots'[i].pinned = Cardinality(Users(g)) + lost[g] + 0 BY <1>2 DEF LookedUp
  <2>2. g \in Handles BY <1>2 DEF SlotTypes, SlotRecs
  <2>3. Cardinality(Users(g)) \in Nat /\ lost[g] \in Nat BY <1>5, <2>2, UsersFinite DEF Types
  <2>4. Users(cache_slots[i].compiled)' = Users(g) BY <1>3 DEF Users
  <2> QED BY <1>3, <2>1, <2>3, <2>4
<1>11. LostLive'
  BY <1>2, <1>3 DEF LookedUp, IInv, LostLive
<1>12. Reentrant' /\ Reentrant /\ ~InPhase("pinned")' BY <1>3 DEF Udf, Reentrant, InPhase, Top
<1>13. Nesting' /\ JustPinned' BY <1>3, <1>12 DEF IInv, Nesting, JustPinned
<1>14. MatchCollation' BY <1>1, <1>2, <1>4 DEF MatchCollation, LookedUp, Ran, Key
<1>15. DepthCounts' BY UdfDepth
<1> QED BY <1>2, <1>6, <1>8, <1>9, <1>10, <1>11, <1>13, <1>14, <1>15 DEF IInv

(* The lookup of an ordered scan keeps the invariant.                      *)
LEMMA KnnPinStep ==
  ASSUME IInv, NEW p \in Patterns, NEW c \in Collations, KnnPin(p, c)
  PROVE  IInv'
<1>1. PICK h \in Handles : Lookup(p, c, TRUE, h) /\ stack' = Append(stack, Frame(p, c, h))
  BY DEF KnnPin
<1>2. SlotTypes' /\ CachedLive' /\ CachedOnce' /\ LookedUp(p, c, TRUE, h)
  BY <1>1, LookupFacts DEF KnnPin
<1>3. /\ lost' = lost /\ arm_depth' = arm_depth /\ deadline' = deadline /\ matched' = matched
      /\ armed' = armed /\ stray' = stray
  BY DEF KnnPin
<1>4. Types BY DEF IInv
<1>5. pgt_collation' \in Collations \cup {Null} BY <1>4 DEF KnnPin, CollationAfterLookup, Types
<1> DEFINE f == Frame(p, c, h)
           n == Len(stack)
<1>6. f \in Frames /\ f.compiled = h /\ f.pattern = p /\ f.collation = c /\ f.phase = "pinned"
  BY <1>2 DEF Frame, Frames, LookedUp
<1>7. stack \in Seq(Frames) /\ n \in Nat /\ DOMAIN stack = 1 .. n BY <1>4 DEF Types
<1> HIDE DEF f
<1>8. /\ stack' \in Seq(Frames) /\ Len(stack') = n + 1 /\ stack' # <<>>
      /\ DOMAIN stack' = 1 .. n + 1 /\ stack'[n + 1] = f
      /\ \A k \in 1 .. n : stack'[k] = stack[k]
  BY <1>1, <1>6, <1>7, PushUsers DEF f
<1>9. \A g : Cardinality(UsersOf(stack', g)) = Cardinality(UsersOf(stack, g)) + (IF h = g THEN 1 ELSE 0)
  <2> TAKE g
  <2>1. Cardinality(UsersOf(Append(stack, f), g)) =
          Cardinality(UsersOf(stack, g)) + (IF f.compiled = g THEN 1 ELSE 0)
    BY <1>6, <1>7, PushUsers
  <2> QED BY <2>1, <1>1, <1>6 DEF f
<1>10. Types' BY <1>2, <1>3, <1>4, <1>5, <1>8 DEF Types
<1>11. \A k \in DOMAIN stack : /\ stack[k].compiled \in Handles
                               /\ Users(stack[k].compiled) # {}
  <2>1. \A k \in DOMAIN stack : stack[k] \in Frames BY <1>7
  <2> QED BY <2>1 DEF Frames, Users
<1> HIDE DEF n
<1>12. PinnedHandleLive'
  <2> SUFFICES ASSUME NEW k \in 1 .. n + 1
               PROVE  mem'[stack'[k].compiled] = Key(stack'[k].pattern, stack'[k].collation)
    BY <1>8 DEF PinnedHandleLive
  <2>1. CASE k = n + 1 BY <2>1, <1>2, <1>6, <1>8 DEF LookedUp
  <2>2. CASE k \in 1 .. n BY <2>2, <1>2, <1>7, <1>8, <1>11 DEF LookedUp, IInv, PinnedHandleLive
  <2> QED BY <2>1, <2>2, <1>7
<1>13. UncachedOwned'
  <2> SUFFICES ASSUME NEW k \in 1 .. n + 1, stack'[k].compiled \notin Cached'
               PROVE  /\ lost[stack'[k].compiled] = 0
                      /\ \A l \in 1 .. n + 1 : stack'[l].compiled = stack'[k].compiled => l = k
    BY <1>3, <1>8 DEF UncachedOwned
  <2>0. \A l \in 1 .. n : Users(h) = {} => stack[l].compiled # h BY <1>7 DEF Users
  <2>1. CASE k = n + 1
    <3>1. Users(h) = {} /\ lost[h] = 0 BY <2>1, <1>2, <1>6, <1>8 DEF LookedUp
    <3> QED BY <3>1, <2>0, <2>1, <1>6, <1>7, <1>8
  <2>2. CASE k \in 1 .. n
    <3>1. stack'[k] = stack[k] /\ stack[k].compiled \notin Cached
      BY <2>2, <1>2, <1>7, <1>8, <1>11 DEF LookedUp
    <3>2. stack[k].compiled # h
      BY <3>1, <2>0, <2>2, <1>2 DEF LookedUp
    <3>3. /\ lost[stack[k].compiled] = 0
          /\ \A l \in 1 .. n : stack[l].compiled = stack[k].compiled => l = k
      BY <3>1, <2>2, <1>7 DEF IInv, UncachedOwned
    <3> QED BY <3>1, <3>2, <3>3, <1>6, <1>7, <1>8
  <2> QED BY <2>1, <2>2, <1>7
<1>14. PinsCounted'
  <2> SUFFICES ASSUME NEW i \in Slots, cache_slots'[i].compiled # Null
               PROVE  cache_slots'[i].pinned = Cardinality(Users(cache_slots[i].compiled)') + lost'[cache_slots'[i].compiled]
    BY DEF PinsCounted
  <2>0. PICK g : g = cache_slots'[i].compiled OBVIOUS
  <2>1. cache_slots'[i].pinned = Cardinality(Users(g)) + lost[g] + (IF g = h THEN 1 ELSE 0)
    BY <2>0, <1>2 DEF LookedUp
  <2>2. g \in Handles BY <2>0, <1>2 DEF SlotTypes, SlotRecs
  <2>3. Cardinality(Users(g)) \in Nat /\ lost[g] \in Nat BY <1>4, <2>2, UsersFinite DEF Types
  <2>4. Users(cache_slots[i].compiled)' = UsersOf(stack', g) /\ Users(g) = UsersOf(stack, g)
    BY <2>0 DEF Users, UsersOf
  <2>5. Cardinality(UsersOf(stack', g)) = Cardinality(UsersOf(stack, g)) + (IF h = g THEN 1 ELSE 0)
    BY <1>9
  <2> QED BY <1>3, <2>0, <2>1, <2>3, <2>4, <2>5
<1>15. LostLive' BY <1>2, <1>3 DEF LookedUp, IInv, LostLive
<1>16. InPhase("pinned")' /\ ~Reentrant' /\ Top' = f BY <1>6, <1>8 DEF InPhase, Reentrant, Top
<1>17. Nesting'
  <2>1. Reentrant BY DEF KnnPin
  <2>2. \A k \in 1 .. n : stack[k].phase = "loop"
    BY <2>1, <1>7 DEF IInv, Nesting, Reentrant, InPhase, Top, n
  <2>3. \A k \in armed : k \in 1 .. n BY <1>7 DEF IInv, Nesting
  <2>4. \A k \in 1 .. n + 1 : k < n + 1 => stack'[k].phase = "loop" BY <2>2, <1>7, <1>8
  <2>5. \A k \in armed : k \in 1 .. n + 1 /\ stack'[k].phase = "loop" BY <2>2, <2>3, <1>7, <1>8
  <2> QED BY <2>4, <2>5, <1>3, <1>8 DEF Nesting
<1>18. JustPinned' BY <1>2, <1>6, <1>16 DEF JustPinned, LookedUp
<1>19. MatchCollation' BY <1>3 DEF IInv, MatchCollation
<1>20. DepthCounts' BY <1>3 DEF IInv, DepthCounts
<1> QED BY <1>2, <1>10, <1>12, <1>13, <1>14, <1>15, <1>17, <1>18, <1>19, <1>20 DEF IInv

(* What ending the innermost scan leaves; the scan around it is in its     *)
(* loop.                                                                   *)
LEMMA PopFacts ==
  ASSUME IInv, stack # <<>>, stack' = Pop
  PROVE  /\ stack' \in Seq(Frames) /\ Len(stack) \in Nat \ {0} /\ Len(stack') = Len(stack) - 1
         /\ DOMAIN stack = 1 .. Len(stack) /\ DOMAIN stack' = 1 .. Len(stack) - 1
         /\ \A k \in 1 .. Len(stack) - 1 : stack'[k] = stack[k]
         /\ \A g : Cardinality(UsersOf(stack', g)) =
              Cardinality(UsersOf(stack, g)) - (IF Top.compiled = g THEN 1 ELSE 0)
         /\ Top \in Frames /\ Reentrant'
<1>1. stack \in Seq(Frames) BY DEF IInv, Types
<1>2. /\ stack' \in Seq(Frames) /\ Len(stack) \in Nat \ {0} /\ Len(stack') = Len(stack) - 1
      /\ DOMAIN stack = 1 .. Len(stack) /\ DOMAIN stack' = 1 .. Len(stack) - 1
      /\ \A k \in 1 .. Len(stack) - 1 : stack'[k] = stack[k]
      /\ \A g : Cardinality(UsersOf(stack', g)) =
              Cardinality(UsersOf(stack, g)) - (IF Top.compiled = g THEN 1 ELSE 0)
  BY <1>1, PopUsers DEF Pop, Top
<1>3. Top \in Frames BY <1>1, <1>2 DEF Top
<1>4. Reentrant'
  <2>1. CASE Len(stack) = 1
    <3>1. stack' = <<>> BY <2>1, <1>2
    <3> QED BY <3>1 DEF Reentrant
  <2>2. CASE Len(stack) # 1
    <3>1. /\ stack' # <<>> /\ Len(stack') \in 1 .. Len(stack) - 1
      BY <2>2, <1>2
    <3>2. stack'[Len(stack')].phase = "loop" BY <3>1, <1>2 DEF IInv, Nesting
    <3> QED BY <3>1, <3>2 DEF Reentrant, InPhase, Top
  <2> QED BY <2>1, <2>2
<1> QED BY <1>2, <1>3, <1>4

(* Ending the innermost scan leaves the scans around it in their loops.    *)
LEMMA NestingPop ==
  ASSUME IInv, stack # <<>>, stack' = Pop, armed' = armed \ {Len(stack)}
  PROVE  Nesting' /\ JustPinned'
<1>1. PICK n \in Nat \ {0} :
        /\ n = Len(stack) /\ Len(stack') = n - 1 /\ DOMAIN stack = 1 .. n /\ DOMAIN stack' = 1 .. n - 1
        /\ \A k \in 1 .. n - 1 : stack'[k] = stack[k]
        /\ Reentrant'
  BY PopFacts
<1>2. \A k \in DOMAIN stack' : k < Len(stack') => stack'[k].phase = "loop"
  BY <1>1 DEF IInv, Nesting
<1>3. \A k \in armed' : k \in DOMAIN stack' /\ stack'[k].phase = "loop"
  BY <1>1 DEF IInv, Nesting
<1>4. ~InPhase("pinned")' BY <1>1 DEF Reentrant, InPhase
<1> QED BY <1>2, <1>3, <1>4 DEF Nesting, JustPinned

(* The disarm of an ordered scan lowers the depth by its own arming, or    *)
(* is recorded as stray.                                                   *)
LEMMA KnnFinallyDepth ==
  ASSUME IInv, KnnFinally
  PROVE  arm_depth' \in Nat /\ deadline' \in BOOLEAN /\ stray' \in BOOLEAN /\ DepthCounts'
<1>1. /\ armed' = armed \ {Len(stack)}
      /\ arm_depth' = IF Top.phase = "loop" THEN Disarmed(arm_depth) ELSE arm_depth
      /\ deadline' = IF Top.phase = "loop" THEN StillArmed(deadline, arm_depth) ELSE deadline
  BY DEF KnnFinally
<1>2. stray' <=> /\ armed' # {}
                 /\ stray \/ (Top.phase = "loop" /\ Len(stack) \notin armed /\ arm_depth > 0)
  BY DEF KnnFinally
<1>3. arm_depth \in Nat /\ deadline \in BOOLEAN /\ stray \in BOOLEAN BY DEF IInv, Types
<1>4. IsFiniteSet(armed) /\ Cardinality(armed) \in Nat BY ArmedFinite DEF IInv
<1>5. DepthCounts BY DEF IInv
<1>6. Cardinality(armed') = IF Len(stack) \in armed THEN Cardinality(armed) - 1 ELSE Cardinality(armed)
  BY <1>1, <1>4, FS_RemoveElement
<1>7. IsFiniteSet(armed') /\ Cardinality(armed') \in Nat
  BY <1>1, <1>4, FS_RemoveElement, FS_CardinalityType
<1>8. arm_depth > 0 /\ Len(stack) \notin armed => armed' # {}
  <2>1. Cardinality(armed) > 0 /\ Len(stack) \notin armed => Cardinality(armed') > 0 BY <1>4, <1>6
  <2>2. arm_depth > 0 => Cardinality(armed) > 0 BY <1>3, <1>4, <1>5 DEF DepthCounts
  <2>3. Cardinality(armed') > 0 => armed' # {} BY <1>7, FS_EmptySet
  <2> QED BY <2>1, <2>2, <2>3
<1>9. stray' \in BOOLEAN BY DEF KnnFinally
<1>10. Len(stack) \in armed => Top.phase = "loop" BY DEF IInv, Nesting, Top
<1>11. CASE Top.phase = "loop"
  <2>1. arm_depth' = Disarmed(arm_depth) BY <1>1, <1>11
  <2>2. deadline' = (deadline /\ arm_depth # 1) BY <1>1, <1>11 DEF StillArmed
  <2>3. deadline' \in BOOLEAN BY <2>2
  <2>4. arm_depth' \in Nat BY <2>1, <1>3 DEF Disarmed
  <2>5. deadline' <=> arm_depth' > 0
    <3>1. arm_depth' > 0 <=> arm_depth > 0 /\ arm_depth # 1 BY <2>1, <1>3 DEF Disarmed
    <3> QED BY <3>1, <2>2, <1>5 DEF DepthCounts
  <2>6. arm_depth' <= Cardinality(armed')
    <3>1. arm_depth <= Cardinality(armed) BY <1>5 DEF DepthCounts
    <3>2. CASE Len(stack) \in armed
      <4>1. Cardinality(armed') = Cardinality(armed) - 1 BY <3>2, <1>6
      <4> QED BY <4>1, <3>1, <2>1, <1>3, <1>4, <1>7 DEF Disarmed
    <3>3. CASE Len(stack) \notin armed
      <4>1. Cardinality(armed') = Cardinality(armed) BY <3>3, <1>6
      <4> QED BY <4>1, <3>1, <2>1, <1>3, <1>4, <1>7 DEF Disarmed
    <3> QED BY <3>2, <3>3
  <2>7. stray' \/ arm_depth' = Cardinality(armed')
    <3>1. CASE armed' = {}
      <4>1. Cardinality(armed') = 0 BY <3>1, FS_EmptySet
      <4> QED BY <4>1, <2>4, <2>6
    <3>2. CASE armed' # {} /\ stray BY <3>2, <1>2
    <3>3. CASE armed' # {} /\ ~stray
      <4>1. arm_depth = Cardinality(armed) BY <3>3, <1>5 DEF DepthCounts
      <4>2. CASE Len(stack) \in armed
        <5>1. Cardinality(armed') = Cardinality(armed) - 1 BY <4>2, <1>6
        <5> QED BY <5>1, <4>1, <2>1, <1>3, <1>7 DEF Disarmed
      <4>3. CASE Len(stack) \notin armed /\ arm_depth > 0 BY <4>3, <3>3, <1>2, <1>11
      <4>4. CASE Len(stack) \notin armed /\ ~(arm_depth > 0)
        <5>1. Cardinality(armed') = Cardinality(armed) BY <4>4, <1>6
        <5> QED BY <5>1, <4>1, <4>4, <2>1, <1>3 DEF Disarmed
      <4> QED BY <4>2, <4>3, <4>4
    <3> QED BY <3>1, <3>2, <3>3
  <2> QED BY <2>3, <2>4, <2>5, <2>6, <2>7, <1>9 DEF DepthCounts
<1>12. CASE Top.phase # "loop"
  <2>1. arm_depth' = arm_depth /\ deadline' = deadline BY <1>1, <1>12
  <2>2. armed' = armed BY <1>1, <1>10, <1>12
  <2>3. stray' \/ arm_depth = Cardinality(armed)
    <3>1. CASE armed = {}
      <4>1. Cardinality(armed) = 0 BY <3>1, FS_EmptySet
      <4> QED BY <4>1, <1>3, <1>5 DEF DepthCounts
    <3>2. CASE armed # {} BY <3>2, <2>2, <1>2, <1>5 DEF DepthCounts
    <3> QED BY <3>1, <3>2
  <2> QED BY <2>1, <2>2, <2>3, <1>3, <1>5, <1>9 DEF DepthCounts
<1> QED BY <1>11, <1>12

(* An error before the PG_TRY keeps the invariant: the pin it leaves is    *)
(* counted as lost.                                                        *)
LEMMA KnnErrorBeforeTryStep ==
  ASSUME IInv, KnnErrorBeforeTry
  PROVE  IInv'
<1> DEFINE n == Len(stack)
<1>1. stack # <<>> /\ stack' = Pop /\ Top.phase = "pinned" BY DEF KnnErrorBeforeTry, InPhase
<1>2. /\ stack' \in Seq(Frames) /\ n \in Nat \ {0} /\ Len(stack') = n - 1
      /\ DOMAIN stack = 1 .. n /\ DOMAIN stack' = 1 .. n - 1
      /\ \A k \in 1 .. n - 1 : stack'[k] = stack[k]
      /\ \A g : Cardinality(UsersOf(stack', g)) =
           Cardinality(UsersOf(stack, g)) - (IF Top.compiled = g THEN 1 ELSE 0)
      /\ Top \in Frames
  BY <1>1, PopFacts
<1>3. PICK h \in Handles : h = Top.compiled BY <1>2 DEF Frames
<1>4. /\ cache_slots' = cache_slots /\ cache_clock' = cache_clock /\ mem' = mem
      /\ pgt_collation' = pgt_collation /\ arm_depth' = arm_depth /\ deadline' = deadline
      /\ matched' = matched /\ Cached' = Cached /\ armed' = armed /\ stray' = stray
  BY DEF KnnErrorBeforeTry, Cached
<1>5. Types BY DEF IInv
<1>6. lost' \in [Handles -> Nat] /\ lost'[h] = lost[h] + 1 /\ \A g \in Handles \ {h} : lost'[g] = lost[g]
  BY <1>3, <1>5 DEF KnnErrorBeforeTry, Types
<1>7. Nesting' /\ JustPinned' /\ DepthCounts'
  <2>1. Len(stack) \notin armed BY <1>1 DEF IInv, Nesting, Top
  <2>2. armed' = armed \ {Len(stack)} BY <2>1, <1>4
  <2>3. Nesting' /\ JustPinned' BY <2>2, <1>1, NestingPop
  <2>4. DepthCounts' BY <1>4 DEF IInv, DepthCounts
  <2> QED BY <2>3, <2>4
<1>8. Types' BY <1>2, <1>4, <1>5, <1>6 DEF Types, SlotTypes
<1>9. CachedLive' /\ CachedOnce' BY <1>4 DEF IInv, CachedLive, CachedOnce
<1> HIDE DEF n
<1>10. PinnedHandleLive' BY <1>2, <1>4 DEF IInv, PinnedHandleLive
<1>11. UncachedOwned'
  <2> SUFFICES ASSUME NEW k \in 1 .. n - 1, stack[k].compiled \notin Cached
               PROVE  /\ lost'[stack[k].compiled] = 0
                      /\ \A l \in 1 .. n - 1 : stack[l].compiled = stack[k].compiled => l = k
    BY <1>2, <1>4 DEF UncachedOwned
  <2>1. /\ lost[stack[k].compiled] = 0
        /\ \A l \in 1 .. n : stack[l].compiled = stack[k].compiled => l = k
    BY <1>2 DEF IInv, UncachedOwned
  <2>2. stack[k].compiled # h BY <2>1, <1>2, <1>3 DEF Top, n
  <2>3. stack[k].compiled \in Handles
    <3>1. stack[k] \in Frames BY <1>2, <1>5 DEF Types, n
    <3> QED BY <3>1 DEF Frames
  <2> QED BY <2>1, <2>2, <2>3, <1>2, <1>6
<1>12. PinsCounted'
  <2> SUFFICES ASSUME NEW i \in Slots, cache_slots[i].compiled # Null
               PROVE  cache_slots[i].pinned = Cardinality(Users(cache_slots[i].compiled)') + lost'[cache_slots[i].compiled]
    BY <1>4 DEF PinsCounted
  <2>0. PICK g : g = cache_slots[i].compiled OBVIOUS
  <2>1. cache_slots[i].pinned = Cardinality(Users(g)) + lost[g] BY <2>0 DEF IInv, PinsCounted
  <2>2. g \in Handles BY <2>0, <1>5 DEF Types, SlotTypes, SlotRecs
  <2>3. Cardinality(Users(g)) \in Nat /\ lost[g] \in Nat BY <1>5, <2>2, UsersFinite DEF Types
  <2>4. Users(cache_slots[i].compiled)' = UsersOf(stack', g) /\ Users(g) = UsersOf(stack, g)
    BY <2>0, <1>4 DEF Users, UsersOf
  <2>5. Cardinality(UsersOf(stack', g)) = Cardinality(UsersOf(stack, g)) - (IF h = g THEN 1 ELSE 0)
    BY <1>2, <1>3
  <2>6. lost'[g] = IF h = g THEN lost[g] + 1 ELSE lost[g] BY <2>2, <1>6
  <2> QED BY <2>0, <2>1, <2>3, <2>4, <2>5, <2>6
<1>13. LostLive'
  <2>1. mem[h] # Freed
    <3>1. mem[h] = Key(Top.pattern, Top.collation) BY <1>2, <1>3 DEF IInv, PinnedHandleLive, Top, n
    <3> QED BY <3>1, <1>2, KeyNotFreed DEF Frames
  <2> QED BY <2>1, <1>4, <1>6 DEF IInv, LostLive
<1>14. MatchCollation' BY <1>4 DEF IInv, MatchCollation
<1> QED BY <1>7, <1>8, <1>9, <1>10, <1>11, <1>12, <1>13, <1>14 DEF IInv

(* A scan that arms raises the depth by one; one that finds the timeout    *)
(* off leaves it.                                                          *)
LEMMA KnnArmDepth ==
  ASSUME IInv, KnnArm
  PROVE  /\ arm_depth' \in Nat /\ deadline' \in BOOLEAN /\ DepthCounts'
         /\ armed' \subseteq armed \cup {Len(stack)}
<1>1. PICK on \in Timeouts : /\ arm_depth' = Armed(on, arm_depth)
                             /\ deadline' = (on \/ deadline)
                             /\ armed' = IF on THEN armed \cup {Len(stack)} ELSE armed
  BY DEF KnnArm
<1>2. on \in BOOLEAN BY CacheAssumption
<1>3. arm_depth \in Nat /\ deadline \in BOOLEAN /\ stray' = stray BY DEF IInv, Types, KnnArm
<1>4. IsFiniteSet(armed) /\ Cardinality(armed) \in Nat BY ArmedFinite DEF IInv
<1>5. DepthCounts BY DEF IInv
<1>6. Len(stack) \notin armed BY DEF IInv, Nesting, KnnArm, InPhase, Top
<1>7. deadline' \in BOOLEAN BY <1>1
<1>8. CASE on
  <2>1. arm_depth' = arm_depth + 1 /\ armed' = armed \cup {Len(stack)} BY <1>1, <1>8 DEF Armed
  <2>2. Cardinality(armed') = Cardinality(armed) + 1 BY <2>1, <1>4, <1>6, FS_AddElement
  <2>3. deadline' = TRUE BY <1>1, <1>8
  <2>4. arm_depth' \in Nat /\ arm_depth' > 0 BY <2>1, <1>3
  <2>5. arm_depth' <= Cardinality(armed') BY <2>1, <2>2, <1>3, <1>4, <1>5 DEF DepthCounts
  <2>6. stray' \/ arm_depth' = Cardinality(armed') BY <2>1, <2>2, <1>3, <1>5 DEF DepthCounts
  <2> QED BY <2>1, <2>3, <2>4, <2>5, <2>6 DEF DepthCounts
<1>9. CASE ~on
  <2>1. arm_depth' = arm_depth /\ armed' = armed /\ deadline' = deadline BY <1>1, <1>3, <1>9 DEF Armed
  <2> QED BY <2>1, <1>3, <1>5 DEF DepthCounts
<1> QED BY <1>2, <1>8, <1>9

(* Entering the PG_TRY and the loop keep the invariant.                    *)
LEMMA EnterStep ==
  ASSUME IInv, stack # <<>>, NEW ph \in {"try", "loop"}, Enter(ph),
         arm_depth' \in Nat, deadline' \in BOOLEAN, DepthCounts', stray' = stray,
         armed' \subseteq IF ph = "loop" THEN armed \cup {Len(stack)} ELSE armed,
         Top.phase # "loop",
         UNCHANGED <<cache_slots, cache_clock, mem, pgt_collation, matched, lost>>
  PROVE  IInv'
<1> DEFINE n == Len(stack)
<1>1. Types /\ stack \in Seq(Frames) /\ n \in Nat \ {0} /\ DOMAIN stack = 1 .. n BY DEF IInv, Types
<1>2. Top \in Frames BY <1>1 DEF Top
<1>3. PICK f : f = [Top EXCEPT !.phase = ph] OBVIOUS
<1>4. /\ f \in Frames /\ f.pattern = Top.pattern /\ f.collation = Top.collation
      /\ f.compiled = Top.compiled /\ f.phase = ph
  BY <1>2, <1>3 DEF Frames
<1>5. stack' = [stack EXCEPT ![n] = f] BY <1>1, <1>3 DEF Enter, Top
<1>6. /\ stack' \in Seq(Frames) /\ Len(stack') = n /\ DOMAIN stack' = 1 .. n /\ stack' # <<>>
      /\ stack'[n] = f /\ \A k \in 1 .. n : k # n => stack'[k] = stack[k]
  <2> HIDE DEF n
  <2>1. stack' \in Seq(Frames) /\ Len(stack') = n BY <1>1, <1>4, <1>5, ExceptSeq DEF n
  <2>2. DOMAIN stack' = 1 .. n /\ stack' # <<>> BY <2>1, <1>1
  <2> QED BY <2>1, <2>2, <1>1, <1>5
<1>7. \A k \in 1 .. n : /\ stack'[k].pattern = stack[k].pattern /\ stack'[k].collation = stack[k].collation
                        /\ stack'[k].compiled = stack[k].compiled
  BY <1>4, <1>6 DEF Top
<1>8. Cached' = Cached BY DEF Cached
<1>9. Types'
  <2>1. arm_depth' \in Nat /\ deadline' \in BOOLEAN OBVIOUS
  <2>2. stray' \in BOOLEAN BY <1>1 DEF Types
  <2> QED BY <2>1, <2>2, <1>1, <1>6 DEF Types, SlotTypes
<1>10. CachedLive' /\ CachedOnce' BY DEF IInv, CachedLive, CachedOnce
<1>11. PinnedHandleLive' BY <1>1, <1>6, <1>7 DEF IInv, PinnedHandleLive
<1>12. UncachedOwned'
  <2> HIDE DEF n
  <2> QED BY <1>1, <1>6, <1>7, <1>8 DEF IInv, UncachedOwned
<1>13. PinsCounted'
  <2>1. \A g : UsersOf(stack', g) = UsersOf(stack, g) BY <1>1, <1>6, <1>7 DEF UsersOf
  <2>2. ASSUME NEW i \in Slots, cache_slots[i].compiled # Null
        PROVE  cache_slots[i].pinned = Cardinality(Users(cache_slots[i].compiled)') + lost[cache_slots[i].compiled]
    <3>0. PICK g : g = cache_slots[i].compiled OBVIOUS
    <3>1. Users(cache_slots[i].compiled)' = UsersOf(stack', g) /\ Users(g) = UsersOf(stack, g)
      BY <3>0 DEF Users, UsersOf
    <3>2. cache_slots[i].pinned = Cardinality(Users(g)) + lost[g] BY <2>2, <3>0 DEF IInv, PinsCounted
    <3> QED BY <2>1, <3>0, <3>1, <3>2
  <2> QED BY <2>2 DEF PinsCounted
<1>14. LostLive' /\ MatchCollation' BY DEF IInv, LostLive, MatchCollation
<1>15. Nesting'
  <2>1. \A k \in 1 .. n : k < n => stack[k].phase = "loop" BY <1>1 DEF IInv, Nesting
  <2>2. \A k \in armed : k \in 1 .. n /\ stack[k].phase = "loop" BY <1>1 DEF IInv, Nesting
  <2>3. n \notin armed BY <2>2 DEF Top
  <2>4. \A k \in armed' : k \in armed \/ (k = n /\ ph = "loop") OBVIOUS
  <2> HIDE DEF n
  <2>5. \A k \in 1 .. n : k < n => stack'[k].phase = "loop" BY <2>1, <1>1, <1>6
  <2>6. \A k \in armed' : k \in 1 .. n /\ stack'[k].phase = "loop"
    BY <2>2, <2>3, <2>4, <1>1, <1>4, <1>6
  <2> QED BY <2>5, <2>6, <1>6 DEF Nesting
<1>16. JustPinned'
  <2>1. ~InPhase("pinned")' BY <1>4, <1>6 DEF InPhase, Top
  <2> QED BY <2>1 DEF JustPinned
<1> QED BY <1>9, <1>10, <1>11, <1>12, <1>13, <1>14, <1>15, <1>16 DEF IInv

(* A match of an ordered scan keeps the invariant.                         *)
LEMMA KnnMatchStep ==
  ASSUME IInv, KnnMatch
  PROVE  IInv'
<1>1. /\ stack # <<>> /\ pgt_collation' = Top.collation /\ mem' = mem
      /\ matched' = [compiled |-> mem[Top.compiled].collation, set |-> Top.collation]
      /\ UNCHANGED <<cache_slots, cache_clock, stack, arm_depth, deadline, armed, stray, lost>>
  BY DEF KnnMatch, InPhase, SetCollation, Ran, Top
<1>2. Types /\ stack \in Seq(Frames) /\ Len(stack) \in DOMAIN stack BY <1>1 DEF IInv, Types
<1>3. Top \in Frames BY <1>2 DEF Top
<1>4. mem[Top.compiled] = Key(Top.pattern, Top.collation) BY <1>2 DEF IInv, PinnedHandleLive, Top
<1>5. MatchCollation' BY <1>1, <1>4 DEF MatchCollation, Key
<1>6. Types'
  <2>1. pgt_collation' \in Collations \cup {Null} BY <1>1, <1>3 DEF Frames
  <2> QED BY <2>1, <1>1, <1>2 DEF Types, SlotTypes
<1>7. CachedLive' /\ CachedOnce' BY <1>1 DEF IInv, CachedLive, CachedOnce
<1>8. PinnedHandleLive' /\ LostLive' BY <1>1 DEF IInv, PinnedHandleLive, LostLive
<1>9. Cached' = Cached /\ Top' = Top /\ Reentrant' = Reentrant /\ InPhase("pinned")' = InPhase("pinned")
  BY <1>1 DEF Cached, Top, Reentrant, InPhase
<1>10. UncachedOwned' BY <1>1, <1>9 DEF IInv, UncachedOwned
<1>11. PinsCounted' BY <1>1 DEF IInv, PinsCounted, Users
<1>12. Nesting' /\ DepthCounts' BY <1>1, <1>9 DEF IInv, Nesting, DepthCounts
<1>13. JustPinned' BY <1>1, <1>9 DEF IInv, JustPinned
<1> QED BY <1>5, <1>6, <1>7, <1>8, <1>10, <1>11, <1>12, <1>13 DEF IInv

(* tre_cache_release of a cached handle takes one pin off its slot.        *)
LEMMA ReleaseCached ==
  ASSUME IInv, stack # <<>>, stack' = Pop, NEW h \in Handles, h = Top.compiled, h \in Cached,
         Release(h), lost' = lost, cache_clock' = cache_clock
  PROVE  /\ SlotTypes' /\ CachedLive' /\ CachedOnce' /\ PinsCounted' /\ Cached' = Cached
         /\ mem' = mem
<1>1. Types /\ SlotTypes BY DEF IInv, Types
<1>2. PICK i \in Slots : cache_slots[i].compiled = h BY DEF Cached
<1>3. \A j \in Slots : cache_slots[j].compiled = h => j = i
  BY <1>2, CacheAssumption DEF IInv, CachedOnce
<1>4. /\ mem' = mem
      /\ cache_slots' = [j \in Slots |->
           IF cache_slots[j].compiled = h /\ cache_slots[j].pinned > 0
           THEN [cache_slots[j] EXCEPT !.pinned = @ - 1] ELSE cache_slots[j]]
  BY <1>2 DEF Release
<1>5. cache_slots[i].pinned \in Nat \ {0}
  <2>1. cache_slots[i].pinned = Cardinality(Users(h)) + lost[h] BY <1>2, CacheAssumption DEF IInv, PinsCounted
  <2>2. IsFiniteSet(Users(h)) /\ Cardinality(Users(h)) \in Nat /\ lost[h] \in Nat BY <1>1, UsersFinite DEF Types
  <2>3. Len(stack) \in Users(h) BY <1>1 DEF Users, Top, Types
  <2>4. Cardinality(Users(h)) # 0 BY <2>2, <2>3, FS_EmptySet
  <2> QED BY <2>1, <2>2, <2>4
<1> DEFINE r == [cache_slots[i] EXCEPT !.pinned = cache_slots[i].pinned - 1]
<1>6. cache_slots' = [cache_slots EXCEPT ![i] = r]
  <2>1. cache_slots' = [j \in Slots |-> IF j = i THEN r ELSE cache_slots[j]]
    BY <1>2, <1>3, <1>4, <1>5
  <2> HIDE DEF r
  <2> QED BY <2>1, <1>1 DEF SlotTypes
<1>7. /\ r \in SlotRecs /\ r.pattern = cache_slots[i].pattern /\ r.collation = cache_slots[i].collation
      /\ r.compiled = h /\ r.last_used = cache_slots[i].last_used /\ r.pinned = cache_slots[i].pinned - 1
  BY <1>1, <1>2, <1>5 DEF SlotTypes, SlotRecs
<1> HIDE DEF r
<1>8. /\ cache_slots' \in [Slots -> SlotRecs] /\ cache_slots'[i] = r
      /\ \A j \in Slots \ {i} : cache_slots'[j] = cache_slots[j]
  BY <1>1, <1>6, <1>7 DEF SlotTypes
<1>9. \A j \in Slots : /\ cache_slots'[j].compiled = cache_slots[j].compiled
                       /\ cache_slots'[j].pattern = cache_slots[j].pattern
                       /\ cache_slots'[j].collation = cache_slots[j].collation
                       /\ cache_slots'[j].last_used = cache_slots[j].last_used
  BY <1>2, <1>7, <1>8
<1>10. SlotTypes' BY <1>1, <1>2, <1>4, <1>8, <1>9, CacheAssumption DEF SlotTypes
<1>11. CachedLive' BY <1>4, <1>9 DEF IInv, CachedLive
<1>12. CachedOnce' BY <1>9 DEF IInv, CachedOnce
<1>13. Cached' = Cached BY <1>9 DEF Cached
<1>14. PinsCounted'
  <2> SUFFICES ASSUME NEW j \in Slots, cache_slots'[j].compiled # Null
               PROVE  cache_slots'[j].pinned = Cardinality(Users(cache_slots[j].compiled)') + lost'[cache_slots'[j].compiled]
    BY DEF PinsCounted
  <2>0. PICK g : g = cache_slots'[j].compiled /\ g = cache_slots[j].compiled BY <1>9
  <2>1. cache_slots[j].pinned = Cardinality(Users(g)) + lost[g] BY <2>0 DEF IInv, PinsCounted
  <2>2. g \in Handles BY <2>0, <1>1 DEF SlotTypes, SlotRecs
  <2>3. Cardinality(Users(g)) \in Nat /\ lost[g] \in Nat BY <1>1, <2>2, UsersFinite DEF Types
  <2>4. Users(cache_slots[j].compiled)' = UsersOf(stack', g) /\ Users(g) = UsersOf(stack, g)
    BY <2>0 DEF Users, UsersOf
  <2>5. Cardinality(UsersOf(stack', g)) = Cardinality(UsersOf(stack, g)) - (IF h = g THEN 1 ELSE 0)
    BY PopFacts
  <2>6. cache_slots'[j].pinned = cache_slots[j].pinned - (IF h = g THEN 1 ELSE 0)
    <3>1. CASE j = i BY <3>1, <2>0, <1>2, <1>7, <1>8
    <3>2. CASE j # i
      <4>1. g # h BY <3>2, <2>0, <1>3
      <4> QED BY <4>1, <3>2, <1>8, <2>1, <2>3
    <3> QED BY <3>1, <3>2
  <2> QED BY <2>0, <2>1, <2>3, <2>4, <2>5, <2>6
<1> QED BY <1>4, <1>10, <1>11, <1>12, <1>13, <1>14

(* tre_cache_release of a handle in no slot frees it, and nothing else.    *)
LEMMA ReleaseUncached ==
  ASSUME IInv, stack # <<>>, stack' = Pop, NEW h \in Handles, h = Top.compiled, h \notin Cached,
         Release(h), lost' = lost, cache_clock' = cache_clock
  PROVE  /\ SlotTypes' /\ CachedLive' /\ CachedOnce' /\ PinsCounted' /\ Cached' = Cached
         /\ cache_slots' = cache_slots
         /\ mem'[h] = Freed /\ \A g \in Handles \ {h} : mem'[g] = mem[g]
<1>1. Types /\ SlotTypes BY DEF IInv, Types
<1>2. \A i \in Slots : cache_slots[i].compiled # h BY CacheAssumption DEF Cached
<1>3. mem' = [mem EXCEPT ![h] = Freed] /\ cache_slots' = cache_slots BY <1>2 DEF Release
<1>4. mem'[h] = Freed /\ \A g \in Handles \ {h} : mem'[g] = mem[g] BY <1>1, <1>3 DEF SlotTypes
<1>5. SlotTypes' BY <1>1, <1>3 DEF SlotTypes
<1>6. \A i \in Slots : cache_slots[i].compiled # Null => cache_slots[i].compiled \in Handles \ {h}
  BY <1>1, <1>2 DEF SlotTypes, SlotRecs
<1>7. CachedLive' BY <1>3, <1>4, <1>6 DEF IInv, CachedLive
<1>8. CachedOnce' /\ Cached' = Cached BY <1>3 DEF IInv, CachedOnce, Cached
<1>9. PinsCounted'
  <2> SUFFICES ASSUME NEW j \in Slots, cache_slots[j].compiled # Null
               PROVE  cache_slots[j].pinned = Cardinality(Users(cache_slots[j].compiled)') + lost[cache_slots[j].compiled]
    BY <1>3 DEF PinsCounted
  <2>0. PICK g : g = cache_slots[j].compiled OBVIOUS
  <2>1. cache_slots[j].pinned = Cardinality(Users(g)) + lost[g] BY <2>0 DEF IInv, PinsCounted
  <2>2. g \in Handles \ {h} BY <2>0, <1>6
  <2>3. Cardinality(Users(g)) \in Nat BY <1>1, <2>2, UsersFinite DEF Types
  <2>4. Users(cache_slots[j].compiled)' = UsersOf(stack', g) /\ Users(g) = UsersOf(stack, g)
    BY <2>0, <1>3 DEF Users, UsersOf
  <2>5. Cardinality(UsersOf(stack', g)) = Cardinality(UsersOf(stack, g)) - 0
    BY <2>2, PopFacts
  <2> QED BY <2>0, <2>1, <2>3, <2>4, <2>5
<1> QED BY <1>3, <1>4, <1>5, <1>7, <1>8, <1>9

(* The PG_FINALLY of an ordered scan keeps the invariant.                  *)
LEMMA KnnFinallyStep ==
  ASSUME IInv, KnnFinally
  PROVE  IInv'
<1> DEFINE n == Len(stack)
<1>1. /\ stack # <<>> /\ stack' = Pop /\ Release(Top.compiled)
      /\ UNCHANGED <<cache_clock, pgt_collation, matched, lost>>
  BY DEF KnnFinally, InPhase
<1>2. Types BY DEF IInv
<1>3. /\ stack' \in Seq(Frames) /\ n \in Nat \ {0} /\ Len(stack') = n - 1
      /\ DOMAIN stack = 1 .. n /\ DOMAIN stack' = 1 .. n - 1
      /\ \A k \in 1 .. n - 1 : stack'[k] = stack[k]
      /\ Top \in Frames
  BY <1>1, PopFacts
<1>4. PICK h \in Handles : h = Top.compiled BY <1>3 DEF Frames
<1>5. Nesting' /\ JustPinned' BY <1>1, NestingPop DEF KnnFinally
<1>6. arm_depth' \in Nat /\ deadline' \in BOOLEAN /\ stray' \in BOOLEAN /\ DepthCounts'
  BY KnnFinallyDepth
<1>7. /\ SlotTypes' /\ CachedLive' /\ CachedOnce' /\ PinsCounted' /\ Cached' = Cached
      /\ \A g \in Handles : g # h => mem'[g] = mem[g]
      /\ h \in Cached => mem'[h] = mem[h]
  <2>1. CASE h \in Cached BY <2>1, <1>1, <1>4, ReleaseCached
  <2>2. CASE h \notin Cached BY <2>2, <1>1, <1>4, ReleaseUncached
  <2> QED BY <2>1, <2>2
<1>8. Types' BY <1>1, <1>2, <1>3, <1>6, <1>7 DEF Types
<1> HIDE DEF n
<1>9. h \notin Cached => lost[h] = 0 /\ \A k \in 1 .. n - 1 : stack[k].compiled # h
  <2>1. n \in DOMAIN stack /\ stack[n].compiled = h BY <1>3, <1>4 DEF Top, n
  <2>2. h \notin Cached => lost[h] = 0 /\ \A k \in DOMAIN stack : stack[k].compiled = h => k = n
    BY <2>1 DEF IInv, UncachedOwned
  <2> QED BY <2>1, <2>2, <1>3
<1>10. PinnedHandleLive'
  <2> SUFFICES ASSUME NEW k \in 1 .. n - 1
               PROVE  mem'[stack[k].compiled] = Key(stack[k].pattern, stack[k].collation)
    BY <1>3 DEF PinnedHandleLive
  <2>1. stack[k] \in Frames /\ k \in DOMAIN stack BY <1>2, <1>3 DEF Types, n
  <2>2. mem[stack[k].compiled] = Key(stack[k].pattern, stack[k].collation) BY <2>1 DEF IInv, PinnedHandleLive
  <2> QED BY <2>1, <2>2, <1>7, <1>9 DEF Frames
<1>11. UncachedOwned' BY <1>1, <1>3, <1>7 DEF IInv, UncachedOwned
<1>12. LostLive' BY <1>1, <1>7, <1>9 DEF IInv, LostLive
<1>13. MatchCollation' BY <1>1 DEF IInv, MatchCollation
<1> QED BY <1>5, <1>6, <1>7, <1>8, <1>10, <1>11, <1>12, <1>13 DEF IInv

(* A pattern that does not compile leaves all but the collation alone.     *)
LEMMA CompileErrorStep ==
  ASSUME IInv, NEW p \in Patterns, NEW c \in Collations, CompileError(p, c)
  PROVE  IInv'
<1>1. /\ UNCHANGED <<cache_slots, cache_clock, mem, stack, arm_depth, deadline, matched,
                     armed, stray, lost>>
      /\ pgt_collation' = c
  BY DEF CompileError
<1>2. Types' BY <1>1 DEF IInv, Types, SlotTypes
<1>3. CachedLive' /\ CachedOnce' BY <1>1 DEF IInv, CachedLive, CachedOnce
<1>4. PinnedHandleLive' /\ LostLive' /\ MatchCollation' BY <1>1 DEF IInv, PinnedHandleLive, LostLive, MatchCollation
<1>5. Cached' = Cached /\ Top' = Top /\ Reentrant' = Reentrant /\ InPhase("pinned")' = InPhase("pinned")
  BY <1>1 DEF Cached, Top, Reentrant, InPhase
<1>6. UncachedOwned' BY <1>1, <1>5 DEF IInv, UncachedOwned
<1>7. PinsCounted' BY <1>1 DEF IInv, PinsCounted, Users
<1>8. Nesting' /\ DepthCounts' BY <1>1, <1>5 DEF IInv, Nesting, DepthCounts
<1>9. JustPinned' BY <1>1, <1>5 DEF IInv, JustPinned
<1> QED BY <1>2, <1>3, <1>4, <1>6, <1>7, <1>8, <1>9 DEF IInv

(* A step that changes nothing keeps the invariant.                        *)
LEMMA StutterStep ==
  ASSUME IInv, UNCHANGED vars
  PROVE  IInv'
<1>1. UNCHANGED <<cache_slots, cache_clock, mem, stack, pgt_collation, arm_depth, deadline, matched,
                  armed, stray, lost>>
  BY DEF vars
<1>2. Types' BY <1>1 DEF IInv, Types, SlotTypes
<1>3. CachedLive' /\ CachedOnce' BY <1>1 DEF IInv, CachedLive, CachedOnce
<1>4. PinnedHandleLive' /\ LostLive' /\ MatchCollation' BY <1>1 DEF IInv, PinnedHandleLive, LostLive, MatchCollation
<1>5. Cached' = Cached /\ Top' = Top /\ Reentrant' = Reentrant /\ InPhase("pinned")' = InPhase("pinned")
  BY <1>1 DEF Cached, Top, Reentrant, InPhase
<1>6. UncachedOwned' BY <1>1, <1>5 DEF IInv, UncachedOwned
<1>7. PinsCounted' BY <1>1 DEF IInv, PinsCounted, Users
<1>8. Nesting' /\ DepthCounts' BY <1>1, <1>5 DEF IInv, Nesting, DepthCounts
<1>9. JustPinned' BY <1>1, <1>5 DEF IInv, JustPinned
<1> QED BY <1>2, <1>3, <1>4, <1>6, <1>7, <1>8, <1>9 DEF IInv

(* The invariant holds in every state a backend can be in.                 *)
THEOREM Inductive == Spec => []IInv
<1>1. Init => IInv BY InitInv
<1>2. IInv /\ [Next]_vars => IInv'
  <2> SUFFICES ASSUME IInv, [Next]_vars PROVE IInv' OBVIOUS
  <2>1. ASSUME NEW p \in Patterns, NEW c \in Collations, Udf(p, c) PROVE IInv' BY <2>1, UdfStep
  <2>2. ASSUME NEW p \in Patterns, NEW c \in Collations, CompileError(p, c) PROVE IInv' BY <2>2, CompileErrorStep
  <2>3. ASSUME NEW p \in Patterns, NEW c \in Collations, KnnPin(p, c) PROVE IInv' BY <2>3, KnnPinStep
  <2>4. CASE KnnErrorBeforeTry BY <2>4, KnnErrorBeforeTryStep
  <2>5. CASE KnnTry
    <3>1. /\ stack # <<>> /\ Top.phase # "loop" /\ Enter("try")
          /\ UNCHANGED <<cache_slots, cache_clock, mem, pgt_collation, arm_depth, deadline, matched,
                         armed, stray, lost>>
      BY <2>5 DEF KnnTry, InPhase
    <3>2. arm_depth' \in Nat /\ deadline' \in BOOLEAN BY <3>1 DEF IInv, Types
    <3>3. DepthCounts' BY <3>1 DEF IInv, DepthCounts
    <3> QED BY <3>1, <3>2, <3>3, EnterStep
  <2>6. CASE KnnArm
    <3>1. /\ stack # <<>> /\ Top.phase # "loop" /\ Enter("loop")
          /\ UNCHANGED <<cache_slots, cache_clock, mem, pgt_collation, matched, stray, lost>>
      BY <2>6 DEF KnnArm, InPhase
    <3>2. /\ arm_depth' \in Nat /\ deadline' \in BOOLEAN /\ DepthCounts'
          /\ armed' \subseteq armed \cup {Len(stack)}
      BY <2>6, KnnArmDepth
    <3> QED BY <3>1, <3>2, EnterStep
  <2>7. CASE KnnMatch BY <2>7, KnnMatchStep
  <2>8. CASE KnnFinally BY <2>8, KnnFinallyStep
  <2>9. CASE UNCHANGED vars BY <2>9, StutterStep
  <2> QED BY <2>1, <2>2, <2>3, <2>4, <2>5, <2>6, <2>7, <2>8, <2>9 DEF Next
<1> QED BY <1>1, <1>2, PTL DEF Spec

(* The cache, its clock, the memory and the stack of scans keep their      *)
(* types.                                                                  *)
THEOREM TypeCorrect == Spec => []TypeOK
<1>1. IInv => TypeOK BY TypesTypeOK DEF IInv
<1> QED BY <1>1, Inductive, PTL

(* A scan's handle stays the pattern it looked up, whatever the calls      *)
(* nested in its loop look up, evict and release: tre_cache_lookup_pinned  *)
(* keeps it out of evict_slot's reach.                                     *)
THEOREM HandlesLive == Spec => []PinnedHandleLive
<1>1. IInv => PinnedHandleLive BY DEF IInv
<1> QED BY <1>1, Inductive, PTL

(* Each slot has exactly the pins of the scans that hold its handle and of *)
(* those that failed before their PG_TRY.                                  *)
THEOREM PinsBalance == Spec => []PinsCounted
<1>1. IInv => PinsCounted BY DEF IInv
<1> QED BY <1>1, Inductive, PTL

(* Every match runs under the collation its pattern was compiled for.      *)
THEOREM MatchesUnderOwnCollation == Spec => []MatchCollation
<1>1. IInv => MatchCollation BY DEF IInv
<1> QED BY <1>1, Inductive, PTL

(* The match deadline is armed only while some scan that armed it is in    *)
(* its loop, and throughout, as long as no call with the timeout off took  *)
(* away a depth that pg_tre_arm_match_deadline had not given it.           *)
THEOREM DeadlineArmed == Spec => []DeadlineCovers
<1>1. IInv => DeadlineCovers
  <2> SUFFICES ASSUME IInv PROVE DeadlineCovers OBVIOUS
  <2>1. IsFiniteSet(armed) /\ Cardinality(armed) \in Nat /\ arm_depth \in Nat
    BY ArmedFinite DEF IInv, Types
  <2>2. Cardinality(armed) = 0 <=> armed = {} BY <2>1, FS_EmptySet
  <2>3. deadline => armed # {} BY <2>1, <2>2 DEF IInv, DepthCounts
  <2>4. armed # {} /\ ~stray => deadline BY <2>1, <2>2 DEF IInv, DepthCounts
  <2> QED BY <2>3, <2>4 DEF DeadlineCovers
<1> QED BY <1>1, Inductive, PTL

(* Memory becomes unreachable only in a step that finds every slot pinned. *)
LEMMA NoNewOrphan ==
  ASSUME IInv, [Next]_vars, NEW g \in Handles, g \in Orphans', g \notin Orphans
  PROVE  \A i \in Slots : cache_slots[i].pinned > 0
<1>0. /\ mem'[g] # Freed /\ g \notin Cached' /\ UsersOf(stack', g) = {}
      /\ mem[g] = Freed \/ g \in Cached \/ UsersOf(stack, g) # {}
  BY DEF Orphans, Users, UsersOf
<1>1. stack \in Seq(Frames) BY DEF IInv, Types
<1>2. ASSUME stack' = stack, mem' = mem, Cached' = Cached PROVE FALSE BY <1>0, <1>2
<1>3. ASSUME NEW p \in Patterns, NEW c \in Collations, NEW pin \in BOOLEAN, NEW h \in Handles,
             cache_clock < MaxClock, Lookup(p, c, pin, h),
             UsersOf(stack, g) \subseteq UsersOf(stack', g), h # g \/ stack' = stack
      PROVE  \A i \in Slots : cache_slots[i].pinned > 0
  <2>1. LookedUp(p, c, pin, h) BY <1>3, LookupFacts
  <2>2. UsersOf(stack, g) = {} BY <1>0, <1>3
  <2>3. g = h BY <1>0, <2>1, <2>2 DEF LookedUp
  <2> QED BY <1>0, <2>1, <2>3 DEF LookedUp
<1>4. ASSUME NEW p \in Patterns, NEW c \in Collations, Udf(p, c)
      PROVE  \A i \in Slots : cache_slots[i].pinned > 0
  <2>1. PICK h \in Handles : Lookup(p, c, FALSE, h) /\ stack' = stack /\ cache_clock < MaxClock BY <1>4 DEF Udf
  <2> QED BY <2>1, <1>3
<1>5. ASSUME NEW p \in Patterns, NEW c \in Collations, KnnPin(p, c)
      PROVE  \A i \in Slots : cache_slots[i].pinned > 0
  <2>1. PICK h \in Handles : Lookup(p, c, TRUE, h) /\ stack' = Append(stack, Frame(p, c, h)) /\ cache_clock < MaxClock
    BY <1>5 DEF KnnPin
  <2>2. LookedUp(p, c, TRUE, h) BY <2>1, LookupFacts
  <2>3. Frame(p, c, h) \in Frames /\ Frame(p, c, h).compiled = h BY <2>2 DEF LookedUp, Frame, Frames
  <2>4. UsersOf(stack', g) = UsersOf(stack, g) \cup (IF h = g THEN {Len(stack) + 1} ELSE {})
    BY <1>1, <2>1, <2>3, PushUsers
  <2> QED BY <1>0, <1>3, <2>1, <2>4
<1>6. CASE KnnErrorBeforeTry
  <2>1. stack # <<>> /\ stack' = Pop /\ Top.phase = "pinned" /\ mem' = mem /\ Cached' = Cached
    BY <1>6 DEF KnnErrorBeforeTry, InPhase, Cached
  <2>2. UsersOf(stack', g) = UsersOf(stack, g) \ {Len(stack)} BY <1>1, <2>1, PopUsers DEF Pop
  <2>3. Len(stack) \in UsersOf(stack, g) BY <1>0, <2>1, <2>2
  <2>4. Top.compiled = g BY <2>3 DEF UsersOf, Top
  <2> QED BY <1>0, <2>1, <2>4 DEF IInv, JustPinned, InPhase
<1>7. CASE KnnFinally
  <2>1. /\ stack # <<>> /\ stack' = Pop /\ Release(Top.compiled) /\ lost' = lost /\ cache_clock' = cache_clock
    BY <1>7 DEF KnnFinally, InPhase
  <2>2. PICK h \in Handles : h = Top.compiled BY <2>1, PopFacts DEF Frames
  <2>3. UsersOf(stack', g) = UsersOf(stack, g) \ {Len(stack)} BY <1>1, <2>1, PopUsers DEF Pop
  <2>4. h # g => UsersOf(stack, g) = {}
    <3>1. Len(stack) \in UsersOf(stack, g) => h = g BY <2>2 DEF UsersOf, Top
    <3> QED BY <1>0, <2>3, <3>1
  <2>5. CASE h \in Cached
    <3>1. Cached' = Cached /\ mem' = mem BY <2>5, <2>1, <2>2, ReleaseCached
    <3> QED BY <3>1, <2>4, <2>5, <1>0
  <2>6. CASE h \notin Cached
    <3>1. Cached' = Cached /\ mem'[h] = Freed /\ \A x \in Handles \ {h} : mem'[x] = mem[x]
      BY <2>6, <2>1, <2>2, ReleaseUncached
    <3> QED BY <3>1, <2>4, <1>0
  <2> QED BY <2>5, <2>6
<1>8. ASSUME NEW ph \in {"try", "loop"}, stack # <<>>, Enter(ph), mem' = mem, Cached' = Cached
      PROVE  FALSE
  <2>1. Len(stack) \in DOMAIN stack /\ Top \in Frames BY <1>1, <1>8 DEF Top
  <2>2. PICK f : f = [Top EXCEPT !.phase = ph] OBVIOUS
  <2>3. f.compiled = Top.compiled BY <2>1, <2>2 DEF Frames
  <2>4. stack' = [stack EXCEPT ![Len(stack)] = f] BY <1>1, <1>8, <2>2 DEF Enter, Top
  <2>5. UsersOf(stack', g) = UsersOf(stack, g) BY <1>1, <2>1, <2>3, <2>4 DEF UsersOf, Top
  <2> QED BY <1>0, <1>8, <2>5
<1>9. CASE KnnTry \/ KnnArm
  <2>1. mem' = mem /\ Cached' = Cached /\ stack # <<>> /\ (Enter("try") \/ Enter("loop"))
    BY <1>9 DEF KnnTry, KnnArm, Cached, InPhase
  <2> QED BY <2>1, <1>8
<1>10. CASE KnnMatch
  <2>1. stack' = stack /\ mem' = mem /\ Cached' = Cached BY <1>10 DEF KnnMatch, Cached
  <2> QED BY <2>1, <1>2
<1>11. ASSUME NEW p \in Patterns, NEW c \in Collations, CompileError(p, c)
       PROVE  \A i \in Slots : cache_slots[i].pinned > 0
  <2>1. stack' = stack /\ mem' = mem /\ Cached' = Cached BY <1>11 DEF CompileError, Cached
  <2> QED BY <2>1, <1>2
<1>12. CASE UNCHANGED vars
  <2>1. stack' = stack /\ mem' = mem /\ Cached' = Cached BY <1>12 DEF vars, Cached
  <2> QED BY <2>1, <1>2
<1> QED BY <1>4, <1>5, <1>6, <1>7, <1>9, <1>10, <1>11, <1>12 DEF Next

(* tre_cache_lookup leaks a compiled pattern only when every slot is       *)
(* pinned, as its comment says.                                            *)
THEOREM LeakBounded == Spec => LeaksOnlyWhenAllPinned
<1>1. IInv /\ [Next]_vars =>
        [Orphans' \subseteq Orphans \/ \A i \in Slots : cache_slots[i].pinned > 0]_vars
  <2> SUFFICES ASSUME IInv, [Next]_vars, ~(Orphans' \subseteq Orphans)
               PROVE  \A i \in Slots : cache_slots[i].pinned > 0
    OBVIOUS
  <2>1. PICK g : g \in Orphans' /\ g \notin Orphans OBVIOUS
  <2>2. g \in Handles BY <2>1 DEF Orphans
  <2> QED BY <2>1, <2>2, NoNewOrphan
<1> QED BY <1>1, Inductive, PTL DEF Spec, LeaksOnlyWhenAllPinned
==============================================================================
