----------------------------- MODULE PatternCache -----------------------------
(***************************************************************************)
(* The per-session cache of compiled patterns (pattern_cache.c) and its    *)
(* users in one backend: the SQL functions, which look a pattern up and    *)
(* match at once, and the ordered scan (knn_build), which keeps a handle   *)
(* pinned over a loop that may re-enter the backend and so nest.  With the *)
(* cache go the two globals the users share, the collation TRE classifies  *)
(* characters by and the armed match deadline (module.c).                  *)
(*                                                                         *)
(* A handle is an address, which malloc may give out again after a free.   *)
(* An unused definition above one with the same parameters is a faulty     *)
(* variant of it.                                                          *)
(***************************************************************************)
EXTENDS Integers, Sequences, FiniteSets

CONSTANTS
    N,              \* TRE_CACHE_SLOTS
    Patterns,
    Rejected,       \* patterns that do not compile, or to too many states
    Collations,
    Timeouts,       \* is match_timeout_ms positive, for a call: TRUE, FALSE or either
    Handles,        \* bound: addresses
    MaxDepth,       \* bound: nested ordered scans
    MaxClock,       \* bound: cache_clock
    MaxLost         \* bound: errors between a scan's lookup and its PG_TRY

Null == "null"

ASSUME CacheAssumption ==
    /\ N \in Nat \ {0} /\ MaxDepth \in Nat /\ MaxClock \in Nat /\ MaxLost \in Nat
    /\ Rejected \subseteq Patterns
    /\ Timeouts \subseteq BOOLEAN
    /\ Null \notin Handles /\ Null \notin Collations

VARIABLES
    cache_slots,    \* [pattern, collation, compiled, last_used, pinned]
    cache_clock,
    mem,            \* what is allocated at an address: [pattern, collation] or Freed
    stack,          \* ordered scans under way, innermost last
    pgt_collation,
    arm_depth, deadline,        \* pg_tre_match_arm_depth; is a deadline armed
    matched,        \* history: the last match: its handle's collation and the one set
    armed,          \* history: the scans of stack whose arming raised the depth
    stray,          \* history: a call that had not armed lowered the depth under them
    lost            \* history: pins of scans that failed before their PG_TRY

vars == <<cache_slots, cache_clock, mem, stack, pgt_collation, arm_depth, deadline, matched,
          armed, stray, lost>>

Slots == 1 .. N
Key(p, c) == [pattern |-> p, collation |-> c]
Freed == Key(Null, Null)
Empty == [pattern |-> Null, collation |-> Null, compiled |-> Null, last_used |-> 0, pinned |-> 0]

Top == stack[Len(stack)]
Pop == SubSeq(stack, 1, Len(stack) - 1)

Init ==
    /\ cache_slots = [i \in Slots |-> Empty] /\ cache_clock = 0
    /\ mem = [h \in Handles |-> Freed]
    /\ stack = <<>> /\ pgt_collation = Null
    /\ arm_depth = 0 /\ deadline = FALSE /\ armed = {} /\ stray = FALSE
    /\ matched = [compiled |-> Null, set |-> Null] /\ lost = [h \in Handles |-> 0]

-----------------------------------------------------------------------------
(* tre_cache_lookup_internal                                               *)

Hit(p, c) ==
    {i \in Slots : /\ cache_slots[i].compiled # Null
                   /\ cache_slots[i].pattern = p /\ cache_slots[i].collation = c}

(* The slot a new entry goes to: the first empty one, else the least       *)
(* recently used that is not pinned; none if every slot is pinned.         *)
LeastRecent(S) == {i \in S : \A j \in S : cache_slots[i].last_used <= cache_slots[j].last_used}
TargetIgnoringPins ==
    LET empty == {i \in Slots : cache_slots[i].compiled = Null}
    IN IF empty # {} THEN {i \in empty : \A j \in empty : i <= j} ELSE LeastRecent(Slots)
Target ==
    LET empty == {i \in Slots : cache_slots[i].compiled = Null}
    IN IF empty # {} THEN {i \in empty : \A j \in empty : i <= j}
       ELSE LeastRecent({i \in Slots : cache_slots[i].pinned = 0})

(* evict_slot frees what the slot held.                                    *)
EvictKeeps(m, i) == m
Evict(m, i) == [h \in Handles |-> IF h = cache_slots[i].compiled THEN Freed ELSE m[h]]

(* ++cache_clock                                                           *)
Tick == cache_clock + 1

(* The lookup returns handle h: found, or compiled (at a free address) and *)
(* cached, or compiled and not cached.                                     *)
Lookup(p, c, pin, h) ==
    \/ \E i \in Hit(p, c) :
         /\ h = cache_slots[i].compiled
         /\ cache_clock' = Tick
         /\ cache_slots' = [cache_slots EXCEPT ![i].last_used = cache_clock',
                                               ![i].pinned = IF pin THEN @ + 1 ELSE @]
         /\ UNCHANGED mem
    \/ /\ Hit(p, c) = {} /\ p \notin Rejected /\ mem[h] = Freed
       /\ LET compiled == [mem EXCEPT ![h] = Key(p, c)] IN
          \/ /\ Target = {}
             /\ mem' = compiled
             /\ UNCHANGED <<cache_slots, cache_clock>>
          \/ \E i \in Target :
             /\ mem' = Evict(compiled, i)
             /\ cache_clock' = Tick
             /\ cache_slots' = [cache_slots EXCEPT ![i] =
                   [pattern |-> p, collation |-> c, compiled |-> h,
                    last_used |-> cache_clock', pinned |-> IF pin THEN 1 ELSE 0]]

(* Compiling sets the collation; a hit leaves it.                          *)
CollationAfterLookup(p, c) == IF Hit(p, c) = {} THEN c ELSE pgt_collation

(* tre_cache_release: unpin the slot that has the handle, or free it.      *)
ReleaseNothing(h) == UNCHANGED <<cache_slots, mem>>
Release(h) ==
    LET held == {i \in Slots : cache_slots[i].compiled = h}
    IN IF held = {}
       THEN mem' = [mem EXCEPT ![h] = Freed] /\ UNCHANGED cache_slots
       ELSE /\ cache_slots' = [i \in Slots |->
                 IF i \in held /\ cache_slots[i].pinned > 0
                 THEN [cache_slots[i] EXCEPT !.pinned = @ - 1] ELSE cache_slots[i]]
            /\ UNCHANGED mem

-----------------------------------------------------------------------------
(* module.c: the collation in force and the match deadline, which nested   *)
(* users share.                                                            *)

KeepCollation(now, c) == IF now = Null THEN c ELSE now
SetCollation(now, c) == c

(* pg_tre_arm_match_deadline returns early while the timeout is off, and   *)
(* pg_tre_disarm_match_deadline does not know: it lowers the depth for     *)
(* every caller and takes the deadline down with the last.  These are the  *)
(* depth after either, and the deadline after a disarm.                    *)
Armed(on, depth) == IF on THEN depth + 1 ELSE depth
Disarmed(depth) == IF depth = 0 THEN 0 ELSE depth - 1
NeverArmed(now, depth) == FALSE
StillArmed(now, depth) == now /\ depth # 1

Ran(h, c) == [compiled |-> mem'[h].collation, set |-> c]

InPhase(ph) == stack # <<>> /\ Top.phase = ph

(* Where other code of the backend runs: outside any scan, or inside the   *)
(* loop of the innermost one.                                              *)
Reentrant == stack = <<>> \/ InPhase("loop")

(* A SQL function: an unpinned lookup and pg_tre_match_guarded, which arms *)
(* and disarms around the match; nothing else runs in between.  With the   *)
(* timeout off only the disarm counts, and it is the scan's around it.     *)
Udf(p, c) ==
    /\ Reentrant /\ cache_clock < MaxClock
    /\ \E h \in Handles :
         /\ Lookup(p, c, FALSE, h)
         /\ pgt_collation' = SetCollation(CollationAfterLookup(p, c), c)
         /\ matched' = Ran(h, pgt_collation')
    /\ \E on \in Timeouts :
         /\ arm_depth' = Disarmed(Armed(on, arm_depth))
         /\ deadline' = StillArmed(on \/ deadline, Armed(on, arm_depth))
         /\ stray' = (stray \/ (~on /\ arm_depth > 0))
    /\ UNCHANGED <<stack, armed, lost>>

(* A lookup, by anyone, of a pattern that does not compile.                *)
CompileError(p, c) ==
    /\ Reentrant /\ p \in Rejected
    /\ pgt_collation' = c
    /\ UNCHANGED <<cache_slots, cache_clock, mem, stack, arm_depth, deadline, matched,
                   armed, stray, lost>>

-----------------------------------------------------------------------------
(* knn_build of an ordered scan, the innermost of those under way.         *)

Frame(p, c, h) == [pattern |-> p, collation |-> c, compiled |-> h, phase |-> "pinned"]
Enter(ph) == stack' = [stack EXCEPT ![Len(stack)].phase = ph]

KnnPin(p, c) ==
    /\ Reentrant /\ Len(stack) < MaxDepth /\ cache_clock < MaxClock
    /\ \E h \in Handles :
         /\ Lookup(p, c, TRUE, h)
         /\ stack' = Append(stack, Frame(p, c, h))
    /\ pgt_collation' = CollationAfterLookup(p, c)
    /\ UNCHANGED <<arm_depth, deadline, matched, armed, stray, lost>>

(* An error in opening the heap or in allocating, before PG_TRY.           *)
KnnErrorBeforeTry ==
    /\ InPhase("pinned") /\ lost[Top.compiled] < MaxLost
    /\ stack' = Pop
    /\ lost' = [lost EXCEPT ![Top.compiled] = @ + 1]
    /\ UNCHANGED <<cache_slots, cache_clock, mem, pgt_collation, arm_depth, deadline, matched,
                   armed, stray>>

KnnTry ==
    /\ InPhase("pinned") /\ Enter("try")
    /\ UNCHANGED <<cache_slots, cache_clock, mem, pgt_collation, arm_depth, deadline, matched,
                   armed, stray, lost>>

(* pg_tre_arm_match_deadline, once the candidates are known; the scan      *)
(* takes itself to have armed (deadline_armed) whatever that call did.     *)
KnnArm ==
    /\ InPhase("try") /\ Enter("loop")
    /\ \E on \in Timeouts :
         /\ arm_depth' = Armed(on, arm_depth)
         /\ deadline' = (on \/ deadline)
         /\ armed' = IF on THEN armed \cup {Len(stack)} ELSE armed
    /\ UNCHANGED <<cache_slots, cache_clock, mem, pgt_collation, matched, stray, lost>>

KnnMatch ==
    /\ InPhase("loop")
    /\ pgt_collation' = SetCollation(pgt_collation, Top.collation)
    /\ UNCHANGED mem
    /\ matched' = Ran(Top.compiled, pgt_collation')
    /\ UNCHANGED <<cache_slots, cache_clock, stack, arm_depth, deadline, armed, stray, lost>>

(* PG_FINALLY, at the end of the loop or on an error inside PG_TRY.        *)
KnnFinally ==
    /\ InPhase("try") \/ InPhase("loop")
    /\ arm_depth' = IF Top.phase = "loop" THEN Disarmed(arm_depth) ELSE arm_depth
    /\ deadline' = IF Top.phase = "loop" THEN StillArmed(deadline, arm_depth) ELSE deadline
    /\ armed' = armed \ {Len(stack)}
    /\ stray' = (/\ armed' # {}
                 /\ stray \/ (Top.phase = "loop" /\ Len(stack) \notin armed /\ arm_depth > 0))
    /\ Release(Top.compiled)
    /\ stack' = Pop
    /\ UNCHANGED <<cache_clock, pgt_collation, matched, lost>>

Next ==
    \/ \E p \in Patterns, c \in Collations : Udf(p, c) \/ CompileError(p, c) \/ KnnPin(p, c)
    \/ KnnErrorBeforeTry \/ KnnTry \/ KnnArm \/ KnnMatch \/ KnnFinally

Spec == Init /\ [][Next]_vars

-----------------------------------------------------------------------------
Keys == [pattern : Patterns \ Rejected, collation : Collations]

(* Types; an empty slot has no pins and never was used.                    *)
TypeOK ==
    /\ \A i \in Slots : \/ cache_slots[i] = Empty
                         \/ /\ cache_slots[i].compiled \in Handles
                            /\ Key(cache_slots[i].pattern, cache_slots[i].collation) \in Keys
                            /\ cache_slots[i].last_used \in 1 .. cache_clock
                            /\ cache_slots[i].pinned \in Nat
    /\ cache_clock \in 0 .. MaxClock
    /\ mem \in [Handles -> Keys \cup {Freed}]
    /\ \A k \in DOMAIN stack :
         stack[k] \in [pattern : Patterns \ Rejected, collation : Collations,
                      compiled : Handles, phase : {"pinned", "try", "loop"}]
    /\ pgt_collation \in Collations \cup {Null}
    /\ arm_depth \in Nat /\ deadline \in BOOLEAN
    /\ armed \subseteq DOMAIN stack /\ stray \in BOOLEAN

Users(h) == {k \in DOMAIN stack : stack[k].compiled = h}
Cached == {cache_slots[i].compiled : i \in Slots} \ {Null}

(* A scan's handle stays the pattern it looked up, compiled under its      *)
(* collation, however many patterns the calls nested in its loop look up:  *)
(* never freed under it, never an address given out again.                 *)
PinnedHandleLive ==
    \A k \in DOMAIN stack : mem[stack[k].compiled] = Key(stack[k].pattern, stack[k].collation)

(* A slot has one pin for each scan that holds its handle, and those that  *)
(* scans failing before their PG_TRY left behind: every other way out of a *)
(* scan gives its pin back, once.                                          *)
PinsCounted ==
    \A i \in Slots :
        LET h == cache_slots[i].compiled
        IN h # Null => cache_slots[i].pinned = Cardinality(Users(h)) + lost[h]

(* A match runs under the collation its pattern was compiled for, although *)
(* the collation is a global that every compile and match sets.            *)
MatchCollation == matched.compiled = matched.set

(* No deadline outlives the outermost scan that armed one, and the one a   *)
(* scan armed stays armed through the matches of the calls nested in its   *)
(* loop, unless one of these ran with the timeout off: such a call lowers  *)
(* the depth it did not raise (stray), and the rest of the outer scan may  *)
(* then run without a deadline, until no scan that armed is left.          *)
DeadlineCovers ==
    /\ deadline => armed # {}
    /\ armed # {} /\ ~stray => deadline

(* Compiled patterns nobody can reach.                                     *)
Orphans == {h \in Handles : mem[h] # Freed /\ h \notin Cached /\ Users(h) = {}}

(* "this leaks one compile, which is [...] bounded by the (rare)           *)
(* all-pinned condition": memory is lost only in a step that finds every   *)
(* slot pinned.                                                            *)
LeaksOnlyWhenAllPinned ==
    [][Orphans' \subseteq Orphans \/ \A i \in Slots : cache_slots[i].pinned > 0]_vars
==============================================================================
