----------------------------- MODULE PostingChain -----------------------------
(***************************************************************************)
(* One posting of a pg_tre index (the TIDs of one trigram), at the level   *)
(* of its pages: how a build stores it (inline in the upper leaf, on a     *)
(* coalesced page, or as a chain of posting leaves), how VACUUM strips it  *)
(* page by page, unlinking emptied leaves under lock coupling, and how     *)
(* scans walk it with one page lock at a time and copied links.            *)
(*                                                                         *)
(* A serialised sparsemap is the set of its TIDs; its size is the number   *)
(* of runs of consecutive TIDs, which is what makes a posting grow when a  *)
(* TID is taken out of the middle of a run.  One action is one page        *)
(* access under its buffer lock or one WAL record.  An unused definition   *)
(* above one with the same parameters is a faulty variant of it.           *)
(***************************************************************************)
EXTENDS Integers, Sequences, FiniteSets

CONSTANTS
    MaxTid,         \* TIDs are 1 .. MaxTid, packed
    Layouts,        \* the page sizes and settings an index may be built with
    Scanners,
    MaxFaults       \* bound: crashes

ASSUME ChainAssumption ==
    /\ MaxTid \in Nat \ {0} /\ MaxFaults \in Nat
    /\ \A l \in Layouts :
         /\ l \in [inlineMax : Nat, coalesceMax : Nat, leafBudget : Nat \ {0}]
         /\ l.inlineMax <= l.leafBudget

VARIABLES
    layout,         \* the one this index has
    entry,          \* the upper leaf's entry: [kind, root, tids]
    leaf,           \* posting leaves: [tids, right_link, deleted]
    held,           \* pages VACUUM holds locked; 0 is the upper leaf
    pc, dead,       \* VACUUM: where it is, the TIDs its callback reports dead
    prev, cur, next, remaining,     \* locals of posting_tree_delete
    n_removed, n_remaining,         \* what ambulkdelete reports
    at, blk, acc,   \* scans: phase, next leaf, TIDs found
    must,           \* history: TIDs the scan has to find
    before,         \* history: TIDs in the posting when VACUUM began
    faults

chainVars == <<layout, entry, leaf>>
vacVars   == <<held, pc, dead, prev, cur, next, remaining, n_removed, n_remaining, before>>
scanVars  == <<at, blk, acc, must>>
vars == <<chainVars, vacVars, scanVars, faults>>

InlineMax   == layout.inlineMax     \* PG_TRE_INLINE_POSTING_MAX
CoalesceMax == layout.coalesceMax   \* PG_TRE_COALESCE_MAX; 0 if coalescing is off
LeafBudget  == layout.leafBudget    \* posting_leaf_budget()

Tids == 1 .. MaxTid
Invalid == 0
UpperLeaf == 0

SmSize(S) == Cardinality({t \in S : t - 1 \notin S})
UpTo(S, m) == {t \in S : t <= m}

-----------------------------------------------------------------------------
(* pg_tre_posting_build_finish_ex.                                         *)

(* leaf_fill_count: the longest ascending prefix that fits, at least one.  *)
LeafFill(S) ==
    LET fit == {m \in S : SmSize(UpTo(S, m)) <= LeafBudget}
    IN UpTo(S, IF fit = {} THEN CHOOSE m \in S : \A t \in S : m <= t
               ELSE CHOOSE m \in fit : \A t \in fit : t <= m)

Slices[S \in SUBSET Tids] ==
    IF S = {} THEN <<>> ELSE <<LeafFill(S)>> \o Slices[S \ LeafFill(S)]

(* Each leaf is linked to the one written before it, so the chain starts   *)
(* with the highest TIDs.                                                  *)
WrittenChain(S) ==
    [i \in DOMAIN Slices[S] |-> [tids |-> Slices[S][i], right_link |-> i - 1, deleted |-> FALSE]]

Out(kind, root, tids) == [kind |-> kind, root |-> root, tids |-> tids]

Built(S) ==
    IF SmSize(S) <= InlineMax THEN <<Out("inline", Invalid, S), <<>>>>
    ELSE IF SmSize(S) <= CoalesceMax /\ SmSize(S) <= LeafBudget
         THEN <<Out("coalesced", Invalid, S), <<>>>>
    ELSE <<Out("chain", Len(Slices[S]), {}), WrittenChain(S)>>

-----------------------------------------------------------------------------
(* What pg_tre_posting_materialize finds, were it to run in one step: the  *)
(* leaves that a chain of leaves links from a block on, and their TIDs.    *)
Linked(c) == LET f[b \in 0 .. Len(c)] ==
                   IF b = Invalid THEN {} ELSE {b} \cup f[c[b].right_link]
             IN f
From(c, b) == UNION {c[x].tids : x \in Linked(c)[b]}
Posting == IF entry.kind = "chain" THEN From(leaf, entry.root) ELSE entry.tids

Init ==
    /\ layout \in Layouts
    /\ \E S \in (SUBSET Tids) \ {{}} : entry = Built(S)[1] /\ leaf = Built(S)[2]
    /\ held = {} /\ pc = "idle" /\ dead = {}
    /\ prev = Invalid /\ cur = Invalid /\ next = Invalid /\ remaining = 0
    /\ n_removed = 0 /\ n_remaining = 0 /\ before = {}
    /\ at = [s \in Scanners |-> "idle"] /\ blk = [s \in Scanners |-> Invalid]
    /\ acc = [s \in Scanners |-> {}] /\ must = [s \in Scanners |-> {}]
    /\ faults = 0

-----------------------------------------------------------------------------
(* VACUUM: posting_upper_walk at this posting's upper leaf.                *)

BulkDelete(D) ==
    /\ pc = "idle" /\ D # {}
    /\ pc' = "upper" /\ dead' = D /\ held' = {UpperLeaf}
    /\ n_removed' = 0 /\ n_remaining' = 0 /\ before' = Posting
    /\ must' = [s \in Scanners |-> must[s] \ D]
    /\ UNCHANGED <<chainVars, prev, cur, next, remaining, at, blk, acc, faults>>

(* repack_inline_posting and posting_leaf_inline_delete: survivors stay    *)
(* inline if they are not larger than the old blob; else they migrate to a *)
(* leaf of their own.                                                      *)
Shrinks(S, K) == SmSize(K) <= SmSize(S)

InlineRepack ==
    LET keep == entry.tids \ dead IN
    /\ pc = "upper" /\ entry.kind = "inline" /\ Shrinks(entry.tids, keep)
    /\ entry' = [entry EXCEPT !.tids = keep]
    /\ n_removed' = Cardinality(entry.tids \cap dead)
    /\ n_remaining' = Cardinality(keep)
    /\ held' = {} /\ pc' = "done"
    /\ UNCHANGED <<layout, leaf, dead, prev, cur, next, remaining, before, scanVars, faults>>

(* write_single_leaf for the survivors; the upper leaf stays locked.       *)
MigrateWrite ==
    LET keep == entry.tids \ dead IN
    /\ pc = "upper" /\ entry.kind = "inline" /\ ~Shrinks(entry.tids, keep)
    /\ SmSize(keep) <= LeafBudget
    /\ leaf' = Append(leaf, [tids |-> keep, right_link |-> Invalid, deleted |-> FALSE])
    /\ pc' = "repoint"
    /\ UNCHANGED <<layout, entry, held, dead, prev, cur, next, remaining, n_removed, n_remaining,
                   before, scanVars, faults>>

MigrateRepoint ==
    /\ pc = "repoint"
    /\ n_removed' = Cardinality(entry.tids \cap dead)
    /\ n_remaining' = Cardinality(entry.tids \ dead)
    /\ entry' = Out("chain", Len(leaf), {})
    /\ held' = {} /\ pc' = "done"
    /\ UNCHANGED <<layout, leaf, dead, prev, cur, next, remaining, before, scanVars, faults>>

(* Survivors that fit neither: the blob is kept as it is.                  *)
InlineKept ==
    LET keep == entry.tids \ dead IN
    /\ pc = "upper" /\ entry.kind = "inline" /\ ~Shrinks(entry.tids, keep)
    /\ SmSize(keep) > LeafBudget
    /\ n_remaining' = Cardinality(entry.tids)
    /\ held' = {} /\ pc' = "done"
    /\ UNCHANGED <<chainVars, dead, prev, cur, next, remaining, n_removed, before,
                   scanVars, faults>>

(* A coalesced posting is skipped.                                         *)
CoalescedSkipped ==
    /\ pc = "upper" /\ entry.kind = "coalesced"
    /\ held' = {} /\ pc' = "done"
    /\ UNCHANGED <<chainVars, dead, prev, cur, next, remaining, n_removed, n_remaining,
                   before, scanVars, faults>>

-----------------------------------------------------------------------------
(* posting_tree_delete: the predecessor stays locked while the current     *)
(* leaf is repacked and, if that empties it, unlinked.                     *)

ChainStart ==
    /\ pc = "upper" /\ entry.kind = "chain"
    /\ cur' = entry.root /\ prev' = Invalid
    /\ held' = {} /\ pc' = "leaf"
    /\ UNCHANGED <<chainVars, dead, next, remaining, n_removed, n_remaining, before,
                   scanVars, faults>>

(* posting_leaf_delete: one WAL record, or none if nothing is dead or the  *)
(* survivors no longer fit the page.                                       *)
AlwaysFits(K) == TRUE
FitsWithSlack(K) == SmSize(K) < LeafBudget
FitsLeaf(K) == SmSize(K) <= LeafBudget

(* Faulty variant: an untouched leaf is reported without its dead TIDs.    *)
KeptCountWithoutDead(b) == Cardinality(leaf[b].tids \ dead)
KeptCount(b) ==
    IF FitsLeaf(leaf[b].tids \ dead) THEN Cardinality(leaf[b].tids \ dead)
    ELSE Cardinality(leaf[b].tids)

LeafDelete ==
    LET keep == leaf[cur].tids \ dead IN
    /\ pc = "leaf" /\ cur # Invalid
    /\ held' = {prev, cur} \ {Invalid}
    /\ next' = leaf[cur].right_link
    /\ leaf' = IF FitsLeaf(keep) THEN [leaf EXCEPT ![cur].tids = keep] ELSE leaf
    /\ remaining' = KeptCount(cur)
    /\ n_removed' = n_removed + Cardinality(leaf[cur].tids) - KeptCount(cur)
    /\ n_remaining' = n_remaining + KeptCount(cur)
    /\ pc' = IF KeptCount(cur) = 0 /\ prev # Invalid THEN "unlink" ELSE "advance"
    /\ UNCHANGED <<layout, entry, dead, prev, cur, before, scanVars, faults>>

(* posting_leaf_unlink: one WAL record for both pages.  The emptied leaf   *)
(* keeps its link, so that a scan that stands on it goes on.               *)
LinkCut(b) == Invalid
WaypointLink(b) == leaf[b].right_link

PrevMovesOn == cur
PrevAfterUnlink == prev

LeafUnlink ==
    /\ pc = "unlink"
    /\ leaf' = [leaf EXCEPT ![prev].right_link = leaf[cur].right_link,
                            ![cur] = [tids |-> {}, right_link |-> WaypointLink(cur),
                                      deleted |-> TRUE]]
    /\ held' = {PrevAfterUnlink} /\ prev' = PrevAfterUnlink
    /\ cur' = next /\ pc' = "leaf"
    /\ UNCHANGED <<layout, entry, dead, next, remaining, n_removed, n_remaining, before,
                   scanVars, faults>>

LeafAdvance ==
    /\ pc = "advance"
    /\ held' = {cur}
    /\ prev' = cur /\ cur' = next /\ pc' = "leaf"
    /\ UNCHANGED <<chainVars, dead, next, remaining, n_removed, n_remaining, before,
                   scanVars, faults>>

ChainEnd ==
    /\ pc = "leaf" /\ cur = Invalid
    /\ held' = {} /\ prev' = Invalid /\ pc' = "done"
    /\ UNCHANGED <<chainVars, dead, cur, next, remaining, n_removed, n_remaining, before,
                   scanVars, faults>>

BulkDeleteEnd ==
    /\ pc = "done"
    /\ pc' = "idle" /\ dead' = {} /\ before' = {}
    /\ n_removed' = 0 /\ n_remaining' = 0 /\ remaining' = 0
    /\ UNCHANGED <<chainVars, held, prev, cur, next, scanVars, faults>>

Crash ==
    /\ faults < MaxFaults /\ faults' = faults + 1
    /\ held' = {} /\ pc' = "idle" /\ dead' = {} /\ before' = {}
    /\ prev' = Invalid /\ cur' = Invalid /\ next' = Invalid /\ remaining' = 0
    /\ n_removed' = 0 /\ n_remaining' = 0
    /\ at' = [s \in Scanners |-> "idle"] /\ blk' = [s \in Scanners |-> Invalid]
    /\ acc' = [s \in Scanners |-> {}] /\ must' = [s \in Scanners |-> {}]
    /\ UNCHANGED chainVars

-----------------------------------------------------------------------------
(* pg_tre_upper_lookup and pg_tre_posting_materialize.                     *)

ScanLookup(s) ==
    /\ at[s] = "idle" /\ UpperLeaf \notin held
    /\ must' = [must EXCEPT ![s] = Posting \ dead]
    /\ acc' = [acc EXCEPT ![s] = entry.tids]
    /\ blk' = [blk EXCEPT ![s] = entry.root]
    /\ at' = [at EXCEPT ![s] = "walk"]
    /\ UNCHANGED <<chainVars, vacVars, faults>>

(* One leaf: contents and right link are copied under the share lock.      *)
ScanLeaf(s) ==
    /\ at[s] = "walk" /\ blk[s] # Invalid /\ blk[s] \notin held
    /\ acc' = [acc EXCEPT ![s] = @ \cup leaf[blk[s]].tids]
    /\ blk' = [blk EXCEPT ![s] = leaf[@].right_link]
    /\ UNCHANGED <<chainVars, vacVars, at, must, faults>>

ScanEnd(s) ==
    /\ at[s] = "walk" /\ blk[s] = Invalid
    /\ at' = [at EXCEPT ![s] = "done"]
    /\ UNCHANGED <<chainVars, vacVars, blk, acc, must, faults>>

ScanClose(s) ==
    /\ at[s] = "done"
    /\ at' = [at EXCEPT ![s] = "idle"]
    /\ acc' = [acc EXCEPT ![s] = {}] /\ must' = [must EXCEPT ![s] = {}]
    /\ UNCHANGED <<chainVars, vacVars, blk, faults>>

-----------------------------------------------------------------------------
Vacuum ==
    \/ \E D \in SUBSET Tids : BulkDelete(D)
    \/ InlineRepack \/ MigrateWrite \/ MigrateRepoint \/ InlineKept \/ CoalescedSkipped
    \/ ChainStart \/ LeafDelete \/ LeafUnlink \/ LeafAdvance \/ ChainEnd
    \/ BulkDeleteEnd
Scan(s) == ScanLookup(s) \/ ScanLeaf(s) \/ ScanEnd(s) \/ ScanClose(s)

Next == Vacuum \/ Crash \/ \E s \in Scanners : Scan(s)

Spec == Init /\ [][Next]_vars

-----------------------------------------------------------------------------
(* Leaves form chains towards lower block numbers, none of them over the   *)
(* page budget unless it holds a single TID.                               *)
TypeOK ==
    /\ layout \in Layouts
    /\ entry.kind \in {"inline", "coalesced", "chain"}
    /\ entry.root \in 0 .. Len(leaf) /\ entry.tids \subseteq Tids
    /\ \A b \in DOMAIN leaf :
         /\ leaf[b].tids \subseteq Tids
         /\ leaf[b].right_link \in 0 .. b - 1
         /\ SmSize(leaf[b].tids) <= LeafBudget
    /\ pc \in {"idle", "upper", "repoint", "leaf", "unlink", "advance", "done"}
    /\ held \subseteq 0 .. Len(leaf)

(* A scan that walks the posting while VACUUM repacks, migrates and        *)
(* unlinks finds every TID that was in it when the scan looked it up and   *)
(* that VACUUM does not report dead, also from a leaf that has been        *)
(* unlinked under it.                                                      *)
ScanComplete == \A s \in Scanners : at[s] = "done" => must[s] \subseteq acc[s]

(* What is left after VACUUM is what its callback spares; dead TIDs stay   *)
(* only in a coalesced posting or in a leaf they hold together (taking     *)
(* them out would split runs past the page budget).                        *)
OnlyOverflowKeepsDead ==
    pc = "done" =>
        /\ before \ dead \subseteq Posting /\ Posting \subseteq before
        /\ entry.kind = "inline" => entry.tids \cap dead = {} \/ SmSize(entry.tids \ dead) > LeafBudget
        /\ entry.kind = "chain" =>
             \A b \in Linked(leaf)[entry.root] :
                leaf[b].tids \cap dead # {} => SmSize(leaf[b].tids \ dead) > LeafBudget

(* ambulkdelete's statistics of a posting that is inline or in leaves:     *)
(* removed and remaining add up to what was there, and remaining is what   *)
(* is there now, dead TIDs that had to stay included.  A coalesced posting *)
(* is exempt: posting_upper_walk skips it and counts none of its TIDs, so  *)
(* num_index_tuples is not exact for an index that has some, whatever the  *)
(* comments in ambulkdelete and above posting_upper_walk say.              *)
StatsExact ==
    pc = "done" /\ entry.kind # "coalesced" =>
        /\ n_remaining = Cardinality(Posting)
        /\ n_removed = Cardinality(before) - Cardinality(Posting)

(* No leaf is empty and linked behind the head once VACUUM has passed it:  *)
(* emptied leaves leave the chain, and nothing else does.                  *)
EmptiedLeavesGo ==
    pc = "done" /\ entry.kind = "chain" =>
        \A b \in Linked(leaf)[entry.root] :
            ~leaf[b].deleted /\ (leaf[b].tids = {} => b = entry.root)
==============================================================================
