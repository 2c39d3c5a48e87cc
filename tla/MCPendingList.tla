---------------------------- MODULE MCPendingList ----------------------------
(***************************************************************************)
(* Small instances of PendingList for TLC.                                 *)
(***************************************************************************)
EXTENDS PendingList, TLC

CONSTANTS t1, t2, r1, r2, r3, i1, i2

(* Backends are interchangeable in every instance; trigrams and heap TIDs  *)
(* are too where the instance does not single one out (Built, Values).     *)
BackendSymmetry == Permutations({i1, i2})
FullSymmetry ==
    {a @@ b @@ c : a \in Permutations({i1, i2}), b \in Permutations({t1, t2}),
                   c \in Permutations({r1, r2, r3})}

(* Blocks and TIDs of an instance are few, and an index takes INSERTs for  *)
(* ever.  Two steps that no backend takes give them out again while nobody *)
(* merges, so that the INSERTs do not end with the instance.  Recycle      *)
(* renumbers the blocks from the head of the list once those before it are *)
(* out of every scan's reach.                                              *)
Before == IF pending_head = Invalid THEN Len(entries) ELSE pending_head - 1
Shift(b) == IF b = Invalid THEN Invalid ELSE b - Before

Recycle ==
    /\ merge_lock = None /\ Before > 0
    /\ \A s \in Scanners : scan_blk[s] = Invalid
    /\ entries' = SubSeq(entries, Before + 1, Len(entries))
    /\ next_page' = [b \in 1 .. Len(entries) - Before |-> Shift(next_page[b + Before])]
    /\ pending_head' = Shift(pending_head) /\ pending_tail' = Shift(pending_tail)
    /\ freed' = {b \in {f - Before : f \in freed} : b > 0}
    /\ UNCHANGED <<heapVars, pending_n_entries, treeVars, merge_lock, pc, insertVars, mergeVars,
                   vacVars, scanVars, faults>>

(* Forget takes a committed row that is in the trees only and that no      *)
(* snapshot sees for one that the instance knows nothing about.            *)
Forget(r) ==
    /\ merge_lock = None
    /\ row[r] = "live" /\ \A s \in Scanners : r \notin rows[s]
    /\ \A e \in Pending : e[2] # r
    /\ row' = [row EXCEPT ![r] = "unused"]
    /\ rowTrgs' = [rowTrgs EXCEPT ![r] = {}]
    /\ base' = {e \in base : e[2] # r} /\ runs' = {e \in runs : e[2] # r}
    /\ UNCHANGED <<listVars, coalesced, freed, merge_lock, pc, insertVars, mergeVars, vacVars,
                   scanVars, faults>>

StreamSpec ==
    /\ Init
    /\ [][Next \/ Recycle \/ \E r \in Tids : Forget(r)]_vars
    /\ Fairness
==============================================================================
