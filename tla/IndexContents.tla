---------------------------- MODULE IndexContents ----------------------------
(***************************************************************************)
(* What a pg_tre index promises the heap, whatever its pages look like:    *)
(* the index is a set of (trigram, TID) entries.  aminsert adds entries of *)
(* the row being inserted, and a row may commit only when all its entries  *)
(* are there; VACUUM removes entries of dead rows only, and a line pointer *)
(* may be reused only when none of its entries is left.  Merging,          *)
(* flushing, compacting and collapsing are invisible at this level.        *)
(***************************************************************************)
CONSTANTS Trigrams, Values, Tids, Built

VARIABLES
    row,        \* [Tids -> {"unused", "inserting", "live", "dead"}]
    rowTrgs,    \* [Tids -> SUBSET Trigrams]
    idx         \* the entries a scan can find

cvars == <<row, rowTrgs, idx>>

EntriesOf(r) == rowTrgs[r] \X {r}

Init ==
    /\ row = [r \in Tids |-> IF r \in Built THEN "live" ELSE "unused"]
    /\ rowTrgs = [r \in Tids |-> IF r \in Built THEN Trigrams ELSE {}]
    /\ idx = Trigrams \X Built

(* The heap stores a tuple at r whose value has the trigrams T.            *)
Store(r, T) ==
    /\ row[r] = "unused"
    /\ row' = [row EXCEPT ![r] = "inserting"]
    /\ rowTrgs' = [rowTrgs EXCEPT ![r] = T]
    /\ UNCHANGED idx

(* aminsert writes some of the row's entries.                              *)
Add(r) ==
    /\ row[r] = "inserting"
    /\ idx \subseteq idx'
    /\ idx' \subseteq idx \cup EntriesOf(r)
    /\ UNCHANGED <<row, rowTrgs>>

Commit(r) ==
    /\ row[r] = "inserting"
    /\ EntriesOf(r) \subseteq idx
    /\ row' = [row EXCEPT ![r] = "live"]
    /\ UNCHANGED <<rowTrgs, idx>>

(* Rows whose INSERT fails, or that are deleted, become dead.              *)
Kill(R) ==
    /\ \A r \in R : row[r] \in {"inserting", "live"}
    /\ row' = [r \in Tids |-> IF r \in R THEN "dead" ELSE row[r]]
    /\ UNCHANGED <<rowTrgs, idx>>

(* ambulkdelete drops entries of dead rows.                                *)
Strip ==
    /\ idx' \subseteq idx
    /\ \A e \in idx : e \in idx' \/ row[e[2]] = "dead"
    /\ UNCHANGED <<row, rowTrgs>>

(* The heap frees the line pointers of dead rows the index has forgotten.  *)
Reuse(R) ==
    /\ \A r \in R : row[r] = "dead"
    /\ \A e \in idx : e[2] \notin R
    /\ row' = [r \in Tids |-> IF r \in R THEN "unused" ELSE row[r]]
    /\ rowTrgs' = [r \in Tids |-> IF r \in R THEN {} ELSE rowTrgs[r]]
    /\ UNCHANGED idx

Next ==
    \/ \E r \in Tids : \E T \in Values : Store(r, T)
    \/ \E r \in Tids : Add(r) \/ Commit(r)
    \/ \E R \in SUBSET Tids : Kill(R) \/ Reuse(R)
    \/ Strip

Spec == Init /\ [][Next]_cvars
==============================================================================
