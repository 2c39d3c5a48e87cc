------------------------------- MODULE RunStore -------------------------------
(***************************************************************************)
(* What the run catalog promises the rest of the index: entries are in the *)
(* base tree or in some run, a flush adds one batch to the runs, a rebuild *)
(* adds one to the base, a collapse moves the runs into the base, a bulk   *)
(* delete drops a dead TID, and nothing else happens to an entry: in       *)
(* particular none is lost, and one that a bulk delete took out is not     *)
(* back unless a batch brings it.  PendingList relies on exactly these     *)
(* steps for its variables base and runs.                                  *)
(***************************************************************************)
CONSTANTS Tids, Batches, InitBase

VARIABLES base, runs

svars == <<base, runs>>

(* A run may share the base tree, so some entries may be in both.          *)
Init == base = InitBase /\ runs \subseteq base

Flush(E)   == runs' = runs \cup E /\ base' = base
Rebuild(E) == base' = base \cup E /\ runs' = runs
Collapse   == base' = base \cup runs /\ runs' = {}
Strip(d)   == /\ base' = {e \in base : e[2] # d}
              /\ runs' = {e \in runs : e[2] # d}

Next ==
    \/ \E E \in Batches : Flush(E) \/ Rebuild(E)
    \/ Collapse
    \/ \E d \in Tids : Strip(d)

Spec == Init /\ [][Next]_svars
==============================================================================
