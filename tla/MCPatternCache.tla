---------------------------- MODULE MCPatternCache ----------------------------
(* A small instance of PatternCache for TLC.                               *)
EXTENDS PatternCache, TLC

(* Addresses are interchangeable, and so are the patterns that compile and *)
(* the collations.                                                         *)
Interchangeable ==
    Permutations(Handles) \cup Permutations(Patterns \ Rejected) \cup Permutations(Collations)
==============================================================================
