---------------------------- MODULE MCPostingChain ----------------------------
(* Small instances of PostingChain for TLC.                                *)
EXTENDS PostingChain

(* Short leaves give chains of three; wide ones, with coalescing on or     *)
(* off, give inline postings that migrate or cannot, and coalesced ones.   *)
ShortAndWide ==
    { [inlineMax |-> 1, coalesceMax |-> 0, leafBudget |-> 1],
      [inlineMax |-> 1, coalesceMax |-> 0, leafBudget |-> 2],
      [inlineMax |-> 1, coalesceMax |-> 2, leafBudget |-> 2] }
==============================================================================
