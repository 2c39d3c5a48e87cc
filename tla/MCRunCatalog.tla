----------------------------- MODULE MCRunCatalog -----------------------------
(* Small instances of RunCatalog for TLC.                                  *)
EXTENDS RunCatalog

(* The base holds a row with both trigrams; a merge brings one trigram of  *)
(* another row, at either end of the hash range.                           *)
BaseRow    == {<<1, 1>>, <<2, 1>>}
RowBatches == {{<<1, 2>>}, {<<2, 2>>}}
==============================================================================
