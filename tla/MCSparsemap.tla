----------------------------- MODULE MCSparsemap -----------------------------
(* A window of six bits in three vectors, and three windows.               *)
EXTENDS Sparsemap

\* the first bit of the first and of the last window, the last bit a small map
\* can hold, and a bit inside the second and the third window
EdgePoints == {0, 3, 8, 12, 16}

\* a window and a run over its edge; two runs with a gap in the middle window;
\* scattered bits
EdgeSets == {0 .. 7, 5 .. 13, (0 .. 5) \cup {12, 13}}
==============================================================================
