------------------------------ MODULE MCKnnScan ------------------------------
(* Small instances of KnnScan for TLC.                                     *)
EXTENDS KnnScan

Kind(w, o, a) == [where |-> w, orderby |-> o, always |-> a]

AllModes == {m \in [where : BOOLEAN, orderby : BOOLEAN, always : BOOLEAN] : m.where \/ m.orderby}

(* ORDER BY over the candidates of the index.                              *)
RankedCandidates == {Kind(TRUE, TRUE, FALSE)}

(* near and far satisfy WHERE; other is outside the pattern's max_cost.    *)
BodySet == {"near", "far", "other"}
BodySatisfies == [b \in BodySet |-> b # "other"]
BodyDist == [b \in BodySet |-> CASE b = "near" -> 0 [] b = "far" -> 1 [] OTHER -> NoDist]

(* Two rows on each of two pages, with room for one more version each; or *)
(* a far row with room for a chain of three versions, and two others.      *)
TwoPages == [{<<0, 1>>, <<0, 2>>, <<1, 1>>, <<1, 2>>} -> {"near"}]
    \cup {[t \in {<<0, 1>>, <<1, 1>>, <<1, 2>>} |->
             CASE t[1] = 0 -> "far" [] t = <<1, 1>> -> "near" [] OTHER -> "other"]}
==============================================================================
