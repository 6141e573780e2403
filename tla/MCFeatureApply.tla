--------------------------- MODULE MCFeatureApply ---------------------------
(* Every class and distribution, on the grids of one, two, four and six    *)
(* processes: sketches shorter and longer than the vectors, with a last    *)
(* block that is cut, and of one or more vectors.                          *)
EXTENDS FeatureApply

MCFamilies == {"UST", "FJLT", "PPT"} \cup Fastfood \cup Features \cup Mixing
MCGrids == {<<1, 1>>, <<1, 2>>, <<2, 1>>, <<2, 2>>, <<3, 2>>}
MCSizes == {<<2, 3, 3>>, <<3, 2, 2>>, <<2, 5, 1>>, <<2, 2, 3>>, <<3, 3, 2>>}

(* Transposing these matrices calls the same function again.               *)
MCLeft == CallThemselves
=============================================================================
