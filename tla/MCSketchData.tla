---------------------------- MODULE MCSketchData ----------------------------
(***************************************************************************)
(* TLC instances of SketchData.                                            *)
(***************************************************************************)
EXTENDS SketchData

\* one class per way of drawing: dense, by element, nested sketches, blocks
const_Kinds == {"CWT", "UST", "PPT", "FastMaternRFT", "ExpSemigroupRLT"}

const_Dims == {<<2, 1>>, <<2, 3>>}   \* S below N, and above it: two blocks

const_OneDim == {<<2, 2>>}
=============================================================================
