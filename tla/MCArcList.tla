----------------------------- MODULE MCArcList ------------------------------
(***************************************************************************)
(* TLC instances of ArcList.                                               *)
(***************************************************************************)
EXTENDS ArcList

\* an arc between the parts of two processes, a loop, and one that lies
\* outside the matrix of the others
const_Arcs == {<<0, 1>>, <<1, 1>>, <<5, 2>>}

\* shares of one and two bytes; of 7 bytes the last share is too large
const_Sizes == {0, 2, 5, 6, 7}
=============================================================================
