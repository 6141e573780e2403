---------------------------- MODULE MCHashApply -----------------------------
(***************************************************************************)
(* TLC instances of HashApply.                                             *)
(***************************************************************************)
EXTENDS HashApply

const_Applications == Types

const_Grids == {<<1, 1>>, <<2, 1>>, <<2, 2>>}
const_Zeros == {{}, {<<0, 0>>, <<1, 0>>}}
const_Sizes == {<<3, 2, 2>>, <<2, 3, 3>>}

\* all to one, and to two in every way but for their names; the first, the
\* middle and the last of three
const_RowIdxs == {f \in [0 .. 2 -> 0 .. 1] : f[2] = 1} \cup
                 {f \in [0 .. 1 -> 0 .. 2] : f[1] >= f[0] /\ f # [i \in {0, 1} |-> 0]}
=============================================================================
