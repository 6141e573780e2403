---------------------------- MODULE MCDenseApply ----------------------------
(***************************************************************************)
(* TLC instances of DenseApply.                                            *)
(***************************************************************************)
EXTENDS DenseApply

const_Grids == {<<1, 1>>, <<2, 1>>, <<1, 3>>, <<2, 2>>, <<2, 3>>}
const_Ms == {1, 2, 3, 4}
const_Ns == {1, 3, 5}
const_Ss == {1, 2, 3}
=============================================================================
