----------------------------- MODULE MCContext ------------------------------
(***************************************************************************)
(* TLC instances of Context: a stream of 8 samples stands for 2^64.        *)
(***************************************************************************)
EXTENDS Context

const_Sizes == {0, 1, 3, 7}     \* empty, one, some, all but one
=============================================================================
