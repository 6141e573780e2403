------------------------------ MODULE MCAsyRGS ------------------------------
(***************************************************************************)
(* TLC instances of AsyRGS: a positive definite matrix with two coupled    *)
(* unknowns, and an empty column.  Up to six steps divide by two.          *)
(***************************************************************************)
EXTENDS AsyRGS

const_A == <<<<2, 1, 0>>, <<1, 2, 0>>, <<0, 0, 0>>>>
const_Solution == <<<<64, 0>>, <<-64, 128>>, <<0, 0>>>>
const_B == <<<<64, 128>>, <<-64, 256>>, <<0, 0>>>>
const_InitialX == {const_Solution, [i \in 1 .. 3 |-> <<0, 0>>]}
const_TolSqr == <<1, 4>>
=============================================================================
