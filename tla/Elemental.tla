----------------------------- MODULE Elemental ------------------------------
(***************************************************************************)
(* What the library relies on in Elemental (which is not part of it): a    *)
(* grid of processes <<height, width>>, and how a dimension of a matrix is *)
(* dealt out to them.  A process is its place in the grid, <<row,          *)
(* column>>.  Matrices are not views into others, so that index 0 is with  *)
(* rank 0.  In CIRC one process has everything, in STAR every process.     *)
(* LOCAL and SPARSE stand for a process's own matrix, which is no          *)
(* distributed one: it has all of that.                                    *)
(***************************************************************************)
EXTENDS Integers, Sequences, SequencesExt

ProcessesOf(grid) == (0 .. grid[1] - 1) \X (0 .. grid[2] - 1)

StrideOf(grid, d) ==
  CASE d = "MC" -> grid[1]
    [] d = "MR" -> grid[2]
    [] d \in {"VC", "VR"} -> grid[1] * grid[2]
    [] d \in {"STAR", "CIRC", "LOCAL", "SPARSE"} -> 1

RankOf(grid, d, p) == CASE d = "MC" -> p[1]
                        [] d = "MR" -> p[2]
                        [] d = "VC" -> p[1] + p[2] * grid[1]
                        [] d = "VR" -> p[2] + p[1] * grid[2]
                        [] d \in {"STAR", "LOCAL", "SPARSE"} -> 0
                        [] d = "CIRC" -> IF p = <<0, 0>> THEN 0 ELSE 1

(* The indices of first .. first + count - 1 process p holds, in order.    *)
Dealt(grid, d, window, p) ==
  LET stride == StrideOf(grid, d)
      rank == RankOf(grid, d, p)
      among[n \in 0 .. window[2]] ==      \* the first n of them
        IF n = 0 THEN << >>
        ELSE LET g == window[1] + n - 1
             IN  IF g % stride = rank THEN Append(among[n - 1], g)
                 ELSE among[n - 1]
  IN  among[window[2]]

(* The matrix distributions the sketches are made for: of rows, of columns.*)
S_S == <<"STAR", "STAR">>
MC_MR == <<"MC", "MR">>
CIRC_CIRC == <<"CIRC", "CIRC">>
ColDists == {"VC", "VR"} \X {"STAR"}
RowDists == {"STAR"} \X {"VC", "VR"}
=============================================================================
