----------------------------- MODULE DenseApply -----------------------------
(***************************************************************************)
(* sketch/dense_transform_Elemental_*.hpp and realize_matrix_view of       *)
(* sketch/dense_transform_data.hpp: applying a dense sketch R, an S x N    *)
(* matrix of random samples, to a distributed matrix A.  R is never        *)
(* communicated: every process computes the entries it needs from their    *)
(* positions in the random stream, panel by panel, multiplies local        *)
(* matrices, and where the terms of an entry are spread over processes the *)
(* partial sums are contracted.                                            *)
(*                                                                         *)
(* Rowwise, A is M x N and the sketch A R' is M x S; columnwise, A is      *)
(* N x M and the sketch R A is S x M.  The model names the dimensions by   *)
(* their roles: m is kept, n is summed over, s is the sketch's.  An entry  *)
(* is the list of the terms added up in it: <<s, n, m, k>> stands for      *)
(* R[s, n] times the entry of A with indices m and k.                      *)
(***************************************************************************)
EXTENDS Elemental

CONSTANTS Grids,      \* process grids <<height, width>>
          Ms, Ns, Ss, \* extents of the three dimensions
          Blocksizes, \* get_blocksize(); 0 is "no blocking"
          Factor      \* get_factor()

ASSUME GridsAssumption == Grids \subseteq (Nat \ {0}) \X (Nat \ {0})
ASSUME SizesAssumption == Ms \cup Ns \cup Ss \subseteq Nat \ {0}
ASSUME ParamsAssumption == Blocksizes \subseteq Nat /\ Factor \in Nat

VARIABLES task,  \* what is applied to what: never changes
          phase, \* choose, loop, copy, returned or thrown
          plan,  \* the strategy apply_impl has chosen
          base,  \* first row (or column) of R of the current panel
          row,   \* first index of the current block, in strategies with blocks
          out    \* the sketch: the entries each process holds

vars == <<task, phase, plan, base, row, out>>

Rank == ProcessesOf(task.grid)

Stride(d) == StrideOf(task.grid, d)

RankIn(d, p) == RankOf(task.grid, d, p)

Local(d, window, p) == Dealt(task.grid, d, window, p)

(***************************************************************************)
(* realize_matrix_view: the indices, in one dimension, of the entries of R *)
(* process p computes when the part window of R is realized.  The part is  *)
(* aligned like a view into R, whatever it was aligned with before.        *)
(***************************************************************************)
Shift(rank, align, stride) == (rank + stride - align) % stride

Length(count, shift, stride) ==
  IF count > shift THEN (count - shift - 1) \div stride + 1 ELSE 0

\* mutant: the strides are left at their default of 1
RealizedPacked(d, window, p) ==
  LET stride == Stride(d)
      shift == Shift(RankIn(d, p), window[1] % stride, stride)
  IN  [l \in 1 .. Length(window[2], shift, stride) |-> window[1] + shift + l - 1]

Realized(d, window, p) ==
  LET stride == Stride(d)
      shift == Shift(RankIn(d, p), window[1] % stride, stride)
  IN  [l \in 1 .. Length(window[2], shift, stride) |->
         window[1] + shift + (l - 1) * stride]

(***************************************************************************)
(* The strategies.  slices: the dimension R is cut into panels along, or   *)
(* "none".  blocks: the kept dimension is cut as well.  R: distribution of *)
(* its dimensions s and n.  A: of the dimensions m and n of what A is      *)
(* redistributed to, or has to begin with.  into: "set", the product       *)
(* overwrites the sketch; "add", the sketch is zeroed once and products    *)
(* are added to it; "contract", the products of all processes are summed   *)
(* up into it.                                                             *)
(***************************************************************************)
Strategy(slices, blocks, R, A, into) ==
  [slices |-> slices, blocks |-> blocks, R |-> R, A |-> A, into |-> into]

InnerRowMCMR ==
  Strategy("s", TRUE, <<"STAR", "VR">>, <<"STAR", "VR">>, "contract")
InnerColMCMR ==
  Strategy("s", TRUE, <<"STAR", "VC">>, <<"STAR", "VC">>, "contract")
OuterRowMCMR ==
  Strategy("n", FALSE, <<"MR", "STAR">>, <<"MC", "STAR">>, "add")
OuterColMCMR ==
  Strategy("n", FALSE, <<"MC", "STAR">>, <<"MR", "STAR">>, "add")
MatrixPanelMCMR ==
  Strategy("s", FALSE, <<"STAR", "MR">>, <<"MC", "MR">>, "contract")
PanelMatrixMCMR ==
  Strategy("s", FALSE, <<"STAR", "MC">>, <<"MR", "MC">>, "contract")

InnerRowColDist(V) == Strategy("s", TRUE, S_S, <<V, "STAR">>, "set")
InnerColColDist(V) ==
  Strategy("none", FALSE, <<"STAR", V>>, <<"STAR", V>>, "contract")
OuterRowColDist(V) == Strategy("n", FALSE, S_S, <<V, "STAR">>, "add")
OuterColColDist(V) == Strategy("none", FALSE, <<V, "STAR">>, S_S, "add")
MatrixPanelColDist(V) == Strategy("s", FALSE, S_S, <<V, "STAR">>, "set")
PanelMatrixColDist(V) == InnerColColDist(V)

InnerRowRowDist(V) ==
  Strategy("none", FALSE, <<"STAR", V>>, <<"STAR", V>>, "contract")
InnerColRowDist(V) == Strategy("s", TRUE, S_S, <<V, "STAR">>, "set")
OuterRowRowDist(V) == Strategy("none", FALSE, <<V, "STAR">>, S_S, "add")
OuterColRowDist(V) == Strategy("n", FALSE, S_S, <<V, "STAR">>, "add")
MatrixPanelRowDist(V) == InnerRowRowDist(V)
PanelMatrixRowDist(V) == Strategy("s", FALSE, S_S, <<V, "STAR">>, "set")

InnerColToMCMR(V) ==
  Strategy("none", FALSE, <<"STAR", V>>, <<"STAR", V>>, "contract")
OuterRowToMCMR ==
  Strategy("n", FALSE, <<"MR", "STAR">>, <<"MC", "STAR">>, "add")

Whole == Strategy("none", FALSE, S_S, S_S, "set")

NotImplemented == Strategy("throws", FALSE, S_S, S_S, "set")

(***************************************************************************)
(* The matrices a sketch is applied to, and into.                          *)
(***************************************************************************)
Applications ==
  LET distributed == {MC_MR} \cup ColDists \cup RowDists
  IN  {<<d, d>> : d \in distributed \cup {S_S}}
        \cup distributed \X {S_S, CIRC_CIRC}
        \cup ColDists \X {MC_MR}

(* What apply_impl chooses from.  Every process has all of a STAR, STAR    *)
(* matrix and multiplies it by all of R.                                   *)
Plans(input, output, tag) ==
  LET plans(i, o, m) == [inner |-> i, outer |-> o, matrix |-> m]
      V == IF input[1] = "STAR" THEN input[2] ELSE input[1]
      rowwise == tag = "rowwise"
  IN  CASE input = S_S -> plans(Whole, Whole, Whole)
        [] input = MC_MR ->
             IF rowwise THEN plans(InnerRowMCMR, OuterRowMCMR, MatrixPanelMCMR)
             ELSE plans(InnerColMCMR, OuterColMCMR, PanelMatrixMCMR)
        [] input \in ColDists /\ output = MC_MR ->
             IF rowwise THEN plans(NotImplemented, OuterRowToMCMR,
                                   NotImplemented)
             ELSE plans(InnerColToMCMR(V), NotImplemented, NotImplemented)
        [] input \in ColDists /\ output # MC_MR ->
             IF rowwise THEN plans(InnerRowColDist(V), OuterRowColDist(V),
                                   MatrixPanelColDist(V))
             ELSE plans(InnerColColDist(V), OuterColColDist(V),
                        PanelMatrixColDist(V))
        [] input \in RowDists ->
             IF rowwise THEN plans(InnerRowRowDist(V), OuterRowRowDist(V),
                                   MatrixPanelRowDist(V))
             ELSE plans(InnerColRowDist(V), OuterColRowDist(V),
                        PanelMatrixRowDist(V))

(* The matrix the strategies write to: the sketch itself, or one           *)
(* distributed like A, which is then copied.                               *)
Copied == task.output \in {S_S, CIRC_CIRC} /\ task.input # S_S
Work == IF Copied THEN task.input ELSE task.output

(* Distributions by role: of the kept dimension and of the other one.      *)
Roles(layout) == IF task.tag = "rowwise" THEN layout
                 ELSE <<layout[2], layout[1]>>

(* What process p holds of a part of the sketch: windows of m and s.       *)
Held(layout, m, s, p) ==
  LET d == Roles(layout) IN <<Local(d[1], m, p), Local(d[2], s, p)>>

Entries(held) == Range(held[1]) \X Range(held[2])

AllOf(layout, p) == Entries(Held(layout, <<0, task.M>>, <<0, task.S>>, p))

Junk == << <<"junk">> >>   \* what memory held before; never a sum of products

Init ==
  /\ \E app \in Applications :
       task \in [input : {app[1]}, output : {app[2]},
                 tag : {"rowwise", "columnwise"}, grid : Grids,
                 M : Ms, N : Ns, S : Ss, blocksize : Blocksizes]
  /\ phase = "choose"
  /\ plan = NotImplemented
  /\ base = 0
  /\ row = 0
  /\ out = [p \in Rank |-> [at \in AllOf(Work, p) |-> Junk]]

Chosen ==
  LET plans == Plans(task.input, Work, task.tag)
  IN  IF task.M * Factor <= task.N /\ task.S * Factor <= task.N
      THEN plans.inner
      ELSE IF task.M >= task.N * Factor /\ task.S >= task.N * Factor
      THEN plans.outer
      ELSE plans.matrix

Zeroed == [p \in Rank |-> [at \in DOMAIN out[p] |-> << >>]]

(***************************************************************************)
(* apply_impl: choose a strategy by the shape of the matrices.             *)
(***************************************************************************)
Choose ==
  /\ phase = "choose"
  /\ plan' = Chosen
  /\ phase' = IF Chosen = NotImplemented THEN "thrown" ELSE "loop"
  /\ out' = IF Chosen.into = "add" THEN Zeroed ELSE out
  /\ UNCHANGED <<task, base, row>>

(***************************************************************************)
(* The current panel and block: windows <<first, count>> of the three      *)
(* dimensions.  A block size of 0 means one panel, but for the inner       *)
(* strategies, where it means the smaller extent of the sketch.            *)
(***************************************************************************)
Smaller(a, b) == IF a < b THEN a ELSE b

Sliced == IF plan.slices = "s" THEN task.S ELSE task.N

BUnclipped ==            \* mutant: the last panel is as long as the others
  IF task.blocksize # 0 THEN task.blocksize
  ELSE IF plan.blocks THEN Smaller(task.M, task.S)
  ELSE Sliced

B == Smaller(Sliced - base,
             IF task.blocksize # 0 THEN task.blocksize
             ELSE IF plan.blocks THEN Smaller(task.M, task.S)
             ELSE Sliced)

sWin == IF plan.slices = "s" THEN <<base, B>> ELSE <<0, task.S>>
nWin == IF plan.slices = "n" THEN <<base, B>> ELSE <<0, task.N>>
mWin == IF plan.blocks THEN <<row, Smaller(B, task.M - row)>> ELSE <<0, task.M>>

(***************************************************************************)
(* The local matrices of process p: indices of the rows and columns of its *)
(* part of A and of R, in order, and those of the sketch it writes to.     *)
(***************************************************************************)
LocalR(p) == <<Realized(plan.R[1], sWin, p), Realized(plan.R[2], nWin, p)>>

LocalA(p) == <<Local(plan.A[1], mWin, p), Local(plan.A[2], nWin, p)>>

(* The matrix the product is written to: the sketch, or a temporary one.   *)
LocalC(p) == IF plan.into = "contract" THEN <<LocalA(p)[1], LocalR(p)[1]>>
             ELSE Held(Work, mWin, sWin, p)

(***************************************************************************)
(* Gemm of local matrices.  It pairs by position; when the sizes do not    *)
(* conform the result is anything.                                         *)
(***************************************************************************)
Product(p) ==
  LET A == LocalA(p)
      R == LocalR(p)
      C == LocalC(p)
      conform == /\ Len(A[1]) = Len(C[1]) /\ Len(R[1]) = Len(C[2])
                 /\ Len(A[2]) = Len(R[2])
  IN  [at \in Entries(C) |->
         IF ~ conform THEN Junk
         ELSE LET a == CHOOSE i \in DOMAIN C[1] : C[1][i] = at[1]
                  b == CHOOSE j \in DOMAIN C[2] : C[2][j] = at[2]
              IN  [k \in DOMAIN A[2] |-> <<R[1][b], R[2][k], A[1][a], A[2][k]>>]]

(* AxpyContract: partial sums of one entry, from every process that has    *)
(* one, are added up where the entry belongs.                              *)
Contracted(at) ==
  LET parts == SetToSeq({p \in Rank : at \in Entries(LocalC(p))})
  IN  FlattenSeq([i \in DOMAIN parts |-> Product(parts[i])[at]])

Window(p) == Entries(Held(Work, mWin, sWin, p))

UpdatedInPlace ==
  [p \in Rank |->
     LET product == Product(p)
     IN  [at \in DOMAIN out[p] |->
            IF at \notin Window(p) THEN out[p][at]
            ELSE IF plan.into = "set" THEN product[at]
            ELSE out[p][at] \o product[at]]]

\* mutant: all of the sketch is zeroed before the sums are added
UpdatedAllZeroed ==
  LET sums == [at \in UNION {Window(p) : p \in Rank} |-> Contracted(at)]
  IN  [p \in Rank |->
         [at \in DOMAIN out[p] |->
            IF at \in Window(p) THEN sums[at] ELSE << >>]]

UpdatedByContraction ==
  LET sums == [at \in UNION {Window(p) : p \in Rank} |-> Contracted(at)]
  IN  [p \in Rank |->
         [at \in DOMAIN out[p] |->
            IF at \in Window(p) THEN sums[at] ELSE out[p][at]]]

Multiply == out' = IF plan.into = "contract" THEN UpdatedByContraction
                   ELSE UpdatedInPlace

(***************************************************************************)
(* One pass of the (inner) loop.                                           *)
(***************************************************************************)
MultiplyOnce ==
  /\ phase = "loop" /\ plan.slices = "none"
  /\ Multiply
  /\ phase' = IF Copied THEN "copy" ELSE "returned"
  /\ UNCHANGED <<task, plan, base, row>>

Panel ==
  /\ phase = "loop" /\ plan.slices # "none" /\ ~ plan.blocks
  /\ base < Sliced
  /\ Multiply
  /\ base' = base + B
  /\ UNCHANGED <<task, phase, plan, row>>

BlockStuck ==            \* mutant: the base is not moved on
  /\ phase = "loop" /\ plan.blocks
  /\ base < Sliced
  /\ \/ /\ row < task.M
        /\ Multiply
        /\ row' = row + mWin[2]
     \/ /\ row >= task.M
        /\ row' = 0
        /\ UNCHANGED out
  /\ UNCHANGED <<task, phase, plan, base>>

Block ==
  /\ phase = "loop" /\ plan.blocks
  /\ base < Sliced
  /\ \/ /\ row < task.M
        /\ Multiply
        /\ row' = row + mWin[2]
        /\ UNCHANGED base
     \/ /\ row >= task.M
        /\ row' = 0
        /\ base' = base + B
        /\ UNCHANGED out
  /\ UNCHANGED <<task, phase, plan>>

Leave ==
  /\ phase = "loop" /\ plan.slices # "none"
  /\ base >= Sliced
  /\ phase' = IF Copied THEN "copy" ELSE "returned"
  /\ UNCHANGED <<task, plan, base, row, out>>

(***************************************************************************)
(* sketch_of_A = sketch_of_A_MC_MR and the like.                           *)
(***************************************************************************)
Copy ==
  /\ phase = "copy"
  /\ phase' = "returned"
  /\ out' = [p \in Rank |->
               [at \in AllOf(task.output, p) |->
                  LET q == CHOOSE q \in Rank : at \in DOMAIN out[q]
                  IN  out[q][at]]]
  /\ UNCHANGED <<task, plan, base, row>>

Next == Choose \/ MultiplyOnce \/ Panel \/ Block \/ Leave \/ Copy

Spec == Init /\ [][Next]_vars /\ WF_vars(Next)
-----------------------------------------------------------------------------
(***************************************************************************)
(* Properties                                                              *)
(***************************************************************************)

TypeOK ==
  /\ phase \in {"choose", "loop", "copy", "returned", "thrown"}
  /\ base \in 0 .. task.N + task.S
  /\ row \in 0 .. task.M
  /\ phase = "loop" => plan # NotImplemented /\ base <= Sliced

(* What the transform of local matrices computes.                          *)
Sum(at) == {<<at[2], k, at[1], k>> : k \in 0 .. task.N - 1}

(***************************************************************************)
(* The test's "sketching resuts are ... equal": whatever the distributions,*)
(* the grid, the strategy and the block size, every process is left with   *)
(* its part of the sketch, and each entry has every term of its sum once.  *)
(***************************************************************************)
Sketched ==
  phase = "returned" =>
    \A p \in Rank :
      /\ DOMAIN out[p] = AllOf(task.output, p)
      /\ \A at \in DOMAIN out[p] :
           Range(out[p][at]) = Sum(at) /\ Len(out[p][at]) = task.N

(***************************************************************************)
(* When the sketch is made panel by panel, a panel that is finished is     *)
(* never touched again.                                                    *)
(***************************************************************************)
FinishedKept ==
  [][phase = "loop" /\ plan.slices = "s" =>
       \A p \in Rank : \A at \in DOMAIN out[p] :
         at[2] < base => out'[p][at] = out[p][at]]_vars

(***************************************************************************)
(* The loops come to an end: the transform returns, or throws.             *)
(***************************************************************************)
Returns == <>(phase \in {"returned", "thrown"})
=============================================================================
