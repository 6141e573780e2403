---------------------------- MODULE FeatureApply ----------------------------
(***************************************************************************)
(* sketch/*_Elemental.hpp of the transforms that are neither dense nor     *)
(* hash: uniform sampling (UST), the FFT mixing (RFUT) and the FJLT built  *)
(* on it, Fastfood (FastRFT), Pham-Pagh (PPT), and the random features     *)
(* (RFT, QRFT, RLT, QRLT) that change the entries of a dense sketch.       *)
(*                                                                         *)
(* The kernels work on whole vectors, the columns (rows) of a local        *)
(* matrix.  A matrix whose vectors are cut is transposed or redistributed  *)
(* first, the transform is applied to the new matrix by a nested call, and *)
(* what that call leaves is transposed or redistributed back.  The model   *)
(* follows the calls.  All processes make the same calls, and meet at      *)
(* every redistribution.                                                   *)
(*                                                                         *)
(* A value says how it was computed: [op, at, of] is operation op, with    *)
(* the parameters of the sketch numbered at, of the values of.             *)
(***************************************************************************)
EXTENDS Elemental

CONSTANTS Families, \* the transforms applied
          Grids,    \* process grids <<height, width>>
          Sizes,    \* <<N, S, M>>: N x M columnwise, M x N rowwise, to S
          Left,     \* <<family, input, output, dimension>>: not tried
          ViewsChecked, \* does Elemental, as built, check what is viewed?
          MaxCalls  \* bound: how deep calls are followed

Fastfood == {"FastGaussianRFT", "FastMaternRFT"}
Features == {"RFT", "QRFT", "RLT", "QRLT"}
Mixing == {"RFUT", "RFUT inverse"}

ASSUME FamiliesAssumption ==
  Families \subseteq {"UST", "FJLT", "PPT"} \cup Fastfood \cup Features \cup Mixing
ASSUME GridsAssumption == Grids \subseteq (Nat \ {0}) \X (Nat \ {0})
ASSUME SizesAssumption == Sizes \subseteq (Nat \ {0}) \X (Nat \ {0}) \X (Nat \ {0})
ASSUME ViewsCheckedAssumption == ViewsChecked \in BOOLEAN
ASSUME MaxCallsAssumption == MaxCalls \in Nat \ {0}

VARIABLES task,   \* what is applied to what: never changes
          calls,  \* the calls of apply that have not returned, outermost first
          sketch, \* the sketch the last call to return has left
          phase   \* applying, returned or thrown

vars == <<task, calls, sketch, phase>>

(***************************************************************************)
(* Matrices: of process p, at[p] are the entries it holds.                 *)
(***************************************************************************)
P == ProcessesOf(task.grid)

LOCAL_M == <<"LOCAL", "LOCAL">>
LOCAL_SPARSE == <<"SPARSE", "SPARSE">>
OTHER_C == <<"MC", "STAR">>     \* distributions no class is written for
OTHER_R == <<"STAR", "MR">>

Rows(dist, h, p) == Dealt(task.grid, dist[1], <<0, h>>, p)
Cols(dist, w, p) == Dealt(task.grid, dist[2], <<0, w>>, p)

Matrix(dist, h, w, Value(_, _, _)) ==
  [dist |-> dist, h |-> h, w |-> w,
   at |-> [p \in P |-> [e \in Range(Rows(dist, h, p)) \X Range(Cols(dist, w, p))
                          |-> Value(p, e[1], e[2])]]]

V(op, at, of) == [op |-> op, at |-> at, of |-> of]

Wild == V("wild", << >>, << >>)         \* memory nothing was written to

None == [dist |-> <<"none", "none">>, h |-> 0, w |-> 0, at |-> << >>]

(* The value of an entry, which is the same wherever there is a copy.      *)
Entry(A, i, j) ==
  LET p == CHOOSE q \in P : <<i, j>> \in DOMAIN A.at[q] IN A.at[p][<<i, j>>]

(* operator= and El::Transpose: to the same matrix in another distribution.*)
Copied(A, dist) ==
  Matrix(dist, A.h, A.w, LAMBDA p, i, j : Entry(A, i, j))

Transposed(A, dist) ==
  Matrix(dist, A.w, A.h, LAMBDA p, i, j : Entry(A, j, i))

(***************************************************************************)
(* A kernel applied to the local matrices: to each vector process p has of *)
(* A, into each entry it has of the sketch.  Kernel(v, l) is the l-th of   *)
(* the entries the vector v gives, counted from 0.                         *)
(***************************************************************************)
Along(dim, v, k) == IF dim = "columnwise" THEN <<v, k>> ELSE <<k, v>>

Vector(A, dim, p, k) ==
  LET held == IF dim = "columnwise" THEN Rows(A.dist, A.h, p)
              ELSE Cols(A.dist, A.w, p)
  IN  [n \in DOMAIN held |-> A.at[p][Along(dim, held[n], k)]]

Place(s, held) == (CHOOSE l \in DOMAIN held : held[l] = s) - 1

LocalApply(A, out, dim, length, Kernel(_, _)) ==
  LET h == IF dim = "columnwise" THEN length ELSE A.h
      w == IF dim = "columnwise" THEN A.w ELSE length
      value(p, i, j) ==
        IF dim = "columnwise"
        THEN Kernel(Vector(A, dim, p, j), Place(i, Rows(out, h, p)))
        ELSE Kernel(Vector(A, dim, p, i), Place(j, Cols(out, w, p)))
  IN  Matrix(out, h, w, value)

(* v[n] where v is an array the code indexes from 0.                       *)
Item(v, n) == IF n + 1 \in DOMAIN v THEN v[n + 1] ELSE Wild

(***************************************************************************)
(* The local kernels.                                                      *)
(***************************************************************************)
UST_local(v, l) == Item(v, Item(task.samples, l))

(* P[j] collects the products of the transforms of all q hashed copies of  *)
(* the vector, and the inverse transform of it is the sketch of the vector.*)
PPT_local(v, l) == V("PPT", <<l>>, v)

(* Columnwise, the sketch of a vector is written to where a view begins    *)
(* that has A.Height() rows of the sketch, which has S.                    *)
PPT_view == 0 .. task.N - 1

(* FastRFT: the sketch is computed in blocks of _NB = _N entries, each of  *)
(* which takes its own part of B, G, P and Sm; the last block may be cut.  *)
numblks == 1 + (task.S - 1) \div task.N

Min2(a, b) == IF a < b THEN a ELSE b

Block(i) == i * task.N .. Min2(i * task.N + task.N, task.S) - 1

(* A Matern transform draws S scales, and numblks * _N of them are read.   *)
Sm == [k \in 0 .. numblks * task.N - 1 |->
         IF task.family = "FastMaternRFT" /\ k >= task.S THEN Wild
         ELSE V("Sm", <<k>>, << >>)]

(* Columnwise an entry is finished as soon as its block is.                *)
FastRFT_local_columnwise(v, l) ==
  IF \E i \in 0 .. numblks - 1 : l \in Block(i)
  THEN LET i == CHOOSE b \in 0 .. numblks - 1 : l \in Block(b)
           s == i * task.N
           W == V("blocks B, P and G", <<i, l - s>>, v)
       IN  V("cos", <<l>>, <<Sm[i * task.N + (l - s)], W>>)
  ELSE Wild

(* Rowwise the blocks are copied to the sketch, which is gone through when *)
(* it is complete.                                                         *)
FastRFT_local_rowwise(v, l) ==
  LET copied == [k \in UNION {Block(i) : i \in 0 .. numblks - 1} |->
                   LET i == k \div task.N
                       s == i * task.N
                   IN  <<Sm[i * task.N + (k - s)],
                         V("blocks B, P and G", <<i, k - s>>, v)>>]
  IN  IF l \in DOMAIN copied THEN V("cos", <<l>>, copied[l]) ELSE Wild

(* RFUT: the entries are multiplied by the signs D, and the vectors        *)
(* transformed; the inverse transforms and then multiplies.                *)
Signed(v) == [n \in DOMAIN v |->
                IF v[n].op = "D" /\ v[n].at = <<n - 1>> THEN v[n].of[1]
                ELSE V("D", <<n - 1>>, <<v[n]>>)]

FUT(v) == [n \in DOMAIN v |-> V("FUT", <<n - 1>>, v)]

FUT_inverse(v) ==
  IF v = FUT(v[1].of) THEN v[1].of ELSE [n \in DOMAIN v |-> Wild]

RFUT_kernel(v, l) == Item(FUT(Signed(v)), l)
RFUT_inverse(v, l) == Item(Signed(FUT_inverse(v)), l)

(* FJLT: the entries sampled from the vectors that were mixed.             *)
FJLT_sample(v, l) == Item(v, Item(task.samples, l))

(***************************************************************************)
(* What the classes do, by the distribution of A and the dimension: apply  *)
(* a kernel to the local matrices (everywhere, or at the root of a CIRC,   *)
(* CIRC matrix), transpose or redistribute and call themselves, mix and    *)
(* sample, change the entries of a dense sketch, or refuse.                *)
(***************************************************************************)
Way(how, dist, dim) == [how |-> how, dist |-> dist, dim |-> dim]

Local == Way("local", None.dist, "")
AtRoot == Way("root", None.dist, "")
Transpose(dim) == Way("transpose", None.dist, dim)
Redistribute(dist, dim) == Way("redistribute", dist, dim)
Mix(dist) == Way("mix", dist, "")
Refuse == Way("refuse", None.dist, "")

STAR_VR == <<"STAR", "VR">>
VC_STAR == <<"VC", "STAR">>

UST_STAR_STAR == Local
UST_CIRC == AtRoot
UST_V_STAR(dim) == IF dim = "rowwise" THEN Local ELSE Transpose("rowwise")
UST_STAR_V_again(dim) == \* mutant: the call for the transposed matrix is the same
  IF dim = "columnwise" THEN Local ELSE Transpose("rowwise")
UST_STAR_V(dim) == IF dim = "columnwise" THEN Local ELSE Transpose("columnwise")
UST_MC_MR_columnwise(dim) == \* mutant: whatever the dimension
  Redistribute(IF dim = "columnwise" THEN STAR_VR ELSE VC_STAR, "columnwise")
UST_MC_MR(dim) == Redistribute(IF dim = "columnwise" THEN STAR_VR ELSE VC_STAR, dim)

FastRFT_STAR_STAR == Local
FastRFT_CIRC == AtRoot
FastRFT_V_STAR(dim) == IF dim = "rowwise" THEN Local ELSE Transpose("rowwise")
FastRFT_STAR_V(dim) == IF dim = "columnwise" THEN Local ELSE Transpose("rowwise")
FastRFT_MC_MR(dim) ==
  Redistribute(IF dim = "columnwise" THEN STAR_VR ELSE VC_STAR, dim)

PPT_sparse(dim) == IF dim = "columnwise" THEN Local ELSE Transpose("columnwise")
PPT_STAR_STAR == Local
PPT_CIRC == AtRoot
PPT_V_STAR(dim) == IF dim = "rowwise" THEN Local ELSE Transpose("rowwise")
PPT_STAR_V(dim) == IF dim = "columnwise" THEN Local ELSE Transpose("rowwise")
PPT_MC_MR(dim) == Redistribute(IF dim = "columnwise" THEN STAR_VR ELSE VC_STAR, dim)

(* Rowwise, the FJLT of a transposed matrix is transposed.                 *)
FJLT_V_STAR_to_STAR_STAR(V_, dim) ==
  IF dim = "columnwise" THEN Mix(<<"STAR", V_>>) ELSE Transpose("columnwise")
FJLT_V_STAR_to_CIRC(V_, dim) ==
  IF dim = "columnwise" THEN Mix(<<"STAR", V_>>) ELSE Transpose("columnwise")
FJLT_STAR_V_to_STAR_STAR(V_, dim) ==
  IF dim = "columnwise" THEN Mix(<<"STAR", V_>>) ELSE Transpose("columnwise")
FJLT_STAR_V_to_CIRC(V_, dim) ==
  IF dim = "columnwise" THEN Mix(<<"STAR", V_>>) ELSE Transpose("columnwise")
FJLT_MC_MR(dim) ==
  IF dim = "columnwise" THEN Mix(STAR_VR) ELSE Transpose("columnwise")

RFUT_matrix == Local
RFUT_STAR_V == Local
RFUT_V_STAR(V_, dim) == IF dim = "rowwise" THEN Local ELSE Mix(<<"STAR", V_>>)

Same == {LOCAL_M, S_S, CIRC_CIRC, MC_MR} \cup ColDists \cup RowDists

WayOf(family, dist, dim) ==
  CASE family \in Features -> Way("dense", None.dist, "")
    [] family \notin Features /\ dist \in {OTHER_C, OTHER_R} -> Refuse
    [] family \notin Features /\ dist = LOCAL_M -> Local
    [] family = "UST" /\ dist \in Same \ {LOCAL_M} ->
        (CASE dist = S_S -> UST_STAR_STAR [] dist = CIRC_CIRC -> UST_CIRC
           [] dist = MC_MR -> UST_MC_MR(dim)
           [] dist \in ColDists -> UST_V_STAR(dim)
           [] dist \in RowDists -> UST_STAR_V(dim))
    [] family \in Fastfood /\ dist = LOCAL_SPARSE -> Local
    [] family \in Fastfood /\ dist \in Same \ {LOCAL_M} ->
        (CASE dist = S_S -> FastRFT_STAR_STAR [] dist = CIRC_CIRC -> FastRFT_CIRC
           [] dist = MC_MR -> FastRFT_MC_MR(dim)
           [] dist \in ColDists -> FastRFT_V_STAR(dim)
           [] dist \in RowDists -> FastRFT_STAR_V(dim))
    [] family = "PPT" /\ dist = LOCAL_SPARSE -> PPT_sparse(dim)
    [] family = "PPT" /\ dist \in Same \ {LOCAL_M} ->
        (CASE dist = S_S -> PPT_STAR_STAR [] dist = CIRC_CIRC -> PPT_CIRC
           [] dist = MC_MR -> PPT_MC_MR(dim)
           [] dist \in ColDists -> PPT_V_STAR(dim)
           [] dist \in RowDists -> PPT_STAR_V(dim))
    [] family = "FJLT" /\ dist = MC_MR -> FJLT_MC_MR(dim)
    [] family = "FJLT" /\ dist \in ColDists ->
         IF task.output = S_S THEN FJLT_V_STAR_to_STAR_STAR(dist[1], dim)
         ELSE FJLT_V_STAR_to_CIRC(dist[1], dim)
    [] family = "FJLT" /\ dist \in RowDists ->
         IF task.output = S_S THEN FJLT_STAR_V_to_STAR_STAR(dist[2], dim)
         ELSE FJLT_STAR_V_to_CIRC(dist[2], dim)
    [] family \in Mixing /\ dist \in RowDists -> RFUT_STAR_V
    [] family \in Mixing /\ dist \in ColDists -> RFUT_V_STAR(dist[1], dim)

(***************************************************************************)
(* What each class can be applied to, and into: <<family, input, output,   *)
(* dimension>>.                                                            *)
(***************************************************************************)
Dimensions == {"columnwise", "rowwise"}
Others == {OTHER_C, OTHER_R}
Vectors == ColDists \cup RowDists

Applications ==
  ({"UST"} \cup Fastfood \cup {"PPT"})
      \X {<<d, d>> : d \in Same \cup Others} \X Dimensions
  \cup Fastfood \X {<<LOCAL_SPARSE, LOCAL_M>>} \X Dimensions
  \cup {"PPT"} \X {<<LOCAL_SPARSE, LOCAL_M>>} \X Dimensions
  \cup {"FJLT"} \X ({<<MC_MR, MC_MR>>} \cup (Vectors \cup Others) \X {S_S, CIRC_CIRC})
      \X Dimensions
  \cup Features
      \X ({<<d, d>> : d \in Same \ {CIRC_CIRC}}
            \cup ({MC_MR} \cup Vectors) \X {S_S, CIRC_CIRC})
      \X Dimensions
  \cup {"RFUT"} \X {<<d, d>> : d \in {LOCAL_M, OTHER_R} \cup RowDists}
      \X {"columnwise"}
  \cup {"RFUT"} \X {<<d, d>> : d \in ColDists \cup {OTHER_C}} \X Dimensions
  \cup {"RFUT inverse"} \X {<<d, d>> : d \in ColDists \cup {OTHER_C}}
      \X {"columnwise"}

(* Transposed, these matrices go to the function that transposed them.     *)
CallThemselves ==
  (Fastfood \cup {"PPT"}) \X {<<d, d>> : d \in RowDists} \X {"rowwise"}

ASSUME LeftAssumption == Left \subseteq Applications

(* The vectors of A: kept index m, place n.                                *)
Given(m) == [n \in 1 .. task.N |-> V("A", <<n - 1, m>>, << >>)]

Argument(m) == IF task.family = "RFUT inverse" THEN FUT(Signed(Given(m)))
               ELSE Given(m)

Call(A, out, dim) == [A |-> A, out |-> out, dim |-> dim, step |-> "called"]

Start == IF task.dim = "columnwise"
         THEN Matrix(task.input, task.N, task.M, LAMBDA p, i, j : Argument(j)[i + 1])
         ELSE Matrix(task.input, task.M, task.N, LAMBDA p, i, j : Argument(i)[j + 1])

Init ==
  /\ \E app \in {a \in Applications : a[1] \in Families} \ Left, size \in Sizes,
        grid \in Grids :
       /\ app[1] \in Mixing => size[1] = size[2]
       /\ \E samples \in IF app[1] \in {"UST", "FJLT"}
                         THEN [1 .. size[2] -> 0 .. size[1] - 1] ELSE {<< >>} :
            task = [family |-> app[1], input |-> app[2][1], output |-> app[2][2],
                    dim |-> app[3], grid |-> grid, N |-> size[1], S |-> size[2],
                    M |-> size[3], samples |-> samples]
  /\ calls = << Call(Start, task.output, task.dim) >>
  /\ sketch = None
  /\ phase = "applying"

(***************************************************************************)
(* The innermost call.                                                     *)
(***************************************************************************)
Top == calls[Len(calls)]

At(how) == /\ phase = "applying" /\ Top.step = "called"
           /\ WayOf(task.family, Top.A.dist, Top.dim).how = how

Chosen == WayOf(task.family, Top.A.dist, Top.dim)

Kernel(v, l) ==
  CASE task.family = "UST" -> UST_local(v, l)
    [] task.family = "PPT" -> PPT_local(v, l)
    [] task.family \in Fastfood /\ Top.dim = "columnwise" ->
         FastRFT_local_columnwise(v, l)
    [] task.family \in Fastfood /\ Top.dim = "rowwise" -> FastRFT_local_rowwise(v, l)
    [] task.family = "RFUT" -> RFUT_kernel(v, l)
    [] task.family = "RFUT inverse" -> RFUT_inverse(v, l)

Return(result) ==
  /\ sketch' = result
  /\ calls' = Front(calls)
  /\ phase' = IF Len(calls) = 1 THEN "returned" ELSE phase
  /\ UNCHANGED task

Becomes(A, step) ==
  /\ calls' = [calls EXCEPT ![Len(calls)].A = A, ![Len(calls)].step = step]
  /\ UNCHANGED <<task, sketch, phase>>

Nested(A, out, dim) ==
  /\ Len(calls) < MaxCalls
  /\ calls' = Append([calls EXCEPT ![Len(calls)].step = "waiting"],
                     Call(A, out, dim))
  /\ UNCHANGED <<task, sketch, phase>>

(* A view of rows the sketch has not, in a build that checks views.        *)
ViewRefused ==
  /\ ViewsChecked
  /\ task.family = "PPT" /\ Top.dim = "columnwise" /\ Chosen.how \in {"local", "root"}
  /\ ~ PPT_view \subseteq 0 .. task.S - 1

ApplyLocally ==
  /\ At("local") /\ ~ ViewRefused
  /\ Return(LocalApply(Top.A, Top.out, Top.dim, task.S, Kernel))

ApplyAtRoot ==
  /\ At("root") /\ ~ ViewRefused
  /\ Return(LocalApply(Top.A, Top.out, Top.dim, task.S, Kernel))

ApplyToTransposed ==
  /\ At("transpose")
  /\ Nested(Transposed(Top.A, Top.A.dist), Top.out, Chosen.dim)

ApplyRedistributed ==
  /\ At("redistribute")
  /\ Nested(Copied(Top.A, Chosen.dist), Chosen.dist, Chosen.dim)

(* What a nested call has left becomes the sketch of the one that made it. *)
TakeResult ==
  /\ phase = "applying" /\ Top.step = "waiting"
  /\ Return(IF Chosen.how = "transpose" THEN Transposed(sketch, Top.out)
            ELSE Copied(sketch, Top.out))

(***************************************************************************)
(* FJLT, and RFUT when the vectors are cut: whole vectors are brought      *)
(* together, mixed in place, sampled, and copied where they belong.        *)
(***************************************************************************)
Rearrange == /\ At("mix")
             /\ Becomes(Copied(Top.A, Chosen.dist), "rearranged")

MixInPlace ==
  /\ phase = "applying" /\ Top.step = "rearranged"
  /\ Becomes(LocalApply(Top.A, Top.A.dist, "columnwise", task.N,
                        LAMBDA v, l : IF task.family = "RFUT inverse"
                                      THEN RFUT_inverse(v, l)
                                      ELSE RFUT_kernel(v, l)), "mixed")

Sample ==
  /\ phase = "applying" /\ Top.step = "mixed" /\ task.family = "FJLT"
  /\ Becomes(LocalApply(Top.A, Top.A.dist, "columnwise", task.S, FJLT_sample),
             "sampled")

CopyOut ==
  /\ phase = "applying"
  /\ Top.step = IF task.family = "FJLT" THEN "sampled" ELSE "mixed"
  /\ Return(Copied(Top.A, Top.out))

(***************************************************************************)
(* Random features: the underlying dense sketch, whatever its strategy     *)
(* (DenseApply), and then its entries, each process those it holds.  In a  *)
(* distributed matrix the position of an entry is turned into the index of *)
(* the feature.                                                            *)
(***************************************************************************)
Columnwise == Top.dim = "columnwise"

Underlying ==
  /\ At("dense")
  /\ LET A == Top.A
         R(s, k) == V("R", <<s>>, [n \in 1 .. task.N |->
                        LET at == Along(Top.dim, n - 1, k)
                        IN  Entry(A, at[1], at[2])])
     IN  Becomes(IF Columnwise
                 THEN Matrix(Top.out, task.S, A.w, LAMBDA p, i, j : R(i, j))
                 ELSE Matrix(Top.out, A.h, task.S, LAMBDA p, i, j : R(j, i)),
                 "dense")

\* mutant: the shift of the process is left out
StridedUnshifted(d, p, l) == l * StrideOf(task.grid, d)
Strided(d, p, l) == RankOf(task.grid, d, p) + l * StrideOf(task.grid, d)

RFT_entry(k, x) == V("cos", <<k>>, <<V("scale", <<k>>, <<x>>)>>)
QRFT_entry(k, x) == V("cos", <<k>>, <<x>>)
RLT_entry(x) == V("exp", << >>, <<x>>)
QRLT_entry(x) == V("exp", << >>, <<x>>)

RFT_local(p, l, x) == RFT_entry(l, x)
RFT_columnwise(p, l, x) == RFT_entry(Strided(Top.out[1], p, l), x)
RFT_rowwise(p, l, x) == RFT_entry(Strided(Top.out[2], p, l), x)
QRFT_local(p, l, x) == QRFT_entry(l, x)
QRFT_columnwise(p, l, x) == QRFT_entry(Strided(Top.out[1], p, l), x)
QRFT_rowwise(p, l, x) == QRFT_entry(Strided(Top.out[2], p, l), x)

Changed(p, l, x) ==
  CASE task.family = "RFT" ->
         IF Top.out = LOCAL_M THEN RFT_local(p, l, x)
         ELSE IF Columnwise THEN RFT_columnwise(p, l, x) ELSE RFT_rowwise(p, l, x)
    [] task.family = "QRFT" ->
         IF Top.out = LOCAL_M THEN QRFT_local(p, l, x)
         ELSE IF Columnwise THEN QRFT_columnwise(p, l, x) ELSE QRFT_rowwise(p, l, x)
    [] task.family = "RLT" -> RLT_entry(x)
    [] task.family = "QRLT" -> QRLT_entry(x)

Elementwise ==
  /\ phase = "applying" /\ Top.step = "dense"
  /\ LET SA == Top.A
         place(p, i, j) == IF Columnwise THEN Place(i, Rows(SA.dist, SA.h, p))
                           ELSE Place(j, Cols(SA.dist, SA.w, p))
     IN  Return(Matrix(SA.dist, SA.h, SA.w,
                       LAMBDA p, i, j : Changed(p, place(p, i, j),
                                                SA.at[p][<<i, j>>])))

(* unsupported_matrix_distribution, or what Elemental throws               *)
Refuses == Chosen.how = "refuse" \/ ViewRefused

Refused ==
  /\ phase = "applying" /\ Top.step = "called" /\ Refuses
  /\ phase' = "thrown"
  /\ UNCHANGED <<task, calls, sketch>>

Next == \/ ApplyLocally \/ ApplyAtRoot
        \/ ApplyToTransposed \/ ApplyRedistributed \/ TakeResult
        \/ Rearrange \/ MixInPlace \/ Sample \/ CopyOut
        \/ Underlying \/ Elementwise \/ Refused
        \/ (phase # "applying" /\ UNCHANGED vars)

Spec == Init /\ [][Next]_vars /\ WF_vars(Next)

(***************************************************************************)
(* Properties.                                                             *)
(***************************************************************************)

(* A call has a matrix of which every process holds its own part, and the  *)
(* class it is made of is one that exists.                                 *)
TypeOK ==
  /\ phase \in {"applying", "returned", "thrown"}
  /\ Len(calls) <= MaxCalls
  /\ \A c \in Range(calls) :
       /\ c.dim \in Dimensions
       /\ c.step \in {"called", "waiting", "rearranged", "mixed", "sampled", "dense"}
       /\ DOMAIN c.A.at = P
       /\ c.step \in {"called", "waiting"} =>
            Along(c.dim, c.A.h, c.A.w) = Along(task.dim, Start.h, Start.w)

(* What the sketch of the vector v is, entry by entry, by the definitions  *)
(* of the transforms (the comments over the classes of the data files).    *)
Wanted(v, s) ==
  LET mixed == FUT(Signed(v))
  IN  CASE task.family = "UST" -> v[task.samples[s + 1] + 1]
        [] task.family = "FJLT" -> mixed[task.samples[s + 1] + 1]
        [] task.family = "RFUT" -> mixed[s + 1]
        [] task.family = "RFUT inverse" -> v[s + 1]
        [] task.family = "PPT" -> V("PPT", <<s>>, v)
        [] task.family \in Fastfood ->
             V("cos", <<s>>,
               <<V("Sm", <<s>>, << >>),
                 V("blocks B, P and G", <<s \div task.N, s % task.N>>, v)>>)
        [] task.family = "RFT" ->
             V("cos", <<s>>, <<V("scale", <<s>>, <<V("R", <<s>>, v)>>)>>)
        [] task.family = "QRFT" -> V("cos", <<s>>, <<V("R", <<s>>, v)>>)
        [] task.family \in {"RLT", "QRLT"} -> V("exp", << >>, <<V("R", <<s>>, v)>>)

(* When apply returns, every process holds its part of the sketch, in the  *)
(* distribution asked for, and every entry is the one the transform defines*)
(* for the whole vector it belongs to: whatever the distribution, the grid *)
(* and the dimension, and however often the matrix was transposed.         *)
Sketched ==
  phase = "returned" =>
    sketch = IF task.dim = "columnwise"
             THEN Matrix(task.output, task.S, task.M,
                         LAMBDA p, i, j : Wanted(Given(j), i))
             ELSE Matrix(task.output, task.M, task.S,
                         LAMBDA p, i, j : Wanted(Given(i), j))

(* apply comes back, and refuses only distributions no class is for.       *)
Returns ==
  /\ <>(phase # "applying")
  /\ [](phase = "thrown" => task.input \in Others)
=============================================================================
