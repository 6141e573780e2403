----------------------------- MODULE HashApply ------------------------------
(***************************************************************************)
(* sketch/hash_transform_*.hpp: applying a hash sketch.  Columnwise, row r *)
(* of A, times row_value[r], is added to row row_idx[r] of the sketch;     *)
(* rowwise the same with columns.  Every process has all of row_idx and    *)
(* row_value; what differs with the types of A and of the sketch is who    *)
(* adds up what, and how it gets to the process that holds the entry:      *)
(* local sums, a reduction, a redistribution before and after, gathered    *)
(* maps, or windows the others read from between fences.                   *)
(*                                                                         *)
(* An entry of the sketch is the list of the terms added up in it, a term  *)
(* <<i, j, k>> being the entry (i, j) of A times row_value[k].             *)
(***************************************************************************)
EXTENDS Elemental, FiniteSetsExt

CONSTANTS Applications, \* <<type of A, type of the sketch>>, see Types
          Grids,        \* process grids <<height, width>>
          Sizes,        \* <<N, M, S>>: hashed dimension, kept one, sketch
          RowIdxs,      \* what row_idx may be: functions into 0 .. S - 1
          Paddings,     \* LDim minus height of a CIRC, CIRC sketch
          Zeros         \* sets of entries a sparse matrix may lack

ASSUME GridsAssumption == Grids \subseteq (Nat \ {0}) \X (Nat \ {0})
ASSUME SizesAssumption ==
  Sizes \subseteq (Nat \ {0}) \X (Nat \ {0}) \X (Nat \ {0})
ASSUME PaddingsAssumption == Paddings \subseteq Nat

Matrix == <<"El::Matrix">>               \* of one process
SparseMatrix == <<"sparse_matrix_t">>    \* of one process
VCStar == <<"sparse_vc_star_matrix_t">>
SpParMat == <<"SpParMat">>
MultiVec == <<"FullyDistMultiVec">>

VARIABLES task,   \* what is applied to what: never changes
          step,   \* how many of its collective calls each process has entered
          sums,   \* what each process has made of its entries for the others
          offset, \* the part of another's sums it reads next
          out     \* the sketch: the part of each process

vars == <<task, step, sums, offset, out>>

Columnwise == task.tag = "columnwise"

Rank == ProcessesOf(task.grid)
P == task.grid[1] * task.grid[2]
Process(v) == <<v % task.grid[1], v \div task.grid[1]>>
Number(grid, p) == p[1] + p[2] * grid[1]         \* its rank among all
Root == <<0, 0>>
Everyone == [v \in 1 .. P |-> Process(v - 1)]

(***************************************************************************)
(* Extents: of A, and of the sketch (get_res_size).                        *)
(***************************************************************************)
ExtentsOf(tag, N, M) == IF tag = "columnwise" THEN <<N, M>> ELSE <<M, N>>

SHeight == ExtentsOf(task.tag, task.size[3], task.size[2])[1]
SWidth == ExtentsOf(task.tag, task.size[3], task.size[2])[2]

Positions(height, width) == (0 .. height - 1) \X (0 .. width - 1)

(***************************************************************************)
(* finalPos and getValue: where the entry at <<i, j>> of A goes, and what  *)
(* it is multiplied with.                                                  *)
(***************************************************************************)
FinalPos(at) == IF Columnwise THEN <<task.row_idx[at[1]], at[2]>>
                ELSE <<at[1], task.row_idx[at[2]]>>

Term(at) == <<at[1], at[2], IF Columnwise THEN at[1] ELSE at[2]>>

(***************************************************************************)
(* CombBLAS: blocks of rows and columns, on a square grid numbered row by  *)
(* row; the last block takes what is left over.  The elements of a         *)
(* FullyDistVec are dealt out consecutively.                               *)
(***************************************************************************)
Place(grid, p) == <<Number(grid, p) \div grid[1], Number(grid, p) % grid[1]>>

Block(side, extent, place) ==
  LET first == (extent \div side) * place
  IN  IF place = side - 1 THEN first .. extent - 1
      ELSE first .. first + extent \div side - 1

Consecutive(grid, extent, p) ==
  {i \in 0 .. extent - 1 :
     (i * grid[1] * grid[2]) \div extent = Number(grid, p)}

(***************************************************************************)
(* What a process holds of a matrix of some type.                          *)
(***************************************************************************)
Distributed == {MC_MR} \cup ColDists \cup RowDists
Whole == {Matrix, SparseMatrix}

HeldOf(grid, type, extents, p) ==
  CASE type \in Distributed \cup {S_S, CIRC_CIRC} ->
         Range(Dealt(grid, type[1], <<0, extents[1]>>, p))
           \X Range(Dealt(grid, type[2], <<0, extents[2]>>, p))
    [] type = VCStar ->
         Range(Dealt(grid, "VC", <<0, extents[1]>>, p)) \X (0 .. extents[2] - 1)
    [] type = SpParMat -> Block(grid[1], extents[1], Place(grid, p)[1])
                            \X Block(grid[1], extents[2], Place(grid, p)[2])
    [] type = MultiVec ->
         Consecutive(grid, extents[1], p) \X (0 .. extents[2] - 1)
    [] type \in Whole ->
         IF p = Root THEN Positions(extents[1], extents[2]) ELSE {}

(***************************************************************************)
(* The pairs of types hash_transform_t is specialized for, and how each is *)
(* handled.  Of what the templates to CIRC, CIRC and STAR, STAR take, that *)
(* leaves out matrices whose communicator is not that of all processes (of *)
(* which several hold the same entries, or some none), but for STAR, STAR  *)
(* to itself: they would be reduced within a part of the processes, and to *)
(* a root that is not the one that holds the sketch.                       *)
(***************************************************************************)
Types ==
  {<<Matrix, Matrix>>, <<SparseMatrix, Matrix>>, <<SparseMatrix, SparseMatrix>>,
   <<SpParMat, SpParMat>>, <<SpParMat, Matrix>>, <<SpParMat, SparseMatrix>>,
   <<SpParMat, S_S>>, <<MultiVec, MultiVec>>, <<S_S, S_S>>}
    \cup Distributed \X {CIRC_CIRC, S_S}
    \cup {<<d, d>> : d \in Distributed}
    \cup {VCStar, SpParMat} \X Distributed

ASSUME ApplicationsAssumption == Applications \subseteq Types

MethodOf(input, output, tag) ==
  CASE input \in Whole /\ output = Matrix -> "local"
    [] input = SparseMatrix /\ output = SparseMatrix -> "compress"
    [] output = CIRC_CIRC -> "reduce"
    [] input \in Distributed \cup {S_S} /\ output = S_S -> "all_reduce"
    [] input \in ColDists /\ output = input ->
         IF tag = "rowwise" THEN "local" ELSE "redistribute"
    [] input \in RowDists /\ output = input ->
         IF tag = "columnwise" THEN "local" ELSE "redistribute"
    [] input = MC_MR /\ output = MC_MR -> "redistribute"
    [] input = SpParMat /\ output \in Whole -> "gather"
    [] input = SpParMat /\ output = S_S -> "all_gather"
    [] input = MultiVec -> "vectors"
    [] OTHER -> "window"

Method == MethodOf(task.input, task.output, task.tag)

(* These only add to the sketch: it is the caller who has zeroed it.       *)
Accumulates == \/ Method = "window" /\ task.output # SpParMat
               \/ Method = "gather" /\ task.output = Matrix
               \/ Method = "all_gather"

Sparse == task.output \in {SparseMatrix, SpParMat}

Junk == << <<"junk">> >>   \* what memory held before; never a sum

LacksEntries(type) == type \in {SparseMatrix, VCStar, SpParMat}

(***************************************************************************)
(* CombBLAS has square grids.  owner() divides by the rows and columns a   *)
(* process has of the sketch, so there have to be some.  Multi-vectors may *)
(* be of other sizes than N, S and one another's (~ sized).                *)
(***************************************************************************)
Fits(app, grid, extents) ==
  /\ app[1] \in Whole => grid = <<1, 1>>
  /\ app[1] \in {SpParMat, MultiVec} => grid[1] = grid[2]
  /\ app[2] = SpParMat => extents[1] >= grid[1] /\ extents[2] >= grid[1]

Init ==
  /\ \E app \in Applications, size \in Sizes, tag \in {"rowwise", "columnwise"},
        grid \in Grids :
       LET extents == ExtentsOf(tag, size[1], size[2])
           sketch == ExtentsOf(tag, size[3], size[2])
       IN  /\ app[1] = MultiVec => tag = "columnwise"
           /\ Fits(app, grid, sketch)
           /\ \E row_idx \in RowIdxs \cap [0 .. size[1] - 1 -> 0 .. size[3] - 1],
                 pad \in (IF app[2] = CIRC_CIRC THEN Paddings ELSE {0}),
                 sized \in (IF app[1] = MultiVec THEN BOOLEAN ELSE {TRUE}),
                 zeros \in (IF LacksEntries(app[1]) THEN Zeros ELSE {{}}) :
                task = [input |-> app[1], output |-> app[2], tag |-> tag,
                        size |-> size, grid |-> grid, row_idx |-> row_idx,
                        pad |-> pad, sized |-> sized,
                        A |-> [p \in ProcessesOf(grid) |->
                                 HeldOf(grid, app[1], extents, p) \ zeros],
                        SA |-> [p \in ProcessesOf(grid) |->
                                  HeldOf(grid, app[2], sketch, p)]]
  /\ step = [p \in Rank |-> 0]
  /\ sums = [p \in Rank |-> << >>]
  /\ offset = [p \in Rank |-> <<0, 0>>]
  /\ out = [p \in Rank |->
              IF Sparse THEN Junk
              ELSE [at \in task.SA[p] |-> IF Accumulates THEN << >> ELSE Junk]]

(***************************************************************************)
(* The entry at <<i, j>> of A goes to FinalPos; a process adds up what it  *)
(* has for an entry of the sketch, in a dense matrix that is zero          *)
(* elsewhere or in a map of what is not.                                   *)
(***************************************************************************)
TermsAt(E, at) == SetToSeq({Term(e) : e \in {e \in E : FinalPos(e) = at}})

SumsOver(E, part) == [at \in part |-> TermsAt(E, at)]

SA_part(p) == SumsOver(task.A[p], Positions(SHeight, SWidth))

(* The sums of a group of processes, added up by a reduction.              *)
Reduced(group, at) == FlattenSeq([v \in 1 .. Len(group) |-> sums[group[v]][at]])

(* The numbers of a set, in ascending order.                               *)
InOrder(E) ==
  LET bound == IF E = {} THEN 0 ELSE Max(E) + 1
      among[n \in 0 .. bound] ==      \* those below n
        IF n = 0 THEN << >>
        ELSE IF n - 1 \in E THEN Append(among[n - 1], n - 1) ELSE among[n - 1]
  IN  among[bound]

(***************************************************************************)
(* Compressed sparse columns.  met lists what is added, <<row, column,     *)
(* terms>>, column by column; idx_map, reset after each column, says which *)
(* place in the arrays the row has been given, if it has been met in the   *)
(* column.  Slot is the index in met of what the place was made for.       *)
(***************************************************************************)
Slot(met, k) == Min({j \in 1 .. k : met[j][1] = met[k][1] /\ met[j][2] = met[k][2]})

Compress(met) ==
  LET places == InOrder({k \in 1 .. Len(met) : Slot(met, k) = k})
      terms(place) == FlattenSeq([k \in 1 .. Len(met) |->
                                    IF Slot(met, k) = place THEN met[k][3] ELSE << >>])
  IN  [l \in 1 .. Len(places) |-> [at |-> <<met[places[l]][1], met[places[l]][2]>>,
                                  terms |-> terms(places[l])]]


(* What is met in column c of the sketch; rowwise, in the columns of A that*)
(* inv_mapping gives for it.                                               *)
Met(c) ==
  LET from == IF Columnwise THEN <<c>>
              ELSE InOrder({j \in DOMAIN task.row_idx : task.row_idx[j] = c})
      rows(j) == InOrder({e[1] : e \in {e \in task.A[Root] : e[2] = j}})
  IN  FlattenSeq([k \in DOMAIN from |->
        [l \in DOMAIN rows(from[k]) |->
           LET e == <<rows(from[k])[l], from[k]>>
           IN  <<FinalPos(e)[1], c, <<Term(e)>> >>]])

MetLocally == FlattenSeq([c \in 1 .. SWidth |-> Met(c - 1)])

(***************************************************************************)
(* Gathered maps: col_values of a process, keyed column by column, and     *)
(* create_local_sp_mat, which merges those of all processes.               *)
(***************************************************************************)
Key(at) == at[2] * SHeight + at[1]

AtKey(key) == <<key % SHeight, key \div SHeight>>

ColValues(p) ==
  LET ats == {FinalPos(e) : e \in task.A[p]}
  IN  [key \in {Key(at) : at \in ats} |->
         TermsAt(task.A[p], CHOOSE at \in ats : Key(at) = key)]

(* Update with every entry of every map.                                   *)
Updated(held) ==
  LET of(map, at) == LET keys == SetToSeq({key \in DOMAIN map : AtKey(key) = at})
                     IN  FlattenSeq([k \in DOMAIN keys |-> map[keys[k]]])
  IN  [at \in DOMAIN held |->
         held[at] \o FlattenSeq([v \in 1 .. P |-> of(sums[Process(v - 1)], at)])]

MetInMaps ==
  LET met(c, map) ==
        LET keys == InOrder({key \in DOMAIN map : AtKey(key)[2] = c})
        IN  [k \in DOMAIN keys |-> <<AtKey(keys[k])[1], c, map[keys[k]]>>]
  IN  FlattenSeq([c \in 1 .. SWidth |->
        FlattenSeq([v \in 1 .. P |-> met(c - 1, sums[Process(v - 1)])])])

(***************************************************************************)
(* The buffer of a CIRC, CIRC sketch: columns are reduced one behind the   *)
(* other, then moved apart, the last first, to where LDim puts them.       *)
(***************************************************************************)
CopiedUp(b, lead, ldim, i) ==     \* memcpy, of columns that may overlap
  [x \in DOMAIN b |->
     IF x \notin ldim * i .. ldim * i + lead - 1 THEN b[x]
     ELSE IF ldim * i < lead * (i + 1) THEN Junk
     ELSE b[lead * i + x - ldim * i]]

MovedUp(buffer, lead, ldim, columns) ==
  LET after[n \in 0 .. Len(columns)] ==
        IF n = 0 THEN buffer ELSE CopiedUp(after[n - 1], lead, ldim, columns[n])
  IN  after[Len(columns)]

\* mutant: the first column is moved first
SpacedForward(buffer, lead, ldim) ==
  IF ldim = lead THEN buffer
  ELSE MovedUp(buffer, lead, ldim, [k \in 1 .. SWidth - 1 |-> k])

Spaced(buffer, lead, ldim) ==
  IF ldim = lead THEN buffer
  ELSE MovedUp(buffer, lead, ldim, [k \in 1 .. SWidth - 1 |-> SWidth - k])

ReducedAtRoot ==
  LET ldim == SHeight + task.pad
      buffer == [x \in 0 .. ldim * SWidth - 1 |->
                   IF x < SHeight * SWidth
                   THEN Reduced(Everyone, <<x % SHeight, x \div SHeight>>) ELSE Junk]
      spaced == Spaced(buffer, SHeight, ldim)
  IN  [at \in task.SA[Root] |-> spaced[at[2] * ldim + at[1]]]

(***************************************************************************)
(* Redistribution: the kept dimension is dealt out by V, and a process     *)
(* sketches all of the rows or columns it then has.  MC, MR becomes        *)
(* STAR, VR or VC, STAR; the others are transposed in their distribution.  *)
(***************************************************************************)
V == CASE task.input = MC_MR -> IF Columnwise THEN "VR" ELSE "VC"
       [] task.input \in ColDists -> task.input[1]
       [] task.input \in RowDists -> task.input[2]

Kept(at) == IF Columnwise THEN at[2] ELSE at[1]

Moved(at, p) == Kept(at) % StrideOf(task.grid, V) = RankOf(task.grid, V, p)

MovedBack(p) ==
  [at \in task.SA[p] |->
     LET q == CHOOSE q \in Rank : Moved(at, q)
     IN  TermsAt({e \in UNION {task.A[r] : r \in Rank} : Moved(e, q)}, at)]

(***************************************************************************)
(* Windows.  owner: the rank of the process that holds row i, column j of  *)
(* the sketch.  For CombBLAS the rows are divided by the rows per process, *)
(* and what is beyond the last block belongs to it.                        *)
(***************************************************************************)
Owner(i, j) ==
  LET H == task.grid[1]
      W == task.grid[2]
      last(x) == IF x < H THEN x ELSE H - 1
  IN  CASE task.output = MC_MR -> (j % W) * H + (i % H)
        [] task.output = <<"STAR", "VR">> -> ((j \div W) % H) + (j % W) * H
        [] task.output = <<"VR", "STAR">> -> ((i \div W) % H) + (i % W) * H
        [] task.output = <<"STAR", "VC">> -> j % (H * W)
        [] task.output = <<"VC", "STAR">> -> i % (H * W)
        [] task.output = SpParMat ->
             last(i \div (SHeight \div H)) * H + last(j \div (SWidth \div H))

Pos(at) == at[1] * SWidth + at[2]           \* getPos

AtPos(pos) == <<pos \div SWidth, pos % SWidth>>

(* The positions among given ones that belong to rank v, each in a slot of *)
(* its own (a set's order, or that of a map's insertions: no matter which).*)
Slots(positions, v) ==
  InOrder({pos \in positions : Owner(AtPos(pos)[1], AtPos(pos)[2]) = v})

\* mutant: how many there are for each rank, not where they start
Counts(slots) == <<0>> \o [v \in 1 .. P |-> Len(slots[v])]

StartIdx(slots) ==
  [v \in 1 .. P + 1 |-> SumFunction([w \in 1 .. v - 1 |-> Len(slots[w])])]

(* The indices p exposes, and the sum at each of them.                     *)
Cells(p, indices) ==
  [k \in DOMAIN indices |-> [pos |-> indices[k],
                             terms |-> TermsAt(task.A[p], AtPos(indices[k]))]]

(* What p exposes: proc_start_idx, and the cells it points to.             *)
Targets(p) ==
  LET positions == {Pos(FinalPos(e)) : e \in task.A[p]}
  IN  [v \in 1 .. P |-> Slots(positions, v - 1)]

Arrays(p, targets) ==
  [proc_start_idx |-> StartIdx(targets), cells |-> Cells(p, FlattenSeq(targets))]

(* The last call, from which a process returns.  For multi-vectors whose   *)
(* sizes do not agree there is none: it returns at once, and says nothing. *)
Final == CASE Method \in {"local", "compress"} -> 1
           [] Method \in {"reduce", "all_reduce", "gather", "all_gather"} -> 2
           [] Method = "redistribute" -> 3
           [] Method = "vectors" -> IF task.sized THEN task.size[2] + 1 ELSE 1
           [] Method = "window" -> 2 * P + 4

(***************************************************************************)
(* In the loop of the window method, a process is in the fence that ends   *)
(* its reading offsets from rank Pass(p), or in those that end its reading *)
(* indices and values from there.                                          *)
(***************************************************************************)
Reads(p) == Method = "window" /\ step[p] \in 2 .. 2 * P + 1
Pass(p) == (step[p] - 2) \div 2
ReadsOffsets(p) == Reads(p) /\ step[p] % 2 = 0
ReadsCells(p) == Reads(p) /\ step[p] % 2 = 1

\* the windows exist, and the arrays have not been destroyed
Exposed(q) == step[q] > 0 /\ step[q] < Final

(* A collective is over when everyone in the communicator has entered it.  *)
Group(p) == IF Method = "all_reduce" /\ task.input = S_S THEN {p} ELSE Rank
AllIn(p) == \A q \in Group(p) : step[q] >= step[p]

Advance(p) == step' = [step EXCEPT ![p] = @ + 1]

Become(p, sketch) == out' = [out EXCEPT ![p] = sketch]
-----------------------------------------------------------------------------
(***************************************************************************)
(* Local and compressed sketches need nobody else.                         *)
(***************************************************************************)
ApplyLocally(p) ==
  /\ step[p] = 0 /\ Method \in {"local", "compress"}
  /\ \/ Method = "local" /\ Become(p, SumsOver(task.A[p], task.SA[p]))
     \/ /\ Method = "compress"
        /\ \E met \in {MetLocally} : Become(p, Compress(met))
  /\ Advance(p)
  /\ UNCHANGED <<task, sums, offset>>

(* The others make their sums and enter the first collective.              *)
Enter(p) ==
  /\ step[p] = 0 /\ Method \notin {"local", "compress"}
  /\ \/ /\ Method = "window"
        /\ \E targets \in {Targets(p)} : sums' = [sums EXCEPT ![p] = Arrays(p, targets)]
     \/ /\ Method # "window"
        /\ sums' = [sums EXCEPT ![p] =
                      CASE Method \in {"reduce", "all_reduce", "vectors"} -> SA_part(p)
                        [] Method \in {"gather", "all_gather"} -> ColValues(p)
                        [] Method = "redistribute" -> << >>]
  /\ Advance(p)
  /\ UNCHANGED <<task, offset, out>>

(***************************************************************************)
(* reduce and gather: the root waits for everyone, the others may go on,   *)
(* unless getnnz, a collective of its own, is called after it.             *)
(***************************************************************************)
AtRoot ==
  \/ Method = "reduce" /\ Become(Root, ReducedAtRoot)
  \/ /\ Method = "gather" /\ task.output = Matrix
     /\ Become(Root, Updated(out[Root]))
  \/ /\ Method = "gather" /\ task.output = SparseMatrix
     /\ \E met \in {MetInMaps} : Become(Root, Compress(met))

LeaveRooted(p) ==
  /\ step[p] = 1 /\ Method \in {"reduce", "gather"}
  /\ task.output = SparseMatrix => AllIn(p)
  /\ IF p = Root THEN AllIn(p) /\ AtRoot ELSE UNCHANGED out
  /\ Advance(p)
  /\ UNCHANGED <<task, sums, offset>>

LeaveAll(p) ==
  /\ step[p] = 1 /\ Method \in {"all_reduce", "all_gather"}
  /\ AllIn(p)
  /\ Become(p, IF Method = "all_gather" THEN Updated(out[p])
               ELSE LET group == IF task.input = S_S THEN <<p>> ELSE Everyone
                    IN  [at \in task.SA[p] |-> Reduced(group, at)])
  /\ Advance(p)
  /\ UNCHANGED <<task, sums, offset>>

(***************************************************************************)
(* Redistribute A, sketch, redistribute the sketch.                        *)
(***************************************************************************)
Redistribute(p) ==
  /\ step[p] \in {1, 2} /\ Method = "redistribute"
  /\ AllIn(p)
  /\ IF step[p] = 2 THEN Become(p, MovedBack(p)) ELSE UNCHANGED out
  /\ Advance(p)
  /\ UNCHANGED <<task, sums, offset>>

(***************************************************************************)
(* apply_impl_single, vector by vector; SetElement ignores the elements of *)
(* others.                                                                 *)
(***************************************************************************)
NextVector(p) ==
  /\ step[p] \in 1 .. task.size[2] /\ Method = "vectors" /\ task.sized
  /\ AllIn(p)
  /\ Become(p, [at \in task.SA[p] |->
                  IF at[2] = step[p] - 1 THEN Reduced(Everyone, at)
                  ELSE out[p][at]])
  /\ Advance(p)
  /\ UNCHANGED <<task, sums, offset>>

(***************************************************************************)
(* The window method.  Creating the windows; opening their epochs needs no *)
(* waiting.                                                                *)
(***************************************************************************)
WindowsCreated(p) ==
  /\ step[p] = 1 /\ Method = "window"
  /\ AllIn(p)
  /\ IF task.output = SpParMat THEN Become(p, << >>) ELSE UNCHANGED out
  /\ Advance(p)
  /\ UNCHANGED <<task, sums, offset>>

(***************************************************************************)
(* One-sided reads take place at some time before the fence behind them is *)
(* over.  As long as the arrays exist (ReadsExposed) they do not change,   *)
(* so the model reads them as the fence ends.                              *)
(***************************************************************************)
Source(p) == sums[Process(Pass(p))]

OffsetsRead(p) ==
  LET v == Number(task.grid, p)
  IN  /\ ReadsOffsets(p)
      /\ AllIn(p)
      /\ offset' = [offset EXCEPT ![p] = <<Source(p).proc_start_idx[v + 1],
                                          Source(p).proc_start_idx[v + 2]>>]
      /\ Advance(p)
      /\ UNCHANGED <<task, sums, out>>

(* UpdateLocal, or add to the tuples, of which each position has one.      *)
UpdatedBy(cells, held) ==
  [at \in DOMAIN held |->
     held[at] \o FlattenSeq([k \in DOMAIN cells |->
                               IF AtPos(cells[k].pos) = at THEN cells[k].terms
                               ELSE << >>])]

\* mutant: a position another process has sent is added once more
AppendTuple(tuples, at, terms) == Append(tuples, [at |-> at, terms |-> terms])

AddTuple(tuples, at, terms) ==
  IF \E k \in DOMAIN tuples : tuples[k].at = at
  THEN [k \in DOMAIN tuples |->
          IF tuples[k].at = at THEN [tuples[k] EXCEPT !.terms = @ \o terms]
          ELSE tuples[k]]
  ELSE Append(tuples, [at |-> at, terms |-> terms])

(* cb_my_row_offset, cb_my_col_offset *)
OffsetOf(p) ==
  <<(SHeight \div task.grid[1]) * Place(task.grid, p)[1],
    (SWidth \div task.grid[1]) * Place(task.grid, p)[2]>>

TuplesBy(cells, p) ==
  LET held[n \in 0 .. Len(cells)] ==
        IF n = 0 THEN out[p]
        ELSE LET at == AtPos(cells[n].pos)
             IN  AddTuple(held[n - 1], <<at[1] - OffsetOf(p)[1],
                                        at[2] - OffsetOf(p)[2]>>, cells[n].terms)
  IN  held[Len(cells)]

Take(p, cells) ==
  Become(p, IF task.output = SpParMat THEN TuplesBy(cells, p)
            ELSE UpdatedBy(cells, out[p]))

\* mutant: waits for something to read, of which there may be nothing
CellsReadIfAny(p) ==
  /\ ReadsCells(p)
  /\ AllIn(p)
  /\ offset[p][1] < offset[p][2]
  /\ Take(p, SubSeq(Source(p).cells, offset[p][1] + 1, offset[p][2]))
  /\ Advance(p)
  /\ UNCHANGED <<task, sums, offset>>

CellsRead(p) ==
  /\ ReadsCells(p)
  /\ AllIn(p)
  /\ \E cells \in {SubSeq(Source(p).cells, offset[p][1] + 1, offset[p][2])} :
       Take(p, cells)
  /\ Advance(p)
  /\ UNCHANGED <<task, sums, offset>>

CloseAtOnce(p) ==      \* mutant: does not wait
  /\ step[p] \in {2 * P + 2, 2 * P + 3} /\ Method = "window"
  /\ Advance(p)
  /\ UNCHANGED <<task, sums, offset, out>>

(* The last fences, and freeing the windows: both wait for everyone.       *)
CloseWindows(p) ==
  /\ step[p] \in {2 * P + 2, 2 * P + 3} /\ Method = "window"
  /\ AllIn(p)
  /\ Advance(p)
  /\ UNCHANGED <<task, sums, offset, out>>

Next == \E p \in Rank :
          \/ ApplyLocally(p) \/ Enter(p) \/ LeaveRooted(p) \/ LeaveAll(p)
          \/ Redistribute(p) \/ NextVector(p) \/ WindowsCreated(p)
          \/ OffsetsRead(p) \/ CellsRead(p) \/ CloseWindows(p)

Spec == Init /\ [][Next]_vars /\ WF_vars(Next)
-----------------------------------------------------------------------------
(***************************************************************************)
(* Properties                                                              *)
(***************************************************************************)

TypeOK ==
  /\ step \in [Rank -> 0 .. Final]
  /\ \A p \in Rank : offset[p] \in Nat \X Nat /\ offset[p][1] <= offset[p][2]
  /\ ~ Sparse => \A p \in Rank : DOMAIN out[p] = task.SA[p]

Returned(p) == step[p] = Final

(* What process p has of the sketch: where, and which terms.               *)
Entries(p) ==
  IF task.output = SpParMat
  THEN {<<t.at[1] + OffsetOf(p)[1], t.at[2] + OffsetOf(p)[2]>> : t \in Range(out[p])}
  ELSE IF Sparse THEN {t.at : t \in Range(out[p])} ELSE DOMAIN out[p]

TermsOf(p, at) ==
  IF ~ Sparse THEN out[p][at]
  ELSE LET shift == IF task.output = SpParMat THEN OffsetOf(p) ELSE <<0, 0>>
           k == CHOOSE k \in DOMAIN out[p] :
                  at = <<out[p][k].at[1] + shift[1], out[p][k].at[2] + shift[2]>>
       IN  out[p][k].terms

(***************************************************************************)
(* The tests' "Compare the sketches": whatever the types, the directions   *)
(* and the grid, when a process has returned it has its part of the sketch *)
(* and nothing else, and every entry has each term of its sum once, with   *)
(* the value of its own row or column; a sparse one has just the entries   *)
(* that have terms.  Multi-vectors are of the sizes they should have.      *)
(***************************************************************************)
Sketched ==
  \A p \in Rank :
    Returned(p) /\ task.sized /\ (Sparse => task.SA[p] # {}) =>
      LET all == UNION {task.A[q] : q \in Rank}
          terms == [at \in task.SA[p] |->
                      {Term(e) : e \in {e \in all : FinalPos(e) = at}}]
      IN  /\ Entries(p) = {at \in task.SA[p] : Sparse => terms[at] # {}}
          /\ \A at \in Entries(p) :
               /\ Range(TermsOf(p, at)) = terms[at]
               /\ Len(TermsOf(p, at)) = Cardinality(terms[at])

(***************************************************************************)
(* "We cannot have duplicated (row/col) pairs in sketch_data"              *)
(* (hash_transform_CombBLAS.hpp): no position is twice in a sparse sketch. *)
(***************************************************************************)
NoDuplicates ==
  \A p \in Rank :
    Sparse /\ task.SA[p] # {} /\ (Returned(p) \/ Reads(p)) =>
      \A j, k \in DOMAIN out[p] : out[p][j].at = out[p][k].at => j = k

(***************************************************************************)
(* A one-sided read is of arrays that exist: no process leaves, and frees  *)
(* what it exposed, while another may still read it.                       *)
(***************************************************************************)
ReadsExposed ==
  \A p, q \in Rank : Reads(p) => Exposed(q)

(***************************************************************************)
(* Every process gets through its collectives and returns.                 *)
(***************************************************************************)
Returns == <>(\A p \in Rank : Returned(p))
=============================================================================
