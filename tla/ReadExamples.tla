---------------------------- MODULE ReadExamples ----------------------------
(***************************************************************************)
(* utility/io/libsvm_io.hpp, utility/io/hdf5_io.hpp and ml/io.hpp: reading *)
(* labelled examples from files and writing them.                          *)
(*                                                                         *)
(* Local readers build a matrix of their own.  Of the distributed ones     *)
(* some read block after block at the root and let Elemental scatter it,   *)
(* one sends out lists of updates to a sparse matrix besides, some deal    *)
(* out shares of consecutive examples in seven messages each.  A session   *)
(* is a sequence of such calls every process makes at its own pace.        *)
(*                                                                         *)
(* A file is one or more texts (a directory has several), a text the lines *)
(* a newline separates: its last line is empty if it ends with one.        *)
(* Values are what they came from: example number and feature number in    *)
(* one, and 0 for the feature in a label.  Examples of a matrix are        *)
(* numbered from 0; its features and targets from 1.                       *)
(***************************************************************************)
EXTENDS Elemental, Integers, FiniteSets

CONSTANTS Cases,    \* [session, file, grid, limits, eager] to begin with
          BlockSize \* blocksize

ASSUME BlockSizeAssumption == BlockSize \in Nat \ {0}

Sequential(s) == Len(s) \in Nat /\ s = [k \in 1 .. Len(s) |-> s[k]]

ASSUME CasesAssumption ==
  \A case \in Cases :
    /\ case.grid \in (Nat \ {0}) \X (Nat \ {0})
    /\ case.limits \in Int \X Int
    /\ Sequential(case.session)
    /\ DOMAIN case.file = {"format", "d", "texts"}
    /\ Sequential(case.file.texts) /\ case.file.texts # <<>>
    /\ \A k \in DOMAIN case.file.texts : Sequential(case.file.texts[k])

VARIABLES grid, session,
          limits, \* <<max_n, min_d>>
          eager,  \* whether MPI buffers messages or send waits for its receive
          file,   \* what is in the file
          rest,   \* the lines the root has not read yet, in its second pass
          box,    \* non_local_updates: entries waiting to be sent, by process
          me,     \* of each process: the call it makes and how far it is
          mail,   \* messages on their way, between each two processes
          held    \* the matrices X and Y of each process

vars == <<grid, session, limits, eager, file, rest, box, me, mail, held>>
given == <<grid, session, limits, eager>>

-----------------------------------------------------------------------------
(* Processes and the parts of a distributed matrix.                        *)

P == grid[1] * grid[2]
Procs == 0 .. P - 1
Place(p) == <<p % grid[1], p \div grid[1]>>

Holds(p, dist, row, col) ==
  /\ row % StrideOf(grid, dist[1]) = RankOf(grid, dist[1], Place(p))
  /\ col % StrideOf(grid, dist[2]) = RankOf(grid, dist[2], Place(p))

(* Of entries <<example, number, value>>, those of p in a matrix with the  *)
(* examples in its rows or its columns.                                    *)
PartOf(p, dist, direction, entries) ==
  {e \in entries : IF direction = "ROWS" THEN Holds(p, dist, e[1], e[2] - 1)
                   ELSE Holds(p, dist, e[2] - 1, e[1])}

(* get_communicator: DistComm of matrices every process has is its own.    *)
Communicator(p, dist) == IF dist \in {S_S, CIRC_CIRC} THEN {p} ELSE Procs

-----------------------------------------------------------------------------
(* Lines and passes over them.                                             *)

Smaller(a, b) == IF a < b THEN a ELSE b
Largest(S) == CHOOSE x \in S : \A y \in S : y <= x

IsBlank(line) == line.kind = "blank"
Ignored(line) == line.kind # "example"
HasFeatures(line) == line.xs # <<>>

WithFeatures(lines) ==
  LET among[n \in 0 .. Len(lines)] ==  \* those of the first n
        IF n = 0 THEN <<>>
        ELSE IF HasFeatures(lines[n]) THEN Append(among[n - 1], lines[n])
        ELSE among[n - 1]
  IN  among[Len(lines)]

Until(lines, Stop(_)) ==
  LET k == SelectInSeq(lines, Stop)
  IN  IF k = 0 THEN lines ELSE SubSeq(lines, 1, k - 1)

FirstOf(lines, max) ==
  IF max = -1 THEN lines ELSE SubSeq(lines, 1, Smaller(max, Len(lines)))

(* All files of a directory, each up to what a reader stops at.            *)
AllOf(texts) == FlattenSeq([k \in DOMAIN texts |-> Until(texts[k], Ignored)])

(* Tokens before the first colon; once more the last one if nothing but a  *)
(* space is left of the line.                                              *)
TargetsOf(line) ==
  Len(line.ys) + IF line.space /\ ~HasFeatures(line) THEN 1 ELSE 0

FeaturesIn(lines) ==
  UNION {{x[1] : x \in Range(lines[k].xs)} : k \in DOMAIN lines}

(* Those before the final colon of a line.                                 *)
FinalFeatures(lines) ==
  {Last(lines[k].xs)[1] : k \in {m \in DOMAIN lines : HasFeatures(lines[m])}}

\* mutant: the number of features is taken from the last example
SizeOfLast(lines, min_d) ==
  [n |-> Len(lines),
   d |-> Largest({0, min_d} \cup
                 (IF lines = <<>> THEN {} ELSE FinalFeatures(<<Last(lines)>>))),
   nt |-> IF lines = <<>> THEN 0 ELSE TargetsOf(lines[1])]

SizeOf(lines, min_d) ==
  [n |-> Len(lines),
   d |-> Largest(FinalFeatures(lines) \cup {0, min_d}),
   nt |-> IF lines = <<>> THEN 0 ELSE TargetsOf(lines[1])]

Entries(lines, first) ==
  UNION {{<<first + k - 1, x[1], x[2]>> : x \in Range(lines[k].xs)} :
           k \in DOMAIN lines}

Labels(lines, first, nt) ==
  UNION {{<<first + k - 1, r, lines[k].ys[r]>> : r \in 1 .. nt} :
           k \in DOMAIN lines}

-----------------------------------------------------------------------------
(* Compressed sparse columns: of sequences of <<index, value>>.            *)

\* mutant: a column starts where the one before it does
CompressedLate(columns) ==
  LET all == FlattenSeq(columns)
  IN  [ptr |-> [c \in 0 .. Len(columns) |->
                  FoldLeftDomain(LAMBDA sum, k : IF k < c
                                   THEN sum + Len(columns[k]) ELSE sum,
                                 0, columns)],
       ind |-> [k \in DOMAIN all |-> all[k][1]],
       val |-> [k \in DOMAIN all |-> all[k][2]]]

Compressed(columns) ==
  LET all == FlattenSeq(columns)
  IN  [ptr |-> [c \in 0 .. Len(columns) |->
                  FoldLeftDomain(LAMBDA sum, k : IF k <= c
                                   THEN sum + Len(columns[k]) ELSE sum,
                                 0, columns)],
       ind |-> [k \in DOMAIN all |-> all[k][1]],
       val |-> [k \in DOMAIN all |-> all[k][2]]]

(* <<column from 0, index, value>> of its entries.                         *)
Uncompressed(csc, width) ==
  UNION {{<<c, csc.ind[k], csc.val[k]>> : k \in csc.ptr[c] + 1 .. csc.ptr[c + 1]} :
           c \in 0 .. width - 1}

Swapped(entries) == {<<e[2], e[1] + 1, e[3]>> : e \in entries}

(* The examples as columns, or the features.                               *)
ByExample(lines) == Compressed([k \in DOMAIN lines |-> lines[k].xs])

ByFeature(lines, d) ==
  Compressed([j \in 1 .. d |->
    FlattenSeq([k \in DOMAIN lines |->
      LET of == SelectSeq(lines[k].xs, LAMBDA x : x[1] = j)
      IN  [m \in DOMAIN of |-> <<k - 1, of[m][2]>>]])])

-----------------------------------------------------------------------------
(* What one process reads for itself.  "clean" is whether the matrix was   *)
(* set to zero before it was filled.                                       *)

Nothing == [n |-> 0, d |-> 0, nt |-> 0, X |-> {}, Y |-> {}, clean |-> TRUE]

Matrices(size, X, Y, clean) ==
  [n |-> size.n, d |-> size.d, nt |-> size.nt, X |-> X, Y |-> Y,
   clean |-> clean]

LocalDense(texts, max_n, min_d) ==
  LET lines == FirstOf(Until(texts[1], Ignored), max_n)
      size == SizeOf(lines, min_d)
  IN  Matrices(size, Entries(lines, 0), Labels(lines, 0, size.nt), FALSE)

Unset == -1  \* what is read from memory nothing was written to
Garbage == <<Unset, Unset, Unset>>

(* The sparse readers, with the examples in rows, look at every token but  *)
(* the first target, and take further targets for features.                *)
TargetsCounted(lines) ==
  UNION {{lines[k].ys[r] : r \in 2 .. Len(lines[k].ys)} : k \in DOMAIN lines}

SparseSize(lines, direction, min_d) ==
  LET size == SizeOf(lines, min_d)
      counted == FeaturesIn(lines) \cup TargetsCounted(lines)
  IN  IF direction = "COLUMNS" THEN size
      ELSE [size EXCEPT !.d = Largest(counted \cup {0, min_d})]

(* Their place in a column stays as it was allocated.                      *)
SparseOf(lines, size, direction) ==
  IF direction = "COLUMNS" THEN Uncompressed(ByExample(lines), size.n)
  ELSE Swapped(Uncompressed(ByFeature(lines, size.d), size.d))
         \cup {<<Unset, y, Unset>> : y \in TargetsCounted(lines) \cap 1 .. size.d}

LocalSparse(texts, direction, max_n, min_d) ==
  LET lines == FirstOf(Until(texts[1], Ignored), max_n)
      size == SparseSize(lines, direction, min_d)
  IN  Matrices(size, SparseOf(lines, size, direction),
               Labels(lines, 0, size.nt), TRUE)

(* The example counter is advanced before it is used: every example goes   *)
(* one place too far, and the last one out of the matrix.                  *)
DirDense(texts, min_d) ==
  LET lines == AllOf(texts)
      size == SizeOf(lines, min_d)
      Inside(entries) == {e \in entries : e[1] < size.n}
  IN  Matrices(size, Inside(Entries(lines, 1)),
               Inside(Labels(lines, 1, size.nt)), FALSE)

(* With the examples in rows, that of the last example is not one; with    *)
(* the examples as columns the entries are put behind those counted.       *)
DirSparse(texts, direction, min_d) ==
  LET lines == AllOf(texts)
      size == SparseSize(lines, direction, min_d)
      X == IF direction = "ROWS" THEN SparseOf(lines, size, direction)
           ELSE IF lines = <<>> THEN {} ELSE {Garbage}
  IN  Matrices(size, {<<e[1] + 1, e[2], e[3]>> : e \in X},
               {e \in Labels(lines, 1, size.nt) : e[1] < size.n}, TRUE)

HdfsDense(texts, min_d) ==
  LET lines == AllOf(texts)
      size == SizeOf(lines, min_d)
  IN  Matrices(size, Entries(lines, 0), Labels(lines, 0, size.nt), FALSE)

(* With the examples as columns, Y is as long as an example has targets,   *)
(* and a line without a colon is read far beyond its end.                  *)
HdfsSparse(texts, direction, min_d) ==
  LET lines == AllOf(texts)
      size == SparseSize(lines, direction, min_d)
      Y == Labels(lines, 0, size.nt)
  IN  IF direction = "ROWS"
      THEN Matrices(size, SparseOf(lines, size, direction), Y, TRUE)
      ELSE Matrices(size, IF WithFeatures(lines) = lines
                          THEN SparseOf(lines, size, direction) ELSE {Garbage},
                    {e \in Y : e[1] < size.nt}, TRUE)

(* Of an HDF5 file, the data set X; with zeros, where it is dense.         *)
HDF5Dense ==
  LET lines == file.texts[1]
  IN  Matrices([n |-> Len(lines), d |-> file.d, nt |-> 0], Entries(lines, 0),
               {}, TRUE)

HDF5Sparse(min_m) ==
  LET lines == file.texts[1]
  IN  Matrices([n |-> Len(lines), nt |-> 0,
                d |-> Largest(FeaturesIn(lines) \cup {min_m})],
               Uncompressed(ByExample(lines), Len(lines)), {}, TRUE)

ReadLocally(c) ==
  LET max_n == limits[1]
      min_d == limits[2]
  IN  CASE c.op = "dense" -> LocalDense(file.texts, max_n, min_d)
        [] c.op = "sparse" ->
             LocalSparse(file.texts, c.direction, max_n, min_d)
        [] c.op = "dir_dense" -> DirDense(file.texts, min_d)
        [] c.op = "dir_sparse" -> DirSparse(file.texts, c.direction, min_d)
        [] c.op = "hdfs_dense" -> HdfsDense(file.texts, min_d)
        [] c.op = "hdfs_sparse" ->
             HdfsSparse(file.texts, c.direction, min_d)
        [] c.op = "hdf5_dense" -> HDF5Dense
        [] c.op = "hdf5_sparse" -> HDF5Sparse(min_d)

-----------------------------------------------------------------------------
(* What the root learns in its first pass, and the lines of its second.    *)

Rooted == {"dist", "dir_dist", "hdfs_dist", "ml_dense", "vc_star", "ml_sparse",
           "ml_hdf5_sparse", "hdf5_dist"}
SizeInHDF5(c) ==
  [n |-> Len(file.texts[1]), nt |-> 1,
   d |-> IF c.op = "ml_hdf5_sparse" THEN Largest({file.d, limits[2]}) ELSE file.d]

Only == file.texts[1]
DistPass == SizeOf(FirstOf(Until(Only, Ignored), limits[1]), limits[2])
DirDistPass == SizeOf(AllOf(file.texts), limits[2])
HdfsDistPass == SizeOf(AllOf(file.texts), limits[2])
VcStarPass ==
  SizeOf(FirstOf(WithFeatures(Until(Only, IsBlank)), limits[1]), limits[2])
MlDensePass == SizeOf(Until(Only, IsBlank), limits[2])
MlSparsePass == SizeOf(WithFeatures(Until(Only, IsBlank)), limits[2])

FirstPass(c) ==
  CASE c.op = "dist" -> DistPass
    [] c.op = "dir_dist" -> DirDistPass
    [] c.op = "hdfs_dist" -> HdfsDistPass
    [] c.op = "vc_star" -> VcStarPass
    [] c.op = "ml_dense" -> MlDensePass
    [] c.op = "ml_sparse" -> MlSparsePass
    [] c.op \in {"ml_hdf5_sparse", "ml_hdf5_dense", "hdf5_dist"} -> SizeInHDF5(c)

SecondPass(c) ==
  CASE c.op = "ml_sparse" -> Until(Only, IsBlank)
    [] c.op = "hdfs_dist" -> AllOf(file.texts)
    [] OTHER -> FlattenSeq(file.texts)

(* The next lines, up to one the reader stops at, which it reads too.      *)
Block(size, Stop(_)) == Until(FirstOf(rest, size), Stop)
LeftAfter(size, Stop(_)) ==
  SubSeq(rest, Smaller(Len(Block(size, Stop)) + 1, size) + 1, Len(rest))

\* mutant: the examples after the last full block are forgotten
BlocksFull(n) ==
  [i \in 1 .. n \div BlockSize |-> <<(i - 1) * BlockSize, BlockSize>>]

(* <<first example, number of examples>> of each block.                    *)
Blocks(n) ==
  [i \in 1 .. n \div BlockSize |-> <<(i - 1) * BlockSize, BlockSize>>]
    \o IF n % BlockSize = 0 THEN <<>>
       ELSE <<<<(n \div BlockSize) * BlockSize, n % BlockSize>>>>

(* A last block of up to twice the size.                                   *)
HDF5Blocks(n) ==
  LET full == IF n < 2 * BlockSize THEN 0 ELSE n \div BlockSize - 1
      left == n - full * BlockSize
  IN  [i \in 1 .. full |-> <<(i - 1) * BlockSize, BlockSize>>]
        \o IF left = 0 THEN <<>> ELSE <<<<full * BlockSize, left>>>>

BlocksOf(c, n) == IF c.op = "hdf5_dist" THEN HDF5Blocks(n) ELSE Blocks(n)

(* examples_allocation.                                                    *)
Allocation(n, p) == n \div P + IF p < n % P THEN 1 ELSE 0
AllocatedBefore(n, p) == p * (n \div P) + Smaller(p, n % P)

(* The seven parts of a share, in the order they are sent.                 *)
Share(lines, d) ==
  LET csc == ByExample(lines)
  IN  <<Len(lines), d, Len(csc.val), csc.ptr, csc.ind, csc.val,
        [k \in DOMAIN lines |-> lines[k].ys[1]]>>

Attached(share) ==
  [n |-> share[1], d |-> share[2], nt |-> 1, clean |-> TRUE,
   X |-> Uncompressed([ptr |-> share[4], ind |-> share[5], val |-> share[6]],
                      share[1]),
   Y |-> {<<k - 1, 1, share[7][k]>> : k \in DOMAIN share[7]}]

(* The distributions of X and Y.                                           *)
DistsOf(c) ==
  CASE c.op \in {"ml_dense", "ml_hdf5_dense"} ->
         [X |-> <<"STAR", "VC">>, Y |-> <<"STAR", "VC">>]
    [] c.op = "vc_star" -> [X |-> <<"VC", "STAR">>, Y |-> c.dist]
    [] OTHER -> [X |-> c.dist, Y |-> c.dist]

-----------------------------------------------------------------------------
(* Writing.                                                                *)

(* One line: the first target and the features that are not zero.          *)
LineOf(X, Y, i) ==
  LET of == {e \in X : e[1] = i}
  IN  [kind |-> "example", space |-> TRUE,
       ys |-> <<(CHOOSE e \in Y : e[1] = i /\ e[2] = 1)[3]>>,
       xs |-> LET js == SetToSortSeq({e[2] : e \in of}, LAMBDA a, b : a < b)
              IN  [k \in DOMAIN js |->
                     <<js[k], (CHOOSE e \in of : e[2] = js[k])[3]>>]]

LinesOf(X, Y, first, count) ==
  [k \in 1 .. count |-> LineOf(X, Y, first + k - 1)]

End == [kind |-> "blank", space |-> FALSE, ys |-> <<>>, xs |-> <<>>]

Text(lines) == [format |-> "libsvm", d |-> 0, texts |-> <<Append(lines, End)>>]
HDF5(format, d, lines) == [format |-> format, d |-> d, texts |-> <<lines>>]

WriteLocally(c) ==
  LET lines == LinesOf(held[0].X, held[0].Y, 0, held[0].n)
  IN  IF c.op = "write" THEN Text(lines)
      ELSE HDF5("hdf5_sparse", held[0].d, lines)

-----------------------------------------------------------------------------
(* Messages.  Those of a pair of processes keep their order if they have   *)
(* the same tag; collective operations are apart from the tagged messages. *)

Collective == -1
Message(tag, what) == [tag |-> tag, what |-> what]

Oldest(p, q, tag) == SelectInSeq(mail[<<p, q>>], LAMBDA m : m.tag = tag)
Has(p, q, tag) == Oldest(p, q, tag) # 0
Received(p, q, tag) == mail[<<p, q>>][Oldest(p, q, tag)].what

Send(p, q, tag, what) ==
  mail' = [mail EXCEPT ![<<p, q>>] = Append(@, Message(tag, what))]

Take(p, q, tag) ==
  mail' = [mail EXCEPT ![<<p, q>>] = RemoveAt(@, Oldest(p, q, tag))]

SendEach(p, to, What(_)) ==
  mail' = [pair \in DOMAIN mail |->
             IF pair[1] = p /\ pair[2] \in to \ {p}
             THEN Append(mail[pair], Message(Collective, What(pair[2])))
             ELSE mail[pair]]

(* MPI_Send returns at once or when its message is received.               *)
Sent(p) ==
  eager \/ \A q \in Procs : \A k \in DOMAIN mail[<<p, q>>] :
             mail[<<p, q>>][k].tag = Collective

-----------------------------------------------------------------------------
Local == {"dense", "sparse", "dir_dense", "dir_sparse", "hdfs_dense",
          "hdfs_sparse", "hdf5_dense", "hdf5_sparse"}
LocalWrites == {"write", "write_hdf5_sparse"}
Shared == {"ml_sparse", "ml_hdf5_sparse"}
InBlocks == {"dist", "dir_dist", "hdfs_dist", "ml_dense", "ml_hdf5_dense",
             "hdf5_dist"}

Call(p) == session[me[p].at]
At(p, pc) == me[p].pc = pc /\ Sent(p)
Finished(p) == me[p].at > Len(session)

NoSize == [n |-> 0, d |-> 0, nt |-> 0]

(* Calls whose sends and receives match: not those that broadcast sizes to *)
(* a communicator of one process but scatter to all (STAR/STAR,            *)
(* CIRC/CIRC), nor HDF5 shares for fewer examples than processes, nor      *)
(* WriteLIBSVM, whose root broadcasts what nobody receives.  No file is    *)
(* written while others may still be opening it.                           *)
Writes == {"write_hdf5", "write_dist"} \cup LocalWrites

Matched(case) ==
  \A k \in DOMAIN case.session :
    LET c == case.session[k]
        among(ops) == \E l \in DOMAIN case.session : case.session[l].op \in ops
    IN  /\ c.op \in Rooted \ (Shared \cup {"ml_dense"}) =>
             c.dist \notin {S_S, CIRC_CIRC}
        /\ c.op # "write_dist"
        /\ c.op = "ml_hdf5_dense" => ~among(LocalWrites)
        /\ c.op = "ml_hdf5_sparse" =>
             /\ ~among(Writes)
             /\ Len(case.file.texts[1]) >= case.grid[1] * case.grid[2]

(* The memory write_hdf5 leaves unset happens to be zero.                  *)
Cleared(case) ==
  \A k \in DOMAIN case.session :
    case.session[k].op = "write_hdf5" => case.session[k].mstart = 0

Init ==
  /\ \E case \in Cases : /\ grid = case.grid /\ session = case.session
                         /\ limits = case.limits /\ file = case.file
                         /\ eager = case.eager
  /\ rest = <<>>
  /\ box = [X |-> <<>>, Y |-> {}]
  /\ me = [p \in Procs |-> [at |-> 1, pc |-> "idle", i |-> 0, k |-> 0,
                            met |-> 0, size |-> NoSize, got |-> <<>>]]
  /\ mail = [pair \in Procs \X Procs |-> <<>>]
  /\ held = [p \in Procs |-> Nothing]

Goes(p, pc, i, k, size) ==
  me' = [me EXCEPT ![p] = [@ EXCEPT !.pc = pc, !.i = i, !.k = k, !.size = size,
                                    !.got = <<>>]]
Steps(p, i, k) == Goes(p, me[p].pc, i, k, me[p].size)

Return(p) == me' = [me EXCEPT ![p] = [@ EXCEPT !.at = me[p].at + 1, !.pc = "idle"]]

Meets(p, pc) ==
  me' = [me EXCEPT ![p] = [@ EXCEPT !.pc = pc, !.met = me[p].met + 1, !.got = <<>>]]
AllMet(p) == \A q \in Procs : me[q].met >= me[p].met

(* Matrices are resized as soon as a process knows how large they are.     *)
Resized(p, size) ==
  held' = [held EXCEPT ![p] = Matrices(size, {}, {}, TRUE)]

Add(p, X, Y) ==
  held' = [held EXCEPT ![p] = [@ EXCEPT !.X = held[p].X \cup X,
                                        !.Y = held[p].Y \cup Y]]

-----------------------------------------------------------------------------
(* Calls of one process.                                                   *)

Idle(p) == At(p, "idle") /\ ~Finished(p)

ReadAlone(p) ==
  /\ Idle(p) /\ Call(p).op \in Local
  /\ held' = [held EXCEPT ![p] = ReadLocally(Call(p))]
  /\ Return(p)
  /\ UNCHANGED <<given, file, rest, box, mail>>

WriteAlone(p) ==
  /\ Idle(p) /\ Call(p).op \in LocalWrites
  /\ file' = WriteLocally(Call(p))
  /\ Return(p)
  /\ UNCHANGED <<given, rest, box, mail, held>>

-----------------------------------------------------------------------------
(* The root goes through the file and broadcasts what it has learnt.       *)

FirstPassAt(p) ==
  /\ Idle(p) /\ Call(p).op \in Rooted
  /\ IF p = 0 THEN /\ rest' = SecondPass(Call(p))
                   /\ Goes(p, "broadcast", 0, 0, FirstPass(Call(p)))
     ELSE UNCHANGED rest /\ Goes(p, "broadcast", 0, 0, NoSize)
  /\ held' = [held EXCEPT ![p] = Nothing]
  /\ UNCHANGED <<given, file, box, mail>>

World(p) == IF Call(p).op \in Shared \cup {"ml_dense"} THEN Procs
            ELSE Communicator(p, DistsOf(Call(p)).Y)

Broadcast(p) ==
  /\ At(p, "broadcast")
  /\ p = 0 \/ World(p) = {p} \/ Has(0, p, Collective)
  /\ LET size == IF p = 0 \/ World(p) = {p} THEN me[p].size
                 ELSE Received(0, p, Collective) IN
       /\ IF p = 0 THEN SendEach(p, World(p), LAMBDA q : size)
          ELSE IF World(p) = {p} THEN UNCHANGED mail ELSE Take(0, p, Collective)
       /\ IF Call(p).op \in Shared
          THEN /\ me' = [me EXCEPT ![p] = [@ EXCEPT !.pc = "ready", !.size = size,
                                                    !.met = me[p].met + 1]]
               /\ UNCHANGED held
          ELSE /\ Goes(p, "blocks", 1, 0, size)
               /\ Resized(p, size)
  /\ UNCHANGED <<given, file, rest, box>>

(* ml/io.hpp, dense HDF5: every process opens the file.                    *)
OpenHDF5(p) ==
  /\ Idle(p) /\ Call(p).op = "ml_hdf5_dense"
  /\ Goes(p, "blocks", 1, 0, SizeInHDF5(Call(p)))
  /\ Resized(p, SizeInHDF5(Call(p)))
  /\ rest' = IF p = 0 THEN SecondPass(Call(p)) ELSE rest
  /\ UNCHANGED <<given, file, box, mail>>

-----------------------------------------------------------------------------
(* Block after block: the root reads one, and its entries are scattered.   *)

BlocksAt(p) == BlocksOf(Call(p), me[p].size.n)
First(p) == BlocksAt(p)[me[p].i][1]
Count(p) == BlocksAt(p)[me[p].i][2]
HasBlock(p) == me[p].i <= Len(BlocksAt(p))

HasLines(p, op) == At(p, "blocks") /\ p = 0 /\ Call(p).op = op /\ HasBlock(p)

ScatterBlock(p, X, Y) ==
  LET c == Call(p)
      XOf(q) == PartOf(q, DistsOf(c).X, c.direction, X)
      YOf(q) == PartOf(q, DistsOf(c).Y, c.direction, Y)
  IN  /\ SendEach(p, Procs, LAMBDA q : [X |-> XOf(q), Y |-> YOf(q)])
      /\ Add(p, XOf(p), YOf(p))
      /\ Steps(p, me[p].i + 1, 0)
      /\ UNCHANGED <<given, file, box>>

XIn(p, lines) == Entries(lines, First(p))
YIn(p, lines) == Labels(lines, First(p), me[p].size.nt)

DistBlock(p) ==
  /\ HasLines(p, "dist")
  /\ LET lines == Block(Count(p), Ignored)
     IN  ScatterBlock(p, XIn(p, lines), YIn(p, lines))
  /\ rest' = LeftAfter(Count(p), Ignored)

DirDistBlock(p) ==
  /\ HasLines(p, "dir_dist")
  /\ LET lines == Block(Count(p), Ignored)
     IN  ScatterBlock(p, XIn(p, lines), YIn(p, lines))
  /\ rest' = LeftAfter(Count(p), Ignored)

(* For every block the file is read from its start again.                  *)
HdfsDistBlock(p) ==
  /\ HasLines(p, "hdfs_dist")
  /\ LET lines == Block(Count(p), Ignored)
     IN  ScatterBlock(p, XIn(p, lines), YIn(p, lines))
  /\ UNCHANGED rest

MlDenseBlock(p) ==
  /\ HasLines(p, "ml_dense")
  /\ LET lines == Block(Count(p), IsBlank)
     IN  ScatterBlock(p, XIn(p, lines), YIn(p, lines))
  /\ rest' = LeftAfter(Count(p), IsBlank)

MlHDF5DenseBlock(p) ==
  /\ HasLines(p, "ml_hdf5_dense")
  /\ LET lines == FirstOf(rest, Count(p))
     IN  ScatterBlock(p, XIn(p, lines), YIn(p, lines))
  /\ rest' = SubSeq(rest, Count(p) + 1, Len(rest))

HDF5DistBlock(p) ==
  /\ HasLines(p, "hdf5_dist")
  /\ LET lines == FirstOf(rest, Count(p))
     IN  ScatterBlock(p, XIn(p, lines), {})
  /\ rest' = SubSeq(rest, Count(p) + 1, Len(rest))

TakeBlock(p) ==
  /\ At(p, "blocks") /\ p # 0 /\ HasBlock(p)
  /\ Call(p).op \in InBlocks \/ me[p].k = 3
  /\ Has(0, p, Collective)
  /\ LET part == Received(0, p, Collective) IN Add(p, part.X, part.Y)
  /\ Take(0, p, Collective)
  /\ Steps(p, me[p].i + 1, 0)
  /\ UNCHANGED <<given, file, rest, box>>

AfterBlocks(p) ==
  /\ At(p, "blocks") /\ ~HasBlock(p)
  /\ Return(p)
  /\ UNCHANGED <<given, file, rest, box, mail, held>>

-----------------------------------------------------------------------------
(* vc_star: the root queues its own updates and sends those of others, in  *)
(* three lists: features, examples and values.                             *)

Updates(lines, first) ==
  FlattenSeq([k \in DOMAIN lines |->
    [m \in DOMAIN lines[k].xs |->
       <<first + k - 1, lines[k].xs[m][1], lines[k].xs[m][2]>>]])

OwnedBy(p, c, updates) ==
  SelectSeq(updates, LAMBDA e :
              PartOf(p, <<"VC", "STAR">>, c.direction, {e}) # {})

ReadUpdates(p) ==
  /\ At(p, "blocks") /\ p = 0 /\ Call(p).op = "vc_star" /\ HasBlock(p)
  /\ LET c == Call(p)
         lines == Block(Count(p), IsBlank)
         updates == Updates(lines, First(p))
     IN  /\ box' = [X |-> [q \in Procs |-> OwnedBy(q, c, updates)],
                    Y |-> YIn(p, lines)]
         /\ Add(p, Range(OwnedBy(p, c, updates)), {})
         /\ rest' = LeftAfter(Count(p), IsBlank)
  /\ Goes(p, "lists", me[p].i, 0, me[p].size)
  /\ UNCHANGED <<given, file, mail>>

(* The k-th of the lists of a process.                                     *)
ListOf(updates, k) ==
  [m \in DOMAIN updates |-> updates[m][CASE k = 0 -> 2 [] k = 1 -> 1 [] k = 2 -> 3]]

SendList(p) ==
  /\ At(p, "lists") /\ me[p].k < 3 * (P - 1)
  /\ LET to == me[p].k \div 3 + 1
     IN  Send(p, to, 0, ListOf(box.X[to], me[p].k % 3))
  /\ Steps(p, me[p].i, me[p].k + 1)
  /\ UNCHANGED <<given, file, rest, box, held>>

ScatterLabels(p) ==
  /\ At(p, "lists") /\ me[p].k = 3 * (P - 1)
  /\ LET c == Call(p)
         Y(q) == PartOf(q, c.dist, c.direction, box.Y)
     IN  /\ SendEach(p, Procs, LAMBDA q : [X |-> {}, Y |-> Y(q)])
         /\ Add(p, {}, Y(p))
  /\ box' = [X |-> <<>>, Y |-> {}]
  /\ Goes(p, "blocks", me[p].i + 1, 0, me[p].size)
  /\ UNCHANGED <<given, file, rest>>

Queued(lists) == {<<lists[2][m], lists[1][m], lists[3][m]>> : m \in DOMAIN lists[1]}

ReceiveList(p) ==
  /\ At(p, "blocks") /\ p # 0 /\ Call(p).op = "vc_star" /\ HasBlock(p)
  /\ me[p].k < 3 /\ Has(0, p, 0)
  /\ LET got == Append(me[p].got, Received(0, p, 0))
     IN  /\ me' = [me EXCEPT ![p] = [@ EXCEPT !.k = me[p].k + 1, !.got = got]]
         /\ IF Len(got) = 3 THEN Add(p, Queued(got), {}) ELSE UNCHANGED held
  /\ Take(0, p, 0)
  /\ UNCHANGED <<given, file, rest, box>>

-----------------------------------------------------------------------------
(* Shares of consecutive examples, one for each process.                   *)

AllReady(p) ==
  /\ At(p, "ready") /\ AllMet(p)
  /\ Goes(p, "shares", 0, 0, me[p].size)
  /\ UNCHANGED <<given, file, rest, box, mail, held>>

Allocated(p, q) == Allocation(me[p].size.n, q)

\* mutant: every process is sent a share, one without examples too
ServesAll(p) == At(p, "shares") /\ p = 0 /\ me[p].i < P

\* mutant: the end of the file is found before the last share is sent
ServesUnlessLast(p) ==
  /\ At(p, "shares") /\ p = 0 /\ me[p].i < P
  /\ Call(p).op = "ml_sparse" => Allocated(p, me[p].i) \in 1 .. Len(rest) - 1

(* libsvm: a share is sent when it is complete; HDF5: whatever it holds.   *)
Serves(p) ==
  /\ At(p, "shares") /\ p = 0 /\ me[p].i < P
  /\ Call(p).op = "ml_sparse" => Allocated(p, me[p].i) \in 1 .. Len(rest)

ShareAt(p) ==
  Share(SubSeq(rest, 1, Allocated(p, me[p].i)), me[p].size.d)
RestAfterShare(p) == SubSeq(rest, Allocated(p, me[p].i) + 1, Len(rest))

KeepShare(p) ==
  /\ Serves(p) /\ me[p].i = 0
  /\ held' = [held EXCEPT ![p] = Attached(ShareAt(p))]
  /\ rest' = RestAfterShare(p)
  /\ Steps(p, 1, 0)
  /\ UNCHANGED <<given, file, box, mail>>

SendShare(p) ==
  /\ Serves(p) /\ me[p].i > 0
  /\ Send(p, me[p].i, me[p].k + 1, ShareAt(p)[me[p].k + 1])
  /\ IF me[p].k < 6 THEN Steps(p, me[p].i, me[p].k + 1) /\ UNCHANGED rest
     ELSE Steps(p, me[p].i + 1, 0) /\ rest' = RestAfterShare(p)
  /\ UNCHANGED <<given, file, box, held>>

ReceiveShare(p) ==
  /\ At(p, "shares") /\ p # 0 /\ Allocated(p, p) > 0
  /\ me[p].k < 7 /\ Has(0, p, me[p].k + 1)
  /\ LET got == Append(me[p].got, Received(0, p, me[p].k + 1))
     IN  /\ me' = [me EXCEPT ![p] = [@ EXCEPT !.k = me[p].k + 1, !.got = got]]
         /\ held' = IF Len(got) = 7 THEN [held EXCEPT ![p] = Attached(got)]
                    ELSE held
  /\ Take(0, p, me[p].k + 1)
  /\ UNCHANGED <<given, file, rest, box>>

AfterShares(p) ==
  /\ At(p, "shares")
  /\ IF p = 0 THEN ~Serves(p) ELSE Allocated(p, p) = 0 \/ me[p].k = 7
  /\ Meets(p, "leave")
  /\ UNCHANGED <<given, file, rest, box, mail, held>>

Leave(p) ==
  /\ At(p, "leave") /\ AllMet(p)
  /\ Return(p)
  /\ UNCHANGED <<given, file, rest, box, mail, held>>

-----------------------------------------------------------------------------
(* write_hdf5: the root writes its examples and those of each process in   *)
(* turn.                                                                   *)

ColumnsOf(p) == Dealt(grid, "VC", <<0, held[p].n>>, Place(p))

LocalLines(p) ==
  LET columns == ColumnsOf(p)
  IN  [k \in DOMAIN columns |-> LineOf(held[p].X, held[p].Y, columns[k])]

Width(p) ==
  /\ Idle(p) /\ Call(p).op = "write_hdf5"
  /\ IF p = 0 THEN UNCHANGED mail
     ELSE Send(p, 0, Collective, Len(ColumnsOf(p)))
  /\ Goes(p, "collect", 0, 0, NoSize)
  /\ UNCHANGED <<given, file, rest, box, held>>

(* mstart[1] is never set.  If it is not zero, the first examples do not   *)
(* fit where they are to be written from: the root gives up, the others    *)
(* are still waiting for it to take their parts.                           *)
Unwritable(p) == Call(p).mstart # 0 /\ held[p].n > 0 /\ held[p].d > 0

Zeros == [kind |-> "example", space |-> FALSE, ys |-> <<0>>, xs |-> <<>>]

(* reduce: the sum of all widths.                                          *)
Summed(p) ==
  /\ At(p, "collect") /\ p = 0 /\ me[p].i = 0
  /\ \A q \in Procs \ {0} : Has(q, 0, Collective)
  /\ mail' = [pair \in DOMAIN mail |->
                IF pair[2] = 0 /\ pair[1] # 0
                THEN RemoveAt(mail[pair], Oldest(pair[1], 0, Collective))
                ELSE mail[pair]]
  /\ IF Unwritable(p)
     THEN /\ file' = HDF5("hdf5_dense", held[p].d,
                          [k \in 1 .. held[p].n |-> Zeros])
          /\ Return(p)
     ELSE /\ file' = HDF5("hdf5_dense", held[p].d, LocalLines(p))
          /\ Steps(p, 1, 0)
  /\ UNCHANGED <<given, rest, box, held>>

(* Number of examples, features and labels.                                *)
Parts(p) ==
  LET lines == LocalLines(p)
  IN  <<Len(lines), [k \in DOMAIN lines |-> lines[k].xs],
        [k \in DOMAIN lines |-> lines[k].ys]>>

SendPart(p) ==
  /\ At(p, "collect") /\ p # 0 /\ me[p].k < 3
  /\ Send(p, 0, me[p].k + 1, Parts(p)[me[p].k + 1])
  /\ Steps(p, 0, me[p].k + 1)
  /\ UNCHANGED <<given, file, rest, box, held>>

Assembled(got) ==
  [k \in 1 .. got[1] |-> [kind |-> "example", space |-> FALSE,
                          xs |-> got[2][k], ys |-> got[3][k]]]

CollectPart(p) ==
  /\ At(p, "collect") /\ p = 0 /\ me[p].i \in 1 .. P - 1
  /\ Has(me[p].i, 0, me[p].k + 1)
  /\ LET got == Append(me[p].got, Received(me[p].i, 0, me[p].k + 1))
     IN  IF Len(got) < 3
         THEN /\ me' = [me EXCEPT ![p] = [@ EXCEPT !.k = me[p].k + 1, !.got = got]]
              /\ UNCHANGED file
         ELSE /\ Steps(p, me[p].i + 1, 0)
              /\ file' = [file EXCEPT !.texts[1] = @ \o Assembled(got)]
  /\ Take(me[p].i, 0, me[p].k + 1)
  /\ UNCHANGED <<given, rest, box, held>>

AfterCollecting(p) ==
  /\ At(p, "collect")
  /\ IF p = 0 THEN me[p].i = P ELSE me[p].k = 3
  /\ Meets(p, "leave")
  /\ UNCHANGED <<given, file, rest, box, mail, held>>

-----------------------------------------------------------------------------
(* WriteLIBSVM: every process opens the file, and so empties it; the root  *)
(* gathers block after block.                                              *)

OpenToWrite(p) ==
  /\ Idle(p) /\ Call(p).op = "write_dist"
  /\ file' = Text(<<>>)
  /\ Goes(p, "gather", 1, 0, [n |-> held[p].n, d |-> held[p].d, nt |-> 1])
  /\ UNCHANGED <<given, rest, box, mail, held>>

InBlock(p, entries) ==
  {e \in entries : e[1] \in First(p) .. First(p) + Count(p) - 1}

(* What the root writes it asks the gathered matrices for, entry by entry: *)
(* Get broadcasts each to all their processes, of which only it calls Get. *)
Gets(p) == [m \in 1 .. Count(p) * (me[p].size.d + 1) |-> Message(Collective, "entry")]

GatherBlock(p) ==
  /\ At(p, "gather") /\ HasBlock(p)
  /\ IF p # 0
     THEN /\ Send(p, 0, Collective, [X |-> InBlock(p, held[p].X),
                                     Y |-> InBlock(p, held[p].Y)])
          /\ UNCHANGED file
     ELSE /\ \A q \in Procs \ {0} : Has(q, 0, Collective)
          /\ LET parts == {Received(q, 0, Collective) : q \in Procs \ {0}}
                 X == InBlock(p, held[p].X) \cup UNION {part.X : part \in parts}
                 Y == InBlock(p, held[p].Y) \cup UNION {part.Y : part \in parts}
                 Before(text) == SubSeq(text, 1, Len(text) - 1)
             IN  file' = [file EXCEPT !.texts[1] =
                            Before(@) \o LinesOf(X, Y, First(p), Count(p)) \o <<End>>]
          /\ mail' = [pair \in DOMAIN mail |->
                        CASE pair[1] # 0 /\ pair[2] = 0 ->
                               RemoveAt(mail[pair], Oldest(pair[1], 0, Collective))
                          [] pair[1] = 0 /\ pair[2] # 0 -> mail[pair] \o Gets(p)
                          [] OTHER -> mail[pair]]
  /\ Steps(p, me[p].i + 1, 0)
  /\ UNCHANGED <<given, rest, box, held>>

AfterGathering(p) ==
  /\ At(p, "gather") /\ ~HasBlock(p)
  /\ Return(p)
  /\ UNCHANGED <<given, file, rest, box, mail, held>>

-----------------------------------------------------------------------------
Step(p) ==
  \/ ReadAlone(p) \/ WriteAlone(p)
  \/ FirstPassAt(p) \/ Broadcast(p) \/ OpenHDF5(p)
  \/ DistBlock(p) \/ DirDistBlock(p) \/ HdfsDistBlock(p) \/ MlDenseBlock(p)
  \/ MlHDF5DenseBlock(p) \/ HDF5DistBlock(p) \/ TakeBlock(p) \/ AfterBlocks(p)
  \/ ReadUpdates(p) \/ SendList(p) \/ ScatterLabels(p) \/ ReceiveList(p)
  \/ AllReady(p) \/ KeepShare(p) \/ SendShare(p) \/ ReceiveShare(p)
  \/ AfterShares(p) \/ Leave(p)
  \/ Width(p) \/ Summed(p) \/ SendPart(p) \/ CollectPart(p) \/ AfterCollecting(p)
  \/ OpenToWrite(p) \/ GatherBlock(p) \/ AfterGathering(p)

Next == \E p \in Procs : Step(p)

(* Every process keeps running.                                            *)
Fairness == \A p \in 0 .. 5 : WF_vars(p \in Procs /\ Step(p))
Spec == Init /\ [][Next]_vars /\ Fairness

-----------------------------------------------------------------------------
(* No process goes past the last block or part; no matrix has an entry     *)
(* outside of it (libsvm_io.hpp writes to buffers with computed offsets).  *)
TypeOK ==
  /\ \A p \in Procs :
       /\ me[p].at \in 1 .. Len(session) + 1
       /\ me[p].k \in 0 .. 3 * P + 4 /\ me[p].i \in 0 .. me[p].size.n + P + 1
       /\ \A e \in held[p].X : e[1] \in 0 .. held[p].n - 1
                               /\ e[2] \in 1 .. held[p].d
       /\ \A e \in held[p].Y : e[1] \in 0 .. held[p].n - 1
  /\ \A pair \in DOMAIN mail : pair[1] # pair[2] => Len(mail[pair]) <= 16

(* Between two calls, if every process is there.                           *)
Between(k) == \A p \in Procs : me[p].at = k /\ me[p].pc = "idle"

(* The examples the file has, of those asked for.                          *)
Meant(c) ==
  LET all == FlattenSeq([k \in DOMAIN file.texts |->
               SelectSeq(file.texts[k], LAMBDA line : line.kind = "example")])
  IN  FirstOf(all, IF c.op \in {"dense", "sparse", "dist", "vc_star"}
                   THEN limits[1] ELSE -1)

Reads == Local \cup InBlocks \cup Shared \cup {"vc_star"}
WithoutLabels == {"hdf5_dist", "hdf5_dense", "hdf5_sparse"}

(* Local numbers of examples, in shares, as numbers over all processes.    *)
Shifted(c, p, entries) ==
  LET by == IF c.op \in Shared THEN AllocatedBefore(Len(Meant(c)), p) ELSE 0
  IN  {<<e[1] + by, e[2], e[3]>> : e \in entries}

(* Between two calls the processes together have the examples the file     *)
(* that was read holds: all of them, each feature and label in its place,  *)
(* nothing besides, in matrices every process knows the size of.  ("Reads  *)
(* X and Y from a file in libsvm format.  Ignore empty lines and comment   *)
(* lines": utility/io/libsvm_io.hpp; ml/io.hpp.)                           *)
Delivered ==
  \A k \in DOMAIN session :
    LET c == session[k]
        meant == Meant(c)
        d == Largest(FeaturesIn(meant) \cup {0, limits[2]})
        nt == IF meant = <<>> THEN 0 ELSE Len(meant[1].ys)
    IN  Between(k + 1) /\ c.op \in Reads =>
          /\ \A p \in Procs :
               /\ held[p].n = IF c.op \in Shared THEN Allocation(Len(meant), p)
                              ELSE Len(meant)
               /\ held[p].d = IF file.format = "hdf5_dense" THEN file.d
                              ELSE IF c.op \in Shared /\ held[p].n = 0 THEN 0
                              ELSE d
          /\ UNION {Shifted(c, p, held[p].X) : p \in Procs} = Entries(meant, 0)
          /\ UNION {Shifted(c, p, held[p].Y) : p \in Procs} =
               IF c.op \in WithoutLabels THEN {} ELSE Labels(meant, 0, nt)
          /\ held[0].clean \/ Cardinality(Entries(meant, 0)) = Len(meant) * d

(* Features and labels of one example stay together, and no example is     *)
(* there twice: in the matrices of a process, while they are filled, and   *)
(* in a file that is written.                                              *)
From(value) == value \div 10

Unmixed ==
  /\ \A p \in Procs : \A e, f \in held[p].X \cup held[p].Y :
       (e[1] = f[1]) = (From(e[3]) = From(f[3]))
  /\ \A t \in DOMAIN file.texts : \A k, m \in DOMAIN file.texts[t] :
       LET of(line) == Range(line.ys) \cup {x[2] : x \in Range(line.xs)}
       IN  \A v \in of(file.texts[t][k]), w \in of(file.texts[t][m]) :
             (k = m) = (From(v) = From(w))

(* Whatever one process sent the others took before the call ended: no     *)
(* message is left that a later call could take for its own.               *)
NoneLeft ==
  \A k \in 2 .. Len(session) + 1 :
    Between(k) => \A pair \in DOMAIN mail : mail[pair] = <<>>

(* Every call of a session returns on every process, whether MPI buffers   *)
(* messages or not.                                                        *)
Returns == <>(\A p \in Procs : Finished(p))
=============================================================================
