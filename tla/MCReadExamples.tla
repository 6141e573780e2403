--------------------------- MODULE MCReadExamples ---------------------------
(* One, two, three and four processes; blocks of two examples; files that  *)
(* fill blocks and shares exactly and that do not, with examples that have *)
(* no features, with two targets, in several texts.                        *)
(*                                                                         *)
(* Left out is what the code does not read right: lines after a comment or *)
(* an empty line; examples with absent features, read into a dense local   *)
(* matrix; examples without features, by vc_star and ml_sparse; two        *)
(* targets, by sparse with examples in rows; matrices every process has,   *)
(* on several processes; HDFS directories of more than a block; texts of a *)
(* directory that end with a newline, but for the last; fewer examples     *)
(* than processes, by ml_hdf5_sparse; directories, by the local readers;   *)
(* write_dist on several processes, whose root alone takes part in what is *)
(* collective; write_hdf5 on several processes, where the memory it leaves *)
(* unset is not zero.                                                      *)
EXTENDS ReadExamples

Example(id, features, targets) ==
  [kind |-> "example", space |-> FALSE,
   ys |-> [r \in 1 .. targets |-> 10 * id],
   xs |-> [k \in DOMAIN features |-> <<features[k], 10 * id + features[k]>>]]
Comment == [kind |-> "comment", space |-> FALSE, ys |-> <<>>, xs |-> <<>>]

Plain == <<Example(1, <<1, 2>>, 1), Example(2, <<2>>, 1), Example(3, <<1>>, 1)>>
Longer == Plain \o <<Example(4, <<1, 3>>, 1), Example(5, <<2>>, 1)>>
Full == <<Example(1, <<1, 2>>, 1), Example(2, <<1, 2>>, 1)>>
Sparse == <<Example(1, <<2>>, 1), Example(2, <<>>, 1), Example(3, <<1>>, 1)>>
Twofold == <<Example(1, <<1>>, 2), Example(2, <<2>>, 2), Example(3, <<1, 2>>, 2)>>
More == <<Example(6, <<3>>, 1), Example(7, <<1, 2>>, 1), Example(8, <<2>>, 1)>>

Ended(lines) == Append(lines, End)
Libsvm(texts) == [format |-> "libsvm", d |-> 0, texts |-> texts]

OneGrid == {<<1, 1>>}
TwoGrids == {<<2, 1>>, <<2, 2>>}
All == <<-1, 0>>
Some == <<2, 3>>

Of(op, direction, dist) ==
  [op |-> op, direction |-> direction, dist |-> dist, mstart |-> 0]
Unstarted == [Of("write_hdf5", "COLUMNS", S_S) EXCEPT !.mstart = 1]
C(op) == Of(op, "COLUMNS", S_S)
R1(op, dist) == Of(op, "ROWS", dist)
R(op) == R1(op, S_S)

CasesOf(sessions, files, grids, bounds) ==
  [session : sessions, file : files, grid : grids, limits : bounds, eager : {TRUE}]
Messages(sessions, files, grids, bounds) ==
  [session : sessions, file : files, grid : grids, limits : bounds, eager : BOOLEAN]

Text1(lines) == Libsvm(<<lines>>)
Wide == {Text1(Ended(Plain)), Text1(Longer), Text1(Ended(Sparse)),
         Text1(Twofold), Text1(<<End>>)}
Remarked == Text1(Append(Sparse, Comment))
Featured == {Text1(Ended(Plain)), Text1(Longer), Text1(Ended(Twofold))}
Single == {Text1(Ended(Plain)), Text1(Longer)}

MCCases ==
  CasesOf({<<C("dense")>>, <<R("dense")>>}, {Text1(Full), Text1(Ended(Full))},
          OneGrid, {All})
  \cup CasesOf({<<C("sparse")>>}, Wide, OneGrid, {All, Some})
  \cup CasesOf({<<R("sparse")>>}, {Text1(Ended(Sparse)), Text1(Longer)}, OneGrid,
               {All, Some})
  \cup CasesOf({<<C("hdfs_dense")>>},
               {Libsvm(<<Ended(Full), <<Example(3, <<1, 2>>, 1)>>>>)}, OneGrid, {All})
  \cup CasesOf({<<R("hdfs_sparse")>>}, {Libsvm(<<Ended(Plain), Ended(More)>>)},
               OneGrid, {All})
  \cup CasesOf({<<Of("dist", direction, dist)>> : direction \in {"ROWS", "COLUMNS"},
                  dist \in {MC_MR} \cup ColDists \cup RowDists},
               {Text1(Ended(Longer))}, {<<2, 2>>}, {All})
  \cup CasesOf({<<R1("dist", MC_MR)>>}, Wide \cup {Remarked}, {<<1, 2>>}, {All, Some})
  \cup CasesOf({<<R1("dist", dist)>> : dist \in {S_S, CIRC_CIRC}},
               {Text1(Ended(Longer)), Text1(<<End>>)}, OneGrid, {All})
  \cup CasesOf({<<R1("dir_dist", MC_MR)>>},
               {Libsvm(<<Plain, More>>), Libsvm(<<Longer, Ended(More)>>)},
               TwoGrids, {All})
  \cup CasesOf({<<R1("hdfs_dist", MC_MR)>>},
               {Libsvm(<<Ended(<<Plain[1]>>), Ended(<<More[1]>>)>>)}, TwoGrids, {All})
  \cup Messages({<<Of("vc_star", direction, <<"VC", "STAR">>)>> :
                   direction \in {"ROWS", "COLUMNS"}}, Featured,
                {<<1, 1>>, <<2, 1>>}, {All})
  \cup Messages({<<R1("vc_star", <<"VC", "STAR">>)>>}, Single, {<<3, 1>>}, {All})
  \cup CasesOf({<<C("ml_dense"), C("ml_dense")>>}, Wide \ {Text1(Twofold)},
               {<<2, 1>>}, {All})
  \cup Messages({<<C("ml_sparse"), C("ml_sparse")>>}, {Text1(Longer)},
                {<<1, 1>>, <<2, 1>>}, {All})
  \cup Messages({<<C("ml_sparse")>>}, {Text1(Ended(Plain))}, {<<3, 1>>}, {<<-1, 3>>})
  \cup Messages({<<C("ml_sparse")>>}, {Text1(Full)}, {<<3, 1>>}, {<<-1, 3>>})
  \cup Messages({<<C("ml_hdf5_sparse"), C("ml_hdf5_sparse")>>},
                {HDF5("hdf5_sparse", 3, Longer)}, {<<2, 1>>}, {All, <<-1, 4>>})
  \cup Messages({<<C("ml_dense"), C("write_hdf5"), C("ml_hdf5_dense")>>,
                 <<C("ml_dense"), C("write_hdf5"), Of("hdf5_dist", "COLUMNS", MC_MR)>>},
                {Text1(Longer)}, {<<2, 1>>, <<3, 1>>}, {All})
  \cup CasesOf({<<C("ml_sparse"), C("write_hdf5_sparse"), C("hdf5_sparse")>>,
                <<C("ml_sparse"), C("write_hdf5_sparse"), C("ml_hdf5_sparse")>>,
                <<C("sparse"), C("write"), C("sparse")>>,
                <<C("ml_dense"), C("write_hdf5"), C("hdf5_dense")>>},
               Single, OneGrid, {All})
  \cup CasesOf({<<R1("dist", dist), R1("write_dist", dist), R1("dist", dist)>> :
                  dist \in {MC_MR, <<"VC", "STAR">>}}, {Text1(Ended(Plain))},
               OneGrid, {All})
  \cup CasesOf({<<C("ml_dense"), Unstarted>>}, {Text1(<<Plain[1]>>)}, OneGrid, {All})

ASSUME CasesMatched ==
  \A case \in MCCases : case.grid = <<1, 1>> \/ (Matched(case) /\ Cleared(case))
=============================================================================
