--------------------------- MODULE SketchDispatch ---------------------------
(***************************************************************************)
(* Which sketch is applied to which matrices.  Three tables say so, each   *)
(* written out by hand for every class: the list the C API hands to its    *)
(* clients (sl_supported_sketch_transforms), the chain of dispatches of    *)
(* sl_apply_sketch_transform, and the dispatches of the type-erased        *)
(* classes that C++ code holds behind sketch_transform_t<any, any>.  An    *)
(* entry is a pair of input and output type, named as matrix_types.hpp     *)
(* names them.                                                             *)
(*                                                                         *)
(* The tables are those of a build with CombBLAS and FFTW.                 *)
(***************************************************************************)
EXTENDS FiniteSets

Each(S) == {<<t, t>> : t \in S}     \* the types of S, each into itself

Vectors  == {"DistMatrix_VC_STAR", "DistMatrix_VR_STAR"}
Vectors_ == {"DistMatrix_STAR_VC", "DistMatrix_STAR_VR"}
Dists    == Vectors \cup Vectors_ \cup {"DistMatrix"}
Gathered == {"RootMatrix", "SharedMatrix"}
MatrixTypes == Dists \cup Gathered \cup {"Matrix", "SparseMatrix", "DistSparseMatrix"}

Local      == {<<"Matrix", "Matrix">>, <<"SparseMatrix", "Matrix">>}
SparseSame == {<<"SparseMatrix", "SparseMatrix">>}
FromDistSparse == {"DistSparseMatrix"} \X
    ({"Matrix", "DistMatrix", "SparseMatrix", "DistSparseMatrix"} \cup Vectors)

(* sl_apply_sketch_transform: one chain of dispatches per class. *)
DensePairs == Local \cup (Dists \X Gathered) \cup Each(Dists) \cup (Vectors \X {"DistMatrix"})
HashPairs  == Local \cup SparseSame \cup (Dists \X Gathered)
FastPairs  == Local \cup Each(Vectors \cup Vectors_)

C_JLT              == DensePairs
C_CT               == DensePairs
C_GaussianRFT      == DensePairs
C_LaplacianRFT     == DensePairs
C_MaternRFT        == DensePairs
C_GaussianQRFT     == DensePairs
C_LaplacianQRFT    == DensePairs
C_ExpSemigroupRLT  == DensePairs
C_ExpSemigroupQRLT == DensePairs
C_CWT == HashPairs \cup FromDistSparse
C_MMT == HashPairs \cup FromDistSparse
C_WZT == HashPairs
C_FJLT == ((Vectors \cup Vectors_) \X Gathered) \cup Each({"DistMatrix"})
C_FastGaussianRFT == FastPairs \cup Each(Gathered)
C_FastMaternRFT   == FastPairs \cup Each({"RootMatrix"})
C_PPT             == FastPairs \cup Each(Gathered \cup {"DistMatrix"})

(* sl_supported_sketch_transforms. *)
ListedDense == DensePairs
ListedHash  == HashPairs \cup Each(Dists)
ListedFast  == FastPairs \cup Each({"SharedMatrix"})
ListedPPT   == FastPairs \cup Each({"SharedMatrix", "DistMatrix"})
ListedFJLT  == ((Vectors \cup Vectors_) \X Gathered) \cup Each({"DistMatrix"})
ListedDistSparse == FromDistSparse

(* The erased classes; the tables for columns and for rows are the same,   *)
(* except that FJLT has none for rows.                                     *)
AnyDense == DensePairs \cup Each(Gathered)
AnyHash  == Local \cup SparseSame \cup (({"DistMatrix"} \cup Vectors) \X Gathered)
                \cup Each(Gathered \cup Dists)
AnyFast  == FastPairs \cup Each(Gathered \cup {"DistMatrix"})

Any_JLT              == AnyDense
Any_CT               == AnyDense
Any_GaussianRFT      == AnyDense
Any_LaplacianRFT     == AnyDense
Any_MaternRFT        == AnyDense
Any_GaussianQRFT     == AnyDense
Any_LaplacianQRFT    == AnyDense
Any_ExpSemigroupRLT  == AnyDense
Any_ExpSemigroupQRLT == AnyDense
Any_CWT == AnyHash
Any_MMT == AnyHash
Any_WZT == AnyHash
Any_FJLT == ((Vectors \cup Vectors_) \X Gathered) \cup Each({"DistMatrix"})
Any_FastGaussianRFT == AnyFast
Any_FastMaternRFT   == AnyFast
Any_PPT             == AnyFast
Any_UST             == Each(Dists \cup Gathered \cup {"Matrix"})

=============================================================================
