------------------------------- MODULE MCCApi -------------------------------
EXTENDS CApi, TLC

Symmetry == Permutations(Handles) \cup Permutations(Objects)

Numpy(o) == [adapter |-> "Numpy", type |-> "Matrix", order |-> o]
Scipy(o) == [adapter |-> "Scipy", type |-> "SparseMatrix", order |-> o]
ElMatrix == [adapter |-> "El", type |-> "Matrix", order |-> "F"]
Dist(t)  == [adapter |-> "Dist", type |-> t, order |-> "F"]
KDT      == [adapter |-> "KDT", type |-> "DistSparseMatrix", order |-> "F"]

MCMatrices ==
  {Numpy("F"), Numpy("C"), Scipy("F"), Scipy("C"), ElMatrix, KDT}
    \cup {Dist(t) : t \in Vectors \cup {"DistMatrix"}}

(* Every class but LaplacianQRFT, whose handles are tagged GaussianQRFT.   *)
MCClasses == {"JLT", "CT", "FJLT", "CWT", "MMT", "WZT", "PPT", "GaussianRFT", "LaplacianRFT",
              "MaternRFT", "GaussianQRFT", "FastGaussianRFT", "FastMaternRFT",
              "ExpSemigroupRLT", "ExpSemigroupQRLT", "UST"}

(* FastMaternRFT and ExpSemigroupQRLT cannot be read back, ExpSemigroupRLT *)
(* loses its tag when it is, GaussianQRFT becomes one over a container.    *)
MCPickled == {"JLT", "CT", "FJLT", "CWT", "MMT", "WZT", "PPT", "GaussianRFT", "LaplacianRFT",
              "MaternRFT", "FastGaussianRFT"}

MCExceptions == {"skylark_exception"}

(* Listed but not dispatched; KDT matrices sketched into a csr_matrix;     *)
(* FJLT behind the erased interface, which is empty along rows.            *)
MCExcluded(class, A, B) ==
  \/ /\ class \in {"CWT", "MMT", "WZT"} /\ A.adapter = "Dist"
     /\ A.type \in Dists /\ A.type = B.type
  \/ A.adapter = "KDT" /\ B.adapter = "Scipy" /\ B.order = "C"
  \/ A.adapter = "any" /\ class = "FJLT"
=============================================================================
