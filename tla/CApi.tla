-------------------------------- MODULE CApi --------------------------------
(***************************************************************************)
(* The library as Python sees it: objects of python-skylark/skylark/sketch *)
(* hold handles of the C API (capi/csketch.cpp), and hand it their         *)
(* matrices as a type name and an address.  Nothing in C checks either:    *)
(* the type string chooses the class an address is cast to.  C++ code goes *)
(* through type-erased sketches instead, whose matrices know their type.   *)
(*                                                                         *)
(* A matrix is the adapter lib.py finds for it, its C++ type (named as in  *)
(* matrix_types.hpp) and the order of its entries: "F" by columns, "C" by  *)
(* rows, "both" for an array of one column or one row, which numpy reports *)
(* as contiguous either way.                                               *)
(*                                                                         *)
(* The program uses one class of sketches, cls, whatever number of them.   *)
(***************************************************************************)
EXTENDS Integers, SketchDispatch

CONSTANTS Classes,      \* the classes a program may use
          Pickled,      \* those whose sketches it may pickle or serialize
          Matrices,     \* the matrices it has
          Excluded(_, _, _),  \* the requests it does not make: class, input, output
          Exceptions,   \* what constructors and transforms may throw
          Handles,      \* addresses of sketch objects in C
          Objects,      \* Python sketch objects
          MaxWraps,     \* bound: C wrappers of Python arrays alive at once
          Wide          \* may an address exceed 31 bits?

ASSUME ClassesAssumption == Classes \subseteq
    {"JLT", "CT", "FJLT", "CWT", "MMT", "WZT", "PPT", "GaussianRFT", "LaplacianRFT", "MaternRFT",
     "GaussianQRFT", "LaplacianQRFT", "FastGaussianRFT", "FastMaternRFT", "ExpSemigroupRLT",
     "ExpSemigroupQRLT", "UST"}
ASSUME WrapsAssumption == MaxWraps \in Nat

VARIABLES cls,        \* the class of the program's sketches
          up,         \* no exception has left C, no address has been misused
          ctxt,       \* is there a context (lib.ctxt_obj)?
          leaked,     \* has a transform outlived its handle?
          sketches,   \* the sl_sketch_transform_t at each handle
          objects,    \* the Python objects
          wraps,      \* C wrappers of Python arrays not yet freed
          last        \* the last application: what was asked, what was done

apiVars == <<cls, up, ctxt, leaked, sketches, objects, wraps, last>>

None == [type |-> "none"]
NoCall == [ret |-> "none"]
Wild == "wild"      \* an address that lost its upper half

(* What reading an object of type x as a t makes of it. *)
Cast(t, x) == IF t = x THEN x ELSE "undefined"

(***************************************************************************)
(* Tables by class.                                                        *)
(***************************************************************************)
Applies ==
  [JLT |-> C_JLT, CT |-> C_CT, FJLT |-> C_FJLT, CWT |-> C_CWT, MMT |-> C_MMT, WZT |-> C_WZT,
   PPT |-> C_PPT, GaussianRFT |-> C_GaussianRFT, LaplacianRFT |-> C_LaplacianRFT,
   MaternRFT |-> C_MaternRFT, GaussianQRFT |-> C_GaussianQRFT,
   LaplacianQRFT |-> C_LaplacianQRFT, FastGaussianRFT |-> C_FastGaussianRFT,
   FastMaternRFT |-> C_FastMaternRFT, ExpSemigroupRLT |-> C_ExpSemigroupRLT,
   ExpSemigroupQRLT |-> C_ExpSemigroupQRLT]

sl_supported_sketch_transforms ==
  [c \in DOMAIN Applies |->
     CASE c = "FJLT" -> ListedFJLT
       [] c \in {"CWT", "MMT"} -> ListedHash \cup ListedDistSparse
       [] c = "WZT" -> ListedHash
       [] c \in {"FastGaussianRFT", "FastMaternRFT"} -> ListedFast
       [] c = "PPT" -> ListedPPT
       [] OTHER -> ListedDense]

AnyApplies ==
  [JLT |-> Any_JLT, CT |-> Any_CT, FJLT |-> Any_FJLT, CWT |-> Any_CWT, MMT |-> Any_MMT,
   WZT |-> Any_WZT, PPT |-> Any_PPT, GaussianRFT |-> Any_GaussianRFT,
   LaplacianRFT |-> Any_LaplacianRFT, MaternRFT |-> Any_MaternRFT,
   GaussianQRFT |-> Any_GaussianQRFT, LaplacianQRFT |-> Any_LaplacianQRFT,
   FastGaussianRFT |-> Any_FastGaussianRFT, FastMaternRFT |-> Any_FastMaternRFT,
   ExpSemigroupRLT |-> Any_ExpSemigroupRLT, ExpSemigroupQRLT |-> Any_ExpSemigroupQRLT,
   UST |-> Any_UST]

(***************************************************************************)
(* Sketch objects in C: the type tag of the handle, the class of the       *)
(* object, the name the object is written with, and, for the quasi-random  *)
(* classes, what sequence they are instantiated over: the sequence itself  *)
(* or a container of sequences.                                            *)
(***************************************************************************)
Quasi == {"GaussianQRFT", "LaplacianQRFT", "ExpSemigroupQRLT"}

NoTag == "TRANSFORM_TYPE_ERROR"
str2transform_type(name) == IF name \in DOMAIN Applies THEN name ELSE NoTag

CreatedUntagged(c) == [type |-> NoTag, class |-> c, name |-> c, over |-> "Halton"]

(* sl_create_sketch_transform. *)
Created(c) ==
  [type |-> IF c = "LaplacianQRFT" THEN "GaussianQRFT" ELSE str2transform_type(c),
   class |-> c, name |-> c, over |-> "Halton"]

LoadableFFTW == {"JLT", "CT", "CWT", "MMT", "WZT", "PPT", "GaussianRFT", "LaplacianRFT",
                 "MaternRFT", "GaussianQRFT", "LaplacianQRFT", "ExpSemigroupRLT",
                 "FastGaussianRFT"}

(* The names from_ptree has a class for, which is the class of that name.  *)
Loadable == {"JLT", "CT", "CWT", "MMT", "WZT", "PPT", "GaussianRFT", "LaplacianRFT", "MaternRFT",
             "GaussianQRFT", "LaplacianQRFT", "ExpSemigroupRLT", "FastGaussianRFT", "FJLT"}

(* The name the constructor from a ptree gives an object of class c. *)
Respelt(c) ==
  CASE c = "ExpSemigroupRLT" -> "ExpSemiGroupRLT"
    [] c = "ExpSemigroupQRLT" -> "ExpSemiGroupQRLT"
    [] OTHER -> c

(* sl_deserialize_sketch_transform: the tag is that of the new object's    *)
(* name, not that of the name it was read by.                              *)
Loaded(name) ==
  [type |-> str2transform_type(Respelt(name)), class |-> name, name |-> Respelt(name),
   over |-> "Container"]

(* The class transform_obj is cast to, for a handle tagged S.type. *)
SketchOf(S) ==
  IF S.type \in Quasi /\ S.over # "Halton" THEN "undefined" ELSE Cast(S.type, S.class)

(* _map_csketch_type_to_cfun: the Python class for a type string. *)
cfun(c) == IF c = "ExpSemigroupQRLT" THEN "ExpSemigroupRLT" ELSE c

(***************************************************************************)
(* Matrices.                                                               *)
(***************************************************************************)
Raw == {"Numpy", "Scipy"}       \* arrays of Python, wrapped for the call

order(A) == IF A.order = "both" THEN "F" ELSE A.order

ctype(A) ==
  CASE A.adapter = "Dist" /\ A.type = "RootMatrix" -> "SharedMatrix"
    [] A.adapter = "Dist" /\ A.type = "SharedMatrix" -> "RootMatrix"
    [] OTHER -> A.type

str2matrix_type(name) ==
  CASE name = "DistMatrix_STAR_VC" -> "DistMatrix_VC_STAR"
    [] name = "DistMatrix_STAR_VR" -> "DistMatrix_VR_STAR"
    [] OTHER -> name

iscompatible(A, B) ==
  CASE A.adapter \in Raw /\ B.adapter \in Raw -> order(A) = order(B)
    [] A.adapter \in Raw /\ B.adapter \notin Raw -> order(A) = "F"
    [] A.adapter \notin Raw -> ~(B.adapter = "Numpy" /\ order(B) = "C")

cinvertNumpy(A) == A.adapter = "Numpy" /\ A.order \in {"C", "both"}
cinvert(A) ==
  \/ A.adapter = "Numpy" /\ A.order \in {"C", "both"}
  \/ A.adapter = "Scipy" /\ A.order = "C"

(* An array kept by rows is wrapped as its transpose. *)
Transposed(A) == A.adapter \in Raw /\ order(A) = "C"

(* A dense array is written in place; a sparse one is copied back, by      *)
(* ptrcleaner, when the C++ matrix was given a new structure since the     *)
(* flag was reset.                                                         *)
struct_updated(output) == output = "SparseMatrix"
Shown(B, output) == B.adapter = "Scipy" => struct_updated(output)

Dims == {"columnwise", "rowwise"}
Flipped(dim) == CHOOSE d \in Dims : d # dim

Nothing == [sketch |-> "none", in |-> "none", out |-> "none", dim |-> "none"]

(***************************************************************************)
(* sl_apply_sketch_transform on the sketch S for the matrices A and B of   *)
(* Python: what is done, in the terms of what was asked.  Nothing at all   *)
(* when no dispatch matches, as for a handle without a tag.                *)
(***************************************************************************)
Done(S, A, B, dim) ==
  LET input  == str2matrix_type(ctype(A))
      output == str2matrix_type(ctype(B))
      cdim   == IF cinvert(A) THEN Flipped(dim) ELSE dim
  IN  IF S.type = NoTag \/ <<input, output>> \notin Applies[S.type] THEN Nothing
      ELSE [sketch |-> SketchOf(S),
            in |-> Cast(input, A.type),
            out |-> IF Shown(B, output) THEN Cast(output, B.type) ELSE "undefined",
            dim |-> IF Transposed(A) # Transposed(B) THEN "undefined"
                    ELSE IF Transposed(A) THEN Flipped(cdim) ELSE cdim]

Asked(ttype, A, B, dim) ==
  [sketch |-> ttype, in |-> A.type, out |-> B.type, dim |-> dim]

(* The check of apply before the call. *)
Supported(ttype, A, B) == <<ctype(A), ctype(B)>> \in sl_supported_sketch_transforms[ttype]

Wrapped(A, B) == (IF A.adapter \in Raw THEN 1 ELSE 0) + (IF B.adapter \in Raw THEN 1 ELSE 0)

(***************************************************************************)
(* Actions.                                                                *)
(***************************************************************************)
ApiInit ==
  /\ cls \in Classes
  /\ up = TRUE
  /\ leaked = FALSE
  /\ ctxt = TRUE        \* importing the module initializes the library
  /\ sketches = [h \in Handles |-> None]
  /\ objects = [o \in Objects |-> None]
  /\ wraps = 0
  /\ last = NoCall

Fresh(h) == sketches[h] = None
InC == cls \in DOMAIN Applies

(* sl_create_sketch_transform from the constructor of a Python class.  A   *)
(* program does not create sketches without a context.                     *)
Create(o, h) ==
  /\ up /\ InC /\ ctxt /\ objects[o] = None /\ Fresh(h)
  /\ sketches' = [sketches EXCEPT ![h] = Created(cls)]
  /\ objects' = [objects EXCEPT ![o] = [type |-> cls, obj |-> h]]
  /\ last' = NoCall
  /\ UNCHANGED <<cls, up, ctxt, leaked, wraps>>

(* The C API catches skylark_exception and returns its code, which callsl  *)
(* raises in Python; any other exception (of Elemental, of the standard    *)
(* library) leaves C and ends the process.                                 *)
Caught(e) == e = "skylark_exception"

(* Constructing the sketch throws: there is no object on either side. *)
CreateFails(o) ==
  /\ up /\ InC /\ ctxt /\ objects[o] = None
  /\ \E e \in Exceptions : up' = Caught(e)
  /\ last' = [ret |-> "raised"]
  /\ UNCHANGED <<cls, ctxt, leaked, sketches, objects, wraps>>

Usable(o) == objects[o] # None /\ objects[o].obj # Wild

(* The name o's sketch is written with. *)
Name(o) == sketches[objects[o].obj].name

(* deserialize_sketch of what serialize wrote, as object p.  There is no   *)
(* try in C: an exception there ends the process.                          *)
Deserialize(o, p, h) ==
  /\ up /\ cls \in Pickled /\ Usable(o) /\ objects[p] = None /\ Fresh(h)
  /\ IF Name(o) \in Loadable
       THEN /\ sketches' = [sketches EXCEPT ![h] = Loaded(Name(o))]
            /\ objects' = [objects EXCEPT ![p] = [type |-> cfun(Name(o)), obj |-> h]]
            /\ up' = up
       ELSE up' = FALSE /\ UNCHANGED <<sketches, objects>>
  /\ last' = NoCall
  /\ UNCHANGED <<cls, ctxt, leaked, wraps>>

UnpickleShared(o, p, h) ==
  /\ up /\ cls \in Pickled /\ Usable(o) /\ objects[p] = None /\ Fresh(h)
  /\ objects' = [objects EXCEPT ![p] = objects[o]]
  /\ last' = NoCall
  /\ UNCHANGED <<cls, up, ctxt, leaked, sketches, wraps>>

(* __getstate__ and __setstate__: a pickled copy.  The handle is kept as a *)
(* number, which is passed on as a C int.                                  *)
Unpickle(o, p, h) ==
  /\ up /\ cls \in Pickled /\ Usable(o) /\ objects[p] = None /\ Fresh(h)
  /\ IF Name(o) \in Loadable
       THEN /\ sketches' = [sketches EXCEPT ![h] = Loaded(Name(o))]
            /\ objects' = [objects EXCEPT ![p] =
                             [type |-> objects[o].type, obj |-> IF Wide THEN Wild ELSE h]]
            /\ up' = up
       ELSE up' = FALSE /\ UNCHANGED <<sketches, objects>>
  /\ last' = NoCall
  /\ UNCHANGED <<cls, ctxt, leaked, wraps>>

(* __del__, sl_free_sketch_transform: the transform is deleted as what the *)
(* tag says it is, which is undefined when it is something else, and not   *)
(* at all when there is no tag; then the handle.                           *)
Delete(o) ==
  /\ up /\ objects[o] # None
  /\ LET h == objects[o].obj
     IN  IF h = Wild \/ sketches[h] = None
           THEN up' = FALSE /\ UNCHANGED <<leaked, sketches>>
           ELSE /\ up' = (sketches[h].type = NoTag \/ SketchOf(sketches[h]) # "undefined")
                /\ leaked' = (leaked \/ sketches[h].type = NoTag)
                /\ sketches' = [sketches EXCEPT ![h] = None]
  /\ objects' = [objects EXCEPT ![o] = None]
  /\ last' = NoCall
  /\ UNCHANGED <<cls, ctxt, wraps>>

(* apply refuses: the combination is not listed, the orders differ, or the *)
(* dimensions do not fit (which may always be).                            *)
ApplyRefused(o) ==
  /\ up /\ objects[o] # None
  /\ last' = [ret |-> "refused"]
  /\ UNCHANGED <<cls, up, ctxt, leaked, sketches, objects, wraps>>

MayCall(o, A, B) ==
  /\ up /\ objects[o] # None
  /\ objects[o].obj # Wild => sketches[objects[o].obj] # None
  /\ Supported(objects[o].type, A, B) /\ iscompatible(A, B)
  /\ ~Excluded(objects[o].type, A, B)
  /\ wraps + Wrapped(A, B) <= MaxWraps

(* The call returns 0, and both wrappers are freed.  An output that is not *)
(* given is allocated like the input, which is one of the choices of B.    *)
Apply(o, A, B, dim) ==
  /\ MayCall(o, A, B)
  /\ IF objects[o].obj = Wild
       THEN up' = FALSE /\ last' = NoCall
       ELSE /\ up' = up
            /\ last' = [ret |-> "done", asked |-> Asked(objects[o].type, A, B, dim),
                        did |-> Done(sketches[objects[o].obj], A, B, dim)]
  /\ UNCHANGED <<cls, ctxt, leaked, sketches, objects, wraps>>

(* The transform throws, and callsl raises before the wrappers are freed. *)
ApplyFails(o, A, B) ==
  /\ MayCall(o, A, B)
  /\ objects[o].obj # Wild
  /\ Done(sketches[objects[o].obj], A, B, "columnwise") # Nothing
  /\ \E e \in Exceptions : up' = Caught(e)
  /\ wraps' = wraps + Wrapped(A, B)
  /\ last' = [ret |-> "raised"]
  /\ UNCHANGED <<cls, ctxt, leaked, sketches, objects>>

(* sketch_transform_t<any, any>::apply, from C++: the matrices are known   *)
(* by typeid, a combination no dispatch matches throws.  The rowwise apply *)
(* of FJLT is empty.                                                       *)
AnyApply(in, out, dim) ==
  /\ up /\ ~Excluded(cls, [type |-> in, adapter |-> "any"], [type |-> out, adapter |-> "any"])
  /\ LET asked == [sketch |-> cls, in |-> in, out |-> out, dim |-> dim]
     IN  last' =
           IF cls = "FJLT" /\ dim = "rowwise" THEN [ret |-> "done", asked |-> asked, did |-> Nothing]
           ELSE IF <<in, out>> \in AnyApplies[cls]
                  THEN [ret |-> "done", asked |-> asked, did |-> asked]
                  ELSE [ret |-> "raised"]
  /\ UNCHANGED <<cls, up, ctxt, leaked, sketches, objects, wraps>>

(* lib.initialize: a new context in place of the one there is. *)
initialize ==
  /\ up
  /\ ctxt' = TRUE
  /\ last' = NoCall
  /\ UNCHANGED <<cls, up, leaked, sketches, objects, wraps>>

(* lib.finalize: sketches outlive the context. *)
finalize ==
  /\ up
  /\ ctxt' = FALSE
  /\ last' = NoCall
  /\ UNCHANGED <<cls, up, leaked, sketches, objects, wraps>>

PythonApply(o) ==
  \/ ApplyRefused(o)
  \/ \E A, B \in Matrices, dim \in Dims : Apply(o, A, B, dim)
  \/ \E A, B \in Matrices : ApplyFails(o, A, B)

ApiNext ==
  \/ \E o \in Objects : CreateFails(o) \/ Delete(o) \/ PythonApply(o)
  \/ \E o \in Objects, h \in Handles : Create(o, h)
  \/ \E o, p \in Objects, h \in Handles : Deserialize(o, p, h) \/ Unpickle(o, p, h)
  \/ \E in, out \in MatrixTypes, dim \in Dims : AnyApply(in, out, dim)
  \/ initialize
  \/ finalize

ApiSpec == ApiInit /\ [][ApiNext]_apiVars

-----------------------------------------------------------------------------
ApiTypeOK ==
  /\ cls \in Classes
  /\ up \in BOOLEAN /\ ctxt \in BOOLEAN /\ leaked \in BOOLEAN
  /\ wraps \in 0..MaxWraps
  /\ \A h \in Handles : sketches[h] # None =>
       \/ sketches[h].type \in DOMAIN Applies
       \/ sketches[h].type = NoTag /\ sketches[h].over = "Container"   \* was read back
  /\ \A o \in Objects : objects[o] = None \/ objects[o].obj \in Handles \cup {Wild}
  /\ last.ret \in {"none", "done", "raised", "refused"}

(* A call that reports success did what it was asked: the sketch of that   *)
(* class, applied to these matrices as what they are, along that dimension *)
(* of the matrices as Python holds them, with the result where Python sees *)
(* it.  (capi/csketch.cpp sl_apply_sketch_transform, lib.py's adapters,    *)
(* matrix_types.cpp, the erased classes in sketch/.)                       *)
DoneAsAsked == last.ret = "done" => last.did = last.asked

(* Every sketch in C has exactly one Python object, which has the same     *)
(* class and will free it; no object holds an address of anything else,    *)
(* and freeing a sketch leaves nothing of it behind.  (sketch.py __init__, *)
(* __del__, __setstate__, deserialize_sketch, sl_free_sketch_transform.)   *)
Owned ==
  /\ \A h \in Handles : sketches[h] # None =>
       \E o \in Objects :
         /\ objects[o] # None /\ objects[o].obj = h /\ objects[o].type = sketches[h].type
         /\ \A p \in Objects \ {o} : objects[p] # None => objects[p].obj # h
  /\ \A o \in Objects : objects[o] # None => Usable(o) /\ sketches[objects[o].obj] # None
  /\ ~leaked

(* No legal sequence of calls ends the process: no exception leaves the C  *)
(* API, no address is used after its object is gone.                       *)
Survives == up

=============================================================================
