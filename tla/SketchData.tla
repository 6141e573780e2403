----------------------------- MODULE SketchData -----------------------------
(***************************************************************************)
(* sketch/*_data.hpp and sketch/sketch_add.hpp: how a sketch transform     *)
(* takes its randomness from the caller's context, is written to a ptree   *)
(* and is rebuilt from one.                                                *)
(*                                                                         *)
(* A sketch is never stored as numbers.  It remembers the context it was   *)
(* created from (_creation_context); build() starts at a copy of it, draws *)
(* the parts of the sketch one after another, and returns the context that *)
(* is left, which the public constructor assigns to the caller's.  The     *)
(* ptree holds the type, the sizes, the parameters and _creation_context,  *)
(* and reading it back runs build() again.                                 *)
(***************************************************************************)
EXTENDS RandomStream, Sequences

CONSTANTS Kinds,      \* the sketch classes the program uses
          Dims,       \* input and output dimensions <<N, S>>
          Degree,     \* q of the Pham-Pagh transform
          MaxSketches \* bound: how many sketches the program creates

Classes == {"JLT", "CT", "CWT", "MMT", "WZT", "PPT", "UST", "RFUT", "FJLT",
            "GaussianRFT", "LaplacianRFT", "MaternRFT", "ExpSemigroupRLT",
            "GaussianQRFT", "LaplacianQRFT", "ExpSemigroupQRLT",
            "FastGaussianRFT", "FastMaternRFT"}

ASSUME KindsAssumption == Kinds \subseteq Classes
ASSUME DimsAssumption == Dims \subseteq (Nat \ {0}) \X (Nat \ {0})
ASSUME DegreeAssumption == Degree \in Nat \ {0}
ASSUME MaxSketchesAssumption == MaxSketches \in Nat

VARIABLES context,   \* the counter of the caller's context
          created,   \* number of sketches created from it
          sketches,  \* the sketch objects alive
          stored,    \* the ptrees written; id is the creation they come from
          unread     \* the ptrees no class was found for

vars == <<context, created, sketches, stored, unread>>

(***************************************************************************)
(* The parts a class draws, in order.  "moves" says whether the context    *)
(* that draws the next part is the one this draw left behind: it is,       *)
(* except after RFUT_data_t, whose constructor drops what build() returns. *)
(***************************************************************************)
Part(name, size) == << [part |-> name, size |-> size, moves |-> TRUE] >>

RFUT(N) == << [part |-> "D", size |-> N, moves |-> FALSE] >>

Dense(N, S) == Part("entries", N * S)              \* random_dense_transform
JLT(N, S) == Dense(N, S)
CT(N, S) == Dense(N, S)

Hash(N) == Part("row_idx", N) \o Part("row_value", N)   \* hash_transform
CWT(N) == Hash(N)
MMT(N) == Hash(N)
WZT(N) == Hash(N) \o Part("pmvals", N)                  \* the signs

RFT(N, S) == Dense(N, S) \o Part("shifts", S)
GaussianRFT(N, S) == RFT(N, S)
LaplacianRFT(N, S) == RFT(N, S)
MaternRFT(N, S) == RFT(N, S) \o Part("scales", S)

RLT(N, S) == Dense(N, S)
ExpSemigroupRLT(N, S) == RLT(N, S)

(* A quasi-random sequence takes nothing from the context.                 *)
QRFT == << >>
QRLT == << >>

NumBlks(N, S) == 1 + (S - 1) \div N

FastRFT(N, S) ==
  Part("shifts", S) \o Part("B", NumBlks(N, S) * N)
    \o Part("G", NumBlks(N, S) * N) \o Part("P", NumBlks(N, S) * (N - 1))
FastGaussianRFT(N, S) == FastRFT(N, S)
FastMaternRFT(N, S) == FastRFT(N, S) \o Part("Sm", S)

FJLT(N, S) == RFUT(N) \o Part("samples", S)

(* Without replacement: one random swap per input coordinate.              *)
UST(N, S, replace) == IF replace THEN Part("samples", S) ELSE Part("swaps", N)

(* q count sketches, each with two parts, and a hash of the constant term. *)
PPT(N) == [i \in 1 .. 2 * Degree |->
             CWT(N)[IF i % 2 = 1 THEN 1 ELSE 2]] \o Part("hash_idx", Degree)
                                      \o Part("hash_val", Degree)

Layout(N, S, replace) ==
  [JLT |-> JLT(N, S), CT |-> CT(N, S),
   CWT |-> CWT(N), MMT |-> MMT(N), WZT |-> WZT(N),
   PPT |-> PPT(N), UST |-> UST(N, S, replace),
   GaussianRFT |-> GaussianRFT(N, S), LaplacianRFT |-> LaplacianRFT(N, S),
   MaternRFT |-> MaternRFT(N, S), ExpSemigroupRLT |-> ExpSemigroupRLT(N, S),
   GaussianQRFT |-> QRFT, LaplacianQRFT |-> QRFT, ExpSemigroupQRLT |-> QRLT,
   FastGaussianRFT |-> FastGaussianRFT(N, S),
   FastMaternRFT |-> FastMaternRFT(N, S),
   RFUT |-> RFUT(N), FJLT |-> FJLT(N, S)]

Variants(kind) == IF kind = "UST" THEN BOOLEAN ELSE {FALSE}   \* replace

\* a size is a size_t
ASSUME SizesAssumption ==
  \A kind \in Kinds, dim \in Dims : \A replace \in Variants(kind) :
    LET layout == Layout(dim[1], dim[2], replace)[kind]
    IN  \A i \in 1 .. Len(layout) : layout[i].size \in 0 .. Word - 1

(***************************************************************************)
(* What the constructor that reads a ptree builds: the same layout, but    *)
(* the one of WZT_data_t calls the build() of its base class, which does   *)
(* not draw the signs.                                                     *)
(***************************************************************************)
Relayout(N, S, replace) ==
  [Layout(N, S, replace) EXCEPT !["WZT"] = Hash(N)]

(***************************************************************************)
(* build(): where the context stands after each part of the layout.        *)
(***************************************************************************)
Walk(layout, start) ==
  LET at[i \in 0 .. Len(layout)] ==
        IF i = 0 THEN start
        ELSE IF layout[i].moves THEN Advance(at[i - 1], layout[i].size)
        ELSE at[i - 1]
  IN  at

Buildable(layout, start) ==
  \A i \in 1 .. Len(layout) :
    Suppliable(Walk(layout, start)[i - 1], layout[i].size)

(* Bound: no part takes exactly what is left of the stream, which would    *)
(* bring the counter back to 0 (Context has the call that does).           *)
Spares(layout, start) ==
  \A i \in 1 .. Len(layout) :
    layout[i].moves => Walk(layout, start)[i - 1] + layout[i].size # Word

Built(layout, start) ==
  [i \in 1 .. Len(layout) |-> [part |-> layout[i].part,
                              base |-> Walk(layout, start)[i - 1],
                              size |-> layout[i].size]]

BuildEnd(layout, start) == Walk(layout, start)[Len(layout)]

(***************************************************************************)
(* The type string an object carries.  The public constructors of every    *)
(* class set the name of the class; two of the constructors that read a    *)
(* ptree do not spell it the same way.                                     *)
(***************************************************************************)
TypeCreated(kind) == kind

TypeReloaded(kind) ==
  IF kind = "ExpSemigroupRLT" THEN "ExpSemiGroupRLT"
  ELSE IF kind = "ExpSemigroupQRLT" THEN "ExpSemiGroupQRLT"
  ELSE kind

(***************************************************************************)
(* from_ptree: the class each type string is dispatched to.  "data" is     *)
(* sketch_transform_data_t::from_ptree, which the C API and Python use,    *)
(* "transform" is sketch_transform_t::from_ptree, which the models use.    *)
(***************************************************************************)
Loaders == {"data", "transform"}

SpeltAlike ==
  {"JLT", "CT", "CWT", "MMT", "WZT", "PPT", "UST", "GaussianRFT",
   "LaplacianRFT", "MaternRFT", "GaussianQRFT", "LaplacianQRFT",
   "ExpSemigroupRLT", "FastGaussianRFT", "FJLT"}

Dispatch(loader) ==
  {<<type, type>> : type \in SpeltAlike}
    \cup IF loader = "data" THEN {<<"FastMaternnRFT", "FastMaternRFT">>}
                            ELSE {<<"FastMaternRFT", "FastMaternRFT">>}

Serializable == Kinds \ {"RFUT"}   \* RFUT_data_t has no to_ptree

Init == /\ context = 0
        /\ created = 0
        /\ sketches = {}
        /\ stored = {}
        /\ unread = {}

\* mutant: the context is stored once the parts have been drawn
CreateStoringLeft(kind, N, S, replace) ==
  LET layout == Layout(N, S, replace)[kind]
  IN  /\ created < MaxSketches
      /\ Spares(layout, context)
      /\ Buildable(layout, context)
      /\ created' = created + 1
      /\ sketches' = sketches \cup
           {[id |-> created + 1, kind |-> kind, type |-> TypeCreated(kind),
             N |-> N, S |-> S, replace |-> replace,
             creation |-> BuildEnd(layout, context),
             parts |-> Built(layout, context)]}
      /\ context' = BuildEnd(layout, context)
      /\ UNCHANGED <<stored, unread>>

(***************************************************************************)
(* A public constructor: build from the caller's context, and move the     *)
(* caller's context behind what was drawn.  When a draw throws, the        *)
(* caller's context has not been touched and there is no object.           *)
(***************************************************************************)
Create(kind, N, S, replace) ==
  LET layout == Layout(N, S, replace)[kind]
  IN  /\ created < MaxSketches
      /\ Spares(layout, context)                    \* bound: no wrap-around
      /\ Buildable(layout, context)
      /\ created' = created + 1
      /\ sketches' = sketches \cup
           {[id |-> created + 1, kind |-> kind, type |-> TypeCreated(kind),
             N |-> N, S |-> S, replace |-> replace, creation |-> context,
             parts |-> Built(layout, context)]}
      /\ context' = BuildEnd(layout, context)
      /\ UNCHANGED <<stored, unread>>

(***************************************************************************)
(* to_ptree.                                                               *)
(***************************************************************************)
ToPtree(s) ==
  /\ s.kind \in Serializable
  /\ stored' = stored \cup
       {[id |-> s.id, type |-> s.type, N |-> s.N, S |-> s.S,
         replace |-> s.replace, creation |-> s.creation]}
  /\ UNCHANGED <<context, created, sketches, unread>>

\* mutant: the constructor that reads a ptree moves the caller's context too
FromPtreeMoving(p, loader) ==
  \E entry \in Dispatch(loader) :
    LET kind == entry[2]
        layout == Relayout(p.N, p.S, p.replace)[kind]
    IN  /\ p.type = entry[1]
        /\ sketches' = sketches \cup
             {[id |-> p.id, kind |-> kind, type |-> TypeReloaded(kind),
               N |-> p.N, S |-> p.S, replace |-> p.replace,
               creation |-> p.creation, parts |-> Built(layout, p.creation)]}
        /\ context' = BuildEnd(layout, p.creation)
        /\ UNCHANGED <<created, stored, unread>>

(***************************************************************************)
(* from_ptree: the first class whose name is the stored type rebuilds the  *)
(* sketch from the stored context.  The caller's context is not touched.   *)
(***************************************************************************)
FromPtree(p, loader) ==
  \E entry \in Dispatch(loader) :
    LET kind == entry[2]
        layout == Relayout(p.N, p.S, p.replace)[kind]
    IN  /\ p.type = entry[1]
        /\ sketches' = sketches \cup
             {[id |-> p.id, kind |-> kind, type |-> TypeReloaded(kind),
               N |-> p.N, S |-> p.S, replace |-> p.replace,
               creation |-> p.creation, parts |-> Built(layout, p.creation)]}
        /\ UNCHANGED <<context, created, stored, unread>>

(* "Unknown sktech type"                                                   *)
FromPtreeThrows(p, loader) ==
  /\ p.type \notin {entry[1] : entry \in Dispatch(loader)}
  /\ unread' = unread \cup {p}
  /\ UNCHANGED <<context, created, sketches, stored>>

(* The destructor: the ptrees written outlive the object.                  *)
Destroy(s) == /\ sketches' = sketches \ {s}
              /\ UNCHANGED <<context, created, stored, unread>>

Next ==
  \/ \E kind \in Kinds, dim \in Dims : \E replace \in Variants(kind) :
       Create(kind, dim[1], dim[2], replace)
  \/ \E s \in sketches : ToPtree(s) \/ Destroy(s)
  \/ \E p \in stored, loader \in Loaders :
       FromPtree(p, loader) \/ FromPtreeThrows(p, loader)

Spec == Init /\ [][Next]_vars

-----------------------------------------------------------------------------

(***************************************************************************)
(* Type correctness: every sketch knows a context of the stream, and every *)
(* part it holds is a run of samples that does not leave the stream.       *)
(***************************************************************************)
TypeOK ==
  /\ context \in 0 .. Word - 1
  /\ created \in 0 .. MaxSketches
  /\ \A s \in sketches :
       /\ s.id \in 1 .. created
       /\ s.kind \in Kinds
       /\ <<s.N, s.S>> \in Dims
       /\ s.replace \in Variants(s.kind)
       /\ s.creation \in 0 .. context
       /\ \A i \in DOMAIN s.parts :
            s.parts[i].base + s.parts[i].size \in 0 .. Word
  /\ \A p \in stored : /\ p.id \in 1 .. created
                        /\ p.creation \in 0 .. context
  /\ unread \subseteq stored

(***************************************************************************)
(* "... ensuring the independence of successive samples" (context.hpp):    *)
(* no sample of the stream serves two parts of one sketch, or parts of two *)
(* sketches, whatever was written, destroyed and rebuilt in between.       *)
(***************************************************************************)
Samples(part) == part.base .. (part.base + part.size - 1)

Independent ==
  \A s, t \in sketches :
    \A i \in DOMAIN s.parts, j \in DOMAIN t.parts :
      \/ s.id = t.id /\ i = j
      \/ Samples(s.parts[i]) \cap Samples(t.parts[j]) = {}

(***************************************************************************)
(* "the sketch object can be reconstructed": an object read back from a    *)
(* ptree, at any remove, is of the class that was created and holds the    *)
(* very samples the created one holds.                                     *)
(***************************************************************************)
ReloadedSame ==
  \A s, t \in sketches : s.id = t.id => s.kind = t.kind /\ s.parts = t.parts
=============================================================================
