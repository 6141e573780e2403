---------------------------- MODULE RandomStream ----------------------------
(***************************************************************************)
(* base/randgen.hpp: the arithmetic of one random stream.  The samples of  *)
(* a seed are numbered 0 .. Word-1 (2^64 in the code), a context is at one *)
(* of them, and a random array is a run of them.                           *)
(***************************************************************************)
EXTENDS Integers

CONSTANT Word  \* 2^64: size_t arithmetic is modulo Word

ASSUME WordAssumption == Word \in Nat /\ Word > 1

SuppliableAlways(base, size) == TRUE          \* mutant: no exhaustion check

(***************************************************************************)
(* The constructor of a random array refuses when max - base < size - 1,   *)
(* computed in size_t.                                                     *)
(***************************************************************************)
Suppliable(base, size) == ~ (Word - 1 - base < (size - 1) % Word)

AdvanceShort(base, size) == (base + size - 1) % Word   \* mutant: off by one

(* _counter += size                                                        *)
Advance(base, size) == (base + size) % Word
=============================================================================
