------------------------------ MODULE Context -------------------------------
(***************************************************************************)
(* base/context.hpp and base/randgen.hpp: the random stream context that   *)
(* every sketch, solver and driver of the library draws from.  A context   *)
(* is a seed and a counter; a call takes the samples [counter, counter +   *)
(* size) of the stream of that seed and moves the counter past them.  The  *)
(* processes of an MPI job never talk about it: each holds its own copy,   *)
(* and the copies agree only because every process makes the same calls in *)
(* the same order ("a global operation to keep the internal state of the   *)
(* context synchronized"), at its own pace.                                *)
(*                                                                         *)
(* A C++ exception does not end the process: the C API turns it into an    *)
(* error code, and the caller goes on using the context.                   *)
(***************************************************************************)
EXTENDS RandomStream, Sequences

CONSTANTS Rank,      \* the MPI processes
          Sizes,     \* the sizes callers ask for
          MaxCalls,  \* bound: how many calls the program makes
          MayExhaust \* may a call ask for exactly the samples that are left?

ASSUME RequestsAssumption == Sizes \subseteq 0 .. Word - 1
ASSUME MaxCallsAssumption == MaxCalls \in Nat
ASSUME MayExhaustAssumption == MayExhaust \in BOOLEAN

VARIABLES counter,  \* _counter of each process's copy
          calls,    \* the calls of the program so far; base is the position
                    \* at which the first process to make the call found it
          done,     \* how many of them each process has made
          arrays,   \* the random arrays each process was given
          thrown    \* the calls that threw random123_exception on it

contextVars == <<counter, calls, done, arrays, thrown>>

Operation == {"allocate", "generate", "value"}
Call == [op : Operation, size : Sizes \cup {1}, base : 0 .. Word - 1]
Array == [call : 1 .. MaxCalls, base : 0 .. Word - 1, size : Sizes \cup {1}]

ContextInit ==
  /\ counter = [r \in Rank |-> 0]
  /\ calls = << >>
  /\ done = [r \in Rank |-> 0]
  /\ arrays = [r \in Rank |-> {}]
  /\ thrown = [r \in Rank |-> {}]

(***************************************************************************)
(* Process r makes its next call: the one the others already made, or, if  *)
(* it is the first to get there, any call of operation op.                 *)
(***************************************************************************)
Makes(r, op, size) ==
  /\ done' = [done EXCEPT ![r] = @ + 1]
  /\ IF done[r] < Len(calls)
     THEN /\ op = calls[done[r] + 1].op
          /\ size = calls[done[r] + 1].size
          /\ UNCHANGED calls
     ELSE /\ Len(calls) < MaxCalls
          /\ MayExhaust \/ counter[r] + size # Word
          /\ calls' = Append(calls, [op |-> op, size |-> size,
                                     base |-> counter[r]])

Grant(r, size) ==
  arrays' = [arrays EXCEPT ![r] =
               @ \cup {[call |-> done[r] + 1, base |-> counter[r],
                        size |-> size]}]

(***************************************************************************)
(* allocate_random_samples_array and allocate_random_array: the array is   *)
(* lazy, its samples are computed when they are read.                      *)
(***************************************************************************)
AllocateArray(r, size) ==
  /\ Makes(r, "allocate", size)
  /\ Suppliable(counter[r], size)
  /\ Grant(r, size)
  /\ counter' = [counter EXCEPT ![r] = Advance(@, size)]
  /\ UNCHANGED thrown

\* mutant: the counter is moved once the vector is filled
GenerateArrayThenAdvance(r, size) ==
  /\ Makes(r, "generate", size)
  /\ Suppliable(counter[r], size)
  /\ \/ /\ Grant(r, size)
        /\ counter' = [counter EXCEPT ![r] = Advance(@, size)]
     \/ UNCHANGED <<arrays, counter>>
  /\ UNCHANGED thrown

(***************************************************************************)
(* generate_random_samples_array: the samples are computed at once, into a *)
(* vector whose allocation may fail on this process alone.  By then the    *)
(* counter has moved.                                                      *)
(***************************************************************************)
GenerateArray(r, size) ==
  /\ Makes(r, "generate", size)
  /\ Suppliable(counter[r], size)
  /\ \/ Grant(r, size)
     \/ UNCHANGED arrays        \* allocation_exception
  /\ counter' = [counter EXCEPT ![r] = Advance(@, size)]
  /\ UNCHANGED thrown

(***************************************************************************)
(* random_value and random_int: an array of one sample, read at once.      *)
(***************************************************************************)
RandomValue(r) ==
  /\ Makes(r, "value", 1)
  /\ Suppliable(counter[r], 1)
  /\ Grant(r, 1)
  /\ counter' = [counter EXCEPT ![r] = Advance(@, 1)]
  /\ UNCHANGED thrown

(***************************************************************************)
(* The array's constructor throws: the counter has not moved yet.          *)
(***************************************************************************)
Refuse(r, op, size) ==
  /\ Makes(r, op, size)
  /\ ~ Suppliable(counter[r], size)
  /\ thrown' = [thrown EXCEPT ![r] = @ \cup {done[r] + 1}]
  /\ UNCHANGED <<counter, arrays>>

ContextNext ==
  \E r \in Rank :
    \/ \E size \in Sizes : \/ AllocateArray(r, size)
                           \/ GenerateArray(r, size)
                           \/ \E op \in {"allocate", "generate"} :
                                Refuse(r, op, size)
    \/ RandomValue(r)

ContextSpec == ContextInit /\ [][ContextNext]_contextVars
-----------------------------------------------------------------------------
(***************************************************************************)
(* Properties                                                              *)
(***************************************************************************)

(* Every counter, call and array is in range, and no array runs past the   *)
(* end of the stream (its samples would be those of another array).        *)
ContextTypeOK ==
  /\ counter \in [Rank -> 0 .. Word - 1]
  /\ calls \in Seq(Call) /\ Len(calls) <= MaxCalls
  /\ done \in [Rank -> 0 .. Len(calls)]
  /\ arrays \in [Rank -> SUBSET Array]
  /\ thrown \in [Rank -> SUBSET (1 .. MaxCalls)]
  /\ \A r \in Rank : \A a \in arrays[r] : a.base + a.size <= Word

Overlap(a, b) == /\ a.base < b.base + b.size
                 /\ b.base < a.base + a.size

(* Two different calls never share a sample, whichever processes made them:*)
(* the randomness of one sketch is independent of that of another.         *)
Disjoint ==
  \A p, q \in Rank : \A a \in arrays[p], b \in arrays[q] :
    a.call # b.call => ~ Overlap(a, b)

(* The copies never drift: processes that have made the same calls have    *)
(* the same counter, one call gives the same array on all of them, and     *)
(* none is given an array where another was refused, even after an         *)
(* allocation failed on one process only.                                  *)
Synchronized ==
  \A p, q \in Rank :
    /\ done[p] = done[q] => counter[p] = counter[q]
    /\ \A a \in arrays[p], b \in arrays[q] : a.call = b.call => a = b
    /\ \A a \in arrays[p] : a.call \notin thrown[q]

(* The replicated counters implement the one shared stream.  A refused     *)
(* call reserves nothing.                                                  *)
Reservation(c) ==
  [base |-> c.base, size |-> IF Suppliable(c.base, c.size) THEN c.size ELSE 0]

Shared == INSTANCE SharedStream WITH
            reserved <- [k \in 1 .. Len(calls) |-> Reservation(calls[k])],
            passed <- done,
            held <- [r \in Rank |-> {a.call : a \in arrays[r]}]

ImplementsSharedStream == Shared!Spec
=============================================================================
