---------------------------- MODULE SharedStream ----------------------------
(***************************************************************************)
(* What a random stream context promises to the processes that replicate   *)
(* it: there is ONE stream of Word samples, every global call reserves     *)
(* samples no earlier call reserved, and every process that makes the call *)
(* holds exactly that reservation, or nothing if the call failed on it.    *)
(***************************************************************************)
EXTENDS Naturals, Sequences

CONSTANTS Rank,  \* the MPI processes, each with its own copy of the context
          Word   \* number of samples in the stream of one seed (2^64)

VARIABLES reserved,  \* the reservations made so far, in the order of the calls
          passed,    \* how many calls each process has been through
          held       \* the calls whose reservation each process holds

vars == <<reserved, passed, held>>

Samples(a) == a.base .. (a.base + a.size - 1)

Init == /\ reserved = << >>
        /\ passed = [r \in Rank |-> 0]
        /\ held = [r \in Rank |-> {}]

(***************************************************************************)
(* A process goes through its next call, and may come out empty-handed.    *)
(***************************************************************************)
Pass(r) == /\ passed' = [passed EXCEPT ![r] = @ + 1]
           /\ \E got \in SUBSET {passed[r] + 1} :
                held' = [held EXCEPT ![r] = @ \cup got]

(***************************************************************************)
(* The first process to reach a call fixes which samples it reserves.      *)
(***************************************************************************)
Reserve(r) ==
  /\ passed[r] = Len(reserved)
  /\ \E base \in 0 .. Word, size \in 0 .. Word :
       LET fresh == [base |-> base, size |-> size]
       IN  /\ base + size <= Word
           /\ \A i \in 1 .. Len(reserved) :
                Samples(fresh) \cap Samples(reserved[i]) = {}
           /\ reserved' = Append(reserved, fresh)
  /\ Pass(r)

Follow(r) == /\ passed[r] < Len(reserved)
             /\ Pass(r)
             /\ UNCHANGED reserved

Next == \E r \in Rank : Reserve(r) \/ Follow(r)

Spec == Init /\ [][Next]_vars
=============================================================================
