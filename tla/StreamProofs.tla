---------------------------- MODULE StreamProofs ----------------------------
(***************************************************************************)
(* Theorems about the random stream: about Context, which deals it out,    *)
(* for every number of processes, every stream length, every set of sizes  *)
(* and every number of calls; and about SketchData, whose sketches draw    *)
(* from it, for every set of classes, every size and every history of      *)
(* creations, writes, reads and destructions.                              *)
(***************************************************************************)
EXTENDS Context, SketchData, Lemmas
-----------------------------------------------------------------------------
(***************************************************************************)
(* Context.  None of the properties is inductive: what one process will be *)
(* given by its next call depends on where ANOTHER process found the       *)
(* stream when it made that call.  The invariant therefore says where every*)
(* call stands in the stream (calls[k].base), that a process which made k  *)
(* calls stands where call k ended, and that its arrays are those of the   *)
(* calls.                                                                  *)
(***************************************************************************)

Size == Sizes \cup {1}

(* Where the stream stands after a call that found it at c.base.           *)
Ended(c) == IF Suppliable(c.base, c.size) THEN Advance(c.base, c.size)
                                          ELSE c.base

(* Where the stream stands after the first k calls of a program.           *)
After(prog, k) == IF k = 0 THEN 0 ELSE Ended(prog[k])

(* Every call found the stream where the call before it left it.           *)
Chain == \A k \in 1 .. Len(calls) : calls[k].base = After(calls, k - 1)

(* Every process stands where the last call it made ended.                 *)
Positions == \A r \in Rank : counter[r] = After(calls, done[r])

(* A process holds the arrays of calls it made and that could be supplied. *)
Holdings ==
  \A r \in Rank : \A a \in arrays[r] :
    /\ a.call \in 1 .. done[r]
    /\ a.base = calls[a.call].base
    /\ a.size = calls[a.call].size
    /\ Suppliable(a.base, a.size)

(* A process was refused calls it made and that could not be supplied.     *)
Refusals ==
  \A r \in Rank : \A k \in thrown[r] :
    /\ k \in 1 .. done[r]
    /\ ~ Suppliable(calls[k].base, calls[k].size)

ContextInv == ContextTypeOK /\ Chain /\ Positions /\ Holdings /\ Refusals

(* When no call takes exactly what is left the stream never wraps, and the *)
(* calls follow one another in it.                                         *)
Ordered ==
  /\ \A k \in 1 .. Len(calls) : calls[k].base + calls[k].size # Word
  /\ \A i, j \in 1 .. Len(calls) : i < j => After(calls, i) <= calls[j].base
-----------------------------------------------------------------------------
LEMMA SizeRange == Size \subseteq 0 .. Word - 1
BY RequestsAssumption, WordAssumption DEF Size

(* What the constructor's size_t test comes to: an empty request is        *)
(* refused unless nothing was reserved yet, any other if it does not fit.  *)
LEMMA SuppliableSizes ==
  ASSUME NEW base \in 0 .. Word - 1, NEW size \in Size
  PROVE  Suppliable(base, size) <=> IF size = 0 THEN base = 0
                                                ELSE base + size <= Word
<1>1. CASE size = 0
  <2>1. (size - 1) % Word = Word - 1
    BY <1>1, WordAssumption
  <2>2. QED
    BY <1>1, <2>1, WordAssumption DEF Suppliable
<1>2. CASE size # 0
  <2>1. size - 1 \in 0 .. Word - 1
    BY <1>2, WordAssumption, RequestsAssumption DEF Size
  <2>2. (size - 1) % Word = size - 1
    BY <2>1, WordAssumption
  <2>3. QED
    BY <1>2, <2>2, WordAssumption, RequestsAssumption DEF Suppliable, Size
<1>3. QED
  BY <1>1, <1>2

(* A counter stays a word, and only a request for exactly the rest of the  *)
(* stream makes it wrap.                                                   *)
LEMMA AdvanceSizes ==
  ASSUME NEW base \in 0 .. Word - 1, NEW size \in Size
  PROVE  /\ Advance(base, size) \in 0 .. Word - 1
         /\ Suppliable(base, size) /\ base + size # Word
              => Advance(base, size) = base + size
<1>1. Advance(base, size) \in 0 .. Word - 1
  BY WordAssumption, RequestsAssumption DEF Advance, Size
<1>2. ASSUME Suppliable(base, size), base + size # Word
      PROVE  Advance(base, size) = base + size
  <2>1. base + size \in 0 .. Word - 1
    BY <1>2, SuppliableSizes, WordAssumption, RequestsAssumption DEF Size
  <2>2. QED
    BY <2>1, WordAssumption DEF Advance
<1>3. QED
  BY <1>1, <1>2

LEMMA EndedRange ==
  ASSUME NEW c \in Call
  PROVE  Ended(c) \in 0 .. Word - 1
BY AdvanceSizes DEF Ended, Call, Size
-----------------------------------------------------------------------------
(* What every action does to the program and to the processes' places.     *)
LEMMA MakesCall ==
  ASSUME ContextInv, NEW r \in Rank, NEW op \in Operation, NEW size \in Size,
         Makes(r, op, size)
  PROVE  /\ calls' \in Seq(Call) /\ Len(calls') <= MaxCalls
         /\ done' = [done EXCEPT ![r] = @ + 1]
         /\ done' \in [Rank -> 0 .. Len(calls')]
         /\ Len(calls') >= Len(calls)
         /\ \A k \in 1 .. Len(calls) : calls'[k] = calls[k]
         /\ \A k \in 1 .. Len(calls') : k > Len(calls) =>
              /\ k = Len(calls) + 1 /\ k = done[r] + 1
              /\ calls'[k].base = counter[r]
         /\ calls'[done[r] + 1].size = size
         /\ calls'[done[r] + 1].base = counter[r]
<1> USE DEF ContextInv, ContextTypeOK
<1>1. done[r] \in 0 .. Len(calls) /\ Len(calls) \in Nat
  OBVIOUS
<1>2. CASE done[r] < Len(calls)
  <2>1. calls' = calls /\ size = calls[done[r] + 1].size
    BY <1>2 DEF Makes
  <2>2. calls[done[r] + 1].base = counter[r]
    BY <1>1, <1>2 DEF Chain, Positions
  <2>3. done' \in [Rank -> 0 .. Len(calls')]
    BY <1>1, <1>2, <2>1 DEF Makes
  <2>4. QED
    BY <1>1, <2>1, <2>2, <2>3 DEF Makes
<1>3. CASE done[r] = Len(calls)
  <2> DEFINE new == [op |-> op, size |-> size, base |-> counter[r]]
  <2>1. new \in Call
    BY DEF Call, Size
  <2>2. calls' = Append(calls, new) /\ Len(calls) < MaxCalls
    BY <1>3 DEF Makes
  <2> HIDE DEF new
  <2>3. /\ calls' \in Seq(Call) /\ Len(calls') = Len(calls) + 1
        /\ \A k \in 1 .. Len(calls) : calls'[k] = calls[k]
        /\ calls'[Len(calls) + 1] = new
    BY <2>1, <2>2
  <2>4. new.size = size /\ new.base = counter[r]
    BY DEF new
  <2>5. done' \in [Rank -> 0 .. Len(calls')]
    BY <1>1, <1>3, <2>3 DEF Makes
  <2>6. QED
    BY <1>1, <1>3, <2>2, <2>3, <2>4, <2>5, MaxCallsAssumption DEF Makes
<1>4. QED
  BY <1>1, <1>2, <1>3
-----------------------------------------------------------------------------
(* The three operations that obtain samples differ in who is left without  *)
(* the array, not in what they do to the stream.                           *)
Granted(r, op, size) ==
  /\ Makes(r, op, size)
  /\ Suppliable(counter[r], size)
  /\ Grant(r, size) \/ UNCHANGED arrays
  /\ counter' = [counter EXCEPT ![r] = Advance(@, size)]
  /\ UNCHANGED thrown

LEMMA NextCases ==
  ASSUME [ContextNext]_contextVars
  PROVE  \/ UNCHANGED contextVars
         \/ \E r \in Rank, op \in Operation, size \in Size :
              Granted(r, op, size) \/ Refuse(r, op, size)
<1> SUFFICES ASSUME ContextNext
             PROVE  \E r \in Rank, op \in Operation, size \in Size :
                      Granted(r, op, size) \/ Refuse(r, op, size)
  OBVIOUS
<1>1. PICK r \in Rank :
        \/ \E size \in Sizes : \/ AllocateArray(r, size)
                               \/ GenerateArray(r, size)
                               \/ \E op \in {"allocate", "generate"} :
                                    Refuse(r, op, size)
        \/ RandomValue(r)
  BY DEF ContextNext
<1>2. CASE RandomValue(r)
  <2>1. Granted(r, "value", 1)
    BY <1>2 DEF RandomValue, Granted
  <2>2. QED
    BY <2>1 DEF Operation, Size
<1>3. ASSUME NEW size \in Sizes, AllocateArray(r, size)
      PROVE  Granted(r, "allocate", size)
  BY <1>3 DEF AllocateArray, Granted
<1>4. ASSUME NEW size \in Sizes, GenerateArray(r, size)
      PROVE  Granted(r, "generate", size)
  BY <1>4 DEF GenerateArray, Granted
<1>5. QED
  BY <1>1, <1>2, <1>3, <1>4 DEF Operation, Size

LEMMA InitContextInv == ContextInit => ContextInv
BY WordAssumption, MaxCallsAssumption
   DEF ContextInit, ContextInv, ContextTypeOK, Chain, Positions, Holdings, Refusals, After

(* The calls made before a step stand where they stood.                    *)
LEMMA StepChain ==
  ASSUME ContextInv, NEW r \in Rank, NEW op \in Operation, NEW size \in Size,
         Makes(r, op, size)
  PROVE  /\ Chain'
         /\ \A k \in 0 .. Len(calls) : After(calls', k) = After(calls, k)
         /\ After(calls', done[r] + 1) =
              IF Suppliable(counter[r], size) THEN Advance(counter[r], size)
                                              ELSE counter[r]
<1>1. /\ calls' \in Seq(Call)
      /\ \A k \in 1 .. Len(calls) : calls'[k] = calls[k]
      /\ \A k \in 1 .. Len(calls') : k > Len(calls) =>
           k = done[r] + 1 /\ calls'[k].base = counter[r]
      /\ calls'[done[r] + 1].size = size
      /\ calls'[done[r] + 1].base = counter[r]
  BY MakesCall
<1>2. done[r] \in 0 .. Len(calls) /\ Len(calls) \in Nat
  BY DEF ContextInv, ContextTypeOK
<1>3. \A k \in 0 .. Len(calls) : After(calls', k) = After(calls, k)
  BY <1>1, <1>2 DEF After
<1>4. After(calls', done[r] + 1) = Ended(calls'[done[r] + 1])
  BY <1>2 DEF After
<1>5. Chain'
  <2> SUFFICES ASSUME NEW k \in 1 .. Len(calls')
               PROVE  calls'[k].base = After(calls', k - 1)
    BY DEF Chain
  <2>1. CASE k <= Len(calls)
    <3>1. calls[k].base = After(calls, k - 1)
      BY <2>1, <1>1, <1>2 DEF Chain, ContextInv
    <3>2. k - 1 \in 0 .. Len(calls)
      BY <2>1, <1>1, <1>2
    <3>3. calls'[k] = calls[k]
      BY <2>1, <1>1, <1>2
    <3>4. QED
      BY <3>1, <3>2, <3>3, <1>3
  <2>2. CASE k > Len(calls)
    <3>1. k = done[r] + 1 /\ calls'[k].base = counter[r]
      BY <2>2, <1>1
    <3>2. counter[r] = After(calls, k - 1)
      BY <3>1, <1>2 DEF ContextInv, Positions
    <3>3. QED
      BY <1>2, <1>3, <3>1, <3>2
  <2>3. QED
    BY <2>1, <2>2, <1>1, <1>2
<1>6. QED
  BY <1>1, <1>3, <1>4, <1>5 DEF Ended

LEMMA StepSupplied ==
  ASSUME ContextInv, NEW r \in Rank, NEW op \in Operation, NEW size \in Size,
         Granted(r, op, size)
  PROVE  ContextInv'
<1> USE DEF ContextInv
<1>1. Makes(r, op, size)
  BY DEF Granted
<1>0. /\ done' = [done EXCEPT ![r] = @ + 1]
      /\ Len(calls) \in Nat /\ Len(calls') \in Nat
      /\ Len(calls') >= Len(calls)
      /\ \A p \in Rank : done[p] \in 0 .. Len(calls)
      /\ \A k \in 1 .. Len(calls) : calls'[k] = calls[k]
      /\ calls'[done[r] + 1].size = size
      /\ calls'[done[r] + 1].base = counter[r]
  BY <1>1, MakesCall DEF ContextTypeOK
<1>2. Advance(counter[r], size) \in 0 .. Word - 1
  BY AdvanceSizes DEF ContextTypeOK
<1>3. counter[r] + size <= Word
  BY SuppliableSizes, WordAssumption DEF Granted, ContextTypeOK
<1>4. done[r] + 1 \in 1 .. Len(calls')
  BY <1>1, MakesCall DEF ContextTypeOK
<1>5. ContextTypeOK'
  <2>1. counter' \in [Rank -> 0 .. Word - 1]
    BY <1>2 DEF Granted, ContextTypeOK
  <2>2. /\ arrays' \in [Rank -> SUBSET Array]
        /\ \A p \in Rank : \A a \in arrays'[p] : a.base + a.size <= Word
    <3>1. CASE UNCHANGED arrays
      BY <3>1 DEF ContextTypeOK
    <3>2. CASE Grant(r, size)
      <4> DEFINE new == [call |-> done[r] + 1, base |-> counter[r],
                         size |-> size]
      <4>1. new \in Array /\ new.base + new.size <= Word
        BY <1>1, <1>3, <1>4, MakesCall, MaxCallsAssumption
           DEF Array, Size, ContextTypeOK
      <4>2. arrays' = [arrays EXCEPT ![r] = @ \cup {new}]
        BY <3>2 DEF Grant
      <4> HIDE DEF new
      <4>3. QED
        BY <4>1, <4>2 DEF ContextTypeOK
    <3>3. QED
      BY <3>1, <3>2 DEF Granted
  <2>3. thrown' \in [Rank -> SUBSET (1 .. MaxCalls)]
    BY DEF Granted, ContextTypeOK
  <2>4. QED
    BY <1>1, <2>1, <2>2, <2>3, MakesCall DEF ContextTypeOK
<1>6. Chain'
  BY <1>1, StepChain
<1>7. Positions'
  <2> SUFFICES ASSUME NEW p \in Rank
               PROVE  counter'[p] = After(calls', done'[p])
    BY DEF Positions
  <2>1. CASE p = r
    BY <1>0, <1>1, <2>1, StepChain DEF Granted, ContextTypeOK
  <2>2. CASE p # r
    <3>1. counter'[p] = counter[p] /\ done'[p] = done[p]
      BY <1>0, <2>2 DEF Granted, ContextTypeOK
    <3>2. After(calls', done[p]) = After(calls, done[p])
      BY <1>0, <1>1, StepChain
    <3>3. QED
      BY <3>1, <3>2 DEF Positions
  <2>3. QED
    BY <2>1, <2>2
<1>8. Holdings'
  <2> SUFFICES ASSUME NEW p \in Rank, NEW a \in arrays'[p]
               PROVE  /\ a.call \in 1 .. done'[p]
                      /\ a.base = calls'[a.call].base
                      /\ a.size = calls'[a.call].size
                      /\ Suppliable(a.base, a.size)
    BY DEF Holdings
  <2>1. CASE a \in arrays[p]
    BY <1>0, <2>1 DEF Holdings, ContextTypeOK
  <2>2. CASE a \notin arrays[p]
    <3>1. /\ p = r
          /\ a = [call |-> done[r] + 1, base |-> counter[r], size |-> size]
      BY <2>2 DEF Granted, Grant, ContextTypeOK
    <3>2. QED
      BY <1>1, <3>1, MakesCall DEF Granted, ContextTypeOK
  <2>3. QED
    BY <2>1, <2>2
<1>9. Refusals'
  BY <1>0 DEF Refusals, Granted, ContextTypeOK
<1>10. QED
  BY <1>5, <1>6, <1>7, <1>8, <1>9

LEMMA StepRefuse ==
  ASSUME ContextInv, NEW r \in Rank, NEW op \in Operation, NEW size \in Size,
         Refuse(r, op, size)
  PROVE  ContextInv'
<1> USE DEF ContextInv
<1>1. Makes(r, op, size)
  BY DEF Refuse
<1>0. /\ done' = [done EXCEPT ![r] = @ + 1]
      /\ Len(calls) \in Nat /\ Len(calls') \in Nat
      /\ Len(calls') >= Len(calls)
      /\ \A p \in Rank : done[p] \in 0 .. Len(calls)
      /\ \A k \in 1 .. Len(calls) : calls'[k] = calls[k]
      /\ calls'[done[r] + 1].size = size
      /\ calls'[done[r] + 1].base = counter[r]
  BY <1>1, MakesCall DEF ContextTypeOK
<1>2. done[r] + 1 \in 1 .. MaxCalls
  BY <1>1, MakesCall, MaxCallsAssumption DEF ContextTypeOK
<1>3. ContextTypeOK'
  BY <1>1, <1>2, MakesCall DEF ContextTypeOK, Refuse
<1>4. Chain'
  BY <1>1, StepChain
<1>5. Positions'
  <2> SUFFICES ASSUME NEW p \in Rank
               PROVE  counter'[p] = After(calls', done'[p])
    BY DEF Positions
  <2>1. CASE p = r
    BY <1>0, <1>1, <2>1, StepChain DEF Refuse, ContextTypeOK
  <2>2. CASE p # r
    <3>1. counter'[p] = counter[p] /\ done'[p] = done[p]
      BY <1>0, <2>2 DEF Refuse, ContextTypeOK
    <3>2. After(calls', done[p]) = After(calls, done[p])
      BY <1>0, <1>1, StepChain
    <3>3. QED
      BY <3>1, <3>2 DEF Positions
  <2>3. QED
    BY <2>1, <2>2
<1>6. Holdings'
  <2> SUFFICES ASSUME NEW p \in Rank, NEW a \in arrays'[p]
               PROVE  /\ a.call \in 1 .. done'[p]
                      /\ a.base = calls'[a.call].base
                      /\ a.size = calls'[a.call].size
                      /\ Suppliable(a.base, a.size)
    BY DEF Holdings
  <2>1. a \in arrays[p]
    BY DEF Refuse
  <2>2. /\ a.call \in 1 .. done[p]
        /\ a.base = calls[a.call].base /\ a.size = calls[a.call].size
        /\ Suppliable(a.base, a.size)
    BY <2>1 DEF Holdings
  <2>3. QED
    BY <1>0, <2>2
<1>7. Refusals'
  <2> SUFFICES ASSUME NEW p \in Rank, NEW k \in thrown'[p]
               PROVE  /\ k \in 1 .. done'[p]
                      /\ ~ Suppliable(calls'[k].base, calls'[k].size)
    BY DEF Refusals
  <2>1. CASE k \in thrown[p]
    BY <1>0, <2>1 DEF Refusals, ContextTypeOK
  <2>2. CASE k \notin thrown[p]
    <3>1. p = r /\ k = done[r] + 1
      BY <2>2 DEF Refuse, ContextTypeOK
    <3>2. QED
      BY <1>1, <3>1, MakesCall DEF Refuse, ContextTypeOK
  <2>3. QED
    BY <2>1, <2>2
<1>8. QED
  BY <1>3, <1>4, <1>5, <1>6, <1>7

(* The invariant holds throughout.                                         *)
THEOREM Invariance == ContextSpec => []ContextInv
<1>1. ContextInit => ContextInv
  BY InitContextInv
<1>2. ContextInv /\ [ContextNext]_contextVars => ContextInv'
  <2> SUFFICES ASSUME ContextInv, [ContextNext]_contextVars
               PROVE  ContextInv'
    OBVIOUS
  <2>1. CASE UNCHANGED contextVars
    <3>1. UNCHANGED <<counter, calls, done, arrays, thrown>>
      BY <2>1 DEF contextVars
    <3>2. ContextTypeOK' /\ Holdings' /\ Refusals'
      BY <3>1 DEF ContextInv, ContextTypeOK, Holdings, Refusals
    <3>3. Chain' /\ Positions'
      BY <3>1 DEF ContextInv, Chain, Positions, After, Ended
    <3>4. QED
      BY <3>2, <3>3 DEF ContextInv
  <2>2. QED
    BY <2>1, NextCases, StepSupplied, StepRefuse
<1>3. QED
  BY <1>1, <1>2, PTL DEF ContextSpec

(* Counters, calls and arrays stay in range, whatever is asked of the      *)
(* context: in particular no array ever runs past the end of the stream.   *)
THEOREM TypeCorrect == ContextSpec => []ContextTypeOK
<1>1. ContextInv => ContextTypeOK
  BY DEF ContextInv
<1>2. QED
  BY <1>1, Invariance, PTL

(* The copies of the context agree for every number of processes, whatever *)
(* their relative speed, whichever of them an allocation failed on.        *)
THEOREM ContextsAgree == ContextSpec => []Synchronized
<1>1. ContextInv => Synchronized
  <2> SUFFICES ASSUME ContextInv, NEW p \in Rank, NEW q \in Rank
               PROVE  /\ done[p] = done[q] => counter[p] = counter[q]
                      /\ \A a \in arrays[p], b \in arrays[q] :
                           a.call = b.call => a = b
                      /\ \A a \in arrays[p] : a.call \notin thrown[q]
    BY DEF Synchronized
  <2>1. done[p] = done[q] => counter[p] = counter[q]
    BY DEF ContextInv, Positions
  <2>2. ASSUME NEW a \in arrays[p], NEW b \in arrays[q], a.call = b.call
        PROVE  a = b
    <3>1. a \in Array /\ b \in Array
      BY DEF ContextInv, ContextTypeOK
    <3>2. a.base = b.base /\ a.size = b.size
      BY <2>2 DEF ContextInv, Holdings
    <3>3. QED
      BY <2>2, <3>1, <3>2 DEF Array
  <2>3. ASSUME NEW a \in arrays[p] PROVE a.call \notin thrown[q]
    BY DEF ContextInv, Holdings, Refusals
  <2>4. QED
    BY <2>1, <2>2, <2>3
<1>2. QED
  BY <1>1, Invariance, PTL
-----------------------------------------------------------------------------
(* Two calls of the program reserve samples that follow one another.       *)
LEMMA OrderedArrays ==
  ASSUME ContextInv, Ordered, NEW p \in Rank, NEW q \in Rank,
         NEW a \in arrays[p], NEW b \in arrays[q], a.call < b.call
  PROVE  a.base + a.size <= b.base
<1>1. /\ a.call \in 1 .. Len(calls) /\ b.call \in 1 .. Len(calls)
      /\ a.base = calls[a.call].base /\ a.size = calls[a.call].size
      /\ b.base = calls[b.call].base
      /\ Suppliable(a.base, a.size)
  BY DEF ContextInv, ContextTypeOK, Holdings
<1>2. a.base \in 0 .. Word - 1 /\ a.size \in Size
  BY DEF ContextInv, ContextTypeOK, Array, Size
<1>3. a.base + a.size # Word
  BY <1>1 DEF Ordered
<1>4. After(calls, a.call) = a.base + a.size
  BY <1>1, <1>2, <1>3, AdvanceSizes DEF After, Ended
<1>5. QED
  BY <1>1, <1>4 DEF Ordered

LEMMA OrderedDisjoint ==
  ASSUME ContextInv, Ordered
  PROVE  Disjoint
<1> SUFFICES ASSUME NEW p \in Rank, NEW q \in Rank,
                    NEW a \in arrays[p], NEW b \in arrays[q], a.call # b.call
             PROVE  ~ Overlap(a, b)
  BY DEF Disjoint
<1>1. a \in Array /\ b \in Array
  BY DEF ContextInv, ContextTypeOK
<1>2. /\ a.call \in Nat /\ a.base \in Nat /\ a.size \in Nat
      /\ b.call \in Nat /\ b.base \in Nat /\ b.size \in Nat
  <2>1. Array \subseteq [call : Nat, base : Nat, size : Nat]
    BY SizeRange DEF Array, Size
  <2>2. QED
    BY <1>1, <2>1
<1>3. CASE a.call < b.call
  BY <1>2, <1>3, OrderedArrays DEF Overlap
<1>4. CASE b.call < a.call
  BY <1>2, <1>4, OrderedArrays DEF Overlap
<1>5. QED
  BY <1>2, <1>3, <1>4

(* A new call stands behind every call before it.                          *)
LEMMA StepOrdered ==
  ASSUME ~ MayExhaust, ContextInv, Ordered,
         NEW r \in Rank, NEW op \in Operation, NEW size \in Size,
         Makes(r, op, size)
  PROVE  Ordered'
<1>1. /\ calls' \in Seq(Call) /\ Len(calls) \in Nat /\ Len(calls') \in Nat
      /\ \A k \in 1 .. Len(calls) : calls'[k] = calls[k]
      /\ \A k \in 1 .. Len(calls') : k > Len(calls) =>
           /\ k = Len(calls) + 1 /\ k = done[r] + 1
           /\ calls'[k].base = counter[r]
      /\ calls'[done[r] + 1].size = size
  BY MakesCall DEF ContextInv, ContextTypeOK
<1>2. \A k \in 0 .. Len(calls) : After(calls', k) = After(calls, k)
  BY StepChain
<1>3. \A k \in 1 .. Len(calls') : calls'[k].base + calls'[k].size # Word
  <2> SUFFICES ASSUME NEW k \in 1 .. Len(calls')
               PROVE  calls'[k].base + calls'[k].size # Word
    OBVIOUS
  <2>1. CASE k <= Len(calls)
    BY <1>1, <2>1 DEF Ordered
  <2>2. CASE k > Len(calls)
    <3>1. counter[r] + size # Word
      BY <1>1, <2>2 DEF Makes
    <3>2. QED
      BY <1>1, <2>2, <3>1
  <2>3. QED
    BY <1>1, <2>1, <2>2
<1>4. ASSUME NEW i \in 1 .. Len(calls'), NEW j \in 1 .. Len(calls'), i < j
      PROVE  After(calls', i) <= calls'[j].base
  <2>1. i \in 1 .. Len(calls)
    BY <1>1, <1>4
  <2>2. After(calls', i) = After(calls, i)
    BY <1>2, <2>1
  <2>3. CASE j <= Len(calls)
    BY <1>1, <1>4, <2>1, <2>2, <2>3 DEF Ordered
  <2>4. CASE j > Len(calls)
    <3> DEFINE n == Len(calls)
    <3>1. calls'[j].base = After(calls, n)
      BY <1>1, <2>4 DEF ContextInv, ContextTypeOK, Positions
    <3>2. calls[n] \in Call /\ calls[i] \in Call
      BY <1>1, <2>1 DEF ContextInv, ContextTypeOK
    <3>3. calls[n].base <= After(calls, n)
      <4>1. calls[n].base + calls[n].size # Word
        BY <1>1, <2>1 DEF Ordered
      <4>2. calls[n].base \in 0 .. Word - 1 /\ calls[n].size \in Size
        BY <3>2 DEF Call, Size
      <4>3. calls[n].size \in Nat /\ calls[n].base \in Nat
        <5>1. calls[n].size \in 0 .. Word - 1
          BY <4>2, SizeRange
        <5>2. QED
          BY <4>2, <5>1, WordAssumption
      <4>4. After(calls, n) = Ended(calls[n])
        BY <1>1, <2>1 DEF After
      <4>5. QED
        BY <4>1, <4>2, <4>3, <4>4, AdvanceSizes DEF Ended
    <3>4. CASE i = n
      <4>1. After(calls, n) = Ended(calls[n])
        BY <1>1, <2>1 DEF After
      <4>2. After(calls, n) \in Int
        BY <3>2, <4>1, EndedRange
      <4>3. QED
        BY <2>2, <3>1, <3>4, <4>2
    <3>5. CASE i < n
      <4>1. After(calls, i) <= calls[n].base
        BY <1>1, <2>1, <3>5 DEF Ordered
      <4>2. After(calls, i) \in Int /\ After(calls, n) \in Int
        BY <1>1, <2>1, <3>2, EndedRange DEF After
      <4>3. calls[n].base \in Int
        BY <3>2 DEF Call
      <4>4. QED
        BY <2>2, <3>1, <3>3, <4>1, <4>2, <4>3
    <3>6. QED
      BY <1>1, <2>1, <3>4, <3>5
  <2>5. QED
    BY <1>1, <2>3, <2>4
<1>5. QED
  BY <1>3, <1>4 DEF Ordered

(* The order lasts as long as no call takes exactly the last samples of    *)
(* the stream, after which the counter is 0 again.                         *)
LEMMA StaysOrdered ==
  ASSUME ~ MayExhaust
  PROVE  ContextSpec => []Ordered
<1>1. ContextInit => Ordered
  BY DEF ContextInit, Ordered
<1>2. ContextInv /\ Ordered /\ [ContextNext]_contextVars => Ordered'
  <2> SUFFICES ASSUME ContextInv, Ordered, [ContextNext]_contextVars
               PROVE  Ordered'
    OBVIOUS
  <2>1. CASE UNCHANGED contextVars
    BY <2>1 DEF contextVars, Ordered, After, Ended
  <2>2. ASSUME NEW r \in Rank, NEW op \in Operation, NEW size \in Size,
               Granted(r, op, size) \/ Refuse(r, op, size)
        PROVE  Ordered'
    <3>1. Makes(r, op, size)
      BY <2>2 DEF Granted, Refuse
    <3>2. QED
      BY <3>1, StepOrdered
  <2>3. QED
    BY <2>1, <2>2, NextCases
<1>3. QED
  BY <1>1, <1>2, Invariance, PTL DEF ContextSpec

(* No two calls ever share a sample, on any two processes, however many    *)
(* calls are made: provided no call takes exactly the last samples of the  *)
(* stream, after which the counter is 0 again.                             *)
THEOREM StreamsDisjoint ==
  ASSUME ~ MayExhaust
  PROVE  ContextSpec => []Disjoint
<1>1. ContextInv /\ Ordered => Disjoint
  BY OrderedDisjoint
<1>2. QED
  BY <1>1, Invariance, StaysOrdered, PTL
-----------------------------------------------------------------------------
(***************************************************************************)
(* The replicated counters implement SharedStream.  The abstract variables *)
(* of the refinement, under names of their own.                            *)
(***************************************************************************)
Reserved == [k \in 1 .. Len(calls) |-> Reservation(calls[k])]
HeldCalls == [r \in Rank |-> {a.call : a \in arrays[r]}]

(* A reservation lies within what its call took from the stream.           *)
LEMMA ReservationRange ==
  ASSUME NEW c \in Call, c.base + c.size # Word
  PROVE  /\ Reservation(c).base = c.base
         /\ Reservation(c).size \in 0 .. Word
         /\ c.base + Reservation(c).size = Ended(c)
         /\ Ended(c) <= Word
<1>1. c.base \in 0 .. Word - 1 /\ c.size \in Size
  BY DEF Call, Size
<1>2. c.size \in 0 .. Word - 1
  BY <1>1, SizeRange
<1>3. CASE Suppliable(c.base, c.size)
  BY <1>1, <1>2, <1>3, AdvanceSizes, WordAssumption DEF Reservation, Ended
<1>4. CASE ~ Suppliable(c.base, c.size)
  BY <1>1, <1>4, WordAssumption DEF Reservation, Ended
<1>5. QED
  BY <1>3, <1>4

(* What the first process to make a call reserves is what it took, and     *)
(* nothing anybody reserved before.                                        *)
LEMMA ReservesFresh ==
  ASSUME ~ MayExhaust, ContextInv, Ordered,
         NEW r \in Rank, NEW op \in Operation, NEW size \in Size,
         Makes(r, op, size), done[r] = Len(calls)
  PROVE  \E fresh \in [base : 0 .. Word, size : 0 .. Word] :
           /\ fresh.base + fresh.size <= Word
           /\ Reserved' = Append(Reserved, fresh)
           /\ \A i \in 1 .. Len(calls) :
                Shared!Samples(fresh) \cap Shared!Samples(Reserved[i]) = {}
<1> DEFINE n == Len(calls)
           new == calls'[n + 1]
           fresh == Reservation(new)
<1>1. /\ n \in Nat /\ Len(calls') = n + 1 /\ calls' \in Seq(Call)
      /\ \A k \in 1 .. n : calls'[k] = calls[k]
      /\ new.base = counter[r] /\ new.size = size
  <2>1. Len(calls') = n + 1
    BY DEF Makes, ContextInv, ContextTypeOK
  <2>2. QED
    BY <2>1, MakesCall DEF ContextInv, ContextTypeOK
<1>2. Ordered' /\ Chain'
  BY StepOrdered, StepChain
<1>3. \A k \in 1 .. n + 1 : calls'[k] \in Call /\ calls'[k].base + calls'[k].size # Word
  BY <1>1, <1>2 DEF Ordered
<1>4. /\ fresh = [base |-> new.base, size |-> fresh.size]
      /\ fresh.size \in 0 .. Word /\ new.base + fresh.size <= Word
      /\ new.base \in 0 .. Word
  BY <1>1, <1>3, ReservationRange, WordAssumption DEF Reservation, Call
<1>5. Reserved' = Append(Reserved, fresh)
  BY <1>1 DEF Reserved
<1>6. ASSUME NEW i \in 1 .. n
      PROVE  Shared!Samples(fresh) \cap Shared!Samples(Reserved[i]) = {}
  <2>1. Reserved[i] = Reservation(calls'[i]) /\ calls'[i] \in Call
    BY <1>1, <1>3 DEF Reserved
  <2>2. After(calls', i) <= new.base
    BY <1>1, <1>2 DEF Ordered
  <2>3. After(calls', i) = Ended(calls'[i])
    BY <1>1 DEF After
  <2>4. /\ calls'[i].base \in Int
        /\ Reservation(calls'[i]).base = calls'[i].base
        /\ Reservation(calls'[i]).size \in Int
        /\ calls'[i].base + Reservation(calls'[i]).size <= new.base
    <3>1. Ended(calls'[i]) <= new.base /\ calls'[i].base + calls'[i].size # Word
      BY <1>3, <2>2, <2>3
    <3>2. calls'[i].base \in Int
      BY <2>1 DEF Call
    <3> HIDE DEF new, fresh
    <3>3. QED
      BY <2>1, <3>1, <3>2, ReservationRange
  <2> HIDE DEF new, fresh
  <2>5. QED
    BY <1>4, <2>1, <2>4 DEF Shared!Samples
<1> HIDE DEF fresh, new
<1>7. QED
  BY <1>4, <1>5, <1>6

(* Going through a call: a process gets that call's array, or nothing.     *)
LEMMA PassesCall ==
  ASSUME ContextInv, NEW r \in Rank, NEW size,
         \/ Grant(r, size)
         \/ UNCHANGED arrays
  PROVE  \E got \in SUBSET {done[r] + 1} :
           HeldCalls' = [HeldCalls EXCEPT ![r] = @ \cup got]
<1>1. CASE UNCHANGED arrays
  <2>1. HeldCalls' = HeldCalls
    BY <1>1 DEF HeldCalls
  <2>2. HeldCalls = [HeldCalls EXCEPT ![r] = @ \cup {}]
    BY DEF HeldCalls
  <2>3. QED
    BY <2>1, <2>2
<1>2. CASE Grant(r, size)
  <2> DEFINE new == [call |-> done[r] + 1, base |-> counter[r], size |-> size]
             held == {a.call : a \in arrays[r]}
  <2>1. arrays' = [arrays EXCEPT ![r] = @ \cup {new}] /\ new.call = done[r] + 1
    BY <1>2 DEF Grant
  <2> HIDE DEF new
  <2>2. {a.call : a \in arrays[r] \cup {new}} = held \cup {done[r] + 1}
    BY <2>1
  <2>3. \A p \in Rank : arrays'[p] = IF p = r THEN arrays[r] \cup {new} ELSE arrays[p]
    BY <2>1 DEF ContextInv, ContextTypeOK
  <2>4. HeldCalls' = [p \in Rank |-> {a.call : a \in IF p = r THEN arrays[r] \cup {new}
                                                            ELSE arrays[p]}]
    BY <2>3 DEF HeldCalls
  <2>5. HeldCalls' = [HeldCalls EXCEPT ![r] = held \cup {done[r] + 1}]
    BY <2>2, <2>4 DEF HeldCalls
  <2>6. HeldCalls[r] = held
    BY DEF HeldCalls
  <2>7. QED
    BY <2>5, <2>6
<1>3. QED
  BY <1>1, <1>2

LEMMA StepShared ==
  ASSUME ~ MayExhaust, ContextInv, Ordered,
         NEW r \in Rank, NEW op \in Operation, NEW size \in Size,
         Granted(r, op, size) \/ Refuse(r, op, size)
  PROVE  Shared!Next
<1>1. /\ Makes(r, op, size)
      /\ Grant(r, size) \/ UNCHANGED arrays
  BY DEF Granted, Refuse
<1>2. /\ done' = [done EXCEPT ![r] = @ + 1]
      /\ done[r] \in 0 .. Len(calls) /\ Len(calls) \in Nat
  BY <1>1, MakesCall DEF ContextInv, ContextTypeOK
<1>3. Len(Reserved) = Len(calls)
  BY <1>2 DEF Reserved
<1>4. Shared!Pass(r)
  <2>1. PICK got \in SUBSET {done[r] + 1} :
          HeldCalls' = [HeldCalls EXCEPT ![r] = @ \cup got]
    BY <1>1, PassesCall
  <2>2. QED
    BY <1>2, <2>1 DEF Shared!Pass, HeldCalls
<1>5. CASE done[r] < Len(calls)
  <2>1. calls' = calls
    BY <1>1, <1>5 DEF Makes
  <2>2. Shared!Follow(r)
    BY <1>3, <1>4, <1>5, <2>1 DEF Shared!Follow, Reserved, Reservation
  <2>3. QED
    BY <2>2 DEF Shared!Next
<1>6. CASE done[r] = Len(calls)
  <2>1. PICK fresh \in [base : 0 .. Word, size : 0 .. Word] :
           /\ fresh.base + fresh.size <= Word
           /\ Reserved' = Append(Reserved, fresh)
           /\ \A i \in 1 .. Len(calls) :
                Shared!Samples(fresh) \cap Shared!Samples(Reserved[i]) = {}
    BY <1>1, <1>6, ReservesFresh
  <2>2. fresh = [base |-> fresh.base, size |-> fresh.size]
    OBVIOUS
  <2>3. Shared!Reserve(r)
    BY <1>3, <1>4, <1>6, <2>1, <2>2 DEF Shared!Reserve, Reserved
  <2>4. QED
    BY <2>3 DEF Shared!Next
<1>7. QED
  BY <1>2, <1>5, <1>6

(* However many processes replicate the counter, and at whatever pace:     *)
(* every behaviour of Context is one of a single stream out of which each  *)
(* call reserves samples nobody else has.                                  *)
THEOREM ContextImplements ==
  ASSUME ~ MayExhaust
  PROVE  ContextSpec => ImplementsSharedStream
<1>1. ContextInit => Shared!Init
  BY DEF ContextInit, Shared!Init
<1>2. ContextInv /\ Ordered /\ [ContextNext]_contextVars => [Shared!Next]_(Shared!vars)
  <2> SUFFICES ASSUME ContextInv, Ordered, [ContextNext]_contextVars
               PROVE  [Shared!Next]_(Shared!vars)
    OBVIOUS
  <2>1. CASE UNCHANGED contextVars
    BY <2>1 DEF contextVars, Shared!vars, Reservation
  <2>2. QED
    BY <2>1, NextCases, StepShared
<1>3. ContextSpec => []Ordered
  BY StaysOrdered
<1>4. QED
  BY <1>1, <1>2, <1>3, Invariance, PTL
     DEF ContextSpec, ImplementsSharedStream, Shared!Spec
-----------------------------------------------------------------------------
(***************************************************************************)
(* SketchData.  The samples a sketch holds stay within the stream, no      *)
(* sample serves two parts or two sketches, and a sketch that is read back *)
(* is the sketch that was written.  The last two leave out the classes     *)
(* whose code breaks them.                                                 *)
(***************************************************************************)

(***************************************************************************)
(* The class an object or a ptree stands for, whichever way its type is    *)
(* spelt.                                                                  *)
(***************************************************************************)
KindOf(type) ==
  IF type = "ExpSemiGroupRLT" THEN "ExpSemigroupRLT"
  ELSE IF type = "ExpSemiGroupQRLT" THEN "ExpSemigroupQRLT"
  ELSE type

Objects == sketches \cup stored

(* Two things, alive or stored, that come from one creation.               *)
Akin(a, b) == /\ KindOf(a.type) = KindOf(b.type)
              /\ a.N = b.N
              /\ a.S = b.S
              /\ a.replace = b.replace
              /\ a.creation = b.creation

Known(o) == o.id \in 1 .. created /\ KindOf(o.type) \in Kinds

(***************************************************************************)
(* A sketch may be gone when its ptree is read, so that the ptrees must be *)
(* tied to one another and to the sketches.                                *)
(***************************************************************************)
Lineage ==
  /\ created \in Nat
  /\ \A o \in Objects : Known(o)
  /\ \A o, q \in Objects : o.id = q.id => Akin(o, q)
  /\ \A s \in sketches : s.kind = KindOf(s.type)

(* What the class of o draws, and where the draws of o stand.              *)
Drawn(o) == Layout(o.N, o.S, o.replace)[KindOf(o.type)]
DrawnTo(o) == BuildEnd(Drawn(o), o.creation)

(* What a sketch holds when it is created, and what it must hold to be the *)
(* sketch that was created.                                                *)
WellBuilt(s) == s.parts = Built(Drawn(s), s.creation)

(* What is read back holds the first of these parts (all, but for WZT).    *)
HoldsDrawn(s) ==
  \A i \in DOMAIN s.parts :
    /\ i \in 1 .. Len(Drawn(s))
    /\ s.parts[i] = Built(Drawn(s), s.creation)[i]

(* The draws of an object were asked for, and were supplied, before what   *)
(* the caller's context is at.                                             *)
Supplied(o) ==
  /\ <<o.N, o.S>> \in Dims
  /\ o.replace \in Variants(KindOf(o.type))
  /\ o.creation \in 0 .. Word - 1
  /\ Buildable(Drawn(o), o.creation)
  /\ Spares(Drawn(o), o.creation)
  /\ DrawnTo(o) <= context

(* Sketches draw one after another.                                        *)
Apart == \A o, q \in Objects : o.id < q.id => DrawnTo(o) <= q.creation

StreamInv ==
  /\ Lineage
  /\ context \in 0 .. Word - 1
  /\ created <= MaxSketches
  /\ unread \subseteq stored
  /\ \A o \in Objects : Supplied(o)
  /\ \A s \in sketches : HoldsDrawn(s)

IndependentInv == StreamInv /\ Apart

SameInv == Lineage /\ \A s \in sketches : WellBuilt(s)
-----------------------------------------------------------------------------
(* The context after a part is the context before it, advanced by the size *)
(* of the part if the part moves it.  (Walk is a recursive function; that  *)
(* there is one is shown at the shortest layout without one.)              *)
LEMMA WalkDef ==
  ASSUME NEW layout, NEW start, Len(layout) \in Nat
  PROVE  Walk(layout, start) =
           [i \in 0 .. Len(layout) |->
              IF i = 0 THEN start
              ELSE IF layout[i].moves
                THEN Advance(Walk(layout, start)[i - 1], layout[i].size)
              ELSE Walk(layout, start)[i - 1]]
<1> DEFINE next(f, i) == IF layout[i].moves THEN Advance(f[i - 1], layout[i].size)
                                            ELSE f[i - 1]
           Is(f, k) == f = [i \in 0 .. k |-> IF i = 0 THEN start ELSE next(f, i)]
           Bad == {k \in Nat : ~ \E f : Is(f, k)}
<1>1. Bad = {}
  <2> SUFFICES ASSUME Bad # {} PROVE FALSE
    OBVIOUS
  <2>1. PICK k \in Bad : \A m \in Bad : k <= m
    BY LeastNatural
  <2>2. k # 0
    <3>1. Is([i \in 0 .. 0 |-> start], 0)
      OBVIOUS
    <3>2. QED
      BY <3>1
  <2>3. k - 1 \in Nat /\ k - 1 \notin Bad
    <3> HIDE DEF Is
    <3>1. k \in Nat
      BY <2>1
    <3> HIDE DEF Bad
    <3>2. QED
      BY <2>1, <2>2, <3>1
  <2>4. PICK f : Is(f, k - 1)
    BY <2>3
  <2> DEFINE g == [i \in 0 .. k |-> IF i = k THEN next(f, k) ELSE f[i]]
  <2>5. Is(g, k)
    <3> SUFFICES ASSUME NEW i \in 0 .. k
                 PROVE  g[i] = IF i = 0 THEN start ELSE next(g, i)
      OBVIOUS
    <3> QED
      BY <2>2, <2>3, <2>4
  <2>6. QED
    BY <2>5
<1>2. \E f : Is(f, Len(layout))
  BY <1>1
<1>3. Walk(layout, start) = CHOOSE f : Is(f, Len(layout))
  BY DEF Walk
<1>4. Is(Walk(layout, start), Len(layout))
  BY <1>2, <1>3
<1>5. QED
  BY <1>4

(* A layout whose sizes are size_t, drawn from a context that can supply   *)
(* it and is not used up by it.                                            *)
Sized(layout) == /\ Len(layout) \in Nat
                 /\ \A i \in 1 .. Len(layout) : layout[i].size \in 0 .. Word - 1

Drawable(layout, start) == /\ start \in 0 .. Word - 1
                           /\ Buildable(layout, start)
                           /\ Spares(layout, start)

(* What the size_t test of a random array comes to.                        *)
LEMMA SuppliableSize ==
  ASSUME NEW base \in 0 .. Word - 1, NEW size \in 0 .. Word - 1,
         Suppliable(base, size)
  PROVE  base + size \in 0 .. Word
<1>1. CASE size = 0
  BY <1>1, WordAssumption
<1>2. CASE size # 0
  <2>1. (size - 1) % Word = size - 1
    BY <1>2, WordAssumption
  <2>2. QED
    BY <2>1, WordAssumption DEF Suppliable
<1>3. QED
  BY <1>1, <1>2

LEMMA AdvanceSize ==
  ASSUME NEW base \in 0 .. Word - 1, NEW size \in 0 .. Word - 1,
         base + size \in 0 .. Word, base + size # Word
  PROVE  Advance(base, size) = base + size
<1>1. base + size \in 0 .. Word - 1
  BY WordAssumption
<1>2. QED
  BY <1>1, WordAssumption DEF Advance

(* Drawing never wraps: a part begins where the part before it ends.       *)
LEMMA WalkStep ==
  ASSUME NEW layout, NEW start, Sized(layout), Drawable(layout, start),
         NEW i \in 1 .. Len(layout),
         Walk(layout, start)[i - 1] \in 0 .. Word - 1
  PROVE  /\ Walk(layout, start)[i - 1] + layout[i].size \in 0 .. Word
         /\ Walk(layout, start)[i] \in 0 .. Word - 1
         /\ Walk(layout, start)[i] >= Walk(layout, start)[i - 1]
         /\ layout[i].moves =>
              Walk(layout, start)[i] = Walk(layout, start)[i - 1] + layout[i].size
<1> DEFINE at == Walk(layout, start)
<1>1. /\ layout[i].size \in 0 .. Word - 1
      /\ Suppliable(at[i - 1], layout[i].size)
      /\ layout[i].moves => at[i - 1] + layout[i].size # Word
      /\ Len(layout) \in Nat
  BY DEF Sized, Drawable, Buildable, Spares
<1>2. at[i] = IF layout[i].moves THEN Advance(at[i - 1], layout[i].size)
                                 ELSE at[i - 1]
  <2>1. i \in 0 .. Len(layout) /\ i # 0
    BY <1>1
  <2>2. QED
    BY <1>1, <2>1, WalkDef
<1> HIDE DEF at
<1>3. at[i - 1] \in 0 .. Word - 1
  BY DEF at
<1>4. at[i - 1] + layout[i].size \in 0 .. Word
  BY <1>1, <1>3, SuppliableSize
<1>5. CASE layout[i].moves
  <2>1. at[i] = at[i - 1] + layout[i].size
    BY <1>1, <1>2, <1>3, <1>4, <1>5, AdvanceSize
  <2>2. QED
    BY <1>1, <1>3, <1>4, <2>1, <1>5, WordAssumption DEF at
<1>6. CASE ~ layout[i].moves
  BY <1>2, <1>3, <1>4, <1>6 DEF at
<1>7. QED
  BY <1>5, <1>6

LEMMA WalkRange ==
  ASSUME NEW layout, NEW start, Sized(layout), Drawable(layout, start)
  PROVE  /\ Walk(layout, start)[0] = start
         /\ \A i \in 0 .. Len(layout) : Walk(layout, start)[i] \in 0 .. Word - 1
<1> DEFINE at == Walk(layout, start)
           Bad == {i \in 0 .. Len(layout) : at[i] \notin 0 .. Word - 1}
<1>1. Len(layout) \in Nat
  BY DEF Sized
<1>2. at[0] = start
  BY <1>1, WalkDef
<1>3. Bad = {}
  <2> SUFFICES ASSUME Bad # {} PROVE FALSE
    OBVIOUS
  <2>1. Bad \subseteq Nat
    BY <1>1
  <2>2. PICK i \in Bad : \A j \in Bad : i <= j
    BY <2>1, LeastNatural
  <2>3. i # 0
    BY <1>2, <2>2 DEF Drawable
  <2>4. i \in 1 .. Len(layout) /\ i - 1 \in 0 .. Len(layout) /\ i - 1 \notin Bad
    BY <1>1, <2>2, <2>3
  <2>5. at[i - 1] \in 0 .. Word - 1
    BY <2>4
  <2>6. at[i] \in 0 .. Word - 1
    BY <2>4, <2>5, WalkStep
  <2>7. QED
    BY <2>2, <2>6
<1>4. QED
  BY <1>2, <1>3

LEMMA WalkMonotone ==
  ASSUME NEW layout, NEW start, Sized(layout), Drawable(layout, start),
         NEW i \in 0 .. Len(layout), NEW j \in 0 .. Len(layout), i <= j
  PROVE  Walk(layout, start)[i] <= Walk(layout, start)[j]
<1> DEFINE at == Walk(layout, start)
           Bad == {k \in i .. Len(layout) : ~ (at[i] <= at[k])}
<1>1. Len(layout) \in Nat
  BY DEF Sized
<1>2. \A k \in 0 .. Len(layout) : at[k] \in 0 .. Word - 1
  BY WalkRange
<1>3. Bad = {}
  <2> SUFFICES ASSUME Bad # {} PROVE FALSE
    OBVIOUS
  <2>1. Bad \subseteq Nat
    BY <1>1
  <2>2. PICK k \in Bad : \A m \in Bad : k <= m
    BY <2>1, LeastNatural
  <2>3. k # i
    BY <1>2, <2>2
  <2>4. k \in 1 .. Len(layout) /\ k - 1 \in i .. Len(layout) /\ k - 1 \notin Bad
    BY <1>1, <2>2, <2>3
  <2>5. at[i] <= at[k - 1] /\ at[k - 1] \in 0 .. Word - 1
    BY <1>2, <2>4
  <2>6. at[k] >= at[k - 1] /\ at[k] \in 0 .. Word - 1
    BY <2>4, <2>5, WalkStep
  <2> HIDE DEF at
  <2>7. at[i] <= at[k]
    BY <1>2, <2>5, <2>6, <1>1
  <2>8. QED
    BY <2>2, <2>7
<1>4. j \in i .. Len(layout)
  BY <1>1
<1>5. QED
  BY <1>3, <1>4
-----------------------------------------------------------------------------
(* Every class draws a sequence of parts, and every class but RFUT and     *)
(* FJLT moves the context over each of them.                               *)
Moving(layout) == \E E : layout \in Seq(E) /\ \A e \in E : e.moves

LEMMA MovingPart ==
  ASSUME NEW name, NEW size
  PROVE  Moving(Part(name, size))
<1> DEFINE E == {[part |-> name, size |-> size, moves |-> TRUE]}
<1>1. Part(name, size) \in Seq(E) /\ \A e \in E : e.moves
  BY DEF Part
<1>2. QED
  BY <1>1 DEF Moving

LEMMA MovingConcat ==
  ASSUME NEW a, NEW b, Moving(a), Moving(b)
  PROVE  Moving(a \o b)
<1>1. PICK A : a \in Seq(A) /\ \A e \in A : e.moves
  BY DEF Moving
<1>2. PICK B : b \in Seq(B) /\ \A e \in B : e.moves
  BY DEF Moving
<1>3. a \in Seq(A \cup B) /\ b \in Seq(A \cup B)
  BY <1>1, <1>2
<1>4. a \o b \in Seq(A \cup B) /\ \A e \in A \cup B : e.moves
  BY <1>1, <1>2, <1>3
<1>5. QED
  BY <1>4 DEF Moving

LEMMA MovingHash ==
  ASSUME NEW N
  PROVE  Moving(Hash(N))
BY MovingPart, MovingConcat DEF Hash

LEMMA MovingPPT ==
  ASSUME NEW N
  PROVE  Moving(PPT(N))
<1> DEFINE E == {CWT(N)[1], CWT(N)[2]}
           counts == [i \in 1 .. 2 * Degree |->
                        CWT(N)[IF i % 2 = 1 THEN 1 ELSE 2]]
<1>1. \A e \in E : e.moves
  BY DEF CWT, Hash, Part
<1>2. counts \in [1 .. 2 * Degree -> E]
  OBVIOUS
<1>3. 2 * Degree \in Nat
  BY DegreeAssumption
<1> HIDE DEF counts, E
<1>4. counts \in Seq(E)
  BY <1>2, <1>3
<1>5. Moving(counts)
  BY <1>1, <1>4 DEF Moving
<1>6. Moving(counts \o Part("hash_idx", Degree))
  BY <1>5, MovingPart, MovingConcat
<1>7. Moving((counts \o Part("hash_idx", Degree)) \o Part("hash_val", Degree))
  BY <1>6, MovingPart, MovingConcat
<1>8. QED
  BY <1>7 DEF PPT, counts

LEMMA MovingRFT ==
  ASSUME NEW N, NEW S
  PROVE  Moving(Dense(N, S)) /\ Moving(RFT(N, S)) /\ Moving(MaternRFT(N, S))
BY MovingPart, MovingConcat DEF Dense, RFT, MaternRFT

LEMMA MovingFastRFT ==
  ASSUME NEW N, NEW S
  PROVE  Moving(FastRFT(N, S)) /\ Moving(FastMaternRFT(N, S))
BY MovingPart, MovingConcat DEF FastRFT, FastMaternRFT

LEMMA MovingLayout ==
  ASSUME NEW N, NEW S, NEW replace, NEW kind \in Classes \ {"RFUT", "FJLT"}
  PROVE  Moving(Layout(N, S, replace)[kind])
<1>1. Moving(<< >>)
  <2> DEFINE E == {}
  <2>1. << >> \in Seq(E) /\ \A e \in E : e.moves
    OBVIOUS
  <2> HIDE DEF E
  <2>2. QED
    BY <2>1, Zenon DEF Moving
<1>2. CASE kind \in {"JLT", "CT", "ExpSemigroupRLT", "GaussianRFT",
                     "LaplacianRFT", "MaternRFT"}
  BY <1>2, MovingRFT DEF Layout, JLT, CT, ExpSemigroupRLT, RLT, GaussianRFT,
                         LaplacianRFT
<1>3. CASE kind \in {"CWT", "MMT", "WZT"}
  <2>1. Moving(CWT(N)) /\ Moving(MMT(N)) /\ Moving(WZT(N))
    BY MovingHash, MovingPart, MovingConcat DEF CWT, MMT, WZT
  <2>2. QED
    BY <1>3, <2>1 DEF Layout
<1>4. CASE kind = "UST"
  BY <1>4, MovingPart DEF Layout, UST
<1>5. CASE kind = "PPT"
  BY <1>5, MovingPPT DEF Layout
<1>6. CASE kind \in {"GaussianQRFT", "LaplacianQRFT", "ExpSemigroupQRLT"}
  BY <1>1, <1>6 DEF Layout, QRFT, QRLT
<1>7. CASE kind \in {"FastGaussianRFT", "FastMaternRFT"}
  BY <1>7, MovingFastRFT DEF Layout, FastGaussianRFT
<1>8. QED
  BY <1>2, <1>3, <1>4, <1>5, <1>6, <1>7 DEF Classes

LEMMA LengthLayout ==
  ASSUME NEW N, NEW S, NEW replace, NEW kind \in Classes
  PROVE  Len(Layout(N, S, replace)[kind]) \in Nat
<1>1. CASE kind \notin {"RFUT", "FJLT"}
  BY <1>1, MovingLayout DEF Moving
<1>2. CASE kind = "RFUT"
  BY <1>2 DEF Layout, RFUT
<1>3. CASE kind = "FJLT"
  BY <1>3 DEF Layout, FJLT, RFUT, Part
<1>4. QED
  BY <1>1, <1>2, <1>3

(* The layouts created are sized by the assumption on the sizes.           *)
LEMMA SizedLayout ==
  ASSUME NEW kind \in Kinds, NEW N, NEW S, <<N, S>> \in Dims,
         NEW replace \in Variants(kind)
  PROVE  Sized(Layout(N, S, replace)[kind])
<1>1. Len(Layout(N, S, replace)[kind]) \in Nat
  BY LengthLayout, KindsAssumption
<1>2. \A i \in 1 .. Len(Layout(N, S, replace)[kind]) :
        Layout(N, S, replace)[kind][i].size \in 0 .. Word - 1
  <2>1. <<N, S>>[1] = N /\ <<N, S>>[2] = S
    OBVIOUS
  <2>2. QED
    BY <2>1, SizesAssumption
<1>3. QED
  BY <1>1, <1>2 DEF Sized

(* The parts of one layout are the first parts of the other.               *)
Begins(layout, whole, start) ==
  \A i \in DOMAIN Built(layout, start) :
    /\ i \in 1 .. Len(whole)
    /\ Built(layout, start)[i] = Built(whole, start)[i]

(* WZT is read back without its last part, every other class whole.        *)
LEMMA Relaid ==
  ASSUME NEW N, NEW S, NEW replace, NEW kind \in Classes, NEW start
  PROVE  /\ kind # "WZT" =>
              Relayout(N, S, replace)[kind] = Layout(N, S, replace)[kind]
         /\ Begins(Relayout(N, S, replace)[kind], Layout(N, S, replace)[kind],
                   start)
<1> DEFINE whole == Layout(N, S, replace)[kind]
           again == Relayout(N, S, replace)[kind]
<1>1. kind \in DOMAIN Layout(N, S, replace)
  BY DEF Classes, Layout
<1>2. CASE kind # "WZT"
  <2>1. again = whole
    BY <1>1, <1>2 DEF Relayout
  <2>2. QED
    BY <1>2, <2>1 DEF Begins, Built
<1>3. CASE kind = "WZT"
  <2>1. again = Hash(N) /\ whole = Hash(N) \o Part("pmvals", N)
    BY <1>1, <1>3 DEF Relayout, Layout, WZT
  <2>2. /\ Len(again) = 2 /\ Len(whole) = 3
        /\ again[1] = whole[1] /\ again[2] = whole[2]
    BY <2>1 DEF Hash, Part
  <2> HIDE DEF again, whole
  <2>3. /\ Walk(again, start)[0] = start
        /\ Walk(whole, start)[0] = start
        /\ Walk(again, start)[1] = Walk(whole, start)[1]
    <3>1. 0 \in 0 .. 2 /\ 0 \in 0 .. 3 /\ 1 \in 0 .. 2 /\ 1 \in 0 .. 3
      OBVIOUS
    <3>2. Walk(again, start)[0] = start /\ Walk(whole, start)[0] = start
      BY <2>2, <3>1, WalkDef
    <3>3. Walk(again, start)[1] =
            IF again[1].moves THEN Advance(Walk(again, start)[0], again[1].size)
                              ELSE Walk(again, start)[0]
      BY <2>2, <3>1, WalkDef
    <3>4. Walk(whole, start)[1] =
            IF whole[1].moves THEN Advance(Walk(whole, start)[0], whole[1].size)
                              ELSE Walk(whole, start)[0]
      BY <2>2, <3>1, WalkDef
    <3>5. QED
      BY <2>2, <3>2, <3>3, <3>4
  <2>4. \A i \in 1 .. 2 : Built(again, start)[i] = Built(whole, start)[i]
    BY <2>2, <2>3 DEF Built
  <2>5. QED
    <3>1. Begins(again, whole, start)
      BY <2>2, <2>4 DEF Begins, Built
    <3>2. QED
      BY <1>3, <3>1 DEF whole, again
<1>4. QED
  BY <1>2, <1>3
-----------------------------------------------------------------------------
(* Neither spelling leaves the class.                                      *)
LEMMA Spellings ==
  ASSUME NEW kind \in Classes
  PROVE  /\ KindOf(TypeCreated(kind)) = kind
         /\ KindOf(TypeReloaded(kind)) = kind
BY DEF Classes, KindOf, TypeCreated, TypeReloaded

(* from_ptree never finds a class other than the one written: the one      *)
(* entry it misspells is a name no object carries.                         *)
LEMMA DispatchFaithful ==
  ASSUME NEW loader \in Loaders, NEW entry \in Dispatch(loader),
         KindOf(entry[1]) \in Classes
  PROVE  entry[2] = KindOf(entry[1])
<1>1. CASE entry[1] = entry[2] /\ entry[1] \in SpeltAlike
  BY <1>1 DEF SpeltAlike, KindOf
<1>2. CASE entry = <<"FastMaternnRFT", "FastMaternRFT">>
  BY <1>2 DEF KindOf, Classes
<1>3. CASE entry = <<"FastMaternRFT", "FastMaternRFT">>
  BY <1>3 DEF KindOf
<1> QED
  BY <1>1, <1>2, <1>3 DEF Dispatch

(***************************************************************************)
(* A step either creates a sketch, or leaves the context where it is and   *)
(* makes things that come from creations already made.                     *)
(***************************************************************************)
Rebuilt(s) ==
  /\ s.kind = KindOf(s.type)
  /\ s.parts = Built(Relayout(s.N, s.S, s.replace)[s.kind], s.creation)

Inherits ==
  /\ UNCHANGED <<context, created>>
  /\ stored \subseteq stored' /\ unread' \subseteq unread \cup stored
  /\ \A o \in Objects' : \E q \in Objects : o.id = q.id /\ Akin(o, q)
  /\ \A s \in sketches' \ sketches : Rebuilt(s)

LEMMA StepCases ==
  ASSUME Lineage, [Next]_vars
  PROVE  \/ \E kind \in Kinds, dim \in Dims : \E replace \in Variants(kind) :
              Create(kind, dim[1], dim[2], replace)
         \/ Inherits
<1> USE DEF Lineage, Objects
<1>1. ASSUME NEW s \in sketches, ToPtree(s)
      PROVE  Inherits
  <2> DEFINE new == [id |-> s.id, type |-> s.type, N |-> s.N, S |-> s.S,
                     replace |-> s.replace, creation |-> s.creation]
  <2>1. stored' = stored \cup {new}
          /\ UNCHANGED <<context, created, sketches, unread>>
    BY <1>1 DEF ToPtree
  <2>2. new.id = s.id /\ Akin(new, s) /\ \A o \in Objects : Akin(o, o)
    BY DEF Akin
  <2> HIDE DEF new
  <2>3. QED
    BY <2>1, <2>2 DEF Inherits
<1>2. ASSUME NEW p \in stored, NEW loader \in Loaders, FromPtree(p, loader)
      PROVE  Inherits
  <2>1. PICK entry \in Dispatch(loader) :
          /\ p.type = entry[1]
          /\ sketches' = sketches \cup
               {[id |-> p.id, kind |-> entry[2], type |-> TypeReloaded(entry[2]),
                 N |-> p.N, S |-> p.S, replace |-> p.replace,
                 creation |-> p.creation,
                 parts |-> Built(Relayout(p.N, p.S, p.replace)[entry[2]],
                                 p.creation)]}
    BY <1>2 DEF FromPtree
  <2> DEFINE new == [id |-> p.id, kind |-> entry[2],
                     type |-> TypeReloaded(entry[2]), N |-> p.N, S |-> p.S,
                     replace |-> p.replace, creation |-> p.creation,
                     parts |-> Built(Relayout(p.N, p.S, p.replace)[entry[2]],
                                     p.creation)]
  <2>2. UNCHANGED <<context, created, stored, unread>>
    BY <1>2 DEF FromPtree
  <2>3. entry[2] = KindOf(p.type) /\ entry[2] \in Classes
    BY <2>1, DispatchFaithful, KindsAssumption DEF Known
  <2>4. KindOf(new.type) = entry[2]
    BY <2>3, Spellings
  <2>5. new.id = p.id /\ Akin(new, p) /\ Rebuilt(new)
    BY <2>3, <2>4 DEF Akin, Rebuilt
  <2>6. \A o \in Objects : Akin(o, o)
    BY DEF Akin
  <2>7. sketches' = sketches \cup {new}
    BY <2>1
  <2> HIDE DEF new
  <2>8. QED
    BY <2>2, <2>5, <2>6, <2>7 DEF Inherits
<1>3. ASSUME NEW p \in stored, NEW loader \in Loaders, FromPtreeThrows(p, loader)
      PROVE  Inherits
  BY <1>3 DEF FromPtreeThrows, Inherits, Akin
<1>4. ASSUME NEW s \in sketches, Destroy(s)
      PROVE  Inherits
  BY <1>4 DEF Destroy, Inherits, Akin
<1>5. CASE UNCHANGED vars
  BY <1>5 DEF vars, Inherits, Akin
<1> QED
  BY <1>1, <1>2, <1>3, <1>4, <1>5 DEF Next

(* What a creation adds.                                                   *)
Fresh(o, kind, N, S, replace) ==
  /\ o.id = created + 1
  /\ KindOf(o.type) = kind /\ o.kind = kind
  /\ o.N = N /\ o.S = S /\ o.replace = replace
  /\ o.creation = context
  /\ WellBuilt(o)

LEMMA CreateAdds ==
  ASSUME NEW kind \in Kinds, NEW N, NEW S, NEW replace,
         Create(kind, N, S, replace)
  PROVE  \E new :
           /\ sketches' = sketches \cup {new}
           /\ Fresh(new, kind, N, S, replace)
           /\ context' = DrawnTo(new)
           /\ Buildable(Drawn(new), context) /\ Spares(Drawn(new), context)
<1> DEFINE layout == Layout(N, S, replace)[kind]
           new == [id |-> created + 1, kind |-> kind, type |-> TypeCreated(kind),
                   N |-> N, S |-> S, replace |-> replace, creation |-> context,
                   parts |-> Built(layout, context)]
<1>1. /\ sketches' = sketches \cup {new}
      /\ context' = BuildEnd(layout, context)
      /\ Buildable(layout, context) /\ Spares(layout, context)
  BY DEF Create
<1>2. KindOf(new.type) = kind
  BY Spellings, KindsAssumption
<1>3. Drawn(new) = layout
  BY <1>2 DEF Drawn
<1>4. Fresh(new, kind, N, S, replace)
  BY <1>2, <1>3 DEF Fresh, WellBuilt
<1>5. DrawnTo(new) = BuildEnd(layout, context)
  BY <1>3 DEF DrawnTo
<1>6. QED
  BY <1>1, <1>3, <1>4, <1>5

(* Akin objects draw the same from the same place.                         *)
LEMMA AkinDraw ==
  ASSUME NEW a, NEW b, Akin(a, b)
  PROVE  /\ Drawn(a) = Drawn(b)
         /\ DrawnTo(a) = DrawnTo(b)
         /\ WellBuilt(a) <=> a.parts = Built(Drawn(b), b.creation)
BY DEF Akin, Drawn, DrawnTo, WellBuilt
-----------------------------------------------------------------------------
LEMMA InitLineage == Init => Lineage
BY DEF Init, Lineage, Objects

LEMMA StepLineage ==
  ASSUME Lineage, [Next]_vars
  PROVE  Lineage'
<1> USE DEF Lineage, Objects
<1>1. ASSUME NEW kind \in Kinds, NEW N, NEW S, NEW replace,
             Create(kind, N, S, replace)
      PROVE  Lineage'
  <2>1. PICK new : /\ sketches' = sketches \cup {new}
                   /\ Fresh(new, kind, N, S, replace)
    BY <1>1, CreateAdds
  <2>2. created' = created + 1 /\ stored' = stored
    BY <1>1 DEF Create
  <2>3. \A o \in Objects : o.id # new.id /\ o.id \in 1 .. created'
    BY <2>1, <2>2 DEF Known, Fresh
  <2>4. \A o \in Objects' : Known(o)'
    BY <2>1, <2>2, <2>3 DEF Known, Fresh
  <2>5. \A o, q \in Objects' : o.id = q.id => Akin(o, q)
    BY <2>1, <2>2, <2>3 DEF Akin
  <2>6. \A s \in sketches' : s.kind = KindOf(s.type)
    BY <2>1 DEF Fresh
  <2>7. QED
    BY <2>2, <2>4, <2>5, <2>6
<1>2. CASE Inherits
  <2>1. created' = created
    BY <1>2 DEF Inherits
  <2>2. \A o \in Objects' : \E q \in Objects : o.id = q.id /\ Akin(o, q)
    BY <1>2 DEF Inherits
  <2>3. \A o \in Objects' : Known(o)'
    BY <2>1, <2>2 DEF Known, Akin
  <2>4. ASSUME NEW o \in Objects', NEW q \in Objects', o.id = q.id
        PROVE  Akin(o, q)
    <3>1. PICK u \in Objects : o.id = u.id /\ Akin(o, u)
      BY <2>2
    <3>2. PICK v \in Objects : q.id = v.id /\ Akin(q, v)
      BY <2>2
    <3>3. Akin(u, v)
      BY <2>4, <3>1, <3>2
    <3>4. QED
      BY <3>1, <3>2, <3>3 DEF Akin
  <2>5. \A s \in sketches' : s.kind = KindOf(s.type)
    BY <1>2 DEF Inherits, Rebuilt
  <2>6. QED
    BY <2>1, <2>3, <2>4, <2>5
<1>3. QED
  BY <1>1, <1>2, StepCases

LEMMA StepSame ==
  ASSUME "WZT" \notin Kinds, SameInv, [Next]_vars
  PROVE  SameInv'
<1> USE DEF SameInv
<1>1. Lineage'
  BY StepLineage
<1>2. ASSUME NEW kind \in Kinds, NEW N, NEW S, NEW replace,
             Create(kind, N, S, replace)
      PROVE  \A s \in sketches' : WellBuilt(s)
  BY <1>2, CreateAdds DEF Fresh
<1>3. ASSUME Inherits
      PROVE  \A s \in sketches' : WellBuilt(s)
  <2> SUFFICES ASSUME NEW s \in sketches' \ sketches
               PROVE  WellBuilt(s)
    OBVIOUS
  <2>1. Rebuilt(s) /\ s \in Objects'
    BY <1>3 DEF Inherits, Objects
  <2>2. KindOf(s.type) \in Kinds
    BY <1>1, <2>1 DEF Lineage, Known
  <2>3. Relayout(s.N, s.S, s.replace)[s.kind] = Drawn(s)
    BY <2>1, <2>2, Relaid, KindsAssumption DEF Rebuilt, Drawn
  <2>4. QED
    BY <2>1, <2>3 DEF Rebuilt, WellBuilt
<1>4. (\A s \in sketches : WellBuilt(s))'
  BY <1>2, <1>3, StepCases DEF WellBuilt, Drawn
<1>5. QED
  BY <1>1, <1>4

LEMMA SameImplies == SameInv => ReloadedSame
<1> SUFFICES ASSUME SameInv, NEW s \in sketches, NEW t \in sketches, s.id = t.id
             PROVE  s.kind = t.kind /\ s.parts = t.parts
  BY DEF ReloadedSame
<1>1. Akin(s, t) /\ WellBuilt(s) /\ WellBuilt(t)
  BY DEF SameInv, Lineage, Objects
<1>2. s.kind = t.kind
  BY <1>1 DEF SameInv, Lineage, Akin
<1>3. QED
  BY <1>1, <1>2, AkinDraw DEF WellBuilt

(* Whatever was written, destroyed and read back in whatever order, every  *)
(* object that stands for one creation is of one class and holds the same  *)
(* samples: to_ptree and from_ptree of every class but WZT.                *)
THEOREM Reconstructed ==
  ASSUME "WZT" \notin Kinds
  PROVE  Spec => []ReloadedSame
<1>1. Init => SameInv
  BY InitLineage DEF Init, SameInv
<1>2. SameInv /\ [Next]_vars => SameInv'
  BY StepSame
<1>3. SameInv => ReloadedSame
  BY SameImplies
<1> QED
  BY <1>1, <1>2, <1>3, PTL DEF Spec
-----------------------------------------------------------------------------
LEMMA SuppliedSized ==
  ASSUME NEW o, Known(o), Supplied(o)
  PROVE  /\ Sized(Drawn(o)) /\ Drawable(Drawn(o), o.creation)
         /\ DrawnTo(o) \in 0 .. Word - 1 /\ o.creation <= DrawnTo(o)
<1>1. Sized(Drawn(o))
  BY SizedLayout DEF Known, Supplied, Drawn
<1>2. Drawable(Drawn(o), o.creation)
  BY DEF Supplied, Drawable
<1>3. Len(Drawn(o)) \in 0 .. Len(Drawn(o)) /\ 0 \in 0 .. Len(Drawn(o))
  BY <1>1 DEF Sized
<1>4. DrawnTo(o) \in 0 .. Word - 1
  BY <1>1, <1>2, <1>3, WalkRange DEF DrawnTo, BuildEnd
<1>5. Walk(Drawn(o), o.creation)[0] <= DrawnTo(o)
  BY <1>1, <1>2, <1>3, WalkMonotone DEF DrawnTo, BuildEnd, Sized
<1>6. QED
  BY <1>1, <1>2, <1>4, <1>5, WalkRange

LEMMA InitStream == Init => StreamInv
BY InitLineage, WordAssumption, MaxSketchesAssumption
   DEF Init, StreamInv, Objects

LEMMA StepStream ==
  ASSUME StreamInv, [Next]_vars
  PROVE  StreamInv'
<1> USE DEF StreamInv
<1>1. Lineage'
  BY StepLineage
<1>2. ASSUME NEW kind \in Kinds, NEW dim \in Dims, NEW replace \in Variants(kind),
             Create(kind, dim[1], dim[2], replace)
      PROVE  StreamInv'
  <2>1. PICK new : /\ sketches' = sketches \cup {new}
                   /\ Fresh(new, kind, dim[1], dim[2], replace)
                   /\ context' = DrawnTo(new)
                   /\ Buildable(Drawn(new), context)
                   /\ Spares(Drawn(new), context)
    BY <1>2, CreateAdds
  <2>2. /\ created' = created + 1 /\ created < MaxSketches
        /\ UNCHANGED <<stored, unread>>
    BY <1>2 DEF Create
  <2>3. Sized(Drawn(new)) /\ Drawable(Drawn(new), context)
    <3>1. Drawn(new) = Layout(dim[1], dim[2], replace)[kind]
      BY <2>1 DEF Fresh, Drawn
    <3>2. <<dim[1], dim[2]>> \in Dims
      BY DimsAssumption
    <3>3. QED
      BY <2>1, <3>1, <3>2, SizedLayout DEF Drawable
  <2>4. context' \in 0 .. Word - 1 /\ context <= context'
    <3>1. Len(Drawn(new)) \in 0 .. Len(Drawn(new)) /\ 0 \in 0 .. Len(Drawn(new))
      BY <2>3 DEF Sized
    <3>2. context' = Walk(Drawn(new), context)[Len(Drawn(new))]
      BY <2>1 DEF DrawnTo, BuildEnd, Fresh
    <3>3. QED
      BY <2>3, <3>1, <3>2, WalkRange, WalkMonotone DEF Sized
  <2>5. Supplied(new)'
    <3>1. <<new.N, new.S>> \in Dims /\ new.replace \in Variants(KindOf(new.type))
            /\ new.creation = context
      BY <2>1, DimsAssumption DEF Fresh
    <3>2. DrawnTo(new) <= context'
      BY <2>1, <2>4
    <3>3. QED
      BY <2>1, <3>1, <3>2 DEF Supplied
  <2>6. ASSUME NEW o \in Objects
        PROVE  Supplied(o)'
    <3>1. Supplied(o) /\ Known(o)
      BY DEF Lineage
    <3>2. DrawnTo(o) \in 0 .. Word - 1
      BY <3>1, SuppliedSized
    <3>3. DrawnTo(o) <= context'
      BY <2>4, <3>1, <3>2, WordAssumption DEF Supplied
    <3>4. QED
      BY <3>1, <3>3 DEF Supplied
  <2>7. \A o \in Objects' : Supplied(o)'
    BY <2>1, <2>2, <2>5, <2>6 DEF Objects
  <2>8. \A s \in sketches' : HoldsDrawn(s)
    <3>1. HoldsDrawn(new)
      BY <2>1 DEF Fresh, WellBuilt, HoldsDrawn, Built
    <3>2. QED
      BY <2>1, <3>1
  <2>9. created' <= MaxSketches
    BY <2>2, MaxSketchesAssumption DEF Lineage
  <2>10. QED
    BY <1>1, <2>2, <2>4, <2>7, <2>8, <2>9
<1>3. CASE Inherits
  <2>1. /\ UNCHANGED <<context, created>>
        /\ stored \subseteq stored' /\ unread' \subseteq unread \cup stored
        /\ \A o \in Objects' : \E q \in Objects : o.id = q.id /\ Akin(o, q)
    BY <1>3 DEF Inherits
  <2>2. ASSUME NEW o \in Objects'
        PROVE  Supplied(o)'
    <3>1. PICK q \in Objects : Akin(o, q)
      BY <2>1
    <3>2. Supplied(q) /\ Drawn(o) = Drawn(q) /\ DrawnTo(o) = DrawnTo(q)
      BY <3>1, AkinDraw
    <3>3. QED
      BY <2>1, <3>1, <3>2 DEF Supplied, Akin
  <2>3. ASSUME NEW s \in sketches'
        PROVE  HoldsDrawn(s)
    <3>1. CASE s \in sketches
      BY <3>1
    <3>2. CASE s \notin sketches
      <4>1. Rebuilt(s) /\ s \in Objects'
        BY <1>3, <3>2 DEF Inherits, Objects
      <4>2. s.kind \in Classes /\ s.kind = KindOf(s.type)
        BY <1>1, <4>1, KindsAssumption DEF Lineage, Known, Rebuilt
      <4>3. Drawn(s) = Layout(s.N, s.S, s.replace)[s.kind]
        BY <4>2 DEF Drawn
      <4>4. Begins(Relayout(s.N, s.S, s.replace)[s.kind], Drawn(s), s.creation)
        BY <4>2, <4>3, Relaid
      <4>5. QED
        BY <4>1, <4>4 DEF Rebuilt, HoldsDrawn, Begins
    <3>3. QED
      BY <3>1, <3>2
  <2>4. QED
    BY <1>1, <2>1, <2>2, <2>3
<1>4. QED
  BY <1>2, <1>3, StepCases

(* A part that a sketch holds is one that its class drew.                  *)
LEMMA PartsDrawn ==
  ASSUME NEW s, Known(s), Supplied(s), HoldsDrawn(s), NEW i \in DOMAIN s.parts
  PROVE  /\ i \in 1 .. Len(Drawn(s))
         /\ s.parts[i].base = Walk(Drawn(s), s.creation)[i - 1]
         /\ s.parts[i].size = Drawn(s)[i].size
         /\ s.parts[i].base + s.parts[i].size \in 0 .. Word
         /\ Drawn(s)[i].moves =>
              s.parts[i].base + s.parts[i].size = Walk(Drawn(s), s.creation)[i]
<1>1. Sized(Drawn(s)) /\ Drawable(Drawn(s), s.creation)
  BY SuppliedSized
<1>2. i \in 1 .. Len(Drawn(s)) /\ s.parts[i] = Built(Drawn(s), s.creation)[i]
  BY DEF HoldsDrawn
<1>3. /\ s.parts[i].base = Walk(Drawn(s), s.creation)[i - 1]
      /\ s.parts[i].size = Drawn(s)[i].size
  BY <1>2 DEF Built
<1>4. i - 1 \in 0 .. Len(Drawn(s))
  BY <1>1, <1>2 DEF Sized
<1>5. Walk(Drawn(s), s.creation)[i - 1] \in 0 .. Word - 1
  BY <1>1, <1>4, WalkRange
<1>6. QED
  BY <1>1, <1>2, <1>3, <1>5, WalkStep

LEMMA StreamImplies == StreamInv => TypeOK
<1> SUFFICES ASSUME StreamInv
             PROVE  TypeOK
  OBVIOUS
<1> USE DEF StreamInv
<1>1. ASSUME NEW o \in Objects
      PROVE  o.id \in 1 .. created /\ o.creation \in 0 .. context
  <2>1. Known(o) /\ Supplied(o)
    BY DEF Lineage
  <2>2. DrawnTo(o) \in 0 .. Word - 1 /\ o.creation <= DrawnTo(o)
    BY <2>1, SuppliedSized
  <2>3. QED
    BY <2>1, <2>2, WordAssumption DEF Known, Supplied
<1>2. ASSUME NEW s \in sketches
      PROVE  /\ s.kind \in Kinds /\ <<s.N, s.S>> \in Dims
             /\ s.replace \in Variants(s.kind)
             /\ \A i \in DOMAIN s.parts :
                  s.parts[i].base + s.parts[i].size \in 0 .. Word
  <2>1. s \in Objects /\ Known(s) /\ Supplied(s) /\ s.kind = KindOf(s.type)
    BY DEF Lineage, Objects
  <2>2. QED
    BY <2>1, PartsDrawn DEF Known, Supplied
<1>3. created \in 0 .. MaxSketches
  BY MaxSketchesAssumption DEF Lineage
<1>4. QED
  BY <1>1, <1>2, <1>3 DEF TypeOK, Objects

(* The context, the creation contexts and the samples of every part stay   *)
(* within the stream, and what cannot be read is what was written: every   *)
(* constructor, to_ptree and from_ptree, with every class.                 *)
THEOREM StaysInStream == Spec => []TypeOK
<1>1. Init => StreamInv
  BY InitStream
<1>2. StreamInv /\ [Next]_vars => StreamInv'
  BY StepStream
<1>3. StreamInv => TypeOK
  BY StreamImplies
<1> QED
  BY <1>1, <1>2, <1>3, PTL DEF Spec
-----------------------------------------------------------------------------
(* The classes whose every part moves the context that draws the next.     *)
AllMove == Kinds \cap {"RFUT", "FJLT"} = {}

LEMMA StepApart ==
  ASSUME IndependentInv, [Next]_vars
  PROVE  IndependentInv'
<1> USE DEF IndependentInv
<1>1. StreamInv'
  BY StepStream
<1>2. ASSUME NEW kind \in Kinds, NEW dim \in Dims, NEW replace \in Variants(kind),
             Create(kind, dim[1], dim[2], replace)
      PROVE  Apart'
  <2>1. PICK new : /\ sketches' = sketches \cup {new}
                   /\ Fresh(new, kind, dim[1], dim[2], replace)
    BY <1>2, CreateAdds
  <2>2. stored' = stored
    BY <1>2 DEF Create
  <2>3. Objects' = Objects \cup {new}
    BY <2>1, <2>2 DEF Objects
  <2>4. /\ new.id = created + 1 /\ new.creation = context
        /\ created \in Nat
        /\ \A o \in Objects : o.id \in 1 .. created /\ DrawnTo(o) <= context
    BY <2>1 DEF Fresh, StreamInv, Lineage, Known, Supplied
  <2> SUFFICES ASSUME NEW o \in Objects', NEW q \in Objects', o.id < q.id
               PROVE  DrawnTo(o) <= q.creation
    BY DEF Apart
  <2>5. o \in Objects
    BY <2>3, <2>4
  <2>6. CASE q \in Objects
    BY <2>5, <2>6 DEF Apart
  <2>7. CASE q = new
    BY <2>4, <2>5, <2>7
  <2>8. QED
    BY <2>3, <2>6, <2>7
<1>3. CASE Inherits
  <2> SUFFICES ASSUME NEW o \in Objects', NEW q \in Objects', o.id < q.id
               PROVE  DrawnTo(o) <= q.creation
    BY <1>1 DEF Apart
  <2>1. PICK u \in Objects : o.id = u.id /\ Akin(o, u)
    BY <1>3 DEF Inherits
  <2>2. PICK v \in Objects : q.id = v.id /\ Akin(q, v)
    BY <1>3 DEF Inherits
  <2>3. DrawnTo(u) <= v.creation
    BY <2>1, <2>2 DEF Apart
  <2>4. QED
    BY <2>1, <2>2, <2>3, AkinDraw DEF Akin
<1>4. QED
  BY <1>1, <1>2, <1>3, StepCases DEF StreamInv

(* Of two parts of one sketch, the later begins where the earlier ended or *)
(* behind; so do the parts of a later sketch.                              *)
LEMMA PartsOrdered ==
  ASSUME AllMove, IndependentInv, NEW s \in sketches, NEW t \in sketches,
         NEW i \in DOMAIN s.parts, NEW j \in DOMAIN t.parts,
         s.id < t.id \/ (s.id = t.id /\ i < j)
  PROVE  Samples(s.parts[i]) \cap Samples(t.parts[j]) = {}
<1>1. /\ s \in Objects /\ Known(s) /\ Supplied(s) /\ HoldsDrawn(s)
      /\ t \in Objects /\ Known(t) /\ Supplied(t) /\ HoldsDrawn(t)
  BY DEF IndependentInv, StreamInv, Lineage, Objects
<1>2. /\ Sized(Drawn(s)) /\ Drawable(Drawn(s), s.creation)
      /\ Sized(Drawn(t)) /\ Drawable(Drawn(t), t.creation)
      /\ DrawnTo(s) \in 0 .. Word - 1
  BY <1>1, SuppliedSized
<1>3. /\ i \in 1 .. Len(Drawn(s)) /\ i \in 0 .. Len(Drawn(s))
      /\ i - 1 \in 0 .. Len(Drawn(s))
      /\ j \in 1 .. Len(Drawn(t)) /\ j - 1 \in 0 .. Len(Drawn(t))
      /\ Len(Drawn(s)) \in Nat /\ Len(Drawn(s)) \in 0 .. Len(Drawn(s))
      /\ 0 \in 0 .. Len(Drawn(t))
  BY <1>1, <1>2, PartsDrawn DEF Sized
<1>4. /\ s.parts[i].base = Walk(Drawn(s), s.creation)[i - 1]
      /\ s.parts[i].size = Drawn(s)[i].size
      /\ s.parts[i].base + s.parts[i].size = Walk(Drawn(s), s.creation)[i]
  <2>1. Moving(Drawn(s))
    <3>1. KindOf(s.type) \in Classes \ {"RFUT", "FJLT"}
      BY <1>1, KindsAssumption DEF Known, AllMove
    <3>2. QED
      BY <3>1, MovingLayout DEF Drawn
  <2>2. Drawn(s)[i].moves
    BY <1>3, <2>1 DEF Moving
  <2>3. QED
    BY <1>1, <2>2, PartsDrawn
<1>5. /\ t.parts[j].base = Walk(Drawn(t), t.creation)[j - 1]
      /\ t.parts[j].size = Drawn(t)[j].size
      /\ t.parts[j].size \in 0 .. Word - 1
  BY <1>1, <1>2, <1>3, PartsDrawn DEF Sized
<1>6. /\ Walk(Drawn(s), s.creation)[i - 1] \in 0 .. Word - 1
      /\ Walk(Drawn(s), s.creation)[i] \in 0 .. Word - 1
      /\ Walk(Drawn(t), t.creation)[j - 1] \in 0 .. Word - 1
      /\ s.parts[i].size \in 0 .. Word - 1
  BY <1>2, <1>3, <1>4, WalkRange DEF Sized
<1>7. Walk(Drawn(s), s.creation)[i] <= Walk(Drawn(t), t.creation)[j - 1]
  <2>1. CASE s.id < t.id
    <3>1. DrawnTo(s) <= t.creation
      BY <1>1, <2>1 DEF IndependentInv, Apart
    <3>2. Walk(Drawn(s), s.creation)[i] <= DrawnTo(s)
      BY <1>2, <1>3, WalkMonotone DEF DrawnTo, BuildEnd
    <3>3. t.creation <= Walk(Drawn(t), t.creation)[j - 1]
      BY <1>2, <1>3, WalkMonotone, WalkRange
    <3>4. t.creation \in 0 .. Word - 1
      BY <1>1 DEF Supplied
    <3>5. QED
      BY <1>2, <1>6, <3>1, <3>2, <3>3, <3>4, WordAssumption
  <2>2. CASE s.id = t.id /\ i < j
    <3>1. Akin(s, t)
      BY <1>1, <2>2 DEF IndependentInv, StreamInv, Lineage
    <3>2. Drawn(s) = Drawn(t) /\ s.creation = t.creation
      BY <3>1, AkinDraw DEF Akin
    <3>3. i <= j - 1
      BY <1>3, <2>2
    <3>4. QED
      BY <1>2, <1>3, <3>2, <3>3, WalkMonotone
  <2>3. QED
    BY <2>1, <2>2
<1> DEFINE endS == Walk(Drawn(s), s.creation)[i]
           baseT == Walk(Drawn(t), t.creation)[j - 1]
<1>8. ASSUME NEW x \in Samples(s.parts[i]), x \in Samples(t.parts[j])
      PROVE  FALSE
  <2>1. x \in Int /\ x <= endS - 1
    BY <1>4, <1>6, <1>8 DEF Samples
  <2>2. x >= baseT
    BY <1>5, <1>6, <1>8 DEF Samples
  <2>3. QED
    BY <1>6, <1>7, <2>1, <2>2, WordAssumption
<1>9. QED
  BY <1>8

LEMMA IndependentImplies ==
  ASSUME AllMove, IndependentInv
  PROVE  Independent
<1> SUFFICES ASSUME NEW s \in sketches, NEW t \in sketches,
                    NEW i \in DOMAIN s.parts, NEW j \in DOMAIN t.parts,
                    ~ (s.id = t.id /\ i = j)
             PROVE  Samples(s.parts[i]) \cap Samples(t.parts[j]) = {}
  BY DEF Independent
<1>1. s.id \in Nat /\ t.id \in Nat /\ i \in Nat /\ j \in Nat
  <2>1. /\ Known(s) /\ HoldsDrawn(s) /\ Supplied(s)
        /\ Known(t) /\ HoldsDrawn(t) /\ Supplied(t)
    BY DEF IndependentInv, StreamInv, Lineage, Objects
  <2>2. i \in 1 .. Len(Drawn(s)) /\ j \in 1 .. Len(Drawn(t))
    BY <2>1, PartsDrawn
  <2>3. Len(Drawn(s)) \in Nat /\ Len(Drawn(t)) \in Nat /\ created \in Nat
    BY <2>1, SuppliedSized DEF Sized, IndependentInv, StreamInv, Lineage
  <2>4. QED
    BY <2>1, <2>2, <2>3 DEF Known
<1>2. CASE s.id < t.id \/ (s.id = t.id /\ i < j)
  BY <1>2, PartsOrdered
<1>3. CASE t.id < s.id \/ (t.id = s.id /\ j < i)
  BY <1>3, PartsOrdered
<1>4. QED
  BY <1>1, <1>2, <1>3

(* No sample of the stream serves two parts of one sketch, or parts of two *)
(* sketches, whatever is written, destroyed and rebuilt: build() of every  *)
(* class but RFUT, which does not tell what it drew, and FJLT, which holds *)
(* an RFUT.                                                                *)
THEOREM SamplesServeOnce ==
  ASSUME AllMove
  PROVE  Spec => []Independent
<1>1. Init => IndependentInv
  BY InitStream DEF IndependentInv, Apart, Objects, Init
<1>2. IndependentInv /\ [Next]_vars => IndependentInv'
  BY StepApart
<1>3. IndependentInv => Independent
  BY IndependentImplies
<1> QED
  BY <1>1, <1>2, <1>3, PTL DEF Spec
=============================================================================
