------------------------------- MODULE Lemmas --------------------------------
(***************************************************************************)
(* What the proofs of this project know of numbers and of sums, whatever   *)
(* the component: every nonempty set of natural numbers has a least        *)
(* element, which is the form in which they use induction (what is to hold *)
(* of all numbers is assumed to fail for some, and fails for the least); a *)
(* sum over a finite set is additive, whatever the order in which it is    *)
(* evaluated; division leaves one quotient and one remainder; and lists    *)
(* that have each element of a set once are put together from lists that   *)
(* do.  Last, what the distributions of Elemental deal out, and how places *)
(* in a grid are numbered.                                                 *)
(***************************************************************************)
EXTENDS Elemental, SequencesExt, FiniteSetTheorems, WellFoundedInduction, TLAPS

LEMMA LeastNatural ==
  ASSUME NEW T, T \subseteq Nat, T # {}
  PROVE  \E n \in T : \A m \in T : n <= m
<1> DEFINE R == OpToRel(<, Nat)
<1>1. IsWellFoundedOn(R, Nat)
  BY NatLessThanWellFounded
<1>2. \A m, n \in Nat : m < n => <<m, n>> \in R
  BY DEF OpToRel
<1> HIDE DEF R
<1>3. PICK n \in T : \A m \in T : ~ (<<m, n>> \in R)
  BY <1>1, WFMin
<1>4. \A m \in T : ~ (m < n)
  BY <1>2, <1>3
<1>5. QED
  BY <1>4

(* Induction, over a set of numbers: what the first is in, and the next    *)
(* after each that is, all are in.                                         *)
LEMMA UpTo ==
  ASSUME NEW a \in Nat, NEW n \in Nat, NEW T, a \in T,
         \A m \in a .. n : m \in T /\ m < n => m + 1 \in T
  PROVE  \A m \in a .. n : m \in T
<1> DEFINE Bad == {m \in a .. n : m \notin T}
<1> SUFFICES ASSUME Bad # {} PROVE FALSE
  OBVIOUS
<1>1. Bad \subseteq Nat
  OBVIOUS
<1>2. PICK m \in Bad : \A k \in Bad : m <= k
  BY <1>1, LeastNatural
<1>3. m \in a .. n /\ m \notin T /\ m # a
  BY <1>2
<1>4. m - 1 \in a .. n /\ m - 1 < n /\ (m - 1) + 1 = m /\ ~ (m <= m - 1)
  BY <1>3
<1>5. m - 1 \notin Bad
  BY <1>2, <1>4
<1>6. m - 1 \in T
  BY <1>4, <1>5
<1>7. QED
  BY <1>3, <1>4, <1>6

(* A set of finite sets that is not empty has one from which no element    *)
(* can be taken without leaving it.                                        *)
LEMMA LeastSet ==
  ASSUME NEW Sets, Sets # {}, \A T \in Sets : IsFiniteSet(T)
  PROVE  \E T \in Sets : \A e \in T : T \ {e} \notin Sets
<1> DEFINE Sizes == {Cardinality(T) : T \in Sets}
<1>1. Sizes \subseteq Nat /\ Sizes # {}
  BY FS_CardinalityType
<1>2. PICK n \in Sizes : \A m \in Sizes : n <= m
  BY <1>1, LeastNatural
<1>3. PICK T \in Sets : Cardinality(T) = n
  BY <1>2
<1>4. ASSUME NEW e \in T, T \ {e} \in Sets
      PROVE  FALSE
  <2>1. Cardinality(T \ {e}) = n - 1 /\ n \in Nat
    BY <1>1, <1>3, FS_RemoveElement
  <2>2. n <= n - 1
    BY <1>2, <1>4, <2>1
  <2>3. QED
    BY <2>1, <2>2
<1>5. QED
  BY <1>3, <1>4
-----------------------------------------------------------------------------
(***************************************************************************)
(* A ledger of f over S: the sum of f over every subset of S.  Stated so,  *)
(* a sum can be spoken of without saying in which order it is taken.       *)
(***************************************************************************)
Ledger(L, S, f) ==
  /\ f \in [S -> Int]
  /\ L \in [SUBSET S -> Int]
  /\ L[{}] = 0
  /\ \A T \in SUBSET S : \A e \in S \ T : L[T \cup {e}] = L[T] + f[e]

LEMMA LedgerOfZero ==
  ASSUME NEW S
  PROVE  Ledger([T \in SUBSET S |-> 0], S, [e \in S |-> 0])
<1> DEFINE L == [T \in SUBSET S |-> 0]
           f == [e \in S |-> 0]
<1>1. ASSUME NEW T \in SUBSET S, NEW e \in S \ T
      PROVE  L[T \cup {e}] = L[T] + f[e]
  <2>1. T \cup {e} \in SUBSET S
    BY <1>1
  <2>2. QED
    BY <2>1
<1>2. QED
  BY <1>1 DEF Ledger

(* What changes by d at one element changes the sums it is in by d.        *)
LEMMA LedgerShift ==
  ASSUME NEW S, NEW f, NEW L, Ledger(L, S, f), NEW t \in S, NEW d \in Int,
         NEW g, g \in [S -> Int],
         g[t] = f[t] + d, \A e \in S \ {t} : g[e] = f[e]
  PROVE  \E M : Ledger(M, S, g) /\ \A T \in SUBSET S :
                  M[T] = L[T] + (IF t \in T THEN d ELSE 0)
<1> DEFINE extra(T) == IF t \in T THEN d ELSE 0
           M == [T \in SUBSET S |-> L[T] + extra(T)]
<1>1. L \in [SUBSET S -> Int] /\ L[{}] = 0 /\ f \in [S -> Int]
  BY DEF Ledger
<1>2. \A T \in SUBSET S : M[T] = L[T] + extra(T) /\ extra(T) \in Int
  OBVIOUS
<1>3. M \in [SUBSET S -> Int] /\ M[{}] = 0
  BY <1>1
<1>4. ASSUME NEW T \in SUBSET S, NEW e \in S \ T
      PROVE  M[T \cup {e}] = M[T] + g[e]
  <2>1. T \cup {e} \in SUBSET S
    BY <1>4
  <2>2. /\ L[T \cup {e}] = L[T] + f[e]
        /\ L[T] \in Int /\ L[T \cup {e}] \in Int /\ f[e] \in Int
    BY <1>1, <2>1 DEF Ledger
  <2>3. extra(T \cup {e}) + f[e] = extra(T) + g[e]
    <3>1. CASE e = t
      BY <1>4, <2>2, <3>1
    <3>2. CASE e # t
      BY <1>4, <2>2, <3>2
    <3>3. QED
      BY <3>1, <3>2
  <2>4. M[T \cup {e}] = L[T \cup {e}] + extra(T \cup {e})
          /\ M[T] = L[T] + extra(T)
          /\ extra(T) \in Int /\ extra(T \cup {e}) \in Int /\ g[e] \in Int
    BY <1>2, <2>1
  <2> HIDE DEF M, extra
  <2>5. QED
    BY <2>2, <2>3, <2>4
<1>5. Ledger(M, S, g)
  BY <1>3, <1>4 DEF Ledger
<1> HIDE DEF M
<1>6. QED
  BY <1>2, <1>5

(* A sum depends on nothing but what is summed.                            *)
LEMMA LedgerAgrees ==
  ASSUME NEW S, IsFiniteSet(S), NEW f, NEW g, NEW L, NEW M,
         Ledger(L, S, f), Ledger(M, S, g),
         NEW T \in SUBSET S, \A e \in T : f[e] = g[e]
  PROVE  L[T] = M[T]
<1> DEFINE Bad == {U \in SUBSET T : L[U] # M[U]}
<1>1. Bad = {}
  <2> SUFFICES ASSUME Bad # {} PROVE FALSE
    OBVIOUS
  <2>1. \A U \in Bad : IsFiniteSet(U)
    BY FS_Subset
  <2>2. PICK U \in Bad : \A e \in U : U \ {e} \notin Bad
    BY <2>1, LeastSet
  <2>3. L[{}] = M[{}]
    BY DEF Ledger
  <2>4. PICK e \in U : TRUE
    BY <2>2, <2>3
  <2>5. U \ {e} \in SUBSET T /\ L[U \ {e}] = M[U \ {e}]
    BY <2>2
  <2>6. /\ L[(U \ {e}) \cup {e}] = L[U \ {e}] + f[e]
        /\ M[(U \ {e}) \cup {e}] = M[U \ {e}] + g[e]
    BY DEF Ledger
  <2>7. (U \ {e}) \cup {e} = U /\ f[e] = g[e]
    OBVIOUS
  <2>8. QED
    BY <2>2, <2>5, <2>6, <2>7
<1>2. QED
  BY <1>1

LEMMA LedgerNull ==
  ASSUME NEW S, IsFiniteSet(S), NEW f, NEW L, Ledger(L, S, f),
         NEW T \in SUBSET S, \A e \in T : f[e] = 0
  PROVE  L[T] = 0
<1> DEFINE M == [U \in SUBSET S |-> 0]
           g == [e \in S |-> 0]
<1>1. Ledger(M, S, g) /\ M[T] = 0 /\ \A e \in T : f[e] = g[e]
  BY LedgerOfZero
<1> HIDE DEF M, g
<1>2. QED
  BY <1>1, LedgerAgrees

(* Elements that count for nothing may be left out.                        *)
LEMMA LedgerRest ==
  ASSUME NEW S, IsFiniteSet(S), NEW f, NEW L, Ledger(L, S, f),
         NEW T \in SUBSET S, \A e \in S \ T : f[e] = 0
  PROVE  L[T] = L[S]
<1> DEFINE Bad == {U \in SUBSET (S \ T) : L[T \cup U] # L[T]}
<1>1. Bad = {}
  <2> SUFFICES ASSUME Bad # {} PROVE FALSE
    OBVIOUS
  <2>1. \A U \in Bad : IsFiniteSet(U)
    BY FS_Subset
  <2>2. PICK U \in Bad : \A e \in U : U \ {e} \notin Bad
    BY <2>1, LeastSet
  <2>3. T \cup {} = T
    OBVIOUS
  <2>4. PICK e \in U : TRUE
    BY <2>2, <2>3
  <2>5. L[T \cup (U \ {e})] = L[T]
    BY <2>2
  <2>6. /\ T \cup (U \ {e}) \in SUBSET S /\ e \in S \ (T \cup (U \ {e}))
        /\ (T \cup (U \ {e})) \cup {e} = T \cup U
    OBVIOUS
  <2>7. L[T \cup U] = L[T \cup (U \ {e})] + f[e] /\ f[e] = 0
    BY <2>6 DEF Ledger
  <2>8. L[T] \in Int
    BY DEF Ledger
  <2>9. QED
    BY <2>2, <2>5, <2>7, <2>8
<1>2. L[T \cup (S \ T)] = L[T] /\ T \cup (S \ T) = S
  BY <1>1
<1>3. QED
  BY <1>2
-----------------------------------------------------------------------------
(* There is a sum over every subset of a finite set.                       *)
LEMMA LedgerExists ==
  ASSUME NEW S, IsFiniteSet(S), NEW f \in [S -> Int]
  PROVE  \E L : Ledger(L, S, f)
<1> DEFINE on(T) == [e \in S |-> IF e \in T THEN f[e] ELSE 0]
           Bad == {T \in SUBSET S : ~ \E L : Ledger(L, S, on(T))}
<1>1. Bad = {}
  <2> SUFFICES ASSUME Bad # {} PROVE FALSE
    OBVIOUS
  <2>1. \A T \in Bad : IsFiniteSet(T)
    BY FS_Subset
  <2>2. PICK T \in Bad : \A e \in T : T \ {e} \notin Bad
    BY <2>1, LeastSet
  <2>3. T # {}
    <3>1. on({}) = [e \in S |-> 0]
      OBVIOUS
    <3>2. QED
      BY <2>2, <3>1, LedgerOfZero
  <2>4. PICK e \in T : TRUE
    BY <2>3
  <2>5. PICK L : Ledger(L, S, on(T \ {e}))
    BY <2>2
  <2> DEFINE d == f[e]
             before == on(T \ {e})
             after == on(T)
  <2>6. /\ after \in [S -> Int] /\ e \in S /\ d \in Int
        /\ after[e] = before[e] + d
        /\ \A u \in S \ {e} : after[u] = before[u]
    OBVIOUS
  <2> HIDE DEF before, after, d
  <2>7. \E M : Ledger(M, S, after)
    <3>1. Ledger(L, S, before)
      BY <2>5 DEF before
    <3>2. QED
      BY <2>6, <3>1, LedgerShift
  <2>8. QED
    BY <2>2, <2>7 DEF after
<1>2. PICK L : Ledger(L, S, on(S))
  BY <1>1
<1>3. on(S) = f
  OBVIOUS
<1>4. QED
  BY <1>2, <1>3

(* The order SumFunction takes, one element after another as CHOOSE gives  *)
(* them, does not matter.                                                  *)
LEMMA SumIsLedger ==
  ASSUME NEW S, IsFiniteSet(S), NEW f, NEW L, Ledger(L, S, f)
  PROVE  SumFunction(f) = L[S]
<1> DEFINE first(s) == CHOOSE e \in s : TRUE
           Is(h) == h = [s \in SUBSET S |-> IF s = {} THEN 0
                                            ELSE f[first(s)] + h[s \ {first(s)}]]
<1>1. /\ f \in [S -> Int] /\ DOMAIN f = S
      /\ L \in [SUBSET S -> Int]
      /\ L[{}] = 0
      /\ \A T \in SUBSET S : \A e \in S \ T : L[T \cup {e}] = L[T] + f[e]
  BY DEF Ledger
<1>2. SumFunction(f) = (CHOOSE h : Is(h))[S]
  BY <1>1 DEF SumFunction, SumFunctionOnSet, FoldFunctionOnSet, MapThenFoldSet
<1>3. ASSUME NEW s \in SUBSET S, s # {}
      PROVE  first(s) \in s /\ L[s] = f[first(s)] + L[s \ {first(s)}]
  <2>1. first(s) \in s
    BY <1>3
  <2> HIDE DEF first
  <2>2. (s \ {first(s)}) \cup {first(s)} = s
    BY <2>1
  <2>3. L[s] = L[s \ {first(s)}] + f[first(s)]
    <3>1. s \ {first(s)} \in SUBSET S /\ first(s) \in S \ (s \ {first(s)})
      BY <2>1
    <3>2. QED
      BY <1>1, <2>2, <3>1
  <2>4. L[s \ {first(s)}] \in Int /\ f[first(s)] \in Int
    BY <1>1, <2>1
  <2>5. QED
    BY <2>1, <2>3, <2>4
<1>4. Is(L)
  BY <1>1, <1>3
<1> DEFINE h == CHOOSE k : Is(k)
<1>5. Is(h)
  <2> HIDE DEF Is
  <2>1. QED
    BY <1>4
<1> HIDE DEF h
<1> DEFINE Bad == {s \in SUBSET S : h[s] # L[s]}
<1>6. Bad = {}
  <2> SUFFICES ASSUME Bad # {} PROVE FALSE
    OBVIOUS
  <2>1. \A s \in Bad : IsFiniteSet(s)
    BY FS_Subset
  <2>2. PICK s \in Bad : \A e \in s : s \ {e} \notin Bad
    BY <2>1, LeastSet
  <2>3. h[{}] = 0
    BY <1>5
  <2>4. s # {}
    BY <1>1, <2>2, <2>3
  <2>5. h[s] = f[first(s)] + h[s \ {first(s)}]
    BY <1>5, <2>4
  <2>6. first(s) \in s /\ L[s] = f[first(s)] + L[s \ {first(s)}]
    BY <1>3, <2>4
  <2>7. h[s \ {first(s)}] = L[s \ {first(s)}]
    BY <2>2, <2>6
  <2>8. QED
    BY <2>2, <2>5, <2>6, <2>7
<1>7. S \in SUBSET S /\ h[S] = L[S]
  BY <1>6
<1>8. QED
  BY <1>2, <1>7 DEF h
-----------------------------------------------------------------------------
(* Division with remainder.                                                *)
LEMMA DivMod ==
  ASSUME NEW a \in Nat, NEW d \in Nat \ {0}
  PROVE  /\ a \div d \in Nat /\ a % d \in 0 .. d - 1
         /\ a = d * (a \div d) + (a % d)
OBVIOUS

LEMMA DivUnique ==
  ASSUME NEW q \in Nat, NEW d \in Nat \ {0}, NEW r \in 0 .. d - 1
  PROVE  (d * q + r) \div d = q /\ (d * q + r) % d = r
<1> DEFINE a == d * q + r
           u == a \div d
           v == a % d
<1>1. a \in Nat
  OBVIOUS
<1>2. u \in Nat /\ v \in 0 .. d - 1 /\ a = d * u + v
  BY <1>1, DivMod
<1>3. d * (u - q) = r - v
  BY <1>2
<1> HIDE DEF u, v, a
<1>4. ASSUME u < q PROVE FALSE
  <2>1. d * (q - u) >= d
    BY <1>2, <1>4
  <2>2. QED
    BY <1>2, <1>3, <2>1
<1>5. ASSUME u > q PROVE FALSE
  <2>1. d * (u - q) >= d
    BY <1>2, <1>5
  <2>2. QED
    BY <1>2, <1>3, <2>1
<1>6. u = q
  BY <1>2, <1>4, <1>5
<1>7. QED
  BY <1>2, <1>3, <1>6 DEF u, v, a

LEMMA DivBelow ==
  ASSUME NEW a \in Nat, NEW d \in Nat \ {0}, NEW n \in Nat, a < n * d
  PROVE  a \div d < n
<1> DEFINE u == a \div d
<1>1. u \in Nat /\ d * u <= a
  BY DivMod
<1> HIDE DEF u
<1>2. CASE u >= n
  <2>1. d * (u - n) >= 0
    BY <1>1, <1>2
  <2>2. QED
    BY <1>1, <2>1
<1>3. QED
  BY <1>1, <1>2 DEF u
-----------------------------------------------------------------------------
(***************************************************************************)
(* Sequences that list every element of a set once.                        *)
(***************************************************************************)
Enumerates(s, S) ==
  /\ s \in Seq(S)
  /\ \A e \in S : \E k \in 1 .. Len(s) : s[k] = e
  /\ \A j, k \in 1 .. Len(s) : s[j] = s[k] => j = k

LEMMA EnumeratesNothing == Enumerates(<< >>, {})
BY DEF Enumerates

LEMMA EnumeratesOneMore ==
  ASSUME NEW s, NEW S, Enumerates(s, S), NEW e, e \notin S
  PROVE  Enumerates(Append(s, e), S \cup {e})
<1> DEFINE t == Append(s, e)
           n == Len(s)
<1>1. s \in Seq(S) /\ n \in Nat
  BY DEF Enumerates
<1>2. t \in Seq(S \cup {e}) /\ Len(t) = n + 1 /\ t[n + 1] = e
  BY <1>1
<1>3. \A k \in 1 .. n : t[k] = s[k] /\ s[k] \in S
  BY <1>1
<1> HIDE DEF t, n
<1>4. ASSUME NEW d \in S \cup {e} PROVE \E k \in 1 .. n + 1 : t[k] = d
  <2>1. CASE d = e
    BY <1>1, <1>2, <2>1
  <2>2. CASE d \in S
    <3>1. PICK k \in 1 .. n : s[k] = d
      BY <2>2 DEF Enumerates, n
    <3>2. QED
      BY <1>1, <1>3, <3>1
  <2>3. QED
    BY <2>1, <2>2
<1>5. ASSUME NEW j \in 1 .. n + 1, NEW k \in 1 .. n + 1, t[j] = t[k]
      PROVE  j = k
  <2>1. CASE j \in 1 .. n /\ k \in 1 .. n
    BY <1>3, <1>5, <2>1 DEF Enumerates, n
  <2>2. CASE j = n + 1 \/ k = n + 1
    BY <1>1, <1>2, <1>3, <1>5, <2>2
  <2>3. QED
    BY <1>1, <2>1, <2>2
<1>6. QED
  BY <1>2, <1>4, <1>5 DEF Enumerates, t

LEMMA EnumeratesBoth ==
  ASSUME NEW s, NEW S, Enumerates(s, S), NEW t, NEW T, Enumerates(t, T),
         S \cap T = {}
  PROVE  Enumerates(s \o t, S \cup T)
<1> DEFINE u == s \o t
           m == Len(s)
           n == Len(t)
<1>1. s \in Seq(S) /\ m \in Nat /\ t \in Seq(T) /\ n \in Nat
  BY DEF Enumerates
<1>2. u \in Seq(S \cup T) /\ Len(u) = m + n
  BY <1>1
<1>3. \A k \in 1 .. m : u[k] = s[k] /\ s[k] \in S
  BY <1>1
<1>4. \A k \in 1 .. n : u[m + k] = t[k] /\ t[k] \in T
  BY <1>1
<1>5. \A k \in 1 .. m + n : k \notin 1 .. m =>
        k - m \in 1 .. n /\ u[k] = t[k - m] /\ u[k] \in T
  <2>1. \A k \in 1 .. m + n : k \notin 1 .. m =>
          k - m \in 1 .. n /\ m + (k - m) = k
    BY <1>1
  <2>2. QED
    BY <1>4, <2>1
<1> HIDE DEF u, m, n
<1>6. ASSUME NEW d \in S \cup T PROVE \E k \in 1 .. m + n : u[k] = d
  <2>1. CASE d \in S
    <3>1. PICK k \in 1 .. m : s[k] = d
      BY <2>1 DEF Enumerates, m
    <3>2. QED
      BY <1>1, <1>3, <3>1
  <2>2. CASE d \in T
    <3>1. PICK k \in 1 .. n : t[k] = d
      BY <2>2 DEF Enumerates, n
    <3>2. m + k \in 1 .. m + n
      BY <1>1
    <3>3. QED
      BY <1>4, <3>1, <3>2
  <2>3. QED
    BY <2>1, <2>2
<1>7. ASSUME NEW j \in 1 .. m + n, NEW k \in 1 .. m + n, u[j] = u[k]
      PROVE  j = k
  <2>1. CASE j \in 1 .. m /\ k \in 1 .. m
    BY <1>3, <1>7, <2>1 DEF Enumerates, m
  <2>2. CASE j \notin 1 .. m /\ k \notin 1 .. m
    <3>1. t[j - m] = t[k - m] /\ j - m \in 1 .. n /\ k - m \in 1 .. n
      BY <1>5, <1>7, <2>2
    <3>2. j - m = k - m
      BY <3>1 DEF Enumerates, n
    <3>3. QED
      BY <1>1, <3>2
  <2>3. ASSUME NEW a \in 1 .. m + n, NEW b \in 1 .. m + n,
               a \in 1 .. m, b \notin 1 .. m
        PROVE  u[a] # u[b]
    BY <1>3, <1>5, <2>3
  <2>4. QED
    BY <1>7, <2>1, <2>2, <2>3
<1>8. QED
  BY <1>2, <1>6, <1>7 DEF Enumerates, u

LEMMA EnumeratesRange ==
  ASSUME NEW s, NEW S, Enumerates(s, S)
  PROVE  s \in Seq(S) /\ DOMAIN s = 1 .. Len(s) /\ Range(s) = S
BY DEF Enumerates, Range

LEMMA EnumeratesLength ==
  ASSUME NEW s, NEW S, Enumerates(s, S)
  PROVE  IsFiniteSet(S) /\ Len(s) = Cardinality(S)
<1>1. s \in Surjection(1 .. Len(s), S) /\ s \in Injection(1 .. Len(s), S)
  BY DEF Enumerates, Surjection, Injection, IsInjective
<1>2. Len(s) \in Nat
  BY DEF Enumerates
<1>3. s \in Bijection(1 .. Len(s), S) /\ ExistsBijection(1 .. Len(s), S)
  BY <1>1 DEF Bijection, ExistsBijection
<1>4. IsFiniteSet(1 .. Len(s)) /\ Cardinality(1 .. Len(s)) = Len(s)
  <2> DEFINE n == Len(s)
  <2> HIDE DEF n
  <2>1. n \in Nat
    BY <1>2 DEF n
  <2>2. IsFiniteSet(1 .. n) /\ Cardinality(1 .. n) = n
    BY <2>1, FS_Interval
  <2>3. QED
    BY <2>2 DEF n
<1>5. QED
  BY <1>2, <1>3, <1>4, FS_Surjection, FS_Bijection

LEMMA SetToSeqEnumerates ==
  ASSUME NEW S, IsFiniteSet(S)
  PROVE  Enumerates(SetToSeq(S), S)
<1> DEFINE n == Cardinality(S)
           s == SetToSeq(S)
<1>1. n \in Nat /\ ExistsBijection(1 .. n, S)
  BY FS_CardinalityType
<1>2. s \in [1 .. n -> S] /\ IsInjective(s)
  <2>1. \E f \in [1 .. n -> S] : IsInjective(f)
    BY <1>1 DEF ExistsBijection, Bijection, Injection
  <2>2. s = CHOOSE f \in [1 .. n -> S] : IsInjective(f)
    BY DEF SetToSeq
  <2>3. QED
    BY <2>1, <2>2
<1> HIDE DEF s
<1>3. s \in Surjection(1 .. n, S)
  <2>1. s \in Injection(1 .. n, S)
    BY <1>2 DEF Injection
  <2>2. Cardinality(1 .. n) = n
    BY <1>1, FS_Interval
  <2>3. QED
    BY <2>1, <2>2, FS_Injection
<1>4. s \in Seq(S) /\ Len(s) = n
  BY <1>1, <1>2
<1>5. QED
  BY <1>2, <1>3, <1>4 DEF Enumerates, Surjection, IsInjective, s

(* FlattenSeq puts one sequence behind the other.                          *)
Unfolds(t, q, n) ==
  \E f : /\ t = f[n]
         /\ f[1] = q[1]
         /\ \A i \in 2 .. n : f[i] = f[i - 1] \o q[i]

LEMMA Flattened ==
  ASSUME NEW n \in Nat, n # 0, NEW V, NEW q \in [1 .. n -> V]
  PROVE  Unfolds(FlattenSeq(q), q, n)
<1> DEFINE Is(f, m) == f = [i \in 1 .. m |-> IF i = 1 THEN q[i]
                                             ELSE f[i - 1] \o q[i]]
           Fine == {m \in 1 .. n : \E f : Is(f, m)}
<1>1. Is([i \in 1 .. 1 |-> q[i]], 1)
  <2>1. [i \in 1 .. 1 |-> q[i]]
          = [i \in 1 .. 1 |-> IF i = 1 THEN q[i]
                               ELSE [j \in 1 .. 1 |-> q[j]][i - 1] \o q[i]]
    OBVIOUS
  <2>2. QED
    BY <2>1
<1>2. ASSUME NEW l \in 1 .. n, NEW g, Is(g, l), l < n
      PROVE  \E f : Is(f, l + 1)
  <2> DEFINE m == l + 1
             f == [i \in 1 .. m |-> IF i = m THEN g[l] \o q[m] ELSE g[i]]
  <2>1. m \in 2 .. n /\ l \in 1 .. m /\ l # m /\ l = m - 1
    BY <1>2
  <2> HIDE DEF m
  <2>2. ASSUME NEW i \in 1 .. m
        PROVE  f[i] = IF i = 1 THEN q[i] ELSE f[i - 1] \o q[i]
    <3>1. CASE i = m
      <4>0. m \in 1 .. m /\ m - 1 \in 1 .. m /\ m - 1 # m
        BY <2>1
      <4>1. f[m - 1] = g[m - 1] /\ f[m] = g[l] \o q[m]
        BY <4>0
      <4>2. QED
        BY <2>1, <3>1, <4>1
    <3>2. CASE i # m /\ i = 1
      BY <2>1, <1>2, <3>2
    <3>3. CASE i # m /\ i # 1
      <4>1. i \in 1 .. l /\ i - 1 \in 1 .. m /\ i - 1 # m
        BY <2>1, <3>3
      <4>2. f[i] = g[i] /\ f[i - 1] = g[i - 1]
        BY <3>3, <4>1
      <4>3. g[i] = g[i - 1] \o q[i]
        BY <1>2, <3>3, <4>1
      <4>4. QED
        BY <3>3, <4>2, <4>3
    <3>4. QED
      BY <3>1, <3>2, <3>3
  <2>3. f = [i \in 1 .. m |-> f[i]]
    OBVIOUS
  <2> HIDE DEF f
  <2>4. Is(f, m)
    BY <2>2, <2>3
  <2>5. QED
    BY <2>4 DEF m
<1>3. \E f : Is(f, n)
  <2> HIDE DEF Is
  <2>1. 1 \in Nat /\ 1 \in Fine
    BY <1>1
  <2>2. ASSUME NEW l \in 1 .. n, l \in Fine, l < n PROVE l + 1 \in Fine
    <3>1. PICK g : Is(g, l)
      BY <2>2
    <3>2. \E f : Is(f, l + 1)
      BY <1>2, <2>2, <3>1
    <3>3. QED
      BY <2>2, <3>2
  <2> HIDE DEF Fine
  <2>3. \A l \in 1 .. n : l \in Fine
    BY <2>1, <2>2, UpTo
  <2>4. n \in Fine
    BY <2>3
  <2>5. QED
    BY <2>4 DEF Fine
<1> DEFINE f == CHOOSE g : Is(g, n)
<1>4. Is(f, n)
  <2> HIDE DEF Is
  <2>1. QED
    BY <1>3
<1>5. Len(q) = n
  OBVIOUS
<1>6. FlattenSeq(q) = f[n]
  BY <1>5 DEF FlattenSeq
<1> HIDE DEF f
<1>7. f[1] = q[1] /\ \A i \in 2 .. n : f[i] = f[i - 1] \o q[i]
  <2>1. \A i \in 1 .. n : f[i] = IF i = 1 THEN q[i] ELSE f[i - 1] \o q[i]
    BY <1>4
  <2>2. \A i \in 2 .. n : i \in 1 .. n /\ i # 1
    OBVIOUS
  <2>3. 1 \in 1 .. n
    OBVIOUS
  <2> HIDE DEF Is
  <2>4. QED
    BY <2>1, <2>2, <2>3
<1>8. QED
  BY <1>6, <1>7 DEF Unfolds

Together(n, W) == UNION {W[i] : i \in 1 .. n}

LEMMA EnumeratesAll ==
  ASSUME NEW n \in Nat, NEW V, NEW q \in [1 .. n -> V], NEW W,
         \A i \in 1 .. n : Enumerates(q[i], W[i]),
         \A i, j \in 1 .. n : i # j => W[i] \cap W[j] = {}
  PROVE  Enumerates(FlattenSeq(q), Together(n, W))
<1>1. CASE n = 0
  <2>1. q = << >> /\ Len(q) = 0
    BY <1>1
  <2>2. FlattenSeq(q) = << >>
    BY <2>1 DEF FlattenSeq
  <2>3. Together(n, W) = {}
    BY <1>1 DEF Together
  <2>4. QED
    BY <2>2, <2>3, EnumeratesNothing
<1>2. CASE n # 0
  <2>0. n \in Nat \ {0}
    BY <1>2
  <2>a. Unfolds(FlattenSeq(q), q, n)
    BY <1>2, Flattened
  <2>1. PICK f : /\ FlattenSeq(q) = f[n]
                 /\ f[1] = q[1]
                 /\ \A i \in 2 .. n : f[i] = f[i - 1] \o q[i]
    BY <2>a DEF Unfolds
  <2> DEFINE U(m) == UNION {W[i] : i \in 1 .. m}
             Fine == {m \in 1 .. n : Enumerates(f[m], U(m))}
  <2>2. 1 \in Fine
    <3>1. U(1) = W[1] /\ 1 \in 1 .. n
      BY <2>0
    <3> HIDE DEF U
    <3>2. QED
      BY <2>1, <3>1
  <2>3. ASSUME NEW l \in 1 .. n, l \in Fine, l < n PROVE l + 1 \in Fine
    <3>1. l + 1 \in 2 .. n /\ l + 1 \in 1 .. n /\ (l + 1) - 1 = l
      BY <2>3
    <3>2. f[l + 1] = f[l] \o q[l + 1]
      BY <2>1, <3>1
    <3>3. U(l + 1) = U(l) \cup W[l + 1]
      <4>1. 1 .. l + 1 = (1 .. l) \cup {l + 1}
        OBVIOUS
      <4>2. QED
        BY <4>1
    <3>4. U(l) \cap W[l + 1] = {}
      <4>1. \A i \in 1 .. l : i \in 1 .. n /\ i # l + 1
        BY <2>3
      <4>2. \A i \in 1 .. l : W[i] \cap W[l + 1] = {}
        BY <3>1, <4>1
      <4>3. QED
        BY <4>2
    <3>5. Enumerates(f[l], U(l)) /\ Enumerates(q[l + 1], W[l + 1])
      BY <2>3, <3>1
    <3> HIDE DEF U
    <3>6. Enumerates(f[l + 1], U(l + 1))
      BY <3>2, <3>3, <3>4, <3>5, EnumeratesBoth
    <3>7. QED
      BY <3>1, <3>6
  <2> HIDE DEF Fine
  <2>4. \A m \in 1 .. n : m \in Fine
    BY <2>2, <2>3, UpTo
  <2>5. n \in Fine
    BY <2>0, <2>4
  <2>6. QED
    BY <2>1, <2>5 DEF Fine, Together
<1>3. QED
  BY <1>1, <1>2

(* Each element replaced by another.                                       *)
LEMMA EnumeratesMapped ==
  ASSUME NEW s, NEW S, Enumerates(s, S), NEW g, \A x, y \in S : g[x] = g[y] => x = y
  PROVE  Enumerates([k \in 1 .. Len(s) |-> g[s[k]]], {g[x] : x \in S})
<1> DEFINE t == [k \in 1 .. Len(s) |-> g[s[k]]]
           T == {g[x] : x \in S}
<1>1. Len(s) \in Nat /\ \A k \in 1 .. Len(s) : s[k] \in S
  BY DEF Enumerates
<1>2. t \in Seq(T) /\ Len(t) = Len(s)
  BY <1>1
<1>3. \A k \in 1 .. Len(s) : t[k] = g[s[k]]
  OBVIOUS
<1> HIDE DEF t
<1>4. ASSUME NEW e \in T PROVE \E k \in 1 .. Len(t) : t[k] = e
  BY <1>2, <1>3 DEF Enumerates
<1>5. ASSUME NEW j \in 1 .. Len(t), NEW k \in 1 .. Len(t), t[j] = t[k] PROVE j = k
  <2>1. s[j] = s[k]
    BY <1>1, <1>2, <1>3, <1>5
  <2>2. QED
    BY <1>2, <2>1 DEF Enumerates
<1>6. Enumerates(t, T)
  BY <1>2, <1>4, <1>5 DEF Enumerates
<1>7. QED
  BY <1>6 DEF t
-----------------------------------------------------------------------------
(* Dealing a dimension out, index by index.                                *)
Deals(s, stride, rank, w, c) ==
  \E f : /\ s = f[c]
         /\ f[0] = << >>
         /\ \A n \in 0 .. c : n < c =>
              f[n + 1] = IF (w + n) % stride = rank THEN Append(f[n], w + n)
                         ELSE f[n]

LEMMA DealtDeals ==
  ASSUME NEW grid, NEW d, NEW p, NEW w \in Nat, NEW c \in Nat
  PROVE  Deals(Dealt(grid, d, <<w, c>>, p), StrideOf(grid, d),
               RankOf(grid, d, p), w, c)
<1> DEFINE stride == StrideOf(grid, d)
           rank == RankOf(grid, d, p)
           Step(f, n) == IF n = 0 THEN << >>
                         ELSE IF (w + n - 1) % stride = rank
                              THEN Append(f[n - 1], w + n - 1) ELSE f[n - 1]
           Is(f, m) == f = [n \in 0 .. m |-> Step(f, n)]
           Fine == {m \in 0 .. c : \E f : Is(f, m)}
<1> HIDE DEF stride, rank
<1>1. Is([n \in 0 .. 0 |-> << >>], 0)
  <2>1. \A n \in 0 .. 0 : n = 0
    OBVIOUS
  <2>2. [n \in 0 .. 0 |-> << >>]
          = [n \in 0 .. 0 |-> Step([i \in 0 .. 0 |-> << >>], n)]
    BY <2>1
  <2>3. QED
    BY <2>2
<1>2. ASSUME NEW l \in 0 .. c, NEW g, Is(g, l), l < c
      PROVE  \E f : Is(f, l + 1)
  <2> DEFINE m == l + 1
             f == [n \in 0 .. m |-> IF n = m THEN Step(g, m) ELSE g[n]]
  <2>1. m \in 1 .. c /\ l \in 0 .. m /\ l # m /\ l = m - 1
    BY <1>2
  <2> HIDE DEF m
  <2>2. ASSUME NEW n \in 0 .. m
        PROVE  f[n] = Step(f, n)
    <3>1. CASE n = m
      <4>0. m \in 0 .. m /\ m - 1 \in 0 .. m /\ m - 1 # m /\ m # 0
        BY <2>1
      <4>1. f[m - 1] = g[m - 1] /\ f[m] = Step(g, m)
        BY <4>0
      <4>2. Step(f, m) = Step(g, m)
        BY <4>0, <4>1
      <4>3. QED
        BY <3>1, <4>1, <4>2
    <3>2. CASE n # m /\ n = 0
      <4>1. 0 \in 0 .. l /\ f[0] = g[0]
        BY <2>1, <3>2
      <4>2. g[0] = << >>
        BY <1>2, <4>1
      <4>3. QED
        BY <3>2, <4>1, <4>2
    <3>3. CASE n # m /\ n # 0
      <4>1. n \in 0 .. l /\ n - 1 \in 0 .. m /\ n - 1 # m
        BY <2>1, <3>3
      <4>2. f[n] = g[n] /\ f[n - 1] = g[n - 1]
        BY <3>3, <4>1
      <4>3. g[n] = Step(g, n)
        BY <1>2, <3>3, <4>1
      <4>4. Step(g, n) = Step(f, n)
        BY <3>3, <4>2
      <4> HIDE DEF Step, f
      <4>5. QED
        BY <4>2, <4>3, <4>4
    <3>4. QED
      BY <3>1, <3>2, <3>3
  <2>3. f = [n \in 0 .. m |-> f[n]]
    OBVIOUS
  <2> HIDE DEF f, Step
  <2>4. Is(f, m)
    BY <2>2, <2>3
  <2>5. QED
    BY <2>4 DEF m
<1>3. \E f : Is(f, c)
  <2> HIDE DEF Is
  <2>1. 0 \in Nat /\ 0 \in Fine
    BY <1>1
  <2>2. ASSUME NEW l \in 0 .. c, l \in Fine, l < c PROVE l + 1 \in Fine
    <3>1. PICK g : Is(g, l)
      BY <2>2
    <3>2. \E f : Is(f, l + 1)
      BY <1>2, <2>2, <3>1
    <3>3. QED
      BY <2>2, <3>2
  <2> HIDE DEF Fine
  <2>3. \A l \in 0 .. c : l \in Fine
    BY <2>1, <2>2, UpTo
  <2>4. c \in Fine
    BY <2>3
  <2>5. QED
    BY <2>4 DEF Fine
<1> DEFINE f == CHOOSE g : Is(g, c)
<1>4. Is(f, c)
  <2> HIDE DEF Is
  <2>1. QED
    BY <1>3
<1>5. Dealt(grid, d, <<w, c>>, p) = f[c]
  BY DEF Dealt, stride, rank
<1> HIDE DEF f
<1>6. \A n \in 0 .. c : f[n] = Step(f, n)
  BY <1>4
<1>7. f[0] = << >>
  BY <1>6
<1>8. ASSUME NEW n \in 0 .. c, n < c
      PROVE  f[n + 1] = IF (w + n) % stride = rank THEN Append(f[n], w + n)
                        ELSE f[n]
  <2>1. n + 1 \in 0 .. c /\ n + 1 # 0 /\ (n + 1) - 1 = n /\ w + (n + 1) - 1 = w + n
    BY <1>8
  <2>2. f[n + 1] = Step(f, n + 1)
    BY <1>6, <2>1
  <2>3. QED
    BY <2>1, <2>2
<1>9. QED
  BY <1>5, <1>7, <1>8 DEF Deals, stride, rank

(* A process is dealt out each of its indices once.                        *)
Dealing(stride, rank, w, c) == {g \in w .. w + c - 1 : g % stride = rank}

LEMMA DealsEnumerates ==
  ASSUME NEW s, NEW stride, NEW rank, NEW w \in Nat, NEW c \in Nat,
         Deals(s, stride, rank, w, c)
  PROVE  Enumerates(s, Dealing(stride, rank, w, c))
<1>1. PICK f : /\ s = f[c]
               /\ f[0] = << >>
               /\ \A n \in 0 .. c : n < c =>
                    f[n + 1] = IF (w + n) % stride = rank
                               THEN Append(f[n], w + n) ELSE f[n]
  BY DEF Deals
<1> DEFINE Fine == {n \in 0 .. c : Enumerates(f[n], Dealing(stride, rank, w, n))}
<1>2. 0 \in Fine
  <2>1. Dealing(stride, rank, w, 0) = {}
    BY DEF Dealing
  <2>2. 0 \in 0 .. c /\ f[0] = << >>
    BY <1>1
  <2>3. Enumerates(f[0], Dealing(stride, rank, w, 0))
    BY <2>1, <2>2, EnumeratesNothing
  <2>4. QED
    BY <2>2, <2>3
<1>3. ASSUME NEW n \in 0 .. c, n \in Fine, n < c PROVE n + 1 \in Fine
  <2> DEFINE S == Dealing(stride, rank, w, n)
             T == Dealing(stride, rank, w, n + 1)
  <2>1. Enumerates(f[n], S) /\ n + 1 \in 0 .. c
    BY <1>3
  <2>2. w .. w + (n + 1) - 1 = (w .. w + n - 1) \cup {w + n}
        /\ w + n \notin w .. w + n - 1
    BY <1>3
  <2>3. CASE (w + n) % stride = rank
    <3>1. f[n + 1] = Append(f[n], w + n)
      BY <1>1, <1>3, <2>3
    <3>2. T = S \cup {w + n} /\ w + n \notin S
      BY <2>2, <2>3 DEF Dealing
    <3> HIDE DEF S, T
    <3>3. Enumerates(f[n + 1], T)
      BY <2>1, <3>1, <3>2, EnumeratesOneMore
    <3>4. QED
      BY <2>1, <3>3 DEF T
  <2>4. CASE (w + n) % stride # rank
    <3>1. f[n + 1] = f[n]
      BY <1>1, <1>3, <2>4
    <3>2. T = S
      BY <2>2, <2>4 DEF Dealing
    <3>3. QED
      BY <2>1, <3>1, <3>2
  <2>5. QED
    BY <2>3, <2>4
<1> HIDE DEF Fine
<1>4. \A n \in 0 .. c : n \in Fine
  BY <1>2, <1>3, UpTo
<1>5. c \in Fine
  BY <1>4
<1>6. QED
  BY <1>1, <1>5 DEF Fine
-----------------------------------------------------------------------------
(* Places in a grid, numbered row by row, or column by column.             *)
LEMMA Squares ==
  ASSUME NEW h \in Nat \ {0}, NEW w \in Nat \ {0}
  PROVE  h * w \in Nat \ {0} /\ h * w = w * h
OBVIOUS

LEMMA NumberOfPlace ==
  ASSUME NEW h \in Nat \ {0}, NEW w \in Nat \ {0},
         NEW i \in 0 .. h - 1, NEW j \in 0 .. w - 1
  PROVE  i + j * h \in 0 .. h * w - 1
<1>1. (w - 1 - j) * h >= 0
  OBVIOUS
<1>2. (w - 1 - j) * h = h * w - h - j * h
  OBVIOUS
<1> DEFINE x == j * h
           y == h * w
<1>3. y - h - x >= 0 /\ x \in Nat /\ y \in Nat
  <2>1. x \in Nat /\ y \in Nat
    OBVIOUS
  <2>2. QED
    BY <1>1, <1>2, <2>1
<1> HIDE DEF x, y
<1>4. i + x \in 0 .. y - 1
  BY <1>3
<1>5. QED
  BY <1>4 DEF x, y

LEMMA PlaceOfNumber ==
  ASSUME NEW h \in Nat \ {0}, NEW w \in Nat \ {0}, NEW k \in Nat, k < h * w
  PROVE  /\ k % h \in 0 .. h - 1
         /\ k \div h \in 0 .. w - 1
         /\ (k % h) + (k \div h) * h = k
<1>1. k < w * h
  OBVIOUS
<1>2. k \div h \in Nat /\ k % h \in 0 .. h - 1 /\ k = h * (k \div h) + (k % h)
  BY DivMod
<1>3. k \div h < w
  BY <1>1, DivBelow
<1> DEFINE q == k \div h
           r == k % h
<1> HIDE DEF q, r
<1>4. r + q * h = k
  <2>1. q \in Nat /\ r \in Nat /\ k = h * q + r
    BY <1>2 DEF q, r
  <2>2. h * q = q * h /\ h * q \in Nat
    BY <2>1
  <2>3. QED
    BY <2>1, <2>2
<1>5. QED
  BY <1>2, <1>3, <1>4 DEF q, r

OnePlace(h, i, j, a, b) == i + j * h = a + b * h => i = a /\ j = b

LEMMA OneNumber ==
  ASSUME NEW h \in Nat \ {0}, NEW w \in Nat \ {0},
         NEW i \in 0 .. h - 1, NEW a \in 0 .. h - 1,
         NEW j \in 0 .. w - 1, NEW b \in 0 .. w - 1
  PROVE  OnePlace(h, i, j, a, b)
<1> SUFFICES ASSUME i + j * h = a + b * h PROVE i = a /\ j = b
  BY DEF OnePlace
<1>1. (h * j + i) \div h = j /\ (h * j + i) % h = i
  BY DivUnique
<1>2. (h * b + a) \div h = b /\ (h * b + a) % h = a
  BY DivUnique
<1>3. h * j + i = h * b + a
  OBVIOUS
<1>4. QED
  BY <1>1, <1>2, <1>3
=============================================================================
