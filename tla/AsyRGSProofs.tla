---------------------------- MODULE AsyRGSProofs ----------------------------
(***************************************************************************)
(* For every matrix, every right-hand side and any number of threads: what *)
(* AsyRGS returns is true of the X it leaves the caller with.              *)
(***************************************************************************)
EXTENDS AsyRGS, Lemmas

(***************************************************************************)
(* No thread is in a step while the solver is between rounds, so nothing   *)
(* changes x between the convergence test and the end of the function; and *)
(* once a round has been run, a solver that is about to begin another, or  *)
(* to give up, has just failed the test.                                   *)
(***************************************************************************)
Tests == TolSqr[1] > 0

Parked == phase # "parallel" => \A t \in Thread : job[t] = Idle
Failed == phase = "draw" /\ Tests => sweepsLeft = SweepsLim \/ ~ Converged(x)
Outcome == phase = "returned" /\ Tests =>
             /\ ret = -1 => Converged(X)
             /\ ret = -6 /\ SweepsLim > 0 => ~ Converged(X)

IInv == /\ phase \in {"draw", "parallel", "returned"}
        /\ Parked
        /\ Failed
        /\ Outcome

LEMMA InitIInv == Init => IInv
BY DEF Init, IInv, Parked, Failed, Outcome

(***************************************************************************)
(* One step per action.                                                    *)
(***************************************************************************)
LEMMA StepIInv == IInv /\ [Next]_vars => IInv'
<1> SUFFICES ASSUME IInv, [Next]_vars PROVE IInv'
  OBVIOUS
<1> USE SweepsAssumption DEF IInv
<1>1. CASE Draw
  BY <1>1 DEF Draw, Parked, Failed, Outcome
<1>2. CASE Test
  <2>1. Parked'
    BY <1>2 DEF Test, Parked
  <2>2. CASE TolSqr[1] > 0 /\ Converged(x) /\ phase' = "returned"
             /\ ret' = -1 /\ X' = x
    <3>1. Outcome'
      BY <2>2 DEF Outcome, Tests
    <3> QED
      BY <2>1, <2>2, <3>1 DEF Failed
  <2>3. CASE ~ (TolSqr[1] > 0 /\ Converged(x)) /\ phase' = "draw"
    <3>1. x' = x
      BY <1>2 DEF Test
    <3>2. Failed'
      BY <2>3, <3>1 DEF Failed, Tests
    <3> QED
      BY <2>1, <2>3, <3>2 DEF Outcome
  <2> QED
    BY <1>2, <2>2, <2>3 DEF Test
<1>3. CASE GiveUp
  <2>1. Parked'
    BY <1>3 DEF GiveUp, Parked
  <2>2. Tests /\ SweepsLim > 0 => ~ Converged(x)
    BY <1>3 DEF GiveUp, Failed
  <2>3. phase' = "returned" /\ ret' = -6 /\ X' = x
    BY <1>3 DEF GiveUp
  <2>4. Outcome'
    BY <2>2, <2>3 DEF Outcome, Tests
  <2> QED
    BY <2>1, <2>3, <2>4 DEF Failed
<1>4. ASSUME NEW t \in Thread, Begin(t) PROVE IInv'
  BY <1>4 DEF Begin, Parked, Failed, Outcome
<1>5. ASSUME NEW t \in Thread, Load(t) PROVE IInv'
  <2>1. phase = "parallel"
    BY <1>5 DEF Load, Parked
  <2> QED
    BY <1>5, <2>1 DEF Load, Parked, Failed, Outcome
<1>6. ASSUME NEW t \in Thread, Add(t) PROVE IInv'
  <2>1. phase = "parallel"
    BY <1>6 DEF Add, Parked
  <2> QED
    BY <1>6, <2>1 DEF Add, Parked, Failed, Outcome
<1>7. CASE UNCHANGED vars
  BY <1>7 DEF vars, Parked, Failed, Outcome
<1> QED
  BY <1>1, <1>2, <1>3, <1>4, <1>5, <1>6, <1>7 DEF Next

(***************************************************************************)
(* "-1" is never returned with an X that fails the convergence test, and   *)
(* "-6" never with one that passes it.                                     *)
(***************************************************************************)
THEOREM ReportedTruly == Spec => []ReportTrue
<1>1. IInv => ReportTrue
  BY DEF IInv, Outcome, ReportTrue, Tests
<1> QED
  BY InitIInv, StepIInv, <1>1, PTL DEF Spec
-----------------------------------------------------------------------------
(***************************************************************************)
(* The order in which a step reads X: every entry of X that meets a        *)
(* nonzero of the column is read, once.                                    *)
(***************************************************************************)
Rows(i) == {j \in Idx : A[j][i] # 0}

LEMMA StoredRows ==
  ASSUME NEW i \in Idx
  PROVE  /\ Stored[i] \in Seq(Rows(i))
         /\ \A j \in Rows(i) : \E p \in 1 .. Len(Stored[i]) : Stored[i][p] = j
         /\ \A p, q \in 1 .. Len(Stored[i]) :
              Stored[i][p] = Stored[i][q] => p = q
<1> DEFINE R == Rows(i)
           n == Cardinality(R)
<1>1. IsFiniteSet(R)
  <2>1. IsFiniteSet(1 .. N) /\ R \in SUBSET (1 .. N)
    BY FS_Interval, SizeAssumption DEF Idx, Rows
  <2>2. QED
    BY <2>1, FS_Subset
<1>2. n \in Nat /\ ExistsBijection(1 .. n, R)
  BY <1>1, FS_CardinalityType
<1> DEFINE s == SetToSeq(R)
<1>3. Stored[i] = s
  BY DEF Stored, Rows
<1> HIDE DEF R, n
<1>4. s \in [1 .. n -> R] /\ IsInjective(s)
  <2>1. \E f \in [1 .. n -> R] : IsInjective(f)
    BY <1>2 DEF ExistsBijection, Bijection, Injection
  <2>2. s = CHOOSE f \in [1 .. n -> R] : IsInjective(f)
    BY DEF SetToSeq, n
  <2>3. QED
    BY <2>1, <2>2
<1> HIDE DEF s
<1>5. s \in Surjection(1 .. n, R)
  <2>1. s \in Injection(1 .. n, R)
    BY <1>4 DEF Injection
  <2>2. Cardinality(1 .. n) = n
    BY <1>2, FS_Interval
  <2>3. QED
    BY <1>1, <2>1, <2>2, FS_Injection DEF n
<1>6. s \in Seq(R) /\ Len(s) = n
  BY <1>2, <1>4
<1>7. QED
  BY <1>3, <1>4, <1>5, <1>6 DEF R, Surjection, IsInjective

LEMMA ReadsEntries ==
  ASSUME NEW i \in Idx
  PROVE  /\ Len(Reads[i]) \in Nat
         /\ \A p \in 1 .. Len(Reads[i]) :
              /\ Reads[i][p] \in Rows(i) \X Rhs
              /\ Reads[i][p] = <<Reads[i][p][1], Reads[i][p][2]>>
         /\ \A p, q \in 1 .. Len(Reads[i]) : Reads[i][p] = Reads[i][q] => p = q
         /\ \A j \in Rows(i), r \in Rhs :
              \E p \in 1 .. Len(Reads[i]) : Reads[i][p] = <<j, r>>
         /\ Stored[i] # << >> => Len(Reads[i]) > 0
<1> DEFINE s == Stored[i]
           n == Len(s)
           row(p) == (p - 1) \div K
           rhs(p) == (p - 1) % K
<1>1. s \in Seq(Rows(i)) /\ n \in Nat /\ K \in Nat \ {0}
  BY StoredRows, SizeAssumption
<1>2. Reads[i] = [p \in 1 .. n * K |-> <<s[row(p) + 1], rhs(p) + 1>>]
  BY DEF Reads
<1>3. n * K \in Nat /\ (n # 0 => n * K > 0)
  BY <1>1
<1>4. Len(Reads[i]) = n * K
  BY <1>2, <1>3
<1>5. ASSUME NEW p \in 1 .. n * K
      PROVE  /\ row(p) \in 0 .. n - 1 /\ rhs(p) \in 0 .. K - 1
             /\ p = K * row(p) + rhs(p) + 1
             /\ s[row(p) + 1] \in Rows(i)
  <2>1. p - 1 \in Nat /\ p - 1 < n * K
    BY <1>3
  <2>2. row(p) \in Nat /\ rhs(p) \in 0 .. K - 1 /\ p - 1 = K * row(p) + rhs(p)
    BY <1>1, <2>1, DivMod
  <2>3. row(p) < n
    BY <1>1, <2>1, DivBelow
  <2> HIDE DEF row, rhs
  <2>4. row(p) + 1 \in 1 .. n /\ K * row(p) \in Nat
    BY <1>1, <2>2, <2>3
  <2>5. QED
    BY <1>1, <2>2, <2>3, <2>4
<1>6. ASSUME NEW p \in 1 .. n * K, NEW q \in 1 .. n * K, Reads[i][p] = Reads[i][q]
      PROVE  p = q
  <2>1. s[row(p) + 1] = s[row(q) + 1] /\ rhs(p) + 1 = rhs(q) + 1
    BY <1>2, <1>6
  <2> HIDE DEF row, rhs
  <2>2. row(p) + 1 \in 1 .. n /\ row(q) + 1 \in 1 .. n
    <3>1. row(p) \in 0 .. n - 1 /\ row(q) \in 0 .. n - 1
      BY <1>5
    <3> HIDE DEF s, n
    <3>2. QED
      BY <1>1, <3>1
  <2>3. row(p) + 1 = row(q) + 1
    BY <2>1, <2>2, StoredRows
  <2>4. row(p) = row(q) /\ rhs(p) = rhs(q)
    <3>1. row(p) \in Int /\ row(q) \in Int /\ rhs(p) \in Int /\ rhs(q) \in Int
      BY <1>5
    <3>2. QED
      BY <2>1, <2>3, <3>1
  <2>5. QED
    BY <1>5, <2>4
<1>7. ASSUME NEW j \in Rows(i), NEW r \in Rhs
      PROVE  \E p \in 1 .. n * K : Reads[i][p] = <<j, r>>
  <2>1. PICK m \in 1 .. n : s[m] = j
    BY StoredRows
  <2> DEFINE p == K * (m - 1) + (r - 1) + 1
  <2>2. m - 1 \in Nat /\ r - 1 \in 0 .. K - 1
    BY <1>1 DEF Rhs
  <2>3. row(p) = m - 1 /\ rhs(p) = r - 1
    <3> DEFINE c == m - 1
               e == r - 1
    <3>1. (K * c + e) \div K = c /\ (K * c + e) % K = e
      BY <1>1, <2>2, DivUnique
    <3>2. p - 1 = K * c + e
      BY <1>1, <2>2
    <3> HIDE DEF c, e, p
    <3>3. row(p) = c /\ rhs(p) = e
      BY <3>1, <3>2
    <3>4. QED
      BY <3>3 DEF c, e
  <2>4. p \in 1 .. n * K
    <3>1. K * (m - 1) >= 0
      BY <1>1, <2>2
    <3>2. K * (n - m) >= 0
      BY <1>1
    <3>3. p <= K * m /\ p >= 1 /\ p \in Int
      BY <1>1, <2>2, <3>1
    <3>4. K * m <= n * K
      BY <1>1, <3>2
    <3> HIDE DEF p
    <3>5. QED
      BY <1>1, <3>3, <3>4
  <2> HIDE DEF p, row, rhs
  <2>5. Reads[i][p] = <<s[(m - 1) + 1], (r - 1) + 1>>
    BY <1>2, <2>3, <2>4
  <2>6. (m - 1) + 1 = m /\ (r - 1) + 1 = r
    BY <1>1 DEF Rhs
  <2>7. QED
    BY <2>1, <2>4, <2>5, <2>6
<1>8. ASSUME NEW p \in 1 .. n * K
      PROVE  /\ Reads[i][p] \in Rows(i) \X Rhs
             /\ Reads[i][p] = <<Reads[i][p][1], Reads[i][p][2]>>
  <2> HIDE DEF row, rhs
  <2>1. rhs(p) + 1 \in Rhs
    BY <1>1, <1>5 DEF Rhs
  <2>2. Reads[i][p] = <<s[row(p) + 1], rhs(p) + 1>>
    BY <1>2
  <2>3. QED
    BY <1>5, <2>1, <2>2
<1>9. s # << >> => n # 0
  BY <1>1
<1>10. QED
  BY <1>3, <1>4, <1>6, <1>7, <1>8, <1>9
-----------------------------------------------------------------------------
(***************************************************************************)
(* Types.                                                                  *)
(***************************************************************************)
Job == [step : Idx, at : Nat, xvals : [Rhs -> Int]]

Types ==
  /\ phase \in {"draw", "parallel", "returned"}
  /\ sweepsLeft \in Int /\ sweepsLeft <= SweepsLim
  /\ sweeps \in Int /\ (phase = "parallel" => sweeps > 0)
  /\ steps \in Seq(Idx)
  /\ x \in Matrix /\ X \in Matrix /\ start \in Matrix /\ moved \in Matrix
  /\ ret \in {0, -1, -6}
  /\ job \in [Thread -> {Idle} \cup Job]
  /\ \A t \in Thread : job[t] # Idle =>
       job[t] \in Job /\ job[t].at <= Len(Reads[job[t].step]) + K - 1
  /\ Parked

LEMMA NotIdle ==
  ASSUME NEW b \in Job
  PROVE  b # Idle
BY SizeAssumption DEF Job, Idle, Idx

LEMMA CorrectionType ==
  ASSUME NEW v \in Int, NEW i \in Idx
  PROVE  Correction(v, i) \in Int
<1>1. Diag(i) \in Int /\ Diag(i) # 0
  BY DataAssumption DEF Diag
<1>2. CASE Diag(i) > 0
  BY <1>1, <1>2 DEF Correction
<1>3. CASE - Diag(i) > 0 /\ ~ (Diag(i) > 0)
  BY <1>1, <1>3 DEF Correction
<1>4. QED
  BY <1>1, <1>2, <1>3

LEMMA InitTypes == Init => Types
BY SizeAssumption, DataAssumption, SweepsAssumption
   DEF Init, Types, Parked, Matrix, Zero

(* What a step of a thread reads next, and what it has then accumulated.   *)
LEMMA LoadReads ==
  ASSUME Types, NEW t \in Thread, Load(t)
  PROVE  \E i \in Idx, at \in Nat, j \in Rows(job[t].step), r \in Rhs,
             v \in [Rhs -> Int] :
           /\ i = job[t].step /\ at = job[t].at + 1
           /\ job[t] \in Job /\ phase = "parallel"
           /\ at <= Len(Reads[i]) /\ Reads[i][at] = <<j, r>>
           /\ v = [job[t].xvals EXCEPT ![r] = @ - A[j][i] * x[j][r]]
           /\ job' = [job EXCEPT ![t] = [step |-> i, at |-> at, xvals |-> v]]
           /\ moved' = IF at < Len(Reads[i]) THEN moved
                       ELSE [moved EXCEPT ![i] =
                               [c \in Rhs |-> @[c] + Correction(v[c], i)]]
           /\ UNCHANGED <<phase, sweepsLeft, sweeps, steps, x, X, ret, start>>
<1> DEFINE i == job[t].step
           at == job[t].at + 1
           j == Reads[i][at][1]
           r == Reads[i][at][2]
           v == [job[t].xvals EXCEPT ![r] = @ - A[j][i] * x[j][r]]
<1>1. /\ job[t] # Idle /\ at <= Len(Reads[i])
      /\ job' = [job EXCEPT ![t] = [step |-> i, at |-> at, xvals |-> v]]
      /\ moved' = IF at < Len(Reads[i]) THEN moved
                  ELSE [moved EXCEPT ![i] =
                          [c \in Rhs |-> @[c] + Correction(v[c], i)]]
      /\ UNCHANGED <<phase, sweepsLeft, sweeps, steps, x, X, ret, start>>
  BY DEF Load
<1>2. job[t] \in Job /\ phase = "parallel"
  BY <1>1 DEF Types, Parked
<1>3. i \in Idx /\ at \in Nat /\ at >= 1 /\ job[t].xvals \in [Rhs -> Int]
  BY <1>2 DEF Job
<1> HIDE DEF i, at, r, j
<1>4. Len(Reads[i]) \in Nat /\ at \in 1 .. Len(Reads[i])
  BY <1>1, <1>3, ReadsEntries
<1>5. j \in Rows(i) /\ r \in Rhs /\ Reads[i][at] = <<j, r>>
  BY <1>3, <1>4, ReadsEntries DEF j, r
<1>6. A[j][i] \in Int /\ x[j][r] \in Int
  BY <1>3, <1>5, DataAssumption DEF Types, Matrix, Rows
<1>7. v \in [Rhs -> Int]
  BY <1>3, <1>5, <1>6
<1> HIDE DEF v
<1>8. v = [job[t].xvals EXCEPT ![r] = @ - A[j][i] * x[j][r]]
  BY DEF v
<1>9. QED
  BY <1>1, <1>2, <1>3, <1>4, <1>5, <1>7, <1>8 DEF i, at

(* What is left of a step once it has added to right-hand side r.          *)
Left(b, r) == IF r = K THEN Idle
              ELSE [step |-> b.step, at |-> b.at + 1, xvals |-> b.xvals]

LEMMA AddWrites ==
  ASSUME Types, NEW t \in Thread, Add(t)
  PROVE  \E i \in Idx, r \in Rhs :
           /\ i = job[t].step /\ job[t].at + 1 - Len(Reads[i]) = r
           /\ Len(Reads[i]) \in Nat
           /\ job[t] \in Job /\ phase = "parallel"
           /\ x' = [x EXCEPT ![i][r] = @ + Correction(job[t].xvals[r], i)]
           /\ job' = [job EXCEPT ![t] = Left(job[t], r)]
           /\ UNCHANGED <<phase, sweepsLeft, sweeps, steps, X, ret, start, moved>>
<1>1. job[t] \in Job /\ phase = "parallel"
  BY DEF Add, Types, Parked
<1>2. Len(Reads[job[t].step]) \in Nat /\ job[t].step \in Idx
  BY <1>1, ReadsEntries DEF Job
<1> DEFINE i == job[t].step
           r == NextRhs(t)
<1>3. /\ r \in Rhs /\ r = job[t].at + 1 - Len(Reads[i])
      /\ x' = [x EXCEPT ![i][r] = @ + Correction(job[t].xvals[r], i)]
      /\ Finished(t, r)
      /\ UNCHANGED <<phase, sweepsLeft, sweeps, steps, X, ret, start, moved>>
  BY DEF Add, NextRhs
<1> HIDE DEF r
<1>4. job' = [job EXCEPT ![t] = Left(job[t], r)]
  <2>1. Left(job[t], r) = IF r = K THEN Idle ELSE [job[t] EXCEPT !.at = @ + 1]
    BY <1>1 DEF Left, Job
  <2>2. job' = [job EXCEPT ![t] = IF r = K THEN Idle
                                  ELSE [job[t] EXCEPT !.at = @ + 1]]
    BY <1>3 DEF Finished
  <2>3. QED
    BY <2>1, <2>2
<1>5. QED
  BY <1>1, <1>2, <1>3, <1>4

LEMMA StepTypes ==
  ASSUME Types, [Next]_vars
  PROVE  Types'
<1> USE DEF Types
<1>1. CASE Draw
  <2> DEFINE now == IF SynSweeps > 0 /\ SynSweeps < sweepsLeft THEN SynSweeps
                    ELSE sweepsLeft
  <2>1. /\ now \in Int /\ now > 0 /\ sweeps' = now
        /\ steps' \in [1 .. now * N -> Idx]
    BY <1>1, SweepsAssumption DEF Draw
  <2> HIDE DEF now
  <2>2. now * N \in Nat
    BY <2>1, SizeAssumption
  <2>3. steps' \in Seq(Idx)
    BY <2>1, <2>2
  <2>4. Zero \in Matrix
    BY DEF Zero, Matrix
  <2>5. Parked'
    BY <1>1 DEF Draw, Parked
  <2>6. QED
    BY <1>1, <2>1, <2>3, <2>4, <2>5 DEF Draw
<1>2. CASE Test
  <2>1. Parked'
    BY <1>2 DEF Test, Parked
  <2>2. sweepsLeft' \in Int /\ sweepsLeft' <= SweepsLim
    BY <1>2, SweepsAssumption DEF Test
  <2>3. /\ phase' \in {"draw", "parallel", "returned"} /\ phase' # "parallel"
        /\ ret' \in {0, -1, -6} /\ X' \in Matrix
        /\ UNCHANGED <<sweeps, steps, job, x, start, moved>>
    BY <1>2 DEF Test
  <2>4. QED
    BY <2>1, <2>2, <2>3
<1>3. CASE GiveUp
  BY <1>3 DEF GiveUp, Parked
<1>4. ASSUME NEW t \in Thread, Begin(t) PROVE Types'
  <2> DEFINE b == [step |-> Head(steps), at |-> 0, xvals |-> B[Head(steps)]]
  <2>1. /\ phase = "parallel" /\ steps # << >> /\ steps' = Tail(steps)
        /\ UNCHANGED <<phase, sweepsLeft, sweeps, x, X, ret, start, moved>>
        /\ job' = job \/ job' = [job EXCEPT ![t] = b]
    BY <1>4 DEF Begin
  <2>2. Head(steps) \in Idx /\ steps' \in Seq(Idx)
    BY <2>1
  <2>3. b \in Job
    BY <2>2, DataAssumption DEF Job, Matrix
  <2>4. b.step \in Idx /\ Len(Reads[b.step]) \in Nat /\ b.at = 0
    BY <2>2, ReadsEntries
  <2> HIDE DEF b
  <2>5. 0 <= Len(Reads[b.step]) + K - 1
    BY <2>4, SizeAssumption
  <2>6. Parked'
    BY <2>1 DEF Parked
  <2>7. CASE job' = job
    BY <2>1, <2>2, <2>6, <2>7
  <2>8. CASE job' = [job EXCEPT ![t] = b]
    BY <2>1, <2>2, <2>3, <2>4, <2>5, <2>6, <2>8
  <2>9. QED
    BY <2>1, <2>7, <2>8
<1>5. ASSUME NEW t \in Thread, Load(t) PROVE Types'
  <2>1. PICK i \in Idx, at \in Nat, v \in [Rhs -> Int] :
          /\ phase = "parallel" /\ at <= Len(Reads[i])
          /\ job' = [job EXCEPT ![t] = [step |-> i, at |-> at, xvals |-> v]]
          /\ moved' = IF at < Len(Reads[i]) THEN moved
                      ELSE [moved EXCEPT ![i] =
                              [c \in Rhs |-> @[c] + Correction(v[c], i)]]
          /\ UNCHANGED <<phase, sweepsLeft, sweeps, steps, x, X, ret, start>>
    BY <1>5, LoadReads
  <2> DEFINE b == [step |-> i, at |-> at, xvals |-> v]
  <2>2. b \in Job /\ b.step = i /\ b.at = at
    BY DEF Job
  <2>3. at <= Len(Reads[i]) + K - 1
    BY <2>1, ReadsEntries, SizeAssumption
  <2>4. moved' \in Matrix
    <3>1. \A c \in Rhs : Correction(v[c], i) \in Int
      BY CorrectionType
    <3>2. moved[i] \in [Rhs -> Int]
      BY DEF Matrix
    <3>3. [c \in Rhs |-> moved[i][c] + Correction(v[c], i)] \in [Rhs -> Int]
      BY <3>1, <3>2
    <3>4. QED
      BY <2>1, <3>3 DEF Matrix
  <2>5. job' = [job EXCEPT ![t] = b]
    BY <2>1
  <2> HIDE DEF b
  <2>6. Parked'
    BY <2>1 DEF Parked
  <2>7. QED
    BY <2>1, <2>2, <2>3, <2>4, <2>5, <2>6
<1>6. ASSUME NEW t \in Thread, Add(t) PROVE Types'
  <2>1. PICK i \in Idx, r \in Rhs :
          /\ i = job[t].step /\ job[t].at + 1 - Len(Reads[i]) = r
          /\ Len(Reads[i]) \in Nat
          /\ job[t] \in Job /\ phase = "parallel"
          /\ x' = [x EXCEPT ![i][r] = @ + Correction(job[t].xvals[r], i)]
          /\ job' = [job EXCEPT ![t] = Left(job[t], r)]
          /\ UNCHANGED <<phase, sweepsLeft, sweeps, steps, X, ret, start, moved>>
    BY <1>6, AddWrites
  <2> DEFINE b == Left(job[t], r)
  <2>2. b # Idle => b \in Job /\ b.step = i /\ b.at = job[t].at + 1 /\ r # K
    BY <2>1 DEF Job, Left
  <2>3. b # Idle => b.at <= Len(Reads[i]) + K - 1
    <3>1. r \in 1 .. K /\ job[t].at \in Nat
      BY <2>1 DEF Rhs, Job
    <3> DEFINE n == Len(Reads[i])
               a == job[t].at
    <3>2. n \in Nat /\ a \in Nat /\ a + 1 - n = r /\ r <= K /\ K \in Nat
      BY <2>1, <3>1, SizeAssumption
    <3> HIDE DEF b, n, a
    <3>3. r # K => a + 1 <= n + K - 1
      BY <3>1, <3>2
    <3>4. QED
      BY <2>2, <3>3 DEF n, a
  <2>4. x' \in Matrix
    <3>1. Correction(job[t].xvals[r], i) \in Int
      BY <2>1, CorrectionType DEF Job
    <3>2. x[i] \in [Rhs -> Int] /\ x[i][r] \in Int
      BY DEF Matrix
    <3>3. [x[i] EXCEPT ![r] = @ + Correction(job[t].xvals[r], i)] \in [Rhs -> Int]
      BY <3>1, <3>2
    <3>4. QED
      BY <2>1, <3>3 DEF Matrix
  <2>5. job' = [job EXCEPT ![t] = b]
    BY <2>1
  <2> HIDE DEF b
  <2>6. Parked'
    BY <2>1 DEF Parked
  <2>7. QED
    BY <2>1, <2>2, <2>3, <2>4, <2>5, <2>6
<1>7. CASE UNCHANGED vars
  BY <1>7 DEF vars, Parked
<1> QED
  BY <1>1, <1>2, <1>3, <1>4, <1>5, <1>6, <1>7 DEF Next

(* Type correctness, for every matrix, every choice of coordinates and any *)
(* number of threads; in particular the solver never meets a thread that   *)
(* is still in a step.                                                     *)
THEOREM WellTyped == Spec => []TypeOK
<1>1. Types => TypeOK
  <2> SUFFICES ASSUME Types, NEW t \in Thread, job[t] # Idle
               PROVE  /\ job[t].step \in Idx
                      /\ job[t].at \in 0 .. Len(Reads[job[t].step]) + K - 1
    BY DEF Types, TypeOK, Parked
  <2>1. job[t] \in Job
    BY DEF Types
  <2>2. Len(Reads[job[t].step]) \in Nat
    BY <2>1, ReadsEntries DEF Job
  <2>3. QED
    BY <2>1, <2>2, SizeAssumption DEF Types, Job
<1>2. Types /\ [Next]_vars => Types'
  BY StepTypes
<1>3. QED
  BY InitTypes, <1>1, <1>2, PTL DEF Spec
-----------------------------------------------------------------------------
(***************************************************************************)
(* No update is lost.  Between the decision on its corrections and the     *)
(* last of its additions a thread owes some of them to X; what all threads *)
(* owe an entry is what the entry is still short of.                       *)
(***************************************************************************)
Owed(b, i, r) ==
  IF b # Idle /\ b.step = i /\ b.at >= Len(Reads[i]) /\ b.at + 1 - Len(Reads[i]) <= r
  THEN Correction(b.xvals[r], i) ELSE 0

Debts(i, r) == [t \in Thread |-> Owed(job[t], i, r)]

Booked ==
  \A i \in Idx, r \in Rhs :
    \E L : /\ Ledger(L, Thread, Debts(i, r))
           /\ x[i][r] + L[Thread] = start[i][r] + moved[i][r]

LostInv == Types /\ Booked

LEMMA OwedType ==
  ASSUME NEW b \in {Idle} \cup Job, NEW i \in Idx, NEW r \in Rhs
  PROVE  Owed(b, i, r) \in Int
BY CorrectionType DEF Owed, Job

LEMMA DebtsType ==
  ASSUME Types, NEW i \in Idx, NEW r \in Rhs
  PROVE  Debts(i, r) \in [Thread -> Int]
BY OwedType DEF Types, Debts

LEMMA MatrixEntry ==
  ASSUME NEW m \in Matrix, NEW i \in Idx, NEW r \in Rhs
  PROVE  m[i] \in [Rhs -> Int] /\ m[i][r] \in Int
BY DEF Matrix

LEMMA MatrixExcept ==
  ASSUME NEW m \in Matrix, NEW i \in Idx, NEW r \in Rhs, NEW e,
         NEW k \in Idx, NEW c \in Rhs
  PROVE  [m EXCEPT ![i][r] = e][k][c] =
           IF k = i /\ c = r THEN e ELSE m[k][c]
<1>1. m[i] \in [Rhs -> Int] /\ m \in [Idx -> [Rhs -> Int]]
  BY DEF Matrix
<1>2. QED
  BY <1>1

(* A step after which one thread owes less by what an entry has gained, or *)
(* more by what has been decided on.                                       *)
Balances(t, b) ==
  \A i \in Idx, r \in Rhs :
    (x'[i][r] - x[i][r]) + (Owed(b, i, r) - Owed(job[t], i, r))
      = moved'[i][r] - moved[i][r]

LEMMA StaysBooked ==
  ASSUME LostInv, Types', NEW t \in Thread, NEW b \in {Idle} \cup Job,
         job' = [job EXCEPT ![t] = b], start' = start, Balances(t, b)
  PROVE  Booked'
<1> USE DEF LostInv
<1> SUFFICES ASSUME NEW i \in Idx, NEW r \in Rhs
             PROVE  \E L : /\ Ledger(L, Thread, Debts(i, r)')
                           /\ x'[i][r] + L[Thread] = start'[i][r] + moved'[i][r]
  BY DEF Booked
<1>1. PICK L : /\ Ledger(L, Thread, Debts(i, r))
               /\ x[i][r] + L[Thread] = start[i][r] + moved[i][r]
  BY DEF Booked
<1> DEFINE d == Owed(b, i, r) - Owed(job[t], i, r)
           f == Debts(i, r)
           g == Debts(i, r)'
<1>2. f \in [Thread -> Int] /\ g \in [Thread -> Int]
  <2>1. f \in [Thread -> Int]
    BY DebtsType
  <2>2. \A u \in Thread : job'[u] \in {Idle} \cup Job
    BY DEF Types
  <2>3. \A u \in Thread : Owed(job'[u], i, r) \in Int
    BY <2>2, OwedType
  <2>4. QED
    BY <2>1, <2>3 DEF Debts
<1>3. job'[t] = b /\ \A u \in Thread \ {t} : job'[u] = job[u]
  BY DEF Types
<1>4. /\ Owed(b, i, r) \in Int /\ Owed(job[t], i, r) \in Int
      /\ g[t] = Owed(b, i, r) /\ f[t] = Owed(job[t], i, r)
      /\ \A u \in Thread \ {t} : g[u] = f[u]
  BY <1>3, OwedType DEF Types, Debts
<1>5. d \in Int /\ g[t] = f[t] + d
  BY <1>4
<1>6. /\ x[i][r] \in Int /\ x'[i][r] \in Int /\ moved[i][r] \in Int
      /\ moved'[i][r] \in Int /\ start[i][r] \in Int /\ start'[i][r] = start[i][r]
      /\ L[Thread] \in Int
  <2>1. L[Thread] \in Int
    BY <1>1 DEF Ledger
  <2>2. QED
    BY <2>1, MatrixEntry DEF Types
<1>7. (x'[i][r] - x[i][r]) + d = moved'[i][r] - moved[i][r]
  BY DEF Balances
<1> HIDE DEF d, f, g
<1>8. PICK M : Ledger(M, Thread, g) /\ M[Thread] = L[Thread] + d
  <2>1. Ledger(L, Thread, f)
    BY <1>1 DEF f
  <2>2. QED
    BY <1>2, <1>4, <1>5, <2>1, LedgerShift
<1>9. x'[i][r] + M[Thread] = start'[i][r] + moved'[i][r]
  BY <1>1, <1>5, <1>6, <1>7, <1>8
<1>10. QED
  BY <1>8, <1>9 DEF g

LEMMA BookedUnchanged ==
  ASSUME Booked, UNCHANGED <<job, x, start, moved>>
  PROVE  Booked'
BY DEF Booked, Debts

LEMMA NothingOwed ==
  ASSUME Types, phase # "parallel", NEW i \in Idx, NEW r \in Rhs
  PROVE  \A t \in Thread : Debts(i, r)[t] = 0
BY DEF Types, Parked, Debts, Owed

LEMMA InitBooked == Init => Booked
<1> SUFFICES ASSUME Init, NEW i \in Idx, NEW r \in Rhs
             PROVE  \E L : /\ Ledger(L, Thread, Debts(i, r))
                           /\ x[i][r] + L[Thread] = start[i][r] + moved[i][r]
  BY DEF Booked
<1>1. Types /\ phase = "draw" /\ x = start /\ moved = Zero
  BY InitTypes DEF Init
<1>2. Debts(i, r) = [t \in Thread |-> 0]
  BY <1>1, NothingOwed DEF Debts
<1> DEFINE L == [T \in SUBSET Thread |-> 0]
<1>3. Ledger(L, Thread, Debts(i, r)) /\ L[Thread] = 0
  BY <1>2, LedgerOfZero
<1>4. x[i][r] \in Int /\ moved[i][r] = 0
  BY <1>1 DEF Types, Matrix, Zero
<1> HIDE DEF L
<1>5. QED
  BY <1>1, <1>3, <1>4

LEMMA StepBooked ==
  ASSUME LostInv, [Next]_vars
  PROVE  Booked'
<1> USE DEF LostInv
<1>1. Types'
  BY StepTypes
<1>2. CASE Draw
  <2> SUFFICES ASSUME NEW i \in Idx, NEW r \in Rhs
               PROVE  \E L : /\ Ledger(L, Thread, Debts(i, r)')
                             /\ x'[i][r] + L[Thread] = start'[i][r] + moved'[i][r]
    BY DEF Booked
  <2>1. phase = "draw" /\ job' = job /\ x' = x /\ start' = x /\ moved' = Zero
    BY <1>2 DEF Draw
  <2>2. Debts(i, r)' = [t \in Thread |-> 0]
    BY <2>1, NothingOwed DEF Debts
  <2> DEFINE L == [T \in SUBSET Thread |-> 0]
  <2>3. Ledger(L, Thread, Debts(i, r)') /\ L[Thread] = 0
    BY <2>2, LedgerOfZero
  <2>4. x[i][r] \in Int /\ moved'[i][r] = 0
    BY <2>1 DEF Types, Matrix, Zero
  <2> HIDE DEF L
  <2>5. QED
    BY <2>1, <2>3, <2>4
<1>3. ASSUME NEW t \in Thread, Begin(t) PROVE Booked'
  <2> DEFINE b == [step |-> Head(steps), at |-> 0, xvals |-> B[Head(steps)]]
  <2>1. /\ job[t] = Idle /\ steps # << >>
        /\ UNCHANGED <<x, start, moved>>
        /\ job' = job \/ (job' = [job EXCEPT ![t] = b]
                            /\ Stored[Head(steps)] # << >>)
    BY <1>3 DEF Begin
  <2>2. CASE job' = job
    BY <2>1, <2>2, BookedUnchanged
  <2>3. CASE job' = [job EXCEPT ![t] = b] /\ Stored[Head(steps)] # << >>
    <3>1. Head(steps) \in Idx
      BY <2>1 DEF Types
    <3>2. Len(Reads[Head(steps)]) \in Nat /\ Len(Reads[Head(steps)]) > 0
      BY <2>3, <3>1, ReadsEntries
    <3>3. b \in Job /\ b.step = Head(steps) /\ b.at = 0
      BY <3>1, DataAssumption DEF Job, Matrix
    <3> HIDE DEF b
    <3>4. ASSUME NEW i \in Idx, NEW r \in Rhs
          PROVE  (x'[i][r] - x[i][r]) + (Owed(b, i, r) - Owed(job[t], i, r))
                   = moved'[i][r] - moved[i][r]
      <4>1. Owed(b, i, r) = 0 /\ Owed(job[t], i, r) = 0
        BY <2>1, <3>2, <3>3 DEF Owed
      <4>2. x[i][r] \in Int /\ moved[i][r] \in Int
        BY DEF Types, Matrix
      <4>3. QED
        BY <2>1, <4>1, <4>2
    <3>5. Balances(t, b)
      BY <3>4 DEF Balances
    <3>6. QED
      BY <1>1, <2>1, <2>3, <3>3, <3>5, StaysBooked
  <2>4. QED
    BY <2>1, <2>2, <2>3
<1>4. ASSUME NEW t \in Thread, Load(t) PROVE Booked'
  <2>1. PICK i \in Idx, at \in Nat, v \in [Rhs -> Int] :
          /\ i = job[t].step /\ at = job[t].at + 1
          /\ job[t] \in Job /\ at <= Len(Reads[i])
          /\ job' = [job EXCEPT ![t] = [step |-> i, at |-> at, xvals |-> v]]
          /\ moved' = IF at < Len(Reads[i]) THEN moved
                      ELSE [moved EXCEPT ![i] =
                              [c \in Rhs |-> @[c] + Correction(v[c], i)]]
          /\ UNCHANGED <<x, start>>
    BY <1>4, LoadReads
  <2> DEFINE b == [step |-> i, at |-> at, xvals |-> v]
  <2>2. b \in Job /\ b # Idle /\ b.step = i /\ b.at = at /\ b.xvals = v
    BY NotIdle DEF Job
  <2>3. job' = [job EXCEPT ![t] = b]
    BY <2>1
  <2> HIDE DEF b
  <2>4. Len(Reads[i]) \in Nat /\ job[t].at \in Nat
    BY <2>1, ReadsEntries DEF Job
  <2>5. ASSUME NEW k \in Idx, NEW r \in Rhs
        PROVE  (x'[k][r] - x[k][r]) + (Owed(b, k, r) - Owed(job[t], k, r))
                 = moved'[k][r] - moved[k][r]
    <3>1. Owed(job[t], k, r) = 0
      BY <2>1, <2>4 DEF Owed
    <3>2. x[k][r] \in Int /\ moved[k][r] \in Int /\ x' = x
      BY <2>1 DEF Types, Matrix
    <3>3. CASE k = i /\ at = Len(Reads[i])
      <4>1. Owed(b, k, r) = Correction(v[r], i) /\ Correction(v[r], i) \in Int
        <5>1. at + 1 - Len(Reads[i]) <= r /\ at >= Len(Reads[i])
          BY <2>4, <3>3, SizeAssumption DEF Rhs
        <5>2. QED
          BY <2>2, <3>3, <5>1, CorrectionType DEF Owed
      <4>2. moved'[k][r] = moved[k][r] + Correction(v[r], i)
        BY <2>1, <2>4, <3>3 DEF Types, Matrix
      <4>3. QED
        BY <3>1, <3>2, <4>1, <4>2
    <3>4. CASE k # i \/ at # Len(Reads[i])
      <4>1. Owed(b, k, r) = 0
        BY <2>1, <2>2, <2>4, <3>4 DEF Owed
      <4>2. moved'[k][r] = moved[k][r]
        BY <2>1, <2>4, <3>4 DEF Types, Matrix
      <4>3. QED
        BY <3>1, <3>2, <4>1, <4>2
    <3>5. QED
      BY <3>3, <3>4
  <2>6. Balances(t, b)
    BY <2>5 DEF Balances
  <2>7. QED
    BY <1>1, <2>1, <2>2, <2>3, <2>6, StaysBooked
<1>5. ASSUME NEW t \in Thread, Add(t) PROVE Booked'
  <2>1. PICK i \in Idx, r \in Rhs :
          /\ i = job[t].step /\ job[t].at + 1 - Len(Reads[i]) = r
          /\ Len(Reads[i]) \in Nat
          /\ job[t] \in Job
          /\ x' = [x EXCEPT ![i][r] = @ + Correction(job[t].xvals[r], i)]
          /\ job' = [job EXCEPT ![t] = Left(job[t], r)]
          /\ UNCHANGED <<start, moved>>
    BY <1>5, AddWrites
  <2> DEFINE b == Left(job[t], r)
             v == job[t].xvals
  <2>2. /\ b \in {Idle} \cup Job
        /\ r = K => b = Idle
        /\ r # K => b # Idle /\ b.step = i /\ b.at = job[t].at + 1 /\ b.xvals = v
    BY <2>1, NotIdle DEF Left, Job
  <2>3. job' = [job EXCEPT ![t] = b]
    BY <2>1
  <2>4. r \in Int /\ r >= 1 /\ r <= K /\ job[t].at \in Nat /\ v \in [Rhs -> Int]
          /\ job[t] # Idle
    BY <2>1, NotIdle DEF Rhs, Job
  <2> HIDE DEF b, v
  <2>5. ASSUME NEW k \in Idx, NEW c \in Rhs
        PROVE  (x'[k][c] - x[k][c]) + (Owed(b, k, c) - Owed(job[t], k, c))
                 = moved'[k][c] - moved[k][c]
    <3>1. x[k][c] \in Int /\ moved[k][c] \in Int /\ moved' = moved
            /\ c \in Int /\ c <= K
      <4>1. c \in Int /\ c <= K
        BY SizeAssumption DEF Rhs
      <4>2. QED
        BY <2>1, <4>1, MatrixEntry DEF Types
    <3> DEFINE e == x[i][r] + Correction(v[r], i)
    <3>5. x'[k][c] = IF k = i /\ c = r THEN e ELSE x[k][c]
      <4>1. x' = [x EXCEPT ![i][r] = e]
        BY <2>1 DEF v
      <4> HIDE DEF e
      <4>2. PICK f : f = e /\ x' = [x EXCEPT ![i][r] = f]
        BY <4>1
      <4>3. x \in Matrix
        BY DEF Types
      <4>4. [x EXCEPT ![i][r] = f][k][c] =
              IF k = i /\ c = r THEN f ELSE x[k][c]
        BY <4>3, MatrixExcept
      <4>5. QED
        BY <4>2, <4>4
    <3>6. \A q \in Rhs : Correction(v[q], i) \in Int
      BY <2>4, CorrectionType
    <3>2. CASE k # i \/ c < r
      <4>1. Owed(job[t], k, c) = 0
        BY <2>1, <2>4, <3>1, <3>2 DEF Owed
      <4>2. Owed(b, k, c) = 0
        <5>1. CASE b = Idle
          BY <5>1 DEF Owed
        <5>2. CASE b # Idle
          <6>1. b.step = i /\ b.at = job[t].at + 1
            BY <2>2, <5>2
          <6> DEFINE n == Len(Reads[i])
                     a == job[t].at
          <6>2. n \in Nat /\ a \in Nat /\ a + 1 - n = r
            BY <2>1, <2>4
          <6> HIDE DEF n, a
          <6>3. a + 1 + 1 - n = r + 1
            BY <2>4, <6>2
          <6>4. ~ (b.step = k /\ b.at + 1 - Len(Reads[k]) <= c)
            <7>1. CASE k # i
              BY <6>1, <7>1
            <7>2. CASE k = i /\ c < r
              <8>1. b.at + 1 - Len(Reads[k]) = r + 1
                BY <6>1, <6>3, <7>2 DEF n, a
              <8>2. QED
                BY <2>4, <3>1, <7>2, <8>1
            <7>3. QED
              BY <3>2, <7>1, <7>2
          <6>5. QED
            BY <6>4 DEF Owed
        <5>3. QED
          BY <5>1, <5>2
      <4>3. x'[k][c] = x[k][c]
        BY <2>4, <3>1, <3>2, <3>5
      <4>4. QED
        BY <3>1, <4>1, <4>2, <4>3
    <3>3. CASE k = i /\ c = r
      <4>1. Owed(job[t], k, c) = Correction(v[r], i)
              /\ Correction(v[r], i) \in Int
        BY <2>1, <2>4, <3>1, <3>3, <3>6 DEF Owed, v
      <4>2. Owed(b, k, c) = 0
        BY <2>1, <2>2, <2>4, <3>1, <3>3 DEF Owed
      <4>3. x'[k][c] = x[k][c] + Correction(v[r], i)
        BY <3>3, <3>5
      <4>4. QED
        BY <3>1, <4>1, <4>2, <4>3
    <3>4. CASE k = i /\ c > r
      <4>1. Owed(job[t], k, c) = Correction(v[c], i)
              /\ Correction(v[c], i) \in Int
        BY <2>1, <2>4, <3>1, <3>4, <3>6 DEF Owed, v
      <4>2. Owed(b, k, c) = Correction(v[c], i)
        <5>1. r # K
          BY <2>4, <3>1, <3>4
        <5>2. b # Idle /\ b.step = i /\ b.xvals = v /\ b.at = job[t].at + 1
          BY <2>2, <5>1
        <5>3. b.at >= Len(Reads[i]) /\ b.at + 1 - Len(Reads[i]) <= c
          <6> DEFINE n == Len(Reads[i])
                     a == job[t].at
          <6>1. /\ n \in Nat /\ a \in Nat /\ a + 1 - n = r
                /\ r \in Int /\ c \in Int /\ r >= 1 /\ c > r /\ b.at = a + 1
            BY <2>1, <2>4, <3>1, <3>4, <5>2
          <6> HIDE DEF n, a
          <6>2. a + 1 >= n /\ a + 1 + 1 - n <= c
            BY <6>1
          <6>3. QED
            BY <6>1, <6>2 DEF n
        <5>4. QED
          BY <3>4, <5>2, <5>3 DEF Owed
      <4>3. x'[k][c] = x[k][c]
        BY <2>4, <3>1, <3>4, <3>5
      <4>4. QED
        BY <3>1, <4>1, <4>2, <4>3
    <3>7. QED
      BY <2>4, <3>1, <3>2, <3>3, <3>4
  <2>6. Balances(t, b)
    BY <2>5 DEF Balances
  <2>7. QED
    BY <1>1, <2>1, <2>2, <2>3, <2>6, StaysBooked
<1>6. CASE Test \/ GiveUp \/ UNCHANGED vars
  <2>1. UNCHANGED <<job, x, start, moved>>
    BY <1>6 DEF Test, GiveUp, vars
  <2>2. QED
    BY <2>1, BookedUnchanged
<1>7. QED
  BY <1>2, <1>3, <1>4, <1>5, <1>6 DEF Next

(* Whenever the threads meet, X has moved by exactly the corrections they  *)
(* decided on: the atomic addition at the end of jstep and jstep1, the     *)
(* barrier that ends the loop.                                             *)
THEOREM UpdatesArrive == Spec => []NoneLost
<1>1. Init => LostInv
  BY InitTypes, InitBooked DEF LostInv
<1>2. LostInv /\ [Next]_vars => LostInv'
  BY StepTypes, StepBooked DEF LostInv
<1>3. LostInv => NoneLost
  <2> SUFFICES ASSUME LostInv, phase # "parallel", NEW i \in Idx, NEW r \in Rhs
               PROVE  x[i][r] = start[i][r] + moved[i][r]
    BY DEF NoneLost
  <2>1. PICK L : /\ Ledger(L, Thread, Debts(i, r))
                 /\ x[i][r] + L[Thread] = start[i][r] + moved[i][r]
    BY DEF LostInv, Booked
  <2>2. L[Thread] = 0
    <3>1. \A t \in Thread : Debts(i, r)[t] = 0
      BY NothingOwed DEF LostInv
    <3>2. Thread \in SUBSET Thread
      OBVIOUS
    <3>3. QED
      BY <2>1, <3>1, <3>2, LedgerNull, ThreadAssumption
  <2>3. x[i][r] \in Int
    BY DEF LostInv, Types, Matrix
  <2>4. QED
    BY <2>1, <2>2, <2>3
<1>4. QED
  BY <1>1, <1>2, <1>3, PTL DEF Spec
-----------------------------------------------------------------------------
(***************************************************************************)
(* A solution is a fixed point.  As long as X is the solution, what a step *)
(* has accumulated for a right-hand side is B less the terms of the rows   *)
(* it has read for it, and after the last row that is the residual, zero.  *)
(***************************************************************************)
Terms(y, i, r) == [j \in Idx |-> A[j][i] * y[j][r]]

(* The sum of the terms over every set of rows.                            *)
Book(y, i, r) == CHOOSE L : Ledger(L, Idx, Terms(y, i, r))

(* The rows read for right-hand side r by the first n reads of a step.     *)
Done(i, n, r) ==
  {j \in Idx : \E p \in 1 .. Len(Reads[i]) : p <= n /\ Reads[i][p] = <<j, r>>}

(* What a step has accumulated, reading the matrix y.                      *)
Accumulates(b, y) ==
  b # Idle => \A r \in Rhs :
    b.xvals[r] = B[b.step][r] - Book(y, b.step, r)[Done(b.step, b.at, r)]

Settled ==
  Solves(start) => x = start /\ \A t \in Thread : Accumulates(job[t], start)

FixedInv == Types /\ Settled

LEMMA BookIsLedger ==
  ASSUME NEW y \in Matrix, NEW i \in Idx, NEW r \in Rhs
  PROVE  Ledger(Book(y, i, r), Idx, Terms(y, i, r))
<1>1. IsFiniteSet(Idx)
  BY FS_Interval, SizeAssumption DEF Idx
<1>2. Terms(y, i, r) \in [Idx -> Int]
  <2>1. \A j \in Idx : A[j][i] \in Int /\ y[j][r] \in Int
    BY DataAssumption DEF Matrix
  <2>2. QED
    BY <2>1 DEF Terms
<1>3. QED
  BY <1>1, <1>2, LedgerExists DEF Book

LEMMA BookType ==
  ASSUME NEW y \in Matrix, NEW i \in Idx, NEW r \in Rhs
  PROVE  /\ \A T \in SUBSET Idx : Book(y, i, r)[T] \in Int
         /\ Book(y, i, r)[{}] = 0
         /\ \A T \in SUBSET Idx : \A j \in Idx \ T :
              Book(y, i, r)[T \cup {j}] = Book(y, i, r)[T] + A[j][i] * y[j][r]
BY BookIsLedger DEF Ledger, Terms

(* Nothing has been read by no reads.                                      *)
LEMMA DoneNone ==
  ASSUME NEW i \in Idx, NEW r \in Rhs
  PROVE  Done(i, 0, r) = {}
BY ReadsEntries DEF Done

(* A read adds its row to those of its right-hand side.                    *)
LEMMA DoneNext ==
  ASSUME NEW i \in Idx, NEW n \in Nat, n + 1 <= Len(Reads[i]),
         NEW j \in Idx, NEW r \in Rhs, Reads[i][n + 1] = <<j, r>>,
         NEW c \in Rhs
  PROVE  /\ c = r => /\ j \notin Done(i, n, c)
                     /\ Done(i, n + 1, c) = Done(i, n, c) \cup {j}
         /\ c # r => Done(i, n + 1, c) = Done(i, n, c)
<1> DEFINE m == Len(Reads[i])
<1>1. m \in Nat /\ n + 1 \in 1 .. m
  BY ReadsEntries
<1>2. \A p \in 1 .. m : p <= n + 1 <=> p <= n \/ p = n + 1
  BY <1>1
<1>3. \A p \in 1 .. m : Reads[i][p] = Reads[i][n + 1] => p = n + 1
  BY <1>1, ReadsEntries
<1>4. ~ (n + 1 <= n)
  OBVIOUS
<1> HIDE DEF m
<1>5. ASSUME c = r
      PROVE  j \notin Done(i, n, c) /\ Done(i, n + 1, c) = Done(i, n, c) \cup {j}
  BY <1>1, <1>2, <1>3, <1>4, <1>5 DEF Done, m
<1>6. ASSUME c # r
      PROVE  Done(i, n + 1, c) = Done(i, n, c)
  BY <1>1, <1>2, <1>6 DEF Done, m
<1>7. QED
  BY <1>5, <1>6

(* All rows have been read once the reads are over.                        *)
LEMMA DoneAll ==
  ASSUME NEW i \in Idx, NEW n \in Nat, n >= Len(Reads[i]), NEW r \in Rhs
  PROVE  Done(i, n, r) = Rows(i)
<1>1. Len(Reads[i]) \in Nat
  BY ReadsEntries
<1>2. \A p \in 1 .. Len(Reads[i]) : p <= n
  BY <1>1
<1>3. Rows(i) \subseteq Done(i, n, r)
  BY <1>2, ReadsEntries DEF Done, Rows
<1>4. ASSUME NEW j \in Done(i, n, r) PROVE j \in Rows(i)
  <2>1. PICK p \in 1 .. Len(Reads[i]) : Reads[i][p] = <<j, r>>
    BY DEF Done
  <2>2. Reads[i][p] \in Rows(i) \X Rhs
    BY ReadsEntries
  <2>3. QED
    BY <2>1, <2>2
<1>5. QED
  BY <1>3, <1>4

(* What is left of B after all rows is the residual.                       *)
LEMMA RestIsResidual ==
  ASSUME NEW y \in Matrix, NEW i \in Idx, NEW r \in Rhs
  PROVE  Residual(y, i, r) = B[i][r] - Book(y, i, r)[Rows(i)]
<1> DEFINE L == Book(y, i, r)
           f == Terms(y, i, r)
<1>1. IsFiniteSet(Idx)
  BY FS_Interval, SizeAssumption DEF Idx
<1>2. Ledger(L, Idx, f)
  BY BookIsLedger
<1>3. Rows(i) \in SUBSET Idx /\ \A j \in Idx \ Rows(i) : f[j] = 0
  <2>1. ASSUME NEW j \in Idx \ Rows(i) PROVE f[j] = 0
    <3>1. A[j][i] = 0 /\ y[j][r] \in Int
      BY DEF Rows, Matrix
    <3>2. QED
      BY <3>1 DEF Terms
  <2>2. QED
    BY <2>1 DEF Rows
<1>4. Residual(y, i, r) = B[i][r] - SumFunction(f)
  BY DEF Residual, Terms
<1> HIDE DEF L, f
<1>5. L[Rows(i)] = L[Idx]
  BY <1>1, <1>2, <1>3, LedgerRest
<1>6. SumFunction(f) = L[Idx]
  BY <1>1, <1>2, SumIsLedger
<1>7. QED
  BY <1>4, <1>5, <1>6 DEF L

(* So a step that has read all rows of the solution corrects nothing.      *)
LEMMA NothingToAdd ==
  ASSUME Types, NEW b \in Job, NEW r \in Rhs, Solves(start),
         Accumulates(b, start), b.at >= Len(Reads[b.step])
  PROVE  Correction(b.xvals[r], b.step) = 0
<1> DEFINE i == b.step
<1>1. i \in Idx /\ b.at \in Nat /\ start \in Matrix /\ b # Idle
  BY NotIdle DEF Job, Types
<1>2. b.xvals[r] = B[i][r] - Book(start, i, r)[Done(i, b.at, r)]
  BY <1>1 DEF Accumulates
<1> HIDE DEF i
<1>3. b.xvals[r] = Residual(start, i, r)
  <2>1. b.at >= Len(Reads[i])
    BY DEF i
  <2>2. QED
    BY <1>1, <1>2, <2>1, DoneAll, RestIsResidual
<1>4. b.xvals[r] = 0
  BY <1>1, <1>3 DEF Solves
<1>5. Diag(i) \in Int /\ Diag(i) # 0
  BY <1>1, DataAssumption DEF Diag
<1>6. Correction(0, i) = 0
  <2>1. CASE Diag(i) > 0
    BY <1>5, <2>1 DEF Correction
  <2>2. CASE - Diag(i) > 0 /\ ~ (Diag(i) > 0)
    BY <1>5, <2>2 DEF Correction
  <2>3. QED
    BY <1>5, <2>1, <2>2
<1>7. QED
  BY <1>4, <1>6 DEF i

LEMMA InitSettled == Init => Settled
BY DEF Init, Settled, Accumulates

LEMMA StepSettled ==
  ASSUME FixedInv, [Next]_vars
  PROVE  Settled'
<1> USE DEF FixedInv
<1>1. CASE Draw
  <2>1. start' = x /\ x' = x /\ \A t \in Thread : job'[t] = Idle
    BY <1>1 DEF Draw, Types, Parked
  <2>2. QED
    BY <2>1 DEF Settled, Accumulates
<1> SUFFICES ASSUME start' = start, Solves(start), ~ Draw
             PROVE  x' = start /\ \A t \in Thread : Accumulates(job'[t], start)
  <2>1. ~ Draw => start' = start
    BY DEF Next, vars, Test, GiveUp, Begin, Load, Add
  <2>2. start' = start => Solves(start)' = Solves(start)
    BY DEF Solves, Residual
  <2>3. QED
    BY <1>1, <2>1, <2>2 DEF Settled, Accumulates
<1>2. x = start /\ \A t \in Thread : Accumulates(job[t], start)
  BY DEF Settled
<1>3. start \in Matrix /\ job \in [Thread -> {Idle} \cup Job]
  BY DEF Types
(* One thread steps, and what it has accumulated is right.                 *)
<1>4. ASSUME NEW t \in Thread, NEW b, job' = [job EXCEPT ![t] = b], x' = x,
             Accumulates(b, start)
      PROVE  x' = start /\ \A u \in Thread : Accumulates(job'[u], start)
  <2>1. \A u \in Thread : job'[u] = IF u = t THEN b ELSE job[u]
    BY <1>3, <1>4
  <2>2. \A u \in Thread : Accumulates(job'[u], start)
    BY <1>2, <1>4, <2>1
  <2>3. QED
    BY <1>2, <1>4, <2>2
<1>5. ASSUME NEW t \in Thread, Begin(t)
      PROVE  x' = start /\ \A u \in Thread : Accumulates(job'[u], start)
  <2> DEFINE i == Head(steps)
             b == [step |-> i, at |-> 0, xvals |-> B[i]]
  <2>1. i \in Idx /\ x' = x
    BY <1>5 DEF Begin, Types
  <2>2. CASE job' = job
    BY <1>2, <2>1, <2>2
  <2>3. CASE job' = [job EXCEPT ![t] = b]
    <3> HIDE DEF i
    <3>1. ASSUME NEW r \in Rhs
          PROVE  B[i][r] = B[i][r] - Book(start, i, r)[Done(i, 0, r)]
      <4>1. Done(i, 0, r) = {}
        BY <2>1, DoneNone
      <4>4. Book(start, i, r)[{}] = 0
        BY <1>3, <2>1, BookType
      <4>2. B[i][r] \in Int
        BY <2>1, DataAssumption, MatrixEntry
      <4>3. QED
        BY <4>1, <4>2, <4>4
    <3>2. Accumulates(b, start)
      BY <3>1 DEF Accumulates
    <3> HIDE DEF b
    <3>3. QED
      BY <1>4, <2>1, <2>3, <3>2
  <2>4. QED
    BY <1>5, <2>2, <2>3 DEF Begin
<1>6. ASSUME NEW t \in Thread, Load(t)
      PROVE  x' = start /\ \A u \in Thread : Accumulates(job'[u], start)
  <2>1. PICK i \in Idx, at \in Nat, j \in Rows(job[t].step), r \in Rhs,
             v \in [Rhs -> Int] :
          /\ i = job[t].step /\ at = job[t].at + 1
          /\ job[t] \in Job /\ phase = "parallel"
          /\ at <= Len(Reads[i]) /\ Reads[i][at] = <<j, r>>
          /\ v = [job[t].xvals EXCEPT ![r] = @ - A[j][i] * x[j][r]]
          /\ job' = [job EXCEPT ![t] = [step |-> i, at |-> at, xvals |-> v]]
          /\ moved' = IF at < Len(Reads[i]) THEN moved
                      ELSE [moved EXCEPT ![i] =
                              [c \in Rhs |-> @[c] + Correction(v[c], i)]]
          /\ UNCHANGED <<phase, sweepsLeft, sweeps, steps, x, X, ret, start>>
    BY <1>6, LoadReads
  <2> DEFINE b == [step |-> i, at |-> at, xvals |-> v]
             w == job[t].xvals
             n == job[t].at
  <2>2. n \in Nat /\ at = n + 1 /\ j \in Idx /\ w \in [Rhs -> Int]
        /\ job[t] # Idle
    BY <2>1, NotIdle DEF Job, Rows
  <2>3. \A c \in Rhs : w[c] = B[i][c] - Book(start, i, c)[Done(i, n, c)]
    BY <1>2, <2>1, <2>2 DEF Accumulates
  <2>4. v = [w EXCEPT ![r] = @ - A[j][i] * start[j][r]]
    BY <1>2, <2>1
  <2> HIDE DEF w, n
  <2>5. ASSUME NEW c \in Rhs
        PROVE  v[c] = B[i][c] - Book(start, i, c)[Done(i, at, c)]
    <3>1. /\ c = r => /\ j \notin Done(i, n, c)
                      /\ Done(i, at, c) = Done(i, n, c) \cup {j}
          /\ c # r => Done(i, at, c) = Done(i, n, c)
      <4>1. n + 1 <= Len(Reads[i]) /\ Reads[i][n + 1] = <<j, r>>
        BY <2>1, <2>2
      <4>2. /\ c = r => /\ j \notin Done(i, n, c)
                        /\ Done(i, n + 1, c) = Done(i, n, c) \cup {j}
            /\ c # r => Done(i, n + 1, c) = Done(i, n, c)
        BY <2>2, <4>1, DoneNext
      <4>3. QED
        BY <2>2, <4>2
    <3>2. Done(i, n, c) \in SUBSET Idx
      BY DEF Done
    <3>3. CASE c = r
      <4>1. Book(start, i, c)[Done(i, at, c)]
              = Book(start, i, c)[Done(i, n, c)] + A[j][i] * start[j][c]
        <5>1. \A T \in SUBSET Idx : \A m \in Idx \ T :
                Book(start, i, c)[T \cup {m}]
                  = Book(start, i, c)[T] + A[m][i] * start[m][c]
          BY <1>3, BookType
        <5>2. Done(i, n, c) \in SUBSET Idx /\ j \in Idx \ Done(i, n, c)
          BY <2>2, <3>1, <3>2, <3>3
        <5>3. Book(start, i, c)[Done(i, n, c) \cup {j}]
                = Book(start, i, c)[Done(i, n, c)] + A[j][i] * start[j][c]
          BY <5>1, <5>2
        <5>4. QED
          BY <3>1, <3>3, <5>3
      <4>2. v[c] = w[c] - A[j][i] * start[j][c]
        BY <2>2, <2>4, <3>3
      <4>3. /\ Book(start, i, c)[Done(i, n, c)] \in Int /\ B[i][c] \in Int
            /\ A[j][i] \in Int /\ start[j][c] \in Int
        BY <1>3, <2>2, <3>2, BookType, DataAssumption, MatrixEntry
      <4>4. w[c] = B[i][c] - Book(start, i, c)[Done(i, n, c)]
        BY <2>3
      <4> DEFINE p == A[j][i] * start[j][c]
                 q == Book(start, i, c)[Done(i, n, c)]
      <4>5. p \in Int
        BY <4>3
      <4> HIDE DEF p, q
      <4>6. B[i][c] - q - p = B[i][c] - (q + p)
        BY <4>3, <4>5 DEF q
      <4>7. QED
        BY <4>1, <4>2, <4>4, <4>6 DEF p, q
    <3>4. CASE c # r
      BY <2>2, <2>3, <2>4, <3>1, <3>4
    <3>5. QED
      BY <3>3, <3>4
  <2>6. Accumulates(b, start)
    BY <2>5 DEF Accumulates
  <2>7. job' = [job EXCEPT ![t] = b]
    BY <2>1
  <2> HIDE DEF b
  <2>8. QED
    BY <1>4, <2>1, <2>6, <2>7
<1>7. ASSUME NEW t \in Thread, Add(t)
      PROVE  x' = start /\ \A u \in Thread : Accumulates(job'[u], start)
  <2>1. PICK i \in Idx, r \in Rhs :
          /\ i = job[t].step /\ job[t].at + 1 - Len(Reads[i]) = r
          /\ Len(Reads[i]) \in Nat
          /\ job[t] \in Job
          /\ x' = [x EXCEPT ![i][r] = @ + Correction(job[t].xvals[r], i)]
          /\ job' = [job EXCEPT ![t] = Left(job[t], r)]
    BY <1>7, AddWrites
  <2>2. job[t].at \in Nat /\ job[t].at >= Len(Reads[i])
    BY <2>1 DEF Job, Rhs
  <2>3. Correction(job[t].xvals[r], i) = 0
    BY <1>2, <2>1, <2>2, NothingToAdd
  <2>4. x' = x
    <3>1. x \in [Idx -> [Rhs -> Int]] /\ x[i] \in [Rhs -> Int] /\ x[i][r] \in Int
      BY MatrixEntry DEF Types, Matrix
    <3>2. x[i][r] + 0 = x[i][r]
      BY <3>1
    <3>3. x' = [x EXCEPT ![i][r] = x[i][r]]
      BY <2>1, <2>3, <3>2
    <3>4. QED
      BY <3>1, <3>3
  <2>5. Accumulates(Left(job[t], r), start)
    <3>1. CASE r = K
      BY <3>1 DEF Left, Accumulates
    <3>2. CASE r # K
      <4> DEFINE n == job[t].at
                 b == Left(job[t], r)
      <4>1. b.step = i /\ b.at = n + 1 /\ b.xvals = job[t].xvals
        BY <2>1, <3>2 DEF Left
      <4>2. n + 1 \in Nat /\ n + 1 >= Len(Reads[i]) /\ job[t] # Idle
        BY <2>1, <2>2, NotIdle
      <4> HIDE DEF b
      <4>3. \A c \in Rhs : job[t].xvals[c]
              = B[i][c] - Book(start, i, c)[Done(i, n, c)]
        BY <1>2, <2>1, <4>2 DEF Accumulates
      <4>4. \A c \in Rhs : Done(i, n, c) = Rows(i) /\ Done(i, n + 1, c) = Rows(i)
        BY <2>2, <4>2, DoneAll
      <4>5. Accumulates(b, start)
        BY <4>1, <4>3, <4>4 DEF Accumulates
      <4>6. QED
        BY <4>5 DEF b
    <3>3. QED
      BY <3>1, <3>2
  <2>6. QED
    BY <1>4, <2>1, <2>4, <2>5
<1>8. CASE Test \/ GiveUp \/ UNCHANGED vars
  <2>1. job' = job /\ x' = x
    BY <1>8 DEF Test, GiveUp, vars
  <2>2. QED
    BY <1>2, <2>1
<1>9. QED
  BY <1>5, <1>6, <1>7, <1>8 DEF Next

(* No interleaving of any steps moves X away from a solution: jstep and    *)
(* jstep1 subtract every stored row of a column from B once, whatever the  *)
(* other threads do meanwhile.                                             *)
THEOREM SolutionKept == Spec => []FixedPoint
<1>1. Init => FixedInv
  BY InitTypes, InitSettled DEF FixedInv
<1>2. FixedInv /\ [Next]_vars => FixedInv'
  BY StepTypes, StepSettled DEF FixedInv
<1>3. FixedInv => FixedPoint
  BY DEF FixedInv, Settled, FixedPoint
<1>4. QED
  BY <1>1, <1>2, <1>3, PTL DEF Spec
=============================================================================
