------------------------------- MODULE AsyRGS -------------------------------
(***************************************************************************)
(* algorithms/asynch/AsyRGS.hpp: asynchronous randomized Gauss-Seidel for  *)
(* A^* X = B.  Rounds of randomly chosen coordinate steps are shared out   *)
(* among OpenMP threads that take no lock: a step reads the entries of X   *)
(* one by one while other threads change them, and only the addition that  *)
(* ends it is atomic.  Between rounds the threads meet, and one of them    *)
(* tests for convergence.                                                  *)
(*                                                                         *)
(* X and B are counted in multiples of a unit small enough for every       *)
(* division by the diagonal to come out even.                              *)
(***************************************************************************)
EXTENDS Integers, Sequences, SequencesExt

CONSTANTS Thread,     \* the OpenMP threads
          N,          \* n, height and width of A
          K,          \* k, width of B and X
          A,          \* A[i][j]; only nonzeros are stored
          B,          \* B[i][r]
          InitialX,   \* the contents X may have on entry
          SweepsLim,  \* sweeps_lim
          SynSweeps,  \* syn_sweeps
          TolSqr      \* square of the tolerance, <<numerator, denominator>>

Idx == 1 .. N
Rhs == 1 .. K
Matrix == [Idx -> [Rhs -> Int]]

ASSUME ThreadAssumption == IsFiniteSet(Thread)
ASSUME SizeAssumption == N \in Nat \ {0} /\ K \in Nat \ {0}
ASSUME DataAssumption == /\ A \in [Idx -> [Idx -> Int]]
                         /\ B \in Matrix
                         /\ InitialX \subseteq Matrix
ASSUME SweepsAssumption == SweepsLim \in Int /\ SynSweeps \in Int
ASSUME TolAssumption == TolSqr \in Nat \X (Nat \ {0})

VARIABLES phase,      \* of the solver: draw, parallel, returned
          sweepsLeft, \* sweeps_left
          sweeps,     \* number of sweeps in this round
          steps,      \* the coordinates of this round no thread has taken
          job,        \* the step each thread is in
          x,          \* X (several right-hand sides: XT) as the threads see it
          X,          \* X as the caller finds it
          ret,        \* what AsyRGS returned
          start,      \* history: x at the beginning of the round
          moved,      \* history: the corrections decided on in this round
          stale       \* history: the columns each thread has read too early

vars == <<phase, sweepsLeft, sweeps, steps, job, x, X, ret, start, moved,
          stale>>

Zero == [i \in Idx |-> [r \in Rhs |-> 0]]

(***************************************************************************)
(* The rows stored in column i, in the order in which indices lists them,  *)
(* and the entries of X a step on i reads, in that order.                  *)
(***************************************************************************)
Stored == [i \in Idx |-> SetToSeq({j \in Idx : A[j][i] # 0})]

Reads == [i \in Idx |-> [p \in 1 .. Len(Stored[i]) * K |->
            <<Stored[i][((p - 1) \div K) + 1], ((p - 1) % K) + 1>>]]

Diag(i) == IF A[i][i] # 0 THEN A[i][i] ELSE 1

(* xvals[r] / diag                                                         *)
Correction(v, i) == IF Diag(i) > 0 THEN v \div Diag(i)
                                   ELSE (- v) \div (- Diag(i))

(* A step: its coordinate, how far it has come, and xvals.                 *)
Idle == [step |-> 0, at |-> 0, xvals |-> [r \in Rhs |-> 0]]

Seen(t) == {Reads[job[t].step][p] :
              p \in 1 .. IF job[t].at <= Len(Reads[job[t].step])
                         THEN job[t].at ELSE Len(Reads[job[t].step])}

(***************************************************************************)
(* The convergence test: the norm of B - A^* X against that of B, for      *)
(* every right-hand side.                                                  *)
(***************************************************************************)
Residual(y, i, r) ==
  B[i][r] - SumFunction([j \in Idx |-> A[j][i] * y[j][r]])

Converged(y) ==
  \A r \in Rhs :
    SumFunction([i \in Idx |-> Residual(y, i, r) * Residual(y, i, r)])
        * TolSqr[2]
      < TolSqr[1] * SumFunction([i \in Idx |-> B[i][r] * B[i][r]])

Init == /\ phase = "draw"
        /\ sweepsLeft = SweepsLim
        /\ sweeps = 0
        /\ steps = << >>
        /\ job = [t \in Thread |-> Idle]
        /\ x \in InitialX
        /\ X = x
        /\ ret = 0
        /\ start = x
        /\ moved = Zero
        /\ stale = [t \in Thread |-> {}]

(***************************************************************************)
(* A round begins: sweeps * n coordinates are drawn from the context.      *)
(***************************************************************************)
Draw ==
  /\ phase = "draw"
  /\ sweepsLeft > 0
  /\ LET now == IF SynSweeps > 0 /\ SynSweeps < sweepsLeft THEN SynSweeps
                ELSE sweepsLeft
     IN  /\ sweeps' = now
         /\ steps' \in [1 .. now * N -> Idx]
  /\ phase' = "parallel"
  /\ start' = x
  /\ moved' = Zero
  /\ UNCHANGED <<sweepsLeft, job, x, X, ret, stale>>

(***************************************************************************)
(* Thread t takes an iteration of the parallel loop.  Every sequence of    *)
(* coordinates may have been drawn, so taking them in order covers every   *)
(* way of sharing the iterations out.  An empty column is skipped.         *)
(***************************************************************************)
Begin(t) ==
  /\ phase = "parallel"
  /\ job[t] = Idle
  /\ steps # << >>
  /\ steps' = Tail(steps)
  /\ \/ /\ Stored[Head(steps)] # << >>
        /\ job' = [job EXCEPT ![t] = [step |-> Head(steps), at |-> 0,
                                      xvals |-> B[Head(steps)]]]
     \/ /\ Stored[Head(steps)] = << >>
        /\ UNCHANGED job
  /\ stale' = [stale EXCEPT ![t] = {}]
  /\ UNCHANGED <<phase, sweepsLeft, sweeps, x, X, ret, start, moved>>

\* mutant: the diagonal entry is taken for the divisor only
LoadSkippingOwn(t) ==
  LET i == job[t].step
      at == job[t].at + 1
  IN  /\ job[t] # Idle
      /\ at <= Len(Reads[i])
      /\ LET j == Reads[i][at][1]
             r == Reads[i][at][2]
             v == [job[t].xvals EXCEPT ![r] =
                     IF j = i THEN @ ELSE @ - A[j][i] * x[j][r]]
         IN  /\ job' = [job EXCEPT ![t] = [step |-> i, at |-> at,
                                           xvals |-> v]]
             /\ moved' = IF at < Len(Reads[i]) THEN moved
                         ELSE [moved EXCEPT ![i] =
                                 [c \in Rhs |-> @[c] + Correction(v[c], i)]]
      /\ UNCHANGED <<phase, sweepsLeft, sweeps, steps, x, X, ret, start, stale>>

(***************************************************************************)
(* xvals[r] -= v * xx[r]: one entry of X is read, whatever it is now.      *)
(***************************************************************************)
Load(t) ==
  LET i == job[t].step
      at == job[t].at + 1
  IN  /\ job[t] # Idle
      /\ at <= Len(Reads[i])
      /\ LET j == Reads[i][at][1]
             r == Reads[i][at][2]
             v == [job[t].xvals EXCEPT ![r] = @ - A[j][i] * x[j][r]]
         IN  /\ job' = [job EXCEPT ![t] = [step |-> i, at |-> at,
                                           xvals |-> v]]
             /\ moved' = IF at < Len(Reads[i]) THEN moved
                         ELSE [moved EXCEPT ![i] =
                                 [c \in Rhs |-> @[c] + Correction(v[c], i)]]
      /\ UNCHANGED <<phase, sweepsLeft, sweeps, steps, x, X, ret, start, stale>>

(* The columns an addition to x[i][r] makes the other threads' reads stale *)
Overtaken(t, i, r) ==
  [u \in Thread |-> IF u # t /\ job[u] # Idle /\ <<i, r>> \in Seen(u)
                    THEN stale[u] \cup {r} ELSE stale[u]]

(* The right-hand side whose correction thread t adds next.                *)
NextRhs(t) == job[t].at + 1 - Len(Reads[job[t].step])

Finished(t, r) ==
  job' = [job EXCEPT ![t] = IF r = K THEN Idle
                            ELSE [job[t] EXCEPT !.at = @ + 1]]

\* mutant: without the atomic, an addition is to the value read before
AddTorn(t) ==
  LET i == job[t].step
      r == NextRhs(t)
  IN  /\ job[t] # Idle
      /\ r \in Rhs
      /\ \E old \in {x[i][r], start[i][r]} :
           x' = [x EXCEPT ![i][r] = old + Correction(job[t].xvals[r], i)]
      /\ stale' = Overtaken(t, i, r)
      /\ Finished(t, r)
      /\ UNCHANGED <<phase, sweepsLeft, sweeps, steps, X, ret, start, moved>>

(***************************************************************************)
(* omp atomic: X[idx] += v                                                 *)
(***************************************************************************)
Add(t) ==
  LET i == job[t].step
      r == NextRhs(t)
  IN  /\ job[t] # Idle
      /\ r \in Rhs
      /\ x' = [x EXCEPT ![i][r] = @ + Correction(job[t].xvals[r], i)]
      /\ stale' = Overtaken(t, i, r)
      /\ Finished(t, r)
      /\ UNCHANGED <<phase, sweepsLeft, sweeps, steps, X, ret, start, moved>>

\* mutant: the loop is nowait
TestNoWait ==
  /\ phase = "parallel"
  /\ steps = << >>
  /\ sweepsLeft' = sweepsLeft - sweeps
  /\ phase' = "draw"
  /\ UNCHANGED <<sweeps, steps, job, x, X, ret, start, moved, stale>>

\* mutant: the caller's X is not written when the method converges
TestKeepingX ==
  /\ phase = "parallel"
  /\ steps = << >>
  /\ \A t \in Thread : job[t] = Idle
  /\ sweepsLeft' = sweepsLeft - sweeps
  /\ \/ /\ TolSqr[1] > 0 /\ Converged(x)
        /\ phase' = "returned"
        /\ ret' = -1
     \/ /\ ~ (TolSqr[1] > 0 /\ Converged(x))
        /\ phase' = "draw"
        /\ UNCHANGED ret
  /\ UNCHANGED <<sweeps, steps, job, x, X, start, moved, stale>>

(***************************************************************************)
(* The implicit barrier of the parallel loop, then the convergence test.   *)
(***************************************************************************)
Test ==
  /\ phase = "parallel"
  /\ steps = << >>
  /\ \A t \in Thread : job[t] = Idle
  /\ sweepsLeft' = sweepsLeft - sweeps
  /\ \/ /\ TolSqr[1] > 0 /\ Converged(x)
        /\ phase' = "returned"
        /\ ret' = -1
        /\ X' = x
     \/ /\ ~ (TolSqr[1] > 0 /\ Converged(x))
        /\ phase' = "draw"
        /\ UNCHANGED <<X, ret>>
  /\ UNCHANGED <<sweeps, steps, job, x, start, moved, stale>>

GiveUpNever ==           \* mutant: sweeps_left is not looked at
  /\ phase = "draw" /\ sweepsLeft < 0
  /\ phase' = "returned"
  /\ ret' = -6
  /\ X' = x
  /\ UNCHANGED <<sweepsLeft, sweeps, steps, job, x, start, moved, stale>>

(***************************************************************************)
(* No convergence within the iteration limit.                              *)
(***************************************************************************)
GiveUp ==
  /\ phase = "draw" /\ sweepsLeft <= 0
  /\ phase' = "returned"
  /\ ret' = -6
  /\ X' = x
  /\ UNCHANGED <<sweepsLeft, sweeps, steps, job, x, start, moved, stale>>

Next == \/ Draw \/ Test \/ GiveUp
        \/ \E t \in Thread : Begin(t) \/ Load(t) \/ Add(t)

Spec == Init /\ [][Next]_vars /\ WF_vars(Next)
-----------------------------------------------------------------------------
(***************************************************************************)
(* Properties                                                              *)
(***************************************************************************)

(* Type correctness; between rounds no thread is in a step, and in a step  *)
(* none is behind its last right-hand side.                                *)
TypeOK ==
  /\ phase \in {"draw", "parallel", "returned"}
  /\ sweepsLeft \in Int /\ sweepsLeft <= SweepsLim
  /\ steps \in Seq(Idx)
  /\ x \in Matrix /\ X \in Matrix
  /\ ret \in {0, -1, -6}
  /\ phase # "parallel" => \A t \in Thread : job[t] = Idle
  /\ \A t \in Thread : job[t] # Idle =>
       /\ job[t].step \in Idx
       /\ job[t].at \in 0 .. Len(Reads[job[t].step]) + K - 1

(* No update is lost: whenever the threads meet, X has moved by the sum of *)
(* the corrections they decided on, however their steps interleaved.       *)
NoneLost ==
  phase # "parallel" =>
    \A i \in Idx, r \in Rhs : x[i][r] = start[i][r] + moved[i][r]

(* "-1" is what it says: the X the caller is given has passed the          *)
(* convergence test, and an X that passes it is not reported as failed.    *)
ReportTrue ==
  phase = "returned" /\ TolSqr[1] > 0 =>
    /\ ret = -1 => Converged(X)
    /\ ret = -6 /\ SweepsLim > 0 => ~ Converged(X)

(* A solution is a fixed point: no interleaving of any steps moves away    *)
(* from it.                                                                *)
Solves(y) == \A i \in Idx, r \in Rhs : Residual(y, i, r) = 0
FixedPoint == Solves(start) => x = start

(* The convergence rate of the method rests on this: an addition that was  *)
(* computed from entries no other thread has changed since does not        *)
(* increase the energy norm of the error of its right-hand side, for a     *)
(* positive definite A; what the other threads do can only spoil the steps *)
(* they overtake.  (What is added is a whole number of units.)             *)
Energy(y, r) ==
  SumFunction([i \in Idx |-> y[i][r] * (- Residual(y, i, r) - B[i][r])])

FreshDescends ==
  [][\A t \in Thread, r \in Rhs :
       job[t] # Idle /\ job'[t] # job[t] /\ r = NextRhs(t) =>
         /\ job[t].xvals[r] % Diag(job[t].step) = 0
         /\ r \notin stale[t] /\ x' # x => Energy(x', r) < Energy(x, r)]_vars

(* The solver returns.                                                     *)
Returns == <>(phase = "returned")
=============================================================================
