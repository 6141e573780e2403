-------------------------- MODULE DenseApplyProofs --------------------------
(***************************************************************************)
(* Theorems about DenseApply, for every grid, every extent of the          *)
(* matrices, every block size and every factor.  First the arithmetic of   *)
(* the distributions: what realize_matrix_view computes, with a shift and  *)
(* a length, is what a process is dealt out; then what a strategy has to   *)
(* be for its products to add up; then the invariant of the loops.         *)
(***************************************************************************)
EXTENDS DenseApply, Lemmas

(* How many of the numbers below n leave the rest `shift'.                 *)
LEMMA LengthGrows ==
  ASSUME NEW d \in Nat \ {0}, NEW shift \in 0 .. d - 1, NEW n \in Nat
  PROVE  /\ Length(n, shift, d) \in Nat
         /\ Length(0, shift, d) = 0
         /\ n % d = shift => /\ Length(n + 1, shift, d) = Length(n, shift, d) + 1
                             /\ shift + Length(n, shift, d) * d = n
         /\ n % d # shift => Length(n + 1, shift, d) = Length(n, shift, d)
<1>0. Length(0, shift, d) = 0
  BY DEF Length
<1>1. CASE n < shift
  <2>1. n % d = n
    <3>1. n \in 0 .. d - 1 /\ n = d * 0 + n
      BY <1>1
    <3>2. QED
      BY <3>1, DivUnique
  <2>2. Length(n, shift, d) = 0 /\ Length(n + 1, shift, d) = 0
    BY <1>1 DEF Length
  <2>3. QED
    BY <1>0, <1>1, <2>1, <2>2
<1>2. CASE n = shift
  <2>1. n % d = n
    <3>1. n \in 0 .. d - 1 /\ n = d * 0 + n
      BY <1>2
    <3>2. QED
      BY <3>1, DivUnique
  <2>2. 0 \div d = 0
    <3>1. 0 \in 0 .. d - 1 /\ 0 = d * 0 + 0
      OBVIOUS
    <3>2. QED
      BY <3>1, DivUnique
  <2>3. Length(n, shift, d) = 0 /\ Length(n + 1, shift, d) = 1
    <3>1. n + 1 - shift - 1 = 0
      BY <1>2
    <3>2. QED
      BY <1>2, <2>2, <3>1 DEF Length
  <2>4. QED
    BY <1>0, <1>2, <2>1, <2>3
<1>3. CASE n > shift
  <2> DEFINE q == (n - shift - 1) \div d
             r == (n - shift - 1) % d
  <2>1. q \in Nat /\ r \in 0 .. d - 1 /\ n - shift - 1 = d * q + r
    <3>1. n - shift - 1 \in Nat
      BY <1>3
    <3>2. QED
      BY <3>1, DivMod
  <2>2. Length(n, shift, d) = q + 1
    BY <1>3 DEF Length
  <2>3. Length(n + 1, shift, d) = (d * q + r + 1) \div d + 1
    <3>1. (n + 1) - shift - 1 = d * q + r + 1
      BY <2>1
    <3>2. QED
      BY <1>3, <3>1 DEF Length
  <2> HIDE DEF q, r
  <2>4. n = d * q + (shift + r + 1)
    BY <2>1
  <2>5. d * (q + 1) = d * q + d /\ (q + 1) * d = d * q + d
    BY <2>1
  <2>6. CASE r + 1 = d
    <3>1. d * q + r + 1 = d * (q + 1) + 0
      BY <2>1, <2>5, <2>6
    <3>2. (d * (q + 1) + 0) \div d = q + 1
      BY <2>1, DivUnique
    <3>3. n = d * (q + 1) + shift
      BY <2>1, <2>4, <2>5, <2>6
    <3>4. (d * (q + 1) + shift) % d = shift
      BY <2>1, DivUnique
    <3>5. QED
      BY <1>0, <2>1, <2>2, <2>3, <2>5, <3>1, <3>2, <3>3, <3>4
  <2>7. CASE r + 1 # d
    <3>1. (d * q + (r + 1)) \div d = q
      <4>1. r + 1 \in 0 .. d - 1
        BY <2>1, <2>7
      <4>2. QED
        BY <2>1, <4>1, DivUnique
    <3>2. d * q + r + 1 = d * q + (r + 1)
      BY <2>1
    <3>3. n % d # shift
      <4>1. CASE shift + r + 1 < d
        <5>1. shift + r + 1 \in 0 .. d - 1
          BY <2>1, <4>1
        <5>2. n % d = shift + r + 1
          BY <2>1, <2>4, <5>1, DivUnique
        <5>3. QED
          BY <2>1, <5>2
      <4>2. CASE shift + r + 1 >= d
        <5>1. shift + r + 1 - d \in 0 .. d - 1
          BY <2>1, <4>2
        <5>2. n = d * (q + 1) + (shift + r + 1 - d)
          BY <2>1, <2>4, <2>5
        <5>3. n % d = shift + r + 1 - d
          BY <2>1, <5>1, <5>2, DivUnique
        <5>4. QED
          BY <2>1, <2>7, <5>3
      <4>3. QED
        BY <2>1, <4>1, <4>2
    <3>4. QED
      BY <1>0, <2>1, <2>2, <2>3, <3>1, <3>2, <3>3
  <2>8. QED
    BY <2>6, <2>7
<1>4. QED
  BY <1>1, <1>2, <1>3

(* The shift of a part whose first index is w.                             *)
Fits(d, rank, shift, w, n) == (w + n) % d = rank <=> n % d = shift

LEMMA ShiftFits ==
  ASSUME NEW d \in Nat \ {0}, NEW rank \in 0 .. d - 1, NEW w \in Nat,
         NEW n \in Nat
  PROVE  /\ Shift(rank, w % d, d) \in 0 .. d - 1
         /\ Fits(d, rank, Shift(rank, w % d, d), w, n)
<1> DEFINE a == w % d
           b == n % d
           u == w \div d
           v == n \div d
           shift == Shift(rank, a, d)
<1>1. /\ a \in 0 .. d - 1 /\ u \in Nat /\ w = d * u + a
      /\ b \in 0 .. d - 1 /\ v \in Nat /\ n = d * v + b
  BY DivMod
<1>2. shift = (rank + d - a) % d
  BY DEF Shift
<1> HIDE DEF a, b, u, v
<1>3. shift = IF rank >= a THEN rank - a ELSE rank + d - a
  <2>1. CASE rank >= a
    <3>1. rank + d - a = d * 1 + (rank - a) /\ rank - a \in 0 .. d - 1
      BY <1>1, <2>1
    <3>2. (d * 1 + (rank - a)) % d = rank - a
      BY <3>1, DivUnique
    <3>3. QED
      BY <1>2, <2>1, <3>1, <3>2
  <2>2. CASE ~ (rank >= a)
    <3>1. rank + d - a = d * 0 + (rank + d - a) /\ rank + d - a \in 0 .. d - 1
      BY <1>1, <2>2
    <3>2. (d * 0 + (rank + d - a)) % d = rank + d - a
      BY <3>1, DivUnique
    <3>3. QED
      BY <1>2, <2>2, <3>1, <3>2
  <2>3. QED
    BY <2>1, <2>2
<1>4. d * (u + v) = d * u + d * v /\ d * (u + v + 1) = d * u + d * v + d
  BY <1>1
<1> DEFINE x == d * u
           y == d * v
<1>5. x \in Int /\ y \in Int
  BY <1>1
<1>6. (w + n) % d = IF a + b < d THEN a + b ELSE a + b - d
  <2>1. CASE a + b < d
    <3>1. w + n = d * (u + v) + (a + b) /\ a + b \in 0 .. d - 1
      <4> HIDE DEF x, y
      <4>1. w + n = (x + y) + (a + b) /\ a + b \in 0 .. d - 1
        BY <1>1, <1>5, <2>1 DEF x, y
      <4>2. QED
        BY <1>4, <4>1 DEF x, y
    <3>2. (d * (u + v) + (a + b)) % d = a + b
      BY <1>1, <3>1, DivUnique
    <3>3. QED
      BY <2>1, <3>1, <3>2
  <2>2. CASE ~ (a + b < d)
    <3>1. w + n = d * (u + v + 1) + (a + b - d) /\ a + b - d \in 0 .. d - 1
      <4>1. w + n = (x + y + d) + (a + b - d) /\ a + b - d \in 0 .. d - 1
        BY <1>1, <1>5, <2>2
      <4>2. QED
        BY <1>4, <4>1
    <3>2. (d * (u + v + 1) + (a + b - d)) % d = a + b - d
      <4>1. u + v + 1 \in Nat
        BY <1>1
      <4>2. QED
        BY <3>1, <4>1, DivUnique
    <3>3. QED
      BY <2>2, <3>1, <3>2
  <2>3. QED
    BY <2>1, <2>2
<1> HIDE DEF shift, x, y
<1>7. shift \in 0 .. d - 1
  BY <1>1, <1>3
<1>8. (w + n) % d = rank <=> b = shift
  <2>1. CASE a + b < d
    BY <1>1, <1>3, <1>6, <2>1
  <2>2. CASE ~ (a + b < d)
    BY <1>1, <1>3, <1>6, <2>2
  <2>3. QED
    BY <2>1, <2>2
<1>9. QED
  BY <1>7, <1>8 DEF a, b, shift, Fits
-----------------------------------------------------------------------------
(* What realize_matrix_view computes is what is dealt out.                 *)
Viewed(stride, shift, w, c) ==
  [l \in 1 .. Length(c, shift, stride) |-> w + shift + (l - 1) * stride]

LEMMA DealsViewed ==
  ASSUME NEW s, NEW stride \in Nat \ {0}, NEW rank \in 0 .. stride - 1,
         NEW w \in Nat, NEW c \in Nat,
         Deals(s, stride, rank, w, c)
  PROVE  s = Viewed(stride, Shift(rank, w % stride, stride), w, c)
<1> DEFINE shift == Shift(rank, w % stride, stride)
<1>1. PICK f : /\ s = f[c]
               /\ f[0] = << >>
               /\ \A n \in 0 .. c : n < c =>
                    f[n + 1] = IF (w + n) % stride = rank
                               THEN Append(f[n], w + n) ELSE f[n]
  BY DEF Deals
<1>2. shift \in 0 .. stride - 1
  BY ShiftFits
<1>3. \A n \in Nat : (w + n) % stride = rank <=> n % stride = shift
  <2> TAKE n \in Nat
  <2>1. Fits(stride, rank, shift, w, n)
    BY ShiftFits
  <2>2. QED
    BY <2>1 DEF Fits
<1> HIDE DEF shift
<1> DEFINE F(n) == Viewed(stride, shift, w, n)
           Fine == {n \in 0 .. c : f[n] = F(n)}
<1>4. 0 \in Fine
  <2>1. Length(0, shift, stride) = 0
    BY <1>2, LengthGrows
  <2>2. F(0) = << >>
    BY <2>1 DEF Viewed
  <2>3. QED
    BY <1>1, <2>2
<1>5. ASSUME NEW n \in 0 .. c, n \in Fine, n < c PROVE n + 1 \in Fine
  <2> DEFINE L == Length(n, shift, stride)
             M == Length(n + 1, shift, stride)
  <2>1. /\ L \in Nat
        /\ n % stride = shift => M = L + 1 /\ shift + L * stride = n
        /\ n % stride # shift => M = L
    <3>1. n \in Nat
      BY <1>5
    <3>2. QED
      BY <1>2, <3>1, LengthGrows
  <2>2. f[n] = F(n) /\ n + 1 \in 0 .. c /\ n \in Nat
    BY <1>5
  <2>3. F(n) = [l \in 1 .. L |-> w + shift + (l - 1) * stride]
        /\ F(n + 1) = [l \in 1 .. M |-> w + shift + (l - 1) * stride]
    BY DEF Viewed
  <2> HIDE DEF L, M, F
  <2>4. CASE n % stride = shift
    <3>1. f[n + 1] = Append(F(n), w + n)
      BY <1>1, <1>3, <1>5, <2>2, <2>4
    <3> DEFINE t == Append(F(n), w + n)
    <3>2. \A l \in 1 .. L : w + shift + (l - 1) * stride \in Int
      BY <1>2, <2>1
    <3>3. F(n) \in Seq(Int) /\ Len(F(n)) = L
      BY <2>1, <2>3, <3>2
    <3>4. t \in Seq(Int) /\ Len(t) = L + 1 /\ t[L + 1] = w + n
          /\ \A l \in 1 .. L : t[l] = F(n)[l]
      BY <3>3, <2>2, <2>1
    <3>5. M = L + 1 /\ shift + L * stride = n
      BY <2>1, <2>4
    <3> HIDE DEF t
    <3>6. ASSUME NEW l \in 1 .. L + 1 PROVE t[l] = w + shift + (l - 1) * stride
      <4>1. CASE l \in 1 .. L
        BY <2>3, <3>4, <4>1
      <4>2. CASE l = L + 1
        <5> DEFINE x == L * stride
        <5>1. l - 1 = L /\ (l - 1) * stride = x /\ x \in Int
          BY <2>1, <4>2
        <5>2. shift + x = n
          BY <3>5
        <5> HIDE DEF x
        <5>3. w + shift + x = w + n
          BY <1>2, <2>2, <5>1, <5>2
        <5>4. QED
          BY <3>4, <4>2, <5>1, <5>3
      <4>3. QED
        BY <2>1, <4>1, <4>2
    <3>7. t = [l \in 1 .. L + 1 |-> w + shift + (l - 1) * stride]
      BY <3>4, <3>6
    <3>8. t = F(n + 1)
      BY <2>3, <3>5, <3>7
    <3>9. QED
      BY <2>2, <3>1, <3>8 DEF t
  <2>5. CASE n % stride # shift
    <3>1. f[n + 1] = F(n)
      BY <1>1, <1>3, <1>5, <2>2, <2>5
    <3>2. F(n + 1) = F(n)
      BY <2>1, <2>3, <2>5
    <3>3. QED
      BY <2>2, <3>1, <3>2
  <2>6. QED
    BY <2>4, <2>5
<1> HIDE DEF Fine
<1>6. \A n \in 0 .. c : n \in Fine
  BY <1>4, <1>5, UpTo
<1>7. c \in Fine
  BY <1>6
<1>8. QED
  BY <1>1, <1>7 DEF Fine, shift
-----------------------------------------------------------------------------
(***************************************************************************)
(* Who holds an index.                                                     *)
(***************************************************************************)
Dists == {"MC", "MR", "VC", "VR", "STAR"}

Tags == {"rowwise", "columnwise"}

TaskOK ==
  /\ <<task.input, task.output>> \in Applications
  /\ task.tag \in Tags
  /\ task.grid \in Grids
  /\ task.M \in Ms /\ task.N \in Ns /\ task.S \in Ss
  /\ task.blocksize \in Blocksizes

Holds(d, g, p) == g % Stride(d) = RankIn(d, p)

Within(win) == win[1] .. win[1] + win[2] - 1

Mine(d, win, p) == {g \in Within(win) : Holds(d, g, p)}

LEMMA TaskNumbers ==
  ASSUME TaskOK
  PROVE  /\ task.grid[1] \in Nat \ {0} /\ task.grid[2] \in Nat \ {0}
         /\ task.M \in Nat \ {0} /\ task.N \in Nat \ {0}
         /\ task.S \in Nat \ {0} /\ task.blocksize \in Nat
         /\ Rank = (0 .. task.grid[1] - 1) \X (0 .. task.grid[2] - 1)
<1>1. task.grid \in (Nat \ {0}) \X (Nat \ {0})
  BY GridsAssumption DEF TaskOK
<1>2. QED
  BY <1>1, SizesAssumption, ParamsAssumption DEF TaskOK, Rank, ProcessesOf

LEMMA Places ==
  ASSUME TaskOK, NEW p \in Rank
  PROVE  /\ Stride("MC") = task.grid[1] /\ RankIn("MC", p) = p[1]
         /\ Stride("MR") = task.grid[2] /\ RankIn("MR", p) = p[2]
         /\ Stride("VC") = task.grid[1] * task.grid[2]
         /\ RankIn("VC", p) = p[1] + p[2] * task.grid[1]
         /\ Stride("VR") = task.grid[1] * task.grid[2]
         /\ RankIn("VR", p) = p[2] + p[1] * task.grid[2]
         /\ Stride("STAR") = 1 /\ RankIn("STAR", p) = 0
BY DEF Stride, StrideOf, RankIn, RankOf

LEMMA Placed ==
  ASSUME TaskOK, NEW d \in Dists, NEW p \in Rank
  PROVE  Stride(d) \in Nat \ {0} /\ RankIn(d, p) \in 0 .. Stride(d) - 1
<1> DEFINE h == task.grid[1]
           w == task.grid[2]
<1>1. /\ h \in Nat \ {0} /\ w \in Nat \ {0}
      /\ p \in (0 .. h - 1) \X (0 .. w - 1)
  BY TaskNumbers
<1>2. h * w \in Nat \ {0} /\ h * w = w * h
      /\ p[1] + p[2] * h \in 0 .. h * w - 1
      /\ p[2] + p[1] * w \in 0 .. w * h - 1
  <2>1. p[1] \in 0 .. h - 1 /\ p[2] \in 0 .. w - 1
    BY <1>1
  <2> HIDE DEF h, w
  <2>2. QED
    BY <1>1, <2>1, Squares, NumberOfPlace
<1>3. d \in {"MC", "MR", "VC", "VR", "STAR"}
  BY DEF Dists
<1> HIDE DEF h, w
<1>4. QED
  BY <1>1, <1>2, <1>3, Places DEF h, w

LEMMA LocalEnumerates ==
  ASSUME NEW d, NEW p, NEW w \in Nat, NEW c \in Nat
  PROVE  Enumerates(Local(d, <<w, c>>, p), Mine(d, <<w, c>>, p))
<1>1. Deals(Local(d, <<w, c>>, p), Stride(d), RankIn(d, p), w, c)
  BY DealtDeals DEF Local, Stride, RankIn
<1>2. Enumerates(Local(d, <<w, c>>, p), Dealing(Stride(d), RankIn(d, p), w, c))
  BY <1>1, DealsEnumerates
<1>3. Dealing(Stride(d), RankIn(d, p), w, c) = Mine(d, <<w, c>>, p)
  BY DEF Dealing, Mine, Within, Holds
<1>4. QED
  BY <1>2, <1>3

(***************************************************************************)
(* realize_matrix_view: from the shift and the length it computes, a       *)
(* process realizes exactly the indices it is dealt out.                   *)
(***************************************************************************)
LEMMA RealizedIsLocal ==
  ASSUME TaskOK, NEW d \in Dists, NEW p \in Rank, NEW w \in Nat, NEW c \in Nat
  PROVE  Realized(d, <<w, c>>, p) = Local(d, <<w, c>>, p)
<1>1. Stride(d) \in Nat \ {0} /\ RankIn(d, p) \in 0 .. Stride(d) - 1
  BY Placed
<1>2. Deals(Local(d, <<w, c>>, p), Stride(d), RankIn(d, p), w, c)
  BY DealtDeals DEF Local, Stride, RankIn
<1>3. Local(d, <<w, c>>, p)
        = Viewed(Stride(d), Shift(RankIn(d, p), w % Stride(d), Stride(d)), w, c)
  BY <1>1, <1>2, DealsViewed
<1>4. QED
  BY <1>3 DEF Realized, Viewed

(* Two dimensions that between them give an entry to one process.          *)
Crossed(a, b) == \/ a = "STAR" /\ b \in {"VC", "VR"}
                 \/ <<a, b>> \in {<<"MC", "MR">>, <<"MR", "MC">>}

LEMMA OneHolder ==
  ASSUME TaskOK, NEW a, NEW b, Crossed(a, b), NEW j \in Nat, NEW k \in Nat
  PROVE  /\ \E p \in Rank : Holds(a, j, p) /\ Holds(b, k, p)
         /\ \A p, q \in Rank : /\ Holds(a, j, p) /\ Holds(b, k, p)
                               /\ Holds(a, j, q) /\ Holds(b, k, q)
                               => p = q
<1> DEFINE h == task.grid[1]
           w == task.grid[2]
<1>1. h \in Nat \ {0} /\ w \in Nat \ {0} /\ Rank = (0 .. h - 1) \X (0 .. w - 1)
  BY TaskNumbers
<1>2. \A p \in Rank : /\ p = <<p[1], p[2]>>
                      /\ p[1] \in 0 .. h - 1 /\ p[2] \in 0 .. w - 1
  BY <1>1
<1>3. \A p \in Rank :
        /\ \A g : Holds("MC", g, p) <=> g % h = p[1]
        /\ \A g : Holds("MR", g, p) <=> g % w = p[2]
        /\ \A g : Holds("VC", g, p) <=> g % (h * w) = p[1] + p[2] * h
        /\ \A g : Holds("VR", g, p) <=> g % (h * w) = p[2] + p[1] * w
        /\ \A g : Holds("STAR", g, p) <=> g % 1 = 0
  BY Places DEF Holds
<1> HIDE DEF h, w
<1>4. j % 1 = 0
  BY DivMod
<1>5. CASE a = "MC" /\ b = "MR"
  <2>1. j % h \in 0 .. h - 1 /\ k % w \in 0 .. w - 1
    BY <1>1, DivMod
  <2>2. <<j % h, k % w>> \in Rank
    BY <1>1, <2>1
  <2>3. QED
    BY <1>2, <1>3, <1>5, <2>2
<1>6. CASE a = "MR" /\ b = "MC"
  <2>1. k % h \in 0 .. h - 1 /\ j % w \in 0 .. w - 1
    BY <1>1, DivMod
  <2>2. <<k % h, j % w>> \in Rank
    BY <1>1, <2>1
  <2>3. QED
    BY <1>2, <1>3, <1>6, <2>2
<1>7. CASE a = "STAR" /\ b = "VC"
  <2> DEFINE r == k % (h * w)
  <2>1. h * w \in Nat \ {0}
    BY <1>1, Squares
  <2>2. r \in Nat /\ r < h * w
    BY <2>1, DivMod
  <2> HIDE DEF r
  <2>3. /\ r % h \in 0 .. h - 1
        /\ r \div h \in 0 .. w - 1
        /\ (r % h) + (r \div h) * h = r
    BY <1>1, <2>2, PlaceOfNumber
  <2>4. <<r % h, r \div h>> \in Rank
    BY <1>1, <2>3
  <2>5. ASSUME NEW p \in Rank, NEW q \in Rank,
               p[1] + p[2] * h = q[1] + q[2] * h
        PROVE  p = q
    <3>1. /\ p[1] \in 0 .. h - 1 /\ p[2] \in 0 .. w - 1
          /\ q[1] \in 0 .. h - 1 /\ q[2] \in 0 .. w - 1
      BY <1>2
    <3>2. OnePlace(h, p[1], p[2], q[1], q[2])
      BY <1>1, <3>1, OneNumber
    <3>3. p[1] = q[1] /\ p[2] = q[2]
      BY <2>5, <3>2 DEF OnePlace
    <3>4. QED
      BY <1>2, <3>3
  <2>6. \A p \in Rank : Holds(b, k, p) <=> r = p[1] + p[2] * h
    BY <1>3, <1>7 DEF r
  <2>7. \A p \in Rank : Holds(a, j, p)
    BY <1>3, <1>4, <1>7
  <2>8. QED
    BY <2>3, <2>4, <2>5, <2>6, <2>7
<1>8. CASE a = "STAR" /\ b = "VR"
  <2> DEFINE r == k % (h * w)
  <2>1. h * w \in Nat \ {0} /\ h * w = w * h
    BY <1>1, Squares
  <2>2. r \in Nat /\ r < w * h
    BY <2>1, DivMod
  <2> HIDE DEF r
  <2>3. /\ r % w \in 0 .. w - 1
        /\ r \div w \in 0 .. h - 1
        /\ (r % w) + (r \div w) * w = r
    BY <1>1, <2>2, PlaceOfNumber
  <2>4. <<r \div w, r % w>> \in Rank
    BY <1>1, <2>3
  <2>5. ASSUME NEW p \in Rank, NEW q \in Rank,
               p[2] + p[1] * w = q[2] + q[1] * w
        PROVE  p = q
    <3>1. /\ p[1] \in 0 .. h - 1 /\ p[2] \in 0 .. w - 1
          /\ q[1] \in 0 .. h - 1 /\ q[2] \in 0 .. w - 1
      BY <1>2
    <3>2. OnePlace(w, p[2], p[1], q[2], q[1])
      BY <1>1, <3>1, OneNumber
    <3>3. p[2] = q[2] /\ p[1] = q[1]
      BY <2>5, <3>2 DEF OnePlace
    <3>4. QED
      BY <1>2, <3>3
  <2>6. \A p \in Rank : Holds(b, k, p) <=> r = p[2] + p[1] * w
    BY <1>3, <1>8 DEF r
  <2>7. \A p \in Rank : Holds(a, j, p)
    BY <1>3, <1>4, <1>8
  <2>8. QED
    BY <2>3, <2>4, <2>5, <2>6, <2>7
<1>9. QED
  BY <1>5, <1>6, <1>7, <1>8 DEF Crossed
-----------------------------------------------------------------------------
(***************************************************************************)
(* What a strategy has to be, given the matrix it writes to, for its       *)
(* products to add up to the sketch.                                       *)
(***************************************************************************)
SoundPlan(s) ==
  /\ s.slices \in {"s", "n", "none"} /\ s.blocks \in BOOLEAN
  /\ s.blocks => s.slices = "s"
  /\ s.into \in {"set", "add", "contract"}
  /\ s.R[1] \in Dists /\ s.R[2] \in Dists
  /\ s.A[1] \in Dists /\ s.A[2] = s.R[2]
  /\ s.into # "contract" => /\ s.A[1] = Roles(Work)[1]
                            /\ s.R[1] = Roles(Work)[2]
                            /\ s.R[2] = "STAR"
  /\ s.into = "set" => s.slices # "n"
  /\ s.into = "add" => s.slices # "s"
  /\ s.into = "contract" => /\ s.slices # "n"
                            /\ s.R[1] = "STAR"
                            /\ Crossed(s.A[1], s.A[2])

LEMMA TaskCases ==
  ASSUME TaskOK
  PROVE  /\ task.input \in {S_S, MC_MR} \cup ColDists \cup RowDists
         /\ \/ Work = task.input
            \/ task.input \in ColDists /\ Work = MC_MR
         /\ ~ Copied => Work = task.output
         /\ Copied => task.output \in {S_S, CIRC_CIRC}
<1>1. \/ /\ task.input \in {S_S, MC_MR} \cup ColDists \cup RowDists
         /\ task.output = task.input
      \/ /\ task.input \in {MC_MR} \cup ColDists \cup RowDists
         /\ task.output \in {S_S, CIRC_CIRC}
      \/ task.input \in ColDists /\ task.output = MC_MR
  BY DEF TaskOK, Applications
<1>2. \A d \in {MC_MR} \cup ColDists \cup RowDists : d # S_S
  BY DEF MC_MR, ColDists, RowDists, S_S
<1>3. \A d \in {S_S, MC_MR} \cup ColDists \cup RowDists :
        d # CIRC_CIRC
  BY DEF MC_MR, ColDists, RowDists, S_S, CIRC_CIRC
<1>4. MC_MR \notin {S_S, CIRC_CIRC}
  BY DEF MC_MR, S_S, CIRC_CIRC
<1>5. QED
  BY <1>1, <1>2, <1>3, <1>4 DEF Work, Copied

LEMMA WorkDealt ==
  ASSUME TaskOK
  PROVE  Roles(Work)[1] \in Dists /\ Roles(Work)[2] \in Dists
<1>1. Work \in {S_S, MC_MR} \cup ColDists \cup RowDists
  BY TaskCases
<1>2. Work[1] \in Dists /\ Work[2] \in Dists
  BY <1>1 DEF S_S, MC_MR, ColDists, RowDists, Dists
<1>3. QED
  BY <1>2 DEF Roles

SoundPlans(plans) == \A s \in {plans.inner, plans.outer, plans.matrix} :
                       s = NotImplemented \/ SoundPlan(s)

LEMMA PlansSound ==
  ASSUME TaskOK
  PROVE  SoundPlans(Plans(task.input, Work, task.tag))
<1> DEFINE P == Plans(task.input, Work, task.tag)
<1>0. \/ task.input = S_S /\ Work = S_S
      \/ task.input = MC_MR /\ Work = MC_MR
      \/ task.input \in ColDists /\ Work = MC_MR
      \/ task.input \in ColDists /\ Work = task.input
      \/ task.input \in RowDists /\ Work = task.input
  BY TaskCases
<1>1. task.tag \in Tags
  BY DEF TaskOK
<1>2. CASE task.input = S_S /\ Work = S_S
  <2>1. P = [inner |-> Whole, outer |-> Whole, matrix |-> Whole]
    BY <1>2 DEF Plans, S_S, MC_MR, ColDists, RowDists
  <2>2. SoundPlan(Whole)
    BY <1>1, <1>2 DEF SoundPlan, Whole, Strategy, Dists, Roles, S_S, Crossed
  <2>3. QED
    BY <2>1, <2>2 DEF SoundPlans
<1>3. CASE task.input = MC_MR /\ Work = MC_MR
  <2>1. CASE task.tag = "rowwise"
    <3>1. P = [inner |-> InnerRowMCMR, outer |-> OuterRowMCMR,
               matrix |-> MatrixPanelMCMR]
      BY <1>3, <2>1 DEF Plans, S_S, MC_MR, ColDists, RowDists
    <3>2. Roles(Work) = <<"MC", "MR">>
      BY <1>3, <2>1 DEF Roles, MC_MR
    <3>3. SoundPlan(InnerRowMCMR) /\ SoundPlan(OuterRowMCMR)
          /\ SoundPlan(MatrixPanelMCMR)
      BY <3>2 DEF SoundPlan, InnerRowMCMR, OuterRowMCMR, MatrixPanelMCMR,
                  Strategy, Dists, Crossed
    <3>4. QED
      BY <3>1, <3>3 DEF SoundPlans
  <2>2. CASE task.tag = "columnwise"
    <3>1. P = [inner |-> InnerColMCMR, outer |-> OuterColMCMR,
               matrix |-> PanelMatrixMCMR]
      BY <1>3, <2>2 DEF Plans, S_S, MC_MR, ColDists, RowDists
    <3>2. Roles(Work) = <<"MR", "MC">>
      BY <1>3, <2>2 DEF Roles, MC_MR
    <3>3. SoundPlan(InnerColMCMR) /\ SoundPlan(OuterColMCMR)
          /\ SoundPlan(PanelMatrixMCMR)
      BY <3>2 DEF SoundPlan, InnerColMCMR, OuterColMCMR, PanelMatrixMCMR,
                  Strategy, Dists, Crossed
    <3>4. QED
      BY <3>1, <3>3 DEF SoundPlans
  <2>3. QED
    BY <1>1, <2>1, <2>2 DEF Tags
<1>4. CASE task.input \in ColDists /\ Work = MC_MR
  <2>0. PICK V \in {"VC", "VR"} : task.input = <<V, "STAR">>
    BY <1>4 DEF ColDists
  <2>a. /\ task.input # S_S /\ task.input # MC_MR /\ task.input \notin RowDists
        /\ (IF task.input[1] = "STAR" THEN task.input[2] ELSE task.input[1]) = V
    BY <2>0 DEF S_S, MC_MR, RowDists
  <2>1. CASE task.tag = "rowwise"
    <3>1. P = [inner |-> NotImplemented, outer |-> OuterRowToMCMR,
               matrix |-> NotImplemented]
      BY <1>4, <2>a, <2>1 DEF Plans
    <3>2. Roles(Work) = <<"MC", "MR">>
      BY <1>4, <2>1 DEF Roles, MC_MR
    <3>3. SoundPlan(OuterRowToMCMR)
      BY <3>2 DEF SoundPlan, OuterRowToMCMR, Strategy, Dists, Crossed
    <3>4. QED
      BY <3>1, <3>3 DEF SoundPlans
  <2>2. CASE task.tag = "columnwise"
    <3>1. P = [inner |-> InnerColToMCMR(V), outer |-> NotImplemented,
               matrix |-> NotImplemented]
      BY <1>4, <2>a, <2>2 DEF Plans
    <3>2. SoundPlan(InnerColToMCMR(V))
      BY <2>0 DEF SoundPlan, InnerColToMCMR, Strategy, Dists, Crossed
    <3>3. QED
      BY <3>1, <3>2 DEF SoundPlans
  <2>3. QED
    BY <1>1, <2>1, <2>2 DEF Tags
<1>5. CASE task.input \in ColDists /\ Work = task.input
  <2>0. PICK V \in {"VC", "VR"} : task.input = <<V, "STAR">>
    BY <1>5 DEF ColDists
  <2>a. /\ task.input # S_S /\ task.input # MC_MR /\ task.input \notin RowDists
        /\ (IF task.input[1] = "STAR" THEN task.input[2] ELSE task.input[1]) = V
    BY <2>0 DEF S_S, MC_MR, RowDists
  <2>1. CASE task.tag = "rowwise"
    <3>1. P = [inner |-> InnerRowColDist(V), outer |-> OuterRowColDist(V),
               matrix |-> MatrixPanelColDist(V)]
      BY <1>5, <2>a, <2>1 DEF Plans
    <3>2. Roles(Work) = <<V, "STAR">>
      BY <1>5, <2>0, <2>1 DEF Roles
    <3>3. SoundPlan(InnerRowColDist(V)) /\ SoundPlan(OuterRowColDist(V))
          /\ SoundPlan(MatrixPanelColDist(V))
      BY <2>0, <3>2 DEF SoundPlan, InnerRowColDist, OuterRowColDist,
                        MatrixPanelColDist, Strategy, Dists, Crossed, S_S
    <3>4. QED
      BY <3>1, <3>3 DEF SoundPlans
  <2>2. CASE task.tag = "columnwise"
    <3>1. P = [inner |-> InnerColColDist(V), outer |-> OuterColColDist(V),
               matrix |-> PanelMatrixColDist(V)]
      BY <1>5, <2>a, <2>2 DEF Plans
    <3>2. Roles(Work) = <<"STAR", V>>
      BY <1>5, <2>0, <2>2 DEF Roles
    <3>3. SoundPlan(InnerColColDist(V)) /\ SoundPlan(OuterColColDist(V))
      BY <2>0, <3>2 DEF SoundPlan, InnerColColDist, OuterColColDist,
                        Strategy, Dists, Crossed, S_S
    <3>4. QED
      BY <3>1, <3>3 DEF SoundPlans, PanelMatrixColDist
  <2>3. QED
    BY <1>1, <2>1, <2>2 DEF Tags
<1>6. CASE task.input \in RowDists /\ Work = task.input
  <2>0. PICK V \in {"VC", "VR"} : task.input = <<"STAR", V>>
    BY <1>6 DEF RowDists
  <2>1. CASE task.tag = "rowwise"
    <3>1. P = [inner |-> InnerRowRowDist(V), outer |-> OuterRowRowDist(V),
               matrix |-> MatrixPanelRowDist(V)]
      BY <1>6, <2>0, <2>1 DEF Plans, S_S, MC_MR, ColDists
    <3>2. Roles(Work) = <<"STAR", V>>
      BY <1>6, <2>0, <2>1 DEF Roles
    <3>3. SoundPlan(InnerRowRowDist(V)) /\ SoundPlan(OuterRowRowDist(V))
      BY <2>0, <3>2 DEF SoundPlan, InnerRowRowDist, OuterRowRowDist,
                        Strategy, Dists, Crossed, S_S
    <3>4. QED
      BY <3>1, <3>3 DEF SoundPlans, MatrixPanelRowDist
  <2>2. CASE task.tag = "columnwise"
    <3>1. P = [inner |-> InnerColRowDist(V), outer |-> OuterColRowDist(V),
               matrix |-> PanelMatrixRowDist(V)]
      BY <1>6, <2>0, <2>2 DEF Plans, S_S, MC_MR, ColDists
    <3>2. Roles(Work) = <<V, "STAR">>
      BY <1>6, <2>0, <2>2 DEF Roles
    <3>3. SoundPlan(InnerColRowDist(V)) /\ SoundPlan(OuterColRowDist(V))
          /\ SoundPlan(PanelMatrixRowDist(V))
      BY <2>0, <3>2 DEF SoundPlan, InnerColRowDist, OuterColRowDist,
                        PanelMatrixRowDist, Strategy, Dists, Crossed, S_S
    <3>4. QED
      BY <3>1, <3>3 DEF SoundPlans
  <2>3. QED
    BY <1>1, <2>1, <2>2 DEF Tags
<1>7. QED
  BY <1>0, <1>2, <1>3, <1>4, <1>5, <1>6

LEMMA ChosenSound ==
  ASSUME TaskOK, Chosen # NotImplemented
  PROVE  SoundPlan(Chosen)
<1> DEFINE P == Plans(task.input, Work, task.tag)
<1>1. Chosen \in {P.inner, P.outer, P.matrix}
  BY DEF Chosen
<1>2. SoundPlans(P)
  BY PlansSound
<1> HIDE DEF P
<1>3. QED
  BY <1>1, <1>2 DEF SoundPlans
-----------------------------------------------------------------------------
(***************************************************************************)
(* The products of one pass.                                               *)
(***************************************************************************)
LoopOK ==
  /\ TaskOK
  /\ SoundPlan(plan)
  /\ base \in 0 .. Sliced
  /\ row \in 0 .. task.M
  /\ plan.slices = "none" => base = 0
  /\ ~ plan.blocks => row = 0

IsWindow(win, size) == /\ win = <<win[1], win[2]>>
                       /\ win[1] \in Nat /\ win[2] \in Nat
                       /\ Within(win) \subseteq 0 .. size - 1

LEMMA PanelFits ==
  ASSUME LoopOK
  PROVE  /\ Sliced \in Nat \ {0}
         /\ B \in Nat /\ base + B <= Sliced
         /\ base < Sliced => B > 0
<1>1. /\ task.M \in Nat \ {0} /\ task.N \in Nat \ {0}
      /\ task.S \in Nat \ {0} /\ task.blocksize \in Nat
  BY TaskNumbers DEF LoopOK
<1>2. Sliced \in Nat \ {0} /\ base \in 0 .. Sliced
  BY <1>1 DEF LoopOK, Sliced
<1>3. Smaller(task.M, task.S) \in Nat \ {0}
  BY <1>1 DEF Smaller
<1> DEFINE full == IF task.blocksize # 0 THEN task.blocksize
                   ELSE IF plan.blocks THEN Smaller(task.M, task.S)
                   ELSE Sliced
<1>4. full \in Nat \ {0}
  BY <1>1, <1>2, <1>3
<1>5. B = Smaller(Sliced - base, full)
  BY DEF B
<1> HIDE DEF full
<1>6. QED
  BY <1>2, <1>4, <1>5 DEF Smaller

LEMMA Windows ==
  ASSUME LoopOK
  PROVE  /\ IsWindow(sWin, task.S)
         /\ IsWindow(nWin, task.N)
         /\ IsWindow(mWin, task.M)
<1>1. /\ task.M \in Nat \ {0} /\ task.N \in Nat \ {0} /\ task.S \in Nat \ {0}
  BY TaskNumbers DEF LoopOK
<1>2. Sliced \in Nat /\ B \in Nat /\ base + B <= Sliced
  BY PanelFits
<1>3. base \in Nat /\ row \in 0 .. task.M
  BY <1>2 DEF LoopOK
<1>4. IsWindow(<<0, task.S>>, task.S) /\ IsWindow(<<0, task.N>>, task.N)
      /\ IsWindow(<<0, task.M>>, task.M)
  BY <1>1 DEF IsWindow, Within
<1>5. IsWindow(sWin, task.S)
  <2>1. CASE plan.slices = "s"
    <3>1. sWin = <<base, B>> /\ Sliced = task.S
      BY <2>1 DEF sWin, Sliced
    <3> HIDE DEF B, Sliced, sWin
    <3>2. QED
      BY <1>1, <1>2, <1>3, <3>1 DEF IsWindow, Within
  <2>2. CASE plan.slices # "s"
    BY <1>4, <2>2 DEF sWin
  <2>3. QED
    BY <2>1, <2>2
<1>6. IsWindow(nWin, task.N)
  <2>1. CASE plan.slices = "n"
    <3>1. nWin = <<base, B>> /\ Sliced = task.N
      BY <2>1 DEF nWin, Sliced
    <3>2. QED
      BY <1>1, <1>2, <1>3, <3>1 DEF IsWindow, Within
  <2>2. CASE plan.slices # "n"
    BY <1>4, <2>2 DEF nWin
  <2>3. QED
    BY <2>1, <2>2
<1>7. IsWindow(mWin, task.M)
  <2>1. CASE plan.blocks
    <3> DEFINE c == Smaller(B, task.M - row)
    <3>1. mWin = <<row, c>>
      BY <2>1 DEF mWin
    <3>2. c \in Nat /\ row + c <= task.M
      BY <1>1, <1>2, <1>3 DEF Smaller
    <3> HIDE DEF c
    <3>3. QED
      BY <1>1, <1>3, <3>1, <3>2 DEF IsWindow, Within
  <2>2. CASE ~ plan.blocks
    BY <1>4, <2>2 DEF mWin
  <2>3. QED
    BY <2>1, <2>2
<1>8. QED
  BY <1>5, <1>6, <1>7

LEMMA LocalOf ==
  ASSUME NEW d, NEW p, NEW win, NEW size, IsWindow(win, size)
  PROVE  /\ Enumerates(Local(d, win, p), Mine(d, win, p))
         /\ Range(Local(d, win, p)) = Mine(d, win, p)
         /\ DOMAIN Local(d, win, p) = 1 .. Len(Local(d, win, p))
<1>1. Enumerates(Local(d, win, p), Mine(d, win, p))
  <2>1. PICK w \in Nat, c \in Nat : win = <<w, c>>
    BY DEF IsWindow
  <2>2. QED
    BY <2>1, LocalEnumerates
<1>2. QED
  BY <1>1, EnumeratesRange

(* The part of the sketch a process holds, and the part of it in a window. *)
LEMMA HeldEntries ==
  ASSUME NEW layout, NEW p, NEW m, NEW s, NEW j, NEW k,
         IsWindow(m, j), IsWindow(s, k)
  PROVE  Entries(Held(layout, m, s, p))
           = Mine(Roles(layout)[1], m, p) \X Mine(Roles(layout)[2], s, p)
<1>1. /\ Range(Local(Roles(layout)[1], m, p)) = Mine(Roles(layout)[1], m, p)
      /\ Range(Local(Roles(layout)[2], s, p)) = Mine(Roles(layout)[2], s, p)
  BY LocalOf
<1>2. Held(layout, m, s, p)
        = <<Local(Roles(layout)[1], m, p), Local(Roles(layout)[2], s, p)>>
  BY DEF Held
<1>3. QED
  BY <1>1, <1>2 DEF Entries

LEMMA AllEntries ==
  ASSUME TaskOK, NEW layout, NEW p
  PROVE  /\ AllOf(layout, p) = Mine(Roles(layout)[1], <<0, task.M>>, p)
                                 \X Mine(Roles(layout)[2], <<0, task.S>>, p)
         /\ AllOf(layout, p) \subseteq (0 .. task.M - 1) \X (0 .. task.S - 1)
<1>1. task.M \in Nat \ {0} /\ task.S \in Nat \ {0}
  BY TaskNumbers
<1>2. IsWindow(<<0, task.M>>, task.M) /\ IsWindow(<<0, task.S>>, task.S)
  BY <1>1 DEF IsWindow, Within
<1>3. AllOf(layout, p) = Mine(Roles(layout)[1], <<0, task.M>>, p)
                           \X Mine(Roles(layout)[2], <<0, task.S>>, p)
  BY <1>2, HeldEntries DEF AllOf
<1>4. /\ Mine(Roles(layout)[1], <<0, task.M>>, p) \subseteq 0 .. task.M - 1
      /\ Mine(Roles(layout)[2], <<0, task.S>>, p) \subseteq 0 .. task.S - 1
  BY <1>2 DEF Mine, IsWindow
<1>5. QED
  BY <1>3, <1>4

InWindow(at) == at[1] \in Within(mWin) /\ at[2] \in Within(sWin)

LEMMA WindowEntries ==
  ASSUME LoopOK, NEW p
  PROVE  Window(p) = {at \in AllOf(Work, p) : InWindow(at)}
<1> DEFINE a == Roles(Work)[1]
           b == Roles(Work)[2]
<1>1. Window(p) = Mine(a, mWin, p) \X Mine(b, sWin, p)
  BY Windows, HeldEntries DEF Window
<1>2. AllOf(Work, p) = Mine(a, <<0, task.M>>, p) \X Mine(b, <<0, task.S>>, p)
  BY AllEntries DEF LoopOK
<1>3. task.M \in Nat \ {0} /\ task.S \in Nat \ {0}
  BY TaskNumbers DEF LoopOK
<1>4. Within(mWin) \subseteq Within(<<0, task.M>>)
      /\ Within(sWin) \subseteq Within(<<0, task.S>>)
  BY <1>3, Windows DEF IsWindow, Within
<1> HIDE DEF a, b
<1>5. Mine(a, mWin, p) = {g \in Mine(a, <<0, task.M>>, p) : g \in Within(mWin)}
      /\ Mine(b, sWin, p) = {g \in Mine(b, <<0, task.S>>, p) : g \in Within(sWin)}
  BY <1>4 DEF Mine
<1>6. QED
  BY <1>1, <1>2, <1>5 DEF InWindow

(* The terms of an entry, for some of the indices that are summed over.    *)
Terms(at, K) == {<<at[2], k, at[1], k>> : k \in K}

LEMMA TermsOf ==
  ASSUME NEW at, NEW s, NEW K, Enumerates(s, K)
  PROVE  Enumerates([i \in DOMAIN s |-> <<at[2], s[i], at[1], s[i]>>],
                    Terms(at, K))
<1> DEFINE n == Len(s)
           T == Terms(at, K)
           t == [i \in 1 .. n |-> <<at[2], s[i], at[1], s[i]>>]
<1>1. n \in Nat /\ DOMAIN s = 1 .. n /\ \A i \in 1 .. n : s[i] \in K
  BY DEF Enumerates
<1>2. \A e \in K : \E i \in 1 .. n : s[i] = e
  BY DEF Enumerates
<1>3. \A i, j \in 1 .. n : s[i] = s[j] => i = j
  BY DEF Enumerates
<1>4. \A i \in 1 .. n : t[i] = <<at[2], s[i], at[1], s[i]>> /\ t[i] \in T
  BY <1>1 DEF Terms
<1> HIDE DEF n
<1>5. t \in Seq(T) /\ Len(t) = n
  BY <1>1, <1>4
<1>6. \A e \in T : \E i \in 1 .. n : t[i] = e
  <2> TAKE e \in T
  <2>1. PICK k \in K : e = <<at[2], k, at[1], k>>
    BY DEF Terms
  <2>2. PICK i \in 1 .. n : s[i] = k
    BY <1>2
  <2>3. QED
    BY <1>4, <2>1, <2>2
<1>7. \A i, j \in 1 .. n : t[i] = t[j] => i = j
  BY <1>3, <1>4
<1> HIDE DEF t, T
<1>8. Enumerates(t, T)
  BY <1>5, <1>6, <1>7 DEF Enumerates
<1>9. QED
  BY <1>1, <1>8 DEF t, T

(* What a process multiplies.                                              *)
LEMMA Factors ==
  ASSUME LoopOK, NEW p \in Rank
  PROVE  /\ LocalA(p) = <<Local(plan.A[1], mWin, p), Local(plan.A[2], nWin, p)>>
         /\ LocalR(p) = <<Local(plan.R[1], sWin, p), Local(plan.A[2], nWin, p)>>
         /\ LocalC(p) = <<Local(plan.A[1], mWin, p), Local(plan.R[1], sWin, p)>>
<1>1. /\ plan.R[1] \in Dists /\ plan.R[2] \in Dists /\ plan.A[2] = plan.R[2]
      /\ plan.into # "contract" => /\ plan.A[1] = Roles(Work)[1]
                                   /\ plan.R[1] = Roles(Work)[2]
  BY DEF LoopOK, SoundPlan
<1>2. ASSUME NEW d \in Dists, NEW win, NEW size, IsWindow(win, size)
      PROVE  Realized(d, win, p) = Local(d, win, p)
  <2>1. PICK w \in Nat, c \in Nat : win = <<w, c>>
    BY <1>2 DEF IsWindow
  <2>2. QED
    BY <2>1, RealizedIsLocal DEF LoopOK
<1>3. Realized(plan.R[1], sWin, p) = Local(plan.R[1], sWin, p)
      /\ Realized(plan.R[2], nWin, p) = Local(plan.A[2], nWin, p)
  BY <1>1, <1>2, Windows
<1>4. LocalA(p) = <<Local(plan.A[1], mWin, p), Local(plan.A[2], nWin, p)>>
  BY DEF LocalA
<1>5. LocalR(p) = <<Local(plan.R[1], sWin, p), Local(plan.A[2], nWin, p)>>
  BY <1>3 DEF LocalR
<1>6. LocalC(p) = <<Local(plan.A[1], mWin, p), Local(plan.R[1], sWin, p)>>
  <2>1. CASE plan.into = "contract"
    BY <1>4, <1>5, <2>1 DEF LocalC
  <2>2. CASE plan.into # "contract"
    BY <1>1, <2>2 DEF LocalC, Held
  <2>3. QED
    BY <2>1, <2>2
<1>7. QED
  BY <1>4, <1>5, <1>6

LEMMA ProductEntries ==
  ASSUME LoopOK, NEW p \in Rank
  PROVE  Entries(LocalC(p))
           = Mine(plan.A[1], mWin, p) \X Mine(plan.R[1], sWin, p)
<1>1. Range(Local(plan.A[1], mWin, p)) = Mine(plan.A[1], mWin, p)
      /\ Range(Local(plan.R[1], sWin, p)) = Mine(plan.R[1], sWin, p)
  BY Windows, LocalOf
<1>2. QED
  BY <1>1, Factors DEF Entries

(* Gemm pairs the right columns with the right rows.                       *)
LEMMA ProductEnumerates ==
  ASSUME LoopOK, NEW p \in Rank, NEW at \in Entries(LocalC(p))
  PROVE  Enumerates(Product(p)[at], Terms(at, Mine(plan.A[2], nWin, p)))
<1> DEFINE a == Local(plan.A[1], mWin, p)
           r == Local(plan.R[1], sWin, p)
           l == Local(plan.A[2], nWin, p)
<1>1. LocalA(p) = <<a, l>> /\ LocalR(p) = <<r, l>> /\ LocalC(p) = <<a, r>>
  BY Factors
<1>2. Enumerates(l, Mine(plan.A[2], nWin, p))
  BY Windows, LocalOf
<1> HIDE DEF a, r, l
<1> DEFINE i == CHOOSE i \in DOMAIN a : a[i] = at[1]
           j == CHOOSE j \in DOMAIN r : r[j] = at[2]
<1>3. at[1] \in Range(a) /\ at[2] \in Range(r)
  BY <1>1 DEF Entries
<1>4. a[i] = at[1] /\ r[j] = at[2]
  BY <1>3 DEF Range
<1>5. Product(p)[at] = [k \in DOMAIN l |-> <<r[j], l[k], a[i], l[k]>>]
  <2>1. at \in Entries(<<a, r>>)
    BY <1>1
  <2>2. QED
    BY <1>1, <2>1 DEF Product
<1>6. Product(p)[at] = [k \in DOMAIN l |-> <<at[2], l[k], at[1], l[k]>>]
  <2> HIDE DEF i, j
  <2>1. QED
    BY <1>4, <1>5
<1>7. QED
  BY <1>2, <1>6, TermsOf

LEMMA RankFinite ==
  ASSUME TaskOK
  PROVE  IsFiniteSet(Rank)
<1>1. /\ task.grid[1] \in Nat \ {0} /\ task.grid[2] \in Nat \ {0}
      /\ Rank = (0 .. task.grid[1] - 1) \X (0 .. task.grid[2] - 1)
  BY TaskNumbers
<1>2. IsFiniteSet(0 .. task.grid[1] - 1) /\ IsFiniteSet(0 .. task.grid[2] - 1)
  <2>1. /\ 0 \in Int /\ task.grid[1] - 1 \in Int /\ task.grid[2] - 1 \in Int
    BY <1>1
  <2>2. QED
    BY <2>1, FS_Interval
<1>3. QED
  BY <1>1, <1>2, FS_Product

(* The partial sums of an entry are over parts of the whole range, every   *)
(* index of it in one part.                                                *)
LEMMA ContractedEnumerates ==
  ASSUME LoopOK, plan.into = "contract", NEW at \in Nat \X Nat, InWindow(at)
  PROVE  Enumerates(Contracted(at), Terms(at, 0 .. task.N - 1))
<1> DEFINE H == {p \in Rank : at \in Entries(LocalC(p))}
           part(p) == Mine(plan.A[2], nWin, p)
           s == SetToSeq(H)
           n == Len(s)
           q == [i \in 1 .. n |-> Product(s[i])[at]]
           W == [i \in 1 .. n |-> Terms(at, part(s[i]))]
<1>1. Enumerates(s, H)
  <2>1. IsFiniteSet(H)
    BY RankFinite, FS_Subset DEF LoopOK
  <2>2. QED
    BY <2>1, SetToSeqEnumerates
<1>2. /\ n \in Nat /\ DOMAIN s = 1 .. n /\ \A i \in 1 .. n : s[i] \in H
      /\ \A p \in H : \E i \in 1 .. n : s[i] = p
      /\ \A i, j \in 1 .. n : s[i] = s[j] => i = j
  <2> HIDE DEF s, H
  <2>1. n \in Nat /\ DOMAIN s = 1 .. n /\ \A i \in 1 .. n : s[i] \in H
    BY <1>1 DEF Enumerates
  <2>2. QED
    BY <1>1, <2>1 DEF Enumerates
<1>3. Contracted(at) = FlattenSeq(q)
  BY <1>2 DEF Contracted
<1>4. /\ plan.R[1] = "STAR" /\ Crossed(plan.A[1], plan.A[2])
      /\ nWin = <<0, task.N>> /\ task.N \in Nat \ {0}
  <2>1. plan.slices # "n" /\ plan.R[1] = "STAR" /\ Crossed(plan.A[1], plan.A[2])
    BY DEF LoopOK, SoundPlan
  <2>2. QED
    BY <2>1, TaskNumbers DEF LoopOK, nWin
<1>5. at[1] \in Nat /\ at[2] \in Nat /\ at = <<at[1], at[2]>>
  OBVIOUS
<1>6. \A p \in Rank : at \in Entries(LocalC(p)) <=> Holds(plan.A[1], at[1], p)
  <2>1. \A p \in Rank : Holds("STAR", at[2], p)
    <3>1. at[2] % 1 = 0
      BY <1>5, DivMod
    <3>2. QED
      BY <3>1, Places DEF Holds, LoopOK
  <2>2. ASSUME NEW p \in Rank
        PROVE  at \in Entries(LocalC(p)) <=> Holds(plan.A[1], at[1], p)
    <3>1. Entries(LocalC(p)) = Mine(plan.A[1], mWin, p) \X Mine("STAR", sWin, p)
      BY <1>4, ProductEntries
    <3>2. at[2] \in Mine("STAR", sWin, p)
      BY <2>1 DEF Mine, InWindow
    <3>3. at[1] \in Mine(plan.A[1], mWin, p) <=> Holds(plan.A[1], at[1], p)
      BY DEF Mine, InWindow
    <3>4. QED
      BY <1>5, <3>1, <3>2, <3>3
  <2>3. QED
    BY <2>2
<1>7. \A p : part(p) = {k \in 0 .. task.N - 1 : Holds(plan.A[2], k, p)}
  <2>1. Within(nWin) = 0 .. task.N - 1
    BY <1>4 DEF Within
  <2>2. QED
    BY <2>1 DEF Mine
<1> HIDE DEF H, s, n, part, q, W
<1>8. ASSUME NEW k \in 0 .. task.N - 1
      PROVE  \E i \in 1 .. n : k \in part(s[i])
  <2>1. k \in Nat
    BY <1>4
  <2>2. PICK p \in Rank : Holds(plan.A[1], at[1], p) /\ Holds(plan.A[2], k, p)
    BY <1>4, <1>5, <2>1, OneHolder DEF LoopOK
  <2>3. p \in H
    BY <1>6, <2>2 DEF H
  <2>4. QED
    BY <1>2, <1>7, <2>2, <2>3
<1>9. ASSUME NEW i \in 1 .. n, NEW j \in 1 .. n, i # j
      PROVE  part(s[i]) \cap part(s[j]) = {}
  <2>1. ASSUME NEW k \in part(s[i]), k \in part(s[j]) PROVE FALSE
    <3>1. k \in Nat /\ Holds(plan.A[2], k, s[i]) /\ Holds(plan.A[2], k, s[j])
      BY <1>4, <1>7, <2>1
    <3>2. s[i] \in Rank /\ s[j] \in Rank
          /\ Holds(plan.A[1], at[1], s[i]) /\ Holds(plan.A[1], at[1], s[j])
      BY <1>2, <1>6 DEF H
    <3>3. \A p, r \in Rank : /\ Holds(plan.A[1], at[1], p)
                             /\ Holds(plan.A[2], k, p)
                             /\ Holds(plan.A[1], at[1], r)
                             /\ Holds(plan.A[2], k, r)
                             => p = r
      BY <1>4, <1>5, <3>1, OneHolder DEF LoopOK
    <3>4. s[i] = s[j]
      BY <3>1, <3>2, <3>3
    <3>5. QED
      BY <1>2, <1>9, <3>4
  <2>2. QED
    BY <2>1
<1>10. \A i \in 1 .. n : Enumerates(q[i], W[i])
  <2> TAKE i \in 1 .. n
  <2>1. s[i] \in Rank /\ at \in Entries(LocalC(s[i]))
    BY <1>2 DEF H
  <2>2. Enumerates(Product(s[i])[at], Terms(at, Mine(plan.A[2], nWin, s[i])))
    BY <2>1, ProductEnumerates
  <2>3. QED
    BY <2>2 DEF q, W, part
<1>11. \A i, j \in 1 .. n : i # j => W[i] \cap W[j] = {}
  BY <1>9 DEF W, Terms
<1>12. UNION {W[i] : i \in 1 .. n} = Terms(at, 0 .. task.N - 1)
  <2>1. \A i \in 1 .. n : W[i] = Terms(at, part(s[i]))
    BY DEF W
  <2>2. \A i \in 1 .. n : part(s[i]) \subseteq 0 .. task.N - 1
    BY <1>7
  <2>3. QED
    BY <1>8, <2>1, <2>2 DEF Terms
<1> DEFINE V == {q[i] : i \in 1 .. n}
<1>13. q \in [1 .. n -> V]
  BY DEF q
<1> HIDE DEF V
<1>14. Enumerates(FlattenSeq(q), Together(n, W))
  BY <1>2, <1>10, <1>11, <1>13, EnumeratesAll
<1>15. QED
  BY <1>3, <1>12, <1>14 DEF Together
-----------------------------------------------------------------------------
(***************************************************************************)
(* One multiplication: outside of its window it changes nothing; in it, an *)
(* entry has all its terms, or the terms of one more panel.                *)
(***************************************************************************)
Full(at, s) == Enumerates(s, Terms(at, 0 .. task.N - 1))

Shaped(layout, o) ==
  /\ DOMAIN o = Rank
  /\ \A p \in Rank : DOMAIN o[p] = AllOf(layout, p)

Multiplied(p, at) ==
  /\ ~ InWindow(at) => out'[p][at] = out[p][at]
  /\ InWindow(at) /\ plan.into # "add" => Full(at, out'[p][at])
  /\ plan.into = "add" =>
       \E s : /\ out'[p][at] = out[p][at] \o s
              /\ Enumerates(s, Terms(at, Within(nWin)))

LEMMA StarHoldsAll ==
  ASSUME LoopOK, NEW p \in Rank, NEW win, NEW size, IsWindow(win, size)
  PROVE  Mine("STAR", win, p) = Within(win)
<1>1. \A g \in Within(win) : g \in Nat
  BY DEF IsWindow, Within
<1>2. \A g \in Nat : g % 1 = 0
  BY DivMod
<1>3. Stride("STAR") = 1 /\ RankIn("STAR", p) = 0
  BY Places DEF LoopOK
<1>4. QED
  BY <1>1, <1>2, <1>3 DEF Mine, Holds

LEMMA EntryIsPair ==
  ASSUME LoopOK, NEW p, NEW at \in AllOf(Work, p)
  PROVE  /\ at \in Nat \X Nat
         /\ at[1] \in 0 .. task.M - 1 /\ at[2] \in 0 .. task.S - 1
<1>1. at \in (0 .. task.M - 1) \X (0 .. task.S - 1)
  BY AllEntries DEF LoopOK
<1>2. QED
  BY <1>1

LEMMA MultiplyWorks ==
  ASSUME LoopOK, Shaped(Work, out), Multiply
  PROVE  /\ Shaped(Work, out')
         /\ \A p \in Rank : \A at \in AllOf(Work, p) : Multiplied(p, at)
<1>1. \A p \in Rank : \A at \in AllOf(Work, p) :
        at \in Window(p) <=> InWindow(at)
  BY WindowEntries
<1>2. CASE plan.into = "contract"
  <2> DEFINE held == UNION {Window(p) : p \in Rank}
             sums == [at \in held |-> Contracted(at)]
  <2>1. out' = [p \in Rank |->
                 [at \in DOMAIN out[p] |->
                    IF at \in Window(p) THEN sums[at] ELSE out[p][at]]]
    BY <1>2 DEF Multiply, UpdatedByContraction
  <2>2. \A p \in Rank : \A at \in Window(p) : at \in held
    OBVIOUS
  <2>3. \A at \in held : sums[at] = Contracted(at)
    OBVIOUS
  <2> HIDE DEF sums, held
  <2>4. Shaped(Work, out')
    BY <2>1 DEF Shaped
  <2>5. ASSUME NEW p \in Rank, NEW at \in AllOf(Work, p)
        PROVE  Multiplied(p, at)
    <3>1. at \in DOMAIN out[p]
      BY DEF Shaped
    <3>2. out'[p][at] = IF at \in Window(p) THEN sums[at] ELSE out[p][at]
      BY <2>1, <3>1
    <3>3. CASE InWindow(at)
      <4>1. out'[p][at] = Contracted(at)
        BY <1>1, <2>2, <2>3, <3>2, <3>3
      <4>2. Full(at, Contracted(at))
        BY <1>2, <3>3, EntryIsPair, ContractedEnumerates DEF Full
      <4>3. QED
        BY <1>2, <3>3, <4>1, <4>2 DEF Multiplied
    <3>4. CASE ~ InWindow(at)
      BY <1>1, <1>2, <3>2, <3>4 DEF Multiplied
    <3>5. QED
      BY <3>3, <3>4
  <2>6. QED
    BY <2>4, <2>5
<1>3. CASE plan.into # "contract"
  <2>1. out' = [p \in Rank |->
                 [at \in DOMAIN out[p] |->
                    IF at \notin Window(p) THEN out[p][at]
                    ELSE IF plan.into = "set" THEN Product(p)[at]
                    ELSE out[p][at] \o Product(p)[at]]]
    BY <1>3 DEF Multiply, UpdatedInPlace
  <2>2. Shaped(Work, out')
    BY <2>1 DEF Shaped
  <2>3. ASSUME NEW p \in Rank, NEW at \in AllOf(Work, p)
        PROVE  Multiplied(p, at)
    <3>1. at \in DOMAIN out[p]
      BY DEF Shaped
    <3>2. out'[p][at] = IF at \notin Window(p) THEN out[p][at]
                        ELSE IF plan.into = "set" THEN Product(p)[at]
                        ELSE out[p][at] \o Product(p)[at]
      BY <2>1, <3>1
    <3>3. plan.A[2] = "STAR" /\ plan.into \in {"set", "add"}
          /\ (plan.into = "set" => plan.slices # "n")
          /\ (plan.into = "add" => plan.slices # "s" /\ ~ plan.blocks)
      BY <1>3 DEF LoopOK, SoundPlan
    <3>4. CASE InWindow(at)
      <4>1. at \in Window(p)
        BY <1>1, <3>4
      <4>2. at \in Entries(LocalC(p))
        BY <1>3, <4>1 DEF LocalC, Window
      <4>3. Enumerates(Product(p)[at], Terms(at, Within(nWin)))
        <5>1. Mine("STAR", nWin, p) = Within(nWin)
          BY Windows, StarHoldsAll
        <5>2. QED
          BY <3>3, <4>2, <5>1, ProductEnumerates
      <4>4. CASE plan.into = "set"
        <5>1. Within(nWin) = 0 .. task.N - 1
          <6>1. nWin = <<0, task.N>> /\ task.N \in Nat
            BY <3>3, <4>4, TaskNumbers DEF nWin, LoopOK
          <6>2. QED
            BY <6>1 DEF Within
        <5>2. QED
          BY <3>2, <3>4, <4>1, <4>3, <4>4, <5>1 DEF Multiplied, Full
      <4>5. CASE plan.into = "add"
        BY <3>2, <3>4, <4>1, <4>3, <4>5 DEF Multiplied
      <4>6. QED
        BY <3>3, <4>4, <4>5
    <3>5. CASE ~ InWindow(at)
      <4>1. out'[p][at] = out[p][at]
        BY <1>1, <3>2, <3>5
      <4>2. plan.into # "add"
        <5>1. ASSUME plan.into = "add" PROVE InWindow(at)
          <6>1. mWin = <<0, task.M>> /\ sWin = <<0, task.S>>
                /\ task.M \in Nat /\ task.S \in Nat
            BY <3>3, <5>1, TaskNumbers DEF mWin, sWin, LoopOK
          <6>2. QED
            BY <6>1, EntryIsPair DEF InWindow, Within
        <5>2. QED
          BY <3>5, <5>1
      <4>3. QED
        BY <3>5, <4>1, <4>2 DEF Multiplied
    <3>6. QED
      BY <3>4, <3>5
  <2>4. QED
    BY <2>2, <2>3
<1>4. QED
  BY <1>2, <1>3

(***************************************************************************)
(* The invariant.  While the sketch is made, what is before the current    *)
(* panel, and before the current block of it, has every term; in a sketch  *)
(* that is added up, every entry has the terms of the panels that are done.*)
(***************************************************************************)
Before(at) == at[2] < base \/ (at[2] < base + B /\ at[1] < row)

Made(p, at) ==
  /\ plan.into = "add" => Enumerates(out[p][at], Terms(at, 0 .. base - 1))
  /\ plan.slices = "s" /\ Before(at) => Full(at, out[p][at])

Finished == \A p \in Rank : \A at \in DOMAIN out[p] : Full(at, out[p][at])

Inv ==
  /\ TaskOK
  /\ phase \in {"choose", "loop", "copy", "returned", "thrown"}
  /\ base \in 0 .. task.N + task.S
  /\ row \in 0 .. task.M
  /\ phase = "choose" => base = 0 /\ row = 0
  /\ phase \in {"choose", "loop", "copy"} => Shaped(Work, out)
  /\ phase = "loop" => /\ LoopOK /\ plan # NotImplemented
                       /\ \A p \in Rank : \A at \in AllOf(Work, p) : Made(p, at)
  /\ phase = "copy" => Copied /\ Finished
  /\ phase = "returned" => Shaped(task.output, out) /\ Finished

LEMMA InitInv ==
  ASSUME Init
  PROVE  Inv
<1>1. TaskOK
  <2>1. PICK app \in Applications :
          task \in [input : {app[1]}, output : {app[2]},
                   tag : {"rowwise", "columnwise"}, grid : Grids,
                   M : Ms, N : Ns, S : Ss, blocksize : Blocksizes]
    BY DEF Init
  <2>2. app = <<app[1], app[2]>>
    BY DEF Applications
  <2>3. task.input = app[1] /\ task.output = app[2]
    BY <2>1
  <2>4. <<task.input, task.output>> \in Applications
    BY <2>2, <2>3
  <2>5. QED
    BY <2>1, <2>4 DEF TaskOK, Tags
<1>2. task.M \in Nat \ {0} /\ task.N \in Nat \ {0} /\ task.S \in Nat \ {0}
  BY <1>1, TaskNumbers
<1>3. Shaped(Work, out)
  BY DEF Init, Shaped
<1>4. QED
  BY <1>1, <1>2, <1>3 DEF Init, Inv

(* What does not change because the task does not.                         *)
LEMMA TaskStays ==
  ASSUME task' = task
  PROVE  /\ Rank' = Rank
         /\ TaskOK' = TaskOK
         /\ Work' = Work
         /\ Copied' = Copied
         /\ \A layout, p : AllOf(layout, p)' = AllOf(layout, p)
         /\ \A at, s : Full(at, s)' = Full(at, s)
<1>1. Rank' = Rank
  BY DEF Rank
<1>2. TaskOK' = TaskOK
  BY DEF TaskOK
<1>3. Work' = Work /\ Copied' = Copied
  BY DEF Work, Copied
<1>4. \A layout, p : AllOf(layout, p)' = AllOf(layout, p)
  BY DEF AllOf, Held, Roles, Local
<1>5. \A at, s : Full(at, s)' = Full(at, s)
  BY DEF Full
<1>6. QED
  BY <1>1, <1>2, <1>3, <1>4, <1>5

LEMMA ChooseStep ==
  ASSUME Inv, Choose
  PROVE  Inv'
<1>1. /\ TaskOK /\ phase = "choose" /\ base = 0 /\ row = 0
      /\ Shaped(Work, out)
  BY DEF Inv, Choose
<1>2. /\ task' = task /\ base' = 0 /\ row' = 0 /\ plan' = Chosen
      /\ phase' = IF Chosen = NotImplemented THEN "thrown" ELSE "loop"
      /\ out' = IF Chosen.into = "add" THEN Zeroed ELSE out
  BY <1>1 DEF Choose
<1>3. /\ task.M \in Nat \ {0} /\ task.N \in Nat \ {0} /\ task.S \in Nat \ {0}
  BY <1>1, TaskNumbers
<1>4. /\ TaskOK' /\ base' \in 0 .. task'.N + task'.S /\ row' \in 0 .. task'.M
  BY <1>1, <1>2, <1>3, TaskStays
<1>5. CASE Chosen = NotImplemented
  BY <1>2, <1>4, <1>5 DEF Inv
<1>6. CASE Chosen # NotImplemented
  <2>1. phase' = "loop" /\ plan' # NotImplemented
    BY <1>2, <1>6
  <2>2. SoundPlan(plan)'
    <3>1. SoundPlan(Chosen)
      BY <1>1, <1>6, ChosenSound
    <3>2. Roles(Work)' = Roles(Work)
      BY <1>2 DEF Roles, Work, Copied
    <3>3. QED
      BY <1>2, <3>1, <3>2 DEF SoundPlan
  <2>3. LoopOK'
    <3>1. base' \in 0 .. Sliced'
      BY <1>2, <1>3 DEF Sliced
    <3>2. QED
      BY <1>2, <1>4, <2>2, <3>1 DEF LoopOK
  <2>4. Shaped(Work, out)'
    <3>1. Shaped(Work, Zeroed)
      BY <1>1 DEF Shaped, Zeroed
    <3>2. Shaped(Work, out')
      BY <1>1, <1>2, <3>1
    <3>3. QED
      BY <1>2, <3>2, TaskStays DEF Shaped
  <2>5. ASSUME NEW p \in Rank, NEW at \in AllOf(Work, p)
        PROVE  Made(p, at)'
    <3>1. CASE plan'.into = "add"
      <4>1. out'[p][at] = << >>
        BY <1>1, <1>2, <3>1 DEF Shaped, Zeroed
      <4>2. Terms(at, 0 .. base' - 1) = {}
        BY <1>2 DEF Terms
      <4>3. Enumerates(out'[p][at], Terms(at, 0 .. base' - 1))
        BY <4>1, <4>2, EnumeratesNothing
      <4>4. plan'.slices # "s"
        BY <2>2, <3>1 DEF SoundPlan
      <4>5. QED
        BY <4>3, <4>4 DEF Made
    <3>2. CASE plan'.into # "add"
      <4>1. at[1] \in Nat /\ at[2] \in Nat
        <5>1. at \in (0 .. task.M - 1) \X (0 .. task.S - 1)
          BY <1>1, AllEntries
        <5>2. QED
          BY <5>1
      <4>2. ~ Before(at)'
        BY <1>2, <4>1 DEF Before
      <4>3. QED
        BY <3>2, <4>2 DEF Made
    <3>3. QED
      BY <3>1, <3>2
  <2>6. \A p \in Rank' : \A at \in AllOf(Work, p)' : Made(p, at)'
    BY <1>2, <2>5, TaskStays
  <2>7. QED
    BY <1>4, <2>1, <2>3, <2>4, <2>6 DEF Inv
<1>7. QED
  BY <1>5, <1>6

(* A pass after which every entry is complete.                             *)
LEMMA Completes ==
  ASSUME Inv, phase = "loop", UNCHANGED <<task, base, row>>,
         phase' = IF Copied THEN "copy" ELSE "returned",
         Shaped(Work, out'),
         \A p \in Rank : \A at \in AllOf(Work, p) : Full(at, out'[p][at])
  PROVE  Inv'
<1>1. TaskOK
  BY DEF Inv
<1>2. /\ TaskOK' /\ base' \in 0 .. task'.N + task'.S /\ row' \in 0 .. task'.M
  BY TaskStays DEF Inv
<1>3. Shaped(Work, out)'
  BY TaskStays DEF Shaped
<1>4. Finished'
  BY <1>3, TaskStays DEF Shaped, Finished
<1>5. CASE Copied
  BY <1>2, <1>3, <1>4, <1>5, TaskStays DEF Inv
<1>6. CASE ~ Copied
  <2>1. Work = task.output
    BY <1>1, <1>6, TaskCases
  <2>2. Shaped(task.output, out)'
    BY <1>3, <2>1, TaskStays DEF Shaped
  <2>3. QED
    BY <1>2, <1>4, <1>6, <2>2 DEF Inv
<1>7. QED
  BY <1>5, <1>6

LEMMA MultiplyOnceStep ==
  ASSUME Inv, MultiplyOnce
  PROVE  Inv'
<1>1. /\ LoopOK /\ Shaped(Work, out) /\ Multiply /\ plan.slices = "none"
      /\ phase = "loop"
      /\ \A p \in Rank : \A at \in AllOf(Work, p) : Made(p, at)
  BY DEF Inv, MultiplyOnce
<1>2. Shaped(Work, out')
      /\ \A p \in Rank : \A at \in AllOf(Work, p) : Multiplied(p, at)
  BY <1>1, MultiplyWorks
<1>3. /\ task.M \in Nat /\ task.N \in Nat /\ task.S \in Nat
      /\ base = 0 /\ ~ plan.blocks
      /\ plan.into \in {"set", "add", "contract"}
  BY <1>1, TaskNumbers DEF LoopOK, SoundPlan
<1>4. sWin = <<0, task.S>> /\ nWin = <<0, task.N>> /\ mWin = <<0, task.M>>
  BY <1>1, <1>3 DEF sWin, nWin, mWin
<1>5. ASSUME NEW p \in Rank, NEW at \in AllOf(Work, p)
      PROVE  Full(at, out'[p][at])
  <2>1. InWindow(at)
    BY <1>1, <1>3, <1>4, EntryIsPair DEF InWindow, Within
  <2>2. CASE plan.into # "add"
    BY <1>2, <2>1, <2>2 DEF Multiplied
  <2>3. CASE plan.into = "add"
    <3>1. PICK s : /\ out'[p][at] = out[p][at] \o s
                   /\ Enumerates(s, Terms(at, Within(nWin)))
      BY <1>2, <2>3 DEF Multiplied
    <3>2. Enumerates(out[p][at], {})
      <4>1. Terms(at, 0 .. base - 1) = {}
        BY <1>3 DEF Terms
      <4>2. QED
        BY <1>1, <2>3, <4>1 DEF Made
    <3>3. Within(nWin) = 0 .. task.N - 1
      BY <1>3, <1>4 DEF Within
    <3> DEFINE T == Terms(at, 0 .. task.N - 1)
    <3>4. Enumerates(s, T)
      BY <3>1, <3>3
    <3> HIDE DEF T
    <3>5. {} \cap T = {} /\ {} \cup T = T
      OBVIOUS
    <3>6. Enumerates(out[p][at] \o s, T)
      BY <3>2, <3>4, <3>5, EnumeratesBoth
    <3>7. QED
      BY <3>1, <3>6 DEF Full, T
  <2>4. QED
    BY <2>2, <2>3
<1>6. QED
  BY <1>1, <1>2, <1>5, Completes DEF MultiplyOnce

LEMMA LeaveStep ==
  ASSUME Inv, Leave
  PROVE  Inv'
<1>1. /\ LoopOK /\ Shaped(Work, out) /\ phase = "loop"
      /\ \A p \in Rank : \A at \in AllOf(Work, p) : Made(p, at)
      /\ out' = out /\ UNCHANGED <<task, base, row>>
      /\ phase' = IF Copied THEN "copy" ELSE "returned"
      /\ plan.slices # "none" /\ base >= Sliced
  BY DEF Inv, Leave
<1>2. base = Sliced
  BY <1>1, PanelFits DEF LoopOK
<1>3. plan.slices \in {"s", "n"}
      /\ (plan.slices = "n" => plan.into = "add")
  BY <1>1 DEF LoopOK, SoundPlan
<1>4. ASSUME NEW p \in Rank, NEW at \in AllOf(Work, p)
      PROVE  Full(at, out'[p][at])
  <2>1. CASE plan.slices = "n"
    <3>1. base = task.N
      BY <1>2, <2>1 DEF Sliced
    <3>2. QED
      BY <1>1, <1>3, <2>1, <3>1 DEF Made, Full
  <2>2. CASE plan.slices = "s"
    <3>1. base = task.S /\ task.S \in Nat
      BY <1>1, <1>2, <2>2, TaskNumbers DEF Sliced, LoopOK
    <3>2. at[2] < base
      BY <1>1, <3>1, EntryIsPair
    <3>3. QED
      BY <1>1, <2>2, <3>2 DEF Made, Before
  <2>3. QED
    BY <1>3, <2>1, <2>2
<1>5. QED
  BY <1>1, <1>4, Completes

(* A pass after which the loop goes on.                                    *)
LEMMA GoesOn ==
  ASSUME Inv, phase = "loop", UNCHANGED <<task, phase, plan>>,
         base' \in 0 .. Sliced, row' \in 0 .. task.M,
         plan.slices = "none" => base' = 0,
         ~ plan.blocks => row' = 0,
         Shaped(Work, out'),
         \A p \in Rank : \A at \in AllOf(Work, p) : Made(p, at)'
  PROVE  Inv'
<1>1. LoopOK /\ TaskOK /\ plan # NotImplemented
  BY DEF Inv
<1>2. /\ task.M \in Nat \ {0} /\ task.N \in Nat \ {0} /\ task.S \in Nat \ {0}
  BY <1>1, TaskNumbers
<1>3. Sliced' = Sliced /\ Sliced \in 0 .. task.N + task.S
  BY <1>2 DEF Sliced
<1>4. TaskOK' /\ base' \in 0 .. task'.N + task'.S /\ row' \in 0 .. task'.M
  BY <1>1, <1>2, <1>3, TaskStays
<1>5. Shaped(Work, out)'
  BY TaskStays DEF Shaped
<1>6. SoundPlan(plan)'
  <2>1. SoundPlan(plan)
    BY <1>1 DEF LoopOK
  <2>2. Roles(Work)' = Roles(Work)
    BY DEF Roles, Work, Copied
  <2>3. QED
    BY <2>1, <2>2 DEF SoundPlan
<1>7. LoopOK'
  BY <1>3, <1>4, <1>6 DEF LoopOK
<1>8. \A p \in Rank' : \A at \in AllOf(Work, p)' : Made(p, at)'
  BY TaskStays
<1>9. QED
  BY <1>1, <1>4, <1>5, <1>7, <1>8 DEF Inv

LEMMA PanelStep ==
  ASSUME Inv, Panel
  PROVE  Inv'
<1>1. /\ LoopOK /\ Shaped(Work, out) /\ phase = "loop"
      /\ \A p \in Rank : \A at \in AllOf(Work, p) : Made(p, at)
      /\ plan.slices # "none" /\ ~ plan.blocks /\ base < Sliced
      /\ Multiply /\ base' = base + B
      /\ UNCHANGED <<task, phase, plan, row>>
  BY DEF Inv, Panel
<1>2. Shaped(Work, out')
      /\ \A p \in Rank : \A at \in AllOf(Work, p) : Multiplied(p, at)
  BY <1>1, MultiplyWorks
<1>3. /\ base \in Nat /\ B \in Nat /\ base + B <= Sliced /\ Sliced \in Nat
      /\ row = 0
  BY <1>1, PanelFits DEF LoopOK
<1>4. /\ task.M \in Nat /\ task.N \in Nat /\ task.S \in Nat
  BY <1>1, TaskNumbers DEF LoopOK
<1>5. /\ plan.slices \in {"s", "n"}
      /\ plan.slices = "n" => plan.into = "add"
      /\ plan.into = "add" => plan.slices = "n"
  BY <1>1 DEF LoopOK, SoundPlan
<1>6. mWin = <<0, task.M>>
  BY <1>1 DEF mWin
<1>7. ASSUME NEW p \in Rank, NEW at \in AllOf(Work, p)
      PROVE  Made(p, at)'
  <2>1. /\ at \in Nat \X Nat
        /\ at[1] \in 0 .. task.M - 1 /\ at[2] \in 0 .. task.S - 1
    BY <1>1, EntryIsPair
  <2>2. CASE plan.slices = "n"
    <3>1. PICK s : /\ out'[p][at] = out[p][at] \o s
                   /\ Enumerates(s, Terms(at, Within(nWin)))
      BY <1>2, <1>5, <2>2 DEF Multiplied
    <3> DEFINE T == Terms(at, 0 .. base - 1)
               U == Terms(at, Within(nWin))
    <3>2. Enumerates(out[p][at], T)
      BY <1>1, <1>5, <2>2 DEF Made
    <3>3. Within(nWin) = base .. base + B - 1
      BY <2>2 DEF nWin, Within
    <3>4. T \cap U = {} /\ T \cup U = Terms(at, 0 .. base' - 1)
      <4>1. (0 .. base - 1) \cap (base .. base + B - 1) = {}
            /\ (0 .. base - 1) \cup (base .. base + B - 1) = 0 .. base' - 1
        <5> HIDE DEF B
        <5>1. QED
          BY <1>1, <1>3
      <4>2. QED
        BY <3>3, <4>1 DEF Terms
    <3> HIDE DEF T, U
    <3>5. Enumerates(out[p][at] \o s, T \cup U)
      BY <3>1, <3>2, <3>4, EnumeratesBoth DEF U
    <3>6. Enumerates(out'[p][at], Terms(at, 0 .. base' - 1))
      BY <3>1, <3>4, <3>5
    <3>7. QED
      BY <1>1, <2>2, <3>6 DEF Made
  <2>3. CASE plan.slices = "s"
    <3>1. ASSUME Before(at)' PROVE Full(at, out'[p][at])
      <4>1. at[2] < base + B
        BY <1>1, <1>3, <2>1, <3>1 DEF Before
      <4>2. sWin = <<base, B>>
        BY <2>3 DEF sWin
      <4>3. CASE at[2] < base
        <5>1. ~ InWindow(at)
          BY <1>3, <2>1, <4>2, <4>3 DEF InWindow, Within
        <5>2. Full(at, out[p][at])
          BY <1>1, <2>3, <4>3 DEF Made, Before
        <5>3. QED
          BY <1>2, <5>1, <5>2 DEF Multiplied
      <4>4. CASE ~ (at[2] < base)
        <5>1. InWindow(at)
          BY <1>3, <1>4, <1>6, <2>1, <4>1, <4>2, <4>4 DEF InWindow, Within
        <5>2. QED
          BY <1>2, <1>5, <2>3, <5>1 DEF Multiplied
      <4>5. QED
        BY <4>3, <4>4
    <3>2. QED
      BY <1>1, <1>5, <2>3, <3>1, TaskStays DEF Made
  <2>4. QED
    BY <1>5, <2>2, <2>3
<1>8. base' \in 0 .. Sliced /\ row' \in 0 .. task.M
  <2> HIDE DEF B, Sliced
  <2>1. QED
    BY <1>1, <1>3, <1>4
<1>9. QED
  BY <1>1, <1>2, <1>3, <1>7, <1>8, GoesOn

LEMMA BlockStep ==
  ASSUME Inv, Block
  PROVE  Inv'
<1>1. /\ LoopOK /\ Shaped(Work, out) /\ phase = "loop"
      /\ \A p \in Rank : \A at \in AllOf(Work, p) : Made(p, at)
      /\ plan.blocks /\ base < Sliced
      /\ UNCHANGED <<task, phase, plan>>
  BY DEF Inv, Block
<1>2. /\ base \in Nat /\ B \in Nat /\ base + B <= Sliced /\ Sliced \in Nat
      /\ row \in 0 .. task.M
  BY <1>1, PanelFits DEF LoopOK
<1>3. /\ task.M \in Nat /\ task.N \in Nat /\ task.S \in Nat
  BY <1>1, TaskNumbers DEF LoopOK
<1>4. plan.slices = "s" /\ plan.into # "add"
  BY <1>1 DEF LoopOK, SoundPlan
<1>5. sWin = <<base, B>>
  BY <1>4 DEF sWin
<1>6. CASE row < task.M /\ Multiply /\ row' = row + mWin[2] /\ base' = base
  <2> DEFINE c == Smaller(B, task.M - row)
  <2>1. mWin = <<row, c>>
    BY <1>1 DEF mWin
  <2>2. c \in Nat /\ row + c <= task.M
    BY <1>2, <1>3 DEF Smaller
  <2>3. row' = row + c
    BY <1>6, <2>1
  <2> HIDE DEF c
  <2>4. Shaped(Work, out')
        /\ \A p \in Rank : \A at \in AllOf(Work, p) : Multiplied(p, at)
    BY <1>1, <1>6, MultiplyWorks
  <2>5. B' = B
    BY <1>1, <1>6 DEF B, Sliced
  <2>6. ASSUME NEW p \in Rank, NEW at \in AllOf(Work, p)
        PROVE  Made(p, at)'
    <3>1. /\ at[1] \in 0 .. task.M - 1 /\ at[2] \in 0 .. task.S - 1
      BY <1>1, EntryIsPair
    <3>2. ASSUME Before(at)' PROVE Full(at, out'[p][at])
      <4>1. at[2] < base \/ (at[2] < base + B /\ at[1] < row + c)
        BY <1>6, <2>3, <2>5, <3>2 DEF Before
      <4>2. CASE Before(at)
        <5>1. ~ InWindow(at)
          BY <1>2, <1>5, <2>1, <2>2, <3>1, <4>2 DEF Before, InWindow, Within
        <5>2. Full(at, out[p][at])
          BY <1>1, <1>4, <4>2 DEF Made
        <5>3. QED
          BY <2>4, <5>1, <5>2 DEF Multiplied
      <4>3. CASE ~ Before(at)
        <5>1. InWindow(at)
          BY <1>2, <1>5, <2>1, <2>2, <3>1, <4>1, <4>3
             DEF Before, InWindow, Within
        <5>2. QED
          BY <1>4, <2>4, <5>1 DEF Multiplied
      <4>4. QED
        BY <4>2, <4>3
    <3>3. QED
      BY <1>1, <1>4, <3>2, TaskStays DEF Made
  <2>7. base' \in 0 .. Sliced /\ row' \in 0 .. task.M
    <3> HIDE DEF B, Sliced
    <3>1. QED
      BY <1>2, <1>3, <1>6, <2>2, <2>3
  <2>8. QED
    BY <1>1, <1>4, <2>4, <2>6, <2>7, GoesOn
<1>7. CASE row >= task.M /\ row' = 0 /\ base' = base + B /\ out' = out
  <2>1. ASSUME NEW p \in Rank, NEW at \in AllOf(Work, p)
        PROVE  Made(p, at)'
    <3>1. /\ at[1] \in 0 .. task.M - 1 /\ at[2] \in 0 .. task.S - 1
      BY <1>1, EntryIsPair
    <3>2. ASSUME Before(at)' PROVE Full(at, out'[p][at])
      <4>1. at[2] < base + B
        BY <1>2, <1>7, <3>1, <3>2 DEF Before
      <4>2. Before(at)
        BY <1>2, <1>3, <1>7, <3>1, <4>1 DEF Before
      <4>3. QED
        BY <1>1, <1>4, <1>7, <4>2 DEF Made
    <3>3. QED
      BY <1>1, <1>4, <3>2, TaskStays DEF Made
  <2>2. base' \in 0 .. Sliced /\ row' \in 0 .. task.M
    <3> HIDE DEF B, Sliced
    <3>1. QED
      BY <1>2, <1>3, <1>7
  <2>3. Shaped(Work, out')
    BY <1>1, <1>7
  <2>4. QED
    BY <1>1, <1>4, <1>7, <2>1, <2>2, <2>3, GoesOn
<1>8. QED
  BY <1>6, <1>7 DEF Block

(* Whatever matrix is copied from, every entry is held by some process.    *)
LEMMA Covered ==
  ASSUME TaskOK, Copied, NEW at \in (0 .. task.M - 1) \X (0 .. task.S - 1)
  PROVE  \E q \in Rank : at \in AllOf(Work, q)
<1> DEFINE d == Roles(Work)
<1>1. Work \in {MC_MR} \cup ColDists \cup RowDists
  BY TaskCases DEF Work, Copied
<1>2. Crossed(d[1], d[2]) \/ Crossed(d[2], d[1])
  BY <1>1 DEF Crossed, Roles, MC_MR, ColDists, RowDists
<1>3. task.M \in Nat \ {0} /\ task.S \in Nat \ {0}
  BY TaskNumbers
<1>4. at[1] \in Nat /\ at[2] \in Nat
  BY <1>3
<1> HIDE DEF d
<1>5. PICK q \in Rank : Holds(d[1], at[1], q) /\ Holds(d[2], at[2], q)
  <2>1. CASE Crossed(d[1], d[2])
    BY <1>4, <2>1, OneHolder
  <2>2. CASE Crossed(d[2], d[1])
    BY <1>4, <2>2, OneHolder
  <2>3. QED
    BY <1>2, <2>1, <2>2
<1>6. at \in Mine(d[1], <<0, task.M>>, q) \X Mine(d[2], <<0, task.S>>, q)
  BY <1>3, <1>5 DEF Mine, Within
<1>7. QED
  BY <1>6, AllEntries DEF d

LEMMA CopyStep ==
  ASSUME Inv, Copy
  PROVE  Inv'
<1>1. /\ TaskOK /\ phase = "copy" /\ Copied /\ Finished /\ Shaped(Work, out)
      /\ phase' = "returned" /\ UNCHANGED <<task, plan, base, row>>
      /\ base \in 0 .. task.N + task.S /\ row \in 0 .. task.M
  BY DEF Inv, Copy
<1>2. out' = [p \in Rank |->
               [at \in AllOf(task.output, p) |->
                  LET q == CHOOSE q \in Rank : at \in DOMAIN out[q]
                  IN  out[q][at]]]
  BY DEF Copy
<1>3. Shaped(task.output, out')
  BY <1>2 DEF Shaped
<1>4. ASSUME NEW p \in Rank, NEW at \in AllOf(task.output, p)
      PROVE  Full(at, out'[p][at])
  <2> DEFINE q == CHOOSE q \in Rank : at \in DOMAIN out[q]
  <2>1. at \in (0 .. task.M - 1) \X (0 .. task.S - 1)
    BY <1>1, AllEntries
  <2>2. \E r \in Rank : at \in DOMAIN out[r]
    BY <1>1, <2>1, Covered DEF Shaped
  <2>3. q \in Rank /\ at \in DOMAIN out[q]
    BY <2>2
  <2>4. out'[p][at] = out[q][at]
    BY <1>2
  <2>5. QED
    BY <1>1, <2>3, <2>4 DEF Finished
<1>5. Finished'
  BY <1>1, <1>3, <1>4, TaskStays DEF Shaped, Finished
<1>6. Shaped(task.output, out)'
  BY <1>1, <1>3, TaskStays DEF Shaped
<1>7. TaskOK' /\ base' \in 0 .. task'.N + task'.S /\ row' \in 0 .. task'.M
  BY <1>1, TaskStays
<1>8. QED
  BY <1>1, <1>5, <1>6, <1>7 DEF Inv

LEMMA NextStep ==
  ASSUME Inv, [Next]_vars
  PROVE  Inv'
<1>1. CASE UNCHANGED vars
  <2>1. UNCHANGED <<task, phase, plan, base, row, out>>
    BY <1>1 DEF vars
  <2>2. LoopOK' = LoopOK
    BY <2>1 DEF LoopOK, TaskOK, SoundPlan, Sliced, Roles, Work, Copied
  <2>3. \A p, at : Made(p, at)' = Made(p, at)
    BY <2>1 DEF Made, Before, Full, B, Sliced
  <2>4. Finished' = Finished
    BY <2>1, TaskStays DEF Finished
  <2>5. \A layout : Shaped(layout, out)' = Shaped(layout, out)
    BY <2>1, TaskStays DEF Shaped
  <2>6. QED
    BY <2>1, <2>2, <2>3, <2>4, <2>5, TaskStays DEF Inv
<1>2. QED
  BY <1>1, ChooseStep, MultiplyOnceStep, PanelStep, BlockStep, LeaveStep,
     CopyStep DEF Next

LEMMA Invariant == Spec => []Inv
<1>1. Init => Inv
  BY InitInv
<1>2. Inv /\ [Next]_vars => Inv'
  BY NextStep
<1>3. QED
  BY <1>1, <1>2, PTL DEF Spec
-----------------------------------------------------------------------------
(***************************************************************************)
(* The loops stay within the matrices: a base past the last panel, or a    *)
(* row past the last block, is never reached, whatever the block size and  *)
(* whatever it leaves over.                                                *)
(***************************************************************************)
THEOREM StaysInMatrix == Spec => []TypeOK
<1>1. Inv => TypeOK
  BY DEF Inv, TypeOK, LoopOK
<1>2. QED
  BY <1>1, Invariant, PTL

(***************************************************************************)
(* Whatever the grid, the matrices' extents and distributions, the block   *)
(* size and the factor, every process is left with its part of the sketch, *)
(* and every entry of it has each term of its sum once.                    *)
(***************************************************************************)
LEMMA TermsCounted ==
  ASSUME NEW at, NEW n \in Nat, NEW s, Enumerates(s, Terms(at, 0 .. n - 1))
  PROVE  Range(s) = Terms(at, 0 .. n - 1) /\ Len(s) = n
<1> DEFINE T == Terms(at, 0 .. n - 1)
           t == [i \in 1 .. n |-> i - 1]
           u == [i \in DOMAIN t |-> <<at[2], t[i], at[1], t[i]>>]
<1>1. t \in Seq(0 .. n - 1) /\ Len(t) = n /\ DOMAIN t = 1 .. n
  OBVIOUS
<1>2. Enumerates(t, 0 .. n - 1)
  <2>1. \A k \in 0 .. n - 1 : k + 1 \in 1 .. n /\ t[k + 1] = k
    OBVIOUS
  <2>2. \A i, j \in 1 .. n : t[i] = t[j] => i = j
    OBVIOUS
  <2> HIDE DEF t
  <2>3. QED
    BY <1>1, <2>1, <2>2 DEF Enumerates
<1>3. Enumerates(u, T)
  BY <1>2, TermsOf
<1>4. Len(u) = n
  BY <1>1
<1> HIDE DEF u, T
<1>5. Len(u) = Cardinality(T) /\ Len(s) = Cardinality(T) /\ Range(s) = T
  BY <1>3, EnumeratesLength, EnumeratesRange DEF T
<1>6. QED
  BY <1>4, <1>5 DEF T

THEOREM EveryTermOnce == Spec => []Sketched
<1>1. ASSUME Inv, phase = "returned", NEW p \in Rank
      PROVE  /\ DOMAIN out[p] = AllOf(task.output, p)
             /\ \A at \in DOMAIN out[p] :
                  Range(out[p][at]) = Sum(at) /\ Len(out[p][at]) = task.N
  <2>1. /\ TaskOK /\ Shaped(task.output, out) /\ Finished
    BY <1>1 DEF Inv
  <2>2. task.N \in Nat
    BY <2>1, TaskNumbers
  <2>3. ASSUME NEW at \in DOMAIN out[p]
        PROVE  Range(out[p][at]) = Sum(at) /\ Len(out[p][at]) = task.N
    <3>1. Enumerates(out[p][at], Terms(at, 0 .. task.N - 1))
      BY <2>1 DEF Finished, Full
    <3>2. Sum(at) = Terms(at, 0 .. task.N - 1)
      BY DEF Sum, Terms
    <3>3. QED
      BY <2>2, <3>1, <3>2, TermsCounted
  <2>4. QED
    BY <2>1, <2>3 DEF Shaped
<1>2. Inv => Sketched
  BY <1>1 DEF Sketched
<1>3. QED
  BY <1>2, Invariant, PTL

(***************************************************************************)
(* A panel of the sketch that is finished is never written to again.       *)
(***************************************************************************)
THEOREM FinishedStays == Spec => FinishedKept
<1> DEFINE Kept == phase = "loop" /\ plan.slices = "s" =>
                     \A p \in Rank : \A at \in DOMAIN out[p] :
                       at[2] < base => out'[p][at] = out[p][at]
<1>1. ASSUME Inv, Next PROVE Kept
  <2> SUFFICES ASSUME phase = "loop", plan.slices = "s",
                      NEW p \in Rank, NEW at \in DOMAIN out[p], at[2] < base
               PROVE  out'[p][at] = out[p][at]
    OBVIOUS
  <2>1. LoopOK /\ Shaped(Work, out)
    BY <1>1 DEF Inv
  <2>2. ASSUME Multiply PROVE out'[p][at] = out[p][at]
    <3>1. at \in AllOf(Work, p)
      BY <2>1 DEF Shaped
    <3>2. Multiplied(p, at)
      BY <2>1, <2>2, <3>1, MultiplyWorks
    <3>3. sWin = <<base, B>>
      BY DEF sWin
    <3>4. base \in Nat /\ B \in Nat /\ at[2] \in Nat
      BY <2>1, <3>1, PanelFits, EntryIsPair DEF LoopOK
    <3>5. ~ InWindow(at)
      BY <3>3, <3>4 DEF InWindow, Within
    <3>6. QED
      BY <3>2, <3>5 DEF Multiplied
  <2>3. CASE Choose \/ Copy
    BY <2>3 DEF Choose, Copy
  <2>4. CASE MultiplyOnce \/ Panel
    BY <2>2, <2>4 DEF MultiplyOnce, Panel
  <2>5. CASE Block
    BY <2>2, <2>5 DEF Block
  <2>6. CASE Leave
    BY <2>6 DEF Leave
  <2>7. QED
    BY <1>1, <2>3, <2>4, <2>5, <2>6 DEF Next
<1>2. Inv /\ [Next]_vars => [Kept]_vars
  BY <1>1
<1>3. QED
  BY <1>2, Invariant, PTL DEF Spec, FinishedKept
=============================================================================
