------------------------- MODULE FeatureApplyProofs -------------------------
(***************************************************************************)
(* Proofs about FeatureApply.  A matrix the calls pass on is always the    *)
(* same vectors, spread over the processes by some distribution: copying   *)
(* changes the distribution, transposing the dimension, and a kernel       *)
(* applied to whole vectors what the vectors are.                          *)
(***************************************************************************)
EXTENDS FeatureApply, Lemmas

TaskOK ==
  /\ <<task.family, <<task.input, task.output>>, task.dim>> \in Applications \ Left
  /\ task.grid \in Grids
  /\ <<task.N, task.S, task.M>> \in Sizes
  /\ task.family \in Mixing => task.N = task.S
  /\ task.family \in {"UST", "FJLT"} =>
       task.samples \in [1 .. task.S -> 0 .. task.N - 1]

LEMMA TaskNumbers ==
  ASSUME TaskOK
  PROVE  /\ task.N \in Nat \ {0} /\ task.S \in Nat \ {0} /\ task.M \in Nat \ {0}
         /\ task.grid[1] \in Nat \ {0} /\ task.grid[2] \in Nat \ {0}
         /\ P = (0 .. task.grid[1] - 1) \X (0 .. task.grid[2] - 1)
<1>1. <<task.N, task.S, task.M>> \in (Nat \ {0}) \X (Nat \ {0}) \X (Nat \ {0})
  BY SizesAssumption DEF TaskOK
<1>2. task.grid \in (Nat \ {0}) \X (Nat \ {0})
  BY GridsAssumption DEF TaskOK
<1>3. QED
  BY <1>1, <1>2 DEF P, ProcessesOf
-----------------------------------------------------------------------------
(* The l-th index a process is dealt out, and the indices it is dealt out. *)
Placed(s, stride, rank) == \A l \in DOMAIN s : s[l] = rank + (l - 1) * stride

LEMMA NextPlaced ==
  ASSUME NEW d \in Nat \ {0}, NEW r \in 0 .. d - 1, NEW n \in Nat, NEW m \in Nat,
         n <= r + m * d, r + m * d < n + d
  PROVE  /\ n % d = r => n = r + m * d
         /\ n % d # r => n + 1 <= r + m * d
<1> DEFINE q == n \div d
<1>1. q \in Nat /\ n % d \in 0 .. d - 1 /\ n = d * q + (n % d)
  BY DivMod
<1>2. ASSUME n % d = r PROVE n = r + m * d
  <2>1. n = d * q + r
    BY <1>1, <1>2
  <2> HIDE DEF q
  <2>2. CASE q = m
    BY <2>1, <2>2
  <2>3. CASE q < m
    <3>1. (m - q - 1) * d >= 0
      BY <1>1, <2>3
    <3>2. (m - q - 1) * d = m * d - d * q - d
      BY <1>1
    <3>3. m * d \in Int /\ d * q \in Int
      BY <1>1
    <3>4. QED
      BY <2>1, <3>1, <3>2, <3>3
  <2>4. CASE q > m
    <3>1. (q - m - 1) * d >= 0
      BY <1>1, <2>4
    <3>2. (q - m - 1) * d = d * q - m * d - d
      BY <1>1
    <3>3. m * d \in Int /\ d * q \in Int
      BY <1>1
    <3>4. QED
      BY <2>1, <3>1, <3>2, <3>3
  <2>5. QED
    BY <1>1, <2>2, <2>3, <2>4
<1>3. ASSUME n % d # r PROVE n + 1 <= r + m * d
  <2>1. ASSUME n = r + m * d PROVE FALSE
    <3>1. m * d = d * m /\ d * m \in Nat
      OBVIOUS
    <3>2. n = d * m + r
      BY <2>1, <3>1
    <3>3. (d * m + r) % d = r
      BY DivUnique
    <3>4. QED
      BY <1>3, <3>2, <3>3
  <2>2. m * d \in Nat
    OBVIOUS
  <2>3. QED
    BY <2>1, <2>2
<1>4. QED
  BY <1>2, <1>3

LEMMA DealsPlaced ==
  ASSUME NEW s, NEW d \in Nat \ {0}, NEW r \in 0 .. d - 1, NEW c \in Nat,
         Deals(s, d, r, 0, c)
  PROVE  s \in Seq(Nat) /\ Placed(s, d, r)
<1>1. PICK f : /\ s = f[c]
               /\ f[0] = << >>
               /\ \A n \in 0 .. c : n < c =>
                    f[n + 1] = IF (0 + n) % d = r THEN Append(f[n], 0 + n)
                               ELSE f[n]
  BY DEF Deals
<1> DEFINE Good(n) == /\ f[n] \in Seq(Nat) /\ Placed(f[n], d, r)
                      /\ n <= r + Len(f[n]) * d /\ r + Len(f[n]) * d < n + d
           Fine == {n \in 0 .. c : Good(n)}
<1>2. 0 \in Fine
  <2>1. f[0] \in Seq(Nat) /\ Len(f[0]) = 0 /\ DOMAIN f[0] = {}
    BY <1>1
  <2>2. Placed(f[0], d, r)
    BY <2>1 DEF Placed
  <2>3. QED
    BY <2>1, <2>2
<1>3. ASSUME NEW n \in 0 .. c, n \in Fine, n < c PROVE n + 1 \in Fine
  <2> DEFINE m == Len(f[n])
  <2>1. Good(n) /\ n \in Nat /\ n + 1 \in 0 .. c /\ 0 + n = n
    BY <1>3
  <2>2. m \in Nat /\ DOMAIN f[n] = 1 .. m /\ n <= r + m * d /\ r + m * d < n + d
    BY <2>1
  <2>3. m * d \in Nat /\ (m + 1) * d = m * d + d
    BY <2>2
  <2>4. CASE n % d = r
    <3>1. f[n + 1] = Append(f[n], n)
      BY <1>1, <1>3, <2>1, <2>4
    <3>2. n = r + m * d
      BY <2>1, <2>2, <2>4, NextPlaced
    <3>3. /\ f[n + 1] \in Seq(Nat) /\ Len(f[n + 1]) = m + 1
          /\ DOMAIN f[n + 1] = 1 .. m + 1 /\ f[n + 1][m + 1] = n
          /\ \A l \in 1 .. m : f[n + 1][l] = f[n][l]
      BY <2>1, <2>2, <3>1
    <3> DEFINE t == f[n + 1]
               x == m * d
    <3>4. Placed(t, d, r)
      <4>1. ASSUME NEW l \in DOMAIN t PROVE t[l] = r + (l - 1) * d
        <5>1. l \in 1 .. m + 1
          BY <3>3
        <5>2. CASE l \in 1 .. m
          BY <2>1, <2>2, <3>3, <5>2 DEF Placed
        <5>3. CASE l = m + 1
          <6>1. l - 1 = m
            BY <2>2, <5>3
          <6>2. QED
            BY <3>2, <3>3, <5>3, <6>1
        <5>4. l \in 1 .. m \/ l = m + 1
          BY <2>2, <5>1
        <5>5. QED
          BY <5>2, <5>3, <5>4
      <4>2. QED
        BY <4>1 DEF Placed
    <3>5. n + 1 <= r + (m + 1) * d /\ r + (m + 1) * d < n + 1 + d
      <4>1. (m + 1) * d = x + d /\ x \in Nat /\ n = r + x
        BY <2>3, <3>2
      <4> HIDE DEF x, m
      <4>2. QED
        BY <4>1, <2>1
    <3>6. QED
      BY <2>1, <3>3, <3>4, <3>5
  <2>5. CASE n % d # r
    <3>1. f[n + 1] = f[n]
      BY <1>1, <1>3, <2>1, <2>5
    <3>2. n + 1 <= r + m * d
      BY <2>1, <2>2, <2>5, NextPlaced
    <3>3. r + m * d < n + 1 + d
      BY <2>1, <2>2, <2>3
    <3>4. QED
      BY <2>1, <3>1, <3>2, <3>3
  <2>6. QED
    BY <2>4, <2>5
<1> HIDE DEF Fine
<1>4. \A n \in 0 .. c : n \in Fine
  BY <1>2, <1>3, UpTo
<1>5. c \in Fine
  BY <1>4
<1>6. QED
  BY <1>1, <1>5 DEF Fine
-----------------------------------------------------------------------------
(* The ways a dimension is dealt out.                                      *)
Dims == {"MC", "MR", "VC", "VR", "STAR", "CIRC", "LOCAL", "SPARSE"}

Stride(d) == StrideOf(task.grid, d)
Rank(d, p) == RankOf(task.grid, d, p)
Held(d, n, p) == Dealt(task.grid, d, <<0, n>>, p)

LEMMA Strides ==
  ASSUME TaskOK, NEW p \in P
  PROVE  /\ Stride("MC") = task.grid[1] /\ Rank("MC", p) = p[1]
         /\ Stride("MR") = task.grid[2] /\ Rank("MR", p) = p[2]
         /\ Stride("VC") = task.grid[1] * task.grid[2]
         /\ Rank("VC", p) = p[1] + p[2] * task.grid[1]
         /\ Stride("VR") = task.grid[1] * task.grid[2]
         /\ Rank("VR", p) = p[2] + p[1] * task.grid[2]
         /\ Stride("STAR") = 1 /\ Rank("STAR", p) = 0
         /\ Stride("LOCAL") = 1 /\ Rank("LOCAL", p) = 0
         /\ Stride("SPARSE") = 1 /\ Rank("SPARSE", p) = 0
         /\ Stride("CIRC") = 1 /\ Rank("CIRC", p) = IF p = <<0, 0>> THEN 0 ELSE 1
BY DEF Stride, StrideOf, Rank, RankOf

LEMMA Ranked ==
  ASSUME TaskOK, NEW d \in Dims, NEW p \in P
  PROVE  /\ Stride(d) \in Nat \ {0} /\ Rank(d, p) \in Nat
         /\ d # "CIRC" => Rank(d, p) \in 0 .. Stride(d) - 1
<1> DEFINE h == task.grid[1]
           w == task.grid[2]
<1>1. /\ h \in Nat \ {0} /\ w \in Nat \ {0}
      /\ p \in (0 .. h - 1) \X (0 .. w - 1)
  BY TaskNumbers
<1>2. h * w \in Nat \ {0} /\ h * w = w * h
      /\ p[1] + p[2] * h \in 0 .. h * w - 1
      /\ p[2] + p[1] * w \in 0 .. w * h - 1
  <2>1. p[1] \in 0 .. h - 1 /\ p[2] \in 0 .. w - 1
    BY <1>1
  <2> HIDE DEF h, w
  <2>2. QED
    BY <1>1, <2>1, Squares, NumberOfPlace
<1> DEFINE x == h * w
           v == p[1] + p[2] * h
           u == p[2] + p[1] * w
<1>3. /\ Stride("MC") = h /\ Rank("MC", p) = p[1]
      /\ Stride("MR") = w /\ Rank("MR", p) = p[2]
      /\ Stride("VC") = x /\ Rank("VC", p) = v
      /\ Stride("VR") = x /\ Rank("VR", p) = u
  BY Strides
<1>4. /\ x \in Nat \ {0} /\ v \in 0 .. x - 1 /\ u \in 0 .. x - 1
      /\ p[1] \in 0 .. h - 1 /\ p[2] \in 0 .. w - 1
  BY <1>1, <1>2
<1> HIDE DEF h, w, x, u, v
<1>5. CASE d \in {"MC", "MR", "VC", "VR"}
  BY <1>1, <1>3, <1>4, <1>5
<1>6. CASE d \in {"STAR", "CIRC", "LOCAL", "SPARSE"}
  BY <1>6, Strides
<1>7. QED
  BY <1>5, <1>6 DEF Dims

Part(d, n, p) == {g \in 0 .. n - 1 : g % Stride(d) = Rank(d, p)}

LEMMA HeldRange ==
  ASSUME NEW d, NEW n \in Nat, NEW p
  PROVE  Range(Held(d, n, p)) = Part(d, n, p)
<1>1. Deals(Held(d, n, p), Stride(d), Rank(d, p), 0, n)
  BY DealtDeals DEF Held, Stride, Rank
<1>2. Enumerates(Held(d, n, p), Dealing(Stride(d), Rank(d, p), 0, n))
  BY <1>1, DealsEnumerates
<1>3. Range(Held(d, n, p)) = Dealing(Stride(d), Rank(d, p), 0, n)
  BY <1>2, EnumeratesRange
<1>4. QED
  BY <1>3 DEF Dealing, Part

(* The place of an index among those of a process.                         *)
LEMMA PlaceHeld ==
  ASSUME TaskOK, NEW d \in Dims, NEW n \in Nat, NEW p \in P,
         NEW g \in Range(Held(d, n, p))
  PROVE  /\ Place(g, Held(d, n, p)) \in Nat
         /\ g = Rank(d, p) + Place(g, Held(d, n, p)) * Stride(d)
<1> DEFINE s == Held(d, n, p)
<1>1. Stride(d) \in Nat \ {0} /\ Rank(d, p) \in 0 .. Stride(d) - 1
  <2>1. CASE d # "CIRC"
    BY <2>1, Ranked
  <2>2. CASE d = "CIRC"
    <3>1. g \in Nat /\ g % 1 = Rank(d, p)
      BY <2>2, HeldRange, Strides DEF Part
    <3>2. g % 1 = 0
      BY <3>1
    <3>3. QED
      BY <2>2, <3>1, <3>2, Strides
  <2>3. QED
    BY <2>1, <2>2
<1>2. Deals(s, Stride(d), Rank(d, p), 0, n)
  BY DealtDeals DEF Held, Stride, Rank
<1>3. s \in Seq(Nat) /\ Placed(s, Stride(d), Rank(d, p))
  BY <1>1, <1>2, DealsPlaced
<1> HIDE DEF s
<1>4. \E l \in DOMAIN s : s[l] = g
  BY DEF Range, s
<1> DEFINE l == CHOOSE l \in DOMAIN s : s[l] = g
<1>5. l \in DOMAIN s /\ s[l] = g
  BY <1>4
<1>6. Place(g, s) = l - 1
  BY DEF Place
<1> HIDE DEF l
<1>7. l \in Nat \ {0}
  BY <1>3, <1>5
<1>8. g = Rank(d, p) + (l - 1) * Stride(d)
  BY <1>3, <1>5 DEF Placed
<1>9. QED
  BY <1>6, <1>7, <1>8 DEF s

(* Where the stride is 1, a process has everything or nothing.             *)
LEMMA HeldWhole ==
  ASSUME TaskOK, NEW d \in Dims, Stride(d) = 1, NEW n \in Nat, NEW p \in P,
         Rank(d, p) = 0
  PROVE  Held(d, n, p) = [l \in 1 .. n |-> l - 1]
<1> DEFINE s == Held(d, n, p)
<1>1. Deals(s, 1, 0, 0, n)
  BY DealtDeals DEF Held, Stride, Rank
<1>2. s \in Seq(Nat) /\ Placed(s, 1, 0)
  <2>1. 1 \in Nat \ {0} /\ 0 \in 0 .. 1 - 1
    OBVIOUS
  <2>2. QED
    BY <1>1, <2>1, DealsPlaced
<1>3. Range(s) = 0 .. n - 1
  <2>1. \A g \in 0 .. n - 1 : g % 1 = 0
    OBVIOUS
  <2>2. Part(d, n, p) = 0 .. n - 1
    BY <2>1 DEF Part
  <2>3. QED
    BY <2>2, HeldRange
<1> HIDE DEF s
<1>4. Len(s) \in Nat /\ DOMAIN s = 1 .. Len(s) /\ \A l \in 1 .. Len(s) : s[l] = l - 1
  BY <1>2 DEF Placed
<1>5. Len(s) = n
  <2>1. ASSUME Len(s) > n PROVE FALSE
    <3>1. Len(s) \in DOMAIN s /\ s[Len(s)] = Len(s) - 1
      BY <1>4, <2>1
    <3>2. Len(s) - 1 \in Range(s)
      BY <3>1 DEF Range
    <3>3. QED
      BY <1>3, <1>4, <2>1, <3>2
  <2>2. ASSUME Len(s) < n PROVE FALSE
    <3>1. Len(s) \in Range(s)
      BY <1>3, <1>4, <2>2
    <3>2. PICK l \in DOMAIN s : s[l] = Len(s)
      BY <3>1 DEF Range
    <3>3. QED
      BY <1>4, <3>2
  <2>3. Len(s) \in Nat
    BY <1>4
  <2>4. QED
    BY <2>1, <2>2, <2>3
<1>6. s = [l \in 1 .. n |-> s[l]]
  BY <1>2, <1>4, <1>5
<1>7. s = [l \in 1 .. n |-> l - 1]
  BY <1>4, <1>5, <1>6
<1>8. QED
  BY <1>7 DEF s
-----------------------------------------------------------------------------
(* Every entry of a matrix is with some process.                           *)
Known == Same \cup Others \cup {LOCAL_SPARSE}

LEMMA KnownDims ==
  ASSUME NEW dist \in Known
  PROVE  dist = <<dist[1], dist[2]>> /\ dist[1] \in Dims /\ dist[2] \in Dims
BY DEF Known, Same, Others, LOCAL_M, LOCAL_SPARSE, S_S, CIRC_CIRC, MC_MR,
       ColDists, RowDists, OTHER_C, OTHER_R, Dims

Has(d, g, p) == g % Stride(d) = Rank(d, p)

LEMMA SomeHolder ==
  ASSUME TaskOK, NEW d \in {"VC", "VR", "STAR"}, NEW g \in Nat
  PROVE  \E p \in P : Has(d, g, p)
<1> DEFINE h == task.grid[1]
           w == task.grid[2]
<1>1. h \in Nat \ {0} /\ w \in Nat \ {0} /\ P = (0 .. h - 1) \X (0 .. w - 1)
  BY TaskNumbers
<1>2. \A p \in P : /\ Has("VC", g, p) <=> g % (h * w) = p[1] + p[2] * h
                   /\ Has("VR", g, p) <=> g % (h * w) = p[2] + p[1] * w
                   /\ Has("STAR", g, p) <=> g % 1 = 0
  BY Strides DEF Has
<1> HIDE DEF h, w
<1> DEFINE x == h * w
           k == g % x
<1>3. x \in Nat \ {0} /\ h * w = w * h
  BY <1>1, Squares
<1>4. k \in Nat /\ k < x
  <2> HIDE DEF x
  <2>1. k \in 0 .. x - 1
    BY <1>3, DivMod
  <2>2. QED
    BY <1>3, <2>1
<1> HIDE DEF k
<1>5. CASE d = "VC"
  <2> DEFINE p == <<k % h, k \div h>>
  <2>1. k % h \in 0 .. h - 1 /\ k \div h \in 0 .. w - 1 /\ (k % h) + (k \div h) * h = k
    BY <1>1, <1>4, PlaceOfNumber
  <2>2. p \in P /\ p[1] = k % h /\ p[2] = k \div h
    BY <1>1, <2>1
  <2>3. p[1] + p[2] * h = k
    BY <2>1, <2>2
  <2>4. QED
    BY <1>2, <1>5, <2>2, <2>3 DEF k, x
<1>6. CASE d = "VR"
  <2> DEFINE p == <<k \div w, k % w>>
  <2>1. k % w \in 0 .. w - 1 /\ k \div w \in 0 .. h - 1 /\ (k % w) + (k \div w) * w = k
    <3>1. k < w * h
      BY <1>3, <1>4
    <3>2. QED
      BY <1>1, <1>4, <3>1, PlaceOfNumber
  <2>2. p \in P /\ p[2] = k % w /\ p[1] = k \div w
    BY <1>1, <2>1
  <2>3. p[2] + p[1] * w = k
    BY <2>1, <2>2
  <2>4. QED
    BY <1>2, <1>6, <2>2, <2>3 DEF k, x
<1>7. CASE d = "STAR"
  <2>1. <<0, 0>> \in P /\ g % 1 = 0
    BY <1>1
  <2>2. QED
    BY <1>2, <1>7, <2>1
<1>8. QED
  BY <1>5, <1>6, <1>7

LEMMA Covered ==
  ASSUME TaskOK, NEW dist \in Known, NEW i \in Nat, NEW j \in Nat
  PROVE  \E p \in P : Has(dist[1], i, p) /\ Has(dist[2], j, p)
<1> DEFINE h == task.grid[1]
           w == task.grid[2]
<1>1. h \in Nat \ {0} /\ w \in Nat \ {0} /\ P = (0 .. h - 1) \X (0 .. w - 1)
  BY TaskNumbers
<1>2. \A p \in P : \A g \in Nat :
        /\ Has("MC", g, p) <=> g % h = p[1]
        /\ Has("MR", g, p) <=> g % w = p[2]
        /\ Has("STAR", g, p) /\ Has("LOCAL", g, p) /\ Has("SPARSE", g, p)
        /\ p = <<0, 0>> => Has("CIRC", g, p)
  <2>1. \A g \in Nat : g % 1 = 0
    OBVIOUS
  <2>2. QED
    BY <2>1, Strides DEF Has
<1> HIDE DEF h, w
<1>3. <<0, 0>> \in P
  BY <1>1
<1>4. i % h \in 0 .. h - 1 /\ j % w \in 0 .. w - 1
  BY <1>1, DivMod
<1>5. CASE dist \in {LOCAL_M, LOCAL_SPARSE, S_S, CIRC_CIRC}
  BY <1>2, <1>3, <1>5 DEF LOCAL_M, LOCAL_SPARSE, S_S, CIRC_CIRC
<1>6. CASE dist = MC_MR
  <2>1. <<i % h, j % w>> \in P
    BY <1>1, <1>4
  <2>2. QED
    BY <1>2, <1>6, <2>1 DEF MC_MR
<1>7. CASE dist = OTHER_C
  <2>1. <<i % h, 0>> \in P
    BY <1>1, <1>4
  <2>2. QED
    BY <1>2, <1>7, <2>1 DEF OTHER_C
<1>8. CASE dist = OTHER_R
  <2>1. <<0, j % w>> \in P
    BY <1>1, <1>4
  <2>2. QED
    BY <1>2, <1>8, <2>1 DEF OTHER_R
<1>9. CASE dist \in ColDists
  <2>1. dist[1] \in {"VC", "VR", "STAR"} /\ dist[2] = "STAR"
    BY <1>9 DEF ColDists
  <2>2. PICK p \in P : Has(dist[1], i, p)
    BY <2>1, SomeHolder
  <2>3. QED
    BY <1>2, <2>1, <2>2
<1>10. CASE dist \in RowDists
  <2>1. dist[2] \in {"VC", "VR", "STAR"} /\ dist[1] = "STAR"
    BY <1>10 DEF RowDists
  <2>2. PICK p \in P : Has(dist[2], j, p)
    BY <2>1, SomeHolder
  <2>3. QED
    BY <1>2, <2>1, <2>2
<1>11. QED
  BY <1>5, <1>6, <1>7, <1>8, <1>9, <1>10 DEF Known, Same, Others
-----------------------------------------------------------------------------
(* Vectors x[0], x[1], ... of n entries each, spread over the processes.   *)
High(dim, n) == IF dim = "columnwise" THEN n ELSE task.M
Wide(dim, n) == IF dim = "columnwise" THEN task.M ELSE n

Across(dim, e) == IF dim = "columnwise" THEN e[2] ELSE e[1]
Down(dim, e) == IF dim = "columnwise" THEN e[1] ELSE e[2]

Share(dist, h, w, p) == Range(Rows(dist, h, p)) \X Range(Cols(dist, w, p))

Spread(dist, dim, n, x) ==
  [dist |-> dist, h |-> High(dim, n), w |-> Wide(dim, n),
   at |-> [p \in P |-> [e \in Share(dist, High(dim, n), Wide(dim, n), p) |->
                          x[Across(dim, e)][Down(dim, e) + 1]]]]

LEMMA ShareEntries ==
  ASSUME TaskOK, NEW dist, NEW h \in Nat, NEW w \in Nat, NEW p
  PROVE  /\ Share(dist, h, w, p) = Part(dist[1], h, p) \X Part(dist[2], w, p)
         /\ Share(dist, h, w, p) \subseteq (0 .. h - 1) \X (0 .. w - 1)
<1>1. Range(Rows(dist, h, p)) = Part(dist[1], h, p)
  BY HeldRange DEF Rows, Held
<1>2. Range(Cols(dist, w, p)) = Part(dist[2], w, p)
  BY HeldRange DEF Cols, Held
<1>3. QED
  BY <1>1, <1>2 DEF Share, Part

LEMMA Extents ==
  ASSUME TaskOK, NEW dim, NEW n \in Nat
  PROVE  /\ High(dim, n) \in Nat /\ Wide(dim, n) \in Nat
         /\ \A e \in (0 .. High(dim, n) - 1) \X (0 .. Wide(dim, n) - 1) :
              /\ e = <<e[1], e[2]>>
              /\ Across(dim, e) \in 0 .. task.M - 1 /\ Down(dim, e) \in 0 .. n - 1
BY TaskNumbers DEF High, Wide, Across, Down

LEMMA SpreadEntry ==
  ASSUME TaskOK, NEW dist \in Known, NEW dim, NEW n \in Nat, NEW x,
         NEW i \in 0 .. High(dim, n) - 1, NEW j \in 0 .. Wide(dim, n) - 1
  PROVE  Entry(Spread(dist, dim, n, x), i, j)
           = x[Across(dim, <<i, j>>)][Down(dim, <<i, j>>) + 1]
<1> DEFINE A == Spread(dist, dim, n, x)
           h == High(dim, n)
           w == Wide(dim, n)
           Holding(q) == <<i, j>> \in DOMAIN A.at[q]
           p == CHOOSE q \in P : Holding(q)
<1>1. h \in Nat /\ w \in Nat
  BY Extents
<1>2. \A q \in P : A.at[q] = [e \in Share(dist, h, w, q) |->
                                x[Across(dim, e)][Down(dim, e) + 1]]
  BY DEF Spread
<1>3. Entry(A, i, j) = A.at[p][<<i, j>>]
  BY DEF Entry
<1> HIDE DEF A
<1>4. \E q \in P : Holding(q)
  <2>1. PICK q \in P : Has(dist[1], i, q) /\ Has(dist[2], j, q)
    BY <1>1, Covered
  <2>2. <<i, j>> \in Share(dist, h, w, q)
    BY <1>1, <2>1, ShareEntries DEF Has, Part
  <2>3. QED
    BY <1>2, <2>2
<1>5. p \in P /\ Holding(p)
  BY <1>4
<1> HIDE DEF p
<1>6. <<i, j>> \in Share(dist, h, w, p)
  BY <1>2, <1>5
<1>7. A.at[p][<<i, j>>] = x[Across(dim, <<i, j>>)][Down(dim, <<i, j>>) + 1]
  <2>1. A.at[p] = [e \in Share(dist, h, w, p) |->
                     x[Across(dim, e)][Down(dim, e) + 1]]
    BY <1>2, <1>5
  <2> HIDE DEF Holding, h, w
  <2>2. QED
    BY <1>6, <2>1
<1>8. QED
  BY <1>3, <1>7 DEF A

LEMMA CopiedSpread ==
  ASSUME TaskOK, NEW dist \in Known, NEW dim, NEW n \in Nat, NEW x, NEW to
  PROVE  Copied(Spread(dist, dim, n, x), to) = Spread(to, dim, n, x)
<1> DEFINE A == Spread(dist, dim, n, x)
           h == High(dim, n)
           w == Wide(dim, n)
<1>1. h \in Nat /\ w \in Nat
  BY Extents
<1>2. A.h = h /\ A.w = w
  BY DEF Spread
<1>3. Copied(A, to)
        = [dist |-> to, h |-> h, w |-> w,
           at |-> [p \in P |-> [e \in Share(to, h, w, p) |-> Entry(A, e[1], e[2])]]]
  BY <1>2 DEF Copied, Matrix, Share
<1>4. ASSUME NEW p \in P, NEW e \in Share(to, h, w, p)
      PROVE  Entry(A, e[1], e[2]) = x[Across(dim, e)][Down(dim, e) + 1]
  <2>0. e \in (0 .. h - 1) \X (0 .. w - 1)
    <3> HIDE DEF h, w
    <3>1. QED
      BY <1>1, <1>4, ShareEntries
  <2>1. e[1] \in 0 .. h - 1 /\ e[2] \in 0 .. w - 1 /\ e = <<e[1], e[2]>>
    BY <2>0
  <2>2. QED
    BY <2>1, SpreadEntry
<1> HIDE DEF A
<1>5. [p \in P |-> [e \in Share(to, h, w, p) |-> Entry(A, e[1], e[2])]]
        = [p \in P |-> [e \in Share(to, h, w, p) |->
                          x[Across(dim, e)][Down(dim, e) + 1]]]
  BY <1>4
<1>6. QED
  BY <1>3, <1>5 DEF A, Spread

Flip(dim) == IF dim = "columnwise" THEN "rowwise" ELSE "columnwise"

LEMMA TransposedSpread ==
  ASSUME TaskOK, NEW dist \in Known, NEW dim \in Dimensions, NEW n \in Nat,
         NEW x, NEW to
  PROVE  Transposed(Spread(dist, dim, n, x), to) = Spread(to, Flip(dim), n, x)
<1> DEFINE A == Spread(dist, dim, n, x)
           h == High(dim, n)
           w == Wide(dim, n)
<1>1. h \in Nat /\ w \in Nat
  BY Extents
<1>2. /\ A.h = h /\ A.w = w
      /\ High(Flip(dim), n) = w /\ Wide(Flip(dim), n) = h
      /\ \A i, j : /\ Across(Flip(dim), <<i, j>>) = Across(dim, <<j, i>>)
                   /\ Down(Flip(dim), <<i, j>>) = Down(dim, <<j, i>>)
  BY DEF Spread, High, Wide, Flip, Across, Down, Dimensions
<1>3. Transposed(A, to)
        = [dist |-> to, h |-> w, w |-> h,
           at |-> [p \in P |-> [e \in Share(to, w, h, p) |-> Entry(A, e[2], e[1])]]]
  BY <1>2 DEF Transposed, Matrix, Share
<1>4. ASSUME NEW p \in P, NEW e \in Share(to, w, h, p)
      PROVE  Entry(A, e[2], e[1]) = x[Across(Flip(dim), e)][Down(Flip(dim), e) + 1]
  <2>0. e \in (0 .. w - 1) \X (0 .. h - 1)
    <3> HIDE DEF h, w
    <3>1. QED
      BY <1>1, <1>4, ShareEntries
  <2>1. e[1] \in 0 .. w - 1 /\ e[2] \in 0 .. h - 1 /\ e = <<e[1], e[2]>>
    BY <2>0
  <2>2. Entry(A, e[2], e[1])
          = x[Across(dim, <<e[2], e[1]>>)][Down(dim, <<e[2], e[1]>>) + 1]
    BY <2>1, SpreadEntry
  <2>3. QED
    BY <1>2, <2>1, <2>2
<1> HIDE DEF A, h, w
<1>5. [p \in P |-> [e \in Share(to, w, h, p) |-> Entry(A, e[2], e[1])]]
        = [p \in P |-> [e \in Share(to, w, h, p) |->
                          x[Across(Flip(dim), e)][Down(Flip(dim), e) + 1]]]
  BY <1>4
<1>6. QED
  BY <1>2, <1>3, <1>5 DEF A, Spread
-----------------------------------------------------------------------------
(* A kernel needs whole vectors, and leaves a process those it has.        *)
Suits(dist, out, dim) ==
  /\ dist \in Known /\ out \in Known
  /\ \A p \in P : /\ Rank(out[1], p) = Rank(dist[1], p)
                  /\ Rank(out[2], p) = Rank(dist[2], p)
  /\ Stride(out[1]) = Stride(dist[1]) /\ Stride(out[2]) = Stride(dist[2])
  /\ Stride(IF dim = "columnwise" THEN dist[1] ELSE dist[2]) = 1

WholeAt(A, out, dim, n, m, x, p, e) ==
  /\ Vector(A, dim, p, Across(dim, e)) = [l \in 1 .. n |-> x[Across(dim, e)][l]]
  /\ Down(dim, e) = Place(Down(dim, e), IF dim = "columnwise" THEN Rows(out, m, p)
                                        ELSE Cols(out, m, p))

LEMMA WholeVectors ==
  ASSUME TaskOK, NEW dist, NEW out, NEW dim \in Dimensions, Suits(dist, out, dim),
         NEW n \in Nat, NEW m \in Nat, NEW x, NEW p \in P,
         NEW e \in Share(out, High(dim, m), Wide(dim, m), p)
  PROVE  WholeAt(Spread(dist, dim, n, x), out, dim, n, m, x, p, e)
<1> DEFINE a == IF dim = "columnwise" THEN dist[1] ELSE dist[2]
           b == IF dim = "columnwise" THEN out[1] ELSE out[2]
           A == Spread(dist, dim, n, x)
           k == Across(dim, e)
           g == Down(dim, e)
<1>1. /\ High(dim, n) \in Nat /\ Wide(dim, n) \in Nat
      /\ High(dim, m) \in Nat /\ Wide(dim, m) \in Nat
  BY Extents
<1>2. /\ e = <<e[1], e[2]>>
      /\ e[1] \in Part(out[1], High(dim, m), p)
      /\ e[2] \in Part(out[2], Wide(dim, m), p)
  BY <1>1, ShareEntries
<1>3. /\ a \in Dims /\ b \in Dims /\ Stride(a) = 1 /\ Stride(b) = 1
      /\ Rank(a, p) = Rank(b, p)
  BY KnownDims DEF Suits
<1>4. g \in Part(b, m, p) /\ g \in Nat
  BY <1>2 DEF Down, High, Wide, Part
<1>5. Rank(a, p) = 0 /\ Rank(b, p) = 0
  BY <1>3, <1>4 DEF Part
<1>6. Held(a, n, p) = [l \in 1 .. n |-> l - 1]
      /\ Held(b, m, p) = [l \in 1 .. m |-> l - 1]
  BY <1>3, <1>5, HeldWhole
<1>7. g = Place(g, Held(b, m, p))
  <2>1. g \in Range(Held(b, m, p))
    BY <1>4, HeldRange
  <2>2. g = 0 + Place(g, Held(b, m, p)) * 1 /\ Place(g, Held(b, m, p)) \in Nat
    BY <1>3, <1>5, <2>1, PlaceHeld
  <2>3. QED
    BY <2>2
<1>8. ASSUME NEW l \in 1 .. n
      PROVE  /\ Along(dim, l - 1, k) \in Share(dist, High(dim, n), Wide(dim, n), p)
             /\ Across(dim, Along(dim, l - 1, k)) = k
             /\ Down(dim, Along(dim, l - 1, k)) + 1 = l
  <2>1. l - 1 \in 0 .. n - 1 /\ (l - 1) % 1 = 0 /\ (l - 1) + 1 = l
    OBVIOUS
  <2>2. l - 1 \in Part(a, n, p)
    BY <1>3, <1>5, <2>1 DEF Part
  <2>3. CASE dim = "columnwise"
    <3>1. Along(dim, l - 1, k) = <<l - 1, e[2]>> /\ k = e[2]
      BY <2>3 DEF Along, Across
    <3>2. e[2] \in Part(dist[2], Wide(dim, n), p)
      BY <1>2, <2>3 DEF Suits, Part, Wide
    <3>3. l - 1 \in Part(dist[1], High(dim, n), p)
      BY <2>2, <2>3 DEF High
    <3>4. QED
      BY <1>1, <2>1, <2>3, <3>1, <3>2, <3>3, ShareEntries DEF Across, Down
  <2>4. CASE dim = "rowwise"
    <3>1. Along(dim, l - 1, k) = <<e[1], l - 1>> /\ k = e[1]
      BY <2>4 DEF Along, Across
    <3>2. e[1] \in Part(dist[1], High(dim, n), p)
      BY <1>2, <2>4 DEF Suits, Part, High
    <3>3. l - 1 \in Part(dist[2], Wide(dim, n), p)
      BY <2>2, <2>4 DEF Wide
    <3>4. QED
      BY <1>1, <2>1, <2>4, <3>1, <3>2, <3>3, ShareEntries DEF Across, Down
  <2>5. QED
    BY <2>3, <2>4 DEF Dimensions
<1>9. Vector(A, dim, p, k) = [l \in 1 .. n |-> x[k][l]]
  <2>1. A.dist = dist /\ A.h = High(dim, n) /\ A.w = Wide(dim, n)
        /\ A.at[p] = [f \in Share(dist, High(dim, n), Wide(dim, n), p) |->
                        x[Across(dim, f)][Down(dim, f) + 1]]
    BY DEF Spread
  <2> DEFINE held == IF dim = "columnwise" THEN Rows(A.dist, A.h, p)
                     ELSE Cols(A.dist, A.w, p)
  <2>2. held = Held(a, n, p)
    BY <2>1 DEF Rows, Cols, Held, High, Wide
  <2>3. Vector(A, dim, p, k) = [l \in DOMAIN held |-> A.at[p][Along(dim, held[l], k)]]
    BY DEF Vector
  <2>4. Vector(A, dim, p, k) = [l \in 1 .. n |-> A.at[p][Along(dim, l - 1, k)]]
    <3> HIDE DEF held, A, k, a
    <3>1. held = [l \in 1 .. n |-> l - 1]
      BY <1>6, <2>2
    <3>2. QED
      BY <2>3, <3>1
  <2> HIDE DEF A, k
  <2>5. \A l \in 1 .. n : A.at[p][Along(dim, l - 1, k)] = x[k][l]
    BY <1>8, <2>1
  <2>6. QED
    BY <2>4, <2>5
<1>10. Held(b, m, p) = IF dim = "columnwise" THEN Rows(out, m, p) ELSE Cols(out, m, p)
  BY DEF Rows, Cols, Held
<1>11. QED
  BY <1>7, <1>9, <1>10 DEF WholeAt
-----------------------------------------------------------------------------
(* The vectors of the matrix that is given, once they are mixed, after the *)
(* underlying dense sketch, and as they should be in the end.              *)
Arguments == [k \in 0 .. task.M - 1 |-> Argument(k)]

MixedOf(k) == IF task.family = "RFUT inverse" THEN Given(k) ELSE FUT(Signed(Given(k)))
Mixed == [k \in 0 .. task.M - 1 |-> MixedOf(k)]

Linear == [k \in 0 .. task.M - 1 |->
             [l \in 1 .. task.S |-> V("R", <<l - 1>>, Given(k))]]

Results == [k \in 0 .. task.M - 1 |->
              [l \in 1 .. task.S |-> Wanted(Given(k), l - 1)]]

LEMMA Lengths ==
  ASSUME NEW k
  PROVE  /\ Given(k) = [l \in 1 .. task.N |-> Given(k)[l]]
         /\ Signed(Given(k)) = [l \in 1 .. task.N |-> Signed(Given(k))[l]]
         /\ FUT(Signed(Given(k))) = [l \in 1 .. task.N |-> FUT(Signed(Given(k)))[l]]
         /\ Argument(k) = [l \in 1 .. task.N |-> Argument(k)[l]]
         /\ MixedOf(k) = [l \in 1 .. task.N |-> MixedOf(k)[l]]
<1>1. Given(k) = [l \in 1 .. task.N |-> Given(k)[l]] /\ DOMAIN Given(k) = 1 .. task.N
  BY DEF Given
<1>2. /\ Signed(Given(k)) = [l \in 1 .. task.N |-> Signed(Given(k))[l]]
      /\ DOMAIN Signed(Given(k)) = 1 .. task.N
  BY <1>1 DEF Signed
<1>3. FUT(Signed(Given(k))) = [l \in 1 .. task.N |-> FUT(Signed(Given(k)))[l]]
  BY <1>2 DEF FUT
<1>4. QED
  BY <1>1, <1>2, <1>3 DEF Argument, MixedOf

(* Signs are taken back when they are applied again, and the transform by  *)
(* its inverse.                                                            *)
LEMMA TakenBack ==
  ASSUME TaskOK, NEW k
  PROVE  Signed(FUT_inverse(FUT(Signed(Given(k))))) = Given(k)
<1> DEFINE v == Given(k)
           s == Signed(v)
           f == FUT(s)
<1>1. DOMAIN v = 1 .. task.N /\ DOMAIN s = 1 .. task.N /\ 1 \in 1 .. task.N
  BY TaskNumbers DEF Given, Signed
<1>2. \A n \in 1 .. task.N : v[n].op = "A"
  BY DEF Given, V
<1>3. \A n \in 1 .. task.N : s[n] = V("D", <<n - 1>>, <<v[n]>>)
  BY <1>1, <1>2 DEF Signed
<1>4. f[1].of = s
  BY <1>1 DEF FUT, V
<1>5. FUT_inverse(f) = s
  BY <1>4 DEF FUT_inverse
<1> HIDE DEF s, v
<1>6. \A n \in 1 .. task.N : s[n].op = "D" /\ s[n].at = <<n - 1>> /\ s[n].of[1] = v[n]
  <2> TAKE n \in 1 .. task.N
  <2>1. s[n] = [op |-> "D", at |-> <<n - 1>>, of |-> <<v[n]>>]
    BY <1>3 DEF V
  <2>2. QED
    BY <2>1
<1>7. Signed(s) = [n \in 1 .. task.N |-> v[n]]
  BY <1>1, <1>6 DEF Signed
<1>8. v = [n \in 1 .. task.N |-> v[n]]
  BY Lengths DEF v
<1>9. QED
  BY <1>5, <1>7, <1>8 DEF s, v

LEMMA Items ==
  ASSUME NEW n \in Nat, NEW x, NEW l \in 0 .. n - 1
  PROVE  Item([m \in 1 .. n |-> x[m]], l) = x[l + 1]
BY DEF Item

LEMMA Sampled ==
  ASSUME TaskOK, task.family \in {"UST", "FJLT"}, NEW x, NEW l \in 0 .. task.S - 1
  PROVE  Item([m \in 1 .. task.N |-> x[m]], Item(task.samples, l))
           = x[task.samples[l + 1] + 1]
<1>1. task.samples \in [1 .. task.S -> 0 .. task.N - 1] /\ task.N \in Nat
      /\ task.S \in Nat
  BY TaskNumbers DEF TaskOK
<1>2. l + 1 \in 1 .. task.S
  BY <1>1
<1>3. Item(task.samples, l) = task.samples[l + 1]
      /\ task.samples[l + 1] \in 0 .. task.N - 1
  BY <1>1, <1>2 DEF Item
<1>4. QED
  BY <1>1, <1>3, Items

(* Fastfood: an entry is in one block, and has a scale.                    *)
LEMMA InBlock ==
  ASSUME TaskOK, NEW l \in 0 .. task.S - 1
  PROVE  /\ l \div task.N \in 0 .. numblks - 1
         /\ l \in Block(l \div task.N)
         /\ l - (l \div task.N) * task.N = l % task.N
         /\ (l \div task.N) * task.N + (l - (l \div task.N) * task.N) = l
         /\ l \in 0 .. numblks * task.N - 1
<1> DEFINE N == task.N
           S == task.S
           q == l \div N
           r == l % N
           t == (S - 1) \div N
           u == (S - 1) % N
<1>1. N \in Nat \ {0} /\ S \in Nat \ {0} /\ l \in Nat /\ S - 1 \in Nat /\ l <= S - 1
  BY TaskNumbers
<1>2. q \in Nat /\ r \in 0 .. N - 1 /\ l = N * q + r
      /\ t \in Nat /\ u \in 0 .. N - 1 /\ S - 1 = N * t + u
  BY <1>1, DivMod
<1>3. numblks = 1 + t
  BY DEF numblks
<1> HIDE DEF N, S, q, r, t, u
<1>4. q <= t
  <2> SUFFICES ASSUME q > t PROVE FALSE
    BY <1>2
  <2>1. (q - t - 1) * N >= 0
    BY <1>1, <1>2
  <2>2. (q - t - 1) * N = N * q - N * t - N
    BY <1>1, <1>2
  <2> DEFINE x == N * q
             y == N * t
  <2>3. x \in Int /\ y \in Int
    BY <1>1, <1>2
  <2>4. x - y - N >= 0 /\ x + r <= y + u
    BY <1>1, <1>2, <2>1, <2>2
  <2> HIDE DEF x, y
  <2>5. QED
    BY <1>1, <1>2, <2>3, <2>4
<1> DEFINE x == q * N
<1>5. x = N * q /\ x \in Nat
  BY <1>1, <1>2
<1>6. l = x + r
  BY <1>2, <1>5
<1> HIDE DEF x
<1>7. l - x = r /\ x + (l - x) = l
  BY <1>1, <1>2, <1>5, <1>6
<1>8. l \in x .. Min2(x + N, S) - 1
  BY <1>1, <1>2, <1>5, <1>6 DEF Min2
<1>9. l \in Block(q)
  BY <1>8 DEF Block, x, N, S
<1>10. l \in 0 .. (1 + t) * N - 1
  <2>1. (t - q) * N >= 0
    BY <1>1, <1>2, <1>4
  <2>2. (1 + t) * N = (t - q) * N + N + x
    BY <1>1, <1>2, <1>5
  <2>3. (1 + t) * N \in Int /\ (t - q) * N \in Int
    BY <1>1, <1>2
  <2> DEFINE y == (t - q) * N
             z == (1 + t) * N
  <2> HIDE DEF y, z
  <2>4. l \in 0 .. z - 1
    BY <1>1, <1>2, <1>5, <1>6, <2>1, <2>2, <2>3 DEF y, z
  <2>5. QED
    BY <2>4 DEF z
<1>11. QED
  BY <1>2, <1>3, <1>4, <1>7, <1>9, <1>10 DEF x, q, r, N

LEMMA OneBlock ==
  ASSUME TaskOK, NEW l \in 0 .. task.S - 1, NEW b \in 0 .. numblks - 1, l \in Block(b)
  PROVE  b = l \div task.N
<1> DEFINE N == task.N
           x == b * N
<1>1. N \in Nat \ {0} /\ task.S \in Nat /\ l \in Nat
  BY TaskNumbers
<1>2. b \in Nat
  OBVIOUS
<1>3. l \in x .. Min2(x + N, task.S) - 1
  BY DEF Block
<1> HIDE DEF N
<1>4. x \in Nat /\ x = N * b
  BY <1>1, <1>2
<1>5. l - x \in 0 .. N - 1 /\ l = x + (l - x)
  <2> HIDE DEF x
  <2>1. QED
    BY <1>1, <1>3, <1>4 DEF Min2
<1>6. (N * b + (l - x)) \div N = b
  <2> HIDE DEF x
  <2>1. QED
    BY <1>1, <1>2, <1>5, DivUnique
<1>7. N * b + (l - x) = l
  BY <1>4, <1>5
<1>8. QED
  BY <1>6, <1>7 DEF N

LEMMA KernelWanted ==
  ASSUME TaskOK, NEW k \in 0 .. task.M - 1, NEW l \in 0 .. task.S - 1,
         Top.dim \in Dimensions,
         task.family \in {"UST", "PPT"} \cup Fastfood \cup Mixing
  PROVE  Kernel(Argument(k), l) = Wanted(Given(k), l)
<1> DEFINE v == Given(k)
<1>0. task.N \in Nat \ {0} /\ task.S \in Nat \ {0} /\ l \in Nat /\ (l + 1) - 1 = l
  BY TaskNumbers
<1>1. v = [n \in 1 .. task.N |-> v[n]]
  BY Lengths
<1>2. task.family # "RFUT inverse" => Argument(k) = v
  BY DEF Argument
<1> HIDE DEF v
<1>3. CASE task.family = "UST"
  <2>1. UST_local(v, l) = v[task.samples[l + 1] + 1]
    BY <1>1, <1>3, Sampled DEF UST_local
  <2>2. QED
    BY <1>2, <1>3, <2>1 DEF Kernel, Wanted, Fastfood, v
<1>4. CASE task.family = "PPT"
  BY <1>2, <1>4 DEF Kernel, Wanted, Fastfood, PPT_local, v
<1>5. CASE task.family \in Fastfood
  <2> DEFINE i == l \div task.N
             n == l % task.N
             W == V("blocks B, P and G", <<i, n>>, v)
  <2>1. i \in 0 .. numblks - 1 /\ l \in Block(i) /\ l - i * task.N = n
        /\ i * task.N + (l - i * task.N) = l
    BY InBlock
  <2>2. \A b \in 0 .. numblks - 1 : l \in Block(b) => b = i
    BY OneBlock
  <2>3. Sm[l] = V("Sm", <<l>>, << >>)
    <3>1. l \in 0 .. numblks * task.N - 1
      BY InBlock
    <3>2. ~ (l >= task.S)
      BY <1>0
    <3>3. QED
      BY <3>1, <3>2 DEF Sm
  <2> DEFINE b == CHOOSE b \in 0 .. numblks - 1 : l \in Block(b)
  <2>4. b = i
    BY <2>1, <2>2
  <2> HIDE DEF b, i, n
  <2>5. FastRFT_local_columnwise(v, l) = V("cos", <<l>>, <<Sm[l], W>>)
    <3>1. FastRFT_local_columnwise(v, l)
            = V("cos", <<l>>, <<Sm[b * task.N + (l - b * task.N)],
                                V("blocks B, P and G", <<b, l - b * task.N>>, v)>>)
      BY <2>1 DEF FastRFT_local_columnwise, b
    <3>2. QED
      BY <2>1, <2>4, <3>1
  <2>6. FastRFT_local_rowwise(v, l) = V("cos", <<l>>, <<Sm[l], W>>)
    <3> DEFINE copied == [j \in UNION {Block(c) : c \in 0 .. numblks - 1} |->
                            LET c == j \div task.N
                                s == c * task.N
                            IN  <<Sm[c * task.N + (j - s)],
                                  V("blocks B, P and G", <<c, j - s>>, v)>>]
    <3>1. l \in UNION {Block(c) : c \in 0 .. numblks - 1}
      BY <2>1
    <3>2. copied[l] = <<Sm[i * task.N + (l - i * task.N)],
                        V("blocks B, P and G", <<i, l - i * task.N>>, v)>>
      BY <3>1 DEF i
    <3>3. FastRFT_local_rowwise(v, l) = V("cos", <<l>>, copied[l])
      BY <3>1 DEF FastRFT_local_rowwise
    <3> HIDE DEF copied
    <3>4. QED
      BY <2>1, <3>2, <3>3
  <2>7. Wanted(v, l) = V("cos", <<l>>, <<V("Sm", <<l>>, << >>), W>>)
    BY <1>5 DEF Wanted, Fastfood, i, n
  <2>8. Kernel(v, l) = V("cos", <<l>>, <<Sm[l], W>>)
    BY <1>5, <2>5, <2>6 DEF Kernel, Fastfood, Dimensions
  <2>9. Argument(k) = v
    BY <1>2, <1>5 DEF Fastfood
  <2>10. QED
    BY <2>3, <2>7, <2>8, <2>9 DEF v
<1>6. CASE task.family = "RFUT"
  <2> DEFINE f == FUT(Signed(v))
  <2>1. f = [n \in 1 .. task.N |-> f[n]]
    BY Lengths DEF v
  <2>2. task.N = task.S
    BY <1>6 DEF TaskOK, Mixing
  <2> HIDE DEF f
  <2>3. Item(f, l) = f[l + 1]
    BY <1>0, <2>1, <2>2, Items
  <2>4. QED
    BY <1>2, <1>6, <2>3 DEF Kernel, RFUT_kernel, Wanted, Fastfood, f, v
<1>7. CASE task.family = "RFUT inverse"
  <2>1. task.N = task.S
    BY <1>7 DEF TaskOK, Mixing
  <2>2. Argument(k) = FUT(Signed(v))
    BY <1>7 DEF Argument, v
  <2>3. RFUT_inverse(Argument(k), l) = Item(v, l)
    BY <2>2, TakenBack DEF RFUT_inverse, v
  <2>4. Item(v, l) = v[l + 1]
    BY <1>0, <1>1, <2>1, Items
  <2>5. QED
    BY <1>7, <2>3, <2>4 DEF Kernel, Wanted, Fastfood, v
<1>8. QED
  BY <1>3, <1>4, <1>5, <1>6, <1>7 DEF Mixing

(* A kernel applied to the vectors that were given.                        *)
LEMMA Applied ==
  ASSUME TaskOK, NEW dist, NEW out, Top.dim \in Dimensions,
         Suits(dist, out, Top.dim),
         task.family \in {"UST", "PPT"} \cup Fastfood \cup Mixing
  PROVE  LocalApply(Spread(dist, Top.dim, task.N, Arguments), out, Top.dim,
                    task.S, Kernel)
           = Spread(out, Top.dim, task.S, Results)
<1> DEFINE dim == Top.dim
           A == Spread(dist, dim, task.N, Arguments)
           h == High(dim, task.S)
           w == Wide(dim, task.S)
           place(p, g) == Place(g, IF dim = "columnwise" THEN Rows(out, task.S, p)
                                   ELSE Cols(out, task.S, p))
           value(p, e) == Kernel(Vector(A, dim, p, Across(dim, e)),
                                 place(p, Down(dim, e)))
<1>1. task.S \in Nat /\ task.N \in Nat
  BY TaskNumbers
<1>2. A.h = High(dim, task.N) /\ A.w = Wide(dim, task.N)
  BY DEF Spread
<1>3. LocalApply(A, out, dim, task.S, Kernel)
        = [dist |-> out, h |-> h, w |-> w,
           at |-> [p \in P |-> [e \in Share(out, h, w, p) |-> value(p, e)]]]
  <2> HIDE DEF A
  <2>1. CASE dim = "columnwise"
    BY <1>2, <2>1 DEF LocalApply, Matrix, Share, High, Wide, Across, Down
  <2>2. CASE dim = "rowwise"
    BY <1>2, <2>2 DEF LocalApply, Matrix, Share, High, Wide, Across, Down
  <2>3. QED
    BY <2>1, <2>2 DEF Dimensions
<1>4. ASSUME NEW p \in P, NEW e \in Share(out, h, w, p)
      PROVE  value(p, e) = Results[Across(dim, e)][Down(dim, e) + 1]
  <2> DEFINE k == Across(dim, e)
             g == Down(dim, e)
  <2>1. k \in 0 .. task.M - 1 /\ g \in 0 .. task.S - 1
    BY <1>1, <1>4, ShareEntries, Extents
  <2>2. Vector(A, dim, p, k) = [l \in 1 .. task.N |-> Arguments[k][l]]
        /\ g = place(p, g)
    <3>1. WholeAt(A, out, dim, task.N, task.S, Arguments, p, e)
      BY <1>1, <1>4, WholeVectors
    <3> HIDE DEF A
    <3>2. QED
      BY <3>1 DEF WholeAt
  <2>3. Arguments[k] = Argument(k)
    BY <2>1 DEF Arguments
  <2> HIDE DEF A, k, g
  <2>4. Vector(A, dim, p, k) = Argument(k)
    BY <2>2, <2>3, Lengths
  <2>5. Results[k][g + 1] = Wanted(Given(k), g)
    <3>1. g + 1 \in 1 .. task.S /\ (g + 1) - 1 = g
      BY <1>1, <2>1
    <3>2. QED
      BY <2>1, <3>1 DEF Results
  <2>6. Kernel(Argument(k), g) = Wanted(Given(k), g)
    BY <2>1, KernelWanted
  <2>7. value(p, e) = Kernel(Vector(A, dim, p, k), place(p, g))
    BY DEF k, g
  <2> HIDE DEF value
  <2>8. QED
    BY <2>2, <2>4, <2>5, <2>6, <2>7 DEF k, g
<1> HIDE DEF A, value
<1>5. [p \in P |-> [e \in Share(out, h, w, p) |-> value(p, e)]]
        = [p \in P |-> [e \in Share(out, h, w, p) |->
                          Results[Across(dim, e)][Down(dim, e) + 1]]]
  BY <1>4
<1>6. QED
  BY <1>3, <1>5 DEF A, Spread
-----------------------------------------------------------------------------
(* Whole vectors, mixed in place, and sampled.                             *)
LEMMA RowsAreWhole ==
  ASSUME TaskOK, NEW dist \in RowDists
  PROVE  Suits(dist, dist, "columnwise") /\ dist \in Known
<1>1. dist \in Known /\ dist[1] = "STAR"
  BY DEF Known, Same, RowDists
<1>2. Stride("STAR") = 1
  BY DEF Stride, StrideOf
<1>3. QED
  BY <1>1, <1>2 DEF Suits

MixingKernel(v, l) == IF task.family = "RFUT inverse" THEN RFUT_inverse(v, l)
                      ELSE RFUT_kernel(v, l)

LEMMA KernelMixes ==
  ASSUME TaskOK, NEW k, NEW l \in 0 .. task.N - 1, task.family \in {"FJLT"} \cup Mixing
  PROVE  MixingKernel(Argument(k), l) = MixedOf(k)[l + 1]
<1>1. task.N \in Nat
  BY TaskNumbers
<1> DEFINE m == MixedOf(k)
<1>2. m = [n \in 1 .. task.N |-> m[n]]
  BY Lengths
<1>3. MixingKernel(Argument(k), l) = Item(m, l)
  <2>1. CASE task.family = "RFUT inverse"
    <3>1. Argument(k) = FUT(Signed(Given(k))) /\ m = Given(k)
      BY <2>1 DEF Argument, MixedOf
    <3> HIDE DEF m
    <3>2. QED
      BY <2>1, <3>1, TakenBack DEF MixingKernel, RFUT_inverse
  <2>2. CASE task.family # "RFUT inverse"
    BY <2>2 DEF Argument, MixedOf, MixingKernel, RFUT_kernel
  <2>3. QED
    BY <2>1, <2>2
<1> HIDE DEF m
<1>4. Item(m, l) = m[l + 1]
  BY <1>1, <1>2, Items
<1>5. QED
  BY <1>3, <1>4 DEF m

LEMMA MixedInPlace ==
  ASSUME TaskOK, NEW dist \in RowDists, task.family \in {"FJLT"} \cup Mixing
  PROVE  LocalApply(Spread(dist, "columnwise", task.N, Arguments), dist,
                    "columnwise", task.N, MixingKernel)
           = Spread(dist, "columnwise", task.N, Mixed)
<1> DEFINE dim == "columnwise"
           A == Spread(dist, dim, task.N, Arguments)
           h == High(dim, task.N)
           w == Wide(dim, task.N)
           place(p, g) == Place(g, IF dim = "columnwise" THEN Rows(dist, task.N, p)
                                   ELSE Cols(dist, task.N, p))
           value(p, e) == MixingKernel(Vector(A, dim, p, Across(dim, e)),
                                       place(p, Down(dim, e)))
<1>1. task.N \in Nat /\ dim \in Dimensions
  BY TaskNumbers DEF Dimensions
<1>2. A.h = High(dim, task.N) /\ A.w = Wide(dim, task.N)
  BY DEF Spread
<1>3. LocalApply(A, dist, dim, task.N, MixingKernel)
        = [dist |-> dist, h |-> h, w |-> w,
           at |-> [p \in P |-> [e \in Share(dist, h, w, p) |-> value(p, e)]]]
  <2> HIDE DEF A
  <2>1. QED
    BY <1>2 DEF LocalApply, Matrix, Share, High, Wide, Across, Down
<1>4. ASSUME NEW p \in P, NEW e \in Share(dist, h, w, p)
      PROVE  value(p, e) = Mixed[Across(dim, e)][Down(dim, e) + 1]
  <2> DEFINE k == Across(dim, e)
             g == Down(dim, e)
  <2>1. k \in 0 .. task.M - 1 /\ g \in 0 .. task.N - 1
    BY <1>1, <1>4, ShareEntries, Extents
  <2>2. Vector(A, dim, p, k) = [l \in 1 .. task.N |-> Arguments[k][l]]
        /\ g = place(p, g)
    <3>1. Suits(dist, dist, dim)
      BY RowsAreWhole
    <3>2. WholeAt(A, dist, dim, task.N, task.N, Arguments, p, e)
      BY <1>1, <1>4, <3>1, WholeVectors
    <3> HIDE DEF A
    <3>3. QED
      BY <3>2 DEF WholeAt
  <2>3. Arguments[k] = Argument(k) /\ Mixed[k] = MixedOf(k)
    BY <2>1 DEF Arguments, Mixed
  <2> HIDE DEF A, k, g
  <2>4. Vector(A, dim, p, k) = Argument(k)
    BY <2>2, <2>3, Lengths
  <2>5. MixingKernel(Argument(k), g) = MixedOf(k)[g + 1]
    BY <2>1, KernelMixes
  <2>6. value(p, e) = MixingKernel(Vector(A, dim, p, k), place(p, g))
    BY DEF k, g
  <2> HIDE DEF value
  <2>7. QED
    BY <2>2, <2>3, <2>4, <2>5, <2>6 DEF k, g
<1> HIDE DEF A, value
<1>5. [p \in P |-> [e \in Share(dist, h, w, p) |-> value(p, e)]]
        = [p \in P |-> [e \in Share(dist, h, w, p) |->
                          Mixed[Across(dim, e)][Down(dim, e) + 1]]]
  BY <1>4
<1>6. QED
  BY <1>3, <1>5 DEF A, Spread

LEMMA SampledInPlace ==
  ASSUME TaskOK, NEW dist \in RowDists, task.family = "FJLT"
  PROVE  LocalApply(Spread(dist, "columnwise", task.N, Mixed), dist,
                    "columnwise", task.S, FJLT_sample)
           = Spread(dist, "columnwise", task.S, Results)
<1> DEFINE dim == "columnwise"
           A == Spread(dist, dim, task.N, Mixed)
           h == High(dim, task.S)
           w == Wide(dim, task.S)
           place(p, g) == Place(g, IF dim = "columnwise" THEN Rows(dist, task.S, p)
                                   ELSE Cols(dist, task.S, p))
           value(p, e) == FJLT_sample(Vector(A, dim, p, Across(dim, e)),
                                      place(p, Down(dim, e)))
<1>1. task.N \in Nat /\ task.S \in Nat /\ dim \in Dimensions
  BY TaskNumbers DEF Dimensions
<1>2. A.h = High(dim, task.N) /\ A.w = Wide(dim, task.N)
  BY DEF Spread
<1>3. LocalApply(A, dist, dim, task.S, FJLT_sample)
        = [dist |-> dist, h |-> h, w |-> w,
           at |-> [p \in P |-> [e \in Share(dist, h, w, p) |-> value(p, e)]]]
  <2> HIDE DEF A
  <2>1. QED
    BY <1>2 DEF LocalApply, Matrix, Share, High, Wide, Across, Down
<1>4. ASSUME NEW p \in P, NEW e \in Share(dist, h, w, p)
      PROVE  value(p, e) = Results[Across(dim, e)][Down(dim, e) + 1]
  <2> DEFINE k == Across(dim, e)
             g == Down(dim, e)
  <2>1. k \in 0 .. task.M - 1 /\ g \in 0 .. task.S - 1
    BY <1>1, <1>4, ShareEntries, Extents
  <2>2. Vector(A, dim, p, k) = [l \in 1 .. task.N |-> Mixed[k][l]]
        /\ g = place(p, g)
    <3>1. Suits(dist, dist, dim)
      BY RowsAreWhole
    <3>2. WholeAt(A, dist, dim, task.N, task.S, Mixed, p, e)
      BY <1>1, <1>4, <3>1, WholeVectors
    <3> HIDE DEF A
    <3>3. QED
      BY <3>2 DEF WholeAt
  <2>3. Mixed[k] = FUT(Signed(Given(k)))
    BY <2>1 DEF Mixed, MixedOf
  <2> HIDE DEF A, k, g
  <2>4. FJLT_sample(Vector(A, dim, p, k), g) = Mixed[k][task.samples[g + 1] + 1]
    BY <2>1, <2>2, Sampled DEF FJLT_sample
  <2>5. Results[k][g + 1] = Wanted(Given(k), g)
    <3>1. g + 1 \in 1 .. task.S /\ (g + 1) - 1 = g
      BY <1>1, <2>1
    <3>2. QED
      BY <2>1, <3>1 DEF Results
  <2>6. Wanted(Given(k), g) = FUT(Signed(Given(k)))[task.samples[g + 1] + 1]
    BY DEF Wanted, Fastfood
  <2>7. value(p, e) = FJLT_sample(Vector(A, dim, p, k), place(p, g))
    BY DEF k, g
  <2> HIDE DEF value
  <2>8. QED
    BY <2>2, <2>3, <2>4, <2>5, <2>6, <2>7 DEF k, g
<1> HIDE DEF A, value
<1>5. [p \in P |-> [e \in Share(dist, h, w, p) |-> value(p, e)]]
        = [p \in P |-> [e \in Share(dist, h, w, p) |->
                          Results[Across(dim, e)][Down(dim, e) + 1]]]
  BY <1>4
<1>6. QED
  BY <1>3, <1>5 DEF A, Spread
-----------------------------------------------------------------------------
(* Random features: a dense sketch, and what becomes of its entries.       *)
DenseMatrix(A) ==
  LET R(s, k) == V("R", <<s>>, [n \in 1 .. task.N |->
                     LET at == Along(Top.dim, n - 1, k)
                     IN  Entry(A, at[1], at[2])])
  IN  IF Columnwise THEN Matrix(Top.out, task.S, A.w, LAMBDA p, i, j : R(i, j))
      ELSE Matrix(Top.out, A.h, task.S, LAMBDA p, i, j : R(j, i))

LEMMA DenseSketch ==
  ASSUME TaskOK, task.family \in Features, NEW dist \in Known, Top.dim \in Dimensions
  PROVE  DenseMatrix(Spread(dist, Top.dim, task.N, Arguments))
           = Spread(Top.out, Top.dim, task.S, Linear)
<1> DEFINE dim == Top.dim
           out == Top.out
           A == Spread(dist, dim, task.N, Arguments)
           h == High(dim, task.S)
           w == Wide(dim, task.S)
           row(k) == [n \in 1 .. task.N |-> LET at == Along(dim, n - 1, k)
                                            IN  Entry(A, at[1], at[2])]
           value(e) == V("R", <<Down(dim, e)>>, row(Across(dim, e)))
<1>1. task.S \in Nat /\ task.N \in Nat /\ task.M \in Nat
  BY TaskNumbers
<1>2. A.h = High(dim, task.N) /\ A.w = Wide(dim, task.N)
  BY DEF Spread
<1>3. DenseMatrix(A)
        = [dist |-> out, h |-> h, w |-> w,
           at |-> [p \in P |-> [e \in Share(out, h, w, p) |-> value(e)]]]
  <2> HIDE DEF A
  <2>1. CASE dim = "columnwise"
    BY <1>2, <2>1 DEF DenseMatrix, Columnwise, Matrix, Share, High, Wide, Across, Down
  <2>2. CASE dim = "rowwise"
    BY <1>2, <2>2 DEF DenseMatrix, Columnwise, Matrix, Share, High, Wide, Across, Down
  <2>3. QED
    BY <2>1, <2>2 DEF Dimensions
<1>4. ASSUME NEW k \in 0 .. task.M - 1 PROVE row(k) = Given(k)
  <2>1. ASSUME NEW n \in 1 .. task.N
        PROVE  LET at == Along(dim, n - 1, k)
               IN  Entry(A, at[1], at[2]) = Given(k)[n]
    <3> DEFINE at == Along(dim, n - 1, k)
    <3>1. /\ at[1] \in 0 .. High(dim, task.N) - 1 /\ at[2] \in 0 .. Wide(dim, task.N) - 1
          /\ Across(dim, <<at[1], at[2]>>) = k /\ Down(dim, <<at[1], at[2]>>) = n - 1
      BY <1>1 DEF Along, High, Wide, Across, Down
    <3>2. Arguments[k] = Given(k)
      BY DEF Arguments, Argument, Features
    <3> HIDE DEF at
    <3>3. Entry(A, at[1], at[2]) = Arguments[k][(n - 1) + 1]
      BY <1>1, <3>1, SpreadEntry
    <3>4. (n - 1) + 1 = n
      BY <1>1
    <3>5. QED
      BY <3>2, <3>3, <3>4 DEF at
  <2> HIDE DEF A
  <2>2. row(k) = [n \in 1 .. task.N |-> Given(k)[n]]
    BY <2>1
  <2>3. QED
    BY <2>2, Lengths
<1>5. ASSUME NEW p \in P, NEW e \in Share(out, h, w, p)
      PROVE  value(e) = Linear[Across(dim, e)][Down(dim, e) + 1]
  <2> DEFINE k == Across(dim, e)
             g == Down(dim, e)
  <2>1. k \in 0 .. task.M - 1 /\ g \in 0 .. task.S - 1
    BY <1>1, <1>5, ShareEntries, Extents
  <2>2. row(k) = Given(k)
    BY <1>4, <2>1
  <2> HIDE DEF k, g, row
  <2>3. g + 1 \in 1 .. task.S /\ (g + 1) - 1 = g
    BY <1>1, <2>1
  <2>4. Linear[k][g + 1] = V("R", <<g>>, Given(k))
    BY <2>1, <2>3 DEF Linear
  <2>5. QED
    BY <2>2, <2>4 DEF k, g
<1> HIDE DEF A, value
<1>6. [p \in P |-> [e \in Share(out, h, w, p) |-> value(e)]]
        = [p \in P |-> [e \in Share(out, h, w, p) |->
                          Linear[Across(dim, e)][Down(dim, e) + 1]]]
  BY <1>5
<1>7. QED
  BY <1>3, <1>6 DEF A, Spread

LEMMA ChangedAsWanted ==
  ASSUME TaskOK, task.family \in Features, Top.dim \in Dimensions,
         Top.out \in Known \ {LOCAL_SPARSE},
         NEW p \in P, NEW k, NEW g \in Nat,
         g \in Part(IF Columnwise THEN Top.out[1] ELSE Top.out[2], task.S, p),
         NEW l, l = Place(g, Held(IF Columnwise THEN Top.out[1] ELSE Top.out[2],
                                  task.S, p))
  PROVE  Changed(p, l, V("R", <<g>>, Given(k))) = Wanted(Given(k), g)
<1> DEFINE d == IF Columnwise THEN Top.out[1] ELSE Top.out[2]
<1>1. task.S \in Nat /\ d \in Dims
  BY TaskNumbers, KnownDims
<1>2. l \in Nat /\ g = Rank(d, p) + l * Stride(d)
  <2>1. g \in Range(Held(d, task.S, p))
    BY <1>1, HeldRange
  <2> HIDE DEF d
  <2>2. Place(g, Held(d, task.S, p)) \in Nat
        /\ g = Rank(d, p) + Place(g, Held(d, task.S, p)) * Stride(d)
    BY <1>1, <2>1, PlaceHeld
  <2>3. QED
    BY <2>2 DEF d
<1>3. Strided(d, p, l) = g
  BY <1>2 DEF Strided, Rank, Stride
<1>4. Top.out = LOCAL_M => l = g
  <2>1. ASSUME Top.out = LOCAL_M PROVE l = g
    <3>1. d = "LOCAL" /\ Rank(d, p) = 0 /\ Stride(d) = 1
      BY <2>1, Strides DEF LOCAL_M
    <3> HIDE DEF d
    <3>2. QED
      BY <1>2, <3>1
  <2>2. QED
    BY <2>1
<1>5. CASE task.family = "RFT"
  BY <1>3, <1>4, <1>5 DEF Changed, Wanted, Fastfood, RFT_local, RFT_columnwise,
                          RFT_rowwise, RFT_entry
<1>6. CASE task.family = "QRFT"
  BY <1>3, <1>4, <1>6 DEF Changed, Wanted, Fastfood, QRFT_local, QRFT_columnwise,
                          QRFT_rowwise, QRFT_entry
<1>7. CASE task.family \in {"RLT", "QRLT"}
  BY <1>7 DEF Changed, Wanted, Fastfood, RLT_entry, QRLT_entry
<1>8. QED
  BY <1>5, <1>6, <1>7 DEF Features

FeatureMatrix(SA) ==
  LET place(p, i, j) == IF Columnwise THEN Place(i, Rows(SA.dist, SA.h, p))
                        ELSE Place(j, Cols(SA.dist, SA.w, p))
  IN  Matrix(SA.dist, SA.h, SA.w,
             LAMBDA p, i, j : Changed(p, place(p, i, j), SA.at[p][<<i, j>>]))

LEMMA FeaturesOfDense ==
  ASSUME TaskOK, task.family \in Features, Top.dim \in Dimensions,
         Top.out \in Known \ {LOCAL_SPARSE}
  PROVE  FeatureMatrix(Spread(Top.out, Top.dim, task.S, Linear))
           = Spread(Top.out, Top.dim, task.S, Results)
<1> DEFINE dim == Top.dim
           out == Top.out
           A == Spread(out, dim, task.S, Linear)
           h == High(dim, task.S)
           w == Wide(dim, task.S)
           d == IF Columnwise THEN out[1] ELSE out[2]
           place(p, e) == Place(Down(dim, e), Held(d, task.S, p))
           value(p, e) == Changed(p, place(p, e), A.at[p][e])
<1>1. task.S \in Nat
  BY TaskNumbers
<1>2. A.h = h /\ A.w = w /\ A.dist = out
      /\ \A p \in P : A.at[p] = [e \in Share(out, h, w, p) |->
                                   Linear[Across(dim, e)][Down(dim, e) + 1]]
  BY DEF Spread
<1>3. \A p : \A e \in Share(out, h, w, p) : e = <<e[1], e[2]>>
  BY DEF Share
<1>4. FeatureMatrix(A)
        = [dist |-> out, h |-> h, w |-> w,
           at |-> [p \in P |-> [e \in Share(out, h, w, p) |-> value(p, e)]]]
  <2> DEFINE other(p, e) ==
               Changed(p, IF Columnwise THEN Place(e[1], Rows(out, h, p))
                          ELSE Place(e[2], Cols(out, w, p)), A.at[p][<<e[1], e[2]>>])
  <2>1. FeatureMatrix(A)
          = [dist |-> out, h |-> h, w |-> w,
             at |-> [p \in P |-> [e \in Share(out, h, w, p) |-> other(p, e)]]]
    <3> HIDE DEF A
    <3>1. QED
      BY <1>2 DEF FeatureMatrix, Matrix, Share
  <2>2. ASSUME NEW p \in P, NEW e \in Share(out, h, w, p)
        PROVE  other(p, e) = value(p, e)
    <3> HIDE DEF A
    <3>1. A.at[p][<<e[1], e[2]>>] = A.at[p][e]
      BY <1>3
    <3>2. (IF Columnwise THEN Place(e[1], Rows(out, h, p))
           ELSE Place(e[2], Cols(out, w, p))) = place(p, e)
      BY DEF Columnwise, Rows, Cols, Held, High, Wide, Down
    <3>3. QED
      BY <3>1, <3>2
  <2> HIDE DEF other, value
  <2>3. [p \in P |-> [e \in Share(out, h, w, p) |-> other(p, e)]]
          = [p \in P |-> [e \in Share(out, h, w, p) |-> value(p, e)]]
    BY <2>2
  <2>4. QED
    BY <2>1, <2>3
<1>5. ASSUME NEW p \in P, NEW e \in Share(out, h, w, p)
      PROVE  value(p, e) = Results[Across(dim, e)][Down(dim, e) + 1]
  <2> DEFINE k == Across(dim, e)
             g == Down(dim, e)
  <2>1. k \in 0 .. task.M - 1 /\ g \in 0 .. task.S - 1 /\ g \in Nat
    <3>1. e \in (0 .. h - 1) \X (0 .. w - 1)
      BY <1>1, <1>5, ShareEntries, Extents
    <3>2. k \in 0 .. task.M - 1 /\ g \in 0 .. task.S - 1
      BY <1>1, <3>1, Extents
    <3>3. QED
      BY <1>1, <3>2
  <2>2. g \in Part(d, task.S, p)
    <3>1. e[1] \in Part(out[1], h, p) /\ e[2] \in Part(out[2], w, p)
      BY <1>1, <1>5, ShareEntries, Extents
    <3>2. QED
      BY <3>1 DEF Columnwise, High, Wide, Down
  <2> HIDE DEF k, g
  <2>3. g + 1 \in 1 .. task.S /\ (g + 1) - 1 = g
    BY <1>1, <2>1
  <2>4. /\ Linear[k][g + 1] = V("R", <<g>>, Given(k))
        /\ Results[k][g + 1] = Wanted(Given(k), g)
    BY <2>1, <2>3 DEF Linear, Results
  <2>5. A.at[p][e] = V("R", <<g>>, Given(k))
    BY <1>2, <1>5, <2>4 DEF k, g
  <2> HIDE DEF A
  <2>6. Changed(p, Place(g, Held(d, task.S, p)), V("R", <<g>>, Given(k)))
          = Wanted(Given(k), g)
    BY <2>1, <2>2, ChangedAsWanted
  <2>7. QED
    BY <2>4, <2>5, <2>6 DEF k, g
<1> HIDE DEF A, value
<1>6. [p \in P |-> [e \in Share(out, h, w, p) |-> value(p, e)]]
        = [p \in P |-> [e \in Share(out, h, w, p) |->
                          Results[Across(dim, e)][Down(dim, e) + 1]]]
  BY <1>5
<1>7. QED
  BY <1>4, <1>6 DEF A, Spread
-----------------------------------------------------------------------------
(* What a call may be of, and what it does.                                *)
Applicable(dist, out, dim) == <<task.family, <<dist, out>>, dim>> \in Applications

Whole == {"UST", "PPT"} \cup Fastfood

KindOf(f, dist, out, dim) ==
  \/ f \in Whole /\ out = dist /\ dist \in Same \cup Others
  \/ f \in Fastfood \cup {"PPT"} /\ dist = LOCAL_SPARSE /\ out = LOCAL_M
  \/ f = "FJLT" /\ dist = MC_MR /\ out = MC_MR
  \/ f = "FJLT" /\ dist \in Vectors \cup Others /\ out \in {S_S, CIRC_CIRC}
  \/ f \in Features /\ dist \in Same \ {CIRC_CIRC} /\ out = dist
  \/ f \in Features /\ dist \in {MC_MR} \cup Vectors /\ out \in {S_S, CIRC_CIRC}
  \/ f = "RFUT" /\ out = dist /\ dist \in {LOCAL_M, OTHER_R} \cup RowDists
       /\ dim = "columnwise"
  \/ f = "RFUT" /\ out = dist /\ dist \in ColDists \cup {OTHER_C}
  \/ f = "RFUT inverse" /\ out = dist /\ dist \in ColDists \cup {OTHER_C}
       /\ dim = "columnwise"

LEMMA Kinds ==
  ASSUME NEW dist, NEW out, NEW dim
  PROVE  Applicable(dist, out, dim) <=>
           dim \in Dimensions /\ KindOf(task.family, dist, out, dim)
<1> DEFINE f == task.family
           a == <<f, <<dist, out>>, dim>>
<1>1. /\ a \in ({"UST"} \cup Fastfood \cup {"PPT"})
               \X {<<d, d>> : d \in Same \cup Others} \X Dimensions
           <=> f \in Whole /\ out = dist /\ dist \in Same \cup Others /\ dim \in Dimensions
      /\ a \in Fastfood \X {<<LOCAL_SPARSE, LOCAL_M>>} \X Dimensions
           <=> f \in Fastfood /\ dist = LOCAL_SPARSE /\ out = LOCAL_M /\ dim \in Dimensions
      /\ a \in {"PPT"} \X {<<LOCAL_SPARSE, LOCAL_M>>} \X Dimensions
           <=> f = "PPT" /\ dist = LOCAL_SPARSE /\ out = LOCAL_M /\ dim \in Dimensions
  BY DEF Whole
<1>2. a \in {"FJLT"} \X ({<<MC_MR, MC_MR>>} \cup (Vectors \cup Others) \X {S_S, CIRC_CIRC})
            \X Dimensions
        <=> /\ f = "FJLT" /\ dim \in Dimensions
            /\ \/ dist = MC_MR /\ out = MC_MR
               \/ dist \in Vectors \cup Others /\ out \in {S_S, CIRC_CIRC}
  OBVIOUS
<1>3. a \in Features
            \X ({<<d, d>> : d \in Same \ {CIRC_CIRC}}
                  \cup ({MC_MR} \cup Vectors) \X {S_S, CIRC_CIRC})
            \X Dimensions
        <=> /\ f \in Features /\ dim \in Dimensions
            /\ \/ dist \in Same \ {CIRC_CIRC} /\ out = dist
               \/ dist \in {MC_MR} \cup Vectors /\ out \in {S_S, CIRC_CIRC}
  OBVIOUS
<1>4. /\ a \in {"RFUT"} \X {<<d, d>> : d \in {LOCAL_M, OTHER_R} \cup RowDists}
               \X {"columnwise"}
           <=> /\ f = "RFUT" /\ out = dist /\ dist \in {LOCAL_M, OTHER_R} \cup RowDists
               /\ dim = "columnwise"
      /\ a \in {"RFUT"} \X {<<d, d>> : d \in ColDists \cup {OTHER_C}} \X Dimensions
           <=> f = "RFUT" /\ out = dist /\ dist \in ColDists \cup {OTHER_C} /\ dim \in Dimensions
      /\ a \in {"RFUT inverse"} \X {<<d, d>> : d \in ColDists \cup {OTHER_C}}
               \X {"columnwise"}
           <=> /\ f = "RFUT inverse" /\ out = dist /\ dist \in ColDists \cup {OTHER_C}
               /\ dim = "columnwise"
  OBVIOUS
<1>5. "columnwise" \in Dimensions
  BY DEF Dimensions
<1>6. QED
  BY <1>1, <1>2, <1>3, <1>4, <1>5 DEF Applicable, Applications, KindOf, Whole

(* Transposed, these matrices are passed to the function that transposed   *)
(* them.                                                                   *)
Loops(dist, dim) == task.family \in Fastfood \cup {"PPT"} /\ dist \in RowDists
                    /\ dim = "rowwise"

WayOK(dist, out, dim, way) ==
  \/ way.how = "dense" /\ task.family \in Features /\ out \in Known \ {LOCAL_SPARSE}
  \/ way.how = "refuse"
  \/ way.how \in {"local", "root"} /\ Suits(dist, out, dim)
       /\ task.family \in Whole \cup Mixing
  \/ way.how = "transpose" /\ Loops(dist, dim) /\ way.dim = dim
  \/ way.how = "transpose" /\ ~ Loops(dist, dim) /\ way.dim = Flip(dim)
       /\ Applicable(dist, out, way.dim) /\ ~ Loops(dist, way.dim)
  \/ way.how = "redistribute" /\ way.dim = dim
       /\ Applicable(way.dist, way.dist, dim) /\ ~ Loops(way.dist, dim)
  \/ way.how = "mix" /\ dim = "columnwise" /\ way.dist \in RowDists
       /\ task.family \in {"FJLT"} \cup Mixing

LEMMA KnownDists ==
  /\ LOCAL_M \in Known /\ LOCAL_SPARSE \in Known /\ S_S \in Known /\ MC_MR \in Known
  /\ CIRC_CIRC \in Known /\ OTHER_C \in Known /\ OTHER_R \in Known
  /\ ColDists \subseteq Known /\ RowDists \subseteq Known
BY DEF Known, Same, Others

LEMMA AllDiffer ==
  /\ LOCAL_M \notin Others /\ LOCAL_SPARSE \notin Others \cup Same /\ Same \cap Others = {}
  /\ LOCAL_M \notin {S_S, CIRC_CIRC, MC_MR} \cup ColDists \cup RowDists
  /\ S_S \notin {CIRC_CIRC, MC_MR} \cup ColDists \cup RowDists
  /\ CIRC_CIRC \notin {MC_MR} \cup ColDists \cup RowDists
  /\ MC_MR \notin ColDists \cup RowDists
  /\ ColDists \cap RowDists = {}
BY DEF Same, Others, LOCAL_M, LOCAL_SPARSE, S_S, CIRC_CIRC, MC_MR, ColDists, RowDists,
       OTHER_C, OTHER_R

LEMMA SameSuits ==
  ASSUME TaskOK, NEW dist, NEW out, NEW dim \in Dimensions,
         \/ dist \in {LOCAL_M, S_S, CIRC_CIRC} /\ out = dist
         \/ dist \in RowDists /\ out = dist /\ dim = "columnwise"
         \/ dist \in ColDists /\ out = dist /\ dim = "rowwise"
         \/ dist = LOCAL_SPARSE /\ out = LOCAL_M
  PROVE  Suits(dist, out, dim)
<1>1. /\ Stride("STAR") = 1 /\ Stride("LOCAL") = 1 /\ Stride("SPARSE") = 1
      /\ Stride("CIRC") = 1
      /\ \A p : Rank("LOCAL", p) = 0 /\ Rank("SPARSE", p) = 0
  BY DEF Stride, StrideOf, Rank, RankOf
<1>2. CASE dist \in {LOCAL_M, S_S, CIRC_CIRC} /\ out = dist
  BY <1>1, <1>2, KnownDists DEF Suits, LOCAL_M, S_S, CIRC_CIRC
<1>3. CASE dist \in RowDists /\ out = dist /\ dim = "columnwise"
  BY <1>3, RowsAreWhole
<1>4. CASE dist \in ColDists /\ out = dist /\ dim = "rowwise"
  <2>1. dist[2] = "STAR" /\ dist \in Known
    BY <1>4, KnownDists DEF ColDists
  <2>2. QED
    BY <1>1, <1>4, <2>1 DEF Suits
<1>5. CASE dist = LOCAL_SPARSE /\ out = LOCAL_M
  BY <1>1, <1>5, KnownDists DEF Suits, LOCAL_M, LOCAL_SPARSE
<1>6. QED
  BY <1>2, <1>3, <1>4, <1>5

LEMMA WholeWays ==
  ASSUME TaskOK, task.family \in Whole, NEW dist, NEW out, NEW dim \in Dimensions,
         out = dist, dist \in Same
  PROVE  WayOK(dist, out, dim, WayOf(task.family, dist, dim))
<1> DEFINE f == task.family
           way == WayOf(f, dist, dim)
<1>1. f \notin Features /\ f \notin Mixing /\ f # "FJLT"
      /\ (f = "UST" \/ f = "PPT" \/ f \in Fastfood)
      /\ (f = "UST" => f \notin Fastfood /\ f # "PPT")
      /\ (f \in Fastfood => f # "PPT")
  BY DEF Whole, Features, Mixing, Fastfood
<1>2. dist \notin Others /\ dist # LOCAL_SPARSE /\ dist \notin {OTHER_C, OTHER_R}
  BY AllDiffer DEF Others
<1>3. \A d \in Dimensions, e \in Same : Applicable(e, e, d)
  BY Kinds DEF KindOf
<1>4. dim = "columnwise" \/ dim = "rowwise"
  BY DEF Dimensions
<1>5. CASE dist = LOCAL_M
  <2>1. way.how = "local"
    BY <1>1, <1>2, <1>5 DEF WayOf, Local, Way
  <2>2. QED
    BY <1>5, <2>1, SameSuits DEF WayOK
<1>6. CASE dist \in {S_S, CIRC_CIRC}
  <2>1. way \in {Local, AtRoot}
    <3>1. CASE dist = S_S
      BY <1>1, <1>2, <3>1, AllDiffer DEF WayOf, UST_STAR_STAR, FastRFT_STAR_STAR,
         PPT_STAR_STAR
    <3>2. CASE dist = CIRC_CIRC
      BY <1>1, <1>2, <3>2, AllDiffer DEF WayOf, UST_CIRC, FastRFT_CIRC, PPT_CIRC
    <3>3. QED
      BY <1>6, <3>1, <3>2
  <2> HIDE DEF way
  <2>2. Local.how = "local" /\ AtRoot.how = "root"
    BY DEF Local, AtRoot, Way
  <2>3. way.how \in {"local", "root"}
    BY <2>1, <2>2
  <2>4. QED
    BY <1>6, <2>3, SameSuits DEF WayOK, way
<1>7. CASE dist = MC_MR
  <2>1. way = Redistribute(IF dim = "columnwise" THEN STAR_VR ELSE VC_STAR, dim)
    BY <1>1, <1>2, <1>7, AllDiffer DEF WayOf, UST_MC_MR, FastRFT_MC_MR, PPT_MC_MR
  <2>2. way.how = "redistribute" /\ way.dim = dim
        /\ way.dist = IF dim = "columnwise" THEN STAR_VR ELSE VC_STAR
    BY <2>1 DEF Redistribute, Way
  <2> HIDE DEF way
  <2>3. STAR_VR \in RowDists /\ VC_STAR \in ColDists /\ RowDists \cup ColDists \subseteq Same
    BY DEF STAR_VR, VC_STAR, RowDists, ColDists, Same
  <2>4. Applicable(way.dist, way.dist, dim)
    BY <1>3, <2>2, <2>3
  <2>5. ~ Loops(way.dist, dim)
    BY <1>4, <2>2, <2>3, AllDiffer DEF Loops
  <2>6. QED
    BY <2>2, <2>4, <2>5 DEF WayOK, way
<1>8. CASE dist \in ColDists
  <2>1. way = IF dim = "rowwise" THEN Local ELSE Transpose("rowwise")
    BY <1>1, <1>2, <1>8, AllDiffer DEF WayOf, UST_V_STAR, FastRFT_V_STAR, PPT_V_STAR
  <2>2. CASE dim = "rowwise"
    <3> HIDE DEF way
    <3>1. way.how = "local"
      BY <2>1, <2>2 DEF Local, Way
    <3>2. QED
      BY <1>8, <2>2, <3>1, SameSuits DEF WayOK, way
  <2>3. CASE dim = "columnwise"
    <3>1. way.how = "transpose" /\ way.dim = "rowwise"
      BY <2>1, <2>3 DEF Transpose, Way
    <3> HIDE DEF way
    <3>2. ~ Loops(dist, dim) /\ ~ Loops(dist, "rowwise") /\ "rowwise" \in Dimensions
          /\ Flip(dim) = "rowwise"
      BY <1>8, <2>3, AllDiffer DEF Loops, Dimensions, Flip
    <3>3. QED
      BY <1>3, <2>3, <3>1, <3>2 DEF WayOK, way
  <2>4. QED
    BY <1>4, <2>2, <2>3
<1>9. CASE dist \in RowDists
  <2>1. way = IF dim = "columnwise" THEN Local
              ELSE IF f = "UST" THEN Transpose("columnwise") ELSE Transpose("rowwise")
    BY <1>1, <1>2, <1>9, AllDiffer DEF WayOf, UST_STAR_V, FastRFT_STAR_V, PPT_STAR_V
  <2>2. CASE dim = "columnwise"
    <3> HIDE DEF way
    <3>1. way.how = "local"
      BY <2>1, <2>2 DEF Local, Way
    <3>2. QED
      BY <1>9, <2>2, <3>1, SameSuits DEF WayOK, way
  <2>3. CASE dim = "rowwise" /\ f = "UST"
    <3>1. way.how = "transpose" /\ way.dim = "columnwise"
      BY <2>1, <2>3 DEF Transpose, Way
    <3> HIDE DEF way
    <3>2. ~ Loops(dist, dim) /\ ~ Loops(dist, "columnwise") /\ "columnwise" \in Dimensions
          /\ Flip(dim) = "columnwise"
      BY <1>1, <2>3 DEF Loops, Dimensions, Flip
    <3>3. QED
      BY <1>3, <2>3, <3>1, <3>2 DEF WayOK, way
  <2>4. CASE dim = "rowwise" /\ f # "UST"
    <3>1. way.how = "transpose" /\ way.dim = "rowwise"
      BY <2>1, <2>4 DEF Transpose, Way
    <3>2. Loops(dist, dim)
      BY <1>1, <1>9, <2>4 DEF Loops
    <3>3. QED
      BY <2>4, <3>1, <3>2 DEF WayOK
  <2>5. QED
    BY <1>4, <2>2, <2>3, <2>4
<1>10. QED
  BY <1>5, <1>6, <1>7, <1>8, <1>9 DEF Same

LEMMA OtherWays ==
  ASSUME TaskOK, NEW dist, NEW out, NEW dim \in Dimensions,
         KindOf(task.family, dist, out, dim),
         dist \in Others \/ dist = LOCAL_SPARSE \/ task.family \in Features
  PROVE  WayOK(dist, out, dim, WayOf(task.family, dist, dim))
<1> DEFINE f == task.family
           way == WayOf(f, dist, dim)
<1>1. dim = "columnwise" \/ dim = "rowwise"
  BY DEF Dimensions
<1>2. CASE f \in Features
  <2>1. f \notin Fastfood /\ f \notin Mixing /\ f # "UST" /\ f # "PPT" /\ f # "FJLT"
    BY <1>2 DEF Features, Mixing, Fastfood
  <2>2. way = Way("dense", None.dist, "")
    BY <1>2, <2>1 DEF WayOf
  <2> HIDE DEF way
  <2>3. way.how = "dense"
    BY <2>2 DEF Way
  <2>4. \/ out = dist /\ dist \in Same
        \/ out \in {S_S, CIRC_CIRC}
    BY <2>1 DEF KindOf, Whole, Mixing
  <2>5. out \in Same
    BY <2>4 DEF Same
  <2>6. out \in Known \ {LOCAL_SPARSE}
    BY <2>5, AllDiffer DEF Known
  <2>7. QED
    BY <1>2, <2>3, <2>6 DEF WayOK, way
<1>3. CASE f \notin Features /\ dist \in Others
  <2>1. dist \in {OTHER_C, OTHER_R} /\ dist # LOCAL_M /\ dist # LOCAL_SPARSE
        /\ dist \notin Same /\ dist # MC_MR /\ dist \notin ColDists
        /\ dist \notin RowDists
    BY <1>3, AllDiffer DEF Others, Same
  <2>2. way = Refuse
    BY <1>3, <2>1 DEF WayOf
  <2> HIDE DEF way
  <2>3. way.how = "refuse"
    BY <2>2 DEF Refuse, Way
  <2>4. QED
    BY <2>3 DEF WayOK, way
<1>4. CASE f \notin Features /\ dist = LOCAL_SPARSE
  <2>1. dist \notin Same \cup Others \cup Vectors \cup ColDists \cup RowDists
        /\ dist \notin {OTHER_C, OTHER_R, MC_MR, LOCAL_M}
    BY <1>4, AllDiffer DEF Vectors, Same, Others
  <2>2. f \in Fastfood \cup {"PPT"} /\ out = LOCAL_M
    BY <1>4, <2>1 DEF KindOf, Same
  <2>3. f # "UST" /\ (f \in Fastfood => f # "PPT") /\ f \in Whole
        /\ Local.how = "local"
    BY <2>2 DEF Fastfood, Whole, Local, Way
  <2>4. CASE f \in Fastfood \/ dim = "columnwise"
    <3>1. way = Local
      BY <1>4, <2>1, <2>2, <2>3, <2>4 DEF WayOf, PPT_sparse
    <3> HIDE DEF way
    <3>2. QED
      BY <1>4, <2>2, <2>3, <3>1, SameSuits DEF WayOK, way
  <2>5. CASE f = "PPT" /\ dim = "rowwise"
    <3>1. way = Transpose("columnwise")
      BY <1>4, <2>1, <2>3, <2>5 DEF WayOf, PPT_sparse
    <3> HIDE DEF way
    <3>2. way.how = "transpose" /\ way.dim = "columnwise"
      BY <3>1 DEF Transpose, Way
    <3>3. Applicable(dist, out, "columnwise")
      BY <1>4, <2>2, Kinds DEF Dimensions, KindOf
    <3>4. ~ Loops(dist, dim) /\ ~ Loops(dist, "columnwise") /\ Flip(dim) = "columnwise"
      BY <2>1, <2>5 DEF Loops, Flip
    <3>5. QED
      BY <3>2, <3>3, <3>4 DEF WayOK, way
  <2>6. QED
    BY <1>1, <2>2, <2>4, <2>5
<1>5. QED
  BY <1>2, <1>3, <1>4

LEMMA FJLTWays ==
  ASSUME TaskOK, task.family = "FJLT", NEW dist, NEW out, NEW dim \in Dimensions,
         KindOf(task.family, dist, out, dim), dist \in {MC_MR} \cup Vectors
  PROVE  WayOK(dist, out, dim, WayOf(task.family, dist, dim))
<1> DEFINE f == task.family
           way == WayOf(f, dist, dim)
<1>1. dim = "columnwise" \/ dim = "rowwise"
  BY DEF Dimensions
<1>2. f \notin Features /\ f \notin Whole /\ f # "UST" /\ f # "PPT" /\ f \notin Fastfood
      /\ f \notin Mixing
  BY DEF Features, Whole, Fastfood, Mixing
<1>3. dist \notin {OTHER_C, OTHER_R} /\ dist # LOCAL_M /\ dist # LOCAL_SPARSE
      /\ dist \in {MC_MR} \cup ColDists \cup RowDists
  BY AllDiffer DEF Vectors, Others, Same
<1>4. \E to \in RowDists :
        way = IF dim = "columnwise" THEN Mix(to) ELSE Transpose("columnwise")
  <2>1. CASE dist = MC_MR
    <3>1. STAR_VR \in RowDists
      BY DEF STAR_VR, RowDists
    <3>2. way = FJLT_MC_MR(dim)
      BY <1>2, <1>3, <2>1, AllDiffer DEF WayOf
    <3>3. QED
      BY <3>1, <3>2 DEF FJLT_MC_MR
  <2>2. CASE dist \in ColDists
    <3>1. <<"STAR", dist[1]>> \in RowDists
      BY <2>2 DEF ColDists, RowDists
    <3>2. way = IF dim = "columnwise" THEN Mix(<<"STAR", dist[1]>>)
                ELSE Transpose("columnwise")
      BY <1>2, <1>3, <2>2, AllDiffer DEF WayOf, FJLT_V_STAR_to_STAR_STAR,
         FJLT_V_STAR_to_CIRC
    <3>3. QED
      BY <3>1, <3>2
  <2>3. CASE dist \in RowDists
    <3>1. <<"STAR", dist[2]>> \in RowDists
      BY <2>3 DEF RowDists
    <3>2. way = IF dim = "columnwise" THEN Mix(<<"STAR", dist[2]>>)
                ELSE Transpose("columnwise")
      BY <1>2, <1>3, <2>3, AllDiffer DEF WayOf, FJLT_STAR_V_to_STAR_STAR,
         FJLT_STAR_V_to_CIRC
    <3>3. QED
      BY <3>1, <3>2
  <2>4. QED
    BY <1>3, <2>1, <2>2, <2>3
<1> HIDE DEF way
<1>5. CASE dim = "columnwise"
  <2>0. PICK to \in RowDists : way = Mix(to)
    BY <1>4, <1>5
  <2>1. way.how = "mix" /\ way.dist \in RowDists
    BY <2>0 DEF Mix, Way
  <2>2. QED
    BY <1>5, <2>1 DEF WayOK, way
<1>6. CASE dim = "rowwise"
  <2>1. way.how = "transpose" /\ way.dim = "columnwise"
    BY <1>4, <1>6 DEF Transpose, Way
  <2>2. ~ Loops(dist, dim) /\ ~ Loops(dist, "columnwise") /\ Flip(dim) = "columnwise"
    BY <1>2, <1>6 DEF Loops, Flip
  <2>3. Applicable(dist, out, "columnwise")
    BY <1>2, Kinds DEF Dimensions, KindOf
  <2>4. QED
    BY <2>1, <2>2, <2>3 DEF WayOK, way
<1>7. QED
  BY <1>1, <1>5, <1>6

LEMMA MixingWays ==
  ASSUME TaskOK, task.family \in Mixing, NEW dist, NEW out, NEW dim \in Dimensions,
         KindOf(task.family, dist, out, dim), dist \notin Others
  PROVE  WayOK(dist, out, dim, WayOf(task.family, dist, dim))
<1> DEFINE f == task.family
           way == WayOf(f, dist, dim)
<1>1. dim = "columnwise" \/ dim = "rowwise"
  BY DEF Dimensions
<1>2. f \notin Features /\ f \notin Whole /\ f # "UST" /\ f # "PPT" /\ f \notin Fastfood
      /\ f # "FJLT"
  BY DEF Features, Whole, Fastfood, Mixing
<1>3. /\ out = dist /\ dist \in {LOCAL_M} \cup ColDists \cup RowDists
      /\ dist \in RowDists => dim = "columnwise"
      /\ dist \notin {OTHER_C, OTHER_R}
  BY <1>2, AllDiffer DEF KindOf, Others
<1>4. Local.how = "local"
  BY DEF Local, Way
<1>5. CASE way = Local /\ ~ (dist \in ColDists /\ dim = "columnwise")
  <2> HIDE DEF way
  <2>1. QED
    BY <1>1, <1>3, <1>4, <1>5, SameSuits DEF WayOK, way
<1>6. CASE dist = LOCAL_M
  <2>1. way = Local
    BY <1>2, <1>3, <1>6, AllDiffer DEF WayOf
  <2>2. QED
    BY <1>5, <1>6, <2>1, AllDiffer
<1>7. CASE dist \in RowDists
  <2>1. way = Local
    BY <1>2, <1>3, <1>7, AllDiffer DEF WayOf, RFUT_STAR_V
  <2>2. QED
    BY <1>5, <1>7, <2>1, AllDiffer
<1>8. CASE dist \in ColDists /\ dim = "rowwise"
  <2>1. way = Local
    BY <1>2, <1>3, <1>8, AllDiffer DEF WayOf, RFUT_V_STAR
  <2>2. QED
    BY <1>5, <1>8, <2>1
<1>9. CASE dist \in ColDists /\ dim = "columnwise"
  <2>1. way = Mix(<<"STAR", dist[1]>>)
    BY <1>2, <1>3, <1>9, AllDiffer DEF WayOf, RFUT_V_STAR
  <2>2. <<"STAR", dist[1]>> \in RowDists
    BY <1>9 DEF ColDists, RowDists
  <2> HIDE DEF way
  <2>3. way.how = "mix" /\ way.dist \in RowDists
    BY <2>1, <2>2 DEF Mix, Way
  <2>4. QED
    BY <1>9, <2>3 DEF WayOK, way
<1>10. QED
  BY <1>1, <1>3, <1>6, <1>7, <1>8, <1>9

(* What a call that can be made does is in order: a kernel is applied to   *)
(* whole vectors, whoever calls a class calls one that exists.             *)
LEMMA Ways ==
  ASSUME TaskOK, NEW dist, NEW out, NEW dim, Applicable(dist, out, dim)
  PROVE  /\ WayOK(dist, out, dim, WayOf(task.family, dist, dim))
         /\ dim \in Dimensions /\ dist \in Known /\ out \in Known
<1>1. dim \in Dimensions /\ KindOf(task.family, dist, out, dim)
  BY Kinds
<1>2. dist \in Known /\ out \in Known
  BY <1>1, KnownDists DEF KindOf, Known, Vectors
<1>3. \/ task.family \in Features \/ dist \in Others \/ dist = LOCAL_SPARSE
      \/ task.family \in Whole /\ out = dist /\ dist \in Same
      \/ task.family = "FJLT" /\ dist \in {MC_MR} \cup Vectors
      \/ task.family \in Mixing
  BY <1>1 DEF KindOf, Mixing
<1>4. QED
  BY <1>1, <1>2, <1>3, OtherWays, WholeWays, FJLTWays, MixingWays
-----------------------------------------------------------------------------
(***************************************************************************)
(* The inductive invariant.  Every call has the vectors that were given,   *)
(* or what the step it is at makes of them; each but the innermost waits   *)
(* for the one after it, which is about the same vectors along the         *)
(* dimension it asks for.  An application which calls itself for ever only *)
(* goes on to do so.                                                       *)
(***************************************************************************)
IsCall(c) == c = [A |-> c.A, out |-> c.out, dim |-> c.dim, step |-> c.step]

Ready(c) ==
  /\ c.step \in {"called", "waiting"}
  /\ Applicable(c.A.dist, c.out, c.dim) /\ ~ Loops(c.A.dist, c.dim)
  /\ c.A = Spread(c.A.dist, c.dim, task.N, Arguments)

Brought(c, step, n, x) ==
  /\ c.step = step /\ c.dim = "columnwise" /\ c.A.dist \in RowDists
  /\ c.A = Spread(c.A.dist, "columnwise", n, x)

Dense(c) ==
  /\ c.step = "dense" /\ c.out # LOCAL_SPARSE
  /\ c.A = Spread(c.out, c.dim, task.S, Linear)

Good(c) ==
  /\ IsCall(c) /\ c.dim \in Dimensions /\ c.out \in Known
  /\ \/ Ready(c)
     \/ task.family \in {"FJLT"} \cup Mixing
          /\ \/ Brought(c, "rearranged", task.N, Arguments)
             \/ Brought(c, "mixed", task.N, Mixed)
     \/ task.family = "FJLT" /\ Brought(c, "sampled", task.S, Results)
     \/ task.family \in Features /\ Dense(c)

Asks(c) == IF WayOf(task.family, c.A.dist, c.dim).how = "transpose" THEN Flip(c.dim)
           ELSE c.dim

Waits(c, d) == c.step = "waiting" /\ d.dim = Asks(c)

Done(dist, dim) == Spread(dist, dim, task.S, Results)

Listed(cs) == /\ Len(cs) \in Nat /\ Len(cs) <= MaxCalls
              /\ cs = [i \in 1 .. Len(cs) |-> cs[i]]

Answered(cs, sk) == Len(cs) > 0 /\ cs[Len(cs)].step = "waiting" =>
                   \E o \in Known : sk = Done(o, Asks(cs[Len(cs)]))

Nest(cs) ==
  /\ Listed(cs)
  /\ \A i \in 1 .. Len(cs) : Good(cs[i])
  /\ \A i \in 1 .. Len(cs) - 1 : Waits(cs[i], cs[i + 1])
  /\ Len(cs) > 0 => cs[1].out = task.output /\ cs[1].dim = task.dim

Regular ==
  /\ Nest(calls)
  /\ Answered(calls, sketch)
  /\ phase \in {"applying", "returned", "thrown"}
  /\ phase # "returned" => Len(calls) > 0
  /\ phase = "returned" => sketch = Done(task.output, task.dim)

Endless ==
  /\ Listed(calls) /\ Len(calls) > 0
  /\ phase = "applying" /\ Top.step = "called" /\ Loops(Top.A.dist, Top.dim)

IInv == TaskOK /\ IF Loops(task.input, task.dim) THEN Endless ELSE Regular

(* All of this depends on the task alone, which no step changes.           *)
LEMMA TaskKept ==
  ASSUME task' = task
  PROVE  /\ TaskOK' <=> TaskOK
         /\ P' = P
         /\ \A d, h, p : Rows(d, h, p)' = Rows(d, h, p) /\ Cols(d, h, p)' = Cols(d, h, p)
         /\ \A k : Given(k)' = Given(k) /\ Argument(k)' = Argument(k)
         /\ \A v, s : Wanted(v, s)' = Wanted(v, s)
<1>1. TaskOK' <=> TaskOK
  BY DEF TaskOK
<1>2. P' = P
  BY DEF P
<1>3. \A d, h, p : Rows(d, h, p)' = Rows(d, h, p) /\ Cols(d, h, p)' = Cols(d, h, p)
  BY DEF Rows, Cols
<1>4. \A k : Given(k)' = Given(k)
  BY DEF Given
<1>5. \A k : Argument(k)' = Argument(k)
  BY <1>4 DEF Argument
<1>6. \A v, s : Wanted(v, s)' = Wanted(v, s)
  BY DEF Wanted
<1>7. QED
  BY <1>1, <1>2, <1>3, <1>4, <1>5, <1>6

LEMMA SpreadKept ==
  ASSUME task' = task
  PROVE  \A dist, dim, n, x : Spread(dist, dim, n, x)' = Spread(dist, dim, n, x)
<1> TAKE dist, dim, n, x
<1>1. P' = P /\ \A d, h, p : Rows(d, h, p)' = Rows(d, h, p) /\ Cols(d, h, p)' = Cols(d, h, p)
  BY TaskKept
<1>2. High(dim, n)' = High(dim, n) /\ Wide(dim, n)' = Wide(dim, n)
  BY DEF High, Wide
<1>3. \A d, h, w, p : Share(d, h, w, p)' = Share(d, h, w, p)
  BY <1>1 DEF Share
<1>4. QED
  BY <1>1, <1>2, <1>3 DEF Spread

LEMMA VectorsKept ==
  ASSUME task' = task
  PROVE  Arguments' = Arguments /\ Mixed' = Mixed /\ Linear' = Linear /\ Results' = Results
<1>1. /\ \A k : Given(k)' = Given(k) /\ Argument(k)' = Argument(k)
      /\ \A v, s : Wanted(v, s)' = Wanted(v, s)
  BY TaskKept
<1>2. \A k : MixedOf(k)' = MixedOf(k)
  BY <1>1 DEF MixedOf
<1>3. Arguments' = Arguments
  BY <1>1 DEF Arguments
<1>4. Mixed' = Mixed
  BY <1>2 DEF Mixed
<1>5. Linear' = Linear
  BY <1>1 DEF Linear
<1>6. Results' = Results
  <2>1. \A k, s : Wanted(Given(k), s)' = Wanted(Given(k), s)
    BY <1>1
  <2>2. QED
    BY <2>1 DEF Results
<1>7. QED
  BY <1>3, <1>4, <1>5, <1>6

LEMMA GoodKept ==
  ASSUME task' = task
  PROVE  /\ \A c : Good(c)' <=> Good(c)
         /\ \A c, d : Waits(c, d)' <=> Waits(c, d)
         /\ \A c : Asks(c)' = Asks(c)
         /\ \A dist, dim : Done(dist, dim)' = Done(dist, dim)
         /\ \A dist, dim : Loops(dist, dim)' <=> Loops(dist, dim)
<1>1. /\ \A dist, dim, n, x : Spread(dist, dim, n, x)' = Spread(dist, dim, n, x)
      /\ Arguments' = Arguments /\ Mixed' = Mixed /\ Linear' = Linear /\ Results' = Results
  BY SpreadKept, VectorsKept
<1>2. \A dist, dim : Done(dist, dim)' = Done(dist, dim)
  BY <1>1 DEF Done
<1>3. \A dist, dim : Loops(dist, dim)' <=> Loops(dist, dim)
  BY DEF Loops
<1>4. \A f, dist, dim : WayOf(f, dist, dim)' = WayOf(f, dist, dim)
  BY DEF WayOf
<1>5. \A c : Asks(c)' = Asks(c)
  BY <1>4 DEF Asks
<1>6. \A c, d : Waits(c, d)' <=> Waits(c, d)
  BY <1>5 DEF Waits
<1>7. \A c : Good(c)' <=> Good(c)
  BY <1>1, <1>3 DEF Good, IsCall, Ready, Brought, Dense, Applicable
<1>8. QED
  BY <1>2, <1>3, <1>5, <1>6, <1>7

(* The list of the calls grows and shrinks at its end.                     *)
LEMMA AsSequence ==
  ASSUME NEW cs, Listed(cs)
  PROVE  cs \in Seq({cs[i] : i \in 1 .. Len(cs)})
<1> DEFINE S == {cs[i] : i \in 1 .. Len(cs)}
           n == Len(cs)
<1>1. n \in Nat /\ cs = [i \in 1 .. n |-> cs[i]]
  BY DEF Listed
<1>2. \A i \in 1 .. n : cs[i] \in S
  OBVIOUS
<1> HIDE DEF S, n
<1>3. cs \in [1 .. n -> S]
  BY <1>1, <1>2
<1>4. cs \in Seq(S)
  BY <1>1, <1>3
<1>5. QED
  BY <1>4 DEF S, n

Paused(c) == [c EXCEPT !.step = "waiting"]
Pushed(cs, c) == Append([cs EXCEPT ![Len(cs)].step = "waiting"], c)

Stepped(c, A, step) == [c EXCEPT !.A = A, !.step = step]
Advanced(cs, A, step) ==
  [cs EXCEPT ![Len(cs)].A = A, ![Len(cs)].step = step]

LEMMA Waiting ==
  ASSUME NEW cs, Listed(cs), NEW c, Len(cs) > 0, Len(cs) < MaxCalls,
         NEW new, new = Pushed(cs, c)
  PROVE  /\ Listed(new) /\ Len(new) = Len(cs) + 1 /\ new[Len(cs) + 1] = c
         /\ new[Len(cs)] = Paused(cs[Len(cs)])
         /\ \A i \in 1 .. Len(cs) - 1 : new[i] = cs[i]
<1> DEFINE n == Len(cs)
           w == Paused(cs[n])
           mid == [cs EXCEPT ![n].step = "waiting"]
           S == {mid[i] : i \in 1 .. n} \cup {c}
<1>1. n \in Nat /\ cs = [i \in 1 .. n |-> cs[i]] /\ n \in 1 .. n /\ MaxCalls \in Nat
  BY MaxCallsAssumption DEF Listed
<1>2. mid = [i \in 1 .. n |-> IF i = n THEN w ELSE cs[i]]
  BY <1>1 DEF Paused
<1> HIDE DEF n, w, mid
<1>3. \A i \in 1 .. n : mid[i] \in S
  BY DEF S
<1>4. mid \in [1 .. n -> S] /\ c \in S
  BY <1>2, <1>3 DEF S
<1> HIDE DEF S
<1>5. mid \in Seq(S) /\ Len(mid) = n
  BY <1>1, <1>4
<1>6. new = Append(mid, c)
  BY DEF mid, n, Pushed
<1>7. Len(new) = n + 1 /\ new[n + 1] = c /\ \A i \in 1 .. n : new[i] = mid[i]
  BY <1>1, <1>4, <1>5, <1>6
<1>8. new = [i \in 1 .. n + 1 |-> new[i]]
  BY <1>1, <1>4, <1>5, <1>6
<1>9. /\ new[n] = w
      /\ \A i \in 1 .. n - 1 : new[i] = cs[i]
  BY <1>1, <1>2, <1>7
<1>10. n + 1 <= MaxCalls
  BY <1>1 DEF n
<1>11. Listed(new)
  <2>1. Len(new) \in Nat /\ Len(new) <= MaxCalls
    BY <1>1, <1>7, <1>10
  <2>2. new = [i \in 1 .. Len(new) |-> new[i]]
    BY <1>7, <1>8
  <2>3. QED
    BY <2>1, <2>2 DEF Listed
<1>12. QED
  BY <1>7, <1>9, <1>11 DEF n, w

LEMMA Replaced ==
  ASSUME NEW cs, Listed(cs), NEW A, NEW step, Len(cs) > 0,
         NEW new, new = Advanced(cs, A, step)
  PROVE  /\ Listed(new) /\ Len(new) = Len(cs)
         /\ new[Len(cs)] = Stepped(cs[Len(cs)], A, step)
         /\ \A i \in 1 .. Len(cs) - 1 : new[i] = cs[i]
<1> DEFINE n == Len(cs)
           w == Stepped(cs[n], A, step)
<1>1. n \in Nat /\ cs = [i \in 1 .. n |-> cs[i]] /\ n \in 1 .. n /\ n <= MaxCalls
  BY DEF Listed
<1>2. new = [i \in 1 .. n |-> IF i = n THEN w ELSE cs[i]]
  BY <1>1 DEF Advanced, Stepped
<1> HIDE DEF n, w
<1>3. Len(new) = n
  BY <1>1, <1>2
<1>4. new = [i \in 1 .. n |-> new[i]] /\ new[n] = w
      /\ \A i \in 1 .. n - 1 : new[i] = cs[i]
  <2>1. new = [i \in 1 .. n |-> new[i]]
    BY <1>2
  <2>2. \A i \in 1 .. n : new[i] = IF i = n THEN w ELSE cs[i]
    BY <1>2
  <2>3. \A i \in 1 .. n - 1 : i \in 1 .. n /\ i # n
    BY <1>1
  <2>4. QED
    BY <1>1, <2>1, <2>2, <2>3
<1>5. Listed(new)
  <2>1. new = [i \in 1 .. Len(new) |-> new[i]]
    BY <1>3, <1>4
  <2>2. QED
    BY <1>1, <1>3, <2>1 DEF Listed
<1>6. QED
  BY <1>3, <1>4, <1>5 DEF n, w

LEMMA Popped ==
  ASSUME NEW cs, Listed(cs), Len(cs) > 0
  PROVE  /\ Listed(Front(cs)) /\ Len(Front(cs)) = Len(cs) - 1
         /\ \A i \in 1 .. Len(cs) - 1 : Front(cs)[i] = cs[i]
<1> DEFINE n == Len(cs)
           f == Front(cs)
           S == {cs[i] : i \in 1 .. n}
<1>1. n \in Nat /\ cs = [i \in 1 .. n |-> cs[i]] /\ n <= MaxCalls /\ cs \in Seq(S)
  BY AsSequence DEF Listed
<1> HIDE DEF S
<1>2. f = SubSeq(cs, 1, n - 1)
  BY DEF Front
<1> HIDE DEF f
<1>3. f \in Seq(S) /\ Len(f) = n - 1 /\ \A i \in 1 .. n - 1 : f[i] = cs[i]
  BY <1>1, <1>2
<1>4. f = [i \in 1 .. n - 1 |-> f[i]]
  BY <1>1, <1>2
<1>5. n - 1 \in Nat /\ n - 1 <= MaxCalls
  BY <1>1, MaxCallsAssumption
<1> HIDE DEF n
<1>6. QED
  BY <1>3, <1>4, <1>5 DEF Listed, n, f
-----------------------------------------------------------------------------
(* What a step may do to the calls.                                        *)
LEMMA TopGood ==
  ASSUME Regular, phase = "applying"
  PROVE  /\ Len(calls) \in Nat \ {0} /\ Top = calls[Len(calls)] /\ Good(Top)
         /\ Listed(calls) /\ IsCall(Top) /\ Top.dim \in Dimensions /\ Top.out \in Known
<1>1. Len(calls) \in Nat /\ Len(calls) > 0
  BY DEF Regular, Nest, Listed
<1>2. Good(calls[Len(calls)])
  BY <1>1 DEF Regular, Nest
<1>3. QED
  BY <1>1, <1>2 DEF Regular, Nest, Top, Good

LEMMA ReturnKeeps ==
  ASSUME TaskOK, Regular, phase = "applying", Return(Done(Top.out, Top.dim))
  PROVE  Regular'
<1> DEFINE n == Len(calls)
           cs == Front(calls)
<1>1. /\ n \in Nat \ {0} /\ Top = calls[n] /\ Good(Top) /\ Listed(calls)
      /\ Top.out \in Known
  BY TopGood
<1>2. /\ task' = task /\ calls' = cs /\ sketch' = Done(Top.out, Top.dim)
      /\ phase' = IF n = 1 THEN "returned" ELSE "applying"
  BY DEF Return
<1>3. Listed(cs) /\ Len(cs) = n - 1 /\ \A i \in 1 .. n - 1 : cs[i] = calls[i]
  BY <1>1, Popped
<1>4. /\ \A i \in 1 .. n : Good(calls[i])
      /\ \A i \in 1 .. n - 1 : Waits(calls[i], calls[i + 1])
      /\ calls[1].out = task.output /\ calls[1].dim = task.dim
  BY <1>1 DEF Regular, Nest
<1> HIDE DEF n, cs
<1>5. /\ \A i \in 1 .. Len(cs) : Good(cs[i])
      /\ \A i \in 1 .. Len(cs) - 1 : Waits(cs[i], cs[i + 1])
      /\ Len(cs) > 0 => cs[1].out = task.output /\ cs[1].dim = task.dim
  <2>1. \A i \in 1 .. n - 2 : i \in 1 .. n - 1 /\ i + 1 \in 1 .. n - 1
    BY <1>1
  <2>2. n - 1 > 0 => 1 \in 1 .. n - 1
    BY <1>1
  <2>3. \A i \in 1 .. n - 1 : i \in 1 .. n
    BY <1>1
  <2>4. (n - 1) - 1 = n - 2
    BY <1>1
  <2>5. QED
    BY <1>3, <1>4, <2>1, <2>2, <2>3, <2>4
<1>6. Nest(calls)'
  BY <1>2, <1>3, <1>5, GoodKept DEF Nest, Listed
<1>7. Answered(calls, sketch)'
  <2> SUFFICES ASSUME Len(cs) > 0
               PROVE  sketch' = Done(Top.out, Asks(cs[Len(cs)]))
    BY <1>1, <1>2, GoodKept DEF Answered
  <2>1. n - 1 \in 1 .. n - 1 /\ (n - 1) + 1 = n
    BY <1>1, <1>3
  <2>2. Waits(calls[n - 1], Top)
    BY <1>1, <1>4, <2>1
  <2>3. Top.dim = Asks(cs[Len(cs)])
    BY <1>3, <2>1, <2>2 DEF Waits
  <2>4. QED
    BY <1>2, <2>3
<1>8. phase' = "returned" => sketch' = Done(task.output, task.dim)'
  BY <1>1, <1>2, <1>4, GoodKept
<1>9. phase' # "returned" => Len(calls') > 0
  BY <1>1, <1>2, <1>3
<1>10. phase' \in {"applying", "returned", "thrown"}
  BY <1>2
<1>11. QED
  BY <1>6, <1>7, <1>8, <1>9, <1>10 DEF Regular

LEMMA StepKeeps ==
  ASSUME TaskOK, Regular, phase = "applying", NEW A, NEW step, Becomes(A, step),
         step # "waiting",
         Good([A |-> A, out |-> Top.out, dim |-> Top.dim, step |-> step])
  PROVE  Regular'
<1> DEFINE n == Len(calls)
           c == [A |-> A, out |-> Top.out, dim |-> Top.dim, step |-> step]
           new == Advanced(calls, A, step)
<1>1. /\ n \in Nat \ {0} /\ Top = calls[n] /\ Good(Top) /\ Listed(calls)
      /\ IsCall(Top)
  BY TopGood
<1>2. task' = task /\ calls' = new /\ sketch' = sketch /\ phase' = phase
  BY DEF Becomes, Advanced
<1>3. /\ Listed(new) /\ Len(new) = n
      /\ new[n] = Stepped(calls[n], A, step)
      /\ \A i \in 1 .. n - 1 : new[i] = calls[i]
  BY <1>1, Replaced
<1>4. /\ \A i \in 1 .. n : Good(calls[i])
      /\ \A i \in 1 .. n - 1 : Waits(calls[i], calls[i + 1])
      /\ calls[1].out = task.output /\ calls[1].dim = task.dim
  BY <1>1 DEF Regular, Nest
<1> HIDE DEF n, new
<1>5. new[n] = c
  BY <1>1, <1>3 DEF IsCall, Stepped
<1>6. Good(new[n]) /\ new[n].dim = Top.dim /\ new[n].out = Top.out
      /\ new[n].step # "waiting"
  BY <1>5
<1> HIDE DEF c
<1>7. /\ \A i \in 1 .. n : Good(new[i])
      /\ \A i \in 1 .. n - 1 : Waits(new[i], new[i + 1])
      /\ new[1].out = task.output /\ new[1].dim = task.dim
  <2>1. \A i \in 1 .. n : i \in 1 .. n - 1 \/ i = n
    BY <1>1
  <2>2. \A i \in 1 .. n : new[i].out = calls[i].out /\ new[i].dim = calls[i].dim
    BY <1>1, <1>3, <1>6, <2>1
  <2>3. \A i \in 1 .. n - 1 : i + 1 \in 1 .. n /\ new[i] = calls[i]
    BY <1>1, <1>3
  <2>4. 1 \in 1 .. n
    BY <1>1
  <2>5. \A i \in 1 .. n : Good(new[i])
    BY <1>3, <1>4, <1>6, <2>1
  <2>6. ASSUME NEW i \in 1 .. n - 1 PROVE Waits(new[i], new[i + 1])
    BY <1>4, <2>2, <2>3 DEF Waits
  <2>7. QED
    BY <1>4, <2>2, <2>4, <2>5, <2>6
<1>8. Nest(calls)'
  BY <1>2, <1>3, <1>7, GoodKept DEF Nest, Listed
<1>9. Answered(calls, sketch)'
  BY <1>2, <1>3, <1>6 DEF Answered
<1>10. Len(calls') > 0 /\ phase' = "applying"
  BY <1>1, <1>2, <1>3
<1>11. QED
  BY <1>8, <1>9, <1>10 DEF Regular

LEMMA CallKeeps ==
  ASSUME TaskOK, Regular, phase = "applying", Top.step = "called",
         NEW A, NEW out, NEW dim, Nested(A, out, dim), Good(Call(A, out, dim)),
         dim = Asks(Top)
  PROVE  Regular'
<1> DEFINE n == Len(calls)
           c == Call(A, out, dim)
           w == Paused(calls[n])
           new == Pushed(calls, c)
<1>1. /\ n \in Nat \ {0} /\ Top = calls[n] /\ Good(Top) /\ Listed(calls)
      /\ IsCall(Top)
  BY TopGood
<1>2. /\ task' = task /\ calls' = new /\ sketch' = sketch /\ phase' = phase
      /\ n < MaxCalls
  BY DEF Nested, Pushed
<1>3. /\ Listed(new) /\ Len(new) = n + 1 /\ new[n + 1] = c /\ new[n] = w
      /\ \A i \in 1 .. n - 1 : new[i] = calls[i]
  <2>1. n > 0
    BY <1>1
  <2> HIDE DEF c
  <2>2. QED
    BY <1>1, <1>2, <2>1, Waiting
<1>4. /\ \A i \in 1 .. n : Good(calls[i])
      /\ \A i \in 1 .. n - 1 : Waits(calls[i], calls[i + 1])
      /\ calls[1].out = task.output /\ calls[1].dim = task.dim
  BY <1>1 DEF Regular, Nest
<1>5. w = [A |-> Top.A, out |-> Top.out, dim |-> Top.dim, step |-> "waiting"]
  BY <1>1 DEF IsCall, Paused
<1>6. Good(w)
  <2>1. Ready(Top)
    BY <1>1 DEF Good, Brought, Dense
  <2>2. IsCall(w)
    BY <1>5 DEF IsCall
  <2> HIDE DEF w
  <2>3. Ready(w)
    BY <1>5, <2>1 DEF Ready
  <2>4. QED
    BY <1>1, <1>5, <2>2, <2>3 DEF Good
<1>7. Asks(w) = Asks(Top) /\ w.step = "waiting" /\ w.out = Top.out /\ w.dim = Top.dim
  BY <1>5 DEF Asks
<1>8. c.dim = dim /\ c.step = "called"
  BY DEF Call
<1> HIDE DEF n, new, c, w
<1>9. /\ \A i \in 1 .. n + 1 : Good(new[i])
      /\ \A i \in 1 .. n : Waits(new[i], new[i + 1])
      /\ new[1].out = task.output /\ new[1].dim = task.dim
  <2>1. \A i \in 1 .. n + 1 : i \in 1 .. n - 1 \/ i = n \/ i = n + 1
    BY <1>1
  <2>2. \A i \in 1 .. n : new[i].out = calls[i].out /\ new[i].dim = calls[i].dim
    BY <1>1, <1>3, <1>7, <2>1
  <2>3. \A i \in 1 .. n + 1 : Good(new[i])
    <3>1. \A i \in 1 .. n - 1 : i \in 1 .. n
      BY <1>1
    <3>2. Good(c)
      BY DEF c
    <3>3. QED
      BY <1>3, <1>4, <1>6, <2>1, <3>1, <3>2
  <2>4. ASSUME NEW i \in 1 .. n PROVE Waits(new[i], new[i + 1])
    <3>1. CASE i = n
      BY <1>3, <1>7, <1>8, <3>1 DEF Waits
    <3>2. CASE i # n
      <4>1. i \in 1 .. n - 1 /\ i + 1 \in 1 .. n
        BY <1>1, <3>2
      <4>2. QED
        BY <1>3, <1>4, <2>2, <4>1 DEF Waits
    <3>3. QED
      BY <3>1, <3>2
  <2>5. 1 \in 1 .. n
    BY <1>1
  <2>6. QED
    BY <1>4, <2>2, <2>3, <2>4, <2>5
<1>10. Nest(calls)'
  <2>1. (n + 1) - 1 = n
    BY <1>1
  <2>2. QED
    BY <1>2, <1>3, <1>9, <2>1, GoodKept DEF Nest, Listed
<1>11. Answered(calls, sketch)'
  BY <1>2, <1>3, <1>8 DEF Answered
<1>12. Len(calls') > 0 /\ phase' = "applying"
  BY <1>1, <1>2, <1>3
<1>13. QED
  BY <1>10, <1>11, <1>12 DEF Regular
-----------------------------------------------------------------------------
(* The actions, of an application that does not call itself for ever.      *)
LEMMA Calling ==
  ASSUME TaskOK, Regular, phase = "applying", Top.step \in {"called", "waiting"}
  PROVE  \E dist \in Known :
           /\ dist = Top.A.dist /\ Applicable(dist, Top.out, Top.dim)
           /\ ~ Loops(dist, Top.dim) /\ WayOK(dist, Top.out, Top.dim, Chosen)
           /\ Top.A = Spread(dist, Top.dim, task.N, Arguments)
<1>1. Good(Top)
  BY TopGood
<1>2. Ready(Top)
  BY <1>1 DEF Good, Brought, Dense
<1>3. WayOK(Top.A.dist, Top.out, Top.dim, Chosen) /\ Top.A.dist \in Known
  BY <1>2, Ways DEF Ready, Chosen
<1>4. QED
  BY <1>2, <1>3 DEF Ready

LEMMA LocalKeeps ==
  ASSUME TaskOK, Regular, ApplyLocally \/ ApplyAtRoot
  PROVE  Regular'
<1>1. /\ phase = "applying" /\ Top.step = "called" /\ Chosen.how \in {"local", "root"}
      /\ Return(LocalApply(Top.A, Top.out, Top.dim, task.S, Kernel))
  BY DEF ApplyLocally, ApplyAtRoot, At, Chosen
<1>2. PICK dist \in Known :
        /\ WayOK(dist, Top.out, Top.dim, Chosen)
        /\ Top.A = Spread(dist, Top.dim, task.N, Arguments)
  BY <1>1, Calling
<1>3. Suits(dist, Top.out, Top.dim) /\ task.family \in Whole \cup Mixing
  BY <1>1, <1>2 DEF WayOK
<1>4. Top.dim \in Dimensions
  BY <1>1, TopGood
<1>5. LocalApply(Spread(dist, Top.dim, task.N, Arguments), Top.out, Top.dim, task.S, Kernel)
        = Done(Top.out, Top.dim)
  BY <1>3, <1>4, Applied DEF Whole, Done
<1>6. Return(Done(Top.out, Top.dim))
  BY <1>1, <1>2, <1>5
<1>7. QED
  BY <1>1, <1>6, ReturnKeeps

LEMMA FlipTwice ==
  ASSUME NEW dim \in Dimensions
  PROVE  Flip(Flip(dim)) = dim /\ Flip(dim) \in Dimensions
BY DEF Flip, Dimensions

LEMMA TransposeKeeps ==
  ASSUME TaskOK, Regular, ApplyToTransposed
  PROVE  Regular'
<1>1. /\ phase = "applying" /\ Top.step = "called" /\ Chosen.how = "transpose"
      /\ Nested(Transposed(Top.A, Top.A.dist), Top.out, Chosen.dim)
  BY DEF ApplyToTransposed, At, Chosen
<1>2. PICK dist \in Known :
        /\ dist = Top.A.dist /\ ~ Loops(dist, Top.dim)
        /\ WayOK(dist, Top.out, Top.dim, Chosen)
        /\ Top.A = Spread(dist, Top.dim, task.N, Arguments)
  BY <1>1, Calling
<1>3. /\ Chosen.dim = Flip(Top.dim) /\ Applicable(dist, Top.out, Flip(Top.dim))
      /\ ~ Loops(dist, Flip(Top.dim))
  BY <1>1, <1>2 DEF WayOK
<1>4. Top.dim \in Dimensions /\ Top.out \in Known /\ task.N \in Nat
  BY <1>1, TopGood, TaskNumbers
<1> DEFINE A == Spread(dist, Flip(Top.dim), task.N, Arguments)
<1>5. Transposed(Spread(dist, Top.dim, task.N, Arguments), dist) = A
  BY <1>4, TransposedSpread
<1>6. Nested(A, Top.out, Flip(Top.dim))
  BY <1>1, <1>2, <1>3, <1>5
<1>7. A.dist = dist
  BY DEF Spread
<1> DEFINE c == Call(A, Top.out, Flip(Top.dim))
<1>8. /\ c.A = A /\ c.out = Top.out /\ c.dim = Flip(Top.dim) /\ c.step = "called"
      /\ IsCall(c)
  BY DEF Call, IsCall
<1> HIDE DEF c
<1>9. c.A = Spread(c.A.dist, c.dim, task.N, Arguments)
  BY <1>7, <1>8
<1> HIDE DEF A
<1>10. Good(c)
  <2>1. Ready(c)
    BY <1>3, <1>7, <1>8, <1>9 DEF Ready
  <2>2. QED
    BY <1>4, <1>8, <2>1, FlipTwice DEF Good
<1>11. Flip(Top.dim) = Asks(Top)
  BY <1>1 DEF Asks, Chosen
<1>12. QED
  BY <1>1, <1>6, <1>10, <1>11, CallKeeps DEF c

LEMMA RedistributeKeeps ==
  ASSUME TaskOK, Regular, ApplyRedistributed
  PROVE  Regular'
<1> DEFINE to == Chosen.dist
<1>1. /\ phase = "applying" /\ Top.step = "called" /\ Chosen.how = "redistribute"
      /\ Nested(Copied(Top.A, to), to, Chosen.dim)
  BY DEF ApplyRedistributed, At, Chosen
<1>2. PICK dist \in Known :
        /\ WayOK(dist, Top.out, Top.dim, Chosen)
        /\ Top.A = Spread(dist, Top.dim, task.N, Arguments)
  BY <1>1, Calling
<1>3. Applicable(to, to, Top.dim) /\ ~ Loops(to, Top.dim) /\ Chosen.dim = Top.dim
  BY <1>1, <1>2 DEF WayOK
<1>4. Top.dim \in Dimensions /\ to \in Known /\ task.N \in Nat
  BY <1>1, <1>3, TopGood, Ways, TaskNumbers
<1> HIDE DEF to
<1> DEFINE A == Spread(to, Top.dim, task.N, Arguments)
<1>5. Copied(Spread(dist, Top.dim, task.N, Arguments), to) = A
  BY <1>4, CopiedSpread
<1>6. Nested(A, to, Top.dim)
  BY <1>1, <1>2, <1>3, <1>5
<1>7. A.dist = to
  BY DEF Spread
<1> DEFINE c == Call(A, to, Top.dim)
<1>8. /\ c.A = A /\ c.out = to /\ c.dim = Top.dim /\ c.step = "called"
      /\ IsCall(c)
  BY DEF Call, IsCall
<1> HIDE DEF c
<1>9. c.A = Spread(c.A.dist, c.dim, task.N, Arguments)
  BY <1>7, <1>8
<1> HIDE DEF A
<1>10. Good(c)
  <2>1. Ready(c)
    BY <1>3, <1>7, <1>8, <1>9 DEF Ready
  <2>2. QED
    BY <1>4, <1>8, <2>1 DEF Good
<1>11. Top.dim = Asks(Top)
  BY <1>1 DEF Asks, Chosen
<1>12. QED
  BY <1>1, <1>6, <1>10, <1>11, CallKeeps DEF c

LEMMA TakeKeeps ==
  ASSUME TaskOK, Regular, TakeResult
  PROVE  Regular'
<1>1. /\ phase = "applying" /\ Top.step = "waiting"
      /\ Return(IF Chosen.how = "transpose" THEN Transposed(sketch, Top.out)
                ELSE Copied(sketch, Top.out))
  BY DEF TakeResult
<1>2. /\ Len(calls) > 0 /\ Top = calls[Len(calls)] /\ Top.dim \in Dimensions
      /\ Top.out \in Known /\ task.S \in Nat
  BY <1>1, TopGood, TaskNumbers
<1>3. PICK o \in Known : sketch = Done(o, Asks(Top))
  BY <1>1, <1>2 DEF Regular, Answered
<1>4. Return(Done(Top.out, Top.dim))
  <2>1. CASE Chosen.how = "transpose"
    <3>1. Asks(Top) = Flip(Top.dim)
      BY <2>1 DEF Asks, Chosen
    <3>2. Transposed(sketch, Top.out) = Done(Top.out, Flip(Flip(Top.dim)))
      BY <1>2, <1>3, <3>1, FlipTwice, TransposedSpread DEF Done
    <3>3. QED
      BY <1>1, <1>2, <2>1, <3>2, FlipTwice
  <2>2. CASE Chosen.how # "transpose"
    <3>1. Asks(Top) = Top.dim
      BY <2>2 DEF Asks, Chosen
    <3>2. Copied(sketch, Top.out) = Done(Top.out, Top.dim)
      BY <1>2, <1>3, <3>1, CopiedSpread DEF Done
    <3>3. QED
      BY <1>1, <2>2, <3>2
  <2>3. QED
    BY <2>1, <2>2
<1>5. QED
  BY <1>1, <1>4, ReturnKeeps

LEMMA RearrangeKeeps ==
  ASSUME TaskOK, Regular, Rearrange
  PROVE  Regular'
<1> DEFINE to == Chosen.dist
<1>1. /\ phase = "applying" /\ Top.step = "called" /\ Chosen.how = "mix"
      /\ Becomes(Copied(Top.A, to), "rearranged")
  BY DEF Rearrange, At, Chosen
<1>2. PICK dist \in Known :
        /\ WayOK(dist, Top.out, Top.dim, Chosen)
        /\ Top.A = Spread(dist, Top.dim, task.N, Arguments)
  BY <1>1, Calling
<1>3. Top.dim = "columnwise" /\ to \in RowDists /\ task.family \in {"FJLT"} \cup Mixing
  BY <1>1, <1>2 DEF WayOK
<1>4. Top.dim \in Dimensions /\ Top.out \in Known /\ task.N \in Nat
  BY <1>1, TopGood, TaskNumbers
<1> HIDE DEF to
<1> DEFINE A == Spread(to, "columnwise", task.N, Arguments)
           c == [A |-> A, out |-> Top.out, dim |-> Top.dim, step |-> "rearranged"]
<1>5. Copied(Top.A, to) = A
  BY <1>2, <1>3, <1>4, CopiedSpread
<1>6. Becomes(A, "rearranged")
  BY <1>1, <1>5
<1>7. A.dist = to
  BY DEF Spread
<1>8. A = Spread(A.dist, "columnwise", task.N, Arguments)
  BY <1>7
<1> HIDE DEF A
<1>9. Good(c)
  <2>1. Brought(c, "rearranged", task.N, Arguments)
    BY <1>3, <1>7, <1>8 DEF Brought
  <2>2. IsCall(c)
    BY DEF IsCall
  <2>3. QED
    BY <1>3, <1>4, <2>1, <2>2 DEF Good
<1>10. QED
  BY <1>1, <1>6, <1>9, StepKeeps

LEMMA MixKeeps ==
  ASSUME TaskOK, Regular, MixInPlace
  PROVE  Regular'
<1> DEFINE dist == Top.A.dist
<1>1. /\ phase = "applying" /\ Top.step = "rearranged"
      /\ Becomes(LocalApply(Top.A, dist, "columnwise", task.N, MixingKernel), "mixed")
  BY DEF MixInPlace, MixingKernel
<1>2. Good(Top) /\ Top.dim \in Dimensions /\ Top.out \in Known
  BY <1>1, TopGood
<1>3. /\ task.family \in {"FJLT"} \cup Mixing
      /\ Brought(Top, "rearranged", task.N, Arguments)
  BY <1>1, <1>2 DEF Good, Ready, Brought, Dense
<1>4. /\ Top.dim = "columnwise" /\ dist \in RowDists
      /\ Top.A = Spread(dist, "columnwise", task.N, Arguments)
  BY <1>3 DEF Brought
<1> HIDE DEF dist
<1> DEFINE A == Spread(dist, "columnwise", task.N, Mixed)
           c == [A |-> A, out |-> Top.out, dim |-> Top.dim, step |-> "mixed"]
<1>5. LocalApply(Spread(dist, "columnwise", task.N, Arguments), dist, "columnwise",
                 task.N, MixingKernel) = A
  BY <1>3, <1>4, MixedInPlace
<1>6. Becomes(A, "mixed")
  BY <1>1, <1>4, <1>5
<1>7. A.dist = dist
  BY DEF Spread
<1>8. A = Spread(A.dist, "columnwise", task.N, Mixed)
  BY <1>7
<1> HIDE DEF A
<1>9. Good(c)
  <2>1. Brought(c, "mixed", task.N, Mixed)
    BY <1>4, <1>7, <1>8 DEF Brought
  <2>2. IsCall(c)
    BY DEF IsCall
  <2>3. QED
    BY <1>2, <1>3, <2>1, <2>2 DEF Good
<1>10. QED
  BY <1>1, <1>6, <1>9, StepKeeps

LEMMA SampleKeeps ==
  ASSUME TaskOK, Regular, Sample
  PROVE  Regular'
<1> DEFINE dist == Top.A.dist
<1>1. /\ phase = "applying" /\ Top.step = "mixed" /\ task.family = "FJLT"
      /\ Becomes(LocalApply(Top.A, dist, "columnwise", task.S, FJLT_sample), "sampled")
  BY DEF Sample
<1>2. Good(Top) /\ Top.dim \in Dimensions /\ Top.out \in Known
  BY <1>1, TopGood
<1>3. Brought(Top, "mixed", task.N, Mixed)
  BY <1>1, <1>2 DEF Good, Ready, Brought, Dense
<1>4. /\ Top.dim = "columnwise" /\ dist \in RowDists
      /\ Top.A = Spread(dist, "columnwise", task.N, Mixed)
  BY <1>3 DEF Brought
<1> HIDE DEF dist
<1> DEFINE A == Spread(dist, "columnwise", task.S, Results)
           c == [A |-> A, out |-> Top.out, dim |-> Top.dim, step |-> "sampled"]
<1>5. LocalApply(Spread(dist, "columnwise", task.N, Mixed), dist, "columnwise",
                 task.S, FJLT_sample) = A
  BY <1>1, <1>4, SampledInPlace
<1>6. Becomes(A, "sampled")
  BY <1>1, <1>4, <1>5
<1>7. A.dist = dist
  BY DEF Spread
<1>8. A = Spread(A.dist, "columnwise", task.S, Results)
  BY <1>7
<1> HIDE DEF A
<1>9. Good(c)
  <2>1. Brought(c, "sampled", task.S, Results)
    BY <1>4, <1>7, <1>8 DEF Brought
  <2>2. IsCall(c)
    BY DEF IsCall
  <2>3. QED
    BY <1>1, <1>2, <2>1, <2>2 DEF Good
<1>10. QED
  BY <1>1, <1>6, <1>9, StepKeeps

(* Mixing alone, mixed is what was wanted.                                 *)
LEMMA MixedWanted ==
  ASSUME TaskOK, task.family \in Mixing
  PROVE  Mixed = Results /\ task.N = task.S
<1>1. task.N = task.S /\ task.S \in Nat
  BY TaskNumbers DEF TaskOK
<1>2. ASSUME NEW k \in 0 .. task.M - 1
      PROVE  MixedOf(k) = [l \in 1 .. task.S |-> Wanted(Given(k), l - 1)]
  <2> DEFINE m == MixedOf(k)
  <2>1. m = [l \in 1 .. task.S |-> m[l]]
    BY <1>1, Lengths
  <2>2. ASSUME NEW l \in 1 .. task.S PROVE m[l] = Wanted(Given(k), l - 1)
    <3>1. (l - 1) + 1 = l
      BY <1>1
    <3>2. CASE task.family = "RFUT"
      BY <3>1, <3>2 DEF MixedOf, Wanted, Fastfood
    <3>3. CASE task.family = "RFUT inverse"
      BY <3>1, <3>3 DEF MixedOf, Wanted, Fastfood
    <3>4. QED
      BY <3>2, <3>3 DEF Mixing
  <2> HIDE DEF m
  <2>3. [l \in 1 .. task.S |-> m[l]] = [l \in 1 .. task.S |-> Wanted(Given(k), l - 1)]
    BY <2>2
  <2>4. QED
    BY <2>1, <2>3 DEF m
<1>3. QED
  BY <1>1, <1>2 DEF Mixed, Results

LEMMA CopyOutKeeps ==
  ASSUME TaskOK, Regular, CopyOut
  PROVE  Regular'
<1> DEFINE dist == Top.A.dist
<1>1. /\ phase = "applying" /\ Return(Copied(Top.A, Top.out))
      /\ Top.step = IF task.family = "FJLT" THEN "sampled" ELSE "mixed"
  BY DEF CopyOut
<1>2. Good(Top) /\ task.S \in Nat
  BY <1>1, TopGood, TaskNumbers
<1>3. /\ Top.dim = "columnwise" /\ dist \in RowDists
      /\ Top.A = Spread(dist, "columnwise", task.S, Results)
  <2>1. CASE task.family = "FJLT"
    <3>1. Brought(Top, "sampled", task.S, Results)
      BY <1>1, <1>2, <2>1 DEF Good, Ready, Brought, Dense
    <3>2. QED
      BY <3>1 DEF Brought
  <2>2. CASE task.family # "FJLT"
    <3>1. Brought(Top, "mixed", task.N, Mixed) /\ task.family \in Mixing
      BY <1>1, <1>2, <2>2 DEF Good, Ready, Brought, Dense
    <3>2. QED
      BY <3>1, MixedWanted DEF Brought
  <2>3. QED
    BY <2>1, <2>2
<1> HIDE DEF dist
<1>4. Copied(Spread(dist, "columnwise", task.S, Results), Top.out)
        = Done(Top.out, "columnwise")
  BY <1>2, <1>3, KnownDists, CopiedSpread DEF Done
<1>5. Return(Done(Top.out, Top.dim))
  BY <1>1, <1>3, <1>4
<1>6. QED
  BY <1>1, <1>5, ReturnKeeps

LEMMA UnderlyingKeeps ==
  ASSUME TaskOK, Regular, Underlying
  PROVE  Regular'
<1>1. /\ phase = "applying" /\ Top.step = "called" /\ Chosen.how = "dense"
      /\ Becomes(DenseMatrix(Top.A), "dense")
  BY DEF Underlying, At, Chosen, DenseMatrix
<1>2. PICK dist \in Known :
        /\ WayOK(dist, Top.out, Top.dim, Chosen)
        /\ Top.A = Spread(dist, Top.dim, task.N, Arguments)
  BY <1>1, Calling
<1>3. task.family \in Features /\ Top.out \in Known \ {LOCAL_SPARSE}
  BY <1>1, <1>2 DEF WayOK
<1>4. Top.dim \in Dimensions
  BY <1>1, TopGood
<1> DEFINE A == Spread(Top.out, Top.dim, task.S, Linear)
           c == [A |-> A, out |-> Top.out, dim |-> Top.dim, step |-> "dense"]
<1>5. DenseMatrix(Top.A) = A
  BY <1>2, <1>3, <1>4, DenseSketch
<1>6. Becomes(A, "dense")
  BY <1>1, <1>5
<1> HIDE DEF A
<1>7. Good(c)
  <2>1. Dense(c)
    BY <1>3 DEF Dense, A
  <2>2. IsCall(c)
    BY DEF IsCall
  <2>3. QED
    BY <1>3, <1>4, <2>1, <2>2 DEF Good
<1>8. QED
  BY <1>1, <1>6, <1>7, StepKeeps

LEMMA ElementwiseKeeps ==
  ASSUME TaskOK, Regular, Elementwise
  PROVE  Regular'
<1>1. /\ phase = "applying" /\ Top.step = "dense"
      /\ Return(FeatureMatrix(Top.A))
  BY DEF Elementwise, FeatureMatrix
<1>2. Good(Top) /\ Top.dim \in Dimensions /\ Top.out \in Known
  BY <1>1, TopGood
<1>3. task.family \in Features /\ Dense(Top)
  BY <1>1, <1>2 DEF Good, Ready, Brought
<1>4. /\ Top.A = Spread(Top.out, Top.dim, task.S, Linear)
      /\ Top.out \in Known \ {LOCAL_SPARSE}
  BY <1>2, <1>3 DEF Dense
<1>5. FeatureMatrix(Spread(Top.out, Top.dim, task.S, Linear)) = Done(Top.out, Top.dim)
  BY <1>2, <1>3, <1>4, FeaturesOfDense DEF Done
<1>6. Return(Done(Top.out, Top.dim))
  BY <1>1, <1>4, <1>5
<1>7. QED
  BY <1>1, <1>6, ReturnKeeps
-----------------------------------------------------------------------------
(* The matrix that is given and the sketch that is wanted are such vectors. *)
LEMMA StartSpread ==
  ASSUME TaskOK, task.dim \in Dimensions
  PROVE  Start = Spread(task.input, task.dim, task.N, Arguments)
<1> DEFINE dim == task.dim
           to == task.input
           h == High(dim, task.N)
           w == Wide(dim, task.N)
           value(e) == Argument(Across(dim, e))[Down(dim, e) + 1]
<1>1. Start = [dist |-> to, h |-> h, w |-> w,
               at |-> [p \in P |-> [e \in Share(to, h, w, p) |-> value(e)]]]
  <2>1. CASE dim = "columnwise"
    BY <2>1 DEF Start, Matrix, Share, High, Wide, Across, Down
  <2>2. CASE dim = "rowwise"
    BY <2>2 DEF Start, Matrix, Share, High, Wide, Across, Down
  <2>3. QED
    BY <2>1, <2>2 DEF Dimensions
<1>2. ASSUME NEW p \in P, NEW e \in Share(to, h, w, p)
      PROVE  value(e) = Arguments[Across(dim, e)][Down(dim, e) + 1]
  <2>1. Across(dim, e) \in 0 .. task.M - 1
    BY <1>2, TaskNumbers, ShareEntries, Extents
  <2>2. QED
    BY <2>1 DEF Arguments
<1> HIDE DEF value
<1>3. [p \in P |-> [e \in Share(to, h, w, p) |-> value(e)]]
        = [p \in P |-> [e \in Share(to, h, w, p) |->
                          Arguments[Across(dim, e)][Down(dim, e) + 1]]]
  BY <1>2
<1>4. QED
  BY <1>1, <1>3 DEF Spread

LEMMA ResultsSpread ==
  ASSUME TaskOK, task.dim \in Dimensions
  PROVE  Spread(task.output, task.dim, task.S, Results)
           = IF task.dim = "columnwise"
             THEN Matrix(task.output, task.S, task.M,
                         LAMBDA p, i, j : Wanted(Given(j), i))
             ELSE Matrix(task.output, task.M, task.S,
                         LAMBDA p, i, j : Wanted(Given(i), j))
<1> DEFINE dim == task.dim
           to == task.output
           h == High(dim, task.S)
           w == Wide(dim, task.S)
           value(e) == Wanted(Given(Across(dim, e)), Down(dim, e))
           R == IF task.dim = "columnwise"
                THEN Matrix(task.output, task.S, task.M,
                            LAMBDA p, i, j : Wanted(Given(j), i))
                ELSE Matrix(task.output, task.M, task.S,
                            LAMBDA p, i, j : Wanted(Given(i), j))
<1>1. R = [dist |-> to, h |-> h, w |-> w,
           at |-> [p \in P |-> [e \in Share(to, h, w, p) |-> value(e)]]]
  <2>1. CASE dim = "columnwise"
    BY <2>1 DEF Matrix, Share, High, Wide, Across, Down
  <2>2. CASE dim = "rowwise"
    BY <2>2 DEF Matrix, Share, High, Wide, Across, Down
  <2>3. QED
    BY <2>1, <2>2 DEF Dimensions
<1>2. ASSUME NEW p \in P, NEW e \in Share(to, h, w, p)
      PROVE  value(e) = Results[Across(dim, e)][Down(dim, e) + 1]
  <2> DEFINE k == Across(dim, e)
             g == Down(dim, e)
  <2>1. k \in 0 .. task.M - 1 /\ g \in 0 .. task.S - 1 /\ task.S \in Nat
    BY <1>2, TaskNumbers, ShareEntries, Extents
  <2> HIDE DEF k, g
  <2>2. g + 1 \in 1 .. task.S /\ (g + 1) - 1 = g
    BY <2>1
  <2>3. Results[k][g + 1] = Wanted(Given(k), g)
    BY <2>1, <2>2 DEF Results
  <2>4. QED
    BY <2>3 DEF k, g
<1> HIDE DEF value, R
<1>3. [p \in P |-> [e \in Share(to, h, w, p) |-> value(e)]]
        = [p \in P |-> [e \in Share(to, h, w, p) |->
                          Results[Across(dim, e)][Down(dim, e) + 1]]]
  BY <1>2
<1>4. QED
  BY <1>1, <1>3 DEF Spread, R

LEMMA Triples ==
  ASSUME NEW app \in Applications
  PROVE  app = <<app[1], <<app[2][1], app[2][2]>>, app[3]>>
<1> DEFINE Pair(x) == x = <<x[1], x[2]>>
<1>1. /\ \A S : \A x \in {<<d, d>> : d \in S} : Pair(x)
      /\ \A S, T : \A x \in S \X T : Pair(x)
      /\ Pair(<<LOCAL_SPARSE, LOCAL_M>>) /\ Pair(<<MC_MR, MC_MR>>)
  OBVIOUS
<1>2. \A F, D, Dim : \A e \in F \X D \X Dim :
        e[2] \in D /\ e = <<e[1], e[2], e[3]>>
  OBVIOUS
<1> HIDE DEF Pair
<1>3. Pair(app[2]) /\ app = <<app[1], app[2], app[3]>>
  BY <1>1, <1>2 DEF Applications
<1>4. QED
  BY <1>3 DEF Pair

LEMMA InitIInv == Init => IInv
<1> SUFFICES ASSUME Init PROVE IInv
  OBVIOUS
<1>1. PICK app \in {a \in Applications : a[1] \in Families} \ Left,
           size \in Sizes, grid \in Grids :
        /\ app[1] \in Mixing => size[1] = size[2]
        /\ \E samples \in IF app[1] \in {"UST", "FJLT"}
                          THEN [1 .. size[2] -> 0 .. size[1] - 1] ELSE {<< >>} :
             task = [family |-> app[1], input |-> app[2][1], output |-> app[2][2],
                     dim |-> app[3], grid |-> grid, N |-> size[1], S |-> size[2],
                     M |-> size[3], samples |-> samples]
  BY DEF Init
<1>2. /\ task.family = app[1] /\ task.input = app[2][1] /\ task.output = app[2][2]
      /\ task.dim = app[3] /\ task.grid = grid /\ task.N = size[1]
      /\ task.S = size[2] /\ task.M = size[3]
      /\ app[1] \in {"UST", "FJLT"} =>
           task.samples \in [1 .. size[2] -> 0 .. size[1] - 1]
  BY <1>1
<1>3. app = <<app[1], <<app[2][1], app[2][2]>>, app[3]>>
  BY Triples
<1>4. size = <<size[1], size[2], size[3]>>
  BY SizesAssumption
<1>5. TaskOK
  BY <1>1, <1>2, <1>3, <1>4 DEF TaskOK
<1> DEFINE c == Call(Start, task.output, task.dim)
<1>6. /\ calls = <<c>> /\ sketch = None /\ phase = "applying"
  BY DEF Init
<1>7. /\ c.A = Start /\ c.out = task.output /\ c.dim = task.dim /\ c.step = "called"
      /\ IsCall(c)
  BY DEF Call, IsCall
<1>8. Applicable(task.input, task.output, task.dim)
  BY <1>5 DEF TaskOK, Applicable
<1>9. task.dim \in Dimensions /\ task.output \in Known
  BY <1>5, <1>8, Ways
<1>10. Start = Spread(task.input, task.dim, task.N, Arguments)
  BY <1>5, <1>9, StartSpread
<1>11. c.A.dist = task.input
  BY <1>7, <1>10 DEF Spread
<1> HIDE DEF c
<1>12. Listed(calls) /\ Len(calls) = 1 /\ calls[1] = c /\ Top = c
  BY <1>6, MaxCallsAssumption DEF Listed, Top
<1>13. CASE Loops(task.input, task.dim)
  BY <1>5, <1>6, <1>7, <1>11, <1>12, <1>13 DEF IInv, Endless
<1>14. CASE ~ Loops(task.input, task.dim)
  <2>1. Ready(c)
    BY <1>7, <1>8, <1>10, <1>11, <1>14 DEF Ready
  <2>2. Good(c)
    BY <1>7, <1>9, <2>1 DEF Good
  <2>3. Nest(calls)
    <3>1. \A i \in 1 .. Len(calls) : Good(calls[i])
      BY <1>12, <2>2
    <3>2. \A i \in 1 .. Len(calls) - 1 : Waits(calls[i], calls[i + 1])
      BY <1>12
    <3>3. QED
      BY <1>7, <1>12, <3>1, <3>2 DEF Nest
  <2>4. Answered(calls, sketch)
    BY <1>7, <1>12 DEF Answered
  <2>5. Regular
    BY <1>6, <1>12, <2>3, <2>4 DEF Regular
  <2>6. QED
    BY <1>5, <1>14, <2>5 DEF IInv
<1>15. QED
  BY <1>13, <1>14

LEMMA LoopGoesOn ==
  ASSUME Loops(task.input, task.dim), Endless, Next
  PROVE  Endless' /\ task' = task
<1>1. /\ Listed(calls) /\ Len(calls) > 0 /\ phase = "applying" /\ Top.step = "called"
      /\ Loops(Top.A.dist, Top.dim)
  BY DEF Endless
<1> DEFINE d == Top.A.dist
<1>2. task.family \in Fastfood \cup {"PPT"} /\ d \in RowDists /\ Top.dim = "rowwise"
  BY <1>1 DEF Loops
<1> HIDE DEF d
<1>3. WayOf(task.family, d, "rowwise") = Transpose("rowwise")
  <2>1. /\ d \notin {OTHER_C, OTHER_R} /\ d # LOCAL_M /\ d # LOCAL_SPARSE /\ d # S_S
        /\ d # CIRC_CIRC /\ d # MC_MR /\ d \notin ColDists /\ d \in Same
    BY <1>2, AllDiffer DEF Same, Others
  <2>2. task.family \notin Features /\ task.family \notin Mixing
        /\ task.family # "UST" /\ task.family # "FJLT"
        /\ (task.family \in Fastfood => task.family # "PPT")
    BY <1>2 DEF Fastfood, Features, Mixing
  <2>3. QED
    BY <1>2, <2>1, <2>2 DEF WayOf, FastRFT_STAR_V, PPT_STAR_V
<1>4. Chosen.how = "transpose" /\ Chosen.dim = "rowwise"
  BY <1>2, <1>3 DEF Chosen, Transpose, Way, d
<1>5. ApplyToTransposed
  BY <1>1, <1>4 DEF Next, ApplyLocally, ApplyAtRoot, ApplyRedistributed, TakeResult,
     Rearrange, MixInPlace, Sample, CopyOut, Underlying, Elementwise, Refused, Refuses,
     ViewRefused, At, Chosen
<1> DEFINE B == Transposed(Top.A, d)
           c == Call(B, Top.out, "rowwise")
<1>6. Nested(B, Top.out, "rowwise")
  BY <1>4, <1>5 DEF ApplyToTransposed, d
<1>7. /\ task' = task /\ phase' = phase /\ calls' = Pushed(calls, c)
      /\ Len(calls) < MaxCalls
  BY <1>6 DEF Nested, Pushed
<1>8. B.dist = d
  BY DEF Transposed, Matrix
<1>9. c.A.dist = d /\ c.dim = "rowwise" /\ c.step = "called"
  BY <1>8 DEF Call
<1> HIDE DEF B, c
<1>10. Listed(calls') /\ Len(calls') = Len(calls) + 1 /\ calls'[Len(calls) + 1] = c
  BY <1>1, <1>7, Waiting
<1>11. Top' = c
  BY <1>10 DEF Top
<1>12. Listed(calls)'
  BY <1>10 DEF Listed
<1>13. Loops(Top.A.dist, Top.dim)'
  BY <1>2, <1>7, <1>9, <1>11 DEF Loops
<1>14. Len(calls') > 0
  BY <1>1, <1>10 DEF Listed
<1>15. QED
  BY <1>1, <1>7, <1>9, <1>11, <1>12, <1>13, <1>14 DEF Endless

LEMMA NextRegular ==
  ASSUME TaskOK, Regular, Next
  PROVE  Regular' /\ task' = task
<1>1. task' = task
  BY DEF Next, ApplyLocally, ApplyAtRoot, ApplyToTransposed, ApplyRedistributed,
     TakeResult, Rearrange, MixInPlace, Sample, CopyOut, Underlying, Elementwise,
     Refused, Return, Becomes, Nested, vars
<1>2. ASSUME Refused \/ (phase # "applying" /\ UNCHANGED vars) PROVE Regular'
  <2>1. /\ task' = task /\ calls' = calls /\ sketch' = sketch
        /\ \/ phase' = phase
           \/ phase = "applying" /\ phase' = "thrown"
    BY <1>2 DEF Refused, vars
  <2>2. Nest(calls)' /\ Answered(calls, sketch)'
    BY <2>1, GoodKept DEF Regular, Nest, Answered, Listed
  <2>3. /\ phase' \in {"applying", "returned", "thrown"}
        /\ phase' # "returned" => Len(calls') > 0
        /\ phase' = "returned" => sketch' = Done(task.output, task.dim)'
    BY <2>1, GoodKept DEF Regular
  <2>4. QED
    BY <2>2, <2>3 DEF Regular
<1>3. QED
  BY <1>1, <1>2, LocalKeeps, TransposeKeeps, RedistributeKeeps, TakeKeeps,
     RearrangeKeeps, MixKeeps, SampleKeeps, CopyOutKeeps, UnderlyingKeeps,
     ElementwiseKeeps DEF Next

LEMMA NextIInv == IInv /\ [Next]_vars => IInv'
<1> SUFFICES ASSUME IInv, [Next]_vars PROVE IInv'
  OBVIOUS
<1>1. TaskOK
  BY DEF IInv
<1>2. CASE Next
  <2>1. CASE Loops(task.input, task.dim)
    <3>1. Endless' /\ task' = task
      BY <1>2, <2>1, LoopGoesOn DEF IInv
    <3>2. TaskOK' /\ Loops(task.input, task.dim)'
      BY <1>1, <2>1, <3>1, TaskKept DEF Loops
    <3>3. QED
      BY <3>1, <3>2 DEF IInv
  <2>2. CASE ~ Loops(task.input, task.dim)
    <3>1. Regular' /\ task' = task
      BY <1>1, <1>2, <2>2, NextRegular DEF IInv
    <3>2. TaskOK' /\ ~ Loops(task.input, task.dim)'
      BY <1>1, <2>2, <3>1, TaskKept DEF Loops
    <3>3. QED
      BY <3>1, <3>2 DEF IInv
  <2>3. QED
    BY <2>1, <2>2
<1>3. CASE UNCHANGED vars
  <2>1. task' = task /\ calls' = calls /\ sketch' = sketch /\ phase' = phase
    BY <1>3 DEF vars
  <2>2. CASE Loops(task.input, task.dim)
    <3>1. Endless
      BY <2>2 DEF IInv
    <3>2. TaskOK' /\ Loops(task.input, task.dim)' /\ Endless'
      BY <1>1, <2>1, <2>2, <3>1, TaskKept DEF Loops, Endless, Listed, Top
    <3>3. QED
      BY <3>2 DEF IInv
  <2>3. CASE ~ Loops(task.input, task.dim)
    <3>1. Regular
      BY <2>3 DEF IInv
    <3>2. Regular'
      BY <2>1, <3>1, GoodKept DEF Regular, Nest, Answered, Listed
    <3>3. TaskOK' /\ ~ Loops(task.input, task.dim)'
      BY <1>1, <2>1, <2>3, TaskKept DEF Loops
    <3>4. QED
      BY <3>2, <3>3 DEF IInv
  <2>4. QED
    BY <2>2, <2>3
<1>4. QED
  BY <1>2, <1>3
-----------------------------------------------------------------------------
LEMMA IInvSketched == IInv => Sketched
<1> SUFFICES ASSUME IInv, phase = "returned" PROVE Sketched
  BY DEF Sketched
<1>1. TaskOK /\ sketch = Done(task.output, task.dim)
  BY DEF IInv, Endless, Regular
<1>2. task.dim \in Dimensions
  BY <1>1, Ways DEF TaskOK, Applicable
<1>3. QED
  BY <1>1, <1>2, ResultsSpread DEF Sketched, Done

(* A sketch that apply returns is what the definition of the transform     *)
(* makes of the vectors, on every process its part: whatever the sizes, the*)
(* grid, the distributions and the dimension, and however deep the calls.  *)
THEOREM SketchesAsDefined == Spec => []Sketched
<1>1. Init => IInv
  BY InitIInv
<1>2. IInv /\ [Next]_vars => IInv'
  BY NextIInv
<1>3. IInv => Sketched
  BY IInvSketched
<1>4. QED
  BY <1>1, <1>2, <1>3, PTL DEF Spec

LEMMA IInvTypeOK ==
  ASSUME CallThemselves \subseteq Left
  PROVE  IInv => TypeOK
<1> SUFFICES ASSUME IInv PROVE TypeOK
  OBVIOUS
<1>1. TaskOK
  BY DEF IInv
<1>2. task.dim \in Dimensions
  BY <1>1, Ways DEF TaskOK, Applicable
<1>3. ~ Loops(task.input, task.dim)
  <2> SUFFICES ASSUME Loops(task.input, task.dim) PROVE FALSE
    OBVIOUS
  <2>1. /\ task.family \in Fastfood \cup {"PPT"} /\ task.input \in RowDists
        /\ task.dim = "rowwise"
    BY DEF Loops
  <2>2. KindOf(task.family, task.input, task.output, task.dim)
    BY <1>1, Kinds DEF TaskOK, Applicable
  <2>3. task.family \in Whole /\ task.family # "FJLT" /\ task.family \notin Features
        /\ task.family # "RFUT" /\ task.family # "RFUT inverse"
        /\ task.input # LOCAL_SPARSE
    BY <2>1, AllDiffer DEF Whole, Fastfood, Features, Same
  <2>4. task.output = task.input
    BY <2>2, <2>3 DEF KindOf
  <2>5. <<task.family, <<task.input, task.output>>, task.dim>> \in CallThemselves
    BY <2>1, <2>4 DEF CallThemselves
  <2>6. QED
    BY <1>1, <2>5 DEF TaskOK
<1>4. Regular
  BY <1>3 DEF IInv
<1>5. Start = Spread(task.input, task.dim, task.N, Arguments)
  BY <1>1, <1>2, StartSpread
<1>6. Along(task.dim, Start.h, Start.w) = <<task.N, task.M>>
  BY <1>2, <1>5 DEF Spread, Along, High, Wide, Dimensions
<1>7. ASSUME NEW c, Good(c)
      PROVE  /\ c.dim \in Dimensions
             /\ c.step \in {"called", "waiting", "rearranged", "mixed", "sampled", "dense"}
             /\ DOMAIN c.A.at = P
             /\ c.step \in {"called", "waiting"} =>
                  Along(c.dim, c.A.h, c.A.w) = <<task.N, task.M>>
  <2>1. \A dist, dim, n, x : DOMAIN Spread(dist, dim, n, x).at = P
    BY DEF Spread
  <2>2. c.dim \in Dimensions
    BY <1>7 DEF Good
  <2>3. c.step \in {"called", "waiting", "rearranged", "mixed", "sampled", "dense"}
        /\ \E dist, dim, n, x : c.A = Spread(dist, dim, n, x)
    BY <1>7 DEF Good, Ready, Brought, Dense
  <2>4. ASSUME c.step \in {"called", "waiting"}
        PROVE  Along(c.dim, c.A.h, c.A.w) = <<task.N, task.M>>
    <3>1. PICK dist : c.A = Spread(dist, c.dim, task.N, Arguments)
      BY <1>7, <2>4 DEF Good, Ready, Brought, Dense
    <3>2. QED
      BY <2>2, <3>1 DEF Spread, Along, High, Wide, Dimensions
  <2>5. QED
    BY <2>1, <2>2, <2>3, <2>4
<1>8. \A c \in Range(calls) : Good(c)
  <2>1. DOMAIN calls = 1 .. Len(calls) /\ \A i \in 1 .. Len(calls) : Good(calls[i])
    BY <1>4 DEF Regular, Nest, Listed
  <2>2. QED
    BY <2>1 DEF Range
<1>9. Len(calls) <= MaxCalls /\ phase \in {"applying", "returned", "thrown"}
  BY <1>4 DEF Regular, Nest, Listed
<1>10. QED
  BY <1>6, <1>7, <1>8, <1>9 DEF TypeOK

(* If the applications that call themselves for ever are left out, every   *)
(* call is given a matrix of which each process holds its own part, with   *)
(* the vectors along the dimension it is called with.                      *)
THEOREM WellTyped ==
  ASSUME CallThemselves \subseteq Left
  PROVE  Spec => []TypeOK
<1>1. Init => IInv
  BY InitIInv
<1>2. IInv /\ [Next]_vars => IInv'
  BY NextIInv
<1>3. IInv => TypeOK
  BY IInvTypeOK
<1>4. QED
  BY <1>1, <1>2, <1>3, PTL DEF Spec
=============================================================================
