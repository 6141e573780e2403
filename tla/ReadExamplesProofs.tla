------------------------- MODULE ReadExamplesProofs -------------------------
(***************************************************************************)
(* Proofs about ReadExamples: whatever is sent is received.  Between the   *)
(* root and another process there are lines of messages of one tag and     *)
(* direction.  How many messages of a line a process has sent or received  *)
(* is determined by the calls it has finished, the sizes of the files they *)
(* read, and where it is in its present call; the difference between what  *)
(* the two have is what is under way.                                      *)
(***************************************************************************)
EXTENDS ReadExamples, Lemmas

Tags == {Collective} \cup 0 .. 7
Kinds == {"down", "up"} \X Tags  \* from the root, or to it

Line(kind, q) == IF kind[1] = "down" THEN <<0, q>> ELSE <<q, 0>>
Sender(kind, q) == IF kind[1] = "down" THEN 0 ELSE q
Receiver(kind, q) == IF kind[1] = "down" THEN q ELSE 0

-----------------------------------------------------------------------------
(* How many messages of a kind a call has for process q, when n is the     *)
(* number of examples.                                                     *)
Scatters == InBlocks \cup {"vc_star"}

Bit(b) == IF b THEN 1 ELSE 0
Lead(call) == Bit(call.op \in Rooted)
NB(call, n) == Len(BlocksOf(call, n))
Alloc(np, n, q) == n \div np + Bit(q < n % np)
AllocBefore(np, n, q) == q * (n \div np) + Smaller(q, n % np)

Load(np, kind, q, call, n) ==
  IF kind[1] = "down"
  THEN IF kind[2] = Collective
       THEN IF call.op \in Scatters THEN Lead(call) + NB(call, n)
            ELSE Bit(call.op \in Shared)
       ELSE IF kind[2] = 0 THEN IF call.op = "vc_star" THEN 3 * NB(call, n) ELSE 0
       ELSE Bit(call.op \in Shared /\ Alloc(np, n, q) > 0)
  ELSE IF kind[2] = Collective
       THEN Bit(call.op = "write_hdf5")
       ELSE Bit(call.op = "write_hdf5" /\ kind[2] \in 1 .. 3)

(* How many of them process p, where m says it is, has sent or received.   *)
Clip(k, q) == IF k <= 3 * (q - 1) THEN 0 ELSE IF k >= 3 * q THEN 3
              ELSE k - 3 * (q - 1)
Handled(q, p, m, t) == IF p = 0 THEN q < m.i \/ (q = m.i /\ t <= m.k) ELSE t <= m.k

Part(np, kind, q, p, call, n, m) ==
  IF m.pc \in {"idle", "broadcast"} THEN 0
  ELSE IF m.pc = "leave" THEN Load(np, kind, q, call, n)
  ELSE IF kind[1] = "down"
  THEN IF kind[2] = Collective
       THEN IF m.pc \in {"blocks", "lists"} THEN Lead(call) + m.i - 1
            ELSE Bit(m.pc \in {"ready", "shares"})
       ELSE IF kind[2] = 0
       THEN IF call.op = "vc_star" /\ m.pc \in {"blocks", "lists"}
            THEN 3 * (m.i - 1) + IF p # 0 THEN m.k
                                 ELSE IF m.pc = "lists" THEN Clip(m.k, q) ELSE 0
            ELSE 0
       ELSE Bit(m.pc = "shares" /\ Handled(q, p, m, kind[2]))
  ELSE IF kind[2] = Collective
       THEN Bit(m.pc = "collect" /\ (p = 0 => m.i >= 1))
       ELSE Bit(m.pc = "collect" /\ kind[2] \in 1 .. 3 /\ Handled(q, p, m, kind[2]))

(* Sums over the calls before one.                                         *)
Sums(N, h, a) == /\ a \in [1 .. N + 1 -> Nat] /\ a[1] = 0
                 /\ \A c \in 1 .. N : a[c + 1] = a[c] + h[c]
Acc(N, h) == CHOOSE a : Sums(N, h, a)

Loads(np, ss, sz, kind, q) ==
  [c \in 1 .. Len(ss) |-> Load(np, kind, q, ss[c], sz[c])]
Before(np, ss, sz, kind, q) == Acc(Len(ss), Loads(np, ss, sz, kind, q))

Total(np, ss, sz, kind, q, p, m) ==
  Before(np, ss, sz, kind, q)[m.at] + Part(np, kind, q, p, ss[m.at], sz[m.at], m)

-----------------------------------------------------------------------------
(* The messages of one tag in a sequence, in order.                        *)
Picks(f, s, t, buf) ==
  /\ f \in [1 .. Len(buf) -> DOMAIN s]
  /\ \A j, l \in 1 .. Len(buf) : j < l => f[j] < f[l]
  /\ \A x \in DOMAIN s : s[x].tag = t <=> \E j \in 1 .. Len(buf) : f[j] = x
  /\ \A j \in 1 .. Len(buf) : buf[j] = s[f[j]].what
Carries(s, t, buf) == Sequential(buf) /\ \E f : Picks(f, s, t, buf)

(* What the x-th message of a line says, as far as it matters here: the    *)
(* size a call's broadcast announces, and numbers of examples.             *)
Content(np, ss, sz, kind, q, x, w) ==
  /\ kind = <<"down", Collective>> =>
       \A c \in 1 .. Len(ss) :
         ss[c].op \in Rooted /\ x = Before(np, ss, sz, kind, q)[c] + 1 => w.n = sz[c]
  /\ kind[2] = 1 => w \in Nat

LineOK(np, ss, sz, kind, q, s, from, to) ==
  \E buf : /\ Carries(s, kind[2], buf)
           /\ Len(buf) + to = from
           /\ \A j \in 1 .. Len(buf) : Content(np, ss, sz, kind, q, to + j, buf[j])

-----------------------------------------------------------------------------
(* Where a process can be in a call.                                       *)
RecordOK(m) == DOMAIN m = {"at", "pc", "i", "k", "met", "size", "got"}

GotOK(m) == Sequential(m.got) /\ Len(m.got) = m.k /\ (m.k > 0 => m.got[1] \in Nat)

InBlock1(call, p, m, n) ==
  /\ call.op \in Scatters /\ m.i \in 1 .. NB(call, n) + 1
  /\ IF call.op = "vc_star" /\ p # 0
     THEN m.k \in 0 .. 3 /\ (m.k > 0 => m.i <= NB(call, n)) ELSE m.k = 0
InLists(np, call, p, m, n) ==
  /\ call.op = "vc_star" /\ p = 0
  /\ m.i \in 1 .. NB(call, n) /\ m.k \in 0 .. 3 * (np - 1)
InShares(np, call, p, m, n) ==
  /\ call.op \in Shared
  /\ IF p = 0
     THEN /\ m.i \in 0 .. np /\ m.k \in 0 .. 6
          /\ m.k > 0 => m.i \in 1 .. np - 1 /\ Alloc(np, n, m.i) > 0
          /\ \A q \in 1 .. m.i - 1 : Alloc(np, n, q) > 0
     ELSE m.k \in 0 .. 7 /\ (m.k > 0 => Alloc(np, n, p) > 0) /\ GotOK(m)
InCollect(np, call, p, m) ==
  /\ call.op = "write_hdf5"
  /\ IF p = 0 THEN /\ m.i \in 0 .. np /\ m.k \in 0 .. 2 /\ GotOK(m)
                   /\ m.k > 0 => m.i \in 1 .. np - 1
     ELSE m.k \in 0 .. 3
InGather(call, p, m, n) == call.op = "write_dist" /\ m.i \in 1 .. NB(call, n) + 1

InCall(np, call, p, m, n) ==
  /\ m.pc \in {"broadcast", "blocks", "lists", "ready", "shares", "collect", "gather",
               "leave"}
  /\ m.pc = "broadcast" => call.op \in Rooted
  /\ m.pc = "blocks" => InBlock1(call, p, m, n)
  /\ m.pc = "lists" => InLists(np, call, p, m, n)
  /\ m.pc = "ready" => call.op \in Shared
  /\ m.pc = "shares" => InShares(np, call, p, m, n)
  /\ m.pc = "collect" => InCollect(np, call, p, m)
  /\ m.pc = "gather" => InGather(call, p, m, n)
  /\ m.pc = "leave" => call.op \in Shared \cup {"write_hdf5"}
  /\ m.pc \in {"blocks", "lists", "ready", "shares", "gather"} \/ (m.pc = "broadcast" /\ p = 0)
       => m.size.n = n

MeOK(np, ss, sz, p, m) ==
  /\ RecordOK(m) /\ m.at \in 1 .. Len(ss) + 1
  /\ m.pc # "idle" => m.at <= Len(ss) /\ InCall(np, ss[m.at], p, m, sz[m.at])

(* The lines the root has left to deal out.                                *)
RestOK(np, call, m, n, rst) ==
  m.pc \in {"broadcast", "ready", "shares"} /\ call.op \in Shared =>
    /\ Sequential(rst)
    /\ Len(rst) + (IF m.pc = "shares" THEN AllocBefore(np, n, m.i) ELSE 0) >= n
    /\ call.op = "ml_hdf5_sparse" /\ np > 1 => n >= np

(* How many examples the matrices of a process have.                       *)
HeldOK(ss, sz, m, h) ==
  /\ "n" \in DOMAIN h /\ h.n \in Nat
  /\ m.pc = "idle" /\ m.at > 1 /\ ss[m.at - 1].op \in Scatters => h.n = sz[m.at - 1]
  /\ m.pc \in {"blocks", "lists", "gather"} => h.n = sz[m.at]

(* Barriers.                                                               *)
Barriers(call) == IF call.op \in Shared THEN 2 ELSE Bit(call.op = "write_hdf5")
Barred(ss) == Acc(Len(ss), [c \in 1 .. Len(ss) |-> Barriers(ss[c])])
Arrived(ss, m) ==
  Barred(ss)[m.at] + IF m.pc \in {"ready", "shares"} THEN 1
                     ELSE IF m.pc = "leave" THEN Barriers(ss[m.at]) ELSE 0
Passed(ss, m) ==
  Barred(ss)[m.at] + Bit(m.pc = "shares" \/ (m.pc = "leave" /\ ss[m.at].op \in Shared))

(* Whether a process has opened the file of call c, and knows its size.    *)
Resting(p, m) == m.pc = "idle" \/ (m.pc = "broadcast" /\ p # 0)
Knows(c, p, m) == m.at > c \/ (m.at = c /\ ~Resting(p, m))

-----------------------------------------------------------------------------
CaseOK ==
  \E case \in Cases :
    /\ grid = case.grid /\ session = case.session /\ limits = case.limits
    /\ (\A c \in 1 .. Len(session) : session[c].op \notin Writes) => file = case.file
    /\ P = 1 \/ Matched(case)
    /\ Cleared(case)

FileIs(f) ==
  /\ "texts" \in DOMAIN f
  /\ Sequential(f.texts) /\ f.texts # <<>>
  /\ \A k \in DOMAIN f.texts : Sequential(f.texts[k])

MailIs(np, mls) ==
  /\ DOMAIN mls = (0 .. np - 1) \X (0 .. np - 1)
  /\ \A pair \in DOMAIN mls :
       /\ Sequential(mls[pair])
       /\ \A x \in DOMAIN mls[pair] : mls[pair][x].tag \in Tags
       /\ (pair[1] = 0) = (pair[2] = 0) => mls[pair] = <<>>

LineIs(np, ss, sz, kind, q, mes, mls) ==
  LineOK(np, ss, sz, kind, q, mls[Line(kind, q)],
         Total(np, ss, sz, kind, q, Sender(kind, q), mes[Sender(kind, q)]),
         Total(np, ss, sz, kind, q, Receiver(kind, q), mes[Receiver(kind, q)]))
LinesAre(np, ss, sz, mes, mls) ==
  \A kind \in Kinds, q \in 1 .. np - 1 : LineIs(np, ss, sz, kind, q, mes, mls)

MetAre(np, ss, mes) ==
  /\ \A p \in 0 .. np - 1 : mes[p].met = Arrived(ss, mes[p])
  /\ \A p, q \in 0 .. np - 1 : Passed(ss, mes[p]) <= mes[q].met

SizesAre(np, ss, sz, mes, f) ==
  \A c \in 1 .. Len(ss) :
    /\ np > 1 /\ ss[c].op = "ml_hdf5_dense"
    /\ \E p \in 0 .. np - 1 : Knows(c, p, mes[p])
    /\ \E p \in 0 .. np - 1 : ~Knows(c, p, mes[p])
    => Len(f.texts[1]) = sz[c]

Settings(np, ss, sz) ==
  np \in Nat \ {0} /\ Len(ss) \in Nat /\ sz \in [1 .. Len(ss) -> Nat]

Fine(np, ss, sz, mes, mls, hs, rst, f) ==
  /\ Settings(np, ss, sz)
  /\ \A p \in 0 .. np - 1 : MeOK(np, ss, sz, p, mes[p])
  /\ \A p \in 0 .. np - 1 : HeldOK(ss, sz, mes[p], hs[p])
  /\ RestOK(np, ss[mes[0].at], mes[0], sz[mes[0].at], rst)
  /\ MailIs(np, mls) /\ LinesAre(np, ss, sz, mes, mls) /\ SizesAre(np, ss, sz, mes, f)

Sizings == [1 .. Len(session) -> Nat]

IInv ==
  /\ CaseOK /\ FileIs(file) /\ MetAre(P, session, me)
  /\ DOMAIN me = Procs /\ DOMAIN held = Procs
  /\ \E sz \in Sizings : Fine(P, session, sz, me, mail, held, rest, file)
-----------------------------------------------------------------------------
(* Sums over calls.                                                        *)
LEMMA SumsExist ==
  ASSUME NEW N \in Nat, NEW h \in [1 .. N -> Nat]
  PROVE  \E a : Sums(N, h, a)
<1> DEFINE Is(n, a) == /\ a \in [1 .. n + 1 -> Nat] /\ a[1] = 0
                       /\ \A c \in 1 .. n : a[c + 1] = a[c] + h[c]
           Good == {n \in 0 .. N : \E a : Is(n, a)}
<1>1. Is(0, [c \in 1 .. 0 + 1 |-> 0])
  OBVIOUS
<1>2. ASSUME NEW n \in 0 .. N, NEW a, Is(n, a), n < N
      PROVE  \E b : Is(n + 1, b)
  <2> DEFINE b == [c \in 1 .. n + 2 |-> IF c = n + 2 THEN a[n + 1] + h[n + 1] ELSE a[c]]
  <2>1. n + 1 \in 1 .. n + 1 /\ n + 1 \in 1 .. N /\ a[n + 1] \in Nat /\ h[n + 1] \in Nat
    BY <1>2
  <2>2. b \in [1 .. n + 2 -> Nat]
    <3>1. \A c \in 1 .. n + 2 : b[c] \in Nat
      BY <1>2, <2>1
    <3>2. QED
      BY <3>1
  <2>3. b[1] = 0
    BY <1>2
  <2>4. \A c \in 1 .. n + 1 : b[c + 1] = b[c] + h[c]
    <3> TAKE c \in 1 .. n + 1
    <3>1. CASE c = n + 1
      BY <2>1, <3>1
    <3>2. CASE c # n + 1
      <4>1. c \in 1 .. n /\ c + 1 # n + 2 /\ c # n + 2 /\ c + 1 \in 1 .. n + 2
        BY <3>2
      <4>2. QED
        BY <1>2, <4>1
    <3>3. QED
      BY <3>1, <3>2
  <2> HIDE DEF b
  <2>5. Is(n + 1, b)
    BY <2>2, <2>3, <2>4
  <2>6. QED
    BY <2>5
<1> HIDE DEF Is
<1>3. 0 \in Nat /\ 0 \in Good
  BY <1>1
<1>4. \A n \in 0 .. N : n \in Good /\ n < N => n + 1 \in Good
  <2> TAKE n \in 0 .. N
  <2> HAVE n \in Good /\ n < N
  <2>1. PICK a : Is(n, a)
    OBVIOUS
  <2>2. QED
    BY <1>2, <2>1
<1> HIDE DEF Good
<1>5. \A n \in 0 .. N : n \in Good
  BY <1>3, <1>4, UpTo
<1>6. N \in Good
  BY <1>5
<1>7. QED
  BY <1>6 DEF Good, Is, Sums

LEMMA AccSums ==
  ASSUME NEW N \in Nat, NEW h \in [1 .. N -> Nat]
  PROVE  Sums(N, h, Acc(N, h))
<1>1. \E a : Sums(N, h, a)
  BY SumsExist
<1>2. QED
  BY <1>1 DEF Acc

LEMMA SumsGrow ==
  ASSUME NEW N \in Nat, NEW h \in [1 .. N -> Nat], NEW a, Sums(N, h, a),
         NEW c \in 1 .. N + 1, NEW d \in 1 .. N + 1, c <= d
  PROVE  a[c] <= a[d]
<1> DEFINE Good == {e \in c .. N + 1 : a[c] <= a[e]}
<1>1. c \in Nat /\ N + 1 \in Nat /\ c \in Good
  BY DEF Sums
<1>2. \A e \in c .. N + 1 : e \in Good /\ e < N + 1 => e + 1 \in Good
  <2> TAKE e \in c .. N + 1
  <2> HAVE e \in Good /\ e < N + 1
  <2>1. e \in 1 .. N /\ e + 1 \in c .. N + 1 /\ e \in 1 .. N + 1
    OBVIOUS
  <2>2. a[e + 1] = a[e] + h[e] /\ h[e] \in Nat /\ a[e] \in Nat /\ a[c] \in Nat
    BY <2>1 DEF Sums
  <2>3. QED
    BY <2>1, <2>2
<1> HIDE DEF Good
<1>3. \A e \in c .. N + 1 : e \in Good
  BY <1>1, <1>2, UpTo
<1>4. d \in Good
  BY <1>3
<1>5. QED
  BY <1>4 DEF Good

LEMMA SumsAgree ==
  ASSUME NEW N \in Nat, NEW h, NEW g, NEW a, NEW b, Sums(N, h, a), Sums(N, g, b),
         NEW c \in 1 .. N + 1, \A x \in 1 .. c - 1 : h[x] = g[x]
  PROVE  \A x \in 1 .. c : a[x] = b[x]
<1> DEFINE Good == {x \in 1 .. c : a[x] = b[x]}
<1>1. 1 \in Nat /\ c \in Nat /\ 1 \in Good
  BY DEF Sums
<1>2. \A x \in 1 .. c : x \in Good /\ x < c => x + 1 \in Good
  <2> TAKE x \in 1 .. c
  <2> HAVE x \in Good /\ x < c
  <2>1. x \in 1 .. N /\ x + 1 \in 1 .. c /\ x \in 1 .. c - 1
    OBVIOUS
  <2>2. a[x + 1] = a[x] + h[x] /\ b[x + 1] = b[x] + g[x] /\ h[x] = g[x]
    BY <2>1 DEF Sums
  <2>3. QED
    BY <2>1, <2>2
<1> HIDE DEF Good
<1>3. \A x \in 1 .. c : x \in Good
  BY <1>1, <1>2, UpTo
<1>4. QED
  BY <1>3 DEF Good
-----------------------------------------------------------------------------
(* Shares.                                                                 *)
LEMMA Shares ==
  ASSUME NEW np \in Nat \ {0}, NEW n \in Nat, NEW q \in 0 .. np - 1
  PROVE  /\ Alloc(np, n, q) \in Nat /\ AllocBefore(np, n, q) \in Nat
         /\ AllocBefore(np, n, q + 1) = AllocBefore(np, n, q) + Alloc(np, n, q)
         /\ AllocBefore(np, n, q) + Alloc(np, n, q) <= n
         /\ AllocBefore(np, n, 0) = 0
         /\ n >= np => Alloc(np, n, q) > 0
         /\ Alloc(np, n, q) = 0 => \A r \in q .. np - 1 : Alloc(np, n, r) = 0
<1> DEFINE d == n \div np
           r == n % np
<1>1. d \in Nat /\ r \in 0 .. np - 1 /\ n = np * d + r
  BY DivMod
<1>2. Alloc(np, n, q) = d + (IF q < r THEN 1 ELSE 0)
  BY DEF Alloc, Bit
<1>3. /\ AllocBefore(np, n, q) = q * d + (IF q < r THEN q ELSE r)
      /\ AllocBefore(np, n, q + 1) = (q + 1) * d + (IF q + 1 < r THEN q + 1 ELSE r)
      /\ AllocBefore(np, n, 0) = 0 * d + (IF 0 < r THEN 0 ELSE r)
  BY DEF AllocBefore, Smaller
<1>4. \A x \in q .. np - 1 : Alloc(np, n, x) = d + (IF x < r THEN 1 ELSE 0)
  BY DEF Alloc, Bit
<1>5. n >= np => d >= 1
  <2>1. d = 0 => np * d = 0
    BY <1>1
  <2>2. QED
    BY <1>1, <2>1
<1> HIDE DEF d, r
<1>6. q * d \in Nat /\ (q + 1) * d = q * d + d /\ 0 * d = 0 /\ q \in Nat
  BY <1>1
<1>7. (q + 1) * d <= np * d
  <2>1. (np - (q + 1)) * d >= 0
    BY <1>1
  <2>2. (np - (q + 1)) * d = np * d - (q + 1) * d
    BY <1>1
  <2>3. np * d \in Nat /\ (q + 1) * d \in Nat
    BY <1>1
  <2>4. QED
    BY <2>1, <2>2, <2>3
<1>8. Alloc(np, n, q) \in Nat /\ AllocBefore(np, n, q) \in Nat
  BY <1>1, <1>2, <1>3, <1>6
<1>9. AllocBefore(np, n, q + 1) = AllocBefore(np, n, q) + Alloc(np, n, q)
  <2> DEFINE x == q * d
             y == (q + 1) * d
  <2>1. x \in Nat /\ y = x + d
    BY <1>6
  <2> HIDE DEF x, y
  <2>2. /\ AllocBefore(np, n, q) = x + (IF q < r THEN q ELSE r)
        /\ AllocBefore(np, n, q + 1) = y + (IF q + 1 < r THEN q + 1 ELSE r)
    BY <1>3 DEF x, y
  <2>3. QED
    BY <1>1, <1>2, <2>1, <2>2
<1>10. AllocBefore(np, n, q) + Alloc(np, n, q) <= n
  <2> DEFINE y == (q + 1) * d
             z == np * d
  <2>1. y \in Nat /\ z \in Nat /\ y <= z /\ n = z + r
    BY <1>1, <1>7
  <2>2. AllocBefore(np, n, q + 1) = y + (IF q + 1 < r THEN q + 1 ELSE r)
    BY <1>3
  <2> HIDE DEF y, z
  <2>3. AllocBefore(np, n, q + 1) <= n
    BY <1>1, <2>1, <2>2
  <2>4. QED
    BY <1>9, <2>3
<1>11. AllocBefore(np, n, 0) = 0
  BY <1>1, <1>3, <1>6
<1>12. n >= np => Alloc(np, n, q) > 0
  BY <1>1, <1>2, <1>5
<1>13. ASSUME Alloc(np, n, q) = 0, NEW x \in q .. np - 1 PROVE Alloc(np, n, x) = 0
  BY <1>1, <1>2, <1>4, <1>13
<1>14. QED
  BY <1>8, <1>9, <1>10, <1>11, <1>12, <1>13
-----------------------------------------------------------------------------
(* Lines of messages.                                                      *)
LEMMA AsSeq ==
  ASSUME NEW s, Sequential(s)
  PROVE  /\ Len(s) \in Nat /\ DOMAIN s = 1 .. Len(s)
         /\ s \in Seq({s[k] : k \in 1 .. Len(s)})
<1> DEFINE S == {s[k] : k \in 1 .. Len(s)}
           n == Len(s)
<1>1. n \in Nat /\ s = [k \in 1 .. n |-> s[k]]
  BY DEF Sequential
<1>2. DOMAIN s = 1 .. n
  BY <1>1
<1>3. s \in [1 .. n -> S]
  BY <1>1
<1>4. s \in Seq(S)
  BY <1>1, <1>3
<1>5. QED
  BY <1>1, <1>2, <1>4

LEMMA SeqWithin ==
  ASSUME NEW s, Sequential(s), NEW S, \A k \in 1 .. Len(s) : s[k] \in S
  PROVE  s \in Seq(S)
<1>1. Len(s) \in Nat /\ s = [k \in 1 .. Len(s) |-> s[k]]
  BY DEF Sequential
<1>2. s \in [1 .. Len(s) -> S]
  BY <1>1
<1>3. QED
  BY <1>1, <1>2

LEMMA IsSequential ==
  ASSUME NEW S, NEW s \in Seq(S)
  PROVE  Sequential(s)
BY DEF Sequential

LEMMA Sequentials ==
  ASSUME NEW n \in Nat, NEW s, s = [k \in 1 .. n |-> s[k]]
  PROVE  Sequential(s) /\ Len(s) = n
<1> DEFINE S == {s[k] : k \in 1 .. n}
<1>1. s \in [1 .. n -> S]
  OBVIOUS
<1>2. s \in Seq(S) /\ Len(s) = n
  BY <1>1
<1>3. QED
  BY <1>2, IsSequential

LEMMA Appended ==
  ASSUME NEW s, Sequential(s), NEW e
  PROVE  /\ Sequential(Append(s, e)) /\ Len(Append(s, e)) = Len(s) + 1
         /\ DOMAIN Append(s, e) = 1 .. Len(s) + 1
         /\ \A k \in 1 .. Len(s) : Append(s, e)[k] = s[k]
         /\ Append(s, e)[Len(s) + 1] = e
<1> DEFINE S == {s[k] : k \in 1 .. Len(s)} \cup {e}
<1>1. Len(s) \in Nat /\ e \in S /\ \A k \in 1 .. Len(s) : s[k] \in S
  BY DEF Sequential
<1> HIDE DEF S
<1>2. s \in Seq(S)
  BY <1>1, SeqWithin
<1>3. Append(s, e) \in Seq(S)
  BY <1>1, <1>2
<1>4. Sequential(Append(s, e))
  BY <1>3, IsSequential
<1>5. QED
  BY <1>1, <1>2, <1>3, <1>4

Joins(u, s, t) == /\ Sequential(u) /\ Len(u) = Len(s) + Len(t)
                  /\ \A k \in 1 .. Len(s) : u[k] = s[k]
                  /\ \A k \in 1 .. Len(t) : u[Len(s) + k] = t[k]

LEMMA Joined ==
  ASSUME NEW s, Sequential(s), NEW t, Sequential(t)
  PROVE  Joins(s \o t, s, t)
<1> DEFINE S == {s[k] : k \in 1 .. Len(s)} \cup {t[k] : k \in 1 .. Len(t)}
<1>1. /\ Len(s) \in Nat /\ Len(t) \in Nat
      /\ \A k \in 1 .. Len(s) : s[k] \in S
      /\ \A k \in 1 .. Len(t) : t[k] \in S
  BY DEF Sequential
<1> HIDE DEF S
<1>2. s \in Seq(S) /\ t \in Seq(S)
  BY <1>1, SeqWithin
<1>3. s \o t \in Seq(S)
  BY <1>2
<1>4. Sequential(s \o t)
  BY <1>3, IsSequential
<1>5. QED
  BY <1>1, <1>2, <1>4 DEF Joins

LEMMA PartOfSeq ==
  ASSUME NEW s, Sequential(s), NEW a \in 1 .. Len(s) + 1, NEW b \in Int, b <= Len(s)
  PROVE  /\ Sequential(SubSeq(s, a, b))
         /\ Len(SubSeq(s, a, b)) = IF a <= b THEN b - a + 1 ELSE 0
         /\ \A k \in 1 .. b - a + 1 : SubSeq(s, a, b)[k] = s[a + k - 1]
<1> DEFINE S == {s[k] : k \in 1 .. Len(s)}
<1>1. s \in Seq(S) /\ Len(s) \in Nat
  BY AsSeq
<1> HIDE DEF S
<1>2. SubSeq(s, a, b) \in Seq(S)
  BY <1>1
<1>3. /\ Len(SubSeq(s, a, b)) = IF a <= b THEN b - a + 1 ELSE 0
      /\ \A k \in 1 .. b - a + 1 : SubSeq(s, a, b)[k] = s[a + k - 1]
  BY <1>1
<1>4. QED
  BY <1>2, <1>3, IsSequential

LEMMA Removed ==
  ASSUME NEW s, Sequential(s), NEW o \in 1 .. Len(s)
  PROVE  /\ Sequential(RemoveAt(s, o)) /\ Len(RemoveAt(s, o)) = Len(s) - 1
         /\ DOMAIN RemoveAt(s, o) = 1 .. Len(s) - 1
         /\ \A x \in 1 .. o - 1 : RemoveAt(s, o)[x] = s[x]
         /\ \A x \in o .. Len(s) - 1 : RemoveAt(s, o)[x] = s[x + 1]
<1> DEFINE a == SubSeq(s, 1, o - 1)
           b == SubSeq(s, o + 1, Len(s))
<1>1. Len(s) \in Nat
  BY DEF Sequential
<1>2. /\ Sequential(a) /\ Len(a) = o - 1
      /\ \A k \in 1 .. o - 1 : a[k] = s[k]
  <2>1. 1 \in 1 .. Len(s) + 1 /\ o - 1 \in Int /\ o - 1 <= Len(s)
    BY <1>1
  <2>2. /\ Sequential(a)
        /\ Len(a) = IF 1 <= o - 1 THEN (o - 1) - 1 + 1 ELSE 0
        /\ \A k \in 1 .. (o - 1) - 1 + 1 : a[k] = s[1 + k - 1]
    BY <2>1, PartOfSeq
  <2>3. QED
    BY <1>1, <2>2
<1>3. /\ Sequential(b) /\ Len(b) = Len(s) - o
      /\ \A k \in 1 .. Len(s) - o : b[k] = s[o + k]
  <2>1. o + 1 \in 1 .. Len(s) + 1 /\ Len(s) \in Int /\ Len(s) <= Len(s)
    BY <1>1
  <2>2. /\ Sequential(b)
        /\ Len(b) = IF o + 1 <= Len(s) THEN Len(s) - (o + 1) + 1 ELSE 0
        /\ \A k \in 1 .. Len(s) - (o + 1) + 1 : b[k] = s[(o + 1) + k - 1]
    BY <2>1, PartOfSeq
  <2>3. QED
    BY <1>1, <2>2
<1>4. RemoveAt(s, o) = a \o b
  BY DEF RemoveAt
<1> HIDE DEF a, b
<1>5. /\ Sequential(a \o b) /\ Len(a \o b) = Len(s) - 1
      /\ \A k \in 1 .. o - 1 : (a \o b)[k] = a[k]
      /\ \A k \in 1 .. Len(s) - o : (a \o b)[o - 1 + k] = b[k]
  <2>1. /\ Sequential(a \o b) /\ Len(a \o b) = Len(a) + Len(b)
        /\ \A k \in 1 .. Len(a) : (a \o b)[k] = a[k]
        /\ \A k \in 1 .. Len(b) : (a \o b)[Len(a) + k] = b[k]
    <3>1. Joins(a \o b, a, b)
      BY <1>2, <1>3, Joined
    <3>2. QED
      BY <3>1 DEF Joins
  <2>2. o - 1 + (Len(s) - o) = Len(s) - 1
    BY <1>1
  <2>3. QED
    BY <1>2, <1>3, <2>1, <2>2
<1>6. ASSUME NEW x \in o .. Len(s) - 1 PROVE (a \o b)[x] = s[x + 1]
  <2>1. x - o + 1 \in 1 .. Len(s) - o /\ o - 1 + (x - o + 1) = x /\ o + (x - o + 1) = x + 1
    BY <1>1
  <2>2. (a \o b)[o - 1 + (x - o + 1)] = b[x - o + 1] /\ b[x - o + 1] = s[o + (x - o + 1)]
    BY <1>3, <1>5, <2>1
  <2>3. QED
    BY <2>1, <2>2
<1>7. DOMAIN (a \o b) = 1 .. Len(s) - 1
  BY <1>5, AsSeq
<1>8. QED
  BY <1>2, <1>4, <1>5, <1>6, <1>7

LEMMA NoMessages ==
  ASSUME NEW t
  PROVE  Carries(<< >>, t, << >>)
<1>1. Sequential(<< >>) /\ Len(<< >>) = 0 /\ DOMAIN << >> = {}
  <2>1. Len(<< >>) = 0 /\ << >> = [k \in 1 .. 0 |-> << >>[k]]
    OBVIOUS
  <2>2. QED
    BY <2>1 DEF Sequential
<1>2. Picks(<< >>, << >>, t, << >>)
  BY <1>1 DEF Picks
<1>3. QED
  BY <1>1, <1>2 DEF Carries

LEMMA MessageAdded ==
  ASSUME NEW s, Sequential(s), NEW t, NEW w, NEW buf, Carries(s, t, buf)
  PROVE  Carries(Append(s, Message(t, w)), t, Append(buf, w))
<1> DEFINE r == Append(s, Message(t, w))
           n == Len(s)
           c == Append(buf, w)
           l == Len(buf)
<1>1. PICK f : Picks(f, s, t, buf)
  BY DEF Carries
<1>2. /\ n \in Nat /\ DOMAIN s = 1 .. n /\ DOMAIN r = 1 .. n + 1
      /\ \A k \in 1 .. n : r[k] = s[k]
      /\ r[n + 1] = Message(t, w)
  BY AsSeq, Appended
<1>3. /\ l \in Nat /\ Sequential(c) /\ Len(c) = l + 1
      /\ \A k \in 1 .. l : c[k] = buf[k]
      /\ c[l + 1] = w
  BY Appended DEF Carries, Sequential
<1>4. r[n + 1].tag = t /\ r[n + 1].what = w
  BY <1>2 DEF Message
<1>5. /\ \A j \in 1 .. l : f[j] \in 1 .. n
      /\ \A j, k \in 1 .. l : j < k => f[j] < f[k]
      /\ \A x \in 1 .. n : s[x].tag = t <=> \E j \in 1 .. l : f[j] = x
      /\ \A j \in 1 .. l : buf[j] = s[f[j]].what
  BY <1>1, <1>2 DEF Picks
<1> HIDE DEF r, n, c, l
<1> DEFINE g == [j \in 1 .. l + 1 |-> IF j = l + 1 THEN n + 1 ELSE f[j]]
<1>6. g \in [1 .. l + 1 -> 1 .. n + 1] /\ g[l + 1] = n + 1
      /\ \A j \in 1 .. l : g[j] = f[j]
  BY <1>2, <1>3, <1>5
<1> HIDE DEF g
<1>7. ASSUME NEW j \in 1 .. l + 1, NEW k \in 1 .. l + 1, j < k PROVE g[j] < g[k]
  <2>1. j \in 1 .. l
    BY <1>3, <1>7
  <2>2. CASE k = l + 1
    BY <1>2, <1>5, <1>6, <2>1, <2>2
  <2>3. CASE k # l + 1
    <3>1. k \in 1 .. l
      BY <1>3, <2>3
    <3>2. QED
      BY <1>5, <1>6, <1>7, <2>1, <3>1
  <2>4. QED
    BY <2>2, <2>3
<1>8. ASSUME NEW x \in 1 .. n + 1
      PROVE  r[x].tag = t <=> \E j \in 1 .. l + 1 : g[j] = x
  <2>1. CASE x = n + 1
    <3>1. l + 1 \in 1 .. l + 1
      BY <1>3
    <3>2. QED
      BY <1>4, <1>6, <2>1, <3>1
  <2>2. CASE x # n + 1
    <3>1. x \in 1 .. n /\ r[x] = s[x]
      BY <1>2, <2>2
    <3>2. (\E j \in 1 .. l : f[j] = x) <=> \E j \in 1 .. l + 1 : g[j] = x
      <4>1. ASSUME NEW j \in 1 .. l, f[j] = x PROVE \E k \in 1 .. l + 1 : g[k] = x
        <5>1. j \in 1 .. l + 1 /\ g[j] = x
          BY <1>3, <1>6, <4>1
        <5>2. QED
          BY <5>1
      <4>2. ASSUME NEW k \in 1 .. l + 1, g[k] = x PROVE \E j \in 1 .. l : f[j] = x
        <5>1. k # l + 1
          BY <1>6, <2>2, <4>2
        <5>2. k \in 1 .. l
          BY <1>3, <5>1
        <5>3. QED
          BY <1>6, <4>2, <5>2
      <4>3. QED
        BY <4>1, <4>2
    <3>3. QED
      BY <1>5, <3>1, <3>2
  <2>3. QED
    BY <2>1, <2>2
<1>9. ASSUME NEW j \in 1 .. l + 1 PROVE c[j] = r[g[j]].what
  <2>1. CASE j = l + 1
    BY <1>3, <1>4, <1>6, <2>1
  <2>2. CASE j # l + 1
    <3>1. j \in 1 .. l
      BY <1>3, <2>2
    <3>2. QED
      BY <1>2, <1>3, <1>5, <1>6, <3>1
  <2>3. QED
    BY <2>1, <2>2
<1>10. Picks(g, r, t, c)
  BY <1>2, <1>3, <1>6, <1>7, <1>8, <1>9 DEF Picks
<1>11. QED
  BY <1>3, <1>10 DEF Carries, r, c

LEMMA OtherAdded ==
  ASSUME NEW s, Sequential(s), NEW t, NEW buf, Carries(s, t, buf),
         NEW u, u # t, NEW w
  PROVE  Carries(Append(s, Message(u, w)), t, buf)
<1> DEFINE r == Append(s, Message(u, w))
           n == Len(s)
           l == Len(buf)
<1>1. PICK f : Picks(f, s, t, buf)
  BY DEF Carries
<1>2. /\ n \in Nat /\ DOMAIN s = 1 .. n /\ DOMAIN r = 1 .. n + 1
      /\ \A k \in 1 .. n : r[k] = s[k]
      /\ r[n + 1] = Message(u, w)
  BY AsSeq, Appended
<1>3. r[n + 1].tag = u
  BY <1>2 DEF Message
<1>4. /\ f \in [1 .. l -> 1 .. n]
      /\ \A j, k \in 1 .. l : j < k => f[j] < f[k]
      /\ \A x \in 1 .. n : s[x].tag = t <=> \E j \in 1 .. l : f[j] = x
      /\ \A j \in 1 .. l : buf[j] = s[f[j]].what
  BY <1>1, <1>2 DEF Picks
<1> HIDE DEF r, n
<1>5. f \in [1 .. l -> 1 .. n + 1] /\ \A j \in 1 .. l : f[j] \in 1 .. n
  BY <1>2, <1>4
<1>6. ASSUME NEW x \in 1 .. n + 1
      PROVE  r[x].tag = t <=> \E j \in 1 .. l : f[j] = x
  <2>1. CASE x = n + 1
    <3>1. ~ \E j \in 1 .. l : f[j] = x
      BY <1>2, <1>5, <2>1
    <3>2. QED
      BY <1>3, <2>1, <3>1
  <2>2. CASE x # n + 1
    <3>1. x \in 1 .. n /\ r[x] = s[x]
      BY <1>2, <2>2
    <3>2. QED
      BY <1>4, <3>1
  <2>3. QED
    BY <2>1, <2>2
<1>7. \A j \in 1 .. l : buf[j] = r[f[j]].what
  BY <1>2, <1>4, <1>5
<1>8. Picks(f, r, t, buf)
  BY <1>2, <1>4, <1>5, <1>6, <1>7 DEF Picks
<1>9. QED
  BY <1>8 DEF Carries, r

(* The oldest message of a tag.                                            *)
OldestOf(s, t) == SelectInSeq(s, LAMBDA m : m.tag = t)

LEMMA OldestIs ==
  ASSUME NEW s, Sequential(s), NEW t, NEW buf, NEW f, Picks(f, s, t, buf),
         Len(buf) \in Nat
  PROVE  /\ Len(buf) = 0 => OldestOf(s, t) = 0
         /\ Len(buf) > 0 => /\ OldestOf(s, t) = f[1] /\ f[1] \in 1 .. Len(s)
                            /\ f[1] # 0 /\ s[f[1]].what = buf[1]
<1> DEFINE I == {i \in 1 .. Len(s) : s[i].tag = t}
           l == Len(buf)
<1>1. DOMAIN s = 1 .. Len(s) /\ Len(s) \in Nat
  BY AsSeq
<1>2. OldestOf(s, t) = IF I # {} THEN Min(I) ELSE 0
  BY DEF OldestOf, SelectInSeq
<1>3. /\ f \in [1 .. l -> 1 .. Len(s)]
      /\ \A j, k \in 1 .. l : j < k => f[j] < f[k]
      /\ \A x \in 1 .. Len(s) : s[x].tag = t <=> \E j \in 1 .. l : f[j] = x
      /\ \A j \in 1 .. l : buf[j] = s[f[j]].what
  BY <1>1 DEF Picks
<1>4. ASSUME l = 0 PROVE OldestOf(s, t) = 0
  <2>1. 1 .. l = {}
    BY <1>4
  <2>2. I = {}
    BY <1>3, <2>1
  <2>3. QED
    BY <1>2, <2>2
<1>5. ASSUME l > 0
      PROVE  OldestOf(s, t) = f[1] /\ f[1] \in 1 .. Len(s) /\ s[f[1]].what = buf[1]
  <2>1. 1 \in 1 .. l
    BY <1>5
  <2>2. f[1] \in 1 .. Len(s) /\ f[1] \in I
    BY <1>3, <2>1
  <2>3. \A x \in I : f[1] <= x
    <3> TAKE x \in I
    <3>1. PICK j \in 1 .. l : f[j] = x
      BY <1>3
    <3>2. CASE j = 1
      BY <1>1, <2>2, <3>1, <3>2
    <3>3. CASE j # 1
      <4>1. 1 < j
        BY <3>3
      <4>2. f[1] < f[j]
        BY <1>3, <2>1, <4>1
      <4>3. QED
        BY <2>2, <3>1, <4>2
    <3>4. QED
      BY <3>2, <3>3
  <2>4. \A x \in I : x \in Int
    OBVIOUS
  <2> HIDE DEF I
  <2>5. Min(I) = f[1]
    <3>1. \A x \in I : (\A y \in I : x <= y) => x = f[1]
      BY <2>2, <2>3, <2>4
    <3>2. Min(I) \in I /\ \A y \in I : Min(I) <= y
      BY <2>2, <2>3 DEF Min
    <3>3. QED
      BY <3>1, <3>2
  <2>6. QED
    BY <1>2, <1>3, <2>1, <2>2, <2>5
<1>6. QED
  BY <1>1, <1>4, <1>5

Rest(buf) == [j \in 1 .. Len(buf) - 1 |-> buf[j + 1]]

LEMMA MessageTaken ==
  ASSUME NEW s, Sequential(s), NEW t, NEW buf, Carries(s, t, buf), Len(buf) > 0
  PROVE  /\ Sequential(Rest(buf)) /\ Len(Rest(buf)) = Len(buf) - 1
         /\ Carries(RemoveAt(s, OldestOf(s, t)), t, Rest(buf))
<1> DEFINE o == OldestOf(s, t)
           r == RemoveAt(s, o)
           n == Len(s)
           c == Rest(buf)
           l == Len(buf)
<1>1. PICK f : Picks(f, s, t, buf)
  BY DEF Carries
<1>2. n \in Nat /\ DOMAIN s = 1 .. n /\ l \in Nat /\ l > 0
  BY AsSeq DEF Carries, Sequential
<1>3. o = f[1] /\ o \in 1 .. n
  BY <1>1, <1>2, OldestIs
<1> HIDE DEF o
<1>4. /\ DOMAIN r = 1 .. n - 1
      /\ \A x \in 1 .. o - 1 : r[x] = s[x]
      /\ \A x \in o .. n - 1 : r[x] = s[x + 1]
  BY <1>3, Removed
<1>5. Sequential(c) /\ Len(c) = l - 1
  <2>1. l - 1 \in Nat
    BY <1>2
  <2>2. c = [j \in 1 .. l - 1 |-> c[j]]
    BY DEF Rest
  <2> HIDE DEF c, l
  <2>3. QED
    BY <2>1, <2>2, Sequentials
<1>6. \A j \in 1 .. l - 1 : c[j] = buf[j + 1]
  BY DEF Rest
<1>7. /\ f \in [1 .. l -> 1 .. n]
      /\ \A j, k \in 1 .. l : j < k => f[j] < f[k]
      /\ \A x \in 1 .. n : s[x].tag = t <=> \E j \in 1 .. l : f[j] = x
      /\ \A j \in 1 .. l : buf[j] = s[f[j]].what
  BY <1>1, <1>2 DEF Picks
<1> HIDE DEF r, n, c, l
<1> DEFINE g == [j \in 1 .. l - 1 |-> f[j + 1] - 1]
<1>8. ASSUME NEW j \in 1 .. l - 1
      PROVE  /\ j + 1 \in 1 .. l /\ f[j + 1] \in 1 .. n /\ o < f[j + 1]
             /\ g[j] = f[j + 1] - 1 /\ g[j] \in o .. n - 1 /\ g[j] \in 1 .. n - 1
  <2>1. j + 1 \in 1 .. l /\ 1 \in 1 .. l /\ 1 < j + 1
    BY <1>2
  <2>2. f[j + 1] \in 1 .. n /\ f[1] < f[j + 1]
    BY <1>7, <2>1
  <2>3. QED
    BY <1>2, <1>3, <2>1, <2>2
<1>9. g \in [1 .. l - 1 -> 1 .. n - 1]
  BY <1>8
<1> HIDE DEF g
<1>10. ASSUME NEW j \in 1 .. l - 1, NEW k \in 1 .. l - 1, j < k PROVE g[j] < g[k]
  <2>1. j + 1 < k + 1
    BY <1>10
  <2>2. f[j + 1] < f[k + 1]
    BY <1>7, <1>8, <2>1
  <2>3. QED
    BY <1>8, <2>2
<1>11. ASSUME NEW x \in 1 .. n - 1
       PROVE  r[x].tag = t <=> \E j \in 1 .. l - 1 : g[j] = x
  <2>1. ASSUME NEW j \in 1 .. l - 1, g[j] = x PROVE r[x].tag = t
    <3>1. x \in o .. n - 1 /\ f[j + 1] = x + 1
      BY <1>8, <2>1
    <3>2. r[x] = s[x + 1] /\ x + 1 \in 1 .. n
      BY <1>2, <1>4, <3>1
    <3>3. QED
      BY <1>7, <1>8, <3>1, <3>2
  <2>2. ASSUME r[x].tag = t PROVE \E j \in 1 .. l - 1 : g[j] = x
    <3>1. CASE x < o
      <4>1. x \in 1 .. o - 1 /\ x \in 1 .. n
        BY <1>2, <1>3, <3>1
      <4>2. s[x].tag = t
        BY <1>4, <2>2, <4>1
      <4>3. PICK j \in 1 .. l : f[j] = x
        BY <1>7, <4>1, <4>2
      <4>4. j = 1 \/ 1 < j
        OBVIOUS
      <4>5. o <= f[j]
        BY <1>2, <1>3, <1>7, <4>4
      <4>6. QED
        BY <1>3, <3>1, <4>3, <4>5
    <3>2. CASE x >= o
      <4>1. x \in o .. n - 1 /\ x + 1 \in 1 .. n
        BY <1>2, <1>3, <3>2
      <4>2. s[x + 1].tag = t
        BY <1>4, <2>2, <4>1
      <4>3. PICK j \in 1 .. l : f[j] = x + 1
        BY <1>7, <4>1, <4>2
      <4>4. j # 1
        BY <1>3, <3>2, <4>3
      <4>5. j - 1 \in 1 .. l - 1 /\ (j - 1) + 1 = j
        BY <1>2, <4>4
      <4>6. g[j - 1] = x
        BY <1>8, <4>3, <4>5
      <4>7. QED
        BY <4>5, <4>6
    <3>3. QED
      BY <1>3, <3>1, <3>2
  <2>3. QED
    BY <2>1, <2>2
<1>12. ASSUME NEW j \in 1 .. l - 1 PROVE c[j] = r[g[j]].what
  <2>1. g[j] + 1 = f[j + 1]
    BY <1>8
  <2>2. r[g[j]] = s[f[j + 1]]
    BY <1>4, <1>8, <2>1
  <2>3. QED
    BY <1>6, <1>7, <1>8, <2>2
<1>13. Picks(g, r, t, c)
  BY <1>4, <1>5, <1>9, <1>10, <1>11, <1>12 DEF Picks
<1>14. QED
  BY <1>5, <1>13 DEF Carries, r, c, o, l

LEMMA OtherTaken ==
  ASSUME NEW s, Sequential(s), NEW t, NEW buf, Carries(s, t, buf),
         NEW u, u # t, NEW o \in 1 .. Len(s), s[o].tag = u
  PROVE  Carries(RemoveAt(s, o), t, buf)
<1> DEFINE r == RemoveAt(s, o)
           n == Len(s)
           l == Len(buf)
<1>1. PICK f : Picks(f, s, t, buf)
  BY DEF Carries
<1>2. n \in Nat /\ DOMAIN s = 1 .. n /\ l \in Nat /\ o \in 1 .. n
  BY AsSeq DEF Carries, Sequential
<1>3. /\ DOMAIN r = 1 .. n - 1
      /\ \A x \in 1 .. o - 1 : r[x] = s[x]
      /\ \A x \in o .. n - 1 : r[x] = s[x + 1]
  BY Removed
<1>4. /\ f \in [1 .. l -> 1 .. n]
      /\ \A j, k \in 1 .. l : j < k => f[j] < f[k]
      /\ \A x \in 1 .. n : s[x].tag = t <=> \E j \in 1 .. l : f[j] = x
      /\ \A j \in 1 .. l : buf[j] = s[f[j]].what
  BY <1>1, <1>2 DEF Picks
<1> HIDE DEF r, n, l
<1> DEFINE g == [j \in 1 .. l |-> IF f[j] < o THEN f[j] ELSE f[j] - 1]
<1>5. ASSUME NEW j \in 1 .. l
      PROVE  /\ f[j] \in 1 .. n /\ f[j] # o
             /\ f[j] < o => g[j] = f[j] /\ g[j] \in 1 .. o - 1
             /\ f[j] > o => g[j] = f[j] - 1 /\ g[j] \in o .. n - 1
             /\ g[j] \in 1 .. n - 1
  <2>1. f[j] \in 1 .. n
    BY <1>4
  <2>2. s[f[j]].tag = t
    BY <1>4, <2>1
  <2>3. QED
    BY <1>2, <2>1, <2>2
<1>6. g \in [1 .. l -> 1 .. n - 1]
  BY <1>5
<1> HIDE DEF g
<1>7. ASSUME NEW j \in 1 .. l, NEW k \in 1 .. l, j < k PROVE g[j] < g[k]
  <2> DEFINE a == f[j]
             b == f[k]
             c == g[j]
             d == g[k]
  <2>1. a < b
    BY <1>4, <1>7
  <2>2. /\ a \in Nat /\ a # o /\ (a < o => c = a) /\ (a > o => c = a - 1)
        /\ b \in Nat /\ b # o /\ (b < o => d = b) /\ (b > o => d = b - 1)
    BY <1>5
  <2> HIDE DEF a, b, c, d
  <2>3. c < d
    BY <1>2, <2>1, <2>2
  <2>4. QED
    BY <2>3 DEF c, d
<1>8. ASSUME NEW j \in 1 .. l PROVE r[g[j]] = s[f[j]]
  <2>1. CASE f[j] < o
    BY <1>3, <1>5, <2>1
  <2>2. CASE f[j] > o
    <3>1. g[j] + 1 = f[j]
      BY <1>5, <2>2
    <3>2. QED
      BY <1>3, <1>5, <2>2, <3>1
  <2>3. QED
    BY <1>2, <1>5, <2>1, <2>2
<1>9. ASSUME NEW x \in 1 .. n - 1
      PROVE  r[x].tag = t <=> \E j \in 1 .. l : g[j] = x
  <2>1. ASSUME NEW j \in 1 .. l, g[j] = x PROVE r[x].tag = t
    BY <1>4, <1>5, <1>8, <2>1
  <2>2. ASSUME r[x].tag = t PROVE \E j \in 1 .. l : g[j] = x
    <3>1. CASE x < o
      <4>1. x \in 1 .. o - 1 /\ x \in 1 .. n
        BY <1>2, <3>1
      <4>2. s[x].tag = t
        BY <1>3, <2>2, <4>1
      <4>3. PICK j \in 1 .. l : f[j] = x
        BY <1>4, <4>1, <4>2
      <4>4. QED
        BY <1>5, <3>1, <4>3
    <3>2. CASE x >= o
      <4>1. x \in o .. n - 1 /\ x + 1 \in 1 .. n
        BY <1>2, <3>2
      <4>2. s[x + 1].tag = t
        BY <1>3, <2>2, <4>1
      <4>3. PICK j \in 1 .. l : f[j] = x + 1
        BY <1>4, <4>1, <4>2
      <4>4. f[j] > o
        BY <1>2, <3>2, <4>3
      <4>5. g[j] = x
        BY <1>5, <4>3, <4>4
      <4>6. QED
        BY <4>5
    <3>3. QED
      BY <1>2, <3>1, <3>2
  <2>3. QED
    BY <2>1, <2>2
<1>10. \A j \in 1 .. l : buf[j] = r[g[j]].what
  BY <1>4, <1>8
<1>11. Picks(g, r, t, buf)
  BY <1>3, <1>6, <1>7, <1>9, <1>10 DEF Picks, l
<1>12. QED
  BY <1>11 DEF Carries, r
-----------------------------------------------------------------------------
(* How many messages a call has, and how many are done.                    *)
LEMMA NBNat ==
  ASSUME NEW call, NEW n \in Nat
  PROVE  NB(call, n) \in Nat
<1> DEFINE B == BlockSize
<1>1. B \in Nat \ {0}
  BY BlockSizeAssumption
<1>2. Sequential(<< >>) /\ \A x : Sequential(<<x>>)
  <2>1. Sequential(<< >>)
    BY NoMessages DEF Carries
  <2>2. ASSUME NEW x PROVE Sequential(<<x>>)
    <3>1. <<x>> = [k \in 1 .. 1 |-> <<x>>[k]] /\ Len(<<x>>) = 1
      OBVIOUS
    <3>2. QED
      BY <3>1 DEF Sequential
  <2>3. QED
    BY <2>1, <2>2
<1>3. \A s : Sequential(s) => Len(s) \in Nat
  BY DEF Sequential
<1>4. CASE call.op = "hdf5_dist"
  <2> DEFINE full == IF n < 2 * B THEN 0 ELSE n \div B - 1
             left == n - full * B
             s == [i \in 1 .. full |-> <<(i - 1) * B, B>>]
             t == IF left = 0 THEN << >> ELSE <<<<full * B, left>>>>
  <2>1. full \in Nat
    <3>1. n \div B \in Nat /\ n = B * (n \div B) + (n % B) /\ n % B \in 0 .. B - 1
      BY <1>1, DivMod
    <3>2. ASSUME n >= 2 * B PROVE n \div B >= 1
      <4>1. n \div B = 0 => n < B
        BY <1>1, <3>1
      <4>2. QED
        BY <1>1, <3>1, <3>2, <4>1
    <3>3. n \in Int /\ 2 * B \in Int
      BY <1>1
    <3>4. QED
      BY <3>1, <3>2, <3>3
  <2>2. BlocksOf(call, n) = s \o t
    BY <1>4 DEF BlocksOf, HDF5Blocks
  <2>3. s = [i \in 1 .. full |-> s[i]]
    OBVIOUS
  <2>4. Sequential(t)
    BY <1>2
  <2> HIDE DEF s, t, full
  <2>5. Sequential(s)
    BY <2>1, <2>3, Sequentials
  <2>6. Joins(s \o t, s, t)
    BY <2>4, <2>5, Joined
  <2>7. QED
    BY <1>3, <2>2, <2>6 DEF Joins, NB
<1>5. CASE call.op # "hdf5_dist"
  <2> DEFINE full == n \div B
             s == [i \in 1 .. full |-> <<(i - 1) * B, B>>]
             t == IF n % B = 0 THEN << >> ELSE <<<<full * B, n % B>>>>
  <2>1. full \in Nat
    BY <1>1, DivMod
  <2>2. BlocksOf(call, n) = s \o t
    BY <1>5 DEF BlocksOf, Blocks
  <2>3. s = [i \in 1 .. full |-> s[i]]
    OBVIOUS
  <2>4. Sequential(t)
    BY <1>2
  <2> HIDE DEF s, t, full
  <2>5. Sequential(s)
    BY <2>1, <2>3, Sequentials
  <2>6. Joins(s \o t, s, t)
    BY <2>4, <2>5, Joined
  <2>7. QED
    BY <1>3, <2>2, <2>6 DEF Joins, NB
<1>6. QED
  BY <1>4, <1>5

LEMMA Bits == \A b : Bit(b) \in 0 .. 1 /\ (b => Bit(b) = 1) /\ (Bit(b) = 1 \/ Bit(b) = 0)
BY DEF Bit

LEMMA LoadNat ==
  ASSUME NEW np \in Nat \ {0}, NEW kind \in Kinds, NEW q, NEW call, NEW n \in Nat
  PROVE  Load(np, kind, q, call, n) \in Nat
<1>1. NB(call, n) \in Nat /\ Lead(call) \in Nat
  BY NBNat DEF Lead, Bit
<1>2. \A b : Bit(b) \in Nat
  BY DEF Bit
<1>3. QED
  BY <1>1, <1>2 DEF Load

LEMMA Clipped ==
  ASSUME NEW k \in Nat, NEW q \in Nat \ {0}
  PROVE  Clip(k, q) \in 0 .. 3
BY DEF Clip

LEMMA PartBound ==
  ASSUME NEW np \in Nat \ {0}, NEW kind \in Kinds, NEW q \in 1 .. np - 1,
         NEW p \in {0, q}, NEW call, NEW n \in Nat, NEW m,
         m.pc = "idle" \/ InCall(np, call, p, m, n)
  PROVE  Part(np, kind, q, p, call, n, m) \in 0 .. Load(np, kind, q, call, n)
<1> DEFINE part == Part(np, kind, q, p, call, n, m)
           load == Load(np, kind, q, call, n)
           nb == NB(call, n)
<1>1. load \in Nat /\ nb \in Nat /\ Lead(call) \in 0 .. 1
  BY LoadNat, NBNat DEF Lead, Bit
<1>2. CASE m.pc \in {"idle", "broadcast", "leave"}
  BY <1>1, <1>2 DEF Part
<1>3. CASE m.pc = "blocks"
  <2>1. InBlock1(call, p, m, n)
    BY <1>3 DEF InCall
  <2>2. /\ call.op \in Scatters /\ m.i \in 1 .. nb + 1
        /\ call.op \notin Shared /\ call.op # "write_hdf5"
    BY <2>1 DEF InBlock1, Scatters, InBlocks, Shared
  <2>3. part = IF kind[1] = "down" /\ kind[2] = Collective THEN Lead(call) + m.i - 1
               ELSE IF kind[1] = "down" /\ kind[2] = 0 /\ call.op = "vc_star"
               THEN 3 * (m.i - 1) + IF p # 0 THEN m.k ELSE 0
               ELSE 0
    BY <1>3 DEF Part, Bit
  <2>4. /\ kind[1] = "down" /\ kind[2] = Collective => load = Lead(call) + nb
        /\ kind[1] = "down" /\ kind[2] = 0 /\ call.op = "vc_star" => load = 3 * nb
    BY <2>2 DEF Load, Collective
  <2>5. call.op = "vc_star" /\ p # 0 => m.k \in 0 .. 3 /\ (m.k > 0 => m.i <= nb)
    BY <2>1 DEF InBlock1
  <2> HIDE DEF part, load, nb
  <2>6. QED
    BY <1>1, <2>2, <2>3, <2>4, <2>5 DEF part, load
<1>4. CASE m.pc = "lists"
  <2>1. call.op = "vc_star" /\ p = 0 /\ m.i \in 1 .. nb /\ m.k \in Nat
    BY <1>4 DEF InCall, InLists
  <2>2. call.op \in Scatters /\ call.op \notin Shared /\ call.op # "write_hdf5"
    BY <2>1 DEF Scatters, InBlocks, Shared
  <2>3. part = IF kind[1] = "down" /\ kind[2] = Collective THEN Lead(call) + m.i - 1
               ELSE IF kind[1] = "down" /\ kind[2] = 0
               THEN 3 * (m.i - 1) + Clip(m.k, q)
               ELSE 0
    BY <1>4, <2>1 DEF Part, Bit
  <2>4. /\ kind[1] = "down" /\ kind[2] = Collective => load = Lead(call) + nb
        /\ kind[1] = "down" /\ kind[2] = 0 => load = 3 * nb
    BY <2>1, <2>2 DEF Load, Collective
  <2>5. Clip(m.k, q) \in 0 .. 3
    BY <2>1, Clipped
  <2> HIDE DEF part, load, nb
  <2>6. QED
    BY <1>1, <2>1, <2>3, <2>4, <2>5 DEF part, load
<1>5. CASE m.pc \in {"ready", "shares"}
  <2>1. call.op \in Shared /\ call.op \notin Scatters
    BY <1>5 DEF InCall, InShares, Shared, Scatters, InBlocks
  <2>2. part = IF kind[1] = "down" /\ kind[2] = Collective THEN 1
               ELSE IF kind[1] = "down" /\ kind[2] # 0
               THEN Bit(m.pc = "shares" /\ Handled(q, p, m, kind[2])) ELSE 0
    BY <1>5, <2>1 DEF Part, Bit, Shared
  <2>3. /\ kind[1] = "down" /\ kind[2] = Collective => load = 1
        /\ kind[1] = "down" /\ kind[2] # 0 /\ kind[2] # Collective =>
             load = Bit(Alloc(np, n, q) > 0)
    BY <2>1 DEF Load, Bit
  <2>4. kind[2] \in 1 .. 7 /\ m.pc = "shares" /\ Handled(q, p, m, kind[2]) =>
          Alloc(np, n, q) > 0
    <3>1. ASSUME kind[2] \in 1 .. 7, m.pc = "shares", Handled(q, p, m, kind[2])
          PROVE  Alloc(np, n, q) > 0
      <4>1. InShares(np, call, p, m, n)
        BY <3>1 DEF InCall
      <4>2. CASE p = 0
        <5>1. /\ m.i \in 0 .. np /\ m.k \in 0 .. 6
              /\ m.k > 0 => m.i \in 1 .. np - 1 /\ Alloc(np, n, m.i) > 0
              /\ \A r \in 1 .. m.i - 1 : Alloc(np, n, r) > 0
          BY <4>1, <4>2 DEF InShares
        <5>2. q < m.i \/ (q = m.i /\ kind[2] <= m.k)
          BY <3>1, <4>2 DEF Handled
        <5>3. CASE q < m.i
          BY <5>1, <5>3
        <5>4. CASE q = m.i /\ kind[2] <= m.k
          BY <3>1, <5>1, <5>4
        <5>5. QED
          BY <5>2, <5>3, <5>4
      <4>3. CASE p # 0
        <5>1. m.k \in 0 .. 7 /\ (m.k > 0 => Alloc(np, n, q) > 0)
          BY <4>1, <4>3 DEF InShares
        <5>2. kind[2] <= m.k
          BY <3>1, <4>3 DEF Handled
        <5>3. QED
          BY <3>1, <5>1, <5>2
      <4>4. QED
        BY <4>2, <4>3
    <3>2. QED
      BY <3>1
  <2>5. kind[2] \in {Collective} \cup 0 .. 7
    BY DEF Kinds, Tags
  <2>6. kind[2] # Collective /\ kind[2] # 0 => kind[2] \in 1 .. 7
    BY <2>5
  <2> HIDE DEF part, load, nb
  <2>7. CASE kind[1] = "down" /\ kind[2] # 0 /\ kind[2] # Collective
    BY <2>2, <2>3, <2>4, <2>6, <2>7 DEF part, load, Bit
  <2>8. CASE ~ (kind[1] = "down" /\ kind[2] # 0 /\ kind[2] # Collective)
    BY <1>1, <2>2, <2>3, <2>8 DEF part, load, Collective
  <2>9. QED
    BY <2>7, <2>8
<1>6. CASE m.pc = "collect"
  <2>1. call.op = "write_hdf5"
    BY <1>6 DEF InCall, InCollect
  <2>2. call.op \notin Scatters /\ call.op \notin Shared /\ call.op # "vc_star"
    BY <2>1 DEF Scatters, InBlocks, Shared
  <2>3. part = IF kind[1] = "down" THEN 0
               ELSE IF kind[2] = Collective THEN Bit(p = 0 => m.i >= 1)
               ELSE Bit(kind[2] \in 1 .. 3 /\ Handled(q, p, m, kind[2]))
    BY <1>6, <2>2 DEF Part, Bit
  <2>4. /\ kind[1] # "down" /\ kind[2] = Collective => load = 1
        /\ kind[1] # "down" /\ kind[2] # Collective => load = Bit(kind[2] \in 1 .. 3)
    BY <2>1 DEF Load, Bit
  <2> HIDE DEF part, load, nb
  <2>5. QED
    BY <1>1, <2>3, <2>4 DEF part, load, Bit
<1>7. CASE m.pc = "gather"
  <2>1. part = 0
    BY <1>7 DEF Part, Bit
  <2> HIDE DEF part, load, nb
  <2>2. QED
    BY <1>1, <2>1 DEF part, load
<1>8. QED
  BY <1>2, <1>3, <1>4, <1>5, <1>6, <1>7 DEF InCall
-----------------------------------------------------------------------------
(* How many messages of a line a process has sent or received altogether.  *)
LEMMA Summation ==
  ASSUME NEW np, NEW ss, NEW sz, Settings(np, ss, sz), NEW kind \in Kinds, NEW q
  PROVE  /\ Loads(np, ss, sz, kind, q) \in [1 .. Len(ss) -> Nat]
         /\ Sums(Len(ss), Loads(np, ss, sz, kind, q), Before(np, ss, sz, kind, q))
<1>1. \A c \in 1 .. Len(ss) : Load(np, kind, q, ss[c], sz[c]) \in Nat
  <2> TAKE c \in 1 .. Len(ss)
  <2>1. sz[c] \in Nat /\ np \in Nat \ {0}
    BY DEF Settings
  <2>2. QED
    BY <2>1, LoadNat
<1>2. Loads(np, ss, sz, kind, q) \in [1 .. Len(ss) -> Nat]
  BY <1>1 DEF Loads
<1>3. QED
  BY <1>2, AccSums DEF Before, Settings

LEMMA BeforeNext ==
  ASSUME NEW np, NEW ss, NEW sz, Settings(np, ss, sz), NEW kind \in Kinds, NEW q,
         NEW c \in 1 .. Len(ss)
  PROVE  /\ Before(np, ss, sz, kind, q)[c] \in Nat
         /\ Before(np, ss, sz, kind, q)[c + 1] \in Nat
         /\ Load(np, kind, q, ss[c], sz[c]) \in Nat
         /\ Before(np, ss, sz, kind, q)[c + 1] =
              Before(np, ss, sz, kind, q)[c] + Load(np, kind, q, ss[c], sz[c])
<1> DEFINE a == Before(np, ss, sz, kind, q)
           h == Loads(np, ss, sz, kind, q)
<1>1. Sums(Len(ss), h, a) /\ h \in [1 .. Len(ss) -> Nat]
  BY Summation
<1>2. h[c] = Load(np, kind, q, ss[c], sz[c]) /\ Len(ss) \in Nat
  BY DEF Loads, Settings
<1> HIDE DEF a, h
<1>3. a \in [1 .. Len(ss) + 1 -> Nat] /\ a[c + 1] = a[c] + h[c] /\ h[c] \in Nat
  BY <1>1 DEF Sums
<1>4. c \in 1 .. Len(ss) + 1 /\ c + 1 \in 1 .. Len(ss) + 1
  BY <1>2
<1>5. QED
  BY <1>2, <1>3, <1>4 DEF a

LEMMA BeforeGrows ==
  ASSUME NEW np, NEW ss, NEW sz, Settings(np, ss, sz), NEW kind \in Kinds, NEW q,
         NEW c \in 1 .. Len(ss) + 1, NEW d \in 1 .. Len(ss) + 1
  PROVE  /\ Before(np, ss, sz, kind, q)[c] \in Nat
         /\ c <= d => Before(np, ss, sz, kind, q)[c] <= Before(np, ss, sz, kind, q)[d]
<1> DEFINE a == Before(np, ss, sz, kind, q)
           h == Loads(np, ss, sz, kind, q)
<1>1. Sums(Len(ss), h, a) /\ h \in [1 .. Len(ss) -> Nat] /\ Len(ss) \in Nat
  BY Summation DEF Settings
<1> HIDE DEF a, h
<1>2. a[c] \in Nat
  BY <1>1 DEF Sums
<1>3. c <= d => a[c] <= a[d]
  BY <1>1, SumsGrow
<1>4. QED
  BY <1>2, <1>3 DEF a

LEMMA TotalBetween ==
  ASSUME NEW np, NEW ss, NEW sz, Settings(np, ss, sz), NEW kind \in Kinds,
         NEW q \in 1 .. np - 1, NEW p \in {0, q}, NEW m, MeOK(np, ss, sz, p, m)
  PROVE  /\ m.at \in 1 .. Len(ss) + 1
         /\ Total(np, ss, sz, kind, q, p, m) \in Nat
         /\ Before(np, ss, sz, kind, q)[m.at] \in Nat
         /\ Before(np, ss, sz, kind, q)[m.at] <= Total(np, ss, sz, kind, q, p, m)
         /\ m.pc = "idle" =>
              Total(np, ss, sz, kind, q, p, m) = Before(np, ss, sz, kind, q)[m.at]
         /\ m.at <= Len(ss) =>
              Total(np, ss, sz, kind, q, p, m) <= Before(np, ss, sz, kind, q)[m.at + 1]
<1> DEFINE a == Before(np, ss, sz, kind, q)
           part == Part(np, kind, q, p, ss[m.at], sz[m.at], m)
           load == Load(np, kind, q, ss[m.at], sz[m.at])
<1>1. /\ m.at \in 1 .. Len(ss) + 1 /\ Len(ss) \in Nat /\ np \in Nat \ {0}
      /\ m.pc # "idle" => m.at <= Len(ss) /\ InCall(np, ss[m.at], p, m, sz[m.at])
  BY DEF MeOK, Settings
<1>2. a[m.at] \in Nat
  BY <1>1, BeforeGrows
<1>3. m.pc = "idle" => part = 0
  BY DEF Part
<1>4. m.at <= Len(ss) => /\ part \in 0 .. load
                         /\ a[m.at + 1] = a[m.at] + load /\ load \in Nat
  <2> SUFFICES ASSUME m.at <= Len(ss)
               PROVE  part \in 0 .. load /\ a[m.at + 1] = a[m.at] + load /\ load \in Nat
    OBVIOUS
  <2>1. m.at \in 1 .. Len(ss)
    BY <1>1
  <2>2. sz[m.at] \in Nat
    BY <2>1 DEF Settings
  <2>3. part \in 0 .. load
    BY <1>1, <2>2, PartBound
  <2>4. a[m.at + 1] = a[m.at] + load /\ load \in Nat
    <3> DEFINE c == m.at
    <3>1. c \in 1 .. Len(ss)
      BY <2>1
    <3> HIDE DEF c
    <3>2. /\ Before(np, ss, sz, kind, q)[c + 1] =
               Before(np, ss, sz, kind, q)[c] + Load(np, kind, q, ss[c], sz[c])
          /\ Load(np, kind, q, ss[c], sz[c]) \in Nat
      BY <3>1, BeforeNext
    <3>3. QED
      BY <3>2 DEF c
  <2>5. QED
    BY <2>3, <2>4
<1>5. Total(np, ss, sz, kind, q, p, m) = a[m.at] + part
  BY DEF Total
<1> HIDE DEF a, part, load
<1>6. m.at <= Len(ss) \/ m.pc = "idle"
  BY <1>1
<1>7. part \in Nat
  BY <1>3, <1>4, <1>6
<1> DEFINE t == Total(np, ss, sz, kind, q, p, m)
           x == a[m.at]
           y == a[m.at + 1]
<1>8. x \in Nat /\ t = x + part
  BY <1>2, <1>5
<1>9. m.at <= Len(ss) => part <= load /\ y = x + load /\ load \in Nat
  BY <1>4
<1> HIDE DEF t, x, y
<1>10. /\ t \in Nat /\ x <= t /\ (m.pc = "idle" => t = x)
       /\ m.at <= Len(ss) => t <= y
  BY <1>3, <1>7, <1>8, <1>9
<1>11. QED
  BY <1>1, <1>8, <1>10 DEF a, t, x, y
-----------------------------------------------------------------------------
(* What a message does to a line.                                          *)
LEMMA OldestHas ==
  ASSUME NEW s, NEW t, OldestOf(s, t) # 0, Sequential(s)
  PROVE  OldestOf(s, t) \in 1 .. Len(s) /\ s[OldestOf(s, t)].tag = t
<1> DEFINE I == {i \in 1 .. Len(s) : s[i].tag = t}
<1>1. OldestOf(s, t) = IF I # {} THEN Min(I) ELSE 0
  BY DEF OldestOf, SelectInSeq
<1>2. I \subseteq Nat
  OBVIOUS
<1>3. I # {}
  BY <1>1
<1>4. \E x \in I : \A y \in I : x <= y
  BY <1>2, <1>3, LeastNatural
<1> HIDE DEF I
<1>5. Min(I) \in I
  BY <1>4 DEF Min
<1>6. OldestOf(s, t) \in I
  BY <1>1, <1>3, <1>5
<1>7. QED
  BY <1>6 DEF I

LEMMA LineSent ==
  ASSUME NEW np, NEW ss, NEW sz, NEW kind, NEW q, NEW s, Sequential(s),
         NEW from \in Nat, NEW to \in Nat, LineOK(np, ss, sz, kind, q, s, from, to),
         NEW w, Content(np, ss, sz, kind, q, from + 1, w)
  PROVE  LineOK(np, ss, sz, kind, q, Append(s, Message(kind[2], w)), from + 1, to)
<1>1. PICK buf : /\ Carries(s, kind[2], buf)
                 /\ Len(buf) + to = from
                 /\ \A j \in 1 .. Len(buf) :
                      Content(np, ss, sz, kind, q, to + j, buf[j])
  BY DEF LineOK
<1> DEFINE b == Append(buf, w)
<1>2. Sequential(buf) /\ Len(buf) \in Nat
  BY <1>1 DEF Carries, Sequential
<1>3. Carries(Append(s, Message(kind[2], w)), kind[2], b)
  BY <1>1, MessageAdded
<1>4. /\ Len(b) = Len(buf) + 1 /\ b[Len(buf) + 1] = w
      /\ \A j \in 1 .. Len(buf) : b[j] = buf[j]
  BY <1>2, Appended
<1> HIDE DEF b
<1>5. \A j \in 1 .. Len(b) : Content(np, ss, sz, kind, q, to + j, b[j])
  <2> TAKE j \in 1 .. Len(b)
  <2>1. CASE j = Len(buf) + 1
    <3>1. to + j = from + 1
      BY <1>1, <1>2, <2>1
    <3>2. b[j] = w
      BY <1>4, <2>1
    <3>3. QED
      BY <3>1, <3>2
  <2>2. CASE j # Len(buf) + 1
    <3>1. j \in 1 .. Len(buf)
      BY <1>2, <1>4, <2>2
    <3>2. QED
      BY <1>1, <1>4, <3>1
  <2>3. QED
    BY <2>1, <2>2
<1>6. Len(b) + to = from + 1
  BY <1>1, <1>2, <1>4
<1>7. QED
  BY <1>3, <1>5, <1>6 DEF LineOK

LEMMA LinePassed ==
  ASSUME NEW np, NEW ss, NEW sz, NEW kind, NEW q, NEW s, Sequential(s),
         NEW from, NEW to, LineOK(np, ss, sz, kind, q, s, from, to),
         NEW t, t # kind[2], NEW w
  PROVE  LineOK(np, ss, sz, kind, q, Append(s, Message(t, w)), from, to)
<1>1. PICK buf : /\ Carries(s, kind[2], buf)
                 /\ Len(buf) + to = from
                 /\ \A j \in 1 .. Len(buf) :
                      Content(np, ss, sz, kind, q, to + j, buf[j])
  BY DEF LineOK
<1>2. Carries(Append(s, Message(t, w)), kind[2], buf)
  BY <1>1, OtherAdded
<1>3. QED
  BY <1>1, <1>2 DEF LineOK

LEMMA LineTaken ==
  ASSUME NEW np, NEW ss, NEW sz, NEW kind, NEW q, NEW s, Sequential(s),
         NEW from \in Nat, NEW to \in Nat, LineOK(np, ss, sz, kind, q, s, from, to),
         OldestOf(s, kind[2]) # 0
  PROVE  /\ LineOK(np, ss, sz, kind, q, RemoveAt(s, OldestOf(s, kind[2])), from, to + 1)
         /\ to < from
         /\ Content(np, ss, sz, kind, q, to + 1, s[OldestOf(s, kind[2])].what)
<1>1. PICK buf : /\ Carries(s, kind[2], buf)
                 /\ Len(buf) + to = from
                 /\ \A j \in 1 .. Len(buf) :
                      Content(np, ss, sz, kind, q, to + j, buf[j])
  BY DEF LineOK
<1>2. Sequential(buf) /\ Len(buf) \in Nat
  BY <1>1 DEF Carries, Sequential
<1>3. PICK f : Picks(f, s, kind[2], buf)
  BY <1>1 DEF Carries
<1>4. Len(buf) > 0 /\ s[OldestOf(s, kind[2])].what = buf[1]
  BY <1>2, <1>3, OldestIs
<1> DEFINE b == Rest(buf)
           r == RemoveAt(s, OldestOf(s, kind[2]))
<1>5. Len(b) = Len(buf) - 1 /\ Carries(r, kind[2], b)
  BY <1>1, <1>4, MessageTaken
<1>6. \A j \in 1 .. Len(buf) - 1 : b[j] = buf[j + 1]
  BY DEF Rest
<1> HIDE DEF b, r
<1>7. \A j \in 1 .. Len(b) : Content(np, ss, sz, kind, q, (to + 1) + j, b[j])
  <2> TAKE j \in 1 .. Len(b)
  <2>1. j + 1 \in 1 .. Len(buf) /\ (to + 1) + j = to + (j + 1) /\ b[j] = buf[j + 1]
    BY <1>2, <1>5, <1>6
  <2>2. Content(np, ss, sz, kind, q, to + (j + 1), buf[j + 1])
    BY <1>1, <2>1
  <2>3. QED
    BY <2>1, <2>2
<1>8. Len(b) + (to + 1) = from /\ to < from /\ 1 \in 1 .. Len(buf)
  BY <1>1, <1>2, <1>4, <1>5
<1>9. Content(np, ss, sz, kind, q, to + 1, buf[1])
  BY <1>1, <1>8
<1>10. LineOK(np, ss, sz, kind, q, r, from, to + 1)
  BY <1>5, <1>7, <1>8 DEF LineOK
<1>11. QED
  BY <1>4, <1>8, <1>9, <1>10 DEF r

LEMMA LineSpared ==
  ASSUME NEW np, NEW ss, NEW sz, NEW kind, NEW q, NEW s, Sequential(s),
         NEW from, NEW to, LineOK(np, ss, sz, kind, q, s, from, to),
         NEW t, t # kind[2], OldestOf(s, t) # 0
  PROVE  LineOK(np, ss, sz, kind, q, RemoveAt(s, OldestOf(s, t)), from, to)
<1>1. PICK buf : /\ Carries(s, kind[2], buf)
                 /\ Len(buf) + to = from
                 /\ \A j \in 1 .. Len(buf) :
                      Content(np, ss, sz, kind, q, to + j, buf[j])
  BY DEF LineOK
<1> DEFINE o == OldestOf(s, t)
<1>2. o \in 1 .. Len(s) /\ s[o].tag = t
  BY OldestHas
<1> HIDE DEF o
<1>3. Carries(RemoveAt(s, o), kind[2], buf)
  BY <1>1, <1>2, OtherTaken
<1>4. LineOK(np, ss, sz, kind, q, RemoveAt(s, o), from, to)
  BY <1>1, <1>3 DEF LineOK
<1>5. QED
  BY <1>4 DEF o
-----------------------------------------------------------------------------
(* What a step of a process does to all lines: it sends nothing and takes  *)
(* nothing, sends one message of a tag to each of some processes, or takes *)
(* one from each of them.                                                  *)
Good(np, ss, sz, mes, mls) ==
  /\ Settings(np, ss, sz) /\ MailIs(np, mls) /\ LinesAre(np, ss, sz, mes, mls)
  /\ \A r \in 0 .. np - 1 : MeOK(np, ss, sz, r, mes[r])

Moves(np, p, mes, mes2) == \A r \in (0 .. np - 1) \ {p} : mes2[r] = mes[r]

Adds(np, ss, sz, p, m, m2, L, t) ==
  \A kind \in Kinds, q \in 1 .. np - 1 :
    p \in {0, q} => Total(np, ss, sz, kind, q, p, m2) =
                      Total(np, ss, sz, kind, q, p, m)
                        + Bit(Line(kind, q) \in L /\ kind[2] = t)

Says(np, ss, sz, p, m, pair, t, w) ==
  \A kind \in Kinds, q \in 1 .. np - 1 :
    Line(kind, q) = pair /\ kind[2] = t =>
      Content(np, ss, sz, kind, q, Total(np, ss, sz, kind, q, p, m) + 1, w)

From1(np, p) == {pair \in (0 .. np - 1) \X (0 .. np - 1) :
                   pair[1] = p /\ (pair[1] = 0) # (pair[2] = 0)}
To1(np, p) == {pair \in (0 .. np - 1) \X (0 .. np - 1) :
                 pair[2] = p /\ (pair[1] = 0) # (pair[2] = 0)}

AreSent(np, ss, sz, p, m, L, t, mls, mls2) ==
  /\ DOMAIN mls2 = DOMAIN mls
  /\ \A pair \in DOMAIN mls \ L : mls2[pair] = mls[pair]
  /\ \A pair \in L : \E w : /\ mls2[pair] = Append(mls[pair], Message(t, w))
                            /\ Says(np, ss, sz, p, m, pair, t, w)

AreTaken(L, t, mls, mls2) ==
  /\ DOMAIN mls2 = DOMAIN mls
  /\ \A pair \in DOMAIN mls \ L : mls2[pair] = mls[pair]
  /\ \A pair \in L : /\ OldestOf(mls[pair], t) # 0
                     /\ mls2[pair] = RemoveAt(mls[pair], OldestOf(mls[pair], t))

LEMMA LineFacts ==
  ASSUME NEW np, NEW ss, NEW sz, NEW mes, NEW mls, Good(np, ss, sz, mes, mls),
         NEW kind \in Kinds, NEW q \in 1 .. np - 1
  PROVE  /\ Line(kind, q) \in DOMAIN mls /\ Sequential(mls[Line(kind, q)])
         /\ Total(np, ss, sz, kind, q, 0, mes[0]) \in Nat
         /\ Total(np, ss, sz, kind, q, q, mes[q]) \in Nat
         /\ kind[1] = "down" => Sender(kind, q) = 0 /\ Receiver(kind, q) = q
         /\ kind[1] # "down" => Sender(kind, q) = q /\ Receiver(kind, q) = 0
         /\ Line(kind, q) = <<Sender(kind, q), Receiver(kind, q)>>
         /\ Sender(kind, q) # Receiver(kind, q)
         /\ {Sender(kind, q), Receiver(kind, q)} = {0, q}
         /\ {0, q} \subseteq 0 .. np - 1
<1>1. 0 \in 0 .. np - 1 /\ q \in 0 .. np - 1 /\ q # 0
  BY DEF Good, Settings
<1>2. DOMAIN mls = (0 .. np - 1) \X (0 .. np - 1)
  BY DEF Good, MailIs
<1>3. Line(kind, q) \in DOMAIN mls
  BY <1>1, <1>2 DEF Line
<1>4. Sequential(mls[Line(kind, q)])
  BY <1>3 DEF Good, MailIs
<1>5. MeOK(np, ss, sz, 0, mes[0]) /\ MeOK(np, ss, sz, q, mes[q]) /\ Settings(np, ss, sz)
  BY <1>1 DEF Good
<1>6. /\ Total(np, ss, sz, kind, q, 0, mes[0]) \in Nat
      /\ Total(np, ss, sz, kind, q, q, mes[q]) \in Nat
  BY <1>5, TotalBetween
<1>7. QED
  BY <1>1, <1>3, <1>4, <1>6 DEF Line, Sender, Receiver

(* What becomes of one line.                                               *)
Hit(r, p, pair, L, tag, t) == Bit(r = p /\ pair \in L /\ tag = t)

Counted(np, ss, sz, kind, q, r, mes, mes2, p, L, t) ==
  Total(np, ss, sz, kind, q, r, mes2[r]) =
    Total(np, ss, sz, kind, q, r, mes[r]) + Hit(r, p, Line(kind, q), L, kind[2], t)

LEMMA LineTotals ==
  ASSUME NEW np, NEW ss, NEW sz, NEW mes, NEW mls, Good(np, ss, sz, mes, mls),
         NEW p \in 0 .. np - 1, NEW mes2, Moves(np, p, mes, mes2),
         NEW L, NEW t, Adds(np, ss, sz, p, mes[p], mes2[p], L, t),
         NEW kind \in Kinds, NEW q \in 1 .. np - 1, NEW r \in {0, q}
  PROVE  Counted(np, ss, sz, kind, q, r, mes, mes2, p, L, t)
<1>1. r \in 0 .. np - 1 /\ Total(np, ss, sz, kind, q, r, mes[r]) \in Nat
  BY LineFacts
<1>2. CASE r = p
  <2>1. p \in {0, q}
    BY <1>2
  <2>2. Total(np, ss, sz, kind, q, p, mes2[p]) =
          Total(np, ss, sz, kind, q, p, mes[p])
            + Bit(Line(kind, q) \in L /\ kind[2] = t)
    BY <2>1 DEF Adds
  <2>3. QED
    BY <1>2, <2>2 DEF Hit, Counted
<1>3. CASE r # p
  <2>1. mes2[r] = mes[r]
    BY <1>1, <1>3 DEF Moves
  <2>2. Hit(r, p, Line(kind, q), L, kind[2], t) = 0
    BY <1>3 DEF Bit, Hit
  <2>3. QED
    BY <1>1, <2>1, <2>2 DEF Counted
<1>4. QED
  BY <1>2, <1>3

LEMMA LinesSent ==
  ASSUME NEW np, NEW ss, NEW sz, NEW mes, NEW mls, Good(np, ss, sz, mes, mls),
         NEW p \in 0 .. np - 1, NEW mes2, Moves(np, p, mes, mes2),
         NEW t \in Tags, NEW L \in SUBSET From1(np, p),
         Adds(np, ss, sz, p, mes[p], mes2[p], L, t),
         NEW mls2, AreSent(np, ss, sz, p, mes[p], L, t, mls, mls2)
  PROVE  LinesAre(np, ss, sz, mes2, mls2) /\ MailIs(np, mls2)
<1>1. ASSUME NEW kind \in Kinds, NEW q \in 1 .. np - 1
      PROVE  LineIs(np, ss, sz, kind, q, mes2, mls2)
  <2> DEFINE a == Sender(kind, q)
             b == Receiver(kind, q)
             pair == Line(kind, q)
             from == Total(np, ss, sz, kind, q, a, mes[a])
             to == Total(np, ss, sz, kind, q, b, mes[b])
             from2 == Total(np, ss, sz, kind, q, a, mes2[a])
             to2 == Total(np, ss, sz, kind, q, b, mes2[b])
  <2>1. /\ pair \in DOMAIN mls /\ Sequential(mls[pair]) /\ pair = <<a, b>> /\ a # b
        /\ a \in {0, q} /\ b \in {0, q} /\ from \in Nat /\ to \in Nat
    BY LineFacts
  <2>2. LineOK(np, ss, sz, kind, q, mls[pair], from, to)
    BY DEF Good, LinesAre, LineIs
  <2>3. /\ from2 = from + Hit(a, p, pair, L, kind[2], t)
        /\ to2 = to + Hit(b, p, pair, L, kind[2], t)
    <3>1. /\ Counted(np, ss, sz, kind, q, Sender(kind, q), mes, mes2, p, L, t)
          /\ Counted(np, ss, sz, kind, q, Receiver(kind, q), mes, mes2, p, L, t)
      BY <2>1, LineTotals
    <3>2. QED
      BY <3>1 DEF Counted
  <2>4. pair \in L => a = p
    BY <2>1 DEF From1
  <2>5. LineOK(np, ss, sz, kind, q, mls2[pair], from2, to2) =>
          LineIs(np, ss, sz, kind, q, mes2, mls2)
    BY DEF LineIs
  <2>6. Hit(b, p, pair, L, kind[2], t) = 0
    BY <2>1, <2>4 DEF Bit, Hit
  <2>7. from = Total(np, ss, sz, kind, q, p, mes[p]) \/ a # p
    OBVIOUS
  <2>8. pair = Line(kind, q)
    OBVIOUS
  <2> HIDE DEF a, b, pair, from, to, from2, to2
  <2>9. to2 = to
    BY <2>1, <2>3, <2>6
  <2>10. CASE pair \notin L
    <3>1. mls2[pair] = mls[pair]
      BY <2>1, <2>10 DEF AreSent
    <3>2. from2 = from
      BY <2>1, <2>3, <2>10 DEF Bit, Hit
    <3>3. QED
      BY <2>2, <2>5, <2>9, <3>1, <3>2
  <2>11. CASE pair \in L
    <3>1. PICK w : /\ mls2[pair] = Append(mls[pair], Message(t, w))
                   /\ Says(np, ss, sz, p, mes[p], pair, t, w)
      BY <2>11 DEF AreSent
    <3>2. CASE kind[2] = t
      <4>1. Content(np, ss, sz, kind, q, from + 1, w)
        BY <2>4, <2>7, <2>8, <2>11, <3>1, <3>2 DEF Says
      <4>2. from2 = from + 1
        BY <2>1, <2>3, <2>4, <2>11, <3>2 DEF Bit, Hit
      <4>3. LineOK(np, ss, sz, kind, q, Append(mls[pair], Message(kind[2], w)),
                   from + 1, to)
        BY <2>1, <2>2, <4>1, LineSent
      <4>4. QED
        BY <2>5, <2>9, <3>1, <3>2, <4>2, <4>3
    <3>3. CASE kind[2] # t
      <4>1. from2 = from
        BY <2>1, <2>3, <3>3 DEF Bit, Hit
      <4>2. LineOK(np, ss, sz, kind, q, Append(mls[pair], Message(t, w)), from, to)
        BY <2>1, <2>2, <3>3, LinePassed
      <4>3. QED
        BY <2>5, <2>9, <3>1, <4>1, <4>2
    <3>4. QED
      BY <3>2, <3>3
  <2>12. QED
    BY <2>10, <2>11
<1>2. MailIs(np, mls2)
  <2>1. MailIs(np, mls) /\ DOMAIN mls2 = DOMAIN mls
    BY DEF Good, AreSent
  <2>2. ASSUME NEW pair \in DOMAIN mls2
        PROVE  /\ Sequential(mls2[pair])
               /\ \A x \in DOMAIN mls2[pair] : mls2[pair][x].tag \in Tags
               /\ (pair[1] = 0) = (pair[2] = 0) => mls2[pair] = <<>>
    <3>1. /\ Sequential(mls[pair])
          /\ \A x \in DOMAIN mls[pair] : mls[pair][x].tag \in Tags
          /\ (pair[1] = 0) = (pair[2] = 0) => mls[pair] = <<>>
      BY <2>1 DEF MailIs
    <3>2. CASE pair \notin L
      BY <2>1, <3>1, <3>2 DEF AreSent
    <3>3. CASE pair \in L
      <4>1. PICK w : mls2[pair] = Append(mls[pair], Message(t, w))
        BY <3>3 DEF AreSent
      <4>2. (pair[1] = 0) # (pair[2] = 0)
        BY <3>3 DEF From1
      <4> DEFINE s == mls[pair]
                 e == Message(t, w)
      <4>3. Sequential(s) /\ DOMAIN s = 1 .. Len(s) /\ Len(s) \in Nat
        BY <3>1, AsSeq
      <4>4. e.tag = t
        BY DEF Message
      <4> HIDE DEF s, e
      <4>5. /\ Sequential(Append(s, e)) /\ DOMAIN Append(s, e) = 1 .. Len(s) + 1
            /\ \A k \in 1 .. Len(s) : Append(s, e)[k] = s[k]
            /\ Append(s, e)[Len(s) + 1] = e
        BY <4>3, Appended
      <4>6. \A x \in 1 .. Len(s) : s[x].tag \in Tags
        BY <3>1, <4>3 DEF s
      <4>7. \A x \in DOMAIN Append(s, e) : Append(s, e)[x].tag \in Tags
        BY <4>3, <4>4, <4>5, <4>6
      <4>8. QED
        BY <4>1, <4>2, <4>5, <4>7 DEF s, e
    <3>4. QED
      BY <3>2, <3>3
  <2>3. QED
    BY <2>1, <2>2 DEF MailIs
<1>3. QED
  BY <1>1, <1>2 DEF LinesAre

LEMMA LinesTaken ==
  ASSUME NEW np, NEW ss, NEW sz, NEW mes, NEW mls, Good(np, ss, sz, mes, mls),
         NEW p \in 0 .. np - 1, NEW mes2, Moves(np, p, mes, mes2),
         NEW t \in Tags, NEW L \in SUBSET To1(np, p),
         Adds(np, ss, sz, p, mes[p], mes2[p], L, t),
         NEW mls2, AreTaken(L, t, mls, mls2)
  PROVE  LinesAre(np, ss, sz, mes2, mls2) /\ MailIs(np, mls2)
<1>1. ASSUME NEW kind \in Kinds, NEW q \in 1 .. np - 1
      PROVE  LineIs(np, ss, sz, kind, q, mes2, mls2)
  <2> DEFINE a == Sender(kind, q)
             b == Receiver(kind, q)
             pair == Line(kind, q)
             from == Total(np, ss, sz, kind, q, a, mes[a])
             to == Total(np, ss, sz, kind, q, b, mes[b])
             from2 == Total(np, ss, sz, kind, q, a, mes2[a])
             to2 == Total(np, ss, sz, kind, q, b, mes2[b])
  <2>1. /\ pair \in DOMAIN mls /\ Sequential(mls[pair]) /\ pair = <<a, b>> /\ a # b
        /\ a \in {0, q} /\ b \in {0, q} /\ from \in Nat /\ to \in Nat
    BY LineFacts
  <2>2. LineOK(np, ss, sz, kind, q, mls[pair], from, to)
    BY DEF Good, LinesAre, LineIs
  <2>3. /\ from2 = from + Hit(a, p, pair, L, kind[2], t)
        /\ to2 = to + Hit(b, p, pair, L, kind[2], t)
    <3>1. /\ Counted(np, ss, sz, kind, q, Sender(kind, q), mes, mes2, p, L, t)
          /\ Counted(np, ss, sz, kind, q, Receiver(kind, q), mes, mes2, p, L, t)
      BY <2>1, LineTotals
    <3>2. QED
      BY <3>1 DEF Counted
  <2>4. pair \in L => b = p
    BY <2>1 DEF To1
  <2>5. LineOK(np, ss, sz, kind, q, mls2[pair], from2, to2) =>
          LineIs(np, ss, sz, kind, q, mes2, mls2)
    BY DEF LineIs
  <2>6. Hit(a, p, pair, L, kind[2], t) = 0
    BY <2>1, <2>4 DEF Bit, Hit
  <2> HIDE DEF a, b, pair, from, to, from2, to2
  <2>7. from2 = from
    BY <2>1, <2>3, <2>6
  <2>8. CASE pair \notin L
    <3>1. mls2[pair] = mls[pair]
      BY <2>1, <2>8 DEF AreTaken
    <3>2. to2 = to
      BY <2>1, <2>3, <2>8 DEF Bit, Hit
    <3>3. QED
      BY <2>2, <2>5, <2>7, <3>1, <3>2
  <2>9. CASE pair \in L
    <3>1. /\ OldestOf(mls[pair], t) # 0
          /\ mls2[pair] = RemoveAt(mls[pair], OldestOf(mls[pair], t))
      BY <2>9 DEF AreTaken
    <3>2. CASE kind[2] = t
      <4>1. to2 = to + 1
        BY <2>1, <2>3, <2>4, <2>9, <3>2 DEF Bit, Hit
      <4>2. LineOK(np, ss, sz, kind, q,
                   RemoveAt(mls[pair], OldestOf(mls[pair], kind[2])), from, to + 1)
        BY <2>1, <2>2, <3>1, <3>2, LineTaken
      <4>3. QED
        BY <2>5, <2>7, <3>1, <3>2, <4>1, <4>2
    <3>3. CASE kind[2] # t
      <4>1. to2 = to
        BY <2>1, <2>3, <3>3 DEF Bit, Hit
      <4>2. LineOK(np, ss, sz, kind, q,
                   RemoveAt(mls[pair], OldestOf(mls[pair], t)), from, to)
        BY <2>1, <2>2, <3>1, <3>3, LineSpared
      <4>3. QED
        BY <2>5, <2>7, <3>1, <4>1, <4>2
    <3>4. QED
      BY <3>2, <3>3
  <2>10. QED
    BY <2>8, <2>9
<1>2. MailIs(np, mls2)
  <2>1. MailIs(np, mls) /\ DOMAIN mls2 = DOMAIN mls
    BY DEF Good, AreTaken
  <2>2. ASSUME NEW pair \in DOMAIN mls2
        PROVE  /\ Sequential(mls2[pair])
               /\ \A x \in DOMAIN mls2[pair] : mls2[pair][x].tag \in Tags
               /\ (pair[1] = 0) = (pair[2] = 0) => mls2[pair] = <<>>
    <3>1. /\ Sequential(mls[pair])
          /\ \A x \in DOMAIN mls[pair] : mls[pair][x].tag \in Tags
          /\ (pair[1] = 0) = (pair[2] = 0) => mls[pair] = <<>>
      BY <2>1 DEF MailIs
    <3>2. CASE pair \notin L
      BY <2>1, <3>1, <3>2 DEF AreTaken
    <3>3. CASE pair \in L
      <4>1. /\ OldestOf(mls[pair], t) # 0
            /\ mls2[pair] = RemoveAt(mls[pair], OldestOf(mls[pair], t))
        BY <3>3 DEF AreTaken
      <4>2. (pair[1] = 0) # (pair[2] = 0)
        BY <3>3 DEF To1
      <4> DEFINE s == mls[pair]
                 o == OldestOf(s, t)
                 r == RemoveAt(s, o)
      <4>3. Sequential(s) /\ DOMAIN s = 1 .. Len(s) /\ Len(s) \in Nat
        BY <3>1, AsSeq
      <4>4. o \in 1 .. Len(s)
        BY <4>1, <4>3, OldestHas
      <4>5. \A x \in 1 .. Len(s) : s[x].tag \in Tags
        BY <3>1, <4>3
      <4>6. mls2[pair] = r
        BY <4>1
      <4> HIDE DEF s, o
      <4>7. /\ Sequential(r) /\ DOMAIN r = 1 .. Len(s) - 1
            /\ \A x \in 1 .. o - 1 : r[x] = s[x]
            /\ \A x \in o .. Len(s) - 1 : r[x] = s[x + 1]
        BY <4>3, <4>4, Removed
      <4> HIDE DEF r
      <4>8. ASSUME NEW x \in DOMAIN r PROVE r[x].tag \in Tags
        <5>1. x \in 1 .. Len(s) - 1
          BY <4>7
        <5>2. CASE x < o
          <6>1. x \in 1 .. o - 1 /\ x \in 1 .. Len(s)
            BY <4>3, <4>4, <5>1, <5>2
          <6>2. QED
            BY <4>5, <4>7, <6>1
        <5>3. CASE x >= o
          <6>1. x \in o .. Len(s) - 1 /\ x + 1 \in 1 .. Len(s)
            BY <4>3, <4>4, <5>1, <5>3
          <6>2. QED
            BY <4>5, <4>7, <6>1
        <5>4. QED
          BY <4>4, <5>1, <5>2, <5>3
      <4>9. QED
        BY <4>2, <4>6, <4>7, <4>8
    <3>4. QED
      BY <3>2, <3>3
  <2>3. QED
    BY <2>1, <2>2 DEF MailIs
<1>3. QED
  BY <1>1, <1>2 DEF LinesAre

LEMMA LinesQuiet ==
  ASSUME NEW np, NEW ss, NEW sz, NEW mes, NEW mls, Good(np, ss, sz, mes, mls),
         NEW p \in 0 .. np - 1, NEW mes2, Moves(np, p, mes, mes2),
         Adds(np, ss, sz, p, mes[p], mes2[p], {}, 0)
  PROVE  LinesAre(np, ss, sz, mes2, mls) /\ MailIs(np, mls)
<1>1. AreTaken({}, 0, mls, mls)
  BY DEF AreTaken
<1>2. {} \in SUBSET To1(np, p) /\ 0 \in Tags
  BY DEF Tags
<1>3. QED
  BY <1>1, <1>2, LinesTaken
-----------------------------------------------------------------------------
(* What a step counts for, within a call and at its end.                   *)
Down(np, p) == IF p = 0 THEN {0} \X (1 .. np - 1) ELSE {<<0, p>>}
Up(np, p) == IF p = 0 THEN (1 .. np - 1) \X {0} ELSE {<<p, 0>>}

PartAdds(np, p, call, n, m, m2, L, t) ==
  \A kind \in Kinds, q \in 1 .. np - 1 :
    p \in {0, q} => Part(np, kind, q, p, call, n, m2) =
                      Part(np, kind, q, p, call, n, m)
                        + Bit(Line(kind, q) \in L /\ kind[2] = t)

AllDone(np, p, call, n, m) ==
  \A kind \in Kinds, q \in 1 .. np - 1 :
    p \in {0, q} => Part(np, kind, q, p, call, n, m) = Load(np, kind, q, call, n)

LEMMA AddsWithin ==
  ASSUME NEW np, NEW ss, NEW sz, Settings(np, ss, sz), NEW p, NEW m,
         MeOK(np, ss, sz, p, m), m.at <= Len(ss), NEW m2, m2.at = m.at, NEW L, NEW t,
         PartAdds(np, p, ss[m.at], sz[m.at], m, m2, L, t)
  PROVE  Adds(np, ss, sz, p, m, m2, L, t)
<1> SUFFICES ASSUME NEW kind \in Kinds, NEW q \in 1 .. np - 1, p \in {0, q}
             PROVE  Total(np, ss, sz, kind, q, p, m2) =
                      Total(np, ss, sz, kind, q, p, m)
                        + Bit(Line(kind, q) \in L /\ kind[2] = t)
  BY DEF Adds
<1>1. m.at \in 1 .. Len(ss) /\ Len(ss) \in Nat /\ np \in Nat \ {0} /\ sz[m.at] \in Nat
  BY DEF MeOK, Settings
<1>2. m.pc = "idle" \/ InCall(np, ss[m.at], p, m, sz[m.at])
  BY DEF MeOK
<1> DEFINE c == m.at
           a == Before(np, ss, sz, kind, q)[c]
           x == Part(np, kind, q, p, ss[c], sz[c], m)
           y == Part(np, kind, q, p, ss[c], sz[c], m2)
           b == Bit(Line(kind, q) \in L /\ kind[2] = t)
<1>3. x \in Nat
  <2>1. x \in 0 .. Load(np, kind, q, ss[c], sz[c])
    BY <1>1, <1>2, PartBound
  <2>2. QED
    BY <2>1
<1>4. a \in Nat
  BY <1>1, BeforeGrows
<1>5. b \in Nat
  BY DEF Bit
<1>6. y = x + b
  BY DEF PartAdds
<1>7. Total(np, ss, sz, kind, q, p, m) = a + x /\ Total(np, ss, sz, kind, q, p, m2) = a + y
  BY DEF Total
<1> HIDE DEF a, x, y, b
<1>8. Total(np, ss, sz, kind, q, p, m2) = Total(np, ss, sz, kind, q, p, m) + b
  BY <1>3, <1>4, <1>5, <1>6, <1>7
<1>9. QED
  BY <1>8 DEF b

LEMMA AddsReturning ==
  ASSUME NEW np, NEW ss, NEW sz, Settings(np, ss, sz), NEW p, NEW m,
         m.at \in 1 .. Len(ss), NEW m2, m2.at = m.at + 1, m2.pc = "idle",
         AllDone(np, p, ss[m.at], sz[m.at], m)
  PROVE  Adds(np, ss, sz, p, m, m2, {}, 0)
<1> SUFFICES ASSUME NEW kind \in Kinds, NEW q \in 1 .. np - 1, p \in {0, q}
             PROVE  Total(np, ss, sz, kind, q, p, m2) =
                      Total(np, ss, sz, kind, q, p, m)
                        + Bit(Line(kind, q) \in {} /\ kind[2] = 0)
  BY DEF Adds
<1> DEFINE c == m.at
           a == Before(np, ss, sz, kind, q)
           load == Load(np, kind, q, ss[c], sz[c])
<1>1. c \in 1 .. Len(ss)
  OBVIOUS
<1>2. Part(np, kind, q, p, ss[c], sz[c], m) = load
  BY DEF AllDone
<1>3. Part(np, kind, q, p, ss[m2.at], sz[m2.at], m2) = 0
  BY DEF Part
<1>4. Bit(Line(kind, q) \in {} /\ kind[2] = 0) = 0
  BY DEF Bit
<1>5. /\ Total(np, ss, sz, kind, q, p, m) = a[c] + load
      /\ Total(np, ss, sz, kind, q, p, m2) = a[c + 1] + 0
  BY <1>2, <1>3 DEF Total
<1> HIDE DEF c
<1>6. a[c] \in Nat /\ a[c + 1] \in Nat /\ load \in Nat /\ a[c + 1] = a[c] + load
  BY <1>1, BeforeNext
<1> HIDE DEF a, load
<1>7. QED
  BY <1>4, <1>5, <1>6

LEMMA KindIs ==
  ASSUME NEW kind \in Kinds, NEW np \in Nat \ {0}, NEW q \in 1 .. np - 1,
         NEW p \in {0, q}
  PROVE  /\ kind[1] \in {"down", "up"}
         /\ kind[2] \in {Collective} \cup 0 .. 7
         /\ Line(kind, q) \in Down(np, p) <=> kind[1] = "down"
         /\ Line(kind, q) \in Up(np, p) <=> kind[1] = "up"
         /\ \A r : Line(kind, q) = <<0, r>> <=> kind[1] = "down" /\ q = r
         /\ \A r : Line(kind, q) = <<r, 0>> <=> kind[1] = "up" /\ q = r
BY DEF Kinds, Tags, Line, Down, Up

LEMMA Entering ==
  ASSUME NEW np, NEW p, NEW call, NEW n, NEW m, m.pc = "idle", NEW m2,
         m2.pc = "broadcast"
  PROVE  PartAdds(np, p, call, n, m, m2, {}, 0)
BY DEF PartAdds, Part, Bit

LEMMA Opening ==
  ASSUME NEW np, NEW p, NEW call, call.op = "ml_hdf5_dense", NEW n, NEW m, m.pc = "idle",
         NEW m2, m2.pc = "blocks", m2.i = 1, m2.k = 0
  PROVE  PartAdds(np, p, call, n, m, m2, {}, 0)
BY DEF PartAdds, Part, Bit, Lead, Rooted

LEMMA Gathering ==
  ASSUME NEW np, NEW p, NEW call, NEW n, NEW m, m.pc \in {"idle", "gather"},
         NEW m2, m2.pc = "gather"
  PROVE  PartAdds(np, p, call, n, m, m2, {}, 0)
BY DEF PartAdds, Part, Bit
LEMMA WidthCounts ==
  ASSUME NEW np \in Nat \ {0}, NEW p \in 0 .. np - 1, NEW call, NEW n \in Nat,
         NEW m, NEW m2,
         m.pc = "idle", m2.pc = "collect", m2.i = 0, m2.k = 0
  PROVE  PartAdds(np, p, call, n, m, m2, (IF p = 0 THEN {} ELSE Up(np, p)), Collective)
<1> SUFFICES ASSUME NEW kind \in Kinds, NEW q \in 1 .. np - 1, p \in {0, q}
             PROVE  Part(np, kind, q, p, call, n, m2) =
                      Part(np, kind, q, p, call, n, m)
                        + Bit(Line(kind, q) \in (IF p = 0 THEN {} ELSE Up(np, p)) /\ kind[2] = Collective)
  BY DEF PartAdds
<1>1. /\ kind[1] \in {"down", "up"} /\ kind[2] \in {Collective} \cup 0 .. 7
      /\ Line(kind, q) \in Down(np, p) <=> kind[1] = "down"
      /\ Line(kind, q) \in Up(np, p) <=> kind[1] = "up"
  BY KindIs
<1>2. QED
  BY <1>1 DEF Part, Bit, Collective, Handled

LEMMA BroadcastCounts ==
  ASSUME NEW np \in Nat \ {0}, NEW p \in 0 .. np - 1, NEW call, NEW n \in Nat,
         NEW m, NEW m2,
         m.pc = "broadcast", call.op \in Rooted,
         \/ m2.pc = "blocks" /\ m2.i = 1 /\ m2.k = 0
         \/ m2.pc = "ready"
  PROVE  PartAdds(np, p, call, n, m, m2, Down(np, p), Collective)
<1> SUFFICES ASSUME NEW kind \in Kinds, NEW q \in 1 .. np - 1, p \in {0, q}
             PROVE  Part(np, kind, q, p, call, n, m2) =
                      Part(np, kind, q, p, call, n, m)
                        + Bit(Line(kind, q) \in Down(np, p) /\ kind[2] = Collective)
  BY DEF PartAdds
<1>1. /\ kind[1] \in {"down", "up"} /\ kind[2] \in {Collective} \cup 0 .. 7
      /\ Line(kind, q) \in Down(np, p) <=> kind[1] = "down"
      /\ Line(kind, q) \in Up(np, p) <=> kind[1] = "up"
  BY KindIs
<1>2. QED
  BY <1>1 DEF Part, Bit, Collective, Lead

LEMMA BlockCounts ==
  ASSUME NEW np \in Nat \ {0}, NEW p \in 0 .. np - 1, NEW call, NEW n \in Nat,
         NEW m, NEW m2,
         m.pc \in {"blocks", "lists"}, m2.pc = "blocks", m.i \in Nat, m2.i = m.i + 1,
         m.k \in Nat, m2.k = 0,
         call.op = "vc_star" => m.k = IF p = 0 THEN 3 * (np - 1) ELSE 3,
         call.op = "vc_star" /\ p = 0 => m.pc = "lists"
  PROVE  PartAdds(np, p, call, n, m, m2, Down(np, p), Collective)
<1> SUFFICES ASSUME NEW kind \in Kinds, NEW q \in 1 .. np - 1, p \in {0, q}
             PROVE  Part(np, kind, q, p, call, n, m2) =
                      Part(np, kind, q, p, call, n, m)
                        + Bit(Line(kind, q) \in Down(np, p) /\ kind[2] = Collective)
  BY DEF PartAdds
<1>1. /\ kind[1] \in {"down", "up"} /\ kind[2] \in {Collective} \cup 0 .. 7
      /\ Line(kind, q) \in Down(np, p) <=> kind[1] = "down"
      /\ Line(kind, q) \in Up(np, p) <=> kind[1] = "up"
  BY KindIs
<1>2. CASE kind[1] = "up"
  BY <1>1, <1>2 DEF Part, Bit
<1>3. CASE kind[1] = "down" /\ kind[2] = 0
  BY <1>1, <1>3 DEF Part, Bit, Collective, Clip
<1>4. CASE kind[1] = "down" /\ kind[2] # 0
  BY <1>1, <1>4 DEF Part, Bit, Lead, Rooted
<1>5. QED
  BY <1>1, <1>2, <1>3, <1>4

LEMMA UpdatesCount ==
  ASSUME NEW np \in Nat \ {0}, NEW p \in 0 .. np - 1, NEW call, NEW n \in Nat,
         NEW m, NEW m2,
         m.pc = "blocks", m2.pc = "lists", p = 0, m.i \in Nat, m2.i = m.i, m2.k = 0
  PROVE  PartAdds(np, p, call, n, m, m2, {}, 0)
<1> SUFFICES ASSUME NEW kind \in Kinds, NEW q \in 1 .. np - 1, p \in {0, q}
             PROVE  Part(np, kind, q, p, call, n, m2) =
                      Part(np, kind, q, p, call, n, m)
                        + Bit(Line(kind, q) \in {} /\ kind[2] = 0)
  BY DEF PartAdds
<1>1. /\ kind[1] \in {"down", "up"} /\ kind[2] \in {Collective} \cup 0 .. 7
      /\ Line(kind, q) \in Down(np, p) <=> kind[1] = "down"
      /\ Line(kind, q) \in Up(np, p) <=> kind[1] = "up"
  BY KindIs
<1>2. QED
  BY <1>1 DEF Part, Bit, Collective, Lead, Clip

LEMMA ListTakenCounts ==
  ASSUME NEW np \in Nat \ {0}, NEW p \in 0 .. np - 1, NEW call, NEW n \in Nat,
         NEW m, NEW m2,
         m.pc = "blocks", m2.pc = "blocks", p # 0, call.op = "vc_star",
         m.i \in Nat, m2.i = m.i, m.k \in Nat, m2.k = m.k + 1
  PROVE  PartAdds(np, p, call, n, m, m2, Down(np, p), 0)
<1> SUFFICES ASSUME NEW kind \in Kinds, NEW q \in 1 .. np - 1, p \in {0, q}
             PROVE  Part(np, kind, q, p, call, n, m2) =
                      Part(np, kind, q, p, call, n, m)
                        + Bit(Line(kind, q) \in Down(np, p) /\ kind[2] = 0)
  BY DEF PartAdds
<1>1. /\ kind[1] \in {"down", "up"} /\ kind[2] \in {Collective} \cup 0 .. 7
      /\ Line(kind, q) \in Down(np, p) <=> kind[1] = "down"
      /\ Line(kind, q) \in Up(np, p) <=> kind[1] = "up"
  BY KindIs
<1>2. QED
  BY <1>1 DEF Part, Bit, Collective, Lead

LEMMA ReadyCounts ==
  ASSUME NEW np \in Nat \ {0}, NEW p \in 0 .. np - 1, NEW call, NEW n \in Nat,
         NEW m, NEW m2,
         m.pc = "ready", m2.pc = "shares", m2.i = 0, m2.k = 0
  PROVE  PartAdds(np, p, call, n, m, m2, {}, 0)
<1> SUFFICES ASSUME NEW kind \in Kinds, NEW q \in 1 .. np - 1, p \in {0, q}
             PROVE  Part(np, kind, q, p, call, n, m2) =
                      Part(np, kind, q, p, call, n, m)
                        + Bit(Line(kind, q) \in {} /\ kind[2] = 0)
  BY DEF PartAdds
<1>1. /\ kind[1] \in {"down", "up"} /\ kind[2] \in {Collective} \cup 0 .. 7
      /\ Line(kind, q) \in Down(np, p) <=> kind[1] = "down"
      /\ Line(kind, q) \in Up(np, p) <=> kind[1] = "up"
  BY KindIs
<1>2. QED
  BY <1>1 DEF Part, Bit, Collective, Handled

LEMMA KeptCounts ==
  ASSUME NEW np \in Nat \ {0}, NEW p \in 0 .. np - 1, NEW call, NEW n \in Nat,
         NEW m, NEW m2,
         m.pc = "shares", m2.pc = "shares", p = 0, m.i = 0, m.k = 0, m2.i = 1, m2.k = 0
  PROVE  PartAdds(np, p, call, n, m, m2, {}, 0)
<1> SUFFICES ASSUME NEW kind \in Kinds, NEW q \in 1 .. np - 1, p \in {0, q}
             PROVE  Part(np, kind, q, p, call, n, m2) =
                      Part(np, kind, q, p, call, n, m)
                        + Bit(Line(kind, q) \in {} /\ kind[2] = 0)
  BY DEF PartAdds
<1>1. /\ kind[1] \in {"down", "up"} /\ kind[2] \in {Collective} \cup 0 .. 7
      /\ Line(kind, q) \in Down(np, p) <=> kind[1] = "down"
      /\ Line(kind, q) \in Up(np, p) <=> kind[1] = "up"
  BY KindIs
<1>2. QED
  BY <1>1 DEF Part, Bit, Collective, Handled

LEMMA ShareTakenCounts ==
  ASSUME NEW np \in Nat \ {0}, NEW p \in 0 .. np - 1, NEW call, NEW n \in Nat,
         NEW m, NEW m2,
         m.pc = "shares", m2.pc = "shares", p # 0, m.k \in 0 .. 6, m2.k = m.k + 1
  PROVE  PartAdds(np, p, call, n, m, m2, Down(np, p), m.k + 1)
<1> SUFFICES ASSUME NEW kind \in Kinds, NEW q \in 1 .. np - 1, p \in {0, q}
             PROVE  Part(np, kind, q, p, call, n, m2) =
                      Part(np, kind, q, p, call, n, m)
                        + Bit(Line(kind, q) \in Down(np, p) /\ kind[2] = m.k + 1)
  BY DEF PartAdds
<1>1. /\ kind[1] \in {"down", "up"} /\ kind[2] \in {Collective} \cup 0 .. 7
      /\ Line(kind, q) \in Down(np, p) <=> kind[1] = "down"
      /\ Line(kind, q) \in Up(np, p) <=> kind[1] = "up"
  BY KindIs
<1>2. QED
  BY <1>1 DEF Part, Bit, Collective, Handled

LEMMA SummedCounts ==
  ASSUME NEW np \in Nat \ {0}, NEW p \in 0 .. np - 1, NEW call, NEW n \in Nat,
         NEW m, NEW m2,
         m.pc = "collect", m2.pc = "collect", p = 0, m.i = 0, m.k = 0, m2.i = 1, m2.k = 0
  PROVE  PartAdds(np, p, call, n, m, m2, Up(np, p), Collective)
<1> SUFFICES ASSUME NEW kind \in Kinds, NEW q \in 1 .. np - 1, p \in {0, q}
             PROVE  Part(np, kind, q, p, call, n, m2) =
                      Part(np, kind, q, p, call, n, m)
                        + Bit(Line(kind, q) \in Up(np, p) /\ kind[2] = Collective)
  BY DEF PartAdds
<1>1. /\ kind[1] \in {"down", "up"} /\ kind[2] \in {Collective} \cup 0 .. 7
      /\ Line(kind, q) \in Down(np, p) <=> kind[1] = "down"
      /\ Line(kind, q) \in Up(np, p) <=> kind[1] = "up"
  BY KindIs
<1>2. QED
  BY <1>1 DEF Part, Bit, Collective, Handled

LEMMA PartSentCounts ==
  ASSUME NEW np \in Nat \ {0}, NEW p \in 0 .. np - 1, NEW call, NEW n \in Nat,
         NEW m, NEW m2,
         m.pc = "collect", m2.pc = "collect", p # 0, m.k \in 0 .. 2, m2.k = m.k + 1
  PROVE  PartAdds(np, p, call, n, m, m2, Up(np, p), m.k + 1)
<1> SUFFICES ASSUME NEW kind \in Kinds, NEW q \in 1 .. np - 1, p \in {0, q}
             PROVE  Part(np, kind, q, p, call, n, m2) =
                      Part(np, kind, q, p, call, n, m)
                        + Bit(Line(kind, q) \in Up(np, p) /\ kind[2] = m.k + 1)
  BY DEF PartAdds
<1>1. /\ kind[1] \in {"down", "up"} /\ kind[2] \in {Collective} \cup 0 .. 7
      /\ Line(kind, q) \in Down(np, p) <=> kind[1] = "down"
      /\ Line(kind, q) \in Up(np, p) <=> kind[1] = "up"
  BY KindIs
<1>2. QED
  BY <1>1 DEF Part, Bit, Collective, Handled

LEMMA ListSentCounts ==
  ASSUME NEW np \in Nat \ {0}, NEW p \in 0 .. np - 1, NEW call, NEW n \in Nat,
         NEW m, NEW m2,
         m.pc = "lists", m2.pc = "lists", p = 0, call.op = "vc_star",
         m.i \in Nat, m2.i = m.i, m.k \in 0 .. 3 * (np - 1) - 1, m2.k = m.k + 1,
         NEW to, to = m.k \div 3 + 1
  PROVE  PartAdds(np, p, call, n, m, m2, {<<0, to>>}, 0)
<1> SUFFICES ASSUME NEW kind \in Kinds, NEW q \in 1 .. np - 1, p \in {0, q}
             PROVE  Part(np, kind, q, p, call, n, m2) =
                      Part(np, kind, q, p, call, n, m)
                        + Bit(Line(kind, q) \in {<<0, to>>} /\ kind[2] = 0)
  BY DEF PartAdds
<1>1. /\ kind[1] \in {"down", "up"} /\ kind[2] \in {Collective} \cup 0 .. 7
      /\ Line(kind, q) \in Down(np, p) <=> kind[1] = "down"
      /\ Line(kind, q) \in Up(np, p) <=> kind[1] = "up"
  BY KindIs
<1>2. /\ Line(kind, q) \in {<<0, to>>} <=> kind[1] = "down" /\ q = to
      /\ Line(kind, q) \in {<<to, 0>>} <=> kind[1] = "up" /\ q = to
  BY DEF Kinds, Line
<1>3. Clip(m.k + 1, q) = Clip(m.k, q) + Bit(q = to)
  <2> DEFINE k == m.k
  <2>1. k \in Nat
    OBVIOUS
  <2>2. to = k \div 3 + 1
    OBVIOUS
  <2> HIDE DEF k
  <2>3. k = 3 * (k \div 3) + (k % 3) /\ k % 3 \in 0 .. 2 /\ k \div 3 \in Nat
    BY <2>1
  <2>4. Clip(k + 1, q) = Clip(k, q) + Bit(q = to)
    BY <2>1, <2>2, <2>3 DEF Clip, Bit
  <2>5. QED
    BY <2>4 DEF k
<1>4. Clip(m.k, q) \in Nat
  BY Clipped
<1>5. QED
  BY <1>1, <1>2, <1>3, <1>4 DEF Part, Bit, Collective, Lead

LEMMA ShareSentCounts ==
  ASSUME NEW np \in Nat \ {0}, NEW p \in 0 .. np - 1, NEW call, NEW n \in Nat,
         NEW m, NEW m2,
         m.pc = "shares", m2.pc = "shares", p = 0, m.i \in 1 .. np - 1, m.k \in 0 .. 6,
         \/ m.k < 6 /\ m2.i = m.i /\ m2.k = m.k + 1
         \/ m.k = 6 /\ m2.i = m.i + 1 /\ m2.k = 0
  PROVE  PartAdds(np, p, call, n, m, m2, {<<0, m.i>>}, m.k + 1)
<1> SUFFICES ASSUME NEW kind \in Kinds, NEW q \in 1 .. np - 1, p \in {0, q}
             PROVE  Part(np, kind, q, p, call, n, m2) =
                      Part(np, kind, q, p, call, n, m)
                        + Bit(Line(kind, q) \in {<<0, m.i>>} /\ kind[2] = m.k + 1)
  BY DEF PartAdds
<1>1. /\ kind[1] \in {"down", "up"} /\ kind[2] \in {Collective} \cup 0 .. 7
      /\ Line(kind, q) \in Down(np, p) <=> kind[1] = "down"
      /\ Line(kind, q) \in Up(np, p) <=> kind[1] = "up"
  BY KindIs
<1>2. /\ Line(kind, q) \in {<<0, m.i>>} <=> kind[1] = "down" /\ q = m.i
      /\ Line(kind, q) \in {<<m.i, 0>>} <=> kind[1] = "up" /\ q = m.i
  BY DEF Kinds, Line
<1>3. QED
  BY <1>1, <1>2 DEF Part, Bit, Collective, Handled

LEMMA PartTakenCounts ==
  ASSUME NEW np \in Nat \ {0}, NEW p \in 0 .. np - 1, NEW call, NEW n \in Nat,
         NEW m, NEW m2,
         m.pc = "collect", m2.pc = "collect", p = 0, m.i \in 1 .. np - 1, m.k \in 0 .. 2,
         \/ m.k < 2 /\ m2.i = m.i /\ m2.k = m.k + 1
         \/ m.k = 2 /\ m2.i = m.i + 1 /\ m2.k = 0
  PROVE  PartAdds(np, p, call, n, m, m2, {<<m.i, 0>>}, m.k + 1)
<1> SUFFICES ASSUME NEW kind \in Kinds, NEW q \in 1 .. np - 1, p \in {0, q}
             PROVE  Part(np, kind, q, p, call, n, m2) =
                      Part(np, kind, q, p, call, n, m)
                        + Bit(Line(kind, q) \in {<<m.i, 0>>} /\ kind[2] = m.k + 1)
  BY DEF PartAdds
<1>1. /\ kind[1] \in {"down", "up"} /\ kind[2] \in {Collective} \cup 0 .. 7
      /\ Line(kind, q) \in Down(np, p) <=> kind[1] = "down"
      /\ Line(kind, q) \in Up(np, p) <=> kind[1] = "up"
  BY KindIs
<1>2. /\ Line(kind, q) \in {<<0, m.i>>} <=> kind[1] = "down" /\ q = m.i
      /\ Line(kind, q) \in {<<m.i, 0>>} <=> kind[1] = "up" /\ q = m.i
  BY DEF Kinds, Line
<1>3. QED
  BY <1>1, <1>2 DEF Part, Bit, Collective, Handled

(* All messages of a call are sent and received where it ends.             *)
LEMMA BlocksDone ==
  ASSUME NEW np, NEW p, NEW call, NEW n \in Nat, NEW m, m.pc = "blocks",
         InBlock1(call, p, m, n), m.i > NB(call, n)
  PROVE  AllDone(np, p, call, n, m)
<1> SUFFICES ASSUME NEW kind \in Kinds, NEW q \in 1 .. np - 1, p \in {0, q}
             PROVE  Part(np, kind, q, p, call, n, m) = Load(np, kind, q, call, n)
  BY DEF AllDone
<1>1. /\ call.op \in Scatters /\ NB(call, n) \in Nat /\ m.i = NB(call, n) + 1
      /\ call.op = "vc_star" => m.k = 0
  BY NBNat DEF InBlock1
<1>2. call.op \notin Shared /\ call.op # "write_hdf5"
  BY <1>1 DEF Scatters, InBlocks, Shared
<1>3. Lead(call) \in Nat
  BY DEF Lead, Bit
<1>4. QED
  BY <1>1, <1>2, <1>3 DEF Part, Load, Bit, Collective

LEMMA GatherDone ==
  ASSUME NEW np, NEW p, NEW call, NEW n \in Nat, NEW m, m.pc = "gather",
         InGather(call, p, m, n)
  PROVE  AllDone(np, p, call, n, m)
<1>1. call.op = "write_dist"
  BY DEF InGather
<1>2. QED
  BY <1>1 DEF AllDone, Part, Load, Bit, Scatters, InBlocks, Shared

LEMMA LeaveDone ==
  ASSUME NEW np, NEW p, NEW call, NEW n, NEW m, m.pc = "leave"
  PROVE  AllDone(np, p, call, n, m)
BY DEF AllDone, Part

LEMMA AloneDone ==
  ASSUME NEW np, NEW p, NEW call, call.op \in Local \cup LocalWrites, NEW n,
         NEW m, m.pc = "idle"
  PROVE  AllDone(np, p, call, n, m)
<1>1. /\ call.op \notin Scatters /\ call.op \notin Shared /\ call.op # "vc_star"
      /\ call.op # "write_hdf5"
  BY DEF Local, LocalWrites, Scatters, InBlocks, Shared
<1>2. QED
  BY <1>1 DEF AllDone, Part, Load, Bit

LEMMA SharesDone ==
  ASSUME NEW np \in Nat \ {0}, NEW p \in 0 .. np - 1, NEW call, call.op \in Shared, NEW n,
         NEW m, m.pc = "shares", m.k \in Nat,
         p = 0 => /\ m.k = 0 /\ m.i \in Nat
                  /\ \A q \in 1 .. np - 1 : Alloc(np, n, q) > 0 <=> q < m.i,
         p # 0 => (Alloc(np, n, p) > 0 /\ m.k >= 7) \/ (~ (Alloc(np, n, p) > 0) /\ m.k = 0)
  PROVE  AllDone(np, p, call, n, m)
<1> SUFFICES ASSUME NEW kind \in Kinds, NEW q \in 1 .. np - 1, p \in {0, q}
             PROVE  Part(np, kind, q, p, call, n, m) = Load(np, kind, q, call, n)
  BY DEF AllDone
<1>1. call.op \notin Scatters /\ call.op # "vc_star" /\ call.op # "write_hdf5"
  BY DEF Scatters, InBlocks, Shared
<1>2. kind[1] \in {"down", "up"} /\ kind[2] \in {Collective} \cup 0 .. 7
  BY KindIs
<1>3. CASE kind[1] = "down" /\ kind[2] \in 1 .. 7
  <2>1. Handled(q, p, m, kind[2]) <=> Alloc(np, n, q) > 0
    <3>1. CASE p = 0
      BY <1>3, <3>1 DEF Handled
    <3>2. CASE p # 0
      <4>1. p = q /\ (Handled(q, p, m, kind[2]) <=> kind[2] <= m.k)
        BY <3>2 DEF Handled
      <4>2. QED
        BY <1>3, <3>2, <4>1
    <3>3. QED
      BY <3>1, <3>2
  <2>2. Part(np, kind, q, p, call, n, m) = IF Handled(q, p, m, kind[2]) THEN 1 ELSE 0
    BY <1>3 DEF Part, Bit, Collective
  <2>3. Load(np, kind, q, call, n) = IF Alloc(np, n, q) > 0 THEN 1 ELSE 0
    BY <1>1, <1>3 DEF Load, Bit, Collective
  <2>4. QED
    BY <2>1, <2>2, <2>3
<1>4. CASE ~ (kind[1] = "down" /\ kind[2] \in 1 .. 7)
  BY <1>1, <1>2, <1>4 DEF Part, Load, Bit, Collective
<1>5. QED
  BY <1>3, <1>4

LEMMA CollectDone ==
  ASSUME NEW np \in Nat \ {0}, NEW p \in 0 .. np - 1, NEW call,
         call.op = "write_hdf5", NEW n, NEW m, m.pc = "collect",
         IF p = 0 THEN m.i = np /\ m.k \in Nat ELSE m.k = 3
  PROVE  AllDone(np, p, call, n, m)
<1> SUFFICES ASSUME NEW kind \in Kinds, NEW q \in 1 .. np - 1, p \in {0, q}
             PROVE  Part(np, kind, q, p, call, n, m) = Load(np, kind, q, call, n)
  BY DEF AllDone
<1>1. call.op \notin Scatters /\ call.op \notin Shared /\ call.op # "vc_star"
  BY DEF Scatters, InBlocks, Shared
<1>2. kind[1] \in {"down", "up"} /\ kind[2] \in {Collective} \cup 0 .. 7
  BY KindIs
<1>3. kind[2] \in 1 .. 3 => Handled(q, p, m, kind[2])
  BY DEF Handled
<1>4. QED
  BY <1>1, <1>2, <1>3 DEF Part, Load, Bit, Collective

LEMMA LeavingCounts ==
  ASSUME NEW np \in Nat \ {0}, NEW p, NEW call, NEW n \in Nat, NEW m,
         AllDone(np, p, call, n, m), NEW m2, m2.pc = "leave"
  PROVE  PartAdds(np, p, call, n, m, m2, {}, 0)
<1> SUFFICES ASSUME NEW kind \in Kinds, NEW q \in 1 .. np - 1, p \in {0, q}
             PROVE  Part(np, kind, q, p, call, n, m2) =
                      Part(np, kind, q, p, call, n, m)
                        + Bit(Line(kind, q) \in {} /\ kind[2] = 0)
  BY DEF PartAdds
<1>1. Part(np, kind, q, p, call, n, m2) = Load(np, kind, q, call, n)
  BY DEF Part
<1>2. Part(np, kind, q, p, call, n, m) = Load(np, kind, q, call, n)
  BY DEF AllDone
<1>3. Load(np, kind, q, call, n) \in Nat
  BY LoadNat
<1>4. Bit(Line(kind, q) \in {} /\ kind[2] = 0) = 0
  BY DEF Bit
<1>5. QED
  BY <1>1, <1>2, <1>3, <1>4
-----------------------------------------------------------------------------
(* What is said: only the message a rooted call begins with has its number.*)
LEMMA RootedLoad ==
  ASSUME NEW np, NEW q, NEW call, call.op \in Rooted, NEW n \in Nat
  PROVE  Load(np, <<"down", Collective>>, q, call, n) >= 1
<1>1. NB(call, n) \in Nat
  BY NBNat
<1>2. call.op \in Scatters \/ (call.op \notin Scatters /\ call.op \in Shared)
  BY DEF Rooted, Scatters, InBlocks, Shared
<1>3. QED
  BY <1>1, <1>2 DEF Load, Lead, Bit, Collective

LEMMA Distinct ==
  ASSUME NEW np, NEW ss, NEW sz, Settings(np, ss, sz), NEW q,
         NEW kind \in Kinds, kind = <<"down", Collective>>,
         NEW a \in 1 .. Len(ss), NEW c \in 1 .. Len(ss), ss[c].op \in Rooted,
         Before(np, ss, sz, kind, q)[a] <= Before(np, ss, sz, kind, q)[c],
         Before(np, ss, sz, kind, q)[c] < Before(np, ss, sz, kind, q)[a + 1]
  PROVE  c = a
<1> DEFINE b == Before(np, ss, sz, kind, q)
           load == Load(np, kind, q, ss[c], sz[c])
<1>1. Len(ss) \in Nat /\ sz[c] \in Nat
  BY DEF Settings
<1>2. load >= 1
  BY <1>1, RootedLoad
<1>3. b[c] \in Nat /\ b[c + 1] \in Nat /\ b[c + 1] = b[c] + load /\ load \in Nat
  BY BeforeNext
<1>4. b[a] \in Nat /\ b[a + 1] \in Nat
  BY BeforeNext
<1>5. \A x, y \in 1 .. Len(ss) : x < y => b[x + 1] <= b[y]
  <2> TAKE x, y \in 1 .. Len(ss)
  <2> HAVE x < y
  <2> DEFINE z == x + 1
  <2>1. z \in 1 .. Len(ss) + 1 /\ y \in 1 .. Len(ss) + 1 /\ z <= y
    BY <1>1
  <2> HIDE DEF z
  <2>2. b[z] <= b[y]
    BY <2>1, BeforeGrows
  <2>3. QED
    BY <2>2 DEF z
<1>6. (c < a => b[c + 1] <= b[a]) /\ (a < c => b[a + 1] <= b[c])
  BY <1>5
<1>7. b[a] <= b[c] /\ b[c] < b[a + 1]
  OBVIOUS
<1> HIDE DEF b, load
<1>8. QED
  BY <1>1, <1>2, <1>3, <1>4, <1>6, <1>7

LEMMA SaysSize ==
  ASSUME NEW np, NEW ss, NEW sz, Settings(np, ss, sz), NEW m, MeOK(np, ss, sz, 0, m),
         m.pc = "broadcast", NEW r, NEW w, w.n = sz[m.at]
  PROVE  Says(np, ss, sz, 0, m, <<0, r>>, Collective, w)
<1> SUFFICES ASSUME NEW kind \in Kinds, NEW q \in 1 .. np - 1, Line(kind, q) = <<0, r>>,
                    kind[2] = Collective
             PROVE  Content(np, ss, sz, kind, q, Total(np, ss, sz, kind, q, 0, m) + 1, w)
  BY DEF Says
<1>1. kind = <<"down", Collective>>
  <2>1. kind[1] = "down" \/ kind[1] = "up"
    BY DEF Kinds
  <2>2. kind[1] = "down"
    BY <2>1 DEF Line
  <2>3. QED
    BY <2>2 DEF Kinds
<1>2. m.at \in 1 .. Len(ss) /\ ss[m.at].op \in Rooted
  BY DEF MeOK, InCall
<1>3. \A c \in 1 .. Len(ss) :
        ss[c].op \in Rooted
          /\ Total(np, ss, sz, kind, q, 0, m) + 1 = Before(np, ss, sz, kind, q)[c] + 1
          => w.n = sz[c]
  <2> SUFFICES ASSUME NEW c \in 1 .. Len(ss), ss[c].op \in Rooted,
                      Total(np, ss, sz, kind, q, 0, m) + 1
                        = Before(np, ss, sz, kind, q)[c] + 1
               PROVE  c = m.at
    OBVIOUS
  <2> DEFINE a == m.at
             b == Before(np, ss, sz, kind, q)
  <2>1. a \in 1 .. Len(ss) /\ sz[a] \in Nat
    BY <1>2 DEF Settings
  <2>2. Total(np, ss, sz, kind, q, 0, m) = b[a] + 0
    BY DEF Total, Part
  <2>3. Load(np, kind, q, ss[a], sz[a]) >= 1
    BY <1>1, <1>2, <2>1, RootedLoad
  <2> HIDE DEF a
  <2>4. b[a] \in Nat /\ b[c] \in Nat /\ b[a + 1] = b[a] + Load(np, kind, q, ss[a], sz[a])
        /\ Load(np, kind, q, ss[a], sz[a]) \in Nat
    BY <2>1, BeforeNext
  <2> HIDE DEF b
  <2>5. b[a] <= b[c] /\ b[c] < b[a + 1]
    <3>1. (b[a] + 0) + 1 = b[c] + 1
      BY <2>2 DEF b
    <3>2. QED
      BY <2>3, <2>4, <3>1
  <2>6. c = a
    BY <1>1, <2>1, <2>5, Distinct DEF b
  <2>7. QED
    BY <2>6 DEF a
<1>4. kind[2] # 1
  BY DEF Collective
<1>5. QED
  BY <1>3, <1>4 DEF Content

LEMMA BlockBetween ==
  ASSUME NEW x \in Nat, NEW y \in Nat, NEW z, NEW lead \in 0 .. 1, NEW nb \in Nat,
         NEW i \in 1 .. nb, z = x + (lead + nb), y + 1 = x + (lead + i - 1) + 1
  PROVE  x <= y /\ y < z /\ (lead = 1 => y # x)
OBVIOUS

LEMMA SaysBlock ==
  ASSUME NEW np, NEW ss, NEW sz, Settings(np, ss, sz), NEW m, MeOK(np, ss, sz, 0, m),
         m.pc \in {"blocks", "lists"}, m.i <= NB(ss[m.at], sz[m.at]), NEW r, NEW w
  PROVE  Says(np, ss, sz, 0, m, <<0, r>>, Collective, w)
<1> SUFFICES ASSUME NEW kind \in Kinds, NEW q \in 1 .. np - 1, Line(kind, q) = <<0, r>>,
                    kind[2] = Collective
             PROVE  Content(np, ss, sz, kind, q, Total(np, ss, sz, kind, q, 0, m) + 1, w)
  BY DEF Says
<1>1. kind = <<"down", Collective>>
  <2>1. kind[1] = "down" \/ kind[1] = "up"
    BY DEF Kinds
  <2>2. kind[1] = "down"
    BY <2>1 DEF Line
  <2>3. QED
    BY <2>2 DEF Kinds
<1> DEFINE a == m.at
           nb == NB(ss[m.at], sz[m.at])
<1>2. /\ a \in 1 .. Len(ss) /\ ss[a].op \in Scatters /\ m.i \in 1 .. nb + 1
      /\ sz[a] \in Nat
  <2>1. m.at \in 1 .. Len(ss) /\ InCall(np, ss[m.at], 0, m, sz[m.at])
    BY DEF MeOK
  <2>2. InBlock1(ss[m.at], 0, m, sz[m.at]) \/ InLists(np, ss[m.at], 0, m, sz[m.at])
    BY <2>1 DEF InCall
  <2>3. sz[m.at] \in Nat
    BY <2>1 DEF Settings
  <2>4. m.i \in Int /\ nb \in Nat => (m.i \in 1 .. nb => m.i \in 1 .. nb + 1)
    OBVIOUS
  <2>5. nb \in Nat
    BY <2>3, NBNat
  <2>6. QED
    BY <2>1, <2>2, <2>3, <2>4, <2>5 DEF InBlock1, InLists, Scatters
<1>3. nb \in Nat /\ m.i \in 1 .. nb
  BY <1>2, NBNat
<1>4. Load(np, kind, q, ss[a], sz[a]) = Lead(ss[a]) + nb
  BY <1>1, <1>2 DEF Load
<1>5. Total(np, ss, sz, kind, q, 0, m)
        = Before(np, ss, sz, kind, q)[a] + (Lead(ss[a]) + m.i - 1)
  BY <1>1 DEF Total, Part
<1>6. Lead(ss[a]) \in 0 .. 1 /\ (ss[a].op \in Rooted => Lead(ss[a]) = 1)
  BY DEF Lead, Bit
<1>7. ASSUME NEW c \in 1 .. Len(ss), ss[c].op \in Rooted,
             Total(np, ss, sz, kind, q, 0, m) + 1 = Before(np, ss, sz, kind, q)[c] + 1
      PROVE  FALSE
  <2> DEFINE b == Before(np, ss, sz, kind, q)
             lead == Lead(ss[a])
  <2> HIDE DEF a, nb
  <2>1. b[a] \in Nat /\ b[c] \in Nat /\ b[a + 1] = b[a] + Load(np, kind, q, ss[a], sz[a])
    BY <1>2, BeforeNext
  <2> HIDE DEF b
  <2>2. b[a + 1] = b[a] + (lead + nb) /\ b[c] + 1 = b[a] + (lead + m.i - 1) + 1
    BY <1>4, <1>5, <1>7, <2>1 DEF b
  <2>3. lead \in 0 .. 1 /\ (ss[a].op \in Rooted => lead = 1)
    BY <1>6
  <2> HIDE DEF lead
  <2>4. b[a] <= b[c] /\ b[c] < b[a + 1] /\ (lead = 1 => b[c] # b[a])
    BY <1>3, <2>1, <2>2, <2>3, BlockBetween
  <2>5. c = a
    BY <1>1, <1>2, <1>7, <2>4, Distinct DEF b
  <2>6. lead = 1 /\ b[c] = b[a]
    BY <1>7, <2>3, <2>5
  <2>7. QED
    BY <2>4, <2>6
<1>8. kind[2] # 1
  BY DEF Collective
<1>9. QED
  BY <1>7, <1>8 DEF Content

LEMMA SaysTag ==
  ASSUME NEW np, NEW ss, NEW sz, NEW p, NEW m, NEW pair, NEW t, t # Collective, NEW w,
         t = 1 => w \in Nat
  PROVE  Says(np, ss, sz, p, m, pair, t, w)
BY DEF Says, Content

LEMMA SaysUp ==
  ASSUME NEW np, NEW ss, NEW sz, NEW p, p # 0, NEW m, NEW w
  PROVE  Says(np, ss, sz, p, m, <<p, 0>>, Collective, w)
<1> SUFFICES ASSUME NEW kind \in Kinds, NEW q \in 1 .. np - 1, Line(kind, q) = <<p, 0>>,
                    kind[2] = Collective
             PROVE  Content(np, ss, sz, kind, q, Total(np, ss, sz, kind, q, p, m) + 1, w)
  BY DEF Says
<1>1. kind # <<"down", Collective>> /\ kind[2] # 1
  BY DEF Line, Collective
<1>2. QED
  BY <1>1 DEF Content
-----------------------------------------------------------------------------
(* While no process has opened the file of a call, any number will do as   *)
(* its size.                                                               *)
Besides(ss, sz, sz2, c) == \A x \in 1 .. Len(ss) : x # c => sz2[x] = sz[x]
NoneKnows(np, mes, c) == \A p \in 0 .. np - 1 : ~Knows(c, p, mes[p])

LEMMA BeforeSame ==
  ASSUME NEW np, NEW ss, NEW sz, Settings(np, ss, sz), NEW sz2, Settings(np, ss, sz2),
         NEW c \in 1 .. Len(ss), Besides(ss, sz, sz2, c), NEW kind \in Kinds, NEW q
  PROVE  \A x \in 1 .. c :
           Before(np, ss, sz2, kind, q)[x] = Before(np, ss, sz, kind, q)[x]
<1> DEFINE h == Loads(np, ss, sz, kind, q)
           g == Loads(np, ss, sz2, kind, q)
           N == Len(ss)
<1>1. /\ Sums(N, h, Before(np, ss, sz, kind, q))
      /\ Sums(N, g, Before(np, ss, sz2, kind, q)) /\ N \in Nat
  BY Summation DEF Settings
<1>2. \A x \in 1 .. c - 1 : g[x] = h[x]
  <2> TAKE x \in 1 .. c - 1
  <2>1. x \in 1 .. N /\ x # c
    BY <1>1
  <2>2. sz2[x] = sz[x]
    BY <2>1 DEF Besides
  <2>3. QED
    BY <2>1, <2>2 DEF Loads
<1>3. c \in 1 .. N + 1
  BY <1>1
<1> HIDE DEF h, g, N
<1>4. QED
  BY <1>1, <1>2, <1>3, SumsAgree

LEMMA NotYet ==
  ASSUME NEW np, NEW ss, NEW sz, Settings(np, ss, sz), NEW c \in 1 .. Len(ss),
         NEW p, NEW m, MeOK(np, ss, sz, p, m), ~Knows(c, p, m)
  PROVE  /\ m.at \in 1 .. c
         /\ m.at = c => m.pc = "idle" \/ (m.pc = "broadcast" /\ p # 0)
<1>1. m.at \in 1 .. Len(ss) + 1 /\ Len(ss) \in Nat
  BY DEF MeOK, Settings
<1>2. QED
  BY <1>1 DEF Knows, Resting

LEMMA TotalSame ==
  ASSUME NEW np, NEW ss, NEW sz, Settings(np, ss, sz), NEW sz2, Settings(np, ss, sz2),
         NEW c \in 1 .. Len(ss), Besides(ss, sz, sz2, c), NEW kind \in Kinds,
         NEW q \in 1 .. np - 1, NEW p \in {0, q}, NEW m, MeOK(np, ss, sz, p, m),
         ~Knows(c, p, m)
  PROVE  /\ Total(np, ss, sz2, kind, q, p, m) = Total(np, ss, sz, kind, q, p, m)
         /\ Total(np, ss, sz, kind, q, p, m) \in Nat
         /\ Total(np, ss, sz, kind, q, p, m) <= Before(np, ss, sz, kind, q)[c]
<1>1. /\ m.at \in 1 .. c
      /\ m.at = c => m.pc = "idle" \/ m.pc = "broadcast"
  BY NotYet
<1>2. Before(np, ss, sz2, kind, q)[m.at] = Before(np, ss, sz, kind, q)[m.at]
  BY <1>1, BeforeSame
<1>3. Part(np, kind, q, p, ss[m.at], sz2[m.at], m) = Part(np, kind, q, p, ss[m.at], sz[m.at], m)
  <2>1. CASE m.at = c
    BY <1>1, <2>1 DEF Part
  <2>2. CASE m.at # c
    <3>1. m.at \in 1 .. Len(ss)
      BY <1>1
    <3>2. sz2[m.at] = sz[m.at]
      BY <2>2, <3>1 DEF Besides
    <3>3. QED
      BY <3>2
  <2>3. QED
    BY <2>1, <2>2
<1>4. Total(np, ss, sz2, kind, q, p, m) = Total(np, ss, sz, kind, q, p, m)
  BY <1>2, <1>3 DEF Total
<1> DEFINE T == Total(np, ss, sz, kind, q, p, m)
           b == Before(np, ss, sz, kind, q)
           a == m.at
<1>5. /\ T \in Nat /\ a \in 1 .. c /\ Len(ss) \in Nat
      /\ a <= Len(ss) => T <= b[a + 1]
  BY <1>1, TotalBetween DEF Settings
<1>6. a = c => T = b[a] + 0
  BY <1>1 DEF Total, Part
<1> HIDE DEF T, a
<1>7. CASE a = c
  <2>1. b[c] \in Nat
    BY BeforeNext
  <2>2. QED
    BY <1>4, <1>5, <1>6, <1>7, <2>1 DEF T
<1>8. CASE a # c
  <2>1. a + 1 \in 1 .. Len(ss) + 1 /\ c \in 1 .. Len(ss) + 1 /\ a + 1 <= c /\ a <= Len(ss)
    BY <1>5, <1>8
  <2>2. b[a + 1] \in Nat /\ b[c] \in Nat /\ b[a + 1] <= b[c]
    BY <2>1, BeforeGrows
  <2>3. QED
    BY <1>4, <1>5, <2>1, <2>2 DEF T
<1>9. QED
  BY <1>7, <1>8

LEMMA RechosenLines ==
  ASSUME NEW np, NEW ss, NEW sz, NEW mes, NEW mls, Good(np, ss, sz, mes, mls),
         NEW sz2, Settings(np, ss, sz2),
         NEW c \in 1 .. Len(ss), Besides(ss, sz, sz2, c), NoneKnows(np, mes, c)
  PROVE  LinesAre(np, ss, sz2, mes, mls)
<1> SUFFICES ASSUME NEW kind \in Kinds, NEW q \in 1 .. np - 1
             PROVE  LineIs(np, ss, sz2, kind, q, mes, mls)
  BY DEF LinesAre
<1> DEFINE a == Sender(kind, q)
           b == Receiver(kind, q)
           s == mls[Line(kind, q)]
           from == Total(np, ss, sz, kind, q, a, mes[a])
           to == Total(np, ss, sz, kind, q, b, mes[b])
<1>1. /\ a \in {0, q} /\ b \in {0, q} /\ {0, q} \subseteq 0 .. np - 1
      /\ kind[1] = "down" => a = 0
  BY LineFacts
<1>2. Settings(np, ss, sz) /\ \A r \in 0 .. np - 1 : MeOK(np, ss, sz, r, mes[r])
  BY DEF Good
<1>3. ASSUME NEW r \in {0, q}
      PROVE  /\ Total(np, ss, sz2, kind, q, r, mes[r]) = Total(np, ss, sz, kind, q, r, mes[r])
             /\ Total(np, ss, sz, kind, q, r, mes[r]) \in Nat
             /\ Total(np, ss, sz, kind, q, r, mes[r]) <= Before(np, ss, sz, kind, q)[c]
  <2>1. r \in 0 .. np - 1 /\ ~Knows(c, r, mes[r])
    BY <1>1 DEF NoneKnows
  <2>2. QED
    BY <1>2, <2>1, TotalSame
<1>4. /\ Total(np, ss, sz2, kind, q, a, mes[a]) = from /\ from \in Nat
      /\ Total(np, ss, sz2, kind, q, b, mes[b]) = to /\ to \in Nat
      /\ from <= Before(np, ss, sz, kind, q)[c]
  BY <1>1, <1>3
<1>5. LineOK(np, ss, sz, kind, q, s, from, to)
  BY DEF Good, LinesAre, LineIs
<1>6. PICK buf : /\ Carries(s, kind[2], buf)
                 /\ Len(buf) + to = from
                 /\ \A j \in 1 .. Len(buf) :
                      Content(np, ss, sz, kind, q, to + j, buf[j])
  BY <1>5 DEF LineOK
<1>7. Len(buf) \in Nat
  BY <1>6 DEF Carries, Sequential
<1> HIDE DEF from, to
<1>8. ASSUME NEW j \in 1 .. Len(buf)
      PROVE  Content(np, ss, sz2, kind, q, to + j, buf[j])
  <2>1. Content(np, ss, sz, kind, q, to + j, buf[j])
    BY <1>6
  <2>2. ASSUME kind = <<"down", Collective>>, NEW d \in 1 .. Len(ss), ss[d].op \in Rooted,
               to + j = Before(np, ss, sz2, kind, q)[d] + 1
        PROVE  buf[j].n = sz2[d]
    <3>1. CASE d < c
      <4>1. d \in 1 .. c /\ d # c
        BY <3>1
      <4>2. Before(np, ss, sz2, kind, q)[d] = Before(np, ss, sz, kind, q)[d] /\ sz2[d] = sz[d]
        BY <1>2, <4>1, BeforeSame DEF Besides
      <4>3. QED
        BY <2>1, <2>2, <4>2 DEF Content
    <3>2. CASE d >= c
      <4> DEFINE e == Before(np, ss, sz, kind, q)[c]
                 f == Before(np, ss, sz2, kind, q)[c]
                 g == Before(np, ss, sz2, kind, q)[d]
      <4>1. Len(ss) \in Nat /\ c \in 1 .. c
        BY DEF Settings
      <4>2. f = e
        BY <1>2, <4>1, BeforeSame
      <4>3. c \in 1 .. Len(ss) + 1 /\ d \in 1 .. Len(ss) + 1 /\ c <= d
        BY <3>2, <4>1
      <4>4. f \in Nat /\ f <= g /\ g \in Nat
        BY <4>3, BeforeGrows
      <4>5. to + j = g + 1 /\ from <= e
        BY <1>4, <2>2
      <4> HIDE DEF e, f, g
      <4>6. FALSE
        BY <1>4, <1>6, <1>7, <4>2, <4>4, <4>5
      <4>7. QED
        BY <4>6
    <3>3. QED
      BY <3>1, <3>2
  <2>3. QED
    BY <2>1, <2>2 DEF Content
<1>9. LineOK(np, ss, sz2, kind, q, s, from, to)
  BY <1>6, <1>8 DEF LineOK
<1>10. QED
  BY <1>4, <1>9 DEF LineIs

LEMMA Rechosen ==
  ASSUME NEW np, NEW ss, NEW sz, NEW mes, NEW mls, NEW hs, NEW rst, NEW f,
         Fine(np, ss, sz, mes, mls, hs, rst, f),
         NEW c \in 1 .. Len(ss), NoneKnows(np, mes, c), NEW n \in Nat
  PROVE  \E sz2 : /\ Fine(np, ss, sz2, mes, mls, hs, rst, f)
                  /\ sz2[c] = n /\ Besides(ss, sz, sz2, c)
<1> DEFINE sz2 == [sz EXCEPT ![c] = n]
<1>1. Settings(np, ss, sz) /\ sz \in [1 .. Len(ss) -> Nat] /\ 0 \in 0 .. np - 1
  BY DEF Fine, Settings
<1>2. sz2[c] = n /\ Besides(ss, sz, sz2, c)
  BY <1>1 DEF Besides
<1>3. Settings(np, ss, sz2)
  BY <1>1 DEF Settings
<1> HIDE DEF sz2
<1>4. Good(np, ss, sz, mes, mls)
  BY DEF Fine, Good
<1>5. LinesAre(np, ss, sz2, mes, mls)
  BY <1>2, <1>3, <1>4, RechosenLines
<1>6. ASSUME NEW p \in 0 .. np - 1
      PROVE  /\ MeOK(np, ss, sz, p, mes[p]) /\ mes[p].at \in 1 .. c
             /\ mes[p].at = c => mes[p].pc = "idle" \/ (mes[p].pc = "broadcast" /\ p # 0)
             /\ mes[p].at # c => sz2[mes[p].at] = sz[mes[p].at]
  <2>1. MeOK(np, ss, sz, p, mes[p]) /\ ~Knows(c, p, mes[p])
    BY DEF Fine, NoneKnows
  <2>2. /\ mes[p].at \in 1 .. c
        /\ mes[p].at = c => mes[p].pc = "idle" \/ (mes[p].pc = "broadcast" /\ p # 0)
    BY <1>1, <2>1, NotYet
  <2>3. mes[p].at \in 1 .. Len(ss)
    BY <1>1, <2>2 DEF Settings
  <2>4. QED
    BY <1>2, <2>1, <2>2, <2>3 DEF Besides
<1>7. ASSUME NEW p \in 0 .. np - 1
      PROVE  MeOK(np, ss, sz2, p, mes[p]) /\ HeldOK(ss, sz2, mes[p], hs[p])
  <2>1. HeldOK(ss, sz, mes[p], hs[p])
    BY DEF Fine
  <2>2. mes[p].at > 1 => sz2[mes[p].at - 1] = sz[mes[p].at - 1]
    <3> SUFFICES ASSUME mes[p].at > 1 PROVE sz2[mes[p].at - 1] = sz[mes[p].at - 1]
      OBVIOUS
    <3>1. mes[p].at - 1 \in 1 .. Len(ss) /\ mes[p].at - 1 # c
      BY <1>1, <1>6 DEF Settings
    <3>2. QED
      BY <1>2, <3>1 DEF Besides
  <2>3. CASE mes[p].at = c
    <3>1. mes[p].pc = "idle" \/ (mes[p].pc = "broadcast" /\ p # 0)
      BY <1>6, <2>3
    <3>2. MeOK(np, ss, sz2, p, mes[p])
      BY <1>6, <3>1 DEF MeOK, InCall
    <3>3. HeldOK(ss, sz2, mes[p], hs[p])
      BY <2>1, <2>2, <3>1 DEF HeldOK
    <3>4. QED
      BY <3>2, <3>3
  <2>4. CASE mes[p].at # c
    <3>1. sz2[mes[p].at] = sz[mes[p].at]
      BY <1>6, <2>4
    <3>2. MeOK(np, ss, sz2, p, mes[p])
      BY <1>6, <3>1 DEF MeOK
    <3>3. HeldOK(ss, sz2, mes[p], hs[p])
      BY <2>1, <2>2, <3>1 DEF HeldOK
    <3>4. QED
      BY <3>2, <3>3
  <2>5. QED
    BY <2>3, <2>4
<1>8. RestOK(np, ss[mes[0].at], mes[0], sz2[mes[0].at], rst)
  <2>1. RestOK(np, ss[mes[0].at], mes[0], sz[mes[0].at], rst)
    BY DEF Fine
  <2>2. CASE mes[0].at = c
    <3>1. mes[0].pc = "idle"
      BY <1>1, <1>6, <2>2
    <3>2. QED
      BY <3>1 DEF RestOK
  <2>3. CASE mes[0].at # c
    <3>1. sz2[mes[0].at] = sz[mes[0].at]
      BY <1>1, <1>6, <2>3
    <3>2. QED
      BY <2>1, <3>1
  <2>4. QED
    BY <2>2, <2>3
<1>9. SizesAre(np, ss, sz2, mes, f)
  <2> SUFFICES ASSUME NEW d \in 1 .. Len(ss), np > 1,
                      NEW p \in 0 .. np - 1, Knows(d, p, mes[p])
               PROVE  ss[d].op = "ml_hdf5_dense"
                        /\ (\E r \in 0 .. np - 1 : ~Knows(d, r, mes[r])) =>
                        Len(f.texts[1]) = sz2[d]
    BY DEF SizesAre
  <2>1. ss[d].op = "ml_hdf5_dense"
          /\ (\E r \in 0 .. np - 1 : ~Knows(d, r, mes[r])) =>
          Len(f.texts[1]) = sz[d]
    BY DEF Fine, SizesAre
  <2>2. d # c
    BY DEF NoneKnows
  <2>3. sz2[d] = sz[d]
    BY <1>2, <2>2 DEF Besides
  <2>4. QED
    BY <2>1, <2>3
<1>10. Fine(np, ss, sz2, mes, mls, hs, rst, f)
  BY <1>3, <1>5, <1>7, <1>8, <1>9 DEF Fine
<1>11. QED
  BY <1>2, <1>10
-----------------------------------------------------------------------------
(* What one step needs, whatever it does.                                  *)
Exchanges(np, ss, sz, p, m, L, t, mls, mls2) ==
  /\ t \in Tags
  /\ \/ L \subseteq From1(np, p) /\ AreSent(np, ss, sz, p, m, L, t, mls, mls2)
     \/ L \subseteq To1(np, p) /\ AreTaken(L, t, mls, mls2)

LEMMA NothingExchanged ==
  ASSUME NEW np, NEW ss, NEW sz, NEW p, NEW m, NEW mls
  PROVE  Exchanges(np, ss, sz, p, m, {}, 0, mls, mls)
BY DEF Exchanges, AreTaken, Tags

LEMMA Stepped ==
  ASSUME NEW np, NEW ss, NEW sz, NEW mes, NEW mls, NEW hs, NEW rst, NEW f,
         Fine(np, ss, sz, mes, mls, hs, rst, f),
         NEW p \in 0 .. np - 1, NEW mes2, NEW mls2, NEW hs2, NEW rst2, NEW f2,
         Moves(np, p, mes, mes2), Moves(np, p, hs, hs2), NEW L, NEW t,
         Adds(np, ss, sz, p, mes[p], mes2[p], L, t),
         Exchanges(np, ss, sz, p, mes[p], L, t, mls, mls2),
         MeOK(np, ss, sz, p, mes2[p]), HeldOK(ss, sz, mes2[p], hs2[p]),
         RestOK(np, ss[mes2[0].at], mes2[0], sz[mes2[0].at], rst2),
         SizesAre(np, ss, sz, mes2, f2)
  PROVE  Fine(np, ss, sz, mes2, mls2, hs2, rst2, f2)
<1>1. Good(np, ss, sz, mes, mls)
  BY DEF Fine, Good
<1>2. LinesAre(np, ss, sz, mes2, mls2) /\ MailIs(np, mls2)
  <2>1. t \in Tags
    BY DEF Exchanges
  <2>2. CASE L \subseteq From1(np, p) /\ AreSent(np, ss, sz, p, mes[p], L, t, mls, mls2)
    <3>1. L \in SUBSET From1(np, p)
      BY <2>2
    <3>2. QED
      BY <1>1, <2>1, <2>2, <3>1, LinesSent
  <2>3. CASE L \subseteq To1(np, p) /\ AreTaken(L, t, mls, mls2)
    <3>1. L \in SUBSET To1(np, p)
      BY <2>3
    <3>2. QED
      BY <1>1, <2>1, <2>3, <3>1, LinesTaken
  <2>4. QED
    BY <2>2, <2>3 DEF Exchanges
<1>3. \A r \in 0 .. np - 1 : MeOK(np, ss, sz, r, mes2[r]) /\ HeldOK(ss, sz, mes2[r], hs2[r])
  <2> TAKE r \in 0 .. np - 1
  <2>1. MeOK(np, ss, sz, r, mes[r]) /\ HeldOK(ss, sz, mes[r], hs[r])
    BY DEF Fine
  <2>2. r # p => mes2[r] = mes[r] /\ hs2[r] = hs[r]
    BY DEF Moves
  <2>3. QED
    BY <2>1, <2>2
<1>4. QED
  BY <1>2, <1>3 DEF Fine

LEMMA SizesKept ==
  ASSUME NEW np, NEW ss, NEW sz, NEW mes, NEW f, SizesAre(np, ss, sz, mes, f),
         NEW p, NEW mes2, Moves(np, p, mes, mes2),
         \A c \in 1 .. Len(ss) : Knows(c, p, mes2[p]) <=> Knows(c, p, mes[p])
  PROVE  SizesAre(np, ss, sz, mes2, f)
<1>1. \A c \in 1 .. Len(ss), r \in 0 .. np - 1 :
        Knows(c, r, mes2[r]) <=> Knows(c, r, mes[r])
  BY DEF Moves
<1>2. QED
  BY <1>1 DEF SizesAre

LEMMA SizeKnown ==
  ASSUME NEW np, NEW ss, NEW sz, NEW mes, NEW f, SizesAre(np, ss, sz, mes, f),
         NEW p, NEW mes2, Moves(np, p, mes, mes2), NEW d,
         \A c \in 1 .. Len(ss) : c # d => (Knows(c, p, mes2[p]) <=> Knows(c, p, mes[p])),
         np > 1 /\ d \in 1 .. Len(ss) /\ ss[d].op = "ml_hdf5_dense" =>
           Len(f.texts[1]) = sz[d]
  PROVE  SizesAre(np, ss, sz, mes2, f)
<1> SUFFICES ASSUME NEW c \in 1 .. Len(ss), np > 1,
                    NEW r \in 0 .. np - 1, Knows(c, r, mes2[r])
             PROVE  ss[c].op = "ml_hdf5_dense"
                      /\ (\E q \in 0 .. np - 1 : ~Knows(c, q, mes2[q])) =>
                      Len(f.texts[1]) = sz[c]
  BY DEF SizesAre
<1>1. CASE c = d
  BY <1>1
<1>2. CASE c # d
  <2>1. \A q \in 0 .. np - 1 : Knows(c, q, mes2[q]) <=> Knows(c, q, mes[q])
    BY <1>2 DEF Moves
  <2>2. QED
    BY <2>1 DEF SizesAre
<1>3. QED
  BY <1>1, <1>2

(* Barriers.                                                               *)
LEMMA BarredNext ==
  ASSUME NEW ss, Len(ss) \in Nat
  PROVE  /\ \A a \in 1 .. Len(ss) + 1 : Barred(ss)[a] \in Nat
         /\ \A a \in 1 .. Len(ss) : /\ Barriers(ss[a]) \in Nat
                                    /\ Barred(ss)[a + 1] = Barred(ss)[a] + Barriers(ss[a])
         /\ \A a, b \in 1 .. Len(ss) + 1 : a <= b => Barred(ss)[a] <= Barred(ss)[b]
<1> DEFINE h == [c \in 1 .. Len(ss) |-> Barriers(ss[c])]
           b == Barred(ss)
           N == Len(ss)
<1>1. \A c \in 1 .. N : Barriers(ss[c]) \in Nat
  BY DEF Barriers, Bit
<1>2. h \in [1 .. N -> Nat] /\ \A c \in 1 .. N : h[c] = Barriers(ss[c])
  BY <1>1
<1>3. b = Acc(N, h)
  BY DEF Barred
<1> HIDE DEF h, b
<1>4. Sums(N, h, b)
  BY <1>2, <1>3, AccSums
<1>5. \A a, c \in 1 .. N + 1 : a <= c => b[a] <= b[c]
  BY <1>2, <1>4, SumsGrow
<1>6. b \in [1 .. N + 1 -> Nat] /\ \A c \in 1 .. N : b[c + 1] = b[c] + h[c]
  BY <1>4 DEF Sums
<1>7. QED
  BY <1>1, <1>2, <1>5, <1>6 DEF b

LEMMA MetNat ==
  ASSUME NEW ss, Len(ss) \in Nat, NEW m, m.at \in 1 .. Len(ss) + 1
  PROVE  Arrived(ss, m) \in Nat /\ Passed(ss, m) \in Nat /\ Barred(ss)[m.at] \in Nat
<1>1. Barred(ss)[m.at] \in Nat
  BY BarredNext
<1>2. Barriers(ss[m.at]) \in Nat /\ \A b : Bit(b) \in Nat
  BY DEF Barriers, Bit
<1>3. QED
  BY <1>1, <1>2 DEF Arrived, Passed

LEMMA MetStill ==
  ASSUME NEW np, NEW ss, Len(ss) \in Nat, NEW mes, MetAre(np, ss, mes),
         NEW p \in 0 .. np - 1, \A r \in 0 .. np - 1 : mes[r].at \in 1 .. Len(ss) + 1,
         NEW mes2, Moves(np, p, mes, mes2), mes2[p].at \in 1 .. Len(ss) + 1,
         mes2[p].met = Arrived(ss, mes2[p]), mes2[p].met >= mes[p].met,
         Passed(ss, mes2[p]) <= mes2[p].met,
         \A r \in 0 .. np - 1 : Passed(ss, mes2[p]) <= mes[r].met
  PROVE  MetAre(np, ss, mes2)
<1>1. ASSUME NEW r \in 0 .. np - 1
      PROVE  mes2[r].met = Arrived(ss, mes2[r]) /\ mes2[r].met >= mes[r].met
             /\ mes[r].met \in Nat /\ mes2[r].met \in Nat
  <2>1. mes[r].met = Arrived(ss, mes[r]) /\ mes[r].met \in Nat
    BY MetNat DEF MetAre
  <2>2. r # p => mes2[r] = mes[r]
    BY DEF Moves
  <2>3. mes2[p].met \in Nat
    BY MetNat
  <2>4. QED
    BY <2>1, <2>2, <2>3
<1>2. ASSUME NEW r \in 0 .. np - 1, NEW q \in 0 .. np - 1
      PROVE  Passed(ss, mes2[r]) <= mes2[q].met
  <2>1. mes2[q].met >= mes[q].met /\ mes[q].met \in Nat /\ mes2[q].met \in Nat
    BY <1>1
  <2>2. CASE r = p
    <3>1. Passed(ss, mes2[p]) \in Nat /\ Passed(ss, mes2[p]) <= mes[q].met
      BY MetNat
    <3>2. QED
      BY <2>1, <2>2, <3>1
  <2>3. CASE r # p
    <3>1. mes2[r] = mes[r] /\ Passed(ss, mes[r]) <= mes[q].met
      BY <2>3 DEF Moves, MetAre
    <3>2. Passed(ss, mes[r]) \in Nat
      BY MetNat
    <3>3. QED
      BY <2>1, <3>1, <3>2
  <2>4. QED
    BY <2>2, <2>3
<1>3. QED
  BY <1>1, <1>2 DEF MetAre

(* A step inside a call that meets nobody.                                 *)
Alike(m, m2) ==
  /\ m2.at = m.at /\ m2.met = m.met
  /\ \/ m.pc = m2.pc
     \/ {m.pc, m2.pc} \subseteq {"blocks", "lists"}
     \/ {m.pc, m2.pc} \subseteq {"idle", "broadcast", "blocks", "collect", "gather"}

LEMMA MetAlike ==
  ASSUME NEW np, NEW ss, NEW sz, NEW mes, NEW mls, NEW hs, NEW rst, NEW f,
         Fine(np, ss, sz, mes, mls, hs, rst, f), MetAre(np, ss, mes),
         NEW p \in 0 .. np - 1, NEW mes2, Moves(np, p, mes, mes2),
         Alike(mes[p], mes2[p])
  PROVE  MetAre(np, ss, mes2)
<1>1. Len(ss) \in Nat /\ \A r \in 0 .. np - 1 : mes[r].at \in 1 .. Len(ss) + 1
  BY DEF Fine, Settings, MeOK
<1>2. Arrived(ss, mes2[p]) = Arrived(ss, mes[p]) /\ Passed(ss, mes2[p]) = Passed(ss, mes[p])
  BY DEF Alike, Arrived, Passed, Bit
<1>3. mes[p].met = Arrived(ss, mes[p])
  BY DEF MetAre
<1>4. \A r \in 0 .. np - 1 : Passed(ss, mes[p]) <= mes[r].met
  BY DEF MetAre
<1>5. mes2[p].met = mes[p].met /\ mes2[p].at = mes[p].at /\ mes[p].met \in Nat
  BY <1>1, <1>3, MetNat DEF Alike
<1>6. QED
  BY <1>1, <1>2, <1>3, <1>4, <1>5, MetStill

LEMMA KnowsAlike ==
  ASSUME NEW m, NEW m2, Alike(m, m2), m.pc \notin {"idle", "broadcast"},
         m2.pc \notin {"idle", "broadcast"}, NEW c, NEW p
  PROVE  Knows(c, p, m2) <=> Knows(c, p, m)
BY DEF Alike, Knows, Resting
-----------------------------------------------------------------------------
(* Steps of the specification.                                             *)
Now(sz) == Fine(P, session, sz, me, mail, held, rest, file)

LEMMA Setup ==
  ASSUME IInv
  PROVE  /\ P \in Nat \ {0} /\ Procs = 0 .. P - 1 /\ 0 \in Procs /\ Len(session) \in Nat
         /\ DOMAIN me = Procs /\ DOMAIN held = Procs
         /\ \E sz : Now(sz)
<1>1. PICK sz \in Sizings : Fine(P, session, sz, me, mail, held, rest, file)
  BY DEF IInv
<1>2. Settings(P, session, sz)
  BY <1>1 DEF Fine
<1>3. P \in Nat \ {0} /\ Len(session) \in Nat /\ Procs = 0 .. P - 1
  BY <1>2 DEF Settings, Procs
<1>4. 0 \in Procs
  BY <1>3
<1>5. Now(sz)
  BY <1>1 DEF Now
<1>6. QED
  BY <1>3, <1>4, <1>5 DEF IInv

LEMMA SameP ==
  ASSUME UNCHANGED given
  PROVE  P' = P /\ Procs' = Procs /\ session' = session /\ Sizings' = Sizings
BY DEF given, P, Procs, Sizings

Written == \E c \in 1 .. Len(session) : session[c].op \in Writes

LEMMA Concluded ==
  ASSUME IInv, UNCHANGED given, FileIs(file'), file' = file \/ Written,
         DOMAIN me' = Procs, DOMAIN held' = Procs, MetAre(P, session, me'),
         NEW sz, Fine(P, session, sz, me', mail', held', rest', file')
  PROVE  IInv'
<1>1. P' = P /\ Procs' = Procs /\ session' = session /\ Sizings' = Sizings
  BY SameP
<1>2. sz \in Sizings
  BY DEF Fine, Settings, Sizings
<1>3. CaseOK'
  <2>1. PICK case \in Cases :
          /\ grid = case.grid /\ session = case.session /\ limits = case.limits
          /\ (\A c \in 1 .. Len(session) : session[c].op \notin Writes) => file = case.file
          /\ P = 1 \/ Matched(case)
          /\ Cleared(case)
    BY DEF IInv, CaseOK
  <2>2. grid' = grid /\ limits' = limits
    BY DEF given
  <2>3. (\A c \in 1 .. Len(session) : session[c].op \notin Writes) => file' = case.file
    BY <2>1 DEF Written
  <2>4. QED
    BY <1>1, <2>1, <2>2, <2>3 DEF CaseOK
<1>4. QED
  BY <1>1, <1>2, <1>3 DEF IInv

LEMMA Put ==
  ASSUME DOMAIN me = Procs, NEW p \in Procs, NEW e, me' = [me EXCEPT ![p] = e]
  PROVE  DOMAIN me' = Procs /\ Moves(P, p, me, me') /\ me'[p] = e
BY DEF Moves, Procs

LEMMA PutHeld ==
  ASSUME DOMAIN held = Procs, NEW p \in Procs, NEW e, held' = [held EXCEPT ![p] = e]
  PROVE  DOMAIN held' = Procs /\ Moves(P, p, held, held') /\ held'[p] = e
BY DEF Moves, Procs

LEMMA HeldSame ==
  ASSUME DOMAIN held = Procs, held' = held, NEW p
  PROVE  DOMAIN held' = Procs /\ Moves(P, p, held, held') /\ held'[p] = held[p]
BY DEF Moves

LEMMA Gone ==
  ASSUME DOMAIN me = Procs, NEW p \in Procs, RecordOK(me[p]),
         NEW pc, NEW i, NEW k, NEW size, Goes(p, pc, i, k, size)
  PROVE  /\ DOMAIN me' = Procs /\ Moves(P, p, me, me') /\ RecordOK(me'[p])
         /\ me'[p].at = me[p].at /\ me'[p].pc = pc /\ me'[p].i = i /\ me'[p].k = k
         /\ me'[p].met = me[p].met /\ me'[p].size = size /\ me'[p].got = <<>>
<1> DEFINE m == me[p]
           e == [m EXCEPT !.pc = pc, !.i = i, !.k = k, !.size = size, !.got = <<>>]
<1>1. me' = [me EXCEPT ![p] = e]
  BY DEF Goes
<1>2. DOMAIN m = {"at", "pc", "i", "k", "met", "size", "got"}
  BY DEF RecordOK
<1>3. /\ DOMAIN e = {"at", "pc", "i", "k", "met", "size", "got"}
      /\ e.at = m.at /\ e.pc = pc /\ e.i = i /\ e.k = k
      /\ e.met = m.met /\ e.size = size /\ e.got = <<>>
  <2> HIDE DEF m
  <2>1. QED
    BY <1>2
<1> HIDE DEF e
<1>4. QED
  BY <1>1, <1>3, Put DEF RecordOK

LEMMA Returned ==
  ASSUME DOMAIN me = Procs, NEW p \in Procs, RecordOK(me[p]), Return(p)
  PROVE  /\ DOMAIN me' = Procs /\ Moves(P, p, me, me') /\ RecordOK(me'[p])
         /\ me'[p].at = me[p].at + 1 /\ me'[p].pc = "idle" /\ me'[p].met = me[p].met
<1> DEFINE m == me[p]
           n == me[p].at + 1
           e == [m EXCEPT !.at = n, !.pc = "idle"]
<1>1. me' = [me EXCEPT ![p] = e]
  BY DEF Return
<1>2. DOMAIN m = {"at", "pc", "i", "k", "met", "size", "got"}
  BY DEF RecordOK
<1>3. /\ DOMAIN e = {"at", "pc", "i", "k", "met", "size", "got"}
      /\ e.at = n /\ e.pc = "idle" /\ e.met = m.met
  <2> HIDE DEF m, n
  <2>1. QED
    BY <1>2
<1> HIDE DEF e
<1>4. QED
  BY <1>1, <1>3, Put DEF RecordOK

LEMMA Met ==
  ASSUME DOMAIN me = Procs, NEW p \in Procs, RecordOK(me[p]), NEW pc, Meets(p, pc)
  PROVE  /\ DOMAIN me' = Procs /\ Moves(P, p, me, me') /\ RecordOK(me'[p])
         /\ me'[p].at = me[p].at /\ me'[p].pc = pc /\ me'[p].met = me[p].met + 1
<1> DEFINE m == me[p]
           n == me[p].met + 1
           e == [m EXCEPT !.pc = pc, !.met = n, !.got = <<>>]
<1>1. me' = [me EXCEPT ![p] = e]
  BY DEF Meets
<1>2. DOMAIN m = {"at", "pc", "i", "k", "met", "size", "got"}
  BY DEF RecordOK
<1>3. /\ DOMAIN e = {"at", "pc", "i", "k", "met", "size", "got"}
      /\ e.at = m.at /\ e.pc = pc /\ e.met = n
  <2> HIDE DEF m, n
  <2>1. QED
    BY <1>2
<1> HIDE DEF e
<1>4. QED
  BY <1>1, <1>3, Put DEF RecordOK

LEMMA Counts ==
  ASSUME DOMAIN me = Procs, NEW p \in Procs, RecordOK(me[p]), NEW got,
         me' = [me EXCEPT ![p] = [@ EXCEPT !.k = me[p].k + 1, !.got = got]]
  PROVE  /\ DOMAIN me' = Procs /\ Moves(P, p, me, me') /\ RecordOK(me'[p])
         /\ me'[p].at = me[p].at /\ me'[p].pc = me[p].pc /\ me'[p].i = me[p].i
         /\ me'[p].k = me[p].k + 1
         /\ me'[p].met = me[p].met /\ me'[p].size = me[p].size /\ me'[p].got = got
<1> DEFINE m == me[p]
           n == me[p].k + 1
           e == [m EXCEPT !.k = n, !.got = got]
<1>1. me' = [me EXCEPT ![p] = e]
  OBVIOUS
<1>2. DOMAIN m = {"at", "pc", "i", "k", "met", "size", "got"}
  BY DEF RecordOK
<1>3. /\ DOMAIN e = {"at", "pc", "i", "k", "met", "size", "got"}
      /\ e.at = m.at /\ e.pc = m.pc /\ e.i = m.i /\ e.k = n
      /\ e.met = m.met /\ e.size = m.size /\ e.got = got
  <2> HIDE DEF m, n
  <2>1. QED
    BY <1>2
<1> HIDE DEF e
<1>4. QED
  BY <1>1, <1>3, Put DEF RecordOK

LEMMA Added ==
  ASSUME DOMAIN held = Procs, NEW p \in Procs, NEW X, NEW Y, Add(p, X, Y),
         "n" \in DOMAIN held[p]
  PROVE  /\ DOMAIN held' = Procs /\ Moves(P, p, held, held')
         /\ "n" \in DOMAIN held'[p] /\ held'[p].n = held[p].n
<1> DEFINE h == held[p]
           e == [h EXCEPT !.X = h.X \cup X, !.Y = h.Y \cup Y]
<1>1. held' = [held EXCEPT ![p] = e]
  BY DEF Add
<1>2. "n" \in DOMAIN e /\ e.n = h.n
  OBVIOUS
<1> HIDE DEF e
<1>3. QED
  BY <1>1, <1>2, PutHeld

LEMMA HeldKept ==
  ASSUME NEW ss, NEW sz, NEW m, NEW h, HeldOK(ss, sz, m, h), NEW m2, NEW h2,
         "n" \in DOMAIN h2, h2.n = h.n, m2.at = m.at, m2.pc # "idle",
         m2.pc \in {"blocks", "lists", "gather"} => m.pc \in {"blocks", "lists", "gather"}
  PROVE  HeldOK(ss, sz, m2, h2)
BY DEF HeldOK

LEMMA OldestSame ==
  ASSUME NEW p, NEW q, NEW t
  PROVE  Oldest(p, q, t) = OldestOf(mail[<<p, q>>], t)
BY DEF Oldest, OldestOf

LEMMA SendIs ==
  ASSUME MailIs(P, mail), NEW p \in Procs, NEW q \in Procs, NEW t, NEW w,
         Send(p, q, t, w), NEW ss, NEW sz, NEW m, Says(P, ss, sz, p, m, <<p, q>>, t, w)
  PROVE  AreSent(P, ss, sz, p, m, {<<p, q>>}, t, mail, mail')
<1>1. DOMAIN mail = Procs \X Procs /\ <<p, q>> \in DOMAIN mail
  BY DEF MailIs, Procs
<1>2. mail' = [mail EXCEPT ![<<p, q>>] = Append(mail[<<p, q>>], Message(t, w))]
  BY DEF Send
<1>3. /\ DOMAIN mail' = DOMAIN mail
      /\ mail'[<<p, q>>] = Append(mail[<<p, q>>], Message(t, w))
      /\ \A pair \in DOMAIN mail \ {<<p, q>>} : mail'[pair] = mail[pair]
  BY <1>1, <1>2
<1>4. QED
  BY <1>3 DEF AreSent

LEMMA TakeIs ==
  ASSUME MailIs(P, mail), NEW p \in Procs, NEW q \in Procs, NEW t,
         Has(p, q, t), Take(p, q, t)
  PROVE  AreTaken({<<p, q>>}, t, mail, mail')
<1>1. DOMAIN mail = Procs \X Procs /\ <<p, q>> \in DOMAIN mail
  BY DEF MailIs, Procs
<1>2. Oldest(p, q, t) = OldestOf(mail[<<p, q>>], t)
  BY OldestSame
<1>3. /\ mail' = [mail EXCEPT ![<<p, q>>] =
                    RemoveAt(mail[<<p, q>>], OldestOf(mail[<<p, q>>], t))]
      /\ OldestOf(mail[<<p, q>>], t) # 0
  BY <1>2 DEF Take, Has
<1>4. QED
  BY <1>1, <1>3 DEF AreTaken

LEMMA InsideStep ==
  ASSUME IInv, NEW p \in Procs, NEW sz, Now(sz), UNCHANGED given,
         DOMAIN me' = Procs, Moves(P, p, me, me'),
         DOMAIN held' = Procs, Moves(P, p, held, held'),
         Alike(me[p], me'[p]), me[p].pc \notin {"idle", "broadcast"},
         me'[p].pc \notin {"idle", "broadcast"}, NEW L, NEW t,
         PartAdds(P, p, session[me[p].at], sz[me[p].at], me[p], me'[p], L, t),
         Exchanges(P, session, sz, p, me[p], L, t, mail, mail'),
         MeOK(P, session, sz, p, me'[p]), HeldOK(session, sz, me'[p], held'[p]),
         \/ p # 0 /\ rest' = rest
         \/ p = 0 /\ RestOK(P, session[me[0].at], me'[0], sz[me[0].at], rest'),
         \/ file' = file
         \/ FileIs(file') /\ SizesAre(P, session, sz, me, file') /\ Written
  PROVE  IInv'
<1>1. Fine(P, session, sz, me, mail, held, rest, file) /\ Procs = 0 .. P - 1
  BY DEF Now, Procs
<1>2. /\ Settings(P, session, sz) /\ MeOK(P, session, sz, p, me[p])
      /\ SizesAre(P, session, sz, me, file)
  BY <1>1 DEF Fine
<1>3. me[p].at <= Len(session) /\ me'[p].at = me[p].at
  BY <1>2 DEF MeOK, Alike
<1>4. Adds(P, session, sz, p, me[p], me'[p], L, t)
  BY <1>2, <1>3, AddsWithin
<1>5. MetAre(P, session, me')
  BY <1>1, MetAlike DEF IInv
<1>6. \A c \in 1 .. Len(session) : Knows(c, p, me'[p]) <=> Knows(c, p, me[p])
  BY KnowsAlike
<1>7. SizesAre(P, session, sz, me', file')
  <2>1. SizesAre(P, session, sz, me, file')
    BY <1>2
  <2>2. QED
    BY <1>6, <2>1, SizesKept
<1>8. RestOK(P, session[me'[0].at], me'[0], sz[me'[0].at], rest')
  <2>1. CASE p # 0 /\ rest' = rest
    <3>1. 0 \in 0 .. P - 1 /\ p \in 0 .. P - 1
      BY <1>1, <1>2 DEF Settings
    <3>2. me'[0] = me[0]
      BY <2>1, <3>1 DEF Moves
    <3>3. QED
      BY <1>1, <2>1, <3>2 DEF Fine
  <2>2. CASE p = 0 /\ RestOK(P, session[me[0].at], me'[0], sz[me[0].at], rest')
    BY <1>3, <2>2
  <2>3. QED
    BY <2>1, <2>2
<1>9. Fine(P, session, sz, me', mail', held', rest', file')
  BY <1>1, <1>4, <1>7, <1>8, Stepped
<1>10. FileIs(file') /\ (file' = file \/ Written)
  BY DEF IInv
<1>11. QED
  BY <1>5, <1>9, <1>10, Concluded

-----------------------------------------------------------------------------
(* What a process that takes a step knows.                                 *)
LEMMA Facts ==
  ASSUME IInv, NEW p \in Procs, NEW sz, Now(sz)
  PROVE  /\ P \in Nat \ {0} /\ p \in 0 .. P - 1 /\ 0 \in 0 .. P - 1 /\ 0 \in Procs
         /\ Len(session) \in Nat
         /\ Settings(P, session, sz) /\ MeOK(P, session, sz, p, me[p])
         /\ HeldOK(session, sz, me[p], held[p]) /\ MailIs(P, mail)
         /\ RestOK(P, session[me[0].at], me[0], sz[me[0].at], rest)
         /\ SizesAre(P, session, sz, me, file) /\ RecordOK(me[p])
         /\ DOMAIN me = Procs /\ DOMAIN held = Procs
         /\ me[p].pc # "idle" => /\ me[p].at \in 1 .. Len(session)
                                 /\ sz[me[p].at] \in Nat
                                 /\ InCall(P, session[me[p].at], p, me[p], sz[me[p].at])
<1>1. /\ P \in Nat \ {0} /\ Procs = 0 .. P - 1 /\ 0 \in Procs /\ Len(session) \in Nat
      /\ DOMAIN me = Procs /\ DOMAIN held = Procs
  BY Setup
<1>2. Fine(P, session, sz, me, mail, held, rest, file)
  BY DEF Now
<1>3. /\ Settings(P, session, sz) /\ MeOK(P, session, sz, p, me[p])
      /\ HeldOK(session, sz, me[p], held[p]) /\ MailIs(P, mail)
      /\ RestOK(P, session[me[0].at], me[0], sz[me[0].at], rest)
      /\ SizesAre(P, session, sz, me, file)
  BY <1>1, <1>2 DEF Fine
<1>4. RecordOK(me[p])
  BY <1>3 DEF MeOK
<1>5. me[p].pc # "idle" => /\ me[p].at \in 1 .. Len(session)
                           /\ InCall(P, session[me[p].at], p, me[p], sz[me[p].at])
  BY <1>1, <1>3 DEF MeOK
<1>6. me[p].pc # "idle" => sz[me[p].at] \in Nat
  BY <1>3, <1>5 DEF Settings
<1>7. QED
  BY <1>1, <1>3, <1>4, <1>5, <1>6

LEMMA Within ==
  ASSUME NEW np, NEW ss, NEW sz, NEW p, NEW m, MeOK(np, ss, sz, p, m), m.pc # "idle",
         NEW m2, RecordOK(m2), m2.at = m.at,
         \/ /\ m2.pc = "blocks" /\ InBlock1(ss[m.at], p, m2, sz[m.at])
            /\ m2.size.n = sz[m.at]
         \/ /\ m2.pc = "lists" /\ InLists(np, ss[m.at], p, m2, sz[m.at])
            /\ m2.size.n = sz[m.at]
         \/ m2.pc = "ready" /\ ss[m.at].op \in Shared /\ m2.size.n = sz[m.at]
         \/ /\ m2.pc = "shares" /\ InShares(np, ss[m.at], p, m2, sz[m.at])
            /\ m2.size.n = sz[m.at]
         \/ m2.pc = "collect" /\ InCollect(np, ss[m.at], p, m2)
         \/ /\ m2.pc = "gather" /\ InGather(ss[m.at], p, m2, sz[m.at])
            /\ m2.size.n = sz[m.at]
         \/ m2.pc = "leave" /\ ss[m.at].op \in Shared \cup {"write_hdf5"}
  PROVE  MeOK(np, ss, sz, p, m2)
<1>1. m.at \in 1 .. Len(ss) + 1 /\ m.at <= Len(ss)
  BY DEF MeOK
<1>2. InCall(np, ss[m2.at], p, m2, sz[m2.at])
  BY DEF InCall
<1>3. QED
  BY <1>1, <1>2 DEF MeOK

(* Messages of a step.                                                     *)
LEMMA SentOne ==
  ASSUME MailIs(P, mail), NEW p \in Procs, NEW q \in Procs, p # q, p = 0 \/ q = 0,
         NEW t \in Tags, NEW w, Send(p, q, t, w),
         NEW ss, NEW sz, NEW m, Says(P, ss, sz, p, m, <<p, q>>, t, w)
  PROVE  Exchanges(P, ss, sz, p, m, {<<p, q>>}, t, mail, mail')
<1>1. AreSent(P, ss, sz, p, m, {<<p, q>>}, t, mail, mail')
  BY SendIs
<1>2. {<<p, q>>} \subseteq From1(P, p)
  BY DEF From1, Procs
<1>3. QED
  BY <1>1, <1>2 DEF Exchanges

LEMMA TookOne ==
  ASSUME MailIs(P, mail), NEW p \in Procs, NEW q \in Procs, p # q, p = 0 \/ q = 0,
         NEW t \in Tags, Has(p, q, t), Take(p, q, t), NEW ss, NEW sz, NEW m
  PROVE  Exchanges(P, ss, sz, q, m, {<<p, q>>}, t, mail, mail')
<1>1. AreTaken({<<p, q>>}, t, mail, mail')
  BY TakeIs
<1>2. {<<p, q>>} \subseteq To1(P, q)
  BY DEF To1, Procs
<1>3. QED
  BY <1>1, <1>2 DEF Exchanges

LEMMA SentToAll ==
  ASSUME MailIs(P, mail), 0 \in Procs, NEW ss, NEW sz, NEW m, NEW w,
         DOMAIN mail' = DOMAIN mail,
         \A pair \in DOMAIN mail :
           mail'[pair] = IF pair[1] = 0 /\ pair[2] # 0
                         THEN Append(mail[pair], Message(Collective, w[pair[2]]))
                         ELSE mail[pair],
         \A q \in 1 .. P - 1 : Says(P, ss, sz, 0, m, <<0, q>>, Collective, w[q])
  PROVE  Exchanges(P, ss, sz, 0, m, Down(P, 0), Collective, mail, mail')
<1>1. Down(P, 0) = {0} \X (1 .. P - 1) /\ DOMAIN mail = (0 .. P - 1) \X (0 .. P - 1)
  BY DEF Down, MailIs
<1>2. Down(P, 0) \subseteq From1(P, 0)
  BY <1>1 DEF From1, Procs
<1>3. \A pair \in DOMAIN mail \ Down(P, 0) : mail'[pair] = mail[pair]
  BY <1>1
<1>4. ASSUME NEW pair \in Down(P, 0)
      PROVE  \E v : /\ mail'[pair] = Append(mail[pair], Message(Collective, v))
                    /\ Says(P, ss, sz, 0, m, pair, Collective, v)
  <2>1. pair = <<0, pair[2]>> /\ pair[2] \in 1 .. P - 1 /\ pair[1] = 0
    BY <1>1
  <2>2. pair \in DOMAIN mail /\ pair[2] # 0
    BY <1>1, <2>1 DEF Procs
  <2>3. QED
    BY <2>1, <2>2
<1>5. AreSent(P, ss, sz, 0, m, Down(P, 0), Collective, mail, mail')
  BY <1>3, <1>4 DEF AreSent
<1>6. QED
  BY <1>2, <1>5 DEF Exchanges, Tags

LEMMA TookFromAll ==
  ASSUME MailIs(P, mail), 0 \in Procs, NEW ss, NEW sz, NEW m,
         \A q \in Procs \ {0} : Has(q, 0, Collective),
         mail' = [pair \in DOMAIN mail |->
                    IF pair[2] = 0 /\ pair[1] # 0
                    THEN RemoveAt(mail[pair], Oldest(pair[1], 0, Collective))
                    ELSE mail[pair]]
  PROVE  Exchanges(P, ss, sz, 0, m, Up(P, 0), Collective, mail, mail')
<1>1. Up(P, 0) = (1 .. P - 1) \X {0} /\ DOMAIN mail = (0 .. P - 1) \X (0 .. P - 1)
  BY DEF Up, MailIs
<1>2. Up(P, 0) \subseteq To1(P, 0)
  BY <1>1 DEF To1, Procs
<1>3. DOMAIN mail' = DOMAIN mail /\ \A pair \in DOMAIN mail \ Up(P, 0) : mail'[pair] = mail[pair]
  BY <1>1
<1>4. ASSUME NEW pair \in Up(P, 0)
      PROVE  /\ OldestOf(mail[pair], Collective) # 0
             /\ mail'[pair] = RemoveAt(mail[pair], OldestOf(mail[pair], Collective))
  <2>1. pair = <<pair[1], 0>> /\ pair[1] \in 1 .. P - 1 /\ pair[2] = 0
    BY <1>1
  <2>2. pair \in DOMAIN mail /\ pair[1] # 0 /\ pair[1] \in Procs
    BY <1>1, <2>1 DEF Procs
  <2>3. Oldest(pair[1], 0, Collective) = OldestOf(mail[pair], Collective)
    BY <2>1, OldestSame
  <2>4. mail'[pair] = RemoveAt(mail[pair], Oldest(pair[1], 0, Collective))
    BY <2>1, <2>2
  <2>5. Oldest(pair[1], 0, Collective) # 0
    BY <2>2 DEF Has
  <2>6. QED
    BY <2>3, <2>4, <2>5
<1>5. AreTaken(Up(P, 0), Collective, mail, mail')
  BY <1>3, <1>4 DEF AreTaken
<1>6. QED
  BY <1>2, <1>5 DEF Exchanges, Tags

-----------------------------------------------------------------------------
(* Lines dealt to a process, and lines of a block.                         *)
LEMMA LinesKnown ==
  ASSUME NEW p, held[p].n \in Nat
  PROVE  Sequential(ColumnsOf(p)) /\ Sequential(LocalLines(p))
<1> DEFINE s == ColumnsOf(p)
           n == held[p].n
           w == 0
<1>1. n \in Nat /\ w \in Nat
  OBVIOUS
<1>2. s = Dealt(grid, "VC", <<w, n>>, Place(p))
  BY DEF ColumnsOf
<1> HIDE DEF n, w, s
<1>3. Deals(s, StrideOf(grid, "VC"), RankOf(grid, "VC", Place(p)), w, n)
  BY <1>1, <1>2, DealtDeals
<1>4. \E S : s \in Seq(S)
  <2> DEFINE d == StrideOf(grid, "VC")
             r == RankOf(grid, "VC", Place(p))
  <2>1. Deals(s, d, r, w, n)
    BY <1>3
  <2> HIDE DEF d, r
  <2>2. \E S : Enumerates(s, S)
    BY <1>1, <2>1, DealsEnumerates
  <2>3. QED
    BY <2>2 DEF Enumerates
<1>5. Sequential(s)
  BY <1>4, IsSequential
<1>6. Len(s) \in Nat /\ DOMAIN s = 1 .. Len(s)
  BY <1>5, AsSeq
<1>7. LocalLines(p) = [k \in 1 .. Len(s) |-> LineOf(held[p].X, held[p].Y, s[k])]
  BY <1>6 DEF LocalLines, s
<1> DEFINE t == LocalLines(p)
<1>8. t = [k \in 1 .. Len(s) |-> t[k]]
  BY <1>7
<1> HIDE DEF t
<1>9. Sequential(t)
  BY <1>6, <1>8, Sequentials
<1>10. QED
  BY <1>5, <1>9 DEF s, t

LEMMA ListIs ==
  ASSUME NEW X, NEW Y, NEW first, NEW count \in Nat
  PROVE  Sequential(LinesOf(X, Y, first, count))
<1> DEFINE t == LinesOf(X, Y, first, count)
<1>1. t = [k \in 1 .. count |-> t[k]]
  BY DEF LinesOf
<1> HIDE DEF t
<1>2. Sequential(t)
  BY <1>1, Sequentials
<1>3. QED
  BY <1>2 DEF t

LEMMA Singles ==
  Sequential(<< >>) /\ \A x : Sequential(<<x>>) /\ Len(<<x>>) = 1 /\ <<x>>[1] = x
<1>1. Sequential(<< >>)
  BY NoMessages DEF Carries
<1>2. ASSUME NEW x PROVE Sequential(<<x>>) /\ Len(<<x>>) = 1 /\ <<x>>[1] = x
  <2>1. <<x>> = [k \in 1 .. 1 |-> <<x>>[k]] /\ Len(<<x>>) = 1
    OBVIOUS
  <2>2. QED
    BY <2>1 DEF Sequential
<1>3. QED
  BY <1>1, <1>2

LEMMA BlockSizes ==
  ASSUME NEW call, call.op # "hdf5_dist", NEW n \in Nat, NEW i \in 1 .. NB(call, n)
  PROVE  BlocksOf(call, n)[i][2] \in Nat
<1> DEFINE B == BlockSize
           full == n \div B
           s == [k \in 1 .. full |-> <<(k - 1) * B, B>>]
           t == IF n % B = 0 THEN << >> ELSE <<<<full * B, n % B>>>>
<1>1. B \in Nat \ {0}
  BY BlockSizeAssumption
<1>2. full \in Nat /\ n % B \in Nat
  <2>1. n \div B \in Nat /\ n % B \in 0 .. B - 1
    BY <1>1, DivMod
  <2>2. QED
    BY <1>1, <2>1
<1>3. BlocksOf(call, n) = s \o t
  BY DEF BlocksOf, Blocks
<1>4. s = [k \in 1 .. full |-> s[k]] /\ \A k \in 1 .. full : s[k][2] \in Nat
  BY <1>1
<1>5. Sequential(t) /\ Len(t) \in Nat /\ \A k \in 1 .. Len(t) : t[k][2] \in Nat
  <2>1. CASE n % B = 0
    <3>1. t = << >> /\ Len(<< >>) = 0
      BY <2>1
    <3>2. QED
      BY <3>1, Singles
  <2>2. CASE n % B # 0
    <3> DEFINE x == <<full * B, n % B>>
    <3>1. t = <<x>> /\ x[2] = n % B
      BY <2>2
    <3> HIDE DEF x, t
    <3>2. Sequential(t) /\ Len(t) = 1 /\ t[1] = x
      BY <3>1, Singles
    <3>3. QED
      BY <1>2, <3>1, <3>2
  <2>3. QED
    BY <2>1, <2>2
<1> HIDE DEF s, t, full
<1>6. Sequential(s) /\ Len(s) = full
  BY <1>2, <1>4, Sequentials
<1>7. Joins(s \o t, s, t)
  BY <1>5, <1>6, Joined
<1> DEFINE u == s \o t
<1>8. /\ i \in 1 .. full + Len(t)
      /\ \A k \in 1 .. full : u[k] = s[k]
      /\ \A k \in 1 .. Len(t) : u[full + k] = t[k]
  BY <1>3, <1>6, <1>7 DEF Joins, NB
<1> HIDE DEF u
<1>9. u[i][2] \in Nat
  <2>1. CASE i \in 1 .. full
    BY <1>4, <1>8, <2>1
  <2>2. CASE i \notin 1 .. full
    <3>1. i - full \in 1 .. Len(t) /\ full + (i - full) = i
      BY <1>2, <1>5, <1>8, <2>2
    <3>2. u[i] = t[i - full]
      BY <1>8, <3>1
    <3>3. QED
      BY <1>5, <3>1, <3>2
  <2>3. QED
    BY <2>1, <2>2
<1>10. QED
  BY <1>3, <1>9 DEF u
-----------------------------------------------------------------------------
(* Each action keeps the invariant.  First those inside a call.            *)
LEMMA TakeBlockKeeps ==
  ASSUME IInv, NEW p \in Procs, TakeBlock(p)
  PROVE  IInv'
<1>1. PICK sz : Now(sz)
  BY Setup
<1> DEFINE m == me[p]
           n == sz[m.at]
           call == session[m.at]
<1>2. /\ m.pc = "blocks" /\ p # 0 /\ Has(0, p, Collective) /\ Take(0, p, Collective)
      /\ HasBlock(p) /\ (call.op \in InBlocks \/ m.k = 3)
      /\ Goes(p, "blocks", m.i + 1, 0, m.size)
      /\ Add(p, Received(0, p, Collective).X, Received(0, p, Collective).Y)
      /\ UNCHANGED given /\ file' = file /\ rest' = rest
  BY DEF TakeBlock, At, Call, Steps
<1>3. /\ P \in Nat \ {0} /\ p \in 0 .. P - 1 /\ 0 \in Procs
      /\ MeOK(P, session, sz, p, m) /\ HeldOK(session, sz, m, held[p])
      /\ MailIs(P, mail) /\ RecordOK(m) /\ DOMAIN me = Procs /\ DOMAIN held = Procs
      /\ n \in Nat /\ InCall(P, call, p, m, n)
  BY <1>1, <1>2, Facts
<1>4. /\ DOMAIN me' = Procs /\ Moves(P, p, me, me') /\ RecordOK(me'[p])
      /\ me'[p].at = m.at /\ me'[p].pc = "blocks" /\ me'[p].i = m.i + 1
      /\ me'[p].k = 0 /\ me'[p].met = m.met /\ me'[p].size = m.size
  BY <1>2, <1>3, Gone
<1>5. /\ InBlock1(call, p, m, n) /\ m.size.n = n
  BY <1>2, <1>3 DEF InCall
<1>6. /\ NB(call, n) \in Nat /\ m.i \in 1 .. NB(call, n) /\ m.i \in Nat /\ m.k \in Nat
      /\ call.op = "vc_star" => m.k = 3
  <2>1. m.i <= NB(call, n)
    BY <1>2, <1>5 DEF HasBlock, BlocksAt, Call, NB
  <2>2. NB(call, n) \in Nat
    BY <1>3, NBNat
  <2>3. QED
    BY <1>2, <1>5, <2>1, <2>2 DEF InBlock1, InBlocks
<1>7. InBlock1(call, p, me'[p], n)
  BY <1>4, <1>5, <1>6 DEF InBlock1
<1> DEFINE m2 == me'[p]
<1> HIDE DEF m, n, call, m2
<1>8. MeOK(P, session, sz, p, m2)
  BY <1>2, <1>3, <1>4, <1>5, <1>7, Within DEF m2, n, call
<1>9. PartAdds(P, p, call, n, m, m2, Down(P, p), Collective)
  <2>1. /\ m.pc \in {"blocks", "lists"} /\ m2.pc = "blocks"
        /\ m.i \in Nat /\ m2.i = m.i + 1 /\ m.k \in Nat /\ m2.k = 0
    BY <1>2, <1>4, <1>6 DEF m2
  <2>2. /\ call.op = "vc_star" => m.k = IF p = 0 THEN 3 * (P - 1) ELSE 3
        /\ call.op = "vc_star" /\ p = 0 => m.pc = "lists"
    BY <1>2, <1>6
  <2> DEFINE np == P
             i == p
  <2>3. np \in Nat \ {0} /\ i \in 0 .. np - 1 /\ n \in Nat
    BY <1>3
  <2>4. /\ call.op = "vc_star" => m.k = IF i = 0 THEN 3 * (np - 1) ELSE 3
        /\ call.op = "vc_star" /\ i = 0 => m.pc = "lists"
    BY <2>2
  <2> HIDE DEF np, i
  <2>5. PartAdds(np, i, call, n, m, m2, Down(np, i), Collective)
    BY <2>1, <2>3, <2>4, BlockCounts
  <2>6. QED
    BY <2>5 DEF np, i
<1>10. Exchanges(P, session, sz, p, m, Down(P, p), Collective, mail, mail')
  <2>1. Down(P, p) = {<<0, p>>}
    BY <1>2 DEF Down
  <2>2. Collective \in Tags
    BY DEF Tags
  <2>3. Exchanges(P, session, sz, p, m, {<<0, p>>}, Collective, mail, mail')
    BY <1>2, <1>3, <2>2, TookOne
  <2>4. QED
    BY <2>1, <2>3
<1>11. DOMAIN held' = Procs /\ Moves(P, p, held, held') /\ HeldOK(session, sz, m2, held'[p])
  <2>1. "n" \in DOMAIN held[p]
    BY <1>3 DEF HeldOK
  <2>2. /\ DOMAIN held' = Procs /\ Moves(P, p, held, held')
        /\ "n" \in DOMAIN held'[p] /\ held'[p].n = held[p].n
    BY <1>2, <1>3, <2>1, Added
  <2>3. QED
    BY <1>2, <1>3, <1>4, <2>2, HeldKept DEF m2
<1>12. Alike(m, m2)
  BY <1>2, <1>4 DEF Alike, m2
<1>13. QED
  BY <1>1, <1>2, <1>4, <1>8, <1>9, <1>10, <1>11, <1>12, InsideStep DEF m, n, call, m2

LEMMA HeldThen ==
  ASSUME DOMAIN held = Procs, NEW p \in Procs, NEW ss, NEW sz, NEW m, NEW m2,
         HeldOK(ss, sz, m, held[p]), held' = held \/ (\E X, Y : Add(p, X, Y)),
         m2.at = m.at, m2.pc # "idle",
         m2.pc \in {"blocks", "lists", "gather"} => m.pc \in {"blocks", "lists", "gather"}
  PROVE  DOMAIN held' = Procs /\ Moves(P, p, held, held') /\ HeldOK(ss, sz, m2, held'[p])
<1>1. "n" \in DOMAIN held[p]
  BY DEF HeldOK
<1>2. /\ DOMAIN held' = Procs /\ Moves(P, p, held, held')
      /\ "n" \in DOMAIN held'[p] /\ held'[p].n = held[p].n
  BY <1>1, HeldSame, Added
<1>3. HeldOK(ss, sz, m2, held'[p])
  BY <1>2, HeldKept
<1>4. QED
  BY <1>2, <1>3

LEMMA ScatterKeeps ==
  ASSUME IInv, NEW p \in Procs, NEW op \in InBlocks, HasLines(p, op), NEW X, NEW Y,
         ScatterBlock(p, X, Y)
  PROVE  IInv'
<1>1. PICK sz : Now(sz)
  BY Setup
<1> DEFINE m == me[p]
           n == sz[m.at]
           call == session[m.at]
           w == [q \in Procs |-> [X |-> PartOf(q, DistsOf(call).X, call.direction, X),
                                  Y |-> PartOf(q, DistsOf(call).Y, call.direction, Y)]]
<1>2. /\ m.pc = "blocks" /\ p = 0 /\ HasBlock(p) /\ call.op = op
      /\ Goes(p, "blocks", m.i + 1, 0, m.size)
      /\ \E V, W : Add(p, V, W)
      /\ UNCHANGED given /\ file' = file
  BY DEF HasLines, ScatterBlock, At, Call, Steps
<1>3. /\ DOMAIN mail' = DOMAIN mail
      /\ \A pair \in DOMAIN mail :
           mail'[pair] = IF pair[1] = p /\ pair[2] \in Procs \ {p}
                         THEN Append(mail[pair], Message(Collective,
                              [X |-> PartOf(pair[2], DistsOf(call).X, call.direction, X),
                               Y |-> PartOf(pair[2], DistsOf(call).Y, call.direction, Y)]))
                         ELSE mail[pair]
  BY DEF ScatterBlock, SendEach, Call
<1>4. /\ P \in Nat \ {0} /\ p \in 0 .. P - 1 /\ 0 \in Procs /\ Settings(P, session, sz)
      /\ MeOK(P, session, sz, p, m) /\ HeldOK(session, sz, m, held[p])
      /\ MailIs(P, mail) /\ RecordOK(m) /\ DOMAIN me = Procs /\ DOMAIN held = Procs
      /\ n \in Nat /\ InCall(P, call, p, m, n)
  BY <1>1, <1>2, Facts
<1>5. /\ DOMAIN me' = Procs /\ Moves(P, p, me, me') /\ RecordOK(me'[p])
      /\ me'[p].at = m.at /\ me'[p].pc = "blocks" /\ me'[p].i = m.i + 1
      /\ me'[p].k = 0 /\ me'[p].met = m.met /\ me'[p].size = m.size
  BY <1>2, <1>4, Gone
<1>6. /\ InBlock1(call, p, m, n) /\ m.size.n = n
  BY <1>2, <1>4 DEF InCall
<1>7. /\ NB(call, n) \in Nat /\ m.i \in 1 .. NB(call, n) /\ m.i \in Nat /\ m.k \in Nat
      /\ call.op # "vc_star" /\ m.i <= NB(call, n)
  <2>1. m.i <= NB(call, n)
    BY <1>2, <1>6 DEF HasBlock, BlocksAt, Call, NB
  <2>2. NB(call, n) \in Nat
    BY <1>4, NBNat
  <2>3. QED
    BY <1>2, <1>6, <2>1, <2>2 DEF InBlock1, InBlocks
<1>8. InBlock1(call, p, me'[p], n)
  BY <1>5, <1>6, <1>7 DEF InBlock1
<1>9. \A pair \in DOMAIN mail :
        mail'[pair] = IF pair[1] = 0 /\ pair[2] # 0
                      THEN Append(mail[pair], Message(Collective, w[pair[2]]))
                      ELSE mail[pair]
  <2> SUFFICES ASSUME NEW pair \in DOMAIN mail
               PROVE  mail'[pair] = IF pair[1] = 0 /\ pair[2] # 0
                        THEN Append(mail[pair], Message(Collective, w[pair[2]]))
                        ELSE mail[pair]
    OBVIOUS
  <2>1. pair[2] \in Procs
    BY <1>4 DEF MailIs, Procs
  <2>2. w[pair[2]] = [X |-> PartOf(pair[2], DistsOf(call).X, call.direction, X),
                      Y |-> PartOf(pair[2], DistsOf(call).Y, call.direction, Y)]
    BY <2>1
  <2> HIDE DEF w
  <2>3. QED
    BY <1>2, <1>3, <2>1, <2>2
<1> DEFINE m2 == me'[p]
<1> HIDE DEF m, n, call, m2, w
<1>10. MeOK(P, session, sz, p, m2)
  BY <1>2, <1>4, <1>5, <1>6, <1>8, Within DEF m2, n, call
<1>11. PartAdds(P, p, call, n, m, m2, Down(P, p), Collective)
  BY <1>2, <1>4, <1>5, <1>7, BlockCounts DEF m2
<1>12. Exchanges(P, session, sz, p, m, Down(P, p), Collective, mail, mail')
  <2>1. \A q \in 1 .. P - 1 : Says(P, session, sz, 0, m, <<0, q>>, Collective, w[q])
    BY <1>2, <1>4, <1>7, SaysBlock DEF call, n
  <2>2. QED
    BY <1>2, <1>3, <1>4, <1>9, <2>1, SentToAll
<1>13. DOMAIN held' = Procs /\ Moves(P, p, held, held') /\ HeldOK(session, sz, m2, held'[p])
  BY <1>2, <1>4, <1>5, HeldThen DEF m2
<1>14. Alike(m, m2)
  BY <1>2, <1>5 DEF Alike, m2
<1>15. RestOK(P, call, m2, n, rest')
  BY <1>5 DEF RestOK, m2
<1>16. QED
  BY <1>1, <1>2, <1>5, <1>10, <1>11, <1>12, <1>13, <1>14, <1>15, InsideStep
  DEF m, n, call, m2

LEMMA BlocksKeep ==
  ASSUME IInv, NEW p \in Procs,
         \/ DistBlock(p) \/ DirDistBlock(p) \/ HdfsDistBlock(p) \/ MlDenseBlock(p)
         \/ MlHDF5DenseBlock(p) \/ HDF5DistBlock(p)
  PROVE  IInv'
<1>1. CASE DistBlock(p)
  BY <1>1, ScatterKeeps DEF DistBlock, InBlocks
<1>2. CASE DirDistBlock(p)
  BY <1>2, ScatterKeeps DEF DirDistBlock, InBlocks
<1>3. CASE HdfsDistBlock(p)
  BY <1>3, ScatterKeeps DEF HdfsDistBlock, InBlocks
<1>4. CASE MlDenseBlock(p)
  BY <1>4, ScatterKeeps DEF MlDenseBlock, InBlocks
<1>5. CASE MlHDF5DenseBlock(p)
  BY <1>5, ScatterKeeps DEF MlHDF5DenseBlock, InBlocks
<1>6. CASE HDF5DistBlock(p)
  BY <1>6, ScatterKeeps DEF HDF5DistBlock, InBlocks
<1>7. QED
  BY <1>1, <1>2, <1>3, <1>4, <1>5, <1>6

(* vc_star.                                                                *)
LEMMA ReadUpdatesKeeps ==
  ASSUME IInv, NEW p \in Procs, ReadUpdates(p)
  PROVE  IInv'
<1>1. PICK sz : Now(sz)
  BY Setup
<1> DEFINE m == me[p]
           n == sz[m.at]
           call == session[m.at]
<1>2. /\ m.pc = "blocks" /\ p = 0 /\ HasBlock(p) /\ call.op = "vc_star"
      /\ Goes(p, "lists", m.i, 0, m.size)
      /\ \E V, W : Add(p, V, W)
      /\ UNCHANGED given /\ file' = file /\ mail' = mail
  BY DEF ReadUpdates, At, Call
<1>3. /\ P \in Nat \ {0} /\ p \in 0 .. P - 1 /\ 0 \in Procs
      /\ MeOK(P, session, sz, p, m) /\ HeldOK(session, sz, m, held[p])
      /\ RecordOK(m) /\ DOMAIN me = Procs /\ DOMAIN held = Procs
      /\ n \in Nat /\ InCall(P, call, p, m, n)
  BY <1>1, <1>2, Facts
<1>4. /\ DOMAIN me' = Procs /\ Moves(P, p, me, me') /\ RecordOK(me'[p])
      /\ me'[p].at = m.at /\ me'[p].pc = "lists" /\ me'[p].i = m.i
      /\ me'[p].k = 0 /\ me'[p].met = m.met /\ me'[p].size = m.size
  BY <1>2, <1>3, Gone
<1>5. /\ InBlock1(call, p, m, n) /\ m.size.n = n
  BY <1>2, <1>3 DEF InCall
<1>6. NB(call, n) \in Nat /\ m.i \in 1 .. NB(call, n) /\ m.i \in Nat
  <2>1. m.i <= NB(call, n)
    BY <1>2, <1>5 DEF HasBlock, BlocksAt, Call, NB
  <2>2. NB(call, n) \in Nat
    BY <1>3, NBNat
  <2>3. QED
    BY <1>5, <2>1, <2>2 DEF InBlock1
<1>7. InLists(P, call, p, me'[p], n)
  BY <1>2, <1>3, <1>4, <1>6 DEF InLists
<1> DEFINE m2 == me'[p]
<1> HIDE DEF m, n, call, m2
<1>8. MeOK(P, session, sz, p, m2)
  BY <1>2, <1>3, <1>4, <1>5, <1>7, Within DEF m2, n, call
<1>9. PartAdds(P, p, call, n, m, m2, {}, 0)
  BY <1>2, <1>3, <1>4, <1>6, UpdatesCount DEF m2
<1>10. Exchanges(P, session, sz, p, m, {}, 0, mail, mail')
  BY <1>2, NothingExchanged
<1>11. DOMAIN held' = Procs /\ Moves(P, p, held, held') /\ HeldOK(session, sz, m2, held'[p])
  BY <1>2, <1>3, <1>4, HeldThen DEF m2
<1>12. Alike(m, m2)
  BY <1>2, <1>4 DEF Alike, m2
<1>13. RestOK(P, call, m2, n, rest')
  BY <1>4 DEF RestOK, m2
<1>14. QED
  BY <1>1, <1>2, <1>4, <1>8, <1>9, <1>10, <1>11, <1>12, <1>13, InsideStep
  DEF m, n, call, m2

LEMMA ToWhom ==
  ASSUME NEW np \in Nat \ {0}, NEW k \in 0 .. 3 * (np - 1), k < 3 * (np - 1)
  PROVE  /\ k \div 3 + 1 \in 1 .. np - 1
         /\ k \in 0 .. 3 * (np - 1) - 1 /\ k + 1 \in 0 .. 3 * (np - 1)
OBVIOUS

LEMMA SendListKeeps ==
  ASSUME IInv, NEW p \in Procs, SendList(p)
  PROVE  IInv'
<1>1. PICK sz : Now(sz)
  BY Setup
<1> DEFINE m == me[p]
           n == sz[m.at]
           call == session[m.at]
           to == m.k \div 3 + 1
<1>2. /\ m.pc = "lists" /\ m.k < 3 * (P - 1)
      /\ \E w : Send(p, to, 0, w)
      /\ Goes(p, "lists", m.i, m.k + 1, m.size)
      /\ UNCHANGED given /\ file' = file /\ held' = held
  BY DEF SendList, At, Steps
<1>3. /\ P \in Nat \ {0} /\ p \in 0 .. P - 1 /\ 0 \in Procs
      /\ MeOK(P, session, sz, p, m) /\ HeldOK(session, sz, m, held[p])
      /\ MailIs(P, mail) /\ RecordOK(m) /\ DOMAIN me = Procs /\ DOMAIN held = Procs
      /\ n \in Nat /\ InCall(P, call, p, m, n)
  BY <1>1, <1>2, Facts
<1>4. /\ DOMAIN me' = Procs /\ Moves(P, p, me, me') /\ RecordOK(me'[p])
      /\ me'[p].at = m.at /\ me'[p].pc = "lists" /\ me'[p].i = m.i
      /\ me'[p].k = m.k + 1 /\ me'[p].met = m.met /\ me'[p].size = m.size
  <2>1. Goes(p, "lists", m.i, m.k + 1, m.size)
    BY <1>2
  <2> DEFINE k2 == m.k + 1
  <2> HIDE DEF k2
  <2>2. Goes(p, "lists", m.i, k2, m.size)
    BY <2>1 DEF k2
  <2>3. QED
    BY <1>3, <2>2, Gone DEF k2
<1>5. /\ InLists(P, call, p, m, n) /\ m.size.n = n
  BY <1>2, <1>3 DEF InCall
<1>6. /\ p = 0 /\ call.op = "vc_star" /\ m.i \in 1 .. NB(call, n) /\ m.i \in Nat
      /\ m.k \in 0 .. 3 * (P - 1)
  BY <1>3, <1>5, NBNat DEF InLists
<1>7. /\ to \in 1 .. P - 1 /\ m.k \in 0 .. 3 * (P - 1) - 1 /\ m.k + 1 \in 0 .. 3 * (P - 1)
  BY <1>2, <1>3, <1>6, ToWhom
<1>8. InLists(P, call, p, me'[p], n)
  BY <1>4, <1>6, <1>7 DEF InLists
<1> DEFINE m2 == me'[p]
<1>9. to = m.k \div 3 + 1
  OBVIOUS
<1> HIDE DEF m, n, call, m2, to
<1>10. MeOK(P, session, sz, p, m2)
  BY <1>2, <1>3, <1>4, <1>5, <1>8, Within DEF m2, n, call
<1>11. PartAdds(P, p, call, n, m, m2, {<<0, to>>}, 0)
  BY <1>2, <1>3, <1>4, <1>6, <1>7, <1>9, ListSentCounts DEF m2
<1>12. Exchanges(P, session, sz, p, m, {<<0, to>>}, 0, mail, mail')
  <2>1. PICK w : Send(p, to, 0, w)
    BY <1>2
  <2>2. 0 # Collective /\ 0 \in Tags
    BY DEF Collective, Tags
  <2>3. Says(P, session, sz, p, m, <<p, to>>, 0, w)
    BY <2>2, SaysTag
  <2>4. to \in Procs /\ to # p
    BY <1>6, <1>7 DEF Procs
  <2>5. QED
    BY <1>3, <1>6, <2>1, <2>2, <2>3, <2>4, SentOne
<1>13. DOMAIN held' = Procs /\ Moves(P, p, held, held') /\ HeldOK(session, sz, m2, held'[p])
  BY <1>2, <1>3, <1>4, HeldThen DEF m2
<1>14. Alike(m, m2)
  BY <1>2, <1>4 DEF Alike, m2
<1>15. RestOK(P, call, m2, n, rest')
  BY <1>4 DEF RestOK, m2
<1>16. QED
  BY <1>1, <1>2, <1>4, <1>6, <1>10, <1>11, <1>12, <1>13, <1>14, <1>15, InsideStep
  DEF m, n, call, m2

LEMMA ScatterLabelsKeeps ==
  ASSUME IInv, NEW p \in Procs, ScatterLabels(p)
  PROVE  IInv'
<1>1. PICK sz : Now(sz)
  BY Setup
<1> DEFINE m == me[p]
           n == sz[m.at]
           call == session[m.at]
           w == [q \in Procs |-> [X |-> {}, Y |-> PartOf(q, call.dist, call.direction, box.Y)]]
<1>2. /\ m.pc = "lists" /\ m.k = 3 * (P - 1)
      /\ Goes(p, "blocks", m.i + 1, 0, m.size)
      /\ \E V, W : Add(p, V, W)
      /\ UNCHANGED given /\ file' = file
  BY DEF ScatterLabels, At, Call
<1>3. /\ DOMAIN mail' = DOMAIN mail
      /\ \A pair \in DOMAIN mail :
           mail'[pair] = IF pair[1] = p /\ pair[2] \in Procs \ {p}
                         THEN Append(mail[pair], Message(Collective,
                              [X |-> {},
                               Y |-> PartOf(pair[2], call.dist, call.direction, box.Y)]))
                         ELSE mail[pair]
  BY DEF ScatterLabels, SendEach, Call
<1>4. /\ P \in Nat \ {0} /\ p \in 0 .. P - 1 /\ 0 \in Procs /\ Settings(P, session, sz)
      /\ MeOK(P, session, sz, p, m) /\ HeldOK(session, sz, m, held[p])
      /\ MailIs(P, mail) /\ RecordOK(m) /\ DOMAIN me = Procs /\ DOMAIN held = Procs
      /\ n \in Nat /\ InCall(P, call, p, m, n)
  BY <1>1, <1>2, Facts
<1>5. /\ DOMAIN me' = Procs /\ Moves(P, p, me, me') /\ RecordOK(me'[p])
      /\ me'[p].at = m.at /\ me'[p].pc = "blocks" /\ me'[p].i = m.i + 1
      /\ me'[p].k = 0 /\ me'[p].met = m.met /\ me'[p].size = m.size
  <2> DEFINE i2 == m.i + 1
  <2>1. Goes(p, "blocks", i2, 0, m.size)
    BY <1>2
  <2> HIDE DEF i2
  <2>2. QED
    BY <1>4, <2>1, Gone DEF i2
<1>6. /\ InLists(P, call, p, m, n) /\ m.size.n = n
  BY <1>2, <1>4 DEF InCall
<1>7. /\ NB(call, n) \in Nat /\ m.i \in 1 .. NB(call, n) /\ m.i \in Nat /\ m.k \in Nat
      /\ call.op = "vc_star" /\ m.i <= NB(call, n) /\ p = 0
  <2>1. NB(call, n) \in Nat
    BY <1>4, NBNat
  <2>2. QED
    BY <1>6, <2>1 DEF InLists
<1>8. InBlock1(call, p, me'[p], n)
  BY <1>5, <1>7 DEF InBlock1, Scatters
<1>9. \A pair \in DOMAIN mail :
        mail'[pair] = IF pair[1] = 0 /\ pair[2] # 0
                      THEN Append(mail[pair], Message(Collective, w[pair[2]]))
                      ELSE mail[pair]
  <2> SUFFICES ASSUME NEW pair \in DOMAIN mail
               PROVE  mail'[pair] = IF pair[1] = 0 /\ pair[2] # 0
                        THEN Append(mail[pair], Message(Collective, w[pair[2]]))
                        ELSE mail[pair]
    OBVIOUS
  <2>1. pair[2] \in Procs
    BY <1>4 DEF MailIs, Procs
  <2>2. w[pair[2]] = [X |-> {}, Y |-> PartOf(pair[2], call.dist, call.direction, box.Y)]
    BY <2>1
  <2> HIDE DEF w
  <2>3. QED
    BY <1>7, <1>3, <2>1, <2>2
<1> DEFINE m2 == me'[p]
<1> HIDE DEF m, n, call, m2, w
<1>10. MeOK(P, session, sz, p, m2)
  BY <1>2, <1>4, <1>5, <1>6, <1>8, Within DEF m2, n, call
<1>11. PartAdds(P, p, call, n, m, m2, Down(P, p), Collective)
  BY <1>2, <1>4, <1>5, <1>7, BlockCounts DEF m2
<1>12. Exchanges(P, session, sz, p, m, Down(P, p), Collective, mail, mail')
  <2>1. \A q \in 1 .. P - 1 : Says(P, session, sz, 0, m, <<0, q>>, Collective, w[q])
    BY <1>2, <1>4, <1>7, SaysBlock DEF call, n
  <2>2. QED
    BY <1>3, <1>4, <1>7, <1>9, <2>1, SentToAll
<1>13. DOMAIN held' = Procs /\ Moves(P, p, held, held') /\ HeldOK(session, sz, m2, held'[p])
  BY <1>2, <1>4, <1>5, HeldThen DEF m2
<1>14. Alike(m, m2)
  BY <1>2, <1>5 DEF Alike, m2
<1>15. RestOK(P, call, m2, n, rest')
  BY <1>5 DEF RestOK, m2
<1>16. QED
  BY <1>1, <1>2, <1>5, <1>7, <1>10, <1>11, <1>12, <1>13, <1>14, <1>15, InsideStep
  DEF m, n, call, m2

LEMMA ReceiveListKeeps ==
  ASSUME IInv, NEW p \in Procs, ReceiveList(p)
  PROVE  IInv'
<1>1. PICK sz : Now(sz)
  BY Setup
<1> DEFINE m == me[p]
           n == sz[m.at]
           call == session[m.at]
           got == Append(m.got, Received(0, p, 0))
<1>2. /\ m.pc = "blocks" /\ p # 0 /\ Has(0, p, 0) /\ Take(0, p, 0)
      /\ HasBlock(p) /\ call.op = "vc_star" /\ m.k < 3
      /\ me' = [me EXCEPT ![p] = [@ EXCEPT !.k = me[p].k + 1, !.got = got]]
      /\ held' = held \/ \E V, W : Add(p, V, W)
      /\ UNCHANGED given /\ file' = file /\ rest' = rest
  BY DEF ReceiveList, At, Call
<1>3. /\ P \in Nat \ {0} /\ p \in 0 .. P - 1 /\ 0 \in Procs
      /\ MeOK(P, session, sz, p, m) /\ HeldOK(session, sz, m, held[p])
      /\ MailIs(P, mail) /\ RecordOK(m) /\ DOMAIN me = Procs /\ DOMAIN held = Procs
      /\ n \in Nat /\ InCall(P, call, p, m, n)
  BY <1>1, <1>2, Facts
<1> HIDE DEF got
<1>4. /\ DOMAIN me' = Procs /\ Moves(P, p, me, me') /\ RecordOK(me'[p])
      /\ me'[p].at = m.at /\ me'[p].pc = "blocks" /\ me'[p].i = m.i
      /\ me'[p].k = m.k + 1 /\ me'[p].met = m.met /\ me'[p].size = m.size
  BY <1>2, <1>3, Counts
<1>5. /\ InBlock1(call, p, m, n) /\ m.size.n = n
  BY <1>2, <1>3 DEF InCall
<1>6. /\ NB(call, n) \in Nat /\ m.i \in 1 .. NB(call, n) /\ m.i \in Nat
      /\ m.k \in 0 .. 3 /\ m.k \in Nat
  <2>1. m.i <= NB(call, n)
    BY <1>2, <1>5 DEF HasBlock, BlocksAt, Call, NB
  <2>2. NB(call, n) \in Nat
    BY <1>3, NBNat
  <2>3. QED
    BY <1>2, <1>5, <2>1, <2>2 DEF InBlock1
<1>7. InBlock1(call, p, me'[p], n)
  BY <1>2, <1>4, <1>5, <1>6 DEF InBlock1
<1> DEFINE m2 == me'[p]
<1> HIDE DEF m, n, call, m2
<1>8. MeOK(P, session, sz, p, m2)
  BY <1>2, <1>3, <1>4, <1>5, <1>7, Within DEF m2, n, call
<1>9. PartAdds(P, p, call, n, m, m2, Down(P, p), 0)
  BY <1>2, <1>3, <1>4, <1>6, ListTakenCounts DEF m2
<1>10. Exchanges(P, session, sz, p, m, Down(P, p), 0, mail, mail')
  <2>1. Down(P, p) = {<<0, p>>}
    BY <1>2 DEF Down
  <2>2. 0 \in Tags
    BY DEF Tags
  <2>3. Exchanges(P, session, sz, p, m, {<<0, p>>}, 0, mail, mail')
    BY <1>2, <1>3, <2>2, TookOne
  <2>4. QED
    BY <2>1, <2>3
<1>11. DOMAIN held' = Procs /\ Moves(P, p, held, held') /\ HeldOK(session, sz, m2, held'[p])
  BY <1>2, <1>3, <1>4, HeldThen DEF m2
<1>12. Alike(m, m2)
  BY <1>2, <1>4 DEF Alike, m2
<1>13. QED
  BY <1>1, <1>2, <1>4, <1>8, <1>9, <1>10, <1>11, <1>12, InsideStep DEF m, n, call, m2

(* Parts of a file to be written, and of blocks.                           *)
LEMMA SendPartKeeps ==
  ASSUME IInv, NEW p \in Procs, SendPart(p)
  PROVE  IInv'
<1>1. PICK sz : Now(sz)
  BY Setup
<1> DEFINE m == me[p]
           n == sz[m.at]
           call == session[m.at]
           k2 == m.k + 1
<1>2. /\ m.pc = "collect" /\ p # 0 /\ m.k < 3
      /\ Send(p, 0, k2, Parts(p)[k2])
      /\ Goes(p, "collect", 0, k2, m.size)
      /\ UNCHANGED given /\ file' = file /\ rest' = rest /\ held' = held
  BY DEF SendPart, At, Steps
<1>3. /\ P \in Nat \ {0} /\ p \in 0 .. P - 1 /\ 0 \in Procs
      /\ MeOK(P, session, sz, p, m) /\ HeldOK(session, sz, m, held[p])
      /\ MailIs(P, mail) /\ RecordOK(m) /\ DOMAIN me = Procs /\ DOMAIN held = Procs
      /\ n \in Nat /\ InCall(P, call, p, m, n)
  BY <1>1, <1>2, Facts
<1>4. InCollect(P, call, p, m)
  BY <1>2, <1>3 DEF InCall
<1>5. m.k \in 0 .. 2 /\ k2 \in 1 .. 3 /\ k2 = m.k + 1
  BY <1>2, <1>4 DEF InCollect
<1>6. k2 = 1 => Parts(p)[k2] \in Nat
  <2>1. Parts(p)[1] = Len(LocalLines(p))
    BY DEF Parts
  <2>2. Len(LocalLines(p)) \in Nat
    BY <1>3, LinesKnown
  <2>3. QED
    BY <2>1, <2>2
<1> HIDE DEF k2
<1>7. /\ DOMAIN me' = Procs /\ Moves(P, p, me, me') /\ RecordOK(me'[p])
      /\ me'[p].at = m.at /\ me'[p].pc = "collect"
      /\ me'[p].k = k2 /\ me'[p].met = m.met
  BY <1>2, <1>3, Gone
<1>8. InCollect(P, call, p, me'[p])
  BY <1>2, <1>4, <1>5, <1>7 DEF InCollect
<1> DEFINE m2 == me'[p]
<1> HIDE DEF m, n, call, m2
<1>9. MeOK(P, session, sz, p, m2)
  BY <1>2, <1>3, <1>7, <1>8, Within DEF m2, n, call
<1>10. PartAdds(P, p, call, n, m, m2, Up(P, p), k2)
  <2>1. m2.k = m.k + 1
    BY <1>5, <1>7 DEF m2
  <2>2. PartAdds(P, p, call, n, m, m2, Up(P, p), m.k + 1)
    BY <1>2, <1>3, <1>5, <1>7, <2>1, PartSentCounts DEF m2
  <2>3. QED
    BY <1>5, <2>2
<1>11. Exchanges(P, session, sz, p, m, Up(P, p), k2, mail, mail')
  <2>1. Up(P, p) = {<<p, 0>>}
    BY <1>2 DEF Up
  <2>2. k2 \in Tags /\ k2 # Collective
    BY <1>5 DEF Tags, Collective
  <2>3. Says(P, session, sz, p, m, <<p, 0>>, k2, Parts(p)[k2])
    BY <1>6, <2>2, SaysTag
  <2>4. Exchanges(P, session, sz, p, m, {<<p, 0>>}, k2, mail, mail')
    BY <1>2, <1>3, <2>2, <2>3, SentOne
  <2>5. QED
    BY <2>1, <2>4
<1>12. DOMAIN held' = Procs /\ Moves(P, p, held, held') /\ HeldOK(session, sz, m2, held'[p])
  BY <1>2, <1>3, <1>7, HeldThen DEF m2
<1>13. Alike(m, m2)
  BY <1>2, <1>7 DEF Alike, m2
<1>14. QED
  BY <1>1, <1>2, <1>7, <1>9, <1>10, <1>11, <1>12, <1>13, InsideStep DEF m, n, call, m2

-----------------------------------------------------------------------------
(* When the root writes a file others wrote to with it, nobody has the     *)
(* size of another to learn from it.                                       *)
LEMMA AllThere ==
  ASSUME NEW np, NEW ss, NEW sz, NEW mes, NEW mls, Good(np, ss, sz, mes, mls),
         mes[0].pc = "collect", NEW q \in 1 .. np - 1,
         mes[0].i >= 1 \/ OldestOf(mls[<<q, 0>>], Collective) # 0
  PROVE  mes[q].at >= mes[0].at
<1> DEFINE kind == <<"up", Collective>>
           b == Before(np, ss, sz, kind, q)
           a == mes[0].at
           c == mes[q].at
           from == Total(np, ss, sz, kind, q, q, mes[q])
           to == Total(np, ss, sz, kind, q, 0, mes[0])
           s == mls[<<q, 0>>]
<1>1. kind \in Kinds /\ Settings(np, ss, sz) /\ 0 \in 0 .. np - 1 /\ q \in 0 .. np - 1
  BY DEF Kinds, Tags, Good, Settings
<1>2. MeOK(np, ss, sz, 0, mes[0]) /\ MeOK(np, ss, sz, q, mes[q])
  BY <1>1 DEF Good
<1>3. /\ Line(kind, q) = <<q, 0>> /\ kind[2] = Collective /\ Sender(kind, q) = q
      /\ Receiver(kind, q) = 0
  BY DEF Line, Sender, Receiver
<1>4. LineOK(np, ss, sz, kind, q, s, from, to)
  <2>1. LineIs(np, ss, sz, kind, q, mes, mls)
    BY <1>1 DEF Good, LinesAre
  <2>2. QED
    BY <1>3, <2>1 DEF LineIs
<1>5. Sequential(s) /\ from \in Nat /\ to \in Nat
  BY <1>1, <1>3, LineFacts
<1>6. Part(np, kind, q, 0, ss[a], sz[a], mes[0]) = Bit(mes[0].i >= 1)
  BY DEF Part
<1>7. /\ a \in 1 .. Len(ss) /\ c \in 1 .. Len(ss) + 1 /\ Len(ss) \in Nat
      /\ b[a] \in Nat /\ b[a] <= to
      /\ c <= Len(ss) => from <= b[c + 1]
  <2>1. a <= Len(ss) /\ a \in 1 .. Len(ss) + 1 /\ Len(ss) \in Nat
    BY <1>1, <1>2 DEF MeOK, Settings
  <2>2. b[a] \in Nat /\ b[a] <= to
    BY <1>1, <1>2, TotalBetween
  <2>3. c \in 1 .. Len(ss) + 1 /\ (c <= Len(ss) => from <= b[c + 1])
    BY <1>1, <1>2, TotalBetween
  <2>4. QED
    BY <2>1, <2>2, <2>3
<1>8. to = b[a] + Bit(mes[0].i >= 1)
  BY <1>6 DEF Total
<1>9. from > b[a]
  <2>1. CASE mes[0].i >= 1
    <3>1. PICK buf : Carries(s, kind[2], buf) /\ Len(buf) + to = from
      BY <1>4 DEF LineOK
    <3>2. Len(buf) \in Nat
      BY <3>1 DEF Carries, Sequential
    <3>3. to = b[a] + 1
      BY <1>8, <2>1 DEF Bit
    <3> HIDE DEF from, to, b, a
    <3>4. QED
      BY <1>5, <1>7, <3>1, <3>2, <3>3
  <2>2. CASE OldestOf(s, Collective) # 0
    <3>1. to < from
      BY <1>3, <1>4, <1>5, <2>2, LineTaken
    <3> HIDE DEF from, to, b, a
    <3>2. QED
      BY <1>5, <1>7, <3>1
  <2>3. QED
    BY <2>1, <2>2
<1>10. CASE c >= a
  BY <1>10
<1>11. CASE ~ (c >= a)
  <2>1. c + 1 \in 1 .. Len(ss) + 1 /\ a \in 1 .. Len(ss) + 1 /\ c + 1 <= a /\ c <= Len(ss)
    BY <1>7, <1>11
  <2>2. b[c + 1] \in Nat /\ b[c + 1] <= b[a]
    BY <1>1, <2>1, BeforeGrows
  <2>3. from <= b[c + 1]
    BY <1>7, <2>1
  <2> DEFINE x == b[c + 1]
             y == b[a]
  <2>4. x \in Nat /\ x <= y /\ from <= x
    BY <2>2, <2>3
  <2>5. y \in Nat /\ from > y
    BY <1>7, <1>9
  <2> HIDE DEF from, x, y
  <2>6. QED
    BY <1>5, <2>4, <2>5
<1>12. QED
  BY <1>10, <1>11

LEMMA NobodyAhead ==
  ASSUME NEW ss, Len(ss) \in Nat, NEW m, NEW m0, m.at \in 1 .. Len(ss) + 1,
         m0.at \in 1 .. Len(ss), ss[m0.at].op = "write_hdf5", m0.pc = "collect",
         m0.met = Arrived(ss, m0), Passed(ss, m) <= m0.met
  PROVE  m.at <= m0.at
<1> DEFINE a == m0.at
           c == m.at
           b == Barred(ss)
<1>1. Barriers(ss[a]) = 1
  BY DEF Barriers, Shared, Bit
<1>2. m0.met = b[a] + 0
  BY DEF Arrived
<1>3. /\ b[a] \in Nat /\ b[a + 1] = b[a] + 1 /\ b[c] \in Nat
      /\ a + 1 <= c => b[a + 1] <= b[c]
  <2> DEFINE e == a + 1
  <2>1. e \in 1 .. Len(ss) + 1 /\ a \in 1 .. Len(ss) + 1
    OBVIOUS
  <2>2. b[e] = b[a] + 1
    BY <1>1, BarredNext
  <2>3. b[a] \in Nat /\ b[c] \in Nat
    BY <2>1, BarredNext
  <2> HIDE DEF e
  <2>4. e <= c => b[e] <= b[c]
    BY <2>1, BarredNext
  <2>5. QED
    BY <2>2, <2>3, <2>4 DEF e
<1>4. PICK d : Passed(ss, m) = b[c] + Bit(d)
  BY DEF Passed
<1>5. Bit(d) \in Nat
  BY DEF Bit
<1>6. a \in Nat /\ c \in Nat
  OBVIOUS
<1> HIDE DEF a, c, b
<1>7. b[c] <= b[a]
  BY <1>2, <1>3, <1>4, <1>5
<1>8. ~ (a + 1 <= c)
  BY <1>3, <1>7
<1>9. QED
  BY <1>6, <1>8 DEF a, c

LEMMA SizesRewritten ==
  ASSUME NEW np, NEW ss, NEW sz, NEW mes, NEW mls, Good(np, ss, sz, mes, mls),
         MetAre(np, ss, mes), mes[0].pc = "collect",
         mes[0].i >= 1 \/ \A q \in 1 .. np - 1 : OldestOf(mls[<<q, 0>>], Collective) # 0,
         NEW f, SizesAre(np, ss, sz, mes, f), NEW f2
  PROVE  SizesAre(np, ss, sz, mes, f2)
<1>1. /\ np \in Nat \ {0} /\ Len(ss) \in Nat /\ Settings(np, ss, sz)
      /\ \A r \in 0 .. np - 1 : MeOK(np, ss, sz, r, mes[r])
  BY DEF Good, Settings
<1>2. 0 \in 0 .. np - 1 /\ MeOK(np, ss, sz, 0, mes[0])
  BY <1>1
<1> DEFINE w == mes[0].at
<1>3. w \in 1 .. Len(ss) /\ ss[w].op = "write_hdf5"
  <2>1. w \in 1 .. Len(ss) + 1 /\ w <= Len(ss) /\ InCall(np, ss[w], 0, mes[0], sz[w])
    BY <1>2 DEF MeOK
  <2>2. ss[w].op = "write_hdf5"
    BY <2>1 DEF InCall, InCollect
  <2>3. QED
    BY <1>1, <2>1, <2>2
<1>4. \A q \in 1 .. np - 1 : mes[q].at >= w
  BY AllThere
<1>5. \A r \in 0 .. np - 1 : mes[r].at \in 1 .. Len(ss) + 1 /\ mes[r].at <= w
  <2> TAKE r \in 0 .. np - 1
  <2>1. mes[r].at \in 1 .. Len(ss) + 1
    BY <1>1 DEF MeOK
  <2>2. mes[0].met = Arrived(ss, mes[0]) /\ Passed(ss, mes[r]) <= mes[0].met
    BY <1>2 DEF MetAre
  <2>3. QED
    BY <1>1, <1>3, <2>1, <2>2, NobodyAhead
<1>6. ASSUME NEW c \in 1 .. Len(ss), NEW r \in 0 .. np - 1, Knows(c, r, mes[r]),
             ss[c].op = "ml_hdf5_dense", NEW q \in 0 .. np - 1, ~Knows(c, q, mes[q])
      PROVE  FALSE
  <2>1. mes[r].at >= c /\ c # w /\ c \in Nat
    <3>1. c # w
      BY <1>3, <1>6
    <3>2. mes[r].at > c \/ mes[r].at = c
      BY <1>6 DEF Knows
    <3>3. mes[r].at \in Nat /\ c \in Nat
      BY <1>5
    <3>4. QED
      BY <3>1, <3>2, <3>3
  <2>2. c < w
    BY <1>3, <1>5, <2>1
  <2>3. mes[q].at >= w
    BY <1>1, <1>3, <1>4
  <2>4. mes[q].at > c
    BY <1>3, <1>5, <2>1, <2>2, <2>3
  <2>5. QED
    BY <1>6, <2>4 DEF Knows
<1> SUFFICES ASSUME NEW c \in 1 .. Len(ss), np > 1,
                    NEW r \in 0 .. np - 1, Knows(c, r, mes[r])
             PROVE  ss[c].op = "ml_hdf5_dense"
                      /\ (\E q \in 0 .. np - 1 : ~Knows(c, q, mes[q])) =>
                      Len(f2.texts[1]) = sz[c]
  BY DEF SizesAre
<1>7. QED
  BY <1>6

LEMMA CaseMatched ==
  ASSUME CaseOK, P # 1
  PROVE  \A k \in DOMAIN session :
           LET c == session[k]
               among(ops) == \E l \in DOMAIN session : session[l].op \in ops
           IN  /\ c.op \in Rooted \ (Shared \cup {"ml_dense"}) =>
                    c.dist \notin {S_S, CIRC_CIRC}
               /\ c.op # "write_dist"
               /\ c.op = "ml_hdf5_dense" => ~among(LocalWrites)
               /\ c.op = "ml_hdf5_sparse" => ~among(Writes)
BY DEF CaseOK, Matched

LEMMA SessionIs ==
  ASSUME CaseOK
  PROVE  Len(session) \in Nat /\ DOMAIN session = 1 .. Len(session)
<1>1. PICK case \in Cases : session = case.session
  BY DEF CaseOK
<1>2. Sequential(session)
  BY <1>1, CasesAssumption
<1>3. QED
  BY <1>2, AsSeq

(* A file that is written while others may open it is not opened.          *)
LEMMA SizesUnread ==
  ASSUME CaseOK, NEW c \in 1 .. Len(session), session[c].op \in LocalWrites,
         NEW sz, NEW mes, NEW f, SizesAre(P, session, sz, mes, f), NEW f2
  PROVE  SizesAre(P, session, sz, mes, f2)
<1>1. ASSUME NEW d \in 1 .. Len(session), P > 1
      PROVE  session[d].op # "ml_hdf5_dense"
  <2>1. d \in DOMAIN session /\ c \in DOMAIN session /\ P # 1
    BY <1>1, SessionIs
  <2>2. QED
    BY <2>1, CaseMatched
<1>2. QED
  BY <1>1 DEF SizesAre

LEMMA NewFile ==
  ASSUME NEW format, NEW d, NEW lines, Sequential(lines)
  PROVE  FileIs(HDF5(format, d, lines)) /\ FileIs([format |-> format, d |-> d, texts |-> <<lines>>])
<1> DEFINE t == <<lines>>
           f == [format |-> format, d |-> d, texts |-> t]
<1>1. Sequential(t) /\ Len(t) = 1 /\ t[1] = lines
  BY Singles
<1>2. t # << >> /\ \A k \in DOMAIN t : t[k] = lines
  <2>1. DOMAIN t = 1 .. 1
    BY <1>1, AsSeq
  <2>2. \A k \in 1 .. 1 : k = 1
    OBVIOUS
  <2> HIDE DEF t
  <2>3. t # << >>
    BY <1>1
  <2>4. QED
    BY <1>1, <2>1, <2>2, <2>3
<1>3. f.texts = t /\ "texts" \in DOMAIN f
  OBVIOUS
<1>4. HDF5(format, d, lines) = f
  BY DEF HDF5
<1> HIDE DEF f, t
<1>5. FileIs(f)
  BY <1>1, <1>2, <1>3 DEF FileIs
<1>6. QED
  BY <1>4, <1>5 DEF f, t

LEMMA NewText ==
  ASSUME NEW f, FileIs(f), NEW lines, Sequential(lines), NEW f2,
         f2 = [f EXCEPT !.texts[1] = lines]
  PROVE  FileIs(f2)
<1> DEFINE t == f.texts
           t2 == [t EXCEPT ![1] = lines]
<1>1. "texts" \in DOMAIN f /\ Sequential(t) /\ t # << >> /\ \A k \in DOMAIN t : Sequential(t[k])
  BY DEF FileIs
<1>2. f2.texts = t2 /\ "texts" \in DOMAIN f2
  BY <1>1
<1>3. Len(t) \in Nat /\ DOMAIN t = 1 .. Len(t) /\ Len(t) # 0
  <2>1. Len(t) \in Nat /\ DOMAIN t = 1 .. Len(t)
    BY <1>1, AsSeq
  <2>2. \E S : t \in Seq(S)
    BY <1>1, AsSeq
  <2> HIDE DEF t
  <2>3. QED
    BY <1>1, <2>1, <2>2
<1> DEFINE n == Len(t)
<1>4. t2 = [k \in 1 .. n |-> t2[k]]
  BY <1>3
<1>5. \A k \in DOMAIN t2 : Sequential(t2[k])
  BY <1>1, <1>3
<1> HIDE DEF t2, n
<1>6. Sequential(t2) /\ Len(t2) = n
  BY <1>3, <1>4, Sequentials DEF n
<1>7. t2 # << >>
  BY <1>3, <1>6 DEF n
<1>8. QED
  BY <1>2, <1>5, <1>6, <1>7 DEF FileIs

LEMMA FirstText ==
  ASSUME NEW f, FileIs(f)
  PROVE  Sequential(f.texts[1])
<1> DEFINE t == f.texts
<1>1. Sequential(t) /\ t # << >> /\ \A k \in DOMAIN t : Sequential(t[k])
  BY DEF FileIs
<1>2. Len(t) \in Nat /\ DOMAIN t = 1 .. Len(t) /\ \E S : t \in Seq(S)
  BY <1>1, AsSeq
<1> HIDE DEF t
<1>3. Len(t) # 0
  BY <1>1, <1>2
<1>4. 1 \in DOMAIN t
  BY <1>2, <1>3
<1>5. QED
  BY <1>1, <1>4 DEF t

LEMMA SummedKeeps ==
  ASSUME IInv, NEW p \in Procs, Summed(p)
  PROVE  IInv'
<1>1. PICK sz : Now(sz)
  BY Setup
<1> DEFINE m == me[p]
           n == sz[m.at]
           call == session[m.at]
<1>2. /\ m.pc = "collect" /\ p = 0 /\ m.i = 0
      /\ \A q \in Procs \ {0} : Has(q, 0, Collective)
      /\ mail' = [pair \in DOMAIN mail |->
                    IF pair[2] = 0 /\ pair[1] # 0
                    THEN RemoveAt(mail[pair], Oldest(pair[1], 0, Collective))
                    ELSE mail[pair]]
      /\ ~Unwritable(p) => /\ file' = HDF5("hdf5_dense", held[p].d, LocalLines(p))
                           /\ Goes(p, "collect", 1, 0, m.size)
      /\ UNCHANGED given /\ rest' = rest /\ held' = held
  BY DEF Summed, At, Steps
<1>3. /\ P \in Nat \ {0} /\ p \in 0 .. P - 1 /\ 0 \in Procs
      /\ MeOK(P, session, sz, p, m) /\ HeldOK(session, sz, m, held[p])
      /\ MailIs(P, mail) /\ RecordOK(m) /\ DOMAIN me = Procs /\ DOMAIN held = Procs
      /\ n \in Nat /\ InCall(P, call, p, m, n) /\ SizesAre(P, session, sz, me, file)
      /\ m.at \in 1 .. Len(session)
  BY <1>1, <1>2, Facts
<1>4. InCollect(P, call, p, m)
  BY <1>2, <1>3 DEF InCall
<1>5. m.k = 0 /\ call.op = "write_hdf5"
  BY <1>2, <1>3, <1>4 DEF InCollect
<1>6. /\ Goes(p, "collect", 1, 0, m.size)
      /\ file' = HDF5("hdf5_dense", held[p].d, LocalLines(p))
      /\ DOMAIN me' = Procs /\ Moves(P, p, me, me') /\ RecordOK(me'[p])
      /\ me'[p].at = m.at /\ me'[p].pc = "collect" /\ me'[p].i = 1
      /\ me'[p].k = 0 /\ me'[p].met = m.met /\ me'[p].got = << >>
  <2>1. call.mstart = 0
    <3>1. CaseOK /\ m.at \in DOMAIN session
      BY <1>3, SessionIs DEF IInv
    <3>2. QED
      BY <1>5, <3>1 DEF CaseOK, Cleared
  <2>2. ~Unwritable(p)
    BY <2>1 DEF Unwritable, Call
  <2> HIDE DEF m, call
  <2>3. Goes(p, "collect", 1, 0, m.size)
    BY <1>2, <2>2
  <2>4. QED
    BY <1>2, <1>3, <2>2, <2>3, Gone DEF m
<1>7. InCollect(P, call, p, me'[p])
  <2>1. GotOK(me'[p])
    BY <1>6, Singles DEF GotOK
  <2>2. QED
    BY <1>2, <1>3, <1>5, <1>6, <2>1 DEF InCollect
<1>8. FileIs(file') /\ Written
  <2>1. Sequential(LocalLines(p))
    BY <1>3, LinesKnown DEF HeldOK
  <2>2. FileIs(file')
    BY <1>6, <2>1, NewFile
  <2>3. QED
    BY <1>3, <1>5, <2>2 DEF Written, Writes
<1>9. SizesAre(P, session, sz, me, file')
  <2>1. Good(P, session, sz, me, mail) /\ MetAre(P, session, me)
    BY <1>1 DEF Now, Fine, Good, IInv
  <2>2. \A q \in 1 .. P - 1 : OldestOf(mail[<<q, 0>>], Collective) # 0
    <3> TAKE q \in 1 .. P - 1
    <3>1. q \in Procs \ {0}
      BY <1>3 DEF Procs
    <3>2. Oldest(q, 0, Collective) # 0
      BY <1>2, <3>1 DEF Has
    <3>3. QED
      BY <3>2, OldestSame
  <2>3. QED
    BY <1>2, <1>3, <2>1, <2>2, SizesRewritten
<1> DEFINE m2 == me'[p]
<1> HIDE DEF m, n, call, m2
<1>10. MeOK(P, session, sz, p, m2)
  BY <1>2, <1>3, <1>6, <1>7, Within DEF m2, n, call
<1>11. PartAdds(P, p, call, n, m, m2, Up(P, p), Collective)
  BY <1>2, <1>3, <1>5, <1>6, SummedCounts DEF m2
<1>12. Exchanges(P, session, sz, p, m, Up(P, p), Collective, mail, mail')
  <2>1. Exchanges(P, session, sz, 0, m, Up(P, 0), Collective, mail, mail')
    BY <1>2, <1>3, TookFromAll
  <2>2. QED
    BY <1>2, <2>1
<1>13. DOMAIN held' = Procs /\ Moves(P, p, held, held') /\ HeldOK(session, sz, m2, held'[p])
  BY <1>2, <1>3, <1>6, HeldThen DEF m2
<1>14. Alike(m, m2)
  BY <1>2, <1>6 DEF Alike, m2
<1>15. RestOK(P, call, m2, n, rest')
  BY <1>6 DEF RestOK, m2
<1>16. QED
  BY <1>1, <1>2, <1>6, <1>8, <1>9, <1>10, <1>11, <1>12, <1>13, <1>14, <1>15, InsideStep
  DEF m, n, call, m2

(* A number that is said is heard.                                         *)
LEMMA ReceivedNumber ==
  ASSUME NEW sz, Now(sz), NEW q \in Procs \ {0}, Has(q, 0, 1)
  PROVE  Received(q, 0, 1) \in Nat
<1> DEFINE kind == <<"up", 1>>
           s == mail[<<q, 0>>]
           from == Total(P, session, sz, kind, q, q, me[q])
           to == Total(P, session, sz, kind, q, 0, me[0])
<1>1. Good(P, session, sz, me, mail)
  BY DEF Now, Fine, Good
<1>2. kind \in Kinds /\ q \in 1 .. P - 1
  BY <1>1 DEF Kinds, Tags, Procs, Good, Settings
<1>3. /\ Line(kind, q) = <<q, 0>> /\ kind[2] = 1 /\ Sender(kind, q) = q
      /\ Receiver(kind, q) = 0
  BY DEF Line, Sender, Receiver
<1>4. Sequential(s) /\ from \in Nat /\ to \in Nat
  BY <1>1, <1>2, <1>3, LineFacts
<1>5. LineOK(P, session, sz, kind, q, s, from, to)
  <2>1. LineIs(P, session, sz, kind, q, me, mail)
    BY <1>1, <1>2 DEF Good, LinesAre
  <2>2. QED
    BY <1>3, <2>1 DEF LineIs
<1>6. OldestOf(s, kind[2]) # 0
  BY <1>3, OldestSame DEF Has
<1>7. Content(P, session, sz, kind, q, to + 1, s[OldestOf(s, kind[2])].what)
  BY <1>4, <1>5, <1>6, LineTaken
<1>8. Received(q, 0, 1) = s[OldestOf(s, kind[2])].what
  BY <1>3, OldestSame DEF Received
<1> HIDE DEF s, to
<1>9. QED
  BY <1>3, <1>7, <1>8 DEF Content

LEMMA CollectPartKeeps ==
  ASSUME IInv, NEW p \in Procs, CollectPart(p)
  PROVE  IInv'
<1>1. PICK sz : Now(sz)
  BY Setup
<1> DEFINE m == me[p]
           n == sz[m.at]
           call == session[m.at]
           from == m.i
           t == m.k + 1
           got == Append(m.got, Received(from, 0, t))
           m2 == me'[p]
<1>2. /\ m.pc = "collect" /\ p = 0 /\ from \in 1 .. P - 1
      /\ Has(from, 0, t) /\ Take(from, 0, t)
      /\ UNCHANGED given /\ rest' = rest /\ held' = held
      /\ IF Len(got) < 3
         THEN /\ me' = [me EXCEPT ![p] = [@ EXCEPT !.k = me[p].k + 1, !.got = got]]
              /\ file' = file
         ELSE /\ Goes(p, "collect", m.i + 1, 0, m.size)
              /\ file' = [file EXCEPT !.texts[1] = @ \o Assembled(got)]
  BY DEF CollectPart, At, Steps
<1>3. /\ P \in Nat \ {0} /\ p \in 0 .. P - 1 /\ 0 \in Procs
      /\ MeOK(P, session, sz, p, m) /\ HeldOK(session, sz, m, held[p])
      /\ MailIs(P, mail) /\ RecordOK(m) /\ DOMAIN me = Procs /\ DOMAIN held = Procs
      /\ n \in Nat /\ InCall(P, call, p, m, n) /\ SizesAre(P, session, sz, me, file)
      /\ m.at \in 1 .. Len(session)
  BY <1>1, <1>2, Facts
<1>4. InCollect(P, call, p, m)
  BY <1>2, <1>3 DEF InCall
<1>5. /\ m.k \in 0 .. 2 /\ GotOK(m) /\ call.op = "write_hdf5" /\ from \in Procs \ {0}
      /\ t \in 1 .. 3
  BY <1>2, <1>3, <1>4 DEF InCollect, Procs
<1>6. /\ Sequential(got) /\ Len(got) = m.k + 1 /\ got[1] \in Nat
  <2>1. Sequential(m.got) /\ Len(m.got) = m.k /\ (m.k > 0 => m.got[1] \in Nat)
    BY <1>5 DEF GotOK
  <2>2. /\ Sequential(got) /\ Len(got) = m.k + 1
        /\ \A k \in 1 .. m.k : got[k] = m.got[k]
        /\ got[m.k + 1] = Received(from, 0, t)
    BY <2>1, Appended
  <2>3. CASE m.k = 0
    <3>1. Received(from, 0, 1) \in Nat
      BY <1>1, <1>2, <1>5, <2>3, ReceivedNumber
    <3>2. QED
      BY <2>2, <2>3, <3>1
  <2>4. CASE m.k # 0
    <3>1. 1 \in 1 .. m.k /\ m.k > 0
      BY <1>5, <2>4
    <3>2. QED
      BY <2>1, <2>2, <3>1
  <2>5. QED
    BY <2>2, <2>3, <2>4
<1>7. /\ DOMAIN me' = Procs /\ Moves(P, p, me, me') /\ RecordOK(m2)
      /\ m2.at = m.at /\ m2.pc = "collect" /\ m2.met = m.met
      /\ \/ m.k < 2 /\ m2.i = m.i /\ m2.k = m.k + 1 /\ m2.got = got /\ file' = file
         \/ /\ m.k = 2 /\ m2.i = m.i + 1 /\ m2.k = 0 /\ m2.got = << >>
            /\ file' = [file EXCEPT !.texts[1] = @ \o Assembled(got)]
  <2> HIDE DEF got
  <2>1. CASE Len(got) < 3
    <3>1. me' = [me EXCEPT ![p] = [@ EXCEPT !.k = me[p].k + 1, !.got = got]] /\ file' = file
      BY <1>2, <2>1
    <3>2. /\ DOMAIN me' = Procs /\ Moves(P, p, me, me') /\ RecordOK(me'[p])
          /\ me'[p].at = me[p].at /\ me'[p].pc = me[p].pc /\ me'[p].i = me[p].i
          /\ me'[p].k = me[p].k + 1
          /\ me'[p].met = me[p].met /\ me'[p].size = me[p].size /\ me'[p].got = got
      BY <1>3, <3>1, Counts
    <3>3. m.k < 2
      BY <1>5, <1>6, <2>1
    <3>4. QED
      BY <1>2, <3>1, <3>2, <3>3
  <2>2. CASE ~ (Len(got) < 3)
    <3> DEFINE i2 == m.i + 1
    <3>1. Goes(p, "collect", i2, 0, m.size) /\ file' = [file EXCEPT !.texts[1] = @ \o Assembled(got)]
      BY <1>2, <2>2
    <3>2. m.k = 2
      BY <1>5, <1>6, <2>2
    <3> HIDE DEF i2
    <3>3. /\ DOMAIN me' = Procs /\ Moves(P, p, me, me') /\ RecordOK(me'[p])
          /\ me'[p].at = m.at /\ me'[p].pc = "collect" /\ me'[p].i = i2
          /\ me'[p].k = 0 /\ me'[p].met = m.met /\ me'[p].got = << >>
      BY <1>3, <3>1, Gone
    <3>4. QED
      BY <3>1, <3>2, <3>3 DEF i2
  <2>3. QED
    BY <2>1, <2>2
<1>8. InCollect(P, call, p, m2)
  <2> HIDE DEF m, m2, got, from, call
  <2>1. CASE m.k < 2 /\ m2.i = m.i /\ m2.k = m.k + 1 /\ m2.got = got
    <3>1. GotOK(m2)
      BY <1>6, <2>1 DEF GotOK
    <3>2. m2.k \in 0 .. 2 /\ m2.i \in 1 .. P - 1 /\ m2.i \in 0 .. P
      BY <1>2, <1>3, <1>5, <2>1 DEF from
    <3>3. QED
      BY <1>2, <1>5, <3>1, <3>2 DEF InCollect
  <2>2. CASE m.k = 2 /\ m2.i = m.i + 1 /\ m2.k = 0 /\ m2.got = << >>
    <3>1. GotOK(m2)
      BY <2>2, Singles DEF GotOK
    <3>2. m2.k \in 0 .. 2 /\ m2.i \in 0 .. P /\ ~ (m2.k > 0)
      BY <1>2, <1>3, <1>5, <2>2 DEF from
    <3>3. QED
      BY <1>2, <1>5, <3>1, <3>2 DEF InCollect
  <2>3. QED
    BY <1>7, <2>1, <2>2
<1>9. FileIs(file) /\ FileIs(file') /\ Written
  <2>1. FileIs(file)
    BY DEF IInv
  <2>2. CASE file' = file
    BY <1>3, <1>5, <2>1, <2>2 DEF Written, Writes
  <2>3. CASE file' = [file EXCEPT !.texts[1] = @ \o Assembled(got)]
    <3> DEFINE a == Assembled(got)
               g1 == got[1]
    <3>1. Sequential(a)
      <4>1. g1 \in Nat
        BY <1>6
      <4>2. a = [k \in 1 .. g1 |-> a[k]]
        BY DEF Assembled
      <4> HIDE DEF a, g1
      <4>3. QED
        BY <4>1, <4>2, Sequentials
    <3>2. Sequential(file.texts[1])
      BY <2>1, FirstText
    <3> DEFINE u == file.texts[1] \o a
    <3>3. Sequential(u)
      BY <3>1, <3>2, Joined DEF Joins
    <3>4. file' = [file EXCEPT !.texts[1] = u]
      BY <2>3
    <3> HIDE DEF u
    <3>5. FileIs(file')
      BY <2>1, <3>3, <3>4, NewText
    <3>6. QED
      BY <1>3, <1>5, <2>1, <3>5 DEF Written, Writes
  <2>4. QED
    BY <1>7, <2>2, <2>3
<1>10. SizesAre(P, session, sz, me, file')
  <2>1. Good(P, session, sz, me, mail) /\ MetAre(P, session, me)
    BY <1>1 DEF Now, Fine, Good, IInv
  <2>2. me[0].i >= 1 /\ me[0].pc = "collect"
    BY <1>2
  <2>3. QED
    BY <1>3, <2>1, <2>2, SizesRewritten
<1> HIDE DEF m, n, call, m2, from, t, got
<1>11. MeOK(P, session, sz, p, m2)
  BY <1>2, <1>3, <1>7, <1>8, Within DEF n, call
<1>12. PartAdds(P, p, call, n, m, m2, {<<from, 0>>}, t)
  <2>1. PartAdds(P, p, call, n, m, m2, {<<m.i, 0>>}, m.k + 1)
    BY <1>2, <1>3, <1>5, <1>7, PartTakenCounts DEF from
  <2>2. QED
    BY <2>1 DEF from, t
<1>13. Exchanges(P, session, sz, p, m, {<<from, 0>>}, t, mail, mail')
  <2>1. t \in Tags
    BY <1>5 DEF Tags
  <2>2. QED
    BY <1>2, <1>3, <1>5, <2>1, TookOne
<1>14. DOMAIN held' = Procs /\ Moves(P, p, held, held') /\ HeldOK(session, sz, m2, held'[p])
  BY <1>2, <1>3, <1>7, HeldThen
<1>15. Alike(m, m2)
  BY <1>2, <1>7 DEF Alike
<1>16. RestOK(P, call, m2, n, rest')
  BY <1>7 DEF RestOK
<1>17. QED
  BY <1>1, <1>2, <1>7, <1>9, <1>10, <1>11, <1>12, <1>13, <1>14, <1>15, <1>16, InsideStep
  DEF m, n, call, m2

LEMMA GatherBlockKeeps ==
  ASSUME IInv, NEW p \in Procs, GatherBlock(p)
  PROVE  IInv'
<1>1. PICK sz : Now(sz)
  BY Setup
<1> DEFINE m == me[p]
           n == sz[m.at]
           call == session[m.at]
           i2 == m.i + 1
<1>2. /\ m.pc = "gather" /\ HasBlock(p)
      /\ Goes(p, "gather", i2, 0, m.size)
      /\ UNCHANGED given /\ rest' = rest /\ held' = held
  BY DEF GatherBlock, At, Steps
<1>3. /\ P \in Nat \ {0} /\ p \in 0 .. P - 1 /\ 0 \in Procs
      /\ MeOK(P, session, sz, p, m) /\ HeldOK(session, sz, m, held[p])
      /\ MailIs(P, mail) /\ RecordOK(m) /\ DOMAIN me = Procs /\ DOMAIN held = Procs
      /\ n \in Nat /\ InCall(P, call, p, m, n) /\ SizesAre(P, session, sz, me, file)
      /\ m.at \in 1 .. Len(session)
  BY <1>1, <1>2, Facts
<1>4. InGather(call, p, m, n) /\ m.size.n = n
  BY <1>2, <1>3 DEF InCall
<1>5. /\ NB(call, n) \in Nat /\ m.i \in Nat /\ i2 \in 1 .. NB(call, n) + 1 /\ i2 = m.i + 1
      /\ m.i \in 1 .. NB(call, n) /\ call.op = "write_dist"
  <2>1. m.i <= NB(call, n)
    BY <1>2, <1>4 DEF HasBlock, BlocksAt, Call, NB
  <2>2. NB(call, n) \in Nat
    BY <1>3, NBNat
  <2>3. QED
    BY <1>4, <2>1, <2>2 DEF InGather
<1>6. P = 1 /\ p = 0
  <2>1. CaseOK /\ m.at \in DOMAIN session
    BY <1>3, SessionIs DEF IInv
  <2>2. P = 1
    BY <1>5, <2>1, CaseMatched
  <2>3. QED
    BY <1>3, <2>2
<1>7. mail' = mail
  <2>1. DOMAIN mail = (0 .. 0) \X (0 .. 0)
    BY <1>3, <1>6 DEF MailIs
  <2>2. mail' = [pair \in DOMAIN mail |->
                  CASE pair[1] # 0 /\ pair[2] = 0 ->
                         RemoveAt(mail[pair], Oldest(pair[1], 0, Collective))
                    [] pair[1] = 0 /\ pair[2] # 0 -> mail[pair] \o Gets(p)
                    [] OTHER -> mail[pair]]
    BY <1>6 DEF GatherBlock
  <2>3. \A pair \in DOMAIN mail : pair[1] = 0 /\ pair[2] = 0
    BY <2>1
  <2>4. mail' = [pair \in DOMAIN mail |-> mail[pair]]
    BY <2>2, <2>3
  <2>5. mail = [pair \in DOMAIN mail |-> mail[pair]]
    BY <1>3 DEF MailIs
  <2>6. QED
    BY <2>4, <2>5
<1>8. FileIs(file') /\ Written
  <2>1. Count(p) \in Nat
    <3>1. Count(p) = BlocksOf(call, n)[m.i][2]
      BY <1>4 DEF Count, BlocksAt, Call
    <3>2. call.op # "hdf5_dist" /\ n \in Nat /\ m.i \in 1 .. NB(call, n)
      BY <1>3, <1>5
    <3> HIDE DEF m, n, call
    <3>3. BlocksOf(call, n)[m.i][2] \in Nat
      BY <3>2, BlockSizes
    <3>4. QED
      BY <3>1, <3>3
  <2>2. PICK X, Y : file' = [file EXCEPT !.texts[1] =
                              SubSeq(@, 1, Len(@) - 1) \o LinesOf(X, Y, First(p), Count(p))
                                \o <<End>>]
    BY <1>6 DEF GatherBlock
  <2> DEFINE old == file.texts[1]
             s == SubSeq(old, 1, Len(old) - 1)
             t == LinesOf(X, Y, First(p), Count(p))
             u == s \o t
             v == u \o <<End>>
  <2>3. FileIs(file) /\ Sequential(old)
    BY FirstText DEF IInv
  <2>4. Len(old) \in Nat
    BY <2>3 DEF Sequential
  <2> HIDE DEF old
  <2>5. Sequential(s)
    <3>1. 1 \in 1 .. Len(old) + 1 /\ Len(old) - 1 \in Int /\ Len(old) - 1 <= Len(old)
      BY <2>4
    <3>2. QED
      BY <2>3, <3>1, PartOfSeq
  <2>6. Sequential(t) /\ Sequential(<<End>>)
    BY <2>1, ListIs, Singles
  <2> HIDE DEF s, t
  <2>7. Sequential(u)
    BY <2>5, <2>6, Joined DEF Joins
  <2> HIDE DEF u
  <2>8. Sequential(v)
    BY <2>6, <2>7, Joined DEF Joins
  <2>9. file' = [file EXCEPT !.texts[1] = v]
    BY <2>2 DEF v, u, s, t, old
  <2> HIDE DEF v
  <2>10. FileIs(file')
    BY <2>3, <2>8, <2>9, NewText
  <2>11. QED
    BY <1>3, <1>5, <2>10 DEF Written, Writes
<1>9. SizesAre(P, session, sz, me, file')
  BY <1>6 DEF SizesAre
<1> HIDE DEF i2
<1>10. /\ DOMAIN me' = Procs /\ Moves(P, p, me, me') /\ RecordOK(me'[p])
       /\ me'[p].at = m.at /\ me'[p].pc = "gather" /\ me'[p].i = i2
       /\ me'[p].met = m.met /\ me'[p].size = m.size
  BY <1>2, <1>3, Gone
<1>11. InGather(call, p, me'[p], n)
  BY <1>4, <1>5, <1>10 DEF InGather
<1> DEFINE m2 == me'[p]
<1> HIDE DEF m, n, call, m2
<1>12. MeOK(P, session, sz, p, m2)
  BY <1>2, <1>3, <1>4, <1>10, <1>11, Within DEF m2, n, call
<1>13. PartAdds(P, p, call, n, m, m2, {}, 0)
  BY <1>2, <1>10, Gathering DEF m2
<1>14. Exchanges(P, session, sz, p, m, {}, 0, mail, mail')
  BY <1>7, NothingExchanged
<1>15. DOMAIN held' = Procs /\ Moves(P, p, held, held') /\ HeldOK(session, sz, m2, held'[p])
  BY <1>2, <1>3, <1>10, HeldThen DEF m2
<1>16. Alike(m, m2)
  BY <1>2, <1>10 DEF Alike, m2
<1>17. RestOK(P, call, m2, n, rest')
  BY <1>10 DEF RestOK, m2
<1>18. QED
  BY <1>1, <1>2, <1>8, <1>9, <1>10, <1>12, <1>13, <1>14, <1>15, <1>16, <1>17, InsideStep
  DEF m, n, call, m2

LEMMA SharedNumber ==
  ASSUME NEW sz, Now(sz), NEW q \in Procs \ {0}, Has(0, q, 1)
  PROVE  Received(0, q, 1) \in Nat
<1> DEFINE kind == <<"down", 1>>
           s == mail[<<0, q>>]
           from == Total(P, session, sz, kind, q, 0, me[0])
           to == Total(P, session, sz, kind, q, q, me[q])
<1>1. Good(P, session, sz, me, mail)
  BY DEF Now, Fine, Good
<1>2. kind \in Kinds /\ q \in 1 .. P - 1
  BY <1>1 DEF Kinds, Tags, Procs, Good, Settings
<1>3. /\ Line(kind, q) = <<0, q>> /\ kind[2] = 1 /\ Sender(kind, q) = 0
      /\ Receiver(kind, q) = q
  BY DEF Line, Sender, Receiver
<1>4. Sequential(s) /\ from \in Nat /\ to \in Nat
  BY <1>1, <1>2, <1>3, LineFacts
<1>5. LineOK(P, session, sz, kind, q, s, from, to)
  <2>1. LineIs(P, session, sz, kind, q, me, mail)
    BY <1>1, <1>2 DEF Good, LinesAre
  <2>2. QED
    BY <1>3, <2>1 DEF LineIs
<1>6. OldestOf(s, kind[2]) # 0
  BY <1>3, OldestSame DEF Has
<1>7. Content(P, session, sz, kind, q, to + 1, s[OldestOf(s, kind[2])].what)
  BY <1>4, <1>5, <1>6, LineTaken
<1>8. Received(0, q, 1) = s[OldestOf(s, kind[2])].what
  BY <1>3, OldestSame DEF Received
<1> HIDE DEF s, to
<1>9. QED
  BY <1>3, <1>7, <1>8 DEF Content

-----------------------------------------------------------------------------
(* Shares.                                                                 *)
LEMMA AllocatedIs ==
  ASSUME NEW n, NEW p, me[p].size.n = n, NEW q
  PROVE  Allocated(p, q) = Alloc(P, n, q)
BY DEF Allocated, Allocation, Alloc, Bit

LEMMA AttachedIs ==
  ASSUME NEW share
  PROVE  "n" \in DOMAIN Attached(share) /\ Attached(share).n = share[1]
BY DEF Attached

LEMMA ShareFacts ==
  ASSUME IInv, NEW sz, Now(sz), Serves(0), NEW n, n = sz[me[0].at], NEW i, i = me[0].i
  PROVE  /\ i \in 0 .. P - 1 /\ P \in Nat \ {0} /\ me[0].pc = "shares"
         /\ Alloc(P, n, i) = Allocated(0, i) /\ (i > 0 => Alloc(P, n, i) > 0)
         /\ Sequential(RestAfterShare(0))
         /\ Len(RestAfterShare(0)) + AllocBefore(P, n, i + 1) >= n
         /\ ShareAt(0)[1] \in Nat
<1> DEFINE m == me[0]
           call == session[m.at]
           a == Allocated(0, i)
<1>1. /\ m.pc = "shares" /\ i < P /\ (call.op = "ml_sparse" => a \in 1 .. Len(rest))
  BY DEF Serves, At, Call
<1>2. /\ P \in Nat \ {0} /\ 0 \in 0 .. P - 1 /\ 0 \in Procs /\ n \in Nat
      /\ InCall(P, call, 0, m, n) /\ RestOK(P, call, m, n, rest)
  <2>1. 0 \in Procs
    BY Setup
  <2>2. QED
    BY <1>1, <2>1, Facts
<1>3. InShares(P, call, 0, m, n) /\ m.size.n = n
  BY <1>1, <1>2 DEF InCall
<1>4. i \in 0 .. P - 1 /\ call.op \in Shared
  BY <1>1, <1>2, <1>3 DEF InShares
<1>5. /\ Sequential(rest)
      /\ Len(rest) + AllocBefore(P, n, i) >= n
      /\ call.op = "ml_hdf5_sparse" /\ P > 1 => n >= P
  BY <1>1, <1>2, <1>4 DEF RestOK
<1>6. a = Alloc(P, n, i)
  BY <1>3, AllocatedIs
<1> DEFINE b == AllocBefore(P, n, i)
           b2 == AllocBefore(P, n, i + 1)
           r == RestAfterShare(0)
<1>7. a \in Nat /\ b \in Nat /\ b2 = b + a /\ b + a <= n /\ (n >= P => a > 0)
  <2>1. /\ Alloc(P, n, i) \in Nat /\ AllocBefore(P, n, i) \in Nat
        /\ AllocBefore(P, n, i + 1) = AllocBefore(P, n, i) + Alloc(P, n, i)
        /\ AllocBefore(P, n, i) + Alloc(P, n, i) <= n
        /\ n >= P => Alloc(P, n, i) > 0
    BY <1>2, <1>4, Shares
  <2> HIDE DEF a
  <2>2. QED
    BY <1>6, <2>1
<1>8. i > 0 => a > 0
  <2>1. CASE call.op = "ml_sparse"
    BY <1>1, <1>7, <2>1
  <2>2. CASE call.op = "ml_hdf5_sparse"
    BY <1>2, <1>4, <1>5, <1>7, <2>2
  <2>3. QED
    BY <1>4, <2>1, <2>2 DEF Shared
<1>9. Len(rest) \in Nat /\ a <= Len(rest)
  <2>1. Len(rest) \in Nat
    BY <1>5 DEF Sequential
  <2>2. Len(rest) + b >= n
    BY <1>5
  <2> HIDE DEF a, b
  <2>3. QED
    BY <1>2, <1>7, <2>1, <2>2
<1>10. r = SubSeq(rest, a + 1, Len(rest))
  BY DEF RestAfterShare
<1> HIDE DEF a, b, b2, r
<1>11. Sequential(r) /\ Len(r) = Len(rest) - a
  <2> DEFINE c == a + 1
             l == Len(rest)
  <2>1. c \in 1 .. Len(rest) + 1 /\ l \in Int /\ l <= Len(rest)
    BY <1>7, <1>9
  <2>2. r = SubSeq(rest, c, l)
    BY <1>10
  <2> HIDE DEF c, l
  <2>3. Sequential(r) /\ Len(r) = IF c <= l THEN l - c + 1 ELSE 0
    BY <1>5, <2>1, <2>2, PartOfSeq
  <2>4. QED
    BY <1>7, <1>9, <2>3 DEF c, l
<1>12. Len(r) + b2 >= n
  BY <1>2, <1>5, <1>7, <1>9, <1>11 DEF b
<1>13. ShareAt(0)[1] \in Nat
  <2> DEFINE one == 1
             lines == SubSeq(rest, one, a)
  <2>1. one \in 1 .. Len(rest) + 1 /\ a \in Int /\ a <= Len(rest)
    BY <1>7, <1>9
  <2>2. ShareAt(0)[1] = Len(lines)
    BY DEF ShareAt, Share, a
  <2> HIDE DEF one
  <2>3. Sequential(lines)
    BY <1>5, <2>1, PartOfSeq
  <2> HIDE DEF lines
  <2>4. QED
    BY <2>2, <2>3 DEF Sequential
<1>14. QED
  BY <1>1, <1>2, <1>4, <1>6, <1>8, <1>11, <1>12, <1>13 DEF r, b2, a

LEMMA KeepShareKeeps ==
  ASSUME IInv, NEW p \in Procs, KeepShare(p)
  PROVE  IInv'
<1>1. PICK sz : Now(sz)
  BY Setup
<1> DEFINE m == me[p]
           n == sz[m.at]
           call == session[m.at]
<1>2. /\ p = 0 /\ Serves(0) /\ m.i = 0
      /\ held' = [held EXCEPT ![p] = Attached(ShareAt(0))]
      /\ rest' = RestAfterShare(0)
      /\ Goes(p, m.pc, 1, 0, m.size)
      /\ UNCHANGED given /\ file' = file /\ mail' = mail
  BY DEF KeepShare, Serves, Steps
<1>3. /\ m.pc = "shares" /\ Sequential(rest')
      /\ Len(rest') + AllocBefore(P, n, 0 + 1) >= n /\ ShareAt(0)[1] \in Nat
  BY <1>1, <1>2, ShareFacts
<1>4. /\ P \in Nat \ {0} /\ p \in 0 .. P - 1 /\ 0 \in Procs
      /\ MeOK(P, session, sz, p, m) /\ RestOK(P, session[me[0].at], me[0], sz[me[0].at], rest)
      /\ RecordOK(m) /\ DOMAIN me = Procs /\ DOMAIN held = Procs
      /\ n \in Nat /\ InCall(P, call, p, m, n)
  BY <1>1, <1>2, <1>3, Facts
<1>5. InShares(P, call, p, m, n) /\ m.size.n = n
  BY <1>3, <1>4 DEF InCall
<1>6. /\ DOMAIN me' = Procs /\ Moves(P, p, me, me') /\ RecordOK(me'[p])
      /\ me'[p].at = m.at /\ me'[p].pc = "shares" /\ me'[p].i = 1
      /\ me'[p].k = 0 /\ me'[p].met = m.met /\ me'[p].size = m.size
  BY <1>2, <1>3, <1>4, Gone
<1>7. InShares(P, call, p, me'[p], n) /\ m.k = 0 /\ call.op \in Shared
  BY <1>2, <1>4, <1>5, <1>6 DEF InShares
<1> DEFINE m2 == me'[p]
<1>8. RestOK(P, call, m2, n, rest')
  BY <1>2, <1>3, <1>4, <1>6, <1>7 DEF RestOK
<1> HIDE DEF m, n, call, m2
<1>9. MeOK(P, session, sz, p, m2)
  BY <1>3, <1>4, <1>5, <1>6, <1>7, Within DEF m2, n, call
<1>10. PartAdds(P, p, call, n, m, m2, {}, 0)
  BY <1>2, <1>3, <1>4, <1>6, <1>7, KeptCounts DEF m2
<1>11. Exchanges(P, session, sz, p, m, {}, 0, mail, mail')
  BY <1>2, NothingExchanged
<1>12. DOMAIN held' = Procs /\ Moves(P, p, held, held') /\ HeldOK(session, sz, m2, held'[p])
  <2>1. /\ DOMAIN held' = Procs /\ Moves(P, p, held, held')
        /\ held'[p] = Attached(ShareAt(0))
    BY <1>2, <1>4, PutHeld
  <2>2. QED
    BY <1>3, <1>6, <2>1, AttachedIs DEF HeldOK, m2
<1>13. Alike(m, m2)
  BY <1>3, <1>6 DEF Alike, m2
<1>14. QED
  BY <1>1, <1>2, <1>3, <1>6, <1>8, <1>9, <1>10, <1>11, <1>12, <1>13, InsideStep
  DEF m, n, call, m2

LEMMA SendShareKeeps ==
  ASSUME IInv, NEW p \in Procs, SendShare(p)
  PROVE  IInv'
<1>1. PICK sz : Now(sz)
  BY Setup
<1> DEFINE m == me[p]
           n == sz[m.at]
           call == session[m.at]
           to == m.i
           t == m.k + 1
           i2 == m.i + 1
           m2 == me'[p]
<1>2. /\ p = 0 /\ Serves(0) /\ to > 0
      /\ Send(p, to, t, ShareAt(0)[t])
      /\ \/ m.k < 6 /\ Goes(p, m.pc, to, t, m.size) /\ rest' = rest
         \/ ~ (m.k < 6) /\ Goes(p, m.pc, i2, 0, m.size) /\ rest' = RestAfterShare(0)
      /\ UNCHANGED given /\ file' = file /\ held' = held
  BY DEF SendShare, Serves, Steps
<1>3. /\ m.pc = "shares" /\ Sequential(RestAfterShare(0))
      /\ Len(RestAfterShare(0)) + AllocBefore(P, n, i2) >= n /\ ShareAt(0)[1] \in Nat
      /\ Alloc(P, n, to) > 0 /\ to \in 1 .. P - 1
  BY <1>1, <1>2, ShareFacts
<1>4. /\ P \in Nat \ {0} /\ p \in 0 .. P - 1 /\ 0 \in Procs
      /\ MeOK(P, session, sz, p, m) /\ RestOK(P, session[me[0].at], me[0], sz[me[0].at], rest)
      /\ RecordOK(m) /\ DOMAIN me = Procs /\ DOMAIN held = Procs /\ MailIs(P, mail)
      /\ n \in Nat /\ InCall(P, call, p, m, n) /\ HeldOK(session, sz, m, held[p])
  BY <1>1, <1>2, <1>3, Facts
<1>5. InShares(P, call, p, m, n) /\ m.size.n = n
  BY <1>3, <1>4 DEF InCall
<1>6. /\ m.k \in 0 .. 6 /\ call.op \in Shared /\ t \in 1 .. 7
      /\ \A q \in 1 .. to - 1 : Alloc(P, n, q) > 0
  BY <1>2, <1>5 DEF InShares
<1> HIDE DEF i2, t, to
<1>7. /\ DOMAIN me' = Procs /\ Moves(P, p, me, me') /\ RecordOK(m2)
      /\ m2.at = m.at /\ m2.pc = "shares" /\ m2.met = m.met /\ m2.size = m.size
      /\ \/ m.k < 6 /\ m2.i = to /\ m2.k = t /\ rest' = rest
         \/ m.k = 6 /\ m2.i = i2 /\ m2.k = 0 /\ rest' = RestAfterShare(0)
  <2>1. CASE m.k < 6 /\ Goes(p, m.pc, to, t, m.size) /\ rest' = rest
    BY <1>3, <1>4, <2>1, Gone
  <2>2. CASE ~ (m.k < 6) /\ Goes(p, m.pc, i2, 0, m.size) /\ rest' = RestAfterShare(0)
    BY <1>3, <1>4, <1>6, <2>2, Gone
  <2>3. QED
    BY <1>2, <2>1, <2>2
<1>8. InShares(P, call, p, m2, n) /\ RestOK(P, call, m2, n, rest')
  <2> HIDE DEF m2, m, call, n
  <2>1. CASE m.k < 6 /\ m2.i = to /\ m2.k = t /\ rest' = rest
    <3>1. t \in 1 .. 6 /\ t > 0 /\ t \in 0 .. 6
      BY <1>6, <2>1 DEF t
    <3>2. InShares(P, call, p, m2, n)
      BY <1>2, <1>3, <1>4, <1>6, <2>1, <3>1 DEF InShares
    <3>3. RestOK(P, call, m, n, rest)
      BY <1>2, <1>4 DEF m, call, n
    <3>4. RestOK(P, call, m2, n, rest')
      BY <1>3, <1>7, <2>1, <3>3 DEF RestOK, to
    <3>5. QED
      BY <3>2, <3>4
  <2>2. CASE m.k = 6 /\ m2.i = i2 /\ m2.k = 0 /\ rest' = RestAfterShare(0)
    <3>1. i2 \in 0 .. P /\ i2 - 1 = to /\ to \in Nat
      BY <1>3, <1>4 DEF i2, to
    <3>2. \A q \in 1 .. i2 - 1 : Alloc(P, n, q) > 0
      <4> TAKE q \in 1 .. i2 - 1
      <4>1. q \in 1 .. to - 1 \/ q = to
        BY <3>1
      <4>2. QED
        BY <1>3, <1>6, <4>1
    <3>3. InShares(P, call, p, m2, n)
      BY <1>2, <1>6, <2>2, <3>1, <3>2 DEF InShares
    <3>4. RestOK(P, call, m, n, rest)
      BY <1>2, <1>4 DEF m, call, n
    <3>5. RestOK(P, call, m2, n, rest')
      BY <1>3, <1>7, <2>2, <3>4 DEF RestOK
    <3>6. QED
      BY <3>3, <3>5
  <2>3. QED
    BY <1>7, <2>1, <2>2
<1> HIDE DEF m, n, call, m2
<1>9. MeOK(P, session, sz, p, m2)
  BY <1>3, <1>4, <1>5, <1>7, <1>8, Within DEF m, n, call
<1>10. PartAdds(P, p, call, n, m, m2, {<<0, to>>}, t)
  BY <1>2, <1>3, <1>4, <1>6, <1>7, ShareSentCounts DEF to, t, i2
<1>11. Exchanges(P, session, sz, p, m, {<<0, to>>}, t, mail, mail')
  <2>1. t \in Tags /\ t # Collective
    BY <1>6 DEF Tags, Collective
  <2>2. t = 1 => ShareAt(0)[t] \in Nat
    BY <1>3
  <2>3. Says(P, session, sz, p, m, <<p, to>>, t, ShareAt(0)[t])
    BY <2>1, <2>2, SaysTag
  <2>4. to \in Procs /\ to # p
    BY <1>2, <1>3 DEF Procs
  <2>5. QED
    BY <1>2, <1>4, <2>1, <2>3, <2>4, SentOne
<1>12. DOMAIN held' = Procs /\ Moves(P, p, held, held') /\ HeldOK(session, sz, m2, held'[p])
  BY <1>2, <1>3, <1>4, <1>7, HeldThen
<1>13. Alike(m, m2)
  BY <1>3, <1>7 DEF Alike
<1>14. QED
  BY <1>1, <1>2, <1>3, <1>7, <1>8, <1>9, <1>10, <1>11, <1>12, <1>13, InsideStep
  DEF m, n, call, m2

LEMMA ReceiveShareKeeps ==
  ASSUME IInv, NEW p \in Procs, ReceiveShare(p)
  PROVE  IInv'
<1>1. PICK sz : Now(sz)
  BY Setup
<1> DEFINE m == me[p]
           n == sz[m.at]
           call == session[m.at]
           t == m.k + 1
           got == Append(m.got, Received(0, p, t))
           m2 == me'[p]
<1>2. /\ m.pc = "shares" /\ p # 0 /\ Allocated(p, p) > 0 /\ m.k < 7
      /\ Has(0, p, t) /\ Take(0, p, t)
      /\ me' = [me EXCEPT ![p] = [@ EXCEPT !.k = me[p].k + 1, !.got = got]]
      /\ held' = held \/ held' = [held EXCEPT ![p] = Attached(got)]
      /\ UNCHANGED given /\ file' = file /\ rest' = rest
  BY DEF ReceiveShare, At
<1>3. /\ P \in Nat \ {0} /\ p \in 0 .. P - 1 /\ 0 \in Procs
      /\ MeOK(P, session, sz, p, m) /\ HeldOK(session, sz, m, held[p])
      /\ MailIs(P, mail) /\ RecordOK(m) /\ DOMAIN me = Procs /\ DOMAIN held = Procs
      /\ n \in Nat /\ InCall(P, call, p, m, n)
  BY <1>1, <1>2, Facts
<1>4. InShares(P, call, p, m, n) /\ m.size.n = n
  BY <1>2, <1>3 DEF InCall
<1>5. /\ m.k \in 0 .. 6 /\ GotOK(m) /\ call.op \in Shared /\ t \in 1 .. 7
      /\ Alloc(P, n, p) > 0
  BY <1>2, <1>4, AllocatedIs DEF InShares
<1>6. /\ Sequential(got) /\ Len(got) = m.k + 1 /\ got[1] \in Nat
  <2>1. Sequential(m.got) /\ Len(m.got) = m.k /\ (m.k > 0 => m.got[1] \in Nat)
    BY <1>5 DEF GotOK
  <2>2. /\ Sequential(got) /\ Len(got) = m.k + 1
        /\ \A k \in 1 .. m.k : got[k] = m.got[k]
        /\ got[m.k + 1] = Received(0, p, t)
    BY <2>1, Appended
  <2>3. CASE m.k = 0
    <3>1. Received(0, p, 1) \in Nat
      BY <1>1, <1>2, <2>3, SharedNumber
    <3>2. QED
      BY <2>2, <2>3, <3>1
  <2>4. CASE m.k # 0
    <3>1. 1 \in 1 .. m.k /\ m.k > 0
      BY <1>5, <2>4
    <3>2. QED
      BY <2>1, <2>2, <3>1
  <2>5. QED
    BY <2>2, <2>3, <2>4
<1> HIDE DEF got
<1>7. /\ DOMAIN me' = Procs /\ Moves(P, p, me, me') /\ RecordOK(m2)
      /\ m2.at = m.at /\ m2.pc = "shares" /\ m2.i = m.i /\ m2.k = m.k + 1
      /\ m2.met = m.met /\ m2.size = m.size /\ m2.got = got
  BY <1>2, <1>3, Counts
<1>8. InShares(P, call, p, m2, n)
  <2>1. GotOK(m2)
    BY <1>6, <1>7 DEF GotOK
  <2>2. m2.k \in 0 .. 7
    BY <1>5, <1>7
  <2> HIDE DEF m2
  <2>3. QED
    BY <1>2, <1>5, <2>1, <2>2 DEF InShares
<1> HIDE DEF m, n, call, m2, t
<1>9. MeOK(P, session, sz, p, m2)
  BY <1>2, <1>3, <1>4, <1>7, <1>8, Within DEF n, call
<1>10. PartAdds(P, p, call, n, m, m2, Down(P, p), t)
  <2>1. PartAdds(P, p, call, n, m, m2, Down(P, p), m.k + 1)
    BY <1>2, <1>3, <1>5, <1>7, ShareTakenCounts
  <2>2. QED
    BY <2>1 DEF t
<1>11. Exchanges(P, session, sz, p, m, Down(P, p), t, mail, mail')
  <2>1. Down(P, p) = {<<0, p>>}
    BY <1>2 DEF Down
  <2>2. t \in Tags
    BY <1>5 DEF Tags
  <2>3. Exchanges(P, session, sz, p, m, {<<0, p>>}, t, mail, mail')
    BY <1>2, <1>3, <2>2, TookOne
  <2>4. QED
    BY <2>1, <2>3
<1>12. DOMAIN held' = Procs /\ Moves(P, p, held, held') /\ HeldOK(session, sz, m2, held'[p])
  <2>1. CASE held' = held
    BY <1>2, <1>3, <1>7, <2>1, HeldThen
  <2>2. CASE held' = [held EXCEPT ![p] = Attached(got)]
    <3>1. /\ DOMAIN held' = Procs /\ Moves(P, p, held, held')
          /\ held'[p] = Attached(got)
      BY <1>3, <2>2, PutHeld
    <3>2. QED
      BY <1>6, <1>7, <3>1, AttachedIs DEF HeldOK
  <2>3. QED
    BY <1>2, <2>1, <2>2
<1>13. Alike(m, m2)
  BY <1>2, <1>7 DEF Alike
<1>14. QED
  BY <1>1, <1>2, <1>7, <1>9, <1>10, <1>11, <1>12, <1>13, InsideStep DEF m, n, call, m2
-----------------------------------------------------------------------------
(* Lines.                                                                  *)
LEMMA LeastIs ==
  ASSUME NEW n, NEW I, I \subseteq 1 .. n, n \in Nat, NEW k,
         k = IF I # {} THEN Min(I) ELSE 0
  PROVE  k \in 0 .. n
<1>1. CASE I = {}
  BY <1>1
<1>2. CASE I # {}
  <2>1. I \subseteq Nat
    OBVIOUS
  <2>2. \E x \in I : \A y \in I : x <= y
    BY <1>2, <2>1, LeastNatural
  <2>3. Min(I) \in I
    BY <2>2 DEF Min
  <2>4. k \in 1 .. n
    BY <1>2, <2>3
  <2>5. QED
    BY <2>4
<1>3. QED
  BY <1>1, <1>2

LEMMA CutBefore ==
  ASSUME NEW s, Sequential(s), NEW k \in 0 .. Len(s), NEW u,
         u = IF k = 0 THEN s ELSE SubSeq(s, 1, k - 1)
  PROVE  Sequential(u) /\ Len(u) <= Len(s)
<1>1. Len(s) \in Nat
  BY DEF Sequential
<1>2. CASE k = 0
  BY <1>1, <1>2
<1>3. CASE k # 0
  <2> DEFINE one == 1
             b == k - 1
  <2>1. one \in 1 .. Len(s) + 1 /\ b \in Nat /\ b <= Len(s) /\ one = 1
    BY <1>1, <1>3
  <2>2. u = SubSeq(s, one, b)
    BY <1>3
  <2> HIDE DEF one, b
  <2>3. Sequential(u) /\ Len(u) = IF one <= b THEN b - one + 1 ELSE 0
    BY <2>1, <2>2, PartOfSeq
  <2>4. QED
    BY <1>1, <2>1, <2>3
<1>4. QED
  BY <1>2, <1>3

LEMMA UntilIgnored ==
  ASSUME NEW s, Sequential(s)
  PROVE  Sequential(Until(s, Ignored)) /\ Len(Until(s, Ignored)) <= Len(s)
<1> DEFINE I == {i \in 1 .. Len(s) : Ignored(s[i])}
           k == SelectInSeq(s, Ignored)
<1>1. k = IF I # {} THEN Min(I) ELSE 0
  BY DEF SelectInSeq
<1>2. Until(s, Ignored) = IF k = 0 THEN s ELSE SubSeq(s, 1, k - 1)
  BY DEF Until
<1>3. I \subseteq 1 .. Len(s) /\ Len(s) \in Nat
  BY DEF Sequential
<1> HIDE DEF I, k
<1>4. k \in 0 .. Len(s)
  BY <1>1, <1>3, LeastIs
<1>5. QED
  BY <1>2, <1>4, CutBefore

LEMMA UntilBlank ==
  ASSUME NEW s, Sequential(s)
  PROVE  Sequential(Until(s, IsBlank)) /\ Len(Until(s, IsBlank)) <= Len(s)
<1> DEFINE I == {i \in 1 .. Len(s) : IsBlank(s[i])}
           k == SelectInSeq(s, IsBlank)
<1>1. k = IF I # {} THEN Min(I) ELSE 0
  BY DEF SelectInSeq
<1>2. Until(s, IsBlank) = IF k = 0 THEN s ELSE SubSeq(s, 1, k - 1)
  BY DEF Until
<1>3. I \subseteq 1 .. Len(s) /\ Len(s) \in Nat
  BY DEF Sequential
<1> HIDE DEF I, k
<1>4. k \in 0 .. Len(s)
  BY <1>1, <1>3, LeastIs
<1>5. QED
  BY <1>2, <1>4, CutBefore

LEMMA FirstOfLines ==
  ASSUME NEW s, Sequential(s), NEW max \in Int
  PROVE  Len(FirstOf(s, max)) \in Nat
<1>1. CASE max = -1
  BY <1>1 DEF FirstOf, Sequential
<1>2. CASE max # -1
  <2>1. FirstOf(s, max) = SubSeq(s, 1, Smaller(max, Len(s)))
    BY <1>2 DEF FirstOf
  <2> DEFINE one == 1
             b == Smaller(max, Len(s))
  <2>2. one \in 1 .. Len(s) + 1 /\ b \in Int /\ b <= Len(s)
    BY DEF Sequential, Smaller
  <2> HIDE DEF one, b
  <2>3. Sequential(SubSeq(s, one, b))
    BY <2>2, PartOfSeq
  <2>4. QED
    BY <2>1, <2>3 DEF one, b, Sequential
<1>3. QED
  BY <1>1, <1>2

(* Lines of several texts.                                                 *)
LEMMA FlatLines ==
  ASSUME NEW q, Sequential(q), Len(q) # 0, \A k \in 1 .. Len(q) : Sequential(q[k])
  PROVE  Sequential(FlattenSeq(q)) /\ Len(q[1]) <= Len(FlattenSeq(q))
<1> DEFINE n == Len(q)
           V == {q[k] : k \in 1 .. n}
           f == FlattenSeq(q)
<1>1. n \in Nat /\ n # 0 /\ q \in [1 .. n -> V]
  BY DEF Sequential
<1>2. Unfolds(f, q, n)
  <2> HIDE DEF V, n, f
  <2>1. QED
    BY <1>1, Flattened DEF f
<1>3. PICK g : /\ f = g[n] /\ g[1] = q[1]
                /\ \A i \in 2 .. n : g[i] = g[i - 1] \o q[i]
  BY <1>2 DEF Unfolds
<1> DEFINE Grown == {i \in 1 .. n : Sequential(g[i]) /\ Len(q[1]) <= Len(g[i])}
<1>4. 1 \in Nat /\ 1 \in Grown
  BY <1>1, <1>3 DEF Sequential
<1>5. \A i \in 1 .. n : i \in Grown /\ i < n => i + 1 \in Grown
  <2> TAKE i \in 1 .. n
  <2> HAVE i \in Grown /\ i < n
  <2> DEFINE j == i + 1
  <2>1. j \in 2 .. n /\ j - 1 = i /\ j \in 1 .. n
    BY <1>1
  <2> HIDE DEF j
  <2>2. g[j] = g[i] \o q[j]
    BY <1>3, <2>1
  <2>3. Sequential(g[i]) /\ Sequential(q[j]) /\ Len(q[1]) <= Len(g[i])
    BY <2>1
  <2>4. Sequential(g[j]) /\ Len(g[j]) = Len(g[i]) + Len(q[j])
    BY <2>2, <2>3, Joined DEF Joins
  <2>5. Len(q[1]) \in Nat /\ Len(g[i]) \in Nat /\ Len(q[j]) \in Nat
    <3>1. 1 \in 1 .. n
      BY <1>1
    <3>2. QED
      BY <2>3, <3>1 DEF Sequential
  <2>6. Len(q[1]) <= Len(g[j])
    <3> DEFINE a == Len(q[1])
               b == Len(g[i])
               c == Len(q[j])
               d == Len(g[j])
    <3>1. a \in Nat /\ b \in Nat /\ c \in Nat /\ a <= b /\ d = b + c
      BY <2>3, <2>4, <2>5
    <3> HIDE DEF a, b, c, d
    <3>2. a <= d
      BY <3>1
    <3>3. QED
      BY <3>2 DEF a, d
  <2>7. QED
    BY <2>1, <2>4, <2>6 DEF j
<1> HIDE DEF Grown
<1>6. \A i \in 1 .. n : i \in Grown
  BY <1>1, <1>4, <1>5, UpTo
<1>7. n \in Grown
  BY <1>1, <1>6
<1>8. QED
  BY <1>3, <1>7 DEF Grown

LEMMA AllLines ==
  ASSUME NEW t, Sequential(t), t # << >>, \A k \in DOMAIN t : Sequential(t[k])
  PROVE  Sequential(AllOf(t))
<1> DEFINE q == [k \in DOMAIN t |-> Until(t[k], Ignored)]
           n == Len(t)
<1>1. n \in Nat /\ n # 0 /\ DOMAIN t = 1 .. n
  <2>1. n \in Nat /\ DOMAIN t = 1 .. n /\ \E S : t \in Seq(S)
    BY AsSeq
  <2>2. QED
    BY <2>1
<1>2. q = [k \in 1 .. n |-> q[k]]
  BY <1>1
<1>3. \A k \in 1 .. n : Sequential(q[k])
  BY <1>1, UntilIgnored
<1>4. AllOf(t) = FlattenSeq(q)
  BY DEF AllOf
<1> HIDE DEF q, n
<1>5. Sequential(q) /\ Len(q) = n
  BY <1>1, <1>2, Sequentials
<1>6. QED
  BY <1>1, <1>3, <1>4, <1>5, FlatLines

LEMMA AmongThem ==
  ASSUME NEW s, Sequential(s)
  PROVE  Sequential(WithFeatures(s)) /\ Len(WithFeatures(s)) <= Len(s)
<1> DEFINE N == Len(s)
           Next1(f, i) == IF i = 0 THEN << >>
                          ELSE IF HasFeatures(s[i]) THEN Append(f[i - 1], s[i])
                          ELSE f[i - 1]
           Is(f, m) == f = [i \in 0 .. m |-> Next1(f, i)]
           Grown == {m \in 0 .. N : \E f : Is(f, m)}
<1>1. N \in Nat
  BY DEF Sequential
<1>2. Is([i \in 0 .. 0 |-> << >>], 0)
  <2>1. \A f : [i \in 0 .. 0 |-> Next1(f, i)] = [i \in 0 .. 0 |-> << >>]
    OBVIOUS
  <2>2. QED
    BY <2>1
<1>3. ASSUME NEW m \in 0 .. N, NEW f, Is(f, m), m < N
      PROVE  \E g : Is(g, m + 1)
  <2> DEFINE l == m + 1
             e == IF HasFeatures(s[l]) THEN Append(f[m], s[l]) ELSE f[m]
             g == [i \in 0 .. l |-> IF i = l THEN e ELSE f[i]]
  <2>1. l \in 1 .. N /\ l - 1 = m /\ m \in 0 .. l /\ m # l
    BY <1>1, <1>3
  <2> HIDE DEF l
  <2>2. ASSUME NEW i \in 0 .. l PROVE g[i] = Next1(g, i)
    <3>1. CASE i = l
      <4>1. g[i] = e /\ g[m] = f[m]
        BY <2>1, <3>1
      <4>2. i # 0 /\ i - 1 = m
        BY <2>1, <3>1
      <4>3. QED
        BY <3>1, <4>1, <4>2
    <3>2. CASE i # l
      <4>1. i \in 0 .. m
        BY <2>1, <3>2
      <4>2. g[i] = f[i]
        BY <3>2
      <4>3. f[i] = Next1(f, i)
        BY <1>3, <4>1
      <4>4. i # 0 => g[i - 1] = f[i - 1]
        BY <2>1, <4>1
      <4>5. QED
        BY <4>2, <4>3, <4>4
    <3>3. QED
      BY <3>1, <3>2
  <2>3. g = [i \in 0 .. l |-> g[i]]
    OBVIOUS
  <2> HIDE DEF g
  <2>4. g = [i \in 0 .. l |-> Next1(g, i)]
    BY <2>2, <2>3
  <2>5. QED
    BY <2>4 DEF l
<1> HIDE DEF Is
<1>4. 0 \in Nat /\ 0 \in Grown
  BY <1>1, <1>2
<1>5. \A m \in 0 .. N : m \in Grown /\ m < N => m + 1 \in Grown
  <2> TAKE m \in 0 .. N
  <2> HAVE m \in Grown /\ m < N
  <2>1. \E g : Is(g, m + 1)
    BY <1>3
  <2>2. QED
    BY <1>1, <2>1
<1> HIDE DEF Grown
<1>6. \A m \in 0 .. N : m \in Grown
  BY <1>1, <1>4, <1>5, UpTo
<1>7. \E f : Is(f, N)
  BY <1>1, <1>6 DEF Grown
<1> DEFINE a == CHOOSE f : f = [n \in 0 .. N |->
                  IF n = 0 THEN << >>
                  ELSE IF HasFeatures(s[n]) THEN Append(f[n - 1], s[n]) ELSE f[n - 1]]
<1>8. WithFeatures(s) = a[N]
  BY DEF WithFeatures
<1>9. a = [n \in 0 .. N |-> Next1(a, n)]
  BY <1>7 DEF Is
<1> HIDE DEF a, Next1
<1>10. \A n \in 0 .. N : a[n] = Next1(a, n)
  BY <1>9
<1> DEFINE Fits == {n \in 0 .. N : Sequential(a[n]) /\ Len(a[n]) <= n}
<1>11. 0 \in Fits
  <2>1. a[0] = << >>
    BY <1>1, <1>10 DEF Next1
  <2>2. QED
    BY <1>1, <2>1, Singles
<1>12. \A m \in 0 .. N : m \in Fits /\ m < N => m + 1 \in Fits
  <2> TAKE m \in 0 .. N
  <2> HAVE m \in Fits /\ m < N
  <2> DEFINE l == m + 1
  <2>1. l \in 0 .. N /\ l # 0 /\ l - 1 = m
    BY <1>1
  <2> HIDE DEF l
  <2>2. a[l] = IF HasFeatures(s[l]) THEN Append(a[m], s[l]) ELSE a[m]
    BY <1>10, <2>1 DEF Next1
  <2>3. Sequential(a[m]) /\ Len(a[m]) <= m /\ Len(a[m]) \in Nat
    BY DEF Sequential
  <2>4. Sequential(a[l]) /\ Len(a[l]) <= l
    BY <2>1, <2>2, <2>3, Appended
  <2>5. QED
    BY <2>1, <2>4 DEF l
<1> HIDE DEF Fits
<1>13. \A m \in 0 .. N : m \in Fits
  BY <1>1, <1>4, <1>11, <1>12, UpTo
<1>14. N \in Fits
  BY <1>1, <1>13
<1>15. QED
  BY <1>8, <1>14 DEF Fits

(* How many examples a pass finds.                                         *)
LEMMA InFile ==
  ASSUME IInv
  PROVE  /\ Sequential(Only) /\ limits[1] \in Int
         /\ Sequential(AllOf(file.texts)) /\ Sequential(FlattenSeq(file.texts))
         /\ Len(Only) <= Len(FlattenSeq(file.texts))
<1>1. FileIs(file) /\ CaseOK
  BY DEF IInv
<1>2. limits[1] \in Int
  <2>1. PICK case \in Cases : limits = case.limits
    BY <1>1 DEF CaseOK
  <2>2. limits \in Int \X Int
    BY <2>1, CasesAssumption
  <2>3. QED
    BY <2>2
<1> DEFINE t == file.texts
<1>3. Sequential(t) /\ t # << >> /\ \A k \in DOMAIN t : Sequential(t[k])
  BY <1>1 DEF FileIs
<1>4. Len(t) # 0 /\ DOMAIN t = 1 .. Len(t)
  <2>1. Len(t) \in Nat /\ DOMAIN t = 1 .. Len(t) /\ \E S : t \in Seq(S)
    BY <1>3, AsSeq
  <2> HIDE DEF t
  <2>2. QED
    BY <1>3, <2>1
<1>5. Only = t[1]
  BY DEF Only
<1>6. AllOf(file.texts) = AllOf(t) /\ FlattenSeq(file.texts) = FlattenSeq(t)
  OBVIOUS
<1> HIDE DEF t
<1>7. Sequential(AllOf(t))
  BY <1>3, AllLines
<1>8. Sequential(FlattenSeq(t)) /\ Len(t[1]) <= Len(FlattenSeq(t))
  BY <1>3, <1>4, FlatLines
<1>9. Sequential(Only)
  BY <1>1, FirstText DEF Only
<1>10. QED
  BY <1>2, <1>5, <1>6, <1>7, <1>8, <1>9

LEMMA SizeIs ==
  ASSUME NEW lines, NEW d
  PROVE  SizeOf(lines, d).n = Len(lines)
BY DEF SizeOf

LEMMA FirstPassCounts ==
  ASSUME IInv, NEW c, c.op \in Rooted
  PROVE  FirstPass(c).n \in Nat
<1> DEFINE a == Until(Only, Ignored)
           b == Until(Only, IsBlank)
<1>1. /\ Sequential(Only) /\ limits[1] \in Int
      /\ Sequential(AllOf(file.texts))
  BY InFile
<1>2. Sequential(a) /\ Sequential(b)
  BY <1>1, UntilIgnored, UntilBlank
<1>3. Sequential(WithFeatures(b))
  BY <1>2, AmongThem
<1>4. /\ DistPass.n = Len(FirstOf(a, limits[1]))
      /\ DirDistPass.n = Len(AllOf(file.texts))
      /\ HdfsDistPass.n = Len(AllOf(file.texts))
      /\ VcStarPass.n = Len(FirstOf(WithFeatures(b), limits[1]))
      /\ MlDensePass.n = Len(b)
      /\ MlSparsePass.n = Len(WithFeatures(b))
      /\ SizeInHDF5(c).n = Len(Only)
  BY SizeIs DEF DistPass, DirDistPass, HdfsDistPass, VcStarPass, MlDensePass, MlSparsePass,
     SizeInHDF5, Only
<1> HIDE DEF a, b
<1>5. /\ DistPass.n \in Nat /\ DirDistPass.n \in Nat /\ HdfsDistPass.n \in Nat
      /\ VcStarPass.n \in Nat /\ MlDensePass.n \in Nat /\ MlSparsePass.n \in Nat
      /\ SizeInHDF5(c).n \in Nat
  BY <1>1, <1>2, <1>3, <1>4, FirstOfLines DEF Sequential
<1>6. /\ c.op = "dist" => FirstPass(c) = DistPass
      /\ c.op = "dir_dist" => FirstPass(c) = DirDistPass
      /\ c.op = "hdfs_dist" => FirstPass(c) = HdfsDistPass
      /\ c.op = "vc_star" => FirstPass(c) = VcStarPass
      /\ c.op = "ml_dense" => FirstPass(c) = MlDensePass
      /\ c.op = "ml_sparse" => FirstPass(c) = MlSparsePass
      /\ c.op \in {"ml_hdf5_sparse", "hdf5_dist"} => FirstPass(c) = SizeInHDF5(c)
  BY DEF FirstPass
<1>7. QED
  BY <1>5, <1>6 DEF Rooted

LEMMA RestIs ==
  ASSUME IInv, NEW c, c.op \in Shared
  PROVE  /\ Sequential(SecondPass(c)) /\ FirstPass(c).n <= Len(SecondPass(c))
         /\ c.op = "ml_hdf5_sparse" => FirstPass(c).n = Len(Only)
<1> DEFINE b == Until(Only, IsBlank)
           t == FlattenSeq(file.texts)
<1>1. Sequential(Only) /\ Sequential(t) /\ Len(Only) <= Len(t)
  BY InFile
<1>2. Sequential(b)
  BY <1>1, UntilBlank
<1>3. Sequential(WithFeatures(b)) /\ Len(WithFeatures(b)) <= Len(b)
  BY <1>2, AmongThem
<1>4. CASE c.op = "ml_sparse"
  <2>1. FirstPass(c) = MlSparsePass /\ SecondPass(c) = b
    BY <1>4 DEF FirstPass, SecondPass
  <2>2. FirstPass(c).n = Len(WithFeatures(b))
    BY <2>1, SizeIs DEF MlSparsePass
  <2>3. QED
    BY <1>2, <1>3, <1>4, <2>1, <2>2
<1>5. CASE c.op = "ml_hdf5_sparse"
  <2>1. FirstPass(c) = SizeInHDF5(c) /\ SecondPass(c) = t
    BY <1>5 DEF FirstPass, SecondPass
  <2>2. FirstPass(c).n = Len(Only)
    BY <2>1 DEF SizeInHDF5, Only
  <2>3. QED
    BY <1>1, <2>1, <2>2
<1>6. QED
  BY <1>4, <1>5 DEF Shared

LEMMA ReadCounts ==
  ASSUME IInv, NEW c, c.op \in Local
  PROVE  "n" \in DOMAIN ReadLocally(c) /\ ReadLocally(c).n \in Nat
<1> DEFINE Counts1(x) == "n" \in DOMAIN x /\ x.n \in Nat
           x == limits[1]
           y == limits[2]
           t == file.texts
           l == FirstOf(Until(t[1], Ignored), x)
           a == AllOf(t)
<1>1. Sequential(Only) /\ x \in Int /\ Sequential(a) /\ Only = t[1]
  BY InFile DEF Only
<1>2. Sequential(Until(t[1], Ignored))
  BY <1>1, UntilIgnored
<1>3. Len(l) \in Nat
  BY <1>1, <1>2, FirstOfLines
<1>4. Len(a) \in Nat /\ Len(t[1]) \in Nat
  BY <1>1 DEF Sequential
<1>5. Counts1(LocalDense(t, x, y)) /\ Counts1(LocalSparse(t, c.direction, x, y))
  <2>1. Counts1(LocalDense(t, x, y))
    BY <1>3 DEF LocalDense, Matrices, SizeOf
  <2>2. Counts1(LocalSparse(t, c.direction, x, y))
    BY <1>3 DEF LocalSparse, Matrices, SparseSize, SizeOf
  <2>3. QED
    BY <2>1, <2>2
<1>6. Counts1(DirDense(t, y)) /\ Counts1(DirSparse(t, c.direction, y))
  <2>1. Counts1(DirDense(t, y))
    BY <1>4 DEF DirDense, Matrices, SizeOf
  <2>2. Counts1(DirSparse(t, c.direction, y))
    BY <1>4 DEF DirSparse, Matrices, SparseSize, SizeOf
  <2>3. QED
    BY <2>1, <2>2
<1>7. Counts1(HdfsDense(t, y)) /\ Counts1(HdfsSparse(t, c.direction, y))
  <2>1. Counts1(HdfsDense(t, y))
    BY <1>4 DEF HdfsDense, Matrices, SizeOf
  <2>2. Counts1(HdfsSparse(t, c.direction, y))
    BY <1>4 DEF HdfsSparse, Matrices, SparseSize, SizeOf
  <2>3. QED
    BY <2>1, <2>2
<1>8. Counts1(HDF5Dense) /\ Counts1(HDF5Sparse(y))
  <2>1. Counts1(HDF5Dense)
    BY <1>4 DEF HDF5Dense, Matrices
  <2>2. Counts1(HDF5Sparse(y))
    BY <1>4 DEF HDF5Sparse, Matrices
  <2>3. QED
    BY <2>1, <2>2
<1> HIDE DEF Counts1
<1>9. Counts1(ReadLocally(c))
  <2>1. /\ c.op = "dense" => ReadLocally(c) = LocalDense(t, x, y)
        /\ c.op = "sparse" => ReadLocally(c) = LocalSparse(t, c.direction, x, y)
        /\ c.op = "dir_dense" => ReadLocally(c) = DirDense(t, y)
        /\ c.op = "dir_sparse" => ReadLocally(c) = DirSparse(t, c.direction, y)
        /\ c.op = "hdfs_dense" => ReadLocally(c) = HdfsDense(t, y)
        /\ c.op = "hdfs_sparse" => ReadLocally(c) = HdfsSparse(t, c.direction, y)
        /\ c.op = "hdf5_dense" => ReadLocally(c) = HDF5Dense
        /\ c.op = "hdf5_sparse" => ReadLocally(c) = HDF5Sparse(y)
    BY DEF ReadLocally
  <2> HIDE DEF x, y, t
  <2>2. QED
    BY <1>5, <1>6, <1>7, <1>8, <2>1 DEF Local
<1>10. QED
  BY <1>9 DEF Counts1

LEMMA WrittenFile ==
  ASSUME NEW c, held[0].n \in Nat
  PROVE  FileIs(WriteLocally(c))
<1> DEFINE lines == LinesOf(held[0].X, held[0].Y, 0, held[0].n)
           ended == Append(lines, End)
<1>1. Sequential(lines)
  BY ListIs
<1>2. WriteLocally(c) \in {Text(lines), HDF5("hdf5_sparse", held[0].d, lines)}
  BY DEF WriteLocally
<1> HIDE DEF lines
<1>3. Sequential(ended)
  BY <1>1, Appended
<1>4. Text(lines) = [format |-> "libsvm", d |-> 0, texts |-> <<ended>>]
  BY DEF Text
<1> HIDE DEF ended
<1>5. FileIs(Text(lines)) /\ FileIs(HDF5("hdf5_sparse", held[0].d, lines))
  BY <1>1, <1>3, <1>4, NewFile
<1>6. QED
  BY <1>2, <1>5

LEMMA EmptyText == FileIs(Text(<< >>))
<1> DEFINE e == << >>
           ended == Append(e, End)
<1>1. Sequential(e)
  BY Singles
<1>2. Text(<< >>) = [format |-> "libsvm", d |-> 0, texts |-> <<ended>>]
  BY DEF Text
<1> HIDE DEF e
<1>3. Sequential(ended)
  BY <1>1, Appended
<1> HIDE DEF ended
<1>4. QED
  BY <1>2, <1>3, NewFile
-----------------------------------------------------------------------------
(* A process returns from a call.                                          *)
LEMMA RestStill ==
  ASSUME NEW np \in Nat \ {0}, NEW ss, NEW sz, NEW mes, NEW rst,
         RestOK(np, ss[mes[0].at], mes[0], sz[mes[0].at], rst),
         NEW p \in 0 .. np - 1, NEW mes2, Moves(np, p, mes, mes2),
         p = 0 => RestOK(np, ss[mes2[0].at], mes2[0], sz[mes2[0].at], rst)
  PROVE  RestOK(np, ss[mes2[0].at], mes2[0], sz[mes2[0].at], rst)
<1>1. CASE p = 0
  BY <1>1
<1>2. CASE p # 0
  <2>1. mes2[0] = mes[0]
    BY <1>2 DEF Moves
  <2>2. QED
    BY <2>1
<1>3. QED
  BY <1>1, <1>2

LEMMA ReturnKeeps ==
  ASSUME IInv, NEW p \in Procs, NEW sz, Now(sz), UNCHANGED given, Return(p),
         me[p].at \in 1 .. Len(session),
         AllDone(P, p, session[me[p].at], sz[me[p].at], me[p]),
         mail' = mail, rest' = rest, DOMAIN held' = Procs, Moves(P, p, held, held'),
         HeldOK(session, sz, me'[p], held'[p]),
         \/ file' = file
         \/ FileIs(file') /\ SizesAre(P, session, sz, me, file') /\ Written,
         Arrived(session, me[p]) = Barred(session)[me[p].at + 1],
         \A r \in 0 .. P - 1 : Barred(session)[me[p].at + 1] <= me[r].met,
         ~Resting(p, me[p]) \/ session[me[p].at].op \in Local \cup LocalWrites
  PROVE  IInv'
<1> DEFINE m == me[p]
           m2 == me'[p]
           a == m.at
<1>1. /\ P \in Nat \ {0} /\ p \in 0 .. P - 1 /\ Len(session) \in Nat
      /\ Settings(P, session, sz) /\ RecordOK(m) /\ DOMAIN me = Procs
      /\ RestOK(P, session[me[0].at], me[0], sz[me[0].at], rest)
      /\ SizesAre(P, session, sz, me, file)
  BY Facts
<1>2. /\ DOMAIN me' = Procs /\ Moves(P, p, me, me') /\ RecordOK(m2)
      /\ m2.at = a + 1 /\ m2.pc = "idle" /\ m2.met = m.met
  BY <1>1, Returned
<1>3. Fine(P, session, sz, me, mail, held, rest, file) /\ MetAre(P, session, me)
  BY DEF Now, IInv
<1>4. \A r \in 0 .. P - 1 : me[r].at \in 1 .. Len(session) + 1
  BY <1>3 DEF Fine, MeOK
<1>5. a \in 1 .. Len(session) /\ a \in Nat /\ a + 1 \in 1 .. Len(session) + 1
  BY <1>1
<1>6. Adds(P, session, sz, p, m, m2, {}, 0)
  BY <1>1, <1>2, AddsReturning
<1>7. Exchanges(P, session, sz, p, m, {}, 0, mail, mail')
  BY NothingExchanged
<1> DEFINE b == Barred(session)[a + 1]
<1>8. Arrived(session, m2) = b /\ Passed(session, m2) = b /\ b \in Nat
  <2>1. b \in Nat
    BY <1>1, <1>5, BarredNext
  <2>2. Barred(session)[m2.at] = b
    BY <1>2
  <2> HIDE DEF b
  <2>3. QED
    BY <1>2, <2>1, <2>2 DEF Arrived, Passed, Bit
<1>9. m.met = b /\ \A r \in 0 .. P - 1 : b <= me[r].met
  BY <1>1, <1>3 DEF MetAre
<1> HIDE DEF b
<1>10. m2.at \in 1 .. Len(session) + 1 /\ m.met \in Nat
  BY <1>2, <1>5, <1>8, <1>9
<1>11. MetAre(P, session, me')
  <2>1. /\ me'[p].at \in 1 .. Len(session) + 1 /\ me'[p].met = Arrived(session, me'[p])
        /\ me'[p].met >= me[p].met /\ Passed(session, me'[p]) <= me'[p].met
        /\ \A r \in 0 .. P - 1 : Passed(session, me'[p]) <= me[r].met
    BY <1>2, <1>8, <1>9, <1>10
  <2>2. QED
    BY <1>1, <1>2, <1>3, <1>4, <2>1, MetStill
<1>12. MeOK(P, session, sz, p, m2)
  BY <1>2, <1>10 DEF MeOK
<1>13. RestOK(P, session[me'[0].at], me'[0], sz[me'[0].at], rest')
  <2>1. p = 0 => RestOK(P, session[me'[0].at], me'[0], sz[me'[0].at], rest)
    BY <1>2 DEF RestOK
  <2>2. QED
    BY <1>1, <1>2, <2>1, RestStill
<1>14. SizesAre(P, session, sz, me', file')
  <2>1. SizesAre(P, session, sz, me, file')
    BY <1>1
  <2>2. CASE ~Resting(p, m)
    <3>1. \A c \in 1 .. Len(session) : Knows(c, p, m2) <=> Knows(c, p, m)
      <4> TAKE c \in 1 .. Len(session)
      <4>1. a + 1 > c <=> a > c \/ a = c
        BY <1>5
      <4>2. Knows(c, p, m2) <=> a + 1 > c
        BY <1>2 DEF Knows, Resting
      <4>3. QED
        BY <2>2, <4>1, <4>2 DEF Knows
    <3>2. QED
      BY <1>2, <2>1, <3>1, SizesKept
  <2>3. CASE session[a].op \in Local \cup LocalWrites
    <3>1. \A c \in 1 .. Len(session) : c # a => (Knows(c, p, m2) <=> Knows(c, p, m))
      <4> TAKE c \in 1 .. Len(session)
      <4>1. c # a => (a + 1 > c <=> a > c)
        BY <1>5
      <4>2. Knows(c, p, m2) <=> a + 1 > c
        BY <1>2 DEF Knows, Resting
      <4>3. QED
        BY <4>1, <4>2 DEF Knows
    <3>2. session[a].op # "ml_hdf5_dense"
      BY <2>3 DEF Local, LocalWrites
    <3> HIDE DEF a
    <3>3. QED
      BY <1>2, <2>1, <3>1, <3>2, SizeKnown
  <2>4. QED
    BY <2>2, <2>3
<1>15. Fine(P, session, sz, me', mail', held', rest', file')
  <2> HIDE DEF m, m2
  <2>1. QED
    BY <1>1, <1>2, <1>3, <1>6, <1>7, <1>12, <1>13, <1>14, Stepped DEF m, m2
<1>16. FileIs(file') /\ (file' = file \/ Written)
  BY DEF IInv
<1>17. QED
  BY <1>2, <1>11, <1>15, <1>16, Concluded

(* One barrier does not change what is met: calls without one.             *)
LEMMA NoBarrier ==
  ASSUME IInv, NEW p \in Procs, NEW sz, Now(sz), me[p].at \in 1 .. Len(session),
         Barriers(session[me[p].at]) = 0, me[p].pc \notin {"ready", "shares"}
  PROVE  /\ Arrived(session, me[p]) = Barred(session)[me[p].at + 1]
         /\ \A r \in 0 .. P - 1 : Barred(session)[me[p].at + 1] <= me[r].met
<1> DEFINE m == me[p]
           a == m.at
           b == Barred(session)
<1>1. p \in 0 .. P - 1 /\ Len(session) \in Nat
  BY Facts
<1>2. MetAre(P, session, me)
  BY DEF IInv
<1>3. b[a] \in Nat /\ b[a + 1] = b[a] + 0
  BY <1>1, BarredNext
<1>4. Arrived(session, m) = b[a] + 0
  BY DEF Arrived
<1>5. Passed(session, m) = b[a] + Bit(m.pc = "leave" /\ session[a].op \in Shared)
  BY DEF Passed
<1>6. session[a].op \notin Shared
  BY DEF Barriers
<1>7. Passed(session, m) = b[a] + 0
  BY <1>5, <1>6 DEF Bit
<1>8. \A r \in 0 .. P - 1 : Passed(session, m) <= me[r].met
  BY <1>1, <1>2 DEF MetAre
<1>9. QED
  BY <1>3, <1>4, <1>7, <1>8

LEMMA ReadAloneKeeps ==
  ASSUME IInv, NEW p \in Procs, ReadAlone(p)
  PROVE  IInv'
<1>1. PICK sz : Now(sz)
  BY Setup
<1> DEFINE m == me[p]
           call == session[m.at]
<1>2. /\ m.pc = "idle" /\ ~(m.at > Len(session)) /\ call.op \in Local
      /\ held' = [held EXCEPT ![p] = ReadLocally(call)]
      /\ Return(p)
      /\ UNCHANGED given /\ file' = file /\ rest' = rest /\ mail' = mail
  BY DEF ReadAlone, Idle, At, Finished, Call
<1>3. /\ P \in Nat \ {0} /\ p \in 0 .. P - 1 /\ Len(session) \in Nat
      /\ MeOK(P, session, sz, p, m) /\ Settings(P, session, sz)
      /\ RecordOK(m) /\ DOMAIN me = Procs /\ DOMAIN held = Procs
  BY <1>1, Facts
<1>4. m.at \in 1 .. Len(session)
  BY <1>2, <1>3 DEF MeOK
<1>5. /\ DOMAIN held' = Procs /\ Moves(P, p, held, held')
      /\ held'[p] = ReadLocally(call)
  BY <1>2, <1>3, PutHeld
<1>6. m.at + 1 > 1 /\ (m.at + 1) - 1 = m.at /\ me'[p].at = m.at + 1 /\ me'[p].pc = "idle"
  BY <1>2, <1>3, <1>4, Returned
<1>7. HeldOK(session, sz, me'[p], held'[p])
  <2>1. "n" \in DOMAIN held'[p] /\ held'[p].n \in Nat
    BY <1>2, <1>5, ReadCounts
  <2>2. session[me'[p].at - 1].op \notin Scatters
    BY <1>2, <1>6 DEF Local, Scatters, InBlocks
  <2>3. QED
    BY <1>6, <2>1, <2>2 DEF HeldOK
<1>8. AllDone(P, p, call, sz[m.at], m)
  BY <1>2, AloneDone
<1>9. Barriers(call) = 0
  BY <1>2 DEF Local, Shared, Barriers, Bit
<1>10. /\ Arrived(session, m) = Barred(session)[m.at + 1]
       /\ \A r \in 0 .. P - 1 : Barred(session)[m.at + 1] <= me[r].met
  BY <1>1, <1>2, <1>4, <1>9, NoBarrier
<1>11. QED
  BY <1>1, <1>2, <1>4, <1>5, <1>7, <1>8, <1>10, ReturnKeeps

LEMMA WriteAloneKeeps ==
  ASSUME IInv, NEW p \in Procs, WriteAlone(p)
  PROVE  IInv'
<1>1. PICK sz : Now(sz)
  BY Setup
<1> DEFINE m == me[p]
           call == session[m.at]
<1>2. /\ m.pc = "idle" /\ ~(m.at > Len(session)) /\ call.op \in LocalWrites
      /\ file' = WriteLocally(call)
      /\ Return(p)
      /\ UNCHANGED given /\ held' = held /\ rest' = rest /\ mail' = mail
  BY DEF WriteAlone, Idle, At, Finished, Call
<1>3. /\ P \in Nat \ {0} /\ p \in 0 .. P - 1 /\ Len(session) \in Nat
      /\ MeOK(P, session, sz, p, m) /\ HeldOK(session, sz, m, held[p])
      /\ RecordOK(m) /\ DOMAIN me = Procs /\ DOMAIN held = Procs
      /\ SizesAre(P, session, sz, me, file) /\ 0 \in Procs
  BY <1>1, Facts
<1>4. m.at \in 1 .. Len(session)
  BY <1>2, <1>3 DEF MeOK
<1>5. DOMAIN held' = Procs /\ Moves(P, p, held, held') /\ held'[p] = held[p]
  BY <1>2, <1>3, HeldSame
<1>6. m.at + 1 > 1 /\ (m.at + 1) - 1 = m.at /\ me'[p].at = m.at + 1 /\ me'[p].pc = "idle"
  BY <1>2, <1>3, <1>4, Returned
<1>7. HeldOK(session, sz, me'[p], held'[p])
  <2>1. session[me'[p].at - 1].op \notin Scatters
    BY <1>2, <1>6 DEF LocalWrites, Scatters, InBlocks
  <2>2. QED
    BY <1>3, <1>5, <1>6, <2>1 DEF HeldOK
<1>8. AllDone(P, p, call, sz[m.at], m)
  BY <1>2, AloneDone
<1>9. Barriers(call) = 0
  BY <1>2 DEF LocalWrites, Shared, Barriers, Bit
<1>10. /\ Arrived(session, m) = Barred(session)[m.at + 1]
       /\ \A r \in 0 .. P - 1 : Barred(session)[m.at + 1] <= me[r].met
  BY <1>1, <1>2, <1>4, <1>9, NoBarrier
<1>11. FileIs(file') /\ SizesAre(P, session, sz, me, file') /\ Written
  <2>1. HeldOK(session, sz, me[0], held[0])
    BY <1>1, <1>3, Facts
  <2>2. FileIs(file')
    BY <1>2, <2>1, WrittenFile DEF HeldOK
  <2>3. SizesAre(P, session, sz, me, file')
    BY <1>2, <1>3, <1>4, SizesUnread DEF IInv
  <2>4. QED
    BY <1>2, <1>4, <2>2, <2>3 DEF Written, Writes
<1>12. QED
  BY <1>1, <1>2, <1>4, <1>5, <1>7, <1>8, <1>10, <1>11, ReturnKeeps

LEMMA AfterBlocksKeeps ==
  ASSUME IInv, NEW p \in Procs, AfterBlocks(p)
  PROVE  IInv'
<1>1. PICK sz : Now(sz)
  BY Setup
<1> DEFINE m == me[p]
           n == sz[m.at]
           call == session[m.at]
<1>2. /\ m.pc = "blocks" /\ ~HasBlock(p) /\ Return(p)
      /\ UNCHANGED given /\ file' = file /\ rest' = rest /\ mail' = mail /\ held' = held
  BY DEF AfterBlocks, At
<1>3. /\ P \in Nat \ {0} /\ p \in 0 .. P - 1 /\ Len(session) \in Nat
      /\ HeldOK(session, sz, m, held[p]) /\ RecordOK(m)
      /\ DOMAIN me = Procs /\ DOMAIN held = Procs
      /\ m.at \in 1 .. Len(session) /\ n \in Nat /\ InCall(P, call, p, m, n)
  BY <1>1, <1>2, Facts
<1>4. InBlock1(call, p, m, n) /\ m.size.n = n
  BY <1>2, <1>3 DEF InCall
<1>5. m.i > NB(call, n)
  <2>1. ~(m.i <= NB(call, n))
    BY <1>2, <1>4 DEF HasBlock, BlocksAt, Call, NB
  <2>2. NB(call, n) \in Nat /\ m.i \in Int
    BY <1>3, <1>4, NBNat DEF InBlock1
  <2>3. QED
    BY <2>1, <2>2
<1>6. AllDone(P, p, call, n, m)
  BY <1>2, <1>3, <1>4, <1>5, BlocksDone
<1>7. DOMAIN held' = Procs /\ Moves(P, p, held, held') /\ held'[p] = held[p]
  BY <1>2, <1>3, HeldSame
<1>8. m.at + 1 > 1 /\ (m.at + 1) - 1 = m.at /\ me'[p].at = m.at + 1 /\ me'[p].pc = "idle"
  BY <1>2, <1>3, Returned
<1>9. HeldOK(session, sz, me'[p], held'[p])
  BY <1>2, <1>3, <1>7, <1>8 DEF HeldOK
<1>10. Barriers(call) = 0
  BY <1>4 DEF InBlock1, Scatters, InBlocks, Shared, Barriers, Bit
<1>11. /\ Arrived(session, m) = Barred(session)[m.at + 1]
       /\ \A r \in 0 .. P - 1 : Barred(session)[m.at + 1] <= me[r].met
  BY <1>1, <1>2, <1>3, <1>10, NoBarrier
<1>12. ~Resting(p, m)
  BY <1>2 DEF Resting
<1>13. QED
  BY <1>1, <1>2, <1>3, <1>6, <1>7, <1>9, <1>11, <1>12, ReturnKeeps

LEMMA AfterGatheringKeeps ==
  ASSUME IInv, NEW p \in Procs, AfterGathering(p)
  PROVE  IInv'
<1>1. PICK sz : Now(sz)
  BY Setup
<1> DEFINE m == me[p]
           n == sz[m.at]
           call == session[m.at]
<1>2. /\ m.pc = "gather" /\ ~HasBlock(p) /\ Return(p)
      /\ UNCHANGED given /\ file' = file /\ rest' = rest /\ mail' = mail /\ held' = held
  BY DEF AfterGathering, At
<1>3. /\ P \in Nat \ {0} /\ p \in 0 .. P - 1 /\ Len(session) \in Nat
      /\ HeldOK(session, sz, m, held[p]) /\ RecordOK(m)
      /\ DOMAIN me = Procs /\ DOMAIN held = Procs
      /\ m.at \in 1 .. Len(session) /\ n \in Nat /\ InCall(P, call, p, m, n)
  BY <1>1, <1>2, Facts
<1>4. InGather(call, p, m, n) /\ m.size.n = n
  BY <1>2, <1>3 DEF InCall
<1>5. m.i > NB(call, n)
  <2>1. ~(m.i <= NB(call, n))
    BY <1>2, <1>4 DEF HasBlock, BlocksAt, Call, NB
  <2>2. NB(call, n) \in Nat /\ m.i \in Int
    BY <1>3, <1>4, NBNat DEF InGather
  <2>3. QED
    BY <2>1, <2>2
<1>6. AllDone(P, p, call, n, m)
  BY <1>2, <1>3, <1>4, <1>5, GatherDone
<1>7. DOMAIN held' = Procs /\ Moves(P, p, held, held') /\ held'[p] = held[p]
  BY <1>2, <1>3, HeldSame
<1>8. m.at + 1 > 1 /\ (m.at + 1) - 1 = m.at /\ me'[p].at = m.at + 1 /\ me'[p].pc = "idle"
  BY <1>2, <1>3, Returned
<1>9. HeldOK(session, sz, me'[p], held'[p])
  BY <1>2, <1>3, <1>7, <1>8 DEF HeldOK
<1>10. Barriers(call) = 0
  BY <1>4 DEF InGather, Shared, Barriers, Bit
<1>11. /\ Arrived(session, m) = Barred(session)[m.at + 1]
       /\ \A r \in 0 .. P - 1 : Barred(session)[m.at + 1] <= me[r].met
  BY <1>1, <1>2, <1>3, <1>10, NoBarrier
<1>12. ~Resting(p, m)
  BY <1>2 DEF Resting
<1>13. QED
  BY <1>1, <1>2, <1>3, <1>6, <1>7, <1>9, <1>11, <1>12, ReturnKeeps

LEMMA LeaveKeeps ==
  ASSUME IInv, NEW p \in Procs, Leave(p)
  PROVE  IInv'
<1>1. PICK sz : Now(sz)
  BY Setup
<1> DEFINE m == me[p]
           n == sz[m.at]
           call == session[m.at]
           b == Barred(session)
<1>2. /\ m.pc = "leave" /\ AllMet(p) /\ Return(p)
      /\ UNCHANGED given /\ file' = file /\ rest' = rest /\ mail' = mail /\ held' = held
  BY DEF Leave, At
<1>3. /\ P \in Nat \ {0} /\ p \in 0 .. P - 1 /\ Len(session) \in Nat /\ Procs = 0 .. P - 1
      /\ HeldOK(session, sz, m, held[p]) /\ RecordOK(m)
      /\ DOMAIN me = Procs /\ DOMAIN held = Procs
      /\ m.at \in 1 .. Len(session) /\ n \in Nat /\ InCall(P, call, p, m, n)
  BY <1>1, <1>2, Facts DEF Procs
<1>4. call.op \in Shared \cup {"write_hdf5"}
  BY <1>2, <1>3 DEF InCall
<1>5. AllDone(P, p, call, n, m)
  BY <1>2, LeaveDone
<1>6. DOMAIN held' = Procs /\ Moves(P, p, held, held') /\ held'[p] = held[p]
  BY <1>2, <1>3, HeldSame
<1>7. m.at + 1 > 1 /\ (m.at + 1) - 1 = m.at /\ me'[p].at = m.at + 1 /\ me'[p].pc = "idle"
  BY <1>2, <1>3, Returned
<1>8. HeldOK(session, sz, me'[p], held'[p])
  <2>1. session[me'[p].at - 1].op \notin Scatters
    BY <1>4, <1>7 DEF Shared, Scatters, InBlocks
  <2>2. QED
    BY <1>3, <1>6, <1>7, <2>1 DEF HeldOK
<1>9. Arrived(session, m) = b[m.at] + Barriers(call)
  BY <1>2 DEF Arrived
<1>10. b[m.at + 1] = b[m.at] + Barriers(call)
  BY <1>3, BarredNext
<1>11. m.met = Arrived(session, m) /\ \A r \in 0 .. P - 1 : m.met <= me[r].met
  <2>1. m.met = Arrived(session, m) /\ \A r \in 0 .. P - 1 : me[r].met \in Nat
    <3>1. MetAre(P, session, me)
      BY DEF IInv
    <3>2. \A r \in 0 .. P - 1 : me[r].at \in 1 .. Len(session) + 1
      BY <1>1 DEF Now, Fine, MeOK
    <3>3. QED
      BY <1>3, <3>1, <3>2, MetNat DEF MetAre
  <2>2. \A r \in 0 .. P - 1 : me[r].met >= m.met
    BY <1>2, <1>3 DEF AllMet
  <2>3. QED
    BY <1>3, <2>1, <2>2
<1>12. /\ Arrived(session, m) = b[m.at + 1]
       /\ \A r \in 0 .. P - 1 : b[m.at + 1] <= me[r].met
  BY <1>9, <1>10, <1>11
<1>13. ~Resting(p, m)
  BY <1>2 DEF Resting
<1> HIDE DEF m, n, call
<1>14. QED
  BY <1>1, <1>2, <1>3, <1>5, <1>6, <1>8, <1>12, <1>13, ReturnKeeps DEF m, n, call

(* A process comes to the barrier at the end of a call.                    *)
LEMMA LeavingKeeps ==
  ASSUME IInv, NEW p \in Procs, NEW sz, Now(sz), Meets(p, "leave"),
         me[p].pc \in {"shares", "collect"},
         AllDone(P, p, session[me[p].at], sz[me[p].at], me[p]),
         UNCHANGED <<given, file, rest, box, mail, held>>
  PROVE  IInv'
<1> DEFINE m == me[p]
           m2 == me'[p]
           n == sz[m.at]
           call == session[m.at]
           b == Barred(session)
<1>1. UNCHANGED given /\ file' = file /\ rest' = rest /\ mail' = mail /\ held' = held
  OBVIOUS
<1>2. /\ P \in Nat \ {0} /\ p \in 0 .. P - 1 /\ Len(session) \in Nat
      /\ Settings(P, session, sz) /\ MeOK(P, session, sz, p, m)
      /\ HeldOK(session, sz, m, held[p]) /\ RecordOK(m)
      /\ RestOK(P, session[me[0].at], me[0], sz[me[0].at], rest)
      /\ DOMAIN me = Procs /\ DOMAIN held = Procs
      /\ SizesAre(P, session, sz, me, file)
      /\ m.at \in 1 .. Len(session) /\ n \in Nat /\ InCall(P, call, p, m, n)
  BY Facts
<1>3. /\ DOMAIN me' = Procs /\ Moves(P, p, me, me') /\ RecordOK(m2)
      /\ m2.at = m.at /\ m2.pc = "leave" /\ m2.met = m.met + 1
  BY <1>2, Met
<1>4. call.op \in Shared \cup {"write_hdf5"}
  BY <1>2 DEF InCall, InShares, InCollect
<1>5. m.pc = "shares" => call.op \in Shared
  BY <1>2 DEF InCall, InShares
<1>6. m.pc = "collect" => call.op = "write_hdf5" /\ call.op \notin Shared
  BY <1>2 DEF InCall, InCollect, Shared
<1>7. Fine(P, session, sz, me, mail, held, rest, file) /\ MetAre(P, session, me)
  BY DEF Now, IInv
<1>8. \A r \in 0 .. P - 1 : me[r].at \in 1 .. Len(session) + 1
  BY <1>7 DEF Fine, MeOK
<1>9. MeOK(P, session, sz, p, m2)
  <2> HIDE DEF m, m2, n, call
  <2>1. QED
    BY <1>2, <1>3, <1>4, Within DEF m, m2, n, call
<1>10. Adds(P, session, sz, p, m, m2, {}, 0)
  <2>1. PartAdds(P, p, call, n, m, m2, {}, 0)
    BY <1>2, <1>3, LeavingCounts
  <2>2. m.at <= Len(session)
    BY <1>2
  <2> HIDE DEF m, m2, n, call
  <2>3. QED
    BY <1>2, <1>3, <2>1, <2>2, AddsWithin DEF m, m2, n, call
<1>11. Exchanges(P, session, sz, p, m, {}, 0, mail, mail')
  BY <1>1, NothingExchanged
<1>12. DOMAIN held' = Procs /\ Moves(P, p, held, held') /\ held'[p] = held[p]
  BY <1>1, <1>2, HeldSame
<1>13. HeldOK(session, sz, m2, held'[p])
  BY <1>2, <1>3, <1>12 DEF HeldOK
<1>14. MetAre(P, session, me')
  <2>1. m.met = Arrived(session, m) /\ b[m.at] \in Nat /\ b[m2.at] = b[m.at]
    BY <1>2, <1>3, <1>7, BarredNext DEF MetAre
  <2>2. \A r \in 0 .. P - 1 : Passed(session, m) <= me[r].met
    BY <1>2, <1>7 DEF MetAre
  <2>3. Arrived(session, m2) = b[m.at] + Barriers(call)
    BY <1>3, <2>1 DEF Arrived
  <2>4. Passed(session, m2) = b[m.at] + Bit(call.op \in Shared)
    BY <1>3, <2>1 DEF Passed
  <2>5. Passed(session, m) = b[m.at] + Bit(call.op \in Shared)
    BY <1>5, <1>6 DEF Passed, Bit
  <2>6. Arrived(session, m) = b[m.at] + Bit(call.op \in Shared)
    BY <1>5, <1>6 DEF Arrived, Bit
  <2>7. Barriers(call) = 1 + Bit(call.op \in Shared)
    BY <1>4, <1>6, <1>5 DEF Barriers, Bit
  <2> DEFINE x == Bit(call.op \in Shared)
  <2>8. x \in Nat
    BY DEF Bit
  <2> HIDE DEF x, b, m, m2
  <2>9. m2.met = Arrived(session, m2) /\ m2.met >= m.met
    BY <1>3, <2>1, <2>3, <2>6, <2>7, <2>8 DEF x
  <2>10. Passed(session, m2) <= m2.met
    BY <1>3, <2>1, <2>4, <2>6, <2>8 DEF x
  <2>11. Passed(session, m2) = Passed(session, m)
    BY <2>4, <2>5
  <2>12. m2.at \in 1 .. Len(session) + 1
    BY <1>2, <1>3
  <2>13. QED
    BY <1>2, <1>3, <1>7, <1>8, <2>2, <2>9, <2>10, <2>11, <2>12, MetStill DEF m, m2
<1>15. RestOK(P, session[me'[0].at], me'[0], sz[me'[0].at], rest')
  <2>1. p = 0 => RestOK(P, session[me'[0].at], me'[0], sz[me'[0].at], rest)
    BY <1>3 DEF RestOK
  <2>2. QED
    BY <1>1, <1>2, <1>3, <2>1, RestStill
<1>16. SizesAre(P, session, sz, me', file')
  <2>1. \A c \in 1 .. Len(session) : Knows(c, p, m2) <=> Knows(c, p, m)
    BY <1>3 DEF Knows, Resting
  <2>2. QED
    BY <1>1, <1>2, <1>3, <2>1, SizesKept
<1>17. Fine(P, session, sz, me', mail', held', rest', file')
  <2> HIDE DEF m, m2
  <2>1. QED
    BY <1>2, <1>3, <1>7, <1>9, <1>10, <1>11, <1>12, <1>13, <1>15, <1>16, Stepped
    DEF m, m2
<1>18. FileIs(file')
  BY <1>1 DEF IInv
<1>19. QED
  BY <1>1, <1>3, <1>12, <1>14, <1>17, <1>18, Concluded

LEMMA AfterSharesKeeps ==
  ASSUME IInv, NEW p \in Procs, AfterShares(p)
  PROVE  IInv'
<1>1. PICK sz : Now(sz)
  BY Setup
<1> DEFINE m == me[p]
           n == sz[m.at]
           call == session[m.at]
<1>2. /\ m.pc = "shares" /\ Meets(p, "leave")
      /\ IF p = 0 THEN ~Serves(p) ELSE Allocated(p, p) = 0 \/ m.k = 7
      /\ UNCHANGED <<given, file, rest, box, mail, held>>
  BY DEF AfterShares, At
<1>3. /\ P \in Nat \ {0} /\ p \in 0 .. P - 1
      /\ RestOK(P, session[me[0].at], me[0], sz[me[0].at], rest)
      /\ n \in Nat /\ InCall(P, call, p, m, n)
  BY <1>1, <1>2, Facts
<1>4. InShares(P, call, p, m, n) /\ m.size.n = n /\ call.op \in Shared
  BY <1>2, <1>3 DEF InCall, InShares
<1>5. m.k \in Nat
  BY <1>4 DEF InShares
<1>6. ASSUME p = 0
      PROVE  /\ m.k = 0 /\ m.i \in Nat
             /\ \A q \in 1 .. P - 1 : Alloc(P, n, q) > 0 <=> q < m.i
  <2> DEFINE i == m.i
             a == Alloc(P, n, i)
  <2>1. /\ i \in 0 .. P /\ m.k \in 0 .. 6
        /\ m.k > 0 => i \in 1 .. P - 1 /\ a > 0
        /\ \A q \in 1 .. i - 1 : Alloc(P, n, q) > 0
    BY <1>4, <1>6 DEF InShares
  <2>2. i < P => ~(Allocated(0, i) \in 1 .. Len(rest))
    <3>1. At(0, "shares")
      BY <1>6 DEF AfterShares
    <3>2. ~Serves(0)
      BY <1>2, <1>6
    <3>3. QED
      BY <1>6, <3>1, <3>2 DEF Serves, Call
  <2>3. CASE i = P
    <3>1. m.k = 0
      BY <1>3, <2>1, <2>3
    <3>2. \A q \in 1 .. P - 1 : q \in 1 .. i - 1 /\ q < i
      BY <1>3, <2>3
    <3>3. QED
      BY <2>1, <3>1, <3>2
  <2>4. CASE i # P
    <3>1. i \in 0 .. P - 1 /\ i < P
      BY <1>3, <2>1, <2>4
    <3>2. Allocated(0, i) = a
      BY <1>4, <1>6, AllocatedIs
    <3> DEFINE b == AllocBefore(P, n, i)
    <3>3. /\ a \in Nat /\ b \in Nat /\ b + a <= n
          /\ a = 0 => \A r \in i .. P - 1 : Alloc(P, n, r) = 0
      <4> HIDE DEF i
      <4>1. QED
        BY <1>3, <3>1, Shares
    <3>4. Sequential(rest) /\ Len(rest) + b >= n
      BY <1>2, <1>3, <1>4, <1>6 DEF RestOK
    <3>5. Len(rest) \in Nat
      BY <3>4 DEF Sequential
    <3> HIDE DEF a, b
    <3>6. a <= Len(rest)
      BY <1>3, <3>3, <3>4, <3>5
    <3>7. a = 0
      BY <2>2, <3>1, <3>2, <3>3, <3>5, <3>6
    <3>8. m.k = 0
      BY <2>1, <3>7
    <3> HIDE DEF i
    <3>9. ASSUME NEW q \in 1 .. P - 1
          PROVE  Alloc(P, n, q) > 0 <=> q < i
      <4>1. CASE q < i
        <5>1. q \in 1 .. i - 1
          BY <3>1, <4>1
        <5>2. QED
          BY <2>1, <4>1, <5>1
      <4>2. CASE ~(q < i)
        <5>1. q \in i .. P - 1
          BY <3>1, <4>2
        <5>2. Alloc(P, n, q) = 0
          BY <3>3, <3>7, <5>1
        <5>3. QED
          BY <4>2, <5>2
      <4>3. QED
        BY <4>1, <4>2
    <3>10. i \in Nat
      BY <3>1
    <3>11. QED
      BY <3>8, <3>9, <3>10 DEF i
  <2>5. QED
    BY <2>3, <2>4
<1>7. ASSUME p # 0
      PROVE  (Alloc(P, n, p) > 0 /\ m.k >= 7) \/ (~ (Alloc(P, n, p) > 0) /\ m.k = 0)
  <2>1. m.k \in 0 .. 7 /\ (m.k > 0 => Alloc(P, n, p) > 0)
    BY <1>4, <1>7 DEF InShares
  <2>2. Allocated(p, p) = Alloc(P, n, p)
    BY <1>4, AllocatedIs
  <2>3. Alloc(P, n, p) \in Nat
    BY <1>3, Shares
  <2>4. Alloc(P, n, p) = 0 \/ m.k = 7
    BY <1>2, <1>7, <2>2
  <2>5. QED
    BY <2>1, <2>3, <2>4
<1>8. AllDone(P, p, call, n, m)
  <2> HIDE DEF m, n, call
  <2>1. QED
    BY <1>2, <1>3, <1>4, <1>5, <1>6, <1>7, SharesDone
<1>9. QED
  BY <1>1, <1>2, <1>8, LeavingKeeps

LEMMA AfterCollectingKeeps ==
  ASSUME IInv, NEW p \in Procs, AfterCollecting(p)
  PROVE  IInv'
<1>1. PICK sz : Now(sz)
  BY Setup
<1> DEFINE m == me[p]
           n == sz[m.at]
           call == session[m.at]
<1>2. /\ m.pc = "collect" /\ Meets(p, "leave")
      /\ IF p = 0 THEN m.i = P ELSE m.k = 3
      /\ UNCHANGED <<given, file, rest, box, mail, held>>
  BY DEF AfterCollecting, At
<1>3. P \in Nat \ {0} /\ p \in 0 .. P - 1 /\ n \in Nat /\ InCall(P, call, p, m, n)
  BY <1>1, <1>2, Facts
<1>4. call.op = "write_hdf5" /\ (p = 0 => m.k \in Nat)
  BY <1>2, <1>3 DEF InCall, InCollect
<1>5. AllDone(P, p, call, n, m)
  BY <1>2, <1>3, <1>4, CollectDone
<1>6. QED
  BY <1>1, <1>2, <1>5, LeavingKeeps

(* Everybody is ready for the shares.                                      *)
LEMMA AllReadyKeeps ==
  ASSUME IInv, NEW p \in Procs, AllReady(p)
  PROVE  IInv'
<1>1. PICK sz : Now(sz)
  BY Setup
<1> DEFINE m == me[p]
           m2 == me'[p]
           n == sz[m.at]
           call == session[m.at]
           b == Barred(session)
<1>2. /\ m.pc = "ready" /\ AllMet(p) /\ Goes(p, "shares", 0, 0, m.size)
      /\ UNCHANGED given /\ file' = file /\ rest' = rest /\ mail' = mail /\ held' = held
  BY DEF AllReady, At
<1>3. /\ P \in Nat \ {0} /\ p \in 0 .. P - 1 /\ Len(session) \in Nat /\ Procs = 0 .. P - 1
      /\ Settings(P, session, sz) /\ MeOK(P, session, sz, p, m)
      /\ HeldOK(session, sz, m, held[p]) /\ RecordOK(m)
      /\ RestOK(P, session[me[0].at], me[0], sz[me[0].at], rest)
      /\ DOMAIN me = Procs /\ DOMAIN held = Procs
      /\ SizesAre(P, session, sz, me, file)
      /\ m.at \in 1 .. Len(session) /\ n \in Nat /\ InCall(P, call, p, m, n)
  BY <1>1, <1>2, Facts DEF Procs
<1>4. call.op \in Shared /\ m.size.n = n
  BY <1>2, <1>3 DEF InCall
<1>5. /\ DOMAIN me' = Procs /\ Moves(P, p, me, me') /\ RecordOK(m2)
      /\ m2.at = m.at /\ m2.pc = "shares" /\ m2.i = 0 /\ m2.k = 0
      /\ m2.met = m.met /\ m2.size = m.size /\ m2.got = << >>
  BY <1>2, <1>3, Gone
<1>6. InShares(P, call, p, m2, n)
  <2>1. Sequential(m2.got) /\ Len(m2.got) = 0
    BY <1>5, Singles
  <2>2. QED
    BY <1>3, <1>4, <1>5, <2>1 DEF InShares, GotOK
<1>7. Fine(P, session, sz, me, mail, held, rest, file) /\ MetAre(P, session, me)
  BY <1>1 DEF Now, IInv
<1>8. \A r \in 0 .. P - 1 : me[r].at \in 1 .. Len(session) + 1
  BY <1>7 DEF Fine, MeOK
<1>9. MeOK(P, session, sz, p, m2)
  <2> HIDE DEF m, m2, n, call
  <2>1. QED
    BY <1>2, <1>3, <1>4, <1>5, <1>6, Within DEF m, m2, n, call
<1>10. Adds(P, session, sz, p, m, m2, {}, 0)
  <2>1. PartAdds(P, p, call, n, m, m2, {}, 0)
    BY <1>2, <1>3, <1>5, ReadyCounts
  <2>2. m.at <= Len(session)
    BY <1>3
  <2> HIDE DEF m, m2, n, call
  <2>3. QED
    BY <1>3, <1>5, <2>1, <2>2, AddsWithin DEF m, m2, n, call
<1>11. Exchanges(P, session, sz, p, m, {}, 0, mail, mail')
  BY <1>2, NothingExchanged
<1>12. DOMAIN held' = Procs /\ Moves(P, p, held, held') /\ held'[p] = held[p]
  BY <1>2, <1>3, HeldSame
<1>13. HeldOK(session, sz, m2, held'[p])
  BY <1>3, <1>5, <1>12 DEF HeldOK
<1>14. MetAre(P, session, me')
  <2>1. m.met = Arrived(session, m) /\ b[m.at] \in Nat /\ b[m2.at] = b[m.at]
    BY <1>3, <1>5, <1>7, BarredNext DEF MetAre
  <2>2. \A r \in 0 .. P - 1 : me[r].met >= m.met /\ me[r].met \in Nat
    <3>1. \A r \in 0 .. P - 1 : me[r].met >= m.met
      BY <1>2, <1>3 DEF AllMet
    <3>2. QED
      BY <1>3, <1>7, <1>8, <3>1, MetNat DEF MetAre
  <2>3. Arrived(session, m) = b[m.at] + 1 /\ Arrived(session, m2) = b[m.at] + 1
    BY <1>2, <1>5, <2>1 DEF Arrived
  <2>4. Passed(session, m2) = b[m.at] + 1
    BY <1>5, <2>1 DEF Passed, Bit
  <2> HIDE DEF b, m, m2
  <2>5. /\ m2.met = Arrived(session, m2) /\ m2.met >= m.met
        /\ Passed(session, m2) <= m2.met
        /\ \A r \in 0 .. P - 1 : Passed(session, m2) <= me[r].met
    BY <1>5, <2>1, <2>2, <2>3, <2>4
  <2>6. m2.at \in 1 .. Len(session) + 1
    BY <1>3, <1>5
  <2>7. QED
    BY <1>3, <1>5, <1>7, <1>8, <2>5, <2>6, MetStill DEF m, m2
<1>15. RestOK(P, session[me'[0].at], me'[0], sz[me'[0].at], rest')
  <2>1. p = 0 => RestOK(P, session[me'[0].at], me'[0], sz[me'[0].at], rest)
    <3> SUFFICES ASSUME p = 0 PROVE RestOK(P, call, m2, n, rest)
      BY <1>5
    <3>1. /\ Sequential(rest) /\ Len(rest) + 0 >= n
          /\ call.op = "ml_hdf5_sparse" /\ P > 1 => n >= P
      BY <1>2, <1>3, <1>4 DEF RestOK
    <3>2. AllocBefore(P, n, m2.i) = 0
      <4>1. 0 \in 0 .. P - 1
        BY <1>3
      <4> DEFINE o == 0
      <4>2. o \in 0 .. P - 1 /\ m2.i = o
        BY <1>5, <4>1
      <4>3. AllocBefore(P, n, 0) = 0
        BY <1>3, <4>2, Shares
      <4>4. QED
        BY <4>2, <4>3
    <3>3. QED
      BY <1>5, <3>1, <3>2 DEF RestOK
  <2>2. QED
    BY <1>2, <1>3, <1>5, <2>1, RestStill
<1>16. SizesAre(P, session, sz, me', file')
  <2>1. \A c \in 1 .. Len(session) : Knows(c, p, m2) <=> Knows(c, p, m)
    BY <1>2, <1>5 DEF Knows, Resting
  <2>2. QED
    BY <1>2, <1>3, <1>5, <2>1, SizesKept
<1>17. Fine(P, session, sz, me', mail', held', rest', file')
  <2> HIDE DEF m, m2
  <2>1. QED
    BY <1>3, <1>5, <1>7, <1>9, <1>10, <1>11, <1>12, <1>13, <1>15, <1>16, Stepped
    DEF m, m2
<1>18. FileIs(file')
  BY <1>2 DEF IInv
<1>19. QED
  BY <1>2, <1>5, <1>12, <1>14, <1>17, <1>18, Concluded
-----------------------------------------------------------------------------
(* A step that begins a call, or learns the size of its file.              *)
LEMMA BeginningStep ==
  ASSUME IInv, NEW p \in Procs, NEW sz, Now(sz), UNCHANGED given,
         DOMAIN me' = Procs, Moves(P, p, me, me'),
         DOMAIN held' = Procs, Moves(P, p, held, held'),
         me'[p].at = me[p].at, me[p].at <= Len(session),
         Alike(me[p], me'[p]) \/ MetAre(P, session, me'), NEW L, NEW t,
         PartAdds(P, p, session[me[p].at], sz[me[p].at], me[p], me'[p], L, t),
         Exchanges(P, session, sz, p, me[p], L, t, mail, mail'),
         MeOK(P, session, sz, p, me'[p]), HeldOK(session, sz, me'[p], held'[p]),
         \/ p # 0 /\ rest' = rest
         \/ p = 0 /\ RestOK(P, session[me[0].at], me'[0], sz[me[0].at], rest'),
         SizesAre(P, session, sz, me', file'), FileIs(file'), file' = file \/ Written
  PROVE  IInv'
<1>1. Fine(P, session, sz, me, mail, held, rest, file) /\ Procs = 0 .. P - 1
  BY DEF Now, Procs
<1>2. Settings(P, session, sz) /\ MeOK(P, session, sz, p, me[p])
  BY <1>1 DEF Fine
<1>3. Adds(P, session, sz, p, me[p], me'[p], L, t)
  BY <1>2, AddsWithin
<1>4. MetAre(P, session, me')
  BY <1>1, MetAlike DEF IInv
<1>5. RestOK(P, session[me'[0].at], me'[0], sz[me'[0].at], rest')
  <2>1. CASE p # 0 /\ rest' = rest
    <3>1. 0 \in 0 .. P - 1 /\ p \in 0 .. P - 1
      BY <1>1, <1>2 DEF Settings
    <3>2. me'[0] = me[0]
      BY <2>1, <3>1 DEF Moves
    <3>3. QED
      BY <1>1, <2>1, <3>2 DEF Fine
  <2>2. CASE p = 0 /\ RestOK(P, session[me[0].at], me'[0], sz[me[0].at], rest')
    BY <2>2
  <2>3. QED
    BY <2>1, <2>2
<1>6. Fine(P, session, sz, me', mail', held', rest', file')
  BY <1>1, <1>3, <1>5, Stepped
<1>7. QED
  BY <1>4, <1>6, Concluded

LEMMA AnsweredPart ==
  ASSUME NEW np, NEW q, q # 0, NEW call, call.op \in Rooted, NEW n \in Nat, NEW m,
         m.pc \notin {"idle", "broadcast"}, InCall(np, call, q, m, n)
  PROVE  Part(np, <<"down", Collective>>, q, q, call, n, m) >= 1
<1>1. Load(np, <<"down", Collective>>, q, call, n) >= 1
  BY RootedLoad
<1>2. m.pc \in {"blocks", "ready", "shares", "leave"}
  BY DEF InCall, InLists, InCollect, InGather, Rooted
<1>3. CASE m.pc = "blocks"
  <2>1. m.i >= 1 /\ m.i \in Int
    BY <1>3 DEF InCall, InBlock1
  <2>2. Part(np, <<"down", Collective>>, q, q, call, n, m) = 1 + m.i - 1
    BY <1>3 DEF Part, Collective, Lead, Bit
  <2>3. QED
    BY <2>1, <2>2
<1>4. CASE m.pc \in {"ready", "shares"}
  BY <1>4 DEF Part, Collective, Bit
<1>5. CASE m.pc = "leave"
  BY <1>1, <1>5 DEF Part
<1>6. QED
  BY <1>2, <1>3, <1>4, <1>5

(* Nobody knows what the root has still to announce.                       *)
LEMMA FirstToKnow ==
  ASSUME NEW sz, Now(sz), NEW c \in 1 .. Len(session), session[c].op \in Rooted,
         me[0].at = c, me[0].pc = "idle"
  PROVE  NoneKnows(P, me, c)
<1> DEFINE kind == <<"down", Collective>>
<1>1. Good(P, session, sz, me, mail)
  BY DEF Now, Fine, Good
<1>2. Settings(P, session, sz) /\ \A r \in 0 .. P - 1 : MeOK(P, session, sz, r, me[r])
  BY <1>1 DEF Good
<1>3. P \in Nat \ {0} /\ Len(session) \in Nat /\ sz[c] \in Nat
  BY <1>2 DEF Settings
<1>4. ~Knows(c, 0, me[0])
  BY <1>3 DEF Knows, Resting
<1>5. ASSUME NEW q \in 1 .. P - 1, Knows(c, q, me[q])
      PROVE  FALSE
  <2> DEFINE b == Before(P, session, sz, kind, q)
             from == Total(P, session, sz, kind, q, 0, me[0])
             to == Total(P, session, sz, kind, q, q, me[q])
             load == Load(P, kind, q, session[c], sz[c])
             a == me[q].at
  <2>1. kind \in Kinds /\ Line(kind, q) = <<0, q>> /\ Sender(kind, q) = 0
        /\ Receiver(kind, q) = q
    BY DEF Kinds, Tags, Line, Sender, Receiver
  <2>2. from \in Nat /\ to \in Nat
    BY <1>1, <2>1, LineFacts
  <2>3. LineOK(P, session, sz, kind, q, mail[<<0, q>>], from, to)
    <3>1. LineIs(P, session, sz, kind, q, me, mail)
      BY <1>1, <2>1 DEF Good, LinesAre
    <3>2. QED
      BY <2>1, <3>1 DEF LineIs
  <2>4. to <= from
    <3>1. PICK buf : Carries(mail[<<0, q>>], kind[2], buf) /\ Len(buf) + to = from
      BY <2>3 DEF LineOK
    <3>2. Len(buf) \in Nat
      BY <3>1 DEF Carries, Sequential
    <3> HIDE DEF from, to
    <3>3. QED
      BY <2>2, <3>1, <3>2
  <2>5. 0 \in {0, q} /\ q \in {0, q} /\ 0 \in 0 .. P - 1 /\ q \in 0 .. P - 1 /\ q # 0
    BY <1>3
  <2>6. MeOK(P, session, sz, 0, me[0]) /\ MeOK(P, session, sz, q, me[q])
    BY <1>2, <2>5
  <2>7. from = b[c]
    BY <1>2, <2>1, <2>5, <2>6, TotalBetween
  <2>8. load >= 1
    BY <1>3, RootedLoad
  <2>9. b[c] \in Nat /\ b[c + 1] = b[c] + load /\ load \in Nat /\ b[c + 1] \in Nat
    BY <1>2, <2>1, BeforeNext
  <2>10. CASE a > c
    <3>1. a \in 1 .. Len(session) + 1 /\ b[a] <= to /\ b[a] \in Nat
      BY <1>2, <2>1, <2>5, <2>6, TotalBetween
    <3>2. c + 1 <= a /\ c + 1 \in 1 .. Len(session) + 1
      BY <1>3, <2>10, <3>1
    <3>3. b[c + 1] <= b[a]
      <4> HIDE DEF a
      <4> DEFINE d == c + 1
      <4>1. d \in 1 .. Len(session) + 1 /\ d <= a
        BY <3>2
      <4> HIDE DEF d
      <4>2. b[d] <= b[a]
        BY <1>2, <2>1, <3>1, <4>1, BeforeGrows
      <4>3. QED
        BY <4>2 DEF d
    <3> DEFINE x == b[c]
               y == b[c + 1]
               z == b[a]
    <3>4. /\ from = x /\ y = x + load /\ load \in Nat /\ x \in Nat /\ z \in Nat
          /\ z <= to /\ y <= z
      BY <2>7, <2>9, <3>1, <3>3
    <3> HIDE DEF x, y, z, from, to, load
    <3>5. QED
      BY <2>2, <2>4, <2>8, <3>4
  <2>11. CASE ~(a > c)
    <3>1. a = c /\ ~Resting(q, me[q])
      BY <1>5, <2>11 DEF Knows
    <3>2. me[q].pc \notin {"idle", "broadcast"}
      BY <2>5, <3>1 DEF Resting
    <3>3. InCall(P, session[c], q, me[q], sz[c])
      BY <2>6, <3>1, <3>2 DEF MeOK
    <3>4. Part(P, kind, q, q, session[c], sz[c], me[q]) >= 1
      BY <1>3, <2>5, <3>2, <3>3, AnsweredPart
    <3>5. to = b[c] + Part(P, kind, q, q, session[c], sz[c], me[q])
      BY <3>1 DEF Total
    <3>6. Part(P, kind, q, q, session[c], sz[c], me[q]) \in 0 .. load
      BY <1>3, <2>1, <2>5, <3>3, PartBound
    <3> DEFINE x == Part(P, kind, q, q, session[c], sz[c], me[q])
    <3>7. x \in Nat /\ x >= 1 /\ to = b[c] + x
      BY <2>9, <3>4, <3>5, <3>6
    <3> HIDE DEF b, from, to, load, x
    <3>8. QED
      BY <2>2, <2>4, <2>7, <2>9, <3>7
  <2>12. QED
    BY <2>10, <2>11
<1>6. QED
  <2>1. \A r \in 0 .. P - 1 : r = 0 \/ r \in 1 .. P - 1
    BY <1>3
  <2>2. QED
    BY <1>4, <1>5, <2>1 DEF NoneKnows

LEMMA EnoughExamples ==
  ASSUME IInv, P > 1, P \in Nat, NEW c \in 1 .. Len(session),
         session[c].op = "ml_hdf5_sparse"
  PROVE  Len(Only) >= P
<1>1. PICK case \in Cases :
        /\ grid = case.grid /\ session = case.session /\ limits = case.limits
        /\ (\A x \in 1 .. Len(session) : session[x].op \notin Writes) => file = case.file
        /\ P = 1 \/ Matched(case)
  BY DEF IInv, CaseOK
<1>2. CaseOK /\ P # 1
  BY DEF IInv
<1>3. DOMAIN session = 1 .. Len(session)
  BY <1>2, SessionIs
<1>4. /\ ~(\E l \in DOMAIN session : session[l].op \in Writes)
      /\ Len(case.file.texts[1]) >= case.grid[1] * case.grid[2]
  BY <1>1, <1>2, <1>3 DEF Matched
<1>5. file = case.file
  BY <1>1, <1>3, <1>4
<1>6. QED
  BY <1>1, <1>4, <1>5 DEF Only, P

(* What an idle process knows before a call.                               *)
LEMMA IdleFacts ==
  ASSUME IInv, NEW p \in Procs, NEW sz, Now(sz), Idle(p)
  PROVE  /\ me[p].pc = "idle" /\ me[p].at \in 1 .. Len(session)
         /\ ~Knows(me[p].at, p, me[p]) /\ sz[me[p].at] \in Nat
<1>1. me[p].pc = "idle" /\ ~(me[p].at > Len(session))
  BY DEF Idle, At, Finished
<1>2. MeOK(P, session, sz, p, me[p]) /\ Settings(P, session, sz)
  BY Facts
<1>3. me[p].at \in 1 .. Len(session)
  BY <1>1, <1>2 DEF MeOK, Settings
<1>4. QED
  BY <1>1, <1>2, <1>3 DEF Knows, Resting, Settings

LEMMA NewSize ==
  ASSUME NEW sz, Now(sz), NEW c \in 1 .. Len(session), NoneKnows(P, me, c), NEW n \in Nat
  PROVE  \E sz2 : Now(sz2) /\ sz2[c] = n /\ Besides(session, sz, sz2, c)
<1>1. Fine(P, session, sz, me, mail, held, rest, file)
  BY DEF Now
<1>2. PICK sz2 : /\ Fine(P, session, sz2, me, mail, held, rest, file)
                 /\ sz2[c] = n /\ Besides(session, sz, sz2, c)
  BY <1>1, Rechosen
<1>3. QED
  BY <1>2 DEF Now

LEMMA RootPasses ==
  ASSUME IInv, FirstPassAt(0), 0 \in Procs
  PROVE  IInv'
<1> DEFINE m == me[0]
           call == session[m.at]
           size == FirstPass(call)
<1>1. /\ Idle(0) /\ call.op \in Rooted
      /\ rest' = SecondPass(call) /\ Goes(0, "broadcast", 0, 0, size)
      /\ held' = [held EXCEPT ![0] = Nothing]
      /\ UNCHANGED given /\ file' = file /\ mail' = mail
  BY DEF FirstPassAt, Call
<1>2. PICK sz1 : Now(sz1)
  BY Setup
<1>3. m.pc = "idle" /\ m.at \in 1 .. Len(session)
  BY <1>1, <1>2, IdleFacts
<1>4. NoneKnows(P, me, m.at)
  BY <1>1, <1>2, <1>3, FirstToKnow
<1>5. size.n \in Nat
  BY <1>1, FirstPassCounts
<1>6. PICK sz : Now(sz) /\ sz[m.at] = size.n
  <2> DEFINE c == m.at
             n == size.n
  <2>1. c \in 1 .. Len(session) /\ NoneKnows(P, me, c) /\ n \in Nat
    BY <1>3, <1>4, <1>5
  <2> HIDE DEF c, n
  <2>2. \E sz2 : Now(sz2) /\ sz2[c] = n
    BY <1>2, <2>1, NewSize
  <2>3. QED
    BY <2>2 DEF c, n
<1>7. /\ P \in Nat \ {0} /\ 0 \in 0 .. P - 1 /\ RecordOK(m)
      /\ DOMAIN me = Procs /\ DOMAIN held = Procs /\ SizesAre(P, session, sz, me, file)
  BY <1>6, Facts
<1>8. /\ DOMAIN me' = Procs /\ Moves(P, 0, me, me') /\ RecordOK(me'[0])
      /\ me'[0].at = m.at /\ me'[0].pc = "broadcast" /\ me'[0].i = 0 /\ me'[0].k = 0
      /\ me'[0].met = m.met /\ me'[0].size = size
  <2> HIDE DEF size
  <2>1. QED
    BY <1>1, <1>7, Gone
<1> DEFINE m2 == me'[0]
<1>9. MeOK(P, session, sz, 0, m2)
  BY <1>1, <1>3, <1>6, <1>8 DEF MeOK, InCall
<1>10. /\ DOMAIN held' = Procs /\ Moves(P, 0, held, held') /\ held'[0] = Nothing
  BY <1>1, <1>7, PutHeld
<1>11. HeldOK(session, sz, m2, held'[0])
  BY <1>8, <1>10 DEF HeldOK, Nothing
<1>12. RestOK(P, call, m2, sz[m.at], rest')
  <2> SUFFICES ASSUME call.op \in Shared
               PROVE  /\ Sequential(rest') /\ Len(rest') + 0 >= size.n
                      /\ call.op = "ml_hdf5_sparse" /\ P > 1 => size.n >= P
    BY <1>6, <1>8 DEF RestOK
  <2>1. /\ Sequential(rest') /\ size.n <= Len(rest')
        /\ call.op = "ml_hdf5_sparse" => size.n = Len(Only)
    BY <1>1, RestIs
  <2>2. call.op = "ml_hdf5_sparse" /\ P > 1 => Len(Only) >= P
    BY <1>3, <1>7, EnoughExamples
  <2>3. Len(rest') \in Nat
    BY <2>1 DEF Sequential
  <2>4. QED
    BY <1>5, <2>1, <2>2, <2>3
<1>13. SizesAre(P, session, sz, me', file')
  <2> DEFINE d == m.at
  <2>1. \A c \in 1 .. Len(session) : c # d => (Knows(c, 0, m2) <=> Knows(c, 0, m))
    BY <1>8 DEF Knows
  <2>2. session[d].op # "ml_hdf5_dense"
    BY <1>1 DEF Rooted
  <2> HIDE DEF d
  <2>3. QED
    BY <1>1, <1>7, <1>8, <2>1, <2>2, SizeKnown
<1>14. PartAdds(P, 0, call, sz[m.at], m, m2, {}, 0)
  BY <1>3, <1>8, Entering
<1>15. Exchanges(P, session, sz, 0, m, {}, 0, mail, mail')
  BY <1>1, NothingExchanged
<1>16. FileIs(file') /\ Alike(m, m2) /\ m.at <= Len(session)
  BY <1>1, <1>3, <1>8 DEF IInv, Alike
<1> HIDE DEF m, m2, call, size
<1>17. QED
  BY <1>1, <1>6, <1>8, <1>9, <1>10, <1>11, <1>12, <1>13, <1>14, <1>15, <1>16, BeginningStep
  DEF m, m2, call

LEMMA OthersPass ==
  ASSUME IInv, NEW p \in Procs, p # 0, FirstPassAt(p)
  PROVE  IInv'
<1> DEFINE m == me[p]
           call == session[m.at]
<1>1. /\ Idle(p) /\ call.op \in Rooted
      /\ rest' = rest /\ Goes(p, "broadcast", 0, 0, NoSize)
      /\ held' = [held EXCEPT ![p] = Nothing]
      /\ UNCHANGED given /\ file' = file /\ mail' = mail
  BY DEF FirstPassAt, Call
<1>2. PICK sz : Now(sz)
  BY Setup
<1>3. m.pc = "idle" /\ m.at \in 1 .. Len(session)
  BY <1>1, <1>2, IdleFacts
<1>4. /\ P \in Nat \ {0} /\ p \in 0 .. P - 1 /\ RecordOK(m)
      /\ DOMAIN me = Procs /\ DOMAIN held = Procs /\ SizesAre(P, session, sz, me, file)
  BY <1>2, Facts
<1>5. /\ DOMAIN me' = Procs /\ Moves(P, p, me, me') /\ RecordOK(me'[p])
      /\ me'[p].at = m.at /\ me'[p].pc = "broadcast" /\ me'[p].met = m.met
  BY <1>1, <1>4, Gone
<1> DEFINE m2 == me'[p]
<1>6. MeOK(P, session, sz, p, m2)
  BY <1>1, <1>3, <1>5 DEF MeOK, InCall
<1>7. DOMAIN held' = Procs /\ Moves(P, p, held, held') /\ held'[p] = Nothing
  BY <1>1, <1>4, PutHeld
<1>8. HeldOK(session, sz, m2, held'[p])
  BY <1>5, <1>7 DEF HeldOK, Nothing
<1>9. SizesAre(P, session, sz, me', file')
  <2>1. \A c \in 1 .. Len(session) : Knows(c, p, m2) <=> Knows(c, p, m)
    BY <1>3, <1>5 DEF Knows, Resting
  <2>2. QED
    BY <1>1, <1>4, <1>5, <2>1, SizesKept
<1>10. PartAdds(P, p, call, sz[m.at], m, m2, {}, 0)
  BY <1>3, <1>5, Entering
<1>11. Exchanges(P, session, sz, p, m, {}, 0, mail, mail')
  BY <1>1, NothingExchanged
<1>12. FileIs(file') /\ Alike(m, m2) /\ m.at <= Len(session)
  BY <1>1, <1>3, <1>5 DEF IInv, Alike
<1> HIDE DEF m, m2, call
<1>13. QED
  BY <1>1, <1>2, <1>5, <1>6, <1>7, <1>8, <1>9, <1>10, <1>11, <1>12, BeginningStep
  DEF m, m2, call

LEMMA FirstPassAtKeeps ==
  ASSUME IInv, NEW p \in Procs, FirstPassAt(p)
  PROVE  IInv'
BY RootPasses, OthersPass

LEMMA WidthKeeps ==
  ASSUME IInv, NEW p \in Procs, Width(p)
  PROVE  IInv'
<1> DEFINE m == me[p]
           call == session[m.at]
<1>1. /\ Idle(p) /\ call.op = "write_hdf5"
      /\ IF p = 0 THEN mail' = mail ELSE \E w : Send(p, 0, Collective, w)
      /\ Goes(p, "collect", 0, 0, NoSize)
      /\ UNCHANGED given /\ file' = file /\ rest' = rest /\ held' = held
  BY DEF Width, Call
<1>2. PICK sz : Now(sz)
  BY Setup
<1>3. m.pc = "idle" /\ m.at \in 1 .. Len(session) /\ sz[m.at] \in Nat
  BY <1>1, <1>2, IdleFacts
<1>4. /\ P \in Nat \ {0} /\ p \in 0 .. P - 1 /\ RecordOK(m) /\ 0 \in Procs
      /\ HeldOK(session, sz, m, held[p]) /\ MailIs(P, mail)
      /\ DOMAIN me = Procs /\ DOMAIN held = Procs /\ SizesAre(P, session, sz, me, file)
  BY <1>2, Facts
<1>5. /\ DOMAIN me' = Procs /\ Moves(P, p, me, me') /\ RecordOK(me'[p])
      /\ me'[p].at = m.at /\ me'[p].pc = "collect" /\ me'[p].i = 0 /\ me'[p].k = 0
      /\ me'[p].met = m.met /\ me'[p].got = << >>
  BY <1>1, <1>4, Gone
<1> DEFINE m2 == me'[p]
           L == IF p = 0 THEN {} ELSE Up(P, p)
<1>6. MeOK(P, session, sz, p, m2)
  <2>1. Sequential(m2.got) /\ Len(m2.got) = 0
    BY <1>5, Singles
  <2>2. InCollect(P, call, p, m2)
    BY <1>1, <1>4, <1>5, <2>1 DEF InCollect, GotOK
  <2>3. QED
    BY <1>1, <1>3, <1>5, <2>2 DEF MeOK, InCall
<1>7. DOMAIN held' = Procs /\ Moves(P, p, held, held') /\ held'[p] = held[p]
  BY <1>1, <1>4, HeldSame
<1>8. HeldOK(session, sz, m2, held'[p])
  BY <1>4, <1>5, <1>7 DEF HeldOK
<1>9. SizesAre(P, session, sz, me', file')
  <2> DEFINE d == m.at
  <2>1. \A c \in 1 .. Len(session) : c # d => (Knows(c, p, m2) <=> Knows(c, p, m))
    BY <1>5 DEF Knows
  <2>2. session[d].op # "ml_hdf5_dense"
    BY <1>1
  <2> HIDE DEF d
  <2>3. QED
    BY <1>1, <1>4, <1>5, <2>1, <2>2, SizeKnown
<1>10. PartAdds(P, p, call, sz[m.at], m, m2, L, Collective)
  BY <1>3, <1>4, <1>5, WidthCounts
<1>11. Exchanges(P, session, sz, p, m, L, Collective, mail, mail')
  <2>1. Collective \in Tags
    BY DEF Tags
  <2>2. CASE p = 0
    BY <1>1, <2>1, <2>2 DEF Exchanges, AreTaken
  <2>3. CASE p # 0
    <3>1. L = {<<p, 0>>}
      BY <2>3 DEF Up
    <3>2. PICK w : Send(p, 0, Collective, w)
      BY <1>1, <2>3
    <3>3. Says(P, session, sz, p, m, <<p, 0>>, Collective, w)
      BY <2>3, SaysUp
    <3> HIDE DEF L
    <3>4. QED
      BY <1>4, <2>1, <2>3, <3>1, <3>2, <3>3, SentOne
  <2>4. QED
    BY <2>2, <2>3
<1>12. FileIs(file') /\ Alike(m, m2) /\ m.at <= Len(session)
  BY <1>1, <1>3, <1>5 DEF IInv, Alike
<1>13. RestOK(P, call, m2, sz[m.at], rest')
  BY <1>5 DEF RestOK
<1> HIDE DEF m, m2, call, L
<1>14. QED
  BY <1>1, <1>2, <1>5, <1>6, <1>7, <1>8, <1>9, <1>10, <1>11, <1>12, <1>13, BeginningStep
  DEF m, m2, call

LEMMA OpenHDF5Keeps ==
  ASSUME IInv, NEW p \in Procs, OpenHDF5(p)
  PROVE  IInv'
<1> DEFINE m == me[p]
           call == session[m.at]
           c == m.at
           n0 == Len(file.texts[1])
<1>1. /\ Idle(p) /\ call.op = "ml_hdf5_dense"
      /\ Goes(p, "blocks", 1, 0, SizeInHDF5(call))
      /\ held' = [held EXCEPT ![p] = Matrices(SizeInHDF5(call), {}, {}, TRUE)]
      /\ p # 0 => rest' = rest
      /\ UNCHANGED given /\ file' = file /\ mail' = mail
  BY DEF OpenHDF5, Call, Resized
<1>2. PICK sz1 : Now(sz1)
  BY Setup
<1>3. m.pc = "idle" /\ c \in 1 .. Len(session) /\ ~Knows(c, p, m)
  BY <1>1, <1>2, IdleFacts
<1>4. SizeInHDF5(call).n = n0 /\ n0 \in Nat
  <2>1. Sequential(file.texts[1])
    BY InFile DEF Only
  <2>2. QED
    BY <2>1 DEF SizeInHDF5, Sequential
<1>5. P \in Nat \ {0} /\ p \in 0 .. P - 1 /\ SizesAre(P, session, sz1, me, file)
  BY <1>2, Facts
<1> HIDE DEF n0, c
<1>6. PICK sz : Now(sz) /\ sz[c] = n0
  <2>1. CASE NoneKnows(P, me, c)
    <3>1. \E sz2 : Now(sz2) /\ sz2[c] = n0
      BY <1>2, <1>3, <1>4, <2>1, NewSize
    <3>2. QED
      BY <3>1
  <2>2. CASE ~NoneKnows(P, me, c)
    <3>1. PICK q \in 0 .. P - 1 : Knows(c, q, me[q])
      BY <2>2 DEF NoneKnows
    <3>2. q # p /\ P > 1
      BY <1>3, <1>5, <3>1
    <3>3. Len(file.texts[1]) = sz1[c]
      BY <1>1, <1>3, <1>5, <3>1, <3>2 DEF SizesAre, c
    <3>4. QED
      BY <1>2, <3>3 DEF n0
  <2>3. QED
    BY <2>1, <2>2
<1>7. /\ RecordOK(m) /\ DOMAIN me = Procs /\ DOMAIN held = Procs
      /\ SizesAre(P, session, sz, me, file)
  BY <1>6, Facts
<1>8. /\ DOMAIN me' = Procs /\ Moves(P, p, me, me') /\ RecordOK(me'[p])
      /\ me'[p].at = m.at /\ me'[p].pc = "blocks" /\ me'[p].i = 1 /\ me'[p].k = 0
      /\ me'[p].met = m.met /\ me'[p].size = SizeInHDF5(call)
  BY <1>1, <1>7, Gone
<1> DEFINE m2 == me'[p]
<1>9. MeOK(P, session, sz, p, m2)
  <2>1. NB(call, sz[c]) \in Nat
    BY <1>4, <1>6, NBNat
  <2>2. InBlock1(call, p, m2, sz[c])
    BY <1>1, <1>8, <2>1 DEF InBlock1, Scatters, InBlocks
  <2>3. QED
    BY <1>3, <1>4, <1>6, <1>8, <2>2 DEF MeOK, InCall, c
<1>10. /\ DOMAIN held' = Procs /\ Moves(P, p, held, held')
       /\ held'[p] = Matrices(SizeInHDF5(call), {}, {}, TRUE)
  BY <1>1, <1>7, PutHeld
<1>11. HeldOK(session, sz, m2, held'[p])
  <2>1. "n" \in DOMAIN held'[p] /\ held'[p].n = n0
    BY <1>4, <1>10 DEF Matrices
  <2>2. QED
    BY <1>4, <1>6, <1>8, <2>1 DEF HeldOK, c
<1>12. RestOK(P, call, m2, sz[c], rest')
  BY <1>8 DEF RestOK
<1>13. SizesAre(P, session, sz, me', file')
  <2>1. \A x \in 1 .. Len(session) : x # c => (Knows(x, p, m2) <=> Knows(x, p, m))
    BY <1>8 DEF Knows, c
  <2>2. Len(file.texts[1]) = sz[c]
    BY <1>1, <1>6 DEF n0, c
  <2>3. QED
    BY <1>1, <1>7, <1>8, <2>1, <2>2, SizeKnown
<1>14. PartAdds(P, p, call, sz[c], m, m2, {}, 0)
  BY <1>1, <1>3, <1>8, Opening
<1>15. Exchanges(P, session, sz, p, m, {}, 0, mail, mail')
  BY <1>1, NothingExchanged
<1>16. FileIs(file') /\ Alike(m, m2) /\ m.at <= Len(session)
  BY <1>1, <1>3, <1>8 DEF IInv, Alike, c
<1> HIDE DEF m, m2, call
<1>17. QED
  BY <1>1, <1>6, <1>8, <1>9, <1>10, <1>11, <1>12, <1>13, <1>14, <1>15, <1>16, BeginningStep
  DEF m, m2, call, c

LEMMA OpenToWriteKeeps ==
  ASSUME IInv, NEW p \in Procs, OpenToWrite(p)
  PROVE  IInv'
<1> DEFINE m == me[p]
           call == session[m.at]
           c == m.at
           n0 == held[p].n
           size == [n |-> held[p].n, d |-> held[p].d, nt |-> 1]
<1>1. /\ Idle(p) /\ call.op = "write_dist"
      /\ Goes(p, "gather", 1, 0, size) /\ file' = Text(<< >>)
      /\ UNCHANGED given /\ mail' = mail /\ rest' = rest /\ held' = held
  BY DEF OpenToWrite, Call
<1>2. PICK sz1 : Now(sz1)
  BY Setup
<1>3. m.pc = "idle" /\ c \in 1 .. Len(session) /\ ~Knows(c, p, m)
  BY <1>1, <1>2, IdleFacts
<1>4. /\ P \in Nat \ {0} /\ p \in 0 .. P - 1 /\ SizesAre(P, session, sz1, me, file)
      /\ HeldOK(session, sz1, m, held[p])
  BY <1>2, Facts
<1>5. size.n = n0 /\ n0 \in Nat
  BY <1>4 DEF HeldOK
<1>6. P = 1
  <2>1. CaseOK /\ c \in DOMAIN session
    BY <1>3, SessionIs DEF IInv
  <2>2. QED
    BY <1>1, <2>1, CaseMatched
<1> HIDE DEF n0, c
<1>7. PICK sz : Now(sz) /\ sz[c] = n0
  <2>1. \A q \in 0 .. P - 1 : q = p
    BY <1>4, <1>6
  <2>2. NoneKnows(P, me, c)
    BY <1>3, <2>1 DEF NoneKnows
  <2>3. \E sz2 : Now(sz2) /\ sz2[c] = n0
    BY <1>2, <1>3, <1>5, <2>2, NewSize
  <2>4. QED
    BY <2>3
<1>8. /\ RecordOK(m) /\ DOMAIN me = Procs /\ DOMAIN held = Procs
      /\ SizesAre(P, session, sz, me, file)
  BY <1>7, Facts
<1> HIDE DEF size
<1>9. /\ DOMAIN me' = Procs /\ Moves(P, p, me, me') /\ RecordOK(me'[p])
      /\ me'[p].at = m.at /\ me'[p].pc = "gather" /\ me'[p].i = 1 /\ me'[p].k = 0
      /\ me'[p].met = m.met /\ me'[p].size = size
  BY <1>1, <1>8, Gone
<1> DEFINE m2 == me'[p]
<1>10. MeOK(P, session, sz, p, m2)
  <2>1. NB(call, sz[c]) \in Nat
    BY <1>5, <1>7, NBNat
  <2>2. InGather(call, p, m2, sz[c])
    BY <1>1, <1>9, <2>1 DEF InGather
  <2>3. QED
    BY <1>3, <1>5, <1>7, <1>9, <2>2 DEF MeOK, InCall, c
<1>11. DOMAIN held' = Procs /\ Moves(P, p, held, held') /\ held'[p] = held[p]
  BY <1>1, <1>8, HeldSame
<1>12. HeldOK(session, sz, m2, held'[p])
  BY <1>4, <1>7, <1>9, <1>11 DEF HeldOK, c, n0
<1>13. RestOK(P, call, m2, sz[c], rest')
  BY <1>9 DEF RestOK
<1>14. SizesAre(P, session, sz, me', file')
  BY <1>6 DEF SizesAre
<1>15. PartAdds(P, p, call, sz[c], m, m2, {}, 0)
  BY <1>3, <1>9, Gathering
<1>16. Exchanges(P, session, sz, p, m, {}, 0, mail, mail')
  BY <1>1, NothingExchanged
<1>17. Alike(m, m2) /\ m.at <= Len(session)
  BY <1>3, <1>9 DEF Alike, c
<1>18. FileIs(file') /\ Written
  BY <1>1, <1>3, EmptyText DEF Written, Writes, c
<1> HIDE DEF m, m2, call
<1>19. QED
  BY <1>1, <1>7, <1>9, <1>10, <1>11, <1>12, <1>13, <1>14, <1>15, <1>16, <1>17, <1>18,
     BeginningStep
  DEF m, m2, call, c

(* Sizes are broadcast to every process.                                   *)
LEMMA WorldIs ==
  ASSUME IInv, P # 1, NEW p \in Procs, Call(p).op \in Rooted,
         me[p].at \in 1 .. Len(session)
  PROVE  World(p) = Procs
<1> DEFINE c == Call(p)
<1>1. CaseOK /\ me[p].at \in DOMAIN session
  BY SessionIs DEF IInv
<1>2. CASE c.op \in Shared \cup {"ml_dense"}
  BY <1>2 DEF World
<1>3. CASE c.op \notin Shared \cup {"ml_dense"}
  <2>1. c.dist \notin {S_S, CIRC_CIRC}
    BY <1>1, <1>3, CaseMatched DEF Call
  <2>2. DistsOf(c).Y = c.dist
    BY <1>3 DEF DistsOf, Rooted
  <2>3. QED
    BY <1>3, <2>1, <2>2 DEF World, Communicator
<1>4. QED
  BY <1>2, <1>3

LEMMA SizeReceived ==
  ASSUME NEW sz, Now(sz), NEW q \in Procs \ {0}, Has(0, q, Collective),
         me[q].pc = "broadcast", me[q].at \in 1 .. Len(session),
         session[me[q].at].op \in Rooted
  PROVE  Received(0, q, Collective).n = sz[me[q].at]
<1> DEFINE kind == <<"down", Collective>>
           s == mail[<<0, q>>]
           from == Total(P, session, sz, kind, q, 0, me[0])
           to == Total(P, session, sz, kind, q, q, me[q])
           c == me[q].at
           b == Before(P, session, sz, kind, q)
<1>1. Good(P, session, sz, me, mail)
  BY DEF Now, Fine, Good
<1>2. kind \in Kinds /\ q \in 1 .. P - 1
  BY <1>1 DEF Kinds, Tags, Procs, Good, Settings
<1>3. /\ Line(kind, q) = <<0, q>> /\ kind[2] = Collective /\ Sender(kind, q) = 0
      /\ Receiver(kind, q) = q
  BY DEF Line, Sender, Receiver
<1>4. Sequential(s) /\ from \in Nat /\ to \in Nat
  BY <1>1, <1>2, <1>3, LineFacts
<1>5. LineOK(P, session, sz, kind, q, s, from, to)
  <2>1. LineIs(P, session, sz, kind, q, me, mail)
    BY <1>1, <1>2 DEF Good, LinesAre
  <2>2. QED
    BY <1>3, <2>1 DEF LineIs
<1>6. OldestOf(s, kind[2]) # 0
  BY <1>3, OldestSame DEF Has
<1>7. Content(P, session, sz, kind, q, to + 1, s[OldestOf(s, kind[2])].what)
  BY <1>4, <1>5, <1>6, LineTaken
<1>8. Received(0, q, Collective) = s[OldestOf(s, kind[2])].what
  BY <1>3, OldestSame DEF Received
<1>9. to = b[c]
  <2>1. Part(P, kind, q, q, session[c], sz[c], me[q]) = 0
    BY DEF Part
  <2>2. b[c] \in Nat
    BY <1>1, <1>2, BeforeNext DEF Good
  <2>3. to = b[c] + Part(P, kind, q, q, session[c], sz[c], me[q])
    BY DEF Total
  <2> HIDE DEF b, to
  <2>4. QED
    BY <2>1, <2>2, <2>3
<1>10. to + 1 = b[c] + 1
  BY <1>9
<1> HIDE DEF s, to, b
<1>11. QED
  BY <1>7, <1>8, <1>10 DEF Content, b

LEMMA Told ==
  ASSUME DOMAIN me = Procs, NEW p \in Procs, RecordOK(me[p]), NEW size,
         me' = [me EXCEPT ![p] = [@ EXCEPT !.pc = "ready", !.size = size,
                                           !.met = me[p].met + 1]]
  PROVE  /\ DOMAIN me' = Procs /\ Moves(P, p, me, me') /\ RecordOK(me'[p])
         /\ me'[p].at = me[p].at /\ me'[p].pc = "ready"
         /\ me'[p].met = me[p].met + 1 /\ me'[p].size = size
<1>1. me' = [me EXCEPT ![p] = [me[p] EXCEPT !.pc = "ready", !.size = size,
                                            !.met = me[p].met + 1]]
  OBVIOUS
<1> DEFINE m2 == [me[p] EXCEPT !.pc = "ready", !.size = size, !.met = me[p].met + 1]
<1>2. /\ RecordOK(m2) /\ m2.at = me[p].at /\ m2.pc = "ready"
      /\ m2.met = me[p].met + 1 /\ m2.size = size
  BY DEF RecordOK
<1> HIDE DEF m2
<1>3. DOMAIN me' = Procs /\ Moves(P, p, me, me') /\ me'[p] = m2
  BY <1>1, Put DEF m2
<1>4. QED
  BY <1>2, <1>3

(* What a broadcast does to the messages, and what the process learns.     *)
LEMMA Announces ==
  ASSUME IInv, NEW p \in Procs, NEW sz, Now(sz), Broadcast(p)
  PROVE  \E size :
           /\ size.n = sz[me[p].at]
           /\ Exchanges(P, session, sz, p, me[p], Down(P, p), Collective, mail, mail')
           /\ IF session[me[p].at].op \in Shared
              THEN /\ me' = [me EXCEPT ![p] = [@ EXCEPT !.pc = "ready", !.size = size,
                                                        !.met = me[p].met + 1]]
                   /\ held' = held
              ELSE Goes(p, "blocks", 1, 0, size) /\ Resized(p, size)
<1> DEFINE m == me[p]
           call == session[m.at]
           size == IF p = 0 \/ World(p) = {p} THEN m.size ELSE Received(0, p, Collective)
<1>1. /\ IF p = 0 THEN SendEach(p, World(p), LAMBDA q : size)
         ELSE IF World(p) = {p} THEN UNCHANGED mail ELSE Take(0, p, Collective)
      /\ IF call.op \in Shared
         THEN /\ me' = [me EXCEPT ![p] = [@ EXCEPT !.pc = "ready", !.size = size,
                                                   !.met = me[p].met + 1]]
              /\ held' = held
         ELSE Goes(p, "blocks", 1, 0, size) /\ Resized(p, size)
  BY DEF Broadcast, At, Call
<1>2. m.pc = "broadcast"
  BY DEF Broadcast, At
<1>3. /\ P \in Nat \ {0} /\ p \in 0 .. P - 1 /\ 0 \in Procs /\ Procs = 0 .. P - 1
      /\ Settings(P, session, sz) /\ MeOK(P, session, sz, p, m) /\ MailIs(P, mail)
      /\ m.at \in 1 .. Len(session) /\ InCall(P, call, p, m, sz[m.at])
  BY <1>2, Facts DEF Procs
<1>4. call.op \in Rooted
  BY <1>2, <1>3 DEF InCall
<1>5. P # 1 => World(p) = Procs
  BY <1>3, <1>4, WorldIs DEF Call
<1>6. p # 0 => World(p) # {p} /\ P # 1
  <2> SUFFICES ASSUME p # 0 PROVE World(p) # {p} /\ P # 1
    OBVIOUS
  <2>1. P # 1
    BY <1>3
  <2>2. 0 \in World(p)
    BY <1>3, <1>5, <2>1
  <2>3. QED
    BY <2>1, <2>2
<1>7. Collective \in Tags
  BY DEF Tags
<1>8. size.n = sz[m.at]
  <2>1. CASE p = 0
    BY <1>2, <1>3, <2>1 DEF InCall
  <2>2. CASE p # 0
    <3>1. p \in Procs \ {0} /\ Has(0, p, Collective) /\ World(p) # {p}
      BY <1>6, <2>2 DEF Broadcast
    <3>2. Received(0, p, Collective).n = sz[m.at]
      BY <1>2, <1>3, <1>4, <3>1, SizeReceived
    <3>3. QED
      BY <2>2, <3>1, <3>2
  <2>3. QED
    BY <2>1, <2>2
<1>9. Exchanges(P, session, sz, p, m, Down(P, p), Collective, mail, mail')
  <2>1. CASE p = 0
    <3> DEFINE w == [q \in Procs |-> size]
    <3>1. SendEach(p, World(p), LAMBDA q : size)
      BY <1>1, <2>1
    <3>2. /\ DOMAIN mail' = DOMAIN mail
          /\ \A pair \in DOMAIN mail :
               mail'[pair] = IF pair[1] = p /\ pair[2] \in World(p) \ {p}
                             THEN Append(mail[pair], Message(Collective, size))
                             ELSE mail[pair]
      BY <3>1 DEF SendEach
    <3>3. \A pair \in DOMAIN mail : pair[2] \in Procs
      BY <1>3 DEF MailIs
    <3>4. \A pair \in DOMAIN mail : pair[2] \in World(p) \ {p} <=> pair[2] # 0
      <4>1. CASE P # 1
        BY <1>5, <2>1, <3>3, <4>1
      <4>2. CASE P = 1
        <5>1. Procs = {0}
          BY <1>3, <4>2
        <5>2. World(p) \subseteq {0}
          BY <2>1, <5>1 DEF World, Communicator
        <5>3. QED
          BY <2>1, <3>3, <5>1, <5>2
      <4>3. QED
        BY <4>1, <4>2
    <3> HIDE DEF size
    <3>5. \A pair \in DOMAIN mail : w[pair[2]] = size
      BY <3>3
    <3>6. \A pair \in DOMAIN mail :
            mail'[pair] = IF pair[1] = 0 /\ pair[2] # 0
                          THEN Append(mail[pair], Message(Collective, w[pair[2]]))
                          ELSE mail[pair]
      BY <2>1, <3>2, <3>4, <3>5
    <3>7. \A q \in 1 .. P - 1 : w[q] = size
      BY <1>3
    <3>8. \A q \in 1 .. P - 1 : Says(P, session, sz, 0, m, <<0, q>>, Collective, w[q])
      <4> TAKE q \in 1 .. P - 1
      <4>1. w[q].n = sz[m.at]
        BY <1>8, <3>7
      <4>2. MeOK(P, session, sz, 0, m)
        BY <1>3, <2>1
      <4> HIDE DEF w, m
      <4>3. QED
        BY <1>2, <1>3, <4>1, <4>2, SaysSize
    <3> HIDE DEF w, m
    <3>9. Exchanges(P, session, sz, 0, m, Down(P, 0), Collective, mail, mail')
      BY <1>3, <3>2, <3>6, <3>8, SentToAll
    <3>10. QED
      BY <2>1, <3>9
  <2>2. CASE p # 0
    <3>1. Down(P, p) = {<<0, p>>}
      BY <2>2 DEF Down
    <3>2. Take(0, p, Collective) /\ Has(0, p, Collective)
      BY <1>1, <1>6, <2>2 DEF Broadcast
    <3> HIDE DEF m
    <3>3. Exchanges(P, session, sz, p, m, {<<0, p>>}, Collective, mail, mail')
      BY <1>3, <1>7, <2>2, <3>2, TookOne
    <3>4. QED
      BY <3>1, <3>3
  <2>3. QED
    BY <2>1, <2>2
<1> HIDE DEF size
<1>10. QED
  BY <1>1, <1>8, <1>9

LEMMA BroadcastKeeps ==
  ASSUME IInv, NEW p \in Procs, Broadcast(p)
  PROVE  IInv'
<1> DEFINE m == me[p]
           call == session[m.at]
           c == m.at
<1>1. PICK sz : Now(sz)
  BY Setup
<1>2. m.pc = "broadcast" /\ UNCHANGED given /\ file' = file /\ rest' = rest
  BY DEF Broadcast, At
<1>3. /\ P \in Nat \ {0} /\ p \in 0 .. P - 1 /\ RecordOK(m)
      /\ Len(session) \in Nat /\ Settings(P, session, sz)
      /\ HeldOK(session, sz, m, held[p])
      /\ RestOK(P, session[me[0].at], me[0], sz[me[0].at], rest)
      /\ DOMAIN me = Procs /\ DOMAIN held = Procs /\ SizesAre(P, session, sz, me, file)
      /\ m.at \in 1 .. Len(session) /\ sz[c] \in Nat
      /\ InCall(P, call, p, m, sz[c])
  BY <1>1, <1>2, Facts
<1>4. call.op \in Rooted
  BY <1>2, <1>3 DEF InCall
<1>5. PICK size :
        /\ size.n = sz[c]
        /\ Exchanges(P, session, sz, p, m, Down(P, p), Collective, mail, mail')
        /\ IF call.op \in Shared
           THEN /\ me' = [me EXCEPT ![p] = [@ EXCEPT !.pc = "ready", !.size = size,
                                                     !.met = me[p].met + 1]]
                /\ held' = held
           ELSE Goes(p, "blocks", 1, 0, size) /\ Resized(p, size)
  BY <1>1, Announces
<1> DEFINE m2 == me'[p]
<1>6. /\ DOMAIN me' = Procs /\ Moves(P, p, me, me') /\ RecordOK(m2)
      /\ m2.at = c /\ m2.size = size
      /\ m2.pc = "ready" \/ (m2.pc = "blocks" /\ m2.i = 1 /\ m2.k = 0)
      /\ Alike(m, m2) \/ MetAre(P, session, me')
      /\ MeOK(P, session, sz, p, m2)
      /\ DOMAIN held' = Procs /\ Moves(P, p, held, held')
      /\ HeldOK(session, sz, m2, held'[p])
  <2>1. CASE call.op \in Shared
    <3>1. /\ me' = [me EXCEPT ![p] = [@ EXCEPT !.pc = "ready", !.size = size,
                                               !.met = me[p].met + 1]]
          /\ held' = held
      BY <1>5, <2>1
    <3>2. /\ DOMAIN me' = Procs /\ Moves(P, p, me, me') /\ RecordOK(m2)
          /\ m2.at = c /\ m2.pc = "ready" /\ m2.met = m.met + 1 /\ m2.size = size
      BY <1>3, <3>1, Told
    <3>3. MeOK(P, session, sz, p, m2)
      BY <1>3, <1>5, <2>1, <3>2 DEF MeOK, InCall
    <3>4. DOMAIN held' = Procs /\ Moves(P, p, held, held') /\ held'[p] = held[p]
      BY <1>3, <3>1, HeldSame
    <3>5. HeldOK(session, sz, m2, held'[p])
      BY <1>3, <3>2, <3>4 DEF HeldOK
    <3>6. MetAre(P, session, me')
      <4> DEFINE b == Barred(session)
      <4>1. Fine(P, session, sz, me, mail, held, rest, file) /\ MetAre(P, session, me)
        BY <1>1 DEF Now, IInv
      <4>2. \A r \in 0 .. P - 1 : me[r].at \in 1 .. Len(session) + 1
        BY <4>1 DEF Fine, MeOK
      <4>3. m.met = Arrived(session, m) /\ b[m.at] \in Nat /\ b[m2.at] = b[m.at]
        BY <1>3, <3>2, <4>1, BarredNext DEF MetAre
      <4>4. Arrived(session, m) = b[m.at] + 0 /\ Arrived(session, m2) = b[m.at] + 1
        BY <1>2, <3>2, <4>3 DEF Arrived
      <4>5. Passed(session, m) = b[m.at] + 0 /\ Passed(session, m2) = b[m.at] + 0
        BY <1>2, <3>2, <4>3 DEF Passed, Bit
      <4>6. \A r \in 0 .. P - 1 : Passed(session, m) <= me[r].met
        BY <1>3, <4>1 DEF MetAre
      <4> HIDE DEF b, m, m2
      <4>7. /\ m2.met = Arrived(session, m2) /\ m2.met >= m.met
            /\ Passed(session, m2) <= m2.met
            /\ \A r \in 0 .. P - 1 : Passed(session, m2) <= me[r].met
        BY <3>2, <4>3, <4>4, <4>5, <4>6
      <4>8. m2.at \in 1 .. Len(session) + 1
        BY <1>3, <3>2 DEF m, m2
      <4>9. QED
        BY <1>3, <3>2, <4>1, <4>2, <4>7, <4>8, MetStill DEF m, m2
    <3>7. QED
      BY <3>2, <3>3, <3>4, <3>5, <3>6
  <2>2. CASE call.op \notin Shared
    <3>1. Goes(p, "blocks", 1, 0, size) /\ Resized(p, size)
      BY <1>5, <2>2
    <3>2. /\ DOMAIN me' = Procs /\ Moves(P, p, me, me') /\ RecordOK(m2)
          /\ m2.at = c /\ m2.pc = "blocks" /\ m2.i = 1 /\ m2.k = 0
          /\ m2.met = m.met /\ m2.size = size
      BY <1>3, <3>1, Gone
    <3>3. call.op \in Scatters
      BY <1>4, <2>2 DEF Rooted, Shared, Scatters, InBlocks
    <3>4. NB(call, sz[c]) \in Nat
      BY <1>3, NBNat
    <3>5. InBlock1(call, p, m2, sz[c])
      BY <3>2, <3>3, <3>4 DEF InBlock1
    <3>6. MeOK(P, session, sz, p, m2)
      BY <1>3, <1>5, <3>2, <3>5 DEF MeOK, InCall
    <3>7. /\ DOMAIN held' = Procs /\ Moves(P, p, held, held')
          /\ held'[p] = Matrices(size, {}, {}, TRUE)
      BY <1>3, <3>1, PutHeld DEF Resized
    <3>8. "n" \in DOMAIN held'[p] /\ held'[p].n = sz[c]
      BY <1>5, <3>7 DEF Matrices
    <3>9. HeldOK(session, sz, m2, held'[p])
      BY <1>3, <3>2, <3>8 DEF HeldOK
    <3>10. Alike(m, m2)
      BY <1>2, <3>2 DEF Alike
    <3>11. QED
      BY <3>2, <3>6, <3>7, <3>9, <3>10
  <2>3. QED
    BY <2>1, <2>2
<1>7. \/ p # 0 /\ rest' = rest
      \/ p = 0 /\ RestOK(P, session[me[0].at], me'[0], sz[me[0].at], rest')
  <2> SUFFICES ASSUME p = 0 PROVE RestOK(P, call, m2, sz[c], rest)
    BY <1>2
  <2>1. RestOK(P, call, m, sz[c], rest)
    BY <1>3
  <2>2. QED
    BY <1>2, <1>6, <2>1 DEF RestOK
<1>8. SizesAre(P, session, sz, me', file')
  <2>1. \A x \in 1 .. Len(session) : x # c => (Knows(x, p, m2) <=> Knows(x, p, m))
    BY <1>6 DEF Knows
  <2>2. session[c].op # "ml_hdf5_dense"
    BY <1>4 DEF Rooted
  <2> HIDE DEF c
  <2>3. QED
    BY <1>2, <1>3, <1>6, <2>1, <2>2, SizeKnown
<1>9. PartAdds(P, p, call, sz[c], m, m2, Down(P, p), Collective)
  BY <1>2, <1>3, <1>4, <1>6, BroadcastCounts
<1>10. FileIs(file') /\ m.at <= Len(session)
  BY <1>2, <1>3 DEF IInv
<1> HIDE DEF m, m2, call
<1>11. QED
  BY <1>1, <1>2, <1>5, <1>6, <1>7, <1>8, <1>9, <1>10, BeginningStep
  DEF m, m2, call, c
-----------------------------------------------------------------------------
(* Before the first call.                                                  *)
LEMMA Beginning ==
  ASSUME Init,
         \A case \in Cases : Cleared(case) /\ (case.grid = <<1, 1>> \/ Matched(case))
  PROVE  IInv
<1>1. PICK case \in Cases : /\ grid = case.grid /\ session = case.session
                            /\ limits = case.limits /\ file = case.file
  BY DEF Init
<1>2. /\ me = [p \in Procs |-> [at |-> 1, pc |-> "idle", i |-> 0, k |-> 0,
                                met |-> 0, size |-> NoSize, got |-> <<>>]]
      /\ mail = [pair \in Procs \X Procs |-> <<>>]
      /\ held = [p \in Procs |-> Nothing]
  BY DEF Init
<1> DEFINE N == Len(session)
           sz == [c \in 1 .. N |-> 0]
<1>3. /\ grid \in (Nat \ {0}) \X (Nat \ {0}) /\ Sequential(session)
      /\ Sequential(file.texts) /\ file.texts # <<>> /\ "texts" \in DOMAIN file
      /\ \A k \in DOMAIN file.texts : Sequential(file.texts[k])
  BY <1>1, CasesAssumption
<1>4. N \in Nat
  BY <1>3 DEF Sequential
<1>5. P \in Nat \ {0} /\ (grid = <<1, 1>> => P = 1)
  <2>1. grid[1] \in Nat \ {0} /\ grid[2] \in Nat \ {0}
    BY <1>3
  <2> DEFINE a == grid[1]
             b == grid[2]
  <2>2. a \in Nat \ {0} /\ b \in Nat \ {0} /\ P = a * b /\ (grid = <<1, 1>> => a = 1 /\ b = 1)
    BY <2>1 DEF P
  <2> HIDE DEF a, b
  <2>3. a * b >= 1 * b
    BY <2>2
  <2>4. QED
    BY <2>2, <2>3
<1>6. Procs = 0 .. P - 1 /\ 0 \in Procs
  BY <1>5 DEF Procs
<1>7. CaseOK
  <2>1. (P = 1 \/ Matched(case)) /\ Cleared(case)
    BY <1>1, <1>5
  <2>2. QED
    BY <1>1, <2>1 DEF CaseOK
<1>8. FileIs(file)
  BY <1>3 DEF FileIs
<1>9. Settings(P, session, sz)
  BY <1>4, <1>5 DEF Settings
<1>10. \A p \in 0 .. P - 1 : /\ RecordOK(me[p]) /\ me[p].at = 1 /\ me[p].pc = "idle"
                             /\ me[p].met = 0
  BY <1>2, <1>6 DEF RecordOK
<1> HIDE DEF sz
<1>11. \A p \in 0 .. P - 1 : MeOK(P, session, sz, p, me[p])
  BY <1>4, <1>10 DEF MeOK
<1>12. \A p \in 0 .. P - 1 : HeldOK(session, sz, me[p], held[p])
  BY <1>2, <1>6, <1>10 DEF HeldOK, Nothing
<1>13. RestOK(P, session[me[0].at], me[0], sz[me[0].at], rest)
  BY <1>6, <1>10 DEF RestOK
<1>14. MailIs(P, mail)
  <2>1. Sequential(<<>>) /\ DOMAIN <<>> = {}
    BY NoMessages DEF Carries
  <2>2. QED
    BY <1>2, <1>6, <2>1 DEF MailIs
<1>15. LinesAre(P, session, sz, me, mail)
  <2> SUFFICES ASSUME NEW kind \in Kinds, NEW q \in 1 .. P - 1
               PROVE  LineIs(P, session, sz, kind, q, me, mail)
    BY DEF LinesAre
  <2> DEFINE b == Before(P, session, sz, kind, q)
  <2>1. /\ Sender(kind, q) \in {0, q} /\ Receiver(kind, q) \in {0, q}
        /\ {0, q} \subseteq 0 .. P - 1
        /\ Line(kind, q) = <<Sender(kind, q), Receiver(kind, q)>>
    BY <1>5 DEF Sender, Receiver, Line
  <2>2. mail[Line(kind, q)] = <<>>
    BY <1>2, <1>6, <2>1
  <2>3. ASSUME NEW p \in {0, q}
        PROVE  Total(P, session, sz, kind, q, p, me[p]) = b[1] /\ b[1] \in Nat
    <3>1. MeOK(P, session, sz, p, me[p]) /\ me[p].pc = "idle" /\ me[p].at = 1
      BY <1>10, <1>11, <2>1
    <3> HIDE DEF b
    <3>2. /\ Total(P, session, sz, kind, q, p, me[p])
               = Before(P, session, sz, kind, q)[me[p].at]
          /\ Before(P, session, sz, kind, q)[me[p].at] \in Nat
      BY <1>9, <3>1, TotalBetween
    <3>3. QED
      BY <3>1, <3>2 DEF b
  <2>4. Carries(<<>>, kind[2], <<>>) /\ Len(<<>>) = 0
    BY NoMessages
  <2> HIDE DEF b
  <2>5. LineOK(P, session, sz, kind, q, <<>>, b[1], b[1])
    <3>1. b[1] \in Nat
      BY <2>3
    <3>2. Len(<<>>) + b[1] = b[1]
      BY <2>4, <3>1
    <3>3. \A j \in 1 .. Len(<<>>) :
            Content(P, session, sz, kind, q, b[1] + j, <<>>[j])
      BY <2>4
    <3>4. QED
      BY <2>4, <3>2, <3>3 DEF LineOK
  <2>6. QED
    BY <2>1, <2>2, <2>3, <2>5 DEF LineIs
<1>16. SizesAre(P, session, sz, me, file)
  <2>1. \A c \in 1 .. N, p \in 0 .. P - 1 : ~Knows(c, p, me[p])
    BY <1>4, <1>10 DEF Knows, Resting
  <2>2. QED
    BY <2>1 DEF SizesAre
<1>17. MetAre(P, session, me)
  <2> DEFINE h == [c \in 1 .. N |-> Barriers(session[c])]
  <2>1. \A c \in 1 .. N : Barriers(session[c]) \in Nat
    BY DEF Barriers, Bit
  <2>2. h \in [1 .. N -> Nat] /\ Barred(session) = Acc(N, h)
    BY <2>1 DEF Barred
  <2> HIDE DEF h
  <2>3. Barred(session)[1] = 0
    BY <1>4, <2>2, AccSums DEF Sums
  <2>4. \A p \in 0 .. P - 1 : Arrived(session, me[p]) = 0 /\ Passed(session, me[p]) = 0
    BY <1>10, <2>3 DEF Arrived, Passed, Bit
  <2>5. QED
    BY <1>10, <2>4 DEF MetAre
<1>18. Fine(P, session, sz, me, mail, held, rest, file)
  BY <1>9, <1>11, <1>12, <1>13, <1>14, <1>15, <1>16 DEF Fine
<1>19. DOMAIN me = Procs /\ DOMAIN held = Procs /\ sz \in Sizings
  BY <1>2, <1>9 DEF Settings, Sizings
<1>20. QED
  BY <1>7, <1>8, <1>17, <1>18, <1>19 DEF IInv

(* Between two calls every message has been taken.                         *)
LEMMA LineDone ==
  ASSUME NEW np, NEW ss, NEW sz, NEW kind, NEW q, NEW s, Sequential(s),
         NEW n \in Nat, LineOK(np, ss, sz, kind, q, s, n, n)
  PROVE  \A x \in DOMAIN s : s[x].tag # kind[2]
<1>1. PICK buf : Carries(s, kind[2], buf) /\ Len(buf) + n = n
  BY DEF LineOK
<1>2. Len(buf) \in Nat
  BY <1>1 DEF Carries, Sequential
<1>3. Len(buf) = 0
  BY <1>1, <1>2
<1>4. PICK f : Picks(f, s, kind[2], buf)
  BY <1>1 DEF Carries
<1>5. \A x \in DOMAIN s : s[x].tag = kind[2] <=> \E j \in 1 .. 0 : f[j] = x
  BY <1>3, <1>4 DEF Picks
<1>6. QED
  BY <1>5

LEMMA AllTaken ==
  ASSUME IInv
  PROVE  NoneLeft
<1> SUFFICES ASSUME NEW k \in 2 .. Len(session) + 1, Between(k), NEW pair \in DOMAIN mail
             PROVE  mail[pair] = <<>>
  BY DEF NoneLeft
<1>1. PICK sz : Now(sz)
  BY Setup
<1>2. P \in Nat \ {0} /\ Procs = 0 .. P - 1
  BY Setup
<1>3. Good(P, session, sz, me, mail)
  BY <1>1 DEF Now, Fine, Good
<1>4. Settings(P, session, sz) /\ MailIs(P, mail) /\ LinesAre(P, session, sz, me, mail)
      /\ \A p \in 0 .. P - 1 : MeOK(P, session, sz, p, me[p])
  BY <1>3 DEF Good
<1> DEFINE s == mail[pair]
<1>5. Sequential(s) /\ \A x \in DOMAIN s : s[x].tag \in Tags
  BY <1>4 DEF MailIs
<1>6. ASSUME NEW dir \in {"down", "up"}, NEW q \in 1 .. P - 1,
             pair = IF dir = "down" THEN <<0, q>> ELSE <<q, 0>>, NEW t \in Tags
      PROVE  \A x \in DOMAIN s : s[x].tag # t
  <2> DEFINE kind == <<dir, t>>
             b == Before(P, session, sz, kind, q)
  <2>1. kind \in Kinds /\ kind[1] = dir /\ kind[2] = t
    BY DEF Kinds
  <2>2. /\ Line(kind, q) = pair /\ Sender(kind, q) \in {0, q} /\ Receiver(kind, q) \in {0, q}
        /\ {0, q} \subseteq 0 .. P - 1
    BY <1>2, <1>6, <2>1 DEF Line, Sender, Receiver
  <2>3. ASSUME NEW p \in {0, q}
        PROVE  Total(P, session, sz, kind, q, p, me[p]) = b[k] /\ b[k] \in Nat
    <3>1. MeOK(P, session, sz, p, me[p]) /\ me[p].pc = "idle" /\ me[p].at = k
      BY <1>2, <1>4, <2>2 DEF Between
    <3> HIDE DEF b, kind
    <3>2. /\ Total(P, session, sz, kind, q, p, me[p])
               = Before(P, session, sz, kind, q)[me[p].at]
          /\ Before(P, session, sz, kind, q)[me[p].at] \in Nat
      BY <1>4, <2>1, <3>1, TotalBetween
    <3>3. QED
      BY <3>1, <3>2 DEF b
  <2> HIDE DEF b, kind
  <2>4. LineIs(P, session, sz, kind, q, me, mail)
    BY <1>4, <2>1 DEF LinesAre
  <2>5. LineOK(P, session, sz, kind, q, s, b[k], b[k]) /\ b[k] \in Nat
    BY <2>2, <2>3, <2>4 DEF LineIs
  <2> HIDE DEF s
  <2>6. \A x \in DOMAIN s : s[x].tag # kind[2]
    BY <1>5, <2>5, LineDone
  <2>7. QED
    BY <2>1, <2>6
<1>7. CASE (pair[1] = 0) = (pair[2] = 0)
  BY <1>4, <1>7 DEF MailIs
<1>8. CASE (pair[1] = 0) # (pair[2] = 0)
  <2>1. pair \in (0 .. P - 1) \X (0 .. P - 1)
    BY <1>4 DEF MailIs
  <2>2. pair = <<pair[1], pair[2]>> /\ pair[1] \in 0 .. P - 1 /\ pair[2] \in 0 .. P - 1
    BY <2>1
  <2>3. \A t \in Tags : \A x \in DOMAIN s : s[x].tag # t
    <3>1. CASE pair[1] = 0
      <4>1. pair[2] \in 1 .. P - 1 /\ pair = <<0, pair[2]>>
        BY <1>8, <2>2, <3>1
      <4>2. QED
        BY <1>6, <4>1
    <3>2. CASE pair[1] # 0
      <4>1. pair[1] \in 1 .. P - 1 /\ pair = <<pair[1], 0>>
        BY <1>8, <2>2, <3>2
      <4>2. QED
        BY <1>6, <4>1
    <3>3. QED
      BY <3>1, <3>2
  <2>4. DOMAIN s = {}
    BY <1>5, <2>3
  <2> HIDE DEF s
  <2>5. Len(s) \in Nat /\ DOMAIN s = 1 .. Len(s) /\ s = [x \in 1 .. Len(s) |-> s[x]]
    BY <1>5, AsSeq DEF Sequential
  <2>6. Len(s) = 0
    BY <2>4, <2>5
  <2>7. s = <<>>
    BY <2>5, <2>6
  <2>8. QED
    BY <2>7 DEF s
<1>9. QED
  BY <1>7, <1>8

LEMMA StepKeeps ==
  ASSUME IInv, NEW p \in Procs, Step(p)
  PROVE  IInv'
<1>1. CASE ReadAlone(p) \/ WriteAlone(p)
  BY <1>1, ReadAloneKeeps, WriteAloneKeeps
<1>2. CASE FirstPassAt(p) \/ Broadcast(p) \/ OpenHDF5(p)
  BY <1>2, FirstPassAtKeeps, BroadcastKeeps, OpenHDF5Keeps
<1>3. CASE \/ DistBlock(p) \/ DirDistBlock(p) \/ HdfsDistBlock(p) \/ MlDenseBlock(p)
           \/ MlHDF5DenseBlock(p) \/ HDF5DistBlock(p)
  BY <1>3, BlocksKeep
<1>4. CASE TakeBlock(p) \/ AfterBlocks(p)
  BY <1>4, TakeBlockKeeps, AfterBlocksKeeps
<1>5. CASE ReadUpdates(p) \/ SendList(p) \/ ScatterLabels(p) \/ ReceiveList(p)
  BY <1>5, ReadUpdatesKeeps, SendListKeeps, ScatterLabelsKeeps, ReceiveListKeeps
<1>6. CASE AllReady(p) \/ KeepShare(p) \/ SendShare(p) \/ ReceiveShare(p)
  BY <1>6, AllReadyKeeps, KeepShareKeeps, SendShareKeeps, ReceiveShareKeeps
<1>7. CASE AfterShares(p) \/ Leave(p)
  BY <1>7, AfterSharesKeeps, LeaveKeeps
<1>8. CASE \/ Width(p) \/ Summed(p) \/ SendPart(p) \/ CollectPart(p)
           \/ AfterCollecting(p)
  BY <1>8, WidthKeeps, SummedKeeps, SendPartKeeps, CollectPartKeeps, AfterCollectingKeeps
<1>9. CASE OpenToWrite(p) \/ GatherBlock(p) \/ AfterGathering(p)
  BY <1>9, OpenToWriteKeeps, GatherBlockKeeps, AfterGatheringKeeps
<1>10. QED
  BY <1>1, <1>2, <1>3, <1>4, <1>5, <1>6, <1>7, <1>8, <1>9 DEF Step

LEMMA StutterKeeps ==
  ASSUME IInv, UNCHANGED vars
  PROVE  IInv'
<1>1. PICK sz \in Sizings : Fine(P, session, sz, me, mail, held, rest, file)
  BY DEF IInv
<1>2. /\ UNCHANGED given /\ file' = file /\ me' = me /\ held' = held /\ mail' = mail
      /\ rest' = rest
  BY DEF vars, given
<1>3. /\ FileIs(file) /\ MetAre(P, session, me)
      /\ DOMAIN me = Procs /\ DOMAIN held = Procs
  BY DEF IInv
<1>4. QED
  BY <1>1, <1>2, <1>3, Concluded

(* Whatever one process sent the others took before the call ended: for    *)
(* every session of calls that match, every file, any number of processes. *)
THEOREM NothingLeft ==
  ASSUME \A case \in Cases : Cleared(case) /\ (case.grid = <<1, 1>> \/ Matched(case))
  PROVE  Spec => []NoneLeft
<1>1. Init => IInv
  BY Beginning
<1>2. IInv /\ [Next]_vars => IInv'
  BY StepKeeps, StutterKeeps DEF Next
<1>3. IInv => NoneLeft
  BY AllTaken
<1>4. QED
  BY <1>1, <1>2, <1>3, PTL DEF Spec
=============================================================================
